---------------------------- MODULE CasSequence ----------------------------
(***************************************************************************)
(* The CAS-protocol load test of src/etc/loadtests/locust/cas5/casLocust.py *)
(* Each Locust user runs CASTaskSet, a TaskSequence: seq_task 1 (login)    *)
(* then seq_task 2 (logout), round and round, on one HTTP session.  The   *)
(* login task makes three requests (GET the login form, POST the           *)
(* credentials, GET serviceValidate); each request and the code that       *)
(* reads its reply up to the next request is one step, since a Locust     *)
(* user yields only while waiting on the network.                         *)
(*                                                                         *)
(* How a task ends decides the next step (Locust's TaskSequence loop):     *)
(*   - the task returns: the sequence moves on to the next seq_task;      *)
(*   - it raises StopLocust: the user stops for good ("stopped");         *)
(*   - it raises any other exception (AssertionError, AttributeError,     *)
(*     IndexError): Locust logs it and the sequence moves on to the next  *)
(*     seq_task all the same.                                              *)
(***************************************************************************)
EXTENDS CasServer

VARIABLES
  pc,        \* the user's next step
  jar,       \* the HTTP session holds a TGC cookie
  cred,      \* the credential row picked by random.choice
  reported   \* the last login task printed "CAS Succesful Run!"

userVars == <<pc, jar, cred, reported>>
vars == <<pc, jar, cred, reported, tgt, st>>

Labels == {"login", "post", "validate", "logout", "stopped"}

TypeOK ==
  /\ pc \in [Users -> Labels]
  /\ jar \in [Users -> BOOLEAN]
  /\ cred \in [Users -> Creds \cup {NoCred}]
  /\ reported \in [Users -> BOOLEAN]
  /\ tgt \in [Users -> BOOLEAN]
  /\ st \in [Users -> BOOLEAN]

Init ==
  /\ ServerInit
  /\ pc = [u \in Users |-> "login"]
  /\ jar = [u \in Users |-> FALSE]
  /\ cred = [u \in Users |-> NoCred]
  /\ reported = [u \in Users |-> FALSE]

Goto(u, l) == pc' = [pc EXCEPT ![u] = l]

(* raise StopLocust()                                                      *)
Stop(u) == Goto(u, "stopped")

(* seq_task(1): GET /cas/login?service=CAS_SP, scrape execution and        *)
(* _eventId, pick a credential row.  random.choice of an empty list       *)
(* raises IndexError.                                                      *)
LoginGet(u) ==
  /\ pc[u] = "login"
  /\ reported' = [reported EXCEPT ![u] = FALSE]
  /\ \E fields \in SUBSET LoginFields :
       /\ GetLoginPage(u, jar[u], fields)
       /\ \/ /\ "execution" \notin fields
             /\ Stop(u) /\ UNCHANGED cred
          \/ /\ "execution" \in fields /\ "_eventId" \notin fields
             /\ Stop(u) /\ UNCHANGED cred
          \/ /\ LoginFields \subseteq fields /\ Creds = {}
             /\ Goto(u, "logout") /\ UNCHANGED cred
          \/ /\ LoginFields \subseteq fields
             /\ \E c \in Creds : cred' = [cred EXCEPT ![u] = c]
             /\ Goto(u, "post")
  /\ jar' = [jar EXCEPT ![u] = KeptTgc(u, @)]

(* Mutant: the POST follows the redirect (allow_redirects=True), so the  *)
(* reply is the service's page and its next is always None.               *)
LoginPostFollowRedirects(u) ==
  /\ pc[u] = "post"
  /\ \E r \in PostReplies :
       /\ PostCredentials(u, cred[u], r)
       /\ jar' = [jar EXCEPT ![u] = @ \/ r.tgc]
       /\ Goto(u, "logout")
  /\ UNCHANGED <<cred, reported>>

(* POST the credentials without following the redirect, then read the     *)
(* ticket from cas_login_response.next.url.  A reply that is not a        *)
(* redirect has next = None, and None.url raises AttributeError.          *)
LoginPost(u) ==
  /\ pc[u] = "post"
  /\ \E r \in PostReplies :
       /\ PostCredentials(u, cred[u], r)
       /\ jar' = [jar EXCEPT ![u] = @ \/ r.tgc]
       /\ \/ ~r.redirect /\ Goto(u, "logout")
          \/ r.redirect /\ ~r.ticket /\ Stop(u)
          \/ r.redirect /\ r.ticket /\ Goto(u, "validate")
  /\ UNCHANGED <<cred, reported>>

(* Mutant: an exception in the login task sends the user back to the      *)
(* login task instead of on to logout.                                      *)
ServiceValidateRestart(u) ==
  /\ pc[u] = "validate"
  /\ \E r \in ValidateReplies :
       /\ ValidateTicket(u, r)
       /\ \/ r.status # 200 /\ Goto(u, "login") /\ UNCHANGED reported
          \/ /\ r.status = 200 /\ r.success
             /\ reported' = [reported EXCEPT ![u] = TRUE]
             /\ Goto(u, "logout")
          \/ r.status = 200 /\ ~r.success /\ Stop(u) /\ UNCHANGED reported
  /\ UNCHANGED <<jar, cred>>

(* Mutant: a body without <cas:authenticationSuccess> does not stop the   *)
(* user.                                                                    *)
ServiceValidateNoStop(u) ==
  /\ pc[u] = "validate"
  /\ \E r \in ValidateReplies :
       /\ ValidateTicket(u, r)
       /\ \/ r.status # 200 /\ Goto(u, "logout") /\ UNCHANGED reported
          \/ /\ r.status = 200 /\ r.success
             /\ reported' = [reported EXCEPT ![u] = TRUE]
             /\ Goto(u, "logout")
          \/ r.status = 200 /\ ~r.success /\ Goto(u, "logout")
             /\ UNCHANGED reported
  /\ UNCHANGED <<jar, cred>>

(* GET /cas/serviceValidate; "assert ticket_status is 200" raises          *)
(* AssertionError on another status; a body without                        *)
(* <cas:authenticationSuccess> raises StopLocust.                          *)
ServiceValidate(u) ==
  /\ pc[u] = "validate"
  /\ \E r \in ValidateReplies :
       /\ ValidateTicket(u, r)
       /\ \/ r.status # 200 /\ Goto(u, "logout") /\ UNCHANGED reported
          \/ /\ r.status = 200 /\ r.success
             /\ reported' = [reported EXCEPT ![u] = TRUE]
             /\ Goto(u, "logout")
          \/ r.status = 200 /\ ~r.success /\ Stop(u) /\ UNCHANGED reported
  /\ UNCHANGED <<jar, cred>>

(* seq_task(2): GET /cas/logout; the server's reply deletes the TGC       *)
(* cookie.  The sequence then wraps around to seq_task(1).                *)
Logout(u) ==
  /\ pc[u] = "logout"
  /\ ServerLogout(u, jar[u])
  /\ jar' = [jar EXCEPT ![u] = FALSE]
  /\ Goto(u, "login")
  /\ UNCHANGED <<cred, reported>>

UserStep(u) == LoginGet(u) \/ LoginPost(u) \/ ServiceValidate(u) \/ Logout(u)

ServerStep(u) == (ExpireTgt(u) \/ ExpireSt(u)) /\ UNCHANGED userVars

Next == \E u \in Users : UserStep(u) \/ ServerStep(u)

Spec == Init /\ [][Next]_vars

(* Locust schedules every user greenlet, and every request returns (a     *)
(* hung request is outside the model), so no running user waits forever. *)
FairSpec == Spec /\ \A u \in Users : WF_vars(UserStep(u))

-----------------------------------------------------------------------------
(* The refinement mapping onto the spec's per-session flow.  A user that  *)
(* is about to log out without having reported success is in the middle  *)
(* of an aborted flow.                                                     *)
AbsFlow ==
  [u \in Users |->
     IF pc[u] = "post" THEN "TokensExtracted"
     ELSE IF pc[u] = "validate" THEN "TicketObtained"
     ELSE IF pc[u] = "login" THEN
       IF reported[u] THEN "LoggedOut" ELSE "Start"
     ELSE IF pc[u] = "logout" /\ reported[u] THEN "Validated"
     ELSE "Aborted"]

Flow == INSTANCE LoginFlow WITH flow <- AbsFlow

-----------------------------------------------------------------------------
(* A user never begins a login while its HTTP session still holds the TGC *)
(* of a live SSO session: every path out of a login task (success, a      *)
(* caught exception) passes through the logout task, which ends the      *)
(* session.  If it did, GET /cas/login would redirect straight to the     *)
(* service and the login task would find no form and abort.               *)
NoSsoAtLoginStart ==
  \A u \in Users : pc[u] = "login" => ~(jar[u] /\ tgt[u])

(* Against a correct server and a credential file the server accepts,     *)
(* every user keeps completing logins that report success (spec 8, the    *)
(* end-to-end scenario, for every round of the sequence).                 *)
KeepsLoggingIn ==
  \A u \in Users : []<>(pc[u] = "logout" /\ reported[u])

(* The scripts implement the spec's session flow: every step of a user is *)
(* a step of LoginFlow, in particular an aborted flow makes no further    *)
(* request.                                                                 *)
LoginFlowRefined == Flow!Spec

=============================================================================
