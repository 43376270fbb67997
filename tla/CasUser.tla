------------------------------ MODULE CasUser ------------------------------
(***************************************************************************)
(* The CAS-protocol load test of src/etc/loadtests/locust/cas/casLocust.py *)
(* (Locust 1.x API).  CASLocust is an HttpUser with two independent tasks, *)
(* login (weight 1) and logout (weight 2): after each task Locust picks   *)
(* the next one at random by weight, so any order of the two is possible, *)
(* login after login included.  The login task's requests are those of    *)
(* cas5/casLocust.py; its failures raise InterruptTaskSet, which, raised   *)
(* from a task of a User rather than of a nested TaskSet, interrupts the  *)
(* user ("stopped").  Other exceptions are logged and the user picks its  *)
(* next task.                                                              *)
(***************************************************************************)
EXTENDS CasServer

VARIABLES
  pc,        \* "idle" between tasks, else the next step of the login task
  jar,       \* the HTTP session holds a TGC cookie
  cred       \* the credential row picked by random.choice

userVars == <<pc, jar, cred>>
vars == <<pc, jar, cred, tgt, st>>

Labels == {"idle", "post", "validate", "stopped"}

TypeOK ==
  /\ pc \in [Users -> Labels]
  /\ jar \in [Users -> BOOLEAN]
  /\ cred \in [Users -> Creds \cup {NoCred}]
  /\ tgt \in [Users -> BOOLEAN]
  /\ st \in [Users -> BOOLEAN]

Init ==
  /\ ServerInit
  /\ pc = [u \in Users |-> "idle"]
  /\ jar = [u \in Users |-> FALSE]
  /\ cred = [u \in Users |-> NoCred]

Goto(u, l) == pc' = [pc EXCEPT ![u] = l]

(* raise InterruptTaskSet()                                               *)
Interrupt(u) == Goto(u, "stopped")

(* @task(1) login: GET /cas/login?service=CAS_SP, scrape execution and    *)
(* _eventId, pick a credential row (IndexError if there is none).         *)
LoginGet(u) ==
  /\ pc[u] = "idle"
  /\ \E fields \in SUBSET LoginFields :
       /\ GetLoginPage(u, jar[u], fields)
       /\ \/ /\ "execution" \notin fields
             /\ Interrupt(u) /\ UNCHANGED cred
          \/ /\ "execution" \in fields /\ "_eventId" \notin fields
             /\ Interrupt(u) /\ UNCHANGED cred
          \/ /\ LoginFields \subseteq fields /\ Creds = {}
             /\ UNCHANGED <<pc, cred>>
          \/ /\ LoginFields \subseteq fields
             /\ \E c \in Creds : cred' = [cred EXCEPT ![u] = c]
             /\ Goto(u, "post")
  /\ jar' = [jar EXCEPT ![u] = KeptTgc(u, @)]

(* POST the credentials, read the ticket from next.url (AttributeError    *)
(* when the reply is not a redirect).                                      *)
LoginPost(u) ==
  /\ pc[u] = "post"
  /\ \E r \in PostReplies :
       /\ PostCredentials(u, cred[u], r)
       /\ jar' = [jar EXCEPT ![u] = @ \/ r.tgc]
       /\ \/ ~r.redirect /\ Goto(u, "idle")
          \/ r.redirect /\ ~r.ticket /\ Interrupt(u)
          \/ r.redirect /\ r.ticket /\ Goto(u, "validate")
  /\ UNCHANGED cred

(* GET /cas/serviceValidate: AssertionError on a status other than 200,  *)
(* InterruptTaskSet without <cas:authenticationSuccess>.                  *)
ServiceValidate(u) ==
  /\ pc[u] = "validate"
  /\ \E r \in ValidateReplies :
       /\ ValidateTicket(u, r)
       /\ \/ r.status # 200 /\ Goto(u, "idle")
          \/ r.status = 200 /\ r.success /\ Goto(u, "idle")
          \/ r.status = 200 /\ ~r.success /\ Interrupt(u)
  /\ UNCHANGED <<jar, cred>>

(* @task(2) logout: GET /cas/logout, whose reply deletes the TGC cookie. *)
Logout(u) ==
  /\ pc[u] = "idle"
  /\ ServerLogout(u, jar[u])
  /\ jar' = [jar EXCEPT ![u] = FALSE]
  /\ UNCHANGED <<pc, cred>>

UserStep(u) == LoginGet(u) \/ LoginPost(u) \/ ServiceValidate(u) \/ Logout(u)

ServerStep(u) == (ExpireTgt(u) \/ ExpireSt(u)) /\ UNCHANGED userVars

Next == \E u \in Users : UserStep(u) \/ ServerStep(u)

Spec == Init /\ [][Next]_vars

-----------------------------------------------------------------------------
(* Against a correct server and a credential file the server accepts, no  *)
(* login task is ever interrupted (spec 8: the session reports success    *)
(* and then logs out).                                                     *)
HonestServerNeverAborts ==
  (Faults = {} /\ ValidCreds = Creds) => \A u \in Users : pc[u] # "stopped"

=============================================================================
