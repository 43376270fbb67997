---------------------------- MODULE SamlSequence ----------------------------
(***************************************************************************)
(* The SAML load test of src/etc/loadtests/locust/cas/samlLocust.py.  Each *)
(* user runs SAMLTaskSet, a TaskSequence of seq_task 1 (login) and         *)
(* seq_task 2 (logout) on one HTTP session, round and round.  The login    *)
(* task makes three requests, each followed through its redirects:        *)
(*   1. GET the SP's protected page; the SP sends the browser to the CAS   *)
(*      IdP, which sends it to /cas/login?service=<callback carrying       *)
(*      SAMLRequest and RelayState>; scrape those two parameters from the  *)
(*      final URL and execution/_eventId from the page;                    *)
(*   2. POST the credentials; CAS and its SAML IdP answer with the         *)
(*      auto-post form carrying RelayState and SAMLResponse;               *)
(*   3. POST those to the SP's assertion consumer, which opens an SP       *)
(*      session and shows the protected page ("PHP Variables").           *)
(* Failures raise StopLocust (the user stops); the final check is an       *)
(* assert, whose AssertionError Locust logs before moving on to logout.    *)
(*                                                                         *)
(* Besides the CAS server's TGT (SamlServer) the SP keeps a session of its  *)
(* own, spSess[u], named by a cookie in the same HTTP session.  Whether    *)
(* /cas/logout ends it depends on the deployment: with single logout to   *)
(* the SP (SloToSp) the IdP tells the SP, otherwise the SP session lives  *)
(* on.                                                                     *)
(***************************************************************************)
EXTENDS SamlServer

CONSTANT SloToSp   \* /cas/logout ends the user's SP session

ASSUME SloAssumption == SloToSp \in BOOLEAN

VARIABLES
  pc,        \* the user's next step
  jar,       \* the HTTP session holds a TGC cookie
  spSess,    \* the HTTP session holds the cookie of a live SP session
  cred,      \* the credential row picked by random.choice
  reported   \* the last login task printed "SAML Successful Run!"

userVars == <<pc, jar, spSess, cred, reported>>
vars == <<pc, jar, spSess, cred, reported, tgt, st>>

Labels == {"login", "post", "acs", "logout", "stopped"}

TypeOK ==
  /\ pc \in [Users -> Labels]
  /\ jar \in [Users -> BOOLEAN]
  /\ spSess \in [Users -> BOOLEAN]
  /\ cred \in [Users -> Creds \cup {NoCred}]
  /\ reported \in [Users -> BOOLEAN]
  /\ tgt \in [Users -> BOOLEAN]
  /\ st \in [Users -> BOOLEAN]

Init ==
  /\ ServerInit
  /\ pc = [u \in Users |-> "login"]
  /\ jar = [u \in Users |-> FALSE]
  /\ spSess = [u \in Users |-> FALSE]
  /\ cred = [u \in Users |-> NoCred]
  /\ reported = [u \in Users |-> FALSE]

Goto(u, l) == pc' = [pc EXCEPT ![u] = l]

Stop(u) == Goto(u, "stopped")

(* seq_task(1), up to the credentials POST: the RelayState and            *)
(* SAMLRequest checks, the execution and _eventId checks, random.choice. *)
SpGet(u) ==
  /\ pc[u] = "login"
  /\ reported' = [reported EXCEPT ![u] = FALSE]
  /\ \E params \in SUBSET RedirectParams, fields \in SUBSET LoginFields :
       /\ GetSpProtected(u, spSess[u], jar[u], params, fields)
       /\ \/ "RelayState" \notin params /\ Stop(u) /\ UNCHANGED cred
          \/ /\ "RelayState" \in params /\ "SAMLRequest" \notin params
             /\ Stop(u) /\ UNCHANGED cred
          \/ /\ RedirectParams \subseteq params /\ "execution" \notin fields
             /\ Stop(u) /\ UNCHANGED cred
          \/ /\ RedirectParams \subseteq params
             /\ "execution" \in fields /\ "_eventId" \notin fields
             /\ Stop(u) /\ UNCHANGED cred
          \/ /\ RedirectParams \subseteq params /\ LoginFields \subseteq fields
             /\ Creds = {}
             /\ Goto(u, "logout") /\ UNCHANGED cred
          \/ /\ RedirectParams \subseteq params /\ LoginFields \subseteq fields
             /\ \E c \in Creds : cred' = [cred EXCEPT ![u] = c]
             /\ Goto(u, "post")
  /\ jar' = [jar EXCEPT ![u] = SpKeptTgc(u, spSess[u], @)]
  /\ UNCHANGED spSess

(* Submit the credentials, then scrape RelayState (unescaping &#x3a;) and *)
(* SAMLResponse from the IdP's reply.                                     *)
SamlLoginPost(u) ==
  /\ pc[u] = "post"
  /\ \E fields \in SUBSET AssertionFields, tgc \in BOOLEAN :
       /\ PostSamlCredentials(u, cred[u], fields, tgc)
       /\ jar' = [jar EXCEPT ![u] = @ \/ tgc]
       /\ \/ "RelayState" \notin fields /\ Stop(u)
          \/ "RelayState" \in fields /\ "SAMLResponse" \notin fields /\ Stop(u)
          \/ AssertionFields \subseteq fields /\ Goto(u, "acs")
  /\ UNCHANGED <<spSess, cred, reported>>

(* Mutant: a rejected assertion sends the user back to the login task.    *)
SpAcsPostRestart(u) ==
  /\ pc[u] = "acs"
  /\ \E accept \in BOOLEAN :
       /\ SpAcceptsAssertion(accept)
       /\ \/ /\ accept
             /\ spSess' = [spSess EXCEPT ![u] = TRUE]
             /\ reported' = [reported EXCEPT ![u] = TRUE]
             /\ Goto(u, "logout")
          \/ /\ ~accept
             /\ Goto(u, "login")
             /\ UNCHANGED <<spSess, reported>>
  /\ UNCHANGED <<jar, cred, tgt, st>>

(* POST RelayState and SAMLResponse to SP + SP_LOGIN.  An accepted         *)
(* assertion opens the SP session and the protected page matches           *)
(* "PHP Variables"; a rejected one fails the assert, and Locust moves on  *)
(* to the logout task.                                                     *)
SpAcsPost(u) ==
  /\ pc[u] = "acs"
  /\ \E accept \in BOOLEAN :
       /\ SpAcceptsAssertion(accept)
       /\ \/ /\ accept
             /\ spSess' = [spSess EXCEPT ![u] = TRUE]
             /\ reported' = [reported EXCEPT ![u] = TRUE]
             /\ Goto(u, "logout")
          \/ /\ ~accept
             /\ Goto(u, "logout")
             /\ UNCHANGED <<spSess, reported>>
  /\ UNCHANGED <<jar, cred, tgt, st>>

(* seq_task(2): GET /cas/logout.  The TGT and the TGC cookie go; the SP   *)
(* session goes only when the IdP propagates the logout to the SP.       *)
SamlLogout(u) ==
  /\ pc[u] = "logout"
  /\ ServerLogout(u, jar[u])
  /\ jar' = [jar EXCEPT ![u] = FALSE]
  /\ spSess' = [spSess EXCEPT ![u] = @ /\ ~SloToSp]
  /\ Goto(u, "login")
  /\ UNCHANGED <<cred, reported>>

UserStep(u) == SpGet(u) \/ SamlLoginPost(u) \/ SpAcsPost(u) \/ SamlLogout(u)

ServerStep(u) == ExpireTgt(u) /\ UNCHANGED userVars

Next == \E u \in Users : UserStep(u) \/ ServerStep(u)

Spec == Init /\ [][Next]_vars

-----------------------------------------------------------------------------
(* The refinement mapping onto the spec's per-session flow, as for         *)
(* cas5/casLocust.py: the IdP's auto-post form is the ticket the flow     *)
(* obtains, and the SP's acceptance of the assertion its validation.  A   *)
(* user about to log out without having reported success is in the       *)
(* middle of an aborted flow.                                             *)
AbsFlow ==
  [u \in Users |->
     IF pc[u] = "post" THEN "TokensExtracted"
     ELSE IF pc[u] = "acs" THEN "TicketObtained"
     ELSE IF pc[u] = "login" THEN
       IF reported[u] THEN "LoggedOut" ELSE "Start"
     ELSE IF pc[u] = "logout" /\ reported[u] THEN "Validated"
     ELSE "Aborted"]

Flow == INSTANCE LoginFlow WITH flow <- AbsFlow

-----------------------------------------------------------------------------
(* A user begins each login task outside every session: no live SP       *)
(* session (else the SP serves its page and no RelayState comes back) and *)
(* no live SSO session (else the IdP answers without a login form).  The *)
(* logout task must undo what the previous round set up, whichever way   *)
(* that round ended.                                                       *)
NoSessionAtLoginStart ==
  \A u \in Users : pc[u] = "login" => ~spSess[u] /\ ~(jar[u] /\ tgt[u])

(* Against a correct IdP and SP and a credential file the server         *)
(* accepts, no user is ever stopped (spec 8: every session logs in and    *)
(* then logs out).                                                         *)
HonestSamlNeverStops ==
  (Faults = {} /\ ValidCreds = Creds) => \A u \in Users : pc[u] # "stopped"

(* samlLocust.py implements the spec's session flow: every step of a user *)
(* is a step of LoginFlow, and an aborted flow makes no further request.  *)
SamlFlowRefined == Flow!Spec

=============================================================================
