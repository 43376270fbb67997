----------------------------- MODULE BothLocust -----------------------------
(***************************************************************************)
(* The combined load test of src/etc/loadtests/locust/cas/allLocust.py.   *)
(* Each user runs BasicTaskSet, whose two tasks are nested TaskSequences:  *)
(* CASTaskSet (weight 3) and SAMLTaskSet (weight 1).  The parent picks one *)
(* at random ("parent"); a fresh instance of the nested sequence starts at *)
(* its seq_task 1 (login) and runs until self.interrupt() returns control *)
(* to the parent.  Both nested sequences use the parent's HTTP session, so *)
(* the TGC cookie and the SP session cookie are shared between them.       *)
(*                                                                         *)
(* Unlike cas5/casLocust.py and samlLocust.py, every failed check calls    *)
(* self.interrupt(): the user is never stopped, but the nested sequence is *)
(* left WITHOUT its logout task.  Other exceptions (AttributeError from   *)
(* None.url, IndexError from random.choice([]), the SAML AssertionError) *)
(* are logged and the sequence moves on to its logout task, which always  *)
(* ends with self.interrupt().                                             *)
(***************************************************************************)
EXTENDS SamlServer

CONSTANT SloToSp   \* /cas/logout ends the user's SP session

ASSUME BothAssumption == SloToSp \in BOOLEAN

VARIABLES
  pc,        \* "parent", or the next step of the running nested sequence
  jar,       \* the HTTP session holds a TGC cookie
  spSess,    \* the HTTP session holds the cookie of a live SP session
  cred,      \* the credential row picked by random.choice
  reported   \* the running nested login printed its success line

userVars == <<pc, jar, spSess, cred, reported>>
vars == <<pc, jar, spSess, cred, reported, tgt, st>>

CasLabels == {"casLogin", "casPost", "casValidate", "casLogout"}
SamlLabels == {"samlLogin", "samlPost", "samlAcs", "samlLogout"}
Labels == {"parent"} \cup CasLabels \cup SamlLabels

TypeOK ==
  /\ pc \in [Users -> Labels]
  /\ jar \in [Users -> BOOLEAN]
  /\ spSess \in [Users -> BOOLEAN]
  /\ cred \in [Users -> Creds \cup {NoCred}]
  /\ reported \in [Users -> BOOLEAN]
  /\ tgt \in [Users -> BOOLEAN]
  /\ st \in [Users -> BOOLEAN]

Init ==
  /\ ServerInit
  /\ pc = [u \in Users |-> "parent"]
  /\ jar = [u \in Users |-> FALSE]
  /\ spSess = [u \in Users |-> FALSE]
  /\ cred = [u \in Users |-> NoCred]
  /\ reported = [u \in Users |-> FALSE]

Goto(u, l) == pc' = [pc EXCEPT ![u] = l]

(* self.interrupt(): back to the parent BasicTaskSet.                     *)
Interrupt(u) == Goto(u, "parent")

(* The parent runs @task(CAS_WEIGHT) CASTaskSet or @task(SAML_WEIGHT)     *)
(* SAMLTaskSet; a new instance starts at its first seq_task.              *)
PickCas(u) ==
  /\ pc[u] = "parent"
  /\ Goto(u, "casLogin")
  /\ reported' = [reported EXCEPT ![u] = FALSE]
  /\ UNCHANGED <<jar, spSess, cred, tgt, st>>

PickSaml(u) ==
  /\ pc[u] = "parent"
  /\ Goto(u, "samlLogin")
  /\ reported' = [reported EXCEPT ![u] = FALSE]
  /\ UNCHANGED <<jar, spSess, cred, tgt, st>>

(* CAS seq_task(1), up to the POST: GET /cas/login?service=CAS_SP (its    *)
(* redirects followed), the execution and _eventId checks, random.choice.*)
CasLoginGet(u) ==
  /\ pc[u] = "casLogin"
  /\ \E fields \in SUBSET LoginFields :
       /\ GetLoginPage(u, jar[u], fields)
       /\ \/ /\ "execution" \notin fields
             /\ Interrupt(u) /\ UNCHANGED cred
          \/ /\ "execution" \in fields /\ "_eventId" \notin fields
             /\ Interrupt(u) /\ UNCHANGED cred
          \/ /\ LoginFields \subseteq fields /\ Creds = {}
             /\ Goto(u, "casLogout") /\ UNCHANGED cred
          \/ /\ LoginFields \subseteq fields
             /\ \E c \in Creds : cred' = [cred EXCEPT ![u] = c]
             /\ Goto(u, "casPost")
  /\ jar' = [jar EXCEPT ![u] = KeptTgc(u, @)]
  /\ UNCHANGED <<spSess, reported>>

(* POST the credentials without following the redirect and read the      *)
(* ticket from next.url (AttributeError when there is no redirect).       *)
CasLoginPost(u) ==
  /\ pc[u] = "casPost"
  /\ \E r \in PostReplies :
       /\ PostCredentials(u, cred[u], r)
       /\ jar' = [jar EXCEPT ![u] = @ \/ r.tgc]
       /\ \/ ~r.redirect /\ Goto(u, "casLogout")
          \/ r.redirect /\ ~r.ticket /\ Interrupt(u)
          \/ r.redirect /\ r.ticket /\ Goto(u, "casValidate")
  /\ UNCHANGED <<spSess, cred, reported>>

(* GET /cas/serviceValidate; only the body is checked, for               *)
(* <cas:authenticationSuccess>, whatever the status.                      *)
CasValidate(u) ==
  /\ pc[u] = "casValidate"
  /\ \E r \in ValidateReplies :
       /\ ValidateTicket(u, r)
       /\ \/ /\ r.success
             /\ reported' = [reported EXCEPT ![u] = TRUE]
             /\ Goto(u, "casLogout")
          \/ ~r.success /\ Interrupt(u) /\ UNCHANGED reported
  /\ UNCHANGED <<jar, spSess, cred>>

(* CAS seq_task(2): GET /cas/logout, then self.interrupt().               *)
CasLogout(u) ==
  /\ pc[u] = "casLogout"
  /\ ServerLogout(u, jar[u])
  /\ jar' = [jar EXCEPT ![u] = FALSE]
  /\ Interrupt(u)
  /\ UNCHANGED <<spSess, cred, reported>>

(* SAML seq_task(1), up to the POST: GET the SP page through its          *)
(* redirects, the RelayState, SAMLRequest, execution and _eventId checks, *)
(* random.choice.                                                          *)
SamlSpGet(u) ==
  /\ pc[u] = "samlLogin"
  /\ \E params \in SUBSET RedirectParams, fields \in SUBSET LoginFields :
       /\ GetSpProtected(u, spSess[u], jar[u], params, fields)
       /\ \/ /\ ~(RedirectParams \subseteq params /\ LoginFields \subseteq fields)
             /\ Interrupt(u) /\ UNCHANGED cred
          \/ /\ RedirectParams \subseteq params /\ LoginFields \subseteq fields
             /\ Creds = {}
             /\ Goto(u, "samlLogout") /\ UNCHANGED cred
          \/ /\ RedirectParams \subseteq params /\ LoginFields \subseteq fields
             /\ \E c \in Creds : cred' = [cred EXCEPT ![u] = c]
             /\ Goto(u, "samlPost")
  /\ jar' = [jar EXCEPT ![u] = SpKeptTgc(u, spSess[u], @)]
  /\ UNCHANGED <<spSess, reported>>

(* POST the credentials to the IdP callback service, then scrape         *)
(* RelayState and SAMLResponse from the auto-post form.                   *)
SamlLoginPost(u) ==
  /\ pc[u] = "samlPost"
  /\ \E fields \in SUBSET AssertionFields, tgc \in BOOLEAN :
       /\ PostSamlCredentials(u, cred[u], fields, tgc)
       /\ jar' = [jar EXCEPT ![u] = @ \/ tgc]
       /\ \/ ~(AssertionFields \subseteq fields) /\ Interrupt(u)
          \/ AssertionFields \subseteq fields /\ Goto(u, "samlAcs")
  /\ UNCHANGED <<spSess, cred, reported>>

(* Mutant: a rejected assertion interrupts the sequence, as spec 7 says   *)
(* every failed check should, instead of failing an assert.               *)
SamlAcsInterrupt(u) ==
  /\ pc[u] = "samlAcs"
  /\ \E accept \in BOOLEAN :
       /\ SpAcceptsAssertion(accept)
       /\ \/ /\ accept
             /\ spSess' = [spSess EXCEPT ![u] = TRUE]
             /\ reported' = [reported EXCEPT ![u] = TRUE]
             /\ Goto(u, "samlLogout")
          \/ ~accept /\ Interrupt(u) /\ UNCHANGED <<spSess, reported>>
  /\ UNCHANGED <<jar, cred, tgt, st>>

(* POST the assertion to SP + SP_LOGIN.  A rejected one fails the assert; *)
(* Locust logs the AssertionError and runs the logout task.               *)
SamlAcs(u) ==
  /\ pc[u] = "samlAcs"
  /\ \E accept \in BOOLEAN :
       /\ SpAcceptsAssertion(accept)
       /\ \/ /\ accept
             /\ spSess' = [spSess EXCEPT ![u] = TRUE]
             /\ reported' = [reported EXCEPT ![u] = TRUE]
             /\ Goto(u, "samlLogout")
          \/ /\ ~accept
             /\ Goto(u, "samlLogout")
             /\ UNCHANGED <<spSess, reported>>
  /\ UNCHANGED <<jar, cred, tgt, st>>

(* Mutant: the logout request never reaches CAS (a wrong host), so        *)
(* neither the TGT nor the TGC cookie goes.                               *)
SamlLogoutNoEffect(u) ==
  /\ pc[u] = "samlLogout"
  /\ UNCHANGED <<tgt, st, jar, spSess>>
  /\ Interrupt(u)
  /\ UNCHANGED <<cred, reported>>

(* SAML seq_task(2): GET /cas/logout, then self.interrupt().  The SP      *)
(* session ends only with single logout to the SP.                        *)
SamlLogout(u) ==
  /\ pc[u] = "samlLogout"
  /\ ServerLogout(u, jar[u])
  /\ jar' = [jar EXCEPT ![u] = FALSE]
  /\ spSess' = [spSess EXCEPT ![u] = @ /\ ~SloToSp]
  /\ Interrupt(u)
  /\ UNCHANGED <<cred, reported>>

(* The requests of the running nested sequence.                           *)
NestedStep(u) ==
  \/ CasLoginGet(u) \/ CasLoginPost(u) \/ CasValidate(u) \/ CasLogout(u)
  \/ SamlSpGet(u) \/ SamlLoginPost(u) \/ SamlAcs(u) \/ SamlLogout(u)

UserStep(u) == PickCas(u) \/ PickSaml(u) \/ NestedStep(u)

ServerStep(u) == (ExpireTgt(u) \/ ExpireSt(u)) /\ UNCHANGED userVars

Next == \E u \in Users : UserStep(u) \/ ServerStep(u)

Spec == Init /\ [][Next]_vars

(* Every request returns (the scripts set no timeout; spec 5) and Locust   *)
(* keeps running each user, so a user's pending request step is weakly   *)
(* fair.  The parent's choice is random by weight 3:1, so each nested     *)
(* sequence is chosen infinitely often with probability 1: strong          *)
(* fairness for each pick, which is enabled each time the user is back at *)
(* the parent.                                                             *)
FairSpec ==
  /\ Spec
  /\ \A u \in Users : /\ WF_vars(NestedStep(u))
                      /\ SF_vars(PickCas(u))
                      /\ SF_vars(PickSaml(u))

-----------------------------------------------------------------------------
(* Each nested login, CAS or SAML, starts outside every session: no live  *)
(* SSO session (else CAS redirects without a login form) and no live SP   *)
(* session (else the SP serves its page without a redirect).  Whatever     *)
(* way the previous nested sequence left (interrupt or logout task), the   *)
(* next one must not meet what it left behind.                             *)
NoSessionAtNestedLogin ==
  \A u \in Users :
    pc[u] \in {"casLogin", "samlLogin"} => ~(jar[u] /\ tgt[u]) /\ ~spSess[u]

(* Against a correct server, each user keeps completing CAS logins, even  *)
(* when the SAML sequence sharing its HTTP session fails for ever (no      *)
(* single logout to the SP leaves the SP session in place).               *)
CasKeepsSucceeding ==
  \A u \in Users : []<>(pc[u] = "casLogout" /\ reported[u])

=============================================================================
