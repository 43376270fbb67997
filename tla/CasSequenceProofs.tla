------------------------- MODULE CasSequenceProofs -------------------------
(***************************************************************************)
(* Proofs about CasSequence (cas5/casLocust.py) for every set of users,   *)
(* credentials and server faults.                                          *)
(*                                                                         *)
(* NoSsoAtLoginStart is not inductive: a state at the login step whose     *)
(* session holds a cookie the server has expired satisfies it, and a      *)
(* step could not be shown to keep it without knowing how the cookie got  *)
(* there.  The strengthening says that a user at the login step holds no  *)
(* TGC cookie at all: the only step to the login step is the logout task, *)
(* whose reply deletes the cookie, and the only step that sets the cookie *)
(* (the credentials POST) leaves the login step behind.                   *)
(***************************************************************************)
EXTENDS CasSequence, CasServerProofs, TLAPS

(* A user about to run the login task holds no TGC cookie.                *)
LoginHoldsNoCookie == \A u \in Users : pc[u] = "login" => ~jar[u]

IInv == TypeOK /\ LoginHoldsNoCookie

LEMMA InitIInv == Init => IInv
  BY DEF Init, ServerInit, IInv, TypeOK, LoginHoldsNoCookie, Labels

LEMMA StepIInv == IInv /\ [Next]_vars => IInv'
<1> SUFFICES ASSUME IInv, [Next]_vars PROVE IInv'
  OBVIOUS
<1> USE DEF IInv, TypeOK, LoginHoldsNoCookie, Goto, Stop, Labels
<1>1. ASSUME NEW u \in Users, LoginGet(u) PROVE IInv'
  <2>1. PICK fields \in SUBSET LoginFields :
          /\ GetLoginPage(u, jar[u], fields)
          /\ \/ /\ "execution" \notin fields
                /\ Stop(u) /\ UNCHANGED cred
             \/ /\ "execution" \in fields /\ "_eventId" \notin fields
                /\ Stop(u) /\ UNCHANGED cred
             \/ /\ LoginFields \subseteq fields /\ Creds = {}
                /\ Goto(u, "logout") /\ UNCHANGED cred
             \/ /\ LoginFields \subseteq fields
                /\ \E c \in Creds : cred' = [cred EXCEPT ![u] = c]
                /\ Goto(u, "post")
    BY <1>1 DEF LoginGet
  <2>2. /\ tgt' \in [Users -> BOOLEAN]
        /\ st' \in [Users -> BOOLEAN]
    BY <2>1 DEF GetLoginPage, serverVars
  <2>3. pc'[u] # "login" /\ \A v \in Users \ {u} : pc'[v] = pc[v]
    BY <2>1
  <2>4. cred' \in [Users -> Creds \cup {NoCred}]
    BY <2>1
  <2>5. jar' \in [Users -> BOOLEAN] /\ \A v \in Users \ {u} : jar'[v] = jar[v]
    BY <1>1 DEF LoginGet, KeptTgc
  <2>6. QED
    BY <1>1, <2>2, <2>3, <2>4, <2>5 DEF LoginGet
<1>2. ASSUME NEW u \in Users, LoginPost(u) PROVE IInv'
  <2>1. PICK r \in PostReplies :
          /\ PostCredentials(u, cred[u], r)
          /\ jar' = [jar EXCEPT ![u] = @ \/ r.tgc]
          /\ \/ ~r.redirect /\ Goto(u, "logout")
             \/ r.redirect /\ ~r.ticket /\ Stop(u)
             \/ r.redirect /\ r.ticket /\ Goto(u, "validate")
    BY <1>2 DEF LoginPost
  <2>2. /\ tgt' \in [Users -> BOOLEAN]
        /\ st' \in [Users -> BOOLEAN]
    BY <2>1 DEF PostCredentials, serverVars
  <2>3. jar' \in [Users -> BOOLEAN]
    BY <2>1 DEF PostReplies
  <2>4. pc'[u] # "login" /\ \A v \in Users \ {u} : pc'[v] = pc[v]
    BY <2>1
  <2>5. QED
    BY <1>2, <2>1, <2>2, <2>3, <2>4 DEF LoginPost
<1>3. ASSUME NEW u \in Users, ServiceValidate(u) PROVE IInv'
  <2>1. PICK r \in ValidateReplies :
          /\ ValidateTicket(u, r)
          /\ \/ r.status # 200 /\ Goto(u, "logout") /\ UNCHANGED reported
             \/ /\ r.status = 200 /\ r.success
                /\ reported' = [reported EXCEPT ![u] = TRUE]
                /\ Goto(u, "logout")
             \/ r.status = 200 /\ ~r.success /\ Stop(u) /\ UNCHANGED reported
    BY <1>3 DEF ServiceValidate
  <2>2. /\ tgt' \in [Users -> BOOLEAN]
        /\ st' \in [Users -> BOOLEAN]
    BY <2>1 DEF ValidateTicket, serverVars
  <2>3. reported' \in [Users -> BOOLEAN]
    <3>1. \/ reported' = reported
          \/ reported' = [reported EXCEPT ![u] = TRUE]
      BY <2>1, Zenon
    <3>2. QED
      BY <3>1
  <2>4. pc'[u] # "login" /\ \A v \in Users \ {u} : pc'[v] = pc[v]
    BY <2>1
  <2>5. QED
    BY <1>3, <2>2, <2>3, <2>4 DEF ServiceValidate
<1>4. ASSUME NEW u \in Users, Logout(u) PROVE IInv'
  <2>1. tgt' \in [Users -> BOOLEAN] /\ UNCHANGED st
    BY <1>4 DEF Logout, ServerLogout
  <2>2. jar' = [jar EXCEPT ![u] = FALSE] /\ pc' = [pc EXCEPT ![u] = "login"]
    BY <1>4 DEF Logout
  <2>3. UNCHANGED <<cred, reported>>
    BY <1>4 DEF Logout
  <2>4. QED
    BY <2>1, <2>2, <2>3
<1>5. ASSUME NEW u \in Users, ServerStep(u) PROVE IInv'
  BY <1>5 DEF ServerStep, ExpireTgt, ExpireSt, userVars
<1>6. CASE UNCHANGED vars
  BY <1>6 DEF vars
<1>7. QED
  BY <1>1, <1>2, <1>3, <1>4, <1>5, <1>6 DEF Next, UserStep

(* The state of every user and of the server keeps its type (pc is one   *)
(* of the task steps, the cookie, ticket and report flags are Booleans). *)
THEOREM TypeCorrect == Spec => []TypeOK
<1>1. IInv => TypeOK
  BY DEF IInv
<1>2. QED
  BY InitIInv, StepIInv, <1>1, PTL DEF Spec

(* cas5/casLocust.py never starts its login task inside a live SSO        *)
(* session, whatever the server does, because every way out of the login *)
(* task except StopLocust passes through the logout task.                *)
THEOREM NoSsoAtLoginStartHolds == Spec => []NoSsoAtLoginStart
<1>1. IInv => NoSsoAtLoginStart
  BY DEF IInv, LoginHoldsNoCookie, NoSsoAtLoginStart
<1>2. QED
  BY InitIInv, StepIInv, <1>1, PTL DEF Spec

-----------------------------------------------------------------------------
(* StopLocust ends a user before its logout task.  Unless the server      *)
(* leaves out the login form or times a TGT or a ticket out, the script   *)
(* raises it only after the POST that created a TGT (a redirect without  *)
(* a ticket, a live ticket rejected), so every stopped user leaves a live *)
(* SSO session on the server, which nothing ever ends.                    *)
NoFormOrTimeoutFaults ==
  Faults \cap {"noForm", "expireTgt", "expireSt"} = {}

(* Every stopped user's HTTP session holds the TGC of a live SSO session. *)
StoppedInsideSso ==
  \A u \in Users : pc[u] = "stopped" => jar[u] /\ tgt[u]

(* A user about to validate holds the TGC of a live SSO session and a     *)
(* live service ticket.                                                    *)
ValidateInsideSso ==
  \A u \in Users : pc[u] = "validate" => jar[u] /\ tgt[u] /\ st[u]

SInv == IInv /\ StoppedInsideSso /\ ValidateInsideSso

LEMMA StepSInv == NoFormOrTimeoutFaults /\ SInv /\ [Next]_vars => SInv'
<1> SUFFICES ASSUME NoFormOrTimeoutFaults, SInv, [Next]_vars PROVE SInv'
  OBVIOUS
<1>0. IInv' /\ TypeOK /\ TypeOK' /\ ServerTypeOK
  BY StepIInv DEF SInv, IInv, TypeOK, ServerTypeOK
<1> DEFINE Others(u) == \A v \in Users \ {u} :
                          /\ pc'[v] = pc[v] /\ jar'[v] = jar[v]
                          /\ tgt'[v] = tgt[v] /\ st'[v] = st[v]
(* A step that changes the state of u alone keeps the invariant at every *)
(* other user.                                                            *)
<1>9. ASSUME NEW u \in Users, Others(u),
             pc'[u] = "stopped" => jar'[u] /\ tgt'[u],
             pc'[u] = "validate" => jar'[u] /\ tgt'[u] /\ st'[u]
      PROVE  SInv'
  BY <1>9, <1>0 DEF SInv, StoppedInsideSso, ValidateInsideSso
<1> USE <1>0 DEF ServerStepAt, Goto, Stop, TypeOK
<1>1. ASSUME NEW u \in Users, LoginGet(u) PROVE SInv'
  <2>1. PICK fields \in SUBSET LoginFields :
          /\ GetLoginPage(u, jar[u], fields)
          /\ \/ /\ "execution" \notin fields
                /\ Stop(u) /\ UNCHANGED cred
             \/ /\ "execution" \in fields /\ "_eventId" \notin fields
                /\ Stop(u) /\ UNCHANGED cred
             \/ /\ LoginFields \subseteq fields /\ Creds = {}
                /\ Goto(u, "logout") /\ UNCHANGED cred
             \/ /\ LoginFields \subseteq fields
                /\ \E c \in Creds : cred' = [cred EXCEPT ![u] = c]
                /\ Goto(u, "post")
    BY <1>1 DEF LoginGet
  <2>2. ServerStepAt(u)
    BY <2>1, GetLoginPageAt
  (* A user at the login step holds no cookie, so the server shows the   *)
  (* whole form and the task does not stop.                               *)
  <2>3. fields = LoginFields
    BY <1>1, <2>1 DEF LoginGet, GetLoginPage, NoFormOrTimeoutFaults, SInv,
                      IInv, LoginHoldsNoCookie
  <2>4. pc'[u] \in {"logout", "post"}
    BY <2>1, <2>3 DEF LoginFields
  <2>5. QED
    BY <1>1, <2>1, <2>2, <2>4, <1>9 DEF LoginGet
<1>2. ASSUME NEW u \in Users, LoginPost(u) PROVE SInv'
  <2>1. PICK r \in PostReplies :
          /\ PostCredentials(u, cred[u], r)
          /\ jar' = [jar EXCEPT ![u] = @ \/ r.tgc]
          /\ \/ ~r.redirect /\ Goto(u, "logout")
             \/ r.redirect /\ ~r.ticket /\ Stop(u)
             \/ r.redirect /\ r.ticket /\ Goto(u, "validate")
    BY <1>2 DEF LoginPost
  <2>2. ServerStepAt(u)
    BY <2>1, PostCredentialsAt
  (* A redirect comes only with the TGT and its cookie; a ticket in it   *)
  (* only with a live service ticket.                                    *)
  <2>3. r.redirect => tgt'[u] /\ r.tgc /\ (r.ticket => st'[u])
    BY <2>1 DEF PostCredentials, PostReplies
  <2>4. r.tgc => jar'[u]
    BY <2>1
  <2>5. QED
    BY <1>2, <2>1, <2>2, <2>3, <2>4, <1>9 DEF LoginPost
<1>3. ASSUME NEW u \in Users, ServiceValidate(u) PROVE SInv'
  <2>1. PICK r \in ValidateReplies :
          /\ ValidateTicket(u, r)
          /\ \/ r.status # 200 /\ Goto(u, "logout") /\ UNCHANGED reported
             \/ /\ r.status = 200 /\ r.success
                /\ reported' = [reported EXCEPT ![u] = TRUE]
                /\ Goto(u, "logout")
             \/ r.status = 200 /\ ~r.success /\ Stop(u) /\ UNCHANGED reported
    BY <1>3 DEF ServiceValidate
  <2>2. ServerStepAt(u)
    BY <2>1, ValidateTicketAt
  <2>3. jar[u] /\ tgt[u]
    BY <1>3 DEF ServiceValidate, SInv, ValidateInsideSso
  <2>4. tgt'[u] = tgt[u] /\ jar' = jar
    BY <1>3, <2>1 DEF ServiceValidate, ValidateTicket, serverVars
  <2>5. pc'[u] # "validate"
    BY <2>1
  <2>6. pc'[u] = "stopped" => jar'[u] /\ tgt'[u]
    BY <2>3, <2>4
  <2>7. Others(u)
    BY <1>3, <2>1, <2>2, <2>4 DEF ServiceValidate
  <2>8. QED
    BY <2>5, <2>6, <2>7, <1>9
<1>4. ASSUME NEW u \in Users, Logout(u) PROVE SInv'
  <2>1. ServerStepAt(u)
    BY <1>4, ServerLogoutAt DEF Logout
  <2>2. pc'[u] = "login"
    BY <1>4 DEF Logout
  <2>3. QED
    BY <1>4, <2>1, <2>2, <1>9 DEF Logout
<1>5. ASSUME NEW u \in Users, ServerStep(u) PROVE SInv'
  <2>1. ~ExpireTgt(u) /\ ~ExpireSt(u)
    BY DEF ExpireTgt, ExpireSt, NoFormOrTimeoutFaults
  <2>2. QED
    BY <1>5, <2>1 DEF ServerStep
<1>6. CASE UNCHANGED vars
  BY <1>6 DEF vars, SInv, StoppedInsideSso, ValidateInsideSso
<1>7. QED
  BY <1>1, <1>2, <1>3, <1>4, <1>5, <1>6 DEF Next, UserStep

(* Unless the server leaves out the login form or times a TGT or a ticket *)
(* out, every user that cas5/casLocust.py stops with StopLocust leaves a  *)
(* live SSO session on the server that no logout ever ends.               *)
THEOREM StopLeavesSso == NoFormOrTimeoutFaults => (Spec => []StoppedInsideSso)
<1> SUFFICES ASSUME NoFormOrTimeoutFaults PROVE Spec => []StoppedInsideSso
  OBVIOUS
<1>1. Init => SInv
  BY InitIInv DEF Init, ServerInit, SInv, StoppedInsideSso, ValidateInsideSso
<1>2. SInv => StoppedInsideSso
  BY DEF SInv
<1>3. QED
  BY <1>1, <1>2, StepSInv, PTL DEF Spec

=============================================================================
