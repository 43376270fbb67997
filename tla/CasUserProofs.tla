--------------------------- MODULE CasUserProofs ---------------------------
(***************************************************************************)
(* Proofs about CasUser (cas/casLocust.py) for every set of users and      *)
(* credentials.                                                            *)
(*                                                                         *)
(* A user that raises InterruptTaskSet never runs the logout task again.  *)
(* The theorem here says that, unless the server leaves out the login     *)
(* form or times a TGT or a ticket out, every interrupted user leaves a   *)
(* live SSO session behind on the server.  The interrupts are a login     *)
(* inside the user's own SSO session (the run cas_user_relogin), a POST    *)
(* redirected without a ticket and a live ticket rejected: the last two   *)
(* come after the POST that created the TGT.                               *)
(*                                                                         *)
(* The invariant is not inductive alone: a user about to validate may be  *)
(* interrupted, so it must already hold the cookie of a live TGT, and a   *)
(* live ticket, without which the validation could fail and interrupt it  *)
(* even from a correct server.                                            *)
(***************************************************************************)
EXTENDS CasUser, CasServerProofs, TLAPS

(* The server never leaves out the form and never times a TGT or a       *)
(* ticket out.                                                             *)
NoFormOrTimeoutFaults ==
  Faults \cap {"noForm", "expireTgt", "expireSt"} = {}

(* Every interrupted user's HTTP session holds the TGC of a live SSO      *)
(* session, which no later logout task ends.                              *)
StoppedInsideSso ==
  \A u \in Users : pc[u] = "stopped" => jar[u] /\ tgt[u]

(* A user about to validate holds the TGC of a live SSO session and a     *)
(* live service ticket.                                                    *)
ValidateInsideSso ==
  \A u \in Users : pc[u] = "validate" => jar[u] /\ tgt[u] /\ st[u]

IInv == TypeOK /\ StoppedInsideSso /\ ValidateInsideSso

LEMMA InitIInv == Init => IInv
  BY DEF Init, ServerInit, IInv, TypeOK, StoppedInsideSso, ValidateInsideSso,
         Labels

(* Every step keeps the state well typed, whatever the server does.      *)
LEMMA StepTypeOK == TypeOK /\ [Next]_vars => TypeOK'
<1> SUFFICES ASSUME TypeOK, [Next]_vars PROVE TypeOK'
  OBVIOUS
<1>0. ServerTypeOK
  BY DEF TypeOK, ServerTypeOK
<1> USE DEF TypeOK, ServerStepAt, ServerTypeOK, Goto, Interrupt, Labels
<1>1. ASSUME NEW u \in Users, LoginGet(u) PROVE TypeOK'
  <2>1. PICK fields \in SUBSET LoginFields :
          /\ GetLoginPage(u, jar[u], fields)
          /\ \/ /\ "execution" \notin fields
                /\ Interrupt(u) /\ UNCHANGED cred
             \/ /\ "execution" \in fields /\ "_eventId" \notin fields
                /\ Interrupt(u) /\ UNCHANGED cred
             \/ /\ LoginFields \subseteq fields /\ Creds = {}
                /\ UNCHANGED <<pc, cred>>
             \/ /\ LoginFields \subseteq fields
                /\ \E c \in Creds : cred' = [cred EXCEPT ![u] = c]
                /\ Goto(u, "post")
    BY <1>1 DEF LoginGet
  <2>2. ServerStepAt(u)
    BY <2>1, <1>0, GetLoginPageAt
  <2>3. jar' \in [Users -> BOOLEAN]
    BY <1>1 DEF LoginGet, KeptTgc
  <2>4. QED
    BY <1>1, <2>1, <2>2, <2>3 DEF LoginGet
<1>2. ASSUME NEW u \in Users, LoginPost(u) PROVE TypeOK'
  <2>1. PICK r \in PostReplies :
          /\ PostCredentials(u, cred[u], r)
          /\ jar' = [jar EXCEPT ![u] = @ \/ r.tgc]
          /\ \/ ~r.redirect /\ Goto(u, "idle")
             \/ r.redirect /\ ~r.ticket /\ Interrupt(u)
             \/ r.redirect /\ r.ticket /\ Goto(u, "validate")
    BY <1>2 DEF LoginPost
  <2>2. ServerStepAt(u)
    BY <2>1, <1>0, PostCredentialsAt
  <2>3. QED
    BY <1>2, <2>1, <2>2 DEF LoginPost, PostReplies
<1>3. ASSUME NEW u \in Users, ServiceValidate(u) PROVE TypeOK'
  <2>1. PICK r \in ValidateReplies :
          /\ ValidateTicket(u, r)
          /\ \/ r.status # 200 /\ Goto(u, "idle")
             \/ r.status = 200 /\ r.success /\ Goto(u, "idle")
             \/ r.status = 200 /\ ~r.success /\ Interrupt(u)
    BY <1>3 DEF ServiceValidate
  <2>2. ServerStepAt(u)
    BY <2>1, <1>0, ValidateTicketAt
  <2>3. QED
    BY <1>3, <2>1, <2>2 DEF ServiceValidate
<1>4. ASSUME NEW u \in Users, Logout(u) PROVE TypeOK'
  <2>1. ServerStepAt(u)
    BY <1>4, <1>0, ServerLogoutAt DEF Logout
  <2>2. QED
    BY <1>4, <2>1 DEF Logout
<1>5. ASSUME NEW u \in Users, ServerStep(u) PROVE TypeOK'
  <2>1. ServerStepAt(u)
    BY <1>5, <1>0, ExpireAt DEF ServerStep
  <2>2. QED
    BY <1>5, <2>1 DEF ServerStep, userVars
<1>6. CASE UNCHANGED vars
  BY <1>6 DEF vars
<1>7. QED
  BY <1>1, <1>2, <1>3, <1>4, <1>5, <1>6 DEF Next, UserStep

LEMMA StepIInv == NoFormOrTimeoutFaults /\ IInv /\ [Next]_vars => IInv'
<1> SUFFICES ASSUME NoFormOrTimeoutFaults, IInv, [Next]_vars PROVE IInv'
  OBVIOUS
<1>0. TypeOK /\ TypeOK' /\ ServerTypeOK
  BY StepTypeOK DEF IInv, TypeOK, ServerTypeOK
<1> DEFINE Others(u) == \A v \in Users \ {u} :
                          /\ pc'[v] = pc[v] /\ jar'[v] = jar[v]
                          /\ tgt'[v] = tgt[v] /\ st'[v] = st[v]
(* A step that changes the state of u alone keeps the invariant at every *)
(* other user.                                                            *)
<1>9. ASSUME NEW u \in Users, Others(u),
             pc'[u] = "stopped" => jar'[u] /\ tgt'[u],
             pc'[u] = "validate" => jar'[u] /\ tgt'[u] /\ st'[u]
      PROVE  IInv'
  BY <1>9, <1>0 DEF IInv, StoppedInsideSso, ValidateInsideSso
<1> USE <1>0 DEF ServerStepAt, Goto, Interrupt, TypeOK
<1>1. ASSUME NEW u \in Users, LoginGet(u) PROVE IInv'
  <2>1. PICK fields \in SUBSET LoginFields :
          /\ GetLoginPage(u, jar[u], fields)
          /\ \/ /\ "execution" \notin fields
                /\ Interrupt(u) /\ UNCHANGED cred
             \/ /\ "execution" \in fields /\ "_eventId" \notin fields
                /\ Interrupt(u) /\ UNCHANGED cred
             \/ /\ LoginFields \subseteq fields /\ Creds = {}
                /\ UNCHANGED <<pc, cred>>
             \/ /\ LoginFields \subseteq fields
                /\ \E c \in Creds : cred' = [cred EXCEPT ![u] = c]
                /\ Goto(u, "post")
    BY <1>1 DEF LoginGet
  <2>2. ServerStepAt(u)
    BY <2>1, <1>0, GetLoginPageAt
  (* Without a live SSO session the server shows the whole form.         *)
  <2>3. ~(jar[u] /\ tgt[u]) => fields = LoginFields
    BY <2>1 DEF GetLoginPage, NoFormOrTimeoutFaults
  <2>4. tgt'[u] = tgt[u]
    BY <2>1 DEF GetLoginPage, serverVars
  <2>5. pc'[u] = "stopped" => jar'[u] /\ tgt'[u]
    BY <1>1, <2>1, <2>3, <2>4 DEF LoginGet, LoginFields, KeptTgc
  <2>6. pc'[u] # "validate"
    BY <1>1, <2>1 DEF LoginGet
  <2>7. QED
    BY <1>1, <2>1, <2>2, <2>5, <2>6, <1>9 DEF LoginGet, KeptTgc
<1>2. ASSUME NEW u \in Users, LoginPost(u) PROVE IInv'
  <2>1. PICK r \in PostReplies :
          /\ PostCredentials(u, cred[u], r)
          /\ jar' = [jar EXCEPT ![u] = @ \/ r.tgc]
          /\ \/ ~r.redirect /\ Goto(u, "idle")
             \/ r.redirect /\ ~r.ticket /\ Interrupt(u)
             \/ r.redirect /\ r.ticket /\ Goto(u, "validate")
    BY <1>2 DEF LoginPost
  <2>2. ServerStepAt(u)
    BY <2>1, <1>0, PostCredentialsAt
  (* A redirect comes only with the TGT and its cookie; a ticket in it   *)
  (* only with a live service ticket.                                    *)
  <2>3. r.redirect => tgt'[u] /\ r.tgc /\ (r.ticket => st'[u])
    BY <2>1 DEF PostCredentials, PostReplies
  <2>4. r.tgc => jar'[u]
    BY <2>1
  <2>5. QED
    BY <1>2, <2>1, <2>2, <2>3, <2>4, <1>9 DEF LoginPost
<1>3. ASSUME NEW u \in Users, ServiceValidate(u) PROVE IInv'
  <2>1. PICK r \in ValidateReplies :
          /\ ValidateTicket(u, r)
          /\ \/ r.status # 200 /\ Goto(u, "idle")
             \/ r.status = 200 /\ r.success /\ Goto(u, "idle")
             \/ r.status = 200 /\ ~r.success /\ Interrupt(u)
    BY <1>3 DEF ServiceValidate
  <2>2. ServerStepAt(u)
    BY <2>1, <1>0, ValidateTicketAt
  <2>3. jar[u] /\ tgt[u]
    BY <1>3 DEF ServiceValidate, IInv, ValidateInsideSso
  <2>4. tgt'[u] = tgt[u] /\ jar' = jar
    BY <1>3, <2>1 DEF ServiceValidate, ValidateTicket, serverVars
  <2>5. pc'[u] # "validate"
    BY <2>1
  <2>6. pc'[u] = "stopped" => jar'[u] /\ tgt'[u]
    BY <2>3, <2>4
  <2>7. Others(u)
    BY <1>3, <2>1, <2>2, <2>4 DEF ServiceValidate
  <2>8. QED
    BY <2>5, <2>6, <2>7, <1>9
<1>4. ASSUME NEW u \in Users, Logout(u) PROVE IInv'
  <2>1. ServerStepAt(u)
    BY <1>4, <1>0, ServerLogoutAt DEF Logout
  <2>2. pc' = pc /\ pc[u] = "idle"
    BY <1>4 DEF Logout
  <2>3. QED
    BY <1>4, <2>1, <2>2, <1>9 DEF Logout
<1>5. ASSUME NEW u \in Users, ServerStep(u) PROVE IInv'
  <2>1. ~ExpireTgt(u) /\ ~ExpireSt(u)
    BY DEF ExpireTgt, ExpireSt, NoFormOrTimeoutFaults
  <2>2. QED
    BY <1>5, <2>1 DEF ServerStep
<1>6. CASE UNCHANGED vars
  BY <1>6, <1>0 DEF vars, IInv, StoppedInsideSso, ValidateInsideSso
<1>7. QED
  BY <1>1, <1>2, <1>3, <1>4, <1>5, <1>6 DEF Next, UserStep

(* cas/casLocust.py keeps every user's state well typed, whatever the    *)
(* server does.                                                            *)
THEOREM CasUserTypeCorrect == Spec => []TypeOK
  BY InitIInv, StepTypeOK, PTL DEF Spec, IInv

(* Unless the server leaves out the login form or times a TGT or a ticket *)
(* out, every user that cas/casLocust.py interrupts leaves a live SSO     *)
(* session on the server: InterruptTaskSet ends the user before any       *)
(* logout task, and the three ways the login task raises it (a login     *)
(* inside the SSO session, a POST redirected without a ticket, a live    *)
(* ticket rejected) all come after the TGT was created.                   *)
THEOREM InterruptLeavesSso ==
  NoFormOrTimeoutFaults => (Spec => []StoppedInsideSso)
<1> SUFFICES ASSUME NoFormOrTimeoutFaults PROVE Spec => []StoppedInsideSso
  OBVIOUS
<1>1. IInv => StoppedInsideSso
  BY DEF IInv
<1>2. QED
  BY InitIInv, StepIInv, <1>1, PTL DEF Spec

=============================================================================
