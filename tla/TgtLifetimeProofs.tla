------------------------- MODULE TgtLifetimeProofs -------------------------
(***************************************************************************)
(* Proofs about TgtLifetime (cas5/old_locustfile.py) for every set of     *)
(* users, credentials, lifetimes and server faults.                        *)
(*                                                                         *)
(* login() sets is_authenticated from the presence of a TGC cookie after  *)
(* its POST, not from the reply.  A cookie the session brought into       *)
(* login() could be mistaken for a new one; it cannot be, because the     *)
(* login form is shown only to a session that keeps no TGC (a live SSO    *)
(* session gets the "logged in" page, on which login() returns, and the   *)
(* same GET removes a stale TGC: FormShownNoCookie).  So a cookie after   *)
(* the POST is the one the POST set, with a fresh TGT behind it, whatever *)
(* cookies earlier steps left (a mistyped password the server accepted   *)
(* included), and no invariant beyond the type is needed.                 *)
(***************************************************************************)
EXTENDS TgtLifetime, CasServerProofs, TLAPS

(* The step of AuthMeansTgtIssued.                                         *)
AuthStep == \A u \in Users : ~auth[u] /\ auth'[u] => tgt'[u]

LEMMA InitTypeOK == Init => TypeOK
  BY DEF Init, ServerInit, TypeOK, Labels

(* The login step of reset(): it keeps the state typed, changes it only   *)
(* at u, and sets is_authenticated only with a TGT behind it.             *)
LEMMA ResetLoginStep ==
  ASSUME TypeOK, NEW u \in Users, ResetLogin(u)
  PROVE  /\ jar' \in [Users -> BOOLEAN] /\ auth' \in [Users -> BOOLEAN]
         /\ ServerTypeOK'
         /\ auth'[u] => tgt'[u]
         /\ \A v \in Users \ {u} : auth'[v] = auth[v]
<1> USE DEF TypeOK
<1>0. ServerTypeOK
  BY DEF ServerTypeOK
<1>1. PICK fields \in SUBSET LoginFields :
        /\ LoginPageNoService(u, jar[u], fields)
        /\ \/ /\ ~(LoginFields \subseteq fields)
              /\ auth' = [auth EXCEPT ![u] = FALSE]
              /\ jar' = [jar EXCEPT ![u] = KeptTgc(u, jar[u])]
              /\ UNCHANGED <<tgt, st>>
           \/ /\ LoginFields \subseteq fields
              /\ \E tgc \in BOOLEAN :
                   /\ PostBadPassword(u, tgc)
                   /\ jar' = [jar EXCEPT ![u] = KeptTgc(u, jar[u]) \/ tgc]
                   /\ auth' = [auth EXCEPT ![u] = FALSE]
           \/ /\ LoginFields \subseteq fields
              /\ \E c \in Creds, tgc \in BOOLEAN :
                   /\ PostNoService(u, c, tgc)
                   /\ jar' = [jar EXCEPT ![u] = KeptTgc(u, jar[u]) \/ tgc]
                   /\ auth' = [auth EXCEPT ![u] = jar'[u]]
  BY DEF ResetLogin
<1>2. KeptTgc(u, jar[u]) \in BOOLEAN
  BY DEF KeptTgc
<1>3. CASE /\ ~(LoginFields \subseteq fields)
           /\ auth' = [auth EXCEPT ![u] = FALSE]
           /\ jar' = [jar EXCEPT ![u] = KeptTgc(u, jar[u])]
           /\ UNCHANGED <<tgt, st>>
  BY <1>0, <1>2, <1>3 DEF ServerTypeOK
<1>4. CASE /\ LoginFields \subseteq fields
           /\ \E tgc \in BOOLEAN :
                /\ PostBadPassword(u, tgc)
                /\ jar' = [jar EXCEPT ![u] = KeptTgc(u, jar[u]) \/ tgc]
                /\ auth' = [auth EXCEPT ![u] = FALSE]
  <2>1. PICK tgc \in BOOLEAN :
          /\ PostBadPassword(u, tgc)
          /\ jar' = [jar EXCEPT ![u] = KeptTgc(u, jar[u]) \/ tgc]
          /\ auth' = [auth EXCEPT ![u] = FALSE]
    BY <1>4
  <2>2. ServerStepAt(u)
    BY <1>0, <2>1, PostBadPasswordAt
  <2>3. QED
    BY <1>2, <2>1, <2>2 DEF ServerStepAt
(* The form was shown, so the GET left no cookie: the one after the POST  *)
(* is the POST's, and it comes with the TGT the POST created.             *)
<1>5. CASE /\ LoginFields \subseteq fields
           /\ \E c \in Creds, tgc \in BOOLEAN :
                /\ PostNoService(u, c, tgc)
                /\ jar' = [jar EXCEPT ![u] = KeptTgc(u, jar[u]) \/ tgc]
                /\ auth' = [auth EXCEPT ![u] = jar'[u]]
  <2>1. PICK c \in Creds, tgc \in BOOLEAN :
          /\ PostNoService(u, c, tgc)
          /\ jar' = [jar EXCEPT ![u] = KeptTgc(u, jar[u]) \/ tgc]
          /\ auth' = [auth EXCEPT ![u] = jar'[u]]
    BY <1>5
  <2>2. ~KeptTgc(u, jar[u])
    BY <1>1, <1>5, FormShownNoCookie
  <2>3. ServerStepAt(u)
    BY <1>0, <2>1, PostNoServiceAt
  <2>4. tgc => tgt'[u]
    BY <2>1 DEF PostNoService
  <2>5. jar' \in [Users -> BOOLEAN] /\ jar'[u] = tgc
    BY <1>2, <2>1, <2>2
  <2>6. QED
    BY <2>1, <2>3, <2>4, <2>5 DEF ServerStepAt
<1>6. QED
  BY <1>1, <1>3, <1>4, <1>5

(* Every step other than reset()'s login leaves is_authenticated alone or *)
(* clears it (expire()); that one is ResetLoginStep.                      *)
LEMMA StepAuth == TypeOK /\ [Next]_vars => AuthStep
<1> SUFFICES ASSUME TypeOK, [Next]_vars PROVE AuthStep
  OBVIOUS
<1> USE DEF AuthStep
<1>1. ASSUME NEW u \in Users, ResetLogin(u) PROVE AuthStep
  BY <1>1, ResetLoginStep
<1>2. ASSUME NEW u \in Users, AuthenticateToService(u) PROVE AuthStep
  <2>1. \A v \in Users : auth'[v] => auth[v]
    BY <1>2 DEF AuthenticateToService, Expire, ObtainTicket, TypeOK
  <2>2. QED
    BY <2>1
<1>3. ASSUME NEW u \in Users,
             OnStart(u) \/ ValidateSt(u) \/ Tick(u) \/ ServerStep(u)
      PROVE  AuthStep
  BY <1>3 DEF OnStart, ValidateSt, Tick, ServerStep, userVars
<1>4. CASE UNCHANGED vars
  BY <1>4 DEF vars
<1>5. QED
  BY <1>1, <1>2, <1>3, <1>4 DEF Next, UserStep

(* Every step keeps the state well typed, whatever the server does: the  *)
(* server operators keep theirs (CasServerProofs), and the countdown is   *)
(* set to a positive lifetime or decremented only while positive.         *)
LEMMA StepTypeOK == TypeOK /\ [Next]_vars => TypeOK'
<1> SUFFICES ASSUME TypeOK, [Next]_vars PROVE TypeOK'
  OBVIOUS
<1>0. ServerTypeOK
  BY DEF TypeOK, ServerTypeOK
<1> USE <1>0 DEF TypeOK, ServerStepAt, ServerTypeOK, Goto, Labels
<1>1. ASSUME NEW u \in Users, OnStart(u) PROVE TypeOK'
  BY <1>1, LifetimeAssumption DEF OnStart
<1>2. ASSUME NEW u \in Users, ResetLogin(u) PROVE TypeOK'
  <2>1. left' \in [Users -> Nat]
    BY <1>2 DEF ResetLogin, Wiggle
  <2>2. QED
    BY <1>2, <2>1, ResetLoginStep DEF ResetLogin
<1>3. ASSUME NEW u \in Users, AuthenticateToService(u) PROVE TypeOK'
  <2>1. CASE ~auth[u] /\ Goto(u, "reset") /\ UNCHANGED <<auth, jar, tgt, st>>
    BY <1>3, <2>1 DEF AuthenticateToService
  <2>2. CASE auth[u] /\ left[u] = 0 /\ Expire(u) /\ Goto(u, "reset")
    <3>1. ServerTypeOK'
      BY <2>2, ServerLogoutAt DEF Expire, serverVars
    <3>2. QED
      BY <1>3, <2>2, <3>1 DEF AuthenticateToService, Expire
  <2>3. CASE auth[u] /\ left[u] > 0 /\ ObtainTicket(u)
    <3>1. PICK fields \in SUBSET LoginFields :
            /\ GetLoginPage(u, jar[u], fields)
            /\ \/ fields = {} /\ Goto(u, "validate")
               \/ fields = {} /\ "noTicket" \in Faults /\ UNCHANGED pc
               \/ fields # {} /\ UNCHANGED pc
      BY <2>3 DEF ObtainTicket
    <3>2. ServerTypeOK'
      BY <3>1, GetLoginPageAt
    <3>3. jar' \in [Users -> BOOLEAN]
      BY <2>3 DEF ObtainTicket, KeptTgc
    <3>4. QED
      BY <1>3, <2>3, <3>1, <3>2, <3>3 DEF AuthenticateToService, ObtainTicket
  <2>4. QED
    BY <1>3, <2>1, <2>2, <2>3 DEF AuthenticateToService
<1>4. ASSUME NEW u \in Users, ValidateSt(u) PROVE TypeOK'
  <2>1. ServerTypeOK'
    BY <1>4, ValidateTicketAt DEF ValidateSt
  <2>2. QED
    BY <1>4, <2>1 DEF ValidateSt
<1>5. ASSUME NEW u \in Users, Tick(u) PROVE TypeOK'
  BY <1>5 DEF Tick
<1>6. ASSUME NEW u \in Users, ServerStep(u) PROVE TypeOK'
  <2>1. ServerTypeOK'
    BY <1>6, ExpireAt DEF ServerStep
  <2>2. QED
    BY <1>6, <2>1 DEF ServerStep, userVars
<1>7. CASE UNCHANGED vars
  BY <1>7 DEF vars
<1>8. QED
  BY <1>1, <1>2, <1>3, <1>4, <1>5, <1>6, <1>7 DEF Next, UserStep

(* The state of every user and of the server keeps its type, whatever the *)
(* server does, mistyped passwords accepted included.                     *)
THEOREM TgtTypeCorrect == Spec => []TypeOK
  BY InitTypeOK, StepTypeOK, PTL DEF Spec

(* old_locustfile.py sets is_authenticated only in a login whose POST     *)
(* made the server issue a TGT, as the docstring of login() says, against *)
(* every server the model allows: timeouts of TGTs and service tickets,   *)
(* missing forms, tickets and redirects, and mistyped passwords accepted  *)
(* (whose cookie is taken for a login only if the GET kept it, which it  *)
(* does not).                                                              *)
THEOREM AuthMeansTgtIssuedHolds == Spec => AuthMeansTgtIssued
<1>1. TypeOK /\ [Next]_vars => [AuthStep]_vars
  BY StepAuth
<1>2. QED
  BY InitTypeOK, StepTypeOK, <1>1, PTL DEF Spec, AuthMeansTgtIssued, AuthStep

=============================================================================
