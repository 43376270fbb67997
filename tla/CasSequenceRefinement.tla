----------------------- MODULE CasSequenceRefinement -----------------------
(***************************************************************************)
(* cas5/casLocust.py implements the spec's session flow (LoginFlow, spec   *)
(* 4.1 and 7) under the refinement mapping AbsFlow, for every set of users *)
(* and credentials, whenever the server's failures are ones the script     *)
(* answers with StopLocust.                                                *)
(*                                                                         *)
(* The mapping reads a user's flow state off pc and reported.  A step of  *)
(* the script is a step of LoginFlow only if the user never reaches the   *)
(* logout task without having reported success: from there Logout would  *)
(* take an Aborted flow back to Start.  So the proof needs an invariant  *)
(* on reported and on the credential row a user is about to POST:         *)
(*   - at the logout task the login reported success;                     *)
(*   - inside the login task (POST, serviceValidate) it has not yet;       *)
(*   - the row about to be POSTed is one the server accepts.              *)
(***************************************************************************)
EXTENDS CasSequenceProofs

(* The server fails only in ways the script answers with StopLocust: it   *)
(* never answers the POST without a redirect (an AttributeError) nor      *)
(* serviceValidate with a status other than 200 (an AssertionError), the  *)
(* two failures after which the sequence goes on to logout; it accepts   *)
(* every row of credentials.csv, and the file is not empty (IndexError).  *)
StopFaultsOnly ==
  /\ Creds # {}
  /\ ValidCreds = Creds
  /\ "noRedirect" \notin Faults
  /\ "badStatus" \notin Faults

(* Where a user is in its login task decides what it has reported, and   *)
(* the row it is about to POST is accepted.                              *)
FlowInv ==
  \A u \in Users :
    /\ pc[u] = "logout" => reported[u]
    /\ pc[u] \in {"post", "validate"} => ~reported[u]
    /\ pc[u] = "post" => cred[u] \in ValidCreds

RInv == IInv /\ FlowInv

LEMMA InitRInv == Init => RInv
  BY InitIInv DEF Init, RInv, FlowInv

(* AbsFlow reads each user's flow state off that user's pc and reported  *)
(* alone: a step that changes them for u only changes AbsFlow at u only. *)
LEMMA AbsFlowFrame ==
  ASSUME TypeOK, TypeOK', NEW u \in Users,
         \A v \in Users \ {u} : pc'[v] = pc[v] /\ reported'[v] = reported[v]
  PROVE  AbsFlow' = [AbsFlow EXCEPT ![u] = AbsFlow'[u]]
  BY DEF AbsFlow, TypeOK, Labels

(* The value of AbsFlow at a user, by the user's step and report.         *)
LEMMA AbsFlowAt ==
  ASSUME TypeOK, NEW u \in Users
  PROVE  /\ pc[u] = "login" => AbsFlow[u] \in {"Start", "LoggedOut"}
         /\ pc[u] = "post" => AbsFlow[u] = "TokensExtracted"
         /\ pc[u] = "validate" => AbsFlow[u] = "TicketObtained"
         /\ pc[u] = "logout" /\ reported[u] => AbsFlow[u] = "Validated"
         /\ pc[u] = "login" /\ reported[u] => AbsFlow[u] = "LoggedOut"
         /\ pc[u] = "stopped" => AbsFlow[u] = "Aborted"
  BY DEF AbsFlow, TypeOK, Labels

(* Every step keeps RInv and is a step of LoginFlow under AbsFlow, or    *)
(* leaves AbsFlow unchanged.                                              *)
LEMMA StepRefines ==
  StopFaultsOnly /\ RInv /\ [Next]_vars => RInv' /\ [Flow!Next]_AbsFlow
<1> SUFFICES ASSUME StopFaultsOnly, RInv, [Next]_vars
             PROVE  RInv' /\ [Flow!Next]_AbsFlow
  OBVIOUS
<1>0. IInv' /\ TypeOK /\ TypeOK'
  BY StepIInv DEF RInv, IInv
<1> DEFINE Moves(u) ==
      /\ \A v \in Users \ {u} : pc'[v] = pc[v] /\ reported'[v] = reported[v]
                                /\ cred'[v] = cred[v]
<1>1. ASSUME NEW u \in Users, LoginGet(u) PROVE RInv' /\ [Flow!Next]_AbsFlow
  <2>1. /\ reported'[u] = FALSE
        /\ \/ pc'[u] = "stopped"
           \/ pc'[u] = "post" /\ cred'[u] \in ValidCreds
        /\ Moves(u)
    BY <1>1, <1>0 DEF LoginGet, Goto, Stop, StopFaultsOnly, TypeOK
  <2>2. AbsFlow[u] \in {"Start", "LoggedOut"}
    BY <1>1, <1>0, AbsFlowAt DEF LoginGet
  <2>3. AbsFlow'[u] \in {"TokensExtracted", "Aborted"}
    BY <2>1, <1>0 DEF AbsFlow, TypeOK
  <2>4. Flow!Initiate(u)
    BY <2>2, <2>3, <2>1, <1>0, AbsFlowFrame DEF Flow!Initiate, Flow!Step
  <2>5. FlowInv'
    BY <2>1, <1>0 DEF RInv, FlowInv
  <2>6. QED
    BY <2>4, <2>5, <1>0 DEF RInv, Flow!Next
<1>2. ASSUME NEW u \in Users, LoginPost(u) PROVE RInv' /\ [Flow!Next]_AbsFlow
  <2>1. PICK r \in PostReplies :
          /\ PostCredentials(u, cred[u], r)
          /\ \/ ~r.redirect /\ Goto(u, "logout")
             \/ r.redirect /\ ~r.ticket /\ Stop(u)
             \/ r.redirect /\ r.ticket /\ Goto(u, "validate")
    BY <1>2 DEF LoginPost
  <2>2. r.redirect
    BY <1>2, <2>1 DEF PostCredentials, StopFaultsOnly, RInv, FlowInv, LoginPost
  <2>3. /\ pc'[u] \in {"stopped", "validate"}
        /\ reported'[u] = reported[u] /\ ~reported[u]
        /\ Moves(u)
    BY <1>2, <2>1, <2>2, <1>0 DEF LoginPost, Goto, Stop, RInv, FlowInv, TypeOK
  <2>4. AbsFlow[u] = "TokensExtracted"
    BY <1>2, <1>0, AbsFlowAt DEF LoginPost
  <2>5. AbsFlow'[u] \in {"TicketObtained", "Aborted"}
    BY <2>3, <1>0 DEF AbsFlow, TypeOK
  <2>6. Flow!Submit(u)
    BY <2>3, <2>4, <2>5, <1>0, AbsFlowFrame DEF Flow!Submit, Flow!Step
  <2>7. FlowInv'
    BY <2>3, <1>0 DEF RInv, FlowInv
  <2>8. QED
    BY <2>6, <2>7, <1>0 DEF RInv, Flow!Next
<1>3. ASSUME NEW u \in Users, ServiceValidate(u) PROVE RInv' /\ [Flow!Next]_AbsFlow
  <2>1. PICK r \in ValidateReplies :
          /\ ValidateTicket(u, r)
          /\ \/ r.status # 200 /\ Goto(u, "logout") /\ UNCHANGED reported
             \/ /\ r.status = 200 /\ r.success
                /\ reported' = [reported EXCEPT ![u] = TRUE]
                /\ Goto(u, "logout")
             \/ r.status = 200 /\ ~r.success /\ Stop(u) /\ UNCHANGED reported
    BY <1>3 DEF ServiceValidate
  <2>2. r.status = 200
    BY <2>1 DEF ValidateTicket, StopFaultsOnly
  <2>3. /\ \/ pc'[u] = "logout" /\ reported'[u]
           \/ pc'[u] = "stopped"
        /\ Moves(u)
    BY <1>3, <2>1, <2>2, <1>0 DEF ServiceValidate, Goto, Stop, TypeOK
  <2>4. AbsFlow[u] = "TicketObtained"
    BY <1>3, <1>0, AbsFlowAt DEF ServiceValidate
  <2>5. AbsFlow'[u] \in {"Validated", "Aborted"}
    BY <2>3, <1>0 DEF AbsFlow, TypeOK
  <2>6. Flow!Validate(u)
    BY <2>3, <2>4, <2>5, <1>0, AbsFlowFrame DEF Flow!Validate, Flow!Step
  <2>7. FlowInv'
    BY <2>3, <1>0 DEF RInv, FlowInv
  <2>8. QED
    BY <2>6, <2>7, <1>0 DEF RInv, Flow!Next
<1>4. ASSUME NEW u \in Users, Logout(u) PROVE RInv' /\ [Flow!Next]_AbsFlow
  <2>1. /\ pc'[u] = "login" /\ reported'[u] /\ reported[u]
        /\ Moves(u)
    BY <1>4, <1>0 DEF Logout, Goto, RInv, FlowInv, TypeOK
  <2>2. AbsFlow[u] = "Validated"
    BY <1>4, <2>1, <1>0, AbsFlowAt DEF Logout
  <2>3. AbsFlow'[u] = "LoggedOut"
    BY <2>1, <1>0 DEF AbsFlow, TypeOK
  <2>4. Flow!Terminate(u)
    BY <2>1, <2>2, <2>3, <1>0, AbsFlowFrame DEF Flow!Terminate, Flow!Step
  <2>5. FlowInv'
    BY <2>1, <1>0 DEF RInv, FlowInv
  <2>6. QED
    BY <2>4, <2>5, <1>0 DEF RInv, Flow!Next
<1>5. ASSUME NEW u \in Users, ServerStep(u) PROVE RInv' /\ [Flow!Next]_AbsFlow
  <2>1. UNCHANGED <<pc, reported, cred>>
    BY <1>5 DEF ServerStep, userVars
  <2>2. UNCHANGED AbsFlow
    BY <2>1 DEF AbsFlow
  <2>3. QED
    BY <2>1, <2>2, <1>0 DEF RInv, FlowInv
<1>6. CASE UNCHANGED vars
  <2>1. UNCHANGED <<pc, reported, cred>>
    BY <1>6 DEF vars
  <2>2. UNCHANGED AbsFlow
    BY <2>1 DEF AbsFlow
  <2>3. QED
    BY <2>1, <2>2, <1>0 DEF RInv, FlowInv
<1>7. QED
  BY <1>1, <1>2, <1>3, <1>4, <1>5, <1>6 DEF Next, UserStep

(* When every server failure is one the script answers with StopLocust,  *)
(* cas5/casLocust.py implements the session flow of spec 4.1 and 7: each *)
(* request is a step of LoginFlow, and a user whose flow aborted makes no *)
(* further request.                                                        *)
THEOREM LoginFlowRefinedHolds == StopFaultsOnly => (Spec => LoginFlowRefined)
<1> SUFFICES ASSUME StopFaultsOnly PROVE Spec => LoginFlowRefined
  OBVIOUS
<1>1. Init => Flow!Init
  BY DEF Init, AbsFlow, Flow!Init
<1>2. RInv /\ [Next]_vars => RInv' /\ [Flow!Next]_AbsFlow
  BY StepRefines
<1>3. QED
  BY InitRInv, <1>1, <1>2, PTL DEF Spec, LoginFlowRefined, Flow!Spec

=============================================================================
