------------------------- MODULE SamlSequenceProofs -------------------------
(***************************************************************************)
(* Proofs about SamlSequence (cas/samlLocust.py) for every set of users,  *)
(* credentials and server faults, when /cas/logout reaches the SP.        *)
(*                                                                         *)
(* As for cas5/casLocust.py, NoSessionAtLoginStart is not inductive (a     *)
(* cookie whose TGT expired satisfies it), and is strengthened to: a user *)
(* at the login task holds neither a TGC cookie nor an SP session cookie. *)
(* The only step into the login task is the logout task, which drops the  *)
(* TGC cookie and, with single logout to the SP, the SP session; the      *)
(* steps that set either cookie leave the login task behind.              *)
(***************************************************************************)
EXTENDS SamlSequence, CasServerProofs, TLAPS

(* A user about to run the login task holds no TGC and no SP session.     *)
LoginHoldsNoCookies ==
  \A u \in Users : pc[u] = "login" => ~jar[u] /\ ~spSess[u]

IInv == TypeOK /\ LoginHoldsNoCookies

LEMMA InitIInv == Init => IInv
  BY DEF Init, ServerInit, IInv, TypeOK, LoginHoldsNoCookies, Labels

LEMMA StepIInv == SloToSp /\ IInv /\ [Next]_vars => IInv'
<1> SUFFICES ASSUME SloToSp, IInv, [Next]_vars PROVE IInv'
  OBVIOUS
<1> USE DEF IInv, TypeOK, LoginHoldsNoCookies, Goto, Stop, Labels
<1>1. ASSUME NEW u \in Users, SpGet(u) PROVE IInv'
  <2>1. PICK params \in SUBSET RedirectParams, fields \in SUBSET LoginFields :
          /\ GetSpProtected(u, spSess[u], jar[u], params, fields)
          /\ \/ "RelayState" \notin params /\ Stop(u) /\ UNCHANGED cred
             \/ /\ "RelayState" \in params /\ "SAMLRequest" \notin params
                /\ Stop(u) /\ UNCHANGED cred
             \/ /\ RedirectParams \subseteq params
                /\ "execution" \notin fields
                /\ Stop(u) /\ UNCHANGED cred
             \/ /\ RedirectParams \subseteq params
                /\ "execution" \in fields /\ "_eventId" \notin fields
                /\ Stop(u) /\ UNCHANGED cred
             \/ /\ RedirectParams \subseteq params
                /\ LoginFields \subseteq fields
                /\ Creds = {}
                /\ Goto(u, "logout") /\ UNCHANGED cred
             \/ /\ RedirectParams \subseteq params
                /\ LoginFields \subseteq fields
                /\ \E c \in Creds : cred' = [cred EXCEPT ![u] = c]
                /\ Goto(u, "post")
    BY <1>1 DEF SpGet
  <2>2. UNCHANGED serverVars
    BY <2>1 DEF GetSpProtected
  <2>3. pc'[u] # "login" /\ \A v \in Users \ {u} : pc'[v] = pc[v]
    BY <2>1
  <2>4. cred' \in [Users -> Creds \cup {NoCred}]
    BY <2>1
  <2>5. jar' \in [Users -> BOOLEAN] /\ \A v \in Users \ {u} : jar'[v] = jar[v]
    BY <1>1 DEF SpGet, SpKeptTgc, KeptTgc
  <2>6. QED
    BY <1>1, <2>2, <2>3, <2>4, <2>5 DEF SpGet, serverVars
<1>2. ASSUME NEW u \in Users, SamlLoginPost(u) PROVE IInv'
  <2>1. PICK fields \in SUBSET AssertionFields, tgc \in BOOLEAN :
          /\ PostSamlCredentials(u, cred[u], fields, tgc)
          /\ jar' = [jar EXCEPT ![u] = @ \/ tgc]
          /\ \/ "RelayState" \notin fields /\ Stop(u)
             \/ /\ "RelayState" \in fields /\ "SAMLResponse" \notin fields
                /\ Stop(u)
             \/ AssertionFields \subseteq fields /\ Goto(u, "acs")
    BY <1>2 DEF SamlLoginPost
  <2>2. tgt' \in [Users -> BOOLEAN] /\ st' \in [Users -> BOOLEAN]
    BY <2>1 DEF PostSamlCredentials, serverVars
  <2>3. pc'[u] # "login" /\ \A v \in Users \ {u} : pc'[v] = pc[v]
    BY <2>1
  <2>4. QED
    BY <1>2, <2>1, <2>2, <2>3 DEF SamlLoginPost
<1>3. ASSUME NEW u \in Users, SpAcsPost(u) PROVE IInv'
  <2>1. PICK accept \in BOOLEAN :
          /\ SpAcceptsAssertion(accept)
          /\ \/ /\ accept
                /\ spSess' = [spSess EXCEPT ![u] = TRUE]
                /\ reported' = [reported EXCEPT ![u] = TRUE]
                /\ Goto(u, "logout")
             \/ /\ ~accept
                /\ Goto(u, "logout")
                /\ UNCHANGED <<spSess, reported>>
    BY <1>3 DEF SpAcsPost
  <2>2. /\ spSess' \in [Users -> BOOLEAN]
        /\ reported' \in [Users -> BOOLEAN]
        /\ pc' = [pc EXCEPT ![u] = "logout"]
    BY <2>1, Zenon
  <2>3. \A v \in Users \ {u} : spSess'[v] = spSess[v]
    BY <2>1
  <2>4. QED
    BY <1>3, <2>2, <2>3 DEF SpAcsPost
<1>4. ASSUME NEW u \in Users, SamlLogout(u) PROVE IInv'
  BY <1>4 DEF SamlLogout, ServerLogout
<1>5. ASSUME NEW u \in Users, ServerStep(u) PROVE IInv'
  BY <1>5 DEF ServerStep, ExpireTgt, userVars
<1>6. CASE UNCHANGED vars
  BY <1>6 DEF vars
<1>7. QED
  BY <1>1, <1>2, <1>3, <1>4, <1>5, <1>6 DEF Next, UserStep

(* samlLocust.py never starts its login task inside a live SSO or SP      *)
(* session, whatever the IdP and the SP do, provided /cas/logout reaches   *)
(* the SP: every way out of the login task except StopLocust passes        *)
(* through the logout task.                                                *)
THEOREM NoSessionAtLoginStartHolds == SloToSp => (Spec => []NoSessionAtLoginStart)
<1> SUFFICES ASSUME SloToSp PROVE Spec => []NoSessionAtLoginStart
  OBVIOUS
<1>1. IInv /\ [Next]_vars => IInv'
  BY StepIInv
<1>2. IInv => NoSessionAtLoginStart
  BY DEF IInv, LoginHoldsNoCookies, NoSessionAtLoginStart
<1>3. QED
  BY InitIInv, <1>1, <1>2, PTL DEF Spec

-----------------------------------------------------------------------------
(* Every step keeps the state well typed, with or without single logout  *)
(* to the SP and whatever the IdP and the SP do.                          *)
LEMMA StepTypeOK == TypeOK /\ [Next]_vars => TypeOK'
<1> SUFFICES ASSUME TypeOK, [Next]_vars PROVE TypeOK'
  OBVIOUS
<1>0. ServerTypeOK
  BY DEF TypeOK, ServerTypeOK
<1> USE <1>0 DEF TypeOK, ServerStepAt, ServerTypeOK, Goto, Stop, Labels
<1>1. ASSUME NEW u \in Users, SpGet(u) PROVE TypeOK'
  <2>1. UNCHANGED serverVars
    BY <1>1 DEF SpGet, GetSpProtected
  <2>2. cred' \in [Users -> Creds \cup {NoCred}] /\ pc' \in [Users -> Labels]
    BY <1>1 DEF SpGet
  <2>3. jar' \in [Users -> BOOLEAN]
    BY <1>1 DEF SpGet, SpKeptTgc, KeptTgc
  <2>4. QED
    BY <1>1, <2>1, <2>2, <2>3 DEF SpGet, serverVars
<1>2. ASSUME NEW u \in Users, SamlLoginPost(u) PROVE TypeOK'
  <2>1. PICK fields \in SUBSET AssertionFields, tgc \in BOOLEAN :
          /\ PostSamlCredentials(u, cred[u], fields, tgc)
          /\ jar' = [jar EXCEPT ![u] = @ \/ tgc]
          /\ \/ "RelayState" \notin fields /\ Stop(u)
             \/ /\ "RelayState" \in fields /\ "SAMLResponse" \notin fields
                /\ Stop(u)
             \/ AssertionFields \subseteq fields /\ Goto(u, "acs")
    BY <1>2 DEF SamlLoginPost
  <2>2. ServerStepAt(u)
    BY <2>1, PostSamlCredentialsAt
  <2>3. QED
    BY <1>2, <2>1, <2>2 DEF SamlLoginPost
<1>3. ASSUME NEW u \in Users, SpAcsPost(u) PROVE TypeOK'
  <2>1. /\ spSess' \in [Users -> BOOLEAN]
        /\ reported' \in [Users -> BOOLEAN]
        /\ pc' = [pc EXCEPT ![u] = "logout"]
    BY <1>3, Zenon DEF SpAcsPost
  <2>2. QED
    BY <1>3, <2>1 DEF SpAcsPost
<1>4. ASSUME NEW u \in Users, SamlLogout(u) PROVE TypeOK'
  <2>1. ServerStepAt(u)
    BY <1>4, ServerLogoutAt DEF SamlLogout
  <2>2. QED
    BY <1>4, <2>1, SloAssumption DEF SamlLogout
<1>5. ASSUME NEW u \in Users, ServerStep(u) PROVE TypeOK'
  <2>1. ServerStepAt(u)
    BY <1>5, ExpireAt DEF ServerStep
  <2>2. QED
    BY <1>5, <2>1 DEF ServerStep, userVars
<1>6. CASE UNCHANGED vars
  BY <1>6 DEF vars
<1>7. QED
  BY <1>1, <1>2, <1>3, <1>4, <1>5, <1>6 DEF Next, UserStep

(* samlLocust.py keeps every user's state well typed.                     *)
THEOREM SamlTypeCorrect == Spec => []TypeOK
<1>1. Init => TypeOK
  BY InitIInv DEF IInv
<1>2. QED
  BY <1>1, StepTypeOK, PTL DEF Spec

-----------------------------------------------------------------------------
(* samlLocust.py implements LoginFlow under AbsFlow.  Unlike the CAS      *)
(* script, it answers a rejected credential row and a POST without the    *)
(* auto-post form with StopLocust, so only two things break the flow: an  *)
(* empty credentials.csv (IndexError) and an assertion the SP rejects     *)
(* (AssertionError); after both the sequence goes on to the logout task   *)
(* without having reported success, and the logout would take an aborted *)
(* flow back to Start.                                                     *)
SpAcceptsAll ==
  /\ Creds # {}
  /\ "spReject" \notin Faults

(* At the logout task the login reported success; inside the login task   *)
(* (POST, assertion consumer) it has not yet.                              *)
FlowInv ==
  \A u \in Users :
    /\ pc[u] = "logout" => reported[u]
    /\ pc[u] \in {"post", "acs"} => ~reported[u]

RInv == TypeOK /\ FlowInv

(* AbsFlow reads each user's flow state off that user's pc and reported. *)
LEMMA AbsFlowFrame ==
  ASSUME TypeOK, TypeOK', NEW u \in Users,
         \A v \in Users \ {u} : pc'[v] = pc[v] /\ reported'[v] = reported[v]
  PROVE  AbsFlow' = [AbsFlow EXCEPT ![u] = AbsFlow'[u]]
  BY DEF AbsFlow, TypeOK, Labels

LEMMA StepRefines ==
  SpAcceptsAll /\ RInv /\ [Next]_vars => RInv' /\ [Flow!Next]_AbsFlow
<1> SUFFICES ASSUME SpAcceptsAll, RInv, [Next]_vars
             PROVE  RInv' /\ [Flow!Next]_AbsFlow
  OBVIOUS
<1>0. TypeOK /\ TypeOK'
  BY StepTypeOK DEF RInv
<1> USE <1>0
<1> DEFINE Moves(u) ==
      \A v \in Users \ {u} : pc'[v] = pc[v] /\ reported'[v] = reported[v]
<1>1. ASSUME NEW u \in Users, SpGet(u) PROVE RInv' /\ [Flow!Next]_AbsFlow
  <2>1. /\ reported'[u] = FALSE
        /\ pc'[u] \in {"stopped", "post"}
        /\ Moves(u)
    BY <1>1 DEF SpGet, Goto, Stop, SpAcceptsAll, TypeOK
  <2>2. AbsFlow[u] \in {"Start", "LoggedOut"}
    BY <1>1 DEF SpGet, AbsFlow, TypeOK
  <2>3. AbsFlow'[u] \in {"TokensExtracted", "Aborted"}
    BY <2>1 DEF AbsFlow, TypeOK
  <2>4. Flow!Initiate(u)
    BY <2>1, <2>2, <2>3, AbsFlowFrame DEF Flow!Initiate, Flow!Step
  <2>5. FlowInv'
    BY <2>1 DEF RInv, FlowInv, TypeOK
  <2>6. QED
    BY <2>4, <2>5 DEF RInv, Flow!Next
<1>2. ASSUME NEW u \in Users, SamlLoginPost(u) PROVE RInv' /\ [Flow!Next]_AbsFlow
  <2>1. /\ pc'[u] \in {"stopped", "acs"}
        /\ reported' = reported /\ ~reported[u]
        /\ Moves(u)
    BY <1>2 DEF SamlLoginPost, Goto, Stop, RInv, FlowInv, TypeOK
  <2>2. AbsFlow[u] = "TokensExtracted"
    BY <1>2 DEF SamlLoginPost, AbsFlow, TypeOK
  <2>3. AbsFlow'[u] \in {"TicketObtained", "Aborted"}
    BY <2>1 DEF AbsFlow, TypeOK
  <2>4. Flow!Submit(u)
    BY <2>1, <2>2, <2>3, AbsFlowFrame DEF Flow!Submit, Flow!Step
  <2>5. FlowInv'
    BY <2>1 DEF RInv, FlowInv, TypeOK
  <2>6. QED
    BY <2>4, <2>5 DEF RInv, Flow!Next
<1>3. ASSUME NEW u \in Users, SpAcsPost(u) PROVE RInv' /\ [Flow!Next]_AbsFlow
  <2>1. PICK accept \in BOOLEAN :
          /\ SpAcceptsAssertion(accept)
          /\ \/ /\ accept
                /\ spSess' = [spSess EXCEPT ![u] = TRUE]
                /\ reported' = [reported EXCEPT ![u] = TRUE]
                /\ Goto(u, "logout")
             \/ /\ ~accept
                /\ Goto(u, "logout")
                /\ UNCHANGED <<spSess, reported>>
    BY <1>3 DEF SpAcsPost
  (* Without spReject the SP accepts every assertion.                     *)
  <2>2. accept
    BY <2>1 DEF SpAcceptsAssertion, SpAcceptsAll
  <2>3. /\ pc'[u] = "logout" /\ reported'[u]
        /\ Moves(u)
    BY <2>1, <2>2 DEF Goto, TypeOK
  <2>4. AbsFlow[u] = "TicketObtained"
    BY <1>3 DEF SpAcsPost, AbsFlow, TypeOK
  <2>5. AbsFlow'[u] = "Validated"
    BY <2>3 DEF AbsFlow, TypeOK
  <2>6. Flow!Validate(u)
    BY <2>3, <2>4, <2>5, AbsFlowFrame DEF Flow!Validate, Flow!Step
  <2>7. FlowInv'
    BY <2>3 DEF RInv, FlowInv, TypeOK
  <2>8. QED
    BY <2>6, <2>7 DEF RInv, Flow!Next
<1>4. ASSUME NEW u \in Users, SamlLogout(u) PROVE RInv' /\ [Flow!Next]_AbsFlow
  <2>1. /\ pc'[u] = "login" /\ reported' = reported /\ reported[u]
        /\ Moves(u)
    BY <1>4 DEF SamlLogout, Goto, RInv, FlowInv, TypeOK
  <2>2. AbsFlow[u] = "Validated"
    BY <1>4, <2>1 DEF SamlLogout, AbsFlow, TypeOK
  <2>3. AbsFlow'[u] = "LoggedOut"
    BY <2>1 DEF AbsFlow, TypeOK
  <2>4. Flow!Terminate(u)
    BY <2>1, <2>2, <2>3, AbsFlowFrame DEF Flow!Terminate, Flow!Step
  <2>5. FlowInv'
    BY <2>1 DEF RInv, FlowInv, TypeOK
  <2>6. QED
    BY <2>4, <2>5 DEF RInv, Flow!Next
<1>5. ASSUME NEW u \in Users, ServerStep(u) PROVE RInv' /\ [Flow!Next]_AbsFlow
  <2>1. UNCHANGED <<pc, reported>>
    BY <1>5 DEF ServerStep, userVars
  <2>2. QED
    BY <2>1 DEF RInv, FlowInv, AbsFlow
<1>6. CASE UNCHANGED vars
  <2>1. UNCHANGED <<pc, reported>>
    BY <1>6 DEF vars
  <2>2. QED
    BY <2>1 DEF RInv, FlowInv, AbsFlow
<1>7. QED
  BY <1>1, <1>2, <1>3, <1>4, <1>5, <1>6 DEF Next, UserStep

(* Unless the credentials file is empty or the SP rejects an assertion,  *)
(* samlLocust.py implements the session flow of spec 4.1 and 7, with or  *)
(* without single logout to the SP: each request is a step of LoginFlow,  *)
(* and a user whose flow aborted (StopLocust) makes no further request.  *)
THEOREM SamlFlowRefinedHolds == SpAcceptsAll => (Spec => SamlFlowRefined)
<1> SUFFICES ASSUME SpAcceptsAll PROVE Spec => SamlFlowRefined
  OBVIOUS
<1>1. Init => RInv /\ Flow!Init
  BY InitIInv DEF IInv, RInv, FlowInv, Init, AbsFlow, Flow!Init
<1>2. RInv /\ [Next]_vars => RInv' /\ [Flow!Next]_AbsFlow
  BY StepRefines
<1>3. QED
  BY <1>1, <1>2, PTL DEF Spec, SamlFlowRefined, Flow!Spec

=============================================================================
