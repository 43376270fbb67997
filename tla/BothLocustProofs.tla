------------------------- MODULE BothLocustProofs -------------------------
(***************************************************************************)
(* Proofs about BothLocust (cas/allLocust.py) for every set of users and  *)
(* credentials, and every set of server faults none of which can fail a   *)
(* nested login after its credentials POST created a TGT.                  *)
(*                                                                         *)
(* self.interrupt() leaves a nested sequence without its logout task, so  *)
(* NoSessionAtNestedLogin holds only if no interrupt happens while the    *)
(* user holds a live SSO session.  The inductive invariant pins down where *)
(* one can exist: not at the parent nor before the credentials POST of    *)
(* either sequence, and at the CAS validation step only together with a   *)
(* live service ticket (so the validation succeeds).  The SP session      *)
(* exists only between the assertion POST and the SAML logout task, whose  *)
(* single logout to the SP ends it.                                        *)
(***************************************************************************)
EXTENDS BothLocust, CasServerProofs, TLAPS

(* The faults that fail a nested login before its POST creates a TGT, or  *)
(* that the script answers with its logout task, TGT timeouts, and the    *)
(* mistyped-password fault old_locustfile.py alone can meet.              *)
EarlyFaults ==
  {"noForm", "noRelay", "noRedirect", "spReject", "expireTgt", "acceptBad"}

(* Outside a nested login's POST and what follows it, no live SSO session.*)
NoSsoBeforePost ==
  \A u \in Users :
    pc[u] \in {"parent", "casLogin", "samlLogin", "samlPost"}
      => ~(jar[u] /\ tgt[u])

(* Outside the SAML logout task, no SP session.                           *)
NoSpBeforeLogout == \A u \in Users : pc[u] # "samlLogout" => ~spSess[u]

(* At the CAS validation step a live TGT comes with a live service ticket.*)
TicketWithTgt == \A u \in Users : pc[u] = "casValidate" /\ tgt[u] => st[u]

IInv == TypeOK /\ NoSsoBeforePost /\ NoSpBeforeLogout /\ TicketWithTgt

(* The theorem's hypotheses on the constants.                             *)
EarlyOnly == Faults \subseteq EarlyFaults /\ SloToSp

LEMMA InitIInv == Init => IInv
  BY DEF Init, ServerInit, IInv, TypeOK, NoSsoBeforePost, NoSpBeforeLogout,
         TicketWithTgt, Labels, CasLabels, SamlLabels

LEMMA StepIInv == EarlyOnly /\ IInv /\ [Next]_vars => IInv'
<1> SUFFICES ASSUME EarlyOnly, IInv, [Next]_vars PROVE IInv'
  OBVIOUS
<1> USE DEF IInv, TypeOK, NoSsoBeforePost, NoSpBeforeLogout, TicketWithTgt,
            Goto, Interrupt, Labels, CasLabels, SamlLabels, EarlyOnly,
            EarlyFaults
<1>1. ASSUME NEW u \in Users, PickCas(u) \/ PickSaml(u) PROVE IInv'
  <2>1. CASE PickCas(u)
    BY <2>1 DEF PickCas
  <2>2. CASE PickSaml(u)
    BY <2>2 DEF PickSaml
  <2>3. QED
    BY <1>1, <2>1, <2>2
<1>2. ASSUME NEW u \in Users, CasLoginGet(u) PROVE IInv'
  <2>1. PICK fields \in SUBSET LoginFields :
          /\ GetLoginPage(u, jar[u], fields)
          /\ \/ /\ "execution" \notin fields
                /\ Interrupt(u) /\ UNCHANGED cred
             \/ /\ "execution" \in fields /\ "_eventId" \notin fields
                /\ Interrupt(u) /\ UNCHANGED cred
             \/ /\ LoginFields \subseteq fields /\ Creds = {}
                /\ Goto(u, "casLogout") /\ UNCHANGED cred
             \/ /\ LoginFields \subseteq fields
                /\ \E c \in Creds : cred' = [cred EXCEPT ![u] = c]
                /\ Goto(u, "casPost")
    BY <1>2 DEF CasLoginGet
  <2>2. ~(jar[u] /\ tgt[u]) /\ UNCHANGED serverVars
    BY <1>2, <2>1 DEF CasLoginGet, GetLoginPage
  <2>3. cred' \in [Users -> Creds \cup {NoCred}]
    BY <2>1
  <2>4. jar' = [jar EXCEPT ![u] = FALSE]
    BY <1>2, <2>2 DEF CasLoginGet, KeptTgc
  <2>5. ~jar'[u] /\ \A v \in Users \ {u} : jar'[v] = jar[v]
    BY <2>4
  <2>6. /\ pc'[u] \in {"parent", "casLogout", "casPost"}
        /\ \A v \in Users \ {u} : pc'[v] = pc[v]
        /\ pc' \in [Users -> Labels]
    BY <2>1
  <2>7. UNCHANGED <<spSess, reported>>
    BY <1>2 DEF CasLoginGet
  <2>8. TypeOK'
    BY <2>2, <2>3, <2>4, <2>6, <2>7 DEF serverVars
  <2>9. NoSsoBeforePost'
    BY <2>2, <2>5, <2>6 DEF serverVars
  <2>10. NoSpBeforeLogout' /\ TicketWithTgt'
    <3>1. pc[u] = "casLogin"
      BY <1>2 DEF CasLoginGet
    <3>2. QED
      BY <3>1, <2>2, <2>6, <2>7 DEF serverVars
  <2>11. QED
    BY <2>8, <2>9, <2>10
<1>3. ASSUME NEW u \in Users, CasLoginPost(u) PROVE IInv'
  <2>1. PICK r \in PostReplies :
          /\ PostCredentials(u, cred[u], r)
          /\ jar' = [jar EXCEPT ![u] = @ \/ r.tgc]
          /\ \/ ~r.redirect /\ Goto(u, "casLogout")
             \/ r.redirect /\ ~r.ticket /\ Interrupt(u)
             \/ r.redirect /\ r.ticket /\ Goto(u, "casValidate")
    BY <1>3 DEF CasLoginPost
  <2>2. \/ r.redirect /\ r.ticket /\ tgt' = [tgt EXCEPT ![u] = TRUE]
           /\ st' = [st EXCEPT ![u] = TRUE]
        \/ ~r.redirect /\ UNCHANGED serverVars
    BY <2>1 DEF PostCredentials
  <2>3. jar' \in [Users -> BOOLEAN]
    BY <2>1 DEF PostReplies
  <2>4. /\ pc'[u] \in {"casLogout", "casValidate"}
        /\ pc'[u] = "casValidate" => tgt'[u] /\ st'[u]
    BY <2>1, <2>2
  <2>5. /\ tgt' \in [Users -> BOOLEAN] /\ st' \in [Users -> BOOLEAN]
        /\ \A v \in Users \ {u} : /\ tgt'[v] = tgt[v] /\ st'[v] = st[v]
                                  /\ jar'[v] = jar[v] /\ pc'[v] = pc[v]
    BY <2>1, <2>2 DEF serverVars
  <2>6. QED
    BY <1>3, <2>3, <2>4, <2>5 DEF CasLoginPost
<1>4. ASSUME NEW u \in Users, CasValidate(u) PROVE IInv'
  <2>1. PICK r \in ValidateReplies :
          /\ ValidateTicket(u, r)
          /\ \/ /\ r.success
                /\ reported' = [reported EXCEPT ![u] = TRUE]
                /\ Goto(u, "casLogout")
             \/ ~r.success /\ Interrupt(u) /\ UNCHANGED reported
    BY <1>4 DEF CasValidate
  <2>2. r.success = st[u] /\ st' = [st EXCEPT ![u] = FALSE] /\ UNCHANGED tgt
    BY <2>1 DEF ValidateTicket
  <2>3. reported' \in [Users -> BOOLEAN]
    <3>1. \/ reported' = reported
          \/ reported' = [reported EXCEPT ![u] = TRUE]
      BY <2>1, Zenon
    <3>2. QED
      BY <3>1
  <2>4. QED
    BY <1>4, <2>1, <2>2, <2>3 DEF CasValidate
<1>5. ASSUME NEW u \in Users, CasLogout(u) PROVE IInv'
  BY <1>5 DEF CasLogout, ServerLogout
<1>6. ASSUME NEW u \in Users, SamlSpGet(u) PROVE IInv'
  <2>1. PICK params \in SUBSET RedirectParams, fields \in SUBSET LoginFields :
          /\ GetSpProtected(u, spSess[u], jar[u], params, fields)
          /\ \/ /\ ~(RedirectParams \subseteq params
                     /\ LoginFields \subseteq fields)
                /\ Interrupt(u) /\ UNCHANGED cred
             \/ /\ RedirectParams \subseteq params
                /\ LoginFields \subseteq fields
                /\ Creds = {}
                /\ Goto(u, "samlLogout") /\ UNCHANGED cred
             \/ /\ RedirectParams \subseteq params
                /\ LoginFields \subseteq fields
                /\ \E c \in Creds : cred' = [cred EXCEPT ![u] = c]
                /\ Goto(u, "samlPost")
    BY <1>6 DEF SamlSpGet
  <2>2. UNCHANGED serverVars
    BY <2>1 DEF GetSpProtected
  <2>3. cred' \in [Users -> Creds \cup {NoCred}]
    BY <2>1
  <2>4. ~spSess[u] /\ ~(jar[u] /\ tgt[u])
    BY <1>6 DEF SamlSpGet
  <2>5. jar' = [jar EXCEPT ![u] = FALSE]
    BY <1>6, <2>4 DEF SamlSpGet, SpKeptTgc, KeptTgc
  <2>6. ~jar'[u] /\ \A v \in Users \ {u} : jar'[v] = jar[v]
    BY <2>5
  <2>7. /\ pc'[u] \in {"parent", "samlLogout", "samlPost"}
        /\ \A v \in Users \ {u} : pc'[v] = pc[v]
        /\ pc' \in [Users -> Labels]
    BY <2>1
  <2>8. UNCHANGED <<spSess, reported>>
    BY <1>6 DEF SamlSpGet
  <2>9. TypeOK'
    BY <2>2, <2>3, <2>5, <2>7, <2>8 DEF serverVars
  <2>10. NoSsoBeforePost'
    BY <2>2, <2>6, <2>7 DEF serverVars
  <2>11. NoSpBeforeLogout' /\ TicketWithTgt'
    BY <2>2, <2>4, <2>7, <2>8 DEF serverVars
  <2>12. QED
    BY <2>9, <2>10, <2>11
<1>7. ASSUME NEW u \in Users, SamlLoginPost(u) PROVE IInv'
  <2>1. PICK fields \in SUBSET AssertionFields, tgc \in BOOLEAN :
          /\ PostSamlCredentials(u, cred[u], fields, tgc)
          /\ jar' = [jar EXCEPT ![u] = @ \/ tgc]
          /\ \/ ~(AssertionFields \subseteq fields) /\ Interrupt(u)
             \/ AssertionFields \subseteq fields /\ Goto(u, "samlAcs")
    BY <1>7 DEF SamlLoginPost
  <2>2. \/ /\ AssertionFields \subseteq fields
           /\ tgt' = [tgt EXCEPT ![u] = TRUE] /\ UNCHANGED st
        \/ ~tgc /\ UNCHANGED serverVars
    BY <2>1 DEF PostSamlCredentials, AssertionFields
  <2>3. /\ jar' \in [Users -> BOOLEAN]
        /\ tgt' \in [Users -> BOOLEAN] /\ st' \in [Users -> BOOLEAN]
        /\ \A v \in Users \ {u} : /\ tgt'[v] = tgt[v] /\ st'[v] = st[v]
                                  /\ jar'[v] = jar[v] /\ pc'[v] = pc[v]
    BY <2>1, <2>2 DEF serverVars
  <2>4. \/ pc'[u] = "samlAcs"
        \/ pc'[u] = "parent" /\ jar'[u] = jar[u] /\ tgt'[u] = tgt[u]
    BY <2>1, <2>2 DEF serverVars
  <2>5. QED
    BY <1>7, <2>3, <2>4 DEF SamlLoginPost
<1>8. ASSUME NEW u \in Users, SamlAcs(u) PROVE IInv'
  <2>1. PICK accept \in BOOLEAN :
          /\ SpAcceptsAssertion(accept)
          /\ \/ /\ accept
                /\ spSess' = [spSess EXCEPT ![u] = TRUE]
                /\ reported' = [reported EXCEPT ![u] = TRUE]
                /\ Goto(u, "samlLogout")
             \/ /\ ~accept
                /\ Goto(u, "samlLogout")
                /\ UNCHANGED <<spSess, reported>>
    BY <1>8 DEF SamlAcs
  <2>2. /\ spSess' \in [Users -> BOOLEAN]
        /\ reported' \in [Users -> BOOLEAN]
        /\ pc' = [pc EXCEPT ![u] = "samlLogout"]
    BY <2>1, Zenon
  <2>3. \A v \in Users \ {u} : spSess'[v] = spSess[v]
    BY <2>1
  <2>4. QED
    BY <1>8, <2>2, <2>3 DEF SamlAcs
<1>9. ASSUME NEW u \in Users, SamlLogout(u) PROVE IInv'
  BY <1>9 DEF SamlLogout, ServerLogout
<1>10. ASSUME NEW u \in Users, ServerStep(u) PROVE IInv'
  BY <1>10 DEF ServerStep, ExpireTgt, ExpireSt, userVars
<1>11. CASE UNCHANGED vars
  BY <1>11 DEF vars
<1>12. QED
  BY <1>1, <1>2, <1>3, <1>4, <1>5, <1>6, <1>7, <1>8, <1>9, <1>10, <1>11
     DEF Next, UserStep, NestedStep

(* In allLocust.py each nested CAS or SAML login starts outside every      *)
(* session, for any number of users and credentials, as long as no fault  *)
(* can fail a login after its POST created a TGT (only then does           *)
(* self.interrupt() skip a needed logout) and logout reaches the SP.      *)
THEOREM NestedLoginHoldsNoSession ==
  EarlyOnly => (Spec => []NoSessionAtNestedLogin)
<1> SUFFICES ASSUME EarlyOnly PROVE Spec => []NoSessionAtNestedLogin
  OBVIOUS
<1>1. IInv /\ [Next]_vars => IInv'
  BY StepIInv
<1>2. IInv => NoSessionAtNestedLogin
  BY DEF IInv, NoSsoBeforePost, NoSpBeforeLogout, NoSessionAtNestedLogin
<1>3. QED
  BY InitIInv, <1>1, <1>2, PTL DEF Spec

-----------------------------------------------------------------------------
(* Every step keeps the state well typed, whatever the server, the IdP    *)
(* and the SP do.                                                          *)
LEMMA StepTypeOK == TypeOK /\ [Next]_vars => TypeOK'
<1> SUFFICES ASSUME TypeOK, [Next]_vars PROVE TypeOK'
  OBVIOUS
<1>0. ServerTypeOK
  BY DEF TypeOK, ServerTypeOK
<1> USE <1>0 DEF TypeOK, ServerStepAt, ServerTypeOK, Goto, Interrupt, Labels,
                 CasLabels, SamlLabels
<1>1. ASSUME NEW u \in Users, PickCas(u) \/ PickSaml(u) PROVE TypeOK'
  BY <1>1 DEF PickCas, PickSaml
<1>2. ASSUME NEW u \in Users, CasLoginGet(u) PROVE TypeOK'
  <2>1. PICK fields \in SUBSET LoginFields : GetLoginPage(u, jar[u], fields)
    BY <1>2 DEF CasLoginGet
  <2>2. ServerStepAt(u)
    BY <2>1, GetLoginPageAt
  <2>3. jar' \in [Users -> BOOLEAN]
    BY <1>2 DEF CasLoginGet, KeptTgc
  <2>4. QED
    BY <1>2, <2>2, <2>3 DEF CasLoginGet
<1>3. ASSUME NEW u \in Users, CasLoginPost(u) PROVE TypeOK'
  <2>1. PICK r \in PostReplies :
          /\ PostCredentials(u, cred[u], r)
          /\ jar' = [jar EXCEPT ![u] = @ \/ r.tgc]
          /\ \/ ~r.redirect /\ Goto(u, "casLogout")
             \/ r.redirect /\ ~r.ticket /\ Interrupt(u)
             \/ r.redirect /\ r.ticket /\ Goto(u, "casValidate")
    BY <1>3 DEF CasLoginPost
  <2>2. ServerStepAt(u)
    BY <2>1, PostCredentialsAt
  <2>3. QED
    BY <1>3, <2>1, <2>2 DEF CasLoginPost, PostReplies
<1>4. ASSUME NEW u \in Users, CasValidate(u) PROVE TypeOK'
  <2>1. PICK r \in ValidateReplies :
          /\ ValidateTicket(u, r)
          /\ \/ /\ r.success
                /\ reported' = [reported EXCEPT ![u] = TRUE]
                /\ Goto(u, "casLogout")
             \/ ~r.success /\ Interrupt(u) /\ UNCHANGED reported
    BY <1>4 DEF CasValidate
  <2>2. ServerStepAt(u)
    BY <2>1, ValidateTicketAt
  <2>3. reported' \in [Users -> BOOLEAN] /\ pc' \in [Users -> Labels]
    BY <2>1, Zenon
  <2>4. QED
    BY <1>4, <2>2, <2>3 DEF CasValidate
<1>5. ASSUME NEW u \in Users, CasLogout(u) \/ SamlLogout(u) PROVE TypeOK'
  <2>1. ServerStepAt(u)
    BY <1>5, ServerLogoutAt DEF CasLogout, SamlLogout
  <2>2. QED
    BY <1>5, <2>1, BothAssumption DEF CasLogout, SamlLogout
<1>6. ASSUME NEW u \in Users, SamlSpGet(u) PROVE TypeOK'
  <2>1. PICK params \in SUBSET RedirectParams, fields \in SUBSET LoginFields :
          GetSpProtected(u, spSess[u], jar[u], params, fields)
    BY <1>6 DEF SamlSpGet
  <2>2. ServerStepAt(u)
    BY <2>1, GetSpProtectedAt
  <2>3. jar' \in [Users -> BOOLEAN]
    BY <1>6 DEF SamlSpGet, SpKeptTgc, KeptTgc
  <2>4. QED
    BY <1>6, <2>2, <2>3 DEF SamlSpGet
<1>7. ASSUME NEW u \in Users, SamlLoginPost(u) PROVE TypeOK'
  <2>1. PICK fields \in SUBSET AssertionFields, tgc \in BOOLEAN :
          /\ PostSamlCredentials(u, cred[u], fields, tgc)
          /\ jar' = [jar EXCEPT ![u] = @ \/ tgc]
          /\ \/ ~(AssertionFields \subseteq fields) /\ Interrupt(u)
             \/ AssertionFields \subseteq fields /\ Goto(u, "samlAcs")
    BY <1>7 DEF SamlLoginPost
  <2>2. ServerStepAt(u)
    BY <2>1, PostSamlCredentialsAt
  <2>3. QED
    BY <1>7, <2>1, <2>2 DEF SamlLoginPost
<1>8. ASSUME NEW u \in Users, SamlAcs(u) PROVE TypeOK'
  <2>1. /\ spSess' \in [Users -> BOOLEAN]
        /\ reported' \in [Users -> BOOLEAN]
        /\ pc' = [pc EXCEPT ![u] = "samlLogout"]
    BY <1>8, Zenon DEF SamlAcs
  <2>2. QED
    BY <1>8, <2>1 DEF SamlAcs
<1>9. ASSUME NEW u \in Users, ServerStep(u) PROVE TypeOK'
  <2>1. ServerStepAt(u)
    BY <1>9, ExpireAt DEF ServerStep
  <2>2. QED
    BY <1>9, <2>1 DEF ServerStep, userVars
<1>10. CASE UNCHANGED vars
  BY <1>10 DEF vars
<1>11. QED
  BY <1>1, <1>2, <1>3, <1>4, <1>5, <1>6, <1>7, <1>8, <1>9, <1>10
     DEF Next, UserStep, NestedStep

(* allLocust.py keeps every user's state well typed, expired service     *)
(* tickets included.                                                       *)
THEOREM BothTypeCorrect == Spec => []TypeOK
<1>1. Init => TypeOK
  BY InitIInv DEF IInv
<1>2. QED
  BY <1>1, StepTypeOK, PTL DEF Spec

=============================================================================
