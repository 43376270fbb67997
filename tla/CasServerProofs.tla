-------------------------- MODULE CasServerProofs --------------------------
(***************************************************************************)
(* Lemmas about the server operators of CasServer and SamlServer, which    *)
(* every script module calls: each keeps the server state well typed and  *)
(* changes it only at the user whose request it answers.  The proofs     *)
(* about the scripts cite them instead of unfolding the server in every   *)
(* step.                                                                   *)
(***************************************************************************)
EXTENDS SamlServer, TLAPS

ServerTypeOK ==
  /\ tgt \in [Users -> BOOLEAN]
  /\ st \in [Users -> BOOLEAN]

(* A server step answering user u: the state keeps its type and no other *)
(* user's TGT or service ticket changes.                                  *)
ServerStepAt(u) ==
  /\ ServerTypeOK'
  /\ \A v \in Users \ {u} : tgt'[v] = tgt[v] /\ st'[v] = st[v]

LEMMA GetLoginPageAt ==
  ASSUME ServerTypeOK, NEW u \in Users, NEW cookie, NEW fields,
         GetLoginPage(u, cookie, fields)
  PROVE  ServerStepAt(u)
  BY DEF GetLoginPage, ServerStepAt, ServerTypeOK, serverVars

LEMMA PostCredentialsAt ==
  ASSUME ServerTypeOK, NEW u \in Users, NEW c, NEW r,
         PostCredentials(u, c, r)
  PROVE  ServerStepAt(u)
  BY DEF PostCredentials, ServerStepAt, ServerTypeOK, serverVars

LEMMA PostNoServiceAt ==
  ASSUME ServerTypeOK, NEW u \in Users, NEW c, NEW tgc,
         PostNoService(u, c, tgc)
  PROVE  ServerStepAt(u)
  BY DEF PostNoService, ServerStepAt, ServerTypeOK, serverVars

LEMMA PostBadPasswordAt ==
  ASSUME ServerTypeOK, NEW u \in Users, NEW tgc,
         PostBadPassword(u, tgc)
  PROVE  ServerStepAt(u)
  BY DEF PostBadPassword, ServerStepAt, ServerTypeOK, serverVars

LEMMA PostSamlCredentialsAt ==
  ASSUME ServerTypeOK, NEW u \in Users, NEW c, NEW fields, NEW tgc,
         PostSamlCredentials(u, c, fields, tgc)
  PROVE  ServerStepAt(u)
  BY DEF PostSamlCredentials, ServerStepAt, ServerTypeOK, serverVars

LEMMA GetSpProtectedAt ==
  ASSUME ServerTypeOK, NEW u \in Users, NEW sp, NEW cookie, NEW params,
         NEW fields, GetSpProtected(u, sp, cookie, params, fields)
  PROVE  ServerStepAt(u)
  BY DEF GetSpProtected, ServerStepAt, ServerTypeOK, serverVars

LEMMA ValidateTicketAt ==
  ASSUME ServerTypeOK, NEW u \in Users, NEW r,
         ValidateTicket(u, r)
  PROVE  ServerStepAt(u)
<1>1. CASE st' = [st EXCEPT ![u] = FALSE] /\ UNCHANGED tgt
  BY <1>1 DEF ServerStepAt, ServerTypeOK
<1>2. CASE UNCHANGED serverVars
  BY <1>2 DEF ServerStepAt, ServerTypeOK, serverVars
<1>3. QED
  BY <1>1, <1>2 DEF ValidateTicket

LEMMA ServerLogoutAt ==
  ASSUME ServerTypeOK, NEW u \in Users, NEW cookie \in BOOLEAN,
         ServerLogout(u, cookie)
  PROVE  ServerStepAt(u)
  BY DEF ServerLogout, ServerStepAt, ServerTypeOK

LEMMA ExpireAt ==
  ASSUME ServerTypeOK, NEW u \in Users, ExpireTgt(u) \/ ExpireSt(u)
  PROVE  ServerStepAt(u)
  BY DEF ExpireTgt, ExpireSt, ServerStepAt, ServerTypeOK

(* The login form is shown only to a session that keeps no TGC cookie: a  *)
(* live SSO session gets the "logged in" page instead, and a stale TGC is *)
(* removed by the same reply.                                              *)
LEMMA FormShownNoCookie ==
  ASSUME NEW u \in Users, NEW cookie, NEW fields,
         LoginPageNoService(u, cookie, fields), LoginFields \subseteq fields
  PROVE  ~KeptTgc(u, cookie)
  BY DEF LoginPageNoService, KeptTgc, LoginFields

=============================================================================
