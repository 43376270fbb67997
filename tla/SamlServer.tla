----------------------------- MODULE SamlServer -----------------------------
(***************************************************************************)
(* The SAML side of the system under load, as the scripts see it: the     *)
(* Shibboleth SP in front of a protected page, and the CAS server acting  *)
(* as SAML IdP.  The SP keeps a session of its own, named by a cookie in  *)
(* the user's HTTP session; the IdP uses the CAS TGT of CasServer.  Like  *)
(* CasServer this is modelled from the login exchange of spec 4.1.        *)
(***************************************************************************)
EXTENDS CasServer

(* The query parameters of the login URL the SP's redirect ends on.      *)
RedirectParams == {"RelayState", "SAMLRequest"}

(* The hidden fields of the IdP's auto-post form.                         *)
AssertionFields == {"RelayState", "SAMLResponse"}

(* GET SP + SP_PROTECTED, following redirects, from user u whose HTTP     *)
(* session holds a live SP session cookie iff sp and the TGC cookie iff  *)
(* cookie.  A live SP session is served the protected page itself; a live *)
(* SSO session is sent through the IdP callback to the auto-post form    *)
(* (the callback URL carries both parameters, the page has no login      *)
(* form); otherwise the chain ends on the CAS login page.  The cookie    *)
(* the session keeps is SpKeptTgc.                                         *)
GetSpProtected(u, sp, cookie, params, fields) ==
  /\ \/ sp /\ params = {} /\ fields = {}
     \/ ~sp /\ cookie /\ tgt[u]
        /\ params = RedirectParams /\ fields = {}
     \/ ~sp /\ ~(cookie /\ tgt[u])
        /\ \/ params = RedirectParams
           \/ "noRelay" \in Faults
        /\ \/ fields = LoginFields
           \/ "noForm" \in Faults
  /\ UNCHANGED serverVars

(* The TGC cookie after the GET of the SP page: the chain reaches the     *)
(* IdP's /cas/login only without a live SP session, and there a TGC whose *)
(* TGT is gone is removed (KeptTgc).                                       *)
SpKeptTgc(u, sp, cookie) == IF sp THEN cookie ELSE KeptTgc(u, cookie)

(* POST /cas/login?service=<callback>, following redirects.  Accepted     *)
(* credentials create a TGT and set the TGC cookie; the IdP consumes the *)
(* service ticket at its callback and answers with the auto-post form.   *)
(* Rejected credentials and server errors end on a page without it.      *)
PostSamlCredentials(u, c, fields, tgc) ==
  \/ /\ c \in ValidCreds /\ tgc
     /\ \/ fields = AssertionFields
        \/ "noAssertion" \in Faults
     /\ tgt' = [tgt EXCEPT ![u] = TRUE]
     /\ UNCHANGED st
  \/ /\ c \notin ValidCreds \/ "noRedirect" \in Faults
     /\ fields = {} /\ ~tgc
     /\ UNCHANGED serverVars

(* POST RelayState and SAMLResponse to SP + SP_LOGIN: the SP accepts the  *)
(* assertion, opens its session and shows the protected page ("PHP       *)
(* Variables"), or, under the spReject fault, rejects it.                 *)
SpAcceptsAssertion(accept) ==
  \/ accept
  \/ ~accept /\ "spReject" \in Faults

=============================================================================
