----------------------------- MODULE CasServer -----------------------------
(***************************************************************************)
(* The CAS server as the load-test scripts see it: the four endpoints they *)
(* call (/cas/login GET and POST, /cas/serviceValidate, /cas/logout) and   *)
(* the server state those calls read and change.  The server is not part  *)
(* of the scripts; it is modelled from the login exchange the spec         *)
(* describes (section 4.1), keeping only what decides the scripts'         *)
(* control flow:                                                           *)
(*   tgt[u]  the server holds a live ticket-granting ticket (SSO session)  *)
(*           for the TGC cookie of user u's HTTP session;                  *)
(*   st[u]   the service ticket last issued to user u is live (issued,    *)
(*           not yet validated, not expired).                              *)
(* A user's HTTP session holds at most one TGC cookie, so one TGT and one  *)
(* outstanding service ticket per user are all the scripts can observe.   *)
(*                                                                         *)
(* Faults is the set of ways the server may misbehave in a run; the empty  *)
(* set is a server that answers every request correctly and never times   *)
(* a ticket out during the test.                                          *)
(***************************************************************************)
CONSTANTS
  Users,       \* the simulated Locust users (one HTTP session each)
  Creds,       \* the rows of credentials.csv
  ValidCreds,  \* the rows the server accepts
  Faults,      \* the server misbehaviours allowed in this run
  NoCred       \* a user's credential before its first login

FaultKinds ==
  { "noForm",      \* login page lacks the execution or _eventId field
    "noTicket",    \* login POST redirects without a ticket parameter
    "noRedirect",  \* login POST answers without a redirect (server error)
    "badStatus",   \* serviceValidate answers with a status other than 200
    "badBody",     \* serviceValidate rejects a live ticket
    "expireTgt",   \* TGTs time out on the server
    "expireSt",    \* service tickets time out before they are validated
    "noRelay",     \* the redirect to the login page lacks RelayState or SAMLRequest
    "noAssertion", \* the IdP's reply lacks the RelayState or SAMLResponse field
    "spReject",    \* the SP rejects the assertion posted to it
    "acceptBad" }  \* the server accepts a mistyped password

ASSUME ServerAssumption ==
  /\ ValidCreds \subseteq Creds
  /\ Faults \subseteq FaultKinds
  /\ NoCred \notin Creds

VARIABLES tgt, st

serverVars == <<tgt, st>>

(* The hidden fields the login form carries.                               *)
LoginFields == {"execution", "_eventId"}

(* The replies to the credentials POST (redirects are not followed):      *)
(* whether it is a redirect, whether the Location carries a ticket, and   *)
(* whether it sets the TGC cookie.                                         *)
PostReplies == [redirect : BOOLEAN, ticket : BOOLEAN, tgc : BOOLEAN]

(* The replies to serviceValidate: HTTP status and whether the body holds *)
(* <cas:authenticationSuccess>.                                            *)
ValidateReplies == [status : {200, 500}, success : BOOLEAN]

ServerInit ==
  /\ tgt = [u \in Users |-> FALSE]
  /\ st  = [u \in Users |-> FALSE]

(* GET /cas/login?service=S, following redirects, from user u whose       *)
(* session holds the TGC cookie iff cookie.  With a live SSO session the  *)
(* server issues a service ticket and redirects to S, whose page has no   *)
(* login form; otherwise it renders the login form.  The cookie kept is  *)
(* KeptTgc.                                                                *)
GetLoginPage(u, cookie, fields) ==
  \/ /\ cookie /\ tgt[u]
     /\ fields = {}
     /\ st' = [st EXCEPT ![u] = TRUE]
     /\ UNCHANGED tgt
  \/ /\ ~(cookie /\ tgt[u])
     /\ \/ fields = LoginFields
        \/ "noForm" \in Faults
     /\ UNCHANGED serverVars

(* Mutant: a login page that leaves a stale TGC in the session.         *)
KeptTgcKeepsStale(u, cookie) == cookie

(* Whether user u's session still holds the TGC cookie after a GET of    *)
(* /cas/login that sent it iff cookie: a TGC whose TGT is gone is removed *)
(* by the reply (the login webflow's ticketGrantingTicketCheck ends the   *)
(* session and answers Set-Cookie TGC with Max-Age=0, which the requests  *)
(* session honours, redirects followed or not).                           *)
KeptTgc(u, cookie) == cookie /\ tgt[u]

(* POST /cas/login?service=S with credential c.  Accepted credentials    *)
(* create a TGT, set the TGC cookie and redirect to S with a fresh        *)
(* service ticket; rejected ones are answered 401 with the form again.    *)
PostCredentials(u, c, r) ==
  \/ /\ c \in ValidCreds
     /\ r = [redirect |-> TRUE, ticket |-> TRUE, tgc |-> TRUE]
     /\ tgt' = [tgt EXCEPT ![u] = TRUE]
     /\ st'  = [st EXCEPT ![u] = TRUE]
  \/ /\ c \notin ValidCreds
     /\ r = [redirect |-> FALSE, ticket |-> FALSE, tgc |-> FALSE]
     /\ UNCHANGED serverVars
  \/ /\ "noTicket" \in Faults /\ c \in ValidCreds
     /\ r = [redirect |-> TRUE, ticket |-> FALSE, tgc |-> TRUE]
     /\ tgt' = [tgt EXCEPT ![u] = TRUE]
     /\ UNCHANGED st
  \/ /\ "noRedirect" \in Faults
     /\ r = [redirect |-> FALSE, ticket |-> FALSE, tgc |-> FALSE]
     /\ UNCHANGED serverVars

(* GET /cas/login with no service, from user u whose session holds the    *)
(* TGC cookie iff cookie: with a live SSO session the server shows its     *)
(* "logged in" page, which has no form; otherwise the login form.  The    *)
(* server state is read, not changed; the cookie kept is KeptTgc.         *)
LoginPageNoService(u, cookie, fields) ==
  \/ cookie /\ tgt[u] /\ fields = {}
  \/ /\ ~(cookie /\ tgt[u])
     /\ \/ fields = LoginFields
        \/ "noForm" \in Faults

(* POST /cas/login with no service and credential c: accepted credentials *)
(* create a TGT and set the TGC cookie (tgc); rejected ones, and server   *)
(* errors, set no cookie.                                                  *)
PostNoService(u, c, tgc) ==
  \/ /\ c \in ValidCreds /\ tgc
     /\ tgt' = [tgt EXCEPT ![u] = TRUE]
     /\ UNCHANGED st
  \/ /\ c \notin ValidCreds \/ "noRedirect" \in Faults
     /\ ~tgc
     /\ UNCHANGED serverVars

(* POST /cas/login with a password missing its last character: answered  *)
(* 401 with no cookie, unless the server wrongly accepts it.             *)
PostBadPassword(u, tgc) ==
  \/ ~tgc /\ UNCHANGED serverVars
  \/ /\ "acceptBad" \in Faults /\ tgc
     /\ tgt' = [tgt EXCEPT ![u] = TRUE]
     /\ UNCHANGED st

(* GET /cas/serviceValidate with the ticket of user u's last redirect.    *)
(* Service tickets are single use: a validation consumes the ticket.     *)
ValidateTicket(u, r) ==
  \/ /\ r.status = 200
     /\ \/ r.success = st[u]
        \/ "badBody" \in Faults /\ ~r.success
     /\ st' = [st EXCEPT ![u] = FALSE]
     /\ UNCHANGED tgt
  \/ /\ "badStatus" \in Faults
     /\ r = [status |-> 500, success |-> FALSE]
     /\ UNCHANGED serverVars

(* GET /cas/logout: destroys the TGT named by the cookie sent, if any.   *)
ServerLogout(u, cookie) ==
  /\ tgt' = [tgt EXCEPT ![u] = @ /\ ~cookie]
  /\ UNCHANGED st

(* The TGT times out; its service tickets expire with it.                 *)
ExpireTgt(u) ==
  /\ "expireTgt" \in Faults
  /\ tgt[u]
  /\ tgt' = [tgt EXCEPT ![u] = FALSE]
  /\ st'  = [st EXCEPT ![u] = FALSE]

(* A service ticket times out before it is validated.                     *)
ExpireSt(u) ==
  /\ "expireSt" \in Faults
  /\ st[u]
  /\ st' = [st EXCEPT ![u] = FALSE]
  /\ UNCHANGED tgt

=============================================================================
