# Verification project: the CAS/SAML Locust load tests

This directory holds TLA+ models of the load-test scripts under
`src/etc/loadtests/locust/`: the TLC runs that check them and the TLAPS proofs
about them. The scripts drive CAS and SAML logins against a CAS server. Each
simulated user is a Locust greenlet. It makes HTTP requests on its own
`requests` session, scrapes hidden fields from the replies and feeds them to
the next request.

## 1. Inventory

### Components

| Component | Source | State it keeps | Operations |
|---|---|---|---|
| CAS TaskSequence user | `cas5/casLocust.py` | HTTP session cookies (TGC), the chosen credential row, the sequence index | `login` (GET form, POST credentials, GET serviceValidate) and `logout`, run in turn |
| CAS HttpUser | `cas/casLocust.py` | as above, with no sequence index | `login` (weight 1) and `logout` (weight 2), chosen at random after every task |
| SAML TaskSequence user | `cas/samlLocust.py` | cookies of CAS (TGC) and of the Shibboleth SP session | `login` (GET the SP page through the redirects, POST credentials, POST the assertion to the SP) and `logout` |
| Combined user | `cas/allLocust.py` | as the two above | a parent TaskSet picks a nested CAS (weight 3) or SAML (weight 1) TaskSequence. Each nested sequence leaves through `self.interrupt()` |
| TGT-lifetime user | `cas5/old_locustfile.py` | `is_authenticated`, `base_lifetime`, `expiration`, cookies | `reset` / `login` (with 1% simulated bad passwords), `authenticate_to_service` (obtain a ticket and validate it), `expire` (logout or clear cookies) |
| Credential loading | `load_creds` in every script | the list of rows of `credentials.csv` | read once when the class is defined |
| CAS server, SAML IdP, SP | not under `src/` | TGTs, service tickets, SP sessions | login form or SSO redirect, credential check, ticket validation, logout (single logout to the SP when configured) |
| `p.py` | `src/p.py` | none | prints the host's IP address |

### Interactions

Users share nothing but the read-only credential list and the server. Each user's
state on the server (its TGT, its service tickets, its SP session) is named by
cookies in that user's own HTTP session, so users do not affect one
another's control flow. What makes the scripts hard is how each user
interacts with the server over time:

* **Sessions outlive a round.** A TaskSequence loops login → logout forever on
  one HTTP session. Whatever a round leaves in the cookie jar (a TGC, an SP
  session cookie) changes what the next round's first GET returns. With a live
  SSO session, CAS redirects to the service instead of showing the form. With
  a live SP session, the SP shows its page instead of redirecting to CAS.
* **Error paths differ by exception type.** Locust handles each way a task can
  end differently:
  * `StopLocust` stops the user.
  * `InterruptTaskSet` from a User task also stops the user.
  * `self.interrupt()` in a nested TaskSet returns to the parent.
  * Any other exception (`AssertionError` from `assert`, `AttributeError` from
    `None.url`, `IndexError` from `random.choice([])`) is logged, and the
    sequence moves on to its next task, which is `logout`.
* **Timeouts.** Service tickets and TGTs expire on the server. Under load the
  gap between the POST and serviceValidate can outlast a ticket.
* **Random task choice.** With `@task` weights in place of `@seq_task`, login and
  logout are not paired.

### Properties that make each component correct

* TaskSequence users (CAS, SAML) must start every login outside every session
  (`NoSsoAtLoginStart`, `NoSessionAtLoginStart`). Against a correct server they
  must keep completing logins (`KeepsLoggingIn`). They must implement the
  spec's session flow of §4.1 and §7, where an abort is final (`LoginFlowRefined`).
* HttpUser: against a correct server no login is interrupted
  (`HonestServerNeverAborts`). This fails, see findings.
* SAML: against a correct IdP and SP no user is stopped (`HonestSamlNeverStops`).
  This fails without single logout to the SP, see findings.
* Combined test: each nested login starts outside every session, although
  `self.interrupt()` skips the logout task (`NoSessionAtNestedLogin`). A SAML
  sequence that is broken for good must not starve the CAS sequence that
  shares its HTTP session (`CasKeepsSucceeding`).
* TGT lifetime: `is_authenticated` is set only by a login that obtained a TGT
  (`AuthMeansTgtIssued`). A belief in a TGT the server dropped ends, at the
  latest at the local expiration (`StaleBeliefCorrected`).

## 2. Modules

| Module | Models | State ↔ code |
|---|---|---|
| `CasServer` | the CAS server as the scripts see it (spec_modelled) | `tgt[u]` is the TGT behind user u's TGC. `st[u]` is a live service ticket. `Faults` lists the misbehaviours allowed in a run, TGT and service-ticket timeouts (`expireTgt`, `expireSt`) among them. Each endpoint is an operator that the script modules' actions call: `GetLoginPage`, `PostCredentials`, `ValidateTicket`, `ServerLogout`, and, without a service, `LoginPageNoService`, `PostNoService`, `PostBadPassword`. `KeptTgc` is the cookie a session keeps after any GET of `/cas/login`: CAS's login webflow (ticketGrantingTicketCheck, terminateSession) removes a TGC whose TGT is gone with a `Max-Age=0` Set-Cookie, so the calling actions set `jar'[u]` to `jar[u] /\ tgt[u]`. Timeouts are the actions `ExpireTgt`, `ExpireSt` |
| `SamlServer` | the Shibboleth SP and the CAS SAML IdP (spec_modelled) | `GetSpProtected` (the SP page or the redirect chain to the CAS login page), `PostSamlCredentials` (the IdP's auto-post form), `SpAcceptsAssertion`. `SpKeptTgc`: the chain reaches the IdP's `/cas/login`, which drops a stale TGC, only without a live SP session |
| `LoginFlow` | the abstract session flow of spec §4.1 | `flow[u]` ∈ Start, TokensExtracted, TicketObtained, Validated, LoggedOut, Aborted. Aborted is terminal |
| `CasSequence` | `cas5/casLocust.py` | `pc[u]` is the next request (`login`, `post`, `validate`, `logout`) or `stopped`. `jar[u]` is the TGC cookie and `cred[u]` the chosen row. `reported[u]` records that the last login printed its success line. The actions are `LoginGet`, `LoginPost`, `ServiceValidate` and `Logout`, one per request, each including the scraping and checks that follow it. `AbsFlow` maps a state to `LoginFlow` |
| `CasUser` | `cas/casLocust.py` | the same requests, with `pc[u] = "idle"` between tasks, where either task may run |
| `SamlSequence` | `cas/samlLocust.py` | adds `spSess[u]` (the SP session cookie is live) and the constant `SloToSp` (logout reaches the SP). The actions are `SpGet`, `SamlLoginPost`, `SpAcsPost` and `SamlLogout`. Its `AbsFlow` maps a state to `LoginFlow`: the IdP's auto-post form is the ticket, and the SP's acceptance is the validation |
| `BothLocust` | `cas/allLocust.py` | `pc[u]` is `parent` (BasicTaskSet choosing) or the next request of the running nested sequence (`cas*` or `saml*`). `PickCas` and `PickSaml` start a fresh nested sequence. The request actions mirror the two scripts above, but every failed check is `Interrupt` (back to the parent, no logout). `jar` and `spSess` are shared by both sequences |
| `TgtLifetime` | `cas5/old_locustfile.py` | `auth[u]` is `is_authenticated`, `base[u]` the base lifetime, `left[u]` the ticks to the expiration. `pc[u]` is `start`, `reset` (inside `reset()`), `task` or `validate`. The actions are `OnStart`, `ResetLogin` (reset and login, mistyped password included), `AuthenticateToService` (recycle, expire or `ObtainTicket`), `ValidateSt`, and `Tick` for the wall clock |
| `CasServerProofs` | lemmas about the server operators | each operator of `CasServer` and `SamlServer` keeps `tgt` and `st` typed and changes them only at the requesting user |
| `*Proofs`, `CasSequenceRefinement` | TLAPS proofs about `CasSequence`, `CasUser`, `SamlSequence`, `BothLocust`, `TgtLifetime` | |
| `MC*` | the model values and constant sets of the runs | |

Data is abstracted to what decides control flow. A page is the set of
hidden fields or query parameters the script searches for. A POST reply is a
record (redirect? ticket in the Location? TGC set?). A serviceValidate reply is
(status, success marker). Credentials are model values, and `ValidCreds` is the
subset the server accepts. Printing, URLs and request names are left out.
Time, in `TgtLifetime` only, is a countdown of ticks per user: a tick stands
for at least one wait between tasks, the lifetime bins are one and two ticks,
and `random.uniform(0.85, 1.15)` is one tick either way (`Wiggle`).

## 3. Runs

| Run | Config | Expect | Checks |
|---|---|---|---|
| `cas_seq_faults` | `CasSeqFaults.cfg` | pass | `NoSsoAtLoginStart` under every fault, with one rejected credential row |
| `cas_seq_honest_live` | `CasSeqHonest.cfg` | pass | `KeepsLoggingIn` under weak fairness per user, against a correct server, with 3 users |
| `cas_seq_refines` | `CasSeqRefines.cfg` | pass | `LoginFlowRefined`: cas5 implements `LoginFlow` when the faults are those it answers with StopLocust |
| `cas_seq_status_continues` | `CasSeqStatus.cfg` | violation | `LoginFlowRefined` with serviceValidate answering 500 |
| `cas_user_relogin` | `CasUserHonest.cfg` | violation | `HonestServerNeverAborts` for the HttpUser script |
| `saml_faults` | `SamlFaults.cfg` | pass | `NoSessionAtLoginStart` with single logout to the SP and every fault |
| `saml_no_slo` | `SamlNoSlo.cfg` | violation | `HonestSamlNeverStops` without single logout to the SP |
| `both_early_faults` | `BothEarly.cfg` | pass | `NoSessionAtNestedLogin` under missing forms and parameters, server errors, SP rejections and TGT timeouts |
| `both_honest_no_slo` | `BothHonestNoSlo.cfg` | pass | `CasKeepsSucceeding` with a correct server, no single logout to the SP, 3 users |
| `both_st_timeout` | `BothLate.cfg` | violation | `NoSessionAtNestedLogin` when service tickets may time out |
| `tgt_live` | `TgtLive.cfg` | pass | `AuthMeansTgtIssued` and `StaleBeliefCorrected` under server errors, a missing ticket, TGT and ticket timeouts and an accepted mistyped password, with fair users and clock |

**Bounds.** Two users, three for the liveness runs of CasSequence and
BothLocust. Two credential rows, one of them rejected in the fault runs.
Every state variable is Boolean or a label, except the lifetime countdown of
`TgtLifetime`, which is bounded by the largest bin plus one. So each run
explores its whole state space. Two users are enough because users share no
state. The second user shows that actions of one user leave the other's state
alone. A user's round has at most four requests, and each run covers every
reply the server may give to each of them. In `TgtLifetime`, two bins of one
and two ticks let a TGT timeout fall before, at, or after the local
expiration. The symmetry of users is used only in the safety runs.

**Deadlock.** Where a user can raise StopLocust or InterruptTaskSet from a
User task, every user can end up stopped. The real test then idles, so those
cfgs say `CHECK_DEADLOCK FALSE`. The other runs check deadlock. In
`BothLocust` and `TgtLifetime` no path stops a user.

**Fairness.** `FairSpec` puts weak fairness on each user's steps. Locust runs
every user greenlet and `wait_time` is bounded (2 to 15 s), so a user that can
make a request eventually makes it. A request that hangs forever (spec §5) is
outside the model. No fairness is assumed of the server's timeouts. In
`BothLocust` the parent picks the CAS sequence with weight 3 and the SAML
sequence with weight 1, so with probability 1 each is picked infinitely
often. Each pick is enabled only while the user is at the parent, so each
pick gets strong fairness. In `TgtLifetime` the clock's `Tick` is weakly fair:
wall-clock time does not stop.

**Mutants.** Each property of a passing run is shown to catch a plausible bug in
the code it is about:

| Property | Mutated definition | Bug the mutant introduces |
|---|---|---|
| `NoSsoAtLoginStart` | `ServiceValidate` | a non-200 status (AssertionError) returns to the login task instead of going on to logout |
| `KeepsLoggingIn` | `LoginPost` | the POST follows redirects (`allow_redirects=True`), so `.next` is always None |
| `LoginFlowRefined` | `ServiceValidate` | a body without `<cas:authenticationSuccess>` does not raise StopLocust |
| `NoSessionAtLoginStart` | `SpAcsPost` | a rejected assertion returns to the login task |
| `NoSessionAtNestedLogin` | `SamlAcs` | a rejected assertion calls `self.interrupt()` (as spec §7 would have it) instead of failing the assert |
| `CasKeepsSucceeding` | `SamlLogout` | the SAML logout request never reaches CAS (a wrong host, see spec §9) |
| `AuthMeansTgtIssued` | `Expire` | "closing the browser" keeps the cookies |
| `StaleBeliefCorrected` | `AuthenticateToService` | the expiration is checked only after a ticket was obtained |

## 4. Findings

1. **`cas/casLocust.py` aborts against a correct server.** login and logout
   are independent weighted tasks. A login after a successful login runs
   inside the SSO session: CAS redirects the GET to the service, the page has
   no `execution` field, and `InterruptTaskSet` is raised. Trace: login,
   validate, login → stopped.
2. **Errors are not all aborts (`cas5/casLocust.py:99`, `:82`).** A non-200
   serviceValidate fails an `assert`. A non-redirect POST reply raises
   AttributeError. Locust logs both and the sequence goes on to logout and the
   next login, whereas spec §7 treats every error as an abort.
3. **The SAML sequence stops in its second round without single logout
   (`cas/samlLocust.py:56`).** The SP session cookie survives `/cas/logout`,
   so the SP serves its page without a redirect and no RelayState is found.
4. **In `cas/allLocust.py` one ticket timeout locks a user out
   (`allLocust.py:125`).** The service ticket expires between the POST and
   serviceValidate. The validation fails, and `self.interrupt()` returns to
   the parent with the TGC of a live TGT still in the shared HTTP session. Every
   later nested login, CAS or SAML, is redirected through the SSO session,
   finds no form and is interrupted again without logout, until the server
   drops the TGT. Trace: PickCas, GET, POST, ticket timeout, validate →
   parent, PickCas with the TGT live.

`login()` in `old_locustfile.py` reads `is_authenticated` off the cookie jar
(`:88`). That is sound because CAS removes a stale TGC on the GET of
`/cas/login` that precedes the POST (`KeptTgc`): a cookie after the POST is
the POST's own. The mutant `KeptTgcKeepsStale`, a login page that leaves the
stale cookie in place, lets a rejected login after an accepted mistyped
password and a TGT timeout pass for a success, and `tgt_live` catches it.
The cost of an accepted mistyped password is a lockout instead
(`old_locustfile.py:66`): every `reset()` meets the "logged in" page of the
live SSO session and returns without authenticating, until the server drops
the TGT.

## 5. Proofs

Seven modules hold the proofs, and `tlapm` checks every step. Each
invariant is proved in the same way:
* find an inductive strengthening;
* prove that `Init` implies it;
* prove that every step keeps it, with one step per action;
* conclude with PTL.

A refinement also shows that every step maps to a step of the abstract
specification, or to a stutter.

**Server lemmas (`CasServerProofs`).** Each server operator (`GetLoginPage`,
`PostCredentials`, `ValidateTicket`, `ServerLogout`, the timeouts, the
no-service and mistyped-password POSTs, `GetSpProtected`,
`PostSamlCredentials`) keeps `tgt` and `st` typed. It changes them only at the
user whose request it answers (`ServerStepAt(u)`). Every type proof below
cites these lemmas instead of unfolding the server. `FormShownNoCookie` says that the
no-service login page shows its form only to a session that keeps no TGC.

**Type correctness, for all constants and every fault.** `TypeCorrect`
(cas5), `CasUserTypeCorrect`, `SamlTypeCorrect`, `BothTypeCorrect` and
`TgtTypeCorrect`. Each rests on a `StepTypeOK` lemma without hypotheses.

**Safety invariants and action properties.**
* `NoSsoAtLoginStartHolds` (`CasSequenceProofs`), for every fault.
  `NoSsoAtLoginStart` is not inductive, because a user at the login step
  could hold a cookie whose TGT has expired. The strengthening
  `LoginHoldsNoCookie` says that a user at the login step holds no TGC
  cookie at all:
  * the only action that sets the cookie (`LoginPost`) leaves the login step;
  * the only action that enters it (`Logout`) clears the cookie.
* `NoSessionAtLoginStartHolds` (`SamlSequenceProofs`), under `SloToSp`.
  `LoginHoldsNoCookies` adds that a user at the login step has no SP session
  cookie either.
* `NestedLoginHoldsNoSession` (`BothLocustProofs`), for fault sets within
  `EarlyFaults`, under `SloToSp`. `self.interrupt()` skips the logout, so the
  invariant must say where a live SSO session can exist:
  * `NoSsoBeforePost`: none at the parent or before either sequence's POST;
  * `NoSpBeforeLogout`: no SP session outside the SAML logout task;
  * `TicketWithTgt`: at the CAS validation step, a live TGT comes with a live
    service ticket.

  The last conjunct is what `expireSt` breaks (finding 4).
* `AuthMeansTgtIssuedHolds` (`TgtLifetimeProofs`, an action property), for
  every fault set, accepted mistyped passwords included, with no invariant
  beyond the type. The lemma `FormShownNoCookie` (`CasServerProofs`) says that
  the login form is shown only to a session that keeps no TGC: a live SSO
  session gets the "logged in" page, on which `login()` returns, and a stale
  TGC is removed by the same reply. So the cookie that `login()` finds after
  its POST is the one that POST set, with the TGT it created.
* `StopLeavesSso` (cas5) and `InterruptLeavesSso` (cas/casLocust.py). Unless
  the server leaves out the form or times tickets out, every user stopped by
  StopLocust or InterruptTaskSet holds the cookie of a live TGT that no
  logout task ends. This is the partial-failure hazard at
  `cas5/casLocust.py:106`. The invariant needs one more conjunct: a user about
  to validate already holds the cookie, a live TGT and a live ticket
  (`ValidateInsideSso`). A rejected live ticket (`badBody`) then stops the
  user inside its SSO session, and a correct server cannot reject the ticket.

**Refinement of `LoginFlow` (spec §4.1, §7).**
* `LoginFlowRefinedHolds` (`CasSequenceRefinement`) is the property of run
  `cas_seq_refines`, proved for all constants under `StopFaultsOnly`:
  * the credential file is not empty and the server accepts every row;
  * the server never answers the POST without a redirect;
  * it never answers serviceValidate with a status other than 200.

  These are exactly the failures after which the script goes on to its logout
  task (finding 2). The proof needs `FlowInv`:
  * at the logout task, the login reported success;
  * inside the login task, it has not yet;
  * the row about to be POSTed is accepted.

  Without `FlowInv`, `Logout` could take an aborted flow back to `Start`. The
  lemma `AbsFlowFrame` says that `AbsFlow` changes only at the user who
  moved.
* `SamlFlowRefinedHolds` (`SamlSequenceProofs`), under `SpAcceptsAll` (the
  credential file is not empty, and the SP accepts assertions). It holds with
  or without single logout to the SP. samlLocust.py answers a rejected
  credential row with StopLocust, so, unlike cas5, it needs no hypothesis on
  `ValidCreds`. `SamlFlowRefined` is proved, but no run checks it. TLC
  confirmed it on the two-user instance while the proof was developed, and it
  found the violation with `spReject`.

`AbsFlow` is written as nested IFs: the SMT backend does not translate CASE.
Each inductive invariant was checked with TLC on a small instance before it
was proved.

The constant assumptions used are:
* `ServerAssumption`: `NoCred` is not a credential row;
* `LifetimeAssumption`: the bins are positive;
* `SloAssumption` and `BothAssumption`: `SloToSp` is Boolean.

The hypotheses of the theorems (`SloToSp`, `EarlyOnly`,
`StopFaultsOnly`, `SpAcceptsAll`, `NoFormOrTimeoutFaults`) are what the
violation runs, or TLC on the excluded faults, show to be needed.

**Checked by TLC only.** The liveness properties `KeepsLoggingIn`,
`CasKeepsSucceeding` and `StaleBeliefCorrected` are out of the prover's
reach: they need fairness and ENABLED.

## 6. Not modelled, and why

* `p.py`: a DNS lookup and a print, with no state.
* `load_creds`: file input. Its result is the constant `Creds`. The empty file
  is kept as the IndexError branch of each login action. `TgtLifetime`
  assumes a non-empty file: there an IndexError inside `reset()` would escape
  `on_start`.
* Request names, printing, SSL-warning suppression and the assert message
  format (the assert message at `casLocust.py:119` has no `{}` placeholder, so
  it never shows the status) are left out.
* The RelayState conversion (`replace('&#x3a;', ':')`, `unquote`) is taken to
  succeed. How it fails depends on the IdP's HTML encoder, which is not in
  this repository.
* Hung requests (no timeout is configured) are outside the model: fairness
  assumes every request returns.
* The `status_code == 404` success marking in `old_locustfile.py` login only
  changes Locust's statistics.

## 7. Plan

Done: `CasServer`, `SamlServer`, `LoginFlow`, `CasSequence`, `CasUser`,
`SamlSequence`, `BothLocust` and `TgtLifetime`, with their runs. All their
safety invariants and action properties are proved, and so are both
refinements of `LoginFlow` and type correctness of every script model.

Next, in order:

1. A passing run for `CasUser`. Its only run is the violation of
   `HonestServerNeverAborts`, so its actions fire only along that trace.
2. A run for `SamlFlowRefined` and for `StoppedInsideSso`, which are proved
   but not checked by any run.
3. A liveness run of `TgtLifetime` for the lock-out after an accepted
   mistyped password, once the server's TGT lifetime is modelled as fair.
