----------------------------- MODULE TgtLifetime -----------------------------
(***************************************************************************)
(* The TGT-lifetime load test of src/etc/loadtests/locust/cas5/            *)
(* old_locustfile.py.  Each user is a CASTaskSet with one task,            *)
(* authenticate_to_service, run over and over.  The user keeps a belief,  *)
(* is_authenticated (auth), that it holds an SSO session, and a local     *)
(* expiration time: a base lifetime drawn once in initialize(), stretched *)
(* by a random factor on every reset().                                    *)
(*   on_start: initialize(), reset();                                      *)
(*   reset():  is_authenticated := False, login(), set the expiration;     *)
(*   login():  GET /cas/login, scrape execution and _eventId, pick a       *)
(*             credential row; 1% of the time POST a mistyped password    *)
(*             (simulate_badpasswd), else POST the credentials and set    *)
(*             is_authenticated iff a TGC cookie is then in the jar;       *)
(*   task:     not authenticated -> reset(); expired -> expire(), reset(); *)
(*             else GET /cas/login?service=... without following the      *)
(*             redirect, take the ticket from the Location and GET        *)
(*             /cas/serviceValidate (whose answer is not read);           *)
(*   expire(): is_authenticated := False, then GET /cas/logout (25%) or   *)
(*             clear the cookie jar ("closing the browser").              *)
(* Time is a per-user countdown, left, of ticks to the expiration; a tick *)
(* stands for the 5 to 15 s wait between tasks or more.                   *)
(***************************************************************************)
EXTENDS CasServer, Naturals

CONSTANT LifetimeBins   \* the base lifetimes of initialize(), in ticks

ASSUME LifetimeAssumption ==
  /\ LifetimeBins \subseteq Nat \ {0}
  /\ LifetimeBins # {}
  /\ Creds # {}

VARIABLES
  pc,     \* "start" before on_start, "reset" inside reset(), "task"
          \* between tasks, "validate" before the serviceValidate GET
  auth,   \* self.is_authenticated
  jar,    \* the HTTP session holds a TGC cookie
  base,   \* self.base_lifetime (0 before initialize())
  left    \* ticks until self.expiration; 0 once it has passed

userVars == <<pc, auth, jar, base, left>>
vars == <<pc, auth, jar, base, left, tgt, st>>

Labels == {"start", "reset", "task", "validate"}

(* int(base_lifetime * random.uniform(0.85, 1.15)), to one tick.          *)
Wiggle(b) == {n \in (b - 1)..(b + 1) : n > 0}

TypeOK ==
  /\ pc \in [Users -> Labels]
  /\ auth \in [Users -> BOOLEAN]
  /\ jar \in [Users -> BOOLEAN]
  /\ base \in [Users -> Nat]
  /\ left \in [Users -> Nat]
  /\ tgt \in [Users -> BOOLEAN]
  /\ st \in [Users -> BOOLEAN]

Init ==
  /\ ServerInit
  /\ pc = [u \in Users |-> "start"]
  /\ auth = [u \in Users |-> FALSE]
  /\ jar = [u \in Users |-> FALSE]
  /\ base = [u \in Users |-> 0]
  /\ left = [u \in Users |-> 0]

Goto(u, l) == pc' = [pc EXCEPT ![u] = l]

(* on_start: initialize() draws the base lifetime; reset() follows.       *)
OnStart(u) ==
  /\ pc[u] = "start"
  /\ \E b \in LifetimeBins : base' = [base EXCEPT ![u] = b]
  /\ Goto(u, "reset")
  /\ UNCHANGED <<auth, jar, left, tgt, st>>

(* reset(): is_authenticated := False, login(), then a new expiration.   *)
(* login() returns early when the page lacks execution or _eventId (the   *)
(* "logged in" page of a live SSO session has neither); a mistyped        *)
(* password leaves is_authenticated False; otherwise it becomes whether   *)
(* 'TGC' is among the cookies after the POST: the one the GET left        *)
(* (kept) or the one the POST set.                                         *)
ResetLogin(u) ==
  /\ pc[u] = "reset"
  /\ \E fields \in SUBSET LoginFields :
       LET kept == KeptTgc(u, jar[u]) IN
       /\ LoginPageNoService(u, jar[u], fields)
       /\ \/ /\ ~(LoginFields \subseteq fields)
             /\ auth' = [auth EXCEPT ![u] = FALSE]
             /\ jar' = [jar EXCEPT ![u] = kept]
             /\ UNCHANGED <<tgt, st>>
          \/ /\ LoginFields \subseteq fields
             /\ \E tgc \in BOOLEAN :
                  /\ PostBadPassword(u, tgc)
                  /\ jar' = [jar EXCEPT ![u] = kept \/ tgc]
                  /\ auth' = [auth EXCEPT ![u] = FALSE]
          \/ /\ LoginFields \subseteq fields
             /\ \E c \in Creds, tgc \in BOOLEAN :
                  /\ PostNoService(u, c, tgc)
                  /\ jar' = [jar EXCEPT ![u] = kept \/ tgc]
                  /\ auth' = [auth EXCEPT ![u] = jar'[u]]
  /\ \E n \in Wiggle(base[u]) : left' = [left EXCEPT ![u] = n]
  /\ Goto(u, "task")
  /\ UNCHANGED base

(* expire(): is_authenticated := False, then GET /cas/logout, whose reply *)
(* deletes the TGC cookie, or client.cookies.clear().                     *)
Expire(u) ==
  /\ auth' = [auth EXCEPT ![u] = FALSE]
  /\ jar' = [jar EXCEPT ![u] = FALSE]
  /\ \/ ServerLogout(u, jar[u])
     \/ UNCHANGED serverVars

(* GET /cas/login?service=... with allow_redirects=False.  A 302 carries  *)
(* the ticket in its Location, unless the server left it out, when        *)
(* qs['ticket'] raises KeyError and the task ends; any other status is a  *)
(* failure and the task returns.  A TGC whose TGT is gone is dropped      *)
(* (KeptTgc).                                                              *)
ObtainTicket(u) ==
  /\ \E fields \in SUBSET LoginFields :
       /\ GetLoginPage(u, jar[u], fields)
       /\ \/ fields = {} /\ Goto(u, "validate")
          \/ fields = {} /\ "noTicket" \in Faults /\ UNCHANGED pc
          \/ fields # {} /\ UNCHANGED pc
  /\ jar' = [jar EXCEPT ![u] = KeptTgc(u, @)]
  /\ UNCHANGED auth

(* Mutant: the expiration is checked only once a ticket was obtained.     *)
AuthenticateToServiceLateExpiry(u) ==
  /\ pc[u] = "task"
  /\ \/ ~auth[u] /\ Goto(u, "reset") /\ UNCHANGED <<auth, jar, tgt, st>>
     \/ /\ auth[u] /\ left[u] = 0 /\ jar[u] /\ tgt[u]
        /\ Expire(u) /\ Goto(u, "reset")
     \/ auth[u] /\ left[u] > 0 /\ ObtainTicket(u)
     \/ auth[u] /\ left[u] = 0 /\ ~(jar[u] /\ tgt[u]) /\ ObtainTicket(u)
  /\ UNCHANGED <<base, left>>

(* @task authenticate_to_service: recycle an unauthenticated user, expire *)
(* and reset an expired one, else obtain a service ticket.                *)
AuthenticateToService(u) ==
  /\ pc[u] = "task"
  /\ \/ ~auth[u] /\ Goto(u, "reset") /\ UNCHANGED <<auth, jar, tgt, st>>
     \/ auth[u] /\ left[u] = 0 /\ Expire(u) /\ Goto(u, "reset")
     \/ auth[u] /\ left[u] > 0 /\ ObtainTicket(u)
  /\ UNCHANGED <<base, left>>

(* GET /cas/serviceValidate with the ticket; the reply is not examined.   *)
ValidateSt(u) ==
  /\ pc[u] = "validate"
  /\ \E r \in ValidateReplies : ValidateTicket(u, r)
  /\ Goto(u, "task")
  /\ UNCHANGED <<auth, jar, base, left>>

(* Wall-clock time passes between tasks, toward the user's expiration.    *)
Tick(u) ==
  /\ pc[u] # "start"
  /\ left[u] > 0
  /\ left' = [left EXCEPT ![u] = @ - 1]
  /\ UNCHANGED <<pc, auth, jar, base, tgt, st>>

UserStep(u) ==
  OnStart(u) \/ ResetLogin(u) \/ AuthenticateToService(u) \/ ValidateSt(u)

ServerStep(u) == (ExpireTgt(u) \/ ExpireSt(u)) /\ UNCHANGED userVars

Next == \E u \in Users : UserStep(u) \/ Tick(u) \/ ServerStep(u)

Spec == Init /\ [][Next]_vars

(* Locust keeps running each user's task, every request returns (spec 5),  *)
(* and the wall clock never stops.                                         *)
FairSpec == Spec /\ \A u \in Users : WF_vars(UserStep(u)) /\ WF_vars(Tick(u))

-----------------------------------------------------------------------------
(* is_authenticated becomes True only in a step after which the server    *)
(* holds a TGT for the user: the docstring of login() ("Sets               *)
(* self.is_authenticated if TGT is obtained"), which the code checks only *)
(* through the presence of a TGC cookie in the jar.                        *)
AuthMeansTgtIssued ==
  [][\A u \in Users : ~auth[u] /\ auth'[u] => tgt'[u]]_vars

(* A stale belief ends: a user that believes it is authenticated while the *)
(* server has dropped its TGT (every service-ticket request then fails)   *)
(* stops believing it, at the latest when its local expiration passes.    *)
StaleBeliefCorrected ==
  \A u \in Users : (auth[u] /\ ~tgt[u]) ~> ~(auth[u] /\ ~tgt[u])

=============================================================================
