---------------------------- MODULE MCTgtLifetime ----------------------------
(* Model-checking instances of TgtLifetime.                                *)
EXTENDS TgtLifetime, TLC

CONSTANTS u1, u2, c1, c2

MCUsers == {u1, u2}
MCCreds == {c1, c2}

(* Only c1 is accepted: one row of credentials.csv has a stale password.  *)
MCSomeValid == {c1}

(* The 60 s and 5 min bins of initialize(), scaled to one and two ticks.  *)
MCBins == {1, 2}

(* A server that times tickets out, fails now and then, and may accept    *)
(* the simulated mistyped password.                                        *)
MCServerFaults ==
  {"noForm", "noTicket", "noRedirect", "expireTgt", "expireSt", "acceptBad"}

UserSymmetry == Permutations(MCUsers)

=============================================================================
