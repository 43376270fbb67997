---------------------------- MODULE MCBothLocust ----------------------------
(* Model-checking instances of BothLocust.                                 *)
EXTENDS BothLocust, TLC

CONSTANTS u1, u2, u3, c1, c2

MCUsers == {u1, u2}
MCUsers3 == {u1, u2, u3}
MCCreds == {c1, c2}

(* Only c1 is accepted: one row of credentials.csv has a stale password.  *)
MCSomeValid == {c1}

(* The faults whose failed check comes before the credentials POST        *)
(* creates a TGT, or that the script answers with its logout task, and    *)
(* TGT expiry.                                                             *)
MCEarlyFaults == {"noForm", "noRelay", "noRedirect", "spReject", "expireTgt"}

(* A service ticket that times out between the POST that created the TGT *)
(* and serviceValidate, as under load.                                   *)
MCLateFault == {"expireSt"}

MCNoFaults == {}

UserSymmetry == Permutations(MCUsers)

=============================================================================
