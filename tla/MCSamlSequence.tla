--------------------------- MODULE MCSamlSequence ---------------------------
(* Model-checking instances of SamlSequence: two users, two credential    *)
(* rows, with and without single logout to the SP.                        *)
EXTENDS SamlSequence, TLC

CONSTANTS u1, u2, c1, c2

MCUsers == {u1, u2}
MCCreds == {c1, c2}

(* Only c1 is accepted: one row of credentials.csv has a stale password.  *)
MCSomeValid == {c1}

(* Every fault the IdP and the SP can show.                                *)
MCAllFaults == FaultKinds

MCNoFaults == {}

UserSymmetry == Permutations(MCUsers)

=============================================================================
