--------------------------- MODULE MCCasSequence ---------------------------
(* Model-checking instances of CasSequence: two users, two credential      *)
(* rows of which one or both are accepted, and the server faults of each  *)
(* run.                                                                      *)
EXTENDS CasSequence, TLC

CONSTANTS u1, u2, u3, c1, c2

MCUsers == {u1, u2}

(* Three users for the liveness run, which cannot use symmetry. *)
MCUsers3 == {u1, u2, u3}
MCCreds == {c1, c2}

(* Only c1 is accepted: one row of credentials.csv has a stale password.  *)
MCSomeValid == {c1}

(* Every fault the server can show.                                       *)
MCAllFaults == FaultKinds

(* The faults the scripts answer with StopLocust, as the spec requires.  *)
MCStopFaults == {"noForm", "noTicket", "badBody", "expireTgt", "expireSt"}

MCNoFaults == {}

MCStatusFault == {"badStatus"}

UserSymmetry == Permutations(MCUsers)

=============================================================================
