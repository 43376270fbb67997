----------------------------- MODULE MCCasUser -----------------------------
(* Model-checking instance of CasUser: two users, two accepted credential *)
(* rows, a correct server.                                                 *)
EXTENDS CasUser, TLC

CONSTANTS u1, u2, c1, c2

MCUsers == {u1, u2}
MCCreds == {c1, c2}
MCNoFaults == {}

UserSymmetry == Permutations(MCUsers)

=============================================================================
