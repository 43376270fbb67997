\* A correct IdP and SP without single logout: the second round is stopped.
CONSTANTS
  u1 = u1
  u2 = u2
  c1 = c1
  c2 = c2
  NoCred = NoCred
  SloToSp = FALSE
  Users <- MCUsers
  Creds <- MCCreds
  ValidCreds <- MCCreds
  Faults <- MCNoFaults
SYMMETRY UserSymmetry
INIT Init
NEXT Next
INVARIANT HonestSamlNeverStops
