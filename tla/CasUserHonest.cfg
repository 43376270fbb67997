\* A correct server: a second login inside the SSO session is interrupted.
CONSTANTS
  u1 = u1
  u2 = u2
  c1 = c1
  c2 = c2
  NoCred = NoCred
  Users <- MCUsers
  Creds <- MCCreds
  ValidCreds <- MCCreds
  Faults <- MCNoFaults
SYMMETRY UserSymmetry
INIT Init
NEXT Next
INVARIANT HonestServerNeverAborts
