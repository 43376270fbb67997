\* Faults before the TGT exists, with single logout to the SP: each nested login starts outside every session.
CONSTANTS
  u1 = u1
  u2 = u2
  u3 = u3
  c1 = c1
  c2 = c2
  NoCred = NoCred
  SloToSp = TRUE
  Users <- MCUsers
  Creds <- MCCreds
  ValidCreds <- MCSomeValid
  Faults <- MCEarlyFaults
SYMMETRY UserSymmetry
INIT Init
NEXT Next
INVARIANT NoSessionAtNestedLogin
