\* a service ticket expires before serviceValidate, after the TGT was created: self.interrupt() skips the logout task.
CONSTANTS
  u1 = u1
  u2 = u2
  u3 = u3
  c1 = c1
  c2 = c2
  NoCred = NoCred
  SloToSp = TRUE
  Users <- MCUsers
  Creds <- MCCreds
  ValidCreds <- MCCreds
  Faults <- MCLateFault
SYMMETRY UserSymmetry
INIT Init
NEXT Next
INVARIANT NoSessionAtNestedLogin
