\* Every server fault, one stale credential row: login never starts inside an SSO session.
CONSTANTS
  u1 = u1
  u2 = u2
  u3 = u3
  c1 = c1
  c2 = c2
  NoCred = NoCred
  Users <- MCUsers
  Creds <- MCCreds
  ValidCreds <- MCSomeValid
  Faults <- MCAllFaults
SYMMETRY UserSymmetry
INIT Init
NEXT Next
INVARIANT NoSsoAtLoginStart
\* Every user may stop (StopLocust), after which nothing is enabled.
CHECK_DEADLOCK FALSE
