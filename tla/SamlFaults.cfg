\* Single logout to the SP, every fault: each login task starts outside every session.
CONSTANTS
  u1 = u1
  u2 = u2
  c1 = c1
  c2 = c2
  NoCred = NoCred
  SloToSp = TRUE
  Users <- MCUsers
  Creds <- MCCreds
  ValidCreds <- MCSomeValid
  Faults <- MCAllFaults
SYMMETRY UserSymmetry
INIT Init
NEXT Next
INVARIANT NoSessionAtLoginStart
\* Every user may stop (StopLocust), after which nothing is enabled.
CHECK_DEADLOCK FALSE
