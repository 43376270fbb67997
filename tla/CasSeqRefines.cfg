\* Faults the script answers with StopLocust: it implements LoginFlow.
CONSTANTS
  u1 = u1
  u2 = u2
  u3 = u3
  c1 = c1
  c2 = c2
  NoCred = NoCred
  Users <- MCUsers
  Creds <- MCCreds
  ValidCreds <- MCCreds
  Faults <- MCStopFaults
INIT Init
NEXT Next
PROPERTY LoginFlowRefined
CHECK_DEADLOCK FALSE
