\* A correct server without single logout to the SP: CAS logins keep succeeding.
CONSTANTS
  u1 = u1
  u2 = u2
  u3 = u3
  c1 = c1
  c2 = c2
  NoCred = NoCred
  SloToSp = FALSE
  Users <- MCUsers3
  Creds <- MCCreds
  ValidCreds <- MCCreds
  Faults <- MCNoFaults
SPECIFICATION FairSpec
PROPERTY CasKeepsSucceeding
