\* A correct server and accepted credentials: every user keeps logging in.
CONSTANTS
  u1 = u1
  u2 = u2
  u3 = u3
  c1 = c1
  c2 = c2
  NoCred = NoCred
  Users <- MCUsers3
  Creds <- MCCreds
  ValidCreds <- MCCreds
  Faults <- MCNoFaults
SPECIFICATION FairSpec
PROPERTY KeepsLoggingIn
