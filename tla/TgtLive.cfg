\* Server faults (a mistyped password accepted among them) and timeouts, fair scheduling and a running
\* clock: is_authenticated is set only when a TGT was issued, and a stale belief in the SSO session ends.
CONSTANTS
  u1 = u1
  u2 = u2
  c1 = c1
  c2 = c2
  NoCred = NoCred
  Users <- MCUsers
  Creds <- MCCreds
  ValidCreds <- MCSomeValid
  Faults <- MCServerFaults
  LifetimeBins <- MCBins
SPECIFICATION FairSpec
PROPERTY AuthMeansTgtIssued StaleBeliefCorrected
