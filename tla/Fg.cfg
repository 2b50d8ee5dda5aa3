\* Two tasks with their own ints; root writes the parameters at
\* any time.
SPECIFICATION FairSpec
CONSTANTS
  k1 = k1
  k2 = k2
  b1 = b1
  b2 = b2
  Tasks = {k1, k2}
  Probes = {"get_temp"}
  MaxActive = 2
  Buffers = {b1, b2}
  NoBuffer = NoBuffer
  Passes <- PrivateBuffers
  Readings <- MCTwoReadings
  IntModulus = 65536
  Ceilings <- MCCeilings
  SpoofValues = {TRUE, FALSE}
  SysfsWrites = TRUE
  VendorMayFail = FALSE
  ProbesMayGo = FALSE
  HitModulus = 2
INVARIANT TypeOK
 
INVARIANT RawIsUnmodified
INVARIANT NeverRaised
INVARIANT CeilingHolds
PROPERTY RawFollowsBattery
