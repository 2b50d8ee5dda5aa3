\* A battery below freezing.
SPECIFICATION Spec
CONSTANTS
  k1 = k1
  k2 = k2
  b1 = b1
  b2 = b2
  Tasks = {k1, k2}
  Probes = {"get_temp", "get_thermal_temp"}
  MaxActive = 1
  Buffers = {b1, b2}
  NoBuffer = NoBuffer
  Passes <- LocalBuffers
  Readings <- MCReadings
  IntModulus = 65536
  Ceilings <- MCCeilings
  SpoofValues = {TRUE}
  SysfsWrites = FALSE
  VendorMayFail = FALSE
  ProbesMayGo = FALSE
  HitModulus = 2
INVARIANT RetainBandIsHot
