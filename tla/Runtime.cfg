\* A load and an unload around a rewriting call and two FG tasks, with the clamp
\* off and the parameters as insmod set them.
SPECIFICATION FairSpec
CONSTANTS
  c1 = c1
  k1 = k1
  k2 = k2
  b1 = b1
  b2 = b2
  CPUs = {c1}
  FgTasks = {k1, k2}
  N = 2
  Table <- MCTwoEntries
  Inputs <- MCInputs
  ParamValues <- MCParams
  MaxCalls = 1
  Buffers = {b1, b2}
  NoBuffer = NoBuffer
  Passes <- MCOwn
  Readings <- MCReadings
  Ceilings = {0}
  SpoofValues = {TRUE}
  VendorMayFail = FALSE
  IntModulus = 65536
  MaxActive = 2
  SysfsWrites = FALSE
  Switches = {}
  MayUnload = TRUE
CHECK_DEADLOCK FALSE
INVARIANT TypeOK
INVARIANT HotReadingRetains
PROPERTY WindowCloses
