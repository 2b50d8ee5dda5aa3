\* Six calls on two CPUs racing for two instances, whose counters come round.
SPECIFICATION Spec
CONSTANTS
  o1 = o1
  o2 = o2
  None = None
  NumCPUs = 2
  Calls = {k1, k2, k3}
  Instances = {o1, o2}
  Capacity = 2
  Modulus = 4
  Start = 3
  Initial <- OneEach
  MaxCalls = 6
  MaxOverlap = 2
CHECK_DEADLOCK FALSE
SYMMETRY CallSymmetry
INVARIANT TypeOK
INVARIANT NothingLost
INVARIANT NeverWarns
INVARIANT MissedOnlyInMotion
PROPERTY ExclusiveOwnership
