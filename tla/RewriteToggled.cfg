\* All seven handlers, root writing parameters meanwhile.
SPECIFICATION Spec
CONSTANTS
  CPUs = {c1}
  Handlers = {"ichg", "cv", "fast", "single", "multi", "max", "thermal"}
  Inputs <- MCInputs
  Temperatures <- MCThreeBands
  ParamValues <- AllParams
  SysfsWrites = TRUE
  HitModulus = 8
  MaxCalls = 1
INVARIANT RetainedAbove58
INVARIANT UngatedRecoverAbove55
PROPERTY RewritesAsPromised
