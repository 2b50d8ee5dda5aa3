\* The divider and cap voters while the battery crosses 58 degrees C.
SPECIFICATION Spec
CONSTANTS
  CPUs = {c1}
  Handlers = {"single", "multi", "max"}
  Inputs <- MCInputs
  Temperatures <- MCThreeBands
  ParamValues <- ProfileParams
  SysfsWrites = FALSE
  HitModulus = 8
  MaxCalls = 1
INVARIANT RecoveryOnlyAbove55
