\* All seven handlers, two at a time, parameters as insmod set them.
SPECIFICATION Spec
CONSTANTS
  CPUs = {c1, c2}
  Handlers = {"ichg", "cv", "fast", "single", "multi", "max", "thermal"}
  Inputs <- MCFewInputs
  Temperatures <- MCRecovery
  ParamValues <- MCSomeParams
  SysfsWrites = FALSE
  HitModulus = 3
  MaxCalls = 2
SYMMETRY CPUSymmetry
INVARIANT TypeOK
INVARIANT OneTemperatureUnlessCrossing58
INVARIANT HitsNeverOvercount
INVARIANT ZeroHitsMeansNoRewrite
PROPERTY PpsHitsNeedPps
