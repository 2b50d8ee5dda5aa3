\* Two tasks racing on one FG context and one object of another layout, root
\* writing the threshold parameters meanwhile.
SPECIFICATION FairSpec
CONSTANTS
  k1 = k1
  k2 = k2
  fg = fg
  other = other
  Tasks = {k1, k2}
  Contexts = {fg, other}
  NullContext = NullContext
  VendorTriples <- MCVendor
  VendorStored <- MCStored
  Targets <- MCSettings
  CutoffValues = {TRUE, FALSE}
  SysfsWrites = TRUE
  HitModulus = 1
INVARIANT TypeOK
INVARIANT QuiescentTarget
INVARIANT ForeignObjectUntouched
PROPERTY ThresholdsSettle
