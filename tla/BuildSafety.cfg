\* Three builds by two builders, of any outcome, in one directory or in two, one
\* after the other or side by side, and two packagings.
SPECIFICATION Spec
CONSTANTS
  b1 = b1
  b2 = b2
  Builders = {b1, b2}
  Outcomes <- MCOutcomes
  MaxBuilds = 3
  MaxPackages = 2
SYMMETRY BuilderSymmetry
CHECK_DEADLOCK FALSE
INVARIANT TypeOK
INVARIANT ReportedZipIsWhole
INVARIANT VouchedIsChecked
