\* Two loads, with registrations that may fail, tasks that may stay in the
\* vendor function for ever.
SPECIFICATION FairSpec
CONSTANTS
  N = 3
  Tasks = {k1, k2, k3}
  ArmedValues = {TRUE, FALSE}
  MaxLoads = 2
CHECK_DEADLOCK FALSE
INVARIANT TypeOK
INVARIANT CountNamesTheHooks
INVARIANT CodeOutlivesHandlers
INVARIANT AllOrNothing
PROPERTY LoaderCompletes
