CONSTANTS
  MaxLeg = 2
  MaxCalls = 4
  Traces <- MCTraces
SPECIFICATION Spec
INVARIANTS
  OneRacer
  OwnThread
  FlushedAtHandover
  NoUseAfterDelete
  RaceInv
PROPERTIES
  ImplementsSequential
  RaceEnds
