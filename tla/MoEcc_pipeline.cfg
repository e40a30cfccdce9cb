CONSTANTS
  Counts = {1, 4}
  Steps = 3
SPECIFICATION Spec
INVARIANT BlocksInOrder
INVARIANT NoAbort
INVARIANT EventsTrue
PROPERTY OperationEnds
PROPERTY EngineRests
