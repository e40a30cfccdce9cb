SPECIFICATION Spec
CONSTANT
  Writes = {{"reset"}, {"int", "vmask"}}
INVARIANT NotBeforeReset
INVARIANT RemovedMeansEnded
PROPERTY PortIsMailbox
PROPERTY RemovalEnds
PROPERTY MessagesTaken
