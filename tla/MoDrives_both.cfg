CONSTANT
  Drives = {0, 1}
SPECIFICATION Spec
INVARIANT SignalScheduled
INVARIANT SpiralScheduled
INVARIANT StatusShowsSelected
PROPERTY CommandsEnd
