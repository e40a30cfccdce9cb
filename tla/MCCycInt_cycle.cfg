SPECIFICATION FairSpec
CONSTANTS
  N = 3
  Vbl = 1
  EventLoop = 3
  CycleTimers = {2}
  UsTimers = {2}
  Removable = {2}
  Realtime = FALSE
  Freq = 2
  VblPeriod = 2
  EventPeriod = 3
  CycleDelays = {3}
  UsDelays = {1}
  Quanta = {1, 2}
  UsCheck = 2
  MaxTime = 99
  MaxNow = 0
  MaxLate = 2
  MaxOver = 20
  Off = Off
INVARIANTS PendingInStep PermanentTimersArmed
PROPERTIES TimersSpec VblRecurs EventLoopRecurs
