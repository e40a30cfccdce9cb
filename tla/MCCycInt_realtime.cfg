SPECIFICATION FairSpec
CONSTANTS
  N = 3
  Vbl = 1
  EventLoop = 3
  CycleTimers = {2}
  UsTimers = {2}
  Removable = {2}
  Realtime = TRUE
  Freq = 1
  VblPeriod = 2
  EventPeriod = 3
  CycleDelays = {2}
  UsDelays = {1}
  Quanta = {1}
  UsCheck = 1
  MaxTime = 99
  MaxNow = 4
  MaxLate = 2
  MaxOver = 5
  Off = Off
INVARIANTS LatchIsLive
PROPERTIES ExpiredIsServed
