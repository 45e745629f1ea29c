CONSTANTS
  Actions = {a1}
  Contexts = {x1}
  Home <- SpreadHome
  Fds = {f}
  Closable = {f}
  MaxCalls = 4
  SystemThread = SystemThread
  IOThread = IOThread
  Work = Work
  Sentinel = Sentinel
  Nothing = Nothing
SPECIFICATION FairSchedSpec
INVARIANTS
  SchedTypeOK
  AtMostThreeCopies
  NoLostAction
  NoLostWakeup
PROPERTIES
  EventuallyRuns
  EventuallyStopsUnlessClosed
CHECK_DEADLOCK FALSE
