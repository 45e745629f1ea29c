CONSTANTS
  Actions = {a1}
  Contexts = {x1}
  Home <- SpreadHome
  Fds = {f}
  Closable = {f}
  MaxCalls = 3
  SystemThread = SystemThread
  IOThread = IOThread
  Work = Work
  Sentinel = Sentinel
  Nothing = Nothing
SPECIFICATION SchedSpec
INVARIANT ClosedIsPurged
CHECK_DEADLOCK FALSE
