CONSTANTS
  Actions = {a1}
  Contexts = {x1}
  Home <- SpreadHome
  Fds = {f}
  Closable = {f}
  MaxCalls = 2
  SystemThread = SystemThread
  IOThread = IOThread
  Work = Work
  Sentinel = Sentinel
  Nothing = Nothing
SPECIFICATION FairSchedSpec
PROPERTY EventuallyStops
CHECK_DEADLOCK FALSE
