CONSTANTS
  MaxAid = 2
  Members = {m}
  Threads = {sys, t1, t2}
  Writers = {sys}
  Home <- SpreadHome
  NoThread = NoThread
  Alone = Alone
  UserActions = {a1, a2}
  Fds = {f}
  MaxOffset = 1
  MaxPending = 1
  MaxConfig = 1
  Work = Work
  Nothing = Nothing
SPECIFICATION FairRuntimeSpec
INVARIANTS
  ExecTypeOK
  NoWaitCycle
  LocksHeldThroughout
  GuardedCodeExclusive
  FifoTypeOK
  TimersExact
  SelectsOpenOnly
PROPERTIES
  Progress
  EventuallyExecuted
  EventuallyReturns
