CONSTANTS
  MaxAid = 2
  Members = {m}
  Threads = {sys, t1, t2}
  Writers = {sys}
  Home <- SpreadHome
  NoThread = NoThread
  Alone = Alone
SPECIFICATION ExecSpec
INVARIANT OneThreadPerAutomaton
