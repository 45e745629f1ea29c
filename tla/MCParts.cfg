CONSTANTS
  MaxId = 6
  MaxUsed = 3
  Ends = {"a", "b"}
  Uses <- MCUses
  Releases = {"receive"}
  Sends <- MCSends
  MaxBytes = 4
  Capacity = 1
  MaxUnbinds = 1
  Conns = {"c1", "c2"}
  Called = "c1"
  Fds = {"f1", "f2"}
  Helpers = {"h1", "h2"}
  MaxOffers = 2
  Users = {"u1", "u2"}
  Kinds = {"data", "empty", "bad"}
  MaxSent = 2
  MaxUnbound = 1
  MaxQueue = 1
  AutomatonManagers = {"a1", "a2"}
  BindingManagers = {"b1", "b2"}
  Self = "self"
  Binds <- MCBinds
  Listeners = {"l1"}
  Links = {"k1", "k2"}
  MaxMessages = 1
  LcrSize = 3
  PetersonSize = 4
  NetworkNodes = {"n1", "n2", "n3"}
  LongestLink = 2
SPECIFICATION FairPartsSpec
CHECK_DEADLOCK FALSE
INVARIANTS
  PartsTypeOK
  EveryEnabledScheduled
  StreamIntact
  
  OneAtATime
  HelpersAgree
  WavesSound
PROPERTIES
  RefinesIdFactory
  ElectsOne
  EveryPartProgresses
