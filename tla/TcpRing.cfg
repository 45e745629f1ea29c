CONSTANTS
  Listeners = {"l1"}
  Links = {"k1", "k2"}
  MaxMessages = 1
SPECIFICATION RingSpec
INVARIANT LinkAssertionsHold
