CONSTANTS
  MaxAid = 2
  Instances = {i1, i2, i3}
  CreateKeys = {c1}
  BindKeys = {b1}
  Outputs = {out}
  Inputs = {in}
  AutoMembers = {}
  NoKey = NoKey
  MaxBindings = 9
  MaxQueue = 3
SPECIFICATION FairSysSpec
PROPERTIES
  EventuallyAnswered
  EventuallyReleased
