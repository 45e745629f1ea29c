CONSTANTS
  MaxAid = 3
  Instances = {i1, i2, i3}
  CreateKeys = {c1}
  BindKeys = {b1}
  Outputs = {out}
  Inputs = {in}
  AutoMembers = {}
  NoKey = NoKey
  MaxBindings = 9
  MaxQueue = 2
SPECIFICATION SysSpec
INVARIANTS
  SysTypeOK
  SanityChecksHold
  OneAnswerPerRequest
  ViewsAgree
PROPERTY NoLateRequestHits
