CONSTANTS
  MaxAid = 2
  Instances = {i1, i2, i3}
  CreateKeys = {c1, c2}
  BindKeys = {k1, k2}
  Outputs = {out}
  Inputs = {in, ain}
  AutoMembers = {ain}
  NoKey = NoKey
  MaxBindings = 2
SYMMETRY Symmetry
SPECIFICATION Spec
INVARIANTS
  TypeOK
  RegistriesAgree
  TreeSound
  NoDanglingBinding
  BindingsSound
PROPERTIES
  BindingLossJustified
  ImplementsRegistry
