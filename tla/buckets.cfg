SPECIFICATION Spec
CONSTANTS
  Clients = {c1, c2}
  Names = {default, empty, a, b}
  Default = default
  EmptyName = empty
  upper = upper
  bad = bad
  Raw = {default, empty, a, b, upper, bad}
  Normalise <- MCNormalise
  BadName = BadName
  NoToken = NoToken
  NoBucket = NoBucket
  Nobody = Nobody
  MaxContainers = 3
SYMMETRY Symmetry
INVARIANTS
  TypeOK
  NoLeakedCollector
  DefaultServed
  Isolated
PROPERTIES
  AtomicRegistry
  StopOnlyDropped
  ServerErrorsExplained
