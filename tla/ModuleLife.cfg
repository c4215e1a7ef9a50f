SPECIFICATION Spec
CONSTANTS
  Null = Null
  Modules = {m1, m2}
  Fields = {f1, f2}
  Objects = {o1, o2}
  Packages = {}
  NameSets = {{"a"}, {"a", "b"}}
SYMMETRY Interchangeable
INVARIANTS
  Balanced
  TraverseExact
  Registered
  ClearDropsAll
PROPERTY
  ClearIsOwn
CHECK_DEADLOCK FALSE
