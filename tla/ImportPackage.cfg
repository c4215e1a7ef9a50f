SPECIFICATION Spec
CONSTANTS
  Null = Null
  Modules = {m1}
  Fields = {f1}
  Objects = {o1}
  Packages = {o1}
  NameSets = {{"a"}}
INVARIANT
  ImportReadsNames
