SPECIFICATION Spec
CONSTANTS
  Programs <- ThePrograms
  Extras <- TheExtras
INVARIANTS
  TypeOK
  Answered
  ValuesRight
  ArgumentsRight
  HintsRight
  UnpackRight
