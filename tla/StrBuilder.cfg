SPECIFICATION Spec
CONSTANTS
  InitialSize = 2
  MayFail = TRUE
  Careful = TRUE
  Junk = Junk
  Pieces <- MixedPieces
  Reserves = {0, 5}
  Reuse = FALSE
  MaxText = 6
  Nothing = Nothing
INVARIANTS
  TypeOK
  InBounds
  RoomIsKept
  Canonical
PROPERTY
  ImplementsText
