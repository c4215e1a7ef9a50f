SPECIFICATION FairSpec
CONSTANTS
  MayFail = TRUE
  Careful = TRUE
  Junk = Junk
  Pieces <- MixedPieces
  Reserves = {0, 1, 5}
  MaxBytes = 6
  Nothing = Nothing
INVARIANTS
  InBounds
  RoomIsKept
PROPERTIES
  ImplementsText
  EnsureSizeReturns
