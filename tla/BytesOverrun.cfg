SPECIFICATION Spec
CONSTANTS
  MayFail = FALSE
  Careful = FALSE
  Junk = Junk
  Pieces <- HelloPieces
  Reserves = {6}
  MaxBytes = 20
  Nothing = Nothing
INVARIANT
  InBounds
