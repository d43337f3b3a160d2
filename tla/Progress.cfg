SPECIFICATION Spec
CONSTANTS
  photo = photo
  note = note
  Keys <- Both
  Sizes <- SizesOf
  Reads = {1, 5}
  MinInterval = 2
  MaxAttempts = 2
  MaxTime = 3
INVARIANTS EntryIsOfThisAttempt LinesAreApart HundredMeansWhole
