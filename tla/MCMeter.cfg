SPECIFICATION MCSpec
CONSTANTS
  StaleAfter = 2
  LineFaults = {"silent", "lose", "late"}
  MaxPolls = 4
  ExpBits = 3
  FracBits = 5
INVARIANTS TypeOK OfOneAnswer NotOlderThanLimit ReadingsDecode
