SPECIFICATION Spec
CONSTANTS
  Tries = 1
  Backlog = 1
  ModemFaults = {"apart", "late", "silent"}
  Rounds = 2
  Modes <- AllModes
INVARIANTS TypeOK AnswersInStep StartedIsActive
PROPERTIES DataIsReading SetupEnds
CHECK_DEADLOCK FALSE
