SPECIFICATION MCSpec
CONSTANTS
  MaxPasses = 0
INVARIANTS OffIsOpen
