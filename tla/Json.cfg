SPECIFICATION MCSpec
CONSTANTS
  Long <- MCLong
  Short <- MCShort
  PoolCapacity = 2
  NullSlot = 7
  InitialPools = 2
  Texts <- MCTexts
  NestingLimit = 2
  MaxUses = 2
INVARIANTS TypeOK SlotsHaveOnePlace StringsAreCounted OkIsTheText ErrorsAreTrue ReloadedIsSaved NamesAreUnique
PROPERTIES ImplementsTree UsesDoAsAsked
CHECK_DEADLOCK FALSE
