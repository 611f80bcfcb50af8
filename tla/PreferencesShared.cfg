SPECIFICATION MCSpec
CONSTANTS
  MaxTxn = 2
  MaxForms = 2
INVARIANTS TypeOK ReusedOnlyIfShared AnsweredFormsAreWhole
