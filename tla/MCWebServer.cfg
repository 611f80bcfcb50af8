SPECIFICATION Spec
CONSTANTS
  None = None
  Clients = {c1, c2}
INVARIANTS TypeOK FormsAreWhole
PROPERTIES PromptIsAnswered
CHECK_DEADLOCK FALSE
