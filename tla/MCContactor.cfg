SPECIFICATION MCSpec
CONSTANTS
  MaxPasses = 3
INVARIANTS ContactorTypeOK OpensWithinAPass OffFailsOnlyOvertaken
PROPERTIES FaultKeepsOpen ClosesAfterFault
