SPECIFICATION MCSpec
CONSTANTS
  Packet = {p1, p2}
  MaxConfigurations = 3
  StoreFaults = {"open", "write", "heap", "format"}
  MaxBacklog = 4
INVARIANTS TypeOK AllOrNothing
PROPERTIES ImplementsDurableBacklog
