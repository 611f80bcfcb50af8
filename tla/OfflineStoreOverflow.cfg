SPECIFICATION MCSpec
CONSTANTS
  Packet = {p1, p2}
  MaxConfigurations = 3
  StoreFaults = {}
  MaxBacklog = 4
PROPERTIES SavedIsLoadable
