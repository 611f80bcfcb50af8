SPECIFICATION DrainSpec
CONSTANTS
  MaxConfigurations = 2
  StoreFaults = {"open", "write", "heap"}
  Links = {"WiFi", "GSM"}
  NetFaults = {"power", "network", "lose", "reject"}
  MaxBacklog = 3
PROPERTIES DrainsAfterOutage
CHECK_DEADLOCK FALSE
