SPECIFICATION ResendSpec
CONSTANTS
  MaxConfigurations = 2
  StoreFaults = {"open", "write", "heap", "format"}
  Links = {"WiFi", "GSM"}
  NetFaults = {"power", "network", "lose", "reject"}
  MaxReadings = 3
  MaxCredit = 1
INVARIANTS TypeOK OldestFirst RepeatsAtMostOne RepeatsPerPowerCut
CHECK_DEADLOCK FALSE
