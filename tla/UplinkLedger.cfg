SPECIFICATION MCSpec
CONSTANTS
  MaxConfigurations = 2
  StoreFaults = {}
  Links = {"WiFi", "GSM"}
  NetFaults = {"power", "network", "lose", "reject"}
  MaxTxn = 3
INVARIANTS AtRestIsDurable
PROPERTIES ImplementsReadingLedger
CHECK_DEADLOCK FALSE
