\* Both browsers, a bad and a good token, one outage, one stop of the worker.
CONSTANTS
  Browsers = {"chrome", "firefox"}
  Conn = {c1, c2, c3}
  None = none
  Key = {good, bad}
  GoodKey = {good}
  Keep = 1
  Buffer = 1
  MaxEvents = 1
  MaxSaves = 1
  MaxDrops = 1
  MaxStops = 1
  MaxTimers = 2
SPECIFICATION FairSpec
CHECK_DEADLOCK FALSE
INVARIANTS TypeOK ChromeStoresOnce NeverGivesUp
PROPERTIES FirefoxKeepsStream ConnectsAgain
