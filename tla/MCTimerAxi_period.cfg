CONSTANTS
  Modulus = 3
  Values <- AllValues
SPECIFICATION FairSpec
PROPERTIES ImplementsIntervalTimer EventsKeepComing
