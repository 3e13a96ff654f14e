CONSTANTS
  PRESCALE = 2
  ByteBits = 2
  MaxBytes = 2
  PowerUp <- McPowerUp
  Devices <- McDevices
  Addresses <- McAddresses
  Counts <- McCounts
  Words <- McWords
  MaxMeddles = 1
SPECIFICATION FairSpec
INVARIANTS Faithful LeavesBusFree
PROPERTIES SdaStable RequestServed
