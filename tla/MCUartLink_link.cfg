CONSTANTS
  DataBits = 2
  BaudMod = 16
  Cpb = 8
  FarBits = {7, 10}
  Alphabet <- MCAlphabet
  Slack = 22
SPECIFICATION Spec
INVARIANTS ByteForByte NothingLost
PROPERTIES WriteAccepted Delivered
