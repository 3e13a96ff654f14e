CONSTANTS
  DataBits = 2
  BaudMod = 16
  Cpb = 8
  FarBits = {7, 8, 9}
  R <- McR
  A <- McA
  Nul <- McNul
  Text <- McText
  MsgSize = 6
  MaxIdle = 7
SPECIFICATION HelloSpec
INVARIANTS HostReadsDialogue AnswerKept
PROPERTIES Succeeds
