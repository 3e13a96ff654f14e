CONSTANTS
  Lines <- McLines
  RndLines <- McRndLines
  MinCycles = 1
  MaxCycles = 2
  Dim = 2
  Mat1 <- McMat1
  Mat2 <- McMat2
  Expected <- McExpected
  MaxStalls = 1
SPECIFICATION FairSpec
INVARIANTS NoError OnePerEnable OnlyWhereEnabled
PROPERTIES NoStaleTake Returns
CHECK_DEADLOCK FALSE
