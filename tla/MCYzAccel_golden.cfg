SPECIFICATION BenchFairSpec
CONSTANTS
  IN_H = 2
  IN_W = 3
  K_H = 2
  K_W = 3
  STRIDE = 2
  PAD_H = 0
  PAD_W = 1
  N_FILT = 2
  OUT_H = 1
  OUT_W = 2
  FEAT = 4
  FC_OUT = 3
  SHIFT = 1
  ActMax = 6
  AccBits = 5
  ByteBits = 4
  Contents <- MCContents
  PowerUp = {0, 5}
INVARIANTS TypeOK InStep ExactCycles InBounds BitExact SoftwareAgrees
PROPERTY EventuallyDone
