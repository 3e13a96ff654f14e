CONSTANTS
  IN_H = 1
  IN_W = 2
  K_H = 1
  K_W = 2
  STRIDE = 1
  PAD_H = 0
  PAD_W = 0
  N_FILT = 1
  OUT_H = 1
  OUT_W = 2
  FEAT = 2
  FC_OUT = 2
  SHIFT = 0
  ActMax = 7
  AccBits = 6
  Contents = {}
  PowerUp = {3}
  Images <- MCImages
  Weights <- MCWeights
  SramWords = 2
  WaitsForIrq = TRUE
  Cancels = FALSE
SPECIFICATION SramSpec
INVARIANTS LoaderOK InputInPlace ResultIsGolden
