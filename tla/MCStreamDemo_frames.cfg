CONSTANTS
  IN_COUNT = 3
  N_WCONV = 1
  N_BCONV = 1
  N_WFC = 1
  N_BFC = 1
  FC_OUT = 2
  Infer <- McInfer
  File <- McFile
  Payloads <- McPayloads
  Strays <- McStrays
  Bounded = FALSE
SPECIFICATION Spec
INVARIANTS AnswerIsOfFrame InStepAgain
PROPERTIES Answered
