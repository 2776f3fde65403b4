SPECIFICATION FairSpec
CONSTANTS
  Straps = {{TRUE, FALSE}, {TRUE}, {FALSE}}
  MayReset = TRUE
INVARIANTS
  DataFromRightRegister
  InStep
  EnabledMeansConfigured
PROPERTIES
  AxiStable
  ConfigCompletes
