SPECIFICATION Spec
CONSTANTS
  Coders <- MCCoders
  Waves <- MCWaves
  Sizes = {1, 2, 3, 4, 7}
  PipeSize = 7
  BUFFER_SIZE = 16
  Frames <- MCFrames
  Ltps <- MCLtps
  Options <- MCOptions
  Runs = 2
INVARIANTS
  
  Tandem
  InStep
  
CHECK_DEADLOCK FALSE
