SPECIFICATION MCSpec
CONSTANTS
  Procs = {p1, p2}
  Lanes <- MCLanes
  ChainLength <- MCChainLength
  Agents = {a1}
  Millis = {1}
  MaxRows = 3
SYMMETRY MCProcSymmetry
INVARIANTS
  TypeOK
  NoStageSkipped
  CompletedAfterFinalStage
  EnvelopesOfEnteredStages
  TurnsKeepChainOrder
  TurnsRespectGates
