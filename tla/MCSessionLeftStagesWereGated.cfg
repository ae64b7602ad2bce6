SPECIFICATION MCSpec
CONSTANTS
  Procs = {p1}
  Lanes <- MCOneLane
  ChainLength <- MCThreeStages
  Agents = {a1}
  Millis = {1}
  MaxRows = 4
INVARIANT LeftStagesWereGated
