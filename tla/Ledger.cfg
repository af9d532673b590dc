CONSTANTS
  Instances <- MCInstances
  Figures = {1, 2}
  Settle = 1
  DayLength = 2
SPECIFICATION FairSpec
INVARIANTS
    RecordInv
PROPERTIES
    FigureNeverDrops
    SettledIsRecorded
    CaughtUp
