CONSTANTS
  Day = {1, 2}
  Model = {"m1"}
  Unidentified = "unidentified"
  MaxModelDays = 1
  File = {1, 2}
  Run = {r1, r2}
  Nobody = Nobody
  Formats = {"running", "messages"}
  Records <- MCRecords
  Caches <- MCCaches
  Figures = {1}
  Today = 2
  WeekDays = 2
  Residual = "other"
  Rest <- MCRest
  Vocabularies <- MCVocabularies
  SourceRows <- MCSourceRows
  Label = "tool"
  MaxRecords = 2
  MaxStarts = 2
  MaxTool = 3
  MaxOther = 1
SPECIFICATION Spec
SYMMETRY Runs
INVARIANTS
    CaptureInv
    BilledOnce
    NoSelfRefusal
PROPERTIES
    StoreNeverForgets
    VerifiedStands
    ExportAdmits
    RecordAgrees
CHECK_DEADLOCK FALSE
