CONSTANTS
  u1 = u1
  j1 = j1
  tab = tab
  other = other
  Blank = Blank
  TooLong = TooLong
  NoUpload = NoUpload
  Uploads = {u1}
  Columns <- File
  IdColumn = "id"
  Headers <- SomeHeaders
  Records <- SomeRecords
  MaxRows = 2
  ChunkSize = 1
  Jobs = {j1}
  Tasks <- SomeTasks
  JobOf <- TheJob
  MetricsOf <- SomeMetrics
  StoreIdOf <- Ids
  Configs <- SomeConfigs
  Clients = {tab, other}
  Pages = {tab}
  JobOpen <- JobOpenByAll
  MaxRuns = 2
  PageSize = 1
SPECIFICATION Spec
CHECK_DEADLOCK FALSE
INVARIANTS
  KeepsFirstValidRows
  UploadsAreWhole
  IndInv
  PartialIsTruthful
  EveryStoreGetsATier
  RankedByMerit
  MarksAgreeOnceLoaded
PROPERTIES
  KeepsContract
  PagesSkipNothing
