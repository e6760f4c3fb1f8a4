\* One generator run over every template tree, in strict and permissive mode.
CONSTANTS
  Names <- MCNames
  Others <- MCOthers
  Express <- MCExpress
  Tasks <- MCTasks
  Implemented <- MCImplemented
  TaskTodo = "TaskTodo"
  UnknownTemplate <- MCUnknownTemplate
  ProtoNoVariants = {"wait"}
  GenFails <- MCGenFails
  Embiggened <- MCEmbiggened
  EmbigFails <- MCEmbigFails
  Files <- MCFiles
  Trees <- MCTrees
SPECIFICATION Spec
INVARIANTS
  GeneratedOnce
  DoneMeansComplete
  StrictTodoOnlyFromGenes
  RegionNumbersAgree
PROPERTY
  EveryRequestReported
\* A run ends: the report is written or an error escaped.
CHECK_DEADLOCK FALSE
