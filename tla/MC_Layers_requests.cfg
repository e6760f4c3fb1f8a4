\* The C and the F08 output of DefaultWrapper for the request and communicator
\* tasks (TaskCommCreateRequest aside): every list of up to two genes with
\* their public types, on their procedures.
CONSTANTS
  TaskTypes <- MCTaskTypes
  Auxiliary <- MCAuxiliary
  MultiInstance <- MCMultiInstance
  Deps <- MCDeps
  Conflicts <- MCConflicts
  Bases <- MCBases
  AuxNameOrder <- MCAuxNameOrder
  Public <- MCFPublic
  Procedures <- MCFProcedures
  Params <- MCMPIParams
  NeedsParams <- MCNeedsParams
  Decls <- MCDecls
  WrapperLocals <- MCWrapperLocals
  MaxCalls = 2
  Frags <- MCFrags
  NoTask = NoTask
  Family = {"requests", "comm"}
SPECIFICATION LayersSpec
INVARIANTS
  TaskLocalsAssignedBeforeRead
  RequestFreeGuardFirst
  F08LocalsAssigned
\* A wrapper stops after generate() or after an exception escapes add_task.
CHECK_DEADLOCK FALSE
