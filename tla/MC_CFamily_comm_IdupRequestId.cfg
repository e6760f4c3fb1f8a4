\* The communicator tasks with TaskCommCreateRequest, on their procedures:
\* its PMPI follow-up reads the request id of the event branch.
CONSTANTS
  TaskTypes <- MCTaskTypes
  Auxiliary <- MCAuxiliary
  MultiInstance <- MCMultiInstance
  Deps <- MCDeps
  Conflicts <- MCConflicts
  Bases <- MCBases
  AuxNameOrder <- MCAuxNameOrder
  Public <- MCFPublicAll
  Procedures <- MCFProcedures
  Params <- MCMPIParams
  NeedsParams <- MCNeedsParams
  Decls <- MCDecls
  WrapperLocals <- MCWrapperLocals
  MaxCalls = 3
  Frags <- MCFrags
  NoTask = NoTask
  Family = {"comm"}
SPECIFICATION Spec
INVARIANTS
  TaskLocalsAssignedBeforeRead
\* A wrapper stops after generate() or after an exception escapes add_task.
CHECK_DEADLOCK FALSE
