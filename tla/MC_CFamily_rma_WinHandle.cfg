\* TaskWinCreate followed by an RMA synchronisation task on MPI_Win_create:
\* the merged declaration of local_win_handle loses its initial value.
CONSTANTS
  TaskTypes <- MCTaskTypes
  Auxiliary <- MCAuxiliary
  MultiInstance <- MCMultiInstance
  Deps <- MCDeps
  Conflicts <- MCConflicts
  Bases <- MCBases
  AuxNameOrder <- MCAuxNameOrder
  Public <- MCFPublic
  Procedures <- MCFProcedures
  Params <- MCMPIParams
  NeedsParams <- MCNeedsParams
  Decls <- MCDecls
  WrapperLocals <- MCWrapperLocals
  MaxCalls = 3
  Frags <- MCFrags
  NoTask = NoTask
  Family = {"rma"}
SPECIFICATION Spec
INVARIANTS
  TaskLocalsAssignedBeforeRead
\* A wrapper stops after generate() or after an exception escapes add_task.
CHECK_DEADLOCK FALSE
