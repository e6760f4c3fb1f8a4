\* A second provider of TaskRmaRequestTrackingBase attached after TaskRmaGet:
\* its matching id is assigned after TaskRmaGet has read it.
CONSTANTS
  TaskTypes <- MCTaskTypes
  Auxiliary <- MCAuxiliary
  MultiInstance <- MCMultiInstance
  Deps <- MCDeps
  Conflicts <- MCConflicts
  Bases <- MCBases
  AuxNameOrder <- MCAuxNameOrder
  Public <- MCFPublic
  Procedures <- MCFProcedures
  Params <- MCMPIParams
  NeedsParams <- MCNeedsParams
  Decls <- MCDecls
  WrapperLocals <- MCWrapperLocals
  MaxCalls = 3
  Frags <- MCFrags
  NoTask = NoTask
  Family = {"rma"}
SPECIFICATION Spec
INVARIANTS
  ProducersPrecedeReaders
\* A wrapper stops after generate() or after an exception escapes add_task.
CHECK_DEADLOCK FALSE
