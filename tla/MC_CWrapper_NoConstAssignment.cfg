\* The C output of DefaultWrapper after every sequence of up to three
\* add_task calls with public task types, on six procedures.
CONSTANTS
  TaskTypes <- MCTaskTypes
  Auxiliary <- MCAuxiliary
  MultiInstance <- MCMultiInstance
  Deps <- MCDeps
  Conflicts <- MCConflicts
  Bases <- MCBases
  AuxNameOrder <- MCAuxNameOrder
  Public <- MCPublic
  Procedures <- MCProceduresRF
  Params <- MCParamsRF
  NeedsParams <- MCNeedsParams
  Decls <- MCDecls
  WrapperLocals <- MCWrapperLocals
  MaxCalls = 3
  Frags <- MCFrags
  NoTask = NoTask
SPECIFICATION Spec
INVARIANT
  NoConstAssignment
\* A wrapper stops after generate() or after an exception escapes add_task.
CHECK_DEADLOCK FALSE
