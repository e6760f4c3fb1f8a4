\* The C and the F08 output of DefaultWrapper for the one-sided tasks: every
\* list of up to three genes with their public types, on their procedures.
CONSTANTS
  TaskTypes <- MCTaskTypes
  Auxiliary <- MCAuxiliary
  MultiInstance <- MCMultiInstance
  Deps <- MCDeps
  Conflicts <- MCConflicts
  Bases <- MCBases
  AuxNameOrder <- MCAuxNameOrder
  Public <- MCFPublic
  Procedures <- MCFProcedures
  Params <- MCMPIParams
  NeedsParams <- MCNeedsParams
  Decls <- MCDecls
  WrapperLocals <- MCWrapperLocals
  MaxCalls = 3
  Frags <- MCFrags
  NoTask = NoTask
  Family = {"rma"}
SPECIFICATION LayersSpec
INVARIANTS
  FamilyLocalsAssigned
  FamilyProducersFirst
  F08FamilyLocalsAssigned
  F08FamilyProducersFirst
\* A wrapper stops after generate() or after an exception escapes add_task.
CHECK_DEADLOCK FALSE
