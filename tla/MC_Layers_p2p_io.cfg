\* The C and the F08 output of DefaultWrapper for the point-to-point and MPI-I/O tasks:
\* every list of up to three genes with their public types, on their procedures.
CONSTANTS
  TaskTypes <- MCTaskTypes
  Auxiliary <- MCAuxiliary
  MultiInstance <- MCMultiInstance
  Deps <- MCDeps
  Conflicts <- MCConflicts
  Bases <- MCBases
  AuxNameOrder <- MCAuxNameOrder
  Public <- MCFPublic
  Procedures <- MCFProcedures
  Params <- MCMPIParams
  NeedsParams <- MCNeedsParams
  Decls <- MCDecls
  WrapperLocals <- MCWrapperLocals
  MaxCalls = 3
  Frags <- MCFrags
  NoTask = NoTask
  Family = {"p2p", "io"}
SPECIFICATION LayersSpec
INVARIANTS
  TypeOK
  DependenciesPrecede
  TaskLocalsAssignedBeforeRead
  ProducersPrecedeReaders
  F08LocalsAssigned
  F08IerrorAssigned
  F08ProducersFirst
PROPERTIES
  AttachSetSpec
\* A wrapper stops after generate() or after an exception escapes add_task.
CHECK_DEADLOCK FALSE
