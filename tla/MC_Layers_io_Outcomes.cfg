\* The C and the F08 wrapper of the MPI-I/O and communicator tasks, generated
\* from the same genes, compared on the events they record for each outcome
\* of the PMPI call.
CONSTANTS
  TaskTypes <- MCTaskTypes
  Auxiliary <- MCAuxiliary
  MultiInstance <- MCMultiInstance
  Deps <- MCDeps
  Conflicts <- MCConflicts
  Bases <- MCBases
  AuxNameOrder <- MCAuxNameOrder
  Public <- MCFPublicAll
  Procedures <- MCFProcedures
  Params <- MCMPIParams
  NeedsParams <- MCNeedsParams
  Decls <- MCDecls
  WrapperLocals <- MCWrapperLocals
  MaxCalls = 3
  Frags <- MCFrags
  NoTask = NoTask
  Family = {"io", "comm"}
SPECIFICATION LayersSpec
INVARIANT
  OutcomesAgree
CHECK_DEADLOCK FALSE
