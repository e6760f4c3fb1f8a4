\* print_tasks over the C layer's 70 public task types, in every order of
\* the dependency sets.
CONSTANTS
  TaskTypes <- PTTaskTypes
  Auxiliary <- PTAuxiliary
  MultiInstance <- PTMultiInstance
  Deps <- PTDeps
  Conflicts <- PTConflicts
  Bases <- CClassBases
  AuxNameOrder <- PTAuxNameOrder
  Public <- PTPublic
  Procedures = {"none"}
  Params <- PTNoNeeds
  NeedsParams <- PTNoNeeds
  Decls <- PTDecls
  WrapperLocals <- PTNoLocals
  PublicNameOrder <- PTPublicNameOrder
SPECIFICATION PTSpec
PROPERTY
  ListingCompletes
\* The listing ends after the last type, or when an error escapes.
CHECK_DEADLOCK FALSE
