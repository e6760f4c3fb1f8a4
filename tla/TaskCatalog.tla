----------------------------- MODULE TaskCatalog -----------------------------
(***************************************************************************)
(* The static side of wrapgen's task framework: what a task TYPE declares  *)
(* (generator/task.py) and what a procedure offers (its parameter names).  *)
(* A task type is a name; the class-level declarations of ProcedureTask    *)
(* (dependencies, has_conflict_with, allow_multiple_instances,             *)
(* is_auxiliary, the inheritance chain) and the instance declarations      *)
(* needs_parameter_names / needs_local_variables are given as constant     *)
(* functions, instantiated per binding layer by an MC module from the      *)
(* concrete task classes.                                                  *)
(***************************************************************************)
EXTENDS Naturals, FiniteSets

CONSTANTS
  TaskTypes,      \* the task classes of one binding layer
  Auxiliary,      \* the classes deriving from AuxiliaryTaskMixin
  MultiInstance,  \* the classes whose allow_multiple_instances() is True
  Deps,           \* Deps[T] = T.dependencies()
  Conflicts,      \* <<T, A>> \in Conflicts  iff  T.has_conflict_with(A)
  Bases,          \* Bases[T] = the task classes in inspect.getmro(T)
  AuxNameOrder,   \* the auxiliary classes, sorted by __name__
  Public,         \* the types add_task is called with: non-auxiliary
                  \* classes (get_public_task_types())
  Procedures,     \* procedures a wrapper may be generated for
  Params,         \* Params[p] = the parameter names of procedure p
  NeedsParams,    \* NeedsParams[T] = the alias requests of needs_parameter_names:
                  \*   each request is the set of acceptable parameter names
  Decls,          \* Decls[T] = needs_local_variables(): local name -> declaration
  WrapperLocals   \* the wrapper's own local_variables(): name -> declaration

ASSUME
  /\ Auxiliary \subseteq TaskTypes
  /\ MultiInstance \subseteq TaskTypes
  /\ Public \subseteq TaskTypes \ Auxiliary
  /\ Deps \in [TaskTypes -> SUBSET TaskTypes]
  /\ Conflicts \subseteq TaskTypes \X TaskTypes
  /\ \A T \in TaskTypes : T \in Bases[T] /\ Bases[T] \subseteq TaskTypes
  /\ \A i \in DOMAIN AuxNameOrder : AuxNameOrder[i] \in Auxiliary
  /\ \A a \in Auxiliary : \E i \in DOMAIN AuxNameOrder : AuxNameOrder[i] = a
  /\ \A T \in TaskTypes : \A req \in NeedsParams[T] : req # {}

(***************************************************************************)
(* A dependency D is met by the attached types iff some attached type has *)
(* D in its method resolution order (Wrapper._add_task, inspect.getmro).   *)
(***************************************************************************)
Provided(D, types) == \E att \in types : D \in Bases[att]

(***************************************************************************)
(* make_parameter_name_mapping: every alias is bound to exactly one of its *)
(* candidate names among the procedure's parameters; a plain name is a     *)
(* one-candidate request.  Zero or two matches raise KeyError.             *)
(***************************************************************************)
Resolvable(T, p) ==
  \A req \in NeedsParams[T] : Cardinality(req \cap Params[p]) = 1

(***************************************************************************)
(* Scope.update (OrderedDict.update): entries of new overwrite same-named  *)
(* entries of old, last write wins.  The key order is not represented.     *)
(***************************************************************************)
ScopeUpdate(old, new) ==
  [n \in DOMAIN old \cup DOMAIN new |-> IF n \in DOMAIN new THEN new[n] ELSE old[n]]

(***************************************************************************)
(* The auxiliary types _add_auxiliary_dependencies reaches from T.         *)
(***************************************************************************)
RECURSIVE AuxClosure(_)
AuxClosure(T) ==
  LET direct == Deps[T] \cap Auxiliary
  IN  direct \cup UNION {AuxClosure(d) : d \in direct}

=============================================================================
