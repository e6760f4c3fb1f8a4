------------------------------- MODULE Wrapper -------------------------------
(***************************************************************************)
(* The attachment resolver of wrapgen's Wrapper (generator/wrapper.py):    *)
(* add_task, which pre-attaches auxiliary dependencies depth first in name *)
(* order, checks duplicates, conflicts, dependencies and the auxiliary     *)
(* self-check, constructs the task (CTask.__init__: parameter aliases,     *)
(* then the task's snapshot of the local scope) and appends it.  A failed  *)
(* check raises TaskDependencyError, a failed alias resolution KeyError;   *)
(* nothing catches either, so the wrapper is abandoned ("failed").         *)
(***************************************************************************)
EXTENDS TaskCatalog, Sequences, SequencesExt

CONSTANTS
  MaxCalls,   \* bound on the add_task calls a driver makes on one wrapper
  NoTask      \* model value: no add_task call made yet

VARIABLES
  proc,       \* the procedure the wrapper is generated for (scp_procedure)
  attached,   \* WrapperHooks._attached_tasks, as the sequence of their types
  lsc,        \* lsc[i]: the local scope (CTask._local_scope) of attached[i]
  status,     \* "building", "failed" (an exception escaped), "generated"
  err,        \* the error that escaped add_task, or NoError
  calls,      \* number of add_task calls made
  lastCall    \* the task type of the latest add_task call

vars == <<proc, attached, lsc, status, err, calls, lastCall>>

NoError == "none"
Errors == {"duplicate", "conflict", "unmet", "auxNonAux", "param"}

\* The checks of _add_task, in the order the code raises them.
CheckOrder == <<"duplicate", "conflict", "unmet", "auxNonAux">>

(***************************************************************************)
(* all_local_variables: the wrapper's own locals updated with every        *)
(* attached task's needs_local_variables(), in attachment order.           *)
(***************************************************************************)
AllLocalVariables(att) ==
  FoldLeft(LAMBDA acc, t : ScopeUpdate(acc, Decls[t]), WrapperLocals, att)

(***************************************************************************)
(* Intermediate state of one add_task call: the attached types, their      *)
(* scopes, and the exception raised so far.                                *)
(***************************************************************************)
\* Mutant: the task is appended but its local scope is never built.
ConstructTaskNoScope(r, T) ==
  IF ~Resolvable(T, proc)
  THEN [r EXCEPT !.err = "param"]
  ELSE [r EXCEPT !.att = Append(@, T)]

ConstructTask(r, T) ==
  IF ~Resolvable(T, proc)
  THEN [r EXCEPT !.err = "param"]
  ELSE [r EXCEPT !.att = Append(@, T),
                 !.sc  = Append(@, ScopeUpdate(AllLocalVariables(r.att), Decls[T]))]

ViolatedCheck(k, types, T) ==
  \/ k = "duplicate" /\ T \in types /\ T \notin MultiInstance
  \/ k = "conflict"  /\ \E tt \in types : <<T, tt>> \in Conflicts
  \/ k = "unmet"     /\ \E D \in Deps[T] : ~Provided(D, types)
  \/ k = "auxNonAux" /\ T \in Auxiliary /\ \E D \in Deps[T] : D \notin Auxiliary

\* The first check of order that adding T to the attached types violates,
\* or NoError.
FirstOf(order, failed) ==
  IF failed = {} THEN NoError ELSE order[CHOOSE i \in failed : \A j \in failed : i <= j]

FirstViolated(order, types, T) ==
  FirstOf(order, {i \in DOMAIN order : ViolatedCheck(order[i], types, T)})

\* The check that failed raises e, or the task is constructed.
RaiseOrConstruct(r, T, e) ==
  IF e = NoError THEN ConstructTask(r, T) ELSE [r EXCEPT !.err = e]

\* Mutant: the dependency check of _add_task is dropped.
AddTaskCheckedNoDepCheck(r, T) ==
  IF r.err # NoError THEN r
  ELSE RaiseOrConstruct(r, T, FirstViolated(<<"duplicate", "conflict", "auxNonAux">>,
                                            Range(r.att), T))

\* _add_task: the first failing check raises, otherwise construct and attach.
AddTaskChecked(r, T) ==
  IF r.err # NoError THEN r
  ELSE RaiseOrConstruct(r, T, FirstViolated(CheckOrder, Range(r.att), T))

(***************************************************************************)
(* _add_auxiliary_dependencies: for each auxiliary dependency, in sorted   *)
(* name order, that is not attached (exact type), first its own auxiliary  *)
(* dependencies, then itself.                                              *)
(***************************************************************************)
RECURSIVE AddAuxiliaryDependencies(_, _), AuxLoop(_, _), AuxLoopNoSkip(_, _),
          AddWithAuxiliaries(_, _)
\* Mutant: an auxiliary dependency is added even when already attached.
AuxLoopNoSkip(r, ds) ==
  IF ds = <<>> \/ r.err # NoError THEN r
  ELSE AuxLoop(AddWithAuxiliaries(r, Head(ds)), Tail(ds))

\* _add_auxiliary_dependencies(T), then _add_task(T)
AddWithAuxiliaries(r, T) == AddTaskChecked(AddAuxiliaryDependencies(r, T), T)

AddAuxiliaryDependencies(r, T) ==
  AuxLoop(r, SelectSeq(AuxNameOrder, LAMBDA d : d \in Deps[T]))
AuxLoop(r, ds) ==
  IF ds = <<>> \/ r.err # NoError THEN r
  ELSE AuxLoop(IF Head(ds) \in Range(r.att) THEN r ELSE AddWithAuxiliaries(r, Head(ds)),
               Tail(ds))

\* add_task
AddTaskResult(T) == AddWithAuxiliaries([att |-> attached, sc |-> lsc, err |-> NoError], T)

-----------------------------------------------------------------------------

Init ==
  /\ proc \in Procedures
  /\ attached = <<>>
  /\ lsc = <<>>
  /\ status = "building"
  /\ err = NoError
  /\ calls = 0
  /\ lastCall = NoTask

\* The wrapper after add_task returned, or raised, with result r.
Returned(r) ==
  /\ attached' = r.att
  /\ lsc' = r.sc
  /\ err' = r.err
  /\ status' = IF r.err = NoError THEN "building" ELSE "failed"

\* The driver calls add_task with a public task type.
AddTask(T) ==
  /\ status = "building"
  /\ calls < MaxCalls
  /\ Returned(AddTaskResult(T))
  /\ calls' = calls + 1
  /\ lastCall' = T
  /\ UNCHANGED proc

\* generate(): the wrapper is consumed; no task is attached afterwards.
Generate ==
  /\ status = "building"
  /\ status' = "generated"
  /\ UNCHANGED <<proc, attached, lsc, err, calls, lastCall>>

Next ==
  \/ \E T \in Public : AddTask(T)
  \/ Generate

Spec == Init /\ [][Next]_vars

-----------------------------------------------------------------------------

LocalNames == DOMAIN WrapperLocals \cup UNION {DOMAIN Decls[T] : T \in TaskTypes}

TypeOK ==
  /\ proc \in Procedures
  /\ attached \in Seq(TaskTypes)
  /\ Len(lsc) = Len(attached)
  /\ \A i \in DOMAIN lsc : DOMAIN lsc[i] \subseteq LocalNames
  /\ status \in {"building", "failed", "generated"}
  /\ err \in Errors \cup {NoError}
  /\ (err = NoError) <=> (status # "failed")
  /\ calls \in 0..MaxCalls
  /\ lastCall \in Public \cup {NoTask}

(***************************************************************************)
(* Every attached task comes after a task that provides each of its        *)
(* dependencies (by the inheritance chain): the order hooks are composed   *)
(* in, so a dependency's code is emitted before its user's.  Relies on the *)
(* auxiliary pre-attachment and the dependency check of add_task.          *)
(***************************************************************************)
DependenciesPrecede ==
  \A i \in 1..Len(attached) : \A D \in Deps[attached[i]] :
    \E j \in 1..(i - 1) : D \in Bases[attached[j]]

\* The final declarations agree with every task's snapshot of its scope.
ViewsAgree(final) ==
  \A i \in 1..Len(attached) : \A n \in DOMAIN lsc[i] :
    n \in DOMAIN final /\ final[n] = lsc[i][n]

(***************************************************************************)
(* When the wrapper is generated, every local a task saw in its scope at   *)
(* construction is declared with that same declaration (the task's view   *)
(* of its locals is not stale).  Spec section 9 flags the last-write-wins  *)
(* merge of all_local_variables as able to break this.                    *)
(***************************************************************************)
LocalViewConsistent == status = "generated" => ViewsAgree(AllLocalVariables(attached))

(***************************************************************************)
(* add_task implements its documented rules: read as a set, the attached   *)
(* types grow by the requested type and its missing auxiliary dependencies *)
(* when no rule forbids the call, and every exception raised is one a rule *)
(* explains (no spurious duplicate when an auxiliary dependency is already *)
(* attached, no missed conflict or dependency).                            *)
(***************************************************************************)
AS == INSTANCE AttachSet WITH taskSet <- Range(attached)
AttachSetSpec == AS!ASpec

=============================================================================
