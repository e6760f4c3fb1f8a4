------------------------------ MODULE AttachSet ------------------------------
(***************************************************************************)
(* What add_task promises, as the add_task docstring (wrapper.py) states   *)
(* its rules, abstracting the order of attachment: the wrapper holds a set *)
(* of task types.  A call either extends the set by the requested type and *)
(* the auxiliary dependencies not yet attached, or raises an error that    *)
(* one of the rules explains, after which the wrapper is abandoned.        *)
(***************************************************************************)
EXTENDS TaskCatalog

VARIABLES
  proc,      \* the procedure of the wrapper
  taskSet,   \* the set of attached task types
  status,    \* "building", "failed", "generated"
  err,       \* the error that escaped, or "none"
  lastCall   \* the task type of the latest add_task call

avars == <<proc, taskSet, status, err, lastCall>>

\* The types a call of add_task(T) may attach.
NewTypes(T, S) == {T} \cup (AuxClosure(T) \ S)

(***************************************************************************)
(* Rule violations that make add_task(T) fail whatever order the           *)
(* auxiliary dependencies are attached in.                                 *)
(***************************************************************************)
Blocking(T, S, p) ==
  LET N == NewTypes(T, S) IN
  \/ T \in S /\ T \notin MultiInstance
  \/ \E X \in N, A \in S : <<X, A>> \in Conflicts
  \/ \E A \in N \ {T} : <<T, A>> \in Conflicts
  \/ \E D \in Deps[T] : ~Provided(D, S \cup N)
  \/ \E X \in N \ {T} : \E D \in Deps[X] : D \notin Auxiliary
  \/ \E X \in N : ~Resolvable(X, p)

(***************************************************************************)
(* The rule an error e reports when add_task(T) raises it.                 *)
(***************************************************************************)
Explained(e, T, S, p) ==
  LET N == NewTypes(T, S) IN
  \/ e = "duplicate" /\ T \in S /\ T \notin MultiInstance
  \/ e = "conflict"  /\ \E X \in N, A \in S \cup N : <<X, A>> \in Conflicts
  \/ e = "unmet"     /\ \E X \in N : \E D \in Deps[X] : ~Provided(D, S \cup N)
  \/ e = "auxNonAux" /\ \E X \in N \ {T} : \E D \in Deps[X] : D \notin Auxiliary
  \/ e = "param"     /\ \E X \in N : ~Resolvable(X, p)

AInit ==
  /\ proc \in Procedures
  /\ taskSet = {}
  /\ status = "building"
  /\ err = "none"
  /\ lastCall \notin Public

AddOk(T) ==
  /\ status = "building"
  /\ ~Blocking(T, taskSet, proc)
  /\ taskSet' = taskSet \cup NewTypes(T, taskSet)
  /\ lastCall' = T
  /\ UNCHANGED <<proc, status, err>>

\* The exception escapes; auxiliary types attached before it stay attached.
AddFail(T) ==
  /\ status = "building"
  /\ \E e \in {"duplicate", "conflict", "unmet", "auxNonAux", "param"} :
       /\ Explained(e, T, taskSet, proc)
       /\ err' = e
  /\ taskSet \subseteq taskSet'
  /\ taskSet' \subseteq taskSet \cup NewTypes(T, taskSet)
  /\ status' = "failed"
  /\ lastCall' = T
  /\ UNCHANGED proc

AGenerate ==
  /\ status = "building"
  /\ status' = "generated"
  /\ UNCHANGED <<proc, taskSet, err, lastCall>>

ANext ==
  \/ \E T \in Public : AddOk(T) \/ AddFail(T)
  \/ AGenerate

ASpec == AInit /\ [][ANext]_avars

=============================================================================
