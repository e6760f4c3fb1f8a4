------------------------------ MODULE TaskClass ------------------------------
(***************************************************************************)
(* A task class of either binding layer (generator/task.py), as a record:  *)
(*   aux    derives from AuxiliaryTaskMixin                                *)
(*   multi  allow_multiple_instances()                                     *)
(*   deps   dependencies()                                                 *)
(*   needs  needs_parameter_names(): one set of candidate names per alias *)
(*   locals needs_local_variables(): name -> declaration                   *)
(*   frags  its generate_<hook> methods: hook -> the effect of the code    *)
(*          the method yields (HookComposer's Effect)                      *)
(***************************************************************************)
EXTENDS HookComposer

\* A local's declaration: its type, whether it is const, whether it has an
\* initial value.
Var(type, const, init) == [type |-> type, const |-> const, init |-> init]

\* A fragment that reads, writes on every path, and writes on some paths.
FragMay(reads, writes, may) == [Effect(reads, writes, <<>>, 0) EXCEPT !.may = may]

Frag(reads, writes) == FragMay(reads, writes, {})

\* A fragment whose whole code is inside its own 'if' on the conditions g.
Guarded(g, frag) == [frag EXCEPT !.guard = g]

\* A fragment that records the events evs, pairs <<event, PMPI outcome>>:
\* the Score-P calls it makes only when the PMPI call succeeded, or failed.
Records(evs, frag) == [frag EXCEPT !.events = evs]

OnSuccess(ev) == <<ev, "success">>
OnFailure(ev) == <<ev, "failure">>

NoLocals == [n \in {} |-> Var("", FALSE, FALSE)]

Class(aux, deps, needs, locals, frags) ==
  [aux |-> aux, multi |-> FALSE, deps |-> deps, needs |-> needs,
   locals |-> locals, frags |-> frags]

=============================================================================
