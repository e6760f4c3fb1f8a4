----------------------------- MODULE WrapperCode -----------------------------
(***************************************************************************)
(* The generated code of a wrapper, for either binding layer: the parts    *)
(* generate() yields for the attached tasks (the layer's skeleton items    *)
(* and decorated hooks, expanded by WrapperHooks.hook), each abstracted to *)
(* its effect on the generated procedure: the locals it reads and writes,  *)
(* and the blocks it opens and closes.  The blocks give each part its path *)
(* condition, the set of enclosing branch conditions.  A layer module      *)
(* (CWrapper, F08Wrapper) instantiates this module with its skeleton, its  *)
(* layout and the effect of its own text.                                  *)
(***************************************************************************)
EXTENDS Wrapper, HookComposer

CONSTANTS
  Frags,         \* Frags[T][h]: the effect of task type T's generate_<h>
  Items,         \* the items of the skeleton's generate()
  Lay,           \* the layout of the wrapper class (HookComposer)
  OwnEffect(_)   \* OwnEffect(tag): the effect of a part of the wrapper's text

\* hasattr(task, 'generate_<h>') for each attached task
HooksOf(att) == [i \in 1..Len(att) |-> DOMAIN Frags[att[i]]]

\* The parts generate() yields for the attached tasks att.
Output(att) == Expand(Items, Lay, HooksOf(att))

PartEffect(part, att) ==
  IF part.owner = 0 THEN OwnEffect(part.name) ELSE Frags[att[part.owner]][part.name]

\* The effect of each part of out, in order.
Effects(out, att) == [k \in 1..Len(out) |-> PartEffect(out[k], att)]

(***************************************************************************)
(* The blocks open at each part: a part first closes its blocks, runs in   *)
(* the remaining ones (its context) and leaves its opened blocks to the    *)
(* following parts.  ok records that no part closed a block not open.     *)
(***************************************************************************)
ScanStep(acc, e) ==
  LET inner == SubSeq(acc.open, 1, Len(acc.open) - e.closes)
  IN  [open |-> inner \o e.opens,
       ctx  |-> Append(acc.ctx, Range(inner)),
       ok   |-> acc.ok /\ e.closes <= Len(acc.open)]

RECURSIVE ScanFrom(_, _, _)
ScanFrom(effs, k, acc) ==
  IF k > Len(effs) THEN acc ELSE ScanFrom(effs, k + 1, ScanStep(acc, effs[k]))

BlockScan(effs) == ScanFrom(effs, 1, [open |-> <<>>, ctx |-> <<>>, ok |-> TRUE])

(***************************************************************************)
(* Local n is assigned before part k runs on every path reaching it: its   *)
(* declaration gives it an initial value, or an earlier part writes it     *)
(* unconditionally on a path condition (its context and its own guard)    *)
(* that part k's path condition includes.                                  *)
(***************************************************************************)
PathOf(k, effs, scan) == scan.ctx[k] \cup effs[k].guard

AssignedBefore(n, k, effs, scan, decl) ==
  \/ decl[n].init
  \/ \E j \in 1..(k - 1) :
       /\ n \in effs[j].writes
       /\ PathOf(j, effs, scan) \subseteq PathOf(k, effs, scan)

\* Every read of a local in names is of a declared local assigned before it.
ReadsAssignedIn(names, effs, scan, decl) ==
  \A k \in 1..Len(effs) :
    \A n \in effs[k].reads \cap names :
      n \in DOMAIN decl /\ AssignedBefore(n, k, effs, scan, decl)

ReadsAssigned(names) ==
  status = "generated" =>
    ReadsAssignedIn(names, Effects(Output(attached), attached),
                    BlockScan(Effects(Output(attached), attached)),
                    AllLocalVariables(attached))

\* The events the parts with effects effs record conditionally on the PMPI result.
EventsOf(effs) == UNION {effs[k].events : k \in 1..Len(effs)}

RecordedEvents(att) == EventsOf(Effects(Output(att), att))

RECURSIVE DepClosure(_)
DepClosure(T) == Deps[T] \cup UNION {DepClosure(D) : D \in Deps[T]}

Assigns(e) == e.writes \cup e.may

\* Part owner o is the wrapper or a provider of a dependency of owner i;
\* every task is upstream of the wrapper's own text (owner 0).
Upstream(o, i, att) ==
  \/ o = 0
  \/ i = 0
  \/ o # i /\ Bases[att[o]] \cap DepClosure(att[i]) # {}

\* No local a part reads is assigned by a later part upstream of it.
ProducersPrecedeIn(out, effs) ==
  \A k \in 1..Len(out) :
    effs[k].reads # {} =>
    \A j \in k..Len(out) :
      effs[k].reads \cap Assigns(effs[j]) # {}
        => ~Upstream(out[j].owner, out[k].owner, attached)

ProducersPrecede ==
  status = "generated" =>
    ProducersPrecedeIn(Output(attached), Effects(Output(attached), attached))

=============================================================================
