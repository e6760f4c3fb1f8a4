----------------------------- MODULE MC_CFamily -----------------------------
(***************************************************************************)
(* DefaultWrapper with the public task types of some source files of       *)
(* generator/c/wrapper_tasks (with TaskDefault and TaskTodo), on the MPI   *)
(* procedures those tasks instrument.                                      *)
(***************************************************************************)
EXTENDS MC_CWrapper

CONSTANT Family   \* a set of fields of CFamily

FPublicAll == UNION {FamilyPublic(f) : f \in Family}

\* TaskCommCreateRequest is left to run comm_idup_request_id_uninit.
FPublic == FPublicAll \ {"TaskCommCreateRequest"}

FProcedures == UNION {FamilyProcedures[f] : f \in Family}

(***************************************************************************)
(* The RMA tasks can provide one dependency twice: TaskRmaGet needs        *)
(* TaskRmaRequestTrackingBase, which the base class and both of its        *)
(* subclasses provide, and nothing stops a second tracker after TaskRmaGet.*)
(* The properties below hold where every dependency of an attached task   *)
(* has one provider and every task sees the merged declarations of its    *)
(* locals; runs rma_second_tracker and win_create_handle_uninit show what *)
(* happens otherwise.                                                      *)
(***************************************************************************)
SingleProvidersOf(seq, deps, bases) ==
  \A k \in 1..Len(seq) : \A D \in deps[seq[k]] :
    \A i, j \in 1..Len(seq) :
      D \in bases[seq[i]] /\ D \in bases[seq[j]] => i = j

SingleProviders == SingleProvidersOf(attached, Deps, Bases)

\* TaskLocalsAssignedBeforeRead, e.g. for TaskWinFree's read of the handle
\* it saves in pre_pmpi_call, under merged declarations every task saw.
FamilyLocalsAssigned == LocalViewConsistent => TaskLocalsAssignedBeforeRead

\* ProducersPrecedeReaders, e.g. for TaskRmaAtomic's reads of the atomic
\* byte counts and the matching id, where each dependency has one provider.
FamilyProducersFirst == SingleProviders => ProducersPrecedeReaders


(***************************************************************************)
(* TLC evaluates a definition substituted for a constant in a .cfg at each *)
(* use of the constant, but a constant-level definition only once: the    *)
(* .cfg files substitute the following names, each naming a table above.  *)
(***************************************************************************)
MCFPublic == FPublic
MCFPublicAll == FPublicAll
MCFProcedures == FProcedures

=============================================================================
