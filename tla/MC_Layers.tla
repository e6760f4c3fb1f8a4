------------------------------ MODULE MC_Layers ------------------------------
(***************************************************************************)
(* The C and the Fortran 2008 wrapper of one procedure, generated from the *)
(* same genes: each layer's make_wrapper_generator (generator/c and        *)
(* generator/f08 __init__.py) walks genes.tasks in order and calls         *)
(* add_task with the layer's public task type of that name, or with       *)
(* TaskTodo when the layer has none (permissive mode).  The C wrapper is  *)
(* the root Wrapper of MC_CFamily; the F08 wrapper is F08Wrapper over the *)
(* F08 catalog, with variables of its own.  The two wrappers share nothing *)
(* but the procedure and the genes, so the F08 one is built after the C    *)
(* one is generated, replaying the genes the C one received.               *)
(***************************************************************************)
EXTENDS MC_CFamily

VARIABLES
  genes,        \* the task typenames of genes.tasks, as given to the C layer
  f08Attached, f08Lsc, f08Status, f08Err, f08Calls, f08LastCall

f08vars == <<f08Attached, f08Lsc, f08Status, f08Err, f08Calls, f08LastCall>>
cvars == <<proc, attached, lsc, status, err, calls, lastCall>>
allVars == <<cvars, genes, f08vars>>

F08T == INSTANCE F08TaskClasses

F08TaskTypes == DOMAIN F08T!F08Class

\* sorted by class name, as _add_auxiliary_dependencies sorts them
F08AuxNameOrder ==
  << "TaskCollectiveCommunicationByteCalc", "TaskCommCreateWorldSelf",
     "TaskCommDestroyWorldSelf", "TaskCommHandle", "TaskGetDatatypeSize", "TaskGetIoHandle",
     "TaskGetRecvBytes", "TaskGetRecvBytesFromStatus", "TaskGetRequestId", "TaskGetSendBytes",
     "TaskRmaBytes", "TaskSaveRequestArray", "TaskUseEnvGlobals", "TaskWinHandleAtExit",
     "TaskXreqtestEnabled" >>

F08Auxiliary == {T \in F08TaskTypes : F08T!F08Class[T].aux}

\* get_public_task_types() of the F08 layer
F08PublicTypes == F08TaskTypes \ F08Auxiliary

\* the type the F08 make_wrapper_generator attaches for a gene's typename
F08TaskOf(T) == IF T \in F08PublicTypes THEN T ELSE "TaskTodo"

\* the types the F08 layer can be given for the C layer's public types
F08Public == {F08TaskOf(T) : T \in Public}

\* Every F08 procedure has the optional ierror argument.
F08Params == [p \in DOMAIN MPIParams |-> MPIParams[p] \cup {"ierror"}]

(***************************************************************************)
(* DefaultWrapper.local_variables(), and internal_ierror, the internal     *)
(* replacement of ierror that generate_declarations declares.             *)
(***************************************************************************)
F08WrapperLocals ==
  [regionHandle |-> Var("integer", FALSE, TRUE),
   event_gen_active |-> Var("logical", FALSE, TRUE),
   event_gen_active_for_group |-> Var("logical", FALSE, TRUE),
   scorep_in_measurement_save |-> Var("integer", FALSE, FALSE),
   internal_ierror |-> Var("integer", FALSE, FALSE)]

\* The F08 catalog's declarations, one table per TaskCatalog constant.
F08Deps == [T \in F08TaskTypes |-> F08T!F08Class[T].deps]
F08NeedsParams == [T \in F08TaskTypes |-> F08T!F08Class[T].needs]
F08Decls == [T \in F08TaskTypes |-> F08T!F08Class[T].locals]
F08Frags == [T \in F08TaskTypes |-> F08T!F08Class[T].frags]
F08MultiInstance == {T \in F08TaskTypes : F08T!F08Class[T].multi}
F08Conflicts ==
  {<<T, A>> \in F08TaskTypes \X F08TaskTypes : F08T!F08HasConflictWith(T, A)}

F08 == INSTANCE F08Wrapper WITH
         TaskTypes <- F08TaskTypes, Auxiliary <- F08Auxiliary,
         MultiInstance <- F08MultiInstance, Deps <- F08Deps,
         Conflicts <- F08Conflicts, Bases <- F08T!F08ClassBases,
         AuxNameOrder <- F08AuxNameOrder, Public <- F08Public, Params <- F08Params,
         NeedsParams <- F08NeedsParams, Decls <- F08Decls,
         WrapperLocals <- F08WrapperLocals, Frags <- F08Frags,
         attached <- f08Attached, lsc <- f08Lsc, status <- f08Status, err <- f08Err,
         calls <- f08Calls, lastCall <- f08LastCall

-----------------------------------------------------------------------------

LayersInit ==
  /\ Init
  /\ genes = <<>>
  /\ f08Attached = <<>> /\ f08Lsc = <<>> /\ f08Status = "building"
  /\ f08Err = NoError /\ f08Calls = 0 /\ f08LastCall = NoTask

\* The C make_wrapper_generator: add_task for the next gene.
CAddGene(T) ==
  /\ calls = Len(genes)
  /\ AddTask(T)
  /\ genes' = Append(genes, T)
  /\ UNCHANGED f08vars

\* With no genes at all, make_wrapper_generator attaches a TaskTodo.
CAddFallback ==
  /\ genes = <<>>
  /\ attached = <<>>
  /\ AddTask("TaskTodo")
  /\ UNCHANGED <<genes, f08vars>>

\* generate() of the wrapper make_wrapper_generator returned.
CGenerate ==
  /\ attached # <<>>
  /\ Generate
  /\ UNCHANGED <<genes, f08vars>>

\* The F08 make_wrapper_generator: add_task for the next of the same genes.
F08AddGene ==
  /\ status = "generated"
  /\ f08Calls < Len(genes)
  /\ F08!AddTask(F08TaskOf(genes[f08Calls + 1]))
  /\ UNCHANGED <<cvars, genes>>

F08AddFallback ==
  /\ status = "generated"
  /\ genes = <<>>
  /\ f08Attached = <<>>
  /\ F08!AddTask("TaskTodo")
  /\ UNCHANGED <<cvars, genes>>

F08Generate ==
  /\ status = "generated"
  /\ f08Calls >= Len(genes)
  /\ f08Attached # <<>>
  /\ F08!Generate
  /\ UNCHANGED <<cvars, genes>>

LayersNext ==
  \/ \E T \in Public : CAddGene(T)
  \/ CAddFallback
  \/ CGenerate
  \/ F08AddGene
  \/ F08AddFallback
  \/ F08Generate

LayersSpec == LayersInit /\ [][LayersNext]_allVars

-----------------------------------------------------------------------------

\* The properties of F08Wrapper for the F08 wrapper.
F08LocalsAssigned == F08!TaskLocalsAssignedBeforeRead
F08IerrorAssigned == F08!IerrorAssigned
F08ProducersFirst == F08!ProducersPrecedeReaders

\* FamilyLocalsAssigned for the F08 wrapper, e.g. for the F08 TaskWinFree,
\* which saves the window handle in pre_pmpi_call and reads it at exit.
F08FamilyLocalsAssigned ==
  F08!LocalViewConsistent => F08!TaskLocalsAssignedBeforeRead

\* FamilyProducersFirst for the F08 wrapper, e.g. for the F08 TaskRmaAtomic's
\* reads of the atomic byte counts TaskRmaAtomicBytesBase's subclasses give.
F08FamilyProducersFirst ==
  SingleProvidersOf(f08Attached, F08Deps, F08T!F08ClassBases)
    => F08!ProducersPrecedeReaders

(***************************************************************************)
(* The two wrappers generated from the same genes record the same events   *)
(* on the same PMPI outcome: every Score-P call a C fragment makes only    *)
(* when the call succeeded (or failed), the F08 wrapper makes on that same *)
(* outcome, and conversely (e.g. TaskFileClose destroys the I/O handle     *)
(* when MPI_File_close succeeded and reinserts it when it failed).        *)
(***************************************************************************)
OutcomesAgree ==
  status = "generated" /\ f08Status = "generated" =>
    Code!RecordedEvents(attached) = F08!Code!RecordedEvents(f08Attached)

=============================================================================
