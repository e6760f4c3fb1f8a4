------------------------------ MODULE PrintTasks ------------------------------
(***************************************************************************)
(* print_tasks (generator/print_tasks.py): for every public task type of a *)
(* layer, in name order, a fresh DependencyTracker (a Wrapper whose tasks  *)
(* resolve no parameter aliases) gets add_task for each non-auxiliary      *)
(* dependency of the type that is not yet attached, iterating the set      *)
(* dependencies() returns, then add_task for the type itself; the tracker  *)
(* then lists the attached tasks but the last as the type's dependencies.  *)
(* The iteration order of a set of classes follows their hashes, which    *)
(* differ from run to run: the model lets it be any order.  Nothing       *)
(* catches a TaskDependencyError, so the first one ends the listing.      *)
(***************************************************************************)
EXTENDS TaskCatalog, Sequences, SequencesExt

CONSTANT
  PublicNameOrder   \* get_public_task_types(), sorted by name

VARIABLES
  cur,       \* the index in PublicNameOrder of the type being listed
  dt,        \* the DependencyTracker: attached types and the error raised
  pending,   \* the dependencies of the type the loop has not visited yet
  listed,    \* the entries printed: the type and its listed dependencies
  status     \* "listing", "raised" (an error escaped), "done"

ptVars == <<cur, dt, pending, listed, status>>

\* A Wrapper whose task construction resolves no parameter aliases
\* (CTask.__init__ and F08Task.__init__ skip it for a DependencyTracker).
Tracker == INSTANCE Wrapper WITH
             NeedsParams <- [T \in TaskTypes |-> {}], Procedures <- {"none"},
             Params <- ("none" :> {}), proc <- "none", MaxCalls <- 0, NoTask <- "none",
             attached <- <<>>, lsc <- <<>>, status <- "building", err <- "none",
             calls <- 0, lastCall <- "none"

NewTracker == [att |-> <<>>, sc |-> <<>>, err |-> Tracker!NoError]

\* dt.add_task(task_type=T)
TrackerAdd(r, T) == Tracker!AddWithAuxiliaries(r, T)

Raised(r) == r.err # Tracker!NoError

PTInit ==
  /\ listed = <<>>
  /\ dt = NewTracker
  /\ IF PublicNameOrder = <<>>
     THEN cur = 0 /\ pending = {} /\ status = "done"
     ELSE cur = 1 /\ pending = Deps[PublicNameOrder[1]] /\ status = "listing"

\* Mutant: every dependency is added, auxiliary or already attached.
AddDependencyUnfiltered(D) ==
  /\ status = "listing"
  /\ D \in pending
  /\ pending' = pending \ {D}
  /\ dt' = TrackerAdd(dt, D)
  /\ status' = IF Raised(TrackerAdd(dt, D)) THEN "raised" ELSE "listing"
  /\ UNCHANGED <<cur, listed>>

\* Lines 79-81: one iteration of the loop over task_type.dependencies(),
\* with D the element the set yields next.
AddDependency(D) ==
  /\ status = "listing"
  /\ D \in pending
  /\ pending' = pending \ {D}
  /\ LET r == IF D \notin Auxiliary /\ D \notin Range(dt.att) THEN TrackerAdd(dt, D) ELSE dt
     IN  /\ dt' = r
         /\ status' = IF Raised(r) THEN "raised" ELSE "listing"
  /\ UNCHANGED <<cur, listed>>

(***************************************************************************)
(* Lines 83-101: add_task for the type itself, then the entry is printed   *)
(* (attached_tasks()[:-1] as its dependencies) and the next type begins.  *)
(***************************************************************************)
AddListedType ==
  /\ status = "listing"
  /\ pending = {}
  /\ LET T == PublicNameOrder[cur]
         r == TrackerAdd(dt, T)
     IN  IF Raised(r)
         THEN /\ dt' = r /\ status' = "raised" /\ UNCHANGED <<cur, pending, listed>>
         ELSE /\ listed' = Append(listed, [type |-> T, deps |-> Front(r.att)])
              /\ IF cur = Len(PublicNameOrder)
                 THEN /\ status' = "done" /\ dt' = r /\ UNCHANGED <<cur, pending>>
                 ELSE /\ cur' = cur + 1
                      /\ dt' = NewTracker
                      /\ pending' = Deps[PublicNameOrder[cur + 1]]
                      /\ UNCHANGED status

PTNext ==
  \/ \E D \in TaskTypes : AddDependency(D)
  \/ AddListedType

PTSpec == PTInit /\ [][PTNext]_ptVars /\ WF_ptVars(PTNext)

-----------------------------------------------------------------------------

(***************************************************************************)
(* print_tasks lists every public type of the layer: whatever order the   *)
(* dependency sets are iterated in, no TaskDependencyError escapes the     *)
(* trackers (e.g. a non-auxiliary dependency added before a non-auxiliary  *)
(* dependency of its own), and the listing eventually ends with an entry   *)
(* for each type.                                                          *)
(***************************************************************************)
ListingCompletes ==
  <>(status = "done" /\ [i \in 1..Len(listed) |-> listed[i].type] = PublicNameOrder)

=============================================================================
