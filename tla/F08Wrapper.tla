------------------------------ MODULE F08Wrapper ------------------------------
(***************************************************************************)
(* DefaultWrapper.generate() of the Fortran 2008 layer                     *)
(* (generator/f08/f08_wrapper.py) on top of the attachment resolver: the   *)
(* items of F08WrapperSkeleton.generate, with the decorated hooks expanded *)
(* over the attached tasks, each part abstracted to its effect on the      *)
(* generated subroutine.  The block conditions are those of CWrapper:      *)
(*   "event_gen_active"            if (event_gen_active) then              *)
(*   "event_gen_active_for_group"  if (event_gen_active_for_group) then    *)
(*   "unwinding"                   else if (SCOREP_IsUnwindingEnabled())   *)
(*   "subroutine"                  the subroutine body                     *)
(* The Fortran locals with an initial value get it from the first part of  *)
(* generate_initialization, before any part that reads a local.           *)
(***************************************************************************)
EXTENDS Wrapper, HookComposer

CONSTANT
  Frags   \* Frags[T][h]: the effect of task type T's generate_<h>

\* F08WrapperSkeleton.generate
GenerateItems ==
  << Sub("comment"), Own("guard_start"), Own("procedure_start"), Sub("use"),
     Own("implicit_none"), Own("declarations"), Own("local_declarations"),
     Own("in_measurement_increment"), Sub("initialization"), Sub("body"), Sub("cleanup"),
     Own("in_measurement_decrement"), Own("procedure_end"), Own("guard_end") >>

LeafHooks ==
  {"use", "enter_if_active", "enter_if_group_active_pre", "enter_if_group_active",
   "enter_if_unwinding", "pre_pmpi_call", "post_pmpi_call", "exit_if_active",
   "exit_if_group_active", "exit_if_unwinding"}

(***************************************************************************)
(* The decorated methods of DefaultWrapper: generate_comment (post: '!>'), *)
(* generate_use, the initialization of the locals and then of the         *)
(* parameters, the body (its items given as bodyItems), the enter and exit *)
(* blocks, the PMPI call between scorep_enter/exit_wrapped_region, and the *)
(* cleanup that copies each optional out argument back; the other hooks    *)
(* yield nothing of their own.                                             *)
(***************************************************************************)
Layout(bodyItems) ==
  [body |->
     ("comment" :> <<Own("comment")>>)
     @@ ("use" :> <<Own("use")>>)
     @@ ("initialization" :> <<Own("local_init"), Own("parameter_init")>>)
     @@ ("body" :> bodyItems)
     @@ ("wrapper_enter" :>
           <<Own("if_event_gen_active"), Sub("enter_if_active"),
             Own("event_gen_off_if_group"), Sub("enter_if_group_active_pre"),
             Own("enter_wrapped_region"), Sub("enter_if_group_active"),
             Own("else_if_unwinding"), Own("enter_wrapper"), Sub("enter_if_unwinding"),
             Own("close_enter")>>)
     @@ ("pmpi_call" :> <<Own("pmpi_call")>>)
     @@ ("wrapper_exit" :>
           <<Own("if_event_gen_active"), Sub("exit_if_active"), Own("if_group"),
             Sub("exit_if_group_active"), Own("exit_region"), Own("else_if_unwinding"),
             Sub("exit_if_unwinding"), Own("exit_wrapper"), Own("close_exit")>>)
     @@ ("cleanup" :> <<Own("parameter_cleanup")>>)
     @@ [h \in LeafHooks \ {"use"} |-> <<>>],
   post |-> [h \in {"comment", "initialization", "body", "wrapper_enter", "pmpi_call",
                    "wrapper_exit", "cleanup"} \cup LeafHooks |->
               IF h = "comment" THEN <<"comment_end">> ELSE <<>>]]

\* Mutant: generate_body emits the exit block before the PMPI call.
DefaultLayoutExitBeforeCall ==
  Layout(<<Sub("wrapper_enter"), Sub("pre_pmpi_call"), Sub("wrapper_exit"),
           Sub("pmpi_call"), Sub("post_pmpi_call")>>)

\* DefaultWrapper.generate_body
DefaultLayout ==
  Layout(<<Sub("wrapper_enter"), Sub("pre_pmpi_call"), Sub("pmpi_call"),
           Sub("post_pmpi_call"), Sub("wrapper_exit")>>)

(***************************************************************************)
(* The effect of the wrapper's own text.  The PMPI call passes the         *)
(* internal replacements of the arguments, so it assigns internal_ierror;  *)
(* the cleanup copies internal_ierror to ierror when ierror is present.    *)
(* The local initializations are counted as the declarations' initial     *)
(* values (Var's init) and left out here.                                  *)
(***************************************************************************)
OwnEffect(tag) ==
  CASE tag = "procedure_start"     -> Effect({}, {}, <<"subroutine">>, 0)
    [] tag = "if_event_gen_active" -> Effect({"event_gen_active"}, {}, <<"event_gen_active">>, 0)
    [] tag \in {"event_gen_off_if_group", "if_group"} ->
         Effect({"event_gen_active_for_group"}, {}, <<"event_gen_active_for_group">>, 0)
    [] tag \in {"enter_wrapped_region", "enter_wrapper", "exit_region", "exit_wrapper"} ->
         Effect({"regionHandle"}, {}, <<>>, 0)
    [] tag = "else_if_unwinding"   -> Effect({}, {}, <<"unwinding">>, 1)
    [] tag \in {"close_enter", "close_exit"} -> Effect({}, {}, <<>>, 2)
    [] tag = "pmpi_call" ->
         Effect({}, {"scorep_in_measurement_save", "internal_ierror"}, <<>>, 0)
    [] tag = "parameter_cleanup"   -> Effect({"internal_ierror"}, {}, <<>>, 0)
    [] tag = "procedure_end"       -> Effect({}, {}, <<>>, 1)
    [] OTHER                       -> NoEffect

\* The generated subroutine: WrapperCode over DefaultWrapper's skeleton.
Code == INSTANCE WrapperCode WITH Items <- GenerateItems, Lay <- DefaultLayout

-----------------------------------------------------------------------------

(***************************************************************************)
(* In the generated subroutine every local a task declared is assigned     *)
(* before each fragment reads it, on every path: the point-to-point byte   *)
(* counters, which have no initial value in Fortran, are assigned under    *)
(* the same test on dest or source as their readers; the request id is     *)
(* fetched in the enter block's group branch before the exit block reads  *)
(* it.                                                                     *)
(***************************************************************************)
TaskLocalsAssignedBeforeRead == Code!ReadsAssigned(LocalNames \ DOMAIN WrapperLocals)

(***************************************************************************)
(* internal_ierror, which has no initial value, is assigned by the PMPI    *)
(* call on every path that reads it: the tasks' tests of the PMPI result   *)
(* and the cleanup's copy to the optional ierror argument.                 *)
(***************************************************************************)
IerrorAssigned == Code!ReadsAssigned({"internal_ierror"})

(***************************************************************************)
(* The locals a fragment reads are assigned by no later fragment of the    *)
(* wrapper or of a provider of its dependencies.                           *)
(***************************************************************************)
ProducersPrecedeReaders == Code!ProducersPrecede

=============================================================================
