------------------------------- MODULE CWrapper -------------------------------
(***************************************************************************)
(* DefaultWrapper.generate() (generator/c/c_wrapper.py) on top of the      *)
(* attachment resolver: when the wrapper is generated, its output is the   *)
(* fixed sequence of CWrapperSkeleton.generate, with the decorated hooks   *)
(* expanded by WrapperHooks.hook over the attached tasks.  Each part of    *)
(* the output is abstracted to its effect on the C code: the locals it     *)
(* reads and writes, and the blocks it opens and closes.  The blocks give  *)
(* each part its path condition, the set of enclosing branch conditions:   *)
(*   "event_gen_active"            if (event_gen_active) {                 *)
(*   "event_gen_active_for_group"  if (event_gen_active_for_group) {       *)
(*   "unwinding"                   } else if (SCOREP_IsUnwindingEnabled()) *)
(*   "function"                    the function body                       *)
(* and whatever a task's fragment opens.                                   *)
(***************************************************************************)
EXTENDS Wrapper, HookComposer

CONSTANT
  Frags   \* Frags[T][h]: the effect of task type T's generate_<h>

\* CWrapperSkeleton.generate
GenerateItems ==
  << Own("guard_start"), Own("pmpi_declaration"), Sub("comment"), Own("procedure_start"),
     Own("in_measurement_increment"), Own("internal_declarations"),
     Own("local_declarations"), Sub("initialization"), Sub("body"), Sub("cleanup"),
     Own("in_measurement_decrement"), Own("return"), Own("procedure_end"),
     Own("guard_end") >>

LeafHooks ==
  {"enter_if_active", "enter_if_group_active_pre", "enter_if_group_active",
   "enter_if_unwinding", "pre_pmpi_call", "post_pmpi_call", "exit_if_active",
   "exit_if_group_active", "exit_if_unwinding"}

(***************************************************************************)
(* The decorated methods of DefaultWrapper: generate_comment (post: the    *)
(* comment's end), the initialization and cleanup of the parameters, the  *)
(* body (its items given as bodyItems), the enter and exit blocks, the     *)
(* PMPI call; the other hooks yield nothing of their own.                  *)
(***************************************************************************)
Layout(bodyItems) ==
  [body |->
     ("comment" :> <<Own("comment")>>)
     @@ ("initialization" :> <<Own("parameter_init")>>)
     @@ ("body" :> bodyItems)
     @@ ("wrapper_enter" :>
           <<Own("if_event_gen_active"), Sub("enter_if_active"),
             Own("event_gen_off_if_group"), Sub("enter_if_group_active_pre"),
             Own("enter_wrapped_region"), Sub("enter_if_group_active"),
             Own("else_if_unwinding"), Own("enter_wrapper"), Sub("enter_if_unwinding"),
             Own("close_enter")>>)
     @@ ("pmpi_call" :> <<Own("pmpi_call")>>)
     @@ ("wrapper_exit" :>
           <<Own("if_event_gen_active"), Sub("exit_if_active"), Own("if_group"),
             Sub("exit_if_group_active"), Own("exit_region"), Own("else_if_unwinding"),
             Sub("exit_if_unwinding"), Own("exit_wrapper"), Own("close_exit")>>)
     @@ ("cleanup" :> <<Own("parameter_cleanup")>>)
     @@ [h \in LeafHooks |-> <<>>],
   post |-> [h \in {"comment", "initialization", "body", "wrapper_enter", "pmpi_call",
                    "wrapper_exit", "cleanup"} \cup LeafHooks |->
               IF h = "comment" THEN <<"comment_end">> ELSE <<>>]]

\* Mutant: generate_body emits post_pmpi_call before the PMPI call.
DefaultLayoutPostBeforeCall ==
  Layout(<<Sub("wrapper_enter"), Sub("pre_pmpi_call"), Sub("post_pmpi_call"),
           Sub("pmpi_call"), Sub("wrapper_exit")>>)

\* DefaultWrapper.generate_body
DefaultLayout ==
  Layout(<<Sub("wrapper_enter"), Sub("pre_pmpi_call"), Sub("pmpi_call"),
           Sub("post_pmpi_call"), Sub("wrapper_exit")>>)

\* The effect of the wrapper's own text.
OwnEffect(tag) ==
  CASE tag = "procedure_start"     -> Effect({}, {}, <<"function">>, 0)
    [] tag = "if_event_gen_active" -> Effect({"event_gen_active"}, {}, <<"event_gen_active">>, 0)
    [] tag \in {"event_gen_off_if_group", "if_group"} ->
         Effect({"event_gen_active_for_group"}, {}, <<"event_gen_active_for_group">>, 0)
    [] tag \in {"enter_wrapped_region", "enter_wrapper", "exit_region", "exit_wrapper"} ->
         Effect({"regionHandle"}, {}, <<>>, 0)
    [] tag = "else_if_unwinding"   -> Effect({}, {}, <<"unwinding">>, 1)
    [] tag \in {"close_enter", "close_exit"} -> Effect({}, {}, <<>>, 2)
    [] tag = "pmpi_call"           -> Effect({}, {"return_value"}, <<>>, 0)
    [] tag = "return"              -> Effect({"return_value"}, {}, <<>>, 0)
    [] tag = "procedure_end"       -> Effect({}, {}, <<>>, 1)
    [] OTHER                       -> NoEffect

(***************************************************************************)
(* The generated C function: the shared analysis of WrapperCode over the   *)
(* skeleton and layout of DefaultWrapper.                                  *)
(***************************************************************************)
Code == INSTANCE WrapperCode WITH Items <- GenerateItems, Lay <- DefaultLayout

-----------------------------------------------------------------------------

(***************************************************************************)
(* In the generated C function, every local a task declared is assigned   *)
(* before each fragment reads it, on every path through the enter and exit *)
(* blocks: e.g. TaskIsend reads local_request_id in the exit block, which  *)
(* TaskGetRequestId writes only in the enter block's group branch.  Relies *)
(* on the hook order of generate() and on dependencies being attached,    *)
(* hence emitted, first.                                                   *)
(***************************************************************************)
TaskLocalsAssignedBeforeRead == Code!ReadsAssigned(LocalNames \ DOMAIN WrapperLocals)

(***************************************************************************)
(* return_value, which CWrapperSkeleton declares without an initial value, *)
(* is assigned by the PMPI call on every path that reads it, in particular *)
(* before 'return return_value;'.                                          *)
(***************************************************************************)
ReturnValueAssigned == Code!ReadsAssigned({"return_value"})

\* No assignment (on any path) of the effects effs is to a local decl declares const.
ConstFree(effs, decl) ==
  \A k \in 1..Len(effs) : \A n \in Code!Assigns(effs[k]) \cap DOMAIN decl : ~decl[n].const

(***************************************************************************)
(* No fragment assigns a local that generate_local_declarations declares   *)
(* const (the C compiler rejects such a wrapper).                          *)
(***************************************************************************)
NoConstAssignment ==
  status = "generated" =>
    ConstFree(Code!Effects(Code!Output(attached), attached), AllLocalVariables(attached))

(***************************************************************************)
(* The outputs a fragment depends on are computed before it reads them: a  *)
(* local a fragment reads is assigned (on any path) by no later fragment   *)
(* of the wrapper or of a task that provides one of the reader's           *)
(* dependencies, directly or through their own (e.g. TaskIoBlocking reads *)
(* local_io_handle of TaskGetIoHandle, a dependency of its dependency      *)
(* TaskIoBegin; the RMA synchronisation tasks read the window handle of    *)
(* TaskWinHandleAtExit in the same exit block).  Relies on the attachment  *)
(* order of dependencies and on the hook each task emits its code in.      *)
(***************************************************************************)
ProducersPrecedeReaders == Code!ProducersPrecede

=============================================================================
