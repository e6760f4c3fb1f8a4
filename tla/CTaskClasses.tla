---------------------------- MODULE CTaskClasses ----------------------------
(***************************************************************************)
(* The task classes of the C binding layer (generator/c/wrapper_tasks)     *)
(* that the C models use: the point-to-point tasks and their byte counters,*)
(* the request, I/O and RMA tasks, the common tasks.  A class is a record: *)
(*   aux    derives from AuxiliaryTaskMixin                                *)
(*   multi  allow_multiple_instances()                                     *)
(*   deps   dependencies()                                                 *)
(*   bases  the task classes of its inheritance chain                      *)
(*   needs  needs_parameter_names(): one set of candidate names per alias *)
(*   locals needs_local_variables(): name -> declaration                   *)
(*   frags  its generate_<hook> methods: hook -> the effect of the C code *)
(*          the method yields (HookComposer's Effect)                      *)
(* A declaration keeps what C makes of it: const-ness and whether it has  *)
(* an initial value; its type is kept as a name.  The records are built   *)
(* with the constructors of TaskClass.                                     *)
(***************************************************************************)

EXTENDS TLC, TaskClass

\* common.py
TaskDefault ==
  Class(FALSE, {}, {}, NoLocals, [comment |-> Frag({}, {})])

TaskTodo ==
  [Class(FALSE, {}, {}, NoLocals, [comment |-> Frag({}, {})]) EXCEPT !.multi = TRUE]

\* Mutant: the request id is fetched inside a branch, not on every path.
TaskGetRequestIdMay ==
  Class(TRUE, {}, {},
        [local_request_id |-> Var("SCOREP_MpiRequestId", FALSE, FALSE)],
        [enter_if_group_active |-> FragMay({}, {}, {"local_request_id"})])

TaskGetRequestId ==
  Class(TRUE, {}, {},
        [local_request_id |-> Var("SCOREP_MpiRequestId", FALSE, FALSE)],
        [enter_if_group_active |-> Frag({}, {"local_request_id"})])

\* p2p.py
TaskSend ==
  Class(FALSE, {"TaskGetSendBytes", "TaskCommHandle"},
        {{"dest"}, {"comm"}, {"sendtag", "tag"}}, NoLocals,
        [enter_if_group_active |-> Frag({"local_comm_handle", "local_send_bytes"}, {})])

TaskRecv ==
  Class(FALSE, {"TaskGetRecvBytesFromStatus", "TaskCommHandle"},
        {{"source"}, {"comm"}, {"status"}}, NoLocals,
        [exit_if_group_active |->
           Records({OnSuccess("mpi_recv")},
             Frag({"return_value", "local_comm_handle", "local_recv_bytes"}, {}))])

TaskIsend ==
  Class(FALSE, {"TaskGetSendBytes", "TaskCommHandle", "TaskGetRequestId"},
        {{"dest"}, {"comm"}, {"request"}, {"sendtag", "tag"}, {"sendtype", "datatype"}},
        NoLocals,
        [enter_if_group_active |->
           Frag({"local_comm_handle", "local_send_bytes", "local_request_id"}, {}),
         exit_if_group_active |->
           Records({OnSuccess("request_create")},
             Frag({"return_value", "local_send_bytes", "local_request_id"}, {}))])

TaskIrecv ==
  Class(FALSE, {"TaskGetRecvBytes", "TaskCommHandle", "TaskGetRequestId"},
        {{"source"}, {"comm"}, {"request"}, {"tag"}, {"recvtype", "datatype"}},
        NoLocals,
        [exit_if_group_active |->
           Records({OnSuccess("irecv_request"), OnSuccess("request_create")},
             Frag({"return_value", "local_request_id", "local_recv_bytes"}, {}))])

TaskCommHandle ==
  Class(TRUE, {}, {{"comm"}},
        [local_comm_handle |-> Var("SCOREP_InterimCommunicatorHandle", TRUE, TRUE)],
        [h \in {} |-> Frag({}, {})])

TaskGetSendBytes ==
  Class(TRUE, {}, {{"dest"}, {"sendtype", "datatype"}, {"sendcount", "count"}},
        [local_send_bytes |-> Var("uint64_t", FALSE, TRUE),
         local_send_type_size |-> Var("int", FALSE, TRUE)],
        [enter_if_group_active |->
           FragMay({}, {}, {"local_send_bytes", "local_send_type_size"})])

TaskGetRecvBytesFromStatus ==
  Class(TRUE, {}, {{"source"}, {"status"}, {"recvtype", "datatype"}},
        [local_recv_bytes |-> Var("uint64_t", FALSE, TRUE),
         local_recv_type_size |-> Var("int", FALSE, TRUE),
         local_recv_count |-> Var("int", FALSE, TRUE)],
        [exit_if_group_active |->
           FragMay({"return_value"}, {},
                   {"local_recv_bytes", "local_recv_type_size", "local_recv_count"})])

TaskGetRecvBytes ==
  Class(TRUE, {}, {{"source"}, {"recvcount", "count"}, {"recvtype", "datatype"}},
        [local_recv_bytes |-> Var("uint64_t", FALSE, TRUE),
         local_recv_type_size |-> Var("int", FALSE, TRUE)],
        [exit_if_group_active |->
           FragMay({"return_value"}, {}, {"local_recv_bytes", "local_recv_type_size"})])

\* comms_groups.py
TaskCommFree ==
  Class(FALSE, {}, {{"comm"}},
        [local_comm_handle |-> Var("SCOREP_InterimCommunicatorHandle", FALSE, FALSE)],
        [initialization |-> Frag({}, {"local_comm_handle"}),
         enter_if_group_active |-> Frag({}, {}),
         pre_pmpi_call |-> Frag({}, {}),
         exit_if_group_active |-> Frag({"local_comm_handle"}, {})])

\* requests.py
TaskXreqtestEnabled ==
  Class(TRUE, {}, {}, [xreqtest_enabled |-> Var("int", TRUE, TRUE)],
        [h \in {} |-> Frag({}, {})])

TaskWait ==
  Class(FALSE, {"TaskSaveRequestArray", "TaskXreqtestEnabled"}, {{"status"}}, NoLocals,
        [post_pmpi_call |-> Frag({}, {})])

TaskRequestFree ==
  Class(FALSE, {}, {{"request"}}, [local_got_null_request |-> Var("int", TRUE, TRUE)],
        [pre_pmpi_call |->
           [Frag({"local_got_null_request"}, {}) EXCEPT !.opens = <<"request_live">>],
         post_pmpi_call |-> [Frag({}, {}) EXCEPT !.closes = 1]])

TaskSaveRequestArray ==
  Class(TRUE, {}, {{"request", "array_of_requests"}}, NoLocals,
        [pre_pmpi_call |-> Frag({}, {})])

\* io.py
TaskGetIoHandle ==
  Class(TRUE, {}, {{"fh"}},
        [local_io_handle |-> Var("SCOREP_IoHandleHandle", FALSE, TRUE)],
        [enter_if_group_active |-> Frag({}, {"local_io_handle"})])

\* Mutant: the datatype size is computed in the exit block.
TaskGetDatatypeSizeAtExit ==
  Class(TRUE, {}, {{"datatype"}}, [local_datatype_size |-> Var("uint64_t", FALSE, TRUE)],
        [exit_if_group_active |-> Frag({}, {"local_datatype_size"})])

TaskGetDatatypeSize ==
  Class(TRUE, {}, {{"datatype"}}, [local_datatype_size |-> Var("uint64_t", FALSE, TRUE)],
        [enter_if_group_active |-> Frag({}, {"local_datatype_size"})])

TaskIoBegin ==
  Class(FALSE, {"TaskGetRequestId", "TaskGetDatatypeSize", "TaskGetIoHandle"},
        {{"count"}}, NoLocals,
        [enter_if_group_active |->
           Frag({"local_io_handle", "local_datatype_size", "local_request_id"}, {})])

\* local_count is written by PMPI_Get_count before it is read, inside the
\* branch that reads it.
TaskIoBlocking ==
  Class(FALSE, {"TaskIoBegin"}, {{"status"}, {"datatype"}},
        [local_count |-> Var("int", FALSE, TRUE)],
        [exit_if_group_active |->
           FragMay({"local_io_handle", "local_datatype_size", "local_request_id"}, {},
                   {"local_count"})])

\* rma.py
TaskRmaRequestTrackingBase ==
  Class(FALSE, {}, {{"win"}},
        [local_rma_request |-> Var("scorep_mpi_rma_request*", FALSE, TRUE),
         local_win_handle |-> Var("SCOREP_RmaWindowHandle", FALSE, FALSE),
         local_matching_id |-> Var("SCOREP_MpiRequestId", FALSE, TRUE)],
        [initialization |-> Frag({}, {"local_win_handle"})])

\* A subclass of TaskRmaRequestTrackingBase: its locals and its
\* initialization are inherited.
TaskRmaRequestTrackingExplicit ==
  [TaskRmaRequestTrackingBase EXCEPT
     !.needs = {{"win"}, {"target_rank"}, {"request"}},
     !.frags = [initialization |-> TaskRmaRequestTrackingBase.frags.initialization,
                enter_if_group_active |-> Frag({}, {"local_matching_id"}),
                exit_if_group_active |->
                  FragMay({"local_win_handle", "local_matching_id"}, {}, {"local_rma_request"})]]

\* Mutant: the origin bytes are computed in the exit block.
TaskRmaBytesAtExit ==
  Class(TRUE, {}, {{"target_rank"}, {"origin_datatype"}, {"origin_count"}},
        [local_origin_bytes |-> Var("uint64_t", FALSE, TRUE)],
        [exit_if_group_active |-> FragMay({}, {}, {"local_origin_bytes"})])

TaskRmaBytes ==
  Class(TRUE, {}, {{"target_rank"}, {"origin_datatype"}, {"origin_count"}},
        [local_origin_bytes |-> Var("uint64_t", FALSE, TRUE)],
        [enter_if_group_active |-> FragMay({}, {}, {"local_origin_bytes"})])

TaskRmaGet ==
  Class(FALSE, {"TaskRmaRequestTrackingBase", "TaskRmaBytes"}, {{"target_rank"}}, NoLocals,
        [enter_if_group_active |->
           Frag({"local_win_handle", "local_origin_bytes", "local_matching_id"}, {})])

\* common.py: UTILS_FATAL in the initialization
TaskFatal ==
  Class(FALSE, {}, {}, NoLocals, [comment |-> Frag({}, {}), initialization |-> Frag({}, {})])

\* p2p.py: the persistent requests
TaskSendInit ==
  Class(FALSE, {"TaskGetSendBytes", "TaskGetRequestId"},
        {{"dest"}, {"comm"}, {"request"}, {"tag"}, {"datatype"}}, NoLocals,
        [exit_if_group_active |->
           Records({OnSuccess("request_create")},
             Frag({"return_value", "local_send_bytes", "local_request_id"}, {}))])

TaskRecvInit ==
  Class(FALSE, {"TaskGetRecvBytes", "TaskGetRequestId"},
        {{"source"}, {"comm"}, {"request"}, {"tag"}, {"datatype"}}, NoLocals,
        [exit_if_group_active |->
           Records({OnSuccess("request_create")},
             Frag({"return_value", "local_recv_bytes", "local_request_id"}, {}))])

\* requests.py: the completion calls check the requests after the PMPI call;
\* those that test read the group and xreqtest switches.
CompletionClass(needs, tests) ==
  Class(FALSE, {"TaskSaveRequestArray", "TaskXreqtestEnabled"}, needs, NoLocals,
        [post_pmpi_call |->
           Frag(IF tests THEN {"event_gen_active_for_group", "xreqtest_enabled"} ELSE {}, {})])

TaskWaitall  == CompletionClass({{"count"}, {"array_of_statuses"}}, FALSE)
TaskWaitany  == CompletionClass({{"index"}, {"count"}, {"status"}}, TRUE)
TaskTestWaitSome ==
  CompletionClass({{"incount"}, {"outcount"}, {"array_of_indices"}, {"array_of_statuses"}}, TRUE)
TaskTest     == CompletionClass({{"flag"}, {"status"}}, TRUE)
TaskTestall  == CompletionClass({{"count"}, {"flag"}, {"array_of_statuses"}}, TRUE)
TaskTestany  == CompletionClass({{"count"}, {"flag"}, {"status"}, {"index"}}, TRUE)

TaskStart ==
  Class(FALSE, {}, {{"request"}}, NoLocals, [enter_if_group_active |-> Frag({}, {})])

TaskStartall ==
  Class(FALSE, {}, {{"count"}, {"array_of_requests"}}, NoLocals,
        [enter_if_group_active |-> Frag({}, {})])

\* local_scorep_req is assigned by scorep_mpi_request_get before its uses.
TaskRequestGetStatus ==
  Class(FALSE, {"TaskXreqtestEnabled"}, {{"request"}, {"flag"}, {"status"}},
        [local_scorep_req |-> Var("scorep_mpi_request*", FALSE, FALSE)],
        [post_pmpi_call |->
           Frag({"event_gen_active_for_group", "xreqtest_enabled"}, {"local_scorep_req"})])

\* Mutant: the request is marked cancelled before scorep_mpi_request_get.
TaskCancelUseBeforeGet ==
  Class(FALSE, {}, {{"request"}},
        [local_scorep_req |-> Var("scorep_mpi_request*", FALSE, FALSE)],
        [pre_pmpi_call |-> Frag({"local_scorep_req"}, {"local_scorep_req"})])

TaskCancel ==
  Class(FALSE, {}, {{"request"}},
        [local_scorep_req |-> Var("scorep_mpi_request*", FALSE, FALSE)],
        [pre_pmpi_call |-> Frag({}, {"local_scorep_req"})])

\* io.py: the file handle management
TaskFileOpen ==
  Class(FALSE, {}, {{"comm"}, {"filename"}, {"amode"}, {"fh"}},
        [local_comm_handle |-> Var("SCOREP_InterimCommunicatorHandle", FALSE, FALSE),
         local_unify_key |-> Var("uint32_t", FALSE, TRUE),
         local_file |-> Var("SCOREP_IoFileHandle", FALSE, FALSE),
         local_io_handle |-> Var("SCOREP_IoHandleHandle", FALSE, FALSE)],
        [enter_if_group_active |-> Frag({}, {"local_comm_handle", "local_unify_key"}),
         exit_if_group_active |->
           Records({OnSuccess("io_handle_complete"), OnFailure("io_handle_drop")},
             FragMay({"return_value", "local_unify_key"}, {}, {"local_file", "local_io_handle"}))])

TaskFileClose ==
  Class(FALSE, {}, {{"fh"}},
        [local_amode |-> Var("int", FALSE, FALSE),
         local_io_handle |-> Var("SCOREP_IoHandleHandle", FALSE, TRUE),
         local_file |-> Var("SCOREP_IoFileHandle", FALSE, FALSE)],
        [enter_if_group_active |-> Frag({}, {"local_io_handle", "local_amode"}),
         exit_if_group_active |->
           Records({OnSuccess("io_handle_destroy"), OnFailure("io_handle_reinsert")},
             FragMay({"local_io_handle", "return_value", "local_amode"}, {}, {"local_file"}))])

\* local_pos is assigned by PMPI_File_get_position before SCOREP_IoSeek.
TaskFileSeek ==
  Class(FALSE, {}, {{"fh"}, {"offset"}, {"whence"}},
        [local_io_handle |-> Var("SCOREP_IoHandleHandle", FALSE, TRUE),
         local_pos |-> Var("MPI_Offset", FALSE, FALSE)],
        [enter_if_group_active |-> Frag({}, {"local_io_handle"}),
         exit_if_group_active |-> FragMay({"local_io_handle"}, {}, {"local_pos"})])

TaskFileDelete ==
  Class(FALSE, {}, {{"filename"}}, [local_file |-> Var("SCOREP_IoFileHandle", FALSE, TRUE)],
        [enter_if_group_active |-> Frag({}, {"local_file"}),
         exit_if_group_active |-> Frag({"local_file"}, {})])

TaskIoNonBlocking ==
  Class(FALSE, {"TaskIoBegin"}, {{"request"}, {"datatype"}, {"count"}, {"fh"}}, NoLocals,
        [exit_if_group_active |->
           Records({OnSuccess("io_issued"), OnSuccess("request_create")},
             Frag({"return_value", "local_io_handle", "local_request_id",
                   "local_datatype_size"}, {}))])

TaskIoSplitBegin ==
  Class(FALSE, {"TaskIoBegin"}, {{"datatype"}}, NoLocals,
        [exit_if_group_active |->
           Records({OnSuccess("io_split_begin"), OnSuccess("io_issued")},
             Frag({"return_value", "local_io_handle", "local_request_id"}, {}))])

\* scorep_mpi_io_split_end assigns the request id and the datatype of the
\* split collective's begin call before they are read.
TaskIoSplitEnd ==
  Class(FALSE, {"TaskGetIoHandle"}, {{"status"}},
        [local_count |-> Var("int", FALSE, TRUE),
         local_datatype |-> Var("MPI_Datatype", FALSE, TRUE),
         local_request_id |-> Var("SCOREP_MpiRequestId", FALSE, FALSE)],
        [exit_if_group_active |->
           Records({OnSuccess("io_split_end")},
             FragMay({"return_value", "local_io_handle"}, {},
                     {"local_request_id", "local_datatype", "local_count"}))])

\* rma.py: window creation and destruction
TaskWinCreate ==
  Class(FALSE, {}, {{"comm"}, {"win"}},
        [local_win_handle |-> Var("SCOREP_RmaWindowHandle", FALSE, TRUE)],
        [comment |-> Frag({}, {}),
         enter_if_group_active |-> Frag({}, {}),
         exit_if_group_active |-> FragMay({"local_win_handle"}, {}, {"local_win_handle"})])

\* A subclass of TaskWinCreate: before_collective_end reads the return value.
TaskWinAllocate ==
  [TaskWinCreate EXCEPT
     !.needs = {{"comm"}, {"win"}, {"baseptr"}, {"size"}},
     !.frags = [comment |-> Frag({}, {}),
                enter_if_group_active_pre |-> Frag({}, {}),
                enter_if_group_active |-> Frag({}, {}),
                exit_if_group_active |->
                  FragMay({"local_win_handle", "return_value"}, {}, {"local_win_handle"})]]

\* Mutant: the handle is saved only for a window that is not MPI_WIN_NULL.
TaskWinFreeMaySave ==
  Class(FALSE, {}, {{"win"}},
        [local_win_handle |-> Var("SCOREP_RmaWindowHandle", FALSE, FALSE),
         local_collective_type |-> Var("SCOREP_CollectiveType", FALSE, TRUE)],
        [enter_if_group_active |-> Frag({}, {"local_collective_type"}),
         pre_pmpi_call |-> FragMay({}, {}, {"local_win_handle"}),
         exit_if_group_active |-> Frag({"local_win_handle", "local_collective_type"}, {})])

TaskWinFree ==
  Class(FALSE, {}, {{"win"}},
        [local_win_handle |-> Var("SCOREP_RmaWindowHandle", FALSE, FALSE),
         local_collective_type |-> Var("SCOREP_CollectiveType", FALSE, TRUE)],
        [enter_if_group_active |-> Frag({}, {"local_collective_type"}),
         pre_pmpi_call |-> Frag({}, {"local_win_handle"}),
         exit_if_group_active |-> Frag({"local_win_handle", "local_collective_type"}, {})])

\* A subclass of TaskRmaRequestTrackingBase.
TaskRmaRequestTrackingImplicit ==
  [TaskRmaRequestTrackingBase EXCEPT
     !.needs = {{"win"}, {"target_rank"}},
     !.frags = [initialization |-> TaskRmaRequestTrackingBase.frags.initialization,
                enter_if_group_active |->
                  FragMay({"local_win_handle"}, {}, {"local_rma_request", "local_matching_id"}),
                exit_if_group_active |->
                  Frag({"local_rma_request", "local_win_handle", "local_matching_id"}, {})]]

TaskRmaPut ==
  Class(FALSE, {"TaskRmaRequestTrackingBase", "TaskRmaBytes"}, {{"target_rank"}}, NoLocals,
        [enter_if_group_active |->
           Frag({"local_win_handle", "local_origin_bytes", "local_matching_id"}, {})])

\* The atomic byte counters: a base class with the locals, and three
\* subclasses that set them when the target is not MPI_PROC_NULL.
TaskRmaAtomicBytesBase ==
  Class(FALSE, {}, {},
        [local_bytes_put |-> Var("uint64_t", FALSE, TRUE),
         local_bytes_get |-> Var("uint64_t", FALSE, TRUE)],
        [h \in {} |-> Frag({}, {})])

AtomicBytesClass(needs) ==
  [TaskRmaAtomicBytesBase EXCEPT
     !.needs = needs,
     !.frags = [enter_if_group_active |->
                  FragMay({}, {}, {"local_bytes_get", "local_bytes_put"})]]

TaskRmaAtomicBytesAccumulate ==
  AtomicBytesClass({{"target_rank"}, {"origin_count"}, {"origin_datatype"}})
TaskRmaAtomicBytesGetAccumulate ==
  AtomicBytesClass({{"target_rank"}, {"origin_count"}, {"origin_datatype"}, {"result_count"},
                    {"result_datatype"}})
TaskRmaAtomicBytesScalar ==
  AtomicBytesClass({{"target_rank"}, {"datatype"}})

TaskRmaAtomic ==
  Class(FALSE, {"TaskRmaRequestTrackingBase", "TaskRmaAtomicBytesBase"}, {{"target_rank"}},
        NoLocals,
        [enter_if_group_active |->
           Frag({"local_win_handle", "local_bytes_put", "local_bytes_get",
                 "local_matching_id"}, {})])

\* rma.py: synchronisation.  The tasks that report at exit read the window
\* handle TaskWinHandleAtExit assigns in the exit block.
TaskWinLock ==
  Class(FALSE, {}, {{"win"}, {"rank"}, {"lock_type"}}, NoLocals,
        [enter_if_group_active |-> Frag({}, {})])

TaskWinLockAll ==
  Class(FALSE, {}, {{"win"}}, NoLocals, [enter_if_group_active |-> Frag({}, {})])

TaskWinHandleAtExit ==
  Class(TRUE, {}, {{"win"}}, [local_win_handle |-> Var("SCOREP_RmaWindowHandle", FALSE, FALSE)],
        [exit_if_group_active |-> Frag({}, {"local_win_handle"})])

ExitSyncClass(deps, needs, frags) ==
  Class(FALSE, {"TaskWinHandleAtExit"} \cup deps, needs, NoLocals,
        [h \in {"exit_if_group_active"} \cup frags |->
           IF h = "exit_if_group_active" THEN Frag({"local_win_handle"}, {}) ELSE Frag({}, {})])

TaskRmaRequestForeachToTarget == ExitSyncClass({}, {{"rank"}}, {})
TaskRmaRequestForeachOnWindow == ExitSyncClass({}, {}, {})
TaskWinUnlock    == ExitSyncClass({"TaskRmaRequestForeachToTarget"}, {{"win"}, {"rank"}}, {})
TaskWinUnlockAll == ExitSyncClass({"TaskRmaRequestForeachOnWindow"}, {{"win"}}, {})
TaskWinFence ==
  ExitSyncClass({"TaskRmaRequestForeachOnWindow"}, {{"win"}}, {"enter_if_group_active"})
TaskEpochStart   == ExitSyncClass({}, {{"win"}, {"group"}}, {"enter_if_group_active"})
TaskEpochEnd     == ExitSyncClass({"TaskRmaRequestForeachOnWindow"}, {{"win"}}, {})
TaskWinTest      == ExitSyncClass({}, {{"win"}, {"flag"}}, {})

TaskWinSetName ==
  Class(FALSE, {}, {{"win"}, {"win_name"}}, NoLocals,
        [post_pmpi_call |-> Frag({"return_value"}, {})])

\* comms_groups.py: communicator creation.  The parent's handle is assigned
\* in the initialization, the new communicator's after the PMPI call when
\* it is not MPI_COMM_NULL; the exit block reads both (CollectiveEndMode).
TaskCommCreateBase == Class(FALSE, {}, {}, NoLocals, [h \in {} |-> Frag({}, {})])

\* Mutant: the parent's handle is assigned only when there is a parent.
TaskCommCreateNoParentInit ==
  Class(FALSE, {}, {},
        [local_comm_handle |-> Var("SCOREP_InterimCommunicatorHandle", FALSE, FALSE),
         local_new_comm_handle |-> Var("SCOREP_InterimCommunicatorHandle", FALSE, TRUE)],
        [initialization |-> FragMay({}, {}, {"local_comm_handle"}),
         enter_if_group_active |-> Frag({}, {}),
         post_pmpi_call |-> FragMay({}, {}, {"local_new_comm_handle"}),
         exit_if_group_active |->
           FragMay({"local_new_comm_handle", "local_comm_handle"}, {}, {"local_new_comm_handle"})])

TaskCommCreate ==
  Class(FALSE, {}, {},
        [local_comm_handle |-> Var("SCOREP_InterimCommunicatorHandle", FALSE, FALSE),
         local_new_comm_handle |-> Var("SCOREP_InterimCommunicatorHandle", FALSE, TRUE)],
        [initialization |-> Frag({}, {"local_comm_handle"}),
         enter_if_group_active |-> Frag({}, {}),
         post_pmpi_call |-> FragMay({}, {}, {"local_new_comm_handle"}),
         exit_if_group_active |->
           FragMay({"local_new_comm_handle", "local_comm_handle"}, {}, {"local_new_comm_handle"})])

\* A subclass of TaskCommCreate; local_rank is set by PMPI_Comm_rank first.
TaskIntercommCreate ==
  [TaskCommCreate EXCEPT
     !.needs = {{"local_comm"}, {"local_leader"}},
     !.locals = @ @@ [local_rank |-> Var("int", FALSE, FALSE)],
     !.frags.post_pmpi_call = FragMay({}, {}, {"local_new_comm_handle", "local_rank"})]

TaskCommCreateRequest ==
  Class(FALSE, {"TaskGetRequestId"}, {{"request"}}, NoLocals,
        [enter_if_group_active |-> Frag({"local_request_id"}, {}),
         post_pmpi_call |->
           Records({OnSuccess("comm_idup_request")},
             Frag({"return_value", "local_request_id"}, {}))])

\* The alias group_new names the parameter the task's 'new' attribute gives.
TaskGroupCreate ==
  Class(FALSE, {}, {{"newgroup"}}, NoLocals, [post_pmpi_call |-> Frag({}, {})])

TaskGroupFree ==
  Class(FALSE, {}, {{"group"}}, NoLocals, [pre_pmpi_call |-> Frag({}, {})])

TaskCommSetName ==
  Class(FALSE, {}, {{"comm"}, {"comm_name"}}, NoLocals,
        [post_pmpi_call |-> Records({OnSuccess("comm_set_name")}, Frag({"return_value"}, {}))])

\* collectives.py: the byte counts scorep_mpi_coll_bytes_<name> writes.
TaskCollectiveCommunicationByteCalc ==
  Class(TRUE, {}, {{"comm"}},
        [local_send_bytes |-> Var("uint64_t", FALSE, TRUE),
         local_recv_bytes |-> Var("uint64_t", FALSE, TRUE)],
        [enter_if_group_active |-> Frag({}, {"local_send_bytes", "local_recv_bytes"})])

TaskCollectiveCommunication ==
  Class(FALSE, {"TaskCollectiveCommunicationByteCalc"}, {{"comm"}}, NoLocals,
        [enter_if_group_active |-> Frag({}, {}),
         exit_if_group_active |-> Frag({"local_send_bytes", "local_recv_bytes"}, {})])

TaskNonblockingCollectiveCommunication ==
  Class(FALSE, {"TaskGetRequestId", "TaskCollectiveCommunicationByteCalc"},
        {{"comm"}, {"request"}}, NoLocals,
        [enter_if_group_active |-> Frag({"local_request_id"}, {}),
         exit_if_group_active |->
           Frag({"return_value", "local_send_bytes", "local_recv_bytes", "local_request_id"}, {})])

\* env.py
TaskCommCreateWorldSelf ==
  Class(TRUE, {}, {}, NoLocals,
        [enter_if_group_active |-> Frag({}, {}), exit_if_group_active |-> Frag({}, {})])

TaskCommDestroyWorldSelf == TaskCommCreateWorldSelf

\* PMPI_Finalized sets fflag only when PMPI_Initialized succeeded (&&).
TaskInitialize ==
  Class(FALSE, {"TaskCommCreateWorldSelf"}, {},
        [fflag |-> Var("int", FALSE, TRUE), iflag |-> Var("int", FALSE, TRUE)],
        [initialization |-> Frag({}, {}),
         post_pmpi_call |-> FragMay({"return_value"}, {}, {"iflag", "fflag"})])

TaskFinalize ==
  Class(FALSE, {"TaskCommDestroyWorldSelf"}, {}, NoLocals, [pre_pmpi_call |-> Frag({}, {})])

TaskCheckFinalized ==
  Class(FALSE, {}, {{"flag"}}, NoLocals, [post_pmpi_call |-> Frag({"return_value"}, {})])

\* event_gen_active &= SCOREP_IS_MEASUREMENT_PHASE( WITHIN )
TaskDisableEventsOutsideMeasurement ==
  Class(FALSE, {}, {}, NoLocals,
        [comment |-> Frag({}, {}),
         initialization |-> Frag({"event_gen_active"}, {"event_gen_active"})])

\* ext.py
TaskAbort == Class(FALSE, {}, {}, NoLocals, [initialization |-> Frag({}, {})])

\* topo.py
TaskCartCreate ==
  Class(FALSE, {}, {{"comm_cart", "newcomm"}}, NoLocals, [post_pmpi_call |-> Frag({}, {})])

(***************************************************************************)
(* The classes by name, and their inheritance chains.                      *)
(***************************************************************************)
CClass ==
  ("TaskDefault" :> TaskDefault) @@ ("TaskTodo" :> TaskTodo)
  @@ ("TaskGetRequestId" :> TaskGetRequestId) @@ ("TaskSend" :> TaskSend)
  @@ ("TaskRecv" :> TaskRecv) @@ ("TaskIsend" :> TaskIsend)
  @@ ("TaskIrecv" :> TaskIrecv) @@ ("TaskCommHandle" :> TaskCommHandle)
  @@ ("TaskGetSendBytes" :> TaskGetSendBytes)
  @@ ("TaskGetRecvBytesFromStatus" :> TaskGetRecvBytesFromStatus)
  @@ ("TaskGetRecvBytes" :> TaskGetRecvBytes) @@ ("TaskCommFree" :> TaskCommFree)
  @@ ("TaskXreqtestEnabled" :> TaskXreqtestEnabled) @@ ("TaskWait" :> TaskWait)
  @@ ("TaskRequestFree" :> TaskRequestFree)
  @@ ("TaskSaveRequestArray" :> TaskSaveRequestArray)
  @@ ("TaskGetIoHandle" :> TaskGetIoHandle)
  @@ ("TaskGetDatatypeSize" :> TaskGetDatatypeSize) @@ ("TaskIoBegin" :> TaskIoBegin)
  @@ ("TaskIoBlocking" :> TaskIoBlocking)
  @@ ("TaskRmaRequestTrackingBase" :> TaskRmaRequestTrackingBase)
  @@ ("TaskRmaRequestTrackingExplicit" :> TaskRmaRequestTrackingExplicit)
  @@ ("TaskRmaBytes" :> TaskRmaBytes) @@ ("TaskRmaGet" :> TaskRmaGet)
  @@ ("TaskFatal" :> TaskFatal) @@ ("TaskSendInit" :> TaskSendInit)
  @@ ("TaskRecvInit" :> TaskRecvInit) @@ ("TaskWaitall" :> TaskWaitall)
  @@ ("TaskWaitany" :> TaskWaitany) @@ ("TaskTestWaitSome" :> TaskTestWaitSome)
  @@ ("TaskTest" :> TaskTest) @@ ("TaskTestall" :> TaskTestall)
  @@ ("TaskTestany" :> TaskTestany) @@ ("TaskStart" :> TaskStart)
  @@ ("TaskStartall" :> TaskStartall)
  @@ ("TaskRequestGetStatus" :> TaskRequestGetStatus) @@ ("TaskCancel" :> TaskCancel)
  @@ ("TaskFileOpen" :> TaskFileOpen) @@ ("TaskFileClose" :> TaskFileClose)
  @@ ("TaskFileSeek" :> TaskFileSeek) @@ ("TaskFileDelete" :> TaskFileDelete)
  @@ ("TaskIoNonBlocking" :> TaskIoNonBlocking)
  @@ ("TaskIoSplitBegin" :> TaskIoSplitBegin) @@ ("TaskIoSplitEnd" :> TaskIoSplitEnd)
  @@ ("TaskWinCreate" :> TaskWinCreate) @@ ("TaskWinAllocate" :> TaskWinAllocate)
  @@ ("TaskWinFree" :> TaskWinFree)
  @@ ("TaskRmaRequestTrackingImplicit" :> TaskRmaRequestTrackingImplicit)
  @@ ("TaskRmaPut" :> TaskRmaPut)
  @@ ("TaskRmaAtomicBytesBase" :> TaskRmaAtomicBytesBase)
  @@ ("TaskRmaAtomicBytesAccumulate" :> TaskRmaAtomicBytesAccumulate)
  @@ ("TaskRmaAtomicBytesGetAccumulate" :> TaskRmaAtomicBytesGetAccumulate)
  @@ ("TaskRmaAtomicBytesScalar" :> TaskRmaAtomicBytesScalar)
  @@ ("TaskRmaAtomic" :> TaskRmaAtomic) @@ ("TaskWinLock" :> TaskWinLock)
  @@ ("TaskWinLockAll" :> TaskWinLockAll)
  @@ ("TaskWinHandleAtExit" :> TaskWinHandleAtExit)
  @@ ("TaskRmaRequestForeachToTarget" :> TaskRmaRequestForeachToTarget)
  @@ ("TaskRmaRequestForeachOnWindow" :> TaskRmaRequestForeachOnWindow)
  @@ ("TaskWinUnlock" :> TaskWinUnlock) @@ ("TaskWinUnlockAll" :> TaskWinUnlockAll)
  @@ ("TaskWinFence" :> TaskWinFence) @@ ("TaskEpochStart" :> TaskEpochStart)
  @@ ("TaskEpochEnd" :> TaskEpochEnd) @@ ("TaskWinTest" :> TaskWinTest)
  @@ ("TaskWinSetName" :> TaskWinSetName)
  @@ ("TaskCommCreateBase" :> TaskCommCreateBase)
  @@ ("TaskCommCreate" :> TaskCommCreate)
  @@ ("TaskIntercommCreate" :> TaskIntercommCreate)
  @@ ("TaskCommCreateRequest" :> TaskCommCreateRequest)
  @@ ("TaskGroupCreate" :> TaskGroupCreate) @@ ("TaskGroupFree" :> TaskGroupFree)
  @@ ("TaskCommSetName" :> TaskCommSetName)
  @@ ("TaskCollectiveCommunicationByteCalc" :> TaskCollectiveCommunicationByteCalc)
  @@ ("TaskCollectiveCommunication" :> TaskCollectiveCommunication)
  @@ ("TaskNonblockingCollectiveCommunication" :> TaskNonblockingCollectiveCommunication)
  @@ ("TaskCommCreateWorldSelf" :> TaskCommCreateWorldSelf)
  @@ ("TaskCommDestroyWorldSelf" :> TaskCommDestroyWorldSelf)
  @@ ("TaskInitialize" :> TaskInitialize) @@ ("TaskFinalize" :> TaskFinalize)
  @@ ("TaskCheckFinalized" :> TaskCheckFinalized)
  @@ ("TaskDisableEventsOutsideMeasurement" :> TaskDisableEventsOutsideMeasurement)
  @@ ("TaskAbort" :> TaskAbort) @@ ("TaskCartCreate" :> TaskCartCreate)


\* The subclass relation among the task classes.
SuperClasses ==
  ("TaskRmaRequestTrackingExplicit" :> {"TaskRmaRequestTrackingBase"})
  @@ ("TaskRmaRequestTrackingImplicit" :> {"TaskRmaRequestTrackingBase"})
  @@ ("TaskWinAllocate" :> {"TaskWinCreate"})
  @@ [T \in {"TaskRmaAtomicBytesAccumulate", "TaskRmaAtomicBytesGetAccumulate",
             "TaskRmaAtomicBytesScalar"} |-> {"TaskRmaAtomicBytesBase"}]
  @@ [T \in {"TaskCommCreate", "TaskCommCreateRequest"} |-> {"TaskCommCreateBase"}]
  @@ ("TaskIntercommCreate" :> {"TaskCommCreate", "TaskCommCreateBase"})

CClassBases ==
  [T \in DOMAIN CClass |-> {T} \cup (IF T \in DOMAIN SuperClasses THEN SuperClasses[T] ELSE {})]

(***************************************************************************)
(* has_conflict_with: TaskDefault conflicts with every type; TaskRequestFree *)
(* with every type that has a generate_post_pmpi_call attribute (to stay   *)
(* the first task providing that hook); the rest inherit CTask's "never". *)
(***************************************************************************)
RequestFreeConflict(A) == "post_pmpi_call" \in DOMAIN CClass[A].frags

\* Mutant: TaskRequestFree does not refuse the post_pmpi_call providers.
HasConflictWithNoRequestFree(T, A) ==
  \/ T = "TaskDefault"

HasConflictWith(T, A) ==
  \/ T = "TaskDefault"
  \/ T = "TaskRequestFree" /\ RequestFreeConflict(A)

=============================================================================
