--------------------------- MODULE F08TaskClasses ---------------------------
(***************************************************************************)
(* The task classes of the Fortran 2008 binding layer                      *)
(* (generator/f08/wrapper_tasks), every family and the common tasks, as    *)
(* TaskClass records.  The code differs from the C layer's in three ways   *)
(* the models see:                                                         *)
(*   - the PMPI result is the internal replacement of the optional ierror  *)
(*     argument, internal_ierror, read where C reads return_value;         *)
(*   - Fortran locals get their initial values in generate_initialization, *)
(*     and the byte counters of the point-to-point tasks have none: they   *)
(*     are assigned inside the 'if' on dest or source, so the fragments    *)
(*     carry the conditions of that 'if' as their guard;                   *)
(*   - nothing is const.                                                   *)
(* The guards name the conditions: "dest_not_null" (dest .ne.              *)
(* MPI_PROC_NULL), "source_not_null", "target_not_null" (target_rank of    *)
(* the one-sided calls), "success" (ierror .eq. MPI_SUCCESS).              *)
(***************************************************************************)
EXTENDS TaskClass

Integer(init) == Var("integer", FALSE, init)

\* common.py
TaskDefault ==
  Class(FALSE, {}, {}, NoLocals, [comment |-> Frag({}, {})])

TaskTodo ==
  [Class(FALSE, {}, {}, NoLocals, [comment |-> Frag({}, {})]) EXCEPT !.multi = TRUE]

TaskFatal ==
  Class(FALSE, {}, {}, NoLocals,
        [comment |-> Frag({}, {}), initialization |-> Frag({}, {})])

\* Mutant: the request id is fetched only on some paths.
TaskGetRequestIdMay ==
  Class(TRUE, {}, {}, [local_request_id |-> Integer(FALSE)],
        [enter_if_group_active |-> FragMay({}, {}, {"local_request_id"})])

TaskGetRequestId ==
  Class(TRUE, {}, {}, [local_request_id |-> Integer(FALSE)],
        [enter_if_group_active |-> Frag({}, {"local_request_id"})])

\* p2p.py
DestNotNull == {"dest_not_null"}
SourceOk    == {"source_not_null", "success"}
DestOk      == {"dest_not_null", "success"}

\* Mutant: the send byte count is computed under the receive tasks' test.
TaskGetSendBytesRecvGuard ==
  Class(TRUE, {}, {{"dest"}, {"sendtype", "datatype"}, {"sendcount", "count"}},
        [local_send_bytes |-> Integer(FALSE), local_send_type_size |-> Integer(FALSE)],
        [enter_if_group_active |->
           Guarded(SourceOk, Frag({}, {"local_send_bytes", "local_send_type_size"}))])

TaskGetSendBytes ==
  Class(TRUE, {}, {{"dest"}, {"sendtype", "datatype"}, {"sendcount", "count"}},
        [local_send_bytes |-> Integer(FALSE), local_send_type_size |-> Integer(FALSE)],
        [enter_if_group_active |->
           Guarded(DestNotNull, Frag({}, {"local_send_bytes", "local_send_type_size"}))])

TaskSend ==
  Class(FALSE, {"TaskGetSendBytes", "TaskCommHandle"},
        {{"dest"}, {"comm"}, {"sendtag", "tag"}}, NoLocals,
        [enter_if_group_active |->
           Guarded(DestNotNull, Frag({"local_comm_handle", "local_send_bytes"}, {}))])

TaskGetRecvBytesFromStatus ==
  Class(TRUE, {}, {{"source"}, {"ierror"}, {"status"}, {"recvtype", "datatype"}},
        [local_recv_bytes |-> Integer(FALSE), local_recv_type_size |-> Integer(FALSE),
         local_recv_count |-> Integer(FALSE)],
        [exit_if_group_active |->
           Guarded(SourceOk,
             Frag({"internal_ierror"},
                  {"local_recv_bytes", "local_recv_type_size", "local_recv_count"}))])

TaskRecv ==
  Class(FALSE, {"TaskGetRecvBytesFromStatus", "TaskCommHandle"},
        {{"source"}, {"comm"}, {"status"}, {"ierror"}}, NoLocals,
        [exit_if_group_active |->
           Records({OnSuccess("mpi_recv")},
             Guarded(SourceOk,
               Frag({"internal_ierror", "local_comm_handle", "local_recv_bytes"}, {})))])

TaskIsend ==
  Class(FALSE, {"TaskGetSendBytes", "TaskCommHandle", "TaskGetRequestId"},
        {{"dest"}, {"comm"}, {"request"}, {"ierror"}, {"sendtag", "tag"},
         {"sendtype", "datatype"}}, NoLocals,
        [enter_if_group_active |->
           Guarded(DestNotNull,
             Frag({"local_comm_handle", "local_send_bytes", "local_request_id"}, {})),
         exit_if_group_active |->
           Records({OnSuccess("request_create")},
             Guarded(DestOk,
               Frag({"internal_ierror", "local_send_bytes", "local_request_id"}, {})))])

TaskCommHandle ==
  Class(TRUE, {}, {{"comm"}}, [local_comm_handle |-> Integer(TRUE)],
        [h \in {} |-> Frag({}, {})])

TaskGetRecvBytes ==
  Class(TRUE, {}, {{"source"}, {"ierror"}, {"recvcount", "count"}, {"recvtype", "datatype"}},
        [local_recv_bytes |-> Integer(FALSE), local_recv_type_size |-> Integer(FALSE)],
        [exit_if_group_active |->
           Guarded(SourceOk,
             Frag({"internal_ierror"}, {"local_recv_bytes", "local_recv_type_size"}))])

\* TaskIrecv assigns local_comm_handle again before its own uses.
TaskIrecv ==
  Class(FALSE, {"TaskGetRecvBytes", "TaskCommHandle", "TaskGetRequestId"},
        {{"source"}, {"comm"}, {"request"}, {"tag"}, {"ierror"}, {"recvtype", "datatype"}},
        NoLocals,
        [exit_if_group_active |->
           Records({OnSuccess("irecv_request"), OnSuccess("request_create")},
             Guarded(SourceOk,
               Frag({"internal_ierror", "local_request_id", "local_recv_bytes"},
                    {"local_comm_handle"})))])

TaskSendInit ==
  Class(FALSE, {"TaskGetSendBytes", "TaskGetRequestId"},
        {{"dest"}, {"comm"}, {"request"}, {"tag"}, {"datatype"}, {"ierror"}}, NoLocals,
        [exit_if_group_active |->
           Records({OnSuccess("request_create")},
             Guarded(DestOk,
               Frag({"internal_ierror", "local_send_bytes", "local_request_id"}, {})))])

TaskRecvInit ==
  Class(FALSE, {"TaskGetRecvBytes", "TaskGetRequestId"},
        {{"source"}, {"comm"}, {"request"}, {"tag"}, {"datatype"}, {"ierror"}}, NoLocals,
        [exit_if_group_active |->
           Records({OnSuccess("request_create")},
             Guarded(SourceOk,
               Frag({"internal_ierror", "local_recv_bytes", "local_request_id"}, {})))])

\* requests.py
TaskSaveRequestArray ==
  Class(TRUE, {}, {{"request", "array_of_requests"}}, NoLocals,
        [pre_pmpi_call |-> Frag({}, {})])

TaskXreqtestEnabled ==
  Class(TRUE, {}, {}, [xreqtest_enabled |-> Var("logical", FALSE, TRUE)],
        [h \in {} |-> Frag({}, {})])

\* The completion calls check the requests after the PMPI call; those that
\* test read the group and xreqtest switches.
CompletionClass(needs, tests) ==
  Class(FALSE, {"TaskSaveRequestArray", "TaskXreqtestEnabled"}, needs, NoLocals,
        [post_pmpi_call |->
           Frag(IF tests THEN {"event_gen_active_for_group", "xreqtest_enabled"} ELSE {}, {})])

TaskWait     == CompletionClass({{"status"}}, FALSE)
TaskWaitall  == CompletionClass({{"count"}, {"array_of_statuses"}}, FALSE)
TaskWaitany  == CompletionClass({{"index"}, {"count"}, {"status"}}, TRUE)
TaskTestWaitSome ==
  CompletionClass({{"incount"}, {"outcount"}, {"array_of_indices"}, {"array_of_statuses"}}, TRUE)
TaskTest     == CompletionClass({{"flag"}, {"status"}}, TRUE)
TaskTestall  == CompletionClass({{"count"}, {"flag"}, {"array_of_statuses"}}, TRUE)
TaskTestany  == CompletionClass({{"count"}, {"flag"}, {"status"}, {"index"}}, TRUE)

TaskStart ==
  Class(FALSE, {}, {{"request"}}, NoLocals, [enter_if_group_active |-> Frag({}, {})])

\* The do loop assigns its index local_i.
TaskStartall ==
  Class(FALSE, {}, {{"count"}, {"array_of_requests"}}, [local_i |-> Integer(FALSE)],
        [enter_if_group_active |-> Frag({}, {"local_i"})])

ScorepReq == [local_scorep_req |-> Var("c_ptr", FALSE, FALSE)]

TaskRequestGetStatus ==
  Class(FALSE, {"TaskXreqtestEnabled"}, {{"request"}, {"flag"}, {"status"}}, ScorepReq,
        [post_pmpi_call |->
           Frag({"event_gen_active_for_group", "xreqtest_enabled"}, {"local_scorep_req"})])

\* Mutant: the request is marked cancelled through local_scorep_req before
\* scorep_mpi_request_get has assigned it.
TaskCancelUseBeforeGet ==
  Class(FALSE, {}, {{"request"}}, ScorepReq,
        [pre_pmpi_call |-> Frag({"local_scorep_req"}, {"local_scorep_req"})])

TaskCancel ==
  Class(FALSE, {}, {{"request"}}, ScorepReq,
        [pre_pmpi_call |-> Frag({}, {"local_scorep_req"})])

\* The 'if' on the request that pre_pmpi_call opens encloses the PMPI call;
\* post_pmpi_call closes it.
TaskRequestFree ==
  Class(FALSE, {}, {{"request"}}, [local_got_null_request |-> Var("logical", FALSE, TRUE)],
        [pre_pmpi_call |->
           [Frag({"local_got_null_request"}, {}) EXCEPT !.opens = <<"request_live">>],
         post_pmpi_call |-> [Frag({}, {}) EXCEPT !.closes = 1]])


\* io.py
TaskFileOpen ==
  Class(FALSE, {}, {{"comm"}, {"filename"}, {"amode"}, {"fh"}, {"ierror"}},
        [local_comm_handle |-> Integer(FALSE), local_unify_key |-> Integer(TRUE),
         local_file |-> Integer(FALSE), local_io_handle |-> Integer(FALSE)],
        [enter_if_group_active |-> Frag({}, {"local_comm_handle", "local_unify_key"}),
         exit_if_group_active |->
           Records({OnSuccess("io_handle_complete"), OnFailure("io_handle_drop")},
             FragMay({"internal_ierror", "local_unify_key"}, {},
                     {"local_file", "local_io_handle"}))])

\* The handle is destroyed when the close FAILED and reinserted when it
\* succeeded (io.py line 132 tests ierror .ne. MPI_SUCCESS).
TaskFileClose ==
  Class(FALSE, {}, {{"fh"}, {"ierror"}},
        [local_amode |-> Integer(FALSE), local_io_handle |-> Integer(TRUE),
         local_file |-> Integer(FALSE)],
        [enter_if_group_active |-> Frag({}, {"local_io_handle", "local_amode"}),
         exit_if_group_active |->
           Records({OnFailure("io_handle_destroy"), OnSuccess("io_handle_reinsert")},
             FragMay({"local_io_handle", "internal_ierror", "local_amode"}, {},
                     {"local_file"}))])

TaskFileSeek ==
  Class(FALSE, {}, {{"fh"}, {"offset"}, {"whence"}},
        [local_io_handle |-> Integer(TRUE), local_pos |-> Integer(FALSE)],
        [enter_if_group_active |-> Frag({}, {"local_io_handle"}),
         exit_if_group_active |-> FragMay({"local_io_handle"}, {}, {"local_pos"})])

TaskFileDelete ==
  Class(FALSE, {}, {{"filename"}}, [local_file |-> Integer(TRUE)],
        [enter_if_group_active |-> Frag({}, {"local_file"}),
         exit_if_group_active |-> Frag({"local_file"}, {})])

\* Mutant: the handle is fetched in the exit block, after its readers.
TaskGetIoHandleAtExit ==
  Class(TRUE, {}, {{"fh"}}, [local_io_handle |-> Integer(TRUE)],
        [exit_if_group_active |-> Frag({}, {"local_io_handle"})])

TaskGetIoHandle ==
  Class(TRUE, {}, {{"fh"}}, [local_io_handle |-> Integer(TRUE)],
        [enter_if_group_active |-> Frag({}, {"local_io_handle"})])

TaskGetDatatypeSize ==
  Class(TRUE, {}, {{"datatype"}}, [local_datatype_size |-> Integer(TRUE)],
        [enter_if_group_active |-> Frag({}, {"local_datatype_size"})])

TaskIoBegin ==
  Class(FALSE, {"TaskGetRequestId", "TaskGetDatatypeSize", "TaskGetIoHandle"}, {{"count"}},
        NoLocals,
        [enter_if_group_active |->
           Frag({"local_io_handle", "local_datatype_size", "local_request_id"}, {})])

TaskIoBlocking ==
  Class(FALSE, {"TaskIoBegin"}, {{"status"}, {"datatype"}}, [local_count |-> Integer(TRUE)],
        [exit_if_group_active |->
           FragMay({"local_io_handle", "local_datatype_size", "local_request_id"}, {},
                   {"local_count"})])

TaskIoNonBlocking ==
  Class(FALSE, {"TaskIoBegin"}, {{"request"}, {"datatype"}, {"count"}, {"fh"}, {"ierror"}},
        NoLocals,
        [exit_if_group_active |->
           Records({OnSuccess("io_issued"), OnSuccess("request_create")},
             Frag({"internal_ierror", "local_io_handle", "local_request_id",
                   "local_datatype_size"}, {}))])

TaskIoSplitBegin ==
  Class(FALSE, {"TaskIoBegin"}, {{"datatype"}, {"ierror"}}, NoLocals,
        [exit_if_group_active |->
           Records({OnSuccess("io_split_begin"), OnSuccess("io_issued")},
             Frag({"internal_ierror", "local_io_handle", "local_request_id"}, {}))])

\* scorep_mpi_io_split_end assigns the request id and the datatype of the
\* split collective's begin call before they are read.
TaskIoSplitEnd ==
  Class(FALSE, {"TaskGetIoHandle"}, {{"status"}, {"ierror"}},
        [local_count |-> Integer(TRUE), local_datatype |-> Var("MPI_Datatype", FALSE, TRUE),
         local_request_id |-> Integer(FALSE)],
        [exit_if_group_active |->
           Records({OnSuccess("io_split_end")},
             FragMay({"internal_ierror", "local_io_handle"}, {},
                     {"local_request_id", "local_datatype", "local_count"}))])

\* comms_groups.py: the parent's handle is assigned in the initialization
\* (scorep_mpi_comm_handle or SCOREP_INVALID_INTERIM_COMMUNICATOR), the new
\* communicator's after the PMPI call when it is not MPI_COMM_NULL.
TaskCommCreateBase == Class(FALSE, {}, {}, NoLocals, [h \in {} |-> Frag({}, {})])

CommHandles == [local_comm_handle |-> Integer(FALSE), local_new_comm_handle |-> Integer(TRUE)]

TaskCommCreate ==
  Class(FALSE, {}, {}, CommHandles,
        [initialization |-> Frag({}, {"local_comm_handle"}),
         enter_if_group_active |-> Frag({}, {}),
         post_pmpi_call |-> FragMay({}, {}, {"local_new_comm_handle"}),
         exit_if_group_active |->
           FragMay({"local_new_comm_handle", "local_comm_handle"}, {}, {"local_new_comm_handle"})])

\* A subclass of TaskCommCreate; PMPI_Comm_rank sets local_rank first.
TaskIntercommCreate ==
  [TaskCommCreate EXCEPT
     !.needs = {{"local_comm"}, {"local_leader"}},
     !.locals = @ @@ [local_rank |-> Integer(FALSE)],
     !.frags.post_pmpi_call = FragMay({}, {}, {"local_new_comm_handle", "local_rank"})]

\* The idup request is created when the PMPI call FAILED (line 168 tests
\* ierror .ne. MPI_SUCCESS), with the request id of the event branch.
TaskCommCreateRequest ==
  Class(FALSE, {"TaskGetRequestId"}, {{"request"}, {"ierror"}}, NoLocals,
        [enter_if_group_active |-> Frag({"local_request_id"}, {}),
         post_pmpi_call |->
           Records({OnFailure("comm_idup_request")},
             Frag({"internal_ierror", "local_request_id"}, {}))])

TaskCommFree ==
  Class(FALSE, {}, {{"comm"}}, [local_comm_handle |-> Integer(FALSE)],
        [initialization |-> Frag({}, {"local_comm_handle"}),
         enter_if_group_active |-> Frag({}, {}),
         pre_pmpi_call |-> Frag({}, {}),
         exit_if_group_active |-> Frag({"local_comm_handle"}, {})])

\* The alias group_new names the parameter the task's 'new' attribute gives.
TaskGroupCreate ==
  Class(FALSE, {}, {{"newgroup"}}, NoLocals, [post_pmpi_call |-> Frag({}, {})])

TaskGroupFree ==
  Class(FALSE, {}, {{"group"}}, NoLocals, [pre_pmpi_call |-> Frag({}, {})])

TaskCommSetName ==
  Class(FALSE, {}, {{"comm"}, {"comm_name"}, {"ierror"}}, NoLocals,
        [post_pmpi_call |->
           Records({OnSuccess("comm_set_name")}, Frag({"internal_ierror"}, {}))])

\* collectives.py: scorep_mpi_coll_bytes_<name> writes the byte counts; the
\* in-place flag, when the collective has one, is set just before and read
\* by the same call.  All three locals have initial values.
TaskCollectiveCommunicationByteCalc ==
  Class(TRUE, {}, {{"comm"}},
        [local_send_bytes |-> Integer(TRUE), local_recv_bytes |-> Integer(TRUE),
         local_in_place |-> Var("logical", FALSE, TRUE)],
        [enter_if_group_active |->
           FragMay({}, {"local_send_bytes", "local_recv_bytes"}, {"local_in_place"})])

TaskCollectiveCommunication ==
  Class(FALSE, {"TaskCollectiveCommunicationByteCalc"}, {{"comm"}}, NoLocals,
        [enter_if_group_active |-> Frag({}, {}),
         exit_if_group_active |-> Frag({"local_send_bytes", "local_recv_bytes"}, {})])

\* The request is created inside 'if (ierror .eq. MPI_SUCCESS)'.
TaskNonblockingCollectiveCommunication ==
  Class(FALSE, {"TaskGetRequestId", "TaskCollectiveCommunicationByteCalc"},
        {{"comm"}, {"request"}, {"ierror"}}, NoLocals,
        [enter_if_group_active |-> Frag({"local_request_id"}, {}),
         exit_if_group_active |->
           Guarded({"success"},
             Frag({"internal_ierror", "local_send_bytes", "local_recv_bytes",
                   "local_request_id"}, {}))])

\* env.py: TaskUseEnvGlobals adds the use of mpi_finalize_called.
TaskUseEnvGlobals == Class(TRUE, {}, {}, NoLocals, [use |-> Frag({}, {})])

TaskCommCreateWorldSelf ==
  Class(TRUE, {}, {}, NoLocals,
        [enter_if_group_active |-> Frag({}, {}), exit_if_group_active |-> Frag({}, {})])

TaskCommDestroyWorldSelf == TaskCommCreateWorldSelf

\* Inside 'if (ierror .eq. MPI_SUCCESS)': PMPI_Initialized sets iflag and
\* local_ierror, and PMPI_Finalized sets fflag only when both say so.
TaskInitialize ==
  Class(FALSE, {"TaskUseEnvGlobals", "TaskCommCreateWorldSelf"}, {{"ierror"}},
        [fflag |-> Var("logical", FALSE, TRUE), iflag |-> Var("logical", FALSE, TRUE),
         local_ierror |-> Integer(FALSE)],
        [initialization |-> Frag({}, {}),
         post_pmpi_call |->
           Guarded({"success"},
             FragMay({"internal_ierror"}, {"iflag", "local_ierror"}, {"fflag"}))])

TaskFinalize ==
  Class(FALSE, {"TaskUseEnvGlobals", "TaskCommDestroyWorldSelf"}, {}, NoLocals,
        [pre_pmpi_call |-> Frag({}, {})])

TaskCheckFinalized ==
  Class(FALSE, {"TaskUseEnvGlobals"}, {{"flag"}, {"ierror"}}, NoLocals,
        [post_pmpi_call |-> Frag({"internal_ierror"}, {})])

\* event_gen_active = event_gen_active .and. SCOREP_IS_MEASUREMENT_PHASE(WITHIN)
TaskDisableEventsOutsideMeasurement ==
  Class(FALSE, {}, {}, NoLocals,
        [comment |-> Frag({}, {}),
         initialization |-> Frag({"event_gen_active"}, {"event_gen_active"})])

\* ext.py
TaskAbort == Class(FALSE, {}, {}, NoLocals, [initialization |-> Frag({}, {})])

\* topo.py
TaskCartCreate ==
  Class(FALSE, {}, {{"comm_cart", "newcomm"}}, NoLocals, [post_pmpi_call |-> Frag({}, {})])

\* rma.py: window creation and destruction.  Unlike the C TaskWinFree, the
\* F08 one gives local_win_handle an initial value.
TaskWinCreate ==
  Class(FALSE, {}, {{"comm"}, {"win"}}, [local_win_handle |-> Integer(TRUE)],
        [comment |-> Frag({}, {}),
         enter_if_group_active |-> Frag({}, {}),
         exit_if_group_active |-> FragMay({"local_win_handle"}, {}, {"local_win_handle"})])

\* A subclass of TaskWinCreate: the size is recorded when memory recording
\* is on, and before_collective_end reads ierror.
TaskWinAllocate ==
  [TaskWinCreate EXCEPT
     !.needs = @ \cup {{"baseptr"}, {"size"}, {"ierror"}},
     !.locals = @ @@ [local_size_as_int64 |-> Integer(TRUE)],
     !.frags = [comment |-> Frag({}, {}),
                enter_if_group_active_pre |-> FragMay({}, {}, {"local_size_as_int64"}),
                enter_if_group_active |-> Frag({}, {}),
                exit_if_group_active |->
                  FragMay({"local_win_handle", "internal_ierror"}, {}, {"local_win_handle"})]]

TaskWinFree ==
  Class(FALSE, {}, {{"win"}},
        [local_win_handle |-> Integer(TRUE), local_collective_type |-> Integer(TRUE)],
        [enter_if_group_active |-> Frag({}, {"local_collective_type"}),
         pre_pmpi_call |-> Frag({}, {"local_win_handle"}),
         exit_if_group_active |-> Frag({"local_win_handle", "local_collective_type"}, {})])

\* rma.py: request tracking and the communication calls, each inside
\* 'if (target_rank .ne. MPI_PROC_NULL)'.
TargetNotNull == {"target_not_null"}

\* Mutant: the window handle is looked up only on some paths.
TaskRmaRequestTrackingBaseMaySet ==
  Class(FALSE, {}, {{"win"}},
        [local_rma_request |-> Var("type", FALSE, TRUE), local_win_handle |-> Integer(FALSE),
         local_matching_id |-> Integer(TRUE)],
        [initialization |-> FragMay({}, {}, {"local_win_handle"})])

TaskRmaRequestTrackingBase ==
  Class(FALSE, {}, {{"win"}},
        [local_rma_request |-> Var("type", FALSE, TRUE), local_win_handle |-> Integer(FALSE),
         local_matching_id |-> Integer(TRUE)],
        [initialization |-> Frag({}, {"local_win_handle"})])

TaskRmaRequestTrackingExplicit ==
  [TaskRmaRequestTrackingBase EXCEPT
     !.needs = {{"win"}, {"target_rank"}, {"request"}},
     !.frags = [initialization |-> TaskRmaRequestTrackingBase.frags.initialization,
                enter_if_group_active |-> Frag({}, {"local_matching_id"}),
                exit_if_group_active |->
                  Guarded(TargetNotNull,
                    Frag({"local_win_handle", "local_matching_id"}, {"local_rma_request"}))]]

\* The request found (or not) at entry decides the matching id on both
\* branches, and whether the exit creates one.
TaskRmaRequestTrackingImplicit ==
  [TaskRmaRequestTrackingBase EXCEPT
     !.needs = {{"win"}, {"target_rank"}},
     !.frags = [initialization |-> TaskRmaRequestTrackingBase.frags.initialization,
                enter_if_group_active |->
                  Guarded(TargetNotNull,
                    Frag({"local_win_handle"}, {"local_rma_request", "local_matching_id"})),
                exit_if_group_active |->
                  Guarded(TargetNotNull,
                    FragMay({"local_rma_request", "local_win_handle", "local_matching_id"}, {},
                            {"local_rma_request"}))]]

\* Mutant: the origin bytes are computed at exit instead of at enter.
TaskRmaBytesAtExit ==
  Class(TRUE, {}, {{"target_rank"}, {"origin_datatype"}, {"origin_count"}},
        [local_origin_bytes |-> Integer(TRUE)],
        [exit_if_group_active |-> Guarded(TargetNotNull, Frag({}, {"local_origin_bytes"}))])

TaskRmaBytes ==
  Class(TRUE, {}, {{"target_rank"}, {"origin_datatype"}, {"origin_count"}},
        [local_origin_bytes |-> Integer(TRUE)],
        [enter_if_group_active |-> Guarded(TargetNotNull, Frag({}, {"local_origin_bytes"}))])

RmaCallClass(bytes, reads) ==
  Class(FALSE, {"TaskRmaRequestTrackingBase", bytes}, {{"target_rank"}}, NoLocals,
        [enter_if_group_active |->
           Guarded(TargetNotNull, Frag({"local_win_handle", "local_matching_id"} \cup reads, {}))])

TaskRmaGet == RmaCallClass("TaskRmaBytes", {"local_origin_bytes"})
TaskRmaPut == RmaCallClass("TaskRmaBytes", {"local_origin_bytes"})

TaskRmaAtomicBytesBase ==
  Class(FALSE, {}, {}, [local_bytes_put |-> Integer(TRUE), local_bytes_get |-> Integer(TRUE)],
        [h \in {} |-> Frag({}, {})])

AtomicBytesClass(needs) ==
  [TaskRmaAtomicBytesBase EXCEPT
     !.needs = needs,
     !.frags = [enter_if_group_active |->
                  Guarded(TargetNotNull, Frag({}, {"local_bytes_get", "local_bytes_put"}))]]

TaskRmaAtomicBytesAccumulate ==
  AtomicBytesClass({{"target_rank"}, {"origin_count"}, {"origin_datatype"}})
TaskRmaAtomicBytesGetAccumulate ==
  AtomicBytesClass({{"target_rank"}, {"origin_count"}, {"origin_datatype"}, {"result_count"},
                    {"result_datatype"}})
TaskRmaAtomicBytesScalar == AtomicBytesClass({{"target_rank"}, {"datatype"}})

TaskRmaAtomic ==
  RmaCallClass("TaskRmaAtomicBytesBase", {"local_bytes_put", "local_bytes_get"})

\* rma.py: synchronisation.  The tasks that report at exit read the window
\* handle TaskWinHandleAtExit assigns in the exit block.
TaskWinLock ==
  Class(FALSE, {}, {{"win"}, {"rank"}, {"lock_type"}}, NoLocals,
        [enter_if_group_active |-> Frag({}, {})])

TaskWinLockAll ==
  Class(FALSE, {}, {{"win"}}, NoLocals, [enter_if_group_active |-> Frag({}, {})])

TaskWinHandleAtExit ==
  Class(TRUE, {}, {{"win"}}, [local_win_handle |-> Integer(FALSE)],
        [exit_if_group_active |-> Frag({}, {"local_win_handle"})])

\* A task whose exit block reads the handle, with the hooks 'more' besides.
ExitSyncClass(deps, needs, more) ==
  Class(FALSE, {"TaskWinHandleAtExit"} \cup deps, needs, NoLocals,
        [h \in {"exit_if_group_active"} \cup more |->
           IF h = "exit_if_group_active" THEN Frag({"local_win_handle"}, {}) ELSE Frag({}, {})])

TaskRmaRequestForeachToTarget == ExitSyncClass({}, {{"rank"}}, {})
TaskRmaRequestForeachOnWindow == ExitSyncClass({}, {}, {})
TaskWinUnlock    == ExitSyncClass({"TaskRmaRequestForeachToTarget"}, {{"win"}, {"rank"}}, {})
TaskWinUnlockAll == ExitSyncClass({"TaskRmaRequestForeachOnWindow"}, {{"win"}}, {})
TaskWinFence ==
  ExitSyncClass({"TaskRmaRequestForeachOnWindow"}, {{"win"}}, {"enter_if_group_active"})
TaskEpochStart   == ExitSyncClass({}, {{"win"}, {"group"}}, {"enter_if_group_active"})
TaskEpochEnd     == ExitSyncClass({"TaskRmaRequestForeachOnWindow"}, {{"win"}}, {})
TaskWinTest      == ExitSyncClass({}, {{"win"}, {"flag"}}, {})

\* scorep_mpi_win_set_name inside 'if (ierror .eq. MPI_SUCCESS)'.
TaskWinSetName ==
  Class(FALSE, {}, {{"win"}, {"win_name"}, {"ierror"}}, NoLocals,
        [post_pmpi_call |-> Frag({"internal_ierror"}, {})])

-----------------------------------------------------------------------------

\* The F08 classes by name.
F08Class ==
  [TaskDefault |-> TaskDefault, TaskTodo |-> TaskTodo, TaskFatal |-> TaskFatal,
   TaskGetRequestId |-> TaskGetRequestId,
   TaskGetSendBytes |-> TaskGetSendBytes, TaskSend |-> TaskSend,
   TaskGetRecvBytesFromStatus |-> TaskGetRecvBytesFromStatus, TaskRecv |-> TaskRecv,
   TaskIsend |-> TaskIsend, TaskCommHandle |-> TaskCommHandle,
   TaskGetRecvBytes |-> TaskGetRecvBytes, TaskIrecv |-> TaskIrecv,
   TaskSendInit |-> TaskSendInit, TaskRecvInit |-> TaskRecvInit,
   TaskSaveRequestArray |-> TaskSaveRequestArray, TaskXreqtestEnabled |-> TaskXreqtestEnabled,
   TaskWait |-> TaskWait, TaskWaitall |-> TaskWaitall, TaskWaitany |-> TaskWaitany,
   TaskTestWaitSome |-> TaskTestWaitSome, TaskTest |-> TaskTest, TaskTestall |-> TaskTestall,
   TaskTestany |-> TaskTestany, TaskStart |-> TaskStart, TaskStartall |-> TaskStartall,
   TaskRequestGetStatus |-> TaskRequestGetStatus, TaskCancel |-> TaskCancel,
   TaskRequestFree |-> TaskRequestFree,
   TaskFileOpen |-> TaskFileOpen, TaskFileClose |-> TaskFileClose,
   TaskFileSeek |-> TaskFileSeek, TaskFileDelete |-> TaskFileDelete,
   TaskGetIoHandle |-> TaskGetIoHandle, TaskGetDatatypeSize |-> TaskGetDatatypeSize,
   TaskIoBegin |-> TaskIoBegin, TaskIoBlocking |-> TaskIoBlocking,
   TaskIoNonBlocking |-> TaskIoNonBlocking, TaskIoSplitBegin |-> TaskIoSplitBegin,
   TaskIoSplitEnd |-> TaskIoSplitEnd,
   TaskCommCreateBase |-> TaskCommCreateBase, TaskCommCreate |-> TaskCommCreate,
   TaskIntercommCreate |-> TaskIntercommCreate,
   TaskCommCreateRequest |-> TaskCommCreateRequest, TaskCommFree |-> TaskCommFree,
   TaskGroupCreate |-> TaskGroupCreate, TaskGroupFree |-> TaskGroupFree,
   TaskCommSetName |-> TaskCommSetName,
   TaskCollectiveCommunicationByteCalc |-> TaskCollectiveCommunicationByteCalc,
   TaskCollectiveCommunication |-> TaskCollectiveCommunication,
   TaskNonblockingCollectiveCommunication |-> TaskNonblockingCollectiveCommunication,
   TaskUseEnvGlobals |-> TaskUseEnvGlobals, TaskCommCreateWorldSelf |-> TaskCommCreateWorldSelf,
   TaskCommDestroyWorldSelf |-> TaskCommDestroyWorldSelf, TaskInitialize |-> TaskInitialize,
   TaskFinalize |-> TaskFinalize, TaskCheckFinalized |-> TaskCheckFinalized,
   TaskDisableEventsOutsideMeasurement |-> TaskDisableEventsOutsideMeasurement,
   TaskAbort |-> TaskAbort, TaskCartCreate |-> TaskCartCreate,
   TaskWinCreate |-> TaskWinCreate, TaskWinAllocate |-> TaskWinAllocate,
   TaskWinFree |-> TaskWinFree, TaskRmaRequestTrackingBase |-> TaskRmaRequestTrackingBase,
   TaskRmaRequestTrackingExplicit |-> TaskRmaRequestTrackingExplicit,
   TaskRmaRequestTrackingImplicit |-> TaskRmaRequestTrackingImplicit,
   TaskRmaBytes |-> TaskRmaBytes, TaskRmaGet |-> TaskRmaGet, TaskRmaPut |-> TaskRmaPut,
   TaskRmaAtomicBytesBase |-> TaskRmaAtomicBytesBase,
   TaskRmaAtomicBytesAccumulate |-> TaskRmaAtomicBytesAccumulate,
   TaskRmaAtomicBytesGetAccumulate |-> TaskRmaAtomicBytesGetAccumulate,
   TaskRmaAtomicBytesScalar |-> TaskRmaAtomicBytesScalar, TaskRmaAtomic |-> TaskRmaAtomic,
   TaskWinLock |-> TaskWinLock, TaskWinLockAll |-> TaskWinLockAll,
   TaskWinHandleAtExit |-> TaskWinHandleAtExit,
   TaskRmaRequestForeachToTarget |-> TaskRmaRequestForeachToTarget,
   TaskRmaRequestForeachOnWindow |-> TaskRmaRequestForeachOnWindow,
   TaskWinUnlock |-> TaskWinUnlock, TaskWinUnlockAll |-> TaskWinUnlockAll,
   TaskWinFence |-> TaskWinFence, TaskEpochStart |-> TaskEpochStart,
   TaskEpochEnd |-> TaskEpochEnd, TaskWinTest |-> TaskWinTest,
   TaskWinSetName |-> TaskWinSetName]


\* The communicator creation tasks derive from TaskCommCreateBase, and
\* TaskIntercommCreate from TaskCommCreate; in rma.py TaskWinAllocate from
\* TaskWinCreate, the trackers and the atomic byte counters from their
\* base classes; the others from F08Task only.
F08ClassBases ==
  [T \in DOMAIN F08Class |->
     {T} \cup (CASE T \in {"TaskCommCreate", "TaskCommCreateRequest"} -> {"TaskCommCreateBase"}
                 [] T = "TaskIntercommCreate" -> {"TaskCommCreate", "TaskCommCreateBase"}
                 [] T = "TaskWinAllocate" -> {"TaskWinCreate"}
                 [] T \in {"TaskRmaRequestTrackingExplicit", "TaskRmaRequestTrackingImplicit"}
                      -> {"TaskRmaRequestTrackingBase"}
                 [] T \in {"TaskRmaAtomicBytesAccumulate", "TaskRmaAtomicBytesGetAccumulate",
                          "TaskRmaAtomicBytesScalar"} -> {"TaskRmaAtomicBytesBase"}
                 [] OTHER -> {})]

(***************************************************************************)
(* has_conflict_with: TaskDefault conflicts with every type (common.py),   *)
(* TaskRequestFree with every type that has generate_post_pmpi_call        *)
(* (requests.py); the others inherit ProcedureTask's "never".             *)
(***************************************************************************)
F08HasConflictWith(T, A) ==
  \/ T = "TaskDefault"
  \/ T = "TaskRequestFree" /\ "post_pmpi_call" \in DOMAIN F08Class[A].frags

=============================================================================
