----------------------------- MODULE MC_Wrapper -----------------------------
(***************************************************************************)
(* The C binding layer's task catalog (generator/c/wrapper_tasks) and     *)
(* procedures of the MPI standard with their parameter names, grouped by   *)
(* the task family that instruments them, for checking Wrapper.            *)
(***************************************************************************)
EXTENDS Wrapper, CTaskClasses

CTaskTypes == DOMAIN CClass

\* sorted by class name, as _add_auxiliary_dependencies sorts them
CAuxNameOrder ==
  << "TaskCollectiveCommunicationByteCalc", "TaskCommCreateWorldSelf",
     "TaskCommDestroyWorldSelf", "TaskCommHandle", "TaskGetDatatypeSize", "TaskGetIoHandle",
     "TaskGetRecvBytes", "TaskGetRecvBytesFromStatus", "TaskGetRequestId",
     "TaskGetSendBytes", "TaskRmaBytes", "TaskSaveRequestArray", "TaskWinHandleAtExit",
     "TaskXreqtestEnabled" >>

CAuxiliary == {T \in CTaskTypes : CClass[T].aux}

\* The public types of the first catalog: one or two of each family.
CPublic ==
  {"TaskDefault", "TaskTodo", "TaskSend", "TaskRecv", "TaskIsend", "TaskIrecv",
   "TaskCommFree", "TaskWait", "TaskRequestFree", "TaskIoBegin", "TaskIoBlocking",
   "TaskRmaRequestTrackingBase", "TaskRmaRequestTrackingExplicit", "TaskRmaGet"}

(***************************************************************************)
(* The public types by source file, each with TaskDefault and TaskTodo.    *)
(***************************************************************************)
CFamily ==
  [p2p |-> {"TaskSend", "TaskRecv", "TaskIsend", "TaskIrecv", "TaskSendInit", "TaskRecvInit"},
   requests |->
     {"TaskWait", "TaskWaitall", "TaskWaitany", "TaskTestWaitSome", "TaskTest", "TaskTestall",
      "TaskTestany", "TaskStart", "TaskStartall", "TaskRequestGetStatus", "TaskCancel",
      "TaskRequestFree"},
   io |->
     {"TaskIoBegin", "TaskIoBlocking", "TaskIoNonBlocking", "TaskIoSplitBegin",
      "TaskIoSplitEnd", "TaskFileOpen", "TaskFileClose", "TaskFileSeek", "TaskFileDelete"},
   rma |->
     {"TaskWinCreate", "TaskWinAllocate", "TaskWinFree", "TaskRmaRequestTrackingBase",
      "TaskRmaRequestTrackingExplicit", "TaskRmaRequestTrackingImplicit", "TaskRmaGet",
      "TaskRmaPut", "TaskRmaAtomicBytesBase", "TaskRmaAtomicBytesAccumulate",
      "TaskRmaAtomicBytesGetAccumulate", "TaskRmaAtomicBytesScalar", "TaskRmaAtomic",
      "TaskWinLock", "TaskWinLockAll", "TaskRmaRequestForeachToTarget",
      "TaskRmaRequestForeachOnWindow", "TaskWinUnlock", "TaskWinUnlockAll", "TaskWinFence",
      "TaskEpochStart", "TaskEpochEnd", "TaskWinTest", "TaskWinSetName"},
   comm |->
     {"TaskCommCreateBase", "TaskCommCreate", "TaskIntercommCreate", "TaskCommCreateRequest",
      "TaskCommFree", "TaskGroupCreate", "TaskGroupFree", "TaskCommSetName",
      "TaskCollectiveCommunication", "TaskNonblockingCollectiveCommunication",
      "TaskInitialize", "TaskFinalize", "TaskCheckFinalized",
      "TaskDisableEventsOutsideMeasurement", "TaskAbort", "TaskCartCreate", "TaskFatal"}]

FamilyPublic(f) == CFamily[f] \cup {"TaskDefault", "TaskTodo"}

CMultiInstance == {T \in CTaskTypes : CClass[T].multi}

CDeps == [T \in CTaskTypes |-> CClass[T].deps]

CConflicts == {<<T, A>> \in CTaskTypes \X CTaskTypes : HasConflictWith(T, A)}

CNeedsParams == [T \in CTaskTypes |-> CClass[T].needs]

CDecls == [T \in CTaskTypes |-> CClass[T].locals]

\* Procedures of the MPI standard and their parameter names.
CProcedures == {"MPI_Isend", "MPI_Recv", "MPI_Wait", "MPI_File_read", "MPI_Rget"}

RmaArgs == {"origin_addr", "origin_count", "origin_datatype", "target_rank", "target_disp",
            "target_count", "target_datatype", "win"}

MPIParams ==
  ("MPI_Send" :> {"buf", "count", "datatype", "dest", "tag", "comm"})
  @@ ("MPI_Isend" :> {"buf", "count", "datatype", "dest", "tag", "comm", "request"})
  @@ ("MPI_Recv" :> {"buf", "count", "datatype", "source", "tag", "comm", "status"})
  @@ ("MPI_Irecv" :> {"buf", "count", "datatype", "source", "tag", "comm", "request"})
  @@ ("MPI_Send_init" :> {"buf", "count", "datatype", "dest", "tag", "comm", "request"})
  @@ ("MPI_Recv_init" :> {"buf", "count", "datatype", "source", "tag", "comm", "request"})
  @@ ("MPI_Sendrecv" :> {"sendbuf", "sendcount", "sendtype", "dest", "sendtag", "recvbuf",
                         "recvcount", "recvtype", "source", "recvtag", "comm", "status"})
  @@ ("MPI_Wait" :> {"request", "status"})
  @@ ("MPI_Waitall" :> {"count", "array_of_requests", "array_of_statuses"})
  @@ ("MPI_Waitany" :> {"count", "array_of_requests", "index", "status"})
  @@ ("MPI_Waitsome" :> {"incount", "array_of_requests", "outcount", "array_of_indices",
                         "array_of_statuses"})
  @@ ("MPI_Test" :> {"request", "flag", "status"})
  @@ ("MPI_Testall" :> {"count", "array_of_requests", "flag", "array_of_statuses"})
  @@ ("MPI_Testany" :> {"count", "array_of_requests", "index", "flag", "status"})
  @@ ("MPI_Start" :> {"request"})
  @@ ("MPI_Startall" :> {"count", "array_of_requests"})
  @@ ("MPI_Request_get_status" :> {"request", "flag", "status"})
  @@ ("MPI_Cancel" :> {"request"})
  @@ ("MPI_Request_free" :> {"request"})
  @@ ("MPI_File_open" :> {"comm", "filename", "amode", "info", "fh"})
  @@ ("MPI_File_close" :> {"fh"})
  @@ ("MPI_File_seek" :> {"fh", "offset", "whence"})
  @@ ("MPI_File_delete" :> {"filename", "info"})
  @@ ("MPI_File_read" :> {"fh", "buf", "count", "datatype", "status"})
  @@ ("MPI_File_iread" :> {"fh", "buf", "count", "datatype", "request"})
  @@ ("MPI_File_read_all_begin" :> {"fh", "buf", "count", "datatype"})
  @@ ("MPI_File_read_all_end" :> {"fh", "buf", "status"})
  @@ ("MPI_Win_create" :> {"base", "size", "disp_unit", "info", "comm", "win"})
  @@ ("MPI_Win_allocate" :> {"size", "disp_unit", "info", "comm", "baseptr", "win"})
  @@ ("MPI_Win_free" :> {"win"})
  @@ ("MPI_Put" :> RmaArgs)
  @@ ("MPI_Rget" :> RmaArgs \cup {"request"})
  @@ ("MPI_Accumulate" :> RmaArgs \cup {"op"})
  @@ ("MPI_Get_accumulate" :> RmaArgs \cup {"op", "result_addr", "result_count",
                                            "result_datatype"})
  @@ ("MPI_Fetch_and_op" :> {"origin_addr", "result_addr", "datatype", "target_rank",
                             "target_disp", "op", "win"})
  @@ ("MPI_Win_lock" :> {"lock_type", "rank", "assert", "win"})
  @@ ("MPI_Win_unlock" :> {"rank", "win"})
  @@ ("MPI_Win_unlock_all" :> {"win"})
  @@ ("MPI_Win_fence" :> {"assert", "win"})
  @@ ("MPI_Win_start" :> {"group", "assert", "win"})
  @@ ("MPI_Win_test" :> {"win", "flag"})
  @@ ("MPI_Win_set_name" :> {"win", "win_name"})
  @@ ("MPI_Comm_dup" :> {"comm", "newcomm"})
  @@ ("MPI_Comm_idup" :> {"comm", "newcomm", "request"})
  @@ ("MPI_Intercomm_create" :> {"local_comm", "local_leader", "peer_comm", "remote_leader",
                                 "tag", "newintercomm"})
  @@ ("MPI_Comm_free" :> {"comm"})
  @@ ("MPI_Comm_set_name" :> {"comm", "comm_name"})
  @@ ("MPI_Group_incl" :> {"group", "n", "ranks", "newgroup"})
  @@ ("MPI_Group_free" :> {"group"})
  @@ ("MPI_Cart_create" :> {"comm_old", "ndims", "dims", "periods", "reorder", "comm_cart"})
  @@ ("MPI_Bcast" :> {"buffer", "count", "datatype", "root", "comm"})
  @@ ("MPI_Ibcast" :> {"buffer", "count", "datatype", "root", "comm", "request"})
  @@ ("MPI_Init" :> {"argc", "argv"})
  @@ ("MPI_Init_thread" :> {"argc", "argv", "required", "provided"})
  @@ ("MPI_Finalize" :> {})
  @@ ("MPI_Finalized" :> {"flag"})
  @@ ("MPI_Abort" :> {"comm", "errorcode"})

CParams == MPIParams

\* The procedures of each family.
FamilyProcedures ==
  [p2p |-> {"MPI_Send", "MPI_Isend", "MPI_Recv", "MPI_Irecv", "MPI_Send_init",
            "MPI_Recv_init", "MPI_Sendrecv"},
   requests |-> {"MPI_Wait", "MPI_Waitall", "MPI_Waitany", "MPI_Waitsome", "MPI_Test",
                 "MPI_Testall", "MPI_Testany", "MPI_Start", "MPI_Startall",
                 "MPI_Request_get_status", "MPI_Cancel", "MPI_Request_free"},
   io |-> {"MPI_File_open", "MPI_File_close", "MPI_File_seek", "MPI_File_delete",
           "MPI_File_read", "MPI_File_iread", "MPI_File_read_all_begin",
           "MPI_File_read_all_end"},
   rma |-> {"MPI_Win_create", "MPI_Win_allocate", "MPI_Win_free", "MPI_Put", "MPI_Rget",
            "MPI_Accumulate", "MPI_Get_accumulate", "MPI_Fetch_and_op", "MPI_Win_lock",
            "MPI_Win_unlock", "MPI_Win_unlock_all", "MPI_Win_fence", "MPI_Win_start",
            "MPI_Win_test", "MPI_Win_set_name"},
   comm |-> {"MPI_Comm_dup", "MPI_Comm_idup", "MPI_Intercomm_create", "MPI_Comm_free",
             "MPI_Comm_set_name", "MPI_Group_incl", "MPI_Group_free", "MPI_Cart_create",
             "MPI_Bcast", "MPI_Ibcast", "MPI_Init", "MPI_Init_thread", "MPI_Finalize",
             "MPI_Finalized", "MPI_Abort"}]

\* DefaultWrapper.local_variables()
CWrapperLocals ==
  [return_value |-> Var("int", FALSE, FALSE),
   regionHandle |-> Var("int", TRUE, TRUE),
   event_gen_active |-> Var("int", FALSE, TRUE),
   event_gen_active_for_group |-> Var("int", TRUE, TRUE)]


(***************************************************************************)
(* TLC evaluates a definition substituted for a constant in a .cfg at each *)
(* use of the constant, but a constant-level definition only once: the    *)
(* .cfg files substitute the following names, each naming a table above.  *)
(***************************************************************************)
MCTaskTypes == CTaskTypes
MCAuxiliary == CAuxiliary
MCMultiInstance == CMultiInstance
MCDeps == CDeps
MCConflicts == CConflicts
MCBases == CClassBases
MCAuxNameOrder == CAuxNameOrder
MCNeedsParams == CNeedsParams
MCDecls == CDecls
MCWrapperLocals == CWrapperLocals
MCPublic == CPublic
MCProcedures == CProcedures
MCParams == CParams
MCMPIParams == MPIParams

=============================================================================
