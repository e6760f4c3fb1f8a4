---------------------------- MODULE MC_PrintTasks ----------------------------
(***************************************************************************)
(* print_tasks_in_layer(Layer.C): print_tasks over the C layer's public    *)
(* task types (generator/c get_public_task_types()).                       *)
(***************************************************************************)
EXTENDS PrintTasks, CTaskClasses

PTTaskTypes == DOMAIN CClass
PTAuxiliary == {T \in PTTaskTypes : CClass[T].aux}
PTMultiInstance == {T \in PTTaskTypes : CClass[T].multi}
PTDeps == [T \in PTTaskTypes |-> CClass[T].deps]
PTConflicts == {<<T, A>> \in PTTaskTypes \X PTTaskTypes : HasConflictWith(T, A)}
PTDecls == [T \in PTTaskTypes |-> CClass[T].locals]
PTPublic == PTTaskTypes \ PTAuxiliary

\* the auxiliary classes sorted by name (_add_auxiliary_dependencies)
PTAuxNameOrder ==
  << "TaskCollectiveCommunicationByteCalc", "TaskCommCreateWorldSelf",
     "TaskCommDestroyWorldSelf", "TaskCommHandle", "TaskGetDatatypeSize", "TaskGetIoHandle",
     "TaskGetRecvBytes", "TaskGetRecvBytesFromStatus", "TaskGetRequestId",
     "TaskGetSendBytes", "TaskRmaBytes", "TaskSaveRequestArray", "TaskWinHandleAtExit",
     "TaskXreqtestEnabled" >>

\* the public classes sorted by name (print_tasks, line 76)
PTPublicNameOrder ==
  << "TaskAbort", "TaskCancel", "TaskCartCreate", "TaskCheckFinalized",
     "TaskCollectiveCommunication", "TaskCommCreate", "TaskCommCreateBase",
     "TaskCommCreateRequest", "TaskCommFree", "TaskCommSetName", "TaskDefault",
     "TaskDisableEventsOutsideMeasurement", "TaskEpochEnd", "TaskEpochStart", "TaskFatal",
     "TaskFileClose", "TaskFileDelete", "TaskFileOpen", "TaskFileSeek", "TaskFinalize",
     "TaskGroupCreate", "TaskGroupFree", "TaskInitialize", "TaskIntercommCreate",
     "TaskIoBegin", "TaskIoBlocking", "TaskIoNonBlocking", "TaskIoSplitBegin",
     "TaskIoSplitEnd", "TaskIrecv", "TaskIsend", "TaskNonblockingCollectiveCommunication",
     "TaskRecv", "TaskRecvInit", "TaskRequestFree", "TaskRequestGetStatus",
     "TaskRmaAtomic", "TaskRmaAtomicBytesAccumulate", "TaskRmaAtomicBytesBase",
     "TaskRmaAtomicBytesGetAccumulate", "TaskRmaAtomicBytesScalar", "TaskRmaGet",
     "TaskRmaPut", "TaskRmaRequestForeachOnWindow", "TaskRmaRequestForeachToTarget",
     "TaskRmaRequestTrackingBase", "TaskRmaRequestTrackingExplicit",
     "TaskRmaRequestTrackingImplicit", "TaskSend", "TaskSendInit", "TaskStart",
     "TaskStartall", "TaskTest", "TaskTestWaitSome", "TaskTestall", "TaskTestany",
     "TaskTodo", "TaskWait", "TaskWaitall", "TaskWaitany", "TaskWinAllocate",
     "TaskWinCreate", "TaskWinFence", "TaskWinFree", "TaskWinLock", "TaskWinLockAll",
     "TaskWinSetName", "TaskWinTest", "TaskWinUnlock", "TaskWinUnlockAll" >>

PTNoNeeds == [T \in PTTaskTypes |-> {}]
PTNoLocals == [n \in {} |-> Var("", FALSE, FALSE)]

=============================================================================
