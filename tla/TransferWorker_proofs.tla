----------------------- MODULE TransferWorker_proofs -----------------------
(***************************************************************************)
(* Proofs about CSftpTransferWorker (module TransferWorker), for any       *)
(* number of tasks, any choice of directories and moves, and whether or    *)
(* not tasks are enqueued late.                                            *)
(*                                                                         *)
(* IndInv is shown to be kept by every action, one lemma per action and    *)
(* one step per conjunct; the steps inside ExecuteTask that only look at a *)
(* flag are instances of FailKeeps and GotoKeeps.  The safety properties   *)
(* and the refinement of TransferJob follow from it.                       *)
(***************************************************************************)
EXTENDS TransferWorker, TLAPS, SequenceTheorems

-----------------------------------------------------------------------------
(* Steps inside ExecuteTask                                                *)

\* ExecuteTask gives up, wherever it is.
LEMMA FailKeeps ==
  ASSUME NEW from \in Executing, IndInv, Fail(from)
  PROVE  IndInv'
<1> USE WorkerAssumption DEF Fail, Executing, callerVars, objVars, queueVars,
        worldVars
<1>1. TypeOK'
  <2>1. TypeOK BY DEF IndInv
  <2>2. pc' \in Alive /\ success' \in BOOLEAN BY DEF Alive
  <2> QED BY <2>1, <2>2 DEF TypeOK
<1>2. QueueIsSuffix' BY DEF IndInv, QueueIsSuffix, Taken
<1>3. CursorFollowsQueue'
  BY DEF IndInv, CursorFollowsQueue, Taken, Between, Leaving
<1>4. ItemFollowsCursor' BY DEF IndInv, ItemFollowsCursor, Alive
<1>5. StatusFollowsCursor' BY DEF IndInv, StatusFollowsCursor, Between, Leaving
<1>6. FlagsFollowThread' BY DEF IndInv, FlagsFollowThread, Alive, Leaving
<1>7. OverrunIsHeld' BY DEF IndInv, OverrunIsHeld, Permitted
<1> QED BY <1>1, <1>2, <1>3, <1>4, <1>5, <1>6, <1>7 DEF IndInv

\* ExecuteTask moves on; it comes to ReportProgress's second look only when
\* RunEvent let it, and to a block only when not cancelled.
LEMMA GotoKeeps ==
  ASSUME NEW from \in Executing, NEW to \in Executing, IndInv, Goto(from, to),
         to = "report" => runEvent /\ ~stopEvent,
         to = "io" => from = "report" /\ ~cancelled
  PROVE  IndInv'
<1> USE WorkerAssumption DEF Goto, Executing, callerVars, objVars, queueVars,
        threadVars, worldVars
<1>1. TypeOK' BY DEF IndInv, TypeOK, Alive, Ended
<1>2. QueueIsSuffix' BY DEF IndInv, QueueIsSuffix, Taken
<1>3. CursorFollowsQueue'
  BY DEF IndInv, CursorFollowsQueue, Taken, Between, Leaving
<1>4. ItemFollowsCursor' BY DEF IndInv, ItemFollowsCursor, Alive
<1>5. StatusFollowsCursor' BY DEF IndInv, StatusFollowsCursor, Between, Leaving
<1>6. FlagsFollowThread' BY DEF IndInv, FlagsFollowThread, Alive, Leaving
<1>7. OverrunIsHeld' BY DEF IndInv, OverrunIsHeld, Permitted, TypeOK
<1> QED BY <1>1, <1>2, <1>3, <1>4, <1>5, <1>6, <1>7 DEF IndInv

-----------------------------------------------------------------------------
(* One lemma per action                                                    *)

\* EnqueueTask appends the same task to both containers.
LEMMA EnqueueTaskKeeps ==
  ASSUME IndInv, EnqueueTask
  PROVE  IndInv'
<1> USE WorkerAssumption DEF EnqueueTask,
        objVars, eventVars, queueVars, stateVars, threadVars, worldVars, callerVars
<1>0. /\ TypeOK
      /\ taskQueue' \in Seq(Tasks) /\ Len(taskQueue') = Len(taskQueue) + 1
      /\ \A k \in 1 .. Len(taskQueue) : taskQueue'[k] = taskQueue[k]
      /\ taskQueue'[Len(taskQueue) + 1] = Len(allTasks) + 1
      /\ allTasks' \in Seq(Status) /\ Len(allTasks') = Len(allTasks) + 1
      /\ wakeEvent' \in BOOLEAN
  BY DEF IndInv, TypeOK, Tasks, Status
<1>1. TypeOK'
  BY <1>0 DEF TypeOK
<1>2. QueueIsSuffix'
  <2>1. Taken' = Taken BY <1>0 DEF Taken, TypeOK
  <2>2. ASSUME NEW k \in 1 .. Len(taskQueue') PROVE taskQueue'[k] = Taken' + k
    <3>1. k \in 1 .. Len(taskQueue) \/ k = Len(taskQueue) + 1
      BY <1>0 DEF TypeOK
    <3>2. CASE k \in 1 .. Len(taskQueue)
      BY <1>0, <2>1, <3>2 DEF IndInv, QueueIsSuffix
    <3>3. CASE k = Len(taskQueue) + 1
      BY <1>0, <2>1, <3>3 DEF Taken, TypeOK
    <3> QED BY <3>1, <3>2, <3>3
  <2> QED BY <1>0, <2>2 DEF IndInv, QueueIsSuffix, TypeOK
<1>3. CursorFollowsQueue'
  <2>1. Taken' = Taken BY <1>0 DEF Taken, TypeOK
  <2> QED BY <2>1 DEF IndInv, CursorFollowsQueue
<1>4. ItemFollowsCursor'
  BY DEF IndInv, TypeOK, CursorFollowsQueue, ItemFollowsCursor,
         FlagsFollowThread, Taken, Alive, Executing, Between, Ended
<1>5. StatusFollowsCursor'
  BY DEF IndInv, TypeOK, CursorFollowsQueue, StatusFollowsCursor,
         FlagsFollowThread, Taken, Between, Leaving, Executing, Alive, Ended
<1>6. FlagsFollowThread'
  BY DEF IndInv, TypeOK, FlagsFollowThread, Taken, Alive, Leaving, Executing, Ended
<1>7. OverrunIsHeld'
  BY DEF IndInv, TypeOK, OverrunIsHeld, Permitted
<1> QED BY <1>1, <1>2, <1>3, <1>4, <1>5, <1>6, <1>7 DEF IndInv

\* Start runs only when no task has been popped.
LEMMA StartKeeps ==
  ASSUME NEW hwnd \in BOOLEAN, IndInv, Start(hwnd)
  PROVE  IndInv'
<1> USE WorkerAssumption DEF Start,
        objVars, eventVars, queueVars, stateVars, threadVars, worldVars, callerVars
<1>1. TypeOK'
  <2>1. TypeOK BY DEF IndInv
  <2>2. pc' \in Alive \cup Ended BY <2>1 DEF TypeOK, Alive
  <2>3. startPc' \in {"idle", "creating"} BY <2>1 DEF TypeOK
  <2>4. isRunning' \in BOOLEAN /\ hasError' \in BOOLEAN OBVIOUS
  <2>5. overrun' \in Nat /\ currentItemIndex' \in 0 .. MaxTasks OBVIOUS
  <2> QED BY <2>1, <2>2, <2>3, <2>4, <2>5 DEF TypeOK
<1>2. QueueIsSuffix'
  BY DEF IndInv, TypeOK, QueueIsSuffix, Taken
<1>3. CursorFollowsQueue'
  BY DEF IndInv, TypeOK, QueueIsSuffix, CursorFollowsQueue,
         FlagsFollowThread, Taken, Between, Leaving, Executing, Alive, Ended
<1>4. ItemFollowsCursor'
  BY DEF IndInv, TypeOK, CursorFollowsQueue, ItemFollowsCursor,
         FlagsFollowThread, Taken, Alive, Executing, Between, Ended
<1>5. StatusFollowsCursor'
  BY DEF IndInv, TypeOK, CursorFollowsQueue, StatusFollowsCursor,
         FlagsFollowThread, Taken, Between, Leaving, Executing, Alive, Ended
<1>6. FlagsFollowThread'
  BY DEF IndInv, TypeOK, FlagsFollowThread, Taken, Alive, Leaving, Executing, Ended
<1>7. OverrunIsHeld'
  BY DEF IndInv, TypeOK, OverrunIsHeld, Permitted
<1> QED BY <1>1, <1>2, <1>3, <1>4, <1>5, <1>6, <1>7 DEF IndInv

\* The handle is assigned to a thread that already runs.
LEMMA StartReturnsKeeps ==
  ASSUME IndInv, StartReturns
  PROVE  IndInv'
<1> USE WorkerAssumption DEF StartReturns,
        objVars, eventVars, queueVars, stateVars, threadVars, worldVars, callerVars
<1>1. TypeOK'
  <2>1. TypeOK BY DEF IndInv
  <2>2. pc' \in Alive \cup Ended BY <2>1 DEF TypeOK, Alive, Ended, Executing
  <2> QED BY <2>1, <2>2 DEF TypeOK
<1>2. QueueIsSuffix'
  BY DEF IndInv, TypeOK, QueueIsSuffix, Taken
<1>3. CursorFollowsQueue'
  BY DEF IndInv, TypeOK, QueueIsSuffix, CursorFollowsQueue,
         FlagsFollowThread, Taken, Between, Leaving, Executing, Alive, Ended
<1>4. ItemFollowsCursor'
  BY DEF IndInv, TypeOK, CursorFollowsQueue, ItemFollowsCursor,
         FlagsFollowThread, Taken, Alive, Executing, Between, Ended
<1>5. StatusFollowsCursor'
  BY DEF IndInv, TypeOK, CursorFollowsQueue, StatusFollowsCursor,
         FlagsFollowThread, Taken, Between, Leaving, Executing, Alive, Ended
<1>6. FlagsFollowThread'
  BY DEF IndInv, TypeOK, FlagsFollowThread, Taken, Alive, Leaving, Executing, Ended
<1>7. OverrunIsHeld'
  BY DEF IndInv, TypeOK, OverrunIsHeld, Permitted
<1> QED BY <1>1, <1>2, <1>3, <1>4, <1>5, <1>6, <1>7 DEF IndInv

\* Cancel sets Cancelled, which is what StopEvent and a dropped task need.
LEMMA CancelKeeps ==
  ASSUME IndInv, Cancel
  PROVE  IndInv'
<1> USE WorkerAssumption DEF Cancel,
        objVars, eventVars, queueVars, stateVars, threadVars, worldVars, callerVars
<1>1. TypeOK'
  <2>1. TypeOK BY DEF IndInv
  <2>2. pc' \in Alive \cup Ended BY <2>1 DEF TypeOK, Alive, Ended, Executing
  <2> QED BY <2>1, <2>2 DEF TypeOK
<1>2. QueueIsSuffix'
  BY DEF IndInv, TypeOK, QueueIsSuffix, Taken
<1>3. CursorFollowsQueue'
  BY DEF IndInv, TypeOK, QueueIsSuffix, CursorFollowsQueue,
         FlagsFollowThread, Taken, Between, Leaving, Executing, Alive, Ended
<1>4. ItemFollowsCursor'
  BY DEF IndInv, TypeOK, CursorFollowsQueue, ItemFollowsCursor,
         FlagsFollowThread, Taken, Alive, Executing, Between, Ended
<1>5. StatusFollowsCursor'
  BY DEF IndInv, TypeOK, CursorFollowsQueue, StatusFollowsCursor,
         FlagsFollowThread, Taken, Between, Leaving, Executing, Alive, Ended
<1>6. FlagsFollowThread'
  BY DEF IndInv, TypeOK, FlagsFollowThread, Taken, Alive, Leaving, Executing, Ended
<1>7. OverrunIsHeld'
  BY DEF IndInv, TypeOK, OverrunIsHeld, Permitted
<1> QED BY <1>1, <1>2, <1>3, <1>4, <1>5, <1>6, <1>7 DEF IndInv

\* SetPaused permits the transfer again only when it resets the overrun.
LEMMA SetPausedKeeps ==
  ASSUME NEW paused \in BOOLEAN, IndInv, SetPaused(paused)
  PROVE  IndInv'
<1> USE WorkerAssumption DEF SetPaused,
        objVars, eventVars, queueVars, stateVars, threadVars, worldVars, callerVars
<1>1. TypeOK'
  <2>1. TypeOK BY DEF IndInv
  <2>2. pc' \in Alive \cup Ended BY <2>1 DEF TypeOK, Alive, Ended, Executing
  <2> QED BY <2>1, <2>2 DEF TypeOK
<1>2. QueueIsSuffix'
  BY DEF IndInv, TypeOK, QueueIsSuffix, Taken
<1>3. CursorFollowsQueue'
  BY DEF IndInv, TypeOK, QueueIsSuffix, CursorFollowsQueue,
         FlagsFollowThread, Taken, Between, Leaving, Executing, Alive, Ended
<1>4. ItemFollowsCursor'
  BY DEF IndInv, TypeOK, CursorFollowsQueue, ItemFollowsCursor,
         FlagsFollowThread, Taken, Alive, Executing, Between, Ended
<1>5. StatusFollowsCursor'
  BY DEF IndInv, TypeOK, CursorFollowsQueue, StatusFollowsCursor,
         FlagsFollowThread, Taken, Between, Leaving, Executing, Alive, Ended
<1>6. FlagsFollowThread'
  BY DEF IndInv, TypeOK, FlagsFollowThread, Taken, Alive, Leaving, Executing, Ended
<1>7. OverrunIsHeld'
  BY DEF IndInv, TypeOK, OverrunIsHeld, Permitted
<1> QED BY <1>1, <1>2, <1>3, <1>4, <1>5, <1>6, <1>7 DEF IndInv

\* Stop waits only for a thread that was started.
LEMMA StopKeeps ==
  ASSUME IndInv, Stop
  PROVE  IndInv'
<1> USE WorkerAssumption DEF Stop,
        objVars, eventVars, queueVars, stateVars, threadVars, worldVars, callerVars
<1>1. TypeOK'
  <2>1. TypeOK BY DEF IndInv
  <2>2. stopPc' \in {"idle", "signal", "waiting"} /\ dlgHwnd' \in BOOLEAN
    BY <2>1 DEF TypeOK
  <2> QED BY <2>1, <2>2 DEF TypeOK
<1>2. QueueIsSuffix'
  BY DEF IndInv, TypeOK, QueueIsSuffix, Taken
<1>3. CursorFollowsQueue'
  BY DEF IndInv, TypeOK, QueueIsSuffix, CursorFollowsQueue,
         FlagsFollowThread, Taken, Between, Leaving, Executing, Alive, Ended
<1>4. ItemFollowsCursor'
  BY DEF IndInv, TypeOK, CursorFollowsQueue, ItemFollowsCursor,
         FlagsFollowThread, Taken, Alive, Executing, Between, Ended
<1>5. StatusFollowsCursor'
  BY DEF IndInv, TypeOK, CursorFollowsQueue, StatusFollowsCursor,
         FlagsFollowThread, Taken, Between, Leaving, Executing, Alive, Ended
<1>6. FlagsFollowThread'
  BY DEF IndInv, TypeOK, FlagsFollowThread, Taken, Alive, Leaving, Executing, Ended
<1>7. OverrunIsHeld'
  BY DEF IndInv, TypeOK, OverrunIsHeld, Permitted
<1> QED BY <1>1, <1>2, <1>3, <1>4, <1>5, <1>6, <1>7 DEF IndInv

\* Stop sets Cancelled before StopEvent.
LEMMA StopSignalsKeeps ==
  ASSUME IndInv, StopSignals
  PROVE  IndInv'
<1> USE WorkerAssumption DEF StopSignals,
        objVars, eventVars, queueVars, stateVars, threadVars, worldVars, callerVars
<1>1. TypeOK'
  <2>1. TypeOK BY DEF IndInv
  <2>2. stopPc' \in {"idle", "signal", "waiting"} /\ cancelled' \in BOOLEAN
        /\ wakeEvent' \in BOOLEAN /\ stopEvent' \in BOOLEAN
        /\ runEvent' \in BOOLEAN /\ dlgHwnd' \in BOOLEAN
    BY <2>1 DEF TypeOK
  <2> QED BY <2>1, <2>2 DEF TypeOK
<1>2. QueueIsSuffix'
  BY DEF IndInv, TypeOK, QueueIsSuffix, Taken
<1>3. CursorFollowsQueue'
  BY DEF IndInv, TypeOK, QueueIsSuffix, CursorFollowsQueue,
         FlagsFollowThread, Taken, Between, Leaving, Executing, Alive, Ended
<1>4. ItemFollowsCursor'
  BY DEF IndInv, TypeOK, CursorFollowsQueue, ItemFollowsCursor,
         FlagsFollowThread, Taken, Alive, Executing, Between, Ended
<1>5. StatusFollowsCursor'
  BY DEF IndInv, TypeOK, CursorFollowsQueue, StatusFollowsCursor,
         FlagsFollowThread, Taken, Between, Leaving, Executing, Alive, Ended
<1>6. FlagsFollowThread'
  BY DEF IndInv, TypeOK, FlagsFollowThread, Taken, Alive, Leaving, Executing, Ended
<1>7. OverrunIsHeld'
  BY DEF IndInv, TypeOK, OverrunIsHeld, Permitted
<1> QED BY <1>1, <1>2, <1>3, <1>4, <1>5, <1>6, <1>7 DEF IndInv

\* Stop returns after the thread has ended.
LEMMA StopJoinsKeeps ==
  ASSUME IndInv, StopJoins
  PROVE  IndInv'
<1> USE WorkerAssumption DEF StopJoins, StopReturns,
        objVars, eventVars, queueVars, stateVars, threadVars, worldVars, callerVars
<1>1. TypeOK'
  <2>1. TypeOK BY DEF IndInv
  <2> QED BY <2>1 DEF TypeOK
<1>2. QueueIsSuffix'
  BY DEF IndInv, TypeOK, QueueIsSuffix, Taken
<1>3. CursorFollowsQueue'
  BY DEF IndInv, TypeOK, QueueIsSuffix, CursorFollowsQueue,
         FlagsFollowThread, Taken, Between, Leaving, Executing, Alive, Ended
<1>4. ItemFollowsCursor'
  BY DEF IndInv, TypeOK, CursorFollowsQueue, ItemFollowsCursor,
         FlagsFollowThread, Taken, Alive, Executing, Between, Ended
<1>5. StatusFollowsCursor'
  BY DEF IndInv, TypeOK, CursorFollowsQueue, StatusFollowsCursor,
         FlagsFollowThread, Taken, Between, Leaving, Executing, Alive, Ended
<1>6. FlagsFollowThread'
  BY DEF IndInv, TypeOK, FlagsFollowThread, Taken, Alive, Leaving, Executing, Ended
<1>7. OverrunIsHeld'
  BY DEF IndInv, TypeOK, OverrunIsHeld, Permitted
<1> QED BY <1>1, <1>2, <1>3, <1>4, <1>5, <1>6, <1>7 DEF IndInv

\* A terminated thread may have popped a task it never marked: Stop has set
\* Cancelled by then.
LEMMA StopTerminatesKeeps ==
  ASSUME IndInv, StopTerminates
  PROVE  IndInv'
<1> USE WorkerAssumption DEF StopTerminates, StopReturns,
        objVars, eventVars, queueVars, stateVars, threadVars, worldVars, callerVars
<1>1. TypeOK'
  <2>1. TypeOK BY DEF IndInv
  <2>2. pc' \in Alive \cup Ended BY <2>1 DEF TypeOK, Alive, Ended, Executing
  <2> QED BY <2>1, <2>2 DEF TypeOK
<1>2. QueueIsSuffix'
  BY DEF IndInv, TypeOK, QueueIsSuffix, Taken
<1>3. CursorFollowsQueue'
  BY DEF IndInv, TypeOK, QueueIsSuffix, CursorFollowsQueue,
         FlagsFollowThread, Taken, Between, Leaving, Executing, Alive, Ended
<1>4. ItemFollowsCursor'
  BY DEF IndInv, TypeOK, CursorFollowsQueue, ItemFollowsCursor,
         FlagsFollowThread, Taken, Alive, Executing, Between, Ended
<1>5. StatusFollowsCursor'
  BY DEF IndInv, TypeOK, CursorFollowsQueue, StatusFollowsCursor,
         FlagsFollowThread, Taken, Between, Leaving, Executing, Alive, Ended
<1>6. FlagsFollowThread'
  BY DEF IndInv, TypeOK, FlagsFollowThread, Taken, Alive, Leaving, Executing, Ended
<1>7. OverrunIsHeld'
  BY DEF IndInv, TypeOK, OverrunIsHeld, Permitted
<1> QED BY <1>1, <1>2, <1>3, <1>4, <1>5, <1>6, <1>7 DEF IndInv

\* Reset empties both containers.
LEMMA ResetKeeps ==
  ASSUME IndInv, Reset
  PROVE  IndInv'
<1> USE WorkerAssumption DEF Reset,
        objVars, eventVars, queueVars, stateVars, threadVars, worldVars, callerVars
<1>1. TypeOK'
  <2>1. TypeOK BY DEF IndInv
  <2>2. taskQueue' \in Seq(Tasks) /\ allTasks' \in Seq(Status)
        /\ Len(allTasks') <= MaxTasks
    OBVIOUS
  <2>3. /\ currentTaskIndex' \in 0 .. MaxTasks /\ currentItemIndex' \in 0 .. MaxTasks
        /\ currentTask' \in 0 .. MaxTasks /\ taskIdx' \in 0 .. MaxTasks
        /\ finishedMsgs' \in Nat /\ overrun' \in Nat
    OBVIOUS
  <2>4. pc' \in Alive \cup Ended BY DEF Ended
  <2>5. /\ isRunning' \in BOOLEAN /\ cancelled' \in BOOLEAN /\ isPaused' \in BOOLEAN
        /\ hasError' \in BOOLEAN /\ success' \in BOOLEAN /\ runEvent' \in BOOLEAN
        /\ threadHandle' \in BOOLEAN /\ started' \in BOOLEAN
    OBVIOUS
  <2> QED BY <2>1, <2>2, <2>3, <2>4, <2>5 DEF TypeOK
<1>2. QueueIsSuffix'
  BY DEF IndInv, TypeOK, QueueIsSuffix, Taken
<1>3. CursorFollowsQueue'
  BY DEF IndInv, TypeOK, QueueIsSuffix, CursorFollowsQueue,
         FlagsFollowThread, Taken, Between, Leaving, Executing, Alive, Ended
<1>4. ItemFollowsCursor'
  BY DEF IndInv, TypeOK, CursorFollowsQueue, ItemFollowsCursor,
         FlagsFollowThread, Taken, Alive, Executing, Between, Ended
<1>5. StatusFollowsCursor'
  BY DEF IndInv, TypeOK, CursorFollowsQueue, StatusFollowsCursor,
         FlagsFollowThread, Taken, Between, Leaving, Executing, Alive, Ended
<1>6. FlagsFollowThread'
  BY DEF IndInv, TypeOK, FlagsFollowThread, Taken, Alive, Leaving, Executing, Ended
<1>7. OverrunIsHeld'
  BY DEF IndInv, TypeOK, OverrunIsHeld, Permitted
<1> QED BY <1>1, <1>2, <1>3, <1>4, <1>5, <1>6, <1>7 DEF IndInv

\* The loop is entered with no task popped.
LEMMA ConnectOkKeeps ==
  ASSUME IndInv, ConnectOk
  PROVE  IndInv'
<1> USE WorkerAssumption DEF ConnectOk, Goto,
        objVars, eventVars, queueVars, stateVars, threadVars, worldVars, callerVars
<1>1. TypeOK'
  <2>1. TypeOK BY DEF IndInv
  <2>2. pc' \in Alive \cup Ended BY <2>1 DEF TypeOK, Alive, Ended, Executing
  <2> QED BY <2>1, <2>2 DEF TypeOK
<1>2. QueueIsSuffix'
  BY DEF IndInv, TypeOK, QueueIsSuffix, Taken
<1>3. CursorFollowsQueue'
  BY DEF IndInv, TypeOK, QueueIsSuffix, CursorFollowsQueue,
         FlagsFollowThread, Taken, Between, Leaving, Executing, Alive, Ended
<1>4. ItemFollowsCursor'
  BY DEF IndInv, TypeOK, CursorFollowsQueue, ItemFollowsCursor,
         FlagsFollowThread, Taken, Alive, Executing, Between, Ended
<1>5. StatusFollowsCursor'
  BY DEF IndInv, TypeOK, CursorFollowsQueue, StatusFollowsCursor,
         FlagsFollowThread, Taken, Between, Leaving, Executing, Alive, Ended
<1>6. FlagsFollowThread'
  BY DEF IndInv, TypeOK, FlagsFollowThread, Taken, Alive, Leaving, Executing, Ended
<1>7. OverrunIsHeld'
  BY DEF IndInv, TypeOK, OverrunIsHeld, Permitted
<1> QED BY <1>1, <1>2, <1>3, <1>4, <1>5, <1>6, <1>7 DEF IndInv

\* A failed connection leaves with an error.
LEMMA ConnectFailsKeeps ==
  ASSUME IndInv, ConnectFails
  PROVE  IndInv'
<1> USE WorkerAssumption DEF ConnectFails,
        objVars, eventVars, queueVars, stateVars, threadVars, worldVars, callerVars
<1>1. TypeOK'
  <2>1. TypeOK BY DEF IndInv
  <2>2. pc' \in Alive \cup Ended BY <2>1 DEF TypeOK, Alive, Ended, Executing
  <2>3. hasError' \in BOOLEAN /\ isRunning' \in BOOLEAN OBVIOUS
  <2> HIDE DEF ConnectFails
  <2>4. UNCHANGED <<callerVars, wakeEvent, runEvent, queueVars, cancelled,
                    currentItemIndex, threadVars, worldVars, overrun>>
    BY DEF ConnectFails
  <2> QED BY <2>1, <2>2, <2>3, <2>4 DEF TypeOK
<1>2. QueueIsSuffix'
  BY DEF IndInv, TypeOK, QueueIsSuffix, Taken
<1>3. CursorFollowsQueue'
  BY DEF IndInv, TypeOK, QueueIsSuffix, CursorFollowsQueue,
         FlagsFollowThread, Taken, Between, Leaving, Executing, Alive, Ended
<1>4. ItemFollowsCursor'
  BY DEF IndInv, TypeOK, CursorFollowsQueue, ItemFollowsCursor,
         FlagsFollowThread, Taken, Alive, Executing, Between, Ended
<1>5. StatusFollowsCursor'
  BY DEF IndInv, TypeOK, CursorFollowsQueue, StatusFollowsCursor,
         FlagsFollowThread, Taken, Between, Leaving, Executing, Alive, Ended
<1>6. FlagsFollowThread'
  BY DEF IndInv, TypeOK, FlagsFollowThread, Taken, Alive, Leaving, Executing, Ended
<1>7. OverrunIsHeld'
  BY DEF IndInv, TypeOK, OverrunIsHeld, Permitted
<1> QED BY <1>1, <1>2, <1>3, <1>4, <1>5, <1>6, <1>7 DEF IndInv

\* Popping the head of the queue keeps it a suffix of AllTasks.
LEMMA TakeTaskKeeps ==
  ASSUME IndInv, TakeTask
  PROVE  IndInv'
<1> USE WorkerAssumption DEF TakeTask,
        objVars, eventVars, queueVars, stateVars, threadVars, worldVars, callerVars
<1>0. \/ /\ pc' \in {"disconnect", "idle"} /\ UNCHANGED taskQueue
      \/ /\ pc' = "popped" /\ Len(taskQueue) > 0
         /\ Len(taskQueue') = Len(taskQueue) - 1
         /\ \A k \in 1 .. Len(taskQueue') : taskQueue'[k] = taskQueue[k + 1]
         /\ currentTask' = taskQueue[1]
  <2>1. taskQueue \in Seq(Tasks) BY DEF IndInv, TypeOK
  <2> QED BY <2>1
<1>1. TypeOK'
  <2>1. TypeOK BY DEF IndInv
  <2>2. CASE pc' = "popped"
    <3>1. taskQueue' \in Seq(Tasks) /\ currentTask' \in Tasks
      BY <2>1, <2>2 DEF TypeOK
    <3> QED BY <2>1, <2>2, <3>1 DEF TypeOK, Tasks, Alive
  <2>3. CASE pc' # "popped"
    <3>1. pc' \in {"disconnect", "idle"} /\ UNCHANGED <<taskQueue, currentTask>>
      BY <2>3
    <3> QED BY <2>1, <3>1 DEF TypeOK, Alive
  <2> QED BY <2>2, <2>3
<1>2. QueueIsSuffix'
  <2>1. CASE pc' = "popped"
    <3>0. /\ Len(taskQueue) \in Nat /\ Len(allTasks) \in Nat
          /\ Len(taskQueue') = Len(taskQueue) - 1 /\ Len(allTasks') = Len(allTasks)
      BY <1>0, <2>1 DEF IndInv, TypeOK
    <3> HIDE DEF TakeTask
    <3>1. Taken' = Taken + 1 BY <3>0 DEF Taken
    <3>2. ASSUME NEW k \in 1 .. Len(taskQueue') PROVE taskQueue'[k] = Taken' + k
      <4>1. k + 1 \in 1 .. Len(taskQueue) /\ taskQueue'[k] = taskQueue[k + 1]
        BY <1>0, <2>1, <3>0
      <4>2. taskQueue[k + 1] = Taken + (k + 1)
        BY <4>1 DEF IndInv, QueueIsSuffix
      <4> QED BY <4>1, <4>2, <3>0, <3>1 DEF Taken
    <3>3. Len(taskQueue') <= Len(allTasks')
      BY <3>0 DEF IndInv, QueueIsSuffix
    <3> QED BY <3>2, <3>3 DEF QueueIsSuffix
  <2>2. CASE pc' # "popped"
    BY <1>0, <2>2 DEF IndInv, QueueIsSuffix, Taken
  <2> QED BY <2>1, <2>2
<1>3. CursorFollowsQueue'
  <2>1. CASE pc' = "popped"
    <3>1. /\ Len(taskQueue) \in Nat \ {0} /\ Len(allTasks) \in Nat
          /\ Len(taskQueue') = Len(taskQueue) - 1 /\ Len(allTasks') = Len(allTasks)
          /\ currentTask' = taskQueue[1] /\ currentTaskIndex' = currentTaskIndex
      BY <1>0, <2>1 DEF IndInv, TypeOK
    <3>2. Taken \in Int /\ Taken' = Taken + 1 BY <3>1 DEF Taken
    <3>3. taskQueue[1] = Taken + 1 /\ currentTaskIndex = Taken
      BY <3>1 DEF IndInv, QueueIsSuffix, CursorFollowsQueue, Between
    <3> QED
      BY <2>1, <3>1, <3>2, <3>3
         DEF CursorFollowsQueue, Between, Leaving, Executing
  <2>2. CASE pc' # "popped"
    BY <1>0, <2>2 DEF IndInv, TypeOK, CursorFollowsQueue, Taken, Between,
       Leaving, Executing
  <2> QED BY <2>1, <2>2
<1>4. ItemFollowsCursor'
  BY DEF IndInv, TypeOK, CursorFollowsQueue, ItemFollowsCursor,
         FlagsFollowThread, Taken, Alive, Executing, Between, Ended
<1>5. StatusFollowsCursor'
  BY DEF IndInv, TypeOK, CursorFollowsQueue, StatusFollowsCursor,
         FlagsFollowThread, Taken, Between, Leaving, Executing, Alive, Ended
<1>6. FlagsFollowThread'
  BY DEF IndInv, TypeOK, FlagsFollowThread, Taken, Alive, Leaving, Executing, Ended
<1>7. OverrunIsHeld'
  BY DEF IndInv, TypeOK, OverrunIsHeld, Permitted
<1> QED BY <1>1, <1>2, <1>3, <1>4, <1>5, <1>6, <1>7 DEF IndInv

\* The idle wait leaves only on StopEvent, which comes with Cancelled.
LEMMA IdleWaitKeeps ==
  ASSUME IndInv, IdleWait
  PROVE  IndInv'
<1> USE WorkerAssumption DEF IdleWait,
        objVars, eventVars, queueVars, stateVars, threadVars, worldVars, callerVars
<1>1. TypeOK'
  <2>1. TypeOK BY DEF IndInv
  <2>2. pc' \in Alive /\ wakeEvent' \in BOOLEAN
    BY <2>1 DEF TypeOK, Alive
  <2> QED BY <2>1, <2>2 DEF TypeOK
<1>2. QueueIsSuffix'
  BY DEF IndInv, TypeOK, QueueIsSuffix, Taken
<1>3. CursorFollowsQueue'
  BY DEF IndInv, TypeOK, QueueIsSuffix, CursorFollowsQueue,
         FlagsFollowThread, Taken, Between, Leaving, Executing, Alive, Ended
<1>4. ItemFollowsCursor'
  BY DEF IndInv, TypeOK, CursorFollowsQueue, ItemFollowsCursor,
         FlagsFollowThread, Taken, Alive, Executing, Between, Ended
<1>5. StatusFollowsCursor'
  BY DEF IndInv, TypeOK, CursorFollowsQueue, StatusFollowsCursor,
         FlagsFollowThread, Taken, Between, Leaving, Executing, Alive, Ended
<1>6. FlagsFollowThread'
  BY DEF IndInv, TypeOK, FlagsFollowThread, Taken, Alive, Leaving, Executing, Ended
<1>7. OverrunIsHeld'
  BY DEF IndInv, TypeOK, OverrunIsHeld, Permitted
<1> QED BY <1>1, <1>2, <1>3, <1>4, <1>5, <1>6, <1>7 DEF IndInv

\* The timeout leaves only with an empty queue.
LEMMA IdleTimeoutKeeps ==
  ASSUME IndInv, IdleTimeout
  PROVE  IndInv'
<1> USE WorkerAssumption DEF IdleTimeout, Goto,
        objVars, eventVars, queueVars, stateVars, threadVars, worldVars, callerVars
<1>1. TypeOK'
  <2>1. TypeOK BY DEF IndInv
  <2>2. pc' \in Alive
    BY <2>1 DEF Alive
  <2> QED BY <2>1, <2>2 DEF TypeOK
<1>2. QueueIsSuffix'
  BY DEF IndInv, TypeOK, QueueIsSuffix, Taken
<1>3. CursorFollowsQueue'
  BY DEF IndInv, TypeOK, QueueIsSuffix, CursorFollowsQueue,
         FlagsFollowThread, Taken, Between, Leaving, Executing, Alive, Ended
<1>4. ItemFollowsCursor'
  BY DEF IndInv, TypeOK, CursorFollowsQueue, ItemFollowsCursor,
         FlagsFollowThread, Taken, Alive, Executing, Between, Ended
<1>5. StatusFollowsCursor'
  BY DEF IndInv, TypeOK, CursorFollowsQueue, StatusFollowsCursor,
         FlagsFollowThread, Taken, Between, Leaving, Executing, Alive, Ended
<1>6. FlagsFollowThread'
  BY DEF IndInv, TypeOK, FlagsFollowThread, Taken, Alive, Leaving, Executing, Ended
<1>7. OverrunIsHeld'
  BY DEF IndInv, TypeOK, OverrunIsHeld, Permitted
<1> QED BY <1>1, <1>2, <1>3, <1>4, <1>5, <1>6, <1>7 DEF IndInv

\* A popped task is dropped only when cancelled.
LEMMA CountTaskKeeps ==
  ASSUME IndInv, CountTask
  PROVE  IndInv'
<1> USE WorkerAssumption DEF CountTask,
        objVars, eventVars, queueVars, stateVars, threadVars, worldVars, callerVars
<1>1. TypeOK'
  <2>1. TypeOK BY DEF IndInv
  <2>2. pc' \in Alive BY DEF Alive
  <2>3. currentItemIndex' \in 0 .. MaxTasks
    BY DEF IndInv, TypeOK, CursorFollowsQueue, ItemFollowsCursor, Taken, Alive, QueueIsSuffix
  <2> QED BY <2>1, <2>2, <2>3 DEF TypeOK
<1>2. QueueIsSuffix'
  BY DEF IndInv, TypeOK, QueueIsSuffix, Taken
<1>3. CursorFollowsQueue'
  BY DEF IndInv, TypeOK, QueueIsSuffix, CursorFollowsQueue,
         FlagsFollowThread, Taken, Between, Leaving, Executing, Alive, Ended
<1>4. ItemFollowsCursor'
  BY DEF IndInv, TypeOK, CursorFollowsQueue, ItemFollowsCursor,
         FlagsFollowThread, Taken, Alive, Executing, Between, Ended
<1>5. StatusFollowsCursor'
  BY DEF IndInv, TypeOK, CursorFollowsQueue, StatusFollowsCursor,
         FlagsFollowThread, Taken, Between, Leaving, Executing, Alive, Ended
<1>6. FlagsFollowThread'
  BY DEF IndInv, TypeOK, FlagsFollowThread, Taken, Alive, Leaving, Executing, Ended
<1>7. OverrunIsHeld'
  BY DEF IndInv, TypeOK, OverrunIsHeld, Permitted
<1> QED BY <1>1, <1>2, <1>3, <1>4, <1>5, <1>6, <1>7 DEF IndInv

\* The slot marked is the one of the popped task.
LEMMA MarkRunningKeeps ==
  ASSUME IndInv, MarkRunning
  PROVE  IndInv'
<1> USE WorkerAssumption DEF MarkRunning,
        objVars, eventVars, queueVars, stateVars, threadVars, worldVars, callerVars
<1>0. /\ TypeOK
      /\ currentTaskIndex < Len(allTasks)
      /\ currentTaskIndex' = currentTaskIndex + 1 /\ taskIdx' = currentTaskIndex + 1
      /\ allTasks' = [allTasks EXCEPT ![currentTaskIndex + 1] = "Running"]
  BY DEF IndInv, TypeOK, CursorFollowsQueue, QueueIsSuffix, Taken
<1>a. /\ allTasks' \in Seq(Status) /\ Len(allTasks') = Len(allTasks)
      /\ \A i \in 1 .. Len(allTasks) :
           allTasks'[i] = IF i = currentTaskIndex + 1 THEN "Running" ELSE allTasks[i]
  BY <1>0 DEF TypeOK, Status
<1>1. TypeOK'
  <2>1. pc' \in Alive BY DEF Alive, Executing
  <2> QED BY <1>0, <1>a, <2>1 DEF TypeOK
<1>2. QueueIsSuffix'
  BY <1>0, <1>a DEF IndInv, TypeOK, QueueIsSuffix, Taken
<1>3. CursorFollowsQueue'
  BY DEF IndInv, TypeOK, QueueIsSuffix, CursorFollowsQueue,
         FlagsFollowThread, Taken, Between, Leaving, Executing, Alive, Ended
<1>4. ItemFollowsCursor'
  BY DEF IndInv, TypeOK, CursorFollowsQueue, ItemFollowsCursor,
         FlagsFollowThread, Taken, Alive, Executing, Between, Ended
<1>5. StatusFollowsCursor'
  <2>1. pc' \in Executing BY DEF Executing
  <2>2. ASSUME NEW i \in 1 .. Len(allTasks')
        PROVE /\ i > currentTaskIndex' => allTasks'[i] = "Waiting"
              /\ i < currentTaskIndex' => allTasks'[i] = "Done"
              /\ i = currentTaskIndex' => allTasks'[i] = "Running"
    BY <1>0, <1>a DEF IndInv, TypeOK, StatusFollowsCursor, Between
  <2> QED BY <1>0, <1>a, <2>1, <2>2
          DEF StatusFollowsCursor, Between, Leaving, Executing, TypeOK
<1>6. FlagsFollowThread'
  BY DEF IndInv, TypeOK, FlagsFollowThread, Taken, Alive, Leaving, Executing, Ended
<1>7. OverrunIsHeld'
  BY DEF IndInv, TypeOK, OverrunIsHeld, Permitted
<1> QED BY <1>1, <1>2, <1>3, <1>4, <1>5, <1>6, <1>7 DEF IndInv

\* Skip goes on as if the file were transferred.
LEMMA AskOverwriteSkipKeeps ==
  ASSUME IndInv, AskOverwriteSkip
  PROVE  IndInv'
<1> USE WorkerAssumption DEF AskOverwriteSkip, AfterFile,
        objVars, eventVars, queueVars, stateVars, threadVars, worldVars, callerVars
<1>1. TypeOK'
  <2>1. currentTask \in Tasks
    BY DEF IndInv, TypeOK, CursorFollowsQueue, QueueIsSuffix, Taken, Executing, Tasks
  <2>2. pc' \in Alive BY DEF Alive, Executing
  <2> QED BY <2>1, <2>2 DEF IndInv, TypeOK
<1>2. QueueIsSuffix'
  BY DEF IndInv, TypeOK, QueueIsSuffix, Taken
<1>3. CursorFollowsQueue'
  BY DEF IndInv, TypeOK, QueueIsSuffix, CursorFollowsQueue,
         FlagsFollowThread, Taken, Between, Leaving, Executing, Alive, Ended
<1>4. ItemFollowsCursor'
  BY DEF IndInv, TypeOK, CursorFollowsQueue, ItemFollowsCursor,
         FlagsFollowThread, Taken, Alive, Executing, Between, Ended
<1>5. StatusFollowsCursor'
  BY DEF IndInv, TypeOK, CursorFollowsQueue, StatusFollowsCursor,
         FlagsFollowThread, Taken, Between, Leaving, Executing, Alive, Ended
<1>6. FlagsFollowThread'
  BY DEF IndInv, TypeOK, FlagsFollowThread, Taken, Alive, Leaving, Executing, Ended
<1>7. OverrunIsHeld'
  BY DEF IndInv, TypeOK, OverrunIsHeld, Permitted
<1> QED BY <1>1, <1>2, <1>3, <1>4, <1>5, <1>6, <1>7 DEF IndInv

\* Cancel in the conflict dialog cancels the transfer.
LEMMA AskOverwriteCancelKeeps ==
  ASSUME IndInv, AskOverwriteCancel
  PROVE  IndInv'
<1> USE WorkerAssumption DEF AskOverwriteCancel,
        objVars, eventVars, queueVars, stateVars, threadVars, worldVars, callerVars
<1>1. TypeOK'
  <2>1. TypeOK BY DEF IndInv
  <2>2. pc' \in Alive \cup Ended BY <2>1 DEF TypeOK, Alive, Ended, Executing
  <2> QED BY <2>1, <2>2 DEF TypeOK
<1>2. QueueIsSuffix'
  BY DEF IndInv, TypeOK, QueueIsSuffix, Taken
<1>3. CursorFollowsQueue'
  BY DEF IndInv, TypeOK, QueueIsSuffix, CursorFollowsQueue,
         FlagsFollowThread, Taken, Between, Leaving, Executing, Alive, Ended
<1>4. ItemFollowsCursor'
  BY DEF IndInv, TypeOK, CursorFollowsQueue, ItemFollowsCursor,
         FlagsFollowThread, Taken, Alive, Executing, Between, Ended
<1>5. StatusFollowsCursor'
  BY DEF IndInv, TypeOK, CursorFollowsQueue, StatusFollowsCursor,
         FlagsFollowThread, Taken, Between, Leaving, Executing, Alive, Ended
<1>6. FlagsFollowThread'
  BY DEF IndInv, TypeOK, FlagsFollowThread, Taken, Alive, Leaving, Executing, Ended
<1>7. OverrunIsHeld'
  BY DEF IndInv, TypeOK, OverrunIsHeld, Permitted
<1> QED BY <1>1, <1>2, <1>3, <1>4, <1>5, <1>6, <1>7 DEF IndInv

\* The block that overruns is moved by a thread that looked before.
LEMMA MoveBlockKeeps ==
  ASSUME IndInv, MoveBlock
  PROVE  IndInv'
<1> USE WorkerAssumption DEF MoveBlock, AfterFile, Permitted,
        objVars, eventVars, queueVars, stateVars, threadVars, worldVars, callerVars
<1>1. TypeOK'
  <2>1. TypeOK BY DEF IndInv
  <2>2. pc' \in Alive \cup Ended BY <2>1 DEF TypeOK, Alive, Ended, Executing
  <2> QED BY <2>1, <2>2 DEF TypeOK
<1>2. QueueIsSuffix'
  BY DEF IndInv, TypeOK, QueueIsSuffix, Taken
<1>3. CursorFollowsQueue'
  BY DEF IndInv, TypeOK, QueueIsSuffix, CursorFollowsQueue,
         FlagsFollowThread, Taken, Between, Leaving, Executing, Alive, Ended
<1>4. ItemFollowsCursor'
  BY DEF IndInv, TypeOK, CursorFollowsQueue, ItemFollowsCursor,
         FlagsFollowThread, Taken, Alive, Executing, Between, Ended
<1>5. StatusFollowsCursor'
  BY DEF IndInv, TypeOK, CursorFollowsQueue, StatusFollowsCursor,
         FlagsFollowThread, Taken, Between, Leaving, Executing, Alive, Ended
<1>6. FlagsFollowThread'
  BY DEF IndInv, TypeOK, FlagsFollowThread, Taken, Alive, Leaving, Executing, Ended
<1>7. OverrunIsHeld'
  BY DEF IndInv, TypeOK, OverrunIsHeld, Permitted
<1> QED BY <1>1, <1>2, <1>3, <1>4, <1>5, <1>6, <1>7 DEF IndInv

\* An entry belongs to the running task.
LEMMA EnterEntryKeeps ==
  ASSUME IndInv, EnterEntry
  PROVE  IndInv'
<1> USE WorkerAssumption DEF EnterEntry,
        objVars, eventVars, queueVars, stateVars, threadVars, worldVars, callerVars
<1>1. TypeOK'
  <2>1. TypeOK BY DEF IndInv
  <2>2. pc' \in Alive BY DEF Alive, Executing
  <2>3. currentTask \in Tasks
    BY DEF IndInv, TypeOK, CursorFollowsQueue, Executing, Tasks
  <2> QED BY <2>1, <2>2, <2>3 DEF TypeOK
<1>2. QueueIsSuffix'
  BY DEF IndInv, TypeOK, QueueIsSuffix, Taken
<1>3. CursorFollowsQueue'
  BY DEF IndInv, TypeOK, QueueIsSuffix, CursorFollowsQueue,
         FlagsFollowThread, Taken, Between, Leaving, Executing, Alive, Ended
<1>4. ItemFollowsCursor'
  BY DEF IndInv, TypeOK, CursorFollowsQueue, ItemFollowsCursor,
         FlagsFollowThread, Taken, Alive, Executing, Between, Ended
<1>5. StatusFollowsCursor'
  BY DEF IndInv, TypeOK, CursorFollowsQueue, StatusFollowsCursor,
         FlagsFollowThread, Taken, Between, Leaving, Executing, Alive, Ended
<1>6. FlagsFollowThread'
  BY DEF IndInv, TypeOK, FlagsFollowThread, Taken, Alive, Leaving, Executing, Ended
<1>7. OverrunIsHeld'
  BY DEF IndInv, TypeOK, OverrunIsHeld, Permitted
<1> QED BY <1>1, <1>2, <1>3, <1>4, <1>5, <1>6, <1>7 DEF IndInv

\* A task that succeeded is still the running one.
LEMMA RemoveSourceKeeps ==
  ASSUME IndInv, RemoveSource
  PROVE  IndInv'
<1> USE WorkerAssumption DEF RemoveSource,
        objVars, eventVars, queueVars, stateVars, threadVars, worldVars, callerVars
<1>1. TypeOK'
  <2>1. TypeOK BY DEF IndInv
  <2>2. pc' \in Alive \cup Ended BY <2>1 DEF TypeOK, Alive, Ended, Executing
  <2> QED BY <2>1, <2>2 DEF TypeOK
<1>2. QueueIsSuffix'
  BY DEF IndInv, TypeOK, QueueIsSuffix, Taken
<1>3. CursorFollowsQueue'
  BY DEF IndInv, TypeOK, QueueIsSuffix, CursorFollowsQueue,
         FlagsFollowThread, Taken, Between, Leaving, Executing, Alive, Ended
<1>4. ItemFollowsCursor'
  BY DEF IndInv, TypeOK, CursorFollowsQueue, ItemFollowsCursor,
         FlagsFollowThread, Taken, Alive, Executing, Between, Ended
<1>5. StatusFollowsCursor'
  BY DEF IndInv, TypeOK, CursorFollowsQueue, StatusFollowsCursor,
         FlagsFollowThread, Taken, Between, Leaving, Executing, Alive, Ended
<1>6. FlagsFollowThread'
  BY DEF IndInv, TypeOK, FlagsFollowThread, Taken, Alive, Leaving, Executing, Ended
<1>7. OverrunIsHeld'
  BY DEF IndInv, TypeOK, OverrunIsHeld, Permitted
<1> QED BY <1>1, <1>2, <1>3, <1>4, <1>5, <1>6, <1>7 DEF IndInv

\* The status recorded is the one of the running task.
LEMMA RecordStatusKeeps ==
  ASSUME IndInv, RecordStatus
  PROVE  IndInv'
<1> USE WorkerAssumption DEF RecordStatus,
        objVars, eventVars, queueVars, stateVars, threadVars, worldVars, callerVars
<1>1. TypeOK'
  <2>1. TypeOK BY DEF IndInv
  <2>2. allTasks' \in Seq(Status) /\ Len(allTasks') = Len(allTasks)
    BY <2>1 DEF TypeOK, Status
  <2> QED BY <2>1, <2>2 DEF TypeOK, Alive
<1>2. QueueIsSuffix'
  BY DEF IndInv, TypeOK, QueueIsSuffix, Taken
<1>3. CursorFollowsQueue'
  <2>1. Len(allTasks') = Len(allTasks) BY DEF IndInv, TypeOK
  <2>2. Taken' = Taken BY <2>1 DEF Taken
  <2>3. pc' = "outcome" /\ currentTaskIndex' = currentTaskIndex OBVIOUS
  <2>4. Taken > 0 /\ currentTaskIndex = Taken
    BY DEF IndInv, CursorFollowsQueue
  <2> QED BY <2>2, <2>3, <2>4 DEF CursorFollowsQueue, Between, Executing, Leaving
<1>4. ItemFollowsCursor'
  BY DEF IndInv, TypeOK, CursorFollowsQueue, ItemFollowsCursor,
         FlagsFollowThread, Taken, Alive, Executing, Between, Ended
<1>5. StatusFollowsCursor'
  BY DEF IndInv, TypeOK, CursorFollowsQueue, StatusFollowsCursor,
         FlagsFollowThread, Taken, Between, Leaving, Executing, Alive, Ended
<1>6. FlagsFollowThread'
  BY DEF IndInv, TypeOK, FlagsFollowThread, Taken, Alive, Leaving, Executing, Ended
<1>7. OverrunIsHeld'
  BY DEF IndInv, TypeOK, OverrunIsHeld, Permitted
<1> QED BY <1>1, <1>2, <1>3, <1>4, <1>5, <1>6, <1>7 DEF IndInv

\* A failed task leaves an error or a cancel behind.
LEMMA LoopOrLeaveKeeps ==
  ASSUME IndInv, LoopOrLeave
  PROVE  IndInv'
<1> USE WorkerAssumption DEF LoopOrLeave,
        objVars, eventVars, queueVars, stateVars, threadVars, worldVars, callerVars
<1>1. TypeOK'
  <2>1. TypeOK BY DEF IndInv
  <2>2. pc' \in Alive /\ hasError' \in BOOLEAN /\ currentTask' = 0 /\ taskIdx' = 0
    BY <2>1 DEF TypeOK, Alive
  <2> QED BY <2>1, <2>2 DEF TypeOK
<1>2. QueueIsSuffix'
  BY DEF IndInv, TypeOK, QueueIsSuffix, Taken
<1>3. CursorFollowsQueue'
  BY DEF IndInv, TypeOK, QueueIsSuffix, CursorFollowsQueue,
         FlagsFollowThread, Taken, Between, Leaving, Executing, Alive, Ended
<1>4. ItemFollowsCursor'
  BY DEF IndInv, TypeOK, CursorFollowsQueue, ItemFollowsCursor,
         FlagsFollowThread, Taken, Alive, Executing, Between, Ended
<1>5. StatusFollowsCursor'
  BY DEF IndInv, TypeOK, CursorFollowsQueue, StatusFollowsCursor,
         FlagsFollowThread, Taken, Between, Leaving, Executing, Alive, Ended
<1>6. FlagsFollowThread'
  BY DEF IndInv, TypeOK, FlagsFollowThread, Taken, Alive, Leaving, Executing, Ended
<1>7. OverrunIsHeld'
  BY DEF IndInv, TypeOK, OverrunIsHeld, Permitted
<1> QED BY <1>1, <1>2, <1>3, <1>4, <1>5, <1>6, <1>7 DEF IndInv

\* IsRunning goes down before FINISHED is posted.
LEMMA LeaveKeeps ==
  ASSUME IndInv, Leave
  PROVE  IndInv'
<1> USE WorkerAssumption DEF Leave,
        objVars, eventVars, queueVars, stateVars, threadVars, worldVars, callerVars
<1>1. TypeOK'
  <2>1. TypeOK BY DEF IndInv
  <2>2. pc' \in Alive /\ isRunning' \in BOOLEAN
    BY <2>1 DEF Alive
  <2> QED BY <2>1, <2>2 DEF TypeOK
<1>2. QueueIsSuffix'
  BY DEF IndInv, TypeOK, QueueIsSuffix, Taken
<1>3. CursorFollowsQueue'
  BY DEF IndInv, TypeOK, QueueIsSuffix, CursorFollowsQueue,
         FlagsFollowThread, Taken, Between, Leaving, Executing, Alive, Ended
<1>4. ItemFollowsCursor'
  BY DEF IndInv, TypeOK, CursorFollowsQueue, ItemFollowsCursor,
         FlagsFollowThread, Taken, Alive, Executing, Between, Ended
<1>5. StatusFollowsCursor'
  BY DEF IndInv, TypeOK, CursorFollowsQueue, StatusFollowsCursor,
         FlagsFollowThread, Taken, Between, Leaving, Executing, Alive, Ended
<1>6. FlagsFollowThread'
  BY DEF IndInv, TypeOK, FlagsFollowThread, Taken, Alive, Leaving, Executing, Ended
<1>7. OverrunIsHeld'
  BY DEF IndInv, TypeOK, OverrunIsHeld, Permitted
<1> QED BY <1>1, <1>2, <1>3, <1>4, <1>5, <1>6, <1>7 DEF IndInv

\* FINISHED is posted once.
LEMMA PostFinishedKeeps ==
  ASSUME IndInv, PostFinished
  PROVE  IndInv'
<1> USE WorkerAssumption DEF PostFinished,
        objVars, eventVars, queueVars, stateVars, threadVars, worldVars, callerVars
<1>1. TypeOK'
  <2>1. TypeOK BY DEF IndInv
  <2>2. pc' \in Alive \cup Ended BY <2>1 DEF TypeOK, Alive, Ended, Executing
  <2> QED BY <2>1, <2>2 DEF TypeOK
<1>2. QueueIsSuffix'
  BY DEF IndInv, TypeOK, QueueIsSuffix, Taken
<1>3. CursorFollowsQueue'
  BY DEF IndInv, TypeOK, QueueIsSuffix, CursorFollowsQueue,
         FlagsFollowThread, Taken, Between, Leaving, Executing, Alive, Ended
<1>4. ItemFollowsCursor'
  BY DEF IndInv, TypeOK, CursorFollowsQueue, ItemFollowsCursor,
         FlagsFollowThread, Taken, Alive, Executing, Between, Ended
<1>5. StatusFollowsCursor'
  BY DEF IndInv, TypeOK, CursorFollowsQueue, StatusFollowsCursor,
         FlagsFollowThread, Taken, Between, Leaving, Executing, Alive, Ended
<1>6. FlagsFollowThread'
  BY DEF IndInv, TypeOK, FlagsFollowThread, Taken, Alive, Leaving, Executing, Ended
<1>7. OverrunIsHeld'
  BY DEF IndInv, TypeOK, OverrunIsHeld, Permitted
<1> QED BY <1>1, <1>2, <1>3, <1>4, <1>5, <1>6, <1>7 DEF IndInv

\* The steps of ExecuteTask that only look at a flag.
LEMMA ExecuteTaskKeeps ==
  ASSUME IndInv, ExecuteTask
  PROVE  IndInv'
<1> USE FailKeeps, GotoKeeps DEF FailIfCancelled, Executing
<1>1. CASE EnterFile BY <1>1 DEF EnterFile
<1>2. CASE EnterDirectory BY <1>2 DEF EnterDirectory
<1>3. CASE NextEntry BY <1>3, EnterEntryKeeps DEF NextEntry
<1>4. CASE AskOverwriteGo BY <1>4 DEF AskOverwriteGo
<1>5. CASE CheckCancelled BY <1>5 DEF CheckCancelled
<1>6. CASE ReportProgressWait BY <1>6 DEF ReportProgressWait
<1>7. CASE ReportProgress BY <1>7 DEF ReportProgress
<1>8. CASE MoveFails BY <1>8 DEF MoveFails
<1> QED
  BY <1>1, <1>2, <1>3, <1>4, <1>5, <1>6, <1>7, <1>8, AskOverwriteSkipKeeps,
     AskOverwriteCancelKeeps, MoveBlockKeeps, RemoveSourceKeeps DEF ExecuteTask

-----------------------------------------------------------------------------
(* The inductive invariant                                                 *)

\* The inductive invariant holds at first.
LEMMA InitInv == Init => IndInv
<1> SUFFICES ASSUME Init PROVE IndInv OBVIOUS
<1> USE WorkerAssumption DEF Init
<1>0. /\ Len(taskQueue) = 0 /\ Len(allTasks) = 0
      /\ taskQueue \in Seq(Tasks) /\ allTasks \in Seq(Status)
  OBVIOUS
<1>1. TypeOK
  <2>1. /\ currentTaskIndex \in 0 .. MaxTasks /\ currentItemIndex \in 0 .. MaxTasks
        /\ currentTask \in 0 .. MaxTasks /\ taskIdx \in 0 .. MaxTasks
        /\ finishedMsgs \in Nat /\ overrun \in Nat
    OBVIOUS
  <2>2. pc \in Alive \cup Ended BY DEF Ended
  <2>3. /\ threadHandle \in BOOLEAN /\ started \in BOOLEAN /\ dlgHwnd \in BOOLEAN
        /\ wakeEvent \in BOOLEAN /\ stopEvent \in BOOLEAN /\ runEvent \in BOOLEAN
        /\ cancelled \in BOOLEAN /\ isPaused \in BOOLEAN /\ isRunning \in BOOLEAN
        /\ hasError \in BOOLEAN /\ success \in BOOLEAN
    OBVIOUS
  <2>4. Len(allTasks) <= MaxTasks BY <1>0
  <2> QED BY <1>0, <2>1, <2>2, <2>3, <2>4 DEF TypeOK
<1>2. QueueIsSuffix BY <1>0 DEF QueueIsSuffix, Taken
<1>3. CursorFollowsQueue
  BY <1>0 DEF CursorFollowsQueue, Taken, Executing, Leaving, Between
<1>4. ItemFollowsCursor BY DEF ItemFollowsCursor, Alive, Executing
<1>5. StatusFollowsCursor
  BY <1>0 DEF StatusFollowsCursor, Executing, Leaving, Between
<1>6. FlagsFollowThread BY DEF FlagsFollowThread, Alive, Executing, Leaving
<1>7. OverrunIsHeld BY DEF OverrunIsHeld
<1> QED BY <1>1, <1>2, <1>3, <1>4, <1>5, <1>6, <1>7 DEF IndInv

\* A step of nobody keeps it.
LEMMA StutterKeeps == IndInv /\ UNCHANGED vars => IndInv'
BY DEF vars, objVars, eventVars, queueVars, stateVars, threadVars, worldVars,
   IndInv, TypeOK, QueueIsSuffix, CursorFollowsQueue, ItemFollowsCursor,
   StatusFollowsCursor, FlagsFollowThread, OverrunIsHeld, Taken, Permitted

\* Every step of the callers, the worker and the world keeps it.
LEMMA NextKeeps == IndInv /\ [Next]_vars => IndInv'
<1> SUFFICES ASSUME IndInv, [Next]_vars PROVE IndInv' OBVIOUS
<1>1. CASE Callers
  BY <1>1, EnqueueTaskKeeps, StartKeeps, StartReturnsKeeps, CancelKeeps,
     SetPausedKeeps, StopKeeps, StopSignalsKeeps, StopJoinsKeeps, StopTerminatesKeeps, ResetKeeps
     DEF Callers
<1>2. CASE ThreadLoop
  BY <1>2, ConnectOkKeeps, ConnectFailsKeeps, TakeTaskKeeps, IdleWaitKeeps,
     IdleTimeoutKeeps, CountTaskKeeps, MarkRunningKeeps, ExecuteTaskKeeps,
     RecordStatusKeeps, LoopOrLeaveKeeps, LeaveKeeps, PostFinishedKeeps
     DEF ThreadLoop
<1> QED BY <1>1, <1>2, StutterKeeps DEF Next

\* IndInv holds in every reachable state of the worker.
THEOREM Invariance == Spec => []IndInv
<1>1. Init => IndInv BY InitInv
<1>2. IndInv /\ [Next]_vars => IndInv' BY NextKeeps
<1> QED BY <1>1, <1>2, PTL DEF Spec

-----------------------------------------------------------------------------
(* What follows from it                                                    *)

\* Every variable of the worker keeps its type.
THEOREM TypeCorrect == Spec => []TypeOK
<1>1. IndInv => TypeOK BY DEF IndInv
<1> QED BY <1>1, Invariance, PTL

\* ThreadLoop serves AllTasks in order and stops at the first task that does
\* not succeed.
THEOREM InOrder == Spec => []TasksInOrder
<1>1. IndInv => TasksInOrder
  BY DEF IndInv, TypeOK, StatusFollowsCursor, TasksInOrder
<1> QED BY <1>1, Invariance, PTL

\* The slot that CurrentTaskIndex yields is the one of the popped task.
THEOREM OwnSlot == Spec => []ReportsOwnTask
<1>1. IndInv => ReportsOwnTask
  BY DEF IndInv, TypeOK, QueueIsSuffix, CursorFollowsQueue,
         StatusFollowsCursor, ReportsOwnTask, Taken
<1> QED BY <1>1, Invariance, PTL

\* A task that has not been popped is in TaskQueue.
LEMMA QueuedTask ==
  ASSUME IndInv, NEW i \in 1 .. Len(allTasks), i > Taken
  PROVE  \E k \in 1 .. Len(taskQueue) : taskQueue[k] = i
<1>1. Len(allTasks) \in Nat /\ Len(taskQueue) \in Nat
  BY DEF IndInv, TypeOK
<1>2. i - Taken \in 1 .. Len(taskQueue)
  BY <1>1 DEF Taken
<1>3. taskQueue[i - Taken] = Taken + (i - Taken)
  BY <1>2 DEF IndInv, QueueIsSuffix
<1> QED BY <1>1, <1>2, <1>3 DEF Taken

\* A waiting task is never dropped unless the transfer is cancelled.
THEOREM NothingLost == Spec => []NoTaskLost
<1>1. IndInv => NoTaskLost
  <2> SUFFICES ASSUME IndInv, NEW i \in 1 .. Len(allTasks),
                      allTasks[i] = "Waiting", ~cancelled
               PROVE  \/ \E k \in 1 .. Len(taskQueue) : taskQueue[k] = i
                      \/ pc \in {"popped", "mark"} /\ currentTask = i
    BY DEF NoTaskLost
  <2>1. CASE i > Taken BY <2>1, QueuedTask
  <2>2. CASE i <= Taken
    <3>1. i > currentTaskIndex
      BY DEF IndInv, TypeOK, StatusFollowsCursor
    <3>2. currentTaskIndex # Taken
      BY <2>2, <3>1 DEF IndInv, TypeOK, Taken
    <3>3. pc \in {"popped", "mark"}
      BY <3>2 DEF IndInv, TypeOK, CursorFollowsQueue, Alive, Ended, Between,
         Leaving
    <3>4. currentTask = Taken /\ currentTaskIndex + 1 = Taken
      BY <3>3 DEF IndInv, CursorFollowsQueue
    <3> QED BY <2>2, <3>1, <3>3, <3>4 DEF IndInv, TypeOK
  <2> QED BY <2>1, <2>2 DEF IndInv, TypeOK, Taken
<1> QED BY <1>1, Invariance, PTL

\* A worker that ends without an error and without a cancel has done every
\* task that was there at its last look into TaskQueue: the dialog may close by
\* itself.
THEOREM QuietFinish == Spec => []QuietFinishIsComplete
<1>1. IndInv => QuietFinishIsComplete
  <2> SUFFICES ASSUME IndInv, pc = "exited", ~hasError, ~cancelled,
                      NEW i \in 1 .. Len(allTasks)
               PROVE  allTasks[i] = "Done" \/ (LateEnqueue /\ i > lastLook)
    BY DEF QuietFinishIsComplete
  <2>1. CASE i > Taken
    <3>1. \E k \in 1 .. Len(taskQueue) : taskQueue[k] = i BY <2>1, QueuedTask
    <3>2. LateEnqueue
      BY <3>1 DEF IndInv, TypeOK, FlagsFollowThread, Leaving
    <3>3. lastLook <= Taken
      BY DEF IndInv, FlagsFollowThread, Leaving
    <3>4. i > lastLook
      BY <2>1, <3>3 DEF IndInv, TypeOK, Taken
    <3> QED BY <3>2, <3>4
  <2>2. CASE i <= Taken
    BY <2>2 DEF IndInv, TypeOK, CursorFollowsQueue, StatusFollowsCursor,
       Taken, Leaving
  <2> QED BY <2>1, <2>2 DEF IndInv, TypeOK, Taken
<1> QED BY <1>1, Invariance, PTL

\* FINISHED is posted once, last, and never withheld from an attached dialog.
THEOREM FinishedOnce == Spec => []FinishedIsLast
<1>1. IndInv => FinishedIsLast
  BY DEF IndInv, TypeOK, FlagsFollowThread, FinishedIsLast
<1> QED BY <1>1, Invariance, PTL

\* After a pause, a cancel or a stop at most one more block is moved.
THEOREM AtMostOneMoreBlock == Spec => []BoundedOverrun
<1>1. IndInv => BoundedOverrun BY DEF IndInv, OverrunIsHeld, BoundedOverrun
<1> QED BY <1>1, Invariance, PTL

-----------------------------------------------------------------------------
(* The refinement                                                          *)

\* A step that leaves the task list and the liveness of the thread alone is a
\* stuttering step of the job.
LEMMA QuietStep ==
  ASSUME UNCHANGED allTasks,
         UNCHANGED pc \/ (pc \in Alive /\ pc' \in Alive)
  PROVE  UNCHANGED Job!jobVars
BY DEF Job!jobVars, JobPhase, Alive, Executing

\* Executing a task does not touch the list of the job.
LEMMA ExecuteTaskQuiet ==
  ASSUME ExecuteTask
  PROVE  UNCHANGED allTasks /\ pc \in Alive /\ pc' \in Alive
<1> USE DEF Goto, Fail, FailIfCancelled, AfterFile, queueVars, Alive, Executing
<1>1. CASE EnterFile \/ EnterDirectory \/ NextEntry
  BY <1>1 DEF EnterFile, EnterDirectory, NextEntry, EnterEntry
<1>2. CASE AskOverwriteGo \/ AskOverwriteSkip \/ AskOverwriteCancel
  BY <1>2 DEF AskOverwriteGo, AskOverwriteSkip, AskOverwriteCancel
<1>3. CASE CheckCancelled \/ ReportProgressWait \/ ReportProgress
  BY <1>3 DEF CheckCancelled, ReportProgressWait, ReportProgress
<1>4. CASE MoveBlock \/ MoveFails \/ RemoveSource
  BY <1>4 DEF MoveBlock, MoveFails, RemoveSource
<1> QED BY <1>1, <1>2, <1>3, <1>4 DEF ExecuteTask

\* MarkRunning begins the first task that is not done.
LEMMA MarkBegins == ASSUME IndInv, MarkRunning PROVE Job!JobNext
<1>1. /\ currentTaskIndex + 1 \in 1 .. Len(allTasks)
      /\ allTasks' = [allTasks EXCEPT ![currentTaskIndex + 1] = "Running"]
  BY DEF MarkRunning, IndInv, TypeOK, CursorFollowsQueue, QueueIsSuffix, Taken
<1>2. pc \in Alive /\ pc' \in Alive
  BY DEF MarkRunning, Alive, Executing
<1>3. allTasks[currentTaskIndex + 1] = "Waiting"
  BY <1>1 DEF IndInv, TypeOK, StatusFollowsCursor
<1>4. ASSUME NEW j \in 1 .. ((currentTaskIndex + 1) - 1)
      PROVE  allTasks[j] = "Done"
  BY <1>1 DEF IndInv, TypeOK, StatusFollowsCursor, MarkRunning, Between
<1>5. JobPhase = "running" /\ JobPhase' = "running"
  BY <1>2 DEF JobPhase, Alive, Executing
<1>6. Job!Begin(currentTaskIndex + 1)
  BY <1>1, <1>3, <1>4, <1>5 DEF Job!Begin
<1> QED BY <1>1, <1>6 DEF Job!JobNext

\* RecordStatus finishes the running task.
LEMMA RecordFinishes == ASSUME IndInv, RecordStatus PROVE Job!JobNext
<1>1. /\ taskIdx \in 1 .. Len(allTasks) /\ allTasks[taskIdx] = "Running"
  BY DEF RecordStatus, IndInv, TypeOK, CursorFollowsQueue, QueueIsSuffix,
     StatusFollowsCursor, Taken
<1>2. \E outcome \in {"Done", "Error", "Skipped"} :
        allTasks' = [allTasks EXCEPT ![taskIdx] = outcome]
  BY <1>1 DEF RecordStatus
<1>3. JobPhase = "running" /\ JobPhase' = "running"
  BY DEF RecordStatus, JobPhase, Alive
<1>4. Job!Finish(taskIdx) BY <1>1, <1>2, <1>3 DEF Job!Finish
<1> QED BY <1>1, <1>4 DEF Job!JobNext

\* PostFinished closes the job between two tasks.
LEMMA PostCloses == ASSUME IndInv, PostFinished PROVE Job!JobNext
<1>1. \A i \in 1 .. Len(allTasks) : allTasks[i] # "Running"
  BY DEF PostFinished, IndInv, TypeOK, StatusFollowsCursor, Leaving
<1>2. JobPhase = "running" /\ JobPhase' = "over" /\ UNCHANGED allTasks
  BY DEF PostFinished, JobPhase, Alive, Executing, queueVars
<1> QED BY <1>1, <1>2 DEF Job!Close, Job!JobNext

\* Every step of the worker is a step of the job, or none.
LEMMA StepRefines == ASSUME IndInv, [Next]_vars PROVE [Job!JobNext]_(Job!jobVars)
<1>1. CASE EnqueueTask
  <2>1. Job!Submit BY <1>1 DEF EnqueueTask, Job!Submit, JobPhase
  <2> QED BY <2>1 DEF Job!JobNext
<1>2. CASE \E hwnd \in BOOLEAN : Start(hwnd)
  <2>1. pc = "none" /\ UNCHANGED allTasks
    BY <1>2 DEF Start, IndInv, TypeOK, FlagsFollowThread, queueVars
  <2>2. pc' = "connect" \/ UNCHANGED pc BY <1>2 DEF Start
  <2>3. CASE pc' = "connect"
    <3>1. Job!Launch BY <2>1, <2>3 DEF Job!Launch, JobPhase, Alive
    <3> QED BY <3>1 DEF Job!JobNext
  <2> QED BY <2>1, <2>2, <2>3, QuietStep
<1>3. CASE StartReturns \/ Cancel \/ (\E paused \in BOOLEAN : SetPaused(paused))
           \/ Stop \/ StopSignals \/ StopJoins
  <2>1. UNCHANGED <<allTasks, pc>>
    BY <1>3 DEF StartReturns, Cancel, SetPaused, Stop, StopSignals, StopJoins, StopReturns,
       queueVars
  <2> QED BY <2>1, QuietStep
<1>4. CASE StopTerminates
  <2>1. Job!Abort
    BY <1>4 DEF StopTerminates, StopReturns, Job!Abort, JobPhase, Alive,
       Executing, queueVars
  <2> QED BY <2>1 DEF Job!JobNext
<1>5. CASE Reset
  <2>1. Job!Clear
    BY <1>5 DEF Reset, Job!Clear, JobPhase, Alive, Executing, Ended
  <2> QED BY <2>1 DEF Job!JobNext
<1>6. CASE ConnectOk \/ ConnectFails \/ TakeTask \/ IdleWait \/ IdleTimeout
           \/ CountTask \/ LoopOrLeave \/ Leave
  <2>1. UNCHANGED allTasks /\ pc \in Alive /\ pc' \in Alive
    BY <1>6 DEF ConnectOk, ConnectFails, TakeTask, IdleWait, IdleTimeout,
       CountTask, LoopOrLeave, Leave, Goto, queueVars, Alive
  <2> QED BY <2>1, QuietStep
<1>7. CASE ExecuteTask BY <1>7, ExecuteTaskQuiet, QuietStep
<1>8. CASE MarkRunning BY <1>8, MarkBegins
<1>9. CASE RecordStatus BY <1>9, RecordFinishes
<1>10. CASE PostFinished BY <1>10, PostCloses
<1>11. CASE UNCHANGED vars
  BY <1>11, QuietStep DEF vars, queueVars
<1> QED
  BY <1>1, <1>2, <1>3, <1>4, <1>5, <1>6, <1>7, <1>8, <1>9, <1>10, <1>11
     DEF Next, Callers, ThreadLoop

\* The worker implements TransferJob: whoever watches the task list sees tasks
\* served one at a time, in order, and none touched after the job is over.
THEOREM Refinement == Spec => ImplementsJob
<1>1. Init => Job!JobInit BY DEF Init, Job!JobInit, JobPhase
<1>2. IndInv /\ [Next]_vars => [Job!JobNext]_(Job!jobVars) BY StepRefines
<1> QED BY <1>1, <1>2, Invariance, PTL DEF Spec, ImplementsJob, Job!JobSpec

=============================================================================
