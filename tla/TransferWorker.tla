--------------------------- MODULE TransferWorker ---------------------------
(***************************************************************************)
(* CSftpTransferWorker (src/src/sftpworker.h, sftpworker.cpp): a           *)
(* background thread with its own connection that takes transfer tasks     *)
(* from a queue, and the calls other threads make on it: EnqueueTask,      *)
(* Start, Cancel, SetPaused, Stop and Reset.                               *)
(*                                                                         *)
(* The thread's steps are cut at the places where another thread can act   *)
(* between them: the two critical sections (QueueLock, State.Lock), the    *)
(* waits on the three events, and every network or disk operation.  The    *)
(* data of a transfer (names, bytes, resume offsets) is the subject of     *)
(* module FileTransfer; here a file is a sequence of blocks of unknown     *)
(* length and a directory is a sequence of entries of unknown length.      *)
(***************************************************************************)
EXTENDS Naturals, Sequences, FiniteSets

CONSTANTS
  MaxTasks,     \* bound on the tasks of one operation
  Directories,  \* the tasks with IsDirectory set
  Moves,        \* the tasks with DeleteSourceOnSuccess set
  LateEnqueue   \* may EnqueueTask be called after Start?  The plugin never
                \* does; the class allows it

Tasks == 1 .. MaxTasks

ASSUME WorkerAssumption ==
  /\ MaxTasks \in Nat \ {0}
  /\ Directories \subseteq Tasks
  /\ Moves \subseteq Tasks
  /\ LateEnqueue \in BOOLEAN

VARIABLES
  \* The object, as the calling threads see it.
  threadHandle,   \* is ThreadHandle non-NULL?
  started,        \* has Start run since the constructor or Reset?
  startPc,        \* a thread inside Start: "idle" or "creating"
  stopPc,         \* a thread inside Stop: "idle", "signal" or "waiting"
  dlgHwnd,        \* is DlgHwnd non-NULL?
  \* The three events: auto-reset WakeEvent, manual-reset StopEvent, RunEvent.
  wakeEvent, stopEvent, runEvent,
  \* Under QueueLock.
  taskQueue,      \* TaskQueue: the numbers of the tasks waiting in the deque
  allTasks,       \* AllTasks: the status of every task enqueued
  currentTaskIndex,
  lastLook,       \* history: the tasks of AllTasks when the thread last looked
                  \* into TaskQueue
  \* Under State.Lock.
  cancelled, isPaused, isRunning, hasError, currentItemIndex,
  \* The worker thread.
  pc,             \* where the thread is
  currentTask,    \* the task popped from TaskQueue, 0 when none
  taskIdx,        \* the slot of AllTasks it reports to, 0 for (size_t)-1
  success,        \* what ExecuteTask returned
  \* What the outside world sees.
  finishedMsgs,   \* WM_APP_SFTP_WORKER_FINISHED messages posted
  skippedFiles,   \* tasks in which a conflict was answered with Skip
  removedSources, \* tasks whose source ExecuteTask has removed
  nonEmpty,       \* directory tasks whose source holds an entry
  overrun         \* blocks moved since the transfer was last told to stop

objVars   == <<threadHandle, started, startPc, stopPc, dlgHwnd>>
eventVars == <<wakeEvent, stopEvent, runEvent>>
queueVars == <<taskQueue, allTasks, currentTaskIndex, lastLook>>
stateVars == <<cancelled, isPaused, isRunning, hasError, currentItemIndex>>
threadVars == <<currentTask, taskIdx, success>>
worldVars == <<finishedMsgs, skippedFiles, removedSources, nonEmpty>>

vars == <<objVars, eventVars, queueVars, stateVars, pc, threadVars,
          worldVars, overrun>>

Status == {"Waiting", "Running", "Done", "Error", "Skipped"}

\* Inside ExecuteTask.
Executing == {"enter", "enterDir", "next", "ask", "check", "progress",
              "report", "io", "remove"}

\* Thread positions with a live thread, and without one.
Alive == Executing \cup {"connect", "top", "idle", "recheck", "popped", "mark",
                         "status", "outcome", "disconnect", "post"}
Ended == {"none", "exited", "killed"}

\* May the transfer go on, as far as the thread's next look can tell?
Permitted == runEvent /\ ~cancelled /\ ~stopEvent

-----------------------------------------------------------------------------
(* Calls by other threads                                                  *)

\* EnqueueTask: both containers grow under QueueLock, then WakeEvent is set.
\* The thread may take the task before it looks at the event, which then
\* stays signalled for a task that is already gone.
EnqueueTask ==
  /\ ~started \/ LateEnqueue
  /\ Len(allTasks) < MaxTasks
  /\ taskQueue' = Append(taskQueue, Len(allTasks) + 1)
  /\ allTasks' = Append(allTasks, "Waiting")
  /\ wakeEvent' = TRUE
  /\ UNCHANGED <<objVars, stopEvent, runEvent, currentTaskIndex, lastLook,
                 stateVars, pc, threadVars, worldVars, overrun>>

\* Start up to and including _beginthreadex: an operation is started once
\* (Reset comes before another, so that no old handle is left to close).
\* IsPaused is not touched.  Creating the thread may fail.
Start(hwnd) ==
  /\ ~started
  /\ startPc = "idle" /\ stopPc = "idle"
  /\ ~threadHandle
  /\ started' = TRUE
  /\ dlgHwnd' = hwnd
  /\ stopEvent' = FALSE /\ wakeEvent' = FALSE /\ runEvent' = TRUE
  /\ cancelled' = FALSE
  /\ currentItemIndex' = 0
  /\ overrun' = 0
  /\ \/ /\ pc' = "connect"
        /\ startPc' = "creating"
        /\ isRunning' = TRUE /\ hasError' = FALSE
     \/ /\ isRunning' = FALSE /\ hasError' = TRUE
        /\ UNCHANGED <<pc, startPc>>
  /\ UNCHANGED <<threadHandle, stopPc, queueVars, isPaused, threadVars,
                 worldVars>>

\* _beginthreadex has returned in the caller: ThreadHandle is assigned while
\* the new thread is already running.
StartReturns ==
  /\ startPc = "creating"
  /\ startPc' = "idle"
  /\ threadHandle' = TRUE
  /\ UNCHANGED <<started, stopPc, dlgHwnd, eventVars, queueVars, stateVars,
                 pc, threadVars, worldVars, overrun>>

\* Cancel, called from the dialog.
Cancel ==
  /\ cancelled' = TRUE
  /\ runEvent' = TRUE /\ wakeEvent' = TRUE
  /\ UNCHANGED <<objVars, stopEvent, queueVars, isPaused, isRunning, hasError,
                 currentItemIndex, pc, threadVars, worldVars, overrun>>

\* SetPaused(paused).
SetPaused(paused) ==
  /\ isPaused' = paused
  /\ runEvent' = ~paused
  /\ overrun' = IF ~paused /\ ~cancelled /\ ~stopEvent THEN 0 ELSE overrun
  /\ UNCHANGED <<objVars, wakeEvent, stopEvent, queueVars, cancelled,
                 isRunning, hasError, currentItemIndex, pc, threadVars,
                 worldVars>>

\* Stop detaches from the dialog; with no handle that is all it does.
Stop ==
  /\ stopPc = "idle"
  /\ dlgHwnd' = FALSE
  /\ stopPc' = IF threadHandle THEN "signal" ELSE "idle"
  /\ UNCHANGED <<threadHandle, started, startPc, eventVars, queueVars,
                 stateVars, pc, threadVars, worldVars, overrun>>

\* It cancels the transfer and signals the events.
StopSignals ==
  /\ stopPc = "signal"
  /\ stopPc' = "waiting"
  /\ cancelled' = TRUE
  /\ stopEvent' = TRUE /\ wakeEvent' = TRUE /\ runEvent' = TRUE
  /\ UNCHANGED <<threadHandle, started, startPc, dlgHwnd, queueVars, isPaused,
                 isRunning, hasError, currentItemIndex, pc, threadVars,
                 worldVars, overrun>>

\* The end of Stop: the handle is closed and the state says not running.
StopReturns ==
  /\ stopPc' = "idle"
  /\ threadHandle' = FALSE
  /\ isRunning' = FALSE
  /\ UNCHANGED <<started, startPc, dlgHwnd, eventVars, queueVars, cancelled,
                 isPaused, hasError, currentItemIndex, threadVars, worldVars,
                 overrun>>

\* The thread ended within the 5 s Stop waits.
StopJoins ==
  /\ stopPc = "waiting"
  /\ pc \in Ended
  /\ StopReturns
  /\ UNCHANGED pc

\* It did not: TerminateThread as a last resort.
StopTerminates ==
  /\ stopPc = "waiting"
  /\ pc \in Alive
  /\ pc' = "killed"
  /\ StopReturns

\* Mutant of Reset: AllTasks is not cleared.
ResetKeepsAllTasks ==
  /\ startPc = "idle" /\ stopPc = "idle"
  /\ pc \in Ended
  /\ threadHandle' = FALSE
  /\ started' = FALSE
  /\ taskQueue' = <<>> /\ currentTaskIndex' = 0 /\ lastLook' = 0
  /\ cancelled' = FALSE /\ isPaused' = FALSE /\ isRunning' = FALSE
  /\ hasError' = FALSE /\ currentItemIndex' = 0
  /\ runEvent' = TRUE
  /\ pc' = "none"
  /\ currentTask' = 0 /\ taskIdx' = 0 /\ success' = FALSE
  /\ finishedMsgs' = 0 /\ skippedFiles' = {} /\ removedSources' = {}
  /\ nonEmpty' = {}
  /\ overrun' = 0
  /\ UNCHANGED <<allTasks, startPc, stopPc, dlgHwnd, wakeEvent, stopEvent>>

\* Reset between two operations: test_worker.cpp calls it with no thread
\* active.
Reset ==
  /\ startPc = "idle" /\ stopPc = "idle"
  /\ pc \in Ended
  /\ threadHandle' = FALSE
  /\ started' = FALSE
  /\ taskQueue' = <<>> /\ allTasks' = <<>>
  /\ currentTaskIndex' = 0 /\ lastLook' = 0
  /\ cancelled' = FALSE /\ isPaused' = FALSE /\ isRunning' = FALSE
  /\ hasError' = FALSE /\ currentItemIndex' = 0
  /\ runEvent' = TRUE
  /\ pc' = "none"
  /\ currentTask' = 0 /\ taskIdx' = 0 /\ success' = FALSE
  /\ finishedMsgs' = 0 /\ skippedFiles' = {} /\ removedSources' = {}
  /\ nonEmpty' = {}
  /\ overrun' = 0
  /\ UNCHANGED <<startPc, stopPc, dlgHwnd, wakeEvent, stopEvent>>

-----------------------------------------------------------------------------
(* The worker thread                                                       *)

callerVars == <<objVars, stopEvent, isPaused>>

\* A step of the thread that only moves on.
Goto(from, to) ==
  /\ pc = from
  /\ pc' = to
  /\ UNCHANGED <<callerVars, wakeEvent, runEvent, queueVars, cancelled,
                 isRunning, hasError, currentItemIndex, threadVars, worldVars,
                 overrun>>

\* ExecuteTask returns false.
Fail(from) ==
  /\ pc = from
  /\ pc' = "status"
  /\ success' = FALSE
  /\ UNCHANGED <<callerVars, wakeEvent, runEvent, queueVars, cancelled,
                 isRunning, hasError, currentItemIndex, currentTask, taskIdx,
                 worldVars, overrun>>

\* The look at State.Cancelled, under State.Lock.
FailIfCancelled(from) == cancelled /\ Fail(from)

\* Where a task goes on when one of its files is through.
AfterFile == IF currentTask \in Directories THEN "next" ELSE "remove"

\* ThreadLoop connects a session of its own.
ConnectOk == Goto("connect", "top")

ConnectFails ==
  /\ pc = "connect"
  /\ hasError' = TRUE /\ isRunning' = FALSE
  /\ pc' = "post"
  /\ UNCHANGED <<callerVars, wakeEvent, runEvent, queueVars, cancelled,
                 currentItemIndex, threadVars, worldVars, overrun>>

\* Mutant of TakeTask: the front is read and not popped.
TakeTaskKeepsFront ==
  /\ pc = "top"
  /\ taskQueue # <<>>
  /\ currentTask' = Head(taskQueue)
  /\ lastLook' = Len(allTasks)
  /\ pc' = "popped"
  /\ UNCHANGED <<callerVars, wakeEvent, runEvent, taskQueue, allTasks,
                 currentTaskIndex, cancelled, isRunning, hasError,
                 currentItemIndex, taskIdx, success, worldVars, overrun>>

\* The top of the loop: leave on StopEvent, else pop a task.
TakeTask ==
  /\ pc = "top"
  /\ \/ stopEvent /\ pc' = "disconnect" /\ UNCHANGED <<taskQueue, currentTask>>
     \/ /\ ~stopEvent /\ taskQueue = <<>>
        /\ pc' = "idle"
        /\ UNCHANGED <<taskQueue, currentTask>>
     \/ /\ ~stopEvent /\ taskQueue # <<>>
        /\ currentTask' = Head(taskQueue)
        /\ taskQueue' = Tail(taskQueue)
        /\ pc' = "popped"
  /\ lastLook' = IF stopEvent THEN lastLook ELSE Len(allTasks)
  /\ UNCHANGED <<callerVars, wakeEvent, runEvent, allTasks, currentTaskIndex,
                 cancelled, isRunning, hasError, currentItemIndex, taskIdx,
                 success, worldVars, overrun>>

\* No task: wait 200 ms for StopEvent or WakeEvent.  StopEvent comes first
\* when both are signalled; WakeEvent is consumed by the wait.
IdleWait ==
  /\ pc = "idle"
  /\ \/ stopEvent /\ pc' = "disconnect" /\ UNCHANGED wakeEvent
     \/ ~stopEvent /\ wakeEvent /\ pc' = "top" /\ wakeEvent' = FALSE
     \/ ~stopEvent /\ ~wakeEvent /\ pc' = "recheck" /\ UNCHANGED wakeEvent
  /\ UNCHANGED <<callerVars, runEvent, queueVars, cancelled, isRunning,
                 hasError, currentItemIndex, threadVars, worldVars, overrun>>

\* Mutants of IdleTimeout: the thread goes on waiting for tasks, or leaves
\* whatever it finds.
IdleTimeoutStays == Goto("recheck", "top")

IdleTimeoutLeaves ==
  /\ pc = "recheck"
  /\ pc' = "disconnect"
  /\ lastLook' = Len(allTasks)
  /\ UNCHANGED <<callerVars, wakeEvent, runEvent, taskQueue, allTasks,
                 currentTaskIndex, cancelled, isRunning, hasError,
                 currentItemIndex, threadVars, worldVars, overrun>>

\* After the timeout the queue is looked at once more.
IdleTimeout ==
  /\ pc = "recheck"
  /\ pc' = IF taskQueue = <<>> THEN "disconnect" ELSE "top"
  /\ lastLook' = Len(allTasks)
  /\ UNCHANGED <<callerVars, wakeEvent, runEvent, taskQueue, allTasks,
                 currentTaskIndex, cancelled, isRunning, hasError,
                 currentItemIndex, threadVars, worldVars, overrun>>

\* A popped task is dropped when the transfer is cancelled.
CountTask ==
  /\ pc = "popped"
  /\ \/ cancelled /\ pc' = "disconnect" /\ UNCHANGED currentItemIndex
     \/ /\ ~cancelled
        /\ currentItemIndex' = currentItemIndex + 1
        /\ pc' = "mark"
  /\ UNCHANGED <<callerVars, wakeEvent, runEvent, queueVars, cancelled,
                 isRunning, hasError, threadVars, worldVars, overrun>>

\* Mutant of MarkRunning: the index is taken before it is counted up.
MarkRunningOffByOne ==
  /\ pc = "mark"
  /\ pc' = IF currentTask \in Directories THEN "enterDir" ELSE "enter"
  /\ taskIdx' = currentTaskIndex
  /\ currentTaskIndex' = currentTaskIndex + 1
  /\ allTasks' = [allTasks EXCEPT ![currentTaskIndex + 1] = "Running"]
  /\ UNCHANGED <<callerVars, wakeEvent, runEvent, taskQueue, lastLook,
                 cancelled, isRunning, hasError, currentItemIndex, currentTask,
                 success, worldVars, overrun>>

\* The slot of AllTasks the task reports to comes from CurrentTaskIndex, not
\* from the task.
MarkRunning ==
  /\ pc = "mark"
  /\ pc' = IF currentTask \in Directories THEN "enterDir" ELSE "enter"
  /\ IF currentTaskIndex < Len(allTasks)
     THEN /\ taskIdx' = currentTaskIndex + 1
          /\ currentTaskIndex' = currentTaskIndex + 1
          /\ allTasks' = [allTasks EXCEPT ![currentTaskIndex + 1] = "Running"]
     ELSE taskIdx' = 0 /\ UNCHANGED <<allTasks, currentTaskIndex>>
  /\ UNCHANGED <<callerVars, wakeEvent, runEvent, taskQueue, lastLook,
                 cancelled, isRunning, hasError, currentItemIndex, currentTask,
                 success, worldVars, overrun>>

\* DoDownloadRecursive or DoUploadRecursive on a file: look at Cancelled, then
\* ask if the target exists.
EnterFile ==
  \/ FailIfCancelled("enter")
  \/ ~cancelled /\ Goto("enter", "ask")
  \/ ~cancelled /\ Goto("enter", "check")

\* On a directory: look at Cancelled, create the target directory, list the
\* source (a download fails when it cannot be listed).
EnterDirectory ==
  \/ FailIfCancelled("enterDir")
  \/ ~cancelled /\ Fail("enterDir")
  \/ ~cancelled /\ Goto("enterDir", "next")

\* The next entry of a directory, a file or a directory of its own.
EnterEntry ==
  /\ pc = "next" /\ ~cancelled
  /\ pc' \in {"enter", "enterDir"}
  /\ nonEmpty' = nonEmpty \cup {currentTask}
  /\ UNCHANGED <<callerVars, wakeEvent, runEvent, queueVars, cancelled,
                 isRunning, hasError, currentItemIndex, threadVars,
                 finishedMsgs, skippedFiles, removedSources, overrun>>

\* The loop over the entries of a directory; a cancelled one is left at the
\* next entry, not at the end.
NextEntry ==
  \/ FailIfCancelled("next")
  \/ EnterEntry
  \/ Goto("next", "remove")

\* The conflict is answered: go on, skip the file (the file counts as
\* transferred), or cancel the transfer.
AskOverwriteGo == Goto("ask", "check")

AskOverwriteSkip ==
  /\ pc = "ask"
  /\ skippedFiles' = skippedFiles \cup {currentTask}
  /\ pc' = AfterFile
  /\ UNCHANGED <<callerVars, wakeEvent, runEvent, queueVars, cancelled,
                 isRunning, hasError, currentItemIndex, threadVars,
                 finishedMsgs, removedSources, nonEmpty, overrun>>

AskOverwriteCancel ==
  /\ pc = "ask"
  /\ cancelled' = TRUE /\ runEvent' = TRUE /\ wakeEvent' = TRUE
  /\ success' = FALSE
  /\ pc' = "status"
  /\ UNCHANGED <<callerVars, queueVars, isRunning, hasError,
                 currentItemIndex, currentTask, taskIdx, worldVars, overrun>>

\* The second look at Cancelled, before the connection is used.
CheckCancelled ==
  \/ FailIfCancelled("check")
  \/ ~cancelled /\ Goto("check", "progress")

\* Mutants of ReportProgressWait: it does not wait at all, or only for RunEvent.
ReportProgressNoWait == Goto("progress", "report")

ReportProgressWaitRunOnly == runEvent /\ Goto("progress", "report")

\* ReportProgress waits for StopEvent or RunEvent without a timeout...
ReportProgressWait ==
  \/ stopEvent /\ Fail("progress")
  \/ ~stopEvent /\ runEvent /\ Goto("progress", "report")

\* ... and then looks at Cancelled.
ReportProgress ==
  \/ FailIfCancelled("report")
  \/ ~cancelled /\ Goto("report", "io")

\* One block is moved, and there may be more; or the file ends.
MoveBlock ==
  /\ pc = "io"
  /\ pc' \in {"progress", AfterFile}
  /\ overrun' = IF Permitted THEN 0 ELSE overrun + 1
  /\ UNCHANGED <<callerVars, wakeEvent, runEvent, queueVars, cancelled,
                 isRunning, hasError, currentItemIndex, threadVars, worldVars>>

\* The connection or the disk fails.
MoveFails == Fail("io")

\* ExecuteTask succeeded; a move removes the source.  RemoveDir is a plain
\* rmdir, which only takes an empty directory, and the result of the removal
\* is not looked at.
RemoveSource ==
  /\ pc = "remove"
  /\ pc' = "status"
  /\ success' = TRUE
  /\ \/ /\ currentTask \in Moves \ nonEmpty
        /\ removedSources' = removedSources \cup {currentTask}
     \/ UNCHANGED removedSources
  /\ UNCHANGED <<callerVars, wakeEvent, runEvent, queueVars, cancelled,
                 isRunning, hasError, currentItemIndex, currentTask, taskIdx,
                 finishedMsgs, skippedFiles, nonEmpty, overrun>>

\* Mutant of RecordStatus: a success is not recorded.
RecordStatusForgetsDone ==
  /\ pc = "status"
  /\ pc' = "outcome"
  /\ allTasks' =
       IF ~success THEN [allTasks EXCEPT ![taskIdx] = "Error"] ELSE allTasks
  /\ UNCHANGED <<callerVars, wakeEvent, runEvent, taskQueue,
                 currentTaskIndex, lastLook, cancelled, isRunning,
                 hasError, currentItemIndex, threadVars, worldVars, overrun>>

\* The status of the task; Cancelled is read without State.Lock.
RecordStatus ==
  /\ pc = "status"
  /\ pc' = "outcome"
  /\ allTasks' =
       IF taskIdx \in 1 .. Len(allTasks)
       THEN [allTasks EXCEPT ![taskIdx] = IF success THEN "Done"
                                          ELSE IF cancelled THEN "Skipped"
                                          ELSE "Error"]
       ELSE allTasks
  /\ UNCHANGED <<callerVars, wakeEvent, runEvent, taskQueue,
                 currentTaskIndex, lastLook, cancelled, isRunning,
                 hasError, currentItemIndex, threadVars, worldVars, overrun>>

\* Mutant of LoopOrLeave: the loop goes on after an error.
LoopAfterError ==
  /\ pc = "outcome"
  /\ pc' = "top"
  /\ hasError' = (hasError \/ ~success)
  /\ currentTask' = 0 /\ taskIdx' = 0
  /\ UNCHANGED <<callerVars, wakeEvent, runEvent, queueVars, cancelled,
                 isRunning, currentItemIndex, success, worldVars, overrun>>

\* A task that failed ends the loop; Cancelled is read a second time.
LoopOrLeave ==
  /\ pc = "outcome"
  /\ \/ success /\ pc' = "top" /\ UNCHANGED hasError
     \/ ~success /\ cancelled /\ pc' = "disconnect" /\ UNCHANGED hasError
     \/ ~success /\ ~cancelled /\ pc' = "disconnect" /\ hasError' = TRUE
  /\ currentTask' = 0 /\ taskIdx' = 0
  /\ UNCHANGED <<callerVars, wakeEvent, runEvent, queueVars, cancelled,
                 isRunning, currentItemIndex, success, worldVars, overrun>>

\* Mutant of Leave: IsRunning stays set.
LeaveRunning == Goto("disconnect", "post")

\* The end of ThreadLoop: disconnect and say so in the state...
Leave ==
  /\ pc = "disconnect"
  /\ isRunning' = FALSE
  /\ pc' = "post"
  /\ UNCHANGED <<callerVars, wakeEvent, runEvent, queueVars, cancelled,
                 hasError, currentItemIndex, threadVars, worldVars, overrun>>

\* ... and tell the dialog, if it is still attached.
PostFinished ==
  /\ pc = "post"
  /\ finishedMsgs' = IF dlgHwnd THEN finishedMsgs + 1 ELSE finishedMsgs
  /\ pc' = "exited"
  /\ UNCHANGED <<callerVars, wakeEvent, runEvent, queueVars, cancelled,
                 isRunning, hasError, currentItemIndex, threadVars,
                 skippedFiles, removedSources, nonEmpty, overrun>>

\* Everything the thread does inside ExecuteTask.
ExecuteTask ==
  \/ EnterFile \/ EnterDirectory \/ NextEntry
  \/ AskOverwriteGo \/ AskOverwriteSkip \/ AskOverwriteCancel
  \/ CheckCancelled \/ ReportProgressWait \/ ReportProgress
  \/ MoveBlock \/ MoveFails \/ RemoveSource

\* Everything the thread does.
ThreadLoop ==
  \/ ConnectOk \/ ConnectFails
  \/ TakeTask \/ IdleWait \/ IdleTimeout \/ CountTask \/ MarkRunning
  \/ ExecuteTask
  \/ RecordStatus \/ LoopOrLeave \/ Leave \/ PostFinished

-----------------------------------------------------------------------------
Init ==
  /\ threadHandle = FALSE /\ started = FALSE
  /\ startPc = "idle" /\ stopPc = "idle" /\ dlgHwnd = FALSE
  /\ wakeEvent = FALSE /\ stopEvent = FALSE /\ runEvent = TRUE
  /\ taskQueue = <<>> /\ allTasks = <<>>
  /\ currentTaskIndex = 0 /\ lastLook = 0
  /\ cancelled = FALSE /\ isPaused = FALSE /\ isRunning = FALSE
  /\ hasError = FALSE /\ currentItemIndex = 0
  /\ pc = "none" /\ currentTask = 0 /\ taskIdx = 0 /\ success = FALSE
  /\ finishedMsgs = 0 /\ skippedFiles = {} /\ removedSources = {}
  /\ nonEmpty = {}
  /\ overrun = 0

Callers ==
  \/ EnqueueTask
  \/ \E hwnd \in BOOLEAN : Start(hwnd)
  \/ StartReturns
  \/ Cancel
  \/ \E paused \in BOOLEAN : SetPaused(paused)
  \/ Stop \/ StopSignals \/ StopJoins \/ StopTerminates
  \/ Reset

Next == Callers \/ ThreadLoop

Spec == Init /\ [][Next]_vars

-----------------------------------------------------------------------------
(* Safety                                                                  *)

\* Every variable has its type.
TypeOK ==
  /\ threadHandle \in BOOLEAN /\ started \in BOOLEAN /\ dlgHwnd \in BOOLEAN
  /\ startPc \in {"idle", "creating"} /\ stopPc \in {"idle", "signal", "waiting"}
  /\ wakeEvent \in BOOLEAN /\ stopEvent \in BOOLEAN /\ runEvent \in BOOLEAN
  /\ taskQueue \in Seq(Tasks)
  /\ allTasks \in Seq(Status) /\ Len(allTasks) <= MaxTasks
  /\ currentTaskIndex \in 0 .. MaxTasks /\ lastLook \in 0 .. MaxTasks
  /\ cancelled \in BOOLEAN /\ isPaused \in BOOLEAN /\ isRunning \in BOOLEAN
  /\ hasError \in BOOLEAN /\ currentItemIndex \in 0 .. MaxTasks
  /\ pc \in Alive \cup Ended
  /\ currentTask \in 0 .. MaxTasks /\ taskIdx \in 0 .. MaxTasks
  /\ success \in BOOLEAN
  /\ finishedMsgs \in Nat /\ overrun \in Nat
  /\ skippedFiles \subseteq Tasks /\ removedSources \subseteq Tasks
  /\ nonEmpty \subseteq Tasks

\* Tasks are served in the order they were enqueued: nothing is started before
\* all earlier tasks are done, so at most one task runs and a task that failed
\* or was skipped is the last one touched.
TasksInOrder ==
  \A i, j \in 1 .. Len(allTasks) :
    i < j /\ allTasks[j] # "Waiting" => allTasks[i] = "Done"

\* The slot of AllTasks that ThreadLoop takes from CurrentTaskIndex is the one
\* of the task it popped from TaskQueue, although the two containers are only
\* related by the order of the calls.
ReportsOwnTask ==
  pc \in Executing \cup {"status"} =>
    /\ taskIdx = currentTask
    /\ taskIdx \in 1 .. Len(allTasks)
    /\ allTasks[taskIdx] = "Running"

\* A waiting task is still in TaskQueue or in the thread's hands, unless the
\* transfer was cancelled.
NoTaskLost ==
  \A i \in 1 .. Len(allTasks) :
    allTasks[i] = "Waiting" =>
      \/ \E k \in 1 .. Len(taskQueue) : taskQueue[k] = i
      \/ pc \in {"popped", "mark"} /\ currentTask = i
      \/ cancelled

\* The dialog closes by itself on a FINISHED message when the state shows
\* neither an error nor a cancel: then every task must be done that was
\* enqueued when the thread last looked into TaskQueue.
QuietFinishIsComplete ==
  pc = "exited" /\ ~hasError /\ ~cancelled =>
    \A i \in 1 .. Len(allTasks) :
      allTasks[i] = "Done" \/ (LateEnqueue /\ i > lastLook)

\* FINISHED is the thread's last word: it is posted at most once, after
\* IsRunning has gone down, and always when a dialog is attached.
FinishedIsLast ==
  /\ finishedMsgs > 0 => finishedMsgs = 1 /\ pc = "exited" /\ ~isRunning
  /\ pc = "exited" /\ dlgHwnd => finishedMsgs = 1

\* Once the transfer is paused, cancelled or stopped, at most one more block
\* is moved.
BoundedOverrun == overrun <= 1

\* A move leaves the source of a task alone when a file of it was skipped.
SkippedIsKept == removedSources \cap skippedFiles = {}

-----------------------------------------------------------------------------
(* The inductive invariant behind the safety properties.  It relates the   *)
(* thread's position to the two containers and to the flags.               *)

\* The tasks popped from TaskQueue so far.
Taken == Len(allTasks) - Len(taskQueue)

\* Positions between two tasks, and after the loop.
Between == {"connect", "top", "idle", "recheck"}
Leaving == {"disconnect", "post", "exited"}

\* TaskQueue holds the last tasks of AllTasks, in order.
QueueIsSuffix ==
  /\ Len(taskQueue) <= Len(allTasks)
  /\ \A k \in 1 .. Len(taskQueue) : taskQueue[k] = Taken + k

\* CurrentTaskIndex follows the pops; only a cancelled task is popped and
\* never counted.
CursorFollowsQueue ==
  /\ pc \in {"none"} \cup Between \cup {"outcome"} => currentTaskIndex = Taken
  /\ pc = "none" => Taken = 0
  /\ pc = "outcome" => Taken > 0
  /\ pc \in {"popped", "mark"} =>
       currentTask = Taken /\ currentTaskIndex + 1 = Taken
  /\ pc \in Executing \cup {"status"} =>
       currentTask = Taken /\ currentTaskIndex = Taken /\ taskIdx = Taken
       /\ Taken > 0
  /\ pc \in Leaving \cup {"killed"} =>
       currentTaskIndex = Taken \/ (cancelled /\ currentTaskIndex + 1 = Taken)

\* CurrentItemIndex, which the dialog shows, is CurrentTaskIndex.
ItemFollowsCursor ==
  pc \in Alive =>
    currentItemIndex = IF pc = "mark" THEN currentTaskIndex + 1
                                      ELSE currentTaskIndex

\* The statuses before, at and after CurrentTaskIndex.
StatusFollowsCursor ==
  /\ currentTaskIndex <= Len(allTasks)
  /\ \A i \in 1 .. Len(allTasks) :
       /\ i > currentTaskIndex => allTasks[i] = "Waiting"
       /\ i < currentTaskIndex => allTasks[i] = "Done"
       /\ i = currentTaskIndex =>
            /\ allTasks[i] # "Waiting"
            /\ pc \in Between \cup {"popped", "mark"} => allTasks[i] = "Done"
            /\ pc \in Executing \cup {"status"} => allTasks[i] = "Running"
            /\ pc = "outcome" =>
                 \/ success /\ allTasks[i] = "Done"
                 \/ ~success /\ allTasks[i] = "Error"
                 \/ ~success /\ allTasks[i] = "Skipped" /\ cancelled
            /\ pc \in Leaving =>
                 \/ allTasks[i] = "Done"
                 \/ allTasks[i] \in {"Error", "Skipped"} /\ (hasError \/ cancelled)

\* The flags: a live or ended thread was started, StopEvent comes with
\* Cancelled, and the loop is left quietly only when the last look found the
\* queue empty.
FlagsFollowThread ==
  /\ pc # "none" => started
  /\ stopPc # "idle" => pc # "none"
  /\ stopPc = "waiting" => cancelled
  /\ threadHandle => pc # "none"
  /\ startPc = "creating" => pc # "none"
  /\ pc \in Alive /\ stopEvent => cancelled
  /\ pc \in Leaving /\ ~hasError /\ ~cancelled =>
       lastLook <= Taken /\ (LateEnqueue \/ taskQueue = <<>>)
  /\ pc \in {"post", "exited"} => ~isRunning
  /\ pc # "exited" => finishedMsgs = 0
  /\ finishedMsgs <= 1
  /\ pc = "exited" /\ dlgHwnd => finishedMsgs = 1

\* A block moved against the user's will is the last one until the transfer is
\* permitted again.
OverrunIsHeld ==
  /\ overrun <= 1
  /\ overrun > 0 => ~Permitted /\ pc # "io" /\ (pc = "report" => cancelled)

IndInv ==
  /\ TypeOK
  /\ QueueIsSuffix
  /\ CursorFollowsQueue
  /\ ItemFollowsCursor
  /\ StatusFollowsCursor
  /\ FlagsFollowThread
  /\ OverrunIsHeld

-----------------------------------------------------------------------------
(* Refinement: the task list is a TransferJob.                             *)

JobPhase ==
  CASE pc = "none" -> "open" [] pc = "exited" -> "over"
    [] pc = "killed" -> "aborted" [] OTHER -> "running"

Job == INSTANCE TransferJob WITH status <- allTasks, phase <- JobPhase

\* The task list of the worker behaves as a TransferJob whatever the other
\* threads call.
ImplementsJob == Job!JobSpec

-----------------------------------------------------------------------------
(* Liveness                                                                *)

\* The scheduler runs the worker thread and the threads inside Start and Stop;
\* network operations end (libssh2's socket timeout) and a conflict dialog is
\* answered.  The user may click anything but not for ever: every Cancel
\* signals WakeEvent again, and an idle thread would never time out.
Clicks == Cancel \/ \E paused \in BOOLEAN : SetPaused(paused)

Fairness ==
  /\ WF_vars(ThreadLoop)
  /\ WF_vars(StartReturns)
  /\ WF_vars(StopSignals) /\ WF_vars(StopJoins)
  /\ <>[][~Clicks]_vars

FairSpec == Spec /\ Fairness

\* Stop need not terminate the thread: once StopEvent is set the thread gets
\* out of every wait by itself, whatever else is clicked.
StopEnds == (stopPc = "waiting" /\ pc \in Alive) ~> pc \in Ended

\* After Cancel the thread ends, or it is held by a later pause.
CancelEndsUnlessPaused ==
  (cancelled /\ pc \in Alive) ~> (pc \in Ended \/ ~runEvent)

=============================================================================
