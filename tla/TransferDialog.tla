--------------------------- MODULE TransferDialog ---------------------------
(***************************************************************************)
(* The life of one transfer dialog: Salamander's main thread, which begins *)
(* the transfer (CopyOrMoveFromFS, CopyOrMoveFromDiskToFS), shows the      *)
(* dialog again (ShowTransferDialog) and closes the panel's file system    *)
(* (~CPluginFSInterface); the thread of CSftpTransferProgressDlg with its  *)
(* message loop; and the worker thread, of which only the start, the end   *)
(* and the FINISHED message are seen here (module TransferWorker has the   *)
(* rest).                                                                  *)
(*                                                                         *)
(* The dialog's Worker pointer is used by both user interface threads      *)
(* without a lock.  A thread reads the pointer in one step and uses it in  *)
(* another, so that the object may be gone in between; using it then is    *)
(* recorded in crash, and the program stops.                               *)
(***************************************************************************)
EXTENDS Naturals

VARIABLES
  \* The main thread, and the file system of its panel.
  mainPc,
  registered,        \* is the dialog in ActiveTransferDlgs?
  \* Where each user interface thread is in DetachWorker or in the same code
  \* of WM_DESTROY.
  detach,
  \* The thread of the dialog.
  dlgPc,
  useOf,             \* what it does with the Worker pointer it has read
  box,               \* the message box that is open, "pump" in EnableCancel
  window,            \* "none", "open" or "closed"
  timer,             \* is timer 101 set?
  finishedMsgs,      \* WM_APP_SFTP_WORKER_FINISHED messages in its queue
  \* CSftpTransferProgressDlg.
  dlgObj,            \* "alive" or "deleted"
  dlgWorker,         \* is Worker non-NULL?  OwnsWorker goes with it
  dlgFS,             \* is FS non-NULL?
  hidden,            \* IsBackground
  wantCancel, cancelEnabled, operationFinished,
  closeOnFinish,     \* the check box
  \* CSftpTransferWorker.
  workerObj,         \* "alive" or "deleted"
  threadHandle, dlgHwnd, cancelled, hasError,
  workerPc,          \* "none", "run", "post", "exited" or "killed"
  crash              \* "none", "freed" for a freed object, "null" for NULL

mainVars == <<mainPc, registered>>
loopVars == <<dlgPc, useOf, box, window, timer>>
lookVars == <<hidden, wantCancel, cancelEnabled, operationFinished,
              closeOnFinish>>
dlgVars == <<dlgObj, dlgWorker, dlgFS>>
workerVars == <<workerObj, threadHandle, dlgHwnd, cancelled, hasError,
                workerPc>>

vars == <<mainVars, detach, loopVars, finishedMsgs, lookVars, dlgVars,
          workerVars, crash>>

UIThreads == {"main", "dlg"}

\* The worker thread runs, and uses the worker object.
WorkerLives == workerPc \in {"run", "post"}

\* The places of the threads, as long as the program runs.
MainAt(p) == crash = "none" /\ mainPc = p
DlgAt(p) == crash = "none" /\ dlgPc = p
DetachAt(t, p) == crash = "none" /\ detach[t] = p
WorkerAt(p) == crash = "none" /\ workerPc = p

\* Somebody follows a pointer to an object that is not there.
Crash(why) ==
  /\ crash' = why
  /\ UNCHANGED <<mainVars, detach, loopVars, finishedMsgs, lookVars, dlgVars,
                 workerVars>>

UsesFreed == workerObj = "deleted" /\ Crash("freed")

-----------------------------------------------------------------------------
(* The main thread begins a transfer                                       *)

\* CSftpProgressDlgThread::Start: the dialog gets a thread of its own, or
\* everything is given up.
StartDialogThread ==
  /\ MainAt("new")
  /\ \/ mainPc' = "wait" /\ dlgPc' = "create" /\ UNCHANGED <<dlgObj, workerObj>>
     \/ /\ mainPc' = "gaveUp" /\ UNCHANGED dlgPc
        /\ dlgObj' = "deleted" /\ workerObj' = "deleted"
  /\ UNCHANGED <<registered, detach, useOf, box, window, timer, finishedMsgs,
                 lookVars, dlgWorker, dlgFS, threadHandle, dlgHwnd, cancelled,
                 hasError, workerPc, crash>>

\* The window is there within the five seconds of the wait.
DialogShown ==
  /\ MainAt("wait")
  /\ window = "open"
  /\ mainPc' = "fill"
  /\ UNCHANGED <<registered, detach, loopVars, finishedMsgs, lookVars, dlgVars,
                 workerVars, crash>>

\* It is not: the window could not be made, or not yet.  Nobody tells the
\* thread that its dialog is deleted.
DialogGivenUp ==
  /\ MainAt("wait")
  /\ window = "none"
  /\ mainPc' = "gaveUp"
  /\ dlgObj' = "deleted" /\ workerObj' = "deleted"
  /\ UNCHANGED <<registered, detach, loopVars, finishedMsgs, lookVars,
                 dlgWorker, dlgFS, threadHandle, dlgHwnd, cancelled, hasError,
                 workerPc, crash>>

\* The tasks are enqueued; SetFS and AttachWorker.
AttachWorker ==
  /\ MainAt("fill")
  /\ mainPc' = "register"
  /\ dlgFS' = TRUE /\ dlgWorker' = TRUE
  /\ dlgHwnd' = TRUE
  /\ UNCHANGED <<registered, detach, loopVars, finishedMsgs, lookVars, dlgObj,
                 workerObj, threadHandle, cancelled, hasError, workerPc, crash>>

\* RegisterTransferDlg.
RegisterTransferDlg ==
  /\ MainAt("register")
  /\ mainPc' = "start"
  /\ registered' = TRUE
  /\ UNCHANGED <<detach, loopVars, finishedMsgs, lookVars, dlgVars, workerVars,
                 crash>>

\* Worker->Start up to _beginthreadex: the state is set back, Cancelled with
\* it.  Nobody looks at the result when the thread cannot be made.
StartWorker ==
  /\ MainAt("start")
  /\ dlgHwnd' = TRUE
  /\ cancelled' = FALSE
  /\ \/ mainPc' = "creating" /\ workerPc' = "run" /\ hasError' = FALSE
     \/ mainPc' = "idle" /\ hasError' = TRUE /\ UNCHANGED workerPc
  /\ UNCHANGED <<registered, detach, loopVars, finishedMsgs, lookVars, dlgVars,
                 workerObj, threadHandle, crash>>

\* ThreadHandle is assigned when _beginthreadex returns.
StartWorkerReturns ==
  /\ MainAt("creating")
  /\ \/ UsesFreed
     \/ /\ workerObj = "alive"
        /\ threadHandle' = TRUE
        /\ mainPc' = "idle"
        /\ UNCHANGED <<registered, detach, loopVars, finishedMsgs, lookVars,
                       dlgVars, workerObj, dlgHwnd, cancelled, hasError,
                       workerPc, crash>>

-----------------------------------------------------------------------------
(* DetachWorker, by the main thread, and the same in WM_DESTROY            *)

\* The pointer is cleared and the worker told to forget the dialog.
DetachClears(t) ==
  /\ DetachAt(t, "took")
  /\ \/ UsesFreed
     \/ /\ workerObj = "alive"
        /\ dlgWorker' = FALSE
        /\ dlgHwnd' = FALSE
        /\ detach' = [detach EXCEPT ![t] = "stop"]
        /\ UNCHANGED <<mainVars, loopVars, finishedMsgs, lookVars, dlgObj, dlgFS,
                       workerObj, threadHandle, cancelled, hasError, workerPc,
                       crash>>

\* Worker->Stop, which waits for the thread when there is a handle.
DetachStops(t) ==
  /\ DetachAt(t, "stop")
  /\ \/ UsesFreed
     \/ /\ workerObj = "alive"
        /\ detach' = [detach EXCEPT ![t] = IF threadHandle THEN "join" ELSE "free"]
        /\ dlgHwnd' = FALSE
        /\ cancelled' = (cancelled \/ threadHandle)
        /\ UNCHANGED <<mainVars, loopVars, finishedMsgs, lookVars, dlgVars,
                       workerObj, threadHandle, hasError, workerPc, crash>>

\* Mutant of DetachJoins: nobody waits for the thread.
DetachNeverJoins(t) ==
  /\ DetachAt(t, "join")
  /\ detach' = [detach EXCEPT ![t] = "free"]
  /\ threadHandle' = FALSE
  /\ UNCHANGED <<mainVars, loopVars, finishedMsgs, lookVars, dlgVars,
                 workerObj, dlgHwnd, cancelled, hasError, workerPc, crash>>

\* The thread has ended, or is terminated after five seconds.
DetachJoins(t) ==
  /\ DetachAt(t, "join")
  /\ \/ UsesFreed
     \/ /\ workerObj = "alive"
        /\ detach' = [detach EXCEPT ![t] = "free"]
        /\ threadHandle' = FALSE
        /\ workerPc' = IF WorkerLives THEN "killed" ELSE workerPc
        /\ UNCHANGED <<mainVars, loopVars, finishedMsgs, lookVars, dlgVars,
                       workerObj, dlgHwnd, cancelled, hasError, crash>>

\* delete, whose destructor calls Stop once more.
DetachFrees(t) ==
  /\ DetachAt(t, "free")
  /\ \/ UsesFreed
     \/ /\ workerObj = "alive"
        /\ \/ /\ threadHandle
              /\ detach' = [detach EXCEPT ![t] = "stop"]
              /\ UNCHANGED workerObj
           \/ /\ ~threadHandle
              /\ detach' = [detach EXCEPT ![t] = "no"]
              /\ workerObj' = "deleted"
        /\ UNCHANGED <<mainVars, loopVars, finishedMsgs, lookVars, dlgVars,
                       threadHandle, dlgHwnd, cancelled, hasError, workerPc,
                       crash>>

DetachWorker(t) ==
  DetachClears(t) \/ DetachStops(t) \/ DetachJoins(t) \/ DetachFrees(t)

-----------------------------------------------------------------------------
(* What else the main thread does                                          *)

\* ShowTransferDialog and ShowFromBackground, which ends with UpdateFromWorker
\* on the main thread.
ShowTransferDialog ==
  /\ MainAt("idle")
  /\ registered /\ window = "open"
  /\ hidden' = FALSE
  /\ mainPc' = IF dlgWorker THEN "show" ELSE "idle"
  /\ UNCHANGED <<registered, detach, loopVars, finishedMsgs, wantCancel,
                 cancelEnabled, operationFinished, closeOnFinish, dlgVars,
                 workerVars, crash>>

ShowReadsWorker ==
  /\ MainAt("show")
  /\ \/ UsesFreed
     \/ /\ workerObj = "alive"
        /\ mainPc' = "idle"
        /\ UNCHANGED <<registered, detach, loopVars, finishedMsgs, lookVars,
                       dlgVars, workerVars, crash>>

\* The panel is left and the file system destroyed: TryCloseOrDetach does not
\* ask about transfers.
CloseFS ==
  /\ MainAt("idle")
  /\ mainPc' = "pop"
  /\ UNCHANGED <<registered, detach, loopVars, finishedMsgs, lookVars, dlgVars,
                 workerVars, crash>>

\* The destructor takes the dialog off its list, tells it to forget the file
\* system and calls DetachWorker on it; whether KillTimer works from here is
\* up to Windows.
PopDialog ==
  /\ MainAt("pop")
  /\ \/ /\ registered
        /\ registered' = FALSE
        /\ dlgFS' = FALSE
        /\ timer' \in {timer, FALSE}
        /\ detach' = [detach EXCEPT !["main"] = IF dlgWorker THEN "took" ELSE "no"]
        /\ mainPc' = "detach"
     \/ /\ ~registered
        /\ mainPc' = "gone"
        /\ UNCHANGED <<registered, dlgFS, timer, detach>>
  /\ UNCHANGED <<dlgPc, useOf, box, window, finishedMsgs, lookVars, dlgObj,
                 dlgWorker, workerVars, crash>>

\* DestroyWindow only works in the thread that has made the window: nothing
\* happens.
DestroyFromMain ==
  /\ MainAt("detach")
  /\ detach["main"] = "no"
  /\ mainPc' = "pop"
  /\ UNCHANGED <<registered, detach, loopVars, finishedMsgs, lookVars, dlgVars,
                 workerVars, crash>>

-----------------------------------------------------------------------------
(* The dialog's thread                                                     *)

\* Run creates the dialog; WM_INITDIALOG sets the timer.
CreateDialog ==
  /\ DlgAt("create")
  /\ \/ dlgObj = "deleted" /\ Crash("freed")
     \/ /\ dlgObj = "alive"
        /\ \/ dlgPc' = "loop" /\ window' = "open" /\ timer' = TRUE
           \/ dlgPc' = "quit" /\ UNCHANGED <<window, timer>>
        /\ UNCHANGED <<mainVars, detach, useOf, box, finishedMsgs, lookVars,
                       dlgVars, workerVars, crash>>

\* A message is dispatched, in the thread's loop or in that of a message box.
Dispatching == DlgAt("loop") /\ window = "open"

\* The user can use the buttons of the dialog.
Clickable == Dispatching /\ box = "none" /\ ~hidden

\* Mutant of BeginDestroy: the worker is left alone.
BeginDestroyLeaks ==
  /\ dlgPc' = "destroy" /\ useOf' = "none"
  /\ window' = "closed" /\ timer' = FALSE /\ box' = "none"
  /\ UNCHANGED detach

\* DestroyWindow and the beginning of WM_DESTROY: a message box that is open
\* goes with the window.
BeginDestroy ==
  /\ dlgPc' = "destroy" /\ useOf' = "none"
  /\ window' = "closed" /\ timer' = FALSE /\ box' = "none"
  /\ detach' = [detach EXCEPT !["dlg"] = IF dlgWorker THEN "took" ELSE "no"]

\* The thread has read the Worker pointer and found it set.
Reads(use) ==
  /\ dlgWorker
  /\ dlgPc' = "use" /\ useOf' = use

\* WM_TIMER.
Tick ==
  /\ Dispatching
  /\ timer
  /\ \/ ~hidden /\ Reads("look") /\ UNCHANGED timer
     \/ ~dlgWorker /\ timer' = FALSE /\ UNCHANGED <<dlgPc, useOf>>
  /\ UNCHANGED <<mainVars, detach, box, window, finishedMsgs, lookVars, dlgVars,
                 workerVars, crash>>

\* IDB_PAUSERESUME: SetPaused, which nothing here depends on.
ClickPause ==
  /\ Clickable
  /\ ~operationFinished
  /\ Reads("look")
  /\ UNCHANGED <<mainVars, detach, box, window, timer, finishedMsgs, lookVars,
                 dlgVars, workerVars, crash>>

\* A snapshot is taken of the worker, or it is paused or cancelled.
UseWorker ==
  /\ DlgAt("use")
  /\ useOf # "finish"
  /\ \/ UsesFreed
     \/ /\ workerObj = "alive"
        /\ dlgPc' = "loop" /\ useOf' = "none"
        /\ cancelled' = (cancelled \/ useOf = "cancel")
        /\ UNCHANGED <<mainVars, detach, box, window, timer, finishedMsgs,
                       lookVars, dlgVars, workerObj, threadHandle, dlgHwnd,
                       hasError, workerPc, crash>>

\* IDB_BACKGROUND.
ClickBackground ==
  /\ Clickable
  /\ ~operationFinished
  /\ hidden' = TRUE
  /\ UNCHANGED <<mainVars, detach, loopVars, finishedMsgs, wantCancel,
                 cancelEnabled, operationFinished, closeOnFinish, dlgVars,
                 workerVars, crash>>

\* IDC_TR_CLOSE_ON_FINISH.
ToggleCloseOnFinish ==
  /\ Clickable
  /\ closeOnFinish' = ~closeOnFinish
  /\ UNCHANGED <<mainVars, detach, loopVars, finishedMsgs, hidden, wantCancel,
                 cancelEnabled, operationFinished, dlgVars, workerVars, crash>>

\* IDCANCEL: closes a finished dialog, else asks.
ClickCancel ==
  /\ Clickable
  /\ cancelEnabled
  /\ \/ operationFinished /\ BeginDestroy
     \/ /\ ~operationFinished /\ ~wantCancel
        /\ box' = "cancel"
        /\ UNCHANGED <<dlgPc, useOf, window, timer, detach>>
  /\ UNCHANGED <<mainVars, finishedMsgs, lookVars, dlgVars, workerVars, crash>>

\* Yes: the button is disabled, with messages dispatched meanwhile.
AnswerCancel ==
  /\ Dispatching
  /\ box = "cancel"
  /\ box' = "pump"
  /\ wantCancel' = TRUE /\ cancelEnabled' = FALSE
  /\ UNCHANGED <<mainVars, detach, dlgPc, useOf, window, timer, finishedMsgs,
                 hidden, operationFinished, closeOnFinish, dlgVars, workerVars,
                 crash>>

\* Mutant of CancelWorker: the pointer is not tested after the box.
CancelWorkerUntested ==
  /\ Dispatching
  /\ box = "pump"
  /\ \/ ~dlgWorker /\ Crash("null")
     \/ /\ Reads("cancel")
        /\ box' = "none"
        /\ UNCHANGED <<mainVars, detach, window, timer, finishedMsgs, lookVars,
                       dlgVars, workerVars, crash>>

\* EnableCancel returns, and the worker is cancelled if there is one.
CancelWorker ==
  /\ Dispatching
  /\ box = "pump"
  /\ box' = "none"
  /\ Reads("cancel") \/ (~dlgWorker /\ UNCHANGED <<dlgPc, useOf>>)
  /\ UNCHANGED <<mainVars, detach, window, timer, finishedMsgs, lookVars,
                 dlgVars, workerVars, crash>>

\* IDB_OPCONSSTOP asks too.
ClickStop ==
  /\ Clickable
  /\ dlgWorker
  /\ box' = "stop"
  /\ UNCHANGED <<mainVars, detach, dlgPc, useOf, window, timer, finishedMsgs,
                 lookVars, dlgVars, workerVars, crash>>

\* Yes: the pointer is read again, and not tested again.
AnswerStop ==
  /\ Dispatching
  /\ box = "stop"
  /\ \/ ~dlgWorker /\ Crash("null")
     \/ /\ Reads("cancel")
        /\ box' = "none"
        /\ UNCHANGED <<mainVars, detach, window, timer, finishedMsgs, lookVars,
                       dlgVars, workerVars, crash>>

\* No.
AnswerNo ==
  /\ Dispatching
  /\ box \in {"cancel", "stop"}
  /\ box' = "none"
  /\ UNCHANGED <<mainVars, detach, dlgPc, useOf, window, timer, finishedMsgs,
                 lookVars, dlgVars, workerVars, crash>>

\* Mutant of Finish: a dialog in the background stays there.
FinishHidden(error, wasCancelled) ==
  \/ /\ ~error /\ ~wasCancelled /\ closeOnFinish
     /\ BeginDestroy
     /\ UNCHANGED <<cancelEnabled, hidden>>
  \/ /\ error \/ wasCancelled \/ ~closeOnFinish
     /\ dlgPc' = "loop" /\ useOf' = "none"
     /\ cancelEnabled' = TRUE
     /\ UNCHANGED <<detach, box, window, timer, hidden>>

\* The end of the FINISHED handler: a quiet end closes the window if the user
\* wants it; else the button says Close, and an error is brought into sight.
Finish(error, wasCancelled) ==
  \/ /\ ~error /\ ~wasCancelled /\ closeOnFinish
     /\ BeginDestroy
     /\ UNCHANGED <<cancelEnabled, hidden>>
  \/ /\ error \/ wasCancelled \/ ~closeOnFinish
     /\ dlgPc' = "loop" /\ useOf' = "none"
     /\ cancelEnabled' = TRUE
     /\ hidden' = (hidden /\ ~(error /\ ~wasCancelled))
     /\ UNCHANGED <<detach, box, window, timer>>

\* Mutant of Finished: OperationFinished is only set by the other branch.
FinishedForgets ==
  /\ Dispatching
  /\ finishedMsgs > 0
  /\ finishedMsgs' = finishedMsgs - 1
  /\ timer' = FALSE
  /\ Reads("finish") \/ (~dlgWorker /\ UNCHANGED <<dlgPc, useOf>>)
  /\ UNCHANGED <<mainVars, detach, box, window, lookVars, dlgVars, workerVars,
                 crash>>

\* WM_APP_SFTP_WORKER_FINISHED.
Finished ==
  /\ Dispatching
  /\ finishedMsgs > 0
  /\ finishedMsgs' = finishedMsgs - 1
  /\ timer' = FALSE
  /\ operationFinished' = TRUE
  /\ Reads("finish") \/ (~dlgWorker /\ dlgPc' = "blind" /\ UNCHANGED useOf)
  /\ UNCHANGED <<mainVars, detach, box, window, hidden, wantCancel,
                 cancelEnabled, closeOnFinish, dlgVars, workerVars, crash>>

\* It takes a snapshot of the worker...
FinishWithSnapshot ==
  /\ DlgAt("use")
  /\ useOf = "finish"
  /\ \/ UsesFreed
     \/ /\ workerObj = "alive"
        /\ Finish(hasError, cancelled)
        /\ UNCHANGED <<mainVars, finishedMsgs, wantCancel, operationFinished,
                       closeOnFinish, dlgVars, workerVars, crash>>

\* ... or, without a worker, uses a snapshot nobody has filled.
FinishWithout ==
  /\ DlgAt("blind")
  /\ \E error, wasCancelled \in BOOLEAN : Finish(error, wasCancelled)
  /\ UNCHANGED <<mainVars, finishedMsgs, wantCancel, operationFinished,
                 closeOnFinish, dlgVars, workerVars, crash>>

\* The rest of WM_DESTROY: the file system forgets the dialog.
ReadFS ==
  /\ DlgAt("destroy")
  /\ detach["dlg"] = "no"
  /\ dlgPc' = IF dlgFS THEN "unregister" ELSE "quit"
  /\ UNCHANGED <<mainVars, detach, useOf, box, window, timer, finishedMsgs,
                 lookVars, dlgVars, workerVars, crash>>

\* Mutant of UnregisterTransferDlg: the dialog stays on the list.
UnregisterForgets ==
  /\ DlgAt("unregister")
  /\ dlgFS' = FALSE
  /\ dlgPc' = "quit"
  /\ UNCHANGED <<mainVars, detach, useOf, box, window, timer, finishedMsgs,
                 lookVars, dlgObj, dlgWorker, workerVars, crash>>

UnregisterTransferDlg ==
  /\ DlgAt("unregister")
  /\ \/ mainPc = "gone" /\ Crash("freed")
     \/ /\ mainPc # "gone"
        /\ registered' = FALSE
        /\ dlgFS' = FALSE
        /\ dlgPc' = "quit"
        /\ UNCHANGED <<mainPc, detach, useOf, box, window, timer, finishedMsgs,
                       lookVars, dlgObj, dlgWorker, workerVars, crash>>

-----------------------------------------------------------------------------
(* The worker's thread                                                     *)

\* The transfer ends, one way or the other.
TransferEnds ==
  /\ WorkerAt("run")
  /\ \/ UsesFreed
     \/ /\ workerObj = "alive"
        /\ hasError' \in BOOLEAN
        /\ workerPc' = "post"
        /\ UNCHANGED <<mainVars, detach, loopVars, finishedMsgs, lookVars,
                       dlgVars, workerObj, threadHandle, dlgHwnd, cancelled,
                       crash>>

\* The dialog is told, if the worker still knows it.
PostFinished ==
  /\ WorkerAt("post")
  /\ \/ UsesFreed
     \/ /\ workerObj = "alive"
        /\ finishedMsgs' = IF dlgHwnd /\ window = "open" THEN finishedMsgs + 1
                           ELSE finishedMsgs
        /\ workerPc' = "exited"
        /\ UNCHANGED <<mainVars, detach, loopVars, lookVars, dlgVars, workerObj,
                       threadHandle, dlgHwnd, cancelled, hasError, crash>>

-----------------------------------------------------------------------------
Init ==
  /\ mainPc = "new" /\ registered = FALSE
  /\ detach = [t \in UIThreads |-> "no"]
  /\ dlgPc = "none" /\ useOf = "none" /\ box = "none"
  /\ window = "none" /\ timer = FALSE /\ finishedMsgs = 0
  /\ dlgObj = "alive" /\ dlgWorker = FALSE /\ dlgFS = FALSE
  /\ hidden = FALSE /\ wantCancel = FALSE /\ cancelEnabled = TRUE
  /\ operationFinished = FALSE /\ closeOnFinish \in BOOLEAN
  /\ workerObj = "alive" /\ threadHandle = FALSE /\ dlgHwnd = FALSE
  /\ cancelled = FALSE /\ hasError = FALSE /\ workerPc = "none"
  /\ crash = "none"

MainThread ==
  \/ StartDialogThread \/ DialogShown \/ DialogGivenUp
  \/ AttachWorker \/ RegisterTransferDlg \/ StartWorker \/ StartWorkerReturns
  \/ ShowTransferDialog \/ ShowReadsWorker
  \/ CloseFS \/ PopDialog \/ DetachWorker("main") \/ DestroyFromMain

\* What the dialog's thread does by itself, and what the user makes it do.
DialogThread ==
  \/ CreateDialog \/ Tick \/ UseWorker \/ CancelWorker
  \/ Finished \/ FinishWithSnapshot \/ FinishWithout
  \/ DetachWorker("dlg") \/ ReadFS \/ UnregisterTransferDlg

User ==
  \/ ClickPause \/ ClickBackground \/ ToggleCloseOnFinish
  \/ ClickCancel \/ AnswerCancel \/ ClickStop \/ AnswerStop \/ AnswerNo

WorkerThread == TransferEnds \/ PostFinished

Next == MainThread \/ DialogThread \/ User \/ WorkerThread

Spec == Init /\ [][Next]_vars

-----------------------------------------------------------------------------
(* Safety                                                                  *)

\* Every variable has its type: those of the threads, of the dialog and of the
\* worker.
ThreadTypes ==
  /\ mainPc \in {"new", "wait", "gaveUp", "fill", "register", "start",
                 "creating", "idle", "show", "pop", "detach", "gone"}
  /\ registered \in BOOLEAN
  /\ detach \in [UIThreads -> {"no", "took", "stop", "join", "free"}]
  /\ dlgPc \in {"none", "create", "loop", "use", "blind", "destroy",
                "unregister", "quit"}
  /\ useOf \in {"none", "look", "cancel", "finish"}
  /\ box \in {"none", "cancel", "stop", "pump"}
  /\ window \in {"none", "open", "closed"}
  /\ timer \in BOOLEAN

DialogTypes ==
  /\ dlgObj \in {"alive", "deleted"} /\ dlgWorker \in BOOLEAN
  /\ dlgFS \in BOOLEAN /\ hidden \in BOOLEAN /\ wantCancel \in BOOLEAN
  /\ cancelEnabled \in BOOLEAN /\ operationFinished \in BOOLEAN
  /\ closeOnFinish \in BOOLEAN

WorkerTypes ==
  /\ workerObj \in {"alive", "deleted"} /\ threadHandle \in BOOLEAN
  /\ dlgHwnd \in BOOLEAN /\ cancelled \in BOOLEAN /\ hasError \in BOOLEAN
  /\ workerPc \in {"none", "run", "post", "exited", "killed"}
  /\ finishedMsgs \in 0 .. 1
  /\ crash \in {"none", "freed", "null"}

TypeOK == ThreadTypes /\ DialogTypes /\ WorkerTypes

\* The main thread does nothing that could take an object from another thread.
MainIsQuiet == mainPc \in {"new", "wait", "fill", "register", "start", "idle"}

\* The dialog's thread and the worker's thread get along: a freed object is
\* only used when the main thread gives up, starts, shows or closes something.
CrashNeedsMain == crash # "none" => ~MainIsQuiet

\* The worker object is only deleted when its thread has ended, whoever
\* deletes it.
ThreadEndsFirst == workerObj = "deleted" => ~WorkerLives

\* The dialogs on the list of the file system still have their thread, so
\* that ShowTransferDialog and the destructor find a dialog there.
ListedIsThere == registered => dlgPc \notin {"none", "create", "quit"}

\* When the dialog is gone and the main thread has nothing to do with it, the
\* worker is not left behind.
WorkerIsFreed ==
  dlgPc = "quit" /\ mainPc \in {"idle", "gone"} => workerObj = "deleted"

\* A transfer that failed is in sight, even if it was sent to the background
\* before.
ErrorIsShown ==
  Dispatching /\ operationFinished /\ hasError /\ ~cancelled
  /\ mainPc \in {"creating", "idle", "show"} => ~hidden

-----------------------------------------------------------------------------
(* What the documentation promises and the code does not keep              *)

\* Closing the file system is safe: neither its destructor nor the dialog's
\* thread uses an object the other has freed.
CloseIsSafe == mainPc \in {"pop", "detach", "gone"} => crash = "none"

-----------------------------------------------------------------------------
(* Liveness                                                                *)

\* The threads run.  A message in the queue is taken however often the thread
\* is busy with another one: Windows hands out posted messages in order and
\* before WM_TIMER.  The user, and the main thread when it is idle, need not do
\* anything.
Fairness ==
  /\ WF_vars(PostFinished)
  /\ WF_vars(UseWorker \/ CancelWorker \/ FinishWithSnapshot \/ FinishWithout
             \/ DetachWorker("dlg") \/ ReadFS \/ UnregisterTransferDlg)
  /\ SF_vars(Finished)
  /\ WF_vars(StartWorkerReturns \/ ShowReadsWorker)

FairSpec == Spec /\ Fairness

\* The end of every transfer reaches the dialog, unless the panel is closed:
\* whatever message box is open and wherever the dialog is hidden.
EndIsSeen ==
  workerPc = "post" ~>
    (operationFinished \/ mainPc \in {"pop", "detach", "gone"} \/ crash # "none")

=============================================================================
