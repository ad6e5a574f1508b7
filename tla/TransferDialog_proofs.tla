----------------------- MODULE TransferDialog_proofs -----------------------
(***************************************************************************)
(* Theorems about TransferDialog.  The module has no parameter, so that    *)
(* TLC visits all its states; the proofs say why its invariants hold, in   *)
(* particular what keeps the Worker pointer good without a lock.           *)
(***************************************************************************)
EXTENDS TransferDialog, TLAPS

-----------------------------------------------------------------------------
(* The inductive invariant                                                 *)

\* The places of the main thread by how far the transfer has come: the worker
\* is not with the dialog yet, its thread is not made yet, or both are there and
\* the file system is not being closed.
Filling == {"new", "wait", "gaveUp", "fill"}
NotStarted == Filling \cup {"register", "start"}
NotClosing == {"register", "start", "creating", "idle", "show"}

\* The worker's thread posts once, as the last thing it does.
MessageFits == finishedMsgs > 0 \/ operationFinished => workerPc = "exited"

\* The window, the dialog's thread and the main thread are at places that fit.
WindowFits ==
  /\ dlgPc \in {"none", "create"} => window = "none"
  /\ dlgPc \in {"loop", "use", "blind"} => window = "open"
  /\ dlgPc \in {"destroy", "unregister"} => window = "closed"
  /\ dlgPc = "quit" => window # "open"
  /\ mainPc = "new" => dlgPc = "none"
  /\ dlgPc = "none" => mainPc \in {"new", "gaveUp"}
  /\ window = "none" => mainPc \in {"new", "wait", "gaveUp"}
  /\ mainPc \in {"new", "gaveUp"} => window = "none"
  /\ dlgObj = "deleted" <=> mainPc = "gaveUp"

\* The window is only closed when the transfer has been seen to end.
ClosedIsFinished ==
  window = "closed" \/ dlgPc = "blind" \/ (dlgPc = "use" /\ useOf = "finish")
    => operationFinished

\* What has not happened yet before the worker is started.
StartFits ==
  /\ mainPc \in NotStarted => workerPc = "none" /\ ~threadHandle
  /\ mainPc \in Filling => ~dlgWorker /\ ~dlgFS /\ ~registered /\ box # "stop"
  /\ mainPc \in NotStarted \ {"gaveUp"} => workerObj = "alive"

\* A dialog that is listed, or about to be, knows its file system.
ListFits == mainPc = "register" \/ registered => dlgFS

\* A worker is detached where the code does it, and only once: who has come past
\* the clearing of the pointer has cleared it.
DetachFits ==
  /\ detach["main"] # "no" => mainPc = "detach"
  /\ detach["dlg"] # "no" => dlgPc = "destroy"
  /\ \A t \in UIThreads : detach[t] \in {"stop", "join", "free"} => ~dlgWorker

\* Whoever deletes the worker can wait for its thread.
HandleFits == WorkerLives => threadHandle \/ mainPc = "creating"

\* The worker has an owner: the dialog that points to it, or the thread that is
\* detaching it.  The main thread apart, nobody takes it from the dialog while
\* the window is open.
OwnerFits ==
  /\ dlgWorker => workerObj = "alive"
  /\ mainPc \in NotClosing =>
       /\ detach["dlg"] # "no" => workerObj = "alive"
       /\ window = "open" => dlgWorker
  /\ workerObj = "alive" /\ mainPc \notin Filling =>
       dlgWorker \/ \E t \in UIThreads : detach[t] # "no"
  /\ dlgWorker /\ window = "closed" => detach["dlg"] = "took"
  /\ dlgPc = "blind" => ~dlgWorker

\* Once the FINISHED handler is through, an error is in sight.
ShownFits ==
  operationFinished /\ hasError /\ ~cancelled /\ window = "open"
  /\ mainPc \in {"creating", "idle", "show"} /\ ~(dlgPc = "use" /\ useOf = "finish")
    => ~hidden

IndInv ==
  /\ TypeOK
  /\ MessageFits
  /\ WindowFits
  /\ ClosedIsFinished
  /\ StartFits
  /\ ListFits
  /\ DetachFits
  /\ HandleFits
  /\ OwnerFits
  /\ ShownFits
  /\ ThreadEndsFirst
  /\ ListedIsThere
  /\ CrashNeedsMain

-----------------------------------------------------------------------------
(* The threads' places and the frames of the actions are always expanded   *)

USE DEF MainAt, DlgAt, DetachAt, WorkerAt, Crash, UsesFreed,
        mainVars, loopVars, lookVars, dlgVars, workerVars

-----------------------------------------------------------------------------
(* The main thread begins a transfer                                       *)

\* The thread of the dialog is there, or the dialog and the worker are not.
LEMMA StartDialogThreadKeeps ==
  ASSUME IndInv, StartDialogThread
  PROVE  IndInv'
<1>1. TypeOK'
  BY DEF IndInv, TypeOK, ThreadTypes, DialogTypes, WorkerTypes,
         StartDialogThread
<1>2. MessageFits'
  BY DEF IndInv, StartDialogThread, MessageFits
<1>3. WindowFits'
  BY DEF IndInv, StartDialogThread, WindowFits
<1>4. ClosedIsFinished'
  BY DEF IndInv, StartDialogThread, ClosedIsFinished
<1>5. StartFits'
  BY DEF IndInv, StartDialogThread, StartFits, Filling, NotStarted
<1>6. ListFits'
  BY DEF IndInv, StartDialogThread, ListFits
<1>7. DetachFits'
  BY DEF IndInv, StartDialogThread, DetachFits, WindowFits, UIThreads
<1>8. HandleFits'
  BY DEF IndInv, StartDialogThread, HandleFits, WorkerLives
<1>9. OwnerFits'
  BY DEF IndInv, StartDialogThread, OwnerFits, StartFits, Filling, NotClosing,
         UIThreads, NotStarted
<1>10. ShownFits'
  BY DEF IndInv, StartDialogThread, ShownFits
<1>11. ThreadEndsFirst'
  BY DEF IndInv, StartDialogThread, ThreadEndsFirst, StartFits, WorkerLives,
         Filling, NotStarted
<1>12. ListedIsThere'
  BY DEF IndInv, StartDialogThread, ListedIsThere, WindowFits
<1>13. CrashNeedsMain'
  BY DEF IndInv, StartDialogThread, CrashNeedsMain, MainIsQuiet
<1> QED
  BY <1>1, <1>2, <1>3, <1>4, <1>5, <1>6, <1>7, <1>8, <1>9, <1>10, <1>11, <1>12,
     <1>13 DEF IndInv

\* The window is open, so that the dialog's thread is past its beginning.
LEMMA DialogShownKeeps ==
  ASSUME IndInv, DialogShown
  PROVE  IndInv'
<1>1. TypeOK'
  BY DEF IndInv, TypeOK, ThreadTypes, DialogTypes, WorkerTypes, DialogShown
<1>2. MessageFits' /\ ClosedIsFinished' /\ ThreadEndsFirst' /\ ListedIsThere'
  BY DEF IndInv, DialogShown, MessageFits, ClosedIsFinished, ThreadEndsFirst,
         ListedIsThere, WorkerLives
<1>3. WindowFits'
  BY DEF IndInv, DialogShown, WindowFits
<1>4. StartFits'
  BY DEF IndInv, DialogShown, StartFits, Filling, NotStarted
<1>5. ListFits'
  BY DEF IndInv, DialogShown, ListFits
<1>6. DetachFits'
  BY DEF IndInv, DialogShown, DetachFits, UIThreads
<1>7. HandleFits'
  BY DEF IndInv, DialogShown, HandleFits, WorkerLives
<1>8. OwnerFits'
  BY DEF IndInv, DialogShown, OwnerFits, Filling, NotClosing, UIThreads
<1>9. ShownFits'
  BY DEF IndInv, DialogShown, ShownFits
<1>10. CrashNeedsMain'
  BY DEF IndInv, DialogShown, CrashNeedsMain, MainIsQuiet
<1> QED
  BY <1>1, <1>2, <1>3, <1>4, <1>5, <1>6, <1>7, <1>8, <1>9, <1>10 DEF IndInv

\* No worker thread is left without its object: there is none yet.
LEMMA DialogGivenUpKeeps ==
  ASSUME IndInv, DialogGivenUp
  PROVE  IndInv'
<1>1. TypeOK'
  BY DEF IndInv, TypeOK, ThreadTypes, DialogTypes, WorkerTypes, DialogGivenUp
<1>2. MessageFits' /\ ClosedIsFinished' /\ ListedIsThere'
  BY DEF IndInv, DialogGivenUp, MessageFits, ClosedIsFinished, ListedIsThere
<1>3. WindowFits'
  BY DEF IndInv, DialogGivenUp, WindowFits
<1>4. StartFits'
  BY DEF IndInv, DialogGivenUp, StartFits, Filling, NotStarted
<1>5. ListFits'
  BY DEF IndInv, DialogGivenUp, ListFits
<1>6. DetachFits'
  BY DEF IndInv, DialogGivenUp, DetachFits, UIThreads
<1>7. HandleFits'
  BY DEF IndInv, DialogGivenUp, HandleFits, WorkerLives
<1>8. OwnerFits'
  BY DEF IndInv, DialogGivenUp, OwnerFits, StartFits, Filling, NotClosing,
         UIThreads, NotStarted
<1>9. ShownFits'
  BY DEF IndInv, DialogGivenUp, ShownFits
<1>10. ThreadEndsFirst'
  BY DEF IndInv, DialogGivenUp, ThreadEndsFirst, StartFits, WorkerLives,
         Filling, NotStarted
<1>11. CrashNeedsMain'
  BY DEF IndInv, DialogGivenUp, CrashNeedsMain, MainIsQuiet
<1> QED
  BY <1>1, <1>2, <1>3, <1>4, <1>5, <1>6, <1>7, <1>8, <1>9, <1>10, <1>11 DEF IndInv

\* The dialog becomes the owner of a worker that nobody has started.
LEMMA AttachWorkerKeeps ==
  ASSUME IndInv, AttachWorker
  PROVE  IndInv'
<1>1. TypeOK'
  BY DEF IndInv, TypeOK, ThreadTypes, DialogTypes, WorkerTypes, AttachWorker
<1>2. MessageFits' /\ ClosedIsFinished' /\ ThreadEndsFirst' /\ ListedIsThere'
  BY DEF IndInv, AttachWorker, MessageFits, ClosedIsFinished, ThreadEndsFirst,
         ListedIsThere, WorkerLives
<1>3. WindowFits'
  BY DEF IndInv, AttachWorker, WindowFits
<1>4. StartFits'
  BY DEF IndInv, AttachWorker, StartFits, Filling, NotStarted
<1>5. ListFits'
  BY DEF IndInv, AttachWorker, ListFits
<1>6. DetachFits'
  BY DEF IndInv, AttachWorker, DetachFits, MessageFits, WindowFits,
         ClosedIsFinished, StartFits, UIThreads, Filling, NotStarted
<1>7. HandleFits'
  BY DEF IndInv, AttachWorker, HandleFits, WorkerLives
<1>8. OwnerFits'
  BY DEF IndInv, AttachWorker, OwnerFits, MessageFits, ClosedIsFinished,
         StartFits, Filling, NotClosing, UIThreads, NotStarted
<1>9. ShownFits'
  BY DEF IndInv, AttachWorker, ShownFits
<1>10. CrashNeedsMain'
  BY DEF IndInv, AttachWorker, CrashNeedsMain, MainIsQuiet
<1> QED
  BY <1>1, <1>2, <1>3, <1>4, <1>5, <1>6, <1>7, <1>8, <1>9, <1>10 DEF IndInv

\* The dialog that is listed has a window: it is not closed before an end was seen.
LEMMA RegisterTransferDlgKeeps ==
  ASSUME IndInv, RegisterTransferDlg
  PROVE  IndInv'
<1>1. TypeOK'
  BY DEF IndInv, TypeOK, ThreadTypes, DialogTypes, WorkerTypes,
         RegisterTransferDlg
<1>2. MessageFits' /\ ClosedIsFinished' /\ ThreadEndsFirst'
  BY DEF IndInv, RegisterTransferDlg, MessageFits, ClosedIsFinished,
         ThreadEndsFirst, WorkerLives
<1>3. WindowFits'
  BY DEF IndInv, RegisterTransferDlg, WindowFits
<1>4. StartFits'
  BY DEF IndInv, RegisterTransferDlg, StartFits, Filling, NotStarted
<1>5. ListFits'
  BY DEF IndInv, RegisterTransferDlg, ListFits
<1>6. DetachFits'
  BY DEF IndInv, RegisterTransferDlg, DetachFits, UIThreads
<1>7. HandleFits'
  BY DEF IndInv, RegisterTransferDlg, HandleFits, WorkerLives
<1>8. OwnerFits'
  BY DEF IndInv, RegisterTransferDlg, OwnerFits, Filling, NotClosing, UIThreads
<1>9. ShownFits'
  BY DEF IndInv, RegisterTransferDlg, ShownFits
<1>10. ListedIsThere'
  BY DEF IndInv, RegisterTransferDlg, ListedIsThere, TypeOK, MessageFits,
         WindowFits, ClosedIsFinished, StartFits, ThreadTypes, DialogTypes,
         WorkerTypes, Filling, NotStarted
<1>11. CrashNeedsMain'
  BY DEF IndInv, RegisterTransferDlg, CrashNeedsMain, MainIsQuiet
<1> QED
  BY <1>1, <1>2, <1>3, <1>4, <1>5, <1>6, <1>7, <1>8, <1>9, <1>10, <1>11 DEF IndInv

\* No message of this worker is in the queue yet, as its thread is new.
LEMMA StartWorkerKeeps ==
  ASSUME IndInv, StartWorker
  PROVE  IndInv'
<1>1. TypeOK'
  <2>1. ThreadTypes'
    BY DEF IndInv, TypeOK, ThreadTypes, StartWorker
  <2>2. DialogTypes'
    BY DEF IndInv, TypeOK, DialogTypes, StartWorker
  <2>3. WorkerTypes'
    BY DEF IndInv, TypeOK, WorkerTypes, StartWorker
  <2> QED
    BY <2>1, <2>2, <2>3 DEF TypeOK
<1>2. ClosedIsFinished' /\ ListedIsThere'
  BY DEF IndInv, StartWorker, ClosedIsFinished, ListedIsThere
<1>3. MessageFits'
  BY DEF IndInv, StartWorker, MessageFits, StartFits, Filling, NotStarted
<1>4. WindowFits'
  BY DEF IndInv, StartWorker, WindowFits
<1>5. StartFits'
  BY DEF IndInv, StartWorker, StartFits, Filling, NotStarted
<1>6. ListFits'
  BY DEF IndInv, StartWorker, ListFits
<1>7. DetachFits'
  BY DEF IndInv, StartWorker, DetachFits, UIThreads
<1>8. HandleFits'
  BY DEF IndInv, StartWorker, HandleFits, WorkerLives
<1>9. OwnerFits'
  BY DEF IndInv, StartWorker, OwnerFits, Filling, NotClosing, UIThreads
<1>10. ShownFits'
  BY DEF IndInv, StartWorker, ShownFits, MessageFits, StartFits, Filling,
         NotStarted
<1>11. ThreadEndsFirst'
  BY DEF IndInv, StartWorker, ThreadEndsFirst, StartFits, WorkerLives, Filling,
         NotStarted
<1>12. CrashNeedsMain'
  BY DEF IndInv, StartWorker, CrashNeedsMain, MainIsQuiet
<1> QED
  BY <1>1, <1>2, <1>3, <1>4, <1>5, <1>6, <1>7, <1>8, <1>9, <1>10, <1>11, <1>12 DEF IndInv

\* The handle comes after the thread; until then the main thread is at creating.
LEMMA StartWorkerReturnsKeeps ==
  ASSUME IndInv, StartWorkerReturns
  PROVE  IndInv'
<1>1. TypeOK'
  BY DEF IndInv, TypeOK, ThreadTypes, DialogTypes, WorkerTypes,
         StartWorkerReturns
<1>2. MessageFits' /\ ClosedIsFinished' /\ ThreadEndsFirst' /\ ListedIsThere'
  BY DEF IndInv, StartWorkerReturns, MessageFits, ClosedIsFinished,
         ThreadEndsFirst, ListedIsThere, WorkerLives
<1>3. WindowFits'
  BY DEF IndInv, StartWorkerReturns, WindowFits
<1>4. StartFits'
  BY DEF IndInv, StartWorkerReturns, StartFits, Filling, NotStarted
<1>5. ListFits'
  BY DEF IndInv, StartWorkerReturns, ListFits
<1>6. DetachFits'
  BY DEF IndInv, StartWorkerReturns, DetachFits, UIThreads
<1>7. HandleFits'
  BY DEF IndInv, StartWorkerReturns, HandleFits, WorkerLives
<1>8. OwnerFits'
  BY DEF IndInv, StartWorkerReturns, OwnerFits, Filling, NotClosing, UIThreads
<1>9. ShownFits'
  BY DEF IndInv, StartWorkerReturns, ShownFits
<1>10. CrashNeedsMain'
  BY DEF IndInv, StartWorkerReturns, CrashNeedsMain, MainIsQuiet
<1> QED
  BY <1>1, <1>2, <1>3, <1>4, <1>5, <1>6, <1>7, <1>8, <1>9, <1>10 DEF IndInv

-----------------------------------------------------------------------------
(* Detaching the worker                                                    *)

\* Whoever detaches takes the pointer away from the dialog and becomes the owner.
LEMMA DetachClearsKeeps ==
  ASSUME NEW t \in UIThreads, IndInv, DetachClears(t)
  PROVE  IndInv'
<1>1. TypeOK'
  BY DEF IndInv, TypeOK, ThreadTypes, DialogTypes, WorkerTypes, DetachClears,
         UIThreads
<1>2. MessageFits' /\ WindowFits' /\ ClosedIsFinished' /\ ListFits'
      /\ HandleFits' /\ ShownFits' /\ ThreadEndsFirst' /\ ListedIsThere'
  BY DEF IndInv, DetachClears, UIThreads, MessageFits, WindowFits,
         ClosedIsFinished, ListFits, HandleFits, ShownFits, ThreadEndsFirst,
         ListedIsThere, WorkerLives
<1>3. StartFits'
  BY DEF IndInv, DetachClears, UIThreads, StartFits, Filling, NotStarted
<1>4. DetachFits'
  BY DEF IndInv, DetachClears, UIThreads, DetachFits, TypeOK, ThreadTypes,
         DialogTypes, WorkerTypes
<1>5. OwnerFits'
  BY DEF IndInv, DetachClears, UIThreads, OwnerFits, TypeOK, WindowFits,
         DetachFits, Filling, NotClosing, ThreadTypes, DialogTypes, WorkerTypes
<1>6. CrashNeedsMain'
  BY DEF IndInv, DetachClears, UIThreads, CrashNeedsMain, StartFits, DetachFits,
         OwnerFits, MainIsQuiet, Filling, NotStarted, NotClosing
<1> QED
  BY <1>1, <1>2, <1>3, <1>4, <1>5, <1>6 DEF IndInv

\* Without a handle there is no thread to wait for, or the main thread is at creating.
LEMMA DetachStopsKeeps ==
  ASSUME NEW t \in UIThreads, IndInv, DetachStops(t)
  PROVE  IndInv'
<1>1. TypeOK'
  BY DEF IndInv, TypeOK, ThreadTypes, DialogTypes, WorkerTypes, DetachStops,
         UIThreads
<1>2. MessageFits' /\ WindowFits' /\ ClosedIsFinished' /\ StartFits'
      /\ ListFits' /\ HandleFits' /\ ThreadEndsFirst' /\ ListedIsThere'
  BY DEF IndInv, DetachStops, UIThreads, MessageFits, WindowFits,
         ClosedIsFinished, StartFits, ListFits, HandleFits, ThreadEndsFirst,
         ListedIsThere, Filling, NotStarted, WorkerLives
<1>3. DetachFits'
  BY DEF IndInv, DetachStops, UIThreads, DetachFits, TypeOK, ThreadTypes,
         DialogTypes, WorkerTypes
<1>4. OwnerFits'
  BY DEF IndInv, DetachStops, UIThreads, OwnerFits, TypeOK, Filling, NotClosing,
         ThreadTypes, DialogTypes, WorkerTypes
<1>5. ShownFits'
  BY DEF IndInv, DetachStops, UIThreads, ShownFits
<1>6. CrashNeedsMain'
  BY DEF IndInv, DetachStops, UIThreads, CrashNeedsMain, StartFits, DetachFits,
         OwnerFits, MainIsQuiet, Filling, NotStarted, NotClosing
<1> QED
  BY <1>1, <1>2, <1>3, <1>4, <1>5, <1>6 DEF IndInv

\* The thread is not there any more when the handle is closed.
LEMMA DetachJoinsKeeps ==
  ASSUME NEW t \in UIThreads, IndInv, DetachJoins(t)
  PROVE  IndInv'
<1>1. TypeOK'
  BY DEF IndInv, TypeOK, ThreadTypes, DialogTypes, WorkerTypes, DetachJoins,
         UIThreads, WorkerLives
<1>2. WindowFits' /\ ClosedIsFinished' /\ ListFits' /\ ShownFits'
      /\ ListedIsThere'
  BY DEF IndInv, DetachJoins, UIThreads, WorkerLives, WindowFits,
         ClosedIsFinished, ListFits, ShownFits, ListedIsThere
<1>3. MessageFits'
  BY DEF IndInv, DetachJoins, UIThreads, WorkerLives, MessageFits
<1>4. StartFits'
  BY DEF IndInv, DetachJoins, UIThreads, WorkerLives, StartFits, Filling,
         NotStarted
<1>5. DetachFits'
  BY DEF IndInv, DetachJoins, UIThreads, WorkerLives, DetachFits, TypeOK,
         ThreadTypes, DialogTypes, WorkerTypes
<1>6. HandleFits'
  BY DEF IndInv, DetachJoins, UIThreads, WorkerLives, HandleFits
<1>7. OwnerFits'
  BY DEF IndInv, DetachJoins, UIThreads, WorkerLives, OwnerFits, TypeOK,
         Filling, NotClosing, ThreadTypes, DialogTypes, WorkerTypes
<1>8. ThreadEndsFirst'
  BY DEF IndInv, DetachJoins, UIThreads, WorkerLives, ThreadEndsFirst
<1>9. CrashNeedsMain'
  BY DEF IndInv, DetachJoins, UIThreads, WorkerLives, CrashNeedsMain, StartFits,
         DetachFits, OwnerFits, MainIsQuiet, Filling, NotStarted, NotClosing
<1> QED
  BY <1>1, <1>2, <1>3, <1>4, <1>5, <1>6, <1>7, <1>8, <1>9 DEF IndInv

\* The worker that is freed has no thread, and no dialog points to it.
LEMMA DetachFreesKeeps ==
  ASSUME NEW t \in UIThreads, IndInv, DetachFrees(t)
  PROVE  IndInv'
<1>1. TypeOK'
  BY DEF IndInv, TypeOK, ThreadTypes, DialogTypes, WorkerTypes, DetachFrees,
         UIThreads
<1>2. MessageFits' /\ WindowFits' /\ ClosedIsFinished' /\ ListFits'
      /\ HandleFits' /\ ShownFits' /\ ListedIsThere'
  BY DEF IndInv, DetachFrees, UIThreads, MessageFits, WindowFits,
         ClosedIsFinished, ListFits, HandleFits, ShownFits, ListedIsThere,
         WorkerLives
<1>3. StartFits'
  BY DEF IndInv, DetachFrees, UIThreads, StartFits, MessageFits, WindowFits,
         ClosedIsFinished, DetachFits, Filling, NotStarted
<1>4. DetachFits'
  BY DEF IndInv, DetachFrees, UIThreads, DetachFits, TypeOK, ThreadTypes,
         DialogTypes, WorkerTypes
<1>5. OwnerFits'
  BY DEF IndInv, DetachFrees, UIThreads, OwnerFits, TypeOK, DetachFits, Filling,
         NotClosing, ThreadTypes, DialogTypes, WorkerTypes
<1>6. ThreadEndsFirst'
  BY DEF IndInv, DetachFrees, UIThreads, ThreadEndsFirst, MessageFits,
         WindowFits, ClosedIsFinished, DetachFits, HandleFits, WorkerLives
<1>7. CrashNeedsMain'
  BY DEF IndInv, DetachFrees, UIThreads, CrashNeedsMain, StartFits, DetachFits,
         OwnerFits, MainIsQuiet, Filling, NotStarted, NotClosing
<1> QED
  BY <1>1, <1>2, <1>3, <1>4, <1>5, <1>6, <1>7 DEF IndInv

-----------------------------------------------------------------------------
(* What else the main thread does                                          *)

\* The dialog comes into sight.
LEMMA ShowTransferDialogKeeps ==
  ASSUME IndInv, ShowTransferDialog
  PROVE  IndInv'
<1>1. TypeOK'
  <2>1. ThreadTypes'
    BY DEF IndInv, TypeOK, ThreadTypes, ShowTransferDialog
  <2>2. DialogTypes'
    BY DEF IndInv, TypeOK, DialogTypes, ShowTransferDialog
  <2>3. WorkerTypes'
    BY DEF IndInv, TypeOK, WorkerTypes, ShowTransferDialog
  <2> QED
    BY <2>1, <2>2, <2>3 DEF TypeOK
<1>2. MessageFits' /\ ClosedIsFinished' /\ ThreadEndsFirst' /\ ListedIsThere'
  BY DEF IndInv, ShowTransferDialog, MessageFits, ClosedIsFinished,
         ThreadEndsFirst, ListedIsThere, WorkerLives
<1>3. WindowFits'
  BY DEF IndInv, ShowTransferDialog, WindowFits
<1>4. StartFits'
  BY DEF IndInv, ShowTransferDialog, StartFits, Filling, NotStarted
<1>5. ListFits'
  BY DEF IndInv, ShowTransferDialog, ListFits
<1>6. DetachFits'
  BY DEF IndInv, ShowTransferDialog, DetachFits, UIThreads
<1>7. HandleFits'
  BY DEF IndInv, ShowTransferDialog, HandleFits, WorkerLives
<1>8. OwnerFits'
  BY DEF IndInv, ShowTransferDialog, OwnerFits, Filling, NotClosing, UIThreads
<1>9. ShownFits'
  BY DEF IndInv, ShowTransferDialog, ShownFits
<1>10. CrashNeedsMain'
  BY DEF IndInv, ShowTransferDialog, CrashNeedsMain, MainIsQuiet
<1> QED
  BY <1>1, <1>2, <1>3, <1>4, <1>5, <1>6, <1>7, <1>8, <1>9, <1>10 DEF IndInv

\* The worker that is read may be gone, but not by the main thread's doing alone.
LEMMA ShowReadsWorkerKeeps ==
  ASSUME IndInv, ShowReadsWorker
  PROVE  IndInv'
<1>1. TypeOK'
  BY DEF IndInv, TypeOK, ThreadTypes, DialogTypes, WorkerTypes, ShowReadsWorker
<1>2. MessageFits' /\ ClosedIsFinished' /\ ThreadEndsFirst' /\ ListedIsThere'
  BY DEF IndInv, ShowReadsWorker, MessageFits, ClosedIsFinished,
         ThreadEndsFirst, ListedIsThere, WorkerLives
<1>3. WindowFits'
  BY DEF IndInv, ShowReadsWorker, WindowFits
<1>4. StartFits'
  BY DEF IndInv, ShowReadsWorker, StartFits, Filling, NotStarted
<1>5. ListFits'
  BY DEF IndInv, ShowReadsWorker, ListFits
<1>6. DetachFits'
  BY DEF IndInv, ShowReadsWorker, DetachFits, UIThreads
<1>7. HandleFits'
  BY DEF IndInv, ShowReadsWorker, HandleFits, WorkerLives
<1>8. OwnerFits'
  BY DEF IndInv, ShowReadsWorker, OwnerFits, Filling, NotClosing, UIThreads
<1>9. ShownFits'
  BY DEF IndInv, ShowReadsWorker, ShownFits
<1>10. CrashNeedsMain'
  BY DEF IndInv, ShowReadsWorker, CrashNeedsMain, MainIsQuiet
<1> QED
  BY <1>1, <1>2, <1>3, <1>4, <1>5, <1>6, <1>7, <1>8, <1>9, <1>10 DEF IndInv

\* From here on the dialog may lose its worker at any time.
LEMMA CloseFSKeeps ==
  ASSUME IndInv, CloseFS
  PROVE  IndInv'
<1>1. TypeOK'
  BY DEF IndInv, TypeOK, ThreadTypes, DialogTypes, WorkerTypes, CloseFS
<1>2. MessageFits' /\ ClosedIsFinished' /\ ThreadEndsFirst' /\ ListedIsThere'
  BY DEF IndInv, CloseFS, MessageFits, ClosedIsFinished, ThreadEndsFirst,
         ListedIsThere, WorkerLives
<1>3. WindowFits'
  BY DEF IndInv, CloseFS, WindowFits
<1>4. StartFits'
  BY DEF IndInv, CloseFS, StartFits, Filling, NotStarted
<1>5. ListFits'
  BY DEF IndInv, CloseFS, ListFits
<1>6. DetachFits'
  BY DEF IndInv, CloseFS, DetachFits, UIThreads
<1>7. HandleFits'
  BY DEF IndInv, CloseFS, HandleFits, WorkerLives
<1>8. OwnerFits'
  BY DEF IndInv, CloseFS, OwnerFits, Filling, NotClosing, UIThreads
<1>9. ShownFits'
  BY DEF IndInv, CloseFS, ShownFits
<1>10. CrashNeedsMain'
  BY DEF IndInv, CloseFS, CrashNeedsMain, MainIsQuiet
<1> QED
  BY <1>1, <1>2, <1>3, <1>4, <1>5, <1>6, <1>7, <1>8, <1>9, <1>10 DEF IndInv

\* The dialog leaves the list, and the main thread begins to detach its worker.
LEMMA PopDialogKeeps ==
  ASSUME IndInv, PopDialog
  PROVE  IndInv'
<1>1. TypeOK'
  <2>1. ThreadTypes'
    BY DEF IndInv, TypeOK, ThreadTypes, PopDialog, UIThreads
  <2>2. DialogTypes'
    BY DEF IndInv, TypeOK, DialogTypes, PopDialog
  <2>3. WorkerTypes'
    BY DEF IndInv, TypeOK, WorkerTypes, PopDialog
  <2> QED
    BY <2>1, <2>2, <2>3 DEF TypeOK
<1>2. MessageFits' /\ ClosedIsFinished' /\ ThreadEndsFirst'
  BY DEF IndInv, PopDialog, MessageFits, ClosedIsFinished, ThreadEndsFirst,
         WorkerLives
<1>3. WindowFits'
  BY DEF IndInv, PopDialog, WindowFits
<1>4. StartFits'
  BY DEF IndInv, PopDialog, StartFits, Filling, NotStarted
<1>5. ListFits'
  BY DEF IndInv, PopDialog, ListFits
<1>6. DetachFits'
  BY DEF IndInv, PopDialog, DetachFits, TypeOK, UIThreads, ThreadTypes,
         DialogTypes, WorkerTypes
<1>7. HandleFits'
  BY DEF IndInv, PopDialog, HandleFits, WorkerLives
<1>8. OwnerFits'
  BY DEF IndInv, PopDialog, OwnerFits, TypeOK, DetachFits, Filling, NotClosing,
         UIThreads, ThreadTypes, DialogTypes, WorkerTypes
<1>9. ShownFits'
  BY DEF IndInv, PopDialog, ShownFits
<1>10. ListedIsThere'
  BY DEF IndInv, PopDialog, ListedIsThere
<1>11. CrashNeedsMain'
  BY DEF IndInv, PopDialog, CrashNeedsMain, MainIsQuiet
<1> QED
  BY <1>1, <1>2, <1>3, <1>4, <1>5, <1>6, <1>7, <1>8, <1>9, <1>10, <1>11 DEF IndInv

\* The main thread has detached the worker and goes on with its list.
LEMMA DestroyFromMainKeeps ==
  ASSUME IndInv, DestroyFromMain
  PROVE  IndInv'
<1>1. TypeOK'
  BY DEF IndInv, TypeOK, ThreadTypes, DialogTypes, WorkerTypes, DestroyFromMain
<1>2. MessageFits' /\ ClosedIsFinished' /\ ThreadEndsFirst' /\ ListedIsThere'
  BY DEF IndInv, DestroyFromMain, MessageFits, ClosedIsFinished,
         ThreadEndsFirst, ListedIsThere, WorkerLives
<1>3. WindowFits'
  BY DEF IndInv, DestroyFromMain, WindowFits
<1>4. StartFits'
  BY DEF IndInv, DestroyFromMain, StartFits, Filling, NotStarted
<1>5. ListFits'
  BY DEF IndInv, DestroyFromMain, ListFits
<1>6. DetachFits'
  BY DEF IndInv, DestroyFromMain, DetachFits, UIThreads
<1>7. HandleFits'
  BY DEF IndInv, DestroyFromMain, HandleFits, WorkerLives
<1>8. OwnerFits'
  BY DEF IndInv, DestroyFromMain, OwnerFits, Filling, NotClosing, UIThreads
<1>9. ShownFits'
  BY DEF IndInv, DestroyFromMain, ShownFits
<1>10. CrashNeedsMain'
  BY DEF IndInv, DestroyFromMain, CrashNeedsMain, MainIsQuiet
<1> QED
  BY <1>1, <1>2, <1>3, <1>4, <1>5, <1>6, <1>7, <1>8, <1>9, <1>10 DEF IndInv

-----------------------------------------------------------------------------
(* The dialog's thread                                                     *)

\* The window is open and the thread in its loop, or neither ever is.
LEMMA CreateDialogKeeps ==
  ASSUME IndInv, CreateDialog
  PROVE  IndInv'
<1>1. TypeOK'
  BY DEF IndInv, TypeOK, ThreadTypes, DialogTypes, WorkerTypes, CreateDialog
<1>2. MessageFits' /\ StartFits' /\ ListFits' /\ HandleFits'
      /\ ThreadEndsFirst'
  BY DEF IndInv, CreateDialog, MessageFits, StartFits, ListFits, HandleFits,
         ThreadEndsFirst, Filling, NotStarted, WorkerLives
<1>3. WindowFits'
  BY DEF IndInv, CreateDialog, WindowFits
<1>4. ClosedIsFinished'
  BY DEF IndInv, CreateDialog, ClosedIsFinished
<1>5. DetachFits'
  BY DEF IndInv, CreateDialog, DetachFits, UIThreads
<1>6. OwnerFits'
  BY DEF IndInv, CreateDialog, OwnerFits, WindowFits, Filling, NotClosing,
         UIThreads
<1>7. ShownFits'
  BY DEF IndInv, CreateDialog, ShownFits, WindowFits
<1>8. ListedIsThere'
  BY DEF IndInv, CreateDialog, ListedIsThere
<1>9. CrashNeedsMain'
  BY DEF IndInv, CreateDialog, CrashNeedsMain, WindowFits, MainIsQuiet
<1> QED
  BY <1>1, <1>2, <1>3, <1>4, <1>5, <1>6, <1>7, <1>8, <1>9 DEF IndInv

\* A tick reads the pointer, for a snapshot only.
LEMMA TickKeeps ==
  ASSUME IndInv, Tick
  PROVE  IndInv'
<1>1. TypeOK'
  <2>1. ThreadTypes'
    BY DEF IndInv, TypeOK, ThreadTypes, Tick, Dispatching, Reads
  <2>2. DialogTypes'
    BY DEF IndInv, TypeOK, DialogTypes, Tick, Dispatching, Reads
  <2>3. WorkerTypes'
    BY DEF IndInv, TypeOK, WorkerTypes, Tick, Dispatching, Reads
  <2> QED
    BY <2>1, <2>2, <2>3 DEF TypeOK
<1>2. MessageFits' /\ StartFits' /\ ListFits' /\ HandleFits'
      /\ ThreadEndsFirst' /\ CrashNeedsMain'
  BY DEF IndInv, Tick, Dispatching, Reads, MessageFits, StartFits, ListFits,
         HandleFits, ThreadEndsFirst, CrashNeedsMain, Filling, NotStarted,
         WorkerLives, MainIsQuiet
<1>3. WindowFits'
  BY DEF IndInv, Tick, Dispatching, Reads, WindowFits
<1>4. ClosedIsFinished'
  BY DEF IndInv, Tick, Dispatching, Reads, ClosedIsFinished
<1>5. DetachFits'
  BY DEF IndInv, Tick, Dispatching, Reads, DetachFits, UIThreads
<1>6. OwnerFits'
  BY DEF IndInv, Tick, Dispatching, Reads, OwnerFits, Filling, NotClosing,
         UIThreads
<1>7. ShownFits'
  BY DEF IndInv, Tick, Dispatching, Reads, ShownFits
<1>8. ListedIsThere'
  BY DEF IndInv, Tick, Dispatching, Reads, ListedIsThere
<1> QED
  BY <1>1, <1>2, <1>3, <1>4, <1>5, <1>6, <1>7, <1>8 DEF IndInv

\* The worker used is alive as long as the window is open and no file system closes.
LEMMA UseWorkerKeeps ==
  ASSUME IndInv, UseWorker
  PROVE  IndInv'
<1>1. TypeOK'
  BY DEF IndInv, TypeOK, ThreadTypes, DialogTypes, WorkerTypes, UseWorker
<1>2. MessageFits' /\ StartFits' /\ ListFits' /\ HandleFits'
      /\ ThreadEndsFirst'
  BY DEF IndInv, UseWorker, MessageFits, StartFits, ListFits, HandleFits,
         ThreadEndsFirst, Filling, NotStarted, WorkerLives
<1>3. WindowFits'
  BY DEF IndInv, UseWorker, WindowFits
<1>4. ClosedIsFinished'
  BY DEF IndInv, UseWorker, ClosedIsFinished
<1>5. DetachFits'
  BY DEF IndInv, UseWorker, DetachFits, UIThreads
<1>6. OwnerFits'
  BY DEF IndInv, UseWorker, OwnerFits, Filling, NotClosing, UIThreads
<1>7. ShownFits'
  BY DEF IndInv, UseWorker, ShownFits, OwnerFits, Filling, NotClosing, UIThreads
<1>8. ListedIsThere'
  BY DEF IndInv, UseWorker, ListedIsThere
<1>9. CrashNeedsMain'
  BY DEF IndInv, UseWorker, CrashNeedsMain, WindowFits, StartFits, OwnerFits,
         MainIsQuiet, Filling, NotStarted, NotClosing, UIThreads
<1> QED
  BY <1>1, <1>2, <1>3, <1>4, <1>5, <1>6, <1>7, <1>8, <1>9 DEF IndInv

\* The pointer is tested after the box.
LEMMA CancelWorkerKeeps ==
  ASSUME IndInv, CancelWorker
  PROVE  IndInv'
<1>1. TypeOK'
  BY DEF IndInv, TypeOK, ThreadTypes, DialogTypes, WorkerTypes, CancelWorker,
         Dispatching, Reads
<1>2. MessageFits' /\ ListFits' /\ HandleFits' /\ ThreadEndsFirst'
      /\ CrashNeedsMain'
  BY DEF IndInv, CancelWorker, Dispatching, Reads, MessageFits, ListFits,
         HandleFits, ThreadEndsFirst, CrashNeedsMain, WorkerLives, MainIsQuiet
<1>3. WindowFits'
  BY DEF IndInv, CancelWorker, Dispatching, Reads, WindowFits
<1>4. ClosedIsFinished'
  BY DEF IndInv, CancelWorker, Dispatching, Reads, ClosedIsFinished
<1>5. StartFits'
  BY DEF IndInv, CancelWorker, Dispatching, Reads, StartFits, Filling,
         NotStarted
<1>6. DetachFits'
  BY DEF IndInv, CancelWorker, Dispatching, Reads, DetachFits, UIThreads
<1>7. OwnerFits'
  BY DEF IndInv, CancelWorker, Dispatching, Reads, OwnerFits, Filling,
         NotClosing, UIThreads
<1>8. ShownFits'
  BY DEF IndInv, CancelWorker, Dispatching, Reads, ShownFits
<1>9. ListedIsThere'
  BY DEF IndInv, CancelWorker, Dispatching, Reads, ListedIsThere
<1> QED
  BY <1>1, <1>2, <1>3, <1>4, <1>5, <1>6, <1>7, <1>8, <1>9 DEF IndInv

\* A message in the queue means that the worker's thread has ended; without a
\* worker the dialog has lost it to the main thread.
LEMMA FinishedKeeps ==
  ASSUME IndInv, Finished
  PROVE  IndInv'
<1>1. TypeOK'
  <2>1. ThreadTypes'
    BY DEF IndInv, TypeOK, ThreadTypes, Finished, Dispatching, Reads
  <2>2. DialogTypes'
    BY DEF IndInv, TypeOK, DialogTypes, Finished, Dispatching, Reads
  <2>3. WorkerTypes'
    BY DEF IndInv, TypeOK, WorkerTypes, Finished, Dispatching, Reads
  <2> QED
    BY <2>1, <2>2, <2>3 DEF TypeOK
<1>2. StartFits' /\ ListFits' /\ HandleFits' /\ ThreadEndsFirst'
      /\ CrashNeedsMain'
  BY DEF IndInv, Finished, Dispatching, Reads, StartFits, ListFits, HandleFits,
         ThreadEndsFirst, CrashNeedsMain, Filling, NotStarted, WorkerLives,
         MainIsQuiet
<1>3. MessageFits'
  BY DEF IndInv, Finished, Dispatching, Reads, MessageFits
<1>4. WindowFits'
  BY DEF IndInv, Finished, Dispatching, Reads, WindowFits
<1>5. ClosedIsFinished'
  BY DEF IndInv, Finished, Dispatching, Reads, ClosedIsFinished
<1>6. DetachFits'
  BY DEF IndInv, Finished, Dispatching, Reads, DetachFits, UIThreads
<1>7. OwnerFits'
  BY DEF IndInv, Finished, Dispatching, Reads, OwnerFits, Filling, NotClosing,
         UIThreads
<1>8. ShownFits'
  BY DEF IndInv, Finished, Dispatching, Reads, ShownFits, OwnerFits, Filling,
         NotClosing, UIThreads
<1>9. ListedIsThere'
  BY DEF IndInv, Finished, Dispatching, Reads, ListedIsThere
<1> QED
  BY <1>1, <1>2, <1>3, <1>4, <1>5, <1>6, <1>7, <1>8, <1>9 DEF IndInv

\* The snapshot says what the worker's thread has left behind: it has ended.
LEMMA FinishWithSnapshotKeeps ==
  ASSUME IndInv, FinishWithSnapshot
  PROVE  IndInv'
<1>1. TypeOK'
  BY DEF IndInv, TypeOK, ThreadTypes, DialogTypes, WorkerTypes,
         FinishWithSnapshot, Finish, BeginDestroy
<1>2. MessageFits' /\ ListFits' /\ HandleFits' /\ ThreadEndsFirst'
  BY DEF IndInv, FinishWithSnapshot, Finish, BeginDestroy, MessageFits,
         ListFits, HandleFits, ThreadEndsFirst, WorkerLives
<1>3. WindowFits'
  BY DEF IndInv, FinishWithSnapshot, Finish, BeginDestroy, WindowFits
<1>4. ClosedIsFinished'
  BY DEF IndInv, FinishWithSnapshot, Finish, BeginDestroy, ClosedIsFinished
<1>5. StartFits'
  BY DEF IndInv, FinishWithSnapshot, Finish, BeginDestroy, StartFits, Filling,
         NotStarted
<1>6. DetachFits'
  BY DEF IndInv, FinishWithSnapshot, Finish, BeginDestroy, DetachFits, TypeOK,
         UIThreads, ThreadTypes, DialogTypes, WorkerTypes
<1>7. OwnerFits'
  BY DEF IndInv, FinishWithSnapshot, Finish, BeginDestroy, OwnerFits, TypeOK,
         DetachFits, Filling, NotClosing, UIThreads, ThreadTypes, DialogTypes,
         WorkerTypes
<1>8. ShownFits'
  BY DEF IndInv, FinishWithSnapshot, Finish, BeginDestroy, ShownFits
<1>9. ListedIsThere'
  BY DEF IndInv, FinishWithSnapshot, Finish, BeginDestroy, ListedIsThere
<1>10. CrashNeedsMain'
  BY DEF IndInv, FinishWithSnapshot, Finish, BeginDestroy, CrashNeedsMain,
         WindowFits, StartFits, OwnerFits, MainIsQuiet, Filling, NotStarted,
         NotClosing, UIThreads
<1> QED
  BY <1>1, <1>2, <1>3, <1>4, <1>5, <1>6, <1>7, <1>8, <1>9, <1>10 DEF IndInv

\* The file system is being closed: what the snapshot says matters to no part.
LEMMA FinishWithoutKeeps ==
  ASSUME IndInv, FinishWithout
  PROVE  IndInv'
<1>1. TypeOK'
  <2>1. ThreadTypes'
    BY DEF IndInv, TypeOK, ThreadTypes, FinishWithout, Finish, BeginDestroy
  <2>2. DialogTypes'
    BY DEF IndInv, TypeOK, DialogTypes, FinishWithout, Finish, BeginDestroy
  <2>3. WorkerTypes'
    BY DEF IndInv, TypeOK, WorkerTypes, FinishWithout, Finish, BeginDestroy
  <2> QED
    BY <2>1, <2>2, <2>3 DEF TypeOK
<1>2. MessageFits' /\ ListFits' /\ HandleFits' /\ ThreadEndsFirst'
      /\ CrashNeedsMain'
  BY DEF IndInv, FinishWithout, Finish, BeginDestroy, MessageFits, ListFits,
         HandleFits, ThreadEndsFirst, CrashNeedsMain, WorkerLives, MainIsQuiet
<1>3. WindowFits'
  BY DEF IndInv, FinishWithout, Finish, BeginDestroy, WindowFits
<1>4. ClosedIsFinished'
  BY DEF IndInv, FinishWithout, Finish, BeginDestroy, ClosedIsFinished
<1>5. StartFits'
  BY DEF IndInv, FinishWithout, Finish, BeginDestroy, StartFits, Filling,
         NotStarted
<1>6. DetachFits'
  BY DEF IndInv, FinishWithout, Finish, BeginDestroy, DetachFits, TypeOK,
         UIThreads, ThreadTypes, DialogTypes, WorkerTypes
<1>7. OwnerFits'
  BY DEF IndInv, FinishWithout, Finish, BeginDestroy, OwnerFits, TypeOK,
         DetachFits, Filling, NotClosing, UIThreads, ThreadTypes, DialogTypes,
         WorkerTypes
<1>8. ShownFits'
  BY DEF IndInv, FinishWithout, Finish, BeginDestroy, ShownFits
<1>9. ListedIsThere'
  BY DEF IndInv, FinishWithout, Finish, BeginDestroy, ListedIsThere
<1> QED
  BY <1>1, <1>2, <1>3, <1>4, <1>5, <1>6, <1>7, <1>8, <1>9 DEF IndInv

\* A dialog that is listed knows its file system and does not go without it.
LEMMA ReadFSKeeps ==
  ASSUME IndInv, ReadFS
  PROVE  IndInv'
<1>1. TypeOK'
  BY DEF IndInv, TypeOK, ThreadTypes, DialogTypes, WorkerTypes, ReadFS
<1>2. MessageFits' /\ StartFits' /\ ListFits' /\ HandleFits'
      /\ ThreadEndsFirst' /\ CrashNeedsMain'
  BY DEF IndInv, ReadFS, MessageFits, StartFits, ListFits, HandleFits,
         ThreadEndsFirst, CrashNeedsMain, Filling, NotStarted, WorkerLives,
         MainIsQuiet
<1>3. WindowFits'
  BY DEF IndInv, ReadFS, WindowFits
<1>4. ClosedIsFinished'
  BY DEF IndInv, ReadFS, ClosedIsFinished
<1>5. DetachFits'
  BY DEF IndInv, ReadFS, DetachFits, UIThreads
<1>6. OwnerFits'
  BY DEF IndInv, ReadFS, OwnerFits, Filling, NotClosing, UIThreads
<1>7. ShownFits'
  BY DEF IndInv, ReadFS, ShownFits
<1>8. ListedIsThere'
  BY DEF IndInv, ReadFS, ListedIsThere, ListFits
<1> QED
  BY <1>1, <1>2, <1>3, <1>4, <1>5, <1>6, <1>7, <1>8 DEF IndInv

\* The dialog leaves the list before its thread ends.
LEMMA UnregisterTransferDlgKeeps ==
  ASSUME IndInv, UnregisterTransferDlg
  PROVE  IndInv'
<1>1. TypeOK'
  BY DEF IndInv, TypeOK, ThreadTypes, DialogTypes, WorkerTypes,
         UnregisterTransferDlg
<1>2. MessageFits' /\ HandleFits' /\ ThreadEndsFirst'
  BY DEF IndInv, UnregisterTransferDlg, MessageFits, HandleFits,
         ThreadEndsFirst, WorkerLives
<1>3. WindowFits'
  BY DEF IndInv, UnregisterTransferDlg, WindowFits
<1>4. ClosedIsFinished'
  BY DEF IndInv, UnregisterTransferDlg, ClosedIsFinished
<1>5. StartFits'
  BY DEF IndInv, UnregisterTransferDlg, StartFits, Filling, NotStarted
<1>6. ListFits'
  BY DEF IndInv, UnregisterTransferDlg, ListFits, MessageFits, WindowFits,
         ClosedIsFinished, StartFits, Filling, NotStarted
<1>7. DetachFits'
  BY DEF IndInv, UnregisterTransferDlg, DetachFits, UIThreads
<1>8. OwnerFits'
  BY DEF IndInv, UnregisterTransferDlg, OwnerFits, Filling, NotClosing,
         UIThreads
<1>9. ShownFits'
  BY DEF IndInv, UnregisterTransferDlg, ShownFits
<1>10. ListedIsThere'
  BY DEF IndInv, UnregisterTransferDlg, ListedIsThere
<1>11. CrashNeedsMain'
  BY DEF IndInv, UnregisterTransferDlg, CrashNeedsMain, MainIsQuiet
<1> QED
  BY <1>1, <1>2, <1>3, <1>4, <1>5, <1>6, <1>7, <1>8, <1>9, <1>10, <1>11 DEF IndInv

-----------------------------------------------------------------------------
(* What the user does                                                      *)

\* Pausing reads the pointer.
LEMMA ClickPauseKeeps ==
  ASSUME IndInv, ClickPause
  PROVE  IndInv'
<1>1. TypeOK'
  BY DEF IndInv, TypeOK, ThreadTypes, DialogTypes, WorkerTypes, ClickPause,
         Clickable, Dispatching, Reads
<1>2. MessageFits' /\ StartFits' /\ ListFits' /\ HandleFits'
      /\ ThreadEndsFirst' /\ CrashNeedsMain'
  BY DEF IndInv, ClickPause, Clickable, Dispatching, Reads, MessageFits,
         StartFits, ListFits, HandleFits, ThreadEndsFirst, CrashNeedsMain,
         Filling, NotStarted, WorkerLives, MainIsQuiet
<1>3. WindowFits'
  BY DEF IndInv, ClickPause, Clickable, Dispatching, Reads, WindowFits
<1>4. ClosedIsFinished'
  BY DEF IndInv, ClickPause, Clickable, Dispatching, Reads, ClosedIsFinished
<1>5. DetachFits'
  BY DEF IndInv, ClickPause, Clickable, Dispatching, Reads, DetachFits,
         UIThreads
<1>6. OwnerFits'
  BY DEF IndInv, ClickPause, Clickable, Dispatching, Reads, OwnerFits, Filling,
         NotClosing, UIThreads
<1>7. ShownFits'
  BY DEF IndInv, ClickPause, Clickable, Dispatching, Reads, ShownFits
<1>8. ListedIsThere'
  BY DEF IndInv, ClickPause, Clickable, Dispatching, Reads, ListedIsThere
<1> QED
  BY <1>1, <1>2, <1>3, <1>4, <1>5, <1>6, <1>7, <1>8 DEF IndInv

\* Only a transfer that is not finished can be sent to the background.
LEMMA ClickBackgroundKeeps ==
  ASSUME IndInv, ClickBackground
  PROVE  IndInv'
<1>1. TypeOK'
  BY DEF IndInv, TypeOK, ThreadTypes, DialogTypes, WorkerTypes, ClickBackground,
         Clickable, Dispatching
<1>2. MessageFits' /\ WindowFits' /\ ClosedIsFinished' /\ StartFits'
      /\ ListFits' /\ DetachFits' /\ HandleFits' /\ OwnerFits'
      /\ ThreadEndsFirst' /\ ListedIsThere' /\ CrashNeedsMain'
  BY DEF IndInv, ClickBackground, Clickable, Dispatching, MessageFits,
         WindowFits, ClosedIsFinished, StartFits, ListFits, DetachFits,
         HandleFits, OwnerFits, ThreadEndsFirst, ListedIsThere, CrashNeedsMain,
         Filling, NotStarted, UIThreads, WorkerLives, NotClosing, MainIsQuiet
<1>3. ShownFits'
  BY DEF IndInv, ClickBackground, Clickable, Dispatching, ShownFits
<1> QED
  BY <1>1, <1>2, <1>3 DEF IndInv

\* The check box is part of no condition.
LEMMA ToggleCloseOnFinishKeeps ==
  ASSUME IndInv, ToggleCloseOnFinish
  PROVE  IndInv'
<1>1. TypeOK'
  BY DEF IndInv, TypeOK, ThreadTypes, DialogTypes, WorkerTypes,
         ToggleCloseOnFinish, Clickable, Dispatching
<1>2. MessageFits' /\ WindowFits' /\ ClosedIsFinished' /\ StartFits'
      /\ ListFits' /\ DetachFits' /\ HandleFits' /\ OwnerFits' /\ ShownFits'
      /\ ThreadEndsFirst' /\ ListedIsThere' /\ CrashNeedsMain'
  BY DEF IndInv, ToggleCloseOnFinish, Clickable, Dispatching, MessageFits,
         WindowFits, ClosedIsFinished, StartFits, ListFits, DetachFits,
         HandleFits, OwnerFits, ShownFits, ThreadEndsFirst, ListedIsThere,
         CrashNeedsMain, Filling, NotStarted, UIThreads, WorkerLives,
         NotClosing, MainIsQuiet
<1> QED
  BY <1>1, <1>2 DEF IndInv

\* Only a finished dialog is closed.
LEMMA ClickCancelKeeps ==
  ASSUME IndInv, ClickCancel
  PROVE  IndInv'
<1>1. TypeOK'
  <2>1. ThreadTypes'
    BY DEF IndInv, TypeOK, ThreadTypes, ClickCancel, Clickable, Dispatching,
           BeginDestroy
  <2>2. DialogTypes'
    BY DEF IndInv, TypeOK, DialogTypes, ClickCancel, Clickable, Dispatching,
           BeginDestroy
  <2>3. WorkerTypes'
    BY DEF IndInv, TypeOK, WorkerTypes, ClickCancel, Clickable, Dispatching,
           BeginDestroy
  <2> QED
    BY <2>1, <2>2, <2>3 DEF TypeOK
<1>2. MessageFits' /\ ListFits' /\ HandleFits' /\ ThreadEndsFirst'
      /\ CrashNeedsMain'
  BY DEF IndInv, ClickCancel, Clickable, Dispatching, BeginDestroy, MessageFits,
         ListFits, HandleFits, ThreadEndsFirst, CrashNeedsMain, WorkerLives,
         MainIsQuiet
<1>3. WindowFits'
  BY DEF IndInv, ClickCancel, Clickable, Dispatching, BeginDestroy, WindowFits
<1>4. ClosedIsFinished'
  BY DEF IndInv, ClickCancel, Clickable, Dispatching, BeginDestroy,
         ClosedIsFinished
<1>5. StartFits'
  BY DEF IndInv, ClickCancel, Clickable, Dispatching, BeginDestroy, StartFits,
         Filling, NotStarted
<1>6. DetachFits'
  BY DEF IndInv, ClickCancel, Clickable, Dispatching, BeginDestroy, DetachFits,
         TypeOK, UIThreads, ThreadTypes, DialogTypes, WorkerTypes
<1>7. OwnerFits'
  BY DEF IndInv, ClickCancel, Clickable, Dispatching, BeginDestroy, OwnerFits,
         TypeOK, DetachFits, Filling, NotClosing, UIThreads, ThreadTypes,
         DialogTypes, WorkerTypes
<1>8. ShownFits'
  BY DEF IndInv, ClickCancel, Clickable, Dispatching, BeginDestroy, ShownFits
<1>9. ListedIsThere'
  BY DEF IndInv, ClickCancel, Clickable, Dispatching, BeginDestroy,
         ListedIsThere
<1> QED
  BY <1>1, <1>2, <1>3, <1>4, <1>5, <1>6, <1>7, <1>8, <1>9 DEF IndInv

\* The button is disabled.
LEMMA AnswerCancelKeeps ==
  ASSUME IndInv, AnswerCancel
  PROVE  IndInv'
<1>1. TypeOK'
  <2>1. ThreadTypes'
    BY DEF IndInv, TypeOK, ThreadTypes, AnswerCancel, Dispatching
  <2>2. DialogTypes'
    BY DEF IndInv, TypeOK, DialogTypes, AnswerCancel, Dispatching
  <2>3. WorkerTypes'
    BY DEF IndInv, TypeOK, WorkerTypes, AnswerCancel, Dispatching
  <2> QED
    BY <2>1, <2>2, <2>3 DEF TypeOK
<1>2. MessageFits' /\ WindowFits' /\ ClosedIsFinished' /\ ListFits'
      /\ DetachFits' /\ HandleFits' /\ OwnerFits' /\ ShownFits'
      /\ ThreadEndsFirst' /\ ListedIsThere' /\ CrashNeedsMain'
  BY DEF IndInv, AnswerCancel, Dispatching, MessageFits, WindowFits,
         ClosedIsFinished, ListFits, DetachFits, HandleFits, OwnerFits,
         ShownFits, ThreadEndsFirst, ListedIsThere, CrashNeedsMain, UIThreads,
         WorkerLives, Filling, NotClosing, MainIsQuiet
<1>3. StartFits'
  BY DEF IndInv, AnswerCancel, Dispatching, StartFits, Filling, NotStarted
<1> QED
  BY <1>1, <1>2, <1>3 DEF IndInv

\* The box is only opened when there is a worker.
LEMMA ClickStopKeeps ==
  ASSUME IndInv, ClickStop
  PROVE  IndInv'
<1>1. TypeOK'
  BY DEF IndInv, TypeOK, ThreadTypes, DialogTypes, WorkerTypes, ClickStop,
         Clickable, Dispatching
<1>2. MessageFits' /\ WindowFits' /\ ClosedIsFinished' /\ ListFits'
      /\ DetachFits' /\ HandleFits' /\ OwnerFits' /\ ShownFits'
      /\ ThreadEndsFirst' /\ ListedIsThere' /\ CrashNeedsMain'
  BY DEF IndInv, ClickStop, Clickable, Dispatching, MessageFits, WindowFits,
         ClosedIsFinished, ListFits, DetachFits, HandleFits, OwnerFits,
         ShownFits, ThreadEndsFirst, ListedIsThere, CrashNeedsMain, UIThreads,
         WorkerLives, Filling, NotClosing, MainIsQuiet
<1>3. StartFits'
  BY DEF IndInv, ClickStop, Clickable, Dispatching, StartFits, Filling,
         NotStarted
<1> QED
  BY <1>1, <1>2, <1>3 DEF IndInv

\* The pointer read again is still set unless the main thread closes the file
\* system meanwhile.
LEMMA AnswerStopKeeps ==
  ASSUME IndInv, AnswerStop
  PROVE  IndInv'
<1>1. TypeOK'
  BY DEF IndInv, TypeOK, ThreadTypes, DialogTypes, WorkerTypes, AnswerStop,
         Dispatching, Reads
<1>2. MessageFits' /\ ListFits' /\ HandleFits' /\ ThreadEndsFirst'
  BY DEF IndInv, AnswerStop, Dispatching, Reads, MessageFits, ListFits,
         HandleFits, ThreadEndsFirst, WorkerLives
<1>3. WindowFits'
  BY DEF IndInv, AnswerStop, Dispatching, Reads, WindowFits
<1>4. ClosedIsFinished'
  BY DEF IndInv, AnswerStop, Dispatching, Reads, ClosedIsFinished
<1>5. StartFits'
  BY DEF IndInv, AnswerStop, Dispatching, Reads, StartFits, Filling, NotStarted
<1>6. DetachFits'
  BY DEF IndInv, AnswerStop, Dispatching, Reads, DetachFits, UIThreads
<1>7. OwnerFits'
  BY DEF IndInv, AnswerStop, Dispatching, Reads, OwnerFits, Filling, NotClosing,
         UIThreads
<1>8. ShownFits'
  BY DEF IndInv, AnswerStop, Dispatching, Reads, ShownFits
<1>9. ListedIsThere'
  BY DEF IndInv, AnswerStop, Dispatching, Reads, ListedIsThere
<1>10. CrashNeedsMain'
  BY DEF IndInv, AnswerStop, Dispatching, Reads, CrashNeedsMain, StartFits,
         OwnerFits, MainIsQuiet, Filling, NotStarted, NotClosing, UIThreads
<1> QED
  BY <1>1, <1>2, <1>3, <1>4, <1>5, <1>6, <1>7, <1>8, <1>9, <1>10 DEF IndInv

\* The box is closed, and that is all.
LEMMA AnswerNoKeeps ==
  ASSUME IndInv, AnswerNo
  PROVE  IndInv'
<1>1. TypeOK'
  BY DEF IndInv, TypeOK, ThreadTypes, DialogTypes, WorkerTypes, AnswerNo,
         Dispatching
<1>2. MessageFits' /\ WindowFits' /\ ClosedIsFinished' /\ ListFits'
      /\ DetachFits' /\ HandleFits' /\ OwnerFits' /\ ShownFits'
      /\ ThreadEndsFirst' /\ ListedIsThere' /\ CrashNeedsMain'
  BY DEF IndInv, AnswerNo, Dispatching, MessageFits, WindowFits,
         ClosedIsFinished, ListFits, DetachFits, HandleFits, OwnerFits,
         ShownFits, ThreadEndsFirst, ListedIsThere, CrashNeedsMain, UIThreads,
         WorkerLives, Filling, NotClosing, MainIsQuiet
<1>3. StartFits'
  BY DEF IndInv, AnswerNo, Dispatching, StartFits, Filling, NotStarted
<1> QED
  BY <1>1, <1>2, <1>3 DEF IndInv

-----------------------------------------------------------------------------
(* The worker's thread                                                     *)

\* The object is there as long as its thread is.
LEMMA TransferEndsKeeps ==
  ASSUME IndInv, TransferEnds
  PROVE  IndInv'
<1>1. TypeOK'
  BY DEF IndInv, TypeOK, ThreadTypes, DialogTypes, WorkerTypes, TransferEnds
<1>2. WindowFits' /\ ClosedIsFinished' /\ ListFits' /\ DetachFits'
      /\ OwnerFits' /\ ListedIsThere'
  BY DEF IndInv, TransferEnds, WindowFits, ClosedIsFinished, ListFits,
         DetachFits, OwnerFits, ListedIsThere, UIThreads, Filling, NotClosing
<1>3. MessageFits'
  BY DEF IndInv, TransferEnds, MessageFits
<1>4. StartFits'
  BY DEF IndInv, TransferEnds, StartFits, Filling, NotStarted
<1>5. HandleFits'
  BY DEF IndInv, TransferEnds, HandleFits, WorkerLives
<1>6. ShownFits'
  BY DEF IndInv, TransferEnds, ShownFits, MessageFits
<1>7. ThreadEndsFirst'
  BY DEF IndInv, TransferEnds, ThreadEndsFirst, WorkerLives
<1>8. CrashNeedsMain'
  BY DEF IndInv, TransferEnds, CrashNeedsMain, ThreadEndsFirst, MainIsQuiet,
         WorkerLives
<1> QED
  BY <1>1, <1>2, <1>3, <1>4, <1>5, <1>6, <1>7, <1>8 DEF IndInv

\* The message is the first one, and the thread ends with it.
LEMMA PostFinishedKeeps ==
  ASSUME IndInv, PostFinished
  PROVE  IndInv'
<1>1. TypeOK'
  <2>1. ThreadTypes'
    BY DEF IndInv, TypeOK, ThreadTypes, PostFinished
  <2>2. DialogTypes'
    BY DEF IndInv, TypeOK, DialogTypes, PostFinished
  <2>3. WorkerTypes'
    BY DEF IndInv, TypeOK, WorkerTypes, PostFinished, MessageFits
  <2> QED
    BY <2>1, <2>2, <2>3 DEF TypeOK
<1>2. WindowFits' /\ ClosedIsFinished' /\ ListFits' /\ DetachFits'
      /\ OwnerFits' /\ ShownFits' /\ ListedIsThere'
  BY DEF IndInv, PostFinished, WindowFits, ClosedIsFinished, ListFits,
         DetachFits, OwnerFits, ShownFits, ListedIsThere, UIThreads, Filling,
         NotClosing
<1>3. MessageFits'
  BY DEF IndInv, PostFinished, MessageFits
<1>4. StartFits'
  BY DEF IndInv, PostFinished, StartFits, Filling, NotStarted
<1>5. HandleFits'
  BY DEF IndInv, PostFinished, HandleFits, WorkerLives
<1>6. ThreadEndsFirst'
  BY DEF IndInv, PostFinished, ThreadEndsFirst, WorkerLives
<1>7. CrashNeedsMain'
  BY DEF IndInv, PostFinished, CrashNeedsMain, ThreadEndsFirst, MainIsQuiet,
         WorkerLives
<1> QED
  BY <1>1, <1>2, <1>3, <1>4, <1>5, <1>6, <1>7 DEF IndInv

-----------------------------------------------------------------------------
(* The theorems                                                            *)

\* The invariant holds when the main thread has not begun a transfer.
LEMMA InitIsIndInv ==
  ASSUME Init
  PROVE  IndInv
<1>1. TypeOK
  <2>1. ThreadTypes
    BY DEF Init, ThreadTypes
  <2>2. DialogTypes
    BY DEF Init, DialogTypes
  <2>3. finishedMsgs \in 0 .. 1
    BY DEF Init
  <2>4. WorkerTypes
    BY <2>3 DEF Init, WorkerTypes
  <2> QED
    BY <2>1, <2>2, <2>4 DEF TypeOK
<1>2. /\ MessageFits /\ WindowFits /\ ClosedIsFinished /\ ShownFits
      /\ StartFits /\ ListFits /\ ListedIsThere
  BY DEF Init, MessageFits, WindowFits, ClosedIsFinished, ShownFits, StartFits,
         ListFits, ListedIsThere
<1>3. DetachFits /\ HandleFits /\ OwnerFits /\ ThreadEndsFirst /\ CrashNeedsMain
  BY DEF Init, DetachFits, HandleFits, OwnerFits, ThreadEndsFirst,
         CrashNeedsMain, WorkerLives, Filling, NotClosing, UIThreads
<1> QED
  BY <1>1, <1>2, <1>3 DEF IndInv

\* No part of the invariant is about the next state when nothing happens.
LEMMA StutterKeeps ==
  ASSUME IndInv, UNCHANGED vars
  PROVE  IndInv'
<1>1. TypeOK'
  BY DEF IndInv, vars, TypeOK, ThreadTypes, DialogTypes, WorkerTypes
<1>2. /\ MessageFits' /\ WindowFits' /\ ClosedIsFinished' /\ ShownFits'
      /\ StartFits' /\ ListFits' /\ ListedIsThere'
  BY DEF IndInv, vars, MessageFits, WindowFits, ClosedIsFinished, ShownFits,
         StartFits, ListFits, ListedIsThere
<1>3. /\ DetachFits' /\ HandleFits' /\ OwnerFits'
      /\ ThreadEndsFirst' /\ CrashNeedsMain'
  BY DEF IndInv, vars, DetachFits, HandleFits, OwnerFits, ThreadEndsFirst,
         CrashNeedsMain, WorkerLives, MainIsQuiet
<1> QED
  BY <1>1, <1>2, <1>3 DEF IndInv

\* Each step of DetachWorker, taken by the main thread or by the dialog's.
LEMMA DetachWorkerKeeps ==
  ASSUME NEW t \in UIThreads, IndInv, DetachWorker(t)
  PROVE  IndInv'
BY DetachClearsKeeps, DetachStopsKeeps, DetachJoinsKeeps, DetachFreesKeeps
   DEF DetachWorker

\* The three threads and the user keep to the protocol, in whatever order they
\* take their steps.
THEOREM Invariance == Spec => []IndInv
<1>1. IndInv /\ [Next]_vars => IndInv'
  <2> SUFFICES ASSUME IndInv, [Next]_vars
               PROVE  IndInv'
    OBVIOUS
  <2> "main" \in UIThreads /\ "dlg" \in UIThreads
    BY DEF UIThreads
  <2>1. CASE MainThread
    BY <2>1, StartDialogThreadKeeps, DialogShownKeeps, DialogGivenUpKeeps,
       AttachWorkerKeeps, RegisterTransferDlgKeeps, StartWorkerKeeps,
       StartWorkerReturnsKeeps, ShowTransferDialogKeeps, ShowReadsWorkerKeeps,
       CloseFSKeeps, PopDialogKeeps, DetachWorkerKeeps, DestroyFromMainKeeps
       DEF MainThread
  <2>2. CASE DialogThread
    BY <2>2, CreateDialogKeeps, TickKeeps, UseWorkerKeeps, CancelWorkerKeeps,
       FinishedKeeps, FinishWithSnapshotKeeps, FinishWithoutKeeps,
       DetachWorkerKeeps, ReadFSKeeps, UnregisterTransferDlgKeeps
       DEF DialogThread
  <2>3. CASE User
    BY <2>3, ClickPauseKeeps, ClickBackgroundKeeps, ToggleCloseOnFinishKeeps,
       ClickCancelKeeps, AnswerCancelKeeps, ClickStopKeeps, AnswerStopKeeps,
       AnswerNoKeeps
       DEF User
  <2>4. CASE WorkerThread
    BY <2>4, TransferEndsKeeps, PostFinishedKeeps DEF WorkerThread
  <2>5. CASE UNCHANGED vars
    BY <2>5, StutterKeeps
  <2> QED
    BY <2>1, <2>2, <2>3, <2>4, <2>5 DEF Next
<1> QED
  BY InitIsIndInv, <1>1, PTL DEF Spec

\* Every variable has its type; in particular there is never more than one
\* FINISHED message in the queue of the dialog.
THEOREM TypeCorrect == Spec => []TypeOK
<1>1. IndInv => TypeOK
  BY DEF IndInv
<1> QED
  BY Invariance, <1>1, PTL

\* As long as the main thread neither starts nor shows nor closes anything, the
\* dialog's thread and the worker's thread only use objects that are there: the
\* pointer read before a step is still good after it.
THEOREM UseNeedsNoLock == Spec => []CrashNeedsMain
<1>1. IndInv => CrashNeedsMain
  BY DEF IndInv
<1> QED
  BY Invariance, <1>1, PTL

\* delete of the worker comes after the end of its thread, whether WM_DESTROY or
\* the destructor of the file system comes to it.
THEOREM WorkerOutlivesThread == Spec => []ThreadEndsFirst
<1>1. IndInv => ThreadEndsFirst
  BY DEF IndInv
<1> QED
  BY Invariance, <1>1, PTL

\* What ShowTransferDialog and the destructor find in ActiveTransferDlgs has a
\* thread that has made its window and has not ended.
THEOREM ListIsUpToDate == Spec => []ListedIsThere
<1>1. IndInv => ListedIsThere
  BY DEF IndInv
<1> QED
  BY Invariance, <1>1, PTL

\* Of the two threads that may free the worker one does: a dialog that is gone
\* has left none, and neither has a file system that was closed.
THEOREM NoWorkerIsLeft == Spec => []WorkerIsFreed
<1>1. IndInv => WorkerIsFreed
  <2> SUFFICES ASSUME IndInv, dlgPc = "quit", mainPc \in {"idle", "gone"}
               PROVE  workerObj = "deleted"
    BY DEF WorkerIsFreed
  <2>1. window = "closed" /\ mainPc \notin Filling
    BY DEF IndInv, TypeOK, ThreadTypes, WindowFits, Filling
  <2>2. \A t \in UIThreads : detach[t] = "no"
    BY DEF IndInv, DetachFits, UIThreads
  <2>3. ~dlgWorker
    BY <2>1, <2>2 DEF IndInv, OwnerFits, UIThreads
  <2> QED
    BY <2>1, <2>2, <2>3 DEF IndInv, TypeOK, WorkerTypes, OwnerFits
<1> QED
  BY Invariance, <1>1, PTL

\* When the dialog has handled the end of a transfer that failed, it is visible,
\* also when the main thread was about to show it or had just begun the transfer.
THEOREM FailureIsSeen == Spec => []ErrorIsShown
<1>1. IndInv => ErrorIsShown
  BY DEF IndInv, ErrorIsShown, Dispatching, ShownFits
<1> QED
  BY Invariance, <1>1, PTL

=============================================================================
