---------------------------- MODULE FileTransfer ----------------------------
(***************************************************************************)
(* What the worker thread does to the data of one file after another:      *)
(* DoDownloadRecursive and DoUploadRecursive on a file, the conflict       *)
(* question of AskOverwriteWorker and CSftpConflictDlg, CSftpConnection's  *)
(* Download, Upload, ScpDownload and ScpUpload with their progress         *)
(* reports, and the removal of the source at the end of ExecuteTask.       *)
(*                                                                         *)
(* A file is a sequence of blocks, a block being what one turn of a copy   *)
(* loop moves.  The source of length n is <<1, ..., n>>; a target that was *)
(* there before holds Foreign blocks or what an earlier, interrupted       *)
(* transfer of the same file left.                                         *)
(***************************************************************************)
EXTENDS Naturals, Sequences

CONSTANT MaxBlocks  \* bound on the length of a file

ASSUME FileAssumption == MaxBlocks \in Nat \ {0}

\* A block that is not of the source, and a gap left by a seek past the end.
Foreign == 0
Hole == MaxBlocks + 1
Block == 0 .. MaxBlocks + 1

\* The target name of the task, and another one typed into the dialog.
Names == {"tgt", "alt"}

Actions == {"retry", "resume", "resumeOrOverwrite", "overwrite",
            "overwriteAll", "skip", "cancel"}

VARIABLES
  upload, scp,      \* direction of the task; ScpMode of WorkerConn
  move,             \* DeleteSourceOnSuccess
  srcLen,           \* blocks of the source
  srcPresent,       \* is the source still there?
  present, disk,    \* which targets exist, and the blocks of each
  \* The worker object.
  cancelled,        \* State.Cancelled
  dlgHwnd,          \* is DlgHwnd non-NULL?
  overwriteAll,     \* OverwriteAllDecision; "ask" for -1
  currentFileDone,  \* State.CurrentFileDone
  credited,         \* what this file has added to State.TotalBytesDone
  \* The thread.
  pc, existingSize, newSize, name, resumeOffset, done, ok,
  \* History: the targets when the file was begun, whether the target was
  \* opened, how the conflict was settled, and three mishaps nobody reported.
  wasPresent, was, opened,
  answer,           \* an action, "default" for the fallback, or "none"
  statFailed,       \* an existing target was taken for an absent one
  lost,             \* the source ended early and nobody noticed
  unwritten         \* the end of the target was not written and nobody noticed

taskVars == <<upload, scp, move, srcLen>>
ownerVars == <<cancelled, dlgHwnd, overwriteAll>>
diskVars == <<srcPresent, present, disk>>
progressVars == <<currentFileDone, credited>>
askVars == <<existingSize, newSize, name>>
pastVars == <<wasPresent, was>>
noteVars == <<opened, answer, statFailed, lost, unwritten>>

vars == <<taskVars, ownerVars, diskVars, progressVars, askVars, pc,
          resumeOffset, done, ok, pastVars, noteVars>>

Source == [i \in 1 .. srcLen |-> i]

ForeignFile(n) == [i \in 1 .. n |-> Foreign]

IsPrefixOf(s, t) == Len(s) <= Len(t) /\ \A i \in 1 .. Len(s) : s[i] = t[i]

\* Block b written at offset p: a seek past the end leaves a hole.
WriteAt(c, p, b) ==
  [i \in 1 .. (IF Len(c) > p THEN Len(c) ELSE p + 1) |->
     IF i = p + 1 THEN b ELSE IF i <= Len(c) THEN c[i] ELSE Hole]

Busy == {"begin", "ask", "dialog", "check", "open", "create", "copy", "close",
         "return"}

-----------------------------------------------------------------------------
(* The other threads                                                       *)

\* The user cancels.
Cancel ==
  /\ ~cancelled
  /\ cancelled' = TRUE
  /\ UNCHANGED <<taskVars, dlgHwnd, overwriteAll, diskVars, progressVars,
                 askVars, pc, resumeOffset, done, ok, pastVars, noteVars>>

\* Stop clears DlgHwnd before it sets Cancelled.
StopDetaches ==
  /\ dlgHwnd
  /\ dlgHwnd' = FALSE
  /\ UNCHANGED <<taskVars, cancelled, overwriteAll, diskVars, progressVars,
                 askVars, pc, resumeOffset, done, ok, pastVars, noteVars>>

\* The target when only its first k blocks have reached the disk: past them is
\* nothing, or in a file opened for a resume what was there before.
OnlyFirst(k) ==
  IF resumeOffset > 0 /\ Len(was[name]) > k
  THEN [i \in 1 .. Len(was[name]) |-> IF i <= k THEN disk[name][i] ELSE was[name][i]]
  ELSE [i \in 1 .. k |-> disk[name][i]]

\* TerminateThread, wherever the thread is: the files stay as they are, but
\* what stdio holds of the last block of a download never gets there.
StopTerminates ==
  /\ pc \in Busy
  /\ pc' = "over"
  /\ ok' = FALSE
  /\ \/ UNCHANGED disk
     \/ /\ pc \in {"copy", "close"} /\ ~upload /\ resumeOffset < done
        /\ disk' = [disk EXCEPT ![name] = OnlyFirst(done - 1)]
  /\ UNCHANGED <<taskVars, ownerVars, srcPresent, present, progressVars,
                 askVars, resumeOffset, done, pastVars, noteVars>>

\* The history of a file that is about to be transferred.
Recording ==
  /\ wasPresent' = present' /\ was' = disk'
  /\ opened' = FALSE /\ answer' = "none"
  /\ statFailed' = FALSE /\ lost' = FALSE /\ unwritten' = FALSE
  /\ credited' = 0

\* The locals of a new call.
Locals ==
  /\ existingSize' = 0 /\ newSize' = 0 /\ name' = "tgt"
  /\ resumeOffset' = 0 /\ done' = 0 /\ ok' = FALSE

\* Start of a new worker.
NewWorker ==
  /\ cancelled' = FALSE /\ dlgHwnd' = TRUE /\ overwriteAll' = "ask"
  /\ currentFileDone' = 0

\* The last file is out of sight: the operation goes on to its next task, or a
\* new operation is begun.
TakeTask ==
  /\ \/ pc = "idle" /\ UNCHANGED <<ownerVars, currentFileDone>>
     \/ pc = "over" /\ NewWorker
  /\ pc' = "taken"
  /\ upload' = FALSE /\ move' = FALSE /\ srcLen' = 0
  /\ srcPresent' = FALSE /\ present' = {} /\ disk' = [n \in Names |-> <<>>]
  /\ Recording /\ Locals
  /\ UNCHANGED scp

\* The file of that task, with whatever there is at the target.
NextFile ==
  /\ pc = "taken"
  /\ pc' = "begin"
  /\ upload' \in BOOLEAN /\ move' \in BOOLEAN
  /\ srcLen' \in 0 .. MaxBlocks
  /\ srcPresent' = TRUE
  /\ present' \in SUBSET Names
  /\ disk' \in [Names -> {ForeignFile(n) : n \in 0 .. MaxBlocks}]
  /\ \A n \in Names \ present' : disk'[n] = <<>>
  /\ Recording
  /\ UNCHANGED <<scp, ownerVars, currentFileDone, askVars, resumeOffset, done, ok>>

\* The same file again in a new operation.
SameFileAgain ==
  /\ pc \in {"idle", "over"}
  /\ srcPresent
  /\ NewWorker
  /\ pc' = "begin"
  /\ UNCHANGED <<taskVars, diskVars>>
  /\ Recording /\ Locals

-----------------------------------------------------------------------------
(* The worker thread                                                       *)

\* The transfer of the file returns.
Return(from, result) ==
  /\ pc = from
  /\ pc' = "return"
  /\ ok' = result
  /\ UNCHANGED <<taskVars, ownerVars, diskVars, progressVars, askVars,
                 resumeOffset, done, pastVars, noteVars>>

\* Mutant of Begin: CurrentFileDone is not set back.
BeginKeepsDone ==
  \/ cancelled /\ Return("begin", FALSE)
  \/ /\ ~cancelled
     /\ pc = "begin"
     /\ \/ /\ "tgt" \in present
           /\ pc' = "ask"
           /\ existingSize' = Len(disk["tgt"]) /\ newSize' = srcLen
        \/ /\ "tgt" \notin present
           /\ pc' = "check"
           /\ existingSize' = 0 /\ newSize' = 0
     /\ UNCHANGED <<taskVars, ownerVars, diskVars, progressVars, name,
                    resumeOffset, done, ok, pastVars, noteVars>>

\* Mutant of Begin: nobody looks whether the target is there.
BeginNeverAsks ==
  \/ cancelled /\ Return("begin", FALSE)
  \/ /\ ~cancelled
     /\ pc = "begin"
     /\ pc' = "check"
     /\ currentFileDone' = 0
     /\ UNCHANGED <<taskVars, ownerVars, diskVars, credited, askVars,
                    resumeOffset, done, ok, pastVars, noteVars>>

\* DoDownloadRecursive or DoUploadRecursive: look at Cancelled, then for a
\* conflict.  An upload asks the server, and an error of PathType counts as
\* "not there", one of RemoteFileSize as an empty file.
Begin ==
  \/ cancelled /\ Return("begin", FALSE)
  \/ /\ ~cancelled
     /\ pc = "begin"
     /\ currentFileDone' = 0
     /\ \/ /\ "tgt" \in present
           /\ pc' = "ask"
           /\ existingSize' \in IF upload THEN {Len(disk["tgt"]), 0} ELSE {Len(disk["tgt"])}
           /\ newSize' \in IF upload THEN {srcLen} ELSE {srcLen, 0}
           /\ UNCHANGED statFailed
        \/ /\ "tgt" \in present => upload
           /\ pc' = "check"
           /\ existingSize' = 0 /\ newSize' = 0
           /\ statFailed' = ("tgt" \in present)
     /\ UNCHANGED <<taskVars, ownerVars, diskVars, credited, name,
                    resumeOffset, done, ok, pastVars, opened, answer, lost,
                    unwritten>>

\* The offset of a resume that is only made when there is something missing.
ResumeIfSmaller ==
  IF existingSize > 0 /\ existingSize < newSize THEN existingSize ELSE 0

\* AskOverwriteWorker, as remembered from an earlier file.
AskRemembered ==
  /\ pc = "ask"
  /\ overwriteAll # "ask"
  /\ answer' = overwriteAll
  /\ \/ overwriteAll = "skip" /\ pc' = "return" /\ ok' = TRUE /\ UNCHANGED resumeOffset
     \/ /\ overwriteAll # "skip"
        /\ pc' = "check"
        /\ resumeOffset' = IF overwriteAll = "overwrite" THEN 0 ELSE ResumeIfSmaller
        /\ UNCHANGED ok
  /\ UNCHANGED <<taskVars, ownerVars, diskVars, progressVars, askVars, done,
                 pastVars, opened, statFailed, lost, unwritten>>

\* AskOverwriteWorker opens the dialog, or overwrites when there is no window
\* to own it.
AskUser ==
  /\ pc = "ask"
  /\ overwriteAll = "ask"
  /\ \/ dlgHwnd /\ pc' = "dialog" /\ UNCHANGED answer
     \/ ~dlgHwnd /\ pc' = "check" /\ answer' = "default"
  /\ UNCHANGED <<taskVars, ownerVars, diskVars, progressVars, askVars,
                 resumeOffset, done, ok, pastVars, opened, statFailed, lost,
                 unwritten>>

\* The dialog is closed with an action, a name and the check box.  Overwrite
\* All checks the box by itself; Retry has no decision to remember.
Answer(action, applyToAll, newName) ==
  /\ pc = "dialog"
  /\ answer' = action
  /\ overwriteAll' = IF action = "overwriteAll" THEN "overwrite"
                     ELSE IF applyToAll /\ action \notin {"retry", "cancel"}
                     THEN action ELSE overwriteAll
  /\ cancelled' = (cancelled \/ action = "cancel")
  /\ name' = IF action \in {"skip", "cancel"} THEN name ELSE newName
  /\ resumeOffset' = CASE action = "resume" -> existingSize
                       [] action = "resumeOrOverwrite" -> ResumeIfSmaller
                       [] OTHER -> 0
  /\ pc' = IF action \in {"skip", "cancel"} THEN "return" ELSE "check"
  /\ ok' = (action = "skip")
  /\ UNCHANGED <<taskVars, dlgHwnd, diskVars, progressVars, existingSize,
                 newSize, done, pastVars, opened, statFailed, lost,
                 unwritten>>

\* The second look at Cancelled.
CheckCancelled ==
  \/ cancelled /\ Return("check", FALSE)
  \/ /\ ~cancelled
     /\ pc = "check"
     /\ pc' = "open"
     /\ UNCHANGED <<taskVars, ownerVars, diskVars, progressVars, askVars,
                    resumeOffset, done, ok, pastVars, noteVars>>

\* ReportProgress(n) when the transfer is not cancelled: TotalBytesDone only
\* ever grows.
ReportProgress(n) ==
  /\ currentFileDone' = n
  /\ credited' = IF n >= currentFileDone THEN credited + (n - currentFileDone)
                 ELSE credited

\* The offset the copy starts at, with the length of the source the code
\* knows: SCP never resumes, a download may start at the very end, an upload
\* may not.
StartOffset(total) ==
  IF scp \/ resumeOffset = 0 THEN 0
  ELSE IF resumeOffset < total \/ (~upload /\ resumeOffset = total)
       THEN resumeOffset ELSE 0

\* The source is opened, which may fail, and its length found, which on the
\* server may fail too; progress is reported before the target is touched.
\* Upload reports the offset before it has corrected it.
OpenSource ==
  \/ Return("open", FALSE)
  \/ /\ pc = "open" /\ ~cancelled
     /\ pc' = "create"
     /\ \E total \in IF upload \/ scp THEN {srcLen} ELSE {srcLen, 0} :
          /\ resumeOffset' = StartOffset(total)
          /\ ReportProgress(IF upload /\ ~scp THEN resumeOffset ELSE StartOffset(total))
     /\ UNCHANGED <<taskVars, ownerVars, diskVars, askVars, done, ok, pastVars,
                    noteVars>>

\* Mutant of CreateTarget: the target is opened without truncating it.
CreateTargetKeeps ==
  \/ Return("create", FALSE)
  \/ /\ pc = "create"
     /\ pc' = "copy"
     /\ present' = present \cup {name}
     /\ done' = resumeOffset
     /\ opened' = TRUE
     /\ UNCHANGED <<taskVars, ownerVars, srcPresent, disk, progressVars,
                    askVars, resumeOffset, ok, pastVars, answer, statFailed,
                    lost, unwritten>>

\* The target is opened.  A resumed download needs it to exist ("r+b"), a
\* resumed upload creates it; all others truncate it, but for an scp server,
\* which may do so at the end only.
CreateTarget ==
  \/ Return("create", FALSE)
  \/ /\ pc = "create"
     /\ ~upload /\ resumeOffset > 0 => name \in present
     /\ pc' = "copy"
     /\ present' = present \cup {name}
     /\ \E kept \in BOOLEAN :
          /\ resumeOffset > 0 => kept
          /\ resumeOffset = 0 /\ kept => upload /\ scp
          /\ disk' = IF kept THEN disk ELSE [disk EXCEPT ![name] = <<>>]
     /\ done' = resumeOffset
     /\ opened' = TRUE
     /\ UNCHANGED <<taskVars, ownerVars, srcPresent, progressVars, askVars,
                    resumeOffset, ok, pastVars, answer, statFailed, lost,
                    unwritten>>

\* One turn of the copy loop: a block is read and written and the progress
\* reported.
CopyBlock ==
  /\ pc = "copy"
  /\ done < srcLen
  /\ disk' = [disk EXCEPT ![name] = WriteAt(@, done, done + 1)]
  /\ done' = done + 1
  /\ \/ cancelled /\ pc' = "close" /\ ok' = FALSE /\ UNCHANGED progressVars
     \/ ~cancelled /\ UNCHANGED <<pc, ok>> /\ ReportProgress(done + 1)
  /\ UNCHANGED <<taskVars, ownerVars, srcPresent, present, askVars,
                 resumeOffset, pastVars, noteVars>>

\* Mutant of CopyFails: the error ends the loop like the end of the file.
CopyFailsUnnoticed ==
  /\ pc = "copy"
  /\ pc' = "close"
  /\ ok' = TRUE
  /\ UNCHANGED <<taskVars, ownerVars, diskVars, progressVars, askVars,
                 resumeOffset, done, pastVars, noteVars>>

\* The read or the write fails, the write after some of the block is there.
CopyFails ==
  /\ pc = "copy"
  /\ \/ UNCHANGED disk
     \/ done < srcLen /\ disk' = [disk EXCEPT ![name] = WriteAt(@, done, done + 1)]
  /\ pc' = "close"
  /\ ok' = FALSE
  /\ UNCHANGED <<taskVars, ownerVars, srcPresent, present, progressVars,
                 askVars, resumeOffset, done, pastVars, noteVars>>

\* The source ends.  An error of fread, and an SCP channel that is closed too
\* early, look the same as the end.
CopyEnds ==
  /\ pc = "copy"
  /\ done < srcLen => upload \/ scp
  /\ lost' = (done < srcLen)
  /\ pc' = "close"
  /\ ok' = TRUE
  /\ UNCHANGED <<taskVars, ownerVars, diskVars, progressVars, askVars,
                 resumeOffset, done, pastVars, opened, answer, statFailed,
                 unwritten>>

\* Mutant of CleansUp: only the server's side is cleaned up.
CleansUpUploads == ~ok /\ done = 0 /\ resumeOffset = 0 /\ upload /\ ~scp

\* Does the code remove the target it has opened?
CleansUp == ~ok /\ done = 0 /\ resumeOffset = 0 /\ ~(upload /\ scp)

\* The files are closed and an empty leftover is removed; on the server that
\* may fail.  An scp server cuts the file to its announced length.  Nobody looks
\* at what fclose, libssh2_sftp_close or the scp server say of the end of the
\* file: blocks of this transfer may be missing, whatever it returns.
Close ==
  /\ pc = "close"
  /\ pc' = "return"
  /\ \/ /\ CleansUp
        /\ present' = present \ {name}
        /\ disk' = [disk EXCEPT ![name] = <<>>]
        /\ UNCHANGED unwritten
     \/ /\ CleansUp => upload
        /\ UNCHANGED <<present, unwritten>>
        /\ disk' = IF upload /\ scp /\ ok /\ ~lost
                   THEN [disk EXCEPT ![name] = SubSeq(@, 1, done)] ELSE disk
     \/ /\ \E k \in resumeOffset .. done - 1 :
             disk' = [disk EXCEPT ![name] = OnlyFirst(k)]
        /\ unwritten' = TRUE
        /\ UNCHANGED present
  /\ UNCHANGED <<taskVars, ownerVars, srcPresent, progressVars, askVars,
                 resumeOffset, done, ok, pastVars, opened, answer, statFailed,
                 lost>>

\* ExecuteTask: a move removes the source, if it can.  A file that failed is
\* the last one of the operation.
ExecuteTaskEnds ==
  /\ pc = "return"
  /\ pc' = IF ok THEN "idle" ELSE "over"
  /\ srcPresent' \in IF ok /\ move THEN BOOLEAN ELSE {TRUE}
  /\ UNCHANGED <<taskVars, ownerVars, present, disk, progressVars, askVars,
                 resumeOffset, done, ok, pastVars, noteVars>>

Worker ==
  \/ Begin \/ AskRemembered \/ AskUser
  \/ \E action \in Actions, applyToAll \in BOOLEAN, newName \in Names :
       Answer(action, applyToAll, newName)
  \/ CheckCancelled \/ OpenSource \/ CreateTarget
  \/ CopyBlock \/ CopyFails \/ CopyEnds \/ Close \/ ExecuteTaskEnds

Init ==
  /\ upload = FALSE /\ scp \in BOOLEAN /\ move = FALSE /\ srcLen = 0
  /\ srcPresent = FALSE /\ present = {} /\ disk = [n \in Names |-> <<>>]
  /\ cancelled = FALSE /\ dlgHwnd = TRUE /\ overwriteAll = "ask"
  /\ currentFileDone = 0 /\ credited = 0
  /\ pc = "taken" /\ existingSize = 0 /\ newSize = 0 /\ name = "tgt"
  /\ resumeOffset = 0 /\ done = 0 /\ ok = FALSE
  /\ wasPresent = {} /\ was = [n \in Names |-> <<>>]
  /\ opened = FALSE /\ answer = "none" /\ statFailed = FALSE
  /\ lost = FALSE /\ unwritten = FALSE

Next ==
  \/ Cancel \/ StopDetaches \/ StopTerminates
  \/ TakeTask \/ NextFile \/ SameFileAgain
  \/ Worker

Spec == Init /\ [][Next]_vars

-----------------------------------------------------------------------------
(* Safety                                                                  *)

Contents == Seq(Block)

\* The Boolean variables; a part of the type invariant.
FlagsOK ==
  /\ upload \in BOOLEAN /\ scp \in BOOLEAN /\ move \in BOOLEAN
  /\ srcPresent \in BOOLEAN /\ cancelled \in BOOLEAN /\ dlgHwnd \in BOOLEAN
  /\ ok \in BOOLEAN /\ opened \in BOOLEAN
  /\ statFailed \in BOOLEAN /\ lost \in BOOLEAN /\ unwritten \in BOOLEAN

\* Every variable has its type.
TypeOK ==
  /\ FlagsOK
  /\ srcLen \in 0 .. MaxBlocks
  /\ present \subseteq Names /\ disk \in [Names -> Contents]
  /\ overwriteAll \in {"ask", "overwrite", "skip", "resume", "resumeOrOverwrite"}
  /\ currentFileDone \in 0 .. MaxBlocks /\ credited \in Nat
  /\ pc \in Busy \cup {"idle", "over", "taken"}
  /\ existingSize \in 0 .. MaxBlocks /\ newSize \in 0 .. MaxBlocks
  /\ name \in Names /\ resumeOffset \in 0 .. MaxBlocks
  /\ done \in 0 .. MaxBlocks
  /\ wasPresent \subseteq Names /\ was \in [Names -> Contents]
  /\ answer \in Actions \cup {"none", "default"}

\* A resume goes on where an earlier transfer of this file ended.
SoundResume ==
  resumeOffset > 0 => name = "tgt" /\ IsPrefixOf(was["tgt"], Source)

\* Once Download or Upload has opened its target the file there is a beginning
\* of the source, wherever the transfer fails, is cancelled or is terminated:
\* the next resume is sound.
Resumable ==
  opened /\ ~scp /\ SoundResume => IsPrefixOf(disk[name], Source)

\* A file the worker counts as transferred is the source, block for block, so
\* that a move loses nothing; but for a skipped file, a resume that is not
\* sound, a source that seemed to end too early (lost) and an end of the target
\* that failed at the close (unwritten): the four ways the code has to count a
\* file that is not the source.
DoneIsExact ==
  /\ pc \in {"return", "idle"} /\ ok /\ answer # "skip" /\ SoundResume
  /\ ~lost /\ ~unwritten
  => name \in present /\ disk[name] = Source

\* Is there an empty file the transfer has made?
Ghost ==
  /\ name \in present /\ disk[name] = <<>>
  /\ ~(name \in wasPresent /\ was[name] = <<>>)

\* A download that fails or is cancelled leaves no empty file behind; unless it
\* had written something, which the close then failed to write.
NoGhostOnDownload ==
  pc = "return" /\ ~ok /\ ~upload /\ opened /\ ~unwritten => ~Ghost

\* Does Upload report an offset that it then does not use?
ReportsUnusedOffset ==
  upload /\ ~scp /\ answer = "resume" /\ existingSize > 0 /\ existingSize >= srcLen

\* Each file adds its length to TotalBytesDone, no more and in the end no
\* less, although the code only sees differences between two reports.
ProgressIsExact ==
  pc \in Busy /\ ~ReportsUnusedOffset =>
    /\ credited <= srcLen
    /\ pc = "return" /\ ok /\ answer # "skip" /\ ~lost => credited = srcLen

\* Has the target n, which was there before, been changed?
Changed(n) == n \in wasPresent /\ (n \notin present \/ disk[n] # was[n])

\* The target of a task is only changed after the conflict was settled: by the
\* dialog, a remembered answer or the fallback; or the server could not say
\* that it is there.
ChangedOnlyWhenSettled ==
  Changed("tgt") => answer \notin {"none", "skip", "cancel"} \/ statFailed

\* A resume over SFTP is byte-exact: when nothing fails the file is the source
\* in the end.
ByteExactResume ==
  pc = "return" /\ ok /\ ~scp /\ ~lost /\ ~unwritten /\ answer = "resume"
  /\ IsPrefixOf(was["tgt"], Source) => disk[name] = Source

-----------------------------------------------------------------------------
(* The inductive invariant behind the safety properties.  It relates the   *)
(* thread's position to what is in the files and in the counters.          *)

\* No file is longer than the longest source, and the sizes the code works
\* with are those of the source and of the file in the way, or 0.
SizesAreKnown ==
  /\ \A n \in Names : Len(disk[n]) <= MaxBlocks /\ Len(was[n]) <= MaxBlocks
  /\ existingSize \in {0, Len(was["tgt"])} /\ newSize \in {0, srcLen}
  /\ resumeOffset \in {0, existingSize}
  /\ pc \in {"taken", "begin"} => existingSize = 0 /\ newSize = 0
  /\ pc \in {"taken", "begin", "ask", "dialog"} => resumeOffset = 0 /\ name = "tgt"
  /\ pc \in {"create", "copy", "close"} =>
       resumeOffset <= srcLen /\ (resumeOffset > 0 => ~scp)

\* Nothing is touched before the target is opened, and nothing else after.
OnlyTargetTouched ==
  /\ pc \in {"taken", "begin", "ask", "dialog", "check", "open", "create"} => ~opened
  /\ pc \in {"copy", "close"} => opened
  /\ ~opened => disk = was /\ present = wasPresent
  /\ "tgt" = name \/ (disk["tgt"] = was["tgt"]
                       /\ ("tgt" \in present <=> "tgt" \in wasPresent))

\* The target holds the first n blocks of the source; a file an scp server
\* has not truncated yet may be longer.
Holds(n) ==
  /\ n <= Len(disk[name])
  /\ \A i \in 1 .. n : disk[name][i] = i
  /\ ~(upload /\ scp) => Len(disk[name]) = n

\* In the loop, and after it, the target holds what was counted.
CopyIsCounted ==
  /\ pc \in {"copy", "close"} =>
       name \in present /\ resumeOffset <= done /\ done <= srcLen
  /\ pc \in {"copy", "close"} /\ resumeOffset < done => done <= Len(disk[name])
  /\ pc = "copy" /\ SoundResume => Holds(done)
  /\ pc = "close" /\ ok /\ ~lost => done = srcLen
  /\ pc = "close" /\ ok /\ ~lost /\ SoundResume => Holds(srcLen)
  /\ pc \in {"copy", "close"} /\ ~upload =>
       Len(disk[name]) >= done \/ (name \in wasPresent /\ disk[name] = was[name])

\* The conflict is settled before the target can be opened.
SettledFirst ==
  /\ "tgt" \in wasPresent /\ (opened \/ pc \in {"check", "open", "create"}) =>
       answer \notin {"none", "skip", "cancel"} \/ statFailed
  /\ pc \in {"taken", "begin", "ask", "dialog"} => answer = "none"

\* TotalBytesDone has grown by CurrentFileDone since the file was begun, which
\* is what was copied.
ProgressFollowsCopy ==
  /\ pc \in {"taken", "begin"} => credited = 0
  /\ pc \in {"ask", "dialog", "check", "open"} => credited = 0 /\ currentFileDone = 0
  /\ pc \in {"check", "open"} /\ upload /\ resumeOffset >= srcLen /\ resumeOffset > 0 =>
       answer = "resume"
  /\ pc \in {"create", "copy", "close"} /\ ~ReportsUnusedOffset =>
       credited = currentFileDone
  /\ pc = "create" /\ ~ReportsUnusedOffset => currentFileDone = resumeOffset
  /\ pc = "copy" /\ ~ReportsUnusedOffset => currentFileDone = done
  /\ pc = "close" /\ ~ReportsUnusedOffset =>
       currentFileDone <= srcLen /\ (ok /\ ~lost => currentFileDone = srcLen)

IndInv ==
  /\ TypeOK
  /\ SizesAreKnown
  /\ OnlyTargetTouched
  /\ CopyIsCounted
  /\ SettledFirst
  /\ ProgressFollowsCopy
  /\ Resumable /\ DoneIsExact /\ NoGhostOnDownload /\ ProgressIsExact

=============================================================================
