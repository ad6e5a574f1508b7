# A TLA+ model of the SFTP plugin for Open Salamander

The plugin makes a remote host (SFTP, or SCP as a fallback) a file system of
Salamander's panels. It is a Windows DLL in C++ around libssh2 and OpenSSL; its
own code is about 15 000 lines in `src/src/*.cpp`. What is hard in it is not the
protocol, which libssh2 speaks, but what the plugin does around it: transfers
that run in threads of their own and are paused, cancelled, sent to the
background and shown again, dialogs that live in one thread and are used by
another one, files that are half transferred when something fails, and the
question whether a file may be overwritten.

Paths below are relative to the repository; `sftpworker.cpp:167` stands for
`src/src/sftpworker.cpp`, line 167.

## 1. Inventory

| Component | State | Operations | What is hard |
|---|---|---|---|
| **Transfer worker** `CSftpTransferWorker` (`sftpworker.h/.cpp`) | `TaskQueue`, `AllTasks`, `CurrentTaskIndex` under `QueueLock`; `State` (cancelled, paused, running, error, counters) under `State.Lock`; three events; `ThreadHandle`, `DlgHwnd` | `EnqueueTask`, `Start`, `Cancel`, `SetPaused`, `Stop`, `Reset`; the thread: `ThreadLoop`, `ExecuteTask`, `DoDownloadRecursive`, `DoUploadRecursive`, `ReportProgress` | threads; reads without the lock; waits; termination after a timeout |
| **File transfer** (`sftpconn.cpp`: `Download`, `Upload`, `ScpDownload`, `ScpUpload`; `sftpworker.cpp`: the file part of the recursive functions) | the files on both sides, the resume offset, the progress counters | open, copy block by block, close, clean up; removal of the source of a move | every step can fail, be cancelled or be cut off; what is left is what the next resume trusts |
| **Conflict resolution** (`sftpworker.cpp:715 AskOverwriteWorker`, `sftpconflictdlg.cpp`) | `OverwriteAllDecision` | seven answers, a check box, an alternative name | an answer for one name applied to another one |
| **Transfer dialog** (`fs2.cpp`: `CSftpTransferProgressDlg`, `CSftpProgressDlgThread`; registration in `CPluginFSInterface`) | `Worker`, `FS`, `OperationFinished`, `WantCancel`, the timer, the window, `ActiveTransferDlgs` | messages of its own thread; `AttachWorker`, `DetachWorker`, `ShowFromBackground` and destruction by the main thread | no lock at all between the two threads; message boxes dispatch other messages |
| **SSH connection** (`sftpconn.cpp`: connect, authenticate, host key, keep-alive, listing) | the session, the `known_hosts` file | connect, reconnect, list, stat, rename, delete | two connections writing one file; a reconnect in the middle of an operation |
| **Panel file system** (`fs2.cpp`: `CPluginFSInterface`) | path, connection, timer, error flag | `ChangePath`, `ListCurrentPath`, `TryCloseOrDetach`, `Event`, delete, rename | timers that start their successor; error flags consumed by the next call |
| **Server-to-server copy, synchronisation, delete** and the recursive helpers (`fs2.cpp`), on the main thread | a copy in `%TEMP%`, both connections, the globals `g_OvrMode`, `g_OvrCancel`, `g_ProgCancel`, `g_SyncMode` | `CopyOrMoveFromFS`, `Delete`, `SftpSyncDir`; recursive download, upload, delete | three walks one after the other, each of which may stop half way; answers kept in globals; a directory everybody uses |
| **Remote paths** (`sftpglue.cpp`) | none | join, normalise, parent, same path | boundaries (root, `..`, trailing slash, buffer length) |
| **Connect dialog, profiles, factory** (`fs1.cpp`, `sftp.cpp`, `sftpglue.cpp`) | `SftpProfiles`, `SftpFolders`, `SftpDefaultSession`, `g_SelectedProfileIndex`, the rows of the list, the registry | choose, new, edit, rename, move to a folder, set as default, save, delete; load and save the configuration | a connection is named by index, by row and by name; a save is many registry writes |
| **Command execution** (`sftpconn.cpp`, `dialogs.cpp`) | `CCmdExecContext`: chunks, flags, the thread; the dialog | run, stream, cancel, close | thread and dialog share the context; posted messages can be lost |
| **Plugin entry, configuration, menu**; **archiver, viewer, thumbnails** (demo leftovers); **dark mode**; **libssh2, OpenSSL** (vendored) | | | not modelled |

How they interact. Salamander's main thread calls `CPluginFSInterface`. For a
copy or a move, it makes a `CSftpTransferWorker` and a dialog with a thread of
its own, waits until the window is there, enqueues one task per selected file or
directory, attaches the worker to the dialog, puts the dialog on
`ActiveTransferDlgs` and starts the worker. The worker opens a second connection,
serves the tasks in order, writes its `State`, and posts
`WM_APP_SFTP_WORKER_FINISHED` as its last act. The dialog polls `State` with a
timer, and sets flags and events when buttons are clicked. Whoever destroys the
dialog, its own thread or the destructor of the file system, stops and deletes
the worker. A conflict is asked in a modal dialog that the worker's thread opens.

Copies between servers, deletes and synchronisations run on the main thread
itself, with the connection of the panel. A command runs in a thread of its own
with a connection of its own, whose output is posted to a modeless dialog of the
main thread. The connect dialog is modal and fills in the profile a new file
system connects with.

`PROJECT.json` lists the main hazards that follow from this, each at its line,
with the property that guards it; smaller ones that the models contain but no
property is about are named with the deviations in section 3.

## 2. Modules

| Module | Models | Lines of code it stands for |
|---|---|---|
| `TransferWorker` | the worker object and every step of its thread | `sftpworker.cpp`, the copy loops of `sftpconn.cpp` as blocks |
| `TransferJob` | the abstract specification of the task list: what a caller may rely on | - |
| `MCTransferWorker` | which tasks are directories and moves in the runs | - |
| `TransferWorker_proofs` | theorems about `TransferWorker` | - |
| `FileTransfer` | what happens to the bytes of one file after another | `sftpworker.cpp:497-900`, `sftpconn.cpp:1031-1116, 1319-1444`, `sftpconflictdlg.cpp` |
| `FileTransfer_proofs` | theorems about `FileTransfer` | - |
| `TransferDialog` | one dialog, the main thread and the worker's thread, and who frees what | `fs2.cpp:420-620, 1240-2250` and the callers in `CopyOrMove...` |
| `TransferDialog_proofs` | theorems about `TransferDialog` | - |
| `Connection` | the connections and the `known_hosts` file they share | `sftpconn.cpp:149-530`, `sftpglue.cpp:13-62`, `libssh2/knownhost.c` (check, read, write) |
| `MCConnection` | hosts, keys and key types of the runs | - |
| `Connection_proofs` | theorems about `Connection` | - |
| `PanelFS` | the file systems of the panels between paths, servers, panel and background | `fs2.cpp:2190-2885`, `sftpglue.cpp:64-102`, `fs1.cpp:908-940` |
| `MCPanelFS` | names of the file systems in the run | - |
| `PanelFS_proofs` | theorems about `PanelFS` | - |
| `ServerCopy` | copy and move from server to server, delete, synchronisation: the recursive walks and the files they touch | `fs2.cpp:1986-2166, 3317-3507, 3806-3883, 4163-4371`, `sftpconn.cpp:1119-1207, 1319-1444, 1563-1619` |
| `MCServerCopy` | the trees of the run | - |
| `ServerCopy_proofs` | theorems about `ServerCopy` | - |
| `CommandExec` | a command, its thread and its dialog | `dialogs.cpp:732-1031`, `sftpconn.cpp:1501-1547`, `fs2.cpp:3134-3150` |
| `CommandExec_proofs` | theorems about `CommandExec` | - |
| `Profiles` | the saved connections, the connect dialog and the registry | `fs1.cpp:110-224, 443-512, 598-897`, `sftp.cpp:765-960` |
| `MCProfiles` | names of folders in the run | - |
| `Profiles_proofs` | theorems about `Profiles` | - |

The modules look at the same program from different sides and share no variables: what one of them
needs of another is an environment step of its own (the worker's end in
`TransferDialog`, `Connect` as one outcome in `PanelFS` and `TransferWorker`, the
terminated thread in `Connection`).

An operator whose comment says "Mutant of X" is no part of the model: it is a
plausible mistake in the code of X, and replacing X by it must break the property
named for it in `PROJECT.json`.

### TransferWorker

The variables are the members of the class under their names (`taskQueue` is
`TaskQueue`...); a task is its number, so that "the task popped from the queue"
and "the slot of `AllTasks` written" can be compared, which the code never does.
`pc` is the position of the thread. The thread's steps are cut where another
thread can come in between: at each critical section, each wait, each network or
disk operation, and between the two unlocked readings of `Cancelled` after
`ExecuteTask` (`sftpworker.cpp:427` and `:445`). `Start` is cut behind
`_beginthreadex`, since `ThreadHandle` is assigned when the thread already runs,
and `Stop` between clearing `DlgHwnd` and setting `Cancelled`.

| Action | Code |
|---|---|
| `EnqueueTask`, `Start`/`StartReturns`, `Cancel`, `SetPaused`, `Stop`/`StopSignals`/`StopJoins`/`StopTerminates`, `Reset` | the methods of the same name |
| `ConnectOk`, `ConnectFails`, `TakeTask`, `IdleWait`, `IdleTimeout`, `CountTask`, `MarkRunning` | `ThreadLoop` up to `ExecuteTask` |
| `EnterFile`, `EnterDirectory`, `NextEntry`, `AskOverwrite*`, `CheckCancelled` | `DoDownloadRecursive`, `DoUploadRecursive` |
| `ReportProgressWait`, `ReportProgress`, `MoveBlock`, `MoveFails` | the copy loops and the progress callback |
| `RemoveSource`, `RecordStatus`, `LoopOrLeave`, `Leave`, `PostFinished` | the end of `ExecuteTask` and of `ThreadLoop` |

`finishedMsgs`, `skippedFiles`, `removedSources`, `nonEmpty`, `overrun` and
`lastLook` (how many tasks there were when the thread last looked at the queue) record
what the outside sees and are read by no guard of the code, but for `nonEmpty`:
`rmdir` fails on a directory that holds an entry.

Abstractions: the length of a file and of a directory is unknown (the thread
chooses after each block or entry whether there is another one), the recursion
into subdirectories is a flat sequence of entries, names and sizes are left out,
the statistics (speed, totals) are in `FileTransfer` or nowhere. An operation is
started once; `Reset` comes before another one, as in `test_worker.cpp`.

### FileTransfer

A file is a sequence of blocks, one block per turn of a copy loop; the source of
length n is `<<1, ..., n>>`, so that the order, a gap and a foreign content can
be told apart. `Begin`, `AskRemembered`, `AskUser`, `Answer`, `CheckCancelled`
are the file part of the recursive functions with `AskOverwriteWorker` and the
dialog; `OpenSource`, `CreateTarget`, `CopyBlock`, `CopyFails`, `CopyEnds`,
`Close` are `Download`, `Upload`, `ScpDownload` and `ScpUpload`, which differ in
where they may resume, what they truncate and what they clean up;
`ExecuteTaskEnds` removes the source of a move. `Cancel`, `StopDetaches` and
`StopTerminates` come in anywhere. Between operations the same file may be tried
again (`SameFileAgain`), with what the last attempt left, or another one with any
file in the way.

A failing `stat` is modelled as the code treats it: an existing target counts as
absent (`PathType`), a size as 0. `Close` may find that the end of the target
never got there, with `ok` true or false: the code looks neither at `fclose`
(`sftpconn.cpp:1062, 1360`) nor at `libssh2_sftp_close` nor at the final status of
an scp server (`1109`); `unwritten` records it. A terminated thread leaves the
last block of a download in the buffer of `stdio` (`StopTerminates`). Not
modelled: a server that reorders writes, and files that somebody else changes
during the transfer.

### TransferDialog

Three threads and three objects (dialog, worker, file system). A use of the
`Worker` pointer is two steps, the read and the use, because nothing keeps the
other thread from deleting the object in between; a use of a freed object sets
`crash` and stops the model. Message boxes have a message loop of their own, so
that `Finished` and `Tick` are enabled while `box` is open and clicks are not.

Facts of Windows the model relies on: `DestroyWindow` does nothing in a thread
that did not make the window; `KillTimer` from another thread may or may not
work (a choice); messages of a destroyed window are gone; a disabled `IDCANCEL`
keeps Esc and the close box from working. In the loop of `EnableCancel` posted
messages are dispatched, clicks are not (the message box has just been answered).
The pause has no effect here: it is in `TransferWorker`. The module has one
dialog, whose registration in `ActiveTransferDlgs` is one step.

### Connection

Each connection has a position (`pc`), the server, the key of its handshake and,
inside `VerifyHostKey`, the list `kh` read from the file. The steps are cut where
another thread can come in: the handshake, the reading of the file, the user's
answer, `fopen` (which truncates), flushes of stdio, `fclose`, authentication. A
line of the file is a host with a key; a line cut in the middle by a concurrent
reader is taken as absent. `saved` and `lastSaved` are what the user has
answered, `stale` and `disturbed` record interference; no guard reads them.
`HostOf` forgets the port, as `libssh2_knownhost_addc(kh, host, ...)` does: two
servers on two ports of one host replace each other's keys. `FilesFail` lets
`fopen` fail, and a write or `fclose`, which leaves some of the lines
(`WriteBreaks`); `VerifyHostKey` looks at none of the three.

| Action | Code |
|---|---|
| `Connect`, `ConnectFails`, `Authenticate` | `Connect` before and after `VerifyHostKey` |
| `ReadKnownHosts`, `Reject`, `AcceptOnce`, `AcceptAndSave` | `VerifyHostKey`, `SftpHostKeyCallback` |
| `OpenForWriting`, `WriteFails`, `FlushSome`, `WriteBreaks`, `CloseFile` | `libssh2_knownhost_writefile` |
| `Disconnect`, `Drop`, `Terminate` | `Disconnect`, a closed socket as `IsConnected` sees it, `Stop` of a worker |

### PanelFS

Salamander's main thread calls one method after the other; `pc` is the next one in
the chain that a change of path sets off. Salamander is not in the repository:
what it does between the calls (`CallChangePath`, `AfterFailure`) is taken from
what the plugin relies on (`sftp.h:733`: after a `ListCurrentPath` that failed,
`ChangePath` will be called). `ChangePath` is cut into the part up to the
connection (`ChangePathFatal`, `ChangePathOffline`, `ChangePathOnline`) and the
turns of its loop (`ChangePathArrives`, `ChangePathTrims`, `ChangePathGivesUp`);
`ListCurrentPath` and `ListAgain` are the two attempts of the listing. The peer
may close the session between any two steps (`Drop`). The server's answers are
arbitrary at each step. A path is a sequence of names, already normalised: the
text functions have no module of their own. A server is a host with a
user: `SftpParseHostInto` does not compare ports, so that a path to another port
of the same host keeps the session; that, and the wording of prefixes, is left
out. `SftpLeavePanelAction` only chooses between `LeaveAndClose` and
`LeaveAndDetach`, which are both possible here.

### ServerCopy

A recursive call is a walk: a stack of the directories it is in, each with the
entries its listing gave and that are still to be visited. The three walks
(`SftpDownloadRecursive`, `SftpUploadRecursive`, `SftpDeleteRecursive`) share the
actions for leaving a directory and for ending; `Return` says where the operation
goes on. `Above` is the set of directories a path lies in, the least that is closed
under `Parent`; `Real` is the entry a link leads to, which is what a listing, a
download and the question for an entry's kind see through the link. One operation is followed from any state of `%TEMP%`, of the target and
of the globals the operation before may have left.

| Action | Code |
|---|---|
| `Begin`, `NextItem`, `CleanUp`, `AfterFailure`, `Finish` | the loop of `CopyOrMoveFromFS`, with `SftpProgressBegin` and `LocalDeleteRecursive` |
| `AfterDelete` | the loop of `Delete` |
| `DownloadDir`, `UploadDir`, `DeleteDir`, `LeaveDir`, `WalkEnds`, `HearCancel` | the directory part of the recursive functions |
| `TakeNewFile`, `Resume`, `Overwrite`, `Skip`, `CancelAtQuestion` | their file part with `SftpAskResume` and `SftpAskOverwrite` |
| `SyncFile` | `SyncSkipDownload`, `SyncSkipUpload` |
| `RemoveFile` | `CSftpConnection::RemoveFile` |
| `SomebodyAdds` | another client (environment) |

`Transfer` is a whole `Download` or `Upload`, whose inside is `FileTransfer`: here
it is one step with every outcome that leaves (`Outcomes`): nothing touched, some
blocks written, all. It may also return true with less than the file (`short`
records that): nobody looks at what `fclose` returns, an error of `fread` and an SCP
channel that closes early look like the end of the file, and an SCP server's last
answer is not read. A listing may miss up to `MaxUnlisted` entries, since
`ListDir` takes an error of `readdir` for the end. Times are left out, so that a
synchronisation may or may not skip a file of the same size. The order of the
entries is arbitrary. Left out: what is special to SCP (in `FileTransfer`), the search for the connection
that leads to the target, the directories `MakeDirRecursive` makes for a file
whose upload then fails, and that with two servers a cancel during the
download is not heard within a file (the model hears it at any block).

### CommandExec

The thread is cut at each read, each look at `cancelRequested`, each
`PostMessage`; the dialog at each message. The queue holds also messages of other
windows (`PostOther`), so that it can be full when the thread posts: then the
message is lost, and the code does not look. `NcDestroy` may find the thread
anywhere; it then terminates it, which is what `killedAt` records. A read that
does not block may return nothing although there is something, and a broken
connection returns an error that the loop takes for nothing. Chunks are numbered
in the order they are read, so that loss, doubling and order can be seen in the
edit control. Left out: the text of a chunk (`\n` becomes `\r\n`), the refresh of
the panel.

### Profiles

Indices are from 1, and 0 is the code's -1. A row of the list box has the index of
a profile (its item data) or the name of a folder. A profile is its name, its host
and its folder; the name `SaveSession` generates is taken to be the host, since
user and port only make it more distinct. `LowerCase` is what `_stricmp` sees,
`HeaderName` what `GetSelFolder` reads back from the header `[ name ]`. A handler
that changes something is two steps, up to `SaveSftpConfigurationImmediately` and
after it (`SaveReturns`), with the writes of `SaveConfiguration` in between: one
for the values of the plugin's key and the count, one for each profile. `Restart`
is the end of the process at any of these moments. The user may press any button
in any order. Every notification of the list box but a selection or a double
click, the focus coming to it or leaving it among them, is `FocusList`: it takes the
highlighted row for the profile that is edited, and loads nothing. `stray` remembers
that a row was highlighted that is not that of the fields. The loops of the code
(`InFolder`, `WithFolders`, `LoadServers`) are functions of the number of turns made,
with one value per turn.

## 3. Runs

| Run | Bounds | Result |
|---|---|---|
| `worker` | 3 tasks, the second a directory, the first two moved, enqueued at any time | the type invariant; `TasksInOrder`, `ReportsOwnTask`, `NoTaskLost`, `QuietFinishIsComplete`, `FinishedIsLast`, `BoundedOverrun`; that the task list implements `TransferJob`; and with fairness `StopEnds` (the thread gets out of every wait by itself) and `CancelEndsUnlessPaused` |
| `file` | files of up to 2 blocks, two target names, any number of files and operations | `Resumable`, `DoneIsExact`, `NoGhostOnDownload`, `ProgressIsExact`, `ChangedOnlyWhenSettled` |
| `dialog` | one dialog, one worker (finite as it stands) | `CrashNeedsMain`, `ThreadEndsFirst`, `ListedIsThere`, `WorkerIsFreed`, `ErrorIsShown`, and with fairness `EndIsSeen` |
| `worker_skip_move` | 1 task | **violated**: `SkippedIsKept` |
| `hosts` | a panel and a worker, two hosts, three keys of two types, `fopen` may fail, the worker may be terminated | `TrustIsEarned`, `SavedWhenAlone` |
| `panel` | two file systems, two servers, paths of up to three names, up to two timers counted | `SessionIsOfProfile`, `KeptAlive`, `FocusIsThere`, and with fairness `CallsEnd` |
| `copy` | a file and a directory with a link back to the panel's directory, one file added by another client, one entry missed by a listing, files of 2 blocks | `MoveKeepsData`, `NothingElseGoes`, `NoSilentOverwrite`, `TempIsCleaned`, `SyncIsComplete` |
| `exec` | 4 chunks on two streams, 3 messages in the queue | `ThreadIsSafe`, `OutputIsWhole`, `CompletedIsTrue`, and with fairness `StopIsHeard` |
| `profiles` | 2 connections, 3 folder names of which two differ in case and one is cut by its header, room for 2 folders | `RestartKeepsProfiles`, `EveryProfileIsListed`, `SaveHitsTheLoaded` |
| `file_resume` | as `file` | **violated**: `ByteExactResume` |
| `dialog_closing` | as `dialog` | **violated**: `CloseIsSafe` |
| `hosts_lost` | as `hosts`, but nothing fails and nobody is terminated | **violated**: `SavedIsKept` |

The runs marked **violated** state what the documentation or a comment says and
what the code does not do; `PROJECT.json` quotes the sentence. In short:

- *Skip* counts as success, and a move then deletes the file that was not moved
  (`worker_skip_move`).
- *Resume* together with a new name uses the size of the old file as offset
  (`file_resume`).
- The destructor of the file system deletes the worker the dialog's thread is
  using (`dialog_closing`).
- Two connections that ask about a host key at the same time each rewrite
  `known_hosts` from their own copy, and the answer written first is lost
  (`hosts_lost`).

Some more deviations can be read off the model but have no run; a property that
would fail in such a case excludes it by a hypothesis, which names it.

Transfers: a pause after a cancel resets the event the thread waits for without a
timeout (`SetPaused`, `sftpworker.cpp:250`), so that the transfer is neither
running nor over (`CancelEndsUnlessPaused` is what is left). An SCP channel closed
too early (`sftpconn.cpp:1057`), or an error of `fread`, looks like the end of the
file (`lost` in `FileTransfer`). A full disk that shows only in `fclose`, and an
scp server that could not write, are not noticed at all (`unwritten`,
`sftpconn.cpp:1360, 1062, 1109`): the transfer counts as a success with a short
target, and a move then deletes the source. A failed `stat` before an upload
makes it overwrite the target without a question (`statFailed`,
`sftpconn.cpp:1199`). The alternative
name of a conflict is overwritten without a look, and between two steps of `Stop`
(`DlgHwnd` cleared, `Cancelled` not yet set) the question is answered by the
fallback, which overwrites (`AskUser`). A cancel confirmed before the worker is
attached or started is wiped out by `Start`, and the button stays disabled
(`CancelWorker`, `StartWorker`). When the transfer ends while the cancel question
is open, *Yes* disables the button that by then says *Close* (`AnswerCancel` after
`Finished`). `ChangePath` to a file in the root, or to a missing name there, ends
with an error instead of showing the root, since `slash == path` counts as being
at the root (`ChangePathGivesUp`, `fs2.cpp:2555`). `PathError` survives a
`ChangePath` that could not connect and shortens the next path asked for
(`ChangePathOffline`). Further: a moved directory
is never removed when it held a file (`RemoveSource`: a plain `rmdir`, its result
ignored); an SCP upload that fails at once leaves an empty file
(`CleansUp`); *Resume* of a target that is not shorter than the source truncates
it (`StartOffset`); the first timer message before `AttachWorker` ends the timer
for good (`Tick`); the destructor's `DestroyWindow` fails in the wrong thread, so
that the window stays (`DestroyFromMain`).

Copies on the main thread: the delete of a move lists the source again, and so
deletes files that were added after the download's listing, or that a broken
listing had missed, without a copy of them (`DeleteDir`). A move whose target is
the directory it comes from uploads the file onto itself and then deletes it
(`to = "panel"`). What somebody else has in `%TEMP%` under a directory's name is
uploaded with it, and deleted (`UploadDir`, `CleanUp`). A `stat` that fails counts
as "not there", and the file is overwritten unasked (`blind`). What the delete of
a move returns is ignored (`AfterFailure`). A `Download` or `Upload` that returns
true of a part of the file (`short`, as in `FileTransfer`) lets a move delete a
source of which the target has a part, and a synchronisation report a success
that is none: `MoveKeepsData` and `SyncIsComplete` exempt these files.

Commands: a request to stop is not heard while a question of `Connect` is open
(`Connect`, `UserAnswers`). When `CreateThread` fails, or `EXEC_DONE` meets a full queue (`lost`),
`isRunning` stays set and the dialog can never be closed. A cancelled command
that has written nothing is said to have "completed with no output"
(`FreeChannel`). A broken connection is polled until the user cancels (`Eof`).

Profiles: a process killed while it deletes comes back with one profile twice and
another one missing, since the keys are moved up one by one; the key behind the
count is never removed, and a process killed right after the count has grown reads
it again (`SaveServer`, `Restart`). When the dialog is opened again, *Save* before any choice overwrites
the profile that was chosen last time, with what is in the fields (`OpenDialog`
leaves `selected`). With folders, the row highlighted at the start and after a
rename is not the profile's (`SetCurSel`), and *New* leaves the row of another
profile highlighted (`NewSession`): as soon as the focus comes to the list or leaves
it, `g_SelectedProfileIndex` is that row's (`FocusList`; `fs1.cpp:598-603`), and *Save*
overwrites its profile with the fields of another one. *New*, a host typed in, the
focus to the list and back by the keyboard, and *Save* are enough.
`SaveHitsTheLoaded` exempts these cases (`stray`) and no others: while the row that
is highlighted is that of the fields, or none, the focus may go anywhere. A profile moved to a folder whose name
is known in another case disappears from the list (`FolderKnown`, `InFolder`). The
default keeps its name when its profile is renamed or deleted.

Why the bounds are enough. In `TransferWorker` the properties relate a task to its
neighbours, and three tasks are a finished one, the current one and a waiting one;
the theorems of section 5 have no bound. In `FileTransfer` the cases are: nothing
written, some of it, all of it, and one too many, and a target that is empty,
shorter, of equal length or longer: two blocks have them all. `TransferDialog` has
no bound: TLC visits every state. In `Connection` interference takes two, and a
host needs two keys of one type, to be replaced, and one of another, to be kept;
the theorems have no bound, and neither have those about `PanelFS`, `ServerCopy`,
`CommandExec` and `Profiles`. In `PanelFS` three names are one cut first, one cut
second and one left over; a second file system shows that the data of the Connect
dialog do not reach the first one; timers are counted to tell none from some, and
two so that a second chain is seen to do no harm. In `ServerCopy` a walk is two
directories deep, with an entry before and after the one that fails; two blocks
are a shorter file, an equal one and half a transfer; the trees found in `%TEMP%`
and in the target have a file, a shorter file, a directory in a file's place and
nothing. In `CommandExec` four chunks outnumber the messages the queue holds, so that
each of them may be lost, taken early or announced twice. In `Profiles` two connections are one
that is changed and one that must not be, and deleting the first moves the second.

The type invariants of `FileTransfer`, `TransferDialog`, `PanelFS`, `ServerCopy`,
`CommandExec` and `Profiles` are stated beside the variables and are part of no run; all of
them are proved.

## 4. Fairness

`TransferWorker`: weak fairness of the thread (Windows schedules it; libssh2's
calls end by the session's timeout; a conflict dialog is answered, and so are the
questions `Connect` asks),
of the return of `_beginthreadex`, and of the steps of `Stop` but not of
`StopTerminates`, so that `StopEnds` says the thread ends without it (in time of
its own: a socket operation may take 60 s, `sftpconn.cpp:195`, and `Stop` waits
for 5 s, so that `StopTerminates` stays possible wherever the thread is). The user
stops clicking at some point: each `Cancel` signals `WakeEvent` again, and
somebody who clicks for ever every 200 ms would keep an idle thread from its
timeout. Nobody has to call anything.

`TransferDialog`: weak fairness of what the dialog's thread has begun, of the
worker's last step and of the main thread inside `Start` and `ShowFromBackground`;
strong fairness of the handling of a posted message, which Windows hands out
before `WM_TIMER` and in order, however many timer messages come. The user, and
an idle main thread, need do nothing; the transfer itself need not end.

`PanelFS`: weak fairness of the chain of calls. They run on the main thread, which
does not stop in the middle: network operations end by their timeout, message
boxes are answered. Nothing is assumed of the user, the peer or the timer, and the
server may answer differently each time.

`CommandExec`: weak fairness of the thread (a read does not block, the calls that
do end by the session's timeout) and of the main thread's handling of messages.
Nothing is assumed of the user or the server: the command may write for ever, or
never, and the questions of `Connect` in this thread (a host key,
`sftpconn.cpp:406`, and keyboard-interactive prompts, `sftpconn.cpp:464`) may wait for
ever (`UserAnswers` is no fair step): `StopIsHeard` says so.

`Connection`, `FileTransfer`, `ServerCopy` and `Profiles` have safety properties
only.

## 5. Proofs

`TransferWorker_proofs` proves for every number of tasks, every choice of
directories and moves, and with or without late calls of `EnqueueTask` (the
assumption `WorkerAssumption` only says what the constants are):
`TypeCorrect`, `InOrder`, `OwnSlot`, `NothingLost`, `QuietFinish`, `FinishedOnce`,
`AtMostOneMoreBlock`, and `Refinement`: the worker implements `TransferJob`.

All follow from one inductive invariant, `IndInv` (theorem `Invariance`), since
none of the properties is inductive: that the task reports into its own slot
depends on how the counter `CurrentTaskIndex` follows the queue. Its parts:

- `QueueIsSuffix`: the queue holds the last tasks of `AllTasks`, in order;
- `CursorFollowsQueue`: where the thread is determines the difference between
  `CurrentTaskIndex` and the number of tasks popped, and `currentTask` and
  `taskIdx` are that number; only a task dropped by a cancel is popped and never
  counted;
- `ItemFollowsCursor`: `CurrentItemIndex`, counted in another critical section,
  agrees with `CurrentTaskIndex`;
- `StatusFollowsCursor`: done before the cursor, waiting after it, and at the
  cursor what the position of the thread says;
- `FlagsFollowThread`: what `started`, the handle, the events and the message
  count say about the thread, in particular that the loop is left without an
  error and without a cancel only after a last look that found the queue empty;
- `OverrunIsHeld`: after a block was moved against the user's will, the thread
  is on its way to a wait or a check it cannot pass.

The proof that a step preserves `IndInv` has one lemma per group of actions.

`FileTransfer_proofs` proves for files of any length (`FileAssumption`:
`MaxBlocks` is a positive number): `TypeCorrect`, `InterruptedIsResumable`,
`TransferredIsExact`, `DownloadLeavesNoGhost`, `ProgressAddsUp` and
`OverwriteIsSettled`, which are the properties of the run `file`. Here too one
inductive invariant carries all of them, with a lemma for each action:

- `SizesAreKnown`: every size the code works with is that of the source, that of
  the file in the way, or 0, and the resume offset is the second or 0;
- `OnlyTargetTouched`: nothing changes before the target is opened, and nothing
  but the target after that;
- `CopyIsCounted`: in the loop, if the resume was sound, the target holds exactly
  the blocks that were counted. This is the heart of it: a resume starts with the
  count equal to the length, since the offset is the length, and each turn adds
  one block to both; a turn that fails in the middle adds the right block
  uncounted, after which the loop is left; a close that loses blocks loses them
  from the end, so that what is left is still a beginning (`EndMissing`);
- `SettledFirst`: the thread cannot get past the question with an existing target
  unless there was an answer, the fallback or a failed `stat`;
- `ProgressFollowsCopy`: the sum of the differences since the file was begun is
  the last value reported, which is what was copied.

`SoundResume` (the offset belongs to this name, and what was there is a beginning
of the source), `lost`, `unwritten` and `ReportsUnusedOffset` name the cases in which the code
does something else; they are hypotheses of the properties, not of the model,
which has these cases; the run `file_resume` is in one of them.

`Connection_proofs` proves for any number of connections, servers, hosts and keys
(`ConnectionAssumption` says what the constants are): `TypeCorrect`,
`OnlyTrustedServers` and `UndisturbedFileIsRight`. The invariant:

- `OnlySaved`: nothing is in the file, nor in a list, but what the user has asked
  to save; with it a match earns trust even in a file that two threads have mixed;
- `QuestionFits`: what the user is shown is what the list says, so that the line
  replaced is one that contradicts the new key;
- `FreshCopy`, `WriterSpoils`, `WriterIsFresh`: a copy that is not stale is the
  file, and while one connection writes there is no such copy elsewhere;
- `PendingIsExpected`: a fresh list that is about to be written is what the file
  should be. It needs that a type has one line per host, which is where
  `SavedWhenAlone` itself is used.

`disturbed` is the proviso of `SavedWhenAlone`: a stale or failed read written
back, a thread terminated in the middle of the save, an `fopen`, `fwrite` or
`fclose` that failed. The model takes all of these steps; after one of them the
file may have lost what was saved, which then has to be asked again.

`CommandExec_proofs` proves for an output of any number of chunks and a message
queue of any length (`ExecAssumption`: `MaxChunks` is a number, `QueueLimit` a
positive one): `TypeCorrect`, `ContextOutlivesThread`, `NothingReadIsLost` and
`CompletedIsTold`, which are `TypeOK` and the three invariants of the run `exec`.
The inductive invariant, with one lemma per action:

- `ChunksAreCounted`: the edit control holds the first chunks, `pendingChunks`
  the next ones, and what was read and what has arrived is all that was sent;
- `MessagesFit`: the window's messages are in the queue only while it is open,
  and `EXEC_DONE` only after the thread has posted it. Without it nothing says
  why a dialog that has seen `EXEC_DONE` may be destroyed;
- `ThreadFitsWindow`: a thread that still uses the context has an open, running
  dialog, and one that no longer runs has shown all that was read;
- `SuccessIsEarned`: the loop is left, and success reported, only after a cancel
  or at an end with nothing left in either stream.

`PanelFS_proofs` proves for any number of file systems, servers and names, paths of
any length and any number of timers (`PanelAssumption`: only that the value for
"none" is none of them): `TypeCorrect`, `NoOtherServer`, `AlwaysKeptAlive` and
`FocusIsRight`. The invariant adds to the three properties:

- `CallIsMade`, `OpenHasPath`: Salamander is inside a call of one file system, which
  is the only open one that may have no path yet. `KeptAlive` needs it, since path
  and timer are set together, where the loop of `ChangePath` arrives;
- `DialogIsServed`: while the data of the Connect dialog are there, the file system
  called is a new one or has taken them over. This is why a reconnect in the same
  call cannot lead to another server than the profile names;
- `FocusFits`: the name to focus is what was cut off first from the path asked for.

`ServerCopy_proofs` proves for trees of any shape and size, with links to anywhere,
for any selection, files of any length and any number of entries missed by a listing:
`TypeCorrect`, `MoveLosesNothing`, `OnlyTheSelectedGoes`, `OverwritesAreAgreed`,
`TempHoldsNothing` and `SyncReportsTheTruth`. `TreeAssumption` says what the constants
are, that whatever lies in `%TEMP%` at the start is a tree, and that what another
client adds is a file, at a free name. The argument goes along the walks:

- `OpFits`, `ItemsFit`, `StackFits`: a walk stays below the item it was called for,
  and the items of the panel's directory have nothing in common;
- `PanelFits`, `LinksFit`, `SeenFits`, `LateFits`: an item is as it was until its own
  deletion begins, so that what was listed can be compared with what is copied;
- `DownFits`, `UpFits`, `ArrivedFits`: a file that was listed is still to be visited,
  by this directory's loop or one further up the stack, or it has got where it should.
  At the end of a walk the stack is empty, and all of them have. `MoveKeepsData`
  is this at the moment of the deletion;
- `TempFits`, `DiskIsTree`: an item that is done with has left nothing on the disk;
- `AnswersFit`: an "all" that is in force was answered in this operation, and not in
  the one before, from which the globals come.

`Stable` excludes the operations whose target is the panel's directory itself. The
attempt to prove the type of `pc` showed that `Return` did not say which case of its
`CASE` comes first when a synchronisation ends; its cases are now disjoint.

`Profiles_proofs` proves for any number of connections and folders and any names
(`ProfilesAssumption`: the limits are numbers, a host is not a name the user gives,
the empty name is no folder): `TypeCorrect`, `NothingIsForgotten`, `AllAreListed` and
`SaveIsOnTarget`. The invariant:

- `SavingFits`, `KeysExist`, `RegistryFits`: how far `SaveConfiguration` is determines
  which keys are up to date. Only the last key below the count can be missing,
  after a process was killed between the count and its key; `LoadServers` skips it.
  After a deletion nothing is claimed until its save has passed a key again;
- `RowsFit`, `ListFits`: the rows show connections that exist, and all of them, except
  while a deletion is saved;
- `HighlightFits`: unless `stray`, the row that is highlighted is that of the fields,
  and Rename and Save, which will highlight one after their save, have changed that
  profile. Without it the index `FocusList` takes could be any;
- `FoldersFit`: no folder is twice in the list, in any case, in memory or in the
  registry. Without it a connection could have two rows.

What the three loops compute (`LoadReads`, `FoldersAreAdded`, `AmongFits`) and what
`FlattenSeq` makes of the rows (`AllRowsFit`) is proved by induction over their turns.
The induction is that of `WellFoundedInduction`, used in a form without predicates:
the numbers for which a claim fails are a set, which has a least member (`LeastNumber`,
`Induction`), and a function with the recursion of the loop exists (`Recursion`).

`TransferDialog_proofs` proves `TypeCorrect`, `UseNeedsNoLock`, `WorkerOutlivesThread`,
`ListIsUpToDate`, `NoWorkerIsLeft` and `FailureIsSeen`, which state `TypeOK` and the five
invariants of the run `dialog`. The module has no parameter, so that TLC's visit of
every state is complete as well; what the proof adds is the reason. No lock protects
the `Worker` pointer, and none of the five is inductive: what protects it is the order
of events, which the invariant spells out, with a lemma for each action:

- `WindowFits`, `StartFits`: the places of the main thread, of the dialog's thread and
  of the window fit, and before `Start` there is no worker's thread, no handle and no
  message;
- `MessageFits`, `ClosedIsFinished`: the FINISHED message is the last thing the worker's
  thread does, and the window is only closed when it was handled. Together they say why
  `WM_DESTROY` may delete the worker although `Start` has not yet stored the handle that
  `Stop` would wait for;
- `HandleFits`: a running thread has its handle or `Start` has not returned, so that the
  destructor of the file system, which the same main thread runs, can wait for it;
- `OwnerFits`, `DetachFits`: a worker that is alive belongs to the dialog that points to
  it or to the thread that is detaching it; as long as the main thread does not close
  the file system, the dialog with an open window keeps it. This is what makes the
  pointer read before a step good after it, and why nobody leaks it;
- `ListFits`: a dialog on the list knows its file system, and cannot go without it;
- `ShownFits`: after the FINISHED handler an error is in sight, but for the moment in which
  the handler is between the snapshot and `ShowFromBackground`.

`CrashNeedsMain` says nothing of the places where the main thread gives up, is inside
`Start`, shows the dialog or closes the file system. There the code does follow freed
pointers: `dialog_closing` shows it for the last one.

Only model-checked: the liveness properties (`StopEnds`,
`CancelEndsUnlessPaused`, `EndIsSeen`, `CallsEnd`, `StopIsHeard`), since fairness and
ENABLED are out of the prover's reach. Every safety property that a passing run checks
is also proved.

## 6. Not modelled

Modelled, in this order: the worker (threads and the task list), the bytes of a file,
the life of the dialog, the connections with `known_hosts`, the panel's paths, the
operations of the main thread on trees, commands, the saved connections. What could
come next:

1. Two dialogs of one panel in `TransferDialog`: `ActiveTransferDlgs` is a vector
   without a lock, changed by the main thread (`RegisterTransferDlg`) and by the thread
   of each dialog (`UnregisterTransferDlg`). The model has one dialog, whose entry is a
   flag changed in one step; that two threads change the vector at once is seen by no
   property.
2. The path functions of `sftpglue.cpp` against a reference definition. They are
   pure functions of text that unit tests reach (`src/test`).

Not modelled on purpose: layout and texts of dialogs, dark mode, the
archiver, viewer and thumbnail code left over from the demo plugin, options and
menus, the cryptography of PPK files, and the vendored libraries. libssh2 and the
headers of OpenSSL are most of the lines under `src/`; they are other projects'
code, and appear as the outcomes of network steps, except for the three functions
of `libssh2/knownhost.c` that decide whom the plugin trusts. `QuickRename`,
`CreateDir`, `ChangeAttributes` and `ViewFile` are single calls of the connection
with a message when they fail: there is nothing in them a run could find.
