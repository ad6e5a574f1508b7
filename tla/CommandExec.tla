----------------------------- MODULE CommandExec -----------------------------
(***************************************************************************)
(* A command run on the server, with its output shown as it comes          *)
(* (src/src/dialogs.cpp, CSftpConnection::ExecCommandStream).              *)
(*                                                                         *)
(* The dialog is modeless and belongs to the main thread.  A thread of its *)
(* own connects, runs the command and reads both of its streams.  The two  *)
(* share a context: the thread appends chunks to pendingChunks and posts a *)
(* message for each; the dialog takes all that are there when a message    *)
(* comes, and frees the context when its window is destroyed.  Both look   *)
(* at cancelRequested and isRunning without a lock.                        *)
(***************************************************************************)
EXTENDS Naturals, FiniteSets, Sequences

CONSTANTS
  MaxChunks,   \* bound: the chunks of output a command writes
  QueueLimit   \* the messages that may be posted to the main thread

ASSUME ExecAssumption == MaxChunks \in Nat /\ QueueLimit \in Nat \ {0}

VARIABLES
  dlg,              \* the window: "none", "open", or "closing" in WM_NCDESTROY
  ctx,              \* the context: "none", "alive" or "freed"
  isRunning, cancelRequested, pendingChunks, success,    \* fields of the context
  thread,           \* where the thread is
  got,              \* one of the reads of this turn has given data
  queue,            \* the messages posted to the main thread, those of other windows too
  shown,            \* the chunks in the edit control
  text,             \* what was written instead of output: "none", "failed", "completed"
  arrived,          \* for each stream, the chunks that have come and are not read
  sent,             \* the chunks the command has written
  server,           \* the other end: "up", "eof" (the command is over) or "broken"
  \* Observation only.
  read,             \* the chunks the thread has read
  killedAt,         \* where the thread was when it was terminated
  lost              \* EXEC_DONE could not be posted

ctxVars == <<isRunning, cancelRequested, pendingChunks, success>>
dlgVars == <<dlg, ctx, shown, text>>
netVars == <<arrived, sent, server>>
vars == <<dlgVars, ctxVars, thread, got, queue, netVars, read, killedAt, lost>>

Streams == {"out", "err"}
Working == {"connect", "ask", "open", "check", "out", "err", "eof", "free", "post"}
Started == Working \ {"connect", "ask", "open"}
Over == {"none", "ended", "killed"}

\* The type of every variable; the thread is somewhere only while it is alive.
TypeOK ==
  /\ dlg \in {"none", "open", "closing"} /\ ctx \in {"none", "alive", "freed"}
  /\ isRunning \in BOOLEAN /\ cancelRequested \in BOOLEAN /\ success \in BOOLEAN
  /\ thread \in Working \cup Over \cup {"drop"}
  /\ got \in BOOLEAN /\ lost \in BOOLEAN
  /\ queue \in Seq({"append", "done", "other"}) /\ Len(queue) <= QueueLimit
  /\ pendingChunks \in Seq(1 .. MaxChunks) /\ shown \in Seq(1 .. MaxChunks)
  /\ text \in {"none", "failed", "completed"}
  /\ arrived \in [Streams -> 0 .. MaxChunks] /\ sent \in 0 .. MaxChunks
  /\ server \in {"up", "eof", "broken"}
  /\ read \in 0 .. MaxChunks /\ killedAt \in Working \cup {"none", "drop"}

Init ==
  /\ dlg = "none" /\ ctx = "none" /\ shown = <<>> /\ text = "none"
  /\ isRunning = FALSE /\ cancelRequested = FALSE /\ pendingChunks = <<>> /\ success = FALSE
  /\ thread = "none" /\ got = FALSE /\ queue = <<>>
  /\ arrived = [s \in Streams |-> 0] /\ sent = 0 /\ server = "up"
  /\ read = 0 /\ killedAt = "none" /\ lost = FALSE

-----------------------------------------------------------------------------
(* The server                                                              *)

\* The command writes a chunk to one of its streams.
Writes(s) ==
  /\ thread \in Started /\ server = "up" /\ sent < MaxChunks
  /\ sent' = sent + 1 /\ arrived' = [arrived EXCEPT ![s] = @ + 1]
  /\ UNCHANGED <<dlgVars, ctxVars, thread, got, queue, server, read, killedAt, lost>>

\* The command ends, or the connection breaks: what has come can still be read.
ServerStops ==
  /\ thread \in Started /\ server = "up"
  /\ server' \in {"eof", "broken"}
  /\ UNCHANGED <<dlgVars, ctxVars, thread, got, queue, arrived, sent, read, killedAt, lost>>

-----------------------------------------------------------------------------
(* The thread                                                              *)

\* PostMessage fails when the queue is full, and when the window is gone.
Post(msg) ==
  queue' = IF dlg = "open" /\ Len(queue) < QueueLimit THEN Append(queue, msg) ELSE queue

threadFrame == <<dlgVars, isRunning, cancelRequested, killedAt>>

\* Mutant of Connect: a connection that fails is not reported as a failure.
ConnectUnchecked ==
  /\ thread = "connect"
  /\ \/ thread' \in {"open", "ask"} /\ UNCHANGED success
     \/ thread' = "post" /\ success' = TRUE
  /\ UNCHANGED <<threadFrame, pendingChunks, got, queue, netVars, read, lost>>

\* A connection of its own.  The sockets have time limits, but Connect may stop
\* to ask the user: about a host key, which is asked once, or what a server of
\* keyboard-interactive authentication wants to know, as often as it wants.
Connect ==
  /\ thread = "connect"
  /\ \/ thread' \in {"open", "ask"} /\ UNCHANGED success
     \/ thread' = "post" /\ success' = FALSE
  /\ UNCHANGED <<threadFrame, pendingChunks, got, queue, netVars, read, lost>>

\* The user answers, some time or never; Connect goes on or fails.
UserAnswers ==
  /\ thread = "ask" /\ thread' = "connect"
  /\ UNCHANGED <<threadFrame, pendingChunks, success, got, queue, netVars, read, lost>>

\* ExecCommandStream opens a channel and starts the command.
Open ==
  /\ thread = "open"
  /\ \/ thread' = "check" /\ UNCHANGED success
     \/ thread' = "post" /\ success' = FALSE
  /\ UNCHANGED <<threadFrame, pendingChunks, got, queue, netVars, read, lost>>

\* Mutant of Check: only the command's end ends the loop.
CheckEndOnly ==
  /\ thread = "check" /\ thread' = "out"
  /\ got' = FALSE
  /\ UNCHANGED <<threadFrame, pendingChunks, success, queue, netVars, read, lost>>

\* The condition of the loop.
Check ==
  /\ thread = "check"
  /\ thread' = IF cancelRequested THEN "free" ELSE "out"
  /\ got' = FALSE
  /\ UNCHANGED <<threadFrame, pendingChunks, success, queue, netVars, read, lost>>

\* One read that does not block, and SftpExecStreamCallback with what it gave.
\* It may give nothing though there is something; an error is taken for nothing.
Read(s) ==
  /\ thread = s
  /\ thread' = IF s = "out" THEN "err" ELSE "eof"
  /\ \/ /\ arrived[s] > 0
        /\ arrived' = [arrived EXCEPT ![s] = @ - 1]
        /\ read' = read + 1
        /\ pendingChunks' = Append(pendingChunks, read')
        /\ Post("append")
        /\ got' = TRUE
     \/ UNCHANGED <<arrived, read, pendingChunks, queue, got>>
  /\ UNCHANGED <<threadFrame, success, sent, server, lost>>

\* libssh2_channel_eof: the end has come and nothing is left to read.
Eof ==
  /\ thread = "eof"
  /\ thread' = IF server = "eof" /\ arrived = [s \in Streams |-> 0] /\ ~got THEN "free" ELSE "check"
  /\ UNCHANGED <<threadFrame, pendingChunks, success, got, queue, netVars, read, lost>>

\* The channel is freed and the connection closed: a success, also when the
\* loop has ended by a cancel.
FreeChannel ==
  /\ thread = "free" /\ thread' = "post"
  /\ success' = TRUE
  /\ UNCHANGED <<threadFrame, pendingChunks, got, queue, netVars, read, lost>>

PostDone ==
  /\ thread = "post" /\ thread' = "drop"
  /\ Post("done") /\ lost' = (queue' = queue)
  /\ UNCHANGED <<threadFrame, pendingChunks, success, got, netVars, read>>

\* The connection is closed by now, by Connect itself where it fails.  Its
\* destructor, which frees its strings, runs after the message is posted.
Drop ==
  /\ thread = "drop" /\ thread' = "ended"
  /\ UNCHANGED <<threadFrame, pendingChunks, success, got, queue, netVars, read, lost>>

-----------------------------------------------------------------------------
(* The dialog                                                              *)

\* ShowCommandExecDialog and WM_INITDIALOG: isRunning is set whether or not
\* there is a thread.
InitDialog ==
  /\ dlg' = "open" /\ ctx' = "alive" /\ shown' = <<>> /\ text' = "none"
  /\ isRunning' = TRUE /\ cancelRequested' = FALSE /\ pendingChunks' = <<>> /\ success' = FALSE
  /\ thread' \in {"connect", "none"}
  /\ got' = FALSE /\ UNCHANGED queue
  /\ arrived' = [s \in Streams |-> 0] /\ sent' = 0 /\ server' = "up"
  /\ read' = 0 /\ killedAt' = "none" /\ lost' = FALSE

\* A command line, or Enter on an executable file.  Nothing is left when the
\* window cannot be created.
ExecuteCommandLine == dlg = "none" /\ thread \in Over /\ InitDialog

\* What WM_USER_APPEND_TEXT does.
AppendPending == shown' = shown \o pendingChunks /\ pendingChunks' = <<>>

\* Another window of the main thread is sent a message, and handles it.
PostOther ==
  /\ Len(queue) < QueueLimit /\ queue' = Append(queue, "other")
  /\ UNCHANGED <<dlgVars, ctxVars, thread, got, netVars, read, killedAt, lost>>

TakeOther ==
  /\ dlg # "closing" /\ queue # <<>> /\ Head(queue) = "other" /\ queue' = Tail(queue)
  /\ UNCHANGED <<dlgVars, ctxVars, thread, got, netVars, read, killedAt, lost>>

AppendText ==
  /\ dlg = "open" /\ queue # <<>> /\ Head(queue) = "append"
  /\ queue' = Tail(queue)
  /\ AppendPending
  /\ UNCHANGED <<dlg, ctx, text, isRunning, cancelRequested, success, thread, got,
                 netVars, read, killedAt, lost>>

\* Mutant of Flush: what no message has announced is not shown.
NoFlush == UNCHANGED <<shown, pendingChunks>>

\* The rest is flushed first: some messages may not have been posted.
Flush == AppendPending

ExecDone ==
  /\ dlg = "open" /\ queue # <<>> /\ Head(queue) = "done"
  /\ queue' = Tail(queue)
  /\ Flush
  /\ isRunning' = FALSE
  /\ text' = IF shown' # <<>> THEN text ELSE IF success THEN "completed" ELSE "failed"
  /\ UNCHANGED <<dlg, ctx, cancelRequested, success, thread, got, netVars, read, killedAt, lost>>

\* The messages of a window go with it; those of others stay.
OfOthers(q) == [i \in 1 .. Cardinality({j \in DOMAIN q : q[j] = "other"}) |-> "other"]

\* Mutant of Click: the window is destroyed though the command is running.
ClickAnyway ==
  /\ dlg = "open"
  /\ cancelRequested' = TRUE /\ dlg' = "closing" /\ queue' = OfOthers(queue)
  /\ UNCHANGED <<ctx, isRunning, shown, text, pendingChunks, success, thread, got,
                 netVars, read, killedAt, lost>>

\* The button, Escape or the window's close box: while the command is running,
\* a request to stop; else DestroyWindow, which ends in WM_NCDESTROY.
Click ==
  /\ dlg = "open"
  /\ cancelRequested' = (cancelRequested \/ isRunning \/ thread # "none")
  /\ IF isRunning THEN UNCHANGED <<dlg, queue>> ELSE dlg' = "closing" /\ queue' = OfOthers(queue)
  /\ UNCHANGED <<ctx, isRunning, shown, text, pendingChunks, success, thread, got,
                 netVars, read, killedAt, lost>>

\* WM_NCDESTROY waits half a second for the thread and then terminates it.
NcDestroy ==
  /\ dlg = "closing"
  /\ killedAt' = (IF thread \in Over THEN "none" ELSE thread)
  /\ thread' = (IF thread \in Over THEN thread ELSE "killed")
  /\ dlg' = "none" /\ ctx' = "freed"
  /\ UNCHANGED <<shown, text, ctxVars, got, queue, netVars, read, lost>>

Worker ==
  \/ Connect \/ Open \/ Check \/ Eof \/ FreeChannel \/ PostDone \/ Drop
  \/ \E s \in Streams : Read(s)
Messages == AppendText \/ ExecDone \/ NcDestroy \/ TakeOther

Next ==
  \/ Worker \/ Messages \/ ExecuteCommandLine \/ Click \/ UserAnswers \/ PostOther
  \/ ServerStops \/ \E s \in Streams : Writes(s)

\* The thread runs, the network calls end within their time limits, and the
\* main thread handles its messages.  Nothing is assumed of the user, who may leave
\* a question unanswered, or of the server.
Fairness == WF_vars(Worker) /\ WF_vars(Messages)
Spec == Init /\ [][Next]_vars /\ Fairness

-----------------------------------------------------------------------------
(* Properties                                                              *)

\* While the thread uses the context, WM_NCDESTROY has not freed it; and the
\* thread is terminated, if at all, only when it has posted EXEC_DONE, so not in
\* a read or in the critical section of the context.
ThreadIsSafe ==
  /\ thread \in Working => ctx = "alive"
  /\ killedAt \in {"none", "drop"}

\* Between the edit control and pendingChunks nothing that was read is lost,
\* doubled or out of order; and when the dialog says that the command is over,
\* all that was read is shown, and all that the command has written unless it
\* was stopped.
OutputIsWhole ==
  /\ shown \o pendingChunks = [i \in 1 .. read |-> i]
  /\ dlg = "open" /\ ~isRunning =>
       Len(shown) = read /\ (success /\ ~cancelRequested => read = sent)

\* "(command completed with no output)" is said only of a command that has
\* ended and has written nothing, or that the user has stopped.
CompletedIsTrue ==
  text = "completed" => cancelRequested \/ (server = "eof" /\ sent = 0)

\* A request to stop is followed by a dialog that can be closed, also when the
\* connection is broken or the server never stops writing, unless the thread
\* was not created, a question of Connect waits for the user (every answer
\* renews the promise), or the queue was full when the thread ended.
StopIsHeard == cancelRequested /\ thread # "none" ~> ~isRunning \/ lost \/ thread = "ask"

=============================================================================
