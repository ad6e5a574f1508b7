------------------------ MODULE CommandExec_proofs ------------------------
(***************************************************************************)
(* Theorems about CommandExec, for any number of chunks and any length of  *)
(* the message queue.                                                      *)
(***************************************************************************)
EXTENDS CommandExec, FiniteSetTheorems, TLAPS

-----------------------------------------------------------------------------
(* The inductive invariant                                                 *)

\* The chunks are counted: those in the edit control, then those pending, and
\* what was read and what has arrived is what the command has sent.
ChunksAreCounted ==
  /\ Len(shown) + Len(pendingChunks) = read
  /\ \A i \in 1 .. Len(shown) : shown[i] = i
  /\ \A i \in 1 .. Len(pendingChunks) : pendingChunks[i] = Len(shown) + i
  /\ arrived["out"] + arrived["err"] + read = sent

\* The window's messages are in the queue only while it is open, and EXEC_DONE
\* only when the thread has posted it.
MessagesFit ==
  /\ dlg # "open" => \A i \in 1 .. Len(queue) : queue[i] = "other"
  /\ \A i \in 1 .. Len(queue) : queue[i] = "done" => thread \in {"drop", "ended"}

\* Where the window is says where the thread may be.
ThreadFitsWindow ==
  /\ dlg # "none" => ctx = "alive"
  /\ thread \in Working => dlg = "open" /\ isRunning
  /\ dlg = "open" /\ ~isRunning => thread \in {"drop", "ended"} /\ Len(shown) = read
  /\ dlg = "closing" => thread \in {"drop", "ended"}
  /\ killedAt \in {"none", "drop"}

\* A loop that was left, and a success, mean a cancel or an end with nothing left
\* to read.
Ended == cancelRequested \/ (server = "eof" /\ arrived["out"] = 0 /\ arrived["err"] = 0)
SuccessIsEarned ==
  /\ thread = "free" => Ended
  /\ success => Ended /\ thread \in {"post", "drop", "ended", "killed"}

IndInv ==
  /\ TypeOK
  /\ ChunksAreCounted
  /\ MessagesFit
  /\ ThreadFitsWindow
  /\ SuccessIsEarned
  /\ CompletedIsTrue

-----------------------------------------------------------------------------
(* Sequences and the queue                                                 *)

\* What remains of the queue are messages of others, and not more than before.
LEMMA OfOthersIs ==
  ASSUME NEW q \in Seq({"append", "done", "other"})
  PROVE  /\ OfOthers(q) \in Seq({"append", "done", "other"})
         /\ Len(OfOthers(q)) <= Len(q)
         /\ \A i \in 1 .. Len(OfOthers(q)) : OfOthers(q)[i] = "other"
<1> DEFINE S == {j \in DOMAIN q : q[j] = "other"}
           n == Cardinality(S)
<1>1. Len(q) \in Nat /\ DOMAIN q = 1 .. Len(q)
  OBVIOUS
<1>2. IsFiniteSet(1 .. Len(q)) /\ Cardinality(1 .. Len(q)) = Len(q)
  BY <1>1, FS_Interval
<1>3. S \in SUBSET (1 .. Len(q))
  BY <1>1
<1>4. IsFiniteSet(S) /\ n <= Len(q)
  BY <1>2, <1>3, FS_Subset
<1>5. n \in Nat
  BY <1>4, FS_CardinalityType
<1>6. OfOthers(q) = [i \in 1 .. n |-> "other"]
  BY DEF OfOthers
<1> HIDE DEF n
<1> QED
  BY <1>4, <1>5, <1>6

\* A message that is posted is the last one of the queue, or lost.
LEMMA PostIs ==
  ASSUME TypeOK, NEW msg \in {"append", "done", "other"}, Post(msg)
  PROVE  /\ queue' \in Seq({"append", "done", "other"}) /\ Len(queue') <= QueueLimit
         /\ \A i \in 1 .. Len(queue') :
              queue'[i] = msg \/ (i \in 1 .. Len(queue) /\ queue'[i] = queue[i])
         /\ dlg # "open" => queue' = queue
<1>1. queue \in Seq({"append", "done", "other"}) /\ Len(queue) <= QueueLimit /\ QueueLimit \in Nat
  BY ExecAssumption DEF TypeOK
<1>2. CASE dlg = "open" /\ Len(queue) < QueueLimit
  <2>1. queue' = Append(queue, msg)
    BY <1>2 DEF Post
  <2> QED
    BY <1>1, <1>2, <2>1
<1>3. CASE ~(dlg = "open" /\ Len(queue) < QueueLimit)
  <2>1. queue' = queue
    BY <1>3 DEF Post
  <2> QED
    BY <1>1, <2>1
<1> QED
  BY <1>2, <1>3

\* Taking the first message leaves the others.
LEMMA TailIs ==
  ASSUME NEW q \in Seq({"append", "done", "other"}), q # <<>>
  PROVE  /\ Tail(q) \in Seq({"append", "done", "other"}) /\ Len(Tail(q)) <= Len(q)
         /\ \A i \in 1 .. Len(Tail(q)) : i + 1 \in 1 .. Len(q) /\ Tail(q)[i] = q[i + 1]
         /\ 1 \in 1 .. Len(q) /\ Head(q) = q[1]
OBVIOUS

\* AppendPending moves all of the chunks.
LEMMA AppendPendingIs ==
  ASSUME TypeOK, ChunksAreCounted, AppendPending
  PROVE  /\ shown' \in Seq(1 .. MaxChunks) /\ pendingChunks' \in Seq(1 .. MaxChunks)
         /\ Len(shown') = read /\ Len(pendingChunks') = 0
         /\ \A i \in 1 .. Len(shown') : shown'[i] = i
<1>1. /\ shown \in Seq(1 .. MaxChunks) /\ pendingChunks \in Seq(1 .. MaxChunks)
      /\ Len(shown) \in Nat /\ Len(pendingChunks) \in Nat
      /\ Len(shown) + Len(pendingChunks) = read
  BY DEF TypeOK, ChunksAreCounted
<1>2. shown' = shown \o pendingChunks /\ pendingChunks' = <<>>
  BY DEF AppendPending
<1>3. shown' \in Seq(1 .. MaxChunks) /\ Len(shown') = Len(shown) + Len(pendingChunks)
  BY <1>1, <1>2
<1>4. pendingChunks' \in Seq(1 .. MaxChunks) /\ Len(pendingChunks') = 0
  BY <1>2
<1>5. ASSUME NEW i \in 1 .. Len(shown') PROVE shown'[i] = i
  <2>1. CASE i <= Len(shown)
    <3>1. i \in 1 .. Len(shown) /\ shown'[i] = shown[i]
      BY <1>1, <1>2, <1>3, <2>1
    <3> QED
      BY <3>1 DEF ChunksAreCounted
  <2>2. CASE i > Len(shown)
    <3>1. i - Len(shown) \in 1 .. Len(pendingChunks)
      BY <1>1, <1>3, <2>2
    <3>2. shown'[i] = pendingChunks[i - Len(shown)]
      BY <1>1, <1>2, <1>3, <2>2
    <3>3. pendingChunks[i - Len(shown)] = Len(shown) + (i - Len(shown))
      BY <3>1 DEF ChunksAreCounted
    <3>4. i \in Nat
      OBVIOUS
    <3> QED
      BY <1>1, <3>2, <3>3, <3>4
  <2> QED
    BY <1>1, <1>3, <2>1, <2>2
<1> QED
  BY <1>1, <1>3, <1>4, <1>5

-----------------------------------------------------------------------------
(* Every step preserves the invariant                                      *)

\* The command writes.
LEMMA WritesKeeps ==
  ASSUME IndInv, NEW s \in Streams, Writes(s)
  PROVE  IndInv'
<1>1. TypeOK'
  <2>1. sent' \in 0 .. MaxChunks
    BY ExecAssumption DEF IndInv, TypeOK, Writes
  <2>2. s = "out" \/ s = "err"
    BY DEF Streams
  <2>3. arrived[s] + 1 \in 0 .. MaxChunks
    BY <2>1, <2>2, ExecAssumption DEF IndInv, TypeOK, ChunksAreCounted, Streams, Writes
  <2>4. arrived' \in [Streams -> 0 .. MaxChunks]
    BY <2>3 DEF IndInv, TypeOK, Writes
  <2> QED
    BY <2>1, <2>4 DEF IndInv, TypeOK, Working, Over, Writes, dlgVars, ctxVars
<1>2. ChunksAreCounted'
  <2>1. s = "out" \/ s = "err"
    BY DEF Streams
  <2>2. arrived'["out"] + arrived'["err"] = arrived["out"] + arrived["err"] + 1
    BY <2>1 DEF IndInv, TypeOK, Streams, Writes
  <2>3. arrived["out"] \in Nat /\ arrived["err"] \in Nat /\ read \in Nat /\ sent \in Nat
    BY ExecAssumption DEF IndInv, TypeOK, Streams
  <2>4. arrived'["out"] + arrived'["err"] + read' = sent'
    <3>1. arrived["out"] + arrived["err"] + read = sent /\ read' = read /\ sent' = sent + 1
      BY DEF IndInv, ChunksAreCounted, Writes
    <3> QED
      BY <2>2, <2>3, <3>1
  <2> QED
    BY <2>4 DEF IndInv, ChunksAreCounted, Writes, dlgVars, ctxVars
<1>3. MessagesFit'
  BY ExecAssumption DEF IndInv, TypeOK, MessagesFit, Writes, dlgVars, ctxVars, netVars, threadFrame
<1>4. ThreadFitsWindow'
  BY ExecAssumption DEF IndInv, TypeOK, ThreadFitsWindow, Working, Started, Writes, dlgVars, ctxVars, netVars, threadFrame
<1>5. SuccessIsEarned'
  BY ExecAssumption DEF IndInv, TypeOK, SuccessIsEarned, Ended, Working, Started, Writes, dlgVars, ctxVars, netVars, threadFrame
<1>6. CompletedIsTrue'
  BY ExecAssumption DEF IndInv, TypeOK, CompletedIsTrue, SuccessIsEarned, Ended, ChunksAreCounted, Writes, dlgVars, ctxVars, netVars, threadFrame
<1> QED
  BY <1>1, <1>2, <1>3, <1>4, <1>5, <1>6 DEF IndInv

\* The server stops.
LEMMA ServerStopsKeeps ==
  ASSUME IndInv, ServerStops
  PROVE  IndInv'
<1>1. TypeOK'
  BY ExecAssumption DEF IndInv, TypeOK, Working, Over, Streams, ServerStops, dlgVars, ctxVars, netVars, threadFrame
<1>2. ChunksAreCounted'
  BY ExecAssumption DEF IndInv, TypeOK, ChunksAreCounted, ServerStops, dlgVars, ctxVars, netVars, threadFrame
<1>3. MessagesFit'
  BY ExecAssumption DEF IndInv, TypeOK, MessagesFit, ServerStops, dlgVars, ctxVars, netVars, threadFrame
<1>4. ThreadFitsWindow'
  BY ExecAssumption DEF IndInv, TypeOK, ThreadFitsWindow, Working, ServerStops, dlgVars, ctxVars, netVars, threadFrame
<1>5. SuccessIsEarned'
  BY ExecAssumption DEF IndInv, TypeOK, SuccessIsEarned, Ended, Working, ServerStops, dlgVars, ctxVars, netVars, threadFrame
<1>6. CompletedIsTrue'
  BY ExecAssumption DEF IndInv, TypeOK, CompletedIsTrue, SuccessIsEarned, Ended, ChunksAreCounted, ServerStops, dlgVars, ctxVars, netVars, threadFrame
<1> QED
  BY <1>1, <1>2, <1>3, <1>4, <1>5, <1>6 DEF IndInv

\* The connection is made, or not.
LEMMA ConnectKeeps ==
  ASSUME IndInv, Connect
  PROVE  IndInv'
<1>1. TypeOK'
  <2>1. success' \in BOOLEAN
    BY Zenon DEF IndInv, TypeOK, Connect
  <2> QED
    BY <2>1, ExecAssumption DEF IndInv, TypeOK, Working, Over, Streams, Connect, dlgVars, ctxVars, netVars, threadFrame
<1>2. ChunksAreCounted'
  BY ExecAssumption DEF IndInv, TypeOK, ChunksAreCounted, Connect, dlgVars, ctxVars, netVars, threadFrame
<1>3. MessagesFit'
  BY ExecAssumption DEF IndInv, TypeOK, MessagesFit, Connect, dlgVars, ctxVars, netVars, threadFrame
<1>4. ThreadFitsWindow'
  BY ExecAssumption DEF IndInv, TypeOK, ThreadFitsWindow, Working, Connect, dlgVars, ctxVars, netVars, threadFrame
<1>5. SuccessIsEarned'
  BY ExecAssumption DEF IndInv, TypeOK, SuccessIsEarned, Ended, Working, Connect, dlgVars, ctxVars, netVars, threadFrame
<1>6. CompletedIsTrue'
  BY ExecAssumption DEF IndInv, TypeOK, CompletedIsTrue, SuccessIsEarned, Ended, ChunksAreCounted, Connect, dlgVars, ctxVars, netVars, threadFrame
<1> QED
  BY <1>1, <1>2, <1>3, <1>4, <1>5, <1>6 DEF IndInv

\* The user answers a question of Connect.
LEMMA UserAnswersKeeps ==
  ASSUME IndInv, UserAnswers
  PROVE  IndInv'
<1>1. /\ thread = "ask" /\ thread' = "connect"
      /\ UNCHANGED <<dlgVars, ctxVars, netVars, got, queue, read, killedAt, lost>>
  BY DEF UserAnswers, threadFrame, ctxVars
<1>2. TypeOK'
  BY <1>1 DEF IndInv, TypeOK, Working, dlgVars, ctxVars, netVars
<1>3. ChunksAreCounted'
  BY <1>1 DEF IndInv, ChunksAreCounted, dlgVars, ctxVars, netVars
<1>4. MessagesFit' /\ ThreadFitsWindow' /\ SuccessIsEarned'
  BY <1>1 DEF IndInv, MessagesFit, ThreadFitsWindow, SuccessIsEarned, Ended, Working,
       dlgVars, ctxVars, netVars
<1>5. CompletedIsTrue'
  BY <1>1 DEF IndInv, CompletedIsTrue, dlgVars, ctxVars, netVars
<1> QED
  BY <1>2, <1>3, <1>4, <1>5 DEF IndInv

\* The command is started, or not.
LEMMA OpenKeeps ==
  ASSUME IndInv, Open
  PROVE  IndInv'
<1>1. TypeOK'
  <2>1. success' \in BOOLEAN
    BY Zenon DEF IndInv, TypeOK, Open
  <2> QED
    BY <2>1, ExecAssumption DEF IndInv, TypeOK, Working, Over, Streams, Open, dlgVars, ctxVars, netVars, threadFrame
<1>2. ChunksAreCounted'
  BY ExecAssumption DEF IndInv, TypeOK, ChunksAreCounted, Open, dlgVars, ctxVars, netVars, threadFrame
<1>3. MessagesFit'
  BY ExecAssumption DEF IndInv, TypeOK, MessagesFit, Open, dlgVars, ctxVars, netVars, threadFrame
<1>4. ThreadFitsWindow'
  BY ExecAssumption DEF IndInv, TypeOK, ThreadFitsWindow, Working, Open, dlgVars, ctxVars, netVars, threadFrame
<1>5. SuccessIsEarned'
  BY ExecAssumption DEF IndInv, TypeOK, SuccessIsEarned, Ended, Working, Open, dlgVars, ctxVars, netVars, threadFrame
<1>6. CompletedIsTrue'
  BY ExecAssumption DEF IndInv, TypeOK, CompletedIsTrue, SuccessIsEarned, Ended, ChunksAreCounted, Open, dlgVars, ctxVars, netVars, threadFrame
<1> QED
  BY <1>1, <1>2, <1>3, <1>4, <1>5, <1>6 DEF IndInv

\* The cancel flag is looked at.
LEMMA CheckKeeps ==
  ASSUME IndInv, Check
  PROVE  IndInv'
<1>1. TypeOK'
  <2>1. got' \in BOOLEAN
    BY Zenon DEF Check
  <2> QED
    BY <2>1, ExecAssumption DEF IndInv, TypeOK, Working, Over, Streams, Check, dlgVars, ctxVars, netVars, threadFrame
<1>2. ChunksAreCounted'
  BY ExecAssumption DEF IndInv, TypeOK, ChunksAreCounted, Check, dlgVars, ctxVars, netVars, threadFrame
<1>3. MessagesFit'
  BY ExecAssumption DEF IndInv, TypeOK, MessagesFit, Check, dlgVars, ctxVars, netVars, threadFrame
<1>4. ThreadFitsWindow'
  BY ExecAssumption DEF IndInv, TypeOK, ThreadFitsWindow, Working, Check, dlgVars, ctxVars, netVars, threadFrame
<1>5. SuccessIsEarned'
  BY ExecAssumption DEF IndInv, TypeOK, SuccessIsEarned, Ended, Working, Check, dlgVars, ctxVars, netVars, threadFrame
<1>6. CompletedIsTrue'
  BY ExecAssumption DEF IndInv, TypeOK, CompletedIsTrue, SuccessIsEarned, Ended, ChunksAreCounted, Check, dlgVars, ctxVars, netVars, threadFrame
<1> QED
  BY <1>1, <1>2, <1>3, <1>4, <1>5, <1>6 DEF IndInv

\* A chunk is read, or nothing.
LEMMA ReadKeeps ==
  ASSUME IndInv, NEW s \in Streams, Read(s)
  PROVE  IndInv'
<1>1. CASE UNCHANGED <<arrived, read, pendingChunks, queue, got>>
  <2>1. thread' \in {"err", "eof"} /\ thread \in {"out", "err"}
    BY DEF Streams, Read
  <2>2. UNCHANGED <<dlgVars, ctxVars, netVars, queue, got, read, killedAt, lost>>
    BY <1>1 DEF Read, threadFrame, dlgVars, ctxVars, netVars
  <2> QED
    BY <2>1, <2>2 DEF IndInv, TypeOK, ChunksAreCounted, MessagesFit, ThreadFitsWindow,
         SuccessIsEarned, Ended, CompletedIsTrue, Working, Over, dlgVars, ctxVars, netVars
<1>2. ASSUME arrived[s] > 0, arrived' = [arrived EXCEPT ![s] = @ - 1], read' = read + 1,
             pendingChunks' = Append(pendingChunks, read'), Post("append"), got' = TRUE
      PROVE  IndInv'
  <2>1. thread' \in {"err", "eof"} /\ thread \in {"out", "err"}
    BY DEF Streams, Read
  <2>2. UNCHANGED <<dlg, ctx, shown, text, isRunning, cancelRequested, success, sent, server,
                    killedAt, lost>>
    BY DEF Read, threadFrame, dlgVars
  <2>3. dlg = "open" /\ isRunning /\ ~success
    BY <2>1 DEF IndInv, ThreadFitsWindow, SuccessIsEarned, Working
  <2>4. /\ arrived["out"] \in Nat /\ arrived["err"] \in Nat
        /\ read \in Nat /\ sent \in Nat /\ MaxChunks \in Nat
        /\ sent <= MaxChunks /\ arrived["out"] + arrived["err"] + read = sent
    BY ExecAssumption DEF IndInv, TypeOK, ChunksAreCounted, Streams
  <2>5. s = "out" \/ s = "err"
    BY DEF Streams
  <2>6. read' \in 1 .. MaxChunks
    BY <1>2, <2>4, <2>5
  <2>7. /\ arrived' \in [Streams -> 0 .. MaxChunks]
        /\ arrived'["out"] + arrived'["err"] + read' = sent
    <3>1. arrived \in [Streams -> 0 .. MaxChunks]
      BY DEF IndInv, TypeOK
    <3>2. arrived[s] - 1 \in 0 .. MaxChunks
      <4>1. arrived[s] \in 0 .. MaxChunks
        BY <3>1
      <4>2. arrived[s] > 0
        BY <1>2
      <4> QED
        BY <2>4, <4>1, <4>2
    <3>r. read' = read + 1
      BY <1>2
    <3>3. arrived' \in [Streams -> 0 .. MaxChunks]
      BY <1>2, <3>1, <3>2
    <3>4. CASE s = "out"
      <4>1. arrived'["out"] = arrived["out"] - 1 /\ arrived'["err"] = arrived["err"]
        BY <1>2, <3>1, <3>4 DEF Streams
      <4> QED
        BY <2>4, <3>3, <3>r, <4>1
    <3>5. CASE s = "err"
      <4>1. arrived'["err"] = arrived["err"] - 1 /\ arrived'["out"] = arrived["out"]
        BY <1>2, <3>1, <3>5 DEF Streams
      <4> QED
        BY <2>4, <3>3, <3>r, <4>1
    <3> QED
      BY <2>5, <3>4, <3>5
  <2>8. /\ queue' \in Seq({"append", "done", "other"}) /\ Len(queue') <= QueueLimit
        /\ \A i \in 1 .. Len(queue') :
             queue'[i] = "append" \/ (i \in 1 .. Len(queue) /\ queue'[i] = queue[i])
    BY <1>2, PostIs DEF IndInv
  <2>9. /\ pendingChunks' \in Seq(1 .. MaxChunks)
        /\ Len(pendingChunks') = Len(pendingChunks) + 1
        /\ pendingChunks'[Len(pendingChunks) + 1] = read + 1
        /\ \A i \in 1 .. Len(pendingChunks) : pendingChunks'[i] = pendingChunks[i]
    BY <1>2, <2>6 DEF IndInv, TypeOK
  <2>10. TypeOK'
    <3>1. got' \in BOOLEAN
      BY <1>2, Zenon
    <3> QED
      BY <2>1, <2>2, <2>6, <2>7, <2>8, <2>9, <3>1 DEF IndInv, TypeOK, Working
  <2>11. ChunksAreCounted'
    <3>1. Len(shown) \in Nat /\ Len(pendingChunks) \in Nat
      BY DEF IndInv, TypeOK
    <3>2. Len(shown) + Len(pendingChunks) = read
      BY DEF IndInv, ChunksAreCounted
    <3>3. \A i \in 1 .. Len(pendingChunks') : pendingChunks'[i] = Len(shown) + i
      <4>1. TAKE i \in 1 .. Len(pendingChunks')
      <4>2. CASE i = Len(pendingChunks) + 1
        BY <2>9, <3>1, <3>2, <4>2
      <4>3. CASE i # Len(pendingChunks) + 1
        <5>1. i \in 1 .. Len(pendingChunks)
          BY <2>9, <3>1, <4>3
        <5> QED
          BY <2>9, <5>1 DEF IndInv, ChunksAreCounted
      <4> QED
        BY <4>2, <4>3
    <3>4. Len(shown) + Len(pendingChunks') = read'
      BY <1>2, <2>9, <3>1, <3>2
    <3>5. shown' = shown /\ sent' = sent
      BY <2>2
    <3> QED
      BY <2>7, <3>3, <3>4, <3>5 DEF IndInv, ChunksAreCounted
  <2>12. MessagesFit'
    BY <2>1, <2>2, <2>3, <2>8 DEF IndInv, MessagesFit
  <2>13. ThreadFitsWindow' /\ SuccessIsEarned'
    BY <2>1, <2>2, <2>3 DEF IndInv, ThreadFitsWindow, SuccessIsEarned, Working
  <2>14. CompletedIsTrue'
    BY <2>2 DEF IndInv, CompletedIsTrue
  <2> QED
    BY <2>10, <2>11, <2>12, <2>13, <2>14 DEF IndInv
<1> QED
  BY <1>1, <1>2 DEF Read

\* The end is looked for.
LEMMA EofKeeps ==
  ASSUME IndInv, Eof
  PROVE  IndInv'
<1>1. TypeOK'
  BY ExecAssumption DEF IndInv, TypeOK, Working, Over, Streams, Eof, dlgVars, ctxVars, netVars, threadFrame
<1>2. ChunksAreCounted'
  BY ExecAssumption DEF IndInv, TypeOK, ChunksAreCounted, Eof, dlgVars, ctxVars, netVars, threadFrame
<1>3. MessagesFit'
  BY ExecAssumption DEF IndInv, TypeOK, MessagesFit, Eof, dlgVars, ctxVars, netVars, threadFrame
<1>4. ThreadFitsWindow'
  BY ExecAssumption DEF IndInv, TypeOK, ThreadFitsWindow, Working, Eof, dlgVars, ctxVars, netVars, threadFrame
<1>5. SuccessIsEarned'
  <2>1. thread = "eof" /\ ~success
    BY DEF IndInv, SuccessIsEarned, Eof
  <2>2. thread' = "free" => server = "eof" /\ arrived = [s \in Streams |-> 0]
    BY DEF Eof
  <2>3. thread' = "free" => Ended
    BY <2>2 DEF Ended, Streams
  <2> QED
    BY <2>1, <2>3 DEF SuccessIsEarned, Ended, Eof, threadFrame, netVars
<1>6. CompletedIsTrue'
  BY ExecAssumption DEF IndInv, TypeOK, CompletedIsTrue, SuccessIsEarned, Ended, ChunksAreCounted, Eof, dlgVars, ctxVars, netVars, threadFrame
<1> QED
  BY <1>1, <1>2, <1>3, <1>4, <1>5, <1>6 DEF IndInv

\* The channel is freed.
LEMMA FreeChannelKeeps ==
  ASSUME IndInv, FreeChannel
  PROVE  IndInv'
<1>1. TypeOK'
  BY ExecAssumption DEF IndInv, TypeOK, Working, Over, Streams, FreeChannel, dlgVars, ctxVars, netVars, threadFrame
<1>2. ChunksAreCounted'
  BY ExecAssumption DEF IndInv, TypeOK, ChunksAreCounted, FreeChannel, dlgVars, ctxVars, netVars, threadFrame
<1>3. MessagesFit'
  BY ExecAssumption DEF IndInv, TypeOK, MessagesFit, FreeChannel, dlgVars, ctxVars, netVars, threadFrame
<1>4. ThreadFitsWindow'
  BY ExecAssumption DEF IndInv, TypeOK, ThreadFitsWindow, Working, FreeChannel, dlgVars, ctxVars, netVars, threadFrame
<1>5. SuccessIsEarned'
  BY ExecAssumption DEF IndInv, TypeOK, SuccessIsEarned, Ended, Working, FreeChannel, dlgVars, ctxVars, netVars, threadFrame
<1>6. CompletedIsTrue'
  BY ExecAssumption DEF IndInv, TypeOK, CompletedIsTrue, SuccessIsEarned, Ended, ChunksAreCounted, FreeChannel, dlgVars, ctxVars, netVars, threadFrame
<1> QED
  BY <1>1, <1>2, <1>3, <1>4, <1>5, <1>6 DEF IndInv

\* EXEC_DONE is posted.
LEMMA PostDoneKeeps ==
  ASSUME IndInv, PostDone
  PROVE  IndInv'
<1>1. TypeOK'
  <2>1. queue' \in Seq({"append", "done", "other"}) /\ Len(queue') <= QueueLimit
    BY PostIs DEF IndInv, PostDone
  <2>2. lost' \in BOOLEAN
    BY Zenon DEF PostDone
  <2> QED
    BY <2>1, <2>2 DEF IndInv, TypeOK, PostDone, threadFrame, dlgVars, netVars
<1>2. ChunksAreCounted'
  BY ExecAssumption DEF IndInv, TypeOK, ChunksAreCounted, PostDone, dlgVars, ctxVars, netVars, threadFrame
<1>3. MessagesFit'
  <2>1. dlg # "open" => queue' = queue
    BY PostIs DEF IndInv, PostDone
  <2> QED
    BY <2>1 DEF IndInv, MessagesFit, PostDone, threadFrame, dlgVars
<1>4. ThreadFitsWindow'
  BY ExecAssumption DEF IndInv, TypeOK, ThreadFitsWindow, Working, PostDone, dlgVars, ctxVars, netVars, threadFrame
<1>5. SuccessIsEarned'
  BY ExecAssumption DEF IndInv, TypeOK, SuccessIsEarned, Ended, Working, PostDone, dlgVars, ctxVars, netVars, threadFrame
<1>6. CompletedIsTrue'
  BY ExecAssumption DEF IndInv, TypeOK, CompletedIsTrue, SuccessIsEarned, Ended, ChunksAreCounted, PostDone, dlgVars, ctxVars, netVars, threadFrame
<1> QED
  BY <1>1, <1>2, <1>3, <1>4, <1>5, <1>6 DEF IndInv

\* The thread ends.
LEMMA DropKeeps ==
  ASSUME IndInv, Drop
  PROVE  IndInv'
<1>1. TypeOK'
  BY ExecAssumption DEF IndInv, TypeOK, Working, Over, Streams, Drop, dlgVars, ctxVars, netVars, threadFrame
<1>2. ChunksAreCounted'
  BY ExecAssumption DEF IndInv, TypeOK, ChunksAreCounted, Drop, dlgVars, ctxVars, netVars, threadFrame
<1>3. MessagesFit'
  BY ExecAssumption DEF IndInv, TypeOK, MessagesFit, Drop, dlgVars, ctxVars, netVars, threadFrame
<1>4. ThreadFitsWindow'
  BY ExecAssumption DEF IndInv, TypeOK, ThreadFitsWindow, Working, Drop, dlgVars, ctxVars, netVars, threadFrame
<1>5. SuccessIsEarned'
  BY ExecAssumption DEF IndInv, TypeOK, SuccessIsEarned, Ended, Working, Drop, dlgVars, ctxVars, netVars, threadFrame
<1>6. CompletedIsTrue'
  BY ExecAssumption DEF IndInv, TypeOK, CompletedIsTrue, SuccessIsEarned, Ended, ChunksAreCounted, Drop, dlgVars, ctxVars, netVars, threadFrame
<1> QED
  BY <1>1, <1>2, <1>3, <1>4, <1>5, <1>6 DEF IndInv

\* A command is begun.
LEMMA ExecuteCommandLineKeeps ==
  ASSUME IndInv, ExecuteCommandLine
  PROVE  IndInv'
<1>1. TypeOK'
  <2>1. isRunning' \in BOOLEAN /\ cancelRequested' \in BOOLEAN /\ success' \in BOOLEAN
    BY Zenon DEF ExecuteCommandLine, InitDialog
  <2>2. got' \in BOOLEAN /\ lost' \in BOOLEAN
    BY Zenon DEF ExecuteCommandLine, InitDialog
  <2>3. arrived' \in [Streams -> 0 .. MaxChunks] /\ sent' \in 0 .. MaxChunks
        /\ read' \in 0 .. MaxChunks
    BY ExecAssumption DEF ExecuteCommandLine, InitDialog
  <2> QED
    BY <2>1, <2>2, <2>3 DEF IndInv, TypeOK, Working, Over, ExecuteCommandLine, InitDialog
<1>2. ChunksAreCounted'
  <2>1. shown' = <<>> /\ pendingChunks' = <<>> /\ read' = 0 /\ sent' = 0
        /\ arrived'["out"] = 0 /\ arrived'["err"] = 0
    BY DEF ExecuteCommandLine, InitDialog, Streams
  <2> QED
    BY <2>1 DEF ChunksAreCounted
<1>3. MessagesFit'
  BY ExecAssumption DEF IndInv, TypeOK, MessagesFit, ExecuteCommandLine, InitDialog, dlgVars, ctxVars, netVars, threadFrame
<1>4. ThreadFitsWindow'
  BY ExecAssumption DEF IndInv, TypeOK, ThreadFitsWindow, Working, ExecuteCommandLine, InitDialog, dlgVars, ctxVars, netVars, threadFrame
<1>5. SuccessIsEarned'
  BY ExecAssumption DEF IndInv, TypeOK, SuccessIsEarned, Ended, Working, ExecuteCommandLine, InitDialog, dlgVars, ctxVars, netVars, threadFrame
<1>6. CompletedIsTrue'
  BY ExecAssumption DEF IndInv, TypeOK, CompletedIsTrue, SuccessIsEarned, Ended, ChunksAreCounted, ExecuteCommandLine, InitDialog, dlgVars, ctxVars, netVars, threadFrame
<1> QED
  BY <1>1, <1>2, <1>3, <1>4, <1>5, <1>6 DEF IndInv

\* Another window gets a message.
LEMMA PostOtherKeeps ==
  ASSUME IndInv, PostOther
  PROVE  IndInv'
<1>1. TypeOK'
  BY ExecAssumption DEF IndInv, TypeOK, Working, Over, Streams, PostOther, dlgVars, ctxVars, netVars, threadFrame
<1>2. ChunksAreCounted'
  BY ExecAssumption DEF IndInv, TypeOK, ChunksAreCounted, PostOther, dlgVars, ctxVars, netVars, threadFrame
<1>3. MessagesFit'
  BY ExecAssumption DEF IndInv, TypeOK, MessagesFit, PostOther, dlgVars, ctxVars, netVars, threadFrame
<1>4. ThreadFitsWindow'
  BY ExecAssumption DEF IndInv, TypeOK, ThreadFitsWindow, Working, PostOther, dlgVars, ctxVars, netVars, threadFrame
<1>5. SuccessIsEarned'
  BY ExecAssumption DEF IndInv, TypeOK, SuccessIsEarned, Ended, Working, PostOther, dlgVars, ctxVars, netVars, threadFrame
<1>6. CompletedIsTrue'
  BY ExecAssumption DEF IndInv, TypeOK, CompletedIsTrue, SuccessIsEarned, Ended, ChunksAreCounted, PostOther, dlgVars, ctxVars, netVars, threadFrame
<1> QED
  BY <1>1, <1>2, <1>3, <1>4, <1>5, <1>6 DEF IndInv

\* Another window handles a message.
LEMMA TakeOtherKeeps ==
  ASSUME IndInv, TakeOther
  PROVE  IndInv'
<1>1. TypeOK'
  BY ExecAssumption DEF IndInv, TypeOK, Working, Over, Streams, TakeOther, dlgVars, ctxVars, netVars, threadFrame
<1>2. ChunksAreCounted'
  BY ExecAssumption DEF IndInv, TypeOK, ChunksAreCounted, TakeOther, dlgVars, ctxVars, netVars, threadFrame
<1>3. MessagesFit'
  BY ExecAssumption DEF IndInv, TypeOK, MessagesFit, TakeOther, dlgVars, ctxVars, netVars, threadFrame
<1>4. ThreadFitsWindow'
  BY ExecAssumption DEF IndInv, TypeOK, ThreadFitsWindow, Working, TakeOther, dlgVars, ctxVars, netVars, threadFrame
<1>5. SuccessIsEarned'
  BY ExecAssumption DEF IndInv, TypeOK, SuccessIsEarned, Ended, Working, TakeOther, dlgVars, ctxVars, netVars, threadFrame
<1>6. CompletedIsTrue'
  BY ExecAssumption DEF IndInv, TypeOK, CompletedIsTrue, SuccessIsEarned, Ended, ChunksAreCounted, TakeOther, dlgVars, ctxVars, netVars, threadFrame
<1> QED
  BY <1>1, <1>2, <1>3, <1>4, <1>5, <1>6 DEF IndInv

\* APPEND_TEXT is handled.
LEMMA AppendTextKeeps ==
  ASSUME IndInv, AppendText
  PROVE  IndInv'
<1>a. /\ shown' \in Seq(1 .. MaxChunks) /\ pendingChunks' \in Seq(1 .. MaxChunks)
      /\ Len(shown') = read /\ Len(pendingChunks') = 0
      /\ \A i \in 1 .. Len(shown') : shown'[i] = i
  BY AppendPendingIs DEF IndInv, AppendText
<1>b. /\ Tail(queue) \in Seq({"append", "done", "other"}) /\ Len(Tail(queue)) <= Len(queue)
      /\ \A i \in 1 .. Len(Tail(queue)) : i + 1 \in 1 .. Len(queue) /\ Tail(queue)[i] = queue[i + 1]
      /\ 1 \in 1 .. Len(queue) /\ Head(queue) = queue[1]
  BY TailIs DEF IndInv, TypeOK, AppendText
<1>1. TypeOK'
  <2>1. isRunning' \in BOOLEAN
    BY Zenon DEF IndInv, TypeOK, AppendText
  <2>2. queue' = Tail(queue) /\ Len(queue') <= QueueLimit
    BY <1>b, ExecAssumption DEF IndInv, TypeOK, AppendText
  <2>3. text' \in {"none", "failed", "completed"}
    BY DEF IndInv, TypeOK, AppendText
  <2> QED
    BY <1>a, <1>b, <2>1, <2>2, <2>3 DEF IndInv, TypeOK, AppendText, netVars
<1>2. ChunksAreCounted'
  <2>1. read \in Nat
    BY ExecAssumption DEF IndInv, TypeOK
  <2> QED
    BY <1>a, <2>1 DEF IndInv, ChunksAreCounted, AppendText, netVars
<1>3. MessagesFit'
  BY ExecAssumption DEF IndInv, TypeOK, MessagesFit, AppendText, dlgVars, ctxVars, netVars, threadFrame
<1>4. ThreadFitsWindow'
  BY <1>a DEF IndInv, ThreadFitsWindow, AppendText
<1>5. SuccessIsEarned'
  BY ExecAssumption DEF IndInv, TypeOK, SuccessIsEarned, Ended, Working, AppendText, dlgVars, ctxVars, netVars, threadFrame
<1>6. CompletedIsTrue'
  BY ExecAssumption DEF IndInv, TypeOK, CompletedIsTrue, SuccessIsEarned, Ended, ChunksAreCounted, AppendText, dlgVars, ctxVars, netVars, threadFrame
<1> QED
  BY <1>1, <1>2, <1>3, <1>4, <1>5, <1>6 DEF IndInv

\* EXEC_DONE is handled.
LEMMA ExecDoneKeeps ==
  ASSUME IndInv, ExecDone
  PROVE  IndInv'
<1>a. /\ shown' \in Seq(1 .. MaxChunks) /\ pendingChunks' \in Seq(1 .. MaxChunks)
      /\ Len(shown') = read /\ Len(pendingChunks') = 0
      /\ \A i \in 1 .. Len(shown') : shown'[i] = i
  BY AppendPendingIs DEF IndInv, ExecDone, Flush
<1>b. /\ Tail(queue) \in Seq({"append", "done", "other"}) /\ Len(Tail(queue)) <= Len(queue)
      /\ \A i \in 1 .. Len(Tail(queue)) : i + 1 \in 1 .. Len(queue) /\ Tail(queue)[i] = queue[i + 1]
      /\ 1 \in 1 .. Len(queue) /\ Head(queue) = queue[1]
  BY TailIs DEF IndInv, TypeOK, ExecDone
<1>1. TypeOK'
  <2>1. isRunning' \in BOOLEAN
    BY Zenon DEF IndInv, TypeOK, ExecDone
  <2>2. queue' = Tail(queue) /\ Len(queue') <= QueueLimit
    BY <1>b, ExecAssumption DEF IndInv, TypeOK, ExecDone
  <2>3. text' \in {"none", "failed", "completed"}
    BY DEF IndInv, TypeOK, ExecDone
  <2> QED
    BY <1>a, <1>b, <2>1, <2>2, <2>3 DEF IndInv, TypeOK, ExecDone, netVars
<1>2. ChunksAreCounted'
  <2>1. read \in Nat
    BY ExecAssumption DEF IndInv, TypeOK
  <2> QED
    BY <1>a, <2>1 DEF IndInv, ChunksAreCounted, ExecDone, netVars
<1>3. MessagesFit'
  BY ExecAssumption DEF IndInv, TypeOK, MessagesFit, ExecDone, Flush, dlgVars, ctxVars, netVars, threadFrame
<1>4. ThreadFitsWindow'
  <2>1. thread \in {"drop", "ended"}
    BY <1>b DEF IndInv, MessagesFit, ExecDone
  <2> QED
    BY <1>a, <2>1 DEF IndInv, ThreadFitsWindow, Working, ExecDone
<1>5. SuccessIsEarned'
  BY ExecAssumption DEF IndInv, TypeOK, SuccessIsEarned, Ended, Working, ExecDone, Flush, dlgVars, ctxVars, netVars, threadFrame
<1>6. CompletedIsTrue'
  <2>1. CASE shown' # <<>>
    BY <2>1 DEF IndInv, CompletedIsTrue, ExecDone, netVars
  <2>2. CASE shown' = <<>> /\ success
    <3>1. read = 0
      BY <1>a, <2>2
    <3>2. sent = arrived["out"] + arrived["err"]
      BY <3>1, ExecAssumption DEF IndInv, TypeOK, ChunksAreCounted, Streams
    <3>3. Ended
      BY <2>2 DEF IndInv, SuccessIsEarned
    <3>4. cancelRequested \/ (server = "eof" /\ sent = 0)
      BY <3>2, <3>3 DEF Ended
    <3> QED
      BY <3>4 DEF CompletedIsTrue, ExecDone, netVars
  <2>3. CASE shown' = <<>> /\ ~success
    BY <2>3 DEF CompletedIsTrue, ExecDone
  <2> QED
    BY <2>1, <2>2, <2>3
<1> QED
  BY <1>1, <1>2, <1>3, <1>4, <1>5, <1>6 DEF IndInv

\* The user clicks.
LEMMA ClickKeeps ==
  ASSUME IndInv, Click
  PROVE  IndInv'
<1>1. TypeOK'
  <2>1. /\ OfOthers(queue) \in Seq({"append", "done", "other"})
        /\ Len(OfOthers(queue)) <= Len(queue)
        /\ \A i \in 1 .. Len(OfOthers(queue)) : OfOthers(queue)[i] = "other"
    BY OfOthersIs DEF IndInv, TypeOK
  <2>2. cancelRequested' \in BOOLEAN
    BY Zenon DEF Click
  <2>3. queue' = queue \/ queue' = OfOthers(queue)
    BY DEF Click
  <2>4. queue' \in Seq({"append", "done", "other"}) /\ Len(queue') <= QueueLimit
    BY <2>1, <2>3, ExecAssumption DEF IndInv, TypeOK
  <2>5. dlg' \in {"none", "open", "closing"}
    BY DEF IndInv, TypeOK, Click
  <2> QED
    BY <2>2, <2>4, <2>5 DEF IndInv, TypeOK, Click, netVars
<1>2. ChunksAreCounted'
  BY ExecAssumption DEF IndInv, TypeOK, ChunksAreCounted, Click, dlgVars, ctxVars, netVars, threadFrame
<1>3. MessagesFit'
  <2>1. /\ OfOthers(queue) \in Seq({"append", "done", "other"})
        /\ Len(OfOthers(queue)) <= Len(queue)
        /\ \A i \in 1 .. Len(OfOthers(queue)) : OfOthers(queue)[i] = "other"
    BY OfOthersIs DEF IndInv, TypeOK
  <2>2. (dlg' = dlg /\ queue' = queue) \/ queue' = OfOthers(queue)
    BY DEF Click
  <2> QED
    BY <2>1, <2>2 DEF IndInv, MessagesFit, Click
<1>4. ThreadFitsWindow'
  BY ExecAssumption DEF IndInv, TypeOK, ThreadFitsWindow, Working, Click, dlgVars, ctxVars, netVars, threadFrame
<1>5. SuccessIsEarned'
  BY ExecAssumption DEF IndInv, TypeOK, SuccessIsEarned, Ended, Working, Click, dlgVars, ctxVars, netVars, threadFrame
<1>6. CompletedIsTrue'
  BY ExecAssumption DEF IndInv, TypeOK, CompletedIsTrue, SuccessIsEarned, Ended, ChunksAreCounted, Click, dlgVars, ctxVars, netVars, threadFrame
<1> QED
  BY <1>1, <1>2, <1>3, <1>4, <1>5, <1>6 DEF IndInv

\* The window is destroyed.
LEMMA NcDestroyKeeps ==
  ASSUME IndInv, NcDestroy
  PROVE  IndInv'
<1>1. TypeOK'
  BY ExecAssumption DEF IndInv, TypeOK, Working, Over, Streams, NcDestroy, dlgVars, ctxVars, netVars, threadFrame
<1>2. ChunksAreCounted'
  BY ExecAssumption DEF IndInv, TypeOK, ChunksAreCounted, NcDestroy, dlgVars, ctxVars, netVars, threadFrame
<1>3. MessagesFit'
  BY ExecAssumption DEF IndInv, TypeOK, MessagesFit, NcDestroy, dlgVars, ctxVars, netVars, threadFrame
<1>4. ThreadFitsWindow'
  BY ExecAssumption DEF IndInv, TypeOK, ThreadFitsWindow, Working, NcDestroy, dlgVars, ctxVars, netVars, threadFrame
<1>5. SuccessIsEarned'
  BY ExecAssumption DEF IndInv, TypeOK, SuccessIsEarned, Ended, Working, NcDestroy, dlgVars, ctxVars, netVars, threadFrame
<1>6. CompletedIsTrue'
  BY ExecAssumption DEF IndInv, TypeOK, CompletedIsTrue, SuccessIsEarned, Ended, ChunksAreCounted, NcDestroy, dlgVars, ctxVars, netVars, threadFrame
<1> QED
  BY <1>1, <1>2, <1>3, <1>4, <1>5, <1>6 DEF IndInv

-----------------------------------------------------------------------------
(* The theorems                                                            *)

\* No window, no thread and nothing read.
LEMMA InitHolds ==
  ASSUME Init
  PROVE  IndInv
<1>1. TypeOK
  <2>1. isRunning \in BOOLEAN /\ cancelRequested \in BOOLEAN /\ success \in BOOLEAN
        /\ got \in BOOLEAN /\ lost \in BOOLEAN
    BY Zenon DEF Init
  <2>2. /\ arrived \in [Streams -> 0 .. MaxChunks] /\ sent \in 0 .. MaxChunks
        /\ read \in 0 .. MaxChunks
    BY ExecAssumption DEF Init
  <2>3. queue \in Seq({"append", "done", "other"}) /\ Len(queue) <= QueueLimit
    BY ExecAssumption DEF Init
  <2> QED
    BY <2>1, <2>2, <2>3 DEF Init, TypeOK, Over
<1>2. ChunksAreCounted
  <2>1. arrived["out"] = 0 /\ arrived["err"] = 0
    BY DEF Init, Streams
  <2> QED
    BY <2>1 DEF Init, ChunksAreCounted
<1>3. MessagesFit /\ ThreadFitsWindow
  BY DEF Init, MessagesFit, ThreadFitsWindow, Working
<1>4. SuccessIsEarned /\ CompletedIsTrue
  BY DEF Init, SuccessIsEarned, CompletedIsTrue
<1> QED
  BY <1>1, <1>2, <1>3, <1>4 DEF IndInv

\* No step of the thread, of the dialog, of the user or of the server breaks it.
LEMMA NextKeeps ==
  ASSUME IndInv, [Next]_vars
  PROVE  IndInv'
<1>1. CASE Worker
  BY <1>1, ConnectKeeps, OpenKeeps, CheckKeeps, EofKeeps, FreeChannelKeeps, PostDoneKeeps,
     DropKeeps, ReadKeeps DEF Worker
<1>2. CASE Messages
  BY <1>2, AppendTextKeeps, ExecDoneKeeps, NcDestroyKeeps, TakeOtherKeeps DEF Messages
<1>3. CASE ExecuteCommandLine \/ Click \/ UserAnswers \/ PostOther
  BY <1>3, ExecuteCommandLineKeeps, ClickKeeps, UserAnswersKeeps, PostOtherKeeps
<1>4. CASE ServerStops \/ \E s \in Streams : Writes(s)
  BY <1>4, ServerStopsKeeps, WritesKeeps
<1>5. CASE UNCHANGED vars
  BY <1>5 DEF vars, dlgVars, ctxVars, netVars, IndInv, TypeOK, ChunksAreCounted, MessagesFit,
       ThreadFitsWindow, SuccessIsEarned, Ended, CompletedIsTrue
<1> QED
  BY <1>1, <1>2, <1>3, <1>4, <1>5 DEF Next

\* The inductive invariant holds: the chunks are counted, the messages in the
\* queue fit the window, and the thread fits both.
THEOREM Invariance == Spec => []IndInv
<1>1. Init => IndInv
  BY InitHolds
<1>2. IndInv /\ [Next]_vars => IndInv'
  BY NextKeeps
<1> QED
  BY <1>1, <1>2, PTL DEF Spec

\* The variables keep their types, whatever the length of the output and of the
\* main thread's message queue.
THEOREM TypeCorrect == Spec => []TypeOK
<1>1. IndInv => TypeOK
  BY DEF IndInv
<1> QED
  BY <1>1, Invariance, PTL

\* WM_NCDESTROY never frees the context under the running thread, and never
\* terminates the thread before it has posted EXEC_DONE.
THEOREM ContextOutlivesThread == Spec => []ThreadIsSafe
<1>1. IndInv => ThreadIsSafe
  BY DEF IndInv, ThreadFitsWindow, ThreadIsSafe
<1> QED
  BY <1>1, Invariance, PTL

\* What SftpExecStreamCallback has appended is shown whole and in order, though
\* messages may fail to be posted, and a command that has ended by itself is
\* shown to the end.
THEOREM NothingReadIsLost == Spec => []OutputIsWhole
<1>1. ASSUME IndInv PROVE OutputIsWhole
  <2>1. /\ shown \in Seq(1 .. MaxChunks) /\ pendingChunks \in Seq(1 .. MaxChunks)
        /\ Len(shown) + Len(pendingChunks) = read /\ read \in Nat
        /\ Len(shown) \in Nat /\ Len(pendingChunks) \in Nat
    BY <1>1, ExecAssumption DEF IndInv, TypeOK, ChunksAreCounted
  <2>2. shown \o pendingChunks = [i \in 1 .. read |-> i]
    <3> DEFINE both == shown \o pendingChunks
    <3>1. both \in Seq(1 .. MaxChunks) /\ Len(both) = read
      BY <2>1
    <3>2. \A i \in 1 .. read : both[i] = i
      <4>1. TAKE i \in 1 .. read
      <4>2. CASE i <= Len(shown)
        BY <1>1, <2>1, <4>2 DEF IndInv, ChunksAreCounted
      <4>3. CASE i > Len(shown)
        <5>1. both[i] = pendingChunks[i - Len(shown)]
          BY <2>1, <4>3
        <5>2. i - Len(shown) \in 1 .. Len(pendingChunks)
          BY <2>1, <4>3
        <5>3. pendingChunks[i - Len(shown)] = Len(shown) + (i - Len(shown))
          BY <1>1, <5>2 DEF IndInv, ChunksAreCounted
        <5> QED
          BY <2>1, <5>1, <5>3
      <4> QED
        BY <2>1, <4>2, <4>3
    <3>3. both = [i \in 1 .. read |-> both[i]]
      <4>1. \A q \in Seq(1 .. MaxChunks) : q = [i \in 1 .. Len(q) |-> q[i]]
        OBVIOUS
      <4> HIDE DEF both
      <4> QED
        BY <3>1, <4>1
    <3> QED
      BY <3>2, <3>3
  <2>3. dlg = "open" /\ ~isRunning => Len(shown) = read
    BY <1>1 DEF IndInv, ThreadFitsWindow
  <2>4. success /\ ~cancelRequested => read = sent
    <3>1. success /\ ~cancelRequested => arrived["out"] = 0 /\ arrived["err"] = 0
      BY <1>1 DEF IndInv, SuccessIsEarned, Ended
    <3>2. arrived["out"] + arrived["err"] + read = sent
      BY <1>1 DEF IndInv, ChunksAreCounted
    <3> QED
      BY <2>1, <3>1, <3>2
  <2> QED
    BY <2>2, <2>3, <2>4 DEF OutputIsWhole
<1> QED
  BY <1>1, Invariance, PTL

\* The dialog says "completed with no output" only of a command that was stopped,
\* or that has ended and has written nothing.
THEOREM CompletedIsTold == Spec => []CompletedIsTrue
<1>1. IndInv => CompletedIsTrue
  BY DEF IndInv
<1> QED
  BY <1>1, Invariance, PTL

=============================================================================
