----------------------------- MODULE ServerCopy -----------------------------
(***************************************************************************)
(* The operations of a panel that run on the main thread with the          *)
(* recursive helpers of src/src/fs2.cpp: copying and moving from server to *)
(* server through %TEMP% (CopyOrMoveFromFS), deleting (Delete) and         *)
(* synchronising a directory (SftpSyncDir).                                *)
(*                                                                         *)
(* A recursive call is a walk: a stack of the directories it is in, each   *)
(* with the entries its listing gave and that are still to be visited.     *)
(* Three walks exist: SftpDownloadRecursive from the panel's server to the *)
(* disk, SftpUploadRecursive from the disk to a server, and                *)
(* SftpDeleteRecursive on the panel's server.                              *)
(*                                                                         *)
(* The main thread is alone in the plugin while it does this, but not in   *)
(* the world: another client adds files to the source, the directory       *)
(* %TEMP% is everyone's, every call to a server may fail, and the user     *)
(* clicks Cancel whenever the messages are pumped.                         *)
(***************************************************************************)
EXTENDS Naturals, FiniteSets, Sequences, SequencesExt

CONSTANTS
  Paths,       \* what may exist below a directory, on a server or on the disk
  Top,         \* the directory of the panel
  Parent,      \* the directory of each path
  LinkTo,      \* where each symbolic link leads
  Source,      \* what the panel's directory holds at first
  OldDisk,     \* what the disk may hold at first
  OldTarget,   \* what the target directory may hold at first
  Late,        \* files another client may add to the source
  MaxUnlisted  \* bound: the entries a listing that breaks may miss

\* A file is the sequence of its blocks.
NoEntry == [kind |-> "none", data |-> <<>>]
Folder == [kind |-> "dir", data |-> <<>>]
Link == [kind |-> "link", data |-> <<>>]
File(blocks) == [kind |-> "file", data |-> blocks]

\* The blocks of the source, and those of anything else.
Blocks == {"source", "other"}
Entries ==
  {e \in [kind : {"none", "dir", "link", "file"}, data : Seq(Blocks)] :
     e.kind # "file" => e.data = <<>>}
Whole == File(<<"source", "source">>)

\* On the disk nothing is outside a directory; what another client adds has a
\* name that is new, or that of a file like it.
ASSUME TreeAssumption ==
  /\ Top \in Paths /\ "none" \notin Paths
  /\ Parent \in [Paths \ {Top} -> Paths]
  /\ LinkTo \in [{p \in Paths : Source[p] = Link} -> Paths]
  /\ \A tree \in {Source} \cup OldDisk \cup OldTarget : tree \in [Paths -> Entries]
  /\ \A tree \in OldDisk :
       tree[Top] = Folder /\ \A p \in Paths \ {Top} : tree[p] # NoEntry => tree[Parent[p]] = Folder
  /\ \A p \in Late : p \in Paths \ {Top} /\ Source[p] \in {NoEntry, Whole}
  /\ MaxUnlisted \in Nat

VARIABLES
  server,     \* the trees of the panel's directory and of the target's
  disk,       \* the tree in %TEMP%, or in the directory synchronised
  op,         \* the operation under way
  to,         \* "target", or "panel" when the target is the panel's directory
  pc,
  todo,       \* the selected items not taken yet
  cur,        \* the item taken
  stack,      \* the walk: [dir, left] of each recursive call that lists
  step,       \* what the last walk returned
  ovrMode,    \* g_OvrMode: 0 = ask, 1 = overwrite all, 2 = skip all
  cancelled,  \* g_OvrCancel or g_ProgCancel
  \* Observation only, since the operation began.
  selected,   \* the items it was called for
  panel0, disk0, target0,   \* the three trees as they were
  agreed,     \* files of the target the user has agreed to overwrite
  resumed,    \* files the user has agreed to resume, in %TEMP% or in the target
  skipped,    \* files the user, or a synchronisation, has skipped
  blind,      \* files of the target that were there when PathType saw none
  seen,       \* paths that were selected, or that a download has listed
  kept,       \* the item whose copy in %TEMP% could not all be deleted
  short       \* files a transfer has said to be whole that came out shorter

opVars == <<op, to, todo, cur>>
ghosts == <<selected, panel0, disk0, target0, agreed, resumed, skipped, blind, seen, kept, short>>
vars == <<server, disk, opVars, pc, stack, step, ovrMode, cancelled, ghosts>>

Ops == {"copy", "move", "delete", "syncdown", "syncup"}
Walks == {"down", "up", "del"}
None == "none"

Children(tree, d) == {p \in Paths \ {Top} : Parent[p] = d /\ tree[p] # NoEntry}
Exists(entry) == entry # NoEntry

\* A path as the server resolves it: a link leads to its target.
Real(p) == IF server.panel[p] = Link THEN LinkTo[p] ELSE p

\* The directories a path lies in: its parent, the parent of that, and no more.
Closed(dirs) == \A d \in dirs \ {Top} : Parent[d] \in dirs
Above == [p \in Paths |->
  {q \in Paths : \A dirs \in SUBSET Paths : Closed(dirs) /\ (p # Top => Parent[p] \in dirs) => q \in dirs}]
Within(p, items) == ({p} \cup Above[p]) \cap items # {}

TypeOK ==
  /\ server \in [{"panel", "target"} -> [Paths -> Entries]]
  /\ disk \in [Paths -> Entries] /\ panel0 \in [Paths -> Entries]
  /\ disk0 \in [Paths -> Entries] /\ target0 \in [Paths -> Entries]
  /\ op \in Ops \cup {None} /\ to \in {"panel", "target"}
  /\ pc \in Walks \cup {"idle", "next", "clean", "result", "deleted", "end"}
  /\ todo \subseteq Paths /\ cur \in Paths
  /\ stack \in Seq([dir : Paths \cup {None}, left : SUBSET Paths])
  /\ step \in BOOLEAN /\ ovrMode \in 0 .. 2 /\ cancelled \in BOOLEAN
  /\ selected \subseteq Paths /\ agreed \subseteq Paths /\ resumed \subseteq Paths
  /\ skipped \subseteq Paths /\ blind \subseteq Paths /\ seen \subseteq Paths
  /\ kept \subseteq Paths /\ short \subseteq Paths

\* %TEMP% and the target are as somebody left them, and so are g_OvrMode and
\* the flags of a cancel: one operation is followed from there.
Init ==
  /\ \E t \in OldTarget : server = [panel |-> Source, target |-> t]
  /\ disk \in OldDisk
  /\ op = None /\ to = "target" /\ pc = "idle" /\ todo = {} /\ cur = Top
  /\ stack = <<>> /\ step = TRUE /\ ovrMode \in 0 .. 2 /\ cancelled \in BOOLEAN
  /\ selected = {} /\ panel0 = Source /\ disk0 = disk /\ target0 = server.target
  /\ agreed = {} /\ resumed = {} /\ skipped = {} /\ blind = {} /\ seen = {} /\ kept = {}
  /\ short = {}

-----------------------------------------------------------------------------
(* The world                                                               *)

\* Another client adds a file to a directory of the source, while that is being
\* downloaded or deleted: at other moments nobody looks at it.
SomebodyAdds(p) ==
  /\ pc \in {"down", "del"} /\ p \in Late
  /\ server.panel[p] = NoEntry /\ server.panel[Parent[p]] = Folder
  /\ server' = [server EXCEPT !.panel[p] = Whole]
  /\ panel0' = [panel0 EXCEPT ![p] = Whole]
  /\ UNCHANGED <<disk, opVars, pc, stack, step, ovrMode, cancelled,
                 selected, disk0, target0, agreed, resumed, skipped, blind, seen, kept, short>>

-----------------------------------------------------------------------------
(* Walks                                                                   *)

Syncing == op \in {"syncdown", "syncup"}

\* A recursive helper is called for one path.
Calling(p) == <<[dir |-> None, left |-> {p}]>>

\* Mutant of Return: a download that fails leaves its half in %TEMP%.
ReturnUncleaned(w, result) ==
  /\ step' = result
  /\ pc' = IF Syncing THEN "end"
           ELSE CASE w = "down" /\ result -> "up"
                  [] w = "down" /\ ~result -> "result"
                  [] w = "up" -> "clean"
                  [] w = "del" -> IF op = "delete" THEN "deleted" ELSE "next"
  /\ stack' = IF pc' = "up" THEN Calling(cur) ELSE <<>>

\* A recursive helper returns to the operation.  When the download of an item
\* has succeeded, its upload follows.
Return(w, result) ==
  /\ step' = result
  /\ pc' = IF Syncing THEN "end"
           ELSE CASE w = "down" /\ result -> "up"
                  [] w = "down" /\ ~result -> "clean"
                  [] w = "up" -> "clean"
                  [] w = "del" -> IF op = "delete" THEN "deleted" ELSE "next"
  /\ stack' = IF pc' = "up" THEN Calling(cur) ELSE <<>>

Frame == Last(stack)
\* The entry p of the innermost listing is done with.
Done(p) == Append(Front(stack), [Frame EXCEPT !.left = @ \ {p}])
Visiting(w, p) == pc = w /\ p \in Frame.left

\* Where a walk reads, where it writes, and what the server or the disk makes
\* of a new entry; Upload makes the missing directories of its target.
From(w, p) == IF w = "down" THEN server.panel[Real(p)] ELSE disk[p]
Into(w, p) == IF w = "down" THEN disk[p] ELSE server[to][p]
With(tree, p, entry) ==
  [q \in Paths |-> CASE q = p -> entry
                     [] q # p /\ q \in Above[p] /\ entry # NoEntry /\ tree[q] = NoEntry -> Folder
                     [] OTHER -> tree[q]]
Put(w, p, entry) ==
  IF w = "down"
  THEN disk' = With(disk, p, entry) /\ UNCHANGED server
  ELSE server' = [server EXCEPT ![to] = With(@, p, entry)] /\ UNCHANGED disk

\* Mutant of IsDir: a link to a directory is taken for one.
IsDirOfLink(w, p) ==
  IF w = "up" /\ Frame.dir # None THEN disk[p].kind = "dir"
                                  ELSE server.panel[Real(p)].kind = "dir"

\* ListDir does not follow links (IsLink clears IsDir).  The item itself is
\* what the panel shows it to be.
IsDir(w, p) ==
  IF w = "up" /\ Frame.dir # None THEN disk[p].kind = "dir" ELSE server.panel[p].kind = "dir"

\* SftpIsCancelled, called before each entry: the user has clicked Cancel in
\* the progress dialog.  Deleting does not call it.
HearCancel(w) ==
  /\ pc = w /\ w \in {"down", "up"} /\ Frame.left # {}
  /\ cancelled' = TRUE
  /\ Return(w, FALSE)
  /\ UNCHANGED <<server, disk, opVars, ovrMode, ghosts>>

-----------------------------------------------------------------------------
(* Files                                                                   *)

\* Can the target of a transfer be opened for writing?
Writable(w, p) ==
  /\ Into(w, p).kind # "dir"
  /\ IF w = "down" THEN disk[Parent[p]] = Folder
                   ELSE \A q \in Above[p] : server[to][q].kind \in {"dir", "none"}

\* What Download or Upload may return, and leave as the target: resuming at
\* off keeps what is there; a transfer that breaks leaves what it has written,
\* and removes the file when that is nothing.  True may come with less than the
\* whole file: nobody looks at what fclose returns, which may lose what was
\* still buffered, at a read that fails like the end of the file, or at what an
\* SCP server makes of what it is sent.
Outcomes(w, p, off) ==
  LET read == From(w, p).data
      Written(n) == SubSeq(Into(w, p).data, 1, off) \o SubSeq(read, off + 1, n)
      Ends == off .. Len(read)
  IN  {[ok |-> FALSE, entry |-> Into(w, p)]} \cup
      IF ~Writable(w, p) THEN {}
      ELSE IF From(w, p).kind = "file"
           THEN {[ok |-> TRUE, entry |-> File(Written(n))] : n \in Ends} \cup
                {[ok |-> FALSE, entry |-> IF n = 0 THEN NoEntry ELSE File(Written(n))] : n \in Ends}
           ELSE IF w = "down" THEN {[ok |-> FALSE, entry |-> NoEntry]} ELSE {}

\* conn.Download or conn.Upload of p from off; a click on Cancel breaks it.
Transfer(w, p, off) ==
  \E r \in Outcomes(w, p, off) :
    /\ Put(w, p, r.entry)
    /\ IF r.ok THEN stack' = Done(p) /\ UNCHANGED <<pc, step, cancelled>>
               ELSE Return(w, FALSE) /\ cancelled' \in {FALSE, TRUE}
    /\ short' = IF r.ok /\ Len(r.entry.data) < Len(From(w, p).data) THEN short \cup {p} ELSE short

\* A file that is not there yet, or that PathType says is not there when the
\* server does not answer.
TakeNewFile(w, p) ==
  /\ Visiting(w, p) /\ w # "del" /\ ~Syncing /\ ~IsDir(w, p)
  /\ IF w = "down" THEN Into(w, p) = NoEntry ELSE TRUE
  /\ Transfer(w, p, 0)
  /\ blind' = IF w = "up" /\ Into(w, p).kind = "file" THEN blind \cup {p} ELSE blind
  /\ UNCHANGED <<opVars, ovrMode,
                 selected, panel0, disk0, target0, agreed, resumed, skipped, seen, kept>>

\* The file of that name, in the eyes of GetFileAttributes and of PathType.
Taken(w, p) == IF w = "down" THEN Exists(Into(w, p)) ELSE Into(w, p).kind \in {"file", "link"}
AtTaken(w, p) ==
  /\ Visiting(w, p) /\ w # "del" /\ ~Syncing /\ ~IsDir(w, p)
  /\ Taken(w, p)

\* A shorter file that is not empty may be resumed; that is asked whatever
\* g_OvrMode is, unless the other size is not known (and never in SCP mode).
Shorter(w, p) ==
  /\ Into(w, p).kind = "file" /\ Len(Into(w, p).data) \in 1 .. Len(From(w, p).data) - 1

\* SftpAskResume: 1 = resume, 2 = transfer again.
Resume(w, p) ==
  /\ AtTaken(w, p) /\ Shorter(w, p)
  /\ \/ Transfer(w, p, Len(Into(w, p).data)) /\ resumed' = resumed \cup {p} /\ UNCHANGED agreed
     \/ /\ Transfer(w, p, 0)
        /\ agreed' = (IF w = "up" THEN agreed \cup {p} ELSE agreed) /\ UNCHANGED resumed
  /\ UNCHANGED <<opVars, ovrMode,
                 selected, panel0, disk0, target0, skipped, blind, seen, kept>>

\* SftpAskOverwrite: Yes and All, Skip and Skip All; an answer for all of the
\* files counts for the copies in %TEMP% and for the target.
Overwrite(w, p) ==
  /\ AtTaken(w, p)
  /\ Transfer(w, p, 0)
  /\ \/ ovrMode = 0 /\ ovrMode' = 0 /\ agreed' = (IF w = "up" THEN agreed \cup {p} ELSE agreed)
     \/ ovrMode = 0 /\ ovrMode' = 1 /\ agreed' = Paths
     \/ ovrMode = 1 /\ UNCHANGED <<ovrMode, agreed>>
  /\ UNCHANGED <<opVars,
                 selected, panel0, disk0, target0, resumed, skipped, blind, seen, kept>>

Skip(w, p) ==
  /\ AtTaken(w, p) /\ ovrMode # 1
  /\ stack' = Done(p)
  /\ skipped' = skipped \cup {p}
  /\ ovrMode' \in {ovrMode, 2}
  /\ UNCHANGED <<server, disk, opVars, pc, step, cancelled,
                 selected, panel0, disk0, target0, agreed, resumed, blind, seen, kept, short>>

\* Cancel, in either question.
CancelAtQuestion(w, p) ==
  /\ AtTaken(w, p) /\ (ovrMode = 0 \/ Shorter(w, p))
  /\ cancelled' = TRUE
  /\ Return(w, FALSE)
  /\ UNCHANGED <<server, disk, opVars, ovrMode, ghosts>>

\* Mutant of SyncSkips: a synchronisation skips whatever is there.
SyncSkipsTaken(w, p) == Taken(w, p)

\* A synchronisation skips a file of the same size when the times, which are
\* not modelled, say that it is not older; it asks nothing, and transfers also
\* what it cannot compare.
SyncSkips(w, p) == Taken(w, p) /\ Len(Into(w, p).data) = Len(From(w, p).data)

SyncFile(w, p) ==
  /\ Visiting(w, p) /\ Syncing /\ ~IsDir(w, p)
  /\ \/ /\ SyncSkips(w, p)
        /\ stack' = Done(p) /\ skipped' = skipped \cup {p}
        /\ UNCHANGED <<server, disk, pc, step, cancelled, short>>
     \/ Transfer(w, p, 0) /\ UNCHANGED skipped
  /\ UNCHANGED <<opVars, ovrMode,
                 selected, panel0, disk0, target0, agreed, resumed, blind, seen, kept>>

\* conn.RemoveFile: of a link, the link.
RemoveFile(p) ==
  /\ Visiting("del", p) /\ ~IsDir("del", p)
  /\ \/ /\ Exists(server.panel[p])
        /\ server' = [server EXCEPT !.panel[p] = NoEntry]
        /\ stack' = Done(p) /\ UNCHANGED <<pc, step>>
     \/ Return("del", FALSE) /\ UNCHANGED server
  /\ UNCHANGED <<disk, opVars, ovrMode, cancelled, ghosts>>

-----------------------------------------------------------------------------
(* Directories                                                             *)

\* ListDir returns true also when readdir breaks half way, with the entries it
\* has by then.
ListDir(d) ==
  LET all == Children(server.panel, Real(d))
  IN  {entries \in SUBSET all : Cardinality(all \ entries) <= MaxUnlisted}

Enter(p, entries) == Append(Done(p), [dir |-> p, left |-> entries])

DownloadDir(p) ==
  /\ Visiting("down", p) /\ IsDir("down", p)
  /\ disk' = IF p # Top /\ disk[p] = NoEntry /\ disk[Parent[p]] = Folder
             THEN [disk EXCEPT ![p] = Folder] ELSE disk
  /\ \/ \E entries \in ListDir(p) :
          /\ stack' = Enter(p, entries) /\ seen' = seen \cup entries
          /\ UNCHANGED <<pc, step>>
     \/ Return("down", FALSE) /\ UNCHANGED seen
  /\ UNCHANGED <<server, opVars, ovrMode, cancelled,
                 selected, panel0, disk0, target0, agreed, resumed, skipped, blind, kept, short>>

\* MakeDir's failure is ignored, and so is that of FindFirstFile.
UploadDir(p) ==
  /\ Visiting("up", p) /\ IsDir("up", p)
  /\ \/ UNCHANGED server
     \/ /\ p # Top /\ server[to][p] = NoEntry /\ server[to][Parent[p]] = Folder
        /\ server' = [server EXCEPT ![to][p] = Folder]
  /\ stack' = Enter(p, IF disk[p] = Folder THEN Children(disk, p) ELSE {})
  /\ UNCHANGED <<disk, opVars, pc, step, ovrMode, cancelled, ghosts>>

\* A directory that cannot be listed is taken as empty.
DeleteDir(p) ==
  /\ Visiting("del", p) /\ IsDir("del", p)
  /\ \E entries \in ListDir(p) : stack' = Enter(p, entries)
  /\ UNCHANGED <<server, disk, opVars, pc, step, ovrMode, cancelled, ghosts>>

\* The listing is done.  RemoveDir refuses a directory that is not empty.
LeaveDir(w) ==
  /\ pc = w /\ Frame.left = {} /\ Len(stack) > 1
  /\ \/ w # "del" /\ stack' = Front(stack) /\ UNCHANGED <<server, pc, step>>
     \/ /\ w = "del" /\ Children(server.panel, Real(Frame.dir)) = {}
        /\ server' = [server EXCEPT !.panel[Frame.dir] = NoEntry]
        /\ stack' = Front(stack) /\ UNCHANGED <<pc, step>>
     \/ w = "del" /\ Return(w, FALSE) /\ UNCHANGED server
  /\ UNCHANGED <<disk, opVars, ovrMode, cancelled, ghosts>>

WalkEnds(w) ==
  /\ pc = w /\ Frame.left = {} /\ Len(stack) = 1
  /\ Return(w, TRUE)
  /\ UNCHANGED <<server, disk, opVars, ovrMode, cancelled, ghosts>>

-----------------------------------------------------------------------------
(* Operations                                                              *)

\* Mutant of ForgetAnswers: "All", once answered, holds for the next operation.
KeepAnswers == UNCHANGED ovrMode /\ cancelled' = FALSE

\* SftpProgressBegin forgets the answers of the operation before.
ForgetAnswers == ovrMode' = 0 /\ cancelled' = FALSE

\* The user starts an operation on some items.
Begin(o, where, items) ==
  /\ pc = "idle" /\ op = None
  /\ items # {} /\ items \subseteq Children(server.panel, Top)
  /\ op' = o /\ selected' = items
  /\ cur' = Top
  /\ CASE o \in {"copy", "move"} ->
            to' = where /\ todo' = items /\ pc' = "next" /\ stack' = <<>>
       [] o = "delete" ->
            to' = "target" /\ todo' = items /\ pc' = "next" /\ stack' = <<>>
       [] o = "syncdown" ->
            to' = "panel" /\ todo' = {} /\ pc' = "down" /\ stack' = Calling(Top)
       [] o = "syncup" ->
            to' = "panel" /\ todo' = {} /\ pc' = "up" /\ stack' = Calling(Top)
  /\ step' = TRUE /\ ForgetAnswers
  /\ panel0' = server.panel /\ disk0' = disk /\ target0' = server.target
  /\ agreed' = {} /\ resumed' = {} /\ skipped' = {} /\ blind' = {} /\ kept' = {}
  /\ short' = {}
  /\ seen' = todo'
  /\ UNCHANGED <<server, disk>>

\* The next selected item, unless the user has cancelled.
NextItem ==
  /\ pc = "next"
  /\ \/ /\ pc' = "end"
        /\ \/ todo = {} /\ UNCHANGED cancelled
           \/ op # "delete" /\ cancelled' = TRUE
        /\ UNCHANGED <<todo, cur, stack, step>>
     \/ /\ \E i \in todo : cur' = i /\ todo' = todo \ {i} /\ stack' = Calling(i)
        /\ pc' = (IF op = "delete" THEN "del" ELSE "down") /\ step' = TRUE
        /\ UNCHANGED cancelled
  /\ UNCHANGED <<server, disk, op, to, ovrMode, ghosts>>

\* Mutant of AfterClean: the source is deleted whatever became of its copy.
AfterCleanUnchecked == IF op = "move" THEN "del" ELSE "next"

\* A move deletes the source of what went well.
AfterClean == IF ~step THEN "result" ELSE IF op = "move" THEN "del" ELSE "next"

\* LocalDeleteRecursive of the copy in %TEMP%, whether the item went well or
\* not; a file in use stays, and the directories it is in.
CleanUp ==
  /\ pc = "clean"
  /\ \E used \in {{}} \cup {{p} : p \in {q \in Paths : Within(q, {cur}) /\ disk[q].kind = "file"}} :
       /\ kept' = IF used = {} THEN kept ELSE kept \cup {cur}
       /\ disk' = IF (disk[cur].kind = "dir") = (server.panel[cur].kind = "dir")
                  THEN [p \in Paths |-> IF /\ Within(p, {cur})
                                          /\ \A u \in used : p # u /\ p \notin Above[u]
                                       THEN NoEntry ELSE disk[p]]
                  ELSE disk
  /\ pc' = AfterClean
  /\ stack' = IF pc' = "del" THEN Calling(cur) ELSE <<>>
  /\ UNCHANGED <<server, opVars, step, ovrMode, cancelled, selected, panel0,
                 disk0, target0, agreed, resumed, skipped, blind, seen, short>>

\* "Continue?", asked after a failure that is not a cancel.  What the delete of
\* a move returns is ignored.
AfterFailure ==
  /\ pc = "result"
  /\ pc' \in IF cancelled THEN {"end"} ELSE {"next", "end"}
  /\ UNCHANGED <<server, disk, opVars, stack, step, ovrMode, cancelled, ghosts>>

AfterDelete ==
  /\ pc = "deleted"
  /\ pc' \in IF step THEN {"next"} ELSE {"next", "end"}
  /\ UNCHANGED <<server, disk, opVars, stack, step, ovrMode, cancelled, ghosts>>

Finish ==
  /\ pc = "end"
  /\ pc' = "idle" /\ todo' = {}
  /\ UNCHANGED <<server, disk, op, to, cur, stack, step, ovrMode, cancelled, ghosts>>

Next ==
  \/ \E o \in Ops, where \in {"panel", "target"}, items \in SUBSET Children(Source, Top) :
       Begin(o, where, items)
  \/ NextItem \/ CleanUp \/ AfterFailure \/ AfterDelete \/ Finish
  \/ \E w \in Walks : HearCancel(w) \/ LeaveDir(w) \/ WalkEnds(w)
  \/ \E p \in Paths :
       \/ \E w \in {"down", "up"} :
            \/ TakeNewFile(w, p) \/ Resume(w, p) \/ Overwrite(w, p)
            \/ Skip(w, p) \/ CancelAtQuestion(w, p) \/ SyncFile(w, p)
       \/ RemoveFile(p) \/ DownloadDir(p) \/ UploadDir(p) \/ DeleteDir(p)
       \/ SomebodyAdds(p)

Spec == Init /\ [][Next]_vars

-----------------------------------------------------------------------------
(* Properties                                                              *)

\* A move to another directory deletes a file of the source only when the
\* target holds all of it, except what the user has skipped or resumed (a
\* resume does not look at what it continues), what Download or Upload itself
\* has reported as whole though it was not, and what the download has not
\* listed: SftpDeleteRecursive lists the directory once more.
MoveKeepsData ==
  op = "move" /\ to = "target" =>
    \A p \in seen \ (skipped \cup resumed \cup short) :
      panel0[p].kind = "file" /\ server.panel[p] = NoEntry => server.target[p] = panel0[p]

\* Nothing disappears from the panel's directory that is not a selected item of
\* a delete or a move, or in one, and so nothing a link in one leads to.
NothingElseGoes ==
  \A p \in Paths :
    panel0[p] # NoEntry /\ server.panel[p] = NoEntry /\ to # "panel" =>
      op \in {"move", "delete"} /\ Within(p, selected)

\* A file of the target directory changes only after the user has agreed to it
\* in this operation, unless PathType was not answered.
NoSilentOverwrite ==
  \A p \in Paths :
    target0[p].kind = "file" /\ server.target[p] # target0[p] =>
      p \in agreed \cup resumed \cup blind

\* Nothing of a copy stays in %TEMP% when it is over, whether it went well,
\* failed or was cancelled, except what was in use or not of the same kind.
TempIsCleaned ==
  pc = "end" /\ op \in {"copy", "move"} =>
    \A i \in selected \ (todo \cup kept) :
      disk0[i] = NoEntry \/ disk0[i].kind = panel0[i].kind =>
        \A p \in Paths : Within(p, {i}) => disk[p] = NoEntry

\* A synchronisation from the server to the disk that reports success leaves
\* every file it has listed the same on both sides, but for those of the same
\* size it took to be as new, and those Download itself has reported as whole
\* though they were not.
SyncIsComplete ==
  pc = "end" /\ op = "syncdown" /\ step =>
    \A p \in seen \ short : panel0[p].kind = "file" =>
      disk[p] = panel0[p] \/ (p \in skipped /\ Len(disk[p].data) = Len(panel0[p].data))

=============================================================================
