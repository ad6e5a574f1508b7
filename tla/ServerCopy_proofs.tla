------------------------- MODULE ServerCopy_proofs -------------------------
(***************************************************************************)
(* Theorems about ServerCopy, for trees of any shape and size, files of    *)
(* any length and any number of selected items.                            *)
(***************************************************************************)
EXTENDS ServerCopy, SequenceTheorems, TLAPS

-----------------------------------------------------------------------------
(* The inductive invariant                                                 *)

\* What an item holds, itself included.
Below(i) == {p \in Paths : Within(p, {i})}

\* The operations that leave the panel's directory alone while they read it.
Stable == to = "target" \/ op = "syncdown"

\* An item is between the beginning of its download and the end of its clean-up.
Copying == pc \in {"down", "up", "clean"}

\* Which operation is under way, and where it may be.
OpFits ==
  /\ op = None => /\ pc = "idle" /\ todo = {} /\ selected = {} /\ seen = {}
                  /\ server["panel"] = Source /\ panel0 = Source
                  /\ server["target"] = target0 /\ disk = disk0
  /\ pc = "del" => op \in {"move", "delete"}
  /\ pc \in {"up", "clean"} => op # "delete" /\ op # "syncdown"
  /\ pc = "down" => op # "delete"
  /\ Syncing => /\ pc \in {"down", "up", "end", "idle"} /\ to = "panel" /\ todo = {}
                /\ resumed = {} /\ cur = Top

\* The items are entries of the panel's directory, and cur is the one in work.
ItemsFit ==
  /\ todo \subseteq selected /\ cur \notin todo
  /\ \A i \in selected : i # Top /\ Parent[i] = Top /\ panel0[i] # NoEntry
  /\ ~Syncing /\ (Copying \/ pc = "del") => cur \in selected

\* A walk stays below the item it was called for; only the call itself has no
\* directory, and an item that is no directory is all there is to visit.
StackFits ==
  /\ pc \in Walks => Len(stack) >= 1
  /\ \A k \in 1 .. Len(stack) :
       /\ stack[k].left \subseteq Below(cur) /\ stack[k].dir \in Below(cur) \cup {None}
       /\ stack[k].dir = None => stack[k].left \subseteq {cur}
       /\ stack[k].dir # None => \A p \in stack[k].left : p # Top /\ Parent[p] = stack[k].dir
       /\ Copying /\ ~Syncing /\ panel0[cur].kind # "dir" => stack[k].left \subseteq {cur}

\* What another client adds does not change what was there.
LateFits == \A p \in Late : panel0[p] \in {NoEntry, Whole}

\* Until its deletion an item is as it was, and nothing of the panel's directory
\* changes but by being deleted.
PanelFits ==
  Stable =>
    /\ \A p \in Paths : server["panel"][p] \in {panel0[p], NoEntry}
    /\ \A i \in todo : \A p \in Below(i) : server["panel"][p] = panel0[p]
    /\ Copying => \A p \in Below(cur) : server["panel"][p] = panel0[p]

\* Nothing the plugin or another client makes is a link.
LinksFit == \A p \in Paths : server["panel"][p] = Link => Source[p] = Link

\* The listings are of directories that were selected, or are in one.
SeenFits ==
  /\ Stable => \A p \in seen : panel0[p] # NoEntry
  /\ \A i \in todo : seen \cap Below(i) \subseteq {i}
  /\ ~Syncing => \A i \in selected : \A p \in seen \cap Below(i) : p # i => panel0[i].kind = "dir"
  /\ Syncing => seen \subseteq Below(Top)

\* On the disk nothing is outside a directory.
DiskIsTree ==
  /\ disk[Top] = Folder
  /\ \A p \in Paths \ {Top} : disk[p] # NoEntry => disk[Parent[p]] = Folder

\* "All" was answered in this operation.
AnswersFit == op # None /\ ovrMode = 1 => agreed = Paths

\* A file that the download has listed is still to be visited, or on the disk.
Pending(p) == \E k \in 1 .. Len(stack) : p \in stack[k].left
Copied(p) ==
  \/ disk[p] = panel0[p] \/ p \in resumed \cup short
  \/ p \in skipped /\ (Syncing => Len(disk[p].data) = Len(panel0[p].data))
DownFits ==
  pc = "down" /\ Stable =>
    \A p \in seen \cap Below(cur) : panel0[p].kind = "file" => Pending(p) \/ Copied(p)

\* The files of an item that must arrive, and those that the upload will still
\* visit, in one of the directories it has listed or will list.
Wanted == {p \in (seen \cap Below(cur)) \ (skipped \cup resumed \cup short) : panel0[p].kind = "file"}
PendingWithin(p) == \E k \in 1 .. Len(stack) : Within(p, stack[k].left)
UpFits ==
  pc = "up" /\ Stable =>
    \A p \in Wanted :
      disk[p] = panel0[p] /\ (PendingWithin(p) \/ server["target"][p] = panel0[p])

\* When the copy went well, and when the source is deleted, all has arrived.
ArrivedFits ==
  /\ pc = "clean" /\ step /\ Stable => \A p \in Wanted : server["target"][p] = panel0[p]
  /\ pc = "del" /\ op = "move" /\ Stable => \A p \in Wanted : server["target"][p] = panel0[p]

\* The items that are done with have left nothing on the disk, those to come
\* have found nothing changed, and the copy of the one in work is of its kind.
Comparable(i) == disk0[i] = NoEntry \/ disk0[i].kind = panel0[i].kind
TempFits ==
  op \in {"copy", "move"} /\ pc # "idle" =>
    /\ \A i \in selected \ (todo \cup kept) :
         Comparable(i) /\ ~(Copying /\ i = cur) => \A p \in Below(i) : disk[p] = NoEntry
    /\ \A i \in todo : disk[i] = disk0[i] /\ server["panel"][i] = panel0[i]
    /\ Copying =>
         /\ server["panel"][cur].kind = "dir" <=> panel0[cur].kind = "dir"
         /\ Comparable(cur) =>
              /\ disk[cur].kind = "dir" => panel0[cur].kind = "dir"
              /\ panel0[cur].kind = "dir" => disk[cur] \in {NoEntry, Folder}

IndInv ==
  /\ TypeOK /\ OpFits /\ ItemsFit /\ StackFits /\ LateFits /\ LinksFit
  /\ PanelFits /\ SeenFits /\ DiskIsTree /\ AnswersFit
  /\ DownFits /\ UpFits /\ ArrivedFits /\ TempFits
  /\ NothingElseGoes /\ NoSilentOverwrite /\ MoveKeepsData /\ SyncIsComplete

-----------------------------------------------------------------------------
(* Paths                                                                   *)

\* The directories a path lies in are those its parent lies in, and the parent.
LEMMA AboveIs ==
  /\ Above \in [Paths -> SUBSET Paths] /\ Above[Top] = {}
  /\ \A p \in Paths \ {Top} : Parent[p] \in Paths /\ Above[p] = {Parent[p]} \cup Above[Parent[p]]
<1>0. Top \in Paths /\ Parent \in [Paths \ {Top} -> Paths]
  BY TreeAssumption
<1>1. Above \in [Paths -> SUBSET Paths]
  BY DEF Above
<1>2. Above[Top] = {}
  <2>1. {} \in SUBSET Paths /\ Closed({})
    BY DEF Closed
  <2> QED BY <2>1, <1>0 DEF Above
<1>3. ASSUME NEW p \in Paths \ {Top}
      PROVE  Parent[p] \in Paths /\ Above[p] = {Parent[p]} \cup Above[Parent[p]]
  <2>1. Parent[p] \in Paths
    BY <1>0
  <2>2. \A q \in Paths : q \in Above[p] <=>
          \A dirs \in SUBSET Paths : Closed(dirs) /\ Parent[p] \in dirs => q \in dirs
    BY DEF Above
  <2>3. \A q \in Paths : q \in Above[Parent[p]] <=>
          \A dirs \in SUBSET Paths :
            Closed(dirs) /\ (Parent[p] # Top => Parent[Parent[p]] \in dirs) => q \in dirs
    BY <2>1 DEF Above
  <2>4. \A x \in Paths \ {Top} : Parent[x] \in Paths
    BY <1>0
  <2> DEFINE S == {Parent[p]} \cup Above[Parent[p]]
  <2>5. S \in SUBSET Paths
    BY <1>1, <2>1
  <2>6. Closed(S)
    <3>1. SUFFICES ASSUME NEW d \in S, d # Top PROVE Parent[d] \in S
      BY DEF Closed
    <3>2. d \in Paths /\ Parent[d] \in Paths
      BY <3>1, <2>5, <2>4
    <3>3. CASE d = Parent[p]
      BY <2>3, <3>1, <3>2, <3>3
    <3>4. CASE d \in Above[Parent[p]]
      <4>1. ASSUME NEW dirs \in SUBSET Paths, Closed(dirs),
                   Parent[p] # Top => Parent[Parent[p]] \in dirs
            PROVE  Parent[d] \in dirs
        BY <2>3, <3>1, <3>2, <3>4, <4>1 DEF Closed
      <4> QED BY <4>1, <2>3, <3>2
    <3> QED BY <3>1, <3>3, <3>4
  <2>7. Above[p] \subseteq S
    BY <2>2, <2>5, <2>6, <1>1
  <2>8. Parent[p] \in Above[p]
    BY <2>2, <2>1
  <2>9. ASSUME NEW q \in Above[Parent[p]] PROVE q \in Above[p]
    <3>1. q \in Paths
      BY <1>1, <2>1
    <3>2. ASSUME NEW dirs \in SUBSET Paths, Closed(dirs), Parent[p] \in dirs PROVE q \in dirs
      BY <2>3, <3>1, <3>2 DEF Closed
    <3> QED BY <2>2, <3>1, <3>2
  <2> QED BY <2>1, <2>7, <2>8, <2>9
<1> QED BY <1>1, <1>2, <1>3

\* What is true of a directory and, from each path, of its parent, is true of all
\* the directories the path lies in.
LEMMA AboveWithin ==
  ASSUME NEW p \in Paths, NEW dirs \in SUBSET Paths, Closed(dirs), p # Top => Parent[p] \in dirs
  PROVE  Above[p] \subseteq dirs
BY DEF Above

\* What a path lies in, it lies in with all the directories above.
LEMMA AboveClosed ==
  ASSUME NEW p \in Paths
  PROVE  Above[p] \in SUBSET Paths /\ \A d \in Above[p] : d # Top => Parent[d] \in Above[p]
<1>1. SUFFICES ASSUME NEW d \in Above[p], d # Top PROVE Parent[d] \in Above[p]
  BY AboveIs
<1>2. d \in Paths /\ Parent[d] \in Paths
  BY <1>1, AboveIs
<1>3. ASSUME NEW dirs \in SUBSET Paths, Closed(dirs), p # Top => Parent[p] \in dirs
      PROVE  Parent[d] \in dirs
  BY <1>1, <1>2, <1>3, AboveWithin DEF Closed
<1> QED BY <1>2, <1>3 DEF Above

\* What an item holds, seen from a path: the item itself, and what has its parent in it.
LEMMA BelowIs ==
  /\ \A i \in Paths : Below(i) \subseteq Paths /\ i \in Below(i)
  /\ \A i, p \in Paths : p \in Below(i) <=> p = i \/ i \in Above[p]
  /\ \A i \in Paths : \A p \in Paths \ {Top} : Parent[p] \in Below(i) => p \in Below(i)
  /\ \A i \in Paths : \A p \in Below(i) : p # i /\ p # Top => Parent[p] \in Below(i)
  /\ \A i \in Paths : i # Top => Top \notin Below(i)
  /\ \A p \in Paths \ {Top} : Parent[p] \in Paths
<1>1. \A i, p \in Paths : p \in Below(i) <=> p = i \/ i \in Above[p]
  BY DEF Below, Within
<1>2. \A i \in Paths : Below(i) \subseteq Paths
  BY DEF Below
<1> QED BY <1>1, <1>2, AboveIs, TreeAssumption

\* Two entries of the top directory have nothing in common.
LEMMA Disjoint ==
  ASSUME NEW i \in Paths \ {Top}, NEW j \in Paths \ {Top}, Parent[i] = Top, Parent[j] = Top, i # j
  PROVE  Below(i) \cap Below(j) = {}
<1> DEFINE C == Below(i) \cap Below(j)
<1>1. \A x \in C : x # i /\ x # j /\ x # Top
  BY BelowIs, AboveIs
<1>2. C \in SUBSET Paths
  BY BelowIs
<1>3. \A x \in C : Parent[x] \in C
  BY <1>1, BelowIs
<1>4. Closed(C)
  BY <1>3 DEF Closed
<1>5. ASSUME NEW p \in C PROVE FALSE
  <2>1. Above[p] \subseteq C
    BY <1>5, <1>2, <1>3, <1>4, AboveWithin
  <2>2. i \in Above[p]
    BY <1>1, <1>2, <1>5, BelowIs
  <2> QED BY <2>1, <2>2, <1>1
<1> QED BY <1>5

\* On the way from a path to a directory it lies in there is an entry of that
\* directory.
LEMMA Between ==
  ASSUME NEW p \in Paths, NEW q \in Above[p]
  PROVE  \E c \in Paths \ {Top} : Parent[c] = q /\ (c = p \/ c \in Above[p])
<1> DEFINE C == {x \in Above[p] : \E c \in Paths \ {Top} : Parent[c] = x /\ (c = p \/ c \in Above[p])}
<1>1. C \in SUBSET Paths /\ p # Top
  BY AboveIs
<1>2. Parent[p] \in C
  BY <1>1, AboveIs
<1>3. ASSUME NEW x \in C, x # Top PROVE Parent[x] \in C
  BY <1>1, <1>3, AboveClosed
<1>4. Closed(C)
  BY <1>3 DEF Closed
<1> QED BY <1>1, <1>2, <1>4, AboveWithin

\* On the disk everything above an entry is a directory, and nothing is below
\* what is none.
LEMMA TreeAbove ==
  ASSUME DiskIsTree, disk \in [Paths -> Entries]
  PROVE  /\ \A p \in Paths : disk[p] # NoEntry => \A q \in Above[p] : disk[q] = Folder
         /\ \A i \in Paths : disk[i] # Folder => \A p \in Below(i) : p # i => disk[p] = NoEntry
<1> DEFINE C == {x \in Paths : disk[x] = Folder}
<1>1. Folder # NoEntry
  BY DEF Folder, NoEntry
<1>2. Closed(C) /\ C \in SUBSET Paths
  BY <1>1, AboveIs DEF Closed, DiskIsTree
<1>3. ASSUME NEW p \in Paths, disk[p] # NoEntry PROVE Above[p] \subseteq C
  BY <1>2, <1>3, AboveIs, AboveWithin DEF DiskIsTree
<1> QED BY <1>3, BelowIs

-----------------------------------------------------------------------------
(* Entries and stacks                                                      *)

\* The four kinds of an entry; only files differ in their data.
LEMMA EntriesAre ==
  /\ NoEntry \in Entries /\ Folder \in Entries /\ Whole \in Entries
  /\ NoEntry.kind = "none" /\ Folder.kind = "dir" /\ Whole.kind = "file" /\ Link.kind = "link"
  /\ \A e \in Entries :
       /\ e.kind \in {"none", "dir", "link", "file"} /\ e.data \in Seq(Blocks)
       /\ e.kind = "none" <=> e = NoEntry
       /\ e.kind = "dir" <=> e = Folder
       /\ e.kind = "link" <=> e = Link
       /\ e.kind = "file" => File(e.data) = e
  /\ \A d \in Seq(Blocks) : File(d) \in Entries /\ File(d).kind = "file" /\ File(d).data = d
<1>1. <<>> \in Seq(Blocks) /\ <<"source", "source">> \in Seq(Blocks)
  BY DEF Blocks
<1>2. \A e \in Entries : e = [kind |-> e.kind, data |-> e.data]
  BY DEF Entries
<1> QED BY <1>1, <1>2 DEF Entries, NoEntry, Folder, Whole, Link, File

Frames == [dir : Paths \cup {None}, left : SUBSET Paths]

\* The innermost recursive call is the last of the stack.
LEMMA FrameIs ==
  ASSUME TypeOK, Len(stack) >= 1
  PROVE  /\ Frame = stack[Len(stack)] /\ Len(stack) \in 1 .. Len(stack)
         /\ Frame \in Frames
         /\ \A k \in 1 .. Len(stack) : stack[k] \in Frames
<1>1. stack \in Seq(Frames)
  BY DEF TypeOK, Frames
<1>2. Len(stack) \in Nat /\ \A k \in 1 .. Len(stack) : stack[k] \in Frames
  BY <1>1
<1>3. Len(stack) \in 1 .. Len(stack)
  BY <1>2
<1> QED BY <1>2, <1>3 DEF Frame, Last

\* Returning from a listing drops the last call and keeps the others.
LEMMA FrontIs ==
  ASSUME TypeOK, Len(stack) >= 1
  PROVE  /\ Front(stack) \in Seq(Frames) /\ Len(Front(stack)) = Len(stack) - 1
         /\ \A k \in 1 .. Len(stack) - 1 : Front(stack)[k] = stack[k]
<1> DEFINE n == Len(stack) - 1
           f == SubSeq(stack, 1, n)
<1>1. stack \in Seq(Frames)
  BY DEF TypeOK, Frames
<1>2. n \in Nat /\ \A k \in 1 .. n : stack[k] \in Frames
  BY <1>1
<1>3. /\ f \in Seq(Frames) /\ Len(f) = IF 1 <= n THEN n - 1 + 1 ELSE 0
      /\ \A k \in 1 .. n - 1 + 1 : f[k] = stack[1 + k - 1]
  BY <1>2, SubSeqProperties
<1>4. Front(stack) = f
  BY DEF Front
<1> HIDE DEF f, n
<1>5. f \in Seq(Frames) /\ Len(f) = n /\ \A k \in 1 .. n : f[k] = stack[k]
  BY <1>2, <1>3
<1>6. n = Len(stack) - 1
  BY DEF n
<1> QED BY <1>4, <1>5, <1>6

\* Being done with an entry takes it, and no other, from the innermost listing.
LEMMA DoneIs ==
  ASSUME TypeOK, Len(stack) >= 1, NEW p \in Paths
  PROVE  /\ Done(p) \in Seq(Frames) /\ Len(Done(p)) = Len(stack)
         /\ \A k \in 1 .. Len(stack) :
              /\ Done(p)[k].dir = stack[k].dir /\ Done(p)[k].left \subseteq stack[k].left
              /\ stack[k].left \ {p} \subseteq Done(p)[k].left
<1> DEFINE f == [Frame EXCEPT !.left = @ \ {p}]
<1>1. f \in Frames /\ f.dir = Frame.dir /\ f.left = Frame.left \ {p}
  BY FrameIs DEF Frames
<1>2. Done(p) = Append(Front(stack), f)
  BY DEF Done
<1>3. Done(p) \in Seq(Frames) /\ Len(Done(p)) = Len(stack) /\ Done(p)[Len(stack)] = f
  BY <1>1, <1>2, FrontIs DEF TypeOK
<1>4. \A k \in 1 .. Len(stack) - 1 : Done(p)[k] = stack[k]
  BY <1>1, <1>2, FrontIs DEF TypeOK
<1>5. \A k \in 1 .. Len(stack) : k = Len(stack) \/ k \in 1 .. Len(stack) - 1
  BY DEF TypeOK
<1> QED BY <1>1, <1>3, <1>4, <1>5, FrameIs

\* Entering a directory is being done with it, and one more call.
LEMMA EnterIs ==
  ASSUME TypeOK, Len(stack) >= 1, NEW p \in Paths, NEW entries \in SUBSET Paths
  PROVE  /\ Enter(p, entries) \in Seq(Frames) /\ Len(Enter(p, entries)) = Len(stack) + 1
         /\ \A k \in 1 .. Len(stack) :
              /\ Enter(p, entries)[k].dir = stack[k].dir
              /\ Enter(p, entries)[k].left \subseteq stack[k].left
              /\ stack[k].left \ {p} \subseteq Enter(p, entries)[k].left
         /\ Enter(p, entries)[Len(stack) + 1].dir = p
         /\ Enter(p, entries)[Len(stack) + 1].left = entries
<1> DEFINE f == [dir |-> p, left |-> entries]
<1>1. f \in Frames /\ f.dir = p /\ f.left = entries
  BY DEF Frames
<1>2. Enter(p, entries) = Append(Done(p), f)
  BY DEF Enter
<1>3. /\ Enter(p, entries) \in Seq(Frames) /\ Len(Enter(p, entries)) = Len(stack) + 1
      /\ Enter(p, entries)[Len(stack) + 1] = f
  BY <1>1, <1>2, DoneIs DEF TypeOK
<1>4. \A k \in 1 .. Len(stack) : Enter(p, entries)[k] = Done(p)[k]
  BY <1>1, <1>2, DoneIs DEF TypeOK
<1> QED BY <1>1, <1>3, <1>4, DoneIs

\* A walk begins with one call, and one entry to visit.
LEMMA CallingIs ==
  ASSUME NEW p \in Paths
  PROVE  /\ Calling(p) \in Seq(Frames) /\ Len(Calling(p)) = 1
         /\ Calling(p)[1].dir = None /\ Calling(p)[1].left = {p}
BY DEF Calling, Frames

-----------------------------------------------------------------------------
(* Steps                                                                   *)

\* Where a walk returns to.
LEMMA ReturnIs ==
  ASSUME TypeOK, OpFits, NEW w \in Walks, NEW r \in BOOLEAN, pc = w, Return(w, r)
  PROVE  /\ step' = r
         /\ Syncing => pc' = "end"
         /\ ~Syncing /\ w = "down" => pc' = IF r THEN "up" ELSE "clean"
         /\ ~Syncing /\ w = "up" => pc' = "clean"
         /\ ~Syncing /\ w = "del" => pc' \in {"deleted", "next"}
         /\ stack' = IF pc' = "up" THEN Calling(cur) ELSE <<>>
BY DEF Return, Walks

\* The files a walk reads and writes.
LEMMA FilesAre ==
  ASSUME TypeOK, LinksFit, NEW w \in {"down", "up"}, NEW p \in Paths
  PROVE  From(w, p) \in Entries /\ Into(w, p) \in Entries
<1>1. server[to] \in [Paths -> Entries] /\ server["panel"] \in [Paths -> Entries]
  BY DEF TypeOK
<1>2. Real(p) \in Paths
  BY TreeAssumption DEF Real, LinksFit
<1> QED BY <1>1, <1>2 DEF From, Into, TypeOK

\* What a download or an upload leaves is what was there, or a file it could
\* write; when it succeeds from the start, what it has read, or less of it.
LEMMA TransferIs ==
  ASSUME TypeOK, LinksFit, NEW w \in {"down", "up"}, NEW p \in Paths, NEW off \in Nat,
         off = 0 \/ off \in 1 .. Len(Into(w, p).data), Transfer(w, p, off)
  PROVE  /\ short \subseteq short' /\ short' \subseteq Paths
         /\ \E e \in Entries :
              /\ Put(w, p, e)
              /\ e # Into(w, p) => Writable(w, p) /\ e.kind \in {"none", "file"}
              /\ \/ Return(w, FALSE) /\ cancelled' \in BOOLEAN
                 \/ /\ stack' = Done(p) /\ UNCHANGED <<pc, step, cancelled>>
                    /\ off = 0 => e = From(w, p) \/ p \in short'
<1> DEFINE read == From(w, p).data
           Written(n) == SubSeq(Into(w, p).data, 1, off) \o SubSeq(read, off + 1, n)
<1>1. PICK r \in Outcomes(w, p, off) :
        /\ Put(w, p, r.entry)
        /\ IF r.ok THEN stack' = Done(p) /\ UNCHANGED <<pc, step, cancelled>>
                   ELSE Return(w, FALSE) /\ cancelled' \in {FALSE, TRUE}
        /\ short' = IF r.ok /\ Len(r.entry.data) < Len(From(w, p).data) THEN short \cup {p} ELSE short
  BY DEF Transfer
<1>2. read \in Seq(Blocks) /\ Into(w, p).data \in Seq(Blocks) /\ Into(w, p) \in Entries
  BY FilesAre, EntriesAre
<1>3. ASSUME NEW n \in off .. Len(read) PROVE n \in Nat /\ Written(n) \in Seq(Blocks)
  <2>1. SubSeq(Into(w, p).data, 1, off) \in Seq(Blocks)
    BY <1>2
  <2>2. SubSeq(read, off + 1, n) \in Seq(Blocks)
    BY <1>2, <1>3
  <2> QED BY <2>1, <2>2, <1>2, <1>3
<1>4. \/ r.ok = FALSE /\ r.entry = Into(w, p)
      \/ /\ Writable(w, p) /\ From(w, p).kind = "file" /\ r.ok = TRUE
         /\ \E n \in off .. Len(read) : r.entry = File(Written(n))
      \/ /\ Writable(w, p) /\ r.ok = FALSE
         /\ r.entry = NoEntry \/ \E n \in off .. Len(read) : r.entry = File(Written(n))
  BY DEF Outcomes
<1>5. short \subseteq short' /\ short' \subseteq Paths
  BY <1>1 DEF TypeOK
<1>6. CASE r.ok = FALSE /\ r.entry = Into(w, p)
  BY <1>1, <1>2, <1>5, <1>6
<1>7. CASE /\ Writable(w, p) /\ From(w, p).kind = "file" /\ r.ok = TRUE
           /\ \E n \in off .. Len(read) : r.entry = File(Written(n))
  <2>1. PICK n \in off .. Len(read) : r.entry = File(Written(n))
    BY <1>7
  <2>2. r.entry \in Entries /\ r.entry.kind = "file" /\ r.entry.data = Written(n)
    BY <1>3, <2>1, EntriesAre
  <2>3. off = 0 => r.entry = From(w, p) \/ p \in short'
    <3>1. SUFFICES ASSUME off = 0 PROVE r.entry = From(w, p) \/ p \in short'
      OBVIOUS
    <3>2. n \in Nat /\ n <= Len(read) /\ SubSeq(Into(w, p).data, 1, 0) = <<>>
      BY <1>2, <1>3, <2>1
    <3>3. Written(n) = SubSeq(read, 1, n) /\ Len(SubSeq(read, 1, n)) = n
      BY <3>1, <3>2, <1>2
    <3>4. CASE n = Len(read)
      <4>1. From(w, p) \in Entries
        BY FilesAre
      <4>2. File(From(w, p).data) = From(w, p)
        BY <4>1, <1>7, EntriesAre
      <4>3. Written(n) = read
        <5>1. SubSeq(read, 1, Len(read)) = read
          BY <1>2
        <5> QED BY <5>1, <3>3, <3>4
      <4> QED BY <2>1, <4>2, <4>3
    <3>5. CASE n < Len(read)
      BY <1>1, <1>7, <2>2, <3>3, <3>5
    <3> QED BY <3>2, <3>4, <3>5, <1>2
  <2> QED BY <1>1, <1>5, <1>7, <2>2, <2>3
<1>8. CASE /\ Writable(w, p) /\ r.ok = FALSE
           /\ r.entry = NoEntry \/ \E n \in off .. Len(read) : r.entry = File(Written(n))
  <2>1. r.entry \in Entries /\ r.entry.kind \in {"none", "file"}
    <3>1. CASE r.entry = NoEntry
      BY <3>1, EntriesAre
    <3>2. CASE \E n \in off .. Len(read) : r.entry = File(Written(n))
      <4>1. PICK n \in off .. Len(read) : r.entry = File(Written(n))
        BY <3>2
      <4> QED BY <4>1, <1>3, EntriesAre
    <3> QED BY <3>1, <3>2, <1>8
  <2> QED BY <1>1, <1>5, <1>8, <2>1
<1> QED BY <1>4, <1>6, <1>7, <1>8

\* What a step of a walk may write at a file, and when it is done with it.
FileEffect(w, p) ==
  \E e \in Entries :
    /\ Put(w, p, e) \/ (e = Into(w, p) /\ UNCHANGED <<server, disk>>)
    /\ e # Into(w, p) => Writable(w, p) /\ e.kind \in {"none", "file"}
    /\ e # Into(w, p) /\ w = "up" /\ Into(w, p).kind = "file" =>
         Syncing \/ p \in agreed' \cup resumed' \cup blind'
    /\ \/ Return(w, FALSE)
       \/ /\ stack' = Done(p) /\ UNCHANGED <<pc, step>>
          /\ \/ e = From(w, p)
             \/ p \in resumed' \cup short'
             \/ p \in skipped' /\ (Syncing => Len(e.data) = Len(From(w, p).data))

\* What the steps of a walk at a file have in common.
FileStep(w, p) ==
  /\ pc = w /\ p \in Frame.left /\ ~IsDir(w, p)
  /\ UNCHANGED <<op, to, todo, cur, selected, panel0, disk0, target0, seen, kept>>
  /\ resumed \subseteq resumed' /\ skipped \subseteq skipped' /\ short \subseteq short'
  /\ agreed \subseteq agreed' /\ blind \subseteq blind'
  /\ agreed' \cup resumed' \cup skipped' \cup blind' \cup short' \subseteq Paths
  /\ Syncing => resumed' = resumed
  /\ ovrMode' \in 0 .. 2 /\ cancelled' \in BOOLEAN
  /\ ovrMode' = 1 => ovrMode = 1 \/ agreed' = Paths
  /\ FileEffect(w, p)

\* The six answers to a file are one kind of step.  A file that is new is written, or
\* was not seen by PathType.
LEMMA TakeNewFileIs ==
  ASSUME IndInv, NEW w \in {"down", "up"}, NEW p \in Paths, TakeNewFile(w, p)
  PROVE  FileStep(w, p)
<1>1. TypeOK /\ LinksFit
  BY DEF IndInv
<1>2. /\ pc = w /\ p \in Frame.left /\ ~IsDir(w, p) /\ ~Syncing /\ Transfer(w, p, 0)
      /\ blind' = IF w = "up" /\ Into(w, p).kind = "file" THEN blind \cup {p} ELSE blind
      /\ UNCHANGED <<op, to, todo, cur, selected, panel0, disk0, target0, seen, kept>>
      /\ UNCHANGED <<ovrMode, agreed, resumed, skipped>>
  BY DEF TakeNewFile, Visiting, opVars
<1>3. PICK e \in Entries :
           /\ Put(w, p, e)
           /\ e # Into(w, p) => Writable(w, p) /\ e.kind \in {"none", "file"}
           /\ \/ Return(w, FALSE) /\ cancelled' \in BOOLEAN
              \/ /\ stack' = Done(p) /\ UNCHANGED <<pc, step, cancelled>>
                 /\ 0 = 0 => e = From(w, p) \/ p \in short'
  BY <1>1, <1>2, TransferIs
<1>9. short \subseteq short' /\ short' \subseteq Paths
  BY <1>1, <1>2, TransferIs
<1>4. blind \subseteq blind' /\ agreed' \cup resumed' \cup skipped' \cup blind' \cup short' \subseteq Paths
  BY <1>1, <1>2, <1>9 DEF TypeOK
<1>5. ovrMode' \in 0 .. 2 /\ cancelled' \in BOOLEAN
  BY <1>1, <1>2, <1>3 DEF TypeOK
<1>6. w = "up" /\ Into(w, p).kind = "file" => p \in blind'
  BY <1>2
<1>7. FileEffect(w, p)
  BY <1>2, <1>3, <1>6 DEF FileEffect
<1>8. resumed \subseteq resumed' /\ skipped \subseteq skipped' /\ agreed \subseteq agreed'
  BY <1>2
<1> QED BY <1>2, <1>4, <1>5, <1>7, <1>8, <1>9 DEF FileStep

\* A file that is resumed, or transferred again, was asked for.
LEMMA ResumeIs ==
  ASSUME IndInv, NEW w \in {"down", "up"}, NEW p \in Paths, Resume(w, p)
  PROVE  FileStep(w, p)
<1> DEFINE off0 == Len(Into(w, p).data)
<1>1. TypeOK /\ LinksFit
  BY DEF IndInv
<1>2. /\ pc = w /\ p \in Frame.left /\ ~IsDir(w, p) /\ ~Syncing /\ Shorter(w, p)
      /\ UNCHANGED <<op, to, todo, cur, selected, panel0, disk0, target0, seen, kept>>
      /\ UNCHANGED <<ovrMode, skipped, blind>>
      /\ \/ Transfer(w, p, off0) /\ resumed' = resumed \cup {p} /\ UNCHANGED agreed
         \/ /\ Transfer(w, p, 0)
            /\ agreed' = (IF w = "up" THEN agreed \cup {p} ELSE agreed) /\ UNCHANGED resumed
  BY DEF Resume, AtTaken, Visiting, opVars
<1>3. off0 \in Nat /\ off0 \in 1 .. Len(Into(w, p).data)
  <2>1. Into(w, p).data \in Seq(Blocks)
    BY <1>1, FilesAre, EntriesAre
  <2>2. off0 \in Nat
    BY <2>1
  <2> QED BY <2>2, <1>2, <1>1, FilesAre, EntriesAre DEF Shorter
<1>4. PICK e \in Entries :
           /\ Put(w, p, e)
           /\ e # Into(w, p) => Writable(w, p) /\ e.kind \in {"none", "file"}
           /\ \/ Return(w, FALSE) /\ cancelled' \in BOOLEAN
              \/ /\ stack' = Done(p) /\ UNCHANGED <<pc, step, cancelled>>
                 /\ e = From(w, p) \/ p \in resumed' \cup short'
  <2>1. CASE Transfer(w, p, off0) /\ resumed' = resumed \cup {p}
    <3>1. \E e \in Entries :
           /\ Put(w, p, e)
           /\ e # Into(w, p) => Writable(w, p) /\ e.kind \in {"none", "file"}
           /\ \/ Return(w, FALSE) /\ cancelled' \in BOOLEAN
              \/ /\ stack' = Done(p) /\ UNCHANGED <<pc, step, cancelled>>
                 /\ off0 = 0 => e = From(w, p) \/ p \in short'
      BY <1>1, <1>3, <2>1, TransferIs
    <3> QED BY <3>1, <2>1
  <2>2. CASE Transfer(w, p, 0)
    <3>1. \E e \in Entries :
           /\ Put(w, p, e)
           /\ e # Into(w, p) => Writable(w, p) /\ e.kind \in {"none", "file"}
           /\ \/ Return(w, FALSE) /\ cancelled' \in BOOLEAN
              \/ /\ stack' = Done(p) /\ UNCHANGED <<pc, step, cancelled>>
                 /\ 0 = 0 => e = From(w, p) \/ p \in short'
      BY <1>1, <2>2, TransferIs
    <3> QED BY <3>1, <2>2
  <2> QED BY <1>2, <2>1, <2>2
<1>9. short \subseteq short' /\ short' \subseteq Paths
  BY <1>1, <1>2, <1>3, TransferIs
<1>5. /\ resumed \subseteq resumed' /\ agreed \subseteq agreed'
      /\ agreed' \cup resumed' \cup skipped' \cup blind' \cup short' \subseteq Paths
      /\ w = "up" => p \in agreed' \cup resumed' \cup blind'
  BY <1>1, <1>2, <1>9 DEF TypeOK
<1>6. ovrMode' \in 0 .. 2 /\ cancelled' \in BOOLEAN
  BY <1>1, <1>2, <1>4 DEF TypeOK
<1>7. FileEffect(w, p)
  BY <1>2, <1>4, <1>5 DEF FileEffect
<1>8. skipped \subseteq skipped' /\ blind \subseteq blind' /\ ovrMode' = ovrMode
  BY <1>2
<1> QED BY <1>2, <1>5, <1>6, <1>7, <1>8, <1>9 DEF FileStep

\* A file that is overwritten was asked for, now or with "All" before.
LEMMA OverwriteIs ==
  ASSUME IndInv, NEW w \in {"down", "up"}, NEW p \in Paths, Overwrite(w, p)
  PROVE  FileStep(w, p)
<1>1. TypeOK /\ LinksFit /\ AnswersFit /\ OpFits
  BY DEF IndInv
<1>2. /\ pc = w /\ p \in Frame.left /\ ~IsDir(w, p) /\ ~Syncing /\ Transfer(w, p, 0)
      /\ UNCHANGED <<op, to, todo, cur, selected, panel0, disk0, target0, seen, kept>>
      /\ UNCHANGED <<resumed, skipped, blind>>
      /\ \/ ovrMode = 0 /\ ovrMode' = 0 /\ agreed' = (IF w = "up" THEN agreed \cup {p} ELSE agreed)
         \/ ovrMode = 0 /\ ovrMode' = 1 /\ agreed' = Paths
         \/ ovrMode = 1 /\ UNCHANGED <<ovrMode, agreed>>
  BY DEF Overwrite, AtTaken, Visiting, opVars
<1>3. PICK e \in Entries :
           /\ Put(w, p, e)
           /\ e # Into(w, p) => Writable(w, p) /\ e.kind \in {"none", "file"}
           /\ \/ Return(w, FALSE) /\ cancelled' \in BOOLEAN
              \/ /\ stack' = Done(p) /\ UNCHANGED <<pc, step, cancelled>>
                 /\ 0 = 0 => e = From(w, p) \/ p \in short'
  BY <1>1, <1>2, TransferIs
<1>4. op # None
  BY <1>1, <1>2 DEF OpFits
<1>5. ovrMode = 1 => agreed = Paths
  BY <1>1, <1>4 DEF AnswersFit
<1>11. short \subseteq short' /\ short' \subseteq Paths
  BY <1>1, <1>2, TransferIs
<1>6. /\ agreed \subseteq agreed' /\ agreed' \cup resumed' \cup skipped' \cup blind' \cup short' \subseteq Paths
      /\ w = "up" => p \in agreed'
      /\ ovrMode' = 1 => ovrMode = 1 \/ agreed' = Paths
  BY <1>1, <1>2, <1>5, <1>11 DEF TypeOK
<1>7. ovrMode' \in 0 .. 2
  BY <1>1, <1>2 DEF TypeOK
<1>8. cancelled' \in BOOLEAN
  BY <1>1, <1>3 DEF TypeOK
<1>9. FileEffect(w, p)
  BY <1>2, <1>3, <1>6 DEF FileEffect
<1>10. resumed \subseteq resumed' /\ skipped \subseteq skipped' /\ blind \subseteq blind' /\ resumed' = resumed
  BY <1>2
<1> QED BY <1>2, <1>6, <1>7, <1>8, <1>9, <1>10, <1>11 DEF FileStep

\* A file that is skipped is not written.
LEMMA SkipIs ==
  ASSUME IndInv, NEW w \in {"down", "up"}, NEW p \in Paths, Skip(w, p)
  PROVE  FileStep(w, p)
<1>1. TypeOK /\ LinksFit
  BY DEF IndInv
<1>2. /\ pc = w /\ p \in Frame.left /\ ~IsDir(w, p) /\ ~Syncing /\ ovrMode # 1
      /\ UNCHANGED <<op, to, todo, cur, selected, panel0, disk0, target0, seen, kept>>
      /\ UNCHANGED <<server, disk, pc, step, cancelled, resumed, agreed, blind, short>>
      /\ stack' = Done(p) /\ skipped' = skipped \cup {p} /\ ovrMode' \in {ovrMode, 2}
  BY DEF Skip, AtTaken, Visiting, opVars
<1>3. Into(w, p) \in Entries
  BY <1>1, FilesAre
<1>4. /\ agreed' \cup resumed' \cup skipped' \cup blind' \cup short' \subseteq Paths
      /\ p \in skipped' /\ skipped \subseteq skipped'
      /\ ovrMode' \in 0 .. 2 /\ cancelled' \in BOOLEAN /\ ovrMode' # 1
  BY <1>1, <1>2 DEF TypeOK
<1>5. FileEffect(w, p)
  BY <1>2, <1>3, <1>4 DEF FileEffect
<1>6. resumed \subseteq resumed' /\ agreed \subseteq agreed' /\ blind \subseteq blind'
  BY <1>2
<1> QED BY <1>2, <1>4, <1>5, <1>6 DEF FileStep

\* A question that is cancelled ends the walk.
LEMMA CancelAtQuestionIs ==
  ASSUME IndInv, NEW w \in {"down", "up"}, NEW p \in Paths, CancelAtQuestion(w, p)
  PROVE  FileStep(w, p)
<1>1. TypeOK /\ LinksFit
  BY DEF IndInv
<1>2. /\ pc = w /\ p \in Frame.left /\ ~IsDir(w, p) /\ ~Syncing
      /\ UNCHANGED <<op, to, todo, cur, selected, panel0, disk0, target0, seen, kept>>
      /\ UNCHANGED <<server, disk, ovrMode, resumed, skipped, agreed, blind, short>>
      /\ cancelled' = TRUE /\ Return(w, FALSE)
  BY DEF CancelAtQuestion, AtTaken, Visiting, opVars, ghosts
<1>3. Into(w, p) \in Entries
  BY <1>1, FilesAre
<1>4. /\ agreed' \cup resumed' \cup skipped' \cup blind' \cup short' \subseteq Paths
      /\ ovrMode' \in 0 .. 2 /\ cancelled' \in BOOLEAN
  BY <1>1, <1>2 DEF TypeOK
<1>5. FileEffect(w, p)
  BY <1>2, <1>3 DEF FileEffect
<1>6. UNCHANGED <<resumed, skipped, agreed, blind, short, ovrMode>>
  BY <1>2
<1> QED BY <1>2, <1>4, <1>5, <1>6 DEF FileStep

\* A synchronisation skips a file of the same size, or writes it.
LEMMA SyncFileIs ==
  ASSUME IndInv, NEW w \in {"down", "up"}, NEW p \in Paths, SyncFile(w, p)
  PROVE  FileStep(w, p)
<1>1. TypeOK /\ LinksFit
  BY DEF IndInv
<1>2. /\ pc = w /\ p \in Frame.left /\ ~IsDir(w, p) /\ Syncing
      /\ UNCHANGED <<op, to, todo, cur, selected, panel0, disk0, target0, seen, kept>>
      /\ UNCHANGED <<ovrMode, resumed, agreed, blind>>
      /\ \/ /\ SyncSkips(w, p)
            /\ stack' = Done(p) /\ skipped' = skipped \cup {p}
            /\ UNCHANGED <<server, disk, pc, step, cancelled, short>>
         \/ Transfer(w, p, 0) /\ UNCHANGED skipped
  BY DEF SyncFile, Visiting, opVars
<1>3. Into(w, p) \in Entries
  BY <1>1, FilesAre
<1>7. short \subseteq short' /\ short' \subseteq Paths
  <2>1. CASE UNCHANGED short
    BY <1>1, <2>1 DEF TypeOK
  <2>2. CASE Transfer(w, p, 0)
    BY <1>1, <2>2, TransferIs
  <2> QED BY <1>2, <2>1, <2>2
<1>4. /\ agreed' \cup resumed' \cup skipped' \cup blind' \cup short' \subseteq Paths
      /\ skipped \subseteq skipped' /\ ovrMode' \in 0 .. 2
  BY <1>1, <1>2, <1>7 DEF TypeOK
<1>5. /\ resumed \subseteq resumed' /\ agreed \subseteq agreed' /\ blind \subseteq blind'
      /\ resumed' = resumed /\ ovrMode' = ovrMode
  BY <1>2
<1>6. cancelled' \in BOOLEAN /\ FileEffect(w, p)
  <2>1. CASE SyncSkips(w, p) /\ stack' = Done(p) /\ skipped' = skipped \cup {p}
             /\ UNCHANGED <<server, disk, pc, step, cancelled, short>>
    <3>1. p \in skipped' /\ Len(Into(w, p).data) = Len(From(w, p).data)
      BY <2>1 DEF SyncSkips
    <3>2. FileEffect(w, p)
      BY <1>2, <1>3, <2>1, <3>1 DEF FileEffect
    <3> QED BY <1>1, <2>1, <3>2 DEF TypeOK
  <2>2. CASE Transfer(w, p, 0)
    <3>1. PICK e \in Entries :
             /\ Put(w, p, e)
             /\ e # Into(w, p) => Writable(w, p) /\ e.kind \in {"none", "file"}
             /\ \/ Return(w, FALSE) /\ cancelled' \in BOOLEAN
                \/ /\ stack' = Done(p) /\ UNCHANGED <<pc, step, cancelled>>
                   /\ 0 = 0 => e = From(w, p) \/ p \in short'
      BY <1>1, <2>2, TransferIs
    <3>2. cancelled' \in BOOLEAN
      BY <1>1, <3>1 DEF TypeOK
    <3>3. FileEffect(w, p)
      BY <1>2, <3>1 DEF FileEffect
    <3> QED BY <3>2, <3>3
  <2> QED BY <1>2, <2>1, <2>2
<1> QED BY <1>2, <1>4, <1>5, <1>6, <1>7 DEF FileStep

-----------------------------------------------------------------------------
(* Where a walk is                                                         *)

\* Of an item in work: it is an entry of the top directory, and shares nothing
\* with the other items.
LEMMA ItemIs ==
  ASSUME TypeOK, OpFits, ItemsFit, Copying \/ pc = "del"
  PROVE  /\ op # None /\ cur \in Paths
         /\ Syncing => cur = Top
         /\ ~Syncing => /\ op \in {"copy", "move", "delete"} /\ (Copying => op # "delete")
                        /\ cur \in selected /\ cur # Top /\ Parent[cur] = Top /\ panel0[cur] # NoEntry
                        /\ Top \notin Below(cur)
                        /\ \A i \in selected : i # cur => Below(i) \cap Below(cur) = {}
<1>1. op # None /\ cur \in Paths /\ selected \subseteq Paths /\ (Syncing => cur = Top)
  BY DEF TypeOK, OpFits, Copying
<1>2. ~Syncing => op \in {"copy", "move", "delete"} /\ (Copying => op # "delete")
  BY <1>1 DEF TypeOK, OpFits, Copying, Syncing, Ops
<1>3. \A i \in selected : i # Top /\ Parent[i] = Top /\ panel0[i] # NoEntry
  BY DEF ItemsFit
<1>4. ~Syncing => cur \in selected
  BY DEF ItemsFit
<1>5. ~Syncing => Top \notin Below(cur)
  BY <1>1, <1>3, <1>4, BelowIs
<1>6. ~Syncing => \A i \in selected : i # cur => Below(i) \cap Below(cur) = {}
  BY <1>1, <1>3, <1>4, Disjoint
<1> QED BY <1>1, <1>2, <1>3, <1>4, <1>5, <1>6

\* Of an entry to visit: it belongs to the item in work, and is the item itself in the
\* first call and nowhere else.
LEMMA WalkIs ==
  ASSUME TypeOK, OpFits, ItemsFit, StackFits, NEW w \in Walks, pc = w, NEW p \in Frame.left
  PROVE  /\ Len(stack) >= 1 /\ p \in Paths /\ p \in Below(cur)
         /\ Frame.dir = None => p = cur
         /\ Frame.dir # None =>
              p # Top /\ Parent[p] = Frame.dir /\ Frame.dir \in Below(cur) /\ (~Syncing => p # cur)
         /\ ~Syncing /\ Copying /\ panel0[cur].kind # "dir" => p = cur
<1>1. Len(stack) >= 1
  BY DEF StackFits
<1>2. Frame = stack[Len(stack)] /\ Len(stack) \in 1 .. Len(stack) /\ Frame \in Frames
  BY <1>1, FrameIs
<1>3. /\ Frame.left \subseteq Below(cur) /\ Frame.dir \in Below(cur) \cup {None}
      /\ Frame.dir = None => Frame.left \subseteq {cur}
      /\ Frame.dir # None => \A x \in Frame.left : x # Top /\ Parent[x] = Frame.dir
      /\ Copying /\ ~Syncing /\ panel0[cur].kind # "dir" => Frame.left \subseteq {cur}
  BY <1>2 DEF StackFits
<1>4. p \in Paths
  BY <1>2 DEF Frames
<1>5. Copying \/ pc = "del"
  BY DEF Walks, Copying
<1>6. Frame.dir # None /\ ~Syncing => p # cur
  BY <1>3, <1>5, ItemIs
<1> QED BY <1>1, <1>3, <1>4, <1>6

\* A step at a file keeps the walk below its item.
LEMMA StackDone ==
  ASSUME TypeOK, StackFits, NEW p \in Paths, Len(stack) >= 1, stack' = Done(p),
         UNCHANGED <<pc, cur, op, panel0>>
  PROVE  StackFits' /\ stack' \in Seq(Frames) /\ Len(stack') = Len(stack)
<1>1. /\ stack' \in Seq(Frames) /\ Len(stack') = Len(stack)
      /\ \A k \in 1 .. Len(stack) : stack'[k].dir = stack[k].dir /\ stack'[k].left \subseteq stack[k].left
  BY DoneIs
<1>2. pc' = pc /\ cur' = cur /\ op' = op /\ panel0' = panel0 /\ (Copying' <=> Copying) /\ (Syncing' <=> Syncing)
  BY DEF Copying, Syncing
<1> QED BY <1>1, <1>2 DEF StackFits

\* When no walk is under way there is nothing to keep.
LEMMA StackEmpty ==
  ASSUME stack' = <<>>, pc' \notin Walks
  PROVE  StackFits' /\ stack' \in Seq(Frames)
BY DEF StackFits, Frames

\* A walk that begins is below its item.
LEMMA StackCall ==
  ASSUME cur' \in Paths, stack' = Calling(cur')
  PROVE  StackFits' /\ stack' \in Seq(Frames)
<1>1. /\ stack' \in Seq(Frames) /\ Len(stack') = 1
      /\ stack'[1].dir = None /\ stack'[1].left = {cur'}
  BY CallingIs
<1>2. cur' \in Below(cur')
  BY BelowIs
<1> QED BY <1>1, <1>2 DEF StackFits

-----------------------------------------------------------------------------
(* A file of a download                                                    *)

\* It writes that file and no other, in a directory that is there.
LEMMA DownFileIs ==
  ASSUME IndInv, NEW p \in Paths, FileStep("down", p)
  PROVE  \E e \in Entries :
           /\ UNCHANGED server /\ disk' = [disk EXCEPT ![p] = e]
           /\ e # disk[p] => /\ disk[p] # Folder /\ e # Folder /\ e # Link
                            /\ p # Top /\ disk[Parent[p]] = Folder
           /\ \/ Return("down", FALSE)
              \/ /\ stack' = Done(p) /\ UNCHANGED <<pc, step>>
                 /\ \/ e = server["panel"][Real(p)]
                    \/ p \in resumed' \cup short'
                    \/ p \in skipped' /\ (Syncing => Len(e.data) = Len(server["panel"][Real(p)].data))
<1>1. TypeOK /\ DiskIsTree
  BY DEF IndInv
<1>2. PICK e \in Entries :
        /\ Put("down", p, e) \/ (e = Into("down", p) /\ UNCHANGED <<server, disk>>)
        /\ e # Into("down", p) => Writable("down", p) /\ e.kind \in {"none", "file"}
        /\ \/ Return("down", FALSE)
           \/ /\ stack' = Done(p) /\ UNCHANGED <<pc, step>>
              /\ \/ e = From("down", p)
                 \/ p \in resumed' \cup short'
                 \/ p \in skipped' /\ (Syncing => Len(e.data) = Len(From("down", p).data))
  BY DEF FileStep, FileEffect
<1>3. From("down", p) = server["panel"][Real(p)] /\ Into("down", p) = disk[p]
  BY DEF From, Into
<1>4. disk \in [Paths -> Entries] /\ disk[p] \in Entries
  BY <1>1 DEF TypeOK
<1>5. e # disk[p] => /\ disk[p] # Folder /\ e # Folder /\ e # Link
                     /\ p # Top /\ disk[Parent[p]] = Folder
  BY <1>1, <1>2, <1>3, <1>4, EntriesAre DEF Writable, DiskIsTree
<1>6. e # NoEntry => \A q \in Above[p] : disk[q] # NoEntry
  <2>1. CASE e = disk[p]
    BY <2>1, <1>1, <1>4, TreeAbove, EntriesAre
  <2>2. CASE e # disk[p]
    <3>1. disk[Parent[p]] = Folder /\ Parent[p] \in Paths /\ Above[p] = {Parent[p]} \cup Above[Parent[p]]
      BY <2>2, <1>5, AboveIs
    <3>2. disk[Parent[p]] # NoEntry
      BY <3>1, EntriesAre
    <3>3. \A q \in Above[Parent[p]] : disk[q] = Folder
      BY <1>1, <1>4, <3>1, <3>2, TreeAbove
    <3> QED BY <3>1, <3>2, <3>3, EntriesAre
  <2> QED BY <2>1, <2>2
<1>7. UNCHANGED server /\ disk' = [disk EXCEPT ![p] = e]
  <2>1. CASE Put("down", p, e)
    <3>1. UNCHANGED server /\ disk' = With(disk, p, e)
      BY <2>1 DEF Put
    <3>2. disk' = [q \in Paths |-> IF q = p THEN e ELSE disk[q]]
      BY <3>1, <1>6 DEF With
    <3> QED BY <3>1, <3>2, <1>4
  <2>2. CASE e = disk[p] /\ UNCHANGED <<server, disk>>
    BY <2>2, <1>4
  <2> QED BY <1>2, <1>3, <2>1, <2>2
<1> QED BY <1>2, <1>3, <1>5, <1>7

\* A file of a download keeps the invariant: it is copied, or the walk is over.
LEMMA DownFileKeeps ==
  ASSUME IndInv, NEW p \in Paths, FileStep("down", p)
  PROVE  IndInv'
<1> USE DEF IndInv
<1>1. /\ pc = "down" /\ p \in Frame.left /\ ~IsDir("down", p)
      /\ UNCHANGED <<op, to, todo, cur, selected, panel0, disk0, target0, seen, kept>>
      /\ resumed \subseteq resumed' /\ skipped \subseteq skipped' /\ short \subseteq short'
      /\ agreed \subseteq agreed' /\ blind \subseteq blind'
      /\ agreed' \cup resumed' \cup skipped' \cup blind' \cup short' \subseteq Paths
      /\ Syncing => resumed' = resumed
      /\ ovrMode' \in 0 .. 2 /\ cancelled' \in BOOLEAN
      /\ ovrMode' = 1 => ovrMode = 1 \/ agreed' = Paths
  BY DEF FileStep
<1>2. PICK e \in Entries :
           /\ UNCHANGED server /\ disk' = [disk EXCEPT ![p] = e]
           /\ e # disk[p] => /\ disk[p] # Folder /\ e # Folder /\ e # Link
                            /\ p # Top /\ disk[Parent[p]] = Folder
           /\ \/ Return("down", FALSE)
              \/ /\ stack' = Done(p) /\ UNCHANGED <<pc, step>>
                 /\ \/ e = server["panel"][Real(p)]
                    \/ p \in resumed' \cup short'
                    \/ p \in skipped' /\ (Syncing => Len(e.data) = Len(server["panel"][Real(p)].data))
  BY DownFileIs
<1>3. /\ Len(stack) >= 1 /\ p \in Below(cur)
      /\ Frame.dir = None => p = cur
      /\ ~Syncing /\ panel0[cur].kind # "dir" => p = cur
  BY <1>1, WalkIs DEF Walks, Copying
<1>4. \/ /\ step' = FALSE /\ stack' = <<>> /\ (Syncing => pc' = "end") /\ (~Syncing => pc' = "clean")
      \/ /\ stack' = Done(p) /\ UNCHANGED <<pc, step>>
         /\ \/ e = server["panel"][Real(p)]
            \/ p \in resumed' \cup short'
            \/ p \in skipped' /\ (Syncing => Len(e.data) = Len(server["panel"][Real(p)].data))
  BY <1>1, <1>2, ReturnIs DEF Walks
<1>5. /\ server["panel"] \in [Paths -> Entries] /\ disk \in [Paths -> Entries]
      /\ disk' \in [Paths -> Entries] /\ disk'[p] = e
      /\ \A q \in Paths : q # p => disk'[q] = disk[q]
  BY <1>2 DEF TypeOK
<1>6. StackFits' /\ stack' \in Seq(Frames)
  <2>1. CASE stack' = <<>>
    <3>1. pc' \in {"end", "clean"}
      BY <2>1, <1>1, <1>4, DoneIs, <1>3
    <3> QED BY <2>1, <3>1, StackEmpty DEF Walks
  <2>2. CASE stack' = Done(p) /\ UNCHANGED <<pc, step>>
    BY <2>2, <1>1, <1>3, StackDone
  <2> QED BY <1>4, <2>1, <2>2
<1>7. /\ op # None /\ cur \in Paths
      /\ Syncing => cur = Top
      /\ ~Syncing => /\ op \in {"copy", "move"} /\ cur \in selected /\ cur # Top
                     /\ \A i \in selected : i # cur => Below(i) \cap Below(cur) = {}
  BY <1>1, ItemIs DEF Copying
<1>8. Syncing' <=> Syncing
  BY <1>1 DEF Syncing
<1>9. Stable' <=> Stable
  BY <1>1 DEF Stable
<1>10. TypeOK'
  <2>1. stack' \in Seq([dir : Paths \cup {None}, left : SUBSET Paths])
    BY <1>6 DEF Frames
  <2>2. pc' \in Walks \cup {"idle", "next", "clean", "result", "deleted", "end"} /\ step' \in BOOLEAN
    BY <1>4 DEF TypeOK
  <2> QED BY <1>1, <1>2, <1>5, <2>1, <2>2 DEF TypeOK
<1>11. OpFits'
  BY <1>1, <1>4, <1>7, <1>8 DEF OpFits
<1>12. ItemsFit'
  BY <1>1, <1>4, <1>7, <1>8 DEF ItemsFit
<1>13. LateFits' /\ LinksFit'
  BY <1>1, <1>2 DEF LateFits, LinksFit
<1>14. PanelFits'
  BY <1>1, <1>2, <1>9 DEF PanelFits, Copying
<1>15. SeenFits'
  BY <1>1, <1>8, <1>9 DEF SeenFits
<1>16. DiskIsTree'
  BY <1>2, <1>5, EntriesAre, BelowIs DEF DiskIsTree
<1>17. AnswersFit'
  BY <1>1 DEF AnswersFit, TypeOK
<1>18. DownFits'
  <2>1. SUFFICES ASSUME pc' = "down", Stable, NEW q \in seen \cap Below(cur), panel0[q].kind = "file"
                 PROVE  Pending(q)' \/ Copied(q)'
    BY <1>1, <1>9 DEF DownFits
  <2>2. stack' = Done(p)
    BY <1>4, <2>1
  <2>3. q \in Paths /\ (Pending(q) \/ Copied(q))
    BY <1>1, <1>7, <2>1, BelowIs DEF DownFits
  <2>4. CASE q = p
    <3>1. server["panel"][p] = panel0[p]
      BY <1>1, <1>3, <2>1 DEF PanelFits, Copying
    <3>2. Real(p) = p
      BY <3>1, <2>1, <2>4, EntriesAre DEF Real
    <3>3. stack' # <<>>
      BY <2>2, <1>3, DoneIs
    <3>4. \/ e = panel0[p] \/ p \in resumed' \cup short'
          \/ p \in skipped' /\ (Syncing => Len(e.data) = Len(panel0[p].data))
      BY <1>1, <1>4, <2>1, <3>1, <3>2, <3>3
    <3> QED BY <1>1, <1>5, <1>8, <2>4, <3>4 DEF Copied
  <2>5. CASE q # p /\ Pending(q)
    <3>1. PICK k \in 1 .. Len(stack) : q \in stack[k].left
      BY <2>5 DEF Pending
    <3>2. k \in 1 .. Len(stack') /\ q \in stack'[k].left
      BY <3>1, <2>5, <2>2, <1>3, DoneIs
    <3> QED BY <3>2 DEF Pending
  <2>6. CASE q # p /\ Copied(q)
    BY <2>3, <2>6, <1>1, <1>5, <1>8 DEF Copied
  <2> QED BY <2>3, <2>4, <2>5, <2>6
<1>19. UpFits' /\ ArrivedFits'
  BY <1>4, <1>1 DEF UpFits, ArrivedFits
<1>20. TempFits'
  <2>1. SUFFICES ASSUME op \in {"copy", "move"} PROVE TempFits'
    BY <1>1 DEF TempFits
  <2>2. ~Syncing /\ Copying /\ Copying' /\ pc # "idle"
    BY <2>1, <1>1, <1>4 DEF Syncing, Copying
  <2>3. \A i \in selected : i # cur => p \notin Below(i)
    BY <2>2, <1>3, <1>7
  <2>4. selected \subseteq Paths /\ todo \subseteq selected /\ cur \notin todo
    BY DEF ItemsFit, TypeOK
  <2>5. \A i \in selected \ (todo \cup kept) :
          Comparable(i) /\ i # cur => \A q \in Below(i) : disk'[q] = NoEntry
    BY <2>1, <2>2, <2>3, <2>4, <1>5, BelowIs DEF TempFits
  <2>6. \A i \in todo : disk'[i] = disk0[i] /\ server["panel"][i] = panel0[i]
    BY <2>1, <2>2, <2>3, <2>4, <1>5, BelowIs DEF TempFits
  <2>7. (server["panel"][cur].kind = "dir") <=> (panel0[cur].kind = "dir")
    BY <2>1, <2>2 DEF TempFits
  <2>8. Comparable(cur) => /\ disk'[cur].kind = "dir" => panel0[cur].kind = "dir"
                           /\ panel0[cur].kind = "dir" => disk'[cur] \in {NoEntry, Folder}
    <3>1. Comparable(cur) => /\ disk[cur].kind = "dir" => panel0[cur].kind = "dir"
                             /\ panel0[cur].kind = "dir" => disk[cur] \in {NoEntry, Folder}
      BY <2>1, <2>2 DEF TempFits
    <3>2. CASE p # cur
      BY <3>1, <3>2, <1>5, <1>7
    <3>3. CASE p = cur
      <4>1. panel0[cur].kind # "dir"
        BY <1>1, <2>7, <3>3 DEF IsDir
      <4>2. e # disk[p] => e.kind # "dir"
        BY <1>2, EntriesAre
      <4> QED BY <3>1, <3>3, <4>1, <4>2, <1>5
    <3> QED BY <3>2, <3>3
  <2>9. \A i \in selected : Comparable(i)' <=> Comparable(i)
    BY <1>1 DEF Comparable
  <2>10. cur \in selected
    BY <2>2, <1>7
  <2> QED BY <1>1, <1>2, <2>1, <2>2, <2>5, <2>6, <2>7, <2>8, <2>9, <2>10 DEF TempFits
<1>21. NothingElseGoes' /\ NoSilentOverwrite' /\ MoveKeepsData'
  BY <1>1, <1>2 DEF NothingElseGoes, NoSilentOverwrite, MoveKeepsData
<1>22. SyncIsComplete'
  BY <1>4, <1>1 DEF SyncIsComplete
<1> QED BY <1>6, <1>10, <1>11, <1>12, <1>13, <1>14, <1>15, <1>16, <1>17, <1>18, <1>19, <1>20, <1>21, <1>22

-----------------------------------------------------------------------------
(* A file of an upload                                                     *)

\* It writes that file in the tree it writes to, and makes directories above it
\* where nothing was.
LEMMA UpFileIs ==
  ASSUME IndInv, NEW p \in Paths, FileStep("up", p)
  PROVE  \E e \in Entries, t \in [Paths -> Entries] :
           /\ UNCHANGED disk /\ server' = [server EXCEPT ![to] = t]
           /\ t[p] = e
           /\ \A q \in Paths : q # p =>
                t[q] = server[to][q] \/ (q \in Above[p] /\ server[to][q] = NoEntry /\ t[q] = Folder)
           /\ e # server[to][p] =>
                /\ server[to][p] # Folder /\ e # Folder /\ e # Link
                /\ server[to][p].kind = "file" => (Syncing \/ p \in agreed' \cup resumed' \cup blind')
           /\ \/ Return("up", FALSE)
              \/ /\ stack' = Done(p) /\ UNCHANGED <<pc, step>>
                 /\ e = disk[p] \/ p \in resumed' \cup short' \/ p \in skipped'
<1>1. TypeOK
  BY DEF IndInv
<1>2. PICK e \in Entries :
        /\ Put("up", p, e) \/ (e = Into("up", p) /\ UNCHANGED <<server, disk>>)
        /\ e # Into("up", p) => Writable("up", p) /\ e.kind \in {"none", "file"}
        /\ e # Into("up", p) /\ Into("up", p).kind = "file" =>
             Syncing \/ p \in agreed' \cup resumed' \cup blind'
        /\ \/ Return("up", FALSE)
           \/ /\ stack' = Done(p) /\ UNCHANGED <<pc, step>>
              /\ e = From("up", p) \/ p \in resumed' \cup short' \/ p \in skipped'
  BY DEF FileStep, FileEffect
<1>3. From("up", p) = disk[p] /\ Into("up", p) = server[to][p]
  BY DEF From, Into
<1>4. /\ server[to] \in [Paths -> Entries] /\ server[to][p] \in Entries
      /\ server \in [{"panel", "target"} -> [Paths -> Entries]] /\ to \in {"panel", "target"}
  BY <1>1 DEF TypeOK
<1>5. e # server[to][p] =>
        /\ server[to][p] # Folder /\ e # Folder /\ e # Link
        /\ server[to][p].kind = "file" => (Syncing \/ p \in agreed' \cup resumed' \cup blind')
  BY <1>2, <1>3, <1>4, EntriesAre DEF Writable
<1>6. \E t \in [Paths -> Entries] :
        /\ UNCHANGED disk /\ server' = [server EXCEPT ![to] = t]
        /\ t[p] = e
        /\ \A q \in Paths : q # p =>
             t[q] = server[to][q] \/ (q \in Above[p] /\ server[to][q] = NoEntry /\ t[q] = Folder)
  <2>1. CASE Put("up", p, e)
    <3> DEFINE t == With(server[to], p, e)
    <3>1. UNCHANGED disk /\ server' = [server EXCEPT ![to] = t]
      BY <2>1 DEF Put
    <3>2. \A q \in Paths : t[q] = IF q = p THEN e
                                ELSE IF q \in Above[p] /\ e # NoEntry /\ server[to][q] = NoEntry
                                     THEN Folder ELSE server[to][q]
      BY DEF With
    <3>3. t \in [Paths -> Entries]
      <4>1. t = [q \in Paths |-> t[q]]
        BY DEF With
      <4>2. \A q \in Paths : t[q] \in Entries
        BY <3>2, <1>4, EntriesAre
      <4> HIDE DEF t
      <4> QED BY <4>1, <4>2
    <3> HIDE DEF t
    <3> QED BY <3>1, <3>2, <3>3
  <2>2. CASE e = server[to][p] /\ UNCHANGED <<server, disk>>
    <3>1. server' = [server EXCEPT ![to] = server[to]]
      BY <2>2, <1>4
    <3> QED BY <3>1, <2>2, <1>4
  <2> QED BY <1>2, <1>3, <2>1, <2>2
<1> QED BY <1>2, <1>3, <1>5, <1>6

\* A file of an upload keeps the invariant: what was below it on the disk was nothing, so
\* that no file is passed over with it.
LEMMA UpFileKeeps ==
  ASSUME IndInv, NEW p \in Paths, FileStep("up", p)
  PROVE  IndInv'
<1> USE DEF IndInv
<1>1. /\ pc = "up" /\ p \in Frame.left /\ ~IsDir("up", p)
      /\ UNCHANGED <<op, to, todo, cur, selected, panel0, disk0, target0, seen, kept>>
      /\ resumed \subseteq resumed' /\ skipped \subseteq skipped' /\ short \subseteq short'
      /\ agreed \subseteq agreed' /\ blind \subseteq blind'
      /\ agreed' \cup resumed' \cup skipped' \cup blind' \cup short' \subseteq Paths
      /\ Syncing => resumed' = resumed
      /\ ovrMode' \in 0 .. 2 /\ cancelled' \in BOOLEAN
      /\ ovrMode' = 1 => ovrMode = 1 \/ agreed' = Paths
  BY DEF FileStep
<1>2. PICK e \in Entries, t \in [Paths -> Entries] :
           /\ UNCHANGED disk /\ server' = [server EXCEPT ![to] = t]
           /\ t[p] = e
           /\ \A q \in Paths : q # p =>
                t[q] = server[to][q] \/ (q \in Above[p] /\ server[to][q] = NoEntry /\ t[q] = Folder)
           /\ e # server[to][p] =>
                /\ server[to][p] # Folder /\ e # Folder /\ e # Link
                /\ server[to][p].kind = "file" => (Syncing \/ p \in agreed' \cup resumed' \cup blind')
           /\ \/ Return("up", FALSE)
              \/ /\ stack' = Done(p) /\ UNCHANGED <<pc, step>>
                 /\ e = disk[p] \/ p \in resumed' \cup short' \/ p \in skipped'
  BY UpFileIs
<1>3. /\ Len(stack) >= 1 /\ p \in Below(cur)
      /\ Frame.dir = None => p = cur
      /\ Frame.dir # None /\ ~Syncing => p # cur
      /\ ~Syncing /\ panel0[cur].kind # "dir" => p = cur
  BY <1>1, WalkIs DEF Walks, Copying
<1>4. \/ /\ step' = FALSE /\ stack' = <<>> /\ (Syncing => pc' = "end") /\ (~Syncing => pc' = "clean")
      \/ /\ stack' = Done(p) /\ UNCHANGED <<pc, step>>
         /\ e = disk[p] \/ p \in resumed' \cup short' \/ p \in skipped'
  BY <1>1, <1>2, ReturnIs DEF Walks
<1>5. /\ server \in [{"panel", "target"} -> [Paths -> Entries]] /\ to \in {"panel", "target"}
      /\ server' \in [{"panel", "target"} -> [Paths -> Entries]] /\ server'[to] = t
      /\ to = "target" => server'["panel"] = server["panel"]
      /\ to = "panel" => server'["target"] = server["target"]
  BY <1>2 DEF TypeOK
<1>6. StackFits' /\ stack' \in Seq(Frames)
  <2>1. CASE stack' = <<>>
    <3>1. pc' \in {"end", "clean"}
      BY <2>1, <1>1, <1>4, DoneIs, <1>3
    <3> QED BY <2>1, <3>1, StackEmpty DEF Walks
  <2>2. CASE stack' = Done(p) /\ UNCHANGED <<pc, step>>
    BY <2>2, <1>1, <1>3, StackDone
  <2> QED BY <1>4, <2>1, <2>2
<1>7. /\ op # None /\ cur \in Paths /\ op # "syncdown"
      /\ Syncing => cur = Top /\ to = "panel"
      /\ ~Syncing => /\ op \in {"copy", "move"} /\ cur \in selected /\ cur # Top
                     /\ \A i \in selected : i # cur => Below(i) \cap Below(cur) = {}
  BY <1>1, ItemIs DEF Copying, OpFits
<1>8. Syncing' <=> Syncing
  BY <1>1 DEF Syncing
<1>9. (Stable' <=> Stable) /\ (Stable => to = "target" /\ ~Syncing)
  BY <1>1, <1>7 DEF Stable
<1>10. TypeOK'
  <2>1. stack' \in Seq([dir : Paths \cup {None}, left : SUBSET Paths])
    BY <1>6 DEF Frames
  <2>2. pc' \in Walks \cup {"idle", "next", "clean", "result", "deleted", "end"} /\ step' \in BOOLEAN
    BY <1>4 DEF TypeOK
  <2> QED BY <1>1, <1>2, <1>5, <2>1, <2>2 DEF TypeOK
<1>11. OpFits'
  BY <1>1, <1>4, <1>7, <1>8 DEF OpFits
<1>12. ItemsFit'
  BY <1>1, <1>4, <1>7, <1>8 DEF ItemsFit
<1>13. LateFits' /\ LinksFit'
  <2>1. Folder # Link
    BY EntriesAre
  <2> QED BY <1>1, <1>2, <1>5, <2>1 DEF LateFits, LinksFit
<1>14. PanelFits'
  BY <1>1, <1>5, <1>9 DEF PanelFits, Copying
<1>15. SeenFits'
  BY <1>1, <1>8, <1>9 DEF SeenFits
<1>16. DiskIsTree'
  BY <1>2 DEF DiskIsTree
<1>17. AnswersFit'
  BY <1>1 DEF AnswersFit, TypeOK
<1>18. DownFits'
  BY <1>1, <1>4 DEF DownFits
<1>19. UpFits'
  <2>1. SUFFICES ASSUME pc' = "up", Stable, NEW q \in Wanted'
                 PROVE  /\ disk'[q] = panel0'[q]
                        /\ PendingWithin(q)' \/ server'["target"][q] = panel0'[q]
    BY <1>9 DEF UpFits
  <2>2. stack' = Done(p) /\ (e = disk[p] \/ p \in resumed' \cup short' \/ p \in skipped') /\ to = "target"
    BY <1>4, <1>9, <2>1
  <2>3. q \in Wanted /\ q \notin skipped' /\ q \notin resumed' /\ q \notin short' /\ q \in seen /\ q \in Below(cur)
        /\ panel0[q].kind = "file" /\ q \in Paths
    BY <1>1, <1>7, <2>1, BelowIs DEF Wanted
  <2>4. disk[q] = panel0[q] /\ (PendingWithin(q) \/ server["target"][q] = panel0[q])
    BY <1>1, <2>1, <2>3 DEF UpFits
  <2>5. panel0[q] # NoEntry
    BY <2>3, EntriesAre
  <2>6. CASE q = p
    BY <1>1, <1>2, <1>5, <2>2, <2>3, <2>4, <2>6
  <2>7. CASE q # p /\ server["target"][q] = panel0[q]
    BY <1>1, <1>2, <1>5, <2>2, <2>3, <2>4, <2>5, <2>7
  <2>8. CASE q # p /\ PendingWithin(q)
    <3>1. PICK k \in 1 .. Len(stack) : Within(q, stack[k].left)
      BY <2>8 DEF PendingWithin
    <3>2. PICK x \in stack[k].left : x = q \/ x \in Above[q]
      BY <3>1 DEF Within
    <3>3. x # p
      <4>1. SUFFICES ASSUME p \in Above[q] PROVE FALSE
        BY <2>8, <3>2
      <4>2. disk[p] = Folder
        BY <2>3, <2>4, <2>5, <4>1, TreeAbove DEF TypeOK
      <4>3. Frame.dir = None /\ p = cur /\ server["panel"][p].kind # "dir"
        BY <1>1, <1>3, <4>2, EntriesAre DEF IsDir
      <4>4. server["panel"][p] = panel0[p]
        BY <1>1, <1>3, <2>1 DEF PanelFits, Copying
      <4>5. panel0[cur].kind = "dir"
        BY <1>7, <1>9, <2>1, <2>3, <2>8, <4>3 DEF SeenFits
      <4> QED BY <4>3, <4>4, <4>5
    <3>4. k \in 1 .. Len(stack') /\ x \in stack'[k].left
      BY <2>2, <3>2, <3>3, <1>3, DoneIs
    <3>5. Within(q, stack'[k].left)
      BY <3>2, <3>4 DEF Within
    <3>6. PendingWithin(q)'
      BY <3>4, <3>5 DEF PendingWithin, Within
    <3> QED BY <1>1, <1>2, <2>4, <3>6
  <2> QED BY <2>4, <2>6, <2>7, <2>8
<1>20. ArrivedFits'
  BY <1>4, <1>1 DEF ArrivedFits
<1>21. TempFits'
  <2>1. SUFFICES ASSUME op \in {"copy", "move"} PROVE TempFits'
    BY <1>1 DEF TempFits
  <2>2. ~Syncing /\ Copying /\ Copying' /\ pc # "idle"
    BY <2>1, <1>1, <1>4 DEF Syncing, Copying
  <2>3. \A i \in selected : i # cur => p \notin Below(i)
    BY <2>2, <1>3, <1>7
  <2>4. selected \subseteq Paths /\ todo \subseteq selected /\ cur \notin todo
    BY DEF ItemsFit, TypeOK
  <2>5. \A i \in todo : server'["panel"][i] = server["panel"][i]
    <3>1. SUFFICES ASSUME to = "panel", NEW i \in todo PROVE t[i] = server["panel"][i]
      BY <1>5
    <3>2. i # p /\ i \notin Above[p] /\ i \in Paths
      BY <2>3, <2>4, BelowIs
    <3> QED BY <3>1, <3>2, <1>2
  <2>6. server["panel"][cur].kind = "dir" <=> panel0[cur].kind = "dir"
    BY <2>1, <2>2 DEF TempFits
  <2>7. server'["panel"][cur].kind = "dir" <=> panel0[cur].kind = "dir"
    <3>1. SUFFICES ASSUME to = "panel" PROVE t[cur].kind = "dir" <=> panel0[cur].kind = "dir"
      BY <1>5, <2>6
    <3>2. CASE p = cur
      <4>1. panel0[cur].kind # "dir"
        BY <1>1, <1>3, <2>2, <2>6, <3>2 DEF IsDir
      <4>2. e # server["panel"][p] => e.kind # "dir"
        BY <1>2, <3>1, EntriesAre
      <4> QED BY <3>1, <3>2, <4>1, <4>2, <1>2, <2>6
    <3>3. CASE p # cur
      <4>1. panel0[cur].kind = "dir"
        BY <1>3, <2>2, <3>3
      <4>2. server["panel"][cur] # NoEntry
        BY <4>1, <2>6, EntriesAre
      <4> QED BY <1>2, <1>7, <2>6, <3>1, <3>3, <4>2
    <3> QED BY <3>2, <3>3
  <2>8. Comparable(cur)' <=> Comparable(cur)
    BY <1>1 DEF Comparable
  <2>9. \A i \in selected : Comparable(i)' <=> Comparable(i)
    BY <1>1 DEF Comparable
  <2> QED BY <1>1, <1>2, <2>1, <2>2, <2>5, <2>7, <2>8, <2>9 DEF TempFits
<1>22. NothingElseGoes'
  BY <1>1, <1>5 DEF NothingElseGoes
<1>23. NoSilentOverwrite'
  <2>1. SUFFICES ASSUME NEW q \in Paths, target0[q].kind = "file", server'["target"][q] # target0[q]
                 PROVE  q \in agreed' \cup resumed' \cup blind'
    BY <1>1 DEF NoSilentOverwrite
  <2>2. server["target"][q] # target0[q] => q \in agreed \cup resumed \cup blind
    BY <2>1 DEF NoSilentOverwrite
  <2>3. target0[q] # NoEntry
    BY <2>1, EntriesAre
  <2> QED BY <1>1, <1>2, <1>5, <1>7, <2>1, <2>2, <2>3
<1>24. MoveKeepsData'
  <2>1. SUFFICES ASSUME op = "move", to = "target", NEW q \in seen \ (skipped' \cup resumed' \cup short'),
                        panel0[q].kind = "file", server["panel"][q] = NoEntry
                 PROVE  server'["target"][q] = panel0[q]
    BY <1>1, <1>5 DEF MoveKeepsData
  <2>2. q \in Paths /\ q \in seen \ (skipped \cup resumed \cup short) /\ server["target"][q] = panel0[q]
    BY <2>1, <1>1 DEF MoveKeepsData, TypeOK
  <2>3. panel0[q] # NoEntry
    BY <2>1, EntriesAre
  <2>4. q # p
    BY <1>1, <1>3, <2>1, <2>3 DEF PanelFits, Copying, Stable
  <2> QED BY <1>2, <1>5, <2>1, <2>2, <2>3, <2>4
<1>25. SyncIsComplete'
  BY <1>1, <1>7 DEF SyncIsComplete
<1> QED BY <1>6, <1>10, <1>11, <1>12, <1>13, <1>14, <1>15, <1>16, <1>17, <1>18, <1>19, <1>20, <1>21, <1>22, <1>23, <1>24, <1>25

-----------------------------------------------------------------------------
(* The end of a walk                                                       *)

\* Leaving a directory keeps the walk below its item.
LEMMA StackFront ==
  ASSUME TypeOK, StackFits, Len(stack) > 1, stack' = Front(stack), UNCHANGED <<pc, cur, op, panel0>>
  PROVE  StackFits' /\ stack' \in Seq(Frames)
<1>1. /\ stack' \in Seq(Frames) /\ Len(stack') = Len(stack) - 1 /\ Len(stack) \in Nat
      /\ \A k \in 1 .. Len(stack) - 1 : stack'[k] = stack[k]
  BY FrontIs DEF TypeOK
<1>2. pc' = pc /\ cur' = cur /\ op' = op /\ panel0' = panel0 /\ (Copying' <=> Copying) /\ (Syncing' <=> Syncing)
  BY DEF Copying, Syncing
<1> QED BY <1>1, <1>2 DEF StackFits

\* Entering a directory keeps the walk below its item.
LEMMA StackEnter ==
  ASSUME TypeOK, StackFits, NEW p \in Below(cur), Len(stack) >= 1, NEW entries \in SUBSET Paths,
         stack' = Enter(p, entries), \A x \in entries : x # Top /\ Parent[x] = p,
         Copying /\ ~Syncing => panel0[cur].kind = "dir",
         UNCHANGED <<pc, cur, op, panel0>>
  PROVE  StackFits' /\ stack' \in Seq(Frames) /\ Len(stack') = Len(stack) + 1
<1>0. cur \in Paths /\ p \in Paths /\ Len(stack) \in Nat
  BY BelowIs DEF TypeOK
<1>1. /\ stack' \in Seq(Frames) /\ Len(stack') = Len(stack) + 1
      /\ \A k \in 1 .. Len(stack) : stack'[k].dir = stack[k].dir /\ stack'[k].left \subseteq stack[k].left
      /\ stack'[Len(stack) + 1].dir = p /\ stack'[Len(stack) + 1].left = entries
  BY <1>0, EnterIs
<1>2. pc' = pc /\ cur' = cur /\ op' = op /\ panel0' = panel0 /\ (Copying' <=> Copying) /\ (Syncing' <=> Syncing)
  BY DEF Copying, Syncing
<1>3. entries \subseteq Below(cur)
  BY <1>0, BelowIs
<1>4. p # None
  BY <1>0, TreeAssumption DEF None
<1>5. \A k \in 1 .. Len(stack') : k \in 1 .. Len(stack) \/ k = Len(stack) + 1
  BY <1>0, <1>1
<1>6. ASSUME NEW k \in 1 .. Len(stack')
      PROVE  /\ stack'[k].left \subseteq Below(cur) /\ stack'[k].dir \in Below(cur) \cup {None}
             /\ stack'[k].dir = None => stack'[k].left \subseteq {cur}
             /\ stack'[k].dir # None => \A x \in stack'[k].left : x # Top /\ Parent[x] = stack'[k].dir
             /\ Copying /\ ~Syncing /\ panel0[cur].kind # "dir" => stack'[k].left \subseteq {cur}
  <2>1. CASE k = Len(stack) + 1
    BY <2>1, <1>1, <1>3, <1>4
  <2>2. CASE k \in 1 .. Len(stack)
    BY <2>2, <1>1 DEF StackFits
  <2> QED BY <1>5, <2>1, <2>2
<1>7. Len(stack') >= 1
  BY <1>0, <1>1
<1> QED BY <1>1, <1>2, <1>6, <1>7 DEF StackFits

\* A helper returns and touches nothing; it says that all went well only when
\* nothing is left to visit.
LEMMA ReturnKeeps ==
  ASSUME IndInv, NEW w \in Walks, NEW r \in BOOLEAN, pc = w, Return(w, r),
         r => Len(stack) = 1 /\ Frame.left = {},
         cancelled' \in BOOLEAN,
         UNCHANGED <<server, disk, opVars, ovrMode, ghosts>>
  PROVE  IndInv'
<1> USE DEF IndInv
<1>1. /\ UNCHANGED <<server, disk, op, to, todo, cur, ovrMode>>
      /\ UNCHANGED <<selected, panel0, disk0, target0, agreed, resumed, skipped, blind, seen, kept, short>>
  BY DEF opVars, ghosts
<1>2. /\ step' = r
      /\ Syncing => pc' = "end"
      /\ ~Syncing /\ w = "down" => pc' = IF r THEN "up" ELSE "clean"
      /\ ~Syncing /\ w = "up" => pc' = "clean"
      /\ ~Syncing /\ w = "del" => pc' \in {"deleted", "next"}
      /\ stack' = IF pc' = "up" THEN Calling(cur) ELSE <<>>
  BY ReturnIs
<1>3. w \in {"down", "up", "del"} /\ (w = "del" => ~Syncing)
  BY DEF Walks, OpFits
<1>4. pc' \in {"end", "up", "clean", "deleted", "next"}
  BY <1>2, <1>3
<1>5. /\ op # None /\ cur \in Paths
      /\ Syncing => cur = Top
      /\ ~Syncing => cur \in selected /\ op \in {"copy", "move", "delete"} /\ (Copying => op # "delete")
  BY <1>3, ItemIs DEF Copying
<1>6. StackFits' /\ stack' \in Seq(Frames)
  <2>1. CASE pc' = "up"
    BY <2>1, <1>1, <1>2, <1>5, StackCall
  <2>2. CASE pc' # "up"
    <3>1. pc' \notin Walks
      BY <1>4, <2>2 DEF Walks
    <3> QED BY <3>1, <2>2, <1>2, StackEmpty
  <2> QED BY <2>1, <2>2
<1>7. (Syncing' <=> Syncing) /\ (Stable' <=> Stable)
  BY <1>1 DEF Syncing, Stable
<1>8. Copying' => Copying
  BY <1>2, <1>3, <1>4 DEF Copying
<1>9. ~Syncing => (Copying <=> Copying')
  BY <1>2, <1>3, <1>4 DEF Copying
<1>10. r => \A q : ~Pending(q) /\ ~PendingWithin(q)
  <2>1. SUFFICES ASSUME r, NEW q PROVE ~Pending(q) /\ ~PendingWithin(q)
    OBVIOUS
  <2>2. Len(stack) = 1 /\ Frame.left = {} /\ Frame = stack[1]
    BY <2>1, FrameIs
  <2>3. \A k \in 1 .. Len(stack) : stack[k].left = {}
    BY <2>2
  <2> QED BY <2>3 DEF Pending, PendingWithin, Within
<1>11. TypeOK'
  <2>1. stack' \in Seq([dir : Paths \cup {None}, left : SUBSET Paths])
    BY <1>6 DEF Frames
  <2>2. pc' \in Walks \cup {"idle", "next", "clean", "result", "deleted", "end"} /\ step' \in BOOLEAN
    BY <1>2, <1>4 DEF Walks
  <2> QED BY <1>1, <2>1, <2>2 DEF TypeOK
<1>12. OpFits'
  BY <1>1, <1>2, <1>3, <1>4, <1>5, <1>7 DEF OpFits, Copying, Syncing
<1>13. ItemsFit'
  BY <1>1, <1>4, <1>5, <1>7 DEF ItemsFit
<1>14. LateFits' /\ LinksFit' /\ DiskIsTree' /\ AnswersFit'
  BY <1>1 DEF LateFits, LinksFit, DiskIsTree, AnswersFit
<1>15. PanelFits'
  BY <1>1, <1>7, <1>8 DEF PanelFits
<1>16. SeenFits'
  BY <1>1, <1>7 DEF SeenFits
<1>17. DownFits'
  BY <1>4 DEF DownFits
<1>18. UpFits'
  <2>1. SUFFICES ASSUME pc' = "up", Stable, NEW q \in Wanted
                 PROVE  disk[q] = panel0[q] /\ PendingWithin(q)'
    BY <1>1, <1>7 DEF UpFits, Wanted
  <2>2. w = "down" /\ r /\ ~Syncing
    BY <1>2, <1>3, <2>1
  <2>3. q \in Below(cur) /\ q \in seen /\ panel0[q].kind = "file" /\ q \notin skipped /\ q \notin resumed
        /\ q \notin short
    BY DEF Wanted
  <2>4. Pending(q) \/ Copied(q)
    BY <2>1, <2>2, <2>3 DEF DownFits
  <2>5. disk[q] = panel0[q]
    BY <1>10, <2>2, <2>3, <2>4 DEF Copied
  <2>6. Len(stack') = 1 /\ stack'[1].left = {cur}
    BY <1>2, <1>5, <2>1, CallingIs
  <2>7. Within(q, stack'[1].left)
    BY <2>3, <2>6 DEF Below
  <2> QED BY <2>5, <2>6, <2>7 DEF PendingWithin, Within
<1>19. ArrivedFits'
  <2>1. SUFFICES ASSUME pc' = "clean", step', Stable, NEW q \in Wanted
                 PROVE  server["target"][q] = panel0[q]
    BY <1>1, <1>4, <1>7 DEF ArrivedFits, Wanted
  <2>2. w = "up" /\ r
    BY <1>2, <1>3, <2>1
  <2> QED BY <1>10, <2>1, <2>2 DEF UpFits
<1>20. TempFits'
  <2>1. SUFFICES ASSUME op \in {"copy", "move"} PROVE TempFits'
    BY <1>1 DEF TempFits
  <2>2. ~Syncing /\ pc # "idle"
    BY <2>1, <1>3 DEF Syncing
  <2>3. \A i \in selected : Comparable(i)' <=> Comparable(i)
    BY <1>1 DEF Comparable
  <2> QED BY <1>1, <1>5, <1>9, <2>1, <2>2, <2>3 DEF TempFits
<1>21. NothingElseGoes' /\ NoSilentOverwrite' /\ MoveKeepsData'
  BY <1>1 DEF NothingElseGoes, NoSilentOverwrite, MoveKeepsData
<1>22. SyncIsComplete'
  <2>1. SUFFICES ASSUME op = "syncdown", r, NEW q \in seen \ short, panel0[q].kind = "file"
                 PROVE  disk[q] = panel0[q] \/ (q \in skipped /\ Len(disk[q].data) = Len(panel0[q].data))
    BY <1>1, <1>2 DEF SyncIsComplete
  <2>2. Syncing /\ Stable /\ w = "down"
    BY <2>1, <1>3 DEF Syncing, Stable, OpFits
  <2>3. q \in Below(cur) /\ resumed = {}
    BY <1>5, <2>1, <2>2 DEF SeenFits, OpFits
  <2>4. Copied(q)
    BY <1>10, <2>1, <2>2, <2>3 DEF DownFits
  <2> QED BY <2>2, <2>3, <2>4 DEF Copied
<1> QED BY <1>6, <1>11, <1>12, <1>13, <1>14, <1>15, <1>16, <1>17, <1>18, <1>19, <1>20, <1>21, <1>22

-----------------------------------------------------------------------------
(* The directories of a walk                                               *)

\* A directory of a download keeps the invariant: what its listing gave is to be visited.
LEMMA DownloadDirKeeps ==
  ASSUME IndInv, NEW p \in Paths, DownloadDir(p)
  PROVE  IndInv'
<1> USE DEF IndInv
<1>1. /\ pc = "down" /\ p \in Frame.left /\ server["panel"][p].kind = "dir"
      /\ UNCHANGED <<server, op, to, todo, cur, ovrMode, cancelled>>
      /\ UNCHANGED <<selected, panel0, disk0, target0, agreed, resumed, skipped, blind, kept, short>>
      /\ disk' = IF p # Top /\ disk[p] = NoEntry /\ disk[Parent[p]] = Folder
                 THEN [disk EXCEPT ![p] = Folder] ELSE disk
      /\ \/ \E entries \in ListDir(p) :
              /\ stack' = Enter(p, entries) /\ seen' = seen \cup entries
              /\ UNCHANGED <<pc, step>>
         \/ Return("down", FALSE) /\ UNCHANGED seen
  BY DEF DownloadDir, Visiting, IsDir, opVars
<1>2. /\ Len(stack) >= 1 /\ p \in Below(cur)
      /\ ~Syncing /\ panel0[cur].kind # "dir" => p = cur
  BY <1>1, WalkIs DEF Walks, Copying
<1>3. /\ op # None /\ cur \in Paths
      /\ Syncing => cur = Top
      /\ ~Syncing => /\ op \in {"copy", "move"} /\ cur \in selected /\ cur # Top
                     /\ \A i \in selected : i # cur => Below(i) \cap Below(cur) = {}
  BY <1>1, ItemIs DEF Copying
<1>4. /\ disk \in [Paths -> Entries] /\ disk' \in [Paths -> Entries]
      /\ \A q \in Paths : disk'[q] = disk[q] \/
           (q = p /\ p # Top /\ disk[p] = NoEntry /\ disk[Parent[p]] = Folder /\ disk'[p] = Folder)
  <2>1. disk \in [Paths -> Entries] /\ Folder \in Entries
    BY EntriesAre DEF TypeOK
  <2> QED BY <1>1, <2>1
<1>5. \/ /\ step' = FALSE /\ stack' = <<>> /\ seen' = seen
         /\ (Syncing => pc' = "end") /\ (~Syncing => pc' = "clean")
      \/ \E entries \in ListDir(p) :
              /\ stack' = Enter(p, entries) /\ seen' = seen \cup entries
              /\ UNCHANGED <<pc, step>>
  BY <1>1, ReturnIs DEF Walks
<1>6. (Syncing' <=> Syncing) /\ (Stable' <=> Stable)
  BY <1>1 DEF Syncing, Stable
<1>7. ~Syncing => panel0[cur].kind = "dir"
  <2>1. SUFFICES ASSUME ~Syncing, p = cur PROVE panel0[cur].kind = "dir"
    BY <1>2
  <2>2. server["panel"][cur].kind = "dir" <=> panel0[cur].kind = "dir"
    BY <1>1, <1>3, <2>1 DEF TempFits, Copying
  <2> QED BY <1>1, <2>1, <2>2
<1>8. \A entries \in ListDir(p) :
         entries \subseteq Paths /\ \A x \in entries : x # Top /\ Parent[x] = p /\ server["panel"][x] # NoEntry
  <2>1. Real(p) = p
    BY <1>1, EntriesAre DEF Real
  <2> QED BY <2>1 DEF ListDir, Children
<1>9. \/ /\ step' = FALSE /\ stack' = <<>> /\ seen' = seen
         /\ (Syncing => pc' = "end") /\ (~Syncing => pc' = "clean")
      \/ /\ UNCHANGED <<pc, step>> /\ Len(stack') = Len(stack) + 1
         /\ StackFits' /\ stack' \in Seq(Frames)
         /\ seen' = seen \cup stack'[Len(stack) + 1].left
         /\ \A k \in 1 .. Len(stack) : stack[k].left \ {p} \subseteq stack'[k].left
         /\ \A x \in stack'[Len(stack) + 1].left :
              x \in Paths /\ x \in Below(cur) /\ x # Top /\ Parent[x] = p /\ server["panel"][x] # NoEntry
  <2>1. SUFFICES ASSUME NEW entries \in ListDir(p), stack' = Enter(p, entries), seen' = seen \cup entries,
                        UNCHANGED <<pc, step>>
                 PROVE  /\ Len(stack') = Len(stack) + 1 /\ StackFits' /\ stack' \in Seq(Frames)
                        /\ seen' = seen \cup stack'[Len(stack) + 1].left
                        /\ \A k \in 1 .. Len(stack) : stack[k].left \ {p} \subseteq stack'[k].left
                        /\ \A x \in stack'[Len(stack) + 1].left :
                             x \in Paths /\ x \in Below(cur) /\ x # Top /\ Parent[x] = p /\ server["panel"][x] # NoEntry
    BY <1>5
  <2>2. entries \in SUBSET Paths /\ \A x \in entries : x # Top /\ Parent[x] = p /\ server["panel"][x] # NoEntry
    BY <1>8
  <2>3. Len(stack') = Len(stack) + 1 /\ StackFits' /\ stack' \in Seq(Frames)
    BY <1>1, <1>2, <1>7, <2>1, <2>2, StackEnter
  <2>4. /\ stack'[Len(stack) + 1].left = entries
        /\ \A k \in 1 .. Len(stack) : stack[k].left \ {p} \subseteq stack'[k].left
    BY <1>2, <2>1, <2>2, EnterIs
  <2>5. \A x \in entries : x \in Below(cur)
    BY <1>2, <1>3, <2>2, BelowIs
  <2> QED BY <2>1, <2>2, <2>3, <2>4, <2>5
<1>10. StackFits' /\ stack' \in Seq(Frames)
  <2>1. CASE stack' = <<>> /\ (Syncing => pc' = "end") /\ (~Syncing => pc' = "clean")
    <3>1. pc' \notin Walks
      BY <2>1 DEF Walks
    <3> QED BY <2>1, <3>1, StackEmpty
  <2> QED BY <1>9, <2>1
<1>11. TypeOK'
  <2>1. stack' \in Seq([dir : Paths \cup {None}, left : SUBSET Paths])
    BY <1>10 DEF Frames
  <2>2. /\ pc' \in Walks \cup {"idle", "next", "clean", "result", "deleted", "end"} /\ step' \in BOOLEAN
        /\ seen' \subseteq Paths
    BY <1>9 DEF TypeOK
  <2> QED BY <1>1, <1>4, <2>1, <2>2 DEF TypeOK
<1>12. OpFits'
  BY <1>1, <1>3, <1>6, <1>9 DEF OpFits
<1>13. ItemsFit'
  BY <1>1, <1>3, <1>6, <1>9 DEF ItemsFit
<1>14. LateFits' /\ LinksFit' /\ AnswersFit'
  BY <1>1 DEF LateFits, LinksFit, AnswersFit
<1>15. PanelFits'
  BY <1>1, <1>6 DEF PanelFits, Copying
<1>16. SeenFits'
  <2>1. CASE seen' = seen
    BY <2>1, <1>1, <1>6 DEF SeenFits
  <2>2. CASE /\ seen' = seen \cup stack'[Len(stack) + 1].left
             /\ \A x \in stack'[Len(stack) + 1].left :
                  x \in Paths /\ x \in Below(cur) /\ x # Top /\ Parent[x] = p /\ server["panel"][x] # NoEntry
    <3> DEFINE entries == stack'[Len(stack) + 1].left
    <3> HIDE DEF entries
    <3>1. seen' = seen \cup entries /\ \A x \in entries : x \in Below(cur) /\ server["panel"][x] # NoEntry
      BY <2>2 DEF entries
    <3>2. Stable => \A x \in entries : panel0[x] # NoEntry
      BY <1>1, <3>1 DEF PanelFits, Copying
    <3>3. \A i \in todo : entries \cap Below(i) = {}
      BY <1>3, <3>1 DEF OpFits, ItemsFit
    <3>4. ~Syncing => \A i \in selected : \A x \in entries \cap Below(i) : panel0[i].kind = "dir"
      BY <1>3, <1>7, <3>1
    <3> QED BY <1>1, <1>3, <1>6, <3>1, <3>2, <3>3, <3>4 DEF SeenFits
  <2> QED BY <1>9, <2>1, <2>2
<1>17. DiskIsTree'
  BY <1>1, <1>4, EntriesAre, BelowIs DEF DiskIsTree
<1>18. DownFits'
  <2>1. SUFFICES ASSUME pc' = "down", Stable, NEW q \in seen' \cap Below(cur), panel0[q].kind = "file"
                 PROVE  Pending(q)' \/ Copied(q)'
    BY <1>1, <1>6 DEF DownFits
  <2>2. /\ Len(stack') = Len(stack) + 1
        /\ seen' = seen \cup stack'[Len(stack) + 1].left
        /\ \A k \in 1 .. Len(stack) : stack[k].left \ {p} \subseteq stack'[k].left
    BY <1>9, <2>1
  <2>3. q # p /\ q \in Paths
    <3>1. server["panel"][p] = panel0[p]
      BY <1>1, <1>2, <2>1 DEF PanelFits, Copying
    <3> QED BY <1>1, <1>3, <2>1, <3>1, BelowIs
  <2>4. Len(stack) \in Nat
    BY DEF TypeOK
  <2>5. CASE q \in stack'[Len(stack) + 1].left
    BY <2>2, <2>4, <2>5 DEF Pending
  <2>6. CASE q \in seen
    <3>1. Pending(q) \/ Copied(q)
      BY <1>1, <2>1, <2>6 DEF DownFits
    <3>2. ASSUME Pending(q) PROVE Pending(q)'
      <4>1. PICK k \in 1 .. Len(stack) : q \in stack[k].left
        BY <3>2 DEF Pending
      <4>2. k \in 1 .. Len(stack') /\ q \in stack'[k].left
        BY <4>1, <2>2, <2>3, <2>4
      <4> QED BY <4>2 DEF Pending
    <3>3. ASSUME Copied(q) PROVE Copied(q)'
      BY <3>3, <1>1, <1>4, <1>6, <2>3 DEF Copied
    <3> QED BY <3>1, <3>2, <3>3
  <2> QED BY <2>1, <2>2, <2>5, <2>6
<1>19. UpFits' /\ ArrivedFits'
  BY <1>1, <1>9 DEF UpFits, ArrivedFits
<1>20. TempFits'
  <2>1. SUFFICES ASSUME op \in {"copy", "move"} PROVE TempFits'
    BY <1>1 DEF TempFits
  <2>2. ~Syncing /\ Copying /\ Copying' /\ pc # "idle"
    BY <2>1, <1>1, <1>9 DEF Syncing, Copying
  <2>3. \A i \in selected : i # cur => p \notin Below(i)
    BY <2>2, <1>2, <1>3
  <2>4. selected \subseteq Paths /\ todo \subseteq selected /\ cur \notin todo
    BY DEF ItemsFit, TypeOK
  <2>5. \A i \in selected \ (todo \cup kept) :
          Comparable(i) /\ i # cur => \A q \in Below(i) : disk'[q] = NoEntry
    <3>1. \A i \in selected \ (todo \cup kept) :
            Comparable(i) /\ i # cur => \A q \in Below(i) : disk[q] = NoEntry
      BY <2>1, <2>2 DEF TempFits
    <3>2. \A i \in selected : i # cur => \A q \in Below(i) : disk'[q] = disk[q]
      BY <1>4, <2>3, <2>4, BelowIs
    <3> QED BY <3>1, <3>2
  <2>6. \A i \in todo : disk'[i] = disk0[i] /\ server["panel"][i] = panel0[i]
    BY <2>1, <2>2, <2>3, <2>4, <1>4, BelowIs DEF TempFits
  <2>7. server["panel"][cur].kind = "dir" <=> panel0[cur].kind = "dir"
    BY <2>1, <2>2 DEF TempFits
  <2>8. Comparable(cur) => /\ disk'[cur].kind = "dir" => panel0[cur].kind = "dir"
                           /\ panel0[cur].kind = "dir" => disk'[cur] \in {NoEntry, Folder}
    BY <2>1, <2>2, <1>3, <1>4, <1>7 DEF TempFits
  <2>9. \A i \in selected : Comparable(i)' <=> Comparable(i)
    BY <1>1 DEF Comparable
  <2>10. cur \in selected
    BY <2>2, <1>3
  <2> QED BY <1>1, <2>1, <2>2, <2>5, <2>6, <2>7, <2>8, <2>9, <2>10 DEF TempFits
<1>21. NothingElseGoes' /\ NoSilentOverwrite'
  BY <1>1 DEF NothingElseGoes, NoSilentOverwrite
<1>22. MoveKeepsData'
  <2>1. \A q \in seen' : server["panel"][q] = NoEntry => q \in seen
    BY <1>9
  <2> QED BY <1>1, <2>1 DEF MoveKeepsData
<1>23. SyncIsComplete'
  BY <1>1, <1>9 DEF SyncIsComplete
<1> QED BY <1>10, <1>11, <1>12, <1>13, <1>14, <1>15, <1>16, <1>17, <1>18, <1>19, <1>20, <1>21, <1>22, <1>23

\* A directory of an upload keeps the invariant: the disk lists all that the download has
\* put into it.
LEMMA UploadDirKeeps ==
  ASSUME IndInv, NEW p \in Paths, UploadDir(p)
  PROVE  IndInv'
<1> USE DEF IndInv
<1> DEFINE entries == IF disk[p] = Folder THEN Children(disk, p) ELSE {}
<1>1. /\ pc = "up" /\ p \in Frame.left /\ IsDir("up", p)
      /\ UNCHANGED <<disk, op, to, todo, cur, pc, step, ovrMode, cancelled>>
      /\ UNCHANGED <<selected, panel0, disk0, target0, agreed, resumed, skipped, blind, seen, kept, short>>
      /\ \/ UNCHANGED server
         \/ /\ p # Top /\ server[to][p] = NoEntry
            /\ server' = [server EXCEPT ![to][p] = Folder]
      /\ stack' = Enter(p, entries)
  BY DEF UploadDir, Visiting, opVars, ghosts
<1>2. /\ Len(stack) >= 1 /\ p \in Below(cur)
      /\ Frame.dir = None => p = cur
      /\ Frame.dir # None /\ ~Syncing => p # cur
      /\ ~Syncing /\ panel0[cur].kind # "dir" => p = cur
  BY <1>1, WalkIs DEF Walks, Copying
<1>3. /\ op # None /\ cur \in Paths /\ op # "syncdown"
      /\ Syncing => cur = Top /\ to = "panel"
      /\ ~Syncing => /\ op \in {"copy", "move"} /\ cur \in selected /\ cur # Top
                     /\ \A i \in selected : i # cur => Below(i) \cap Below(cur) = {}
  BY <1>1, ItemIs DEF Copying, OpFits
<1>4. /\ server \in [{"panel", "target"} -> [Paths -> Entries]] /\ to \in {"panel", "target"}
      /\ server' \in [{"panel", "target"} -> [Paths -> Entries]]
      /\ \A side \in {"panel", "target"} : \A q \in Paths :
           \/ server'[side][q] = server[side][q]
           \/ side = to /\ q = p /\ server[side][q] = NoEntry /\ server'[side][q] = Folder
  <2>1. server \in [{"panel", "target"} -> [Paths -> Entries]] /\ to \in {"panel", "target"} /\ Folder \in Entries
    BY EntriesAre DEF TypeOK
  <2> QED BY <1>1, <2>1
<1>5. (Syncing' <=> Syncing) /\ (Stable' <=> Stable) /\ (Stable => to = "target" /\ ~Syncing)
  BY <1>1, <1>3 DEF Syncing, Stable
<1>6. ~Syncing => panel0[cur].kind = "dir"
  <2>1. SUFFICES ASSUME ~Syncing, p = cur PROVE panel0[cur].kind = "dir"
    BY <1>2
  <2>2. server["panel"][cur].kind = "dir" <=> panel0[cur].kind = "dir"
    BY <1>1, <1>3, <2>1 DEF TempFits, Copying
  <2> QED BY <1>1, <1>2, <2>1, <2>2 DEF IsDir
<1>7. entries \in SUBSET Paths /\ \A x \in entries : x # Top /\ Parent[x] = p
  BY DEF Children
<1>8. StackFits' /\ stack' \in Seq(Frames) /\ Len(stack') = Len(stack) + 1
  <2> HIDE DEF entries
  <2> QED BY <1>1, <1>2, <1>6, <1>7, StackEnter
<1>9. /\ stack'[Len(stack) + 1].left = entries
      /\ \A k \in 1 .. Len(stack) : stack[k].left \ {p} \subseteq stack'[k].left
  <2> HIDE DEF entries
  <2> QED BY <1>1, <1>2, <1>7, EnterIs
<1>10. TypeOK'
  <2>1. stack' \in Seq([dir : Paths \cup {None}, left : SUBSET Paths])
    BY <1>8 DEF Frames
  <2> QED BY <1>1, <1>4, <2>1 DEF TypeOK
<1>11. OpFits'
  BY <1>1, <1>3, <1>5 DEF OpFits
<1>12. ItemsFit'
  BY <1>1, <1>3, <1>5 DEF ItemsFit
<1>13. LateFits' /\ DiskIsTree' /\ AnswersFit'
  BY <1>1 DEF LateFits, DiskIsTree, AnswersFit
<1>14. LinksFit'
  BY <1>1, <1>4, EntriesAre DEF LinksFit
<1>15. PanelFits'
  <2>1. Stable => \A q \in Paths : server'["panel"][q] = server["panel"][q]
    BY <1>4, <1>5
  <2>2. todo \subseteq Paths
    BY DEF TypeOK
  <2> QED BY <1>1, <1>3, <1>5, <2>1, <2>2, BelowIs DEF PanelFits, Copying
<1>16. SeenFits'
  BY <1>1, <1>5 DEF SeenFits
<1>17. DownFits' /\ ArrivedFits'
  BY <1>1 DEF DownFits, ArrivedFits
<1>18. UpFits'
  <2>1. SUFFICES ASSUME Stable, NEW q \in Wanted
                 PROVE  disk[q] = panel0[q] /\ (PendingWithin(q)' \/ server'["target"][q] = panel0[q])
    BY <1>1, <1>5 DEF UpFits, Wanted
  <2>2. q \in seen /\ q \in Below(cur) /\ panel0[q].kind = "file" /\ q \in Paths
    BY <1>3, BelowIs DEF Wanted
  <2>3. disk[q] = panel0[q] /\ (PendingWithin(q) \/ server["target"][q] = panel0[q])
    BY <1>1, <2>1 DEF UpFits
  <2>4. panel0[q] # NoEntry
    BY <2>2, EntriesAre
  <2>5. CASE server["target"][q] = panel0[q]
    BY <1>4, <2>2, <2>3, <2>4, <2>5
  <2>6. CASE PendingWithin(q)
    <3>1. PICK k \in 1 .. Len(stack) : Within(q, stack[k].left)
      BY <2>6 DEF PendingWithin
    <3>2. PICK x \in stack[k].left : x = q \/ x \in Above[q]
      BY <3>1 DEF Within
    <3>3. Len(stack) \in Nat
      BY DEF TypeOK
    <3>4. CASE x # p
      <4>1. k \in 1 .. Len(stack') /\ x \in stack'[k].left
        BY <1>8, <1>9, <3>2, <3>3, <3>4
      <4>2. Within(q, stack'[k].left)
        BY <3>2, <4>1 DEF Within
      <4>3. PendingWithin(q)'
        BY <4>1, <4>2 DEF PendingWithin, Within
      <4> QED BY <2>3, <4>3
    <3>5. CASE x = p /\ x = q
      <4>1. server["panel"][p] = panel0[p]
        BY <1>1, <1>2, <2>1 DEF PanelFits, Copying
      <4> QED BY <1>1, <2>2, <2>3, <3>5, <4>1 DEF IsDir
    <3>6. CASE x = p /\ x \in Above[q]
      <4>1. \A y \in Above[q] : disk[y] = Folder
        BY <2>2, <2>3, <2>4, TreeAbove DEF TypeOK
      <4>2. PICK c \in Paths \ {Top} : Parent[c] = p /\ (c = q \/ c \in Above[q])
        BY <2>2, <3>6, Between
      <4>3. disk[p] = Folder /\ disk[c] # NoEntry
        BY <2>3, <2>4, <3>6, <4>1, <4>2, EntriesAre
      <4>4. c \in entries
        BY <4>2, <4>3 DEF Children
      <4>5. Len(stack) + 1 \in 1 .. Len(stack') /\ Within(q, stack'[Len(stack) + 1].left)
        <5> HIDE DEF entries
        <5>1. c \in stack'[Len(stack) + 1].left
          BY <1>9, <4>4
        <5> QED BY <1>8, <3>3, <4>2, <5>1 DEF Within
      <4>6. PendingWithin(q)'
        BY <4>5 DEF PendingWithin, Within
      <4> QED BY <2>3, <4>6
    <3> QED BY <3>2, <3>4, <3>5, <3>6
  <2> QED BY <2>3, <2>5, <2>6
<1>19. TempFits'
  <2>1. SUFFICES ASSUME op \in {"copy", "move"} PROVE TempFits'
    BY <1>1 DEF TempFits
  <2>2. ~Syncing /\ Copying /\ Copying' /\ pc # "idle"
    BY <2>1, <1>1 DEF Syncing, Copying
  <2>3. todo \subseteq selected /\ cur \notin todo /\ selected \subseteq Paths
    BY DEF ItemsFit, TypeOK
  <2>4. \A i \in todo : server'["panel"][i] = server["panel"][i]
    <3>1. \A i \in todo : i # p /\ i \in Paths
      BY <1>2, <1>3, <2>2, <2>3, BelowIs
    <3> QED BY <1>4, <3>1
  <2>5. server["panel"][cur].kind = "dir" <=> panel0[cur].kind = "dir"
    BY <2>1, <2>2 DEF TempFits
  <2>6. server'["panel"][cur].kind = "dir"
    BY <1>3, <1>4, <1>6, <2>2, <2>5, EntriesAre
  <2>7. \A i \in selected : Comparable(i)' <=> Comparable(i)
    BY <1>1 DEF Comparable
  <2>8. cur \in selected /\ panel0[cur].kind = "dir"
    BY <1>3, <1>6, <2>2
  <2> QED BY <1>1, <2>1, <2>2, <2>3, <2>4, <2>6, <2>7, <2>8 DEF TempFits
<1>20. NothingElseGoes'
  <2>1. to # "panel" => \A q \in Paths : server'["panel"][q] = server["panel"][q]
    BY <1>4
  <2> QED BY <1>1, <2>1 DEF NothingElseGoes
<1>21. NoSilentOverwrite'
  BY <1>1, <1>4, EntriesAre DEF NoSilentOverwrite
<1>22. MoveKeepsData'
  <2>1. SUFFICES ASSUME op = "move", to = "target", NEW q \in seen \ (skipped \cup resumed \cup short),
                        panel0[q].kind = "file", server'["panel"][q] = NoEntry
                 PROVE  server'["target"][q] = panel0[q]
    BY <1>1 DEF MoveKeepsData
  <2>2. q \in Paths /\ server["panel"][q] = NoEntry /\ panel0[q] # NoEntry
    BY <1>4, <2>1, EntriesAre DEF TypeOK
  <2>3. server["target"][q] = panel0[q]
    BY <2>1, <2>2 DEF MoveKeepsData
  <2> QED BY <1>4, <2>2, <2>3
<1>23. SyncIsComplete'
  BY <1>1 DEF SyncIsComplete
<1> QED BY <1>8, <1>10, <1>11, <1>12, <1>13, <1>14, <1>15, <1>16, <1>17, <1>18, <1>19, <1>20, <1>21, <1>22, <1>23

-----------------------------------------------------------------------------
(* Deleting                                                                *)

\* One entry of the item in work goes, at most.
LEMMA DeletingKeeps ==
  ASSUME IndInv, pc = "del", NEW x \in Below(cur) \cup {None},
         UNCHANGED server \/ server' = [server EXCEPT !["panel"][x] = NoEntry],
         StackFits', stack' \in Seq(Frames),
         UNCHANGED <<disk, opVars, pc, step, ovrMode, cancelled, ghosts>>
  PROVE  IndInv'
<1> USE DEF IndInv
<1>1. /\ UNCHANGED <<disk, op, to, todo, cur, pc, step, ovrMode, cancelled>>
      /\ UNCHANGED <<selected, panel0, disk0, target0, agreed, resumed, skipped, blind, seen, kept, short>>
  BY DEF opVars, ghosts
<1>2. ~Syncing /\ ~Copying /\ op \in {"move", "delete"}
  BY DEF OpFits, Syncing, Copying
<1>3. /\ cur \in Paths /\ cur \in selected /\ None \notin Paths
      /\ \A i \in selected : i # cur => Below(i) \cap Below(cur) = {}
  BY <1>2, ItemIs, TreeAssumption DEF None
<1>4. /\ server \in [{"panel", "target"} -> [Paths -> Entries]]
      /\ server' \in [{"panel", "target"} -> [Paths -> Entries]]
      /\ server'["target"] = server["target"]
      /\ \A q \in Paths : server'["panel"][q] = server["panel"][q] \/ (q = x /\ server'["panel"][q] = NoEntry)
  <2>1. server \in [{"panel", "target"} -> [Paths -> Entries]] /\ NoEntry \in Entries
    BY EntriesAre DEF TypeOK
  <2>2. CASE UNCHANGED server
    BY <2>1, <2>2
  <2>3. CASE server' = [server EXCEPT !["panel"][x] = NoEntry]
    <3>1. server'["target"] = server["target"] /\ server'["panel"] = [server["panel"] EXCEPT ![x] = NoEntry]
      BY <2>1, <2>3
    <3>2. server' \in [{"panel", "target"} -> [Paths -> Entries]]
      BY <2>1, <2>3
    <3> QED BY <2>1, <3>1, <3>2
  <2> QED BY <2>2, <2>3
<1>5. (Syncing' <=> Syncing) /\ (Stable' <=> Stable) /\ ~Copying'
  BY <1>1, <1>2 DEF Syncing, Stable, Copying
<1>6. todo \subseteq selected /\ cur \notin todo /\ selected \subseteq Paths
  BY DEF ItemsFit, TypeOK
<1>7. \A i \in todo : x \notin Below(i)
  BY <1>3, <1>6, BelowIs
<1>8. TypeOK'
  <2>1. stack' \in Seq([dir : Paths \cup {None}, left : SUBSET Paths])
    BY DEF Frames
  <2> QED BY <1>1, <1>4, <2>1 DEF TypeOK
<1>9. OpFits'
  BY <1>1, <1>2, <1>5 DEF OpFits
<1>10. ItemsFit'
  BY <1>1, <1>2, <1>5 DEF ItemsFit
<1>11. LateFits' /\ DiskIsTree' /\ AnswersFit'
  BY <1>1 DEF LateFits, DiskIsTree, AnswersFit
<1>12. LinksFit'
  BY <1>1, <1>4, EntriesAre DEF LinksFit
<1>13. PanelFits'
  <2>1. SUFFICES ASSUME Stable
                 PROVE  /\ \A p \in Paths : server'["panel"][p] \in {panel0[p], NoEntry}
                        /\ \A i \in todo : \A p \in Below(i) : server'["panel"][p] = panel0[p]
    BY <1>1, <1>5 DEF PanelFits
  <2>2. /\ \A p \in Paths : server["panel"][p] \in {panel0[p], NoEntry}
        /\ \A i \in todo : \A p \in Below(i) : server["panel"][p] = panel0[p]
    BY <2>1 DEF PanelFits
  <2>3. \A p \in Paths : server'["panel"][p] \in {panel0[p], NoEntry}
    BY <1>4, <2>2
  <2>4. \A i \in todo : \A p \in Below(i) : p \in Paths /\ p # x
    BY <1>6, <1>7, BelowIs
  <2> QED BY <1>4, <2>2, <2>3, <2>4
<1>14. SeenFits'
  BY <1>1, <1>5 DEF SeenFits
<1>15. DownFits' /\ UpFits'
  BY <1>1 DEF DownFits, UpFits
<1>16. ArrivedFits'
  BY <1>1, <1>4, <1>5 DEF ArrivedFits, Wanted
<1>17. TempFits'
  <2>1. SUFFICES ASSUME op \in {"copy", "move"} PROVE TempFits'
    BY <1>1 DEF TempFits
  <2>2. \A i \in todo : server'["panel"][i] = server["panel"][i]
    BY <1>4, <1>6, <1>7, BelowIs
  <2>3. \A i \in selected : Comparable(i)' <=> Comparable(i)
    BY <1>1 DEF Comparable
  <2> QED BY <1>1, <1>2, <1>5, <2>1, <2>2, <2>3 DEF TempFits
<1>18. NothingElseGoes'
  <2>1. SUFFICES ASSUME NEW p \in Paths, panel0[p] # NoEntry, server'["panel"][p] = NoEntry, to # "panel"
                 PROVE  op \in {"move", "delete"} /\ Within(p, selected)
    BY <1>1 DEF NothingElseGoes, Within
  <2>2. CASE server'["panel"][p] = server["panel"][p]
    BY <2>1, <2>2 DEF NothingElseGoes
  <2>3. CASE p = x
    <3>1. p \in Below(cur)
      BY <1>3, <2>3
    <3>2. Within(p, {cur})
      BY <3>1 DEF Below
    <3> QED BY <1>2, <1>3, <3>2 DEF Within
  <2> QED BY <1>4, <2>2, <2>3
<1>19. NoSilentOverwrite'
  BY <1>1, <1>4 DEF NoSilentOverwrite
<1>20. MoveKeepsData'
  <2>1. SUFFICES ASSUME op = "move", to = "target", NEW p \in seen \ (skipped \cup resumed \cup short),
                        panel0[p].kind = "file", server'["panel"][p] = NoEntry
                 PROVE  server["target"][p] = panel0[p]
    BY <1>1, <1>4 DEF MoveKeepsData
  <2>2. p \in Paths
    BY <2>1 DEF TypeOK
  <2>3. CASE server["panel"][p] = NoEntry
    BY <2>1, <2>3 DEF MoveKeepsData
  <2>4. CASE p = x
    <3>1. p \in Wanted
      BY <1>3, <2>1, <2>2, <2>4 DEF Wanted
    <3> QED BY <2>1, <3>1 DEF ArrivedFits, Stable
  <2> QED BY <1>4, <2>1, <2>2, <2>3, <2>4
<1>21. SyncIsComplete'
  BY <1>1 DEF SyncIsComplete
<1> QED BY <1>8, <1>9, <1>10, <1>11, <1>12, <1>13, <1>14, <1>15, <1>16, <1>17, <1>18, <1>19, <1>20, <1>21

\* Removing a file is deleting an entry of the item in work.
LEMMA RemoveFileKeeps ==
  ASSUME IndInv, NEW p \in Paths, RemoveFile(p)
  PROVE  IndInv'
<1>1. TypeOK /\ OpFits /\ ItemsFit /\ StackFits
  BY DEF IndInv
<1>2. /\ pc = "del" /\ p \in Frame.left
      /\ UNCHANGED <<disk, opVars, ovrMode, cancelled, ghosts>>
      /\ \/ /\ server' = [server EXCEPT !["panel"][p] = NoEntry]
            /\ stack' = Done(p) /\ UNCHANGED <<pc, step>>
         \/ Return("del", FALSE) /\ UNCHANGED server
  BY DEF RemoveFile, Visiting
<1>3. Len(stack) >= 1 /\ p \in Below(cur)
  BY <1>1, <1>2, WalkIs DEF Walks
<1>4. CASE server' = [server EXCEPT !["panel"][p] = NoEntry] /\ stack' = Done(p) /\ UNCHANGED <<pc, step>>
  <2>1. StackFits' /\ stack' \in Seq(Frames)
    BY <1>1, <1>2, <1>3, <1>4, StackDone DEF opVars, ghosts
  <2> QED BY <1>2, <1>3, <1>4, <2>1, DeletingKeeps
<1>5. CASE Return("del", FALSE) /\ UNCHANGED server
  BY <1>1, <1>2, <1>5, ReturnKeeps DEF Walks, TypeOK
<1> QED BY <1>2, <1>4, <1>5

\* Listing a directory that is being deleted changes nothing.
LEMMA DeleteDirKeeps ==
  ASSUME IndInv, NEW p \in Paths, DeleteDir(p)
  PROVE  IndInv'
<1>1. TypeOK /\ OpFits /\ ItemsFit /\ StackFits
  BY DEF IndInv
<1>2. /\ pc = "del" /\ p \in Frame.left /\ server["panel"][p].kind = "dir"
      /\ UNCHANGED <<server, disk, opVars, pc, step, ovrMode, cancelled, ghosts>>
  BY DEF DeleteDir, Visiting, IsDir
<1>3. PICK entries \in ListDir(p) : stack' = Enter(p, entries)
  BY DEF DeleteDir
<1>4. Len(stack) >= 1 /\ p \in Below(cur)
  BY <1>1, <1>2, WalkIs DEF Walks
<1>5. Real(p) = p
  BY <1>2, EntriesAre DEF Real
<1>6. entries \in SUBSET Paths /\ \A x \in entries : x # Top /\ Parent[x] = p
  BY <1>5 DEF ListDir, Children
<1>7. ~Copying
  BY <1>2 DEF Copying
<1>8. StackFits' /\ stack' \in Seq(Frames)
  <2>1. UNCHANGED <<pc, cur, op, panel0>>
    BY <1>2 DEF opVars, ghosts
  <2> QED BY <1>1, <1>3, <1>4, <1>6, <1>7, <2>1, StackEnter
<1> QED BY <1>2, <1>4, <1>8, DeletingKeeps

\* Leaving a directory whose entries are all visited leaves nothing pending behind.
LEMMA LeavingKeeps ==
  ASSUME IndInv, pc \in {"down", "up"}, Frame.left = {}, Len(stack) > 1, stack' = Front(stack),
         UNCHANGED <<server, disk, opVars, pc, step, ovrMode, cancelled, ghosts>>
  PROVE  IndInv'
<1> USE DEF IndInv
<1>1. /\ UNCHANGED <<server, disk, op, to, todo, cur, pc, step, ovrMode, cancelled>>
      /\ UNCHANGED <<selected, panel0, disk0, target0, agreed, resumed, skipped, blind, seen, kept, short>>
  BY DEF opVars, ghosts
<1>2. StackFits' /\ stack' \in Seq(Frames)
  BY <1>1, StackFront
<1>3. (Syncing' <=> Syncing) /\ (Stable' <=> Stable) /\ (Copying' <=> Copying)
  BY <1>1 DEF Syncing, Stable, Copying
<1>4. \A k \in 1 .. Len(stack) : stack[k].left # {} => k \in 1 .. Len(stack') /\ stack'[k] = stack[k]
  <2>1. Len(stack) \in Nat /\ stack[Len(stack)].left = {}
    BY FrameIs DEF TypeOK
  <2> QED BY <2>1, FrontIs
<1>5. TypeOK'
  <2>1. stack' \in Seq([dir : Paths \cup {None}, left : SUBSET Paths])
    BY <1>2 DEF Frames
  <2> QED BY <1>1, <2>1 DEF TypeOK
<1>6. OpFits' /\ ItemsFit'
  BY <1>1, <1>3 DEF OpFits, ItemsFit
<1>7. LateFits' /\ DiskIsTree' /\ AnswersFit' /\ LinksFit'
  BY <1>1 DEF LateFits, DiskIsTree, AnswersFit, LinksFit
<1>8. PanelFits' /\ SeenFits' /\ ArrivedFits'
  BY <1>1, <1>3 DEF PanelFits, SeenFits, ArrivedFits
<1>9. DownFits'
  <2>1. \A q : Pending(q) => Pending(q)'
    BY <1>4 DEF Pending
  <2>2. \A q : Copied(q) => Copied(q)'
    BY <1>1, <1>3 DEF Copied
  <2> QED BY <1>1, <1>3, <2>1, <2>2 DEF DownFits
<1>10. UpFits'
  <2>1. ASSUME NEW q, PendingWithin(q) PROVE PendingWithin(q)'
    <3>1. PICK k \in 1 .. Len(stack) : Within(q, stack[k].left)
      BY <2>1 DEF PendingWithin
    <3>2. stack[k].left # {}
      BY <3>1 DEF Within
    <3>3. k \in 1 .. Len(stack') /\ Within(q, stack'[k].left)
      BY <1>4, <3>1, <3>2
    <3> QED BY <3>3 DEF PendingWithin, Within
  <2> QED BY <1>1, <1>3, <2>1 DEF UpFits, Wanted
<1>11. TempFits'
  <2>1. \A i \in selected : Comparable(i)' <=> Comparable(i)
    BY <1>1 DEF Comparable
  <2>2. (Comparable(cur))' <=> Comparable(cur)
    BY <1>1 DEF Comparable
  <2> QED BY <1>1, <1>3, <2>1, <2>2 DEF TempFits
<1>12. NothingElseGoes' /\ NoSilentOverwrite' /\ MoveKeepsData' /\ SyncIsComplete'
  BY <1>1 DEF NothingElseGoes, NoSilentOverwrite, MoveKeepsData, SyncIsComplete
<1> QED BY <1>2, <1>5, <1>6, <1>7, <1>8, <1>9, <1>10, <1>11, <1>12

\* At the end of a listing the directory is left, or removed.
LEMMA LeaveDirKeeps ==
  ASSUME IndInv, NEW w \in Walks, LeaveDir(w)
  PROVE  IndInv'
<1>1. TypeOK /\ OpFits /\ ItemsFit /\ StackFits
  BY DEF IndInv
<1>0. Len(stack) > 1 /\ Len(stack) >= 1
  <2>1. Len(stack) > 1
    BY DEF LeaveDir
  <2> QED BY <1>1, <2>1 DEF TypeOK
<1>2. /\ pc = w /\ Frame.left = {}
      /\ UNCHANGED <<disk, opVars, ovrMode, cancelled, ghosts>>
      /\ \/ w # "del" /\ stack' = Front(stack) /\ UNCHANGED <<server, pc, step>>
         \/ /\ w = "del" /\ server' = [server EXCEPT !["panel"][Frame.dir] = NoEntry]
            /\ stack' = Front(stack) /\ UNCHANGED <<pc, step>>
         \/ w = "del" /\ Return(w, FALSE) /\ UNCHANGED server
  BY DEF LeaveDir
<1>3. CASE w # "del" /\ stack' = Front(stack) /\ UNCHANGED <<server, pc, step>>
  <2>1. pc \in {"down", "up"}
    BY <1>2, <1>3 DEF Walks
  <2> QED BY <1>0, <1>2, <1>3, <2>1, LeavingKeeps
<1>4. CASE /\ w = "del" /\ server' = [server EXCEPT !["panel"][Frame.dir] = NoEntry]
           /\ stack' = Front(stack) /\ UNCHANGED <<pc, step>>
  <2>1. StackFits' /\ stack' \in Seq(Frames)
    <3>1. UNCHANGED <<pc, cur, op, panel0>>
      BY <1>2, <1>4 DEF opVars, ghosts
    <3> QED BY <1>0, <1>1, <1>2, <1>4, <3>1, StackFront
  <2>2. Frame.dir \in Below(cur) \cup {None}
    BY <1>0, <1>1, FrameIs DEF StackFits
  <2> QED BY <1>2, <1>4, <2>1, <2>2, DeletingKeeps
<1>5. CASE w = "del" /\ Return(w, FALSE) /\ UNCHANGED server
  BY <1>1, <1>2, <1>5, ReturnKeeps DEF Walks, TypeOK
<1> QED BY <1>2, <1>3, <1>4, <1>5

-----------------------------------------------------------------------------
(* Another client, and the operations                                      *)

\* A file that another client adds was not there before, so that nothing is said of it yet.
LEMMA SomebodyAddsKeeps ==
  ASSUME IndInv, NEW p \in Paths, SomebodyAdds(p)
  PROVE  IndInv'
<1> USE DEF IndInv
<1>1. /\ pc \in {"down", "del"} /\ p \in Late /\ server["panel"][p] = NoEntry
      /\ server' = [server EXCEPT !["panel"][p] = Whole] /\ panel0' = [panel0 EXCEPT ![p] = Whole]
      /\ UNCHANGED <<disk, op, to, todo, cur, pc, stack, step, ovrMode, cancelled>>
      /\ UNCHANGED <<selected, disk0, target0, agreed, resumed, skipped, blind, seen, kept, short>>
  BY DEF SomebodyAdds, opVars
<1>2. /\ server \in [{"panel", "target"} -> [Paths -> Entries]]
      /\ server' \in [{"panel", "target"} -> [Paths -> Entries]]
      /\ panel0 \in [Paths -> Entries] /\ panel0' \in [Paths -> Entries]
      /\ server'["target"] = server["target"]
      /\ server'["panel"][p] = Whole /\ panel0'[p] = Whole
      /\ \A q \in Paths : q # p => server'["panel"][q] = server["panel"][q] /\ panel0'[q] = panel0[q]
  <2>1. server \in [{"panel", "target"} -> [Paths -> Entries]] /\ Whole \in Entries /\ panel0 \in [Paths -> Entries]
    BY EntriesAre DEF TypeOK
  <2> QED BY <1>1, <2>1
<1>3. panel0[p] \in {NoEntry, Whole}
  BY <1>1 DEF LateFits
<1>4. /\ \A q \in Paths : panel0[q] # NoEntry => panel0'[q] = panel0[q]
      /\ \A q \in Paths : panel0'[q].kind = "dir" <=> panel0[q].kind = "dir"
  BY <1>2, <1>3, EntriesAre
<1>5. op # None /\ cur \in Paths /\ selected \subseteq Paths /\ seen \subseteq Paths /\ todo \subseteq selected
  BY <1>1 DEF OpFits, TypeOK, ItemsFit
<1>6. (Syncing' <=> Syncing) /\ (Stable' <=> Stable) /\ (Copying' <=> Copying)
  BY <1>1 DEF Syncing, Stable, Copying
<1>7. TypeOK'
  BY <1>1, <1>2 DEF TypeOK
<1>8. OpFits'
  BY <1>1, <1>5, <1>6 DEF OpFits
<1>9. ItemsFit'
  BY <1>1, <1>4, <1>5, <1>6 DEF ItemsFit
<1>10. StackFits'
  BY <1>1, <1>4, <1>5, <1>6 DEF StackFits
<1>11. LateFits' /\ DiskIsTree' /\ AnswersFit'
  <2>1. \A q \in Late : q \in Paths
    BY TreeAssumption
  <2> QED BY <1>1, <1>2, <2>1 DEF LateFits, DiskIsTree, AnswersFit
<1>12. LinksFit'
  BY <1>2, EntriesAre DEF LinksFit
<1>13. PanelFits'
  <2>1. \A i \in Paths : \A q \in Below(i) : q \in Paths
    BY BelowIs
  <2> QED BY <1>1, <1>2, <1>5, <1>6, <2>1 DEF PanelFits
<1>14. SeenFits'
  <2>1. Stable => \A q \in seen : panel0[q] # NoEntry /\ panel0'[q] = panel0[q]
    BY <1>4, <1>5 DEF SeenFits
  <2> QED BY <1>1, <1>4, <1>5, <1>6, <2>1 DEF SeenFits
<1>15. Stable => \A q \in seen : panel0'[q] = panel0[q]
  BY <1>4, <1>5 DEF SeenFits
<1>16. DownFits'
  <2>1. \A q : Pending(q)' <=> Pending(q)
    BY <1>1 DEF Pending
  <2>2. Stable => \A q \in seen : Copied(q)' <=> Copied(q)
    BY <1>1, <1>6, <1>15 DEF Copied
  <2> QED BY <1>1, <1>6, <1>15, <2>1, <2>2 DEF DownFits
<1>17. UpFits'
  BY <1>1 DEF UpFits
<1>18. ArrivedFits'
  BY <1>1, <1>2, <1>6, <1>15 DEF ArrivedFits, Wanted
<1>19. TempFits'
  <2>1. SUFFICES ASSUME op \in {"copy", "move"} PROVE TempFits'
    BY <1>1 DEF TempFits
  <2>2. \A i \in selected : panel0'[i] = panel0[i]
    BY <1>4, <1>5 DEF ItemsFit
  <2>3. \A i \in selected : Comparable(i)' <=> Comparable(i)
    BY <1>1, <2>2 DEF Comparable
  <2>4. pc # "idle" /\ ~Syncing
    BY <1>1, <2>1 DEF Syncing
  <2>5. \A i \in todo : server'["panel"][i] = panel0'[i]
    BY <1>2, <1>5, <2>1, <2>4 DEF TempFits
  <2>6. Copying => cur \in selected
    BY <2>4 DEF ItemsFit
  <2>7. Copying => (server'["panel"][cur].kind = "dir" <=> panel0'[cur].kind = "dir")
    BY <1>2, <1>5, <2>1, <2>4 DEF TempFits
  <2> QED BY <1>1, <1>4, <1>6, <2>1, <2>2, <2>3, <2>4, <2>5, <2>6, <2>7 DEF TempFits
<1>20. NothingElseGoes'
  BY <1>1, <1>2, EntriesAre DEF NothingElseGoes
<1>21. NoSilentOverwrite'
  BY <1>1, <1>2 DEF NoSilentOverwrite
<1>22. MoveKeepsData'
  BY <1>1, <1>2, <1>5, EntriesAre DEF MoveKeepsData
<1>23. SyncIsComplete'
  BY <1>1 DEF SyncIsComplete
<1> QED BY <1>7, <1>8, <1>9, <1>10, <1>11, <1>12, <1>13, <1>14, <1>16, <1>17, <1>18, <1>19, <1>20, <1>21, <1>22, <1>23

\* What follows a failed copy or a delete, and the end of an operation.
LEMMA QuietKeeps ==
  ASSUME IndInv, AfterFailure \/ AfterDelete \/ Finish
  PROVE  IndInv'
<1> USE DEF IndInv
<1>1. /\ UNCHANGED <<server, disk, op, to, cur, stack, step, ovrMode, cancelled>>
      /\ UNCHANGED <<selected, panel0, disk0, target0, agreed, resumed, skipped, blind, seen, kept, short>>
      /\ \/ pc \in {"result", "deleted"} /\ pc' \in {"next", "end"} /\ todo' = todo
         \/ pc = "end" /\ pc' = "idle" /\ todo' = {}
  BY DEF AfterFailure, AfterDelete, Finish, opVars, ghosts
<1>2. (Syncing' <=> Syncing) /\ (Stable' <=> Stable) /\ ~Copying /\ ~Copying'
  BY <1>1 DEF Syncing, Stable, Copying
<1>3. op # None /\ (pc' # "idle" => ~Syncing) /\ pc' \notin Walks
  BY <1>1 DEF OpFits, Walks
<1>4. TypeOK'
  BY <1>1 DEF TypeOK
<1>5. OpFits'
  BY <1>1, <1>2, <1>3 DEF OpFits
<1>6. ItemsFit' /\ StackFits'
  BY <1>1, <1>2, <1>3 DEF ItemsFit, StackFits
<1>7. LateFits' /\ LinksFit' /\ DiskIsTree' /\ AnswersFit'
  BY <1>1 DEF LateFits, LinksFit, DiskIsTree, AnswersFit
<1>8. PanelFits' /\ SeenFits'
  BY <1>1, <1>2 DEF PanelFits, SeenFits
<1>9. DownFits' /\ UpFits' /\ ArrivedFits'
  BY <1>1 DEF DownFits, UpFits, ArrivedFits
<1>10. TempFits'
  <2>1. SUFFICES ASSUME op \in {"copy", "move"}, pc' # "idle" PROVE TempFits'
    BY <1>1 DEF TempFits
  <2>2. \A i \in selected : Comparable(i)' <=> Comparable(i)
    BY <1>1 DEF Comparable
  <2> QED BY <1>1, <1>2, <2>1, <2>2 DEF TempFits
<1>11. NothingElseGoes' /\ NoSilentOverwrite' /\ MoveKeepsData'
  BY <1>1 DEF NothingElseGoes, NoSilentOverwrite, MoveKeepsData
<1>12. SyncIsComplete'
  BY <1>1, <1>3 DEF SyncIsComplete, Syncing
<1> QED BY <1>4, <1>5, <1>6, <1>7, <1>8, <1>9, <1>10, <1>11, <1>12

\* An operation begins with nothing done.
LEMMA BeginKeeps ==
  ASSUME IndInv, NEW o \in Ops, NEW where \in {"panel", "target"}, NEW items, Begin(o, where, items)
  PROVE  IndInv'
<1> USE DEF IndInv
<1>1. /\ pc = "idle" /\ op = None /\ items \subseteq Children(server["panel"], Top)
      /\ op' = o /\ selected' = items /\ cur' = Top /\ step' = TRUE /\ ovrMode' = 0 /\ cancelled' = FALSE
      /\ panel0' = server["panel"] /\ disk0' = disk /\ target0' = server["target"]
      /\ agreed' = {} /\ resumed' = {} /\ skipped' = {} /\ blind' = {} /\ kept' = {} /\ short' = {}
      /\ seen' = todo' /\ UNCHANGED <<server, disk>>
  BY DEF Begin, ForgetAnswers
<1>2. /\ to' \in {"panel", "target"}
      /\ \/ o \in {"copy", "move", "delete"} /\ todo' = items /\ pc' = "next" /\ stack' = <<>>
         \/ o = "syncdown" /\ to' = "panel" /\ todo' = {} /\ pc' = "down" /\ stack' = Calling(Top)
         \/ o = "syncup" /\ to' = "panel" /\ todo' = {} /\ pc' = "up" /\ stack' = Calling(Top)
  BY DEF Begin, Ops
<1>3. Top \in Paths /\ None \notin Ops
  BY TreeAssumption DEF Ops, None
<1>4. /\ items \subseteq Paths
      /\ \A i \in items : i # Top /\ Parent[i] = Top /\ server["panel"][i] # NoEntry
  BY <1>1 DEF Children
<1>5. StackFits' /\ stack' \in Seq(Frames)
  <2>1. CASE stack' = <<>> /\ pc' = "next"
    <3>1. pc' \notin Walks
      BY <2>1 DEF Walks
    <3> QED BY <2>1, <3>1, StackEmpty
  <2>2. CASE stack' = Calling(Top)
    BY <2>2, <1>1, <1>3, StackCall
  <2> QED BY <1>2, <2>1, <2>2
<1>6. Syncing' <=> o \in {"syncdown", "syncup"}
  BY <1>1 DEF Syncing
<1>7. TypeOK'
  <2>1. stack' \in Seq([dir : Paths \cup {None}, left : SUBSET Paths])
    BY <1>5 DEF Frames
  <2>2. pc' \in Walks \cup {"idle", "next", "clean", "result", "deleted", "end"} /\ todo' \subseteq Paths
    BY <1>2, <1>4 DEF Walks
  <2>3. /\ server \in [{"panel", "target"} -> [Paths -> Entries]] /\ disk \in [Paths -> Entries]
        /\ server["panel"] \in [Paths -> Entries] /\ server["target"] \in [Paths -> Entries]
    BY DEF TypeOK
  <2>4. /\ server' \in [{"panel", "target"} -> [Paths -> Entries]] /\ disk' \in [Paths -> Entries]
        /\ panel0' \in [Paths -> Entries] /\ disk0' \in [Paths -> Entries] /\ target0' \in [Paths -> Entries]
    BY <1>1, <2>3
  <2>5. /\ op' \in Ops \cup {None} /\ cur' \in Paths /\ step' \in BOOLEAN /\ ovrMode' \in 0 .. 2
        /\ cancelled' \in BOOLEAN /\ selected' \subseteq Paths /\ agreed' \subseteq Paths
        /\ resumed' \subseteq Paths /\ skipped' \subseteq Paths /\ blind' \subseteq Paths
        /\ seen' \subseteq Paths /\ kept' \subseteq Paths /\ short' \subseteq Paths
    <3>1. op' \in Ops \cup {None} /\ cur' \in Paths /\ step' \in BOOLEAN /\ ovrMode' \in 0 .. 2 /\ cancelled' \in BOOLEAN
      <4>1. op' \in Ops \cup {None} /\ cur' \in Paths
        BY <1>1, <1>3
      <4>2. step' \in BOOLEAN /\ cancelled' \in BOOLEAN
        BY <1>1
      <4>3. ovrMode' \in 0 .. 2
        BY <1>1
      <4> QED BY <4>1, <4>2, <4>3
    <3>2. selected' \subseteq Paths /\ seen' \subseteq Paths
      BY <1>1, <1>4, <2>2
    <3>3. /\ agreed' \subseteq Paths /\ resumed' \subseteq Paths /\ skipped' \subseteq Paths
          /\ blind' \subseteq Paths /\ kept' \subseteq Paths /\ short' \subseteq Paths
      BY <1>1
    <3> QED BY <3>1, <3>2, <3>3
  <2> QED BY <1>2, <2>1, <2>2, <2>4, <2>5 DEF TypeOK
<1>8. OpFits'
  BY <1>1, <1>2, <1>3, <1>6 DEF OpFits
<1>9. ItemsFit'
  BY <1>1, <1>2, <1>4, <1>6 DEF ItemsFit, Copying
<1>10. LateFits'
  BY <1>1, TreeAssumption DEF LateFits, OpFits
<1>11. LinksFit' /\ DiskIsTree' /\ AnswersFit'
  BY <1>1 DEF LinksFit, DiskIsTree, AnswersFit
<1>12. PanelFits'
  BY <1>1 DEF PanelFits
<1>13. SeenFits'
  <2>1. seen' \subseteq items /\ todo' \subseteq items
    BY <1>1, <1>2
  <2>2. \A i, j \in items : j \in Below(i) => i = j
    BY <1>4, Disjoint, BelowIs
  <2>3. Syncing' => seen' = {}
    BY <1>1, <1>2, <1>6
  <2> QED BY <1>1, <1>4, <2>1, <2>2, <2>3 DEF SeenFits
<1>14. DownFits' /\ UpFits' /\ ArrivedFits'
  BY <1>1, <1>2 DEF DownFits, UpFits, ArrivedFits, Stable
<1>15. TempFits'
  BY <1>1, <1>2 DEF TempFits, Copying
<1>16. NothingElseGoes' /\ NoSilentOverwrite'
  BY <1>1 DEF NothingElseGoes, NoSilentOverwrite
<1>17. MoveKeepsData'
  BY <1>1, <1>2, <1>4 DEF MoveKeepsData
<1>18. SyncIsComplete'
  BY <1>1, <1>2 DEF SyncIsComplete
<1> QED BY <1>5, <1>7, <1>8, <1>9, <1>10, <1>11, <1>12, <1>13, <1>14, <1>15, <1>16, <1>17, <1>18

\* An item that is taken is as it was when the operation began, and so is its place in %TEMP%.
LEMMA NextItemKeeps ==
  ASSUME IndInv, NextItem
  PROVE  IndInv'
<1> USE DEF IndInv
<1>1. /\ pc = "next" /\ UNCHANGED <<server, disk, op, to, ovrMode>>
      /\ UNCHANGED <<selected, panel0, disk0, target0, agreed, resumed, skipped, blind, seen, kept, short>>
      /\ \/ /\ pc' = "end" /\ UNCHANGED <<todo, cur, stack, step>> /\ cancelled' \in {cancelled, TRUE}
         \/ \E i \in todo :
              /\ cur' = i /\ todo' = todo \ {i} /\ stack' = Calling(i)
              /\ pc' = (IF op = "delete" THEN "del" ELSE "down") /\ step' = TRUE /\ UNCHANGED cancelled
  BY DEF NextItem, ghosts
<1>2. (Syncing' <=> Syncing) /\ (Stable' <=> Stable) /\ ~Copying /\ ~Syncing /\ op # None
  BY <1>1 DEF Syncing, Stable, Copying, OpFits
<1>3. todo \subseteq Paths /\ todo \subseteq selected
  BY DEF TypeOK, ItemsFit
<1>4. LateFits' /\ LinksFit' /\ DiskIsTree' /\ AnswersFit'
  BY <1>1 DEF LateFits, LinksFit, DiskIsTree, AnswersFit
<1>5. NothingElseGoes' /\ NoSilentOverwrite' /\ MoveKeepsData'
  BY <1>1 DEF NothingElseGoes, NoSilentOverwrite, MoveKeepsData
<1>6. SyncIsComplete'
  BY <1>1, <1>2 DEF SyncIsComplete, Syncing
<1>7. \A i \in selected : Comparable(i)' <=> Comparable(i)
  BY <1>1 DEF Comparable
<1>8. CASE pc' = "end" /\ UNCHANGED <<todo, cur, stack, step>> /\ cancelled' \in {cancelled, TRUE}
  <2>1. TypeOK'
    BY <1>1, <1>8 DEF TypeOK
  <2>2. OpFits' /\ ItemsFit' /\ ~Copying'
    BY <1>1, <1>2, <1>8 DEF OpFits, ItemsFit, Copying
  <2>3. StackFits'
    BY <1>1, <1>2, <1>8, <2>2 DEF StackFits, Walks
  <2>4. PanelFits' /\ SeenFits'
    BY <1>1, <1>2, <1>8, <2>2 DEF PanelFits, SeenFits
  <2>5. DownFits' /\ UpFits' /\ ArrivedFits'
    BY <1>8 DEF DownFits, UpFits, ArrivedFits
  <2>6. TempFits'
    BY <1>1, <1>2, <1>7, <1>8, <2>2 DEF TempFits
  <2> QED BY <1>4, <1>5, <1>6, <2>1, <2>2, <2>3, <2>4, <2>5, <2>6
<1>9. ASSUME NEW i \in todo, cur' = i, todo' = todo \ {i}, stack' = Calling(i),
             pc' = (IF op = "delete" THEN "del" ELSE "down"), step' = TRUE, UNCHANGED cancelled
      PROVE  IndInv'
  <2>1. StackFits' /\ stack' \in Seq(Frames)
    BY <1>3, <1>9, StackCall
  <2>2. TypeOK'
    <3>1. stack' \in Seq([dir : Paths \cup {None}, left : SUBSET Paths])
      BY <2>1 DEF Frames
    <3> QED BY <1>1, <1>3, <1>9, <3>1 DEF TypeOK, Walks
  <2>3. OpFits'
    BY <1>1, <1>2, <1>9 DEF OpFits
  <2>4. ItemsFit'
    BY <1>1, <1>2, <1>3, <1>9 DEF ItemsFit
  <2>5. PanelFits'
    BY <1>1, <1>2, <1>9 DEF PanelFits
  <2>6. SeenFits'
    BY <1>1, <1>2, <1>9 DEF SeenFits
  <2>7. DownFits'
    <3>1. SUFFICES ASSUME NEW q \in seen \cap Below(i) PROVE Pending(q)'
      BY <1>1, <1>9 DEF DownFits
    <3>2. q = i
      BY <1>9 DEF SeenFits
    <3>3. Len(stack') = 1 /\ i \in stack'[1].left
      BY <1>3, <1>9, CallingIs
    <3> QED BY <3>2, <3>3 DEF Pending
  <2>8. UpFits' /\ ArrivedFits'
    BY <1>1, <1>9 DEF UpFits, ArrivedFits
  <2>9. TempFits'
    <3>1. SUFFICES ASSUME op \in {"copy", "move"} PROVE TempFits'
      BY <1>1 DEF TempFits
    <3>2. pc' = "down" /\ Copying'
      BY <1>9, <3>1 DEF Copying
    <3>3. \A j \in selected \ (todo \cup kept) : Comparable(j) => \A q \in Below(j) : disk[q] = NoEntry
      BY <1>1, <1>2, <3>1 DEF TempFits
    <3>4. \A j \in todo : disk[j] = disk0[j] /\ server["panel"][j] = panel0[j]
      BY <1>1, <3>1 DEF TempFits
    <3>5. Comparable(i) => /\ disk[i].kind = "dir" => panel0[i].kind = "dir"
                           /\ panel0[i].kind = "dir" => disk[i] \in {NoEntry, Folder}
      <4>1. disk0[i] \in Entries /\ disk[i] = disk0[i]
        BY <1>3, <1>9, <3>4 DEF TypeOK
      <4> QED BY <4>1, EntriesAre DEF Comparable
    <3> QED BY <1>1, <1>3, <1>7, <1>9, <3>1, <3>2, <3>3, <3>4, <3>5 DEF TempFits
  <2> QED BY <1>4, <1>5, <1>6, <2>1, <2>2, <2>3, <2>4, <2>5, <2>6, <2>7, <2>8, <2>9
<1> QED BY <1>1, <1>8, <1>9

\* The clean-up: what it leaves on the disk is still a tree, and nothing of the
\* item when nothing of it was in use.
LEMMA CleanUpKeeps ==
  ASSUME IndInv, CleanUp
  PROVE  IndInv'
<1> USE DEF IndInv
<1> DEFINE Goes(used, p) == p \in Below(cur) /\ \A u \in used : p # u /\ p \notin Above[u]
           SameKind == (disk[cur].kind = "dir") = (server["panel"][cur].kind = "dir")
<1>1. /\ pc = "clean" /\ pc' = AfterClean
      /\ stack' = IF pc' = "del" THEN Calling(cur) ELSE <<>>
      /\ UNCHANGED <<server, op, to, todo, cur, step, ovrMode, cancelled>>
      /\ UNCHANGED <<selected, panel0, disk0, target0, agreed, resumed, skipped, blind, seen, short>>
  BY DEF CleanUp, opVars
<1>2. PICK used \in SUBSET Paths :
        /\ kept' = IF used = {} THEN kept ELSE kept \cup {cur}
        /\ disk' = IF SameKind THEN [p \in Paths |-> IF Goes(used, p) THEN NoEntry ELSE disk[p]] ELSE disk
  <2>1. PICK used \in {{}} \cup {{p} : p \in {q \in Paths : Within(q, {cur}) /\ disk[q].kind = "file"}} :
          /\ kept' = IF used = {} THEN kept ELSE kept \cup {cur}
          /\ disk' = IF (disk[cur].kind = "dir") = (server["panel"][cur].kind = "dir")
                     THEN [p \in Paths |-> IF /\ Within(p, {cur})
                                              /\ \A u \in used : p # u /\ p \notin Above[u]
                                           THEN NoEntry ELSE disk[p]]
                     ELSE disk
    BY DEF CleanUp
  <2>2. used \in SUBSET Paths
    OBVIOUS
  <2>3. \A p \in Paths : Within(p, {cur}) <=> p \in Below(cur)
    BY DEF Below
  <2> QED BY <2>1, <2>2, <2>3
<1>3. /\ ~Syncing /\ op \in {"copy", "move"} /\ cur \in Paths /\ cur \in selected /\ cur # Top
      /\ Top \notin Below(cur)
      /\ \A i \in selected : i # cur => Below(i) \cap Below(cur) = {}
  <2>1. ~Syncing
    BY <1>1 DEF OpFits
  <2> QED BY <1>1, <2>1, ItemIs DEF Copying
<1>4. /\ (Syncing' <=> Syncing) /\ (Stable' <=> Stable) /\ Copying /\ ~Copying'
      /\ pc' \in {"result", "del", "next"} /\ (pc' = "del" => op = "move" /\ step)
  BY <1>1 DEF Syncing, Stable, Copying, AfterClean
<1>5. /\ disk \in [Paths -> Entries] /\ disk' \in [Paths -> Entries]
      /\ \A p \in Paths : disk'[p] = disk[p] \/ (disk'[p] = NoEntry /\ SameKind /\ Goes(used, p))
      /\ SameKind => \A p \in Paths : Goes(used, p) => disk'[p] = NoEntry
  <2>1. disk \in [Paths -> Entries] /\ NoEntry \in Entries
    BY EntriesAre DEF TypeOK
  <2> HIDE DEF Goes, SameKind
  <2> QED BY <1>2, <2>1
<1>6. StackFits' /\ stack' \in Seq(Frames)
  <2>1. CASE pc' = "del"
    BY <1>1, <1>3, <2>1, StackCall
  <2>2. CASE pc' # "del"
    <3>1. pc' \notin Walks
      BY <1>4, <2>2 DEF Walks
    <3> QED BY <1>1, <2>2, <3>1, StackEmpty
  <2> QED BY <2>1, <2>2
<1>7. TypeOK'
  <2>1. stack' \in Seq([dir : Paths \cup {None}, left : SUBSET Paths])
    BY <1>6 DEF Frames
  <2>2. pc' \in Walks \cup {"idle", "next", "clean", "result", "deleted", "end"} /\ kept' \subseteq Paths
    BY <1>2, <1>3, <1>4 DEF Walks, TypeOK
  <2> QED BY <1>1, <1>5, <2>1, <2>2 DEF TypeOK
<1>8. OpFits'
  BY <1>1, <1>3, <1>4 DEF OpFits
<1>9. ItemsFit'
  BY <1>1, <1>3, <1>4 DEF ItemsFit
<1>10. LateFits' /\ LinksFit' /\ AnswersFit'
  BY <1>1 DEF LateFits, LinksFit, AnswersFit
<1>11. PanelFits' /\ SeenFits'
  BY <1>1, <1>4 DEF PanelFits, SeenFits
<1>12. DiskIsTree'
  <2>1. Top \in Paths /\ disk[Top] = Folder /\ ~Goes(used, Top)
    BY <1>3, TreeAssumption DEF DiskIsTree
  <2>2. disk'[Top] = Folder
    <3> HIDE DEF Goes, SameKind
    <3> QED BY <1>5, <2>1
  <2>3. ASSUME NEW p \in Paths \ {Top}, disk'[p] # NoEntry PROVE disk'[Parent[p]] = Folder
    <3>1. disk'[p] = disk[p] /\ disk[Parent[p]] = Folder
      BY <1>5, <2>3 DEF DiskIsTree
    <3>2. Parent[p] \in Paths /\ Above[p] = {Parent[p]} \cup Above[Parent[p]]
      BY AboveIs
    <3>3. SUFFICES ASSUME SameKind, Goes(used, Parent[p]) PROVE FALSE
      <4> HIDE DEF Goes, SameKind
      <4> QED BY <1>5, <3>1, <3>2
    <3>4. p \in Below(cur)
      BY <1>3, <3>3, BelowIs
    <3>5. PICK u \in used : p = u \/ p \in Above[u]
      BY <1>5, <2>3, <3>3, <3>4
    <3>6. u \in Paths /\ u # Top
      BY <3>5, AboveIs
    <3>7. Parent[p] \in Above[u]
      <4>1. CASE p = u
        BY <3>2, <4>1
      <4>2. CASE p \in Above[u]
        <5>1. p # u => p \in Below(p) /\ u \in Below(p)
          BY <3>6, <4>2, BelowIs
        <5>2. Above[u] \in SUBSET Paths /\ \A d \in Above[u] : d # Top => Parent[d] \in Above[u]
          BY <3>6, AboveClosed
        <5> QED BY <4>2, <5>2
      <4> QED BY <3>5, <4>1, <4>2
    <3> QED BY <3>3, <3>5, <3>7
  <2> QED BY <2>2, <2>3 DEF DiskIsTree
<1>13. DownFits' /\ UpFits'
  BY <1>4 DEF DownFits, UpFits
<1>14. ArrivedFits'
  BY <1>1, <1>4 DEF ArrivedFits, Wanted
<1>15. TempFits'
  <2>1. \A i \in selected : Comparable(i)' <=> Comparable(i)
    BY <1>1 DEF Comparable
  <2>2. selected \subseteq Paths /\ todo \subseteq selected /\ cur \notin todo
    BY DEF TypeOK, ItemsFit
  <2>3. \A i \in selected : i # cur => \A p \in Below(i) : disk'[p] = disk[p]
    <3>1. \A i \in selected : \A p \in Below(i) : p \in Paths
      BY <2>2, BelowIs
    <3>2. \A i \in selected : i # cur => \A p \in Below(i) : ~Goes(used, p)
      BY <1>3
    <3> HIDE DEF Goes, SameKind
    <3> QED BY <1>5, <3>1, <3>2
  <2>4. \A i \in selected \ (todo \cup kept) :
          Comparable(i) /\ i # cur => \A p \in Below(i) : disk[p] = NoEntry
    BY <1>1, <1>3, <1>4 DEF TempFits
  <2>5. cur \notin kept' /\ Comparable(cur) => \A p \in Below(cur) : disk'[p] = NoEntry
    <3>1. SUFFICES ASSUME used = {}, Comparable(cur), NEW p \in Below(cur) PROVE disk'[p] = NoEntry
      BY <1>2
    <3>2. p \in Paths
      BY <1>3, BelowIs
    <3>3. CASE SameKind
      <4>1. Goes(used, p)
        BY <3>1
      <4> QED BY <1>5, <3>2, <3>3, <4>1
    <3>4. CASE ~SameKind
      <4>1. /\ server["panel"][cur].kind = "dir" <=> panel0[cur].kind = "dir"
            /\ disk[cur].kind = "dir" => panel0[cur].kind = "dir"
            /\ panel0[cur].kind = "dir" => disk[cur] \in {NoEntry, Folder}
        BY <1>1, <1>3, <1>4, <3>1 DEF TempFits
      <4>2. disk[cur] = NoEntry
        BY <3>4, <4>1, EntriesAre
      <4>3. disk[p] = NoEntry
        BY <1>3, <1>5, <4>2, TreeAbove, EntriesAre
      <4> QED BY <1>5, <3>2, <4>3
    <3> QED BY <3>3, <3>4
  <2>6. \A i \in todo : disk'[i] = disk0[i] /\ server["panel"][i] = panel0[i]
    BY <1>1, <1>3, <2>2, <2>3, BelowIs DEF TempFits
  <2>7. kept \subseteq kept'
    BY <1>2
  <2> QED BY <1>1, <1>4, <2>1, <2>3, <2>4, <2>5, <2>6, <2>7 DEF TempFits
<1>16. NothingElseGoes' /\ NoSilentOverwrite' /\ MoveKeepsData'
  BY <1>1 DEF NothingElseGoes, NoSilentOverwrite, MoveKeepsData
<1>17. SyncIsComplete'
  BY <1>4 DEF SyncIsComplete
<1> QED BY <1>6, <1>7, <1>8, <1>9, <1>10, <1>11, <1>12, <1>13, <1>14, <1>15, <1>16, <1>17

-----------------------------------------------------------------------------
(* Theorems                                                                *)

\* The invariant holds at first.
LEMMA InitIs == Init => IndInv
<1>1. SUFFICES ASSUME Init PROVE IndInv
  OBVIOUS
<1>2. PICK t \in OldTarget : server = [panel |-> Source, target |-> t]
  BY <1>1 DEF Init
<1>3. /\ disk \in OldDisk /\ op = None /\ to = "target" /\ pc = "idle" /\ todo = {} /\ cur = Top
      /\ stack = <<>> /\ step = TRUE /\ ovrMode \in 0 .. 2 /\ cancelled \in BOOLEAN
      /\ selected = {} /\ panel0 = Source /\ disk0 = disk /\ target0 = server["target"]
      /\ agreed = {} /\ resumed = {} /\ skipped = {} /\ blind = {} /\ seen = {} /\ kept = {} /\ short = {}
  BY <1>1 DEF Init
<1>4. /\ server["panel"] = Source /\ server["target"] = t
      /\ Source \in [Paths -> Entries] /\ t \in [Paths -> Entries] /\ disk \in [Paths -> Entries]
      /\ server \in [{"panel", "target"} -> [Paths -> Entries]]
  BY <1>2, <1>3, TreeAssumption
<1>5. ~Syncing /\ ~Copying /\ pc \notin Walks
  BY <1>3 DEF Syncing, Copying, None, Walks
<1>6. TypeOK
  <2>1. stack \in Seq([dir : Paths \cup {None}, left : SUBSET Paths])
    BY <1>3
  <2> QED BY <1>3, <1>4, <2>1, TreeAssumption DEF TypeOK
<1>7. OpFits /\ ItemsFit /\ StackFits
  BY <1>3, <1>4, <1>5 DEF OpFits, ItemsFit, StackFits
<1>8. LateFits /\ LinksFit /\ DiskIsTree /\ AnswersFit
  BY <1>3, <1>4, TreeAssumption DEF LateFits, LinksFit, DiskIsTree, AnswersFit
<1>9. PanelFits /\ SeenFits /\ DownFits /\ UpFits /\ ArrivedFits /\ TempFits
  BY <1>3, <1>4, <1>5 DEF PanelFits, SeenFits, DownFits, UpFits, ArrivedFits, TempFits
<1>10. NothingElseGoes /\ NoSilentOverwrite /\ MoveKeepsData /\ SyncIsComplete
  BY <1>3, <1>4 DEF NothingElseGoes, NoSilentOverwrite, MoveKeepsData, SyncIsComplete
<1> QED BY <1>6, <1>7, <1>8, <1>9, <1>10 DEF IndInv

\* A step of nobody keeps the invariant.
LEMMA StutterKeeps ==
  ASSUME IndInv, UNCHANGED vars
  PROVE  IndInv'
<1>1. /\ UNCHANGED <<server, disk, op, to, todo, cur, pc, stack, step, ovrMode, cancelled>>
      /\ UNCHANGED <<selected, panel0, disk0, target0, agreed, resumed, skipped, blind, seen, kept, short>>
  BY DEF vars, opVars, ghosts
<1> QED BY <1>1 DEF IndInv, TypeOK, OpFits, ItemsFit, StackFits, LateFits, LinksFit, PanelFits, SeenFits,
     DiskIsTree, AnswersFit, DownFits, UpFits, ArrivedFits, TempFits, NothingElseGoes, NoSilentOverwrite,
     MoveKeepsData, SyncIsComplete, Syncing, Stable, Copying, Pending, Copied, Wanted, PendingWithin,
     Within, Comparable

\* Every step keeps the invariant.
LEMMA NextKeeps == IndInv /\ [Next]_vars => IndInv'
<1>1. SUFFICES ASSUME IndInv, [Next]_vars PROVE IndInv'
  OBVIOUS
<1>2. TypeOK
  BY <1>1 DEF IndInv
<1>3. ASSUME NEW o \in Ops, NEW where \in {"panel", "target"}, NEW items, Begin(o, where, items) PROVE IndInv'
  BY <1>1, <1>3, BeginKeeps
<1>4. CASE NextItem
  BY <1>1, <1>4, NextItemKeeps
<1>5. CASE CleanUp
  BY <1>1, <1>5, CleanUpKeeps
<1>6. CASE AfterFailure \/ AfterDelete \/ Finish
  BY <1>1, <1>6, QuietKeeps
<1>7. ASSUME NEW w \in Walks, HearCancel(w) PROVE IndInv'
  BY <1>1, <1>7, ReturnKeeps DEF HearCancel
<1>8. ASSUME NEW w \in Walks, LeaveDir(w) PROVE IndInv'
  BY <1>1, <1>8, LeaveDirKeeps
<1>9. ASSUME NEW w \in Walks, WalkEnds(w) PROVE IndInv'
  <2>1. cancelled' \in BOOLEAN
    BY <1>2, <1>9 DEF WalkEnds, TypeOK
  <2> QED BY <1>1, <1>9, <2>1, ReturnKeeps DEF WalkEnds
<1>10. ASSUME NEW p \in Paths, NEW w \in {"down", "up"},
              TakeNewFile(w, p) \/ Resume(w, p) \/ Overwrite(w, p)
              \/ Skip(w, p) \/ CancelAtQuestion(w, p) \/ SyncFile(w, p)
       PROVE  IndInv'
  <2>1. FileStep(w, p)
    BY <1>1, <1>10, TakeNewFileIs, ResumeIs, OverwriteIs, SkipIs, CancelAtQuestionIs, SyncFileIs
  <2> QED BY <1>1, <1>10, <2>1, DownFileKeeps, UpFileKeeps
<1>11. ASSUME NEW p \in Paths, RemoveFile(p) PROVE IndInv'
  BY <1>1, <1>11, RemoveFileKeeps
<1>12. ASSUME NEW p \in Paths, DownloadDir(p) PROVE IndInv'
  BY <1>1, <1>12, DownloadDirKeeps
<1>13. ASSUME NEW p \in Paths, UploadDir(p) PROVE IndInv'
  BY <1>1, <1>13, UploadDirKeeps
<1>14. ASSUME NEW p \in Paths, DeleteDir(p) PROVE IndInv'
  BY <1>1, <1>14, DeleteDirKeeps
<1>15. ASSUME NEW p \in Paths, SomebodyAdds(p) PROVE IndInv'
  BY <1>1, <1>15, SomebodyAddsKeeps
<1>16. CASE UNCHANGED vars
  BY <1>1, <1>16, StutterKeeps
<1> QED BY <1>1, <1>3, <1>4, <1>5, <1>6, <1>7, <1>8, <1>9, <1>10, <1>11, <1>12, <1>13, <1>14, <1>15, <1>16 DEF Next

\* The inductive invariant holds in every state.
THEOREM Invariance == Spec => []IndInv
BY InitIs, NextKeeps, PTL DEF Spec

\* Every variable of the operations of a panel stays in its type.
THEOREM TypeCorrect == Spec => []TypeOK
BY Invariance, PTL DEF IndInv

\* A move deletes a file only when the target holds all of it, unless the user
\* has skipped or resumed it, or Download or Upload has itself said true of a
\* part: CopyOrMoveFromFS deletes the source after its upload has succeeded, and
\* what it deletes was in %TEMP% as it was on the server when the upload read it.
THEOREM MoveLosesNothing == Spec => []MoveKeepsData
BY Invariance, PTL DEF IndInv

\* SftpDeleteRecursive removes what it was called for and what is in it, and
\* never follows a link out of it.
THEOREM OnlyTheSelectedGoes == Spec => []NothingElseGoes
BY Invariance, PTL DEF IndInv

\* SftpUploadRecursive overwrites only after SftpAskOverwrite or SftpAskResume
\* was answered in this operation, or where PathType was not answered.
THEOREM OverwritesAreAgreed == Spec => []NoSilentOverwrite
BY Invariance, PTL DEF IndInv

\* LocalDeleteRecursive removes every copy that CopyOrMoveFromFS has made in
\* %TEMP%, whatever its download and its upload returned.
THEOREM TempHoldsNothing == Spec => []TempIsCleaned
<1>1. IndInv => TempIsCleaned
  <2>1. SUFFICES ASSUME IndInv, pc = "end", op \in {"copy", "move"}, NEW i \in selected \ (todo \cup kept),
                        Comparable(i), NEW p \in Paths, Within(p, {i})
                 PROVE  disk[p] = NoEntry
    BY DEF TempIsCleaned, Comparable
  <2>2. TempFits /\ ~Copying /\ pc # "idle" /\ p \in Below(i)
    BY <2>1 DEF IndInv, Copying, Below
  <2> QED BY <2>1, <2>2 DEF TempFits
<1> QED BY <1>1, Invariance, PTL

\* When SftpSyncDir reports that a download went well, every file its listings
\* gave is the same on both sides, but for those of the same size that it took to
\* be as new, and those of which Download has said true with only a part of them.
THEOREM SyncReportsTheTruth == Spec => []SyncIsComplete
BY Invariance, PTL DEF IndInv

=============================================================================
