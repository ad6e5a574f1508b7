------------------------ MODULE FileTransfer_proofs ------------------------
(***************************************************************************)
(* Theorems about FileTransfer, for files of any length.                   *)
(***************************************************************************)
EXTENDS FileTransfer, TLAPS

-----------------------------------------------------------------------------
(* Sequences                                                               *)

\* A sequence is known by its length and its elements.
LEMMA SameSequence ==
  ASSUME NEW s \in Seq(Block), NEW n \in Nat,
         Len(s) = n, \A i \in 1 .. n : s[i] = i
  PROVE  s = [i \in 1 .. n |-> i]
BY SMT

\* WriteAt changes one block, and grows the file as far as it must.
LEMMA WriteAtIs ==
  ASSUME NEW c \in Seq(Block), NEW p \in Nat, NEW b \in Block
  PROVE  /\ WriteAt(c, p, b) \in Seq(Block)
         /\ Len(WriteAt(c, p, b)) = IF Len(c) > p THEN Len(c) ELSE p + 1
         /\ WriteAt(c, p, b)[p + 1] = b
         /\ \A i \in 1 .. p : i <= Len(c) => WriteAt(c, p, b)[i] = c[i]
<1> DEFINE n == IF Len(c) > p THEN Len(c) ELSE p + 1
           f == [i \in 1 .. n |->
                   IF i = p + 1 THEN b ELSE IF i <= Len(c) THEN c[i] ELSE Hole]
<1>1. n \in Nat /\ p + 1 \in 1 .. n /\ 1 .. p \subseteq 1 .. n
  OBVIOUS
<1>2. Hole \in Block
  BY FileAssumption DEF Hole, Block
<1>3. \A i \in 1 .. n : f[i] \in Block
  BY <1>2
<1> HIDE DEF n
<1>4. f \in Seq(Block) /\ Len(f) = n
  BY <1>1, <1>3
<1>5. f[p + 1] = b /\ \A i \in 1 .. p : i <= Len(c) => f[i] = c[i]
  BY <1>1
<1>6. f = WriteAt(c, p, b)
  BY DEF n, WriteAt
<1> QED
  BY <1>4, <1>5, <1>6 DEF n

-----------------------------------------------------------------------------
(* One lemma per action: it preserves the inductive invariant              *)

USE FileAssumption DEF taskVars, ownerVars, diskVars, progressVars, askVars,
                       pastVars, noteVars

\* What it means to be a beginning of the source.
LEMMA PrefixOfSource ==
  ASSUME NEW s \in Contents, srcLen \in Nat
  PROVE  IsPrefixOf(s, Source) <=> Len(s) <= srcLen /\ \A i \in 1 .. Len(s) : s[i] = i
<1>1. Source \in Seq(Nat) /\ Len(Source) = srcLen /\ \A i \in 1 .. srcLen : Source[i] = i
  BY DEF Source
<1>2. Len(s) \in Nat
  BY DEF Contents
<1> QED
  BY <1>1, <1>2 DEF IsPrefixOf

\* A file that was there before is a file.
LEMMA ForeignFileIs ==
  ASSUME NEW n \in 0 .. MaxBlocks
  PROVE  ForeignFile(n) \in Contents /\ Len(ForeignFile(n)) = n
<1>1. Foreign \in Block
  BY DEF Foreign, Block
<1>2. \A i \in 1 .. n : ForeignFile(n)[i] \in Block
  BY <1>1 DEF ForeignFile
<1> QED
  BY <1>2 DEF ForeignFile, Contents

\* What a turn of the copy loop writes: only the target changes, it holds the
\* block, and what it held of the source it still holds.
LEMMA BlockWritten ==
  ASSUME IndInv, pc = "copy", done < srcLen,
         disk' = [disk EXCEPT ![name] = WriteAt(@, done, done + 1)],
         UNCHANGED name
  PROVE  /\ disk' \in [Names -> Contents]
         /\ \A n \in Names : Len(disk'[n]) <= MaxBlocks
         /\ \A n \in Names : n # name => disk'[n] = disk[n]
         /\ Len(disk'[name]) > done
         /\ SoundResume =>
              /\ \A i \in 1 .. done + 1 : disk'[name][i] = i
              /\ ~(upload /\ scp) => Len(disk'[name]) = done + 1
<1> DEFINE c == disk[name]
           w == WriteAt(c, done, done + 1)
<1>1. c \in Seq(Block) /\ done \in Nat /\ done + 1 \in Block
  BY DEF IndInv, TypeOK, Contents, Block
<1>2. /\ w \in Seq(Block)
      /\ Len(w) = IF Len(c) > done THEN Len(c) ELSE done + 1
      /\ w[done + 1] = done + 1
      /\ \A i \in 1 .. done : i <= Len(c) => w[i] = c[i]
  BY <1>1, WriteAtIs
<1>3. disk'[name] = w /\ \A n \in Names : n # name => disk'[n] = disk[n]
  BY DEF IndInv, TypeOK
<1> HIDE DEF w
<1>4. disk' \in [Names -> Contents]
  <2>1. disk' = [disk EXCEPT ![name] = w]
    BY DEF w
  <2> QED
    BY <1>2, <2>1 DEF IndInv, TypeOK, Contents
<1>5. \A n \in Names : Len(disk'[n]) <= MaxBlocks
  <2>1. Len(w) <= MaxBlocks
    BY <1>2 DEF IndInv, TypeOK, SizesAreKnown
  <2> QED
    BY <1>3, <2>1 DEF IndInv, SizesAreKnown
<1>6. Len(w) > done
  BY <1>1, <1>2
<1>7. ASSUME SoundResume
      PROVE  /\ \A i \in 1 .. done + 1 : w[i] = i
             /\ ~(upload /\ scp) => Len(w) = done + 1
  <2>1. done <= Len(c) /\ (\A i \in 1 .. done : c[i] = i)
        /\ (~(upload /\ scp) => Len(c) = done)
    BY <1>7 DEF IndInv, CopyIsCounted, Holds
  <2> HIDE DEF c
  <2> QED
    BY <1>1, <1>2, <2>1
<1> QED
  BY <1>3, <1>4, <1>5, <1>6, <1>7

\* What is left of the target when blocks of this transfer are missing at its
\* end: only the target changes, and after a sound resume it is what it was, up
\* to some block.
LEMMA EndMissing ==
  ASSUME IndInv, pc \in {"copy", "close"}, NEW k \in resumeOffset .. done - 1,
         disk' = [disk EXCEPT ![name] = OnlyFirst(k)]
  PROVE  /\ disk' \in [Names -> Contents]
         /\ \A n \in Names : Len(disk'[n]) <= MaxBlocks
         /\ \A n \in Names : n # name => disk'[n] = disk[n]
         /\ SoundResume =>
              /\ Len(disk'[name]) = k /\ k <= Len(disk[name])
              /\ \A i \in 1 .. k : disk'[name][i] = disk[name][i]
<1> DEFINE c == disk[name]
           w == was[name]
<1>1. /\ c \in Seq(Block) /\ w \in Seq(Block) /\ name \in Names
      /\ resumeOffset \in Nat /\ done \in Nat /\ done <= MaxBlocks
      /\ k \in Nat /\ k < done /\ resumeOffset <= k
      /\ disk \in [Names -> Contents]
  BY DEF IndInv, TypeOK, Contents
<1>2. k <= Len(c) /\ Len(w) <= MaxBlocks
  BY <1>1 DEF IndInv, CopyIsCounted, SizesAreKnown
<1>3. disk'[name] = OnlyFirst(k) /\ \A n \in Names : n # name => disk'[n] = disk[n]
  BY <1>1
<1>4. CASE resumeOffset > 0 /\ Len(w) > k
  <2> DEFINE f == [i \in 1 .. Len(w) |-> IF i <= k THEN c[i] ELSE w[i]]
  <2>1. \A i \in 1 .. Len(w) : f[i] \in Block
    BY <1>1, <1>2
  <2>0. \E n \in Nat : Len(w) = n
    BY <1>1
  <2>2. f \in Seq(Block) /\ Len(f) = Len(w)
    <3> HIDE DEF w, c
    <3> QED
      BY <2>0, <2>1
  <2>3. OnlyFirst(k) = f
    BY <1>4 DEF OnlyFirst
  <2>4. ~SoundResume
    <3> SUFFICES ASSUME SoundResume PROVE FALSE
      OBVIOUS
    <3>1. name = "tgt"
      BY <1>4 DEF SoundResume
    <3>2. resumeOffset = Len(w)
      BY <1>1, <1>4, <3>1 DEF IndInv, SizesAreKnown
    <3> QED
      BY <1>1, <1>4, <3>2
  <2>5. disk' \in [Names -> Contents]
    BY <1>1, <1>3, <2>2, <2>3 DEF Contents
  <2>6. \A n \in Names : Len(disk'[n]) <= MaxBlocks
    BY <1>2, <1>3, <2>2, <2>3 DEF IndInv, SizesAreKnown
  <2> QED
    BY <1>3, <2>4, <2>5, <2>6
<1>5. CASE ~(resumeOffset > 0 /\ Len(w) > k)
  <2> DEFINE f == [i \in 1 .. k |-> c[i]]
  <2>1. \A i \in 1 .. k : f[i] \in Block
    BY <1>1, <1>2
  <2>2. f \in Seq(Block) /\ Len(f) = k /\ \A i \in 1 .. k : f[i] = c[i]
    BY <1>1, <2>1
  <2>3. OnlyFirst(k) = f
    BY <1>5 DEF OnlyFirst
  <2> HIDE DEF f
  <2>5. disk' \in [Names -> Contents]
    BY <1>1, <1>3, <2>2, <2>3 DEF Contents
  <2>6. \A n \in Names : Len(disk'[n]) <= MaxBlocks
    BY <1>1, <1>3, <2>2, <2>3 DEF IndInv, SizesAreKnown
  <2> QED
    BY <1>2, <1>3, <2>2, <2>3, <2>5, <2>6
<1> QED
  BY <1>4, <1>5

\* Such a target is a beginning of the source if it was one before.
LEMMA EndMissingIsPrefix ==
  ASSUME IndInv, pc \in {"copy", "close"}, NEW k \in resumeOffset .. done - 1,
         disk' = [disk EXCEPT ![name] = OnlyFirst(k)],
         UNCHANGED <<name, resumeOffset, srcLen, scp, was, opened>>
  PROVE  Resumable'
<1>1. SoundResume' = SoundResume /\ Source' = Source
  BY DEF SoundResume, Source, IsPrefixOf
<1>2. disk' \in [Names -> Contents]
      /\ (SoundResume =>
            /\ Len(disk'[name]) = k /\ k <= Len(disk[name])
            /\ \A i \in 1 .. k : disk'[name][i] = disk[name][i])
  BY EndMissing
<1>3. disk[name] \in Contents /\ disk'[name] \in Contents /\ srcLen \in Nat
      /\ k \in Nat
  BY <1>2 DEF IndInv, TypeOK
<1>4. SoundResume /\ IsPrefixOf(disk[name], Source) => IsPrefixOf(disk'[name], Source)
  BY <1>2, <1>3, PrefixOfSource DEF Contents
<1> QED
  BY <1>1, <1>4 DEF IndInv, Resumable, IsPrefixOf

\* Only Cancelled changes, which the invariant does not mention.
LEMMA CancelPreserves ==
  ASSUME IndInv, Cancel
  PROVE  IndInv'
<1>1. FlagsOK'
  BY Zenon DEF IndInv, TypeOK, FlagsOK, Cancel
<1>2. TypeOK'
  BY <1>1 DEF IndInv, TypeOK, SizesAreKnown, CopyIsCounted, Busy, Names,
    Contents, Cancel
<1>3. SizesAreKnown'
  BY DEF IndInv, TypeOK, SizesAreKnown, OnlyTargetTouched, Names, Contents,
    Cancel
<1>4. OnlyTargetTouched'
  BY DEF IndInv, TypeOK, SizesAreKnown, OnlyTargetTouched, Names, Cancel
<1>5. CopyIsCounted'
  BY DEF IndInv, TypeOK, SizesAreKnown, OnlyTargetTouched, CopyIsCounted,
    Holds, SoundResume, IsPrefixOf, Source, Names, Contents, Cancel
<1>6. SettledFirst'
  BY DEF IndInv, TypeOK, OnlyTargetTouched, SettledFirst, Busy, Cancel
<1>7. ProgressFollowsCopy'
  BY DEF IndInv, TypeOK, SizesAreKnown, CopyIsCounted, ProgressFollowsCopy,
    ReportsUnusedOffset, Cancel
<1>8. Resumable'
  BY DEF IndInv, TypeOK, OnlyTargetTouched, CopyIsCounted, Resumable, Holds,
    SoundResume, IsPrefixOf, Source, Names, Contents, Cancel
<1>9. DoneIsExact'
  BY DEF IndInv, TypeOK, OnlyTargetTouched, CopyIsCounted, DoneIsExact, Holds,
    SoundResume, IsPrefixOf, Source, Names, Contents, Cancel
<1>10. NoGhostOnDownload'
  BY DEF IndInv, TypeOK, OnlyTargetTouched, CopyIsCounted, NoGhostOnDownload,
    Ghost, Names, Contents, Cancel
<1>11. ProgressIsExact'
  BY DEF IndInv, TypeOK, SizesAreKnown, ProgressFollowsCopy, ProgressIsExact,
    ReportsUnusedOffset, Busy, Cancel
<1> QED
  BY <1>2, <1>3, <1>4, <1>5, <1>6, <1>7, <1>8, <1>9, <1>10, <1>11 DEF IndInv

\* Only DlgHwnd changes, which the invariant does not mention.
LEMMA StopDetachesPreserves ==
  ASSUME IndInv, StopDetaches
  PROVE  IndInv'
<1>1. FlagsOK'
  BY Zenon DEF IndInv, TypeOK, FlagsOK, StopDetaches
<1>2. TypeOK'
  BY <1>1 DEF IndInv, TypeOK, SizesAreKnown, CopyIsCounted, Busy, Names,
    Contents, StopDetaches
<1>3. SizesAreKnown'
  BY DEF IndInv, TypeOK, SizesAreKnown, OnlyTargetTouched, Names, Contents,
    StopDetaches
<1>4. OnlyTargetTouched'
  BY DEF IndInv, TypeOK, SizesAreKnown, OnlyTargetTouched, Names, StopDetaches
<1>5. CopyIsCounted'
  BY DEF IndInv, TypeOK, SizesAreKnown, OnlyTargetTouched, CopyIsCounted,
    Holds, SoundResume, IsPrefixOf, Source, Names, Contents, StopDetaches
<1>6. SettledFirst'
  BY DEF IndInv, TypeOK, OnlyTargetTouched, SettledFirst, Busy, StopDetaches
<1>7. ProgressFollowsCopy'
  BY DEF IndInv, TypeOK, SizesAreKnown, CopyIsCounted, ProgressFollowsCopy,
    ReportsUnusedOffset, StopDetaches
<1>8. Resumable'
  BY DEF IndInv, TypeOK, OnlyTargetTouched, CopyIsCounted, Resumable, Holds,
    SoundResume, IsPrefixOf, Source, Names, Contents, StopDetaches
<1>9. DoneIsExact'
  BY DEF IndInv, TypeOK, OnlyTargetTouched, CopyIsCounted, DoneIsExact, Holds,
    SoundResume, IsPrefixOf, Source, Names, Contents, StopDetaches
<1>10. NoGhostOnDownload'
  BY DEF IndInv, TypeOK, OnlyTargetTouched, CopyIsCounted, NoGhostOnDownload,
    Ghost, Names, Contents, StopDetaches
<1>11. ProgressIsExact'
  BY DEF IndInv, TypeOK, SizesAreKnown, ProgressFollowsCopy, ProgressIsExact,
    ReportsUnusedOffset, Busy, StopDetaches
<1> QED
  BY <1>2, <1>3, <1>4, <1>5, <1>6, <1>7, <1>8, <1>9, <1>10, <1>11 DEF IndInv

\* The files stay as they are, or the last block of a download is missing: they
\* are resumable at each position.
LEMMA StopTerminatesPreserves ==
  ASSUME IndInv, StopTerminates
  PROVE  IndInv'
<1>0. /\ disk' \in [Names -> Contents]
      /\ \A n \in Names : Len(disk'[n]) <= MaxBlocks
  <2>1. CASE UNCHANGED disk
    BY <2>1 DEF IndInv, TypeOK, SizesAreKnown
  <2>2. CASE /\ pc \in {"copy", "close"} /\ resumeOffset < done
             /\ disk' = [disk EXCEPT ![name] = OnlyFirst(done - 1)]
    <3>1. done - 1 \in resumeOffset .. done - 1
      BY <2>2 DEF IndInv, TypeOK
    <3> QED
      BY <2>2, <3>1, EndMissing
  <2> QED
    BY <2>1, <2>2 DEF StopTerminates
<1>1. FlagsOK'
  BY Zenon DEF IndInv, TypeOK, FlagsOK, StopTerminates, Busy
<1>2. TypeOK'
  BY <1>0, <1>1 DEF IndInv, TypeOK, Busy, StopTerminates
<1>3. SizesAreKnown'
  BY <1>0 DEF IndInv, SizesAreKnown, StopTerminates
<1>4. OnlyTargetTouched'
  BY DEF IndInv, TypeOK, SizesAreKnown, OnlyTargetTouched, Names,
    StopTerminates, Busy
<1>5. CopyIsCounted'
  BY DEF IndInv, TypeOK, SizesAreKnown, OnlyTargetTouched, CopyIsCounted,
    Holds, SoundResume, IsPrefixOf, Source, Names, Contents, StopTerminates,
    Busy
<1>6. SettledFirst'
  BY DEF IndInv, TypeOK, OnlyTargetTouched, SettledFirst, Busy, StopTerminates
<1>7. ProgressFollowsCopy'
  BY DEF IndInv, TypeOK, SizesAreKnown, CopyIsCounted, ProgressFollowsCopy,
    ReportsUnusedOffset, StopTerminates, Busy
<1>8. Resumable'
  <2>1. CASE UNCHANGED disk
    BY <2>1 DEF IndInv, Resumable, SoundResume, IsPrefixOf, Source, StopTerminates
  <2>2. CASE /\ pc \in {"copy", "close"} /\ resumeOffset < done
             /\ disk' = [disk EXCEPT ![name] = OnlyFirst(done - 1)]
    <3>1. done - 1 \in resumeOffset .. done - 1
      BY <2>2 DEF IndInv, TypeOK
    <3>2. UNCHANGED <<name, resumeOffset, srcLen, scp, was, opened>>
      BY DEF StopTerminates
    <3> QED
      BY <2>2, <3>1, <3>2, EndMissingIsPrefix
  <2> QED
    BY <2>1, <2>2 DEF StopTerminates
<1>9. DoneIsExact'
  BY DEF IndInv, TypeOK, OnlyTargetTouched, CopyIsCounted, DoneIsExact, Holds,
    SoundResume, IsPrefixOf, Source, Names, Contents, StopTerminates, Busy
<1>10. NoGhostOnDownload'
  BY DEF IndInv, TypeOK, OnlyTargetTouched, CopyIsCounted, NoGhostOnDownload,
    Ghost, Names, Contents, StopTerminates, Busy
<1>11. ProgressIsExact'
  BY DEF IndInv, TypeOK, SizesAreKnown, ProgressFollowsCopy, ProgressIsExact,
    ReportsUnusedOffset, Busy, StopTerminates
<1> QED
  BY <1>2, <1>3, <1>4, <1>5, <1>6, <1>7, <1>8, <1>9, <1>10, <1>11 DEF IndInv

\* A new task: the history, the files and the locals start afresh.
LEMMA TakeTaskPreserves ==
  ASSUME IndInv, TakeTask
  PROVE  IndInv'
<1>1. FlagsOK'
  BY Zenon DEF IndInv, TypeOK, FlagsOK, TakeTask, Recording, Locals, NewWorker
<1>2. TypeOK'
  BY <1>1 DEF IndInv, TypeOK, SizesAreKnown, CopyIsCounted, Busy, Names,
    Contents, TakeTask, Recording, Locals, NewWorker
<1>3. SizesAreKnown'
  BY DEF IndInv, TypeOK, SizesAreKnown, OnlyTargetTouched, Names, Contents,
    TakeTask, Recording, Locals, NewWorker
<1>4. OnlyTargetTouched'
  BY DEF IndInv, TypeOK, SizesAreKnown, OnlyTargetTouched, Names, TakeTask,
    Recording, Locals, NewWorker
<1>5. CopyIsCounted'
  BY DEF IndInv, TypeOK, SizesAreKnown, OnlyTargetTouched, CopyIsCounted,
    Holds, SoundResume, IsPrefixOf, Source, Names, Contents, TakeTask,
    Recording, Locals, NewWorker
<1>6. SettledFirst'
  BY DEF IndInv, TypeOK, OnlyTargetTouched, SettledFirst, Busy, TakeTask,
    Recording, Locals, NewWorker
<1>7. ProgressFollowsCopy'
  BY DEF IndInv, TypeOK, SizesAreKnown, CopyIsCounted, ProgressFollowsCopy,
    ReportsUnusedOffset, TakeTask, Recording, Locals, NewWorker
<1>8. Resumable'
  BY DEF IndInv, TypeOK, OnlyTargetTouched, CopyIsCounted, Resumable, Holds,
    SoundResume, IsPrefixOf, Source, Names, Contents, TakeTask, Recording,
    Locals, NewWorker
<1>9. DoneIsExact'
  BY DEF IndInv, TypeOK, OnlyTargetTouched, CopyIsCounted, DoneIsExact, Holds,
    SoundResume, IsPrefixOf, Source, Names, Contents, TakeTask, Recording,
    Locals, NewWorker
<1>10. NoGhostOnDownload'
  BY DEF IndInv, TypeOK, OnlyTargetTouched, CopyIsCounted, NoGhostOnDownload,
    Ghost, Names, Contents, TakeTask, Recording, Locals, NewWorker
<1>11. ProgressIsExact'
  BY DEF IndInv, TypeOK, SizesAreKnown, ProgressFollowsCopy, ProgressIsExact,
    ReportsUnusedOffset, Busy, TakeTask, Recording, Locals, NewWorker
<1> QED
  BY <1>2, <1>3, <1>4, <1>5, <1>6, <1>7, <1>8, <1>9, <1>10, <1>11 DEF IndInv

\* Whatever there is at the target is a file of known length.
LEMMA NextFilePreserves ==
  ASSUME IndInv, NextFile
  PROVE  IndInv'
<1>0. /\ disk' \in [Names -> Contents]
      /\ \A n \in Names : Len(disk'[n]) <= MaxBlocks
  <2>1. \A n \in Names : \E k \in 0 .. MaxBlocks : disk'[n] = ForeignFile(k)
    BY DEF NextFile
  <2>2. \A n \in Names : disk'[n] \in Contents /\ Len(disk'[n]) <= MaxBlocks
    BY <2>1, ForeignFileIs
  <2> QED
    BY <2>2 DEF NextFile
<1>1. FlagsOK'
  BY Zenon DEF IndInv, TypeOK, FlagsOK, NextFile, Recording, ForeignFile,
    Foreign, Block
<1>2. TypeOK'
  BY <1>0, <1>1 DEF IndInv, TypeOK, Busy, NextFile, Recording, Actions
<1>3. SizesAreKnown'
  BY <1>0 DEF IndInv, TypeOK, SizesAreKnown, NextFile, Recording
<1>4. OnlyTargetTouched'
  BY DEF IndInv, TypeOK, SizesAreKnown, OnlyTargetTouched, Names, NextFile,
    Recording, ForeignFile, Foreign, Block
<1>5. CopyIsCounted'
  BY DEF IndInv, TypeOK, SizesAreKnown, OnlyTargetTouched, CopyIsCounted,
    Holds, SoundResume, IsPrefixOf, Source, Names, Contents, NextFile,
    Recording, ForeignFile, Foreign, Block
<1>6. SettledFirst'
  BY DEF IndInv, TypeOK, OnlyTargetTouched, SettledFirst, Busy, NextFile,
    Recording, ForeignFile, Foreign, Block
<1>7. ProgressFollowsCopy'
  BY DEF IndInv, TypeOK, SizesAreKnown, CopyIsCounted, ProgressFollowsCopy,
    ReportsUnusedOffset, NextFile, Recording, ForeignFile, Foreign, Block
<1>8. Resumable'
  BY DEF IndInv, TypeOK, OnlyTargetTouched, CopyIsCounted, Resumable, Holds,
    SoundResume, IsPrefixOf, Source, Names, Contents, NextFile, Recording,
    ForeignFile, Foreign, Block
<1>9. DoneIsExact'
  BY DEF IndInv, TypeOK, OnlyTargetTouched, CopyIsCounted, DoneIsExact, Holds,
    SoundResume, IsPrefixOf, Source, Names, Contents, NextFile, Recording,
    ForeignFile, Foreign, Block
<1>10. NoGhostOnDownload'
  BY DEF IndInv, TypeOK, OnlyTargetTouched, CopyIsCounted, NoGhostOnDownload,
    Ghost, Names, Contents, NextFile, Recording, ForeignFile, Foreign, Block
<1>11. ProgressIsExact'
  BY DEF IndInv, TypeOK, SizesAreKnown, ProgressFollowsCopy, ProgressIsExact,
    ReportsUnusedOffset, Busy, NextFile, Recording, ForeignFile, Foreign,
    Block
<1> QED
  BY <1>2, <1>3, <1>4, <1>5, <1>6, <1>7, <1>8, <1>9, <1>10, <1>11 DEF IndInv

\* What the last transfer left becomes the file in the way.
LEMMA SameFileAgainPreserves ==
  ASSUME IndInv, SameFileAgain
  PROVE  IndInv'
<1>1. FlagsOK'
  BY Zenon DEF IndInv, TypeOK, FlagsOK, SameFileAgain, Recording, Locals,
    NewWorker
<1>2. TypeOK'
  BY <1>1 DEF IndInv, TypeOK, SizesAreKnown, CopyIsCounted, Busy, Names,
    Contents, SameFileAgain, Recording, Locals, NewWorker
<1>3. SizesAreKnown'
  BY DEF IndInv, TypeOK, SizesAreKnown, OnlyTargetTouched, Names, Contents,
    SameFileAgain, Recording, Locals, NewWorker
<1>4. OnlyTargetTouched'
  BY DEF IndInv, TypeOK, SizesAreKnown, OnlyTargetTouched, Names,
    SameFileAgain, Recording, Locals, NewWorker
<1>5. CopyIsCounted'
  BY DEF IndInv, TypeOK, SizesAreKnown, OnlyTargetTouched, CopyIsCounted,
    Holds, SoundResume, IsPrefixOf, Source, Names, Contents, SameFileAgain,
    Recording, Locals, NewWorker
<1>6. SettledFirst'
  BY DEF IndInv, TypeOK, OnlyTargetTouched, SettledFirst, Busy, SameFileAgain,
    Recording, Locals, NewWorker
<1>7. ProgressFollowsCopy'
  BY DEF IndInv, TypeOK, SizesAreKnown, CopyIsCounted, ProgressFollowsCopy,
    ReportsUnusedOffset, SameFileAgain, Recording, Locals, NewWorker
<1>8. Resumable'
  BY DEF IndInv, TypeOK, OnlyTargetTouched, CopyIsCounted, Resumable, Holds,
    SoundResume, IsPrefixOf, Source, Names, Contents, SameFileAgain,
    Recording, Locals, NewWorker
<1>9. DoneIsExact'
  BY DEF IndInv, TypeOK, OnlyTargetTouched, CopyIsCounted, DoneIsExact, Holds,
    SoundResume, IsPrefixOf, Source, Names, Contents, SameFileAgain,
    Recording, Locals, NewWorker
<1>10. NoGhostOnDownload'
  BY DEF IndInv, TypeOK, OnlyTargetTouched, CopyIsCounted, NoGhostOnDownload,
    Ghost, Names, Contents, SameFileAgain, Recording, Locals, NewWorker
<1>11. ProgressIsExact'
  BY DEF IndInv, TypeOK, SizesAreKnown, ProgressFollowsCopy, ProgressIsExact,
    ReportsUnusedOffset, Busy, SameFileAgain, Recording, Locals, NewWorker
<1> QED
  BY <1>2, <1>3, <1>4, <1>5, <1>6, <1>7, <1>8, <1>9, <1>10, <1>11 DEF IndInv

\* The sizes are those of the two files, or 0 after an error.
LEMMA BeginPreserves ==
  ASSUME IndInv, Begin
  PROVE  IndInv'
<1>1. FlagsOK'
  <2>1. CASE cancelled /\ Return("begin", FALSE)
    BY <2>1, Zenon DEF IndInv, TypeOK, FlagsOK, Return
  <2>2. CASE ~cancelled
    <3>1. statFailed' = statFailed \/ statFailed' = ("tgt" \in present)
      BY <2>2, Zenon DEF Begin
    <3>2. statFailed' \in BOOLEAN
      <4>1. statFailed \in BOOLEAN
        BY DEF IndInv, TypeOK, FlagsOK
      <4>2. CASE statFailed' = statFailed
        BY <4>1, <4>2
      <4>3. CASE statFailed' = ("tgt" \in present)
        BY <4>3
      <4> QED
        BY <3>1, <4>2, <4>3
    <3>3. UNCHANGED <<taskVars, ownerVars, diskVars, ok, opened, lost, unwritten>>
      BY <2>2, Zenon DEF Begin
    <3> QED
      BY <3>2, <3>3, Zenon DEF IndInv, TypeOK, FlagsOK
  <2> QED
    BY <2>1, <2>2, Zenon DEF Begin
<1>2. TypeOK'
  <2>1. Len(disk["tgt"]) \in 0 .. MaxBlocks
    BY DEF IndInv, TypeOK, SizesAreKnown, Names, Contents
  <2>2. existingSize' \in 0 .. MaxBlocks /\ newSize' \in 0 .. MaxBlocks
    BY <2>1 DEF IndInv, TypeOK, Begin, Return
  <2> QED
    BY <1>1, <2>2 DEF IndInv, TypeOK, Busy, Begin, Return
<1>3. SizesAreKnown'
  BY DEF IndInv, TypeOK, SizesAreKnown, OnlyTargetTouched, Names, Contents,
    Begin, Return
<1>4. OnlyTargetTouched'
  BY DEF IndInv, TypeOK, SizesAreKnown, OnlyTargetTouched, Names, Begin,
    Return
<1>5. CopyIsCounted'
  BY DEF IndInv, TypeOK, SizesAreKnown, OnlyTargetTouched, CopyIsCounted,
    Holds, SoundResume, IsPrefixOf, Source, Names, Contents, Begin, Return
<1>6. SettledFirst'
  BY DEF IndInv, TypeOK, FlagsOK, OnlyTargetTouched, SettledFirst, Busy, Begin, Return
<1>7. ProgressFollowsCopy'
  BY DEF IndInv, TypeOK, SizesAreKnown, CopyIsCounted, ProgressFollowsCopy,
    ReportsUnusedOffset, Begin, Return
<1>8. Resumable'
  BY DEF IndInv, TypeOK, OnlyTargetTouched, CopyIsCounted, Resumable, Holds,
    SoundResume, IsPrefixOf, Source, Names, Contents, Begin, Return
<1>9. DoneIsExact'
  BY DEF IndInv, TypeOK, OnlyTargetTouched, CopyIsCounted, DoneIsExact, Holds,
    SoundResume, IsPrefixOf, Source, Names, Contents, Begin, Return
<1>10. NoGhostOnDownload'
  BY DEF IndInv, TypeOK, OnlyTargetTouched, CopyIsCounted, NoGhostOnDownload,
    Ghost, Names, Contents, Begin, Return
<1>11. ProgressIsExact'
  BY DEF IndInv, TypeOK, SizesAreKnown, ProgressFollowsCopy, ProgressIsExact,
    ReportsUnusedOffset, Busy, Begin, Return
<1> QED
  BY <1>2, <1>3, <1>4, <1>5, <1>6, <1>7, <1>8, <1>9, <1>10, <1>11 DEF IndInv

\* A remembered answer settles the conflict.
LEMMA AskRememberedPreserves ==
  ASSUME IndInv, AskRemembered
  PROVE  IndInv'
<1>1. FlagsOK'
  BY Zenon DEF IndInv, TypeOK, FlagsOK, AskRemembered, ResumeIfSmaller,
    Actions
<1>2. TypeOK'
  BY <1>1 DEF IndInv, TypeOK, SizesAreKnown, CopyIsCounted, Busy, Names,
    Contents, AskRemembered, ResumeIfSmaller, Actions
<1>3. SizesAreKnown'
  BY DEF IndInv, TypeOK, SizesAreKnown, OnlyTargetTouched, Names, Contents,
    AskRemembered, ResumeIfSmaller, Actions
<1>4. OnlyTargetTouched'
  BY DEF IndInv, TypeOK, SizesAreKnown, OnlyTargetTouched, Names,
    AskRemembered, ResumeIfSmaller, Actions
<1>5. CopyIsCounted'
  BY DEF IndInv, TypeOK, SizesAreKnown, OnlyTargetTouched, CopyIsCounted,
    Holds, SoundResume, IsPrefixOf, Source, Names, Contents, AskRemembered,
    ResumeIfSmaller, Actions
<1>6. SettledFirst'
  BY DEF IndInv, TypeOK, OnlyTargetTouched, SettledFirst, Busy, AskRemembered,
    ResumeIfSmaller, Actions
<1>7. ProgressFollowsCopy'
  BY DEF IndInv, TypeOK, SizesAreKnown, CopyIsCounted, ProgressFollowsCopy,
    ReportsUnusedOffset, AskRemembered, ResumeIfSmaller, Actions
<1>8. Resumable'
  BY DEF IndInv, TypeOK, OnlyTargetTouched, CopyIsCounted, Resumable, Holds,
    SoundResume, IsPrefixOf, Source, Names, Contents, AskRemembered,
    ResumeIfSmaller, Actions
<1>9. DoneIsExact'
  BY DEF IndInv, TypeOK, OnlyTargetTouched, CopyIsCounted, DoneIsExact, Holds,
    SoundResume, IsPrefixOf, Source, Names, Contents, AskRemembered,
    ResumeIfSmaller, Actions
<1>10. NoGhostOnDownload'
  BY DEF IndInv, TypeOK, OnlyTargetTouched, CopyIsCounted, NoGhostOnDownload,
    Ghost, Names, Contents, AskRemembered, ResumeIfSmaller, Actions
<1>11. ProgressIsExact'
  BY DEF IndInv, TypeOK, SizesAreKnown, ProgressFollowsCopy, ProgressIsExact,
    ReportsUnusedOffset, Busy, AskRemembered, ResumeIfSmaller, Actions
<1> QED
  BY <1>2, <1>3, <1>4, <1>5, <1>6, <1>7, <1>8, <1>9, <1>10, <1>11 DEF IndInv

\* Without a window the fallback settles the conflict.
LEMMA AskUserPreserves ==
  ASSUME IndInv, AskUser
  PROVE  IndInv'
<1>1. FlagsOK'
  BY Zenon DEF IndInv, TypeOK, FlagsOK, AskUser, Actions
<1>2. TypeOK'
  BY <1>1 DEF IndInv, TypeOK, SizesAreKnown, CopyIsCounted, Busy, Names,
    Contents, AskUser, Actions
<1>3. SizesAreKnown'
  BY DEF IndInv, TypeOK, SizesAreKnown, OnlyTargetTouched, Names, Contents,
    AskUser, Actions
<1>4. OnlyTargetTouched'
  BY DEF IndInv, TypeOK, SizesAreKnown, OnlyTargetTouched, Names, AskUser,
    Actions
<1>5. CopyIsCounted'
  BY DEF IndInv, TypeOK, SizesAreKnown, OnlyTargetTouched, CopyIsCounted,
    Holds, SoundResume, IsPrefixOf, Source, Names, Contents, AskUser, Actions
<1>6. SettledFirst'
  BY DEF IndInv, TypeOK, OnlyTargetTouched, SettledFirst, Busy, AskUser,
    Actions
<1>7. ProgressFollowsCopy'
  BY DEF IndInv, TypeOK, SizesAreKnown, CopyIsCounted, ProgressFollowsCopy,
    ReportsUnusedOffset, AskUser, Actions
<1>8. Resumable'
  BY DEF IndInv, TypeOK, OnlyTargetTouched, CopyIsCounted, Resumable, Holds,
    SoundResume, IsPrefixOf, Source, Names, Contents, AskUser, Actions
<1>9. DoneIsExact'
  BY DEF IndInv, TypeOK, OnlyTargetTouched, CopyIsCounted, DoneIsExact, Holds,
    SoundResume, IsPrefixOf, Source, Names, Contents, AskUser, Actions
<1>10. NoGhostOnDownload'
  BY DEF IndInv, TypeOK, OnlyTargetTouched, CopyIsCounted, NoGhostOnDownload,
    Ghost, Names, Contents, AskUser, Actions
<1>11. ProgressIsExact'
  BY DEF IndInv, TypeOK, SizesAreKnown, ProgressFollowsCopy, ProgressIsExact,
    ReportsUnusedOffset, Busy, AskUser, Actions
<1> QED
  BY <1>2, <1>3, <1>4, <1>5, <1>6, <1>7, <1>8, <1>9, <1>10, <1>11 DEF IndInv

\* The user's answer settles the conflict and gives the resume offset.
LEMMA AnswerPreserves ==
  ASSUME IndInv, NEW action \in Actions, NEW applyToAll \in BOOLEAN,
         NEW newName \in Names, Answer(action, applyToAll, newName)
  PROVE  IndInv'
<1>1. FlagsOK'
  BY Zenon DEF IndInv, TypeOK, FlagsOK, Answer, ResumeIfSmaller, Actions
<1>2. TypeOK'
  BY <1>1 DEF IndInv, TypeOK, SizesAreKnown, CopyIsCounted, Busy, Names,
    Contents, Answer, ResumeIfSmaller, Actions
<1>3. SizesAreKnown'
  BY DEF IndInv, TypeOK, SizesAreKnown, OnlyTargetTouched, Names, Contents,
    Answer, ResumeIfSmaller, Actions
<1>4. OnlyTargetTouched'
  BY DEF IndInv, TypeOK, SizesAreKnown, OnlyTargetTouched, Names, Answer,
    ResumeIfSmaller, Actions
<1>5. CopyIsCounted'
  BY DEF IndInv, TypeOK, SizesAreKnown, OnlyTargetTouched, CopyIsCounted,
    Holds, SoundResume, IsPrefixOf, Source, Names, Contents, Answer,
    ResumeIfSmaller, Actions
<1>6. SettledFirst'
  BY DEF IndInv, TypeOK, OnlyTargetTouched, SettledFirst, Busy, Answer,
    ResumeIfSmaller, Actions
<1>7. ProgressFollowsCopy'
  BY DEF IndInv, TypeOK, SizesAreKnown, CopyIsCounted, ProgressFollowsCopy,
    ReportsUnusedOffset, Answer, ResumeIfSmaller, Actions
<1>8. Resumable'
  BY DEF IndInv, TypeOK, OnlyTargetTouched, CopyIsCounted, Resumable, Holds,
    SoundResume, IsPrefixOf, Source, Names, Contents, Answer, ResumeIfSmaller,
    Actions
<1>9. DoneIsExact'
  BY DEF IndInv, TypeOK, OnlyTargetTouched, CopyIsCounted, DoneIsExact, Holds,
    SoundResume, IsPrefixOf, Source, Names, Contents, Answer, ResumeIfSmaller,
    Actions
<1>10. NoGhostOnDownload'
  BY DEF IndInv, TypeOK, OnlyTargetTouched, CopyIsCounted, NoGhostOnDownload,
    Ghost, Names, Contents, Answer, ResumeIfSmaller, Actions
<1>11. ProgressIsExact'
  <2>1. ok' => answer' = "skip"
    BY Zenon DEF Answer
  <2>2. credited' = 0 /\ srcLen' \in Nat
    BY DEF IndInv, TypeOK, ProgressFollowsCopy, Answer
  <2> QED
    BY <2>1, <2>2 DEF ProgressIsExact
<1> QED
  BY <1>2, <1>3, <1>4, <1>5, <1>6, <1>7, <1>8, <1>9, <1>10, <1>11 DEF IndInv

\* The second look at Cancelled changes nothing.
LEMMA CheckCancelledPreserves ==
  ASSUME IndInv, CheckCancelled
  PROVE  IndInv'
<1>1. FlagsOK'
  BY Zenon DEF IndInv, TypeOK, FlagsOK, CheckCancelled, Return
<1>2. TypeOK'
  BY <1>1 DEF IndInv, TypeOK, SizesAreKnown, CopyIsCounted, Busy, Names,
    Contents, CheckCancelled, Return
<1>3. SizesAreKnown'
  BY DEF IndInv, TypeOK, SizesAreKnown, OnlyTargetTouched, Names, Contents,
    CheckCancelled, Return
<1>4. OnlyTargetTouched'
  BY DEF IndInv, TypeOK, SizesAreKnown, OnlyTargetTouched, Names,
    CheckCancelled, Return
<1>5. CopyIsCounted'
  BY DEF IndInv, TypeOK, SizesAreKnown, OnlyTargetTouched, CopyIsCounted,
    Holds, SoundResume, IsPrefixOf, Source, Names, Contents, CheckCancelled,
    Return
<1>6. SettledFirst'
  BY DEF IndInv, TypeOK, OnlyTargetTouched, SettledFirst, Busy,
    CheckCancelled, Return
<1>7. ProgressFollowsCopy'
  BY DEF IndInv, TypeOK, SizesAreKnown, CopyIsCounted, ProgressFollowsCopy,
    ReportsUnusedOffset, CheckCancelled, Return
<1>8. Resumable'
  BY DEF IndInv, TypeOK, OnlyTargetTouched, CopyIsCounted, Resumable, Holds,
    SoundResume, IsPrefixOf, Source, Names, Contents, CheckCancelled, Return
<1>9. DoneIsExact'
  BY DEF IndInv, TypeOK, OnlyTargetTouched, CopyIsCounted, DoneIsExact, Holds,
    SoundResume, IsPrefixOf, Source, Names, Contents, CheckCancelled, Return
<1>10. NoGhostOnDownload'
  BY DEF IndInv, TypeOK, OnlyTargetTouched, CopyIsCounted, NoGhostOnDownload,
    Ghost, Names, Contents, CheckCancelled, Return
<1>11. ProgressIsExact'
  BY DEF IndInv, TypeOK, SizesAreKnown, ProgressFollowsCopy, ProgressIsExact,
    ReportsUnusedOffset, Busy, CheckCancelled, Return
<1> QED
  BY <1>2, <1>3, <1>4, <1>5, <1>6, <1>7, <1>8, <1>9, <1>10, <1>11 DEF IndInv

\* The offset is corrected, and the first report is the offset, or the
\* exception ReportsUnusedOffset.
LEMMA OpenSourcePreserves ==
  ASSUME IndInv, OpenSource
  PROVE  IndInv'
<1>1. FlagsOK'
  <2>1. UNCHANGED <<taskVars, ownerVars, diskVars, noteVars>>
    BY Zenon DEF OpenSource, Return
  <2>2. ok' = ok \/ ok' = FALSE
    BY Zenon DEF OpenSource, Return
  <2> QED
    BY <2>1, <2>2, Zenon DEF IndInv, TypeOK, FlagsOK
<1>2. TypeOK'
  <2>1. CASE Return("open", FALSE)
    BY <1>1, <2>1 DEF IndInv, TypeOK, Busy, Return
  <2>2. CASE ~Return("open", FALSE)
    <3>1. PICK total \in {srcLen, 0} :
            /\ resumeOffset' = StartOffset(total)
            /\ ReportProgress(IF upload /\ ~scp THEN resumeOffset ELSE StartOffset(total))
      BY <2>2 DEF OpenSource
    <3>2. StartOffset(total) \in 0 .. MaxBlocks
      BY DEF IndInv, TypeOK, StartOffset
    <3>3. currentFileDone' \in 0 .. MaxBlocks /\ credited' \in Nat
      BY <3>1, <3>2 DEF IndInv, TypeOK, ReportProgress
    <3> QED
      BY <1>1, <2>2, <3>1, <3>2, <3>3 DEF IndInv, TypeOK, Busy, OpenSource
  <2> QED
    BY <2>1, <2>2
<1>3. SizesAreKnown'
  BY DEF IndInv, TypeOK, SizesAreKnown, OnlyTargetTouched, Names, Contents,
    OpenSource, Return, StartOffset, ReportProgress
<1>4. OnlyTargetTouched'
  BY DEF IndInv, TypeOK, SizesAreKnown, OnlyTargetTouched, Names, OpenSource,
    Return, StartOffset, ReportProgress
<1>5. CopyIsCounted'
  BY DEF IndInv, TypeOK, SizesAreKnown, OnlyTargetTouched, CopyIsCounted,
    Holds, SoundResume, IsPrefixOf, Source, Names, Contents, OpenSource,
    Return, StartOffset, ReportProgress
<1>6. SettledFirst'
  BY DEF IndInv, TypeOK, OnlyTargetTouched, SettledFirst, Busy, OpenSource,
    Return, StartOffset, ReportProgress
<1>7. ProgressFollowsCopy'
  BY DEF IndInv, TypeOK, SizesAreKnown, CopyIsCounted, ProgressFollowsCopy,
    ReportsUnusedOffset, OpenSource, Return, StartOffset, ReportProgress
<1>8. Resumable'
  BY DEF IndInv, TypeOK, OnlyTargetTouched, CopyIsCounted, Resumable, Holds,
    SoundResume, IsPrefixOf, Source, Names, Contents, OpenSource, Return,
    StartOffset, ReportProgress
<1>9. DoneIsExact'
  BY DEF IndInv, TypeOK, OnlyTargetTouched, CopyIsCounted, DoneIsExact, Holds,
    SoundResume, IsPrefixOf, Source, Names, Contents, OpenSource, Return,
    StartOffset, ReportProgress
<1>10. NoGhostOnDownload'
  BY DEF IndInv, TypeOK, OnlyTargetTouched, CopyIsCounted, NoGhostOnDownload,
    Ghost, Names, Contents, OpenSource, Return, StartOffset, ReportProgress
<1>11. ProgressIsExact'
  BY DEF IndInv, TypeOK, SizesAreKnown, ProgressFollowsCopy, ProgressIsExact,
    ReportsUnusedOffset, Busy, OpenSource, Return, StartOffset, ReportProgress
<1> QED
  BY <1>2, <1>3, <1>4, <1>5, <1>6, <1>7, <1>8, <1>9, <1>10, <1>11 DEF IndInv

\* The target is empty or, in a sound resume, what is there is as long as
\* the offset.
LEMMA CreateTargetPreserves ==
  ASSUME IndInv, CreateTarget
  PROVE  IndInv'
<1>0. ASSUME pc' = "copy"
      PROVE  /\ pc = "create" /\ name' = name /\ name \in present'
             /\ done' = resumeOffset
             /\ UNCHANGED <<resumeOffset, srcLen, upload, scp, was, wasPresent>>
             /\ disk = was /\ present = wasPresent
             /\ ~upload /\ resumeOffset > 0 => name \in present
             /\ disk' \in [Names -> Contents]
             /\ \/ disk' = disk /\ (resumeOffset > 0 \/ (upload /\ scp))
                \/ /\ ~(resumeOffset > 0) /\ disk'[name] = <<>>
                   /\ \A n \in Names : n # name => disk'[n] = disk[n]
  <2>1. disk \in [Names -> Contents] /\ name \in Names /\ <<>> \in Contents
    BY DEF IndInv, TypeOK, Contents
  <2>2. /\ pc = "create" /\ name' = name /\ name \in present'
        /\ done' = resumeOffset
        /\ UNCHANGED <<resumeOffset, srcLen, upload, scp, was, wasPresent>>
        /\ ~upload /\ resumeOffset > 0 => name \in present
    BY <1>0 DEF IndInv, TypeOK, CreateTarget, Return
  <2>3. disk = was /\ present = wasPresent
    BY <2>2 DEF IndInv, OnlyTargetTouched
  <2>4. \/ disk' = disk /\ (resumeOffset = 0 => upload /\ scp)
        \/ ~(resumeOffset > 0) /\ disk' = [disk EXCEPT ![name] = <<>>]
    <3>1. PICK kept \in BOOLEAN :
            /\ resumeOffset > 0 => kept
            /\ resumeOffset = 0 /\ kept => upload /\ scp
            /\ disk' = IF kept THEN disk ELSE [disk EXCEPT ![name] = <<>>]
      BY <1>0, Zenon DEF CreateTarget, Return
    <3> QED
      BY <3>1, Zenon
  <2> QED
    BY <2>1, <2>2, <2>3, <2>4 DEF IndInv, TypeOK
<1>1. FlagsOK'
  <2>1. UNCHANGED <<taskVars, ownerVars, srcPresent, statFailed, lost, unwritten>>
    BY Zenon DEF CreateTarget, Return
  <2>2. (ok' = ok \/ ok' = FALSE) /\ (opened' = opened \/ opened' = TRUE)
    BY Zenon DEF CreateTarget, Return
  <2> QED
    BY <2>1, <2>2, Zenon DEF IndInv, TypeOK, FlagsOK
<1>2. TypeOK'
  <2>1. pc' = "copy" \/ (pc' = "return" /\ disk' = disk /\ present' = present)
    BY DEF CreateTarget, Return
  <2>2. disk' \in [Names -> Contents]
    BY <1>0, <2>1 DEF IndInv, TypeOK
  <2> QED
    BY <1>1, <2>1, <2>2 DEF IndInv, TypeOK, Busy, CreateTarget, Return
<1>3. SizesAreKnown'
  BY DEF IndInv, TypeOK, SizesAreKnown, OnlyTargetTouched, Names, Contents,
    CreateTarget, Return
<1>4. OnlyTargetTouched'
  BY DEF IndInv, TypeOK, SizesAreKnown, OnlyTargetTouched, Names,
    CreateTarget, Return
<1>5. CopyIsCounted'
  <2>1. CASE pc' # "copy"
    BY <2>1 DEF CopyIsCounted, CreateTarget, Return
  <2>2. CASE pc' = "copy"
    <3>1. resumeOffset \in Nat /\ resumeOffset <= srcLen /\ name \in Names
      BY <1>0, <2>2 DEF IndInv, TypeOK, SizesAreKnown
    <3>2. ASSUME SoundResume, resumeOffset > 0
          PROVE  /\ name = "tgt" /\ Len(was["tgt"]) = resumeOffset
                 /\ \A i \in 1 .. resumeOffset : was["tgt"][i] = i
      <4>1. was["tgt"] \in Contents /\ srcLen \in Nat
        BY DEF IndInv, TypeOK, Names
      <4>2. name = "tgt" /\ \A i \in 1 .. Len(was["tgt"]) : was["tgt"][i] = i
        BY <3>2, <4>1, PrefixOfSource DEF SoundResume
      <4>3. Len(was["tgt"]) = resumeOffset
        BY <3>2 DEF IndInv, SizesAreKnown
      <4> QED
        BY <4>2, <4>3
    <3>3. SoundResume' => SoundResume
      BY <1>0, <2>2 DEF SoundResume, Source, IsPrefixOf
    <3>4. SoundResume' => Holds(done)'
      <4>1. CASE resumeOffset > 0
        BY <1>0, <2>2, <3>1, <3>2, <3>3, <4>1 DEF Holds
      <4>2. CASE resumeOffset = 0
        <5>1. disk'[name] \in Seq(Block) /\ (disk'[name] = <<>> => Len(disk'[name]) = 0)
          BY <1>0, <2>2, <3>1 DEF Contents
        <5> QED
          BY <1>0, <2>2, <3>1, <4>2, <5>1 DEF Holds
      <4> QED
        BY <3>1, <4>1, <4>2
    <3>5. ~upload =>
            Len(disk'[name]) >= resumeOffset \/ (name \in wasPresent /\ disk'[name] = was[name])
      <4>1. disk'[name] \in Seq(Block)
        BY <1>0, <2>2, <3>1 DEF Contents
      <4> QED
        BY <1>0, <2>2, <3>1, <4>1
    <3> QED
      BY <1>0, <2>2, <3>1, <3>4, <3>5 DEF CopyIsCounted
  <2> QED
    BY <2>1, <2>2
<1>6. SettledFirst'
  BY DEF IndInv, TypeOK, OnlyTargetTouched, SettledFirst, Busy, CreateTarget,
    Return
<1>7. ProgressFollowsCopy'
  BY DEF IndInv, TypeOK, SizesAreKnown, CopyIsCounted, ProgressFollowsCopy,
    ReportsUnusedOffset, CreateTarget, Return
<1>8. Resumable'
  <2>1. CASE pc' # "copy"
    BY <2>1 DEF IndInv, OnlyTargetTouched, Resumable, CreateTarget, Return
  <2>2. CASE pc' = "copy"
    BY <1>2, <1>5, <2>2 DEF TypeOK, CopyIsCounted, Holds, Resumable,
      IsPrefixOf, Source
  <2> QED
    BY <2>1, <2>2
<1>9. DoneIsExact'
  BY DEF IndInv, TypeOK, OnlyTargetTouched, CopyIsCounted, DoneIsExact, Holds,
    SoundResume, IsPrefixOf, Source, Names, Contents, CreateTarget, Return
<1>10. NoGhostOnDownload'
  BY DEF IndInv, TypeOK, OnlyTargetTouched, CopyIsCounted, NoGhostOnDownload,
    Ghost, Names, Contents, CreateTarget, Return
<1>11. ProgressIsExact'
  BY DEF IndInv, TypeOK, SizesAreKnown, ProgressFollowsCopy, ProgressIsExact,
    ReportsUnusedOffset, Busy, CreateTarget, Return
<1> QED
  BY <1>2, <1>3, <1>4, <1>5, <1>6, <1>7, <1>8, <1>9, <1>10, <1>11 DEF IndInv

\* The target holds one block more, and one more is counted.
LEMMA CopyBlockPreserves ==
  ASSUME IndInv, CopyBlock
  PROVE  IndInv'
<1>0. /\ disk' \in [Names -> Contents]
      /\ \A n \in Names : Len(disk'[n]) <= MaxBlocks
      /\ \A n \in Names : n # name => disk'[n] = disk[n]
      /\ Len(disk'[name]) > done
      /\ SoundResume =>
           /\ \A i \in 1 .. done + 1 : disk'[name][i] = i
           /\ ~(upload /\ scp) => Len(disk'[name]) = done + 1
  BY BlockWritten DEF CopyBlock
<1>1. FlagsOK'
  BY Zenon DEF IndInv, TypeOK, FlagsOK, CopyBlock, ReportProgress
<1>2. TypeOK'
  BY <1>0, <1>1 DEF IndInv, TypeOK, SizesAreKnown, CopyIsCounted, Busy,
    CopyBlock, ReportProgress
<1>3. SizesAreKnown'
  BY <1>0 DEF IndInv, SizesAreKnown, CopyBlock
<1>4. OnlyTargetTouched'
  BY DEF IndInv, TypeOK, SizesAreKnown, OnlyTargetTouched, Names, CopyBlock,
    ReportProgress
<1>5. CopyIsCounted'
  <2>1. /\ UNCHANGED <<name, present, resumeOffset, srcLen, upload, scp, was,
                       wasPresent>>
        /\ done' = done + 1 /\ done < srcLen /\ pc = "copy"
        /\ pc' = "copy" \/ (pc' = "close" /\ ~ok')
    BY DEF CopyBlock
  <2>2. SoundResume' = SoundResume
    BY <2>1 DEF SoundResume, Source, IsPrefixOf
  <2>3. SoundResume' => Holds(done)'
    BY <1>0, <2>1, <2>2 DEF IndInv, TypeOK, Holds
  <2> QED
    BY <1>0, <2>1, <2>3 DEF IndInv, TypeOK, CopyIsCounted
<1>6. SettledFirst'
  BY DEF IndInv, TypeOK, OnlyTargetTouched, SettledFirst, Busy, CopyBlock,
    ReportProgress
<1>7. ProgressFollowsCopy'
  <2>1. done \in Nat /\ currentFileDone \in Nat /\ credited \in Nat /\ srcLen \in Nat
    BY DEF IndInv, TypeOK
  <2>2. ~ReportsUnusedOffset => credited = currentFileDone /\ currentFileDone = done
    BY DEF IndInv, ProgressFollowsCopy, CopyBlock
  <2>3. ReportsUnusedOffset' = ReportsUnusedOffset
    BY DEF ReportsUnusedOffset, CopyBlock
  <2> QED
    BY <2>1, <2>2, <2>3 DEF ProgressFollowsCopy, CopyBlock, ReportProgress
<1>8. Resumable'
  <2>1. /\ UNCHANGED <<name, resumeOffset, srcLen, upload, scp, was, opened>>
        /\ done < srcLen
    BY DEF CopyBlock
  <2>2. SoundResume' = SoundResume
    BY <2>1 DEF SoundResume, Source, IsPrefixOf
  <2> QED
    BY <1>0, <2>1, <2>2 DEF IndInv, TypeOK, Resumable, IsPrefixOf, Source
<1>9. DoneIsExact'
  BY DEF IndInv, TypeOK, OnlyTargetTouched, CopyIsCounted, DoneIsExact, Holds,
    SoundResume, IsPrefixOf, Source, Names, Contents, CopyBlock,
    ReportProgress
<1>10. NoGhostOnDownload'
  BY DEF IndInv, TypeOK, OnlyTargetTouched, CopyIsCounted, NoGhostOnDownload,
    Ghost, Names, Contents, CopyBlock, ReportProgress
<1>11. ProgressIsExact'
  BY DEF IndInv, TypeOK, SizesAreKnown, ProgressFollowsCopy, ProgressIsExact,
    ReportsUnusedOffset, Busy, CopyBlock, ReportProgress
<1> QED
  BY <1>2, <1>3, <1>4, <1>5, <1>6, <1>7, <1>8, <1>9, <1>10, <1>11 DEF IndInv

\* A block may have been written and not counted; it is the right one.
LEMMA CopyFailsPreserves ==
  ASSUME IndInv, CopyFails
  PROVE  IndInv'
<1>0. /\ disk' \in [Names -> Contents]
      /\ \A n \in Names : Len(disk'[n]) <= MaxBlocks
      /\ \A n \in Names : n # name => disk'[n] = disk[n]
      /\ Len(disk'[name]) > done \/ disk' = disk
      /\ SoundResume /\ ~scp => IsPrefixOf(disk'[name], Source)
  <2>1. CASE UNCHANGED disk
    BY <2>1 DEF IndInv, TypeOK, SizesAreKnown, OnlyTargetTouched, Resumable,
      CopyFails
  <2>2. CASE done < srcLen /\ disk' = [disk EXCEPT ![name] = WriteAt(@, done, done + 1)]
    <3>1. /\ disk' \in [Names -> Contents]
          /\ \A n \in Names : Len(disk'[n]) <= MaxBlocks
          /\ \A n \in Names : n # name => disk'[n] = disk[n]
          /\ Len(disk'[name]) > done
          /\ SoundResume =>
               /\ \A i \in 1 .. done + 1 : disk'[name][i] = i
               /\ ~(upload /\ scp) => Len(disk'[name]) = done + 1
      BY <2>2, BlockWritten DEF CopyFails
    <3> QED
      BY <2>2, <3>1 DEF IndInv, TypeOK, IsPrefixOf, Source
  <2> QED
    BY <2>1, <2>2 DEF CopyFails
<1>1. FlagsOK'
  BY Zenon DEF IndInv, TypeOK, FlagsOK, CopyFails
<1>2. TypeOK'
  BY <1>0, <1>1 DEF IndInv, TypeOK, Busy, CopyFails
<1>3. SizesAreKnown'
  BY <1>0 DEF IndInv, SizesAreKnown, CopyFails
<1>4. OnlyTargetTouched'
  BY DEF IndInv, TypeOK, SizesAreKnown, OnlyTargetTouched, Names, CopyFails
<1>5. CopyIsCounted'
  BY <1>0 DEF IndInv, TypeOK, CopyIsCounted, CopyFails
<1>6. SettledFirst'
  BY DEF IndInv, TypeOK, OnlyTargetTouched, SettledFirst, Busy, CopyFails
<1>7. ProgressFollowsCopy'
  BY DEF IndInv, TypeOK, SizesAreKnown, CopyIsCounted, ProgressFollowsCopy,
    ReportsUnusedOffset, CopyFails
<1>8. Resumable'
  BY <1>0 DEF IndInv, TypeOK, Resumable, SoundResume, IsPrefixOf, Source,
    CopyFails
<1>9. DoneIsExact'
  BY DEF IndInv, TypeOK, OnlyTargetTouched, CopyIsCounted, DoneIsExact, Holds,
    SoundResume, IsPrefixOf, Source, Names, Contents, CopyFails
<1>10. NoGhostOnDownload'
  BY DEF IndInv, TypeOK, OnlyTargetTouched, CopyIsCounted, NoGhostOnDownload,
    Ghost, Names, Contents, CopyFails
<1>11. ProgressIsExact'
  BY DEF IndInv, TypeOK, SizesAreKnown, ProgressFollowsCopy, ProgressIsExact,
    ReportsUnusedOffset, Busy, CopyFails
<1> QED
  BY <1>2, <1>3, <1>4, <1>5, <1>6, <1>7, <1>8, <1>9, <1>10, <1>11 DEF IndInv

\* All was copied, or the loss is noted.
LEMMA CopyEndsPreserves ==
  ASSUME IndInv, CopyEnds
  PROVE  IndInv'
<1>0. lost' \in BOOLEAN /\ (~lost' => ~(done < srcLen))
  <2>1. lost' = (done < srcLen)
    BY DEF CopyEnds
  <2>2. lost' \in BOOLEAN
    BY <2>1
  <2> QED
    BY <2>1, <2>2
<1>1. FlagsOK'
  BY <1>0, Zenon DEF IndInv, TypeOK, FlagsOK, CopyEnds
<1>2. TypeOK'
  BY <1>1 DEF IndInv, TypeOK, SizesAreKnown, CopyIsCounted, Busy, Names,
    Contents, CopyEnds
<1>3. SizesAreKnown'
  BY DEF IndInv, TypeOK, SizesAreKnown, OnlyTargetTouched, Names, Contents,
    CopyEnds
<1>4. OnlyTargetTouched'
  BY DEF IndInv, TypeOK, SizesAreKnown, OnlyTargetTouched, Names, CopyEnds
<1>5. CopyIsCounted'
  <2>1. /\ UNCHANGED <<name, present, resumeOffset, done, srcLen, upload, scp,
                       was, wasPresent, disk>>
        /\ pc = "copy" /\ pc' = "close"
    BY DEF CopyEnds
  <2>2. SoundResume' = SoundResume /\ Holds(done)' = Holds(done)
    BY <2>1 DEF SoundResume, Source, IsPrefixOf, Holds
  <2>3. ~lost' => done = srcLen
    BY <1>0, <2>1 DEF IndInv, TypeOK, CopyIsCounted
  <2> QED
    BY <2>1, <2>2, <2>3 DEF IndInv, CopyIsCounted, Holds
<1>6. SettledFirst'
  BY DEF IndInv, TypeOK, OnlyTargetTouched, SettledFirst, Busy, CopyEnds
<1>7. ProgressFollowsCopy'
  BY <1>0 DEF IndInv, TypeOK, CopyIsCounted, ProgressFollowsCopy,
    ReportsUnusedOffset, CopyEnds
<1>8. Resumable'
  BY DEF IndInv, TypeOK, OnlyTargetTouched, CopyIsCounted, Resumable, Holds,
    SoundResume, IsPrefixOf, Source, Names, Contents, CopyEnds
<1>9. DoneIsExact'
  BY DEF IndInv, TypeOK, OnlyTargetTouched, CopyIsCounted, DoneIsExact, Holds,
    SoundResume, IsPrefixOf, Source, Names, Contents, CopyEnds
<1>10. NoGhostOnDownload'
  BY DEF IndInv, TypeOK, OnlyTargetTouched, CopyIsCounted, NoGhostOnDownload,
    Ghost, Names, Contents, CopyEnds
<1>11. ProgressIsExact'
  BY DEF IndInv, TypeOK, SizesAreKnown, ProgressFollowsCopy, ProgressIsExact,
    ReportsUnusedOffset, Busy, CopyEnds
<1> QED
  BY <1>2, <1>3, <1>4, <1>5, <1>6, <1>7, <1>8, <1>9, <1>10, <1>11 DEF IndInv

\* The file is closed well: it is left alone, removed, or cut to what was
\* copied.
LEMMA CloseWorksPreserves ==
  ASSUME IndInv, Close, UNCHANGED unwritten,
         \/ CleansUp /\ present' = present \ {name}
            /\ disk' = [disk EXCEPT ![name] = <<>>]
         \/ /\ UNCHANGED present
            /\ disk' = IF upload /\ scp /\ ok /\ ~lost
                       THEN [disk EXCEPT ![name] = SubSeq(@, 1, done)] ELSE disk
  PROVE  IndInv'
<1>0. PICK c \in Contents :
        /\ disk' = [disk EXCEPT ![name] = c]
        /\ Len(c) <= Len(disk[name])
        /\ \A i \in 1 .. Len(c) : c[i] = disk[name][i]
        /\ ok => present' = present
        /\ ok /\ ~lost => Len(c) = IF upload /\ scp THEN done ELSE Len(disk[name])
  <2>1. /\ disk[name] \in Contents /\ Len(disk[name]) \in Nat /\ done \in Nat
        /\ disk = [disk EXCEPT ![name] = disk[name]]
    BY DEF IndInv, TypeOK, Contents
  <2>2. CASE CleansUp /\ disk' = [disk EXCEPT ![name] = <<>>]
    <3> <<>> \in Contents /\ Len(<<>>) = 0
      BY DEF Contents
    <3>1. ~ok
      BY <2>2 DEF CleansUp
    <3> WITNESS <<>> \in Contents
    <3> QED
      BY <2>1, <2>2, <3>1
  <2>3. CASE UNCHANGED <<disk, present>> /\ ~(upload /\ scp /\ ok /\ ~lost)
    BY <2>1, <2>3
  <2>4. CASE /\ upload /\ scp /\ ok /\ ~lost /\ UNCHANGED present
             /\ disk' = [disk EXCEPT ![name] = SubSeq(@, 1, done)]
    <3>1. CASE done <= Len(disk[name])
      <4> DEFINE c == SubSeq(disk[name], 1, done)
      <4>1. c \in Contents /\ Len(c) = done /\ \A i \in 1 .. done : c[i] = disk[name][i]
        BY <2>1, <3>1 DEF Contents
      <4> QED
        BY <2>4, <3>1, <4>1
    <3>2. done <= Len(disk[name])
      <4>1. SoundResume
        BY <2>4 DEF IndInv, TypeOK, SizesAreKnown, SoundResume, Close
      <4> QED
        BY <2>4, <4>1 DEF IndInv, CopyIsCounted, Holds, Close
    <3> QED
      BY <3>1, <3>2
  <2> QED
    BY <2>2, <2>3, <2>4
<1>1. FlagsOK'
  <2>1. UNCHANGED <<taskVars, ownerVars, srcPresent, ok, opened, statFailed, lost>>
    BY Zenon DEF Close
  <2> QED
    BY <2>1, Zenon DEF IndInv, TypeOK, FlagsOK
<1>2. TypeOK'
  BY <1>0, <1>1 DEF IndInv, TypeOK, Busy, Close
<1>3. SizesAreKnown'
  <2>1. c \in Contents /\ \A n \in Names : Len(disk'[n]) <= MaxBlocks
    BY <1>0 DEF IndInv, TypeOK, SizesAreKnown, Contents
  <2> QED
    BY <2>1 DEF IndInv, SizesAreKnown, Close
<1>4. OnlyTargetTouched'
  BY DEF IndInv, TypeOK, SizesAreKnown, OnlyTargetTouched, Names, Close,
    CleansUp
<1>5. CopyIsCounted'
  BY DEF IndInv, TypeOK, SizesAreKnown, OnlyTargetTouched, CopyIsCounted,
    Holds, SoundResume, IsPrefixOf, Source, Names, Contents, Close, CleansUp
<1>6. SettledFirst'
  BY DEF IndInv, TypeOK, OnlyTargetTouched, SettledFirst, Busy, Close,
    CleansUp
<1>7. ProgressFollowsCopy'
  BY DEF IndInv, TypeOK, SizesAreKnown, CopyIsCounted, ProgressFollowsCopy,
    ReportsUnusedOffset, Close, CleansUp
<1>8. Resumable'
  <2>1. UNCHANGED <<name, resumeOffset, srcLen, scp, was, opened>>
    BY DEF Close
  <2>2. SoundResume' = SoundResume /\ Source' = Source
    BY <2>1 DEF SoundResume, Source, IsPrefixOf
  <2>3. disk'[name] = c /\ disk[name] \in Contents /\ srcLen \in Nat
    BY <1>0 DEF IndInv, TypeOK
  <2>4. IsPrefixOf(disk[name], Source) => IsPrefixOf(c, Source)
    BY <1>0, <2>3, PrefixOfSource DEF Contents
  <2>5. IsPrefixOf(c, Source)' = IsPrefixOf(c, Source)
    BY <2>2 DEF IsPrefixOf
  <2> QED
    BY <2>1, <2>2, <2>3, <2>4, <2>5 DEF IndInv, Resumable, IsPrefixOf
<1>9. DoneIsExact'
  <2> SUFFICES ASSUME pc' \in {"return", "idle"}, ok', SoundResume', ~lost',
                      ~unwritten'
               PROVE  name' \in present' /\ disk'[name'] = Source'
    BY DEF DoneIsExact
  <2>1. UNCHANGED <<name, resumeOffset, srcLen, upload, scp, was, ok, lost>> /\ pc = "close"
    BY DEF Close
  <2>2. Holds(srcLen) /\ done = srcLen /\ name \in present
    BY <2>1 DEF IndInv, CopyIsCounted, SoundResume, IsPrefixOf, Source
  <2>3. name \in Names /\ srcLen \in Nat /\ disk \in [Names -> Contents]
    BY DEF IndInv, TypeOK
  <2>4. Len(c) = srcLen /\ \A i \in 1 .. srcLen : c[i] = i
    BY <1>0, <2>1, <2>2, <2>3 DEF Holds, Contents
  <2>5. c = [i \in 1 .. srcLen |-> i]
    BY <2>3, <2>4, SameSequence DEF Contents
  <2> QED
    BY <1>0, <2>1, <2>2, <2>3, <2>5 DEF Source
<1>10. NoGhostOnDownload'
  BY DEF IndInv, TypeOK, OnlyTargetTouched, CopyIsCounted, NoGhostOnDownload,
    Ghost, Names, Contents, Close, CleansUp
<1>11. ProgressIsExact'
  BY DEF IndInv, TypeOK, SizesAreKnown, ProgressFollowsCopy, ProgressIsExact,
    ReportsUnusedOffset, Busy, Close, CleansUp
<1> QED
  BY <1>2, <1>3, <1>4, <1>5, <1>6, <1>7, <1>8, <1>9, <1>10, <1>11 DEF IndInv

\* The close fails unnoticed: blocks are missing at the end, and it is noted.
LEMMA CloseFailsPreserves ==
  ASSUME IndInv, Close, unwritten' = TRUE, UNCHANGED present,
         NEW k \in resumeOffset .. done - 1,
         disk' = [disk EXCEPT ![name] = OnlyFirst(k)]
  PROVE  IndInv'
<1>0. /\ disk' \in [Names -> Contents]
      /\ \A n \in Names : Len(disk'[n]) <= MaxBlocks
      /\ \A n \in Names : n # name => disk'[n] = disk[n]
  BY EndMissing DEF Close
<1>1. FlagsOK'
  <2>1. UNCHANGED <<taskVars, ownerVars, srcPresent, ok, opened, statFailed, lost>>
    BY Zenon DEF Close
  <2> QED
    BY <2>1, Zenon DEF IndInv, TypeOK, FlagsOK
<1>2. TypeOK'
  BY <1>0, <1>1 DEF IndInv, TypeOK, Busy, Close
<1>3. SizesAreKnown'
  BY <1>0 DEF IndInv, SizesAreKnown, Close
<1>4. OnlyTargetTouched'
  BY <1>0 DEF IndInv, TypeOK, OnlyTargetTouched, Names, Close
<1>5. CopyIsCounted'
  BY DEF CopyIsCounted, Close
<1>6. SettledFirst'
  BY DEF IndInv, SettledFirst, Close
<1>7. ProgressFollowsCopy'
  BY DEF ProgressFollowsCopy, Close
<1>8. Resumable'
  BY EndMissingIsPrefix DEF Close
<1>9. DoneIsExact' /\ NoGhostOnDownload'
  BY DEF DoneIsExact, NoGhostOnDownload
<1>10. ProgressIsExact'
  BY DEF IndInv, TypeOK, SizesAreKnown, ProgressFollowsCopy, ProgressIsExact,
    ReportsUnusedOffset, Busy, Close
<1> QED
  BY <1>2, <1>3, <1>4, <1>5, <1>6, <1>7, <1>8, <1>9, <1>10 DEF IndInv

\* The two together.
LEMMA ClosePreserves ==
  ASSUME IndInv, Close
  PROVE  IndInv'
BY CloseWorksPreserves, CloseFailsPreserves DEF Close

\* The target is not touched any more.
LEMMA ExecuteTaskEndsPreserves ==
  ASSUME IndInv, ExecuteTaskEnds
  PROVE  IndInv'
<1>1. FlagsOK'
  BY Zenon DEF IndInv, TypeOK, FlagsOK, ExecuteTaskEnds
<1>2. TypeOK'
  BY <1>1 DEF IndInv, TypeOK, SizesAreKnown, CopyIsCounted, Busy, Names,
    Contents, ExecuteTaskEnds
<1>3. SizesAreKnown'
  BY DEF IndInv, TypeOK, SizesAreKnown, OnlyTargetTouched, Names, Contents,
    ExecuteTaskEnds
<1>4. OnlyTargetTouched'
  BY DEF IndInv, TypeOK, SizesAreKnown, OnlyTargetTouched, Names,
    ExecuteTaskEnds
<1>5. CopyIsCounted'
  BY DEF IndInv, TypeOK, SizesAreKnown, OnlyTargetTouched, CopyIsCounted,
    Holds, SoundResume, IsPrefixOf, Source, Names, Contents, ExecuteTaskEnds
<1>6. SettledFirst'
  BY DEF IndInv, TypeOK, OnlyTargetTouched, SettledFirst, Busy,
    ExecuteTaskEnds
<1>7. ProgressFollowsCopy'
  BY DEF IndInv, TypeOK, SizesAreKnown, CopyIsCounted, ProgressFollowsCopy,
    ReportsUnusedOffset, ExecuteTaskEnds
<1>8. Resumable'
  BY DEF IndInv, TypeOK, OnlyTargetTouched, CopyIsCounted, Resumable, Holds,
    SoundResume, IsPrefixOf, Source, Names, Contents, ExecuteTaskEnds
<1>9. DoneIsExact'
  BY DEF IndInv, TypeOK, OnlyTargetTouched, CopyIsCounted, DoneIsExact, Holds,
    SoundResume, IsPrefixOf, Source, Names, Contents, ExecuteTaskEnds
<1>10. NoGhostOnDownload'
  BY DEF IndInv, TypeOK, OnlyTargetTouched, CopyIsCounted, NoGhostOnDownload,
    Ghost, Names, Contents, ExecuteTaskEnds
<1>11. ProgressIsExact'
  BY DEF IndInv, TypeOK, SizesAreKnown, ProgressFollowsCopy, ProgressIsExact,
    ReportsUnusedOffset, Busy, ExecuteTaskEnds
<1> QED
  BY <1>2, <1>3, <1>4, <1>5, <1>6, <1>7, <1>8, <1>9, <1>10, <1>11 DEF IndInv

-----------------------------------------------------------------------------
(* The invariant, and what follows from it                                 *)

\* The first task has not begun: nothing is at the target.
LEMMA InitEstablishes ==
  ASSUME Init
  PROVE  IndInv
<1>1. disk \in [Names -> Contents] /\ was \in [Names -> Contents]
      /\ \A n \in Names : Len(disk[n]) = 0 /\ Len(was[n]) = 0
  BY DEF Init, Contents
<1>2. FlagsOK
  BY Zenon DEF Init, FlagsOK
<1>3. TypeOK
  BY <1>1, <1>2 DEF Init, TypeOK, Busy, Names, Actions
<1>4. SizesAreKnown /\ OnlyTargetTouched /\ CopyIsCounted /\ SettledFirst
      /\ ProgressFollowsCopy
  BY <1>1 DEF Init, SizesAreKnown, OnlyTargetTouched, CopyIsCounted,
    SettledFirst, ProgressFollowsCopy, Names
<1>5. Resumable /\ DoneIsExact /\ NoGhostOnDownload /\ ProgressIsExact
  BY DEF Init, Resumable, DoneIsExact, NoGhostOnDownload, ProgressIsExact, Busy
<1> QED
  BY <1>3, <1>4, <1>5 DEF IndInv

\* A step that changes nothing preserves the invariant.
LEMMA StutterPreserves ==
  ASSUME IndInv, UNCHANGED vars
  PROVE  IndInv'
<1> USE DEF vars
<1>1. FlagsOK'
  BY Zenon DEF IndInv, TypeOK, FlagsOK
<1>2. TypeOK'
  BY <1>1 DEF IndInv, TypeOK
<1>3. SizesAreKnown' /\ OnlyTargetTouched' /\ SettledFirst'
  BY DEF IndInv, SizesAreKnown, OnlyTargetTouched, SettledFirst
<1>4. CopyIsCounted' /\ Resumable' /\ DoneIsExact' /\ NoGhostOnDownload'
  BY DEF IndInv, CopyIsCounted, Resumable, DoneIsExact, NoGhostOnDownload,
    Ghost, Holds, SoundResume, IsPrefixOf, Source
<1>5. ProgressFollowsCopy' /\ ProgressIsExact'
  BY DEF IndInv, ProgressFollowsCopy, ProgressIsExact, ReportsUnusedOffset
<1> QED
  BY <1>2, <1>3, <1>4, <1>5 DEF IndInv

\* Every step preserves the invariant.
LEMMA NextPreserves ==
  ASSUME IndInv, [Next]_vars
  PROVE  IndInv'
<1>1. CASE Cancel \/ StopDetaches \/ StopTerminates
  BY <1>1, CancelPreserves, StopDetachesPreserves, StopTerminatesPreserves
<1>2. CASE TakeTask \/ NextFile \/ SameFileAgain
  BY <1>2, TakeTaskPreserves, NextFilePreserves, SameFileAgainPreserves
<1>3. CASE Begin \/ AskRemembered \/ AskUser
  BY <1>3, BeginPreserves, AskRememberedPreserves, AskUserPreserves
<1>4. ASSUME NEW action \in Actions, NEW applyToAll \in BOOLEAN,
             NEW newName \in Names, Answer(action, applyToAll, newName)
      PROVE  IndInv'
  BY <1>4, AnswerPreserves
<1>5. CASE CheckCancelled \/ OpenSource \/ CreateTarget
  BY <1>5, CheckCancelledPreserves, OpenSourcePreserves, CreateTargetPreserves
<1>6. CASE CopyBlock \/ CopyFails \/ CopyEnds
  BY <1>6, CopyBlockPreserves, CopyFailsPreserves, CopyEndsPreserves
<1>7. CASE Close \/ ExecuteTaskEnds
  BY <1>7, ClosePreserves, ExecuteTaskEndsPreserves
<1>8. CASE UNCHANGED vars
  BY <1>8, StutterPreserves
<1> QED
  BY <1>1, <1>2, <1>3, <1>4, <1>5, <1>6, <1>7, <1>8 DEF Next, Worker

\* The inductive invariant holds in every state of the transfer.
THEOREM Invariance == Spec => []IndInv
<1>1. Init => IndInv
  BY InitEstablishes
<1>2. IndInv /\ [Next]_vars => IndInv'
  BY NextPreserves
<1> QED
  BY <1>1, <1>2, PTL DEF Spec

\* Every variable keeps its type.
THEOREM TypeCorrect == Spec => []TypeOK
<1>1. IndInv => TypeOK
  BY DEF IndInv
<1> QED
  BY <1>1, Invariance, PTL

\* Wherever a Download or Upload is interrupted, the file it has opened is a
\* beginning of the source, so that the next resume is sound.
THEOREM InterruptedIsResumable == Spec => []Resumable
<1>1. IndInv => Resumable
  BY DEF IndInv
<1> QED
  BY <1>1, Invariance, PTL

\* A file the worker counts as transferred is the source, block for block, or it
\* was skipped, resumed unsoundly, or short through one of the two mishaps that
\* Download and Upload do not notice.
THEOREM TransferredIsExact == Spec => []DoneIsExact
<1>1. IndInv => DoneIsExact
  BY DEF IndInv
<1> QED
  BY <1>1, Invariance, PTL

\* A download that fails or is cancelled leaves no empty file behind, unless it
\* had written something that fclose could not write.
THEOREM DownloadLeavesNoGhost == Spec => []NoGhostOnDownload
<1>1. IndInv => NoGhostOnDownload
  BY DEF IndInv
<1> QED
  BY <1>1, Invariance, PTL

\* Each file adds its length to TotalBytesDone.
THEOREM ProgressAddsUp == Spec => []ProgressIsExact
<1>1. IndInv => ProgressIsExact
  BY DEF IndInv
<1> QED
  BY <1>1, Invariance, PTL

\* The target of a task is only changed after the conflict was settled, but for
\* a target the server could not say anything about.
THEOREM OverwriteIsSettled == Spec => []ChangedOnlyWhenSettled
<1>1. IndInv => ChangedOnlyWhenSettled
  BY DEF IndInv, OnlyTargetTouched, SettledFirst, ChangedOnlyWhenSettled, Changed
<1> QED
  BY <1>1, Invariance, PTL

=============================================================================
