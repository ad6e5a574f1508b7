-------------------------- MODULE Profiles_proofs --------------------------
(***************************************************************************)
(* Theorems about Profiles, for any number of connections and folders, and *)
(* any names.                                                              *)
(***************************************************************************)
EXTENDS Profiles, SequenceTheorems, WellFoundedInduction, TLAPS

-----------------------------------------------------------------------------
(* Recursion over a sequence.  The loops of the code are recursive functions in *)
(* Profiles; these lemmas say that there are such functions, and carry out the  *)
(* inductions with sets of numbers instead of predicates.                       *)

\* Every non-empty set of numbers has a least one.
LEMMA LeastNumber ==
  ASSUME NEW S \in SUBSET Nat, S # {}
  PROVE  \E x \in S : \A y \in S : x <= y
<1> DEFINE R == {ss \in Nat \X Nat : ss[1] < ss[2]}
<1>1. IsWellFoundedOn(R, Nat)
  BY NatLessThanWellFounded DEF OpToRel
<1>2. PICK x \in S : \A y \in S : ~(<<y, x>> \in R)
  <2> HIDE DEF R
  <2> QED BY <1>1, WFMin
<1>3. ASSUME NEW y \in S PROVE x <= y
  <2>1. <<y, x>> \in Nat \X Nat  OBVIOUS
  <2>2. ~(<<y, x>>[1] < <<y, x>>[2])  BY <2>1, <1>2
  <2> QED BY <2>2
<1> QED BY <1>3

\* Induction up to m, on the set of the numbers for which a claim holds.
LEMMA Induction ==
  ASSUME NEW m \in Nat, NEW Good, 0 \in Good,
         \A n \in 1 .. m : n - 1 \in Good => n \in Good
  PROVE  \A n \in 0 .. m : n \in Good
<1> DEFINE Bad == {n \in 0 .. m : n \notin Good}
<1>1. SUFFICES ASSUME Bad # {} PROVE FALSE
  OBVIOUS
<1>2. Bad \in SUBSET Nat
  OBVIOUS
<1>3. PICK x \in Bad : \A y \in Bad : x <= y
  <2> HIDE DEF Bad
  <2> QED BY <1>1, <1>2, LeastNumber
<1>4. x \in 1 .. m /\ x - 1 \in 0 .. m
  OBVIOUS
<1>5. x - 1 \notin Bad
  BY <1>3, <1>4
<1> QED BY <1>4, <1>5

\* The turns of a loop over 1 .. m whose value is in T: turn n makes G[n][v] of v.
\* IsLoop says that F[n] is the value after n turns, from base on.
Turns(m, T) == [1 .. m -> [T -> T]]
IsLoop(F, m, T, base, G) ==
  F \in [0 .. m -> T] /\ F[0] = base /\ \A n \in 1 .. m : F[n] = G[n][F[n - 1]]

\* There is such a function.
LEMMA Recursion ==
  ASSUME NEW m \in Nat, NEW T, NEW base \in T, NEW G \in Turns(m, T)
  PROVE  \E F : IsLoop(F, m, T, base, G)
<1> USE DEF Turns
<1> DEFINE Is(F, k) == F[0] = base /\ \A n \in 1 .. k : F[n] = G[n][F[n - 1]]
           Good == {k \in 0 .. m : \E F \in [0 .. k -> T] : Is(F, k)}
<1>1. 0 \in Good
  <2>1. [n \in 0 .. 0 |-> base] \in [0 .. 0 -> T]  OBVIOUS
  <2>2. Is([n \in 0 .. 0 |-> base], 0)  OBVIOUS
  <2> HIDE DEF Is
  <2> QED BY <2>1, <2>2
<1>2. ASSUME NEW k \in 1 .. m, k - 1 \in Good PROVE k \in Good
  <2>1. PICK F \in [0 .. k - 1 -> T] : Is(F, k - 1)
    BY <1>2
  <2> DEFINE H == [n \in 0 .. k |-> IF n = k THEN G[k][F[k - 1]] ELSE F[n]]
  <2>2. k - 1 \in 0 .. k - 1 /\ k \in Nat
    OBVIOUS
  <2>3. F[k - 1] \in T /\ G[k][F[k - 1]] \in T
    BY <2>2
  <2>4. H \in [0 .. k -> T]
    BY <2>3
  <2>5. H[k] = G[k][F[k - 1]] /\ \A n \in 0 .. k - 1 : H[n] = F[n]
    OBVIOUS
  <2>6. Is(H, k)
    <3> HIDE DEF H
    <3>1. H[0] = base
      BY <2>1, <2>5
    <3>2. ASSUME NEW n \in 1 .. k PROVE H[n] = G[n][H[n - 1]]
      <4>1. H[n - 1] = F[n - 1]
        BY <2>5
      <4>2. CASE n = k
        BY <4>1, <4>2, <2>5
      <4>3. CASE n # k
        <5>1. n \in 1 .. k - 1 /\ n \in 0 .. k - 1  BY <4>3
        <5> QED BY <5>1, <4>1, <2>1, <2>5
      <4> QED BY <4>2, <4>3
    <3> QED BY <3>1, <3>2
  <2> HIDE DEF Is, H
  <2> QED BY <2>4, <2>6
<1>3. m \in Good
  <2> HIDE DEF Good
  <2>1. m \in 0 .. m  OBVIOUS
  <2>2. \A n \in 1 .. m : n - 1 \in Good => n \in Good  BY <1>2
  <2> QED BY <1>1, <2>1, <2>2, Induction
<1> QED BY <1>3 DEF IsLoop

-----------------------------------------------------------------------------
(* The loops of Profiles, turn by turn                                     *)

\* LoadConfiguration reads one key per turn.
LEMMA LoadTurns ==
  ASSUME NEW servers \in [Indices -> ProfileSet \cup {NoProfile}], NEW m \in 0 .. MaxProfiles,
         NEW r, r.servers = servers, r.count = m
  PROVE  \E F : /\ F[0] = <<>> /\ LoadServers(r) = F[m]
               /\ \A n \in 1 .. m : F[n] = IF servers[n] = NoProfile THEN F[n - 1]
                                           ELSE Append(F[n - 1], servers[n])
<1> DEFINE T == Seq(ProfileSet)
           Turn == [n \in 1 .. m |-> [t \in T |-> IF servers[n] = NoProfile THEN t
                                               ELSE Append(t, servers[n])]]
           Is(F) == F = [n \in 0 .. m |-> IF n = 0 THEN <<>>
                                         ELSE IF servers[n] = NoProfile THEN F[n - 1]
                                         ELSE Append(F[n - 1], servers[n])]
<1>0. m \in Nat /\ 1 .. m \subseteq Indices
  BY ProfilesAssumption DEF Indices
<1>1. Turn \in Turns(m, T)
  <2>1. ASSUME NEW t \in T, NEW n \in 1 .. m
        PROVE  (IF servers[n] = NoProfile THEN t ELSE Append(t, servers[n])) \in T
    <3>1. servers[n] \in ProfileSet \cup {NoProfile}
      BY <1>0
    <3> QED BY <3>1
  <2> QED BY <2>1 DEF Turns
<1>2. \E F : Is(F)
  <2>1. <<>> \in T
    OBVIOUS
  <2>2. PICK F : IsLoop(F, m, T, <<>>, Turn)
    <3> HIDE DEF T, Turn, Is
    <3> QED BY <1>0, <1>1, <2>1, Recursion
  <2>3. ASSUME NEW n \in 1 .. m
        PROVE  Turn[n][F[n - 1]] = IF servers[n] = NoProfile THEN F[n - 1]
                                       ELSE Append(F[n - 1], servers[n])
    <3>1. F[n - 1] \in T
      <4> HIDE DEF T
      <4> QED BY <2>2, <1>0 DEF IsLoop
    <3> DEFINE v == F[n - 1]
    <3> HIDE DEF v
    <3> QED BY <3>1
  <2>4. ASSUME NEW n \in 0 .. m
        PROVE  F[n] = IF n = 0 THEN <<>> ELSE IF servers[n] = NoProfile THEN F[n - 1]
                      ELSE Append(F[n - 1], servers[n])
    <3> HIDE DEF T, Turn
    <3>1. n # 0 => n \in 1 .. m
      BY <1>0
    <3> QED BY <2>2, <2>3, <3>1 DEF IsLoop
  <2>5. F = [n \in 0 .. m |-> F[n]]
    BY <2>2 DEF IsLoop
  <2> HIDE DEF T, Turn
  <2> QED BY <2>4, <2>5
<1> DEFINE L == CHOOSE F : Is(F)
<1>3. Is(L)
  <2> HIDE DEF Is
  <2> QED BY <1>2
<1>4. LoadServers(r) = L[m]
  BY DEF LoadServers
<1> HIDE DEF L
<1>5. L[0] = <<>> /\ \A n \in 1 .. m : L[n] = IF servers[n] = NoProfile THEN L[n - 1]
                                             ELSE Append(L[n - 1], servers[n])
  <2>1. 0 \in 0 .. m /\ \A n \in 1 .. m : n \in 0 .. m /\ n # 0
    BY <1>0
  <2> QED BY <1>3, <2>1
<1> QED BY <1>4, <1>5

\* A folder that is added is in the list, or the list is full; nothing leaves it.
LEMMA AddFolderKeeps ==
  ASSUME NEW fs \in FolderList, NEW f \in FolderNames \cup {Root}
  PROVE  AddFolder(fs, f) \in FolderList
<1>1. CASE f # Root /\ Len(fs) < MaxFolders
  BY <1>1, ProfilesAssumption DEF AddFolder, FolderList
<1>2. CASE ~(f # Root /\ Len(fs) < MaxFolders)
  BY <1>2, ProfilesAssumption DEF AddFolder, FolderList
<1> QED BY <1>1, <1>2

\* FillSessionList looks at one profile per turn for a folder to add.
LEMMA FolderTurns ==
  ASSUME NEW fs \in FolderList, NEW ps \in Seq(ProfileSet), NEW m, m = Len(ps)
  PROVE  \E F : /\ F[0] = fs /\ WithFolders(fs, ps) = F[m]
               /\ \A n \in 1 .. m : F[n] = AddFolder(F[n - 1], ps[n].folder)
<1>a. PICK k : k = m /\ k \in Nat
  OBVIOUS
<1> DEFINE Turn == [n \in 1 .. k |-> [t \in FolderList |-> AddFolder(t, ps[n].folder)]]
           Is(F) == F = [n \in 0 .. k |-> IF n = 0 THEN fs
                                         ELSE AddFolder(F[n - 1], ps[n].folder)]
<1>0. k \in Nat /\ \A n \in 1 .. k : ps[n] \in ProfileSet
  BY <1>a
<1>1. Turn \in Turns(k, FolderList)
  <2>1. ASSUME NEW t \in FolderList, NEW n \in 1 .. k
        PROVE  AddFolder(t, ps[n].folder) \in FolderList
    <3>1. ps[n].folder \in FolderNames \cup {Root}
      BY <1>0 DEF ProfileSet
    <3> QED BY <3>1, AddFolderKeeps
  <2> QED BY <2>1 DEF Turns
<1>2. \E F : Is(F)
  <2>2. PICK F : IsLoop(F, k, FolderList, fs, Turn)
    <3> HIDE DEF Turn, Is
    <3> QED BY <1>0, <1>1, Recursion
  <2>3. ASSUME NEW n \in 1 .. k
        PROVE  Turn[n][F[n - 1]] = AddFolder(F[n - 1], ps[n].folder)
    <3>1. F[n - 1] \in FolderList
      BY <2>2, <1>0 DEF IsLoop
    <3> DEFINE v == F[n - 1]
    <3> HIDE DEF v
    <3> QED BY <3>1
  <2>4. ASSUME NEW n \in 0 .. k
        PROVE  F[n] = IF n = 0 THEN fs ELSE AddFolder(F[n - 1], ps[n].folder)
    <3> HIDE DEF Turn
    <3>1. n # 0 => n \in 1 .. k
      BY <1>0
    <3> QED BY <2>2, <2>3, <3>1 DEF IsLoop
  <2>5. F = [n \in 0 .. k |-> F[n]]
    BY <2>2 DEF IsLoop
  <2> HIDE DEF Turn
  <2> QED BY <2>4, <2>5
<1> DEFINE L == CHOOSE F : Is(F)
<1>3. Is(L)
  <2> HIDE DEF Is
  <2> QED BY <1>2
<1>4. WithFolders(fs, ps) = L[k]
  BY <1>a DEF WithFolders
<1> HIDE DEF L
<1>5. L[0] = fs /\ \A n \in 1 .. k : L[n] = AddFolder(L[n - 1], ps[n].folder)
  <2>1. 0 \in 0 .. k /\ \A n \in 1 .. k : n \in 0 .. k /\ n # 0
    BY <1>0
  <2> QED BY <1>3, <2>1
<1> QED BY <1>a, <1>4, <1>5

\* FillSessionList looks at one profile per turn when it lists a folder.
LEMMA AmongTurns ==
  ASSUME NEW ps \in Seq(ProfileSet), NEW f, NEW m, m = Len(ps)
  PROVE  \E F : /\ F[0] = <<>> /\ InFolder(ps, f) = F[m]
               /\ \A n \in 1 .. m : F[n] = IF ps[n].folder = f THEN Append(F[n - 1], n)
                                           ELSE F[n - 1]
<1>a. PICK k : k = m /\ k \in Nat
  OBVIOUS
<1> DEFINE T == Seq(Nat)
           Turn == [n \in 1 .. k |-> [t \in T |-> IF ps[n].folder = f THEN Append(t, n) ELSE t]]
           Is(F) == F = [n \in 0 .. k |-> IF n = 0 THEN <<>>
                                         ELSE IF ps[n].folder = f THEN Append(F[n - 1], n)
                                         ELSE F[n - 1]]
<1>0. k \in Nat
  BY <1>a
<1>1. Turn \in Turns(k, T)
  <2>1. ASSUME NEW t \in T, NEW n \in 1 .. k
        PROVE  (IF ps[n].folder = f THEN Append(t, n) ELSE t) \in T
    OBVIOUS
  <2> QED BY <2>1 DEF Turns
<1>2. \E F : Is(F)
  <2>1. <<>> \in T
    OBVIOUS
  <2>2. PICK F : IsLoop(F, k, T, <<>>, Turn)
    <3> HIDE DEF T, Turn, Is
    <3> QED BY <1>0, <1>1, <2>1, Recursion
  <2>3. ASSUME NEW n \in 1 .. k
        PROVE  Turn[n][F[n - 1]] = IF ps[n].folder = f THEN Append(F[n - 1], n) ELSE F[n - 1]
    <3>1. F[n - 1] \in T
      <4> HIDE DEF T
      <4> QED BY <2>2, <1>0 DEF IsLoop
    <3> DEFINE v == F[n - 1]
    <3> HIDE DEF v
    <3> QED BY <3>1
  <2>4. ASSUME NEW n \in 0 .. k
        PROVE  F[n] = IF n = 0 THEN <<>> ELSE IF ps[n].folder = f THEN Append(F[n - 1], n)
                      ELSE F[n - 1]
    <3> HIDE DEF T, Turn
    <3>1. n # 0 => n \in 1 .. k
      BY <1>0
    <3> QED BY <2>2, <2>3, <3>1 DEF IsLoop
  <2>5. F = [n \in 0 .. k |-> F[n]]
    BY <2>2 DEF IsLoop
  <2> HIDE DEF T, Turn
  <2> QED BY <2>4, <2>5
<1> DEFINE L == CHOOSE F : Is(F)
<1>3. Is(L)
  <2> HIDE DEF Is
  <2> QED BY <1>2
<1>4. InFolder(ps, f) = L[k]
  BY <1>a DEF InFolder
<1> HIDE DEF L
<1>5. L[0] = <<>> /\ \A n \in 1 .. k : L[n] = IF ps[n].folder = f THEN Append(L[n - 1], n)
                                             ELSE L[n - 1]
  <2>1. 0 \in 0 .. k /\ \A n \in 1 .. k : n \in 0 .. k /\ n # 0
    BY <1>0
  <2> QED BY <1>3, <2>1
<1> QED BY <1>a, <1>4, <1>5

\* FlattenSeq appends one list of rows per turn; F[n] is what it has after n turns.
Flattens(F, seqs, m) ==
  /\ F[0] = <<>> /\ FlattenSeq(seqs) = F[m]
  /\ \A n \in 1 .. m : F[n] = F[n - 1] \o seqs[n]

LEMMA FlattenTurns ==
  ASSUME NEW seqs \in Seq(Seq(RowSet)), NEW m, m = Len(seqs)
  PROVE  \E F : Flattens(F, seqs, m)
<1> DEFINE T == Seq(RowSet)
           Turn == [n \in 1 .. m |-> [t \in T |-> t \o seqs[n]]]
           Is(f) == f = [i \in 1 .. m |-> IF i = 1 THEN seqs[i] ELSE f[i - 1] \o seqs[i]]
<1>0. m \in Nat /\ \A n \in 1 .. m : seqs[n] \in T
  OBVIOUS
<1>1. Turn \in Turns(m, T)
  <2>1. ASSUME NEW t \in T, NEW n \in 1 .. m PROVE t \o seqs[n] \in T
    <3>1. seqs[n] \in T
      BY <1>0
    <3> QED BY <3>1
  <2> HIDE DEF T
  <2> QED BY <2>1 DEF Turns
<1>2. PICK F : IsLoop(F, m, T, <<>>, Turn)
  <2>1. <<>> \in T
    OBVIOUS
  <2> HIDE DEF T, Turn, Is
  <2> QED BY <1>0, <1>1, <2>1, Recursion
<1>3. ASSUME NEW n \in 1 .. m PROVE F[n - 1] \in T /\ F[n] = F[n - 1] \o seqs[n]
  <2>1. F[n - 1] \in T /\ F[n] = Turn[n][F[n - 1]]
    <3>1. n - 1 \in 0 .. m
      BY <1>0
    <3> HIDE DEF T, Turn
    <3> QED BY <3>1, <1>2 DEF IsLoop
  <2> HIDE DEF T
  <2> DEFINE v == F[n - 1]
  <2> HIDE DEF v
  <2>2. Turn[n][v] = v \o seqs[n]
    BY <2>1 DEF v
  <2> QED BY <2>1, <2>2 DEF v
<1>4. F[0] = <<>>
  BY <1>2 DEF IsLoop
<1>5. \E f : Is(f)
  <2> DEFINE f == [i \in 1 .. m |-> F[i]]
  <2>1. ASSUME NEW i \in 1 .. m
        PROVE  F[i] = IF i = 1 THEN seqs[i] ELSE f[i - 1] \o seqs[i]
    <3>1. CASE i = 1
      <4>1. F[i] = F[i - 1] \o seqs[i] /\ seqs[i] \in T
        BY <1>0, <1>3
      <4>2. F[i - 1] = <<>>
        BY <1>4, <3>1
      <4>3. <<>> \o seqs[i] = seqs[i]
        BY <4>1, ConcatEmptySeq
      <4> HIDE DEF T, f
      <4> QED BY <3>1, <4>1, <4>2, <4>3
    <3>2. CASE i # 1
      <4>1. f[i - 1] = F[i - 1]
        BY <1>0, <3>2
      <4> HIDE DEF f
      <4> QED BY <1>3, <3>2, <4>1
    <3> QED BY <3>1, <3>2
  <2>2. \A i \in 1 .. m : F[i] = f[i]
    OBVIOUS
  <2>3. f = [i \in 1 .. m |-> IF i = 1 THEN seqs[i] ELSE f[i - 1] \o seqs[i]]
    BY <2>1
  <2> QED BY <2>3
<1> DEFINE L == CHOOSE f : Is(f)
<1>6. Is(L)
  <2> HIDE DEF Is
  <2> QED BY <1>5
<1>7. m # 0 => FlattenSeq(seqs) = L[m]
  BY DEF FlattenSeq
<1> HIDE DEF L
<1>8. \A n \in 1 .. m : L[n] = IF n = 1 THEN seqs[n] ELSE L[n - 1] \o seqs[n]
  BY <1>6
<1> DEFINE K == [n \in 0 .. m |-> IF n = 0 THEN <<>> ELSE L[n]]
<1>9. K[0] = <<>> /\ \A n \in 1 .. m : K[n] = L[n]
  BY <1>0
<1>10. ASSUME NEW n \in 1 .. m PROVE K[n] = K[n - 1] \o seqs[n]
  <2>1. CASE n = 1
    <3>1. K[n] = seqs[n] /\ seqs[n] \in T
      <4> HIDE DEF K, T
      <4> QED BY <1>0, <1>8, <1>9, <2>1
    <3>2. K[n - 1] = <<>>
      <4> HIDE DEF K
      <4> QED BY <1>9, <2>1
    <3>3. <<>> \o seqs[n] = seqs[n]
      BY <3>1, ConcatEmptySeq
    <3> HIDE DEF K, T
    <3> QED BY <3>1, <3>2, <3>3
  <2>2. CASE n # 1
    <3>1. n - 1 \in 1 .. m
      BY <1>0, <2>2
    <3> HIDE DEF K
    <3> QED BY <1>8, <1>9, <2>2, <3>1
  <2> QED BY <2>1, <2>2
<1>11. FlattenSeq(seqs) = K[m]
  <2>1. CASE m = 0
    <3> HIDE DEF K, T, Turn, Is
    <3>1. Len(seqs) = 0
      BY <2>1
    <3>2. seqs = <<>>
      BY <3>1
    <3>3. FlattenSeq(seqs) = seqs
      BY <3>1 DEF FlattenSeq
    <3> QED BY <1>9, <2>1, <3>2, <3>3
  <2>2. CASE m # 0
    <3>1. m \in 1 .. m
      BY <1>0, <2>2
    <3> HIDE DEF K
    <3> QED BY <1>7, <1>9, <2>2, <3>1
  <2> QED BY <2>1, <2>2
<1> HIDE DEF K
<1>12. Flattens(K, seqs, m)
  BY <1>9, <1>10, <1>11 DEF Flattens
<1> QED BY <1>12

-----------------------------------------------------------------------------
(* What the loops compute                                                  *)

\* How many of the first m keys exist, when only the last of them may be missing.
Present(servers, m) == IF m > 0 /\ servers[m] = NoProfile THEN m - 1 ELSE m

\* LoadConfiguration reads the keys that are there, in their order, when at most the
\* last one is missing.
LEMMA LoadReads ==
  ASSUME NEW servers \in [Indices -> ProfileSet \cup {NoProfile}], NEW m \in 0 .. MaxProfiles,
         NEW r, r.servers = servers, r.count = m,
         \A i \in Indices : i < m => servers[i] # NoProfile
  PROVE  /\ LoadServers(r) \in Seq(ProfileSet) /\ Len(LoadServers(r)) = Present(servers, m)
         /\ \A i \in 1 .. Present(servers, m) : LoadServers(r)[i] = servers[i]
<1>0. m \in Nat /\ \A n \in 1 .. m : n \in Indices /\ n - 1 \in 0 .. m
  BY ProfilesAssumption DEF Indices
<1>1. PICK F : /\ F[0] = <<>> /\ LoadServers(r) = F[m]
               /\ \A n \in 1 .. m : F[n] = IF servers[n] = NoProfile THEN F[n - 1]
                                           ELSE Append(F[n - 1], servers[n])
  BY LoadTurns
<1> DEFINE Reads(n) == /\ F[n] \in Seq(ProfileSet) /\ Len(F[n]) = Present(servers, n)
                       /\ \A i \in 1 .. Present(servers, n) : F[n][i] = servers[i]
           Good == {n \in 0 .. m : Reads(n)}
<1>2. 0 \in Good
  <2>1. Present(servers, 0) = 0
    BY DEF Present
  <2>2. <<>> \in Seq(ProfileSet) /\ Len(<<>>) = 0
    OBVIOUS
  <2>3. Reads(0)
    BY <1>1, <2>1, <2>2
  <2> HIDE DEF Reads
  <2> QED BY <1>0, <2>3
<1>3. ASSUME NEW n \in 1 .. m, n - 1 \in Good PROVE n \in Good
  <2> DEFINE t == F[n - 1]
  <2>1. Present(servers, n - 1) = n - 1
    BY <1>0 DEF Present
  <2>2. t \in Seq(ProfileSet) /\ Len(t) = n - 1 /\ \A i \in 1 .. n - 1 : t[i] = servers[i]
    BY <1>3, <2>1
  <2>3. n \in Indices /\ servers[n] \in ProfileSet \cup {NoProfile}
    BY <1>0
  <2>4. F[n] = IF servers[n] = NoProfile THEN t ELSE Append(t, servers[n])
    BY <1>1
  <2> HIDE DEF t
  <2>5. CASE servers[n] = NoProfile
    <3>1. Present(servers, n) = n - 1 /\ F[n] = t
      BY <2>4, <2>5 DEF Present
    <3> QED BY <2>2, <3>1
  <2>6. CASE servers[n] # NoProfile
    <3>1. Present(servers, n) = n /\ F[n] = Append(t, servers[n])
      BY <2>4, <2>6 DEF Present
    <3>2. Append(t, servers[n]) \in Seq(ProfileSet) /\ Len(Append(t, servers[n])) = n
      BY <2>2, <2>3, <2>6
    <3>3. \A i \in 1 .. n : Append(t, servers[n])[i] = servers[i]
      BY <2>2, <2>3, <2>6
    <3> QED BY <3>1, <3>2, <3>3
  <2> QED BY <2>5, <2>6
<1>4. m \in Good
  <2> HIDE DEF Good
  <2>1. m \in 0 .. m  BY <1>0
  <2>2. \A n \in 1 .. m : n - 1 \in Good => n \in Good  BY <1>3
  <2> QED BY <1>0, <1>2, <2>1, <2>2, Induction
<1> QED BY <1>1, <1>4

\* No two folders of a list have the same name, in any case.
Distinct(fs) == \A m, n \in DOMAIN fs : LowerCase[fs[m]] = LowerCase[fs[n]] => m = n

\* A folder that is added is in the list, unless that is full; what was known stays so.
LEMMA AddFolderFits ==
  ASSUME NEW fs \in FolderList, Distinct(fs), NEW f \in FolderNames \cup {Root}
  PROVE  /\ Distinct(AddFolder(fs, f))
         /\ f = Root \/ FolderKnown(AddFolder(fs, f), f) \/ Len(AddFolder(fs, f)) = MaxFolders
         /\ \A g \in FolderNames : FolderKnown(fs, g) => FolderKnown(AddFolder(fs, f), g)
         /\ Len(fs) = MaxFolders => Len(AddFolder(fs, f)) = MaxFolders
<1>0. fs \in Seq(FolderNames) /\ Len(fs) \in Nat /\ Len(fs) <= MaxFolders /\ MaxFolders \in Nat
  BY ProfilesAssumption DEF FolderList
<1>1. CASE f = Root \/ FolderKnown(fs, f) \/ Len(fs) >= MaxFolders
  <2>1. AddFolder(fs, f) = fs
    BY <1>1 DEF AddFolder
  <2>2. f = Root \/ FolderKnown(fs, f) \/ Len(fs) = MaxFolders
    BY <1>0, <1>1
  <2> QED BY <2>1, <2>2
<1>2. CASE ~(f = Root \/ FolderKnown(fs, f) \/ Len(fs) >= MaxFolders)
  <2> DEFINE g == Append(fs, f)
  <2>1. AddFolder(fs, f) = g
    BY <1>2 DEF AddFolder
  <2>2. /\ DOMAIN g = 1 .. Len(fs) + 1 /\ DOMAIN fs = 1 .. Len(fs) /\ g[Len(fs) + 1] = f
        /\ \A n \in DOMAIN fs : g[n] = fs[n]
    BY <1>0, <1>2
  <2> HIDE DEF g
  <2>3. FolderKnown(g, f)
    BY <1>0, <2>2 DEF FolderKnown
  <2>4. \A h \in FolderNames : FolderKnown(fs, h) => FolderKnown(g, h)
    BY <1>0, <2>2 DEF FolderKnown
  <2>5. Distinct(g)
    <3> SUFFICES ASSUME NEW m \in DOMAIN g, NEW n \in DOMAIN g,
                        LowerCase[g[m]] = LowerCase[g[n]]
                 PROVE  m = n
      BY DEF Distinct
    <3>1. \A k \in DOMAIN fs : LowerCase[fs[k]] # LowerCase[f]
      BY <1>2 DEF FolderKnown
    <3>2. \A k \in DOMAIN g : k \in DOMAIN fs \/ k = Len(fs) + 1
      BY <1>0, <2>2
    <3> QED BY <2>2, <3>1, <3>2 DEF Distinct
  <2> QED BY <1>0, <1>2, <2>1, <2>3, <2>4, <2>5
<1> QED BY <1>1, <1>2

\* After FillSessionList every profile's folder is known, or the list is full.
LEMMA FoldersAreAdded ==
  ASSUME NEW fs \in FolderList, Distinct(fs), NEW ps \in Seq(ProfileSet)
  PROVE  /\ WithFolders(fs, ps) \in FolderList /\ Distinct(WithFolders(fs, ps))
         /\ \A k \in DOMAIN ps : \/ ps[k].folder = Root
                                 \/ FolderKnown(WithFolders(fs, ps), ps[k].folder)
                                 \/ Len(WithFolders(fs, ps)) = MaxFolders
<1> DEFINE m == Len(ps)
<1>0. m \in Nat /\ DOMAIN ps = 1 .. m
      /\ \A n \in 1 .. m : ps[n].folder \in FolderNames \cup {Root}
  <2>1. m \in Nat /\ DOMAIN ps = 1 .. m /\ \A n \in 1 .. m : ps[n] \in ProfileSet
    OBVIOUS
  <2> HIDE DEF m
  <2> QED BY <2>1 DEF ProfileSet
<1>1. PICK F : /\ F[0] = fs /\ WithFolders(fs, ps) = F[m]
               /\ \A n \in 1 .. m : F[n] = AddFolder(F[n - 1], ps[n].folder)
  BY FolderTurns
<1> HIDE DEF m
<1> DEFINE Settled(t, k) == ps[k].folder = Root \/ FolderKnown(t, ps[k].folder) \/ Len(t) = MaxFolders
           Good == {n \in 0 .. m : /\ F[n] \in FolderList /\ Distinct(F[n])
                                   /\ \A k \in 1 .. n : Settled(F[n], k)}
<1>2. 0 \in Good
  BY <1>0, <1>1
<1>3. ASSUME NEW n \in 1 .. m, n - 1 \in Good PROVE n \in Good
  <2> DEFINE t == F[n - 1]
             f == ps[n].folder
  <2>1. t \in FolderList /\ Distinct(t) /\ \A k \in 1 .. n - 1 : Settled(t, k)
    BY <1>3
  <2>2. F[n] = AddFolder(t, f) /\ f \in FolderNames \cup {Root}
    BY <1>0, <1>1
  <2> HIDE DEF t
  <2>3. F[n] \in FolderList /\ Distinct(F[n]) /\ Settled(F[n], n)
    BY <2>1, <2>2, AddFolderKeeps, AddFolderFits
  <2>4. ASSUME NEW k \in 1 .. n PROVE Settled(F[n], k)
    <3>1. CASE k = n
      BY <2>3, <3>1
    <3>2. CASE k # n
      <4>1. k \in 1 .. n - 1 /\ ps[k].folder \in FolderNames \cup {Root}
        BY <1>0, <3>2
      <4>2. Settled(t, k)
        BY <2>1, <4>1
      <4> QED BY <2>1, <2>2, <4>1, <4>2, AddFolderFits
    <3> QED BY <3>1, <3>2
  <2> HIDE DEF Settled
  <2> QED BY <2>3, <2>4
<1>4. m \in Good
  <2> HIDE DEF Good
  <2>1. m \in 0 .. m  BY <1>0
  <2>2. \A n \in 1 .. m : n - 1 \in Good => n \in Good  BY <1>3
  <2> QED BY <1>0, <1>2, <2>1, <2>2, Induction
<1> QED BY <1>0, <1>1, <1>4

\* A folder's indices are those of its profiles, each of them once.
LEMMA AmongFits ==
  ASSUME NEW ps \in Seq(ProfileSet), NEW f
  PROVE  /\ InFolder(ps, f) \in Seq(DOMAIN ps)
         /\ \A k \in DOMAIN InFolder(ps, f) : ps[InFolder(ps, f)[k]].folder = f
         /\ \A i \in DOMAIN ps : ps[i].folder = f =>
              \E k \in DOMAIN InFolder(ps, f) :
                \A j \in DOMAIN InFolder(ps, f) : InFolder(ps, f)[j] = i <=> j = k
<1> DEFINE m == Len(ps)
<1>0. m \in Nat /\ DOMAIN ps = 1 .. m
  OBVIOUS
<1>1. PICK F : /\ F[0] = <<>> /\ InFolder(ps, f) = F[m]
               /\ \A n \in 1 .. m : F[n] = IF ps[n].folder = f THEN Append(F[n - 1], n)
                                           ELSE F[n - 1]
  <2>1. m = Len(ps)  OBVIOUS
  <2> HIDE DEF m
  <2> QED BY <2>1, AmongTurns
<1> HIDE DEF m
<1> DEFINE Lists(t, n) ==
             /\ t \in Seq(1 .. n) /\ \A k \in 1 .. Len(t) : ps[t[k]].folder = f
             /\ \A i \in 1 .. n : ps[i].folder = f =>
                  \E k \in 1 .. Len(t) : \A j \in 1 .. Len(t) : t[j] = i <=> j = k
           Good == {n \in 0 .. m : Lists(F[n], n)}
<1>2. 0 \in Good
  <2>1. <<>> \in Seq(1 .. 0) /\ Len(<<>>) = 0
    OBVIOUS
  <2>2. Lists(F[0], 0)
    BY <1>1, <2>1
  <2> HIDE DEF Lists
  <2> QED BY <1>0, <2>2
<1>3. ASSUME NEW n \in 1 .. m, n - 1 \in Good PROVE n \in Good
  <2> DEFINE t == F[n - 1]
  <2>1. Lists(t, n - 1)
    <3> HIDE DEF Lists
    <3> QED BY <1>3
  <2>2. F[n] = IF ps[n].folder = f THEN Append(t, n) ELSE t
    BY <1>1
  <2> HIDE DEF t
  <2>3. n \in Nat /\ n - 1 \in Nat /\ t \in Seq(1 .. n - 1) /\ t \in Seq(1 .. n) /\ Len(t) \in Nat
        /\ \A k \in 1 .. Len(t) : t[k] \in 1 .. n - 1
    BY <1>0, <2>1
  <2>4. CASE ps[n].folder # f
    <3>1. F[n] = t
      BY <2>2, <2>4
    <3>2. \A i \in 1 .. n : ps[i].folder = f => i \in 1 .. n - 1
      BY <2>3, <2>4
    <3>3. Lists(t, n)
      BY <2>1, <2>3, <3>2
    <3> HIDE DEF Lists
    <3> QED BY <1>0, <3>1, <3>3
  <2>5. CASE ps[n].folder = f
    <3> DEFINE u == Append(t, n)
    <3>1. F[n] = u
      BY <2>2, <2>5
    <3>2. /\ u \in Seq(1 .. n) /\ Len(u) = Len(t) + 1 /\ u[Len(t) + 1] = n
          /\ \A k \in 1 .. Len(t) : u[k] = t[k]
      BY <2>3
    <3> HIDE DEF u
    <3>3. \A k \in 1 .. Len(u) : ps[u[k]].folder = f
      <4>1. \A k \in 1 .. Len(u) : k \in 1 .. Len(t) \/ k = Len(t) + 1
        BY <2>3, <3>2
      <4>2. ASSUME NEW k \in 1 .. Len(t) PROVE ps[u[k]].folder = f
        BY <2>1, <3>2
      <4>3. ps[u[Len(t) + 1]].folder = f
        BY <2>5, <3>2
      <4> QED BY <4>1, <4>2, <4>3
    <3>4. ASSUME NEW i \in 1 .. n, ps[i].folder = f
          PROVE  \E k \in 1 .. Len(u) : \A j \in 1 .. Len(u) : u[j] = i <=> j = k
      <4>1. CASE i = n
        <5>1. \A j \in 1 .. Len(t) : u[j] # n
          BY <2>3, <3>2
        <5>2. Len(u) \in 1 .. Len(u) /\ \A j \in 1 .. Len(u) : u[j] = i <=> j = Len(u)
          BY <2>3, <3>2, <4>1, <5>1
        <5> QED BY <5>2
      <4>2. CASE i # n
        <5>1. i \in 1 .. n - 1
          BY <2>3, <4>2
        <5>2. PICK k \in 1 .. Len(t) : \A j \in 1 .. Len(t) : t[j] = i <=> j = k
          BY <2>1, <3>4, <5>1
        <5>3. ASSUME NEW j \in 1 .. Len(u) PROVE u[j] = i <=> j = k
          <6>1. CASE j \in 1 .. Len(t)
            BY <3>2, <5>2, <6>1
          <6>2. CASE j = Len(t) + 1
            BY <2>3, <3>2, <4>2, <6>2
          <6>3. j \in 1 .. Len(t) \/ j = Len(t) + 1
            <7>1. j \in 1 .. Len(t) + 1 /\ Len(t) \in Nat
              BY <2>3, <3>2
            <7> QED BY <7>1
          <6> QED BY <6>1, <6>2, <6>3
        <5> QED BY <2>3, <3>2, <5>3
      <4> QED BY <4>1, <4>2
    <3>5. Lists(u, n)
      BY <3>2, <3>3, <3>4
    <3> HIDE DEF Lists
    <3> QED BY <1>0, <3>1, <3>5
  <2> QED BY <2>4, <2>5
<1>4. m \in Good
  <2> HIDE DEF Good
  <2>1. m \in 0 .. m  BY <1>0
  <2>2. \A n \in 1 .. m : n - 1 \in Good => n \in Good  BY <1>3
  <2> QED BY <1>0, <1>2, <2>1, <2>2, Induction
<1>5. Lists(InFolder(ps, f), m)
  <2> HIDE DEF Lists
  <2> QED BY <1>1, <1>4
<1>6. DOMAIN InFolder(ps, f) = 1 .. Len(InFolder(ps, f))
  BY <1>5
<1>7. /\ \A k \in DOMAIN InFolder(ps, f) : ps[InFolder(ps, f)[k]].folder = f
      /\ InFolder(ps, f) \in Seq(DOMAIN ps)
  BY <1>0, <1>5, <1>6
<1>8. ASSUME NEW i \in DOMAIN ps, ps[i].folder = f
      PROVE  \E k \in DOMAIN InFolder(ps, f) :
               \A j \in DOMAIN InFolder(ps, f) : InFolder(ps, f)[j] = i <=> j = k
  <2> DEFINE q == InFolder(ps, f)
  <2>1. \E k \in 1 .. Len(q) : \A j \in 1 .. Len(q) : q[j] = i <=> j = k
    BY <1>0, <1>5, <1>8
  <2>2. DOMAIN q = 1 .. Len(q)
    BY <1>6
  <2> HIDE DEF q
  <2>3. \E k \in DOMAIN q : \A j \in DOMAIN q : q[j] = i <=> j = k
    BY <2>1, <2>2
  <2> QED BY <2>3 DEF q
<1> QED BY <1>7, <1>8

-----------------------------------------------------------------------------
(* The rows of the list box                                                *)

\* Exactly one row is that of profile i; no row is.
Once(rs, i) == \E n \in DOMAIN rs : \A k \in DOMAIN rs : rs[k].i = i <=> k = n
Absent(rs, i) == \A n \in DOMAIN rs : rs[n].i # i

\* The rows of two lists one after the other.
LEMMA RowsJoin ==
  ASSUME NEW a \in Seq(RowSet), NEW b \in Seq(RowSet)
  PROVE  /\ a \o b \in Seq(RowSet)
         /\ \A i : Once(a, i) /\ Absent(b, i) => Once(a \o b, i)
         /\ \A i : Absent(a, i) /\ Once(b, i) => Once(a \o b, i)
         /\ \A i : Absent(a, i) /\ Absent(b, i) => Absent(a \o b, i)
<1> DEFINE c == a \o b
           la == Len(a)
           lb == Len(b)
<1>1. /\ c \in Seq(RowSet) /\ DOMAIN a = 1 .. la /\ DOMAIN b = 1 .. lb /\ DOMAIN c = 1 .. la + lb
      /\ la \in Nat /\ lb \in Nat
  OBVIOUS
<1>2. /\ \A n \in 1 .. la : n \in 1 .. la + lb /\ c[n] = a[n]
      /\ \A n \in 1 .. lb : la + n \in 1 .. la + lb /\ c[la + n] = b[n]
  OBVIOUS
<1> HIDE DEF c, la, lb
<1>3. \A n \in 1 .. la + lb : n \in 1 .. la \/ (n - la \in 1 .. lb /\ la + (n - la) = n)
  BY <1>1
<1>4. ASSUME NEW n \in 1 .. la + lb
      PROVE  (n \in 1 .. la /\ c[n] = a[n]) \/ (n > la /\ n - la \in 1 .. lb /\ c[n] = b[n - la])
  <2>1. CASE n \in 1 .. la
    BY <1>2, <2>1
  <2>2. CASE n \notin 1 .. la
    <3>1. n - la \in 1 .. lb /\ la + (n - la) = n /\ n > la
      BY <1>1, <1>3, <2>2
    <3>2. c[la + (n - la)] = b[n - la]
      BY <1>2, <3>1
    <3> QED BY <3>1, <3>2
  <2> QED BY <2>1, <2>2
<1>5. ASSUME NEW i, Once(a, i), Absent(b, i) PROVE Once(c, i)
  <2>1. PICK n \in DOMAIN a : \A k \in DOMAIN a : a[k].i = i <=> k = n
    BY <1>5 DEF Once
  <2>2. n \in DOMAIN c
    BY <1>1, <1>2
  <2>3. ASSUME NEW k \in DOMAIN c PROVE c[k].i = i <=> k = n
    <3>0. k \in 1 .. la + lb
      BY <1>1
    <3>1. CASE k \in 1 .. la /\ c[k] = a[k]
      <4>1. k \in DOMAIN a
        BY <1>1, <3>1
      <4> QED BY <2>1, <3>1, <4>1
    <3>2. CASE k > la /\ k - la \in 1 .. lb /\ c[k] = b[k - la]
      <4>1. k # n
        BY <1>1, <3>2
      <4> QED BY <1>1, <1>5, <3>2, <4>1 DEF Absent
    <3> QED BY <1>4, <3>0, <3>1, <3>2
  <2> QED BY <2>2, <2>3 DEF Once
<1>6. ASSUME NEW i, Absent(a, i), Once(b, i) PROVE Once(c, i)
  <2>1. PICK n \in DOMAIN b : \A k \in DOMAIN b : b[k].i = i <=> k = n
    BY <1>6 DEF Once
  <2>0. n \in 1 .. lb
    BY <1>1
  <2>2. la + n \in DOMAIN c
    BY <1>1, <1>2, <2>0
  <2>3. ASSUME NEW k \in DOMAIN c PROVE c[k].i = i <=> k = la + n
    <3>0. k \in 1 .. la + lb
      BY <1>1
    <3>1. CASE k \in 1 .. la /\ c[k] = a[k]
      <4>1. k # la + n
        BY <1>1, <2>0, <3>1
      <4> QED BY <1>1, <1>6, <3>1, <4>1 DEF Absent
    <3>2. CASE k > la /\ k - la \in 1 .. lb /\ c[k] = b[k - la]
      <4>1. k - la = n <=> k = la + n
        BY <1>1, <2>0, <3>0
      <4>2. k - la \in DOMAIN b
        BY <1>1, <3>2
      <4> QED BY <2>1, <3>2, <4>1, <4>2
    <3> QED BY <1>4, <3>0, <3>1, <3>2
  <2> QED BY <2>2, <2>3 DEF Once
<1>7. ASSUME NEW i, Absent(a, i), Absent(b, i) PROVE Absent(c, i)
  BY <1>1, <1>4, <1>7 DEF Absent
<1> QED BY <1>1, <1>5, <1>6, <1>7 DEF c

\* The list rs shows each profile of the folders in fset once, and no other.
Shows(rs, ps, fset) ==
  /\ rs \in Seq(RowSet)
  /\ \A i \in Nat \ {0} : IF i \in DOMAIN ps /\ ps[i].folder \in fset THEN Once(rs, i)
                         ELSE Absent(rs, i)

LEMMA ShowsJoin ==
  ASSUME NEW ps, NEW a, NEW b, NEW fa, NEW fb, Shows(a, ps, fa), Shows(b, ps, fb),
         fa \cap fb = {}
  PROVE  Shows(a \o b, ps, fa \cup fb)
<1>1. a \in Seq(RowSet) /\ b \in Seq(RowSet)
  BY DEF Shows
<1>2. a \o b \in Seq(RowSet)
  BY <1>1, RowsJoin
<1>3. ASSUME NEW i \in Nat \ {0}
      PROVE  IF i \in DOMAIN ps /\ ps[i].folder \in fa \cup fb THEN Once(a \o b, i)
             ELSE Absent(a \o b, i)
  <2>1. CASE i \in DOMAIN ps /\ ps[i].folder \in fa
    <3>1. Once(a, i) /\ Absent(b, i)
      BY <2>1 DEF Shows
    <3> QED BY <1>1, <2>1, <3>1, RowsJoin
  <2>2. CASE i \in DOMAIN ps /\ ps[i].folder \in fb
    <3>1. Absent(a, i) /\ Once(b, i)
      BY <2>2 DEF Shows
    <3> QED BY <1>1, <2>2, <3>1, RowsJoin
  <2>3. CASE ~(i \in DOMAIN ps /\ ps[i].folder \in fa \cup fb)
    <3>1. Absent(a, i) /\ Absent(b, i)
      BY <2>3 DEF Shows
    <3> QED BY <1>1, <2>3, <3>1, RowsJoin
  <2> QED BY <2>1, <2>2, <2>3
<1> QED BY <1>2, <1>3 DEF Shows

\* The rows of one folder.
LEMMA RowsOfFit ==
  ASSUME NEW ps \in Seq(ProfileSet), Len(ps) <= MaxProfiles, NEW f \in FolderNames \cup {Root}
  PROVE  Shows(RowsOf(ps, f), ps, {f})
<1> DEFINE q == InFolder(ps, f)
           rs == RowsOf(ps, f)
<1>1. /\ q \in Seq(DOMAIN ps) /\ \A k \in DOMAIN q : ps[q[k]].folder = f
      /\ \A i \in DOMAIN ps : ps[i].folder = f =>
           \E k \in DOMAIN q : \A j \in DOMAIN q : q[j] = i <=> j = k
  BY AmongFits
<1>2. rs = [n \in DOMAIN q |-> Row("profile", q[n], f)]
  BY DEF RowsOf
<1>3. DOMAIN ps = 1 .. Len(ps) /\ Len(ps) \in Nat
  OBVIOUS
<1> HIDE DEF q, rs
<1>4. DOMAIN q = 1 .. Len(q) /\ Len(q) \in Nat /\ \A n \in DOMAIN q : q[n] \in DOMAIN ps
  BY <1>1
<1>5. DOMAIN rs = DOMAIN q /\ \A n \in DOMAIN q : rs[n] = Row("profile", q[n], f)
  BY <1>2
<1>6. \A n \in DOMAIN q : rs[n].i = q[n] /\ rs[n] \in RowSet
  <2> SUFFICES ASSUME NEW n \in DOMAIN q PROVE rs[n].i = q[n] /\ rs[n] \in RowSet
    OBVIOUS
  <2>1. q[n] \in Indices
    BY <1>3, <1>4, ProfilesAssumption DEF Indices
  <2> QED BY <1>5, <2>1 DEF Row, RowSet
<1>7. rs \in Seq(RowSet)
  <2>1. rs = [n \in 1 .. Len(q) |-> Row("profile", q[n], f)]
    BY <1>2, <1>4
  <2>2. \A n \in 1 .. Len(q) : Row("profile", q[n], f) \in RowSet
    BY <1>4, <1>5, <1>6
  <2> DEFINE l == Len(q)
             g == [n \in 1 .. l |-> Row("profile", q[n], f)]
  <2>3. l \in Nat /\ \A n \in 1 .. l : g[n] \in RowSet
    BY <1>4, <2>2
  <2>4. g \in [1 .. l -> RowSet]
    BY <2>3
  <2>5. g \in Seq(RowSet)
    <3> HIDE DEF g, l
    <3> QED BY <2>3, <2>4, SeqDef
  <2> QED BY <2>1, <2>5
<1>8. ASSUME NEW i \in Nat \ {0}
      PROVE  IF i \in DOMAIN ps /\ ps[i].folder \in {f} THEN Once(rs, i) ELSE Absent(rs, i)
  <2>1. CASE i \in DOMAIN ps /\ ps[i].folder = f
    <3>1. PICK k \in DOMAIN q : \A j \in DOMAIN q : q[j] = i <=> j = k
      BY <1>1, <2>1
    <3>2. Once(rs, i)
      BY <1>5, <1>6, <3>1 DEF Once
    <3> QED BY <2>1, <3>2
  <2>2. CASE ~(i \in DOMAIN ps /\ ps[i].folder = f)
    <3>1. \A n \in DOMAIN q : q[n] # i
      BY <1>1, <1>4, <2>2
    <3>2. Absent(rs, i)
      BY <1>5, <1>6, <3>1 DEF Absent
    <3> QED BY <2>2, <3>2
  <2> QED BY <2>1, <2>2
<1> QED BY <1>7, <1>8 DEF Shows, rs

\* The header of a folder and its rows.
Block(ps, f) == <<Row("folder", 0, f)>> \o RowsOf(ps, f)

LEMMA BlockFits ==
  ASSUME NEW ps \in Seq(ProfileSet), Len(ps) <= MaxProfiles, NEW f \in FolderNames
  PROVE  Shows(Block(ps, f), ps, {f})
<1> DEFINE h == <<Row("folder", 0, f)>>
<1>1. Row("folder", 0, f) \in RowSet /\ Row("folder", 0, f).i = 0
  BY ProfilesAssumption DEF Row, RowSet
<1>2. h \in Seq(RowSet) /\ DOMAIN h = 1 .. 1 /\ h[1].i = 0
  <2> DEFINE w == Row("folder", 0, f)
  <2> HIDE DEF w
  <2>1. <<w>> \in Seq(RowSet) /\ DOMAIN <<w>> = 1 .. 1 /\ <<w>>[1] = w
    BY <1>1 DEF w
  <2> QED BY <1>1, <2>1 DEF w
<1>3. Shows(h, ps, {})
  <2> HIDE DEF h
  <2>1. ASSUME NEW i \in Nat \ {0} PROVE Absent(h, i)
    BY <1>2 DEF Absent
  <2> QED BY <1>2, <2>1 DEF Shows
<1>4. Shows(RowsOf(ps, f), ps, {f})
  BY RowsOfFit
<1>5. {} \cap {f} = {} /\ {} \cup {f} = {f}
  OBVIOUS
<1> HIDE DEF h
<1>6. Shows(h \o RowsOf(ps, f), ps, {} \cup {f})
  BY <1>3, <1>4, <1>5, ShowsJoin
<1> QED BY <1>5, <1>6 DEF Block, h

\* What FillSessionList fills the list box with.
AllRows(ps, all) == RowsOf(ps, Root) \o FlattenSeq([n \in DOMAIN all |-> Block(ps, all[n])])

\* The list box shows every profile of a listed folder, and of none, once.
LEMMA AllRowsFit ==
  ASSUME NEW ps \in Seq(ProfileSet), Len(ps) <= MaxProfiles,
         NEW all \in FolderList, Distinct(all)
  PROVE  Shows(AllRows(ps, all), ps, {Root} \cup {all[n] : n \in DOMAIN all})
<1> DEFINE m == Len(all)
           blocks == [n \in DOMAIN all |-> Block(ps, all[n])]
           Upto(n) == {all[k] : k \in 1 .. n}
<1>1. m \in Nat /\ DOMAIN all = 1 .. m /\ \A n \in 1 .. m : all[n] \in FolderNames
  BY DEF FolderList
<1>2. \A n \in 1 .. m : Shows(Block(ps, all[n]), ps, {all[n]})
  BY <1>1, BlockFits
<1>3. blocks \in Seq(Seq(RowSet)) /\ Len(blocks) = m
      /\ \A n \in 1 .. m : blocks[n] = Block(ps, all[n])
  <2>1. blocks = [n \in 1 .. m |-> Block(ps, all[n])]
    BY <1>1
  <2>2. \A n \in 1 .. m : Block(ps, all[n]) \in Seq(RowSet)
    BY <1>2 DEF Shows
  <2> HIDE DEF m
  <2> DEFINE g == [n \in 1 .. m |-> Block(ps, all[n])]
             T == Seq(RowSet)
  <2>3. g \in [1 .. m -> T]
    <3> HIDE DEF T
    <3> QED BY <2>2 DEF T
  <2>4. g \in Seq(T)
    <3> HIDE DEF g, T
    <3> QED BY <1>1, <2>3, SeqDef
  <2>5. Len(g) = m
    BY <1>1
  <2>6. \A n \in 1 .. m : g[n] = Block(ps, all[n])
    OBVIOUS
  <2> HIDE DEF blocks
  <2> QED BY <2>1, <2>4, <2>5, <2>6
<1> HIDE DEF blocks, m
<1>4. PICK F : Flattens(F, blocks, m)
  <2>1. blocks \in Seq(Seq(RowSet)) /\ m = Len(blocks)
    BY <1>3
  <2> QED BY <2>1, FlattenTurns
<1> DEFINE Good == {n \in 0 .. m : Shows(F[n], ps, Upto(n))}
<1>5. 0 \in Good
  <2>1. Upto(0) = {}
    OBVIOUS
  <2>2. <<>> \in Seq(RowSet) /\ DOMAIN <<>> = {}
    OBVIOUS
  <2>3. Shows(<<>>, ps, {})
    BY <2>2 DEF Shows, Absent
  <2>4. 0 \in 0 .. m
    BY <1>1
  <2> HIDE DEF Upto
  <2> QED BY <1>4, <2>1, <2>3, <2>4 DEF Flattens
<1>6. ASSUME NEW n \in 1 .. m, n - 1 \in Good PROVE n \in Good
  <2>1. Shows(F[n - 1], ps, Upto(n - 1)) /\ Shows(blocks[n], ps, {all[n]})
    BY <1>2, <1>3, <1>6
  <2>2. Upto(n - 1) \cap {all[n]} = {}
    <3>1. \A k \in 1 .. n - 1 : k \in 1 .. m /\ k # n
      BY <1>1
    <3>2. \A k \in 1 .. n - 1 : all[k] # all[n]
      BY <1>1, <3>1 DEF Distinct
    <3> QED BY <3>2
  <2>3. Upto(n - 1) \cup {all[n]} = Upto(n)
    <3>1. \A k \in 1 .. n : k \in 1 .. n - 1 \/ k = n
      BY <1>1
    <3>2. n \in 1 .. n /\ \A k \in 1 .. n - 1 : k \in 1 .. n
      BY <1>1
    <3> QED BY <3>1, <3>2
  <2> HIDE DEF Upto
  <2>4. Shows(F[n - 1] \o blocks[n], ps, Upto(n - 1) \cup {all[n]})
    BY <2>1, <2>2, ShowsJoin
  <2>5. F[n] = F[n - 1] \o blocks[n]
    BY <1>4 DEF Flattens
  <2>6. Shows(F[n], ps, Upto(n))
    BY <2>3, <2>4, <2>5
  <2>7. n \in 0 .. m
    BY <1>1
  <2> QED BY <2>6, <2>7
<1>7. m \in Good
  <2> HIDE DEF Good
  <2>1. m \in 0 .. m  BY <1>1
  <2>2. \A n \in 1 .. m : n - 1 \in Good => n \in Good  BY <1>6
  <2> QED BY <1>1, <1>5, <2>1, <2>2, Induction
<1>8. Shows(FlattenSeq(blocks), ps, Upto(m))
  BY <1>4, <1>7 DEF Flattens
<1>9. Shows(RowsOf(ps, Root), ps, {Root})
  BY RowsOfFit
<1>10. {Root} \cap Upto(m) = {} /\ Upto(m) = {all[n] : n \in DOMAIN all}
  BY <1>1, ProfilesAssumption DEF Root
<1> HIDE DEF Upto
<1>11. Shows(RowsOf(ps, Root) \o FlattenSeq(blocks), ps, {Root} \cup Upto(m))
  BY <1>8, <1>9, <1>10, ShowsJoin
<1> QED BY <1>10, <1>11 DEF AllRows, blocks

\* Every profile is listed, as EveryProfileIsListed says.
AreListed(ps, fs, rs) ==
  \A i \in DOMAIN ps :
    \/ Once(rs, i)
    \/ /\ ps[i].folder # Root
       /\ \A n \in DOMAIN fs : fs[n] # ps[i].folder
       /\ FolderKnown(fs, ps[i].folder) \/ Len(fs) = MaxFolders

\* FillSessionList lists every profile, but for the folders that differ in case only
\* and those there is no room for.
LEMMA FillLists ==
  ASSUME NEW ps \in Seq(ProfileSet), Len(ps) <= MaxProfiles,
         NEW fs \in FolderList, Distinct(fs), FillSessionList(ps, fs)
  PROVE  /\ folders' \in FolderList /\ Distinct(folders')
         /\ rows' \in Seq(RowSet) /\ \A n \in DOMAIN rows' : rows'[n].i \in 0 .. Len(ps)
         /\ AreListed(ps, folders', rows')
<1> DEFINE all == WithFolders(fs, ps)
           rs == AllRows(ps, all)
<1>1. folders' = all /\ rows' = rs
  BY DEF FillSessionList, AllRows, Block
<1>2. /\ all \in FolderList /\ Distinct(all)
      /\ \A k \in DOMAIN ps : \/ ps[k].folder = Root \/ FolderKnown(all, ps[k].folder)
                              \/ Len(all) = MaxFolders
  BY FoldersAreAdded
<1> HIDE DEF all
<1>3. Shows(rs, ps, {Root} \cup {all[n] : n \in DOMAIN all})
  BY <1>2, AllRowsFit
<1> HIDE DEF rs
<1>4. rs \in Seq(RowSet)
  BY <1>3 DEF Shows
<1>5. ASSUME NEW n \in DOMAIN rs PROVE rs[n].i \in 0 .. Len(ps)
  <2>1. rs[n] \in RowSet
    BY <1>4
  <2>2. rs[n].i \in 0 .. MaxProfiles
    BY <2>1, ProfilesAssumption DEF RowSet, Indices
  <2>3. rs[n].i \in Nat
    BY <2>2, ProfilesAssumption
  <2>4. rs[n].i # 0 => rs[n].i \in DOMAIN ps
    BY <1>3, <2>3 DEF Shows, Absent
  <2>5. DOMAIN ps = 1 .. Len(ps) /\ Len(ps) \in Nat
    OBVIOUS
  <2> QED BY <2>3, <2>4, <2>5
<1>6. ASSUME NEW i \in DOMAIN ps
      PROVE  \/ Once(rs, i)
             \/ /\ ps[i].folder # Root /\ \A n \in DOMAIN all : all[n] # ps[i].folder
                /\ FolderKnown(all, ps[i].folder) \/ Len(all) = MaxFolders
  <2>1. i \in Nat \ {0}
    OBVIOUS
  <2>2. CASE ps[i].folder \in {Root} \cup {all[n] : n \in DOMAIN all}
    BY <1>3, <2>1, <2>2 DEF Shows
  <2>3. CASE ps[i].folder \notin {Root} \cup {all[n] : n \in DOMAIN all}
    BY <1>2, <2>3
  <2> QED BY <2>2, <2>3
<1>7. AreListed(ps, all, rs)
  BY <1>6 DEF AreListed
<1> QED BY <1>1, <1>2, <1>4, <1>5, <1>7

-----------------------------------------------------------------------------
(* The inductive invariant                                                 *)

\* The rows show profiles that exist, except while a deletion is saved, when they are
\* those of before.
RowsFit == saving.by # "delete" => \A n \in DOMAIN rows : rows[n].i \in 0 .. Len(profiles)

\* No folder is twice in the list, in memory or in the registry.
FoldersFit == Distinct(folders) /\ Distinct(registry.folders)

\* SaveConfiguration is only called from the dialog, and never gets behind the last profile.
SavingFits ==
  /\ saving.by = None => saving = NotSaving
  /\ saving.by # None => open /\ saving.at <= Len(profiles) + 1

\* All keys below the count exist, but for the last one, which a process killed right
\* after the count has not written.
KeysExist ==
  \A i \in Indices : i < registry.count \/ i < Len(profiles) => registry.servers[i] # NoProfile

\* The key of profile i is below the count and up to date.
Stored(i) == i <= registry.count /\ registry.servers[i] = profiles[i]

\* What the registry has: everything but the profile being changed, and that too once
\* its turn has come.
RegistryFits ==
  /\ saving.by # "delete" => \A i \in DOMAIN profiles : i # saving.target => Stored(i)
  /\ saving.by # None /\ saving.at >= 1 =>
       /\ registry.count = Len(profiles) /\ registry.default = defaultSession
       /\ \A i \in DOMAIN profiles : i < saving.at => Stored(i)
  /\ saving.by = None =>
       /\ registry.default = defaultSession
       /\ \/ registry.count = Len(profiles)
          \/ registry.count = Len(profiles) + 1 /\ registry.servers[registry.count] = NoProfile

\* Unless a row was highlighted that is not theirs, the one that is highlighted belongs
\* to the fields; a handler that will highlight one after its save has chosen that one.
HighlightFits ==
  open /\ chosen /\ ~stray =>
    /\ saving.by \in {None, "default"} /\ GetSelProfile # 0 => GetSelProfile = loaded
    /\ saving.by \in {"rename", "save"} => saving.target = loaded

\* Every profile is listed, also while only the default is saved.
ListFits == open /\ saving.by \in {None, "default"} => AreListed(profiles, folders, rows)

IndInv ==
  /\ TypeOK
  /\ RowsFit
  /\ FoldersFit
  /\ SavingFits
  /\ KeysExist
  /\ RegistryFits
  /\ ListFits
  /\ HighlightFits
  /\ SaveHitsTheLoaded

-----------------------------------------------------------------------------
(* The steps                                                               *)

\* What the handlers read off the list box is a profile that exists, and a folder.
LEMMA SelectionFits ==
  ASSUME TypeOK, RowsFit, saving = NotSaving
  PROVE  GetSelProfile \in 0 .. Len(profiles) /\ GetSelFolder \in FolderNames \cup {Root}
<1>1. saving.by # "delete"
  BY DEF NotSaving, None
<1>2. Len(profiles) \in Nat /\ \A i \in 1 .. Len(profiles) : profiles[i].folder \in FolderNames \cup {Root}
  <2>1. \A i \in 1 .. Len(profiles) : profiles[i] \in ProfileSet
    BY DEF TypeOK
  <2> QED BY <2>1 DEF ProfileSet, TypeOK
<1>3. CASE cursel = 0
  BY <1>2, <1>3 DEF GetSelProfile, GetSelFolder
<1>4. CASE cursel # 0
  <2>1. cursel \in DOMAIN rows /\ rows[cursel] \in RowSet
    BY <1>4 DEF TypeOK
  <2>2. rows[cursel].i \in 0 .. Len(profiles)
    BY <1>1, <2>1 DEF RowsFit
  <2>3. CASE rows[cursel].kind = "folder"
    <3>1. rows[cursel].folder \in FolderNames
      BY <2>1, <2>3 DEF RowSet
    <3> QED BY <1>4, <2>2, <2>3, <3>1, ProfilesAssumption DEF GetSelProfile, GetSelFolder
  <2>4. CASE rows[cursel].kind # "folder"
    <3>1. rows[cursel].i \in Indices
      BY <2>1, <2>4 DEF RowSet
    <3>2. rows[cursel].i \in 1 .. Len(profiles)
      BY <1>2, <2>2, <3>1, ProfilesAssumption DEF Indices
    <3> QED BY <1>2, <1>4, <2>2, <2>4, <3>2 DEF GetSelProfile, GetSelFolder
  <2> QED BY <2>3, <2>4
<1> QED BY <1>3, <1>4

\* The profile looked for by name is there, or 0.
LEMMA FirstNamedFits ==
  ASSUME TypeOK, NEW name
  PROVE  FirstNamed(name) \in 0 .. Len(profiles)
<1> DEFINE S == {i \in DOMAIN profiles : profiles[i].name = name}
<1>1. DOMAIN profiles = 1 .. Len(profiles) /\ Len(profiles) \in Nat
  BY DEF TypeOK
<1>2. CASE S = {}
  BY <1>1, <1>2 DEF FirstNamed
<1>3. CASE S # {}
  <2>1. S \in SUBSET Nat
    BY <1>1
  <2>2. PICK x \in S : \A y \in S : x <= y
    <3> HIDE DEF S
    <3> QED BY <1>3, <2>1, LeastNumber
  <2>3. \A j \in 1 .. x - 1 : j \in DOMAIN profiles /\ profiles[j].name # name
    BY <1>1, <2>2
  <2>4. \E i \in DOMAIN profiles :
          profiles[i].name = name /\ \A j \in 1 .. i - 1 : profiles[j].name # name
    BY <2>2, <2>3
  <2>5. FirstNamed(name) \in DOMAIN profiles
    BY <2>4 DEF FirstNamed
  <2> QED BY <1>1, <2>5
<1> QED BY <1>2, <1>3

\* Nothing is saved at the start.
LEMMA InitInv == Init => IndInv
<1> SUFFICES ASSUME Init PROVE IndInv
  OBVIOUS
<1>1. TypeOK
  <2>1. NoProfile \in ProfileSet \cup {NoProfile} /\ 0 \in 0 .. MaxProfiles /\ 0 \in 0 .. MaxProfiles + 1
    BY ProfilesAssumption
  <2>2. <<>> \in FolderList
    BY ProfilesAssumption DEF FolderList
  <2>3. <<>> \in Seq(ProfileSet) /\ Len(<<>>) <= MaxProfiles /\ <<>> \in Seq(RowSet) /\ Len(<<>>) = 0
    BY ProfilesAssumption
  <2>4. registry \in [default : Names \cup {None}, folders : FolderList, count : 0 .. MaxProfiles,
                      servers : [Indices -> ProfileSet \cup {NoProfile}]]
    BY <2>1, <2>2 DEF Init
  <2>5. saving \in [by : {None, "rename", "folder", "default", "save", "delete"},
                    target : 0 .. MaxProfiles, at : 0 .. MaxProfiles + 1]
    BY <2>1 DEF Init, NotSaving
  <2>6. profiles \in Seq(ProfileSet) /\ Len(profiles) <= MaxProfiles /\ folders \in FolderList
    BY <2>2, <2>3 DEF Init
  <2>7. rows \in Seq(RowSet) /\ cursel \in 0 .. Len(rows)
    BY <2>3 DEF Init
  <2>8. /\ selected \in 0 .. MaxProfiles /\ loaded \in 0 .. MaxProfiles
        /\ chosen \in BOOLEAN /\ open \in BOOLEAN /\ stray \in BOOLEAN
        /\ lastHost \in Hosts \cup {None} /\ fields \in Hosts \cup {None}
        /\ defaultSession \in Names \cup {None}
    BY <2>1 DEF Init
  <2> QED BY <2>4, <2>5, <2>6, <2>7, <2>8 DEF TypeOK
<1>2. RowsFit /\ FoldersFit /\ ListFits /\ HighlightFits /\ SaveHitsTheLoaded
  BY DEF Init, RowsFit, FoldersFit, Distinct, ListFits, HighlightFits, SaveHitsTheLoaded
<1>3. SavingFits /\ KeysExist /\ RegistryFits
  BY ProfilesAssumption DEF Init, SavingFits, KeysExist, RegistryFits, NotSaving, Indices
<1> QED BY <1>1, <1>2, <1>3 DEF IndInv

\* A step that leaves everything as it is.
LEMMA StutterKeeps == IndInv /\ UNCHANGED vars => IndInv'
<1> SUFFICES ASSUME IndInv, UNCHANGED vars PROVE IndInv'
  OBVIOUS
<1> USE DEF vars, memory, dialog
<1>1. TypeOK'
  BY DEF IndInv, TypeOK
<1>2. RowsFit' /\ FoldersFit' /\ SavingFits' /\ SaveHitsTheLoaded'
  BY DEF IndInv, RowsFit, FoldersFit, Distinct, SavingFits, SaveHitsTheLoaded
<1>3. KeysExist' /\ RegistryFits'
  BY DEF IndInv, KeysExist, RegistryFits, Stored
<1>4. ListFits' /\ HighlightFits'
  BY DEF IndInv, ListFits, HighlightFits, GetSelProfile
<1> QED BY <1>1, <1>2, <1>3, <1>4 DEF IndInv

\* What an action of the dialog alone leaves as it is, and what it has to see to.
DialogOnly ==
  /\ saving = NotSaving
  /\ UNCHANGED <<memory, registry, saving>>
  /\ selected' \in 0 .. MaxProfiles /\ loaded' \in 0 .. MaxProfiles
  /\ chosen' \in BOOLEAN /\ open' \in BOOLEAN /\ stray' \in BOOLEAN
  /\ lastHost' \in Hosts \cup {None} /\ fields' \in Hosts \cup {None}
  /\ \/ rows' = rows /\ cursel' \in 0 .. Len(rows) /\ (open' => open)
     \/ rows' = <<>> /\ cursel' = 0 /\ open' = FALSE

LEMMA DialogOnlyKeeps ==
  ASSUME IndInv, DialogOnly, HighlightFits', SaveHitsTheLoaded'
  PROVE  IndInv'
<1> USE DEF DialogOnly, memory
<1>1. TypeOK'
  <2>1. profiles' \in Seq(ProfileSet) /\ Len(profiles') <= MaxProfiles /\ folders' \in FolderList
        /\ defaultSession' \in Names \cup {None}
    BY DEF IndInv, TypeOK
  <2>2. rows' \in Seq(RowSet) /\ cursel' \in 0 .. Len(rows')
    <3>1. CASE rows' = rows /\ cursel' \in 0 .. Len(rows)
      BY <3>1 DEF IndInv, TypeOK
    <3>2. CASE rows' = <<>> /\ cursel' = 0
      <4>1. <<>> \in Seq(RowSet) /\ 0 \in 0 .. Len(<<>>)
        OBVIOUS
      <4> QED BY <3>2, <4>1
    <3> QED BY <3>1, <3>2
  <2>3. registry' = registry /\ saving' = saving
    OBVIOUS
  <2> QED BY <2>1, <2>2, <2>3 DEF IndInv, TypeOK
<1>2. RowsFit'
  <2>1. DOMAIN <<>> = {}
    OBVIOUS
  <2> QED BY <2>1 DEF IndInv, RowsFit
<1>3. FoldersFit' /\ SavingFits'
  BY DEF IndInv, FoldersFit, Distinct, SavingFits, NotSaving
<1>4. KeysExist' /\ RegistryFits'
  BY DEF IndInv, KeysExist, RegistryFits, Stored
<1>5. ListFits'
  BY DEF IndInv, ListFits
<1> QED BY <1>1, <1>2, <1>3, <1>4, <1>5 DEF IndInv

\* The user highlights a connection, and its data go into the fields.
LEMMA SelectRowKeeps == IndInv /\ (\E n \in DOMAIN rows : SelectRow(n)) => IndInv'
<1> SUFFICES ASSUME IndInv, NEW n \in DOMAIN rows, SelectRow(n) PROVE IndInv'
  OBVIOUS
<1> USE DEF SelectRow, Idle
<1>1. n \in 1 .. Len(rows) /\ rows[n].i \in 0 .. Len(profiles)
  BY DEF IndInv, TypeOK, RowsFit, NotSaving, None
<1>2. Len(profiles) \in Nat /\ \A i \in 1 .. Len(profiles) : profiles[i].host \in Hosts
  <2>1. \A i \in 1 .. Len(profiles) : profiles[i] \in ProfileSet
    BY DEF IndInv, TypeOK
  <2> QED BY <2>1 DEF ProfileSet, IndInv, TypeOK
<1>3. CASE rows[n].i = 0
  <2>1. DialogOnly
    BY <1>1, <1>3 DEF DialogOnly, memory, IndInv, TypeOK
  <2>2. HighlightFits'
    BY <1>3 DEF HighlightFits, GetSelProfile, NotSaving, None
  <2>3. SaveHitsTheLoaded'
    BY <1>3 DEF IndInv, SaveHitsTheLoaded, memory
  <2> QED BY <2>1, <2>2, <2>3, DialogOnlyKeeps
<1>4. CASE rows[n].i # 0
  <2>1. rows[n].i \in 1 .. Len(profiles) /\ rows[n].i \in 0 .. MaxProfiles
    BY <1>1, <1>2, <1>4, ProfilesAssumption DEF IndInv, TypeOK
  <2>2. DialogOnly
    <3>1. profiles[rows[n].i].host \in Hosts \cup {None}
      BY <1>2, <2>1
    <3>2. n \in 0 .. Len(rows) /\ lastHost \in Hosts \cup {None} /\ open \in BOOLEAN
      BY <1>1 DEF IndInv, TypeOK
    <3> QED BY <1>4, <2>1, <3>1, <3>2 DEF DialogOnly, memory
  <2>3. HighlightFits'
    BY <1>4 DEF HighlightFits, GetSelProfile, NotSaving, None
  <2>4. SaveHitsTheLoaded'
    BY <1>4 DEF SaveHitsTheLoaded
  <2> QED BY <2>2, <2>3, <2>4, DialogOnlyKeeps
<1> QED BY <1>3, <1>4

\* The focus comes to the list or leaves it: as the row that is highlighted belongs to
\* the fields, or is known not to, the index taken from it is that of the fields.
LEMMA FocusListKeeps == IndInv /\ FocusList => IndInv'
<1> SUFFICES ASSUME IndInv, FocusList PROVE IndInv'
  OBVIOUS
<1> USE DEF FocusList, Idle
<1>1. Len(profiles) \in Nat /\ GetSelProfile \in 0 .. MaxProfiles
  BY SelectionFits, ProfilesAssumption DEF IndInv, TypeOK
<1>2. DialogOnly
  BY <1>1 DEF DialogOnly, memory, IndInv, TypeOK
<1>3. open /\ chosen /\ ~stray => GetSelProfile = loaded
  BY DEF IndInv, HighlightFits, NotSaving, None
<1>4. HighlightFits'
  BY <1>3 DEF HighlightFits, GetSelProfile, NotSaving, None
<1>5. SaveHitsTheLoaded'
  BY <1>3 DEF SaveHitsTheLoaded
<1> QED BY <1>2, <1>4, <1>5, DialogOnlyKeeps

\* Edit does the same for the row that is highlighted.
LEMMA EditKeeps == IndInv /\ Edit => IndInv'
<1> SUFFICES ASSUME IndInv, Edit PROVE IndInv'
  OBVIOUS
<1> USE DEF Edit, Idle
<1>1. GetSelProfile \in 0 .. Len(profiles)
  BY SelectionFits DEF IndInv
<1>2. Len(profiles) \in Nat /\ \A i \in 1 .. Len(profiles) : profiles[i].host \in Hosts
  <2>1. \A i \in 1 .. Len(profiles) : profiles[i] \in ProfileSet
    BY DEF IndInv, TypeOK
  <2> QED BY <2>1 DEF ProfileSet, IndInv, TypeOK
<1>3. GetSelProfile \in 1 .. Len(profiles) /\ GetSelProfile \in 0 .. MaxProfiles
  BY <1>1, <1>2, ProfilesAssumption DEF IndInv, TypeOK
<1>4. DialogOnly
  BY <1>2, <1>3 DEF DialogOnly, memory, IndInv, TypeOK
<1>5. HighlightFits'
  BY DEF HighlightFits, GetSelProfile, NotSaving, None
<1>6. SaveHitsTheLoaded'
  BY DEF SaveHitsTheLoaded
<1> QED BY <1>4, <1>5, <1>6, DialogOnlyKeeps

\* New, typing and the dialog's end.
LEMMA FieldsKeep == IndInv /\ (NewSession \/ (\E h \in Hosts : Type(h)) \/ OK \/ Cancel) => IndInv'
<1> SUFFICES ASSUME IndInv, NewSession \/ (\E h \in Hosts : Type(h)) \/ OK \/ Cancel PROVE IndInv'
  OBVIOUS
<1>1. DialogOnly
  <2>1. CASE NewSession
    BY <2>1, ProfilesAssumption DEF NewSession, Idle, DialogOnly, memory, IndInv, TypeOK
  <2>2. CASE \E h \in Hosts : Type(h)
    BY <2>2 DEF Type, Idle, DialogOnly, memory, IndInv, TypeOK
  <2>3. CASE OK
    BY <2>3 DEF OK, EndDialog, Idle, DialogOnly, memory, IndInv, TypeOK
  <2>4. CASE Cancel
    BY <2>4 DEF Cancel, EndDialog, Idle, DialogOnly, memory, IndInv, TypeOK
  <2> QED BY <2>1, <2>2, <2>3, <2>4
<1>2. SaveHitsTheLoaded'
  <2>1. CASE NewSession
    <3>1. 0 \notin DOMAIN profiles
      BY DEF IndInv, TypeOK
    <3> QED BY <2>1, <3>1 DEF NewSession, SaveHitsTheLoaded, memory
  <2>2. CASE \E h \in Hosts : Type(h)
    BY <2>2 DEF Type, IndInv, SaveHitsTheLoaded, memory
  <2>3. CASE OK
    BY <2>3 DEF OK, EndDialog, IndInv, SaveHitsTheLoaded, memory
  <2>4. CASE Cancel
    BY <2>4 DEF Cancel, EndDialog, SaveHitsTheLoaded
  <2> QED BY <2>1, <2>2, <2>3, <2>4
<1>3. HighlightFits'
  <2> USE DEF HighlightFits, GetSelProfile, NotSaving, None
  <2>1. CASE NewSession
    BY <2>1 DEF NewSession, Idle
  <2>2. CASE \E h \in Hosts : Type(h)
    BY <2>2 DEF Type, Idle, IndInv
  <2>3. CASE OK
    BY <2>3 DEF OK, EndDialog, Idle, IndInv
  <2>4. CASE Cancel
    BY <2>4 DEF Cancel, EndDialog
  <2> QED BY <2>1, <2>2, <2>3, <2>4
<1> QED BY <1>1, <1>2, <1>3, DialogOnlyKeeps

\* What a handler that changes the connections has to see to when it starts to save
\* them: outside a deletion, only the target is new or changed.
Starts(by, target) ==
  /\ open /\ saving = NotSaving /\ Saves(by, target)
  /\ by \in {"rename", "folder", "default", "save", "delete"} /\ target \in 0 .. MaxProfiles
  /\ profiles' \in Seq(ProfileSet) /\ Len(profiles') <= MaxProfiles
  /\ folders' \in FolderList /\ Distinct(folders') /\ defaultSession' \in Names \cup {None}
  /\ selected' \in 0 .. MaxProfiles /\ loaded' \in 0 .. MaxProfiles
  /\ chosen' \in BOOLEAN /\ stray' \in BOOLEAN
  /\ by = "default" => UNCHANGED <<profiles, folders>>
  /\ by = "delete" => Len(profiles') <= Len(profiles)
  /\ by # "delete" =>
       /\ Len(profiles) <= Len(profiles') /\ Len(profiles') <= Len(profiles) + 1
       /\ \A i \in DOMAIN profiles' :
            i # target => i \in DOMAIN profiles /\ profiles'[i] = profiles[i]

LEMMA StartsKeeps ==
  ASSUME IndInv, NEW by, NEW target, Starts(by, target), HighlightFits', SaveHitsTheLoaded'
  PROVE  IndInv'
<1> USE DEF Starts, Saves
<1>0. /\ profiles \in Seq(ProfileSet) /\ profiles' \in Seq(ProfileSet)
      /\ Len(profiles) \in Nat /\ Len(profiles') \in Nat
      /\ DOMAIN profiles = 1 .. Len(profiles) /\ DOMAIN profiles' = 1 .. Len(profiles')
  BY DEF IndInv, TypeOK
<1>1. saving.by = None /\ saving.target = 0
  BY DEF NotSaving
<1>2. saving'.by = by /\ saving'.target = target /\ saving'.at = 0 /\ by # None
  BY DEF None
<1>3. TypeOK'
  <2>1. saving' \in [by : {None, "rename", "folder", "default", "save", "delete"},
                     target : 0 .. MaxProfiles, at : 0 .. MaxProfiles + 1]
    BY ProfilesAssumption
  <2>2. rows' \in Seq(RowSet) /\ cursel' \in 0 .. Len(rows')
    BY DEF IndInv, TypeOK
  <2>3. /\ open' \in BOOLEAN /\ lastHost' \in Hosts \cup {None} /\ fields' \in Hosts \cup {None}
        /\ registry' = registry
    BY DEF IndInv, TypeOK
  <2> QED BY <2>1, <2>2, <2>3 DEF IndInv, TypeOK
<1>4. \A i \in DOMAIN profiles : Stored(i)
  <2>1. \A i \in DOMAIN profiles : i # saving.target
    BY <1>0, <1>1
  <2> QED BY <1>1, <2>1 DEF IndInv, RegistryFits, None
<1>5. RowsFit'
  <2> SUFFICES ASSUME by # "delete", NEW n \in DOMAIN rows PROVE rows[n].i \in 0 .. Len(profiles')
    BY <1>2 DEF RowsFit
  <2>1. rows[n].i \in 0 .. Len(profiles)
    BY <1>1 DEF IndInv, RowsFit, None
  <2> QED BY <1>0, <2>1
<1>6. FoldersFit' /\ SavingFits'
  <2>1. Distinct(registry.folders) /\ registry' = registry
    BY DEF IndInv, FoldersFit
  <2>2. SavingFits'
    BY <1>0, <1>2 DEF SavingFits
  <2> QED BY <2>1, <2>2 DEF FoldersFit
<1>7. KeysExist'
  <2> SUFFICES ASSUME NEW i \in Indices, i < registry.count \/ i < Len(profiles')
               PROVE  registry.servers[i] # NoProfile
    BY DEF KeysExist
  <2>1. CASE i < registry.count \/ i < Len(profiles)
    BY <2>1 DEF IndInv, KeysExist
  <2>2. CASE i = Len(profiles)
    <3>1. i \in DOMAIN profiles
      BY <1>0, <2>2 DEF Indices
    <3>2. registry.servers[i] = profiles[i] /\ profiles[i] \in ProfileSet
      BY <1>0, <1>4, <3>1 DEF Stored
    <3>3. NoProfile \notin ProfileSet
      BY ProfilesAssumption DEF NoProfile, ProfileSet, Names, None
    <3> QED BY <3>2, <3>3
  <2>3. Len(profiles') <= Len(profiles) + 1
    BY <1>0
  <2>4. i \in Nat
    BY DEF Indices
  <2>5. i < Len(profiles') => i < Len(profiles) \/ i = Len(profiles)
    <3> DEFINE a == Len(profiles')
               b == Len(profiles)
    <3>1. a \in Nat /\ b \in Nat /\ a <= b + 1
      BY <1>0, <2>3
    <3> HIDE DEF a, b
    <3>2. i < a => i < b \/ i = b
      BY <2>4, <3>1
    <3> QED BY <3>2 DEF a, b
  <2> QED BY <2>1, <2>2, <2>5
<1>8. RegistryFits'
  <2>1. ASSUME by # "delete", NEW i \in DOMAIN profiles', i # target
        PROVE  i <= registry.count /\ registry.servers[i] = profiles'[i]
    BY <1>4, <2>1 DEF Stored
  <2> QED BY <1>2, <2>1 DEF RegistryFits, Stored
<1>9. ListFits'
  BY <1>1, <1>2 DEF IndInv, ListFits
<1> QED BY <1>3, <1>5, <1>6, <1>7, <1>8, <1>9 DEF IndInv

\* Only one profile is changed.
LEMMA OneIsChanged ==
  ASSUME NEW ps \in Seq(ProfileSet), NEW t \in 1 .. Len(ps), NEW p \in ProfileSet,
         NEW qs, qs = [ps EXCEPT ![t] = p]
  PROVE  /\ qs \in Seq(ProfileSet) /\ Len(qs) = Len(ps)
         /\ \A i \in DOMAIN qs : i # t => i \in DOMAIN ps /\ qs[i] = ps[i]
<1>1. qs \in Seq(ProfileSet) /\ Len(qs) = Len(ps)
  BY ExceptSeq
<1>2. DOMAIN qs = DOMAIN ps /\ \A i \in DOMAIN ps : i # t => qs[i] = ps[i]
  OBVIOUS
<1> QED BY <1>1, <1>2

\* A profile with one field changed.
LEMMA FieldIsChanged ==
  ASSUME NEW ps \in Seq(ProfileSet), NEW t \in 1 .. Len(ps)
  PROVE  /\ \A name \in Names : [ps[t] EXCEPT !.name = name] \in ProfileSet
         /\ \A f \in FolderNames : [ps[t] EXCEPT !.folder = f] \in ProfileSet
<1>1. ps[t] \in ProfileSet
  OBVIOUS
<1> QED BY <1>1 DEF ProfileSet

\* Rename changes the name of the highlighted profile, and nothing else.
LEMMA RenameKeeps == IndInv /\ (\E name \in Names : Rename(name)) => IndInv'
<1> SUFFICES ASSUME IndInv, NEW name \in Names, Rename(name) PROVE IndInv'
  OBVIOUS
<1> USE DEF Rename, Idle
<1> DEFINE t == GetSelProfile
           p == [profiles[t] EXCEPT !.name = name]
<1>1. profiles \in Seq(ProfileSet) /\ Len(profiles) \in Nat /\ Len(profiles) <= MaxProfiles
  BY DEF IndInv, TypeOK
<1>2. t \in 1 .. Len(profiles)
  BY <1>1, SelectionFits DEF IndInv
<1>3. p \in ProfileSet /\ profiles' = [profiles EXCEPT ![t] = p]
  BY <1>1, <1>2, FieldIsChanged
<1> HIDE DEF p, t
<1>4. /\ profiles' \in Seq(ProfileSet) /\ Len(profiles') = Len(profiles)
      /\ \A i \in DOMAIN profiles' : i # t => i \in DOMAIN profiles /\ profiles'[i] = profiles[i]
  BY <1>1, <1>2, <1>3, OneIsChanged
<1>5. t \in 0 .. MaxProfiles
  BY <1>1, <1>2, ProfilesAssumption
<1>6. Saves("rename", t)
  BY DEF t
<1>7. Starts("rename", t)
  BY <1>1, <1>4, <1>5, <1>6 DEF Starts, IndInv, TypeOK, FoldersFit
<1>8. SaveHitsTheLoaded'
  <2>1. DOMAIN profiles' = DOMAIN profiles
    BY <1>1, <1>4
  <2> QED BY <2>1 DEF IndInv, SaveHitsTheLoaded, Saves
<1>9. HighlightFits'
  <2>1. t # 0 /\ (open /\ chosen /\ ~stray => t = loaded)
    BY <1>1, <1>2 DEF IndInv, HighlightFits, NotSaving, None, t
  <2>2. saving'.by = "rename" /\ saving'.target = t
    BY <1>6 DEF Saves
  <2> QED BY <1>6, <2>1, <2>2 DEF HighlightFits, Saves, None
<1> QED BY <1>7, <1>8, <1>9, StartsKeeps

\* A new folder takes the highlighted profile in.
LEMMA NewFolderKeeps == IndInv /\ (\E f \in FolderNames : NewFolder(f)) => IndInv'
<1> SUFFICES ASSUME IndInv, NEW f \in FolderNames, NewFolder(f) PROVE IndInv'
  OBVIOUS
<1> USE DEF NewFolder, Idle
<1> DEFINE t == GetSelProfile
           p == [profiles[t] EXCEPT !.folder = f]
<1>1. /\ profiles \in Seq(ProfileSet) /\ Len(profiles) \in Nat /\ Len(profiles) <= MaxProfiles
      /\ DOMAIN profiles = 1 .. Len(profiles)
  BY DEF IndInv, TypeOK
<1>2. t \in 0 .. Len(profiles)
  BY SelectionFits DEF IndInv
<1>3. t # 0 => p \in ProfileSet /\ profiles' = [profiles EXCEPT ![t] = p]
  BY <1>1, <1>2, FieldIsChanged
<1>4. t = 0 => profiles' = profiles
  OBVIOUS
<1>5. Saves("folder", t) /\ folders' = AddFolder(folders, f)
  OBVIOUS
<1> HIDE DEF p, t
<1>6. /\ profiles' \in Seq(ProfileSet) /\ Len(profiles') = Len(profiles)
      /\ \A i \in DOMAIN profiles' : i # t => i \in DOMAIN profiles /\ profiles'[i] = profiles[i]
  <2>1. CASE t = 0
    BY <1>1, <1>4, <2>1
  <2>2. CASE t # 0
    <3>1. t \in 1 .. Len(profiles)
      BY <1>1, <1>2, <2>2
    <3>2. p \in ProfileSet /\ profiles' = [profiles EXCEPT ![t] = p]
      BY <1>3, <2>2
    <3> HIDE DEF NewFolder
    <3> QED BY <1>1, <3>1, <3>2, OneIsChanged
  <2> QED BY <2>1, <2>2
<1>7. t \in 0 .. MaxProfiles
  BY <1>1, <1>2, ProfilesAssumption
<1>8. folders' \in FolderList /\ Distinct(folders')
  BY <1>5, AddFolderKeeps, AddFolderFits DEF IndInv, TypeOK, FoldersFit
<1>9. Starts("folder", t)
  BY <1>1, <1>5, <1>6, <1>7, <1>8 DEF Starts, IndInv, TypeOK
<1>10. SaveHitsTheLoaded'
  <2>1. DOMAIN profiles' = DOMAIN profiles
    BY <1>1, <1>6
  <2> QED BY <1>5, <2>1 DEF IndInv, SaveHitsTheLoaded, Saves
<1>11. HighlightFits'
  BY <1>5 DEF HighlightFits, Saves, None
<1> QED BY <1>9, <1>10, <1>11, StartsKeeps

\* Set default only changes the name of the default.
LEMMA SetDefaultKeeps == IndInv /\ SetDefault => IndInv'
<1> SUFFICES ASSUME IndInv, SetDefault PROVE IndInv'
  OBVIOUS
<1> USE DEF SetDefault, Idle
<1>1. /\ profiles \in Seq(ProfileSet) /\ Len(profiles) \in Nat /\ Len(profiles) <= MaxProfiles
      /\ DOMAIN profiles = 1 .. Len(profiles)
  BY DEF IndInv, TypeOK
<1>2. GetSelProfile \in 1 .. Len(profiles)
  BY <1>1, SelectionFits DEF IndInv
<1>3. profiles[GetSelProfile].name \in Names
  <2>1. profiles[GetSelProfile] \in ProfileSet
    BY <1>1, <1>2
  <2> QED BY <2>1 DEF ProfileSet
<1>4. Starts("default", 0)
  BY <1>1, <1>3, ProfilesAssumption DEF Starts, IndInv, TypeOK, FoldersFit
<1>5. SaveHitsTheLoaded'
  BY DEF IndInv, SaveHitsTheLoaded, Saves
<1>6. HighlightFits'
  BY DEF IndInv, HighlightFits, GetSelProfile, Saves, NotSaving, None
<1> QED BY <1>4, <1>5, <1>6, StartsKeeps

\* Save writes over a profile that exists, or adds one.
LEMMA SaveSessionKeeps == IndInv /\ SaveSession => IndInv'
<1> SUFFICES ASSUME IndInv, SaveSession PROVE IndInv'
  OBVIOUS
<1> DEFINE editing == selected \in DOMAIN profiles
           target == IF editing THEN selected ELSE FirstNamed(fields)
           folder == IF editing /\ GetSelFolder = Root THEN profiles[selected].folder
                     ELSE GetSelFolder
           p == [name |-> IF editing THEN profiles[selected].name ELSE fields,
                 host |-> fields, folder |-> folder]
           at == IF target # 0 THEN target ELSE Len(profiles) + 1
<1>1. /\ profiles \in Seq(ProfileSet) /\ Len(profiles) \in Nat /\ Len(profiles) <= MaxProfiles
      /\ DOMAIN profiles = 1 .. Len(profiles)
  BY DEF IndInv, TypeOK
<1>2. /\ open /\ saving = NotSaving /\ fields # None /\ at <= MaxProfiles /\ Saves("save", at)
      /\ profiles' = IF target # 0 THEN [profiles EXCEPT ![target] = p] ELSE Append(profiles, p)
      /\ selected' = at /\ loaded' = at /\ chosen' = TRUE /\ stray' = FALSE
      /\ UNCHANGED <<folders, defaultSession>>
  BY DEF SaveSession, Idle
<1>3. target \in 0 .. Len(profiles)
  BY <1>1, FirstNamedFits DEF IndInv
<1>4. p \in ProfileSet
  <2>1. editing => profiles[selected] \in ProfileSet
    BY <1>1
  <2>2. editing => profiles[selected].name \in Names /\ profiles[selected].folder \in FolderNames \cup {Root}
    BY <2>1 DEF ProfileSet
  <2>3. GetSelFolder \in FolderNames \cup {Root}
    BY <1>2, SelectionFits DEF IndInv
  <2>4. fields \in Hosts
    BY <1>2 DEF IndInv, TypeOK
  <2>5. (IF editing THEN profiles[selected].name ELSE fields) \in Names
    BY <2>2, <2>4 DEF Names
  <2>6. folder \in FolderNames \cup {Root}
    BY <2>2, <2>3
  <2> HIDE DEF editing, folder
  <2> QED BY <2>4, <2>5, <2>6 DEF ProfileSet
<1> HIDE DEF p, target
<1>5. at \in 1 .. MaxProfiles
  BY <1>1, <1>2, <1>3
<1>6. /\ profiles' \in Seq(ProfileSet) /\ Len(profiles) <= Len(profiles')
      /\ Len(profiles') <= Len(profiles) + 1 /\ Len(profiles') <= MaxProfiles
      /\ \A i \in DOMAIN profiles' : i # at => i \in DOMAIN profiles /\ profiles'[i] = profiles[i]
  <2>1. CASE target # 0
    <3>1. target \in 1 .. Len(profiles) /\ at = target /\ profiles' = [profiles EXCEPT ![target] = p]
      BY <1>1, <1>2, <1>3, <2>1
    <3>2. /\ profiles' \in Seq(ProfileSet) /\ Len(profiles') = Len(profiles)
          /\ \A i \in DOMAIN profiles' : i # target =>
               i \in DOMAIN profiles /\ profiles'[i] = profiles[i]
      BY <1>1, <1>4, <3>1, OneIsChanged
    <3> QED BY <1>1, <3>1, <3>2
  <2>2. CASE target = 0
    <3>1. at = Len(profiles) + 1 /\ profiles' = Append(profiles, p)
      BY <1>2, <2>2
    <3>2. /\ profiles' \in Seq(ProfileSet) /\ Len(profiles') = Len(profiles) + 1
          /\ \A i \in 1 .. Len(profiles) : profiles'[i] = profiles[i]
      BY <1>1, <1>4, <3>1, AppendProperties
    <3>3. DOMAIN profiles' = 1 .. Len(profiles) + 1
      BY <3>2
    <3>4. Len(profiles') <= MaxProfiles
      BY <1>5, <3>1, <3>2
    <3>5. ASSUME NEW i \in DOMAIN profiles', i # at
          PROVE  i \in DOMAIN profiles /\ profiles'[i] = profiles[i]
      <4>1. i \in 1 .. Len(profiles)
        BY <1>1, <3>1, <3>3, <3>5
      <4> QED BY <1>1, <3>2, <4>1
    <3> QED BY <1>1, <3>2, <3>4, <3>5
  <2> QED BY <2>1, <2>2
<1> HIDE DEF at
<1>7. at \in 0 .. MaxProfiles
  BY <1>5
<1>8. Starts("save", at)
  BY <1>1, <1>2, <1>6, <1>7 DEF Starts, IndInv, TypeOK, FoldersFit
<1>9. SaveHitsTheLoaded'
  BY <1>2 DEF SaveHitsTheLoaded
<1>10. HighlightFits'
  BY <1>2 DEF HighlightFits, Saves, None
<1> QED BY <1>8, <1>9, <1>10, StartsKeeps

\* Delete takes one profile out, and forgets which one is edited.
LEMMA DeleteSessionKeeps == IndInv /\ DeleteSession => IndInv'
<1> SUFFICES ASSUME IndInv, DeleteSession PROVE IndInv'
  OBVIOUS
<1> DEFINE t == GetSelProfile
           l == Len(profiles)
<1>1. /\ profiles \in Seq(ProfileSet) /\ l \in Nat /\ l <= MaxProfiles
      /\ DOMAIN profiles = 1 .. l
  BY DEF IndInv, TypeOK
<1>2. t \in 1 .. l
  BY <1>1, SelectionFits DEF IndInv, DeleteSession, Idle
<1>3. profiles' = SubSeq(profiles, 1, t - 1) \o SubSeq(profiles, t + 1, l)
  BY DEF DeleteSession, RemoveAt
<1>4. /\ open /\ saving = NotSaving /\ Saves("delete", 0) /\ selected' = 0 /\ loaded' = LoadedWithout(t)
      /\ stray' = FALSE /\ UNCHANGED <<folders, defaultSession, chosen>>
  BY DEF DeleteSession, Idle
<1> HIDE DEF t, l
<1>5. profiles' \in Seq(ProfileSet) /\ Len(profiles') = l - 1
  <2> DEFINE a == SubSeq(profiles, 1, t - 1)
             b == SubSeq(profiles, t + 1, l)
  <2>1. a \in Seq(ProfileSet) /\ Len(a) = t - 1
    BY <1>1, <1>2, SubSeqProperties DEF l
  <2>2. b \in Seq(ProfileSet) /\ Len(b) = l - t
    <3>1. \A i \in t + 1 .. l : profiles[i] \in ProfileSet
      BY <1>1, <1>2
    <3>2. t + 1 \in Int /\ l \in Int
      BY <1>1, <1>2
    <3>3. b \in Seq(ProfileSet) /\ Len(b) = IF t + 1 <= l THEN l - (t + 1) + 1 ELSE 0
      BY <3>1, <3>2, SubSeqProperties
    <3> HIDE DEF b
    <3> QED BY <1>1, <1>2, <3>3
  <2> HIDE DEF a, b
  <2>3. a \o b \in Seq(ProfileSet) /\ Len(a \o b) = Len(a) + Len(b)
    BY <2>1, <2>2, ConcatProperties
  <2> QED BY <1>1, <1>2, <1>3, <2>1, <2>2, <2>3 DEF a, b
<1>6. loaded' \in 0 .. MaxProfiles
  <2>1. loaded \in 0 .. MaxProfiles /\ t \in Nat
    BY <1>1, <1>2 DEF IndInv, TypeOK
  <2> QED BY <1>1, <1>2, <1>4, <2>1, ProfilesAssumption DEF LoadedWithout
<1>7. 0 \in 0 .. MaxProfiles /\ Len(profiles') <= Len(profiles) /\ Len(profiles') <= MaxProfiles
  BY <1>1, <1>5, ProfilesAssumption DEF l
<1>8. Starts("delete", 0)
  BY <1>4, <1>5, <1>6, <1>7 DEF Starts, IndInv, TypeOK, FoldersFit
<1>9. SaveHitsTheLoaded'
  <2>1. 0 \notin DOMAIN profiles'
    BY <1>5
  <2> QED BY <1>4, <2>1 DEF SaveHitsTheLoaded
<1>10. HighlightFits'
  BY <1>4 DEF HighlightFits, Saves, None
<1> QED BY <1>8, <1>9, <1>10, StartsKeeps

\* How far a save is, one step further.
LEMMA SavingGoesOn ==
  ASSUME TypeOK, NEW k \in 0 .. MaxProfiles + 1
  PROVE  [saving EXCEPT !.at = k] \in
           [by : {None, "rename", "folder", "default", "save", "delete"},
            target : 0 .. MaxProfiles, at : 0 .. MaxProfiles + 1]
  BY DEF TypeOK

\* The header: the count and the default; every key below the count exists already.
LEMMA SaveHeaderKeeps == IndInv /\ SaveHeader => IndInv'
<1> SUFFICES ASSUME IndInv, SaveHeader PROVE IndInv'
  OBVIOUS
<1> USE DEF SaveHeader, memory, dialog
<1>1. /\ profiles \in Seq(ProfileSet) /\ Len(profiles) \in Nat /\ Len(profiles) <= MaxProfiles
      /\ DOMAIN profiles = 1 .. Len(profiles)
  BY DEF IndInv, TypeOK
<1>2. /\ registry'.default = defaultSession /\ registry'.folders = folders
      /\ registry'.count = Len(profiles) /\ registry'.servers = registry.servers
      /\ saving'.by = saving.by /\ saving'.target = saving.target /\ saving'.at = 1
  BY DEF IndInv, TypeOK
<1>3. TypeOK'
  <2>1. registry' \in [default : Names \cup {None}, folders : FolderList, count : 0 .. MaxProfiles,
                       servers : [Indices -> ProfileSet \cup {NoProfile}]]
    <3> DEFINE S == [Indices -> ProfileSet \cup {NoProfile}]
               D == Names \cup {None}
               c == Len(profiles)
    <3>1. /\ registry \in [default : D, folders : FolderList, count : 0 .. MaxProfiles, servers : S]
          /\ defaultSession \in D /\ folders \in FolderList /\ c \in 0 .. MaxProfiles
          /\ registry' = [registry EXCEPT !.default = defaultSession, !.folders = folders,
                                           !.count = c]
      BY <1>1, ProfilesAssumption DEF IndInv, TypeOK
    <3> HIDE DEF S, D, c
    <3>2. registry' \in [default : D, folders : FolderList, count : 0 .. MaxProfiles, servers : S]
      BY <3>1
    <3> QED BY <3>2 DEF S, D
  <2>2. saving' \in [by : {None, "rename", "folder", "default", "save", "delete"},
                     target : 0 .. MaxProfiles, at : 0 .. MaxProfiles + 1]
    <3>1. 1 \in 0 .. MaxProfiles + 1
      BY ProfilesAssumption
    <3> QED BY <3>1, SavingGoesOn DEF IndInv
  <2> QED BY <2>1, <2>2 DEF IndInv, TypeOK
<1>4. RowsFit' /\ ListFits' /\ HighlightFits' /\ SaveHitsTheLoaded'
  BY <1>2 DEF IndInv, RowsFit, ListFits, HighlightFits, GetSelProfile, SaveHitsTheLoaded
<1>5. FoldersFit' /\ SavingFits'
  BY <1>1, <1>2 DEF IndInv, FoldersFit, SavingFits
<1>6. KeysExist'
  BY <1>2 DEF IndInv, KeysExist
<1>7. RegistryFits'
  <2>1. ASSUME saving.by # "delete", NEW i \in DOMAIN profiles, i # saving.target
        PROVE  Stored(i)'
    BY <1>1, <1>2, <2>1 DEF IndInv, RegistryFits, Stored
  <2>2. \A i \in DOMAIN profiles : ~(i < 1)
    BY <1>1
  <2> QED BY <1>2, <2>1, <2>2 DEF RegistryFits
<1> QED BY <1>3, <1>4, <1>5, <1>6, <1>7 DEF IndInv

\* One key.
LEMMA SaveServerKeeps == IndInv /\ SaveServer => IndInv'
<1> SUFFICES ASSUME IndInv, SaveServer PROVE IndInv'
  OBVIOUS
<1> USE DEF SaveServer, memory, dialog
<1>0. PICK k \in {saving.at} : TRUE
  OBVIOUS
<1>1. /\ profiles \in Seq(ProfileSet) /\ Len(profiles) \in Nat /\ Len(profiles) <= MaxProfiles
      /\ DOMAIN profiles = 1 .. Len(profiles) /\ k \in 1 .. Len(profiles) /\ k \in Indices
  BY <1>0, ProfilesAssumption DEF IndInv, TypeOK, Indices
<1>2. /\ registry'.default = registry.default /\ registry'.folders = registry.folders
      /\ registry'.count = registry.count
      /\ registry'.servers = [registry.servers EXCEPT ![k] = profiles[k]]
      /\ saving'.by = saving.by /\ saving'.target = saving.target /\ saving'.at = k + 1
  BY <1>0 DEF IndInv, TypeOK
<1>3. \A i \in Indices : registry'.servers[i] = IF i = k THEN profiles[k] ELSE registry.servers[i]
  <2>1. registry.servers \in [Indices -> ProfileSet \cup {NoProfile}]
    BY DEF IndInv, TypeOK
  <2> QED BY <1>1, <1>2, <2>1
<1>4. profiles[k] \in ProfileSet /\ profiles[k] # NoProfile
  <2>1. NoProfile \notin ProfileSet
    BY ProfilesAssumption DEF NoProfile, ProfileSet, Names, None
  <2> QED BY <1>1, <2>1
<1>5. TypeOK'
  <2>1. [registry.servers EXCEPT ![k] = profiles[k]] \in [Indices -> ProfileSet \cup {NoProfile}]
    BY <1>4 DEF IndInv, TypeOK
  <2>2. registry' \in [default : Names \cup {None}, folders : FolderList, count : 0 .. MaxProfiles,
                       servers : [Indices -> ProfileSet \cup {NoProfile}]]
    BY <2>1 DEF IndInv, TypeOK
  <2>3. saving' \in [by : {None, "rename", "folder", "default", "save", "delete"},
                     target : 0 .. MaxProfiles, at : 0 .. MaxProfiles + 1]
    <3>1. k + 1 \in 0 .. MaxProfiles + 1
      BY <1>1, ProfilesAssumption
    <3>2. saving' = [saving EXCEPT !.at = k + 1]
      BY <1>0
    <3> QED BY <3>1, <3>2, SavingGoesOn DEF IndInv
  <2> QED BY <2>2, <2>3 DEF IndInv, TypeOK
<1>6. RowsFit' /\ ListFits' /\ HighlightFits' /\ SaveHitsTheLoaded'
  BY <1>2 DEF IndInv, RowsFit, ListFits, HighlightFits, GetSelProfile, SaveHitsTheLoaded
<1>7. FoldersFit' /\ SavingFits'
  BY <1>1, <1>2 DEF IndInv, FoldersFit, SavingFits
<1>8. KeysExist'
  BY <1>2, <1>3, <1>4 DEF IndInv, KeysExist
<1>9. \A i \in DOMAIN profiles : i \in Indices
  BY <1>1, ProfilesAssumption DEF Indices
<1>10. RegistryFits'
  <2>1. registry.count = Len(profiles) /\ registry.default = defaultSession
        /\ \A i \in DOMAIN profiles : i < k => Stored(i)
    BY <1>0, <1>1 DEF IndInv, RegistryFits
  <2>2. Stored(k)'
    BY <1>1, <1>2, <1>3, <2>1 DEF Stored
  <2>3. ASSUME NEW i \in DOMAIN profiles, Stored(i) PROVE Stored(i)'
    BY <1>2, <1>3, <1>9, <2>3 DEF Stored
  <2>4. ASSUME saving.by # "delete", NEW i \in DOMAIN profiles, i # saving.target
        PROVE  Stored(i)'
    BY <2>3, <2>4 DEF IndInv, RegistryFits
  <2>5. ASSUME NEW i \in DOMAIN profiles, i < k + 1
        PROVE  Stored(i)'
    <3>1. i < k \/ i = k
      BY <1>1, <2>5
    <3> QED BY <2>1, <2>2, <2>3, <3>1
  <2> QED BY <1>2, <2>1, <2>4, <2>5 DEF RegistryFits
<1> QED BY <1>5, <1>6, <1>7, <1>8, <1>10 DEF IndInv

\* A row that is highlighted exists, or none is.
LEMMA CurSelFits ==
  ASSUME NEW n, rows' \in Seq(RowSet)
  PROVE  /\ SetCurSel(n) => cursel' \in 0 .. Len(rows')
         /\ RowOfProfile(n) \in 0 .. Len(rows')
<1>1. DOMAIN rows' = 1 .. Len(rows') /\ Len(rows') \in Nat
  OBVIOUS
<1>2. SetCurSel(n) => cursel' \in 0 .. Len(rows')
  BY <1>1 DEF SetCurSel
<1>3. RowOfProfile(n) \in 0 .. Len(rows')
  <2>1. CASE \E k \in DOMAIN rows' : rows'[k].i = n
    <3>1. RowOfProfile(n) \in DOMAIN rows'
      BY <2>1 DEF RowOfProfile
    <3> QED BY <1>1, <3>1
  <2>2. CASE ~(\E k \in DOMAIN rows' : rows'[k].i = n)
    BY <1>1, <2>2 DEF RowOfProfile
  <2> QED BY <2>1, <2>2
<1> QED BY <1>2, <1>3

\* SelectProfileInList highlights the row of the profile, or none.
LEMMA RowIsOfProfile ==
  ASSUME NEW n, RowOfProfile(n) # 0
  PROVE  rows'[RowOfProfile(n)].i = n
  BY DEF RowOfProfile

\* The handler goes on once everything is written.
LEMMA SaveReturnsKeeps == IndInv /\ SaveReturns => IndInv'
<1> SUFFICES ASSUME IndInv, SaveReturns PROVE IndInv'
  OBVIOUS
<1>1. /\ profiles \in Seq(ProfileSet) /\ Len(profiles) \in Nat /\ Len(profiles) <= MaxProfiles
      /\ DOMAIN profiles = 1 .. Len(profiles) /\ folders \in FolderList /\ Distinct(folders)
  BY DEF IndInv, TypeOK, FoldersFit
<1>2. /\ saving.by # None /\ saving.at = Len(profiles) + 1 /\ saving' = NotSaving
      /\ UNCHANGED <<profiles, defaultSession, selected, lastHost, open, fields, chosen, loaded,
                     registry>>
      /\ stray' = (stray \/ (saving.by = "rename" /\ cursel' # RowOfProfile(saving.target)))
      /\ stray' \in BOOLEAN
  BY DEF SaveReturns
<1>3. /\ registry.count = Len(profiles) /\ registry.default = defaultSession
      /\ \A i \in DOMAIN profiles : Stored(i)
  <2>1. /\ registry.count = Len(profiles) /\ registry.default = defaultSession
        /\ \A i \in DOMAIN profiles : i < saving.at => Stored(i)
    BY <1>1, <1>2 DEF IndInv, RegistryFits
  <2>2. \A i \in DOMAIN profiles : i < saving.at
    BY <1>1, <1>2
  <2> QED BY <2>1, <2>2
<1>4. /\ folders' \in FolderList /\ Distinct(folders') /\ rows' \in Seq(RowSet)
      /\ \A n \in DOMAIN rows' : rows'[n].i \in 0 .. Len(profiles)
      /\ open => AreListed(profiles, folders', rows')
      /\ cursel' \in 0 .. Len(rows')
  <2>1. CASE saving.by = "default"
    <3>1. UNCHANGED <<folders, rows, cursel>>
      BY <2>1 DEF SaveReturns
    <3>2. \A n \in DOMAIN rows : rows[n].i \in 0 .. Len(profiles)
      BY <2>1 DEF IndInv, RowsFit
    <3>3. open => AreListed(profiles, folders, rows)
      BY <2>1 DEF IndInv, ListFits
    <3> QED BY <1>1, <3>1, <3>2, <3>3 DEF IndInv, TypeOK
  <2>2. CASE saving.by # "default"
    <3>1. /\ FillSessionList(profiles, folders)
          /\ CASE saving.by = "rename" -> SetCurSel(saving.target)
               [] saving.by = "save" -> cursel' = RowOfProfile(saving.target)
               [] OTHER -> cursel' = 0
      BY <2>2 DEF SaveReturns
    <3>2. /\ folders' \in FolderList /\ Distinct(folders') /\ rows' \in Seq(RowSet)
          /\ \A n \in DOMAIN rows' : rows'[n].i \in 0 .. Len(profiles)
          /\ AreListed(profiles, folders', rows')
      BY <1>1, <3>1, FillLists
    <3>3. \/ SetCurSel(saving.target) \/ cursel' = RowOfProfile(saving.target) \/ cursel' = 0
      BY <3>1
    <3>4. cursel' \in 0 .. Len(rows')
      BY <3>2, <3>3, CurSelFits
    <3> QED BY <3>2, <3>4
  <2> QED BY <2>1, <2>2
<1>5. TypeOK'
  <2>1. saving' \in [by : {None, "rename", "folder", "default", "save", "delete"},
                     target : 0 .. MaxProfiles, at : 0 .. MaxProfiles + 1]
    BY <1>2, ProfilesAssumption DEF NotSaving
  <2> QED BY <1>2, <1>4, <2>1 DEF IndInv, TypeOK
<1>6. RowsFit' /\ ListFits' /\ SaveHitsTheLoaded'
  BY <1>2, <1>4 DEF IndInv, RowsFit, ListFits, SaveHitsTheLoaded
<1>7. FoldersFit' /\ SavingFits' /\ KeysExist'
  BY <1>2, <1>4 DEF IndInv, FoldersFit, SavingFits, KeysExist, NotSaving
<1>8. RegistryFits'
  <2>1. saving'.by = None
    BY <1>2 DEF NotSaving
  <2> QED BY <1>2, <1>3, <2>1 DEF RegistryFits, Stored
<1>9. HighlightFits'
  <2> SUFFICES ASSUME open, chosen, ~stray, cursel' # 0, rows'[cursel'].i # 0,
                      saving.by = "rename" => cursel' = RowOfProfile(saving.target)
               PROVE  rows'[cursel'].i = loaded
    BY <1>2 DEF HighlightFits, GetSelProfile, NotSaving, None
  <2>1. CASE saving.by = "default"
    BY <2>1 DEF IndInv, HighlightFits, GetSelProfile, SaveReturns
  <2>2. CASE saving.by \in {"rename", "save"}
    <3>1. cursel' = RowOfProfile(saving.target)
      BY <2>2 DEF SaveReturns
    <3>2. saving.target = loaded
      BY <2>2 DEF IndInv, HighlightFits
    <3> QED BY <3>1, <3>2, RowIsOfProfile
  <2>3. CASE saving.by \in {"folder", "delete"}
    BY <2>3 DEF SaveReturns
  <2> QED BY <1>2, <2>1, <2>2, <2>3 DEF IndInv, TypeOK
<1> QED BY <1>5, <1>6, <1>7, <1>8, <1>9 DEF IndInv

\* The dialog opens with the list filled, and the default connection in the fields.
LEMMA OpenDialogKeeps == IndInv /\ OpenDialog => IndInv'
<1> SUFFICES ASSUME IndInv, OpenDialog PROVE IndInv'
  OBVIOUS
<1>1. /\ profiles \in Seq(ProfileSet) /\ Len(profiles) \in Nat /\ Len(profiles) <= MaxProfiles
      /\ DOMAIN profiles = 1 .. Len(profiles) /\ folders \in FolderList /\ Distinct(folders)
  BY DEF IndInv, TypeOK, FoldersFit
<1> DEFINE i == FirstNamed(defaultSession)
<1>2. /\ open' = TRUE /\ FillSessionList(profiles, folders)
      /\ IF i # 0
         THEN /\ selected' = i /\ fields' = profiles[i].host
              /\ loaded' = i /\ chosen' = TRUE
              /\ SetCurSel(i) /\ stray' = (cursel' # RowOfProfile(i))
         ELSE /\ fields' = lastHost /\ loaded' = 0 /\ chosen' = FALSE /\ cursel' = 0
              /\ stray' = FALSE
              /\ UNCHANGED selected
      /\ UNCHANGED <<profiles, defaultSession, lastHost, registry, saving>>
  BY DEF OpenDialog
<1>3. i \in 0 .. Len(profiles)
  BY FirstNamedFits DEF IndInv
<1> HIDE DEF i
<1>4. /\ folders' \in FolderList /\ Distinct(folders') /\ rows' \in Seq(RowSet)
      /\ \A n \in DOMAIN rows' : rows'[n].i \in 0 .. Len(profiles)
      /\ AreListed(profiles, folders', rows')
  BY <1>1, <1>2, FillLists
<1>5. /\ selected' \in 0 .. MaxProfiles /\ loaded' \in 0 .. MaxProfiles /\ chosen' \in BOOLEAN
      /\ fields' \in Hosts \cup {None} /\ cursel' \in 0 .. Len(rows')
      /\ chosen' => selected' = loaded'
  <2>1. CASE i # 0
    <3>1. i \in 1 .. Len(profiles) /\ i \in 0 .. MaxProfiles
      BY <1>1, <1>3, <2>1, ProfilesAssumption
    <3>2. profiles[i] \in ProfileSet
      BY <1>1, <3>1
    <3>3. profiles[i].host \in Hosts
      BY <3>2 DEF ProfileSet
    <3>4. cursel' \in 0 .. Len(rows')
      BY <1>2, <1>4, <2>1, CurSelFits
    <3> QED BY <1>2, <2>1, <3>1, <3>3, <3>4
  <2>2. CASE i = 0
    <3>1. Len(rows') \in Nat
      BY <1>4
    <3>2. /\ fields' = lastHost /\ loaded' = 0 /\ chosen' = FALSE /\ cursel' = 0
          /\ selected' = selected
      BY <1>2, <2>2
    <3>3. selected \in 0 .. MaxProfiles /\ lastHost \in Hosts \cup {None} /\ MaxProfiles \in Nat
      BY ProfilesAssumption DEF IndInv, TypeOK
    <3>4. 0 \in 0 .. MaxProfiles /\ 0 \in 0 .. Len(rows')
      BY <3>1, <3>3
    <3> QED BY <3>2, <3>3, <3>4
  <2> QED BY <2>1, <2>2
<1>6. TypeOK'
  <2>1. stray' \in BOOLEAN
    BY <1>2
  <2> QED BY <1>2, <1>4, <1>5, <2>1 DEF IndInv, TypeOK
<1>7. RowsFit' /\ ListFits' /\ SaveHitsTheLoaded'
  BY <1>2, <1>4, <1>5 DEF RowsFit, ListFits, SaveHitsTheLoaded
<1>8. FoldersFit' /\ SavingFits'
  BY <1>2, <1>4 DEF IndInv, FoldersFit, SavingFits
<1>9. KeysExist' /\ RegistryFits'
  BY <1>2 DEF IndInv, KeysExist, RegistryFits, Stored
<1>10. HighlightFits'
  <2>1. saving' = NotSaving
    BY DEF OpenDialog, IndInv, SavingFits
  <2>2. i # 0 => loaded' = i /\ (~stray' => cursel' = RowOfProfile(i))
    BY <1>2
  <2>3. i = 0 => cursel' = 0
    BY <1>2
  <2> QED BY <2>1, <2>2, <2>3, RowIsOfProfile DEF HighlightFits, GetSelProfile, NotSaving, None
<1> QED BY <1>6, <1>7, <1>8, <1>9, <1>10 DEF IndInv

\* What LoadConfiguration reads, whatever the process was doing when it ended.
LEMMA WhatIsRead ==
  ASSUME IndInv
  PROVE  /\ LoadServers(registry) \in Seq(ProfileSet)
         /\ Len(LoadServers(registry)) = Present(registry.servers, registry.count)
         /\ \A i \in 1 .. Present(registry.servers, registry.count) :
              LoadServers(registry)[i] = registry.servers[i]
<1>1. registry.servers \in [Indices -> ProfileSet \cup {NoProfile}] /\ registry.count \in 0 .. MaxProfiles
  BY DEF IndInv, TypeOK
<1>2. \A i \in Indices : i < registry.count => registry.servers[i] # NoProfile
  BY DEF IndInv, KeysExist
<1> QED BY <1>1, <1>2, LoadReads

\* A process that starts again finds nothing missing but, at most, the last key.
LEMMA RestartKeeps == IndInv /\ Restart => IndInv'
<1> SUFFICES ASSUME IndInv, Restart PROVE IndInv'
  OBVIOUS
<1>0. /\ profiles' = LoadServers(registry) /\ folders' = registry.folders
      /\ defaultSession' = registry.default
      /\ selected' = 0 /\ lastHost' = None /\ open' = FALSE /\ fields' = None
      /\ rows' = <<>> /\ cursel' = 0 /\ loaded' = 0 /\ chosen' = FALSE /\ stray' = FALSE
      /\ saving' = NotSaving /\ registry' = registry
  BY DEF Restart
<1> DEFINE c == registry.count
           k == Present(registry.servers, c)
<1>1. c \in 0 .. MaxProfiles /\ c \in Nat /\ MaxProfiles \in Nat
  BY ProfilesAssumption DEF IndInv, TypeOK
<1>2. /\ profiles' \in Seq(ProfileSet) /\ Len(profiles') = k
      /\ \A i \in 1 .. k : profiles'[i] = registry.servers[i]
  BY <1>0, WhatIsRead
<1>3. k \in Nat /\ k <= c /\ (k = c \/ (c = k + 1 /\ registry.servers[c] = NoProfile))
  BY <1>1 DEF Present
<1> HIDE DEF c, k
<1>4. DOMAIN profiles' = 1 .. k
  BY <1>2
<1>5. saving'.by = None /\ saving'.target = 0 /\ saving'.at = 0
  BY <1>0 DEF NotSaving
<1>6. TypeOK'
  <2>1. saving' \in [by : {None, "rename", "folder", "default", "save", "delete"},
                     target : 0 .. MaxProfiles, at : 0 .. MaxProfiles + 1]
    BY <1>0, ProfilesAssumption DEF NotSaving
  <2>2. profiles' \in Seq(ProfileSet) /\ Len(profiles') <= MaxProfiles
    BY <1>1, <1>2, <1>3
  <2>3. rows' \in Seq(RowSet) /\ cursel' \in 0 .. Len(rows')
    <3>1. <<>> \in Seq(RowSet) /\ 0 \in 0 .. Len(<<>>)
      OBVIOUS
    <3> QED BY <1>0, <3>1
  <2>4. folders' \in FolderList /\ defaultSession' \in Names \cup {None} /\ registry' = registry
    BY <1>0 DEF IndInv, TypeOK
  <2>5. /\ selected' \in 0 .. MaxProfiles /\ loaded' \in 0 .. MaxProfiles
        /\ chosen' \in BOOLEAN /\ open' \in BOOLEAN /\ stray' \in BOOLEAN
        /\ lastHost' \in Hosts \cup {None} /\ fields' \in Hosts \cup {None}
    <3>1. 0 \in 0 .. MaxProfiles
      BY <1>1
    <3> QED BY <1>0, <3>1
  <2> QED BY <2>1, <2>2, <2>3, <2>4, <2>5 DEF IndInv, TypeOK
<1>7. RowsFit' /\ ListFits' /\ HighlightFits' /\ SaveHitsTheLoaded' /\ FoldersFit' /\ SavingFits'
  <2>1. DOMAIN <<>> = {}
    OBVIOUS
  <2>2. RowsFit' /\ ListFits' /\ HighlightFits' /\ SaveHitsTheLoaded'
    BY <1>0, <2>1 DEF RowsFit, ListFits, HighlightFits, SaveHitsTheLoaded
  <2>3. FoldersFit' /\ SavingFits'
    BY <1>0, <1>5 DEF IndInv, FoldersFit, SavingFits
  <2> QED BY <2>2, <2>3
<1>8. KeysExist'
  <2> SUFFICES ASSUME NEW i \in Indices, i < c \/ i < k PROVE registry.servers[i] # NoProfile
    BY <1>0, <1>2 DEF KeysExist, c
  <2>1. i < c
    BY <1>1, <1>3 DEF Indices
  <2> QED BY <2>1 DEF IndInv, KeysExist, c
<1>9. RegistryFits'
  <2>1. \A i \in 1 .. k : i <= c /\ registry.servers[i] = profiles'[i]
    BY <1>1, <1>2, <1>3
  <2>2. \/ c = Len(profiles')
        \/ c = Len(profiles') + 1 /\ registry.servers[c] = NoProfile
    BY <1>2, <1>3
  <2> QED BY <1>0, <1>4, <1>5, <2>1, <2>2 DEF RegistryFits, Stored, c
<1> QED BY <1>6, <1>7, <1>8, <1>9 DEF IndInv

\* The invariant holds always.
LEMMA Invariance == Spec => []IndInv
<1>1. IndInv /\ [Next]_vars => IndInv'
  <2> SUFFICES ASSUME IndInv, [Next]_vars PROVE IndInv'
    OBVIOUS
  <2>1. CASE UNCHANGED vars
    BY <2>1, StutterKeeps
  <2>2. CASE OpenDialog
    BY <2>2, OpenDialogKeeps
  <2>3. CASE Edit
    BY <2>3, EditKeeps
  <2>4. CASE NewSession \/ (\E h \in Hosts : Type(h)) \/ OK \/ Cancel
    BY <2>4, FieldsKeep
  <2>5. CASE SetDefault
    BY <2>5, SetDefaultKeeps
  <2>6. CASE SaveSession
    BY <2>6, SaveSessionKeeps
  <2>7. CASE DeleteSession
    BY <2>7, DeleteSessionKeeps
  <2>8. CASE \E n \in DOMAIN rows : SelectRow(n)
    BY <2>8, SelectRowKeeps
  <2>9. CASE \E name \in Names : Rename(name)
    BY <2>9, RenameKeeps
  <2>10. CASE \E f \in FolderNames : NewFolder(f)
    BY <2>10, NewFolderKeeps
  <2>11. CASE SaveHeader
    BY <2>11, SaveHeaderKeeps
  <2>12. CASE SaveServer
    BY <2>12, SaveServerKeeps
  <2>13. CASE SaveReturns
    BY <2>13, SaveReturnsKeeps
  <2>14. CASE Restart
    BY <2>14, RestartKeeps
  <2>15. CASE FocusList
    BY <2>15, FocusListKeeps
  <2> QED
    BY <2>1, <2>2, <2>3, <2>4, <2>5, <2>6, <2>7, <2>8, <2>9, <2>10, <2>11, <2>12, <2>13, <2>14,
       <2>15 DEF Next
<1> QED
  BY <1>1, InitInv, PTL DEF Spec

-----------------------------------------------------------------------------
(* The theorems                                                            *)

\* The variables have their types: among others, the row that is highlighted exists,
\* and no list outgrows its array.
THEOREM TypeCorrect == Spec => []TypeOK
<1>1. IndInv => TypeOK
  BY DEF IndInv
<1> QED BY <1>1, Invariance, PTL

\* What LoadConfiguration would read back is what is in memory when no save is under
\* way, and lacks at most the connection being changed while one is, unless that is a
\* deletion.
THEOREM NothingIsForgotten == Spec => []RestartKeepsProfiles
<1>1. IndInv => RestartKeepsProfiles
  <2> SUFFICES ASSUME IndInv PROVE RestartKeepsProfiles
    OBVIOUS
  <2> DEFINE read == LoadServers(registry)
             c == registry.count
             k == Present(registry.servers, c)
  <2>1. /\ profiles \in Seq(ProfileSet) /\ Len(profiles) \in Nat /\ Len(profiles) <= MaxProfiles
        /\ DOMAIN profiles = 1 .. Len(profiles) /\ c \in Nat
    BY DEF IndInv, TypeOK
  <2>2. read \in Seq(ProfileSet) /\ Len(read) = k /\ \A i \in 1 .. k : read[i] = registry.servers[i]
    BY WhatIsRead
  <2>3. k \in Nat /\ (k = c \/ (c = k + 1 /\ registry.servers[c] = NoProfile))
        /\ (c > 0 /\ registry.servers[c] = NoProfile => c = k + 1)
    BY <2>1 DEF Present
  <2> HIDE DEF read, c, k
  <2>4. \A i \in DOMAIN profiles : profiles[i] # NoProfile
    <3>1. NoProfile \notin ProfileSet
      BY ProfilesAssumption DEF NoProfile, ProfileSet, Names, None
    <3> QED BY <2>1, <3>1
  <2>5. ASSUME saving = NotSaving
        PROVE  read = profiles /\ registry.default = defaultSession
    <3>1. saving.by = None /\ saving.target = 0
      BY <2>5 DEF NotSaving
    <3>2. \A i \in DOMAIN profiles : Stored(i)
      <4>1. saving.by # "delete" /\ \A i \in DOMAIN profiles : i # saving.target
        BY <2>1, <3>1 DEF None
      <4> QED BY <4>1 DEF IndInv, RegistryFits
    <3>3. /\ registry.default = defaultSession
          /\ c = Len(profiles) \/ (c = Len(profiles) + 1 /\ registry.servers[c] = NoProfile)
      BY <3>1 DEF IndInv, RegistryFits, c
    <3>4. k = Len(profiles)
      <4>1. CASE c = Len(profiles)
        <5>1. c > 0 => registry.servers[c] = profiles[c] /\ c \in DOMAIN profiles
          BY <2>1, <3>2, <4>1 DEF Stored
        <5>2. c > 0 => registry.servers[c] # NoProfile
          BY <2>4, <5>1
        <5>3. k = c \/ (c = k + 1 /\ c > 0 /\ registry.servers[c] = NoProfile)
          BY <2>3
        <5> QED BY <4>1, <5>2, <5>3
      <4>2. CASE c = Len(profiles) + 1 /\ registry.servers[c] = NoProfile
        <5> DEFINE l == Len(profiles)
        <5>1. c > 0 /\ l \in Nat /\ c = l + 1
          BY <2>1, <4>2
        <5>2. c = k + 1
          BY <2>3, <4>2, <5>1
        <5> HIDE DEF l
        <5>3. k = l
          BY <2>3, <5>1, <5>2
        <5> QED BY <5>3 DEF l
      <4> QED BY <3>3, <4>1, <4>2
    <3>5. \A i \in 1 .. Len(read) : read[i] = profiles[i]
      BY <2>1, <2>2, <3>2, <3>4 DEF Stored
    <3>6. read = profiles
      BY <2>1, <2>2, <3>4, <3>5, SeqEqual
    <3> QED BY <3>3, <3>6
  <2>6. ASSUME saving.by \notin {None, "delete"}, NEW i \in DOMAIN profiles, i # saving.target
        PROVE  \E j \in DOMAIN read : read[j] = profiles[i]
    <3>1. i <= c /\ registry.servers[i] = profiles[i]
      BY <2>6 DEF IndInv, RegistryFits, Stored, c
    <3>2. registry.servers[i] # NoProfile
      BY <2>4, <3>1
    <3>3. i \in 1 .. k
      BY <2>1, <2>3, <3>1, <3>2
    <3>4. DOMAIN read = 1 .. k
      BY <2>2
    <3> QED BY <2>2, <3>1, <3>3, <3>4
  <2> QED BY <2>5, <2>6 DEF RestartKeepsProfiles, read
<1> QED BY <1>1, Invariance, PTL

\* Every connection has exactly one row, unless its folder is a known one in another
\* case, or there are too many folders.
THEOREM AllAreListed == Spec => []EveryProfileIsListed
<1>1. IndInv => EveryProfileIsListed
  <2> SUFFICES ASSUME IndInv, Idle PROVE EveryProfileIsListed
    BY DEF EveryProfileIsListed
  <2>1. AreListed(profiles, folders, rows)
    BY DEF IndInv, ListFits, Idle, NotSaving
  <2> QED BY <2>1 DEF EveryProfileIsListed, AreListed, Once
<1> QED BY <1>1, Invariance, PTL

\* Once the user has chosen a connection, or New, in this dialog, Save writes over the
\* connection the fields were loaded from, and over no other, wherever the focus goes;
\* unless a row has been highlighted that is not theirs (after New, by WM_INITDIALOG, by
\* Rename).
THEOREM SaveIsOnTarget == Spec => []SaveHitsTheLoaded
<1>1. IndInv => SaveHitsTheLoaded
  BY DEF IndInv
<1> QED BY <1>1, Invariance, PTL

=============================================================================
