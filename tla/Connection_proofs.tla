-------------------------- MODULE Connection_proofs --------------------------
(***************************************************************************)
(* The invariant of Connection is inductive: one lemma for each action,    *)
(* and in it one step for each part of IndInv.  Then the theorems.         *)
(***************************************************************************)
EXTENDS Connection, TLAPS

\* A new handshake touches neither the file nor a list, and the connection is not
\* yet past the check.
LEMMA ConnectKeeps ==
  ASSUME IndInv, NEW c \in Conns, NEW s \in Servers, Connect(c, s)
  PROVE  IndInv'
<1>0. TypeOK /\ ConnectionAssumption
  BY ConnectionAssumption DEF IndInv
<1>1. TypeOK'
  BY <1>0 DEF Connect, Goto, verifyVars, fileVars, IndInv, TypeOK, PCs
<1>2. ServerIsKnown'
  BY <1>0 DEF Connect, Goto, verifyVars, fileVars, IndInv, TypeOK, ServerIsKnown
<1>3. OnlySaved'
  BY <1>0 DEF Connect, Goto, verifyVars, fileVars, IndInv, TypeOK, OnlySaved
<1>4. PendingIsAccepted'
  BY <1>0 DEF Connect, Goto, verifyVars, fileVars, IndInv, TypeOK, PendingIsAccepted, Pending
<1>5. TrustIsEarned'
  BY <1>0 DEF Connect, Goto, verifyVars, fileVars, IndInv, TypeOK, TrustIsEarned
<1>6. QuestionFits'
  BY <1>0 DEF Connect, Goto, verifyVars, fileVars, IndInv, TypeOK, QuestionFits
<1>7. FreshCopy'
  BY <1>0 DEF Connect, Goto, verifyVars, fileVars, IndInv, TypeOK, FreshCopy
<1>8. WriterSpoils'
  BY <1>0 DEF Connect, Goto, verifyVars, fileVars, IndInv, TypeOK, WriterSpoils, Verifying
<1>9. WriterIsFresh'
  BY <1>0 DEF Connect, Goto, verifyVars, fileVars, IndInv, TypeOK, WriterIsFresh
<1>10. PendingIsExpected'
  BY <1>0 DEF Connect, Goto, verifyVars, fileVars, IndInv, TypeOK, PendingIsExpected, Pending, Expected
<1>11. SavedWhenAlone'
  BY <1>0 DEF Connect, Goto, verifyVars, fileVars, IndInv, TypeOK, SavedWhenAlone, Pending, Expected
<1> QED
  BY <1>1, <1>2, <1>3, <1>4, <1>5, <1>6, <1>7, <1>8, <1>9, <1>10, <1>11 DEF IndInv

\* A failed Connect takes its connection back to the start.
LEMMA ConnectFailsKeeps ==
  ASSUME IndInv, NEW c \in Conns, ConnectFails(c)
  PROVE  IndInv'
<1>0. TypeOK /\ ConnectionAssumption
  BY ConnectionAssumption DEF IndInv
<1>1. TypeOK'
  BY <1>0 DEF ConnectFails, Hangup, Goto, verifyVars, fileVars, IndInv, TypeOK, PCs
<1>2. ServerIsKnown'
  BY <1>0 DEF ConnectFails, Hangup, Goto, verifyVars, fileVars, IndInv, TypeOK, ServerIsKnown
<1>3. OnlySaved'
  BY <1>0 DEF ConnectFails, Hangup, Goto, verifyVars, fileVars, IndInv, TypeOK, OnlySaved
<1>4. PendingIsAccepted'
  BY <1>0 DEF ConnectFails, Hangup, Goto, verifyVars, fileVars, IndInv, TypeOK, PendingIsAccepted, Pending
<1>5. TrustIsEarned'
  BY <1>0 DEF ConnectFails, Hangup, Goto, verifyVars, fileVars, IndInv, TypeOK, TrustIsEarned
<1>6. QuestionFits'
  BY <1>0 DEF ConnectFails, Hangup, Goto, verifyVars, fileVars, IndInv, TypeOK, QuestionFits
<1>7. FreshCopy'
  BY <1>0 DEF ConnectFails, Hangup, Goto, verifyVars, fileVars, IndInv, TypeOK, FreshCopy
<1>8. WriterSpoils'
  BY <1>0 DEF ConnectFails, Hangup, Goto, verifyVars, fileVars, IndInv, TypeOK, WriterSpoils, Verifying
<1>9. WriterIsFresh'
  BY <1>0 DEF ConnectFails, Hangup, Goto, verifyVars, fileVars, IndInv, TypeOK, WriterIsFresh
<1>10. PendingIsExpected'
  BY <1>0 DEF ConnectFails, Hangup, Goto, verifyVars, fileVars, IndInv, TypeOK, PendingIsExpected, Pending, Expected
<1>11. SavedWhenAlone'
  BY <1>0 DEF ConnectFails, Hangup, Goto, verifyVars, fileVars, IndInv, TypeOK, SavedWhenAlone, Pending, Expected
<1> QED
  BY <1>1, <1>2, <1>3, <1>4, <1>5, <1>6, <1>7, <1>8, <1>9, <1>10, <1>11 DEF IndInv

\* Reading known_hosts: a match means that the line is in the file, and so was
\* saved; a copy is fresh only when the read succeeded and nobody was writing.
LEMMA ReadKnownHostsKeeps ==
  ASSUME IndInv, NEW c \in Conns, ReadKnownHosts(c)
  PROVE  IndInv'
<1>0. TypeOK /\ ConnectionAssumption
  BY ConnectionAssumption DEF IndInv
<1>r. PICK r \in BOOLEAN :
        LET lines == IF r THEN file ELSE {}
            check == knownhost_check(lines, HostOf[server[c]], key[c])
        IN  IF check = "match"
            THEN Goto(c, "auth") /\ UNCHANGED verifyVars
            ELSE /\ Goto(c, "ask")
                 /\ list' = [list EXCEPT ![c] = lines]
                 /\ status' = [status EXCEPT ![c] = check]
                 /\ stale' = [stale EXCEPT ![c] =
                                ~r \/ \E d \in Conns : pc[d] = "writing"]
  BY <1>0 DEF ReadKnownHosts, ConnectionAssumption
<1>1. TypeOK'
  <2>2. knownhost_check(IF r THEN file ELSE {}, HostOf[server[c]], key[c])
          \in {"match", "unknown", "changed"}
    BY DEF knownhost_check
  <2>3. pc' \in [Conns -> PCs]
    BY <1>0, <1>r DEF TypeOK, Goto, PCs
  <2>4. list' \in [Conns -> SUBSET Lines]
    BY <1>0, <1>r DEF TypeOK, verifyVars
  <2>5. status' \in [Conns -> {"match", "unknown", "changed"}]
    BY <1>0, <1>r, <2>2 DEF TypeOK, verifyVars
  <2>6. stale' \in [Conns -> BOOLEAN]
    BY <1>0, <1>r DEF TypeOK, verifyVars
  <2> QED
    BY <1>0, <2>3, <2>4, <2>5, <2>6 DEF ReadKnownHosts, TypeOK, fileVars
<1>2. ServerIsKnown'
  BY <1>0 DEF ReadKnownHosts, Goto, verifyVars, fileVars, IndInv, TypeOK, ServerIsKnown
<1>3. OnlySaved'
  BY <1>0 DEF ReadKnownHosts, Goto, verifyVars, fileVars, IndInv, TypeOK, OnlySaved
<1>4. PendingIsAccepted'
  BY <1>0 DEF ReadKnownHosts, Goto, verifyVars, fileVars, IndInv, TypeOK, PendingIsAccepted, Pending
<1>5. TrustIsEarned'
  BY <1>0 DEF ReadKnownHosts, Goto, verifyVars, fileVars, IndInv, TypeOK, OnlySaved,
              TrustIsEarned, knownhost_check, Line
<1>6. QuestionFits'
  <2>1. SUFFICES ASSUME NEW d \in Conns, pc'[d] = "ask"
                 PROVE  /\ status'[d] # "match"
                        /\ status'[d] = knownhost_check(list'[d], HostOf[server[d]], key[d])
    BY DEF ReadKnownHosts, QuestionFits, knownhost_check, Bad, Same
  <2>2. CASE d = c
    <3> DEFINE lines == IF r THEN file ELSE {}
               check == knownhost_check(lines, HostOf[server[c]], key[c])
    <3>1. check # "match"
      BY <1>0, <1>r, <2>1, <2>2 DEF Goto, TypeOK
    <3>2. list'[c] = lines /\ status'[c] = check
      <4> HIDE DEF lines
      <4>1. list' = [list EXCEPT ![c] = lines] /\ status' = [status EXCEPT ![c] = check]
        BY <1>r, <3>1 DEF lines
      <4> QED
        BY <1>0, <4>1 DEF TypeOK
    <3> HIDE DEF lines
    <3> QED
      BY <2>2, <3>1, <3>2
  <2>3. CASE d # c
    <3>1. /\ pc[d] = "ask"
          /\ list'[d] = list[d] /\ status'[d] = status[d]
      BY <1>0, <1>r, <2>1, <2>3 DEF Goto, TypeOK, verifyVars
    <3> QED
      BY <3>1 DEF IndInv, QuestionFits
  <2> QED
    BY <2>2, <2>3
<1>7. FreshCopy'
  BY <1>0 DEF ReadKnownHosts, Goto, verifyVars, fileVars, IndInv, TypeOK, FreshCopy
<1>8. WriterSpoils'
  <2>1. SUFFICES ASSUME NEW b \in Conns, NEW d \in Conns, pc'[b] = "writing",
                        pc'[d] \in {"ask", "save", "writing"}, d # b
                 PROVE  stale'[d]
    BY DEF WriterSpoils, Verifying
  <2>2. b # c /\ pc[b] = "writing"
    BY <1>0, <1>r, <2>1 DEF ReadKnownHosts, Goto, TypeOK
  <2>3. CASE d = c
    BY <1>0, <1>r, <2>1, <2>2, <2>3 DEF Goto, TypeOK
  <2>4. CASE d # c
    <3>1. pc[d] \in {"ask", "save", "writing"} /\ stale'[d] = stale[d]
      BY <1>0, <1>r, <2>1, <2>4 DEF Goto, TypeOK, verifyVars
    <3> QED
      BY <2>1, <2>2, <3>1 DEF IndInv, WriterSpoils, Verifying
  <2> QED
    BY <2>3, <2>4
<1>9. WriterIsFresh'
  BY <1>0 DEF ReadKnownHosts, Goto, verifyVars, fileVars, IndInv, TypeOK, WriterIsFresh
<1>10. PendingIsExpected'
  BY <1>0 DEF ReadKnownHosts, Goto, verifyVars, fileVars, IndInv, TypeOK, PendingIsExpected, Pending, Expected
<1>11. SavedWhenAlone'
  BY <1>0 DEF ReadKnownHosts, Goto, verifyVars, fileVars, IndInv, TypeOK, SavedWhenAlone, Pending, Expected
<1> QED
  BY <1>1, <1>2, <1>3, <1>4, <1>5, <1>6, <1>7, <1>8, <1>9, <1>10, <1>11 DEF IndInv

\* A rejected key ends the attempt and frees the list.
LEMMA RejectKeeps ==
  ASSUME IndInv, NEW c \in Conns, Reject(c)
  PROVE  IndInv'
<1>0. TypeOK /\ ConnectionAssumption
  BY ConnectionAssumption DEF IndInv
<1>1. TypeOK'
  BY <1>0 DEF Reject, Hangup, ForgetList, Goto, fileVars, IndInv, TypeOK, PCs
<1>2. ServerIsKnown'
  BY <1>0 DEF Reject, Hangup, ForgetList, Goto, fileVars, IndInv, TypeOK, ServerIsKnown
<1>3. OnlySaved'
  BY <1>0 DEF Reject, Hangup, ForgetList, Goto, fileVars, IndInv, TypeOK, OnlySaved
<1>4. PendingIsAccepted'
  BY <1>0 DEF Reject, Hangup, ForgetList, Goto, fileVars, IndInv, TypeOK, PendingIsAccepted, Pending
<1>5. TrustIsEarned'
  BY <1>0 DEF Reject, Hangup, ForgetList, Goto, fileVars, IndInv, TypeOK, TrustIsEarned
<1>6. QuestionFits'
  BY <1>0 DEF Reject, Hangup, ForgetList, Goto, fileVars, IndInv, TypeOK, QuestionFits
<1>7. FreshCopy'
  BY <1>0 DEF Reject, Hangup, ForgetList, Goto, fileVars, IndInv, TypeOK, FreshCopy
<1>8. WriterSpoils'
  BY <1>0 DEF Reject, Hangup, ForgetList, Goto, fileVars, IndInv, TypeOK, WriterSpoils, Verifying
<1>9. WriterIsFresh'
  BY <1>0 DEF Reject, Hangup, ForgetList, Goto, fileVars, IndInv, TypeOK, WriterIsFresh
<1>10. PendingIsExpected'
  BY <1>0 DEF Reject, Hangup, ForgetList, Goto, fileVars, IndInv, TypeOK, PendingIsExpected, Pending, Expected
<1>11. SavedWhenAlone'
  BY <1>0 DEF Reject, Hangup, ForgetList, Goto, fileVars, IndInv, TypeOK, SavedWhenAlone, Pending, Expected
<1> QED
  BY <1>1, <1>2, <1>3, <1>4, <1>5, <1>6, <1>7, <1>8, <1>9, <1>10, <1>11 DEF IndInv

\* An answer No lets the connection pass as accepted, and leaves the file alone.
LEMMA AcceptOnceKeeps ==
  ASSUME IndInv, NEW c \in Conns, AcceptOnce(c)
  PROVE  IndInv'
<1>0. TypeOK /\ ConnectionAssumption
  BY ConnectionAssumption DEF IndInv
<1>1. TypeOK'
  BY <1>0 DEF AcceptOnce, ForgetList, Goto, fileVars, IndInv, TypeOK, PCs
<1>2. ServerIsKnown'
  BY <1>0 DEF AcceptOnce, ForgetList, Goto, fileVars, IndInv, TypeOK, ServerIsKnown
<1>3. OnlySaved'
  BY <1>0 DEF AcceptOnce, ForgetList, Goto, fileVars, IndInv, TypeOK, OnlySaved
<1>4. PendingIsAccepted'
  BY <1>0 DEF AcceptOnce, ForgetList, Goto, fileVars, IndInv, TypeOK, PendingIsAccepted, Pending
<1>5. TrustIsEarned'
  BY <1>0 DEF AcceptOnce, ForgetList, Goto, fileVars, IndInv, TypeOK, TrustIsEarned
<1>6. QuestionFits'
  BY <1>0 DEF AcceptOnce, ForgetList, Goto, fileVars, IndInv, TypeOK, QuestionFits
<1>7. FreshCopy'
  BY <1>0 DEF AcceptOnce, ForgetList, Goto, fileVars, IndInv, TypeOK, FreshCopy
<1>8. WriterSpoils'
  BY <1>0 DEF AcceptOnce, ForgetList, Goto, fileVars, IndInv, TypeOK, WriterSpoils, Verifying
<1>9. WriterIsFresh'
  BY <1>0 DEF AcceptOnce, ForgetList, Goto, fileVars, IndInv, TypeOK, WriterIsFresh
<1>10. PendingIsExpected'
  BY <1>0 DEF AcceptOnce, ForgetList, Goto, fileVars, IndInv, TypeOK, PendingIsExpected, Pending, Expected
<1>11. SavedWhenAlone'
  BY <1>0 DEF AcceptOnce, ForgetList, Goto, fileVars, IndInv, TypeOK, SavedWhenAlone, Pending, Expected
<1> QED
  BY <1>1, <1>2, <1>3, <1>4, <1>5, <1>6, <1>7, <1>8, <1>9, <1>10, <1>11 DEF IndInv

\* An answer Yes puts the line into the list: if the copy was fresh the list is
\* then what the file should be, since the one contradicting line was taken out.
LEMMA AcceptAndSaveKeeps ==
  ASSUME IndInv, NEW c \in Conns, AcceptAndSave(c)
  PROVE  IndInv'
<1>0. TypeOK /\ ConnectionAssumption
  BY ConnectionAssumption DEF IndInv
<1>1. TypeOK'
  <2>1. HostOf[server[c]] \in Hosts /\ key[c] \in Keys
    BY <1>0 DEF AcceptAndSave, IndInv, ServerIsKnown, ConnectionAssumption
  <2>2. Line(HostOf[server[c]], key[c]) \in Lines
    BY <2>1 DEF Line, Lines
  <2>3. <<HostOf[server[c]], TypeOf[key[c]]>> \in Hosts \X Types
    BY <2>1 DEF Types
  <2>4. lastSaved' \in [Hosts \X Types -> Keys \cup {None}]
    BY <1>0, <2>1, <2>3 DEF AcceptAndSave, TypeOK
  <2>5. list' \in [Conns -> SUBSET Lines]
    BY <1>0, <2>2 DEF AcceptAndSave, TypeOK
  <2> QED
    BY <1>0, <2>2, <2>4, <2>5 DEF AcceptAndSave, TypeOK, Goto, PCs
<1>2. ServerIsKnown'
  BY <1>0 DEF AcceptAndSave, Goto, IndInv, TypeOK, ServerIsKnown
<1>3. OnlySaved'
  BY <1>0 DEF AcceptAndSave, Goto, IndInv, TypeOK, OnlySaved
<1>4. PendingIsAccepted'
  BY <1>0 DEF AcceptAndSave, Goto, IndInv, TypeOK, PendingIsAccepted, Pending
<1>5. TrustIsEarned'
  BY <1>0 DEF AcceptAndSave, Goto, IndInv, TypeOK, TrustIsEarned
<1>6. QuestionFits'
  BY <1>0 DEF AcceptAndSave, Goto, IndInv, TypeOK, QuestionFits
<1>7. FreshCopy'
  BY <1>0 DEF AcceptAndSave, Goto, IndInv, TypeOK, FreshCopy
<1>8. WriterSpoils'
  BY <1>0 DEF AcceptAndSave, Goto, IndInv, TypeOK, WriterSpoils, Verifying
<1>9. WriterIsFresh'
  BY <1>0 DEF AcceptAndSave, Goto, IndInv, TypeOK, WriterIsFresh
<1>10. PendingIsExpected'
  <2> DEFINE h == HostOf[server[c]]
             k == key[c]
             new == Line(h, k)
  <2>1. SUFFICES ASSUME ~disturbed, NEW d \in Conns, Pending' = {d}, ~stale[d]
                 PROVE  list'[d] = Expected'
    BY DEF AcceptAndSave, PendingIsExpected
  <2>2. d = c /\ Pending = {}
    BY <1>0, <2>1 DEF AcceptAndSave, Goto, TypeOK, Pending
  <2>3. h \in Hosts /\ k \in Keys
    BY <1>0 DEF AcceptAndSave, IndInv, ServerIsKnown, ConnectionAssumption
  <2>4. file = Expected
    BY <2>1, <2>2 DEF IndInv, SavedWhenAlone
  <2>5. list[c] = Expected
    BY <2>1, <2>2, <2>4 DEF AcceptAndSave, IndInv, FreshCopy
  <2>6. \A l \in Lines : l \in Expected' <=>
          IF Same(l, h, k) THEN l.key = k ELSE l \in Expected
    <3>1. <<h, TypeOf[k]>> \in Hosts \X Types
      BY <2>3 DEF Types
    <3>2. lastSaved' = [lastSaved EXCEPT ![<<h, TypeOf[k]>>] = k]
      BY DEF AcceptAndSave
    <3>3. \A l \in Lines : <<l.host, TypeOf[l.key]>> \in Hosts \X Types
      BY DEF Lines, Types
    <3>4. \A l \in Lines : <<l.host, TypeOf[l.key]>> = <<h, TypeOf[k]>> <=> Same(l, h, k)
      BY DEF Same
    <3>5. \A l \in Lines : lastSaved'[<<l.host, TypeOf[l.key]>>] =
            IF Same(l, h, k) THEN k ELSE lastSaved[<<l.host, TypeOf[l.key]>>]
      BY <1>0, <3>1, <3>2, <3>3, <3>4 DEF TypeOK
    <3> QED
      BY <3>5 DEF Expected
  <2>7. new \in Lines /\ new.host = h /\ new.key = k
    BY <2>3 DEF Line, Lines
  <2>8. \A l \in Lines : Same(l, h, k) /\ l.key = k <=> l = new
    BY <2>3 DEF Same, Line, Lines
  <2>9. \A l, m \in Expected : Same(l, h, k) /\ Same(m, h, k) => l = m
    <3>1. \A l, m \in Expected : Same(l, h, k) /\ Same(m, h, k) =>
            l.key = m.key /\ l.host = m.host
      BY DEF Expected, Same
    <3> QED
      BY <3>1 DEF Expected, Lines
  <2>10. list'[c] \subseteq Lines /\ Expected' \subseteq Lines
    BY <1>0, <1>1 DEF TypeOK, Expected
  <2>11. CASE status[c] = "unknown"
    <3>1. Bad(list[c], h, k) = {}
      BY <2>11 DEF AcceptAndSave, IndInv, QuestionFits, knownhost_check
    <3>2. new \notin list[c]
      BY <2>11 DEF AcceptAndSave, IndInv, QuestionFits, knownhost_check
    <3>3. list'[c] = list[c] \cup {new}
      BY <1>0, <2>11 DEF AcceptAndSave, TypeOK
    <3>4. \A l \in Lines : l \in list'[c] <=> l \in Expected'
      BY <2>5, <2>6, <2>8, <3>1, <3>2, <3>3 DEF Bad
    <3> QED
      BY <2>2, <2>10, <3>4
  <2>12. CASE status[c] = "changed"
    <3>1. PICK old \in Bad(list[c], h, k) : list'[c] = (list[c] \ {old}) \cup {new}
      BY <1>0, <2>12 DEF AcceptAndSave, TypeOK
    <3>2. new \notin list[c]
      BY <2>12 DEF AcceptAndSave, IndInv, QuestionFits, knownhost_check
    <3>3. \A l \in Lines : l \in list'[c] <=> l \in Expected'
      BY <2>5, <2>6, <2>8, <2>9, <3>1, <3>2 DEF Bad
    <3> QED
      BY <2>2, <2>10, <3>3
  <2> QED
    BY <2>11, <2>12 DEF AcceptAndSave
<1>11. SavedWhenAlone'
  BY <1>0 DEF AcceptAndSave, Goto, IndInv, TypeOK, SavedWhenAlone, Pending, Expected
<1> QED
  BY <1>1, <1>2, <1>3, <1>4, <1>5, <1>6, <1>7, <1>8, <1>9, <1>10, <1>11 DEF IndInv

\* fopen for writing empties the file and makes all other copies stale.
LEMMA OpenForWritingKeeps ==
  ASSUME IndInv, NEW c \in Conns, OpenForWriting(c)
  PROVE  IndInv'
<1>0. TypeOK /\ ConnectionAssumption
  BY ConnectionAssumption DEF IndInv
<1>1. TypeOK'
  BY <1>0 DEF OpenForWriting, Goto, IndInv, TypeOK, PCs
<1>2. ServerIsKnown'
  BY <1>0 DEF OpenForWriting, Goto, IndInv, TypeOK, ServerIsKnown
<1>3. OnlySaved'
  BY <1>0 DEF OpenForWriting, Goto, IndInv, TypeOK, OnlySaved
<1>4. PendingIsAccepted'
  BY <1>0 DEF OpenForWriting, Goto, IndInv, TypeOK, PendingIsAccepted, Pending
<1>5. TrustIsEarned'
  BY <1>0 DEF OpenForWriting, Goto, IndInv, TypeOK, TrustIsEarned
<1>6. QuestionFits'
  BY <1>0 DEF OpenForWriting, Goto, IndInv, TypeOK, QuestionFits
<1>7. FreshCopy'
  BY <1>0 DEF OpenForWriting, Goto, IndInv, TypeOK, FreshCopy, Verifying
<1>8. WriterSpoils'
  BY <1>0 DEF OpenForWriting, Goto, IndInv, TypeOK, WriterSpoils, Verifying
<1>9. WriterIsFresh'
  BY <1>0 DEF OpenForWriting, Goto, IndInv, TypeOK, WriterIsFresh, WriterSpoils, Verifying
<1>10. PendingIsExpected'
  BY <1>0 DEF OpenForWriting, Goto, IndInv, TypeOK, PendingIsExpected, Pending, Expected
<1>11. SavedWhenAlone'
  BY <1>0 DEF OpenForWriting, Goto, IndInv, TypeOK, SavedWhenAlone, Pending, Expected
<1> QED
  BY <1>1, <1>2, <1>3, <1>4, <1>5, <1>6, <1>7, <1>8, <1>9, <1>10, <1>11 DEF IndInv

\* A failed fopen loses the answer, which counts as a disturbance.
LEMMA WriteFailsKeeps ==
  ASSUME IndInv, NEW c \in Conns, WriteFails(c)
  PROVE  IndInv'
<1>0. TypeOK /\ ConnectionAssumption
  BY ConnectionAssumption DEF IndInv
<1>1. TypeOK'
  BY <1>0 DEF WriteFails, ForgetList, Goto, IndInv, TypeOK, PCs
<1>2. ServerIsKnown'
  BY <1>0 DEF WriteFails, ForgetList, Goto, IndInv, TypeOK, ServerIsKnown
<1>3. OnlySaved'
  BY <1>0 DEF WriteFails, ForgetList, Goto, IndInv, TypeOK, OnlySaved
<1>4. PendingIsAccepted'
  BY <1>0 DEF WriteFails, ForgetList, Goto, IndInv, TypeOK, PendingIsAccepted, Pending
<1>5. TrustIsEarned'
  BY <1>0 DEF WriteFails, ForgetList, Goto, IndInv, TypeOK, TrustIsEarned,
              PendingIsAccepted, Pending
<1>6. QuestionFits'
  BY <1>0 DEF WriteFails, ForgetList, Goto, IndInv, TypeOK, QuestionFits
<1>7. FreshCopy'
  BY <1>0 DEF WriteFails, ForgetList, Goto, IndInv, TypeOK, FreshCopy
<1>8. WriterSpoils'
  BY <1>0 DEF WriteFails, ForgetList, Goto, IndInv, TypeOK, WriterSpoils, Verifying
<1>9. WriterIsFresh'
  BY <1>0 DEF WriteFails, ForgetList, Goto, IndInv, TypeOK, WriterIsFresh
<1>10. PendingIsExpected'
  BY <1>0 DEF WriteFails, ForgetList, Goto, IndInv, TypeOK, PendingIsExpected, Pending, Expected
<1>11. SavedWhenAlone'
  BY <1>0 DEF WriteFails, ForgetList, Goto, IndInv, TypeOK, SavedWhenAlone, Pending, Expected
<1> QED
  BY <1>1, <1>2, <1>3, <1>4, <1>5, <1>6, <1>7, <1>8, <1>9, <1>10, <1>11 DEF IndInv

\* A flush writes lines of the writer's list only.
LEMMA FlushSomeKeeps ==
  ASSUME IndInv, NEW c \in Conns, FlushSome(c)
  PROVE  IndInv'
<1>0. TypeOK /\ ConnectionAssumption
  BY ConnectionAssumption DEF IndInv
<1>1. TypeOK'
  BY <1>0 DEF FlushSome, verifyVars, IndInv, TypeOK, PCs
<1>2. ServerIsKnown'
  BY <1>0 DEF FlushSome, verifyVars, IndInv, TypeOK, ServerIsKnown
<1>3. OnlySaved'
  BY <1>0 DEF FlushSome, verifyVars, IndInv, TypeOK, OnlySaved
<1>4. PendingIsAccepted'
  BY <1>0 DEF FlushSome, verifyVars, IndInv, TypeOK, PendingIsAccepted, Pending
<1>5. TrustIsEarned'
  BY <1>0 DEF FlushSome, verifyVars, IndInv, TypeOK, TrustIsEarned
<1>6. QuestionFits'
  BY <1>0 DEF FlushSome, verifyVars, IndInv, TypeOK, QuestionFits
<1>7. FreshCopy'
  BY <1>0 DEF FlushSome, verifyVars, IndInv, TypeOK, FreshCopy
<1>8. WriterSpoils'
  BY <1>0 DEF FlushSome, verifyVars, IndInv, TypeOK, WriterSpoils, Verifying
<1>9. WriterIsFresh'
  <2>1. SUFFICES ASSUME ~disturbed, NEW d \in Conns, pc[d] = "writing"
                 PROVE  ~stale[d] /\ file' \subseteq list[d]
    BY DEF FlushSome, verifyVars, WriterIsFresh
  <2>2. d = c
    BY <2>1 DEF FlushSome, IndInv, WriterIsFresh, WriterSpoils, Verifying
  <2> QED
    BY <2>1, <2>2 DEF FlushSome, IndInv, WriterIsFresh
<1>10. PendingIsExpected'
  BY <1>0 DEF FlushSome, verifyVars, IndInv, TypeOK, PendingIsExpected, Pending, Expected
<1>11. SavedWhenAlone'
  BY <1>0 DEF FlushSome, verifyVars, IndInv, TypeOK, SavedWhenAlone, Pending, Expected
<1> QED
  BY <1>1, <1>2, <1>3, <1>4, <1>5, <1>6, <1>7, <1>8, <1>9, <1>10, <1>11 DEF IndInv

\* fclose leaves the writer's list in the file.  Without a disturbance the file
\* held nothing else, and no other fresh copy is waiting.
LEMMA CloseFileKeeps ==
  ASSUME IndInv, NEW c \in Conns, CloseFile(c)
  PROVE  IndInv'
<1>0. TypeOK /\ ConnectionAssumption
  BY ConnectionAssumption DEF IndInv
<1>1. TypeOK'
  BY <1>0 DEF CloseFile, ForgetList, Goto, IndInv, TypeOK, PCs
<1>2. ServerIsKnown'
  BY <1>0 DEF CloseFile, ForgetList, Goto, IndInv, TypeOK, ServerIsKnown
<1>3. OnlySaved'
  BY <1>0 DEF CloseFile, ForgetList, Goto, IndInv, TypeOK, OnlySaved
<1>4. PendingIsAccepted'
  BY <1>0 DEF CloseFile, ForgetList, Goto, IndInv, TypeOK, PendingIsAccepted, Pending
<1>5. TrustIsEarned'
  BY <1>0 DEF CloseFile, ForgetList, Goto, IndInv, TypeOK, TrustIsEarned,
              PendingIsAccepted, Pending
<1>6. QuestionFits'
  BY <1>0 DEF CloseFile, ForgetList, Goto, IndInv, TypeOK, QuestionFits
<1>7. FreshCopy'
  BY <1>0 DEF CloseFile, ForgetList, Goto, IndInv, TypeOK, FreshCopy
<1>8. WriterSpoils'
  BY <1>0 DEF CloseFile, ForgetList, Goto, IndInv, TypeOK, WriterSpoils, Verifying
<1>9. WriterIsFresh'
  <2>1. ~disturbed => \A d \in Conns : pc[d] = "writing" => d = c
    BY DEF CloseFile, IndInv, WriterIsFresh, WriterSpoils, Verifying
  <2> QED
    BY <1>0, <2>1 DEF CloseFile, ForgetList, Goto, TypeOK, WriterIsFresh
<1>10. PendingIsExpected'
  <2>1. SUFFICES ASSUME NEW d \in Conns, Pending' = {d}
                 PROVE  stale'[d]
    BY DEF PendingIsExpected
  <2>2. d # c /\ pc[d] \in {"save", "writing"}
    BY <1>0, <2>1 DEF CloseFile, Goto, TypeOK, Pending
  <2>3. stale[d]
    BY <2>2 DEF CloseFile, IndInv, WriterSpoils, Verifying
  <2> QED
    BY <1>0, <2>2, <2>3 DEF CloseFile, ForgetList, TypeOK
<1>11. SavedWhenAlone'
  <2>1. SUFFICES ASSUME ~disturbed, Pending' = {}
                 PROVE  file' = Expected'
    BY DEF CloseFile, SavedWhenAlone
  <2>2. Pending = {c}
    BY <1>0, <2>1 DEF CloseFile, Goto, TypeOK, Pending
  <2>3. ~stale[c] /\ file \subseteq list[c]
    BY <2>1 DEF CloseFile, IndInv, WriterIsFresh
  <2>4. list[c] = Expected
    BY <2>1, <2>2, <2>3 DEF IndInv, PendingIsExpected
  <2>5. file' = list[c]
    BY <2>3 DEF CloseFile
  <2>6. Expected' = Expected
    BY DEF CloseFile, Expected
  <2> QED
    BY <2>4, <2>5, <2>6
<1> QED
  BY <1>1, <1>2, <1>3, <1>4, <1>5, <1>6, <1>7, <1>8, <1>9, <1>10, <1>11 DEF IndInv

\* A write that breaks off leaves some of the lines, and the history says so.
LEMMA WriteBreaksKeeps ==
  ASSUME IndInv, NEW c \in Conns, WriteBreaks(c)
  PROVE  IndInv'
<1>0. TypeOK /\ ConnectionAssumption
  BY ConnectionAssumption DEF IndInv
<1>1. TypeOK'
  BY <1>0 DEF WriteBreaks, ForgetList, Goto, IndInv, TypeOK, PCs
<1>2. ServerIsKnown'
  BY <1>0 DEF WriteBreaks, ForgetList, Goto, IndInv, TypeOK, ServerIsKnown
<1>3. OnlySaved'
  BY <1>0 DEF WriteBreaks, ForgetList, Goto, IndInv, TypeOK, OnlySaved
<1>4. PendingIsAccepted'
  BY <1>0 DEF WriteBreaks, ForgetList, Goto, IndInv, TypeOK, PendingIsAccepted, Pending
<1>5. TrustIsEarned'
  BY <1>0 DEF WriteBreaks, ForgetList, Goto, IndInv, TypeOK, TrustIsEarned,
              PendingIsAccepted, Pending
<1>6. QuestionFits'
  BY <1>0 DEF WriteBreaks, ForgetList, Goto, IndInv, TypeOK, QuestionFits
<1>7. FreshCopy'
  BY <1>0 DEF WriteBreaks, ForgetList, Goto, IndInv, TypeOK, FreshCopy
<1>8. WriterSpoils'
  BY <1>0 DEF WriteBreaks, ForgetList, Goto, IndInv, TypeOK, WriterSpoils, Verifying
<1>9. WriterIsFresh' /\ PendingIsExpected' /\ SavedWhenAlone'
  BY DEF WriteBreaks, WriterIsFresh, PendingIsExpected, SavedWhenAlone
<1> QED
  BY <1>1, <1>2, <1>3, <1>4, <1>5, <1>6, <1>7, <1>8, <1>9 DEF IndInv

\* Authentication changes nothing but the position.
LEMMA AuthenticateKeeps ==
  ASSUME IndInv, NEW c \in Conns, Authenticate(c)
  PROVE  IndInv'
<1>0. TypeOK /\ ConnectionAssumption
  BY ConnectionAssumption DEF IndInv
<1>1. TypeOK'
  BY <1>0 DEF Authenticate, Goto, verifyVars, fileVars, IndInv, TypeOK, PCs
<1>2. ServerIsKnown'
  BY <1>0 DEF Authenticate, Goto, verifyVars, fileVars, IndInv, TypeOK, ServerIsKnown
<1>3. OnlySaved'
  BY <1>0 DEF Authenticate, Goto, verifyVars, fileVars, IndInv, TypeOK, OnlySaved
<1>4. PendingIsAccepted'
  BY <1>0 DEF Authenticate, Goto, verifyVars, fileVars, IndInv, TypeOK, PendingIsAccepted, Pending
<1>5. TrustIsEarned'
  BY <1>0 DEF Authenticate, Goto, verifyVars, fileVars, IndInv, TypeOK, TrustIsEarned
<1>6. QuestionFits'
  BY <1>0 DEF Authenticate, Goto, verifyVars, fileVars, IndInv, TypeOK, QuestionFits
<1>7. FreshCopy'
  BY <1>0 DEF Authenticate, Goto, verifyVars, fileVars, IndInv, TypeOK, FreshCopy
<1>8. WriterSpoils'
  BY <1>0 DEF Authenticate, Goto, verifyVars, fileVars, IndInv, TypeOK, WriterSpoils, Verifying
<1>9. WriterIsFresh'
  BY <1>0 DEF Authenticate, Goto, verifyVars, fileVars, IndInv, TypeOK, WriterIsFresh
<1>10. PendingIsExpected'
  BY <1>0 DEF Authenticate, Goto, verifyVars, fileVars, IndInv, TypeOK, PendingIsExpected, Pending, Expected
<1>11. SavedWhenAlone'
  BY <1>0 DEF Authenticate, Goto, verifyVars, fileVars, IndInv, TypeOK, SavedWhenAlone, Pending, Expected
<1> QED
  BY <1>1, <1>2, <1>3, <1>4, <1>5, <1>6, <1>7, <1>8, <1>9, <1>10, <1>11 DEF IndInv

\* Disconnect takes the connection back to the start.
LEMMA DisconnectKeeps ==
  ASSUME IndInv, NEW c \in Conns, Disconnect(c)
  PROVE  IndInv'
<1>0. TypeOK /\ ConnectionAssumption
  BY ConnectionAssumption DEF IndInv
<1>1. TypeOK'
  BY <1>0 DEF Disconnect, Hangup, Goto, verifyVars, fileVars, IndInv, TypeOK, PCs
<1>2. ServerIsKnown'
  BY <1>0 DEF Disconnect, Hangup, Goto, verifyVars, fileVars, IndInv, TypeOK, ServerIsKnown
<1>3. OnlySaved'
  BY <1>0 DEF Disconnect, Hangup, Goto, verifyVars, fileVars, IndInv, TypeOK, OnlySaved
<1>4. PendingIsAccepted'
  BY <1>0 DEF Disconnect, Hangup, Goto, verifyVars, fileVars, IndInv, TypeOK, PendingIsAccepted, Pending
<1>5. TrustIsEarned'
  BY <1>0 DEF Disconnect, Hangup, Goto, verifyVars, fileVars, IndInv, TypeOK, TrustIsEarned
<1>6. QuestionFits'
  BY <1>0 DEF Disconnect, Hangup, Goto, verifyVars, fileVars, IndInv, TypeOK, QuestionFits
<1>7. FreshCopy'
  BY <1>0 DEF Disconnect, Hangup, Goto, verifyVars, fileVars, IndInv, TypeOK, FreshCopy
<1>8. WriterSpoils'
  BY <1>0 DEF Disconnect, Hangup, Goto, verifyVars, fileVars, IndInv, TypeOK, WriterSpoils, Verifying
<1>9. WriterIsFresh'
  BY <1>0 DEF Disconnect, Hangup, Goto, verifyVars, fileVars, IndInv, TypeOK, WriterIsFresh
<1>10. PendingIsExpected'
  BY <1>0 DEF Disconnect, Hangup, Goto, verifyVars, fileVars, IndInv, TypeOK, PendingIsExpected, Pending, Expected
<1>11. SavedWhenAlone'
  BY <1>0 DEF Disconnect, Hangup, Goto, verifyVars, fileVars, IndInv, TypeOK, SavedWhenAlone, Pending, Expected
<1> QED
  BY <1>1, <1>2, <1>3, <1>4, <1>5, <1>6, <1>7, <1>8, <1>9, <1>10, <1>11 DEF IndInv

\* A terminated thread that owed the file a line is a disturbance.
LEMMA TerminateKeeps ==
  ASSUME IndInv, NEW c \in Conns, Terminate(c)
  PROVE  IndInv'
<1>0. TypeOK /\ ConnectionAssumption
  BY ConnectionAssumption DEF IndInv
<1>1. TypeOK'
  BY <1>0 DEF Terminate, Hangup, ForgetList, Goto, IndInv, TypeOK, PCs
<1>2. ServerIsKnown'
  BY <1>0 DEF Terminate, Hangup, ForgetList, Goto, IndInv, TypeOK, ServerIsKnown
<1>3. OnlySaved'
  BY <1>0 DEF Terminate, Hangup, ForgetList, Goto, IndInv, TypeOK, OnlySaved
<1>4. PendingIsAccepted'
  BY <1>0 DEF Terminate, Hangup, ForgetList, Goto, IndInv, TypeOK, PendingIsAccepted, Pending
<1>5. TrustIsEarned'
  BY <1>0 DEF Terminate, Hangup, ForgetList, Goto, IndInv, TypeOK, TrustIsEarned
<1>6. QuestionFits'
  BY <1>0 DEF Terminate, Hangup, ForgetList, Goto, IndInv, TypeOK, QuestionFits
<1>7. FreshCopy'
  BY <1>0 DEF Terminate, Hangup, ForgetList, Goto, IndInv, TypeOK, FreshCopy
<1>8. WriterSpoils'
  BY <1>0 DEF Terminate, Hangup, ForgetList, Goto, IndInv, TypeOK, WriterSpoils, Verifying
<1>9. WriterIsFresh'
  BY <1>0 DEF Terminate, Hangup, ForgetList, Goto, IndInv, TypeOK, WriterIsFresh
<1>10. PendingIsExpected'
  BY <1>0 DEF Terminate, Hangup, ForgetList, Goto, IndInv, TypeOK, PendingIsExpected, Pending, Expected
<1>11. SavedWhenAlone'
  BY <1>0 DEF Terminate, Hangup, ForgetList, Goto, IndInv, TypeOK, SavedWhenAlone, Pending, Expected
<1> QED
  BY <1>1, <1>2, <1>3, <1>4, <1>5, <1>6, <1>7, <1>8, <1>9, <1>10, <1>11 DEF IndInv

\* The loss of a connection leaves its server and key as they were.
LEMMA DropKeeps ==
  ASSUME IndInv, NEW c \in Conns, Drop(c)
  PROVE  IndInv'
<1>0. TypeOK /\ ConnectionAssumption
  BY ConnectionAssumption DEF IndInv
<1>1. TypeOK'
  BY <1>0 DEF Drop, Goto, verifyVars, fileVars, IndInv, TypeOK, PCs
<1>2. ServerIsKnown'
  BY <1>0 DEF Drop, Goto, verifyVars, fileVars, IndInv, TypeOK, ServerIsKnown
<1>3. OnlySaved'
  BY <1>0 DEF Drop, Goto, verifyVars, fileVars, IndInv, TypeOK, OnlySaved
<1>4. PendingIsAccepted'
  BY <1>0 DEF Drop, Goto, verifyVars, fileVars, IndInv, TypeOK, PendingIsAccepted, Pending
<1>5. TrustIsEarned'
  BY <1>0 DEF Drop, Goto, verifyVars, fileVars, IndInv, TypeOK, TrustIsEarned
<1>6. QuestionFits'
  BY <1>0 DEF Drop, Goto, verifyVars, fileVars, IndInv, TypeOK, QuestionFits
<1>7. FreshCopy'
  BY <1>0 DEF Drop, Goto, verifyVars, fileVars, IndInv, TypeOK, FreshCopy
<1>8. WriterSpoils'
  BY <1>0 DEF Drop, Goto, verifyVars, fileVars, IndInv, TypeOK, WriterSpoils, Verifying
<1>9. WriterIsFresh'
  BY <1>0 DEF Drop, Goto, verifyVars, fileVars, IndInv, TypeOK, WriterIsFresh
<1>10. PendingIsExpected'
  BY <1>0 DEF Drop, Goto, verifyVars, fileVars, IndInv, TypeOK, PendingIsExpected, Pending, Expected
<1>11. SavedWhenAlone'
  BY <1>0 DEF Drop, Goto, verifyVars, fileVars, IndInv, TypeOK, SavedWhenAlone, Pending, Expected
<1> QED
  BY <1>1, <1>2, <1>3, <1>4, <1>5, <1>6, <1>7, <1>8, <1>9, <1>10, <1>11 DEF IndInv

\* A server that changes its key changes nothing in the plugin: the key of a
\* connection is the one of its handshake.
LEMMA ChangeKeyKeeps ==
  ASSUME IndInv, NEW s \in Servers, NEW k \in Keys, ChangeKey(s, k)
  PROVE  IndInv'
<1>1. TypeOK'
  BY DEF ChangeKey, verifyVars, fileVars, IndInv, TypeOK
<1>2. UNCHANGED <<pc, server, key, accepted, verifyVars, fileVars>>
  BY DEF ChangeKey
<1>3. /\ ServerIsKnown' /\ OnlySaved' /\ PendingIsAccepted' /\ TrustIsEarned'
  BY <1>2 DEF verifyVars, fileVars, IndInv, ServerIsKnown, OnlySaved,
              PendingIsAccepted, TrustIsEarned, Pending
<1>4. QuestionFits' /\ FreshCopy' /\ WriterSpoils' /\ WriterIsFresh'
  BY <1>2 DEF verifyVars, fileVars, IndInv, QuestionFits, FreshCopy, WriterSpoils,
              WriterIsFresh, Verifying, knownhost_check, Bad, Same
<1>5. PendingIsExpected' /\ SavedWhenAlone'
  BY <1>2 DEF verifyVars, fileVars, IndInv, PendingIsExpected, SavedWhenAlone,
              Pending, Expected
<1> QED
  BY <1>1, <1>3, <1>4, <1>5 DEF IndInv

\* A step of nobody.
LEMMA StutterKeeps ==
  ASSUME IndInv, UNCHANGED vars
  PROVE  IndInv'
<1>1. TypeOK' /\ ServerIsKnown' /\ OnlySaved' /\ PendingIsAccepted' /\ TrustIsEarned'
  BY DEF vars, fileVars, IndInv, TypeOK, ServerIsKnown, OnlySaved,
         PendingIsAccepted, TrustIsEarned, Pending
<1>2. QuestionFits' /\ FreshCopy' /\ WriterSpoils' /\ WriterIsFresh'
  BY DEF vars, fileVars, IndInv, QuestionFits, FreshCopy, WriterSpoils,
         WriterIsFresh, Verifying, knownhost_check, Bad, Same
<1>3. PendingIsExpected' /\ SavedWhenAlone'
  BY DEF vars, fileVars, IndInv, PendingIsExpected, SavedWhenAlone, Pending, Expected
<1> QED
  BY <1>1, <1>2, <1>3 DEF IndInv

\* An empty file, and no connection: nothing is expected in the file.
LEMMA InitHolds ==
  ASSUME Init
  PROVE  IndInv
<1>1. TypeOK
  BY ConnectionAssumption DEF Init, TypeOK, PCs
<1>2. ServerIsKnown /\ OnlySaved /\ PendingIsAccepted /\ TrustIsEarned /\ QuestionFits
  BY DEF Init, ServerIsKnown, OnlySaved, PendingIsAccepted, TrustIsEarned,
         QuestionFits, Pending
<1>3. FreshCopy /\ WriterSpoils /\ WriterIsFresh /\ PendingIsExpected
  BY DEF Init, FreshCopy, WriterSpoils, WriterIsFresh, PendingIsExpected,
         Pending, Verifying
<1>4. Expected = {}
  <2>1. \A l \in Lines : l.key \in Keys /\ <<l.host, TypeOf[l.key]>> \in Hosts \X Types
    BY DEF Lines, Types
  <2>2. \A l \in Lines : lastSaved[<<l.host, TypeOf[l.key]>>] = None
    BY <2>1 DEF Init
  <2> QED
    BY <2>1, <2>2, ConnectionAssumption DEF Expected, None, ConnectionAssumption
<1> QED
  BY <1>1, <1>2, <1>3, <1>4 DEF Init, IndInv, SavedWhenAlone

\* The inductive invariant holds in every state, for any number of connections,
\* servers, hosts and keys.
THEOREM Invariance == Spec => []IndInv
<1>1. Init => IndInv
  BY InitHolds
<1>2. IndInv /\ [Next]_vars => IndInv'
  <2> SUFFICES ASSUME IndInv, [Next]_vars
               PROVE  IndInv'
    OBVIOUS
  <2>1. ASSUME NEW c \in Conns, NEW s \in Servers, Connect(c, s)
        PROVE  IndInv'
    BY <2>1, ConnectKeeps
  <2>2. ASSUME NEW c \in Conns, VerifyHostKey(c)
        PROVE  IndInv'
    BY <2>2, ReadKnownHostsKeeps, RejectKeeps, AcceptOnceKeeps, AcceptAndSaveKeeps,
       OpenForWritingKeeps, WriteFailsKeeps, FlushSomeKeeps, WriteBreaksKeeps,
       CloseFileKeeps
       DEF VerifyHostKey
  <2>3. ASSUME NEW c \in Conns,
               \/ ConnectFails(c) \/ Authenticate(c) \/ Disconnect(c)
               \/ Terminate(c) \/ Drop(c)
        PROVE  IndInv'
    BY <2>3, ConnectFailsKeeps, AuthenticateKeeps, DisconnectKeeps, TerminateKeeps,
       DropKeeps
  <2>4. ASSUME NEW s \in Servers, NEW k \in Keys, ChangeKey(s, k)
        PROVE  IndInv'
    BY <2>4, ChangeKeyKeeps
  <2>5. CASE UNCHANGED vars
    BY <2>5, StutterKeeps
  <2> QED
    BY <2>1, <2>2, <2>3, <2>4, <2>5 DEF Next
<1> QED
  BY <1>1, <1>2, PTL DEF Spec

\* The variables keep their types, for any number of connections.
THEOREM TypeCorrect == Spec => []TypeOK
<1>1. IndInv => TypeOK
  BY DEF IndInv
<1> QED
  BY <1>1, Invariance, PTL

\* No password is sent to a server whose key the user has not accepted, whatever
\* the connections do to known_hosts (Connect, VerifyHostKey).
THEOREM OnlyTrustedServers == Spec => []TrustIsEarned
<1>1. IndInv => TrustIsEarned
  BY DEF IndInv
<1> QED
  BY <1>1, Invariance, PTL

\* Without interference known_hosts holds, for each host and key type, the key of
\* the last answer Yes (VerifyHostKey, libssh2_knownhost_writefile).
THEOREM UndisturbedFileIsRight == Spec => []SavedWhenAlone
<1>1. IndInv => SavedWhenAlone
  BY DEF IndInv
<1> QED
  BY <1>1, Invariance, PTL

=============================================================================
