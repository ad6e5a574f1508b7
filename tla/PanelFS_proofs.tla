--------------------------- MODULE PanelFS_proofs ---------------------------
(***************************************************************************)
(* Theorems about PanelFS, for any number of file systems, servers and     *)
(* names, and paths of any depth.                                          *)
(***************************************************************************)
EXTENDS PanelFS, SequenceTheorems, TLAPS

-----------------------------------------------------------------------------
(* The inductive invariant                                                 *)

\* A call is made on a file system, and the data of the Connect dialog are only
\* there during a call.
CallIsMade ==
  /\ pc # "idle" => cur \in FSs
  /\ pc = "idle" => useConnectData = None

\* An open file system has a path, unless it is the one being called; when it
\* is listed, its path is the one ChangePath came to.
OpenHasPath ==
  /\ \A f \in FSs : place[f] # "closed" /\ path[f] = NoPath => pc # "idle" /\ f = cur
  /\ pc \in {"list", "relist"} => path[cur] = arg

\* While a call has data of the Connect dialog, the file system called is a new
\* one, or has already taken them over.
DialogIsServed == useConnectData # None => profile[cur] \in {None, useConnectData}

\* The name to focus is the one that was cut off the path ChangePath began with.
FocusFits ==
  /\ pc = "change" => cutFileName = None
  /\ pc \in {"trim", "list"} /\ cutFileName # None => asked = Append(arg, cutFileName)

IndInv ==
  /\ TypeOK
  /\ CallIsMade
  /\ OpenHasPath
  /\ DialogIsServed
  /\ FocusFits
  /\ SessionIsOfProfile
  /\ KeptAlive

-----------------------------------------------------------------------------
(* Paths                                                                   *)

\* A path is a sequence of names that is not too long, and never NoPath.
LEMMA PathIs ==
  ASSUME NEW p \in Paths
  PROVE  p \in Seq(Names) /\ Len(p) \in 0 .. MaxDepth /\ p # NoPath
<1>1. PICK m \in 0 .. MaxDepth : p \in [1 .. m -> Names]
  BY DEF Paths, BoundedSeq, SeqOf
<1>2. m \in Nat
  BY PanelAssumption
<1>3. p \in Seq(Names) /\ Len(p) = m
  BY <1>1, <1>2
<1>4. p # NoPath
  <2>1. SUFFICES ASSUME p = NoPath PROVE FALSE
    OBVIOUS
  <2>2. Len(p) = 1 /\ p[1] = None
    BY <2>1 DEF NoPath
  <2> QED
    BY <1>1, <1>2, <1>3, <2>2, PanelAssumption DEF None
<1> QED
  BY <1>1, <1>3, <1>4

\* A sequence of names that is short enough is a path.
LEMMA IsPath ==
  ASSUME NEW p \in Seq(Names), Len(p) <= MaxDepth
  PROVE  p \in Paths
<1>1. Len(p) \in 0 .. MaxDepth /\ p \in [1 .. Len(p) -> Names]
  BY PanelAssumption
<1> QED
  BY <1>1 DEF Paths, BoundedSeq, SeqOf

\* The root is a path.
LEMMA RootIsPath == <<>> \in Paths
<1>1. <<>> \in Seq(Names) /\ Len(<<>>) = 0
  OBVIOUS
<1>2. Len(<<>>) <= MaxDepth
  BY <1>1, PanelAssumption
<1> QED
  BY <1>1, <1>2, IsPath

\* The parent of a path, and the name that leads back.
LEMMA ParentIsPath ==
  ASSUME NEW p \in Paths, p # <<>>
  PROVE  /\ Front(p) \in Paths /\ Last(p) \in Names
         /\ p = Append(Front(p), Last(p))
<1>1. p \in Seq(Names) /\ Len(p) \in Nat \ {0} /\ Len(p) <= MaxDepth /\ MaxDepth \in Nat
  BY PathIs, EmptySeq, PanelAssumption
<1>2. PICK q \in Seq(Names), n \in Names : p = Append(q, n)
  BY <1>1, SequenceEmptyOrAppend
<1>3. /\ Len(p) = Len(q) + 1 /\ Len(q) \in Nat
      /\ \A i \in 1 .. Len(q) : p[i] = q[i]
      /\ p[Len(q) + 1] = n
  BY <1>2, AppendProperties
<1>4. Last(p) = n
  BY <1>3 DEF Last
<1>5. Front(p) = q
  <2>1. Front(p) = SubSeq(p, 1, Len(q))
    BY <1>3 DEF Front
  <2>2. \A i \in 1 .. Len(q) : p[i] \in Names
    BY <1>3
  <2>3. /\ Front(p) \in Seq(Names) /\ Len(Front(p)) = Len(q)
        /\ \A i \in 1 .. Len(q) : Front(p)[i] = p[i]
    BY <1>3, <2>1, <2>2, SubSeqProperties
  <2> QED
    BY <1>3, <2>3, SeqEqual
<1>6. q \in Paths
  BY <1>1, <1>3, IsPath
<1> QED
  BY <1>2, <1>4, <1>5, <1>6

\* The open file system that is called has a path to be listed again.
LEMMA ListedIsPath ==
  ASSUME IndInv, pc \in {"list", "relist"}
  PROVE  cur \in FSs /\ path[cur] \in Paths /\ path[cur] # NoPath
BY PathIs DEF IndInv, TypeOK, CallIsMade, OpenHasPath

\* SftpEnsureConnected leaves the session, one with the profile's server, or none.
LEMMA EnsureConnectedIs ==
  ASSUME TypeOK, NEW f \in FSs, NEW session \in Servers \cup {None},
         NEW s \in Servers \cup {None}, NEW ok \in BOOLEAN, EnsureConnected(f, session, s, ok)
  PROVE  /\ conn' \in [FSs -> Servers \cup {None}] /\ alive' \in [FSs -> BOOLEAN]
         /\ \A g \in FSs \ {f} : conn'[g] = conn[g]
         /\ conn'[f] \in {None, session, s}
<1>1. CASE session # None /\ alive[f]
  BY <1>1 DEF EnsureConnected, TypeOK
<1>2. CASE ~(session # None /\ alive[f])
  <2>1. /\ conn' = [conn EXCEPT ![f] = IF ok THEN s ELSE None]
        /\ alive' = [alive EXCEPT ![f] = ok]
    BY <1>2 DEF EnsureConnected
  <2>2. alive' \in [FSs -> BOOLEAN]
    BY <2>1, Zenon DEF TypeOK
  <2> QED
    BY <2>1, <2>2 DEF TypeOK
<1> QED
  BY <1>1, <1>2

\* A fresh file system has its types.
LEMMA FreshIs ==
  ASSUME TypeOK, NEW f \in FSs, NEW where \in {"closed", "panel", "detached"}, Fresh(f, where)
  PROVE  /\ place' \in [FSs -> {"closed", "panel", "detached"}]
         /\ profile' \in [FSs -> Servers \cup {None}]
         /\ conn' \in [FSs -> Servers \cup {None}]
         /\ alive' \in [FSs -> BOOLEAN]
         /\ path' \in [FSs -> Paths \cup {NoPath}]
         /\ pathError' \in [FSs -> BOOLEAN]
         /\ fatalError' \in [FSs -> BOOLEAN]
         /\ timers' \in [FSs -> 0 .. MaxTimers]
BY PanelAssumption DEF TypeOK, Fresh

-----------------------------------------------------------------------------
(* Every step preserves the invariant                                      *)

\* FatalError is reported.
LEMMA ChangePathFatalKeeps ==
  ASSUME IndInv, ChangePathFatal
  PROVE  IndInv'
<1>1. TypeOK'
  BY PanelAssumption, RootIsPath DEF IndInv, TypeOK, CallIsMade, ChangePathFatal, fsVars, callVars
<1>2. CallIsMade'
  BY PanelAssumption DEF IndInv, TypeOK, CallIsMade, ChangePathFatal, fsVars, callVars
<1>3. OpenHasPath'
  BY PanelAssumption DEF IndInv, TypeOK, CallIsMade, OpenHasPath, ChangePathFatal, fsVars, callVars
<1>4. DialogIsServed'
  BY PanelAssumption DEF IndInv, TypeOK, CallIsMade, DialogIsServed, ChangePathFatal, fsVars, callVars
<1>5. FocusFits'
  BY PanelAssumption DEF IndInv, TypeOK, CallIsMade, FocusFits, ChangePathFatal, fsVars, callVars
<1>6. SessionIsOfProfile'
  BY PanelAssumption DEF IndInv, TypeOK, CallIsMade, SessionIsOfProfile, ChangePathFatal, fsVars, callVars
<1>7. KeptAlive'
  BY PanelAssumption DEF IndInv, TypeOK, CallIsMade, KeptAlive, ChangePathFatal, fsVars, callVars
<1> QED
  BY <1>1, <1>2, <1>3, <1>4, <1>5, <1>6, <1>7 DEF IndInv

\* There is no connection.
LEMMA ChangePathOfflineKeeps ==
  ASSUME IndInv, ChangePathOffline
  PROVE  IndInv'
<1>1. TypeOK'
  BY PanelAssumption, RootIsPath DEF IndInv, TypeOK, CallIsMade, ChangePathOffline, NewServer, SessionLeft, EnsureConnected, fsVars, callVars
<1>2. CallIsMade'
  BY PanelAssumption DEF IndInv, TypeOK, CallIsMade, ChangePathOffline, NewServer, SessionLeft, EnsureConnected, fsVars, callVars
<1>3. OpenHasPath'
  BY PanelAssumption DEF IndInv, TypeOK, CallIsMade, OpenHasPath, ChangePathOffline, NewServer, SessionLeft, EnsureConnected, fsVars, callVars
<1>4. DialogIsServed'
  BY PanelAssumption DEF IndInv, TypeOK, CallIsMade, DialogIsServed, ChangePathOffline, NewServer, SessionLeft, EnsureConnected, fsVars, callVars
<1>5. FocusFits'
  BY PanelAssumption DEF IndInv, TypeOK, CallIsMade, FocusFits, ChangePathOffline, NewServer, SessionLeft, EnsureConnected, fsVars, callVars
<1>6. SessionIsOfProfile'
  <2>1. /\ cur \in FSs /\ NewServer(cur) \in Servers \cup {None}
        /\ SessionLeft(cur) \in Servers \cup {None}
        /\ profile' = [profile EXCEPT ![cur] = NewServer(cur)]
    BY DEF IndInv, TypeOK, CallIsMade, NewServer, SessionLeft, ChangePathOffline
  <2>2. /\ \A g \in FSs \ {cur} : conn'[g] = conn[g]
        /\ conn'[cur] \in {None, SessionLeft(cur), NewServer(cur)}
    BY <2>1, EnsureConnectedIs DEF IndInv, ChangePathOffline
  <2>3. SessionLeft(cur) \in {None, NewServer(cur)}
    <3>1. CASE useConnectData # None
      BY <2>1, <3>1 DEF IndInv, SessionIsOfProfile, DialogIsServed, SessionLeft, NewServer
    <3>2. CASE useConnectData = None
      BY <2>1, <3>2 DEF IndInv, SessionIsOfProfile, SessionLeft, NewServer
    <3> QED
      BY <3>1, <3>2
  <2> QED
    BY <2>1, <2>2, <2>3 DEF IndInv, TypeOK, SessionIsOfProfile
<1>7. KeptAlive'
  BY PanelAssumption DEF IndInv, TypeOK, CallIsMade, KeptAlive, ChangePathOffline, NewServer, SessionLeft, EnsureConnected, fsVars, callVars
<1> QED
  BY <1>1, <1>2, <1>3, <1>4, <1>5, <1>6, <1>7 DEF IndInv

\* There is a connection.
LEMMA ChangePathOnlineKeeps ==
  ASSUME IndInv, ChangePathOnline
  PROVE  IndInv'
<1>1. TypeOK'
  <2>1. cur \in FSs /\ NewServer(cur) \in Servers \cup {None}
        /\ SessionLeft(cur) \in Servers \cup {None}
    BY DEF IndInv, TypeOK, CallIsMade, NewServer, SessionLeft, ChangePathOnline
  <2>2. conn' \in [FSs -> Servers \cup {None}] /\ alive' \in [FSs -> BOOLEAN]
    BY <2>1, EnsureConnectedIs DEF IndInv, ChangePathOnline
  <2>3. arg' \in Paths /\ asked' \in Paths
    BY ParentIsPath DEF IndInv, TypeOK, ChangePathOnline
  <2>4. pathError' \in [FSs -> BOOLEAN]
    BY Zenon DEF IndInv, TypeOK, ChangePathOnline
  <2>5. profile' \in [FSs -> Servers \cup {None}]
    BY <2>1 DEF IndInv, TypeOK, ChangePathOnline
  <2>6. pc' \in {"trim", "failed"}
    BY DEF ChangePathOnline
  <2> QED
    BY <2>2, <2>3, <2>4, <2>5, <2>6 DEF IndInv, TypeOK, ChangePathOnline
<1>2. CallIsMade'
  BY PanelAssumption DEF IndInv, TypeOK, CallIsMade, ChangePathOnline, NewServer, SessionLeft, EnsureConnected, fsVars, callVars
<1>3. OpenHasPath'
  BY PanelAssumption DEF IndInv, TypeOK, CallIsMade, OpenHasPath, ChangePathOnline, NewServer, SessionLeft, EnsureConnected, fsVars, callVars
<1>4. DialogIsServed'
  BY PanelAssumption DEF IndInv, TypeOK, CallIsMade, DialogIsServed, ChangePathOnline, NewServer, SessionLeft, EnsureConnected, fsVars, callVars
<1>5. FocusFits'
  BY PanelAssumption DEF IndInv, TypeOK, CallIsMade, FocusFits, ChangePathOnline, NewServer, SessionLeft, EnsureConnected, fsVars, callVars
<1>6. SessionIsOfProfile'
  <2>1. /\ cur \in FSs /\ NewServer(cur) \in Servers \cup {None}
        /\ SessionLeft(cur) \in Servers \cup {None}
        /\ profile' = [profile EXCEPT ![cur] = NewServer(cur)]
    BY DEF IndInv, TypeOK, CallIsMade, NewServer, SessionLeft, ChangePathOnline
  <2>2. /\ \A g \in FSs \ {cur} : conn'[g] = conn[g]
        /\ conn'[cur] \in {None, SessionLeft(cur), NewServer(cur)}
    BY <2>1, EnsureConnectedIs DEF IndInv, ChangePathOnline
  <2>3. SessionLeft(cur) \in {None, NewServer(cur)}
    <3>1. CASE useConnectData # None
      BY <2>1, <3>1 DEF IndInv, SessionIsOfProfile, DialogIsServed, SessionLeft, NewServer
    <3>2. CASE useConnectData = None
      BY <2>1, <3>2 DEF IndInv, SessionIsOfProfile, SessionLeft, NewServer
    <3> QED
      BY <3>1, <3>2
  <2> QED
    BY <2>1, <2>2, <2>3 DEF IndInv, TypeOK, SessionIsOfProfile
<1>7. KeptAlive'
  BY PanelAssumption DEF IndInv, TypeOK, CallIsMade, KeptAlive, ChangePathOnline, NewServer, SessionLeft, EnsureConnected, fsVars, callVars
<1> QED
  BY <1>1, <1>2, <1>3, <1>4, <1>5, <1>6, <1>7 DEF IndInv

\* The directory is there.
LEMMA ChangePathArrivesKeeps ==
  ASSUME IndInv, ChangePathArrives
  PROVE  IndInv'
<1>1. TypeOK'
  BY PanelAssumption, RootIsPath DEF IndInv, TypeOK, CallIsMade, ChangePathArrives, Armed, fsVars, callVars
<1>2. CallIsMade'
  BY PanelAssumption DEF IndInv, TypeOK, CallIsMade, ChangePathArrives, Armed, fsVars, callVars
<1>3. OpenHasPath'
  BY PanelAssumption DEF IndInv, TypeOK, CallIsMade, OpenHasPath, ChangePathArrives, Armed, fsVars, callVars
<1>4. DialogIsServed'
  BY PanelAssumption DEF IndInv, TypeOK, CallIsMade, DialogIsServed, ChangePathArrives, Armed, fsVars, callVars
<1>5. FocusFits'
  BY PanelAssumption DEF IndInv, TypeOK, CallIsMade, FocusFits, ChangePathArrives, Armed, fsVars, callVars
<1>6. SessionIsOfProfile'
  BY PanelAssumption DEF IndInv, TypeOK, CallIsMade, SessionIsOfProfile, ChangePathArrives, Armed, fsVars, callVars
<1>7. KeptAlive'
  BY PanelAssumption DEF IndInv, TypeOK, CallIsMade, KeptAlive, ChangePathArrives, Armed, fsVars, callVars
<1> QED
  BY <1>1, <1>2, <1>3, <1>4, <1>5, <1>6, <1>7 DEF IndInv

\* A name is cut off.
LEMMA ChangePathTrimsKeeps ==
  ASSUME IndInv, ChangePathTrims
  PROVE  IndInv'
<1>1. TypeOK'
  <2>1. arg # <<>>
    BY DEF ChangePathTrims
  <2>2. Front(arg) \in Paths /\ Last(arg) \in Names
    BY <2>1, ParentIsPath DEF IndInv, TypeOK
  <2>3. arg' \in Paths /\ cutFileName' \in Names \cup {None}
    BY <2>2 DEF ChangePathTrims
  <2> QED
    BY <2>3 DEF IndInv, TypeOK, ChangePathTrims, fsVars
<1>2. CallIsMade'
  BY PanelAssumption DEF IndInv, TypeOK, CallIsMade, ChangePathTrims, fsVars, callVars
<1>3. OpenHasPath'
  BY PanelAssumption DEF IndInv, TypeOK, CallIsMade, OpenHasPath, ChangePathTrims, fsVars, callVars
<1>4. DialogIsServed'
  BY PanelAssumption DEF IndInv, TypeOK, CallIsMade, DialogIsServed, ChangePathTrims, fsVars, callVars
<1>5. FocusFits'
  <2>1. arg # <<>>
    BY DEF ChangePathTrims
  <2>2. arg = Append(Front(arg), Last(arg))
    BY <2>1, ParentIsPath DEF IndInv, TypeOK
  <2> QED
    BY <2>2 DEF FocusFits, ChangePathTrims
<1>6. SessionIsOfProfile'
  BY PanelAssumption DEF IndInv, TypeOK, CallIsMade, SessionIsOfProfile, ChangePathTrims, fsVars, callVars
<1>7. KeptAlive'
  BY PanelAssumption DEF IndInv, TypeOK, CallIsMade, KeptAlive, ChangePathTrims, fsVars, callVars
<1> QED
  BY <1>1, <1>2, <1>3, <1>4, <1>5, <1>6, <1>7 DEF IndInv

\* There is nothing left to cut.
LEMMA ChangePathGivesUpKeeps ==
  ASSUME IndInv, ChangePathGivesUp
  PROVE  IndInv'
<1>1. TypeOK'
  BY PanelAssumption, RootIsPath DEF IndInv, TypeOK, CallIsMade, ChangePathGivesUp, fsVars, callVars
<1>2. CallIsMade'
  BY PanelAssumption DEF IndInv, TypeOK, CallIsMade, ChangePathGivesUp, fsVars, callVars
<1>3. OpenHasPath'
  BY PanelAssumption DEF IndInv, TypeOK, CallIsMade, OpenHasPath, ChangePathGivesUp, fsVars, callVars
<1>4. DialogIsServed'
  BY PanelAssumption DEF IndInv, TypeOK, CallIsMade, DialogIsServed, ChangePathGivesUp, fsVars, callVars
<1>5. FocusFits'
  BY PanelAssumption DEF IndInv, TypeOK, CallIsMade, FocusFits, ChangePathGivesUp, fsVars, callVars
<1>6. SessionIsOfProfile'
  BY PanelAssumption DEF IndInv, TypeOK, CallIsMade, SessionIsOfProfile, ChangePathGivesUp, fsVars, callVars
<1>7. KeptAlive'
  BY PanelAssumption DEF IndInv, TypeOK, CallIsMade, KeptAlive, ChangePathGivesUp, fsVars, callVars
<1> QED
  BY <1>1, <1>2, <1>3, <1>4, <1>5, <1>6, <1>7 DEF IndInv

\* The first listing.
LEMMA ListCurrentPathKeeps ==
  ASSUME IndInv, ListCurrentPath
  PROVE  IndInv'
<1>1. TypeOK'
  <2>1. cur \in FSs /\ path[cur] \in Paths /\ profile[cur] \in Servers \cup {None}
        /\ conn[cur] \in Servers \cup {None}
    BY ListedIsPath DEF IndInv, TypeOK, ListCurrentPath
  <2>2. PICK ok \in BOOLEAN : EnsureConnected(cur, conn[cur], profile[cur], ok)
    BY DEF ListCurrentPath
  <2>3. conn' \in [FSs -> Servers \cup {None}] /\ alive' \in [FSs -> BOOLEAN]
    BY <2>1, <2>2, EnsureConnectedIs DEF IndInv
  <2>4. ListFails \/ ListIsShown \/ ListRunsOut \/ (pc' = "relist"
          /\ UNCHANGED <<pathError, fatalError, cur, wanted, arg, asked, cutFileName, useConnectData>>)
    BY DEF ListCurrentPath
  <2>5. pathError' \in [FSs -> BOOLEAN] /\ fatalError' \in [FSs -> BOOLEAN]
    BY <2>4, Zenon DEF IndInv, TypeOK, ListFails, ListIsShown, ListRunsOut
  <2>6. /\ arg' \in Paths /\ asked' \in Paths /\ cutFileName' \in Names \cup {None}
        /\ cur' \in FSs \cup {None} /\ wanted' \in Servers \cup {None}
        /\ useConnectData' \in Servers \cup {None}
        /\ pc' \in {"idle", "change", "relist"}
    BY <2>1, <2>4, RootIsPath DEF IndInv, TypeOK, ListFails, ListIsShown, ListRunsOut, CallChangePath, Return
  <2> QED
    BY <2>3, <2>5, <2>6 DEF IndInv, TypeOK, ListCurrentPath
<1>2. CallIsMade'
  BY PanelAssumption DEF IndInv, TypeOK, CallIsMade, ListCurrentPath, EnsureConnected, ListFails, ListIsShown, ListRunsOut, CallChangePath, Return, fsVars, callVars
<1>3. OpenHasPath'
  <2>1. cur \in FSs /\ path[cur] # NoPath
    BY ListedIsPath DEF ListCurrentPath
  <2>2. UNCHANGED <<place, path>> /\ (pc' = "relist" => UNCHANGED <<cur, arg>>) /\ pc' # "list"
    BY DEF ListCurrentPath, ListFails, ListIsShown, ListRunsOut, CallChangePath, Return
  <2>3. pc \in {"list", "relist"}
    BY DEF ListCurrentPath
  <2> QED
    BY <2>1, <2>2, <2>3 DEF IndInv, OpenHasPath
<1>4. DialogIsServed'
  <2>1. UNCHANGED profile /\ (useConnectData' = None \/ UNCHANGED <<useConnectData, cur>>)
    BY DEF ListCurrentPath, ListFails, ListIsShown, ListRunsOut, CallChangePath, Return
  <2> QED
    BY <2>1 DEF IndInv, DialogIsServed
<1>5. FocusFits'
  BY PanelAssumption DEF IndInv, TypeOK, CallIsMade, FocusFits, ListCurrentPath, EnsureConnected, ListFails, ListIsShown, ListRunsOut, CallChangePath, Return, fsVars, callVars
<1>6. SessionIsOfProfile'
  <2>1. cur \in FSs /\ profile[cur] \in Servers \cup {None} /\ conn[cur] \in Servers \cup {None}
    BY ListedIsPath DEF IndInv, TypeOK, ListCurrentPath
  <2>2. PICK ok \in BOOLEAN : EnsureConnected(cur, conn[cur], profile[cur], ok)
    BY DEF ListCurrentPath
  <2>3. /\ \A g \in FSs \ {cur} : conn'[g] = conn[g]
        /\ conn'[cur] \in {None, conn[cur], profile[cur]}
    BY <2>1, <2>2, EnsureConnectedIs DEF IndInv
  <2> QED
    BY <2>1, <2>3 DEF IndInv, SessionIsOfProfile, ListCurrentPath
<1>7. KeptAlive'
  BY PanelAssumption DEF IndInv, TypeOK, CallIsMade, KeptAlive, ListCurrentPath, EnsureConnected, ListFails, ListIsShown, ListRunsOut, CallChangePath, Return, fsVars, callVars
<1> QED
  BY <1>1, <1>2, <1>3, <1>4, <1>5, <1>6, <1>7 DEF IndInv

\* The second listing.
LEMMA ListAgainKeeps ==
  ASSUME IndInv, ListAgain
  PROVE  IndInv'
<1>1. TypeOK'
  <2>1. cur \in FSs /\ path[cur] \in Paths /\ profile[cur] \in Servers \cup {None}
        /\ conn[cur] \in Servers \cup {None}
    BY ListedIsPath DEF IndInv, TypeOK, ListAgain
  <2>2. PICK ok \in BOOLEAN : EnsureConnected(cur, conn[cur], profile[cur], ok)
    BY DEF ListAgain
  <2>3. conn' \in [FSs -> Servers \cup {None}] /\ alive' \in [FSs -> BOOLEAN]
    BY <2>1, <2>2, EnsureConnectedIs DEF IndInv
  <2>4. ListFails \/ ListIsShown \/ ListRunsOut \/ (pc' = "relist"
          /\ UNCHANGED <<pathError, fatalError, cur, wanted, arg, asked, cutFileName, useConnectData>>)
    BY DEF ListAgain
  <2>5. pathError' \in [FSs -> BOOLEAN] /\ fatalError' \in [FSs -> BOOLEAN]
    BY <2>4, Zenon DEF IndInv, TypeOK, ListFails, ListIsShown, ListRunsOut
  <2>6. /\ arg' \in Paths /\ asked' \in Paths /\ cutFileName' \in Names \cup {None}
        /\ cur' \in FSs \cup {None} /\ wanted' \in Servers \cup {None}
        /\ useConnectData' \in Servers \cup {None}
        /\ pc' \in {"idle", "change", "relist"}
    BY <2>1, <2>4, RootIsPath DEF IndInv, TypeOK, ListFails, ListIsShown, ListRunsOut, CallChangePath, Return
  <2> QED
    BY <2>3, <2>5, <2>6 DEF IndInv, TypeOK, ListAgain
<1>2. CallIsMade'
  BY PanelAssumption DEF IndInv, TypeOK, CallIsMade, ListAgain, EnsureConnected, ListFails, ListIsShown, ListRunsOut, CallChangePath, Return, fsVars, callVars
<1>3. OpenHasPath'
  <2>1. cur \in FSs /\ path[cur] # NoPath
    BY ListedIsPath DEF ListAgain
  <2>2. UNCHANGED <<place, path>> /\ (pc' = "relist" => UNCHANGED <<cur, arg>>) /\ pc' # "list"
    BY DEF ListAgain, ListFails, ListIsShown, ListRunsOut, CallChangePath, Return
  <2>3. pc \in {"list", "relist"}
    BY DEF ListAgain
  <2> QED
    BY <2>1, <2>2, <2>3 DEF IndInv, OpenHasPath
<1>4. DialogIsServed'
  <2>1. UNCHANGED profile /\ (useConnectData' = None \/ UNCHANGED <<useConnectData, cur>>)
    BY DEF ListAgain, ListFails, ListIsShown, ListRunsOut, CallChangePath, Return
  <2> QED
    BY <2>1 DEF IndInv, DialogIsServed
<1>5. FocusFits'
  BY PanelAssumption DEF IndInv, TypeOK, CallIsMade, FocusFits, ListAgain, EnsureConnected, ListFails, ListIsShown, ListRunsOut, CallChangePath, Return, fsVars, callVars
<1>6. SessionIsOfProfile'
  <2>1. cur \in FSs /\ profile[cur] \in Servers \cup {None} /\ conn[cur] \in Servers \cup {None}
    BY ListedIsPath DEF IndInv, TypeOK, ListAgain
  <2>2. PICK ok \in BOOLEAN : EnsureConnected(cur, conn[cur], profile[cur], ok)
    BY DEF ListAgain
  <2>3. /\ \A g \in FSs \ {cur} : conn'[g] = conn[g]
        /\ conn'[cur] \in {None, conn[cur], profile[cur]}
    BY <2>1, <2>2, EnsureConnectedIs DEF IndInv
  <2> QED
    BY <2>1, <2>3 DEF IndInv, SessionIsOfProfile, ListAgain
<1>7. KeptAlive'
  BY PanelAssumption DEF IndInv, TypeOK, CallIsMade, KeptAlive, ListAgain, EnsureConnected, ListFails, ListIsShown, ListRunsOut, CallChangePath, Return, fsVars, callVars
<1> QED
  BY <1>1, <1>2, <1>3, <1>4, <1>5, <1>6, <1>7 DEF IndInv

\* The panel stays or is closed.
LEMMA AfterFailureKeeps ==
  ASSUME IndInv, AfterFailure
  PROVE  IndInv'
<1>1. TypeOK'
  <2>1. cur \in FSs
    BY DEF IndInv, CallIsMade, AfterFailure
  <2>2. /\ place' \in [FSs -> {"closed", "panel", "detached"}]
        /\ profile' \in [FSs -> Servers \cup {None}]
        /\ conn' \in [FSs -> Servers \cup {None}]
        /\ alive' \in [FSs -> BOOLEAN]
        /\ path' \in [FSs -> Paths \cup {NoPath}]
        /\ pathError' \in [FSs -> BOOLEAN]
        /\ fatalError' \in [FSs -> BOOLEAN]
        /\ timers' \in [FSs -> 0 .. MaxTimers]
    <3>1. CASE Fresh(cur, "closed")
      BY <2>1, <3>1, FreshIs DEF IndInv
    <3>2. CASE UNCHANGED fsVars
      BY <3>2 DEF IndInv, TypeOK, fsVars
    <3> QED
      BY <3>1, <3>2 DEF AfterFailure
  <2> QED
    BY <2>2, RootIsPath DEF TypeOK, AfterFailure, Return
<1>2. CallIsMade'
  BY PanelAssumption DEF IndInv, TypeOK, CallIsMade, AfterFailure, Fresh, Return, fsVars, callVars
<1>3. OpenHasPath'
  BY PanelAssumption DEF IndInv, TypeOK, CallIsMade, OpenHasPath, AfterFailure, Fresh, Return, fsVars, callVars
<1>4. DialogIsServed'
  BY PanelAssumption DEF IndInv, TypeOK, CallIsMade, DialogIsServed, AfterFailure, Fresh, Return, fsVars, callVars
<1>5. FocusFits'
  BY PanelAssumption DEF IndInv, TypeOK, CallIsMade, FocusFits, AfterFailure, Fresh, Return, fsVars, callVars
<1>6. SessionIsOfProfile'
  BY PanelAssumption DEF IndInv, TypeOK, CallIsMade, SessionIsOfProfile, AfterFailure, Fresh, Return, fsVars, callVars
<1>7. KeptAlive'
  BY PanelAssumption DEF IndInv, TypeOK, CallIsMade, KeptAlive, AfterFailure, Fresh, Return, fsVars, callVars
<1> QED
  BY <1>1, <1>2, <1>3, <1>4, <1>5, <1>6, <1>7 DEF IndInv

\* A path is asked for.
LEMMA GoToKeeps ==
  ASSUME IndInv, NEW f \in FSs, NEW s \in Servers \cup {None}, NEW p \in Paths,
         NEW data \in Servers \cup {None}, GoTo(f, s, p, data)
  PROVE  IndInv'
<1>1. TypeOK'
  <2>1. /\ place' \in [FSs -> {"closed", "panel", "detached"}]
        /\ profile' \in [FSs -> Servers \cup {None}]
        /\ conn' \in [FSs -> Servers \cup {None}]
        /\ alive' \in [FSs -> BOOLEAN]
        /\ path' \in [FSs -> Paths \cup {NoPath}]
        /\ pathError' \in [FSs -> BOOLEAN]
        /\ fatalError' \in [FSs -> BOOLEAN]
        /\ timers' \in [FSs -> 0 .. MaxTimers]
    <3>1. CASE Fresh(f, "panel")
      BY <3>1, FreshIs DEF IndInv
    <3>2. CASE UNCHANGED fsVars
      BY <3>2 DEF IndInv, TypeOK, fsVars
    <3> QED
      BY <3>1, <3>2 DEF GoTo
  <2> QED
    BY <2>1 DEF TypeOK, GoTo, CallChangePath
<1>2. CallIsMade'
  BY PanelAssumption DEF IndInv, TypeOK, CallIsMade, GoTo, Fresh, CallChangePath, InPanel, IsOurPath, fsVars, callVars
<1>3. OpenHasPath'
  BY PanelAssumption DEF IndInv, TypeOK, CallIsMade, OpenHasPath, GoTo, Fresh, CallChangePath, InPanel, IsOurPath, fsVars, callVars
<1>4. DialogIsServed'
  BY PanelAssumption DEF IndInv, TypeOK, CallIsMade, DialogIsServed, GoTo, Fresh, CallChangePath, InPanel, IsOurPath, fsVars, callVars
<1>5. FocusFits'
  BY PanelAssumption DEF IndInv, TypeOK, CallIsMade, FocusFits, GoTo, Fresh, CallChangePath, InPanel, IsOurPath, fsVars, callVars
<1>6. SessionIsOfProfile'
  BY PanelAssumption DEF IndInv, TypeOK, CallIsMade, SessionIsOfProfile, GoTo, Fresh, CallChangePath, InPanel, IsOurPath, fsVars, callVars
<1>7. KeptAlive'
  BY PanelAssumption DEF IndInv, TypeOK, CallIsMade, KeptAlive, GoTo, Fresh, CallChangePath, InPanel, IsOurPath, fsVars, callVars
<1> QED
  BY <1>1, <1>2, <1>3, <1>4, <1>5, <1>6, <1>7 DEF IndInv

\* The panel is closed.
LEMMA LeaveAndCloseKeeps ==
  ASSUME IndInv, NEW f \in FSs, LeaveAndClose(f)
  PROVE  IndInv'
<1>1. TypeOK'
  BY PanelAssumption, RootIsPath DEF IndInv, TypeOK, CallIsMade, LeaveAndClose, Fresh, InPanel, fsVars, callVars
<1>2. CallIsMade'
  BY PanelAssumption DEF IndInv, TypeOK, CallIsMade, LeaveAndClose, Fresh, InPanel, fsVars, callVars
<1>3. OpenHasPath'
  BY PanelAssumption DEF IndInv, TypeOK, CallIsMade, OpenHasPath, LeaveAndClose, Fresh, InPanel, fsVars, callVars
<1>4. DialogIsServed'
  BY PanelAssumption DEF IndInv, TypeOK, CallIsMade, DialogIsServed, LeaveAndClose, Fresh, InPanel, fsVars, callVars
<1>5. FocusFits'
  BY PanelAssumption DEF IndInv, TypeOK, CallIsMade, FocusFits, LeaveAndClose, Fresh, InPanel, fsVars, callVars
<1>6. SessionIsOfProfile'
  BY PanelAssumption DEF IndInv, TypeOK, CallIsMade, SessionIsOfProfile, LeaveAndClose, Fresh, InPanel, fsVars, callVars
<1>7. KeptAlive'
  BY PanelAssumption DEF IndInv, TypeOK, CallIsMade, KeptAlive, LeaveAndClose, Fresh, InPanel, fsVars, callVars
<1> QED
  BY <1>1, <1>2, <1>3, <1>4, <1>5, <1>6, <1>7 DEF IndInv

\* The panel's file system is detached.
LEMMA LeaveAndDetachKeeps ==
  ASSUME IndInv, NEW f \in FSs, LeaveAndDetach(f)
  PROVE  IndInv'
<1>1. TypeOK'
  BY PanelAssumption, RootIsPath DEF IndInv, TypeOK, CallIsMade, LeaveAndDetach, InPanel, fsVars, callVars
<1>2. CallIsMade'
  BY PanelAssumption DEF IndInv, TypeOK, CallIsMade, LeaveAndDetach, InPanel, fsVars, callVars
<1>3. OpenHasPath'
  BY PanelAssumption DEF IndInv, TypeOK, CallIsMade, OpenHasPath, LeaveAndDetach, InPanel, fsVars, callVars
<1>4. DialogIsServed'
  BY PanelAssumption DEF IndInv, TypeOK, CallIsMade, DialogIsServed, LeaveAndDetach, InPanel, fsVars, callVars
<1>5. FocusFits'
  BY PanelAssumption DEF IndInv, TypeOK, CallIsMade, FocusFits, LeaveAndDetach, InPanel, fsVars, callVars
<1>6. SessionIsOfProfile'
  BY PanelAssumption DEF IndInv, TypeOK, CallIsMade, SessionIsOfProfile, LeaveAndDetach, InPanel, fsVars, callVars
<1>7. KeptAlive'
  BY PanelAssumption DEF IndInv, TypeOK, CallIsMade, KeptAlive, LeaveAndDetach, InPanel, fsVars, callVars
<1> QED
  BY <1>1, <1>2, <1>3, <1>4, <1>5, <1>6, <1>7 DEF IndInv

\* It comes back.
LEMMA AttachKeeps ==
  ASSUME IndInv, NEW f \in FSs, Attach(f)
  PROVE  IndInv'
<1>1. TypeOK'
  <2>1. path[f] \in Paths
    BY DEF IndInv, TypeOK, OpenHasPath, Attach
  <2>2. place' \in [FSs -> {"closed", "panel", "detached"}]
    BY DEF IndInv, TypeOK, Attach
  <2> QED
    BY <2>1, <2>2 DEF IndInv, TypeOK, Attach, CallChangePath
<1>2. CallIsMade'
  BY PanelAssumption DEF IndInv, TypeOK, CallIsMade, Attach, CallChangePath, fsVars, callVars
<1>3. OpenHasPath'
  BY PanelAssumption DEF IndInv, TypeOK, CallIsMade, OpenHasPath, Attach, CallChangePath, fsVars, callVars
<1>4. DialogIsServed'
  BY PanelAssumption DEF IndInv, TypeOK, CallIsMade, DialogIsServed, Attach, CallChangePath, fsVars, callVars
<1>5. FocusFits'
  BY PanelAssumption DEF IndInv, TypeOK, CallIsMade, FocusFits, Attach, CallChangePath, fsVars, callVars
<1>6. SessionIsOfProfile'
  BY PanelAssumption DEF IndInv, TypeOK, CallIsMade, SessionIsOfProfile, Attach, CallChangePath, fsVars, callVars
<1>7. KeptAlive'
  BY PanelAssumption DEF IndInv, TypeOK, CallIsMade, KeptAlive, Attach, CallChangePath, fsVars, callVars
<1> QED
  BY <1>1, <1>2, <1>3, <1>4, <1>5, <1>6, <1>7 DEF IndInv

\* It is closed in the background.
LEMMA CloseDetachedKeeps ==
  ASSUME IndInv, NEW f \in FSs, CloseDetached(f)
  PROVE  IndInv'
<1>1. TypeOK'
  BY PanelAssumption, RootIsPath DEF IndInv, TypeOK, CallIsMade, CloseDetached, Fresh, fsVars, callVars
<1>2. CallIsMade'
  BY PanelAssumption DEF IndInv, TypeOK, CallIsMade, CloseDetached, Fresh, fsVars, callVars
<1>3. OpenHasPath'
  BY PanelAssumption DEF IndInv, TypeOK, CallIsMade, OpenHasPath, CloseDetached, Fresh, fsVars, callVars
<1>4. DialogIsServed'
  BY PanelAssumption DEF IndInv, TypeOK, CallIsMade, DialogIsServed, CloseDetached, Fresh, fsVars, callVars
<1>5. FocusFits'
  BY PanelAssumption DEF IndInv, TypeOK, CallIsMade, FocusFits, CloseDetached, Fresh, fsVars, callVars
<1>6. SessionIsOfProfile'
  BY PanelAssumption DEF IndInv, TypeOK, CallIsMade, SessionIsOfProfile, CloseDetached, Fresh, fsVars, callVars
<1>7. KeptAlive'
  BY PanelAssumption DEF IndInv, TypeOK, CallIsMade, KeptAlive, CloseDetached, Fresh, fsVars, callVars
<1> QED
  BY <1>1, <1>2, <1>3, <1>4, <1>5, <1>6, <1>7 DEF IndInv

\* The timer fires.
LEMMA TimerFiresKeeps ==
  ASSUME IndInv, NEW f \in FSs, TimerFires(f)
  PROVE  IndInv'
<1>1. TypeOK'
  BY PanelAssumption, RootIsPath DEF IndInv, TypeOK, CallIsMade, TimerFires, fsVars, callVars
<1>2. CallIsMade'
  BY PanelAssumption DEF IndInv, TypeOK, CallIsMade, TimerFires, fsVars, callVars
<1>3. OpenHasPath'
  BY PanelAssumption DEF IndInv, TypeOK, CallIsMade, OpenHasPath, TimerFires, fsVars, callVars
<1>4. DialogIsServed'
  BY PanelAssumption DEF IndInv, TypeOK, CallIsMade, DialogIsServed, TimerFires, fsVars, callVars
<1>5. FocusFits'
  BY PanelAssumption DEF IndInv, TypeOK, CallIsMade, FocusFits, TimerFires, fsVars, callVars
<1>6. SessionIsOfProfile'
  BY PanelAssumption DEF IndInv, TypeOK, CallIsMade, SessionIsOfProfile, TimerFires, fsVars, callVars
<1>7. KeptAlive'
  BY PanelAssumption DEF IndInv, TypeOK, CallIsMade, KeptAlive, TimerFires, fsVars, callVars
<1> QED
  BY <1>1, <1>2, <1>3, <1>4, <1>5, <1>6, <1>7 DEF IndInv

\* The peer goes away.
LEMMA DropKeeps ==
  ASSUME IndInv, NEW f \in FSs, Drop(f)
  PROVE  IndInv'
<1>1. TypeOK'
  BY PanelAssumption, RootIsPath DEF IndInv, TypeOK, CallIsMade, Drop, fsVars, callVars
<1>2. CallIsMade'
  BY PanelAssumption DEF IndInv, TypeOK, CallIsMade, Drop, fsVars, callVars
<1>3. OpenHasPath'
  BY PanelAssumption DEF IndInv, TypeOK, CallIsMade, OpenHasPath, Drop, fsVars, callVars
<1>4. DialogIsServed'
  BY PanelAssumption DEF IndInv, TypeOK, CallIsMade, DialogIsServed, Drop, fsVars, callVars
<1>5. FocusFits'
  BY PanelAssumption DEF IndInv, TypeOK, CallIsMade, FocusFits, Drop, fsVars, callVars
<1>6. SessionIsOfProfile'
  BY PanelAssumption DEF IndInv, TypeOK, CallIsMade, SessionIsOfProfile, Drop, fsVars, callVars
<1>7. KeptAlive'
  BY PanelAssumption DEF IndInv, TypeOK, CallIsMade, KeptAlive, Drop, fsVars, callVars
<1> QED
  BY <1>1, <1>2, <1>3, <1>4, <1>5, <1>6, <1>7 DEF IndInv

-----------------------------------------------------------------------------
(* The theorems                                                            *)

\* No file system is open.
LEMMA InitHolds ==
  ASSUME Init
  PROVE  IndInv
<1>1. TypeOK
  BY PanelAssumption, RootIsPath DEF Init, TypeOK
<1>2. CallIsMade /\ OpenHasPath /\ DialogIsServed /\ FocusFits
  BY DEF Init, CallIsMade, OpenHasPath, DialogIsServed, FocusFits
<1>3. SessionIsOfProfile /\ KeptAlive
  BY DEF Init, SessionIsOfProfile, KeptAlive
<1> QED
  BY <1>1, <1>2, <1>3 DEF IndInv

\* No call of Salamander and nothing the user or the peer does breaks it.
LEMMA NextKeeps ==
  ASSUME IndInv, [Next]_vars
  PROVE  IndInv'
<1>1. CASE Calls
  BY <1>1, ChangePathFatalKeeps, ChangePathOfflineKeeps, ChangePathOnlineKeeps,
     ChangePathArrivesKeeps, ChangePathTrimsKeeps, ChangePathGivesUpKeeps,
     ListCurrentPathKeeps, ListAgainKeeps, AfterFailureKeeps DEF Calls
<1>2. ASSUME NEW f \in FSs,
             LeaveAndClose(f) \/ LeaveAndDetach(f) \/ Attach(f)
             \/ CloseDetached(f) \/ TimerFires(f) \/ Drop(f)
      PROVE  IndInv'
  BY <1>2, LeaveAndCloseKeeps, LeaveAndDetachKeeps, AttachKeeps, CloseDetachedKeeps,
     TimerFiresKeeps, DropKeeps
<1>3. ASSUME NEW f \in FSs, NEW s \in Servers \cup {None}, NEW data \in Servers \cup {None},
             NEW p \in Paths, GoTo(f, s, p, data)
      PROVE  IndInv'
  BY <1>3, GoToKeeps
<1>4. CASE UNCHANGED vars
  BY <1>4 DEF vars, fsVars, callVars, IndInv, TypeOK, CallIsMade, OpenHasPath,
       DialogIsServed, FocusFits, SessionIsOfProfile, KeptAlive
<1> QED
  BY <1>1, <1>2, <1>3, <1>4 DEF Next

\* The inductive invariant holds.
THEOREM Invariance == Spec => []IndInv
<1>1. Init => IndInv
  BY InitHolds
<1>2. IndInv /\ [Next]_vars => IndInv'
  BY NextKeeps
<1> QED
  BY <1>1, <1>2, PTL DEF Spec

\* The variables of the file systems and of Salamander's call keep their types.
THEOREM TypeCorrect == Spec => []TypeOK
<1>1. IndInv => TypeOK
  BY DEF IndInv
<1> QED
  BY <1>1, Invariance, PTL

\* Whatever paths and servers the user asks for, and whenever the peer goes away,
\* the session of a file system is one with the server its profile names.
THEOREM NoOtherServer == Spec => []SessionIsOfProfile
<1>1. IndInv => SessionIsOfProfile
  BY DEF IndInv
<1> QED
  BY <1>1, Invariance, PTL

\* A file system that has a path never is without a keep-alive timer.
THEOREM AlwaysKeptAlive == Spec => []KeptAlive
<1>1. IndInv => KeptAlive
  BY DEF IndInv
<1> QED
  BY <1>1, Invariance, PTL

\* The name ChangePath gives back for the focus is in the directory the panel
\* then lists, however many names were cut off, for paths of any depth.
THEOREM FocusIsRight == Spec => []FocusIsThere
<1>1. IndInv => FocusIsThere
  BY DEF IndInv, OpenHasPath, FocusFits, FocusIsThere
<1> QED
  BY <1>1, Invariance, PTL

=============================================================================
