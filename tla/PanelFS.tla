------------------------------- MODULE PanelFS -------------------------------
(***************************************************************************)
(* The file systems of the panels, CPluginFSInterface (src/src/fs2.cpp):   *)
(* ChangePath, ListCurrentPath, TryCloseOrDetach, Event, and the Connect   *)
(* dialog that opens a new one (src/src/fs1.cpp).                          *)
(*                                                                         *)
(* Everything here runs on Salamander's main thread, one call at a time;   *)
(* between two network operations the peer may go away.  Salamander itself *)
(* is not part of the repository.  What the plugin relies on is that after *)
(* a ChangePath that returns TRUE it calls ListCurrentPath, that after a   *)
(* ListCurrentPath that returns FALSE it calls ChangePath with the current *)
(* path again (sftp.h:733), that it asks IsOurPath whether an open file    *)
(* system serves a path, and that the timers of a file system end with it. *)
(*                                                                         *)
(* A path is the sequence of its names, normalised.  The answers of the    *)
(* server (is this a directory, can it be listed) are arbitrary, since     *)
(* other users change its tree at any time.                                *)
(***************************************************************************)
EXTENDS Naturals, Sequences, SequencesExt

CONSTANTS
  FSs,        \* CPluginFSInterface objects
  Servers,    \* host and user, as _stricmp tells them apart
  Names,      \* names of files and directories
  MaxDepth,   \* bound on the depth of a path
  MaxTimers   \* bound on the pending timers counted

ASSUME PanelAssumption ==
  /\ MaxDepth \in Nat
  /\ MaxTimers \in Nat \ {0}
  /\ "none" \notin Servers \cup FSs \cup Names

VARIABLES
  \* Of each file system.
  place,      \* "closed", "panel" or "detached"
  profile,    \* the server of Profile
  conn,       \* the server Conn has a session with
  alive,      \* has the peer not closed it?
  path,       \* Path
  pathError, fatalError,
  timers,     \* SFTP_TIMER_KEEPALIVE timers pending
  \* The call Salamander is making.
  pc,         \* "idle", or what is next: "change", "trim", "list", "relist", "failed"
  cur,        \* the file system called
  wanted,     \* the server named in userPart
  arg,        \* the path ChangePath works on
  asked,      \* the path at which its loop began
  cutFileName,
  useConnectData    \* ConnectData: its server, while UseConnectData is TRUE

fsVars == <<place, profile, conn, alive, path, pathError, fatalError, timers>>
callVars == <<pc, cur, wanted, arg, asked, cutFileName>>
vars == <<fsVars, callVars, useConnectData>>

None == "none"
NoPath == <<None>>   \* Path is empty
Paths == BoundedSeq(Names, MaxDepth)

TypeOK ==
  /\ place \in [FSs -> {"closed", "panel", "detached"}]
  /\ profile \in [FSs -> Servers \cup {None}]
  /\ conn \in [FSs -> Servers \cup {None}]
  /\ alive \in [FSs -> BOOLEAN]
  /\ path \in [FSs -> Paths \cup {NoPath}]
  /\ pathError \in [FSs -> BOOLEAN]
  /\ fatalError \in [FSs -> BOOLEAN]
  /\ timers \in [FSs -> 0 .. MaxTimers]
  /\ pc \in {"idle", "change", "trim", "list", "relist", "failed"}
  /\ cur \in FSs \cup {None}
  /\ wanted \in Servers \cup {None}
  /\ arg \in Paths /\ asked \in Paths
  /\ cutFileName \in Names \cup {None}
  /\ useConnectData \in Servers \cup {None}

Init ==
  /\ place = [f \in FSs |-> "closed"]
  /\ profile = [f \in FSs |-> None]
  /\ conn = [f \in FSs |-> None]
  /\ alive = [f \in FSs |-> FALSE]
  /\ path = [f \in FSs |-> NoPath]
  /\ pathError = [f \in FSs |-> FALSE]
  /\ fatalError = [f \in FSs |-> FALSE]
  /\ timers = [f \in FSs |-> 0]
  /\ pc = "idle" /\ cur = None /\ wanted = None
  /\ arg = <<>> /\ asked = <<>> /\ cutFileName = None
  /\ useConnectData = None

-----------------------------------------------------------------------------
(* Salamander's calls (external)                                           *)

\* ChangePath on f with "//s/p", or with "/p" when s is None.
CallChangePath(f, s, p) ==
  /\ pc' = "change" /\ cur' = f /\ wanted' = s
  /\ arg' = p /\ asked' = p /\ cutFileName' = None

\* The chain of calls is over.
Return ==
  /\ pc' = "idle" /\ cur' = None /\ wanted' = None
  /\ arg' = <<>> /\ asked' = <<>> /\ cutFileName' = None
  /\ useConnectData' = None

\* A CPluginFSInterface as the constructor leaves it, in a place.
Fresh(f, where) ==
  /\ place' = [place EXCEPT ![f] = where]
  /\ profile' = [profile EXCEPT ![f] = None]
  /\ conn' = [conn EXCEPT ![f] = None]
  /\ alive' = [alive EXCEPT ![f] = FALSE]
  /\ path' = [path EXCEPT ![f] = NoPath]
  /\ pathError' = [pathError EXCEPT ![f] = FALSE]
  /\ fatalError' = [fatalError EXCEPT ![f] = FALSE]
  /\ timers' = [timers EXCEPT ![f] = 0]

\* ChangePath has returned FALSE.  A file system without a path is closed; of
\* another one the panel keeps what it showed, or it leaves it.
AfterFailure ==
  /\ pc = "failed"
  /\ \/ Fresh(cur, "closed")
     \/ path[cur] # NoPath /\ UNCHANGED fsVars
  /\ Return

-----------------------------------------------------------------------------
(* ChangePath                                                              *)

\* SftpEnsureConnected for a profile with server s: a live session is good,
\* whatever profile it was made for; else Connect, with the result ok.
EnsureConnected(f, session, s, ok) ==
  IF session # None /\ alive[f]
  THEN ok /\ conn' = [conn EXCEPT ![f] = session] /\ UNCHANGED alive
  ELSE /\ s = None => ~ok
       /\ conn' = [conn EXCEPT ![f] = IF ok THEN s ELSE None]
       /\ alive' = [alive EXCEPT ![f] = ok]

\* FatalError of the listing before is taken back and reported.
ChangePathFatal ==
  /\ pc = "change" /\ fatalError[cur]
  /\ fatalError' = [fatalError EXCEPT ![cur] = FALSE]
  /\ pc' = "failed"
  /\ UNCHANGED <<place, profile, conn, alive, path, pathError, timers, cur, wanted,
                 arg, asked, cutFileName, useConnectData>>

\* The profile of the Connect dialog, or the server named in the path.
NewServer(f) ==
  CASE useConnectData # None -> useConnectData
    [] useConnectData = None /\ wanted # None -> wanted
    [] OTHER -> profile[f]

\* Mutant of SessionLeft: a new server in the path does not end the session.
SessionStays(f) == conn[f]

\* The session SftpParseHostInto leaves: none when the path names another
\* server.  The data of the dialog do not touch it.
SessionLeft(f) ==
  IF useConnectData = None /\ wanted \notin {None, profile[f]} THEN None ELSE conn[f]

\* The server and the connection.  PathError stays as it is.
ChangePathOffline ==
  LET s == NewServer(cur) IN
  /\ pc = "change" /\ ~fatalError[cur]
  /\ profile' = [profile EXCEPT ![cur] = s]
  /\ EnsureConnected(cur, SessionLeft(cur), s, FALSE)
  /\ pc' = "failed"
  /\ UNCHANGED <<place, path, pathError, fatalError, timers, cur, wanted, arg, asked,
                 cutFileName, useConnectData>>

\* The server, the connection, and one name less after a failed listing.
ChangePathOnline ==
  LET s == NewServer(cur) IN
  /\ pc = "change" /\ ~fatalError[cur]
  /\ profile' = [profile EXCEPT ![cur] = s]
  /\ EnsureConnected(cur, SessionLeft(cur), s, TRUE)
  /\ pathError' = [pathError EXCEPT ![cur] = FALSE]
  /\ \/ /\ ~pathError[cur]
        /\ pc' = "trim" /\ UNCHANGED <<arg, asked>>
     \/ /\ pathError[cur] /\ arg # <<>>
        /\ pc' = "trim" /\ arg' = Front(arg) /\ asked' = Front(arg)
     \/ /\ pathError[cur] /\ arg = <<>>
        /\ pc' = "failed" /\ UNCHANGED <<arg, asked>>
  /\ UNCHANGED <<place, path, fatalError, timers, cur, wanted, cutFileName,
                 useConnectData>>

\* Count a timer more, up to the bound.
Armed(f) == [timers EXCEPT ![f] = IF @ < MaxTimers THEN @ + 1 ELSE @]

\* PathType says directory; of the root it says so without asking.
ChangePathArrives ==
  /\ pc = "trim"
  /\ path' = [path EXCEPT ![cur] = arg]
  /\ timers' = Armed(cur)
  /\ pc' = "list"
  /\ UNCHANGED <<place, profile, conn, alive, pathError, fatalError, cur, wanted, arg,
                 asked, cutFileName, useConnectData>>

\* Mutant of ChangePathTrims: every name cut is one to focus.
TrimsAndFocuses ==
  /\ pc = "trim" /\ Len(arg) > 1
  /\ arg' = Front(arg)
  /\ \E isFile \in BOOLEAN : cutFileName' = IF isFile THEN Last(arg) ELSE None
  /\ UNCHANGED <<fsVars, pc, cur, wanted, asked, useConnectData>>

\* PathType says file, not found, or fails: the last name goes.  Only the first
\* one, and only of a file, is for the panel to focus.
ChangePathTrims ==
  /\ pc = "trim" /\ Len(arg) > 1
  /\ arg' = Front(arg)
  /\ \E isFile \in BOOLEAN :
       cutFileName' = IF arg = asked /\ isFile THEN Last(arg) ELSE None
  /\ UNCHANGED <<fsVars, pc, cur, wanted, asked, useConnectData>>

\* A name in the root that is a file or not found ends it: the root itself is
\* never tried (slash == path).
ChangePathGivesUp ==
  /\ pc = "trim" /\ Len(arg) = 1
  /\ pc' = "failed"
  /\ UNCHANGED <<fsVars, cur, wanted, arg, asked, cutFileName, useConnectData>>

-----------------------------------------------------------------------------
(* ListCurrentPath                                                         *)

\* Mutant of ListFails: the error is not noted.
ListFailsSilently ==
  /\ CallChangePath(cur, profile[cur], path[cur])
  /\ UNCHANGED <<pathError, fatalError, useConnectData>>

\* ListCurrentPath returns FALSE, and Salamander calls ChangePath with what
\* GetCurrentPath says.
ListFails ==
  /\ pathError' = [pathError EXCEPT ![cur] = TRUE]
  /\ CallChangePath(cur, profile[cur], path[cur])
  /\ UNCHANGED <<fatalError, useConnectData>>

\* The entries are there, but there is no memory for them.
ListRunsOut ==
  /\ fatalError' = [fatalError EXCEPT ![cur] = TRUE]
  /\ CallChangePath(cur, profile[cur], path[cur])
  /\ UNCHANGED <<pathError, useConnectData>>

ListIsShown ==
  /\ Return
  /\ UNCHANGED <<pathError, fatalError>>

\* The first attempt.
ListCurrentPath ==
  /\ pc = "list"
  /\ \/ /\ EnsureConnected(cur, conn[cur], profile[cur], FALSE)
        /\ ListFails
     \/ /\ EnsureConnected(cur, conn[cur], profile[cur], TRUE)
        /\ \/ ListIsShown
           \/ ListRunsOut
           \/ /\ pc' = "relist"
              /\ UNCHANGED <<pathError, fatalError, cur, wanted, arg, asked, cutFileName,
                             useConnectData>>
  /\ UNCHANGED <<place, profile, path, timers>>

\* The transparent reconnect, once, and the second attempt.
ListAgain ==
  /\ pc = "relist"
  /\ \/ /\ EnsureConnected(cur, conn[cur], profile[cur], FALSE)
        /\ ListFails
     \/ /\ EnsureConnected(cur, conn[cur], profile[cur], TRUE)
        /\ \/ ListIsShown
           \/ ListRunsOut
           \/ ListFails
  /\ UNCHANGED <<place, profile, path, timers>>

-----------------------------------------------------------------------------
(* The user, the peer, the timer                                           *)

InPanel(f) == place[f] = "panel"

\* Mutant of IsOurPath: the path from the dialog is served too.
IsAlwaysOurs(data) == TRUE

\* An open file system serves every path, but not what the Connect dialog asks
\* for.
IsOurPath(data) == data = None

\* Salamander changes the path of a panel, in the file system there if that
\* says the path is its own, or in a new one (OpenFS).  The path comes from the
\* user, who names a server or none, or from the Connect dialog in data.  To
\* refresh a panel is to go where it is.
GoTo(f, s, p, data) ==
  /\ pc = "idle"
  /\ data # None => s = None
  /\ useConnectData' = data
  /\ CallChangePath(f, s, p)
  /\ \/ place[f] = "closed" /\ Fresh(f, "panel")
     \/ InPanel(f) /\ IsOurPath(data) /\ UNCHANGED fsVars

\* TryCloseOrDetach when the panel goes elsewhere, as the user answers now or
\* has told it to do always (SftpLeavePanelAction): close.
LeaveAndClose(f) ==
  /\ pc = "idle" /\ InPanel(f)
  /\ Fresh(f, "closed")
  /\ UNCHANGED <<callVars, useConnectData>>

\* ... keep the connection in the background, if Salamander can.
LeaveAndDetach(f) ==
  /\ pc = "idle" /\ InPanel(f)
  /\ place' = [place EXCEPT ![f] = "detached"]
  /\ UNCHANGED <<profile, conn, alive, path, pathError, fatalError, timers, callVars,
                 useConnectData>>

\* The file system comes back from the menu of drives.
Attach(f) ==
  /\ pc = "idle" /\ place[f] = "detached"
  /\ place' = [place EXCEPT ![f] = "panel"]
  /\ CallChangePath(f, profile[f], path[f])
  /\ UNCHANGED <<profile, conn, alive, path, pathError, fatalError, timers,
                 useConnectData>>

\* Disconnect dialog, or the end of Salamander.
CloseDetached(f) ==
  /\ pc = "idle" /\ place[f] = "detached"
  /\ Fresh(f, "closed")
  /\ UNCHANGED <<callVars, useConnectData>>

\* Mutant of TimerFires: without a connection there is no next timer.
TimerStops(f) ==
  /\ pc = "idle" /\ timers[f] > 0
  /\ timers' = [timers EXCEPT ![f] = IF conn[f] # None /\ alive[f] THEN @ ELSE @ - 1]
  /\ UNCHANGED <<place, profile, conn, alive, path, pathError, fatalError, callVars,
                 useConnectData>>

\* FSE_TIMER: a keep-alive if there is a connection, and the next timer.
TimerFires(f) ==
  /\ pc = "idle" /\ timers[f] > 0
  /\ timers' = [timers EXCEPT ![f] = (@ - 1) + 1]
  /\ UNCHANGED <<place, profile, conn, alive, path, pathError, fatalError, callVars,
                 useConnectData>>

\* The peer closes the session.
Drop(f) ==
  /\ conn[f] # None /\ alive[f]
  /\ alive' = [alive EXCEPT ![f] = FALSE]
  /\ UNCHANGED <<place, profile, conn, path, pathError, fatalError, timers, callVars,
                 useConnectData>>

\* The calls Salamander makes one after the other until the panel has a path.
Calls ==
  \/ ChangePathFatal \/ ChangePathOffline \/ ChangePathOnline
  \/ ChangePathArrives \/ ChangePathTrims \/ ChangePathGivesUp
  \/ ListCurrentPath \/ ListAgain
  \/ AfterFailure

Next ==
  \/ Calls
  \/ \E f \in FSs :
       \/ \E s, data \in Servers \cup {None}, p \in Paths : GoTo(f, s, p, data)
       \/ LeaveAndClose(f) \/ LeaveAndDetach(f) \/ Attach(f)
       \/ CloseDetached(f) \/ TimerFires(f) \/ Drop(f)

Spec == Init /\ [][Next]_vars

\* The main thread goes on with a call it has begun.
FairSpec == Spec /\ WF_vars(Calls)

-----------------------------------------------------------------------------
(* Properties                                                              *)

\* A session is always one with the server the panel's profile names, so that
\* nothing is listed, deleted or overwritten on another server than the one
\* shown.  SftpEnsureConnected takes any live session (sftpglue.cpp:68), so
\* this rests on SftpParseHostInto ending the old one and on IsOurPath keeping
\* the data of the Connect dialog away from file systems in use.
SessionIsOfProfile == \A f \in FSs : conn[f] \in {None, profile[f]}

\* A file system that has a path, in a panel or in the background, always has a
\* keep-alive timer pending (fs2.cpp:2550, 2883), also after the connection was
\* lost and before it is made again.
KeptAlive ==
  \A f \in FSs : place[f] # "closed" /\ path[f] # NoPath => timers[f] > 0

\* The name ChangePath hands back to be focused is the last name of the path
\* it was asked for, and the panel is in the directory of that file: never a
\* name from the middle of the path (fs2.cpp:2570).
FocusIsThere ==
  pc = "list" /\ cutFileName # None => asked = Append(path[cur], cutFileName)

\* ChangePath and ListCurrentPath do not call for each other for ever, whatever
\* the server answers: a failed listing costs a directory, and at the root the
\* panel gives up (fs2.cpp:2526-2541, 2602).
CallsEnd == pc # "idle" ~> pc = "idle"
=============================================================================
