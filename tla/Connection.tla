----------------------------- MODULE Connection -----------------------------
(***************************************************************************)
(* The connections of the plugin and the known_hosts file they share       *)
(* (src/src/sftpconn.cpp: Connect, VerifyHostKey, Authenticate,            *)
(* Disconnect; src/src/sftpglue.cpp: SftpEnsureConnected and the question  *)
(* to the user; src/src/libssh2/knownhost.c).                              *)
(*                                                                         *)
(* A panel connects on the main thread, a transfer worker and the command  *)
(* console on threads of their own.  Each reads the whole known_hosts file *)
(* into a list, may ask the user, which takes as long as the user likes,   *)
(* and then rewrites the whole file from its list.  No lock guards the     *)
(* file.  stdio truncates it when it is opened for writing and fills it    *)
(* when the buffer is flushed, at the latest by fclose.                    *)
(*                                                                         *)
(* A host name and a key are values that can be compared; a line of the    *)
(* file is a host with a key, and equal lines count as one.                *)
(***************************************************************************)
EXTENDS FiniteSets

CONSTANTS
  Conns,      \* the CSftpConnection objects
  Workers,    \* those whose thread Stop may terminate (sftpworker.cpp:192)
  Servers,    \* addresses: host and port
  Hosts,
  HostOf,     \* the host name of a server, without the port
  Keys,       \* public keys
  TypeOf,     \* the key type of a key (RSA, ED25519, ...)
  KeysAt,     \* the keys that may ever be presented at a server's address
  FilesFail   \* may fopen, fwrite or fclose fail on the known_hosts file?

ASSUME ConnectionAssumption ==
  /\ Workers \subseteq Conns
  /\ HostOf \in [Servers -> Hosts]
  /\ DOMAIN TypeOf = Keys
  /\ KeysAt \in [Servers -> SUBSET Keys]
  /\ FilesFail \in BOOLEAN
  /\ "none" \notin Keys

VARIABLES
  hostKey,    \* the key each server presents now
  file,       \* the lines of known_hosts on the disk
  pc,         \* where each connection is
  server,     \* the server it is connected or connecting to
  key,        \* the key that server presented in this Connect
  list,       \* kh: the lines VerifyHostKey has read, edited in memory
  status,     \* what the check of the key against the list said
  accepted,   \* has the user accepted the key in this Connect?
  \* What the user knows.
  saved,      \* lines the user has ever asked to save
  lastSaved,  \* by host and key type, the key of the last such answer
  \* Interference with the file.
  stale,      \* has the file been rewritten since this connection read it?
  disturbed   \* was the file ever rewritten from a stale or failed read, or
              \* not written, or not to its end, although the user had asked
              \* for it?

fileVars == <<file, saved, lastSaved, disturbed>>
vars == <<hostKey, pc, server, key, accepted, list, status, stale, fileVars>>

Line(h, k) == [host |-> h, key |-> k]
Lines == [host : Hosts, key : Keys]
Types == {TypeOf[k] : k \in Keys}

\* No value: no connection yet, no key saved.
None == "none"

PCs == {"idle", "verify", "ask", "save", "writing", "auth", "up", "dead"}

TypeOK ==
  /\ hostKey \in [Servers -> Keys]
  /\ file \subseteq Lines
  /\ pc \in [Conns -> PCs]
  /\ server \in [Conns -> Servers \cup {None}]
  /\ key \in [Conns -> Keys \cup {None}]
  /\ list \in [Conns -> SUBSET Lines]
  /\ status \in [Conns -> {"match", "unknown", "changed"}]
  /\ accepted \in [Conns -> BOOLEAN]
  /\ saved \subseteq Lines
  /\ lastSaved \in [Hosts \X Types -> Keys \cup {None}]
  /\ stale \in [Conns -> BOOLEAN]
  /\ disturbed \in BOOLEAN

Init ==
  /\ hostKey \in {f \in [Servers -> Keys] : \A s \in Servers : f[s] \in KeysAt[s]}
  /\ file = {}
  /\ pc = [c \in Conns |-> "idle"]
  /\ server = [c \in Conns |-> None]
  /\ key = [c \in Conns |-> None]
  /\ list = [c \in Conns |-> {}]
  /\ status = [c \in Conns |-> "unknown"]
  /\ accepted = [c \in Conns |-> FALSE]
  /\ saved = {}
  /\ lastSaved = [ht \in Hosts \X Types |-> None]
  /\ stale = [c \in Conns |-> FALSE]
  /\ disturbed = FALSE

Goto(c, to) == pc' = [pc EXCEPT ![c] = to]

\* The local variables of VerifyHostKey.
verifyVars == <<list, status, stale>>

\* The connections inside it.
Verifying == {c \in Conns : pc[c] \in {"ask", "save", "writing"}}

\* VerifyHostKey returns, knownhost_free.
ForgetList(c) ==
  /\ list' = [list EXCEPT ![c] = {}]
  /\ status' = [status EXCEPT ![c] = "unknown"]
  /\ stale' = [stale EXCEPT ![c] = FALSE]

\* Disconnect: the session and the socket are gone.
Hangup(c) ==
  /\ Goto(c, "idle")
  /\ server' = [server EXCEPT ![c] = None]
  /\ key' = [key EXCEPT ![c] = None]
  /\ accepted' = [accepted EXCEPT ![c] = FALSE]

-----------------------------------------------------------------------------
(* known_hosts                                                             *)

Same(l, h, k) == l.host = h /\ TypeOf[l.key] = TypeOf[k]

\* The lines of the list that contradict the key: same host, same key type,
\* another key.  A line of another type says nothing.
Bad(lines, h, k) == {l \in lines : Same(l, h, k) /\ l.key # k}

\* Mutant of knownhost_check: an empty list is reported as a failure.
CheckFailsOnEmpty(lines, h, k) ==
  IF lines = {}                THEN "failure"
  ELSE IF Line(h, k) \in lines THEN "match"
  ELSE "unknown"

knownhost_check(lines, h, k) ==
  IF Line(h, k) \in lines      THEN "match"
  ELSE IF Bad(lines, h, k) # {} THEN "changed"
  ELSE "unknown"

-----------------------------------------------------------------------------
(* Connect                                                                 *)

\* Mutant of Connect: a dropped connection is taken up again without a look
\* at the key.
ReconnectUnverified(c, s) ==
  /\ pc[c] \in {"idle", "dead"}
  /\ server' = [server EXCEPT ![c] = s]
  /\ key' = [key EXCEPT ![c] = hostKey[s]]
  /\ accepted' = [accepted EXCEPT ![c] = FALSE]
  /\ Goto(c, IF pc[c] = "dead" THEN "auth" ELSE "verify")
  /\ UNCHANGED <<hostKey, verifyVars, fileVars>>

\* Called when IsConnected says no.  Disconnect, then TCP and the handshake.
Connect(c, s) ==
  /\ pc[c] \in {"idle", "dead"}
  /\ server' = [server EXCEPT ![c] = s]
  /\ key' = [key EXCEPT ![c] = hostKey[s]]
  /\ accepted' = [accepted EXCEPT ![c] = FALSE]
  /\ Goto(c, "verify")
  /\ UNCHANGED <<hostKey, verifyVars, fileVars>>

\* Connect fails before the key is checked, or in Authenticate or after it.
ConnectFails(c) ==
  /\ pc[c] \in {"dead", "verify", "auth"}
  /\ Hangup(c)
  /\ UNCHANGED <<hostKey, verifyVars, fileVars>>

\* VerifyHostKey reads the file and checks the key.  A failed fopen leaves
\* the list empty and is not noticed.
ReadKnownHosts(c) ==
  /\ pc[c] = "verify"
  /\ \E readable \in {TRUE, ~FilesFail} :
       LET lines == IF readable THEN file ELSE {}
           check == knownhost_check(lines, HostOf[server[c]], key[c])
       IN  IF check = "match"
           THEN Goto(c, "auth") /\ UNCHANGED verifyVars
           ELSE /\ Goto(c, "ask")
                /\ list' = [list EXCEPT ![c] = lines]
                /\ status' = [status EXCEPT ![c] = check]
                /\ stale' = [stale EXCEPT ![c] =
                               ~readable \/ \E d \in Conns : pc[d] = "writing"]
  /\ UNCHANGED <<hostKey, server, key, accepted, fileVars>>

\* SftpHostKeyCallback, answer Cancel (or No for a changed key).
Reject(c) ==
  /\ pc[c] = "ask"
  /\ Hangup(c)
  /\ ForgetList(c)
  /\ UNCHANGED <<hostKey, fileVars>>

\* Answer No for an unknown server: connect this time only.
AcceptOnce(c) ==
  /\ pc[c] = "ask" /\ status[c] = "unknown"
  /\ accepted' = [accepted EXCEPT ![c] = TRUE]
  /\ Goto(c, "auth")
  /\ ForgetList(c)
  /\ UNCHANGED <<hostKey, server, key, fileVars>>

\* Mutant of AcceptAndSave: the contradicting line stays.
SaveKeepsOld(c) ==
  LET new == Line(HostOf[server[c]], key[c])
  IN  /\ pc[c] = "ask"
      /\ accepted' = [accepted EXCEPT ![c] = TRUE]
      /\ list' = [list EXCEPT ![c] = @ \cup {new}]
      /\ saved' = saved \cup {new}
      /\ lastSaved' = [lastSaved EXCEPT ![<<new.host, TypeOf[new.key]>>] = new.key]
      /\ Goto(c, "save")
      /\ UNCHANGED <<hostKey, server, key, status, stale, file, disturbed>>

\* Answer Yes: the first contradicting line is taken out of the list and the
\* new one put in.
AcceptAndSave(c) ==
  LET h == HostOf[server[c]]
      k == key[c]
      new == Line(h, k)
  IN  /\ pc[c] = "ask"
      /\ accepted' = [accepted EXCEPT ![c] = TRUE]
      /\ \/ /\ status[c] = "unknown"
            /\ list' = [list EXCEPT ![c] = @ \cup {new}]
         \/ /\ status[c] = "changed"
            /\ \E old \in Bad(list[c], h, k) :
                 list' = [list EXCEPT ![c] = (@ \ {old}) \cup {new}]
      /\ saved' = saved \cup {new}
      /\ lastSaved' = [lastSaved EXCEPT ![<<h, TypeOf[k]>>] = k]
      /\ Goto(c, "save")
      /\ UNCHANGED <<hostKey, server, key, status, stale, file, disturbed>>

\* writefile: fopen truncates the file.  Whoever has read it before now has
\* an old copy.
OpenForWriting(c) ==
  /\ pc[c] = "save"
  /\ file' = {}
  /\ stale' = [d \in Conns |-> stale[d] \/ d \in Verifying \ {c}]
  /\ disturbed' = (disturbed \/ stale[c])
  /\ Goto(c, "writing")
  /\ UNCHANGED <<hostKey, server, key, list, status, accepted, saved,
                 lastSaved>>

\* writefile: fopen fails; the result is not looked at.
WriteFails(c) ==
  /\ FilesFail /\ pc[c] = "save"
  /\ disturbed' = TRUE
  /\ Goto(c, "auth")
  /\ ForgetList(c)
  /\ UNCHANGED <<hostKey, server, key, accepted, file, saved, lastSaved>>

\* stdio flushes its buffer while the lines are written.
FlushSome(c) ==
  /\ pc[c] = "writing"
  /\ \E part \in SUBSET list[c] : file' = file \cup part
  /\ UNCHANGED <<hostKey, pc, server, key, accepted, verifyVars, saved,
                 lastSaved, disturbed>>

\* writefile: the last line and an fclose that works.  What another thread had written
\* beyond the end of this text stays.
CloseFile(c) ==
  /\ pc[c] = "writing"
  /\ \E tail \in SUBSET file : file' = list[c] \cup tail
  /\ Goto(c, "auth")
  /\ ForgetList(c)
  /\ UNCHANGED <<hostKey, server, key, accepted, saved, lastSaved, disturbed>>

\* writefile: fwrite fails, which breaks off the loop over the lines, or fclose
\* does; some of the lines are there, and VerifyHostKey does not look.
WriteBreaks(c) ==
  /\ FilesFail /\ pc[c] = "writing"
  /\ file' \in SUBSET (file \cup list[c])
  /\ disturbed' = TRUE
  /\ Goto(c, "auth")
  /\ ForgetList(c)
  /\ UNCHANGED <<hostKey, server, key, accepted, saved, lastSaved>>

\* Authenticate, the choice between SFTP and SCP: Connect returns true.
Authenticate(c) ==
  /\ pc[c] = "auth"
  /\ Goto(c, "up")
  /\ UNCHANGED <<hostKey, server, key, accepted, verifyVars, fileVars>>

Disconnect(c) ==
  /\ pc[c] \in {"up", "dead"}
  /\ Hangup(c)
  /\ UNCHANGED <<hostKey, verifyVars, fileVars>>

\* Stop gives a worker five seconds and then terminates its thread, in the
\* middle of the question or of the file.
Terminate(c) ==
  /\ c \in Workers /\ pc[c] \notin {"idle", "dead"}
  /\ disturbed' = (disturbed \/ pc[c] \in {"save", "writing"})
  /\ Hangup(c)
  /\ ForgetList(c)
  /\ UNCHANGED <<hostKey, file, saved, lastSaved>>

\* The peer closes the connection; IsConnected will say no.
Drop(c) ==
  /\ pc[c] = "up"
  /\ Goto(c, "dead")
  /\ UNCHANGED <<hostKey, server, key, accepted, verifyVars, fileVars>>

\* A server gets a new key, or another machine answers at its address.
ChangeKey(s, k) ==
  /\ k \in KeysAt[s] \ {hostKey[s]}
  /\ hostKey' = [hostKey EXCEPT ![s] = k]
  /\ UNCHANGED <<pc, server, key, accepted, verifyVars, fileVars>>

VerifyHostKey(c) ==
  \/ ReadKnownHosts(c)
  \/ Reject(c) \/ AcceptOnce(c) \/ AcceptAndSave(c)
  \/ OpenForWriting(c) \/ WriteFails(c)
  \/ FlushSome(c) \/ WriteBreaks(c) \/ CloseFile(c)

Next ==
  \/ \E c \in Conns :
       \/ \E s \in Servers : Connect(c, s)
       \/ ConnectFails(c)
       \/ VerifyHostKey(c)
       \/ Authenticate(c)
       \/ Disconnect(c) \/ Terminate(c) \/ Drop(c)
  \/ \E s \in Servers, k \in Keys : ChangeKey(s, k)

Spec == Init /\ [][Next]_vars

-----------------------------------------------------------------------------
(* Properties                                                              *)

\* A connection that has passed VerifyHostKey, so that a password is sent on
\* it, talks to a server whose key the user has accepted: in this Connect, or
\* by an answer Yes for this host at any earlier time.  It holds whatever the
\* threads do to known_hosts, and for a reconnect after the peer has changed
\* its key (sftpconn.cpp:206-218).
TrustIsEarned ==
  \A c \in Conns : pc[c] \in {"auth", "up", "dead"} =>
    \/ accepted[c]
    \/ Line(HostOf[server[c]], key[c]) \in saved

\* What known_hosts should hold: the last answer Yes for each host and type.
Expected ==
  {l \in Lines : lastSaved[<<l.host, TypeOf[l.key]>>] = l.key}

\* The connections that owe the file a line.
Pending == {c \in Conns : pc[c] \in {"save", "writing"}}

\* As long as nobody rewrites the file from a copy that is out of date, no
\* thread is terminated in the middle, and fopen, fwrite and fclose succeed on
\* it, known_hosts holds
\* for each host and key type exactly the key of the last answer Yes: nothing
\* the user has saved is lost, and no key that was replaced comes back
\* (sftpconn.cpp:419-427).
SavedWhenAlone == ~disturbed /\ Pending = {} => file = Expected

\* What the question promises, "Yes = save key and connect"
\* (sftpglue.cpp:34): the same without the proviso.
SavedIsKept == Pending = {} => file = Expected

-----------------------------------------------------------------------------
(* The inductive invariant behind TrustIsEarned and SavedWhenAlone         *)

ServerIsKnown ==
  \A c \in Conns : pc[c] # "idle" => server[c] \in Servers /\ key[c] \in Keys

\* Nothing enters the file but what the user has asked to save.
OnlySaved == file \subseteq saved /\ \A c \in Conns : list[c] \subseteq saved

PendingIsAccepted == \A c \in Pending : accepted[c]

\* The question shows what the list says.
QuestionFits ==
  \A c \in Conns : pc[c] = "ask" =>
    /\ status[c] # "match"
    /\ status[c] = knownhost_check(list[c], HostOf[server[c]], key[c])

\* A copy that is not stale is the file, and nobody is writing.
FreshCopy ==
  \A c \in Conns : pc[c] = "ask" /\ ~stale[c] =>
    list[c] = file /\ \A d \in Conns : pc[d] # "writing"

\* While one connection writes, all other copies are stale.
WriterSpoils ==
  \A c, d \in Conns : pc[c] = "writing" /\ d \in Verifying \ {c} => stale[d]

WriterIsFresh ==
  ~disturbed => \A c \in Conns : pc[c] = "writing" =>
                  ~stale[c] /\ file \subseteq list[c]

\* A connection that alone owes the file a line will make it what it should be.
PendingIsExpected ==
  ~disturbed => \A c \in Conns : Pending = {c} /\ ~stale[c] =>
                  list[c] = Expected

IndInv ==
  /\ TypeOK
  /\ ServerIsKnown
  /\ OnlySaved
  /\ PendingIsAccepted
  /\ TrustIsEarned
  /\ QuestionFits
  /\ FreshCopy
  /\ WriterSpoils
  /\ WriterIsFresh
  /\ PendingIsExpected
  /\ SavedWhenAlone
=============================================================================
