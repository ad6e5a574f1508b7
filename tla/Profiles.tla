------------------------------ MODULE Profiles ------------------------------
(***************************************************************************)
(* The saved connections, the connect dialog that edits them (ConnectDlgProc *)
(* in src/src/fs1.cpp) and their copy in the registry                      *)
(* (LoadConfiguration and SaveConfiguration in src/src/sftp.cpp).          *)
(*                                                                         *)
(* The dialog names a connection in three ways: by its index in            *)
(* SftpProfiles (g_SelectedProfileIndex), by the row of the list box that  *)
(* is highlighted, and by its name (SftpDefaultSession).  The list shows   *)
(* the connections outside folders first and then each folder under a      *)
(* header, so that rows and indices differ as soon as there is a folder.   *)
(*                                                                         *)
(* Every change is saved at once, one registry key after the other; the    *)
(* process may be killed between two of them.                              *)
(***************************************************************************)
EXTENDS Naturals, Sequences, SequencesExt

CONSTANTS
  Hosts,         \* what the user may type as the host
  OtherNames,    \* names the user may give to a connection
  FolderNames,   \* names of folders
  LowerCase,     \* a folder's name as _stricmp compares it
  HeaderName,    \* the name GetSelFolder reads back from a folder's header
  MaxProfiles,   \* SFTP_MAX_PROFILES
  MaxFolders     \* SFTP_MAX_FOLDERS

ASSUME ProfilesAssumption ==
  /\ MaxProfiles \in Nat \ {0} /\ MaxFolders \in Nat
  /\ DOMAIN LowerCase = FolderNames
  /\ HeaderName \in [FolderNames -> FolderNames]
  /\ Hosts \cap OtherNames = {} /\ "none" \notin Hosts \cup OtherNames
  /\ "root" \notin FolderNames   \* the empty name is no folder

VARIABLES
  profiles,        \* SftpProfiles
  folders,         \* SftpFolders
  defaultSession,  \* SftpDefaultSession
  selected,        \* g_SelectedProfileIndex, from 1; 0 is the code's -1
  lastHost,        \* g_DlgProfile.Host, what was connected to last
  open,            \* the dialog is open
  fields,          \* the host in the dialog's fields
  rows,            \* the list box: the index of a profile, or the name of a folder
  cursel,          \* the row highlighted, from 1; 0 is none
  registry,        \* the keys of the registry
  saving,          \* SaveConfiguration: the handler that called it, and how far it is
  \* Observation only.
  chosen,          \* the user has chosen a connection, or New, in this dialog
  loaded,          \* the profile the fields were then loaded from; 0 is none
  stray            \* since the fields were loaded, a row was highlighted that is not theirs

memory == <<profiles, folders, defaultSession>>
dialog == <<selected, lastHost, open, fields, rows, cursel, chosen, loaded, stray>>
vars == <<memory, dialog, registry, saving>>

Root == "root"
None == "none"
Names == Hosts \cup OtherNames
ProfileSet == [name : Names, host : Hosts, folder : FolderNames \cup {Root}]
NoProfile == [name |-> None, host |-> None, folder |-> None]
Indices == 1 .. MaxProfiles
Row(kind, i, folder) == [kind |-> kind, i |-> i, folder |-> folder]
NotSaving == [by |-> None, target |-> 0, at |-> 0]

RowSet == [kind : {"profile"}, i : Indices, folder : FolderNames \cup {Root}]
            \cup [kind : {"folder"}, i : {0}, folder : FolderNames]
FolderList == {fs \in Seq(FolderNames) : Len(fs) <= MaxFolders}

\* The type of every variable.
TypeOK ==
  /\ profiles \in Seq(ProfileSet) /\ Len(profiles) <= MaxProfiles
  /\ folders \in FolderList
  /\ defaultSession \in Names \cup {None}
  /\ selected \in 0 .. MaxProfiles /\ loaded \in 0 .. MaxProfiles /\ chosen \in BOOLEAN
  /\ stray \in BOOLEAN
  /\ lastHost \in Hosts \cup {None} /\ fields \in Hosts \cup {None}
  /\ open \in BOOLEAN /\ rows \in Seq(RowSet) /\ cursel \in 0 .. Len(rows)
  /\ registry \in [default : Names \cup {None}, folders : FolderList, count : 0 .. MaxProfiles,
                   servers : [Indices -> ProfileSet \cup {NoProfile}]]
  /\ saving \in [by : {None, "rename", "folder", "default", "save", "delete"},
                 target : 0 .. MaxProfiles, at : 0 .. MaxProfiles + 1]

\* Nothing is saved yet.
Init ==
  /\ profiles = <<>> /\ folders = <<>> /\ defaultSession = None
  /\ selected = 0 /\ lastHost = None /\ open = FALSE /\ fields = None
  /\ rows = <<>> /\ cursel = 0 /\ loaded = 0 /\ chosen = FALSE /\ stray = FALSE
  /\ registry = [default |-> None, folders |-> <<>>, count |-> 0,
                 servers |-> [i \in Indices |-> NoProfile]]
  /\ saving = NotSaving

-----------------------------------------------------------------------------
(* The list box                                                            *)

FolderKnown(fs, f) == \E i \in DOMAIN fs : LowerCase[fs[i]] = LowerCase[f]

\* The folder is appended unless there is one of that name, in any case, or no
\* room.
AddFolder(fs, f) ==
  IF f = Root \/ FolderKnown(fs, f) \/ Len(fs) >= MaxFolders THEN fs ELSE Append(fs, f)

\* The indices of the profiles whose folder is exactly f, in order.
InFolder(ps, f) ==
  LET among[n \in 0 .. Len(ps)] ==
        IF n = 0 THEN <<>>
        ELSE IF ps[n].folder = f THEN Append(among[n - 1], n) ELSE among[n - 1]
  IN  among[Len(ps)]

\* FillSessionList: folders that only exist in profiles are added first.
WithFolders(fs, ps) ==
  LET added[n \in 0 .. Len(ps)] ==
        IF n = 0 THEN fs ELSE AddFolder(added[n - 1], ps[n].folder)
  IN  added[Len(ps)]
RowsOf(ps, f) == [n \in DOMAIN InFolder(ps, f) |-> Row("profile", InFolder(ps, f)[n], f)]

\* Mutant of FillSessionList: only the folders that were made in the dialog are listed.
FillOldFolders(ps, fs) ==
  /\ folders' = fs
  /\ rows' = RowsOf(ps, Root) \o
             FlattenSeq([n \in DOMAIN fs |-> <<Row("folder", 0, fs[n])>> \o RowsOf(ps, fs[n])])

\* The rows, with no row highlighted.
FillSessionList(ps, fs) ==
  LET all == WithFolders(fs, ps)
  IN  /\ folders' = all
      /\ rows' = RowsOf(ps, Root) \o
                 FlattenSeq([n \in DOMAIN all |->
                               <<Row("folder", 0, all[n])>> \o RowsOf(ps, all[n])])

\* GetSelProfile: the profile of the highlighted row; 0 when it has none.
GetSelProfile == IF cursel = 0 THEN 0 ELSE rows[cursel].i

\* GetSelFolder: the folder of that profile, or the one in the header's text.
GetSelFolder ==
  IF cursel = 0 THEN Root
  ELSE IF rows[cursel].kind = "folder" THEN HeaderName[rows[cursel].folder]
  ELSE profiles[rows[cursel].i].folder

\* LB_SETCURSEL: nothing is highlighted when there is no such row.
SetCurSel(n) == cursel' = IF n \in DOMAIN rows' THEN n ELSE 0

\* SelectProfileInList: the row of profile i.
RowOfProfile(i) ==
  IF \E n \in DOMAIN rows' : rows'[n].i = i
  THEN CHOOSE n \in DOMAIN rows' : rows'[n].i = i
  ELSE 0

-----------------------------------------------------------------------------
(* The dialog                                                              *)

Idle == open /\ saving = NotSaving

FirstNamed(name) ==
  IF \E i \in DOMAIN profiles : profiles[i].name = name
  THEN CHOOSE i \in DOMAIN profiles :
         profiles[i].name = name /\ \A j \in 1 .. i - 1 : profiles[j].name # name
  ELSE 0

\* WM_INITDIALOG: the fields are those of the last connection, or of the
\* default one, which is highlighted by its index as if that were its row.
OpenDialog ==
  /\ ~open /\ open' = TRUE
  /\ FillSessionList(profiles, folders)
  /\ LET i == FirstNamed(defaultSession)
     IN  IF i # 0
         THEN /\ selected' = i /\ fields' = profiles[i].host
              /\ loaded' = i /\ chosen' = TRUE
              /\ SetCurSel(i) /\ stray' = (cursel' # RowOfProfile(i))
         ELSE /\ fields' = lastHost /\ loaded' = 0 /\ chosen' = FALSE /\ cursel' = 0
              /\ stray' = FALSE
              /\ UNCHANGED selected
  /\ UNCHANGED <<profiles, defaultSession, lastHost, registry, saving>>

\* The user highlights a row (LBN_SELCHANGE, LBN_DBLCLK).
SelectRow(n) ==
  /\ Idle /\ n \in DOMAIN rows /\ cursel' = n
  /\ IF rows[n].i = 0 THEN UNCHANGED <<selected, fields, chosen, loaded, stray>>
     ELSE /\ selected' = rows[n].i /\ fields' = profiles[rows[n].i].host
          /\ loaded' = rows[n].i /\ chosen' = TRUE /\ stray' = FALSE
  /\ UNCHANGED <<memory, lastHost, open, rows, registry, saving>>

\* Every other notification, as when the focus comes to the list or leaves it
\* (LBN_SETFOCUS, LBN_KILLFOCUS), also takes the highlighted row for the one that
\* is edited, but does not load its fields.
FocusList ==
  /\ Idle /\ GetSelProfile # 0
  /\ selected' = GetSelProfile
  /\ UNCHANGED <<memory, lastHost, open, fields, rows, cursel, chosen, loaded, stray, registry, saving>>

Edit ==
  /\ Idle /\ GetSelProfile # 0
  /\ selected' = GetSelProfile /\ fields' = profiles[GetSelProfile].host
  /\ loaded' = GetSelProfile /\ chosen' = TRUE /\ stray' = FALSE
  /\ UNCHANGED <<memory, lastHost, open, rows, cursel, registry, saving>>

\* New, which leaves the list as it is, and typing into the fields.
NewSession ==
  /\ Idle /\ selected' = 0 /\ fields' = None /\ loaded' = 0 /\ chosen' = TRUE
  /\ stray' = (GetSelProfile # 0)
  /\ UNCHANGED <<memory, lastHost, open, rows, cursel, registry, saving>>

Type(h) ==
  /\ Idle /\ fields' = h
  /\ UNCHANGED <<memory, selected, lastHost, open, rows, cursel, chosen, loaded, stray, registry, saving>>

\* The dialog ends.
EndDialog == open' = FALSE /\ rows' = <<>> /\ cursel' = 0

\* OK takes the fields over before it looks at them; the dialog stays when there
\* is no host, or neither a password nor a key.
OK ==
  /\ Idle /\ lastHost' = fields
  /\ \/ UNCHANGED <<open, rows, cursel>>
     \/ fields # None /\ EndDialog
  /\ UNCHANGED <<memory, selected, fields, chosen, loaded, stray, registry, saving>>

Cancel ==
  /\ Idle /\ EndDialog
  /\ UNCHANGED <<memory, selected, lastHost, fields, chosen, loaded, stray, registry, saving>>

\* A handler changes the profiles and calls SaveSftpConfigurationImmediately;
\* what it does after that is SaveReturns.
Saves(by, target) ==
  /\ saving' = [by |-> by, target |-> target, at |-> 0]
  /\ UNCHANGED <<lastHost, open, fields, rows, cursel, registry>>

Rename(name) ==
  /\ Idle /\ GetSelProfile # 0
  /\ profiles' = [profiles EXCEPT ![GetSelProfile].name = name]
  /\ Saves("rename", GetSelProfile)
  /\ UNCHANGED <<folders, defaultSession, selected, chosen, loaded, stray>>

\* New folder; the highlighted profile moves there.
NewFolder(f) ==
  /\ Idle
  /\ folders' = AddFolder(folders, f)
  /\ profiles' = IF GetSelProfile = 0 THEN profiles
                 ELSE [profiles EXCEPT ![GetSelProfile].folder = f]
  /\ Saves("folder", GetSelProfile)
  /\ UNCHANGED <<defaultSession, selected, chosen, loaded, stray>>

SetDefault ==
  /\ Idle /\ GetSelProfile # 0
  /\ defaultSession' = profiles[GetSelProfile].name
  /\ Saves("default", 0)
  /\ UNCHANGED <<profiles, folders, selected, chosen, loaded, stray>>

\* Save: over the profile g_SelectedProfileIndex names, whose name and folder
\* are kept, else over the one of the generated name, else as a new one.
SaveSession ==
  LET editing == selected \in DOMAIN profiles
      target == IF editing THEN selected ELSE FirstNamed(fields)
      folder == IF editing /\ GetSelFolder = Root THEN profiles[selected].folder ELSE GetSelFolder
      p == [name |-> IF editing THEN profiles[selected].name ELSE fields,
            host |-> fields, folder |-> folder]
      at == IF target # 0 THEN target ELSE Len(profiles) + 1
  IN  /\ Idle /\ fields # None
      /\ at <= MaxProfiles
      /\ profiles' = IF target # 0 THEN [profiles EXCEPT ![target] = p] ELSE Append(profiles, p)
      /\ selected' = at /\ loaded' = at /\ chosen' = TRUE /\ stray' = FALSE
      /\ Saves("save", at)
      /\ UNCHANGED <<folders, defaultSession>>

\* Where the loaded profile is when the one at i is gone.
LoadedWithout(i) == IF loaded = i THEN 0 ELSE IF loaded > i THEN loaded - 1 ELSE loaded

\* Mutant of DeleteSession: the fields still belong to the index of the one that was deleted.
DeleteKeepsIndex ==
  /\ Idle /\ GetSelProfile # 0
  /\ profiles' = RemoveAt(profiles, GetSelProfile)
  /\ loaded' = LoadedWithout(GetSelProfile) /\ stray' = FALSE
  /\ Saves("delete", 0)
  /\ UNCHANGED <<folders, defaultSession, selected, chosen>>

\* Delete moves the profiles behind it up, and forgets which one is edited.
DeleteSession ==
  /\ Idle /\ GetSelProfile # 0
  /\ profiles' = RemoveAt(profiles, GetSelProfile)
  /\ selected' = 0
  /\ loaded' = LoadedWithout(GetSelProfile) /\ stray' = FALSE
  /\ Saves("delete", 0)
  /\ UNCHANGED <<folders, defaultSession, chosen>>

-----------------------------------------------------------------------------
(* The registry                                                            *)

\* SaveConfiguration: the values of the plugin's key and the count, and then
\* one key after the other.
SaveHeader ==
  /\ saving.by # None /\ saving.at = 0
  /\ registry' = [registry EXCEPT !.default = defaultSession, !.folders = folders,
                                  !.count = Len(profiles)]
  /\ saving' = [saving EXCEPT !.at = 1]
  /\ UNCHANGED <<memory, dialog>>

\* Mutant of SaveServer: a key that exists is not written again.
SaveNewServer ==
  /\ saving.by # None /\ saving.at \in DOMAIN profiles
  /\ registry' = IF registry.servers[saving.at] # NoProfile THEN registry
                 ELSE [registry EXCEPT !.servers[saving.at] = profiles[saving.at]]
  /\ saving' = [saving EXCEPT !.at = @ + 1]
  /\ UNCHANGED <<memory, dialog>>

SaveServer ==
  /\ saving.by # None /\ saving.at \in DOMAIN profiles
  /\ registry' = [registry EXCEPT !.servers[saving.at] = profiles[saving.at]]
  /\ saving' = [saving EXCEPT !.at = @ + 1]
  /\ UNCHANGED <<memory, dialog>>

\* The handler goes on: the list is filled again, except after a default, and a
\* row highlighted: Rename uses the index of the profile, Save looks for its row.
SaveReturns ==
  /\ saving.by # None /\ saving.at = Len(profiles) + 1
  /\ saving' = NotSaving
  /\ IF saving.by = "default" THEN UNCHANGED <<folders, rows, cursel>>
     ELSE /\ FillSessionList(profiles, folders)
          /\ CASE saving.by = "rename" -> SetCurSel(saving.target)
               [] saving.by = "save" -> cursel' = RowOfProfile(saving.target)
               [] OTHER -> cursel' = 0
  /\ stray' = (stray \/ (saving.by = "rename" /\ cursel' # RowOfProfile(saving.target)))
  /\ UNCHANGED <<profiles, defaultSession, selected, lastHost, open, fields, chosen, loaded,
                 registry>>

\* LoadConfiguration: the keys below the count that exist.
LoadServers(r) ==
  LET read[n \in 0 .. r.count] ==
        IF n = 0 THEN <<>>
        ELSE IF r.servers[n] = NoProfile THEN read[n - 1]
        ELSE Append(read[n - 1], r.servers[n])
  IN  read[r.count]

\* The process ends, at any moment, and starts again.
Restart ==
  /\ profiles' = LoadServers(registry) /\ folders' = registry.folders
  /\ defaultSession' = registry.default
  /\ selected' = 0 /\ lastHost' = None /\ open' = FALSE /\ fields' = None
  /\ rows' = <<>> /\ cursel' = 0 /\ loaded' = 0 /\ chosen' = FALSE /\ stray' = FALSE
  /\ saving' = NotSaving
  /\ UNCHANGED registry

Next ==
  \/ OpenDialog \/ FocusList \/ Edit \/ NewSession \/ OK \/ Cancel
  \/ SetDefault \/ SaveSession \/ DeleteSession
  \/ \E n \in DOMAIN rows : SelectRow(n)
  \/ \E h \in Hosts : Type(h)
  \/ \E name \in Names : Rename(name)
  \/ \E f \in FolderNames : NewFolder(f)
  \/ SaveHeader \/ SaveServer \/ SaveReturns
  \/ Restart

Spec == Init /\ [][Next]_vars

-----------------------------------------------------------------------------
(* Properties                                                              *)

\* What is in the registry is what is in memory whenever no save is under way;
\* and a process killed while it saves comes back with every connection but the
\* one that was being changed, unless it was deleting: then the keys are moved
\* up one by one.
RestartKeepsProfiles ==
  /\ saving = NotSaving => LoadServers(registry) = profiles /\ registry.default = defaultSession
  /\ saving.by \notin {None, "delete"} =>
       \A i \in DOMAIN profiles : i # saving.target =>
         \E j \in DOMAIN LoadServers(registry) : LoadServers(registry)[j] = profiles[i]

\* Every connection has exactly one row, unless its folder is a known one in
\* another case, or there are too many folders.
EveryProfileIsListed ==
  Idle =>
    \A i \in DOMAIN profiles :
      \/ \E n \in DOMAIN rows : \A m \in DOMAIN rows : rows[m].i = i <=> m = n
      \/ /\ profiles[i].folder # Root
         /\ \A n \in DOMAIN folders : folders[n] # profiles[i].folder
         /\ FolderKnown(folders, profiles[i].folder) \/ Len(folders) = MaxFolders

\* Once the user has chosen a connection, or New, in this dialog, Save writes
\* over the connection the fields were loaded from, and over no other, wherever
\* the focus goes.  Exempt is what follows a highlighted row that is not theirs:
\* New leaves the old one highlighted, and WM_INITDIALOG and Rename highlight the
\* row that has the profile's index for its number.
SaveHitsTheLoaded ==
  open /\ chosen /\ ~stray /\ selected \in DOMAIN profiles => selected = loaded

=============================================================================
