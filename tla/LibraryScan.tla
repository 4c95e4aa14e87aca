---- MODULE LibraryScan ----
(***************************************************************************)
(* The music folder and its rows in library_songs: full scans, which a       *)
(* coalescing wrapper starts (services/coalesced-run.ts, index.ts), scoped   *)
(* re-buckets after a curation fix, which take turns with them, and the      *)
(* reconcile of an album's folder after a download or a tag edit, which does *)
(* not (services/library-scanner.ts).  Files land, are retagged and deleted  *)
(* (services/library-deletion.ts) while a scan walks, reads and builds.      *)
(*                                                                           *)
(* A file's content is a version of its tags, 0 when it is not there.  A     *)
(* row carries the tags it was built from and the version of the curator's   *)
(* authority (splits, aliases, overrides) it was built under.  Of the files  *)
(* of one track only the best has a row (services/library-track-select.ts).  *)
(***************************************************************************)
EXTENDS Integers, Sequences, FiniteSets

CONSTANTS File,        \* paths a song may have
          AlbumDir,    \* the folder each is in
          Reconcile,   \* reconciles that may run at the same time
          Caller,      \* requests for a full sync
          TrackOf(_, _, _, _), \* album, disc and title of a file, by its tags, the
                       \* authority, and whether the library knows the file
          Rank(_, _),  \* of a file, by its tags: quality, then path; 0 is best
          Versions,    \* bound: versions a file's tags go through
          MaxFix,      \* bound: curation fixes
          MaxMisses    \* bound: crashes, scans that throw, unreadable folders

ASSUME ScanAssumption ==
  /\ IsFiniteSet(File) /\ File # {} /\ DOMAIN AlbumDir = File
  /\ Versions \in [File -> Nat \ {0}] /\ MaxFix \in Nat /\ MaxMisses \in Nat
  /\ \A f, g \in File : \A v \in 0..Versions[f], w \in 0..Versions[g] :
       Rank(f, v) \in Nat /\ (Rank(f, v) = Rank(g, w) => f = g)

VARIABLES
  disk,      \* each file's tags
  songs,     \* each path's row
  fix,       \* the curator's authority
  turns,     \* exclusive(): full scans and re-buckets, the head under way
  stage,     \* how far it is
  todo,      \* folders its walk has still to read
  found,     \* files it has still to read
  read,      \* the tags it read
  loaded,    \* the authority it builds under
  known,     \* the files that had rows then
  broken,    \* unreadableDirs: its walk is incomplete
  fresh,     \* rows stamped since it started
  trailing,  \* callers of the queued trailing run
  due,       \* the run it waits for has settled
  album,     \* the reconciles
  owed,      \* files changed whose reconcile has not started
  freed,     \* paths a delete freed
  misses,
  seen,      \* per caller, the files nothing else touched since its call
  missed,    \* files whose last look failed
  outdone    \* files the last build that read them passed over for a better copy

turnVars == <<stage, todo, found, read, loaded, known, broken, fresh>>
callVars == <<turns, trailing, due>>
libVars == <<disk, songs, fix, turnVars, callVars, album, owed, freed, misses, seen, missed,
             outdone>>

NoRow == [tags |-> 0, fix |-> 0]
Unread == [f \in File |-> 0]
InDir(d) == {f \in File : AlbumDir[f] = d /\ disk[f] # 0}
Folders == {AlbumDir[f] : f \in File}
Rows == {f \in File : songs[f].tags # 0}

Sync(callers) == [kind |-> "sync", callers |-> callers]
Rebucket == [kind |-> "rebucket", callers |-> {}]
SyncIn(queue) == \E i \in DOMAIN queue : queue[i].kind = "sync"
Scanning == stage # "idle" /\ Head(turns).kind = "sync"
Waiting(c) == c \in trailing \/ \E i \in DOMAIN turns : c \in turns[i].callers

Resting == [at |-> "idle", dir |-> CHOOSE d \in Folders : TRUE, files |-> {},
            since |-> FALSE, read |-> Unread]
AtRest == turns = <<>> /\ ~due /\ owed = {} /\ \A r \in Reconcile : album[r].at = "idle"

(* selectAlbumTracks: of the files a build reads, with these tags, under     *)
(* this authority and with these rows, g is a better copy of the track of f. *)
Outdoes(g, f, tags, authority, rows) ==
  /\ tags[f] # 0 /\ tags[g] # 0
  /\ TrackOf(f, tags[f], authority, f \in rows) = TrackOf(g, tags[g], authority, g \in rows)
  /\ Rank(g, tags[g]) < Rank(f, tags[f])
Selected(tags, authority, rows) ==
  {f \in File : tags[f] # 0 /\ ~ \E g \in File : Outdoes(g, f, tags, authority, rows)}

(* What a build that read these tags leaves of the histories.                *)
Looked(tags, chosen) ==
  LET built == {f \in File : tags[f] # 0}
  IN  /\ missed' = missed \ built
      /\ outdone' = (outdone \ chosen) \cup (built \ chosen)

NoTurn ==
  /\ stage' = "idle" /\ todo' = {} /\ found' = {} /\ read' = Unread
  /\ loaded' = 0 /\ known' = {} /\ broken' = FALSE /\ fresh' = {}

LibInit ==
  /\ disk \in [File -> 0..1]
  /\ songs \in [File -> [tags : 0..1, fix : {0}]]
  /\ fix = 0
  /\ turns = <<Sync({})>> /\ trailing = {} /\ due = FALSE      \* the boot's sync
  /\ stage = "idle" /\ todo = {} /\ found = {} /\ read = Unread
  /\ loaded = 0 /\ known = {} /\ broken = FALSE /\ fresh = {}
  /\ album = [r \in Reconcile |-> Resting] /\ owed = {}
  /\ freed = {f \in File : disk[f] = 0 /\ songs[f].tags # 0}
  /\ misses = 0 /\ seen = [c \in Caller |-> {}] /\ missed = {} /\ outdone = {}

Touched(changed) == [c \in Caller |-> seen[c] \ changed]

(* The organizer files a download, or a retag rewrites a file; the reconcile *)
(* of its folder follows.  Bound: a path that a delete freed is filled again *)
(* only while nothing scans.                                                 *)
Land(f) ==
  /\ disk[f] < Versions[f] /\ (f \in freed => AtRest)
  /\ disk' = [disk EXCEPT ![f] = @ + 1]
  /\ owed' = owed \cup {f} /\ freed' = freed \ {f}
  /\ seen' = Touched({f}) /\ outdone' = outdone \ {f}
  /\ UNCHANGED <<songs, fix, turnVars, callVars, album, misses, missed>>

(* deleteOne: the file and the row in one turn.  Where the row's file is not *)
(* there, one of another song whose name shares a word with it is taken.     *)
Delete(f) ==
  /\ songs[f].tags # 0
  /\ \E gone \in IF disk[f] # 0 THEN {{f}}
                 ELSE {{}} \cup {{g} : g \in {h \in File : disk[h] # 0}} :
       /\ disk' = [g \in File |-> IF g \in gone THEN 0 ELSE disk[g]]
       /\ freed' = freed \cup gone
       /\ seen' = Touched(gone \cup {f})
  /\ songs' = [songs EXCEPT ![f] = NoRow]
  /\ UNCHANGED <<fix, turnVars, callVars, album, owed, misses, missed, outdone>>

(* A curator's fix is stored and re-bucketed.                                *)
Fix_SkipsWhileScanning ==
  /\ fix < MaxFix
  /\ fix' = fix + 1
  /\ turns' = IF SyncIn(turns) THEN turns ELSE Append(turns, Rebucket)
  /\ UNCHANGED <<disk, songs, turnVars, trailing, due, album, owed, freed, misses, seen,
                 missed, outdone>>
Fix ==
  /\ fix < MaxFix
  /\ fix' = fix + 1
  /\ turns' = Append(turns, Rebucket)
  /\ UNCHANGED <<disk, songs, turnVars, trailing, due, album, owed, freed, misses, seen,
                 missed, outdone>>

---------------------------------------------------------------------------
(* coalescedRun: a call starts a run, or joins the one trailing run while    *)
(* another is in flight.                                                     *)
Joins_Current(c) ==
  LET last == CHOOSE i \in DOMAIN turns :
                turns[i].kind = "sync" /\ \A j \in DOMAIN turns : j > i => turns[j].kind # "sync"
  IN  /\ turns' = [turns EXCEPT ![last].callers = @ \cup {c}]
      /\ UNCHANGED trailing
Joins(c) == trailing' = trailing \cup {c} /\ UNCHANGED turns

SyncCalled(c) ==
  /\ ~Waiting(c)
  /\ IF SyncIn(turns) THEN Joins(c)
     ELSE turns' = Append(turns, Sync({c})) /\ UNCHANGED trailing
  /\ seen' = [seen EXCEPT ![c] = File]
  /\ UNCHANGED <<disk, songs, fix, turnVars, due, album, owed, freed, misses, missed,
                 outdone>>

(* Some microtasks after the run before it settled; a call in between has    *)
(* started a run of its own.                                                 *)
TrailStarts ==
  /\ due
  /\ turns' = Append(turns, Sync(trailing))
  /\ trailing' = {} /\ due' = FALSE
  /\ UNCHANGED <<disk, songs, fix, turnVars, album, owed, freed, misses, seen, missed,
                 outdone>>

(* The head of the queue settles, in success or failure.                     *)
Settled_NoTrailing == NoTurn /\ turns' = Tail(turns) /\ UNCHANGED <<trailing, due>>
Settled ==
  /\ NoTurn
  /\ turns' = Tail(turns)
  /\ due' = (due \/ (trailing # {} /\ SyncIn(turns) /\ ~SyncIn(turns')))
  /\ UNCHANGED trailing

---------------------------------------------------------------------------
(* scanFullNow: the folders there are when the root is read.                 *)
ScanStarts ==
  /\ turns # <<>> /\ stage = "idle" /\ Head(turns).kind = "sync"
  /\ todo' = {d \in Folders : InDir(d) # {}}
  /\ stage' = IF todo' = {} THEN "read" ELSE "walk"
  /\ fresh' = {}
  /\ album' = [r \in Reconcile |-> [album[r] EXCEPT !.since = FALSE]]
  /\ UNCHANGED <<disk, songs, fix, found, read, loaded, known, broken, callVars, owed,
                 freed, misses, seen, missed, outdone>>

(* A folder is read, or is gone (one without songs may be) or unreadable.    *)
WalkFolder(d) ==
  /\ stage = "walk" /\ d \in todo
  /\ todo' = todo \ {d}
  /\ stage' = IF todo' = {} THEN "read" ELSE "walk"
  /\ \/ /\ found' = found \cup InDir(d)
        /\ \E gone \in BOOLEAN : (gone => InDir(d) = {}) /\ broken' = (broken \/ gone)
        /\ UNCHANGED <<misses, missed>>
     \/ /\ misses < MaxMisses /\ misses' = misses + 1
        /\ broken' = TRUE
        /\ missed' = missed \cup {f \in File : AlbumDir[f] = d}
        /\ UNCHANGED found
  /\ UNCHANGED <<disk, songs, fix, read, loaded, known, fresh, callVars, album, owed,
                 freed, seen, outdone>>

(* readTracks: the file's tags, from the scan cache if it has not changed.   *)
ReadTrack(f) ==
  /\ stage = "read" /\ f \in found
  /\ found' = found \ {f}
  /\ read' = [read EXCEPT ![f] = disk[f]]
  /\ UNCHANGED <<disk, songs, fix, stage, todo, loaded, known, broken, fresh, callVars,
                 album, owed, freed, misses, seen, missed, outdone>>

(* The authority and the known paths go to the worker that builds.           *)
BuildStarts ==
  /\ stage = "read" /\ found = {} /\ Scanning
  /\ stage' = "build" /\ loaded' = fix /\ known' = Rows
  /\ UNCHANGED <<disk, songs, fix, todo, found, read, broken, fresh, callVars, album,
                 owed, freed, misses, seen, missed, outdone>>

(* persist: what was built is written; then, unless the walk was incomplete, *)
(* every row goes that is neither built nor stamped since the scan started:  *)
(* of a file that is gone, or was passed over for a better copy.             *)
Built == Selected(read, loaded, known)
Prunes_Always(f) == f \notin fresh
Prunes(f) == ~broken /\ f \notin fresh
ScanPersists ==
  /\ stage = "build"
  /\ songs' = [f \in File |->
                 IF f \in Built THEN [tags |-> read[f], fix |-> loaded]
                 ELSE IF Prunes(f) THEN NoRow ELSE songs[f]]
  /\ Looked(read, Built)
  /\ Settled
  /\ seen' = [c \in Caller |-> IF c \in Head(turns).callers THEN {} ELSE seen[c]]
  /\ UNCHANGED <<disk, fix, album, owed, freed, misses>>

(* rebucketArtists: the rows' files, from cached tags.                       *)
RebucketStarts ==
  /\ turns # <<>> /\ stage = "idle" /\ Head(turns).kind = "rebucket"
  /\ stage' = "read"
  /\ found' = Rows
  /\ UNCHANGED <<disk, songs, fix, todo, read, loaded, known, broken, fresh, callVars,
                 album, owed, freed, misses, seen, missed, outdone>>

(* A row of a file that was passed over stays as it is.                      *)
RebucketPersists ==
  /\ stage = "read" /\ found = {} /\ ~Scanning
  /\ LET chosen == Selected(read, fix, Rows)
     IN  /\ songs' = [f \in File |-> IF f \in chosen THEN [tags |-> read[f], fix |-> fix]
                                     ELSE songs[f]]
         /\ Looked(read, chosen)
  /\ seen' = Touched({f \in File : songs'[f] # songs[f]})
  /\ Settled
  /\ UNCHANGED <<disk, fix, album, owed, freed, misses>>

TurnThrows ==
  /\ stage # "idle" /\ misses < MaxMisses
  /\ misses' = misses + 1
  /\ missed' = File
  /\ Settled
  /\ seen' = [c \in Caller |-> IF c \in Head(turns).callers THEN {} ELSE seen[c]]
  /\ UNCHANGED <<disk, songs, fix, album, owed, freed, outdone>>

---------------------------------------------------------------------------
(* reconcileAlbums: the folder of a changed file; where it cannot be read,   *)
(* or is gone, a walk in progress counts as incomplete too.                  *)
ReconcileWalks(r, f) ==
  /\ album[r].at = "idle" /\ f \in owed
  /\ owed' = owed \ {f}
  /\ \/ /\ InDir(AlbumDir[f]) # {}
        /\ album' = [album EXCEPT ![r] =
             [at |-> "read", dir |-> AlbumDir[f], files |-> InDir(AlbumDir[f]),
              since |-> Scanning, read |-> Unread]]
        /\ UNCHANGED <<broken, misses, missed>>
     \/ /\ InDir(AlbumDir[f]) = {}
        /\ \E gone \in BOOLEAN : broken' = (broken \/ (gone /\ stage = "walk"))
        /\ UNCHANGED <<album, misses, missed>>
     \/ /\ misses < MaxMisses /\ misses' = misses + 1
        /\ broken' = (broken \/ stage = "walk")
        /\ missed' = missed \cup {f}
        /\ UNCHANGED album
  /\ UNCHANGED <<disk, songs, fix, stage, todo, found, read, loaded, known, fresh, callVars,
                 freed, seen, outdone>>

ReconcileReads(r, f) ==
  /\ f \in album[r].files
  /\ album' = [album EXCEPT ![r].files = @ \ {f}, ![r].read[f] = disk[f]]
  /\ UNCHANGED <<disk, songs, fix, turnVars, callVars, owed, freed, misses, seen, missed,
                 outdone>>

(* persist, which stamps the rows it changes, and pruneAlbumOrphans: a row   *)
(* of the album goes only if its file is not there now.                      *)
ReconcilePersists(r) ==
  /\ album[r].at = "read" /\ album[r].files = {}
  /\ LET got == {f \in File : album[r].read[f] # 0}
         chosen == Selected(album[r].read, fix, Rows)
     IN  /\ songs' = [f \in File |->
              IF AlbumDir[f] = album[r].dir /\ got # {} /\ disk[f] = 0 THEN NoRow
              ELSE IF f \in chosen THEN [tags |-> album[r].read[f], fix |-> fix] ELSE songs[f]]
         /\ Looked(album[r].read, chosen)
  /\ LET changed == {f \in File : songs'[f] # songs[f]}
     IN  /\ fresh' = IF album[r].since THEN fresh \cup changed ELSE fresh
         /\ seen' = Touched(changed)
  /\ album' = [album EXCEPT ![r] = Resting]
  /\ UNCHANGED <<disk, fix, stage, todo, found, read, loaded, known, broken, callVars,
                 owed, freed, misses>>

(* A restart: the files, the rows and the authority stay, and boot syncs.    *)
Boot_NoSync == <<>>
Boot == <<Sync({})>>
LibCrash ==
  /\ misses < MaxMisses /\ misses' = misses + 1
  /\ NoTurn
  /\ turns' = Boot /\ trailing' = {} /\ due' = FALSE
  /\ album' = [r \in Reconcile |-> Resting] /\ owed' = {}
  /\ seen' = [c \in Caller |-> {}]
  /\ UNCHANGED <<disk, songs, fix, freed, missed, outdone>>

Turn ==
  \/ ScanStarts \/ BuildStarts \/ ScanPersists \/ RebucketStarts \/ RebucketPersists
  \/ \E d \in todo : WalkFolder(d)
  \/ \E f \in found : ReadTrack(f)

LibNext ==
  \/ \E f \in File : Land(f) \/ Delete(f)
  \/ Fix \/ (\E c \in Caller : SyncCalled(c)) \/ TrailStarts
  \/ Turn \/ TurnThrows
  \/ \E r \in Reconcile, f \in File : ReconcileWalks(r, f) \/ ReconcileReads(r, f)
  \/ \E r \in Reconcile : ReconcilePersists(r)
  \/ LibCrash

(* Awaited steps of one queue, and a microtask.                              *)
LibFairness == WF_libVars(Turn) /\ WF_libVars(TrailStarts)

LibSpec == LibInit /\ [][LibNext]_libVars /\ LibFairness

---------------------------------------------------------------------------
Content(f) == 0..Versions[f]

(* The variables hold values of their types; only the head of the queue has  *)
(* state, and a trailing run is waited for exactly while it has callers.     *)
LibTypeOK ==
  /\ disk \in [File -> Nat] /\ fix \in 0..MaxFix /\ loaded \in 0..MaxFix
  /\ songs \in [File -> [tags : Nat, fix : 0..MaxFix]] /\ read \in [File -> Nat]
  /\ turns \in Seq([kind : {"sync", "rebucket"}, callers : SUBSET Caller])
  /\ stage \in {"idle", "walk", "read", "build"} /\ todo \subseteq Folders
  /\ found \subseteq File /\ broken \in BOOLEAN
  /\ fresh \subseteq File /\ known \subseteq File /\ trailing \subseteq Caller /\ due \in BOOLEAN
  /\ album \in [Reconcile -> [at : {"idle", "read"}, dir : Folders, files : SUBSET File,
                              since : BOOLEAN, read : [File -> Nat]]]
  /\ \A f \in File : {disk[f], songs[f].tags, read[f]} \subseteq Content(f)
  /\ \A f \in File, r \in Reconcile : album[r].read[f] \in Content(f)
  /\ owed \subseteq File /\ freed \subseteq File /\ misses \in 0..MaxMisses
  /\ seen \in [Caller -> SUBSET File] /\ missed \subseteq File /\ outdone \subseteq File
  /\ turns = <<>> => stage = "idle"
  /\ due => trailing # {}
  /\ trailing # {} => due \/ SyncIn(turns)

(* A better copy of f's track that the scan built in its place.              *)
Stands(g, f) ==
  g \in Built /\ Outdoes(g, f, read, loaded, known) /\ songs'[g].tags = read[g]

(* No scan takes the row of a file that is there - not of one that lands or  *)
(* is retagged while the scan walks, nor of one it could not reach - but for *)
(* the row of a better copy, which the same scan writes.                     *)
NoSongLost ==
  [][\A f \in File : songs[f].tags # 0 /\ songs'[f].tags = 0 =>
       disk'[f] = 0 \/ \E g \in File : Stands(g, f)]_libVars

(* Once everything asked for is done, every file has a row - after a restart *)
(* between a landing and its reconcile too - but for those a failed look     *)
(* missed and those the last build that read them, after their last change,  *)
(* passed over for a better copy.                                            *)
Indexed ==
  AtRest => \A f \in File : disk[f] # 0 => songs[f].tags # 0 \/ f \in missed \cup outdone

(* A fix is in every row built from a file unless a turn that will load it   *)
(* is still to come: an overlapping scan never has the last word.  Except in *)
(* a row that waits for a full scan to take it, its file being passed over.  *)
FixHolds ==
  \A f \in File : disk[f] # 0 /\ songs[f].tags # 0 /\ songs[f].fix # fix =>
    \/ f \in owed \/ (\E r \in Reconcile : f \in album[r].files \/ album[r].read[f] # 0)
    \/ f \in missed \cup outdone \/ Len(turns) > 1
    \/ turns # <<>> /\ (stage = "build" => loaded = fix)

(* "So it still observes every change made before the call"                  *)
(* (services/coalesced-run.ts:6): when a sync is answered, a file that       *)
(* nothing else touched since the call has its row, and only that, or else   *)
(* none and a better copy stands in for it, unless the walk was incomplete.  *)
SyncObserves ==
  [][\A c \in Caller : (Waiting(c) /\ ~Waiting(c)' /\ misses' = misses) =>
       broken \/ \A f \in seen[c] :
         songs'[f].tags = disk[f] \/ (songs'[f].tags = 0 /\ \E g \in File : Stands(g, f))]_libVars

(* Every sync asked for is answered.                                         *)
SyncAnswered == \A c \in Caller : Waiting(c) ~> ~Waiting(c)
====
