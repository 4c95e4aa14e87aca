---- MODULE LibraryProofs ----
(***************************************************************************)
(* What the library promises of files, proved of its scans and its imports.  *)
(*                                                                           *)
(* No scan takes the row of a file that is there, unless it writes the row   *)
(* of a better copy of the track: for every set of files and folders, every  *)
(* way tracks have several copies, every number of reconciles, callers,      *)
(* fixes and failures.  Of the copies of a track one is best, and is built.  *)
(*                                                                           *)
(* A prune looks at what its scan read, which may be long past.  The row of  *)
(* a file that is there survives for one of four reasons, which InReach      *)
(* states of every moment of a scan: the scan has read the file, it still    *)
(* will, a reconcile has stamped the row since the scan started, or the      *)
(* walk is incomplete and nothing is pruned.  A reconcile that walked before *)
(* the scan started stamps nothing, so what it holds must be in reach too.   *)
(*                                                                           *)
(* No fix is forgotten and no file goes without its row: Follows states, of  *)
(* every file whose row lacks the fix or that has none, what will look at it *)
(* yet, or that the last look passed it over.  The turn under way counts     *)
(* only for what it has ahead or in hand, and the last of the queue builds   *)
(* under the authority there is.                                             *)
(*                                                                           *)
(* No import loses an original: for every source, any number of jobs, and    *)
(* every way its files are staged.  What a run has staged but not filed is   *)
(* lost with its staging directory, unless it is a copy (Copies), or the run *)
(* knows that it took it and sends it home (Taken).                          *)
(***************************************************************************)
EXTENDS LibraryScan, LibraryImport, SequenceTheorems, WellFoundedInduction, TLAPS

RowRec == [tags : Nat, fix : Nat]
TurnRec == [kind : {"sync", "rebucket"}, callers : SUBSET Caller]
AlbumRec == [at : {"idle", "read"}, dir : Folders \cup {Resting.dir}, files : SUBSET File,
             since : BOOLEAN, read : [File -> Nat]]

Types ==
  /\ disk \in [File -> Nat] /\ songs \in [File -> RowRec] /\ fix \in Nat /\ loaded \in Nat
  /\ turns \in Seq(TurnRec) /\ stage \in {"idle", "walk", "read", "build"}
  /\ todo \subseteq Folders /\ found \subseteq File /\ read \in [File -> Nat]
  /\ broken \in BOOLEAN /\ fresh \subseteq File /\ trailing \subseteq Caller
  /\ album \in [Reconcile -> AlbumRec]
  /\ turns = <<>> => stage = "idle"
  /\ stage # "walk" => todo = {}
  /\ stage = "build" => found = {} /\ Head(turns).kind = "sync"

Holds(r, f) == f \in album[r].files \/ album[r].read[f] # 0

(* What is remembered of a file that is gone, is of one that was deleted.    *)
GoneFreed == \A f \in File :
  (disk[f] = 0 /\ (songs[f].tags # 0 \/ read[f] # 0 \/ \E r \in Reconcile : Holds(r, f)))
    => f \in freed

(* A file the running scan will persist, or whose row it will spare.         *)
Reached(f) == broken \/ f \in fresh \/ AlbumDir[f] \in todo \/ f \in found \/ read[f] # 0
HasRow(f) == songs[f].tags # 0 \/ \E r \in Reconcile : Holds(r, f) /\ ~album[r].since
InReach == Scanning => \A f \in File : (disk[f] # 0 /\ HasRow(f)) => Reached(f)

IInv == Types /\ GoneFreed /\ InReach

---------------------------------------------------------------------------
(* A queue that is appended to keeps its head.                               *)
LEMMA Queued ==
  ASSUME Types, NEW turn \in TurnRec, turns' = Append(turns, turn)
  PROVE  /\ turns' \in Seq(TurnRec) /\ turns' # <<>>
         /\ turns # <<>> => Head(turns') = Head(turns)
<1>1. turns \in Seq(TurnRec)
  BY DEF Types
<1> QED
  BY <1>1, AppendProperties, HeadTailAppend

LEMMA TurnKinds ==
  /\ Rebucket \in TurnRec
  /\ \A callers \in SUBSET Caller : Sync(callers) \in TurnRec
BY DEF Rebucket, Sync, TurnRec

LEMMA RestingTyped ==
  /\ Resting \in AlbumRec /\ Unread \in [File -> Nat] /\ NoRow \in RowRec
  /\ Resting.files = {} /\ \A f \in File : Resting.read[f] = 0 /\ Unread[f] = 0
  /\ NoRow.tags = 0
<1> DEFINE d == CHOOSE d \in Folders : TRUE
<1>1. Unread \in [File -> Nat] /\ \A f \in File : Unread[f] = 0
  BY DEF Unread
<1>2. Resting.dir = d /\ Resting = [at |-> "idle", dir |-> d, files |-> {}, since |-> FALSE,
                                    read |-> Unread]
  BY DEF Resting
<1> HIDE DEF d
<1> QED
  BY <1>1, <1>2 DEF AlbumRec, RowRec, NoRow

---------------------------------------------------------------------------
(* The selection among the copies of a track.                                *)
LEMMA Chosen ==
  \A tags, authority, rows : \A f \in Selected(tags, authority, rows) : f \in File /\ tags[f] # 0
BY DEF Selected

NatLess == OpToRel(<, Nat)

LEMMA NotLess == \A m, n \in Nat : <<m, n>> \notin NatLess => n <= m
<1>1. NatLess = {p \in Nat \X Nat : p[1] < p[2]}
  BY DEF NatLess, OpToRel
<1> QED
  BY <1>1

LEMMA Least ==
  ASSUME NEW T, T \subseteq Nat, T # {}
  PROVE  \E m \in T : \A n \in T : m <= n
<1>1. IsWellFoundedOn(NatLess, Nat)
  BY NatLessThanWellFounded DEF NatLess
<1>2. PICK m \in T : \A n \in T : <<n, m>> \notin NatLess
  BY <1>1, WFMin
<1>3. \A n \in T : m <= n
  BY <1>2, NotLess
<1> QED
  BY <1>3

(* A file that is passed over loses to one that is built.                    *)
LEMMA BestBuilt ==
  ASSUME NEW tags, \A f \in File : tags[f] \in Content(f), NEW authority, NEW rows,
         NEW f \in File, tags[f] # 0, f \notin Selected(tags, authority, rows)
  PROVE  \E g \in Selected(tags, authority, rows) : Outdoes(g, f, tags, authority, rows)
<1> DEFINE track(g) == TrackOf(g, tags[g], authority, g \in rows)
           rank(g) == Rank(g, tags[g])
           Better == {g \in File : tags[g] # 0 /\ track(f) = track(g) /\ rank(g) < rank(f)}
<1>1. \A g \in File : rank(g) \in Nat
  BY ScanAssumption DEF Content
<1>2. \A g, h : Outdoes(g, h, tags, authority, rows)
                 <=> tags[h] # 0 /\ tags[g] # 0 /\ track(h) = track(g) /\ rank(g) < rank(h)
  BY DEF Outdoes
<1> HIDE DEF track, rank
<1>3. Better # {}
  BY <1>2 DEF Selected
<1>4. PICK g \in Better : \A h \in Better : rank(g) <= rank(h)
  <2> DEFINE T == {rank(g) : g \in Better}
  <2>1. T \subseteq Nat /\ T # {}
    BY <1>1, <1>3
  <2>2. \E m \in T : \A n \in T : m <= n
    BY <2>1, Least
  <2> QED
    BY <2>2
<1>5. ASSUME NEW h \in File, Outdoes(h, g, tags, authority, rows) PROVE FALSE
  <2>1. tags[h] # 0 /\ track(g) = track(h) /\ rank(h) < rank(g)
    BY <1>2, <1>5
  <2>2. rank(h) < rank(f) /\ ~(rank(g) <= rank(h))
    BY <1>1, <2>1
  <2>3. h \in Better
    BY <2>1, <2>2
  <2> QED
    BY <1>4, <2>2, <2>3
<1>6. g \in Selected(tags, authority, rows)
  BY <1>5 DEF Selected
<1> QED
  BY <1>2, <1>4, <1>6

---------------------------------------------------------------------------
(* A step that fills no path and starts no scan keeps what is in reach there,*)
(* and remembers no more.                                                    *)
LEMMA ReachStays ==
  ASSUME InReach, Scanning' => Scanning,
         \A f \in File : (disk'[f] # 0 /\ HasRow(f)') =>
           (disk[f] # 0 /\ HasRow(f) /\ (Reached(f) => Reached(f)')) \/ Reached(f)'
  PROVE  InReach'
BY DEF InReach

LEMMA LandKeeps == ASSUME IInv, NEW f \in File, Land(f) PROVE IInv'
<1>1. /\ disk \in [File -> Nat] /\ disk' = [disk EXCEPT ![f] = disk[f] + 1]
      /\ freed' = freed \ {f} /\ (f \in freed => AtRest)
      /\ UNCHANGED <<songs, fix, turnVars, callVars, album>>
  BY DEF Land, IInv, Types
<1>2. disk' \in [File -> Nat] /\ disk'[f] # 0 /\ \A g \in File \ {f} : disk'[g] = disk[g]
  BY <1>1
<1>3. Types'
  BY <1>1, <1>2 DEF IInv, Types, turnVars, callVars
<1>4. GoneFreed'
  BY <1>1, <1>2 DEF IInv, GoneFreed, Holds, turnVars
<1>5. InReach'
  <2> SUFFICES ASSUME Scanning, NEW g \in File, disk'[g] # 0, HasRow(g)
               PROVE  Reached(g)
    BY <1>1 DEF InReach, Scanning, HasRow, Holds, Reached, turnVars, callVars
  <2>1. CASE disk[g] # 0
    BY <2>1 DEF IInv, InReach
  <2>2. CASE disk[g] = 0
    <3>1. g = f /\ f \in freed
      BY <1>2, <2>2 DEF IInv, GoneFreed, HasRow
    <3> QED
      BY <1>1, <3>1 DEF AtRest, IInv, Types, Scanning
  <2> QED
    BY <2>1, <2>2
<1> QED
  BY <1>3, <1>4, <1>5 DEF IInv

LEMMA DeleteKeeps ==
  ASSUME IInv, NEW f \in File, Delete(f)
  PROVE  /\ IInv'
         /\ \A g \in File : songs[g].tags # 0 /\ songs'[g].tags = 0 => disk'[g] = 0
<1>1. PICK gone \in SUBSET File :
        /\ disk' = [g \in File |-> IF g \in gone THEN 0 ELSE disk[g]]
        /\ freed' = freed \cup gone
        /\ disk[f] # 0 => f \in gone
  <2>1. CASE disk[f] # 0
    BY <2>1 DEF Delete
  <2>2. CASE disk[f] = 0
    BY <2>2 DEF Delete
  <2> QED
    BY <2>1, <2>2 DEF IInv, Types
<1>2. /\ songs' = [songs EXCEPT ![f] = NoRow]
      /\ UNCHANGED <<fix, turnVars, callVars, album>>
  BY DEF Delete
<1>3. /\ songs' \in [File -> RowRec] /\ songs'[f].tags = 0
      /\ \A g \in File \ {f} : songs'[g] = songs[g]
  BY <1>2, RestingTyped DEF IInv, Types
<1>4. /\ disk' \in [File -> Nat] /\ disk'[f] = 0
      /\ \A g \in File : disk'[g] # 0 => disk[g] # 0
      /\ \A g \in File : disk'[g] = 0 => disk[g] = 0 \/ g \in freed'
      /\ freed \subseteq freed'
  BY <1>1 DEF IInv, Types
<1>5. Types'
  BY <1>2, <1>3, <1>4 DEF IInv, Types, turnVars, callVars
<1>6. GoneFreed'
  BY <1>2, <1>3, <1>4 DEF IInv, GoneFreed, Holds, turnVars
<1>7. InReach'
  <2>1. Scanning' => Scanning
    BY <1>2 DEF Scanning, turnVars, callVars
  <2>2. \A g \in File : (disk'[g] # 0 /\ HasRow(g)') =>
          disk[g] # 0 /\ HasRow(g) /\ (Reached(g) => Reached(g)')
    BY <1>2, <1>3, <1>4 DEF HasRow, Holds, Reached, turnVars
  <2> QED
    BY <2>1, <2>2, ReachStays DEF IInv
<1>8. \A g \in File : songs[g].tags # 0 /\ songs'[g].tags = 0 => disk'[g] = 0
  BY <1>3, <1>4
<1> QED
  BY <1>5, <1>6, <1>7, <1>8 DEF IInv

---------------------------------------------------------------------------
(* Calls, fixes and the trailing run: the head of the queue goes on.         *)
LEMMA QueueKeeps ==
  ASSUME IInv, turns' = turns \/ \E turn \in TurnRec : turns' = Append(turns, turn),
         trailing' \subseteq Caller, fix' \in Nat,
         UNCHANGED <<disk, songs, turnVars, album, freed>>
  PROVE  IInv'
<1>1. /\ turns' \in Seq(TurnRec) /\ (turns' = <<>> => turns = <<>>)
      /\ turns # <<>> => Head(turns') = Head(turns)
  BY Queued DEF IInv, Types
<1>2. Types'
  BY <1>1 DEF IInv, Types, turnVars
<1>3. GoneFreed'
  BY DEF IInv, GoneFreed, Holds, turnVars
<1>4. InReach'
  <2>1. Scanning' => Scanning
    BY <1>1 DEF Scanning, IInv, Types, turnVars
  <2>2. \A f \in File : HasRow(f)' => HasRow(f) /\ (Reached(f) => Reached(f)')
    BY DEF HasRow, Holds, Reached, turnVars
  <2> QED
    BY <2>1, <2>2, ReachStays DEF IInv
<1> QED
  BY <1>2, <1>3, <1>4 DEF IInv

LEMMA CallsKeep ==
  ASSUME IInv, Fix \/ (\E c \in Caller : SyncCalled(c)) \/ TrailStarts
  PROVE  IInv' /\ UNCHANGED songs
<1>1. CASE Fix
  <2>1. /\ turns' = Append(turns, Rebucket) /\ fix' \in Nat /\ trailing' \subseteq Caller
        /\ UNCHANGED <<disk, songs, turnVars, album, freed>>
    BY <1>1 DEF Fix, IInv, Types
  <2> QED
    BY <2>1, TurnKinds, QueueKeeps
<1>2. CASE TrailStarts
  <2>1. /\ turns' = Append(turns, Sync(trailing)) /\ Sync(trailing) \in TurnRec
        /\ fix' \in Nat /\ trailing' \subseteq Caller
        /\ UNCHANGED <<disk, songs, turnVars, album, freed>>
    BY <1>2, TurnKinds DEF TrailStarts, IInv, Types
  <2> QED
    BY <2>1, QueueKeeps
<1>3. ASSUME NEW c \in Caller, SyncCalled(c) PROVE IInv' /\ UNCHANGED songs
  <2>1. /\ turns' = turns \/ turns' = Append(turns, Sync({c}))
        /\ Sync({c}) \in TurnRec
        /\ fix' \in Nat /\ trailing' \subseteq Caller
        /\ UNCHANGED <<disk, songs, turnVars, album, freed>>
    BY <1>3, TurnKinds DEF SyncCalled, Joins, IInv, Types
  <2> QED
    BY <2>1, QueueKeeps
<1> QED
  BY <1>1, <1>2, <1>3

---------------------------------------------------------------------------
(* The turn ends: no scan is under way, and rows come from what was read.    *)
LEMMA TurnEnds ==
  ASSUME IInv, NoTurn, turns' \in Seq(TurnRec), trailing' \subseteq Caller,
         UNCHANGED <<disk, fix, freed>>, songs' \in [File -> RowRec],
         \A f \in File : disk[f] = 0 /\ songs'[f].tags # 0 =>
           songs[f].tags # 0 \/ read[f] # 0,
         \/ album' = album
         \/ album' = [r \in Reconcile |-> Resting]
  PROVE  IInv'
<1>1. /\ stage' = "idle" /\ todo' = {} /\ found' = {} /\ loaded' \in Nat /\ broken' = FALSE
      /\ fresh' = {} /\ read' \in [File -> Nat] /\ \A f \in File : read'[f] = 0
  BY RestingTyped DEF NoTurn
<1>2. /\ album' \in [Reconcile -> AlbumRec]
      /\ \A r \in Reconcile, f \in File : Holds(r, f)' => Holds(r, f)
  BY RestingTyped DEF IInv, Types, Holds
<1>3. Types'
  BY <1>1, <1>2 DEF IInv, Types
<1>4. GoneFreed'
  BY <1>1, <1>2 DEF IInv, GoneFreed
<1>5. InReach'
  BY <1>1 DEF InReach, Scanning
<1> QED
  BY <1>3, <1>4, <1>5 DEF IInv

LEMMA SettledEnds ==
  ASSUME IInv, stage # "idle", Settled
  PROVE  NoTurn /\ turns' \in Seq(TurnRec) /\ trailing' \subseteq Caller
<1>1. turns \in Seq(TurnRec) /\ turns # <<>>
  BY DEF IInv, Types
<1>2. Tail(turns) \in Seq(TurnRec)
  BY <1>1
<1> QED
  BY <1>2 DEF Settled, IInv, Types

(* What a prune takes is of a file that is gone or was passed over.          *)
Yields(f) == ScanPersists /\ read[f] # 0 /\ f \notin Built

LEMMA ScanPersistsKeeps ==
  ASSUME IInv, ScanPersists
  PROVE  /\ IInv'
         /\ \A f \in File : songs[f].tags # 0 /\ songs'[f].tags = 0 => disk'[f] = 0 \/ Yields(f)
<1>1. /\ stage = "build" /\ Settled /\ UNCHANGED <<disk, fix, album, freed>>
      /\ songs' = [f \in File |->
                     IF f \in Built THEN [tags |-> read[f], fix |-> loaded]
                     ELSE IF Prunes(f) THEN NoRow ELSE songs[f]]
      /\ \A f \in Built : read[f] # 0
  BY Chosen DEF ScanPersists, Built
<1>2. \A f \in File :
        songs'[f] = IF f \in Built THEN [tags |-> read[f], fix |-> loaded]
                    ELSE IF Prunes(f) THEN NoRow ELSE songs[f]
  BY <1>1
<1>3. /\ songs' \in [File -> RowRec]
      /\ \A f \in File : songs'[f].tags # 0 => songs[f].tags # 0 \/ read[f] # 0
  BY <1>1, <1>2, RestingTyped DEF IInv, Types, RowRec
<1>4. IInv'
  BY <1>1, <1>3, SettledEnds, TurnEnds
<1>5. ASSUME NEW f \in File, songs[f].tags # 0, songs'[f].tags = 0
      PROVE  disk'[f] = 0 \/ Yields(f)
  <2> SUFFICES ASSUME disk[f] # 0, ~Yields(f) PROVE FALSE
    BY <1>1
  <2>1. read[f] = 0 /\ Prunes(f)
    <3>1. CASE f \in Built
      <4>1. songs'[f] = [tags |-> read[f], fix |-> loaded]
        BY <1>2, <3>1
      <4> QED
        BY <1>1, <1>5, <3>1, <4>1
    <3>2. CASE f \notin Built /\ ~Prunes(f)
      <4>1. songs'[f] = songs[f]
        BY <1>2, <3>2
      <4> QED
        BY <1>5, <4>1
    <3> QED
      BY <3>1, <3>2 DEF Yields
  <2>2. todo = {} /\ found = {}
    BY <1>1 DEF IInv, Types
  <2>3. Reached(f)
    <3>1. Scanning
      BY <1>1 DEF IInv, Types, Scanning
    <3> QED
      BY <1>5, <3>1 DEF IInv, InReach, HasRow
  <2> QED
    BY <2>1, <2>2, <2>3 DEF Reached, Prunes
<1> QED
  BY <1>4, <1>5

LEMMA TurnsEndKeep ==
  ASSUME IInv, RebucketPersists \/ TurnThrows \/ LibCrash
  PROVE  /\ IInv'
         /\ \A f \in File : songs[f].tags # 0 => songs'[f].tags # 0
<1>1. songs \in [File -> RowRec] /\ read \in [File -> Nat] /\ fix \in Nat
  BY DEF IInv, Types
<1>2. CASE RebucketPersists
  <2> DEFINE chosen == Selected(read, fix, Rows)
  <2>1. /\ stage # "idle" /\ Settled /\ UNCHANGED <<disk, fix, album, freed>>
        /\ songs' = [f \in File |-> IF f \in chosen THEN [tags |-> read[f], fix |-> fix]
                                    ELSE songs[f]]
    BY <1>2 DEF RebucketPersists
  <2>4. \A f \in chosen : read[f] # 0
    BY Chosen
  <2> HIDE DEF chosen
  <2>2. ASSUME NEW f \in File
        PROVE  /\ songs'[f] \in RowRec
               /\ songs[f].tags # 0 => songs'[f].tags # 0
               /\ songs'[f].tags # 0 => songs[f].tags # 0 \/ read[f] # 0
    <3>1. CASE f \in chosen
      <4>1. songs'[f] = [tags |-> read[f], fix |-> fix]
        BY <2>1, <3>1
      <4> QED
        BY <1>1, <2>4, <3>1, <4>1 DEF RowRec
    <3>2. CASE f \notin chosen
      BY <1>1, <2>1, <3>2
    <3> QED
      BY <3>1, <3>2
  <2>3. songs' \in [File -> RowRec]
    BY <2>1, <2>2
  <2> QED
    BY <2>1, <2>2, <2>3, SettledEnds, TurnEnds
<1>3. CASE TurnThrows
  <2>1. stage # "idle" /\ Settled /\ UNCHANGED <<disk, songs, fix, album, freed>>
    BY <1>3 DEF TurnThrows
  <2> QED
    BY <1>1, <2>1, SettledEnds, TurnEnds
<1>4. CASE LibCrash
  <2>1. /\ NoTurn /\ turns' = <<Sync({})>> /\ trailing' = {}
        /\ UNCHANGED <<disk, songs, fix, freed>>
        /\ album' = [r \in Reconcile |-> Resting]
    BY <1>4 DEF LibCrash, Boot
  <2>2. turns' \in Seq(TurnRec)
    BY <2>1, TurnKinds
  <2> QED
    BY <1>1, <2>1, <2>2, TurnEnds
<1> QED
  BY <1>2, <1>3, <1>4

---------------------------------------------------------------------------
(* A scan starts with every folder that holds a file ahead of it.            *)
LEMMA ScanStartsKeeps == ASSUME IInv, ScanStarts PROVE IInv'
<1>1. /\ turns # <<>> /\ todo' = {d \in Folders : InDir(d) # {}}
      /\ stage' = IF todo' = {} THEN "read" ELSE "walk"
      /\ fresh' = {} /\ album' = [r \in Reconcile |-> [album[r] EXCEPT !.since = FALSE]]
      /\ UNCHANGED <<disk, songs, fix, found, read, loaded, broken, callVars, freed>>
  BY DEF ScanStarts
<1>2. ASSUME NEW r \in Reconcile
      PROVE  /\ [album[r] EXCEPT !.since = FALSE] \in AlbumRec
             /\ album'[r].files = album[r].files /\ album'[r].read = album[r].read
  <2>1. album[r] \in AlbumRec /\ album'[r] = [album[r] EXCEPT !.since = FALSE]
    BY <1>1 DEF IInv, Types
  <2> QED
    BY <2>1 DEF AlbumRec
<1>3. album' \in [Reconcile -> AlbumRec]
  BY <1>1, <1>2
<1>4. Types'
  <2>1. stage' \in {"read", "walk"} /\ (stage' # "walk" => todo' = {})
    BY <1>1
  <2> QED
    BY <1>1, <1>3, <2>1 DEF IInv, Types, callVars
<1>5. GoneFreed'
  BY <1>1, <1>2 DEF IInv, GoneFreed, Holds
<1>6. InReach'
  <2>1. \A f \in File : disk'[f] # 0 => AlbumDir[f] \in todo'
    BY <1>1 DEF InDir, Folders
  <2> QED
    BY <2>1 DEF InReach, Reached
<1> QED
  BY <1>4, <1>5, <1>6 DEF IInv

(* The walk and the reads move what is ahead along, or lose none of it.      *)
LEMMA ScanStepsKeep ==
  ASSUME IInv,
         \/ \E d \in todo : WalkFolder(d)
         \/ \E f \in found : ReadTrack(f)
         \/ BuildStarts \/ RebucketStarts
  PROVE  IInv' /\ UNCHANGED songs
<1>1. ASSUME NEW d \in todo, WalkFolder(d) PROVE IInv' /\ UNCHANGED songs
  <2>1. /\ stage = "walk" /\ todo' = todo \ {d}
        /\ stage' = IF todo' = {} THEN "read" ELSE "walk"
        /\ \/ found' = found \cup InDir(d) /\ \E gone \in BOOLEAN : broken' = (broken \/ gone)
           \/ broken' = TRUE /\ found' = found
        /\ UNCHANGED <<disk, songs, fix, read, loaded, fresh, callVars, album, freed>>
    BY <1>1 DEF WalkFolder
  <2>7. broken' \in BOOLEAN /\ (broken => broken')
    BY <2>1 DEF IInv, Types
  <2>2. /\ stage' \in {"read", "walk"} /\ (stage' # "walk" => todo' = {})
        /\ found' \subseteq File
    BY <2>1 DEF IInv, Types, InDir
  <2>3. Types'
    BY <2>1, <2>2, <2>7 DEF IInv, Types, callVars
  <2>4. GoneFreed'
    BY <2>1 DEF IInv, GoneFreed, Holds
  <2>5. \A f \in File : disk[f] # 0 /\ Reached(f) => Reached(f)'
    BY <2>1, <2>7 DEF Reached, InDir
  <2>6. InReach'
    <3>1. Scanning' => Scanning
      BY <2>1 DEF Scanning, callVars
    <3>2. \A f \in File : disk'[f] # 0 /\ HasRow(f)' => disk[f] # 0 /\ HasRow(f)
      BY <2>1 DEF HasRow, Holds
    <3> QED
      BY <2>5, <3>1, <3>2, ReachStays DEF IInv
  <2> QED
    BY <2>1, <2>3, <2>4, <2>6 DEF IInv
<1>2. ASSUME NEW f \in found, ReadTrack(f) PROVE IInv' /\ UNCHANGED songs
  <2>1. /\ stage = "read" /\ found' = found \ {f} /\ read' = [read EXCEPT ![f] = disk[f]]
        /\ UNCHANGED <<disk, songs, fix, stage, todo, loaded, broken, fresh, callVars, album,
                       freed>>
    BY <1>2 DEF ReadTrack
  <2>2. /\ f \in File /\ read' \in [File -> Nat] /\ read'[f] = disk[f]
        /\ \A g \in File \ {f} : read'[g] = read[g]
    BY <2>1 DEF IInv, Types
  <2>3. Types'
    BY <2>1, <2>2 DEF IInv, Types, callVars
  <2>4. GoneFreed'
    BY <2>1, <2>2 DEF IInv, GoneFreed, Holds
  <2>5. \A g \in File : disk[g] # 0 /\ Reached(g) => Reached(g)'
    BY <2>1, <2>2 DEF Reached
  <2>6. InReach'
    <3>1. Scanning' => Scanning
      BY <2>1 DEF Scanning, callVars
    <3>2. \A g \in File : disk'[g] # 0 /\ HasRow(g)' => disk[g] # 0 /\ HasRow(g)
      BY <2>1 DEF HasRow, Holds
    <3> QED
      BY <2>5, <3>1, <3>2, ReachStays DEF IInv
  <2> QED
    BY <2>1, <2>3, <2>4, <2>6 DEF IInv
<1>3. CASE BuildStarts
  <2>1. /\ stage = "read" /\ found = {} /\ Scanning /\ stage' = "build" /\ loaded' = fix
        /\ UNCHANGED <<disk, songs, fix, todo, found, read, broken, fresh, callVars, album, freed>>
    BY <1>3 DEF BuildStarts
  <2>2. Types'
    BY <2>1 DEF IInv, Types, callVars, Scanning
  <2>3. GoneFreed' /\ InReach'
    BY <2>1 DEF IInv, GoneFreed, InReach, Scanning, HasRow, Holds, Reached, callVars
  <2> QED
    BY <2>1, <2>2, <2>3 DEF IInv
<1>4. CASE RebucketStarts
  <2>1. /\ turns # <<>> /\ stage = "idle" /\ Head(turns).kind = "rebucket" /\ stage' = "read"
        /\ found' = {f \in File : songs[f].tags # 0}
        /\ UNCHANGED <<disk, songs, fix, todo, read, loaded, broken, fresh, callVars, album, freed>>
    BY <1>4 DEF RebucketStarts, Rows
  <2>2. Types'
    BY <2>1 DEF IInv, Types, callVars
  <2>3. GoneFreed' /\ InReach'
    BY <2>1 DEF IInv, GoneFreed, InReach, Scanning, Holds, callVars
  <2> QED
    BY <2>1, <2>2, <2>3 DEF IInv
<1> QED
  BY <1>1, <1>2, <1>3, <1>4

---------------------------------------------------------------------------
(* A reconcile finds files that are there; in a scan, its rows are stamped.  *)
LEMMA ReconcileWalksKeeps ==
  ASSUME IInv, NEW r \in Reconcile, NEW f \in File, ReconcileWalks(r, f)
  PROVE  IInv' /\ UNCHANGED songs
<1>1. UNCHANGED <<disk, songs, fix, stage, todo, found, read, loaded, fresh, callVars, freed>>
  BY DEF ReconcileWalks
<1>2. CASE UNCHANGED album
  <2>1. broken' \in BOOLEAN /\ (broken => broken')
    <3>1. broken' = broken \/ \E less \in BOOLEAN : broken' = (broken \/ less)
      BY DEF ReconcileWalks
    <3>2. broken \in BOOLEAN
      BY DEF IInv, Types
    <3> QED
      BY <3>1, <3>2
  <2>2. Types'
    BY <1>1, <1>2, <2>1 DEF IInv, Types, callVars
  <2>3. GoneFreed'
    BY <1>1, <1>2 DEF IInv, GoneFreed, Holds
  <2>4. InReach'
    BY <1>1, <1>2, <2>1 DEF IInv, InReach, Scanning, HasRow, Holds, Reached, callVars
  <2> QED
    BY <1>1, <2>2, <2>3, <2>4 DEF IInv
<1> DEFINE walk == [at |-> "read", dir |-> AlbumDir[f], files |-> InDir(AlbumDir[f]),
                    since |-> Scanning, read |-> Unread]
<1>3. CASE album' = [album EXCEPT ![r] = walk] /\ broken' = broken
  <2>1. /\ walk \in AlbumRec
        /\ walk.files = InDir(AlbumDir[f]) /\ walk.since = Scanning
        /\ \A g \in File : walk.read[g] = 0
    <3>1. AlbumDir[f] \in Folders /\ InDir(AlbumDir[f]) \subseteq File
      BY DEF Folders, InDir
    <3>2. Scanning \in BOOLEAN
      BY DEF Scanning
    <3> QED
      BY <3>1, <3>2, RestingTyped DEF AlbumRec
  <2> HIDE DEF walk
  <2>2. /\ album' \in [Reconcile -> AlbumRec] /\ album'[r] = walk
        /\ \A o \in Reconcile \ {r} : album'[o] = album[o]
    BY <1>3, <2>1 DEF IInv, Types
  <2>3. Types'
    BY <1>1, <1>3, <2>2 DEF IInv, Types, callVars
  <2>4. GoneFreed'
    <3>1. \A o \in Reconcile, g \in File : disk[g] = 0 /\ Holds(o, g)' => Holds(o, g)
      BY <2>1, <2>2 DEF Holds, InDir
    <3> QED
      BY <1>1, <3>1 DEF IInv, GoneFreed
  <2>5. InReach'
    <3> SUFFICES ASSUME Scanning, NEW g \in File, disk[g] # 0, HasRow(g)'
                 PROVE  Reached(g)
      BY <1>1, <1>3 DEF InReach, Scanning, Reached, callVars
    <3>1. HasRow(g)
      BY <1>1, <2>1, <2>2 DEF HasRow, Holds
    <3> QED
      BY <3>1 DEF IInv, InReach
  <2> QED
    BY <1>1, <2>3, <2>4, <2>5 DEF IInv
<1> QED
  BY <1>1, <1>2, <1>3 DEF ReconcileWalks

LEMMA ReconcileReadsKeeps ==
  ASSUME IInv, NEW r \in Reconcile, NEW f \in File, ReconcileReads(r, f)
  PROVE  IInv' /\ UNCHANGED songs
<1>1. /\ f \in album[r].files
      /\ album' = [album EXCEPT ![r].files = @ \ {f}, ![r].read[f] = disk[f]]
      /\ UNCHANGED <<disk, songs, fix, turnVars, callVars, freed>>
  BY DEF ReconcileReads
<1>2. /\ album \in [Reconcile -> AlbumRec] /\ album[r] \in AlbumRec
      /\ disk \in [File -> Nat] /\ disk[f] \in Nat
  BY DEF IInv, Types
<1> DEFINE looked == [album[r].read EXCEPT ![f] = disk[f]]
<1>3. /\ album'[r] = [album[r] EXCEPT !.files = album[r].files \ {f}, !.read = looked]
      /\ album' = [album EXCEPT ![r] = album'[r]]
  BY <1>1, <1>2 DEF AlbumRec
<1>10. /\ looked \in [File -> Nat]
      /\ \A g \in File \ {f} : looked[g] = album[r].read[g]
  BY <1>2 DEF AlbumRec
<1> HIDE DEF looked
<1>4. /\ album'[r] \in AlbumRec /\ album'[r].since = album[r].since
      /\ album'[r].files \subseteq album[r].files
      /\ \A g \in File \ {f} : album'[r].read[g] = album[r].read[g]
  BY <1>2, <1>3, <1>10 DEF AlbumRec
<1>5. /\ album' \in [Reconcile -> AlbumRec]
      /\ \A o \in Reconcile \ {r} : album'[o] = album[o]
  BY <1>2, <1>3, <1>4
<1>6. \A o \in Reconcile, g \in File :
        album'[o].since = album[o].since /\ (Holds(o, g)' => Holds(o, g))
  BY <1>1, <1>4, <1>5 DEF Holds
<1>7. Types'
  BY <1>1, <1>5 DEF IInv, Types, turnVars, callVars
<1>8. GoneFreed'
  BY <1>1, <1>6 DEF IInv, GoneFreed, turnVars
<1>9. InReach'
  <2>1. Scanning' => Scanning
    BY <1>1 DEF Scanning, turnVars, callVars
  <2>2. \A g \in File : HasRow(g)' => HasRow(g)
    BY <1>1, <1>6 DEF HasRow
  <2>3. \A g \in File : Reached(g) => Reached(g)'
    BY <1>1 DEF Reached, turnVars
  <2> QED
    BY <1>1, <2>1, <2>2, <2>3, ReachStays DEF IInv
<1> QED
  BY <1>1, <1>7, <1>8, <1>9 DEF IInv

(* It takes only rows whose files are gone, and those it writes are stamped  *)
(* or were in reach.                                                         *)
LEMMA ReconcilePersistsKeeps ==
  ASSUME IInv, NEW r \in Reconcile, ReconcilePersists(r)
  PROVE  /\ IInv'
         /\ \A f \in File : songs[f].tags # 0 /\ songs'[f].tags = 0 => disk'[f] = 0
<1> DEFINE got == {f \in File : album[r].read[f] # 0}
           chosen == Selected(album[r].read, fix, Rows)
           Gone(f) == AlbumDir[f] = album[r].dir /\ got # {} /\ disk[f] = 0
           new(f) == [tags |-> album[r].read[f], fix |-> fix]
<1>1. /\ songs' = [f \in File |-> IF Gone(f) THEN NoRow
                                  ELSE IF f \in chosen THEN new(f) ELSE songs[f]]
      /\ fresh' = IF album[r].since THEN fresh \cup {f \in File : songs'[f] # songs[f]} ELSE fresh
      /\ album' = [album EXCEPT ![r] = Resting]
      /\ UNCHANGED <<disk, fix, stage, todo, found, read, loaded, broken, callVars, freed>>
  BY DEF ReconcilePersists
<1>2. /\ songs \in [File -> RowRec] /\ fix \in Nat /\ album \in [Reconcile -> AlbumRec]
      /\ album[r].read \in [File -> Nat] /\ fresh \subseteq File
  BY DEF IInv, Types, AlbumRec
<1>9. \A f \in chosen : album[r].read[f] # 0
  BY Chosen
<1> HIDE DEF chosen
<1>3. ASSUME NEW f \in File
      PROVE  /\ songs'[f] \in RowRec
             /\ songs[f].tags # 0 /\ songs'[f].tags = 0 => disk[f] = 0
             /\ songs'[f].tags # 0 => songs'[f] = songs[f] \/ Holds(r, f)
  <2>1. CASE Gone(f)
    BY <1>1, <2>1, RestingTyped
  <2>2. CASE ~Gone(f) /\ f \in chosen
    <3>1. songs'[f] = new(f)
      BY <1>1, <2>2
    <3>2. songs'[f] \in RowRec /\ songs'[f].tags # 0
      BY <1>2, <1>9, <2>2, <3>1 DEF RowRec
    <3> QED
      BY <1>9, <2>2, <3>2 DEF Holds
  <2>3. CASE ~Gone(f) /\ f \notin chosen
    <3>1. songs'[f] = songs[f]
      BY <1>1, <2>3
    <3> QED
      BY <1>2, <3>1
  <2> QED
    BY <2>1, <2>2, <2>3
<1>4. songs' \in [File -> RowRec] /\ fresh' \subseteq File /\ fresh \subseteq fresh'
  BY <1>1, <1>2, <1>3
<1>5. /\ album' \in [Reconcile -> AlbumRec]
      /\ \A o \in Reconcile, f \in File :
           Holds(o, f)' => Holds(o, f) /\ album'[o].since = album[o].since
  BY <1>1, <1>2, RestingTyped DEF Holds
<1>6. Types'
  BY <1>1, <1>4, <1>5 DEF IInv, Types, callVars
<1>7. GoneFreed'
  <2> SUFFICES ASSUME NEW f \in File, disk[f] = 0,
                      songs'[f].tags # 0 \/ read[f] # 0 \/ \E o \in Reconcile : Holds(o, f)'
               PROVE  f \in freed
    BY <1>1 DEF GoneFreed
  <2>1. songs[f].tags # 0 \/ read[f] # 0 \/ \E o \in Reconcile : Holds(o, f)
    BY <1>3, <1>5
  <2> QED
    BY <2>1 DEF IInv, GoneFreed
<1>8. InReach'
  <2> SUFFICES ASSUME Scanning, NEW f \in File, disk[f] # 0, HasRow(f)'
               PROVE  Reached(f)'
    BY <1>1 DEF InReach, Scanning, callVars
  <2>1. Reached(f) => Reached(f)'
    BY <1>1, <1>4 DEF Reached
  <2>2. CASE HasRow(f)
    BY <2>1, <2>2 DEF IInv, InReach
  <2>3. CASE ~HasRow(f)
    <3>1. songs[f].tags = 0 /\ \A o \in Reconcile : Holds(o, f) => album[o].since
      BY <2>3 DEF HasRow
    <3>2. songs'[f].tags # 0
      BY <1>5, <3>1 DEF HasRow
    <3>3. songs'[f] # songs[f] /\ Holds(r, f) /\ album[r].since
      BY <1>3, <3>1, <3>2
    <3> QED
      BY <1>1, <3>3 DEF Reached
  <2> QED
    BY <2>2, <2>3
<1> QED
  BY <1>1, <1>3, <1>6, <1>7, <1>8 DEF IInv

---------------------------------------------------------------------------
LEMMA Boots == LibInit => IInv
<1> SUFFICES ASSUME LibInit PROVE IInv
  OBVIOUS
<1>1. /\ disk \in [File -> 0..1] /\ songs \in [File -> [tags : 0..1, fix : {0}]]
      /\ fix = 0 /\ turns = <<Sync({})>> /\ trailing = {}
      /\ stage = "idle" /\ todo = {} /\ found = {} /\ read = Unread
      /\ loaded = 0 /\ broken = FALSE /\ fresh = {}
      /\ album = [r \in Reconcile |-> Resting]
      /\ freed = {f \in File : disk[f] = 0 /\ songs[f].tags # 0}
  BY DEF LibInit
<1>2. Types
  <2>1. disk \in [File -> Nat] /\ songs \in [File -> RowRec]
    BY <1>1 DEF RowRec
  <2>2. turns \in Seq(TurnRec) /\ album \in [Reconcile -> AlbumRec]
    BY <1>1, TurnKinds, RestingTyped
  <2> QED
    BY <1>1, <2>1, <2>2, RestingTyped DEF Types
<1>3. GoneFreed
  BY <1>1, RestingTyped DEF GoneFreed, Holds
<1>4. InReach
  BY <1>1 DEF InReach, Scanning
<1> QED
  BY <1>2, <1>3, <1>4 DEF IInv

(* Every step keeps the invariant, and takes no row of a file that is there, *)
(* but where a scan passed it over.                                          *)
LEMMA Spares ==
  ASSUME IInv, [LibNext]_libVars
  PROVE  /\ IInv'
         /\ \A f \in File : songs[f].tags # 0 /\ songs'[f].tags = 0 => disk'[f] = 0 \/ Yields(f)
<1> DEFINE Spared ==
      \A f \in File : songs[f].tags # 0 /\ songs'[f].tags = 0 => disk'[f] = 0 \/ Yields(f)
<1>1. ASSUME NEW f \in File, Land(f) PROVE IInv' /\ Spared
  BY <1>1, LandKeeps DEF Land
<1>2. ASSUME NEW f \in File, Delete(f) PROVE IInv' /\ Spared
  BY <1>2, DeleteKeeps
<1>3. CASE Fix \/ (\E c \in Caller : SyncCalled(c)) \/ TrailStarts
  BY <1>3, CallsKeep
<1>4. CASE ScanStarts
  <2>1. UNCHANGED songs
    BY <1>4 DEF ScanStarts
  <2> QED
    BY <1>4, <2>1, ScanStartsKeeps
<1>5. CASE \/ \E d \in todo : WalkFolder(d)
           \/ \E f \in found : ReadTrack(f)
           \/ BuildStarts \/ RebucketStarts
  BY <1>5, ScanStepsKeep
<1>6. CASE ScanPersists
  BY <1>6, ScanPersistsKeeps
<1>7. CASE RebucketPersists \/ TurnThrows \/ LibCrash
  BY <1>7, TurnsEndKeep
<1>8. ASSUME NEW r \in Reconcile, NEW f \in File, ReconcileWalks(r, f) \/ ReconcileReads(r, f)
      PROVE  IInv' /\ Spared
  BY <1>8, ReconcileWalksKeeps, ReconcileReadsKeeps
<1>9. ASSUME NEW r \in Reconcile, ReconcilePersists(r) PROVE IInv' /\ Spared
  BY <1>9, ReconcilePersistsKeeps
<1>10. CASE UNCHANGED libVars
  <2>1. Types'
    BY <1>10 DEF IInv, Types, libVars, turnVars, callVars
  <2>2. GoneFreed' /\ InReach' /\ Spared
    BY <1>10 DEF IInv, GoneFreed, InReach, Scanning, HasRow, Holds, Reached,
                 libVars, turnVars, callVars
  <2> QED
    BY <2>1, <2>2 DEF IInv
<1> QED
  BY <1>1, <1>2, <1>3, <1>4, <1>5, <1>6, <1>7, <1>8, <1>9, <1>10 DEF LibNext, Turn

---------------------------------------------------------------------------
(* No fix is forgotten, and every file gets its row.  What keeps a file from *)
(* either is still to be looked at: by a reconcile, by a turn that waits, or *)
(* by the turn under way, which has the file ahead of it or in hand; or the  *)
(* last look failed or passed the file over.                                 *)
Pending(f) == f \in owed \/ f \in missed \cup outdone \/ \E r \in Reconcile : Holds(r, f)
LookedAt(f) == AlbumDir[f] \in todo \/ f \in found \/ read[f] # 0

Stale(f) == disk[f] # 0 /\ songs[f].tags # 0 /\ songs[f].fix # fix
ToFix(f) == turns # <<>> /\ (stage = "idle" \/ Len(turns) > 1 \/ LookedAt(f))

Bare(f) == disk[f] # 0 /\ songs[f].tags = 0
ToIndex(f) ==
  \E i \in DOMAIN turns : turns[i].kind = "sync" /\ (i > 1 \/ stage = "idle" \/ LookedAt(f))

Covered == \A f \in File :
  (Stale(f) => Pending(f) \/ ToFix(f)) /\ (Bare(f) => Pending(f) \/ ToIndex(f))

(* The last turn of the queue builds under the authority there is.           *)
LoadsLast == stage = "build" /\ Len(turns) = 1 => loaded = fix
AlbumsRest == \A r \in Reconcile : album[r].at = "idle" => \A f \in File : ~Holds(r, f)

Follows == Covered /\ LoadsLast /\ AlbumsRest

(* What the queue keeps when it grows, and when its head leaves.             *)
LEMMA Longer ==
  ASSUME Types, NEW turn \in TurnRec, turns' = Append(turns, turn)
  PROVE  /\ turns' # <<>> /\ Len(turns') = Len(turns) + 1 /\ Len(turns) \in Nat
         /\ Len(turns') = 1 => stage = "idle"
         /\ \A i \in DOMAIN turns : i \in DOMAIN turns' /\ turns'[i] = turns[i]
<1>1. turns \in Seq(TurnRec)
  BY DEF Types
<1>2. Len(turns') = Len(turns) + 1 /\ Len(turns) \in Nat /\ turns' # <<>>
  BY <1>1, AppendProperties
<1>3. \A i \in DOMAIN turns : i \in DOMAIN turns' /\ turns'[i] = turns[i]
  BY <1>1, <1>2, AppendProperties
<1>4. Len(turns) = 0 => turns = <<>>
  BY <1>1, EmptySeq
<1>5. Len(turns') = 1 => Len(turns) = 0
  BY <1>2
<1>6. Len(turns') = 1 => stage = "idle"
  BY <1>4, <1>5 DEF Types
<1> QED
  BY <1>2, <1>3, <1>6

LEMMA Shorter ==
  ASSUME Types, turns # <<>>, turns' = Tail(turns)
  PROVE  /\ Len(turns) > 1 => turns' # <<>>
         /\ Len(turns) \in Nat \ {0}
         /\ \A i \in DOMAIN turns : i > 1 => i - 1 \in DOMAIN turns' /\ turns'[i - 1] = turns[i]
<1>1. turns \in Seq(TurnRec)
  BY DEF Types
<1>2. /\ Len(turns) \in Nat \ {0} /\ Len(turns') = Len(turns) - 1 /\ turns' \in Seq(TurnRec)
      /\ \A i \in 1..Len(turns') : turns'[i] = turns[i + 1]
  BY <1>1, HeadTailProperties, EmptySeq
<1>3. DOMAIN turns = 1..Len(turns) /\ DOMAIN turns' = 1..Len(turns')
  BY <1>1, <1>2
<1>4. ASSUME NEW i \in DOMAIN turns, i > 1
      PROVE  i - 1 \in DOMAIN turns' /\ turns'[i - 1] = turns[i]
  BY <1>2, <1>3, <1>4
<1>5. Len(turns) > 1 => turns' # <<>>
  <2>1. turns' = <<>> => Len(turns') = 0
    BY EmptySeq
  <2> QED
    BY <1>2, <2>1
<1> QED
  BY <1>2, <1>4, <1>5

LEMMA Behind == ASSUME Types, turns # <<>> PROVE Len(turns) > 1 \/ Len(turns) = 1
<1>1. turns \in Seq(TurnRec)
  BY DEF Types
<1>2. Len(turns) \in Nat /\ Len(turns) # 0
  BY <1>1, EmptySeq
<1>3. \A n \in Nat : n # 0 => n > 1 \/ n = 1
  OBVIOUS
<1> QED
  BY <1>2, <1>3

(* A step that writes no row of a file that is there, and after which what   *)
(* was pending or looked at still is.                                        *)
LEMMA CoverStays ==
  ASSUME Covered, UNCHANGED fix,
         \A f \in File : disk'[f] # 0 =>
           \/ Pending(f)'
           \/ /\ disk[f] # 0 /\ songs'[f] = songs[f] /\ (Pending(f) => Pending(f)')
              /\ (ToFix(f) => ToFix(f)') /\ (ToIndex(f) => ToIndex(f)')
           \/ ~Stale(f)' /\ ~Bare(f)'
  PROVE  Covered'
BY DEF Covered, Stale, Bare

LEMMA FilesFollow ==
  ASSUME IInv, Follows, NEW f \in File, Land(f) \/ Delete(f)
  PROVE  Follows'
<1>1. UNCHANGED <<fix, turnVars, callVars, album, missed>> /\ outdone \ {f} \subseteq outdone'
  BY DEF Land, Delete
<1>2. LoadsLast' /\ AlbumsRest'
  BY <1>1 DEF Follows, LoadsLast, AlbumsRest, Holds, turnVars, callVars
<1>3. \A g \in File : ToFix(g)' = ToFix(g) /\ ToIndex(g)' = ToIndex(g)
  BY <1>1 DEF ToFix, ToIndex, LookedAt, turnVars, callVars
<1>4. CASE Land(f)
  <2>1. /\ f \in owed' /\ owed \subseteq owed' /\ songs' = songs
        /\ \A g \in File \ {f} : disk'[g] = disk[g]
    BY <1>4 DEF Land, IInv, Types
  <2>2. \A g \in File \ {f} : Pending(g) => Pending(g)'
    BY <1>1, <2>1 DEF Pending, Holds
  <2>3. Pending(f)'
    BY <2>1 DEF Pending
  <2> QED
    BY <1>1, <1>2, <1>3, <2>1, <2>2, <2>3, CoverStays DEF Follows
<1>5. CASE Delete(f)
  <2>1. /\ owed' = owed /\ outdone' = outdone
        /\ \A g \in File : disk'[g] # 0 => disk[g] # 0 /\ songs'[g] = songs[g]
    <3>1. owed' = owed /\ outdone' = outdone /\ songs' = [songs EXCEPT ![f] = NoRow]
      BY <1>5 DEF Delete
    <3>2. PICK gone \in SUBSET File :
            /\ disk' = [g \in File |-> IF g \in gone THEN 0 ELSE disk[g]]
            /\ disk[f] # 0 => f \in gone
      <4>1. CASE disk[f] # 0
        BY <1>5, <4>1 DEF Delete
      <4>2. CASE disk[f] = 0
        BY <1>5, <4>2 DEF Delete
      <4> QED
        BY <4>1, <4>2 DEF IInv, Types
    <3> QED
      BY <3>1, <3>2 DEF IInv, Types
  <2>2. \A g \in File : Pending(g) => Pending(g)'
    BY <1>1, <2>1 DEF Pending, Holds
  <2> QED
    BY <1>1, <1>2, <1>3, <2>1, <2>2, CoverStays DEF Follows
<1> QED
  BY <1>4, <1>5

(* A call or a fix waits for a turn behind the one under way.                *)
LEMMA CallsFollow ==
  ASSUME IInv, Follows, Fix \/ (\E c \in Caller : SyncCalled(c)) \/ TrailStarts
  PROVE  Follows'
<1>1. UNCHANGED <<disk, songs, turnVars, album, owed, missed, outdone>>
  BY DEF Fix, SyncCalled, TrailStarts
<1>2. Types
  BY DEF IInv
<1>3. AlbumsRest' /\ \A f \in File : Pending(f) => Pending(f)'
  BY <1>1 DEF Follows, AlbumsRest, Pending, Holds
<1>4. ASSUME NEW turn \in TurnRec, turns' = Append(turns, turn)
      PROVE  /\ Len(turns') = 1 => stage = "idle"
             /\ \A f \in File : (ToFix(f) => ToFix(f)') /\ (ToIndex(f) => ToIndex(f)')
             /\ \A f \in File : ToFix(f)'
  <2>1. /\ turns' # <<>> /\ Len(turns') = Len(turns) + 1 /\ Len(turns) \in Nat
        /\ Len(turns') = 1 => stage = "idle"
        /\ \A i \in DOMAIN turns : i \in DOMAIN turns' /\ turns'[i] = turns[i]
    BY <1>2, <1>4, Longer
  <2>2. stage' = stage /\ \A f \in File : LookedAt(f)' = LookedAt(f)
    BY <1>1 DEF LookedAt, turnVars
  <2>4. \A f \in File : ToFix(f)'
    BY <2>1, <2>2 DEF ToFix
  <2>5. \A f \in File : ToIndex(f) => ToIndex(f)'
    BY <2>1, <2>2 DEF ToIndex
  <2> QED
    BY <2>1, <2>4, <2>5
<1>5. CASE Fix
  <2>1. turns' = Append(turns, Rebucket) /\ Rebucket \in TurnRec
    BY <1>5, TurnKinds DEF Fix
  <2>2. Covered'
    BY <1>1, <1>3, <1>4, <2>1 DEF Follows, Covered, Bare
  <2>3. LoadsLast'
    BY <1>1, <1>4, <2>1 DEF LoadsLast, turnVars
  <2> QED
    BY <1>3, <2>2, <2>3 DEF Follows
<1>6. ASSUME fix' = fix, turns' = turns \/ \E turn \in TurnRec : turns' = Append(turns, turn)
      PROVE  Follows'
  <2>1. \A f \in File : (ToFix(f) => ToFix(f)') /\ (ToIndex(f) => ToIndex(f)')
    <3>1. CASE turns' = turns
      BY <1>1, <3>1 DEF ToFix, ToIndex, LookedAt, turnVars
    <3>2. CASE turns' # turns
      BY <1>4, <1>6, <3>2
    <3> QED
      BY <3>1, <3>2
  <2>2. Covered'
    BY <1>1, <1>3, <1>6, <2>1, CoverStays DEF Follows
  <2>3. LoadsLast'
    <3>1. CASE turns' = turns
      BY <1>1, <1>6, <3>1 DEF Follows, LoadsLast, turnVars
    <3>2. CASE turns' # turns
      BY <1>1, <1>4, <1>6, <3>2 DEF LoadsLast, turnVars
    <3> QED
      BY <3>1, <3>2
  <2> QED
    BY <1>3, <2>2, <2>3 DEF Follows
<1>7. CASE TrailStarts
  <2>1. Sync(trailing) \in TurnRec
    BY <1>2, TurnKinds DEF Types
  <2> QED
    BY <1>6, <1>7, <2>1 DEF TrailStarts
<1>8. ASSUME NEW c \in Caller, SyncCalled(c) PROVE Follows'
  <2>1. Sync({c}) \in TurnRec
    BY TurnKinds
  <2> QED
    BY <1>6, <1>8, <2>1 DEF SyncCalled, Joins
<1> QED
  BY <1>5, <1>7, <1>8

---------------------------------------------------------------------------
(* A turn starts: a scan has every file ahead of it, a re-bucket every row.  *)
LEMMA TurnStartsFollows ==
  ASSUME IInv, Follows, ScanStarts \/ RebucketStarts
  PROVE  Follows'
<1>1. turns \in Seq(TurnRec)
  BY DEF IInv, Types
<1>2. CASE ScanStarts
  <2>1. /\ turns # <<>> /\ Head(turns).kind = "sync"
        /\ todo' = {d \in Folders : InDir(d) # {}} /\ stage' # "build"
        /\ album' = [r \in Reconcile |-> [album[r] EXCEPT !.since = FALSE]]
        /\ UNCHANGED <<disk, songs, fix, found, read, loaded, callVars, owed, missed>>
    BY <1>2 DEF ScanStarts
  <2>2. turns' = turns /\ turns # <<>> /\ 1 \in DOMAIN turns /\ turns[1].kind = "sync"
    BY <1>1, <2>1, EmptySeq DEF callVars
  <2>3. \A f \in File : disk'[f] # 0 => LookedAt(f)'
    BY <2>1 DEF LookedAt, InDir, Folders
  <2>4. Covered'
    BY <2>2, <2>3 DEF Covered, Stale, Bare, ToFix, ToIndex
  <2>5. AlbumsRest'
    <3>1. ASSUME NEW r \in Reconcile
          PROVE  /\ album'[r].at = album[r].at /\ album'[r].files = album[r].files
                 /\ album'[r].read = album[r].read
      <4>1. album[r] \in AlbumRec /\ album'[r] = [album[r] EXCEPT !.since = FALSE]
        BY <2>1 DEF IInv, Types
      <4> QED
        BY <4>1 DEF AlbumRec
    <3> QED
      BY <3>1 DEF Follows, AlbumsRest, Holds
  <2>6. LoadsLast'
    BY <2>1 DEF LoadsLast
  <2> QED
    BY <2>4, <2>5, <2>6 DEF Follows
<1>3. CASE RebucketStarts
  <2>1. /\ turns # <<>> /\ Head(turns).kind = "rebucket" /\ stage = "idle" /\ stage' = "read"
        /\ found' = {f \in File : songs[f].tags # 0}
        /\ UNCHANGED <<disk, songs, fix, turns, album, owed, missed, outdone>>
    BY <1>3 DEF RebucketStarts, Rows, callVars
  <2>2. turns[1].kind # "sync" /\ DOMAIN turns \subseteq Nat \ {0}
    BY <1>1, <2>1
  <2>3. \A f \in File : Stale(f)' => ToFix(f)'
    BY <2>1 DEF Stale, ToFix, LookedAt
  <2>4. ASSUME NEW f \in File, ToIndex(f) PROVE ToIndex(f)'
    <3>1. PICK i \in DOMAIN turns : turns[i].kind = "sync"
      BY <2>4 DEF ToIndex
    <3>2. i > 1
      BY <2>2, <3>1
    <3> QED
      BY <2>1, <3>1, <3>2 DEF ToIndex
  <2>5. \A f \in File : Bare(f)' = Bare(f) /\ Pending(f)' = Pending(f)
    BY <2>1 DEF Bare, Pending, Holds
  <2>6. Covered'
    BY <2>3, <2>4, <2>5 DEF Follows, Covered
  <2>7. LoadsLast' /\ AlbumsRest'
    BY <2>1 DEF Follows, LoadsLast, AlbumsRest, Holds
  <2> QED
    BY <2>6, <2>7 DEF Follows
<1> QED
  BY <1>2, <1>3

(* The walk and the reads look at what was ahead, or note that they missed   *)
(* it; the authority a build loads is the one there is.                      *)
LEMMA ScanStepsFollow ==
  ASSUME IInv, Follows,
         \/ \E d \in todo : WalkFolder(d)
         \/ \E f \in found : ReadTrack(f)
         \/ BuildStarts
  PROVE  Follows'
<1>1. /\ stage \in {"walk", "read"} /\ stage' # "idle"
      /\ UNCHANGED <<disk, songs, fix, turns, album, owed, outdone>> /\ missed \subseteq missed'
  BY DEF WalkFolder, ReadTrack, BuildStarts, callVars
<1>2. AlbumsRest' /\ \A f \in File : Pending(f) => Pending(f)'
  BY <1>1 DEF Follows, AlbumsRest, Pending, Holds
<1>3. ASSUME NEW f \in File, disk[f] # 0, LookedAt(f) PROVE Pending(f)' \/ LookedAt(f)'
  <2>1. ASSUME NEW d \in todo, WalkFolder(d) PROVE Pending(f)' \/ LookedAt(f)'
    BY <1>3, <2>1 DEF WalkFolder, LookedAt, Pending, InDir
  <2>2. ASSUME NEW g \in found, ReadTrack(g) PROVE LookedAt(f)'
    <3>1. found' = found \ {g} /\ read' = [read EXCEPT ![g] = disk[g]] /\ todo' = todo
      BY <2>2 DEF ReadTrack
    <3>2. g \in File /\ read'[g] = disk[g] /\ \A h \in File \ {g} : read'[h] = read[h]
      BY <3>1 DEF IInv, Types
    <3> QED
      BY <1>3, <3>1, <3>2 DEF LookedAt
  <2>3. CASE BuildStarts
    BY <1>3, <2>3 DEF BuildStarts, LookedAt
  <2> QED
    BY <2>1, <2>2, <2>3
<1>4. \A f \in File : disk[f] # 0 =>
        Pending(f)' \/ ((ToFix(f) => ToFix(f)') /\ (ToIndex(f) => ToIndex(f)'))
  BY <1>1, <1>3 DEF ToFix, ToIndex
<1>5. Covered'
  BY <1>1, <1>2, <1>4, CoverStays DEF Follows
<1>6. LoadsLast'
  BY DEF LoadsLast, WalkFolder, ReadTrack, BuildStarts
<1> QED
  BY <1>2, <1>5, <1>6 DEF Follows

(* A turn that ends has built what it read, and what it did not look at      *)
(* waits for another.                                                        *)
LEMMA EndsFollow ==
  ASSUME IInv, Follows, [LibNext]_libVars, stage # "idle", Settled,
         UNCHANGED <<disk, fix, album, owed>>,
         \A f \in File : disk[f] # 0 =>
           \/ f \in missed' \cup outdone'
           \/ /\ read[f] = 0 /\ todo = {} /\ found = {}
              /\ songs'[f] = songs[f] \/ songs'[f].tags = 0
              /\ f \notin missed \cup outdone
           \/ songs'[f].tags # 0 /\ (Len(turns) = 1 => songs'[f].fix = fix)
  PROVE  Follows'
<1>1. turns # <<>> /\ turns' = Tail(turns) /\ stage' = "idle" /\ Types
  BY DEF IInv, Types, Settled, NoTurn
<1>2. /\ Len(turns) \in Nat \ {0} /\ (Len(turns) > 1 => turns' # <<>>)
      /\ \A i \in DOMAIN turns : i > 1 => i - 1 \in DOMAIN turns' /\ turns'[i - 1] = turns[i]
  BY <1>1, Shorter
<1>3. ASSUME NEW f \in File, disk[f] # 0
      PROVE  songs[f].tags # 0 => songs'[f].tags # 0 \/ f \in outdone'
  BY <1>3, Spares DEF Yields, ScanPersists, Looked
<1>4. ASSUME NEW f \in File, disk[f] # 0, f \notin missed \cup outdone, Pending(f)
      PROVE  Pending(f)'
  BY <1>4 DEF Pending, Holds
<1>5. ASSUME NEW f \in File, Stale(f)' PROVE Pending(f)' \/ ToFix(f)'
  <2>1. CASE Len(turns) > 1
    BY <1>1, <1>2, <2>1 DEF ToFix
  <2>2. CASE Len(turns) = 1
    <3>1. disk[f] # 0 /\ songs'[f].tags # 0 /\ songs'[f].fix # fix
      BY <1>5 DEF Stale
    <3>2. CASE f \in missed' \cup outdone'
      BY <3>2 DEF Pending
    <3>3. CASE f \notin missed' \cup outdone'
      <4>1. /\ read[f] = 0 /\ todo = {} /\ found = {}
            /\ songs'[f] = songs[f] /\ f \notin missed \cup outdone
        BY <2>2, <3>1, <3>3
      <4>2. Stale(f) /\ ~LookedAt(f)
        BY <3>1, <4>1 DEF Stale, LookedAt
      <4>3. ~ToFix(f)
        BY <2>2, <4>2 DEF ToFix
      <4>4. Pending(f)
        BY <4>2, <4>3 DEF Follows, Covered
      <4> QED
        BY <1>4, <3>1, <4>1, <4>4
    <3> QED
      BY <3>2, <3>3
  <2>3. Len(turns) > 1 \/ Len(turns) = 1
    BY <1>1, Behind
  <2> QED
    BY <2>1, <2>2, <2>3
<1>6. ASSUME NEW f \in File, Bare(f)' PROVE Pending(f)' \/ ToIndex(f)'
  <2>1. disk[f] # 0 /\ songs'[f].tags = 0
    BY <1>6 DEF Bare
  <2>2. CASE f \in missed' \cup outdone'
    BY <2>2 DEF Pending
  <2>3. CASE f \notin missed' \cup outdone'
    <3>1. Bare(f) /\ ~LookedAt(f) /\ f \notin missed \cup outdone
      BY <1>3, <2>1, <2>3 DEF Bare, LookedAt
    <3>2. CASE Pending(f)
      BY <1>4, <2>1, <3>1, <3>2
    <3>3. CASE ToIndex(f)
      <4>1. PICK i \in DOMAIN turns : turns[i].kind = "sync" /\ i > 1
        BY <3>1, <3>3 DEF ToIndex
      <4>2. i - 1 \in DOMAIN turns' /\ turns'[i - 1].kind = "sync"
        BY <1>2, <4>1
      <4> QED
        BY <1>1, <4>2 DEF ToIndex
    <3> QED
      BY <3>1, <3>2, <3>3 DEF Follows, Covered
  <2> QED
    BY <2>2, <2>3
<1>7. LoadsLast' /\ AlbumsRest'
  BY <1>1 DEF Follows, LoadsLast, AlbumsRest, Holds
<1> QED
  BY <1>5, <1>6, <1>7 DEF Follows, Covered

LEMMA TurnsEndFollow ==
  ASSUME IInv, Follows, ScanPersists \/ RebucketPersists \/ TurnThrows
  PROVE  Follows'
<1>1. [LibNext]_libVars
  BY DEF LibNext, Turn
<1>2. songs \in [File -> RowRec] /\ read \in [File -> Nat] /\ Types
  BY DEF IInv, Types
<1>3. CASE ScanPersists
  <2>1. /\ stage = "build" /\ Settled /\ UNCHANGED <<disk, fix, album, owed>>
        /\ todo = {} /\ found = {} /\ (Len(turns) = 1 => loaded = fix)
    BY <1>2, <1>3 DEF ScanPersists, Types, Follows, LoadsLast
  <2>2. ASSUME NEW f \in File
        PROVE  \/ f \in missed' \cup outdone'
               \/ /\ read[f] = 0 /\ (songs'[f] = songs[f] \/ songs'[f].tags = 0)
                  /\ f \notin missed \cup outdone
               \/ songs'[f].tags # 0 /\ songs'[f].fix = loaded
    <3>1. /\ songs' = [g \in File |->
                         IF g \in Built THEN [tags |-> read[g], fix |-> loaded]
                         ELSE IF Prunes(g) THEN NoRow ELSE songs[g]]
          /\ Looked(read, Built) /\ \A g \in Built : read[g] # 0
      BY <1>3, Chosen DEF ScanPersists, Built
    <3>2. CASE f \in Built
      <4>1. songs'[f] = [tags |-> read[f], fix |-> loaded]
        BY <3>1, <3>2
      <4> QED
        BY <3>1, <3>2, <4>1
    <3>3. CASE f \notin Built
      <4>1. songs'[f] = songs[f] \/ songs'[f].tags = 0
        BY <3>1, <3>3, RestingTyped
      <4> QED
        BY <3>1, <3>3, <4>1 DEF Looked
    <3> QED
      BY <3>2, <3>3
  <2> QED
    BY <1>1, <2>1, <2>2, EndsFollow
<1>4. CASE RebucketPersists
  <2>1. /\ stage = "read" /\ Settled /\ UNCHANGED <<disk, fix, album, owed>>
        /\ todo = {} /\ found = {}
    BY <1>2, <1>4 DEF RebucketPersists, Types
  <2>2. ASSUME NEW f \in File
        PROVE  \/ f \in missed' \cup outdone'
               \/ read[f] = 0 /\ songs'[f] = songs[f] /\ f \notin missed \cup outdone
               \/ songs'[f].tags # 0 /\ songs'[f].fix = fix
    <3> DEFINE chosen == Selected(read, fix, Rows)
    <3>1. /\ songs' = [g \in File |-> IF g \in chosen THEN [tags |-> read[g], fix |-> fix]
                                      ELSE songs[g]]
          /\ Looked(read, chosen) /\ \A g \in chosen : read[g] # 0
      BY <1>4, Chosen DEF RebucketPersists
    <3> HIDE DEF chosen
    <3>2. CASE f \in chosen
      <4>1. songs'[f] = [tags |-> read[f], fix |-> fix]
        BY <3>1, <3>2
      <4> QED
        BY <3>1, <3>2, <4>1
    <3>3. CASE f \notin chosen
      <4>1. songs'[f] = songs[f]
        BY <3>1, <3>3
      <4> QED
        BY <3>1, <3>3, <4>1 DEF Looked
    <3> QED
      BY <3>2, <3>3
  <2> QED
    BY <1>1, <2>1, <2>2, EndsFollow
<1>5. CASE TurnThrows
  <2>1. /\ stage # "idle" /\ Settled /\ UNCHANGED <<disk, fix, album, owed>>
        /\ missed' = File
    BY <1>5 DEF TurnThrows
  <2> QED
    BY <1>1, <2>1, EndsFollow
<1> QED
  BY <1>3, <1>4, <1>5

(* A boot's sync has everything ahead of it.                                 *)
LEMMA BootFollows ==
  ASSUME turns' = <<Sync({})>>, stage' = "idle", album' = [r \in Reconcile |-> Resting]
  PROVE  Follows'
<1>1. turns' # <<>> /\ 1 \in DOMAIN turns' /\ turns'[1].kind = "sync"
  BY DEF Sync
<1>2. \A f \in File : ToFix(f)' /\ ToIndex(f)'
  BY <1>1 DEF ToFix, ToIndex
<1>3. LoadsLast' /\ AlbumsRest'
  BY RestingTyped DEF LoadsLast, AlbumsRest, Holds
<1> QED
  BY <1>2, <1>3 DEF Follows, Covered

LEMMA Booted == LibInit => Follows
<1> SUFFICES ASSUME LibInit PROVE Follows
  OBVIOUS
<1>1. turns = <<Sync({})>> /\ stage = "idle" /\ album = [r \in Reconcile |-> Resting]
  BY DEF LibInit
<1>2. turns # <<>> /\ 1 \in DOMAIN turns /\ turns[1].kind = "sync"
  BY <1>1 DEF Sync
<1>3. \A f \in File : ToFix(f) /\ ToIndex(f)
  BY <1>1, <1>2 DEF ToFix, ToIndex
<1>4. LoadsLast /\ AlbumsRest
  BY <1>1, RestingTyped DEF LoadsLast, AlbumsRest, Holds
<1> QED
  BY <1>3, <1>4 DEF Follows, Covered

---------------------------------------------------------------------------
(* A reconcile takes a changed file over, and lets go of it once it has its  *)
(* row under the authority of that moment, or has failed.                    *)
LEMMA ReconcileStepsFollow ==
  ASSUME IInv, Follows, NEW r \in Reconcile, NEW f \in File,
         ReconcileWalks(r, f) \/ ReconcileReads(r, f)
  PROVE  Follows'
<1>1. UNCHANGED <<disk, songs, fix, turns, stage, todo, found, read, loaded, outdone>>
  BY DEF ReconcileWalks, ReconcileReads, turnVars, callVars
<1>2. LoadsLast'
  BY <1>1 DEF Follows, LoadsLast
<1>3. \A g \in File : ToFix(g)' = ToFix(g) /\ ToIndex(g)' = ToIndex(g)
  BY <1>1 DEF ToFix, ToIndex, LookedAt
<1>4. album \in [Reconcile -> AlbumRec] /\ album[r] \in AlbumRec /\ disk \in [File -> Nat]
  BY DEF IInv, Types
<1>5. CASE ReconcileWalks(r, f)
  <2>1. /\ album[r].at = "idle" /\ f \in owed /\ owed' = owed \ {f} /\ missed \subseteq missed'
    BY <1>5 DEF ReconcileWalks
  <2>2. \A g \in File : ~Holds(r, g)
    BY <2>1 DEF Follows, AlbumsRest
  <2> DEFINE walk == [at |-> "read", dir |-> AlbumDir[f], files |-> InDir(AlbumDir[f]),
                      since |-> Scanning, read |-> Unread]
  <2>3. CASE album' = [album EXCEPT ![r] = walk]
    <3>1. walk.at = "read" /\ walk.files = InDir(AlbumDir[f])
      OBVIOUS
    <3> HIDE DEF walk
    <3>2. album'[r] = walk /\ \A o \in Reconcile \ {r} : album'[o] = album[o]
      BY <1>4, <2>3
    <3>3. AlbumsRest'
      BY <3>1, <3>2 DEF Follows, AlbumsRest, Holds
    <3>4. disk[f] # 0 => Pending(f)'
      BY <3>1, <3>2 DEF Pending, Holds, InDir
    <3>5. \A g \in File \ {f} : Pending(g) => Pending(g)'
      BY <1>1, <2>1, <2>2, <3>2 DEF Pending, Holds
    <3>6. Covered'
      BY <1>1, <1>3, <3>4, <3>5, CoverStays DEF Follows
    <3> QED
      BY <1>2, <3>3, <3>6 DEF Follows
  <2>4. CASE album' = album /\ (InDir(AlbumDir[f]) = {} \/ f \in missed')
    <3>1. AlbumsRest'
      BY <2>4 DEF Follows, AlbumsRest, Holds
    <3>2. disk[f] # 0 => Pending(f)'
      BY <2>4 DEF Pending, InDir
    <3>3. \A g \in File \ {f} : Pending(g) => Pending(g)'
      BY <1>1, <2>1, <2>4 DEF Pending, Holds
    <3>4. Covered'
      BY <1>1, <1>3, <3>2, <3>3, CoverStays DEF Follows
    <3> QED
      BY <1>2, <3>1, <3>4 DEF Follows
  <2> QED
    BY <1>5, <2>3, <2>4 DEF ReconcileWalks
<1>6. CASE ReconcileReads(r, f)
  <2>1. /\ f \in album[r].files /\ UNCHANGED <<owed, missed>>
        /\ album' = [album EXCEPT ![r].files = @ \ {f}, ![r].read[f] = disk[f]]
    BY <1>6 DEF ReconcileReads
  <2> DEFINE looked == [album[r].read EXCEPT ![f] = disk[f]]
  <2>2. /\ album'[r] = [album[r] EXCEPT !.files = album[r].files \ {f}, !.read = looked]
        /\ \A o \in Reconcile \ {r} : album'[o] = album[o]
    BY <1>4, <2>1 DEF AlbumRec
  <2>3. looked[f] = disk[f] /\ \A g \in File \ {f} : looked[g] = album[r].read[g]
    BY <1>4 DEF AlbumRec
  <2> HIDE DEF looked
  <2>4. /\ album'[r].at = album[r].at /\ album'[r].files = album[r].files \ {f}
        /\ album'[r].read = looked
    BY <1>4, <2>2 DEF AlbumRec
  <2>5. album[r].at # "idle"
    BY <2>1 DEF Follows, AlbumsRest, Holds
  <2>6. AlbumsRest'
    <3> SUFFICES ASSUME NEW o \in Reconcile, album'[o].at = "idle", NEW g \in File
                 PROVE  ~Holds(o, g)'
      BY DEF AlbumsRest
    <3>1. o # r
      BY <2>4, <2>5
    <3>2. album'[o] = album[o]
      BY <2>2, <3>1
    <3> QED
      BY <3>2 DEF Follows, AlbumsRest, Holds
  <2>7. ASSUME NEW g \in File, disk[g] # 0, NEW o \in Reconcile, Holds(o, g)
        PROVE  Holds(o, g)'
    <3>1. CASE o # r
      BY <2>2, <2>7, <3>1 DEF Holds
    <3>2. CASE o = r /\ g = f
      BY <2>3, <2>4, <2>7, <3>2 DEF Holds
    <3>3. CASE o = r /\ g # f
      BY <2>3, <2>4, <2>7, <3>3 DEF Holds
    <3> QED
      BY <3>1, <3>2, <3>3
  <2>8. \A g \in File : disk[g] # 0 /\ Pending(g) => Pending(g)'
    BY <1>1, <2>1, <2>7 DEF Pending
  <2>9. Covered'
    BY <1>1, <1>3, <2>8, CoverStays DEF Follows
  <2> QED
    BY <1>2, <2>6, <2>9 DEF Follows
<1> QED
  BY <1>5, <1>6

LEMMA ReconcilePersistsFollows ==
  ASSUME IInv, Follows, NEW r \in Reconcile, ReconcilePersists(r)
  PROVE  Follows'
<1> DEFINE got == {f \in File : album[r].read[f] # 0}
           chosen == Selected(album[r].read, fix, Rows)
           Gone(f) == AlbumDir[f] = album[r].dir /\ got # {} /\ disk[f] = 0
           new(f) == [tags |-> album[r].read[f], fix |-> fix]
<1>1. /\ album[r].files = {} /\ Looked(album[r].read, chosen)
      /\ songs' = [f \in File |-> IF Gone(f) THEN NoRow
                                  ELSE IF f \in chosen THEN new(f) ELSE songs[f]]
      /\ album' = [album EXCEPT ![r] = Resting]
      /\ UNCHANGED <<disk, fix, stage, todo, found, read, loaded, turns, owed>>
  BY DEF ReconcilePersists, callVars
<1>7. missed' = missed \ got /\ outdone' = (outdone \ chosen) \cup (got \ chosen)
  BY <1>1 DEF Looked
<1>8. \A f \in chosen : album[r].read[f] # 0
  BY Chosen
<1> HIDE DEF chosen
<1>2. album'[r] = Resting /\ \A o \in Reconcile \ {r} : album'[o] = album[o]
  BY <1>1 DEF IInv, Types
<1>3. AlbumsRest' /\ LoadsLast'
  BY <1>1, <1>2, RestingTyped DEF Follows, AlbumsRest, LoadsLast, Holds
<1>4. \A f \in File : ToFix(f)' = ToFix(f) /\ ToIndex(f)' = ToIndex(f)
  BY <1>1 DEF ToFix, ToIndex, LookedAt
<1>5. ASSUME NEW f \in File, disk[f] # 0
      PROVE  \/ songs'[f] = songs[f] /\ (Pending(f) => Pending(f)')
             \/ ~Stale(f)' /\ ~Bare(f)'
  <2>1. CASE f \in chosen
    <3>1. songs'[f] = new(f) /\ album[r].read[f] # 0
      BY <1>1, <1>5, <1>8, <2>1
    <3>2. songs'[f].tags # 0 /\ songs'[f].fix = fix
      BY <3>1
    <3> QED
      BY <1>1, <3>2 DEF Stale, Bare
  <2>2. CASE f \in got \ chosen
    <3>1. songs'[f] = songs[f] /\ f \in outdone'
      BY <1>1, <1>5, <1>7, <2>2
    <3> QED
      BY <3>1 DEF Pending
  <2>3. CASE f \notin got \cup chosen
    <3>1. songs'[f] = songs[f] /\ ~Holds(r, f)
      BY <1>1, <1>5, <2>3 DEF Holds
    <3>2. ASSUME Pending(f) PROVE Pending(f)'
      BY <1>1, <1>2, <1>7, <2>3, <3>1, <3>2 DEF Pending, Holds
    <3> QED
      BY <3>1, <3>2
  <2> QED
    BY <2>1, <2>2, <2>3
<1>6. Covered'
  BY <1>1, <1>4, <1>5, CoverStays DEF Follows
<1> QED
  BY <1>3, <1>6 DEF Follows

LEMMA FollowsStays ==
  ASSUME IInv, Follows, [LibNext]_libVars
  PROVE  Follows'
<1>1. ASSUME NEW f \in File, Land(f) \/ Delete(f) PROVE Follows'
  BY <1>1, FilesFollow
<1>2. CASE Fix \/ (\E c \in Caller : SyncCalled(c)) \/ TrailStarts
  BY <1>2, CallsFollow
<1>3. CASE ScanStarts \/ RebucketStarts
  BY <1>3, TurnStartsFollows
<1>4. CASE \/ \E d \in todo : WalkFolder(d)
           \/ \E f \in found : ReadTrack(f)
           \/ BuildStarts
  BY <1>4, ScanStepsFollow
<1>5. CASE ScanPersists \/ RebucketPersists \/ TurnThrows
  BY <1>5, TurnsEndFollow
<1>6. ASSUME NEW r \in Reconcile, NEW f \in File, ReconcileWalks(r, f) \/ ReconcileReads(r, f)
      PROVE  Follows'
  BY <1>6, ReconcileStepsFollow
<1>7. ASSUME NEW r \in Reconcile, ReconcilePersists(r) PROVE Follows'
  BY <1>7, ReconcilePersistsFollows
<1>8. CASE LibCrash
  BY <1>8, BootFollows DEF LibCrash, Boot, NoTurn
<1>9. CASE UNCHANGED libVars
  <2>1. \A f \in File : /\ ToFix(f)' = ToFix(f) /\ ToIndex(f)' = ToIndex(f)
                        /\ Pending(f)' = Pending(f)
    BY <1>9 DEF ToFix, ToIndex, LookedAt, Pending, Holds, libVars, turnVars, callVars
  <2>2. UNCHANGED <<disk, songs, fix, turns, stage, loaded, album>>
    BY <1>9 DEF libVars, turnVars, callVars
  <2> QED
    BY <2>1, <2>2 DEF Follows, Covered, Stale, Bare, LoadsLast, AlbumsRest, Holds
<1> QED
  BY <1>1, <1>2, <1>3, <1>4, <1>5, <1>6, <1>7, <1>8, <1>9 DEF LibNext, Turn

(* An overlapping scan never has the last word over a curator's fix: where a *)
(* row is not under it, a reconcile or a turn that will load it has still to *)
(* come, or the last look at the file failed or passed it over               *)
(* (rebucketArtists' turn in exclusive(), library-scanner.ts).               *)
THEOREM FixesHold == LibSpec => []FixHolds
<1>1. LibInit => IInv /\ Follows
  BY Boots, Booted
<1>2. IInv /\ Follows /\ [LibNext]_libVars => (IInv /\ Follows)'
  BY Spares, FollowsStays
<1>3. IInv /\ Follows => FixHolds
  <2> SUFFICES ASSUME IInv, Follows, NEW f \in File, Stale(f)
               PROVE  \/ f \in owed
                      \/ \E r \in Reconcile : f \in album[r].files \/ album[r].read[f] # 0
                      \/ f \in missed \cup outdone \/ Len(turns) > 1
                      \/ turns # <<>> /\ (stage = "build" => loaded = fix)
    BY DEF FixHolds, Stale
  <2>1. CASE Pending(f)
    BY <2>1 DEF Pending, Holds
  <2>2. CASE ToFix(f) /\ ~(Len(turns) > 1)
    <3>1. turns # <<>>
      BY <2>2 DEF ToFix
    <3>2. Len(turns) > 1 \/ Len(turns) = 1
      BY <3>1, Behind DEF IInv
    <3> QED
      BY <2>2, <3>1, <3>2 DEF Follows, LoadsLast
  <2> QED
    BY <2>1, <2>2 DEF Follows, Covered
<1> QED
  BY <1>1, <1>2, <1>3, PTL DEF LibSpec

(* Once everything asked for is done, every file has a row, but for those    *)
(* whose last look failed or passed them over for a better copy: whatever    *)
(* landed, was deleted, threw or restarted in between (scanFullNow,          *)
(* reconcileAlbums and the boot's sync in index.ts).                         *)
THEOREM FilesIndexed == LibSpec => []Indexed
<1>1. LibInit => IInv /\ Follows
  BY Boots, Booted
<1>2. IInv /\ Follows /\ [LibNext]_libVars => (IInv /\ Follows)'
  BY Spares, FollowsStays
<1>3. IInv /\ Follows => Indexed
  <2> SUFFICES ASSUME IInv, Follows, AtRest, NEW f \in File, disk[f] # 0, songs[f].tags = 0
               PROVE  f \in missed \cup outdone
    BY DEF Indexed
  <2>1. turns = <<>> /\ owed = {} /\ \A r \in Reconcile : ~Holds(r, f)
    BY DEF AtRest, Follows, AlbumsRest
  <2>2. ~ToIndex(f)
    BY <2>1 DEF ToIndex
  <2>3. Bare(f)
    BY DEF Bare
  <2> QED
    BY <2>1, <2>2, <2>3 DEF Follows, Covered, Pending
<1> QED
  BY <1>1, <1>2, <1>3, PTL DEF LibSpec

---------------------------------------------------------------------------
(* The types, with what each version may be and what a trailing run is for.  *)
Bounds ==
  /\ fix \in 0..MaxFix /\ loaded \in 0..MaxFix
  /\ \A f \in File : /\ songs[f].fix \in 0..MaxFix /\ songs[f].tags \in Content(f)
                     /\ disk[f] \in Content(f) /\ read[f] \in Content(f)
                     /\ \A r \in Reconcile : album[r].read[f] \in Content(f)
  /\ owed \subseteq File /\ freed \subseteq File /\ known \subseteq File
  /\ missed \subseteq File /\ outdone \subseteq File
  /\ misses \in 0..MaxMisses /\ seen \in [Caller -> SUBSET File]

Trails ==
  /\ due \in BOOLEAN /\ (due => trailing # {})
  /\ trailing # {} => due \/ SyncIn(turns)

LEMMA Nothing ==
  /\ 0 \in 0..MaxFix /\ 0 \in 0..MaxMisses /\ \A f \in File : 0 \in Content(f)
  /\ NoRow.fix = 0 /\ NoRow.tags = 0
BY ScanAssumption DEF Content, NoRow

LEMMA MoreMisses == ASSUME misses \in 0..MaxMisses, misses < MaxMisses, misses' = misses + 1
                    PROVE  misses' \in 0..MaxMisses /\ misses' # misses
BY ScanAssumption

LEMMA SeenLess ==
  ASSUME Bounds
  PROVE  /\ \A changed : Touched(changed) \in [Caller -> SUBSET File]
         /\ [c \in Caller |-> IF c \in Head(turns).callers THEN {} ELSE seen[c]]
              \in [Caller -> SUBSET File]
BY DEF Bounds, Touched

LEMMA LookedBounded ==
  ASSUME Bounds, NEW tags, NEW chosen \in SUBSET File, Looked(tags, chosen)
  PROVE  missed' \subseteq File /\ outdone' \subseteq File
BY DEF Bounds, Looked

LEMMA SyncStays ==
  ASSUME Types, NEW turn \in TurnRec, turns' = Append(turns, turn)
  PROVE  /\ SyncIn(turns) => SyncIn(turns')
         /\ turn.kind = "sync" => SyncIn(turns')
<1>1. SyncIn(turns) => SyncIn(turns')
  BY Longer DEF SyncIn
<1>2. turns \in Seq(TurnRec)
  BY DEF Types
<1>3. Len(turns) + 1 \in DOMAIN turns' /\ turns'[Len(turns) + 1] = turn
  BY <1>2, AppendProperties
<1> QED
  BY <1>1, <1>3 DEF SyncIn

LEMMA TypesAll == ASSUME Types, Bounds, Trails PROVE LibTypeOK
<1>1. Resting.dir \in Folders
  <2>1. Resting.dir = CHOOSE d \in Folders : TRUE
    BY DEF Resting
  <2>2. \E d : d \in Folders
    BY ScanAssumption DEF Folders
  <2> QED
    BY <2>1, <2>2
<1>2. \A r \in Reconcile : album[r] \in [at : {"idle", "read"}, dir : Folders, files : SUBSET File,
                                         since : BOOLEAN, read : [File -> Nat]]
  BY <1>1 DEF Types, AlbumRec
<1>3. album \in [Reconcile -> [at : {"idle", "read"}, dir : Folders, files : SUBSET File,
                               since : BOOLEAN, read : [File -> Nat]]]
  BY <1>2 DEF Types
<1>4. \A f \in File : songs[f] \in [tags : Nat, fix : 0..MaxFix]
  BY DEF Types, Bounds, RowRec
<1>5. songs \in [File -> [tags : Nat, fix : 0..MaxFix]]
  BY <1>4 DEF Types
<1> QED
  BY <1>3, <1>5 DEF Types, TurnRec, Bounds, Trails, LibTypeOK

---------------------------------------------------------------------------
LEMMA FilesBounded ==
  ASSUME Types, Bounds, NEW f \in File, Land(f) \/ Delete(f)
  PROVE  Bounds'
<1>1. CASE Land(f)
  <2>1. /\ disk[f] < Versions[f] /\ disk' = [disk EXCEPT ![f] = disk[f] + 1]
        /\ owed' = owed \cup {f} /\ freed' = freed \ {f} /\ seen' = Touched({f})
        /\ outdone' = outdone \ {f}
        /\ UNCHANGED <<songs, fix, read, loaded, known, album, misses, missed>>
    BY <1>1 DEF Land, turnVars, Types
  <2>2. disk[f] + 1 \in Content(f)
    <3>1. disk[f] \in Nat /\ Versions[f] \in Nat /\ disk[f] < Versions[f]
      BY <2>1, ScanAssumption DEF Types
    <3> HIDE DEF Types
    <3>2. disk[f] + 1 \in 0..Versions[f]
      BY <3>1
    <3> QED
      BY <3>2 DEF Content
  <2>3. \A g \in File : disk'[g] \in Content(g)
    BY <2>1, <2>2 DEF Types, Bounds
  <2> QED
    BY <2>1, <2>3, SeenLess DEF Bounds
<1>2. CASE Delete(f)
  <2>1. PICK gone \in SUBSET File :
          /\ disk' = [g \in File |-> IF g \in gone THEN 0 ELSE disk[g]]
          /\ freed' = freed \cup gone /\ seen' = Touched(gone \cup {f})
    <3>1. CASE disk[f] # 0
      BY <1>2, <3>1 DEF Delete
    <3>2. CASE disk[f] = 0
      BY <1>2, <3>2 DEF Delete
    <3> QED
      BY <3>1, <3>2 DEF Types
  <2>2. /\ songs' = [songs EXCEPT ![f] = NoRow]
        /\ UNCHANGED <<fix, read, loaded, known, album, owed, misses, missed, outdone>>
    BY <1>2 DEF Delete, turnVars
  <2>3. \A g \in File : disk'[g] \in Content(g)
    BY <2>1, Nothing DEF Bounds
  <2>4. \A g \in File : songs'[g].fix \in 0..MaxFix /\ songs'[g].tags \in Content(g)
    BY <2>2, Nothing DEF Types, Bounds
  <2> QED
    BY <2>1, <2>2, <2>3, <2>4, SeenLess DEF Bounds
<1> QED
  BY <1>1, <1>2

LEMMA CallsBounded ==
  ASSUME Types, Bounds, Fix \/ (\E c \in Caller : SyncCalled(c)) \/ TrailStarts
  PROVE  Bounds'
<1>1. UNCHANGED <<disk, songs, read, loaded, known, album, owed, freed, misses, missed, outdone>>
  BY DEF Fix, SyncCalled, TrailStarts, turnVars
<1>2. fix' \in 0..MaxFix
  <2>1. CASE Fix
    BY <2>1, ScanAssumption DEF Fix, Bounds
  <2>2. CASE fix' = fix
    BY <2>2 DEF Bounds
  <2> QED
    BY <2>1, <2>2 DEF SyncCalled, TrailStarts
<1>3. seen' \in [Caller -> SUBSET File]
  BY DEF Fix, SyncCalled, TrailStarts, Bounds
<1> QED
  BY <1>1, <1>2, <1>3 DEF Bounds

LEMMA ScanBounded ==
  ASSUME Types, Bounds,
         \/ ScanStarts \/ RebucketStarts \/ BuildStarts
         \/ \E d \in todo : WalkFolder(d)
         \/ \E f \in found : ReadTrack(f)
  PROVE  Bounds'
<1>1. CASE RebucketStarts
  BY <1>1 DEF RebucketStarts, callVars, Bounds
<1>2. CASE BuildStarts
  BY <1>2 DEF BuildStarts, Rows, callVars, Bounds
<1>3. CASE ScanStarts
  <2>1. /\ album' = [r \in Reconcile |-> [album[r] EXCEPT !.since = FALSE]]
        /\ UNCHANGED <<disk, songs, fix, read, loaded, known, owed, freed, misses, seen, missed,
                       outdone>>
    BY <1>3 DEF ScanStarts
  <2>2. \A r \in Reconcile : album'[r].read = album[r].read
    BY <2>1 DEF Types, AlbumRec
  <2> QED
    BY <2>1, <2>2 DEF Bounds
<1>4. ASSUME NEW d \in todo, WalkFolder(d) PROVE Bounds'
  <2>1. UNCHANGED <<disk, songs, fix, read, loaded, known, album, owed, freed, seen, outdone>>
    BY <1>4 DEF WalkFolder
  <2>2. misses' \in 0..MaxMisses /\ missed' \subseteq File
    BY <1>4, MoreMisses DEF WalkFolder, Bounds
  <2> QED
    BY <2>1, <2>2 DEF Bounds
<1>5. ASSUME NEW f \in found, ReadTrack(f) PROVE Bounds'
  <2>1. /\ read' = [read EXCEPT ![f] = disk[f]]
        /\ UNCHANGED <<disk, songs, fix, loaded, known, album, owed, freed, misses, seen, missed,
                       outdone>>
    BY <1>5 DEF ReadTrack
  <2>2. \A g \in File : read'[g] \in Content(g)
    BY <2>1 DEF Types, Bounds
  <2> QED
    BY <2>1, <2>2 DEF Bounds
<1> QED
  BY <1>1, <1>2, <1>3, <1>4, <1>5

LEMMA EndsBounded ==
  ASSUME Types, Bounds, ScanPersists \/ RebucketPersists \/ TurnThrows \/ LibCrash
  PROVE  Bounds'
<1>1. /\ NoTurn /\ UNCHANGED <<disk, fix, freed>>
  BY DEF ScanPersists, RebucketPersists, TurnThrows, LibCrash, Settled
<1>2. loaded' \in 0..MaxFix /\ known' \subseteq File /\ \A f \in File : read'[f] \in Content(f)
  BY <1>1, Nothing, RestingTyped DEF NoTurn
<1>3. owed' \subseteq File /\ missed' \subseteq File /\ outdone' \subseteq File
  <2>1. ASSUME NEW chosen \in SUBSET File, Looked(read, chosen)
        PROVE  missed' \subseteq File /\ outdone' \subseteq File
    BY <2>1, LookedBounded
  <2>2. \A tags, authority, rows : Selected(tags, authority, rows) \in SUBSET File
    BY Chosen
  <2>3. ScanPersists \/ RebucketPersists => missed' \subseteq File /\ outdone' \subseteq File
    BY <2>1, <2>2 DEF ScanPersists, RebucketPersists, Built
  <2>4. TurnThrows \/ LibCrash => missed' \subseteq File /\ outdone' \subseteq File
    BY DEF TurnThrows, LibCrash, Bounds
  <2>5. owed' \subseteq File
    BY DEF ScanPersists, RebucketPersists, TurnThrows, LibCrash, Bounds
  <2> QED
    BY <2>3, <2>4, <2>5
<1>4. misses' \in 0..MaxMisses
  BY MoreMisses DEF ScanPersists, RebucketPersists, TurnThrows, LibCrash, Bounds
<1>5. seen' \in [Caller -> SUBSET File]
  BY SeenLess DEF ScanPersists, RebucketPersists, TurnThrows, LibCrash
<1>6. \A f \in File, r \in Reconcile : album'[r].read[f] \in Content(f)
  BY Nothing, RestingTyped DEF ScanPersists, RebucketPersists, TurnThrows, LibCrash, Bounds
<1>7. ASSUME NEW f \in File
      PROVE  songs'[f].fix \in 0..MaxFix /\ songs'[f].tags \in Content(f)
  <2>1. \/ songs'[f] = songs[f] \/ songs'[f] = NoRow
        \/ \E n \in {loaded, fix} : songs'[f] = [tags |-> read[f], fix |-> n]
    BY DEF ScanPersists, RebucketPersists, TurnThrows, LibCrash
  <2> QED
    BY <2>1, Nothing DEF Bounds
<1> QED
  BY <1>1, <1>2, <1>3, <1>4, <1>5, <1>6, <1>7 DEF Bounds

LEMMA AlbumsBounded ==
  ASSUME Types, Bounds, NEW r \in Reconcile,
         \/ \E f \in File : ReconcileWalks(r, f) \/ ReconcileReads(r, f)
         \/ ReconcilePersists(r)
  PROVE  Bounds'
<1>1. ASSUME NEW f \in File, ReconcileWalks(r, f) PROVE Bounds'
  <2>1. UNCHANGED <<disk, songs, fix, read, loaded, known, freed, seen, outdone>>
    BY <1>1 DEF ReconcileWalks
  <2>2. misses' \in 0..MaxMisses /\ missed' \subseteq File /\ owed' \subseteq File
    BY <1>1, MoreMisses DEF ReconcileWalks, Bounds
  <2>3. \A i \in Reconcile, g \in File : album'[i].read[g] \in Content(g)
    <3>1. \/ album' = album
          \/ album' = [album EXCEPT ![r] =
               [at |-> "read", dir |-> AlbumDir[f], files |-> InDir(AlbumDir[f]),
                since |-> Scanning, read |-> Unread]]
      BY <1>1 DEF ReconcileWalks
    <3>2. CASE album' = album
      BY <3>2 DEF Bounds
    <3>3. CASE album' # album
      <4>1. \A i \in Reconcile : album'[i].read = Unread \/ album'[i] = album[i]
        BY <3>1, <3>3 DEF Types
      <4> QED
        BY <4>1, Nothing, RestingTyped DEF Bounds
    <3> QED
      BY <3>2, <3>3
  <2> QED
    BY <2>1, <2>2, <2>3 DEF Bounds
<1>2. ASSUME NEW f \in File, ReconcileReads(r, f) PROVE Bounds'
  <2>1. /\ album' = [album EXCEPT ![r].files = @ \ {f}, ![r].read[f] = disk[f]]
        /\ UNCHANGED <<disk, songs, fix, read, loaded, known, owed, freed, misses, seen, missed,
                       outdone>>
    BY <1>2 DEF ReconcileReads, turnVars
  <2>2. /\ \A i \in Reconcile : i # r => album'[i] = album[i]
        /\ \A g \in File : album'[r].read[g] \in {album[r].read[g], disk[g]}
    BY <2>1 DEF Types, AlbumRec
  <2> QED
    BY <2>1, <2>2 DEF Bounds
<1>3. CASE ReconcilePersists(r)
  <2> DEFINE got == {f \in File : album[r].read[f] # 0}
             chosen == Selected(album[r].read, fix, Rows)
  <2>1. /\ songs' = [f \in File |->
              IF AlbumDir[f] = album[r].dir /\ got # {} /\ disk[f] = 0 THEN NoRow
              ELSE IF f \in chosen THEN [tags |-> album[r].read[f], fix |-> fix] ELSE songs[f]]
        /\ Looked(album[r].read, chosen) /\ chosen \in SUBSET File
        /\ album' = [album EXCEPT ![r] = Resting]
        /\ seen' = Touched({f \in File : songs'[f] # songs[f]})
        /\ UNCHANGED <<disk, fix, read, loaded, known, owed, freed, misses>>
    BY <1>3, Chosen DEF ReconcilePersists
  <2> HIDE DEF got, chosen
  <2>2. ASSUME NEW f \in File
        PROVE  songs'[f].fix \in 0..MaxFix /\ songs'[f].tags \in Content(f)
    <3>1. \/ songs'[f] = songs[f] \/ songs'[f] = NoRow
          \/ songs'[f] = [tags |-> album[r].read[f], fix |-> fix]
      BY <2>1
    <3> QED
      BY <3>1, Nothing DEF Bounds
  <2>3. \A i \in Reconcile, f \in File : album'[i].read[f] \in Content(f)
    BY <2>1, Nothing, RestingTyped DEF Types, Bounds
  <2>4. seen' \in [Caller -> SUBSET File] /\ missed' \subseteq File /\ outdone' \subseteq File
    BY <2>1, SeenLess, LookedBounded
  <2> QED
    BY <2>1, <2>2, <2>3, <2>4 DEF Bounds
<1> QED
  BY <1>1, <1>2, <1>3

LEMMA BoundsInit == LibInit => Bounds
<1> SUFFICES ASSUME LibInit PROVE Bounds
  OBVIOUS
<1>1. fix \in 0..MaxFix /\ loaded \in 0..MaxFix /\ misses \in 0..MaxMisses
  BY Nothing DEF LibInit
<1>2. ASSUME NEW n \in 0..1, NEW f \in File PROVE n \in Content(f)
  BY ScanAssumption DEF Content
<1>3. \A f \in File : disk[f] \in Content(f) /\ songs[f].tags \in Content(f)
  BY <1>2 DEF LibInit
<1>4. \A f \in File : songs[f].fix \in 0..MaxFix /\ read[f] \in Content(f)
  BY Nothing, RestingTyped DEF LibInit
<1>5. \A f \in File, r \in Reconcile : album[r].read[f] \in Content(f)
  BY Nothing, RestingTyped DEF LibInit
<1>6. /\ owed \subseteq File /\ freed \subseteq File /\ missed \subseteq File
      /\ known \subseteq File /\ outdone \subseteq File /\ seen \in [Caller -> SUBSET File]
  BY DEF LibInit
<1> QED
  BY <1>1, <1>3, <1>4, <1>5, <1>6 DEF Bounds

LEMMA BoundsStep == ASSUME Types, Bounds, [LibNext]_libVars PROVE Bounds'
<1>1. ASSUME NEW f \in File, Land(f) \/ Delete(f) PROVE Bounds'
  BY <1>1, FilesBounded
<1>2. CASE Fix \/ (\E c \in Caller : SyncCalled(c)) \/ TrailStarts
  BY <1>2, CallsBounded
<1>3. CASE \/ ScanStarts \/ RebucketStarts \/ BuildStarts
           \/ \E d \in todo : WalkFolder(d)
           \/ \E f \in found : ReadTrack(f)
  BY <1>3, ScanBounded
<1>4. CASE ScanPersists \/ RebucketPersists \/ TurnThrows \/ LibCrash
  BY <1>4, EndsBounded
<1>5. ASSUME NEW r \in Reconcile,
             \/ \E f \in File : ReconcileWalks(r, f) \/ ReconcileReads(r, f)
             \/ ReconcilePersists(r)
      PROVE  Bounds'
  BY <1>5, AlbumsBounded
<1>6. CASE UNCHANGED libVars
  BY <1>6 DEF Bounds, libVars, turnVars, callVars
<1> QED
  BY <1>1, <1>2, <1>3, <1>4, <1>5, <1>6 DEF LibNext, Turn

(* A file that the scan passes over has a better copy's row to stand for it. *)
LEMMA Replaced ==
  ASSUME Types, Bounds, ScanPersists, NEW f \in File, read[f] # 0, f \notin Built
  PROVE  \E g \in File : Stands(g, f)
<1>1. \A g \in File : read[g] \in Content(g)
  BY DEF Bounds
<1>2. PICK g \in Built : Outdoes(g, f, read, loaded, known)
  BY <1>1, BestBuilt DEF Built
<1>3. g \in File /\ songs'[g] = [tags |-> read[g], fix |-> loaded]
  BY Chosen DEF ScanPersists, Built
<1> QED
  BY <1>2, <1>3 DEF Stands

(* No scan takes the row of a file that is there - of one that lands or is   *)
(* retagged while it walks, or that it could not reach - however the walks,  *)
(* the reconciles, the deletes and the crashes interleave (persist's prune), *)
(* but for the row of a better copy of the same track, which it writes       *)
(* (selectLibraryTracksDetailed, library-scanner.ts).                        *)
THEOREM RowsSpared == LibSpec => NoSongLost
<1> DEFINE Inv == IInv /\ Bounds
           Spared == \A f \in File : songs[f].tags # 0 /\ songs'[f].tags = 0 =>
                       disk'[f] = 0 \/ \E g \in File : Stands(g, f)
<1>1. LibInit => Inv
  BY Boots, BoundsInit
<1>2. Inv /\ [LibNext]_libVars => Inv'
  BY Spares, BoundsStep DEF IInv
<1>3. Inv /\ [LibNext]_libVars => [Spared]_libVars
  BY Spares, Replaced DEF IInv, Yields
<1> QED
  BY <1>1, <1>2, <1>3, PTL DEF LibSpec, NoSongLost

(* A trailing run has callers, and is queued behind a run or due.            *)
LEMMA TrailsStep == ASSUME Types, Trails, [LibNext]_libVars PROVE Trails'
<1>1. CASE UNCHANGED callVars
  BY <1>1 DEF callVars, Trails, SyncIn
<1>2. CASE Fix
  BY <1>2, SyncStays DEF Fix, Rebucket, TurnRec, Trails
<1>3. ASSUME NEW c \in Caller, SyncCalled(c) PROVE Trails'
  <2>1. CASE SyncIn(turns)
    BY <1>3, <2>1 DEF SyncCalled, Joins, Trails, SyncIn
  <2>2. CASE ~SyncIn(turns)
    <3>1. turns' = Append(turns, Sync({c})) /\ UNCHANGED <<trailing, due>>
      BY <1>3, <2>2 DEF SyncCalled
    <3>2. Sync({c}) \in TurnRec /\ Sync({c}).kind = "sync"
      BY DEF Sync, TurnRec
    <3> QED
      BY <3>1, <3>2, SyncStays DEF Trails
  <2> QED
    BY <2>1, <2>2
<1>4. CASE TrailStarts
  BY <1>4 DEF TrailStarts, Trails
<1>5. CASE Settled
  <2>1. CASE due'
    <3>1. trailing # {} /\ trailing' = trailing /\ due' \in BOOLEAN
      BY <1>5, <2>1 DEF Settled, Trails
    <3> QED
      BY <2>1, <3>1 DEF Trails
  <2>2. CASE ~due'
    <3>1. ~due /\ (trailing # {} /\ SyncIn(turns) => SyncIn(turns')) /\ trailing' = trailing
      BY <1>5, <2>2 DEF Settled, Trails
    <3>2. due' = FALSE
      BY <1>5, <2>2 DEF Settled, Trails
    <3> QED
      BY <3>1, <3>2 DEF Trails
  <2> QED
    BY <2>1, <2>2
<1>6. CASE LibCrash
  BY <1>6 DEF LibCrash, Trails
<1>7. ASSUME NEW f \in File, Land(f) \/ Delete(f) PROVE UNCHANGED callVars
  BY <1>7 DEF Land, Delete
<1>8. CASE \/ ScanStarts \/ RebucketStarts \/ BuildStarts
           \/ \E d \in todo : WalkFolder(d)
           \/ \E f \in found : ReadTrack(f)
  BY <1>1, <1>8 DEF ScanStarts, RebucketStarts, BuildStarts, WalkFolder, ReadTrack
<1>9. CASE ScanPersists \/ RebucketPersists \/ TurnThrows
  BY <1>5, <1>9 DEF ScanPersists, RebucketPersists, TurnThrows
<1>10. ASSUME NEW r \in Reconcile,
              \/ \E f \in File : ReconcileWalks(r, f) \/ ReconcileReads(r, f)
              \/ ReconcilePersists(r)
       PROVE  UNCHANGED callVars
  BY <1>10 DEF ReconcileWalks, ReconcileReads, ReconcilePersists
<1>11. CASE UNCHANGED libVars
  BY <1>1, <1>11 DEF libVars
<1> QED
  BY <1>1, <1>2, <1>3, <1>4, <1>6, <1>7, <1>8, <1>9, <1>10, <1>11 DEF LibNext, Turn

(* The variables of a scan hold values of their types, and the types say what*)
(* the queue of turns relies on: only its head has state, and a trailing run *)
(* is waited for exactly while it has callers.                               *)
THEOREM ScanTyped == LibSpec => []LibTypeOK
<1>1. LibInit => IInv /\ Bounds /\ Trails
  BY Boots, BoundsInit DEF LibInit, Trails
<1>2. IInv /\ Bounds /\ Trails /\ [LibNext]_libVars => (IInv /\ Bounds /\ Trails)'
  BY Spares, BoundsStep, TrailsStep DEF IInv
<1>3. IInv /\ Bounds /\ Trails => LibTypeOK
  BY TypesAll DEF IInv
<1> QED
  BY <1>1, <1>2, <1>3, PTL DEF LibSpec


---------------------------------------------------------------------------
(* What a sync has seen of the files that nothing else touched since its     *)
(* callers asked: it has read them, or still will.                           *)
Seen(f) ==
  /\ f \notin fresh
  /\ disk[f] = 0 => read[f] = 0
  /\ disk[f] # 0 => AlbumDir[f] \in todo \/ f \in found \/ read[f] = disk[f]
Sees == Scanning => broken \/ \A c \in Head(turns).callers : \A f \in seen[c] : Seen(f)

Rests == stage = "idle" => found = {} /\ read = Unread
Rebuckets == \A i \in DOMAIN turns : turns[i].kind = "rebucket" => turns[i].callers = {}

Observes == Sees /\ Rests /\ Rebuckets

LEMMA Members ==
  ASSUME Types
  PROVE  /\ \A turn \in TurnRec : turns' = Append(turns, turn) =>
              \A i \in DOMAIN turns' : turns'[i] = turn \/ \E j \in DOMAIN turns : turns'[i] = turns[j]
         /\ turns # <<>> /\ turns' = Tail(turns) =>
              \A i \in DOMAIN turns' : \E j \in DOMAIN turns : turns'[i] = turns[j]
<1>1. turns \in Seq(TurnRec)
  BY DEF Types
<1>2. ASSUME NEW turn \in TurnRec, turns' = Append(turns, turn), NEW i \in DOMAIN turns',
             turns'[i] # turn
      PROVE  \E j \in DOMAIN turns : turns'[i] = turns[j]
  <2>1. /\ Len(turns') = Len(turns) + 1 /\ Len(turns) \in Nat /\ turns' \in Seq(TurnRec)
        /\ \A j \in 1..Len(turns) : turns'[j] = turns[j]
        /\ turns'[Len(turns) + 1] = turn
    BY <1>1, <1>2, AppendProperties
  <2>2. DOMAIN turns' = 1..Len(turns') /\ DOMAIN turns = 1..Len(turns)
    BY <1>1, <2>1
  <2> QED
    BY <1>2, <2>1, <2>2
<1>3. ASSUME turns # <<>>, turns' = Tail(turns), NEW i \in DOMAIN turns'
      PROVE  \E j \in DOMAIN turns : turns'[i] = turns[j]
  <2>1. /\ Len(turns) \in Nat \ {0} /\ Len(turns') = Len(turns) - 1 /\ turns' \in Seq(TurnRec)
        /\ \A j \in 1..Len(turns') : turns'[j] = turns[j + 1]
    BY <1>1, <1>3, HeadTailProperties, EmptySeq
  <2>2. DOMAIN turns' = 1..Len(turns') /\ DOMAIN turns = 1..Len(turns)
    BY <1>1, <2>1
  <2> QED
    BY <1>3, <2>1, <2>2
<1> QED
  BY <1>2, <1>3

LEMMA RebucketsStep == ASSUME Types, Rebuckets, [LibNext]_libVars PROVE Rebuckets'
<1>1. ASSUME NEW turn \in TurnRec, turns' = Append(turns, turn), turn.kind = "sync" \/ turn.callers = {}
      PROVE  Rebuckets'
  BY <1>1, Members DEF Rebuckets
<1>2. CASE UNCHANGED turns
  BY <1>2 DEF Rebuckets
<1>3. CASE Settled /\ stage # "idle"
  <2>1. turns # <<>> /\ turns' = Tail(turns)
    BY <1>3 DEF Settled, Types
  <2> QED
    BY <2>1, Members DEF Rebuckets
<1>4. CASE LibCrash
  <2>1. turns' = <<Sync({})>>
    BY <1>4 DEF LibCrash, Boot
  <2> QED
    BY <2>1 DEF Rebuckets, Sync
<1>5. /\ Rebucket \in TurnRec /\ Rebucket.callers = {}
      /\ \A callers \in SUBSET Caller : Sync(callers) \in TurnRec /\ Sync(callers).kind = "sync"
  BY DEF Rebucket, Sync, TurnRec
<1>6. CASE Fix
  BY <1>1, <1>5, <1>6 DEF Fix
<1>7. ASSUME NEW c \in Caller, SyncCalled(c) PROVE Rebuckets'
  BY <1>1, <1>2, <1>5, <1>7 DEF SyncCalled, Joins
<1>8. CASE TrailStarts
  BY <1>1, <1>5, <1>8 DEF TrailStarts, Types
<1>9. ASSUME NEW f \in File, Land(f) \/ Delete(f) PROVE UNCHANGED turns
  BY <1>9 DEF Land, Delete, callVars
<1>10. CASE \/ ScanStarts \/ RebucketStarts \/ BuildStarts
            \/ \E d \in todo : WalkFolder(d)
            \/ \E f \in found : ReadTrack(f)
  BY <1>2, <1>10 DEF ScanStarts, RebucketStarts, BuildStarts, WalkFolder, ReadTrack, callVars
<1>11. CASE ScanPersists \/ RebucketPersists \/ TurnThrows
  BY <1>3, <1>11 DEF ScanPersists, RebucketPersists, TurnThrows
<1>12. ASSUME NEW r \in Reconcile,
              \/ \E f \in File : ReconcileWalks(r, f) \/ ReconcileReads(r, f)
              \/ ReconcilePersists(r)
       PROVE  UNCHANGED turns
  BY <1>12 DEF ReconcileWalks, ReconcileReads, ReconcilePersists, callVars
<1>13. CASE UNCHANGED libVars
  BY <1>2, <1>13 DEF libVars, callVars
<1> QED
  BY <1>2, <1>4, <1>6, <1>7, <1>8, <1>9, <1>10, <1>11, <1>12, <1>13 DEF LibNext, Turn

(* Files, folders and rows: what a caller saw of a file is kept, or the file *)
(* was touched.                                                              *)
LEMMA SeenStays ==
  ASSUME Sees, UNCHANGED <<turns, stage>>, broken => broken',
         Scanning => \A c \in Head(turns).callers : \A f \in seen'[c] :
                       f \in seen[c] /\ (Seen(f) => broken' \/ Seen(f)')
  PROVE  Sees'
BY DEF Sees, Scanning

LEMMA Ahead ==
  ASSUME Types
  PROVE  stage # "idle" => turns # <<>> /\ Head(turns) \in TurnRec /\ Head(turns).callers \subseteq Caller
<1>1. turns \in Seq(TurnRec) /\ (stage # "idle" => turns # <<>>)
  BY DEF Types
<1>2. stage # "idle" => Head(turns) \in TurnRec
  BY <1>1, HeadTailProperties
<1>3. \A turn \in TurnRec : turn.callers \subseteq Caller
  BY DEF TurnRec
<1> QED
  BY <1>1, <1>2, <1>3

LEMMA FilesSeen ==
  ASSUME Types, Bounds, Observes, NEW f \in File, Land(f) \/ Delete(f)
  PROVE  Sees' /\ Rests'
<1>1. PICK touched \in SUBSET File :
        /\ seen' = Touched(touched)
        /\ \A g \in File : g \notin touched => disk'[g] = disk[g]
  <2>1. CASE Land(f)
    <3>1. seen' = Touched({f}) /\ \A g \in File : g \notin {f} => disk'[g] = disk[g]
      BY <2>1 DEF Land, Types
    <3> QED
      BY <3>1
  <2>2. CASE Delete(f)
    <3>1. PICK gone \in SUBSET File : /\ disk' = [g \in File |-> IF g \in gone THEN 0 ELSE disk[g]]
                                      /\ seen' = Touched(gone \cup {f})
      <4>1. CASE disk[f] # 0
        BY <2>2, <4>1 DEF Delete
      <4>2. CASE disk[f] = 0
        BY <2>2, <4>2 DEF Delete
      <4> QED
        BY <4>1, <4>2 DEF Types
    <3> QED
      BY <3>1
  <2> QED
    BY <2>1, <2>2
<1>2. UNCHANGED <<turns, stage, todo, found, read, broken, fresh>>
  BY DEF Land, Delete, callVars, turnVars
<1>3. Scanning => Head(turns).callers \subseteq Caller
  BY Ahead DEF Scanning
<1>4. \A c \in Caller : \A g \in seen'[c] : g \in seen[c] /\ g \in File /\ g \notin touched
  BY <1>1 DEF Touched, Bounds
<1>5. \A c \in Caller : \A g \in seen'[c] : disk'[g] = disk[g]
  BY <1>1, <1>4
<1>6. \A c \in Caller : \A g \in seen'[c] : Seen(g) => Seen(g)'
  BY <1>2, <1>5 DEF Seen
<1>7. Sees'
  BY <1>2, <1>3, <1>4, <1>6, SeenStays DEF Observes
<1> QED
  BY <1>2, <1>7 DEF Observes, Rests


(* A call waits behind the turn under way, with every file to see.           *)
LEMMA CallsSeen ==
  ASSUME Types, Observes, Fix \/ (\E c \in Caller : SyncCalled(c)) \/ TrailStarts
  PROVE  Sees' /\ Rests'
<1>1. UNCHANGED <<stage, disk, todo, found, read, broken, fresh>>
  BY DEF Fix, SyncCalled, TrailStarts, turnVars
<1>2. Rests'
  BY <1>1 DEF Observes, Rests
<1>3. \A f : Seen(f)' <=> Seen(f)
  BY <1>1 DEF Seen
<1>4. ASSUME Scanning'
      PROVE  /\ Scanning /\ Head(turns') = Head(turns)
             /\ \A c \in Head(turns).callers : seen'[c] = seen[c]
  <2>1. stage # "idle" /\ turns # <<>>
    BY <1>1, <1>4, Ahead DEF Scanning
  <2>2. turns \in Seq(TurnRec)
    BY DEF Types
  <2>3. Head(turns) = turns[1] /\ 1 \in DOMAIN turns
    BY <2>1, <2>2, HeadTailProperties, EmptySeq
  <2>4. CASE Fix \/ TrailStarts
    <3>1. \E turn \in TurnRec : turns' = Append(turns, turn)
      BY <2>4, TurnKinds DEF Fix, TrailStarts, Types
    <3>2. Head(turns') = Head(turns) /\ seen' = seen
      BY <2>1, <2>4, <3>1, Queued DEF Fix, TrailStarts
    <3> QED
      BY <1>1, <1>4, <3>2 DEF Scanning
  <2>5. ASSUME NEW c \in Caller, SyncCalled(c)
        PROVE  Head(turns') = Head(turns) /\ \A b \in Head(turns).callers : seen'[b] = seen[b]
    <3>1. Head(turns') = Head(turns)
      <4>1. Sync({c}) \in TurnRec
        BY TurnKinds
      <4> QED
        BY <2>1, <2>5, <4>1, Queued DEF SyncCalled, Joins
    <3>2. c \notin Head(turns).callers
      BY <2>3, <2>5 DEF SyncCalled, Waiting
    <3>3. seen' = [seen EXCEPT ![c] = File]
      BY <2>5 DEF SyncCalled
    <3> QED
      BY <3>1, <3>2, <3>3
  <2> QED
    BY <1>1, <1>4, <2>4, <2>5 DEF Scanning
<1>5. Sees'
  BY <1>1, <1>3, <1>4 DEF Observes, Sees
<1> QED
  BY <1>2, <1>5

(* A scan starts with every folder ahead of it; what it reads it has seen.   *)
LEMMA ScanSeen ==
  ASSUME Types, Bounds, Observes,
         \/ ScanStarts \/ RebucketStarts \/ BuildStarts
         \/ \E d \in todo : WalkFolder(d)
         \/ \E f \in found : ReadTrack(f)
  PROVE  Sees' /\ Rests'
<1>1. UNCHANGED <<turns, disk, seen>>
  BY DEF ScanStarts, RebucketStarts, BuildStarts, WalkFolder, ReadTrack, callVars
<1>2. stage' # "idle"
  BY DEF ScanStarts, RebucketStarts, BuildStarts, WalkFolder, ReadTrack
<1>3. Rests'
  BY <1>2 DEF Rests
<1>4. ASSUME NEW c, NEW f \in seen[c], Scanning', c \in Head(turns).callers
      PROVE  f \in File
  <2>1. stage # "idle" \/ ScanStarts \/ RebucketStarts
    BY DEF BuildStarts, WalkFolder, ReadTrack, Types
  <2>2. turns # <<>>
    BY <2>1, Ahead DEF ScanStarts, RebucketStarts
  <2>3. turns \in Seq(TurnRec)
    BY DEF Types
  <2>4. Head(turns) \in TurnRec
    BY <2>2, <2>3, HeadTailProperties
  <2>5. c \in Caller
    BY <1>4, <2>4 DEF TurnRec
  <2> QED
    BY <1>4, <2>5 DEF Bounds
<1>5. CASE RebucketStarts
  BY <1>1, <1>3, <1>5 DEF RebucketStarts, Sees, Scanning
<1>6. CASE ScanStarts
  <2>1. /\ fresh' = {} /\ todo' = {d \in Folders : InDir(d) # {}} /\ read' = Unread
    BY <1>6 DEF ScanStarts, Observes, Rests
  <2>2. \A f \in File : Seen(f)'
    <3> SUFFICES ASSUME NEW f \in File PROVE Seen(f)'
      OBVIOUS
    <3>1. read'[f] = 0 /\ f \notin fresh'
      BY <2>1, RestingTyped
    <3>2. disk[f] # 0 => f \in InDir(AlbumDir[f]) /\ AlbumDir[f] \in Folders
      BY DEF InDir, Folders
    <3>3. disk[f] # 0 => AlbumDir[f] \in todo'
      BY <2>1, <3>2
    <3> QED
      BY <1>1, <3>1, <3>3 DEF Seen
  <2>3. Scanning' => \A c \in Head(turns).callers : \A f \in seen[c] : Seen(f)'
    BY <1>4, <2>2
  <2>4. Sees'
    BY <1>1, <2>3 DEF Sees
  <2> QED
    BY <1>3, <2>4
<1>7. ASSUME stage # "idle", broken => broken',
             Scanning => \A f \in File : Seen(f) => broken' \/ Seen(f)'
      PROVE  Sees'
  <2>1. Scanning' => Scanning
    BY <1>1, <1>7 DEF Scanning
  <2>2. Scanning' => broken \/ \A c \in Head(turns).callers : \A f \in seen[c] : Seen(f)
    BY <2>1 DEF Observes, Sees
  <2>3. Scanning' => broken' \/ \A c \in Head(turns).callers : \A f \in seen[c] : Seen(f)'
    BY <1>4, <1>7, <2>1, <2>2
  <2> QED
    BY <1>1, <2>3 DEF Sees
<1>8. CASE BuildStarts
  <2>1. stage # "idle" /\ UNCHANGED <<todo, found, read, broken, fresh>>
    BY <1>8 DEF BuildStarts
  <2> QED
    BY <1>1, <1>3, <1>7, <2>1 DEF Seen
<1>9. ASSUME NEW d \in todo, WalkFolder(d) PROVE Sees'
  <2>1. /\ stage # "idle" /\ todo' = todo \ {d} /\ UNCHANGED <<read, fresh>>
        /\ broken => broken'
        /\ broken' \/ found' = found \cup InDir(d)
    BY <1>9 DEF WalkFolder
  <2>2. \A f \in File : disk[f] # 0 /\ AlbumDir[f] = d => f \in InDir(d)
    BY DEF InDir
  <2>3. \A f \in File : Seen(f) => broken' \/ Seen(f)'
    BY <1>1, <2>1, <2>2 DEF Seen
  <2> QED
    BY <1>7, <2>1, <2>3
<1>10. ASSUME NEW g \in found, ReadTrack(g) PROVE Sees'
  <2>1. /\ stage # "idle" /\ found' = found \ {g} /\ read' = [read EXCEPT ![g] = disk[g]]
        /\ UNCHANGED <<todo, broken, fresh>>
    BY <1>10 DEF ReadTrack
  <2>2. \A f \in File : read'[f] = IF f = g THEN disk[f] ELSE read[f]
    BY <2>1 DEF Types
  <2>3. \A f \in File : Seen(f) => Seen(f)'
    BY <1>1, <2>1, <2>2 DEF Seen
  <2> QED
    BY <1>7, <2>1, <2>3
<1> QED
  BY <1>3, <1>5, <1>6, <1>8, <1>9, <1>10


(* A reconcile stamps the rows it changes, and a caller's view of them goes. *)
LEMMA ReconcilesSeen ==
  ASSUME Types, Bounds, Observes, NEW r \in Reconcile,
         \/ \E f \in File : ReconcileWalks(r, f) \/ ReconcileReads(r, f)
         \/ ReconcilePersists(r)
  PROVE  Sees' /\ Rests'
<1>1. UNCHANGED <<turns, stage, disk, todo, found, read>> /\ (broken => broken')
  <2>1. ASSUME NEW f \in File, ReconcileWalks(r, f)
        PROVE  UNCHANGED <<turns, stage, disk, todo, found, read>> /\ (broken => broken')
    <3>1. UNCHANGED <<turns, stage, disk, todo, found, read>>
      BY <2>1 DEF ReconcileWalks, callVars
    <3>2. broken' = broken \/ \E walking \in BOOLEAN : broken' = (broken \/ walking)
      BY <2>1 DEF ReconcileWalks
    <3>3. broken \in BOOLEAN
      BY DEF Types
    <3>4. broken => broken'
      BY <3>2, <3>3
    <3> QED
      BY <3>1, <3>4
  <2>2. ASSUME NEW f \in File, ReconcileReads(r, f)
        PROVE  UNCHANGED <<turns, stage, disk, todo, found, read, broken>>
    BY <2>2 DEF ReconcileReads, turnVars, callVars
  <2>3. CASE ReconcilePersists(r)
    BY <2>3 DEF ReconcilePersists, callVars
  <2> QED
    BY <2>1, <2>2, <2>3
<1>2. Rests'
  BY <1>1 DEF Observes, Rests
<1>3. Scanning => Head(turns).callers \subseteq Caller
  BY Ahead DEF Scanning
<1>4. \A c \in Caller : \A f \in seen'[c] : f \in seen[c] /\ (Seen(f) => Seen(f)')
  <2>1. CASE UNCHANGED <<seen, fresh>>
    BY <1>1, <2>1 DEF Seen
  <2>2. CASE ReconcilePersists(r)
    <3> DEFINE changed == {f \in File : songs'[f] # songs[f]}
    <3>1. /\ fresh' = IF album[r].since THEN fresh \cup changed ELSE fresh
          /\ seen' = Touched(changed)
      BY <2>2 DEF ReconcilePersists
    <3> HIDE DEF changed
    <3>2. \A c \in Caller : seen'[c] = seen[c] \ changed
      BY <3>1 DEF Touched
    <3>3. \A f : f \in fresh' /\ f \notin fresh => f \in changed
      BY <3>1
    <3> QED
      BY <1>1, <3>2, <3>3 DEF Seen
  <2> QED
    BY <2>1, <2>2 DEF ReconcileWalks, ReconcileReads, turnVars
<1> QED
  BY <1>1, <1>2, <1>3, <1>4, SeenStays DEF Observes

LEMMA ObservesInit == LibInit => Observes
<1> SUFFICES ASSUME LibInit PROVE Observes
  OBVIOUS
<1>1. stage = "idle" /\ found = {} /\ read = Unread /\ turns = <<Sync({})>>
  BY DEF LibInit
<1> QED
  BY <1>1 DEF Observes, Sees, Scanning, Rests, Rebuckets, Sync

LEMMA ObservesStep == ASSUME Types, Bounds, Observes, [LibNext]_libVars PROVE Observes'
<1>1. Rebuckets'
  BY RebucketsStep DEF Observes
<1> SUFFICES Sees' /\ Rests'
  BY <1>1 DEF Observes
<1>2. ASSUME NEW f \in File, Land(f) \/ Delete(f) PROVE Sees' /\ Rests'
  BY <1>2, FilesSeen
<1>3. CASE Fix \/ (\E c \in Caller : SyncCalled(c)) \/ TrailStarts
  BY <1>3, CallsSeen
<1>4. CASE \/ ScanStarts \/ RebucketStarts \/ BuildStarts
           \/ \E d \in todo : WalkFolder(d)
           \/ \E f \in found : ReadTrack(f)
  BY <1>4, ScanSeen
<1>5. CASE ScanPersists \/ RebucketPersists \/ TurnThrows \/ LibCrash
  <2>1. NoTurn
    BY <1>5 DEF ScanPersists, RebucketPersists, TurnThrows, LibCrash, Settled
  <2> QED
    BY <2>1 DEF NoTurn, Sees, Scanning, Rests
<1>6. ASSUME NEW r \in Reconcile,
             \/ \E f \in File : ReconcileWalks(r, f) \/ ReconcileReads(r, f)
             \/ ReconcilePersists(r)
      PROVE  Sees' /\ Rests'
  BY <1>6, ReconcilesSeen
<1>7. CASE UNCHANGED libVars
  BY <1>7 DEF Observes, Sees, Scanning, Seen, Rests, libVars, turnVars, callVars
<1> QED
  BY <1>2, <1>3, <1>4, <1>5, <1>6, <1>7 DEF LibNext, Turn

(* Only the end of a scan answers its callers, and it has seen all it must.  *)
LEMMA Answers ==
  ASSUME Types, Bounds, Observes, [LibNext]_libVars,
         NEW c \in Caller, Waiting(c), ~Waiting(c)', misses' = misses
  PROVE  broken \/ \A f \in seen[c] :
           songs'[f].tags = disk[f] \/ (songs'[f].tags = 0 /\ \E g \in File : Stands(g, f))
<1>1. ASSUME \A i \in DOMAIN turns : \E j \in DOMAIN turns' : turns[i].callers \subseteq turns'[j].callers,
             trailing \subseteq trailing' \/ \E j \in DOMAIN turns' : trailing \subseteq turns'[j].callers
      PROVE  FALSE
  BY <1>1 DEF Waiting
<1>2. ~UNCHANGED callVars
  BY <1>1 DEF callVars
<1>3. \A turn \in TurnRec : turns' = Append(turns, turn) =>
        /\ \A i \in DOMAIN turns : \E j \in DOMAIN turns' : turns[i].callers \subseteq turns'[j].callers
        /\ \E j \in DOMAIN turns' : turns'[j] = turn
  <2> SUFFICES ASSUME NEW turn \in TurnRec, turns' = Append(turns, turn)
               PROVE  /\ \A i \in DOMAIN turns : \E j \in DOMAIN turns' : turns'[j] = turns[i]
                      /\ \E j \in DOMAIN turns' : turns'[j] = turn
    OBVIOUS
  <2>1. turns \in Seq(TurnRec)
    BY DEF Types
  <2>2. Len(turns) + 1 \in DOMAIN turns' /\ turns'[Len(turns) + 1] = turn
    BY <2>1, AppendProperties
  <2> QED
    BY <2>2, Longer
<1>4. ~Fix
  BY <1>1, <1>3, TurnKinds DEF Fix
<1>5. \A b \in Caller : ~SyncCalled(b)
  <2> SUFFICES ASSUME NEW b \in Caller, SyncCalled(b)
               PROVE  FALSE
    OBVIOUS
  <2>1. CASE SyncIn(turns)
    BY <1>1, <2>1 DEF SyncCalled, Joins
  <2>2. CASE ~SyncIn(turns)
    BY <1>1, <1>3, <2>2, TurnKinds DEF SyncCalled
  <2> QED
    BY <2>1, <2>2
<1>6. ~TrailStarts
  <2> SUFFICES ASSUME TrailStarts
               PROVE  FALSE
    OBVIOUS
  <2>1. turns' = Append(turns, Sync(trailing)) /\ Sync(trailing) \in TurnRec
    BY TurnKinds DEF TrailStarts, Types
  <2>2. Sync(trailing).callers = trailing
    BY DEF Sync
  <2> QED
    BY <1>1, <1>3, <2>1, <2>2
<1>7. ~TurnThrows /\ ~LibCrash
  <2>1. misses' # misses + 1
    BY DEF Bounds
  <2> QED
    BY <2>1 DEF TurnThrows, LibCrash
<1>8. ScanPersists \/ RebucketPersists
  <2>1. ASSUME NEW f \in File, Land(f) \/ Delete(f) PROVE FALSE
    BY <1>2, <2>1 DEF Land, Delete
  <2>2. ASSUME \/ ScanStarts \/ RebucketStarts \/ BuildStarts
               \/ \E d \in todo : WalkFolder(d)
               \/ \E f \in found : ReadTrack(f)
        PROVE  FALSE
    BY <1>2, <2>2 DEF ScanStarts, RebucketStarts, BuildStarts, WalkFolder, ReadTrack
  <2>3. ASSUME NEW r \in Reconcile,
               \/ \E f \in File : ReconcileWalks(r, f) \/ ReconcileReads(r, f)
               \/ ReconcilePersists(r)
        PROVE  FALSE
    BY <1>2, <2>3 DEF ReconcileWalks, ReconcileReads, ReconcilePersists
  <2>4. ~UNCHANGED libVars
    BY <1>2 DEF libVars
  <2> QED
    BY <1>4, <1>5, <1>6, <1>7, <2>1, <2>2, <2>3, <2>4 DEF LibNext, Turn
<1>9. stage # "idle" /\ turns # <<>> /\ turns' = Tail(turns) /\ UNCHANGED trailing
  BY <1>8, Ahead DEF ScanPersists, RebucketPersists, Settled
<1>10. c \in Head(turns).callers
  <2>1. turns \in Seq(TurnRec)
    BY DEF Types
  <2>2. PICK i \in DOMAIN turns : c \in turns[i].callers
    BY <1>9 DEF Waiting
  <2>3. ~(i > 1)
    BY <1>9, <2>2, Shorter DEF Waiting
  <2>4. i = 1 /\ Head(turns) = turns[1]
    <3>1. i \in 1..Len(turns) /\ Len(turns) \in Nat
      BY <2>1
    <3>2. i = 1
      BY <2>3, <3>1
    <3> QED
      BY <1>9, <2>1, <3>2, HeadTailProperties
  <2> QED
    BY <2>2, <2>4
<1>11. ~RebucketPersists
  <2> SUFFICES ASSUME RebucketPersists
               PROVE  FALSE
    OBVIOUS
  <2>1. Head(turns).kind # "sync"
    BY <1>9 DEF RebucketPersists, Scanning
  <2>2. Head(turns).kind = "rebucket"
    BY <1>9, <2>1, Ahead DEF TurnRec
  <2>3. turns \in Seq(TurnRec)
    BY DEF Types
  <2>4. 1 \in DOMAIN turns /\ Head(turns) = turns[1]
    BY <1>9, <2>3, HeadTailProperties, EmptySeq
  <2> QED
    BY <1>10, <2>2, <2>4 DEF Observes, Rebuckets
<1>12. ScanPersists /\ Scanning /\ todo = {} /\ found = {}
  BY <1>8, <1>11 DEF ScanPersists, Scanning, Types
<1>13. ASSUME ~broken, NEW f \in seen[c]
       PROVE  songs'[f].tags = disk[f] \/ (songs'[f].tags = 0 /\ \E g \in File : Stands(g, f))
  <2>1. Seen(f) /\ f \in File
    BY <1>10, <1>12, <1>13 DEF Observes, Sees, Bounds
  <2>2. f \notin fresh /\ read[f] = disk[f]
    BY <1>12, <2>1 DEF Seen
  <2>3. songs'[f] = IF f \in Built THEN [tags |-> read[f], fix |-> loaded] ELSE NoRow
    BY <1>12, <1>13, <2>1, <2>2 DEF ScanPersists, Prunes
  <2>4. f \notin Built /\ read[f] # 0 => \E g \in File : Stands(g, f)
    BY <1>12, <2>1, Replaced
  <2> QED
    BY <2>2, <2>3, <2>4, Nothing
<1> QED
  BY <1>13

(* A sync observes every change made before it was asked for                 *)
(* (coalesced-run.ts:6), whoever else it joined and whatever overlapped: the *)
(* rows it answers with are those of the files, a file without one having a  *)
(* better copy whose row the scan wrote, but where the walk was incomplete,  *)
(* or the file has been touched since.                                       *)
THEOREM ScansObserve == LibSpec => SyncObserves
<1> DEFINE Inv == IInv /\ Bounds /\ Observes
           Answered == \A c \in Caller : (Waiting(c) /\ ~Waiting(c)' /\ misses' = misses) =>
                         broken \/ \A f \in seen[c] :
                           songs'[f].tags = disk[f]
                             \/ (songs'[f].tags = 0 /\ \E g \in File : Stands(g, f))
<1>1. LibInit => Inv
  BY Boots, BoundsInit, ObservesInit
<1>2. Inv /\ [LibNext]_libVars => Inv'
  BY Spares, BoundsStep, ObservesStep DEF IInv
<1>3. Inv /\ [LibNext]_libVars => [Answered]_libVars
  BY Answers DEF IInv
<1> QED
  BY <1>1, <1>2, <1>3, PTL DEF LibSpec, SyncObserves


---------------------------------------------------------------------------
(* The imports.                                                              *)
Loop == {"next", "stage", "organize", "settle"}
WorkerRec == [at : {"idle", "next", "stage", "organize", "settle", "boot", "restore"},
              job : Job, plan : SUBSET Folder, chunk : SUBSET Folder, rest : SUBSET Track,
              taken : SUBSET Track, ran : BOOLEAN, filed : BOOLEAN, clean : BOOLEAN,
              gone : SUBSET Job]
ImportRec == [state : {"none", "running"} \cup Over, move : BOOLEAN, done : SUBSET Folder]

(* The row and the loop agree on what runs.                                  *)
OneRun ==
  worker.at # "boot" =>
    \A j \in Job : imports[j].state = "running" <=> worker.at \in Loop /\ worker.job = j

ImportTypes ==
  /\ kind \in Kinds /\ source \subseteq Track /\ landed \subseteq Track
  /\ staged \in [Job -> SUBSET Track] /\ imports \in [Job -> ImportRec]
  /\ worker \in WorkerRec /\ torn \in BOOLEAN /\ cancels \subseteq Job

(* What the loop took is staged until the organizer has filed it, and what   *)
(* it will still take is at home.                                            *)
Taken ==
  worker.at \in Loop =>
    /\ worker.taken \ staged[worker.job] \subseteq landed
    /\ worker.at = "next" => worker.taken = {}
    /\ worker.at = "stage" => worker.rest \subseteq source

(* A staging directory holds nothing but what its loop took, and copies.     *)
Renames(j) == kind = "renamed" /\ imports[j].move
Copies ==
  kind # "archive" /\ ~torn => \A j \in Job : imports[j].state = "running" =>
    \A t \in staged[j] : t \in source \cup landed \/
      (Renames(j) /\ (worker.at \in Loop => t \in worker.taken))

ImportInv == ImportTypes /\ OneRun /\ Taken /\ Copies /\ OriginalsKept

---------------------------------------------------------------------------
LEMMA IdleTyped ==
  /\ Idle \in WorkerRec /\ Idle.at = "idle"
  /\ Idle.taken = {} /\ Idle.rest = {}
<1> DEFINE j == CHOOSE j \in Job : TRUE
<1>1. j \in Job
  BY ImportAssumption
<1>2. Idle = [at |-> "idle", job |-> j, plan |-> {}, chunk |-> {}, rest |-> {}, taken |-> {},
              ran |-> FALSE, filed |-> FALSE, clean |-> TRUE, gone |-> {}]
  BY DEF Idle
<1> HIDE DEF j
<1> QED
  BY <1>1, <1>2 DEF WorkerRec

(* A run begins with nothing taken, in a state where every row is at rest.   *)
LEMMA Beginning ==
  ASSUME ImportTypes, NEW j \in Job, Begins(j)
  PROVE  /\ worker' \in WorkerRec /\ worker'.at = "next" /\ worker'.job = j
         /\ worker'.taken = {}
<1>1. Idle \in WorkerRec
  BY IdleTyped
<1>2. {F \in Folder \ imports[j].done : F \cap source # {}} \in SUBSET Folder
  OBVIOUS
<1> QED
  BY <1>1, <1>2, IdleTyped DEF Begins, WorkerRec

(* Emptying one staging directory.                                           *)
LEMMA Emptying ==
  ASSUME ImportTypes, NEW j \in Job
  PROVE  /\ Emptied(j) \in [Job -> SUBSET Track] /\ Emptied(j)[j] = {}
         /\ \A i \in Job : i # j => Emptied(j)[i] = staged[i]
BY DEF Emptied, ImportTypes

LEMMA Ending ==
  ASSUME ImportTypes, NEW state \in Over, Ends(state)
  PROVE  /\ imports' \in [Job -> ImportRec] /\ worker' = Idle /\ cancels' \subseteq Job
         /\ \A j \in Job : imports'[j].state = "running"
                          => imports[j].state = "running" /\ j # worker.job
<1>1. worker.job \in Job
  BY DEF ImportTypes, WorkerRec
<1> QED
  BY <1>1 DEF Ends, ImportTypes, ImportRec, Over

(* What a rollback leaves, and where it leaves it.                           *)
LEMMA RollingBack ==
  ASSUME ImportTypes, NEW j \in Job, RollsBack(j)
  PROVE  /\ source' \in SUBSET Track /\ staged' \in [Job -> SUBSET Track]
         /\ source \subseteq source' /\ staged'[j] = {}
         /\ \A i \in Job : i # j => staged'[i] = staged[i]
         /\ Moves(j) => staged[j] \subseteq source'
BY Emptying DEF RollsBack, ImportTypes

(* The rows that the boot leaves.                                            *)
LEMMA Reconciling ==
  ASSUME ImportTypes, Reconciles
  PROVE  /\ imports' \in [Job -> ImportRec] /\ worker' \in WorkerRec
         /\ worker'.at = "restore"
         /\ \A j \in Job : imports'[j].state # "running"
         /\ \A j \in Job : imports[j].state = "running" /\ Moves(j)
                           => staged[j] \subseteq worker'.rest
<1> DEFINE orphans == {j \in Job : imports[j].state = "running"}
           failed == [j \in Job |-> IF j \in orphans THEN [imports[j] EXCEPT !.state = "failed"]
                                    ELSE imports[j]]
           rest == UNION {staged[j] : j \in {o \in orphans : Moves(o)}}
<1>1. PICK old \in SUBSET {j \in Job : failed[j].state \in Over} :
        /\ imports' = [j \in Job |-> IF j \in old THEN NoImport ELSE failed[j]]
        /\ worker' = [worker EXCEPT !.at = "restore", !.gone = orphans \cup old,
                         !.rest = rest]
  BY DEF Reconciles
<1>2. failed \in [Job -> ImportRec] /\ \A j \in Job : failed[j].state # "running"
  BY DEF ImportTypes, ImportRec, Over
<1>3. NoImport \in ImportRec /\ NoImport.state # "running"
  BY DEF NoImport, ImportRec
<1>4. rest \in SUBSET Track /\ orphans \cup old \in SUBSET Job
  BY DEF ImportTypes
<1>5. \A j \in Job : imports[j].state = "running" /\ Moves(j) => staged[j] \subseteq rest
  OBVIOUS
<1> HIDE DEF failed, rest, orphans
<1>6. imports' \in [Job -> ImportRec] /\ \A j \in Job : imports'[j].state # "running"
  BY <1>1, <1>2, <1>3
<1>7. worker' \in WorkerRec /\ worker'.at = "restore" /\ worker'.rest = rest
  BY <1>1, <1>4 DEF ImportTypes, WorkerRec
<1> QED
  BY <1>5, <1>6, <1>7

LEMMA ImportTypesInit == ImportInit => ImportTypes
<1>1. NoImport \in ImportRec
  BY DEF NoImport, ImportRec
<1> QED
  BY <1>1, IdleTyped DEF ImportInit, ImportTypes

LEMMA ImportTypesStep ==
  ASSUME ImportTypes, [ImportNext]_importVars
  PROVE  ImportTypes'
<1> USE DEF ImportTypes
<1>1. ASSUME NEW j \in Job, SubmitImport(j)
     PROVE  ImportTypes'
  BY <1>1, Beginning DEF SubmitImport, ImportRec
<1>2. ASSUME NEW j \in Job, RetryImport(j)
     PROVE  ImportTypes'
  BY <1>2, Beginning DEF RetryImport, ImportRec, Over
<1>3. ASSUME NEW j \in Job, CancelImport(j)
     PROVE  ImportTypes'
  BY <1>3 DEF CancelImport
<1>4. ASSUME NEW j \in Job, DeleteImport(j)
     PROVE  ImportTypes'
  BY <1>4, Emptying DEF DeleteImport, ImportRec, NoImport
<1>5. ASSUME NEW t \in Track, StageTrack(t)
     PROVE  ImportTypes'
  BY <1>5 DEF StageTrack, WorkerRec
<1>6. ASSUME NEW t \in Track, StageFails(t)
     PROVE  ImportTypes'
  BY <1>6 DEF StageFails, WorkerRec
<1>7. ASSUME NEW t \in Track, Restore(t)
     PROVE  ImportTypes'
  BY <1>7 DEF Restore, WorkerRec
<1>8. ASSUME NEW t \in Track, Place(t)
     PROVE  ImportTypes'
  BY <1>8 DEF Place, WorkerRec
<1>9. CASE Stops
  <2>1. worker.job \in Job /\ "cancelled" \in Over
    BY DEF WorkerRec, Over
  <2> QED
    BY <1>9, <2>1, IdleTyped, Ending, RollingBack DEF Stops
<1>10. CASE ChunkStarts
  <2>1. PICK chunk \in (SUBSET worker.plan) \ {{}} :
          worker' = [worker EXCEPT !.at = "stage", !.chunk = chunk, !.plan = @ \ chunk,
                       !.rest = source \cap UNION chunk, !.taken = {}, !.ran = TRUE]
    BY <1>10 DEF ChunkStarts
  <2>2. source \cap UNION chunk \in SUBSET Track
    OBVIOUS
  <2> QED
    BY <1>10, <2>1, <2>2 DEF ChunkStarts, WorkerRec
<1>11. CASE Staged
  BY <1>11 DEF Staged, WorkerRec
<1>12. CASE Organized
  BY <1>12 DEF Organized, WorkerRec
<1>13. CASE ChunkEnds
  <2> DEFINE j == worker.job
  <2>1. /\ j \in Job /\ worker.taken \in SUBSET Track /\ worker.chunk \in SUBSET Folder
        /\ imports[j] \in ImportRec /\ staged[j] \in SUBSET Track
    BY DEF WorkerRec
  <2>2. worker' \in WorkerRec
    BY <1>13 DEF ChunkEnds, WorkerRec
  <2>3. imports' \in [Job -> ImportRec]
    <3>1. imports' = [imports EXCEPT ![j].done = @ \cup worker.chunk]
      BY <1>13 DEF ChunkEnds
    <3>2. [imports[j] EXCEPT !.done = @ \cup worker.chunk] \in ImportRec
      BY <2>1 DEF ImportRec
    <3> QED
      BY <2>1, <3>1, <3>2
  <2>4. source' \subseteq Track
    BY <1>13, <2>1 DEF ChunkEnds
  <2>5. staged' \in [Job -> SUBSET Track]
    BY <1>13, <2>1, Emptying DEF ChunkEnds
  <2> QED
    BY <1>13, <2>2, <2>3, <2>4, <2>5 DEF ChunkEnds
<1>14. CASE ChunkFails
  BY <1>14, Emptying DEF ChunkFails, RollsBack, WorkerRec
<1>15. CASE ImportEnds
  <2> DEFINE state == IF worker.ran /\ ~worker.filed THEN "failed" ELSE "done"
  <2>1. worker.job \in Job /\ state \in Over
    BY DEF WorkerRec, Over
  <2>2. Ends(state)
    BY <1>15 DEF ImportEnds
  <2> HIDE DEF state
  <2>3. imports' \in [Job -> ImportRec] /\ worker' = Idle /\ cancels' \subseteq Job
    BY <2>1, <2>2, Ending
  <2> QED
    BY <1>15, <2>1, <2>3, IdleTyped, Emptying DEF ImportEnds
<1>16. CASE Reconciles
  BY <1>16, Reconciling DEF Reconciles
<1>17. CASE Restored
  BY <1>17, IdleTyped DEF Restored
<1>18. CASE ImportCrash
  BY <1>18, IdleTyped DEF ImportCrash, WorkerRec
<1>19. CASE Imported
  BY <1>19 DEF Imported, importVars
<1>20. CASE UNCHANGED importVars
  BY <1>20 DEF importVars
<1> QED
  BY <1>1, <1>2, <1>3, <1>4, <1>5, <1>6, <1>7, <1>8, <1>9, <1>10, <1>11, <1>12, <1>13, <1>14, <1>15, <1>16, <1>17, <1>18, <1>19, <1>20 DEF ImportNext, Proceeds

---------------------------------------------------------------------------
(* At rest no row says running, so every original is home or filed.          *)
LEMMA NoneRuns ==
  ASSUME ImportInv, worker.at \notin Loop, worker.at # "boot"
  PROVE  \A j \in Job : imports[j].state # "running"
BY DEF ImportInv, OneRun

LEMMA HomeOrFiled ==
  ASSUME ImportInv, worker.at \notin Loop \cup {"boot", "restore"}, kind # "archive", ~torn
  PROVE  Track \subseteq source \cup landed
<1>1. \A j \in Job : imports[j].state # "running"
  BY NoneRuns
<1>2. \A t \in Track : Kept(t)
  BY DEF ImportInv, OriginalsKept
<1> QED
  BY <1>1, <1>2 DEF Kept

(* At a step of the loop, only its own directory matters.                    *)
LEMMA InRun ==
  ASSUME ImportInv, worker.at \in Loop
  PROVE  /\ worker.job \in Job
         /\ \A j \in Job : imports[j].state = "running" <=> j = worker.job
         /\ kind # "archive" /\ ~torn => \A t \in Track :
              \/ t \in source \cup landed
              \/ t \in staged[worker.job] \cap worker.taken /\ Renames(worker.job)
<1>1. worker.job \in Job
  BY DEF ImportInv, ImportTypes, WorkerRec
<1>2. \A j \in Job : imports[j].state = "running" <=> j = worker.job
  BY DEF ImportInv, OneRun, Loop
<1>3. worker.at # "restore"
  BY DEF Loop
<1>4. ASSUME kind # "archive", ~torn, NEW t \in Track, t \notin source \cup landed
      PROVE  t \in staged[worker.job] \cap worker.taken /\ Renames(worker.job)
  <2>1. t \in staged[worker.job]
    BY <1>2, <1>3, <1>4 DEF ImportInv, OriginalsKept, Kept
  <2> QED
    BY <1>1, <1>2, <1>4, <2>1 DEF ImportInv, Copies
<1> QED
  BY <1>1, <1>2, <1>4

(* A run ends, or a chunk is undone, with everything home or filed.          *)
LEMMA GoesHome ==
  ASSUME ImportInv, worker.at \in Loop, RollsBack(worker.job), kind # "archive", ~torn
  PROVE  Track \subseteq source' \cup landed
<1>1. /\ worker.job \in Job /\ ImportTypes
      /\ \A t \in Track : t \in source \cup landed \/
           (t \in staged[worker.job] /\ Renames(worker.job))
  BY InRun DEF ImportInv
<1>2. source \subseteq source' /\ (Moves(worker.job) => staged[worker.job] \subseteq source')
  BY <1>1, RollingBack
<1> QED
  BY <1>1, <1>2 DEF Renames, Moves

Safe == OneRun /\ Taken /\ Copies /\ OriginalsKept

(* A request begins a run in a state at rest.                                *)
LEMMA RunBegins ==
  ASSUME ImportInv, NEW j \in Job, Up, worker.at = "idle", Begins(j),
         \A i \in Job : imports'[i].state = "running" <=> i = j,
         UNCHANGED <<kind, source, staged, landed, torn>>
  PROVE  Safe'
<1>1. worker'.at = "next" /\ worker'.job = j /\ worker'.taken = {}
  BY Beginning DEF ImportInv
<1>2. kind # "archive" /\ ~torn => Track \subseteq source \cup landed
  BY HomeOrFiled DEF Loop
<1>3. OneRun'
  BY <1>1 DEF OneRun, Loop
<1>6. Taken'
  BY <1>1 DEF Taken
<1>4. OriginalsKept'
  BY <1>2 DEF OriginalsKept, Kept
<1>5. Copies'
  BY <1>2 DEF Copies, ImportInv, ImportTypes
<1> QED
  BY <1>3, <1>4, <1>5, <1>6 DEF Safe

(* A run ends, and its row is at rest.                                       *)
LEMMA RunEnds ==
  ASSUME ImportInv, worker.at \in Loop, NEW state \in Over, Ends(state),
         kind' = kind, torn' = torn,
         kind # "archive" /\ ~torn => Track \subseteq source' \cup landed'
  PROVE  Safe'
<1>1. /\ worker' = Idle
      /\ \A j \in Job : imports'[j].state = "running"
                        => imports[j].state = "running" /\ j # worker.job
  BY Ending DEF ImportInv
<1>2. worker'.at = "idle" /\ \A j \in Job : imports'[j].state # "running"
  BY <1>1, InRun, IdleTyped
<1> QED
  BY <1>2 DEF Safe, OneRun, Taken, Copies, OriginalsKept, Kept, Loop

LEMMA SafeRequests ==
  ASSUME ImportInv, NEW j \in Job,
         SubmitImport(j) \/ RetryImport(j) \/ CancelImport(j) \/ DeleteImport(j)
  PROVE  Safe'
<1>1. CASE SubmitImport(j)
  <2>1. worker.at = "idle"
    BY <1>1 DEF SubmitImport, Up, ImportInv, OneRun, ImportTypes, WorkerRec, Loop
  <2>2. \A i \in Job : imports'[i].state = "running" <=> i = j
    BY <1>1 DEF SubmitImport, ImportInv, ImportTypes
  <2> QED
    BY <1>1, <2>1, <2>2, RunBegins DEF SubmitImport
<1>2. CASE RetryImport(j)
  <2>1. \A i \in Job : imports[i].state # "running"
    BY <1>2, NoneRuns DEF RetryImport, Loop
  <2>2. \A i \in Job : imports'[i].state = "running" <=> i = j
    BY <1>2, <2>1 DEF RetryImport, ImportInv, ImportTypes, ImportRec
  <2> QED
    BY <1>2, <2>2, RunBegins DEF RetryImport
<1>3. CASE CancelImport(j)
  BY <1>3 DEF CancelImport, ImportInv, Safe, OneRun, Taken, Copies, OriginalsKept, Kept, Renames
<1>4. CASE DeleteImport(j)
  <2>1. /\ imports[j].state # "running"
        /\ \A i \in Job : imports'[i].state = "running" <=> imports[i].state = "running"
        /\ \A i \in Job \ {j} : imports'[i] = imports[i] /\ staged'[i] = staged[i]
        /\ imports'[j].state # "running"
    BY <1>4, Emptying DEF DeleteImport, ImportInv, ImportTypes, ImportRec, NoImport, Over
  <2>2. UNCHANGED <<kind, source, landed, worker, torn>>
    BY <1>4 DEF DeleteImport
  <2>3. worker.at \in Loop => worker.job \in Job /\ worker.job # j
    BY <2>1, InRun
  <2>4. OneRun' /\ Taken'
    BY <2>1, <2>2, <2>3 DEF ImportInv, OneRun, Taken
  <2>5. Copies'
    BY <2>1, <2>2 DEF ImportInv, Copies, Renames
  <2>6. OriginalsKept'
    BY <2>1, <2>2 DEF ImportInv, OriginalsKept, Kept
  <2> QED
    BY <2>4, <2>5, <2>6 DEF Safe
<1> QED
  BY <1>1, <1>2, <1>3, <1>4

LEMMA SafeRun ==
  ASSUME ImportInv, ImportTypes',
         Stops \/ ChunkStarts \/ Staged \/ Organized \/ ChunkEnds \/ ChunkFails \/ ImportEnds
  PROVE  Safe'
<1> DEFINE j == worker.job
<1>1. worker.at \in Loop
  BY DEF Stops, ChunkStarts, Staged, Organized, ChunkEnds, ChunkFails, ImportEnds, Loop
<1>2. /\ j \in Job /\ worker \in WorkerRec /\ imports[j] \in ImportRec
      /\ staged[j] \in SUBSET Track /\ imports \in [Job -> ImportRec]
      /\ \A i \in Job : imports[i].state = "running" <=> i = j
  BY <1>1, InRun DEF ImportInv, ImportTypes
<1>3. kind # "archive" /\ ~torn => \A t \in Track :
        t \in source \cup landed \/ (t \in staged[j] \cap worker.taken /\ Renames(j))
  BY <1>1, InRun
<1>4. CASE Stops
  BY <1>1, <1>4, GoesHome, RunEnds DEF Stops, Over
<1>5. CASE ImportEnds
  <2>1. worker.taken = {}
    BY <1>1, <1>5 DEF ImportEnds, ImportInv, Taken
  <2>2. PICK state \in Over : Ends(state)
    BY <1>5 DEF ImportEnds, Over
  <2> QED
    BY <1>1, <1>3, <1>5, <2>1, <2>2, RunEnds DEF ImportEnds
<1>6. CASE ChunkStarts
  <2>1. worker.taken = {}
    BY <1>6 DEF ChunkStarts, ImportInv, Taken, Loop
  <2>2. /\ worker'.at = "stage" /\ worker'.job = j /\ worker'.taken = {}
        /\ worker'.rest \subseteq source
        /\ UNCHANGED <<kind, source, staged, landed, imports, torn>>
    <3>1. PICK chunk \in (SUBSET worker.plan) \ {{}} :
            worker' = [worker EXCEPT !.at = "stage", !.chunk = chunk, !.plan = @ \ chunk,
                         !.rest = source \cap UNION chunk, !.taken = {}, !.ran = TRUE]
      BY <1>6 DEF ChunkStarts
    <3>2. source \cap UNION chunk \subseteq source
      OBVIOUS
    <3> QED
      BY <1>2, <1>6, <3>1, <3>2 DEF ChunkStarts, WorkerRec
  <2>3. kind # "archive" /\ ~torn => Track \subseteq source \cup landed
    BY <1>3, <2>1
  <2>4. OneRun'
    BY <1>2, <2>2 DEF OneRun, Loop
  <2>5. Taken'
    BY <2>2 DEF Taken
  <2>6. Copies'
    BY <2>2, <2>3 DEF Copies, ImportInv, ImportTypes
  <2> QED
    BY <2>2, <2>3, <2>4, <2>5, <2>6 DEF Safe, OriginalsKept, Kept
<1>7. CASE Staged \/ Organized
  <2>1. /\ worker'.at \in {"settle", "organize"} /\ worker'.job = j
        /\ worker'.taken = worker.taken
        /\ UNCHANGED <<kind, source, staged, landed, imports, torn>>
    BY <1>2, <1>7 DEF Staged, Organized, WorkerRec
  <2>2. OneRun'
    BY <1>2, <2>1 DEF OneRun, Loop
  <2>3. Taken'
    BY <1>1, <2>1 DEF ImportInv, Taken
  <2>4. Copies'
    BY <1>1, <2>1 DEF ImportInv, Copies, Renames
  <2>5. worker.at # "restore"
    BY <1>1 DEF Loop
  <2>6. OriginalsKept'
    BY <2>1, <2>5 DEF ImportInv, OriginalsKept, Kept
  <2> QED
    BY <2>2, <2>3, <2>4, <2>6 DEF Safe
<1>8. CASE ChunkEnds
  <2>1. /\ worker'.at = "next" /\ worker'.job = j /\ worker'.taken = {}
        /\ UNCHANGED <<kind, landed, torn>>
    BY <1>2, <1>8 DEF ChunkEnds, WorkerRec
  <2>2. \A i \in Job : /\ imports'[i].state = imports[i].state
                       /\ imports'[i].move = imports[i].move
    <3>1. imports' = [imports EXCEPT ![j].done = @ \cup worker.chunk]
      BY <1>8 DEF ChunkEnds
    <3> QED
      BY <1>2, <3>1 DEF ImportRec
  <2>3. worker.taken \ staged[j] \subseteq landed
    BY <1>1 DEF ImportInv, Taken
  <2>4. kind # "archive" /\ ~torn => Track \subseteq source' \cup landed
    <3>1. source' = IF Moves(j)
                    THEN (source \ (worker.taken \ staged[j])) \cup (worker.taken \cap staged[j])
                    ELSE source
      BY <1>8 DEF ChunkEnds
    <3> QED
      BY <1>3, <2>3, <3>1 DEF Renames, Moves
  <2>5. OneRun'
    BY <1>2, <2>1, <2>2 DEF OneRun, Loop
  <2>6. Taken'
    BY <2>1 DEF Taken
  <2>7. Copies'
    BY <2>1, <2>4 DEF Copies, ImportTypes
  <2> QED
    BY <2>1, <2>4, <2>5, <2>6, <2>7 DEF Safe, OriginalsKept, Kept
<1>9. CASE ChunkFails
  <2>1. /\ worker'.at = "next" /\ worker'.job = j /\ worker'.taken = {}
        /\ UNCHANGED <<kind, landed, imports, torn>> /\ RollsBack(j)
    BY <1>2, <1>9 DEF ChunkFails, WorkerRec
  <2>2. kind # "archive" /\ ~torn => Track \subseteq source' \cup landed
    BY <1>1, <2>1, GoesHome
  <2>3. OneRun'
    BY <1>2, <2>1 DEF OneRun, Loop
  <2>4. Taken'
    BY <2>1 DEF Taken
  <2>5. Copies'
    BY <2>1, <2>2 DEF Copies, ImportTypes
  <2> QED
    BY <2>1, <2>2, <2>3, <2>4, <2>5 DEF Safe, OriginalsKept, Kept
<1> QED
  BY <1>4, <1>5, <1>6, <1>7, <1>8, <1>9

LEMMA SafeTracks ==
  ASSUME ImportInv, NEW t \in Track, StageTrack(t) \/ StageFails(t) \/ Place(t)
  PROVE  Safe'
<1> DEFINE j == worker.job
<1>1. worker.at \in Loop
  BY DEF StageTrack, StageFails, Place, Loop
<1>2. /\ j \in Job /\ worker \in WorkerRec /\ staged \in [Job -> SUBSET Track]
      /\ \A i \in Job : imports[i].state = "running" <=> i = j
      /\ worker.taken \ staged[j] \subseteq landed
  BY <1>1, InRun DEF ImportInv, ImportTypes, Taken
<1>3. kind # "archive" /\ ~torn => \A u \in Track :
        u \in source \cup landed \/ (u \in staged[j] \cap worker.taken /\ Renames(j))
  BY <1>1, InRun
<1>4. UNCHANGED <<kind, imports, torn>>
  BY DEF StageTrack, StageFails, Place
<1>5. worker'.at \in Loop \ {"next"} /\ worker'.job = j
  BY <1>1, <1>2 DEF StageTrack, StageFails, Place, WorkerRec, Loop
<1>6. OneRun'
  BY <1>2, <1>4, <1>5 DEF OneRun, Loop
<1>7. worker'.taken \ staged'[j] \subseteq landed'
  <2>1. CASE StageTrack(t)
    BY <1>2, <2>1 DEF StageTrack, WorkerRec
  <2>2. CASE StageFails(t)
    BY <1>2, <2>2 DEF StageFails, WorkerRec
  <2>3. CASE Place(t)
    BY <1>2, <2>3 DEF Place, WorkerRec
  <2> QED
    BY <2>1, <2>2, <2>3
<1>8. worker'.at = "stage" => worker'.rest \subseteq source'
  <2>1. worker.at = "stage" => worker.rest \subseteq source
    BY <1>1 DEF ImportInv, Taken
  <2>2. CASE StageTrack(t)
    BY <1>2, <2>1, <2>2 DEF StageTrack, WorkerRec
  <2>3. CASE StageFails(t)
    BY <1>2, <2>1, <2>3 DEF StageFails, WorkerRec
  <2>4. CASE Place(t)
    BY <1>2, <2>1, <2>4 DEF Place, WorkerRec
  <2> QED
    BY <2>2, <2>3, <2>4
<1>9. kind # "archive" /\ ~torn => \A u \in Track :
        u \in source' \cup landed' \/ (u \in staged'[j] \cap worker'.taken /\ Renames(j))
  <2>1. CASE StageTrack(t)
    BY <1>2, <1>3, <2>1 DEF StageTrack, WorkerRec, Renames, Moves
  <2>2. CASE StageFails(t)
    BY <1>2, <1>3, <2>2 DEF StageFails, WorkerRec
  <2>3. CASE Place(t)
    BY <1>2, <1>3, <2>3 DEF Place, WorkerRec
  <2> QED
    BY <2>1, <2>2, <2>3
<1>10. Taken'
  BY <1>5, <1>7, <1>8 DEF Taken
<1>11. staged'[j] \subseteq Track
  BY <1>2 DEF StageTrack, StageFails, Place
<1>12. Copies'
  BY <1>2, <1>4, <1>5, <1>9, <1>11 DEF Copies, Renames
<1>13. OriginalsKept'
  BY <1>2, <1>4, <1>5, <1>9 DEF OriginalsKept, Kept
<1> QED
  BY <1>6, <1>10, <1>12, <1>13 DEF Safe

LEMMA SafeBoot ==
  ASSUME ImportInv, \/ ImportCrash \/ Reconciles \/ Restored
                    \/ \E t \in Track : Restore(t)
  PROVE  Safe'
<1>1. CASE ImportCrash
  <2>1. /\ worker'.at = "boot" /\ UNCHANGED <<kind, source, staged, landed, imports>>
        /\ torn' = (torn \/ (worker.at = "restore" /\ ~(worker.rest \subseteq source)))
    BY <1>1, IdleTyped DEF ImportCrash, WorkerRec
  <2>2. OneRun' /\ Taken'
    BY <2>1 DEF OneRun, Taken, Loop
  <2>3. Copies'
    BY <2>1 DEF ImportInv, Copies, Renames, Loop
  <2>4. OriginalsKept'
    BY <2>1 DEF ImportInv, OriginalsKept, Kept
  <2> QED
    BY <2>2, <2>3, <2>4 DEF Safe
<1>2. CASE Reconciles
  <2>1. /\ worker.at = "boot" /\ worker'.at = "restore"
        /\ UNCHANGED <<kind, source, staged, landed, torn>>
    BY <1>2, Reconciling DEF Reconciles, ImportInv
  <2>2. /\ \A j \in Job : imports'[j].state # "running"
        /\ \A j \in Job : imports[j].state = "running" /\ Moves(j)
                          => staged[j] \subseteq worker'.rest
    BY <1>2, Reconciling DEF ImportInv
  <2>3. OneRun' /\ Taken' /\ Copies'
    BY <2>1, <2>2 DEF OneRun, Taken, Copies, Loop
  <2>4. ASSUME kind # "archive", ~torn, NEW t \in Track
        PROVE  t \in source \cup landed \cup worker'.rest
    <3>1. Kept(t) /\ worker.at # "restore"
      BY <2>1, <2>4 DEF ImportInv, OriginalsKept
    <3>2. CASE \E j \in Job : t \in staged[j] /\ imports[j].state = "running"
      BY <2>2, <2>4, <3>2 DEF ImportInv, Copies, Renames, Moves
    <3> QED
      BY <3>1, <3>2 DEF Kept
  <2>5. OriginalsKept'
    BY <2>1, <2>4 DEF OriginalsKept, Kept
  <2> QED
    BY <2>3, <2>5 DEF Safe
<1>3. CASE Restored
  <2>1. worker' = Idle /\ worker.rest = {} /\ worker.at = "restore"
        /\ UNCHANGED <<kind, source, landed, imports, torn>>
    BY <1>3 DEF Restored
  <2>2. \A j \in Job : imports[j].state # "running"
    BY <2>1, NoneRuns DEF Loop
  <2> QED
    BY <2>1, <2>2, IdleTyped
    DEF ImportInv, Safe, OneRun, Taken, Copies, OriginalsKept, Kept, Loop
<1>4. ASSUME NEW t \in Track, Restore(t)
      PROVE  Safe'
  <2>1. /\ worker.at = "restore" /\ worker'.at = "restore" /\ source' = source \cup {t}
        /\ worker'.rest = worker.rest \ {t} /\ UNCHANGED <<kind, landed, imports, torn>>
    BY <1>4 DEF Restore, ImportInv, ImportTypes, WorkerRec
  <2>2. \A j \in Job : imports[j].state # "running"
    BY <2>1, NoneRuns DEF Loop
  <2> QED
    BY <2>1, <2>2 DEF ImportInv, Safe, OneRun, Taken, Copies, OriginalsKept, Kept, Loop
<1> QED
  BY <1>1, <1>2, <1>3, <1>4

LEMMA ImportInvInit == ImportInit => ImportInv
<1> SUFFICES ASSUME ImportInit
             PROVE  ImportInv
  OBVIOUS
<1>1. ImportTypes
  BY ImportTypesInit
<1>2. worker.at = "idle" /\ source = Track /\ \A j \in Job : imports[j].state # "running"
  BY IdleTyped DEF ImportInit, NoImport
<1> QED
  BY <1>1, <1>2 DEF ImportInv, OneRun, Taken, Copies, OriginalsKept, Kept, Loop

LEMMA ImportInvStep == ImportInv /\ [ImportNext]_importVars => ImportInv'
<1> SUFFICES ASSUME ImportInv, [ImportNext]_importVars
             PROVE  ImportInv'
  OBVIOUS
<1>1. ImportTypes'
  BY ImportTypesStep DEF ImportInv
<1>2. CASE UNCHANGED importVars
  BY <1>2 DEF importVars, ImportInv, ImportTypes, OneRun, Taken, Copies, Renames, OriginalsKept,
              Kept
<1>3. CASE ImportNext
  <2>1. CASE Imported
    BY <1>2, <2>1 DEF Imported
  <2>2. CASE ~Imported
    <3>1. Safe'
      BY <1>1, <1>3, <2>2, SafeRequests, SafeRun, SafeTracks, SafeBoot DEF ImportNext, Proceeds
    <3> QED
      BY <1>1, <3>1 DEF Safe, ImportInv
  <2> QED
    BY <2>1, <2>2
<1> QED
  BY <1>2, <1>3

(* No original of a folder is lost: for every source, every number of jobs   *)
(* and every way its files are staged, through failures, cancels, deletes,   *)
(* crashes and retries (library-import.service.ts:8-13), except where a      *)
(* crash cut the recovery of a crash short.                                  *)
THEOREM OriginalsSafe == ImportSpec => []OriginalsKept
<1>1. ImportInit => ImportInv
  BY ImportInvInit
<1>2. ImportInv /\ [ImportNext]_importVars => ImportInv'
  BY ImportInvStep
<1>3. ImportInv => OriginalsKept
  BY DEF ImportInv
<1> QED
  BY <1>1, <1>2, <1>3, PTL DEF ImportSpec

(* A cancel is marked of a running job only, and none outlives its process.  *)
Marked ==
  /\ cancels \subseteq {j \in Job : imports[j].state = "running"}
  /\ worker.at = "boot" => cancels = {}

LEMMA MarkedStep == ASSUME ImportTypes, Marked, [ImportNext]_importVars PROVE Marked'
<1>1. ASSUME UNCHANGED cancels, worker'.at # "boot",
             \A j \in cancels : imports[j].state = "running" => imports'[j].state = "running"
      PROVE  Marked'
  BY <1>1 DEF Marked
<1>2. ASSUME NEW j \in Job, SubmitImport(j) \/ RetryImport(j)
      PROVE  Marked'
  <2>1. /\ imports'[j].state = "running" /\ \A i \in Job : i # j => imports'[i] = imports[i]
        /\ UNCHANGED cancels
    BY <1>2 DEF SubmitImport, RetryImport, ImportTypes, ImportRec
  <2>2. worker'.at # "boot"
    BY <1>2, Beginning DEF SubmitImport, RetryImport
  <2> QED
    BY <2>1, <2>2 DEF Marked
<1>3. ASSUME NEW j \in Job, CancelImport(j) PROVE Marked'
  BY <1>3 DEF CancelImport, Up, Marked
<1>4. ASSUME NEW j \in Job, DeleteImport(j) PROVE Marked'
  <2>1. /\ imports[j].state # "running" /\ \A i \in Job : i # j => imports'[i] = imports[i]
        /\ worker.at # "boot" /\ UNCHANGED <<worker, cancels>>
    BY <1>4 DEF DeleteImport, ImportTypes, Over, Up
  <2> QED
    BY <2>1 DEF Marked
<1>5. ASSUME NEW state \in Over, Ends(state) PROVE Marked'
  <2>1. /\ \A i \in Job : i # worker.job => imports'[i] = imports[i]
        /\ cancels' = cancels \ {worker.job} /\ worker' = Idle
    BY <1>5 DEF Ends, ImportTypes
  <2> QED
    BY <2>1, IdleTyped DEF Marked
<1>6. CASE Stops \/ ImportEnds
  BY <1>5, <1>6 DEF Stops, ImportEnds, Over
<1>7. CASE \/ ChunkStarts \/ Staged \/ Organized \/ ChunkFails
           \/ \E t \in Track : StageTrack(t) \/ StageFails(t) \/ Place(t) \/ Restore(t)
  <2>1. UNCHANGED <<imports, cancels>>
    BY <1>7 DEF ChunkStarts, Staged, Organized, ChunkFails, StageTrack, StageFails, Place, Restore
  <2>2. worker'.at # "boot"
    BY <1>7 DEF ChunkStarts, Staged, Organized, ChunkFails, StageTrack, StageFails, Place, Restore,
                ImportTypes, WorkerRec
  <2> QED
    BY <1>1, <2>1, <2>2
<1>8. CASE ChunkEnds
  <2>1. /\ UNCHANGED cancels /\ worker'.at # "boot"
        /\ \A i \in Job : imports'[i].state = imports[i].state
    BY <1>8 DEF ChunkEnds, ImportTypes, ImportRec, WorkerRec
  <2> QED
    BY <1>1, <2>1 DEF Marked
<1>9. CASE Reconciles
  <2>1. cancels = {} /\ UNCHANGED cancels
    BY <1>9 DEF Reconciles, Marked
  <2> QED
    BY <2>1 DEF Marked
<1>10. CASE Restored
  <2>1. UNCHANGED <<imports, cancels>> /\ worker' = Idle
    BY <1>10 DEF Restored
  <2> QED
    BY <1>1, <2>1, IdleTyped
<1>11. CASE ImportCrash
  BY <1>11 DEF ImportCrash, Marked
<1>12. CASE UNCHANGED importVars
  BY <1>12 DEF importVars, Marked
<1> QED
  BY <1>2, <1>3, <1>4, <1>6, <1>7, <1>8, <1>9, <1>10, <1>11, <1>12
  DEF ImportNext, Proceeds, Imported

(* A row says running exactly while a loop works for it, until the boot      *)
(* after a crash, and only such a job is marked for a cancel, so that a      *)
(* refusal of a second import is never for a job nobody works for.           *)
THEOREM ImportsTyped == ImportSpec => []ImportTypeOK
<1>1. ImportInit => ImportInv /\ Marked
  BY ImportInvInit, IdleTyped DEF ImportInit, Marked
<1>2. ImportInv /\ Marked /\ [ImportNext]_importVars => (ImportInv /\ Marked)'
  BY ImportInvStep, MarkedStep DEF ImportInv
<1>3. ImportInv /\ Marked => ImportTypeOK
  <2> SUFFICES ASSUME ImportTypes, OneRun, Marked
               PROVE  ImportTypeOK
    BY DEF ImportInv
  <2>1. worker.at \notin {"boot"} =>
          (worker.at \in Loop <=> worker.at \notin {"idle", "restore"})
    BY DEF ImportTypes, WorkerRec, Loop
  <2>2. worker.at # "boot" =>
          \A j \in Job : imports[j].state = "running"
                           <=> worker.at \notin {"idle", "restore"} /\ worker.job = j
    BY <2>1 DEF OneRun
  <2> QED
    BY <2>2 DEF ImportTypes, Marked, ImportTypeOK, ImportRec, WorkerRec
<1> QED
  BY <1>1, <1>2, <1>3, PTL DEF ImportSpec
====
