---- MODULE MCLibrary ----
(***************************************************************************)
(* The album lanes, the import and the library scan, which share no state: a *)
(* behaviour moves one of them, its focus, while the others rest, so that    *)
(* their states add up instead of multiplying.  The scan comes twice:        *)
(* "files" has two files of one version and one caller, "calls" one file     *)
(* that is retagged and two callers.                                         *)
(***************************************************************************)
EXTENDS AlbumGets, LibraryScan, LibraryImport

CONSTANT SecondCaller

VARIABLE focus

(* Two songs, until a fix gives them one name; while file 2 has no row, its  *)
(* name is near enough to the other's.  File 1 is the better copy.           *)
Copies(f, v, a, k) == IF f = 2 /\ k /\ a = 0 THEN "other" ELSE "song"
PathRank(f, v) == f

(* Bounds of the lanes: the library already having the album and a failed    *)
(* watch come apart from lost answers and cards that part from their jobs,   *)
(* and one card is removed.                                                  *)
GetBounds ==
  /\ onDisk \/ watch = "failed" => lost \cup parted = {}
  /\ Cardinality({c \in Cards : card[c].state = "gone"}) <= 1
GetsOver == ~Room /\ \A r \in Get : at[r] = "idle"

OneFolder == [f \in File |-> 1]
Twice == [f \in File |-> IF f = 1 THEN 2 ELSE 1]

OnlyFiles ==
  /\ \A f \in File : disk[f] < 2 /\ songs[f].tags < 2
  /\ ~Waiting(SecondCaller)
OnlyCalls == fix = 0 /\ \A f \in File \ {1} : disk[f] = 0 /\ songs[f].tags = 0

MCInit ==
  /\ focus \in {"gets", "files", "calls", "imports"}
  /\ GetInit /\ LibInit /\ ImportInit
  /\ focus \in {"gets", "imports"} => disk = Unread /\ songs = [f \in File |-> NoRow]
  /\ focus = "calls" => OnlyCalls
  /\ focus # "imports" => kind = "copied"

MCNext ==
  /\ UNCHANGED focus
  /\ \/ focus = "gets" /\ GetNext /\ GetBounds' /\ UNCHANGED <<libVars, importVars>>
     \/ focus = "gets" /\ GetsOver /\ UNCHANGED <<getVars, libVars, importVars>>
     \/ focus = "files" /\ LibNext /\ OnlyFiles' /\ UNCHANGED <<getVars, importVars>>
     \/ focus = "calls" /\ LibNext /\ OnlyCalls' /\ UNCHANGED <<getVars, importVars>>
     \/ focus = "imports" /\ ImportNext /\ UNCHANGED <<getVars, libVars>>

MCSpec == MCInit /\ [][MCNext]_<<focus, getVars, libVars, importVars>>

====
