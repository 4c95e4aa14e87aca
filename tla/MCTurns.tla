---- MODULE MCTurns ----
(***************************************************************************)
(* Four services in which work waits for its turn - calls for an ffmpeg      *)
(* slot, the scheduler's tag writes, requests for a library sync, imports.   *)
(* They share no state: a behaviour moves one of them, its focus, while the  *)
(* others rest, so that their states add up instead of multiplying.          *)
(***************************************************************************)
EXTENDS FfmpegSlots, TagWrites, LibraryScan, LibraryImport

CONSTANTS i1, i2, b1, b2, ni, nb     \* calls for a slot

VARIABLE focus

(* Two slots, an interactive and a batch call that make a nested call each.  *)
ContextOf == [c \in Call |-> CASE c = ni -> i1 [] c = nb -> b1 [] OTHER -> None]

Alone(f, v, a, k) == f
PathRank(f, v) == f

OneFolder == [f \in File |-> 1]
Once == [f \in File |-> 1]

allVars == <<focus, vars, tagVars, libVars, importVars>>

MCInit ==
  /\ focus \in {"slots", "tags", "syncs", "imports"}
  /\ Init /\ TagInit /\ LibInit /\ ImportInit
  /\ focus # "tags" => slots = 1 /\ enabled
  /\ focus # "syncs" => disk = Unread /\ songs = [f \in File |-> NoRow]

Slots == focus = "slots" /\ UNCHANGED <<focus, tagVars, libVars, importVars>>
Writes == focus = "tags" /\ UNCHANGED <<focus, vars, libVars, importVars>>
Syncs == focus = "syncs" /\ UNCHANGED <<focus, vars, tagVars, importVars>>
Imports == focus = "imports" /\ UNCHANGED <<focus, vars, tagVars, libVars>>

MCNext ==
  \/ Slots /\ Next
  \/ Writes /\ TagNext
  \/ Syncs /\ LibNext
  \/ Imports /\ ImportNext

(* Fairness, TagFairness, LibFairness and ImportFairness, each of the        *)
(* behaviours that move its service.                                         *)
MCFairness ==
  /\ \A c \in Call :
       /\ WF_allVars(Slots /\ Start(c)) /\ WF_allVars(Slots /\ FinishNested(c))
       /\ SF_allVars(Slots /\ Finish(c))
  /\ WF_allVars(Writes /\ Tick) /\ WF_allVars(Writes /\ TasksSettle)
  /\ WF_allVars(Writes /\ FlushAsks) /\ WF_allVars(Writes /\ FlushEnds)
  /\ WF_allVars(Writes /\ RewriteStarts)
  /\ WF_allVars(Writes /\ \E w \in writing : RewriteCloses(w) \/ RewriteLate(w))
  /\ WF_allVars(Syncs /\ Turn) /\ WF_allVars(Syncs /\ TrailStarts)
  /\ WF_allVars(Imports /\ Proceeds)

MCSpec == MCInit /\ [][MCNext]_allVars /\ MCFairness

====
