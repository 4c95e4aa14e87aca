---- MODULE LibraryImport ----
(***************************************************************************)
(* The import of a folder or an archive (services/library-import.service.ts) *)
(* with its job rows (services/import-job-store.ts).  One job at a time goes *)
(* through its source in chunks of whole folders: it stages a chunk, hands   *)
(* the staged files to the organizer, which consumes them, and has them      *)
(* scanned.  In move mode a file of a folder is staged by a rename on one    *)
(* device and by a copy across devices, a track of an archive is extracted;  *)
(* afterwards the consumed originals are removed.                            *)
(*                                                                           *)
(* The process may die at any step, the boot's recovery included.  Nothing   *)
(* needs a bound: a run only goes forward, and the state is finite.          *)
(***************************************************************************)
EXTENDS FiniteSets

CONSTANTS Folder,   \* the source's folders, each the set of its tracks
          Job,      \* ids of import jobs
          Kinds     \* how its files may be staged in move mode

Track == UNION Folder

ASSUME ImportAssumption ==
  /\ Job # {}
  /\ IsFiniteSet(Folder) /\ \A F \in Folder : F # {}
  /\ \A F, G \in Folder : F # G => F \cap G = {}
  /\ Kinds \subseteq {"renamed", "copied", "archive"}

VARIABLES
  kind,      \* of this source
  source,    \* the originals that are still there
  staged,    \* per job, the tracks in its staging directory
  landed,    \* tracks the organizer filed, or found to be filed already
  imports,   \* the job rows, with the folders marked done
  worker,    \* the run loop, or the boot's recovery
  cancels,   \* cancelRequested
  torn       \* a recovery was itself cut short

importVars == <<kind, source, staged, landed, imports, worker, cancels, torn>>

Over == {"done", "failed", "cancelled"}
NoImport == [state |-> "none", move |-> FALSE, done |-> {}]
Idle == [at |-> "idle", job |-> CHOOSE j \in Job : TRUE, plan |-> {}, chunk |-> {},
         rest |-> {}, taken |-> {}, ran |-> FALSE, filed |-> FALSE, clean |-> TRUE,
         gone |-> {}]

Up == worker.at \notin {"boot", "restore"}
Moves(j) == imports[j].move /\ kind # "archive"
Emptied(j) == [staged EXCEPT ![j] = {}]

ImportInit ==
  /\ kind \in Kinds /\ source = Track /\ staged = [j \in Job |-> {}] /\ landed = {}
  /\ imports = [j \in Job |-> NoImport] /\ worker = Idle
  /\ cancels = {} /\ torn = FALSE

---------------------------------------------------------------------------
(* Requests.                                                                 *)

(* run() begins in the call; it skips the folders marked done.               *)
Begins(j) ==
  worker' = [Idle EXCEPT !.at = "next", !.job = j,
               !.plan = {F \in Folder \ imports[j].done : F \cap source # {}}]

SubmitImport(j) ==
  /\ Up /\ imports[j].state = "none"
  /\ \A o \in Job : imports[o].state # "running"
  /\ source # {}
  /\ \E move \in BOOLEAN :
       imports' = [imports EXCEPT ![j] = [state |-> "running", move |-> move, done |-> {}]]
  /\ Begins(j)
  /\ UNCHANGED <<kind, source, staged, landed, cancels, torn>>

RetryImport(j) ==
  /\ Up /\ imports[j].state \in Over
  /\ worker.at = "idle"
  /\ kind = "archive" => source # {}
  /\ imports' = [imports EXCEPT ![j].state = "running"]
  /\ Begins(j)
  /\ UNCHANGED <<kind, source, staged, landed, cancels, torn>>

CancelImport(j) ==
  /\ Up /\ imports[j].state = "running" /\ j \notin cancels
  /\ cancels' = cancels \cup {j}
  /\ UNCHANGED <<kind, source, staged, landed, imports, worker, torn>>

(* The row and the staging directory.                                        *)
DeleteImport(j) ==
  /\ Up /\ imports[j].state \in Over
  /\ imports' = [imports EXCEPT ![j] = NoImport]
  /\ staged' = Emptied(j)
  /\ UNCHANGED <<kind, source, landed, worker, cancels, torn>>

---------------------------------------------------------------------------
(* The run.                                                                  *)

(* rollbackStaging and cleanupStaging.                                       *)
RollsBack_Cleans(j) == UNCHANGED source /\ staged' = Emptied(j)
RollsBack(j) ==
  /\ source' = IF Moves(j) THEN source \cup staged[j] ELSE source
  /\ staged' = Emptied(j)

Ends(state) ==
  LET j == worker.job
  IN  /\ imports' = [imports EXCEPT ![j].state = state]
      /\ cancels' = cancels \ {j}
      /\ worker' = Idle

(* A cancel is looked at between chunks.                                     *)
Stops ==
  /\ worker.at = "next" /\ worker.plan # {} /\ worker.job \in cancels
  /\ RollsBack(worker.job) /\ Ends("cancelled")
  /\ UNCHANGED <<kind, landed, torn>>

ChunkStarts ==
  /\ worker.at = "next" /\ worker.job \notin cancels
  /\ \E chunk \in (SUBSET worker.plan) \ {{}} :
       worker' = [worker EXCEPT !.at = "stage", !.chunk = chunk, !.plan = @ \ chunk,
                                !.rest = source \cap UNION chunk, !.taken = {}, !.ran = TRUE]
  /\ UNCHANGED <<kind, source, staged, landed, imports, cancels, torn>>

(* source.stage()                                                            *)
StageTrack(t) ==
  /\ worker.at = "stage" /\ t \in worker.rest
  /\ worker' = [worker EXCEPT !.rest = @ \ {t}, !.taken = @ \cup {t}]
  /\ staged' = [staged EXCEPT ![worker.job] = @ \cup {t}]
  /\ source' = IF kind = "renamed" /\ Moves(worker.job) THEN source \ {t} ELSE source
  /\ UNCHANGED <<kind, landed, imports, cancels, torn>>

(* A file that is unreadable is counted, and the chunk goes on.              *)
StageFails(t) ==
  /\ worker.at = "stage" /\ t \in worker.rest
  /\ worker' = [worker EXCEPT !.rest = @ \ {t}, !.clean = FALSE]
  /\ UNCHANGED <<kind, source, staged, landed, imports, cancels, torn>>

Staged ==
  /\ worker.at = "stage" /\ worker.rest = {}
  /\ worker' = [worker EXCEPT !.at = IF worker.taken = {} THEN "settle" ELSE "organize"]
  /\ UNCHANGED <<kind, source, staged, landed, imports, cancels, torn>>

(* organizeBatch files a track, into the library or the unsorted bucket, or  *)
(* drops one the library has; across devices it copies before it unlinks.    *)
Place(t) ==
  /\ worker.at = "organize" /\ t \in worker.taken \cap staged[worker.job]
  /\ landed' = landed \cup {t}
  /\ staged' \in {[staged EXCEPT ![worker.job] = @ \ {t}]} \cup {staged}
  /\ UNCHANGED <<kind, source, imports, worker, cancels, torn>>

(* What it could not move stays staged, and counts as failed.                *)
Organized ==
  /\ worker.at = "organize"
  /\ worker' = [worker EXCEPT !.at = "settle",
                  !.clean = @ /\ worker.taken \cap staged[worker.job] = {}]
  /\ UNCHANGED <<kind, source, staged, landed, imports, cancels, torn>>

(* After the scan: originals whose staged copy is gone are redundant, those  *)
(* renamed into staging and still there go home.                             *)
ChunkEnds ==
  LET j == worker.job
      consumed == worker.taken \ staged[j]
  IN  /\ worker.at = "settle"
      /\ source' = IF Moves(j) THEN (source \ consumed) \cup (worker.taken \cap staged[j])
                   ELSE source
      /\ staged' = IF worker.taken = {} THEN staged ELSE Emptied(j)
      /\ imports' = [imports EXCEPT ![j].done = @ \cup worker.chunk]
      /\ worker' = [worker EXCEPT !.at = "next", !.chunk = {}, !.taken = {}, !.filed = TRUE]
      /\ UNCHANGED <<kind, landed, cancels, torn>>

(* The organizer or the scan throws.                                         *)
ChunkFails ==
  /\ worker.at \in {"organize", "settle"} /\ worker.taken # {}
  /\ RollsBack(worker.job)
  /\ worker' = [worker EXCEPT !.at = "next", !.chunk = {}, !.taken = {}, !.clean = FALSE]
  /\ UNCHANGED <<kind, landed, imports, cancels, torn>>

(* An archive is removed as a whole; that it cannot be is only logged.       *)
ImportEnds ==
  LET j == worker.job
  IN  /\ worker.at = "next" /\ worker.plan = {}
      /\ Ends(IF worker.ran /\ ~worker.filed THEN "failed" ELSE "done")
      /\ \/ imports[j].move /\ kind = "archive" /\ worker.ran /\ worker.clean /\ source' = {}
         \/ UNCHANGED source
      /\ staged' = Emptied(j)
      /\ UNCHANGED <<kind, landed, torn>>

---------------------------------------------------------------------------
(* Crashes, and the constructor of the next process.                         *)
ImportCrash ==
  /\ worker.at \notin {"idle", "boot"}
  /\ torn' = (torn \/ (worker.at = "restore" /\ ~(worker.rest \subseteq source)))
  /\ worker' = [Idle EXCEPT !.at = "boot"]
  /\ cancels' = {}
  /\ UNCHANGED <<kind, source, staged, landed, imports>>

(* reconcileImportJobsOnBoot fails what a dead process left running, and     *)
(* drops rows past their time to live, maybe the same.                       *)
Reconciles_PrunesOnly ==
  /\ worker.at = "boot"
  /\ \E old \in SUBSET {j \in Job : imports[j].state \in Over} :
       /\ imports' = [j \in Job |-> IF j \in old THEN NoImport ELSE imports[j]]
       /\ worker' = [worker EXCEPT !.at = "restore", !.gone = old]
  /\ UNCHANGED <<kind, source, staged, landed, cancels, torn>>
Reconciles ==
  LET orphans == {j \in Job : imports[j].state = "running"}
      failed == [j \in Job |-> IF j \in orphans THEN [imports[j] EXCEPT !.state = "failed"]
                               ELSE imports[j]]
  IN  /\ worker.at = "boot"
      /\ \E old \in SUBSET {j \in Job : failed[j].state \in Over} :
           /\ imports' = [j \in Job |-> IF j \in old THEN NoImport ELSE failed[j]]
           /\ worker' = [worker EXCEPT !.at = "restore", !.gone = orphans \cup old,
                            !.rest = UNION {staged[j] : j \in {o \in orphans : Moves(o)}}]
      /\ UNCHANGED <<kind, source, staged, landed, cancels, torn>>

(* rollbackStaging, file by file; it clobbers no file.                       *)
Restore(t) ==
  /\ worker.at = "restore" /\ t \in worker.rest
  /\ source' = source \cup {t}
  /\ staged' = [j \in Job |-> IF t \notin source /\ j \in worker.gone THEN staged[j] \ {t}
                              ELSE staged[j]]
  /\ worker' = [worker EXCEPT !.rest = @ \ {t}]
  /\ UNCHANGED <<kind, landed, imports, cancels, torn>>

Restored ==
  /\ worker.at = "restore" /\ worker.rest = {}
  /\ staged' = [j \in Job |-> IF j \in worker.gone THEN {} ELSE staged[j]]
  /\ worker' = Idle
  /\ UNCHANGED <<kind, source, landed, imports, cancels, torn>>

---------------------------------------------------------------------------
Proceeds ==
  \/ Stops \/ ChunkStarts \/ Staged \/ Organized \/ ChunkEnds \/ ChunkFails \/ ImportEnds
  \/ \E t \in Track : StageTrack(t) \/ StageFails(t) \/ Restore(t)
  \/ Reconciles \/ Restored

(* Nothing left to import, and no row to look at.                            *)
Imported == source = {} /\ worker.at = "idle" /\ UNCHANGED importVars

ImportNext ==
  \/ \E j \in Job : SubmitImport(j) \/ RetryImport(j) \/ CancelImport(j) \/ DeleteImport(j)
  \/ Proceeds \/ \E t \in Track : Place(t)
  \/ ImportCrash
  \/ Imported

(* The loop awaits nothing but its own steps, and a process that died is     *)
(* started again.                                                            *)
ImportFairness == WF_importVars(Proceeds)

ImportSpec == ImportInit /\ [][ImportNext]_importVars

---------------------------------------------------------------------------
(* Every variable holds a value of its type; a row says running exactly      *)
(* while a loop works for it, until the boot after a crash; only such a job  *)
(* can be marked for a cancel.                                               *)
ImportTypeOK ==
  /\ kind \in Kinds /\ source \subseteq Track /\ landed \subseteq Track
  /\ staged \in [Job -> SUBSET Track] /\ torn \in BOOLEAN
  /\ imports \in [Job -> [state : {"none", "running"} \cup Over, move : BOOLEAN,
                          done : SUBSET Folder]]
  /\ worker \in [at : {"idle", "next", "stage", "organize", "settle", "boot", "restore"},
                 job : Job, plan : SUBSET Folder, chunk : SUBSET Folder, rest : SUBSET Track,
                 taken : SUBSET Track, ran : BOOLEAN, filed : BOOLEAN, clean : BOOLEAN,
                 gone : SUBSET Job]
  /\ worker.at # "boot" =>
       \A j \in Job : imports[j].state = "running"
                       <=> worker.at \notin {"idle", "restore"} /\ worker.job = j
  /\ cancels \subseteq {j \in Job : imports[j].state = "running"}

(* A track the import has not lost: it is where it was, the organizer filed  *)
(* it, or it is staged by a job that a run or the boot will still roll back. *)
Kept(t) ==
  \/ t \in source \cup landed
  \/ \E j \in Job : t \in staged[j] /\ imports[j].state = "running"
  \/ worker.at = "restore" /\ t \in worker.rest

(* No original of a folder is lost, whether its import succeeds, fails on a  *)
(* file or a chunk, is cancelled or deleted, or dies and is run again (after *)
(* library-import.service.ts:8-13).  Except where a crash cut the recovery   *)
(* of a crash short: the job has failed by then, and nobody looks again.     *)
OriginalsKept == kind # "archive" /\ ~torn => \A t \in Track : Kept(t)

(* "it is removed only once every chunk succeeded *and* nothing was left     *)
(* unconsumed": no track is lost with its archive (docs/import.md:147-148).  *)
ArchiveKept == kind = "archive" => \A t \in Track : Kept(t)

(* An import that runs comes to an end, and with it the refusal of others,   *)
(* also when its process died.                                               *)
ImportSettles == \A j \in Job : imports[j].state = "running" ~> imports[j].state # "running"
====
