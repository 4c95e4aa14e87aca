---- MODULE TagWrites ----
(***************************************************************************)
(* The values of one song in the database and in its file's tags: the        *)
(* enrichment scheduler (services/library-processing.service.ts) stores a    *)
(* value at once and queues its field (services/enrichment/                  *)
(* pending-tag-writes.ts); a flush after the batch mirrors every queued      *)
(* field in one rewrite of the file, while a curator's edit                  *)
(* (services/song-genre-mutate.ts) rewrites the same file on its own.        *)
(*                                                                           *)
(* A rewrite (services/audio-tags.ts) copies the file into <file>.nicotind   *)
(* .tmp under an ffmpeg slot and renames it over the file.  Every rewrite    *)
(* of a file uses the same temporary name, and as many run at a time as the  *)
(* host has batch slots.  Values are versions, 0 for none; a file that a     *)
(* rewrite leaves half written holds Torn.                                   *)
(***************************************************************************)
EXTENDS Integers, Sequences, FiniteSets

CONSTANTS Field,        \* the fields the tasks fill
          Curated,      \* those a curator edits
          MaxVersion,   \* bound: a field changes at most MaxVersion times
          BatchSlots,   \* the numbers of batch slots a host may have
          MaxFaults     \* bound: crashes, tasks that throw, failed rewrites

ASSUME TagAssumption ==
  /\ IsFiniteSet(Field) /\ Curated \subseteq Field
  /\ MaxVersion \in Nat \ {0} /\ BatchSlots \subseteq Nat \ {0} /\ MaxFaults \in Nat

VARIABLES db, file,     \* each field's value in the song row, in the tags
          queued,       \* the fields of its library_pending_tag_writes row
          run,          \* where the guarded run of the scheduler is
          sent,         \* the values the flush in progress is writing
          line,         \* rewrites that wait for a slot, oldest first
          writing,      \* rewrites in progress
          tmp,          \* those that write the file now at the temporary name
          slots,        \* the batch slots of this host
          enabled,      \* the settings allow unattended batches
          unwritten,    \* fields with a failed or a killed write since set
          faults

tagVars == <<db, file, queued, run, sent, line, writing, tmp, slots,
             enabled, unwritten, faults>>

Version == 0..MaxVersion
Torn == MaxVersion + 1
Nothing == [f \in Field |-> 0]

(* A call of writeAudioTags: the fields it sets, and the copy it makes once  *)
(* it runs.                                                                  *)
Tags == [Field -> Version]
Rewrite == [by : {"flush", "edit"}, tags : Tags]
Copying == [by : {"flush", "edit"}, tags : Tags, copy : [Field -> 0..Torn]]

Runs == {"idle", "tasks", "flush", "writing"}

Fields(tags) == {f \in Field : tags[f] # 0}
CurrentTags(fields) == [f \in Field |-> IF f \in fields THEN db[f] ELSE 0]

TagInit ==
  /\ db = Nothing /\ file = Nothing
  /\ queued = {} /\ run = "idle" /\ sent = Nothing
  /\ line = <<>> /\ writing = {} /\ tmp = {}
  /\ slots \in BatchSlots /\ enabled \in BOOLEAN
  /\ unwritten = {} /\ faults = 0

(* The guarded run moves on.                                                 *)
Goes(to) ==
  /\ run' = to
  /\ UNCHANGED <<db, file, queued, sent, line, writing, tmp, slots, enabled, unwritten, faults>>

(* tick, and enrichNewSongsNow: one run at a time.  A tick that is not       *)
(* allowed a batch still flushes what is queued.                             *)
Tick_NoFlush == run = "idle" /\ enabled /\ Goes("tasks")
Tick ==
  /\ run = "idle"
  /\ \/ enabled /\ Goes("tasks")
     \/ ~enabled /\ queued # {} /\ Goes("flush")

(* The admin's runNow, whatever the settings, when some task has work.       *)
RunNow_Unguarded == (\E f \in Field : db[f] = 0) /\ Goes("tasks")
RunNow == run = "idle" /\ (\E f \in Field : db[f] = 0) /\ Goes("tasks")

(* A task fills a field the song has no value for, and queues it.            *)
Merged_Replaces(f) == {f}
Merged(f) == queued \cup {f}
Enrich(f) ==
  /\ run = "tasks" /\ db[f] = 0
  /\ db' = [db EXCEPT ![f] = 1]
  /\ queued' = Merged(f)
  /\ unwritten' = unwritten \ {f}
  /\ UNCHANGED <<file, run, sent, line, writing, tmp, slots, enabled, faults>>

TasksSettle == run = "tasks" /\ Goes("flush")

(* A task that throws ends the run before its flush.                         *)
TaskThrows ==
  /\ run = "tasks" /\ faults < MaxFaults
  /\ run' = "idle" /\ faults' = faults + 1
  /\ UNCHANGED <<db, file, queued, sent, line, writing, tmp, slots, enabled, unwritten>>

(* flushPendingTagWrites: read the values, ask for the rewrite.              *)
FlushAsks ==
  /\ run = "flush" /\ queued # {}
  /\ sent' = CurrentTags(queued)
  /\ line' = Append(line, [by |-> "flush", tags |-> sent'])
  /\ run' = "writing"
  /\ UNCHANGED <<db, file, queued, writing, tmp, slots, enabled, unwritten, faults>>

FlushEnds == run = "flush" /\ queued = {} /\ Goes("idle")

(* mutateSongGenre: the row first, then the file, awaited by the request.    *)
Edit(f) ==
  /\ f \in Curated /\ db[f] < MaxVersion
  /\ db' = [db EXCEPT ![f] = @ + 1]
  /\ line' = Append(line, [by |-> "edit", tags |-> [Nothing EXCEPT ![f] = db[f] + 1]])
  /\ unwritten' = unwritten \ {f}
  /\ UNCHANGED <<file, queued, run, sent, writing, tmp, slots, enabled, faults>>

(* ffmpeg opens the file and (over)writes the temporary one.                 *)
RewriteStarts ==
  /\ line # <<>> /\ Cardinality(writing) < slots
  /\ LET w == Head(line)
         c == [by |-> w.by, tags |-> w.tags,
               copy |-> [f \in Field |-> IF w.tags[f] # 0 THEN w.tags[f] ELSE file[f]]]
     IN  /\ writing' = writing \cup {c}
         /\ tmp' = tmp \cup {c}
  /\ line' = Tail(line)
  /\ UNCHANGED <<db, file, queued, run, sent, slots, enabled, unwritten, faults>>

(* The flush goes on after its rewrite: a row whose values changed under a   *)
(* successful one is kept, any other is dropped.                             *)
Retained_Never(ok) == FALSE
Retained(ok) == ok /\ CurrentTags(queued) # sent

Answered(w, ok) ==
  /\ unwritten' = IF ok THEN unwritten \ Fields(w.tags)
                  ELSE unwritten \cup {f \in Fields(w.tags) : db[f] = w.tags[f]}
  /\ IF w.by = "flush"
       THEN /\ queued' = IF Retained(ok) THEN queued ELSE {}
            /\ run' = "idle"
            /\ sent' = Nothing
       ELSE UNCHANGED <<queued, run, sent>>

(* ffmpeg closes with code 0 and the temporary file is renamed.  Rewrites    *)
(* that opened the same one wrote over each other, and either's copy is what *)
(* it holds; one that is not among them renames what another has not         *)
(* finished.                                                                 *)
RewriteCloses(w) ==
  /\ w \in writing /\ tmp # {}
  /\ file' \in IF w \in tmp THEN {v.copy : v \in tmp} ELSE {[f \in Field |-> Torn]}
  /\ tmp' = {} /\ writing' = writing \ {w}
  /\ Answered(w, TRUE)
  /\ UNCHANGED <<db, line, slots, enabled, faults>>

(* There is nothing left to rename: another rewrite took it, and this one    *)
(* went on writing into the file itself.                                     *)
RewriteLate(w) ==
  /\ w \in writing /\ tmp = {}
  /\ file' \in {file, w.copy}
  /\ writing' = writing \ {w}
  /\ Answered(w, FALSE)
  /\ UNCHANGED <<db, line, tmp, slots, enabled, faults>>

(* ffmpeg fails: whatever is at the temporary name is removed.               *)
RewriteFails(w) ==
  /\ w \in writing /\ faults < MaxFaults
  /\ faults' = faults + 1
  /\ tmp' = {} /\ writing' = writing \ {w}
  /\ Answered(w, FALSE)
  /\ UNCHANGED <<db, file, line, slots, enabled>>

(* The admin changes enabled or paused.                                      *)
Switch ==
  /\ enabled' = ~enabled
  /\ UNCHANGED <<db, file, queued, run, sent, line, writing, tmp, slots, unwritten, faults>>

(* A restart: only the database and the file are left.                       *)
Killed == {line[i] : i \in DOMAIN line} \cup
          {[by |-> w.by, tags |-> w.tags] : w \in writing}
TagCrash ==
  /\ faults < MaxFaults
  /\ faults' = faults + 1
  /\ unwritten' = unwritten \cup
       {f \in Field : \E w \in Killed : w.by = "edit" /\ w.tags[f] # 0 /\ w.tags[f] = db[f]}
  /\ run' = "idle" /\ sent' = Nothing
  /\ line' = <<>> /\ writing' = {} /\ tmp' = {}
  /\ UNCHANGED <<db, file, queued, slots, enabled>>

TagNext ==
  \/ Tick \/ RunNow \/ TasksSettle \/ TaskThrows \/ FlushAsks \/ FlushEnds
  \/ RewriteStarts \/ Switch \/ TagCrash
  \/ \E f \in Field : Enrich(f) \/ Edit(f)
  \/ \E w \in writing : RewriteCloses(w) \/ RewriteLate(w) \/ RewriteFails(w)

(* The scheduler's interval, its awaited steps, and ffmpeg children that end.*)
TagFairness ==
  /\ WF_tagVars(Tick) /\ WF_tagVars(TasksSettle)
  /\ WF_tagVars(FlushAsks) /\ WF_tagVars(FlushEnds)
  /\ WF_tagVars(RewriteStarts)
  /\ WF_tagVars(\E w \in writing : RewriteCloses(w) \/ RewriteLate(w))

TagSpec == TagInit /\ [][TagNext]_tagVars

---------------------------------------------------------------------------
(* The variables hold values of their types, and a flush awaits its rewrite  *)
(* exactly while one of its is queued or in progress.                        *)
TagTypeOK ==
  /\ db \in Tags /\ file \in [Field -> 0..Torn]
  /\ queued \subseteq Field /\ unwritten \subseteq Field
  /\ run \in Runs /\ sent \in Tags
  /\ line \in Seq(Rewrite) /\ writing \subseteq Copying /\ tmp \subseteq writing
  /\ slots \in BatchSlots /\ enabled \in BOOLEAN /\ faults \in 0..MaxFaults
  /\ (run = "writing") =
       (\E w \in {line[i] : i \in DOMAIN line} \cup writing : w.by = "flush")

(* Still to be written by somebody who was not told otherwise.               *)
Carried(f) ==
  \/ f \in queued
  \/ \E i \in DOMAIN line : line[i].tags[f] = db[f]
  \/ \E w \in writing : w.tags[f] = db[f]

(* The file has the database's value, somebody still brings it, or the       *)
(* rewrite that carried it is known to have failed.                          *)
Accounted(f) == db[f] # 0 => file[f] = db[f] \/ Carried(f) \/ f \in unwritten

(* Where rewrites run one by one, the file never silently misses a value of  *)
(* the database - across restarts, tasks that throw, and edits that land     *)
(* while a flush is writing older values.                                    *)
Mirrored == slots = 1 => \A f \in Field : Accounted(f)

(* Where they do, a row leaves the queue only when the file has the values   *)
(* the database has then, unless ffmpeg failed.                              *)
KeptUntilMirrored ==
  [][slots = 1 =>
       \A f \in queued \ queued' : file'[f] = db'[f] \/ faults' # faults]_tagVars

(* Queued tag writes land although enrichment is switched off or paused:     *)
(* every tick flushes them.                                                  *)
QueueDrains == queued # {} ~> queued = {}
====
