----------------------------- MODULE AddonPipeline -----------------------------
(***************************************************************************)
(* The addon acquisition pipeline: AddonJobPoller                          *)
(* (packages/api/src/services/addons/job-poller.ts) and the download       *)
(* routes (routes/downloads.ts) working on the same cards, one external    *)
(* acquisition addon, and the process that runs them.                      *)
(*                                                                         *)
(* Three activities interleave, switching only where the code awaits:      *)
(*   tick   one poll: list, mirror each job, stranded sweep, orphan        *)
(*          check, stale cancels (non-reentrant, so there is one);         *)
(*   pump   the serial background ingest queue: fetch, organize, scan,     *)
(*          outcome, release;                                              *)
(*   routes submit, cancel, remove, discard-partial, re-source, hygiene.   *)
(* The addon moves on its own between any two of these steps.              *)
(***************************************************************************)
EXTENDS Sequences, AcquisitionStore

CONSTANTS
  Card,      \* ids of acquisition_jobs rows, one per createJob call
  NoCard,    \* "no card"
  MaxEpoch,  \* bound: how many lives the addon process has
  AgedSets,  \* the sets of stalled mid-pipeline states a recompute may see
  Events     \* the faults and user requests this instance may meet

ASSUME PipelineAssumption ==
  /\ NoCard \notin Card
  /\ MaxEpoch \in Nat \ {0}
  /\ AgedSets \subseteq SUBSET {"completed", "organized"}

\* No response of the addon is outstanding; no card is being worked on.
TickPc  == {"idle", "mirror", "release", "stranded", "orphans", "cancels"}
PumpPc  == {"idle", "fetch", "scan", "mark", "release"}
SwapPc  == {"idle", "cancel", "create", "record"}

VARIABLES
  job,       \* acquisition_jobs: [Card -> Card_Row]
  row,       \* acquisition_job_items: [Card -> Rows]
  filed,     \* rows with a relative_path: [Card -> SUBSET RowKey]
  library,   \* titles with a library_songs row
  jobmap,    \* plugin_kv jobmap:<id>: the card a job mirrors into
  released,  \* plugin_kv released:<id>
  addon,     \* the addon's own job store
  boot,      \* which life the addon process is in
  asked,     \* addon jobs the addon was asked to cancel
  news,      \* addon jobs whose updatedAt is past the last listing
  tick,      \* the poll in progress
  queue,     \* ingestQueue
  pump,      \* the ingest in progress
  await,     \* album submissions awaiting the addon's answer
  swap,      \* the re-source request in progress
  dropping,  \* cards whose remove request is past its addon calls
  discard    \* the discard-partial request awaiting deleteSongs

dbVars    == <<job, row, filed, library, jobmap, released>>
addonVars == <<addon, boot, asked, news>>
workVars  == <<tick, queue, pump>>
routeVars == <<await, swap, dropping, discard>>
vars == <<dbVars, addonVars, workVars, routeVars>>

-------------------------------------------------------------------------------
(* The addon's side of the protocol *)

AddonState == {"none", "active", "done", "partial", "failed", "cancelled"}
Terminal   == {"done", "partial", "failed", "cancelled"}

\* "landing" is a completed item whose file is not ready yet.
AddonItem  == {"none", "queued", "downloading", "landing", "completed",
               "failed", "unavailable"}

\* AddonJob of the SDK; the epoch stands for its createdAt.
AddonJob == [st : AddonState, epoch : 0..MaxEpoch, item : [Item -> AddonItem]]

NoItems == [i \in Item |-> "none"]
Gone(x) == [x EXCEPT !.st = "none", !.item = NoItems]
Listed(a) == addon[a].st # "none"

Ready(snap) == {i \in Item : snap.item[i] = "completed"}

Mirrored_Verbatim(x) == x

\* mapItemState: what an item row shows of an addon item.
Mirrored(x) == IF x = "landing" THEN "completed" ELSE x

\* An addon creates a job for the given titles.  An id is issued once per life
\* of the addon: its counter restarts with the process (#1018).
NewJob(a, titles) ==
  [st |-> "active", epoch |-> boot,
   item |-> [i \in Item |-> IF i \in titles THEN "queued" ELSE "none"]]

CanCreate(a) == addon[a].st = "none" /\ addon[a].epoch < boot

AddonCreate(a, titles) ==
  /\ CanCreate(a)
  /\ addon' = [addon EXCEPT ![a] = NewJob(a, titles)]
  /\ news' = news \union {a}
  /\ UNCHANGED <<boot, asked>>

\* DELETE jobs/:id frees the job and its files.
AddonDrop(a) ==
  /\ Listed(a)
  /\ addon' = [addon EXCEPT ![a] = Gone(@)]
  /\ news' = news \ {a}
  /\ asked' = asked \ {a}
  /\ UNCHANGED boot

\* deleteJob, then the released:<id> stamp; a call that fails stamps nothing.
DeleteCall(a) ==
  \/ AddonDrop(a) /\ released' = released \union {a}
  \/ /\ "deleteFails" \in Events \/ ~Listed(a)
     /\ UNCHANGED <<addonVars, released>>

\* POST jobs/:id/cancel is a request; the addon may be unreachable.
CancelCall(a) ==
  /\ \/ asked' = IF addon[a].st = "active" THEN asked \union {a} ELSE asked
     \/ "addonDown" \in Events /\ asked' = asked
  /\ UNCHANGED <<addon, boot, news>>

AddonProgress(a, i) ==
  /\ addon[a].st = "active"
  /\ \E to \in AddonItem :
       /\ \/ addon[a].item[i] = "queued" /\ to \in {"downloading", "unavailable"}
          \/ addon[a].item[i] = "downloading" /\ to \in {"completed", "failed"}
          \/ /\ "landing" \in Events
             /\ \/ addon[a].item[i] = "downloading" /\ to = "landing"
                \/ addon[a].item[i] = "landing" /\ to = "completed"
          \* a resolve that lists its titles as it finds them
          \/ "lateItems" \in Events /\ addon[a].item[i] = "none" /\ to = "queued"
          \* the addon retries a failed item at another peer
          \/ "repoint" \in Events /\ addon[a].item[i] = "failed" /\ to = "downloading"
       /\ addon' = [addon EXCEPT ![a].item[i] = to]
  /\ news' = news \union {a}
  /\ UNCHANGED <<dbVars, boot, asked, workVars, routeVars>>

Verdict(snap) ==
  LET got  == {i \in Item : snap.item[i] = "completed"}
      lost == {i \in Item : snap.item[i] \in {"failed", "unavailable"}}
  IN  IF lost = {} /\ got # {} THEN "done" ELSE IF got # {} THEN "partial" ELSE "failed"

AddonFinish(a) ==
  /\ addon[a].st = "active"
  /\ \/ /\ \A i \in Item : addon[a].item[i] \notin {"queued", "downloading", "landing"}
        /\ addon' = [addon EXCEPT ![a].st = Verdict(addon[a])]
     \/ /\ a \in asked
        /\ \A i \in Item : addon[a].item[i] # "landing"
        /\ addon' = [addon EXCEPT ![a].st = "cancelled"]
  /\ news' = news \union {a}
  /\ asked' = asked \ {a}
  /\ UNCHANGED <<dbVars, boot, workVars, routeVars>>

\* An addon whose job store is in memory restarts: every job is gone.
AddonRestart ==
  /\ "restart" \in Events
  /\ boot < MaxEpoch /\ \E a \in AJob : addon[a].epoch = boot
  /\ boot' = boot + 1
  /\ addon' = [a \in AJob |-> Gone(addon[a])]
  /\ asked' = {}
  /\ news' = {}
  /\ UNCHANGED <<dbVars, workVars, routeVars>>

-------------------------------------------------------------------------------
(* Helpers of the poller *)

QueuedCards == {queue[n].card : n \in 1..Len(queue)}
                 \union (IF pump.pc = "idle" THEN {} ELSE {pump.card})

\* pendingIngestCount > 0: a completed row without a relative_path.
Pending(rows, paths) == \E k \in RowKey : rows[k] = "completed" /\ k \notin paths

\* scheduleFinish: single flight per card, the snapshot taken now.
Enqueue(c, a, snap) ==
  IF c \in QueuedCards THEN queue
  ELSE Append(queue, [card |-> c, a |-> a, snap |-> snap])

MirroredRows_OverDelivered(rows, a, snap) ==
  [k \in RowKey |->
     IF k[1] = a /\ snap.item[k[2]] # "none" /\ rows[k] # "superseded"
     THEN Mirrored(snap.item[k[2]])
     ELSE rows[k]]

MirroredRows_OverSuperseded(rows, a, snap) ==
  [k \in RowKey |->
     IF k[1] = a /\ snap.item[k[2]] # "none" /\ rows[k] \notin {"organized", "scanned"}
     THEN Mirrored(snap.item[k[2]])
     ELSE rows[k]]

\* mirrorItems: upsert by (addon job, item), never over a delivered or a
\* superseded row.
MirroredRows(rows, a, snap) ==
  [k \in RowKey |->
     IF /\ k[1] = a
        /\ snap.item[k[2]] # "none"
        /\ rows[k] \notin {"organized", "scanned", "superseded"}
     THEN Mirrored(snap.item[k[2]])
     ELSE rows[k]]

\* Whether the addon's job carries an error text.
Errs == IF "addonError" \in Events THEN BOOLEAN ELSE {FALSE}

ActiveOutcome_IgnoresCancel(j, rows, e) ==
  IF j.state \in {"active", "failed"} /\ ~NoRows(rows)
  THEN [j EXCEPT !.state = "active", !.stage = "downloading", !.err = e]
  ELSE j

\* applyAddonOutcome on an addon job that is still active.
ActiveOutcome(j, rows, e) ==
  LET pinned == IF j.state \in {"active", "failed"} /\ ~j.cancel /\ ~NoRows(rows)
                THEN [j EXCEPT !.state = "active", !.stage = "downloading"]
                ELSE j
  IN  IF pinned.state = "active" THEN [pinned EXCEPT !.err = e] ELSE pinned

\* applyAddonOutcome on a closed addon job: rows, then the card.
TerminalRows(rows, a) == Move(rows, OwnedBy(a), InFlight, "unavailable")

TerminalOutcome_Verbatim(j, rows, e, aged) ==
  IF Live(j) THEN [Recompute(j, rows, aged) EXCEPT !.err = e] ELSE j

TerminalOutcome(j, rows, e, aged) ==
  LET ruled  == Recompute(j, rows, aged)
      closed == IF Live(j) THEN [ruled EXCEPT !.err = e \/ ruled.stage = "error"] ELSE j
  IN  IF Live(j) /\ NoRows(rows) /\ j.state # "superseded"
      THEN [closed EXCEPT !.state = "failed", !.stage = "error", !.err = TRUE]
      ELSE closed

OutcomeRows(rows, a, snap) ==
  IF snap.st = "active" THEN rows ELSE TerminalRows(rows, a)

Outcome(j, rows, a, snap, e, aged) ==
  IF snap.st = "active" THEN ActiveOutcome(j, rows, e)
  ELSE TerminalOutcome(j, TerminalRows(rows, a), e, aged)

MayRelease_Eager(snap, rows, paths) == snap.st # "active"

\* maybeReleaseAddonJob deletes only a closed job no row still waits on.
MayRelease(snap, rows, paths) == snap.st # "active" /\ ~Pending(rows, paths)

-------------------------------------------------------------------------------
(* The tick *)

NotListed == [st |-> "none", epoch |-> 0, item |-> NoItems]

TickIdle == [pc |-> "idle", listed |-> [a \in AJob |-> NotListed], batch |-> {},
             handled |-> {}, sel |-> {}, ask |-> NoCard, del |-> NoJob]

Taken(a) == [tick EXCEPT !.listed[a] = NotListed]

Minted == {c \in Card : job[c].state = "unborn"}

\* Requests the addon has accepted and no row records yet.
Unrecorded == swap.pc = "record" \/ \E w \in await : w.a # NoJob

\* listJobs(cursor): every job updated since the last committed listing.  It
\* may fall into the window of a request only where the instance says so.
TickList ==
  /\ tick.pc = "idle"
  /\ Unrecorded => "laneRace" \in Events
  /\ tick' = [tick EXCEPT !.pc = "mirror", !.batch = news,
                          !.listed = [a \in AJob |-> IF a \in news THEN addon[a]
                                                     ELSE NotListed]]
  /\ news' = {}
  /\ UNCHANGED <<dbVars, addon, boot, asked, queue, pump, routeVars>>

\* pollAddon threw: the sweep of stale cancels still runs.
TickListFails ==
  /\ "pollFail" \in Events
  /\ tick.pc = "idle"
  /\ tick' = [tick EXCEPT !.pc = "cancels"]
  /\ UNCHANGED <<dbVars, addonVars, queue, pump, routeVars>>

\* The map names a card that no longer exists, for this very job.
RemovedMapping(a, snap) ==
  /\ jobmap[a].card # NoCard
  /\ ~Live(job[jobmap[a].card])
  /\ jobmap[a].epoch \in {0, snap.epoch}

MirrorRemoved_Skips(a) ==
  /\ RemovedMapping(a, tick.listed[a])
  /\ tick' = Taken(a)
  /\ UNCHANGED <<dbVars, addonVars, queue, pump, routeVars>>

\* releaseRemovedJob: an active job is cancelled, then any is deleted.
MirrorRemoved(a) ==
  /\ RemovedMapping(a, tick.listed[a])
  /\ \/ /\ a \in released
        /\ tick' = Taken(a)
        /\ UNCHANGED addonVars
     \/ /\ a \notin released
        /\ tick' = [Taken(a) EXCEPT !.pc = "release", !.del = a]
        /\ IF tick.listed[a].st = "active" THEN CancelCall(a) ELSE UNCHANGED addonVars
  /\ UNCHANGED <<dbVars, queue, pump, routeVars>>

\* The rest of mirrorAddonJob, once ensureCoreJob returned the card c.
MirrorInto(a, c, base) ==
  LET snap == tick.listed[a]
      rows == MirroredRows(row[c], a, snap)
      seen == [Taken(a) EXCEPT !.handled = @ \union {c}]
  IN
  \/ \* cancel pending, addon still winding down: the mirror is frozen
     /\ snap.st = "active" /\ base.cancel
     /\ tick' = seen
     /\ UNCHANGED <<job, row, queue>>
  \/ \* files to fetch, or an ingest of this card under way
     /\ ~(snap.st = "active" /\ base.cancel)
     /\ c \in QueuedCards \/ (Ready(snap) # {} /\ Pending(rows, filed[c]))
     /\ \E aged \in AgedSets :
          job' = [job EXCEPT ![c] = Recompute(base, rows, aged)]
     /\ row' = [row EXCEPT ![c] = rows]
     /\ queue' = Enqueue(c, a, snap)
     /\ tick' = seen
  \/ \* nothing to fetch: the verdict and the release belong to this tick
     /\ ~(snap.st = "active" /\ base.cancel)
     /\ c \notin QueuedCards
     /\ Ready(snap) = {} \/ ~Pending(rows, filed[c])
     /\ \E aged \in AgedSets, e \in Errs :
          job' = [job EXCEPT ![c] =
                    Outcome(Recompute(base, rows, aged), rows, a, snap, e, aged)]
     /\ row' = [row EXCEPT ![c] = OutcomeRows(rows, a, snap)]
     /\ tick' = IF MayRelease(snap, OutcomeRows(rows, a, snap), filed[c])
                THEN [seen EXCEPT !.pc = "release", !.del = a]
                ELSE seen
     /\ UNCHANGED queue

\* ensureCoreJob found the mapped card.
MirrorMapped(a) ==
  /\ jobmap[a].card # NoCard
  /\ Live(job[jobmap[a].card])
  /\ MirrorInto(a, jobmap[a].card, job[jobmap[a].card])
  /\ UNCHANGED <<filed, library, jobmap, released, addonVars, pump, routeVars>>

\* ensureCoreJob mints a card: no mapping, or a reissued id whose card is gone.
MirrorMinted(a) ==
  /\ jobmap[a].card # NoCard =>
       ~Live(job[jobmap[a].card]) /\ ~RemovedMapping(a, tick.listed[a])
  /\ \E c \in Minted :
       /\ jobmap' = [jobmap EXCEPT ![a] = [card |-> c, epoch |-> tick.listed[a].epoch]]
       /\ MirrorInto(a, c, Created(a))
  /\ released' = IF jobmap[a].card = NoCard THEN released ELSE released \ {a}
  /\ UNCHANGED <<filed, library, addonVars, pump, routeVars>>

Mirror(a) ==
  /\ tick.pc = "mirror"
  /\ tick.listed[a].st # "none"
  /\ MirrorRemoved(a) \/ MirrorMapped(a) \/ MirrorMinted(a)

TickRelease ==
  /\ tick.pc = "release"
  /\ DeleteCall(tick.del)
  /\ tick' = [tick EXCEPT !.pc = "mirror", !.del = NoJob]
  /\ UNCHANGED <<job, row, filed, library, jobmap, queue, pump, routeVars>>

Stranding == {c \in Card : job[c].state = "active" /\ Pending(row[c], filed[c])}

\* The cursor is committed, then the stranded sweep selects its cards (none
\* when it ran less than a minute ago).
MirrorDone(sweep) ==
  /\ tick.pc = "mirror"
  /\ \A a \in AJob : tick.listed[a].st = "none"
  /\ tick' = [tick EXCEPT !.pc = "stranded", !.batch = {}, !.handled = {},
                          !.sel = IF sweep THEN Stranding \ tick.handled ELSE {}]
  /\ UNCHANGED <<dbVars, addonVars, queue, pump, routeVars>>

\* One card of the sweep: getJob, then an ingest, an orphan, or nothing.
Stranded(c) ==
  /\ tick.pc = "stranded" /\ c \in tick.sel
  /\ LET a == job[c].ref IN
     \/ /\ a # NoJob /\ Listed(a)
        /\ queue' = Enqueue(c, a, addon[a])
        /\ UNCHANGED <<job, row>>
     \/ /\ a # NoJob /\ ~Listed(a) /\ a \notin released
        /\ job' = [job EXCEPT ![c] = OrphanedJob(@)]
        /\ row' = [row EXCEPT ![c] = OrphanedRows(@, a)]
        /\ UNCHANGED queue
     \/ /\ a = NoJob \/ (~Listed(a) /\ a \in released) \/ "pollFail" \in Events
        /\ UNCHANGED <<job, row, queue>>
  /\ tick' = [tick EXCEPT !.sel = @ \ {c}]
  /\ UNCHANGED <<filed, library, jobmap, released, addonVars, pump, routeVars>>

Active == {c \in Card : job[c].state = "active"}

\* The orphan check looks at the active cards stale for 5 min: "stale".
StrandedDone(stale) ==
  /\ tick.pc = "stranded" /\ tick.sel = {}
  /\ tick' = [tick EXCEPT !.pc = "orphans", !.sel = stale]
  /\ UNCHANGED <<dbVars, addonVars, queue, pump, routeVars>>

\* released:<id> is read before getJob is awaited.
OrphanAsk(c) ==
  /\ tick.pc = "orphans" /\ tick.ask = NoCard /\ c \in tick.sel
  /\ tick' = [tick EXCEPT !.sel = @ \ {c},
                          !.ask = IF job[c].ref = NoJob \/ job[c].ref \in released
                                  THEN NoCard ELSE c]
  /\ UNCHANGED <<dbVars, addonVars, queue, pump, routeVars>>

OrphanAnswer ==
  /\ tick.ask # NoCard
  /\ LET c == tick.ask
         a == job[c].ref
     IN  IF Listed(a) THEN UNCHANGED <<job, row>>
         ELSE /\ job' = [job EXCEPT ![c] = OrphanedJob(@)]
              /\ row' = [row EXCEPT ![c] = OrphanedRows(@, a)]
  /\ tick' = [tick EXCEPT !.ask = NoCard]
  /\ UNCHANGED <<filed, library, jobmap, released, addonVars, queue, pump, routeVars>>

OrphansDone ==
  /\ tick.pc = "orphans" /\ tick.ask = NoCard /\ tick.sel = {}
  /\ tick' = [tick EXCEPT !.pc = "cancels"]
  /\ UNCHANGED <<dbVars, addonVars, queue, pump, routeVars>>

Cancelling == {c \in Active : job[c].cancel}

\* sweepStaleCancels closes the requests older than the grace: "overdue".
TickCancels(overdue) ==
  /\ tick.pc = "cancels"
  /\ \E aged \in AgedSets :
       job' = [c \in Card |-> IF c \in overdue THEN CancelledJob(job[c], row[c], aged)
                              ELSE job[c]]
  /\ row' = [c \in Card |-> IF c \in overdue THEN CancelledRows(row[c]) ELSE row[c]]
  /\ tick' = TickIdle
  /\ UNCHANGED <<filed, library, jobmap, released, addonVars, queue, pump, routeVars>>

-------------------------------------------------------------------------------
(* The ingest pump: finishJob for one card at a time *)

PumpIdle == [pc |-> "idle", card |-> NoCard, a |-> NoJob, snap |-> NotListed,
             todo |-> {}, batch |-> {}]

\* ingestReadyItems starts; the discard marker is read here, once.
PumpStart ==
  /\ pump.pc = "idle" /\ queue # <<>>
  /\ LET h == Head(queue) IN
     pump' = [pc |-> "fetch", card |-> h.card, a |-> h.a, snap |-> h.snap,
              todo |-> IF job[h.card].discarded THEN {} ELSE Ready(h.snap),
              batch |-> {}]
  /\ queue' = Tail(queue)
  /\ UNCHANGED <<dbVars, addonVars, tick, routeVars>>

\* One item: the row is checked, then the bytes are awaited.
PumpFetch(i) ==
  /\ pump.pc = "fetch" /\ i \in pump.todo
  /\ LET k      == <<pump.a, i>>
         wanted == row[pump.card][k] = "completed" /\ k \notin filed[pump.card]
         served == addon[pump.a].item[i] = "completed"
     IN \/ /\ wanted /\ served
           /\ pump' = [pump EXCEPT !.todo = @ \ {i}, !.batch = @ \union {i}]
        \/ /\ ~wanted \/ ~served \/ "fetchFail" \in Events
           /\ pump' = [pump EXCEPT !.todo = @ \ {i}]
  /\ UNCHANGED <<dbVars, addonVars, tick, queue, routeVars>>

\* organizeBatch, then the rows of the batch, whatever they say by now.
PumpOrganize ==
  /\ pump.pc = "fetch" /\ pump.todo = {} /\ pump.batch # {}
  /\ \E ok \in {pump.batch} \union
                 (IF "organizeFail" \in Events THEN {{}} ELSE {}) :
       LET c == pump.card
           K == {k \in {pump.a} \X ok : row[c][k] # "none"}
       IN  /\ row' = [row EXCEPT ![c] = Move(@, K, ItemState, "organized")]
           /\ filed' = [filed EXCEPT ![c] = @ \union K]
           /\ pump' = [pump EXCEPT !.pc = "scan", !.batch = ok]
  /\ UNCHANGED <<job, library, jobmap, released, addonVars, tick, queue, routeVars>>

\* applyAddonOutcome and the check of maybeReleaseAddonJob, on "base" and "rows".
Finish(base, rows, paths) ==
  LET c == pump.card
      closing == OutcomeRows(rows[c], pump.a, pump.snap)
  IN  /\ \E aged \in AgedSets, e \in Errs :
           job' = [job EXCEPT ![c] = Outcome(base, rows[c], pump.a, pump.snap, e, aged)]
      /\ row' = [rows EXCEPT ![c] = closing]
      /\ pump' = IF MayRelease(pump.snap, closing, paths)
                 THEN [pump EXCEPT !.pc = "release", !.snap = NotListed, !.batch = {}]
                 ELSE PumpIdle

\* No file was fetched: ingestReadyItems returns before its recompute.
PumpNothing ==
  /\ pump.pc = "fetch" /\ pump.todo = {} /\ pump.batch = {}
  /\ Finish(job[pump.card], row, filed[pump.card])
  /\ UNCHANGED <<filed, library, jobmap, released, addonVars, tick, queue, routeVars>>

\* deps.scan: the batch enters the library, or the scan throws or misses it.
PumpIndex ==
  /\ pump.pc = "scan"
  /\ \E found \in {pump.batch} \union (IF "scanMiss" \in Events THEN {{}} ELSE {}) :
       /\ library' = library \union found
       /\ pump' = [pump EXCEPT !.pc = "mark", !.batch = found]
  /\ UNCHANGED <<job, row, filed, jobmap, released, addonVars, tick, queue, routeVars>>

\* The rows of every card that were filed at a path the library has.
ScannedRows(found) ==
  [d \in Card |-> Move(row[d], {k \in filed[d] : k[2] \in found},
                       ItemState \ {"none", "scanned"}, "scanned")]

\* The songs are looked up when the scan is over: a crash may come before.
PumpScan ==
  /\ pump.pc = "mark"
  /\ LET c     == pump.card
         found == pump.batch \intersect library
     IN  \E aged \in AgedSets :
           Finish(Recompute(job[c], ScannedRows(found)[c], aged), ScannedRows(found), filed[c])
  /\ UNCHANGED <<filed, library, jobmap, released, addonVars, tick, queue, routeVars>>

PumpRelease ==
  /\ pump.pc = "release"
  /\ DeleteCall(pump.a)
  /\ pump' = PumpIdle
  /\ UNCHANGED <<job, row, filed, library, jobmap, tick, queue, routeVars>>

-------------------------------------------------------------------------------
(* Submitting: an album or folder grab writes its card after the addon     *)
(* answered, a URL reserves its card before the addon is asked.  A request *)
(* in flight is the job the addon made for it (NoJob until it has) and the *)
(* card it reserved (NoCard in the album lanes).                           *)

Request == [a : AJob \union {NoJob}, epoch : 0..MaxEpoch, card : Card \union {NoCard}]

Titles == SUBSET Item \ (IF "lateItems" \in Events THEN {} ELSE {{}})

\* Bound: a job is accepted only while every unclaimed one, and every answer
\* under way, can still get a card of its own.
Unclaimed == {a \in AJob : Listed(a) /\ (jobmap[a].card # NoCard => ~Live(job[jobmap[a].card]))}
Spare     == IF "laneRace" \in Events THEN 1 ELSE 0
Room(n)   == Cardinality(Minted) >=
               n + Spare * (1 + Cardinality(Unclaimed))
                 + Cardinality({w \in await : w.card = NoCard})

\* addon.client.createJob accepted, the response is under way.
SubmitAlbum(a) ==
  /\ "album" \in Events /\ Room(1)
  /\ \E titles \in Titles \ {{}} : AddonCreate(a, titles)
  /\ await' = await \union {[a |-> a, epoch |-> boot, card |-> NoCard]}
  /\ UNCHANGED <<dbVars, workVars, swap, dropping, discard>>

\* createJob + mapAddonJob.  acquireAlbum passes createdAt, /downloads does not.
AlbumAnswer(w) ==
  /\ w.card = NoCard
  /\ \E c \in Minted, e \in {0, w.epoch} :
       /\ job' = [job EXCEPT ![c] = Created(w.a)]
       /\ jobmap' = [jobmap EXCEPT ![w.a] = [card |-> c, epoch |-> e]]
  /\ await' = await \ {w}
  /\ UNCHANGED <<row, filed, library, released, addonVars, workVars, swap, dropping, discard>>

\* startAddonUrlJob: one in-flight card per link (the instance has one link).
SubmitUrl(c) ==
  /\ "url" \in Events
  /\ job[c].state = "unborn"
  /\ ~\E d \in Active : job[d].url
  /\ job' = [job EXCEPT ![c] = Reserved]
  /\ await' = await \union {[a |-> NoJob, epoch |-> 0, card |-> c]}
  /\ UNCHANGED <<row, filed, library, jobmap, released, addonVars, workVars,
                 swap, dropping, discard>>

UrlAccepted(w, a) ==
  /\ w.a = NoJob /\ Room(0)
  /\ \E titles \in Titles : AddonCreate(a, titles)
  /\ await' = (await \ {w}) \union {[w EXCEPT !.a = a, !.epoch = boot]}
  /\ UNCHANGED <<dbVars, workVars, swap, dropping, discard>>

\* attachAddonRef + mapAddonJob, which gives no createdAt.
UrlAnswer(w) ==
  /\ w.card # NoCard /\ w.a # NoJob
  /\ job' = [job EXCEPT ![w.card] = Attached(@, w.a)]
  /\ jobmap' = [jobmap EXCEPT ![w.a] = [card |-> w.card, epoch |-> 0]]
  /\ await' = await \ {w}
  /\ UNCHANGED <<row, filed, library, released, addonVars, workVars, swap, dropping, discard>>

\* The request fails, or its answer is lost after the addon took the job.
SubmitFails(w) ==
  /\ "submitFails" \in Events
  /\ job' = IF w.card = NoCard THEN job
            ELSE [job EXCEPT ![w.card] = Refused(@)]
  /\ await' = await \ {w}
  /\ UNCHANGED <<row, filed, library, jobmap, released, addonVars, workVars,
                 swap, dropping, discard>>

\* ?replace=true retires the live cards of the album before grabbing again.
Supersede(c) ==
  /\ "replace" \in Events
  /\ job[c].state = "active"
  /\ job' = [job EXCEPT ![c].state = "superseded"]
  /\ UNCHANGED <<row, filed, library, jobmap, released, addonVars, workVars, routeVars>>

-------------------------------------------------------------------------------
(* Routes on one card *)

\* POST /jobs/:id/cancel of a card no addon owns (yet).
CancelUnowned(c) ==
  /\ "cancel" \in Events
  /\ Live(job[c]) /\ job[c].ref = NoJob
  /\ \E aged \in AgedSets :
       job' = [job EXCEPT ![c] = CancelledJob(@, row[c], aged)]
  /\ row' = [row EXCEPT ![c] = CancelledRows(@)]
  /\ UNCHANGED <<filed, library, jobmap, released, addonVars, workVars, routeVars>>

\* The durable intent first, then the addon is told once.
Cancel(c) ==
  /\ "cancel" \in Events
  /\ Live(job[c]) /\ job[c].ref # NoJob /\ ~job[c].cancel
  /\ job' = [job EXCEPT ![c] = CancelRequested(@)]
  /\ CancelCall(job[c].ref)
  /\ UNCHANGED <<row, filed, library, jobmap, released, workVars, routeVars>>

\* DELETE /jobs/:id: the addon half is best-effort and stamps nothing.
RemoveStart(c) ==
  /\ "remove" \in Events
  /\ Live(job[c]) /\ c \notin dropping
  /\ \/ job[c].ref # NoJob /\ AddonDrop(job[c].ref)
     \/ job[c].ref # NoJob /\ "addonDown" \in Events /\ CancelCall(job[c].ref)
     \/ (job[c].ref # NoJob => ~Listed(job[c].ref)) /\ UNCHANGED addonVars
  /\ dropping' = dropping \union {c}
  /\ UNCHANGED <<dbVars, workVars, await, swap, discard>>

RemoveRows(c) ==
  /\ c \in dropping
  /\ job' = [job EXCEPT ![c] = IF Live(@) THEN Removed(@) ELSE @]
  /\ row' = [row EXCEPT ![c] = [k \in RowKey |-> "none"]]
  /\ filed' = [filed EXCEPT ![c] = {}]
  /\ dropping' = dropping \ {c}
  /\ UNCHANGED <<library, jobmap, released, addonVars, workVars, await, swap, discard>>

NoDiscard == [card |-> NoCard, titles |-> {}]

\* POST /jobs/:id/discard-partial: marker, contents, then deleteSongs.
DiscardStart(c) ==
  /\ "discard" \in Events
  /\ Live(job[c]) /\ discard = NoDiscard
  /\ job' = [job EXCEPT ![c] = Discarded(@)]
  /\ discard' = [card |-> c, titles |-> {k[2] : k \in filed[c]}]
  /\ UNCHANGED <<row, filed, library, jobmap, released, addonVars, workVars,
                 await, swap, dropping>>

DiscardDelete ==
  /\ discard.card # NoCard
  /\ library' = library \ discard.titles
  /\ \E aged \in AgedSets :
       job' = [job EXCEPT ![discard.card] = Recompute(@, row[discard.card], aged)]
  /\ discard' = NoDiscard
  /\ UNCHANGED <<row, filed, jobmap, released, addonVars, workVars, await, swap, dropping>>

-------------------------------------------------------------------------------
(* POST /jobs/:id/resource: the missing titles of a card go to another peer *)

SwapIdle == [pc |-> "idle", card |-> NoCard, titles |-> {}, old |-> NoJob, new |-> NoJob]

\* canResourceJob + resourceableTitles; a card without rows declined nothing.
Offerable(rows) ==
  TitlesIn(rows, Resourceable) \union
    (IF NothingCounted(rows) THEN {} ELSE NotOffered(rows))

ResourceStart(c) ==
  /\ "resource" \in Events
  /\ swap.pc = "idle"
  /\ Live(job[c]) /\ ~job[c].cancel /\ ~job[c].url /\ job[c].ref # NoJob
  /\ \E titles \in SUBSET Offerable(row[c]) \ {{}} :
       swap' = [SwapIdle EXCEPT !.pc = "cancel", !.card = c, !.titles = titles,
                                !.old = job[c].ref]
  /\ UNCHANGED <<dbVars, addonVars, workVars, await, dropping, discard>>

ResourceCancel ==
  /\ swap.pc = "cancel"
  /\ CancelCall(swap.old)
  /\ swap' = [swap EXCEPT !.pc = "create", !.old = NoJob]
  /\ UNCHANGED <<dbVars, workVars, await, dropping, discard>>

ResourceCreate(a) ==
  /\ swap.pc = "create" /\ Room(0)
  /\ AddonCreate(a, swap.titles)
  /\ swap' = [swap EXCEPT !.pc = "record", !.new = a]
  /\ UNCHANGED <<dbVars, workVars, await, dropping, discard>>

ResourceRefused ==
  /\ swap.pc = "create"
  /\ \E aged \in AgedSets :
       job' = [job EXCEPT ![swap.card] = Recompute(@, row[swap.card], aged)]
  /\ swap' = SwapIdle
  /\ UNCHANGED <<row, filed, library, jobmap, released, addonVars, workVars,
                 await, dropping, discard>>

\* mapAddonJob, supersedeItems, reserveResourcedItems, recomputeStage.
ResourceRecord ==
  /\ swap.pc = "record"
  /\ LET c    == swap.card
         rows == Move(SupersededRows(row[c], swap.titles),
                      {swap.new} \X swap.titles, {"none"}, "queued")
     IN  /\ Live(job[c])
         /\ jobmap' = [jobmap EXCEPT ![swap.new] = [card |-> c, epoch |-> 0]]
         /\ row' = [row EXCEPT ![c] = rows]
         /\ \E aged \in AgedSets : job' = [job EXCEPT ![c] = Recompute(@, rows, aged)]
  /\ swap' = SwapIdle
  /\ UNCHANGED <<filed, library, released, addonVars, workVars, await, dropping, discard>>

\* The card was removed meanwhile: only the mapping is written, the rest throws.
ResourceRecordGone ==
  /\ swap.pc = "record" /\ ~Live(job[swap.card])
  /\ jobmap' = [jobmap EXCEPT ![swap.new] = [card |-> swap.card, epoch |-> 0]]
  /\ swap' = SwapIdle
  /\ UNCHANGED <<job, row, filed, library, released, addonVars, workVars,
                 await, dropping, discard>>

-------------------------------------------------------------------------------
(* reconcileOnBoot, every minute: rescue, idle valve, ghosts, prune *)

Rescued ==
  [c \in Card |-> Move(row[c], {k \in filed[c] : k[2] \in library},
                       {"organized"}, "scanned")]

Idle(rows, quiet) == [c \in Card |-> Move(rows[c], quiet[c], NonTerminal, "failed")]

\* "quiet" are the rows, "ghosts" and "expired" the cards, past their limits.
Hygiene(quiet, ghosts, expired) ==
  \E aged \in AgedSets :
    LET valved == Idle(Rescued, quiet)
        ruled(c)  == IF Rescued[c] # row[c] THEN Recompute(job[c], Rescued[c], aged)
                     ELSE job[c]
        closed(c) == IF valved[c] # Rescued[c] THEN Recompute(ruled(c), valved[c], aged)
                     ELSE ruled(c)
        swept(c)  == IF c \in ghosts /\ NoRows(valved[c]) THEN Refused(closed(c))
                     ELSE closed(c)
    IN  /\ job' = [c \in Card |-> IF c \in expired THEN Removed(job[c]) ELSE swept(c)]
        /\ row' = [c \in Card |-> IF c \in expired THEN [k \in RowKey |-> "none"]
                                  ELSE valved[c]]
        /\ filed' = [c \in Card |-> IF c \in expired THEN {} ELSE filed[c]]
        /\ UNCHANGED <<library, jobmap, released, addonVars, workVars, routeVars>>

\* Cards the prune may take: closed for seven days, so untouched by this pass.
Prunable == {c \in Card : /\ job[c].state \in {"done", "failed", "superseded"}
                          /\ Rescued[c] = row[c]
                          /\ ~\E k \in RowKey : row[c][k] \in NonTerminal}

\* Rows the 24 h valve may take.  A card in the ingest queue was mirrored or
\* swept minutes ago; its rows are not a day old.
Unfinished(c) == IF c \in QueuedCards THEN {}
                 ELSE {k \in RowKey : Rescued[c][k] \in NonTerminal}

HygienePass ==
  \/ /\ "rescue" \in Events
     /\ Rescued # row
     /\ Hygiene([c \in Card |-> {}], {}, {})
  \/ /\ "valve" \in Events
     /\ \E quiet \in [Card -> SUBSET RowKey] :
        \E ghosts \in SUBSET Active :
          /\ \A c \in Card : quiet[c] \subseteq Unfinished(c)
          /\ Hygiene(quiet, ghosts, {})
  \/ /\ "prune" \in Events
     /\ \E expired \in SUBSET Prunable : Hygiene([c \in Card |-> {}], {}, expired)

\* The pass that finds every unfinished row of a day ago.
ValveAll ==
  /\ "valve" \in Events /\ Active # {}
  /\ Hygiene([c \in Card |-> Unfinished(c)], Active, {})

-------------------------------------------------------------------------------
Crash_CursorFirst ==
  /\ "crash" \in Events
  /\ tick' = TickIdle
  /\ pump' = PumpIdle
  /\ queue' = <<>>
  /\ await' = {}
  /\ swap' = SwapIdle
  /\ dropping' = {}
  /\ discard' = NoDiscard
  /\ UNCHANGED <<dbVars, addonVars>>

\* The process dies: what was in memory is lost, the cursor was not committed.
Crash ==
  /\ "crash" \in Events
  /\ tick' = TickIdle
  /\ pump' = PumpIdle
  /\ queue' = <<>>
  /\ news' = news \union {a \in tick.batch : Listed(a)}
  /\ await' = {}
  /\ swap' = SwapIdle
  /\ dropping' = {}
  /\ discard' = NoDiscard
  /\ UNCHANGED <<dbVars, addon, boot, asked>>

Init ==
  /\ job = [c \in Card |-> Unborn]
  /\ row = [c \in Card |-> [k \in RowKey |-> "none"]]
  /\ filed = [c \in Card |-> {}]
  /\ library = {}
  /\ jobmap = [a \in AJob |-> [card |-> NoCard, epoch |-> 0]]
  /\ released = {}
  /\ addon = [a \in AJob |-> NotListed]
  /\ boot = 1
  /\ asked = {}
  /\ news = {}
  /\ tick = TickIdle
  /\ queue = <<>>
  /\ pump = PumpIdle
  /\ await = {}
  /\ swap = SwapIdle
  /\ dropping = {}
  /\ discard = NoDiscard

Tick ==
  \/ TickList \/ TickListFails
  \/ \E a \in AJob : Mirror(a)
  \/ TickRelease
  \/ MirrorDone(FALSE)
  \/ "sweep" \in Events /\ MirrorDone(TRUE)
  \/ \E c \in Card : Stranded(c)
  \/ \E stale \in SUBSET Active : StrandedDone(stale)
  \/ \E c \in Card : OrphanAsk(c)
  \/ OrphanAnswer \/ OrphansDone
  \/ \E overdue \in SUBSET Cancelling : TickCancels(overdue)

Pump ==
  \/ PumpStart
  \/ \E i \in Item : PumpFetch(i)
  \/ PumpNothing \/ PumpOrganize \/ PumpIndex \/ PumpScan \/ PumpRelease

Addon ==
  \/ \E a \in AJob, i \in Item : AddonProgress(a, i)
  \/ \E a \in AJob : AddonFinish(a)

Submit ==
  \/ \E a \in AJob : SubmitAlbum(a)
  \/ \E c \in Card : SubmitUrl(c)
  \/ \E w \in await : AlbumAnswer(w) \/ UrlAnswer(w) \/ SubmitFails(w)
  \/ \E w \in await, a \in AJob : UrlAccepted(w, a)
  \/ \E c \in Card : Supersede(c)

Route ==
  \/ \E c \in Card : CancelUnowned(c) \/ Cancel(c) \/ RemoveStart(c) \/ RemoveRows(c)
  \/ \E c \in Card : DiscardStart(c) \/ ResourceStart(c)
  \/ DiscardDelete
  \/ ResourceCancel \/ ResourceRefused \/ ResourceRecord \/ ResourceRecordGone
  \/ \E a \in AJob : ResourceCreate(a)

Next == Tick \/ Pump \/ Addon \/ AddonRestart \/ Submit \/ Route \/ HygienePass \/ Crash

Spec == Init /\ [][Next]_vars

\* The interval timer, the pump and the addon keep going; the idle limits of the
\* orphan check and of the cancel sweep are reached again and again.
Fairness ==
  /\ WF_vars(Tick) /\ WF_vars(Pump) /\ WF_vars(Addon)
  /\ SF_vars("sweep" \in Events /\ MirrorDone(TRUE))
  /\ SF_vars(StrandedDone(Active) /\ Active # {})
  /\ SF_vars(TickCancels(Cancelling) /\ Cancelling # {})
  /\ SF_vars(ValveAll)
  /\ \A c \in Card : WF_vars(RemoveRows(c))
  /\ WF_vars(ResourceCancel) /\ WF_vars(ResourceRecord) /\ WF_vars(ResourceRecordGone)
  /\ WF_vars(DiscardDelete)
  /\ WF_vars(\E a \in AJob : ResourceCreate(a) \/ ResourceRefused)
  /\ WF_vars(\E w \in await : AlbumAnswer(w) \/ UrlAnswer(w))
  /\ WF_vars(\E w \in await, a \in AJob : UrlAccepted(w, a))

FairSpec == Spec /\ Fairness

-------------------------------------------------------------------------------
(* Properties *)

TickType ==
  [pc : TickPc, listed : [AJob -> AddonJob], batch : SUBSET AJob,
   handled : SUBSET Card, sel : SUBSET Card, ask : Card \union {NoCard},
   del : AJob \union {NoJob}]

QueueType == [card : Card, a : AJob, snap : AddonJob]

PumpType ==
  [pc : PumpPc, card : Card \union {NoCard}, a : AJob \union {NoJob},
   snap : AddonJob, todo : SUBSET Item, batch : SUBSET Item]

\* Every variable of the pipeline holds a value of its kind.
TypeOK ==
  /\ job \in [Card -> Card_Row]
  /\ row \in [Card -> Rows]
  /\ filed \in [Card -> SUBSET RowKey]
  /\ library \subseteq Item
  /\ jobmap \in [AJob -> [card : Card \union {NoCard}, epoch : 0..MaxEpoch]]
  /\ released \subseteq AJob
  /\ addon \in [AJob -> AddonJob]
  /\ boot \in 1..MaxEpoch
  /\ asked \subseteq AJob
  /\ news \subseteq AJob
  /\ tick \in TickType
  /\ queue \in Seq(QueueType)
  /\ pump \in PumpType
  /\ await \subseteq Request
  /\ swap \in [pc : SwapPc, card : Card \union {NoCard}, titles : SUBSET Item,
               old : AJob \union {NoJob}, new : AJob \union {NoJob}]
  /\ dropping \subseteq Card
  /\ discard \in [card : Card \union {NoCard}, titles : SUBSET Item]

\* "An Error card always states a reason" (#749): whichever of the pump, the
\* tick, the routes and the hygiene closed a card as failed, and whatever
\* cleared its error before, the error text is there.
ErrorStatesReason == \A c \in Card : job[c].state = "failed" => job[c].err

\* A card that says done holds a delivered title, and nothing on it moves.
DoneMeansDelivered ==
  \A c \in Card : job[c].state = "done" =>
    /\ Has(row[c], "scanned")
    /\ \A k \in RowKey : row[c][k] \notin InFlight

\* Releasing a job makes the addon delete its bytes (#1052): core releases one
\* "after full ingest", when the card it mirrors into, if it is still there, has
\* every file the addon holds for it, bar titles handed to another peer.
FullIngestFirst ==
  [][\A a \in released' \ released : LET c == jobmap[a].card IN
       c # NoCard =>
         \A i \in Ready(addon[a]) :
           Live(job[c]) /\ row[c][<<a, i>>] # "superseded" => <<a, i>> \in filed[c]]_vars

\* What landed stays landed: no report of the addon, verdict, orphan check or
\* cancel takes a delivered row back; only the 24 h valve gives one up.
LandedStays ==
  [][\A c \in Card, k \in RowKey :
       /\ row[c][k] = "scanned" => row'[c][k] \in {"scanned", "none"}
       /\ row[c][k] = "organized" =>
            row'[c][k] \in {"organized", "scanned", "failed", "none"}]_vars

\* A row handed to another peer is never written again (#1065), however late
\* the abandoned peer reports or delivers (in one life of the addon).
SupersededInert ==
  [][\A c \in Card, k \in RowKey :
       row[c][k] = "superseded" => row'[c][k] \in {"superseded", "none"}]_vars

\* A cancel that the grace sweep closed stays closed "while the addon still
\* lists the job" (#806).
CancelHolds ==
  [][\A c \in Card, a \in AJob :
       /\ job[c].cancel /\ job[c].state = "failed"
       /\ jobmap[a].card = c /\ addon[a].st = "active"
       => job'[c].state # "active"]_vars

\* An addon job no card mirrors yet is still ahead of the poll cursor, whatever
\* crashed between the listing and the commit of the cursor.
NoJobLost ==
  \A a \in AJob : Listed(a) /\ jobmap[a].card = NoCard => a \in news \union tick.batch

\* The addon job behind a card removed while it was running is released, even
\* if the request of the remove route never reached the addon (#1081).
RemovedJobReleased ==
  \A a \in AJob :
    jobmap[a].card # NoCard /\ addon[a].st = "active"
      /\ job[jobmap[a].card].state = "removed" ~> ~Listed(a)

\* A live card is worked off: it does not stay active for ever, whatever the
\* addon lost and however late the rows move.
CardSettles == \A c \in Card : job[c].state = "active" ~> job[c].state # "active"

-------------------------------------------------------------------------------
(* What the repository says of the pipeline and the code does not keep      *)

\* docs/download-pipeline.md:1652: "there is exactly one row and it is the one
\* the poller updates": no two cards carry the same addon job.
OneCardPerJob ==
  \A c, d \in Card :
    Live(job[c]) /\ Live(job[d]) /\ job[c].ref = job[d].ref /\ job[c].ref # NoJob => c = d

\* "Marker FIRST: a fileReady item mid-flight on the poller must not land
\* after": once the discard request is over, nothing of the card is filed.
DiscardHolds ==
  [][\A c \in Card : job[c].discarded /\ discard.card # c =>
       filed'[c] \subseteq filed[c]]_vars

\* "Close it honestly instead": a URL card the user cancelled while the addon
\* was being asked stays closed (the instance closes it in no other way).
CancelledUrlStaysClosed ==
  [][\A c \in Card : job[c].url /\ job[c].state = "failed" =>
       job'[c].state # "active"]_vars
=============================================================================
