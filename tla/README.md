# TLA+ models of NicotinD

NicotinD is a self-hosted music library: an API server (Bun, SQLite) acquires music
through external *acquisition addons*, files it into a library, enriches and streams it, and
lets devices of one user control each other's playback. This directory holds TLA+ models of
the parts of that server where several activities work on the same state, the TLC runs that
check them, and machine-checked proofs about them. Paths below are relative to
`packages/api/src/` of the repository unless they start with `packages/` or `docs/`.

Contents: [Inventory](#inventory) · [The pipeline](#the-acquisition-pipeline) ·
[The slot pool](#the-ffmpeg-slot-pool) · [Remote playback](#remote-playback) ·
[Tag writes](#tag-writes) · [Getting an album](#getting-an-album) · [The library scan](#the-library-scan) ·
[The library import](#the-library-import) ·
[Runs](#runs) · [Bounds](#bounds) · [Fairness](#fairness) · [Proofs](#proofs) ·
[Divergences](#divergences-between-code-and-documentation) · [Not modelled](#what-is-not-modelled) ·
[What is left](#what-is-left)

## Inventory

| Part | State | Operations | What is hard about it |
| --- | --- | --- | --- |
| Acquisition pipeline: `services/acquisition-job-store.ts`, `services/addons/job-poller.ts`, `routes/downloads.ts`, `routes/acquire.ts`, `services/album-acquire.ts` | cards (`acquisition_jobs`), their items (`acquisition_job_items`), `plugin_kv` (job map, release stamps, poll cursor), the in-memory ingest queue | poll, mirror, ingest, release; submit, cancel, remove, discard, re-source; boot hygiene | the poll, the ingest pump and the routes interleave at every `await`; the addon acts on its own; requests, answers and whole processes are lost |
| FFmpeg slot pool: `services/ffmpeg-slots.ts` | two counters, two queues, an async-context token | `run`, `release` | nested calls could deadlock; a release must serve two classes fairly |
| Remote playback: `services/websocket.ts`, `services/playback-state.ts`, `packages/core/src/remote-playback.ts`, the web client's `remote-playback.service.ts` and `playback-ws.service.ts` | one session and device list per user, pending releases, connections; each client's mirror of them and its player | register, beat, report, command, cast, claim, release, update, close; the client's reducer and its forwarding effects | reconnects inside a grace, sockets closing late, claims racing timers, effects that run after several frames |
| Coalesced library sync: `services/coalesced-run.ts`, `services/library-sync-cycle.ts` | the current and the trailing run | trigger | the gap between the end of one run and the start of the next |
| Scanner and deletion: `services/library-scanner.ts`, `services/library-deletion.ts` | files, `library_songs`, the turns of `exclusive()`, unreadable folders | full scan, re-bucket, reconcile of an album, delete | walks, reads and builds await while files land, change and go |
| Library processing: `services/library-processing.service.ts`, `services/enrichment/`, `services/audio-tags.ts` | busy flag, `library_pending_tag_writes`, temporary files | tick, run now, post-scan nudge, enqueue, flush, rewrite a file | an edit during a write, a switch-off, a restart, two rewrites of a file |
| Album guard: `holdAlbum`, `findActiveAlbumJob` in `services/acquisition-job-store.ts`; `services/album-acquire.ts`, `routes/discography.ts`, `routes/downloads.ts` | albums held in memory, active cards per album, the addon's jobs | look up, hold, ask the addon, write the card, supersede | every lane reads first and writes last, some know an album by id, some by name |
| Watchlist, auto-acquire: `services/watchlist.service.ts`, `services/auto-acquire.service.ts` | wanted albums | sweep, arm, remove | a row changes while its album is being acquired |
| Hunt queue: `services/hunt-queue.ts` | entries, waiting list, the active hunt | enqueue, pump, evict | nothing that is in use: nobody joins or cancels a hunt |
| URL acquire watcher: `services/acquire-watcher.ts` | `acquire_jobs`, running set | submit, retry, run, cancel, delete | dormant: no resolver is registered in process any more |
| Transcode cache: `services/transcode-cache.ts` | files, in-flight map, pins | resolve, prune, pin | prune between the answer and the pin |
| Addon management: `services/addons/` | registrations, breaker counters | enable, trip, reset | none that interleaves |
| Import: `services/library-import.service.ts`, `services/import-job-store.ts` | `import_jobs`, `import_job_dirs`, the source, a staging directory per job | submit, retry, cancel, delete; stage, organize, scan, remove originals, roll back; boot recovery | originals are renamed away before anything is known to have landed; a run may be cut off anywhere, and again during its recovery |
| Organizer: `services/library-organizer.ts` | files | move | file-system failures; the pipeline and the import see their outcomes |
| Everything else (metadata, radio, Lidarr, backups, HTTP, web UI, sidecars, shells) | see `components` in `PROJECT.json` | | |

How they interact: the routes create cards and ask the addon for a job; the poller polls the
addon and mirrors its jobs into the cards; the pump hands finished files to the organizer and
the scanner, and tells the addon to delete the job; organizer, enrichment, analysis and
streaming run their children in the slot pool; the watchlist, the missing-list loop, the catalog
and the folder browser enter the pipeline through the album guard; what lands is reconciled into
`library_songs`, a delete takes its own row, an edit or a fix re-buckets or reconciles what it touched, and a full
sync runs at boot, on request, in maintenance, and where a re-bucket could not; the tags that enrichment
and curators write go back into the files a scan reads. Playback is a protocol of its own between
the API and the clients.

What makes each part correct, in short: a card tells the truth about its files, nothing that
landed is lost, nothing is taken on after a cancel, every card is closed (pipeline); the cap
holds, a listener never waits for batch work, nobody waits for ever (slot pool); one device is the
output for the server, only an output that cannot be driven is taken over, and every client that has
heard the server agrees with it (playback); one album is one live card and one download (album guard); what the database holds reaches
the file (tags); a song that is there keeps its row, or a better copy of it has one, and a sync sees what came before it (scan); no
original is lost, and every import comes to an end (import).
`hazards` in `PROJECT.json` lists, line by line, what could go wrong and which property would
notice.

## The acquisition pipeline

`AcquisitionStore.tla` is the pure half, without variables: what one card becomes when its
rows move (`recomputeStage`, `createJob`, `attachAddonRef`, `failReservedJob`,
`cancelUnownedJob`, `failOrphanedJob`, `supersedeItems`, ...). Every writer goes through it, as
in the code. A card is a record; its rows are a function from `<<addon job, item>>` to a state.

`AddonPipeline.tla` composes it with the poller, the pump, the routes, the addon and the
process. An action is a maximal run of code between two `await`s on something that can change
the model's state:

| Variable | In the code |
| --- | --- |
| `job`, `row`, `filed` | `acquisition_jobs`, `acquisition_job_items`, rows with a `relative_path` |
| `library` | titles with a `library_songs` row |
| `jobmap`, `released` | `plugin_kv` entries `jobmap:<id>` and `released:<id>` |
| `addon`, `boot`, `asked` | the addon's job store, which life of its process this is, cancels it received |
| `news` | jobs whose `updatedAt` is past the poll cursor |
| `tick` | the poll in progress: the jobs as listed, the sweep's selection, the job being asked for |
| `queue`, `pump` | `ingestQueue` and the `finishJob` in progress, with the snapshot it works from |
| `await`, `swap`, `dropping`, `discard` | requests between two of their awaits |

| Actions | Code |
| --- | --- |
| `TickList`, `Mirror`, `TickRelease`, `MirrorDone` | `pollAddon`: list, `mirrorAddonJob` per job (with `ensureCoreJob`, `mirrorItems`, `releaseRemovedJob`, `applyAddonOutcome`), `deleteJob`, cursor |
| `Stranded`, `OrphanAsk`, `OrphanAnswer`, `TickCancels` | `ingestStrandedJobs`, `reconcileOrphanedJobs`, `sweepStaleCancels` |
| `PumpStart`, `PumpFetch`, `PumpOrganize`, `PumpIndex`, `PumpScan`, `PumpNothing`, `PumpRelease` | `pumpIngest`, `finishJob`, `ingestReadyItems`, `maybeReleaseAddonJob` |
| `SubmitAlbum`, `AlbumAnswer`, `SubmitUrl`, `UrlAccepted`, `UrlAnswer`, `SubmitFails`, `Supersede` | the two lanes: the album lane writes the card after the addon answered, the URL lane before it is asked |
| `CancelUnowned`, `Cancel`, `RemoveStart`, `RemoveRows`, `DiscardStart`, `DiscardDelete` | the routes on a card |
| `ResourceStart`, `ResourceCancel`, `ResourceCreate`, `ResourceRefused`, `ResourceRecord`, `ResourceRecordGone` | `POST /downloads/jobs/:id/resource` |
| `HygienePass`, `ValveAll` | `reconcileOnBoot`: rescue of organized rows, 24 h valve, cards without rows, prune |
| `AddonProgress`, `AddonFinish`, `AddonRestart`, `AddonCreate`, `AddonDrop` | the external addon, as far as core's use of the protocol shows it |
| `Crash` | the process dies: everything in memory is lost, the database stays |

Abstractions. Times are choices: a card may or may not be past an idle limit
(`StrandedDone(stale)`, `TickCancels(overdue)`, `Hygiene(quiet, ghosts, expired)`), a
mid-pipeline state may or may not have stalled for 30 minutes (`aged`). Error texts are a flag:
there is one or there is none. `createdAt` of an addon job is the life of the addon that issued
it. The organizer and the scanner are their outcomes, and only the scans of the pump fill
`library`: the periodic scan of everything would only index files earlier. `Events` names the faults and requests an
instance may meet, so that each run can afford two titles, two cards or two addon jobs.

Names ending in a suffix (`MayRelease_Eager`, `Crash_CursorFirst`, ...) are plausible slips in
that code. No action uses them; `PROJECT.json` lists, for each property, the slip that breaks it.

## The ffmpeg slot pool

`FfmpegSlots.tla` follows `services/ffmpeg-slots.ts` statement by statement: `CallNested`,
`CallStarts` and `CallWaits` are the three ways through `run`, `Start` the microtask behind a
granted promise, `Finish` the settling of held work with `release` and its two loops, and
`FinishNested` the settling of nested work. The loops are written in closed form: the
interactive one hands out as many slots as there are free ones or waiters, the batch one what is
left within its own cap. The async-context token is live exactly while the call that took the
slot is in progress, because every caller in the repository awaits the nested work it starts;
work that outlived its slot carries a released token and queues like any other call.

## Remote playback

Five modules, from the promise to the sockets.

`PlaybackSession.tla` is the abstract shared session: an output, a song, which devices can be
driven now. The output moves by a claim over an output that cannot be driven, by a cast to one
that can (the song goes on), or goes when the session ends.

`PlaybackState.tla` is `PlaybackStateManager` without variables: every method is an operator from a
manager record to a manager record, with what it emits appended to `out`. `PlaybackHub.tla` is
`createPlaybackHub` over it: one action per frame (`OnRegister`, `OnStateUpdate`, `OnCommand`,
`OnClaimOutput`, ...), the close of a socket, the release timer, the stale sweep, the idle clock
and the reset route. The handlers do not await, so a frame is one action. `HubSpec` lets any
client send any frame at any time over any socket, which is what its proofs are about;
`SessionImplemented` maps its state to `PlaybackSession`.

| Variable | In the code |
| --- | --- |
| `mgr` | the user's `PlaybackStateManager`: session, devices with their flags, pending releases; `stale` and `idle` stand for clocks past their limits |
| `conn` | `connections`: what each socket registered with |
| `down`, `up`, `dead` | frames on their way either way, sockets whose path is broken |
| `cl` | per device `RemoteClientState`, the parts of the player both sides use, what the effects have seen |
| `sock`, `off` | each client's live socket, closed tabs |
| `refused` | history: devices whose last cast was refused in silence |

`RemoteClient.tla` is the web client: `reduceServerMessage` with its player effects, and the three
Angular effects that forward local changes (`Flush`), which run some time after the frame that
caused them, or after several. `RemotePlayback.tla` puts a client at the end of every socket: it
delivers frames in order, cuts paths (a suffix of what was sent and all that was under way are
lost, and each end notices on its own), and lets the users play, pause, pick, edit, skip, cast,
opt out, leave and come back. Queue contents are opaque, so Next may lead to any other track.

## Tag writes

`TagWrites.tla` follows one song's values from the database into its file: tasks fill a field and
queue it (`enqueueTagWrite`), the run ends with `flushPendingTagWrites`, and a curator's
`mutateSongGenre` rewrites the same file on its own. A rewrite copies the file to
`<file>.nicotind.tmp` and renames it; `tmp` is the set of rewrites that write the file now at that
name, so that two of them can spoil each other exactly as two ffmpeg children on one path do.
`slots` is the number of batch slots of the host, `unwritten` a history variable: fields whose
last rewrite is known to have failed or was killed with the process.

## Getting an album

`AlbumGets.tla` has the lanes that get an album, all after the same one: `acquireAlbum` (watchlist,
missing-list loop, retry of a card), `hunt-download` and the grab of a peer's folder. A target is
the set of facets it names the album by, its Lidarr id and its artist and title, and two targets
match when they share one.

| Variable | In the code |
| --- | --- |
| `at`, `hold`, `replace`, `answer` | the locals of a request: what it awaits, what it holds in `heldAlbums`, `?replace=true`, the addon's answer on its way |
| `card` | `acquisition_jobs`, oldest first: the addon job a card names (`source_ref`, `jobmap`), its target, its state |
| `job`, `key` | the addon's jobs, and which of them the idempotency key `acquire:<id>` replays |
| `onDisk`, `watch` | the album is complete in the library; the state of its watchlist row |
| `lost`, `parted` | history: jobs whose answer core never got; jobs a card of which closed while they ran, was removed or reopened |

`Enter`, `HuntNamed` and `Supersede` are the guard; `AddonCreates` is the addon, modelled from its
use: it replays by key, refuses an album that is active under the same name, or mints. `RowWritten`
inserts a card, as `createJob` always does, whatever other cards there are. The cards then live on
their own: `PollerMints` inserts one for any active job that none names, also while the route's answer is on its
way; `CardCloses` is the grace sweep of a cancel, the 24 h valve, or the last item, and may come
while the job runs; `CardReopens` is `recomputeStage` on a card whose items move again; `CardRemoved` and
`UserCancels` are the routes, whose call to the addon may come to nothing; `PollerReleases` cancels the job
behind a removed card. `AddonPipeline` has the same cards in detail and starts where a lane asks the addon.

`OneRow` is about the cards of two jobs, and `OneDownload` about two jobs. Neither says that one *job* has one live
card: the poll before the route's insert, and a replayed answer, give it two, which is what the `twin` run shows. Both
name what they except: a job whose answer was lost, or whose card closed on its own, is one the guard
does not know of any more; the addon's conflict still keeps a second download out, unless one of the two is a grab
or has no name (`Unguarded`). TLC finds a counterexample to either property when any of its exceptions is left out.

## The library scan

`LibraryScan.tla` has the files and their rows: `coalescedRun` around the full scan, the turns of
`exclusive()` that full scans and re-buckets take, and the reconcile of a landed album, which
takes none. A file's content is a version of its tags; a row carries the version it was built from
and the version of the curator's authority. `stage`, `todo`, `found`, `read`, `loaded`, `known` and
`broken` are the locals of the scan under way, `fresh` the rows whose `synced_at` is later than its
start, `album` the locals of a reconcile.

Every build keeps one file per album, disc and title (`Selected`, after `selectLibraryTracksDetailed`): a file
with a better copy gets no row, and a full scan takes the row it had, although the file is there. Which files
are copies of one track, and which copy is better, is decided by titles, tracklists, overrides, formats and paths;
the module takes both as constants, `TrackOf` (of a file, its tags, the authority and whether the library knows the file,
which is what the tracklist's pull depends on) and `Rank`, so that what it shows and what is proved holds for every such rule.

`seen`, `missed` and `outdone` are history: the files nothing else
touched since a caller asked for its sync, those whose last look failed, and those that the last build that read them
passed over for a better copy. What the properties say of a passed-over file is what the code promises of
it (`library-track-select.ts:107-110`, `library-scanner.unindexed.test.ts:81-123`): it stays on disk without a row
(`Indexed`), a scan that takes its row writes the better copy's (`NoSongLost`, `SyncObserves`), and
until a full scan does, a row it still has may keep an older fix (`FixHolds`). Of the sync cycle
only the scan is modelled; what follows it (reclassification, back-fills, the enrichment nudge)
touches none of this and only makes a run longer.

## The library import

`LibraryImport.tla` follows one source through `run` and `runChunk`: the folders still to do are
staged in chunks of the module's choosing, track by track, organized, scanned, and then the originals whose
staged copy is gone are removed. `kind` is what the source is: a folder on the device of the
staging directory, whose tracks are *renamed* into it in move mode, one on another device, whose
tracks are *copied*, or an *archive*, whose tracks are extracted and which can only be removed as a
whole. All jobs import the same source, one after the other, since a second is refused while one runs.

| Variable | In the code |
| --- | --- |
| `source`, `staged`, `landed` | the originals; what is under `staging/import/<id>`; what the organizer filed, or found to be filed |
| `imports` | `import_jobs` (state, `remove_originals`) with the folders `import_job_dirs` marks done |
| `worker` | the locals of `run` and `runChunk`: folders to do, the chunk, tracks to stage (`rest`) and staged (`taken`), `chunksRun` (`ran`), whether a chunk succeeded (`filed`), whether nothing failed (`clean`); or the constructor's recovery |
| `cancels` | `cancelRequested` |
| `torn` | history: a crash cut a recovery short with files still away from home |

The organizer is its outcomes (`Place`): a track is filed, dropped because the library has it, filed
although the staged copy could not be unlinked, or left behind. `ImportCrash` stops any step, the
file-by-file rollback of the boot (`Restore`) included. The modules do not say when an import's files
reach `library_songs`; that is `LibraryScan`.

## Runs

`PROJECT.json` names the properties of each run and the slip in the code that breaks it; each run
finishes within five minutes on two cores, `library` taking the longest, some three. Beside the properties of the table, each run that passes
checks the type invariants of its modules; those of the tag writes and of the album lanes also say
what is held and awaited exactly when (`TagTypeOK`, `GetTypeOK`).

| Run | Instance | Shows |
| --- | --- | --- |
| `ingest` | one album job, two titles; late files, failed fetches, organize and scan steps, failed deletes, refused and lost submits, crashes, rescue, discard, stalls | a `done` card delivered something (`DoneMeansDelivered`); no job that core has not seen falls behind the cursor (`NoJobLost`); the addon's bytes go only after full ingest (`FullIngestFirst`); what landed stays (`LandedStays`) |
| `cancel` | URL lane, two cards; cancels, refusals, late listings, addon retries and errors, valve, replace, prune, failed polls | an Error card states a reason (`ErrorStatesReason`); a cancel closed by the grace sweep stays closed while the addon still runs the job (`CancelHolds`) |
| `resource` | two addon jobs on one card; removal during the request | rows handed to another peer are never written again (`SupersededInert`) |
| `settles` | fair; restart, unreachable addon, cancel, remove | every card is closed; the job behind a removed card is released (`CardSettles`, `RemovedJobReleased`) |
| `remote` | two devices, three sockets, two user acts or faults out of thirteen kinds, with and without a session under way | the hub implements the shared session (`SessionImplemented`); the device list has no ghost (`NoGhosts`); a client agrees with the server as soon as nothing is under way between the two (`ClientsAgree`); nothing starts to play because a session ended (`NoWakeup`) |
| `turns` | fair; see below | slots: caps, counters, no idle slot, listeners first, nobody waits for ever (`SlotsRespected`, `NestedUnderSlot`, `NoIdleSlot`, `InteractiveFirst`, `InteractiveServed`, `BatchServed`); tags: what the database holds reaches the file or is known to have failed (`Mirrored`, `KeptUntilMirrored`), the queue drains with enrichment off (`QueueDrains`); every sync asked for is answered (`SyncAnswered`); every import ends, also when its process died (`ImportSettles`) |
| `library` | see below | the live cards of two jobs name two albums, and an album has one download (`OneRow`, `OneDownload`); no scan takes the row of a file that is there unless it writes a better copy's (`NoSongLost`), every file has a row once all is done, but for the copies passed over (`Indexed`), no scan has the last word over a curation fix (`FixHolds`), a sync sees what came before it (`SyncObserves`); an import loses no original of a folder (`OriginalsKept`) |
| `twin`, `bytes`, `discard`, `url`, `archive` | expected violations | see [Divergences](#divergences-between-code-and-documentation) |

`MCTurns` and `MCLibrary` hold several components that share no state. A variable `focus`, chosen
at the start and never changed, says which of them moves in a behaviour, so that their state
spaces add up instead of multiplying and one run asks the questions of all. Fairness is stated per
focus: `WF(focus = "tags" /\ Tick)` in a behaviour that moves the tags is `WF(Tick)`, and in any
other is vacuous. In `turns` the foci are three interactive and three batch calls for two slots, two
of them nested; two fields of a song, one of them curated, on hosts with one and two batch slots,
with one crash, failed rewrite or throwing task; two callers of the sync with one file; and an import of
one renamed track. In
`library` they are a watchlist row, a hunt and a grab of one album with two addon jobs, cards of both, and one
lost answer or one job whose card closes, reopens or is removed on its own; two files in one folder, which a fix makes
copies of one track, with a caller, a re-bucket, a reconcile and one crash,
throw or unreadable folder; one file that is retagged under two callers; and a job that imports two folders
of one track each, of every kind.

In `ingest` the stranded sweep is off, and in `ingest`, `resource` and `settles` a listing does not
fall into the window between an accepted request and its record: together with the `bytes` and
`twin` runs they say exactly which interleaving breaks the property that the others show to hold
without it.

## Bounds

One or two titles, one or two cards, one or two addon jobs, one addon with at most two lives
(`MaxEpoch`). Two titles are needed where a job can be complete for one and not for the other
(`ingest`, `bytes`), two cards where a job can meet a second card (`twin`, `cancel`),
two jobs where one card has two owners (`resource`). `Room` lets the addon accept a job only
while every job that may need a card can still get one: cards are never used up in the program.
One discard, one re-source and one request per link are in flight at a time; the routes do not
exclude two discards of one card, whose second run finds nothing to do. The slot pool is checked
with the smallest legal size, two, where batch work owns one slot and every wait is reachable. An
addon that restarts and reissues ids is part of `settles`; that no job is lost then is not checked
by a run but proved (`CursorLosesNothing`).

In `remote` two devices are a controller and an output, and three sockets let one of them hold two
at a time, the dead one and its successor; with two acts a session can be started, or taken over
from the one that runs at the start, and disturbed. Everything the devices and the hub do on their own,
frames, effects, beats, reconnects, closes, graces and sweeps, is unbounded. In `library` two jobs are the least that can be
one too many, and `MaxJobs` only stops the addon from minting a third; a hunt, a grab and an
acquire are one request of each way of guarding, each made again while there is room for its card
(`MaxCards`; the poller's own cards come on top, so that three are reached). When there is none left a behaviour may rest
(`GetsOver`). `MaxApart` is one: one job whose answer is lost or whose card parts from it. `GetBounds` keeps two
things apart from that, an album complete on disk and a failed watch, and lets one card be removed. The retry lane is
empty in the run and part of the proofs. Two files in
one folder are the least for a folder that is read while one of them goes and for a copy that stands in for another; two versions of a file
let a scan hold an older one than a reconcile. A path that a delete has freed is filled again only
while nothing scans (`freed`): paths carry the song's name, and the same song is not downloaded
again within seconds. An import needs two folders to be cancelled
between chunks and retried with one done; its crashes, failures and retries are unbounded, and other
numbers of jobs and tracks are covered by the proof. `MaxFaults`, `MaxMisses` and `MaxApart` are one: each property is stated across
one failure and everything that follows from it.

## Fairness

`Spec` is the next-state relation alone and serves every safety run. `FairSpec` of the pipeline
assumes that the interval timer, the pump and the addon keep taking steps (weak fairness of
`Tick`, `Pump` and `Addon` as a whole, never of a particular outcome); that requests in flight
are answered; and that the clock reaches the limits of the stranded sweep, the orphan check, the
cancel grace and the valve again and again (strong fairness, because the pass that meets the
limit is enabled once per poll). A poll that always fails, an addon that never finishes or a
request that hangs for ever is outside the assumption. `FairSpec` of the slot pool assumes that
granted waiters' microtasks run, that children end, and that work in a slot asks for finitely
many nested children (strong fairness of `Finish`). `TagFairness` assumes that the 60 s interval
ticks, that the awaited steps of a run go on and that ffmpeg children end; it says nothing of
enrichment being switched on. `LibFairness` assumes that the scan at the head of the queue goes on
to its end, each folder and file being an awaited step of its own, and that the microtask behind a
settled run starts the trailing one. `ImportFairness` assumes that
an import's loop takes its next step, since it awaits nothing but its own work, and that a process that
died is started again. Nothing is assumed of callers, edits or crashes. The playback
modules state no fairness: their properties are about settled states and steps.

## Proofs

Checked by TLAPS for every value of the constants that satisfies the named assumptions.

`AddonPipelineProofs.tla` assumes `NoJobAssumption` and `PipelineAssumption`: "no job" and "no card"
are not ids, the addon has at least one life, and the stalled states are mid-pipeline states. It
begins with the lemmas about the operators of `AcquisitionStore`, where the arithmetic of
`recomputeStage` is isolated (`Recompute`, `StageOf`, the two outcomes).

- `TypeCorrect == Spec => []TypeOK`.
- `ReasonAlwaysStated == Spec => []ErrorStatesReason`: a card that shows an error states why
  (issue 749 of the repository). The property is not inductive. It depends on facts about cards
  in the middle of a request, which the invariant `IInv` adds: the pump and the queue name cards
  and jobs that exist while they work on them (`Working`), a card's fields are consistent with
  its state (`SoundCard`), and a job map entry points to a card that was written (`Linked`). Each
  action then has one lemma per conjunct it disturbs.

`DeliveryProofs.tla` builds on that invariant:

- `DeliveryKept == Spec => LandedStays`. Every writer but one spares a delivered row by the states
  its SQL selects; the organizer writes its batch after its awaits, whatever the rows say by then.
  `Delivered` adds why that is harmless: a delivered row has been filed, and no row of the batch
  in hand has, because only the pump files rows and it works on one card at a time.
- `DoneIsDelivered == Spec => []DoneMeansDelivered`. A card becomes `done` where its rows are counted, and
  keeps that state while other writers move them. The invariant (`AllSettled`) is that a card that says `done` has a
  delivered row and none in flight; it needs `Delivered` and `IInv` for the steps that write rows and card apart.
- `CursorLosesNothing == Spec => []NoJobLost`. `NoJobLost` would admit a job the mirror loop
  passed without mapping it, which the commit of the cursor then loses; `Ahead` says that such a
  job is still before the loop.

`FfmpegSlotsProofs.tla` assumes `SlotsAssumption`: finitely many calls, disjoint classes, at
least two slots (the constructor refuses less).

- `SlotsTyped`, `SlotsHeld`, `WorkConserving`, `NestedHeld`, `ListenerFirst`: all the safety properties of the
  `turns` run about the pool. The counters can be shown to count the holders only together with the facts that
  queued calls wait and stand in one place of one queue, and that no slot was idle before the
  step: the last is why a release grants at most one waiter (`ReleaseGrants`), the heart of the
  proof. `NestedAwaited` strengthens `NestedUnderSlot` with the reason, that the slot's work
  awaits the nested call.

`PlaybackHubProofs.tla` assumes `DeviceAssumption` and `TrackAssumption`, that "no device" and "no
track" are not ids, and that the empty queue is a queue. It is about `HubSpec`, where clients send what
they like, so its theorems hold whatever client is at the other end; only that a socket registers
once is assumed of it, which the next module proves of the web client.

- `HubTypeCorrect == HubSpec => []HubTypeOK` and `GhostFree == HubSpec => []NoGhosts`. Each operator
  of the manager has lemmas for what it lists and what it releases; the invariant relates the device
  list to the connection table, and it is inductive because a device leaves the table only
  through `OnClose`, which forgets it with its last socket, and the list only through `Forget`, which
  spares an output in its grace.
- `HubImplementsSession == HubSpec => SessionImplemented`: every action maps to a step of the
  abstract session or to a stutter. `away`, an output in its grace, is what makes it hold: a claim
  over it and its timer's end are different steps, and a timer left running by a claim ends nothing.

`RemotePlaybackProofs.tla` puts the clients back, and assumes `RemoteAssumption` as well: there are sockets enough
for every page to open with one of its own, and "no socket" is none of them.

- `RemoteTyped`, `RemoteGhostFree`, `RemoteImplementsSession`, `NoneWakes`: `Spec => []TypeOK` (a REGISTER is the first
  frame of its socket and the only one), `[]NoGhosts`, `SessionImplemented` and `NoWakeup`. `RemoteInv` joins the
  hub's invariant with what holds of the links (`Linked`: every socket has one owner, and registers before it says anything else), of the pages (`PageTypes`), and of closed tabs (`Silent`: no socket, no sound). Every action is then a step of the hub, of one page, or of both (`RemoteStep`, `PageStep`).
- `Agreement == Spec => []ClientsAgree`. The property speaks of the moment when nothing is under way, and nothing
  about that moment is inductive. `AllFollow` says what each frame under way is good for: the last device list on its way to a
  page shows the devices there are now, or its own list does (`Lists`); the last `STATE_SYNC` on its way shows the session there is
  now (`Tracks`), or the page is in step with it but for the claims, casts and queue edits it has itself under way
  (`InStep`), each of which is answered by a sync. A handler that changes the session or the list without
  telling everybody breaks it, and so does a page that shows what it was not told; the one handler that
  is silent, a refused cast, is what `refused` excepts.

`AlbumGetsProofs.tla` assumes `GetsAssumption` of `AlbumGets` (finitely many requests, their kinds
apart).

- `AlbumOnce == GetSpec => []OneRow`. A card is inserted at the end of a request, from what the
  request holds, long after its guard looked, and the poller inserts others at any time. What keeps the live cards of two
  jobs apart meanwhile is that two requests hold nothing in common (`Apart`), that no live card meets what a request
  holds, except of the job that is its own answer (`Clear`), and that every job core was told of, whose cards did not part from it, has a card
  or an answer on its way (`Told`) and only live or superseded cards (`Kept`). A card the poller mints then names no
  more than the request that waits for the job holds.
- `HoldsReleased == GetSpec => []GetTypeOK`: a request at rest holds nothing, whichever of its exits it took.
- `FetchedOnce == GetSpec => []OneDownload`. From the same invariant: two jobs that run and are not `Unguarded` are kept
  apart by their live cards (`Guards`, `GuardsApart`), or by the addon's conflict, which admits one active album job
  of a name (`AddonOne`).

`LibraryProofs.tla` assumes what `LibraryScan` and `LibraryImport` name of their constants (`ScanAssumption`: there are
files, finitely many, each in a folder, and `Rank` tells any two apart; `ImportAssumption`: folders are finite, not empty and apart).

- `ScanTyped == LibSpec => []LibTypeOK`: besides the types, a trailing sync is owed only behind a run under way.
- `RowsSpared == LibSpec => NoSongLost`. A prune acts on what its scan read, which may be long
  past. `InReach` says of every moment of a scan why the row of a file that is there will be spared: the scan has
  read the file, it still will, a reconcile stamped the row since the scan started, or a folder could
  not be read and nothing is pruned. A reconcile that walked before the scan started stamps
  nothing, so what it holds must be in reach too; `GoneFreed` says that what is remembered of a
  missing file was deleted through the program. A file in reach is built or has a better copy, and of the copies of one
  track the best is built (`BestBuilt`, from the well-order of `Rank`): so where the row of a file that is there
  goes, a better copy's is written by the same scan.
- `FixesHold == LibSpec => []FixHolds` and `FilesIndexed == LibSpec => []Indexed`. Both speak of what is still to
  come, so the invariant (`Follows`) names it: a file whose row lacks the fix, or that has none, is owed to or held by a
  reconcile, was missed by a look that failed or passed over by the last that read it, or has a turn behind the one under way, or is ahead of or in the hands
  of that one. A turn that ends then leaves nothing it did not look at (`EndsFollow`), and the last turn of
  the queue builds under the authority there is (`LoadsLast`): a fix always queues a turn behind it.
- `ScansObserve == LibSpec => SyncObserves`: a caller of the sync is answered by a scan that looked at every file
  as it was when the caller asked, and shows it or a better copy, however calls and runs overlap. For a caller who asked while a run was under way it is the trailing
  run that must have looked; the invariant (`Sees`) says of every moment of a run that it has read the files that nothing touched since one of
  its callers asked, or still will, unless it found a folder unreadable.
- `ImportsTyped == ImportSpec => []ImportTypeOK` and `OriginalsSafe == ImportSpec => []OriginalsKept`, for any number of
  jobs. `OriginalsKept` says that a
  track is home, filed, or staged by a job somebody will still roll back, which no step preserves on its own:
  `ImportInv` adds that exactly one row says running, the one the loop works for (`OneRun`), that what the
  loop took is staged until it is filed (`Taken`), and that a staging directory holds
  nothing but copies and what the loop took (`Copies`), so that emptying it loses nothing.

`TagWritesProofs.tla` assumes `TagAssumption` (finitely many fields, the curated among them, hosts with one batch slot or more).

- `TagsTyped == TagSpec => []TagTypeOK`, for any number of slots: a flush awaits its rewrite exactly while one of
  its is queued or in progress (`OneFlush`).
- `FileMirrors == TagSpec => []Mirrored` and `QueueKept == TagSpec => KeptUntilMirrored`, both stated for hosts with one batch
  slot. There the one rewrite in progress has the temporary file to itself (`Alone`); what keeps an older value from landing last is the order of the
  line: of the rewrites that carry a field, the newest in line carries what the database has (`NewestInLine`,
  `NewestWritten`), and a field that differs from the database is queued, in the line, or known to have failed (`Accounted`).

Only model-checked: `FullIngestFirst`, `SupersededInert` and `CancelHolds`, which the pipeline keeps only without certain
faults (the sweep breaks the first, as the `bytes` run shows; an addon that restarts and reissues ids, or a second cancel in flight, may
break the second, a missed scan, a crash, a discard or a re-source the third), so that they are no
theorems for every value of `Events`; and all liveness (the prover does not handle fairness with `ENABLED`).

## Divergences between code and documentation

Five runs end in a counterexample that contradicts a sentence of the repository; `findings` in
`PROJECT.json` quotes it and explains the trace.

- `twin` (`OneCardPerJob`): a poll between the addon's acceptance and the route's insert mints a second card.
- `bytes` (`FullIngestFirst`): the stranded sweep ingests a newer snapshot than the rows know, and the release
  deletes a delivered file no row names.
- `discard` (`DiscardHolds`): the pump reads the discard marker before its awaits and files tracks after it.
- `url` (`CancelledUrlStaysClosed`): a cancel while a URL is being submitted is undone by the addon's answer.
- `archive` (`ArchiveKept`): a run that could not stage a track still marks its folder done; when that run is
  then cancelled, or another folder fails, a retry skips the folder, counts no failure of its own, and removes
  the archive with the only copy of the track (`docs/import.md:147-148`).

Seen while modelling and reproduced by the model's actions, but without a run of their own:

- a job that was already terminal when its card was closed elsewhere is not released, although the comment
  at `job-poller.ts:578-579` expects it;
- `recomputeStage` may bring a failed card back to active when a row moves later;
- `released:<id>` is read before `getJob` is awaited, so our own release may look like a job the
  addon lost (`reconcileOrphanedJobs`);
- `mapAddonJob` is called without `createdAt` by the download, URL and re-source routes, which
  leaves a reissued id tied to the old card;
- an addon that keeps its jobs in memory may restart while the pump fetches and reissue the id of
  the job being fetched; if the card is then re-sourced twice before the fetch ends, the organizer
  files a row that was handed to another peer (the `resource` run has `MaxEpoch = 1`);
- after a discard a card with a ready item stays in `organizing` until the 24 h valve.

Of playback:

- a cast that the server refuses is not answered: the caster goes on showing the target, plays on beside
  the output, and learns better with the next `STATE_SYNC` (`ClientsAgree` excepts it);
- with three acts or faults two devices may go on sounding beside each other, against `docs/remote-playback.md:7` ("Only
  one of your devices makes sound at a time"): a claim that is lost with its link is not repeated, so after a reset of the session
  the former output plays on while another device, whose claim was cut, plays too; and when a device that plays is
  reset and picks again before its effects have run, they see no change and claim nothing. The clients then agree with the server,
  which knows of one output or of none; that one device sounds is therefore not among the properties;
- a claim, a release or an end of the session cancels a pending release without a new device list, so a client may
  think a device pending that is not (`ClientsAgree` asks for an inclusion only);
- a device that takes the output while there is no session keeps its own queue (`remote-playback.ts:322`), and a pause
  right after a play may overtake the claim's answer;
- a song picked on a controller is not forwarded when it is the last one the controller mirrored, although
  another was picked since (`remote-playback.ts:401`, against `docs/remote-playback.md:8-10`);
- a track shown by a `STATE_SYNC` and one picked before the effects have run are one change to them, so the
  pick is not forwarded.

Of albums, tags and the scan:

- a card may close while the addon goes on with its job (a cancel the addon did not get, the idle valve), or be
  removed when the addon cannot be told: a second get of the album is then let in, and if one of the two is a grab or
  a hunt Lidarr did not name, the album is downloaded twice (`Unguarded`; the poller releases the job
  behind a removed card later);
- a closed card that reopens, because an item moves again, may stand beside the card of a later get;
- of two copies of a track, deleting the one with the row leaves the other without one until the next full sync; when the
  better copy is deleted while a scan holds it, that scan takes the row of the lesser one and writes a ghost for the better;
- a reconcile or a re-bucket that passes a file over does not touch the row it had; it keeps its old tags and
  fix until a full scan takes it;
- a re-hunt retires the album's card before it tries to hold the album; refused then, it leaves a download
  that goes on behind a superseded card;
- a hunt while Lidarr is down holds the album by id only, and a grab by name does not meet it;
- a watchlist row is marked acquired when its album is in flight elsewhere, whatever becomes of that attempt;
- where the host has two batch slots an edit and a flush of one song share the temporary file and may lose or tear
  its tags, against `docs/library-processing.md:314-315`; `Mirrored` and `KeptUntilMirrored` are stated for one slot;
- a song deleted while a scan holds its tags is written back by the scan's persist and stays as a ghost row
  until the next full sync (against the comment at `library-deletion.ts:482-484`), and deleting the ghost may
  unlink a file of a similar name; an edit's row may likewise be overwritten by an older read until then;
- the trailing run of `coalescedRun` may follow a run that a later call started, so "one in flight" is exceeded for the
  callers, but `exclusive()` still runs the scans one by one.

Of the import:

- the boot fails the orphaned job before it takes its files home (`library-import.service.ts:223-227`); a crash in
  between leaves renamed originals in a staging directory nobody looks at, until a delete, a prune or the end of a retry
  removes them: `OriginalsKept` excepts it (`torn`), against `docs/import.md`'s boot that "renames survivors home before
  removing staging";
- a rollback that cannot rename a file logs it, and the directory is removed with the file in it;
- in move mode on one device an original is gone for good once the organizer has filed it, which is before its chunk is scanned;
- an import of a browser upload can never be retried: its source lies in the data directory, which `retry`'s check refuses.

## What is not modelled

Of the pipeline: the retry route (a submit followed by a remove), rows without an owner from
older databases, playlists, the shortcut that copies from a local incoming folder, several addons
at once, and a cancel that meets a re-source of the same card (both are modelled, no run combines
them). Holds and idempotency keys are in `AlbumGets`, where a card is its state only. The rows that `createJob` seeds
for the files of a grab or an album appear with the first mirror of the job; the valve spares the rows of a card that
waits in the ingest queue, which was swept or mirrored a moment ago; a finished card is pruned only when nothing on it is in
flight, since the valve of the same pass has closed what is older; an answer of the addon to the orphan check that is neither the job nor a
404 leaves the card alone, as if it had not been picked. A job's name that the addon tells later
(`updateJobMeta`) and ids reissued after a restart are not in `AlbumGets`.

Of playback: position, volume and names; the legacy progress relay; track ids a client cannot
resolve (`adoptQueue` then keeps what it has) or resolves over HTTP (the queue is adopted in the step of the frame, while
`remote-playback.service.ts:295-324` may commit it later, unless a newer one came); Next under repeat-one, which plays the same track again;
a cast to no device, which the hub would take (`websocket.ts:255`) and no message of the protocol
asks for (`remote-playback.ts:94`); a profile switch; more than one user, who share
nothing. Of tag writes: node-id3's in-place writes of mp3 files, which take no slot; what the tasks
compute; songs that vanish between queueing and flush; a crash between a task's row and its
queueing; metadata edits other than the genre, which take the same writer. Of the album lanes: the
choice of a candidate, removal of a watchlist row, the re-hunt's deletion of the replaced job. Of the scan:
how titles and formats decide what is a copy, moves, playlists and overrides re-pointed before a prune, album, artist and genre aggregates, the
scan cache (a file that changed is assumed to differ in size or time). Of the import: browser uploads and
their sessions, the disk preflight and path checks, sources that change under a job, provenance and mirror rows,
a rollback or the removal of an original that fails on a file (that of an archive may fail), an error of `run` outside its chunks.

The transcode cache (`services/transcode-cache.ts`) is not modelled: its one hazard, a file pruned
between the answer and the pin (`:247`), is a window within one request. The URL watcher is dormant:
no resolver is registered in the process, so its `submit` always refuses. Nobody waits on or cancels a
queued hunt. The rest of the program - routes and user interface, metadata and matching, scoring,
backups, shells - is most of its lines and keeps no state that two activities share, or is
sequential; parts that are not modelled are listed as components with the reason. Parsing,
matching, tagging, scoring and HTTP plumbing stay out because nothing interleaves there.

## What is left

What the models would carry next, most valuable first: the three action properties of the pipeline
that hold without certain faults (`SupersededInert`, `FullIngestFirst`, `CancelHolds`) as theorems that
name what must not happen, from the existing `IInv`; the transcode cache's pin and prune; the
maintenance service's busy flag beside library processing; a third playback device,
which the proofs cover and the run does not.
