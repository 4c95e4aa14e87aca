------------------------- MODULE AddonPipelineProofs --------------------------
(***************************************************************************)
(* AddonPipeline for every set of jobs, items and cards: its state is well *)
(* typed, and an Error card always states a reason.                        *)
(*                                                                         *)
(* Neither is inductive by itself.  Typing needs Working: an activity      *)
(* that is past its first step has a card and a job to work on.  The       *)
(* reason needs SoundCard, because applyAddonOutcome rewrites the error    *)
(* from the stage and attachAddonRef moves the stage of a card that may be *)
(* cancelled already, and Linked, which says which cards those are.        *)
(***************************************************************************)
EXTENDS AddonPipeline, TLAPS

-------------------------------------------------------------------------------
(* What the operators of AcquisitionStore return and preserve, for every   *)
(* card, every table of rows and every set of stalled states.  The proofs  *)
(* about the pipeline rest on these lemmas and expand none of the          *)
(* operators again.                                                        *)

\* A card and its rows are sound when a failed card has a reason, when only a
\* URL card can be failed outside the error stage (attachAddonRef moves the
\* stage of a card cancelled meanwhile), when a live card without an addon job is a
\* URL reservation without rows, and when an unwritten card names no addon job.
SoundCard(j, rows) ==
  /\ j.state = "failed" => j.err
  /\ j.state = "failed" /\ j.stage # "error" => j.url
  /\ j.url => ~Has(rows, "superseded")
  /\ j.ref = NoJob => NoRows(rows)
  /\ Live(j) /\ j.ref = NoJob => j.url
  /\ j.state = "unborn" => j.ref = NoJob

\* What no write to a card that exists takes back: that it was created, that it
\* is gone, its lane, and the addon job it names.
Kept(j, k) ==
  j.state # "unborn" =>
    /\ k.state # "unborn"
    /\ Live(k) => Live(j)
    /\ k.url => j.url
    /\ Live(k) /\ j.url => k.url
    /\ j.ref # NoJob => k.ref # NoJob

-------------------------------------------------------------------------------
(* Rows *)

\* An update of item rows leaves a table of item rows.
LEMMA MoveType ==
  ASSUME NEW rows \in Rows, NEW own, NEW from, NEW to \in ItemState
  PROVE  Move(rows, own, from, to) \in Rows
  BY DEF Move, Rows

\* An update whose selection leaves out "none" creates no row.
LEMMA MoveNoRows ==
  ASSUME NEW rows, NEW own, NEW from, NEW to, "none" \notin from, NoRows(rows)
  PROVE  NoRows(Move(rows, own, from, to))
  BY DEF Move, NoRows

\* An update to another state hands no row to another peer.
LEMMA MoveNoSuperseded ==
  ASSUME NEW rows, NEW own, NEW from, NEW to,
         to # "superseded", ~Has(rows, "superseded")
  PROVE  ~Has(Move(rows, own, from, to), "superseded")
  BY DEF Move, Has

\* A table without rows has nothing to derive a stage from.
LEMMA NoRowsNotCounted ==
  ASSUME NEW rows, NoRows(rows)
  PROVE  NothingCounted(rows)
  BY DEF NoRows, NothingCounted

\* Without rows handed on, nothing counted means no row at all.
LEMMA NotCountedNoRows ==
  ASSUME NEW rows, NothingCounted(rows), ~Has(rows, "superseded")
  PROVE  NoRows(rows)
  BY DEF NoRows, NothingCounted, Has

\* The rows the cancel and the orphan verdict leave.
LEMMA CancelledRowsFacts ==
  ASSUME NEW rows \in Rows
  PROVE  /\ CancelledRows(rows) \in Rows
         /\ NoRows(rows) => NoRows(CancelledRows(rows))
         /\ ~Has(rows, "superseded") => ~Has(CancelledRows(rows), "superseded")
<1>1. CancelledRows(rows) = Move(rows, RowKey, InFlight \union {"completed"}, "unavailable")
  BY DEF CancelledRows
<1>2. "unavailable" \in ItemState /\ "none" \notin InFlight \union {"completed"}
  BY DEF ItemState, InFlight
<1> QED
  BY <1>1, <1>2, MoveType, MoveNoRows, MoveNoSuperseded

LEMMA OrphanedRowsFacts ==
  ASSUME NEW rows \in Rows, NEW a
  PROVE  /\ OrphanedRows(rows, a) \in Rows
         /\ NoRows(rows) => NoRows(OrphanedRows(rows, a))
         /\ ~Has(rows, "superseded") => ~Has(OrphanedRows(rows, a), "superseded")
<1>1. OrphanedRows(rows, a) = Move(rows, OwnedBy(a), {"downloading"}, "unavailable")
  BY DEF OrphanedRows
<1>2. "unavailable" \in ItemState
  BY DEF ItemState
<1> QED
  BY <1>1, <1>2, MoveType, MoveNoRows, MoveNoSuperseded

-------------------------------------------------------------------------------
(* Cards *)

\* The derived stage is a stage and the state at it is a state.
LEMMA StageOfType ==
  ASSUME NEW rows, NEW aged
  PROVE  StageOf(rows, aged) \in {"downloading", "queued", "organizing",
                                  "scanning", "done", "error"}
  BY DEF StageOf

LEMMA StateAtType ==
  ASSUME NEW stage
  PROVE  /\ StateAt(stage) \in {"active", "done", "failed"}
         /\ StateAt(stage) = "failed" <=> stage = "error"
  BY DEF StateAt

\* recomputeStage leaves a card, fails it only into the error stage and then
\* with a reason, keeps a reason on every stage but a whole delivery, and
\* touches neither a removed, a superseded nor a rowless card.
LEMMA RecomputeFacts ==
  ASSUME NEW j \in Card_Row, NEW rows, NEW aged,
         NEW k, k = Recompute(j, rows, aged)
  PROVE  /\ k \in Card_Row
         /\ k.url = j.url /\ k.ref = j.ref
         /\ Live(k) <=> Live(j)
         /\ k.state = "unborn" <=> j.state = "unborn"
         /\ Live(j) /\ j.state # "superseded" /\ ~NothingCounted(rows) =>
              /\ k.state \in {"active", "done", "failed"}
              /\ k.state = "failed" => k.stage = "error" /\ k.err
              /\ k.state = "active" /\ j.err => k.err
         /\ ~Live(j) \/ j.state = "superseded" \/ NothingCounted(rows) => k = j
<1> DEFINE stage == StageOf(rows, aged)
           whole == ~Has(rows, "failed") /\ ~Has(rows, "unavailable")
           err   == IF stage = "done" /\ whole THEN FALSE ELSE stage = "error" \/ j.err
           moved == [j EXCEPT !.state = StateAt(stage), !.stage = stage, !.err = err]
<1>1. k = IF ~Live(j) \/ j.state = "superseded" \/ NothingCounted(rows) THEN j ELSE moved
  BY DEF Recompute
<1>2. stage \in Stage /\ StateAt(stage) \in {"active", "done", "failed"}
      /\ (StateAt(stage) = "failed" <=> stage = "error")
      /\ (stage = "done" => StateAt(stage) = "done")
  BY StageOfType, StateAtType DEF Stage, StateAt
<1>3. err \in BOOLEAN
  BY DEF Card_Row
<1>4. /\ moved \in Card_Row
      /\ moved.state = StateAt(stage) /\ moved.stage = stage /\ moved.err = err
      /\ moved.url = j.url /\ moved.ref = j.ref
  <2> HIDE DEF stage, err
  <2> QED  BY <1>2, <1>3 DEF Card_Row, JobState
<1>5. Live(j) => Live(moved) /\ moved.state # "unborn" /\ j.state # "unborn"
  BY <1>2, <1>4 DEF Live
<1>6. (moved.state = "failed" => moved.stage = "error" /\ moved.err)
      /\ (moved.state = "active" /\ j.err => moved.err)
  BY <1>2, <1>4
<1> HIDE DEF moved
<1> QED
  BY <1>1, <1>2, <1>4, <1>5, <1>6
\* A recompute keeps a card sound.
LEMMA RecomputeSound ==
  ASSUME NEW j \in Card_Row, NEW rows, NEW aged, SoundCard(j, rows)
  PROVE  SoundCard(Recompute(j, rows, aged), rows) /\ Kept(j, Recompute(j, rows, aged))
<1> DEFINE k == Recompute(j, rows, aged)
<1>1. /\ k.url = j.url /\ k.ref = j.ref
      /\ Live(k) <=> Live(j)
      /\ k.state = "unborn" <=> j.state = "unborn"
      /\ k = j \/ (k.state = "failed" => k.stage = "error" /\ k.err)
  BY RecomputeFacts
<1> HIDE DEF k
<1>2. SoundCard(k, rows)
  BY <1>1 DEF SoundCard
<1>3. Kept(j, k)
  BY <1>1 DEF Kept
<1> QED
  BY <1>2, <1>3 DEF k

\* The verdicts that close a reservation or an orphan.
LEMMA RefusedFacts ==
  ASSUME NEW j \in Card_Row, NEW rows
  PROVE  /\ Refused(j) \in Card_Row
         /\ SoundCard(j, rows) => SoundCard(Refused(j), rows)
         /\ Kept(j, Refused(j))
  BY DEF Refused, Card_Row, JobState, Stage, SoundCard, Kept, Live

LEMMA OrphanedFacts ==
  ASSUME NEW j \in Card_Row, NEW rows \in Rows, NEW a
  PROVE  /\ OrphanedJob(j) \in Card_Row
         /\ SoundCard(j, rows) => SoundCard(OrphanedJob(j), OrphanedRows(rows, a))
         /\ Kept(j, OrphanedJob(j))
<1>1. OrphanedJob(j) = Refused(j)
  BY DEF OrphanedJob
<1>2. SoundCard(j, rows) => SoundCard(j, OrphanedRows(rows, a))
  BY OrphanedRowsFacts DEF SoundCard
<1> QED
  BY <1>1, <1>2, RefusedFacts

\* attachAddonRef on the card of a URL reservation.
LEMMA AttachedFacts ==
  ASSUME NEW j \in Card_Row, NEW a \in AJob
  PROVE  /\ Attached(j, a) \in Card_Row
         /\ Kept(j, Attached(j, a))
         /\ Live(Attached(j, a)) => Attached(j, a).ref # NoJob
         /\ \A rows : SoundCard(j, rows) => SoundCard(Attached(j, a), rows)
  BY NoJobAssumption DEF Attached, Card_Row, Stage, SoundCard, Kept, Live

\* New cards, reserved cards and removed ones.
LEMMA CreatedFacts ==
  ASSUME NEW a \in AJob, NEW rows
  PROVE  /\ Created(a) \in Card_Row /\ Live(Created(a))
         /\ Created(a).ref = a /\ Created(a).state = "active" /\ ~Created(a).url
         /\ SoundCard(Created(a), rows)
  BY NoJobAssumption DEF Created, Unborn, Card_Row, JobState, Stage, SoundCard, Live

LEMMA ReservedFacts ==
  ASSUME NEW rows, NoRows(rows)
  PROVE  /\ Reserved \in Card_Row /\ Reserved.state = "active" /\ Reserved.url
         /\ SoundCard(Reserved, rows)
  BY DEF Reserved, Unborn, Card_Row, JobState, Stage, SoundCard, NoRows, Has, Live

LEMMA UnbornFacts ==
  ASSUME NEW rows, NoRows(rows)
  PROVE  Unborn \in Card_Row /\ SoundCard(Unborn, rows)
  BY DEF Unborn, Card_Row, JobState, Stage, SoundCard, Live

LEMMA RemovedFacts ==
  ASSUME NEW j \in Card_Row, NEW rows, NoRows(rows)
  PROVE  /\ Removed(j) \in Card_Row
         /\ SoundCard(Removed(j), rows)
         /\ Kept(j, Removed(j))
  BY DEF Removed, Unborn, Card_Row, JobState, Stage, SoundCard, Kept, Live, NoRows, Has

\* cancelUnownedJob leaves a sound card: whoever ends up failed was active or
\* failed before, so the reason was written first.  The card is active, or
\* names no addon job.
LEMMA CancelledFacts ==
  ASSUME NEW j \in Card_Row, NEW rows \in Rows, NEW aged
  PROVE  /\ CancelledJob(j, rows, aged) \in Card_Row
         /\ Kept(j, CancelledJob(j, rows, aged))
         /\ SoundCard(j, rows) /\ (j.state = "active" \/ j.ref = NoJob)
              => SoundCard(CancelledJob(j, rows, aged), CancelledRows(rows))
<1> DEFINE said  == IF j.state \in {"active", "failed"} THEN [j EXCEPT !.err = TRUE] ELSE j
           left  == CancelledRows(rows)
           ruled == Recompute(said, left, aged)
           k     == IF ruled.state = "active"
                    THEN [ruled EXCEPT !.state = "failed", !.stage = "error"] ELSE ruled
<1>1. CancelledJob(j, rows, aged) = k
  BY DEF CancelledJob
<1>2. /\ said \in Card_Row
      /\ said.state = j.state /\ said.stage = j.stage
      /\ said.url = j.url /\ said.ref = j.ref
      /\ said.state \in {"active", "failed"} => said.err
  BY DEF Card_Row
<1> HIDE DEF said
<1>3. /\ ruled \in Card_Row
      /\ ruled.url = said.url /\ ruled.ref = said.ref
      /\ Live(ruled) <=> Live(said)
      /\ ruled.state = "unborn" <=> said.state = "unborn"
      /\ ruled = said \/ (Live(said) /\ ~NothingCounted(left)
                          /\ ruled.state \in {"active", "done", "failed"}
                          /\ (ruled.state = "failed" => ruled.stage = "error" /\ ruled.err)
                          /\ (ruled.state = "active" /\ said.err => ruled.err))
  BY <1>2, RecomputeFacts
<1> HIDE DEF ruled
<1>4. /\ k \in Card_Row
      /\ k.url = ruled.url /\ k.ref = ruled.ref /\ k.err = ruled.err
      /\ ruled.state = "active" => k.state = "failed" /\ k.stage = "error"
      /\ ruled.state # "active" => k = ruled
  <2>1. ruled \in Card_Row
    BY <1>3
  <2> QED
    BY <2>1 DEF Card_Row, JobState, Stage
<1> HIDE DEF k
<1>5. Live(k) <=> Live(j)
  BY <1>2, <1>3, <1>4 DEF Live
<1>6. Kept(j, k)
  BY <1>2, <1>3, <1>4, <1>5 DEF Kept
<1>7. ASSUME SoundCard(j, rows), j.state = "active" \/ j.ref = NoJob
      PROVE  SoundCard(k, left)
  <2>1. /\ j.url => ~Has(left, "superseded")
        /\ j.ref = NoJob => NoRows(left)
    BY <1>7, CancelledRowsFacts DEF SoundCard
  <2>2. j.ref = NoJob => ruled = said
    BY <2>1, <1>3, NoRowsNotCounted
  <2>3. k.state = "failed" => k.err
    BY <1>2, <1>3, <1>4, <1>7, <2>2
  <2>4. k.state = "failed" /\ k.stage # "error" => k.url
    BY <1>2, <1>3, <1>4, <1>7 DEF SoundCard
  <2> QED
    BY <1>2, <1>3, <1>4, <1>5, <1>7, <2>1, <2>3, <2>4 DEF SoundCard
<1> QED
  BY <1>1, <1>4, <1>6, <1>7

\* The two durable markers change neither the lane nor the verdict of a card.
LEMMA MarkerFacts ==
  ASSUME NEW j \in Card_Row, NEW rows
  PROVE  /\ CancelRequested(j) \in Card_Row /\ Discarded(j) \in Card_Row
         /\ Kept(j, CancelRequested(j)) /\ Kept(j, Discarded(j))
         /\ SoundCard(j, rows) =>
              SoundCard(CancelRequested(j), rows) /\ SoundCard(Discarded(j), rows)
  BY DEF CancelRequested, Discarded, Card_Row, SoundCard, Kept, Live

LEMMA KeptReflexive ==
  ASSUME NEW j
  PROVE  Kept(j, j)
  BY DEF Kept

LEMMA KeptTransitive ==
  ASSUME NEW i, NEW j, NEW k, Kept(i, j), Kept(j, k)
  PROVE  Kept(i, k)
  BY DEF Kept

-------------------------------------------------------------------------------
(* The inductive invariant *)

DbType ==
  /\ job \in [Card -> Card_Row]
  /\ row \in [Card -> Rows]
  /\ filed \in [Card -> SUBSET RowKey]
  /\ library \subseteq Item
  /\ jobmap \in [AJob -> [card : Card \union {NoCard}, epoch : 0..MaxEpoch]]
  /\ released \subseteq AJob

AddonType ==
  /\ addon \in [AJob -> AddonJob]
  /\ boot \in 1..MaxEpoch
  /\ asked \subseteq AJob
  /\ news \subseteq AJob

WorkType == tick \in TickType /\ queue \in Seq(QueueType) /\ pump \in PumpType

SwapType == [pc : SwapPc, card : Card \union {NoCard}, titles : SUBSET Item,
             old : AJob \union {NoJob}, new : AJob \union {NoJob}]

RouteType ==
  /\ await \subseteq Request
  /\ swap \in SwapType
  /\ dropping \subseteq Card
  /\ discard \in [card : Card \union {NoCard}, titles : SUBSET Item]

\* What the tick, the pump and the re-source request hold while they work.
Working ==
  /\ tick.pc = "release" => tick.del \in AJob
  /\ pump.pc # "idle" => pump.card \in Card /\ pump.a \in AJob
  /\ swap.pc # "idle" => swap.card \in Card
  /\ swap.pc = "cancel" => swap.old \in AJob
  /\ swap.pc = "record" => swap.new \in AJob

Sound == \A c \in Card : SoundCard(job[c], row[c])

\* A mapped card exists and names an addon job; a reservation under way is on a
\* card of the URL lane, a re-source on one that is not.
MapLinked ==
  \A a \in AJob : LET c == jobmap[a].card IN
    c # NoCard => job[c].state # "unborn" /\ (Live(job[c]) => job[c].ref # NoJob)

AwaitLinked ==
  \A w \in await :
    /\ w.card = NoCard => w.a # NoJob
    /\ w.card # NoCard => job[w.card].state # "unborn" /\ (Live(job[w.card]) => job[w.card].url)

SwapLinked ==
  swap.pc # "idle" =>
    ~job[swap.card].url /\ job[swap.card].state # "unborn" /\ job[swap.card].ref # NoJob

Linked == MapLinked /\ AwaitLinked /\ SwapLinked

IInv == DbType /\ AddonType /\ WorkType /\ RouteType /\ Working /\ Sound /\ Linked

LEMMA TypeParts == TypeOK <=> DbType /\ AddonType /\ WorkType /\ RouteType
  BY DEF TypeOK, DbType, AddonType, WorkType, RouteType, SwapType

LEMMA ReasonFromSound == DbType /\ Sound => ErrorStatesReason
  BY DEF DbType, Sound, SoundCard, ErrorStatesReason

-------------------------------------------------------------------------------
(* What a step that only updates cards leaves of the links *)

LEMMA MapKept ==
  ASSUME DbType, MapLinked, jobmap' = jobmap,
         \A c \in Card : Kept(job[c], job'[c])
  PROVE  MapLinked'
  BY PipelineAssumption DEF DbType, MapLinked, Kept

LEMMA AwaitKept ==
  ASSUME RouteType, AwaitLinked, await' \subseteq await,
         \A c \in Card : Kept(job[c], job'[c])
  PROVE  AwaitLinked'
<1> SUFFICES ASSUME NEW w \in await'
             PROVE  /\ w.card = NoCard => w.a # NoJob
                    /\ w.card # NoCard => /\ job'[w.card].state # "unborn"
                                          /\ Live(job'[w.card]) => job'[w.card].url
  BY DEF AwaitLinked
<1>1. w \in await /\ w \in Request
  BY DEF RouteType
<1>2. w.card # NoCard => w.card \in Card
  BY <1>1 DEF Request
<1> QED
  BY <1>1, <1>2 DEF AwaitLinked, Kept

LEMMA SwapKept ==
  ASSUME Working, SwapLinked, swap'.card = swap.card, swap.pc # "idle",
         \A c \in Card : Kept(job[c], job'[c])
  PROVE  SwapLinked'
  BY DEF Working, SwapLinked, Kept

LEMMA LinksKept ==
  ASSUME IInv, jobmap' = jobmap, await' \subseteq await, swap' = swap,
         \A c \in Card : Kept(job[c], job'[c])
  PROVE  Linked'
<1>1. MapLinked'
  BY MapKept DEF IInv, Linked
<1>2. AwaitLinked'
  BY AwaitKept DEF IInv, Linked
<1>3. SwapLinked'
  BY SwapKept DEF IInv, Linked, SwapLinked
<1> QED
  BY <1>1, <1>2, <1>3 DEF Linked

\* An update of one card.
LEMMA OneCardKept ==
  ASSUME DbType, NEW c \in Card, NEW k, job' = [job EXCEPT ![c] = k], Kept(job[c], k)
  PROVE  \A d \in Card : Kept(job[d], job'[d])
  BY KeptReflexive DEF DbType

LEMMA OneCardSound ==
  ASSUME DbType, Sound, NEW c \in Card, NEW k, NEW rows,
         job' = [job EXCEPT ![c] = k], row' = [row EXCEPT ![c] = rows],
         SoundCard(k, rows)
  PROVE  Sound'
  BY DEF DbType, Sound

LEMMA OneCardJobSound ==
  ASSUME DbType, Sound, NEW c \in Card, NEW k,
         job' = [job EXCEPT ![c] = k], row' = row, SoundCard(k, row[c])
  PROVE  Sound'
  BY DEF DbType, Sound

\* A step that touches neither a card, nor a row, nor a link.
LEMMA CardsUntouched ==
  ASSUME IInv, UNCHANGED <<job, row, jobmap, await, swap>>
  PROVE  Sound' /\ Linked'
  BY DEF IInv, Sound, Linked, MapLinked, AwaitLinked, SwapLinked

-------------------------------------------------------------------------------
(* The addon *)

LEMMA ItemsType ==
  /\ NotListed \in AddonJob
  /\ \A x \in AddonJob : Gone(x) \in AddonJob
<1>1. NoItems \in [Item -> AddonItem]
  BY DEF NoItems, AddonItem
<1>2. 0 \in 0..MaxEpoch /\ "none" \in AddonState
  BY PipelineAssumption DEF AddonState
<1> QED
  BY <1>1, <1>2 DEF NotListed, Gone, AddonJob

LEMMA NewJobType ==
  ASSUME AddonType, NEW a, NEW titles
  PROVE  NewJob(a, titles) \in AddonJob
  BY PipelineAssumption DEF NewJob, AddonJob, AddonType, AddonState, AddonItem

LEMMA AddonCreateType ==
  ASSUME AddonType, NEW a \in AJob, NEW titles, AddonCreate(a, titles)
  PROVE  AddonType'
  BY NewJobType DEF AddonCreate, AddonType

LEMMA AddonDropType ==
  ASSUME AddonType, NEW a, AddonDrop(a)
  PROVE  AddonType'
  BY ItemsType DEF AddonDrop, AddonType

LEMMA DeleteCallType ==
  ASSUME AddonType, DbType, NEW a \in AJob, DeleteCall(a)
  PROVE  AddonType' /\ released' \subseteq AJob
  BY AddonDropType DEF DeleteCall, AddonType, DbType, addonVars

LEMMA CancelCallType ==
  ASSUME AddonType, NEW a \in AJob, CancelCall(a)
  PROVE  AddonType'
  BY DEF CancelCall, AddonType

LEMMA VerdictType ==
  ASSUME NEW x
  PROVE  Verdict(x) \in AddonState
  BY DEF Verdict, AddonState

LEMMA ItemChangeType ==
  ASSUME NEW x \in AddonJob, NEW i \in Item, NEW to \in AddonItem
  PROVE  [x EXCEPT !.item[i] = to] \in AddonJob
  BY DEF AddonJob

LEMMA StateChangeType ==
  ASSUME NEW x \in AddonJob, NEW st \in AddonState
  PROVE  [x EXCEPT !.st = st] \in AddonJob
  BY DEF AddonJob

\* Whatever the addon does by itself, the invariant of the pipeline stays.
LEMMA AddonSteps ==
  ASSUME IInv, Addon \/ AddonRestart
  PROVE  IInv'
<1>1. UNCHANGED <<dbVars, workVars, routeVars>>
  BY DEF Addon, AddonProgress, AddonFinish, AddonRestart
<1>2. AddonType'
  <2>1. ASSUME NEW a \in AJob, NEW i \in Item, AddonProgress(a, i)
        PROVE  AddonType'
    <3>1. PICK to \in AddonItem : addon' = [addon EXCEPT ![a].item[i] = to]
      BY <2>1 DEF AddonProgress
    <3>2. [addon[a] EXCEPT !.item[i] = to] \in AddonJob
      BY ItemChangeType DEF IInv, AddonType
    <3> QED
      BY <2>1, <3>1, <3>2 DEF AddonProgress, IInv, AddonType
  <2>2. ASSUME NEW a \in AJob, AddonFinish(a)
        PROVE  AddonType'
    <3>1. PICK st \in AddonState : addon' = [addon EXCEPT ![a].st = st]
      BY <2>2, VerdictType DEF AddonFinish, AddonState
    <3>2. [addon[a] EXCEPT !.st = st] \in AddonJob
      BY StateChangeType DEF IInv, AddonType
    <3> QED
      BY <2>2, <3>1, <3>2 DEF AddonFinish, IInv, AddonType
  <2>3. ASSUME AddonRestart
        PROVE  AddonType'
    BY <2>3, ItemsType, PipelineAssumption DEF AddonRestart, IInv, AddonType
  <2> QED
    BY <2>1, <2>2, <2>3 DEF Addon
<1>3. DbType' /\ WorkType' /\ RouteType' /\ Working'
  BY <1>1 DEF IInv, DbType, WorkType, RouteType, Working, dbVars, workVars, routeVars
<1>4. Sound' /\ Linked'
  BY <1>1, CardsUntouched DEF dbVars, routeVars
<1> QED
  BY <1>2, <1>3, <1>4 DEF IInv

-------------------------------------------------------------------------------
(* Rows and cards as the poller writes them *)

LEMMA MirroredType ==
  ASSUME NEW x \in AddonItem
  PROVE  Mirrored(x) \in ItemState /\ Mirrored(x) # "superseded"
  BY DEF Mirrored, AddonItem, ItemState

\* mirrorItems never hands a row to another peer.
LEMMA MirroredRowsFacts ==
  ASSUME NEW rows \in Rows, NEW a, NEW snap \in AddonJob
  PROVE  /\ MirroredRows(rows, a, snap) \in Rows
         /\ ~Has(rows, "superseded") => ~Has(MirroredRows(rows, a, snap), "superseded")
<1> DEFINE m == MirroredRows(rows, a, snap)
<1>1. ASSUME NEW k \in RowKey
      PROVE  /\ m[k] \in ItemState
             /\ rows[k] # "superseded" => m[k] # "superseded"
  <2>1. k[2] \in Item
    BY DEF RowKey
  <2>2. snap.item[k[2]] \in AddonItem
    BY <2>1 DEF AddonJob
  <2>3. rows[k] \in ItemState
    BY DEF Rows
  <2> QED
    BY <2>2, <2>3, MirroredType DEF MirroredRows
<1>2. m = [k \in RowKey |-> m[k]]
  BY DEF MirroredRows
<1> HIDE DEF m
<1>3. m \in Rows
  BY <1>1, <1>2 DEF Rows
<1>4. ~Has(rows, "superseded") => ~Has(m, "superseded")
  BY <1>1 DEF Has
<1> QED
  BY <1>3, <1>4 DEF m

LEMMA OutcomeRowsFacts ==
  ASSUME NEW rows \in Rows, NEW a, NEW snap
  PROVE  /\ OutcomeRows(rows, a, snap) \in Rows
         /\ NoRows(rows) => NoRows(OutcomeRows(rows, a, snap))
         /\ ~Has(rows, "superseded") => ~Has(OutcomeRows(rows, a, snap), "superseded")
<1>1. TerminalRows(rows, a) = Move(rows, OwnedBy(a), InFlight, "unavailable")
  BY DEF TerminalRows
<1>2. "unavailable" \in ItemState /\ "none" \notin InFlight
  BY DEF ItemState, InFlight
<1> QED
  BY <1>1, <1>2, MoveType, MoveNoRows, MoveNoSuperseded DEF OutcomeRows

LEMMA ErrsType == Errs \subseteq BOOLEAN
  BY DEF Errs

\* While the addon job is active, its word reopens a card: the card leaves the
\* failed state or keeps its reason.
LEMMA ActiveOutcomeFacts ==
  ASSUME NEW j \in Card_Row, NEW rows, NEW e \in BOOLEAN
  PROVE  /\ ActiveOutcome(j, rows, e) \in Card_Row
         /\ SoundCard(j, rows) => SoundCard(ActiveOutcome(j, rows, e), rows)
         /\ Kept(j, ActiveOutcome(j, rows, e))
<1> DEFINE pinned == IF j.state \in {"active", "failed"} /\ ~j.cancel /\ ~NoRows(rows)
                     THEN [j EXCEPT !.state = "active", !.stage = "downloading"]
                     ELSE j
           k      == IF pinned.state = "active" THEN [pinned EXCEPT !.err = e] ELSE pinned
<1>1. ActiveOutcome(j, rows, e) = k
  BY DEF ActiveOutcome
<1>2. /\ pinned \in Card_Row
      /\ pinned.url = j.url /\ pinned.ref = j.ref
      /\ pinned = j \/ (pinned.state = "active" /\ j.state \in {"active", "failed"})
  BY DEF Card_Row, JobState, Stage
<1> HIDE DEF pinned
<1>3. /\ k \in Card_Row
      /\ k.url = pinned.url /\ k.ref = pinned.ref /\ k.state = pinned.state
      /\ k = pinned \/ k.state = "active"
  BY <1>2 DEF Card_Row
<1> HIDE DEF k
<1>4. Live(k) <=> Live(j)
  BY <1>2, <1>3 DEF Live
<1>5. SoundCard(j, rows) => SoundCard(k, rows)
  BY <1>2, <1>3, <1>4 DEF SoundCard
<1>6. Kept(j, k)
  BY <1>2, <1>3, <1>4 DEF Kept, Live
<1> QED
  BY <1>1, <1>3, <1>5, <1>6

\* On a closed addon job the error is rewritten: from the addon, or because the
\* card ended in the error stage, or because it has no row to rule on.
LEMMA TerminalOutcomeFacts ==
  ASSUME NEW j \in Card_Row, NEW rows, NEW e \in BOOLEAN, NEW aged
  PROVE  /\ TerminalOutcome(j, rows, e, aged) \in Card_Row
         /\ SoundCard(j, rows) => SoundCard(TerminalOutcome(j, rows, e, aged), rows)
         /\ Kept(j, TerminalOutcome(j, rows, e, aged))
<1> DEFINE ruled  == Recompute(j, rows, aged)
           closed == IF Live(j) THEN [ruled EXCEPT !.err = e \/ ruled.stage = "error"] ELSE j
           k      == IF Live(j) /\ NoRows(rows) /\ j.state # "superseded"
                     THEN [closed EXCEPT !.state = "failed", !.stage = "error", !.err = TRUE]
                     ELSE closed
<1>1. TerminalOutcome(j, rows, e, aged) = k
  BY DEF TerminalOutcome
<1>2. /\ ruled \in Card_Row
      /\ ruled.url = j.url /\ ruled.ref = j.ref
      /\ Live(ruled) <=> Live(j)
      /\ ruled.state = "unborn" <=> j.state = "unborn"
      /\ Live(j) /\ j.state # "superseded" /\ ~NothingCounted(rows) =>
           (ruled.state = "failed" => ruled.stage = "error")
      /\ ~Live(j) \/ j.state = "superseded" \/ NothingCounted(rows) => ruled = j
  BY RecomputeFacts
<1> HIDE DEF ruled
<1>3. /\ closed \in Card_Row
      /\ closed.url = j.url /\ closed.ref = j.ref
      /\ closed.state = ruled.state /\ closed.stage = ruled.stage
      /\ Live(j) => closed.err = (e \/ ruled.stage = "error")
      /\ ~Live(j) => closed = j
  <2>1. ruled \in Card_Row
    BY <1>2
  <2>2. ~Live(j) => ruled = j
    BY <1>2
  <2>3. CASE Live(j)
    <3>1. closed = [ruled EXCEPT !.err = e \/ ruled.stage = "error"]
      BY <2>3
    <3>2. (e \/ ruled.stage = "error") \in BOOLEAN
      OBVIOUS
    <3> QED
      BY <2>1, <2>3, <3>1, <3>2, <1>2 DEF Card_Row
  <2>4. CASE ~Live(j)
    BY <2>2, <2>4
  <2> QED
    BY <2>3, <2>4
<1> HIDE DEF closed
<1>4. /\ k \in Card_Row
      /\ k.url = j.url /\ k.ref = j.ref
      /\ k = closed \/ (Live(j) /\ k.state = "failed" /\ k.stage = "error" /\ k.err)
      /\ Live(j) /\ NoRows(rows) /\ j.state # "superseded" => k.err
  <2>1. closed \in Card_Row /\ closed.url = j.url /\ closed.ref = j.ref
    BY <1>3
  <2>2. CASE Live(j) /\ NoRows(rows) /\ j.state # "superseded"
    BY <2>1, <2>2 DEF Card_Row, JobState, Stage
  <2>3. CASE ~(Live(j) /\ NoRows(rows) /\ j.state # "superseded")
    BY <2>1, <2>3
  <2> QED
    BY <2>2, <2>3
<1> HIDE DEF k
<1>5. Live(k) <=> Live(j)
  BY <1>2, <1>3, <1>4 DEF Live
<1>6. ASSUME SoundCard(j, rows)
      PROVE  SoundCard(k, rows)
  <2>1. k.state = "failed" /\ k.stage # "error" => k.url
    BY <1>2, <1>3, <1>4, <1>6 DEF SoundCard
  <2>2. k.state = "failed" => k.err
    <3>1. CASE k # closed
      BY <3>1, <1>4
    <3>2. CASE k = closed /\ k.stage = "error"
      BY <3>2, <1>2, <1>3, <1>6 DEF SoundCard
    <3>3. CASE k = closed /\ k.stage # "error" /\ k.state = "failed"
      <4>1. ruled = j /\ j.url
        BY <3>3, <1>2, <1>3, <2>1, <1>4 DEF Live
      <4>2. ~Has(rows, "superseded")
        BY <4>1, <1>6 DEF SoundCard
      <4>3. j.state = "failed" /\ Live(j)
        BY <3>3, <1>3, <4>1 DEF Live
      <4>4. NothingCounted(rows) => k.err
        BY <4>2, <4>3, <1>4, NotCountedNoRows
      <4>5. NothingCounted(rows)
        BY <3>3, <1>2, <1>3, <4>1, <4>3
      <4> QED
        BY <4>4, <4>5
    <3> QED
      BY <3>1, <3>2, <3>3
  <2>3. k.state = "unborn" => j.state = "unborn"
    BY <1>2, <1>3, <1>4 DEF Live
  <2> QED
    BY <1>4, <1>5, <1>6, <2>1, <2>2, <2>3 DEF SoundCard
<1>7. Kept(j, k)
  BY <1>2, <1>3, <1>4, <1>5 DEF Kept, Live
<1> QED
  BY <1>1, <1>4, <1>6, <1>7

\* applyAddonOutcome, on the rows it leaves.
LEMMA OutcomeFacts ==
  ASSUME NEW j \in Card_Row, NEW rows \in Rows, NEW a, NEW snap, NEW e \in BOOLEAN, NEW aged
  PROVE  /\ Outcome(j, rows, a, snap, e, aged) \in Card_Row
         /\ SoundCard(j, rows) =>
              SoundCard(Outcome(j, rows, a, snap, e, aged), OutcomeRows(rows, a, snap))
         /\ Kept(j, Outcome(j, rows, a, snap, e, aged))
<1>1. SoundCard(j, rows) => SoundCard(j, OutcomeRows(rows, a, snap))
  BY OutcomeRowsFacts DEF SoundCard
<1> QED
  BY <1>1, ActiveOutcomeFacts, TerminalOutcomeFacts DEF Outcome, OutcomeRows

-------------------------------------------------------------------------------
(* The tick *)

LEMMA TickFields ==
  ASSUME WorkType
  PROVE  /\ tick.pc \in TickPc /\ tick.listed \in [AJob -> AddonJob]
         /\ tick.batch \subseteq AJob /\ tick.handled \subseteq Card
         /\ tick.sel \subseteq Card /\ tick.ask \in Card \union {NoCard}
         /\ tick.del \in AJob \union {NoJob}
  BY DEF WorkType, TickType

LEMMA TickIdleType == TickIdle \in TickType /\ TickIdle.pc = "idle"
  BY ItemsType DEF TickIdle, TickType, TickPc

LEMMA TakenType ==
  ASSUME WorkType, NEW a
  PROVE  /\ Taken(a) \in TickType /\ Taken(a).pc = tick.pc
         /\ Taken(a).handled = tick.handled
  BY ItemsType DEF Taken, WorkType, TickType

\* An ingest is queued once per card.
LEMMA EnqueueType ==
  ASSUME WorkType, NEW c \in Card, NEW a \in AJob, NEW snap \in AddonJob
  PROVE  Enqueue(c, a, snap) \in Seq(QueueType)
<1>1. queue \in Seq(QueueType) /\ [card |-> c, a |-> a, snap |-> snap] \in QueueType
  BY DEF WorkType, QueueType
<1> QED
  BY <1>1 DEF Enqueue

\* The steps of the tick that write no card.
LEMMA TickQuietSteps ==
  ASSUME IInv,
         \/ TickList \/ TickListFails \/ OrphansDone
         \/ \E sweep \in BOOLEAN : MirrorDone(sweep)
         \/ \E stale \in SUBSET Active : StrandedDone(stale)
         \/ \E c \in Card : OrphanAsk(c)
  PROVE  IInv'
<1>1. /\ UNCHANGED <<job, row, filed, library, jobmap, released, queue, pump>>
      /\ UNCHANGED <<await, swap, dropping, discard, addon, boot, asked>>
  BY DEF TickList, TickListFails, OrphansDone, MirrorDone, StrandedDone, OrphanAsk,
         dbVars, addonVars, routeVars
<1>2. news' \subseteq news
  BY DEF TickList, TickListFails, OrphansDone, MirrorDone, StrandedDone, OrphanAsk, addonVars
<1>3. tick' \in TickType /\ tick'.pc # "release"
  <2> USE DEF IInv
  <2>1. CASE TickList
    <3>1. [a \in AJob |-> IF a \in news THEN addon[a] ELSE NotListed] \in [AJob -> AddonJob]
      BY ItemsType DEF AddonType
    <3> QED
      BY <2>1, <3>1 DEF TickList, WorkType, TickType, TickPc, AddonType
  <2>2. CASE TickListFails \/ OrphansDone
    BY <2>2 DEF TickListFails, OrphansDone, WorkType, TickType, TickPc
  <2>3. ASSUME NEW sweep \in BOOLEAN, MirrorDone(sweep)
        PROVE  tick' \in TickType /\ tick'.pc # "release"
    <3>1. (IF sweep THEN Stranding \ tick.handled ELSE {}) \subseteq Card
      BY DEF Stranding
    <3> QED
      BY <2>3, <3>1 DEF MirrorDone, WorkType, TickType, TickPc
  <2>4. ASSUME NEW stale \in SUBSET Active, StrandedDone(stale)
        PROVE  tick' \in TickType /\ tick'.pc # "release"
    <3>1. stale \subseteq Card
      BY DEF Active
    <3> QED
      BY <2>4, <3>1 DEF StrandedDone, WorkType, TickType, TickPc
  <2>5. ASSUME NEW c \in Card, OrphanAsk(c)
        PROVE  tick' \in TickType /\ tick'.pc # "release"
    BY <2>5 DEF OrphanAsk, WorkType, TickType, TickPc
  <2> QED
    BY <2>1, <2>2, <2>3, <2>4, <2>5
<1>4. DbType' /\ AddonType' /\ WorkType' /\ RouteType' /\ Working'
  BY <1>1, <1>2, <1>3 DEF IInv, DbType, AddonType, WorkType, RouteType, Working
<1>5. Sound' /\ Linked'
  BY <1>1, CardsUntouched
<1> QED
  BY <1>4, <1>5 DEF IInv

\* The end of a poll that had a job to release.
LEMMA TickReleaseStep ==
  ASSUME IInv, TickRelease
  PROVE  IInv'
<1> USE DEF IInv
<1>1. tick.del \in AJob
  BY DEF TickRelease, Working
<1>2. AddonType' /\ released' \subseteq AJob
  BY <1>1, DeleteCallType DEF TickRelease
<1>3. tick' \in TickType /\ tick'.pc = "mirror"
  BY DEF TickRelease, WorkType, TickType, TickPc
<1>4. UNCHANGED <<job, row, filed, library, jobmap, queue, pump, routeVars>>
  BY DEF TickRelease
<1>5. DbType' /\ WorkType' /\ RouteType' /\ Working'
  BY <1>2, <1>3, <1>4 DEF DbType, WorkType, RouteType, Working, routeVars
<1>6. Sound' /\ Linked'
  BY <1>4, CardsUntouched DEF routeVars
<1> QED
  BY <1>2, <1>5, <1>6

\* The orphan verdict on one card, by the stranded sweep or the orphan check.
LEMMA OrphanVerdict ==
  ASSUME IInv, NEW c \in Card, NEW a,
         job' = [job EXCEPT ![c] = OrphanedJob(@)],
         row' = [row EXCEPT ![c] = OrphanedRows(@, a)],
         UNCHANGED <<filed, library, jobmap, released, routeVars>>
  PROVE  DbType' /\ Sound' /\ Linked'
<1> USE DEF IInv
<1>1. job[c] \in Card_Row /\ row[c] \in Rows /\ SoundCard(job[c], row[c])
  BY DEF DbType, Sound
<1>2. /\ OrphanedJob(job[c]) \in Card_Row
      /\ SoundCard(OrphanedJob(job[c]), OrphanedRows(row[c], a))
      /\ Kept(job[c], OrphanedJob(job[c]))
      /\ OrphanedRows(row[c], a) \in Rows
  BY <1>1, OrphanedFacts, OrphanedRowsFacts
<1>3. DbType'
  BY <1>2 DEF DbType
<1>4. Sound'
  BY <1>2, OneCardSound
<1>5. Linked'
  BY <1>2, OneCardKept, LinksKept DEF routeVars
<1> QED
  BY <1>3, <1>4, <1>5

LEMMA StrandedStep ==
  ASSUME IInv, NEW c \in Card, Stranded(c)
  PROVE  IInv'
<1> USE DEF IInv
<1>1. tick' \in TickType /\ tick'.pc = "stranded"
  BY DEF Stranded, WorkType, TickType, TickPc
<1>2. UNCHANGED <<filed, library, jobmap, released, addonVars, pump, routeVars>>
  BY DEF Stranded
<1>3. DbType' /\ Sound' /\ Linked' /\ queue' \in Seq(QueueType)
  <2> DEFINE a == job[c].ref
  <2>1. CASE a # NoJob /\ Listed(a) /\ queue' = Enqueue(c, a, addon[a]) /\ UNCHANGED <<job, row>>
    <3>1. a \in AJob
      BY <2>1 DEF DbType, Card_Row
    <3>2. queue' \in Seq(QueueType)
      BY <2>1, <3>1, EnqueueType DEF AddonType
    <3>3. DbType'
      BY <2>1, <1>2 DEF DbType
    <3> QED
      BY <2>1, <1>2, <3>2, <3>3, CardsUntouched DEF routeVars
  <2>2. CASE /\ job' = [job EXCEPT ![c] = OrphanedJob(@)]
             /\ row' = [row EXCEPT ![c] = OrphanedRows(@, a)]
             /\ UNCHANGED queue
    BY <2>2, <1>2, OrphanVerdict DEF WorkType
  <2>3. CASE UNCHANGED <<job, row, queue>>
    <3>1. DbType' /\ queue' \in Seq(QueueType)
      BY <2>3, <1>2 DEF DbType, WorkType
    <3> QED
      BY <2>3, <1>2, <3>1, CardsUntouched DEF routeVars
  <2> QED
    BY <2>1, <2>2, <2>3 DEF Stranded
<1>4. AddonType' /\ WorkType' /\ RouteType' /\ Working'
  BY <1>1, <1>2, <1>3 DEF AddonType, WorkType, RouteType, Working, addonVars, routeVars
<1> QED
  BY <1>3, <1>4

LEMMA OrphanAnswerStep ==
  ASSUME IInv, OrphanAnswer
  PROVE  IInv'
<1> USE DEF IInv
<1> DEFINE c == tick.ask
           a == job[c].ref
<1>1. c \in Card
  BY TickFields DEF OrphanAnswer
<1>2. tick' \in TickType /\ tick'.pc = tick.pc /\ tick'.del = tick.del
  BY DEF OrphanAnswer, WorkType, TickType
<1>3. UNCHANGED <<filed, library, jobmap, released, addonVars, queue, pump, routeVars>>
  BY DEF OrphanAnswer
<1>4. DbType' /\ Sound' /\ Linked'
  <2>1. CASE UNCHANGED <<job, row>>
    <3>1. DbType'
      BY <2>1, <1>3 DEF DbType
    <3> QED
      BY <2>1, <1>3, <3>1, CardsUntouched DEF routeVars
  <2>2. CASE /\ job' = [job EXCEPT ![c] = OrphanedJob(@)]
             /\ row' = [row EXCEPT ![c] = OrphanedRows(@, a)]
    BY <2>2, <1>1, <1>3, OrphanVerdict
  <2> QED
    BY <2>1, <2>2 DEF OrphanAnswer
<1>5. AddonType' /\ WorkType' /\ RouteType' /\ Working'
  BY <1>2, <1>3 DEF AddonType, WorkType, RouteType, Working, addonVars, routeVars
<1> QED
  BY <1>4, <1>5

\* sweepStaleCancels rewrites the cards it closes, all in one step.
LEMMA TickCancelsStep ==
  ASSUME IInv, NEW overdue \in SUBSET Cancelling, TickCancels(overdue)
  PROVE  IInv'
<1> USE DEF IInv
<1>1. PICK aged \in AgedSets :
        job' = [c \in Card |-> IF c \in overdue THEN CancelledJob(job[c], row[c], aged)
                               ELSE job[c]]
  BY DEF TickCancels
<1>2. row' = [c \in Card |-> IF c \in overdue THEN CancelledRows(row[c]) ELSE row[c]]
  BY DEF TickCancels
<1>3. UNCHANGED <<filed, library, jobmap, released, addonVars, queue, pump, routeVars>>
  BY DEF TickCancels
<1>4. ASSUME NEW c \in Card
      PROVE  /\ job'[c] \in Card_Row /\ row'[c] \in Rows
             /\ SoundCard(job'[c], row'[c]) /\ Kept(job[c], job'[c])
  <2>1. job[c] \in Card_Row /\ row[c] \in Rows /\ SoundCard(job[c], row[c])
    BY DEF DbType, Sound
  <2>2. CASE c \in overdue
    <3>1. job[c].state = "active"
      BY <2>2 DEF Cancelling, Active
    <3> QED
      BY <1>1, <1>2, <2>1, <2>2, <3>1, CancelledFacts, CancelledRowsFacts
  <2>3. CASE c \notin overdue
    BY <1>1, <1>2, <2>1, <2>3, KeptReflexive
  <2> QED
    BY <2>2, <2>3
<1>5. DbType' /\ Sound'
  BY <1>1, <1>2, <1>3, <1>4 DEF DbType, Sound
<1>6. Linked'
  BY <1>3, <1>4, LinksKept DEF routeVars
<1>7. tick' = TickIdle
  BY DEF TickCancels
<1>8. AddonType' /\ WorkType' /\ RouteType' /\ Working'
  BY <1>3, <1>7, TickIdleType DEF AddonType, WorkType, RouteType, Working, addonVars, routeVars
<1> QED
  BY <1>5, <1>6, <1>8

-------------------------------------------------------------------------------
(* mirrorAddonJob *)

LEMMA MirrorRemovedStep ==
  ASSUME IInv, NEW a \in AJob, tick.pc = "mirror", MirrorRemoved(a)
  PROVE  IInv'
<1> USE DEF IInv
<1>1. tick' \in TickType /\ (tick'.pc = "release" => tick'.del \in AJob)
  <2>1. CASE tick' = Taken(a)
    BY <2>1, TakenType
  <2>2. CASE tick' = [Taken(a) EXCEPT !.pc = "release", !.del = a]
    BY <2>2, TakenType DEF TickType, TickPc
  <2> QED
    BY <2>1, <2>2 DEF MirrorRemoved
<1>2. UNCHANGED <<dbVars, queue, pump, routeVars>>
  BY DEF MirrorRemoved
<1>3. AddonType'
  <2>1. CASE CancelCall(a)
    BY <2>1, CancelCallType
  <2>2. CASE UNCHANGED addonVars
    BY <2>2 DEF addonVars, AddonType
  <2> QED
    BY <2>1, <2>2 DEF MirrorRemoved
<1>4. DbType' /\ WorkType' /\ RouteType' /\ Working'
  BY <1>1, <1>2 DEF DbType, WorkType, RouteType, Working, dbVars, routeVars
<1>5. Sound' /\ Linked'
  BY <1>2, CardsUntouched DEF dbVars, routeVars
<1> QED
  BY <1>3, <1>4, <1>5

\* What the mirror makes of the card c, found or just minted as "base".
LEMMA MirrorIntoFacts ==
  ASSUME IInv, NEW a \in AJob, NEW c \in Card, NEW base \in Card_Row,
         base.ref # NoJob, SoundCard(base, row[c]),
         tick.pc = "mirror", MirrorInto(a, c, base)
  PROVE  /\ tick' \in TickType /\ (tick'.pc = "release" => tick'.del \in AJob)
         /\ queue' \in Seq(QueueType)
         /\ \/ base.cancel /\ UNCHANGED <<job, row>>
            \/ \E k \in Card_Row, rows \in Rows :
                 /\ job' = [job EXCEPT ![c] = k] /\ row' = [row EXCEPT ![c] = rows]
                 /\ SoundCard(k, rows) /\ Kept(base, k)
<1> DEFINE snap == tick.listed[a]
           rows == MirroredRows(row[c], a, snap)
           seen == [Taken(a) EXCEPT !.handled = @ \union {c}]
<1> USE DEF IInv
<1>1. snap \in AddonJob
  BY TickFields
<1>2. /\ rows \in Rows
      /\ ~Has(row[c], "superseded") => ~Has(rows, "superseded")
  BY <1>1, MirroredRowsFacts DEF DbType
<1>3. seen \in TickType /\ seen.pc = "mirror"
  BY TakenType DEF TickType
<1>4. [seen EXCEPT !.pc = "release", !.del = a] \in TickType
  BY <1>3 DEF TickType, TickPc
<1>5. tick' \in TickType /\ (tick'.pc = "release" => tick'.del \in AJob)
  <2>1. tick' = seen \/ tick' = [seen EXCEPT !.pc = "release", !.del = a]
    BY DEF MirrorInto
  <2> HIDE DEF seen
  <2> QED
    BY <2>1, <1>3, <1>4 DEF TickType
<1>6. Enqueue(c, a, snap) \in Seq(QueueType)
  BY <1>1, EnqueueType
<1>7. queue' \in Seq(QueueType)
  <2>1. queue' = Enqueue(c, a, snap) \/ queue' = queue
    BY DEF MirrorInto
  <2> QED
    BY <2>1, <1>6 DEF WorkType
<1> HIDE DEF rows, seen
<1>8. SoundCard(base, rows)
  BY <1>2 DEF SoundCard
<1>9. CASE base.cancel /\ UNCHANGED <<job, row>>
  BY <1>5, <1>7, <1>9
<1>10. ASSUME NEW aged, job' = [job EXCEPT ![c] = Recompute(base, rows, aged)],
              row' = [row EXCEPT ![c] = rows]
       PROVE  \E k \in Card_Row, r \in Rows :
                 /\ job' = [job EXCEPT ![c] = k] /\ row' = [row EXCEPT ![c] = r]
                 /\ SoundCard(k, r) /\ Kept(base, k)
  <2>1. Recompute(base, rows, aged) \in Card_Row
    BY RecomputeFacts
  <2> QED
    BY <1>2, <1>8, <1>10, <2>1, RecomputeSound
<1>11. ASSUME NEW aged, NEW e \in BOOLEAN,
              job' = [job EXCEPT ![c] =
                        Outcome(Recompute(base, rows, aged), rows, a, snap, e, aged)],
              row' = [row EXCEPT ![c] = OutcomeRows(rows, a, snap)]
       PROVE  \E k \in Card_Row, r \in Rows :
                 /\ job' = [job EXCEPT ![c] = k] /\ row' = [row EXCEPT ![c] = r]
                 /\ SoundCard(k, r) /\ Kept(base, k)
  <2> DEFINE ruled == Recompute(base, rows, aged)
             k     == Outcome(ruled, rows, a, snap, e, aged)
  <2>1. ruled \in Card_Row
    BY RecomputeFacts
  <2>2. SoundCard(ruled, rows) /\ Kept(base, ruled)
    BY <1>8, RecomputeSound
  <2> HIDE DEF ruled
  <2>3. /\ k \in Card_Row
        /\ SoundCard(k, OutcomeRows(rows, a, snap)) /\ Kept(ruled, k)
    BY <1>2, <2>1, <2>2, OutcomeFacts
  <2>4. OutcomeRows(rows, a, snap) \in Rows
    BY <1>2, OutcomeRowsFacts
  <2>5. Kept(base, k)
    BY <2>2, <2>3, KeptTransitive
  <2> QED
    BY <1>11, <2>3, <2>4, <2>5 DEF ruled
<1>12. MirrorInto(a, c, base) =>
         \/ base.cancel /\ UNCHANGED <<job, row>>
         \/ \E aged \in AgedSets : /\ job' = [job EXCEPT ![c] = Recompute(base, rows, aged)]
                                   /\ row' = [row EXCEPT ![c] = rows]
         \/ \E aged \in AgedSets, e \in Errs :
              /\ job' = [job EXCEPT ![c] =
                           Outcome(Recompute(base, rows, aged), rows, a, snap, e, aged)]
              /\ row' = [row EXCEPT ![c] = OutcomeRows(rows, a, snap)]
  BY DEF MirrorInto, rows
<1> QED
  BY <1>5, <1>7, <1>9, <1>10, <1>11, <1>12, ErrsType

LEMMA MirrorMappedStep ==
  ASSUME IInv, NEW a \in AJob, tick.pc = "mirror", MirrorMapped(a)
  PROVE  IInv'
<1> USE DEF IInv
<1> DEFINE c == jobmap[a].card
<1>1. c \in Card /\ Live(job[c]) /\ MirrorInto(a, c, job[c])
  BY DEF MirrorMapped, DbType
<1>2. UNCHANGED <<filed, library, jobmap, released, addonVars, pump, routeVars>>
  BY DEF MirrorMapped
<1>3. /\ job[c] \in Card_Row /\ row[c] \in Rows
      /\ SoundCard(job[c], row[c]) /\ job[c].ref # NoJob
  BY <1>1 DEF DbType, Sound, Linked, MapLinked, MirrorMapped
<1> HIDE DEF c
<1>4. /\ tick' \in TickType /\ (tick'.pc = "release" => tick'.del \in AJob)
      /\ queue' \in Seq(QueueType)
      /\ \/ UNCHANGED <<job, row>>
         \/ \E k \in Card_Row, rows \in Rows :
              /\ job' = [job EXCEPT ![c] = k] /\ row' = [row EXCEPT ![c] = rows]
              /\ SoundCard(k, rows) /\ Kept(job[c], k)
  BY <1>1, <1>3, MirrorIntoFacts
<1>5. DbType' /\ Sound' /\ Linked'
  <2>1. CASE UNCHANGED <<job, row>>
    <3>1. DbType'
      BY <2>1, <1>2 DEF DbType
    <3> QED
      BY <2>1, <3>1, <1>2, CardsUntouched DEF routeVars
  <2>2. ASSUME NEW k \in Card_Row, NEW rows \in Rows,
               job' = [job EXCEPT ![c] = k], row' = [row EXCEPT ![c] = rows],
               SoundCard(k, rows), Kept(job[c], k)
        PROVE  DbType' /\ Sound' /\ Linked'
    BY <2>2, <1>1, <1>2, OneCardSound, OneCardKept, LinksKept DEF DbType, routeVars
  <2> QED
    BY <2>1, <2>2, <1>4
<1>6. AddonType' /\ WorkType' /\ RouteType' /\ Working'
  BY <1>2, <1>4 DEF AddonType, WorkType, RouteType, Working, addonVars, routeVars
<1> QED
  BY <1>5, <1>6

\* A card that is written for the first time, for the addon job a.
LEMMA CardBorn ==
  ASSUME IInv, NEW a \in AJob, NEW c \in Minted, NEW k \in Card_Row, NEW rows \in Rows,
         NEW e \in 0..MaxEpoch,
         job' = [job EXCEPT ![c] = k], row' = [row EXCEPT ![c] = rows],
         jobmap' = [jobmap EXCEPT ![a] = [card |-> c, epoch |-> e]],
         SoundCard(k, rows), k.state # "unborn", k.ref # NoJob,
         await' \subseteq await, swap' = swap,
         UNCHANGED <<filed, library>>, released' \subseteq released
  PROVE  DbType' /\ Sound' /\ Linked'
<1> USE DEF IInv
<1>1. c \in Card /\ job[c].state = "unborn"
  BY DEF Minted
<1>2. \A d \in Card : Kept(job[d], job'[d])
  BY <1>1, KeptReflexive DEF Kept, DbType
<1>3. DbType'
  BY <1>1 DEF DbType
<1>4. Sound'
  BY <1>1, OneCardSound
<1>5. MapLinked'
  <2> SUFFICES ASSUME NEW b \in AJob, jobmap'[b].card # NoCard
               PROVE  LET d == jobmap'[b].card IN
                        job'[d].state # "unborn" /\ (Live(job'[d]) => job'[d].ref # NoJob)
    BY DEF MapLinked
  <2>1. CASE b = a
    BY <1>1, <2>1 DEF DbType
  <2>2. CASE b # a
    <3>1. jobmap'[b] = jobmap[b] /\ jobmap[b].card \in Card
      BY <2>2 DEF DbType
    <3> QED
      BY <3>1, <1>2 DEF Linked, MapLinked, Kept
  <2> QED
    BY <2>1, <2>2
<1>6. AwaitLinked'
  BY <1>2, AwaitKept DEF Linked
<1>7. SwapLinked'
  BY <1>2, SwapKept DEF Linked, SwapLinked
<1> QED
  BY <1>3, <1>4, <1>5, <1>6, <1>7 DEF Linked

LEMMA MirrorMintedStep ==
  ASSUME IInv, NEW a \in AJob, tick.pc = "mirror", MirrorMinted(a)
  PROVE  IInv'
<1> USE DEF IInv
<1>1. PICK c \in Minted :
        /\ jobmap' = [jobmap EXCEPT ![a] = [card |-> c, epoch |-> tick.listed[a].epoch]]
        /\ MirrorInto(a, c, Created(a))
  BY DEF MirrorMinted
<1>2. UNCHANGED <<filed, library, addonVars, pump, routeVars>>
  BY DEF MirrorMinted
<1>3. c \in Card /\ row[c] \in Rows /\ tick.listed[a].epoch \in 0..MaxEpoch
  BY TickFields DEF Minted, DbType, AddonJob
<1>4. /\ Created(a) \in Card_Row /\ Created(a).ref # NoJob
      /\ Created(a).state = "active" /\ ~Created(a).cancel
      /\ SoundCard(Created(a), row[c])
  BY CreatedFacts, NoJobAssumption DEF Created, Unborn
<1>5. /\ tick' \in TickType /\ (tick'.pc = "release" => tick'.del \in AJob)
      /\ queue' \in Seq(QueueType)
      /\ \E k \in Card_Row, rows \in Rows :
              /\ job' = [job EXCEPT ![c] = k] /\ row' = [row EXCEPT ![c] = rows]
              /\ SoundCard(k, rows) /\ Kept(Created(a), k)
  BY <1>1, <1>3, <1>4, MirrorIntoFacts
<1>6. PICK k \in Card_Row, rows \in Rows :
        /\ job' = [job EXCEPT ![c] = k] /\ row' = [row EXCEPT ![c] = rows]
        /\ SoundCard(k, rows) /\ Kept(Created(a), k)
  BY <1>5
<1>7. k.state # "unborn" /\ k.ref # NoJob
  BY <1>4, <1>6 DEF Kept
<1>8. released' \subseteq released
  BY DEF MirrorMinted
<1>9. DbType' /\ Sound' /\ Linked'
  BY <1>1, <1>2, <1>3, <1>6, <1>7, <1>8, CardBorn DEF routeVars
<1>10. AddonType' /\ WorkType' /\ RouteType' /\ Working'
  BY <1>2, <1>5 DEF AddonType, WorkType, RouteType, Working, addonVars, routeVars
<1> QED
  BY <1>9, <1>10

\* Every step of the tick.
LEMMA TickSteps ==
  ASSUME IInv, Tick
  PROVE  IInv'
<1>1. ASSUME NEW a \in AJob, Mirror(a)
      PROVE  IInv'
  BY <1>1, MirrorRemovedStep, MirrorMappedStep, MirrorMintedStep DEF Mirror
<1> QED
  BY <1>1, TickQuietSteps, TickReleaseStep, StrandedStep, OrphanAnswerStep, TickCancelsStep
     DEF Tick

-------------------------------------------------------------------------------
(* The ingest pump *)

LEMMA PumpFields ==
  ASSUME WorkType
  PROVE  /\ pump.pc \in PumpPc /\ pump.card \in Card \union {NoCard}
         /\ pump.a \in AJob \union {NoJob} /\ pump.snap \in AddonJob
         /\ pump.todo \subseteq Item /\ pump.batch \subseteq Item
  BY DEF WorkType, PumpType

LEMMA PumpIdleType == PumpIdle \in PumpType /\ PumpIdle.pc = "idle"
  BY ItemsType DEF PumpIdle, PumpType, PumpPc

LEMMA PumpStartStep ==
  ASSUME IInv, PumpStart
  PROVE  IInv'
<1> USE DEF IInv
<1> DEFINE h == Head(queue)
<1>1. h \in QueueType /\ queue' \in Seq(QueueType)
  BY DEF PumpStart, WorkType
<1>2. h.card \in Card /\ h.a \in AJob /\ h.snap \in AddonJob /\ Ready(h.snap) \subseteq Item
  BY <1>1 DEF QueueType, Ready
<1> HIDE DEF h
<1>3. pump' = [pc |-> "fetch", card |-> h.card, a |-> h.a, snap |-> h.snap,
               todo |-> IF job[h.card].discarded THEN {} ELSE Ready(h.snap), batch |-> {}]
  BY DEF PumpStart, h
<1>4. pump' \in PumpType /\ pump'.card \in Card /\ pump'.a \in AJob
  BY <1>2, <1>3 DEF PumpType, PumpPc
<1>5. UNCHANGED <<dbVars, addonVars, tick, routeVars>>
  BY DEF PumpStart
<1>6. DbType' /\ AddonType' /\ WorkType' /\ RouteType' /\ Working'
  BY <1>1, <1>4, <1>5 DEF DbType, AddonType, WorkType, RouteType, Working, dbVars,
                         addonVars, routeVars
<1>7. Sound' /\ Linked'
  BY <1>5, CardsUntouched DEF dbVars, routeVars
<1> QED
  BY <1>6, <1>7

LEMMA PumpFetchStep ==
  ASSUME IInv, NEW i \in Item, PumpFetch(i)
  PROVE  IInv'
<1> USE DEF IInv
<1>1. /\ pump' \in PumpType /\ pump'.pc = pump.pc
      /\ pump'.card = pump.card /\ pump'.a = pump.a
  <2>1. pump \in PumpType /\ pump.todo \subseteq Item /\ pump.batch \subseteq Item
    BY PumpFields DEF WorkType
  <2>2. \/ pump' = [pump EXCEPT !.todo = @ \ {i}, !.batch = @ \union {i}]
        \/ pump' = [pump EXCEPT !.todo = @ \ {i}]
    BY DEF PumpFetch
  <2> QED
    BY <2>1, <2>2 DEF PumpType
<1>2. UNCHANGED <<dbVars, addonVars, tick, queue, routeVars>>
  BY DEF PumpFetch
<1>3. DbType' /\ AddonType' /\ WorkType' /\ RouteType' /\ Working'
  BY <1>1, <1>2 DEF DbType, AddonType, WorkType, RouteType, Working, dbVars,
                   addonVars, routeVars
<1>4. Sound' /\ Linked'
  BY <1>2, CardsUntouched DEF dbVars, routeVars
<1> QED
  BY <1>3, <1>4

\* organizeBatch moves rows that exist, to a state of delivery.
LEMMA PumpOrganizeStep ==
  ASSUME IInv, PumpOrganize
  PROVE  IInv'
<1> USE DEF IInv
<1> DEFINE c == pump.card
<1>1. c \in Card /\ pump.a \in AJob
  BY DEF PumpOrganize, Working
<1>2. PICK ok \in {pump.batch} \union (IF "organizeFail" \in Events THEN {{}} ELSE {}) :
        LET K == {k \in {pump.a} \X ok : row[c][k] # "none"}
        IN  /\ row' = [row EXCEPT ![c] = Move(@, K, ItemState, "organized")]
            /\ filed' = [filed EXCEPT ![c] = @ \union K]
            /\ pump' = [pump EXCEPT !.pc = "scan", !.batch = ok]
  BY DEF PumpOrganize
<1> DEFINE K    == {k \in {pump.a} \X ok : row[c][k] # "none"}
           rows == Move(row[c], K, ItemState, "organized")
<1>3. ok \subseteq Item
  BY PumpFields
<1>4. K \subseteq RowKey
  BY <1>1, <1>3 DEF RowKey
<1>5. row[c] \in Rows /\ SoundCard(job[c], row[c])
  BY <1>1 DEF DbType, Sound
<1>6. rows \in Rows
  BY <1>5, MoveType DEF ItemState
<1>7. NoRows(row[c]) => NoRows(rows)
  BY <1>4 DEF NoRows, Move
<1>8. ~Has(row[c], "superseded") => ~Has(rows, "superseded")
  BY MoveNoSuperseded
<1>9. /\ row' = [row EXCEPT ![c] = rows]
      /\ filed' = [filed EXCEPT ![c] = @ \union K]
      /\ pump' = [pump EXCEPT !.pc = "scan", !.batch = ok]
  BY <1>1, <1>2 DEF DbType
<1> HIDE DEF rows, K
<1>10. SoundCard(job[c], rows)
  BY <1>5, <1>7, <1>8 DEF SoundCard
<1>11. UNCHANGED <<job, library, jobmap, released, addonVars, tick, queue, routeVars>>
  BY DEF PumpOrganize
<1>12. DbType'
  BY <1>1, <1>4, <1>6, <1>9, <1>11 DEF DbType
<1>13. Sound'
  <2>1. job' = [job EXCEPT ![c] = job[c]]
    BY <1>11 DEF DbType
  <2> QED
    BY <2>1, <1>1, <1>9, <1>10, OneCardSound
<1>14. Linked'
  BY <1>11, KeptReflexive, LinksKept DEF routeVars
<1>15. /\ pump' \in PumpType /\ pump'.card = pump.card /\ pump'.a = pump.a
  BY <1>3, <1>9 DEF WorkType, PumpType, PumpPc
<1>16. AddonType' /\ WorkType' /\ RouteType' /\ Working'
  BY <1>1, <1>11, <1>15 DEF AddonType, WorkType, RouteType, Working, addonVars, routeVars
<1> QED
  BY <1>12, <1>13, <1>14, <1>16

\* The end of an ingest: the verdict on its card, whose rows the scan may have
\* moved together with those of other cards.
LEMMA FinishFacts ==
  ASSUME IInv, pump.card \in Card, pump.a \in AJob,
         NEW base \in Card_Row, NEW rows \in [Card -> Rows], NEW paths,
         Finish(base, rows, paths), Kept(job[pump.card], base),
         SoundCard(base, rows[pump.card]),
         \A d \in Card : SoundCard(job[d], rows[d])
  PROVE  /\ job' \in [Card -> Card_Row] /\ row' \in [Card -> Rows]
         /\ Sound' /\ (\A d \in Card : Kept(job[d], job'[d]))
         /\ pump' \in PumpType
         /\ pump'.pc # "idle" => pump'.card \in Card /\ pump'.a \in AJob
<1> USE DEF IInv
<1> DEFINE c == pump.card
           closing == OutcomeRows(rows[c], pump.a, pump.snap)
<1>1. PICK aged \in AgedSets, e \in Errs :
        job' = [job EXCEPT ![c] = Outcome(base, rows[c], pump.a, pump.snap, e, aged)]
  BY DEF Finish
<1> DEFINE k == Outcome(base, rows[c], pump.a, pump.snap, e, aged)
<1>2. row' = [rows EXCEPT ![c] = closing]
  BY DEF Finish
<1>3. closing \in Rows
  BY OutcomeRowsFacts
<1>4. k \in Card_Row /\ SoundCard(k, closing) /\ Kept(base, k)
  BY ErrsType, OutcomeFacts
<1>5. job' = [job EXCEPT ![c] = k]
  BY <1>1
<1> HIDE DEF k, closing
<1>6. job' \in [Card -> Card_Row] /\ row' \in [Card -> Rows]
  BY <1>2, <1>3, <1>4, <1>5 DEF DbType
<1>7. Sound'
  BY <1>2, <1>4, <1>5 DEF Sound, DbType
<1>8. Kept(job[c], k)
  BY <1>4, KeptTransitive
<1>9. \A d \in Card : Kept(job[d], job'[d])
  BY <1>5, <1>8, OneCardKept
<1>10. \/ pump' = [pump EXCEPT !.pc = "release", !.snap = NotListed, !.batch = {}]
       \/ pump' = PumpIdle
  BY DEF Finish
<1>11. /\ pump' \in PumpType
       /\ pump'.pc # "idle" => pump'.card \in Card /\ pump'.a \in AJob
  BY <1>10, PumpIdleType, ItemsType DEF WorkType, PumpType, PumpPc
<1> QED
  BY <1>6, <1>7, <1>9, <1>11

LEMMA PumpNothingStep ==
  ASSUME IInv, PumpNothing
  PROVE  IInv'
<1> USE DEF IInv
<1>1. pump.card \in Card /\ pump.a \in AJob
  BY DEF PumpNothing, Working
<1>2. UNCHANGED <<filed, library, jobmap, released, addonVars, tick, queue, routeVars>>
  BY DEF PumpNothing
<1>3. /\ job' \in [Card -> Card_Row] /\ row' \in [Card -> Rows]
      /\ Sound' /\ (\A d \in Card : Kept(job[d], job'[d]))
      /\ pump' \in PumpType
      /\ pump'.pc # "idle" => pump'.card \in Card /\ pump'.a \in AJob
  <2>1. job[pump.card] \in Card_Row /\ row \in [Card -> Rows]
    BY <1>1 DEF DbType
  <2>2. Finish(job[pump.card], row, filed[pump.card])
    BY DEF PumpNothing
  <2>3. \A d \in Card : SoundCard(job[d], row[d])
    BY DEF Sound
  <2> QED
    BY <1>1, <2>1, <2>2, <2>3, KeptReflexive, FinishFacts
<1>4. DbType' /\ AddonType' /\ WorkType' /\ RouteType' /\ Working'
  BY <1>2, <1>3 DEF DbType, AddonType, WorkType, RouteType, Working, addonVars, routeVars
<1>5. Linked'
  BY <1>2, <1>3, LinksKept DEF routeVars
<1> QED
  BY <1>3, <1>4, <1>5

\* The scan moves only rows that exist.
LEMMA ScannedRowsFacts ==
  ASSUME DbType, Sound, NEW found
  PROVE  /\ ScannedRows(found) \in [Card -> Rows]
         /\ \A d \in Card : SoundCard(job[d], ScannedRows(found)[d])
<1> DEFINE K(d) == {k \in filed[d] : k[2] \in found}
           moved(d) == Move(row[d], K(d), ItemState \ {"none", "scanned"}, "scanned")
<1>1. ScannedRows(found) = [d \in Card |-> moved(d)]
  BY DEF ScannedRows
<1>2. ASSUME NEW d \in Card
      PROVE  moved(d) \in Rows /\ SoundCard(job[d], moved(d))
  <2>1. row[d] \in Rows /\ SoundCard(job[d], row[d])
    BY DEF DbType, Sound
  <2>2. moved(d) \in Rows
    BY <2>1, MoveType DEF ItemState
  <2>3. NoRows(row[d]) => NoRows(moved(d))
    BY MoveNoRows
  <2>4. ~Has(row[d], "superseded") => ~Has(moved(d), "superseded")
    BY MoveNoSuperseded
  <2> QED
    BY <2>1, <2>2, <2>3, <2>4 DEF SoundCard
<1> QED
  BY <1>1, <1>2

LEMMA PumpIndexStep ==
  ASSUME IInv, PumpIndex
  PROVE  IInv'
<1> USE DEF IInv
<1>1. pump.card \in Card /\ pump.a \in AJob
  BY DEF PumpIndex, Working
<1>2. UNCHANGED <<job, row, filed, jobmap, released, addonVars, tick, queue, routeVars>>
  BY DEF PumpIndex
<1>3. PICK found \in SUBSET Item :
        /\ library' = library \union found
        /\ pump' = [pump EXCEPT !.pc = "mark", !.batch = found]
  BY PumpFields DEF PumpIndex
<1>4. library' \subseteq Item
  BY <1>3 DEF DbType
<1>5. /\ pump' \in PumpType
      /\ pump'.card \in Card /\ pump'.a \in AJob
  BY <1>1, <1>3 DEF WorkType, PumpType, PumpPc
<1>6. DbType' /\ AddonType' /\ WorkType' /\ RouteType' /\ Working'
  BY <1>2, <1>4, <1>5 DEF DbType, AddonType, WorkType, RouteType, Working, addonVars, routeVars
<1>7. Sound' /\ Linked'
  BY <1>2, CardsUntouched DEF routeVars
<1> QED
  BY <1>6, <1>7

LEMMA PumpScanStep ==
  ASSUME IInv, PumpScan
  PROVE  IInv'
<1> USE DEF IInv
<1> DEFINE c == pump.card
<1>1. c \in Card /\ pump.a \in AJob
  BY DEF PumpScan, Working
<1>2. UNCHANGED <<filed, library, jobmap, released, addonVars, tick, queue, routeVars>>
  BY DEF PumpScan
<1> DEFINE found == pump.batch \intersect library
<1>3. PICK aged \in AgedSets :
        Finish(Recompute(job[c], ScannedRows(found)[c], aged), ScannedRows(found), filed[c])
  BY DEF PumpScan
<1> HIDE DEF found
<1> DEFINE rows == ScannedRows(found)
           base == Recompute(job[c], rows[c], aged)
<1>5. rows \in [Card -> Rows] /\ \A d \in Card : SoundCard(job[d], rows[d])
  BY ScannedRowsFacts
<1>6. job[c] \in Card_Row
  BY <1>1 DEF DbType
<1> HIDE DEF rows
<1>7. base \in Card_Row /\ SoundCard(base, rows[c]) /\ Kept(job[c], base)
  BY <1>1, <1>5, <1>6, RecomputeFacts, RecomputeSound
<1> HIDE DEF base
<1>8. /\ job' \in [Card -> Card_Row] /\ row' \in [Card -> Rows]
      /\ Sound' /\ (\A d \in Card : Kept(job[d], job'[d]))
      /\ pump' \in PumpType
      /\ pump'.pc # "idle" => pump'.card \in Card /\ pump'.a \in AJob
  <2>1. Finish(base, rows, filed[c])
    BY <1>3 DEF base, rows
  <2> QED
    BY <1>1, <1>5, <1>7, <2>1, FinishFacts
<1>9. DbType' /\ AddonType' /\ WorkType' /\ RouteType' /\ Working'
  BY <1>2, <1>8 DEF DbType, AddonType, WorkType, RouteType, Working, addonVars, routeVars
<1>10. Linked'
  BY <1>2, <1>8, LinksKept DEF routeVars
<1> QED
  BY <1>8, <1>9, <1>10

\* Every step of the pump.
LEMMA PumpSteps ==
  ASSUME IInv, Pump
  PROVE  IInv'
<1>1. ASSUME PumpRelease
      PROVE  IInv'
  <2> USE DEF IInv
  <2>1. pump.a \in AJob
    BY <1>1 DEF PumpRelease, Working
  <2>2. AddonType' /\ released' \subseteq AJob
    BY <1>1, <2>1, DeleteCallType DEF PumpRelease
  <2>3. UNCHANGED <<job, row, filed, library, jobmap, tick, queue, routeVars>> /\ pump' = PumpIdle
    BY <1>1 DEF PumpRelease
  <2>4. DbType' /\ WorkType' /\ RouteType' /\ Working'
    BY <2>2, <2>3, PumpIdleType DEF DbType, WorkType, RouteType, Working, routeVars
  <2>5. Sound' /\ Linked'
    BY <2>3, CardsUntouched DEF routeVars
  <2> QED
    BY <2>2, <2>4, <2>5
<1> QED
  BY <1>1, PumpStartStep, PumpFetchStep, PumpNothingStep, PumpOrganizeStep,
     PumpIndexStep, PumpScanStep
     DEF Pump

-------------------------------------------------------------------------------
(* Submitting *)

\* The link of one request outlives an update of the cards.
LEMMA RequestKept ==
  ASSUME RouteType, AwaitLinked, NEW w \in await,
         \A c \in Card : Kept(job[c], job'[c])
  PROVE  /\ w.a \in AJob \union {NoJob} /\ w.card \in Card \union {NoCard}
         /\ w.epoch \in 0..MaxEpoch
         /\ w.card = NoCard => w.a # NoJob
         /\ w.card # NoCard => /\ job'[w.card].state # "unborn"
                               /\ Live(job'[w.card]) => job'[w.card].url
<1>1. w \in Request
  BY DEF RouteType
<1> QED
  BY <1>1 DEF AwaitLinked, Kept, Request

LEMMA SubmitAlbumStep ==
  ASSUME IInv, NEW a \in AJob, SubmitAlbum(a)
  PROVE  IInv'
<1> USE DEF IInv
<1>1. PICK titles \in Titles : AddonCreate(a, titles)
  BY DEF SubmitAlbum
<1>2. AddonType'
  BY <1>1, AddonCreateType
<1> DEFINE new == [a |-> a, epoch |-> boot, card |-> NoCard]
<1>3. await' = await \union {new} /\ UNCHANGED <<dbVars, workVars, swap, dropping, discard>>
  BY DEF SubmitAlbum
<1>4. new \in Request
  BY DEF Request, AddonType
<1>5. DbType' /\ WorkType' /\ RouteType' /\ Working'
  BY <1>3, <1>4 DEF DbType, WorkType, RouteType, Working, dbVars, workVars
<1>6. Sound' /\ MapLinked' /\ SwapLinked'
  BY <1>3 DEF Sound, Linked, MapLinked, SwapLinked, dbVars
<1>7. AwaitLinked'
  <2>1. AwaitLinked /\ job' = job
    BY <1>3 DEF Linked, dbVars
  <2>2. new.card = NoCard /\ new.a # NoJob
    BY NoJobAssumption
  <2> QED
    BY <1>3, <2>1, <2>2 DEF AwaitLinked
<1> QED
  BY <1>2, <1>5, <1>6, <1>7 DEF Linked

LEMMA AlbumAnswerStep ==
  ASSUME IInv, NEW w \in await, AlbumAnswer(w)
  PROVE  IInv'
<1> USE DEF IInv
<1>1. w.a \in AJob /\ w.epoch \in 0..MaxEpoch
  BY DEF AlbumAnswer, Linked, AwaitLinked, RouteType, Request
<1>2. PICK c \in Minted, e \in {0, w.epoch} :
        /\ job' = [job EXCEPT ![c] = Created(w.a)]
        /\ jobmap' = [jobmap EXCEPT ![w.a] = [card |-> c, epoch |-> e]]
  BY DEF AlbumAnswer
<1>3. /\ UNCHANGED <<row, filed, library, released, addonVars, workVars, swap, dropping, discard>>
      /\ await' \subseteq await
  BY DEF AlbumAnswer
<1>4. c \in Card /\ row[c] \in Rows /\ row' = [row EXCEPT ![c] = row[c]] /\ e \in 0..MaxEpoch
  BY <1>1, <1>3, PipelineAssumption DEF Minted, DbType
<1>5. /\ Created(w.a) \in Card_Row /\ SoundCard(Created(w.a), row[c])
      /\ Created(w.a).state # "unborn" /\ Created(w.a).ref # NoJob
  BY <1>1, CreatedFacts, NoJobAssumption
<1>6. DbType' /\ Sound' /\ Linked'
  BY <1>1, <1>2, <1>3, <1>4, <1>5, CardBorn
<1>7. AddonType' /\ WorkType' /\ RouteType' /\ Working'
  BY <1>3 DEF AddonType, WorkType, RouteType, Working, addonVars, workVars
<1> QED
  BY <1>6, <1>7

LEMMA SubmitUrlStep ==
  ASSUME IInv, NEW c \in Card, SubmitUrl(c)
  PROVE  IInv'
<1> USE DEF IInv
<1> DEFINE new == [a |-> NoJob, epoch |-> 0, card |-> c]
<1>1. /\ job[c].state = "unborn" /\ job' = [job EXCEPT ![c] = Reserved]
      /\ await' = await \union {new}
      /\ UNCHANGED <<row, filed, library, jobmap, released, addonVars, workVars,
                     swap, dropping, discard>>
  BY DEF SubmitUrl
<1>2. NoRows(row[c])
  BY <1>1 DEF Sound, SoundCard
<1>3. /\ Reserved \in Card_Row /\ Reserved.state = "active" /\ Reserved.url
      /\ SoundCard(Reserved, row[c])
  BY <1>2, ReservedFacts
<1>4. \A d \in Card : Kept(job[d], job'[d])
  BY <1>1, KeptReflexive DEF Kept, DbType
<1>5. new \in Request
  BY PipelineAssumption DEF Request
<1>6. DbType' /\ AddonType' /\ WorkType' /\ RouteType' /\ Working'
  BY <1>1, <1>3, <1>5 DEF DbType, AddonType, WorkType, RouteType, Working, addonVars, workVars
<1>7. Sound'
  BY <1>1, <1>3, OneCardJobSound
<1>8. MapLinked'
  BY <1>1, <1>4, MapKept DEF Linked
<1>9. SwapLinked'
  BY <1>1, <1>4, SwapKept DEF Linked, SwapLinked
<1>10. AwaitLinked'
  <2>1. job'[c] = Reserved
    BY <1>1 DEF DbType
  <2>2. new.card = c /\ c # NoCard
    BY PipelineAssumption
  <2>3. AwaitLinked
    BY DEF Linked
  <2>4. ASSUME NEW w \in await'
        PROVE  /\ w.card = NoCard => w.a # NoJob
               /\ w.card # NoCard => /\ job'[w.card].state # "unborn"
                                     /\ Live(job'[w.card]) => job'[w.card].url
    <3>1. CASE w \in await
      BY <3>1, <2>3, <1>4, RequestKept
    <3>2. CASE w = new
      BY <3>2, <2>1, <2>2, <1>3
    <3> QED
      BY <3>1, <3>2, <1>1
  <2> QED
    BY <2>4 DEF AwaitLinked
<1> QED
  BY <1>6, <1>7, <1>8, <1>9, <1>10 DEF Linked

LEMMA UrlAcceptedStep ==
  ASSUME IInv, NEW w \in await, NEW a \in AJob, UrlAccepted(w, a)
  PROVE  IInv'
<1> USE DEF IInv
<1> DEFINE new == [w EXCEPT !.a = a, !.epoch = boot]
<1>1. PICK titles \in Titles : AddonCreate(a, titles)
  BY DEF UrlAccepted
<1>2. AddonType'
  BY <1>1, AddonCreateType
<1>3. /\ await' = (await \ {w}) \union {new}
      /\ UNCHANGED <<dbVars, workVars, swap, dropping, discard>>
  BY DEF UrlAccepted
<1>4. w \in Request /\ boot \in 0..MaxEpoch
  BY PipelineAssumption DEF RouteType, AddonType
<1>5. new \in Request /\ new.card = w.card /\ new.a # NoJob
  BY <1>4, NoJobAssumption DEF Request
<1> HIDE DEF new
<1>6. DbType' /\ WorkType' /\ RouteType' /\ Working'
  BY <1>3, <1>5 DEF DbType, WorkType, RouteType, Working, dbVars, workVars
<1>7. Sound' /\ MapLinked' /\ SwapLinked'
  BY <1>3 DEF Sound, Linked, MapLinked, SwapLinked, dbVars
<1>8. AwaitLinked'
  <2>1. AwaitLinked /\ job' = job
    BY <1>3 DEF Linked, dbVars
  <2> QED
    BY <1>3, <1>5, <2>1 DEF AwaitLinked
<1> QED
  BY <1>2, <1>6, <1>7, <1>8 DEF Linked

LEMMA UrlAnswerStep ==
  ASSUME IInv, NEW w \in await, UrlAnswer(w)
  PROVE  IInv'
<1> USE DEF IInv
<1> DEFINE c == w.card
           k == Attached(job[c], w.a)
<1>1. c \in Card /\ w.a \in AJob /\ job[c].state # "unborn"
  BY DEF UrlAnswer, Linked, AwaitLinked, RouteType, Request
<1>2. /\ job' = [job EXCEPT ![c] = k]
      /\ jobmap' = [jobmap EXCEPT ![w.a] = [card |-> c, epoch |-> 0]]
      /\ await' \subseteq await
      /\ UNCHANGED <<row, filed, library, released, addonVars, workVars, swap, dropping, discard>>
  BY DEF UrlAnswer
<1>3. job[c] \in Card_Row /\ SoundCard(job[c], row[c])
  BY <1>1 DEF DbType, Sound
<1>4. /\ k \in Card_Row /\ Kept(job[c], k) /\ SoundCard(k, row[c])
      /\ Live(k) => k.ref # NoJob
  BY <1>1, <1>3, AttachedFacts
<1> HIDE DEF k, c
<1>5. \A d \in Card : Kept(job[d], job'[d])
  BY <1>1, <1>2, <1>4, OneCardKept
<1>6. DbType' /\ AddonType' /\ WorkType' /\ RouteType' /\ Working'
  BY <1>1, <1>2, <1>4, PipelineAssumption
     DEF DbType, AddonType, WorkType, RouteType, Working, addonVars, workVars
<1>7. Sound'
  BY <1>1, <1>2, <1>4, OneCardJobSound
<1>8. MapLinked'
  <2> SUFFICES ASSUME NEW b \in AJob, jobmap'[b].card # NoCard
               PROVE  LET d == jobmap'[b].card IN
                        job'[d].state # "unborn" /\ (Live(job'[d]) => job'[d].ref # NoJob)
    BY DEF MapLinked
  <2>1. CASE b = w.a
    BY <1>1, <1>2, <1>4, <2>1 DEF DbType, Kept
  <2>2. CASE b # w.a
    <3>1. jobmap'[b] = jobmap[b] /\ jobmap[b].card \in Card
      BY <1>2, <2>2 DEF DbType
    <3> QED
      BY <3>1, <1>5 DEF Linked, MapLinked, Kept
  <2> QED
    BY <2>1, <2>2
<1>9. AwaitLinked'
  BY <1>2, <1>5, AwaitKept DEF Linked
<1>10. SwapLinked'
  BY <1>2, <1>5, SwapKept DEF Linked, SwapLinked
<1> QED
  BY <1>6, <1>7, <1>8, <1>9, <1>10 DEF Linked

\* A step that rewrites one card, and nothing else of the database.
LEMMA OneCardStep ==
  ASSUME IInv, NEW c \in Card, NEW k \in Card_Row,
         job' = [job EXCEPT ![c] = k], SoundCard(k, row[c]), Kept(job[c], k),
         UNCHANGED <<row, filed, jobmap, released>>, library' \subseteq library,
         await' \subseteq await, swap' = swap
  PROVE  DbType' /\ Sound' /\ Linked'
<1> USE DEF IInv
<1>1. DbType'
  BY DEF DbType
<1>2. Sound'
  BY OneCardJobSound
<1>3. Linked'
  BY OneCardKept, LinksKept
<1> QED
  BY <1>1, <1>2, <1>3

LEMMA SubmitFailsStep ==
  ASSUME IInv, NEW w \in await, SubmitFails(w)
  PROVE  IInv'
<1> USE DEF IInv
<1>1. /\ await' \subseteq await
      /\ UNCHANGED <<row, filed, library, jobmap, released, addonVars, workVars,
                     swap, dropping, discard>>
  BY DEF SubmitFails
<1>2. DbType' /\ Sound' /\ Linked'
  <2>1. CASE job' = job
    <3>1. DbType' /\ Sound'
      BY <2>1, <1>1 DEF DbType, Sound
    <3>2. Linked'
      BY <2>1, <1>1, KeptReflexive, LinksKept
    <3> QED
      BY <3>1, <3>2
  <2>2. CASE w.card # NoCard /\ job' = [job EXCEPT ![w.card] = Refused(@)]
    <3>1. w.card \in Card
      BY <2>2 DEF RouteType, Request
    <3>2. job[w.card] \in Card_Row /\ SoundCard(job[w.card], row[w.card])
      BY <3>1 DEF DbType, Sound
    <3> QED
      BY <2>2, <3>1, <3>2, <1>1, RefusedFacts, OneCardStep
  <2> QED
    BY <2>1, <2>2 DEF SubmitFails
<1>3. AddonType' /\ WorkType' /\ RouteType' /\ Working'
  BY <1>1 DEF AddonType, WorkType, RouteType, Working, addonVars, workVars
<1> QED
  BY <1>2, <1>3

LEMMA SupersedeStep ==
  ASSUME IInv, NEW c \in Card, Supersede(c)
  PROVE  IInv'
<1> USE DEF IInv
<1> DEFINE k == [job[c] EXCEPT !.state = "superseded"]
<1>1. /\ job[c].state = "active" /\ job' = [job EXCEPT ![c] = k]
      /\ UNCHANGED <<row, filed, library, jobmap, released, addonVars, workVars, routeVars>>
  BY DEF Supersede
<1>2. job[c] \in Card_Row /\ SoundCard(job[c], row[c])
  BY DEF DbType, Sound
<1>3. k \in Card_Row
  BY <1>2 DEF Card_Row, JobState
<1>4. k.state = "superseded" /\ k.url = job[c].url /\ k.ref = job[c].ref
  BY <1>2 DEF Card_Row
<1> HIDE DEF k
<1>5. SoundCard(k, row[c]) /\ Kept(job[c], k)
  BY <1>1, <1>2, <1>4 DEF SoundCard, Kept, Live
<1>6. DbType' /\ Sound' /\ Linked'
  BY <1>1, <1>3, <1>5, OneCardStep DEF routeVars
<1>7. AddonType' /\ WorkType' /\ RouteType' /\ Working'
  BY <1>1 DEF AddonType, WorkType, RouteType, Working, addonVars, workVars, routeVars
<1> QED
  BY <1>6, <1>7

LEMMA SubmitSteps ==
  ASSUME IInv, Submit
  PROVE  IInv'
BY SubmitAlbumStep, AlbumAnswerStep, SubmitUrlStep, UrlAcceptedStep, UrlAnswerStep,
   SubmitFailsStep, SupersedeStep DEF Submit

-------------------------------------------------------------------------------
(* The routes on one card *)

LEMMA CancelUnownedStep ==
  ASSUME IInv, NEW c \in Card, CancelUnowned(c)
  PROVE  IInv'
<1> USE DEF IInv
<1>1. PICK aged \in AgedSets : job' = [job EXCEPT ![c] = CancelledJob(@, row[c], aged)]
  BY DEF CancelUnowned
<1>2. /\ job[c].ref = NoJob /\ row' = [row EXCEPT ![c] = CancelledRows(row[c])]
      /\ UNCHANGED <<filed, library, jobmap, released, addonVars, workVars, routeVars>>
  BY DEF CancelUnowned, DbType
<1> DEFINE k == CancelledJob(job[c], row[c], aged)
<1>3. job[c] \in Card_Row /\ row[c] \in Rows /\ SoundCard(job[c], row[c])
  BY DEF DbType, Sound
<1>4. k \in Card_Row /\ SoundCard(k, CancelledRows(row[c])) /\ Kept(job[c], k)
  BY <1>2, <1>3, CancelledFacts
<1>5. CancelledRows(row[c]) \in Rows
  BY <1>3, CancelledRowsFacts
<1>6. job' = [job EXCEPT ![c] = k]
  BY <1>1
<1> HIDE DEF k
<1>7. DbType'
  BY <1>2, <1>4, <1>5, <1>6 DEF DbType
<1>8. Sound'
  BY <1>2, <1>4, <1>6, OneCardSound
<1>9. Linked'
  BY <1>2, <1>4, <1>6, OneCardKept, LinksKept DEF routeVars
<1>10. AddonType' /\ WorkType' /\ RouteType' /\ Working'
  BY <1>2 DEF AddonType, WorkType, RouteType, Working, addonVars, workVars, routeVars
<1> QED
  BY <1>7, <1>8, <1>9, <1>10

LEMMA CancelStep ==
  ASSUME IInv, NEW c \in Card, Cancel(c)
  PROVE  IInv'
<1> USE DEF IInv
<1>1. /\ job[c].ref # NoJob /\ job' = [job EXCEPT ![c] = CancelRequested(job[c])]
      /\ CancelCall(job[c].ref)
      /\ UNCHANGED <<row, filed, library, jobmap, released, workVars, routeVars>>
  BY DEF Cancel, DbType
<1>2. job[c] \in Card_Row /\ SoundCard(job[c], row[c])
  BY DEF DbType, Sound
<1>3. AddonType'
  <2>1. job[c].ref \in AJob
    BY <1>1, <1>2 DEF Card_Row
  <2> QED
    BY <1>1, <2>1, CancelCallType
<1>4. DbType' /\ Sound' /\ Linked'
  BY <1>1, <1>2, MarkerFacts, OneCardStep DEF routeVars
<1>5. WorkType' /\ RouteType' /\ Working'
  BY <1>1 DEF WorkType, RouteType, Working, workVars, routeVars
<1> QED
  BY <1>3, <1>4, <1>5

LEMMA RemoveStartStep ==
  ASSUME IInv, NEW c \in Card, RemoveStart(c)
  PROVE  IInv'
<1> USE DEF IInv
<1>1. /\ dropping' = dropping \union {c}
      /\ UNCHANGED <<dbVars, workVars, await, swap, discard>>
  BY DEF RemoveStart
<1>2. AddonType'
  <2>1. job[c].ref \in AJob \union {NoJob}
    BY DEF DbType, Card_Row
  <2>2. CASE job[c].ref # NoJob /\ AddonDrop(job[c].ref)
    BY <2>2, AddonDropType
  <2>3. CASE job[c].ref # NoJob /\ CancelCall(job[c].ref)
    BY <2>1, <2>3, CancelCallType
  <2>4. CASE UNCHANGED addonVars
    BY <2>4 DEF AddonType, addonVars
  <2> QED
    BY <2>2, <2>3, <2>4 DEF RemoveStart
<1>3. DbType' /\ WorkType' /\ RouteType' /\ Working'
  BY <1>1 DEF DbType, WorkType, RouteType, Working, dbVars, workVars
<1>4. Sound' /\ Linked'
  BY <1>1, CardsUntouched DEF dbVars
<1> QED
  BY <1>2, <1>3, <1>4

LEMMA RemoveRowsStep ==
  ASSUME IInv, NEW c \in Card, RemoveRows(c)
  PROVE  IInv'
<1> USE DEF IInv
<1> DEFINE k    == IF Live(job[c]) THEN Removed(job[c]) ELSE job[c]
           none == [x \in RowKey |-> "none"]
<1>1. /\ job' = [job EXCEPT ![c] = k] /\ row' = [row EXCEPT ![c] = none]
      /\ filed' = [filed EXCEPT ![c] = {}] /\ dropping' \subseteq dropping
      /\ UNCHANGED <<library, jobmap, released, addonVars, workVars, await, swap, discard>>
  BY DEF RemoveRows, DbType
<1>2. job[c] \in Card_Row /\ SoundCard(job[c], row[c])
  BY DEF DbType, Sound
<1>3. none \in Rows /\ NoRows(none) /\ ~Has(none, "superseded")
  BY DEF Rows, ItemState, NoRows, Has
<1> HIDE DEF none
<1>4. k \in Card_Row /\ SoundCard(k, none) /\ Kept(job[c], k)
  <2>1. CASE Live(job[c])
    BY <2>1, <1>2, <1>3, RemovedFacts
  <2>2. CASE ~Live(job[c])
    BY <2>2, <1>2, <1>3, KeptReflexive DEF SoundCard
  <2> QED
    BY <2>1, <2>2
<1> HIDE DEF k
<1>5. DbType'
  BY <1>1, <1>3, <1>4 DEF DbType
<1>6. Sound'
  BY <1>1, <1>4, OneCardSound
<1>7. Linked'
  BY <1>1, <1>4, OneCardKept, LinksKept
<1>8. AddonType' /\ WorkType' /\ RouteType' /\ Working'
  BY <1>1 DEF AddonType, WorkType, RouteType, Working, addonVars, workVars
<1> QED
  BY <1>5, <1>6, <1>7, <1>8

LEMMA DiscardSteps ==
  ASSUME IInv, DiscardDelete \/ \E c \in Card : DiscardStart(c)
  PROVE  IInv'
<1> USE DEF IInv
<1>1. ASSUME NEW c \in Card, DiscardStart(c)
      PROVE  IInv'
  <2>1. /\ job' = [job EXCEPT ![c] = Discarded(job[c])]
        /\ discard' = [card |-> c, titles |-> {k[2] : k \in filed[c]}]
        /\ UNCHANGED <<row, filed, library, jobmap, released, addonVars, workVars,
                       await, swap, dropping>>
    BY <1>1 DEF DiscardStart, DbType
  <2>2. job[c] \in Card_Row /\ SoundCard(job[c], row[c])
    BY DEF DbType, Sound
  <2>3. DbType' /\ Sound' /\ Linked'
    BY <2>1, <2>2, MarkerFacts, OneCardStep
  <2>4. \A k \in filed[c] : k[2] \in Item
    BY DEF DbType, RowKey
  <2>5. AddonType' /\ WorkType' /\ RouteType' /\ Working'
    BY <2>1, <2>4 DEF AddonType, WorkType, RouteType, Working, addonVars, workVars
  <2> QED
    BY <2>3, <2>5
<1>2. ASSUME DiscardDelete
      PROVE  IInv'
  <2> DEFINE c == discard.card
  <2>1. PICK aged \in AgedSets : job' = [job EXCEPT ![c] = Recompute(@, row[c], aged)]
    BY <1>2 DEF DiscardDelete
  <2>2. /\ library' \subseteq library /\ discard' = NoDiscard
        /\ UNCHANGED <<row, filed, jobmap, released, addonVars, workVars, await, swap, dropping>>
    BY <1>2 DEF DiscardDelete
  <2>3. c \in Card
    BY <1>2 DEF DiscardDelete, RouteType
  <2>4. job[c] \in Card_Row /\ SoundCard(job[c], row[c])
    BY <2>3 DEF DbType, Sound
  <2> DEFINE k == Recompute(job[c], row[c], aged)
  <2>5. DbType' /\ Sound' /\ Linked'
    <3>1. k \in Card_Row /\ SoundCard(k, row[c]) /\ Kept(job[c], k)
      BY <2>4, RecomputeFacts, RecomputeSound
    <3>2. job' = [job EXCEPT ![c] = k]
      BY <2>1
    <3> HIDE DEF k
    <3> QED
      BY <2>2, <2>3, <3>1, <3>2, OneCardStep
  <2>6. AddonType' /\ WorkType' /\ RouteType' /\ Working'
    BY <2>2 DEF AddonType, WorkType, RouteType, Working, addonVars, workVars, NoDiscard
  <2> QED
    BY <2>5, <2>6
<1> QED
  BY <1>1, <1>2

-------------------------------------------------------------------------------
(* Re-sourcing *)

LEMMA SwapIdleType == SwapIdle \in SwapType /\ SwapIdle.pc = "idle"
  BY DEF SwapIdle, SwapType, SwapPc

\* The steps that only move the request along, between its two calls.
LEMMA ResourceQuietSteps ==
  ASSUME IInv,
         \/ \E c \in Card : ResourceStart(c)
         \/ ResourceCancel
         \/ \E a \in AJob : ResourceCreate(a)
  PROVE  IInv'
<1> USE DEF IInv
<1>1. UNCHANGED <<dbVars, workVars, await, dropping, discard>>
  BY DEF ResourceStart, ResourceCancel, ResourceCreate
<1>2. /\ swap' \in SwapType /\ swap'.card \in Card
      /\ swap'.pc = "cancel" => swap'.old \in AJob
      /\ swap'.pc = "record" => swap'.new \in AJob
      /\ ~job[swap'.card].url /\ job[swap'.card].state # "unborn"
      /\ job[swap'.card].ref # NoJob
      /\ AddonType'
  <2>1. ASSUME NEW c \in Card, ResourceStart(c)
        PROVE  /\ swap' \in SwapType /\ swap'.card = c
               /\ swap'.pc = "cancel" /\ swap'.old = job[c].ref
               /\ Live(job[c]) /\ ~job[c].url /\ job[c].ref # NoJob
               /\ UNCHANGED addonVars
    <3>1. PICK titles \in SUBSET Offerable(row[c]) :
            swap' = [SwapIdle EXCEPT !.pc = "cancel", !.card = c, !.titles = titles,
                                     !.old = job[c].ref]
      BY <2>1 DEF ResourceStart
    <3>2. titles \subseteq Item
      BY DEF Offerable, TitlesIn, NotOffered
    <3>3. job[c].ref \in AJob \union {NoJob}
      BY DEF DbType, Card_Row
    <3> QED
      BY <2>1, <3>1, <3>2, <3>3 DEF ResourceStart, SwapIdle, SwapType, SwapPc
  <2>2. ASSUME ResourceCancel
        PROVE  /\ swap' \in SwapType /\ swap'.card = swap.card /\ swap'.pc = "create"
               /\ swap.pc # "idle" /\ AddonType'
    <3>1. swap.old \in AJob
      BY <2>2 DEF ResourceCancel, Working
    <3> QED
      BY <2>2, <3>1, CancelCallType DEF ResourceCancel, RouteType, SwapType, SwapPc
  <2>3. ASSUME NEW a \in AJob, ResourceCreate(a)
        PROVE  /\ swap' \in SwapType /\ swap'.card = swap.card /\ swap'.pc = "record"
               /\ swap'.new = a /\ swap.pc # "idle" /\ AddonType'
    BY <2>3, AddonCreateType DEF ResourceCreate, RouteType, SwapType, SwapPc
  <2>4. ASSUME NEW c \in Card, ResourceStart(c)
        PROVE  job[c].ref \in AJob /\ job[c].state # "unborn" /\ AddonType'
    BY <2>1, <2>4 DEF DbType, Card_Row, Live, AddonType, addonVars
  <2> QED
    BY <2>1, <2>2, <2>3, <2>4 DEF Linked, SwapLinked, Working
<1>3. DbType' /\ WorkType' /\ RouteType' /\ Working'
  BY <1>1, <1>2 DEF DbType, WorkType, RouteType, Working, dbVars, workVars
<1>4. Sound' /\ MapLinked' /\ AwaitLinked'
  BY <1>1 DEF Sound, Linked, MapLinked, AwaitLinked, dbVars
<1>5. SwapLinked'
  BY <1>1, <1>2 DEF SwapLinked, dbVars
<1> QED
  BY <1>2, <1>3, <1>4, <1>5 DEF Linked

LEMMA ResourceRefusedStep ==
  ASSUME IInv, ResourceRefused
  PROVE  IInv'
<1> USE DEF IInv
<1> DEFINE c == swap.card
<1>1. PICK aged \in AgedSets : job' = [job EXCEPT ![c] = Recompute(@, row[c], aged)]
  BY DEF ResourceRefused
<1>2. /\ swap' = SwapIdle
      /\ UNCHANGED <<row, filed, library, jobmap, released, addonVars, workVars,
                     await, dropping, discard>>
  BY DEF ResourceRefused
<1>3. c \in Card
  BY DEF ResourceRefused, Working
<1>4. job[c] \in Card_Row /\ SoundCard(job[c], row[c])
  BY <1>3 DEF DbType, Sound
<1> DEFINE k == Recompute(job[c], row[c], aged)
<1>5. k \in Card_Row /\ SoundCard(k, row[c]) /\ Kept(job[c], k)
  BY <1>4, RecomputeFacts, RecomputeSound
<1>6. job' = [job EXCEPT ![c] = k]
  BY <1>1
<1> HIDE DEF k, c
<1>7. DbType' /\ Sound'
  BY <1>2, <1>3, <1>5, <1>6, OneCardJobSound DEF DbType
<1>8. \A d \in Card : Kept(job[d], job'[d])
  BY <1>3, <1>5, <1>6, OneCardKept
<1>9. Linked'
  BY <1>2, <1>8, MapKept, AwaitKept, SwapIdleType DEF Linked, SwapLinked
<1>10. AddonType' /\ WorkType' /\ RouteType' /\ Working'
  BY <1>2, SwapIdleType DEF AddonType, WorkType, RouteType, Working, addonVars, workVars
<1> QED
  BY <1>7, <1>9, <1>10

\* A mapping written for a card that exists and, if it is live, names a job.
LEMMA Mapped ==
  ASSUME DbType, MapLinked, NEW a \in AJob, NEW c \in Card,
         jobmap' = [jobmap EXCEPT ![a] = [card |-> c, epoch |-> 0]],
         job[c].state # "unborn", job[c].ref # NoJob,
         \A d \in Card : Kept(job[d], job'[d])
  PROVE  MapLinked' /\ jobmap' \in [AJob -> [card : Card \union {NoCard}, epoch : 0..MaxEpoch]]
<1>1. jobmap' \in [AJob -> [card : Card \union {NoCard}, epoch : 0..MaxEpoch]]
  BY PipelineAssumption DEF DbType
<1> SUFFICES ASSUME NEW b \in AJob, jobmap'[b].card # NoCard
             PROVE  LET d == jobmap'[b].card IN
                      job'[d].state # "unborn" /\ (Live(job'[d]) => job'[d].ref # NoJob)
  BY <1>1 DEF MapLinked
<1>2. CASE b = a
  BY <1>2 DEF DbType, Kept
<1>3. CASE b # a
  <2>1. jobmap'[b] = jobmap[b] /\ jobmap[b].card \in Card
    BY <1>3 DEF DbType
  <2> QED
    BY <2>1 DEF MapLinked, Kept
<1> QED
  BY <1>2, <1>3

LEMMA ResourceRecordStep ==
  ASSUME IInv, ResourceRecord \/ ResourceRecordGone
  PROVE  IInv'
<1> USE DEF IInv
<1> DEFINE c == swap.card
<1>1. /\ c \in Card /\ swap.new \in AJob
      /\ ~job[c].url /\ job[c].state # "unborn" /\ job[c].ref # NoJob
  BY DEF ResourceRecord, ResourceRecordGone, Working, Linked, SwapLinked
<1>2. /\ jobmap' = [jobmap EXCEPT ![swap.new] = [card |-> c, epoch |-> 0]]
      /\ swap' = SwapIdle
      /\ UNCHANGED <<filed, library, released, addonVars, workVars, await, dropping, discard>>
  BY DEF ResourceRecord, ResourceRecordGone
<1>3. job[c] \in Card_Row /\ row[c] \in Rows /\ SoundCard(job[c], row[c])
  BY <1>1 DEF DbType, Sound
<1>4. /\ job' \in [Card -> Card_Row] /\ row' \in [Card -> Rows] /\ Sound'
      /\ \A d \in Card : Kept(job[d], job'[d])
  <2>1. CASE UNCHANGED <<job, row>>
    BY <2>1, KeptReflexive DEF DbType, Sound
  <2>2. CASE ResourceRecord
    <3> DEFINE left == SupersededRows(row[c], swap.titles)
               rows == Move(left, {swap.new} \X swap.titles, {"none"}, "queued")
    <3>1. left \in Rows
      BY <1>3, MoveType DEF SupersededRows, ItemState
    <3> HIDE DEF left
    <3>2. rows \in Rows
      BY <3>1, MoveType DEF ItemState
    <3>3. row' = [row EXCEPT ![c] = rows]
      BY <2>2 DEF ResourceRecord, left
    <3>4. PICK aged \in AgedSets : job' = [job EXCEPT ![c] = Recompute(job[c], rows, aged)]
      BY <2>2 DEF ResourceRecord, left, DbType
    <3> HIDE DEF rows
    <3> DEFINE k == Recompute(job[c], rows, aged)
    <3>5. SoundCard(job[c], rows)
      BY <1>1, <1>3 DEF SoundCard
    <3>6. k \in Card_Row /\ SoundCard(k, rows) /\ Kept(job[c], k)
      BY <1>3, <3>5, RecomputeFacts, RecomputeSound
    <3>7. job' = [job EXCEPT ![c] = k]
      BY <3>4
    <3> HIDE DEF k
    <3>8. Sound' /\ \A d \in Card : Kept(job[d], job'[d])
      BY <1>1, <3>3, <3>6, <3>7, OneCardSound, OneCardKept
    <3> QED
      BY <1>1, <3>2, <3>3, <3>6, <3>7, <3>8 DEF DbType
  <2> QED
    BY <2>1, <2>2 DEF ResourceRecordGone
<1>5. /\ MapLinked'
      /\ jobmap' \in [AJob -> [card : Card \union {NoCard}, epoch : 0..MaxEpoch]]
  BY <1>1, <1>2, <1>4, Mapped DEF Linked
<1>6. DbType'
  BY <1>2, <1>4, <1>5 DEF DbType
<1>7. AwaitLinked'
  BY <1>2, <1>4, AwaitKept DEF Linked
<1>8. AddonType' /\ WorkType' /\ RouteType' /\ Working' /\ SwapLinked'
  BY <1>2, SwapIdleType DEF AddonType, WorkType, RouteType, Working, SwapLinked,
                           addonVars, workVars
<1> QED
  BY <1>4, <1>5, <1>6, <1>7, <1>8 DEF Linked

LEMMA RouteSteps ==
  ASSUME IInv, Route
  PROVE  IInv'
BY CancelUnownedStep, CancelStep, RemoveStartStep, RemoveRowsStep, DiscardSteps,
   ResourceQuietSteps, ResourceRefusedStep, ResourceRecordStep DEF Route

-------------------------------------------------------------------------------
(* Hygiene, crashes, and the theorems *)

\* The rescue of boot and of every minute, and the idle valve, move only rows
\* that exist.
LEMMA RescuedFacts ==
  ASSUME DbType, Sound
  PROVE  /\ Rescued \in [Card -> Rows]
         /\ \A c \in Card : SoundCard(job[c], Rescued[c])
<1> DEFINE moved(c) == Move(row[c], {k \in filed[c] : k[2] \in library},
                            {"organized"}, "scanned")
<1>1. Rescued = [c \in Card |-> moved(c)]
  BY DEF Rescued
<1>2. ASSUME NEW c \in Card
      PROVE  moved(c) \in Rows /\ SoundCard(job[c], moved(c))
  <2>1. row[c] \in Rows /\ SoundCard(job[c], row[c])
    BY DEF DbType, Sound
  <2>2. moved(c) \in Rows
    BY <2>1, MoveType DEF ItemState
  <2>3. NoRows(row[c]) => NoRows(moved(c))
    BY MoveNoRows
  <2>4. ~Has(row[c], "superseded") => ~Has(moved(c), "superseded")
    BY MoveNoSuperseded
  <2> QED
    BY <2>1, <2>2, <2>3, <2>4 DEF SoundCard
<1> QED
  BY <1>1, <1>2

LEMMA IdleFacts ==
  ASSUME NEW rows \in [Card -> Rows], NEW quiet, NEW c \in Card
  PROVE  /\ Idle(rows, quiet)[c] \in Rows
         /\ \A j : SoundCard(j, rows[c]) => SoundCard(j, Idle(rows, quiet)[c])
<1> DEFINE moved == Move(rows[c], quiet[c], NonTerminal, "failed")
<1>1. Idle(rows, quiet)[c] = moved
  BY DEF Idle
<1>2. moved \in Rows
  BY MoveType DEF ItemState
<1>3. NoRows(rows[c]) => NoRows(moved)
  BY MoveNoRows DEF NonTerminal
<1>4. ~Has(rows[c], "superseded") => ~Has(moved, "superseded")
  BY MoveNoSuperseded
<1> QED
  BY <1>1, <1>2, <1>3, <1>4 DEF SoundCard

LEMMA HygieneStep ==
  ASSUME IInv, NEW quiet, NEW ghosts, NEW expired, Hygiene(quiet, ghosts, expired)
  PROVE  IInv'
<1> USE DEF IInv
<1> DEFINE valved == Idle(Rescued, quiet)
           ruled(aged, c)  == IF Rescued[c] # row[c] THEN Recompute(job[c], Rescued[c], aged)
                              ELSE job[c]
           closed(aged, c) == IF valved[c] # Rescued[c]
                              THEN Recompute(ruled(aged, c), valved[c], aged)
                              ELSE ruled(aged, c)
           swept(aged, c)  == IF c \in ghosts /\ NoRows(valved[c]) THEN Refused(closed(aged, c))
                              ELSE closed(aged, c)
<1>1. PICK aged \in AgedSets :
        /\ job' = [c \in Card |-> IF c \in expired THEN Removed(job[c]) ELSE swept(aged, c)]
        /\ row' = [c \in Card |-> IF c \in expired THEN [k \in RowKey |-> "none"]
                                  ELSE valved[c]]
        /\ filed' = [c \in Card |-> IF c \in expired THEN {} ELSE filed[c]]
        /\ UNCHANGED <<library, jobmap, released, addonVars, workVars, routeVars>>
  BY DEF Hygiene
<1> HIDE DEF valved, ruled, closed, swept
<1>2. ASSUME NEW c \in Card
      PROVE  /\ valved[c] \in Rows
             /\ swept(aged, c) \in Card_Row
             /\ SoundCard(swept(aged, c), valved[c]) /\ Kept(job[c], swept(aged, c))
  <2>1. /\ job[c] \in Card_Row
        /\ Rescued \in [Card -> Rows] /\ SoundCard(job[c], Rescued[c])
    BY RescuedFacts DEF DbType
  <2>2. /\ ruled(aged, c) \in Card_Row /\ SoundCard(ruled(aged, c), Rescued[c])
        /\ Kept(job[c], ruled(aged, c))
    BY <2>1, RecomputeFacts, RecomputeSound, KeptReflexive DEF ruled
  <2>3. /\ valved[c] \in Rows
        /\ SoundCard(ruled(aged, c), valved[c])
    BY <2>1, <2>2, IdleFacts DEF valved
  <2>4. /\ closed(aged, c) \in Card_Row /\ SoundCard(closed(aged, c), valved[c])
        /\ Kept(ruled(aged, c), closed(aged, c))
    BY <2>2, <2>3, RecomputeFacts, RecomputeSound, KeptReflexive DEF closed
  <2>5. /\ swept(aged, c) \in Card_Row /\ SoundCard(swept(aged, c), valved[c])
        /\ Kept(closed(aged, c), swept(aged, c))
    BY <2>4, RefusedFacts, KeptReflexive DEF swept
  <2> QED
    BY <2>2, <2>3, <2>4, <2>5, KeptTransitive
<1> DEFINE none == [k \in RowKey |-> "none"]
<1>3. none \in Rows /\ NoRows(none)
  BY DEF Rows, ItemState, NoRows
<1>4. ASSUME NEW c \in Card
      PROVE  /\ job'[c] \in Card_Row /\ row'[c] \in Rows /\ filed'[c] \in SUBSET RowKey
             /\ SoundCard(job'[c], row'[c]) /\ Kept(job[c], job'[c])
  <2>1. job[c] \in Card_Row /\ filed[c] \in SUBSET RowKey
    BY DEF DbType
  <2>2. CASE c \in expired
    <3>1. job'[c] = Removed(job[c]) /\ row'[c] = none /\ filed'[c] = {}
      BY <1>1, <2>2
    <3> HIDE DEF none
    <3> QED
      BY <2>1, <3>1, <1>3, RemovedFacts
  <2>3. CASE c \notin expired
    <3>1. job'[c] = swept(aged, c) /\ row'[c] = valved[c] /\ filed'[c] = filed[c]
      BY <1>1, <2>3
    <3> QED
      BY <2>1, <3>1, <1>2
  <2> QED
    BY <2>2, <2>3
<1>5. /\ job' = [c \in Card |-> job'[c]] /\ row' = [c \in Card |-> row'[c]]
      /\ filed' = [c \in Card |-> filed'[c]]
  BY <1>1
<1>6. DbType' /\ Sound'
  <2>1. job' \in [Card -> Card_Row] /\ row' \in [Card -> Rows] /\ filed' \in [Card -> SUBSET RowKey]
    BY <1>4, <1>5
  <2> QED
    BY <2>1, <1>1, <1>4 DEF DbType, Sound
<1>7. Linked'
  BY <1>1, <1>4, LinksKept DEF routeVars
<1>8. AddonType' /\ WorkType' /\ RouteType' /\ Working'
  BY <1>1 DEF AddonType, WorkType, RouteType, Working, addonVars, workVars, routeVars
<1> QED
  BY <1>6, <1>7, <1>8

LEMMA CrashStep ==
  ASSUME IInv, Crash
  PROVE  IInv'
<1> USE DEF IInv
<1>1. /\ tick' = TickIdle /\ pump' = PumpIdle /\ queue' = <<>> /\ await' = {}
      /\ swap' = SwapIdle /\ dropping' = {} /\ discard' = NoDiscard
      /\ news' \subseteq AJob
      /\ UNCHANGED <<dbVars, addon, boot, asked>>
  BY TickFields DEF Crash, AddonType
<1>2. DbType' /\ AddonType' /\ WorkType' /\ RouteType' /\ Working'
  BY <1>1, TickIdleType, PumpIdleType, SwapIdleType
     DEF DbType, AddonType, WorkType, RouteType, Working, dbVars, NoDiscard
<1>3. Sound' /\ Linked'
  BY <1>1, SwapIdleType DEF Sound, Linked, MapLinked, AwaitLinked, SwapLinked, dbVars
<1> QED
  BY <1>2, <1>3

LEMMA InitIInv == Init => IInv
<1> SUFFICES ASSUME Init PROVE IInv
  OBVIOUS
<1> DEFINE none == [k \in RowKey |-> "none"]
<1>1. none \in Rows /\ NoRows(none)
  BY DEF Rows, ItemState, NoRows
<1>2. Unborn \in Card_Row /\ SoundCard(Unborn, none)
  BY <1>1, UnbornFacts
<1> HIDE DEF none
<1>3. job = [c \in Card |-> Unborn] /\ row = [c \in Card |-> none]
  BY DEF Init, none
<1>4. DbType
  BY <1>1, <1>2, <1>3, PipelineAssumption DEF Init, DbType
<1>5. AddonType
  BY ItemsType, PipelineAssumption DEF Init, AddonType
<1>6. WorkType /\ RouteType /\ Working
  BY TickIdleType, PumpIdleType, SwapIdleType
     DEF Init, WorkType, RouteType, Working, NoDiscard
<1>7. Sound
  BY <1>2, <1>3 DEF Sound
<1>8. Linked
  BY SwapIdleType DEF Init, Linked, MapLinked, AwaitLinked, SwapLinked
<1> QED
  BY <1>4, <1>5, <1>6, <1>7, <1>8 DEF IInv

LEMMA NextIInv == IInv /\ [Next]_vars => IInv'
<1> SUFFICES ASSUME IInv, [Next]_vars PROVE IInv'
  OBVIOUS
<1>1. CASE Next
  <2>1. ASSUME HygienePass PROVE IInv'
    BY <2>1, HygieneStep DEF HygienePass
  <2> QED
    BY <1>1, <2>1, TickSteps, PumpSteps, AddonSteps, SubmitSteps, RouteSteps, CrashStep DEF Next
<1>2. CASE UNCHANGED vars
  BY <1>2 DEF vars, dbVars, addonVars, workVars, routeVars, IInv, DbType, AddonType, WorkType,
              RouteType, Working, Sound, Linked, MapLinked, AwaitLinked, SwapLinked
<1> QED
  BY <1>1, <1>2

\* The strengthening holds in every reachable state.
LEMMA Invariance == Spec => []IInv
<1>1. Init => IInv
  BY InitIInv
<1>2. IInv /\ [Next]_vars => IInv'
  BY NextIInv
<1> QED
  BY <1>1, <1>2, PTL DEF Spec

\* Every variable of the pipeline (the cards, their rows, the id map, the
\* addon's store, the tick, the pump and the requests) keeps its type for any
\* number of jobs, items and cards and any mix of faults.
THEOREM TypeCorrect == Spec => []TypeOK
<1>1. IInv => TypeOK
  BY TypeParts DEF IInv
<1> QED
  BY <1>1, Invariance, PTL

\* #749, "an Error card always states a reason": recomputeStage, the addon
\* outcome, the orphan check, the cancel sweep, the routes and the hygiene pass
\* never leave a failed card without its error text.
THEOREM ReasonAlwaysStated == Spec => []ErrorStatesReason
<1>1. IInv => ErrorStatesReason
  BY ReasonFromSound DEF IInv
<1> QED
  BY <1>1, Invariance, PTL
=============================================================================
