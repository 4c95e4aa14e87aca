---------------------------- MODULE DeliveryProofs ----------------------------
(***************************************************************************)
(* AddonPipeline: what is delivered stays delivered, a card says done only *)
(* when it is, and no addon job is lost by the poll.                       *)
(*                                                                         *)
(* Every writer but one spares the rows in Landed by the states it selects. *)
(* The organizer writes its batch "whatever the rows say by now", after an *)
(* await: LandedStays needs that no row of a batch was delivered meanwhile. *)
(* Delivered makes that inductive: a landed row has been filed, and no row *)
(* of the batch in hand has.  DoneMeansDelivered rests on it too: without  *)
(* it the organizer could take the last delivered row from a done card.    *)
(*                                                                         *)
(* NoJobLost is not inductive: it allows a job of the batch that the mirror *)
(* loop passed without mapping it, and the commit of the cursor would lose *)
(* that one.  Ahead adds that such a job is still before the loop.         *)
(***************************************************************************)
EXTENDS AddonPipelineProofs

Landed == {"organized", "scanned"}

FiledRows(rows, paths) == \A k \in RowKey : rows[k] \in Landed => k \in paths

LandedFiled == \A c \in Card : FiledRows(row[c], filed[c])

BatchUnfiled ==
  pump.pc = "fetch" => \A i \in pump.batch : <<pump.a, i>> \notin filed[pump.card]

Delivered == LandedFiled /\ BatchUnfiled

\* What a step may make of the rows of one card.
Keeps(old, new) ==
  \A k \in RowKey :
    /\ old[k] = "scanned" => new[k] \in {"scanned", "none"}
    /\ old[k] = "organized" => new[k] \in {"organized", "scanned", "failed", "none"}

\* Neither takes a landed row back nor lands one.
Still(old, new) ==
  \A k \in RowKey : old[k] \in Landed \/ new[k] \in Landed => new[k] = old[k]

LandedStep == \A c \in Card : Keeps(row[c], row'[c])

LEMMA StillReflexive ==
  ASSUME NEW r
  PROVE  Still(r, r)
  BY DEF Still

LEMMA StillTransitive ==
  ASSUME NEW q, NEW r, NEW s, Still(q, r), Still(r, s)
  PROVE  Still(q, s)
  BY DEF Still, Landed

LEMMA StillKeeps ==
  ASSUME NEW r, NEW s, NEW paths, Still(r, s), FiledRows(r, paths)
  PROVE  Keeps(r, s) /\ FiledRows(s, paths)
  BY DEF Still, Keeps, FiledRows, Landed

LEMMA MoveStill ==
  ASSUME NEW r \in Rows, NEW own, NEW from, NEW to,
         to \notin Landed, "organized" \notin from, "scanned" \notin from
  PROVE  Still(r, Move(r, own, from, to))
  BY DEF Move, Still, Landed

\* A report of the addon leaves what landed.
LEMMA MirrorStill ==
  ASSUME NEW r \in Rows, NEW a, NEW snap \in AddonJob
  PROVE  Still(r, MirroredRows(r, a, snap))
<1> SUFFICES ASSUME NEW k \in RowKey,
                    r[k] \in Landed \/ MirroredRows(r, a, snap)[k] \in Landed
             PROVE  MirroredRows(r, a, snap)[k] = r[k]
  BY DEF Still
<1>1. CASE k[1] = a /\ snap.item[k[2]] # "none" /\ r[k] \notin {"organized", "scanned", "superseded"}
  <2>1. k[2] \in Item
    BY DEF RowKey
  <2>2. snap.item[k[2]] \in AddonItem
    BY <2>1 DEF AddonJob
  <2>3. MirroredRows(r, a, snap)[k] = Mirrored(snap.item[k[2]])
    BY <1>1 DEF MirroredRows
  <2> QED
    BY <1>1, <2>2, <2>3 DEF Mirrored, AddonItem, Landed
<1>2. CASE ~(k[1] = a /\ snap.item[k[2]] # "none"
             /\ r[k] \notin {"organized", "scanned", "superseded"})
  BY <1>2 DEF MirroredRows
<1> QED
  BY <1>1, <1>2

LEMMA OutcomeStill ==
  ASSUME NEW r \in Rows, NEW a, NEW snap
  PROVE  Still(r, OutcomeRows(r, a, snap))
<1>1. Still(r, Move(r, OwnedBy(a), InFlight, "unavailable"))
  BY MoveStill DEF InFlight, Landed
<1> QED
  BY <1>1, StillReflexive DEF OutcomeRows, TerminalRows

LEMMA CancelledStill ==
  ASSUME NEW r \in Rows
  PROVE  Still(r, CancelledRows(r))
  BY MoveStill DEF CancelledRows, InFlight, Landed

LEMMA OrphanedStill ==
  ASSUME NEW r \in Rows, NEW a
  PROVE  Still(r, OrphanedRows(r, a))
  BY MoveStill DEF OrphanedRows, Landed

-------------------------------------------------------------------------------
(* Steps that land nothing *)

\* Every card's rows stand still and nothing is filed.
LEMMA StillStep ==
  ASSUME Delivered, \A c \in Card : Still(row[c], row'[c]), filed' = filed, BatchUnfiled'
  PROVE  Delivered' /\ LandedStep
  BY StillKeeps DEF Delivered, LandedFiled, LandedStep

LEMMA SameRowsStill ==
  ASSUME row' = row
  PROVE  \A d \in Card : Still(row[d], row'[d])
  BY StillReflexive

LEMMA PumpStill ==
  ASSUME Delivered, UNCHANGED <<filed, pump>>
  PROVE  BatchUnfiled'
  BY DEF Delivered, BatchUnfiled

\* The steps of the poll, the addon and the routes that write no row at all.
LEMMA QuietStep ==
  ASSUME Delivered, UNCHANGED <<row, filed, pump>>
  PROVE  Delivered' /\ LandedStep
  BY StillStep, SameRowsStill, PumpStill

\* The step gives the card c new rows and leaves those of every other card.
OnlyRowsOf(c, rows) == \A d \in Card : row'[d] = IF d = c THEN rows ELSE row[d]

LEMMA OnlyRowsOfExcept ==
  ASSUME DbType, NEW c \in Card, NEW rows, row' = [row EXCEPT ![c] = rows]
  PROVE  OnlyRowsOf(c, rows)
  BY DEF DbType, OnlyRowsOf

LEMMA OneCardSpares ==
  ASSUME Delivered, NEW c \in Card, NEW rows,
         OnlyRowsOf(c, rows), Still(row[c], rows), UNCHANGED <<filed, pump>>
  PROVE  Delivered' /\ LandedStep
<1>1. \A d \in Card : Still(row[d], row'[d])
  BY StillReflexive DEF OnlyRowsOf
<1>2. BatchUnfiled'
  BY PumpStill
<1> QED
  BY <1>1, <1>2, StillStep

LEMMA MirrorLanded ==
  ASSUME IInv, Delivered, NEW a \in AJob, Mirror(a)
  PROVE  Delivered' /\ LandedStep
<1> USE DEF IInv
<1>1. UNCHANGED <<filed, pump>>
  BY DEF Mirror, MirrorRemoved, MirrorMapped, MirrorMinted, dbVars
<1>2. ASSUME NEW c \in Card, NEW base, MirrorInto(a, c, base)
      PROVE  Delivered' /\ LandedStep
  <2> DEFINE snap == tick.listed[a]
             rows == MirroredRows(row[c], a, snap)
  <2>1. row[c] \in Rows /\ snap \in AddonJob
    BY TickFields DEF DbType
  <2>2. rows \in Rows /\ Still(row[c], rows)
    BY <2>1, MirroredRowsFacts, MirrorStill
  <2>3. Still(row[c], OutcomeRows(rows, a, snap))
    BY <2>2, OutcomeStill, StillTransitive
  <2>4. \/ row' = row
        \/ OnlyRowsOf(c, rows)
        \/ OnlyRowsOf(c, OutcomeRows(rows, a, snap))
    BY <1>2, OnlyRowsOfExcept DEF MirrorInto
  <2> HIDE DEF rows, snap
  <2> QED
    BY <1>1, <2>2, <2>3, <2>4, QuietStep, OneCardSpares
<1>3. CASE MirrorRemoved(a)
  BY <1>1, <1>3, QuietStep DEF MirrorRemoved, dbVars
<1>4. CASE MirrorMapped(a)
  <2>1. jobmap[a].card \in Card /\ MirrorInto(a, jobmap[a].card, job[jobmap[a].card])
    BY <1>4 DEF MirrorMapped, DbType
  <2> QED
    BY <1>2, <2>1
<1>5. CASE MirrorMinted(a)
  <2>1. PICK c \in Minted : MirrorInto(a, c, Created(a))
    BY <1>5 DEF MirrorMinted
  <2>2. c \in Card
    BY DEF Minted
  <2> QED
    BY <1>2, <2>1, <2>2
<1> QED
  BY <1>3, <1>4, <1>5 DEF Mirror

LEMMA TickLanded ==
  ASSUME IInv, Delivered, Tick
  PROVE  Delivered' /\ LandedStep
<1> USE DEF IInv
<1>1. ASSUME NEW c \in Card, NEW a, row' = [row EXCEPT ![c] = OrphanedRows(@, a)],
             UNCHANGED <<filed, pump>>
      PROVE  Delivered' /\ LandedStep
  <2>1. Still(row[c], OrphanedRows(row[c], a))
    BY OrphanedStill DEF DbType
  <2>2. OnlyRowsOf(c, OrphanedRows(row[c], a))
    BY <1>1, OnlyRowsOfExcept
  <2>3. UNCHANGED <<filed, pump>>
    BY <1>1
  <2> QED
    BY <2>1, <2>2, <2>3, OneCardSpares
<1>2. ASSUME NEW c \in Card, Stranded(c)
      PROVE  Delivered' /\ LandedStep
  BY <1>1, <1>2, QuietStep DEF Stranded
<1>3. ASSUME OrphanAnswer
      PROVE  Delivered' /\ LandedStep
  <2>1. tick.ask \in Card
    BY <1>3, TickFields DEF OrphanAnswer
  <2>2. UNCHANGED <<filed, pump>>
    BY <1>3 DEF OrphanAnswer
  <2>3. row' = row \/ row' = [row EXCEPT ![tick.ask] = OrphanedRows(@, job[tick.ask].ref)]
    BY <1>3 DEF OrphanAnswer
  <2> QED
    BY <1>1, <2>1, <2>2, <2>3, QuietStep
<1>4. ASSUME NEW overdue, TickCancels(overdue)
      PROVE  Delivered' /\ LandedStep
  <2>1. /\ row' = [c \in Card |-> IF c \in overdue THEN CancelledRows(row[c]) ELSE row[c]]
        /\ UNCHANGED <<filed, pump>>
    BY <1>4 DEF TickCancels
  <2>2. \A c \in Card : Still(row[c], CancelledRows(row[c]))
    BY CancelledStill DEF DbType
  <2>3. \A c \in Card : Still(row[c], row'[c])
    BY <2>1, <2>2, StillReflexive
  <2> QED
    BY <2>1, <2>3, StillStep, PumpStill
<1>5. ASSUME UNCHANGED <<dbVars, pump>>
      PROVE  Delivered' /\ LandedStep
  BY <1>5, QuietStep DEF dbVars
<1>6. ASSUME TickRelease
      PROVE  Delivered' /\ LandedStep
  BY <1>6, QuietStep DEF TickRelease
<1>7. ASSUME \/ TickList \/ TickListFails \/ OrphansDone
             \/ \E sweep \in BOOLEAN : MirrorDone(sweep)
             \/ \E stale \in SUBSET Active : StrandedDone(stale)
             \/ \E c \in Card : OrphanAsk(c)
      PROVE  Delivered' /\ LandedStep
  BY <1>5, <1>7 DEF TickList, TickListFails, OrphansDone, MirrorDone, StrandedDone, OrphanAsk
<1> QED
  BY <1>2, <1>3, <1>4, <1>6, <1>7, MirrorLanded DEF Tick

-------------------------------------------------------------------------------
(* The pump *)

\* applyAddonOutcome on the rows of the pump's card lands nothing, and the
\* pump leaves the batch behind.
LEMMA FinishLanded ==
  ASSUME IInv, Delivered, pump.card \in Card, NEW base, NEW rows \in [Card -> Rows],
         NEW paths, Finish(base, rows, paths), filed' = filed,
         \A c \in Card : Keeps(row[c], rows[c]) /\ FiledRows(rows[c], filed[c]),
         \A c \in Card, k \in RowKey : row[c][k] \in Landed => rows[c][k] \in Landed
  PROVE  Delivered' /\ LandedStep
<1> DEFINE c == pump.card
           closing == OutcomeRows(rows[c], pump.a, pump.snap)
<1>1. row' = [rows EXCEPT ![c] = closing]
  BY DEF Finish
<1>2. Still(rows[c], closing)
  BY OutcomeStill
<1> HIDE DEF closing
<1>3. \A d \in Card : Still(rows[d], row'[d])
  BY <1>1, <1>2, StillReflexive
<1>4. \A d \in Card : FiledRows(row'[d], filed[d])
  BY <1>3, StillKeeps
<1>5. \A d \in Card : Keeps(row[d], row'[d])
  BY <1>3 DEF Keeps, Still, Landed
<1>6. pump' = [pump EXCEPT !.pc = "release", !.snap = NotListed, !.batch = {}] \/ pump' = PumpIdle
  BY DEF Finish
<1>7. BatchUnfiled'
  <2>1. pump \in PumpType
    BY DEF IInv, WorkType
  <2>2. CASE pump' = PumpIdle
    BY <2>2 DEF BatchUnfiled, PumpIdle
  <2>3. CASE pump' = [pump EXCEPT !.pc = "release", !.snap = NotListed, !.batch = {}]
    <3>1. pump'.pc = "release"
      BY <2>1, <2>3 DEF PumpType
    <3> QED
      BY <3>1 DEF BatchUnfiled
  <2> QED
    BY <1>6, <2>2, <2>3
<1> QED
  BY <1>4, <1>5, <1>7 DEF Delivered, LandedFiled, LandedStep

\* The batch of the organizer: none of its rows had landed.
LEMMA OrganizeLanded ==
  ASSUME IInv, Delivered, PumpOrganize
  PROVE  Delivered' /\ LandedStep
<1> USE DEF IInv
<1> DEFINE c == pump.card
<1>1. c \in Card /\ pump.pc = "fetch"
  BY DEF PumpOrganize, Working
<1>2. PICK ok \in {pump.batch} \union (IF "organizeFail" \in Events THEN {{}} ELSE {}) :
        LET K == {k \in {pump.a} \X ok : row[c][k] # "none"} IN
        /\ row' = [row EXCEPT ![c] = Move(@, K, ItemState, "organized")]
        /\ filed' = [filed EXCEPT ![c] = @ \union K]
        /\ pump' = [pump EXCEPT !.pc = "scan", !.batch = ok]
  BY DEF PumpOrganize
<1> DEFINE K == {k \in {pump.a} \X ok : row[c][k] # "none"}
           moved == Move(row[c], K, ItemState, "organized")
<1>3. ok \subseteq pump.batch
  BY <1>2
<1>4. \A k \in K : k \notin filed[c]
  BY <1>1, <1>3 DEF Delivered, BatchUnfiled
<1>5. /\ row' = [row EXCEPT ![c] = moved]
      /\ filed' = [filed EXCEPT ![c] = filed[c] \union K]
      /\ pump'.pc = "scan"
  BY <1>2 DEF WorkType, PumpType
<1> HIDE DEF K
<1>6. \A k \in RowKey : (moved[k] = "organized" /\ k \in K) \/ moved[k] = row[c][k]
  BY DEF Move
<1>7. FiledRows(row[c], filed[c])
  BY <1>1 DEF Delivered, LandedFiled
<1> HIDE DEF moved
<1>8. Keeps(row[c], moved) /\ FiledRows(moved, filed[c] \union K)
  BY <1>4, <1>6, <1>7 DEF Keeps, FiledRows, Landed
<1>9. \A d \in Card : Keeps(row[d], row'[d])
  BY <1>5, <1>8, StillReflexive DEF DbType, Keeps
<1>10. LandedFiled'
  BY <1>5, <1>8 DEF Delivered, LandedFiled, DbType
<1> QED
  BY <1>5, <1>9, <1>10 DEF Delivered, BatchUnfiled, LandedStep

LEMMA ScanLanded ==
  ASSUME IInv, Delivered, PumpScan
  PROVE  Delivered' /\ LandedStep
<1> USE DEF IInv
<1> DEFINE c == pump.card
           found == pump.batch \intersect library
<1>1. c \in Card /\ filed' = filed
  BY DEF PumpScan, Working
<1> HIDE DEF found
<1> DEFINE rows == ScannedRows(found)
<1>2. PICK aged \in AgedSets : Finish(Recompute(job[c], rows[c], aged), rows, filed[c])
  BY DEF PumpScan, found
<1>3. rows \in [Card -> Rows]
  BY ScannedRowsFacts
<1>4. \A d \in Card, k \in RowKey :
        (rows[d][k] = "scanned" /\ k \in filed[d]) \/ rows[d][k] = row[d][k]
  BY DEF ScannedRows, Move
<1>5. \A d \in Card : FiledRows(row[d], filed[d])
  BY DEF Delivered, LandedFiled
<1> HIDE DEF rows
<1>6. \A d \in Card : Keeps(row[d], rows[d]) /\ FiledRows(rows[d], filed[d])
  BY <1>4, <1>5 DEF Keeps, FiledRows, Landed
<1>7. \A d \in Card, k \in RowKey : row[d][k] \in Landed => rows[d][k] \in Landed
  BY <1>4 DEF Landed
<1> DEFINE base == Recompute(job[c], rows[c], aged)
<1>8. Finish(base, rows, filed[c])
  BY <1>2
<1> HIDE DEF base
<1> QED
  BY <1>1, <1>3, <1>6, <1>7, <1>8, FinishLanded

LEMMA PumpLanded ==
  ASSUME IInv, Delivered, Pump
  PROVE  Delivered' /\ LandedStep
<1> USE DEF IInv
<1>1. ASSUME PumpStart
      PROVE  Delivered' /\ LandedStep
  <2>1. UNCHANGED <<row, filed>> /\ pump'.batch = {}
    BY <1>1 DEF PumpStart, dbVars
  <2> QED
    BY <2>1, SameRowsStill, StillStep DEF BatchUnfiled
<1>2. ASSUME NEW i \in Item, PumpFetch(i)
      PROVE  Delivered' /\ LandedStep
  <2>1. UNCHANGED <<row, filed>> /\ pump.pc = "fetch"
    BY <1>2 DEF PumpFetch, dbVars
  <2>2. /\ pump'.card = pump.card /\ pump'.a = pump.a
        /\ \/ pump'.batch = pump.batch
           \/ pump'.batch = pump.batch \union {i} /\ <<pump.a, i>> \notin filed[pump.card]
    BY <1>2 DEF PumpFetch, WorkType, PumpType
  <2>3. BatchUnfiled'
    BY <2>1, <2>2 DEF Delivered, BatchUnfiled
  <2> QED
    BY <2>1, <2>3, SameRowsStill, StillStep
<1>3. ASSUME PumpNothing
      PROVE  Delivered' /\ LandedStep
  <2>1. pump.card \in Card /\ filed' = filed /\ row \in [Card -> Rows]
    BY <1>3 DEF PumpNothing, Working, DbType
  <2>2. Finish(job[pump.card], row, filed[pump.card])
    BY <1>3 DEF PumpNothing
  <2>3. \A c \in Card : Keeps(row[c], row[c]) /\ FiledRows(row[c], filed[c])
    BY DEF Keeps, Delivered, LandedFiled
  <2> QED
    BY <2>1, <2>2, <2>3, FinishLanded
<1>4. ASSUME PumpIndex
      PROVE  Delivered' /\ LandedStep
  <2>1. UNCHANGED <<row, filed>> /\ pump'.pc = "mark"
    BY <1>4 DEF PumpIndex, WorkType, PumpType
  <2> QED
    BY <2>1, SameRowsStill, StillStep DEF BatchUnfiled
<1>5. ASSUME PumpRelease
      PROVE  Delivered' /\ LandedStep
  <2>1. UNCHANGED <<row, filed>> /\ pump' = PumpIdle
    BY <1>5 DEF PumpRelease
  <2> QED
    BY <2>1, SameRowsStill, StillStep DEF BatchUnfiled, PumpIdle
<1> QED
  BY <1>1, <1>2, <1>3, <1>4, <1>5, OrganizeLanded, ScanLanded DEF Pump

-------------------------------------------------------------------------------
(* Submitting, the routes, the hygiene pass *)

LEMMA SubmitLanded ==
  ASSUME IInv, Delivered, Submit \/ Addon \/ AddonRestart
  PROVE  Delivered' /\ LandedStep
<1>1. UNCHANGED <<row, filed, pump>>
  BY DEF Submit, SubmitAlbum, SubmitUrl, AlbumAnswer, UrlAnswer, SubmitFails, UrlAccepted,
         Supersede, Addon, AddonProgress, AddonFinish, AddonRestart, dbVars, workVars
<1> QED
  BY <1>1, QuietStep

\* The rows of a removed card go with it.
LEMMA RemoveLanded ==
  ASSUME IInv, Delivered, NEW c \in Card, RemoveRows(c)
  PROVE  Delivered' /\ LandedStep
<1> USE DEF IInv
<1>1. /\ row' = [row EXCEPT ![c] = [k \in RowKey |-> "none"]]
      /\ filed' = [filed EXCEPT ![c] = {}] /\ pump' = pump
  BY DEF RemoveRows, workVars
<1>2. ASSUME NEW d \in Card
      PROVE  Keeps(row[d], row'[d]) /\ FiledRows(row'[d], filed'[d])
  <2>1. CASE d = c
    <3>1. row'[d] = [k \in RowKey |-> "none"]
      BY <1>1, <2>1 DEF DbType
    <3> QED
      BY <3>1 DEF Keeps, FiledRows, Landed
  <2>2. CASE d # c
    BY <1>1, <2>2 DEF DbType, Delivered, LandedFiled, Keeps
  <2> QED
    BY <2>1, <2>2
<1>3. BatchUnfiled'
  BY <1>1 DEF Delivered, BatchUnfiled, DbType, Working
<1> QED
  BY <1>2, <1>3 DEF Delivered, LandedFiled, LandedStep

LEMMA RouteLanded ==
  ASSUME IInv, Delivered, Route
  PROVE  Delivered' /\ LandedStep
<1> USE DEF IInv
<1>1. ASSUME NEW c \in Card, CancelUnowned(c)
      PROVE  Delivered' /\ LandedStep
  <2>1. Still(row[c], CancelledRows(row[c]))
    BY CancelledStill DEF DbType
  <2>2. OnlyRowsOf(c, CancelledRows(row[c])) /\ UNCHANGED <<filed, pump>>
    BY <1>1, OnlyRowsOfExcept DEF CancelUnowned, workVars
  <2> QED
    BY <2>1, <2>2, OneCardSpares
<1>2. ASSUME NEW c \in Card,
             \/ Cancel(c) \/ RemoveStart(c) \/ DiscardStart(c) \/ ResourceStart(c)
      PROVE  Delivered' /\ LandedStep
  BY <1>2, QuietStep DEF Cancel, RemoveStart, DiscardStart, ResourceStart, dbVars, workVars
<1>3. ASSUME \/ DiscardDelete \/ ResourceCancel \/ ResourceRefused \/ ResourceRecordGone
             \/ \E a \in AJob : ResourceCreate(a)
      PROVE  Delivered' /\ LandedStep
  BY <1>3, QuietStep
     DEF DiscardDelete, ResourceCancel, ResourceRefused, ResourceRecordGone, ResourceCreate,
         dbVars, workVars
<1>4. ASSUME ResourceRecord
      PROVE  Delivered' /\ LandedStep
  <2> DEFINE c    == swap.card
             gone == SupersededRows(row[c], swap.titles)
             rows == Move(gone, {swap.new} \X swap.titles, {"none"}, "queued")
  <2>1. c \in Card /\ row[c] \in Rows
    BY <1>4 DEF ResourceRecord, Working, DbType
  <2>2. Still(row[c], gone)
    BY <2>1, MoveStill DEF SupersededRows, Resourceable, Landed
  <2>3. gone \in Rows
    BY <2>1, MoveType DEF SupersededRows, ItemState
  <2>4. Still(row[c], rows)
    BY <2>2, <2>3, MoveStill, StillTransitive DEF Landed
  <2>5. OnlyRowsOf(c, rows) /\ UNCHANGED <<filed, pump>>
    BY <1>4, <2>1, OnlyRowsOfExcept DEF ResourceRecord, workVars
  <2> HIDE DEF rows
  <2> QED
    BY <2>1, <2>4, <2>5, OneCardSpares
<1> QED
  BY <1>1, <1>2, <1>3, <1>4, RemoveLanded DEF Route

\* The rescue lands filed rows only; the valve gives up no scanned row.
LEMMA HygieneLanded ==
  ASSUME IInv, Delivered, NEW quiet, NEW ghosts, NEW expired, Hygiene(quiet, ghosts, expired)
  PROVE  Delivered' /\ LandedStep
<1> USE DEF IInv
<1> DEFINE valved == Idle(Rescued, quiet)
<1>1. /\ row' = [c \in Card |-> IF c \in expired THEN [k \in RowKey |-> "none"] ELSE valved[c]]
      /\ filed' = [c \in Card |-> IF c \in expired THEN {} ELSE filed[c]]
      /\ pump' = pump
  BY DEF Hygiene, workVars
<1>2. ASSUME NEW c \in Card
      PROVE  Keeps(row[c], valved[c]) /\ FiledRows(valved[c], filed[c])
  <2>1. \A k \in RowKey :
          Rescued[c][k] = row[c][k] \/ (Rescued[c][k] = "scanned" /\ k \in filed[c])
    BY DEF Rescued, Move
  <2>2. \A k \in RowKey :
          \/ valved[c][k] = Rescued[c][k]
          \/ valved[c][k] = "failed" /\ Rescued[c][k] \in NonTerminal
    BY DEF Idle, Move
  <2>3. FiledRows(row[c], filed[c])
    BY DEF Delivered, LandedFiled
  <2>4. \A k \in RowKey : row[c][k] \in Landed => Rescued[c][k] \in Landed
    BY <2>1 DEF Landed
  <2> HIDE DEF valved
  <2> QED
    BY <2>1, <2>2, <2>3, <2>4 DEF Keeps, FiledRows, Landed, NonTerminal
<1> HIDE DEF valved
<1>3. ASSUME NEW c \in Card
      PROVE  Keeps(row[c], row'[c]) /\ FiledRows(row'[c], filed'[c])
  <2>1. CASE c \in expired
    <3>1. row'[c] = [k \in RowKey |-> "none"]
      BY <1>1, <2>1
    <3> QED
      BY <3>1 DEF Keeps, FiledRows, Landed
  <2>2. CASE c \notin expired
    BY <1>1, <1>2, <2>2
  <2> QED
    BY <2>1, <2>2
<1>4. BatchUnfiled'
  <2>1. pump.pc = "fetch" => pump.card \in Card
    BY DEF Working
  <2> QED
    BY <1>1, <2>1 DEF Delivered, BatchUnfiled
<1> QED
  BY <1>3, <1>4 DEF Delivered, LandedFiled, LandedStep

LEMMA NextDelivered == IInv /\ Delivered /\ [Next]_vars => Delivered' /\ LandedStep
<1> SUFFICES ASSUME IInv, Delivered, [Next]_vars PROVE Delivered' /\ LandedStep
  OBVIOUS
<1>1. ASSUME HygienePass
      PROVE  Delivered' /\ LandedStep
  BY <1>1, HygieneLanded DEF HygienePass
<1>2. ASSUME Crash
      PROVE  Delivered' /\ LandedStep
  <2>1. UNCHANGED <<row, filed>> /\ pump' = PumpIdle
    BY <1>2 DEF Crash, dbVars
  <2> QED
    BY <2>1, SameRowsStill, StillStep DEF BatchUnfiled, PumpIdle
<1>3. ASSUME UNCHANGED vars
      PROVE  Delivered' /\ LandedStep
  BY <1>3, QuietStep DEF vars, dbVars, workVars
<1> QED
  BY <1>1, <1>2, <1>3, TickLanded, PumpLanded, SubmitLanded, RouteLanded DEF Next

\* What landed stays landed: mirrorItems, applyAddonOutcome, the orphan check,
\* the cancel sweep, the re-source route and the organizer's late write never
\* take a delivered row back, for any interleaving of poll, pump and routes.
THEOREM DeliveryKept == Spec => LandedStays
<1>1. Init => Delivered
  BY DEF Init, Delivered, LandedFiled, FiledRows, BatchUnfiled, Landed, PumpIdle
<1>2. IInv /\ Delivered /\ [Next]_vars => Delivered' /\ LandedStep
  BY NextDelivered
<1>3. IInv /\ Delivered /\ [Next]_vars =>
        [\A c \in Card, k \in RowKey :
           /\ row[c][k] = "scanned" => row'[c][k] \in {"scanned", "none"}
           /\ row[c][k] = "organized" =>
                row'[c][k] \in {"organized", "scanned", "failed", "none"}]_vars
  BY <1>2 DEF LandedStep, Keeps
<1> QED
  BY <1>1, <1>2, <1>3, Invariance, PTL DEF Spec, LandedStays

-------------------------------------------------------------------------------
(* A card that says done: what the operators make of it *)

Settled(j, rows) ==
  j.state = "done" => Has(rows, "scanned") /\ \A k \in RowKey : rows[k] \notin InFlight

AllSettled == \A c \in Card : Settled(job[c], row[c])

\* A recompute says done only of rows that were delivered, and leaves a done
\* card alone only if nothing is counted.
LEMMA RecomputeSettles ==
  ASSUME NEW j \in Card_Row, NEW rows, NEW aged, j.state = "done" => Has(rows, "scanned")
  PROVE  Settled(Recompute(j, rows, aged), rows)
<1> DEFINE k == Recompute(j, rows, aged)
           stage == StageOf(rows, aged)
<1> SUFFICES ASSUME k.state = "done"
             PROVE  Has(rows, "scanned") /\ \A x \in RowKey : rows[x] \notin InFlight
  BY DEF Settled
<1>1. CASE ~Live(j) \/ j.state = "superseded" \/ NothingCounted(rows)
  <2>1. k = j
    BY <1>1 DEF Recompute
  <2>2. Live(j) /\ j.state # "superseded" /\ Has(rows, "scanned")
    BY <2>1 DEF Live
  <2> QED
    BY <1>1, <2>2 DEF NothingCounted, Has
<1>2. CASE Live(j) /\ j.state # "superseded" /\ ~NothingCounted(rows)
  <2>1. k.state = StateAt(stage)
    BY <1>2 DEF Recompute, Card_Row
  <2>2. stage = "done"
    <3>1. stage \in {"downloading", "queued", "organizing", "scanning", "done", "error"}
      BY StageOfType
    <3> HIDE DEF stage
    <3> QED
      BY <2>1, <3>1 DEF StateAt
  <2> QED
    BY <2>2 DEF StageOf, Has, InFlight
<1> QED
  BY <1>1, <1>2

LEMMA RefusedSettled ==
  ASSUME NEW j \in Card_Row, NEW rows, Settled(j, rows)
  PROVE  Settled(Refused(j), rows)
  BY DEF Refused, Settled, Card_Row

\* What has landed is still there after a step that lands nothing.
LEMMA ScannedStays ==
  ASSUME NEW old, NEW new, Still(old, new), Has(old, "scanned")
  PROVE  Has(new, "scanned")
  BY DEF Still, Has, Landed

LEMMA CancelledSettled ==
  ASSUME NEW j \in Card_Row, NEW rows \in Rows, NEW aged, Settled(j, rows)
  PROVE  Settled(CancelledJob(j, rows, aged), CancelledRows(rows))
<1> DEFINE said  == IF j.state \in {"active", "failed"} THEN [j EXCEPT !.err = TRUE] ELSE j
           left  == CancelledRows(rows)
           ruled == Recompute(said, left, aged)
<1>1. said \in Card_Row /\ said.state = j.state
  BY DEF Card_Row
<1>2. said.state = "done" => Has(left, "scanned")
  BY <1>1, CancelledStill, ScannedStays DEF Settled
<1> HIDE DEF said, left
<1>3. Settled(ruled, left) /\ ruled \in Card_Row
  BY <1>1, <1>2, RecomputeSettles, RecomputeFacts
<1> HIDE DEF ruled
<1>4. CancelledJob(j, rows, aged) =
        IF ruled.state = "active" THEN [ruled EXCEPT !.state = "failed", !.stage = "error"]
        ELSE ruled
  BY DEF CancelledJob, said, left, ruled
<1>5. CancelledJob(j, rows, aged).state = "done" => ruled.state = "done"
  BY <1>3, <1>4 DEF Card_Row
<1> QED
  BY <1>3, <1>5 DEF Settled, left

LEMMA OrphanedSettled ==
  ASSUME NEW j \in Card_Row, NEW rows \in Rows, NEW a, Settled(j, rows)
  PROVE  Settled(OrphanedJob(j), OrphanedRows(rows, a))
<1>1. Settled(Refused(j), rows)
  BY RefusedSettled
<1>2. Has(rows, "scanned") => Has(OrphanedRows(rows, a), "scanned")
  BY OrphanedStill, ScannedStays
<1>3. \A k \in RowKey : rows[k] \notin InFlight => OrphanedRows(rows, a)[k] \notin InFlight
  BY DEF OrphanedRows, Move, InFlight
<1> QED
  BY <1>1, <1>2, <1>3 DEF Settled, OrphanedJob

\* The verdict on an addon job never calls a card done that is not.
LEMMA OutcomeSettled ==
  ASSUME NEW j \in Card_Row, NEW rows \in Rows, NEW a, NEW snap, NEW e \in BOOLEAN, NEW aged,
         Settled(j, rows)
  PROVE  Settled(Outcome(j, rows, a, snap, e, aged), OutcomeRows(rows, a, snap))
<1>1. CASE snap.st = "active"
  <2> DEFINE out == ActiveOutcome(j, rows, e)
  <2>1. out.state = "done" => j.state = "done"
    BY DEF ActiveOutcome, Card_Row
  <2> HIDE DEF out
  <2>2. Settled(out, rows)
    BY <2>1 DEF Settled
  <2> QED
    BY <1>1, <2>2 DEF Outcome, OutcomeRows, out
<1>2. CASE snap.st # "active"
  <2> DEFINE left  == TerminalRows(rows, a)
             ruled == Recompute(j, left, aged)
             closed == IF Live(j) THEN [ruled EXCEPT !.err = e \/ ruled.stage = "error"] ELSE j
             out   == TerminalOutcome(j, left, e, aged)
  <2>1. left = OutcomeRows(rows, a, snap)
    BY <1>2 DEF OutcomeRows
  <2>2. j.state = "done" => Has(left, "scanned")
    BY <2>1, OutcomeStill, ScannedStays DEF Settled
  <2>3. Outcome(j, rows, a, snap, e, aged) = out
    BY <1>2 DEF Outcome
  <2> HIDE DEF left
  <2>4. Settled(ruled, left) /\ ruled \in Card_Row
    BY <2>2, RecomputeSettles, RecomputeFacts
  <2>5. ~Live(j) => j.state # "done"
    BY DEF Live
  <2>6. out = IF Live(j) /\ NoRows(left) /\ j.state # "superseded"
              THEN [closed EXCEPT !.state = "failed", !.stage = "error", !.err = TRUE]
              ELSE closed
    BY DEF TerminalOutcome
  <2> HIDE DEF ruled, out
  <2>7. closed \in Card_Row /\ (closed.state = "done" => ruled.state = "done")
    BY <2>4, <2>5 DEF Card_Row
  <2> HIDE DEF closed
  <2>8. out.state = "done" => ruled.state = "done"
    BY <2>6, <2>7 DEF Card_Row
  <2>9. Settled(out, left)
    BY <2>4, <2>8 DEF Settled
  <2> QED
    BY <2>1, <2>3, <2>9
<1> QED
  BY <1>1, <1>2

-------------------------------------------------------------------------------
(* Every step leaves every card settled *)

LEMMA QuietSettled ==
  ASSUME AllSettled, UNCHANGED <<job, row>>
  PROVE  AllSettled'
  BY DEF AllSettled

\* A step that only changes the card c.
LEMMA OneJobSettled ==
  ASSUME DbType, AllSettled, NEW c \in Card, NEW k,
         job' = [job EXCEPT ![c] = k], row' = row,
         k.state = "done" => job[c].state = "done"
  PROVE  AllSettled'
<1>1. \A d \in Card : job'[d] = IF d = c THEN k ELSE job[d]
  BY DEF DbType
<1> QED
  BY <1>1 DEF AllSettled, Settled

LEMMA MirrorIntoSettled ==
  ASSUME IInv, AllSettled, NEW a \in AJob, NEW c \in Card, NEW base \in Card_Row,
         Settled(base, row[c]), base = job[c] \/ base.state # "done",
         MirrorInto(a, c, base)
  PROVE  AllSettled'
<1> USE DEF IInv
<1> DEFINE snap == tick.listed[a]
           rows == MirroredRows(row[c], a, snap)
<1>1. row[c] \in Rows /\ snap \in AddonJob
  BY TickFields DEF DbType
<1>2. rows \in Rows /\ Still(row[c], rows)
  BY <1>1, MirroredRowsFacts, MirrorStill
<1>3. base.state = "done" => Has(rows, "scanned")
  BY <1>2, ScannedStays DEF Settled
<1>4. CASE UNCHANGED <<job, row>>
  BY <1>4, QuietSettled
<1>5. ASSUME NEW aged, job' = [job EXCEPT ![c] = Recompute(base, rows, aged)],
             row' = [row EXCEPT ![c] = rows]
      PROVE  AllSettled'
  <2>1. Settled(Recompute(base, rows, aged), rows)
    BY <1>3, RecomputeSettles
  <2>2. \A d \in Card : Settled(job'[d], row'[d])
    BY <1>5, <2>1 DEF DbType, AllSettled
  <2> QED
    BY <2>2 DEF AllSettled
<1>6. ASSUME NEW aged, NEW e \in Errs,
             job' = [job EXCEPT ![c] =
                       Outcome(Recompute(base, rows, aged), rows, a, snap, e, aged)],
             row' = [row EXCEPT ![c] = OutcomeRows(rows, a, snap)]
      PROVE  AllSettled'
  <2> DEFINE ruled == Recompute(base, rows, aged)
             left  == OutcomeRows(rows, a, snap)
             out   == Outcome(ruled, rows, a, snap, e, aged)
  <2>1. Settled(ruled, rows) /\ ruled \in Card_Row
    BY <1>3, RecomputeSettles, RecomputeFacts
  <2>2. Settled(out, left)
    BY <1>2, <2>1, OutcomeSettled, ErrsType
  <2> HIDE DEF out, left
  <2>3. \A d \in Card : Settled(job'[d], row'[d])
    BY <1>6, <2>2 DEF DbType, AllSettled, out, left
  <2> QED
    BY <2>3 DEF AllSettled
<1> QED
  BY <1>4, <1>5, <1>6 DEF MirrorInto

LEMMA TickSettled ==
  ASSUME IInv, AllSettled, Tick
  PROVE  AllSettled'
<1> USE DEF IInv
<1>1. ASSUME NEW a \in AJob, Mirror(a)
      PROVE  AllSettled'
  <2>1. CASE MirrorRemoved(a)
    BY <2>1, QuietSettled DEF MirrorRemoved, dbVars
  <2>2. CASE MirrorMapped(a)
    <3> DEFINE c == jobmap[a].card
    <3>1. c \in Card /\ MirrorInto(a, c, job[c])
      BY <2>2 DEF MirrorMapped, DbType
    <3>2. job[c] \in Card_Row /\ Settled(job[c], row[c])
      BY <3>1 DEF DbType, AllSettled
    <3> QED
      BY <3>1, <3>2, MirrorIntoSettled
  <2>3. CASE MirrorMinted(a)
    <3>1. PICK c \in Minted : MirrorInto(a, c, Created(a))
      BY <2>3 DEF MirrorMinted
    <3>2. c \in Card /\ Created(a) \in Card_Row /\ Created(a).state # "done"
      BY CreatedFacts DEF Minted
    <3> QED
      BY <3>1, <3>2, MirrorIntoSettled DEF Settled
  <2> QED
    BY <1>1, <2>1, <2>2, <2>3 DEF Mirror
<1>2. ASSUME NEW c \in Card, NEW a, job' = [job EXCEPT ![c] = OrphanedJob(@)],
             row' = [row EXCEPT ![c] = OrphanedRows(@, a)]
      PROVE  AllSettled'
  <2>1. Settled(OrphanedJob(job[c]), OrphanedRows(row[c], a))
    BY OrphanedSettled DEF DbType, AllSettled
  <2>2. \A d \in Card : Settled(job'[d], row'[d])
    BY <1>2, <2>1 DEF DbType, AllSettled
  <2> QED
    BY <2>2 DEF AllSettled
<1>3. ASSUME NEW c \in Card, Stranded(c)
      PROVE  AllSettled'
  BY <1>2, <1>3, QuietSettled DEF Stranded
<1>4. ASSUME OrphanAnswer
      PROVE  AllSettled'
  <2>1. tick.ask \in Card
    BY <1>4, TickFields DEF OrphanAnswer
  <2>2. \/ UNCHANGED <<job, row>>
        \/ /\ job' = [job EXCEPT ![tick.ask] = OrphanedJob(@)]
           /\ row' = [row EXCEPT ![tick.ask] = OrphanedRows(@, job[tick.ask].ref)]
    BY <1>4 DEF OrphanAnswer
  <2> QED
    BY <1>2, <2>1, <2>2, QuietSettled
<1>5. ASSUME NEW overdue, TickCancels(overdue)
      PROVE  AllSettled'
  <2>1. PICK aged \in AgedSets :
          job' = [c \in Card |-> IF c \in overdue THEN CancelledJob(job[c], row[c], aged)
                                 ELSE job[c]]
    BY <1>5 DEF TickCancels
  <2>2. row' = [c \in Card |-> IF c \in overdue THEN CancelledRows(row[c]) ELSE row[c]]
    BY <1>5 DEF TickCancels
  <2>3. \A c \in Card : Settled(CancelledJob(job[c], row[c], aged), CancelledRows(row[c]))
    BY CancelledSettled DEF DbType, AllSettled
  <2>4. \A c \in Card : Settled(job'[c], row'[c])
    BY <2>1, <2>2, <2>3 DEF AllSettled
  <2> QED
    BY <2>4 DEF AllSettled
<1>6. ASSUME \/ TickList \/ TickListFails \/ TickRelease \/ OrphansDone
             \/ \E sweep \in BOOLEAN : MirrorDone(sweep)
             \/ \E stale \in SUBSET Active : StrandedDone(stale)
             \/ \E c \in Card : OrphanAsk(c)
      PROVE  AllSettled'
  BY <1>6, QuietSettled
     DEF TickList, TickListFails, TickRelease, OrphansDone, MirrorDone, StrandedDone,
         OrphanAsk, dbVars
<1> QED
  BY <1>1, <1>3, <1>4, <1>5, <1>6 DEF Tick

\* The pump's verdict; rows of other cards at most become scanned.
LEMMA FinishSettled ==
  ASSUME IInv, pump.card \in Card, NEW base \in Card_Row, NEW rows \in [Card -> Rows],
         NEW paths, Finish(base, rows, paths), Settled(base, rows[pump.card]),
         \A d \in Card : Settled(job[d], rows[d])
  PROVE  AllSettled'
<1> USE DEF IInv
<1> DEFINE c == pump.card
           left == OutcomeRows(rows[c], pump.a, pump.snap)
<1>1. PICK aged \in AgedSets, e \in Errs :
        job' = [job EXCEPT ![c] = Outcome(base, rows[c], pump.a, pump.snap, e, aged)]
  BY DEF Finish
<1> DEFINE out == Outcome(base, rows[c], pump.a, pump.snap, e, aged)
<1>2. row' = [rows EXCEPT ![c] = left]
  BY DEF Finish
<1>3. Settled(out, left)
  BY OutcomeSettled, ErrsType
<1> HIDE DEF out, left
<1>4. \A d \in Card : d # c => job'[d] = job[d] /\ row'[d] = rows[d]
  BY <1>1, <1>2 DEF DbType
<1>5. job'[c] = out /\ row'[c] = left
  BY <1>1, <1>2 DEF DbType, out
<1>6. \A d \in Card : Settled(job'[d], row'[d])
  BY <1>3, <1>4, <1>5
<1> QED
  BY <1>6 DEF AllSettled

LEMMA PumpSettled ==
  ASSUME IInv, Delivered, AllSettled, Pump
  PROVE  AllSettled'
<1> USE DEF IInv
<1> DEFINE c == pump.card
<1>1. ASSUME PumpStart \/ PumpIndex \/ PumpRelease \/ \E i \in Item : PumpFetch(i)
      PROVE  AllSettled'
  BY <1>1, QuietSettled DEF PumpStart, PumpIndex, PumpRelease, PumpFetch, dbVars
<1>2. ASSUME PumpNothing
      PROVE  AllSettled'
  <2>1. c \in Card
    BY <1>2 DEF PumpNothing, Working
  <2>2. Finish(job[c], row, filed[c]) /\ row \in [Card -> Rows] /\ job[c] \in Card_Row
    BY <1>2, <2>1 DEF PumpNothing, DbType
  <2>3. \A d \in Card : Settled(job[d], row[d])
    BY DEF AllSettled
  <2> QED
    BY <2>1, <2>2, <2>3, FinishSettled
<1>3. ASSUME PumpOrganize
      PROVE  AllSettled'
  <2>1. c \in Card /\ pump.pc = "fetch"
    BY <1>3 DEF PumpOrganize, Working
  <2>2. PICK ok \in {pump.batch} \union (IF "organizeFail" \in Events THEN {{}} ELSE {}) :
          LET K == {k \in {pump.a} \X ok : row[c][k] # "none"} IN
          row' = [row EXCEPT ![c] = Move(@, K, ItemState, "organized")]
    BY <1>3 DEF PumpOrganize
  <2> DEFINE K == {k \in {pump.a} \X ok : row[c][k] # "none"}
             moved == Move(row[c], K, ItemState, "organized")
  <2>3. row' = [row EXCEPT ![c] = moved] /\ job' = job
    BY <1>3, <2>2 DEF PumpOrganize
  <2>4. ok \subseteq pump.batch
    BY <2>2
  <2>5. \A k \in K : k \notin filed[c]
    BY <2>1, <2>4 DEF Delivered, BatchUnfiled
  <2>6. \A k \in RowKey : row[c][k] = "scanned" => k \notin K
    BY <2>1, <2>5 DEF Delivered, LandedFiled, FiledRows, Landed
  <2> HIDE DEF K
  <2>7. \A k \in RowKey : row[c][k] = "scanned" => moved[k] = "scanned"
    BY <2>6 DEF Move
  <2>8. \A k \in RowKey : row[c][k] \notin InFlight => moved[k] \notin InFlight
    BY DEF Move, InFlight
  <2> HIDE DEF moved
  <2>9. Settled(job[c], moved)
    BY <2>1, <2>7, <2>8 DEF AllSettled, Settled, Has
  <2>10. \A d \in Card : Settled(job'[d], row'[d])
    BY <2>3, <2>9 DEF DbType, AllSettled
  <2> QED
    BY <2>10 DEF AllSettled
<1>4. ASSUME PumpScan
      PROVE  AllSettled'
  <2> DEFINE found == pump.batch \intersect library
             rows  == ScannedRows(found)
  <2>1. c \in Card
    BY <1>4 DEF PumpScan, Working
  <2>2. PICK aged \in AgedSets : Finish(Recompute(job[c], rows[c], aged), rows, filed[c])
    BY <1>4 DEF PumpScan
  <2> HIDE DEF found
  <2>3. rows \in [Card -> Rows]
    BY ScannedRowsFacts
  <2>4. \A d \in Card, k \in RowKey : rows[d][k] = "scanned" \/ rows[d][k] = row[d][k]
    BY DEF ScannedRows, Move
  <2> HIDE DEF rows
  <2>5. \A d \in Card : Settled(job[d], rows[d])
    BY <2>4 DEF AllSettled, Settled, Has, InFlight
  <2> DEFINE base == Recompute(job[c], rows[c], aged)
  <2>6. base \in Card_Row /\ Settled(base, rows[c])
    <3>1. job[c] \in Card_Row /\ (job[c].state = "done" => Has(rows[c], "scanned"))
      BY <2>1, <2>5 DEF DbType, Settled
    <3> QED
      BY <3>1, RecomputeSettles, RecomputeFacts
  <2>7. Finish(base, rows, filed[c])
    BY <2>2
  <2> HIDE DEF base
  <2> QED
    BY <2>1, <2>3, <2>5, <2>6, <2>7, FinishSettled
<1> QED
  BY <1>1, <1>2, <1>3, <1>4 DEF Pump

LEMMA SubmitSettled ==
  ASSUME IInv, AllSettled, Submit \/ Addon \/ AddonRestart
  PROVE  AllSettled'
<1> USE DEF IInv
<1>1. CASE Addon \/ AddonRestart
  BY <1>1, QuietSettled DEF Addon, AddonProgress, AddonFinish, AddonRestart, dbVars
<1>2. ASSUME NEW c \in Card, SubmitUrl(c)
      PROVE  AllSettled'
  <2>1. job' = [job EXCEPT ![c] = Reserved] /\ row' = row /\ Reserved.state # "done"
    BY <1>2 DEF SubmitUrl, Reserved, Unborn
  <2> QED
    BY <2>1, OneJobSettled
<1>3. ASSUME NEW w \in await, AlbumAnswer(w)
      PROVE  AllSettled'
  <2>1. PICK c \in Minted : job' = [job EXCEPT ![c] = Created(w.a)]
    BY <1>3 DEF AlbumAnswer
  <2>2. c \in Card /\ row' = row /\ Created(w.a).state # "done"
    BY <1>3 DEF Minted, AlbumAnswer, Created, Unborn
  <2> QED
    BY <2>1, <2>2, OneJobSettled
<1>4. ASSUME NEW w \in await, UrlAnswer(w)
      PROVE  AllSettled'
  <2>1. /\ w.card \in Card /\ row' = row
        /\ job' = [job EXCEPT ![w.card] = Attached(job[w.card], w.a)]
    BY <1>4 DEF UrlAnswer, RouteType, Request
  <2>2. Attached(job[w.card], w.a).state = job[w.card].state
    BY <2>1 DEF Attached, DbType, Card_Row
  <2> QED
    BY <2>1, <2>2, OneJobSettled
<1>5. ASSUME NEW w \in await, SubmitFails(w)
      PROVE  AllSettled'
  <2>1. CASE w.card = NoCard
    BY <1>5, <2>1, QuietSettled DEF SubmitFails
  <2>2. CASE w.card # NoCard
    <3>1. /\ w.card \in Card /\ row' = row
          /\ job' = [job EXCEPT ![w.card] = Refused(job[w.card])]
      BY <1>5, <2>2 DEF SubmitFails, RouteType, Request
    <3>2. Refused(job[w.card]).state = "done" => job[w.card].state = "done"
      BY <3>1 DEF Refused, DbType, Card_Row
    <3> QED
      BY <3>1, <3>2, OneJobSettled
  <2> QED
    BY <2>1, <2>2
<1>6. ASSUME NEW c \in Card, Supersede(c)
      PROVE  AllSettled'
  <2>1. job' = [job EXCEPT ![c] = [job[c] EXCEPT !.state = "superseded"]] /\ row' = row
    BY <1>6 DEF Supersede
  <2>2. [job[c] EXCEPT !.state = "superseded"].state # "done"
    BY DEF DbType, Card_Row
  <2> QED
    BY <2>1, <2>2, OneJobSettled
<1>7. ASSUME \/ \E a \in AJob : SubmitAlbum(a)
             \/ \E w \in await, a \in AJob : UrlAccepted(w, a)
      PROVE  AllSettled'
  BY <1>7, QuietSettled DEF SubmitAlbum, UrlAccepted, dbVars
<1> QED
  BY <1>1, <1>2, <1>3, <1>4, <1>5, <1>6, <1>7 DEF Submit

LEMMA ResourceSettled ==
  ASSUME IInv, AllSettled, ResourceRecord
  PROVE  AllSettled'
<1> USE DEF IInv
<1> DEFINE c    == swap.card
           gone == SupersededRows(row[c], swap.titles)
           rows == Move(gone, {swap.new} \X swap.titles, {"none"}, "queued")
<1>1. c \in Card /\ row[c] \in Rows /\ job[c] \in Card_Row
  BY DEF ResourceRecord, Working, DbType
<1>2. PICK aged \in AgedSets : job' = [job EXCEPT ![c] = Recompute(job[c], rows, aged)]
  BY DEF ResourceRecord
<1>3. row' = [row EXCEPT ![c] = rows]
  BY DEF ResourceRecord
<1>4. Still(row[c], gone) /\ gone \in Rows
  BY <1>1, MoveStill, MoveType DEF SupersededRows, Resourceable, Landed, ItemState
<1>5. Still(row[c], rows)
  BY <1>4, MoveStill, StillTransitive DEF Landed
<1> HIDE DEF rows
<1>6. Settled(Recompute(job[c], rows, aged), rows)
  <2>1. job[c].state = "done" => Has(rows, "scanned")
    BY <1>1, <1>5, ScannedStays DEF AllSettled, Settled
  <2> QED
    BY <1>1, <2>1, RecomputeSettles
<1>7. \A d \in Card : Settled(job'[d], row'[d])
  BY <1>2, <1>3, <1>6 DEF DbType, AllSettled
<1> QED
  BY <1>7 DEF AllSettled

LEMMA RouteSettled ==
  ASSUME IInv, AllSettled, Route
  PROVE  AllSettled'
<1> USE DEF IInv
<1>1. ASSUME NEW c \in Card, CancelUnowned(c)
      PROVE  AllSettled'
  <2>1. PICK aged \in AgedSets : job' = [job EXCEPT ![c] = CancelledJob(job[c], row[c], aged)]
    BY <1>1 DEF CancelUnowned
  <2>2. row' = [row EXCEPT ![c] = CancelledRows(row[c])]
    BY <1>1 DEF CancelUnowned
  <2>3. Settled(CancelledJob(job[c], row[c], aged), CancelledRows(row[c]))
    BY CancelledSettled DEF DbType, AllSettled
  <2>4. \A d \in Card : Settled(job'[d], row'[d])
    BY <2>1, <2>2, <2>3 DEF DbType, AllSettled
  <2> QED
    BY <2>4 DEF AllSettled
<1>2. ASSUME NEW c \in Card, Cancel(c) \/ DiscardStart(c)
      PROVE  AllSettled'
  <2>1. PICK k \in {CancelRequested(job[c]), Discarded(job[c])} :
          job' = [job EXCEPT ![c] = k] /\ row' = row
    BY <1>2 DEF Cancel, DiscardStart
  <2>2. k.state = job[c].state
    BY DEF CancelRequested, Discarded, DbType, Card_Row
  <2> QED
    BY <2>1, <2>2, OneJobSettled
<1>3. ASSUME NEW c \in Card, RemoveRows(c)
      PROVE  AllSettled'
  <2> DEFINE k == IF Live(job[c]) THEN Removed(job[c]) ELSE job[c]
  <2>1. \A d \in Card : job'[d] = IF d = c THEN k ELSE job[d]
    BY <1>3 DEF RemoveRows, DbType
  <2>2. k.state # "done"
    BY DEF Removed, Unborn, Live
  <2>3. \A d \in Card : d # c => row'[d] = row[d]
    BY <1>3 DEF RemoveRows, DbType
  <2> HIDE DEF k
  <2> QED
    BY <2>1, <2>2, <2>3 DEF AllSettled, Settled
<1>4. ASSUME NEW c \in Card, NEW aged, job' = [job EXCEPT ![c] = Recompute(@, row[c], aged)],
             row' = row
      PROVE  AllSettled'
  <2>1. job[c] \in Card_Row /\ Settled(job[c], row[c])
    BY DEF DbType, AllSettled
  <2>2. Settled(Recompute(job[c], row[c], aged), row[c])
    BY <2>1, RecomputeSettles DEF Settled
  <2>3. \A d \in Card : Settled(job'[d], row'[d])
    BY <1>4, <2>2 DEF DbType, AllSettled
  <2> QED
    BY <2>3 DEF AllSettled
<1>5. ASSUME DiscardDelete
      PROVE  AllSettled'
  <2>1. discard.card \in Card /\ row' = row
    BY <1>5 DEF DiscardDelete, RouteType
  <2>2. PICK aged \in AgedSets :
          job' = [job EXCEPT ![discard.card] = Recompute(@, row[discard.card], aged)]
    BY <1>5 DEF DiscardDelete
  <2> QED
    BY <1>4, <2>1, <2>2
<1>6. ASSUME ResourceRefused
      PROVE  AllSettled'
  <2>1. swap.card \in Card /\ row' = row
    BY <1>6 DEF ResourceRefused, Working
  <2>2. PICK aged \in AgedSets :
          job' = [job EXCEPT ![swap.card] = Recompute(@, row[swap.card], aged)]
    BY <1>6 DEF ResourceRefused
  <2> QED
    BY <1>4, <2>1, <2>2
<1>7. ASSUME \/ ResourceCancel \/ ResourceRecordGone
             \/ \E a \in AJob : ResourceCreate(a)
             \/ \E c \in Card : RemoveStart(c) \/ ResourceStart(c)
      PROVE  AllSettled'
  BY <1>7, QuietSettled
     DEF ResourceCancel, ResourceRecordGone, ResourceCreate, RemoveStart, ResourceStart, dbVars
<1> QED
  BY <1>1, <1>2, <1>3, <1>5, <1>6, <1>7, ResourceSettled DEF Route

LEMMA HygieneSettled ==
  ASSUME IInv, AllSettled, NEW quiet, NEW ghosts, NEW expired, Hygiene(quiet, ghosts, expired)
  PROVE  AllSettled'
<1> USE DEF IInv
<1> DEFINE valved == Idle(Rescued, quiet)
<1>1. PICK aged \in AgedSets :
        LET ruled(c)  == IF Rescued[c] # row[c] THEN Recompute(job[c], Rescued[c], aged)
                         ELSE job[c]
            closed(c) == IF valved[c] # Rescued[c] THEN Recompute(ruled(c), valved[c], aged)
                         ELSE ruled(c)
            swept(c)  == IF c \in ghosts /\ NoRows(valved[c]) THEN Refused(closed(c))
                         ELSE closed(c)
        IN  /\ job' = [c \in Card |-> IF c \in expired THEN Removed(job[c]) ELSE swept(c)]
            /\ row' = [c \in Card |-> IF c \in expired THEN [k \in RowKey |-> "none"]
                                      ELSE valved[c]]
  BY DEF Hygiene
<1> DEFINE ruled(c)  == IF Rescued[c] # row[c] THEN Recompute(job[c], Rescued[c], aged)
                        ELSE job[c]
           closed(c) == IF valved[c] # Rescued[c] THEN Recompute(ruled(c), valved[c], aged)
                        ELSE ruled(c)
           swept(c)  == IF c \in ghosts /\ NoRows(valved[c]) THEN Refused(closed(c))
                        ELSE closed(c)
<1>2. ASSUME NEW c \in Card
      PROVE  Settled(job'[c], row'[c])
  <2>1. job[c] \in Card_Row /\ Settled(job[c], row[c])
    BY DEF DbType, AllSettled
  <2>2. \A k \in RowKey : Rescued[c][k] = row[c][k] \/ Rescued[c][k] = "scanned"
    BY DEF Rescued, Move
  <2>3. Has(row[c], "scanned") => Has(Rescued[c], "scanned")
    BY <2>2 DEF Has
  <2>4. ruled(c) \in Card_Row /\ Settled(ruled(c), Rescued[c])
    <3>1. job[c].state = "done" => Has(Rescued[c], "scanned")
      BY <2>1, <2>3 DEF Settled
    <3> QED
      BY <2>1, <3>1, RecomputeSettles, RecomputeFacts
  <2>5. \A k \in RowKey : Rescued[c][k] = "scanned" => valved[c][k] = "scanned"
    BY DEF Idle, Move, NonTerminal
  <2> HIDE DEF valved, ruled
  <2>6. closed(c) \in Card_Row /\ Settled(closed(c), valved[c])
    <3>1. ruled(c).state = "done" => Has(valved[c], "scanned")
      BY <2>4, <2>5 DEF Settled, Has
    <3> QED
      BY <2>4, <3>1, RecomputeSettles, RecomputeFacts
  <2> HIDE DEF closed
  <2>7. Settled(swept(c), valved[c])
    BY <2>6, RefusedSettled
  <2> HIDE DEF swept
  <2>8. CASE c \in expired
    <3>1. job'[c] = Removed(job[c])
      BY <1>1, <2>8
    <3> QED
      BY <3>1 DEF Removed, Unborn, Settled
  <2>9. CASE c \notin expired
    <3>1. job'[c] = swept(c) /\ row'[c] = valved[c]
      BY <1>1, <2>9 DEF swept, closed, ruled
    <3> QED
      BY <2>7, <3>1
  <2> QED
    BY <2>8, <2>9
<1> QED
  BY <1>2 DEF AllSettled

LEMMA NextSettled == IInv /\ Delivered /\ AllSettled /\ [Next]_vars => AllSettled'
<1> SUFFICES ASSUME IInv, Delivered, AllSettled, [Next]_vars PROVE AllSettled'
  OBVIOUS
<1>1. ASSUME HygienePass
      PROVE  AllSettled'
  BY <1>1, HygieneSettled DEF HygienePass
<1>2. ASSUME Crash \/ UNCHANGED vars
      PROVE  AllSettled'
  BY <1>2, QuietSettled DEF Crash, vars, dbVars
<1> QED
  BY <1>1, <1>2, TickSettled, PumpSettled, SubmitSettled, RouteSettled DEF Next

\* A card says done only of a title that was delivered, with nothing on it still
\* moving: whichever of the poll, the pump, the routes and the hygiene pass wrote
\* it last, and whatever rows the addon, a re-source or the organizer moved since
\* (recomputeStage in acquisition-job-store.ts and every caller of it).
THEOREM DoneIsDelivered == Spec => []DoneMeansDelivered
<1>1. Init => Delivered /\ AllSettled
  BY DEF Init, Delivered, LandedFiled, FiledRows, BatchUnfiled, Landed, PumpIdle,
         AllSettled, Settled, Unborn
<1>2. IInv /\ Delivered /\ [Next]_vars => Delivered'
  BY NextDelivered
<1>3. IInv /\ Delivered /\ AllSettled /\ [Next]_vars => AllSettled'
  BY NextSettled
<1>4. AllSettled => DoneMeansDelivered
  BY DEF AllSettled, Settled, DoneMeansDelivered
<1> QED
  BY <1>1, <1>2, <1>3, <1>4, Invariance, PTL DEF Spec

-------------------------------------------------------------------------------
(* The poll cursor *)

\* The mirror loop has listed the job and is not past it.
Held(a) ==
  /\ tick.pc \in {"mirror", "release"}
  /\ a \in tick.batch
  /\ tick.listed[a].st # "none"

Unmapped(a) == jobmap[a].card = NoCard

Ahead == \A a \in AJob : Listed(a) /\ Unmapped(a) => a \in news \/ Held(a)

\* The addon's half of a step: what it lists is new, or was listed before and
\* is no less ahead of the cursor.
Announced(a) == Listed(a)' => a \in news' \/ (Listed(a) /\ a \notin news)

LEMMA AheadKept ==
  ASSUME Ahead, \A a \in AJob : Announced(a),
         \A a \in AJob : Unmapped(a)' => Unmapped(a) /\ (Held(a) => Held(a)')
  PROVE  Ahead'
  BY DEF Ahead, Announced

LEMMA SilentAnnounced ==
  ASSUME UNCHANGED <<addon, news>>
  PROVE  \A a \in AJob : Announced(a)
  BY DEF Announced, Listed

LEMMA CreateAnnounced ==
  ASSUME AddonType, NEW b \in AJob, NEW titles, AddonCreate(b, titles)
  PROVE  \A a \in AJob : Announced(a)
  BY DEF AddonType, AddonCreate, Announced, Listed

LEMMA DropAnnounced ==
  ASSUME AddonType, NEW b \in AJob, AddonDrop(b)
  PROVE  \A a \in AJob : Announced(a)
<1> SUFFICES ASSUME NEW a \in AJob PROVE Announced(a)
  OBVIOUS
<1>1. addon' = [addon EXCEPT ![b] = Gone(@)] /\ news' = news \ {b}
  BY DEF AddonDrop
<1>2. CASE a = b
  <2>1. addon'[a] = Gone(addon[a]) /\ addon[a] \in AddonJob
    BY <1>1, <1>2 DEF AddonType
  <2>2. addon'[a].st = "none"
    BY <2>1 DEF Gone, AddonJob
  <2> QED
    BY <2>2 DEF Announced, Listed
<1>3. CASE a # b
  BY <1>1, <1>3 DEF AddonType, Announced, Listed
<1> QED
  BY <1>2, <1>3

LEMMA DeleteAnnounced ==
  ASSUME AddonType, NEW b \in AJob, DeleteCall(b)
  PROVE  \A a \in AJob : Announced(a)
  BY DropAnnounced, SilentAnnounced DEF DeleteCall, addonVars

LEMMA CancelAnnounced ==
  ASSUME NEW b, CancelCall(b)
  PROVE  \A a \in AJob : Announced(a)
  BY SilentAnnounced DEF CancelCall

\* A step that neither maps a job nor moves the poll.
LEMMA PollUntouched ==
  ASSUME Ahead, \A a \in AJob : Announced(a), UNCHANGED <<jobmap, tick>>
  PROVE  Ahead'
<1>1. \A a \in AJob : Unmapped(a)' => Unmapped(a) /\ (Held(a) => Held(a)')
  BY DEF Unmapped, Held
<1> QED
  BY <1>1, AheadKept

-------------------------------------------------------------------------------
(* The tick *)

\* The loop takes the job b and maps it, or found it mapped.
LEMMA TakenHeld ==
  ASSUME WorkType, NEW b \in AJob, tick.pc = "mirror",
         tick'.pc \in {"mirror", "release"},
         tick'.batch = tick.batch, tick'.listed = Taken(b).listed,
         NEW a \in AJob, a # b, Held(a)
  PROVE  Held(a)'
<1>1. tick'.listed[a] = tick.listed[a]
  BY DEF WorkType, TickType, Taken
<1> QED
  BY <1>1 DEF Held

\* Where MirrorInto leaves the poll.
LEMMA MirrorIntoTick ==
  ASSUME WorkType, NEW a \in AJob, NEW c \in Card, NEW base, tick.pc = "mirror",
         MirrorInto(a, c, base)
  PROVE  /\ tick'.pc \in {"mirror", "release"}
         /\ tick'.batch = tick.batch /\ tick'.listed = Taken(a).listed
<1> DEFINE seen == [Taken(a) EXCEPT !.handled = @ \union {c}]
<1>1. tick' = seen \/ tick' = [seen EXCEPT !.pc = "release", !.del = a]
  BY DEF MirrorInto
<1>2. Taken(a) \in TickType /\ Taken(a).pc = "mirror"
  BY TakenType
<1>3. Taken(a).batch = tick.batch
  BY DEF Taken, WorkType, TickType
<1> QED
  BY <1>1, <1>2, <1>3 DEF TickType

LEMMA MirrorAhead ==
  ASSUME IInv, Ahead, NEW b \in AJob, Mirror(b)
  PROVE  Ahead'
<1> USE DEF IInv
<1>1. tick.pc = "mirror"
  BY DEF Mirror
<1> SUFFICES /\ \A a \in AJob : Announced(a)
             /\ ~Unmapped(b)'
             /\ \A a \in AJob : a # b => jobmap'[a] = jobmap[a]
             /\ tick'.pc \in {"mirror", "release"}
             /\ tick'.batch = tick.batch /\ tick'.listed = Taken(b).listed
  BY <1>1, TakenHeld, AheadKept DEF Unmapped
<1>2. CASE MirrorRemoved(b)
  <2>1. \A a \in AJob : Announced(a)
    <3>1. UNCHANGED addonVars \/ CancelCall(b)
      BY <1>2 DEF MirrorRemoved
    <3> QED
      BY <3>1, SilentAnnounced, CancelAnnounced DEF addonVars
  <2>2. jobmap' = jobmap /\ ~Unmapped(b)
    BY <1>2 DEF MirrorRemoved, RemovedMapping, Unmapped, dbVars
  <2>3. tick' = Taken(b) \/ tick' = [Taken(b) EXCEPT !.pc = "release", !.del = b]
    BY <1>2 DEF MirrorRemoved
  <2>4. Taken(b) \in TickType /\ Taken(b).pc = "mirror"
    BY <1>1, TakenType
  <2>5. Taken(b).batch = tick.batch
    BY DEF Taken, WorkType, TickType
  <2>6. /\ tick'.pc \in {"mirror", "release"}
        /\ tick'.batch = tick.batch /\ tick'.listed = Taken(b).listed
    BY <2>3, <2>4, <2>5 DEF TickType
  <2> QED
    BY <2>1, <2>2, <2>6 DEF Unmapped
<1>3. CASE MirrorMapped(b)
  <2>1. jobmap[b].card # NoCard /\ UNCHANGED <<jobmap, addonVars>>
        /\ MirrorInto(b, jobmap[b].card, job[jobmap[b].card])
    BY <1>3 DEF MirrorMapped
  <2>2. jobmap[b].card \in Card
    BY <2>1 DEF DbType
  <2>3. /\ tick'.pc \in {"mirror", "release"}
        /\ tick'.batch = tick.batch /\ tick'.listed = Taken(b).listed
    BY <1>1, <2>1, <2>2, MirrorIntoTick
  <2> QED
    BY <2>1, <2>3, SilentAnnounced DEF Unmapped, addonVars
<1>4. CASE MirrorMinted(b)
  <2>1. PICK c \in Minted :
          /\ jobmap' = [jobmap EXCEPT ![b] = [card |-> c, epoch |-> tick.listed[b].epoch]]
          /\ MirrorInto(b, c, Created(b))
    BY <1>4 DEF MirrorMinted
  <2>2. UNCHANGED addonVars
    BY <1>4 DEF MirrorMinted
  <2>3. c \in Card /\ c # NoCard
    BY PipelineAssumption DEF Minted
  <2>4. /\ tick'.pc \in {"mirror", "release"}
        /\ tick'.batch = tick.batch /\ tick'.listed = Taken(b).listed
    BY <1>1, <2>1, <2>3, MirrorIntoTick
  <2>5. /\ jobmap'[b].card = c
        /\ \A a \in AJob : a # b => jobmap'[a] = jobmap[a]
    BY <2>1 DEF DbType
  <2> QED
    BY <2>2, <2>3, <2>4, <2>5, SilentAnnounced DEF Unmapped, addonVars
<1> QED
  BY <1>2, <1>3, <1>4 DEF Mirror

\* A listing puts what was news before the loop.
LEMMA TickListAhead ==
  ASSUME IInv, Ahead, TickList
  PROVE  Ahead'
<1> USE DEF IInv
<1>1. UNCHANGED <<jobmap, addon>>
  BY DEF TickList, dbVars
<1>2. tick.pc = "idle"
  BY DEF TickList
<1>3. /\ tick'.pc = "mirror" /\ tick'.batch = news
      /\ \A a \in AJob : a \in news => tick'.listed[a] = addon[a]
  BY DEF TickList, WorkType, TickType
<1>4. ASSUME NEW a \in AJob, Listed(a)', Unmapped(a)'
      PROVE  Held(a)'
  <2>1. Listed(a) /\ Unmapped(a)
    BY <1>1, <1>4 DEF Listed, Unmapped
  <2>2. a \in news
    BY <1>2, <2>1 DEF Ahead, Held
  <2> QED
    BY <1>3, <2>1, <2>2 DEF Held, Listed
<1> QED
  BY <1>4 DEF Ahead

\* Once the loop is over nothing is held, so the rest of the tick may move on.
LEMMA LoopOver ==
  ASSUME Ahead, \A a \in AJob : ~Held(a), UNCHANGED <<jobmap, addon, news>>
  PROVE  Ahead'
  BY DEF Ahead, Listed, Unmapped

LEMMA TickAhead ==
  ASSUME IInv, Ahead, Tick
  PROVE  Ahead'
<1> USE DEF IInv
<1>1. ASSUME TickRelease
      PROVE  Ahead'
  <2>1. tick.del \in AJob
    BY <1>1 DEF TickRelease, Working
  <2>2. jobmap' = jobmap /\ \A a \in AJob : Announced(a)
    BY <1>1, <2>1, DeleteAnnounced DEF TickRelease
  <2>3. tick'.pc = "mirror" /\ tick'.batch = tick.batch /\ tick'.listed = tick.listed
    BY <1>1 DEF TickRelease, WorkType, TickType
  <2>4. \A a \in AJob : Unmapped(a)' => Unmapped(a) /\ (Held(a) => Held(a)')
    BY <2>2, <2>3 DEF Unmapped, Held
  <2> QED
    BY <2>2, <2>4, AheadKept
<1>2. ASSUME NEW sweep, MirrorDone(sweep)
      PROVE  Ahead'
  BY <1>2, LoopOver DEF MirrorDone, Held, dbVars, addonVars
<1>3. ASSUME NEW c \in Card, Stranded(c)
      PROVE  Ahead'
  BY <1>3, LoopOver DEF Stranded, Held, addonVars
<1>4. ASSUME NEW stale, StrandedDone(stale)
      PROVE  Ahead'
  BY <1>4, LoopOver DEF StrandedDone, Held, dbVars, addonVars
<1>5. ASSUME NEW c \in Card, OrphanAsk(c)
      PROVE  Ahead'
  BY <1>5, LoopOver DEF OrphanAsk, Held, dbVars, addonVars
<1>6. ASSUME OrphanAnswer
      PROVE  Ahead'
  <2>1. tick' = [tick EXCEPT !.ask = NoCard] /\ UNCHANGED <<jobmap, addonVars>>
    BY <1>6 DEF OrphanAnswer
  <2>2. \A a \in AJob : Unmapped(a)' => Unmapped(a) /\ (Held(a) => Held(a)')
    BY <2>1 DEF Unmapped, Held, WorkType, TickType
  <2> QED
    BY <2>1, <2>2, SilentAnnounced, AheadKept DEF addonVars
<1>7. ASSUME OrphansDone
      PROVE  Ahead'
  BY <1>7, LoopOver DEF OrphansDone, Held, dbVars, addonVars
<1>8. ASSUME NEW overdue, TickCancels(overdue)
      PROVE  Ahead'
  BY <1>8, LoopOver DEF TickCancels, Held, addonVars
<1>9. ASSUME TickListFails
      PROVE  Ahead'
  BY <1>9, LoopOver DEF TickListFails, Held, dbVars, addonVars
<1> QED
  BY <1>1, <1>2, <1>3, <1>4, <1>5, <1>6, <1>7, <1>8, <1>9, TickListAhead, MirrorAhead DEF Tick

-------------------------------------------------------------------------------
(* The pump, the addon and the routes *)

LEMMA PumpAhead ==
  ASSUME IInv, Ahead, Pump
  PROVE  Ahead'
<1>1. UNCHANGED <<jobmap, tick>>
  BY DEF Pump, PumpStart, PumpFetch, PumpNothing, PumpOrganize, PumpIndex, PumpScan,
         PumpRelease, dbVars
<1>2. \A a \in AJob : Announced(a)
  <2>1. CASE PumpRelease
    BY <2>1, DeleteAnnounced DEF PumpRelease, IInv, Working
  <2>2. CASE ~PumpRelease
    BY <2>2, SilentAnnounced
       DEF Pump, PumpStart, PumpFetch, PumpNothing, PumpOrganize, PumpIndex, PumpScan, addonVars
  <2> QED
    BY <2>1, <2>2
<1> QED
  BY <1>1, <1>2, PollUntouched

LEMMA AddonAhead ==
  ASSUME IInv, Ahead, Addon \/ AddonRestart
  PROVE  Ahead'
<1> USE DEF IInv
<1>1. UNCHANGED <<jobmap, tick>>
  BY DEF Addon, AddonProgress, AddonFinish, AddonRestart, dbVars, workVars
<1>2. ASSUME NEW b \in AJob, NEW i \in Item, AddonProgress(b, i)
      PROVE  \A a \in AJob : Announced(a)
  <2>1. news' = news \union {b} /\ \A a \in AJob : a # b => addon'[a] = addon[a]
    BY <1>2 DEF AddonProgress, AddonType
  <2> QED
    BY <2>1 DEF Announced, Listed
<1>3. ASSUME NEW b \in AJob, AddonFinish(b)
      PROVE  \A a \in AJob : Announced(a)
  <2>1. news' = news \union {b} /\ \A a \in AJob : a # b => addon'[a] = addon[a]
    BY <1>3 DEF AddonFinish, AddonType
  <2> QED
    BY <2>1 DEF Announced, Listed
<1>4. ASSUME AddonRestart
      PROVE  \A a \in AJob : Announced(a)
  <2>1. \A a \in AJob : addon'[a] = Gone(addon[a]) /\ addon[a] \in AddonJob
    BY <1>4 DEF AddonRestart, AddonType
  <2>2. \A a \in AJob : addon'[a].st = "none"
    BY <2>1 DEF Gone, AddonJob
  <2> QED
    BY <2>2 DEF Announced, Listed
<1> QED
  BY <1>1, <1>2, <1>3, <1>4, PollUntouched DEF Addon

\* A route that maps the job b to the card c.
LEMMA MappingAhead ==
  ASSUME DbType, Ahead, NEW b \in AJob, NEW c \in Card, NEW e,
         jobmap' = [jobmap EXCEPT ![b] = [card |-> c, epoch |-> e]],
         UNCHANGED <<addon, news, tick>>
  PROVE  Ahead'
<1>1. \A a \in AJob : Unmapped(a)' => Unmapped(a)
  BY PipelineAssumption DEF DbType, Unmapped
<1>2. \A a \in AJob : Held(a) => Held(a)'
  BY DEF Held
<1> QED
  BY <1>1, <1>2, SilentAnnounced, AheadKept

LEMMA SubmitAhead ==
  ASSUME IInv, Ahead, Submit
  PROVE  Ahead'
<1> USE DEF IInv
<1>1. ASSUME NEW a \in AJob, SubmitAlbum(a)
      PROVE  Ahead'
  BY <1>1, CreateAnnounced, PollUntouched DEF SubmitAlbum, dbVars, workVars
<1>2. ASSUME NEW w \in await, NEW a \in AJob, UrlAccepted(w, a)
      PROVE  Ahead'
  BY <1>2, CreateAnnounced, PollUntouched DEF UrlAccepted, dbVars, workVars
<1>3. ASSUME NEW w \in await, AlbumAnswer(w)
      PROVE  Ahead'
  <2>1. w.a \in AJob
    BY <1>3, PipelineAssumption DEF AlbumAnswer, RouteType, Request, Linked, AwaitLinked
  <2>2. PICK c \in Minted, e \in {0, w.epoch} :
          jobmap' = [jobmap EXCEPT ![w.a] = [card |-> c, epoch |-> e]]
    BY <1>3 DEF AlbumAnswer
  <2>3. c \in Card
    BY DEF Minted
  <2> QED
    BY <1>3, <2>1, <2>2, <2>3, MappingAhead DEF AlbumAnswer, addonVars, workVars
<1>4. ASSUME NEW w \in await, UrlAnswer(w)
      PROVE  Ahead'
  <2>1. w.a \in AJob /\ w.card \in Card
    BY <1>4 DEF UrlAnswer, RouteType, Request
  <2> QED
    BY <1>4, <2>1, MappingAhead DEF UrlAnswer, addonVars, workVars
<1>5. ASSUME UNCHANGED <<jobmap, addonVars, tick>>
      PROVE  Ahead'
  BY <1>5, SilentAnnounced, PollUntouched DEF addonVars
<1>6. ASSUME NEW c \in Card, SubmitUrl(c) \/ Supersede(c)
      PROVE  Ahead'
  BY <1>5, <1>6 DEF SubmitUrl, Supersede, workVars
<1>7. ASSUME NEW w \in await, SubmitFails(w)
      PROVE  Ahead'
  BY <1>5, <1>7 DEF SubmitFails, workVars
<1> QED
  BY <1>1, <1>2, <1>3, <1>4, <1>6, <1>7 DEF Submit

LEMMA RouteAhead ==
  ASSUME IInv, Ahead, Route
  PROVE  Ahead'
<1> USE DEF IInv
<1>1. ASSUME UNCHANGED <<jobmap, addonVars, tick>>
      PROVE  Ahead'
  BY <1>1, SilentAnnounced, PollUntouched DEF addonVars
<1>2. ASSUME NEW c \in Card,
             CancelUnowned(c) \/ RemoveRows(c) \/ DiscardStart(c) \/ ResourceStart(c)
      PROVE  Ahead'
  BY <1>1, <1>2 DEF CancelUnowned, RemoveRows, DiscardStart, ResourceStart, dbVars, workVars
<1>3. ASSUME DiscardDelete \/ ResourceRefused
      PROVE  Ahead'
  BY <1>1, <1>3 DEF DiscardDelete, ResourceRefused, workVars
<1>4. ASSUME NEW c \in Card, Cancel(c)
      PROVE  Ahead'
  BY <1>4, CancelAnnounced, PollUntouched DEF Cancel, workVars
<1>5. ASSUME NEW c \in Card, RemoveStart(c)
      PROVE  Ahead'
  <2>1. job[c].ref \in AJob \union {NoJob}
    BY DEF DbType, Card_Row
  <2>2. \A a \in AJob : Announced(a)
    BY <1>5, <2>1, DropAnnounced, CancelAnnounced, SilentAnnounced DEF RemoveStart, addonVars
  <2> QED
    BY <1>5, <2>2, PollUntouched DEF RemoveStart, dbVars, workVars
<1>6. ASSUME ResourceCancel
      PROVE  Ahead'
  BY <1>6, CancelAnnounced, PollUntouched DEF ResourceCancel, dbVars, workVars
<1>7. ASSUME NEW a \in AJob, ResourceCreate(a)
      PROVE  Ahead'
  BY <1>7, CreateAnnounced, PollUntouched DEF ResourceCreate, dbVars, workVars
<1>8. ASSUME ResourceRecord \/ ResourceRecordGone
      PROVE  Ahead'
  <2>1. swap.new \in AJob /\ swap.card \in Card
    BY <1>8 DEF ResourceRecord, ResourceRecordGone, Working
  <2>2. jobmap' = [jobmap EXCEPT ![swap.new] = [card |-> swap.card, epoch |-> 0]]
    BY <1>8 DEF ResourceRecord, ResourceRecordGone
  <2>3. UNCHANGED <<addon, news, tick>>
    BY <1>8 DEF ResourceRecord, ResourceRecordGone, addonVars, workVars
  <2> QED
    BY <2>1, <2>2, <2>3, MappingAhead
<1> QED
  BY <1>2, <1>3, <1>4, <1>5, <1>6, <1>7, <1>8 DEF Route

\* The batch of a poll the crash cut short is news again.
LEMMA CrashAhead ==
  ASSUME IInv, Ahead, Crash
  PROVE  Ahead'
  BY DEF Crash, Ahead, Held, Listed, Unmapped, dbVars

LEMMA NextAhead == IInv /\ Ahead /\ [Next]_vars => Ahead'
<1> SUFFICES ASSUME IInv, Ahead, [Next]_vars PROVE Ahead'
  OBVIOUS
<1>1. ASSUME UNCHANGED <<jobmap, addonVars, tick>>
      PROVE  Ahead'
  BY <1>1, SilentAnnounced, PollUntouched DEF addonVars
<1>2. ASSUME HygienePass
      PROVE  Ahead'
  BY <1>1, <1>2 DEF HygienePass, Hygiene, workVars
<1>3. ASSUME UNCHANGED vars
      PROVE  Ahead'
  BY <1>1, <1>3 DEF vars, dbVars, workVars
<1> QED
  BY <1>2, <1>3, TickAhead, PumpAhead, AddonAhead, SubmitAhead, RouteAhead, CrashAhead DEF Next

\* An addon job no card mirrors yet is ahead of the poll cursor: the poller
\* commits the cursor after the mirror loop, so a crash, a failed request or a
\* restarted addon that reissues an id never hides a job from every later poll.
THEOREM CursorLosesNothing == Spec => []NoJobLost
<1>1. Init => Ahead
  BY DEF Init, Ahead, Listed, NotListed
<1>2. IInv /\ Ahead /\ [Next]_vars => Ahead'
  BY NextAhead
<1>3. Ahead => NoJobLost
  BY DEF Ahead, NoJobLost, Unmapped, Held
<1> QED
  BY <1>1, <1>2, <1>3, Invariance, PTL DEF Spec
===============================================================================
