--------------------------- MODULE AcquisitionStore ---------------------------
(***************************************************************************)
(* The pure half of packages/api/src/services/acquisition-job-store.ts:    *)
(* what one download card (a row of acquisition_jobs) becomes when its     *)
(* item rows (acquisition_job_items) move.  Every writer of the pipeline   *)
(* goes through these operators, so this module has no variables.          *)
(*                                                                         *)
(* A card is a record; its item rows are a function from <<addon job,      *)
(* item>> to an item state, "none" meaning that there is no such row.      *)
(* Ages are data the properties do not tell apart: "aged" is the set of    *)
(* mid-pipeline states whose newest row is older than ITEM_STALL_MS.       *)
(*                                                                         *)
(* A definition Name_Slip next to Name is a plausible slip in that code,   *)
(* used only to show that a property would notice it.                      *)
(***************************************************************************)
EXTENDS Naturals, FiniteSets

CONSTANTS
  AJob,   \* addon-side job ids
  Item,   \* addon item ids (the wanted titles of one release)
  NoJob   \* "no addon job", a source_ref that names none

ASSUME NoJobAssumption == NoJob \notin AJob

ItemState == {"none", "queued", "downloading", "completed", "organized",
              "scanned", "failed", "unavailable", "superseded"}

\* "unborn" and "removed" are the absence of the row before and after its life.
JobState == {"unborn", "active", "done", "failed", "superseded", "removed"}

Stage == {"resolving", "queued", "downloading", "organizing", "scanning",
          "error", "done"}

Card_Row == [state : JobState, stage : Stage, err : BOOLEAN,
             ref : AJob \union {NoJob}, url : BOOLEAN,
             cancel : BOOLEAN, discarded : BOOLEAN]

RowKey == AJob \X Item
Rows   == [RowKey -> ItemState]

InFlight     == {"queued", "downloading"}
NonTerminal  == {"queued", "downloading", "completed", "organized"}
Resourceable == {"queued", "downloading", "failed", "unavailable"}

Live(j) == j.state \notin {"unborn", "removed"}

\* The row of a card that no createJob call has written yet.
Unborn == [state |-> "unborn", stage |-> "downloading", err |-> FALSE,
           ref |-> NoJob, url |-> FALSE, cancel |-> FALSE, discarded |-> FALSE]

\* createJob with the column defaults, for the addon job a.
Created(a) == [Unborn EXCEPT !.state = "active", !.ref = a]

\* createJob of the URL lane: reserved before the addon is asked.
Reserved == [Unborn EXCEPT !.state = "active", !.stage = "resolving", !.url = TRUE]

\* attachAddonRef and failReservedJob, the two ends of a reservation.
Attached(j, a) ==
  IF Live(j) /\ j.ref = NoJob THEN [j EXCEPT !.ref = a, !.stage = "queued"] ELSE j

Refused(j) ==
  IF j.state = "active"
  THEN [j EXCEPT !.state = "failed", !.stage = "error", !.err = TRUE]
  ELSE j

\* The deleted row: only the id that named it survives, in plugin_kv.
Removed(j) == [Unborn EXCEPT !.state = "removed", !.ref = j.ref]

Having(rows, s) == {k \in RowKey : rows[k] = s}
Has(rows, s)    == \E k \in RowKey : rows[k] = s
NoRows(rows)    == \A k \in RowKey : rows[k] = "none"

\* counts.size = 0: no row, or only rows handed to another peer.
NothingCounted(rows) == \A k \in RowKey : rows[k] \in {"none", "superseded"}

\* rules(): a mid-pipeline state speaks for the job unless it has stalled and
\* the settled rows outnumber it.
Rules(rows, aged, s) ==
  /\ Has(rows, s)
  /\ s \in aged => Cardinality(Having(rows, "scanned"))
                     <= Cardinality(Having(rows, s))

StageOf_Optimistic(rows, aged) ==
  IF Has(rows, "downloading") THEN "downloading"
  ELSE IF Has(rows, "queued") THEN "queued"
  ELSE IF Rules(rows, aged, "completed") THEN "organizing"
  ELSE IF Rules(rows, aged, "organized") THEN "scanning"
  ELSE "done"

StageOf(rows, aged) ==
  IF Has(rows, "downloading") THEN "downloading"
  ELSE IF Has(rows, "queued") THEN "queued"
  ELSE IF Rules(rows, aged, "completed") THEN "organizing"
  ELSE IF Rules(rows, aged, "organized") THEN "scanning"
  ELSE IF Has(rows, "scanned") THEN "done"
  ELSE "error"

StateAt(stage) ==
  CASE stage = "done"  -> "done"
    [] stage = "error" -> "failed"
    [] OTHER           -> "active"

\* recomputeStage: the card's stage, state and error from its rows.  A card
\* that delivered everything loses its error, an error card always gets one.
Recompute(j, rows, aged) ==
  LET stage == StageOf(rows, aged)
      whole == ~Has(rows, "failed") /\ ~Has(rows, "unavailable")
  IN  IF ~Live(j) \/ j.state = "superseded" \/ NothingCounted(rows)
      THEN j
      ELSE [j EXCEPT !.state = StateAt(stage),
                     !.stage = stage,
                     !.err   = IF stage = "done" /\ whole THEN FALSE
                               ELSE stage = "error" \/ @]

\* Rows in one of the states "from" (restricted to the keys "own") move to "to".
Move(rows, own, from, to) ==
  [k \in RowKey |-> IF k \in own /\ rows[k] \in from THEN to ELSE rows[k]]

OwnedBy(a) == {a} \X Item

\* cancelUnownedJob: what is still moving is written off, then the card is
\* re-derived; a card with nothing to derive from is closed directly.
CancelledRows(rows) ==
  Move(rows, RowKey, InFlight \union {"completed"}, "unavailable")

CancelledJob(j, rows, aged) ==
  LET said == IF j.state \in {"active", "failed"} THEN [j EXCEPT !.err = TRUE] ELSE j
      ruled == Recompute(said, CancelledRows(rows), aged)
  IN  IF ruled.state = "active"
      THEN [ruled EXCEPT !.state = "failed", !.stage = "error"]
      ELSE ruled

\* failOrphanedJob: the addon no longer knows the job.
OrphanedRows(rows, a) == Move(rows, OwnedBy(a), {"downloading"}, "unavailable")

OrphanedJob_RowsOnly(j) == j

OrphanedJob(j) == Refused(j)

\* requestJobCancel and markPartialDiscarded, the two durable markers.
CancelRequested(j) == [j EXCEPT !.cancel = TRUE]
Discarded(j)       == IF Live(j) THEN [j EXCEPT !.discarded = TRUE] ELSE j

\* The titles of a card, by the state of their rows; supersedeItems.
TitlesIn(rows, S) == {i \in Item : \E a \in AJob : rows[<<a, i>>] \in S}
NotOffered(rows)  == Item \ TitlesIn(rows, ItemState \ {"none", "superseded"})

SupersededRows(rows, titles) ==
  Move(rows, AJob \X titles, Resourceable, "superseded")
=============================================================================
