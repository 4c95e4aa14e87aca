---- MODULE FfmpegSlots ----
(***************************************************************************)
(* The process-wide cap on concurrent ffmpeg and ffprobe children           *)
(* (packages/api/src/services/ffmpeg-slots.ts).  A call runs its work while *)
(* it holds one of Size slots; stream transcodes and waveforms              *)
(* (Interactive) never queue behind batch work (Batch), which may hold at   *)
(* most Size - 1 slots.  Work that runs inside a slot and needs another     *)
(* child runs it under the slot it already holds.                           *)
(*                                                                          *)
(* A call is an element of Call that goes through its phases and may be     *)
(* made again.  Context[c] is the call inside whose work c is made, or None *)
(* for a call made outside any slot.  The AsyncLocalStorage token of the    *)
(* source is live exactly while that call is in progress: work in a slot    *)
(* awaits the children it asked for (inner), and code that outlived its     *)
(* slot finds a released token and queues like any other caller.            *)
(***************************************************************************)
EXTENDS Integers, Sequences, FiniteSets

CONSTANTS Interactive, Batch, None, Context, Size

Call == Interactive \cup Batch

ASSUME SlotsAssumption ==
  /\ IsFiniteSet(Call)
  /\ Interactive \cap Batch = {}
  /\ None \notin Call
  /\ Context \in [Call -> Call \cup {None}]
  /\ Size \in Nat
  /\ Size >= 2

VARIABLES active, activeBatch,            \* slots held, and by batch work
          interactiveQueue, batchQueue,   \* waiters, oldest first
          phase,                          \* where each call is
          inner                           \* calls their context awaits

vars == <<active, activeBatch, interactiveQueue, batchQueue, phase, inner>>

Phase == {"idle", "waiting", "granted", "running", "nested", "done"}

Holders == {c \in Call : phase[c] \in {"granted", "running"}}

InProgress(c) == phase[c] \in {"running", "nested"}

Queue(c) == IF c \in Interactive THEN interactiveQueue ELSE batchQueue

(* canStart.                                                                 *)
CanStart_OffByOne(c) == active < Size /\ (c \in Interactive \/ activeBatch < Size)
CanStart(c) == active < Size /\ (c \in Interactive \/ activeBatch < Size - 1)

(* Made while the work of its context is in progress.                       *)
Within(c) == Context[c] # None /\ InProgress(Context[c])

(* A nested call whose token was not released yet: run() reuses its slot.    *)
Reentrant_Never(c) == FALSE
Reentrant_IgnoresReleased(c) == Context[c] # None
Reentrant(c) == Within(c)

Callable(c) ==
  /\ phase[c] \in {"idle", "done"}
  /\ Context[c] # None => InProgress(Context[c]) \/ phase[Context[c]] = "done"

Init ==
  /\ active = 0 /\ activeBatch = 0
  /\ interactiveQueue = <<>> /\ batchQueue = <<>>
  /\ phase = [c \in Call |-> "idle"]
  /\ inner = {}

Awaited(c) == IF Within(c) THEN {c} ELSE {}

(* run() inside a live slot: the work starts at once, on the same slot.     *)
CallNested(c) ==
  /\ Callable(c) /\ Reentrant(c)
  /\ phase' = [phase EXCEPT ![c] = "nested"]
  /\ inner' = inner \cup Awaited(c)
  /\ UNCHANGED <<active, activeBatch, interactiveQueue, batchQueue>>


(* run() with a free slot and nobody of its class waiting.                  *)
CallStarts(c) ==
  /\ Callable(c) /\ ~Reentrant(c)
  /\ Queue(c) = <<>> /\ CanStart(c)
  /\ active' = active + 1
  /\ activeBatch' = IF c \in Batch THEN activeBatch + 1 ELSE activeBatch
  /\ phase' = [phase EXCEPT ![c] = "running"]
  /\ inner' = inner \cup Awaited(c)
  /\ UNCHANGED <<interactiveQueue, batchQueue>>

CallWaits(c) ==
  /\ Callable(c) /\ ~Reentrant(c)
  /\ ~(Queue(c) = <<>> /\ CanStart(c))
  /\ IF c \in Interactive
       THEN /\ interactiveQueue' = Append(interactiveQueue, c)
            /\ UNCHANGED batchQueue
       ELSE /\ batchQueue' = Append(batchQueue, c)
            /\ UNCHANGED interactiveQueue
  /\ phase' = [phase EXCEPT ![c] = "waiting"]
  /\ inner' = inner \cup Awaited(c)
  /\ UNCHANGED <<active, activeBatch>>

(* The microtask behind a granted waiter's promise: runHeld.                *)
Start(c) ==
  /\ phase[c] = "granted"
  /\ phase' = [phase EXCEPT ![c] = "running"]
  /\ UNCHANGED <<active, activeBatch, interactiveQueue, batchQueue, inner>>

Smaller(m, n) == IF m < n THEN m ELSE n

(* What release's loops hand out, with a slots held and b of them by batch  *)
(* work: interactive waiters as far as the slots go, then batch ones.       *)
InteractiveGrants(a) == Smaller(Len(interactiveQueue), Size - a)
BatchGrants(a, b) ==
  Smaller(Len(batchQueue),
          Smaller(Size - a - InteractiveGrants(a), Size - 1 - b))

Heads(q, n) == {q[i] : i \in 1..n}
After(q, n) == SubSeq(q, n + 1, Len(q))

GrantFrom(c, i, b) ==
  /\ interactiveQueue' = After(interactiveQueue, i)
  /\ batchQueue' = After(batchQueue, b)
  /\ phase' = [d \in Call |->
                 IF d = c THEN "done"
                 ELSE IF d \in Heads(interactiveQueue, i) \cup Heads(batchQueue, b)
                   THEN "granted"
                 ELSE phase[d]]

(* The counters without the slot of c.                                      *)
LessActive == active - 1
LessBatch_AnyClass(c) == activeBatch - 1
LessBatch(c) == IF c \in Batch THEN activeBatch - 1 ELSE activeBatch

Release_OwnClass(c) ==
  LET i == IF c \in Interactive THEN InteractiveGrants(LessActive) ELSE 0
      b == IF c \in Batch THEN BatchGrants(LessActive, LessBatch(c)) ELSE 0
  IN  /\ active' = LessActive + i + b
      /\ activeBatch' = LessBatch(c) + b
      /\ GrantFrom(c, i, b)
Release_BatchFirst(c) ==
  LET b == Smaller(Len(batchQueue),
                   Smaller(Size - LessActive, Size - 1 - LessBatch(c)))
      i == Smaller(Len(interactiveQueue), Size - LessActive - b)
  IN  /\ active' = LessActive + i + b
      /\ activeBatch' = LessBatch(c) + b
      /\ GrantFrom(c, i, b)
Release_GrantsFirst(c) ==
  LET i == InteractiveGrants(active)
      b == BatchGrants(active, activeBatch)
  IN  /\ active' = LessActive + i + b
      /\ activeBatch' = LessBatch(c) + b
      /\ GrantFrom(c, i, b)
Release(c) ==
  LET i == InteractiveGrants(LessActive)
      b == BatchGrants(LessActive, LessBatch(c))
  IN  /\ active' = LessActive + i + b
      /\ activeBatch' = LessBatch(c) + b
      /\ GrantFrom(c, i, b)

AwaitsNone(c) == \A d \in inner : Context[d] # c

(* The work of a holder settles, by returning or by throwing.               *)
Finish(c) ==
  /\ phase[c] = "running" /\ AwaitsNone(c)
  /\ Release(c)
  /\ inner' = inner \ {c}

FinishNested(c) ==
  /\ phase[c] = "nested" /\ AwaitsNone(c)
  /\ phase' = [phase EXCEPT ![c] = "done"]
  /\ inner' = inner \ {c}
  /\ UNCHANGED <<active, activeBatch, interactiveQueue, batchQueue>>

Next == \E c \in Call :
  \/ CallNested(c) \/ CallStarts(c) \/ CallWaits(c)
  \/ Start(c) \/ Finish(c) \/ FinishNested(c)

Spec == Init /\ [][Next]_vars

(* Every granted waiter's microtask runs.  A child process ends, and work   *)
(* in a slot asks for finitely many nested children: it is never kept from  *)
(* settling by an endless series of them.                                   *)
Fairness == \A c \in Call :
  WF_vars(Start(c)) /\ WF_vars(FinishNested(c)) /\ SF_vars(Finish(c))

FairSpec == Spec /\ Fairness

---------------------------------------------------------------------------
(* The variables hold values of their types.                                *)
TypeOK ==
  /\ active \in Nat /\ activeBatch \in Nat
  /\ interactiveQueue \in Seq(Interactive) /\ batchQueue \in Seq(Batch)
  /\ phase \in [Call -> Phase]
  /\ inner \subseteq Call

(* The counters that release and the nested path leave alone or move count  *)
(* exactly the calls that hold a slot, at most Size of them and at most     *)
(* Size - 1 for batch work, so a listener always finds one slot that batch  *)
(* work cannot take.                                                        *)
SlotsRespected ==
  /\ active = Cardinality(Holders) /\ active <= Size
  /\ activeBatch = Cardinality(Holders \cap Batch) /\ activeBatch <= Size - 1

(* Whatever runs without a slot of its own runs under one that is held: a   *)
(* nested call never outlives, and never starts after, the work it is       *)
(* nested in.                                                               *)
NestedUnderSlot == \A c \in Call : phase[c] = "nested" => InProgress(Context[c])

(* Nobody waits for a slot that could be taken: the two loops of release    *)
(* hand out everything the counters allow.                                  *)
NoIdleSlot ==
  /\ interactiveQueue # <<>> => active = Size
  /\ batchQueue # <<>> => active = Size \/ activeBatch = Size - 1

(* A step that gives batch work a slot leaves no interactive call waiting.  *)
TakesSlot(c) == c \notin Holders /\ c \in Holders'
InteractiveFirst ==
  [][\A c \in Batch : TakesSlot(c) => interactiveQueue' = <<>>]_vars

(* A listener's call that waits is served, whatever else arrives: no group  *)
(* of slot holders waits for nested slots, and the queue is first come      *)
(* first served.                                                            *)
InteractiveServed ==
  \A c \in Interactive : phase[c] = "waiting" ~> phase[c] # "waiting"

(* Batch work is served once interactive calls stop queueing.               *)
BatchServed ==
  \A c \in Batch :
    phase[c] = "waiting" ~> (phase[c] # "waiting" \/ interactiveQueue # <<>>)
====
