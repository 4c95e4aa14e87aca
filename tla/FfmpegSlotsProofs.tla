---- MODULE FfmpegSlotsProofs ----
(***************************************************************************)
(* The slot pool keeps its counters, its bounds and its work conservation   *)
(* for every number of slots from two up, every finite set of calls and     *)
(* every nesting of them.                                                   *)
(*                                                                          *)
(* The properties are not inductive alone.  A release hands the slot to the *)
(* heads of the queues, so that a call is counted once only if the queues   *)
(* hold waiting calls, each at one place (Waiting, Distinct).  That a       *)
(* release grants at most one waiter, and never leaves a waiter behind that *)
(* could start, in turn needs NoIdleSlot before the step.                   *)
(***************************************************************************)
EXTENDS FfmpegSlots, FiniteSetTheorems, SequenceTheorems, TLAPS

Waiting(q) == \A k \in 1..Len(q) : phase[q[k]] = "waiting"
Distinct(q) == \A k, l \in 1..Len(q) : q[k] = q[l] => k = l

QueuesOK ==
  /\ Waiting(interactiveQueue) /\ Waiting(batchQueue)
  /\ Distinct(interactiveQueue) /\ Distinct(batchQueue)

NestedAwaited ==
  \A c \in Call : phase[c] = "nested" =>
    c \in inner /\ Context[c] \in Call /\ InProgress(Context[c])

IInv == TypeOK /\ SlotsRespected /\ NoIdleSlot /\ QueuesOK /\ NestedAwaited

(* A queue with nothing taken, and without its first element.               *)
LEMMA AfterNone ==
  ASSUME NEW S, NEW q \in Seq(S)
  PROVE  After(q, 0) = q /\ Heads(q, 0) = {}
<1>1. After(q, 0) = q
  BY SubSeqFull DEF After
<1>2. Heads(q, 0) = {}
  BY DEF Heads
<1> QED
  BY <1>1, <1>2

LEMMA AfterOne ==
  ASSUME NEW S, NEW q \in Seq(S), q # <<>>
  PROVE  /\ After(q, 1) \in Seq(S)
         /\ Len(After(q, 1)) = Len(q) - 1
         /\ \A k \in 1..(Len(q) - 1) : After(q, 1)[k] = q[k + 1]
         /\ Heads(q, 1) = {q[1]} /\ q[1] \in S /\ 1 \in 1..Len(q)
<1>1. Len(q) \in Nat \ {0} /\ 1 \in 1..Len(q)
  BY EmptySeq
<1>2. \A k \in 1..Len(q) : q[k] \in S
  BY ElementOfSeq
<1>3. \A k \in 2..Len(q) : q[k] \in S
  BY <1>1, <1>2
<1>4. /\ SubSeq(q, 2, Len(q)) \in Seq(S)
      /\ Len(SubSeq(q, 2, Len(q))) = IF 2 <= Len(q) THEN Len(q) - 2 + 1 ELSE 0
      /\ \A k \in 1..(Len(q) - 2 + 1) : SubSeq(q, 2, Len(q))[k] = q[2 + k - 1]
  BY <1>1, <1>3, SubSeqProperties
<1>5. After(q, 1) = SubSeq(q, 2, Len(q))
  BY DEF After
<1>6. Heads(q, 1) = {q[1]}
  BY DEF Heads
<1>7. q[1] \in S
  BY <1>1, <1>2
<1>8. Len(SubSeq(q, 2, Len(q))) = Len(q) - 1
  <2>1. Len(SubSeq(q, 2, Len(q))) = IF 2 <= Len(q) THEN Len(q) - 2 + 1 ELSE 0
    BY <1>4
  <2>2. \A n \in Nat \ {0} : (IF 2 <= n THEN n - 2 + 1 ELSE 0) = n - 1
    OBVIOUS
  <2>3. (IF 2 <= Len(q) THEN Len(q) - 2 + 1 ELSE 0) = Len(q) - 1
    BY <2>2, <1>1
  <2> QED
    BY <2>1, <2>3
<1>9. \A k \in 1..(Len(q) - 1) : SubSeq(q, 2, Len(q))[k] = q[k + 1]
  <2> SUFFICES ASSUME NEW k \in 1..(Len(q) - 1)
               PROVE  SubSeq(q, 2, Len(q))[k] = q[k + 1]
    OBVIOUS
  <2>1. k \in 1..(Len(q) - 2 + 1) /\ 2 + k - 1 = k + 1
    BY <1>1
  <2> QED
    BY <2>1, <1>4
<1> QED
  BY <1>1, <1>4, <1>5, <1>6, <1>7, <1>8, <1>9

(* The counters bound and contain each other.                               *)
LEMMA Counters ==
  ASSUME SlotsAssumption, TypeOK, SlotsRespected
  PROVE  /\ IsFiniteSet(Holders) /\ IsFiniteSet(Holders \cap Batch)
         /\ active \in Nat /\ activeBatch \in Nat /\ activeBatch <= active
         /\ active <= Size /\ activeBatch <= Size - 1 /\ Size \in Nat /\ Size >= 2
         /\ \A c \in Holders : active >= 1
         /\ \A c \in Holders \cap Batch : activeBatch >= 1
<1>1. IsFiniteSet(Holders)
  BY FS_Subset DEF SlotsAssumption, Holders
<1>2. IsFiniteSet(Holders \cap Batch) /\ activeBatch <= active
  BY <1>1, FS_Subset DEF SlotsRespected
<1>3. active = 0 <=> Holders = {}
  BY <1>1, FS_EmptySet DEF SlotsRespected
<1>4. activeBatch = 0 <=> Holders \cap Batch = {}
  BY <1>2, FS_EmptySet DEF SlotsRespected
<1>5. active \in Nat /\ activeBatch \in Nat
  BY DEF TypeOK
<1>6. (\A c \in Holders : active >= 1) /\ (\A c \in Holders \cap Batch : activeBatch >= 1)
  BY <1>3, <1>4, <1>5
<1>7. active <= Size /\ activeBatch <= Size - 1 /\ Size \in Nat /\ Size >= 2
  BY DEF SlotsRespected, SlotsAssumption
<1> QED
  BY <1>1, <1>2, <1>5, <1>6, <1>7

(* What a release grants: nobody, the oldest interactive waiter or, with    *)
(* none of those, the oldest batch waiter.  Nobody is left behind who could *)
(* start.                                                                   *)
LEMMA ReleaseGrants ==
  ASSUME SlotsAssumption, TypeOK, SlotsRespected, NoIdleSlot,
         NEW c \in Call, phase[c] = "running"
  PROVE  LET i == InteractiveGrants(LessActive)
             b == BatchGrants(LessActive, LessBatch(c))
         IN
         /\ \/ i = 0 /\ b = 0 /\ interactiveQueue = <<>>
            \/ i = 1 /\ b = 0 /\ interactiveQueue # <<>>
            \/ i = 0 /\ b = 1 /\ batchQueue # <<>> /\ interactiveQueue = <<>>
         /\ LessActive + i + b \in Nat /\ LessBatch(c) + b \in Nat
         /\ LessActive + i + b <= Size /\ LessBatch(c) + b <= Size - 1
         /\ i = 1 => LessActive + i + b = Size
         /\ batchQueue # <<>> =>
              LessActive + i + b = Size \/ LessBatch(c) + b = Size - 1
<1> DEFINE i == InteractiveGrants(LessActive)
           b == BatchGrants(LessActive, LessBatch(c))
<1>1. c \in Holders
  BY DEF Holders
<1>2. /\ active \in Nat /\ activeBatch \in Nat /\ active >= 1
      /\ active <= Size /\ activeBatch <= Size - 1 /\ Size \in Nat /\ Size >= 2
      /\ c \in Batch => activeBatch >= 1
  BY <1>1, Counters
<1>3. /\ LessActive = active - 1 /\ LessActive \in Nat /\ LessActive < Size
      /\ LessBatch(c) \in Nat /\ LessBatch(c) <= Size - 1
      /\ LessBatch(c) >= activeBatch - 1
  BY <1>2 DEF LessActive, LessBatch
<1>4. /\ Len(interactiveQueue) \in Nat
      /\ interactiveQueue # <<>> <=> Len(interactiveQueue) > 0
  BY EmptySeq DEF TypeOK
<1>5. /\ Len(batchQueue) \in Nat
      /\ batchQueue # <<>> <=> Len(batchQueue) > 0
  BY EmptySeq DEF TypeOK
<1>6. Len(interactiveQueue) > 0 => LessActive = Size - 1
  BY <1>3, <1>4 DEF NoIdleSlot
<1>7. Len(batchQueue) > 0 => LessActive = Size - 1 \/ LessBatch(c) >= Size - 2
  BY <1>2, <1>3, <1>5 DEF NoIdleSlot
<1>8. /\ i = Smaller(Len(interactiveQueue), Size - LessActive)
      /\ b = Smaller(Len(batchQueue),
                     Smaller(Size - LessActive - i, Size - 1 - LessBatch(c)))
  BY DEF InteractiveGrants, BatchGrants
<1> HIDE DEF i, b
<1> DEFINE l == Len(interactiveQueue)
           m == Len(batchQueue)
           h == LessBatch(c)
           a == LessActive
<1>a. /\ Size \in Int /\ a \in Int /\ h \in Int /\ l \in Int /\ m \in Int
      /\ 0 <= a /\ 0 <= h /\ 0 <= l /\ 0 <= m /\ Size >= 2
  BY <1>2, <1>3, <1>4, <1>5
<1>b. i \in Int /\ b \in Int
  <2>1. \A x, y \in Int : Smaller(x, y) \in Int
    BY DEF Smaller
  <2>2. i \in Int
    BY <2>1, <1>8, <1>a
  <2>3. Size - LessActive - i \in Int /\ Size - 1 - LessBatch(c) \in Int
    BY <2>2, <1>a
  <2> QED
    BY <2>1, <2>2, <2>3, <1>8, <1>a
<1>c. /\ a < Size /\ h <= Size - 1
      /\ l > 0 => a = Size - 1
      /\ m > 0 => a = Size - 1 \/ h >= Size - 2
      /\ i = Smaller(l, Size - a)
      /\ b = Smaller(m, Smaller(Size - a - i, Size - 1 - h))
  BY <1>3, <1>6, <1>7, <1>8
<1> HIDE DEF l, m, h, a
<1>9. /\ \/ i = 0 /\ b = 0 /\ Len(interactiveQueue) = 0
         \/ i = 1 /\ b = 0 /\ Len(interactiveQueue) > 0
         \/ i = 0 /\ b = 1 /\ Len(batchQueue) > 0 /\ Len(interactiveQueue) = 0
      /\ LessActive + i + b \in Nat /\ LessBatch(c) + b \in Nat
      /\ LessActive + i + b <= Size /\ LessBatch(c) + b <= Size - 1
      /\ i = 1 => LessActive + i + b = Size
      /\ Len(batchQueue) > 0 =>
           LessActive + i + b = Size \/ LessBatch(c) + b = Size - 1
  <2>1. /\ \/ i = 0 /\ b = 0 /\ l = 0
           \/ i = 1 /\ b = 0 /\ l > 0
           \/ i = 0 /\ b = 1 /\ m > 0 /\ l = 0
        /\ a + i + b \in Nat /\ h + b \in Nat
        /\ a + i + b <= Size /\ h + b <= Size - 1
        /\ i = 1 => a + i + b = Size
        /\ m > 0 => a + i + b = Size \/ h + b = Size - 1
    BY <1>a, <1>b, <1>c DEF Smaller
  <2> QED
    BY <2>1 DEF l, m, h, a
<1>10. /\ Len(interactiveQueue) = 0 <=> interactiveQueue = <<>>
       /\ Len(batchQueue) = 0 <=> batchQueue = <<>>
  BY <1>4, <1>5
<1>11. /\ \/ i = 0 /\ b = 0 /\ interactiveQueue = <<>>
          \/ i = 1 /\ b = 0 /\ interactiveQueue # <<>>
          \/ i = 0 /\ b = 1 /\ batchQueue # <<>> /\ interactiveQueue = <<>>
       /\ batchQueue # <<>> =>
            LessActive + i + b = Size \/ LessBatch(c) + b = Size - 1
  BY <1>4, <1>5, <1>9, <1>10
<1> QED
  BY <1>9, <1>11 DEF i, b
---------------------------------------------------------------------------
LEMMA InitInvariant ==
  ASSUME SlotsAssumption, Init
  PROVE  IInv
<1>1. Holders = {} /\ Holders \cap Batch = {}
  BY DEF Init, Holders
<1>2. TypeOK
  BY EmptySeq DEF Init, TypeOK, Phase
<1>3. SlotsRespected
  BY <1>1, FS_EmptySet DEF Init, SlotsRespected, SlotsAssumption
<1>4. Len(interactiveQueue) = 0 /\ Len(batchQueue) = 0
  BY DEF Init
<1>5. QueuesOK
  BY <1>4 DEF QueuesOK, Waiting, Distinct
<1>6. NoIdleSlot /\ NestedAwaited
  BY DEF Init, NoIdleSlot, NestedAwaited
<1> QED
  BY <1>2, <1>3, <1>5, <1>6 DEF IInv

(* A call that is not in a queue and starts without one.                    *)
LEMMA NotQueued ==
  ASSUME QueuesOK, NEW c \in Call, phase[c] # "waiting"
  PROVE  /\ \A k \in 1..Len(interactiveQueue) : interactiveQueue[k] # c
         /\ \A k \in 1..Len(batchQueue) : batchQueue[k] # c
BY DEF QueuesOK, Waiting

(* Steps that move one call between phases other than waiting keep the      *)
(* queues in order.                                                         *)
LEMMA QueuesKept ==
  ASSUME TypeOK, QueuesOK, NEW c \in Call, phase[c] # "waiting",
         NEW p \in Phase, phase' = [phase EXCEPT ![c] = p],
         UNCHANGED <<interactiveQueue, batchQueue>>
  PROVE  QueuesOK'
<1>1. \A k \in 1..Len(interactiveQueue) : interactiveQueue[k] \in Call
  BY ElementOfSeq DEF TypeOK, Call
<1>2. \A k \in 1..Len(batchQueue) : batchQueue[k] \in Call
  BY ElementOfSeq DEF TypeOK, Call
<1> QED
  BY <1>1, <1>2, NotQueued DEF QueuesOK, Waiting, Distinct, TypeOK

LEMMA CallNestedStep ==
  ASSUME SlotsAssumption, IInv, NEW c \in Call, CallNested(c)
  PROVE  IInv'
<1> USE DEF IInv
<1>1. phase' = [phase EXCEPT ![c] = "nested"] /\ phase[c] \in {"idle", "done"}
  BY DEF CallNested, Callable
<1>2. Within(c) /\ inner' = inner \cup {c} /\ Context[c] \in Call
  BY DEF CallNested, Reentrant, Within, Awaited, SlotsAssumption
<1>3. TypeOK'
  BY <1>1, <1>2 DEF CallNested, TypeOK, Phase
<1>4. Holders' = Holders
  BY <1>1 DEF Holders, TypeOK
<1>5. SlotsRespected' /\ NoIdleSlot'
  BY <1>4 DEF CallNested, SlotsRespected, NoIdleSlot
<1>6. QueuesOK'
  BY <1>1, QueuesKept DEF CallNested, Phase
<1>7. NestedAwaited'
  BY <1>1, <1>2 DEF NestedAwaited, InProgress, Within, TypeOK
<1> QED
  BY <1>3, <1>5, <1>6, <1>7

LEMMA CallStartsStep ==
  ASSUME SlotsAssumption, IInv, NEW c \in Call, CallStarts(c)
  PROVE  IInv'
<1> USE DEF IInv
<1>1. phase' = [phase EXCEPT ![c] = "running"] /\ phase[c] \in {"idle", "done"}
  BY DEF CallStarts, Callable
<1>2. ~Within(c) /\ inner' = inner
  BY DEF CallStarts, Reentrant, Awaited
<1>3. TypeOK'
  BY <1>1, <1>2 DEF CallStarts, TypeOK, Phase
<1>4. Holders' = Holders \cup {c} /\ c \notin Holders
  BY <1>1 DEF Holders, TypeOK
<1>5. IsFiniteSet(Holders) /\ IsFiniteSet(Holders \cap Batch)
  BY Counters
<1>6. Cardinality(Holders') = Cardinality(Holders) + 1
  BY <1>4, <1>5, FS_AddElement
<1>7. Cardinality(Holders' \cap Batch)
        = IF c \in Batch THEN Cardinality(Holders \cap Batch) + 1
                         ELSE Cardinality(Holders \cap Batch)
  <2>1. CASE c \in Batch
    <3>1. Holders' \cap Batch = (Holders \cap Batch) \cup {c} /\ c \notin Holders \cap Batch
      BY <1>4, <2>1
    <3> QED
      BY <3>1, <2>1, <1>5, FS_AddElement
  <2>2. CASE c \notin Batch
    BY <1>4, <2>2
  <2> QED
    BY <2>1, <2>2
<1>8. SlotsRespected'
  <2>1. active < Size /\ (c \in Interactive \/ activeBatch < Size - 1)
    BY DEF CallStarts, CanStart
  <2>2. c \in Batch => c \notin Interactive
    BY DEF SlotsAssumption
  <2>3. /\ active' = active + 1
        /\ activeBatch' = IF c \in Batch THEN activeBatch + 1 ELSE activeBatch
    BY DEF CallStarts
  <2>4. active' = Cardinality(Holders') /\ activeBatch' = Cardinality(Holders' \cap Batch)
    BY <1>6, <1>7, <2>3 DEF SlotsRespected
  <2>5. active' <= Size /\ activeBatch' <= Size - 1
    BY <2>1, <2>2, <2>3, Counters
  <2> QED
    BY <2>4, <2>5 DEF SlotsRespected
<1>9. NoIdleSlot'
  <2>1. active < Size /\ (c \in Interactive \/ activeBatch < Size - 1) /\ Queue(c) = <<>>
    BY DEF CallStarts, CanStart
  <2>2. active \in Nat /\ Size \in Nat /\ activeBatch \in Nat
    BY Counters
  <2>3. interactiveQueue = <<>>
    BY <2>1, <2>2 DEF NoIdleSlot
  <2>4. batchQueue # <<>> => activeBatch = Size - 1 /\ c \notin Batch
    BY <2>1, <2>2 DEF NoIdleSlot, Queue, SlotsAssumption
  <2> QED
    BY <2>3, <2>4 DEF CallStarts, NoIdleSlot
<1>10. QueuesOK'
  BY <1>1, QueuesKept DEF CallStarts, Phase
<1>11. NestedAwaited'
  BY <1>1, <1>2 DEF NestedAwaited, InProgress, TypeOK
<1> QED
  BY <1>3, <1>8, <1>9, <1>10, <1>11

(* A waiting call joins the end of a queue it is not in.                    *)
LEMMA AppendKeeps ==
  ASSUME TypeOK, NEW S \in SUBSET Call, NEW q \in Seq(S), Waiting(q), Distinct(q),
         NEW c \in S, phase[c] # "waiting", phase' = [phase EXCEPT ![c] = "waiting"]
  PROVE  /\ \A k \in 1..Len(Append(q, c)) : phase'[Append(q, c)[k]] = "waiting"
         /\ Distinct(Append(q, c))
<1>1. /\ Len(Append(q, c)) = Len(q) + 1 /\ Len(q) \in Nat
      /\ \A k \in 1..Len(q) : Append(q, c)[k] = q[k]
      /\ Append(q, c)[Len(q) + 1] = c
  BY AppendProperties, LenProperties
<1>2. \A k \in 1..Len(q) : q[k] \in Call /\ q[k] # c
  BY ElementOfSeq DEF Waiting
<1>3. \A k \in 1..(Len(q) + 1) : k \in 1..Len(q) \/ k = Len(q) + 1
  BY <1>1
<1>4. \A k \in 1..Len(q) : phase'[q[k]] = "waiting"
  BY <1>2 DEF Waiting, TypeOK
<1>5. phase'[c] = "waiting"
  BY DEF TypeOK
<1>6. \A k \in 1..Len(Append(q, c)) : phase'[Append(q, c)[k]] = "waiting"
  BY <1>1, <1>3, <1>4, <1>5
<1>7. Distinct(Append(q, c))
  BY <1>1, <1>2, <1>3 DEF Distinct
<1> QED
  BY <1>6, <1>7

(* A call outside a queue leaves it in order.                               *)
LEMMA OtherKeeps ==
  ASSUME TypeOK, NEW S \in SUBSET Call, NEW q \in Seq(S), Waiting(q),
         NEW c \in Call, phase[c] # "waiting", NEW p, phase' = [phase EXCEPT ![c] = p]
  PROVE  \A k \in 1..Len(q) : phase'[q[k]] = "waiting"
<1>1. \A k \in 1..Len(q) : q[k] \in Call /\ q[k] # c
  BY ElementOfSeq DEF Waiting
<1> QED
  BY <1>1 DEF Waiting, TypeOK

LEMMA CallWaitsStep ==
  ASSUME SlotsAssumption, IInv, NEW c \in Call, CallWaits(c)
  PROVE  IInv'
<1> USE DEF IInv
<1>1. phase' = [phase EXCEPT ![c] = "waiting"] /\ phase[c] \in {"idle", "done"}
  BY DEF CallWaits, Callable
<1>2. ~Within(c) /\ inner' = inner
  BY DEF CallWaits, Reentrant, Awaited
<1>3. ~(Queue(c) = <<>> /\ CanStart(c)) /\ UNCHANGED <<active, activeBatch>>
  BY DEF CallWaits
<1>4. Interactive \in SUBSET Call /\ Batch \in SUBSET Call
  BY DEF Call
<1>5. interactiveQueue \in Seq(Interactive) /\ batchQueue \in Seq(Batch)
  BY DEF TypeOK
<1>6. Holders' = Holders
  BY <1>1 DEF Holders, TypeOK
<1>7. SlotsRespected'
  BY <1>3, <1>6 DEF SlotsRespected
<1>8. NestedAwaited'
  BY <1>1, <1>2 DEF NestedAwaited, InProgress, TypeOK
<1>9. phase' \in [Call -> Phase] /\ inner' \subseteq Call
  BY <1>1, <1>2 DEF TypeOK, Phase
<1>10. active \in Nat /\ activeBatch \in Nat /\ active <= Size /\ activeBatch <= Size - 1
       /\ Size \in Nat
  BY Counters
<1>11. CASE c \in Interactive
  <2>1. interactiveQueue' = Append(interactiveQueue, c) /\ batchQueue' = batchQueue
    BY <1>11 DEF CallWaits
  <2>2. TypeOK'
    BY <1>3, <1>5, <1>9, <1>11, <2>1, AppendProperties DEF TypeOK
  <2>3. active = Size
    <3>1. interactiveQueue = <<>> => ~(active < Size)
      BY <1>3, <1>11 DEF Queue, CanStart
    <3> QED
      BY <3>1, <1>10 DEF NoIdleSlot
  <2>4. NoIdleSlot'
    BY <1>3, <2>3 DEF NoIdleSlot
  <2>5. QueuesOK'
    <3>1. /\ \A k \in 1..Len(interactiveQueue') : phase'[interactiveQueue'[k]] = "waiting"
          /\ Distinct(interactiveQueue)'
      <4>1. Waiting(interactiveQueue) /\ Distinct(interactiveQueue) /\ phase[c] # "waiting"
        BY <1>1 DEF QueuesOK
      <4>2. /\ \A k \in 1..Len(Append(interactiveQueue, c)) :
                  phase'[Append(interactiveQueue, c)[k]] = "waiting"
            /\ Distinct(Append(interactiveQueue, c))
        BY <1>1, <1>4, <1>5, <2>1, <1>11, <4>1, AppendKeeps
      <4> QED
        BY <4>2, <2>1 DEF Distinct
    <3>2. \A k \in 1..Len(batchQueue) : phase'[batchQueue[k]] = "waiting"
      <4>1. Waiting(batchQueue) /\ phase[c] # "waiting"
        BY <1>1 DEF QueuesOK
      <4> QED
        BY <1>1, <1>4, <1>5, <4>1, OtherKeeps
    <3>3. Distinct(batchQueue)'
      BY <2>1 DEF QueuesOK, Distinct
    <3> QED
      BY <2>1, <3>1, <3>2, <3>3 DEF QueuesOK, Waiting
  <2> QED
    BY <1>7, <1>8, <2>2, <2>4, <2>5
<1>12. CASE c \notin Interactive
  <2>1. batchQueue' = Append(batchQueue, c) /\ interactiveQueue' = interactiveQueue
        /\ c \in Batch
    BY <1>12 DEF CallWaits, Call
  <2>2. TypeOK'
    BY <1>3, <1>5, <1>9, <2>1, AppendProperties DEF TypeOK
  <2>3. active = Size \/ activeBatch = Size - 1
    <3>1. batchQueue = <<>> => ~(active < Size) \/ ~(activeBatch < Size - 1)
      BY <1>3, <1>12 DEF Queue, CanStart
    <3> QED
      BY <3>1, <1>10 DEF NoIdleSlot
  <2>4. NoIdleSlot'
    BY <1>3, <2>1, <2>3 DEF NoIdleSlot
  <2>5. QueuesOK'
    <3>1. /\ \A k \in 1..Len(batchQueue') : phase'[batchQueue'[k]] = "waiting"
          /\ Distinct(batchQueue)'
      <4>1. Waiting(batchQueue) /\ Distinct(batchQueue) /\ phase[c] # "waiting"
        BY <1>1 DEF QueuesOK
      <4>2. /\ \A k \in 1..Len(Append(batchQueue, c)) :
                  phase'[Append(batchQueue, c)[k]] = "waiting"
            /\ Distinct(Append(batchQueue, c))
        BY <1>1, <1>4, <1>5, <2>1, <4>1, AppendKeeps
      <4> QED
        BY <4>2, <2>1 DEF Distinct
    <3>2. \A k \in 1..Len(interactiveQueue) : phase'[interactiveQueue[k]] = "waiting"
      <4>1. Waiting(interactiveQueue) /\ phase[c] # "waiting"
        BY <1>1 DEF QueuesOK
      <4> QED
        BY <1>1, <1>4, <1>5, <4>1, OtherKeeps
    <3>3. Distinct(interactiveQueue)'
      BY <2>1 DEF QueuesOK, Distinct
    <3> QED
      BY <2>1, <3>1, <3>2, <3>3 DEF QueuesOK, Waiting
  <2> QED
    BY <1>7, <1>8, <2>2, <2>4, <2>5
<1> QED
  BY <1>11, <1>12

LEMMA StartStep ==
  ASSUME SlotsAssumption, IInv, NEW c \in Call, Start(c)
  PROVE  IInv'
<1> USE DEF IInv
<1>1. phase' = [phase EXCEPT ![c] = "running"] /\ phase[c] = "granted"
  BY DEF Start
<1>2. TypeOK'
  BY <1>1 DEF Start, TypeOK, Phase
<1>3. Holders' = Holders
  BY <1>1 DEF Holders, TypeOK
<1>4. SlotsRespected' /\ NoIdleSlot'
  BY <1>3 DEF Start, SlotsRespected, NoIdleSlot
<1>5. QueuesOK'
  BY <1>1, QueuesKept DEF Start, Phase
<1>6. NestedAwaited'
  BY <1>1 DEF Start, NestedAwaited, InProgress, TypeOK
<1> QED
  BY <1>2, <1>4, <1>5, <1>6

LEMMA FinishNestedStep ==
  ASSUME SlotsAssumption, IInv, NEW c \in Call, FinishNested(c)
  PROVE  IInv'
<1> USE DEF IInv
<1>1. phase' = [phase EXCEPT ![c] = "done"] /\ phase[c] = "nested"
  BY DEF FinishNested
<1>2. TypeOK'
  BY <1>1 DEF FinishNested, TypeOK, Phase
<1>3. Holders' = Holders
  BY <1>1 DEF Holders, TypeOK
<1>4. SlotsRespected' /\ NoIdleSlot'
  BY <1>3 DEF FinishNested, SlotsRespected, NoIdleSlot
<1>5. QueuesOK'
  BY <1>1, QueuesKept DEF FinishNested, Phase
<1>6. NestedAwaited'
  BY <1>1 DEF FinishNested, NestedAwaited, AwaitsNone, InProgress, TypeOK
<1> QED
  BY <1>2, <1>4, <1>5, <1>6

(* The phases after a release that grants w.                                *)
Granting(c, w) ==
  phase' = [d \in Call |-> IF d = c THEN "done" ELSE IF d = w THEN "granted" ELSE phase[d]]

(* The queue whose head is granted stays in order, and so does a queue the  *)
(* granted call is not in.                                                  *)
LEMMA HeadGranted ==
  ASSUME NEW S \in SUBSET Call, NEW q \in Seq(S), q # <<>>, Waiting(q), Distinct(q),
         NEW c \in Call, phase[c] = "running", Granting(c, q[1])
  PROVE  /\ \A k \in 1..Len(After(q, 1)) : phase'[After(q, 1)[k]] = "waiting"
         /\ Distinct(After(q, 1))
<1>1. /\ Len(After(q, 1)) = Len(q) - 1 /\ Len(q) \in Nat \ {0}
      /\ \A k \in 1..(Len(q) - 1) : After(q, 1)[k] = q[k + 1]
  BY AfterOne, EmptySeq
<1>2. \A k \in 1..Len(q) : q[k] \in Call /\ q[k] # c
  BY ElementOfSeq DEF Waiting
<1>3. \A k \in 1..(Len(q) - 1) : k + 1 \in 1..Len(q) /\ q[k + 1] # q[1]
  BY <1>1 DEF Distinct
<1>4. \A k \in 1..(Len(q) - 1) : phase'[q[k + 1]] = "waiting"
  BY <1>2, <1>3 DEF Granting, Waiting
<1>5. \A k, l \in 1..(Len(q) - 1) : q[k + 1] = q[l + 1] => k = l
  BY <1>1, <1>3 DEF Distinct
<1>6. Distinct(After(q, 1))
  BY <1>1, <1>5 DEF Distinct
<1> QED
  BY <1>1, <1>4, <1>6

LEMMA OtherGranted ==
  ASSUME NEW S \in SUBSET Call, NEW q \in Seq(S), Waiting(q),
         NEW c \in Call, phase[c] = "running", NEW w, w \notin S, Granting(c, w)
  PROVE  \A k \in 1..Len(q) : phase'[q[k]] = "waiting"
<1>1. \A k \in 1..Len(q) : q[k] \in S /\ q[k] # c
  BY ElementOfSeq DEF Waiting
<1> QED
  BY <1>1 DEF Waiting, Granting

(* Who holds a slot after a release, and how many they are.                 *)
LEMMA HoldersAfter ==
  ASSUME SlotsAssumption, TypeOK, SlotsRespected, NEW c \in Call, phase[c] = "running",
         NEW w \in Call, phase[w] = "waiting", Granting(c, w)
  PROVE  /\ Cardinality(Holders') = LessActive + 1
         /\ Cardinality(Holders' \cap Batch)
              = IF w \in Batch THEN LessBatch(c) + 1 ELSE LessBatch(c)
<1>1. c \in Holders /\ w \notin Holders /\ c # w
  BY DEF Holders
<1>2. Holders' = (Holders \ {c}) \cup {w}
  BY <1>1 DEF Holders, Granting
<1>3. IsFiniteSet(Holders) /\ IsFiniteSet(Holders \cap Batch)
      /\ active \in Nat /\ activeBatch \in Nat
  BY Counters
<1>4. IsFiniteSet(Holders \ {c}) /\ Cardinality(Holders \ {c}) = active - 1
  BY <1>1, <1>3, FS_RemoveElement DEF SlotsRespected
<1>5. Cardinality(Holders') = LessActive + 1
  BY <1>1, <1>2, <1>4, FS_AddElement DEF LessActive
<1> DEFINE H == (Holders \cap Batch) \ {c}
<1>6. IsFiniteSet(H) /\ Cardinality(H) = LessBatch(c)
  BY <1>1, <1>3, FS_RemoveElement DEF SlotsRespected, LessBatch
<1>7. Cardinality(H \cup {w}) = LessBatch(c) + 1
  BY <1>1, <1>6, FS_AddElement
<1>8. Holders' \cap Batch = IF w \in Batch THEN H \cup {w} ELSE H
  BY <1>2
<1> QED
  BY <1>5, <1>6, <1>7, <1>8

LEMMA HoldersLess ==
  ASSUME SlotsAssumption, TypeOK, SlotsRespected, NEW c \in Call, phase[c] = "running",
         phase' = [d \in Call |-> IF d = c THEN "done" ELSE phase[d]]
  PROVE  /\ Cardinality(Holders') = LessActive
         /\ Cardinality(Holders' \cap Batch) = LessBatch(c)
<1>1. c \in Holders /\ Holders' = Holders \ {c}
  BY DEF Holders
<1>2. IsFiniteSet(Holders) /\ IsFiniteSet(Holders \cap Batch)
  BY Counters
<1>3. Cardinality(Holders') = LessActive
  BY <1>1, <1>2, FS_RemoveElement DEF SlotsRespected, LessActive
<1>4. Holders' \cap Batch = (Holders \cap Batch) \ {c}
  BY <1>1
<1>5. Cardinality(Holders' \cap Batch) = LessBatch(c)
  BY <1>1, <1>2, <1>4, FS_RemoveElement DEF SlotsRespected, LessBatch
<1> QED
  BY <1>3, <1>5

LEMMA FinishStep ==
  ASSUME SlotsAssumption, IInv, NEW c \in Call, Finish(c)
  PROVE  IInv'
<1> USE DEF IInv
<1> DEFINE i == InteractiveGrants(LessActive)
           b == BatchGrants(LessActive, LessBatch(c))
<1>1. phase[c] = "running" /\ AwaitsNone(c) /\ inner' = inner \ {c}
  BY DEF Finish
<1>2. /\ active' = LessActive + i + b /\ activeBatch' = LessBatch(c) + b
      /\ interactiveQueue' = After(interactiveQueue, i)
      /\ batchQueue' = After(batchQueue, b)
      /\ phase' = [d \in Call |->
                     IF d = c THEN "done"
                     ELSE IF d \in Heads(interactiveQueue, i) \cup Heads(batchQueue, b)
                       THEN "granted"
                     ELSE phase[d]]
  BY DEF Finish, Release, GrantFrom
<1>3. /\ \/ i = 0 /\ b = 0 /\ interactiveQueue = <<>>
         \/ i = 1 /\ b = 0 /\ interactiveQueue # <<>>
         \/ i = 0 /\ b = 1 /\ batchQueue # <<>> /\ interactiveQueue = <<>>
      /\ LessActive + i + b \in Nat /\ LessBatch(c) + b \in Nat
      /\ LessActive + i + b <= Size /\ LessBatch(c) + b <= Size - 1
      /\ i = 1 => LessActive + i + b = Size
      /\ batchQueue # <<>> =>
           LessActive + i + b = Size \/ LessBatch(c) + b = Size - 1
  BY <1>1, ReleaseGrants
<1> HIDE DEF i, b
<1>4. Interactive \in SUBSET Call /\ Batch \in SUBSET Call
      /\ \A w \in Interactive : w \notin Batch
  BY DEF Call, SlotsAssumption
<1>5. interactiveQueue \in Seq(Interactive) /\ batchQueue \in Seq(Batch)
  BY DEF TypeOK
<1>6. /\ After(interactiveQueue, 0) = interactiveQueue /\ Heads(interactiveQueue, 0) = {}
      /\ After(batchQueue, 0) = batchQueue /\ Heads(batchQueue, 0) = {}
  BY <1>5, AfterNone
<1>7. active' \in Nat /\ activeBatch' \in Nat /\ active' <= Size /\ activeBatch' <= Size - 1
  BY <1>2, <1>3
<1>8. inner' \subseteq Call
  BY <1>1 DEF TypeOK
<1>9. LessActive \in Int /\ LessBatch(c) \in Int
  BY DEF TypeOK, LessActive, LessBatch
<1>10. NestedAwaited'
  <2> SUFFICES ASSUME NEW d \in Call, phase'[d] = "nested"
               PROVE  d \in inner' /\ Context[d] \in Call /\ InProgress(Context[d])'
    BY DEF NestedAwaited
  <2>1. d # c /\ phase[d] = "nested"
    BY <1>2
  <2>2. d \in inner /\ Context[d] \in Call /\ InProgress(Context[d])
    BY <2>1 DEF NestedAwaited
  <2>3. Context[d] # c
    BY <2>2, <1>1 DEF AwaitsNone
  <2>4. \A k \in 1..Len(interactiveQueue) : phase[interactiveQueue[k]] = "waiting"
    BY DEF QueuesOK, Waiting
  <2>5. \A k \in 1..Len(batchQueue) : phase[batchQueue[k]] = "waiting"
    BY DEF QueuesOK, Waiting
  <2>6. Context[d] \notin Heads(interactiveQueue, i) \cup Heads(batchQueue, b)
    <3>1. i = 0 \/ (i = 1 /\ 1 \in 1..Len(interactiveQueue)
                       /\ Heads(interactiveQueue, i) = {interactiveQueue[1]})
      BY <1>3, <1>5, AfterOne
    <3>2. b = 0 \/ (b = 1 /\ 1 \in 1..Len(batchQueue)
                       /\ Heads(batchQueue, b) = {batchQueue[1]})
      BY <1>3, <1>5, AfterOne
    <3> QED
      BY <3>1, <3>2, <1>6, <2>2, <2>4, <2>5 DEF InProgress
  <2> QED
    BY <2>1, <2>2, <2>3, <2>6, <1>1, <1>2 DEF InProgress
<1>11. CASE i = 0 /\ b = 0
  <2>1. phase' = [d \in Call |-> IF d = c THEN "done" ELSE phase[d]]
    BY <1>2, <1>6, <1>11
  <2>2. UNCHANGED <<interactiveQueue, batchQueue>>
    BY <1>2, <1>6, <1>11
  <2>3. TypeOK'
    BY <1>5, <1>7, <1>8, <2>1, <2>2 DEF TypeOK, Phase
  <2>4. active' = LessActive /\ activeBatch' = LessBatch(c)
    BY <1>2, <1>9, <1>11
  <2>5. SlotsRespected'
    BY <1>1, <1>7, <2>1, <2>4, HoldersLess DEF SlotsRespected
  <2>6. NoIdleSlot'
    BY <1>2, <1>3, <1>11, <2>2 DEF NoIdleSlot
  <2>7. phase' = [phase EXCEPT ![c] = "done"]
    BY <2>1 DEF TypeOK
  <2>8. QueuesOK'
    BY <1>1, <2>2, <2>7, QueuesKept DEF Phase
  <2> QED
    BY <1>10, <2>3, <2>5, <2>6, <2>8
<1>12. CASE i = 1 /\ b = 0 /\ interactiveQueue # <<>>
  <2> DEFINE w == interactiveQueue[1]
  <2>1. /\ w \in Interactive /\ 1 \in 1..Len(interactiveQueue)
        /\ Heads(interactiveQueue, 1) = {w}
        /\ After(interactiveQueue, 1) \in Seq(Interactive)
    BY <1>5, <1>12, AfterOne
  <2>2. /\ Waiting(interactiveQueue) /\ Distinct(interactiveQueue)
        /\ Waiting(batchQueue) /\ Distinct(batchQueue)
    BY DEF QueuesOK
  <2>3. w \in Call /\ phase[w] = "waiting"
    BY <2>1, <2>2, <1>4 DEF Waiting
  <2>4. Granting(c, w)
    BY <1>2, <1>6, <1>12, <2>1 DEF Granting
  <2>5. interactiveQueue' = After(interactiveQueue, 1) /\ batchQueue' = batchQueue
    BY <1>2, <1>6, <1>12
  <2>6. TypeOK'
    BY <1>5, <1>7, <1>8, <2>1, <2>4, <2>5 DEF TypeOK, Phase, Granting
  <2>7. active' = LessActive + 1 /\ activeBatch' = LessBatch(c)
    BY <1>2, <1>9, <1>12
  <2>8. SlotsRespected'
    BY <1>1, <1>4, <1>7, <2>1, <2>3, <2>4, <2>7, HoldersAfter DEF SlotsRespected
  <2>9. NoIdleSlot'
    BY <1>2, <1>3, <1>12 DEF NoIdleSlot
  <2>10. /\ \A k \in 1..Len(interactiveQueue') : phase'[interactiveQueue'[k]] = "waiting"
         /\ Distinct(After(interactiveQueue, 1))
    BY <1>1, <1>4, <1>5, <1>12, <2>2, <2>4, <2>5, HeadGranted
  <2>11. \A k \in 1..Len(batchQueue) : phase'[batchQueue[k]] = "waiting"
    BY <1>1, <1>4, <1>5, <2>1, <2>2, <2>4, OtherGranted
  <2>12. QueuesOK'
    BY <2>2, <2>5, <2>10, <2>11 DEF QueuesOK, Waiting, Distinct
  <2> QED
    BY <1>10, <2>6, <2>8, <2>9, <2>12
<1>13. CASE i = 0 /\ b = 1 /\ batchQueue # <<>> /\ interactiveQueue = <<>>
  <2> DEFINE w == batchQueue[1]
  <2>1. /\ w \in Batch /\ 1 \in 1..Len(batchQueue)
        /\ Heads(batchQueue, 1) = {w}
        /\ After(batchQueue, 1) \in Seq(Batch)
    BY <1>5, <1>13, AfterOne
  <2>2. /\ Waiting(interactiveQueue) /\ Distinct(interactiveQueue)
        /\ Waiting(batchQueue) /\ Distinct(batchQueue)
    BY DEF QueuesOK
  <2>3. w \in Call /\ phase[w] = "waiting"
    BY <2>1, <2>2, <1>4 DEF Waiting
  <2>4. Granting(c, w)
    BY <1>2, <1>6, <1>13, <2>1 DEF Granting
  <2>5. batchQueue' = After(batchQueue, 1) /\ interactiveQueue' = interactiveQueue
    BY <1>2, <1>6, <1>13
  <2>6. TypeOK'
    BY <1>5, <1>7, <1>8, <2>1, <2>4, <2>5 DEF TypeOK, Phase, Granting
  <2>7. active' = LessActive + 1 /\ activeBatch' = LessBatch(c) + 1
    BY <1>2, <1>9, <1>13
  <2>8. SlotsRespected'
    BY <1>1, <1>7, <2>1, <2>3, <2>4, <2>7, HoldersAfter DEF SlotsRespected
  <2>9. NoIdleSlot'
    BY <1>2, <1>3, <1>13, <2>5 DEF NoIdleSlot
  <2>10. /\ \A k \in 1..Len(batchQueue') : phase'[batchQueue'[k]] = "waiting"
         /\ Distinct(After(batchQueue, 1))
    BY <1>1, <1>4, <1>5, <1>13, <2>2, <2>4, <2>5, HeadGranted
  <2>11. w \notin Interactive
    BY <2>1, <1>4
  <2>12. \A k \in 1..Len(interactiveQueue) : phase'[interactiveQueue[k]] = "waiting"
    BY <1>1, <1>4, <1>5, <2>2, <2>4, <2>11, OtherGranted
  <2>13. QueuesOK'
    BY <2>2, <2>5, <2>10, <2>12 DEF QueuesOK, Waiting, Distinct
  <2> QED
    BY <1>10, <2>6, <2>8, <2>9, <2>13
<1> QED
  BY <1>3, <1>11, <1>12, <1>13

LEMMA StepInvariant ==
  ASSUME SlotsAssumption, IInv, [Next]_vars
  PROVE  IInv'
<1>1. ASSUME NEW c \in Call, CallNested(c) PROVE IInv'
  BY <1>1, CallNestedStep
<1>2. ASSUME NEW c \in Call, CallStarts(c) PROVE IInv'
  BY <1>2, CallStartsStep
<1>3. ASSUME NEW c \in Call, CallWaits(c) PROVE IInv'
  BY <1>3, CallWaitsStep
<1>4. ASSUME NEW c \in Call, Start(c) PROVE IInv'
  BY <1>4, StartStep
<1>5. ASSUME NEW c \in Call, Finish(c) PROVE IInv'
  BY <1>5, FinishStep
<1>6. ASSUME NEW c \in Call, FinishNested(c) PROVE IInv'
  BY <1>6, FinishNestedStep
<1>7. CASE UNCHANGED vars
  <2> USE <1>7 DEF vars, IInv
  <2>1. TypeOK' /\ SlotsRespected' /\ NoIdleSlot'
    BY DEF TypeOK, SlotsRespected, NoIdleSlot, Holders
  <2>2. QueuesOK' /\ NestedAwaited'
    BY DEF QueuesOK, Waiting, Distinct, NestedAwaited, InProgress
  <2> QED
    BY <2>1, <2>2
<1> QED
  BY <1>1, <1>2, <1>3, <1>4, <1>5, <1>6, <1>7 DEF Next

LEMMA SlotsInvariance == Spec => []IInv
<1>1. Init => IInv
  BY SlotsAssumption, InitInvariant
<1>2. IInv /\ [Next]_vars => IInv'
  BY SlotsAssumption, StepInvariant
<1> QED
  BY <1>1, <1>2, PTL DEF Spec

(* The pool's counters never go below zero and each queue holds calls of its *)
(* own class only, for any number of slots and any calls.                    *)
THEOREM SlotsTyped == Spec => []TypeOK
<1>1. IInv => TypeOK
  BY DEF IInv
<1> QED
  BY <1>1, SlotsInvariance, PTL

(* For any number of slots and any calls, the pool's counters count the     *)
(* calls that hold a slot, never more than Size of them and never more than *)
(* Size - 1 for batch work.                                                 *)
THEOREM SlotsHeld == Spec => []SlotsRespected
<1>1. IInv => SlotsRespected
  BY DEF IInv
<1> QED
  BY <1>1, SlotsInvariance, PTL

(* No call waits for a slot it could have: release leaves nobody behind.    *)
THEOREM WorkConserving == Spec => []NoIdleSlot
<1>1. IInv => NoIdleSlot
  BY DEF IInv
<1> QED
  BY <1>1, SlotsInvariance, PTL

(* Nested work runs only while the work that holds its slot is in progress. *)
THEOREM NestedHeld == Spec => []NestedUnderSlot
<1>1. IInv => NestedUnderSlot
  BY DEF IInv, NestedAwaited, NestedUnderSlot
<1> QED
  BY <1>1, SlotsInvariance, PTL

(* No step gives batch work a slot while an interactive call is left        *)
(* waiting.                                                                 *)
THEOREM ListenerFirst == Spec => InteractiveFirst
<1>1. IInv /\ IInv' /\ [Next]_vars =>
        [\A c \in Batch : TakesSlot(c) => interactiveQueue' = <<>>]_vars
  <2> SUFFICES ASSUME IInv, Next, NEW d \in Batch, TakesSlot(d)
               PROVE  interactiveQueue' = <<>>
    BY DEF vars
  <2>1. PICK c \in Call : CallNested(c) \/ CallStarts(c) \/ CallWaits(c)
                            \/ Start(c) \/ Finish(c) \/ FinishNested(c)
    BY DEF Next
  <2>2. d \in Call /\ phase[d] \notin {"granted", "running"}
        /\ phase'[d] \in {"granted", "running"} /\ TypeOK
    BY DEF TakesSlot, Holders, Call, IInv
  <2>3. CASE CallNested(c)
    BY <2>2, <2>3 DEF CallNested, TypeOK
  <2>4. CASE CallWaits(c)
    BY <2>2, <2>4 DEF CallWaits, TypeOK
  <2>5. CASE Start(c)
    BY <2>2, <2>5 DEF Start, TypeOK
  <2>6. CASE FinishNested(c)
    BY <2>2, <2>6 DEF FinishNested, TypeOK
  <2>7. CASE CallStarts(c)
    <3>1. active < Size /\ interactiveQueue' = interactiveQueue
      BY <2>7 DEF CallStarts, CanStart
    <3>2. active \in Nat /\ Size \in Nat
      BY SlotsAssumption DEF SlotsAssumption, IInv, TypeOK
    <3> QED
      BY <3>1, <3>2 DEF IInv, NoIdleSlot
  <2>8. CASE Finish(c)
    <3> DEFINE i == InteractiveGrants(LessActive)
               b == BatchGrants(LessActive, LessBatch(c))
    <3>1. /\ \/ i = 0 /\ b = 0 /\ interactiveQueue = <<>>
             \/ i = 1 /\ b = 0 /\ interactiveQueue # <<>>
             \/ i = 0 /\ b = 1 /\ batchQueue # <<>> /\ interactiveQueue = <<>>
      BY <2>8, SlotsAssumption, ReleaseGrants DEF Finish, IInv
    <3>2. /\ interactiveQueue' = After(interactiveQueue, i)
          /\ phase' = [x \in Call |->
                         IF x = c THEN "done"
                         ELSE IF x \in Heads(interactiveQueue, i) \cup Heads(batchQueue, b)
                           THEN "granted"
                         ELSE phase[x]]
      BY <2>8 DEF Finish, Release, GrantFrom
    <3> HIDE DEF i, b
    <3>3. interactiveQueue \in Seq(Interactive) /\ batchQueue \in Seq(Batch)
          /\ d \notin Interactive
      BY SlotsAssumption DEF IInv, TypeOK, SlotsAssumption
    <3>4. CASE interactiveQueue = <<>>
      BY <3>1, <3>2, <3>3, <3>4, AfterNone
    <3>5. CASE i = 1 /\ b = 0 /\ interactiveQueue # <<>>
      <4>1. /\ Heads(interactiveQueue, i) = {interactiveQueue[1]}
            /\ interactiveQueue[1] \in Interactive
            /\ Heads(batchQueue, b) = {}
        BY <3>3, <3>5, AfterOne, AfterNone
      <4> QED
        BY <4>1, <3>2, <3>3, <2>2
    <3> QED
      BY <3>1, <3>4, <3>5
  <2> QED
    BY <2>1, <2>3, <2>4, <2>5, <2>6, <2>7, <2>8
<1> QED
  BY <1>1, SlotsInvariance, PTL DEF Spec, InteractiveFirst
====
