---- MODULE TagWritesProofs ----
(***************************************************************************)
(* The file never silently misses a value of the database: for every set of  *)
(* fields, every number of edits and faults, on a host with one batch slot.  *)
(*                                                                           *)
(* Mirrored is not inductive: a rewrite that ends may put an older value of  *)
(* a field into the file.  Newest says that a newer one is then carried      *)
(* behind it, because rewrites are answered in the order they were asked     *)
(* for; a flush that ends drops what it found queued, which is what it sent  *)
(* (Sends), and at most one is under way (OneFlush).  With one slot a        *)
(* rewrite has the file to itself (Alone).                                   *)
(***************************************************************************)
EXTENDS TagWrites, SequenceTheorems, FiniteSetTheorems, TLAPS

Types ==
  /\ db \in Tags /\ file \in [Field -> 0..Torn]
  /\ queued \subseteq Field /\ unwritten \subseteq Field
  /\ run \in Runs /\ sent \in Tags
  /\ line \in Seq(Rewrite) /\ writing \subseteq Copying /\ tmp \subseteq writing
  /\ slots \in BatchSlots /\ enabled \in BOOLEAN /\ faults \in 0..MaxFaults

InLine(i) == i \in DOMAIN line /\ line[i].by = "flush"
OneFlush ==
  /\ \A i, j \in DOMAIN line : InLine(i) /\ InLine(j) => i = j
  /\ \A i \in DOMAIN line, w \in writing : ~(InLine(i) /\ w.by = "flush")
  /\ \A v, w \in writing : v.by = "flush" /\ w.by = "flush" => v = w
  /\ (run = "writing") = \/ \E i \in DOMAIN line : InLine(i)
                         \/ \E w \in writing : w.by = "flush"

(* What the flush under way writes is what is queued.                        *)
Sends ==
  /\ \A f \in queued : db[f] # 0
  /\ run = "writing" => Fields(sent) = queued
  /\ \A i \in DOMAIN line : InLine(i) => line[i].tags = sent
  /\ \A w \in writing : w.by = "flush" => w.tags = sent

(* The last rewrite in line of a field brings the value it has.              *)
Brings(i, f) == i \in DOMAIN line /\ line[i].tags[f] = db[f]
NewestInLine == \A f \in Field, i \in DOMAIN line :
  line[i].tags[f] # 0 => db[f] # 0 /\ \E j \in DOMAIN line : j >= i /\ Brings(j, f)

Ordered == Types /\ OneFlush /\ Sends /\ NewestInLine

Alone ==
  /\ tmp = writing /\ \A v, w \in writing : v = w
  /\ \A w \in writing, f \in Field :
       w.copy[f] = IF w.tags[f] # 0 THEN w.tags[f] ELSE file[f]

NewestWritten == \A f \in Field, w \in writing :
  w.tags[f] # 0 => /\ db[f] # 0
                   /\ w.tags[f] = db[f] \/ \E j \in DOMAIN line : Brings(j, f)

Mirrors == Alone /\ NewestWritten /\ \A f \in Field : Accounted(f)
TagInv == Ordered /\ (slots = 1 => Mirrors)

---------------------------------------------------------------------------
LEMMA Bounds ==
  /\ MaxVersion \in Nat /\ 0 \in Version /\ 1 \in Version /\ Torn \in Nat
  /\ Nothing \in Tags /\ \A f \in Field : Nothing[f] = 0
  /\ \A t \in Tags, f \in Field : t[f] \in 0..Torn
BY TagAssumption DEF Version, Tags, Torn, Nothing

(* The line grows at its end and is served from its head.                    *)
LEMMA Grown ==
  ASSUME Types, NEW e \in Rewrite, line' = Append(line, e)
  PROVE  /\ line' \in Seq(Rewrite)
         /\ \E n \in Nat :
              /\ DOMAIN line' = DOMAIN line \cup {n} /\ line'[n] = e
              /\ n \notin DOMAIN line /\ \A i \in DOMAIN line : i \in Nat /\ i <= n
         /\ \A i \in DOMAIN line : line'[i] = line[i]
<1>1. line \in Seq(Rewrite)
  BY DEF Types
<1>2. Len(line') = Len(line) + 1 /\ Len(line) \in Nat /\ line' \in Seq(Rewrite)
  BY <1>1, AppendProperties
<1>3. \A i \in 1..Len(line) : line'[i] = line[i]
  BY <1>1, AppendProperties
<1>4. line'[Len(line) + 1] = e
  BY <1>1, AppendProperties
<1>5. DOMAIN line = 1..Len(line) /\ DOMAIN line' = 1..(Len(line) + 1)
  BY <1>1, <1>2
<1>6. /\ DOMAIN line' = DOMAIN line \cup {Len(line) + 1} /\ Len(line) + 1 \in Nat
      /\ Len(line) + 1 \notin DOMAIN line
      /\ \A i \in DOMAIN line : i \in Nat /\ i <= Len(line) + 1
  BY <1>2, <1>5
<1> QED
  BY <1>2, <1>3, <1>4, <1>5, <1>6

LEMMA Served ==
  ASSUME Types, line # <<>>, line' = Tail(line)
  PROVE  /\ line' \in Seq(Rewrite) /\ 1 \in DOMAIN line /\ line[1] = Head(line)
         /\ Head(line) \in Rewrite
         /\ \A i \in DOMAIN line : i \in Nat /\ i >= 1
         /\ \A i \in DOMAIN line' : i \in Nat /\ i + 1 \in DOMAIN line /\ line'[i] = line[i + 1]
         /\ \A i \in DOMAIN line : i # 1 => i - 1 \in DOMAIN line' /\ line'[i - 1] = line[i]
<1>1. line \in Seq(Rewrite)
  BY DEF Types
<1>2. /\ Len(line) \in Nat /\ Len(line) # 0 /\ Len(line') = Len(line) - 1
      /\ line' \in Seq(Rewrite) /\ Head(line) \in Rewrite
      /\ \A i \in 1..Len(line') : line'[i] = line[i + 1]
  BY <1>1, HeadTailProperties, EmptySeq
<1>3. DOMAIN line = 1..Len(line) /\ DOMAIN line' = 1..Len(line')
  BY <1>1, <1>2
<1>4. line[1] = Head(line)
  BY <1>1
<1>5. \A i \in DOMAIN line' : i \in Nat /\ i + 1 \in DOMAIN line /\ line'[i] = line[i + 1]
  BY <1>2, <1>3
<1>6. ASSUME NEW i \in DOMAIN line, i # 1
      PROVE  i - 1 \in DOMAIN line' /\ line'[i - 1] = line[i]
  BY <1>2, <1>3, <1>6
<1>7. 1 \in DOMAIN line /\ \A i \in DOMAIN line : i \in Nat /\ i >= 1
  BY <1>2, <1>3
<1> QED
  BY <1>2, <1>4, <1>5, <1>6, <1>7

(* What is in line, and what is written, has its type.                       *)
LEMMA Carriers ==
  ASSUME Types
  PROVE  /\ \A i \in DOMAIN line : line[i] \in Rewrite
         /\ \A w \in writing : /\ w \in Copying /\ w.tags \in Tags
                               /\ w.by \in {"flush", "edit"}
                               /\ w.copy \in [Field -> 0..Torn]
<1>1. line \in Seq(Rewrite) /\ writing \subseteq Copying
  BY DEF Types
<1>2. \A i \in DOMAIN line : line[i] \in Rewrite
  BY <1>1
<1> QED
  BY <1>1, <1>2 DEF Copying

---------------------------------------------------------------------------
(* The guarded run moves on, a task throws, the settings change.             *)
LEMMA RunKeeps ==
  ASSUME TagInv, run' \in Runs, (run' = "writing") = (run = "writing"),
         enabled' \in BOOLEAN, faults' \in 0..MaxFaults,
         UNCHANGED <<db, file, queued, sent, line, writing, tmp, slots, unwritten>>
  PROVE  TagInv'
<1>1. Types'
  BY DEF TagInv, Ordered, Types
<1>2. OneFlush' /\ Sends'
  BY DEF TagInv, Ordered, OneFlush, Sends, InLine
<1>3. NewestInLine'
  BY DEF TagInv, Ordered, NewestInLine, Brings
<1>4. (slots = 1 => Mirrors)'
  BY DEF TagInv, Mirrors, Alone, NewestWritten, Brings, Accounted, Carried
<1> QED
  BY <1>1, <1>2, <1>3, <1>4 DEF TagInv, Ordered

(* A task fills a field nobody carries yet: it had no value.                 *)
LEMMA EnrichKeeps == ASSUME TagInv, NEW f \in Field, Enrich(f) PROVE TagInv'
<1>1. /\ run = "tasks" /\ db[f] = 0 /\ db' = [db EXCEPT ![f] = 1]
      /\ queued' = queued \cup {f} /\ unwritten' = unwritten \ {f}
      /\ UNCHANGED <<file, run, sent, line, writing, tmp, slots, enabled, faults>>
  BY DEF Enrich, Merged
<1>2. Types
  BY DEF TagInv, Ordered
<1>3. db' \in Tags /\ db'[f] = 1 /\ \A g \in Field \ {f} : db'[g] = db[g]
  BY <1>1, <1>2, Bounds DEF Types, Tags
<1>4. Types'
  BY <1>1, <1>2, <1>3 DEF Types
<1>5. OneFlush'
  BY <1>1 DEF TagInv, Ordered, OneFlush, InLine
<1>6. Sends'
  BY <1>1, <1>3 DEF TagInv, Ordered, Sends, InLine
<1>7. \A i \in DOMAIN line : line[i].tags[f] = 0
  BY <1>1 DEF TagInv, Ordered, NewestInLine
<1>8. NewestInLine'
  BY <1>1, <1>3, <1>7 DEF TagInv, Ordered, NewestInLine, Brings
<1>9. ASSUME slots = 1 PROVE Mirrors'
  <2>1. \A w \in writing : w.tags[f] = 0
    BY <1>1, <1>9 DEF TagInv, Mirrors, NewestWritten
  <2>2. Alone'
    BY <1>1, <1>9 DEF TagInv, Mirrors, Alone
  <2>3. NewestWritten'
    BY <1>1, <1>3, <1>9, <2>1 DEF TagInv, Mirrors, NewestWritten, Brings
  <2>4. \A g \in Field : Accounted(g)'
    BY <1>1, <1>3, <1>9 DEF TagInv, Mirrors, Accounted, Carried
  <2> QED
    BY <2>2, <2>3, <2>4 DEF Mirrors
<1> QED
  BY <1>1, <1>4, <1>5, <1>6, <1>8, <1>9 DEF TagInv, Ordered

(* A rewrite is asked for behind those in line.                              *)
LEMMA AskKeeps ==
  ASSUME Types, NewestInLine, NEW e \in Rewrite, line' = Append(line, e),
         db' \in Tags, writing' = writing,
         \A f \in Field : e.tags[f] # 0 => db'[f] # 0 /\ e.tags[f] = db'[f],
         \A f \in Field : e.tags[f] = 0 => db'[f] = db[f]
  PROVE  /\ NewestInLine'
         /\ NewestWritten => NewestWritten'
         /\ \A f \in Field, i \in DOMAIN line : Brings(i, f) => Brings(i, f)' \/ e.tags[f] # 0
<1>1. PICK n \in Nat :
        /\ DOMAIN line' = DOMAIN line \cup {n} /\ line'[n] = e
        /\ n \notin DOMAIN line /\ \A i \in DOMAIN line : i \in Nat /\ i <= n
  BY Grown
<1>2. \A i \in DOMAIN line : line'[i] = line[i]
  BY Grown
<1>3. \A f \in Field : e.tags[f] # 0 => Brings(n, f)'
  BY <1>1 DEF Brings
<1>4. \A f \in Field, i \in DOMAIN line : e.tags[f] = 0 /\ Brings(i, f) => Brings(i, f)'
  BY <1>1, <1>2 DEF Brings
<1>5. NewestInLine'
  <2> SUFFICES ASSUME NEW f \in Field, NEW i \in DOMAIN line', line'[i].tags[f] # 0
               PROVE  db'[f] # 0 /\ \E j \in DOMAIN line' : j >= i /\ Brings(j, f)'
    BY DEF NewestInLine
  <2>1. CASE e.tags[f] # 0
    <3>1. n >= i
      BY <1>1
    <3> QED
      BY <1>1, <1>3, <2>1, <3>1
  <2>2. CASE e.tags[f] = 0
    <3>1. i \in DOMAIN line /\ line[i].tags[f] # 0
      BY <1>1, <1>2, <2>2
    <3>2. PICK j \in DOMAIN line : j >= i /\ Brings(j, f)
      BY <3>1 DEF NewestInLine
    <3>3. db'[f] = db[f] /\ db[f] # 0
      BY <2>2, <3>1 DEF NewestInLine
    <3> QED
      BY <1>1, <1>4, <2>2, <3>2, <3>3
  <2> QED
    BY <2>1, <2>2
<1>6. ASSUME NewestWritten PROVE NewestWritten'
  <2> SUFFICES ASSUME NEW f \in Field, NEW w \in writing, w.tags[f] # 0
               PROVE  /\ db'[f] # 0
                      /\ w.tags[f] = db'[f] \/ \E j \in DOMAIN line' : Brings(j, f)'
    BY DEF NewestWritten
  <2>1. CASE e.tags[f] # 0
    BY <1>1, <1>3, <2>1
  <2>2. CASE e.tags[f] = 0
    BY <1>1, <1>4, <1>6, <2>2 DEF NewestWritten
  <2> QED
    BY <2>1, <2>2
<1> QED
  BY <1>4, <1>5, <1>6

LEMMA EditKeeps == ASSUME TagInv, NEW f \in Field, Edit(f) PROVE TagInv'
<1> DEFINE e == [by |-> "edit", tags |-> [Nothing EXCEPT ![f] = db[f] + 1]]
<1>1. /\ db[f] < MaxVersion /\ db' = [db EXCEPT ![f] = db[f] + 1]
      /\ line' = Append(line, e) /\ unwritten' = unwritten \ {f}
      /\ UNCHANGED <<file, queued, run, sent, writing, tmp, slots, enabled, faults>>
  BY DEF Edit
<1>2. Types /\ db \in Tags /\ db[f] \in 0..MaxVersion /\ db[f] + 1 \in 1..MaxVersion
  BY <1>1, TagAssumption DEF TagInv, Ordered, Types, Tags, Version
<1>3. /\ db' \in Tags /\ db'[f] = db[f] + 1 /\ db'[f] # 0
      /\ \A g \in Field \ {f} : db'[g] = db[g]
  BY <1>1, <1>2 DEF Tags, Version
<1>4. /\ e \in Rewrite /\ e.by = "edit" /\ e.tags[f] = db'[f]
      /\ \A g \in Field \ {f} : e.tags[g] = 0
  BY <1>2, <1>3, Bounds DEF Rewrite, Tags, Version
<1> HIDE DEF e
<1>5. PICK n \in Nat :
        /\ DOMAIN line' = DOMAIN line \cup {n} /\ line'[n] = e
        /\ n \notin DOMAIN line
  BY <1>1, <1>2, <1>4, Grown
<1>6. line' \in Seq(Rewrite) /\ \A i \in DOMAIN line : line'[i] = line[i]
  BY <1>1, <1>2, <1>4, Grown
<1>7. Types'
  BY <1>1, <1>2, <1>3, <1>6 DEF Types
<1>8. \A i \in DOMAIN line' : InLine(i)' <=> i \in DOMAIN line /\ InLine(i)
  BY <1>4, <1>5, <1>6 DEF InLine
<1>9. OneFlush'
  BY <1>1, <1>5, <1>8 DEF TagInv, Ordered, OneFlush
<1>10. Sends'
  BY <1>1, <1>3, <1>6, <1>8 DEF TagInv, Ordered, Sends
<1>11. /\ NewestInLine'
       /\ NewestWritten => NewestWritten'
       /\ \A g \in Field, i \in DOMAIN line : Brings(i, g) => Brings(i, g)' \/ e.tags[g] # 0
  <2>1. \A g \in Field : e.tags[g] # 0 => g = f
    BY <1>4
  <2>2. \A g \in Field : e.tags[g] # 0 => db'[g] # 0 /\ e.tags[g] = db'[g]
    BY <1>3, <1>4, <2>1
  <2>3. \A g \in Field : e.tags[g] = 0 => db'[g] = db[g]
    BY <1>3, <1>4
  <2> QED
    BY <1>1, <1>2, <1>3, <1>4, <2>2, <2>3, AskKeeps DEF TagInv, Ordered
<1>12. ASSUME slots = 1 PROVE Mirrors'
  <2>1. Alone' /\ NewestWritten'
    BY <1>1, <1>11, <1>12 DEF TagInv, Mirrors, Alone
  <2>2. Accounted(f)'
    BY <1>4, <1>5 DEF Accounted, Carried
  <2>3. ASSUME NEW g \in Field \ {f} PROVE Accounted(g)'
    <3>1. Carried(g) => Carried(g)'
      BY <1>1, <1>3, <1>5, <1>6 DEF Carried
    <3> QED
      BY <1>1, <1>3, <1>12, <3>1 DEF TagInv, Mirrors, Accounted
  <2> QED
    BY <2>1, <2>2, <2>3 DEF Mirrors
<1> QED
  BY <1>1, <1>7, <1>9, <1>10, <1>11, <1>12 DEF TagInv, Ordered

(* A flush asks for the values there are of what is queued.                  *)
LEMMA FlushAsksKeeps == ASSUME TagInv, FlushAsks PROVE TagInv'
<1> DEFINE e == [by |-> "flush", tags |-> sent']
<1>1. /\ run = "flush" /\ sent' = CurrentTags(queued) /\ line' = Append(line, e)
      /\ run' = "writing"
      /\ UNCHANGED <<db, file, queued, writing, tmp, slots, enabled, unwritten, faults>>
  BY DEF FlushAsks
<1>2. Types /\ db \in Tags /\ queued \subseteq Field /\ \A f \in queued : db[f] # 0
  BY DEF TagInv, Ordered, Types, Sends
<1>3. /\ sent' \in Tags /\ \A f \in Field : sent'[f] # 0 => db[f] # 0 /\ sent'[f] = db[f]
      /\ Fields(sent') = queued
  <2>1. sent' = [f \in Field |-> IF f \in queued THEN db[f] ELSE 0]
    BY <1>1 DEF CurrentTags
  <2>2. \A f \in Field : sent'[f] = IF f \in queued THEN db[f] ELSE 0
    BY <2>1
  <2>3. sent' \in Tags
    BY <1>2, <2>1, Bounds DEF Tags
  <2> QED
    BY <1>2, <2>2, <2>3 DEF Fields
<1>4. e \in Rewrite /\ e.by = "flush" /\ e.tags = sent'
  BY <1>3 DEF Rewrite
<1> HIDE DEF e
<1>5. PICK n \in Nat :
        /\ DOMAIN line' = DOMAIN line \cup {n} /\ line'[n] = e
        /\ n \notin DOMAIN line
  BY <1>1, <1>2, <1>4, Grown
<1>6. line' \in Seq(Rewrite) /\ \A i \in DOMAIN line : line'[i] = line[i]
  BY <1>1, <1>2, <1>4, Grown
<1>7. Types'
  BY <1>1, <1>2, <1>3, <1>6 DEF Types, Runs
<1>8. /\ \A i \in DOMAIN line : ~InLine(i)
      /\ \A w \in writing : w.by # "flush"
  BY <1>1 DEF TagInv, Ordered, OneFlush
<1>9. \A i \in DOMAIN line' : InLine(i)' <=> i = n
  BY <1>4, <1>5, <1>6, <1>8 DEF InLine
<1>10. OneFlush'
  BY <1>1, <1>5, <1>8, <1>9 DEF OneFlush
<1>11. Sends'
  BY <1>1, <1>2, <1>3, <1>4, <1>5, <1>8, <1>9 DEF Sends
<1>12. /\ NewestInLine'
       /\ NewestWritten => NewestWritten'
  BY <1>1, <1>2, <1>3, <1>4, AskKeeps DEF TagInv, Ordered
<1>13. ASSUME slots = 1 PROVE Mirrors'
  <2>1. Alone' /\ NewestWritten'
    BY <1>1, <1>12, <1>13 DEF TagInv, Mirrors, Alone
  <2>2. \A f \in Field : Carried(f) => Carried(f)'
    BY <1>1, <1>5, <1>6 DEF Carried
  <2> QED
    BY <1>1, <1>13, <2>1, <2>2 DEF TagInv, Mirrors, Accounted
<1> QED
  BY <1>1, <1>7, <1>10, <1>11, <1>12, <1>13 DEF TagInv, Ordered

---------------------------------------------------------------------------
(* The oldest in line runs, with one slot alone.                             *)
LEMMA StartsKeeps == ASSUME TagInv, RewriteStarts PROVE TagInv'
<1> DEFINE w == Head(line)
           c == [by |-> w.by, tags |-> w.tags,
                 copy |-> [f \in Field |-> IF w.tags[f] # 0 THEN w.tags[f] ELSE file[f]]]
<1>1. /\ line # <<>> /\ Cardinality(writing) < slots /\ line' = Tail(line)
      /\ writing' = writing \cup {c} /\ tmp' = tmp \cup {c}
      /\ UNCHANGED <<db, file, queued, run, sent, slots, enabled, unwritten, faults>>
  BY DEF RewriteStarts
<1>2. Types
  BY DEF TagInv, Ordered
<1>3. /\ line' \in Seq(Rewrite) /\ 1 \in DOMAIN line /\ line[1] = w /\ w \in Rewrite
      /\ \A i \in DOMAIN line : i \in Nat /\ i >= 1
      /\ \A i \in DOMAIN line' : i \in Nat /\ i + 1 \in DOMAIN line /\ line'[i] = line[i + 1]
      /\ \A i \in DOMAIN line : i # 1 => i - 1 \in DOMAIN line' /\ line'[i - 1] = line[i]
  BY <1>1, <1>2, Served
<1> HIDE DEF w
<1>4. /\ c \in Copying /\ c.by = w.by /\ c.tags = w.tags
      /\ \A f \in Field : c.copy[f] = IF c.tags[f] # 0 THEN c.tags[f] ELSE file[f]
  <2>1. w.tags \in Tags /\ w.by \in {"flush", "edit"} /\ file \in [Field -> 0..Torn]
    BY <1>2, <1>3 DEF Rewrite, Types
  <2>2. [f \in Field |-> IF w.tags[f] # 0 THEN w.tags[f] ELSE file[f]] \in [Field -> 0..Torn]
    BY <2>1, Bounds
  <2> QED
    BY <2>1, <2>2 DEF Copying
<1> HIDE DEF c
<1>5. Types'
  BY <1>1, <1>2, <1>3, <1>4 DEF Types
<1>6. \A i \in DOMAIN line' : InLine(i)' => InLine(i + 1) /\ i + 1 # 1
  BY <1>3 DEF InLine
<1>7. \A i \in DOMAIN line : InLine(i) /\ i # 1 => InLine(i - 1)'
  BY <1>3 DEF InLine
<1>8. InLine(1) <=> c.by = "flush"
  BY <1>3, <1>4 DEF InLine
<1>9. OneFlush'
  <2>1. \A i, j \in DOMAIN line' : InLine(i)' /\ InLine(j)' => i = j
    <3> SUFFICES ASSUME NEW i \in DOMAIN line', NEW j \in DOMAIN line', InLine(i)', InLine(j)'
                 PROVE  i = j
      OBVIOUS
    <3>1. i + 1 \in DOMAIN line /\ j + 1 \in DOMAIN line /\ InLine(i + 1) /\ InLine(j + 1)
      BY <1>3, <1>6
    <3>2. i + 1 = j + 1
      BY <3>1 DEF TagInv, Ordered, OneFlush
    <3> QED
      BY <1>3, <3>2
  <2>2. \A i \in DOMAIN line', v \in writing' : ~(InLine(i)' /\ v.by = "flush")
    <3> SUFFICES ASSUME NEW i \in DOMAIN line', NEW v \in writing', InLine(i)', v.by = "flush"
                 PROVE  FALSE
      OBVIOUS
    <3>1. i + 1 \in DOMAIN line /\ InLine(i + 1) /\ i + 1 # 1
      BY <1>3, <1>6
    <3>2. CASE v = c
      BY <1>3, <1>8, <3>1, <3>2 DEF TagInv, Ordered, OneFlush
    <3>3. CASE v \in writing
      BY <3>1, <3>3 DEF TagInv, Ordered, OneFlush
    <3> QED
      BY <1>1, <3>2, <3>3
  <2>3. \A u, v \in writing' : u.by = "flush" /\ v.by = "flush" => u = v
    BY <1>1, <1>3, <1>8 DEF TagInv, Ordered, OneFlush
  <2>4. (\E i \in DOMAIN line : InLine(i)) \/ (\E v \in writing : v.by = "flush")
          <=> (\E i \in DOMAIN line' : InLine(i)') \/ (\E v \in writing' : v.by = "flush")
    <3>1. ASSUME NEW i \in DOMAIN line, InLine(i)
          PROVE  (\E k \in DOMAIN line' : InLine(k)') \/ (\E v \in writing' : v.by = "flush")
      BY <1>1, <1>3, <1>7, <1>8, <3>1
    <3>2. ASSUME NEW i \in DOMAIN line', InLine(i)'
          PROVE  \E k \in DOMAIN line : InLine(k)
      BY <1>3, <1>6, <3>2
    <3> QED
      BY <1>1, <1>3, <1>8, <3>1, <3>2
  <2>5. (run' = "writing") = \/ \E i \in DOMAIN line' : InLine(i)'
                             \/ \E v \in writing' : v.by = "flush"
    BY <1>1, <2>4 DEF TagInv, Ordered, OneFlush
  <2> QED
    BY <2>1, <2>2, <2>3, <2>5 DEF OneFlush
<1>10. Sends'
  <2>1. \A i \in DOMAIN line' : InLine(i)' => line'[i].tags = sent
    BY <1>3, <1>6 DEF TagInv, Ordered, Sends
  <2>2. \A v \in writing' : v.by = "flush" => v.tags = sent
    BY <1>1, <1>3, <1>4, <1>8 DEF TagInv, Ordered, Sends
  <2> QED
    BY <1>1, <2>1, <2>2 DEF TagInv, Ordered, Sends
<1>11. \A f \in Field, i \in DOMAIN line : Brings(i, f) /\ i # 1 => Brings(i - 1, f)'
  BY <1>1, <1>3 DEF Brings
<1>12. NewestInLine'
  <2> SUFFICES ASSUME NEW f \in Field, NEW i \in DOMAIN line', line'[i].tags[f] # 0
               PROVE  db[f] # 0 /\ \E j \in DOMAIN line' : j >= i /\ Brings(j, f)'
    BY <1>1 DEF NewestInLine
  <2>1. /\ i \in Nat /\ i + 1 \in DOMAIN line /\ line[i + 1].tags[f] # 0
    BY <1>3
  <2>2. db[f] # 0
    BY <2>1 DEF TagInv, Ordered, NewestInLine
  <2>3. PICK j \in DOMAIN line : j >= i + 1 /\ Brings(j, f)
    BY <2>1 DEF TagInv, Ordered, NewestInLine
  <2>4. (j \in Nat /\ j # 1) \/ i = 0
    BY <1>3, <2>1, <2>3
  <2>5. i # 0
    <3>1. line' \in Seq(Rewrite)
      BY <1>3
    <3> QED
      BY <3>1
  <2>6. j - 1 \in DOMAIN line' /\ Brings(j - 1, f)'
    BY <1>3, <1>11, <2>3, <2>4, <2>5
  <2>7. j - 1 >= i
    BY <1>3, <2>1, <2>3
  <2> QED
    BY <2>2, <2>6, <2>7
<1>13. ASSUME slots = 1 PROVE Mirrors'
  <2>1. writing = {}
    <3> SUFFICES ASSUME NEW v \in writing PROVE FALSE
      OBVIOUS
    <3>1. writing = {v}
      BY <1>13 DEF TagInv, Mirrors, Alone
    <3>2. Cardinality(writing) = 1
      BY <3>1, FS_Singleton
    <3> QED
      BY <1>1, <1>13, <3>2
  <2>2. writing' = {c} /\ tmp' = {c}
    BY <1>1, <1>13, <2>1 DEF TagInv, Mirrors, Alone
  <2>3. Alone'
    BY <1>1, <1>4, <2>2 DEF Alone
  <2>4. NewestWritten'
    <3> SUFFICES ASSUME NEW f \in Field, c.tags[f] # 0
                 PROVE  /\ db[f] # 0
                        /\ c.tags[f] = db[f] \/ \E j \in DOMAIN line' : Brings(j, f)'
      BY <1>1, <2>2 DEF NewestWritten
    <3>1. db[f] # 0
      BY <1>3, <1>4 DEF TagInv, Ordered, NewestInLine
    <3>2. PICK j \in DOMAIN line : Brings(j, f)
      BY <1>3, <1>4 DEF TagInv, Ordered, NewestInLine
    <3> QED
      BY <1>3, <1>4, <1>11, <3>1, <3>2 DEF Brings
  <2>5. ASSUME NEW f \in Field, Carried(f) PROVE Carried(f)'
    <3>1. CASE \E i \in DOMAIN line : line[i].tags[f] = db[f]
      <4>1. PICK i \in DOMAIN line : line[i].tags[f] = db[f]
        BY <3>1
      <4>2. CASE i = 1
        BY <1>1, <1>3, <1>4, <4>1, <4>2 DEF Carried
      <4>3. CASE i # 1
        <5>1. i - 1 \in DOMAIN line' /\ line'[i - 1].tags[f] = db[f]
          BY <1>3, <4>1, <4>3
        <5> QED
          BY <1>1, <5>1 DEF Carried
      <4> QED
        BY <4>2, <4>3
    <3> QED
      BY <1>1, <2>5, <3>1 DEF Carried
  <2> QED
    BY <1>1, <1>13, <2>3, <2>4, <2>5 DEF TagInv, Mirrors, Accounted
<1> QED
  BY <1>1, <1>5, <1>9, <1>10, <1>12, <1>13 DEF TagInv, Ordered

---------------------------------------------------------------------------
(* A rewrite ends: if it is the flush's, the run goes on.                    *)
LEMMA EndsOrdered ==
  ASSUME TagInv, NEW w \in writing, NEW ok \in BOOLEAN, Answered(w, ok),
         writing' = writing \ {w}, tmp' \subseteq writing',
         file' \in [Field -> 0..Torn], faults' \in 0..MaxFaults,
         UNCHANGED <<db, line, slots, enabled>>
  PROVE  Ordered'
<1>1. Types /\ w \in Copying /\ w.tags \in Tags /\ w.by \in {"flush", "edit"}
  BY Carriers DEF TagInv, Ordered
<1>2. unwritten' \subseteq Field
  BY <1>1 DEF Answered, Types, Fields
<1>3. CASE w.by = "flush"
  <2>1. run' = "idle" /\ sent' = Nothing /\ queued' \subseteq queued
    BY <1>3 DEF Answered
  <2>2. Types'
    BY <1>1, <1>2, <2>1, Bounds DEF Types, Runs
  <2>3. /\ \A i \in DOMAIN line' : ~InLine(i)'
        /\ \A v \in writing' : v.by # "flush"
    BY <1>3 DEF TagInv, Ordered, OneFlush, InLine
  <2>4. OneFlush' /\ Sends'
    BY <2>1, <2>3 DEF TagInv, Ordered, OneFlush, Sends
  <2>5. NewestInLine'
    BY DEF TagInv, Ordered, NewestInLine, Brings
  <2> QED
    BY <2>2, <2>4, <2>5 DEF Ordered
<1>4. CASE w.by = "edit"
  <2>1. UNCHANGED <<queued, run, sent>>
    BY <1>4 DEF Answered
  <2>2. Types'
    BY <1>1, <1>2, <2>1 DEF Types
  <2>3. OneFlush' /\ Sends'
    BY <1>4, <2>1 DEF TagInv, Ordered, OneFlush, Sends, InLine
  <2>4. NewestInLine'
    BY DEF TagInv, Ordered, NewestInLine, Brings
  <2> QED
    BY <2>2, <2>3, <2>4 DEF Ordered
<1> QED
  BY <1>1, <1>3, <1>4

(* What a flush leaves queued or drops was sent: it was in its rewrite.      *)
LEMMA DropsWhatItSent ==
  ASSUME TagInv, NEW w \in writing, NEW ok \in BOOLEAN, Answered(w, ok),
         NEW f \in queued, f \notin queued'
  PROVE  /\ w.tags[f] # 0
         /\ ok => w.tags[f] = db[f]
<1>1. w.by = "flush" /\ ~Retained(ok)
  BY DEF Answered
<1>2. run = "writing" /\ w.tags = sent /\ Fields(sent) = queued
  BY <1>1 DEF TagInv, Ordered, OneFlush, Sends
<1>3. w.tags[f] # 0
  BY <1>2 DEF Fields
<1>4. ASSUME ok PROVE w.tags[f] = db[f]
  <2>1. CurrentTags(queued) = sent /\ f \in Field
    BY <1>1, <1>4 DEF Retained, TagInv, Ordered, Types
  <2> QED
    BY <1>2, <2>1 DEF CurrentTags
<1> QED
  BY <1>3, <1>4

LEMMA ClosesKeeps ==
  ASSUME TagInv, NEW w \in writing, RewriteCloses(w)
  PROVE  /\ TagInv'
         /\ slots = 1 => \A f \in queued \ queued' : file'[f] = db'[f]
<1>1. /\ tmp' = {} /\ writing' = writing \ {w} /\ Answered(w, TRUE)
      /\ file' \in IF w \in tmp THEN {v.copy : v \in tmp} ELSE {[f \in Field |-> Torn]}
      /\ UNCHANGED <<db, line, slots, enabled, faults>>
  BY DEF RewriteCloses
<1>2. Types
  BY DEF TagInv, Ordered
<1>3. file' \in [Field -> 0..Torn]
  <2>1. [f \in Field |-> Torn] \in [Field -> 0..Torn]
    BY Bounds
  <2> QED
    BY <1>1, <1>2, <2>1, Carriers DEF Types
<1>4. Ordered'
  BY <1>1, <1>2, <1>3, EndsOrdered DEF Types
<1>5. ASSUME slots = 1
      PROVE  Mirrors' /\ \A f \in queued \ queued' : file'[f] = db'[f]
  <2>1. tmp = {w} /\ writing' = {} /\ file' = w.copy
    BY <1>1, <1>5 DEF TagInv, Mirrors, Alone
  <2>2. \A f \in Field : file'[f] = IF w.tags[f] # 0 THEN w.tags[f] ELSE file[f]
    BY <1>5, <2>1 DEF TagInv, Mirrors, Alone
  <2>3. \A f \in queued \ queued' : w.tags[f] # 0 /\ w.tags[f] = db[f]
    BY <1>1, DropsWhatItSent
  <2>4. Alone' /\ NewestWritten'
    BY <1>1, <2>1 DEF Alone, NewestWritten
  <2>5. ASSUME NEW f \in Field PROVE Accounted(f)'
    <3> SUFFICES ASSUME db[f] # 0 PROVE file'[f] = db[f] \/ Carried(f)' \/ f \in unwritten'
      BY <1>1 DEF Accounted
    <3>1. CASE w.tags[f] # 0
      <4>1. w.tags[f] = db[f] \/ \E j \in DOMAIN line : Brings(j, f)
        BY <1>5, <3>1 DEF TagInv, Mirrors, NewestWritten
      <4> QED
        BY <1>1, <2>2, <3>1, <4>1 DEF Carried, Brings
    <3>2. CASE w.tags[f] = 0
      <4>1. file[f] = db[f] \/ Carried(f) \/ f \in unwritten
        BY <1>5 DEF TagInv, Mirrors, Accounted
      <4>2. CASE f \in queued
        BY <2>3, <3>2, <4>2 DEF Carried
      <4>3. f \in unwritten => f \in unwritten'
        BY <1>1, <3>2 DEF Answered, Fields
      <4>4. CASE \E i \in DOMAIN line : line[i].tags[f] = db[f]
        BY <1>1, <4>4 DEF Carried
      <4>5. ~ \E v \in writing : v.tags[f] = db[f]
        BY <1>5, <3>2 DEF TagInv, Mirrors, Alone
      <4> QED
        BY <2>2, <3>2, <4>1, <4>2, <4>3, <4>4, <4>5 DEF Carried
    <3> QED
      BY <3>1, <3>2
  <2>6. \A f \in queued \ queued' : file'[f] = db'[f]
    BY <1>1, <1>2, <2>2, <2>3 DEF Types
  <2> QED
    BY <2>4, <2>5, <2>6 DEF Mirrors
<1> QED
  BY <1>1, <1>4, <1>5 DEF TagInv

(* With one slot the temporary file is there for the one rewrite there is.   *)
LEMMA LateKeeps ==
  ASSUME TagInv, NEW w \in writing, RewriteLate(w)
  PROVE  TagInv' /\ slots # 1
<1>1. /\ tmp = {} /\ writing' = writing \ {w} /\ Answered(w, FALSE) /\ file' \in {file, w.copy}
      /\ UNCHANGED <<db, line, tmp, slots, enabled, faults>>
  BY DEF RewriteLate
<1>2. Types
  BY DEF TagInv, Ordered
<1>3. Ordered'
  BY <1>1, <1>2, Carriers, EndsOrdered DEF Types
<1>4. slots # 1
  BY <1>1 DEF TagInv, Mirrors, Alone
<1> QED
  BY <1>1, <1>3, <1>4 DEF TagInv

LEMMA FailsKeeps == ASSUME TagInv, NEW w \in writing, RewriteFails(w) PROVE TagInv'
<1>1. /\ faults < MaxFaults /\ faults' = faults + 1
      /\ tmp' = {} /\ writing' = writing \ {w} /\ Answered(w, FALSE)
      /\ UNCHANGED <<db, file, line, slots, enabled>>
  BY DEF RewriteFails
<1>2. Types
  BY DEF TagInv, Ordered
<1>3. faults' \in 0..MaxFaults
  BY <1>1, <1>2, TagAssumption DEF Types
<1>4. Ordered'
  BY <1>1, <1>2, <1>3, EndsOrdered DEF Types
<1>5. ASSUME slots = 1 PROVE Mirrors'
  <2>1. writing' = {}
    BY <1>1, <1>5 DEF TagInv, Mirrors, Alone
  <2>2. Alone' /\ NewestWritten'
    BY <1>1, <2>1 DEF Alone, NewestWritten
  <2>3. ASSUME NEW f \in Field PROVE Accounted(f)'
    <3> SUFFICES ASSUME db[f] # 0 PROVE file[f] = db[f] \/ Carried(f)' \/ f \in unwritten'
      BY <1>1 DEF Accounted
    <3>1. f \in unwritten => f \in unwritten'
      BY <1>1 DEF Answered
    <3>2. w.tags[f] = db[f] => f \in unwritten'
      BY <1>1 DEF Answered, Fields
    <3>3. CASE w.tags[f] # 0
      <4>1. w.tags[f] = db[f] \/ \E j \in DOMAIN line : Brings(j, f)
        BY <1>5, <3>3 DEF TagInv, Mirrors, NewestWritten
      <4> QED
        BY <1>1, <3>2, <4>1 DEF Carried, Brings
    <3>4. CASE w.tags[f] = 0
      <4>1. f \in queued => f \in queued'
        BY <1>1, <3>4, DropsWhatItSent
      <4>2. ~ \E v \in writing : v.tags[f] = db[f]
        BY <1>5, <3>4 DEF TagInv, Mirrors, Alone
      <4>3. file[f] = db[f] \/ Carried(f) \/ f \in unwritten
        BY <1>5 DEF TagInv, Mirrors, Accounted
      <4> QED
        BY <1>1, <3>1, <4>1, <4>2, <4>3 DEF Carried
    <3> QED
      BY <3>3, <3>4
  <2> QED
    BY <2>2, <2>3 DEF Mirrors
<1> QED
  BY <1>1, <1>4, <1>5 DEF TagInv

(* A restart: what a flush was writing is still queued, and an edit that was *)
(* killed is known not to have been written.                                 *)
LEMMA CrashKeeps == ASSUME TagInv, TagCrash PROVE TagInv'
<1>1. /\ faults < MaxFaults /\ faults' = faults + 1
      /\ run' = "idle" /\ sent' = Nothing /\ line' = <<>> /\ writing' = {} /\ tmp' = {}
      /\ UNCHANGED <<db, file, queued, slots, enabled>>
  BY DEF TagCrash
<1>2. unwritten' = unwritten \cup
        {f \in Field : \E w \in Killed : w.by = "edit" /\ w.tags[f] # 0 /\ w.tags[f] = db[f]}
  BY DEF TagCrash
<1>3. Types
  BY DEF TagInv, Ordered
<1>4. Types'
  BY <1>1, <1>2, <1>3, TagAssumption, Bounds DEF Types, Runs
<1>5. DOMAIN line' = {}
  BY <1>1
<1>6. OneFlush' /\ Sends' /\ NewestInLine'
  BY <1>1, <1>5 DEF TagInv, Ordered, OneFlush, Sends, NewestInLine
<1>7. ASSUME slots = 1 PROVE Mirrors'
  <2>1. Alone' /\ NewestWritten'
    BY <1>1 DEF Alone, NewestWritten
  <2>2. ASSUME NEW f \in Field PROVE Accounted(f)'
    <3> SUFFICES ASSUME db[f] # 0 PROVE file[f] = db[f] \/ f \in queued \/ f \in unwritten'
      BY <1>1 DEF Accounted, Carried
    <3>1. ASSUME NEW tags, tags[f] = db[f],
                 [by |-> "edit", tags |-> tags] \in Killed
          PROVE  f \in unwritten'
      BY <1>2, <3>1
    <3>2. ASSUME NEW i \in DOMAIN line, line[i].tags[f] = db[f]
          PROVE  f \in queued \/ f \in unwritten'
      <4>1. line[i] \in Rewrite /\ line[i] \in Killed
        BY <1>3, Carriers DEF Killed
      <4>2. CASE line[i].by = "flush"
        <5>1. run = "writing" /\ line[i].tags = sent
          BY <4>2 DEF TagInv, Ordered, OneFlush, Sends, InLine
        <5> QED
          BY <3>2, <5>1 DEF TagInv, Ordered, Sends, Fields
      <4>3. CASE line[i].by = "edit"
        BY <1>2, <3>2, <4>1, <4>3
      <4> QED
        BY <4>1, <4>2, <4>3 DEF Rewrite
    <3>3. ASSUME NEW w \in writing, w.tags[f] = db[f]
          PROVE  f \in queued \/ f \in unwritten'
      <4>1. w.by \in {"flush", "edit"} /\ [by |-> w.by, tags |-> w.tags] \in Killed
        BY <1>3, Carriers DEF Killed
      <4>2. CASE w.by = "flush"
        <5>1. run = "writing" /\ w.tags = sent
          BY <4>2 DEF TagInv, Ordered, OneFlush, Sends
        <5> QED
          BY <3>3, <5>1 DEF TagInv, Ordered, Sends, Fields
      <4>3. CASE w.by = "edit"
        BY <3>1, <3>3, <4>1, <4>3
      <4> QED
        BY <4>1, <4>2, <4>3
    <3>4. file[f] = db[f] \/ Carried(f) \/ f \in unwritten
      BY <1>7 DEF TagInv, Mirrors, Accounted
    <3> QED
      BY <1>2, <3>2, <3>3, <3>4 DEF Carried
  <2> QED
    BY <2>1, <2>2 DEF Mirrors
<1> QED
  BY <1>1, <1>4, <1>6, <1>7 DEF TagInv, Ordered

---------------------------------------------------------------------------
LEMMA TagBoots == TagInit => TagInv
<1> SUFFICES ASSUME TagInit PROVE TagInv
  OBVIOUS
<1>1. /\ db = Nothing /\ file = Nothing /\ queued = {} /\ run = "idle" /\ sent = Nothing
      /\ line = <<>> /\ writing = {} /\ tmp = {} /\ slots \in BatchSlots /\ enabled \in BOOLEAN
      /\ unwritten = {} /\ faults = 0
  BY DEF TagInit
<1>2. Types
  <2>1. Nothing \in [Field -> 0..Torn]
    BY Bounds DEF Nothing
  <2> QED
    BY <1>1, <2>1, Bounds, TagAssumption DEF Types, Runs
<1>3. DOMAIN line = {}
  BY <1>1
<1>4. OneFlush /\ Sends /\ NewestInLine
  BY <1>1, <1>3 DEF OneFlush, Sends, NewestInLine
<1>5. Mirrors
  BY <1>1, Bounds DEF Mirrors, Alone, NewestWritten, Accounted
<1> QED
  BY <1>2, <1>4, <1>5 DEF TagInv, Ordered

(* Every step keeps the invariant, and a field leaves the queue written.     *)
LEMMA TagStep ==
  ASSUME TagInv, [TagNext]_tagVars
  PROVE  /\ TagInv'
         /\ slots = 1 =>
              \A f \in queued \ queued' : file'[f] = db'[f] \/ faults' # faults
<1> DEFINE Dropped == slots = 1 =>
             \A f \in queued \ queued' : file'[f] = db'[f] \/ faults' # faults
<1>1. faults \in 0..MaxFaults /\ enabled \in BOOLEAN
  BY DEF TagInv, Ordered, Types
<1>2. ASSUME NEW to \in {"idle", "tasks", "flush"}, Goes(to), run # "writing"
      PROVE  TagInv' /\ Dropped
  BY <1>1, <1>2, RunKeeps DEF Goes, Runs
<1>3. CASE Tick \/ RunNow \/ TasksSettle \/ FlushEnds
  BY <1>2, <1>3 DEF Tick, RunNow, TasksSettle, FlushEnds
<1>4. CASE TaskThrows
  <2>1. faults' \in 0..MaxFaults
    BY <1>1, <1>4, TagAssumption DEF TaskThrows
  <2> QED
    BY <1>1, <1>4, <2>1, RunKeeps DEF TaskThrows, Runs
<1>5. CASE Switch
  <2>1. enabled' \in BOOLEAN /\ run' = run /\ run \in Runs
    BY <1>5 DEF Switch, TagInv, Ordered, Types
  <2> QED
    BY <1>1, <1>5, <2>1, RunKeeps DEF Switch
<1>6. CASE FlushAsks
  BY <1>6, FlushAsksKeeps DEF FlushAsks
<1>7. CASE RewriteStarts
  BY <1>7, StartsKeeps DEF RewriteStarts
<1>8. CASE TagCrash
  BY <1>8, CrashKeeps DEF TagCrash
<1>9. ASSUME NEW f \in Field, Enrich(f) PROVE TagInv' /\ Dropped
  BY <1>9, EnrichKeeps DEF Enrich, Merged
<1>10. ASSUME NEW f \in Field, Edit(f) PROVE TagInv' /\ Dropped
  BY <1>10, EditKeeps DEF Edit
<1>11. ASSUME NEW w \in writing, RewriteCloses(w) PROVE TagInv' /\ Dropped
  BY <1>11, ClosesKeeps
<1>12. ASSUME NEW w \in writing, RewriteLate(w) PROVE TagInv' /\ Dropped
  BY <1>12, LateKeeps
<1>13. ASSUME NEW w \in writing, RewriteFails(w) PROVE TagInv' /\ Dropped
  <2>1. faults' = faults + 1
    BY <1>13 DEF RewriteFails
  <2>2. faults' # faults
    BY <1>1, <2>1
  <2> QED
    BY <1>13, <2>2, FailsKeeps
<1>14. CASE UNCHANGED tagVars
  BY <1>1, <1>14, RunKeeps DEF tagVars, TagInv, Ordered, Types
<1> QED
  BY <1>3, <1>4, <1>5, <1>6, <1>7, <1>8, <1>9, <1>10, <1>11, <1>12, <1>13, <1>14 DEF TagNext

(* The variables of the tag writes hold values of their types, and a flush   *)
(* awaits its rewrite exactly while one of its is queued or in progress, for *)
(* any number of slots (flushPendingTagWrites in pending-tag-writes.ts).     *)
THEOREM TagsTyped == TagSpec => []TagTypeOK
<1>1. TagInv => TagTypeOK
  BY DEF TagInv, Ordered, Types, OneFlush, InLine, TagTypeOK
<1> QED
  BY TagBoots, TagStep, <1>1, PTL DEF TagSpec

(* Where rewrites run one by one the file has the database's value, somebody *)
(* still brings it, or the rewrite that carried it is known to have failed:  *)
(* whatever edits land while a flush writes older values, and across tasks   *)
(* that throw and restarts (writeAudioTags, flushPendingTagWrites and        *)
(* mutateSongGenre).                                                         *)
THEOREM FileMirrors == TagSpec => []Mirrored
<1>1. TagInv => Mirrored
  BY DEF TagInv, Mirrors, Mirrored
<1> QED
  BY TagBoots, TagStep, <1>1, PTL DEF TagSpec

(* Where they do, a row of library_pending_tag_writes goes only once the     *)
(* file has the values the database has then, unless ffmpeg failed (the      *)
(* comparison before the delete in flushPendingTagWrites).                   *)
THEOREM QueueKept == TagSpec => KeptUntilMirrored
<1>1. TagInv /\ [TagNext]_tagVars =>
        [slots = 1 =>
           \A f \in queued \ queued' : file'[f] = db'[f] \/ faults' # faults]_tagVars
  BY TagStep
<1> QED
  BY TagBoots, TagStep, <1>1, PTL DEF TagSpec, KeptUntilMirrored
====
