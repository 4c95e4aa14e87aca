------------------------ MODULE RemotePlaybackProofs ------------------------
(***************************************************************************)
(* RemotePlayback, for any devices, sockets, tracks and queues, and any     *)
(* number of user acts and faults: its types, that no device starts to      *)
(* sound by itself, and that a client that has heard the server, and was    *)
(* heard, agrees with it.                                                   *)
(***************************************************************************)
EXTENDS RemotePlayback, PlaybackHubProofs, SequenceTheorems

\* What a page sends after its REGISTER, and what its effects send.
Talk == {f \in ClientFrame : f.type # "REGISTER"}
Effect == {f \in ClientFrame : f.type \notin {"REGISTER", "SET_ACTIVE_DEVICE"}}

\* Whose a socket is, and that it registers before it says anything else.
Owned ==
  /\ \A d, e \in Device : Online(d) /\ sock[d] = sock[e] => d = e
  /\ \A d \in Device : Online(d) /\ sock[d] \in DOMAIN conn => conn[sock[d]].device = d
  /\ \A d \in Device : Online(d) => \A i \in DOMAIN up[sock[d]] :
       up[sock[d]][i].type = "REGISTER" => up[sock[d]][i].registration.device = d
  /\ \A c \in Conn : up[c] # <<>> /\ c \notin DOMAIN conn => Head(up[c]).type = "REGISTER"
  /\ \A d \in Device : Live(d) /\ sock[d] \notin DOMAIN conn => up[sock[d]] # <<>>

\* A closed tab has no socket and makes no sound.
Silent == \A d \in off : ~Online(d) /\ ~cl[d].playing

---------------------------------------------------------------------------
(* Sequences.                                                               *)

\* What s \o t, Tail(s) and a prefix of s hold, and where.
Joins(S, s, t, st) ==
  /\ st \in Seq(S) /\ Len(s) \in Nat
  /\ \A i \in DOMAIN s : i \in DOMAIN st /\ st[i] = s[i] /\ i <= Len(s)
  /\ \A i \in DOMAIN t : /\ Len(s) + i \in DOMAIN st /\ st[Len(s) + i] = t[i]
                         /\ i \in Nat \ {0}
  /\ \A i \in DOMAIN st : i \in DOMAIN s \/ \E j \in DOMAIN t : i = Len(s) + j
  /\ s # <<>> => st # <<>> /\ Head(st) = Head(s)

Beheads(S, s, tail) ==
  /\ tail \in Seq(S) /\ 1 \in DOMAIN s /\ Head(s) = s[1] /\ Head(s) \in S
  /\ \A i \in DOMAIN tail : i \in Nat \ {0} /\ i + 1 \in DOMAIN s /\ tail[i] = s[i + 1]
  /\ \A i \in DOMAIN s : i # 1 => i - 1 \in DOMAIN tail /\ tail[i - 1] = s[i]
  /\ \A i \in DOMAIN s : i \in Nat \ {0}

Begins(S, s, r) ==
  /\ r \in Seq(S)
  /\ \A i \in DOMAIN r : i \in DOMAIN s /\ r[i] = s[i]
  /\ r # <<>> => s # <<>> /\ Head(r) = Head(s)

LEMMA Joining ==
  ASSUME NEW S, NEW s \in Seq(S), NEW t \in Seq(S)
  PROVE  Joins(S, s, t, s \o t)
<1>1. s \o t \in Seq(S) /\ Len(s) \in Nat /\ Len(t) \in Nat /\ Len(s \o t) = Len(s) + Len(t)
  OBVIOUS
<1>2. DOMAIN s = 1..Len(s) /\ DOMAIN t = 1..Len(t) /\ DOMAIN (s \o t) = 1..(Len(s) + Len(t))
  BY <1>1
<1>3. \A i \in 1..Len(s) : (s \o t)[i] = s[i]
  OBVIOUS
<1>4. ASSUME NEW i \in 1..Len(t)
      PROVE  (s \o t)[Len(s) + i] = t[i]
  BY <1>1, <1>4
<1>5. ASSUME NEW i \in 1..(Len(s) + Len(t)), i \notin 1..Len(s)
      PROVE  \E j \in 1..Len(t) : i = Len(s) + j
  <2>1. i - Len(s) \in 1..Len(t) /\ i = Len(s) + (i - Len(s))
    BY <1>1, <1>5
  <2> QED
    BY <2>1
<1>6. s # <<>> => s \o t # <<>> /\ Head(s \o t) = Head(s)
  OBVIOUS
<1>7. /\ \A i \in 1..Len(t) : Len(s) + i \in 1..(Len(s) + Len(t)) /\ i \in Nat \ {0}
      /\ \A i \in 1..Len(s) : i \in 1..(Len(s) + Len(t)) /\ i <= Len(s)
  BY <1>1
<1>8. \A i \in DOMAIN s : i \in DOMAIN (s \o t) /\ (s \o t)[i] = s[i] /\ i <= Len(s)
  BY <1>2, <1>3, <1>7
<1>9. \A i \in DOMAIN t : /\ Len(s) + i \in DOMAIN (s \o t) /\ (s \o t)[Len(s) + i] = t[i]
                          /\ i \in Nat \ {0}
  BY <1>2, <1>4, <1>7
<1>10. \A i \in DOMAIN (s \o t) : i \in DOMAIN s \/ \E j \in DOMAIN t : i = Len(s) + j
  BY <1>2, <1>5
<1> QED
  BY <1>1, <1>6, <1>8, <1>9, <1>10 DEF Joins

LEMMA Beheading ==
  ASSUME NEW S, NEW s \in Seq(S), s # <<>>
  PROVE  Beheads(S, s, Tail(s))
<1>1. Len(s) \in Nat \ {0} /\ Tail(s) \in Seq(S) /\ Len(Tail(s)) = Len(s) - 1
  OBVIOUS
<1>2. \A i \in 1..(Len(s) - 1) : Tail(s)[i] = s[i + 1]
  OBVIOUS
<1>3. DOMAIN s = 1..Len(s) /\ DOMAIN Tail(s) = 1..(Len(s) - 1)
  BY <1>1
<1>4. Head(s) = s[1] /\ s[1] \in S
  OBVIOUS
<1>5. \A i \in 1..Len(s) : i # 1 => i - 1 \in 1..(Len(s) - 1) /\ (i - 1) + 1 = i
  BY <1>1
<1>6. \A i \in 1..(Len(s) - 1) : i \in Nat \ {0} /\ i + 1 \in 1..Len(s)
  BY <1>1
<1>7. 1 \in 1..Len(s) /\ \A i \in 1..Len(s) : i \in Nat \ {0}
  BY <1>1
<1> QED
  BY <1>1, <1>2, <1>3, <1>4, <1>5, <1>6, <1>7 DEF Beheads

LEMMA Cutting ==
  ASSUME NEW S, NEW s \in Seq(S), NEW n \in 0..Len(s)
  PROVE  Begins(S, s, SubSeq(s, 1, n))
<1> DEFINE r == SubSeq(s, 1, n)
<1>1. r \in Seq(S) /\ Len(r) = n /\ Len(s) \in Nat /\ n <= Len(s) /\ n \in Nat
  OBVIOUS
<1>2. \A i \in 1..n : r[i] = s[i]
  OBVIOUS
<1>3. DOMAIN r = 1..n /\ DOMAIN s = 1..Len(s)
  BY <1>1
<1>4. \A i \in 1..n : i \in 1..Len(s)
  BY <1>1
<1>5. r # <<>> => n # 0 /\ Head(r) = r[1]
  BY <1>1
<1>6. n # 0 => 1 \in 1..n /\ s # <<>> /\ Head(s) = s[1]
  BY <1>1
<1> HIDE DEF r
<1>7. r # <<>> => s # <<>> /\ Head(r) = Head(s)
  BY <1>2, <1>5, <1>6
<1> QED
  BY <1>1, <1>2, <1>3, <1>4, <1>7 DEF r, Begins

---------------------------------------------------------------------------
(* The client.                                                              *)

IsQueueEdit(f) == f.type = "COMMAND" /\ f.action = "SET_QUEUE"
IsQueueReport(f) == f.type = "STATE_UPDATE" /\ f.about = "queue"
IsCast(f) == f.type = "SET_ACTIVE_DEVICE"

\* f brings the server what k takes for the session's queue.
Carries(f, k, d) ==
  \/ IsQueueEdit(f) /\ f.queue = k.sessQ
  \/ IsCast(f) /\ f.queue = {k.sessQ}
  \/ IsQueueReport(f) /\ f.queue = k.sessQ /\ k.view = d

\* What is local to the player, or to the page.
SameMirror(k, n) ==
  /\ n.view = k.view /\ n.roster = k.roster /\ n.rplaying = k.rplaying
  /\ n.claim = k.claim /\ n.sessQ = k.sessQ

SameVoice(k, n) == n.view = k.view /\ n.playing = k.playing

\* An effect changes what k says, and says so.
Tells(k, d, e) ==
  /\ e.k \in ClientType /\ e.sends \in Seq(Effect)
  /\ SameVoice(k, e.k) /\ e.k.roster = k.roster /\ e.k.rplaying = k.rplaying
  /\ e.k.claim # k.claim => \E i \in DOMAIN e.sends : e.sends[i].type = "CLAIM_OUTPUT"
  /\ e.k.sessQ # k.sessQ => \E i \in DOMAIN e.sends : Carries(e.sends[i], e.k, d)

LEMMA EffectFrames ==
  /\ \A q \in Queue : /\ [type |-> "STATE_UPDATE", about |-> "queue", queue |-> q] \in Effect
                      /\ [type |-> "COMMAND", action |-> "SET_QUEUE", queue |-> q] \in Effect
  /\ \A t \in Track : /\ [type |-> "STATE_UPDATE", about |-> "track", track |-> t] \in Effect
                      /\ [type |-> "COMMAND", action |-> "SET_TRACK", track |-> t] \in Effect
                      /\ \A q \in Queue :
                           [type |-> "CLAIM_OUTPUT", track |-> t, queue |-> q] \in Effect
  /\ \A p \in BOOLEAN :
       [type |-> "STATE_UPDATE", about |-> "playing", playing |-> p] \in Effect
BY DEF Effect, ClientFrame, ReportFrame, CommandFrame, ClaimFrame

LEMMA QuietTells ==
  ASSUME NEW k \in ClientType, NEW n \in ClientType, NEW d, SameMirror(k, n), SameVoice(k, n)
  PROVE  Tells(k, d, Client!Quiet(n))
<1>1. Client!Quiet(n).k = n /\ Client!Quiet(n).sends = <<>>
  BY DEF Client!Quiet
<1> QED
  BY <1>1 DEF Tells, SameMirror

LEMMA SaysTells ==
  ASSUME NEW k \in ClientType, NEW n \in ClientType, NEW d, NEW f \in Effect,
         SameVoice(k, n), n.roster = k.roster, n.rplaying = k.rplaying,
         n.claim = k.claim \/ f.type = "CLAIM_OUTPUT",
         n.sessQ = k.sessQ \/ Carries(f, n, d)
  PROVE  Tells(k, d, [k |-> n, sends |-> <<f>>])
<1> DEFINE e == [k |-> n, sends |-> <<f>>]
<1>1. e.k = n /\ e.sends \in Seq(Effect) /\ 1 \in DOMAIN e.sends /\ e.sends[1] = f
  OBVIOUS
<1> HIDE DEF e
<1> QED
  BY <1>1 DEF Tells

LEMMA ClaimTells ==
  ASSUME NEW k \in ClientType, NEW d
  PROVE  Tells(k, d, Client!ClaimOutput(k))
<1>1. CASE k.claim = k.trk
  BY <1>1, QuietTells DEF Client!ClaimOutput, SameMirror, SameVoice
<1>2. CASE k.claim # k.trk
  <2> DEFINE n == [k EXCEPT !.claim = k.trk]
             f == [type |-> "CLAIM_OUTPUT", track |-> k.trk, queue |-> k.q]
  <2>1. /\ n \in ClientType /\ SameVoice(k, n) /\ n.roster = k.roster
        /\ n.rplaying = k.rplaying /\ n.sessQ = k.sessQ
    BY DEF ClientType, SameVoice
  <2>2. f \in Effect /\ f.type = "CLAIM_OUTPUT"
    BY EffectFrames DEF ClientType
  <2>3. Client!ClaimOutput(k) = [k |-> n, sends |-> <<f>>]
    BY <1>2 DEF Client!ClaimOutput
  <2> HIDE DEF n, f
  <2> QED
    BY <2>1, <2>2, <2>3, SaysTells
<1> QED
  BY <1>1, <1>2

LEMMA QueueTells ==
  ASSUME NEW k \in ClientType, NEW d
  PROVE  Tells(k, d, Client!QueueEffect(k, d))
<1> DEFINE c == [k EXCEPT !.qMoved = FALSE]
           n == [c EXCEPT !.sessQ = c.q]
           r == [type |-> "STATE_UPDATE", about |-> "queue", queue |-> c.q]
           s == [type |-> "COMMAND", action |-> "SET_QUEUE", queue |-> c.q]
<1>1. c \in ClientType /\ SameMirror(k, c) /\ SameVoice(k, c) /\ c.q \in Queue
  BY DEF ClientType, SameMirror, SameVoice
<1>2. /\ n \in ClientType /\ SameVoice(k, n) /\ n.roster = k.roster
      /\ n.rplaying = k.rplaying /\ n.claim = k.claim /\ n.sessQ = c.q
  BY DEF ClientType, SameVoice
<1>3. r \in Effect /\ s \in Effect
  BY <1>1, EffectFrames
<1>4. c.view = d => Carries(r, n, d)
  BY <1>1, <1>2 DEF Carries, IsQueueReport, SameVoice
<1>5. Carries(s, n, d)
  BY <1>2 DEF Carries, IsQueueEdit
<1>6. Client!QueueEffect(k, d) \in
        {Client!Quiet(k), Client!Quiet(c), [k |-> n, sends |-> <<s>>]}
        \cup (IF c.view = d THEN {[k |-> n, sends |-> <<r>>]} ELSE {})
  <2>1. Client!QueueEffect(k, d) \in {Client!Quiet(k), Client!OnLocalQueueChanged(c, d)}
    BY DEF Client!QueueEffect
  <2> HIDE DEF c
  <2>2. Client!OnLocalQueueChanged(c, d) \in
          {Client!Quiet(c), [k |-> n, sends |-> <<s>>]}
          \cup (IF c.view = d THEN {[k |-> n, sends |-> <<r>>]} ELSE {})
    BY DEF Client!OnLocalQueueChanged
  <2> QED
    BY <2>1, <2>2
<1> HIDE DEF c, n, r, s
<1>7. Tells(k, d, Client!Quiet(k)) /\ Tells(k, d, Client!Quiet(c))
  BY <1>1, QuietTells DEF SameMirror, SameVoice
<1>8. Tells(k, d, [k |-> n, sends |-> <<s>>])
  BY <1>2, <1>3, <1>5, SaysTells
<1>9. c.view = d => Tells(k, d, [k |-> n, sends |-> <<r>>])
  BY <1>2, <1>3, <1>4, SaysTells
<1> QED
  BY <1>6, <1>7, <1>8, <1>9

\* Two effects in a row, when the first alone may change the queue.
LEMMA ThenTells ==
  ASSUME NEW k \in ClientType, NEW d, NEW a, Tells(k, d, a),
         NEW b, Tells(a.k, d, b), b.k.sessQ = a.k.sessQ
  PROVE  Tells(k, d, [k |-> b.k, sends |-> a.sends \o b.sends])
<1> DEFINE s == a.sends \o b.sends
<1>1. a.sends \in Seq(Effect) /\ b.sends \in Seq(Effect)
  BY DEF Tells
<1>2. /\ s \in Seq(Effect)
      /\ \A i \in DOMAIN a.sends : \E j \in DOMAIN s : s[j] = a.sends[i]
      /\ \A i \in DOMAIN b.sends : \E j \in DOMAIN s : s[j] = b.sends[i]
  <2>1. Joins(Effect, a.sends, b.sends, s)
    BY <1>1, Joining
  <2> HIDE DEF s
  <2> QED
    BY <2>1 DEF Joins
<1>3. \A f : Carries(f, a.k, d) => Carries(f, b.k, d)
  BY DEF Carries, Tells, SameVoice
<1> HIDE DEF s
<1>4. b.k.claim # k.claim => \E i \in DOMAIN s : s[i].type = "CLAIM_OUTPUT"
  BY <1>2 DEF Tells
<1>5. b.k.sessQ # k.sessQ => \E i \in DOMAIN s : Carries(s[i], b.k, d)
  BY <1>2, <1>3 DEF Tells
<1>6. /\ b.k \in ClientType /\ SameVoice(k, b.k)
      /\ b.k.roster = k.roster /\ b.k.rplaying = k.rplaying
  BY DEF Tells, SameVoice
<1>7. Tells(k, d, [k |-> b.k, sends |-> s])
  BY <1>2, <1>4, <1>5, <1>6 DEF Tells
<1> QED
  BY <1>7 DEF s

LEMMA TrackTells ==
  ASSUME NEW k \in ClientType, NEW d
  PROVE  /\ Tells(k, d, Client!TrackEffect(k, d))
         /\ Client!TrackEffect(k, d).k.sessQ = k.sessQ
<1> DEFINE c == [k EXCEPT !.prevT = k.trk]
           r == [type |-> "STATE_UPDATE", about |-> "track", track |-> c.trk]
           s == [type |-> "COMMAND", action |-> "SET_TRACK", track |-> c.trk]
<1>1. c \in ClientType /\ SameMirror(k, c) /\ SameVoice(k, c) /\ c.trk \in Track
  BY DEF ClientType, SameMirror, SameVoice
<1>2. r \in Effect /\ s \in Effect
  BY <1>1, EffectFrames
<1>3. Client!TrackEffect(k, d) \in
        {Client!Quiet(k), Client!Quiet(c), Client!ClaimOutput(c), [k |-> c, sends |-> <<r>>],
         [k |-> c, sends |-> <<s>>]}
  BY DEF Client!TrackEffect, Client!OnLocalTrackChanged
<1> HIDE DEF c, r, s
<1>4. Tells(k, d, Client!Quiet(k)) /\ Tells(k, d, Client!Quiet(c))
  BY <1>1, QuietTells DEF SameMirror, SameVoice
<1>5. Tells(k, d, [k |-> c, sends |-> <<r>>]) /\ Tells(k, d, [k |-> c, sends |-> <<s>>])
  BY <1>1, <1>2, SaysTells DEF SameMirror
<1>6. Tells(k, d, Client!ClaimOutput(c)) /\ Client!ClaimOutput(c).k.sessQ = c.sessQ
  <2>1. Tells(c, d, Client!ClaimOutput(c))
    BY <1>1, ClaimTells
  <2>2. Client!ClaimOutput(c).k.sessQ = c.sessQ
    BY <1>1 DEF Client!ClaimOutput, Client!Quiet, ClientType
  <2> QED
    BY <1>1, <2>1, <2>2 DEF Tells, SameMirror, SameVoice
<1>7. c.sessQ = k.sessQ /\ Client!Quiet(c).k = c /\ Client!Quiet(k).k = k
  BY <1>1 DEF SameMirror, Client!Quiet
<1> QED
  BY <1>3, <1>4, <1>5, <1>6, <1>7

LEMMA PlayingTells ==
  ASSUME NEW k \in ClientType, NEW d
  PROVE  /\ Tells(k, d, Client!PlayingEffect(k, d))
         /\ Client!PlayingEffect(k, d).k.sessQ = k.sessQ
<1> DEFINE c == [k EXCEPT !.prevP = k.playing]
           r == [type |-> "STATE_UPDATE", about |-> "playing", playing |-> c.playing]
<1>1. c \in ClientType /\ SameMirror(k, c) /\ SameVoice(k, c) /\ c.playing \in BOOLEAN
  BY DEF ClientType, SameMirror, SameVoice
<1>2. r \in Effect
  BY <1>1, EffectFrames
<1>3. Client!PlayingEffect(k, d) \in
        {Client!Quiet(k), Client!Quiet(c), Client!ClaimOutput(c), [k |-> c, sends |-> <<r>>]}
  BY DEF Client!PlayingEffect, Client!OnLocalPlayingChanged
<1> HIDE DEF c, r
<1>4. Tells(k, d, Client!Quiet(k)) /\ Tells(k, d, Client!Quiet(c))
  BY <1>1, QuietTells DEF SameMirror, SameVoice
<1>5. Tells(k, d, [k |-> c, sends |-> <<r>>])
  BY <1>1, <1>2, SaysTells DEF SameMirror
<1>6. Tells(k, d, Client!ClaimOutput(c)) /\ Client!ClaimOutput(c).k.sessQ = c.sessQ
  <2>1. Tells(c, d, Client!ClaimOutput(c))
    BY <1>1, ClaimTells
  <2>2. Client!ClaimOutput(c).k.sessQ = c.sessQ
    BY <1>1 DEF Client!ClaimOutput, Client!Quiet, ClientType
  <2> QED
    BY <1>1, <2>1, <2>2 DEF Tells, SameMirror, SameVoice
<1>7. c.sessQ = k.sessQ /\ Client!Quiet(c).k = c /\ Client!Quiet(k).k = k
  BY <1>1 DEF SameMirror, Client!Quiet
<1> QED
  BY <1>3, <1>4, <1>5, <1>6, <1>7

LEMMA FlushTells ==
  ASSUME NEW k \in ClientType, NEW d
  PROVE  Tells(k, d, Client!Flush(k, d))
<1> DEFINE a == Client!QueueEffect(k, d)
           b == Client!TrackEffect(a.k, d)
           c == Client!PlayingEffect(b.k, d)
           ab == [k |-> b.k, sends |-> a.sends \o b.sends]
<1>1. Tells(k, d, a) /\ a.k \in ClientType
  BY QueueTells DEF Tells
<1>2. Tells(a.k, d, b) /\ b.k \in ClientType /\ b.k.sessQ = a.k.sessQ
  BY <1>1, TrackTells DEF Tells
<1>3. Tells(b.k, d, c) /\ c.k.sessQ = b.k.sessQ
  BY <1>2, PlayingTells
<1>4. Client!Flush(k, d) = [k |-> c.k, sends |-> a.sends \o b.sends \o c.sends]
  BY DEF Client!Flush
<1> HIDE DEF a, b, c
<1>5. Tells(k, d, ab)
  BY <1>1, <1>2, ThenTells
<1>6. ab.k = b.k /\ ab.sends = a.sends \o b.sends
  OBVIOUS
<1> HIDE DEF ab
<1>7. Tells(k, d, [k |-> c.k, sends |-> ab.sends \o c.sends])
  BY <1>3, <1>5, <1>6, ThenTells
<1> QED
  BY <1>4, <1>6, <1>7

---------------------------------------------------------------------------
(* What a client makes of a frame of the server's.                          *)

IsSync(f) == f.type = "STATE_SYNC"
IsRoster(f) == f.type = "DEVICES_SYNC" \/ (IsSync(f) /\ f.devices # {})
RosterIn(f) == IF f.type = "DEVICES_SYNC" THEN f.devices ELSE CHOOSE r \in f.devices : TRUE

\* A frame sets what k mirrors, and nothing else.
Hears(k, f, n) ==
  /\ n.view = IF IsSync(f) THEN f.state.active ELSE k.view
  /\ n.claim = IF IsSync(f) THEN NoTrack ELSE k.claim
  /\ n.rplaying = IF IsSync(f) THEN f.state.playing
                  ELSE IF f.type = "PROGRESS" THEN TRUE ELSE k.rplaying
  /\ n.sessQ = IF IsSync(f) THEN f.state.queue ELSE n.sessQ
  /\ ~IsSync(f) => n.sessQ = k.sessQ \/ (IsQueueEdit(f) /\ n.sessQ = f.queue)
  /\ n.roster = IF IsRoster(f) THEN RosterIn(f) ELSE k.roster

\* k sounds, if its page is open.
Plays(k, d) == k.playing /\ k.view \in {NoDevice, d}
Obeys(k, d, n) == Plays(n, d) /\ ~Plays(k, d) => n.view = d

LEMMA ServerKinds ==
  ASSUME NEW f \in ServerFrame
  PROVE  /\ f.type \in {"STATE_SYNC", "DEVICES_SYNC", "PROGRESS", "COMMAND"}
         /\ IsSync(f) => f.state \in StateType /\ f.devices \in SUBSET RosterType
         /\ f.type = "DEVICES_SYNC" => f.devices \in RosterType
         /\ f.type = "COMMAND" => f \in CommandFrame
         /\ IsRoster(f) => RosterIn(f) \in RosterType
<1>1. /\ f.type \in {"STATE_SYNC", "DEVICES_SYNC", "PROGRESS", "COMMAND"}
      /\ f.type = "STATE_SYNC" => f.state \in StateType /\ f.devices \in SUBSET RosterType
      /\ f.type = "DEVICES_SYNC" => f.devices \in RosterType
      /\ f.type = "COMMAND" => f \in CommandFrame
  BY DEF ServerFrame, CommandFrame
<1>2. IsRoster(f) => RosterIn(f) \in RosterType
  BY <1>1 DEF IsRoster, RosterIn, IsSync
<1> QED
  BY <1>1, <1>2 DEF IsSync

LEMMA PlayerMoves ==
  ASSUME NEW k \in ClientType, NEW plays \in BOOLEAN, NEW moved \in BOOLEAN
  PROVE  [k EXCEPT !.playing = plays, !.qMoved = moved] \in ClientType
  BY DEF ClientType

LEMMA SyncHandled ==
  ASSUME NEW k \in ClientType, NEW d \in Device, NEW f \in ServerFrame, IsSync(f)
  PROVE  LET n == Client!ReduceStateSync(k, d, f)
         IN  n \in ClientType /\ Hears(k, f, n) /\ Obeys(k, d, n)
<1> DEFINE s == f.state
           moved == s.track \notin {NoTrack, k.trk}
           catchesUp == f.devices # {} /\ s.active = d /\ k.enabled /\ moved
           shows == s.active \notin {NoDevice, d} /\ moved
           adopts == /\ \/ s.active = d /\ (f.devices # {} \/ k.view # d)
                        \/ s.active \notin {NoDevice, d}
                     /\ s.queue # k.q
           roster == IF f.devices = {} THEN k.roster ELSE CHOOSE r \in f.devices : TRUE
           plays == IF catchesUp THEN s.playing
                    ELSE k.playing /\ ~Client!Stops(k, d, s.active)
           trk == IF catchesUp \/ shows THEN s.track ELSE k.trk
           lastT == IF catchesUp \/ shows THEN s.track ELSE k.lastT
           q == IF adopts THEN s.queue ELSE k.q
           qMoved == k.qMoved \/ adopts
           n == Client!ReduceStateSync(k, d, f)
<1>1. s.active \in Device \cup {NoDevice} /\ s.playing \in BOOLEAN
      /\ s.track \in Track \cup {NoTrack} /\ s.queue \in Queue
  BY ServerKinds DEF StateType
<1>2. n = [k EXCEPT !.view = s.active, !.rplaying = s.playing, !.sessQ = s.queue,
                    !.claim = NoTrack, !.roster = roster, !.playing = plays, !.trk = trk,
                    !.lastT = lastT, !.q = q, !.qMoved = qMoved]
  BY DEF Client!ReduceStateSync, ClientType
<1>3. /\ roster \in RosterType /\ plays \in BOOLEAN /\ trk \in Track
      /\ lastT \in Track \cup {NoTrack} /\ q \in Queue /\ qMoved \in BOOLEAN
  <2>1. roster \in RosterType
    BY ServerKinds DEF IsSync, ClientType
  <2>2. plays \in BOOLEAN /\ qMoved \in BOOLEAN
    BY <1>1 DEF ClientType
  <2>3. trk \in Track /\ lastT \in Track \cup {NoTrack} /\ q \in Queue
    BY <1>1 DEF ClientType
  <2> QED
    BY <2>1, <2>2, <2>3
<1>4. plays /\ s.active \in {NoDevice, d} => s.active = d \/ Plays(k, d)
  BY DEF Client!Stops, Client!IsAudioOutput, Plays
<1>5. IsRoster(f) => roster = RosterIn(f)
  BY DEF IsRoster, RosterIn, IsSync
<1>6. ~IsRoster(f) => roster = k.roster
  BY DEF IsRoster
<1> DEFINE a == [k EXCEPT !.view = s.active, !.rplaying = s.playing, !.sessQ = s.queue,
                         !.claim = NoTrack, !.roster = roster]
<1> HIDE DEF s, moved, roster, plays, trk, lastT, q, qMoved, n
<1>10. /\ a \in ClientType /\ a.view = s.active /\ a.rplaying = s.playing
       /\ a.sessQ = s.queue /\ a.claim = NoTrack /\ a.roster = roster
  BY <1>1, <1>3 DEF ClientType
<1>11. n = [a EXCEPT !.playing = plays, !.trk = trk, !.lastT = lastT, !.q = q,
                     !.qMoved = qMoved]
  BY <1>2
<1> HIDE DEF a
<1>7. /\ n \in ClientType /\ n.view = s.active /\ n.rplaying = s.playing /\ n.sessQ = s.queue
      /\ n.claim = NoTrack /\ n.roster = roster /\ n.playing = plays
  <2>1. n \in ClientType
    <3> DEFINE b == [a EXCEPT !.playing = plays, !.qMoved = qMoved]
    <3>1. b \in ClientType
      BY <1>3, <1>10, PlayerMoves
    <3>2. n = [b EXCEPT !.trk = trk, !.lastT = lastT, !.q = q]
      BY <1>11
    <3> HIDE DEF b
    <3> QED
      BY <1>3, <3>1, <3>2 DEF ClientType
  <2>2. n.playing = plays
    BY <1>3, <1>10, <1>11 DEF ClientType
  <2>3. /\ n.view = a.view /\ n.rplaying = a.rplaying /\ n.sessQ = a.sessQ
        /\ n.claim = a.claim /\ n.roster = a.roster
    BY <1>11, <1>10 DEF ClientType
  <2> QED
    BY <1>10, <2>1, <2>2, <2>3
<1>8. Hears(k, f, n)
  BY <1>5, <1>6, <1>7 DEF Hears, s
<1>9. Obeys(k, d, n)
  BY <1>4, <1>7 DEF Obeys, Plays
<1> QED
  BY <1>7, <1>8, <1>9 DEF n

LEMMA PlaysNext ==
  ASSUME NEW k \in ClientType, NEW n \in Client!PlayNext(k)
  PROVE  n \in ClientType /\ SameMirror(k, n)
<1>1. CASE n = [k EXCEPT !.playing = FALSE]
  BY <1>1 DEF ClientType, SameMirror
<1>2. CASE \E t \in Track, q \in Queue : n = Client!GoOn(k, t, q)
  BY <1>2 DEF ClientType, SameMirror, Client!GoOn
<1>3. n = [k EXCEPT !.playing = FALSE] \/
      \E t \in Track, q \in Queue : n = Client!GoOn(k, t, q)
  BY DEF Client!PlayNext
<1> QED
  BY <1>1, <1>2, <1>3

LEMMA CommandHandled ==
  ASSUME NEW k \in ClientType, NEW d \in Device, NEW f \in CommandFrame,
         NEW n \in Client!ReduceCommand(k, d, f)
  PROVE  n \in ClientType /\ Hears(k, f, n) /\ Obeys(k, d, n)
<1>1. /\ f.type = "COMMAND"
      /\ f.action \in {"PLAY", "PAUSE", "SEEK", "NEXT", "SET_TRACK", "SET_QUEUE"}
      /\ f.action = "SET_TRACK" => f.track \in Track
      /\ f.action = "SET_QUEUE" => f.queue \in Queue
  BY DEF CommandFrame
<1> SUFFICES /\ n \in ClientType /\ n.view = k.view /\ n.claim = k.claim
             /\ n.rplaying = k.rplaying /\ n.roster = k.roster
             /\ n.sessQ = k.sessQ \/ (IsQueueEdit(f) /\ n.sessQ = f.queue)
             /\ n = k \/ k.view = d
  BY <1>1 DEF Hears, Obeys, Plays, IsSync, IsRoster
<1>2. CASE k.view # d \/ ~k.enabled
  BY <1>2 DEF Client!ReduceCommand
<1>3. CASE k.view = d /\ k.enabled
  <2>1. CASE f.action \in {"PLAY", "PAUSE", "SEEK"}
    <3>1. n \in {k, [k EXCEPT !.playing = TRUE], [k EXCEPT !.playing = FALSE]}
      BY <1>3, <2>1 DEF Client!ReduceCommand
    <3> QED
      BY <1>3, <3>1 DEF ClientType
  <2>2. CASE f.action = "SET_TRACK"
    <3>1. n = [k EXCEPT !.lastT = f.track, !.trk = f.track, !.playing = TRUE]
      BY <1>3, <2>2 DEF Client!ReduceCommand
    <3> QED
      BY <1>1, <1>3, <2>2, <3>1 DEF ClientType
  <2>3. CASE f.action = "NEXT"
    BY <1>3, <2>3, PlaysNext DEF Client!ReduceCommand, SameMirror
  <2>4. CASE f.action = "SET_QUEUE"
    <3>1. n = [k EXCEPT !.sessQ = f.queue, !.q = f.queue, !.qMoved = TRUE]
      BY <1>3, <2>4 DEF Client!ReduceCommand
    <3> QED
      BY <1>1, <1>3, <2>4, <3>1 DEF ClientType, IsQueueEdit
  <2> QED
    BY <1>1, <2>1, <2>2, <2>3, <2>4
<1> QED
  BY <1>2, <1>3

LEMMA FrameHandled ==
  ASSUME NEW k \in ClientType, NEW d \in Device, NEW f \in ServerFrame,
         NEW n \in Client!HandleFrame(k, d, f)
  PROVE  n \in ClientType /\ Hears(k, f, n) /\ Obeys(k, d, n)
<1>1. CASE f.type = "STATE_SYNC"
  <2>1. n = Client!ReduceStateSync(k, d, f)
    BY <1>1 DEF Client!HandleFrame
  <2> QED
    BY <1>1, <2>1, SyncHandled DEF IsSync
<1>2. CASE f.type = "DEVICES_SYNC"
  <2>1. n = [k EXCEPT !.roster = f.devices]
    BY <1>2 DEF Client!HandleFrame
  <2>2. f.devices \in RosterType
    BY <1>2, ServerKinds
  <2> QED
    BY <1>2, <2>1, <2>2 DEF ClientType, Hears, Obeys, Plays, IsSync, IsRoster, RosterIn
<1>3. CASE f.type = "COMMAND"
  <2>1. n \in Client!ReduceCommand(k, d, f)
    BY <1>3 DEF Client!HandleFrame
  <2> QED
    BY <1>3, <2>1, CommandHandled, ServerKinds
<1>4. CASE f.type = "PROGRESS"
  <2>1. n = [k EXCEPT !.rplaying = TRUE]
    BY <1>4 DEF Client!HandleFrame
  <2> QED
    BY <1>4, <2>1 DEF ClientType, Hears, Obeys, Plays, IsSync, IsRoster
<1> QED
  BY <1>1, <1>2, <1>3, <1>4, ServerKinds

\* A cast changes who k takes for the output, and what for its queue, and says both.
LEMMA CastFacts ==
  ASSUME NEW k \in ClientType, NEW d \in Device, NEW t \in Device, t # k.view
  PROVE  LET e == Client!CastTo(k, d, t)
         IN  /\ e.k \in ClientType /\ e.sends \in Seq(Talk)
             /\ e.k.roster = k.roster /\ e.k.rplaying = k.rplaying /\ e.k.claim = k.claim
             /\ \/ SameMirror(k, e.k) /\ e.sends = <<>>
                \/ /\ e.sends # <<>> /\ IsCast(e.sends[1])
                   /\ \A i \in DOMAIN e.sends : i # 1 => ~IsCast(e.sends[i])
                   /\ (e.k.sessQ = k.sessQ /\ k.view # d) \/ Carries(e.sends[1], e.k, d)
<1> DEFINE e == Client!CastTo(k, d, t)
           n == [k EXCEPT !.view = d, !.playing = k.rplaying]
           m == [k EXCEPT !.view = t, !.sessQ = k.q, !.playing = FALSE]
           f == [type |-> "SET_ACTIVE_DEVICE", id |-> d, queue |-> {}]
           g == [type |-> "SET_ACTIVE_DEVICE", id |-> t, queue |-> {k.q}]
           h == [type |-> "COMMAND", action |-> "SET_TRACK", track |-> k.trk]
<1>1. k.q \in Queue /\ k.trk \in Track
  BY DEF ClientType
<1>2. f \in Talk /\ g \in Talk /\ h \in Talk
  BY <1>1 DEF Talk, ClientFrame, CastFrame, CommandFrame
<1>3. CASE ~Client!TargetIsCastable(k, t)
  <2>1. e.k = k /\ e.sends = <<>>
    BY <1>3 DEF Client!CastTo, Client!Quiet
  <2> QED
    BY <2>1 DEF SameMirror
<1>4. CASE Client!TargetIsCastable(k, t) /\ t = d
  <2>1. e.k = n /\ e.sends = <<f>>
    BY <1>4 DEF Client!CastTo
  <2>2. n \in ClientType /\ n.roster = k.roster /\ n.rplaying = k.rplaying
        /\ n.claim = k.claim /\ n.sessQ = k.sessQ
    BY DEF ClientType
  <2>3. <<f>> \in Seq(Talk) /\ <<f>> # <<>> /\ <<f>>[1] = f /\ DOMAIN <<f>> = {1}
    BY <1>2
  <2> HIDE DEF e, n
  <2> QED
    BY <1>4, <2>1, <2>2, <2>3 DEF IsCast, e
<1>5. CASE Client!TargetIsCastable(k, t) /\ t # d
  <2>1. e.k = m /\ e.sends = <<g, h>>
    BY <1>5 DEF Client!CastTo
  <2>2. m \in ClientType /\ m.roster = k.roster /\ m.rplaying = k.rplaying
        /\ m.claim = k.claim /\ m.sessQ = k.q
    BY <1>1 DEF ClientType
  <2>3. <<g, h>> \in Seq(Talk) /\ <<g, h>> # <<>> /\ <<g, h>>[1] = g /\ <<g, h>>[2] = h
        /\ DOMAIN <<g, h>> = {1, 2}
    BY <1>2
  <2>4. Carries(g, m, d)
    BY <2>2 DEF Carries, IsCast
  <2> HIDE DEF e, m
  <2> QED
    BY <1>5, <2>1, <2>2, <2>3, <2>4 DEF IsCast, e
<1> QED
  BY <1>3, <1>4, <1>5

---------------------------------------------------------------------------
(* What the page and the wires do to the types, and to whose a socket is.   *)

UpTypes ==
  /\ up \in [Conn -> Seq(ClientFrame)]
  /\ \A c \in Conn : \A i \in DOMAIN up[c] :
       up[c][i].type = "REGISTER" => (i = 1 /\ c \notin DOMAIN conn)

PageTypes ==
  /\ cl \in [Device -> ClientType]
  /\ sock \in [Device -> Conn \cup {NoConn}]
  /\ off \subseteq Device /\ refused \subseteq Device
  /\ events \in 0..MaxEvents

\* The types and ownership of the links.
Linked == UpTypes /\ Owned

LEMMA LinksKept ==
  ASSUME Linked, UNCHANGED <<conn, dead, sock, up>>
  PROVE  Linked'
  BY DEF Linked, UpTypes, Owned, Online, Live

LEMMA TalkIsFrame == Seq(Talk) \subseteq Seq(ClientFrame) /\ Seq(Effect) \subseteq Seq(Talk)
<1>1. Talk \subseteq ClientFrame /\ Effect \subseteq Talk
  BY DEF Talk, Effect
<1>2. ASSUME NEW S, NEW T, S \subseteq T, NEW s \in Seq(S)
      PROVE  s \in Seq(T)
  <2>1. Len(s) \in Nat /\ DOMAIN s = 1..Len(s) /\ \A i \in 1..Len(s) : s[i] \in S
    OBVIOUS
  <2>2. s = [i \in 1..Len(s) |-> s[i]]
    OBVIOUS
  <2> QED
    BY <1>2, <2>1, <2>2
<1> QED
  BY <1>1, <1>2

LEMMA PostLinks ==
  ASSUME Linked, PageTypes, NEW d \in Device, NEW frames \in Seq(Talk), Post(d, frames),
         UNCHANGED <<conn, dead, sock>>
  PROVE  Linked'
<1>1. CASE ~Live(d)
  BY <1>1, LinksKept DEF Post
<1>2. CASE Live(d)
  <2> DEFINE c == sock[d]
             s == up[c]
             st == s \o frames
  <2>1. c \in Conn /\ c # NoConn
    BY <1>2 DEF PageTypes, Live, Online
  <2>2. s \in Seq(ClientFrame) /\ frames \in Seq(ClientFrame)
    BY <2>1, TalkIsFrame DEF Linked, UpTypes
  <2>3. \A i \in DOMAIN frames : frames[i].type # "REGISTER"
    <3>1. \A i \in DOMAIN frames : frames[i] \in Talk
      OBVIOUS
    <3> QED
      BY <3>1 DEF Talk
  <2>4. Joins(ClientFrame, s, frames, st)
    BY <2>2, Joining
  <2>5. up' = [up EXCEPT ![c] = st]
    BY <1>2 DEF Post
  <2>6. c \notin DOMAIN conn => s # <<>>
    BY <1>2 DEF Linked, Owned
  <2> HIDE DEF st, s
  <2>7. up'[c] = st /\ \A x \in Conn \ {c} : up'[x] = up[x]
    BY <2>1, <2>5 DEF Linked, UpTypes
  <2>8. \A i \in DOMAIN st : st[i].type = "REGISTER" => i \in DOMAIN s /\ st[i] = s[i]
    BY <2>3, <2>4 DEF Joins
  <2>9. up[c] = s
    BY DEF s
  <2> HIDE DEF c
  <2>10. UpTypes'
    <3>1. up' \in [Conn -> Seq(ClientFrame)]
      BY <2>1, <2>4, <2>5 DEF Linked, UpTypes, Joins
    <3>2. \A x \in Conn : \A i \in DOMAIN up'[x] :
            up'[x][i].type = "REGISTER" => (i = 1 /\ x \notin DOMAIN conn)
      BY <2>1, <2>7, <2>8, <2>9 DEF Linked, UpTypes
    <3> QED
      BY <3>1, <3>2 DEF UpTypes
  <2>11. \A e \in Device : Online(e) => \A i \in DOMAIN up'[sock[e]] :
           up'[sock[e]][i].type = "REGISTER" => up'[sock[e]][i].registration.device = e
    <3> SUFFICES ASSUME NEW e \in Device, Online(e), NEW i \in DOMAIN up'[sock[e]],
                        up'[sock[e]][i].type = "REGISTER"
                 PROVE  up'[sock[e]][i].registration.device = e
      OBVIOUS
    <3>1. sock[e] \in Conn
      BY DEF PageTypes, Online
    <3> QED
      BY <2>7, <2>8, <2>9, <3>1 DEF Linked, Owned
  <2>12. \A x \in Conn : up'[x] # <<>> /\ x \notin DOMAIN conn
                           => Head(up'[x]).type = "REGISTER"
    <3>1. s # <<>> => st # <<>> /\ Head(st) = Head(s)
      BY <2>4 DEF Joins
    <3>2. \A x \in Conn : up[x] # <<>> /\ x \notin DOMAIN conn
                          => Head(up[x]).type = "REGISTER"
      BY DEF Linked, Owned
    <3> QED
      BY <2>1, <2>6, <2>7, <2>9, <3>1, <3>2
  <2>13. \A e \in Device : Live(e) /\ sock[e] \notin DOMAIN conn => up'[sock[e]] # <<>>
    BY <2>4, <2>6, <2>7, <2>9 DEF Linked, Owned, Joins, PageTypes, Live, Online
  <2>14. Owned'
    BY <2>11, <2>12, <2>13 DEF Linked, Owned, Online, Live
  <2> QED
    BY <2>10, <2>14 DEF Linked
<1> QED
  BY <1>1, <1>2

\* The link of d breaks, whether d gives it up or not.
LEMMA BreakLinks ==
  ASSUME Linked, PageTypes, Wires, NEW d \in Device, Live(d), Break(sock[d]),
         NEW more \in Seq(Talk), NEW n \in 0..Len(up[sock[d]] \o more),
         up' = [up EXCEPT ![sock[d]] = SubSeq(up[sock[d]] \o more, 1, n)],
         sock' \in {sock, [sock EXCEPT ![d] = NoConn]}
  PROVE  Linked'
<1> DEFINE c == sock[d]
           s == up[c]
           st == s \o more
           r == SubSeq(st, 1, n)
<1>1. c \in Conn /\ c # NoConn
  BY DEF PageTypes, Live, Online
<1>2. s \in Seq(ClientFrame) /\ more \in Seq(ClientFrame)
  BY <1>1, TalkIsFrame DEF Linked, UpTypes
<1>3. \A i \in DOMAIN more : more[i].type # "REGISTER"
  <2>1. \A i \in DOMAIN more : more[i] \in Talk
    OBVIOUS
  <2> QED
    BY <2>1 DEF Talk
<1>4. Joins(ClientFrame, s, more, st)
  BY <1>2, Joining
<1>5. Begins(ClientFrame, st, r)
  <2>1. st \in Seq(ClientFrame)
    BY <1>2
  <2> HIDE DEF st
  <2>2. n \in 0..Len(st)
    BY DEF st
  <2> QED
    BY <2>1, <2>2, Cutting
<1>6. c \notin DOMAIN conn => s # <<>>
  BY DEF Linked, Owned
<1>7. conn' = conn /\ dead' = dead \cup {c}
  BY DEF Break
<1>8. up' = [up EXCEPT ![c] = r]
  OBVIOUS
<1> HIDE DEF r, st, s
<1>9. up'[c] = r /\ \A x \in Conn \ {c} : up'[x] = up[x]
  BY <1>1, <1>8 DEF Linked, UpTypes
<1>10. \A i \in DOMAIN r : r[i].type = "REGISTER" => i \in DOMAIN s /\ r[i] = s[i]
  BY <1>3, <1>4, <1>5 DEF Joins, Begins
<1>11. up[c] = s
  BY DEF s
<1>12. \A e \in Device : sock'[e] \in {sock[e], NoConn}
  BY DEF PageTypes
<1> HIDE DEF c
<1>13. UpTypes'
  <2>1. up' \in [Conn -> Seq(ClientFrame)]
    BY <1>1, <1>5, <1>8 DEF Linked, UpTypes, Begins
  <2>2. \A x \in Conn : \A i \in DOMAIN up'[x] :
          up'[x][i].type = "REGISTER" => (i = 1 /\ x \notin DOMAIN conn)
    <3>1. \A x \in Conn : \A i \in DOMAIN up[x] :
            up[x][i].type = "REGISTER" => (i = 1 /\ x \notin DOMAIN conn)
      BY DEF Linked, UpTypes
    <3>2. \A i \in DOMAIN r : r[i].type = "REGISTER" => (i = 1 /\ c \notin DOMAIN conn)
      BY <1>1, <1>10, <1>11, <3>1
    <3> QED
      BY <1>9, <3>1, <3>2
  <2> QED
    BY <1>7, <2>1, <2>2 DEF UpTypes
<1>14. \A e \in Device : sock'[e] # NoConn => \A i \in DOMAIN up'[sock'[e]] :
         up'[sock'[e]][i].type = "REGISTER" => up'[sock'[e]][i].registration.device = e
  <2> SUFFICES ASSUME NEW e \in Device, sock'[e] # NoConn, NEW i \in DOMAIN up'[sock'[e]],
                      up'[sock'[e]][i].type = "REGISTER"
               PROVE  up'[sock'[e]][i].registration.device = e
    OBVIOUS
  <2>1. sock'[e] = sock[e] /\ sock[e] \in Conn
    BY <1>12 DEF PageTypes
  <2>2. \A x \in DOMAIN up[sock[e]] : up[sock[e]][x].type = "REGISTER"
                                       => up[sock[e]][x].registration.device = e
    BY <2>1 DEF Linked, Owned, Online
  <2>3. CASE sock[e] = c
    BY <1>9, <1>10, <1>11, <2>1, <2>2, <2>3
  <2>4. CASE sock[e] # c
    <3>1. up'[sock'[e]] = up[sock[e]]
      BY <1>9, <2>1, <2>4
    <3> QED
      BY <2>2, <3>1
  <2> QED
    BY <2>3, <2>4
<1>15. \A x \in Conn : up'[x] # <<>> /\ x \notin DOMAIN conn
                         => Head(up'[x]).type = "REGISTER"
  <2>1. r # <<>> => st # <<>> /\ Head(r) = Head(st)
    BY <1>5 DEF Begins
  <2>2. s # <<>> => st # <<>> /\ Head(st) = Head(s)
    BY <1>4 DEF Joins
  <2>3. \A x \in Conn : up[x] # <<>> /\ x \notin DOMAIN conn
                        => Head(up[x]).type = "REGISTER"
    BY DEF Linked, Owned
  <2> QED
    BY <1>1, <1>6, <1>9, <1>11, <2>1, <2>2, <2>3
<1>16. \A e \in Device : sock'[e] # NoConn /\ sock'[e] \notin dead' /\ sock'[e] \notin DOMAIN conn
         => up'[sock'[e]] # <<>>
  BY <1>1, <1>7, <1>9, <1>12 DEF Linked, Owned, PageTypes, Live, Online
<1>17. \A e, g \in Device : sock'[e] # NoConn /\ sock'[e] = sock'[g] => e = g
  BY <1>12 DEF Linked, Owned, Online
<1>18. \A e \in Device : sock'[e] # NoConn /\ sock'[e] \in DOMAIN conn
         => conn[sock'[e]].device = e
  BY <1>12 DEF Linked, Owned, Online
<1>19. Owned'
  BY <1>7, <1>14, <1>15, <1>16, <1>17, <1>18 DEF Owned, Online, Live
<1> QED
  BY <1>13, <1>19 DEF Linked

\* The server reads the next frame of c.
LEMMA ReadLinks ==
  ASSUME Linked, PageTypes, Wires, NEW c \in Conn, ServerReads(c)
  PROVE  Linked' /\ c \in DOMAIN conn' /\ DOMAIN conn' = DOMAIN conn \cup {c}
<1> DEFINE s == up[c]
           r == Tail(s)
           f == Head(s)
<1>1. s \in Seq(ClientFrame) /\ s # <<>>
  BY DEF Linked, UpTypes, ServerReads
<1>2. Beheads(ClientFrame, s, r)
  BY <1>1, Beheading
<1>3. f \in ClientFrame /\ OnMessage(c, f) /\ up' = [up EXCEPT ![c] = r] /\ sock' = sock
  BY <1>2 DEF ServerReads, Beheads
<1>4. up[c] = s /\ f = s[1] /\ 1 \in DOMAIN s
  BY <1>2 DEF Beheads
<1> HIDE DEF r, f, s
<1>5. up'[c] = r /\ \A x \in Conn \ {c} : up'[x] = up[x]
  BY <1>3 DEF Linked, UpTypes
<1>6. \A i \in DOMAIN r : r[i].type # "REGISTER"
  <2> SUFFICES ASSUME NEW i \in DOMAIN r, r[i].type = "REGISTER" PROVE FALSE
    OBVIOUS
  <2>1. i \in Nat \ {0} /\ i + 1 \in DOMAIN s /\ r[i] = s[i + 1]
    BY <1>2 DEF Beheads
  <2>2. i + 1 = 1
    BY <1>4, <2>1 DEF Linked, UpTypes
  <2> QED
    BY <2>1, <2>2
<1>7. /\ dead' = dead /\ c \in DOMAIN conn' /\ DOMAIN conn' = DOMAIN conn \cup {c}
      /\ \A x \in DOMAIN conn \ {c} : conn'[x] = conn[x]
      /\ \/ c \in DOMAIN conn /\ conn'[c] = conn[c]
         \/ f.type = "REGISTER" /\ conn'[c] = f.registration
  <2>1. CASE f.type = "REGISTER"
    <3>1. OnRegister(c, f)
      BY <1>3, <2>1 DEF OnMessage, OnHeartbeat, OnStateUpdate, OnCommand, OnProgress,
                        OnSetActiveDevice, OnClaimOutput, OnReleaseOutput, OnUpdateDevice
    <3>2. dead' = dead
          /\ conn' = [x \in DOMAIN conn \cup {c} |-> IF x = c THEN f.registration ELSE conn[x]]
      BY <3>1 DEF OnRegister
    <3> QED
      BY <2>1, <3>2
  <2>2. CASE f.type # "REGISTER"
    <3>1. dead' = dead /\ conn' = conn
      BY <1>3, <2>2 DEF OnMessage, OnRegister, OnHeartbeat, OnStateUpdate, OnCommand,
                        OnProgress, OnSetActiveDevice, OnClaimOutput, OnReleaseOutput,
                        OnUpdateDevice, Broadcast, Serve
    <3>2. c \in DOMAIN conn
      <4>1. Head(s).type # "REGISTER"
        BY <2>2 DEF f
      <4>2. \A x \in Conn : up[x] # <<>> /\ x \notin DOMAIN conn
                            => Head(up[x]).type = "REGISTER"
        BY DEF Linked, Owned
      <4> QED
        BY <1>1, <1>4, <4>1, <4>2
    <3> QED
      BY <3>1, <3>2
  <2> QED
    BY <2>1, <2>2
<1>8. UpTypes'
  <2>1. up' \in [Conn -> Seq(ClientFrame)]
    BY <1>2, <1>3 DEF Linked, UpTypes, Beheads
  <2>2. \A x \in Conn : \A i \in DOMAIN up[x] :
          up[x][i].type = "REGISTER" => (i = 1 /\ x \notin DOMAIN conn)
    BY DEF Linked, UpTypes
  <2>3. \A x \in Conn : \A i \in DOMAIN up'[x] :
          up'[x][i].type = "REGISTER" => (i = 1 /\ x \notin DOMAIN conn')
    <3> SUFFICES ASSUME NEW x \in Conn, NEW i \in DOMAIN up'[x], up'[x][i].type = "REGISTER"
                 PROVE  i = 1 /\ x \notin DOMAIN conn'
      OBVIOUS
    <3>1. x # c /\ up'[x] = up[x]
      BY <1>5, <1>6
    <3> QED
      BY <1>7, <2>2, <3>1
  <2> QED
    BY <2>1, <2>3 DEF UpTypes
<1>9. \A e \in Device : Online(e) => \A i \in DOMAIN up'[sock[e]] :
        up'[sock[e]][i].type = "REGISTER" => up'[sock[e]][i].registration.device = e
  <2> SUFFICES ASSUME NEW e \in Device, Online(e), NEW i \in DOMAIN up'[sock[e]],
                      up'[sock[e]][i].type = "REGISTER"
               PROVE  up'[sock[e]][i].registration.device = e
    OBVIOUS
  <2>1. sock[e] # c /\ sock[e] \in Conn
    BY <1>5, <1>6 DEF PageTypes, Online
  <2>2. up'[sock[e]] = up[sock[e]]
    BY <1>5, <2>1
  <2> QED
    BY <2>2 DEF Linked, Owned
<1>10. \A x \in Conn : up'[x] # <<>> /\ x \notin DOMAIN conn' => Head(up'[x]).type = "REGISTER"
  <2>1. \A x \in Conn : up[x] # <<>> /\ x \notin DOMAIN conn => Head(up[x]).type = "REGISTER"
    BY DEF Linked, Owned
  <2> QED
    BY <1>5, <1>7, <2>1
<1>11. \A e \in Device : Live(e) /\ sock[e] \notin DOMAIN conn' => up'[sock[e]] # <<>>
  <2>1. \A e \in Device : Live(e) /\ sock[e] \notin DOMAIN conn => up[sock[e]] # <<>>
    BY DEF Linked, Owned
  <2>2. \A e \in Device : Live(e) => sock[e] \in Conn
    BY DEF PageTypes, Live, Online
  <2> QED
    BY <1>5, <1>7, <2>1, <2>2
<1>12. \A e \in Device : Online(e) /\ sock[e] \in DOMAIN conn' => conn'[sock[e]].device = e
  <2> SUFFICES ASSUME NEW e \in Device, Online(e), sock[e] \in DOMAIN conn'
               PROVE  conn'[sock[e]].device = e
    OBVIOUS
  <2>1. CASE sock[e] = c /\ f.type = "REGISTER" /\ conn'[c] = f.registration
    BY <1>4, <2>1 DEF Linked, Owned
  <2>2. CASE sock[e] \in DOMAIN conn /\ conn'[sock[e]] = conn[sock[e]]
    BY <2>2 DEF Linked, Owned
  <2>3. CASE sock[e] # c
    BY <1>7, <2>2, <2>3
  <2>4. CASE sock[e] = c
    BY <1>7, <2>1, <2>2, <2>4
  <2> QED
    BY <2>3, <2>4
<1>13. Owned'
  <2>1. \A e, g \in Device : Online(e) /\ sock[e] = sock[g] => e = g
    BY DEF Linked, Owned
  <2> QED
    BY <1>3, <1>7, <1>9, <1>10, <1>11, <1>12, <2>1 DEF Owned, Online, Live
<1> QED
  BY <1>7, <1>8, <1>13 DEF Linked

LEMMA CloseLinks ==
  ASSUME Linked, PageTypes, Wires, NEW c \in Conn, ServerNotices(c)
  PROVE  Linked'
<1>1. /\ c \in dead /\ up[c] = <<>> /\ dead' = dead /\ up' = up /\ sock' = sock
      /\ conn' = [x \in DOMAIN conn \ {c} |-> conn[x]]
  BY DEF ServerNotices, OnClose, clientVars, Restrict
<1>2. DOMAIN conn' = DOMAIN conn \ {c} /\ \A x \in DOMAIN conn' : conn'[x] = conn[x]
  BY <1>1
<1>3. UpTypes'
  BY <1>1, <1>2 DEF Linked, UpTypes
<1>4. \A x \in Conn : up[x] # <<>> /\ x \notin DOMAIN conn' => Head(up[x]).type = "REGISTER"
  BY <1>1, <1>2 DEF Linked, Owned
<1>5. \A e \in Device : Live(e) /\ sock[e] \notin DOMAIN conn' => up[sock[e]] # <<>>
  BY <1>1, <1>2 DEF Linked, Owned, Live
<1>6. \A e \in Device : Online(e) /\ sock[e] \in DOMAIN conn' => conn'[sock[e]].device = e
  BY <1>2 DEF Linked, Owned
<1>7. Owned'
  BY <1>1, <1>4, <1>5, <1>6 DEF Linked, Owned, Online, Live
<1> QED
  BY <1>3, <1>7 DEF Linked

LEMMA OfflineLinks ==
  ASSUME Linked, PageTypes, NEW d \in Device, sock' = [sock EXCEPT ![d] = NoConn],
         UNCHANGED <<conn, dead, up>>
  PROVE  Linked'
<1>1. \A e \in Device : sock'[e] \in {sock[e], NoConn}
  BY DEF PageTypes
<1>2. UpTypes'
  BY DEF Linked, UpTypes
<1>3. Owned'
  BY <1>1 DEF Linked, Owned, Online, Live
<1> QED
  BY <1>2, <1>3 DEF Linked

\* A free socket: nobody's, unknown to the server, and nothing under way on it.
LEMMA ConnectLinks ==
  ASSUME Linked, PageTypes, NEW d \in Device, Connect(d)
  PROVE  Linked' /\ \E c \in Conn : sock' = [sock EXCEPT ![d] = c] /\ c \notin DOMAIN conn
<1>1. PICK c \in Conn :
        /\ Idle(c) /\ OnOpen(c) /\ sock' = [sock EXCEPT ![d] = c]
        /\ up' = [up EXCEPT ![c] =
             <<[type |-> "REGISTER",
                registration |-> [device |-> d, enabled |-> cl[d].enabled,
                                  activated |-> cl[d].activated]]>>]
  BY DEF Connect
<1> DEFINE r == [device |-> d, enabled |-> cl[d].enabled, activated |-> cl[d].activated]
           f == [type |-> "REGISTER", registration |-> r]
           s == <<f>>
<1>2. r \in Registration /\ r.device = d
  BY DEF Registration, PageTypes, ClientType
<1>3. f \in ClientFrame /\ f.type = "REGISTER" /\ f.registration = r
  BY <1>2 DEF ClientFrame, RegisterFrame
<1>4. up' = [up EXCEPT ![c] = s]
  BY <1>1
<1> HIDE DEF f
<1>5. s \in Seq(ClientFrame) /\ DOMAIN s = {1} /\ s[1] = f /\ Head(s) = f /\ s # <<>>
  BY <1>3
<1> HIDE DEF r, s
<1>6. c \notin DOMAIN conn /\ conn' = conn /\ dead' = dead \ {c} /\ \A e \in Device : sock[e] # c
  BY <1>1 DEF Idle, OnOpen
<1>7. up'[c] = s /\ \A x \in Conn \ {c} : up'[x] = up[x]
  BY <1>4 DEF Linked, UpTypes
<1>8. sock'[d] = c /\ (\A e \in Device \ {d} : sock'[e] = sock[e]) /\ c # NoConn
  BY <1>1, RemoteAssumption DEF PageTypes
<1>9. UpTypes'
  <2>1. up' \in [Conn -> Seq(ClientFrame)]
    BY <1>4, <1>5 DEF Linked, UpTypes
  <2>2. \A x \in Conn : \A i \in DOMAIN up'[x] :
          up'[x][i].type = "REGISTER" => (i = 1 /\ x \notin DOMAIN conn)
    BY <1>5, <1>6, <1>7 DEF Linked, UpTypes
  <2> QED
    BY <1>6, <2>1, <2>2 DEF UpTypes
<1>10. \A e \in Device : sock'[e] # NoConn => \A i \in DOMAIN up'[sock'[e]] :
         up'[sock'[e]][i].type = "REGISTER" => up'[sock'[e]][i].registration.device = e
  <2> SUFFICES ASSUME NEW e \in Device, sock'[e] # NoConn
               PROVE  \A i \in DOMAIN up'[sock'[e]] : up'[sock'[e]][i].type = "REGISTER"
                         => up'[sock'[e]][i].registration.device = e
    OBVIOUS
  <2>1. CASE e = d
    BY <1>2, <1>3, <1>5, <1>7, <1>8, <2>1
  <2>2. CASE e # d
    <3>1. sock'[e] = sock[e] /\ sock[e] \in Conn \ {c}
      BY <1>6, <1>8, <2>2 DEF PageTypes
    <3>2. up'[sock'[e]] = up[sock[e]]
      BY <1>7, <3>1
    <3> QED
      BY <3>1, <3>2 DEF Linked, Owned, Online
  <2> QED
    BY <2>1, <2>2
<1>11. \A x \in Conn : up'[x] # <<>> /\ x \notin DOMAIN conn => Head(up'[x]).type = "REGISTER"
  <2>1. \A x \in Conn : up[x] # <<>> /\ x \notin DOMAIN conn => Head(up[x]).type = "REGISTER"
    BY DEF Linked, Owned
  <2> QED
    BY <1>3, <1>5, <1>7, <2>1
<1>12. \A e \in Device : sock'[e] # NoConn /\ sock'[e] \notin dead'
                           /\ sock'[e] \notin DOMAIN conn => up'[sock'[e]] # <<>>
  BY <1>5, <1>6, <1>7, <1>8 DEF Linked, Owned, Live, Online, PageTypes
<1>13. \A e \in Device : sock'[e] # NoConn /\ sock'[e] \in DOMAIN conn
                           => conn[sock'[e]].device = e
  BY <1>6, <1>8 DEF Linked, Owned, Online
<1>14. \A e, g \in Device : sock'[e] # NoConn /\ sock'[e] = sock'[g] => e = g
  BY <1>6, <1>8 DEF Linked, Owned, Online
<1>15. Owned'
  BY <1>6, <1>10, <1>11, <1>12, <1>13, <1>14 DEF Owned, Online, Live
<1> QED
  BY <1>1, <1>6, <1>9, <1>15 DEF Linked

---------------------------------------------------------------------------
(* Steps of the system.                                                     *)

\* The inductive invariant of the types.
RemoteInv == HubInv /\ Linked /\ PageTypes /\ Silent

LEMMA EventCounts ==
  ASSUME PageTypes, NEW kind, Event(kind)
  PROVE  events' \in 0..MaxEvents /\ events' # events
  BY RemoteAssumption DEF PageTypes, Event

LEMMA BecomePage ==
  ASSUME PageTypes, NEW d \in Device, NEW k \in ClientType, Become(d, k)
  PROVE  cl' \in [Device -> ClientType] /\ cl'[d] = k /\ \A e \in Device \ {d} : cl'[e] = cl[e]
  BY DEF PageTypes, Become

LEMMA TouchLocal ==
  ASSUME NEW k \in ClientType, NEW t \in Track, NEW q \in Queue, NEW moved \in BOOLEAN,
         NEW on \in BOOLEAN
  PROVE  /\ [k EXCEPT !.playing = on] \in ClientType
         /\ [k EXCEPT !.playing = on].playing = on
         /\ SameMirror(k, [k EXCEPT !.playing = on])
         /\ [k EXCEPT !.trk = t, !.playing = TRUE, !.q = q, !.qMoved = moved] \in ClientType
         /\ SameMirror(k, [k EXCEPT !.trk = t, !.playing = TRUE, !.q = q, !.qMoved = moved])
         /\ [k EXCEPT !.q = q, !.qMoved = TRUE] \in ClientType
         /\ SameMirror(k, [k EXCEPT !.q = q, !.qMoved = TRUE])
         /\ [k EXCEPT !.enabled = on] \in ClientType
         /\ SameMirror(k, [k EXCEPT !.enabled = on])
         /\ [k EXCEPT !.enabled = on].playing = k.playing
         /\ [k EXCEPT !.activated = on] \in ClientType
         /\ SameMirror(k, [k EXCEPT !.activated = on])
         /\ [k EXCEPT !.activated = on].playing = k.playing
  BY DEF ClientType, SameMirror

\* A user's act that touches the player alone.
UserActs(d) == Resume(d) \/ Pause(d) \/ Pick(d) \/ EditQueue(d) \/ Advance(d)

Acts(d, k) ==
  /\ Touched(d) /\ Become(d, k) /\ SameMirror(cl[d], k) /\ k \in ClientType
  /\ events' \in 0..MaxEvents /\ events' # events
  /\ UNCHANGED <<hubVars, sock, up, off, refused>>

LEMMA LocalActs ==
  ASSUME PageTypes, NEW kind, NEW d \in Device, NEW k \in ClientType, SameMirror(cl[d], k),
         LocalAct(kind, d, k)
  PROVE  \E n : Acts(d, n)
<1>1. Acts(d, k)
  BY EventCounts DEF LocalAct, Acts
<1> QED
  BY <1>1

LEMMA ActFacts ==
  ASSUME PageTypes, NEW d \in Device, UserActs(d)
  PROVE  \E k : Acts(d, k)
<1> DEFINE k == cl[d]
<1>1. /\ k \in ClientType /\ k.qMoved \in BOOLEAN /\ k.q \in Queue /\ k.trk \in Track
      /\ TRUE \in BOOLEAN /\ FALSE \in BOOLEAN
  BY DEF PageTypes, ClientType
<1>2. CASE Resume(d)
  <2> DEFINE n == [k EXCEPT !.playing = TRUE]
  <2>1. LocalAct("play", d, n)
    BY <1>2 DEF Resume
  <2>2. n \in ClientType /\ SameMirror(k, n)
    BY <1>1, TouchLocal
  <2> HIDE DEF n
  <2> QED
    BY <2>1, <2>2, LocalActs
<1>3. CASE Pause(d)
  <2> DEFINE n == [k EXCEPT !.playing = FALSE]
  <2>1. LocalAct("pause", d, n)
    BY <1>3 DEF Pause
  <2>2. n \in ClientType /\ SameMirror(k, n)
    BY <1>1, TouchLocal
  <2> HIDE DEF n
  <2> QED
    BY <2>1, <2>2, LocalActs
<1>4. CASE Pick(d)
  <2>1. PICK t \in Track \ {k.trk}, q \in Queue :
          LocalAct("pick", d, [k EXCEPT !.trk = t, !.playing = TRUE, !.q = q,
                                        !.qMoved = @ \/ q # k.q])
    BY <1>4 DEF Pick
  <2> DEFINE moved == k.qMoved \/ q # k.q
             n == [k EXCEPT !.trk = t, !.playing = TRUE, !.q = q, !.qMoved = moved]
  <2>2. moved \in BOOLEAN
    BY <1>1
  <2>3. LocalAct("pick", d, n)
    BY <2>1
  <2> HIDE DEF moved
  <2>4. n \in ClientType /\ SameMirror(k, n)
    BY <1>1, <2>2, TouchLocal
  <2> HIDE DEF n
  <2> QED
    BY <2>3, <2>4, LocalActs
<1>5. CASE EditQueue(d)
  <2>1. PICK q \in Queue : LocalAct("edit", d, [k EXCEPT !.q = q, !.qMoved = TRUE])
    BY <1>5 DEF EditQueue
  <2> DEFINE n == [k EXCEPT !.q = q, !.qMoved = TRUE]
  <2>2. n \in ClientType /\ SameMirror(k, n)
    BY <1>1, TouchLocal
  <2>3. LocalAct("edit", d, n)
    BY <2>1
  <2> HIDE DEF n
  <2> QED
    BY <2>2, <2>3, LocalActs
<1>6. CASE Advance(d)
  <2>1. PICK n \in Client!PlayNext(k) : LocalAct("advance", d, n)
    BY <1>6 DEF Advance
  <2>2. n \in ClientType /\ SameMirror(k, n)
    BY <1>1, PlaysNext
  <2> QED
    BY <2>1, <2>2, LocalActs
<1> QED
  BY <1>2, <1>3, <1>4, <1>5, <1>6 DEF UserActs

\* d's device starts to sound in this step only as the output.
Quietly ==
  \A d \in Device : Sounds(d)' /\ ~Sounds(d) /\ events' = events => cl'[d].view = d

PageStep == PageTypes' /\ Silent' /\ Quietly

LEMMA PageKept ==
  ASSUME PageTypes, Silent, UNCHANGED <<cl, sock, off>>, refused' \subseteq Device,
         events' \in 0..MaxEvents
  PROVE  PageStep
<1>1. \A d \in Device : Sounds(d)' <=> Sounds(d)
  BY DEF Sounds
<1> QED
  BY <1>1 DEF PageStep, PageTypes, Silent, Quietly, Online

LEMMA PageBecomes ==
  ASSUME PageTypes, Silent, NEW d \in Device, NEW k \in ClientType, Become(d, k), d \notin off,
         UNCHANGED <<sock, off>>, refused' \subseteq Device, events' \in 0..MaxEvents,
         events' # events \/ Obeys(cl[d], d, k)
  PROVE  PageStep
<1>1. cl' \in [Device -> ClientType] /\ cl'[d] = k /\ \A e \in Device \ {d} : cl'[e] = cl[e]
  BY BecomePage
<1>2. PageTypes' /\ Silent'
  BY <1>1 DEF PageTypes, Silent, Online
<1>3. ASSUME NEW e \in Device, Sounds(e)', ~Sounds(e), events' = events
      PROVE  cl'[e].view = e
  <2>1. e = d
    BY <1>1, <1>3 DEF Sounds
  <2>2. Plays(k, d) /\ ~Plays(cl[d], d)
    BY <1>1, <1>3, <2>1 DEF Sounds, Plays, Client!IsAudioOutput
  <2> QED
    BY <1>1, <1>3, <2>1, <2>2 DEF Obeys
<1> QED
  BY <1>2, <1>3 DEF PageStep, Quietly

LEMMA VoiceObeys ==
  ASSUME NEW k, NEW n, NEW d, SameVoice(k, n)
  PROVE  Obeys(k, d, n)
  BY DEF SameVoice, Obeys, Plays

LEMMA SenderOf ==
  ASSUME Linked, NEW c \in Conn, up[c] # <<>>, Head(up[c]).type # "REGISTER"
  PROVE  c \in DOMAIN conn
  BY DEF Linked, Owned

\* The client's end of the steps.
RemoteStep == Linked' /\ PageStep

LEMMA ServerReadsStep ==
  ASSUME RemoteInv, NEW c \in Conn, ServerReads(c)
  PROVE  RemoteStep
<1>1. Linked'
  BY ReadLinks DEF RemoteInv, HubInv
<1>2. refused' \subseteq Device
  <2>1. CASE Head(up[c]).type = "SET_ACTIVE_DEVICE"
    <3>1. c \in DOMAIN conn
      BY <2>1, SenderOf DEF ServerReads, RemoteInv
    <3>2. Sender(c) \in Device
      BY <3>1 DEF Sender, RemoteInv, HubInv, Wires, Registration
    <3> QED
      BY <3>2 DEF ServerReads, RemoteInv, PageTypes
  <2>2. CASE Head(up[c]).type # "SET_ACTIVE_DEVICE"
    BY <2>2 DEF ServerReads, RemoteInv, PageTypes
  <2> QED
    BY <2>1, <2>2
<1>3. UNCHANGED <<cl, sock, off, events>>
  BY DEF ServerReads
<1>4. PageStep
  BY <1>2, <1>3, PageKept DEF RemoteInv, PageTypes
<1> QED
  BY <1>1, <1>4 DEF RemoteStep

LEMMA ClientReadsStep ==
  ASSUME RemoteInv, NEW d \in Device, ClientReads(d)
  PROVE  RemoteStep
<1> DEFINE f == Head(down[sock[d]])
<1>1. Live(d) /\ down[sock[d]] # <<>> /\ sock[d] \in Conn /\ d \notin off
  BY DEF ClientReads, RemoteInv, PageTypes, Live, Online, Silent
<1>2. f \in ServerFrame
  <2>1. down[sock[d]] \in Seq(ServerFrame)
    BY <1>1 DEF RemoteInv, HubInv, Wires
  <2> QED
    BY <1>1, <2>1
<1>3. PICK k \in Client!HandleFrame(cl[d], d, f) : Become(d, k)
  BY DEF ClientReads
<1>4. UNCHANGED <<conn, dead, sock, up, off, events>> /\ refused' \subseteq Device
  BY DEF ClientReads, Taken, RemoteInv, PageTypes
<1> HIDE DEF f
<1>5. k \in ClientType /\ Obeys(cl[d], d, k)
  BY <1>2, <1>3, FrameHandled DEF RemoteInv, PageTypes
<1>6. PageStep
  BY <1>1, <1>3, <1>4, <1>5, PageBecomes DEF RemoteInv, PageTypes
<1>7. Linked'
  BY <1>4, LinksKept DEF RemoteInv
<1> QED
  BY <1>6, <1>7 DEF RemoteStep

\* The page of d changes and posts.
LEMMA SaysStep ==
  ASSUME RemoteInv, NEW d \in Device, d \notin off, NEW k \in ClientType, Become(d, k),
         NEW frames \in Seq(Talk), Post(d, frames),
         events' # events \/ Obeys(cl[d], d, k), events' \in 0..MaxEvents,
         UNCHANGED <<conn, dead, sock, off, refused>>
  PROVE  RemoteStep
<1>1. Linked'
  BY PostLinks DEF RemoteInv
<1>2. PageStep
  BY PageBecomes DEF RemoteInv, PageTypes
<1> QED
  BY <1>1, <1>2 DEF RemoteStep

LEMMA EffectsRunStep ==
  ASSUME RemoteInv, NEW d \in Device, EffectsRun(d)
  PROVE  RemoteStep
<1> DEFINE e == Client!Flush(cl[d], d)
<1>1. cl[d] \in ClientType /\ events \in 0..MaxEvents
  BY DEF RemoteInv, PageTypes
<1>2. Tells(cl[d], d, e)
  BY <1>1, FlushTells
<1>3. Become(d, e.k) /\ Post(d, e.sends) /\ UNCHANGED <<conn, dead, sock, off, refused, events>>
  BY DEF EffectsRun, hubVars
<1> HIDE DEF e
<1>4. e.k \in ClientType /\ e.sends \in Seq(Talk) /\ Obeys(cl[d], d, e.k)
  BY <1>2, TalkIsFrame, VoiceObeys DEF Tells
<1>5. CASE d \notin off
  BY <1>1, <1>3, <1>4, <1>5, SaysStep
<1>6. CASE d \in off
  <2>1. ~Live(d) /\ ~cl[d].playing /\ e.k.playing = cl[d].playing
    BY <1>2, <1>6 DEF RemoteInv, Silent, Live, Tells, SameVoice
  <2>2. UNCHANGED up
    BY <1>3, <2>1 DEF Post
  <2>3. Linked'
    BY <1>3, <2>2, LinksKept DEF RemoteInv
  <2>4. cl' \in [Device -> ClientType] /\ cl'[d] = e.k /\ \A x \in Device \ {d} : cl'[x] = cl[x]
    BY <1>3, <1>4, BecomePage DEF RemoteInv
  <2>5. PageTypes' /\ Silent'
    BY <1>3, <2>1, <2>4 DEF RemoteInv, PageTypes, Silent, Online
  <2>6. Quietly
    BY <1>3, <1>6, <2>4 DEF Quietly, Sounds
  <2> QED
    BY <2>3, <2>5, <2>6 DEF RemoteStep, PageStep
<1> QED
  BY <1>5, <1>6

LEMMA BeatsStep ==
  ASSUME RemoteInv, NEW d \in Device, Beat(d) \/ Progress(d)
  PROVE  RemoteStep
<1>1. \E f \in Talk : Post(d, <<f>>)
  <2>1. [type |-> "HEARTBEAT"] \in Talk /\ [type |-> "PROGRESS_REPORT"] \in Talk
    BY DEF Talk, ClientFrame, BeatFrame, ProgressFrame
  <2> QED
    BY <2>1 DEF Beat, Progress
<1>2. PICK f \in Talk : Post(d, <<f>>)
  BY <1>1
<1>3. <<f>> \in Seq(Talk)
  OBVIOUS
<1>4. UNCHANGED <<conn, dead, sock, cl, off, events, refused>>
  BY DEF Beat, Progress, hubVars
<1>5. Linked'
  BY <1>2, <1>3, <1>4, PostLinks DEF RemoteInv
<1>6. PageStep
  BY <1>4, PageKept DEF RemoteInv, PageTypes
<1> QED
  BY <1>5, <1>6 DEF RemoteStep

LEMMA UserActsStep ==
  ASSUME RemoteInv, NEW d \in Device, UserActs(d)
  PROVE  RemoteStep
<1>1. PICK k : Acts(d, k)
  BY ActFacts DEF RemoteInv
<1>2. Linked'
  BY <1>1, LinksKept DEF RemoteInv, Acts, hubVars
<1>3. PageStep
  BY <1>1, PageBecomes DEF RemoteInv, PageTypes, Acts, Touched
<1> QED
  BY <1>2, <1>3 DEF RemoteStep

LEMMA ControlStep ==
  ASSUME RemoteInv, NEW d \in Device, Control(d)
  PROVE  RemoteStep
<1>1. PICK a \in {"PAUSE", "PLAY", "NEXT", "SEEK"} :
        Post(d, <<[type |-> "COMMAND", action |-> a]>>)
  BY DEF Control
<1> DEFINE f == [type |-> "COMMAND", action |-> a]
<1>2. f \in Talk
  BY DEF Talk, ClientFrame, CommandFrame
<1>3. Post(d, <<f>>)
  BY <1>1
<1> HIDE DEF f
<1>4. <<f>> \in Seq(Talk)
  BY <1>2
<1>5. UNCHANGED <<conn, dead, sock, cl, off, refused>> /\ events' \in 0..MaxEvents
  BY EventCounts DEF Control, hubVars, RemoteInv
<1>6. Linked'
  BY <1>3, <1>4, <1>5, PostLinks DEF RemoteInv
<1>7. PageStep
  BY <1>5, PageKept DEF RemoteInv, PageTypes
<1> QED
  BY <1>6, <1>7 DEF RemoteStep

LEMMA CastStepRemote ==
  ASSUME RemoteInv, NEW d \in Device, Cast(d)
  PROVE  RemoteStep
<1>1. PICK t \in ({d} \cup cl[d].roster.available) \ {cl[d].view} :
        LET done == Client!CastTo(cl[d], d, t)
        IN  Become(d, done.k) /\ Post(d, done.sends)
  BY DEF Cast
<1> DEFINE e == Client!CastTo(cl[d], d, t)
<1>2. cl[d] \in ClientType /\ t \in Device /\ t # cl[d].view
  BY <1>1 DEF RemoteInv, PageTypes, ClientType, RosterType
<1>3. e.k \in ClientType /\ e.sends \in Seq(Talk)
  BY <1>2, CastFacts
<1>4. Become(d, e.k) /\ Post(d, e.sends)
  BY <1>1
<1> HIDE DEF e
<1>5. /\ UNCHANGED <<conn, dead, sock, off, refused>> /\ events' \in 0..MaxEvents
      /\ events' # events /\ d \notin off
  BY EventCounts DEF Cast, hubVars, RemoteInv, Touched
<1> QED
  BY <1>3, <1>4, <1>5, SaysStep

LEMMA FlagsStep ==
  ASSUME RemoteInv, NEW d \in Device, SetOutputAvailable(d) \/ MarkActivated(d)
  PROVE  RemoteStep
<1>1. cl[d] \in ClientType /\ cl[d].enabled \in BOOLEAN
  BY DEF RemoteInv, PageTypes, ClientType
<1>2. \A field \in {"remoteEnabled", "activated"}, flag \in BOOLEAN :
        <<[type |-> "UPDATE_DEVICE", field |-> field, flag |-> flag]>> \in Seq(Talk)
  <2>1. \A field \in {"remoteEnabled", "activated"}, flag \in BOOLEAN :
          [type |-> "UPDATE_DEVICE", field |-> field, flag |-> flag] \in Talk
    BY DEF Talk, ClientFrame, UpdateFrame
  <2> QED
    BY <2>1
<1>3. CASE SetOutputAvailable(d)
  <2> DEFINE on == ~cl[d].enabled
             n == [cl[d] EXCEPT !.enabled = on]
             fs == <<[type |-> "UPDATE_DEVICE", field |-> "remoteEnabled", flag |-> on]>>
  <2>1. Become(d, n) /\ Post(d, fs)
    BY <1>3 DEF SetOutputAvailable
  <2>2. on \in BOOLEAN
    OBVIOUS
  <2> HIDE DEF on
  <2>3. n \in ClientType /\ fs \in Seq(Talk)
    BY <1>1, <1>2, <2>2 DEF ClientType
  <2> HIDE DEF n, fs
  <2>4. /\ UNCHANGED <<conn, dead, sock, off, refused>> /\ events' \in 0..MaxEvents
        /\ events' # events /\ d \notin off
    BY <1>3, EventCounts DEF SetOutputAvailable, hubVars, RemoteInv, Touched
  <2> QED
    BY <2>1, <2>3, <2>4, SaysStep
<1>4. CASE MarkActivated(d)
  <2> DEFINE n == [cl[d] EXCEPT !.activated = TRUE]
             fs == <<[type |-> "UPDATE_DEVICE", field |-> "activated", flag |-> TRUE]>>
  <2>1. Become(d, n) /\ Post(d, fs)
    BY <1>4 DEF MarkActivated
  <2>2. n \in ClientType /\ fs \in Seq(Talk) /\ SameVoice(cl[d], n)
    BY <1>1, <1>2 DEF ClientType, SameVoice
  <2> HIDE DEF n, fs
  <2>3. /\ UNCHANGED <<conn, dead, sock, off, refused, events>> /\ events \in 0..MaxEvents
        /\ d \notin off
    BY <1>4 DEF MarkActivated, hubVars, RemoteInv, PageTypes
  <2>4. Obeys(cl[d], d, n)
    BY <2>2, VoiceObeys
  <2> QED
    BY <2>1, <2>2, <2>3, <2>4, SaysStep
<1> QED
  BY <1>3, <1>4

LEMMA FreshPage ==
  ASSUME NEW k \in ClientType
  PROVE  LET n == Client!FreshClient(k.trk, k.q, k.enabled)
         IN  n \in ClientType /\ ~n.playing
  BY DEF ClientType, Client!FreshClient, Client!NoRoster, RosterType

LEMMA LeaveStep ==
  ASSUME RemoteInv, NEW d \in Device, Leave(d)
  PROVE  RemoteStep
<1> DEFINE n == Client!FreshClient(cl[d].trk, cl[d].q, cl[d].enabled)
<1>1. n \in ClientType /\ ~n.playing /\ Become(d, n)
  BY FreshPage DEF RemoteInv, PageTypes, Leave
<1> HIDE DEF n
<1>2. /\ off' = off \cup {d} /\ sock' = [sock EXCEPT ![d] = NoConn]
      /\ refused' = refused \ {d} /\ events' \in 0..MaxEvents /\ events' # events
  BY EventCounts DEF Leave, RemoteInv
<1>3. cl' \in [Device -> ClientType] /\ cl'[d] = n /\ \A x \in Device \ {d} : cl'[x] = cl[x]
  BY <1>1, BecomePage DEF RemoteInv
<1>4. PageStep
  <2>1. PageTypes'
    BY <1>2, <1>3 DEF RemoteInv, PageTypes
  <2>2. Silent'
    BY <1>1, <1>2, <1>3 DEF RemoteInv, PageTypes, Silent, Online
  <2>3. Quietly
    BY <1>2 DEF Quietly
  <2> QED
    BY <2>1, <2>2, <2>3 DEF PageStep
<1>5. CASE Live(d)
  <2> DEFINE more == IF cl[d].view = d THEN <<[type |-> "RELEASE_OUTPUT"]>> ELSE <<>>
  <2>1. more \in Seq(Talk)
    <3>1. [type |-> "RELEASE_OUTPUT"] \in Talk
      BY DEF Talk, ClientFrame, ReleaseFrame
    <3> QED
      BY <3>1
  <2>2. /\ Break(sock[d])
        /\ \E i \in 0..Len(up[sock[d]] \o more) :
             up' = [up EXCEPT ![sock[d]] = SubSeq(up[sock[d]] \o more, 1, i)]
    BY <1>5 DEF Leave
  <2> HIDE DEF more
  <2>3. PICK i \in 0..Len(up[sock[d]] \o more) :
             up' = [up EXCEPT ![sock[d]] = SubSeq(up[sock[d]] \o more, 1, i)]
    BY <2>2
  <2>4. Linked'
    BY <1>2, <1>5, <2>1, <2>2, <2>3, BreakLinks DEF RemoteInv, HubInv
  <2> QED
    BY <1>4, <2>4 DEF RemoteStep
<1>6. CASE ~Live(d)
  <2>1. UNCHANGED <<conn, dead, up>>
    BY <1>6 DEF Leave, hubVars
  <2>2. Linked'
    BY <1>2, <2>1, OfflineLinks DEF RemoteInv
  <2> QED
    BY <1>4, <2>2 DEF RemoteStep
<1> QED
  BY <1>5, <1>6

LEMMA BootStep ==
  ASSUME RemoteInv, NEW d \in Device, Boot(d)
  PROVE  RemoteStep
<1>1. off' = off \ {d} /\ d \in off /\ UNCHANGED <<conn, dead, cl, sock, up, events, refused>>
  BY DEF Boot, hubVars
<1>2. Linked'
  BY <1>1, LinksKept DEF RemoteInv
<1>3. PageTypes' /\ Silent'
  BY <1>1 DEF RemoteInv, PageTypes, Silent, Online
<1>4. Quietly
  BY <1>1 DEF RemoteInv, Silent, Quietly, Sounds
<1> QED
  BY <1>2, <1>3, <1>4 DEF RemoteStep, PageStep

LEMMA CutStep ==
  ASSUME RemoteInv, NEW d \in Device, Cut(d)
  PROVE  RemoteStep
<1>1. /\ Live(d) /\ Break(sock[d]) /\ UNCHANGED <<cl, sock, off, refused>>
      /\ events' \in 0..MaxEvents
  BY EventCounts DEF Cut, RemoteInv
<1>2. PICK n \in 0..Len(up[sock[d]]) :
        up' = [up EXCEPT ![sock[d]] = SubSeq(up[sock[d]], 1, n)]
  BY DEF Cut
<1>3. up[sock[d]] \in Seq(ClientFrame)
  BY <1>1 DEF RemoteInv, Linked, UpTypes, PageTypes, Live, Online
<1>4. up[sock[d]] \o <<>> = up[sock[d]] /\ <<>> \in Seq(Talk)
  BY <1>3
<1>5. Linked'
  BY <1>1, <1>2, <1>4, BreakLinks DEF RemoteInv, HubInv
<1>6. PageStep
  BY <1>1, PageKept DEF RemoteInv, PageTypes
<1> QED
  BY <1>5, <1>6 DEF RemoteStep

LEMMA NoticesStep ==
  ASSUME RemoteInv, NEW d \in Device, NEW c \in Conn, ClientNotices(d) \/ ServerNotices(c)
  PROVE  RemoteStep
<1>1. CASE ClientNotices(d)
  <2>1. /\ sock' = [sock EXCEPT ![d] = NoConn]
        /\ UNCHANGED <<conn, dead, cl, up, off, events, refused>>
    BY <1>1 DEF ClientNotices, hubVars
  <2>2. Linked'
    BY <2>1, OfflineLinks DEF RemoteInv
  <2>3. PageTypes' /\ Silent'
    BY <2>1 DEF RemoteInv, PageTypes, Silent, Online
  <2>4. Quietly
    BY <2>1 DEF Quietly, Sounds
  <2> QED
    BY <2>2, <2>3, <2>4 DEF RemoteStep, PageStep
<1>2. CASE ServerNotices(c)
  <2>1. Linked'
    BY <1>2, CloseLinks DEF RemoteInv, HubInv
  <2>2. UNCHANGED <<cl, sock, off, events, refused>>
    BY <1>2 DEF ServerNotices, clientVars
  <2>3. PageStep
    BY <2>2, PageKept DEF RemoteInv, PageTypes
  <2> QED
    BY <2>1, <2>3 DEF RemoteStep
<1> QED
  BY <1>1, <1>2

LEMMA ConnectStep ==
  ASSUME RemoteInv, NEW d \in Device, Connect(d)
  PROVE  RemoteStep
<1>1. PICK c \in Conn : sock' = [sock EXCEPT ![d] = c]
  BY ConnectLinks DEF RemoteInv
<1>2. Linked'
  BY ConnectLinks DEF RemoteInv
<1>3. d \notin off /\ UNCHANGED <<cl, off, events, refused>>
  BY DEF Connect
<1>4. PageTypes' /\ Silent'
  BY <1>1, <1>3 DEF RemoteInv, PageTypes, Silent, Online
<1>5. Quietly
  BY <1>3 DEF Quietly, Sounds
<1> QED
  BY <1>2, <1>4, <1>5 DEF RemoteStep, PageStep

LEMMA ClocksStep ==
  ASSUME RemoteInv,
         \/ \E d \in Device : GoesSilent(d) \/ GraceRunsOut(d)
         \/ SweepRuns \/ GoesIdle \/ ResetRoute
  PROVE  RemoteStep
<1>1. /\ UNCHANGED <<conn, dead, cl, sock, up, off, refused>>
      /\ events' \in 0..MaxEvents
  <2>1. events \in 0..MaxEvents
    BY DEF RemoteInv, PageTypes
  <2> QED
    BY <2>1, EventCounts DEF RemoteInv, GoesSilent, GraceRunsOut, SweepRuns, GoesIdle, ResetRoute,
        Silence, Expire, Sweep, IdleElapses, ResetSession, Broadcast, Serve, clientVars
<1>2. Linked'
  BY <1>1, LinksKept DEF RemoteInv
<1>3. PageStep
  BY <1>1, PageKept DEF RemoteInv, PageTypes
<1> QED
  BY <1>2, <1>3 DEF RemoteStep

---------------------------------------------------------------------------
(* The specification.                                                       *)

\* Whatever the clients do is a step of the hub, or none.
LEMMA NextIsHub ==
  ASSUME RemoteInv, Next
  PROVE  HubNext \/ UNCHANGED hubVars
<1>1. ASSUME NEW d \in Device, DeviceStep(d)
      PROVE  HubNext \/ UNCHANGED hubVars
  <2>1. CASE ClientReads(d)
    <3>1. sock[d] \in Conn /\ Taken(sock[d])
      BY <2>1 DEF ClientReads, Live, Online, RemoteInv, PageTypes
    <3> QED
      BY <3>1 DEF HubNext
  <2>2. CASE Leave(d) \/ Cut(d)
    <3>1. UNCHANGED hubVars \/ (sock[d] \in Conn /\ Break(sock[d]))
      BY <2>2 DEF Leave, Cut, Live, Online, RemoteInv, PageTypes
    <3> QED
      BY <3>1 DEF HubNext
  <2>3. CASE Connect(d)
    BY <2>3 DEF Connect, HubNext
  <2>4. CASE GoesSilent(d) \/ GraceRunsOut(d)
    BY <2>4 DEF GoesSilent, GraceRunsOut, HubNext
  <2>5. CASE \/ EffectsRun(d) \/ Beat(d) \/ Progress(d) \/ Control(d) \/ Cast(d)
             \/ SetOutputAvailable(d) \/ MarkActivated(d) \/ Boot(d) \/ ClientNotices(d)
    BY <2>5 DEF EffectsRun, Beat, Progress, Control, Cast, SetOutputAvailable, MarkActivated,
                Boot, ClientNotices
  <2>6. CASE UserActs(d)
    BY <2>6, ActFacts DEF RemoteInv, Acts
  <2> QED
    BY <1>1, <2>1, <2>2, <2>3, <2>4, <2>5, <2>6 DEF DeviceStep, UserActs
<1>2. ASSUME NEW c \in Conn, ServerReads(c)
      PROVE  HubNext
  <2>1. up[c] \in Seq(ClientFrame) /\ up[c] # <<>> /\ OnMessage(c, Head(up[c]))
    BY <1>2 DEF ServerReads, RemoteInv, Linked, UpTypes
  <2>2. Head(up[c]) \in ClientFrame /\ Head(up[c]) = up[c][1] /\ 1 \in DOMAIN up[c]
    BY <2>1
  <2>3. Head(up[c]).type = "REGISTER" => c \notin DOMAIN conn
    BY <2>2 DEF RemoteInv, Linked, UpTypes
  <2> QED
    BY <2>1, <2>2, <2>3 DEF HubNext
<1>3. ASSUME NEW c \in Conn, ServerNotices(c)
      PROVE  HubNext
  BY <1>3 DEF ServerNotices, HubNext
<1>4. CASE SweepRuns \/ GoesIdle \/ ResetRoute
  BY <1>4 DEF SweepRuns, GoesIdle, ResetRoute, HubNext
<1> QED
  BY <1>1, <1>2, <1>3, <1>4 DEF Next

LEMMA NextIsStep ==
  ASSUME RemoteInv, Next
  PROVE  HubInv' /\ RemoteStep /\ (SessionStep(mgr, mgr') \/ UNCHANGED hubVars)
<1>1. HubInv' /\ (SessionStep(mgr, mgr') \/ UNCHANGED hubVars)
  <2>1. HubInv
    BY DEF RemoteInv
  <2>2. CASE HubNext
    BY <2>1, <2>2, HubInvStep DEF HubStep
  <2>3. CASE UNCHANGED hubVars
    BY <2>1, <2>3 DEF hubVars, HubInv, Wires, Shown, Held
  <2> QED
    BY <2>2, <2>3, NextIsHub
<1>2. ASSUME NEW d \in Device, DeviceStep(d)
      PROVE  RemoteStep
  <2>1. CASE ClientReads(d) \/ EffectsRun(d) \/ Beat(d) \/ Progress(d)
    BY <2>1, ClientReadsStep, EffectsRunStep, BeatsStep
  <2>2. CASE UserActs(d) \/ Control(d) \/ Cast(d)
    BY <2>2, UserActsStep, ControlStep, CastStepRemote
  <2>3. CASE SetOutputAvailable(d) \/ MarkActivated(d) \/ Leave(d) \/ Boot(d)
    BY <2>3, FlagsStep, LeaveStep, BootStep
  <2>4. CASE Cut(d) \/ Connect(d) \/ GoesSilent(d) \/ GraceRunsOut(d)
    BY <2>4, CutStep, ConnectStep, ClocksStep
  <2>5. CASE ClientNotices(d)
    <3>1. PICK at \in [Device -> Conn] : TRUE
      BY RemoteAssumption
    <3>2. at[d] \in Conn
      OBVIOUS
    <3> QED
      BY <2>5, <3>2, NoticesStep
  <2> QED
    BY <1>2, <2>1, <2>2, <2>3, <2>4, <2>5 DEF DeviceStep, UserActs
<1>3. ASSUME NEW c \in Conn, ServerReads(c) \/ ServerNotices(c)
      PROVE  RemoteStep
  <2>1. CASE ServerReads(c)
    BY <2>1, ServerReadsStep
  <2>2. CASE ServerNotices(c)
    <3>1. Linked'
      BY <2>2, CloseLinks DEF RemoteInv, HubInv
    <3>2. UNCHANGED <<cl, sock, off, events, refused>>
      BY <2>2 DEF ServerNotices, clientVars
    <3>3. PageStep
      BY <3>2, PageKept DEF RemoteInv, PageTypes
    <3> QED
      BY <3>1, <3>3 DEF RemoteStep
  <2> QED
    BY <1>3, <2>1, <2>2
<1>4. ASSUME SweepRuns \/ GoesIdle \/ ResetRoute
      PROVE  RemoteStep
  BY <1>4, ClocksStep
<1> QED
  BY <1>1, <1>2, <1>3, <1>4 DEF Next

LEMMA HomeFacts ==
  Home \in [Device -> Conn] /\ \A d, e \in Device : Home[d] = Home[e] => d = e
  BY RemoteAssumption DEF Home

LEMMA MetIsGood ==
  /\ Good(Met) /\ Met.out = <<>> /\ Met.pending = {} /\ Roster(Met) \in RosterType
  /\ \A o \in Device :
       LET m == [Met EXCEPT !.active = o, !.playing = TRUE, !.track = Restored[o].trk,
                            !.queue = Restored[o].q, !.idle = FALSE]
       IN  Good(m) /\ m.out = <<>> /\ m.pending = {}
<1>1. /\ Met.active = NoDevice /\ Met.playing = FALSE /\ Met.track = NoTrack
      /\ Met.queue = EmptyQueue /\ Met.listed = Device /\ Met.enabled = Device
      /\ Met.activated = Device /\ Met.pending = {} /\ Met.stale = {} /\ Met.idle = TRUE
      /\ Met.out = <<>> /\ Met \in Manager
  <2> DEFINE m == NewManager
  <2>1. /\ m \in Manager /\ m.active = NoDevice /\ m.playing = FALSE /\ m.track = NoTrack
        /\ m.queue = EmptyQueue /\ m.pending = {} /\ m.stale = {} /\ m.idle = TRUE
        /\ m.out = <<>>
    BY QueueAssumption DEF NewManager, Manager
  <2>2. Met = [m EXCEPT !.listed = Device, !.enabled = Device, !.activated = Device]
    BY DEF Met
  <2> HIDE DEF m
  <2> QED
    BY <2>1, <2>2 DEF Manager
<1>2. Good(Met)
  BY <1>1 DEF Good
<1>3. Roster(Met) \in RosterType
  BY <1>1, RosterIsRoster
<1> HIDE DEF Met
<1>4. ASSUME NEW o \in Device
      PROVE  LET m == [Met EXCEPT !.active = o, !.playing = TRUE, !.track = Restored[o].trk,
                                  !.queue = Restored[o].q, !.idle = FALSE]
             IN  Good(m) /\ m.out = <<>> /\ m.pending = {}
  <2> DEFINE t == Restored[o].trk
             q == Restored[o].q
             m == [Met EXCEPT !.active = o, !.playing = TRUE, !.track = t,
                              !.queue = q, !.idle = FALSE]
  <2>1. t \in Track /\ q \in Queue
    BY RemoteAssumption
  <2> HIDE DEF t, q
  <2>2. m \in Manager /\ m.out = <<>> /\ m.pending = {} /\ m.active = o /\ m.listed = Device
        /\ m.enabled = Device /\ m.activated = Device /\ m.stale = {}
    BY <1>1, <2>1 DEF Manager
  <2> HIDE DEF m
  <2>3. Good(m)
    BY <2>2 DEF Good
  <2> QED
    BY <2>2, <2>3 DEF m, t, q
<1> QED
  BY <1>1, <1>2, <1>3, <1>4

LEMMA SoundsAtInit ==
  ASSUME NEW k \in ClientType, NEW last \in Track \cup {NoTrack}, NEW on \in BOOLEAN
  PROVE  [k EXCEPT !.lastT = last, !.playing = on, !.prevP = on] \in ClientType
  BY DEF ClientType

LEMMA PagesAtInit ==
  ASSUME NEW d \in Device, NEW o \in Device
  PROVE  /\ Loaded(d) \in ClientType /\ ~Loaded(d).playing
         /\ Loaded(d).view = NoDevice /\ Loaded(d).roster = Roster(Met)
         /\ ~Loaded(d).rplaying /\ Loaded(d).claim = NoTrack /\ Loaded(d).sessQ = EmptyQueue
         /\ Mirror(d, o) \in ClientType
         /\ Mirror(d, o).view = o /\ Mirror(d, o).roster = Roster(Met)
         /\ Mirror(d, o).rplaying /\ Mirror(d, o).claim = NoTrack
         /\ Mirror(d, o).sessQ = Restored[o].q
<1> DEFINE s == Restored[o]
           t == s.trk
           q == s.q
           last == IF s.trk = Restored[d].trk THEN NoTrack ELSE s.trk
           on == (d = o)
           k == Client!FreshClient(Restored[d].trk, Restored[d].q, TRUE)
           l == Loaded(d)
           a == [l EXCEPT !.view = o, !.rplaying = TRUE, !.trk = t, !.prevT = t, !.q = q,
                          !.sessQ = q]
           b == [a EXCEPT !.lastT = last, !.playing = on, !.prevP = on]
<1>1. /\ Restored[d].trk \in Track /\ Restored[d].q \in Queue /\ t \in Track /\ q \in Queue
      /\ last \in Track \cup {NoTrack} /\ on \in BOOLEAN
  BY RemoteAssumption
<1>2. /\ k \in ClientType /\ k.view = NoDevice /\ k.rplaying = FALSE /\ k.claim = NoTrack
      /\ k.playing = FALSE
  BY <1>1 DEF ClientType, Client!FreshClient, Client!NoRoster, RosterType
<1>3. l = [k EXCEPT !.activated = TRUE, !.roster = Roster(Met), !.sessQ = EmptyQueue]
  BY DEF Loaded
<1>4. Mirror(d, o) = b
  BY DEF Mirror
<1> HIDE DEF k, l, t, q, last, on
<1>5. /\ l \in ClientType /\ l.playing = FALSE /\ l.view = NoDevice /\ l.roster = Roster(Met)
      /\ l.rplaying = FALSE /\ l.claim = NoTrack /\ l.sessQ = EmptyQueue
  BY <1>2, <1>3, MetIsGood, QueueAssumption DEF ClientType
<1>6. /\ a \in ClientType /\ a.view = o /\ a.roster = Roster(Met)
      /\ a.rplaying = TRUE /\ a.claim = NoTrack /\ a.sessQ = q
  BY <1>1, <1>5 DEF ClientType
<1> HIDE DEF a
<1>7. b \in ClientType
  BY <1>1, <1>6, SoundsAtInit
<1>8. /\ b.view = o /\ b.roster = Roster(Met) /\ b.rplaying = TRUE
      /\ b.claim = NoTrack /\ b.sessQ = q
  BY <1>6 DEF ClientType
<1> HIDE DEF b
<1> QED
  BY <1>4, <1>5, <1>7, <1>8 DEF l, q, s

LEMMA MgrAtInit ==
  ASSUME Init
  PROVE  Good(mgr) /\ mgr.out = <<>> /\ mgr.pending = {}
<1>1. CASE mgr = Met
  BY <1>1, MetIsGood
<1>2. ASSUME NEW o \in Players,
             mgr = [Met EXCEPT !.active = o, !.playing = TRUE, !.track = Restored[o].trk,
                               !.queue = Restored[o].q, !.idle = FALSE]
      PROVE  Good(mgr) /\ mgr.out = <<>> /\ mgr.pending = {}
  <2>1. o \in Device
    BY RemoteAssumption
  <2> HIDE DEF Met
  <2> QED
    BY <1>2, <2>1, MetIsGood
<1> QED
  BY <1>1, <1>2 DEF Init

LEMMA RemoteInit == Init => RemoteInv
<1> SUFFICES ASSUME Init PROVE RemoteInv
  OBVIOUS
<1>1. Home \in [Device -> Conn] /\ \A d, e \in Device : Home[d] = Home[e] => d = e
  BY HomeFacts
<1>2. /\ down = [c \in Conn |-> <<>>] /\ dead = {} /\ sock = Home
      /\ up = [c \in Conn |-> <<>>] /\ off = {} /\ events = 0 /\ refused = {}
  BY DEF Init
<1>3. /\ DOMAIN conn = {Home[d] : d \in Device}
      /\ \A d \in Device : Home[d] \in DOMAIN conn
      /\ \A c \in DOMAIN conn : conn[c] \in Registration /\ Home[conn[c].device] = c
  <2> DEFINE own(c) == CHOOSE x \in Device : Home[x] = c
             reg(c) == [device |-> own(c), enabled |-> TRUE, activated |-> own(c) \notin LateTouched]
  <2>1. conn = [c \in {Home[d] : d \in Device} |-> reg(c)]
    BY DEF Init
  <2>2. \A c \in {Home[d] : d \in Device} : own(c) \in Device /\ Home[own(c)] = c
    OBVIOUS
  <2> HIDE DEF own
  <2>3. \A c \in {Home[d] : d \in Device} : reg(c) \in Registration /\ reg(c).device = own(c)
    BY <2>2 DEF Registration
  <2> HIDE DEF reg
  <2> QED
    BY <2>1, <2>2, <2>3
<1>4. \A d \in Device : conn[Home[d]].device = d
  <2> SUFFICES ASSUME NEW d \in Device PROVE conn[Home[d]].device = d
    OBVIOUS
  <2>1. conn[Home[d]] \in Registration /\ Home[conn[Home[d]].device] = Home[d]
    BY <1>3
  <2>2. conn[Home[d]].device \in Device
    BY <2>1 DEF Registration
  <2> QED
    BY <1>1, <2>1, <2>2
<1>5. Good(mgr) /\ mgr.out = <<>> /\ mgr.pending = {}
  BY MgrAtInit
<1>6. HubInv
  <2>1. Wires
    <3>1. conn \in [DOMAIN conn -> Registration]
      <4>1. conn = [c \in DOMAIN conn |-> conn[c]]
        BY DEF Init
      <4> QED
        BY <1>3, <4>1
    <3>2. down \in [Conn -> Seq(ServerFrame)]
      BY <1>2
    <3>3. DOMAIN conn \subseteq Conn
      <4>1. \A d \in Device : Home[d] \in Conn
        BY <1>1
      <4>2. DOMAIN conn = {Home[d] : d \in Device}
        BY <1>3
      <4> HIDE DEF Home
      <4> QED
        BY <4>1, <4>2
    <3> QED
      BY <1>2, <3>1, <3>2, <3>3 DEF Wires
  <2>2. Shown(mgr) \subseteq Held
    <3>1. Shown(mgr) \subseteq Device
      BY <1>5 DEF Shown, Good, Manager
    <3>2. \A d \in Device : d \in Held
      BY <1>3, <1>4 DEF Held
    <3> QED
      BY <3>1, <3>2
  <2> QED
    BY <1>5, <2>1, <2>2 DEF HubInv
<1>7. Linked
  <2>1. up \in [Conn -> Seq(ClientFrame)] /\ \A c \in Conn : up[c] = <<>> /\ DOMAIN up[c] = {}
    BY <1>2
  <2>2. UpTypes
    BY <2>1 DEF UpTypes
  <2>3. Owned
    BY <1>1, <1>2, <1>3, <1>4, <2>1 DEF Owned, Online, Live
  <2> QED
    BY <2>2, <2>3 DEF Linked
<1>8. cl \in [Device -> ClientType]
  <2>1. CASE cl = [d \in Device |-> Loaded(d)]
    BY <2>1, PagesAtInit
  <2>2. CASE \E o \in Players : cl = [d \in Device |-> Mirror(d, o)]
    BY <2>2, PagesAtInit, RemoteAssumption
  <2> QED
    BY <2>1, <2>2 DEF Init
<1>9. PageTypes /\ Silent
  BY <1>1, <1>2, <1>8, RemoteAssumption DEF PageTypes, Silent
<1> QED
  BY <1>6, <1>7, <1>9 DEF RemoteInv

LEMMA RemoteStutter ==
  ASSUME RemoteInv, UNCHANGED vars
  PROVE  RemoteInv'
  BY DEF RemoteInv, vars, clientVars, hubVars, HubInv, Wires, Shown, Held, Linked, UpTypes,
         Owned, PageTypes, Silent, Online, Live

LEMMA RemoteInvariance == Spec => []RemoteInv
<1>1. RemoteInv /\ [Next]_vars => RemoteInv'
  BY NextIsStep, RemoteStutter DEF RemoteInv, RemoteStep, PageStep
<1> QED
  BY <1>1, RemoteInit, PTL DEF Spec

(* For any devices, sockets, tracks and queues, however many user acts and  *)
(* faults: every variable of the session and its clients keeps its type,    *)
(* and a REGISTER is the first frame of its socket and the only one.        *)
THEOREM RemoteTyped == Spec => []TypeOK
<1>1. RemoteInv => TypeOK
  BY DEF RemoteInv, HubInv, Good, Wires, HubTypeOK, Linked, UpTypes, PageTypes, TypeOK
<1> QED
  BY <1>1, RemoteInvariance, PTL

(* With the real clients at the other end too, no ghost is left in the list *)
(* and the output is always listed.                                         *)
THEOREM RemoteGhostFree == Spec => []NoGhosts
<1>1. RemoteInv => NoGhosts
  BY DEF RemoteInv, HubInv, Good, Shown, Held, NoGhosts
<1> QED
  BY <1>1, RemoteInvariance, PTL

(* The system with its clients implements PlaybackSession, from the session *)
(* a page may find when it opens.                                           *)
THEOREM RemoteImplementsSession == Spec => SessionImplemented
<1>1. Init => Session!Init
  <2> SUFFICES ASSUME Init PROVE Session!Init
    OBVIOUS
  <2>1. Good(mgr) /\ mgr.pending = {}
    BY MgrAtInit
  <2> QED
    BY <2>1, GoodSession DEF Session!Init
<1>2. RemoteInv /\ [Next]_vars => [Session!Next]_(Session!sessionVars)
  <2>1. ASSUME UNCHANGED hubVars PROVE UNCHANGED Session!sessionVars
    BY <2>1 DEF hubVars, Session!sessionVars, Drivable
  <2>2. ASSUME RemoteInv, Next PROVE [Session!Next]_(Session!sessionVars)
    <3>1. HubInv' /\ (SessionStep(mgr, mgr') \/ UNCHANGED hubVars)
      BY <2>2, NextIsStep
    <3>2. Good(mgr) /\ Good(mgr')
      BY <2>2, <3>1 DEF RemoteInv, HubInv
    <3>3. CASE SessionStep(mgr, mgr')
      BY <3>2, <3>3, StepIsSession
    <3>4. CASE UNCHANGED hubVars
      BY <2>1, <3>4
    <3> QED
      BY <3>1, <3>3, <3>4
  <2> QED
    BY <2>1, <2>2 DEF vars
<1> QED
  BY <1>1, <1>2, RemoteInvariance, PTL DEF Spec, SessionImplemented, Session!Spec

(* On any number of devices, no page starts to sound by itself: only its    *)
(* own user's act, or a frame that names it the session's output, makes it. *)
THEOREM NoneWakes == Spec => NoWakeup
<1>1. RemoteInv /\ Next => Quietly
  BY NextIsStep DEF RemoteStep, PageStep
<1>2. UNCHANGED vars => Quietly
  BY DEF vars, clientVars, Quietly, Sounds
<1>3. RemoteInv /\ [Next]_vars =>
        [\A d \in Device : Sounds(d)' /\ ~Sounds(d) /\ events' = events
                             => cl'[d].view = d]_vars
  BY <1>1, <1>2 DEF Quietly
<1> QED
  BY <1>3, RemoteInvariance, PTL DEF Spec, NoWakeup

---------------------------------------------------------------------------
(* What is under way tells the truth.                                       *)

\* s holds a frame of M; what no later frame of M overrides is in G.
Has(s, M) == \E i \in DOMAIN s : s[i] \in M
Fresh(s, M, G) ==
  \A i \in DOMAIN s : (\A j \in DOMAIN s : j > i => s[j] \notin M) => s[i] \in G

LEMMA FreshJoins ==
  ASSUME NEW S, NEW s \in Seq(S), NEW t \in Seq(S), NEW M, NEW G
  PROVE  /\ Has(s \o t, M) <=> Has(s, M) \/ Has(t, M)
         /\ Fresh(t, M, G) /\ (Has(t, M) \/ Fresh(s, M, G)) => Fresh(s \o t, M, G)
<1> DEFINE st == s \o t
<1>1. Joins(S, s, t, st)
  BY Joining
<1> HIDE DEF st
<1>2. Has(st, M) <=> Has(s, M) \/ Has(t, M)
  BY <1>1 DEF Joins, Has
<1>3. ASSUME Fresh(t, M, G), Has(t, M) \/ Fresh(s, M, G),
             NEW i \in DOMAIN st, \A j \in DOMAIN st : j > i => st[j] \notin M
      PROVE  st[i] \in G
  <2>1. CASE i \in DOMAIN s
    <3>1. i <= Len(s) /\ Len(s) \in Nat /\ st[i] = s[i] /\ i \in Nat
      <4>1. DOMAIN s = 1..Len(s) /\ Len(s) \in Nat
        OBVIOUS
      <4> QED
        BY <1>1, <2>1, <4>1 DEF Joins
    <3>2. \A j \in DOMAIN t : Len(s) + j \in DOMAIN st /\ Len(s) + j > i
                              /\ st[Len(s) + j] = t[j]
      BY <1>1, <3>1 DEF Joins
    <3>3. ~Has(t, M)
      BY <1>3, <3>2 DEF Has
    <3>4. \A j \in DOMAIN s : j \in DOMAIN st /\ st[j] = s[j]
      BY <1>1 DEF Joins
    <3> QED
      BY <1>3, <2>1, <3>1, <3>3, <3>4 DEF Fresh
  <2>2. ASSUME NEW j \in DOMAIN t, i = Len(s) + j
        PROVE  st[i] \in G
    <3>1. \A l \in DOMAIN t : l > j => t[l] \notin M
      <4> SUFFICES ASSUME NEW l \in DOMAIN t, l > j PROVE t[l] \notin M
        OBVIOUS
      <4>1. Len(s) + l \in DOMAIN st /\ st[Len(s) + l] = t[l] /\ l \in Nat /\ j \in Nat
            /\ Len(s) \in Nat
        BY <1>1 DEF Joins
      <4>2. Len(s) + l > i
        BY <2>2, <4>1
      <4> QED
        BY <1>3, <4>1, <4>2
    <3>2. st[i] = t[j]
      BY <1>1, <2>2 DEF Joins
    <3> QED
      BY <1>3, <3>1, <3>2 DEF Fresh
  <2> QED
    BY <1>1, <1>3, <2>1, <2>2 DEF Joins
<1>4. Fresh(t, M, G) /\ (Has(t, M) \/ Fresh(s, M, G)) => Fresh(st, M, G)
  BY <1>3 DEF Fresh
<1> QED
  BY <1>2, <1>4 DEF st

LEMMA FreshOne ==
  ASSUME NEW f, NEW M, NEW G
  PROVE  /\ Has(<<f>>, M) <=> f \in M
         /\ f \in G => Fresh(<<f>>, M, G)
         /\ ~Has(<<>>, M) /\ Fresh(<<>>, M, G)
<1>1. DOMAIN <<f>> = {1} /\ <<f>>[1] = f
  OBVIOUS
<1>2. DOMAIN <<>> = {}
  OBVIOUS
<1> QED
  BY <1>1, <1>2 DEF Has, Fresh

LEMMA FreshAppend ==
  ASSUME NEW s \in Seq(ServerFrame), NEW f \in ServerFrame, NEW M, NEW G
  PROVE  /\ Has(s \o <<f>>, M) <=> Has(s, M) \/ f \in M
         /\ f \in G /\ (f \in M \/ Fresh(s, M, G)) => Fresh(s \o <<f>>, M, G)
<1> DEFINE t == <<f>>
<1>1. t \in Seq(ServerFrame)
  OBVIOUS
<1>2. (Has(t, M) <=> f \in M) /\ (f \in G => Fresh(t, M, G))
  BY FreshOne
<1> HIDE DEF t
<1>3. /\ Has(s \o t, M) <=> Has(s, M) \/ Has(t, M)
      /\ Fresh(t, M, G) /\ (Has(t, M) \/ Fresh(s, M, G)) => Fresh(s \o t, M, G)
  BY <1>1, FreshJoins
<1> QED
  BY <1>2, <1>3 DEF t

LEMMA FreshTail ==
  ASSUME NEW S, NEW s \in Seq(S), s # <<>>, NEW M, NEW G
  PROVE  /\ Has(s, M) <=> Head(s) \in M \/ Has(Tail(s), M)
         /\ Fresh(s, M, G) => Fresh(Tail(s), M, G) /\ (Has(Tail(s), M) \/ Head(s) \in G)
<1> DEFINE r == Tail(s)
<1>1. Beheads(S, s, r)
  BY Beheading
<1> HIDE DEF r
<1>2. \A i \in DOMAIN s : i = 1 \/ (i - 1 \in DOMAIN r /\ r[i - 1] = s[i] /\ i \in Nat \ {0})
  BY <1>1 DEF Beheads
<1>3. \A i \in DOMAIN r : i \in Nat \ {0} /\ i + 1 \in DOMAIN s /\ r[i] = s[i + 1]
  BY <1>1 DEF Beheads
<1>4. 1 \in DOMAIN s /\ Head(s) = s[1]
  BY <1>1 DEF Beheads
<1>5. Has(s, M) <=> Head(s) \in M \/ Has(r, M)
  BY <1>2, <1>3, <1>4 DEF Has
<1>6. ASSUME Fresh(s, M, G)
      PROVE  Fresh(r, M, G)
  <2> SUFFICES ASSUME NEW i \in DOMAIN r, \A j \in DOMAIN r : j > i => r[j] \notin M
               PROVE  r[i] \in G
    BY DEF Fresh
  <2>1. i + 1 \in DOMAIN s /\ r[i] = s[i + 1] /\ i \in Nat \ {0}
    BY <1>3
  <2>2. ASSUME NEW j \in DOMAIN s, j > i + 1
        PROVE  s[j] \notin M
    <3>1. j # 1
      BY <2>1, <2>2, <1>1 DEF Beheads
    <3>2. j - 1 \in DOMAIN r /\ r[j - 1] = s[j] /\ j \in Nat
      BY <1>2, <3>1
    <3>3. j - 1 > i
      BY <2>1, <2>2, <3>2
    <3> QED
      BY <2>2, <3>2, <3>3
  <2> QED
    BY <1>6, <2>1, <2>2 DEF Fresh
<1>7. ASSUME Fresh(s, M, G), ~Has(r, M)
      PROVE  Head(s) \in G
  <2>1. \A j \in DOMAIN s : j > 1 => s[j] \notin M
    BY <1>2, <1>7 DEF Has
  <2> QED
    BY <1>4, <1>7, <2>1 DEF Fresh
<1> QED
  BY <1>5, <1>6, <1>7 DEF r

LEMMA FreshMore ==
  ASSUME NEW s, NEW M, NEW G, NEW H, Fresh(s, M, G), G \subseteq H
  PROVE  Fresh(s, M, H)
  BY DEF Fresh

---------------------------------------------------------------------------
(* What a handler emits tells of what it changed.                           *)

Syncs == {f \in ServerFrame : IsSync(f)}
Rosters == {f \in ServerFrame : IsRoster(f)}

\* A device list that shows what m has; a grace may have ended meanwhile.
Agrees(r, m) ==
  /\ r.listed = m.listed /\ r.available = Roster(m).available
  /\ Roster(m).pending \subseteq r.pending

\* The frames that are true of m.
Now(m) ==
  {f \in ServerFrame : /\ IsSync(f) => f.state = Snapshot(m)
                       /\ IsQueueEdit(f) => f.queue = m.queue
                       /\ f.type = "PROGRESS" => m.playing}
Shows(m) == {f \in ServerFrame : IsRoster(f) => Agrees(RosterIn(f), m)}

\* A client in step with m0 that reads s is in step with m.
StateBrought(m0, m, s) ==
  /\ s \in Seq(ServerFrame) /\ Fresh(s, Syncs, Now(m))
  /\ Has(s, Syncs) \/ Snapshot(m) = Snapshot(m0)
RosterBrought(m0, m, s) ==
  /\ s \in Seq(ServerFrame) /\ Fresh(s, Rosters, Shows(m))
  /\ Has(s, Rosters) \/ Agrees(Roster(m0), m)

StateTold(m0, m) == StateBrought(m0, m, m.out)
RosterTold(m0, m) == RosterBrought(m0, m, m.out)

LEMMA AgreesOnward ==
  ASSUME NEW r, NEW m, NEW n, Agrees(r, m), Agrees(Roster(m), n)
  PROVE  Agrees(r, n)
  BY DEF Agrees, Roster

LEMMA SameShows ==
  ASSUME NEW m, NEW n, Agrees(Roster(m), n)
  PROVE  Shows(m) \subseteq Shows(n)
  BY AgreesOnward DEF Shows

LEMMA SameNow ==
  ASSUME NEW m, NEW n, Snapshot(n) = Snapshot(m)
  PROVE  Now(m) = Now(n)
<1>1. n.queue = m.queue /\ n.playing = m.playing
  BY DEF Snapshot
<1> QED
  BY <1>1 DEF Now

LEMMA StateKept ==
  ASSUME NEW m0, NEW m, NEW n, StateTold(m0, m), n.out = m.out, Snapshot(n) = Snapshot(m)
  PROVE  StateTold(m0, n)
  BY SameNow DEF StateTold, StateBrought

LEMMA RosterKept ==
  ASSUME NEW m0, NEW m, NEW n, RosterTold(m0, m), n.out = m.out, Agrees(Roster(m), n)
  PROVE  RosterTold(m0, n)
<1>1. Fresh(n.out, Rosters, Shows(n))
  BY SameShows, FreshMore DEF RosterTold, RosterBrought
<1> QED
  BY <1>1, AgreesOnward DEF RosterTold, RosterBrought

LEMMA NothingTold ==
  ASSUME NEW m \in Manager, m.out = <<>>
  PROVE  StateTold(m, m) /\ RosterTold(m, m)
<1>1. Agrees(Roster(m), m) /\ <<>> \in Seq(ServerFrame)
  BY DEF Agrees, Roster
<1> QED
  BY <1>1, FreshOne DEF StateTold, StateBrought, RosterTold, RosterBrought

LEMMA EmitOut ==
  ASSUME NEW m \in Manager, NEW f \in ServerFrame
  PROVE  LET n == Emit(m, f)
         IN  /\ n.out = m.out \o <<f>> /\ m.out \in Seq(ServerFrame)
             /\ <<f>> \in Seq(ServerFrame) /\ n.out \in Seq(ServerFrame)
             /\ n.listed = m.listed /\ n.queue = m.queue
             /\ Snapshot(n) = Snapshot(m) /\ Roster(n) = Roster(m) /\ Now(n) = Now(m)
             /\ Agrees(Roster(m), n) /\ Shows(n) = Shows(m)
<1> DEFINE n == Emit(m, f)
<1>1. n.out = Append(m.out, f) /\ m.out \in Seq(ServerFrame) /\ Same(m, n)
  BY EmitIsSame DEF Emit, Manager
<1>2. Append(m.out, f) = m.out \o <<f>> /\ Append(m.out, f) \in Seq(ServerFrame)
      /\ <<f>> \in Seq(ServerFrame)
  BY <1>1
<1> HIDE DEF n
<1>3. Snapshot(n) = Snapshot(m) /\ Roster(n) = Roster(m) /\ n.listed = m.listed
      /\ n.queue = m.queue
  BY <1>1 DEF Same, Snapshot, Roster
<1>4. Agrees(Roster(m), n) /\ Agrees(Roster(n), m)
  BY <1>3 DEF Agrees, Roster
<1>5. Now(n) = Now(m) /\ Shows(n) = Shows(m)
  BY <1>3, <1>4, SameNow, SameShows
<1> QED
  BY <1>1, <1>2, <1>3, <1>4, <1>5 DEF n

\* The state alone, whatever was told before.
LEMMA AnnounceTells ==
  ASSUME NEW m0, NEW m \in Manager
  PROVE  /\ StateTold(m0, Announce(m)) /\ Has(Announce(m).out, Syncs)
         /\ RosterTold(m0, m) => RosterTold(m0, Announce(m))
<1> DEFINE f == StateSync(m)
           n == Emit(m, f)
<1>1. f \in ServerFrame /\ f \in Syncs /\ f.type = "STATE_SYNC" /\ f.state = Snapshot(m)
      /\ f.devices = {}
  BY StateIsFrame DEF StateSync, Syncs, IsSync
<1>2. f \in Now(m) /\ f \in Shows(m) /\ f \notin Rosters
  BY <1>1 DEF Now, Shows, Rosters, IsRoster, IsSync, IsQueueEdit
<1>3. Announce(m) = n
  BY DEF Announce
<1> HIDE DEF f
<1>4. /\ n.out = m.out \o <<f>> /\ m.out \in Seq(ServerFrame)
      /\ <<f>> \in Seq(ServerFrame) /\ n.out \in Seq(ServerFrame)
      /\ Now(n) = Now(m) /\ Agrees(Roster(m), n) /\ Shows(n) = Shows(m)
  BY <1>1, EmitOut
<1> HIDE DEF n
<1>5. Has(n.out, Syncs) /\ Fresh(n.out, Syncs, Now(n))
  BY <1>1, <1>2, <1>4, FreshAppend
<1>6. ASSUME RosterTold(m0, m) PROVE RosterTold(m0, n)
  <2>1. Fresh(n.out, Rosters, Shows(n)) /\ (Has(n.out, Rosters) <=> Has(m.out, Rosters))
    BY <1>2, <1>4, <1>6, FreshAppend DEF RosterTold, RosterBrought
  <2> QED
    BY <1>4, <1>6, <2>1, AgreesOnward DEF RosterTold, RosterBrought
<1> QED
  BY <1>3, <1>4, <1>5, <1>6 DEF StateTold, StateBrought

\* The device list alone, whatever was told before.
LEMMA DevicesTell ==
  ASSUME NEW m0, NEW m \in Manager
  PROVE  /\ RosterTold(m0, AnnounceDevices(m))
         /\ StateTold(m0, m) => StateTold(m0, AnnounceDevices(m))
<1> DEFINE f == DevicesSync(m)
           n == Emit(m, f)
<1>1. f \in ServerFrame /\ f.type = "DEVICES_SYNC" /\ f.devices = Roster(m)
  BY DevicesIsFrame DEF DevicesSync
<1>2. f \in Now(m) /\ f \in Shows(m) /\ f \in Rosters /\ f \notin Syncs
  <2>1. Agrees(Roster(m), m)
    BY DEF Agrees, Roster
  <2>2. IsRoster(f) /\ RosterIn(f) = Roster(m) /\ ~IsSync(f) /\ ~IsQueueEdit(f)
    BY <1>1 DEF IsRoster, RosterIn, IsSync, IsQueueEdit
  <2> QED
    BY <1>1, <2>1, <2>2 DEF Now, Shows, Rosters, Syncs
<1>3. AnnounceDevices(m) = n
  BY DEF AnnounceDevices
<1> HIDE DEF f
<1>4. /\ n.out = m.out \o <<f>> /\ m.out \in Seq(ServerFrame)
      /\ <<f>> \in Seq(ServerFrame) /\ n.out \in Seq(ServerFrame)
      /\ Snapshot(n) = Snapshot(m) /\ Now(n) = Now(m) /\ Shows(n) = Shows(m)
  BY <1>1, EmitOut
<1> HIDE DEF n
<1>5. Has(n.out, Rosters) /\ Fresh(n.out, Rosters, Shows(n))
  BY <1>2, <1>4, FreshAppend
<1>6. ASSUME StateTold(m0, m) PROVE StateTold(m0, n)
  <2>1. Fresh(n.out, Syncs, Now(n)) /\ (Has(n.out, Syncs) <=> Has(m.out, Syncs))
    BY <1>2, <1>4, <1>6, FreshAppend DEF StateTold, StateBrought
  <2> QED
    BY <1>4, <1>6, <2>1 DEF StateTold, StateBrought
<1> QED
  BY <1>3, <1>4, <1>5, <1>6 DEF RosterTold, RosterBrought

\* A command is relayed, after what it changed was told.
LEMMA RelayTells ==
  ASSUME NEW m0, NEW m \in Manager, NEW f \in CommandFrame, IsQueueEdit(f) => f.queue = m.queue,
         StateTold(m0, m), RosterTold(m0, m)
  PROVE  LET n == Emit(m, f)
         IN  /\ StateTold(m0, n) /\ RosterTold(m0, n)
             /\ Has(m.out, Syncs) => Has(n.out, Syncs)
<1> DEFINE n == Emit(m, f)
<1>1. f \in ServerFrame /\ f.type = "COMMAND"
  BY DEF ServerFrame, CommandFrame
<1>2. f \in Now(m) /\ f \in Shows(m) /\ f \notin Rosters /\ f \notin Syncs
  BY <1>1 DEF Now, Shows, Rosters, Syncs, IsRoster, IsSync
<1>3. /\ n.out = m.out \o <<f>> /\ m.out \in Seq(ServerFrame)
      /\ <<f>> \in Seq(ServerFrame) /\ n.out \in Seq(ServerFrame)
      /\ Snapshot(n) = Snapshot(m) /\ Now(n) = Now(m) /\ Agrees(Roster(m), n)
      /\ Shows(n) = Shows(m)
  BY <1>1, EmitOut
<1> HIDE DEF n
<1>4. Fresh(n.out, Syncs, Now(n)) /\ (Has(n.out, Syncs) <=> Has(m.out, Syncs))
  BY <1>2, <1>3, FreshAppend DEF StateTold, StateBrought
<1>5. Fresh(n.out, Rosters, Shows(n)) /\ (Has(n.out, Rosters) <=> Has(m.out, Rosters))
  BY <1>2, <1>3, FreshAppend DEF RosterTold, RosterBrought
<1> QED
  BY <1>3, <1>4, <1>5, AgreesOnward
  DEF n, StateTold, StateBrought, RosterTold, RosterBrought

---------------------------------------------------------------------------
(* The session's operators.                                                 *)

\* A change of n's session alone keeps what was told of the list.
SameList(m, n) ==
  /\ n.out = m.out /\ n.listed = m.listed /\ n.enabled = m.enabled
  /\ n.activated = m.activated /\ n.pending \subseteq m.pending

LEMMA SameListKept ==
  ASSUME NEW m0, NEW m, NEW n, RosterTold(m0, m), SameList(m, n)
  PROVE  RosterTold(m0, n)
<1>1. Agrees(Roster(m), n)
  BY DEF SameList, Agrees, Roster
<1> QED
  BY <1>1, RosterKept DEF SameList

\* A change of m's session, announced.
LEMMA ChangeTells ==
  ASSUME NEW m0, NEW m, NEW n \in Manager, SameList(m, n)
  PROVE  /\ StateTold(m0, Announce(n)) /\ Has(Announce(n).out, Syncs)
         /\ RosterTold(m0, m) => RosterTold(m0, Announce(n))
  BY AnnounceTells, SameListKept

LEMMA EndTells ==
  ASSUME NEW m0, NEW m \in Manager
  PROVE  /\ StateTold(m0, EndSession(m))
         /\ RosterTold(m0, m) => RosterTold(m0, EndSession(m))
<1> DEFINE n == [m EXCEPT !.active = NoDevice, !.playing = FALSE]
<1>1. n \in Manager /\ SameList(m, n)
  BY DEF Manager, SameList
<1>2. EndSession(m) = Announce(n)
  BY DEF EndSession
<1> HIDE DEF n
<1> QED
  BY <1>1, <1>2, ChangeTells

LEMMA CancelFrame ==
  ASSUME NEW m \in Manager, NEW d
  PROVE  LET n == CancelPendingRelease(m, d)
         IN  n \in Manager /\ SameList(m, n) /\ Snapshot(n) = Snapshot(m)
  BY DEF Manager, CancelPendingRelease, SameList, Snapshot

LEMMA ReleaseTells ==
  ASSUME NEW m0, NEW m \in Manager, NEW d
  PROVE  /\ StateTold(m0, m) => StateTold(m0, ReleaseIfActive(m, d))
         /\ RosterTold(m0, m) => RosterTold(m0, ReleaseIfActive(m, d))
         /\ ReleaseIfActive(m, d) \in Manager
<1>1. CASE m.active = d
  <2> DEFINE n == CancelPendingRelease(m, d)
             e == [n EXCEPT !.active = NoDevice, !.playing = FALSE]
  <2>1. n \in Manager /\ SameList(m, n)
    BY CancelFrame
  <2>2. ReleaseIfActive(m, d) = EndSession(n)
    BY <1>1 DEF ReleaseIfActive
  <2> HIDE DEF n
  <2>3. e \in Manager /\ EndSession(n) = Announce(e)
    BY <2>1 DEF Manager, EndSession
  <2> HIDE DEF e
  <2>4. EndSession(n) \in Manager
    BY <2>3, StateIsFrame, EmitIsSame DEF Announce
  <2> QED
    BY <2>1, <2>2, <2>4, EndTells, SameListKept
<1>2. CASE m.active # d
  BY <1>2 DEF ReleaseIfActive
<1> QED
  BY <1>1, <1>2

LEMMA ClaimTellsAll ==
  ASSUME NEW m0, NEW m \in Manager, NEW d \in Device, NEW track \in Track, NEW queue \in Queue
  PROVE  LET n == ClaimOutput(m, d, track, queue)
         IN  /\ StateTold(m0, n) /\ Has(n.out, Syncs)
             /\ RosterTold(m0, m) => RosterTold(m0, n)
<1> DEFINE c == CancelPendingRelease(m, d)
           n == [c EXCEPT !.active = d, !.track = track, !.playing = TRUE, !.queue = queue,
                          !.idle = FALSE]
<1>1. c \in Manager /\ SameList(m, c)
  BY CancelFrame
<1>2. ClaimOutput(m, d, track, queue) = Announce(n)
  BY DEF ClaimOutput
<1> HIDE DEF c
<1>3. n \in Manager /\ SameList(m, n)
  BY <1>1 DEF Manager, SameList
<1> HIDE DEF n
<1> QED
  BY <1>2, <1>3, ChangeTells

LEMMA PointTells ==
  ASSUME NEW m0, NEW m \in Manager, NEW d \in Device, NEW queue \in Queue
  PROVE  LET n == PointAt(m, d, queue)
         IN  /\ StateTold(m0, n) /\ Has(n.out, Syncs)
             /\ RosterTold(m0, m) => RosterTold(m0, n)
<1> DEFINE idle == m.idle /\ d = NoDevice
           n == [m EXCEPT !.active = d, !.queue = queue, !.idle = idle]
<1>1. idle \in BOOLEAN
  BY DEF Manager
<1>2. PointAt(m, d, queue) = Announce(n)
  BY DEF PointAt
<1> HIDE DEF idle
<1>3. n \in Manager /\ SameList(m, n)
  BY <1>1 DEF Manager, SameList
<1> HIDE DEF n
<1> QED
  BY <1>2, <1>3, ChangeTells

LEMMA ReportTells ==
  ASSUME NEW m0, NEW m \in Manager, NEW n \in Manager, SameList(m, n), n.active = m.active,
         StateTold(m0, m), RosterTold(m0, m)
  PROVE  /\ StateTold(m0, Report(m, n)) /\ RosterTold(m0, Report(m, n))
         /\ Has(Report(m, n).out, Syncs) \/ n.queue = m.queue
         /\ Report(m, n).queue = n.queue
<1>1. CASE n.playing # m.playing \/ n.track # m.track \/ n.queue # m.queue
  <2>1. Report(m, n) = Announce(n)
    BY <1>1 DEF Report
  <2>2. Announce(n).queue = n.queue
    BY StateIsFrame, EmitOut DEF Announce
  <2> QED
    BY <2>1, <2>2, ChangeTells
<1>2. CASE ~(n.playing # m.playing \/ n.track # m.track \/ n.queue # m.queue)
  <2>1. Report(m, n) = n /\ n.queue = m.queue
    BY <1>2 DEF Report
  <2>2. Snapshot(n) = Snapshot(m)
    BY <1>2 DEF Snapshot
  <2> QED
    BY <2>1, <2>2, StateKept, SameListKept DEF SameList
<1> QED
  BY <1>1, <1>2

---------------------------------------------------------------------------
(* The device list's operators.                                             *)

\* A change of the list alone keeps what was told of the session.
SameSession(m, n) == n.out = m.out /\ Snapshot(n) = Snapshot(m)

LEMMA ListTells ==
  ASSUME NEW m0, NEW m, NEW n \in Manager, SameSession(m, n)
  PROVE  /\ RosterTold(m0, AnnounceDevices(n))
         /\ StateTold(m0, m) => StateTold(m0, AnnounceDevices(n))
  BY DevicesTell, StateKept DEF SameSession

\* The same, when leaving out may end the session first.
LEMMA OptsTell ==
  ASSUME NEW m0, NEW m, NEW n \in Manager, SameSession(m, n), NEW d, NEW stays \in BOOLEAN
  PROVE  LET left == IF stays THEN n ELSE ReleaseIfActive(n, d)
         IN  /\ RosterTold(m0, AnnounceDevices(left))
             /\ StateTold(m0, m) => StateTold(m0, AnnounceDevices(left))
<1> DEFINE left == IF stays THEN n ELSE ReleaseIfActive(n, d)
<1>1. left \in Manager
  BY ReleaseTells
<1>2. StateTold(m0, m) => StateTold(m0, left)
  BY ReleaseTells, StateKept DEF SameSession
<1> HIDE DEF left
<1> QED
  BY <1>1, <1>2, DevicesTell DEF left

LEMMA ForgetFrame ==
  ASSUME NEW m \in Manager, NEW gone
  PROVE  LET n == Forget(m, gone)
         IN  /\ n \in Manager /\ SameSession(m, n) /\ n.pending = m.pending
             /\ n.listed = m.listed \ gone
             /\ n.active = m.active /\ n.idle = m.idle
  BY DEF Manager, Forget, SameSession, Snapshot

LEMMA RegisterTells ==
  ASSUME NEW m0, NEW m \in Manager, NEW r \in Registration
  PROVE  /\ RosterTold(m0, RegisterDevice(m, r))
         /\ StateTold(m0, m) => StateTold(m0, RegisterDevice(m, r))
<1> DEFINE d == r.device
           c == CancelPendingRelease(m, d)
           seen == [c EXCEPT !.listed = @ \cup {d}, !.stale = @ \ {d},
                             !.enabled = With(@, d, r.enabled),
                             !.activated = With(@, d, r.activated)]
<1>1. d \in Device /\ r.enabled \in BOOLEAN
  BY DEF Registration
<1>2. c \in Manager /\ c.out = m.out /\ Snapshot(c) = Snapshot(m)
  BY CancelFrame DEF SameList
<1>3. RegisterDevice(m, r) =
        AnnounceDevices(IF r.enabled THEN seen ELSE ReleaseIfActive(seen, d))
  BY DEF RegisterDevice
<1> HIDE DEF c, d
<1>4. seen \in Manager /\ SameSession(m, seen)
  BY <1>1, <1>2 DEF Manager, With, SameSession, Snapshot
<1> HIDE DEF seen
<1> QED
  BY <1>1, <1>3, <1>4, OptsTell

LEMMA BeatTells ==
  ASSUME NEW m0, NEW m \in Manager, NEW r \in Registration, StateTold(m0, m), RosterTold(m0, m)
  PROVE  StateTold(m0, Heartbeat(m, r)) /\ RosterTold(m0, Heartbeat(m, r))
<1>1. CASE r.device \in m.listed
  <2> DEFINE n == [m EXCEPT !.stale = @ \ {r.device}]
  <2>1. SameList(m, n) /\ SameSession(m, n)
    BY DEF Manager, SameList, SameSession, Snapshot
  <2>2. Heartbeat(m, r) = n
    BY <1>1 DEF Heartbeat
  <2> HIDE DEF n
  <2> QED
    BY <2>1, <2>2, StateKept, SameListKept DEF SameSession
<1>2. CASE r.device \notin m.listed
  BY <1>2, RegisterTells DEF Heartbeat
<1> QED
  BY <1>1, <1>2

LEMMA UpdateTells ==
  ASSUME NEW m0, NEW m \in Manager, NEW d, NEW field, NEW flag \in BOOLEAN,
         StateTold(m0, m), RosterTold(m0, m)
  PROVE  LET n == UpdateDevice(m, d, field, flag)
         IN  StateTold(m0, n) /\ RosterTold(m0, n)
<1> DEFINE a == [m EXCEPT !.activated = With(@, d, flag)]
           e == [m EXCEPT !.enabled = With(@, d, flag)]
<1>1. CASE d \notin m.listed
  BY <1>1 DEF UpdateDevice
<1>2. CASE d \in m.listed
  <2>1. d \in Device
    BY <1>2 DEF Manager
  <2>2. a \in Manager /\ SameSession(m, a) /\ e \in Manager /\ SameSession(m, e)
    BY <2>1 DEF Manager, With, SameSession, Snapshot
  <2>3. UpdateDevice(m, d, field, flag) =
          IF field = "activated" THEN AnnounceDevices(a)
          ELSE AnnounceDevices(IF flag THEN e ELSE ReleaseIfActive(e, d))
    BY <1>2 DEF UpdateDevice
  <2> HIDE DEF a, e
  <2> QED
    BY <2>2, <2>3, ListTells, OptsTell
<1> QED
  BY <1>1, <1>2

LEMMA UnregisterTells ==
  ASSUME NEW m0, NEW m \in Manager, NEW d \in Device, StateTold(m0, m), RosterTold(m0, m)
  PROVE  LET n == UnregisterDevice(m, d)
         IN  StateTold(m0, n) /\ RosterTold(m0, n)
<1> DEFINE p == [m EXCEPT !.pending = @ \cup {d}]
           f == Forget(m, {d})
<1>1. p \in Manager /\ SameSession(m, p)
  BY DEF Manager, SameSession, Snapshot
<1>2. f \in Manager /\ SameSession(m, f)
  BY ForgetFrame
<1>3. UnregisterDevice(m, d) \in {m, AnnounceDevices(p), AnnounceDevices(f)}
  BY DEF UnregisterDevice, LoseActiveDevice
<1> HIDE DEF p, f
<1> QED
  BY <1>1, <1>2, <1>3, ListTells

LEMMA GraceTells ==
  ASSUME NEW m0, NEW m \in Manager, NEW d \in Device, StateTold(m0, m), RosterTold(m0, m)
  PROVE  StateTold(m0, GraceEnds(m, d)) /\ RosterTold(m0, GraceEnds(m, d))
<1> DEFINE c == CancelPendingRelease(m, d)
           gone == Forget(c, {d})
           e == [gone EXCEPT !.active = NoDevice, !.playing = FALSE]
           left == IF m.active = d THEN EndSession(gone) ELSE gone
<1>1. c \in Manager /\ c.out = m.out /\ Snapshot(c) = Snapshot(m)
  BY CancelFrame DEF SameList
<1> HIDE DEF c
<1>2. gone \in Manager /\ SameSession(c, gone)
  BY <1>1, ForgetFrame
<1> HIDE DEF gone
<1>3. StateTold(m0, gone)
  BY <1>1, <1>2, StateKept DEF SameSession
<1>4. e \in Manager /\ EndSession(gone) = Announce(e)
  BY <1>2 DEF EndSession, Manager
<1> HIDE DEF e
<1>5. EndSession(gone) \in Manager
  BY <1>4, StateIsFrame, EmitIsSame DEF Announce
<1>6. left \in Manager /\ StateTold(m0, left)
  BY <1>2, <1>3, <1>5, EndTells
<1>7. GraceEnds(m, d) = AnnounceDevices(left)
  BY DEF GraceEnds, gone, c
<1> HIDE DEF left
<1> QED
  BY <1>6, <1>7, DevicesTell

LEMMA SweepTells ==
  ASSUME NEW m0, NEW m \in Manager, StateTold(m0, m), RosterTold(m0, m)
  PROVE  StateTold(m0, CleanupStaleDevices(m)) /\ RosterTold(m0, CleanupStaleDevices(m))
<1> DEFINE gone == m.stale \ {m.active}
           lost == (m.stale \cap {m.active}) \ m.pending
           f == Forget(m, gone)
           left == [f EXCEPT !.pending = @ \cup lost]
           told == IF gone \cup lost = {} THEN left ELSE AnnounceDevices(left)
<1>1. lost \in SUBSET Device
  BY DEF Manager
<1>2. f \in Manager /\ SameSession(m, f) /\ f.pending = m.pending
  BY ForgetFrame
<1>3. gone = {} => SameList(m, f)
  BY DEF Manager, Forget, SameList
<1>4. CleanupStaleDevices(m) =
        IF told.active # NoDevice /\ told.active \notin told.pending /\ told.idle
        THEN EndSession(told) ELSE told
  BY DEF CleanupStaleDevices
<1> HIDE DEF f
<1>5. left \in Manager /\ SameSession(m, left)
  <2> HIDE DEF lost, gone
  <2> QED
    BY <1>1, <1>2 DEF Manager, SameSession, Snapshot
<1>6. gone \cup lost = {} => SameList(m, left)
  <2>1. gone \cup lost = {} => gone = {} /\ left.pending = f.pending
    BY <1>2 DEF Manager
  <2>2. left.out = f.out /\ left.listed = f.listed /\ left.enabled = f.enabled
        /\ left.activated = f.activated
    BY <1>2 DEF Manager
  <2> QED
    BY <1>3, <2>1, <2>2 DEF SameList
<1> HIDE DEF left
<1>7. StateTold(m0, left) /\ (gone \cup lost = {} => RosterTold(m0, left))
  BY <1>5, <1>6, StateKept, SameListKept DEF SameSession
<1>8. AnnounceDevices(left) \in Manager
  BY <1>5, DevicesIsFrame, EmitIsSame DEF AnnounceDevices
<1>9. told \in Manager /\ StateTold(m0, told) /\ RosterTold(m0, told)
  BY <1>5, <1>7, <1>8, DevicesTell
<1> HIDE DEF told
<1> QED
  BY <1>4, <1>9, EndTells

LEMMA ResetTells ==
  ASSUME NEW m0, NEW m \in Manager, RosterTold(m0, m)
  PROVE  StateTold(m0, Reset(m)) /\ RosterTold(m0, Reset(m))
<1> DEFINE f == Forget(m, m.pending)
           e == [f EXCEPT !.pending = {}, !.idle = TRUE, !.active = NoDevice,
                          !.playing = FALSE, !.track = NoTrack, !.queue = EmptyQueue]
           left == Announce(e)
<1>1. f \in Manager
  BY ForgetFrame
<1>2. m.pending = {} => SameList(m, f)
  BY DEF Manager, Forget, SameList
<1>3. Reset(m) = IF m.pending = {} THEN left ELSE AnnounceDevices(left)
  BY DEF Reset
<1> HIDE DEF f
<1>4. e \in Manager
  BY <1>1, QueueAssumption DEF Manager
<1>5. m.pending = {} => SameList(m, e)
  BY <1>1, <1>2 DEF Manager, SameList
<1> HIDE DEF e
<1>6. left \in Manager /\ StateTold(m0, left)
  BY <1>4, AnnounceTells, StateIsFrame, EmitIsSame DEF Announce
<1>7. m.pending = {} => RosterTold(m0, left)
  BY <1>4, <1>5, ChangeTells
<1> HIDE DEF left
<1> QED
  BY <1>3, <1>6, <1>7, DevicesTell

---------------------------------------------------------------------------
(* A client in step with the server.                                        *)

Claims == {f \in ClientFrame : f.type = "CLAIM_OUTPUT"}
Casts == {f \in ClientFrame : IsCast(f)}

\* U brings the server what k takes for the session's queue, and nothing in
\* it makes the server ignore that.
Bears(U, k, d) ==
  \E i \in DOMAIN U :
    /\ Carries(U[i], k, d)
    /\ IsQueueReport(U[i]) => \A j \in DOMAIN U : j > i => U[j] \notin Casts

\* k, with U on its way to the server, mirrors m.
InStep(k, d, U, m, R) ==
  /\ k.rplaying = m.playing
  /\ k.claim = NoTrack \/ Has(U, Claims)
  /\ d \in R \/ k.view = m.active \/ Has(U, Casts)
  /\ d \in R \/ k.sessQ = m.queue \/ Bears(U, k, d)

\* The same, once the frames D have reached k.
Tracks(k, d, D, U, m, R) ==
  /\ Fresh(D, Syncs, Now(m))
  /\ Has(D, Syncs) \/ InStep(k, d, U, m, R)

Lists(k, D, m) ==
  /\ Fresh(D, Rosters, Shows(m))
  /\ Has(D, Rosters) \/ Agrees(k.roster, m)

\* The server hears nothing of k, and tells it s.
LEMMA ListsTold ==
  ASSUME NEW k, NEW D \in Seq(ServerFrame), NEW m0, NEW m, NEW s,
         Lists(k, D, m0), RosterBrought(m0, m, s)
  PROVE  Lists(k, D \o s, m)
<1>1. s \in Seq(ServerFrame) /\ Fresh(s, Rosters, Shows(m))
  BY DEF RosterBrought
<1>2. /\ Has(D \o s, Rosters) <=> Has(D, Rosters) \/ Has(s, Rosters)
      /\ Has(s, Rosters) \/ Fresh(D, Rosters, Shows(m)) => Fresh(D \o s, Rosters, Shows(m))
  BY <1>1, FreshJoins
<1>3. CASE Has(s, Rosters)
  BY <1>2, <1>3 DEF Lists
<1>4. CASE Agrees(Roster(m0), m)
  <2>1. Fresh(D, Rosters, Shows(m))
    BY <1>4, SameShows, FreshMore DEF Lists
  <2> QED
    BY <1>2, <1>4, <2>1, AgreesOnward DEF Lists
<1> QED
  BY <1>3, <1>4 DEF RosterBrought

LEMMA InStepKept ==
  ASSUME NEW k, NEW d, NEW U, NEW m0, NEW m, NEW R, NEW R2, InStep(k, d, U, m0, R),
         Snapshot(m) = Snapshot(m0), d \in R => d \in R2
  PROVE  InStep(k, d, U, m, R2)
<1>1. m.playing = m0.playing /\ m.active = m0.active /\ m.queue = m0.queue
  BY DEF Snapshot
<1> QED
  BY <1>1 DEF InStep

LEMMA TracksTold ==
  ASSUME NEW k, NEW d, NEW D \in Seq(ServerFrame), NEW U, NEW V, NEW m0, NEW m, NEW s,
         NEW R, NEW R2, Tracks(k, d, D, U, m0, R), StateBrought(m0, m, s),
         InStep(k, d, U, m0, R) /\ Snapshot(m) = Snapshot(m0)
           => InStep(k, d, V, m, R2) \/ Has(s, Syncs)
  PROVE  Tracks(k, d, D \o s, V, m, R2)
<1>1. s \in Seq(ServerFrame) /\ Fresh(s, Syncs, Now(m))
  BY DEF StateBrought
<1>2. /\ Has(D \o s, Syncs) <=> Has(D, Syncs) \/ Has(s, Syncs)
      /\ Has(s, Syncs) \/ Fresh(D, Syncs, Now(m)) => Fresh(D \o s, Syncs, Now(m))
  BY <1>1, FreshJoins
<1>3. CASE Has(s, Syncs)
  BY <1>2, <1>3 DEF Tracks
<1>4. CASE Snapshot(m) = Snapshot(m0) /\ ~Has(s, Syncs)
  <2>1. Fresh(D, Syncs, Now(m))
    BY <1>4, SameNow DEF Tracks
  <2> QED
    BY <1>2, <1>4, <2>1 DEF Tracks
<1> QED
  BY <1>3, <1>4 DEF StateBrought

\* What the server owes d for the frame f.
Answers(f, d, m0, m, s, R) ==
  /\ f \in Claims \/ IsQueueEdit(f) => Has(s, Syncs)
  /\ f \in Casts => Has(s, Syncs) \/ d \in R
  /\ IsQueueReport(f) => Has(s, Syncs) \/ m0.active \notin {NoDevice, d} \/ m.queue = f.queue

\* The server reads the next frame of U.
LEMMA StepHeard ==
  ASSUME NEW k, NEW d \in Device, NEW U \in Seq(ClientFrame), U # <<>>, NEW m0, NEW m, NEW s,
         NEW R, NEW R2, d \in R => d \in R2, Answers(Head(U), d, m0, m, s, R2),
         InStep(k, d, U, m0, R), Snapshot(m) = Snapshot(m0), ~Has(s, Syncs)
  PROVE  InStep(k, d, Tail(U), m, R2)
<1> DEFINE f == Head(U)
           V == Tail(U)
<1>1. m.playing = m0.playing /\ m.active = m0.active /\ m.queue = m0.queue
  BY DEF Snapshot
<1>2. Beheads(ClientFrame, U, V)
  BY Beheading
<1>3. /\ Has(U, Claims) => f \in Claims \/ Has(V, Claims)
      /\ Has(U, Casts) => f \in Casts \/ Has(V, Casts)
  BY FreshTail
<1> HIDE DEF f, V
<1>4. f \notin Claims /\ ~IsQueueEdit(f) /\ (f \in Casts => d \in R2)
      /\ (IsQueueReport(f) => m0.active \notin {NoDevice, d} \/ m.queue = f.queue)
  BY DEF Answers, f
<1>5. f = U[1] /\ 1 \in DOMAIN U /\ f \in ClientFrame
  BY <1>2 DEF Beheads, f
<1>6. ASSUME Bears(U, k, d), d \notin R2
      PROVE  k.sessQ = m.queue \/ Bears(V, k, d)
  <2>1. PICK i \in DOMAIN U :
          /\ Carries(U[i], k, d)
          /\ IsQueueReport(U[i]) => \A j \in DOMAIN U : j > i => U[j] \notin Casts
    BY <1>6 DEF Bears
  <2>2. CASE i = 1
    <3>1. IsQueueReport(f) /\ f.queue = k.sessQ /\ k.view = d
      BY <1>4, <1>5, <1>6, <2>1, <2>2 DEF Carries, Casts
    <3>2. f \notin Casts
      BY <1>4, <1>6
    <3>3. \A j \in DOMAIN U : j > 1 => U[j] \notin Casts
      BY <1>5, <2>1, <2>2, <3>1
    <3>4. \A j \in DOMAIN U : j > 1 \/ j = 1
      BY <1>2 DEF Beheads
    <3>5. ~Has(U, Casts)
      BY <1>5, <3>2, <3>3, <3>4 DEF Has
    <3>6. m0.active = d
      BY <1>1, <1>6, <3>1, <3>5 DEF InStep
    <3> QED
      BY <1>4, <3>1, <3>6
  <2>3. CASE i # 1
    <3>1. i - 1 \in DOMAIN V /\ V[i - 1] = U[i] /\ i \in Nat \ {0}
      BY <1>2, <2>3 DEF Beheads
    <3>2. ASSUME IsQueueReport(V[i - 1]), NEW j \in DOMAIN V, j > i - 1
          PROVE  V[j] \notin Casts
      <4>1. j \in Nat \ {0} /\ j + 1 \in DOMAIN U /\ V[j] = U[j + 1]
        BY <1>2 DEF Beheads
      <4>2. j + 1 > i
        BY <3>1, <3>2, <4>1
      <4> QED
        BY <2>1, <3>1, <3>2, <4>1, <4>2
    <3>3. Bears(V, k, d)
      BY <2>1, <3>1, <3>2 DEF Bears
    <3> QED
      BY <3>3
  <2> QED
    BY <2>2, <2>3
<1>7. InStep(k, d, V, m, R2)
  BY <1>1, <1>3, <1>4, <1>6 DEF InStep
<1> QED
  BY <1>7 DEF V

\* The client reads the next frame of D.
LEMMA ListsHeard ==
  ASSUME NEW k, NEW n, NEW D \in Seq(ServerFrame), D # <<>>, NEW m,
         Lists(k, D, m), Hears(k, Head(D), n)
  PROVE  Lists(n, Tail(D), m)
<1> DEFINE f == Head(D)
           E == Tail(D)
<1>1. /\ Has(D, Rosters) <=> f \in Rosters \/ Has(E, Rosters)
      /\ Fresh(D, Rosters, Shows(m)) =>
           Fresh(E, Rosters, Shows(m)) /\ (Has(E, Rosters) \/ f \in Shows(m))
  BY FreshTail
<1>2. f \in ServerFrame
  OBVIOUS
<1>3. n.roster = IF IsRoster(f) THEN RosterIn(f) ELSE k.roster
  BY DEF Hears
<1> HIDE DEF f, E
<1>4. Lists(n, E, m)
  BY <1>1, <1>2, <1>3 DEF Lists, Rosters, Shows
<1> QED
  BY <1>4 DEF E

LEMMA BearsSame ==
  ASSUME NEW U, NEW k, NEW n, NEW d, n.sessQ = k.sessQ, n.view = k.view
  PROVE  Bears(U, k, d) => Bears(U, n, d)
  BY DEF Bears, Carries

LEMMA TracksHeard ==
  ASSUME NEW k, NEW n, NEW d, NEW D \in Seq(ServerFrame), D # <<>>, NEW U, NEW m \in Manager,
         NEW R, Tracks(k, d, D, U, m, R), Hears(k, Head(D), n)
  PROVE  Tracks(n, d, Tail(D), U, m, IF IsSync(Head(D)) THEN R \ {d} ELSE R)
<1> DEFINE f == Head(D)
           E == Tail(D)
<1>1. /\ Has(D, Syncs) <=> f \in Syncs \/ Has(E, Syncs)
      /\ Fresh(D, Syncs, Now(m)) =>
           Fresh(E, Syncs, Now(m)) /\ (Has(E, Syncs) \/ f \in Now(m))
  BY FreshTail
<1>2. f \in ServerFrame
  OBVIOUS
<1>3. Hears(k, f, n)
  OBVIOUS
<1> HIDE DEF f, E
<1>4. Fresh(E, Syncs, Now(m))
  BY <1>1 DEF Tracks
<1>5. CASE Has(E, Syncs)
  BY <1>4, <1>5 DEF Tracks, f, E
<1>6. CASE ~Has(E, Syncs) /\ IsSync(f)
  <2>1. f.state = Snapshot(m)
    BY <1>1, <1>6 DEF Tracks, Now
  <2>2. /\ f.state.active = m.active /\ f.state.playing = m.playing
        /\ f.state.queue = m.queue
    BY <2>1 DEF Snapshot
  <2>3. n.view = m.active /\ n.rplaying = m.playing /\ n.sessQ = m.queue /\ n.claim = NoTrack
    BY <1>3, <1>6, <2>2 DEF Hears
  <2> QED
    BY <1>4, <2>3 DEF Tracks, InStep, E
<1>7. CASE ~Has(E, Syncs) /\ ~IsSync(f)
  <2>1. InStep(k, d, U, m, R) /\ f \in Now(m)
    BY <1>1, <1>7 DEF Tracks, Syncs
  <2>2. n.view = k.view /\ n.claim = k.claim
    BY <1>3, <1>7 DEF Hears
  <2>3. n.rplaying = m.playing
    BY <1>3, <1>7, <2>1 DEF Hears, InStep, Now, Manager
  <2>4. n.sessQ = k.sessQ \/ n.sessQ = m.queue
    BY <1>3, <1>7, <2>1 DEF Hears, Now
  <2>5. InStep(n, d, U, m, R)
    BY <2>1, <2>2, <2>3, <2>4, BearsSame DEF InStep
  <2> QED
    BY <1>4, <1>7, <2>5 DEF Tracks, f, E
<1> QED
  BY <1>5, <1>6, <1>7

\* The client says t, and becomes n.
LEMMA HasMore ==
  ASSUME NEW U \in Seq(ClientFrame), NEW t \in Seq(ClientFrame), NEW k, NEW d
  PROVE  /\ Has(U \o t, Claims) <=> Has(U, Claims) \/ Has(t, Claims)
         /\ Has(U \o t, Casts) <=> Has(U, Casts) \/ Has(t, Casts)
         /\ \A i \in DOMAIN t : /\ Carries(t[i], k, d)
                                /\ \A j \in DOMAIN t : j # 1 => t[j] \notin Casts
                                => Bears(U \o t, k, d)
         /\ Bears(U, k, d) /\ (Has(t, Casts) => k.view # d) => Bears(U \o t, k, d)
<1> DEFINE V == U \o t
<1>1. Joins(ClientFrame, U, t, V)
  BY Joining
<1>2. Has(V, Claims) <=> Has(U, Claims) \/ Has(t, Claims)
  BY FreshJoins
<1>3. Has(V, Casts) <=> Has(U, Casts) \/ Has(t, Casts)
  BY FreshJoins
<1> HIDE DEF V
<1>4. Len(U) \in Nat /\ \A i \in DOMAIN t : i \in Nat \ {0}
  BY <1>1 DEF Joins
<1>5. ASSUME NEW i \in DOMAIN t, Carries(t[i], k, d),
             \A j \in DOMAIN t : j # 1 => t[j] \notin Casts
      PROVE  Bears(V, k, d)
  <2>1. Len(U) + i \in DOMAIN V /\ V[Len(U) + i] = t[i]
    BY <1>1 DEF Joins
  <2>2. ASSUME NEW j \in DOMAIN V, j > Len(U) + i
        PROVE  V[j] \notin Casts
    <3>1. j \notin DOMAIN U
      <4>1. \A x \in DOMAIN U : x <= Len(U) /\ x \in Nat
        <5>1. DOMAIN U = 1..Len(U)
          OBVIOUS
        <5> QED
          BY <1>4, <5>1
      <4> QED
        BY <1>4, <2>2, <4>1
    <3>2. PICK l \in DOMAIN t : j = Len(U) + l
      BY <1>1, <3>1 DEF Joins
    <3>3. l # 1
      BY <1>4, <2>2, <3>2
    <3> QED
      BY <1>1, <1>5, <3>2, <3>3 DEF Joins
  <2> QED
    BY <1>5, <2>1, <2>2 DEF Bears
<1>6. ASSUME Bears(U, k, d), Has(t, Casts) => k.view # d
      PROVE  Bears(V, k, d)
  <2>1. PICK i \in DOMAIN U :
          /\ Carries(U[i], k, d)
          /\ IsQueueReport(U[i]) => \A j \in DOMAIN U : j > i => U[j] \notin Casts
    BY <1>6 DEF Bears
  <2>2. i \in DOMAIN V /\ V[i] = U[i]
    BY <1>1 DEF Joins
  <2>3. ASSUME IsQueueReport(U[i]), NEW j \in DOMAIN V, j > i
        PROVE  V[j] \notin Casts
    <3>1. k.view = d
      BY <2>1, <2>3 DEF Carries, IsQueueReport, IsQueueEdit, IsCast
    <3>2. ~Has(t, Casts)
      BY <1>6, <3>1
    <3>3. CASE j \in DOMAIN U
      BY <1>1, <2>1, <2>3, <3>3 DEF Joins
    <3>4. CASE \E l \in DOMAIN t : j = Len(U) + l
      BY <1>1, <3>2, <3>4 DEF Joins, Has
    <3> QED
      BY <1>1, <3>3, <3>4 DEF Joins
  <2> QED
    BY <2>1, <2>2, <2>3 DEF Bears
<1> QED
  BY <1>2, <1>3, <1>5, <1>6 DEF V

LEMMA EffectInStep ==
  ASSUME NEW k, NEW d, NEW e, Tells(k, d, e), NEW U \in Seq(ClientFrame), NEW m, NEW R,
         InStep(k, d, U, m, R)
  PROVE  InStep(e.k, d, U \o e.sends, m, R)
<1> DEFINE t == e.sends
           n == e.k
<1>1. t \in Seq(Effect) /\ t \in Seq(ClientFrame)
  BY TalkIsFrame DEF Tells
<1>2. \A i \in DOMAIN t : t[i] \in Effect
  BY <1>1
<1>3. \A i \in DOMAIN t : t[i] \notin Casts
  BY <1>2 DEF Effect, Casts, IsCast
<1>4. /\ n.view = k.view /\ n.rplaying = k.rplaying
      /\ n.claim # k.claim => \E i \in DOMAIN t : t[i].type = "CLAIM_OUTPUT"
      /\ n.sessQ # k.sessQ => \E i \in DOMAIN t : Carries(t[i], n, d)
  BY DEF Tells, SameVoice
<1> HIDE DEF t, n
<1>5. /\ Has(U \o t, Claims) <=> Has(U, Claims) \/ Has(t, Claims)
      /\ Has(U \o t, Casts) <=> Has(U, Casts) \/ Has(t, Casts)
      /\ (\E i \in DOMAIN t : Carries(t[i], n, d)) => Bears(U \o t, n, d)
      /\ Bears(U, n, d) => Bears(U \o t, n, d)
  BY <1>1, <1>3, HasMore DEF Has
<1>6. (\E i \in DOMAIN t : t[i].type = "CLAIM_OUTPUT") => Has(t, Claims)
  BY <1>2 DEF Effect, Has, Claims
<1>7. n.sessQ = k.sessQ => (Bears(U, k, d) => Bears(U, n, d))
  BY <1>4, BearsSame
<1>8. InStep(n, d, U \o t, m, R)
  BY <1>4, <1>5, <1>6, <1>7 DEF InStep
<1> QED
  BY <1>8 DEF n, t

\* A page that mirrors the session as before, whatever it says short of a cast.
LEMMA SameInStep ==
  ASSUME NEW k, NEW n, NEW d, NEW U \in Seq(ClientFrame), NEW t \in Seq(ClientFrame),
         \A i \in DOMAIN t : ~IsCast(t[i]), SameMirror(k, n), NEW m, NEW R,
         InStep(k, d, U, m, R)
  PROVE  InStep(n, d, U \o t, m, R)
<1>1. ~Has(t, Casts)
  BY DEF Has, Casts
<1>2. /\ Has(U, Claims) => Has(U \o t, Claims)
      /\ Has(U, Casts) => Has(U \o t, Casts)
      /\ Bears(U, n, d) => Bears(U \o t, n, d)
  BY <1>1, HasMore
<1>3. Bears(U, k, d) => Bears(U, n, d)
  BY BearsSame DEF SameMirror
<1> QED
  BY <1>2, <1>3 DEF InStep, SameMirror

LEMMA CastInStep ==
  ASSUME NEW k \in ClientType, NEW d \in Device, NEW t \in Device, t # k.view,
         NEW U \in Seq(ClientFrame), NEW m, NEW R, InStep(k, d, U, m, R)
  PROVE  LET e == Client!CastTo(k, d, t)
         IN  InStep(e.k, d, U \o e.sends, m, R)
<1> DEFINE e == Client!CastTo(k, d, t)
           s == e.sends
           n == e.k
<1>1. /\ s \in Seq(Talk) /\ n.rplaying = k.rplaying /\ n.claim = k.claim
      /\ \/ SameMirror(k, n) /\ s = <<>>
         \/ /\ s # <<>> /\ IsCast(s[1])
            /\ \A i \in DOMAIN s : i # 1 => ~IsCast(s[i])
            /\ (n.sessQ = k.sessQ /\ k.view # d) \/ Carries(s[1], n, d)
  BY CastFacts
<1> HIDE DEF s, n
<1>2. s \in Seq(ClientFrame)
  BY <1>1, TalkIsFrame
<1>3. CASE SameMirror(k, n) /\ s = <<>>
  <2>1. \A i \in DOMAIN s : ~IsCast(s[i])
    BY <1>3
  <2> QED
    BY <1>2, <1>3, <2>1, SameInStep DEF s, n
<1>4. CASE /\ s # <<>> /\ IsCast(s[1])
           /\ \A i \in DOMAIN s : i # 1 => ~IsCast(s[i])
           /\ (n.sessQ = k.sessQ /\ k.view # d) \/ Carries(s[1], n, d)
  <2>1. 1 \in DOMAIN s /\ s[1] \in ClientFrame
    BY <1>2, <1>4
  <2>2. Has(s, Casts) /\ \A j \in DOMAIN s : j # 1 => s[j] \notin Casts
    BY <1>4, <2>1 DEF Has, Casts
  <2>3. /\ Has(U, Claims) => Has(U \o s, Claims)
        /\ Has(U \o s, Casts)
        /\ Carries(s[1], n, d) => Bears(U \o s, n, d)
    BY <1>2, <2>1, <2>2, HasMore
  <2>4. k.view # d /\ Bears(U, k, d) => Bears(U \o s, k, d)
    BY <1>2, HasMore
  <2>5. ASSUME n.sessQ = k.sessQ, k.view # d, Bears(U \o s, k, d)
        PROVE  Bears(U \o s, n, d)
    <3>1. \A f : Carries(f, k, d) => Carries(f, n, d)
      BY <2>5 DEF Carries
    <3> QED
      BY <2>5, <3>1 DEF Bears
  <2>6. InStep(n, d, U \o s, m, R)
    BY <1>1, <1>4, <2>3, <2>4, <2>5 DEF InStep
  <2> QED
    BY <2>6 DEF n, s
<1> QED
  BY <1>1, <1>3, <1>4

---------------------------------------------------------------------------
(* What a step of the hub sends.                                            *)

\* m is an outcome that the sockets are told of.
Outcome(m) == m \in Manager /\ StateTold(mgr, m) /\ RosterTold(mgr, m)

\* s goes out over x, and brings a client in step.
SentTo(x, s) ==
  /\ down'[x] = down[x] \o s
  /\ StateBrought(mgr, mgr', s) /\ RosterBrought(mgr, mgr', s)

\* t is true of m.
Fits(m, t) ==
  /\ t \in Seq(ServerFrame) /\ Fresh(t, Syncs, Now(m)) /\ Fresh(t, Rosters, Shows(m))

LEMMA FramesAssociate ==
  ASSUME NEW s \in Seq(ServerFrame), NEW t \in Seq(ServerFrame), NEW u \in Seq(ServerFrame)
  PROVE  (s \o t) \o u = s \o (t \o u)
  BY ConcatAssociative

LEMMA SendTells ==
  ASSUME Wires, NEW m, Outcome(m), NEW conns, NEW own, Send(m, conns, own),
         NEW x \in Conn, x \in conns, x \notin dead, Fits(m, own[x])
  PROVE  /\ SentTo(x, m.out \o own[x])
         /\ Has(m.out \o own[x], Syncs) <=> Has(m.out, Syncs) \/ Has(own[x], Syncs)
         /\ Has(m.out \o own[x], Rosters) <=> Has(m.out, Rosters) \/ Has(own[x], Rosters)
         /\ mgr'.queue = m.queue
<1> DEFINE s == m.out
           t == own[x]
<1>1. /\ s \in Seq(ServerFrame) /\ t \in Seq(ServerFrame) /\ down[x] \in Seq(ServerFrame)
      /\ Fresh(t, Syncs, Now(m)) /\ Fresh(t, Rosters, Shows(m))
      /\ Fresh(s, Syncs, Now(m)) /\ Fresh(s, Rosters, Shows(m))
      /\ Has(s, Syncs) \/ Snapshot(m) = Snapshot(mgr)
      /\ Has(s, Rosters) \/ Agrees(Roster(mgr), m)
  BY DEF Fits, Outcome, StateTold, RosterTold, StateBrought, RosterBrought, Wires
<1>2. Snapshot(mgr') = Snapshot(m) /\ Roster(mgr') = Roster(m) /\ mgr'.listed = m.listed
      /\ mgr'.queue = m.queue
  <2>1. m \in Manager /\ mgr' = [m EXCEPT !.out = <<>>]
    BY DEF Outcome, Send
  <2> QED
    BY <2>1 DEF Manager, Snapshot, Roster
<1>3. Now(mgr') = Now(m)
  BY <1>2, SameNow
<1>4. Agrees(Roster(m), mgr')
  BY <1>2 DEF Agrees, Roster
<1>5. down'[x] = (down[x] \o s) \o t
  BY DEF Send
<1>6. (down[x] \o s) \o t = down[x] \o (s \o t)
  <2> HIDE DEF s, t
  <2> QED
    BY <1>1, FramesAssociate
<1> HIDE DEF s, t
<1>7. s \o t \in Seq(ServerFrame)
  BY <1>1
<1>8. /\ Has(s \o t, Syncs) <=> Has(s, Syncs) \/ Has(t, Syncs)
      /\ Fresh(s \o t, Syncs, Now(m))
  BY <1>1, FreshJoins
<1>9. /\ Has(s \o t, Rosters) <=> Has(s, Rosters) \/ Has(t, Rosters)
      /\ Fresh(s \o t, Rosters, Shows(m))
  BY <1>1, FreshJoins
<1>10. StateBrought(mgr, mgr', s \o t)
  BY <1>1, <1>2, <1>3, <1>7, <1>8 DEF StateBrought
<1>11. RosterBrought(mgr, mgr', s \o t)
  <2>1. Fresh(s \o t, Rosters, Shows(mgr'))
    BY <1>4, <1>9, SameShows, FreshMore
  <2> QED
    BY <1>1, <1>4, <1>7, <1>9, <2>1, AgreesOnward DEF RosterBrought
<1> QED
  BY <1>2, <1>5, <1>6, <1>8, <1>9, <1>10, <1>11 DEF SentTo, s, t

LEMMA NothingFits ==
  ASSUME NEW m
  PROVE  Fits(m, <<>>)
<1>1. <<>> \in Seq(ServerFrame)
  OBVIOUS
<1> QED
  BY <1>1, FreshOne DEF Fits

LEMMA ReplyFits ==
  ASSUME NEW m \in Manager
  PROVE  LET t == <<StateReply(m)>>
         IN  Fits(m, t) /\ Has(t, Syncs) /\ Has(t, Rosters)
<1> DEFINE f == StateReply(m)
<1>1. /\ f \in ServerFrame /\ f.type = "STATE_SYNC" /\ f.state = Snapshot(m)
      /\ f.devices = {Roster(m)}
  BY ReplyIsFrame DEF StateReply
<1> HIDE DEF f
<1>2. IsSync(f) /\ IsRoster(f) /\ RosterIn(f) = Roster(m) /\ ~IsQueueEdit(f)
  BY <1>1 DEF IsSync, IsRoster, RosterIn, IsQueueEdit
<1>3. Agrees(Roster(m), m)
  BY DEF Agrees, Roster
<1>4. f \in Now(m) /\ f \in Shows(m) /\ f \in Syncs /\ f \in Rosters
  BY <1>1, <1>2, <1>3 DEF Now, Shows, Syncs, Rosters
<1>5. <<f>> \in Seq(ServerFrame)
  BY <1>1
<1> QED
  BY <1>4, <1>5, FreshOne DEF Fits, f

LEMMA ProgressFits ==
  ASSUME NEW m, m.playing
  PROVE  Fits(m, <<[type |-> "PROGRESS"]>>)
<1> DEFINE f == [type |-> "PROGRESS"]
<1>1. f \in ServerFrame /\ f.type = "PROGRESS"
  BY DEF ServerFrame
<1> HIDE DEF f
<1>2. f \in Now(m) /\ f \in Shows(m)
  BY <1>1 DEF Now, Shows, IsSync, IsRoster, IsQueueEdit
<1>3. <<f>> \in Seq(ServerFrame)
  BY <1>1
<1> QED
  BY <1>2, <1>3, FreshOne DEF Fits, f

\* Every open socket is told, and over c the frame f is answered.
MessageTold(c, f, d, R) ==
  \A x \in DOMAIN conn : x \notin dead =>
    \E s \in Seq(ServerFrame) :
      SentTo(x, s) /\ (x = c => Answers(f, d, mgr, mgr', s, R))

LEMMA ServeTells ==
  ASSUME HubInv, NEW m, Outcome(m), NEW own, Serve(m, own), NEW x \in DOMAIN conn,
         x \notin dead, Fits(m, own[x])
  PROVE  /\ m.out \o own[x] \in Seq(ServerFrame)
         /\ SentTo(x, m.out \o own[x])
         /\ Has(m.out \o own[x], Syncs) <=> Has(m.out, Syncs) \/ Has(own[x], Syncs)
         /\ mgr'.queue = m.queue
<1>1. Wires /\ x \in Conn /\ Send(m, DOMAIN conn, own)
  BY DEF HubInv, Wires, Serve
<1>2. /\ SentTo(x, m.out \o own[x])
      /\ Has(m.out \o own[x], Syncs) <=> Has(m.out, Syncs) \/ Has(own[x], Syncs)
      /\ mgr'.queue = m.queue
  BY <1>1, SendTells
<1>3. m.out \o own[x] \in Seq(ServerFrame)
  BY <1>2 DEF SentTo, StateBrought
<1> QED
  BY <1>2, <1>3

LEMMA BroadcastTells ==
  ASSUME HubInv, NEW m, Outcome(m), Broadcast(m), NEW x \in DOMAIN conn, x \notin dead
  PROVE  m.out \in Seq(ServerFrame) /\ SentTo(x, m.out) /\ mgr'.queue = m.queue
<1> DEFINE own == [y \in Conn |-> <<>>]
<1>1. Serve(m, own) /\ own[x] = <<>>
  BY DEF Broadcast, HubInv, Wires
<1>2. m.out \in Seq(ServerFrame)
  BY DEF Outcome, Manager
<1>3. m.out \o <<>> = m.out
  BY <1>2
<1> HIDE DEF own
<1>4. SentTo(x, m.out \o own[x]) /\ mgr'.queue = m.queue
  BY <1>1, NothingFits, ServeTells
<1> QED
  BY <1>1, <1>2, <1>3, <1>4

LEMMA BroadcastAnswers ==
  ASSUME HubInv, NEW m, Outcome(m), Broadcast(m), NEW c, NEW f, NEW d, NEW R,
         Answers(f, d, mgr, m, m.out, R)
  PROVE  MessageTold(c, f, d, R)
<1> SUFFICES ASSUME NEW x \in DOMAIN conn, x \notin dead
             PROVE  \E s \in Seq(ServerFrame) :
                      SentTo(x, s) /\ (x = c => Answers(f, d, mgr, mgr', s, R))
  BY DEF MessageTold
<1>1. m.out \in Seq(ServerFrame) /\ SentTo(x, m.out) /\ mgr'.queue = m.queue
  BY BroadcastTells
<1>2. Answers(f, d, mgr, mgr', m.out, R)
  BY <1>1 DEF Answers
<1> QED
  BY <1>1, <1>2

\* Frames that are owed no answer.
Free(f) == f \notin Claims /\ ~IsQueueEdit(f) /\ f \notin Casts /\ ~IsQueueReport(f)

LEMMA FreeAnswered ==
  ASSUME NEW f, Free(f), NEW d, NEW m0, NEW m, NEW s, NEW R
  PROVE  Answers(f, d, m0, m, s, R)
  BY DEF Free, Answers

LEMMA FreeKinds ==
  ASSUME NEW f, f.type \in {"HEARTBEAT", "PROGRESS_REPORT", "RELEASE_OUTPUT", "UPDATE_DEVICE"}
  PROVE  Free(f)
  BY DEF Free, Claims, Casts, IsCast, IsQueueEdit, IsQueueReport

LEMMA BeatenOutcome ==
  ASSUME HubInv, NEW c \in Conn
  PROVE  /\ Outcome(Beaten(c)) /\ Beaten(c) \in Manager /\ Good(Beaten(c))
         /\ Beaten(c).active = mgr.active
<1>1. mgr \in Manager /\ mgr.out = <<>>
  BY DEF HubInv, Good
<1>2. StateTold(mgr, mgr) /\ RosterTold(mgr, mgr)
  BY <1>1, NothingTold
<1>3. c \in DOMAIN conn => conn[c] \in Registration
  BY DEF HubInv, Wires
<1>4. StateTold(mgr, Beaten(c)) /\ RosterTold(mgr, Beaten(c))
  BY <1>1, <1>2, <1>3, BeatTells DEF Beaten
<1> QED
  BY <1>4, BeatenFacts DEF Outcome, Good

LEMMA ChangeOutcome ==
  ASSUME NEW m, Outcome(m), NEW n \in Manager, SameList(m, n)
  PROVE  /\ Outcome(Announce(n)) /\ Has(Announce(n).out, Syncs)
         /\ Announce(n).queue = n.queue
<1>1. Announce(n) \in Manager /\ Announce(n).queue = n.queue
  BY StateIsFrame, EmitIsSame DEF Announce, Same
<1> QED
  BY <1>1, ChangeTells DEF Outcome

LEMMA BeatMessage ==
  ASSUME HubInv, NEW c \in Conn, NEW f, NEW d, NEW R, Broadcast(Beaten(c)), Free(f)
  PROVE  MessageTold(c, f, d, R)
  BY BeatenOutcome, FreeAnswered, BroadcastAnswers

LEMMA ReportMessage ==
  ASSUME HubInv, NEW c \in Conn, NEW m, Outcome(m), m.active = mgr.active, NEW n \in Manager,
         SameList(m, n), n.active = m.active, NEW f \in ReportFrame, NEW d, NEW R,
         IsQueueReport(f) => n.queue = f.queue, Broadcast(Report(m, n))
  PROVE  MessageTold(c, f, d, R)
<1> DEFINE r == Report(m, n)
<1>1. /\ StateTold(mgr, r) /\ RosterTold(mgr, r)
      /\ r.queue = n.queue
  BY ReportTells DEF Outcome
<1>2. r \in Manager
  <2>1. Announce(n) \in Manager
    BY StateIsFrame, EmitIsSame DEF Announce
  <2> QED
    BY <2>1 DEF Report
<1>3. Outcome(r) /\ Broadcast(r)
  BY <1>1, <1>2 DEF Outcome
<1> HIDE DEF r
<1>4. f.type = "STATE_UPDATE"
  BY DEF ReportFrame
<1>5. Answers(f, d, mgr, r, r.out, R)
  BY <1>1, <1>4 DEF Answers, Claims, Casts, IsCast, IsQueueEdit
<1> QED
  BY <1>3, <1>5, BroadcastAnswers

LEMMA StateUpdateMessage ==
  ASSUME HubInv, NEW c \in Conn, NEW f \in ClientFrame, OnStateUpdate(c, f), NEW R
  PROVE  MessageTold(c, f, Sender(c), R)
<1> DEFINE m == Beaten(c)
           a == [m EXCEPT !.playing = f.playing, !.idle = @ /\ ~f.playing]
           b == [m EXCEPT !.track = f.track, !.playing = TRUE, !.idle = FALSE]
           q == [m EXCEPT !.queue = f.queue]
<1>1. f \in ReportFrame /\ f.type = "STATE_UPDATE"
  BY FrameKinds DEF OnStateUpdate
<1>2. Outcome(m) /\ m \in Manager /\ m.active = mgr.active
  BY BeatenOutcome
<1>3. CASE m.active \notin {NoDevice, Sender(c)}
  <2>1. Broadcast(m)
    BY <1>3 DEF OnStateUpdate
  <2>2. Answers(f, Sender(c), mgr, m, m.out, R)
    BY <1>1, <1>2, <1>3 DEF Answers, Claims, Casts, IsCast, IsQueueEdit
  <2> QED
    BY <1>2, <2>1, <2>2, BroadcastAnswers
<1>4. CASE m.active \in {NoDevice, Sender(c)} /\ f.about = "playing"
  <2>1. f.playing \in BOOLEAN
    BY <1>1, <1>4 DEF ReportFrame
  <2>2. Broadcast(Report(m, a))
    BY <1>4 DEF OnStateUpdate
  <2> HIDE DEF m
  <2> DEFINE idle == m.idle /\ ~f.playing
  <2>3. idle \in BOOLEAN
    BY <1>2 DEF Manager
  <2>4. a = [m EXCEPT !.playing = f.playing, !.idle = idle]
    OBVIOUS
  <2> HIDE DEF idle, a
  <2>5. a \in Manager /\ SameList(m, a) /\ a.active = m.active
    BY <1>2, <2>1, <2>3, <2>4 DEF Manager, SameList
  <2>6. ~IsQueueReport(f)
    BY <1>4 DEF IsQueueReport
  <2> QED
    BY <1>1, <1>2, <2>2, <2>5, <2>6, ReportMessage
<1>5. CASE m.active \in {NoDevice, Sender(c)} /\ f.about = "track"
  <2>1. f.track \in Track
    BY <1>1, <1>5 DEF ReportFrame
  <2>2. Broadcast(Report(m, b))
    BY <1>5 DEF OnStateUpdate
  <2> HIDE DEF m
  <2>3. b \in Manager /\ SameList(m, b) /\ b.active = m.active
    BY <1>2, <2>1 DEF Manager, SameList
  <2> HIDE DEF b
  <2>4. ~IsQueueReport(f)
    BY <1>5 DEF IsQueueReport
  <2> QED
    BY <1>1, <1>2, <2>2, <2>3, <2>4, ReportMessage
<1>6. CASE m.active \in {NoDevice, Sender(c)} /\ f.about \notin {"playing", "track"}
  <2>1. f.queue \in Queue
    BY <1>1, <1>6 DEF ReportFrame
  <2>2. Broadcast(Report(m, q))
    BY <1>6 DEF OnStateUpdate
  <2> HIDE DEF m
  <2>3. q \in Manager /\ SameList(m, q) /\ q.active = m.active /\ q.queue = f.queue
    BY <1>2, <2>1 DEF Manager, SameList
  <2> HIDE DEF q
  <2> QED
    BY <1>1, <1>2, <2>2, <2>3, ReportMessage
<1> QED
  BY <1>3, <1>4, <1>5, <1>6

LEMMA CommandMessage ==
  ASSUME HubInv, NEW c \in Conn, NEW f \in ClientFrame, OnCommand(c, f), NEW d, NEW R
  PROVE  MessageTold(c, f, d, R)
<1> DEFINE m == Beaten(c)
           new ==
             CASE f.action = "PLAY" -> Announce([m EXCEPT !.playing = TRUE, !.idle = FALSE])
               [] f.action = "PAUSE" -> Announce([m EXCEPT !.playing = FALSE])
               [] f.action = "SEEK" -> Announce(m)
               [] f.action = "SET_TRACK" ->
                    Announce([m EXCEPT !.track = f.track, !.playing = TRUE, !.idle = FALSE])
               [] f.action = "SET_QUEUE" -> Announce([m EXCEPT !.queue = f.queue])
               [] f.action = "NEXT" -> m
<1>1. f \in CommandFrame /\ f \in ServerFrame /\ f.type = "COMMAND"
  BY FrameKinds DEF OnCommand, ServerFrame
<1>2. Outcome(m) /\ m \in Manager
  BY BeatenOutcome
<1>3. Broadcast(Emit(new, f))
  BY DEF OnCommand
<1> HIDE DEF m
<1>4. /\ f.action \in {"PLAY", "PAUSE", "SEEK", "SET_TRACK", "SET_QUEUE", "NEXT"}
      /\ f.action = "SET_TRACK" => f.track \in Track
      /\ f.action = "SET_QUEUE" => f.queue \in Queue
  BY <1>1 DEF CommandFrame
<1>5. Outcome(new) /\ (IsQueueEdit(f) => f.queue = new.queue /\ Has(new.out, Syncs))
  <2>1. CASE f.action = "PLAY"
    <3>1. LET n == [m EXCEPT !.playing = TRUE, !.idle = FALSE]
          IN  n \in Manager /\ SameList(m, n)
      BY <1>2 DEF Manager, SameList
    <3> QED
      BY <1>2, <2>1, <3>1, ChangeOutcome DEF IsQueueEdit
  <2>2. CASE f.action = "PAUSE"
    <3>1. LET n == [m EXCEPT !.playing = FALSE]
          IN  n \in Manager /\ SameList(m, n)
      BY <1>2 DEF Manager, SameList
    <3> QED
      BY <1>2, <2>2, <3>1, ChangeOutcome DEF IsQueueEdit
  <2>3. CASE f.action = "SEEK"
    <3>1. SameList(m, m)
      BY DEF SameList
    <3> QED
      BY <1>2, <2>3, <3>1, ChangeOutcome DEF IsQueueEdit
  <2>4. CASE f.action = "SET_TRACK"
    <3>1. LET n == [m EXCEPT !.track = f.track, !.playing = TRUE, !.idle = FALSE]
          IN  n \in Manager /\ SameList(m, n)
      BY <1>2, <1>4, <2>4 DEF Manager, SameList
    <3> QED
      BY <1>2, <2>4, <3>1, ChangeOutcome DEF IsQueueEdit
  <2>5. CASE f.action = "SET_QUEUE"
    <3> DEFINE n == [m EXCEPT !.queue = f.queue]
    <3>1. n \in Manager /\ SameList(m, n) /\ n.queue = f.queue
      BY <1>2, <1>4, <2>5 DEF Manager, SameList
    <3>2. new = Announce(n)
      BY <2>5
    <3> HIDE DEF new, n
    <3> QED
      BY <1>2, <3>1, <3>2, ChangeOutcome
  <2>6. CASE f.action = "NEXT"
    BY <1>2, <2>6 DEF IsQueueEdit
  <2> QED
    BY <1>4, <2>1, <2>2, <2>3, <2>4, <2>5, <2>6
<1> HIDE DEF new
<1> DEFINE n == Emit(new, f)
<1>6. /\ StateTold(mgr, n) /\ RosterTold(mgr, n)
      /\ Has(new.out, Syncs) => Has(n.out, Syncs)
  BY <1>1, <1>5, RelayTells DEF Outcome
<1>7. n \in Manager
  BY <1>1, <1>5, EmitIsSame DEF Outcome
<1>8. Broadcast(n)
  BY <1>3
<1> HIDE DEF n
<1>9. Answers(f, d, mgr, n, n.out, R)
  BY <1>1, <1>5, <1>6 DEF Answers, Claims, Casts, IsCast, IsQueueReport
<1> QED
  BY <1>6, <1>7, <1>8, <1>9, BroadcastAnswers DEF Outcome

LEMMA ProgressMessage ==
  ASSUME HubInv, NEW c \in Conn, NEW f \in ClientFrame, OnProgress(c, f), NEW d, NEW R
  PROVE  MessageTold(c, f, d, R)
<1> DEFINE m == Beaten(c)
           on == [m EXCEPT !.playing = TRUE, !.idle = FALSE]
           g == [type |-> "PROGRESS"]
           others == To(DOMAIN conn \ {c}, g)
<1>1. Outcome(m) /\ m \in Manager
  BY BeatenOutcome
<1>2. Free(f)
  BY FreeKinds DEF OnProgress
<1>3. Broadcast(m) \/ (m.playing /\ Serve(on, others)) \/ Broadcast(Announce(on))
  BY DEF OnProgress
<1>4. CASE Broadcast(m)
  BY <1>2, <1>4, BeatMessage
<1>5. on \in Manager /\ SameList(m, on) /\ on.playing
  <2> HIDE DEF m
  <2> QED
    BY <1>1 DEF Manager, SameList
<1>6. CASE Broadcast(Announce(on))
  <2> HIDE DEF on, m
  <2> QED
    BY <1>1, <1>2, <1>5, <1>6, ChangeOutcome, FreeAnswered, BroadcastAnswers
<1>7. CASE m.playing /\ Serve(on, others)
  <2>1. Outcome(on)
    <3> HIDE DEF m
    <3>1. Snapshot(on) = Snapshot(m)
      BY <1>1, <1>7 DEF Manager, Snapshot
    <3> HIDE DEF on
    <3> QED
      BY <1>1, <1>5, <3>1, StateKept, SameListKept DEF Outcome, SameList
  <2>2. \A x \in Conn : others[x] \in {<<>>, <<g>>}
    BY DEF To
  <2> HIDE DEF on, others, m
  <2>3. \A x \in Conn : Fits(on, others[x])
    BY <1>5, <2>2, NothingFits, ProgressFits
  <2> SUFFICES ASSUME NEW x \in DOMAIN conn, x \notin dead
               PROVE  \E s \in Seq(ServerFrame) :
                        SentTo(x, s) /\ (x = c => Answers(f, d, mgr, mgr', s, R))
    BY DEF MessageTold
  <2>4. x \in Conn
    BY DEF HubInv, Wires
  <2>5. on.out \o others[x] \in Seq(ServerFrame) /\ SentTo(x, on.out \o others[x])
    BY <1>7, <2>1, <2>3, <2>4, ServeTells
  <2> QED
    BY <1>2, <2>5, FreeAnswered
<1> QED
  BY <1>3, <1>4, <1>6, <1>7

LEMMA CastMessage ==
  ASSUME HubInv, NEW c \in Conn, NEW f \in ClientFrame, OnSetActiveDevice(c, f),
         NEW d, NEW R, ~CanTarget(Beaten(c), f.id) => d \in R
  PROVE  MessageTold(c, f, d, R)
<1> DEFINE m == Beaten(c)
<1>1. f \in CastFrame /\ f.type = "SET_ACTIVE_DEVICE"
  BY FrameKinds DEF OnSetActiveDevice
<1>2. f.id \in Device /\ (f.queue = {} \/ \E q \in Queue : f.queue = {q})
  BY <1>1 DEF CastFrame
<1>3. Outcome(m) /\ m \in Manager /\ Good(m) /\ m.queue \in Queue
  BY BeatenOutcome DEF Manager
<1>4. PICK q \in IF f.queue = {} THEN {m.queue} ELSE f.queue :
        Broadcast(IF CanTarget(m, f.id) THEN PointAt(m, f.id, q) ELSE m)
  BY DEF OnSetActiveDevice
<1>5. q \in Queue
  BY <1>2, <1>3, <1>4
<1>6. f \notin Claims /\ ~IsQueueEdit(f) /\ ~IsQueueReport(f)
  BY <1>1 DEF Claims, IsQueueEdit, IsQueueReport
<1> HIDE DEF m
<1>7. CASE CanTarget(m, f.id)
  <2> DEFINE n == PointAt(m, f.id, q)
  <2>1. StateTold(mgr, n) /\ RosterTold(mgr, n) /\ Has(n.out, Syncs)
    BY <1>2, <1>3, <1>5, PointTells DEF Outcome
  <2>2. Fine(m, n, {f.id})
    BY <1>2, <1>3, <1>5, <1>7, PointFine
  <2>3. Broadcast(n)
    BY <1>4, <1>7
  <2> HIDE DEF n
  <2>4. Outcome(n)
    BY <2>1, <2>2 DEF Outcome, Fine, Good
  <2>5. Answers(f, d, mgr, n, n.out, R)
    BY <1>6, <2>1 DEF Answers
  <2> QED
    BY <2>3, <2>4, <2>5, BroadcastAnswers
<1>8. CASE ~CanTarget(m, f.id)
  <2>1. Broadcast(m) /\ d \in R
    BY <1>4, <1>8 DEF m
  <2>2. Answers(f, d, mgr, m, m.out, R)
    BY <1>6, <2>1 DEF Answers
  <2> QED
    BY <1>3, <2>1, <2>2, BroadcastAnswers
<1> QED
  BY <1>7, <1>8

LEMMA ClaimMessage ==
  ASSUME HubInv, NEW c \in Conn, NEW f \in ClientFrame, OnClaimOutput(c, f),
         c \in DOMAIN conn, NEW R
  PROVE  MessageTold(c, f, Sender(c), R)
<1> DEFINE m == Beaten(c)
           d == Sender(c)
<1>1. f.track \in Track /\ f.queue \in Queue /\ f.type = "CLAIM_OUTPUT"
  BY FrameKinds DEF OnClaimOutput, ClaimFrame
<1>2. Outcome(m) /\ m \in Manager /\ Good(m)
  BY BeatenOutcome
<1>3. f \notin Casts /\ ~IsQueueEdit(f) /\ ~IsQueueReport(f)
  BY <1>1 DEF Casts, IsCast, IsQueueEdit, IsQueueReport
<1>4. CASE d # NoDevice /\ Claimable(m, d)
  <2> DEFINE n == ClaimOutput(m, d, f.track, f.queue)
  <2>1. d \in Device
    BY <1>4, SenderHeld
  <2>2. Broadcast(n)
    BY <1>4 DEF OnClaimOutput
  <2> HIDE DEF d, m
  <2>3. StateTold(mgr, n) /\ RosterTold(mgr, n) /\ Has(n.out, Syncs)
    BY <1>1, <1>2, <2>1, ClaimTellsAll DEF Outcome
  <2>4. Fine(m, n, {d})
    BY <1>1, <1>2, <1>4, <2>1, ClaimFine
  <2> HIDE DEF n
  <2>5. Outcome(n)
    BY <2>3, <2>4 DEF Outcome, Fine, Good
  <2>6. Answers(f, d, mgr, n, n.out, R)
    BY <1>3, <2>3 DEF Answers
  <2> QED
    BY <2>2, <2>5, <2>6, BroadcastAnswers DEF d
<1>5. CASE ~(d # NoDevice /\ Claimable(m, d))
  <2> DEFINE t == <<StateReply(m)>>
             own == To({c} \cap DOMAIN conn, StateReply(m))
  <2>1. Serve(m, own)
    BY <1>5 DEF OnClaimOutput
  <2>2. own[c] = t /\ \A x \in Conn : own[x] \in {<<>>, t}
    BY DEF To
  <2>3. Fits(m, t) /\ Has(t, Syncs)
    BY <1>2, ReplyFits
  <2> HIDE DEF own, t, m, d
  <2>4. \A x \in Conn : Fits(m, own[x])
    BY <2>2, <2>3, NothingFits
  <2> SUFFICES ASSUME NEW x \in DOMAIN conn, x \notin dead
               PROVE  \E s \in Seq(ServerFrame) :
                        SentTo(x, s) /\ (x = c => Answers(f, d, mgr, mgr', s, R))
    BY DEF MessageTold, d
  <2>5. x \in Conn
    BY DEF HubInv, Wires
  <2> DEFINE s == m.out \o own[x]
  <2>6. /\ s \in Seq(ServerFrame) /\ SentTo(x, s)
        /\ Has(own[x], Syncs) => Has(s, Syncs)
    BY <1>2, <2>1, <2>4, <2>5, ServeTells
  <2> HIDE DEF s
  <2>7. x = c => Answers(f, d, mgr, mgr', s, R)
    BY <1>3, <2>2, <2>3, <2>6 DEF Answers
  <2> QED
    BY <2>6, <2>7
<1> QED
  BY <1>4, <1>5

LEMMA ReleaseMessage ==
  ASSUME HubInv, NEW c \in Conn, NEW f \in ClientFrame, OnReleaseOutput(c, f), NEW d, NEW R
  PROVE  MessageTold(c, f, d, R)
<1>1. Free(f)
  BY FreeKinds DEF OnReleaseOutput
<1>2. CASE Sender(c) = NoDevice
  BY <1>1, <1>2, BeatMessage DEF OnReleaseOutput
<1>3. CASE Sender(c) # NoDevice
  <2> DEFINE m == Beaten(c)
             n == ReleaseIfActive(m, Sender(c))
  <2>1. Outcome(m) /\ m \in Manager
    BY BeatenOutcome
  <2>2. Broadcast(n)
    BY <1>3 DEF OnReleaseOutput
  <2> HIDE DEF m
  <2>3. Outcome(n)
    BY <2>1, ReleaseTells DEF Outcome
  <2> HIDE DEF n
  <2> QED
    BY <1>1, <2>2, <2>3, FreeAnswered, BroadcastAnswers
<1> QED
  BY <1>2, <1>3

LEMMA UpdateMessage ==
  ASSUME HubInv, NEW c \in Conn, NEW f \in ClientFrame, OnUpdateDevice(c, f), NEW d, NEW R
  PROVE  MessageTold(c, f, d, R)
<1> DEFINE m == Beaten(c)
           n == UpdateDevice(m, Sender(c), f.field, f.flag)
<1>1. f.flag \in BOOLEAN /\ Free(f) /\ Broadcast(n)
  BY FrameKinds, FreeKinds DEF OnUpdateDevice, UpdateFrame
<1>2. Outcome(m) /\ m \in Manager /\ Good(m)
  BY BeatenOutcome
<1>3. CASE Sender(c) = NoDevice
  <2>1. NoDevice \notin m.listed
    BY <1>2, DeviceAssumption DEF Manager
  <2>2. n = m
    BY <1>3, <2>1 DEF UpdateDevice
  <2> QED
    BY <1>1, <2>2, BeatMessage
<1>4. CASE Sender(c) # NoDevice
  <2>1. Sender(c) \in Device
    BY <1>4, SenderHeld
  <2> HIDE DEF m
  <2>2. StateTold(mgr, n) /\ RosterTold(mgr, n)
    BY <1>1, <1>2, UpdateTells DEF Outcome
  <2>3. Fine(m, n, {Sender(c)})
    BY <1>1, <1>2, <2>1, UpdateFine
  <2> HIDE DEF n
  <2>4. Outcome(n)
    BY <2>2, <2>3 DEF Outcome, Fine, Good
  <2> QED
    BY <1>1, <2>4, FreeAnswered, BroadcastAnswers
<1> QED
  BY <1>3, <1>4

\* Whatever a registered client sends.
LEMMA MessageTells ==
  ASSUME HubInv, NEW c \in Conn, NEW f \in ClientFrame, OnMessage(c, f), c \in DOMAIN conn,
         f.type # "REGISTER", NEW R,
         f.type = "SET_ACTIVE_DEVICE" /\ ~CanTarget(Beaten(c), f.id) => Sender(c) \in R
  PROVE  MessageTold(c, f, Sender(c), R) /\ conn' = conn
<1>1. \/ OnHeartbeat(c, f) \/ OnStateUpdate(c, f) \/ OnCommand(c, f) \/ OnProgress(c, f)
      \/ OnSetActiveDevice(c, f) \/ OnClaimOutput(c, f) \/ OnReleaseOutput(c, f)
      \/ OnUpdateDevice(c, f)
  BY DEF OnMessage, OnRegister
<1>2. conn' = conn
  BY <1>1 DEF OnHeartbeat, OnStateUpdate, OnCommand, OnProgress, OnSetActiveDevice,
              OnClaimOutput, OnReleaseOutput, OnUpdateDevice, Broadcast, Serve
<1>3. CASE OnHeartbeat(c, f)
  <2>1. f.type = "HEARTBEAT"
    BY <1>3 DEF OnHeartbeat
  <2> QED
    BY <1>2, <1>3, <2>1, BeatMessage, FreeKinds DEF OnHeartbeat
<1>4. CASE OnSetActiveDevice(c, f)
  <2>1. f.type = "SET_ACTIVE_DEVICE"
    BY <1>4 DEF OnSetActiveDevice
  <2> QED
    BY <1>2, <1>4, <2>1, CastMessage
<1>5. CASE OnStateUpdate(c, f) \/ OnCommand(c, f) \/ OnProgress(c, f)
  BY <1>2, <1>5, StateUpdateMessage, CommandMessage, ProgressMessage
<1>6. CASE OnClaimOutput(c, f) \/ OnReleaseOutput(c, f) \/ OnUpdateDevice(c, f)
  BY <1>2, <1>6, ClaimMessage, ReleaseMessage, UpdateMessage
<1> QED
  BY <1>1, <1>2, <1>3, <1>4, <1>5, <1>6

\* The open sockets among conns are told.
AllTold(conns) ==
  \A x \in conns : x \notin dead => \E s \in Seq(ServerFrame) : SentTo(x, s)

LEMMA RegisterMessage ==
  ASSUME HubInv, NEW c \in Conn, c \notin DOMAIN conn, NEW f \in ClientFrame, OnRegister(c, f)
  PROVE  /\ AllTold(DOMAIN conn)
         /\ c \notin dead => \E s \in Seq(ServerFrame) :
              SentTo(c, s) /\ Has(s, Syncs) /\ Has(s, Rosters)
<1> DEFINE r == f.registration
           m == RegisterDevice(mgr, r)
           t == <<StateReply(m)>>
           own == To({c}, StateReply(m))
           conns == DOMAIN conn \cup {c}
<1>1. r \in Registration
  BY FrameKinds DEF OnRegister, RegisterFrame
<1>2. mgr \in Manager /\ mgr.out = <<>> /\ Good(mgr) /\ Wires
  BY DEF HubInv, Good
<1>3. StateTold(mgr, m) /\ RosterTold(mgr, m)
  BY <1>1, <1>2, NothingTold, RegisterTells
<1>4. Fine(mgr, m, {r.device})
  BY <1>1, <1>2, RegisterFine
<1>5. Send(m, conns, own)
  BY DEF OnRegister
<1> HIDE DEF m
<1>6. Outcome(m) /\ m \in Manager
  BY <1>3, <1>4 DEF Outcome, Fine, Good
<1>7. own[c] = t /\ \A x \in Conn : own[x] \in {<<>>, t}
  BY DEF To
<1>8. Fits(m, t) /\ Has(t, Syncs) /\ Has(t, Rosters)
  BY <1>6, ReplyFits
<1> HIDE DEF own, t
<1>9. \A x \in Conn : Fits(m, own[x])
  BY <1>7, <1>8, NothingFits
<1>10. conns \subseteq Conn
  BY <1>2 DEF Wires
<1> HIDE DEF conns
<1>11. ASSUME NEW x \in conns, x \notin dead
       PROVE  /\ m.out \o own[x] \in Seq(ServerFrame) /\ SentTo(x, m.out \o own[x])
              /\ Has(own[x], Syncs) => Has(m.out \o own[x], Syncs)
              /\ Has(own[x], Rosters) => Has(m.out \o own[x], Rosters)
  <2>1. x \in Conn
    BY <1>10
  <2>2. /\ SentTo(x, m.out \o own[x])
        /\ Has(own[x], Syncs) => Has(m.out \o own[x], Syncs)
        /\ Has(own[x], Rosters) => Has(m.out \o own[x], Rosters)
    BY <1>2, <1>5, <1>6, <1>9, <1>11, <2>1, SendTells
  <2>3. m.out \o own[x] \in Seq(ServerFrame)
    BY <2>2 DEF SentTo, StateBrought
  <2> QED
    BY <2>2, <2>3
<1>12. c \in conns /\ \A x \in DOMAIN conn : x \in conns
  BY DEF conns
<1> QED
  BY <1>7, <1>8, <1>11, <1>12 DEF AllTold

LEMMA BroadcastAll ==
  ASSUME HubInv, NEW m, Outcome(m), Broadcast(m)
  PROVE  AllTold(DOMAIN conn)
  BY BroadcastTells DEF AllTold

LEMMA CloseAll ==
  ASSUME HubInv, NEW c \in Conn, OnClose(c)
  PROVE  AllTold(DOMAIN conn \ {c})
<1> DEFINE d == conn[c].device
           held == \E x \in DOMAIN conn \ {c} : conn[x].device = d
           m == IF held THEN mgr ELSE UnregisterDevice(mgr, d)
           own == [x \in Conn |-> <<>>]
           conns == DOMAIN conn \ {c}
<1>1. mgr \in Manager /\ mgr.out = <<>> /\ Good(mgr) /\ Wires
  BY DEF HubInv, Good
<1>2. d \in Device
  BY <1>1 DEF OnClose, Wires, Registration
<1>3. Send(m, conns, own)
  BY DEF OnClose
<1> HIDE DEF d, held
<1>4. StateTold(mgr, m) /\ RosterTold(mgr, m)
  BY <1>1, <1>2, NothingTold, UnregisterTells
<1>5. Fine(mgr, UnregisterDevice(mgr, d), {})
  BY <1>1, <1>2, UnregisterFine
<1>6. m \in Manager
  BY <1>1, <1>5 DEF Fine, Good
<1>7. Outcome(m)
  BY <1>4, <1>6 DEF Outcome
<1> HIDE DEF m
<1> SUFFICES ASSUME NEW x \in conns, x \notin dead
             PROVE  \E s \in Seq(ServerFrame) : SentTo(x, s)
  BY DEF AllTold
<1>8. x \in Conn /\ own[x] = <<>>
  BY <1>1 DEF Wires
<1> HIDE DEF own, conns
<1>9. SentTo(x, m.out \o own[x])
  BY <1>1, <1>3, <1>7, <1>8, NothingFits, SendTells
<1>10. m.out \o own[x] \in Seq(ServerFrame)
  BY <1>9 DEF SentTo, StateBrought
<1> QED
  BY <1>9, <1>10

LEMMA QuietAll ==
  ASSUME HubInv, mgr' \in Manager, down' = down, Snapshot(mgr') = Snapshot(mgr),
         Roster(mgr') = Roster(mgr), mgr'.listed = mgr.listed
  PROVE  AllTold(DOMAIN conn)
<1> SUFFICES ASSUME NEW x \in DOMAIN conn
             PROVE  SentTo(x, <<>>)
  <2>1. <<>> \in Seq(ServerFrame)
    OBVIOUS
  <2> QED
    BY <2>1 DEF AllTold
<1>1. down[x] \in Seq(ServerFrame) /\ <<>> \in Seq(ServerFrame)
  BY DEF HubInv, Wires
<1>2. down'[x] = down[x] \o <<>>
  BY <1>1
<1>3. Agrees(Roster(mgr), mgr')
  BY DEF Agrees, Roster
<1> QED
  BY <1>1, <1>2, <1>3, FreshOne DEF SentTo, StateBrought, RosterBrought

LEMMA ClocksAll ==
  ASSUME HubInv,
         \/ \E d \in Device : Expire(d) \/ Silence(d)
         \/ Sweep \/ ResetSession \/ IdleElapses
  PROVE  AllTold(DOMAIN conn)
<1>1. mgr \in Manager /\ mgr.out = <<>> /\ Good(mgr)
  BY DEF HubInv, Good
<1>2. StateTold(mgr, mgr) /\ RosterTold(mgr, mgr)
  BY <1>1, NothingTold
<1>3. ASSUME NEW d \in Device, Expire(d)
      PROVE  AllTold(DOMAIN conn)
  <2>1. Fine(mgr, GraceEnds(mgr, d), {})
    BY <1>1, GraceFine
  <2>2. Outcome(GraceEnds(mgr, d))
    BY <1>1, <1>2, <2>1, GraceTells DEF Outcome, Fine, Good
  <2> QED
    BY <1>3, <2>2, BroadcastAll DEF Expire
<1>4. CASE Sweep
  <2>1. Fine(mgr, CleanupStaleDevices(mgr), {})
    BY <1>1, SweepFine
  <2>2. Outcome(CleanupStaleDevices(mgr))
    BY <1>1, <1>2, <2>1, SweepTells DEF Outcome, Fine, Good
  <2> QED
    BY <1>4, <2>2, BroadcastAll DEF Sweep
<1>5. CASE ResetSession
  <2>1. Fine(mgr, Reset(mgr), {})
    BY <1>1, ResetFine
  <2>2. Outcome(Reset(mgr))
    BY <1>1, <1>2, <2>1, ResetTells DEF Outcome, Fine, Good
  <2> QED
    BY <1>5, <2>2, BroadcastAll DEF ResetSession
<1>6. ASSUME NEW d \in Device, Silence(d)
      PROVE  AllTold(DOMAIN conn)
  <2>1. mgr' \in Manager /\ Snapshot(mgr') = Snapshot(mgr) /\ Roster(mgr') = Roster(mgr)
        /\ mgr'.listed = mgr.listed /\ down' = down
    BY <1>1, <1>6 DEF Silence, Manager, Snapshot, Roster
  <2> QED
    BY <2>1, QuietAll
<1>7. CASE IdleElapses
  <2>1. mgr' \in Manager /\ Snapshot(mgr') = Snapshot(mgr) /\ Roster(mgr') = Roster(mgr)
        /\ mgr'.listed = mgr.listed /\ down' = down
    BY <1>1, <1>7 DEF IdleElapses, Manager, Snapshot, Roster
  <2> QED
    BY <2>1, QuietAll
<1> QED
  BY <1>3, <1>4, <1>5, <1>6, <1>7
---------------------------------------------------------------------------
(* Every client follows the server.                                         *)

\* The server has d registered on the socket d holds.
Joined(d) == Live(d) /\ sock[d] \in DOMAIN conn

\* Once all that is under way between d and the server has arrived, d's page
\* shows the session as it is.
Follows(d) ==
  Joined(d) => /\ Lists(cl[d], down[sock[d]], mgr)
               /\ Tracks(cl[d], d, down[sock[d]], up[sock[d]], mgr, refused)
AllFollow == \A d \in Device : Follows(d)

LEMMA JoinedTypes ==
  ASSUME RemoteInv, NEW d \in Device, Live(d)
  PROVE  /\ sock[d] \in Conn /\ sock[d] \notin dead
         /\ down[sock[d]] \in Seq(ServerFrame) /\ up[sock[d]] \in Seq(ClientFrame)
         /\ cl[d] \in ClientType
         /\ \A e \in Device : sock[e] = sock[d] => e = d
  BY DEF RemoteInv, PageTypes, Linked, UpTypes, Owned, HubInv, Wires, Live, Online

\* Nothing of d changes.
LEMMA FollowKept ==
  ASSUME NEW d \in Device, Follows(d), mgr' = mgr, d \in refused => d \in refused',
         Joined(d)' => /\ Joined(d) /\ sock'[d] = sock[d] /\ cl'[d] = cl[d]
                       /\ up'[sock[d]] = up[sock[d]] /\ down'[sock[d]] = down[sock[d]]
  PROVE  Follows(d)'
<1> SUFFICES ASSUME Joined(d)'
             PROVE  /\ Lists(cl[d], down[sock[d]], mgr)
                    /\ Tracks(cl[d], d, down[sock[d]], up[sock[d]], mgr, refused')
  BY DEF Follows
<1>1. /\ Lists(cl[d], down[sock[d]], mgr)
      /\ Tracks(cl[d], d, down[sock[d]], up[sock[d]], mgr, refused)
  BY DEF Follows
<1>2. InStep(cl[d], d, up[sock[d]], mgr, refused) => InStep(cl[d], d, up[sock[d]], mgr, refused')
  BY InStepKept
<1> QED
  BY <1>1, <1>2 DEF Tracks

\* The server sends d's socket s.
LEMMA FollowTold ==
  ASSUME RemoteInv, NEW d \in Device, Follows(d), Joined(d), NEW s, SentTo(sock[d], s),
         cl' = cl, sock' = sock, d \in refused => d \in refused',
         InStep(cl[d], d, up[sock[d]], mgr, refused) /\ Snapshot(mgr') = Snapshot(mgr)
           => InStep(cl[d], d, up'[sock[d]], mgr', refused') \/ Has(s, Syncs)
  PROVE  Follows(d)'
<1> DEFINE D == down[sock[d]]
<1>1. D \in Seq(ServerFrame)
  BY JoinedTypes DEF Joined
<1>2. /\ Lists(cl[d], D, mgr) /\ Tracks(cl[d], d, D, up[sock[d]], mgr, refused)
      /\ StateBrought(mgr, mgr', s) /\ RosterBrought(mgr, mgr', s)
      /\ down'[sock[d]] = D \o s
  BY DEF Follows, SentTo
<1> HIDE DEF D
<1>3. Lists(cl[d], D \o s, mgr')
  BY <1>1, <1>2, ListsTold
<1>4. Tracks(cl[d], d, D \o s, up'[sock[d]], mgr', refused')
  BY <1>1, <1>2, TracksTold
<1> QED
  BY <1>2, <1>3, <1>4 DEF Follows

LEMMA AllFollowTold ==
  ASSUME RemoteInv, AllFollow, NEW conns, AllTold(conns), DOMAIN conn' = conns,
         conns \subseteq DOMAIN conn, UNCHANGED <<cl, sock, up, dead, refused>>
  PROVE  AllFollow'
<1> SUFFICES ASSUME NEW d \in Device PROVE Follows(d)'
  BY DEF AllFollow
<1>1. CASE ~Joined(d)'
  BY <1>1 DEF Follows
<1>2. CASE Joined(d)'
  <2>1. Joined(d) /\ sock[d] \in conns /\ sock[d] \notin dead
    BY <1>2 DEF Joined, Live, Online
  <2>2. PICK s \in Seq(ServerFrame) : SentTo(sock[d], s)
    BY <2>1 DEF AllTold
  <2>3. Snapshot(mgr') = Snapshot(mgr) /\ InStep(cl[d], d, up[sock[d]], mgr, refused)
          => InStep(cl[d], d, up'[sock[d]], mgr', refused')
    BY InStepKept
  <2> QED
    BY <2>1, <2>2, <2>3, FollowTold DEF AllFollow
<1> QED
  BY <1>1, <1>2

\* A registered client is heard.
LEMMA MessageFollowed ==
  ASSUME RemoteInv, AllFollow, NEW c \in Conn, ServerReads(c), Head(up[c]).type # "REGISTER"
  PROVE  AllFollow'
<1> DEFINE f == Head(up[c])
<1>1. c \in DOMAIN conn
  BY SenderOf DEF RemoteInv, ServerReads
<1>2. up[c] \in Seq(ClientFrame) /\ up[c] # <<>>
  BY DEF RemoteInv, Linked, UpTypes, ServerReads
<1>3. f \in ClientFrame
  BY <1>2
<1>4. /\ OnMessage(c, f) /\ cl' = cl /\ sock' = sock
      /\ up'[c] = Tail(up[c]) /\ \A x \in Conn \ {c} : up'[x] = up[x]
      /\ \A d \in refused : d \in refused'
      /\ f.type = "SET_ACTIVE_DEVICE" /\ ~CanTarget(Beaten(c), f.id) => Sender(c) \in refused'
  BY DEF ServerReads, RemoteInv, Linked, UpTypes
<1>5. MessageTold(c, f, Sender(c), refused') /\ conn' = conn
  <2> HIDE DEF f
  <2>1. f.type # "REGISTER"
    BY DEF f
  <2>2. HubInv
    BY DEF RemoteInv
  <2> QED
    BY <1>1, <1>3, <1>4, <2>1, <2>2, MessageTells
<1>6. dead' = dead
  BY <1>3, <1>4 DEF OnMessage, OnRegister, OnHeartbeat, OnStateUpdate, OnCommand,
                    OnProgress, OnSetActiveDevice, OnClaimOutput, OnReleaseOutput,
                    OnUpdateDevice, Broadcast, Serve
<1> SUFFICES ASSUME NEW d \in Device PROVE Follows(d)'
  BY DEF AllFollow
<1>7. CASE ~Joined(d)'
  BY <1>7 DEF Follows
<1>8. CASE Joined(d)'
  <2>1. Joined(d) /\ sock[d] \in DOMAIN conn /\ sock[d] \notin dead /\ Follows(d)
    BY <1>4, <1>5, <1>6, <1>8 DEF Joined, Live, Online, AllFollow
  <2>2. PICK s \in Seq(ServerFrame) :
          SentTo(sock[d], s)
          /\ (sock[d] = c => Answers(f, Sender(c), mgr, mgr', s, refused'))
    BY <1>5, <2>1 DEF MessageTold
  <2>3. sock[d] \in Conn
    BY <2>1, JoinedTypes DEF Joined
  <2>4. CASE sock[d] # c
    <3>1. Snapshot(mgr') = Snapshot(mgr) /\ InStep(cl[d], d, up[sock[d]], mgr, refused)
            => InStep(cl[d], d, up'[sock[d]], mgr', refused')
      BY <1>4, <2>3, <2>4, InStepKept
    <3> QED
      BY <1>4, <2>1, <2>2, <3>1, FollowTold
  <2>5. CASE sock[d] = c
    <3>1. Sender(c) = d
      BY <1>1, <2>1, <2>5 DEF Sender, RemoteInv, Linked, Owned, Joined, Live
    <3>2. Answers(Head(up[c]), d, mgr, mgr', s, refused')
      BY <2>2, <2>5, <3>1
    <3>3. Snapshot(mgr') = Snapshot(mgr) /\ InStep(cl[d], d, up[c], mgr, refused)
            => InStep(cl[d], d, up'[c], mgr', refused') \/ Has(s, Syncs)
      BY <1>2, <1>4, <3>2, StepHeard
    <3> QED
      BY <1>4, <2>1, <2>2, <2>5, <3>3, FollowTold
  <2> QED
    BY <2>4, <2>5
<1> QED
  BY <1>7, <1>8

\* Whoever registers gets the state and the device list.
LEMMA RegisterFollowed ==
  ASSUME RemoteInv, AllFollow, NEW c \in Conn, ServerReads(c), Head(up[c]).type = "REGISTER"
  PROVE  AllFollow'
<1> DEFINE f == Head(up[c])
<1>1. up[c] \in Seq(ClientFrame) /\ up[c] # <<>>
  BY DEF RemoteInv, Linked, UpTypes, ServerReads
<1>2. f \in ClientFrame /\ f = up[c][1] /\ 1 \in DOMAIN up[c]
  BY <1>1
<1>3. c \notin DOMAIN conn
  BY <1>2 DEF RemoteInv, Linked, UpTypes
<1>4. /\ OnMessage(c, f) /\ cl' = cl /\ sock' = sock /\ refused' = refused
      /\ \A x \in Conn \ {c} : up'[x] = up[x]
  BY DEF ServerReads, RemoteInv, Linked, UpTypes
<1>5. OnRegister(c, f)
  BY <1>4 DEF OnMessage, OnHeartbeat, OnStateUpdate, OnCommand, OnProgress,
              OnSetActiveDevice, OnClaimOutput, OnReleaseOutput, OnUpdateDevice
<1>6. DOMAIN conn' = DOMAIN conn \cup {c} /\ dead' = dead
  BY <1>5 DEF OnRegister
<1>7. /\ AllTold(DOMAIN conn)
      /\ c \notin dead => \E s \in Seq(ServerFrame) :
           SentTo(c, s) /\ Has(s, Syncs) /\ Has(s, Rosters)
  <2> HIDE DEF f
  <2>1. HubInv
    BY DEF RemoteInv
  <2> QED
    BY <1>2, <1>3, <1>5, <2>1, RegisterMessage
<1> HIDE DEF f
<1> SUFFICES ASSUME NEW d \in Device, Joined(d)' PROVE Follows(d)'
  BY DEF AllFollow, Follows
<1>8. Live(d) /\ sock[d] \in DOMAIN conn \cup {c}
  BY <1>4, <1>6 DEF Joined, Live, Online
<1>9. sock[d] \in Conn /\ sock[d] \notin dead /\ down[sock[d]] \in Seq(ServerFrame)
  BY <1>8, JoinedTypes
<1>10. CASE sock[d] # c
  <2>1. Joined(d) /\ Follows(d)
    BY <1>8, <1>10 DEF Joined, AllFollow
  <2>2. PICK s \in Seq(ServerFrame) : SentTo(sock[d], s)
    BY <1>7, <1>8, <1>9, <1>10 DEF AllTold
  <2>3. Snapshot(mgr') = Snapshot(mgr) /\ InStep(cl[d], d, up[sock[d]], mgr, refused)
          => InStep(cl[d], d, up'[sock[d]], mgr', refused')
    BY <1>4, <1>9, <1>10, InStepKept
  <2> QED
    BY <1>4, <2>1, <2>2, <2>3, FollowTold
<1>11. CASE sock[d] = c
  <2>1. PICK s \in Seq(ServerFrame) : SentTo(c, s) /\ Has(s, Syncs) /\ Has(s, Rosters)
    BY <1>7, <1>9, <1>11
  <2> DEFINE D == down[c]
  <2>2. /\ down'[c] = D \o s /\ D \in Seq(ServerFrame)
        /\ Fresh(s, Syncs, Now(mgr')) /\ Fresh(s, Rosters, Shows(mgr'))
    BY <1>9, <1>11, <2>1 DEF SentTo, StateBrought, RosterBrought
  <2> HIDE DEF D
  <2>3. /\ Has(D \o s, Syncs) /\ Fresh(D \o s, Syncs, Now(mgr'))
        /\ Has(D \o s, Rosters) /\ Fresh(D \o s, Rosters, Shows(mgr'))
    BY <2>1, <2>2, FreshJoins
  <2> QED
    BY <1>4, <1>11, <2>2, <2>3 DEF Follows, Lists, Tracks
<1> QED
  BY <1>10, <1>11

LEMMA ClientReadsFollowed ==
  ASSUME RemoteInv, AllFollow, NEW d \in Device, ClientReads(d)
  PROVE  AllFollow'
<1> DEFINE c == sock[d]
           f == Head(down[c])
<1>1. Live(d) /\ down[c] # <<>>
  BY DEF ClientReads
<1>2. /\ c \in Conn /\ c \notin dead /\ down[c] \in Seq(ServerFrame)
      /\ up[c] \in Seq(ClientFrame) /\ cl[d] \in ClientType
      /\ \A e \in Device : sock[e] = c => e = d
  BY <1>1, JoinedTypes
<1>3. f \in ServerFrame
  BY <1>1, <1>2
<1>4. PICK k \in Client!HandleFrame(cl[d], d, f) : Become(d, k)
  BY DEF ClientReads
<1>5. /\ down' = [down EXCEPT ![c] = Tail(down[c])]
      /\ UNCHANGED <<mgr, conn, dead, sock, up>>
      /\ refused' = IF IsSync(f) THEN refused \ {d} ELSE refused
  BY DEF ClientReads, Taken, IsSync
<1>6. down'[c] = Tail(down[c]) /\ \A x \in Conn \ {c} : down'[x] = down[x]
  BY <1>2, <1>5 DEF RemoteInv, HubInv, Wires
<1>7. k \in ClientType /\ Hears(cl[d], f, k)
  <2> HIDE DEF f
  <2> QED
    BY <1>2, <1>3, <1>4, FrameHandled
<1>8. cl'[d] = k /\ \A e \in Device \ {d} : cl'[e] = cl[e]
  BY <1>4, <1>7, BecomePage DEF RemoteInv
<1>9. mgr \in Manager
  BY DEF RemoteInv, HubInv, Good
<1> SUFFICES ASSUME NEW e \in Device PROVE Follows(e)'
  BY DEF AllFollow
<1>10. CASE e # d
  <2>1. Joined(e)' => /\ Joined(e) /\ sock[e] \in Conn \ {c}
    <3>1. Joined(e)' => Joined(e)
      BY <1>5 DEF Joined, Live, Online
    <3>2. Joined(e) => sock[e] \in Conn
      BY JoinedTypes DEF Joined
    <3> QED
      BY <1>2, <1>10, <3>1, <3>2
  <2>2. e \in refused => e \in refused'
    BY <1>5, <1>10
  <2>3. Follows(e)
    BY DEF AllFollow
  <2> QED
    BY <1>5, <1>6, <1>8, <1>10, <2>1, <2>2, <2>3, FollowKept
<1>11. CASE e = d
  <2> SUFFICES ASSUME Joined(d)' PROVE Follows(d)'
    BY <1>11 DEF Follows
  <2>1. Joined(d)
    BY <1>5 DEF Joined, Live, Online
  <2>2. Lists(cl[d], down[c], mgr) /\ Tracks(cl[d], d, down[c], up[c], mgr, refused)
    BY <2>1 DEF AllFollow, Follows
  <2>3. Lists(k, Tail(down[c]), mgr)
    BY <1>1, <1>2, <1>7, <2>2, ListsHeard
  <2>4. Tracks(k, d, Tail(down[c]), up[c], mgr, refused')
    BY <1>1, <1>2, <1>5, <1>7, <1>9, <2>2, TracksHeard
  <2> QED
    BY <1>5, <1>6, <1>8, <2>3, <2>4 DEF Follows
<1> QED
  BY <1>10, <1>11

\* The page of d becomes k, and says so.
LEMMA SaysFollowed ==
  ASSUME RemoteInv, AllFollow, NEW d \in Device, NEW k, k.roster = cl[d].roster,
         cl'[d] = k, \A e \in Device \ {d} : cl'[e] = cl[e],
         NEW frames \in Seq(ClientFrame), Post(d, frames), UNCHANGED <<hubVars, sock, refused>>,
         \A U \in Seq(ClientFrame) :
           InStep(cl[d], d, U, mgr, refused) => InStep(k, d, U \o frames, mgr, refused)
  PROVE  AllFollow'
<1>1. UNCHANGED <<mgr, conn, down, dead, sock, refused>>
  BY DEF hubVars
<1>2. \A e \in Device : Joined(e)' <=> Joined(e)
  BY <1>1 DEF Joined, Live, Online
<1> SUFFICES ASSUME NEW e \in Device, Joined(e) PROVE Follows(e)'
  BY <1>2 DEF AllFollow, Follows
<1>3. Live(e) /\ Follows(e)
  BY DEF Joined, AllFollow
<1>4. sock[e] \in Conn /\ up[sock[e]] \in Seq(ClientFrame)
  BY <1>3, JoinedTypes
<1>5. CASE e # d
  <2>1. up'[sock[e]] = up[sock[e]]
    <3>1. sock[e] # sock[d]
      BY <1>3, <1>5, JoinedTypes
    <3> QED
      BY <1>4, <3>1 DEF Post, RemoteInv, Linked, UpTypes
  <2> QED
    BY <1>1, <1>3, <1>5, <2>1, FollowKept
<1>6. CASE e = d
  <2>1. up'[sock[d]] = up[sock[d]] \o frames
    BY <1>3, <1>4, <1>6 DEF Post, RemoteInv, Linked, UpTypes
  <2>2. /\ Lists(cl[d], down[sock[d]], mgr)
        /\ Tracks(cl[d], d, down[sock[d]], up[sock[d]], mgr, refused)
    BY <1>3, <1>6 DEF Follows
  <2>3. Lists(k, down[sock[d]], mgr)
    BY <2>2 DEF Lists
  <2>4. InStep(cl[d], d, up[sock[d]], mgr, refused)
          => InStep(k, d, up'[sock[d]], mgr, refused)
    BY <1>4, <1>6, <2>1
  <2>5. Tracks(k, d, down[sock[d]], up'[sock[d]], mgr, refused)
    BY <2>2, <2>4 DEF Tracks
  <2> QED
    BY <1>1, <1>6, <2>3, <2>5 DEF Follows
<1> QED
  BY <1>5, <1>6

\* The page of d changes nothing it shows of the session, and says no cast.
LEMMA SameFollowed ==
  ASSUME RemoteInv, AllFollow, NEW d \in Device, NEW k, SameMirror(cl[d], k),
         cl'[d] = k, \A e \in Device \ {d} : cl'[e] = cl[e],
         NEW frames \in Seq(ClientFrame), Post(d, frames), UNCHANGED <<hubVars, sock, refused>>,
         \A i \in DOMAIN frames : ~IsCast(frames[i])
  PROVE  AllFollow'
<1>1. ASSUME NEW U \in Seq(ClientFrame), InStep(cl[d], d, U, mgr, refused)
      PROVE  InStep(k, d, U \o frames, mgr, refused)
  BY <1>1, SameInStep
<1>2. k.roster = cl[d].roster
  BY DEF SameMirror
<1> QED
  BY <1>1, <1>2, SaysFollowed

LEMMA EffectsFollowed ==
  ASSUME RemoteInv, AllFollow, NEW d \in Device, EffectsRun(d)
  PROVE  AllFollow'
<1> DEFINE e == Client!Flush(cl[d], d)
<1>1. cl[d] \in ClientType
  BY DEF RemoteInv, PageTypes
<1>2. Tells(cl[d], d, e)
  BY <1>1, FlushTells
<1>3. Become(d, e.k) /\ Post(d, e.sends) /\ UNCHANGED <<hubVars, sock, refused>>
  BY DEF EffectsRun
<1> HIDE DEF e
<1>4. e.k \in ClientType /\ e.sends \in Seq(ClientFrame) /\ e.k.roster = cl[d].roster
  BY <1>2, TalkIsFrame DEF Tells
<1>5. cl'[d] = e.k /\ \A x \in Device \ {d} : cl'[x] = cl[x]
  BY <1>3, <1>4, BecomePage DEF RemoteInv
<1>6. ASSUME NEW U \in Seq(ClientFrame), InStep(cl[d], d, U, mgr, refused)
      PROVE  InStep(e.k, d, U \o e.sends, mgr, refused)
  BY <1>2, <1>6, EffectInStep
<1> QED
  BY <1>3, <1>4, <1>5, <1>6, SaysFollowed

LEMMA CastFollowed ==
  ASSUME RemoteInv, AllFollow, NEW d \in Device, Cast(d)
  PROVE  AllFollow'
<1>1. PICK t \in ({d} \cup cl[d].roster.available) \ {cl[d].view} :
        LET done == Client!CastTo(cl[d], d, t)
        IN  Become(d, done.k) /\ Post(d, done.sends)
  BY DEF Cast
<1> DEFINE e == Client!CastTo(cl[d], d, t)
<1>2. cl[d] \in ClientType /\ t \in Device /\ t # cl[d].view
  BY <1>1 DEF RemoteInv, PageTypes, ClientType, RosterType
<1>3. e.k \in ClientType /\ e.sends \in Seq(Talk) /\ e.k.roster = cl[d].roster
  BY <1>2, CastFacts
<1>4. Become(d, e.k) /\ Post(d, e.sends) /\ UNCHANGED <<hubVars, sock, refused>>
  BY <1>1 DEF Cast
<1>5. ASSUME NEW U \in Seq(ClientFrame), InStep(cl[d], d, U, mgr, refused)
      PROVE  InStep(e.k, d, U \o e.sends, mgr, refused)
  BY <1>2, <1>5, CastInStep
<1> HIDE DEF e
<1>6. e.sends \in Seq(ClientFrame)
  BY <1>3, TalkIsFrame
<1>7. cl'[d] = e.k /\ \A x \in Device \ {d} : cl'[x] = cl[x]
  BY <1>3, <1>4, BecomePage DEF RemoteInv
<1> QED
  BY <1>3, <1>4, <1>5, <1>6, <1>7, SaysFollowed

LEMMA OneFrame ==
  ASSUME NEW f \in ClientFrame, ~IsCast(f)
  PROVE  <<f>> \in Seq(ClientFrame) /\ \A i \in DOMAIN <<f>> : ~IsCast(<<f>>[i])
  OBVIOUS

LEMMA BeatsFollowed ==
  ASSUME RemoteInv, AllFollow, NEW d \in Device, Beat(d) \/ Progress(d) \/ Control(d)
  PROVE  AllFollow'
<1>1. PICK f \in ClientFrame : ~IsCast(f) /\ Post(d, <<f>>)
  <2> DEFINE b == [type |-> "HEARTBEAT"]
             p == [type |-> "PROGRESS_REPORT"]
             a(x) == [type |-> "COMMAND", action |-> x]
  <2>1. /\ b \in ClientFrame /\ ~IsCast(b) /\ p \in ClientFrame /\ ~IsCast(p)
        /\ \A x \in {"PAUSE", "PLAY", "NEXT", "SEEK"} : a(x) \in ClientFrame /\ ~IsCast(a(x))
    BY DEF ClientFrame, BeatFrame, ProgressFrame, CommandFrame, IsCast
  <2>2. \/ Post(d, <<b>>) \/ Post(d, <<p>>)
        \/ \E x \in {"PAUSE", "PLAY", "NEXT", "SEEK"} : Post(d, <<a(x)>>)
    BY DEF Beat, Progress, Control
  <2> HIDE DEF a, b, p
  <2> QED
    BY <2>1, <2>2
<1>2. cl' = cl /\ UNCHANGED <<hubVars, sock, refused>>
  BY DEF Beat, Progress, Control
<1>3. SameMirror(cl[d], cl[d])
  BY DEF SameMirror
<1> DEFINE frames == <<f>>
<1>4. frames \in Seq(ClientFrame) /\ \A i \in DOMAIN frames : ~IsCast(frames[i])
  BY <1>1, OneFrame
<1> HIDE DEF frames
<1>5. Post(d, frames)
  BY <1>1 DEF frames
<1> QED
  BY <1>2, <1>3, <1>4, <1>5, SameFollowed

LEMMA FlagsFollowed ==
  ASSUME RemoteInv, AllFollow, NEW d \in Device, SetOutputAvailable(d) \/ MarkActivated(d)
  PROVE  AllFollow'
<1>1. cl[d] \in ClientType /\ cl[d].enabled \in BOOLEAN
  BY DEF RemoteInv, PageTypes, ClientType
<1>2. PICK k \in ClientType, f \in ClientFrame :
        SameMirror(cl[d], k) /\ ~IsCast(f) /\ Become(d, k) /\ Post(d, <<f>>)
  <2>1. CASE SetOutputAvailable(d)
    <3> DEFINE on == ~cl[d].enabled
               n == [cl[d] EXCEPT !.enabled = on]
               g == [type |-> "UPDATE_DEVICE", field |-> "remoteEnabled", flag |-> on]
    <3>1. Become(d, n) /\ Post(d, <<g>>)
      BY <2>1 DEF SetOutputAvailable
    <3>2. on \in BOOLEAN
      OBVIOUS
    <3> HIDE DEF on
    <3>3. n \in ClientType /\ SameMirror(cl[d], n)
      BY <1>1, <3>2 DEF ClientType, SameMirror
    <3>4. g \in ClientFrame /\ ~IsCast(g)
      BY <3>2 DEF ClientFrame, UpdateFrame, IsCast
    <3> HIDE DEF n, g
    <3> QED
      BY <3>1, <3>3, <3>4
  <2>2. CASE MarkActivated(d)
    <3> DEFINE n == [cl[d] EXCEPT !.activated = TRUE]
               g == [type |-> "UPDATE_DEVICE", field |-> "activated", flag |-> TRUE]
    <3>1. Become(d, n) /\ Post(d, <<g>>)
      BY <2>2 DEF MarkActivated
    <3>2. n \in ClientType /\ SameMirror(cl[d], n)
      BY <1>1 DEF ClientType, SameMirror
    <3>3. g \in ClientFrame /\ ~IsCast(g)
      BY DEF ClientFrame, UpdateFrame, IsCast
    <3> HIDE DEF n, g
    <3> QED
      BY <3>1, <3>2, <3>3
  <2> QED
    BY <2>1, <2>2
<1>3. UNCHANGED <<hubVars, sock, refused>>
  BY DEF SetOutputAvailable, MarkActivated
<1>4. cl'[d] = k /\ \A x \in Device \ {d} : cl'[x] = cl[x]
  BY <1>2, BecomePage DEF RemoteInv
<1> DEFINE frames == <<f>>
<1>5. frames \in Seq(ClientFrame) /\ \A i \in DOMAIN frames : ~IsCast(frames[i])
  BY <1>2, OneFrame
<1>6. Post(d, frames)
  BY <1>2
<1> HIDE DEF frames
<1> QED
  BY <1>2, <1>3, <1>4, <1>5, <1>6, SameFollowed

LEMMA ActsFollowed ==
  ASSUME RemoteInv, AllFollow, NEW d \in Device, UserActs(d)
  PROVE  AllFollow'
<1>1. PICK k : Acts(d, k)
  BY ActFacts DEF RemoteInv
<1>2. SameMirror(cl[d], k) /\ k \in ClientType /\ UNCHANGED <<hubVars, sock, up, refused>>
  BY <1>1 DEF Acts
<1>3. cl'[d] = k /\ \A x \in Device \ {d} : cl'[x] = cl[x]
  BY <1>1, BecomePage DEF RemoteInv, Acts
<1>4. <<>> \in Seq(ClientFrame) /\ \A i \in DOMAIN <<>> : ~IsCast(<<>>[i])
  OBVIOUS
<1>5. Post(d, <<>>)
  <2>1. CASE ~Live(d)
    BY <1>2, <2>1 DEF Post
  <2>2. CASE Live(d)
    <3>1. up[sock[d]] \in Seq(ClientFrame) /\ up \in [Conn -> Seq(ClientFrame)]
      BY <2>2, JoinedTypes DEF RemoteInv, Linked, UpTypes
    <3>2. up[sock[d]] \o <<>> = up[sock[d]]
      BY <3>1
    <3> QED
      BY <1>2, <2>2, <3>1, <3>2 DEF Post
  <2> QED
    BY <2>1, <2>2
<1> QED
  BY <1>2, <1>3, <1>4, <1>5, SameFollowed

\* The socket of d opens, breaks or is given up; the others' do not change.
LEMMA LinkFollowed ==
  ASSUME RemoteInv, AllFollow, NEW d \in Device, mgr' = mgr, conn' = conn, ~Joined(d)',
         \A e \in Device \ {d} :
           /\ sock'[e] = sock[e] /\ cl'[e] = cl[e] /\ (e \in refused => e \in refused')
           /\ Online(e) => /\ up'[sock[e]] = up[sock[e]] /\ down'[sock[e]] = down[sock[e]]
                           /\ sock[e] \notin dead' => sock[e] \notin dead
  PROVE  AllFollow'
<1> SUFFICES ASSUME NEW e \in Device, Joined(e)' PROVE Follows(e)'
  BY DEF AllFollow, Follows
<1>1. e # d
  OBVIOUS
<1>2. Online(e) /\ sock[e] \notin dead' /\ sock[e] \in DOMAIN conn
  BY <1>1 DEF Joined, Live, Online
<1>3. Joined(e) /\ Follows(e)
  BY <1>1, <1>2 DEF Joined, Live, AllFollow
<1> QED
  BY <1>1, <1>2, <1>3, FollowKept

LEMMA BreakFollowed ==
  ASSUME RemoteInv, AllFollow, NEW d \in Device, Leave(d) \/ Cut(d)
  PROVE  AllFollow'
<1>1. /\ \A e \in Device \ {d} : /\ sock'[e] = sock[e] /\ cl'[e] = cl[e]
                                 /\ e \in refused => e \in refused'
      /\ Leave(d) => sock'[d] = NoConn
      /\ Cut(d) => sock'[d] = sock[d]
  BY DEF RemoteInv, PageTypes, Leave, Cut, Become
<1>2. CASE Live(d)
  <2>1. Break(sock[d]) /\ sock[d] \in Conn
    BY <1>2, JoinedTypes DEF Leave, Cut
  <2>2. /\ mgr' = mgr /\ conn' = conn /\ dead' = dead \cup {sock[d]}
        /\ \A x \in Conn \ {sock[d]} : down'[x] = down[x]
    BY <2>1 DEF Break, RemoteInv, HubInv, Wires
  <2>3. \A x \in Conn \ {sock[d]} : up'[x] = up[x]
    BY <1>2 DEF Leave, Cut, RemoteInv, Linked, UpTypes
  <2>4. ASSUME NEW e \in Device \ {d}, Online(e)
        PROVE  sock[e] \in Conn \ {sock[d]}
    BY <2>4 DEF RemoteInv, Linked, Owned, PageTypes, Online
  <2>5. ~Joined(d)'
    BY <1>1, <2>2 DEF Joined, Live, Online
  <2> QED
    BY <1>1, <2>2, <2>3, <2>4, <2>5, LinkFollowed
<1>3. CASE ~Live(d)
  <2>1. Leave(d) /\ UNCHANGED <<mgr, conn, down, dead, up>>
    BY <1>3 DEF Leave, Cut, hubVars
  <2>2. ~Joined(d)'
    BY <1>1, <2>1 DEF Joined, Live, Online
  <2> QED
    BY <1>1, <2>1, <2>2, LinkFollowed
<1> QED
  BY <1>2, <1>3

LEMMA NoticeFollowed ==
  ASSUME RemoteInv, AllFollow, NEW d \in Device, ClientNotices(d)
  PROVE  AllFollow'
<1>1. /\ sock' = [sock EXCEPT ![d] = NoConn]
      /\ UNCHANGED <<mgr, conn, down, dead, cl, up, refused>>
  BY DEF ClientNotices, hubVars
<1>2. sock'[d] = NoConn /\ \A e \in Device \ {d} : sock'[e] = sock[e]
  BY <1>1 DEF RemoteInv, PageTypes
<1>3. ~Joined(d)'
  BY <1>2 DEF Joined, Live, Online
<1> QED
  BY <1>1, <1>2, <1>3, LinkFollowed

LEMMA ConnectFollowed ==
  ASSUME RemoteInv, AllFollow, NEW d \in Device, Connect(d)
  PROVE  AllFollow'
<1>1. PICK c \in Conn :
        /\ Idle(c) /\ OnOpen(c) /\ sock' = [sock EXCEPT ![d] = c]
        /\ \A x \in Conn \ {c} : up'[x] = up[x]
  BY DEF Connect, RemoteInv, Linked, UpTypes
<1>2. /\ mgr' = mgr /\ conn' = conn /\ dead' = dead \ {c} /\ cl' = cl /\ refused' = refused
      /\ \A x \in Conn \ {c} : down'[x] = down[x]
      /\ c \notin DOMAIN conn
  BY <1>1 DEF OnOpen, Connect, RemoteInv, HubInv, Wires
<1>3. sock'[d] = c /\ \A e \in Device \ {d} : sock'[e] = sock[e]
  BY <1>1 DEF RemoteInv, PageTypes
<1>4. \A e \in Device : Online(e) => sock[e] \in Conn \ {c}
  BY <1>1 DEF Idle, RemoteInv, PageTypes, Online
<1>5. ~Joined(d)'
  BY <1>2, <1>3 DEF Joined, Live, Online
<1> QED
  BY <1>1, <1>2, <1>3, <1>4, <1>5, LinkFollowed

LEMMA CloseFollowed ==
  ASSUME RemoteInv, AllFollow, NEW c \in Conn, ServerNotices(c)
  PROVE  AllFollow'
<1>1. HubInv /\ OnClose(c) /\ UNCHANGED <<cl, sock, up, refused>>
  BY DEF RemoteInv, ServerNotices, clientVars
<1>2. AllTold(DOMAIN conn \ {c})
  BY <1>1, CloseAll
<1>3. DOMAIN conn' = DOMAIN conn \ {c} /\ dead' = dead
  BY <1>1 DEF OnClose, Restrict
<1> QED
  BY <1>1, <1>2, <1>3, AllFollowTold

LEMMA ClocksFollowed ==
  ASSUME RemoteInv, AllFollow,
         \/ \E d \in Device : GoesSilent(d) \/ GraceRunsOut(d)
         \/ SweepRuns \/ GoesIdle \/ ResetRoute
  PROVE  AllFollow'
<1>1. UNCHANGED <<conn, dead, cl, sock, up, refused>>
  BY DEF GoesSilent, GraceRunsOut, SweepRuns, GoesIdle, ResetRoute,
         Silence, Expire, Sweep, IdleElapses, ResetSession, Broadcast, Serve, clientVars
<1>2. HubInv
  BY DEF RemoteInv
<1>3. \/ \E d \in Device : Expire(d) \/ Silence(d)
      \/ Sweep \/ ResetSession \/ IdleElapses
  BY DEF GoesSilent, GraceRunsOut, SweepRuns, GoesIdle, ResetRoute
<1>4. AllTold(DOMAIN conn)
  BY <1>2, <1>3, ClocksAll
<1> QED
  BY <1>1, <1>4, AllFollowTold

LEMMA NothingFollowed ==
  ASSUME AllFollow, UNCHANGED <<hubVars, cl, sock, up, refused>>
  PROVE  AllFollow'
  BY DEF hubVars, AllFollow, Follows, Joined, Live, Online

LEMMA NextFollowed ==
  ASSUME RemoteInv, AllFollow, Next
  PROVE  AllFollow'
<1>1. ASSUME NEW d \in Device, DeviceStep(d)
      PROVE  AllFollow'
  <2>1. CASE ClientReads(d)
    BY <2>1, ClientReadsFollowed
  <2>2. CASE EffectsRun(d)
    BY <2>2, EffectsFollowed
  <2>3. CASE Beat(d) \/ Progress(d) \/ Control(d)
    BY <2>3, BeatsFollowed
  <2>4. CASE UserActs(d)
    BY <2>4, ActsFollowed
  <2>5. CASE Cast(d)
    BY <2>5, CastFollowed
  <2>6. CASE SetOutputAvailable(d) \/ MarkActivated(d)
    BY <2>6, FlagsFollowed
  <2>7. CASE Leave(d) \/ Cut(d)
    BY <2>7, BreakFollowed
  <2>8. CASE Boot(d)
    BY <2>8, NothingFollowed DEF Boot
  <2>9. CASE ClientNotices(d)
    BY <2>9, NoticeFollowed
  <2>10. CASE Connect(d)
    BY <2>10, ConnectFollowed
  <2>11. CASE GoesSilent(d) \/ GraceRunsOut(d)
    BY <2>11, ClocksFollowed
  <2> QED
    BY <1>1, <2>1, <2>2, <2>3, <2>4, <2>5, <2>6, <2>7, <2>8, <2>9, <2>10, <2>11
       DEF DeviceStep, UserActs
<1>2. ASSUME NEW c \in Conn, ServerReads(c)
      PROVE  AllFollow'
  BY <1>2, MessageFollowed, RegisterFollowed
<1>3. ASSUME NEW c \in Conn, ServerNotices(c)
      PROVE  AllFollow'
  BY <1>3, CloseFollowed
<1>4. CASE SweepRuns \/ GoesIdle \/ ResetRoute
  BY <1>4, ClocksFollowed
<1> QED
  BY <1>1, <1>2, <1>3, <1>4 DEF Next

LEMMA FollowInit ==
  ASSUME Init
  PROVE  AllFollow
<1> SUFFICES ASSUME NEW d \in Device, Joined(d) PROVE Follows(d)
  BY DEF AllFollow, Follows
<1>1. down[sock[d]] = <<>>
  BY HomeFacts DEF Init
<1>2. cl[d].roster = Roster(Met) /\ Roster(mgr) = Roster(Met) /\ mgr.listed = Met.listed
      /\ cl[d].rplaying = mgr.playing /\ cl[d].claim = NoTrack
      /\ cl[d].view = mgr.active /\ cl[d].sessQ = mgr.queue
  <2>1. /\ Met \in Manager /\ Met.playing = FALSE /\ Met.active = NoDevice
        /\ Met.queue = EmptyQueue
    <3>1. Met \in Manager
      BY MetIsGood DEF Good
    <3> QED
      BY <3>1 DEF Met, NewManager
  <2>2. CASE mgr = Met /\ cl = [x \in Device |-> Loaded(x)]
    <3>1. cl[d] = Loaded(d)
      BY <2>2
    <3>2. /\ Loaded(d) \in ClientType /\ ~Loaded(d).rplaying
          /\ Loaded(d).view = NoDevice /\ Loaded(d).roster = Roster(Met)
          /\ Loaded(d).claim = NoTrack /\ Loaded(d).sessQ = EmptyQueue
      BY PagesAtInit
    <3>3. Loaded(d).rplaying = FALSE
      BY <3>2 DEF ClientType
    <3> HIDE DEF Met
    <3> QED
      BY <2>1, <2>2, <3>1, <3>2, <3>3
  <2>3. ASSUME NEW o \in Players,
               mgr = [Met EXCEPT !.active = o, !.playing = TRUE, !.track = Restored[o].trk,
                                 !.queue = Restored[o].q, !.idle = FALSE],
               cl = [x \in Device |-> Mirror(x, o)]
        PROVE  /\ cl[d].roster = Roster(Met) /\ Roster(mgr) = Roster(Met)
               /\ mgr.listed = Met.listed
               /\ cl[d].rplaying = mgr.playing /\ cl[d].claim = NoTrack
               /\ cl[d].view = mgr.active /\ cl[d].sessQ = mgr.queue
    <3>1. o \in Device
      BY RemoteAssumption
    <3>2. cl[d] = Mirror(d, o)
      BY <2>3
    <3> HIDE DEF Met
    <3>3. /\ Mirror(d, o).view = o /\ Mirror(d, o).roster = Roster(Met)
          /\ Mirror(d, o).rplaying = TRUE /\ Mirror(d, o).claim = NoTrack
          /\ Mirror(d, o).sessQ = Restored[o].q
      <4>1. Mirror(d, o) \in ClientType
        BY <3>1, PagesAtInit
      <4> QED
        BY <3>1, <4>1, PagesAtInit DEF ClientType
    <3>4. /\ mgr.active = o /\ mgr.playing = TRUE /\ mgr.queue = Restored[o].q
          /\ mgr.listed = Met.listed /\ mgr.enabled = Met.enabled
          /\ mgr.activated = Met.activated /\ mgr.pending = Met.pending
          /\ mgr.stale = Met.stale
      BY <2>1, <2>3 DEF Manager
    <3>5. Roster(mgr) = Roster(Met)
      BY <3>4 DEF Roster
    <3> QED
      BY <3>2, <3>3, <3>4, <3>5
  <2> QED
    BY <2>2, <2>3 DEF Init
<1>3. Agrees(cl[d].roster, mgr)
  <2>1. Agrees(Roster(mgr), mgr)
    BY DEF Agrees, Roster
  <2> QED
    BY <1>2, <2>1
<1>4. InStep(cl[d], d, up[sock[d]], mgr, refused)
  BY <1>2 DEF InStep
<1>5. /\ Fresh(<<>>, Rosters, Shows(mgr)) /\ Fresh(<<>>, Syncs, Now(mgr))
  BY FreshOne
<1> QED
  BY <1>1, <1>3, <1>4, <1>5 DEF Follows, Lists, Tracks

(* Whatever the other devices, their links and the timers do, and however   *)
(* many they are: a client that has heard the server and was heard shows    *)
(* the session's output, state, queue and devices, and waits for no answer, *)
(* but for the target of a refused cast.                                    *)
THEOREM Agreement == Spec => []ClientsAgree
<1>1. Init => RemoteInv /\ AllFollow
  BY RemoteInit, FollowInit
<1>2. RemoteInv /\ AllFollow /\ [Next]_vars => RemoteInv' /\ AllFollow'
  <2>1. ASSUME RemoteInv, AllFollow, Next PROVE AllFollow'
    BY <2>1, NextFollowed
  <2>2. ASSUME AllFollow, UNCHANGED vars PROVE AllFollow'
    BY <2>2, NothingFollowed DEF vars, clientVars
  <2>3. RemoteInv /\ [Next]_vars => RemoteInv'
    BY NextIsStep, RemoteStutter DEF RemoteInv, RemoteStep, PageStep
  <2> QED
    BY <2>1, <2>2, <2>3
<1>3. RemoteInv /\ AllFollow => ClientsAgree
  <2> SUFFICES ASSUME AllFollow, NEW d \in Device, Heard(d)
               PROVE  LET r == cl[d].roster
                      IN  /\ r.listed = mgr.listed /\ r.available = Roster(mgr).available
                          /\ Roster(mgr).pending \subseteq r.pending
                          /\ cl[d].rplaying = mgr.playing /\ cl[d].claim = NoTrack
                          /\ d \notin refused => cl[d].view = mgr.active
                                                 /\ cl[d].sessQ = mgr.queue
    BY DEF ClientsAgree
  <2>1. Joined(d) /\ up[sock[d]] = <<>> /\ down[sock[d]] = <<>>
    BY DEF Heard, Joined
  <2>2. \A M : ~Has(<<>>, M)
    BY DEF Has
  <2>3. Agrees(cl[d].roster, mgr) /\ InStep(cl[d], d, <<>>, mgr, refused)
    BY <2>1, <2>2 DEF AllFollow, Follows, Lists, Tracks
  <2>4. ~Bears(<<>>, cl[d], d)
    BY DEF Bears
  <2> QED
    BY <2>2, <2>3, <2>4 DEF Agrees, InStep
<1> QED
  BY <1>1, <1>2, <1>3, PTL DEF Spec
====
