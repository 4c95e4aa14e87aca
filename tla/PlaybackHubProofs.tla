-------------------------- MODULE PlaybackHubProofs --------------------------
(***************************************************************************)
(* PlaybackHub, for any clients: its type, NoGhosts, and that it implements *)
(* PlaybackSession.                                                         *)
(*                                                                         *)
(* A handler is a composition of the operators of PlaybackState, so each    *)
(* operator has one lemma: from a good manager it makes a good one, and     *)
(* what it does to the output, the song and the devices that are within     *)
(* reach.  The emitted frames matter to the type alone.                     *)
(***************************************************************************)
EXTENDS PlaybackHub, TLAPS

Good(m) ==
  /\ m \in Manager
  /\ m.enabled \subseteq m.listed
  /\ m.activated \subseteq m.listed
  /\ m.stale \subseteq m.listed
  /\ m.active # NoDevice => m.active \in m.listed

\* All but the emitted frames.
Same(m, n) ==
  /\ n.active = m.active /\ n.playing = m.playing /\ n.track = m.track
  /\ n.queue = m.queue /\ n.idle = m.idle
  /\ n.listed = m.listed /\ n.enabled = m.enabled /\ n.activated = m.activated
  /\ n.pending = m.pending /\ n.stale = m.stale

\* The devices the list shows without a grace: a socket must hold each.
Shown(m) == m.listed \ m.pending

---------------------------------------------------------------------------
(* Frames.                                                                  *)

LEMMA StateIsFrame ==
  ASSUME NEW m \in Manager
  PROVE  StateSync(m) \in ServerFrame
<1>1. Snapshot(m) \in StateType
  BY DEF Manager, Snapshot, StateType
<1>2. StateSync(m) \in [type : {"STATE_SYNC"}, state : StateType, devices : SUBSET RosterType]
  BY <1>1 DEF StateSync
<1> QED
  BY <1>2 DEF ServerFrame

LEMMA RosterIsRoster ==
  ASSUME NEW m \in Manager
  PROVE  Roster(m) \in RosterType
  BY DEF Manager, Roster, RosterType

LEMMA ReplyIsFrame ==
  ASSUME NEW m \in Manager
  PROVE  StateReply(m) \in ServerFrame
<1>1. Snapshot(m) \in StateType /\ Roster(m) \in RosterType
  BY RosterIsRoster DEF Manager, Snapshot, StateType
<1>2. StateReply(m) \in [type : {"STATE_SYNC"}, state : StateType, devices : SUBSET RosterType]
  BY <1>1 DEF StateReply
<1> QED
  BY <1>2 DEF ServerFrame

LEMMA DevicesIsFrame ==
  ASSUME NEW m \in Manager
  PROVE  DevicesSync(m) \in ServerFrame
<1>1. DevicesSync(m) \in [type : {"DEVICES_SYNC"}, devices : RosterType]
  BY RosterIsRoster DEF DevicesSync
<1> QED
  BY <1>1 DEF ServerFrame

LEMMA EmitIsSame ==
  ASSUME NEW m \in Manager, NEW frame \in ServerFrame
  PROVE  Emit(m, frame) \in Manager /\ Same(m, Emit(m, frame))
<1>1. Append(m.out, frame) \in Seq(ServerFrame)
  BY DEF Manager
<1> QED
  BY <1>1 DEF Emit, Manager, Same

LEMMA GoodIsSame ==
  ASSUME NEW m, NEW n \in Manager, Good(m), Same(m, n)
  PROVE  Good(n)
  BY DEF Good, Same

LEMMA AnnounceIsSame ==
  ASSUME NEW m, Good(m)
  PROVE  Good(Announce(m)) /\ Same(m, Announce(m))
<1>1. m \in Manager
  BY DEF Good
<1>2. Announce(m) \in Manager /\ Same(m, Announce(m))
  BY <1>1, StateIsFrame, EmitIsSame DEF Announce
<1> QED
  BY <1>2, GoodIsSame

LEMMA AnnounceDevicesIsSame ==
  ASSUME NEW m, Good(m)
  PROVE  Good(AnnounceDevices(m)) /\ Same(m, AnnounceDevices(m))
<1>1. m \in Manager
  BY DEF Good
<1>2. AnnounceDevices(m) \in Manager /\ Same(m, AnnounceDevices(m))
  BY <1>1, DevicesIsFrame, EmitIsSame DEF AnnounceDevices
<1> QED
  BY <1>2, GoodIsSame

---------------------------------------------------------------------------
(* Steps.                                                                   *)

\* A step of PlaybackSession, on managers.
SessionStep(m, n) ==
  \/ n.active = m.active
  \/ n.active = NoDevice /\ n.track \in {m.track, NoTrack}
  \/ /\ n.active \in Device /\ n.active \notin n.pending /\ n.track \in Track
     /\ m.active \in {NoDevice, n.active} \/ m.active \notin Drivable(m)
  \/ n.active \in Drivable(n) /\ n.track = m.track

\* m becomes n in a good way; only devices in D come into reach.
Fine(m, n, D) ==
  /\ Good(n)
  /\ SessionStep(m, n)
  /\ Shown(n) \subseteq Shown(m) \cup D

LEMMA FineThenSame ==
  ASSUME NEW m, NEW n, NEW o, NEW D, Fine(m, n, D), Good(o), Same(n, o)
  PROVE  Fine(m, o, D)
  BY DEF Same, Fine, SessionStep, Shown, Drivable

\* A change that leaves output and device list alone.
LEMMA KeepIsFine ==
  ASSUME NEW m, NEW n, NEW D, Good(m), n \in Manager,
         n.active = m.active, n.listed = m.listed, n.enabled = m.enabled,
         n.activated = m.activated, n.stale = m.stale, n.pending = m.pending
  PROVE  Fine(m, n, D)
  BY DEF Good, Fine, SessionStep, Shown

LEMMA AnnounceFine ==
  ASSUME NEW m, NEW n, NEW D, Fine(m, n, D)
  PROVE  Fine(m, Announce(n), D)
<1>1. Good(n)
  BY DEF Fine
<1> QED
  BY <1>1, AnnounceIsSame, FineThenSame

LEMMA AnnounceDevicesFine ==
  ASSUME NEW m, NEW n, NEW D, Fine(m, n, D)
  PROVE  Fine(m, AnnounceDevices(n), D)
<1>1. Good(n)
  BY DEF Fine
<1> QED
  BY <1>1, AnnounceDevicesIsSame, FineThenSame

LEMMA EmitFine ==
  ASSUME NEW m, NEW n, NEW D, Fine(m, n, D), NEW frame \in ServerFrame
  PROVE  Fine(m, Emit(n, frame), D)
<1>1. Good(n) /\ n \in Manager
  BY DEF Fine, Good
<1> QED
  BY <1>1, EmitIsSame, GoodIsSame, FineThenSame

---------------------------------------------------------------------------
(* The session's operators.                                                 *)

LEMMA CancelGood ==
  ASSUME NEW m, Good(m), NEW d \in Device
  PROVE  LET n == CancelPendingRelease(m, d)
         IN  /\ Good(n)
             /\ n.active = m.active /\ n.track = m.track
             /\ n.listed = m.listed /\ n.pending = m.pending \ {d}
  BY DEF Good, Manager, CancelPendingRelease

LEMMA EndSessionFacts ==
  ASSUME NEW m, Good(m)
  PROVE  LET n == EndSession(m)
         IN  /\ Good(n)
             /\ n.active = NoDevice /\ n.track = m.track
             /\ n.listed = m.listed /\ n.pending = m.pending
<1> DEFINE e == [m EXCEPT !.active = NoDevice, !.playing = FALSE]
<1>1. Good(e) /\ e.active = NoDevice /\ e.track = m.track /\ e.listed = m.listed
      /\ e.pending = m.pending
  BY DEF Good, Manager
<1>2. EndSession(m) = Announce(e)
  BY DEF EndSession
<1> HIDE DEF e
<1> QED
  BY <1>1, <1>2, AnnounceIsSame DEF Same

LEMMA ReleaseFacts ==
  ASSUME NEW m, Good(m), NEW d \in Device
  PROVE  LET n == ReleaseIfActive(m, d)
         IN  /\ Good(n)
             /\ n.active \in {m.active, NoDevice} /\ n.track = m.track
             /\ n.listed = m.listed /\ m.pending \ {d} \subseteq n.pending
             /\ d \notin m.pending => n.pending = m.pending
<1>1. CASE m.active = d
  <2> DEFINE e == CancelPendingRelease(m, d)
  <2>1. Good(e) /\ e.track = m.track /\ e.listed = m.listed /\ e.pending = m.pending \ {d}
    BY CancelGood
  <2>2. ReleaseIfActive(m, d) = EndSession(e)
    BY <1>1 DEF ReleaseIfActive
  <2> HIDE DEF e
  <2> QED
    BY <2>1, <2>2, EndSessionFacts
<1>2. CASE m.active # d
  BY <1>2 DEF ReleaseIfActive
<1> QED
  BY <1>1, <1>2

LEMMA ReleaseFine ==
  ASSUME NEW m, Good(m), NEW d \in Device
  PROVE  Fine(m, ReleaseIfActive(m, d), {d})
  BY ReleaseFacts DEF Fine, SessionStep, Shown

LEMMA ClaimFine ==
  ASSUME NEW m, Good(m), NEW d \in Device, NEW track \in Track, NEW queue \in Queue,
         Claimable(m, d)
  PROVE  Fine(m, ClaimOutput(m, d, track, queue), {d})
<1> DEFINE c == CancelPendingRelease(m, d)
           n == [c EXCEPT !.active = d, !.track = track, !.playing = TRUE, !.queue = queue,
                          !.idle = FALSE]
<1>1. Good(c) /\ c.listed = m.listed /\ c.pending = m.pending \ {d}
  BY CancelGood
<1>2. d \in m.listed
  BY DEF Claimable
<1>3. Good(n) /\ n.active = d /\ n.track = track /\ n.listed = m.listed
      /\ n.pending = m.pending \ {d}
  <2> HIDE DEF c
  <2> QED
    BY <1>1, <1>2 DEF Good, Manager
<1>4. m.active \in {NoDevice, d} \/ m.active \notin Drivable(m)
  BY DEF Claimable, CanTarget
<1>5. ClaimOutput(m, d, track, queue) = Announce(n)
  BY DEF ClaimOutput
<1> HIDE DEF n
<1>6. Fine(m, n, {d})
  BY <1>3, <1>4 DEF Fine, SessionStep, Shown
<1> QED
  BY <1>5, <1>6, AnnounceFine

LEMMA PointFine ==
  ASSUME NEW m, Good(m), NEW d \in Device, NEW queue \in Queue, CanTarget(m, d)
  PROVE  Fine(m, PointAt(m, d, queue), {d})
<1> DEFINE n == [m EXCEPT !.active = d, !.queue = queue, !.idle = @ /\ d = NoDevice]
<1>1. d \in m.listed /\ d \in Drivable(m)
  BY DEF CanTarget, Drivable
<1>2. Good(n) /\ n.active = d /\ n.track = m.track /\ n.listed = m.listed
      /\ n.pending = m.pending /\ n.enabled = m.enabled /\ n.activated = m.activated
  BY <1>1 DEF Good, Manager
<1>3. PointAt(m, d, queue) = Announce(n)
  BY DEF PointAt
<1> HIDE DEF n
<1>4. n.active \in Drivable(n)
  BY <1>1, <1>2 DEF Drivable
<1>5. Fine(m, n, {d})
  BY <1>2, <1>4 DEF Fine, SessionStep, Shown
<1> QED
  BY <1>3, <1>5, AnnounceFine

LEMMA ReportFine ==
  ASSUME NEW m, NEW n, NEW D, Fine(m, n, D)
  PROVE  Fine(m, Report(m, n), D)
  BY AnnounceFine DEF Report

---------------------------------------------------------------------------
(* The device list's operators.                                             *)

LEMMA ForgetFacts ==
  ASSUME NEW m, Good(m), NEW gone \in SUBSET Device, m.active \notin gone \/ m.active = NoDevice
  PROVE  LET n == Forget(m, gone)
         IN  /\ Good(n)
             /\ n.active = m.active /\ n.track = m.track
             /\ n.listed = m.listed \ gone /\ n.pending = m.pending
             /\ n.stale = m.stale \ gone
             /\ n.idle = m.idle
  BY DEF Good, Manager, Forget

\* Registering touches no device but its own.
LEMMA RegisterFacts ==
  ASSUME NEW m, Good(m), NEW r \in Registration
  PROVE  LET n == RegisterDevice(m, r)
             d == r.device
         IN  /\ Good(n)
             /\ n.active \in {m.active, NoDevice} /\ n.track = m.track
             /\ n.listed = m.listed \cup {d} /\ n.pending = m.pending \ {d}
             /\ m.active # d =>
                  /\ n.active = m.active
                  /\ m.active \in Drivable(m) <=> m.active \in Drivable(n)
<1> DEFINE d == r.device
           c == CancelPendingRelease(m, d)
           seen == [c EXCEPT !.listed = @ \cup {d}, !.stale = @ \ {d},
                             !.enabled = With(@, d, r.enabled),
                             !.activated = With(@, d, r.activated)]
           left == IF r.enabled THEN seen ELSE ReleaseIfActive(seen, d)
<1>1. d \in Device
  BY DEF Registration
<1>2. Good(c) /\ c.active = m.active /\ c.track = m.track /\ c.listed = m.listed
      /\ c.pending = m.pending \ {d} /\ c.enabled = m.enabled /\ c.activated = m.activated
  BY <1>1, CancelGood DEF CancelPendingRelease, Good, Manager
<1>3. Good(seen) /\ seen.active = m.active /\ seen.track = m.track
      /\ seen.listed = m.listed \cup {d} /\ seen.pending = m.pending \ {d}
      /\ seen.enabled = With(m.enabled, d, r.enabled)
      /\ seen.activated = With(m.activated, d, r.activated)
  <2> HIDE DEF c
  <2> HIDE DEF d
  <2> QED
    BY <1>1, <1>2 DEF Good, Manager, With
<1>4. m.active # d => (m.active \in Drivable(m) <=> m.active \in Drivable(seen))
  BY <1>3 DEF Drivable, With
<1> HIDE DEF seen
<1>5. /\ Good(left) /\ left.active \in {m.active, NoDevice} /\ left.track = m.track
      /\ left.listed = m.listed \cup {d} /\ left.pending = m.pending \ {d}
      /\ m.active # d => left = seen
  <2>1. CASE r.enabled
    BY <1>3, <2>1
  <2>2. CASE ~r.enabled
    <3>1. left = ReleaseIfActive(seen, d)
      BY <2>2
    <3>2. d \notin seen.pending
      BY <1>3
    <3>3. m.active # d => left = seen
      BY <1>3, <3>1 DEF ReleaseIfActive
    <3> QED
      BY <1>1, <1>3, <3>1, <3>2, <3>3, ReleaseFacts
  <2> QED
    BY <2>1, <2>2
<1>6. RegisterDevice(m, r) = AnnounceDevices(left)
  BY DEF RegisterDevice, seen
<1> HIDE DEF left
<1>7. Good(AnnounceDevices(left)) /\ Same(left, AnnounceDevices(left))
  BY <1>5, AnnounceDevicesIsSame
<1>8. m.active # d => (m.active \in Drivable(m) <=> m.active \in Drivable(AnnounceDevices(left)))
  BY <1>4, <1>5, <1>7 DEF Same, Drivable
<1> QED
  BY <1>3, <1>5, <1>6, <1>7, <1>8 DEF Same

LEMMA RegisterFine ==
  ASSUME NEW m, Good(m), NEW r \in Registration
  PROVE  Fine(m, RegisterDevice(m, r), {r.device})
  BY RegisterFacts DEF Fine, SessionStep, Shown

\* A beat leaves the session where it is, whether it heals the list or not.
LEMMA HeartbeatFacts ==
  ASSUME NEW m, Good(m), NEW r \in Registration
  PROVE  LET n == Heartbeat(m, r)
         IN  /\ Good(n)
             /\ n.active = m.active /\ n.track = m.track
             /\ m.active \in Drivable(m) <=> n.active \in Drivable(n)
             /\ Shown(n) \subseteq Shown(m) \cup {r.device}
<1>1. CASE r.device \in m.listed
  <2> DEFINE n == [m EXCEPT !.stale = @ \ {r.device}]
  <2>1. Good(n) /\ n.active = m.active /\ n.track = m.track /\ n.listed = m.listed
        /\ n.pending = m.pending /\ n.enabled = m.enabled /\ n.activated = m.activated
    BY DEF Good, Manager
  <2>2. Heartbeat(m, r) = n
    BY <1>1 DEF Heartbeat
  <2> HIDE DEF n
  <2> QED
    BY <2>1, <2>2 DEF Drivable, Shown
<1>2. CASE r.device \notin m.listed
  <2>1. Heartbeat(m, r) = RegisterDevice(m, r)
    BY <1>2 DEF Heartbeat
  <2>2. m.active # r.device
    BY <1>2, DeviceAssumption DEF Good, Registration
  <2> QED
    BY <2>1, <2>2, RegisterFacts DEF Shown
<1> QED
  BY <1>1, <1>2

LEMMA UpdateFine ==
  ASSUME NEW m, Good(m), NEW d \in Device, NEW flag \in BOOLEAN, NEW field
  PROVE  Fine(m, UpdateDevice(m, d, field, flag), {d})
<1> DEFINE a == [m EXCEPT !.activated = With(@, d, flag)]
           e == [m EXCEPT !.enabled = With(@, d, flag)]
<1>1. CASE d \notin m.listed
  BY <1>1 DEF UpdateDevice, Fine, SessionStep, Shown
<1>2. CASE d \in m.listed /\ field = "activated"
  <2>1. Fine(m, a, {d})
    BY <1>2 DEF Fine, Good, Manager, SessionStep, Shown, With
  <2>2. UpdateDevice(m, d, field, flag) = AnnounceDevices(a)
    BY <1>2 DEF UpdateDevice
  <2> HIDE DEF a
  <2> QED
    BY <2>1, <2>2, AnnounceDevicesFine
<1>3. CASE d \in m.listed /\ field # "activated"
  <2>1. Good(e) /\ e.active = m.active /\ e.track = m.track /\ e.listed = m.listed
        /\ e.pending = m.pending
    BY <1>3 DEF Good, Manager, With
  <2>2. UpdateDevice(m, d, field, flag) =
          AnnounceDevices(IF flag THEN e ELSE ReleaseIfActive(e, d))
    BY <1>3 DEF UpdateDevice
  <2> HIDE DEF e
  <2>3. Fine(m, e, {d})
    BY <2>1 DEF Fine, SessionStep, Shown
  <2>4. Fine(m, ReleaseIfActive(e, d), {d})
    BY <2>1, ReleaseFacts DEF Fine, SessionStep, Shown
  <2> QED
    BY <2>2, <2>3, <2>4, AnnounceDevicesFine
<1> QED
  BY <1>1, <1>2, <1>3

\* The output keeps its place for the grace.  Another device goes, so only
\* what is shown of the others need be held.
LEMMA UnregisterFine ==
  ASSUME NEW m, Good(m), NEW d \in Device
  PROVE  /\ Fine(m, UnregisterDevice(m, d), {})
         /\ d \notin Shown(UnregisterDevice(m, d))
<1>1. CASE m.active = d /\ d \in m.pending
  <2>1. UnregisterDevice(m, d) = m
    BY <1>1 DEF UnregisterDevice, LoseActiveDevice
  <2> QED
    BY <1>1, <2>1 DEF Fine, SessionStep, Shown
<1>2. CASE m.active = d /\ d \notin m.pending
  <2> DEFINE n == [m EXCEPT !.pending = @ \cup {d}]
  <2>1. Good(n) /\ n.active = m.active /\ n.listed = m.listed
        /\ n.pending = m.pending \cup {d}
    BY DEF Good, Manager
  <2>2. UnregisterDevice(m, d) = AnnounceDevices(n)
    BY <1>2 DEF UnregisterDevice, LoseActiveDevice
  <2> HIDE DEF n
  <2>3. Fine(m, n, {}) /\ d \notin Shown(n)
    BY <2>1 DEF Fine, SessionStep, Shown
  <2> QED
    BY <2>1, <2>2, <2>3, AnnounceDevicesFine, AnnounceDevicesIsSame DEF Same, Shown
<1>3. CASE m.active # d
  <2> DEFINE n == Forget(m, {d})
  <2>1. Good(n) /\ n.active = m.active /\ n.listed = m.listed \ {d} /\ n.pending = m.pending
    BY <1>3, ForgetFacts
  <2>2. UnregisterDevice(m, d) = AnnounceDevices(n)
    BY <1>3 DEF UnregisterDevice
  <2> HIDE DEF n
  <2>3. Fine(m, n, {}) /\ d \notin Shown(n)
    BY <2>1 DEF Fine, SessionStep, Shown
  <2> QED
    BY <2>1, <2>2, <2>3, AnnounceDevicesFine, AnnounceDevicesIsSame DEF Same, Shown
<1> QED
  BY <1>1, <1>2, <1>3

LEMMA GraceFine ==
  ASSUME NEW m, Good(m), NEW d \in Device
  PROVE  Fine(m, GraceEnds(m, d), {})
<1> DEFINE c == CancelPendingRelease(m, d)
           gone == Forget(c, {d})
<1>1. Good(c) /\ c.active = m.active /\ c.track = m.track /\ c.listed = m.listed
      /\ c.pending = m.pending \ {d}
  BY CancelGood
<1>2. CASE m.active = d
  <2> DEFINE off == EndSession(gone)
             e == [gone EXCEPT !.active = NoDevice, !.playing = FALSE]
  <2>1. /\ gone \in Manager /\ gone.track = m.track /\ gone.listed = m.listed \ {d}
        /\ gone.pending = m.pending \ {d} /\ gone.enabled \subseteq gone.listed
        /\ gone.activated \subseteq gone.listed /\ gone.stale \subseteq gone.listed
    <3> HIDE DEF c
    <3> QED
      BY <1>1 DEF Good, Manager, Forget
  <2> HIDE DEF gone
  <2>2. Good(e) /\ e.active = NoDevice /\ e.track = m.track /\ e.listed = m.listed \ {d}
        /\ e.pending = m.pending \ {d}
    BY <2>1 DEF Good, Manager
  <2>3. off = Announce(e)
    BY DEF EndSession
  <2> HIDE DEF e
  <2>4. Fine(m, e, {})
    BY <2>2 DEF Fine, SessionStep, Shown
  <2>5. Fine(m, off, {})
    BY <2>3, <2>4, AnnounceFine
  <2>6. GraceEnds(m, d) = AnnounceDevices(off)
    BY <1>2 DEF GraceEnds, gone
  <2> QED
    BY <2>5, <2>6, AnnounceDevicesFine
<1>3. CASE m.active # d
  <2>1. Good(gone) /\ gone.active = m.active /\ gone.listed = m.listed \ {d}
        /\ gone.pending = m.pending \ {d}
    <3> HIDE DEF c
    <3> QED
      BY <1>1, <1>3, ForgetFacts
  <2>2. GraceEnds(m, d) = AnnounceDevices(gone)
    BY <1>3 DEF GraceEnds
  <2> HIDE DEF gone
  <2>3. Fine(m, gone, {})
    BY <2>1 DEF Fine, SessionStep, Shown
  <2> QED
    BY <2>2, <2>3, AnnounceDevicesFine
<1> QED
  BY <1>2, <1>3

LEMMA SweepFine ==
  ASSUME NEW m, Good(m)
  PROVE  Fine(m, CleanupStaleDevices(m), {})
<1> DEFINE gone == m.stale \ {m.active}
           lost == (m.stale \cap {m.active}) \ m.pending
           f == Forget(m, gone)
           left == [f EXCEPT !.pending = @ \cup lost]
           told == IF gone \cup lost = {} THEN left ELSE AnnounceDevices(left)
<1>1. gone \in SUBSET Device /\ lost \in SUBSET Device /\ m.active \notin gone
  BY DEF Good, Manager
<1>2. Good(f) /\ f.active = m.active /\ f.track = m.track /\ f.listed = m.listed \ gone
      /\ f.pending = m.pending
  BY <1>1, ForgetFacts
<1>3. Good(left) /\ left.active = m.active /\ left.track = m.track
      /\ left.listed = m.listed \ gone /\ left.pending = m.pending \cup lost
  <2> HIDE DEF f, gone, lost
  <2> QED
    BY <1>1, <1>2 DEF Good, Manager
<1>4. CleanupStaleDevices(m) =
        IF told.active # NoDevice /\ told.active \notin told.pending /\ told.idle
        THEN EndSession(told) ELSE told
  BY DEF CleanupStaleDevices
<1> HIDE DEF left
<1>5. Good(told) /\ told.active = m.active /\ told.track = m.track
      /\ told.listed = m.listed \ gone /\ told.pending = m.pending \cup lost
  BY <1>3, AnnounceDevicesIsSame DEF Same
<1> HIDE DEF told, gone, lost
<1>6. Fine(m, told, {})
  BY <1>5 DEF Fine, SessionStep, Shown
<1>7. Fine(m, EndSession(told), {})
  BY <1>5, EndSessionFacts DEF Fine, SessionStep, Shown
<1> QED
  BY <1>4, <1>6, <1>7

LEMMA ResetFine ==
  ASSUME NEW m, Good(m)
  PROVE  Fine(m, Reset(m), {})
<1> DEFINE f == Forget(m, m.pending)
           e == [f EXCEPT !.pending = {}, !.idle = TRUE, !.active = NoDevice,
                          !.playing = FALSE, !.track = NoTrack, !.queue = EmptyQueue]
           left == Announce(e)
<1>1. /\ f \in Manager /\ f.listed = m.listed \ m.pending /\ f.enabled \subseteq f.listed
      /\ f.activated \subseteq f.listed /\ f.stale \subseteq f.listed
  BY DEF Good, Manager, Forget
<1>2. Good(e) /\ e.active = NoDevice /\ e.track = NoTrack /\ e.listed = m.listed \ m.pending
      /\ e.pending = {}
  <2> HIDE DEF f
  <2> QED
    BY <1>1, QueueAssumption DEF Good, Manager
<1>3. Reset(m) = IF m.pending = {} THEN left ELSE AnnounceDevices(left)
  BY DEF Reset
<1> HIDE DEF e
<1>4. Fine(m, e, {})
  BY <1>2 DEF Fine, SessionStep, Shown
<1>5. Fine(m, left, {})
  BY <1>4, AnnounceFine
<1> QED
  BY <1>3, <1>5, AnnounceDevicesFine

---------------------------------------------------------------------------
(* The hub.                                                                 *)

Held == {conn[c].device : c \in DOMAIN conn}

Wires ==
  /\ DOMAIN conn \subseteq Conn /\ conn \in [DOMAIN conn -> Registration]
  /\ down \in [Conn -> Seq(ServerFrame)]
  /\ dead \subseteq Conn

\* The inductive invariant.
HubInv ==
  /\ Good(mgr) /\ mgr.out = <<>>
  /\ Wires
  /\ Shown(mgr) \subseteq Held

HubStep == HubInv' /\ SessionStep(mgr, mgr')

\* What Serve and Broadcast send to each socket beside what was emitted.
Own == [Conn -> Seq(ServerFrame)]

LEMMA NothingIsOwn == [x \in Conn |-> <<>>] \in Own
  BY DEF Own

LEMMA ToIsOwn ==
  ASSUME NEW conns, NEW frame \in ServerFrame
  PROVE  To(conns, frame) \in Own
  BY DEF To, Own

LEMMA SendCommits ==
  ASSUME Wires, NEW n, Good(n), NEW conns, NEW own \in Own, Send(n, conns, own)
  PROVE  /\ Good(mgr') /\ mgr'.out = <<>> /\ Same(n, mgr')
         /\ down' \in [Conn -> Seq(ServerFrame)]
<1>1. n \in Manager /\ n.out \in Seq(ServerFrame)
  BY DEF Good, Manager
<1>2. mgr' \in Manager /\ mgr'.out = <<>> /\ Same(n, mgr')
  <2>1. <<>> \in Seq(ServerFrame)
    OBVIOUS
  <2>2. mgr' = [n EXCEPT !.out = <<>>]
    BY DEF Send
  <2> QED
    BY <1>1, <2>1, <2>2 DEF Manager, Same
<1>3. \A x \in Conn : down[x] \in Seq(ServerFrame) /\ own[x] \in Seq(ServerFrame)
  BY DEF Wires, Own
<1>4. down' = [x \in Conn |->
         IF x \in dead THEN down[x]
         ELSE down[x] \o (IF x \in conns THEN n.out ELSE <<>>) \o own[x]]
  BY DEF Send
<1>5. \A x \in Conn : (IF x \in conns THEN n.out ELSE <<>>) \in Seq(ServerFrame)
  BY <1>1
<1>6. ASSUME NEW x \in Conn
      PROVE  (IF x \in dead THEN down[x]
              ELSE down[x] \o (IF x \in conns THEN n.out ELSE <<>>) \o own[x])
             \in Seq(ServerFrame)
  <2> DEFINE mid == IF x \in conns THEN n.out ELSE <<>>
  <2>1. mid \in Seq(ServerFrame) /\ down[x] \in Seq(ServerFrame) /\ own[x] \in Seq(ServerFrame)
    BY <1>3, <1>5
  <2> HIDE DEF mid
  <2>2. down[x] \o mid \in Seq(ServerFrame)
    BY <2>1
  <2>3. (down[x] \o mid) \o own[x] \in Seq(ServerFrame)
    BY <2>1, <2>2
  <2> QED
    BY <2>1, <2>3 DEF mid
<1>7. down' \in [Conn -> Seq(ServerFrame)]
  BY <1>4, <1>6
<1> QED
  BY <1>2, <1>7, GoodIsSame

\* A fine outcome, served to the sockets there are, is a fine step.
LEMMA ServeStep ==
  ASSUME HubInv, NEW n, Fine(mgr, n, Held), NEW own \in Own, Serve(n, own)
  PROVE  HubStep
<1>1. Wires /\ Good(n) /\ conn' = conn /\ dead' = dead /\ Send(n, DOMAIN conn, own)
  BY DEF HubInv, Fine, Serve
<1>2. Good(mgr') /\ mgr'.out = <<>> /\ Same(n, mgr') /\ down' \in [Conn -> Seq(ServerFrame)]
  BY <1>1, SendCommits
<1>3. Fine(mgr, mgr', Held)
  BY <1>2, FineThenSame
<1>4. Wires'
  BY <1>1, <1>2 DEF Wires
<1>5. Held' = Held
  BY <1>1 DEF Held
<1> QED
  BY <1>2, <1>3, <1>4, <1>5 DEF HubStep, HubInv, Fine

LEMMA BroadcastStep ==
  ASSUME HubInv, NEW n, Fine(mgr, n, Held), Broadcast(n)
  PROVE  HubStep
  BY ServeStep, NothingIsOwn DEF Broadcast

\* What the beat of a frame over c makes of the session.
LEMMA BeatenFacts ==
  ASSUME HubInv, NEW c \in Conn
  PROVE  LET b == Beaten(c)
         IN  /\ Good(b)
             /\ b.active = mgr.active /\ b.track = mgr.track
             /\ mgr.active \in Drivable(mgr) <=> b.active \in Drivable(b)
             /\ Shown(b) \subseteq Held
<1>1. CASE c \in DOMAIN conn
  <2>1. conn[c] \in Registration /\ conn[c].device \in Held
    BY <1>1 DEF HubInv, Wires, Held
  <2>2. Beaten(c) = Heartbeat(mgr, conn[c])
    BY <1>1 DEF Beaten
  <2>3. Good(mgr) /\ Shown(mgr) \subseteq Held
    BY DEF HubInv
  <2>4. LET b == Heartbeat(mgr, conn[c])
        IN  /\ Good(b)
            /\ b.active = mgr.active /\ b.track = mgr.track
            /\ mgr.active \in Drivable(mgr) <=> b.active \in Drivable(b)
            /\ Shown(b) \subseteq Shown(mgr) \cup {conn[c].device}
    BY <2>1, <2>3, HeartbeatFacts
  <2> QED
    BY <2>1, <2>2, <2>3, <2>4
<1>2. CASE c \notin DOMAIN conn
  BY <1>2 DEF Beaten, HubInv
<1> QED
  BY <1>1, <1>2

LEMMA AfterBeat ==
  ASSUME HubInv, NEW c \in Conn, NEW n, NEW D \in SUBSET Held, Fine(Beaten(c), n, D)
  PROVE  Fine(mgr, n, Held)
<1> DEFINE b == Beaten(c)
<1>1. /\ b.active = mgr.active /\ b.track = mgr.track
      /\ mgr.active \in Drivable(mgr) <=> b.active \in Drivable(b)
      /\ Shown(b) \subseteq Held
  BY BeatenFacts
<1>2. Good(n) /\ SessionStep(b, n) /\ Shown(n) \subseteq Shown(b) \cup D
  BY DEF Fine
<1> HIDE DEF b
<1>3. SessionStep(mgr, n)
  BY <1>1, <1>2 DEF SessionStep
<1> QED
  BY <1>1, <1>2, <1>3 DEF Fine

LEMMA SenderHeld ==
  ASSUME HubInv, NEW c \in Conn, Sender(c) # NoDevice
  PROVE  Sender(c) \in Device /\ {Sender(c)} \in SUBSET Held
  BY DEF Sender, HubInv, Wires, Held, Registration

---------------------------------------------------------------------------
(* The handlers.                                                            *)

LEMMA FrameKinds ==
  ASSUME NEW f \in ClientFrame
  PROVE  /\ f.type = "REGISTER" => f \in RegisterFrame
         /\ f.type = "STATE_UPDATE" => f \in ReportFrame
         /\ f.type = "COMMAND" => f \in CommandFrame
         /\ f.type = "SET_ACTIVE_DEVICE" => f \in CastFrame
         /\ f.type = "CLAIM_OUTPUT" => f \in ClaimFrame
         /\ f.type = "UPDATE_DEVICE" => f \in UpdateFrame
  BY DEF ClientFrame, RegisterFrame, BeatFrame, ReportFrame, CommandFrame, ProgressFrame,
         CastFrame, ClaimFrame, ReleaseFrame, UpdateFrame

LEMMA BeatStep ==
  ASSUME HubInv, NEW c \in Conn, Broadcast(Beaten(c))
  PROVE  HubStep
<1>1. Good(Beaten(c))
  BY BeatenFacts
<1>2. Fine(Beaten(c), Beaten(c), {})
  BY <1>1 DEF Fine, SessionStep
<1> QED
  BY <1>2, AfterBeat, BroadcastStep

LEMMA RegisterStep ==
  ASSUME HubInv, NEW c \in Conn, c \notin DOMAIN conn, NEW f \in ClientFrame, OnRegister(c, f)
  PROVE  HubStep
<1> DEFINE r == f.registration
           m == RegisterDevice(mgr, r)
<1>1. r \in Registration
  BY FrameKinds DEF OnRegister, RegisterFrame
<1>2. Good(mgr) /\ Fine(mgr, m, {r.device})
  BY <1>1, RegisterFine DEF HubInv
<1>3. Good(m) /\ m \in Manager
  BY <1>2 DEF Fine, Good
<1>4. To({c}, StateReply(m)) \in Own
  BY <1>3, ReplyIsFrame, ToIsOwn
<1>5. Send(m, DOMAIN conn \cup {c}, To({c}, StateReply(m)))
  BY DEF OnRegister
<1>6. Good(mgr') /\ mgr'.out = <<>> /\ Same(m, mgr') /\ down' \in [Conn -> Seq(ServerFrame)]
  <2> HIDE DEF m
  <2> QED
    BY <1>3, <1>4, <1>5, SendCommits DEF HubInv
<1> HIDE DEF m
<1>7. Fine(mgr, mgr', {r.device})
  BY <1>2, <1>6, FineThenSame
<1>8. conn' = [x \in DOMAIN conn \cup {c} |-> IF x = c THEN r ELSE conn[x]] /\ dead' = dead
  BY DEF OnRegister
<1> HIDE DEF r
<1>9. Wires'
  BY <1>1, <1>6, <1>8 DEF HubInv, Wires
<1>10. Held \cup {r.device} \subseteq Held'
  <2>1. DOMAIN conn' = DOMAIN conn \cup {c}
    BY <1>8
  <2>2. conn'[c] = r /\ \A x \in DOMAIN conn : conn'[x] = conn[x]
    BY <1>8
  <2> QED
    BY <2>1, <2>2 DEF Held
<1> QED
  BY <1>6, <1>7, <1>9, <1>10 DEF HubStep, HubInv, Fine

LEMMA StateUpdateStep ==
  ASSUME HubInv, NEW c \in Conn, NEW f \in ClientFrame, OnStateUpdate(c, f)
  PROVE  HubStep
<1> DEFINE m == Beaten(c)
           a == [m EXCEPT !.playing = f.playing, !.idle = @ /\ ~f.playing]
           b == [m EXCEPT !.track = f.track, !.playing = TRUE, !.idle = FALSE]
           q == [m EXCEPT !.queue = f.queue]
<1>1. f \in ReportFrame
  BY FrameKinds DEF OnStateUpdate
<1>2. Good(m) /\ m \in Manager
  BY BeatenFacts DEF Good
<1>3. CASE m.active \notin {NoDevice, Sender(c)}
  BY <1>3, BeatStep DEF OnStateUpdate
<1>4. CASE m.active \in {NoDevice, Sender(c)} /\ f.about = "playing"
  <2>1. f.playing \in BOOLEAN
    BY <1>1, <1>4 DEF ReportFrame
  <2>2. Broadcast(Report(m, a))
    BY <1>4 DEF OnStateUpdate
  <2> HIDE DEF m
  <2>3. Fine(m, a, {})
    BY <1>2, <2>1, KeepIsFine DEF Manager
  <2> HIDE DEF a
  <2>4. Fine(m, Report(m, a), {})
    BY <2>3, ReportFine
  <2> QED
    BY <2>2, <2>4, AfterBeat, BroadcastStep DEF m
<1>5. CASE m.active \in {NoDevice, Sender(c)} /\ f.about = "track"
  <2>1. f.track \in Track
    BY <1>1, <1>5 DEF ReportFrame
  <2>2. Broadcast(Report(m, b))
    BY <1>5 DEF OnStateUpdate
  <2> HIDE DEF m
  <2>3. Fine(m, b, {})
    BY <1>2, <2>1, KeepIsFine DEF Manager
  <2> HIDE DEF b
  <2>4. Fine(m, Report(m, b), {})
    BY <2>3, ReportFine
  <2> QED
    BY <2>2, <2>4, AfterBeat, BroadcastStep DEF m
<1>6. CASE m.active \in {NoDevice, Sender(c)} /\ f.about \notin {"playing", "track"}
  <2>1. f.queue \in Queue
    BY <1>1, <1>6 DEF ReportFrame
  <2>2. Broadcast(Report(m, q))
    BY <1>6 DEF OnStateUpdate
  <2> HIDE DEF m
  <2>3. Fine(m, q, {})
    BY <1>2, <2>1, KeepIsFine DEF Manager
  <2> HIDE DEF q
  <2>4. Fine(m, Report(m, q), {})
    BY <2>3, ReportFine
  <2> QED
    BY <2>2, <2>4, AfterBeat, BroadcastStep DEF m
<1> QED
  BY <1>3, <1>4, <1>5, <1>6

\* The command's own part is a change of playing, track or queue.
LEMMA CommandStep ==
  ASSUME HubInv, NEW c \in Conn, NEW f \in ClientFrame, OnCommand(c, f)
  PROVE  HubStep
<1> DEFINE m == Beaten(c)
           new ==
             CASE f.action = "PLAY" -> Announce([m EXCEPT !.playing = TRUE, !.idle = FALSE])
               [] f.action = "PAUSE" -> Announce([m EXCEPT !.playing = FALSE])
               [] f.action = "SEEK" -> Announce(m)
               [] f.action = "SET_TRACK" ->
                    Announce([m EXCEPT !.track = f.track, !.playing = TRUE, !.idle = FALSE])
               [] f.action = "SET_QUEUE" -> Announce([m EXCEPT !.queue = f.queue])
               [] f.action = "NEXT" -> m
<1>1. f \in CommandFrame /\ f \in ServerFrame
  BY FrameKinds DEF OnCommand, ServerFrame
<1>2. Good(m) /\ m \in Manager
  BY BeatenFacts DEF Good
<1>3. Broadcast(Emit(new, f))
  BY DEF OnCommand
<1> HIDE DEF m
<1>4. Fine(m, m, {})
  BY <1>2 DEF Fine, SessionStep
<1>5. Fine(m, [m EXCEPT !.playing = TRUE, !.idle = FALSE], {})
  BY <1>2, KeepIsFine DEF Manager
<1>6. Fine(m, [m EXCEPT !.playing = FALSE], {})
  BY <1>2, KeepIsFine DEF Manager
<1>7. f.action = "SET_TRACK" =>
        Fine(m, [m EXCEPT !.track = f.track, !.playing = TRUE, !.idle = FALSE], {})
  <2> SUFFICES ASSUME f.action = "SET_TRACK"
               PROVE  Fine(m, [m EXCEPT !.track = f.track, !.playing = TRUE, !.idle = FALSE], {})
    OBVIOUS
  <2>1. f.track \in Track
    BY <1>1 DEF CommandFrame
  <2> QED
    BY <1>2, <2>1, KeepIsFine DEF Manager
<1>8. f.action = "SET_QUEUE" => Fine(m, [m EXCEPT !.queue = f.queue], {})
  <2> SUFFICES ASSUME f.action = "SET_QUEUE"
               PROVE  Fine(m, [m EXCEPT !.queue = f.queue], {})
    OBVIOUS
  <2>1. f.queue \in Queue
    BY <1>1 DEF CommandFrame
  <2> QED
    BY <1>2, <2>1, KeepIsFine DEF Manager
<1>9. f.action \in {"PLAY", "PAUSE", "SEEK", "SET_TRACK", "SET_QUEUE", "NEXT"}
  BY <1>1 DEF CommandFrame
<1>10. Fine(m, new, {})
  <2>1. CASE f.action = "PLAY"
    BY <1>5, <2>1, AnnounceFine
  <2>2. CASE f.action = "PAUSE"
    BY <1>6, <2>2, AnnounceFine
  <2>3. CASE f.action = "SEEK"
    BY <1>4, <2>3, AnnounceFine
  <2>4. CASE f.action = "SET_TRACK"
    BY <1>7, <2>4, AnnounceFine
  <2>5. CASE f.action = "SET_QUEUE"
    BY <1>8, <2>5, AnnounceFine
  <2>6. CASE f.action = "NEXT"
    BY <1>4, <2>6
  <2> QED
    BY <1>9, <2>1, <2>2, <2>3, <2>4, <2>5, <2>6
<1> HIDE DEF new
<1>11. Fine(m, Emit(new, f), {})
  BY <1>1, <1>10, EmitFine
<1> QED
  BY <1>3, <1>11, AfterBeat, BroadcastStep DEF m

LEMMA ProgressStep ==
  ASSUME HubInv, NEW c \in Conn, NEW f \in ClientFrame, OnProgress(c, f)
  PROVE  HubStep
<1> DEFINE m == Beaten(c)
           on == [m EXCEPT !.playing = TRUE, !.idle = FALSE]
           others == To(DOMAIN conn \ {c}, [type |-> "PROGRESS"])
<1>1. Good(m) /\ m \in Manager
  BY BeatenFacts DEF Good
<1>2. Fine(m, on, {})
  <2> HIDE DEF m
  <2> QED
    BY <1>1, KeepIsFine DEF Manager
<1>3. Fine(mgr, on, Held) /\ Fine(mgr, Announce(on), Held)
  <2> HIDE DEF on
  <2> QED
    BY <1>2, AfterBeat, AnnounceFine
<1>4. [type |-> "PROGRESS"] \in ServerFrame
  BY DEF ServerFrame
<1>5. others \in Own
  BY <1>4, ToIsOwn
<1>6. Broadcast(m) \/ Serve(on, others) \/ Broadcast(Announce(on))
  BY DEF OnProgress
<1> HIDE DEF on, others
<1> QED
  BY <1>3, <1>5, <1>6, BeatStep, ServeStep, BroadcastStep

\* The target is shown, so it is held.
LEMMA CastStep ==
  ASSUME HubInv, NEW c \in Conn, NEW f \in ClientFrame, OnSetActiveDevice(c, f)
  PROVE  HubStep
<1> DEFINE m == Beaten(c)
<1>1. f \in CastFrame
  BY FrameKinds DEF OnSetActiveDevice
<1>2. f.id \in Device /\ (f.queue = {} \/ \E q \in Queue : f.queue = {q})
  BY <1>1 DEF CastFrame
<1>3. Good(m) /\ m.queue \in Queue /\ Shown(m) \subseteq Held
  BY BeatenFacts DEF Good, Manager
<1>4. PICK q \in IF f.queue = {} THEN {m.queue} ELSE f.queue :
        Broadcast(IF CanTarget(m, f.id) THEN PointAt(m, f.id, q) ELSE m)
  BY DEF OnSetActiveDevice
<1>5. q \in Queue
  BY <1>2, <1>3, <1>4
<1>6. CASE CanTarget(m, f.id)
  <2>1. Fine(m, PointAt(m, f.id, q), {f.id})
    BY <1>2, <1>3, <1>5, <1>6, PointFine
  <2>2. {f.id} \in SUBSET Held
    BY <1>3, <1>6 DEF CanTarget, Drivable, Shown
  <2> QED
    BY <1>4, <1>6, <2>1, <2>2, AfterBeat, BroadcastStep
<1>7. CASE ~CanTarget(m, f.id)
  BY <1>4, <1>7, BeatStep
<1> QED
  BY <1>6, <1>7

LEMMA ClaimStep ==
  ASSUME HubInv, NEW c \in Conn, NEW f \in ClientFrame, OnClaimOutput(c, f)
  PROVE  HubStep
<1> DEFINE m == Beaten(c)
           d == Sender(c)
<1>1. f.track \in Track /\ f.queue \in Queue
  BY FrameKinds DEF OnClaimOutput, ClaimFrame
<1>2. Good(m) /\ m \in Manager
  BY BeatenFacts DEF Good
<1>3. CASE d # NoDevice /\ Claimable(m, d)
  <2>1. d \in Device /\ {d} \in SUBSET Held
    BY <1>3, SenderHeld
  <2>2. Fine(m, ClaimOutput(m, d, f.track, f.queue), {d})
    BY <1>1, <1>2, <1>3, <2>1, ClaimFine
  <2>3. Broadcast(ClaimOutput(m, d, f.track, f.queue))
    BY <1>3 DEF OnClaimOutput
  <2> QED
    BY <2>1, <2>2, <2>3, AfterBeat, BroadcastStep
<1>4. CASE ~(d # NoDevice /\ Claimable(m, d))
  <2>1. Serve(m, To({c} \cap DOMAIN conn, StateReply(m)))
    BY <1>4 DEF OnClaimOutput
  <2>2. To({c} \cap DOMAIN conn, StateReply(m)) \in Own
    BY <1>2, ReplyIsFrame, ToIsOwn
  <2>3. Fine(m, m, {})
    BY <1>2 DEF Fine, SessionStep
  <2>4. Fine(mgr, m, Held)
    BY <2>3, AfterBeat
  <2> QED
    BY <2>1, <2>2, <2>4, ServeStep
<1> QED
  BY <1>3, <1>4

LEMMA ReleaseStep ==
  ASSUME HubInv, NEW c \in Conn, NEW f \in ClientFrame, OnReleaseOutput(c, f)
  PROVE  HubStep
<1>1. CASE Sender(c) = NoDevice
  BY <1>1, BeatStep DEF OnReleaseOutput
<1>2. CASE Sender(c) # NoDevice
  <2>1. Sender(c) \in Device /\ {Sender(c)} \in SUBSET Held
    BY <1>2, SenderHeld
  <2>2. Good(Beaten(c))
    BY BeatenFacts
  <2>3. Fine(Beaten(c), ReleaseIfActive(Beaten(c), Sender(c)), {Sender(c)})
    BY <2>1, <2>2, ReleaseFine
  <2>4. Broadcast(ReleaseIfActive(Beaten(c), Sender(c)))
    BY <1>2 DEF OnReleaseOutput
  <2> QED
    BY <2>1, <2>3, <2>4, AfterBeat, BroadcastStep
<1> QED
  BY <1>1, <1>2

LEMMA UpdateStep ==
  ASSUME HubInv, NEW c \in Conn, NEW f \in ClientFrame, OnUpdateDevice(c, f)
  PROVE  HubStep
<1> DEFINE m == Beaten(c)
           n == UpdateDevice(m, Sender(c), f.field, f.flag)
<1>1. f.flag \in BOOLEAN
  BY FrameKinds DEF OnUpdateDevice, UpdateFrame
<1>2. Good(m) /\ m \in Manager
  BY BeatenFacts DEF Good
<1>3. Broadcast(n)
  BY DEF OnUpdateDevice
<1>4. CASE Sender(c) = NoDevice
  <2>1. NoDevice \notin m.listed
    BY <1>2, DeviceAssumption DEF Manager
  <2>2. n = m
    BY <1>4, <2>1 DEF UpdateDevice
  <2> QED
    BY <1>3, <2>2, BeatStep
<1>5. CASE Sender(c) # NoDevice
  <2>1. Sender(c) \in Device /\ {Sender(c)} \in SUBSET Held
    BY <1>5, SenderHeld
  <2>2. Fine(m, n, {Sender(c)})
    BY <1>1, <1>2, <2>1, UpdateFine
  <2> QED
    BY <1>3, <2>1, <2>2, AfterBeat, BroadcastStep
<1> QED
  BY <1>4, <1>5

LEMMA CloseStep ==
  ASSUME HubInv, NEW c \in Conn, OnClose(c)
  PROVE  HubStep
<1> DEFINE d == conn[c].device
           held == \E x \in DOMAIN conn \ {c} : conn[x].device = d
           n == IF held THEN mgr ELSE UnregisterDevice(mgr, d)
           none == [x \in Conn |-> <<>>]
<1>1. c \in DOMAIN conn /\ dead' = dead
      /\ conn' = [x \in DOMAIN conn \ {c} |-> conn[x]]
      /\ Send(n, DOMAIN conn \ {c}, none)
  BY DEF OnClose, Restrict
<1>2. d \in Device /\ Good(mgr) /\ Wires /\ Shown(mgr) \subseteq Held
  BY <1>1 DEF HubInv, Wires, Registration
<1>3. Fine(mgr, n, {}) /\ (d \in Shown(n) => held)
  <2>1. CASE held
    BY <1>2, <2>1 DEF Fine, SessionStep
  <2>2. CASE ~held
    BY <1>2, <2>2, UnregisterFine
  <2> QED
    BY <2>1, <2>2
<1>4. none \in Own
  BY NothingIsOwn
<1> HIDE DEF n, none
<1>5. Good(mgr') /\ mgr'.out = <<>> /\ Same(n, mgr') /\ down' \in [Conn -> Seq(ServerFrame)]
  BY <1>1, <1>2, <1>3, <1>4, SendCommits DEF Fine
<1>6. Fine(mgr, mgr', {}) /\ (d \in Shown(mgr') => held)
  BY <1>3, <1>5, FineThenSame DEF Same, Shown
<1>7. Wires'
  BY <1>1, <1>2, <1>5 DEF Wires
<1>8. \A e \in Held : e # d \/ held => e \in Held'
  <2>1. DOMAIN conn' = DOMAIN conn \ {c} /\ \A x \in DOMAIN conn \ {c} : conn'[x] = conn[x]
    BY <1>1
  <2> SUFFICES ASSUME NEW e \in Held, e # d \/ held PROVE e \in Held'
    OBVIOUS
  <2>2. PICK x \in DOMAIN conn \ {c} : conn[x].device = e
    BY DEF Held
  <2> QED
    BY <2>1, <2>2 DEF Held
<1>9. Shown(mgr') \subseteq Held'
  BY <1>2, <1>6, <1>8 DEF Fine
<1> QED
  BY <1>5, <1>6, <1>7, <1>9 DEF HubStep, HubInv, Fine

---------------------------------------------------------------------------
(* Clocks, and the other end.                                               *)

LEMMA ClockStep ==
  ASSUME HubInv, NEW d \in Device, Silence(d) \/ IdleElapses
  PROVE  HubStep
<1>1. Good(mgr) /\ mgr.out = <<>> /\ Wires /\ Shown(mgr) \subseteq Held
  BY DEF HubInv
<1>2. UNCHANGED <<conn, down, dead>>
  BY DEF Silence, IdleElapses
<1>3. /\ Good(mgr') /\ mgr'.out = mgr.out /\ mgr'.active = mgr.active
      /\ mgr'.listed = mgr.listed /\ mgr'.pending = mgr.pending
  <2>1. CASE Silence(d)
    BY <1>1, <2>1 DEF Silence, Good, Manager
  <2>2. CASE IdleElapses
    BY <1>1, <2>2 DEF IdleElapses, Good, Manager
  <2> QED
    BY <2>1, <2>2
<1> QED
  BY <1>1, <1>2, <1>3 DEF HubStep, HubInv, Wires, Shown, Held, SessionStep

LEMMA WireStep ==
  ASSUME HubInv, NEW c \in Conn, OnOpen(c) \/ Taken(c) \/ Break(c)
  PROVE  HubStep
<1>1. mgr' = mgr /\ conn' = conn
  BY DEF OnOpen, Taken, Break
<1>2. down \in [Conn -> Seq(ServerFrame)] /\ dead \subseteq Conn
  BY DEF HubInv, Wires
<1>3. down' \in [Conn -> Seq(ServerFrame)] /\ dead' \subseteq Conn
  <2>1. <<>> \in Seq(ServerFrame)
    OBVIOUS
  <2>2. CASE OnOpen(c) \/ Break(c)
    BY <1>2, <2>1, <2>2 DEF OnOpen, Break
  <2>3. CASE Taken(c)
    <3>1. down[c] \in Seq(ServerFrame) /\ down[c] # <<>>
      BY <1>2, <2>3 DEF Taken
    <3>2. Tail(down[c]) \in Seq(ServerFrame)
      BY <3>1
    <3> QED
      BY <1>2, <2>3, <3>2 DEF Taken
  <2> QED
    BY <2>2, <2>3
<1> QED
  BY <1>1, <1>3 DEF HubStep, HubInv, Wires, Shown, Held, SessionStep

---------------------------------------------------------------------------
(* The specification.                                                       *)

LEMMA HubInvInit == HubInit => HubInv
<1> SUFFICES ASSUME HubInit PROVE HubInv
  OBVIOUS
<1>1. Good(NewManager) /\ NewManager.out = <<>> /\ Shown(NewManager) = {}
  BY QueueAssumption DEF NewManager, Good, Manager, Shown
<1>2. conn = <<>> /\ DOMAIN conn = {} /\ conn \in [DOMAIN conn -> Registration]
  BY DEF HubInit
<1>3. down \in [Conn -> Seq(ServerFrame)] /\ dead \subseteq Conn
  BY DEF HubInit
<1> QED
  BY <1>1, <1>2, <1>3 DEF HubInit, HubInv, Wires

LEMMA HubInvStep ==
  ASSUME HubInv, HubNext
  PROVE  HubStep
<1>1. Good(mgr)
  BY DEF HubInv
<1>2. ASSUME NEW c \in Conn, NEW f \in ClientFrame,
             f.type = "REGISTER" => c \notin DOMAIN conn, OnMessage(c, f)
      PROVE  HubStep
  <2>1. CASE OnRegister(c, f)
    BY <1>2, <2>1, RegisterStep DEF OnRegister
  <2>2. CASE OnHeartbeat(c, f)
    BY <2>2, BeatStep DEF OnHeartbeat
  <2>3. CASE OnStateUpdate(c, f)
    BY <2>3, StateUpdateStep
  <2>4. CASE OnCommand(c, f)
    BY <2>4, CommandStep
  <2>5. CASE OnProgress(c, f)
    BY <2>5, ProgressStep
  <2>6. CASE OnSetActiveDevice(c, f)
    BY <2>6, CastStep
  <2>7. CASE OnClaimOutput(c, f)
    BY <2>7, ClaimStep
  <2>8. CASE OnReleaseOutput(c, f)
    BY <2>8, ReleaseStep
  <2>9. CASE OnUpdateDevice(c, f)
    BY <2>9, UpdateStep
  <2> QED
    BY <1>2, <2>1, <2>2, <2>3, <2>4, <2>5, <2>6, <2>7, <2>8, <2>9 DEF OnMessage
<1>3. ASSUME NEW c \in Conn, OnOpen(c) \/ OnClose(c) \/ Taken(c) \/ Break(c)
      PROVE  HubStep
  BY <1>3, CloseStep, WireStep
<1>4. ASSUME NEW d \in Device, Expire(d) \/ Silence(d)
      PROVE  HubStep
  <2>1. Fine(mgr, GraceEnds(mgr, d), {})
    BY <1>1, GraceFine
  <2>2. Fine(mgr, GraceEnds(mgr, d), Held)
    BY <2>1 DEF Fine
  <2> QED
    BY <1>4, <2>2, BroadcastStep, ClockStep DEF Expire
<1>5. CASE Sweep
  <2>1. Fine(mgr, CleanupStaleDevices(mgr), Held)
    BY <1>1, SweepFine DEF Fine
  <2> QED
    BY <1>5, <2>1, BroadcastStep DEF Sweep
<1>6. CASE ResetSession
  <2>1. Fine(mgr, Reset(mgr), Held)
    BY <1>1, ResetFine DEF Fine
  <2> QED
    BY <1>6, <2>1, BroadcastStep DEF ResetSession
<1>7. CASE IdleElapses
  <2>1. mgr.active \in Device
    BY <1>1, <1>7 DEF IdleElapses, Good, Manager
  <2> QED
    BY <1>7, <2>1, ClockStep
<1> QED
  BY <1>2, <1>3, <1>4, <1>5, <1>6, <1>7 DEF HubNext

LEMMA HubInvariance == HubSpec => []HubInv
<1>1. HubInv /\ UNCHANGED hubVars => HubInv'
  BY DEF hubVars, HubInv, Wires, Shown, Held
<1>2. HubInv /\ [HubNext]_hubVars => HubInv'
  BY <1>1, HubInvStep DEF HubStep
<1> QED
  BY HubInvInit, <1>2, PTL DEF HubSpec

(* Whatever the clients send, every variable of the hub keeps its type: the *)
(* flags stay flags of listed devices and every frame is one of the kinds.  *)
THEOREM HubTypeCorrect == HubSpec => []HubTypeOK
<1>1. HubInv => HubTypeOK
  BY DEF HubInv, Good, Wires, HubTypeOK
<1> QED
  BY <1>1, HubInvariance, PTL

(* For any number of devices and sockets: no close, prune, heal, expired    *)
(* grace or re-registration leaves a device listed that no socket holds, or *)
(* a session whose output is not in the list.                               *)
THEOREM GhostFree == HubSpec => []NoGhosts
<1>1. HubInv => NoGhosts
  BY DEF HubInv, Good, Shown, Held, NoGhosts
<1> QED
  BY <1>1, HubInvariance, PTL

LEMMA GoodSession ==
  ASSUME NEW m, Good(m)
  PROVE  /\ m.active \in Device \cup {NoDevice} /\ m.track \in Track \cup {NoTrack}
         /\ Drivable(m) \in SUBSET Device
         /\ m.active \in m.pending => m.active \notin Drivable(m) /\ m.active # NoDevice
         /\ NoDevice \notin m.pending
         /\ \A d \in Drivable(m) : d \in Device /\ d \notin m.pending
  BY DeviceAssumption DEF Good, Manager, Drivable

\* A step of the managers is a step of PlaybackSession.
LEMMA StepIsSession ==
  ASSUME Good(mgr), Good(mgr'), SessionStep(mgr, mgr')
  PROVE  Session!Next
<1> DEFINE m == mgr
           n == mgr'
<1>1. /\ n.active \in Device \cup {NoDevice} /\ n.track \in Track \cup {NoTrack}
      /\ Drivable(n) \in SUBSET Device
      /\ n.active \in n.pending => n.active \notin Drivable(n) /\ n.active # NoDevice
      /\ NoDevice \notin n.pending
      /\ \A d \in Drivable(n) : d \in Device /\ d \notin n.pending
  BY GoodSession
<1>2. Session!Around
  BY <1>1 DEF Session!Around
<1>3. CASE n.active = m.active
  <2>1. Session!Stay
    BY <1>1, <1>2, <1>3 DEF Session!Stay
  <2> QED
    BY <2>1 DEF Session!Next
<1>4. CASE n.active = NoDevice /\ n.track \in {m.track, NoTrack}
  <2>1. Session!End
    BY <1>1, <1>2, <1>4 DEF Session!End
  <2> QED
    BY <2>1 DEF Session!Next
<1>5. CASE /\ n.active \in Device /\ n.active \notin n.pending /\ n.track \in Track
           /\ m.active \in {NoDevice, n.active} \/ m.active \notin Drivable(m)
  <2>1. Session!Claim(n.active)
    BY <1>2, <1>5 DEF Session!Claim
  <2> QED
    BY <1>5, <2>1 DEF Session!Next
<1>6. CASE n.active \in Drivable(n) /\ n.track = m.track
  <2>1. Session!Cast(n.active)
    BY <1>1, <1>2, <1>6 DEF Session!Cast
  <2> QED
    BY <1>1, <1>6, <2>1 DEF Session!Next
<1> QED
  BY <1>3, <1>4, <1>5, <1>6 DEF SessionStep

(* The hub implements PlaybackSession for any devices, sockets and frames:  *)
(* a play elsewhere never takes the session from an output that can be      *)
(* driven, and a cast only goes to a device that can.                       *)
THEOREM HubImplementsSession == HubSpec => SessionImplemented
<1>1. HubInit => Session!Init
  <2> SUFFICES ASSUME HubInit PROVE Session!Init
    OBVIOUS
  <2>1. Good(mgr) /\ mgr.pending = {}
    BY HubInvInit DEF HubInv, HubInit, NewManager
  <2> QED
    BY <2>1, GoodSession DEF Session!Init
<1>2. HubInv /\ [HubNext]_hubVars => [Session!Next]_(Session!sessionVars)
  <2>1. ASSUME HubInv, HubNext PROVE Session!Next
    BY <2>1, HubInvStep, StepIsSession DEF HubStep, HubInv
  <2>2. ASSUME UNCHANGED hubVars PROVE UNCHANGED Session!sessionVars
    BY <2>2 DEF hubVars, Session!sessionVars, Drivable
  <2> QED
    BY <2>1, <2>2
<1> QED
  BY <1>1, <1>2, HubInvariance, PTL DEF HubSpec, SessionImplemented, Session!Spec
=============================================================================
