--------------------------- MODULE PlaybackState ---------------------------
(***************************************************************************)
(* One user's shared playback session as the server keeps it: the            *)
(* PlaybackStateManager of services/playback-state.ts.  The class has no     *)
(* concurrency of its own: every method runs to its end.  So each method     *)
(* is an operator from a manager record to a manager record, and what it     *)
(* emits is appended to the field out, which the hub sends and clears.       *)
(*                                                                           *)
(* Clocks are abstracted to what they decide: a device is stale when its     *)
(* lastSeen is older than STALE_TIMEOUT, and the session is idle when        *)
(* lastPlayingAt is older than idleReleaseMs.  Position, duration, volume    *)
(* and the devices' names are left out.                                      *)
(***************************************************************************)
EXTENDS Naturals, Sequences

CONSTANTS Device, Track, Queue,  \* device ids, tracks, upcoming-queue contents
          NoDevice, NoTrack,     \* null
          EmptyQueue             \* []

ASSUME DeviceAssumption == NoDevice \notin Device
ASSUME TrackAssumption == NoTrack \notin Track
ASSUME QueueAssumption == EmptyQueue \in Queue

(* pending: the devices whose release timer runs.  enabled and activated     *)
(* are flags of the listed devices.                                          *)
NewManager ==
  [active |-> NoDevice, playing |-> FALSE, track |-> NoTrack, queue |-> EmptyQueue,
   listed |-> {}, enabled |-> {}, activated |-> {}, pending |-> {}, stale |-> {},
   idle |-> TRUE, out |-> <<>>]

---------------------------------------------------------------------------
(* What clients are told.                                                    *)

RosterType ==
  [listed : SUBSET Device, available : SUBSET Device, pending : SUBSET Device]

StateType ==
  [active : Device \cup {NoDevice}, playing : BOOLEAN, track : Track \cup {NoTrack},
   queue : Queue]

Snapshot(m) ==
  [active |-> m.active, playing |-> m.playing, track |-> m.track, queue |-> m.queue]

(* Every listed device, flagged: available can be picked and will execute    *)
(* commands, pending has lost its socket.                                    *)
Roster(m) ==
  [listed |-> m.listed,
   available |-> m.listed \cap m.enabled \cap m.activated,
   pending |-> m.listed \cap m.pending]

StateSync(m) == [type |-> "STATE_SYNC", state |-> Snapshot(m), devices |-> {}]
StateReply(m) == [type |-> "STATE_SYNC", state |-> Snapshot(m), devices |-> {Roster(m)}]
DevicesSync(m) == [type |-> "DEVICES_SYNC", devices |-> Roster(m)]

Emit(m, frame) == [m EXCEPT !.out = Append(@, frame)]
Announce(m) == Emit(m, StateSync(m))
AnnounceDevices(m) == Emit(m, DevicesSync(m))

(* Listed, available and reachable: a device a controller can point the      *)
(* session at, and one a claim cannot take the session from.                 *)
Drivable(m) == (m.listed \cap m.enabled \cap m.activated) \ m.pending
CanTarget(m, d) == d \in Drivable(m)

---------------------------------------------------------------------------
(* The session.                                                              *)

EndSession(m) == Announce([m EXCEPT !.active = NoDevice, !.playing = FALSE])

CancelPendingRelease(m, d) == [m EXCEPT !.pending = @ \ {d}]

ReleaseIfActive(m, d) ==
  IF m.active = d THEN EndSession(CancelPendingRelease(m, d)) ELSE m

Claimable_Always(m, d) == d \in m.listed

(* Compare-and-set by a device that started to play.                         *)
Claimable(m, d) ==
  /\ d \in m.listed
  /\ m.active \in {NoDevice, d} \/ ~CanTarget(m, m.active)

ClaimOutput(m, d, track, queue) ==
  Announce([CancelPendingRelease(m, d) EXCEPT
              !.active = d, !.track = track, !.playing = TRUE, !.queue = queue,
              !.idle = FALSE])

(* The session, pointed at a device (or at none) by hand.                    *)
PointAt(m, d, queue) ==
  Announce([m EXCEPT !.active = d, !.queue = queue, !.idle = @ /\ d = NoDevice])

(* The output describes itself; only a change is told to everyone.           *)
Report(m, new) ==
  IF new.playing # m.playing \/ new.track # m.track \/ new.queue # m.queue
  THEN Announce(new)
  ELSE new

---------------------------------------------------------------------------
(* The device list.                                                          *)

With(S, d, flag) == IF flag THEN S \cup {d} ELSE S \ {d}

Forget_KeepsFlags(m, gone) == [m EXCEPT !.listed = @ \ gone, !.stale = @ \ gone]

Forget(m, gone) ==
  [m EXCEPT !.listed = @ \ gone, !.enabled = @ \ gone, !.activated = @ \ gone,
            !.stale = @ \ gone]

(* r is what the device registered with.  Coming back within the grace       *)
(* keeps the cast; coming back opted out ends it.                            *)
RegisterDevice(m, r) ==
  LET d == r.device
      seen == [CancelPendingRelease(m, d) EXCEPT
                 !.listed = @ \cup {d}, !.stale = @ \ {d},
                 !.enabled = With(@, d, r.enabled),
                 !.activated = With(@, d, r.activated)]
  IN  AnnounceDevices(IF r.enabled THEN seen ELSE ReleaseIfActive(seen, d))

(* field is "remoteEnabled" or "activated".                                  *)
UpdateDevice(m, d, field, flag) ==
  IF d \notin m.listed THEN m
  ELSE IF field = "activated"
  THEN AnnounceDevices([m EXCEPT !.activated = With(@, d, flag)])
  ELSE LET set == [m EXCEPT !.enabled = With(@, d, flag)]
       IN  AnnounceDevices(IF flag THEN set ELSE ReleaseIfActive(set, d))

(* The active device's socket is gone: it stays listed and active for the    *)
(* grace.                                                                    *)
LoseActiveDevice(m, d) ==
  IF d \in m.pending THEN m ELSE AnnounceDevices([m EXCEPT !.pending = @ \cup {d}])

UnregisterDevice_NoGrace(m, d) == AnnounceDevices(Forget(m, {d}))

UnregisterDevice(m, d) ==
  IF m.active = d THEN LoseActiveDevice(m, d) ELSE AnnounceDevices(Forget(m, {d}))

(* The grace of d ends.                                                      *)
GraceEnds(m, d) ==
  LET gone == Forget(CancelPendingRelease(m, d), {d})
  IN  AnnounceDevices(IF m.active = d THEN EndSession(gone) ELSE gone)

(* A beat.  A device the list no longer has is registered again with what    *)
(* its connection registered with.                                           *)
Heartbeat(m, r) ==
  IF r.device \in m.listed THEN [m EXCEPT !.stale = @ \ {r.device}] ELSE RegisterDevice(m, r)

(* The 30 s sweep: every stale device is unregistered, then a session whose  *)
(* output has not reported playing for long is ended.  The burst of device   *)
(* lists is one list.                                                        *)
CleanupStaleDevices(m) ==
  LET gone == m.stale \ {m.active}
      lost == (m.stale \cap {m.active}) \ m.pending
      left == [Forget(m, gone) EXCEPT !.pending = @ \cup lost]
      told == IF gone \cup lost = {} THEN left ELSE AnnounceDevices(left)
  IN  IF told.active # NoDevice /\ told.active \notin told.pending /\ told.idle
      THEN EndSession(told)
      ELSE told

(* An operator ends the session; devices whose socket is gone are forgotten. *)
Reset(m) ==
  LET left == Announce([Forget(m, m.pending) EXCEPT
                          !.pending = {}, !.idle = TRUE, !.active = NoDevice,
                          !.playing = FALSE, !.track = NoTrack, !.queue = EmptyQueue])
  IN  IF m.pending = {} THEN left ELSE AnnounceDevices(left)
=============================================================================
