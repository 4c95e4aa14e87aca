---------------------------- MODULE RemoteClient ----------------------------
(***************************************************************************)
(* One web client of the playback session: the reducer of                    *)
(* core/remote-playback.ts, the bookkeeping RemotePlaybackService keeps      *)
(* around it, and the parts of PlayerService both read and write.            *)
(*                                                                           *)
(* A client is a record:                                                     *)
(*   view, roster, rplaying, sessQ, lastT    what the server said: the       *)
(*      session's output, the device list, whether it plays, its queue, the  *)
(*      last track mirrored (activeDeviceId, devices, remoteIsPlaying,       *)
(*      sessionQueue, lastRemoteTrackId)                                     *)
(*   trk, q, playing      the local player                                   *)
(*   claim                claimInFlight                                      *)
(*   prevT, prevP, qMoved what the three forwarding effects have seen        *)
(*   enabled, activated   opted in to being driven; touched since load       *)
(*                                                                           *)
(* A server frame changes the record (HandleFrame).  What the changes make   *)
(* the client send is decided later, when Angular runs the effects           *)
(* (Flushed, Flush).  Positions are left out, and ids always resolve.        *)
(***************************************************************************)
EXTENDS Sequences

CONSTANTS Device, Track, Queue, NoDevice, NoTrack, NoQueue

NoRoster == [listed |-> {}, available |-> {}, pending |-> {}]

(* A page that has just loaded, with the track and queue it restored.        *)
FreshClient(track, queue, enabled) ==
  [view |-> NoDevice, roster |-> NoRoster, rplaying |-> FALSE, sessQ |-> NoQueue,
   lastT |-> NoTrack, trk |-> track, q |-> queue, playing |-> FALSE, claim |-> NoTrack,
   prevT |-> track, prevP |-> FALSE, qMoved |-> FALSE,
   enabled |-> enabled, activated |-> FALSE]

(* Whether the device plays audio: no session, or one naming it.             *)
IsAudioOutput(k, d) == k.view \in {NoDevice, d}

(* A session whose output can actually be driven right now.                  *)
HasControllableSession(k) ==
  k.view # NoDevice /\ k.view \in k.roster.available \ k.roster.pending

(* The transport acts on the local player, not on the session.               *)
DrivesLocalPlayer(k, d) == IsAudioOutput(k, d) \/ ~HasControllableSession(k)

TargetIsCastable(k, t) ==
  t \in k.roster.listed => t \in k.roster.available \ k.roster.pending

---------------------------------------------------------------------------
(* Frames from the server.                                                   *)

Stops_NoHush(k, d, active) == IsAudioOutput(k, d) /\ active \notin {NoDevice, d}

(* A device that stopped being the output pauses, and so does a controller   *)
(* whose session ended.                                                      *)
Stops(k, d, active) ==
  \/ IsAudioOutput(k, d) /\ active \notin {NoDevice, d}
  \/ ~IsAudioOutput(k, d) /\ active = NoDevice

(* The player effects of a STATE_SYNC, all at once.  The output catches up   *)
(* on the track when it reconnects and on the queue when it reconnects or    *)
(* becomes the output; a controller mirrors both.                            *)
ReduceStateSync(k, d, f) ==
  LET s == f.state
      next == [k EXCEPT !.view = s.active, !.rplaying = s.playing, !.sessQ = s.queue,
                        !.claim = NoTrack,
                        !.roster = IF f.devices = {} THEN @ ELSE CHOOSE r \in f.devices : TRUE]
      reply == f.devices # {}
      me == s.active = d
      other == s.active \notin {NoDevice, d}
      moved == s.track \notin {NoTrack, k.trk}
      catchesUp == reply /\ me /\ k.enabled /\ moved
      shows == other /\ moved
      adopts == /\ \/ me /\ (reply \/ k.view # d)
                   \/ other
                /\ s.queue # k.q
  IN  [next EXCEPT
         !.playing = IF catchesUp THEN s.playing ELSE @ /\ ~Stops(k, d, s.active),
         !.trk = IF catchesUp \/ shows THEN s.track ELSE @,
         !.lastT = IF catchesUp \/ shows THEN s.track ELSE @,
         !.q = IF adopts THEN s.queue ELSE @,
         !.qMoved = @ \/ adopts]

(* playNext: the queue's next track, or the end of the queue.  Queue         *)
(* contents are opaque, so it may leave any other queue and take any other   *)
(* track.                                                                    *)
GoOn(k, t, q) == [k EXCEPT !.trk = t, !.q = q, !.qMoved = TRUE, !.playing = TRUE]

PlayNext(k) ==
  {GoOn(k, t, q) : t \in Track \ {k.trk}, q \in Queue \ {k.q}}
    \cup {[k EXCEPT !.playing = FALSE]}

(* Only the active, opted-in device executes.                                *)
ReduceCommand(k, d, f) ==
  IF k.view # d \/ ~k.enabled THEN {k}
  ELSE CASE f.action = "PLAY" -> {[k EXCEPT !.playing = TRUE]}
         [] f.action = "PAUSE" -> {[k EXCEPT !.playing = FALSE]}
         [] f.action = "SEEK" -> {k}
         [] f.action = "SET_TRACK" ->
              {[k EXCEPT !.lastT = f.track, !.trk = f.track, !.playing = TRUE]}
         [] f.action = "NEXT" -> PlayNext(k)
         [] f.action = "SET_QUEUE" ->
              {[k EXCEPT !.sessQ = f.queue, !.q = f.queue, !.qMoved = TRUE]}

(* The clients the frame f may leave.                                        *)
HandleFrame(k, d, f) ==
  CASE f.type = "STATE_SYNC" -> {ReduceStateSync(k, d, f)}
    [] f.type = "DEVICES_SYNC" -> {[k EXCEPT !.roster = f.devices]}
    [] f.type = "COMMAND" -> ReduceCommand(k, d, f)
    [] f.type = "PROGRESS" -> {[k EXCEPT !.rplaying = TRUE]}

---------------------------------------------------------------------------
(* What the client tells the server about local changes.  Each effect        *)
(* yields the client it leaves and the frames it posts.                      *)

Quiet(k) == [k |-> k, sends |-> <<>>]

(* One claim per track is in flight.                                         *)
ClaimOutput(k) ==
  IF k.claim = k.trk THEN Quiet(k)
  ELSE [k |-> [k EXCEPT !.claim = k.trk],
        sends |-> <<[type |-> "CLAIM_OUTPUT", track |-> k.trk, queue |-> k.q]>>]

(* An opted-out output executes nothing, so an edit is not sent to it.       *)
OnLocalQueueChanged(k, d) ==
  IF k.view = NoDevice \/ k.q = k.sessQ THEN Quiet(k)
  ELSE IF k.view = d
  THEN [k |-> [k EXCEPT !.sessQ = k.q],
        sends |-> <<[type |-> "STATE_UPDATE", about |-> "queue", queue |-> k.q]>>]
  ELSE IF k.view \in k.roster.listed \ k.roster.available THEN Quiet(k)
  ELSE [k |-> [k EXCEPT !.sessQ = k.q],
        sends |-> <<[type |-> "COMMAND", action |-> "SET_QUEUE", queue |-> k.q]>>]

(* A controller forwards a track, unless it is the last one it mirrored.     *)
OnLocalTrackChanged(k, d) ==
  IF IsAudioOutput(k, d)
  THEN [k |-> k, sends |-> <<[type |-> "STATE_UPDATE", about |-> "track", track |-> k.trk]>>]
  ELSE IF k.trk = k.lastT THEN Quiet(k)
  ELSE IF ~HasControllableSession(k) THEN ClaimOutput(k)
  ELSE [k |-> k, sends |-> <<[type |-> "COMMAND", action |-> "SET_TRACK", track |-> k.trk]>>]

OnLocalPlayingChanged(k, d) ==
  IF k.view = d
  THEN [k |-> k,
        sends |-> <<[type |-> "STATE_UPDATE", about |-> "playing", playing |-> k.playing]>>]
  ELSE IF k.playing /\ ~HasControllableSession(k) THEN ClaimOutput(k)
  ELSE Quiet(k)

(* The effects run in the order they were registered: queue, track, playing. *)
QueueEffect(k, d) ==
  IF k.qMoved THEN OnLocalQueueChanged([k EXCEPT !.qMoved = FALSE], d) ELSE Quiet(k)

TrackEffect(k, d) ==
  IF k.trk = k.prevT THEN Quiet(k)
  ELSE IF k.playing THEN OnLocalTrackChanged([k EXCEPT !.prevT = k.trk], d)
  ELSE Quiet([k EXCEPT !.prevT = k.trk])

PlayingEffect(k, d) ==
  IF k.playing = k.prevP THEN Quiet(k)
  ELSE OnLocalPlayingChanged([k EXCEPT !.prevP = k.playing], d)

Flushed(k) == ~k.qMoved /\ k.trk = k.prevT /\ k.playing = k.prevP

Flush(k, d) ==
  LET a == QueueEffect(k, d)
      b == TrackEffect(a.k, d)
      c == PlayingEffect(b.k, d)
  IN  [k |-> c.k, sends |-> a.sends \o b.sends \o c.sends]

---------------------------------------------------------------------------

(* The user picks output t in the switcher.  Taking the session back goes    *)
(* on where the other device was; handing it over sends the queue and the    *)
(* track along and pauses here.                                              *)
CastTo(k, d, t) ==
  IF ~TargetIsCastable(k, t) THEN Quiet(k)
  ELSE IF t = d
  THEN [k |-> [k EXCEPT !.view = d, !.playing = k.rplaying],
        sends |-> <<[type |-> "SET_ACTIVE_DEVICE", id |-> d, queue |-> {}]>>]
  ELSE [k |-> [k EXCEPT !.view = t, !.sessQ = k.q, !.playing = FALSE],
        sends |-> <<[type |-> "SET_ACTIVE_DEVICE", id |-> t, queue |-> {k.q}],
                    [type |-> "COMMAND", action |-> "SET_TRACK", track |-> k.trk]>>]
=============================================================================
