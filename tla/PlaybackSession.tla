-------------------------- MODULE PlaybackSession --------------------------
(***************************************************************************)
(* What the shared session promises: one output at a time, and an output     *)
(* that can be driven is never taken over by another device's play.  It      *)
(* moves by hand to a device that can be driven, the song going on there,    *)
(* or by a play elsewhere once it cannot be driven itself.                   *)
(*                                                                           *)
(* drivable is what can be driven now, which every step may change; away     *)
(* says that the output is gone and its grace is running.                    *)
(***************************************************************************)
CONSTANTS Device, NoDevice, Track, NoTrack

VARIABLES output, song, drivable, away

sessionVars == <<output, song, drivable, away>>

Init ==
  /\ output \in Device \cup {NoDevice} /\ song \in Track \cup {NoTrack}
  /\ drivable \in SUBSET Device /\ away = FALSE

(* Whatever happens to the devices, an output that is away is not drivable.  *)
Around ==
  /\ drivable' \in SUBSET Device
  /\ away' => output' \notin drivable'

(* The output stays: devices come and go, it may be lost or come back, it    *)
(* plays on or turns to another song.                                        *)
Stay ==
  /\ output' = output /\ song' \in Track \cup {NoTrack}
  /\ away' \in BOOLEAN /\ (away' => output # NoDevice)
  /\ Around

(* d plays: it becomes the output unless the present one can be driven.      *)
Claim(d) ==
  /\ output \in {NoDevice, d} \/ output \notin drivable
  /\ output' = d /\ song' \in Track /\ away' = FALSE
  /\ Around

(* The user points the session at d.                                         *)
Cast(d) ==
  /\ output' = d /\ UNCHANGED song /\ away' = FALSE
  /\ d \in drivable'
  /\ Around

(* The song of an ended session is kept, or cleared by a reset.              *)
End ==
  /\ output' = NoDevice /\ song' \in {song, NoTrack} /\ away' = FALSE
  /\ Around

Next == Stay \/ End \/ \E d \in Device : Claim(d) \/ Cast(d)

Spec == Init /\ [][Next]_sessionVars
=============================================================================
