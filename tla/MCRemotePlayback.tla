-------------------------- MODULE MCRemotePlayback --------------------------
(* Two devices that restored different tracks and queues.                    *)
EXTENDS RemotePlayback, TLC

CONSTANTS d1, d2, t1, t2, q0, q1

RestoredApart ==
  d1 :> [trk |-> t1, q |-> q1] @@ d2 :> [trk |-> t2, q |-> q0]
=============================================================================
