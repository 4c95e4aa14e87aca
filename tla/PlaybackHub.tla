---------------------------- MODULE PlaybackHub ----------------------------
(***************************************************************************)
(* The hub of one user's playback sockets, createPlaybackHub in              *)
(* services/websocket.ts, over the session of PlaybackState.                 *)
(*                                                                           *)
(* conn is the connection table: what each connected socket registered       *)
(* with.  down holds the frames written to each socket and not yet read at   *)
(* the other end; dead holds the sockets whose path is broken, so that       *)
(* nothing more arrives over them and their close is still to come.          *)
(*                                                                           *)
(* A frame is handled to its end (the handlers do not await), and so is a    *)
(* close, a timer and the reset route: each is one action.  HubSpec lets     *)
(* any client send any frame at any time; RemotePlayback puts the real clients  *)
(* at the other end.                                                         *)
(***************************************************************************)
EXTENDS PlaybackState, Functions

CONSTANTS Conn    \* socket identities; one is used for one connection at a time

VARIABLES mgr,    \* the user's PlaybackStateManager
          conn,   \* connections: Conn -> what it registered with
          down,   \* frames on their way to each client
          dead    \* sockets that lost their path

hubVars == <<mgr, conn, down, dead>>

Registration == [device : Device, enabled : BOOLEAN, activated : BOOLEAN]

(* What clients send.  The three kinds of STATE_UPDATE are those the web     *)
(* client builds; SEEK stands for the commands that only move state the      *)
(* model leaves out (SEEK, VOLUME), NEXT for those only relayed.             *)
RegisterFrame == [type : {"REGISTER"}, registration : Registration]
BeatFrame == [type : {"HEARTBEAT"}]
ReportFrame ==
       [type : {"STATE_UPDATE"}, about : {"playing"}, playing : BOOLEAN]
  \cup [type : {"STATE_UPDATE"}, about : {"track"}, track : Track]
  \cup [type : {"STATE_UPDATE"}, about : {"queue"}, queue : Queue]
CommandFrame ==
       [type : {"COMMAND"}, action : {"PLAY", "PAUSE", "SEEK", "NEXT"}]
  \cup [type : {"COMMAND"}, action : {"SET_TRACK"}, track : Track]
  \cup [type : {"COMMAND"}, action : {"SET_QUEUE"}, queue : Queue]
ProgressFrame == [type : {"PROGRESS_REPORT"}]
CastFrame ==
       [type : {"SET_ACTIVE_DEVICE"}, id : Device, queue : {{}}]
  \cup [type : {"SET_ACTIVE_DEVICE"}, id : Device, queue : {{q} : q \in Queue}]
ClaimFrame == [type : {"CLAIM_OUTPUT"}, track : Track, queue : Queue]
ReleaseFrame == [type : {"RELEASE_OUTPUT"}]
UpdateFrame ==
  [type : {"UPDATE_DEVICE"}, field : {"remoteEnabled", "activated"}, flag : BOOLEAN]

ClientFrame ==
  RegisterFrame \cup BeatFrame \cup ReportFrame \cup CommandFrame \cup ProgressFrame
    \cup CastFrame \cup ClaimFrame \cup ReleaseFrame \cup UpdateFrame

(* What the server sends: a STATE_SYNC with or without the device list, the  *)
(* list alone, the output's progress, a command relayed.                     *)
ServerFrame ==
       [type : {"STATE_SYNC"}, state : StateType, devices : SUBSET RosterType]
  \cup [type : {"DEVICES_SYNC"}, devices : RosterType]
  \cup [type : {"PROGRESS"}]
  \cup CommandFrame

---------------------------------------------------------------------------

Sender(c) == IF c \in DOMAIN conn THEN conn[c].device ELSE NoDevice

(* The session after the beat every frame of a registered device is.         *)
Beaten(c) == IF c \in DOMAIN conn THEN Heartbeat(mgr, conn[c]) ELSE mgr

(* The outcome m is committed: what it emitted goes to every socket in the   *)
(* table conns, then to each socket its own frames.  A broken path takes     *)
(* nothing.                                                                  *)
Send(m, conns, own) ==
  /\ mgr' = [m EXCEPT !.out = <<>>]
  /\ down' = [x \in Conn |->
       IF x \in dead THEN down[x]
       ELSE down[x] \o (IF x \in conns THEN m.out ELSE <<>>) \o own[x]]

To(conns, frame) == [x \in Conn |-> IF x \in conns THEN <<frame>> ELSE <<>>]

Serve(m, own) == Send(m, DOMAIN conn, own) /\ UNCHANGED <<conn, dead>>

Broadcast(m) == Serve(m, [x \in Conn |-> <<>>])

(* The connection is in the table before the device is registered, so the    *)
(* sender hears the device list too; then it gets the state privately.       *)
OnRegister(c, f) ==
  /\ f.type = "REGISTER"
  /\ conn' = [x \in DOMAIN conn \cup {c} |-> IF x = c THEN f.registration ELSE conn[x]]
  /\ LET m == RegisterDevice(mgr, f.registration)
     IN  Send(m, DOMAIN conn \cup {c}, To({c}, StateReply(m)))
  /\ UNCHANGED dead

OnHeartbeat(c, f) ==
  /\ f.type = "HEARTBEAT"
  /\ Broadcast(Beaten(c))

(* While a session exists only its output may describe it.                   *)
OnStateUpdate(c, f) ==
  /\ f.type = "STATE_UPDATE"
  /\ LET m == Beaten(c)
     IN  Broadcast(
           IF m.active \notin {NoDevice, Sender(c)} THEN m
           ELSE IF f.about = "playing"
           THEN Report(m, [m EXCEPT !.playing = f.playing, !.idle = @ /\ ~f.playing])
           ELSE IF f.about = "track"
           THEN Report(m, [m EXCEPT !.track = f.track, !.playing = TRUE, !.idle = FALSE])
           ELSE Report(m, [m EXCEPT !.queue = f.queue]))

(* State first, in a broadcast, then the command itself to every socket:     *)
(* the output executes it, the others ignore it.                             *)
OnCommand(c, f) ==
  /\ f.type = "COMMAND"
  /\ LET m == Beaten(c)
         new ==
           CASE f.action = "PLAY" -> Announce([m EXCEPT !.playing = TRUE, !.idle = FALSE])
             [] f.action = "PAUSE" -> Announce([m EXCEPT !.playing = FALSE])
             [] f.action = "SEEK" -> Announce(m)
             [] f.action = "SET_TRACK" ->
                  Announce([m EXCEPT !.track = f.track, !.playing = TRUE, !.idle = FALSE])
             [] f.action = "SET_QUEUE" -> Announce([m EXCEPT !.queue = f.queue])
             [] f.action = "NEXT" -> m
     IN  Broadcast(Emit(new, f))

(* Only the output's progress counts.  A report that turns the session to    *)
(* playing is told to all in full, a steady one to the other sockets only.   *)
OnProgress(c, f) ==
  /\ f.type = "PROGRESS_REPORT"
  /\ LET m == Beaten(c)
         on == [m EXCEPT !.playing = TRUE, !.idle = FALSE]
     IN  IF Sender(c) = NoDevice \/ Sender(c) # m.active THEN Broadcast(m)
         ELSE IF m.playing THEN Serve(on, To(DOMAIN conn \ {c}, [type |-> "PROGRESS"]))
         ELSE Broadcast(Announce(on))

(* A target that cannot be driven is refused without a word.                 *)
OnSetActiveDevice(c, f) ==
  /\ f.type = "SET_ACTIVE_DEVICE"
  /\ LET m == Beaten(c)
     IN  \E q \in IF f.queue = {} THEN {m.queue} ELSE f.queue :
           Broadcast(IF CanTarget(m, f.id) THEN PointAt(m, f.id, q) ELSE m)

OnClaimOutput_NoReply(c, f) ==
  /\ f.type = "CLAIM_OUTPUT"
  /\ LET m == Beaten(c)
         d == Sender(c)
     IN  Broadcast(IF d # NoDevice /\ Claimable(m, d)
                   THEN ClaimOutput(m, d, f.track, f.queue) ELSE m)

(* The loser of a race learns the truth privately.                           *)
OnClaimOutput(c, f) ==
  /\ f.type = "CLAIM_OUTPUT"
  /\ LET m == Beaten(c)
         d == Sender(c)
     IN  IF d # NoDevice /\ Claimable(m, d)
         THEN Broadcast(ClaimOutput(m, d, f.track, f.queue))
         ELSE Serve(m, To({c} \cap DOMAIN conn, StateReply(m)))

OnReleaseOutput(c, f) ==
  /\ f.type = "RELEASE_OUTPUT"
  /\ Broadcast(IF Sender(c) = NoDevice THEN Beaten(c)
               ELSE ReleaseIfActive(Beaten(c), Sender(c)))

(* The flags the socket registered with are not touched.                     *)
OnUpdateDevice(c, f) ==
  /\ f.type = "UPDATE_DEVICE"
  /\ Broadcast(UpdateDevice(Beaten(c), Sender(c), f.field, f.flag))

OnMessage(c, f) ==
  \/ OnRegister(c, f)
  \/ OnHeartbeat(c, f)
  \/ OnStateUpdate(c, f)
  \/ OnCommand(c, f)
  \/ OnProgress(c, f)
  \/ OnSetActiveDevice(c, f)
  \/ OnClaimOutput(c, f)
  \/ OnReleaseOutput(c, f)
  \/ OnUpdateDevice(c, f)

(* A socket is accepted: nothing is known of it before it registers.         *)
OnOpen(c) ==
  /\ c \notin DOMAIN conn
  /\ dead' = dead \ {c}
  /\ down' = [down EXCEPT ![c] = <<>>]
  /\ UNCHANGED <<mgr, conn>>

(* The close of c reaches the server.  The device goes only with the last    *)
(* socket that holds its id.                                                 *)
OnClose(c) ==
  /\ c \in DOMAIN conn
  /\ conn' = Restrict(conn, DOMAIN conn \ {c})
  /\ LET d == conn[c].device
         held == \E x \in DOMAIN conn \ {c} : conn[x].device = d
     IN  Send(IF held THEN mgr ELSE UnregisterDevice(mgr, d), DOMAIN conn \ {c},
              [x \in Conn |-> <<>>])
  /\ UNCHANGED dead

---------------------------------------------------------------------------
(* Timers, clocks and the reset route.                                       *)

Expire(d) == d \in mgr.pending /\ Broadcast(GraceEnds(mgr, d))

Sweep == Broadcast(CleanupStaleDevices(mgr))

ResetSession == Broadcast(Reset(mgr))

(* 90 s without a frame from d; 10 min without a word of playing.            *)
Silence(d) ==
  /\ d \in mgr.listed \ mgr.stale
  /\ mgr' = [mgr EXCEPT !.stale = @ \cup {d}]
  /\ UNCHANGED <<conn, down, dead>>

IdleElapses ==
  /\ mgr.active # NoDevice /\ ~mgr.idle
  /\ mgr' = [mgr EXCEPT !.idle = TRUE]
  /\ UNCHANGED <<conn, down, dead>>

---------------------------------------------------------------------------
(* The other end, when nothing is known of it.                               *)

(* A client reads its next frame.                                            *)
Taken(c) ==
  /\ down[c] # <<>>
  /\ down' = [down EXCEPT ![c] = Tail(@)]
  /\ UNCHANGED <<mgr, conn, dead>>

(* The path of c breaks; what was under way to the client is lost.           *)
Break(c) ==
  /\ c \notin dead
  /\ dead' = dead \cup {c}
  /\ down' = [down EXCEPT ![c] = <<>>]
  /\ UNCHANGED <<mgr, conn>>

HubInit ==
  /\ mgr = NewManager
  /\ conn = <<>>
  /\ down = [c \in Conn |-> <<>>]
  /\ dead = {}

(* A client registers once per socket, in its onopen.                        *)
HubNext ==
  \/ \E c \in Conn, f \in ClientFrame :
       (f.type = "REGISTER" => c \notin DOMAIN conn) /\ OnMessage(c, f)
  \/ \E c \in Conn : OnOpen(c) \/ OnClose(c) \/ Taken(c) \/ Break(c)
  \/ \E d \in Device : Expire(d) \/ Silence(d)
  \/ Sweep
  \/ ResetSession
  \/ IdleElapses

HubSpec == HubInit /\ [][HubNext]_hubVars

---------------------------------------------------------------------------
Manager ==
  [active : Device \cup {NoDevice}, playing : BOOLEAN, track : Track \cup {NoTrack},
   queue : Queue, listed : SUBSET Device, enabled : SUBSET Device,
   activated : SUBSET Device, pending : SUBSET Device, stale : SUBSET Device,
   idle : BOOLEAN, out : Seq(ServerFrame)]

(* The type of every variable, and the shape of the session: the flags are   *)
(* flags of listed devices, and no emitted frame outlives its step.          *)
HubTypeOK ==
  /\ mgr \in Manager /\ mgr.out = <<>>
  /\ mgr.enabled \cup mgr.activated \cup mgr.stale \subseteq mgr.listed
  /\ DOMAIN conn \subseteq Conn /\ conn \in [DOMAIN conn -> Registration]
  /\ down \in [Conn -> Seq(ServerFrame)]
  /\ dead \subseteq Conn

(* Every device the list shows as reachable is held by a socket that         *)
(* registered it, and the session's output is always in the list: so no      *)
(* close, prune, heal, expired grace or re-registration, in any order,       *)
(* leaves a ghost that swallows casts or a session that nothing will end.    *)
NoGhosts ==
  /\ \A d \in mgr.listed \ mgr.pending : \E c \in DOMAIN conn : conn[c].device = d
  /\ mgr.active # NoDevice => mgr.active \in mgr.listed

Session ==
  INSTANCE PlaybackSession WITH output <- mgr.active, song <- mgr.track,
                                drivable <- Drivable(mgr),
                                away <- mgr.active \in mgr.pending

(* The hub implements the shared session: whatever the clients send, and     *)
(* whatever is pruned, lost, healed or expired meanwhile, the output moves   *)
(* only by a claim over an output that cannot be driven, by a cast to a      *)
(* device that can, which does not disturb the song, or by the session's     *)
(* end.                                                                      *)
SessionImplemented == Session!Spec
=============================================================================
