--------------------------- MODULE RemotePlayback ---------------------------
(***************************************************************************)
(* One user's devices sharing a playback session: the hub of PlaybackHub,    *)
(* a web client (RemoteClient) on each device, and the sockets between       *)
(* them.  A socket delivers in order both ways until its path breaks; then   *)
(* a suffix of what the client sent and all that was under way to it are     *)
(* lost, and the two ends notice separately, in either order.                *)
(*                                                                           *)
(* The interleaved steps are: the server reads a frame, a client reads a     *)
(* frame, a client's effects run (after one frame or after several), a       *)
(* user acts, a path breaks, an end notices, a timer fires.                  *)
(***************************************************************************)
EXTENDS PlaybackHub

CONSTANTS NoConn, NoQueue,
          Restored,     \* the track and the queue each device restored
          Players,      \* devices that may be playing at the start
          LateTouched,  \* devices first touched after they had registered
          Events,       \* the kinds of user acts and faults this instance has
          MaxEvents     \* bound on how many of them happen

ASSUME RemoteAssumption ==
  /\ Restored \in [Device -> [trk : Track, q : Queue]]
  /\ LateTouched \subseteq Device /\ Players \subseteq Device
  /\ MaxEvents \in Nat /\ NoConn \notin Conn
  /\ \E at \in [Device -> Conn] : \A d, e \in Device : at[d] = at[e] => d = e

VARIABLES cl,      \* the client on each device
          sock,    \* its live socket
          up,      \* frames on their way to the server, per socket
          off,     \* devices whose tab is closed
          events,  \* user acts and faults so far
          refused  \* devices whose last cast was refused, until they hear the state

Client == INSTANCE RemoteClient

clientVars == <<cl, sock, up, off, events, refused>>
vars == <<hubVars, clientVars>>

---------------------------------------------------------------------------

Online(d) == sock[d] # NoConn
Live(d) == Online(d) /\ sock[d] \notin dead

(* Frames sent by d's client.  Without an open socket send drops them, and   *)
(* so does a broken path.                                                    *)
Post(d, frames) ==
  up' = IF Live(d) THEN [up EXCEPT ![sock[d]] = @ \o frames] ELSE up

Become(d, k) == cl' = [cl EXCEPT ![d] = k]

Event(kind) == kind \in Events /\ events < MaxEvents /\ events' = events + 1

(* Every device is connected, registered and touched, and the exchange has   *)
(* settled.  Either nobody has played yet and each device holds what it      *)
(* restored, or o has been playing it and everyone mirrors it.               *)
Home == CHOOSE at \in [Device -> Conn] : \A d, e \in Device : at[d] = at[e] => d = e

Met == [NewManager EXCEPT !.listed = Device, !.enabled = Device, !.activated = Device]

Loaded(d) ==
  [Client!FreshClient(Restored[d].trk, Restored[d].q, TRUE) EXCEPT
     !.activated = TRUE, !.roster = Roster(Met), !.sessQ = EmptyQueue]

Mirror(d, o) ==
  LET s == Restored[o]
  IN  [Loaded(d) EXCEPT
         !.view = o, !.rplaying = TRUE, !.trk = s.trk, !.prevT = s.trk, !.q = s.q, !.sessQ = s.q,
         !.lastT = IF s.trk = Restored[d].trk THEN NoTrack ELSE s.trk,
         !.playing = (d = o), !.prevP = (d = o)]

Init ==
  /\ \/ mgr = Met /\ cl = [d \in Device |-> Loaded(d)]
     \/ \E o \in Players :
          /\ mgr = [Met EXCEPT !.active = o, !.playing = TRUE, !.track = Restored[o].trk,
                               !.queue = Restored[o].q, !.idle = FALSE]
          /\ cl = [d \in Device |-> Mirror(d, o)]
  /\ conn = [c \in {Home[d] : d \in Device} |->
               LET d == CHOOSE x \in Device : Home[x] = c
               IN  [device |-> d, enabled |-> TRUE, activated |-> d \notin LateTouched]]
  /\ down = [c \in Conn |-> <<>>]
  /\ dead = {}
  /\ sock = Home
  /\ up = [c \in Conn |-> <<>>]
  /\ off = {}
  /\ events = 0
  /\ refused = {}

---------------------------------------------------------------------------
(* Delivery.                                                                 *)

ServerReads(c) ==
  /\ up[c] # <<>>
  /\ up' = [up EXCEPT ![c] = Tail(@)]
  /\ LET f == Head(up[c])
     IN  /\ OnMessage(c, f)
         /\ refused' =
              IF f.type = "SET_ACTIVE_DEVICE" /\ ~CanTarget(Beaten(c), f.id)
              THEN refused \cup {Sender(c)}
              ELSE refused
  /\ UNCHANGED <<cl, sock, off, events>>

ClientReads(d) ==
  /\ Live(d) /\ down[sock[d]] # <<>>
  /\ LET f == Head(down[sock[d]])
     IN  /\ \E k \in Client!HandleFrame(cl[d], d, f) : Become(d, k)
         /\ refused' = IF f.type = "STATE_SYNC" THEN refused \ {d} ELSE refused
  /\ Taken(sock[d])
  /\ UNCHANGED <<sock, up, off, events>>

(* Angular runs the forwarding effects.                                      *)
EffectsRun(d) ==
  /\ ~Client!Flushed(cl[d])
  /\ LET done == Client!Flush(cl[d], d)
     IN  Become(d, done.k) /\ Post(d, done.sends)
  /\ UNCHANGED <<hubVars, sock, off, events, refused>>

(* The client's 30 s beat, when it tells the server something.               *)
Beat(d) ==
  /\ Live(d) /\ up[sock[d]] = <<>>
  /\ d \in mgr.stale \/ d \notin mgr.listed
  /\ Post(d, <<[type |-> "HEARTBEAT"]>>)
  /\ UNCHANGED <<hubVars, cl, sock, off, events, refused>>

(* The output's 2 s progress report, when it tells the server something.     *)
Progress(d) ==
  /\ Live(d) /\ up[sock[d]] = <<>>
  /\ cl[d].view = d /\ cl[d].playing
  /\ ~mgr.playing \/ mgr.idle \/ d \in mgr.stale \/ d \notin mgr.listed
  /\ Post(d, <<[type |-> "PROGRESS_REPORT"]>>)
  /\ UNCHANGED <<hubVars, cl, sock, off, events, refused>>

---------------------------------------------------------------------------
(* The user.                                                                 *)

Touched(d) == d \notin off /\ cl[d].activated

LocalAct(kind, d, k) ==
  /\ Event(kind) /\ Touched(d)
  /\ Become(d, k)
  /\ UNCHANGED <<hubVars, sock, up, off, refused>>

Resume(d) ==
  /\ ~cl[d].playing /\ Client!DrivesLocalPlayer(cl[d], d)
  /\ LocalAct("play", d, [cl[d] EXCEPT !.playing = TRUE])

Pause(d) ==
  /\ cl[d].playing /\ Client!DrivesLocalPlayer(cl[d], d)
  /\ LocalAct("pause", d, [cl[d] EXCEPT !.playing = FALSE])

(* A song picked anywhere in the app, with or without a new queue.           *)
Pick(d) ==
  \E t \in Track \ {cl[d].trk}, q \in Queue :
    LocalAct("pick", d, [cl[d] EXCEPT !.trk = t, !.playing = TRUE, !.q = q,
                                      !.qMoved = @ \/ q # cl[d].q])

EditQueue(d) ==
  \E q \in Queue \ {cl[d].q} :
    LocalAct("edit", d, [cl[d] EXCEPT !.q = q, !.qMoved = TRUE])

(* The track ends, or Next is pressed here.                                  *)
Advance(d) ==
  /\ cl[d].playing /\ Client!IsAudioOutput(cl[d], d)
  /\ \E k \in Client!PlayNext(cl[d]) : LocalAct("advance", d, k)

(* The transport of a device that drives the session's output.               *)
Control(d) ==
  /\ Event("control") /\ Touched(d)
  /\ ~Client!DrivesLocalPlayer(cl[d], d)
  /\ \E a \in {IF cl[d].rplaying THEN "PAUSE" ELSE "PLAY", "NEXT", "SEEK"} :
       Post(d, <<[type |-> "COMMAND", action |-> a]>>)
  /\ UNCHANGED <<hubVars, cl, sock, off, refused>>

(* The picker offers this device and the available ones.                     *)
Cast(d) ==
  /\ Event("cast") /\ Touched(d)
  /\ \E t \in ({d} \cup cl[d].roster.available) \ {cl[d].view} :
       LET done == Client!CastTo(cl[d], d, t)
       IN  Become(d, done.k) /\ Post(d, done.sends)
  /\ UNCHANGED <<hubVars, sock, off, refused>>

(* The opt-in toggle.                                                        *)
SetOutputAvailable(d) ==
  /\ Event("optout") /\ Touched(d)
  /\ Become(d, [cl[d] EXCEPT !.enabled = ~@])
  /\ Post(d, <<[type |-> "UPDATE_DEVICE", field |-> "remoteEnabled",
                flag |-> ~cl[d].enabled]>>)
  /\ UNCHANGED <<hubVars, sock, off, refused>>

(* The first touch of a loaded page.                                         *)
MarkActivated(d) ==
  /\ d \notin off /\ ~cl[d].activated
  /\ Become(d, [cl[d] EXCEPT !.activated = TRUE])
  /\ Post(d, <<[type |-> "UPDATE_DEVICE", field |-> "activated", flag |-> TRUE]>>)
  /\ UNCHANGED <<hubVars, sock, off, events, refused>>

(* The tab closes: an output releases the session, if that still gets        *)
(* through.  Track, queue and opt-in are in the browser's storage.           *)
Leave(d) ==
  /\ Event("leave") /\ d \notin off
  /\ off' = off \cup {d}
  /\ Become(d, Client!FreshClient(cl[d].trk, cl[d].q, cl[d].enabled))
  /\ sock' = [sock EXCEPT ![d] = NoConn]
  /\ IF Live(d)
     THEN LET sent == up[sock[d]] \o
                        (IF cl[d].view = d THEN <<[type |-> "RELEASE_OUTPUT"]>> ELSE <<>>)
          IN  /\ Break(sock[d])
              /\ \E n \in 0..Len(sent) : up' = [up EXCEPT ![sock[d]] = SubSeq(sent, 1, n)]
     ELSE UNCHANGED <<hubVars, up>>
  /\ refused' = refused \ {d}

Boot(d) ==
  /\ d \in off /\ off' = off \ {d}
  /\ UNCHANGED <<hubVars, cl, sock, up, events, refused>>

---------------------------------------------------------------------------
(* The network and the clocks.                                               *)

Cut(d) ==
  /\ Event("cut") /\ Live(d)
  /\ Break(sock[d])
  /\ \E n \in 0..Len(up[sock[d]]) : up' = [up EXCEPT ![sock[d]] = SubSeq(@, 1, n)]
  /\ UNCHANGED <<cl, sock, off, refused>>

(* The client closes a socket that answers no beat, or hears of its close.   *)
ClientNotices(d) ==
  /\ Online(d) /\ ~Live(d)
  /\ sock' = [sock EXCEPT ![d] = NoConn]
  /\ UNCHANGED <<hubVars, cl, up, off, events, refused>>

ServerNotices(c) ==
  /\ c \in dead /\ up[c] = <<>>
  /\ OnClose(c)
  /\ UNCHANGED clientVars

Idle(c) == c \notin DOMAIN conn /\ up[c] = <<>> /\ \A d \in Device : sock[d] # c

Connect(d) ==
  /\ d \notin off /\ ~Online(d)
  /\ \E c \in Conn :
       /\ Idle(c) /\ c = CHOOSE x \in Conn : Idle(x)
       /\ OnOpen(c)
       /\ sock' = [sock EXCEPT ![d] = c]
       /\ up' = [up EXCEPT ![c] =
            <<[type |-> "REGISTER",
               registration |-> [device |-> d, enabled |-> cl[d].enabled,
                                 activated |-> cl[d].activated]]>>]
  /\ UNCHANGED <<cl, off, events, refused>>

(* 90 s without a frame: a throttled timer, or a path that is broken.        *)
GoesSilent(d) ==
  /\ Event("silence") /\ Silence(d)
  /\ Live(d) => (up[sock[d]] = <<>> /\ sock[d] \in DOMAIN conn)
  /\ UNCHANGED <<cl, sock, up, off, refused>>

SweepRuns ==
  /\ mgr.stale # {} \/ (mgr.idle /\ mgr.active # NoDevice)
  /\ Sweep
  /\ UNCHANGED clientVars

GraceRunsOut(d) == Expire(d) /\ UNCHANGED clientVars

(* Ten minutes in which the output reported no playing.                      *)
GoesIdle ==
  /\ Event("idle") /\ IdleElapses
  /\ LET d == mgr.active IN ~(Live(d) /\ cl[d].view = d /\ cl[d].playing)
  /\ UNCHANGED <<cl, sock, up, off, refused>>

ResetRoute ==
  /\ Event("reset") /\ ResetSession
  /\ UNCHANGED <<cl, sock, up, off, refused>>

---------------------------------------------------------------------------

DeviceStep(d) ==
  \/ ClientReads(d) \/ EffectsRun(d) \/ Beat(d) \/ Progress(d)
  \/ Resume(d) \/ Pause(d) \/ Pick(d) \/ EditQueue(d) \/ Advance(d) \/ Control(d)
  \/ Cast(d) \/ SetOutputAvailable(d) \/ MarkActivated(d) \/ Leave(d) \/ Boot(d)
  \/ Cut(d) \/ ClientNotices(d) \/ Connect(d) \/ GoesSilent(d) \/ GraceRunsOut(d)

Next ==
  \/ \E d \in Device : DeviceStep(d)
  \/ \E c \in Conn : ServerReads(c) \/ ServerNotices(c)
  \/ SweepRuns \/ GoesIdle \/ ResetRoute

Spec == Init /\ [][Next]_vars

---------------------------------------------------------------------------
(* Properties.                                                               *)

ClientType ==
  [view : Device \cup {NoDevice}, roster : RosterType, rplaying : BOOLEAN,
   sessQ : Queue \cup {NoQueue}, lastT : Track \cup {NoTrack}, trk : Track, q : Queue,
   playing : BOOLEAN, claim : Track \cup {NoTrack}, prevT : Track, prevP : BOOLEAN,
   qMoved : BOOLEAN, enabled : BOOLEAN, activated : BOOLEAN]

(* The type of every variable, and what PlaybackHub takes for granted of     *)
(* its clients: a REGISTER is the first frame of its socket and the only     *)
(* one.                                                                      *)
TypeOK ==
  /\ HubTypeOK
  /\ up \in [Conn -> Seq(ClientFrame)]
  /\ \A c \in Conn : \A i \in DOMAIN up[c] :
       up[c][i].type = "REGISTER" => (i = 1 /\ c \notin DOMAIN conn)
  /\ cl \in [Device -> ClientType]
  /\ sock \in [Device -> Conn \cup {NoConn}]
  /\ off \subseteq Device /\ refused \subseteq Device
  /\ events \in 0..MaxEvents

(* d is connected and registered, and nothing is under way between its page  *)
(* and the server.                                                           *)
Heard(d) ==
  /\ Live(d) /\ sock[d] \in DOMAIN conn
  /\ up[sock[d]] = <<>> /\ down[sock[d]] = <<>>

(* Whatever the other devices, their links and the timers do: a client that  *)
(* has heard the server, and was heard, agrees with it on who the output is, *)
(* whether it plays, which devices there are, what the session's queue is;   *)
(* it takes no device in its grace for reachable and waits for no answer to  *)
(* a claim (it would not claim that track again).  The exception is a client *)
(* whose last cast was refused: the server says nothing, so it goes on       *)
(* showing the target until the next STATE_SYNC.                             *)
ClientsAgree ==
  \A d \in Device : Heard(d) =>
    LET r == cl[d].roster
    IN  /\ r.listed = mgr.listed /\ r.available = Roster(mgr).available
        /\ Roster(mgr).pending \subseteq r.pending
        /\ cl[d].rplaying = mgr.playing /\ cl[d].claim = NoTrack
        /\ d \notin refused => cl[d].view = mgr.active /\ cl[d].sessQ = mgr.queue

Sounds(d) == d \notin off /\ cl[d].playing /\ Client!IsAudioOutput(cl[d], d)

(* A device starts to sound only by its own user's act or, told by the       *)
(* server, as the session's output: never because a session it controlled    *)
(* ended or a link went away.                                                *)
NoWakeup ==
  [][\A d \in Device :
       Sounds(d)' /\ ~Sounds(d) /\ events' = events => cl'[d].view = d]_vars
=============================================================================
