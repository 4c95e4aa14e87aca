CONSTANTS
  d1 = d1
  d2 = d2
  t1 = t1
  t2 = t2
  q0 = q0
  q1 = q1
  Device = {d1, d2}
  Track = {t1, t2}
  Queue = {q0, q1}
  EmptyQueue = q0
  Conn = {c1, c2, c3}
  NoDevice = NoDevice
  NoTrack = NoTrack
  NoQueue = NoQueue
  NoConn = NoConn
  Restored <- RestoredApart
  Players = {d2}
  LateTouched = {d2}
  Events = {"play", "pause", "pick", "edit", "advance", "control", "cast", "optout", "leave", "cut", "silence", "idle", "reset"}
  MaxEvents = 2
SPECIFICATION Spec
INVARIANTS TypeOK NoGhosts ClientsAgree
PROPERTIES SessionImplemented NoWakeup
CHECK_DEADLOCK FALSE
