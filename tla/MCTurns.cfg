SPECIFICATION MCSpec
CONSTANTS
  None = None
  i1 = i1
  i2 = i2
  b1 = b1
  b2 = b2
  ni = ni
  nb = nb
  Interactive = {i1, i2, ni}
  Batch = {b1, b2, nb}
  Size = 2
  Context <- ContextOf
  Field = {bpm, genre}
  Curated = {genre}
  MaxVersion = 2
  BatchSlots = {1, 2}
  MaxFaults = 1
  File = {1}
  AlbumDir <- OneFolder
  TrackOf <- Alone
  Rank <- PathRank
  Reconcile = {}
  Caller = {c1, c2}
  Versions <- Once
  MaxFix = 1
  MaxMisses = 1
  Folder = {{t1}}
  Job = {j1}
  Kinds = {"renamed"}
INVARIANTS TypeOK TagTypeOK SlotsRespected NestedUnderSlot NoIdleSlot Mirrored
PROPERTIES InteractiveFirst InteractiveServed BatchServed KeptUntilMirrored QueueDrains SyncAnswered ImportSettles
