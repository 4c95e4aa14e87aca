SPECIFICATION MCSpec
CONSTANTS
  Acquire = {w}
  Retry = {}
  Watch = w
  Hunt = {h}
  Grab = {g}
  GrabFacets = {{"name"}}
  MaxJobs = 2
  MaxApart = 1
  MaxCards = 2
  File = {1, 2}
  AlbumDir <- OneFolder
  TrackOf <- Copies
  Rank <- PathRank
  Reconcile = {r1}
  Caller = {c1, c2}
  SecondCaller = c2
  Versions <- Twice
  MaxFix = 1
  MaxMisses = 1
  Folder = {{t1}, {t2}}
  Job = {j1}
  Kinds = {"renamed", "copied", "archive"}
INVARIANTS GetTypeOK LibTypeOK ImportTypeOK OneRow OneDownload Indexed FixHolds OriginalsKept
PROPERTIES NoSongLost SyncObserves
