CONSTANTS
  AJob = {a1}
  Item = {i1, i2}
  Card = {c1}
  NoJob = NoJob
  NoCard = NoCard
  MaxEpoch = 1
  AgedSets <- Stalled
  Events = {"album", "landing", "fetchFail", "organizeFail", "scanMiss", "deleteFails", "crash", "rescue", "discard", "submitFails"}
SPECIFICATION Spec
INVARIANTS TypeOK DoneMeansDelivered NoJobLost
PROPERTIES FullIngestFirst LandedStays
