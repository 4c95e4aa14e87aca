CONSTANTS
  AJob = {a1}
  Item = {i1}
  Card = {c1}
  NoJob = NoJob
  NoCard = NoCard
  MaxEpoch = 2
  AgedSets <- Fresh
  Events = {"album", "sweep", "restart", "cancel", "remove", "addonDown"}
SPECIFICATION FairSpec
PROPERTIES CardSettles RemovedJobReleased
