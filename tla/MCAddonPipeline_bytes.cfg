CONSTANTS
  AJob = {a1}
  Item = {i1, i2}
  Card = {c1}
  NoJob = NoJob
  NoCard = NoCard
  MaxEpoch = 1
  AgedSets <- Fresh
  Events = {"album", "sweep"}
SPECIFICATION Spec
PROPERTIES FullIngestFirst
