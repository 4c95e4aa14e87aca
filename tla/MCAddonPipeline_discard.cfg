CONSTANTS
  AJob = {a1}
  Item = {i1}
  Card = {c1}
  NoJob = NoJob
  NoCard = NoCard
  MaxEpoch = 1
  AgedSets <- Fresh
  Events = {"album", "discard"}
SPECIFICATION Spec
PROPERTIES DiscardHolds
