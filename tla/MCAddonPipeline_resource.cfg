CONSTANTS
  AJob = {a1, a2}
  Item = {i1}
  Card = {c1}
  NoJob = NoJob
  NoCard = NoCard
  MaxEpoch = 1
  AgedSets <- Fresh
  Events = {"album", "resource", "remove"}
SPECIFICATION Spec
PROPERTIES SupersededInert
