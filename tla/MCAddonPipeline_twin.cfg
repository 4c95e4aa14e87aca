CONSTANTS
  AJob = {a1}
  Item = {i1}
  Card = {c1, c2}
  NoJob = NoJob
  NoCard = NoCard
  MaxEpoch = 1
  AgedSets <- Fresh
  Events = {"album", "laneRace"}
SPECIFICATION Spec
INVARIANTS OneCardPerJob
