CONSTANTS
  AJob = {a1}
  Item = {i1}
  Card = {c1, c2}
  NoJob = NoJob
  NoCard = NoCard
  MaxEpoch = 1
  AgedSets <- Fresh
  Events = {"url", "cancel", "submitFails", "lateItems", "addonError", "valve", "addonDown", "repoint", "replace", "prune", "pollFail"}
SPECIFICATION Spec
INVARIANTS ErrorStatesReason
PROPERTIES CancelHolds
