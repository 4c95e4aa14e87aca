CONSTANTS
  AJob = {a1}
  Item = {i1}
  Card = {c1}
  NoJob = NoJob
  NoCard = NoCard
  MaxEpoch = 1
  AgedSets <- Fresh
  Events = {"url", "cancel"}
SPECIFICATION Spec
PROPERTIES CancelledUrlStaysClosed
