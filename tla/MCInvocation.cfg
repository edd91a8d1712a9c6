SPECIFICATION Spec
CONSTANTS
  Evidence = {e}
  Paths = {p1, p2}
  NoPath = NoPath
INVARIANTS
  StatusIsTrue
  DeliveredIsFinal
  DryRunCreatesNothing
  SignalStopsDisclosure
PROPERTIES
  NothingOverwritten
  EndsIfAnswered
