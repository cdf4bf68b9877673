SPECIFICATION FairSpec
CONSTANT OnDemand = {TRUE, FALSE}
INVARIANTS
  NoPanic
  StoppedIsGone
  StreamIsFed
PROPERTIES
  ImplementsStaticSource
  StopReturns
CHECK_DEADLOCK FALSE
