SPECIFICATION Spec
CONSTANTS
  Readers = {r1, r2}
  Publishers = {p1, p2}
  Confs <- AllConfs
SYMMETRY Symmetry
INVARIANTS
  HoldsAreOpenCalls
  ReadersStreamSource
  DroppedClientsAreTold
  NoGhostClients
  DemandFollowsUse
  StaticHoldsAreTimed
  ReaderLimit
PROPERTIES
  UsesStaticSource
  ImplementsPathService
  UnusedPathLeaves
