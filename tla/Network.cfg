SPECIFICATION FairSpec
CONSTANTS
  CAP = 2
  Faults = {}
  Maps <- AllMaps
  Nodes <- MapNodes
  Flows <- MeetingFlows
  SENDS = 4
INVARIANTS
  WayBackGetsShorter
  TypeOK
  ArriveInOrder
PROPERTIES
  RoutesAreShortest
  Drains
  Starts
CHECK_DEADLOCK FALSE
