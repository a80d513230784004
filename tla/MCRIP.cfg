SPECIFICATION FairSpec
CONSTANTS
  Router = {"A", "B"}
  Net = {"p", "q"}
  Dest = {"p", "q", "x"}
  ifaces <- MCifaces
  cost <- MCcost
  mode <- MCmode
  static <- MCstatic
  Infinity = 4
  MaxQueue = 1
  MaxInFlight = 0
  MaxFaults = 2
INVARIANTS RouteInstalled QuietWhenStopped
PROPERTIES ImplementsDistanceVector Convergence
CHECK_DEADLOCK FALSE
