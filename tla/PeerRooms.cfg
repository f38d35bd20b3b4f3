CONSTANTS
  i1 = i1
  e1 = e1
  e2 = e2
  m1 = m1
  usEast = usEast
  local = local
  p1 = p1
  p2 = p2
  p3 = p3
  A = A
  B = B
  Ingresses = {i1}
  Egresses = {e1, e2}
  Movements = {}
  Servers <- MCServers
  ModeOf <- MCModeOf
  RegionOf <- MCRegionOf
  Regions <- MCRegions
  UsEast = usEast
  Local = local
  Unknown = Unknown
  Loads = {0}
  PipeRoutes = {}
  None = None
  Throws = Throws
  Peers = {p1, p2, p3}
  HomeOf <- MCHomeOf
  Rooms = {A}
  MaxEntries = 1
  MaxLosses = 0
  Transitions = FALSE
SPECIFICATION Spec
SYMMETRY PeerSymmetry
INVARIANTS
  TypeOK
  EgressMesh
  RouteCoversPeers
  RoomStaysOpen
  EmptyRoomReleased
  RolesCounted
PROPERTIES FramesSpec
CHECK_DEADLOCK FALSE
