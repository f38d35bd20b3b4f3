CONSTANTS
  i1 = i1
  i2 = i2
  e1 = e1
  e2 = e2
  usEast = usEast
  euCentral = euCentral
  local = local
  Servers <- MCServers
  ModeOf <- MCModeOf
  RegionOf <- MCRegionOf
  Regions <- MCRegions
  UsEast = usEast
  Local = local
  Unknown = Unknown
  Loads = {1, 2}
  PipeRoutes = {r1, r2}
  None = None
  Throws = Throws
SPECIFICATION RouterSpec
SYMMETRY IngressSymmetry
INVARIANTS
  RouterTypeOK
  RegistryIsLive
  SelectionIsLive
  OfferHasPipe
  AnswerReachesOpener
CHECK_DEADLOCK FALSE
