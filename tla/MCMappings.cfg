CONSTANTS
  settings = settings
  hub4 = hub4
  st = st
  h1 = h1
  h2 = h2
  a = a
  b = b
  c = c
  NoService = NoService
  NoInput = NoInput
  DeviceTypes = {settings, hub4}
  Paths = {a, b, c}
  Services = {st, h1}
  DBusModbusMap <- MCMap
  Inputs <- MCInputs
  MaxRequests = 2
  RouteTables <- UnplugRoutes
  ReadWriteValues = {TRUE}
  Reloads = FALSE
SPECIFICATION Spec
INVARIANT NoLostWakeup UsesLoadedItems
CHECK_DEADLOCK FALSE
PROPERTY IsRequestService MonitorsItems
