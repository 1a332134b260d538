CONSTANTS
  settings = settings
  hub4 = hub4
  st = st
  h1 = h1
  h2 = h2
  a = a
  b = b
  c = c
  NoService = NoService
  NoInput = NoInput
  DeviceTypes = {settings, hub4}
  Paths = {a, b, c}
  Services = {st, h1, h2}
  DBusModbusMap <- MCMap
  Inputs <- MCReplugInputs
  MaxRequests = 2
  RouteTables <- ReplugRoutes
  ReadWriteValues = {TRUE, FALSE}
  Reloads = TRUE
SPECIFICATION Spec
CHECK_DEADLOCK FALSE
INVARIANT TypeOK OnlyWritableWritten AcknowledgedInFull
PROPERTY CompletedOnce
