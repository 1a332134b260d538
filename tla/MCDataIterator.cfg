CONSTANTS
  settings = settings
  hub4 = hub4
  s1 = s1
  s2 = s2
  path = path
  NoService = NoService
  End = End
  DeviceTypes = {settings, hub4}
  Paths = {path}
  Services = {s1, s2}
  DBusModbusMap <- MCMap
  Addresses <- MCAddresses
  MaxQuantity = 12
SPECIFICATION Spec
INVARIANT TypeOK CursorInRequest DataAligned ComputesVisited
CHECK_DEADLOCK FALSE
