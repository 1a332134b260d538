CONSTANTS
  vebus = vebus
  modbustcp = modbustcp
  v1 = v1
  v2 = v2
  OwnService = own
  NoService = NoService
  NoValue = NoValue
  DeviceTypes = {vebus, modbustcp}
  Services = {v1, v2, own}
  TypeOf <- MCTypeOf
  Instances = {0, 5}
  Units = {0, 5, 9}
  UnitIDLines <- MCUnitIDLines
SPECIFICATION Spec
INVARIANT TypeOK RegistryComplete LiveNotMasked PublishedUnitReachable
