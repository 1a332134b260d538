CONSTANTS
  grid = grid
  system = system
  g1 = g1
  g2 = g2
  changing = changing
  sys = sys
  NoService = NoService
  NoValue = NoValue
  DeviceTypes = {grid, system}
  Services = {changing}
  TypeOf <- MCTypeOf
  InstancesOf <- MCInstancesOf
  UnitIDMap <- MCUnitIDMap
  GetUnitId <- MCGetUnitId
SPECIFICATION Spec
INVARIANT DisappearedIsInactive
