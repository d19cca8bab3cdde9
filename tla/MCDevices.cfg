CONSTANTS
  Machines <- MCMachines
  Devicesets <- MCDevicesets
  CpuLimits <- MCCpuLimits
  MaxDevices = 8
  MinimumCpusPerSocket = 2
  DefaultMaxCoresPerSlice = 2
  MaxCores <- MCMaxCores
  ThreadRatios <- MCThreadRatios
  GpuMachines <- MCGpuMachines
  IdxdMachines <- MCIdxdMachines
  UnitSets <- MCUnitSets
  MaxUnits = {0, 3}
  DefaultMaxUnits = 2
  Patterns = {0, 1, 2}
SPECIFICATION BuildSpec
INVARIANTS TopologyIsReal DevicesetSelects FailuresNameTheirCores SlicesAreSound
  UnitsAreTested FailedUnitsAreNamed
