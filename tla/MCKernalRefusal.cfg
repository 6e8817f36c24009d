\* A refused OPEN in a machine whose default output is still zero.
SPECIFICATION Spec
CONSTANTS
  n1 = n1
  n2 = n2
  n3 = n3
  Numbers = {n1}
  MaxFiles = 1
  BufferCount = 1
  CommandSize = 1
  NameSize = 1
  SectorSize = 1
  SectorCount = 1
  Devices <- DevicesDevices
  Secondaries <- DevicesSecondaries
  Names <- DevicesNames
  BusDevices = {8, 9}
  BusSecondaries <- DevicesBusSecondaries
  Tokens <- DevicesTokens
  Inputs = {8}
  Outputs = {0}
  Statuses = {64}
  Disks = {TRUE, FALSE}
PROPERTY RefusalReported
CHECK_DEADLOCK FALSE
