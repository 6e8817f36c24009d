\* The logical file table: three numbers for two rows, file calls only.
SPECIFICATION Spec
CONSTANTS
  MaxFiles = 2
  BufferCount = 1
  CommandSize = 1
  NameSize = 1
  SectorSize = 1
  SectorCount = 1
  n1 = n1
  n2 = n2
  n3 = n3
  Numbers = {n1, n2, n3}
  Devices <- FilesDevices
  Secondaries <- FilesSecondaries
  Names <- FilesNames
  BusDevices = {}
  BusSecondaries = {}
  Tokens = {}
  Inputs = {0}
  Outputs = {3}
  Statuses = {0}
  Disks = {TRUE}
INVARIANTS FileTableSound OpenDevicesDriven
PROPERTIES ImplementsLogicalFiles CloseDropsItsFile OpenAllOrNothing
CHECK_DEADLOCK FALSE
SYMMETRY NumberSymmetry
