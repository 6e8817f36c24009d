\* The drive's buffers and channels: raw serial calls, default devices a RAM
\* image may hold.
SPECIFICATION Spec
CONSTANTS
  n1 = n1
  n2 = n2
  n3 = n3
  Numbers = {n1}
  MaxFiles = 1
  BufferCount = 2
  CommandSize = 2
  NameSize = 1
  SectorSize = 2
  SectorCount = 1
  Devices = {8}
  Secondaries <- DriveSecondaries
  Names = {}
  BusDevices = {8}
  BusSecondaries <- DriveBusSecondaries
  Tokens <- DriveTokens
  Inputs = {0}
  Outputs = {3}
  Statuses = {0}
  Disks = {TRUE}
INVARIANTS TypeOK CommandBufferBound
PROPERTIES ChannelIsolation BufferNotStolen BuffersReturnTogether TalkChannelStable
CHECK_DEADLOCK FALSE
