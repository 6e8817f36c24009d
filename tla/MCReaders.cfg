\* The programs that read files: dumps of Forth words, program files, disk
\* images, Apple diskettes and disk commands.
SPECIFICATION ReadersSpec
CONSTANTS
  Radix = 6
  Native <- MCNative
  RefsCap = 2
  MaxRepeats = 3
  DoStackSize = 2
  UserLabels = {"main", "", "x"}
  Block = 4
  Wrap = 32
  Page = 4
  RamSize = 16
  FileSizes = {0, 1, 2, 3, 4, 5, 8, 9, 14, 18, 28, 29, 30, 32, 34}
  ExactSize <- MCExactSize
  TRACK_INFO <- MCTracks
  ImageTracks = 1
  DirStart <- n0
  Slots = 2
  MaxEntries = 3
  Dsk <- MCDsk
  DirRoom = 2
  Entries = 2
  Room = 4
  StdioSectors = 2
  Name <- MCNames
  FileName <- MCFiles
  Translation <- MCTranslation
  UIntSize = 64
  ByteSize = 16
  MaxArgs = 3
INVARIANTS DecompilerTypeOK ScannedIsTyped BranchesInRange ReferencesFollowed LabelsWritten BufferSound  DirectoryComplete FilesWhole ArgsAsSent
PROPERTIES LabelsReadBack ScanExplores ReadersEnd
CHECK_DEADLOCK FALSE
