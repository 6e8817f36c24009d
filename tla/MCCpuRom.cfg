\* A program that maps the ROMs.
SPECIFICATION CallSpec
CONSTANTS
  Program <- SmallProgram
  Cells <- SmallCells
  Starts <- SmallStarts
  KernalAnswers = {0}
  InstructionLimit = 5
INVARIANT RomReadsRom
CHECK_DEADLOCK FALSE
