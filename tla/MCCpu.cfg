\* Programs of up to four instructions.
SPECIFICATION CallSpec
CONSTANTS
  Program <- SmallProgram
  Cells <- SmallCells
  Starts <- SmallStarts
  KernalAnswers = {0}
  InstructionLimit = 5
INVARIANTS TypeOK RamReadsRam
PROPERTIES ArithmeticExact CompareOrders CallsComeBack BytesComeBack
CHECK_DEADLOCK FALSE
