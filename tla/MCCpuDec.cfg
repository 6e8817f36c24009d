\* A program that counts down.
SPECIFICATION CallSpec
CONSTANTS
  Program <- TinyProgram
  Cells <- SmallCells
  Starts <- SmallStarts
  KernalAnswers = {0}
  InstructionLimit = 5
PROPERTY DecDecrements
CHECK_DEADLOCK FALSE
