\* A loop with its test in the middle, as the comment in label describes it.
SPECIFICATION Spec
CONSTANTS
  Radix = 6
  Native <- MCNative
  RefsCap = 2
  MaxRepeats = 3
  DoStackSize = 2
  UserLabels = {"main", "", "x"}
PROPERTY WhileLoopLabelled
CHECK_DEADLOCK FALSE
