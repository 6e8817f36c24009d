\* Two hooks of one address, one before and one after the instruction.
SPECIFICATION LoaderSpec
CONSTANTS
  a1 = a1
  a2 = a2
  p1 = p1
  p2 = p2
  p3 = p3
  Addresses = {a1, a2}
  IDs = {"other"}
  MaxHooks = 2
  RamSize = 2
  Byte = {0}
  INSTRUCTION_COUNT = 1
  LoaderHooks <- MCLoaderHooks
INVARIANT PostHooksSortAfter
CHECK_DEADLOCK FALSE
SYMMETRY AddressSymmetry
