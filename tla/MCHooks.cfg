\* Hooks of two addresses, registered before and after the table is built, and
\* the loader's hooks watching a bytecode of three bytes.
SPECIFICATION LoaderSpec
CONSTANTS
  a1 = a1
  a2 = a2
  p1 = p1
  p2 = p2
  p3 = p3
  Addresses = {a1, a2}
  IDs = {"other"}
  MaxHooks = 3
  RamSize = 3
  Byte = {0, 1}
  INSTRUCTION_COUNT = 1
  LoaderHooks <- MCLoaderHooks
INVARIANTS RangesInTable DisassemblyComplete
PROPERTIES NoForeignHook SoleHookRuns
CHECK_DEADLOCK FALSE
SYMMETRY AddressSymmetry
