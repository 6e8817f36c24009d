----------------------------- MODULE EcaLoader -----------------------------
(***************************************************************************)
(* The observer of emu6502/ecaloader.c: its hooks watch a bytecode         *)
(* interpreter that runs on the emulated machine, note what it reads as    *)
(* atoms, and a disassembly is written from them when the emulator exits.  *)
(* Its callback runs with the hooks of module Hooks.                       *)
(***************************************************************************)
EXTENDS Hooks, Integers

CONSTANTS
  RamSize,           \* RAM_SIZE
  Byte,              \* values of a byte
  INSTRUCTION_COUNT, \* bytecodes of the interpreter (20)
  LoaderHooks        \* LOADER_INTERP_HOOKS

ASSUME LoaderAssumption ==
  RamSize \in Nat \ {0} /\ Byte \subseteq Nat /\ INSTRUCTION_COUNT \in Nat

READ_INSTR == "READ_INSTR"
CAPTURE_WORDOP == "CAPTURE_WORDOP"
CAPTURE_BYTEOP == "CAPTURE_BYTEOP"
RAMDUMP == "RAMDUMP"
LoaderID == {READ_INSTR, CAPTURE_WORDOP, CAPTURE_BYTEOP, RAMDUMP}

LoaderAddresses == {LoaderHooks[i].pc : i \in DOMAIN LoaderHooks}

ASSUME LoaderHooksAssumption ==
  /\ LoaderHooks \in Seq([pc : LoaderAddresses, type : HookType, post : BOOLEAN, id : LoaderID])
  /\ -1 \notin LoaderAddresses

VARIABLES
  atoms,   \* disassembly.atoms: what was read at each address of the bytecode
  listing, \* the lines of the disassembly
  saved    \* "no", "written" by the exit handler, or "lost" to an assertion

loaderVars == <<vars, atoms, listing, saved>>

Cell == 0 .. RamSize - 1

Unread == [type |-> "NONE", value |-> 0]

Atom(type, value) == [type |-> type, value |-> value]

-----------------------------------------------------------------------------
(***************************************************************************)
(* ecaLoaderHookCallback.  The pointer of the interpreter, a word, has     *)
(* moved past an operand already.                                          *)
(***************************************************************************)
\* A byte that is no instruction fails an assertion: the program ends without
\* its exit handlers.
ReadInstr(ip, byc) ==
  IF byc < INSTRUCTION_COUNT
  THEN atoms' = [atoms EXCEPT ![ip] = Atom("INST", byc)] /\ UNCHANGED saved
  ELSE saved' = "lost" /\ UNCHANGED atoms

\* The second byte of the last word lies behind the table, in the padding of
\* the struct: a cell of its own.
CaptureWord(ip, lo, hi) ==
  LET at == (ip - 2) % RamSize
  IN  /\ atoms' = [atoms EXCEPT ![at] = Atom("WORD_LO", lo), ![at + 1] = Atom("WORD_HI", hi)]
      /\ UNCHANGED saved

CaptureByte(ip, op) ==
  /\ atoms' = [atoms EXCEPT ![(ip - 1) % RamSize] = Atom("BYTE", op)]
  /\ UNCHANGED saved

Callback(id) ==
  \E ip \in Cell, b, c \in Byte :
    \/ id = READ_INSTR /\ ReadInstr(ip, b)
    \/ id = CAPTURE_WORDOP /\ CaptureWord(ip, b, c)
    \/ id = CAPTURE_BYTEOP /\ CaptureByte(ip, b)
    \/ id = RAMDUMP /\ UNCHANGED <<atoms, saved>>

-----------------------------------------------------------------------------
(***************************************************************************)
(* saveDisassembly.                                                        *)
(***************************************************************************)
\* Wrong: the second byte of a word is taken for granted.
TakesSecondByte(ip) ==
  CASE atoms[ip + 1].type = "BYTE" -> 1
    [] atoms[ip + 1].type = "WORD_LO" -> 2
    [] OTHER -> 0

\* Bytes of the operand on an instruction's line.  A later capture may have
\* overwritten the second byte of a word.
OperandLength(ip) ==
  CASE atoms[ip + 1].type = "BYTE" -> 1
    [] atoms[ip + 1].type = "WORD_LO" -> IF atoms[ip + 2].type = "WORD_HI" THEN 2 ELSE 1
    [] OTHER -> 0

Lines[ip \in Nat] ==
  IF ip >= RamSize THEN {}
  ELSE CASE atoms[ip].type = "NONE" -> Lines[ip + 1]
         [] atoms[ip].type = "INST" ->
              {[at |-> ip, last |-> ip + OperandLength(ip), type |-> "INST"]}
                \cup Lines[ip + OperandLength(ip) + 1]
         [] OTHER -> {[at |-> ip, last |-> ip, type |-> "stray"]} \cup Lines[ip + 1]

-----------------------------------------------------------------------------
\* ecaLoaderRegisterHooks, before the interpreter is entered.
LoaderInit ==
  /\ hooks = LoaderHooks
  /\ lookup = <<>>
  /\ ready = FALSE
  /\ ran = <<>>
  /\ state = "setup"

\* The table comes from malloc uncleared.  It is too large for the heap, which
\* maps fresh pages for it, and these are zero.
NothingRead ==
  atoms = [a \in 0 .. RamSize |-> Unread] /\ listing = {} /\ saved = "no"

\* With the loader's hooks, or without.
ObservedInit == (Init \/ LoaderInit) /\ NothingRead

\* An instruction, and the callback of the loader if a hook of it ran.
Watched(pc) ==
  /\ saved = "no"
  /\ Instruction(pc)
  /\ IF \E i \in DOMAIN ran' : ran'[i].id \in LoaderID /\ state' = "running"
     THEN \E i \in DOMAIN ran' : ran'[i].id \in LoaderID /\ Callback(ran'[i].id)
     ELSE UNCHANGED <<atoms, saved>>
  /\ UNCHANGED listing

\* The emulator exits, of its own accord or through error(), and the handler
\* that ecaLoaderRegisterHooks has installed runs.
Exit ==
  /\ saved = "no"
  /\ state \in {"running", "stopped"}
  /\ \E i \in DOMAIN hooks : hooks[i].id \in LoaderID
  /\ listing' = Lines[0]
  /\ saved' = "written"
  /\ state' = "stopped"
  /\ UNCHANGED <<hooks, lookup, ready, ran, atoms>>

\* The rest of what module Hooks does.
Unwatched ==
  /\ saved = "no"
  /\ (\E h \in Hook : registerHook(h)) \/ Prepare \/ DuplicateFound
  /\ UNCHANGED <<atoms, listing, saved>>

LoaderNext ==
  \/ \E pc \in Addresses \cup LoaderAddresses : Watched(pc)
  \/ Exit
  \/ Unwatched

LoaderSpec == ObservedInit /\ [][LoaderNext]_loaderVars

-----------------------------------------------------------------------------
\* However captures have overwritten each other, the disassembly has a line for
\* every instruction, and every byte that was read is on one line.
DisassemblyComplete ==
  saved = "written" =>
    /\ {l.at : l \in {k \in listing : k.type = "INST"}} =
         {a \in Cell : atoms[a].type = "INST"}
    /\ \A a \in Cell :
         atoms[a].type # "NONE" => Cardinality({l \in listing : a \in l.at .. l.last}) = 1
=============================================================================
