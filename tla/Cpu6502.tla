------------------------------ MODULE Cpu6502 ------------------------------
(***************************************************************************)
(* The interpreter of emu6502/emmain.c, built with tracing: interp fetches *)
(* an instruction, resolves its address and executes it.  A far jump at or *)
(* above $F000 is a KERNAL call, made in C, after which the emulated       *)
(* machine returns as if by RTS.                                           *)
(*                                                                         *)
(* Programs are anything made of the instructions in Program, in any       *)
(* order: what RAM holds at the program counter is not modelled, so        *)
(* programs may change themselves.  They touch the addresses in Cells.     *)
(***************************************************************************)
EXTENDS MemoryBanks

CONSTANTS
  Program,          \* the instructions programs are made of
  Cells,            \* the addresses of RAM they touch
  Starts,           \* registers a program may be started with
  KernalAnswers,    \* what a KERNAL call may leave in the accumulator
  InstructionLimit  \* INSTRUCTION_COUNT_LIMIT

Port == 1             \* the address whose low bits map the ROMs
ForthEntry == 2341    \* where interp stops: the FORTH interpreter of the game
KernalStart == 61440  \* far jumps from here on are KERNAL calls

\* Bits of the flags register.
FLAG_N == 128
FLAG_V == 64
FLAG_D == 8
FLAG_I == 4
FLAG_Z == 2
FLAG_C == 1

\* Instructions with their addressing modes, by the instruction set table.  An
\* opcode that the table does not have is the instruction "none"; "A" is implied.
InstructionSet ==
  LET indexed == {"zpg", "zpgX", "abs", "absX"}
      alu == {"imm", "zpg", "zpgX", "abs", "absX", "absY", "Xind", "indY"}
  IN  ({"LDA", "CMP", "SBC"} \X alu)
      \cup ({"ORA", "AND", "EOR"} \X (alu \ {"zpgX"}))
      \cup ({"STA"} \X (alu \ {"imm"}))
      \cup ({"ADC"} \X (alu \ {"absX", "indY"}))
      \cup ({"LDX"} \X {"imm", "zpg", "zpgY", "abs", "absY"})
      \cup ({"LDY"} \X (indexed \cup {"imm"}))
      \cup ({"CPX", "CPY"} \X {"imm", "zpg", "abs"})
      \cup ({"STX"} \X {"zpg", "zpgY", "abs"})
      \cup ({"STY"} \X {"zpg", "zpgX", "abs"})
      \cup ({"BIT"} \X {"zpg", "abs"})
      \cup ({"INC", "DEC"} \X indexed)
      \cup ({"ASL", "ROL", "ROR"} \X (indexed \cup {"impl"}))
      \cup ({"LSR"} \X {"impl", "zpg", "abs", "absX"})
      \cup ({"BPL", "BMI", "BVC", "BVS", "BCC", "BCS", "BNE", "BEQ"} \X {"rel"})
      \cup ({"JSR"} \X {"abs"})
      \cup ({"JMP"} \X {"abs", "ind"})
      \cup ({"RTS", "PHP", "PLP", "PHA", "PLA", "CLC", "SEC", "CLV", "CLD", "SED",
             "CLI", "SEI", "INX", "DEX", "INY", "DEY", "TYA", "TAY", "TXA", "TAX",
             "TXS", "TSX", "NOP", "BRK", "RTI", "none"} \X {"impl"})

\* Bytes of an instruction.
Length(mode) ==
  CASE mode = "impl" -> 1
    [] mode \in {"abs", "absX", "absY", "ind"} -> 3
    [] OTHER -> 2

\* raw is the operand as the program has it: a byte or a word.
Instruction == [inst : STRING, mode : STRING, raw : Word]

Registers == {"a", "x", "y", "s"}

ASSUME CpuAssumption ==
  /\ Program \subseteq Instruction
  /\ \A i \in Program : /\ <<i.inst, i.mode>> \in InstructionSet
                        /\ Length(i.mode) < 3 => i.raw \in Byte
  /\ Port \in Cells
  /\ Cells \subseteq Word
  /\ Starts \subseteq [reg : [Registers -> Byte], p : Byte, pc : Word]
  /\ KernalAnswers \subseteq Byte
  /\ InstructionLimit \in Nat \ {0}

VARIABLES
  reg,    \* A, X, Y and the stack pointer
  p,      \* the flags register
  pc,     \* the program counter
  ic,     \* instructions begun
  ram,    \* the cells of RAM
  state   \* "running", "done" (interp returned) or "failed" (error exited)

vars == <<reg, p, pc, ic, ram, state>>

-----------------------------------------------------------------------------
(***************************************************************************)
(* Flags and bytes.                                                        *)
(***************************************************************************)

Bit(byte, mask) == (byte \div mask) % 2
getFlag(flags, flag) == Bit(flags, flag) = 1
setFlag(flags, flag, set) ==
  flags - flag * Bit(flags, flag) + (IF set THEN flag ELSE 0)

setNZ(flags, byte) == setFlag(setFlag(flags, FLAG_Z, byte = 0), FLAG_N, byte >= 128)

\* ORA, AND and EOR, bit by bit.
bitwise(inst, u, v) ==
  LET bit(mask) ==
        LET sum == Bit(u, mask) + Bit(v, mask)
        IN  IF (sum = 2 /\ inst # "EOR") \/ (sum = 1 /\ inst # "AND")
            THEN mask ELSE 0
  IN  bit(1) + bit(2) + bit(4) + bit(8) + bit(16) + bit(32) + bit(64) + bit(128)

\* The byte that a shift leaves, and the carry.
shifted(inst, byte) ==
  LET c == Bit(p, FLAG_C) IN
  CASE inst = "ASL" -> (2 * byte) % 256
    [] inst = "ROL" -> ((2 * byte) % 256) + c
    [] inst = "LSR" -> byte \div 2
    [] inst = "ROR" -> (byte \div 2) + 128 * c
shiftedOut(inst, byte) ==
  IF inst \in {"ASL", "ROL"} THEN byte >= 128 ELSE byte % 2 = 1
shiftFlags(inst, byte) ==
  setNZ(setFlag(p, FLAG_C, shiftedOut(inst, byte)), shifted(inst, byte))

\* Wrong: a comparison uses the carry that an earlier instruction left.
SumWithCarry(r, v, isCmp) == r + v + Bit(p, FLAG_C)

\* The sum that add computes; a comparison behaves as if carry were set.
Sum(r, v, isCmp) == r + v + (IF isCmp THEN 1 ELSE Bit(p, FLAG_C))

\* The flags that add leaves: overflow if the result has another sign than both
\* operands.
addFlags(r, v, isCmp) ==
  LET b == Sum(r, v, isCmp) % 256
      flags == setFlag(setNZ(p, b), FLAG_C, Sum(r, v, isCmp) >= 256)
      overflow == (r >= 128) # (b >= 128) /\ (v >= 128) # (b >= 128)
  IN  IF isCmp THEN flags ELSE setFlag(flags, FLAG_V, overflow)

-----------------------------------------------------------------------------
(***************************************************************************)
(* Fetching an instruction and its operand.                                *)
(***************************************************************************)

\* interp neither returns nor stops at its limit.
Fetching == state = "running" /\ pc # ForthEntry /\ ic + 1 # InstructionLimit

\* The instruction is begun; afterwards the program counter is at the next one.
Fetch == Fetching /\ ic' = ic + 1
Following(i) == (pc + Length(i.mode)) % 65536

\* error exits: what it leaves behind is lost.
Fail == state' = "failed" /\ UNCHANGED <<reg, p, pc, ram>>

Signed(byte) == IF byte >= 128 THEN byte - 256 ELSE byte

deref(pointer) == ram[pointer] + 256 * ram[pointer + 1]

\* Where an indirect mode finds its address; page zero is not wrapped around.
Pointer(i) == IF i.mode = "Xind" THEN i.raw + reg["x"] ELSE i.raw

resolveAddress(i) ==
  CASE i.mode \in {"zpg", "abs"} -> i.raw
    [] i.mode \in {"zpgX", "absX"} -> (i.raw + reg["x"]) % 65536
    [] i.mode \in {"zpgY", "absY"} -> (i.raw + reg["y"]) % 65536
    [] i.mode = "rel" -> (Following(i) + Signed(i.raw)) % 65536
    [] i.mode \in {"ind", "Xind"} -> deref(Pointer(i))
    [] i.mode = "indY" -> (deref(Pointer(i)) + reg["y"]) % 65536

\* Programs stay within Cells.
PointerInCells(i) ==
  i.mode \in {"ind", "Xind", "indY"} => {Pointer(i), Pointer(i) + 1} \subseteq Cells
AddressInCells(i) ==
  i.mode \notin {"imm", "impl"} => PointerInCells(i) /\ resolveAddress(i) \in Cells

-----------------------------------------------------------------------------
(***************************************************************************)
(* Instructions on registers and memory.                                   *)
(***************************************************************************)

Sets(i, r, byte) ==
  /\ reg' = [reg EXCEPT ![r] = byte]
  /\ pc' = Following(i)
  /\ UNCHANGED <<ram, state>>

Writes(i, addr, byte) ==
  /\ ram' = [ram EXCEPT ![addr] = byte]
  /\ pc' = Following(i)
  /\ UNCHANGED <<reg, state>>

\* The register that an instruction is about.
Register(i) ==
  CASE i.inst \in {"LDX", "STX", "CPX", "INX", "DEX"} -> "x"
    [] i.inst \in {"LDY", "STY", "CPY", "INY", "DEY"} -> "y"
    [] OTHER -> "a"

\* Only these loads go through the banks.
Load(i) ==
  LET found == loadBanked(ram[Port], resolveAddress(i))
      byte == IF i.mode = "imm" THEN i.raw ELSE ram[found]
  IN  /\ i.inst \in {"LDA", "LDX", "LDY"}
      /\ Fetch
      /\ AddressInCells(i)
      /\ i.mode # "imm" => found \in Cells
      /\ Sets(i, Register(i), byte)
      /\ p' = setNZ(p, byte)

Operand(i) == IF i.mode = "imm" THEN i.raw ELSE ram[resolveAddress(i)]

Bitwise(i) ==
  LET byte == bitwise(i.inst, reg["a"], Operand(i))
  IN  /\ i.inst \in {"ORA", "AND", "EOR"}
      /\ Fetch
      /\ AddressInCells(i)
      /\ Sets(i, "a", byte)
      /\ p' = setNZ(p, byte)

\* Wrong: subtraction adds the two's complement, and the carry as well.
AddendTwos(i) == IF i.inst = "ADC" THEN Operand(i) ELSE (256 - Operand(i)) % 256

\* Subtraction adds the one's complement.
Addend(i) == IF i.inst = "ADC" THEN Operand(i) ELSE 255 - Operand(i)

Add(i) ==
  /\ i.inst \in {"ADC", "SBC"}
  /\ Fetch
  /\ AddressInCells(i)
  /\ Sets(i, "a", Sum(reg["a"], Addend(i), FALSE) % 256)
  /\ p' = addFlags(reg["a"], Addend(i), FALSE)

Compare(i) ==
  /\ i.inst \in {"CMP", "CPX", "CPY"}
  /\ Fetch
  /\ AddressInCells(i)
  /\ p' = addFlags(reg[Register(i)], Addend(i), TRUE)
  /\ pc' = Following(i)
  /\ UNCHANGED <<reg, ram, state>>

\* Stores go to RAM under any ROM.  BIT stores the flags register.
Store(i) ==
  /\ i.inst \in {"STA", "STX", "STY", "BIT"}
  /\ Fetch
  /\ AddressInCells(i)
  /\ Writes(i, resolveAddress(i), IF i.inst = "BIT" THEN p ELSE reg[Register(i)])
  /\ UNCHANGED p

\* DEC increments as INC does.
Increment(i) ==
  LET byte == (ram[resolveAddress(i)] + 1) % 256
  IN  /\ i.inst \in {"INC", "DEC"}
      /\ Fetch
      /\ AddressInCells(i)
      /\ Writes(i, resolveAddress(i), byte)
      /\ p' = setNZ(p, byte)

Shift(i) ==
  /\ i.inst \in {"ASL", "LSR", "ROL", "ROR"}
  /\ Fetch
  /\ AddressInCells(i)
  /\ LET byte == IF i.mode = "impl" THEN reg["a"] ELSE ram[resolveAddress(i)]
     IN  /\ IF i.mode = "impl" THEN Sets(i, "a", shifted(i.inst, byte))
            ELSE Writes(i, resolveAddress(i), shifted(i.inst, byte))
         /\ p' = shiftFlags(i.inst, byte)

Count(i) ==
  LET up == IF i.inst \in {"INX", "INY"} THEN 1 ELSE 255
      byte == (reg[Register(i)] + up) % 256
  IN  /\ i.inst \in {"INX", "DEX", "INY", "DEY"}
      /\ Fetch
      /\ Sets(i, Register(i), byte)
      /\ p' = setNZ(p, byte)

\* TSX takes its flags from A; TXS leaves them alone.
Transfers ==
  [TYA |-> <<"y", "a">>, TAY |-> <<"a", "y">>, TXA |-> <<"x", "a">>,
   TAX |-> <<"a", "x">>, TXS |-> <<"x", "s">>, TSX |-> <<"s", "x">>]
Transfer(i) ==
  /\ i.inst \in DOMAIN Transfers
  /\ Fetch
  /\ LET move == Transfers[i.inst]
         byte == reg[move[1]]
     IN  /\ Sets(i, move[2], byte)
         /\ p' = CASE i.inst = "TXS" -> p
                   [] i.inst = "TSX" -> setNZ(p, reg["a"])
                   [] OTHER -> setNZ(p, byte)

FlagsSet ==
  [CLC |-> <<FLAG_C, FALSE>>, SEC |-> <<FLAG_C, TRUE>>, CLV |-> <<FLAG_V, FALSE>>,
   CLD |-> <<FLAG_D, FALSE>>, SED |-> <<FLAG_D, TRUE>>,
   CLI |-> <<FLAG_I, FALSE>>, SEI |-> <<FLAG_I, TRUE>>]
SetFlag(i) ==
  /\ i.inst \in DOMAIN FlagsSet
  /\ Fetch
  /\ p' = setFlag(p, FlagsSet[i.inst][1], FlagsSet[i.inst][2])
  /\ pc' = Following(i)
  /\ UNCHANGED <<reg, ram, state>>

NOP(i) ==
  /\ i.inst = "NOP"
  /\ Fetch
  /\ pc' = Following(i)
  /\ UNCHANGED <<reg, p, ram, state>>

\* Illegal opcodes, interrupts, and BVC, which nothing implements.
Unsupported(i) == i.inst \in {"none", "BRK", "RTI", "BVC"} /\ Fetch /\ Fail

-----------------------------------------------------------------------------
(***************************************************************************)
(* The stack, jumps and calls.                                             *)
(***************************************************************************)

\* Wrong: nothing keeps the stack pointer within its page.
PushesBelowPage(i) ==
  /\ i.inst \in {"PHP", "PHA"}
  /\ Fetch
  /\ 256 + reg["s"] \in Cells
  /\ ram' = [ram EXCEPT ![256 + reg["s"]] = IF i.inst = "PHP" THEN p ELSE reg["a"]]
  /\ reg' = [reg EXCEPT !["s"] = @ - 1]
  /\ pc' = Following(i)
  /\ UNCHANGED <<p, state>>

Push(i) ==
  /\ i.inst \in {"PHP", "PHA"}
  /\ Fetch
  /\ IF reg["s"] = 0 THEN Fail
     ELSE /\ 256 + reg["s"] \in Cells
          /\ ram' = [ram EXCEPT ![256 + reg["s"]] = IF i.inst = "PHP" THEN p ELSE reg["a"]]
          /\ reg' = [reg EXCEPT !["s"] = @ - 1]
          /\ pc' = Following(i)
          /\ UNCHANGED <<p, state>>

\* Wrong: the flags that pull sets outlive those that PLP pulls.
PullSetsFlagsLast(i) ==
  LET byte == ram[257 + reg["s"]]
  IN  /\ i.inst \in {"PLP", "PLA"}
      /\ Fetch
      /\ IF reg["s"] = 255 THEN Fail
         ELSE /\ 257 + reg["s"] \in Cells
              /\ reg' = [reg EXCEPT !["s"] = @ + 1,
                                    !["a"] = IF i.inst = "PLA" THEN byte ELSE @]
              /\ p' = IF i.inst = "PLA" THEN setNZ(p, byte) ELSE setNZ(byte, byte)
              /\ pc' = Following(i)
              /\ UNCHANGED <<ram, state>>

\* pull sets N and Z, which PLP then overwrites.
Pull(i) ==
  LET byte == ram[257 + reg["s"]]
  IN  /\ i.inst \in {"PLP", "PLA"}
      /\ Fetch
      /\ IF reg["s"] = 255 THEN Fail
         ELSE /\ 257 + reg["s"] \in Cells
              /\ reg' = [reg EXCEPT !["s"] = @ + 1,
                                    !["a"] = IF i.inst = "PLA" THEN byte ELSE @]
              /\ p' = IF i.inst = "PLA" THEN setNZ(p, byte) ELSE byte
              /\ pc' = Following(i)
              /\ UNCHANGED <<ram, state>>

\* RAM after the two pushes of JSR.
PushWord(word) ==
  LET s == reg["s"]
  IN  [ram EXCEPT ![256 + s] = word \div 256, ![255 + s] = word % 256]

\* The stack is memory mem and pointer s.
ReturnAddress(mem, s) == (mem[257 + s] + 256 * mem[258 + s] + 1) % 65536

\* The cells a KERNAL call writes.
KernalCells == Cells \cap (144 .. 196 \cup 601 .. 630)

\* emulateC64ROM and the return to the caller: the call answers in A and C, and
\* pulling the return address sets N and Z.
romCall(mem, s) ==
  IF s > 253 THEN Fail
  ELSE \/ Fail
       \/ /\ {257 + s, 258 + s} \subseteq Cells
          /\ \E answer \in KernalAnswers \cup {reg["a"]}, carry \in BOOLEAN,
                cells \in [KernalCells -> Byte] :
               /\ reg' = [reg EXCEPT !["a"] = answer, !["s"] = s + 2]
               /\ p' = setNZ(setFlag(p, FLAG_C, carry), mem[258 + s])
               /\ pc' = ReturnAddress(mem, s)
               /\ ram' = [a \in Cells |-> IF a \in KernalCells THEN cells[a] ELSE mem[a]]
               /\ UNCHANGED state

\* Taken when the flag has the value.
Condition ==
  [BPL |-> <<FLAG_N, FALSE>>, BMI |-> <<FLAG_N, TRUE>>, BVS |-> <<FLAG_V, TRUE>>,
   BCC |-> <<FLAG_C, FALSE>>, BCS |-> <<FLAG_C, TRUE>>,
   BNE |-> <<FLAG_Z, FALSE>>, BEQ |-> <<FLAG_Z, TRUE>>]
Branch(i) ==
  /\ i.inst \in DOMAIN Condition
  /\ Fetch
  /\ pc' = IF getFlag(p, Condition[i.inst][1]) = Condition[i.inst][2]
           THEN resolveAddress(i) ELSE Following(i)
  /\ UNCHANGED <<reg, p, ram, state>>

\* Wrong: the address of the next instruction is pushed.
PushesFollowing(i) ==
  LET s == reg["s"]
      mem == PushWord(Following(i))
  IN  /\ i.inst = "JSR"
      /\ Fetch
      /\ IF s < 2 THEN Fail
         ELSE /\ {255 + s, 256 + s} \subseteq Cells
              /\ IF i.raw >= KernalStart THEN romCall(mem, s - 2)
                 ELSE /\ ram' = mem
                      /\ reg' = [reg EXCEPT !["s"] = s - 2]
                      /\ pc' = i.raw
                      /\ UNCHANGED <<p, state>>

\* JSR pushes the address of its own last byte.
JSR(i) ==
  LET s == reg["s"]
      mem == PushWord((Following(i) - 1) % 65536)
  IN  /\ i.inst = "JSR"
      /\ Fetch
      /\ IF s < 2 THEN Fail
         ELSE /\ {255 + s, 256 + s} \subseteq Cells
              /\ IF i.raw >= KernalStart THEN romCall(mem, s - 2)
                 ELSE /\ ram' = mem
                      /\ reg' = [reg EXCEPT !["s"] = s - 2]
                      /\ pc' = i.raw
                      /\ UNCHANGED <<p, state>>

\* A jump into the KERNAL returns to whoever called the subroutine that jumps.
JMP(i) ==
  /\ i.inst = "JMP"
  /\ Fetch
  /\ PointerInCells(i)
  /\ IF resolveAddress(i) >= KernalStart THEN romCall(ram, reg["s"])
     ELSE pc' = resolveAddress(i) /\ UNCHANGED <<reg, p, ram, state>>

RTS(i) ==
  LET s == reg["s"]
  IN  /\ i.inst = "RTS"
      /\ Fetch
      /\ IF s > 253 THEN Fail
         ELSE /\ {257 + s, 258 + s} \subseteq Cells
              /\ reg' = [reg EXCEPT !["s"] = s + 2]
              /\ p' = setNZ(p, ram[258 + s])
              /\ pc' = ReturnAddress(ram, s)
              /\ UNCHANGED <<ram, state>>

-----------------------------------------------------------------------------
\* interp returns when the program reaches FORTH.
ReachForth ==
  /\ state = "running"
  /\ pc = ForthEntry
  /\ state' = "done"
  /\ UNCHANGED <<reg, p, pc, ic, ram>>

\* It returns from the middle of a fetch when it has counted too many.
TooManyInstructions ==
  /\ state = "running"
  /\ pc # ForthEntry
  /\ ic + 1 = InstructionLimit
  /\ ic' = ic + 1
  /\ pc' = (pc + 1) % 65536
  /\ state' = "done"
  /\ UNCHANGED <<reg, p, ram>>

Init ==
  /\ \E start \in Starts : reg = start.reg /\ p = start.p /\ pc = start.pc
  /\ ic = 0
  /\ ram = [a \in Cells |-> 0]
  /\ state = "running"

Interp(i) ==
  \/ Load(i)
  \/ Bitwise(i)
  \/ Add(i)
  \/ Compare(i)
  \/ Store(i)
  \/ Increment(i)
  \/ Shift(i)
  \/ Count(i)
  \/ Transfer(i)
  \/ SetFlag(i)
  \/ NOP(i)
  \/ Unsupported(i)
  \/ Push(i)
  \/ Pull(i)
  \/ Branch(i)
  \/ JSR(i)
  \/ JMP(i)
  \/ RTS(i)

Next ==
  \/ \E i \in Program : Interp(i)
  \/ ReachForth
  \/ TooManyInstructions

Spec == Init /\ [][Next]_vars

-----------------------------------------------------------------------------
(***************************************************************************)
(* Correctness.                                                            *)
(***************************************************************************)

\* Registers keep their width; the stack pointer, a word in the code, stays in
\* the page.
TypeOK ==
  /\ reg \in [Registers -> Byte]
  /\ p \in Byte
  /\ pc \in Word
  /\ ic \in 0 .. InstructionLimit
  /\ ram \in [Cells -> Byte]
  /\ state \in {"running", "done", "failed"}

\* ADC and SBC compute the sum and the difference with carry, as unsigned and as
\* two's complement numbers; both readings at once determine result, C and V.
ArithmeticExact ==
  [][\A i \in Program :
       Add(i) =>
         LET v == Operand(i)
             c == Bit(p, FLAG_C)
             sign == IF i.inst = "ADC" THEN 1 ELSE -1
             carry == IF i.inst = "ADC" THEN c ELSE c - 1
             unsigned == reg["a"] + sign * v + carry
             signed == Signed(reg["a"]) + sign * Signed(v) + carry
         IN  /\ (reg["a"]' - unsigned) % 256 = 0
             /\ getFlag(p', FLAG_C) = IF i.inst = "ADC" THEN unsigned > 255 ELSE unsigned >= 0
             /\ getFlag(p', FLAG_V) = (signed \notin -128 .. 127)]_vars

\* A comparison tells the order whatever carry was set before, and leaves V.
CompareOrders ==
  [][\A i \in Program :
       Compare(i) =>
         /\ getFlag(p', FLAG_C) = (reg[Register(i)] >= Operand(i))
         /\ getFlag(p', FLAG_Z) = (reg[Register(i)] = Operand(i))
         /\ getFlag(p', FLAG_V) = getFlag(p, FLAG_V)]_vars

\* As documented above loadBanked: what each ROM's visibility asks of the port.
DocumentedAt(port, rom) ==
  CASE rom = Chargen -> port % 8 \in 1 .. 3
    [] rom = Basic -> port % 4 = 3
    [] rom = Kernal -> port % 4 \in {2, 3}

\* Where no ROM is visible a load reads the cell a store writes.
RamReadsRam ==
  \A addr \in Cells :
    (\A rom \in ROMs : addr \in rom.first .. rom.last => ~DocumentedAt(ram[Port], rom))
      => loadBanked(ram[Port], addr) = addr

\* Claimed above loadBanked: a visible ROM is read at the address less the start
\* of its range.
RomReadsRom ==
  \A addr \in Cells, rom \in ROMs :
    addr \in rom.first .. rom.last /\ DocumentedAt(ram[Port], rom)
      => loadBanked(ram[Port], addr) = rom.image + (addr - rom.first)

\* Claimed by the heading "INCREMENT / DECREMENT".
DecDecrements ==
  [][\A i \in Program :
       Increment(i) /\ i.inst = "DEC" =>
         LET addr == resolveAddress(i) IN ram'[addr] = (ram[addr] - 1) % 256]_vars
=============================================================================
