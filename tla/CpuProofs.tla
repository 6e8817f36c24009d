----------------------------- MODULE CpuProofs -----------------------------
(***************************************************************************)
(* Proofs about the interpreter, for every program, every set of cells and *)
(* every limit: registers keep their width, arithmetic is exact.           *)
(***************************************************************************)
EXTENDS Cpu6502, TLAPS

\* setFlag yields a byte in which the flag is what was asked for.
LEMMA SetFlagSets ==
  ASSUME NEW q \in Byte, NEW f \in {1, 2, 4, 8, 64, 128}, NEW set \in BOOLEAN
  PROVE  /\ setFlag(q, f, set) \in Byte
         /\ Bit(setFlag(q, f, set), f) = IF set THEN 1 ELSE 0
  <1>1. CASE f = 1
    BY <1>1, SMT DEF setFlag, Bit, Byte
  <1>2. CASE f = 2
    BY <1>2, SMT DEF setFlag, Bit, Byte
  <1>3. CASE f = 4
    BY <1>3, SMT DEF setFlag, Bit, Byte
  <1>4. CASE f = 8
    BY <1>4, SMT DEF setFlag, Bit, Byte
  <1>5. CASE f = 64
    BY <1>5, SMT DEF setFlag, Bit, Byte
  <1>6. CASE f = 128
    BY <1>6, SMT DEF setFlag, Bit, Byte
  <1>7. QED
    BY <1>1, <1>2, <1>3, <1>4, <1>5, <1>6

\* setNZ yields a byte with Z as asked and leaves C and V.
LEMMA SetNZ ==
  ASSUME NEW q \in Byte, NEW b \in Byte
  PROVE  /\ setNZ(q, b) \in Byte
         /\ Bit(setNZ(q, b), FLAG_Z) = IF b = 0 THEN 1 ELSE 0
         /\ Bit(setNZ(q, b), FLAG_C) = Bit(q, FLAG_C)
         /\ Bit(setNZ(q, b), FLAG_V) = Bit(q, FLAG_V)
  BY SMTT(60) DEF setNZ, setFlag, Bit, Byte, FLAG_N, FLAG_Z, FLAG_C, FLAG_V

-----------------------------------------------------------------------------
(***************************************************************************)
(* Arithmetic.                                                             *)
(***************************************************************************)

\* Setting carry leaves Z and V alone.
LEMMA CarrySet ==
  ASSUME NEW nz \in Byte, NEW sum \in 0 .. 511, NEW flags,
         flags = setFlag(nz, FLAG_C, sum >= 256)
  PROVE  /\ flags \in Byte
         /\ Bit(flags, FLAG_C) = IF sum >= 256 THEN 1 ELSE 0
         /\ Bit(flags, FLAG_Z) = Bit(nz, FLAG_Z)
         /\ Bit(flags, FLAG_V) = Bit(nz, FLAG_V)
  BY SMTT(30) DEF setFlag, Bit, Byte, FLAG_C, FLAG_Z, FLAG_V

\* The result has another sign than both operands.
Overflows(r, v, b) == (r >= 128) # (b >= 128) /\ (v >= 128) # (b >= 128)

\* Setting overflow leaves C alone.
LEMMA OverflowSet ==
  ASSUME NEW c \in Byte, NEW r \in Byte, NEW v \in Byte, NEW b \in Byte, NEW flags,
         flags = setFlag(c, FLAG_V, Overflows(r, v, b))
  PROVE  /\ flags \in Byte
         /\ Bit(flags, FLAG_C) = Bit(c, FLAG_C)
         /\ Bit(flags, FLAG_V) = IF Overflows(r, v, b) THEN 1 ELSE 0
  BY SMTT(30) DEF Overflows, setFlag, Bit, Byte, FLAG_C, FLAG_V

\* The byte that is left of a sum.
LEMMA SumByte ==
  ASSUME NEW sum \in 0 .. 511
  PROVE  sum % 256 \in Byte
  BY SMT DEF Byte

\* The flags a sum leaves, but for overflow.
CarryFlags(sum) == setFlag(setNZ(p, sum % 256), FLAG_C, sum >= 256)

LEMMA CarryFlagsSet ==
  ASSUME p \in Byte, NEW sum \in 0 .. 511
  PROVE  /\ CarryFlags(sum) \in Byte
         /\ Bit(CarryFlags(sum), FLAG_C) = IF sum >= 256 THEN 1 ELSE 0
         /\ Bit(CarryFlags(sum), FLAG_Z) = IF sum % 256 = 0 THEN 1 ELSE 0
         /\ Bit(CarryFlags(sum), FLAG_V) = Bit(p, FLAG_V)
  <1> DEFINE nz == setNZ(p, sum % 256)
             c == setFlag(nz, FLAG_C, sum >= 256)
  <1>1. /\ nz \in Byte
        /\ Bit(nz, FLAG_Z) = IF sum % 256 = 0 THEN 1 ELSE 0
        /\ Bit(nz, FLAG_V) = Bit(p, FLAG_V)
    BY SumByte, SetNZ
  <1>2. /\ c \in Byte
        /\ Bit(c, FLAG_C) = IF sum >= 256 THEN 1 ELSE 0
        /\ Bit(c, FLAG_Z) = Bit(nz, FLAG_Z)
        /\ Bit(c, FLAG_V) = Bit(nz, FLAG_V)
    <2> HIDE DEF nz
    <2>1. QED
      BY <1>1, CarrySet
  <1>3. CarryFlags(sum) = c
    BY DEF CarryFlags
  <1> HIDE DEF c
  <1>4. QED
    BY <1>1, <1>2, <1>3

\* A comparison leaves the flags of the sum with carry, and overflow as it was.
LEMMA CompareFlags ==
  ASSUME p \in Byte, NEW r \in Byte, NEW v \in Byte
  PROVE  /\ r + v + 1 \in 0 .. 511
         /\ addFlags(r, v, TRUE) = CarryFlags(r + v + 1)
  <1>1. r + v + 1 \in 0 .. 511
    BY SMT DEF Byte
  <1>2. Sum(r, v, TRUE) = r + v + 1
    BY DEF Sum
  <1>3. QED
    BY <1>1, <1>2 DEF addFlags, CarryFlags

\* An addition sets carry and overflow.
LEMMA AdditionFlags ==
  ASSUME p \in Byte, NEW r \in Byte, NEW v \in Byte
  PROVE  /\ Sum(r, v, FALSE) = r + v + Bit(p, FLAG_C)
         /\ Sum(r, v, FALSE) \in 0 .. 511
         /\ addFlags(r, v, FALSE) \in Byte
         /\ Bit(addFlags(r, v, FALSE), FLAG_C) = IF Sum(r, v, FALSE) >= 256 THEN 1 ELSE 0
         /\ Bit(addFlags(r, v, FALSE), FLAG_V)
              = IF Overflows(r, v, Sum(r, v, FALSE) % 256) THEN 1 ELSE 0
  <1> DEFINE sum == Sum(r, v, FALSE)
             c == CarryFlags(sum)
             b == sum % 256
             flags == setFlag(c, FLAG_V, Overflows(r, v, b))
  <1>1. sum = r + v + Bit(p, FLAG_C)
    BY DEF Sum
  <1>2. sum \in 0 .. 511
    <2>1. Bit(p, FLAG_C) \in {0, 1}
      BY SMT DEF Bit, Byte, FLAG_C
    <2> HIDE DEF sum
    <2>2. QED
      BY <1>1, <2>1, SMTT(30) DEF Byte
  <1>3. addFlags(r, v, FALSE) = flags
    BY DEF addFlags, CarryFlags, Overflows
  <1> HIDE DEF sum
  <1>4. b \in Byte /\ c \in Byte /\ Bit(c, FLAG_C) = IF sum >= 256 THEN 1 ELSE 0
    BY <1>2, SumByte, CarryFlagsSet
  <1>5. /\ flags \in Byte
        /\ Bit(flags, FLAG_C) = Bit(c, FLAG_C)
        /\ Bit(flags, FLAG_V) = IF Overflows(r, v, b) THEN 1 ELSE 0
    <2> HIDE DEF c, b
    <2>1. QED
      BY <1>4, OverflowSet
  <1> HIDE DEF flags
  <1>6. QED
    BY <1>1, <1>2, <1>3, <1>4, <1>5 DEF sum

-----------------------------------------------------------------------------
(***************************************************************************)
(* The inductive invariant.                                                *)
(***************************************************************************)

\* The type is not inductive alone: interp must not begin another instruction
\* when it is at its limit.
Inv == TypeOK /\ (state = "running" => ic < InstructionLimit)

\* What CpuAssumption says of an instruction of the program.
LEMMA ProgramInstruction ==
  ASSUME NEW i \in Program
  PROVE  /\ <<i.inst, i.mode>> \in InstructionSet
         /\ i.raw \in Word
         /\ Length(i.mode) < 3 => i.raw \in Byte
  BY CpuAssumption DEF Instruction

\* The modes of an instruction: operands are immediate or have an address, and
\* only branches are relative.
LEMMA ProgramModes ==
  ASSUME NEW inst, NEW mode, <<inst, mode>> \in InstructionSet
  PROVE  /\ inst \in {"LDA", "LDX", "LDY", "ORA", "AND", "EOR", "ADC", "SBC", "CMP",
                      "CPX", "CPY", "STA", "STX", "STY", "BIT", "INC", "DEC"}
              => mode # "impl"
         /\ inst \in {"STA", "STX", "STY", "BIT", "INC", "DEC",
                      "ASL", "LSR", "ROL", "ROR"} => mode # "imm"
         /\ inst \in {"BPL", "BMI", "BVS", "BCC", "BCS", "BNE", "BEQ"} => mode = "rel"
         /\ inst = "JMP" => mode \in {"abs", "ind"}
  BY SMT DEF InstructionSet

LEMMA Remainder ==
  ASSUME NEW n \in Int, NEW size \in Nat, size > 0
  PROVE  n % size \in 0 .. size - 1
  OBVIOUS

\* Words by arithmetic.
LEMMA WordOfInt ==
  ASSUME NEW n \in Int
  PROVE  n % 65536 \in Word
  <1> DEFINE size == 65536
  <1>1. size \in Nat /\ size > 0
    OBVIOUS
  <1>2. Word = 0 .. size - 1
    BY DEF Word
  <1> HIDE DEF size
  <1>3. n % size \in 0 .. size - 1
    BY <1>1, Remainder
  <1>4. n % size \in Word
    BY <1>2, <1>3
  <1>5. QED
    BY <1>4 DEF size

LEMMA WordOfNat ==
  ASSUME NEW n \in Nat, n <= 65535
  PROVE  n \in Word
  <1>1. n % 65536 = n
    BY SMT
  <1>2. QED
    BY <1>1, WordOfInt

LEMMA WordOfBytes ==
  ASSUME NEW lo \in Byte, NEW hi \in Byte
  PROVE  lo + 256 * hi \in Word
  <1>1. lo \in Nat /\ lo <= 255 /\ hi \in Nat /\ hi <= 255
    BY SMT DEF Byte
  <1>2. lo + 256 * hi \in Nat /\ lo + 256 * hi <= 65535
    BY <1>1, SMT
  <1>3. QED
    BY <1>2, WordOfNat

\* Any sum with a word wraps to a word.
LEMMA WordOfSum ==
  ASSUME NEW w \in Word, NEW d \in Int
  PROVE  w \in Int /\ (w + d) % 65536 \in Word
  <1>1. w \in Int /\ w + d \in Int
    BY SMTT(30) DEF Word
  <1>2. QED
    BY <1>1, WordOfInt

\* The program counter stays a word.
LEMMA FollowingRange ==
  ASSUME pc \in Word, NEW i
  PROVE  Following(i) \in Word
  <1>1. Length(i.mode) \in {1, 2, 3}
    BY SMT DEF Length
  <1>2. pc + Length(i.mode) \in Int
    BY <1>1, SMT DEF Word
  <1>3. QED
    BY <1>2, WordOfInt DEF Following

\* Pointers in memory are words.
LEMMA DerefRange ==
  ASSUME ram \in [Cells -> Byte], NEW a \in Cells, a + 1 \in Cells
  PROVE  deref(a) \in Word
  <1>1. ram[a] \in Byte /\ ram[a + 1] \in Byte
    OBVIOUS
  <1>2. QED
    BY <1>1, WordOfBytes DEF deref

\* Where branches and jumps go.
LEMMA TargetRange ==
  ASSUME TypeOK, NEW i \in Program, PointerInCells(i), i.mode \in {"rel", "abs", "ind"}
  PROVE  resolveAddress(i) \in Word
  <1>1. i.raw \in Word /\ Following(i) \in Word
    BY ProgramInstruction, FollowingRange DEF TypeOK
  <1>2. CASE i.mode = "rel"
    <2>1. Length(i.mode) < 3
      BY <1>2, SMT DEF Length
    <2>2. i.raw \in Byte
      BY <2>1, ProgramInstruction
    <2>3. Signed(i.raw) \in Int
      BY <2>2, SMT DEF Signed, Byte
    <2>4. resolveAddress(i) = (Following(i) + Signed(i.raw)) % 65536
      BY <1>2 DEF resolveAddress
    <2>5. QED
      BY <1>1, <2>3, <2>4, WordOfSum
  <1>3. CASE i.mode = "abs"
    BY <1>1, <1>3 DEF resolveAddress
  <1>4. CASE i.mode = "ind"
    <2>1. i.raw \in Cells /\ i.raw + 1 \in Cells
      BY <1>4 DEF PointerInCells, Pointer
    <2>2. deref(i.raw) \in Word
      BY <2>1, DerefRange DEF TypeOK
    <2>3. QED
      BY <1>4, <2>2 DEF resolveAddress, Pointer
  <1>5. QED
    BY <1>2, <1>3, <1>4

\* Bytes that instructions compute.
LEMMA BitwiseRange ==
  ASSUME NEW inst, NEW u \in Byte, NEW v \in Byte
  PROVE  bitwise(inst, u, v) \in Byte
  <1> DEFINE bit(mask) ==
               LET sum == Bit(u, mask) + Bit(v, mask)
               IN  IF (sum = 2 /\ inst # "EOR") \/ (sum = 1 /\ inst # "AND")
                   THEN mask ELSE 0
  <1>1. /\ bit(1) \in {0, 1} /\ bit(2) \in {0, 2} /\ bit(4) \in {0, 4}
        /\ bit(8) \in {0, 8} /\ bit(16) \in {0, 16} /\ bit(32) \in {0, 32}
        /\ bit(64) \in {0, 64} /\ bit(128) \in {0, 128}
    OBVIOUS
  <1>2. bitwise(inst, u, v) = bit(1) + bit(2) + bit(4) + bit(8)
                                + bit(16) + bit(32) + bit(64) + bit(128)
    BY DEF bitwise
  <1> HIDE DEF bit
  <1>3. QED
    BY <1>1, <1>2, SMT DEF Byte

LEMMA ShiftRange ==
  ASSUME p \in Byte, NEW inst \in {"ASL", "LSR", "ROL", "ROR"}, NEW byte \in Byte
  PROVE  /\ shifted(inst, byte) \in Byte
         /\ shiftFlags(inst, byte) \in Byte
  <1>1. shifted(inst, byte) \in Byte
    BY SMT DEF shifted, Bit, Byte, FLAG_C
  <1>2. setFlag(p, FLAG_C, shiftedOut(inst, byte)) \in Byte
    <2>1. CASE shiftedOut(inst, byte)
      BY <2>1, SMT DEF setFlag, Bit, Byte, FLAG_C
    <2>2. CASE ~shiftedOut(inst, byte)
      BY <2>2, SMT DEF setFlag, Bit, Byte, FLAG_C
    <2>3. QED
      BY <2>1, <2>2
  <1>3. QED
    BY <1>1, <1>2, SetNZ DEF shiftFlags

\* The operand of an instruction that has one.
LEMMA OperandRange ==
  ASSUME TypeOK, NEW i \in Program, AddressInCells(i), i.mode # "impl"
  PROVE  Operand(i) \in Byte
  <1>1. CASE i.mode = "imm"
    <2>1. Length(i.mode) < 3
      BY <1>1, SMT DEF Length
    <2>2. QED
      BY <1>1, <2>1, ProgramInstruction DEF Operand
  <1>2. CASE i.mode # "imm"
    <2>1. resolveAddress(i) \in Cells
      BY <1>2 DEF AddressInCells
    <2>2. QED
      BY <1>2, <2>1 DEF Operand, TypeOK
  <1>3. QED
    BY <1>1, <1>2

\* Beginning an instruction leaves room for another.
LEMMA FetchCounts ==
  ASSUME Inv, Fetch
  PROVE  ic' \in 0 .. InstructionLimit /\ ic' < InstructionLimit /\ state = "running"
  BY CpuAssumption, SMT DEF Inv, TypeOK, Fetch, Fetching

\* The three ways an instruction ends.
LEMMA SetsKeeps ==
  ASSUME Inv, NEW i \in Program, Fetch, NEW r \in Registers, NEW byte \in Byte,
         Sets(i, r, byte), p' \in Byte
  PROVE  Inv'
  <1>1. reg' \in [Registers -> Byte]
    BY DEF Sets, Inv, TypeOK
  <1>2. pc' \in Word
    BY FollowingRange DEF Sets, Inv, TypeOK
  <1>3. ram' \in [Cells -> Byte] /\ state' = state
    BY DEF Sets, Inv, TypeOK
  <1>4. QED
    BY <1>1, <1>2, <1>3, FetchCounts DEF Inv, TypeOK

LEMMA WritesKeeps ==
  ASSUME Inv, NEW i \in Program, Fetch, NEW addr, NEW byte \in Byte,
         Writes(i, addr, byte), p' \in Byte
  PROVE  Inv'
  <1>1. ram' \in [Cells -> Byte]
    BY DEF Writes, Inv, TypeOK
  <1>2. pc' \in Word
    BY FollowingRange DEF Writes, Inv, TypeOK
  <1>3. reg' \in [Registers -> Byte] /\ state' = state
    BY DEF Writes, Inv, TypeOK
  <1>4. QED
    BY <1>1, <1>2, <1>3, FetchCounts DEF Inv, TypeOK

LEMMA FailKeeps ==
  ASSUME Inv, Fetch, Fail
  PROVE  Inv'
  BY FetchCounts DEF Fail, Inv, TypeOK

\* The register an instruction is about.
LEMMA RegisterRange ==
  ASSUME NEW i
  PROVE  Register(i) \in {"a", "x", "y"}
  BY DEF Register

-----------------------------------------------------------------------------
(***************************************************************************)
(* Every instruction keeps the invariant.                                  *)
(***************************************************************************)

LEMMA LoadKeeps ==
  ASSUME Inv, NEW i \in Program, Load(i)
  PROVE  Inv'
  <1> DEFINE found == loadBanked(ram[Port], resolveAddress(i))
             byte == IF i.mode = "imm" THEN i.raw ELSE ram[found]
  <1>1. byte \in Byte
    <2>1. CASE i.mode = "imm"
      <3>1. Length(i.mode) < 3
        BY <2>1, SMT DEF Length
      <3>2. QED
        BY <2>1, <3>1, ProgramInstruction
    <2>2. CASE i.mode # "imm"
      BY <2>2 DEF Load, Inv, TypeOK
    <2>3. QED
      BY <2>1, <2>2
  <1>2. Fetch /\ Sets(i, Register(i), byte) /\ p' = setNZ(p, byte)
    BY DEF Load
  <1>3. Register(i) \in Registers
    BY RegisterRange DEF Registers
  <1> HIDE DEF byte
  <1>4. p' \in Byte
    BY <1>1, <1>2, SetNZ DEF Inv, TypeOK
  <1>5. QED
    BY <1>1, <1>2, <1>3, <1>4, SetsKeeps

LEMMA BitwiseKeeps ==
  ASSUME Inv, NEW i \in Program, Bitwise(i)
  PROVE  Inv'
  <1> DEFINE byte == bitwise(i.inst, reg["a"], Operand(i))
  <1>1. i.mode # "impl"
    BY ProgramInstruction, ProgramModes DEF Bitwise
  <1>2. Operand(i) \in Byte /\ reg["a"] \in Byte
    BY <1>1, OperandRange DEF Bitwise, Inv, TypeOK, Registers
  <1>3. byte \in Byte
    BY <1>2, BitwiseRange
  <1>4. Fetch /\ Sets(i, "a", byte) /\ p' = setNZ(p, byte)
    BY DEF Bitwise
  <1> HIDE DEF byte
  <1>5. p' \in Byte
    BY <1>3, <1>4, SetNZ DEF Inv, TypeOK
  <1>6. QED
    BY <1>3, <1>4, <1>5, SetsKeeps DEF Registers

\* What is added to the accumulator.
LEMMA AddendRange ==
  ASSUME TypeOK, NEW i \in Program, AddressInCells(i), i.mode # "impl"
  PROVE  Addend(i) \in Byte
  <1>1. Operand(i) \in Byte
    BY OperandRange
  <1>2. QED
    BY <1>1, SMT DEF Addend, Byte

LEMMA AddKeeps ==
  ASSUME Inv, NEW i \in Program, Add(i)
  PROVE  Inv'
  <1> DEFINE byte == Sum(reg["a"], Addend(i), FALSE) % 256
  <1>1. i.mode # "impl"
    BY ProgramInstruction, ProgramModes DEF Add
  <1>2. Addend(i) \in Byte /\ reg["a"] \in Byte
    BY <1>1, AddendRange DEF Add, Inv, TypeOK, Registers
  <1>3. /\ Sum(reg["a"], Addend(i), FALSE) \in 0 .. 511
        /\ addFlags(reg["a"], Addend(i), FALSE) \in Byte
    BY <1>2, AdditionFlags DEF Inv, TypeOK
  <1>4. byte \in Byte
    BY <1>3, SumByte
  <1>5. Fetch /\ Sets(i, "a", byte) /\ p' = addFlags(reg["a"], Addend(i), FALSE)
    BY DEF Add
  <1>6. p' \in Byte
    BY <1>3, <1>5
  <1> HIDE DEF byte
  <1>7. QED
    BY <1>4, <1>5, <1>6, SetsKeeps DEF Registers

LEMMA CompareKeeps ==
  ASSUME Inv, NEW i \in Program, Compare(i)
  PROVE  Inv'
  <1>1. i.mode # "impl"
    BY ProgramInstruction, ProgramModes DEF Compare
  <1>2. Addend(i) \in Byte
    BY <1>1, AddendRange DEF Compare, Inv
  <1>3. reg[Register(i)] \in Byte
    BY RegisterRange DEF Inv, TypeOK, Registers
  <1>4. p' \in Byte
    <2>1. p \in Byte /\ p' = addFlags(reg[Register(i)], Addend(i), TRUE)
      BY DEF Compare, Inv, TypeOK
    <2> DEFINE r == reg[Register(i)]
               sum == r + Addend(i) + 1
    <2> HIDE DEF r
    <2>2. r \in Byte /\ p' = addFlags(r, Addend(i), TRUE)
      BY <1>3, <2>1 DEF r
    <2>3. sum \in 0 .. 511 /\ p' = CarryFlags(sum)
      BY <1>2, <2>1, <2>2, CompareFlags
    <2> HIDE DEF sum
    <2>4. QED
      BY <2>1, <2>3, CarryFlagsSet
  <1>5. pc' \in Word
    BY FollowingRange DEF Compare, Inv, TypeOK
  <1>6. QED
    BY <1>4, <1>5, FetchCounts DEF Compare, Inv, TypeOK

LEMMA StoreKeeps ==
  ASSUME Inv, NEW i \in Program, Store(i)
  PROVE  Inv'
  <1> DEFINE byte == IF i.inst = "BIT" THEN p ELSE reg[Register(i)]
  <1>1. byte \in Byte
    BY RegisterRange DEF Inv, TypeOK, Registers
  <1>2. Fetch /\ Writes(i, resolveAddress(i), byte) /\ p' \in Byte
    BY DEF Store, Inv, TypeOK
  <1> HIDE DEF byte
  <1>3. QED
    BY <1>1, <1>2, WritesKeeps

LEMMA IncrementKeeps ==
  ASSUME Inv, NEW i \in Program, Increment(i)
  PROVE  Inv'
  <1> DEFINE byte == (ram[resolveAddress(i)] + 1) % 256
  <1>1. i.mode # "impl" /\ i.mode # "imm"
    BY ProgramInstruction, ProgramModes DEF Increment
  <1>2. ram[resolveAddress(i)] \in Byte
    BY <1>1 DEF Increment, AddressInCells, Inv, TypeOK
  <1>3. byte \in Byte
    BY <1>2, SMT DEF Byte
  <1>4. Fetch /\ Writes(i, resolveAddress(i), byte) /\ p' = setNZ(p, byte)
    BY DEF Increment
  <1> HIDE DEF byte
  <1>5. p' \in Byte
    BY <1>3, <1>4, SetNZ DEF Inv, TypeOK
  <1>6. QED
    BY <1>3, <1>4, <1>5, WritesKeeps

LEMMA ShiftKeeps ==
  ASSUME Inv, NEW i \in Program, Shift(i)
  PROVE  Inv'
  <1> DEFINE byte == IF i.mode = "impl" THEN reg["a"] ELSE ram[resolveAddress(i)]
             left == shifted(i.inst, byte)
  <1>1. Fetch /\ i.inst \in {"ASL", "LSR", "ROL", "ROR"} /\ p' = shiftFlags(i.inst, byte)
    BY DEF Shift
  <1>2. i.mode # "imm"
    BY <1>1, ProgramInstruction, ProgramModes
  <1>3. byte \in Byte
    BY <1>2 DEF Shift, AddressInCells, Inv, TypeOK, Registers
  <1>4. left \in Byte /\ p' \in Byte
    <2> HIDE DEF byte
    <2>1. QED
      BY <1>1, <1>3, ShiftRange DEF Inv, TypeOK
  <1>5. CASE i.mode = "impl"
    <2>1. Sets(i, "a", left)
      BY <1>5 DEF Shift
    <2> HIDE DEF left
    <2>2. QED
      BY <1>1, <1>4, <2>1, SetsKeeps DEF Registers
  <1>6. CASE i.mode # "impl"
    <2>1. Writes(i, resolveAddress(i), left)
      BY <1>6 DEF Shift
    <2> HIDE DEF left
    <2>2. QED
      BY <1>1, <1>4, <2>1, WritesKeeps
  <1>7. QED
    BY <1>5, <1>6

LEMMA CountKeeps ==
  ASSUME Inv, NEW i \in Program, Count(i)
  PROVE  Inv'
  <1> DEFINE up == IF i.inst \in {"INX", "INY"} THEN 1 ELSE 255
             byte == (reg[Register(i)] + up) % 256
  <1>1. Register(i) \in Registers
    BY RegisterRange DEF Registers
  <1>2. reg[Register(i)] \in Byte
    BY <1>1 DEF Inv, TypeOK
  <1>3. up \in {1, 255}
    OBVIOUS
  <1>4. byte \in Byte
    <2> HIDE DEF up
    <2>1. QED
      BY <1>2, <1>3, SMT DEF Byte
  <1>5. Fetch /\ Sets(i, Register(i), byte) /\ p' = setNZ(p, byte)
    BY DEF Count
  <1> HIDE DEF byte
  <1>6. p' \in Byte
    BY <1>4, <1>5, SetNZ DEF Inv, TypeOK
  <1>7. QED
    BY <1>1, <1>4, <1>5, <1>6, SetsKeeps

LEMMA TransferKeeps ==
  ASSUME Inv, NEW i \in Program, Transfer(i)
  PROVE  Inv'
  <1> DEFINE from == Transfers[i.inst][1]
             to == Transfers[i.inst][2]
             byte == reg[from]
  <1>1. i.inst \in {"TYA", "TAY", "TXA", "TAX", "TXS", "TSX"}
    BY DEF Transfer, Transfers
  <1>2. from \in Registers /\ to \in Registers
    BY <1>1 DEF Transfers, Registers
  <1>3. byte \in Byte /\ reg["a"] \in Byte /\ p \in Byte
    BY <1>2 DEF Inv, TypeOK, Registers
  <1>4. Fetch /\ Sets(i, to, byte)
    BY DEF Transfer
  <1>5. p' = p \/ p' = setNZ(p, reg["a"]) \/ p' = setNZ(p, byte)
    BY DEF Transfer
  <1> HIDE DEF byte, from, to
  <1>6. p' \in Byte
    BY <1>3, <1>5, SetNZ
  <1>7. QED
    BY <1>2, <1>3, <1>4, <1>6, SetsKeeps

LEMMA SetFlagKeeps ==
  ASSUME Inv, NEW i \in Program, SetFlag(i)
  PROVE  Inv'
  <1> DEFINE f == FlagsSet[i.inst][1]
             set == FlagsSet[i.inst][2]
  <1>1. i.inst \in {"CLC", "SEC", "CLV", "CLD", "SED", "CLI", "SEI"}
    BY DEF SetFlag, FlagsSet
  <1>2. f \in {1, 2, 4, 8, 64, 128} /\ set \in BOOLEAN
    <2>1. f \in {1, 2, 4, 8, 64, 128}
      BY <1>1, SMT DEF FlagsSet, FLAG_C, FLAG_V, FLAG_D, FLAG_I
    <2>2. /\ FlagsSet["CLC"][2] = FALSE /\ FlagsSet["SEC"][2] = TRUE
          /\ FlagsSet["CLV"][2] = FALSE /\ FlagsSet["CLD"][2] = FALSE
          /\ FlagsSet["SED"][2] = TRUE /\ FlagsSet["CLI"][2] = FALSE
          /\ FlagsSet["SEI"][2] = TRUE
      BY Zenon DEF FlagsSet
    <2>3. set \in BOOLEAN
      BY <1>1, <2>2
    <2>4. QED
      BY <2>1, <2>3
  <1>3. Fetch /\ p' = setFlag(p, f, set) /\ pc' = Following(i)
          /\ UNCHANGED <<reg, ram, state>>
    BY DEF SetFlag
  <1> HIDE DEF f, set
  <1>4. p' \in Byte
    BY <1>2, <1>3, SetFlagSets DEF Inv, TypeOK
  <1>5. pc' \in Word
    BY <1>3, FollowingRange DEF Inv, TypeOK
  <1>6. QED
    BY <1>3, <1>4, <1>5, FetchCounts DEF Inv, TypeOK

LEMMA NopKeeps ==
  ASSUME Inv, NEW i \in Program, NOP(i)
  PROVE  Inv'
  <1>1. pc' \in Word
    BY FollowingRange DEF NOP, Inv, TypeOK
  <1>2. QED
    BY <1>1, FetchCounts DEF NOP, Inv, TypeOK

LEMMA PushKeeps ==
  ASSUME Inv, NEW i \in Program, Push(i)
  PROVE  Inv'
  <1>1. Fetch
    BY DEF Push
  <1>2. CASE Fail
    BY <1>1, <1>2, FailKeeps
  <1>3. CASE reg["s"] # 0
    <2> DEFINE byte == IF i.inst = "PHP" THEN p ELSE reg["a"]
    <2>1. /\ ram' = [ram EXCEPT ![256 + reg["s"]] = byte]
          /\ reg' = [reg EXCEPT !["s"] = reg["s"] - 1]
          /\ pc' = Following(i)
          /\ UNCHANGED <<p, state>>
      BY <1>3 DEF Push
    <2>2. byte \in Byte
      BY DEF Inv, TypeOK, Registers
    <2>3. reg["s"] - 1 \in Byte
      <3>1. reg["s"] \in Byte
        BY DEF Inv, TypeOK, Registers
      <3>2. QED
        BY <1>3, <3>1, SMT DEF Byte
    <2> HIDE DEF byte
    <2>4. ram' \in [Cells -> Byte] /\ reg' \in [Registers -> Byte]
      BY <2>1, <2>2, <2>3 DEF Inv, TypeOK
    <2>5. pc' \in Word
      BY <2>1, FollowingRange DEF Inv, TypeOK
    <2>6. QED
      BY <1>1, <2>1, <2>4, <2>5, FetchCounts DEF Inv, TypeOK
  <1>4. QED
    BY <1>2, <1>3 DEF Push

LEMMA PullKeeps ==
  ASSUME Inv, NEW i \in Program, Pull(i)
  PROVE  Inv'
  <1>1. Fetch
    BY DEF Pull
  <1>2. CASE Fail
    BY <1>1, <1>2, FailKeeps
  <1>3. CASE reg["s"] # 255
    <2> DEFINE byte == ram[257 + reg["s"]]
               a == IF i.inst = "PLA" THEN byte ELSE reg["a"]
    <2>1. /\ 257 + reg["s"] \in Cells
          /\ reg' = [reg EXCEPT !["s"] = reg["s"] + 1, !["a"] = a]
          /\ p' = IF i.inst = "PLA" THEN setNZ(p, byte) ELSE byte
          /\ pc' = Following(i)
          /\ UNCHANGED <<ram, state>>
      BY <1>3 DEF Pull
    <2>2. byte \in Byte
      BY <2>1 DEF Inv, TypeOK
    <2>3. reg["s"] + 1 \in Byte
      <3>1. reg["s"] \in Byte
        BY DEF Inv, TypeOK, Registers
      <3>2. QED
        BY <1>3, <3>1, SMT DEF Byte
    <2>4. a \in Byte
      BY <2>2 DEF Inv, TypeOK, Registers
    <2> HIDE DEF byte, a
    <2>5. p' \in Byte
      BY <2>1, <2>2, SetNZ DEF Inv, TypeOK
    <2>6. reg' \in [Registers -> Byte]
      BY <2>1, <2>3, <2>4 DEF Inv, TypeOK
    <2>7. pc' \in Word
      BY <2>1, FollowingRange DEF Inv, TypeOK
    <2>8. QED
      BY <1>1, <2>1, <2>5, <2>6, <2>7, FetchCounts DEF Inv, TypeOK
  <1>4. QED
    BY <1>2, <1>3 DEF Pull

LEMMA UnsupportedKeeps ==
  ASSUME Inv, NEW i \in Program, Unsupported(i)
  PROVE  Inv'
  BY FailKeeps DEF Unsupported

LEMMA BranchKeeps ==
  ASSUME Inv, NEW i \in Program, Branch(i)
  PROVE  Inv'
  <1>1. i.inst \in {"BPL", "BMI", "BVS", "BCC", "BCS", "BNE", "BEQ"}
    <2>1. DOMAIN Condition = {"BPL", "BMI", "BVS", "BCC", "BCS", "BNE", "BEQ"}
      BY DEF Condition
    <2>2. QED
      BY <2>1 DEF Branch
  <1>2. i.mode = "rel"
    BY <1>1, ProgramInstruction, ProgramModes
  <1>3. Fetch /\ pc' \in {resolveAddress(i), Following(i)} /\ UNCHANGED <<reg, p, ram, state>>
    BY DEF Branch
  <1>4. PointerInCells(i)
    BY <1>2 DEF PointerInCells
  <1>5. resolveAddress(i) \in Word
    BY <1>2, <1>4, TargetRange DEF Inv
  <1>6. Following(i) \in Word
    BY FollowingRange DEF Inv, TypeOK
  <1>7. pc' \in Word
    BY <1>3, <1>5, <1>6
  <1>8. QED
    BY <1>3, <1>7, FetchCounts DEF Inv, TypeOK

\* A return address is a word, and pulling it keeps the stack pointer a byte.
LEMMA ReturnRange ==
  ASSUME NEW mem \in [Cells -> Byte], NEW s \in Byte, {257 + s, 258 + s} \subseteq Cells,
         ~(s > 253)
  PROVE  /\ ReturnAddress(mem, s) \in Word
         /\ mem[258 + s] \in Byte
         /\ s + 2 \in Byte
  <1>1. mem[257 + s] \in Byte /\ mem[258 + s] \in Byte
    OBVIOUS
  <1> DEFINE lo == mem[257 + s]
             hi == mem[258 + s]
  <1>2. (lo + 256 * hi + 1) % 65536 \in Word
    <2> HIDE DEF lo, hi
    <2>1. lo \in Byte /\ hi \in Byte
      BY <1>1 DEF lo, hi
    <2>2. lo + 256 * hi + 1 \in Int
      BY <2>1, SMT DEF Byte
    <2>3. QED
      BY <2>2, WordOfInt
  <1>3. s + 2 \in Byte
    BY SMT DEF Byte
  <1>4. QED
    BY <1>1, <1>2, <1>3 DEF ReturnAddress

\* The two pushes of a call.
LEMMA PushWordRange ==
  ASSUME TypeOK, NEW w \in Word
  PROVE  PushWord(w) \in [Cells -> Byte]
  <1>1. w \div 256 \in Byte /\ w % 256 \in Byte
    <2>1. w \in Int /\ 0 <= w /\ w <= 65535
      BY SMTT(30) DEF Word
    <2>2. w \div 256 = (w \div 256) % 256
      BY <2>1, SMTT(30)
    <2>3. (w \div 256) % 256 \in Byte
      BY <2>1, SMT DEF Byte
    <2>4. w % 256 \in Byte
      BY <2>1, SMT DEF Byte
    <2>5. QED
      BY <2>2, <2>3, <2>4
  <1>2. QED
    BY <1>1 DEF PushWord, TypeOK

\* A KERNAL call, from whatever memory and stack it starts.
LEMMA romCallKeeps ==
  ASSUME Inv, Fetch, NEW mem \in [Cells -> Byte], NEW s \in Byte, romCall(mem, s)
  PROVE  Inv'
  <1>1. CASE Fail
    BY <1>1, FailKeeps
  <1>2. CASE ~Fail
    <2>1. ~(s > 253) /\ {257 + s, 258 + s} \subseteq Cells
      BY <1>2 DEF romCall
    <2>2. PICK answer \in KernalAnswers \cup {reg["a"]}, carry \in BOOLEAN,
               cells \in [KernalCells -> Byte] :
            /\ reg' = [reg EXCEPT !["a"] = answer, !["s"] = s + 2]
            /\ p' = setNZ(setFlag(p, FLAG_C, carry), mem[258 + s])
            /\ pc' = ReturnAddress(mem, s)
            /\ ram' = [a \in Cells |-> IF a \in KernalCells THEN cells[a] ELSE mem[a]]
            /\ UNCHANGED state
      BY <1>2, Zenon DEF romCall
    <2>3. /\ ReturnAddress(mem, s) \in Word
          /\ mem[258 + s] \in Byte
          /\ s + 2 \in Byte
      BY <2>1, ReturnRange
    <2>4. answer \in Byte
      BY CpuAssumption DEF Inv, TypeOK, Registers
    <2>5. reg' \in [Registers -> Byte]
      BY <2>2, <2>3, <2>4 DEF Inv, TypeOK
    <2>6. setFlag(p, FLAG_C, carry) \in Byte
      BY SetFlagSets DEF Inv, TypeOK, FLAG_C
    <2>7. p' \in Byte
      BY <2>2, <2>3, <2>6, SetNZ
    <2>8. ram' \in [Cells -> Byte]
      BY <2>2
    <2>9. pc' \in Word /\ state' = state
      BY <2>2, <2>3
    <2>10. QED
      BY <2>5, <2>7, <2>8, <2>9, FetchCounts DEF Inv, TypeOK
  <1>3. QED
    BY <1>1, <1>2

LEMMA JSRKeeps ==
  ASSUME Inv, NEW i \in Program, JSR(i)
  PROVE  Inv'
  <1> DEFINE s == reg["s"]
             mem == PushWord((Following(i) - 1) % 65536)
  <1>1. Fetch
    BY DEF JSR
  <1>2. (Following(i) + (-1)) % 65536 \in Word
    BY FollowingRange, WordOfSum DEF Inv, TypeOK
  <1>3. mem \in [Cells -> Byte]
    <2>1. Following(i) \in Int
      BY FollowingRange, WordOfSum DEF Inv, TypeOK
    <2>2. Following(i) + (-1) = Following(i) - 1
      BY <2>1, SMT
    <2>3. QED
      BY <1>2, <2>2, PushWordRange DEF Inv
  <1>4. CASE Fail
    BY <1>1, <1>4, FailKeeps
  <1>5. CASE ~(s < 2) /\ i.raw >= KernalStart
    <2>1. romCall(mem, s - 2)
      BY <1>5 DEF JSR
    <2>2. s - 2 \in Byte
      <3>1. s \in Byte
        BY DEF Inv, TypeOK, Registers
      <3>2. QED
        BY <1>5, <3>1, SMT DEF Byte
    <2> HIDE DEF mem, s
    <2>3. QED
      BY <1>1, <1>3, <2>1, <2>2, romCallKeeps
  <1>6. CASE ~(s < 2) /\ ~(i.raw >= KernalStart)
    <2>1. ram' = mem /\ reg' = [reg EXCEPT !["s"] = s - 2] /\ pc' = i.raw /\ UNCHANGED <<p, state>>
      BY <1>6 DEF JSR
    <2>2. s - 2 \in Byte
      <3>1. s \in Byte
        BY DEF Inv, TypeOK, Registers
      <3>2. QED
        BY <1>6, <3>1, SMT DEF Byte
    <2> HIDE DEF mem, s
    <2>3. reg' \in [Registers -> Byte]
      BY <2>1, <2>2 DEF Inv, TypeOK
    <2>4. pc' \in Word
      BY <2>1, ProgramInstruction
    <2>5. QED
      BY <1>1, <1>3, <2>1, <2>3, <2>4, FetchCounts DEF Inv, TypeOK
  <1>7. QED
    BY <1>4, <1>5, <1>6 DEF JSR

LEMMA JMPKeeps ==
  ASSUME Inv, NEW i \in Program, JMP(i)
  PROVE  Inv'
  <1>1. i.mode \in {"abs", "ind"}
    BY ProgramInstruction, ProgramModes DEF JMP
  <1>2. resolveAddress(i) \in Word
    BY <1>1, TargetRange DEF JMP, Inv
  <1>3. Fetch
    BY DEF JMP
  <1>4. CASE romCall(ram, reg["s"])
    BY <1>3, <1>4, romCallKeeps DEF Inv, TypeOK, Registers
  <1>5. CASE pc' = resolveAddress(i) /\ UNCHANGED <<reg, p, ram, state>>
    BY <1>2, <1>3, <1>5, FetchCounts DEF Inv, TypeOK
  <1>6. QED
    BY <1>4, <1>5 DEF JMP

LEMMA RTSKeeps ==
  ASSUME Inv, NEW i \in Program, RTS(i)
  PROVE  Inv'
  <1> DEFINE s == reg["s"]
  <1>1. Fetch
    BY DEF RTS
  <1>2. CASE Fail
    BY <1>1, <1>2, FailKeeps
  <1>3. CASE ~(s > 253)
    <2>1. /\ {257 + s, 258 + s} \subseteq Cells
          /\ reg' = [reg EXCEPT !["s"] = s + 2]
          /\ p' = setNZ(p, ram[258 + s])
          /\ pc' = ReturnAddress(ram, s)
          /\ UNCHANGED <<ram, state>>
      BY <1>3 DEF RTS
    <2>2. s \in Byte
      BY DEF Inv, TypeOK, Registers
    <2> HIDE DEF s
    <2>3. /\ ReturnAddress(ram, s) \in Word
          /\ ram[258 + s] \in Byte
          /\ s + 2 \in Byte
      BY <1>3, <2>1, <2>2, ReturnRange DEF Inv, TypeOK
    <2>4. reg' \in [Registers -> Byte] /\ p' \in Byte /\ pc' \in Word
      BY <2>1, <2>3, SetNZ DEF Inv, TypeOK
    <2>5. QED
      BY <1>1, <2>1, <2>4, FetchCounts DEF Inv, TypeOK
  <1>4. QED
    BY <1>2, <1>3 DEF RTS

LEMMA InitInv == Init => Inv
  <1> SUFFICES ASSUME Init PROVE Inv
    OBVIOUS
  <1>1. PICK start \in Starts : reg = start.reg /\ p = start.p /\ pc = start.pc
    BY DEF Init
  <1>2. reg \in [Registers -> Byte] /\ p \in Byte /\ pc \in Word
    BY <1>1, CpuAssumption
  <1>3. ram \in [Cells -> Byte]
    <2>1. 0 \in Byte
      BY SMT DEF Byte
    <2>2. QED
      BY <2>1 DEF Init
  <1>4. ic \in 0 .. InstructionLimit /\ ic < InstructionLimit /\ state = "running"
    BY CpuAssumption, SMT DEF Init
  <1>5. QED
    BY <1>2, <1>3, <1>4 DEF Inv, TypeOK

LEMMA NextInv == Inv /\ [Next]_vars => Inv'
  <1> SUFFICES ASSUME Inv, [Next]_vars PROVE Inv'
    OBVIOUS
  <1>1. CASE \E i \in Program : Interp(i)
    <2>1. PICK i \in Program : Interp(i)
      BY <1>1
    <2>2. QED
      BY <2>1, LoadKeeps, BitwiseKeeps, AddKeeps, CompareKeeps, StoreKeeps,
         IncrementKeeps, ShiftKeeps, CountKeeps, TransferKeeps, SetFlagKeeps,
         NopKeeps, UnsupportedKeeps, PushKeeps, PullKeeps, BranchKeeps, JSRKeeps,
         JMPKeeps, RTSKeeps DEF Interp
  <1>2. CASE ReachForth
    BY <1>2 DEF ReachForth, Inv, TypeOK
  <1>3. CASE TooManyInstructions
    <2>1. pc' \in Word
      BY <1>3, WordOfSum DEF TooManyInstructions, Inv, TypeOK
    <2>2. ic' \in 0 .. InstructionLimit
      BY <1>3, CpuAssumption, SMT DEF TooManyInstructions, Inv, TypeOK
    <2>3. QED
      BY <1>3, <2>1, <2>2 DEF TooManyInstructions, Inv, TypeOK
  <1>4. CASE UNCHANGED vars
    BY <1>4 DEF vars, Inv, TypeOK
  <1>5. QED
    BY <1>1, <1>2, <1>3, <1>4 DEF Next

\* Whatever the program does, the registers, the flags and memory hold bytes, the
\* stack pointer, a word in the code, stays in its page, the program counter is
\* a word, and no more instructions are begun than the limit.
THEOREM CpuTypeCorrect == Spec => []TypeOK
  <1>1. Spec => []Inv
    BY InitInv, NextInv, PTL DEF Spec
  <1>2. Inv => TypeOK
    BY DEF Inv
  <1>3. QED
    BY <1>1, <1>2, PTL

-----------------------------------------------------------------------------
(***************************************************************************)
(* Arithmetic is exact.                                                    *)
(***************************************************************************)

\* A comparison subtracts: the carry tells which is greater, zero whether equal.
LEMMA OrderBySum ==
  ASSUME NEW r \in Byte, NEW v \in Byte, NEW sum, sum = r + (255 - v) + 1
  PROVE  /\ (sum >= 256) <=> (r >= v)
         /\ (sum % 256 = 0) <=> (r = v)
  BY SMTT(30) DEF Byte

\* Whatever carry was set before, CMP, CPX and CPY tell the order of the register
\* and the operand, and leave overflow alone.
THEOREM CompareIsOrder == Spec => CompareOrders
  <1>1. ASSUME Inv, NEW i \in Program, Compare(i)
        PROVE  /\ getFlag(p', FLAG_C) = (reg[Register(i)] >= Operand(i))
               /\ getFlag(p', FLAG_Z) = (reg[Register(i)] = Operand(i))
               /\ getFlag(p', FLAG_V) = getFlag(p, FLAG_V)
    <2> DEFINE r == reg[Register(i)]
               v == Operand(i)
               sum == r + (255 - v) + 1
    <2>1. AddressInCells(i) /\ i.inst \in {"CMP", "CPX", "CPY"}
            /\ p' = addFlags(r, Addend(i), TRUE)
      BY <1>1 DEF Compare
    <2>2. i.mode # "impl"
      BY <2>1, ProgramInstruction, ProgramModes
    <2>3. r \in Byte /\ v \in Byte /\ Addend(i) \in Byte /\ p \in Byte
      BY <1>1, <2>1, <2>2, RegisterRange, OperandRange, AddendRange DEF Inv, TypeOK, Registers
    <2>4. Addend(i) = 255 - v
      BY <2>1 DEF Addend
    <2> DEFINE w == 255 - v
    <2> HIDE DEF r, v
    <2>5. sum \in 0 .. 511 /\ p' = CarryFlags(sum)
      <3>1. w \in Byte /\ p' = addFlags(r, w, TRUE)
        BY <2>1, <2>3, <2>4
      <3> HIDE DEF w
      <3>2. r + w + 1 \in 0 .. 511 /\ p' = CarryFlags(r + w + 1)
        BY <2>3, <3>1, CompareFlags
      <3>3. QED
        BY <3>2 DEF w
    <2>6. (sum >= 256 <=> r >= v) /\ (sum % 256 = 0 <=> r = v)
      BY <2>3, OrderBySum
    <2> HIDE DEF sum
    <2>7. /\ Bit(p', FLAG_C) = IF sum >= 256 THEN 1 ELSE 0
          /\ Bit(p', FLAG_Z) = IF sum % 256 = 0 THEN 1 ELSE 0
          /\ Bit(p', FLAG_V) = Bit(p, FLAG_V)
      BY <2>3, <2>5, CarryFlagsSet
    <2>8. /\ getFlag(p', FLAG_C) = (r >= v)
          /\ getFlag(p', FLAG_Z) = (r = v)
          /\ getFlag(p', FLAG_V) = getFlag(p, FLAG_V)
      BY <2>6, <2>7 DEF getFlag
    <2>9. QED
      BY <2>8 DEF r, v
  <1> DEFINE Ordered == \A i \in Program :
               Compare(i) =>
                 /\ getFlag(p', FLAG_C) = (reg[Register(i)] >= Operand(i))
                 /\ getFlag(p', FLAG_Z) = (reg[Register(i)] = Operand(i))
                 /\ getFlag(p', FLAG_V) = getFlag(p, FLAG_V)
  <1>2. Inv /\ [Next]_vars => [Ordered]_vars
    BY <1>1
  <1>3. Spec => [][Ordered]_vars
    BY <1>2, InitInv, NextInv, PTL DEF Spec
  <1>4. QED
    BY <1>3 DEF CompareOrders

\* A sum is exact modulo 256, carries beyond a byte, and overflows just when the
\* sum of the signed operands does not fit.
LEMMA SumIsExact ==
  ASSUME NEW r \in Byte, NEW v \in Byte, NEW c \in {0, 1}, NEW sum, sum = r + v + c
  PROVE  /\ ((sum % 256) - sum) % 256 = 0
         /\ Overflows(r, v, sum % 256) <=> (Signed(r) + Signed(v) + c \notin -128 .. 127)
  <1>1. sum \in 0 .. 511
    BY SMT DEF Byte
  <1>2. ((sum % 256) - sum) % 256 = 0
    BY <1>1, SMT
  <1>3. CASE sum < 256
    <2>1. sum % 256 = sum
      BY <1>1, <1>3, SMT
    <2>2. QED
      BY <1>2, <2>1, SMTT(60) DEF Byte, Overflows, Signed
  <1>4. CASE sum >= 256
    <2>1. sum % 256 = sum - 256
      BY <1>1, <1>4, SMT
    <2>2. QED
      BY <1>2, <2>1, SMTT(60) DEF Byte, Overflows, Signed
  <1>5. QED
    BY <1>1, <1>3, <1>4, SMT

\* Subtracting is adding the one's complement.
LEMMA DifferenceIsSum ==
  ASSUME NEW r \in Byte, NEW v \in Byte, NEW c \in {0, 1}
  PROVE  /\ (r + (255 - v) + c) - (r - v + (c - 1)) = 256
         /\ (r + (255 - v) + c >= 256) <=> (r - v + (c - 1) >= 0)
         /\ Signed(255 - v) = -Signed(v) - 1
         /\ \A n \in Int : (n - (r + (255 - v) + c)) % 256 = 0
              => (n - (r - v + (c - 1))) % 256 = 0
  BY SMTT(30) DEF Byte, Signed

\* What an addition or subtraction leaves.
LEMMA AddLeaves ==
  ASSUME Inv, NEW i \in Program, Add(i)
  PROVE  /\ reg["a"] \in Byte /\ Operand(i) \in Byte /\ Bit(p, FLAG_C) \in {0, 1}
         /\ i.inst \in {"ADC", "SBC"}
         /\ \A w \in Byte, sum \in Int :
              Addend(i) = w /\ sum = reg["a"] + w + Bit(p, FLAG_C)
                => /\ reg'["a"] = sum % 256
                   /\ getFlag(p', FLAG_C) = (sum >= 256)
                   /\ getFlag(p', FLAG_V) = Overflows(reg["a"], w, sum % 256)
  <1> DEFINE r == reg["a"]
  <1>1. /\ i.inst \in {"ADC", "SBC"}
        /\ AddressInCells(i)
        /\ reg' = [reg EXCEPT !["a"] = Sum(r, Addend(i), FALSE) % 256]
        /\ p' = addFlags(r, Addend(i), FALSE)
    BY DEF Add, Sets
  <1>2. i.mode # "impl"
    BY <1>1, ProgramInstruction, ProgramModes
  <1>3. r \in Byte /\ Operand(i) \in Byte /\ p \in Byte
    BY <1>1, <1>2, OperandRange DEF Inv, TypeOK, Registers
  <1>4. Bit(p, FLAG_C) \in {0, 1}
    BY <1>3, SMT DEF Bit, Byte, FLAG_C
  <1>5. reg'["a"] = Sum(r, Addend(i), FALSE) % 256
    BY <1>1 DEF Inv, TypeOK, Registers
  <1> HIDE DEF r
  <1>6. ASSUME NEW w \in Byte, NEW sum \in Int, Addend(i) = w, sum = r + w + Bit(p, FLAG_C)
        PROVE  /\ reg'["a"] = sum % 256
               /\ getFlag(p', FLAG_C) = (sum >= 256)
               /\ getFlag(p', FLAG_V) = Overflows(r, w, sum % 256)
    <2> DEFINE C == Bit(addFlags(r, w, FALSE), FLAG_C)
               V == Bit(addFlags(r, w, FALSE), FLAG_V)
    <2>1. /\ Sum(r, w, FALSE) = r + w + Bit(p, FLAG_C)
          /\ C = IF Sum(r, w, FALSE) >= 256 THEN 1 ELSE 0
          /\ V = IF Overflows(r, w, Sum(r, w, FALSE) % 256) THEN 1 ELSE 0
      <3>1. Sum(r, w, FALSE) = r + w + Bit(p, FLAG_C)
        BY <1>3, <1>6, AdditionFlags
      <3>2. Bit(addFlags(r, w, FALSE), FLAG_C) = IF Sum(r, w, FALSE) >= 256 THEN 1 ELSE 0
        BY <1>3, <1>6, AdditionFlags
      <3>3. Bit(addFlags(r, w, FALSE), FLAG_V)
              = IF Overflows(r, w, Sum(r, w, FALSE) % 256) THEN 1 ELSE 0
        BY <1>3, <1>6, AdditionFlags
      <3>4. QED
        BY <3>1, <3>2, <3>3
    <2>2. p' = addFlags(r, w, FALSE) /\ reg'["a"] = sum % 256
      BY <1>1, <1>5, <1>6, <2>1
    <2>3. getFlag(p', FLAG_C) = (C = 1) /\ getFlag(p', FLAG_V) = (V = 1)
      BY <2>2 DEF getFlag
    <2> HIDE DEF C, V
    <2>4. (C = 1) = (sum >= 256)
      <3>1. C = IF sum >= 256 THEN 1 ELSE 0
        BY <1>6, <2>1
      <3>2. QED
        BY <3>1, SMT
    <2>5. (V = 1) = Overflows(r, w, sum % 256)
      <3>1. V = IF Overflows(r, w, sum % 256) THEN 1 ELSE 0
        BY <1>6, <2>1
      <3>2. QED
        BY <3>1, SMT DEF Overflows
    <2>6. QED
      BY <2>2, <2>3, <2>4, <2>5
  <1>7. QED
    BY <1>1, <1>3, <1>4, <1>6 DEF r

\* ADC and SBC compute sum and difference with carry, whatever came before them:
\* the result modulo 256, carry beyond a byte or no borrow, and overflow just
\* when the result of the signed operands does not fit.
THEOREM ArithmeticIsExact == Spec => ArithmeticExact
  <1> DEFINE r == reg["a"]
             v(i) == Operand(i)
             c == Bit(p, FLAG_C)
             sign(i) == IF i.inst = "ADC" THEN 1 ELSE -1
             carry(i) == IF i.inst = "ADC" THEN c ELSE c - 1
             unsigned(i) == r + sign(i) * v(i) + carry(i)
             signed(i) == Signed(r) + sign(i) * Signed(v(i)) + carry(i)
             Exact(i) ==
               /\ (reg'["a"] - unsigned(i)) % 256 = 0
               /\ getFlag(p', FLAG_C)
                    = IF i.inst = "ADC" THEN unsigned(i) > 255 ELSE unsigned(i) >= 0
               /\ getFlag(p', FLAG_V) = (signed(i) \notin -128 .. 127)
  <1>1. ASSUME Inv, NEW i \in Program, Add(i)
        PROVE  Exact(i)
    <2>1. /\ r \in Byte /\ v(i) \in Byte /\ c \in {0, 1}
          /\ i.inst \in {"ADC", "SBC"}
      BY <1>1, AddLeaves
    <2>2. CASE i.inst = "ADC"
      <3> DEFINE sum == r + v(i) + c
      <3>1. Addend(i) = v(i)
        BY <2>2 DEF Addend
      <3> HIDE DEF r, v, c
      <3>2. sum \in Int
        BY <2>1, SMT DEF Byte
      <3>3. /\ reg'["a"] = sum % 256
            /\ getFlag(p', FLAG_C) = (sum >= 256)
            /\ getFlag(p', FLAG_V) = Overflows(r, v(i), sum % 256)
        BY <1>1, <2>1, <3>1, <3>2, AddLeaves DEF r, c
      <3>4. /\ ((sum % 256) - sum) % 256 = 0
            /\ Overflows(r, v(i), sum % 256) <=> (Signed(r) + Signed(v(i)) + c \notin -128 .. 127)
        BY <2>1, SumIsExact
      <3>5. Signed(v(i)) \in Int
        BY <2>1, SMT DEF Signed, Byte
      <3>6. unsigned(i) = sum /\ signed(i) = Signed(r) + Signed(v(i)) + c
        BY <2>1, <2>2, <3>5, SMT DEF Byte
      <3> HIDE DEF sum, signed, unsigned
      <3>7. (reg'["a"] - unsigned(i)) % 256 = 0
        BY <3>3, <3>4, <3>6
      <3>8. getFlag(p', FLAG_C) = (unsigned(i) > 255)
        BY <3>2, <3>3, <3>6, SMT
      <3>9. getFlag(p', FLAG_V) = (signed(i) \notin -128 .. 127)
        BY <3>3, <3>4, <3>6 DEF Overflows
      <3>10. QED
        BY <2>2, <3>7, <3>8, <3>9
    <2>3. CASE i.inst = "SBC"
      <3> DEFINE w == 255 - v(i)
                 sum == r + w + c
      <3>1. Addend(i) = w
        BY <2>3 DEF Addend
      <3> HIDE DEF r, v, c
      <3>2. sum \in Int /\ w \in Byte
        BY <2>1, SMTT(30) DEF Byte
      <3>3. /\ reg'["a"] = sum % 256
            /\ getFlag(p', FLAG_C) = (sum >= 256)
            /\ getFlag(p', FLAG_V) = Overflows(r, w, sum % 256)
        <4> HIDE DEF w
        <4>1. QED
          BY <1>1, <2>1, <3>1, <3>2, AddLeaves DEF r, c
      <3>4. /\ ((sum % 256) - sum) % 256 = 0
            /\ Overflows(r, w, sum % 256) <=> (Signed(r) + Signed(w) + c \notin -128 .. 127)
        <4> HIDE DEF w
        <4>1. QED
          BY <2>1, <3>2, SumIsExact
      <3>5. /\ (sum >= 256) <=> (r - v(i) + (c - 1) >= 0)
            /\ Signed(w) = -Signed(v(i)) - 1
            /\ ((sum % 256) - (r - v(i) + (c - 1))) % 256 = 0
        BY <2>1, <3>2, <3>4, DifferenceIsSum
      <3>6. Signed(v(i)) \in Int /\ Signed(r) \in Int
        BY <2>1, SMT DEF Signed, Byte
      <3>7. unsigned(i) = r - v(i) + (c - 1) /\ signed(i) = Signed(r) + Signed(w) + c
        <4> HIDE DEF w
        <4>1. QED
          BY <2>1, <2>3, <3>5, <3>6, SMT DEF Byte
      <3> HIDE DEF sum, signed, unsigned, w
      <3>8. (reg'["a"] - unsigned(i)) % 256 = 0
        BY <3>3, <3>5, <3>7
      <3>9. getFlag(p', FLAG_C) = (unsigned(i) >= 0)
        BY <3>3, <3>5, <3>7
      <3>10. getFlag(p', FLAG_V) = (signed(i) \notin -128 .. 127)
        BY <3>3, <3>4, <3>7 DEF Overflows
      <3>11. QED
        BY <2>3, <3>8, <3>9, <3>10
    <2>4. QED
      BY <2>1, <2>2, <2>3
  <1> DEFINE AllExact ==
               \A i \in Program :
                 Add(i) =>
                   /\ (reg["a"]' - unsigned(i)) % 256 = 0
                   /\ getFlag(p', FLAG_C)
                        = IF i.inst = "ADC" THEN unsigned(i) > 255 ELSE unsigned(i) >= 0
                   /\ getFlag(p', FLAG_V) = (signed(i) \notin -128 .. 127)
  <1>2. Inv /\ [Next]_vars => [AllExact]_vars
    BY <1>1
  <1>3. Spec => [][AllExact]_vars
    <2> HIDE DEF AllExact
    <2>1. QED
      BY <1>2, InitInv, NextInv, PTL DEF Spec
  <1>4. QED
    BY <1>3 DEF ArithmeticExact

-----------------------------------------------------------------------------
(***************************************************************************)
(* Banks.                                                                  *)
(***************************************************************************)

\* A ROM that loadBanked's switch makes visible is one its comment names.
LEMMA VisibleIsDocumented ==
  ASSUME NEW port \in Byte, NEW rom \in Visible(port)
  PROVE  rom \in ROMs /\ DocumentedAt(port, rom)
  <1>1. rom \in ROMs
    BY DEF Visible
  <1>2. port % 8 \in 0 .. 7 /\ port % 4 = (port % 8) % 4
    BY DEF Byte
  <1>3. CASE rom = Chargen
    <2>1. rom # Basic /\ rom # Kernal
      BY <1>3 DEF Basic, Chargen, Kernal
    <2>2. port % 8 \in {1, 2, 3}
      BY <1>3, <2>1 DEF Visible
    <2>3. port % 8 \in 1 .. 3
      BY <2>2
    <2>4. QED
      BY <1>3, <2>1, <2>3, <1>1 DEF DocumentedAt
  <1>4. CASE rom = Basic
    <2>1. rom # Chargen /\ rom # Kernal
      BY <1>4 DEF Basic, Chargen, Kernal
    <2>2. port % 8 \in {3, 7}
      BY <1>4, <2>1 DEF Visible
    <2>3. port % 4 = 3
      BY <1>2, <2>2
    <2>4. QED
      BY <1>4, <2>1, <2>3, <1>1 DEF DocumentedAt
  <1>5. CASE rom = Kernal
    <2>1. rom # Chargen /\ rom # Basic
      BY <1>5 DEF Basic, Chargen, Kernal
    <2>2. port % 8 \in {2, 3, 6, 7}
      BY <1>5, <2>1 DEF Visible
    <2>3. port % 4 \in {2, 3}
      BY <1>2, <2>2
    <2>4. QED
      BY <1>5, <2>1, <2>3, <1>1 DEF DocumentedAt
  <1>6. QED
    BY <1>1, <1>3, <1>4, <1>5 DEF ROMs

\* Whatever a program writes to the port, an address at which the comment above
\* loadBanked names no ROM is read from RAM.
THEOREM RamIsRead == Spec => []RamReadsRam
  <1>1. Inv => RamReadsRam
    <2> SUFFICES ASSUME Inv, NEW addr \in Cells,
                        \A rom \in ROMs :
                          addr \in rom.first .. rom.last => ~DocumentedAt(ram[Port], rom)
                 PROVE  loadBanked(ram[Port], addr) = addr
      BY DEF RamReadsRam
    <2>1. ram[Port] \in Byte
      BY CpuAssumption DEF CpuAssumption, Inv, TypeOK
    <2>2. \A rom \in Mapped(ram[Port], addr) : FALSE
      BY <2>1, VisibleIsDocumented DEF Mapped
    <2>3. QED
      BY <2>2 DEF loadBanked
  <1>2. QED
    BY <1>1, InitInv, NextInv, PTL DEF Spec
=============================================================================
