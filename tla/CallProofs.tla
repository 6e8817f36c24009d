----------------------------- MODULE CallProofs -----------------------------
(***************************************************************************)
(* Proofs that the stack gives back what was pushed, for every program,    *)
(* every set of cells and every limit.                                     *)
(***************************************************************************)
EXTENDS CpuProofs, CpuCalls

\* Where an item's bytes are, and what they say.
Remembers(item) ==
  /\ item.level \in Nat /\ item.level <= 255
  /\ reg["s"] <= item.level - item.size
  /\ 256 + item.level \in Cells
  /\ \/ /\ item.kind = "byte" /\ item.size = 1
        /\ ram[256 + item.level] = item.value
     \/ /\ item.kind = "call" /\ item.size = 2 /\ item.level >= 2
        /\ 255 + item.level \in Cells
        /\ item.value \in Word
        /\ ram[255 + item.level] + 256 * ram[256 + item.level] = (item.value - 1) % 65536

CallInv == Inv /\ (state = "running" => \A item \in items : Remembers(item))

LEMMA StackRange ==
  ASSUME Inv
  PROVE  reg["s"] \in Nat /\ reg["s"] <= 255
<1>1. reg["s"] \in Byte
  BY DEF Inv, TypeOK, Registers
<1>. QED
  BY <1>1 DEF Byte

\* The return address of a word that was pushed.
LEMMA OneBefore ==
  ASSUME NEW w \in Word
  PROVE  (((w - 1) % 65536) + 1) % 65536 = w
<1>1. w \in Int /\ w >= 0 /\ w <= 65535
  BY SMTT(30) DEF Word
<1>2. CASE w = 0
  BY <1>2
<1>3. CASE w > 0
  <2>1. (w - 1) % 65536 = w - 1 /\ w % 65536 = w
    BY <1>1, <1>3
  <2>. QED
    BY <1>1, <2>1
<1>. QED
  BY <1>1, <1>2, <1>3

LEMMA WordSplits ==
  ASSUME NEW w \in Word
  PROVE  (w % 256) + 256 * (w \div 256) = w
<1>1. w \in Int
  BY SMTT(30) DEF Word
<1>. QED
  BY <1>1

-----------------------------------------------------------------------------
(***************************************************************************)
(* What an instruction leaves of the stack above the pointer.              *)
(***************************************************************************)
Above(k) == k \in Nat /\ k <= 255 /\ reg["s"] < k /\ 256 + k \in Cells

LEMMA StoreSpares ==
  ASSUME Inv, NEW i \in Program, NEW k, Above(k), k \notin WrittenBy(i),
         i.inst \in {"STA", "STX", "STY", "BIT", "INC", "DEC", "ASL", "LSR", "ROL", "ROR"},
         i.mode # "impl", NEW byte, Writes(i, resolveAddress(i), byte)
  PROVE  ram'[256 + k] = ram[256 + k]
<1>1. WrittenBy(i) = {resolveAddress(i) - 256}
  BY DEF WrittenBy
<1>2. k # resolveAddress(i) - 256 /\ k \in Nat
  BY <1>1 DEF Above
<1>3. 256 + k # resolveAddress(i)
  BY <1>2
<1>. QED
  BY <1>3 DEF Writes, Inv, TypeOK, Above

\* A KERNAL call's own cells are not in the stack's page.
LEMMA RomCallSpares ==
  ASSUME Inv, NEW k, Above(k), NEW mem, NEW s, mem[256 + k] = ram[256 + k],
         romCall(mem, s), state' = "running"
  PROVE  ram'[256 + k] = ram[256 + k]
<1>1. 256 + k \notin KernalCells
  BY DEF KernalCells, Above
<1>2. 256 + k \in Cells
  BY DEF Above
<1>3. \E cells \in [KernalCells -> Byte] :
        ram' = [a \in Cells |-> IF a \in KernalCells THEN cells[a] ELSE mem[a]]
  BY DEF romCall, Fail
<1>. QED
  BY <1>1, <1>2, <1>3

LEMMA StackSpared ==
  ASSUME Inv, NEW i \in Program, Interp(i), state' = "running",
         NEW k, Above(k), k \notin WrittenBy(i)
  PROVE  ram'[256 + k] = ram[256 + k]
<1>1. reg["s"] \in Nat /\ reg["s"] <= 255 /\ k \in Nat /\ reg["s"] < k
  BY StackRange DEF Above
<1>2. CASE UNCHANGED ram
  BY <1>2
<1>3. ASSUME Store(i) \/ Increment(i) PROVE ram'[256 + k] = ram[256 + k]
  <2>1. i.inst \in {"STA", "STX", "STY", "BIT", "INC", "DEC"}
    BY <1>3 DEF Store, Increment
  <2>2. i.mode # "impl"
    BY <2>1, ProgramInstruction, ProgramModes
  <2>. QED
    BY <1>3, <2>1, <2>2, StoreSpares DEF Store, Increment
<1>4. ASSUME Shift(i) PROVE ram'[256 + k] = ram[256 + k]
  <2>1. CASE i.mode = "impl"
    BY <1>4, <2>1 DEF Shift, Sets
  <2>2. CASE i.mode # "impl"
    BY <1>4, <2>2, StoreSpares DEF Shift
  <2>. QED
    BY <2>1, <2>2
<1>5. ASSUME Push(i) PROVE ram'[256 + k] = ram[256 + k]
  <2>1. ram' = [ram EXCEPT ![256 + reg["s"]] = IF i.inst = "PHP" THEN p ELSE reg["a"]]
    BY <1>5 DEF Push, Fail
  <2>2. 256 + k # 256 + reg["s"] /\ 256 + k \in Cells
    BY <1>1 DEF Above
  <2>. QED
    BY <2>1, <2>2 DEF Inv, TypeOK
<1>6. ASSUME JSR(i) PROVE ram'[256 + k] = ram[256 + k]
  <2> DEFINE mem == PushWord((Following(i) - 1) % 65536)
  <2>1. mem[256 + k] = ram[256 + k]
    <3>1. 256 + k # 256 + reg["s"] /\ 256 + k # 255 + reg["s"] /\ 256 + k \in Cells
      BY <1>1 DEF Above
    <3>. QED
      BY <3>1 DEF PushWord, Inv, TypeOK
  <2>2. ram' = mem \/ romCall(mem, reg["s"] - 2)
    BY <1>6 DEF JSR, Fail
  <2>. HIDE DEF mem
  <2>. QED
    BY <2>1, <2>2, RomCallSpares
<1>7. ASSUME JMP(i) PROVE ram'[256 + k] = ram[256 + k]
  BY <1>2, <1>7, RomCallSpares DEF JMP
<1>8. Load(i) \/ Bitwise(i) \/ Add(i) \/ Count(i) \/ Transfer(i) => UNCHANGED ram
  BY DEF Load, Bitwise, Add, Count, Transfer, Sets
<1>9. Compare(i) \/ SetFlag(i) \/ NOP(i) \/ Branch(i) \/ Unsupported(i) => UNCHANGED ram
  BY DEF Compare, SetFlag, NOP, Branch, Unsupported, Fail
<1>10. Pull(i) \/ RTS(i) => UNCHANGED ram
  BY DEF Pull, RTS, Fail
<1>. QED
  BY <1>2, <1>3, <1>4, <1>5, <1>6, <1>7, <1>8, <1>9, <1>10 DEF Interp

-----------------------------------------------------------------------------
(***************************************************************************)
(* What was pushed stays remembered.                                       *)
(***************************************************************************)
LEMMA OldItemStays ==
  ASSUME Inv, Inv', NEW i \in Program, Interp(i), state' = "running",
         NEW item, Remembers(item), Live(i, item)
  PROVE  Remembers(item)'
<1>1. /\ reg["s"] \in Nat /\ item.level \in Nat /\ item.level <= 255
      /\ reg["s"] <= item.level - item.size
      /\ 256 + item.level \in Cells
      /\ item.size \in {1, 2}
  BY StackRange DEF Remembers
<1>2. reg'["s"] <= item.level - item.size
  BY DEF Live
<1>3. ASSUME NEW k \in Nat, k <= item.level, k > item.level - item.size, 256 + k \in Cells
      PROVE  ram'[256 + k] = ram[256 + k]
  <2>1. k \in item.level - item.size + 1 .. item.level
    BY <1>1, <1>3
  <2>2. k \notin WrittenBy(i)
    BY <2>1 DEF Live
  <2>3. Above(k)
    BY <1>1, <1>3 DEF Above
  <2>. QED
    BY <2>2, <2>3, StackSpared
<1>4. ram'[256 + item.level] = ram[256 + item.level]
  BY <1>1, <1>3
<1>5. CASE item.kind = "byte" /\ item.size = 1
  BY <1>1, <1>2, <1>4, <1>5 DEF Remembers
<1>6. CASE item.kind = "call" /\ item.size = 2
  <2>1. item.level >= 2 /\ 255 + item.level \in Cells
    BY <1>6 DEF Remembers
  <2>2. ram'[256 + (item.level - 1)] = ram[256 + (item.level - 1)]
    <3>1. item.level - 1 \in Nat /\ 256 + (item.level - 1) = 255 + item.level
      BY <1>1, <2>1
    <3>. QED
      BY <1>1, <1>3, <1>6, <2>1, <3>1
  <2>3. 256 + (item.level - 1) = 255 + item.level
    BY <1>1
  <2>4. ram'[255 + item.level] = ram[255 + item.level]
    BY <2>2, <2>3
  <2>. QED
    BY <1>1, <1>2, <1>4, <1>6, <2>1, <2>4 DEF Remembers
<1>. QED
  BY <1>5, <1>6 DEF Remembers

\* Which rule of the interpreter an instruction of the stack comes under.
LEMMA StackInstruction ==
  ASSUME NEW i, Interp(i)
  PROVE  /\ i.inst = "JSR" => JSR(i)
         /\ i.inst \in {"PHA", "PHP"} => Push(i)
<1>1. /\ DOMAIN Transfers = {"TYA", "TAY", "TXA", "TAX", "TXS", "TSX"}
      /\ DOMAIN FlagsSet = {"CLC", "SEC", "CLV", "CLD", "SED", "CLI", "SEI"}
      /\ DOMAIN Condition = {"BPL", "BMI", "BVS", "BCC", "BCS", "BNE", "BEQ"}
  BY DEF Transfers, FlagsSet, Condition
<1>2. \/ JSR(i) \/ Push(i)
      \/ i.inst \notin {"JSR", "PHA", "PHP"}
  BY <1>1 DEF Interp, Load, Bitwise, Add, Compare, Store, Increment, Shift, Count, Transfer,
              SetFlag, NOP, Unsupported, Pull, Branch, JMP, RTS
<1>3. (JSR(i) => i.inst = "JSR") /\ (Push(i) => i.inst \in {"PHA", "PHP"})
  BY DEF JSR, Push
<1>. QED
  BY <1>2, <1>3

LEMMA PushedByteRemembered ==
  ASSUME Inv, Inv', NEW i \in Program, Interp(i), i.inst \in {"PHA", "PHP"},
         state' = "running", NEW item,
         item = Pushed(IF i.inst = "PHP" THEN p ELSE reg["a"]), Live(i, item)
  PROVE  Remembers(item)'
<1>1. Push(i)
  BY StackInstruction
<1>2. /\ 256 + reg["s"] \in Cells
      /\ ram' = [ram EXCEPT ![256 + reg["s"]] = IF i.inst = "PHP" THEN p ELSE reg["a"]]
  BY <1>1 DEF Push, Fail
<1>3. ram'[256 + reg["s"]] = IF i.inst = "PHP" THEN p ELSE reg["a"]
  BY <1>2 DEF Inv, TypeOK
<1>4. reg["s"] \in Nat /\ reg["s"] <= 255
  BY StackRange
<1>5. /\ item.kind = "byte" /\ item.level = reg["s"] /\ item.size = 1
      /\ item.value = IF i.inst = "PHP" THEN p ELSE reg["a"]
  BY DEF Pushed
<1>6. reg'["s"] <= item.level - item.size
  BY DEF Live
<1>. QED
  BY <1>2, <1>3, <1>4, <1>5, <1>6 DEF Remembers

LEMMA CallRemembered ==
  ASSUME Inv, Inv', NEW i \in Program, Interp(i), i.inst = "JSR",
         state' = "running", NEW item, item = Call(i), Live(i, item)
  PROVE  Remembers(item)'
<1> DEFINE s == reg["s"]
           word == (Following(i) - 1) % 65536
           mem == PushWord(word)
<1>1. JSR(i)
  BY StackInstruction
<1>2. s \in Nat /\ s <= 255 /\ Following(i) \in Word
  BY StackRange, FollowingRange DEF Inv, TypeOK
<1>3. /\ item.kind = "call" /\ item.level = s /\ item.size = 2
      /\ item.value = Following(i)
  BY DEF Call
<1>4. reg'["s"] <= s - 2
  BY <1>3 DEF Live
<1>5. /\ s >= 2 /\ 255 + s \in Cells /\ 256 + s \in Cells
      /\ IF i.raw >= KernalStart THEN romCall(mem, s - 2) ELSE ram' = mem
  BY <1>1, <1>2 DEF JSR, Fail
<1>6. ~(i.raw >= KernalStart)
  <2>1. SUFFICES ASSUME romCall(mem, s - 2) PROVE FALSE
    BY <1>5
  <2>2. reg'["s"] = (s - 2) + 2
    BY <2>1 DEF romCall, Fail, Inv, TypeOK, Registers
  <2>. QED
    BY <1>2, <1>4, <2>2
<1>7. ram' = mem
  BY <1>5, <1>6
<1>8. mem[256 + s] = word \div 256 /\ mem[255 + s] = word % 256
  <2>1. 255 + s # 256 + s
    BY <1>2
  <2>. HIDE DEF word
  <2>. QED
    BY <1>5, <2>1 DEF PushWord, Inv, TypeOK
<1>9. word \in Word
  <2>1. Following(i) - 1 \in Int
    BY <1>2, WordOfSum
  <2>. QED
    BY <2>1, WordOfInt
<1>10. (word % 256) + 256 * (word \div 256) = word
  <2>. HIDE DEF word
  <2>. QED
    BY <1>9, WordSplits
<1>11. ram'[255 + s] + 256 * ram'[256 + s] = word
  <2>. HIDE DEF word, mem
  <2>. QED
    BY <1>7, <1>8, <1>10
<1>. QED
  <2>. HIDE DEF mem
  <2>. QED
    BY <1>2, <1>3, <1>4, <1>5, <1>11 DEF Remembers
-----------------------------------------------------------------------------
(***************************************************************************)
(* The invariant and what follows from it.                                 *)
(***************************************************************************)
LEMMA InstructionFetched ==
  ASSUME NEW i, Interp(i)
  PROVE  Fetch
<1>1. Load(i) \/ Bitwise(i) \/ Add(i) \/ Compare(i) \/ Store(i) \/ Increment(i) => Fetch
  BY DEF Load, Bitwise, Add, Compare, Store, Increment
<1>2. Shift(i) \/ Count(i) \/ Transfer(i) \/ SetFlag(i) \/ NOP(i) \/ Unsupported(i) => Fetch
  BY DEF Shift, Count, Transfer, SetFlag, NOP, Unsupported
<1>3. Push(i) \/ Pull(i) \/ Branch(i) \/ JSR(i) \/ JMP(i) \/ RTS(i) => Fetch
  BY DEF Push, Pull, Branch, JSR, JMP, RTS
<1>. QED
  BY <1>1, <1>2, <1>3 DEF Interp

LEMMA CallStep == CallInv /\ [CallNext]_callVars => CallInv'
<1> SUFFICES ASSUME CallInv, [CallNext]_callVars PROVE CallInv'
  OBVIOUS
<1>1. Inv /\ Inv'
  <2>1. [Next]_vars
    BY DEF CallNext, callVars, Next
  <2>. QED
    BY <2>1, NextInv DEF CallInv
<1>2. SUFFICES ASSUME state' = "running", NEW item \in items' PROVE Remembers(item)'
  BY <1>1 DEF CallInv
<1>3. CASE UNCHANGED callVars
  BY <1>2, <1>3 DEF CallInv, Remembers, callVars, vars
<1>4. ASSUME NEW i \in Program, Interp(i), Track(i) PROVE Remembers(item)'
  <2>1. state = "running"
    <3>1. Fetch
      BY <1>4, InstructionFetched
    <3>. QED
      BY <3>1 DEF Fetch, Fetching
  <2>2. /\ Live(i, item)
        /\ \/ item \in items
           \/ i.inst = "JSR" /\ item = Call(i)
           \/ i.inst \in {"PHA", "PHP"} /\ item = Pushed(IF i.inst = "PHP" THEN p ELSE reg["a"])
    BY <1>2, <1>4 DEF Track
  <2>3. CASE item \in items
    BY <1>1, <1>2, <1>4, <2>1, <2>2, <2>3, OldItemStays DEF CallInv
  <2>. QED
    BY <1>1, <1>2, <1>4, <2>2, <2>3, CallRemembered, PushedByteRemembered
<1>5. state' = "running" => \/ UNCHANGED callVars
                            \/ \E i \in Program : Interp(i) /\ Track(i)
  BY DEF CallNext, ReachForth, TooManyInstructions
<1>. QED
  BY <1>2, <1>3, <1>4, <1>5

LEMMA CallStart == CallInit => CallInv
BY InitInv DEF CallInit, CallInv

\* The return address that a live call left on the stack.
LEMMA ReturnsBehind ==
  ASSUME CallInv, state = "running", NEW call \in OnTop("call")
  PROVE  ReturnAddress(ram, reg["s"]) = call.value /\ reg["s"] + 2 = call.level
<1>1. call \in items /\ call.kind = "call" /\ call.level - call.size = reg["s"]
  BY DEF OnTop
<1>2. Remembers(call)
  BY <1>1 DEF CallInv
<1>3. /\ call.level \in Nat /\ call.size = 2 /\ call.value \in Word
      /\ ram[255 + call.level] + 256 * ram[256 + call.level] = (call.value - 1) % 65536
  BY <1>1, <1>2 DEF Remembers
<1>4. reg["s"] \in Nat
  BY <1>2, StackRange DEF CallInv
<1>5. 257 + reg["s"] = 255 + call.level /\ 258 + reg["s"] = 256 + call.level
  BY <1>1, <1>3, <1>4
<1>6. ReturnAddress(ram, reg["s"]) = (((call.value - 1) % 65536) + 1) % 65536
  BY <1>3, <1>5 DEF ReturnAddress
<1>. QED
  BY <1>1, <1>3, <1>4, <1>6, OneBefore

LEMMA RomCallReturns ==
  ASSUME Inv, NEW mem, NEW s \in Nat, romCall(mem, s), state' = "running", state = "running"
  PROVE  pc' = ReturnAddress(mem, s) /\ reg'["s"] = s + 2
<1>1. ~Fail
  BY DEF Fail
<1>2. \E a : reg' = [reg EXCEPT !["a"] = a, !["s"] = s + 2]
  BY <1>1 DEF romCall
<1>. QED
  BY <1>1, <1>2 DEF romCall, Inv, TypeOK, Registers

\* Whatever a subroutine pushes and pulls, calls, stores elsewhere and does to
\* the stack pointer, its RTS, or its jump into the KERNAL, goes behind the call
\* once the pointer is where the call left it; and a call of the KERNAL returns
\* with the stack as it was.
THEOREM CallsReturn == CallSpec => CallsComeBack
<1>1. ASSUME CallInv, [CallNext]_callVars
      PROVE  [\A i \in Program :
                state' = "running" =>
                  /\ RTS(i) \/ (JMP(i) /\ resolveAddress(i) >= KernalStart) =>
                       \A call \in OnTop("call") : pc' = call.value /\ reg'["s"] = call.level
                  /\ JSR(i) /\ i.raw >= KernalStart =>
                       pc' = Following(i) /\ reg'["s"] = reg["s"]]_callVars
  <2> SUFFICES ASSUME NEW i \in Program, state' = "running"
               PROVE  /\ RTS(i) \/ (JMP(i) /\ resolveAddress(i) >= KernalStart) =>
                           \A call \in OnTop("call") : pc' = call.value /\ reg'["s"] = call.level
                      /\ JSR(i) /\ i.raw >= KernalStart =>
                           pc' = Following(i) /\ reg'["s"] = reg["s"]
    OBVIOUS
  <2>1. Inv /\ reg["s"] \in Nat
    BY <1>1, StackRange DEF CallInv
  <2>2. ASSUME RTS(i) \/ (JMP(i) /\ resolveAddress(i) >= KernalStart), NEW call \in OnTop("call")
        PROVE  pc' = call.value /\ reg'["s"] = call.level
    <3>1. state = "running"
      BY <2>2 DEF RTS, JMP, Fetch, Fetching
    <3>2. ReturnAddress(ram, reg["s"]) = call.value /\ reg["s"] + 2 = call.level
      BY <1>1, <3>1, ReturnsBehind
    <3>3. CASE RTS(i)
      BY <2>1, <3>2, <3>3 DEF RTS, Fail, Inv, TypeOK, Registers
    <3>4. CASE JMP(i) /\ resolveAddress(i) >= KernalStart
      <4>1. romCall(ram, reg["s"])
        BY <3>4 DEF JMP
      <4>. QED
        BY <2>1, <3>1, <3>2, <4>1, RomCallReturns
    <3>. QED
      BY <2>2, <3>3, <3>4
  <2>3. ASSUME JSR(i), i.raw >= KernalStart
        PROVE  pc' = Following(i) /\ reg'["s"] = reg["s"]
    <3> DEFINE s == reg["s"]
               word == (Following(i) - 1) % 65536
               mem == PushWord(word)
    <3>1. state = "running"
      BY <2>3 DEF JSR, Fetch, Fetching
    <3>2. s >= 2 /\ 255 + s \in Cells /\ 256 + s \in Cells /\ romCall(mem, s - 2)
      BY <2>1, <2>3 DEF JSR, Fail
    <3>3. s - 2 \in Nat /\ (s - 2) + 2 = s /\ 257 + (s - 2) = 255 + s /\ 258 + (s - 2) = 256 + s
      BY <2>1, <3>2
    <3>4. Following(i) \in Word
      BY <2>1, FollowingRange DEF Inv, TypeOK
    <3>5. mem[256 + s] = word \div 256 /\ mem[255 + s] = word % 256
      <4>1. 255 + s # 256 + s
        BY <2>1
      <4>. HIDE DEF word
      <4>. QED
        BY <2>1, <3>2, <4>1 DEF PushWord, Inv, TypeOK
    <3>6. word \in Word
      <4>1. Following(i) - 1 \in Int
        BY <3>4, WordOfSum
      <4>. QED
        BY <4>1, WordOfInt
    <3>7. (word % 256) + 256 * (word \div 256) = word
      <4>. HIDE DEF word
      <4>. QED
        BY <3>6, WordSplits
    <3>8. ReturnAddress(mem, s - 2) = (word + 1) % 65536
      <4>. HIDE DEF word, mem, s
      <4>. QED
        BY <3>3, <3>5, <3>7 DEF ReturnAddress
    <3>9. (word + 1) % 65536 = Following(i)
      BY <3>4, OneBefore
    <3>10. pc' = ReturnAddress(mem, s - 2) /\ reg'["s"] = (s - 2) + 2
      <4>. HIDE DEF mem, s
      <4>. QED
        BY <2>1, <3>1, <3>2, <3>3, RomCallReturns
    <3>. QED
      <4>. HIDE DEF mem, word
      <4>. QED
        BY <3>3, <3>8, <3>9, <3>10
  <2>. QED
    BY <2>2, <2>3
<1>. QED
  BY <1>1, CallStart, CallStep, PTL DEF CallSpec, CallsComeBack

\* A pull gets the byte of the push it belongs to, however many pushes, calls
\* and moves of the stack pointer were between them; PLP restores every flag.
THEOREM BytesReturn == CallSpec => BytesComeBack
<1>1. ASSUME CallInv, [CallNext]_callVars
      PROVE  [\A i \in Program :
                Pull(i) /\ state' = "running" =>
                  \A item \in OnTop("byte") :
                    (IF i.inst = "PLA" THEN reg["a"]' ELSE p') = item.value]_callVars
  <2> SUFFICES ASSUME NEW i \in Program, Pull(i), state' = "running",
                      NEW item \in OnTop("byte")
               PROVE  (IF i.inst = "PLA" THEN reg["a"]' ELSE p') = item.value
    OBVIOUS
  <2>1. state = "running"
    BY DEF Pull, Fetch, Fetching
  <2>2. item \in items /\ item.kind = "byte" /\ item.level - item.size = reg["s"]
    BY DEF OnTop
  <2>3. item.level \in Nat /\ item.size = 1 /\ ram[256 + item.level] = item.value
    BY <1>1, <2>1, <2>2 DEF CallInv, Remembers
  <2>4. reg["s"] \in Nat
    BY <1>1, StackRange DEF CallInv
  <2>5. 257 + reg["s"] = 256 + item.level
    BY <2>2, <2>3, <2>4
  <2>6. ram[257 + reg["s"]] = item.value
    BY <2>3, <2>5
  <2>. QED
    BY <1>1, <2>6 DEF Pull, Fail, CallInv, Inv, TypeOK, Registers
<1>. QED
  BY <1>1, CallStart, CallStep, PTL DEF CallSpec, BytesComeBack
=============================================================================
