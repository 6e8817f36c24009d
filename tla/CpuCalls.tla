------------------------------ MODULE CpuCalls ------------------------------
(***************************************************************************)
(* What the stack promises a program: whatever is pushed comes back when   *)
(* the stack is at the same level again.  The history variable items       *)
(* remembers what was pushed; the code has nothing of the kind.            *)
(***************************************************************************)
EXTENDS Cpu6502

VARIABLE items  \* the live pushes

callVars == <<vars, items>>

\* level is the stack pointer before the push; a call pushes where to return.
Call(i) == [kind |-> "call", level |-> reg["s"], size |-> 2, value |-> Following(i)]
Pushed(byte) == [kind |-> "byte", level |-> reg["s"], size |-> 1, value |-> byte]

\* An item lives until the stack pointer rises over it or the program writes into
\* its bytes itself.
WrittenBy(i) ==
  IF i.inst \in {"STA", "STX", "STY", "BIT", "INC", "DEC", "ASL", "LSR", "ROL", "ROR"}
       /\ i.mode # "impl"
  THEN {resolveAddress(i) - 256} ELSE {}
Live(i, item) ==
  /\ reg'["s"] <= item.level - item.size
  /\ WrittenBy(i) \cap (item.level - item.size + 1 .. item.level) = {}

Track(i) ==
  LET pushed == CASE i.inst = "JSR" -> {Call(i)}
                  [] i.inst = "PHA" -> {Pushed(reg["a"])}
                  [] i.inst = "PHP" -> {Pushed(p)}
                  [] OTHER -> {}
  IN  items' = {item \in items \cup pushed : Live(i, item)}

CallInit == Init /\ items = {}
CallNext ==
  \/ \E i \in Program : Interp(i) /\ Track(i)
  \/ (ReachForth \/ TooManyInstructions) /\ UNCHANGED items
CallSpec == CallInit /\ [][CallNext]_callVars

\* The item on top of the stack, if the stack pointer is just under it.
OnTop(kind) == {item \in items : item.kind = kind /\ item.level - item.size = reg["s"]}

\* A subroutine returns behind its call, by RTS or by a jump into the KERNAL,
\* whatever it pushed and pulled, called and moved the stack pointer meanwhile;
\* a call of the KERNAL itself comes back with the stack as it was.
CallsComeBack ==
  [][\A i \in Program :
       state' = "running" =>
         /\ RTS(i) \/ (JMP(i) /\ resolveAddress(i) >= KernalStart) =>
              \A call \in OnTop("call") : pc' = call.value /\ reg'["s"] = call.level
         /\ JSR(i) /\ i.raw >= KernalStart =>
              pc' = Following(i) /\ reg'["s"] = reg["s"]]_callVars

\* A byte that was pushed is pulled again, flags by PLP with all their bits.
BytesComeBack ==
  [][\A i \in Program :
       Pull(i) /\ state' = "running" =>
         \A item \in OnTop("byte") :
           (IF i.inst = "PLA" THEN reg["a"]' ELSE p') = item.value]_callVars
=============================================================================
