------------------------------- MODULE MCCpu -------------------------------
(***************************************************************************)
(* Values for model checking the interpreter.                              *)
(***************************************************************************)
EXTENDS CpuCalls, TLC

I(inst, mode, raw) == [inst |-> inst, mode |-> mode, raw |-> raw]

\* Page zero, both ends of the stack, and where each ROM begins.
SmallCells == {0, 1, 2, 3} \cup 256 .. 261 \cup 504 .. 511
              \cup {12288, 28672, 40960, 53248, 57344}

\* A fresh stack, and one near the other end of its page.
Start(a, s) ==
  [reg |-> ("a" :> a @@ "x" :> 3 @@ "y" :> 1 @@ "s" :> s), p |-> 16, pc |-> 2064]
SmallStarts == {Start(128, 255), Start(127, 2)}

SmallProgram ==
  {I("LDA", "imm", 255), I("LDA", "abs", 53248), I("LDX", "imm", 251),
   I("ORA", "indY", 2), I("ADC", "imm", 128), I("SBC", "imm", 127),
   I("CMP", "imm", 128), I("STA", "zpg", 1), I("STA", "absX", 508),
   I("INC", "zpg", 1), I("ROR", "impl", 0), I("DEX", "impl", 0),
   I("TXS", "impl", 0), I("SEC", "impl", 0), I("NOP", "impl", 0),
   I("none", "impl", 0), I("PHP", "impl", 0), I("PHA", "impl", 0),
   I("PLP", "impl", 0), I("PLA", "impl", 0), I("BCC", "rel", 254),
   I("JSR", "abs", 2304), I("JSR", "abs", 65490), I("JMP", "abs", 65490),
   I("JMP", "abs", 2341), I("RTS", "impl", 0)}

TinyProgram == {I("LDX", "imm", 1), I("INC", "zpgX", 1), I("DEC", "zpg", 1)}
=============================================================================
