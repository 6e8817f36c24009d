------------------------------ MODULE MCForth ------------------------------
(***************************************************************************)
(* A machine of 36 bytes for ForthDecompiler: a byte has six values.  The  *)
(* word at 2 is what the dumps differ in; a second word, whose kind varies *)
(* too, is at 14, the word that prints strings at 20, and a variable or a  *)
(* constant without room for its value at 34.                              *)
(***************************************************************************)
EXTENDS ForthDecompiler

MCNative ==
  24 :> "LIT" @@ 25 :> "BRANCH" @@ 26 :> "0BRANCH" @@ 27 :> "LOOP" @@ 28 :> "DO"
    @@ 29 :> "SEMICOLON" @@ 30 :> "COLON_DEF" @@ 31 :> "CONST_DEF"
    @@ 32 :> "VARIABLE_DEF" @@ 33 :> "USE_DEF" @@ 20 :> "STRING" @@ 23 :> "EXEC"

\* The words at even addresses, as bytes.
Image(cells) ==
  [a \in Addr |-> LET w == cells[a \div 2 + 1]
                  IN  IF a % 2 = 0 THEN w % Radix ELSE w \div Radix]

Dump(body, second, last) ==
  Image(<<0, 30>> \o body \o <<29>> \o second \o <<30, 29, 0, 24, 26, 28, 30, last>>)

\* Bodies that call, and bodies that branch (as offsets, 32 is -4, 28 is -8).
Calls == {<<a, b, c, 2>> : a, b \in {14, 2, 20, 24, 34}, c \in {14, 34}}
Jumps == [1 .. 4 -> {26, 25, 27, 28, 6, 32}]
Seconds == {<<30, 2, 29>>, <<30, 34, 29>>, <<31, 4, 0>>, <<33, 24, 14>>, <<32, 2, 3>>}

Dumps ==
  {Dump(b, s, l) : b \in Calls, s \in Seconds, l \in {31, 32}}
    \cup {Dump(b, <<30, 3, 29>>, 33) : b \in Jumps}

Init == \E d \in Dumps : DecompileInit(d, 2, {Line(2, "main"), Line(14, "")})

Spec == Init /\ [][DecompileNext]_decompileVars /\ WF_decompileVars(DecompileNext)
=============================================================================
