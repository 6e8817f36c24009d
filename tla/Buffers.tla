------------------------------ MODULE Buffers ------------------------------
(***************************************************************************)
(* The growable buffer of emu6502/file.c and the file that readFile reads  *)
(* into it.  Capacities are unsigned and wrap; growth goes a block at a    *)
(* time until the capacity asked for is reached.                           *)
(***************************************************************************)
EXTENDS Integers

CONSTANTS
  Block,  \* FILE_BLOCK_SIZE, which is SECTOR_SIZE (256)
  Wrap    \* values of an unsigned (2^32)

ASSUME BuffersAssumption ==
  /\ Block \in Nat \ {0}
  /\ Wrap \in Nat
  /\ Wrap > 2 * Block

VARIABLES
  buf,   \* cap and len of the buffer
  want,  \* the capacity the current bufEnsureCap was asked for
  rest   \* bytes of the file that readFile has not read yet

bufferVars == <<buf, want, rest>>

Unsigned == 0 .. Wrap - 1

bufCreate == [cap |-> Block, len |-> 0]

\* Wrong: room for what the buffer holds is enough.
RoomForLength == buf.cap >= buf.len

HasRoom == buf.cap >= want

bufEnsureExtraCap(extra) ==
  /\ want' = (buf.len + extra) % Wrap
  /\ UNCHANGED <<buf, rest>>

\* One turn of bufEnsureCap's loop.
Grow ==
  /\ ~HasRoom
  /\ buf' = [buf EXCEPT !.cap = (@ + Block) % Wrap]
  /\ UNCHANGED <<want, rest>>

Least(a, b) == IF a < b THEN a ELSE b

\* fread of a block behind what the buffer holds.
Fread ==
  /\ HasRoom
  /\ buf' = [buf EXCEPT !.len = (@ + Least(Block, rest)) % Wrap]
  /\ rest' = rest - Least(Block, rest)

\* The room asked for has wrapped to none, and the block goes past the end.
FreadOverruns == HasRoom /\ buf.len + Least(Block, rest) > buf.cap
=============================================================================
