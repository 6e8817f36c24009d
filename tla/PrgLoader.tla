----------------------------- MODULE PrgLoader -----------------------------
(***************************************************************************)
(* The files the emulator starts from: readFile of emu6502/file.c reads    *)
(* one, and loadPRG, loadRegisters, loadRAM and mountDisk of               *)
(* emu6502/emmain.c take it over.                                          *)
(***************************************************************************)
EXTENDS Buffers

CONSTANTS
  Page,      \* 0x100
  RamSize,   \* RAM_SIZE (0x10000)
  FileSizes, \* lengths of files
  ExactSize  \* the length of a registers file (7), of RAM and of a disk image

ASSUME PrgAssumption ==
  /\ Page \in Nat \ {0} /\ RamSize \in Nat /\ RamSize % Page = 0
  /\ FileSizes \subseteq Nat
  /\ ExactSize \in [{"registers", "ram", "disk"} -> Nat]

VARIABLES
  kind,    \* what the file is loaded as: "prg", or a file of a known length
  size,    \* length of the file
  origin,  \* the load address in its first two bytes
  loaded,  \* the addresses filled, and X:Y
  stage    \* of loading

prgVars == <<bufferVars, kind, size, origin, loaded, stage>>

Nothing == [from |-> 0, to |-> 0, xy |-> 0]

LoadEnded == {"loaded", "refused", "overrun"}

-----------------------------------------------------------------------------
\* readFile asks for room for one more block.
AskRoom ==
  /\ stage = "ask"
  /\ bufEnsureExtraCap(Block)
  /\ stage' = "read"
  /\ UNCHANGED <<kind, size, origin, loaded>>

GrowBuffer ==
  /\ stage = "read"
  /\ Grow
  /\ UNCHANGED <<kind, size, origin, loaded, stage>>

\* A block that comes short is the last.
ReadBlock ==
  /\ stage = "read"
  /\ Fread
  /\ stage' = IF rest < Block THEN "load" ELSE "ask"
  /\ UNCHANGED <<want, kind, size, origin, loaded>>

\* Written behind the end, the program may crash at once instead of going on.
ReadOverruns ==
  /\ stage = "read"
  /\ FreadOverruns
  /\ stage' = "overrun"
  /\ UNCHANGED <<bufferVars, kind, size, origin, loaded>>

\* The address behind the data, rounded up to a page.
Top ==
  LET top == origin + buf.len - 2
  IN  IF top % Page # 0 THEN (top \div Page + 1) * Page ELSE top

\* Wrong: the data is checked against RAM as if it began at 0.
FitsByLength == buf.len >= 2 /\ buf.len - 2 < RamSize

Fits == buf.len >= 2 /\ Top < RamSize

loadPRG ==
  /\ stage = "load" /\ kind = "prg"
  /\ IF Fits
     THEN /\ loaded' = [from |-> origin, to |-> origin + buf.len - 2, xy |-> Top]
          /\ stage' = "loaded"
     ELSE stage' = "refused" /\ UNCHANGED loaded
  /\ UNCHANGED <<bufferVars, kind, size, origin>>

\* The other files are taken over if they have the length they must have.
loadExact ==
  /\ stage = "load" /\ kind # "prg"
  /\ IF buf.len = ExactSize[kind]
     THEN loaded' = [Nothing EXCEPT !.to = buf.len] /\ stage' = "loaded"
     ELSE stage' = "refused" /\ UNCHANGED loaded
  /\ UNCHANGED <<bufferVars, kind, size, origin>>

PrgInit(as) ==
  /\ kind = as
  /\ buf = bufCreate /\ want = 0
  /\ size \in FileSizes /\ rest = size
  /\ origin \in 0 .. RamSize - 1
  /\ loaded = Nothing
  /\ stage = "ask"

PrgNext ==
  \/ AskRoom \/ GrowBuffer \/ ReadBlock \/ ReadOverruns
  \/ loadPRG \/ loadExact

-----------------------------------------------------------------------------
\* The files that bufEnsureCap counts right.  readFile refuses no longer one:
\* its length and a block wrap, and no room is made for the block.
Countable == size <= Wrap - Block

\* A countable file is never read beyond what has been allocated for it.
BufferSound ==
  /\ buf \in [cap : Unsigned, len : Unsigned]
  /\ Countable => buf.len <= buf.cap /\ stage # "overrun"

\* A countable file ends up in the emulator whole: a program in RAM, where none
\* of it wraps around the end and X:Y is a page boundary at or behind its end,
\* and any other file only when it has its length.
PrgWhole ==
  stage = "loaded" /\ Countable =>
    /\ buf.len = size
    /\ kind = "prg" =>
         /\ loaded.to - loaded.from = size - 2
         /\ loaded.to < RamSize
         /\ loaded.xy \in loaded.to .. loaded.to + Page - 1
         /\ loaded.xy % Page = 0
    /\ kind # "prg" => size = ExactSize[kind]
=============================================================================
