---------------------------- MODULE MemoryBanks ----------------------------
(***************************************************************************)
(* What loadBanked of emu6502/emmain.c reads for the six ways the low bits *)
(* of address 1 map the ROMs.  A byte of the machine is named by its       *)
(* distance from ram[0]: RAM fills the first 64K of the structure and the  *)
(* three ROM images follow it without a gap.                               *)
(***************************************************************************)
EXTENDS Integers

Byte == 0 .. 255
Word == 0 .. 65535

\* Where each ROM is mapped, and where its image starts in the machine.
Chargen == [first |-> 53248, last |-> 57343, image |-> 65536]
Basic == [first |-> 40960, last |-> 49151, image |-> 69632]
Kernal == [first |-> 57344, last |-> 65535, image |-> 77824]
ROMs == {Chargen, Basic, Kernal}

\* Wrong: BASIC is left visible when the KERNAL alone should be.
BasicStaysVisible(port) ==
  {rom \in ROMs : port % 8 \in IF rom = Chargen THEN {1, 2, 3} ELSE {2, 3, 6, 7}}

\* The ROMs that the switch makes visible for each value of the three bits.
Visible(port) ==
  {rom \in ROMs :
     CASE rom = Chargen -> port % 8 \in {1, 2, 3}
       [] rom = Basic -> port % 8 \in {3, 7}
       [] rom = Kernal -> port % 8 \in {2, 3, 6, 7}}

Mapped(port, addr) == {rom \in Visible(port) : addr \in rom.first .. rom.last}

\* ROM_RANGE subtracts where the ROM is mapped twice over; the offset is a word,
\* the index an int, so nothing wraps.
RomOffset(rom, addr) ==
  LET offset == (addr - rom.first) % 65536
  IN  rom.image + (offset - rom.first)

\* The byte that is read.
loadBanked(port, addr) ==
  IF \E rom \in Mapped(port, addr) : TRUE
  THEN RomOffset(CHOOSE rom \in Mapped(port, addr) : TRUE, addr)
  ELSE addr
=============================================================================
