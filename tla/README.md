# retrotools: formal models

retrotools is a collection of tools for old machines. Its core is `emu6502`, an
emulator in C that runs a 6502 program in 64K of RAM and, whenever the program
jumps into the C64's ROM, carries the KERNAL call out in C; the serial calls end
in an emulated 1541 disk drive. Around it stand a loader and a decompiler for a
Forth system kept on a C64 disk, older and newer versions of the interpreter in
Lua and Rust, and readers of C64 and Apple II disk images.

This directory holds TLA+ modules for the parts that keep state, TLC
configurations that check them on small instances, and TLAPS proofs.

## Inventory

| Part | Source | State | Operations | What makes it correct |
|---|---|---|---|---|
| KERNAL calls | `emu6502/emromc64.c` | logical file table (LDTND, LAT, FAT, SAT), LA/FA/SA, name, DFLTN/DFLTO, STATUS, carry, serial bus address | `emulateC64ROM` and its 19 calls | the table is a map from numbers to devices; OPEN is all or nothing; CLOSE drops the file it names; the bus is released; errors are reported |
| 1541 drive | `emu6502/emdisk.c` | command buffer, four sector buffers with pointer and channel, secondary address | LISTEN, SECOND, CIOUT, UNLSN, TKSA, ACPTR, drive commands, OPEN | channels do not disturb each other; buffers neither stolen nor lost one by one; pointers stay inside |
| 6502 interpreter | `emu6502/emmain.c` | registers, stack page, instruction counter | one instruction; push/pull; jumps into the ROM | arithmetic and flags as on the chip; stack balanced around KERNAL calls |
| Memory banks | `emmain.c` 165-243 | banked ROM images | `loadBanked`, `load` | a load reads the byte of the bank that is mapped there |
| Hooks | `emmain.c` 825-926 | hook table, lookup table | register, sort, build, look up, run | no hook runs at another's address, none that should run is passed by |
| Loading | `emmain.c` 1020-1132, `file.c` | the file read, RAM, mounted image | `readFile`, `loadPRG`, `loadRegisters`, `loadRAM`, `mountDisk` | a file is taken over whole and inside RAM, or refused |
| ECA loader | `ecaloader.c`, `ecalabels.c` | atoms: what was read at each address of a bytecode | hook callback, exit handler | the disassembly accounts for every byte read |
| Forth decompiler | `forth_decompiler.c` | type of each byte of a dump, references of two rounds, labels, the labels file | read labels, scan, label, write | terminates; nothing found is dropped; names survive a run |
| Buffers | `file.c` | length, capacity | ensure, read | never filled beyond the capacity |
| Disk images | `emdisk.c` 48-62, 488-607, `trackinfo.c`, `c64disk.lua` | a walk over sectors | directory, file | ends; every file of the directory once |
| Disk commands | `emdisk.c` 200-308 | text and arguments | argument parsers | the arguments are the numbers sent |
| Apple diskettes | `apple2/diskdump.c` | directory sectors, a walk over lists, files written | scan, print, extract | each file whole, but for what a failure that is ignored has lost; ends |
| Other interpreters | `c64/lua/emu6502.lua`, `rust6502/src` | as the C one | as the C one | agree with the chip |
| Rust C64 bus | `rust6502/src/c64/mod.rs` | banks, chip registers | read, write | banks as the port says |
| Text tools, generators, vendored code | `c64/lua`, `c64/py`, `emu6502/*.lua` | none | pure functions | not modelled, but for the algorithms the plan names |

The program is one process and one thread: a step is one call, and what
interleaves is the order in which the emulated program makes its calls, which it
chooses freely. The parts meet as follows. The interpreter finds a jump at or
above `$F000` and calls `emulateC64ROM`; that reads and writes the KERNAL's cells
in RAM, calls itself for the calls the ROM routine makes, and calls the drive's
routines with the same machine; the drive reads RAM[RAM_FA], the cell SETLFS and
LISTEN write. Hooks are C callbacks the interpreter runs before an instruction.
The decompiler, `diskdump` and the loading of files are sequential programs of their
own that share no state with a running emulator. There are no threads and no messages.
What outlives a process is one file, the decompiler's labels, which an
interrupted run leaves emptied; nothing is retried.

The behaviours that are hard to test are listed under "hazards" in
`PROJECT.json`, each with its line. The heaviest concern state that two calls
share: the drive's one secondary address, FA beside the bus address, the
compaction of the file table, and what an error leaves behind; and in the programs
that read files, what is remembered of where they have been.

## Modules

| Module | Models | Kind |
|---|---|---|
| `Machine` | `em.h`: the cells, the bus, the drive structure | state and its type |
| `Drive1541` | `emdisk.c`: serial routines, commands, OPEN | operators from machine to machine |
| `KernalIO` | `emromc64.c` and `diskOPEN`: one action per call | specification and properties |
| `LogicalFiles` | what the file calls promise: a partial map | abstract specification |
| `MCKernal` | instances of `KernalIO` for TLC | model checking |
| `KernalProofs` | inductive invariant of `KernalIO` and what follows from it alone | proofs |
| `KernalSteps` | what a step of `KernalIO` may do, and its refinement of `LogicalFiles` | proofs |
| `Hooks` | registration, sorting, indexing and running of hooks (`emmain.c` 829-970) | specification and properties |
| `EcaLoader` | the loader's hooks, callback and disassembly (`ecaloader.c`), on top of `Hooks` | specification and properties |
| `MCHooks` | instances of `Hooks` and `EcaLoader` | model checking |
| `LoaderProofs` | theorems about `Hooks` and `EcaLoader` | proofs |
| `MemoryBanks` | `loadBanked`: which byte of the machine a load reads | operators |
| `Cpu6502` | `interp` and the instructions, one action per group of instructions | specification and properties |
| `CpuCalls` | `Cpu6502` with a history of what lies on the stack | specification and properties |
| `MCCpu` | instances of `CpuCalls` | model checking |
| `CpuProofs` | inductive invariant and theorems about `Cpu6502` | proofs |
| `CallProofs` | inductive invariant and theorems about `CpuCalls` | proofs |
| `Explorer` | what a program promises that follows references: nothing found is dropped | abstract specification |
| `ForthDecompiler` | `forth_decompiler.c`: labels file, scan, labelling, listing | specification and properties |
| `ForthProofs` | inductive invariants, the refinement and theorems about `ForthDecompiler` | proofs |
| `Buffers` | `file.c`: the growable buffer | operators and actions |
| `PrgLoader` | `readFile` and the four loaders of `emmain.c` | specification and properties |
| `PrgProofs` | inductive invariant and theorems about `PrgLoader` | proofs |
| `DiskImage` | the directory and file walks of `emdisk.c`, with `trackinfo.c` | specification and properties |
| `DiskCommands` | the argument parsers of `emdisk.c` | specification and properties |
| `AppleDump` | `diskdump.c`: directory, lists of sectors, extraction | specification and properties |
| `DiskProofs` | theorems about the directory of `DiskImage`, the files of `AppleDump` and the arguments of `DiskCommands` | proofs |
| `Readers` | the five programs that read a file, one at a time, and that they end | composition |
| `MCForth`, `MCReaders` | dumps, files, images, diskettes and texts | model checking |

`KernalIO` extends `Machine` and `Drive1541` and refines `LogicalFiles`; `CpuCalls`
extends `Cpu6502`, which extends `MemoryBanks`. The interpreter and the KERNAL are
two specifications: each would multiply the states of the other, and they meet at
one point, the far jump. There `Cpu6502` takes what `KernalIO` leaves (any cell of
the KERNAL changed, A and carry anything, or the process ended), and `KernalIO`
takes any order of calls.

`EcaLoader` extends `Hooks`: its callback is part of the step in which `Hooks` runs a
hook of the loader. `PrgLoader` and `DiskImage` extend `Buffers` and use its one buffer.
`Readers` holds `ForthDecompiler`, `PrgLoader`, `DiskImage`, `AppleDump` and
`DiskCommands`. In a behaviour one of them runs and the others stay in a state that
allows no step, which is what separate programs do; it lets one run check all of them.

### The KERNAL and the drive: how the state corresponds to the code

The C routines all take `emu_t* m` and change it in place, so the variable `m` is
one record and each routine is an operator that takes a machine and returns the
machine it leaves. `error()` exits and `assert` aborts: both set `halt`, and
`IfRunning` makes a stopped machine do nothing more, so the order in which a
routine does things before it fails is kept. An action of `KernalIO` is one entry
of `emulateC64ROM`'s switch with everything it calls, nested calls included.

* The rows of LAT/FAT/SAT below LDTND are the sequence `files`; rows at and
  beyond LDTND are never read.
* The bus address is a pair of role and device, a secondary address a pair of
  nibbles: the code takes them apart with masks.
* The text a program sends is a sequence of tokens, each one complete text: a
  buffer request, a command with its channel and argument, or anything else. A
  token takes one place of the command buffer, so the limit of 42 bytes is a
  limit of `CommandSize` tokens.
* The accumulator is a parameter. SETNAM's pointer is replaced by the name it
  points at. GETIN returns a constant and changes no cell.
* What a sector contains is its number; ACPTR's byte is whatever is under the
  pointer, so the properties speak of contents and pointer.
* Device numbers are 0 to 31, as on the bus.

### Hooks

The table of hooks is a sequence. `sortHooks` leaves any order of it: the
comparator joins its four differences with `||`, which in C is 0 or 1, so two
different hooks each compare as greater than the other, and the result of qsort is
undefined. The lookup table is built from that order as the code does it, one pass
with a row per address and type. The table is
prepared once, when `interp` begins. A hook registered after that makes it stale, and
the next instruction ends the process. Whether the sort meets two equal hooks, which
end the process too, is up to the library. A callback may register hooks, so
`registerHook` is always enabled; the only callback in the repository, the loader's, is
`EcaLoader`.

### The ECA loader

The bytecode interpreter that the loader observes is a program in RAM, so the callback
is given any pointer and any bytes. An atom is a type and a value; whether a capture
changed an atom is only traced. `saveDisassembly` is the recursive function `Lines`:
each line and the bytes it covers. It runs when the process exits, through `exit` or
`error`, and not when an assertion fails. The word at the last address has its second
byte in the padding behind the table, which is a cell of its own here. The table comes
from `malloc` uncleared, but it has 192K, for which the library maps fresh, zero pages.

### The Forth decompiler

RAM is a function from addresses to bytes, and `refType` what the scan has found each
byte to be. The word tables of the Forth system (`resolveRef`'s switch and the generated
include files) are the constant `Native`: what a cell that holds such a code address is.
`Radix`, the values of a byte, scales the machine: a word is two bytes and the address
space all words, as in the program. One turn of `scanDefinition`'s loop is the action
`ScanCell`; `old` is the part of this round's buffer not yet scanned. `label` visits only
cells it does something at, `writeOutput` only cells it lists; the actions take the next
of these. Of the listing only the lines of the labels file are kept. An address in that
file is its four digits, as character codes, because `parseHex` is the interesting
part; a label is a token. The file is a set of lines: the program writes one for an
address, and which of two it would keep is left open. `names` is a history of the labels
that were read: `label` writes its words into the same table, over a name if a branch
leads to a definition, so what is promised is promised of `names`.

Kept as the code has them: a reference is followed unless the place that its code field
points to has been scanned (the place tested is not the place added); a value that
collides fails, a variable's second byte yields; the last two bytes are not listed;
`getLabel` asserts that an address is not zero; the two reference buffers are not
checked, so the program may write behind them (`RefsOverrun`, after which nothing is
claimed). `label` looks at `toAddr - 2` and `toAddr - 4` unchecked; below zero that is
four gigabytes away, and the process ends.

### Files, images and diskettes

A buffer is its length and capacity; capacities wrap at `Wrap`. A file is its length.
`bytesInSector - 2` is unsigned in the code, so a last sector of no bytes asks for four
gigabytes: `Grow` then runs for ever, since the capacity wraps before it gets there.
`readFile` reads files of any length: where its length and a block wrap, no room is made
for the block, and `Fread` writes behind the buffer and goes on, or the program crashes
(`ReadOverruns`). Nothing in the code refuses such a file.
A C64 sector is its link and the kinds of its directory entries, an Apple sector its
link and its entries or pairs. `readFileFromDiskImage` never advances the length of the
buffer it fills and drops the first sector; nobody calls it or `readFileDirectory`, so
no property states the content of a file read from an image, only that the walk ends.
A track from 36 on is known to the table and absent from the image: reading it is
`FileOutside`.

`diskdump` scans the directory, dies of an entry in use with an unknown type, and then
extracts entry by entry and pair by pair: lists are followed as long as they lead on,
holes are skipped, and a file opened twice is emptied. A deleted entry has track FF, which
an assertion refuses. The loops' counters are the state: `entry` counts entries over all
directory sectors, `pair` the pairs of the list at `cursor`. What is written goes through
stdio: `pending` are the sectors that its buffer holds back. `fwrite` falls short only
when the full buffer has to be emptied and the disk does not take it; then the program
dies, with what was written before on the disk. `fclose` writes the rest, and its result
is not looked at: the disk may take less, and the program goes on (`lost`, a history,
remembers the file). The disk may be full at any time, of other things; `Room`, what it has
room for in one file, bounds a loop of lists. Either `fopen` may fail. The translation of
a file is a file of its own, named by type and name, whose content is one value that is no
sector; it is written over whatever has its name, and the program goes on or dies of what
it reads. The listers (`intbasic.c`, `fpbasic.c`, `HexDump`) read forward through a file
that ends, or die.

The text of a command's arguments is a sequence of character codes, and the parser of
decimal arguments reads it character by character, with the three loops of the code as
values of `parse`. `DiskCommands` gives the tokens of `Drive1541` their meaning; how the
name is matched is not modelled.

### The interpreter

The variables are the registers, the flags, the program counter, the instruction
count, the cells of RAM the instance has and whether `interp` runs, has returned or
has ended the process. What RAM holds at the program counter is not modelled: a step
executes any instruction of `Program`, so the programs are all sequences of these
instructions, those that change themselves included. Operands are part of the
instruction; where it is in memory, only the program counter says. An instruction
that would touch an address outside `Cells` is not taken.

An action is one case, or one group of like cases, of `interpImm`, `interpAddr` and
`interpImpl`, with fetch, address and flags. All that the code does unlike a 6502 is
kept where it is in the code: DEC increments, BIT stores the flags, BVC is not
implemented, TSX takes its flags from A, RTS and the return from a KERNAL call set N
and Z (they pull), page zero is not wrapped for indexed and indirect modes, decimal
mode is ignored. `InstructionSet` is the table as it is typed, with its gaps: `$71`
is SBC where a 6502 has ADC, and `$7D` is ADC with Y where it has X, so ADC lacks two
modes.

A byte of the machine has one number: RAM first, then the three ROM images that
follow it in the structure. `loadBanked` yields that number. The double subtraction
of `ROM_RANGE` makes it land in RAM, so the model finds the byte that is read.

`CpuCalls` adds the history variable `items`: the bytes and return addresses that
were pushed and not yet pulled, dropped when the stack pointer rises over them or
the program stores into them. The code has nothing of the kind; it never restricts
a step.

Definitions marked `Wrong:` are mutated copies of the one that follows; no
specification uses them. They exist to show, each in the run that
`PROJECT.json` names, that a property notices the bug.

## Runs

Deadlock checking is off because the process really ends: `error()` exits. Only
`readers` assumes fairness, `WF_readersVars(ReadersNext)`: a sequential program that
waits for nothing takes its next step if there is one. The emulator is not required to
do anything, since the emulated program decides.

| Run | Instance | Shows |
|---|---|---|
| `kernal_files` | three numbers, a table of two rows, RS-232, screen and drive, file calls only | the table implements the map, holds no number twice, never overflows; OPEN is all or nothing; CLOSE drops the file it names |
| `kernal_drive` | two buffers, two data channels, two-token command buffer, buffer requests with and without number, a read, a reset | isolation of channels, buffers neither stolen nor freed singly, the talk's channel stable, pointers in range |
| `kernal_devices` | default devices and status as a RAM image may hold them, RS-232, the drive and a drive that is not there, every command | who listens, who released the bus, who may take a byte |
| `kernal_assertions` | as `kernal_devices` | finding: the drive's assertions on RAM[RAM_FA] can fail |
| `kernal_refusal` | as `kernal_devices`, default output zero | finding: a refused OPEN may end the process instead of setting the carry |
| `hooks` | hooks at two addresses, pre and post, registered between instructions; three hooks of the loader and three bytes of bytecode | ranges in the table, no foreign hook, a hook alone at its address always found; a line for every byte read |
| `hooks_order` | as `hooks` | finding: post hooks do not sort after pre hooks |
| `cpu` | 26 instructions, every program of four of them, from a full and from a nearly empty stack | widths, the banks, exact arithmetic, comparisons, calls and bytes come back |
| `cpu_rom` | the first cells of the ROM ranges | finding: a visible ROM is never what is read |
| `cpu_dec` | three instructions | finding: DEC increments |
| `readers` | some 1,800 dumps of 36 bytes, 15 lengths of file at every origin, 5,500 images, some 10,000 diskettes, 4,800 commands | the scan follows what it finds and implements `Explorer`; names that were read survive; files and buffers whole; directories complete and in order; extracted files whole, or short by no more than a failed `fclose` loses; arguments as sent; every program ends |
| `forth_labels` | the same dumps | finding: a loop with its test in the middle is labelled wrongly |

Bounds. The table of ten rows is checked with two and the proofs cover every
size; two rows and three numbers are enough for a hole to be filled from the end
and for the table to overflow. Two of four buffers and two channels are enough
for a collision, for the pool to run dry and for a channel that owns two buffers.
A sector of two bytes wraps after two reads; a command of two tokens is the
shortest with trailing text. The numbers are symmetric: the code only compares
them.

A program of four instructions is enough to call, push, pull and return, to move the
stack pointer under a call's feet and come back, and to set the port before a load;
`InstructionLimit = 5` is the code's own limit of 0x400000, so reaching it is an
action of the code as well. The first start has the stack at 255, the second at 2,
where one JSR just fits and the next does not. The operands 127, 128 and 255 meet
the accumulators 127 and 128 on both sides of each boundary of carry and overflow;
the proofs cover all others. The cells are page zero's first four (the port among
them, and a pointer), both ends of the stack, the first byte of each ROM range and
where the reads of two ROMs land. The KERNAL's own cells are not among them: what a
KERNAL call writes there is left to the proofs.

Three hooks at two addresses are the least with which two hooks of one address are
apart in the sorted table; the two addresses are symmetric. Three bytes of bytecode hold
an instruction and a word, and every way in which a later capture can cut one; of the two
values of a byte one is an instruction.

A machine of 36 bytes (six values of a byte) has room for a word of four cells, a second
word, one that prints a string and a value at the very end. The words call each other
and themselves, and branch forth, back, over each other and out of RAM. Two
references fill a buffer, so both the swap and the overrun happen; three repeats and a
`(DO)` stack of two are reached and exceeded. The proofs cover all other sizes. Files
have up to 34 bytes, blocks 4, pages 4, RAM 16: shorter than an address, exactly a
block, and too long from some origins. Unsigned values wrap at 32: files of 28 bytes are
the last whose blocks are counted right, and the longer ones, 32 and 34 among them,
overrun. An image has one track of three sectors, of two entries each, a table
of three; links lead to each sector, to none, behind the track, to a track that is
not in the image and to one that does not exist, so chains end, loop and break, and the
table overflows. A diskette has two directory sectors of two entries and two lists of two
pairs, with holes, loops, deleted entries and equal names, and a name that is that of
another file's translation; stdio holds two sectors and the disk has room for four in a
file, so files are shorter and longer than the buffer and a loop of lists stops instead of
running for ever. Arguments
have up to five characters out of digits, a letter, space and delimiters; an unsigned
wraps at 64 and a byte at 16, so 90 is refused and 900 is taken for 4.

## Findings

* `DriveAssertionsHold`: the drive's routines assert `RAM[RAM_FA] >= 8`
  (`emdisk.c:610, 615, 620, 637`) and their callers test the bus address instead.
  LISTEN 8, SETLFS with another device, SECOND aborts the emulator; TKSA, ACPTR and CIOUT
  have the same assertion.
* `RefusalReported`: `romError` should "set carry to mark error condition"
  (`emromc64.c:532`); `romCLRCH` tests the default devices with `< 3` where
  `romClrch` has `> 3`, so with a zero DFLTO (a machine that loaded only a PRG)
  the refusal runs the drive's UNLSN and may end the process.
* `PostHooksSortAfter`: `interp` stops at the first post hook because "Post hooks
  sort after pre hooks" (`emmain.c:967`); `compareHooks` (`emmain.c:856`) orders
  nothing.
* `RomReadsRom`: `loadBanked` promises `m->rom.chargen[addr - 0xD000]`
  (`emmain.c:193-195`) and reads `m->rom.chargen[offset - 0xD000]`.
* `DecDecrements`: DEC (`emmain.c:542`) is the line of INC.
* `WhileLoopLabelled`: `label`'s comment has "[begin] ... cond 0BRANCH after ... BRANCH
  begin [after]" (`forth_decompiler.c:676-678`); the code labels the 0BRANCH `BEGIN`, the
  place after the loop `WHILE` and its beginning `REPEAT` (`703-706`).

Met while reading and left without a run, because nothing in the repository says
otherwise: the two rows of the instruction table, BIT, BVC, TSX and the flags of RTS
(above). Likewise what the file walks do on chains that loop (they do not end), on a last
sector without room for its link (`bufEnsureCap` does not end) and on tracks beyond the
image (`FileOutside`): `ReadersEnd` excludes these inputs, as `WalkMustEnd` and
`DumpMustEnd` say, and holds on all others. `ArgsAsSent` excludes numbers that wrap, and
`DirectoryComplete` walks that stop or overflow the table.
The disassembly is lost if the callback's assertion on the bytecode fails
(`ecaloader.c:178`), since `abort` runs no exit handler; a second UNLSN executes the
command in the buffer again (`emdisk.c:682`); and a reference is skipped if the place its
code field points to has been scanned, whether or not it has been itself
(`forth_decompiler.c:408`), which is why `ReferencesFollowed` leaves such references out
and `ScanExplores` never sees them.

## Proofs

`KernalProofs` proves, for every value of the constants that satisfies
`MachineAssumption` and `KernalAssumption`, that the type and four safety
invariants hold in every reachable state. `MachineAssumption` asks for sizes
above zero and that a name fits into the command buffer (16 against 42 in the
code: without it OPEN would overflow the buffer); `KernalAssumption` types the
program's inputs.

The invariant is `Inv == Good(m)`. `CommandBufferBound` is not inductive alone:
OPEN sends the name without asking whether it fits, so the name's length and the
emptiness of the buffer after LISTEN are needed. `OpenDevicesDriven` needs the
table, and the table needs the range `romLookupFileNumber` returns, hence the
lemmas on least elements. `Sound` gathers what every routine preserves; `Keeps`
adds that it leaves table and name alone, and there is one lemma of that form per
routine. Only `romOpen`, `romClose` and CLALL change the table; `RowAppended` and
`RowRemoved` are the two facts about sequences they need. `StepGood` has one case
per action.

`CpuProofs` proves, for every program, set of cells, start and limit that satisfy
`CpuAssumption` (instructions are rows of the table with operands of their width, the
port is a cell, starts are bytes and a word), that the type holds (`CpuTypeCorrect`)
and that arithmetic and comparisons are exact for all 256 by 256 operands with both
carries (`ArithmeticIsExact`, `CompareIsOrder`). The type is not inductive alone: the
instruction count stays within its limit only because a running machine is below it,
which `Inv` adds. There is a lemma per action; `SetsKeeps` and `WritesKeeps` are the
two ways most of them end. The argument for arithmetic: a flag set is a flag read and
the others stay (`SetNZ`, `CarrySet`, `OverflowSet`), so the flags after an addition
are the ninth bit of the sum and `Overflows` (`AdditionFlags`); `Overflows` says that
the signed sum does not fit (`SumIsExact`); a difference is the sum with the one's
complement (`DifferenceIsSum`). Both action properties then follow for every step
from a state that satisfies `Inv`.

`RamIsRead` shows that outside the ROM ranges its comment names, `loadBanked` reads RAM,
under every setting of the port; it needs only that the port is a byte.

`ForthProofs` is about `DecompileSpec(dump, start, lines)`: every dump, every start
address in RAM and every labels file whose labels are known ones. `DecompilerAssumption` asks
for at least two values of a byte, positive limits, and a string word that is not at the
last byte. The invariant `ForthInv` joins the type with `ScannedIsTyped` and
`BranchesInRange`, which speaks of the branches that `label` reads and of the offsets that
`writeOutput` indexes with: it needs that marking a cell makes no other byte one of these
(`MarkedType`), and that `ScanCell` has refused targets outside RAM. On it rest

* the refinement `ForthRefinesExplorer`: each action maps to `Explore`, `Finish` or a
  stutter. `AlreadyScanned` may drop a reference only because a typed byte counts as
  explored;
* `ReferencesFollowedAlways`, by the strengthening `Followed`: what a typed cell refers to
  is explored or still in a buffer, in every state; at the end of the scan both
  buffers are empty;
* `LabelsWrittenAlways`, by the strengthenings `Renamed` and `WrittenSoFar`: a label differs
  from the name that was read only where it is a word of a loop and a branch leads there,
  or at a branch itself; and the line of each definition below `pos` that the listing has
  not passed by is in the file. The step needs that the next
  cell listed is the least one, and the end that no least one means none, hence
  well-founded induction on the naturals (`LeastNat`);
* `LabelsReadBackAlways`, by `AddressReadBack`, which is arithmetic: four digits of base 16
  give the number back. It assumes one line for an address, and at most 65536 addresses.

`PrgProofs` is about every size of block, page, RAM and unsigned, and files of every
length and origin. What it says of the contents is said of `Countable` files, at most a
block shorter than an unsigned counts; the longer ones overrun. Of these the invariant
`Reading` says that what has been read and what remains make up the file, that capacity
and length are whole blocks, and that the room asked for is one block beyond what has
been read, or the file is at its end; so the capacity meets it before it wraps.
`TopRounds` is the arithmetic of the page.

`KernalSteps` is about single steps from a state that satisfies `Inv`. A routine is an
operator from machine to machine and an action calls several of them, so what a step may
do is stated as relations between two machines that compose over calls: `BufferStep`
(a buffer keeps its channel, gets its first one, or all are given up), `DriveStep`
(a routine of the drive: only its buffers, and a command that does not grow), `SameFiles`
(the table and the current file stay), `Still` (drive and files stay), `Effect` (a
whole call: the bus is left alone, with the channel it addresses, or idle). There is
a lemma per routine, a lemma per action, and `EveryStep` joins them. Seven
action properties of `KernalIO` follow from it, for every number of buffers, channels, rows
and sizes of sectors; the eighth, `ClosesDropTheirFile`, from what `romClose` does to the
map.

The refinement `TableImplementsMap` needs more of a state: `Placed` says that each row's
device and secondary address are ones that OPEN can enter. The abstract file is the row that
`romLookup` finds, the first of its number; `TableIsSound` makes it the only one.
Hence OPEN is `OpenFile` on the map, and the compaction of CLOSE, which moves the last row
into the hole, is `CloseFile` of the number the call names: it removes that one and leaves
the others on their devices. The number is part of the refinement, so dropping another
file's row would not be a step of `LogicalFiles`.

`CallProofs` proves both properties of `CpuCalls` for every program. The invariant
`Remembers` says what the history means: an item lies above the stack pointer, in cells of
the stack page that still hold its bytes. It is kept because an item is dropped as soon
as the program stores into its cells or the pointer rises over it. A return with the item
just above the pointer therefore pulls its bytes; that the two of a call make up
the address again is arithmetic.

`LoaderProofs` is about any loader, whatever the bytecode interpreter and other hooks do.
The table of hooks is built by a recursive function. That there
is such a function is proved first; `IndexedTo` is then an invariant of its loop: ranges end
among the hooks indexed so far and hold hooks of their row's address alone, every
address has a row, and the range of a hook that is alone is that hook. It holds for every order the sort may leave, so
`HooksInv` survives registration, and the three properties of `Hooks` follow.
`DisassemblyCompleteAlways` goes down from the end of RAM: what `Lines[ip]` yields are
the lines of the bytes from `ip` on, and a line covers what its successor does not.

`DiskProofs` is about walks along links. `DirectorySpec(image)` and `DumpSpec(image,
sectors, first)` range over every image and diskette, chains that come back to themselves
included. The lemmas about chains are shared: a chain that leaves a finite set of sectors
does so within as many links as the set has members (`EndsSoon`, by pigeonhole), so the
reference definitions may stop counting there. `DirectoryInv` says that the entries listed
are the files of the first k sectors of the chain, each after those of earlier sectors
and entries (`Ordered`). A chain that came back would list an
entry twice; but it never ends, so it never comes to `listed`. `DumpInv` says that the file
being written and what stdio holds back of it are together its first k lists and the pairs of
the next up to `pair`, and that every file before it is whole, but for what its `fclose` lost,
unless a later entry or translation has been written over it. What `Flushed` writes is a
prefix of what is held back (`Split`), hence what is missing is an end of the file no longer
than the buffer.

Its last theorem is `ArgsAreAsSent`, for every text. `CommandInv` relates the place of the
parser to the delimiters before it: there is one argument for each, but one less while an
argument is read; the value read so far is the number sent so far as long as that is below
`UIntSize`. That a number which fits has only prefixes that fit is why the sum modulo
`UIntSize` may be compared at all.

The prover cannot do induction over data, and recursive definitions are proved about
without it: a recursive function exists because approximations up to n exist for
every n (`Iteration`, `IndexedUpTo`, `LinesExist`), and that they do, for every n, is an
argument about the least n without one, which the library's theorem on well-founded
relations gives for sets.

Some calls are left out of a run and not of its theorems: `kernal_drive` has no B-P command
and no file calls on the bus, `ChannelsAreIsolated` and `TalksKeepChannel` are about all.

Only model-checked: `ReadersEnd`. It is liveness, out of the prover's reach. Every
other property of a run that passes is a theorem. What the properties of the other runs
say is not true of the program.

## Not modelled

* The text of listings: BASIC programs of the Apple tools, the hexadecimal dump
  (whose last line is wrong for some lengths, `diskdump.c:289`), the trace, the Forth code
  file, labels and mnemonics of the disassembly.
* How the drive matches a command's name, and what a missing argument of a command is:
  bytes nobody has set (`emdisk.c:200`).
* Failures of input, output and allocation, except those of opening and writing files in
  `diskdump`.
* `bufAppend`, which never advances its pointer, `expectKey` and `readLine`: they have no
  caller. `loadROM`: the ROMs are data.
* Generators, scripts, the Lua predecessors, the Rust emulator (it does not compile) and
  vendored libraries: see the components in `PROJECT.json`.

## Plan

Done: the KERNAL and the drive; hooks and the ECA loader; banks and the interpreter; the
decompiler; buffers and loading; disk images, disk commands, Apple diskettes.

Left, in this order:

1. The names of disk commands, so that `DiskCommands` and `Drive1541` become one
   specification from the text sent to the command executed.
2. Base 40, the Lua and C versions of the text codes, as pure functions against each
   other.
