------------------------------ MODULE Machine ------------------------------
(***************************************************************************)
(* The emulator's state as emu6502/em.h lays it out: the KERNAL's cells in *)
(* RAM (logical file table, current file parameters, default devices), the *)
(* serial bus and the 1541 disk drive.  The C code passes one `emu_t* m'   *)
(* to every routine; here every routine is an operator from a machine to a *)
(* machine.                                                                *)
(*                                                                         *)
(* The accumulator is not kept: each routine that reads it takes the byte  *)
(* as a parameter.  A secondary address is a byte whose two nibbles the    *)
(* code tests apart (command and channel), so it is a pair of nibbles.     *)
(***************************************************************************)
EXTENDS Naturals, Sequences

CONSTANTS
  Numbers,      \* logical file numbers (bytes the code only compares)
  MaxFiles,     \* rows of the LAT/FAT/SAT tables (10)
  BufferCount,  \* DISKDRIVE_BUFFER_COUNT (4)
  CommandSize,  \* DISKDRIVE_COMMAND_BUFFER_SIZE (0x2A)
  NameSize,     \* longest file name SETNAM accepts (16)
  SectorSize,   \* SECTOR_SIZE (256), the modulus of a buffer pointer
  SectorCount   \* sectors of the mounted image that U1 may read

ASSUME MachineAssumption ==
  /\ MaxFiles \in Nat \ {0}
  /\ BufferCount \in Nat \ {0}
  /\ CommandSize \in Nat \ {0}
  /\ NameSize \in 0 .. CommandSize
  /\ SectorSize \in Nat \ {0}
  /\ SectorCount \in Nat \ {0}

Byte == 0 .. 255
Nibble == 0 .. 15

\* Device numbers of the serial bus: the low five bits of the bus address.
Device == 0 .. 31

\* A secondary address byte: command in the high nibble, channel in the low.
Secondary == [hi : Nibble, lo : Nibble]

(***************************************************************************)
(* What a program sends the drive is text.  A token is one complete text,  *)
(* reduced to what the drive makes of it:                                  *)
(*   "#"    a request for any buffer, "#n" for buffer number arg (an arg   *)
(*          that is no buffer number stands for every malformed request);  *)
(*   "I", "UJ"  the two reset commands; "U9" the soft reset, which the     *)
(*          drive parses but refuses;                                      *)
(*   "B-P"  set the pointer of channel ch to arg;                          *)
(*   "U1"   read sector arg into the buffer of channel ch (an arg that is  *)
(*          no sector stands for a track and sector off the image);        *)
(*   "M-R", "M-W"  memory read and write;                                  *)
(*   "B-A"  any other command the drive parses and refuses;                *)
(*   "text" any text that is neither a command nor a buffer request.       *)
(***************************************************************************)
TokenOp == {"#", "#n", "I", "UJ", "U9", "B-P", "U1", "M-R", "M-W", "B-A", "text"}
Token == [op : TokenOp, ch : Byte, arg : Nat]

BufferID == 0 .. BufferCount - 1

\* What a buffer holds: a sector of the image, or Blank before any read.
Blank == SectorCount
Content == 0 .. SectorCount

\* One of the drive's buffers.  Channel 0 doubles as "not in use".
Buffer == [ch : Nibble, ptr : 0 .. SectorSize - 1, data : Content]

(***************************************************************************)
(* The DiskDrive structure.  cmd is commandBuffer up to                    *)
(* commandBufferPointer: the bytes beyond are never read, since a zero is  *)
(* stored at the pointer before the buffer is parsed.                      *)
(***************************************************************************)
Drive ==
  [mounted : BOOLEAN, cmd : Seq(Token), recv : {"zero", "ram"},
   bufs : [BufferID -> Buffer], sec : Secondary]

\* serialBusActiveAddress: the role is its upper bits, the device its low five.
Bus == [role : {"idle", "listen", "talk"}, dev : Device]
IdleBus == [role |-> "idle", dev |-> 0]

\* One row of the logical file table.
Row == [la : Numbers, fa : Device, sa : Secondary]

(***************************************************************************)
(* Whether the process still runs, and otherwise what ended it: a call of  *)
(* error(), which exits, or an assertion: "assert FA" is that of the drive *)
(* routines on RAM[RAM_FA].                                                *)
(***************************************************************************)
Halt == {"running", "error", "assert FA", "assert sector", "assert name"}

Machines ==
  [la : Numbers, fa : Device, sa : Secondary, name : Seq(Token),
   files : Seq(Row), dfltn : Byte, dflto : Byte, status : Byte,
   carry : BOOLEAN, bus : Bus, drive : Drive, halt : Halt]

Running(s) == s.halt = "running"

\* A process that error() or an assertion has ended does nothing more.
IfRunning(s, t) == IF Running(s) THEN t ELSE s

\* error() and assert() end the process.
error(s) == [s EXCEPT !.halt = "error"]
stopWith(s, why) == [s EXCEPT !.halt = why]

\* The drive createEmulator's calloc leaves: no channel, no command.
FreshDrive(mounted) ==
  [mounted |-> mounted, cmd |-> <<>>, recv |-> "zero",
   bufs |-> [b \in BufferID |-> [ch |-> 0, ptr |-> 0, data |-> Blank]],
   sec |-> [hi |-> 0, lo |-> 0]]
=============================================================================
