---------------------------- MODULE KernalProofs ----------------------------
(***************************************************************************)
(* Proofs that KernalIO keeps its type and its four state invariants, for  *)
(* every number of files, rows, buffers and tokens.                        *)
(*                                                                         *)
(* Sound is what every routine preserves of a machine, whatever it is      *)
(* called with; the file table changes only in romOpen, romClose and       *)
(* CLALL, so it is kept apart (Table, Driven).                             *)
(***************************************************************************)
EXTENDS KernalIO, SequenceTheorems, WellFoundedInduction, TLAPS

\* The cells keep their width; what fills the command buffer fits into it; only
\* the emulated drive listens.  The name has to be bounded too: OPEN sends it.
Sound(s) ==
  /\ s \in Machines
  /\ Len(s.drive.cmd) <= CommandSize
  /\ Len(s.name) <= NameSize
  /\ Running(s) /\ s.bus.role = "listen" => s.bus.dev = 8

\* t is a sound machine that a routine, called on s, may leave behind without
\* having touched the file table or the name.
Keeps(s, t) == Sound(t) /\ t.files = s.files /\ t.name = s.name

Table(files) ==
  /\ Len(files) <= MaxFiles
  /\ \A i, j \in DOMAIN files : files[i].la = files[j].la => i = j
  /\ \A i \in DOMAIN files : files[i].sa.hi \in {6, 7, 14, 15}

Driven(files) == \A i \in DOMAIN files : files[i].fa \in {0, 3} \cup 8 .. 31

\* The inductive invariant of a machine, and of the specification.
Good(s) == Sound(s) /\ Table(s.files) /\ (Running(s) => Driven(s.files))

Inv == Good(m)

-----------------------------------------------------------------------------
(***************************************************************************)
(* Least elements: the buffer a channel serves, the row of a number.       *)
(***************************************************************************)
LEMMA LeastOfIsMember ==
  ASSUME NEW S \in SUBSET Nat, S # {}
  PROVE  LeastOf(S) \in S
<1> DEFINE R == OpToRel(<, Nat)
<1>1. IsWellFoundedOn(R, Nat)
  BY NatLessThanWellFounded
<1>2. \A x, y \in Nat : x < y => <<x, y>> \in R
  BY DEF OpToRel
<1> HIDE DEF R
<1>3. PICK x \in S : \A y \in S : <<y, x>> \notin R
  BY <1>1, WFMin
<1>4. \A y \in S : ~(y < x)
  BY <1>2, <1>3
<1>5. \A y \in S : x <= y
  BY <1>4
<1> QED
  BY <1>5 DEF LeastOf

LEMMA ChannelBuffer ==
  ASSUME NEW d, NEW channel, BoundTo(d, channel) # {}
  PROVE  getChannelBufferID(d, channel) \in BufferID
<1>1. BoundTo(d, channel) \in SUBSET Nat
  BY MachineAssumption DEF BoundTo, BufferID
<1>2. LeastOf(BoundTo(d, channel)) \in BoundTo(d, channel)
  BY <1>1, LeastOfIsMember
<1> QED
  BY <1>2 DEF getChannelBufferID, BoundTo

LEMMA FoundRow ==
  ASSUME NEW files \in Seq(Row), NEW number, IsOpen(files, number)
  PROVE  /\ romLookup(files, number) \in 1 .. Len(files)
         /\ files[romLookup(files, number)].la = number
<1>1. RowsOf(files, number) \subseteq 1 .. Len(files)
  BY DEF RowsOf
<1>2. RowsOf(files, number) \in SUBSET Nat
  BY <1>1
<1>3. LeastOf(RowsOf(files, number)) \in RowsOf(files, number)
  BY <1>2, LeastOfIsMember DEF IsOpen
<1> QED
  BY <1>1, <1>3 DEF romLookup, RowsOf

-----------------------------------------------------------------------------
(***************************************************************************)
(* Updates of one cell.                                                    *)
(***************************************************************************)
LEMMA FieldUpdates ==
  ASSUME NEW s \in Machines
  PROVE  /\ \A d \in Drive : [s EXCEPT !.drive = d] \in Machines
         /\ \A b \in Bus : [s EXCEPT !.bus = b] \in Machines
         /\ \A h \in Halt : [s EXCEPT !.halt = h] \in Machines
         /\ \A c \in BOOLEAN : [s EXCEPT !.carry = c] \in Machines
         /\ [s EXCEPT !.status = 0] \in Machines
         /\ [s EXCEPT !.dflto = 3, !.dfltn = 0] \in Machines
         /\ \A f \in Seq(Row) : [s EXCEPT !.files = f] \in Machines
<1>1. \A d \in Drive : [s EXCEPT !.drive = d] \in Machines
  BY DEF Machines
<1>2. \A b \in Bus : [s EXCEPT !.bus = b] \in Machines
  BY DEF Machines
<1>3. \A h \in Halt : [s EXCEPT !.halt = h] \in Machines
  BY DEF Machines
<1>4. \A c \in BOOLEAN : [s EXCEPT !.carry = c] \in Machines
  <2>1. [s EXCEPT !.carry = TRUE] \in Machines
    BY DEF Machines
  <2>2. [s EXCEPT !.carry = FALSE] \in Machines
    BY DEF Machines
  <2> QED
    BY <2>1, <2>2
<1>0. 0 \in Byte /\ 3 \in Byte
  BY DEF Byte
<1>5. [s EXCEPT !.status = 0] \in Machines
  BY <1>0 DEF Machines
<1>6. [s EXCEPT !.dflto = 3, !.dfltn = 0] \in Machines
  BY <1>0 DEF Machines
<1>7. \A f \in Seq(Row) : [s EXCEPT !.files = f] \in Machines
  BY DEF Machines
<1> QED
  BY <1>1, <1>2, <1>3, <1>4, <1>5, <1>6, <1>7

\* A machine that has stopped owes nothing but its widths.
LEMMA Stopped ==
  ASSUME NEW s, Sound(s)
  PROVE  /\ Keeps(s, error(s))
         /\ Keeps(s, stopWith(s, "assert FA"))
         /\ Keeps(s, stopWith(s, "assert sector"))
         /\ Keeps(s, stopWith(s, "assert name"))
<1>1. s \in Machines
  BY DEF Sound
<1>2. ASSUME NEW why \in Halt \ {"running"}
      PROVE  Keeps(s, [s EXCEPT !.halt = why])
  <2>1. [s EXCEPT !.halt = why] \in Machines
    BY <1>1, FieldUpdates
  <2> QED
    BY <1>1, <2>1 DEF Keeps, Sound, Running, Machines
<1>3. {"error", "assert FA", "assert sector", "assert name"}
        \subseteq Halt \ {"running"}
  BY DEF Halt
<1> QED
  BY <1>2, <1>3 DEF stopWith, error

LEMMA NewDrive ==
  ASSUME NEW s, Sound(s), NEW d \in Drive, Len(d.cmd) <= CommandSize
  PROVE  Keeps(s, [s EXCEPT !.drive = d])
<1>1. s \in Machines
  BY DEF Sound
<1>2. [s EXCEPT !.drive = d] \in Machines
  BY <1>1, FieldUpdates
<1> QED
  BY <1>1, <1>2 DEF Keeps, Sound, Running, Machines

LEMMA NewCarry ==
  ASSUME NEW s, Sound(s), NEW c \in BOOLEAN
  PROVE  Keeps(s, [s EXCEPT !.carry = c]) /\ Keeps(s, [s EXCEPT !.status = 0])
<1>1. s \in Machines
  BY DEF Sound
<1>2. [s EXCEPT !.carry = c] \in Machines /\ [s EXCEPT !.status = 0] \in Machines
  BY <1>1, FieldUpdates
<1> QED
  BY <1>1, <1>2 DEF Keeps, Sound, Running, Machines

LEMMA NewBus ==
  ASSUME NEW s, Sound(s), NEW b \in Bus, b.role # "listen"
  PROVE  Keeps(s, [s EXCEPT !.bus = b])
<1>1. s \in Machines
  BY DEF Sound
<1>2. [s EXCEPT !.bus = b] \in Machines
  BY <1>1, FieldUpdates
<1> QED
  BY <1>1, <1>2 DEF Keeps, Sound, Running, Machines

LEMMA KeepsTransitive ==
  ASSUME NEW s, NEW t, NEW u, Keeps(s, t), Keeps(t, u)
  PROVE  Keeps(s, u)
  BY DEF Keeps

LEMMA KeepsItself ==
  ASSUME NEW s, Sound(s)
  PROVE  Keeps(s, s)
  BY DEF Keeps

-----------------------------------------------------------------------------
(***************************************************************************)
(* The drive.                                                              *)
(***************************************************************************)
LEMMA PointerWraps ==
  ASSUME NEW n \in Nat
  PROVE  n % SectorSize \in 0 .. SectorSize - 1
  BY MachineAssumption

LEMMA DriveOf ==
  ASSUME NEW s, Sound(s)
  PROVE  s \in Machines /\ s.drive \in Drive /\ Len(s.drive.cmd) <= CommandSize
  BY DEF Sound, Machines

LEMMA NewCommand ==
  ASSUME NEW s, Sound(s), NEW q \in Seq(Token), Len(q) <= CommandSize
  PROVE  Keeps(s, [s EXCEPT !.drive.cmd = q]) /\ [s EXCEPT !.drive.cmd = q].drive.cmd = q
<1>1. s \in Machines /\ s.drive \in Drive
  BY DriveOf
<1>2. [s.drive EXCEPT !.cmd = q] \in Drive /\ [s.drive EXCEPT !.cmd = q].cmd = q
  BY <1>1 DEF Drive
<1>3. Keeps(s, [s EXCEPT !.drive = [s.drive EXCEPT !.cmd = q]])
  BY <1>2, NewDrive
<1> QED
  BY <1>1, <1>2, <1>3 DEF Machines

LEMMA BufferUpdates ==
  ASSUME NEW s, Sound(s), NEW b \in BufferID
  PROVE  /\ \A ch \in Nibble : Keeps(s, [s EXCEPT !.drive.bufs[b].ch = ch])
         /\ \A p \in 0 .. SectorSize - 1 : Keeps(s, [s EXCEPT !.drive.bufs[b].ptr = p])
         /\ \A x \in Buffer : Keeps(s, [s EXCEPT !.drive.bufs[b] = x])
<1> DEFINE B == s.drive.bufs[b]
           With(buf) == [s.drive EXCEPT !.bufs[b] = buf]
<1>1. s \in Machines /\ s.drive \in Drive /\ Len(s.drive.cmd) <= CommandSize
  BY DriveOf
<1>2. B \in Buffer
  BY <1>1 DEF Drive
<1>3. \A buf \in Buffer : Keeps(s, [s EXCEPT !.drive = With(buf)])
  <2>1. \A buf \in Buffer : With(buf) \in Drive /\ With(buf).cmd = s.drive.cmd
    BY <1>1 DEF Drive
  <2> QED
    BY <1>1, <2>1, NewDrive
<1>4. ASSUME NEW ch \in Nibble
      PROVE  Keeps(s, [s EXCEPT !.drive.bufs[b].ch = ch])
  <2>1. [B EXCEPT !.ch = ch] \in Buffer
    BY <1>2 DEF Buffer
  <2> QED
    BY <1>3, <2>1
<1>5. ASSUME NEW p \in 0 .. SectorSize - 1
      PROVE  Keeps(s, [s EXCEPT !.drive.bufs[b].ptr = p])
  <2>1. [B EXCEPT !.ptr = p] \in Buffer
    BY <1>2 DEF Buffer
  <2> QED
    BY <1>3, <2>1
<1> QED
  BY <1>3, <1>4, <1>5

\* The commands over the command channel.  U1's pointer stays in the sector
\* because the sector has a last byte, B-P's because it is reduced to a byte.
LEMMA CommandKeeps ==
  ASSUME NEW s, Sound(s), NEW c \in Token
  PROVE  Keeps(s, execDiskCmd(s, c))
<1>1. s \in Machines /\ s.drive \in Drive
  BY DriveOf
<1>2. Keeps(s, [s EXCEPT !.drive = resetDrive(s.drive)])
  <2>1. \A b \in BufferID : [s.drive.bufs[b] EXCEPT !.ch = 0, !.ptr = 0] \in Buffer
    <3>1. \A b \in BufferID : s.drive.bufs[b] \in Buffer
      BY <1>1 DEF Drive
    <3>2. 0 \in Nibble /\ 0 \in 0 .. SectorSize - 1
      BY MachineAssumption DEF Nibble
    <3> QED
      BY <3>1, <3>2 DEF Buffer
  <2>2. resetDrive(s.drive) \in Drive
    <3>1. [hi |-> 0, lo |-> 0] \in Secondary
      BY DEF Secondary, Nibble
    <3>2. <<>> \in Seq(Token)
      OBVIOUS
    <3> QED
      BY <1>1, <2>1, <3>1, <3>2 DEF resetDrive, Drive
  <2>3. Len(resetDrive(s.drive).cmd) <= CommandSize
    BY <1>1, MachineAssumption DEF resetDrive, Drive
  <2> QED
    BY <2>2, <2>3, NewDrive
<1>3. Keeps(s, setBufferPointer(s, c))
  <2>1. c.arg % SectorSize \in 0 .. SectorSize - 1
    BY PointerWraps DEF Token
  <2>2. CASE BoundTo(s.drive, c.ch) = {}
    BY <2>2, Stopped DEF setBufferPointer
  <2>3. CASE BoundTo(s.drive, c.ch) # {}
    BY <2>1, <2>3, ChannelBuffer, BufferUpdates DEF setBufferPointer
  <2> QED
    BY <2>2, <2>3
<1>4. Keeps(s, readSector(s, c))
  <2>1. SectorSize - 1 \in 0 .. SectorSize - 1
    BY MachineAssumption
  <2>2. c.arg < SectorCount => c.arg \in Content
    BY MachineAssumption DEF Token, Content
  <2>3. CASE BoundTo(s.drive, c.ch) = {} \/ ~s.drive.mounted
    BY <2>3, Stopped DEF readSector
  <2>4. CASE ~(BoundTo(s.drive, c.ch) = {} \/ ~s.drive.mounted) /\ c.arg >= SectorCount
    BY <2>4, Stopped DEF readSector
  <2>5. CASE ~(BoundTo(s.drive, c.ch) = {} \/ ~s.drive.mounted) /\ ~(c.arg >= SectorCount)
    <3>1. getChannelBufferID(s.drive, c.ch) \in BufferID
      BY <2>5, ChannelBuffer
    <3>2. c.arg \in Content
      BY <2>2, <2>5, MachineAssumption DEF Token
    <3> DEFINE b == getChannelBufferID(s.drive, c.ch)
               x == [s.drive.bufs[b] EXCEPT !.data = c.arg, !.ptr = SectorSize - 1]
    <3>3. s.drive.bufs[b] \in Buffer
      BY <1>1, <3>1 DEF Drive
    <3>4. x \in Buffer
      BY <2>1, <3>2, <3>3 DEF Buffer
    <3>5. readSector(s, c) = [s EXCEPT !.drive.bufs[b] = x]
      BY <2>5 DEF readSector
    <3> HIDE DEF b, x
    <3> QED
      BY <3>1, <3>4, <3>5, BufferUpdates DEF b
  <2> QED
    BY <2>3, <2>4, <2>5
<1>5. Keeps(s, [s EXCEPT !.drive.recv = "ram"])
  <2>1. [s.drive EXCEPT !.recv = "ram"] \in Drive
    BY <1>1 DEF Drive
  <2>2. Len([s.drive EXCEPT !.recv = "ram"].cmd) <= CommandSize
    BY DriveOf DEF Drive
  <2> QED
    BY <2>1, <2>2, NewDrive
<1>6. Keeps(s, s) /\ Keeps(s, error(s))
  BY Stopped, KeepsItself
<1> QED
  BY <1>2, <1>3, <1>4, <1>5, <1>6 DEF execDiskCmd

LEMMA ParsedCommand ==
  ASSUME NEW q \in Seq(Token)
  PROVE  parseDiskCmd(q) \in Token
<1>1. NoCommand \in Token
  BY DEF NoCommand, Token, TokenOp, Byte
<1>2. q # <<>> => q[1] \in Token
  <2>1. q # <<>> => 1 \in 1 .. Len(q)
    BY EmptySeq
  <2> QED
    BY <2>1, ElementOfSeq
<1> QED
  BY <1>1, <1>2 DEF parseDiskCmd

LEMMA DiskCommandKeeps ==
  ASSUME NEW s, Sound(s)
  PROVE  Keeps(s, diskCommand(s))
<1>1. s.drive.cmd \in Seq(Token)
  BY DriveOf DEF Drive
<1>2. parseDiskCmd(s.drive.cmd) \in Token
  BY <1>1, ParsedCommand
<1> QED
  BY <1>2, CommandKeeps DEF diskCommand

LEMMA OpenFileKeeps ==
  ASSUME NEW s, Sound(s), NEW channel \in Nibble
  PROVE  Keeps(s, diskOpenFile(s, channel))
<1>1. Keeps(s, s) /\ Keeps(s, error(s))
  BY Stopped, KeepsItself
<1>2. \A b \in BufferID : Keeps(s, bindBuffer(s, b, channel))
  BY BufferUpdates DEF bindBuffer
<1>3. BoundTo(s.drive, 0) \subseteq BufferID
  BY DEF BoundTo
<1>4. BoundTo(s.drive, 0) # {} => LeastOf(BoundTo(s.drive, 0)) \in BufferID
  BY ChannelBuffer DEF getChannelBufferID
<1> QED
  BY <1>1, <1>2, <1>3, <1>4 DEF diskOpenFile

LEMMA DiskSecondKeeps ==
  ASSUME NEW s, Sound(s), NEW second \in Secondary
  PROVE  Keeps(s, diskSECOND(s, second)) /\ Keeps(s, diskTKSA(s, second))
<1>1. Keeps(s, [s EXCEPT !.drive.sec = second])
  <2>1. [s.drive EXCEPT !.sec = second] \in Drive
    BY DriveOf DEF Drive
  <2>2. Len([s.drive EXCEPT !.sec = second].cmd) <= CommandSize
    BY DriveOf DEF Drive
  <2> QED
    BY <2>1, <2>2, NewDrive
<1> QED
  BY <1>1, Stopped DEF diskSECOND, diskTKSA

\* A byte goes into the command buffer only while there is room for it.
LEMMA DiskCioutKeeps ==
  ASSUME NEW s, Sound(s), NEW token \in Token
  PROVE  Keeps(s, diskCIOUT(s, token))
<1>1. s.drive.cmd \in Seq(Token) /\ Len(s.drive.cmd) <= CommandSize
  BY DriveOf DEF Drive
<1>2. Append(s.drive.cmd, token) \in Seq(Token)
      /\ Len(Append(s.drive.cmd, token)) = Len(s.drive.cmd) + 1
  BY <1>1, AppendProperties
<1>3. Len(s.drive.cmd) # CommandSize => Len(Append(s.drive.cmd, token)) <= CommandSize
  <2>1. Len(s.drive.cmd) \in Nat
    BY <1>1, LenProperties
  <2> QED
    BY <1>1, <1>2, <2>1, MachineAssumption
<1>4. Len(s.drive.cmd) # CommandSize
        => Keeps(s, [s EXCEPT !.drive.cmd = Append(s.drive.cmd, token)])
  BY <1>2, <1>3, NewCommand
<1> QED
  BY <1>4, Stopped DEF diskCIOUT

\* The pointer wraps at the end of the sector.
LEMMA DiskAcptrKeeps ==
  ASSUME NEW s, Sound(s)
  PROVE  Keeps(s, diskACPTR(s))
<1> DEFINE channel == s.drive.sec.lo
           b == getChannelBufferID(s.drive, channel)
<1>1. CASE s.fa < 8 \/ channel = 15 \/ BoundTo(s.drive, channel) = {}
  BY <1>1, Stopped, KeepsItself DEF diskACPTR
<1>2. CASE ~(s.fa < 8 \/ channel = 15 \/ BoundTo(s.drive, channel) = {})
  <2>1. b \in BufferID
    BY <1>2, ChannelBuffer
  <2>2. s.drive.bufs[b].ptr \in 0 .. SectorSize - 1
    BY <2>1, DriveOf DEF Drive, Buffer
  <2> DEFINE next == (s.drive.bufs[b].ptr + 1) % SectorSize
  <2>3. next \in 0 .. SectorSize - 1
    <3>1. \A n \in 0 .. SectorSize - 1 : n + 1 \in Nat
      BY MachineAssumption
    <3> QED
      BY <2>2, <3>1, PointerWraps
  <2>4. diskACPTR(s) = [s EXCEPT !.drive.bufs[b].ptr = next]
    BY <1>2 DEF diskACPTR
  <2> HIDE DEF next
  <2> QED
    BY <2>1, <2>3, <2>4, BufferUpdates
<1> QED
  BY <1>1, <1>2

LEMMA DiskUnlsnKeeps ==
  ASSUME NEW s, Sound(s)
  PROVE  Keeps(s, diskUNLSN(s))
<1>1. s.drive.sec.lo \in Nibble
  BY DriveOf DEF Drive, Secondary
<1> QED
  BY <1>1, DiskCommandKeeps, OpenFileKeeps, Stopped, KeepsItself DEF diskUNLSN

-----------------------------------------------------------------------------
(***************************************************************************)
(* The serial bus calls.                                                   *)
(***************************************************************************)
LEMMA TakeBus ==
  ASSUME NEW s \in Machines, NEW dev \in Device, NEW role \in {"listen", "talk"}
  PROVE  [s EXCEPT !.fa = dev, !.bus = [role |-> role, dev |-> dev]] \in Machines
<1>1. [role |-> role, dev |-> dev] \in Bus
  BY DEF Bus
<1> QED
  BY <1>1 DEF Machines

\* Only device 8 is left listening, and it begins with an empty command.
LEMMA ListenKeeps ==
  ASSUME NEW s, Sound(s), NEW dev \in Device
  PROVE  /\ Keeps(s, LISTEN(s, dev))
         /\ Running(LISTEN(s, dev)) => LISTEN(s, dev).drive.cmd = <<>>
<1> DEFINE t == [s EXCEPT !.fa = dev, !.bus = [role |-> "listen", dev |-> dev]]
<1>1. s \in Machines /\ t \in Machines
  BY DriveOf, TakeBus
<1>2. CASE ~Running(s)
  BY <1>2, KeepsItself DEF LISTEN, IfRunning
<1>3. CASE Running(s) /\ dev = 8
  <2>1. LISTEN(s, dev) = [t EXCEPT !.drive.cmd = <<>>]
    BY <1>3 DEF LISTEN, IfRunning, diskLISTEN
  <2>2. t.drive = s.drive /\ t.files = s.files /\ t.name = s.name /\ t.bus.dev = 8
    BY <1>1, <1>3 DEF Machines
  <2>3. Sound(t)
    BY <1>1, <2>2 DEF Sound
  <2>4. <<>> \in Seq(Token) /\ Len(<<>>) <= CommandSize
    BY EmptySeq, MachineAssumption
  <2> HIDE DEF t
  <2>5. Keeps(t, [t EXCEPT !.drive.cmd = <<>>])
        /\ [t EXCEPT !.drive.cmd = <<>>].drive.cmd = <<>>
    BY <2>3, <2>4, NewCommand
  <2> QED
    BY <2>1, <2>2, <2>5 DEF Keeps
<1>4. CASE Running(s) /\ dev # 8
  <2>1. LISTEN(s, dev) = [t EXCEPT !.halt = "error"]
    BY <1>4 DEF LISTEN, IfRunning, error
  <2>2. [t EXCEPT !.halt = "error"] \in Machines
    BY <1>1, FieldUpdates DEF Halt
  <2> QED
    BY <1>1, <2>1, <2>2 DEF Keeps, Sound, Running, Machines
<1> QED
  BY <1>2, <1>3, <1>4

LEMMA TalkKeeps ==
  ASSUME NEW s, Sound(s), NEW dev \in Device
  PROVE  Keeps(s, TALK(s, dev))
<1> DEFINE t == [s EXCEPT !.fa = dev, !.bus = [role |-> "talk", dev |-> dev]]
<1>1. s \in Machines /\ t \in Machines
  BY DriveOf, TakeBus
<1>2. Keeps(s, t)
  BY <1>1 DEF Keeps, Sound, Machines
<1> QED
  BY <1>2, KeepsItself DEF TALK, IfRunning

LEMMA SecondKeeps ==
  ASSUME NEW s, Sound(s), NEW second \in Secondary
  PROVE  Keeps(s, SECOND(s, second)) /\ Keeps(s, TKSA(s, second))
  BY DiskSecondKeeps, Stopped, KeepsItself DEF SECOND, TKSA, IfRunning

LEMMA CioutKeeps ==
  ASSUME NEW s, Sound(s), NEW token \in Token
  PROVE  Keeps(s, CIOUT(s, token))
  BY DiskCioutKeeps, Stopped, KeepsItself DEF CIOUT, IfRunning

LEMMA IdleKeeps ==
  ASSUME NEW s, Sound(s)
  PROVE  Keeps(s, [s EXCEPT !.bus = IdleBus])
<1>1. IdleBus \in Bus /\ IdleBus.role # "listen"
  BY DEF IdleBus, Bus, Device
<1> QED
  BY <1>1, NewBus

LEMMA UnlsnKeeps ==
  ASSUME NEW s, Sound(s)
  PROVE  Keeps(s, UNLSN(s)) /\ Keeps(s, UNTLK(s))
<1>1. Keeps(s, diskUNLSN(s))
  BY DiskUnlsnKeeps
<1>2. Keeps(s, [diskUNLSN(s) EXCEPT !.bus = IdleBus])
  BY <1>1, IdleKeeps DEF Keeps
<1> QED
  BY <1>1, <1>2, Stopped, KeepsItself, IdleKeeps DEF UNLSN, UNTLK, IfRunning

LEMMA AcptrKeeps ==
  ASSUME NEW s, Sound(s)
  PROVE  Keeps(s, ACPTR(s))
<1>1. Keeps(s, diskACPTR(s))
  BY DiskAcptrKeeps
<1>2. Keeps(s, [diskACPTR(s) EXCEPT !.carry = FALSE])
  BY <1>1, NewCarry DEF Keeps
<1> QED
  BY <1>1, <1>2, Stopped, KeepsItself DEF ACPTR, IfRunning

-----------------------------------------------------------------------------
(***************************************************************************)
(* Errors, and the file calls that leave the table alone.                  *)
(***************************************************************************)
LEMMA DefaultDevicesKeeps ==
  ASSUME NEW s, Sound(s)
  PROVE  Keeps(s, DefaultDevices(s))
<1>1. s \in Machines /\ [s EXCEPT !.dflto = 3, !.dfltn = 0] \in Machines
  BY DriveOf, FieldUpdates
<1>2. Keeps(s, [s EXCEPT !.dflto = 3, !.dfltn = 0])
  BY <1>1 DEF Keeps, Sound, Running, Machines
<1> QED
  BY <1>2, KeepsItself DEF DefaultDevices, IfRunning

LEMMA ClrchKeeps ==
  ASSUME NEW s, Sound(s)
  PROVE  Keeps(s, romCLRCH(s)) /\ Keeps(s, romClrch(s))
<1>1. ASSUME NEW t, t \in {s, UNLSN(s)}, NEW u, u \in {t, UNTLK(t)}
      PROVE  Keeps(s, DefaultDevices(u))
  <2>1. Keeps(s, t)
    BY <1>1, UnlsnKeeps, KeepsItself
  <2>2. Sound(t)
    BY <2>1 DEF Keeps
  <2>3. Keeps(t, u)
    BY <1>1, <2>2, UnlsnKeeps, KeepsItself
  <2>4. Sound(u)
    BY <2>3 DEF Keeps
  <2>5. Keeps(u, DefaultDevices(u))
    BY <2>4, DefaultDevicesKeeps
  <2> QED
    BY <2>1, <2>3, <2>5 DEF Keeps
<1> QED
  BY <1>1 DEF romCLRCH, romClrch

LEMMA CarryClearKeeps ==
  ASSUME NEW s, Sound(s)
  PROVE  Keeps(s, carryClear(s))
  BY NewCarry, KeepsItself DEF carryClear, IfRunning

LEMMA ErrorKeeps ==
  ASSUME NEW s, Sound(s)
  PROVE  Keeps(s, romError(s))
<1>1. Keeps(s, romCLRCH(s))
  BY ClrchKeeps
<1>2. Keeps(romCLRCH(s), [romCLRCH(s) EXCEPT !.carry = TRUE])
  BY <1>1, NewCarry DEF Keeps
<1> QED
  BY <1>1, <1>2 DEF romError, IfRunning, Keeps

LEMMA HighNibble ==
  ASSUME NEW sa \in Secondary, NEW h \in Nibble
  PROVE  [sa EXCEPT !.hi = h] \in Secondary
  BY DEF Secondary

\* The command buffer is empty when OPEN sends the name, which is no longer
\* than the buffer.
\* A name that follows nothing fits into the command buffer.
LEMMA SendNameKeeps ==
  ASSUME NEW s, Sound(s), Running(s) => s.drive.cmd = <<>>
  PROVE  Keeps(s, sendName(s))
<1>1. CASE ~Running(s)
  BY <1>1, KeepsItself DEF sendName, IfRunning
<1>2. CASE Running(s)
  <2>1. s.drive.cmd = <<>> /\ s.name \in Seq(Token)
    BY <1>2, DriveOf DEF Machines
  <2>2. s.drive.cmd \o s.name = s.name
    BY <2>1, ConcatEmptySeq
  <2>3. Len(s.name) <= CommandSize
    BY <2>1, LenProperties, MachineAssumption DEF Sound
  <2>4. sendName(s) = [s EXCEPT !.drive.cmd = s.name]
    BY <1>2, <2>2 DEF sendName, IfRunning
  <2> QED
    BY <2>1, <2>3, <2>4, NewCommand
<1> QED
  BY <1>1, <1>2

LEMMA DiskOpenKeeps ==
  ASSUME NEW s, Sound(s)
  PROVE  Keeps(s, diskOPEN(s))
<1> DEFINE s1 == [s EXCEPT !.status = 0]
           t == LISTEN(s1, s.fa)
           u == SECOND(t, [s.sa EXCEPT !.hi = 15])
           v == sendName(u)
<1>1. Keeps(s, s1)
  BY NewCarry
<1>2. s.fa \in Device /\ [s.sa EXCEPT !.hi = 15] \in Secondary
  <2>1. s.fa \in Device /\ s.sa \in Secondary
    BY DriveOf DEF Machines
  <2>2. {14, 15} \subseteq Nibble
    BY DEF Nibble
  <2> QED
    BY <2>1, <2>2, HighNibble
<1>3. Keeps(s1, t) /\ (Running(t) => t.drive.cmd = <<>>)
  BY <1>1, <1>2, ListenKeeps DEF Keeps
<1>4. Keeps(t, u) /\ (Running(u) => u.drive.cmd = <<>>)
  <2>1. Sound(t)
    BY <1>3 DEF Keeps
  <2> HIDE DEF t
  <2>2. Keeps(t, u)
    BY <1>2, <2>1, SecondKeeps
  <2>3. CASE u = t
    BY <1>3, <2>2, <2>3
  <2>4. CASE ~Running(u)
    BY <2>2, <2>4
  <2>5. CASE Running(t) /\ u = [t EXCEPT !.drive.sec = [s.sa EXCEPT !.hi = 15]]
    <3>1. t.drive \in Drive /\ t \in Machines
      BY <2>1, DriveOf
    <3>2. u.drive = [t.drive EXCEPT !.sec = [s.sa EXCEPT !.hi = 15]]
      BY <2>5, <3>1 DEF Machines
    <3>3. u.drive.cmd = t.drive.cmd
      BY <3>1, <3>2 DEF Drive
    <3> QED
      BY <1>3, <2>2, <2>5, <3>3
  <2>6. u = t \/ ~Running(u) \/ (Running(t) /\ u = [t EXCEPT !.drive.sec = [s.sa EXCEPT !.hi = 15]])
    <3>1. ~Running(error(t)) /\ ~Running(stopWith(t, "assert FA"))
      BY <2>1, DriveOf DEF error, stopWith, Running, Machines
    <3> QED
      BY <3>1 DEF SECOND, IfRunning, diskSECOND
  <2> QED
    BY <2>3, <2>4, <2>5, <2>6
<1>5. Keeps(u, v)
  <2>1. Sound(u)
    BY <1>4 DEF Keeps
  <2> HIDE DEF u
  <2> QED
    BY <1>4, <2>1, SendNameKeeps
<1>6. Keeps(v, UNLSN(v))
  BY <1>5, UnlsnKeeps DEF Keeps
<1>7. Keeps(s, UNLSN(v))
  BY <1>1, <1>3, <1>4, <1>5, <1>6 DEF Keeps
<1>8. diskOPEN(s) = s \/ diskOPEN(s) = UNLSN(v)
  BY DEF diskOPEN
<1> HIDE DEF v
<1> QED
  BY <1>7, <1>8, KeepsItself

\* A device without a driver ends the process: what OPEN leaves running has one.
LEMMA OpenDeviceKeeps ==
  ASSUME NEW s, Sound(s)
  PROVE  /\ Keeps(s, openDevice(s))
         /\ Running(openDevice(s)) => s.fa \in {0, 3} \cup 8 .. 31
<1>1. s \in Machines /\ s.fa \in Device
  BY DriveOf DEF Machines
<1>2. ~Running(error(s))
  BY <1>1 DEF error, Running, Machines
<1>3. s.fa >= 8 => s.fa \in 8 .. 31
  BY <1>1 DEF Device
<1> QED
  BY <1>2, <1>3, DiskOpenKeeps, Stopped, KeepsItself DEF openDevice

LEMMA CloseDeviceKeeps ==
  ASSUME NEW s, Sound(s)
  PROVE  Keeps(s, closeDevice(s))
<1> DEFINE t == LISTEN(s, s.fa)
           u == SECOND(t, [s.sa EXCEPT !.hi = 14])
<1>1. s.fa \in Device /\ [s.sa EXCEPT !.hi = 14] \in Secondary
  <2>1. s.fa \in Device /\ s.sa \in Secondary
    BY DriveOf DEF Machines
  <2>2. {14, 15} \subseteq Nibble
    BY DEF Nibble
  <2> QED
    BY <2>1, <2>2, HighNibble
<1>2. Keeps(s, t)
  BY <1>1, ListenKeeps
<1>3. Keeps(t, u)
  BY <1>1, <1>2, SecondKeeps DEF Keeps
<1>4. Keeps(u, UNLSN(u))
  BY <1>3, UnlsnKeeps DEF Keeps
<1>5. Keeps(s, UNLSN(u))
  BY <1>2, <1>3, <1>4 DEF Keeps
<1>6. Keeps(s, carryClear(s)) /\ Keeps(s, carryClear(UNLSN(u)))
  BY <1>5, CarryClearKeeps DEF Keeps
<1>7. romCloseSerial(s) = carryClear(s) \/ romCloseSerial(s) = carryClear(UNLSN(u))
  BY Zenon DEF romCloseSerial
<1> HIDE DEF u
<1>8. Keeps(s, romCloseSerial(s))
  BY <1>6, <1>7
<1> QED
  BY <1>8, Stopped, KeepsItself DEF closeDevice

LEMMA BytesKeep ==
  ASSUME NEW s, Sound(s)
  PROVE  Keeps(s, romBasin(s)) /\ \A token \in Token : Keeps(s, romBsout(s, token))
  BY CioutKeeps, AcptrKeeps, NewCarry, Stopped, KeepsItself DEF romBsout, romBasin

-----------------------------------------------------------------------------
(***************************************************************************)
(* The file table.                                                         *)
(***************************************************************************)
LEMMA FetchKeeps ==
  ASSUME NEW s, Sound(s), NEW row \in 1 .. Len(s.files)
  PROVE  Keeps(s, romFetchFileTableEntries(s, row))
<1>1. s \in Machines /\ s.files[row] \in Row
  BY DriveOf, ElementOfSeq DEF Machines
<1>2. s.files[row].la \in Numbers /\ s.files[row].fa \in Device /\ s.files[row].sa \in Secondary
  BY <1>1 DEF Row
<1>3. romFetchFileTableEntries(s, row) \in Machines
  BY <1>1, <1>2 DEF romFetchFileTableEntries, Machines
<1> QED
  BY <1>1, <1>3 DEF romFetchFileTableEntries, Keeps, Sound, Running, Machines

LEMMA ChkinKeeps ==
  ASSUME NEW s0, Sound(s0), NEW number
  PROVE  Keeps(s0, romCHKIN(s0, number))
<1> DEFINE s == [s0 EXCEPT !.status = 0]
           t == romFetchFileTableEntries(s, romLookup(s.files, number))
<1>1. Keeps(s0, s) /\ Sound(s)
  BY NewCarry DEF Keeps
<1>2. CASE ~IsOpen(s.files, number)
  <2>1. romCHKIN(s0, number) = romError(s)
    BY <1>2 DEF romCHKIN
  <2> QED
    BY <1>1, <2>1, ErrorKeeps DEF Keeps
<1>3. CASE IsOpen(s.files, number)
  <2>1. romLookup(s.files, number) \in 1 .. Len(s.files)
    BY <1>1, <1>3, DriveOf, FoundRow DEF Machines
  <2>2. Keeps(s, t) /\ Sound(t)
    BY <1>1, <2>1, FetchKeeps DEF Keeps
  <2>3. t.fa \in Device /\ t.sa \in Secondary
    BY <2>2, DriveOf DEF Machines
  <2>4. Keeps(t, TALK(t, t.fa)) /\ Sound(TALK(t, t.fa))
    BY <2>2, <2>3, TalkKeeps DEF Keeps
  <2>5. Keeps(TALK(t, t.fa), TKSA(TALK(t, t.fa), t.sa))
    BY <2>3, <2>4, SecondKeeps
  <2>6. Keeps(t, t) /\ Keeps(t, error(t))
    BY <2>2, KeepsItself, Stopped
  <2>7. romCHKIN(s0, number) \in {t, error(t), TKSA(TALK(t, t.fa), t.sa)}
    BY <1>3 DEF romCHKIN
  <2> HIDE DEF s, t
  <2>8. Keeps(t, romCHKIN(s0, number))
    BY <2>4, <2>5, <2>6, <2>7 DEF Keeps
  <2> QED
    BY <1>1, <2>2, <2>8 DEF Keeps
<1> QED
  BY <1>2, <1>3

\* SA |= 0x60 leaves one of four commands, with or without the top and low bits.
LEMMA SerialCommandRange ==
  ASSUME NEW sa \in Secondary
  PROVE  SerialCommand(sa) \in Secondary /\ SerialCommand(sa).hi \in {6, 7, 14, 15}
<1>1. \A h \in Nibble : ((h \div 8) * 8) + 6 + (h % 2) \in {6, 7, 14, 15}
  <2>1. \A h \in Nibble : h \div 8 \in {0, 1} /\ h % 2 \in {0, 1}
    BY DEF Nibble
  <2> QED
    BY <2>1
<1>2. sa.hi \in Nibble
  BY DEF Secondary
<1>3. {6, 7, 14, 15} \subseteq Nibble
  BY DEF Nibble
<1> DEFINE h == ((sa.hi \div 8) * 8) + 6 + (sa.hi % 2)
<1>4. h \in {6, 7, 14, 15}
  BY <1>1, <1>2
<1>5. SerialCommand(sa) = [sa EXCEPT !.hi = h]
  BY DEF SerialCommand
<1> HIDE DEF h
<1>6. [sa EXCEPT !.hi = h].hi = h
  BY DEF Secondary
<1> QED
  BY <1>3, <1>4, <1>5, <1>6, HighNibble

LEMMA RowAppended ==
  ASSUME NEW files \in Seq(Row), Table(files), Len(files) # MaxFiles,
         NEW row \in Row, ~IsOpen(files, row.la), row.sa.hi \in {6, 7, 14, 15}
  PROVE  /\ Append(files, row) \in Seq(Row)
         /\ Table(Append(files, row))
         /\ Driven(files) /\ row.fa \in {0, 3} \cup 8 .. 31 => Driven(Append(files, row))
<1> DEFINE new == Append(files, row)
           n == Len(files)
<1>1. n \in Nat /\ DOMAIN files = 1 .. n
  BY LenProperties
<1>2. /\ new \in Seq(Row)
      /\ Len(new) = n + 1
      /\ \A i \in 1 .. n : new[i] = files[i]
      /\ new[n + 1] = row
  BY AppendProperties
<1>3. DOMAIN new = 1 .. n + 1
  BY <1>2, LenProperties
<1>4. \A i \in 1 .. n : files[i].la # row.la
  <2>1. RowsOf(files, row.la) = {}
    BY DEF IsOpen
  <2>2. \A i \in 1 .. n : i \notin RowsOf(files, row.la)
    BY <2>1
  <2> QED
    BY <1>1, <2>2 DEF RowsOf
<1>5. n + 1 <= MaxFiles
  <2>1. n <= MaxFiles /\ n # MaxFiles
    BY DEF Table
  <2> HIDE DEF n
  <2> QED
    BY <1>1, <2>1, MachineAssumption
<1>6. \A i \in 1 .. n + 1 : i \in 1 .. n \/ i = n + 1
  BY <1>1
<1> HIDE DEF new
<1>7. ASSUME NEW i \in DOMAIN new, NEW j \in DOMAIN new, new[i].la = new[j].la
      PROVE  i = j
  <2>1. CASE i \in 1 .. n /\ j \in 1 .. n
    BY <1>1, <1>2, <1>7, <2>1 DEF Table
  <2>2. CASE i = n + 1 /\ j = n + 1
    BY <2>2
  <2>3. CASE (i \in 1 .. n /\ j = n + 1) \/ (i = n + 1 /\ j \in 1 .. n)
    BY <1>2, <1>4, <1>7, <2>3
  <2> QED
    BY <1>3, <1>6, <2>1, <2>2, <2>3
<1>8. \A i \in DOMAIN new : new[i].sa.hi \in {6, 7, 14, 15}
  BY <1>1, <1>2, <1>3, <1>6 DEF Table
<1>9. Table(new)
  BY <1>2, <1>5, <1>7, <1>8 DEF Table
<1>10. Driven(files) /\ row.fa \in {0, 3} \cup 8 .. 31 => Driven(new)
  BY <1>1, <1>2, <1>3, <1>6 DEF Driven
<1> QED
  BY <1>2, <1>9, <1>10 DEF new

\* Compaction: the last row fills the hole, every other row stays in place.
LEMMA RowRemoved ==
  ASSUME NEW files \in Seq(Row), Table(files), NEW row \in 1 .. Len(files)
  PROVE  /\ removeFileTableEntry(files, row) \in Seq(Row)
         /\ Table(removeFileTableEntry(files, row))
         /\ Driven(files) => Driven(removeFileTableEntry(files, row))
<1> DEFINE new == removeFileTableEntry(files, row)
           last == Len(files)
           From(i) == IF i = row THEN last ELSE i
<1>1. last \in Nat /\ DOMAIN files = 1 .. last /\ row \in Nat
  BY LenProperties
<1>2. \A i \in 1 .. last - 1 : From(i) \in 1 .. last
  BY <1>1
<1>3. \A i, j \in 1 .. last - 1 : From(i) = From(j) => i = j
  BY <1>1
<1>4. new = [i \in 1 .. last - 1 |-> files[From(i)]]
  BY DEF removeFileTableEntry
<1>5. \A i \in 1 .. last - 1 : files[From(i)] \in Row
  BY <1>2, ElementOfSeq
<1>6. last - 1 \in Nat
  BY <1>1
<1> HIDE DEF new, From
<1>7. new \in [1 .. last - 1 -> Row]
  BY <1>4, <1>5
<1>8. new \in Seq(Row)
  BY <1>6, <1>7, SeqDef
<1>9. DOMAIN new = 1 .. last - 1 /\ Len(new) = last - 1
  BY <1>6, <1>7, <1>8, LenProperties
<1>10. \A i \in DOMAIN new : new[i] = files[From(i)] /\ From(i) \in DOMAIN files
  BY <1>1, <1>2, <1>4, <1>9
<1>11. Len(new) <= MaxFiles
  BY <1>1, <1>9, MachineAssumption DEF Table
<1>12. \A i, j \in DOMAIN new : new[i].la = new[j].la => i = j
  BY <1>3, <1>9, <1>10 DEF Table
<1>13. \A i \in DOMAIN new : new[i].sa.hi \in {6, 7, 14, 15}
  BY <1>10 DEF Table
<1>14. Driven(files) => Driven(new)
  BY <1>10 DEF Driven
<1> QED
  BY <1>8, <1>11, <1>12, <1>13, <1>14 DEF Table, new

LEMMA GoodKept ==
  ASSUME NEW s, Good(s), Running(s), NEW t, Keeps(s, t)
  PROVE  Good(t)
  BY DEF Good, Keeps

LEMMA OpenGood ==
  ASSUME NEW s0, Good(s0), Running(s0)
  PROVE  Good(romOpen(s0))
<1> DEFINE s == [s0 EXCEPT !.status = 0]
           sa == SerialCommand(s.sa)
           row == [la |-> s.la, fa |-> s.fa, sa |-> sa]
           f == enterFile(s)
           t == openDevice(f)
<1>1. Keeps(s0, s) /\ Sound(s) /\ s \in Machines
  BY NewCarry DEF Good, Keeps, Sound
<1>2. Table(s.files) /\ Driven(s.files)
  BY <1>1 DEF Good, Keeps
<1>3. CASE IsOpen(s.files, s.la) \/ Len(s.files) = MaxFiles
  <2>1. romOpen(s0) = romError(s)
    BY <1>3 DEF romOpen
  <2> QED
    BY <1>1, <2>1, ErrorKeeps, GoodKept DEF Keeps
<1>4. CASE ~(IsOpen(s.files, s.la) \/ Len(s.files) = MaxFiles)
  <2>1. s.la \in Numbers /\ s.fa \in Device /\ s.sa \in Secondary /\ s.files \in Seq(Row)
    BY <1>1 DEF Machines
  <2>2. sa \in Secondary /\ sa.hi \in {6, 7, 14, 15}
    BY <2>1, SerialCommandRange
  <2> HIDE DEF sa
  <2>3. row \in Row /\ row.la = s.la /\ row.fa = s.fa /\ row.sa = sa
    BY <2>1, <2>2 DEF Row
  <2>4. f = [s EXCEPT !.sa = sa, !.files = Append(s.files, row)]
    BY DEF enterFile, sa
  <2> HIDE DEF row
  <2>5. /\ Append(s.files, row) \in Seq(Row)
        /\ Table(Append(s.files, row))
        /\ row.fa \in {0, 3} \cup 8 .. 31 => Driven(Append(s.files, row))
    BY <1>2, <1>4, <2>1, <2>2, <2>3, RowAppended
  <2> HIDE DEF s
  <2>6. f \in Machines /\ f.files = Append(s.files, row) /\ f.fa = s.fa
    BY <1>1, <2>2, <2>4, <2>5 DEF Machines
  <2>7. f.drive = s.drive /\ f.name = s.name /\ f.bus = s.bus /\ f.halt = s.halt
    BY <1>1, <2>4 DEF Machines
  <2>8. Sound(f)
    BY <1>1, <2>6, <2>7 DEF Sound, Running
  <2> HIDE DEF f
  <2>9. Keeps(f, t) /\ (Running(t) => f.fa \in {0, 3} \cup 8 .. 31)
    BY <2>8, OpenDeviceKeeps
  <2> HIDE DEF t
  <2>10. Keeps(t, carryClear(t)) /\ (Running(carryClear(t)) => Running(t))
    BY <2>9, CarryClearKeeps DEF Keeps, carryClear, IfRunning
  <2>11. romOpen(s0) = carryClear(t)
    BY <1>4 DEF romOpen, s, t, f
  <2> QED
    BY <2>3, <2>5, <2>6, <2>9, <2>10, <2>11 DEF Good, Keeps
<1> QED
  BY <1>3, <1>4

LEMMA CloseGood ==
  ASSUME NEW s, Good(s), Running(s), NEW number
  PROVE  Good(romClose(s, number))
<1> DEFINE row == romLookup(s.files, number)
           f == romFetchFileTableEntries(s, row)
           t == closeDevice(f)
           u == IfRunning(t, [t EXCEPT !.files = removeFileTableEntry(@, row)])
<1>1. Sound(s) /\ s \in Machines /\ s.files \in Seq(Row) /\ Table(s.files) /\ Driven(s.files)
  BY DriveOf DEF Good, Machines
<1>2. CASE ~IsOpen(s.files, number)
  <2>1. romClose(s, number) = carryClear(s)
    BY <1>2 DEF romClose
  <2> QED
    BY <1>1, <2>1, CarryClearKeeps, GoodKept
<1>3. CASE IsOpen(s.files, number)
  <2>1. row \in 1 .. Len(s.files)
    BY <1>1, <1>3, FoundRow
  <2> HIDE DEF row
  <2>2. Keeps(s, f)
    BY <1>1, <2>1, FetchKeeps
  <2> HIDE DEF f
  <2>3. Keeps(f, t)
    BY <2>2, CloseDeviceKeeps DEF Keeps
  <2> HIDE DEF t
  <2>4. Sound(t) /\ t \in Machines /\ t.files = s.files
    BY <2>2, <2>3, DriveOf DEF Keeps
  <2> DEFINE rest == removeFileTableEntry(t.files, row)
             v == [t EXCEPT !.files = rest]
  <2>5. rest \in Seq(Row) /\ Table(rest) /\ Driven(rest)
    BY <1>1, <2>1, <2>4, RowRemoved
  <2>6. u = IfRunning(t, v)
    OBVIOUS
  <2> HIDE DEF rest, u
  <2>7. v \in Machines
    BY <2>4, <2>5, FieldUpdates
  <2>8. v.files = rest /\ v.drive = t.drive /\ v.name = t.name /\ v.bus = t.bus /\ v.halt = t.halt
    BY <2>4 DEF Machines
  <2> HIDE DEF v
  <2>9. Good(v)
    BY <2>4, <2>5, <2>7, <2>8 DEF Good, Sound, Running
  <2>10. Good(t)
    BY <1>1, <2>4 DEF Good
  <2>11. Good(u)
    BY <2>6, <2>9, <2>10 DEF IfRunning
  <2>12. romClose(s, number) = carryClear(u)
    BY <1>3 DEF romClose, u, v, rest, t, f, row
  <2>13. CASE Running(u)
    BY <2>11, <2>12, <2>13, CarryClearKeeps, GoodKept DEF Good
  <2>14. CASE ~Running(u)
    BY <2>11, <2>12, <2>14 DEF carryClear, IfRunning
  <2> QED
    BY <2>13, <2>14
<1> QED
  BY <1>2, <1>3

-----------------------------------------------------------------------------
(***************************************************************************)
(* The invariant holds initially and every call preserves it.              *)
(***************************************************************************)
LEMMA FreshDriveType ==
  ASSUME NEW disk \in BOOLEAN
  PROVE  FreshDrive(disk) \in Drive /\ FreshDrive(disk).cmd = <<>>
<1>1. [ch |-> 0, ptr |-> 0, data |-> Blank] \in Buffer
  BY MachineAssumption DEF Buffer, Nibble, Content, Blank
<1>2. [hi |-> 0, lo |-> 0] \in Secondary
  BY DEF Secondary, Nibble
<1>3. <<>> \in Seq(Token)
  BY EmptySeq
<1> QED
  BY <1>1, <1>2, <1>3 DEF FreshDrive, Drive

LEMMA InitGood == Init => Inv
<1> SUFFICES ASSUME NEW n \in Numbers, NEW dev \in Devices, NEW second \in Secondaries,
                    NEW input \in Inputs, NEW output \in Outputs, NEW st \in Statuses,
                    NEW disk \in Disks,
                    m = [la |-> n, fa |-> dev, sa |-> second, name |-> <<>>,
                         files |-> <<>>, dfltn |-> input, dflto |-> output, status |-> st,
                         carry |-> FALSE, bus |-> IdleBus, drive |-> FreshDrive(disk),
                         halt |-> "running"]
             PROVE  Inv
  BY DEF Init
<1>1. dev \in Device /\ second \in Secondary /\ input \in Byte /\ output \in Byte
      /\ st \in Byte /\ disk \in BOOLEAN
  BY KernalAssumption
<1>2. IdleBus \in Bus /\ IdleBus.role # "listen"
  BY DEF IdleBus, Bus, Device
<1>3. FreshDrive(disk) \in Drive /\ FreshDrive(disk).cmd = <<>>
  BY <1>1, FreshDriveType
<1>4. <<>> \in Seq(Token) /\ <<>> \in Seq(Row) /\ Len(<<>>) = 0
  BY EmptySeq
<1>5. "running" \in Halt
  BY DEF Halt
<1>6. m \in Machines
  BY <1>1, <1>2, <1>3, <1>4, <1>5 DEF Machines
<1>7. Sound(m)
  BY <1>2, <1>3, <1>4, <1>6, MachineAssumption DEF Sound
<1>8. Table(m.files) /\ Driven(m.files)
  BY <1>4, MachineAssumption DEF Table, Driven
<1> QED
  BY <1>7, <1>8 DEF Inv, Good

\* The cells SETLFS and SETNAM write.
LEMMA SetGood ==
  ASSUME NEW s, Good(s), Running(s)
  PROVE  /\ \A n \in Numbers, dev \in Device, sa \in Secondary :
              Good([s EXCEPT !.la = n, !.fa = dev, !.sa = sa])
         /\ \A q \in Seq(Token) : Len(q) <= NameSize => Good([s EXCEPT !.name = q])
         /\ Good([s EXCEPT !.files = <<>>])
<1>1. s \in Machines /\ Sound(s) /\ Table(s.files) /\ Driven(s.files)
  BY DriveOf DEF Good
<1>2. ASSUME NEW n \in Numbers, NEW dev \in Device, NEW sa \in Secondary
      PROVE  Good([s EXCEPT !.la = n, !.fa = dev, !.sa = sa])
  <2> DEFINE t == [s EXCEPT !.la = n, !.fa = dev, !.sa = sa]
  <2>1. t \in Machines
    BY <1>1 DEF Machines
  <2>2. Keeps(s, t)
    BY <1>1, <2>1 DEF Keeps, Sound, Running, Machines
  <2> QED
    BY <2>2, GoodKept
<1>3. ASSUME NEW q \in Seq(Token), Len(q) <= NameSize
      PROVE  Good([s EXCEPT !.name = q])
  <2> DEFINE t == [s EXCEPT !.name = q]
  <2>1. t \in Machines
    BY <1>1 DEF Machines
  <2>2. t.files = s.files /\ t.name = q /\ t.drive = s.drive /\ t.bus = s.bus /\ t.halt = s.halt
    BY <1>1 DEF Machines
  <2> HIDE DEF t
  <2>3. Good(t)
    BY <1>1, <1>3, <2>1, <2>2 DEF Good, Sound, Running
  <2> QED
    BY <2>3 DEF t
<1>4. Good([s EXCEPT !.files = <<>>])
  <2> DEFINE t == [s EXCEPT !.files = <<>>]
  <2>1. <<>> \in Seq(Row) /\ Len(<<>>) = 0
    BY EmptySeq
  <2>2. t \in Machines
    BY <1>1, <2>1, FieldUpdates
  <2>3. t.files = <<>> /\ t.name = s.name /\ t.drive = s.drive /\ t.bus = s.bus /\ t.halt = s.halt
    BY <1>1 DEF Machines
  <2>4. Table(<<>>) /\ Driven(<<>>)
    BY <2>1, MachineAssumption DEF Table, Driven
  <2> HIDE DEF t
  <2>5. Good(t)
    BY <1>1, <2>2, <2>3, <2>4 DEF Good, Sound, Running
  <2> QED
    BY <2>5 DEF t
<1> QED
  BY <1>2, <1>3, <1>4

LEMMA StepGood == Inv /\ [Next]_m => Inv'
<1> SUFFICES ASSUME Inv, [Next]_m
             PROVE  Inv'
  OBVIOUS
<1>0. CASE UNCHANGED m
  BY <1>0 DEF Inv
<1> SUFFICES ASSUME Next, Running(m)
             PROVE  Good(m')
  BY <1>0 DEF Inv, Next, Call, Setlfs, Setnam, Open, Close, Chkin, Clrchn, Clall,
              Bsout, Basin, Load, Listen, Second, Ciout, Unlsn, Talk, Tksa, Acptr,
              Untlk, UnknownCall
<1>1. Good(m) /\ Sound(m)
  BY DEF Inv, Good
<1>2. \A t : Keeps(m, t) => Good(t)
  BY <1>1, GoodKept
<1>3. CASE Setlfs
  <2>1. PICK n \in Numbers, dev \in Devices, sa \in Secondaries :
          m' = [m EXCEPT !.la = n, !.fa = dev, !.sa = sa]
    BY <1>3 DEF Setlfs, Call
  <2>2. dev \in Device /\ sa \in Secondary
    BY KernalAssumption
  <2>3. Good([m EXCEPT !.la = n, !.fa = dev, !.sa = sa])
    BY <1>1, <2>2, SetGood
  <2> QED
    BY <2>1, <2>3
<1>4. CASE Setnam
  <2>1. PICK q \in Names :
          m' = IF Len(q) > NameSize THEN stopWith(m, "assert name") ELSE [m EXCEPT !.name = q]
    BY <1>4 DEF Setnam, Call
  <2>2. q \in Seq(Token) /\ Len(q) \in Nat
    BY KernalAssumption, LenProperties
  <2>3. CASE Len(q) > NameSize
    BY <1>1, <1>2, <2>1, <2>3, Stopped
  <2>4. CASE ~(Len(q) > NameSize)
    <3>1. Len(q) <= NameSize
      BY <2>2, <2>4, MachineAssumption
    <3> QED
      BY <1>1, <2>1, <2>2, <2>4, <3>1, SetGood
  <2> QED
    BY <2>3, <2>4
<1>5. CASE Open
  BY <1>1, <1>5, OpenGood DEF Open, Call
<1>6. CASE Close
  BY <1>1, <1>6, CloseGood DEF Close, Call
<1>7. CASE Chkin
  BY <1>1, <1>2, <1>7, ChkinKeeps DEF Chkin, Call
<1>8. CASE Clrchn
  BY <1>1, <1>2, <1>8, ClrchKeeps DEF Clrchn, Call
<1>9. CASE Clall
  <2> DEFINE t == [m EXCEPT !.files = <<>>]
  <2>1. Good(t) /\ Running(t)
    <3>1. Good(t)
      BY <1>1, SetGood
    <3>2. m \in Machines
      BY <1>1, DriveOf
    <3>3. t.halt = m.halt
      BY <3>2 DEF Machines
    <3> QED
      BY <3>1, <3>3 DEF Running
  <2>2. Keeps(t, romClrch(t))
    BY <2>1, ClrchKeeps DEF Good
  <2>3. m' = romClrch(t)
    BY <1>9 DEF Clall, Call
  <2> HIDE DEF t
  <2> QED
    BY <2>1, <2>2, <2>3, GoodKept
<1>10. CASE Bsout \/ Basin
  <2>1. \A token \in Tokens : token \in Token
    BY KernalAssumption
  <2> QED
    BY <1>1, <1>2, <1>10, <2>1, BytesKeep DEF Bsout, Basin, Call
<1>11. CASE Load \/ UnknownCall
  BY <1>1, <1>2, <1>11, Stopped, KeepsItself DEF Load, UnknownCall, Call
<1>12. CASE Listen \/ Talk
  <2>1. \A dev \in BusDevices : dev \in Device
    BY KernalAssumption
  <2> QED
    BY <1>1, <1>2, <1>12, <2>1, ListenKeeps, TalkKeeps DEF Listen, Talk, Call
<1>13. CASE Second \/ Tksa
  <2>1. \A sa \in BusSecondaries : sa \in Secondary
    BY KernalAssumption
  <2> QED
    BY <1>1, <1>2, <1>13, <2>1, SecondKeeps DEF Second, Tksa, Call
<1>14. CASE Ciout
  <2>1. \A token \in Tokens : token \in Token
    BY KernalAssumption
  <2> QED
    BY <1>1, <1>2, <1>14, <2>1, CioutKeeps DEF Ciout, Call
<1>15. CASE Unlsn \/ Acptr \/ Untlk
  BY <1>1, <1>2, <1>15, UnlsnKeeps, AcptrKeeps DEF Unlsn, Acptr, Untlk, Call
<1> QED
  BY <1>3, <1>4, <1>5, <1>6, <1>7, <1>8, <1>9, <1>10, <1>11, <1>12, <1>13, <1>14, <1>15
  DEF Next

THEOREM Invariance == Spec => []Inv
<1> QED
  BY InitGood, StepGood, PTL DEF Spec

-----------------------------------------------------------------------------
(***************************************************************************)
(* The theorems: every invariant the runs check follows from Inv.          *)
(***************************************************************************)

\* Whatever calls a program makes, every KERNAL cell keeps its width and every
\* pointer of the drive stays in its buffer (em.h).
THEOREM TypeCorrect == Spec => []TypeOK
<1>1. Inv => TypeOK
  BY DEF Inv, Good, Sound, TypeOK
<1> QED
  BY <1>1, Invariance, PTL

\* The logical file table never outgrows its rows and never holds a number
\* twice, for tables of any size and any number of files (romOpen, romClose).
THEOREM TableIsSound == Spec => []FileTableSound
<1>1. Inv => FileTableSound
  BY DEF Inv, Good, Table, FileTableSound
<1> QED
  BY <1>1, Invariance, PTL

\* A running program has open files only on devices that have a driver.
THEOREM OpenDevicesHaveDriver == Spec => []OpenDevicesDriven
<1>1. Inv => OpenDevicesDriven
  BY DEF Inv, Good, Driven, OpenDevicesDriven
<1> QED
  BY <1>1, Invariance, PTL

\* commandBufferPointer stays within commandBuffer, whether the bytes come from
\* CIOUT, from BSOUT or from the file name that OPEN sends.
THEOREM CommandFits == Spec => []CommandBufferBound
<1>1. Inv => CommandBufferBound
  BY DEF Inv, Good, Sound, CommandBufferBound
<1> QED
  BY <1>1, Invariance, PTL

\* No device but the emulated drive is ever left listening.
THEOREM OnlyTheDriveListens == Spec => []ListenerIsTheDrive
<1>1. Inv => ListenerIsTheDrive
  BY DEF Inv, Good, Sound, ListenerIsTheDrive
<1> QED
  BY <1>1, Invariance, PTL
=============================================================================
