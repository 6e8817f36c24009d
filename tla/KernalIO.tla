------------------------------ MODULE KernalIO ------------------------------
(***************************************************************************)
(* The C64 KERNAL file and serial-bus calls that emu6502/emromc64.c        *)
(* carries out in place of the ROM, together with the disk drive they      *)
(* reach.  A program runs on one processor, so one call, with every call   *)
(* it makes in turn, is one step; what interleaves is the order of calls,  *)
(* which the program chooses freely.                                       *)
(***************************************************************************)
EXTENDS Drive1541

CONSTANTS
  Devices,      \* device numbers the program passes to SETLFS
  Secondaries,  \* secondary addresses the program passes to SETLFS
  Names,        \* file names the program passes to SETNAM
  BusDevices,   \* device numbers the program passes to LISTEN and TALK
  BusSecondaries, \* secondary addresses it passes to SECOND and TKSA
  Tokens,       \* texts the program sends with CIOUT or BSOUT
  Inputs,       \* default input devices a loaded RAM image may hold
  Outputs,      \* default output devices a loaded RAM image may hold
  Statuses,     \* status words a loaded RAM image may hold
  Disks         \* whether a disk is mounted: a state file mounts one, a PRG none

ASSUME KernalAssumption ==
  /\ Devices \subseteq Device
  /\ Secondaries \subseteq Secondary
  /\ BusDevices \subseteq Device
  /\ BusSecondaries \subseteq Secondary
  /\ Names \subseteq Seq(Token)
  /\ Tokens \subseteq Token
  /\ Inputs \subseteq Byte
  /\ Outputs \subseteq Byte
  /\ Statuses \subseteq Byte
  /\ Disks \subseteq BOOLEAN

VARIABLE m

-----------------------------------------------------------------------------
(***************************************************************************)
(* Serial bus calls.                                                       *)
(***************************************************************************)
\* Wrong: any disk drive number listens, not only the one that is emulated.
ListenAnyDrive(s, dev) ==
  LET t == [s EXCEPT !.fa = dev, !.bus = [role |-> "listen", dev |-> dev]]
  IN  IfRunning(s, IF dev >= 8 THEN diskLISTEN(t) ELSE error(t))

LISTEN(s, dev) ==
  LET t == [s EXCEPT !.fa = dev, !.bus = [role |-> "listen", dev |-> dev]]
  IN  IfRunning(s, IF dev = 8 THEN diskLISTEN(t) ELSE error(t))

SECOND(s, second) ==
  IfRunning(s, IF s.bus.role # "listen" \/ s.bus.dev < 8 THEN error(s)
               ELSE diskSECOND(s, second))

\* Wrong: only the device is looked at, not its role.
CioutToTalker(s, token) ==
  IfRunning(s, IF s.bus.dev < 8 THEN error(s) ELSE diskCIOUT(s, token))

CIOUT(s, token) ==
  IfRunning(s, IF s.bus.dev < 8 \/ s.bus.role # "listen" THEN error(s)
               ELSE diskCIOUT(s, token))

\* Wrong: the bus address is not cleared.
UnlsnKeepsBus(s) == IfRunning(s, IF s.fa < 8 THEN error(s) ELSE diskUNLSN(s))

\* UNLSN looks at RAM[RAM_FA], not at the device on the bus.
UNLSN(s) ==
  LET t == diskUNLSN(s)
  IN  IfRunning(s, IF s.fa < 8 THEN error(s)
                   ELSE IfRunning(t, [t EXCEPT !.bus = IdleBus]))

TALK(s, dev) ==
  IfRunning(s, [s EXCEPT !.fa = dev, !.bus = [role |-> "talk", dev |-> dev]])

TKSA(s, second) ==
  IfRunning(s, IF s.bus.role # "talk" \/ s.bus.dev < 8 THEN error(s)
               ELSE diskTKSA(s, second))

ACPTR(s) ==
  LET t == diskACPTR(s)
  IN  IfRunning(s, IF s.bus.role # "talk" \/ s.bus.dev < 8 THEN error(s)
                   ELSE IfRunning(t, [t EXCEPT !.carry = FALSE]))

UNTLK(s) == IfRunning(s, [s EXCEPT !.bus = IdleBus])

-----------------------------------------------------------------------------
(***************************************************************************)
(* The logical file table.  Rows at and beyond LDTND are never read, so    *)
(* the table is the sequence of its first LDTND rows.                      *)
(***************************************************************************)
RowsOf(files, number) == {i \in DOMAIN files : files[i].la = number}

\* romLookupFileNumber: the first row of that number.
romLookup(files, number) == LeastOf(RowsOf(files, number))

IsOpen(files, number) == RowsOf(files, number) # {}

romFetchFileTableEntries(s, row) ==
  [s EXCEPT !.la = s.files[row].la, !.fa = s.files[row].fa, !.sa = s.files[row].sa]

\* Wrong: the hole is not filled, so the file in the last row is lost instead.
DropsLastRow(files, row) == [i \in 1 .. Len(files) - 1 |-> files[i]]

\* The last row fills the hole.
removeFileTableEntry(files, row) ==
  LET last == Len(files)
  IN  [i \in 1 .. last - 1 |-> IF i = row THEN files[last] ELSE files[i]]

-----------------------------------------------------------------------------
(***************************************************************************)
(* Errors and default devices.  romCLRCH, which only errors use, and       *)
(* romClrch, which CLRCHN uses, test the default devices differently.      *)
(***************************************************************************)
DefaultDevices(s) == IfRunning(s, [s EXCEPT !.dflto = 3, !.dfltn = 0])

romCLRCH(s) ==
  LET t == IF s.dflto < 3 THEN UNLSN(s) ELSE s
      u == IF s.dfltn < 3 THEN UNTLK(t) ELSE t
  IN  DefaultDevices(u)

romClrch(s) ==
  LET t == IF s.dflto > 3 THEN UNLSN(s) ELSE s
      u == IF s.dfltn > 3 THEN UNTLK(t) ELSE t
  IN  DefaultDevices(u)

romError(s) ==
  LET t == romCLRCH(s) IN IfRunning(t, [t EXCEPT !.carry = TRUE])

-----------------------------------------------------------------------------
(***************************************************************************)
(* File calls.                                                             *)
(***************************************************************************)

\* SA |= 0x60
SerialCommand(sa) == [sa EXCEPT !.hi = ((sa.hi \div 8) * 8) + 6 + (sa.hi % 2)]

\* The name goes out byte by byte after LISTEN has emptied the command buffer,
\* which is longer than any name, so CIOUT's limit cannot be met.  The sign test
\* of RAM[RAM_STATUS] that follows SECOND cannot succeed: nothing has written
\* the status since it was cleared here.
sendName(s) == IfRunning(s, [s EXCEPT !.drive.cmd = @ \o s.name])

\* Wrong: an OPEN of the drive that never ends its LISTEN.
OpenWithoutUnlisten(s) ==
  LET t == LISTEN([s EXCEPT !.status = 0], s.fa)
      u == SECOND(t, [s.sa EXCEPT !.hi = 15])
  IN  IF s.sa.hi >= 8 \/ s.name = <<>> THEN s ELSE sendName(u)

diskOPEN(s) ==
  LET t == LISTEN([s EXCEPT !.status = 0], s.fa)
      u == SECOND(t, [s.sa EXCEPT !.hi = 15])
  IN  IF s.sa.hi >= 8 \/ s.name = <<>> THEN s ELSE UNLSN(sendName(u))

\* Wrong: a device with no driver is skipped instead of refused.
OpenAnyDevice(s) == IF s.fa >= 8 THEN diskOPEN(s) ELSE s

openDevice(s) ==
  CASE s.fa >= 8 -> diskOPEN(s)
    [] s.fa \in {0, 3} -> s
    [] OTHER -> error(s)

enterFile(s) ==
  LET sa == SerialCommand(s.sa)
  IN  [s EXCEPT !.sa = sa,
                !.files = Append(@, [la |-> s.la, fa |-> s.fa, sa |-> sa])]

carryClear(s) == IfRunning(s, [s EXCEPT !.carry = FALSE])

\* Wrong: the duplicate test left out.
OpenDuplicates(s0) ==
  LET s == [s0 EXCEPT !.status = 0]
  IN  IF Len(s.files) = MaxFiles THEN romError(s)
      ELSE carryClear(openDevice(enterFile(s)))

\* Wrong: the row entered before the tests that may refuse the file.
OpenEntersFirst(s0) ==
  LET s == [s0 EXCEPT !.status = 0]
  IN  IF IsOpen(s.files, s.la) THEN romError(s)
      ELSE IF Len(s.files) = MaxFiles THEN romError(enterFile(s))
      ELSE carryClear(openDevice(enterFile(s)))

romOpen(s0) ==
  LET s == [s0 EXCEPT !.status = 0]
  IN  IF IsOpen(s.files, s.la) \/ Len(s.files) = MaxFiles THEN romError(s)
      ELSE carryClear(openDevice(enterFile(s)))

\* "A >= 0" holds of every byte, so the secondary address is always sent.
romCHKIN(s0, number) ==
  LET s == [s0 EXCEPT !.status = 0]
      t == romFetchFileTableEntries(s, romLookup(s.files, number))
  IN  IF ~IsOpen(s.files, number) THEN romError(s)
      ELSE CASE t.fa \in {0, 3} -> t
             [] t.fa \in {1, 2} -> error(t)
             [] OTHER -> TKSA(TALK(t, t.fa), t.sa)

\* (SA & 0xEF) | 0xE0: CLOSE of the channel.
romCloseSerial(s) ==
  LET t == LISTEN(s, s.fa)
      u == SECOND(t, [s.sa EXCEPT !.hi = 14])
  IN  carryClear(IF s.sa.hi < 8 THEN UNLSN(u) ELSE s)

closeDevice(s) ==
  CASE s.fa \in {0, 3} -> s
    [] s.fa \in {1, 2} -> error(s)
    [] OTHER -> romCloseSerial(s)

\* Wrong: the file that SETLFS set is closed, not the one CLOSE is called with.
CloseCurrent(s, number) ==
  LET row == romLookup(s.files, s.la)
      t == closeDevice(romFetchFileTableEntries(s, row))
      u == IfRunning(t, [t EXCEPT !.files = removeFileTableEntry(@, row)])
  IN  carryClear(IF IsOpen(s.files, s.la) THEN u ELSE s)

romClose(s, number) ==
  LET row == romLookup(s.files, number)
      t == closeDevice(romFetchFileTableEntries(s, row))
      u == IfRunning(t, [t EXCEPT !.files = removeFileTableEntry(@, row)])
  IN  carryClear(IF IsOpen(s.files, number) THEN u ELSE s)

romBsout(s, token) ==
  CASE s.dflto < 3 -> error(s)
    [] s.dflto = 3 -> s
    [] OTHER -> CIOUT(s, token)

romBasin(s) ==
  CASE s.dfltn <= 3 -> error(s)
    [] s.dfltn > 3 /\ s.status = 0 -> ACPTR(s)
    [] OTHER -> [s EXCEPT !.carry = FALSE]

-----------------------------------------------------------------------------
(***************************************************************************)
(* emulateC64ROM: one action per call it dispatches on.                    *)
(***************************************************************************)
Call(t) == Running(m) /\ m' = t

Setlfs ==
  \E n \in Numbers, dev \in Devices, sa \in Secondaries :
    Call([m EXCEPT !.la = n, !.fa = dev, !.sa = sa])
Setnam ==
  \E q \in Names :
    Call(IF Len(q) > NameSize THEN stopWith(m, "assert name")
         ELSE [m EXCEPT !.name = q])
Open == Call(romOpen(m))
Close == \E n \in Numbers : Call(romClose(m, n))
Chkin == \E n \in Numbers : Call(romCHKIN(m, n))
Clrchn == Call(romClrch(m))
Clall == Call(romClrch([m EXCEPT !.files = <<>>]))
Bsout == \E tok \in Tokens : Call(romBsout(m, tok))
Basin == Call(romBasin(m))
Load == Call(IF m.fa # 8 THEN error(m) ELSE m)
Listen == \E dev \in BusDevices : Call(LISTEN(m, dev))
Second == \E sa \in BusSecondaries : Call(SECOND(m, sa))
Ciout == \E tok \in Tokens : Call(CIOUT(m, tok))
Unlsn == Call(UNLSN(m))
Talk == \E dev \in BusDevices : Call(TALK(m, dev))
Tksa == \E sa \in BusSecondaries : Call(TKSA(m, sa))
Acptr == Call(ACPTR(m))
Untlk == Call(UNTLK(m))
UnknownCall == Call(error(m))

(***************************************************************************)
(* A RAM image loaded before the run fixes the KERNAL's cells; the file    *)
(* table is empty and the drive is as calloc leaves it, with a disk        *)
(* mounted or none.                                                        *)
(***************************************************************************)
Init ==
  \E n \in Numbers, dev \in Devices, second \in Secondaries,
     input \in Inputs, output \in Outputs, st \in Statuses, disk \in Disks :
    m = [la |-> n, fa |-> dev, sa |-> second, name |-> <<>>,
         files |-> <<>>, dfltn |-> input, dflto |-> output, status |-> st,
         carry |-> FALSE, bus |-> IdleBus, drive |-> FreshDrive(disk),
         halt |-> "running"]

Next ==
  \/ Setlfs \/ Setnam \/ Open \/ Close \/ Chkin \/ Clrchn \/ Clall
  \/ Bsout \/ Basin \/ Load
  \/ Listen \/ Second \/ Ciout \/ Unlsn \/ Talk \/ Tksa \/ Acptr \/ Untlk
  \/ UnknownCall

Spec == Init /\ [][Next]_m

-----------------------------------------------------------------------------
(***************************************************************************)
(* Correctness.                                                            *)
(***************************************************************************)

\* Every cell keeps its width, the drive's pointers stay inside their buffers.
TypeOK == m \in Machines

\* The logical file table: LDTND never exceeds the ten rows the tables have,
\* no number is open twice (CLOSE would release only one of the two), and every
\* row holds its secondary address as a serial command, whatever sequence of
\* OPEN, CLOSE and CLALL filled, emptied and compacted the table.
FileTableSound ==
  /\ Len(m.files) <= MaxFiles
  /\ \A i, j \in DOMAIN m.files : m.files[i].la = m.files[j].la => i = j
  /\ \A i \in DOMAIN m.files : m.files[i].sa.hi \in {6, 7, 14, 15}

\* A program that still runs has open files only on devices that romOpen
\* accepts: keyboard, screen and disk drives.  CLOSE and CHKIN rely on it.
OpenDevicesDriven ==
  Running(m) => \A i \in DOMAIN m.files : m.files[i].fa \in {0, 3} \cup 8 .. 31

\* The drive stores a terminating zero at commandBufferPointer, so the pointer
\* must stay within the array of DISKDRIVE_COMMAND_BUFFER_SIZE + 1 bytes.
CommandBufferBound == Len(m.drive.cmd) <= CommandSize

\* Only device 8 is emulated: no other device is ever left listening, by a
\* LISTEN of the program or by those OPEN and CLOSE make.
ListenerIsTheDrive ==
  Running(m) /\ m.bus.role = "listen" => m.bus.dev = 8

\* OPEN either refuses with the carry set and leaves the table alone, or enters
\* the file as one more row and clears the carry.
OpenAllOrNothing ==
  [][Open /\ Running(m') =>
       IF m'.carry THEN m'.files = m.files
       ELSE /\ Len(m'.files) = Len(m.files) + 1
            /\ m'.files[Len(m'.files)].la = m.la]_m

\* OPEN and CLOSE release the bus they take: only the program's own LISTEN
\* leaves a device listening.
FileCallsReleaseBus ==
  [][Running(m') /\ m'.bus.role = "listen" /\ m'.bus # m.bus => Listen]_m

\* The drive takes a byte only as a listener: CIOUT, whether the program calls
\* it or BSOUT does, never reaches a drive that was not told to listen, and OPEN
\* tells it first.
BytesNeedListener ==
  [][Len(m'.drive.cmd) > Len(m.drive.cmd) => m.bus.role = "listen" \/ Open]_m

\* SECOND, the file calls and a reset share the drive's secondAddress with the
\* talk in progress: while the same device keeps talking, only a TKSA, the
\* program's or CHKIN's, changes the channel its bytes come from.
TalkChannelStable ==
  [][Running(m') /\ m.bus.role = "talk" /\ m'.bus = m.bus
       /\ m'.drive.sec # m.drive.sec => Tksa \/ Chkin]_m

\* What a channel serves: contents and pointer of its buffer, nothing if it
\* has none.
Served(d, channel) ==
  {<<d.bufs[b].data, d.bufs[b].ptr>> : b \in
     {c \in BoundTo(d, channel) : \A e \in BoundTo(d, channel) : c <= e}}

ChannelsOf(d) == {d.bufs[b].ch : b \in BufferID} \ {0}

\* Channels do not disturb each other: what a channel serves changes only when
\* the secondary address selects it, when the command just sent names it, or
\* when a reset gives up every channel.
ChannelIsolation ==
  [][\A channel \in ChannelsOf(m.drive) \cup ChannelsOf(m'.drive) :
       Served(m'.drive, channel) # Served(m.drive, channel) =>
         \/ m'.drive.sec.lo = channel
         \/ m'.drive.cmd # <<>> /\ m'.drive.cmd[1].ch = channel
         \/ BoundTo(m'.drive, 0) = BufferID]_m

\* A buffer in use is never handed to another channel.
BufferNotStolen ==
  [][\A b \in BufferID :
       m.drive.bufs[b].ch # 0 => m'.drive.bufs[b].ch \in {0, m.drive.bufs[b].ch}]_m

\* Buffers come back only by a drive reset, which takes them all: CLOSE frees
\* none, so a program that opens "#" often enough runs out of buffers.
BuffersReturnTogether ==
  [][(\E b \in BufferID : m.drive.bufs[b].ch # 0 /\ m'.drive.bufs[b].ch = 0)
       => BoundTo(m'.drive, 0) = BufferID]_m

-----------------------------------------------------------------------------
\* The table read as a map from logical file numbers.
FileMap ==
  [n \in {m.files[i].la : i \in DOMAIN m.files} |->
     LET row == m.files[romLookup(m.files, n)] IN [fa |-> row.fa, sa |-> row.sa]]

Files == INSTANCE LogicalFiles WITH
  Number <- Numbers,
  Where <- [fa : Devices \cup BusDevices, sa : {SerialCommand(sa) : sa \in Secondaries}],
  Capacity <- MaxFiles,
  openFiles <- FileMap,
  number <- m.la

\* The table implements the map: a file keeps its device and secondary address
\* from its OPEN to its own CLOSE or a CLALL, though other CLOSEs move its row.
\* OPEN enters the number in RAM[RAM_LA], and the row CLOSE drops is that of the
\* number it leaves there.
ImplementsLogicalFiles == Files!Spec

\* A CLOSE after which the program still runs has closed the file it was called
\* with and no other: whichever file SETLFS or CHKIN made the current one, every
\* other open file keeps its device and secondary address, and a number that was
\* not open disturbs none.
CloseDropsItsFile ==
  [][\A n \in Numbers :
       Running(m) /\ m' = romClose(m, n) /\ Running(m')
         => FileMap' = [k \in DOMAIN FileMap \ {n} |-> FileMap[k]]]_m

-----------------------------------------------------------------------------
(***************************************************************************)
(* Claims of the source that the program does not meet.                    *)
(***************************************************************************)

\* emdisk.c asserts in diskSECOND, diskTKSA, diskACPTR and diskCIOUT that
\* RAM[RAM_FA] is a disk drive; their callers test the bus address instead.
DriveAssertionsHold == m.halt # "assert FA"

\* romError is to "set carry to mark error condition": a program whose OPEN is
\* refused, because the number is open or the table full, finds the carry set.
RefusalReported ==
  [][Open /\ (IsOpen(m.files, m.la) \/ Len(m.files) = MaxFiles)
       => Running(m') /\ m'.carry]_m
=============================================================================
