----------------------------- MODULE KernalSteps -----------------------------
(***************************************************************************)
(* Proofs about the steps of KernalIO: what one KERNAL call, with every    *)
(* call it makes in turn, may do to the drive's buffers, to the serial bus *)
(* and to the logical file table, and that the table implements the map of *)
(* LogicalFiles.                                                           *)
(*                                                                         *)
(* Most routines leave the drive alone (Still).  Those of the drive change *)
(* its buffers in one way only (DriveStep), and so does a call that uses   *)
(* one of them among routines that are Still (Effect).                     *)
(***************************************************************************)
EXTENDS KernalProofs, FiniteSetTheorems

\* The parameters of the current file and the table of all files.
SameFiles(s, t) ==
  /\ t.la = s.la /\ t.fa = s.fa /\ t.sa = s.sa
  /\ t.files = s.files

\* What happens to the buffers in one call: nothing; a reset gives up all; a
\* free one is bound to the channel selected; the one that serves the channel
\* selected, or the channel that the command names, gets new contents.
BufferStep(f, e) ==
  \/ e.bufs = f
  \/ BoundTo(e, 0) = BufferID
  \/ \E b \in BufferID : f[b].ch = 0 /\ e.bufs = [f EXCEPT ![b].ch = e.sec.lo]
  \/ \E b \in BufferID, x \in Buffer :
       /\ x.ch = f[b].ch
       /\ f[b].ch = e.sec.lo \/ (e.cmd # <<>> /\ e.cmd[1].ch = f[b].ch)
       /\ e.bufs = [f EXCEPT ![b] = x]

\* A routine that leaves the drive and the files alone.
Still(s, t) ==
  /\ SameFiles(s, t)
  /\ t.drive = s.drive
  /\ Running(t) => Running(s) /\ t.bus \in {s.bus, IdleBus}

\* A routine of the drive.
DriveStep(s, t) ==
  /\ SameFiles(s, t)
  /\ BufferStep(s.drive.bufs, t.drive)
  /\ Len(t.drive.cmd) <= Len(s.drive.cmd)
  /\ t.bus = s.bus
  /\ Running(t) => Running(s)

\* Routines that get the bus ready for one of the drive's.
Prepares(s, t) ==
  /\ SameFiles(s, t)
  /\ t.drive.bufs = s.drive.bufs
  /\ Running(t) => Running(s)

\* A whole call: the bus is left alone, with the channel it addresses, or idle.
Effect(s, t) ==
  /\ SameFiles(s, t)
  /\ BufferStep(s.drive.bufs, t.drive)
  /\ Running(t) => /\ Running(s)
                   /\ \/ t.bus = IdleBus
                      \/ t.bus = s.bus /\ t.drive.sec = s.drive.sec

Shrinks(s, t) == Len(t.drive.cmd) <= Len(s.drive.cmd)

LEMMA StillIsEffect ==
  ASSUME NEW s, Sound(s), NEW t, Still(s, t)
  PROVE  Effect(s, t) /\ Shrinks(s, t)
<1>1. Len(s.drive.cmd) \in Nat
  BY DriveOf, LenProperties DEF Drive
<1> QED
  BY <1>1 DEF Still, Effect, Shrinks, BufferStep

LEMMA EffectBeforeStill ==
  ASSUME NEW s, NEW t, NEW u, Effect(s, t), Still(t, u)
  PROVE  Effect(s, u) /\ (Shrinks(s, t) => Shrinks(s, u))
  BY DEF Still, Effect, Shrinks, SameFiles

LEMMA StillBeforeEffect ==
  ASSUME NEW s, NEW t, NEW u, Still(s, t), Effect(t, u)
  PROVE  Effect(s, u) /\ (Shrinks(t, u) => Shrinks(s, u))
  BY DEF Still, Effect, Shrinks, SameFiles

LEMMA StillTransitive ==
  ASSUME NEW s, NEW t, NEW u, Still(s, t), Still(t, u)
  PROVE  Still(s, u)
  BY DEF Still, SameFiles

LEMMA StillItself ==
  ASSUME NEW s
  PROVE  Still(s, s)
  BY DEF Still, SameFiles

\* A call that ends by idling the bus has its effect from wherever the routines
\* that prepared the bus started.
LEMMA PreparedEffect ==
  ASSUME NEW s, NEW t, NEW u, Prepares(s, t), Effect(t, u),
         Running(u) => u.bus = IdleBus
  PROVE  Effect(s, u)
  BY DEF Prepares, Effect, SameFiles

-----------------------------------------------------------------------------
(***************************************************************************)
(* Routines that leave the drive alone.                                    *)
(***************************************************************************)
LEMMA HaltStill ==
  ASSUME NEW s \in Machines
  PROVE  /\ Still(s, error(s)) /\ ~Running(error(s)) /\ error(s).bus = s.bus
         /\ \A why \in {"assert FA", "assert sector", "assert name"} :
              /\ Still(s, stopWith(s, why)) /\ ~Running(stopWith(s, why))
              /\ stopWith(s, why).bus = s.bus
  BY DEF error, stopWith, Still, SameFiles, Running, Machines

LEMMA CellStill ==
  ASSUME NEW s \in Machines
  PROVE  /\ \A c : Still(s, [s EXCEPT !.carry = c]) /\ [s EXCEPT !.carry = c].carry = c
         /\ Still(s, [s EXCEPT !.status = 0])
         /\ Still(s, [s EXCEPT !.bus = IdleBus]) /\ [s EXCEPT !.bus = IdleBus].bus = IdleBus
         /\ Still(s, [s EXCEPT !.dflto = 3, !.dfltn = 0])
         /\ \A q : Still(s, [s EXCEPT !.name = q])
<1>1. \A c : Still(s, [s EXCEPT !.carry = c]) /\ [s EXCEPT !.carry = c].carry = c
  BY DEF Still, SameFiles, Running, Machines
<1>2. Still(s, [s EXCEPT !.status = 0])
  BY DEF Still, SameFiles, Running, Machines
<1>3. Still(s, [s EXCEPT !.bus = IdleBus]) /\ [s EXCEPT !.bus = IdleBus].bus = IdleBus
  BY DEF Still, SameFiles, Running, Machines
<1>4. Still(s, [s EXCEPT !.dflto = 3, !.dfltn = 0])
  BY DEF Still, SameFiles, Running, Machines
<1>5. \A q : Still(s, [s EXCEPT !.name = q])
  BY DEF Still, SameFiles, Running, Machines
<1> QED
  BY <1>1, <1>2, <1>3, <1>4, <1>5

LEMMA CarryClearStill ==
  ASSUME NEW s \in Machines
  PROVE  /\ Still(s, carryClear(s))
         /\ Running(carryClear(s)) => carryClear(s).carry = FALSE
<1>1. ~Running(s) => ~Running(carryClear(s))
  BY DEF carryClear, IfRunning
<1> QED
  BY <1>1, CellStill, StillItself DEF carryClear, IfRunning

LEMMA IdleStill ==
  ASSUME NEW s \in Machines
  PROVE  Still(s, UNTLK(s)) /\ Still(s, DefaultDevices(s))
  BY CellStill, StillItself DEF UNTLK, DefaultDevices, IfRunning

-----------------------------------------------------------------------------
(***************************************************************************)
(* The drive's routines.                                                   *)
(***************************************************************************)
LEMMA StillIsDriveStep ==
  ASSUME NEW s, Sound(s), NEW t, Still(s, t), t.bus = s.bus
  PROVE  DriveStep(s, t)
<1>1. Len(s.drive.cmd) \in Nat
  BY DriveOf, LenProperties DEF Drive
<1> QED
  BY <1>1 DEF Still, DriveStep, BufferStep

LEMMA StoppedDriveStep ==
  ASSUME NEW s, Sound(s)
  PROVE  /\ DriveStep(s, s) /\ DriveStep(s, error(s))
         /\ DriveStep(s, stopWith(s, "assert FA"))
         /\ DriveStep(s, stopWith(s, "assert sector"))
<1>1. s \in Machines
  BY DriveOf
<1> QED
  BY <1>1, StillItself, HaltStill, StillIsDriveStep

LEMMA NewDriveStep ==
  ASSUME NEW s, Sound(s), NEW e, BufferStep(s.drive.bufs, e),
         Len(e.cmd) <= Len(s.drive.cmd)
  PROVE  DriveStep(s, [s EXCEPT !.drive = e])
<1>1. s \in Machines
  BY DriveOf
<1>2. LET t == [s EXCEPT !.drive = e]
      IN  SameFiles(s, t) /\ t.drive = e /\ t.bus = s.bus /\ t.halt = s.halt
  BY <1>1 DEF SameFiles, Machines
<1> QED
  BY <1>2 DEF DriveStep, Running

\* The forms of update that the drive's routines use.
LEMMA NestedUpdate ==
  ASSUME NEW s, NEW b, NEW v
  PROVE  /\ [s EXCEPT !.drive.bufs[b] = v]
              = [s EXCEPT !.drive = [s.drive EXCEPT !.bufs = [s.drive.bufs EXCEPT ![b] = v]]]
         /\ [s EXCEPT !.drive.bufs[b].ch = v]
              = [s EXCEPT !.drive.bufs[b] = [s.drive.bufs[b] EXCEPT !.ch = v]]
         /\ [s EXCEPT !.drive.bufs[b].ptr = v]
              = [s EXCEPT !.drive.bufs[b] = [s.drive.bufs[b] EXCEPT !.ptr = v]]
OBVIOUS

\* A buffer that gets new contents.
LEMMA BufferWritten ==
  ASSUME NEW s, Sound(s), NEW b \in BufferID, NEW x \in Buffer,
         x.ch = s.drive.bufs[b].ch,
         \/ s.drive.bufs[b].ch = s.drive.sec.lo
         \/ s.drive.cmd # <<>> /\ s.drive.cmd[1].ch = s.drive.bufs[b].ch
  PROVE  DriveStep(s, [s EXCEPT !.drive.bufs[b] = x])
<1> DEFINE d == s.drive
           e == [d EXCEPT !.bufs = [d.bufs EXCEPT ![b] = x]]
<1>1. s \in Machines /\ d \in Drive /\ Len(d.cmd) \in Nat
  BY DriveOf, LenProperties DEF Drive
<1>3. e.bufs = [d.bufs EXCEPT ![b] = x] /\ e.sec = d.sec /\ e.cmd = d.cmd
  BY <1>1 DEF Drive
<1> HIDE DEF e
<1>4. BufferStep(d.bufs, e)
  BY <1>3 DEF BufferStep
<1>5. DriveStep(s, [s EXCEPT !.drive = e])
  BY <1>1, <1>3, <1>4, NewDriveStep
<1> QED
  BY <1>5, NestedUpdate DEF e

\* A free buffer that is bound to the channel selected.
LEMMA BufferTaken ==
  ASSUME NEW s, Sound(s), NEW b \in BoundTo(s.drive, 0)
  PROVE  DriveStep(s, bindBuffer(s, b, s.drive.sec.lo))
<1> DEFINE d == s.drive
           f == [d.bufs EXCEPT ![b].ch = d.sec.lo]
           e == [d EXCEPT !.bufs = f]
<1>1. s \in Machines /\ d \in Drive /\ Len(d.cmd) \in Nat
  BY DriveOf, LenProperties DEF Drive
<1>2. b \in BufferID /\ d.bufs[b].ch = 0
  BY DEF BoundTo
<1>3. e.bufs = f /\ e.sec = d.sec /\ e.cmd = d.cmd
  BY <1>1 DEF Drive
<1>4. BufferStep(d.bufs, e)
  BY <1>2, <1>3 DEF BufferStep
<1> HIDE DEF e
<1>5. DriveStep(s, [s EXCEPT !.drive = e])
  BY <1>1, <1>3, <1>4, NewDriveStep
<1>6. f = [d.bufs EXCEPT ![b] = [d.bufs[b] EXCEPT !.ch = d.sec.lo]]
  OBVIOUS
<1> QED
  BY <1>5, <1>6, NestedUpdate DEF e, bindBuffer

LEMMA ServingBuffer ==
  ASSUME NEW s, Sound(s), NEW channel, BoundTo(s.drive, channel) # {}
  PROVE  LET b == getChannelBufferID(s.drive, channel)
         IN  b \in BufferID /\ s.drive.bufs[b] \in Buffer /\ s.drive.bufs[b].ch = channel
<1>1. BoundTo(s.drive, channel) \in SUBSET Nat
  BY MachineAssumption DEF BoundTo, BufferID
<1>2. LeastOf(BoundTo(s.drive, channel)) \in BoundTo(s.drive, channel)
  BY <1>1, LeastOfIsMember
<1>3. \A b \in BufferID : s.drive.bufs[b] \in Buffer
  BY DriveOf DEF Drive
<1> QED
  BY <1>2, <1>3 DEF getChannelBufferID, BoundTo

\* A reset gives up every buffer and empties the command.
LEMMA ResetStep ==
  ASSUME NEW s, Sound(s)
  PROVE  DriveStep(s, [s EXCEPT !.drive = resetDrive(s.drive)])
<1> DEFINE d == s.drive
           e == resetDrive(d)
<1>1. d \in Drive /\ Len(d.cmd) \in Nat
  BY DriveOf, LenProperties DEF Drive
<1>2. \A b \in BufferID : d.bufs[b] \in Buffer
  BY <1>1 DEF Drive
<1>3. e.bufs = [b \in BufferID |-> [d.bufs[b] EXCEPT !.ch = 0, !.ptr = 0]]
  BY <1>1 DEF resetDrive, Drive
<1>4. ASSUME NEW b \in BufferID
      PROVE  e.bufs[b].ch = 0
  <2>1. e.bufs[b] = [d.bufs[b] EXCEPT !.ch = 0, !.ptr = 0]
    BY <1>3
  <2> HIDE DEF e
  <2> QED
    BY <1>2, <2>1 DEF Buffer
<1>5. BoundTo(e, 0) = BufferID
  BY <1>4 DEF BoundTo
<1>6. e.cmd = <<>>
  BY <1>1 DEF resetDrive, Drive
<1>9. Len(<<>>) = 0
  OBVIOUS
<1> HIDE DEF e
<1>7. BufferStep(d.bufs, e) /\ Len(e.cmd) <= Len(d.cmd)
  BY <1>1, <1>5, <1>6, <1>9 DEF BufferStep
<1>8. DriveStep(s, [s EXCEPT !.drive = e])
  BY <1>7, NewDriveStep
<1> QED
  BY <1>8 DEF e

\* B-P and U1 change the buffer of the channel that they name, a reset all.
LEMMA CommandStep ==
  ASSUME NEW s, Sound(s)
  PROVE  DriveStep(s, diskCommand(s))
<1> DEFINE q == s.drive.cmd
           c == parseDiskCmd(q)
           b == getChannelBufferID(s.drive, c.ch)
           old == s.drive.bufs[b]
<1>1. s \in Machines /\ s.drive \in Drive /\ q \in Seq(Token)
  BY DriveOf DEF Drive
<1>2. c \in Token
  BY <1>1, ParsedCommand
<1>3. c.op # "text" => q # <<>> /\ c = q[1]
  BY DEF parseDiskCmd, NoCommand
<1>4. /\ DriveStep(s, s) /\ DriveStep(s, error(s))
      /\ DriveStep(s, stopWith(s, "assert sector"))
  BY StoppedDriveStep
<1> HIDE DEF c
<1>5. BoundTo(s.drive, c.ch) # {} => b \in BufferID /\ old \in Buffer /\ old.ch = c.ch
  BY ServingBuffer
<1> HIDE DEF b
<1>6. ASSUME c.op # "text", BoundTo(s.drive, c.ch) # {},
             NEW x \in Buffer, x.ch = c.ch
      PROVE  DriveStep(s, [s EXCEPT !.drive.bufs[b] = x])
  BY <1>3, <1>5, <1>6, BufferWritten
<1>7. ASSUME c.op = "B-P"
      PROVE  DriveStep(s, setBufferPointer(s, c))
  <2>1. CASE BoundTo(s.drive, c.ch) = {}
    BY <1>4, <2>1 DEF setBufferPointer
  <2>2. CASE BoundTo(s.drive, c.ch) # {}
    <3> DEFINE p == c.arg % SectorSize
               x == [old EXCEPT !.ptr = p]
    <3>1. p \in 0 .. SectorSize - 1
      BY <1>2, PointerWraps DEF Token
    <3> HIDE DEF p
    <3>2. x \in Buffer /\ x.ch = c.ch
      BY <1>5, <2>2, <3>1 DEF Buffer
    <3>3. setBufferPointer(s, c) = [s EXCEPT !.drive.bufs[b].ptr = p]
      BY <2>2 DEF setBufferPointer, b, p
    <3>4. setBufferPointer(s, c) = [s EXCEPT !.drive.bufs[b] = x]
      BY <3>3, NestedUpdate
    <3> HIDE DEF x
    <3> QED
      BY <1>6, <1>7, <2>2, <3>2, <3>4
  <2> QED
    BY <2>1, <2>2
<1>8. ASSUME c.op = "U1"
      PROVE  DriveStep(s, readSector(s, c))
  <2>1. CASE BoundTo(s.drive, c.ch) = {} \/ ~s.drive.mounted
    BY <1>4, <2>1 DEF readSector
  <2>2. CASE ~(BoundTo(s.drive, c.ch) = {} \/ ~s.drive.mounted) /\ c.arg >= SectorCount
    BY <1>4, <2>2 DEF readSector
  <2>3. CASE ~(BoundTo(s.drive, c.ch) = {} \/ ~s.drive.mounted) /\ ~(c.arg >= SectorCount)
    <3> DEFINE x == [old EXCEPT !.data = c.arg, !.ptr = SectorSize - 1]
    <3>1. c.arg \in Content /\ SectorSize - 1 \in 0 .. SectorSize - 1
      BY <1>2, <2>3, MachineAssumption DEF Token, Content
    <3>2. x \in Buffer /\ x.ch = c.ch
      BY <1>5, <2>3, <3>1 DEF Buffer
    <3>3. readSector(s, c) = [s EXCEPT !.drive.bufs[b] = x]
      BY <2>3 DEF readSector, b
    <3> HIDE DEF x
    <3> QED
      BY <1>6, <1>8, <2>3, <3>2, <3>3
  <2> QED
    BY <2>1, <2>2, <2>3
<1>9. DriveStep(s, [s EXCEPT !.drive.recv = "ram"])
  <2> DEFINE e == [s.drive EXCEPT !.recv = "ram"]
  <2>1. e.bufs = s.drive.bufs /\ e.cmd = s.drive.cmd
    BY <1>1 DEF Drive
  <2>2. Len(q) \in Nat
    BY <1>1, LenProperties
  <2> HIDE DEF e
  <2>3. BufferStep(s.drive.bufs, e) /\ Len(e.cmd) <= Len(s.drive.cmd)
    BY <2>1, <2>2 DEF BufferStep
  <2>4. DriveStep(s, [s EXCEPT !.drive = e])
    BY <2>3, NewDriveStep
  <2> QED
    BY <2>4 DEF e
<1> HIDE DEF q
<1>10. DriveStep(s, execDiskCmd(s, c))
  BY <1>4, <1>7, <1>8, <1>9, ResetStep DEF execDiskCmd
<1> QED
  BY <1>10 DEF diskCommand, c, q

LEMMA OpenFileStep ==
  ASSUME NEW s, Sound(s)
  PROVE  DriveStep(s, diskOpenFile(s, s.drive.sec.lo))
<1> DEFINE free == BoundTo(s.drive, 0)
<1>1. free # {} => LeastOf(free) \in free
  <2>1. free \in SUBSET Nat
    BY MachineAssumption DEF BoundTo, BufferID
  <2> QED
    BY <2>1, LeastOfIsMember
<1>2. \A b \in free : DriveStep(s, bindBuffer(s, b, s.drive.sec.lo))
  BY BufferTaken
<1>3. DriveStep(s, s) /\ DriveStep(s, error(s))
  BY StoppedDriveStep
<1> HIDE DEF free
<1> QED
  BY <1>1, <1>2, <1>3 DEF diskOpenFile, free

LEMMA UnlistenStep ==
  ASSUME NEW s, Sound(s)
  PROVE  DriveStep(s, diskUNLSN(s))
  BY CommandStep, OpenFileStep, StoppedDriveStep DEF diskUNLSN

LEMMA ByteOutStep ==
  ASSUME NEW s, Sound(s)
  PROVE  DriveStep(s, diskACPTR(s)) /\ (Running(diskACPTR(s)) => diskACPTR(s).drive.sec = s.drive.sec)
<1> DEFINE channel == s.drive.sec.lo
           b == getChannelBufferID(s.drive, channel)
           old == s.drive.bufs[b]
           p == (old.ptr + 1) % SectorSize
           x == [old EXCEPT !.ptr = p]
<1>1. /\ DriveStep(s, s) /\ DriveStep(s, error(s))
      /\ DriveStep(s, stopWith(s, "assert FA"))
  BY StoppedDriveStep
<1>2. s \in Machines /\ s.drive \in Drive
  BY DriveOf
<1>3. ~Running(error(s)) /\ ~Running(stopWith(s, "assert FA"))
  BY <1>2, HaltStill
<1>4. ASSUME BoundTo(s.drive, channel) # {}
      PROVE  DriveStep(s, [s EXCEPT !.drive.bufs[b].ptr = p])
             /\ [s EXCEPT !.drive.bufs[b].ptr = p].drive.sec = s.drive.sec
  <2>1. b \in BufferID /\ old \in Buffer /\ old.ch = channel
    BY <1>4, ServingBuffer
  <2> HIDE DEF b
  <2>2. p \in 0 .. SectorSize - 1
    BY <2>1, PointerWraps DEF Buffer
  <2> HIDE DEF p
  <2>3. x \in Buffer /\ x.ch = channel
    BY <2>1, <2>2 DEF Buffer
  <2>4. [s EXCEPT !.drive.bufs[b].ptr = p] = [s EXCEPT !.drive.bufs[b] = x]
    BY NestedUpdate
  <2>5. [s EXCEPT !.drive.bufs[b] = x].drive.sec = s.drive.sec
    BY <1>2 DEF Machines, Drive
  <2> HIDE DEF x
  <2> QED
    BY <2>1, <2>3, <2>4, <2>5, BufferWritten
<1>5. BoundTo(s.drive, channel) # {} =>
        [s EXCEPT !.drive.bufs[b].ptr = (@ + 1) % SectorSize]
          = [s EXCEPT !.drive.bufs[b].ptr = p]
  BY <1>2 DEF Machines, Drive
<1> HIDE DEF p
<1> QED
  BY <1>1, <1>3, <1>4, <1>5 DEF diskACPTR
-----------------------------------------------------------------------------
(***************************************************************************)
(* Serial bus calls.                                                       *)
(***************************************************************************)
LEMMA UnlsnEffect ==
  ASSUME NEW s, Sound(s)
  PROVE  /\ Effect(s, UNLSN(s)) /\ Shrinks(s, UNLSN(s))
         /\ Running(UNLSN(s)) => UNLSN(s).bus = IdleBus
<1> DEFINE t == diskUNLSN(s)
           u == [t EXCEPT !.bus = IdleBus]
<1>1. DriveStep(s, t) /\ t \in Machines /\ s \in Machines
  BY UnlistenStep, DiskUnlsnKeeps, DriveOf DEF Keeps
<1> HIDE DEF t
<1>2. u.drive = t.drive /\ SameFiles(t, u) /\ u.bus = IdleBus /\ (Running(u) => Running(t))
  BY <1>1 DEF Machines, SameFiles, Running
<1>3. SameFiles(s, u)
  BY <1>1, <1>2 DEF SameFiles, DriveStep
<1> HIDE DEF u
<1>4. Effect(s, u) /\ Shrinks(s, u)
  BY <1>1, <1>2, <1>3 DEF Effect, Shrinks, DriveStep
<1>5. ~Running(t) => Effect(s, t) /\ Shrinks(s, t)
  BY <1>1 DEF Effect, Shrinks, DriveStep
<1>6. Effect(s, s) /\ Shrinks(s, s) /\ Effect(s, error(s)) /\ Shrinks(s, error(s))
      /\ ~Running(error(s))
  BY <1>1, StillItself, HaltStill, StillIsEffect
<1>7. UNLSN(s) = IF ~Running(s) THEN s ELSE IF s.fa < 8 THEN error(s)
                 ELSE IF Running(t) THEN u ELSE t
  BY DEF UNLSN, IfRunning, t, u
<1> QED
  BY <1>2, <1>4, <1>5, <1>6, <1>7

LEMMA AcptrEffect ==
  ASSUME NEW s, Sound(s)
  PROVE  Effect(s, ACPTR(s)) /\ Shrinks(s, ACPTR(s))
<1> DEFINE t == diskACPTR(s)
           u == [t EXCEPT !.carry = FALSE]
<1>1. DriveStep(s, t) /\ t \in Machines /\ s \in Machines
      /\ (Running(t) => t.drive.sec = s.drive.sec)
  BY ByteOutStep, DiskAcptrKeeps, DriveOf DEF Keeps
<1> HIDE DEF t
<1>2. Still(t, u)
  BY <1>1, CellStill
<1>3. Effect(s, t) /\ Shrinks(s, t)
  BY <1>1 DEF Effect, Shrinks, DriveStep
<1> HIDE DEF u
<1>4. Effect(s, u) /\ Shrinks(s, u)
  BY <1>2, <1>3, EffectBeforeStill
<1>5. Effect(s, s) /\ Shrinks(s, s) /\ Effect(s, error(s)) /\ Shrinks(s, error(s))
  BY <1>1, StillItself, HaltStill, StillIsEffect
<1>6. ACPTR(s) \in {s, error(s), t, u}
  BY DEF ACPTR, IfRunning, t, u
<1> QED
  BY <1>3, <1>4, <1>5, <1>6

\* A byte goes to a device that listens only.
LEMMA CioutEffect ==
  ASSUME NEW s, Sound(s), NEW token \in Token
  PROVE  /\ Effect(s, CIOUT(s, token))
         /\ Shrinks(s, CIOUT(s, token)) \/ s.bus.role = "listen"
<1> DEFINE q == Append(s.drive.cmd, token)
           e == [s.drive EXCEPT !.cmd = q]
           t == [s EXCEPT !.drive = e]
<1>1. s \in Machines /\ s.drive \in Drive
  BY DriveOf
<1>2. e.bufs = s.drive.bufs /\ e.sec = s.drive.sec
  BY <1>1 DEF Drive
<1>3. SameFiles(s, t) /\ t.drive = e /\ t.bus = s.bus /\ (Running(t) => Running(s))
  BY <1>1 DEF SameFiles, Running, Machines
<1> HIDE DEF e, q
<1>4. Effect(s, t)
  BY <1>2, <1>3 DEF Effect, BufferStep
<1>5. /\ Effect(s, s) /\ Shrinks(s, s) /\ Effect(s, error(s)) /\ Shrinks(s, error(s))
      /\ Effect(s, stopWith(s, "assert FA")) /\ Shrinks(s, stopWith(s, "assert FA"))
  BY <1>1, StillItself, HaltStill, StillIsEffect
<1>6. \/ CIOUT(s, token) \in {s, error(s), stopWith(s, "assert FA")}
      \/ CIOUT(s, token) = t /\ s.bus.role = "listen"
  BY DEF CIOUT, IfRunning, diskCIOUT, e, q
<1> HIDE DEF t
<1> QED
  BY <1>4, <1>5, <1>6

\* LISTEN, SECOND and OPEN's name only prepare what UNLSN ends.
LEMMA TakeBusPrepares ==
  ASSUME NEW s \in Machines, NEW dev
  PROVE  LET t == [s EXCEPT !.fa = dev, !.bus = [role |-> "listen", dev |-> dev]]
         IN  /\ t.la = s.la /\ t.sa = s.sa /\ t.files = s.files
             /\ t.fa = dev /\ t.drive = s.drive /\ t.halt = s.halt
  BY DEF Machines

LEMMA CommandPrepares ==
  ASSUME NEW s \in Machines, NEW e, e.bufs = s.drive.bufs
  PROVE  Prepares(s, [s EXCEPT !.drive = e])
  BY DEF Prepares, SameFiles, Running, Machines

LEMMA ListenPrepares ==
  ASSUME NEW s, Sound(s), NEW dev \in Device
  PROVE  LET t == LISTEN(s, dev)
         IN  /\ t.la = s.la /\ t.sa = s.sa /\ t.files = s.files
             /\ t.fa = s.fa \/ t.fa = dev
             /\ t.drive.bufs = s.drive.bufs
             /\ t.drive.sec = s.drive.sec
             /\ Shrinks(s, t)
             /\ Running(t) => Running(s) /\ t.drive.cmd = <<>>
<1> DEFINE v == [s EXCEPT !.fa = dev, !.bus = [role |-> "listen", dev |-> dev]]
           e == [s.drive EXCEPT !.cmd = <<>>]
           w == [v EXCEPT !.drive = e]
           x == [v EXCEPT !.halt = "error"]
<1>1. s \in Machines /\ s.drive \in Drive /\ Len(s.drive.cmd) \in Nat
  BY DriveOf, LenProperties DEF Drive
<1>2. v \in Machines
  BY <1>1, TakeBus
<1>3. /\ v.la = s.la /\ v.sa = s.sa /\ v.files = s.files
      /\ v.fa = dev /\ v.drive = s.drive /\ v.halt = s.halt
  BY <1>1, TakeBusPrepares
<1> HIDE DEF v
<1>4. e.bufs = s.drive.bufs /\ e.cmd = <<>> /\ e.sec = s.drive.sec
  BY <1>1 DEF Drive
<1>5. e = [v.drive EXCEPT !.cmd = <<>>]
  BY <1>3
<1> HIDE DEF e
<1>6. /\ w.la = v.la /\ w.sa = v.sa /\ w.files = v.files
      /\ w.fa = v.fa /\ w.drive = e /\ w.halt = v.halt
  BY <1>2 DEF Machines
<1>7. /\ x.la = v.la /\ x.sa = v.sa /\ x.files = v.files
      /\ x.fa = v.fa /\ x.drive = v.drive /\ ~Running(x)
  BY <1>2 DEF Machines, Running
<1>8. LISTEN(s, dev) = IF ~Running(s) THEN s ELSE IF dev = 8 THEN w ELSE x
  <2>1. diskLISTEN(v) = w
    BY <1>5 DEF diskLISTEN
  <2>2. error(v) = x
    BY DEF error
  <2>3. LISTEN(s, dev) = IfRunning(s, IF dev = 8 THEN diskLISTEN(v) ELSE error(v))
    BY DEF LISTEN, v
  <2> QED
    BY <2>1, <2>2, <2>3 DEF IfRunning
<1> HIDE DEF w, x
<1>9. Len(<<>>) = 0
  OBVIOUS
<1>10. CASE ~Running(s)
  BY <1>1, <1>8, <1>10 DEF Shrinks
<1>11. CASE Running(s) /\ dev = 8
  BY <1>1, <1>3, <1>4, <1>6, <1>8, <1>9, <1>11 DEF Shrinks
<1>12. CASE Running(s) /\ dev # 8
  BY <1>1, <1>3, <1>7, <1>8, <1>12 DEF Shrinks
<1> QED
  BY <1>10, <1>11, <1>12

LEMMA SecondPrepares ==
  ASSUME NEW s, Sound(s), NEW second
  PROVE  LET t == SECOND(s, second)
         IN  /\ Prepares(s, t) /\ Shrinks(s, t)
             /\ Running(t) => /\ t.bus = s.bus
                              /\ t.drive.sec = second /\ s.bus.role = "listen"
<1> DEFINE e == [s.drive EXCEPT !.sec = second]
           t == [s EXCEPT !.drive = e]
<1>1. s \in Machines /\ s.drive \in Drive /\ Len(s.drive.cmd) \in Nat
  BY DriveOf, LenProperties DEF Drive
<1>2. e.bufs = s.drive.bufs /\ e.cmd = s.drive.cmd /\ e.sec = second
  BY <1>1 DEF Drive
<1> HIDE DEF e
<1>3. Prepares(s, t) /\ t.bus = s.bus /\ t.drive = e
  BY <1>1, <1>2, CommandPrepares DEF Machines
<1>4. Shrinks(s, t)
  BY <1>1, <1>2, <1>3 DEF Shrinks
<1>5. ASSUME NEW u \in {s, error(s), stopWith(s, "assert FA")}
      PROVE  Prepares(s, u) /\ Shrinks(s, u)
  BY <1>1, StillItself, HaltStill, StillIsEffect DEF Prepares, Still
<1>6. ~Running(error(s)) /\ ~Running(stopWith(s, "assert FA"))
  BY <1>1, HaltStill
<1>7. \/ SECOND(s, second) = s /\ ~Running(s)
      \/ SECOND(s, second) \in {error(s), stopWith(s, "assert FA")}
      \/ SECOND(s, second) = t /\ s.bus.role = "listen"
  BY DEF SECOND, IfRunning, diskSECOND, e
<1> HIDE DEF t
<1> QED
  BY <1>2, <1>3, <1>4, <1>5, <1>6, <1>7

LEMMA SendNamePrepares ==
  ASSUME NEW s, Sound(s)
  PROVE  Prepares(s, sendName(s))
<1> DEFINE e == [s.drive EXCEPT !.cmd = @ \o s.name]
<1>1. s \in Machines /\ s.drive \in Drive
  BY DriveOf
<1>2. e.bufs = s.drive.bufs
  BY <1>1 DEF Drive
<1>3. sendName(s) = IF Running(s) THEN [s EXCEPT !.drive = e] ELSE s
  BY DEF sendName, IfRunning
<1> HIDE DEF e
<1>4. Prepares(s, s)
  BY DEF Prepares, SameFiles
<1> QED
  BY <1>1, <1>2, <1>3, <1>4, CommandPrepares
-----------------------------------------------------------------------------
(***************************************************************************)
(* Errors and file calls.                                                  *)
(***************************************************************************)
LEMMA ClrchEffect ==
  ASSUME NEW s, Sound(s)
  PROVE  /\ Effect(s, romCLRCH(s)) /\ Shrinks(s, romCLRCH(s))
         /\ Effect(s, romClrch(s)) /\ Shrinks(s, romClrch(s))
<1>1. ASSUME NEW t, t \in {s, UNLSN(s)}, NEW u, u \in {t, UNTLK(t)}
      PROVE  Effect(s, DefaultDevices(u)) /\ Shrinks(s, DefaultDevices(u))
  <2>1. Effect(s, t) /\ Shrinks(s, t)
    BY <1>1, UnlsnEffect, StillItself, StillIsEffect
  <2>2. Sound(t)
    BY <1>1, UnlsnKeeps DEF Keeps
  <2>3. Still(t, u) /\ Sound(u)
    BY <1>1, <2>2, DriveOf, IdleStill, StillItself, UnlsnKeeps DEF Keeps
  <2>4. Still(t, DefaultDevices(u))
    BY <2>3, DriveOf, IdleStill, StillTransitive
  <2> QED
    BY <2>1, <2>4, EffectBeforeStill
<1>2. \E t \in {s, UNLSN(s)}, u \in {s, UNLSN(s), UNTLK(s), UNTLK(UNLSN(s))} :
        u \in {t, UNTLK(t)} /\ romCLRCH(s) = DefaultDevices(u)
  BY DEF romCLRCH
<1>3. \E t \in {s, UNLSN(s)}, u \in {s, UNLSN(s), UNTLK(s), UNTLK(UNLSN(s))} :
        u \in {t, UNTLK(t)} /\ romClrch(s) = DefaultDevices(u)
  BY DEF romClrch
<1> QED
  BY <1>1, <1>2, <1>3

\* A refused call that the process survives leaves the carry set.
LEMMA ErrorEffect ==
  ASSUME NEW s, Sound(s)
  PROVE  /\ Effect(s, romError(s)) /\ Shrinks(s, romError(s))
         /\ Running(romError(s)) => romError(s).carry
<1> DEFINE t == romCLRCH(s)
<1>1. Effect(s, t) /\ Shrinks(s, t) /\ t \in Machines
  BY ClrchEffect, ClrchKeeps, DriveOf DEF Keeps
<1>2. romError(s) = IF Running(t) THEN [t EXCEPT !.carry = TRUE] ELSE t
  BY DEF romError, IfRunning
<1> HIDE DEF t
<1>3. Still(t, [t EXCEPT !.carry = TRUE]) /\ [t EXCEPT !.carry = TRUE].carry = TRUE
  BY <1>1, CellStill
<1> QED
  BY <1>1, <1>2, <1>3, EffectBeforeStill

LEMMA PreparesTransitive ==
  ASSUME NEW s, NEW t, NEW u, Prepares(s, t), Prepares(t, u)
  PROVE  Prepares(s, u)
  BY DEF Prepares, SameFiles

\* LISTEN to the current device, then SECOND.
LEMMA Addressed ==
  ASSUME NEW s, Sound(s), NEW h \in Nibble
  PROVE  LET u == SECOND(LISTEN(s, s.fa), [s.sa EXCEPT !.hi = h])
         IN  /\ Sound(u) /\ Prepares(s, u) /\ Shrinks(s, u)
             /\ u.name = s.name
             /\ Running(u) => u.drive.cmd = <<>>
<1> DEFINE sa == [s.sa EXCEPT !.hi = h]
           t == LISTEN(s, s.fa)
           u == SECOND(t, sa)
<1>1. s.fa \in Device /\ s.sa \in Secondary
  BY DriveOf DEF Machines
<1>2. sa \in Secondary
  BY <1>1, HighNibble
<1> HIDE DEF sa
<1>3. Keeps(s, t) /\ Sound(t) /\ t.drive \in Drive
  BY <1>1, ListenKeeps, DriveOf DEF Keeps
<1>4. /\ Prepares(s, t) /\ Shrinks(s, t)
      /\ Running(t) => t.drive.cmd = <<>>
  BY <1>1, ListenPrepares DEF Prepares, SameFiles
<1> HIDE DEF t
<1>5. Keeps(t, u) /\ Sound(u) /\ u.drive \in Drive
  BY <1>2, <1>3, SecondKeeps, DriveOf DEF Keeps
<1>6. Prepares(t, u) /\ Shrinks(t, u)
  BY <1>3, SecondPrepares
<1> HIDE DEF u
<1>7. /\ Len(s.drive.cmd) \in Nat /\ Len(t.drive.cmd) \in Nat
      /\ Len(u.drive.cmd) \in Nat /\ u.drive.cmd \in Seq(Token)
  <2>1. s.drive.cmd \in Seq(Token) /\ t.drive.cmd \in Seq(Token) /\ u.drive.cmd \in Seq(Token)
    BY <1>3, <1>5, DriveOf DEF Drive
  <2> QED
    BY <2>1, LenProperties
<1>8. Shrinks(s, u)
  BY <1>4, <1>6, <1>7 DEF Shrinks
<1>9. Running(u) => u.drive.cmd = <<>>
  <2>1. SUFFICES ASSUME Running(u)
                 PROVE  u.drive.cmd = <<>>
    OBVIOUS
  <2>2. t.drive.cmd = <<>>
    BY <1>4, <1>6, <2>1 DEF Prepares
  <2>3. Len(<<>>) = 0
    OBVIOUS
  <2>4. Len(u.drive.cmd) = 0
    BY <1>6, <1>7, <2>2, <2>3 DEF Shrinks
  <2> QED
    BY <1>7, <2>4, EmptySeq
<1>10. Prepares(s, u) /\ u.name = s.name
  BY <1>3, <1>4, <1>5, <1>6, PreparesTransitive DEF Keeps
<1> QED
  BY <1>5, <1>8, <1>9, <1>10 DEF u, t, sa

LEMMA DiskOpenEffect ==
  ASSUME NEW s, Sound(s)
  PROVE  Effect(s, diskOPEN(s))
<1> DEFINE s1 == [s EXCEPT !.status = 0]
           u == SECOND(LISTEN(s1, s.fa), [s.sa EXCEPT !.hi = 15])
           v == sendName(u)
           w == UNLSN(v)
<1>1. s \in Machines /\ Sound(s1) /\ Still(s, s1)
  BY DriveOf, NewCarry, CellStill DEF Keeps
<1>2. s1.fa = s.fa /\ s1.sa = s.sa
  BY <1>1 DEF Still, SameFiles
<1>3. Prepares(s, s1)
  BY <1>1 DEF Still, Prepares
<1>4. 15 \in Nibble
  BY DEF Nibble
<1> HIDE DEF s1
<1>5. /\ Sound(u) /\ Prepares(s1, u)
      /\ Running(u) => u.drive.cmd = <<>>
  BY <1>1, <1>2, <1>4, Addressed
<1> HIDE DEF u
<1>6. Prepares(u, v) /\ Sound(v)
  BY <1>5, SendNamePrepares, SendNameKeeps DEF Keeps
<1> HIDE DEF v
<1>7. Prepares(s, v)
  BY <1>3, <1>5, <1>6, PreparesTransitive
<1>8. Effect(v, w) /\ (Running(w) => w.bus = IdleBus)
  BY <1>6, UnlsnEffect
<1> HIDE DEF w
<1>9. Effect(s, w)
  BY <1>7, <1>8, PreparedEffect
<1>10. Effect(s, s)
  BY StillItself, StillIsEffect
<1> QED
  BY <1>9, <1>10 DEF diskOPEN, s1, u, v, w

LEMMA OpenDeviceEffect ==
  ASSUME NEW s, Sound(s)
  PROVE  Effect(s, openDevice(s))
<1>1. Effect(s, s) /\ Effect(s, error(s))
  BY DriveOf, StillItself, HaltStill, StillIsEffect
<1> QED
  BY <1>1, DiskOpenEffect DEF openDevice

LEMMA CloseDeviceEffect ==
  ASSUME NEW s, Sound(s)
  PROVE  Effect(s, closeDevice(s)) /\ Shrinks(s, closeDevice(s))
<1> DEFINE u == SECOND(LISTEN(s, s.fa), [s.sa EXCEPT !.hi = 14])
           w == UNLSN(u)
<1>1. 14 \in Nibble
  BY DEF Nibble
<1>2. Sound(u) /\ Prepares(s, u) /\ Shrinks(s, u)
  BY <1>1, Addressed
<1> HIDE DEF u
<1>3. Effect(u, w) /\ Shrinks(u, w) /\ Sound(w) /\ (Running(w) => w.bus = IdleBus)
  BY <1>2, UnlsnEffect, UnlsnKeeps DEF Keeps
<1> HIDE DEF w
<1>4. Effect(s, w)
  BY <1>2, <1>3, PreparedEffect
<1>5. Shrinks(s, w)
  <2>1. /\ Len(s.drive.cmd) \in Nat /\ Len(u.drive.cmd) \in Nat /\ Len(w.drive.cmd) \in Nat
    BY <1>2, <1>3, DriveOf, LenProperties DEF Drive
  <2> QED
    BY <1>2, <1>3, <2>1 DEF Shrinks
<1>6. Effect(s, carryClear(w)) /\ Shrinks(s, carryClear(w))
  BY <1>3, <1>4, <1>5, DriveOf, CarryClearStill, EffectBeforeStill
<1>7. /\ Effect(s, carryClear(s)) /\ Shrinks(s, carryClear(s))
      /\ Effect(s, error(s)) /\ Shrinks(s, error(s)) /\ Effect(s, s) /\ Shrinks(s, s)
  BY DriveOf, CarryClearStill, HaltStill, StillItself, StillIsEffect
<1>8. romCloseSerial(s) = carryClear(IF s.sa.hi < 8 THEN w ELSE s)
  BY DEF romCloseSerial, u, w
<1> QED
  BY <1>6, <1>7, <1>8 DEF closeDevice

\* What a whole call may do to the drive and to the bus, whatever it does to the
\* file table.
CallEffect(s, t) ==
  /\ BufferStep(s.drive.bufs, t.drive)
  /\ Running(t) => \/ t.bus = IdleBus
                   \/ t.bus = s.bus /\ t.drive.sec = s.drive.sec

\* Routines that change the file table or the current file's parameters alone.
Relabels(s, t) == t.drive = s.drive /\ t.bus = s.bus /\ t.halt = s.halt

\* The parameters are those before the call, or those of an open file.
FromRow(s, t, number) ==
  \/ t.fa = s.fa /\ t.sa = s.sa
  \/ /\ IsOpen(s.files, number)
     /\ t.fa = s.files[romLookup(s.files, number)].fa
     /\ t.sa = s.files[romLookup(s.files, number)].sa

LEMMA EffectIsCall ==
  ASSUME NEW s, NEW t, NEW u, Relabels(s, t), Effect(t, u)
  PROVE  CallEffect(s, u) /\ (Shrinks(t, u) => Shrinks(s, u))
  BY DEF Relabels, Effect, CallEffect, Shrinks

LEMMA RelabelsItself ==
  ASSUME NEW s
  PROVE  Relabels(s, s)
  BY DEF Relabels

LEMMA OpenEffect ==
  ASSUME NEW s0, Good(s0)
  PROVE  LET t == romOpen(s0)
             row == [la |-> s0.la, fa |-> s0.fa, sa |-> SerialCommand(s0.sa)]
         IN  /\ CallEffect(s0, t)
             /\ t.fa = s0.fa /\ t.la = s0.la
             /\ \/ /\ t.files = s0.files /\ t.sa = s0.sa
                   /\ Running(t) => t.carry
                \/ /\ ~IsOpen(s0.files, s0.la) /\ Len(s0.files) # MaxFiles
                   /\ t.files = Append(s0.files, row) /\ t.sa = SerialCommand(s0.sa)
                   /\ Running(t) => ~t.carry
<1> DEFINE s == [s0 EXCEPT !.status = 0]
           sa == SerialCommand(s.sa)
           row == [la |-> s.la, fa |-> s.fa, sa |-> sa]
           f == enterFile(s)
           t == openDevice(f)
<1>1. Sound(s) /\ s \in Machines /\ Sound(s0) /\ Table(s0.files)
  BY NewCarry DEF Good, Keeps, Sound
<1>2. Still(s0, s)
  BY <1>1, CellStill, DriveOf
<1>3. /\ s.la = s0.la /\ s.fa = s0.fa /\ s.sa = s0.sa /\ s.files = s0.files
      /\ s.drive = s0.drive /\ s.bus = s0.bus /\ s.halt = s0.halt
  BY <1>1, DriveOf DEF Machines
<1> HIDE DEF s
<1>4. CASE IsOpen(s.files, s.la) \/ Len(s.files) = MaxFiles
  <2>1. romOpen(s0) = romError(s)
    BY <1>4 DEF romOpen, s
  <2>2. Effect(s, romError(s)) /\ (Running(romError(s)) => romError(s).carry)
    BY <1>1, ErrorEffect
  <2>3. Relabels(s0, s)
    BY <1>3 DEF Relabels
  <2>4. CallEffect(s0, romError(s))
    BY <2>2, <2>3, EffectIsCall
  <2> QED
    BY <1>3, <2>1, <2>2, <2>4 DEF Effect, SameFiles
<1>5. CASE ~(IsOpen(s.files, s.la) \/ Len(s.files) = MaxFiles)
  <2>1. s.la \in Numbers /\ s.fa \in Device /\ s.sa \in Secondary /\ s.files \in Seq(Row)
    BY <1>1 DEF Machines
  <2>2. sa \in Secondary /\ sa.hi \in {6, 7, 14, 15}
    BY <2>1, SerialCommandRange
  <2>3. f = [s EXCEPT !.sa = sa, !.files = Append(s.files, row)]
    BY DEF enterFile
  <2> HIDE DEF sa
  <2>4. row \in Row /\ row.la = s.la /\ row.fa = s.fa /\ row.sa = sa
    BY <2>1, <2>2 DEF Row
  <2> HIDE DEF row
  <2>5. Append(s.files, row) \in Seq(Row)
    BY <1>1, <1>3, <1>5, <2>1, <2>2, <2>4, RowAppended
  <2>6. /\ f \in Machines /\ f.files = Append(s.files, row)
        /\ f.la = s.la /\ f.fa = s.fa /\ f.sa = sa
    BY <1>1, <2>2, <2>3, <2>5 DEF Machines
  <2>7. f.drive = s.drive /\ f.name = s.name /\ f.bus = s.bus /\ f.halt = s.halt
    BY <1>1, <2>3 DEF Machines
  <2>8. Sound(f) /\ Relabels(s0, f)
    BY <1>1, <1>3, <2>6, <2>7 DEF Sound, Running, Relabels
  <2> HIDE DEF f
  <2>9. Effect(f, t) /\ t \in Machines
    BY <2>8, OpenDeviceEffect, OpenDeviceKeeps, DriveOf DEF Keeps
  <2> HIDE DEF t
  <2>10. Still(t, carryClear(t)) /\ (Running(carryClear(t)) => ~carryClear(t).carry)
    BY <2>9, CarryClearStill
  <2>11. Effect(f, carryClear(t))
    BY <2>9, <2>10, EffectBeforeStill
  <2>12. CallEffect(s0, carryClear(t))
    BY <2>8, <2>11, EffectIsCall
  <2>13. romOpen(s0) = carryClear(t)
    BY <1>5 DEF romOpen, s, t, f
  <2>14. row = [la |-> s0.la, fa |-> s0.fa, sa |-> SerialCommand(s0.sa)] /\ sa = SerialCommand(s0.sa)
    BY <1>3 DEF row, sa
  <2> QED
    BY <1>3, <1>5, <2>6, <2>10, <2>11, <2>12, <2>13, <2>14 DEF Effect, SameFiles
<1> QED
  BY <1>4, <1>5

\* The parameters of an open file become the current ones.
LEMMA FetchedParameters ==
  ASSUME NEW s, Sound(s), NEW row
  PROVE  LET t == romFetchFileTableEntries(s, row)
         IN  /\ t.la = s.files[row].la
             /\ t.fa = s.files[row].fa /\ t.sa = s.files[row].sa
             /\ t.files = s.files
             /\ Relabels(s, t)
<1>1. s \in Machines
  BY DriveOf
<1> QED
  BY <1>1 DEF romFetchFileTableEntries, Relabels, Machines

LEMMA CloseEffect ==
  ASSUME NEW s, Good(s), NEW number
  PROVE  LET t == romClose(s, number)
         IN  /\ CallEffect(s, t) /\ Shrinks(s, t)
             /\ FromRow(s, t, number)
             /\ \/ /\ t.files = s.files
                   /\ Running(t) => ~IsOpen(s.files, number)
                \/ /\ IsOpen(s.files, number)
                   /\ t.files = removeFileTableEntry(s.files, romLookup(s.files, number))
                   /\ t.la = number
<1> DEFINE row == romLookup(s.files, number)
           f == romFetchFileTableEntries(s, row)
           t == closeDevice(f)
           v == [t EXCEPT !.files = removeFileTableEntry(t.files, row)]
           u == IfRunning(t, v)
<1>1. Sound(s) /\ s \in Machines /\ s.files \in Seq(Row)
  BY DriveOf DEF Good, Machines
<1>2. CASE ~IsOpen(s.files, number)
  <2>1. romClose(s, number) = carryClear(s)
    BY <1>2 DEF romClose
  <2>2. Still(s, carryClear(s))
    BY <1>1, CarryClearStill
  <2>3. Effect(s, carryClear(s)) /\ Shrinks(s, carryClear(s))
    BY <1>1, <2>2, StillIsEffect
  <2>4. CallEffect(s, carryClear(s))
    BY <2>3, RelabelsItself, EffectIsCall
  <2>5. carryClear(s).files = s.files /\ FromRow(s, carryClear(s), number)
    BY <2>2 DEF Still, SameFiles, FromRow
  <2> QED
    BY <1>2, <2>1, <2>3, <2>4, <2>5
<1>3. CASE IsOpen(s.files, number)
  <2>1. row \in 1 .. Len(s.files) /\ s.files[row].la = number
    BY <1>1, <1>3, FoundRow
  <2> HIDE DEF row
  <2>2. Sound(f)
    BY <1>1, <2>1, FetchKeeps DEF Keeps
  <2>3. /\ f.la = number /\ f.fa = s.files[row].fa /\ f.sa = s.files[row].sa
        /\ f.files = s.files /\ Relabels(s, f)
    BY <1>1, <2>1, FetchedParameters
  <2> HIDE DEF f
  <2>4. Effect(f, t) /\ Shrinks(f, t) /\ t \in Machines
    BY <2>2, CloseDeviceEffect, CloseDeviceKeeps, DriveOf DEF Keeps
  <2>5. romClose(s, number) = carryClear(u)
    BY <1>3 DEF romClose, u, v, t, f, row
  <2> HIDE DEF t
  <2>6. t.files = s.files /\ t.la = number /\ t.fa = f.fa /\ t.sa = f.sa
    BY <2>3, <2>4 DEF Effect, SameFiles
  <2>7. v \in Machines
    <3>1. removeFileTableEntry(t.files, row) \in Seq(Row)
      BY <1>1, <2>1, <2>6, RowRemoved DEF Good
    <3> QED
      BY <2>4, <3>1, FieldUpdates
  <2>8. /\ v.files = removeFileTableEntry(s.files, row)
        /\ v.la = t.la /\ v.fa = t.fa /\ v.sa = t.sa
        /\ v.drive = t.drive /\ v.bus = t.bus /\ v.halt = t.halt
    BY <2>4, <2>6 DEF Machines
  <2> HIDE DEF v
  <2>9. /\ u \in Machines /\ u.la = number /\ u.fa = f.fa /\ u.sa = f.sa
        /\ \/ u.files = s.files /\ ~Running(u)
           \/ u.files = removeFileTableEntry(s.files, row)
        /\ u.drive = t.drive /\ u.bus = t.bus /\ u.halt = t.halt
    BY <2>4, <2>6, <2>7, <2>8 DEF IfRunning, Running
  <2> HIDE DEF u
  <2>10. Still(u, carryClear(u))
    BY <2>9, CarryClearStill
  <2> DEFINE w == carryClear(u)
  <2>11. /\ w.la = number /\ w.fa = f.fa /\ w.sa = f.sa /\ w.files = u.files
         /\ Running(w) => Running(u)
         /\ w.drive = t.drive /\ (Running(w) => Running(t) /\ w.bus \in {t.bus, IdleBus})
    BY <2>9, <2>10 DEF Still, SameFiles, Running
  <2> HIDE DEF w
  <2>12. CallEffect(s, w) /\ Shrinks(s, w)
    BY <2>3, <2>4, <2>11 DEF Effect, CallEffect, Shrinks, Relabels
  <2>13. FromRow(s, w, number)
    BY <1>3, <2>3, <2>11 DEF FromRow, row
  <2> QED
    BY <1>3, <2>5, <2>9, <2>11, <2>12, <2>13 DEF w, row
<1> QED
  BY <1>2, <1>3

LEMMA TalkLeaves ==
  ASSUME NEW s, Sound(s), NEW dev
  PROVE  LET t == TALK(s, dev)
         IN  /\ t.sa = s.sa /\ t.files = s.files /\ t.drive = s.drive
             /\ t.fa = s.fa \/ t.fa = dev
             /\ Running(t) => t.bus.role = "talk"
<1>1. s \in Machines
  BY DriveOf
<1> QED
  BY <1>1 DEF TALK, IfRunning, Machines

LEMMA TksaPrepares ==
  ASSUME NEW s, Sound(s), NEW second
  PROVE  LET t == TKSA(s, second)
         IN  /\ Prepares(s, t) /\ Shrinks(s, t)
             /\ Running(t) => t.bus = s.bus
<1> DEFINE e == [s.drive EXCEPT !.sec = second]
           t == [s EXCEPT !.drive = e]
<1>1. s \in Machines /\ s.drive \in Drive /\ Len(s.drive.cmd) \in Nat
  BY DriveOf, LenProperties DEF Drive
<1>2. e.bufs = s.drive.bufs /\ e.cmd = s.drive.cmd
  BY <1>1 DEF Drive
<1> HIDE DEF e
<1>3. Prepares(s, t) /\ t.bus = s.bus /\ t.drive = e
  BY <1>1, <1>2, CommandPrepares DEF Machines
<1>4. Shrinks(s, t)
  BY <1>1, <1>2, <1>3 DEF Shrinks
<1>5. ASSUME NEW u \in {s, error(s), stopWith(s, "assert FA")}
      PROVE  Prepares(s, u) /\ Shrinks(s, u) /\ u.bus = s.bus
  BY <1>1, StillItself, HaltStill, StillIsEffect DEF Prepares, Still
<1>6. \/ TKSA(s, second) \in {s, error(s), stopWith(s, "assert FA")}
      \/ TKSA(s, second) = t
  BY DEF TKSA, IfRunning, diskTKSA, diskSECOND, e
<1> HIDE DEF t
<1> QED
  BY <1>3, <1>4, <1>5, <1>6

LEMMA ChkinEffect ==
  ASSUME NEW s0, Good(s0), NEW number
  PROVE  LET t == romCHKIN(s0, number)
         IN  /\ BufferStep(s0.drive.bufs, t.drive) /\ Shrinks(s0, t)
             /\ t.files = s0.files
             /\ FromRow(s0, t, number)
             /\ Running(t) => t.bus = s0.bus \/ t.bus.role # "listen"
<1> DEFINE s == [s0 EXCEPT !.status = 0]
           t == romFetchFileTableEntries(s, romLookup(s.files, number))
           u == TALK(t, t.fa)
           v == TKSA(u, t.sa)
           w == romCHKIN(s0, number)
<1>1. Keeps(s0, s) /\ Sound(s) /\ Sound(s0) /\ Len(s0.drive.cmd) \in Nat
  BY NewCarry, DriveOf, LenProperties DEF Good, Keeps, Drive
<1>2. /\ s.fa = s0.fa /\ s.sa = s0.sa /\ s.files = s0.files
      /\ s.drive = s0.drive /\ s.bus = s0.bus /\ s.halt = s0.halt
  BY <1>1, DriveOf DEF Machines
<1> HIDE DEF s
<1>3. CASE ~IsOpen(s.files, number)
  <2>1. w = romError(s)
    BY <1>3 DEF romCHKIN, s
  <2>2. Effect(s, w) /\ Shrinks(s, w)
    BY <1>1, <2>1, ErrorEffect
  <2> HIDE DEF w
  <2>3. IdleBus.role # "listen"
    BY DEF IdleBus
  <2> QED
    BY <1>2, <2>2, <2>3 DEF Effect, SameFiles, Shrinks, FromRow, w
<1>4. CASE IsOpen(s.files, number)
  <2>1. romLookup(s.files, number) \in 1 .. Len(s.files)
    BY <1>1, <1>4, DriveOf, FoundRow DEF Machines
  <2>2. Sound(t) /\ t \in Machines
    BY <1>1, <2>1, FetchKeeps, DriveOf DEF Keeps
  <2>3. /\ t.fa = s.files[romLookup(s.files, number)].fa
        /\ t.sa = s.files[romLookup(s.files, number)].sa
        /\ t.files = s.files /\ Relabels(s, t)
    BY <1>1, FetchedParameters
  <2>4. w \in {t, error(t), v}
    BY <1>4 DEF romCHKIN, s
  <2> HIDE DEF t, w
  <2>5. t.fa \in Device
    BY <2>2 DEF Machines
  <2>6. /\ Sound(u) /\ u.fa = t.fa /\ u.sa = t.sa /\ u.files = t.files /\ u.drive = t.drive
        /\ Running(u) => u.bus.role = "talk"
    BY <2>2, <2>5, TalkKeeps, TalkLeaves DEF Keeps
  <2> HIDE DEF u
  <2>7. Prepares(u, v) /\ Shrinks(u, v) /\ (Running(v) => v.bus = u.bus)
    BY <2>6, TksaPrepares
  <2> HIDE DEF v
  <2>8. Still(t, t) /\ Still(t, error(t)) /\ ~Running(error(t))
    BY <2>2, HaltStill, StillItself
  <2>9. \A x : Still(t, x) \/ (Prepares(u, x) /\ x = v) =>
          x.fa = t.fa /\ x.sa = t.sa /\ x.files = t.files /\ x.drive.bufs = s0.drive.bufs
    BY <1>2, <2>3, <2>6 DEF Still, Prepares, SameFiles, Relabels
  <2>10. w.fa = t.fa /\ w.sa = t.sa /\ w.files = t.files /\ w.drive.bufs = s0.drive.bufs
    BY <2>4, <2>7, <2>8, <2>9
  <2>11. Shrinks(s0, w)
    BY <1>1, <1>2, <2>3, <2>4, <2>6, <2>7, <2>8 DEF Still, Shrinks, Relabels
  <2>12. Running(w) => w.bus = s0.bus \/ w.bus.role # "listen"
    BY <1>2, <2>3, <2>4, <2>6, <2>7, <2>8 DEF Relabels, Prepares
  <2> QED
    BY <1>2, <1>4, <2>3, <2>10, <2>11, <2>12 DEF BufferStep, FromRow, w
<1> QED
  BY <1>3, <1>4

-----------------------------------------------------------------------------
(***************************************************************************)
(* What one step does to the drive and to the bus.                         *)
(***************************************************************************)
StepEffect ==
  /\ BufferStep(m.drive.bufs, m'.drive)
  /\ Running(m') /\ m'.bus.role = "listen" /\ m'.bus # m.bus => Listen
  /\ Len(m'.drive.cmd) > Len(m.drive.cmd) => m.bus.role = "listen" \/ Open
  /\ Running(m') /\ m.bus.role = "talk" /\ m'.bus = m.bus
       /\ m'.drive.sec # m.drive.sec => Tksa \/ Chkin

LEMMA EveryStep == Inv /\ Next => StepEffect
<1> SUFFICES ASSUME Inv, Next
             PROVE  StepEffect
  OBVIOUS
<1>1. Good(m) /\ Sound(m) /\ m \in Machines
  BY DriveOf DEF Inv, Good
<1>2. Len(m.drive.cmd) \in Nat /\ Len(m'.drive.cmd) \in Nat
  <2>1. Sound(m')
    BY StepGood DEF Inv, Good
  <2> QED
    BY <1>1, <2>1, DriveOf, LenProperties DEF Drive
<1>3. Running(m)
  BY DEF Next, Call, Setlfs, Setnam, Open, Close, Chkin, Clrchn, Clall, Bsout, Basin,
         Load, Listen, Second, Ciout, Unlsn, Talk, Tksa, Acptr, Untlk, UnknownCall
<1>4. IdleBus.role = "idle"
  BY DEF IdleBus
<1>5. ASSUME CallEffect(m, m'), Shrinks(m, m') \/ m.bus.role = "listen" \/ Open
      PROVE  StepEffect
  BY <1>2, <1>4, <1>5 DEF CallEffect, Shrinks, StepEffect
<1>6. \A t : Effect(m, t) => CallEffect(m, t)
  BY RelabelsItself, EffectIsCall
<1>7. \A t : Still(m, t) => CallEffect(m, t) /\ Shrinks(m, t)
  BY <1>1, <1>6, StillIsEffect
<1>8. CASE Setlfs
  <2>1. PICK n \in Numbers, dev \in Devices, sa \in Secondaries :
          m' = [m EXCEPT !.la = n, !.fa = dev, !.sa = sa]
    BY <1>8 DEF Setlfs, Call
  <2>2. m'.drive = m.drive /\ m'.bus = m.bus
    BY <1>1, <2>1 DEF Machines
  <2> QED
    BY <1>2, <2>2 DEF StepEffect, BufferStep
<1>9. CASE Setnam
  <2>1. PICK q \in Names :
          m' = IF Len(q) > NameSize THEN stopWith(m, "assert name") ELSE [m EXCEPT !.name = q]
    BY <1>9 DEF Setnam, Call
  <2>2. Still(m, [m EXCEPT !.name = q]) /\ Still(m, stopWith(m, "assert name"))
    BY <1>1, CellStill, HaltStill
  <2> QED
    BY <1>5, <1>7, <2>1, <2>2
<1>10. CASE Open
  BY <1>1, <1>5, <1>10, OpenEffect DEF Open, Call
<1>11. CASE Close
  BY <1>1, <1>5, <1>11, CloseEffect DEF Close, Call
<1>12. CASE Chkin
  <2>1. PICK n \in Numbers : m' = romCHKIN(m, n)
    BY <1>12 DEF Chkin, Call
  <2>2. /\ BufferStep(m.drive.bufs, m'.drive) /\ Shrinks(m, m')
        /\ Running(m') => m'.bus = m.bus \/ m'.bus.role # "listen"
    BY <1>1, <2>1, ChkinEffect
  <2> QED
    BY <1>2, <1>12, <2>2 DEF StepEffect, Shrinks
<1>13. CASE Clrchn
  BY <1>1, <1>5, <1>6, <1>13, ClrchEffect DEF Clrchn, Call
<1>14. CASE Clall
  <2> DEFINE t == [m EXCEPT !.files = <<>>]
  <2>1. Sound(t)
    BY <1>1, <1>3, SetGood DEF Good
  <2>2. Relabels(m, t)
    BY <1>1 DEF Relabels, Machines
  <2>3. m' = romClrch(t)
    BY <1>14 DEF Clall, Call
  <2> HIDE DEF t
  <2>4. CallEffect(m, m') /\ Shrinks(m, m')
    BY <2>1, <2>2, <2>3, ClrchEffect, EffectIsCall
  <2> QED
    BY <1>5, <2>4
<1>15. CASE Bsout \/ Ciout
  <2>1. PICK token \in Tokens : m' = romBsout(m, token) \/ m' = CIOUT(m, token)
    BY <1>15 DEF Bsout, Ciout, Call
  <2>2. token \in Token
    BY KernalAssumption
  <2>3. m' \in {m, error(m), CIOUT(m, token)}
    BY <2>1 DEF romBsout
  <2> QED
    BY <1>1, <1>5, <1>6, <1>7, <2>2, <2>3, CioutEffect, StillItself, HaltStill
<1>16. CASE Basin \/ Acptr
  <2>1. m' \in {error(m), ACPTR(m), [m EXCEPT !.carry = FALSE]}
    BY <1>16 DEF Basin, Acptr, romBasin, Call
  <2>2. Still(m, [m EXCEPT !.carry = FALSE]) /\ Still(m, error(m))
    BY <1>1, CellStill, HaltStill
  <2>3. Effect(m, ACPTR(m)) /\ Shrinks(m, ACPTR(m))
    BY <1>1, AcptrEffect
  <2> QED
    BY <1>5, <1>6, <1>7, <2>1, <2>2, <2>3
<1>17. CASE Load \/ UnknownCall
  BY <1>1, <1>5, <1>7, <1>17, StillItself, HaltStill DEF Load, UnknownCall, Call
<1>18. CASE Listen
  <2>1. PICK dev \in BusDevices : m' = LISTEN(m, dev)
    BY <1>18 DEF Listen, Call
  <2>2. dev \in Device
    BY KernalAssumption
  <2>3. m'.drive.bufs = m.drive.bufs /\ m'.drive.sec = m.drive.sec /\ Shrinks(m, m')
    BY <1>1, <2>1, <2>2, ListenPrepares
  <2> QED
    BY <1>2, <1>18, <2>3 DEF StepEffect, BufferStep, Shrinks
<1>19. CASE Second
  <2>1. PICK sa \in BusSecondaries : m' = SECOND(m, sa)
    BY <1>19 DEF Second, Call
  <2>2. /\ Prepares(m, m') /\ Shrinks(m, m')
        /\ Running(m') => m'.bus = m.bus /\ m.bus.role = "listen"
    BY <1>1, <2>1, SecondPrepares
  <2> QED
    BY <1>2, <2>2 DEF StepEffect, BufferStep, Shrinks, Prepares
<1>20. CASE Talk
  <2>1. PICK dev \in BusDevices : m' = TALK(m, dev)
    BY <1>20 DEF Talk, Call
  <2>2. m'.drive = m.drive /\ (Running(m') => m'.bus.role = "talk")
    BY <1>1, <2>1, TalkLeaves
  <2> QED
    BY <1>2, <2>2 DEF StepEffect, BufferStep
<1>21. CASE Tksa
  <2>1. PICK sa \in BusSecondaries : m' = TKSA(m, sa)
    BY <1>21 DEF Tksa, Call
  <2>2. Prepares(m, m') /\ Shrinks(m, m') /\ (Running(m') => m'.bus = m.bus)
    BY <1>1, <2>1, TksaPrepares
  <2> QED
    BY <1>2, <1>21, <2>2 DEF StepEffect, BufferStep, Shrinks, Prepares
<1>22. CASE Unlsn
  BY <1>1, <1>5, <1>6, <1>22, UnlsnEffect DEF Unlsn, Call
<1>23. CASE Untlk
  BY <1>1, <1>5, <1>7, <1>23, IdleStill DEF Untlk, Call
<1> QED
  BY <1>8, <1>9, <1>10, <1>11, <1>12, <1>13, <1>14, <1>15, <1>16, <1>17, <1>18,
     <1>19, <1>20, <1>21, <1>22, <1>23 DEF Next
-----------------------------------------------------------------------------
(***************************************************************************)
(* Buffers.                                                                *)
(***************************************************************************)
LEMMA BuffersTyped ==
  ASSUME Inv
  PROVE  m.drive.bufs \in [BufferID -> Buffer]
  BY DriveOf DEF Inv, Good, Drive

\* A channel is served alike by drives that agree on its buffers.
LEMMA ServedAlike ==
  ASSUME NEW d, NEW e, NEW channel,
         \A b \in BufferID : (d.bufs[b].ch = channel) <=> (e.bufs[b].ch = channel),
         \A b \in BufferID : d.bufs[b].ch = channel => e.bufs[b] = d.bufs[b]
  PROVE  Served(e, channel) = Served(d, channel)
<1>1. BoundTo(e, channel) = BoundTo(d, channel)
  BY DEF BoundTo
<1>2. \A b \in BoundTo(d, channel) : e.bufs[b] = d.bufs[b]
  BY DEF BoundTo
<1> DEFINE least == {c \in BoundTo(d, channel) : \A x \in BoundTo(d, channel) : c <= x}
<1>3. \A b \in least : e.bufs[b] = d.bufs[b]
  BY <1>2
<1>4. /\ Served(d, channel) = {<<d.bufs[b].data, d.bufs[b].ptr>> : b \in least}
      /\ Served(e, channel) = {<<e.bufs[b].data, e.bufs[b].ptr>> : b \in least}
  BY <1>1 DEF Served
<1> HIDE DEF least
<1> QED
  BY <1>3, <1>4

\* However a program interleaves its calls, and whichever buffers it asks for by
\* number, no buffer in use is handed to another channel (diskOpenFile).
THEOREM BuffersNotStolen == Spec => BufferNotStolen
<1>1. Inv /\ [Next]_m =>
        [\A b \in BufferID :
           m.drive.bufs[b].ch # 0 => m'.drive.bufs[b].ch \in {0, m.drive.bufs[b].ch}]_m
  <2> SUFFICES ASSUME Inv, Next, NEW b \in BufferID, m.drive.bufs[b].ch # 0
               PROVE  m'.drive.bufs[b].ch \in {0, m.drive.bufs[b].ch}
    OBVIOUS
  <2>1. m.drive.bufs \in [BufferID -> Buffer]
    BY BuffersTyped
  <2>2. BoundTo(m'.drive, 0) = BufferID => m'.drive.bufs[b].ch = 0
    BY DEF BoundTo
  <2>3. BufferStep(m.drive.bufs, m'.drive)
    BY EveryStep DEF StepEffect
  <2> QED
    BY <2>1, <2>2, <2>3 DEF BufferStep
<1> QED
  BY <1>1, Invariance, PTL DEF Spec, BufferNotStolen

\* Only a reset gives buffers up, and it gives up all of them (resetDrive).
THEOREM BuffersComeBackTogether == Spec => BuffersReturnTogether
<1>1. Inv /\ [Next]_m =>
        [(\E b \in BufferID : m.drive.bufs[b].ch # 0 /\ m'.drive.bufs[b].ch = 0)
           => BoundTo(m'.drive, 0) = BufferID]_m
  <2> SUFFICES ASSUME Inv, Next, NEW b \in BufferID,
                      m.drive.bufs[b].ch # 0, m'.drive.bufs[b].ch = 0
               PROVE  BoundTo(m'.drive, 0) = BufferID
    OBVIOUS
  <2>1. m.drive.bufs \in [BufferID -> Buffer]
    BY BuffersTyped
  <2>2. BufferStep(m.drive.bufs, m'.drive)
    BY EveryStep DEF StepEffect
  <2> QED
    BY <2>1, <2>2 DEF BufferStep
<1> QED
  BY <1>1, Invariance, PTL DEF Spec, BuffersReturnTogether

\* What a channel serves changes only when the channel is selected or named, or
\* all channels end: a drive of any number of buffers keeps its channels apart.
THEOREM ChannelsAreIsolated == Spec => ChannelIsolation
<1>1. Inv /\ [Next]_m =>
        [\A channel \in ChannelsOf(m.drive) \cup ChannelsOf(m'.drive) :
           Served(m'.drive, channel) # Served(m.drive, channel) =>
             \/ m'.drive.sec.lo = channel
             \/ m'.drive.cmd # <<>> /\ m'.drive.cmd[1].ch = channel
             \/ BoundTo(m'.drive, 0) = BufferID]_m
  <2> SUFFICES ASSUME Inv, Next,
                      NEW channel \in ChannelsOf(m.drive) \cup ChannelsOf(m'.drive),
                      m'.drive.sec.lo # channel,
                      ~(m'.drive.cmd # <<>> /\ m'.drive.cmd[1].ch = channel),
                      BoundTo(m'.drive, 0) # BufferID
               PROVE  Served(m'.drive, channel) = Served(m.drive, channel)
    OBVIOUS
  <2> DEFINE d == m.drive
             e == m'.drive
  <2>1. d.bufs \in [BufferID -> Buffer]
    BY BuffersTyped
  <2>2. BufferStep(d.bufs, e)
    BY EveryStep DEF StepEffect
  <2>3. channel # 0
    BY DEF ChannelsOf
  <2> HIDE DEF d, e
  <2>4. ASSUME NEW b \in BufferID
        PROVE  /\ (d.bufs[b].ch = channel) <=> (e.bufs[b].ch = channel)
               /\ d.bufs[b].ch = channel => e.bufs[b] = d.bufs[b]
    <3>1. CASE e.bufs = d.bufs
      BY <3>1
    <3>2. CASE \E c \in BufferID : d.bufs[c].ch = 0 /\ e.bufs = [d.bufs EXCEPT ![c].ch = e.sec.lo]
      <4>1. PICK c \in BufferID : d.bufs[c].ch = 0 /\ e.bufs = [d.bufs EXCEPT ![c].ch = e.sec.lo]
        BY <3>2
      <4>2. e.sec.lo # channel
        BY DEF e
      <4>3. CASE b = c
        <5>1. d.bufs[c] \in Buffer
          BY <2>1
        <5>2. e.bufs[b] = [d.bufs[c] EXCEPT !.ch = e.sec.lo]
          BY <2>1, <4>1, <4>3
        <5>3. e.bufs[b].ch = e.sec.lo
          BY <5>1, <5>2 DEF Buffer
        <5> QED
          BY <2>3, <4>1, <4>2, <4>3, <5>3
      <4>4. CASE b # c
        BY <2>1, <4>1, <4>4
      <4> QED
        BY <4>3, <4>4
    <3>3. CASE \E c \in BufferID, x \in Buffer :
                 /\ x.ch = d.bufs[c].ch
                 /\ d.bufs[c].ch = e.sec.lo \/ (e.cmd # <<>> /\ e.cmd[1].ch = d.bufs[c].ch)
                 /\ e.bufs = [d.bufs EXCEPT ![c] = x]
      <4>1. PICK c \in BufferID, x \in Buffer :
                 /\ x.ch = d.bufs[c].ch
                 /\ d.bufs[c].ch = e.sec.lo \/ (e.cmd # <<>> /\ e.cmd[1].ch = d.bufs[c].ch)
                 /\ e.bufs = [d.bufs EXCEPT ![c] = x]
        BY <3>3
      <4>2. d.bufs[c].ch # channel
        BY <4>1 DEF e
      <4> QED
        BY <2>1, <4>1, <4>2
    <3>4. BoundTo(e, 0) # BufferID
      BY DEF e
    <3> QED
      BY <2>2, <3>1, <3>2, <3>3, <3>4 DEF BufferStep
  <2>5. Served(e, channel) = Served(d, channel)
    BY <2>4, ServedAlike
  <2> QED
    BY <2>5 DEF d, e
<1> QED
  BY <1>1, Invariance, PTL DEF Spec, ChannelIsolation

-----------------------------------------------------------------------------
(***************************************************************************)
(* The serial bus.                                                         *)
(***************************************************************************)

\* OPEN and CLOSE, refused or not, leave no device listening (diskOPEN,
\* romCloseSerial, romError).
THEOREM BusIsReleased == Spec => FileCallsReleaseBus
<1>1. Inv /\ [Next]_m => [Running(m') /\ m'.bus.role = "listen" /\ m'.bus # m.bus => Listen]_m
  BY EveryStep DEF StepEffect
<1> QED
  BY <1>1, Invariance, PTL DEF Spec, FileCallsReleaseBus

\* The drive's command grows only while it listens, or during OPEN.
THEOREM DriveWritesNeedListener == Spec => BytesNeedListener
<1>1. Inv /\ [Next]_m =>
        [Len(m'.drive.cmd) > Len(m.drive.cmd) => m.bus.role = "listen" \/ Open]_m
  BY EveryStep DEF StepEffect
<1> QED
  BY <1>1, Invariance, PTL DEF Spec, BytesNeedListener

\* The channel of a talk in progress changes by TKSA alone, the program's own or
\* the one CHKIN sends: no other call that writes secondAddress keeps the talk.
THEOREM TalksKeepChannel == Spec => TalkChannelStable
<1>1. Inv /\ [Next]_m =>
        [Running(m') /\ m.bus.role = "talk" /\ m'.bus = m.bus
           /\ m'.drive.sec # m.drive.sec => Tksa \/ Chkin]_m
  BY EveryStep DEF StepEffect
<1> QED
  BY <1>1, Invariance, PTL DEF Spec, TalkChannelStable

-----------------------------------------------------------------------------
(***************************************************************************)
(* The logical file table.                                                 *)
(***************************************************************************)

\* OPEN enters a file or refuses it as a whole, however the drive takes it.
THEOREM OpensAllOrNothing == Spec => OpenAllOrNothing
<1>1. Inv /\ [Next]_m =>
        [Open /\ Running(m') =>
           IF m'.carry THEN m'.files = m.files
           ELSE /\ Len(m'.files) = Len(m.files) + 1
                /\ m'.files[Len(m'.files)].la = m.la]_m
  <2> SUFFICES ASSUME Inv, Open, Running(m')
               PROVE  IF m'.carry THEN m'.files = m.files
                      ELSE /\ Len(m'.files) = Len(m.files) + 1
                           /\ m'.files[Len(m'.files)].la = m.la
    BY DEF Next
  <2> DEFINE row == [la |-> m.la, fa |-> m.fa, sa |-> SerialCommand(m.sa)]
  <2>1. Good(m) /\ m \in Machines /\ m' = romOpen(m)
    BY DriveOf DEF Inv, Good, Open, Call
  <2>2. \/ m'.files = m.files /\ m'.carry
        \/ m'.files = Append(m.files, row) /\ ~m'.carry
    BY <2>1, OpenEffect
  <2>3. m.files \in Seq(Row) /\ row \in Row /\ row.la = m.la
    <3>1. m.la \in Numbers /\ m.fa \in Device /\ m.sa \in Secondary /\ m.files \in Seq(Row)
      BY <2>1 DEF Machines
    <3>2. SerialCommand(m.sa) \in Secondary
      BY <3>1, SerialCommandRange
    <3> QED
      BY <3>1, <3>2 DEF Row
  <2> HIDE DEF row
  <2>4. /\ Len(Append(m.files, row)) = Len(m.files) + 1
        /\ Append(m.files, row)[Len(m.files) + 1] = row
    BY <2>3, AppendProperties
  <2> QED
    BY <2>2, <2>3, <2>4
<1> QED
  BY <1>1, Invariance, PTL DEF Spec, OpenAllOrNothing

\* Where a program may have opened a file: RAM[RAM_FA] is written by SETLFS and
\* by LISTEN and TALK, and OPEN turns the secondary address into a command.
Places == Devices \cup BusDevices
Commands == {SerialCommand(sa) : sa \in Secondaries}

\* The current parameters, and those of the open files, come from the program.
Placed ==
  /\ m.fa \in Places /\ m.sa \in Secondaries \cup Commands
  /\ \A i \in DOMAIN m.files : m.files[i].fa \in Places /\ m.files[i].sa \in Commands

\* What one step does to the file table and to the current file's parameters.
FileStep ==
  /\ \/ m'.files = m.files
     \/ /\ ~IsOpen(m.files, m.la) /\ Len(m.files) # MaxFiles
        /\ m'.files = Append(m.files, [la |-> m.la, fa |-> m.fa, sa |-> SerialCommand(m.sa)])
        /\ m'.la = m.la
     \/ \E n \in Numbers :
          /\ IsOpen(m.files, n)
          /\ m'.files = removeFileTableEntry(m.files, romLookup(m.files, n))
          /\ m'.la = n
     \/ m'.files = <<>> /\ m'.la = m.la
  /\ \/ m'.fa \in {m.fa} \cup Places
     \/ \E i \in DOMAIN m.files : m'.fa = m.files[i].fa
  /\ \/ m'.sa \in {m.sa, SerialCommand(m.sa)} \cup Secondaries
     \/ \E i \in DOMAIN m.files : m'.sa = m.files[i].sa

LEMMA EveryFileStep == Inv /\ Next => FileStep
<1> SUFFICES ASSUME Inv, Next
             PROVE  FileStep
  OBVIOUS
<1>1. /\ Good(m) /\ Sound(m) /\ m \in Machines
      /\ m.files \in Seq(Row) /\ DOMAIN m.files = 1 .. Len(m.files)
  BY DriveOf, LenProperties DEF Inv, Good, Machines
<1>2. Running(m)
  BY DEF Next, Call, Setlfs, Setnam, Open, Close, Chkin, Clrchn, Clall, Bsout, Basin,
         Load, Listen, Second, Ciout, Unlsn, Talk, Tksa, Acptr, Untlk, UnknownCall
<1>3. ASSUME NEW t, SameFiles(m, t), m' = t
      PROVE  FileStep
  BY <1>3 DEF SameFiles, FileStep
<1>4. ASSUME NEW t, m' = t, t.files = m.files, t.sa = m.sa, t.fa \in {m.fa} \cup BusDevices
      PROVE  FileStep
  BY <1>4 DEF FileStep, Places
<1>5. ASSUME NEW n, FromRow(m, m', n)
      PROVE  /\ m'.fa = m.fa \/ \E i \in DOMAIN m.files : m'.fa = m.files[i].fa
             /\ m'.sa = m.sa \/ \E i \in DOMAIN m.files : m'.sa = m.files[i].sa
  BY <1>1, <1>5, FoundRow DEF FromRow
<1>6. /\ \A t : Effect(m, t) \/ Still(m, t) \/ Prepares(m, t) => SameFiles(m, t)
      /\ SameFiles(m, m) /\ SameFiles(m, error(m))
  BY <1>1, HaltStill DEF Effect, Still, Prepares, SameFiles
<1>7. CASE Setlfs
  <2>1. PICK n \in Numbers, dev \in Devices, sa \in Secondaries :
          m' = [m EXCEPT !.la = n, !.fa = dev, !.sa = sa]
    BY <1>7 DEF Setlfs, Call
  <2>2. m'.files = m.files /\ m'.fa = dev /\ m'.sa = sa
    BY <1>1, <2>1 DEF Machines
  <2> QED
    BY <2>2 DEF FileStep, Places
<1>8. CASE Setnam
  <2>1. PICK q \in Names :
          m' = IF Len(q) > NameSize THEN stopWith(m, "assert name") ELSE [m EXCEPT !.name = q]
    BY <1>8 DEF Setnam, Call
  <2>2. Still(m, [m EXCEPT !.name = q]) /\ Still(m, stopWith(m, "assert name"))
    BY <1>1, CellStill, HaltStill
  <2> QED
    BY <1>3, <1>6, <2>1, <2>2
<1>9. CASE Open
  <2>1. m' = romOpen(m)
    BY <1>9 DEF Open, Call
  <2> QED
    BY <1>1, <2>1, OpenEffect DEF FileStep
<1>10. CASE Close
  <2>1. PICK n \in Numbers : m' = romClose(m, n)
    BY <1>10 DEF Close, Call
  <2>2. /\ FromRow(m, m', n)
        /\ \/ m'.files = m.files
           \/ /\ IsOpen(m.files, n)
              /\ m'.files = removeFileTableEntry(m.files, romLookup(m.files, n))
              /\ m'.la = n
    BY <1>1, <2>1, CloseEffect
  <2> QED
    BY <1>5, <2>2 DEF FileStep
<1>11. CASE Chkin
  <2>1. PICK n \in Numbers : m' = romCHKIN(m, n)
    BY <1>11 DEF Chkin, Call
  <2>2. FromRow(m, m', n) /\ m'.files = m.files
    BY <1>1, <2>1, ChkinEffect
  <2> QED
    BY <1>5, <2>2 DEF FileStep
<1>12. CASE Clrchn
  BY <1>1, <1>3, <1>6, <1>12, ClrchEffect DEF Clrchn, Call
<1>13. CASE Clall
  <2> DEFINE t == [m EXCEPT !.files = <<>>]
  <2>1. Sound(t)
    BY <1>1, <1>2, SetGood DEF Good
  <2>2. t.files = <<>> /\ t.la = m.la /\ t.fa = m.fa /\ t.sa = m.sa
    BY <1>1 DEF Machines
  <2>3. m' = romClrch(t)
    BY <1>13 DEF Clall, Call
  <2> HIDE DEF t
  <2>4. SameFiles(t, m')
    BY <2>1, <2>3, ClrchEffect DEF Effect
  <2> QED
    BY <2>2, <2>4 DEF FileStep, SameFiles
<1>14. CASE Bsout \/ Ciout
  <2>1. PICK token \in Tokens : m' = romBsout(m, token) \/ m' = CIOUT(m, token)
    BY <1>14 DEF Bsout, Ciout, Call
  <2>2. token \in Token
    BY KernalAssumption
  <2>3. m' \in {m, error(m), CIOUT(m, token)}
    BY <2>1 DEF romBsout
  <2> QED
    BY <1>1, <1>3, <1>6, <2>2, <2>3, CioutEffect
<1>15. CASE Basin \/ Acptr
  <2>1. m' \in {error(m), ACPTR(m), [m EXCEPT !.carry = FALSE]}
    BY <1>15 DEF Basin, Acptr, romBasin, Call
  <2>2. Still(m, [m EXCEPT !.carry = FALSE])
    BY <1>1, CellStill
  <2> QED
    BY <1>1, <1>3, <1>6, <2>1, <2>2, AcptrEffect
<1>16. CASE Load \/ UnknownCall
  BY <1>3, <1>6, <1>16 DEF Load, UnknownCall, Call
<1>17. CASE Listen
  <2>1. PICK dev \in BusDevices : m' = LISTEN(m, dev)
    BY <1>17 DEF Listen, Call
  <2>2. dev \in Device
    BY KernalAssumption
  <2>3. m'.files = m.files /\ m'.sa = m.sa /\ m'.fa \in {m.fa, dev}
    BY <1>1, <2>1, <2>2, ListenPrepares
  <2> QED
    BY <1>4, <2>3
<1>18. CASE Talk
  <2>1. PICK dev \in BusDevices : m' = TALK(m, dev)
    BY <1>18 DEF Talk, Call
  <2>2. m'.files = m.files /\ m'.sa = m.sa /\ m'.fa \in {m.fa, dev}
    BY <1>1, <2>1, TalkLeaves
  <2> QED
    BY <1>4, <2>2
<1>19. CASE Second
  BY <1>1, <1>3, <1>6, <1>19, SecondPrepares DEF Second, Call
<1>20. CASE Tksa
  BY <1>1, <1>3, <1>6, <1>20, TksaPrepares DEF Tksa, Call
<1>21. CASE Unlsn
  BY <1>1, <1>3, <1>6, <1>21, UnlsnEffect DEF Unlsn, Call
<1>22. CASE Untlk
  BY <1>1, <1>3, <1>6, <1>22, IdleStill DEF Untlk, Call
<1> QED
  BY <1>7, <1>8, <1>9, <1>10, <1>11, <1>12, <1>13, <1>14, <1>15, <1>16, <1>17, <1>18,
     <1>19, <1>20, <1>21, <1>22 DEF Next
-----------------------------------------------------------------------------
(***************************************************************************)
(* The table as a map.                                                     *)
(***************************************************************************)
NumbersOf(files) == {files[i].la : i \in DOMAIN files}

MapOf(files) ==
  [n \in NumbersOf(files) |->
     LET row == files[romLookup(files, n)] IN [fa |-> row.fa, sa |-> row.sa]]

LEMMA RowFound ==
  ASSUME NEW files \in Seq(Row), Table(files), NEW i \in DOMAIN files
  PROVE  /\ romLookup(files, files[i].la) = i
         /\ IsOpen(files, files[i].la) /\ files[i].la \in NumbersOf(files)
<1>1. files[i].la \in NumbersOf(files)
  BY DEF NumbersOf
<1>2. RowsOf(files, files[i].la) = {i}
  BY DEF RowsOf, Table
<1>3. {i} \in SUBSET Nat
  BY LenProperties
<1>4. LeastOf({i}) \in {i}
  BY <1>3, LeastOfIsMember
<1> QED
  BY <1>1, <1>2, <1>4 DEF romLookup, IsOpen

LEMMA MapRow ==
  ASSUME NEW files \in Seq(Row), Table(files), NEW i \in DOMAIN files
  PROVE  MapOf(files)[files[i].la] = [fa |-> files[i].fa, sa |-> files[i].sa]
  BY RowFound DEF MapOf

\* A map over the numbers of the table that has every row is the table's map.
LEMMA MapFromRows ==
  ASSUME NEW files \in Seq(Row), Table(files), NEW f,
         f = [n \in DOMAIN f |-> f[n]], DOMAIN f = NumbersOf(files),
         \A i \in DOMAIN files : f[files[i].la] = [fa |-> files[i].fa, sa |-> files[i].sa]
  PROVE  f = MapOf(files)
<1>1. ASSUME NEW n \in NumbersOf(files)
      PROVE  f[n] = MapOf(files)[n]
  <2>1. PICK i \in DOMAIN files : n = files[i].la
    BY DEF NumbersOf
  <2>2. MapOf(files)[files[i].la] = [fa |-> files[i].fa, sa |-> files[i].sa]
    BY MapRow
  <2> QED
    BY <2>1, <2>2
<1> DEFINE g == MapOf(files)
           Where(n) == LET row == files[romLookup(files, n)] IN [fa |-> row.fa, sa |-> row.sa]
<1>2. g = [n \in NumbersOf(files) |-> Where(n)]
  BY DEF MapOf
<1> HIDE DEF Where, g
<1>5. g = [n \in DOMAIN g |-> g[n]] /\ DOMAIN g = NumbersOf(files)
  BY <1>2
<1>3. \A n \in NumbersOf(files) : f[n] = g[n]
  BY <1>1 DEF g
<1>4. f = g
  BY <1>3, <1>5
<1> QED
  BY <1>4 DEF g

LEMMA OpenNumbers ==
  ASSUME NEW files \in Seq(Row), NEW n
  PROVE  IsOpen(files, n) <=> n \in NumbersOf(files)
  BY DEF IsOpen, RowsOf, NumbersOf

LEMMA MapSize ==
  ASSUME NEW files \in Seq(Row)
  PROVE  Cardinality(NumbersOf(files)) <= Len(files)
<1> DEFINE n == Len(files)
           S == NumbersOf(files)
           f == [i \in 1 .. n |-> files[i].la]
<1>1. n \in Nat /\ DOMAIN files = 1 .. n
  BY LenProperties
<1> HIDE DEF n
<1>2. f \in [1 .. n -> S] /\ \A x \in S : \E i \in 1 .. n : f[i] = x
  BY <1>1 DEF NumbersOf
<1> HIDE DEF f, S
<1>3. f \in Surjection(1 .. n, S)
  BY <1>2 DEF Surjection
<1>4. Cardinality(S) <= n
  BY <1>1, <1>3, FS_SurjCardinalityBound DEF ExistsSurjection
<1> QED
  BY <1>4 DEF n, S

LEMMA MapAppended ==
  ASSUME NEW files \in Seq(Row), Table(files), NEW row \in Row,
         Len(files) # MaxFiles, ~IsOpen(files, row.la), row.sa.hi \in {6, 7, 14, 15}
  PROVE  MapOf(Append(files, row))
           = [k \in NumbersOf(files) \cup {row.la} |->
                IF k = row.la THEN [fa |-> row.fa, sa |-> row.sa] ELSE MapOf(files)[k]]
<1> DEFINE new == Append(files, row)
           n == Len(files)
           f == [k \in NumbersOf(files) \cup {row.la} |->
                   IF k = row.la THEN [fa |-> row.fa, sa |-> row.sa] ELSE MapOf(files)[k]]
<1>1. n \in Nat /\ DOMAIN files = 1 .. n
  BY LenProperties
<1>2. new \in Seq(Row) /\ Table(new)
  BY RowAppended
<1>3. DOMAIN new = 1 .. n + 1 /\ (\A i \in 1 .. n : new[i] = files[i]) /\ new[n + 1] = row
  BY <1>1, AppendProperties, LenProperties
<1> HIDE DEF new, n
<1>4. \A i \in DOMAIN new : i \in 1 .. n \/ i = n + 1
  BY <1>1, <1>3
<1>5. NumbersOf(new) = NumbersOf(files) \cup {row.la}
  <2>1. \A x \in NumbersOf(new) : x \in NumbersOf(files) \cup {row.la}
    BY <1>1, <1>3, <1>4 DEF NumbersOf
  <2>2. \A x \in NumbersOf(files) : x \in NumbersOf(new)
    <3>1. \A i \in 1 .. n : i \in DOMAIN new
      BY <1>1, <1>3
    <3> QED
      BY <1>1, <1>3, <3>1 DEF NumbersOf
  <2>3. row.la \in NumbersOf(new)
    <3>1. n + 1 \in DOMAIN new
      BY <1>1, <1>3
    <3> QED
      BY <1>3, <3>1 DEF NumbersOf
  <2> QED
    BY <2>1, <2>2, <2>3
<1>6. \A i \in DOMAIN files : files[i].la # row.la /\ files[i].la \in NumbersOf(files)
  BY RowFound
<1>7. ASSUME NEW i \in DOMAIN new
      PROVE  f[new[i].la] = [fa |-> new[i].fa, sa |-> new[i].sa]
  <2>1. CASE i = n + 1
    BY <1>3, <2>1
  <2>2. CASE i \in 1 .. n
    <3>1. new[i] = files[i] /\ i \in DOMAIN files
      BY <1>1, <1>3, <2>2
    <3>2. MapOf(files)[files[i].la] = [fa |-> files[i].fa, sa |-> files[i].sa]
      BY <3>1, MapRow
    <3> QED
      BY <1>6, <3>1, <3>2
  <2> QED
    BY <1>4, <2>1, <2>2
<1>8. f = [k \in DOMAIN f |-> f[k]] /\ DOMAIN f = NumbersOf(new)
  BY <1>5
<1> HIDE DEF f
<1>9. f = MapOf(new)
  BY <1>2, <1>7, <1>8, MapFromRows
<1> QED
  BY <1>9 DEF f, new

LEMMA MapRemoved ==
  ASSUME NEW files \in Seq(Row), Table(files), NEW number, IsOpen(files, number)
  PROVE  MapOf(removeFileTableEntry(files, romLookup(files, number)))
           = [k \in NumbersOf(files) \ {number} |-> MapOf(files)[k]]
<1> DEFINE row == romLookup(files, number)
           new == removeFileTableEntry(files, row)
           last == Len(files)
           From(i) == IF i = row THEN last ELSE i
           f == [k \in NumbersOf(files) \ {number} |-> MapOf(files)[k]]
<1>1. last \in Nat /\ DOMAIN files = 1 .. last
  BY LenProperties
<1>2. row \in 1 .. last /\ files[row].la = number
  <2>1. RowsOf(files, number) \in SUBSET Nat /\ RowsOf(files, number) # {}
    BY <1>1 DEF RowsOf, IsOpen
  <2>2. row \in RowsOf(files, number)
    BY <2>1, LeastOfIsMember DEF romLookup
  <2> QED
    BY <1>1, <2>2 DEF RowsOf
<1> HIDE DEF row
<1>3. new \in Seq(Row) /\ Table(new)
  BY <1>2, RowRemoved
<1>4. new = [i \in 1 .. last - 1 |-> files[From(i)]]
  BY DEF removeFileTableEntry
<1>5. DOMAIN new = 1 .. last - 1
  BY <1>4
<1> HIDE DEF last
<1>6. \A i \in 1 .. last - 1 : new[i] = files[From(i)] /\ From(i) \in 1 .. last /\ From(i) # row
  BY <1>1, <1>2, <1>4
<1>7. \A j \in 1 .. last : j # row => \E i \in 1 .. last - 1 : From(i) = j
  <2> SUFFICES ASSUME NEW j \in 1 .. last, j # row
               PROVE  \E i \in 1 .. last - 1 : From(i) = j
    OBVIOUS
  <2>1. CASE j = last
    <3>1. row \in 1 .. last - 1 /\ From(row) = j
      BY <1>1, <1>2, <2>1
    <3> QED
      BY <3>1
  <2>2. CASE j # last
    <3>1. j \in 1 .. last - 1 /\ From(j) = j
      BY <1>1, <1>2, <2>2
    <3> QED
      BY <3>1
  <2> QED
    BY <2>1, <2>2
<1> HIDE DEF new, From
<1>8. \A i, j \in DOMAIN files : files[i].la = files[j].la => i = j
  BY DEF Table
<1>9. NumbersOf(new) = NumbersOf(files) \ {number}
  <2>1. \A x \in NumbersOf(new) : x \in NumbersOf(files) \ {number}
    BY <1>1, <1>2, <1>5, <1>6, <1>8 DEF NumbersOf
  <2>2. \A x \in NumbersOf(files) \ {number} : x \in NumbersOf(new)
    <3> SUFFICES ASSUME NEW j \in DOMAIN files, files[j].la # number
                 PROVE  files[j].la \in NumbersOf(new)
      BY DEF NumbersOf
    <3>1. j # row
      BY <1>2
    <3>2. PICK i \in 1 .. last - 1 : From(i) = j
      BY <1>1, <1>7, <3>1
    <3>3. i \in DOMAIN new /\ new[i] = files[j]
      BY <1>5, <1>6, <3>2
    <3> QED
      BY <3>3 DEF NumbersOf
  <2> QED
    BY <2>1, <2>2
<1>10. ASSUME NEW i \in DOMAIN new
       PROVE  f[new[i].la] = [fa |-> new[i].fa, sa |-> new[i].sa]
  <2>1. new[i] = files[From(i)] /\ From(i) \in DOMAIN files
    BY <1>1, <1>5, <1>6
  <2>2. new[i].la \in NumbersOf(new)
    BY DEF NumbersOf
  <2>3. MapOf(files)[new[i].la] = [fa |-> new[i].fa, sa |-> new[i].sa]
    BY <2>1, MapRow
  <2> QED
    BY <1>9, <2>2, <2>3
<1>11. f = [k \in DOMAIN f |-> f[k]] /\ DOMAIN f = NumbersOf(new)
  BY <1>9
<1> HIDE DEF f
<1>12. f = MapOf(new)
  BY <1>3, <1>10, <1>11, MapFromRows
<1> QED
  BY <1>12 DEF f, new, row
-----------------------------------------------------------------------------
(***************************************************************************)
(* The table implements the map of LogicalFiles.                           *)
(***************************************************************************)
LEMMA CommandTwice ==
  ASSUME NEW sa \in Secondary
  PROVE  SerialCommand(SerialCommand(sa)) = SerialCommand(sa)
<1> DEFINE C(h) == ((h \div 8) * 8) + 6 + (h % 2)
<1>1. \A h \in Nibble : C(C(h)) = C(h)
  <2>1. \A h \in Nibble : h \div 8 \in {0, 1} /\ h % 2 \in {0, 1}
    BY DEF Nibble
  <2>2. \A h \in Nibble : C(h) \in {6, 7, 14, 15}
    BY <2>1
  <2>3. C(6) = 6 /\ C(7) = 7 /\ C(14) = 14 /\ C(15) = 15
    OBVIOUS
  <2> HIDE DEF C
  <2> QED
    BY <2>2, <2>3
<1>2. sa.hi \in Nibble
  BY DEF Secondary
<1>3. SerialCommand(sa) = [sa EXCEPT !.hi = C(sa.hi)]
  BY DEF SerialCommand
<1>4. \A x \in Secondary : SerialCommand(x) = [x EXCEPT !.hi = C(x.hi)]
  BY DEF SerialCommand
<1>5. SerialCommand(sa) \in Secondary
  BY SerialCommandRange
<1> HIDE DEF C
<1>6. SerialCommand(sa).hi = C(sa.hi)
  BY <1>3 DEF Secondary
<1>7. SerialCommand(SerialCommand(sa)) = [SerialCommand(sa) EXCEPT !.hi = C(sa.hi)]
  BY <1>1, <1>2, <1>4, <1>5, <1>6
<1> QED
  BY <1>3, <1>7 DEF Secondary

LEMMA CommandsTyped ==
  /\ Commands \subseteq Secondary /\ Secondaries \subseteq Secondary
  /\ \A sa \in Secondaries \cup Commands : SerialCommand(sa) \in Commands
<1>1. Secondaries \subseteq Secondary
  BY KernalAssumption
<1>2. \A sa \in Secondaries : SerialCommand(sa) \in Secondary
  BY <1>1, SerialCommandRange
<1> QED
  BY <1>1, <1>2, CommandTwice DEF Commands

LEMMA InitPlaced == Init => Placed
<1> SUFFICES ASSUME NEW n \in Numbers, NEW dev \in Devices, NEW second \in Secondaries,
                    m.fa = dev, m.sa = second, m.files = <<>>
             PROVE  Placed
  BY DEF Init
<1> QED
  BY DEF Placed, Places

LEMMA StepPlaced == Inv /\ Placed /\ [Next]_m => Placed'
<1> SUFFICES ASSUME Inv, Placed, Next
             PROVE  Placed'
  BY DEF Placed
<1>1. FileStep
  BY EveryFileStep
<1>2. /\ Table(m.files) /\ m.files \in Seq(Row) /\ DOMAIN m.files = 1 .. Len(m.files)
      /\ m.la \in Numbers /\ m.fa \in Device /\ m.sa \in Secondary
  BY DriveOf, LenProperties DEF Inv, Good, Machines
<1>3. SerialCommand(m.sa) \in Commands
  BY CommandsTyped DEF Placed
<1>4. m'.fa \in Places
  BY <1>1 DEF FileStep, Placed
<1>5. m'.sa \in Secondaries \cup Commands
  BY <1>1, <1>3 DEF FileStep, Placed
<1>6. \A i \in DOMAIN m'.files : m'.files[i].fa \in Places /\ m'.files[i].sa \in Commands
  <2>1. CASE m'.files = m.files
    BY <2>1 DEF Placed
  <2>2. CASE m'.files = <<>>
    BY <2>2
  <2>3. ASSUME NEW row, row = [la |-> m.la, fa |-> m.fa, sa |-> SerialCommand(m.sa)],
               m'.files = Append(m.files, row)
        PROVE  \A i \in DOMAIN m'.files : m'.files[i].fa \in Places /\ m'.files[i].sa \in Commands
    <3>1. row \in Row /\ row.fa \in Places /\ row.sa \in Commands
      <4>1. SerialCommand(m.sa) \in Secondary
        BY <1>2, SerialCommandRange
      <4> QED
        BY <1>2, <1>3, <2>3, <4>1 DEF Row, Placed
    <3>2. \A i \in DOMAIN m'.files : m'.files[i] = row \/ (i \in DOMAIN m.files /\ m'.files[i] = m.files[i])
      BY <1>2, <2>3, <3>1, AppendProperties, LenProperties
    <3> QED
      BY <3>1, <3>2 DEF Placed
  <2>4. ASSUME NEW row \in DOMAIN m.files, m'.files = removeFileTableEntry(m.files, row)
        PROVE  \A i \in DOMAIN m'.files : m'.files[i].fa \in Places /\ m'.files[i].sa \in Commands
    <3>1. \A i \in DOMAIN m'.files : \E j \in DOMAIN m.files : m'.files[i] = m.files[j]
      <4>1. DOMAIN m'.files = 1 .. Len(m.files) - 1
        BY <2>4 DEF removeFileTableEntry
      <4>2. \A i \in 1 .. Len(m.files) - 1 :
              m'.files[i] = IF i = row THEN m.files[Len(m.files)] ELSE m.files[i]
        BY <2>4 DEF removeFileTableEntry
      <4>3. Len(m.files) \in Nat
        BY <1>2, LenProperties
      <4>4. \A i \in 1 .. Len(m.files) - 1 : i \in DOMAIN m.files /\ Len(m.files) \in DOMAIN m.files
        BY <1>2, <4>3
      <4> QED
        BY <4>1, <4>2, <4>4
    <3> QED
      BY <3>1 DEF Placed
  <2>5. \A n : IsOpen(m.files, n) => romLookup(m.files, n) \in DOMAIN m.files
    BY <1>2, FoundRow
  <2> QED
    BY <1>1, <2>1, <2>2, <2>3, <2>4, <2>5 DEF FileStep
<1> QED
  BY <1>4, <1>5, <1>6 DEF Placed

LEMMA FilesInit == Init => Files!Init
<1> SUFFICES ASSUME m.files = <<>>, m.la \in Numbers
             PROVE  Files!Init
  BY DEF Init
<1>1. DOMAIN m.files = {}
  OBVIOUS
<1> QED
  BY <1>1 DEF Files!Init, FileMap

\* Every step is one of the map's, or leaves the map alone.
LEMMA FilesStep == Inv /\ Inv' /\ Placed /\ [Next]_m => [Files!Next]_(Files!vars)
<1> SUFFICES ASSUME Inv, Inv', Placed, Next
             PROVE  [Files!Next]_(Files!vars)
  BY DEF FileMap, Files!vars
<1>1. FileStep
  BY EveryFileStep
<1>2. /\ Table(m.files) /\ m.files \in Seq(Row) /\ Len(m.files) \in Nat
      /\ m.la \in Numbers /\ m.fa \in Device /\ m.sa \in Secondary
  BY DriveOf, LenProperties DEF Inv, Good, Machines
<1>3. FileMap = MapOf(m.files) /\ FileMap' = MapOf(m'.files) /\ DOMAIN FileMap = NumbersOf(m.files)
  BY DEF FileMap, MapOf, NumbersOf
<1>4. CASE m'.files = m.files
  <2>1. m'.la \in Numbers
    BY DriveOf DEF Inv, Good, Machines
  <2>2. FileMap' = FileMap
    BY <1>3, <1>4
  <2>3. PICK n \in Numbers : n = m'.la
    BY <2>1
  <2>4. Files!Choose(n)
    BY <2>2, <2>3 DEF Files!Choose
  <2> QED
    BY <2>4 DEF Files!Next
<1>5. CASE m'.files = <<>> /\ m'.la = m.la
  <2>1. DOMAIN m'.files = {}
    BY <1>5
  <2>2. FileMap' = [n \in {} |-> 0]
    BY <2>1 DEF FileMap
  <2> QED
    BY <1>5, <2>2 DEF Files!Next, Files!CloseAll
<1>6. CASE /\ ~IsOpen(m.files, m.la) /\ Len(m.files) # MaxFiles
           /\ m'.files = Append(m.files, [la |-> m.la, fa |-> m.fa, sa |-> SerialCommand(m.sa)])
           /\ m'.la = m.la
  <2> DEFINE row == [la |-> m.la, fa |-> m.fa, sa |-> SerialCommand(m.sa)]
             w == [fa |-> m.fa, sa |-> SerialCommand(m.sa)]
  <2>1. SerialCommand(m.sa) \in Secondary /\ SerialCommand(m.sa).hi \in {6, 7, 14, 15}
    BY <1>2, SerialCommandRange
  <2>2. row \in Row /\ row.la = m.la /\ row.fa = m.fa /\ row.sa = SerialCommand(m.sa)
    BY <1>2, <2>1 DEF Row
  <2>3. w \in [fa : Devices \cup BusDevices, sa : {SerialCommand(sa) : sa \in Secondaries}]
    BY CommandsTyped DEF Placed, Places, Commands
  <2>4. w = [fa |-> row.fa, sa |-> row.sa]
    BY <2>2
  <2> HIDE DEF row, w
  <2>5. m'.files = Append(m.files, row)
    BY <1>6 DEF row
  <2>6. FileMap' = [k \in DOMAIN FileMap \cup {m.la} |-> IF k = m.la THEN w ELSE FileMap[k]]
    <3>1. MapOf(Append(m.files, row))
            = [k \in NumbersOf(m.files) \cup {row.la} |->
                 IF k = row.la THEN [fa |-> row.fa, sa |-> row.sa] ELSE MapOf(m.files)[k]]
      BY <1>2, <1>6, <2>1, <2>2, MapAppended
    <3> QED
      BY <1>3, <2>2, <2>4, <2>5, <3>1
  <2>7. m.la \notin DOMAIN FileMap
    BY <1>2, <1>3, <1>6, OpenNumbers
  <2>8. Cardinality(DOMAIN FileMap) < MaxFiles
    <3> DEFINE c == Cardinality(NumbersOf(m.files))
               n == Len(m.files)
    <3>1. c <= n /\ n <= MaxFiles /\ n # MaxFiles
      BY <1>2, <1>6, MapSize DEF Table
    <3>2. c \in Nat
      <4> DEFINE S == NumbersOf(m.files)
                 f == [i \in 1 .. n |-> m.files[i].la]
      <4>1. DOMAIN m.files = 1 .. n
        BY <1>2, LenProperties
      <4>2. f \in [1 .. n -> S] /\ \A x \in S : \E i \in 1 .. n : f[i] = x
        BY <4>1 DEF NumbersOf
      <4> HIDE DEF f, S
      <4>3. f \in Surjection(1 .. n, S)
        BY <4>2 DEF Surjection
      <4>4. IsFiniteSet(1 .. n)
        BY <1>2, FS_Interval
      <4>5. IsFiniteSet(S)
        BY <4>3, <4>4, FS_Surjection
      <4> QED
        BY <4>5, FS_CardinalityType DEF S
    <3> HIDE DEF c, n
    <3>3. n \in Nat
      BY <1>2 DEF n
    <3>4. c < MaxFiles
      BY <3>1, <3>2, <3>3, MachineAssumption
    <3> QED
      BY <1>3, <3>4 DEF c
  <2>9. Files!OpenFile(w)
    <3>1. Files!Cardinality(DOMAIN FileMap) = Cardinality(DOMAIN FileMap)
      BY Zenon DEF Files!Cardinality, Cardinality
    <3> QED
      BY <1>6, <2>6, <2>7, <2>8, <3>1 DEF Files!OpenFile
  <2> QED
    BY <1>2, <2>3, <2>9 DEF Files!Next
<1>7. ASSUME NEW n \in Numbers, IsOpen(m.files, n),
             m'.files = removeFileTableEntry(m.files, romLookup(m.files, n)), m'.la = n
      PROVE  Files!CloseFile(n)
  <2>1. n \in DOMAIN FileMap
    BY <1>2, <1>3, <1>7, OpenNumbers
  <2>2. FileMap' = [k \in DOMAIN FileMap \ {n} |-> FileMap[k]]
    <3>1. MapOf(removeFileTableEntry(m.files, romLookup(m.files, n)))
            = [k \in NumbersOf(m.files) \ {n} |-> MapOf(m.files)[k]]
      BY <1>2, <1>7, MapRemoved
    <3> QED
      BY <1>3, <1>7, <3>1
  <2> QED
    BY <1>7, <2>1, <2>2 DEF Files!CloseFile, Files!Restrict
<1> QED
  BY <1>1, <1>4, <1>5, <1>6, <1>7 DEF FileStep, Files!Next

\* A file keeps its device and secondary address from its OPEN to its own CLOSE
\* or a CLALL, in a table of any size, though CLOSE moves rows: the KERNAL's file
\* calls implement LogicalFiles.
THEOREM TableImplementsMap == Spec => ImplementsLogicalFiles
<1>1. Spec => []Placed
  BY InitPlaced, StepPlaced, Invariance, PTL DEF Spec
<1> QED
  BY <1>1, FilesInit, FilesStep, Invariance, PTL DEF Spec, ImplementsLogicalFiles, Files!Spec

\* A CLOSE that returns has dropped the file it was called with and left every
\* other file where it was (romClose, romFetchFileTableEntries and
\* removeFileTableEntry, which moves the last row).
THEOREM ClosesDropTheirFile == Spec => CloseDropsItsFile
<1>1. Inv /\ [Next]_m =>
        [\A n \in Numbers :
           Running(m) /\ m' = romClose(m, n) /\ Running(m')
             => FileMap' = [k \in DOMAIN FileMap \ {n} |-> FileMap[k]]]_m
  <2> SUFFICES ASSUME Inv, NEW n \in Numbers, m' = romClose(m, n), Running(m')
               PROVE  FileMap' = [k \in DOMAIN FileMap \ {n} |-> FileMap[k]]
    OBVIOUS
  <2>1. Good(m) /\ Table(m.files) /\ m.files \in Seq(Row)
    BY DriveOf DEF Inv, Good, Machines
  <2>2. FileMap = MapOf(m.files) /\ FileMap' = MapOf(m'.files) /\ DOMAIN FileMap = NumbersOf(m.files)
    BY DEF FileMap, MapOf, NumbersOf
  <2>3. \/ m'.files = m.files /\ ~IsOpen(m.files, n)
        \/ /\ IsOpen(m.files, n)
           /\ m'.files = removeFileTableEntry(m.files, romLookup(m.files, n))
    BY <2>1, CloseEffect
  <2>4. CASE m'.files = m.files /\ ~IsOpen(m.files, n)
    <3>1. n \notin NumbersOf(m.files)
      BY <2>1, <2>4, OpenNumbers
    <3> QED
      BY <2>2, <2>4, <3>1 DEF MapOf, NumbersOf
  <2>5. CASE /\ IsOpen(m.files, n)
             /\ m'.files = removeFileTableEntry(m.files, romLookup(m.files, n))
    <3>1. MapOf(removeFileTableEntry(m.files, romLookup(m.files, n)))
            = [k \in NumbersOf(m.files) \ {n} |-> MapOf(m.files)[k]]
      BY <2>1, <2>5, MapRemoved
    <3> QED
      BY <2>2, <2>5, <3>1
  <2> QED
    BY <2>3, <2>4, <2>5
<1> QED
  BY <1>1, Invariance, PTL DEF Spec, CloseDropsItsFile
=============================================================================
