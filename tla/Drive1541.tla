----------------------------- MODULE Drive1541 -----------------------------
(***************************************************************************)
(* The 1541 disk drive of emu6502/emdisk.c: the routines the KERNAL's      *)
(* serial calls reach (LISTEN, SECOND, CIOUT, UNLSN, TKSA, ACPTR) and the  *)
(* commands a program sends over the command channel.                      *)
(***************************************************************************)
EXTENDS Machine

\* Buffers bound to a channel, free ones included when the channel is 0.
BoundTo(d, channel) == {b \in BufferID : d.bufs[b].ch = channel}

LeastOf(S) == CHOOSE b \in S : \A c \in S : b <= c

\* Wrong: any buffer in use will do.
AnyBufferInUse(d, channel) ==
  LET used == BufferID \ BoundTo(d, 0)
  IN  LeastOf(IF used = {} THEN BufferID ELSE used)

\* The buffer of a channel: the first that carries its number.  Callers exit
\* through error() when there is none.
getChannelBufferID(d, channel) == LeastOf(BoundTo(d, channel))

-----------------------------------------------------------------------------
(***************************************************************************)
(* Commands.  Everything after "UJ" or "U9" is ignored; after any other    *)
(* command more text makes the whole invalid.                              *)
(***************************************************************************)
NoCommand == [op |-> "text", ch |-> 0, arg |-> 0]

parseDiskCmd(q) ==
  IF q # <<>> /\ (Len(q) = 1 \/ q[1].op \in {"UJ", "U9"}) THEN q[1] ELSE NoCommand

\* "I" and "UJ": pointers, channels and secondary address back to their start;
\* what the buffers hold stays.
resetDrive(d) ==
  [d EXCEPT !.cmd = <<>>,
            !.bufs = [b \in BufferID |-> [d.bufs[b] EXCEPT !.ch = 0, !.ptr = 0]],
            !.sec = [hi |-> 0, lo |-> 0]]

setBufferPointer(s, c) ==
  IF BoundTo(s.drive, c.ch) = {} THEN error(s)
  ELSE [s EXCEPT !.drive.bufs[getChannelBufferID(s.drive, c.ch)].ptr
                   = c.arg % SectorSize]

\* U1 loads the sector and leaves the pointer on the buffer's last byte.
readSector(s, c) ==
  IF BoundTo(s.drive, c.ch) = {} \/ ~s.drive.mounted THEN error(s)
  ELSE IF c.arg >= SectorCount THEN stopWith(s, "assert sector")
  ELSE [s EXCEPT !.drive.bufs[getChannelBufferID(s.drive, c.ch)]
                   = [@ EXCEPT !.data = c.arg, !.ptr = SectorSize - 1]]

execDiskCmd(s, c) ==
  CASE c.op \in {"I", "UJ"} -> [s EXCEPT !.drive = resetDrive(s.drive)]
    [] c.op = "B-P" -> setBufferPointer(s, c)
    [] c.op = "U1" -> readSector(s, c)
    [] c.op = "M-R" -> [s EXCEPT !.drive.recv = "ram"]
    [] c.op = "M-W" -> s
    [] OTHER -> error(s)

diskCommand(s) == execDiskCmd(s, parseDiskCmd(s.drive.cmd))

-----------------------------------------------------------------------------
(***************************************************************************)
(* OPEN of a data channel.  Only a buffer request does anything.           *)
(***************************************************************************)
bindBuffer(s, b, channel) == [s EXCEPT !.drive.bufs[b].ch = channel]

\* Wrong: the request for a numbered buffer does not look whether the buffer is in use.
OpenTakesAnyNumber(s, channel) ==
  LET q == s.drive.cmd
      free == BoundTo(s.drive, 0)
  IN  CASE q = <<>> -> error(s)
        [] q # <<>> /\ q[1].op \notin {"#", "#n"} -> s
        [] q # <<>> /\ q[1].op = "#" ->
             IF Len(q) > 1 \/ free = {} THEN error(s)
             ELSE bindBuffer(s, LeastOf(free), channel)
        [] OTHER ->
             IF Len(q) > 1 \/ q[1].arg \notin BufferID THEN error(s)
             ELSE bindBuffer(s, q[1].arg, channel)

diskOpenFile(s, channel) ==
  LET q == s.drive.cmd
      free == BoundTo(s.drive, 0)
  IN  CASE q = <<>> -> error(s)
        [] q # <<>> /\ q[1].op \notin {"#", "#n"} -> s
        [] q # <<>> /\ q[1].op = "#" ->
             IF Len(q) > 1 \/ free = {} THEN error(s)
             ELSE bindBuffer(s, LeastOf(free), channel)
        [] OTHER ->
             IF Len(q) > 1 \/ q[1].arg \notin free THEN error(s)
             ELSE bindBuffer(s, q[1].arg, channel)

-----------------------------------------------------------------------------
(***************************************************************************)
(* The drive's side of the serial bus.  Every routine but LISTEN and UNLSN *)
(* asserts that RAM[RAM_FA] is a disk drive.                               *)
(***************************************************************************)
diskLISTEN(s) == [s EXCEPT !.drive.cmd = <<>>]

diskSECOND(s, second) ==
  IF s.fa < 8 THEN stopWith(s, "assert FA") ELSE [s EXCEPT !.drive.sec = second]

diskTKSA(s, second) == diskSECOND(s, second)

\* Wrong: the full-buffer test off by one.
ByteIntoFullBuffer(s, token) ==
  IF s.fa < 8 THEN stopWith(s, "assert FA")
  ELSE IF Len(s.drive.cmd) > CommandSize THEN error(s)
  ELSE [s EXCEPT !.drive.cmd = Append(@, token)]

diskCIOUT(s, token) ==
  IF s.fa < 8 THEN stopWith(s, "assert FA")
  ELSE IF Len(s.drive.cmd) = CommandSize THEN error(s)
  ELSE [s EXCEPT !.drive.cmd = Append(@, token)]

\* Wrong: the pointer runs past the end of the buffer instead of wrapping.
AcptrRunsOn(s) ==
  LET channel == s.drive.sec.lo
  IN  IF s.fa < 8 THEN stopWith(s, "assert FA")
      ELSE IF channel = 15 THEN s
      ELSE IF BoundTo(s.drive, channel) = {} THEN error(s)
      ELSE [s EXCEPT !.drive.bufs[getChannelBufferID(s.drive, channel)].ptr = @ + 1]

\* The byte delivered is the one under the pointer, which moves on and wraps.
diskACPTR(s) ==
  LET channel == s.drive.sec.lo
  IN  IF s.fa < 8 THEN stopWith(s, "assert FA")
      ELSE IF channel = 15 THEN s
      ELSE IF BoundTo(s.drive, channel) = {} THEN error(s)
      ELSE [s EXCEPT !.drive.bufs[getChannelBufferID(s.drive, channel)].ptr
                       = (@ + 1) % SectorSize]

\* Wrong: CLOSE gives up the channel's buffers.
CloseFreesBuffers(s) ==
  LET d == s.drive
  IN  CASE d.sec.hi = 6 \/ (d.sec.hi = 15 /\ d.sec.lo = 15) -> diskCommand(s)
        [] d.sec.hi = 15 /\ d.sec.lo # 15 -> diskOpenFile(s, d.sec.lo)
        [] d.sec.hi = 14 ->
             [s EXCEPT !.drive.bufs =
                [b \in BufferID |-> IF d.bufs[b].ch = d.sec.lo
                                    THEN [d.bufs[b] EXCEPT !.ch = 0]
                                    ELSE d.bufs[b]]]
        [] OTHER -> error(s)

diskUNLSN(s) ==
  LET d == s.drive
  IN  CASE d.sec.hi = 6 \/ (d.sec.hi = 15 /\ d.sec.lo = 15) -> diskCommand(s)
        [] d.sec.hi = 15 /\ d.sec.lo # 15 -> diskOpenFile(s, d.sec.lo)
        [] d.sec.hi = 14 -> s
        [] OTHER -> error(s)
=============================================================================
