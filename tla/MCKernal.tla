----------------------------- MODULE MCKernal -----------------------------
(***************************************************************************)
(* Values for model checking KernalIO.  The Files instance has three       *)
(* numbers for a table of two rows, so the table fills, is compacted and   *)
(* overflows; the Drive instance has two buffers and two channels beside   *)
(* the command channel, so buffers run out and bindings collide.           *)
(***************************************************************************)
EXTENDS KernalIO, TLC

CONSTANTS n1, n2, n3

NumberSymmetry == Permutations(Numbers)

SA(h, l) == [hi |-> h, lo |-> l]
Text(op, ch, arg) == [op |-> op, ch |-> ch, arg |-> arg]

\* Files: RS-232, which OPEN refuses, the screen and the drive; a data
\* channel and no secondary address; no name and a name.
FilesDevices == {2, 3, 8}
FilesSecondaries == {SA(0, 2), SA(15, 15)}
FilesNames == {<<>>, <<Text("text", 0, 0)>>}

\* Drive: OPEN of the channels 2 and 3, a serial command of the one and CLOSE of
\* the other; requests for a buffer, a read into one and a reset.
DriveSecondaries == {SA(15, 15)}
DriveBusSecondaries == {SA(15, 2), SA(15, 3), SA(6, 2), SA(14, 3)}
DriveTokens ==
  {Text("#", 0, 0), Text("#n", 0, 1), Text("U1", 2, 0), Text("UJ", 0, 0)}

\* Devices: everything a RAM image may leave in the default devices; RS-232,
\* the drive and a missing drive; commands refused and answered.
DevicesDevices == {2, 8, 9}
DevicesSecondaries == {SA(0, 2), SA(15, 15)}
DevicesNames == {<<Text("#n", 0, 0)>>, <<Text("text", 0, 0), Text("text", 0, 0)>>}
DevicesBusSecondaries == {SA(6, 15), SA(2, 1)}
DevicesTokens ==
  {Text("I", 0, 0), Text("U9", 0, 0), Text("U1", 0, 0), Text("U1", 0, 1),
   Text("B-P", 0, 3), Text("M-R", 0, 0), Text("M-W", 0, 0), Text("B-A", 0, 0)}
=============================================================================
