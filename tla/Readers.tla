------------------------------ MODULE Readers ------------------------------
(***************************************************************************)
(* The programs and routines that read a file and follow what it says, one *)
(* at a time: each behaviour is one of them on one input, and the others   *)
(* do not run.                                                             *)
(***************************************************************************)
EXTENDS ForthDecompiler, PrgLoader, DiskImage, AppleDump, DiskCommands

VARIABLE program  \* the one that runs

imageOnlyVars == <<disk, start, next, here, slot, listed, walk>>
prgOnlyVars == <<kind, size, origin, loaded, stage>>

readersVars ==
  <<program, decompileVars, bufferVars, prgOnlyVars, imageOnlyVars, dumpVars, commandVars>>

-----------------------------------------------------------------------------
\* A program that does not run is in a state it takes no step from.
ForthIdle ==
  /\ ram = [a \in Addr |-> 0]
  /\ refType = [a \in Addr |-> "NONE"]
  /\ scanned = {}
  /\ old = <<>> /\ new = <<>>
  /\ ip = NoPtr
  /\ repeat = [type |-> "NONE", count |-> 0]
  /\ pos = 0
  /\ doStack = <<>>
  /\ labels = [a \in Addr |-> NoLabel]
  /\ file = {}
  /\ phase = "overrun"
  /\ names = labels

BufferIdle == buf = bufCreate /\ want = 0 /\ rest = 0

PrgIdle == kind = "prg" /\ size = 0 /\ origin = 0 /\ loaded = Nothing /\ stage = "refused"

ImageIdle ==
  /\ disk = [p \in Place |-> [link |-> None, slots |-> <<>>]]
  /\ start = DirStart /\ next = None /\ here = DirStart
  /\ slot = Slots
  /\ listed = <<>>
  /\ walk = "stopped"

DumpIdle ==
  /\ dsk = [p \in Dsk |-> [link |-> None, entries |-> <<>>, pairs |-> <<>>]]
  /\ spt = 0
  /\ cursor = None
  /\ dirs = <<>> /\ entry = 0 /\ pair = 0
  /\ outputs = [n \in FileName |-> <<>>]
  /\ pending = <<>> /\ lost = {}
  /\ dump = "aborted"

CommandIdle ==
  /\ given = <<>> /\ passed = 0 /\ argValue = 0 /\ args = <<>>
  /\ form = "none" /\ parse = "invalid"

-----------------------------------------------------------------------------
ReadersNext ==
  \/ /\ program = "forth" /\ DecompileNext
     /\ UNCHANGED <<program, bufferVars, prgOnlyVars, imageOnlyVars, dumpVars, commandVars>>
  \/ /\ program = "loading" /\ PrgNext
     /\ UNCHANGED <<program, decompileVars, imageOnlyVars, dumpVars, commandVars>>
  \/ /\ program = "image" /\ ImageNext
     /\ UNCHANGED <<program, decompileVars, prgOnlyVars, dumpVars, commandVars>>
  \/ /\ program = "diskdump" /\ DumpNext
     /\ UNCHANGED <<program, decompileVars, bufferVars, prgOnlyVars, imageOnlyVars, commandVars>>
  \/ /\ program = "command" /\ CommandNext
     /\ UNCHANGED <<program, decompileVars, bufferVars, prgOnlyVars, imageOnlyVars, dumpVars>>

-----------------------------------------------------------------------------
\* Every program comes to an end, on every input that does not lead in a circle:
\* the decompiler on recursive words too, the directory of a diskette however
\* it is linked.
AllEnded ==
  /\ phase \in Ended /\ stage \in LoadEnded /\ walk \in WalkEnded
  /\ dump \in DumpEnded /\ parse \in ParseEnded

MustEnd ==
  CASE program = "image" -> WalkMustEnd
    [] program = "diskdump" -> DumpMustEnd
    [] OTHER -> ~AllEnded

ReadersEnd == MustEnd ~> AllEnded
=============================================================================
