----------------------------- MODULE AppleDump -----------------------------
(***************************************************************************)
(* apple2/diskdump.c: scans the directory of a DOS 3.2 diskette, prints it *)
(* and extracts every file, sector by sector, along its lists of sectors,  *)
(* and beside it a translation of it.  What is written goes through stdio, *)
(* which holds some of it back until the file is closed.                   *)
(***************************************************************************)
EXTENDS Integers, FiniteSets, SequencesExt

CONSTANTS
  Dsk,          \* sectors of the image, of TRACK_COUNT tracks of 16, without <<0, 0>>
  DirRoom,      \* entries of directory_sectors (13)
  Entries,      \* ENTRIES_PER_SECTOR (7)
  Name,         \* names of entries
  FileName,     \* names of the files written
  Translation,  \* the name of a file's translation, by its type and name
  StdioSectors, \* sectors that the buffer of a FILE holds
  Room          \* sectors that the disk written to has room for in a file

\* Sectors are <<track, sector>>.  <<0, 0>> ends a chain.
None == <<0, 0>>

\* What is not the address of a sector.
NoSector == <<255, 0>>

Link == Dsk \cup {None, NoSector}

FileTypes == {"T", "I", "A", "B"}

\* An entry of track 0 has never been used.
Entry == [first : Link, type : FileTypes \cup {"invalid"}, name : Name]

ASSUME DumpAssumption ==
  /\ Dsk \subseteq (0 .. 34) \X (0 .. 15) /\ None \notin Dsk
  /\ DirRoom \in Nat /\ Room \in Nat /\ Entries \in Nat \ {0}
  /\ StdioSectors \in Nat \ {0}
  /\ Name \subseteq FileName
  /\ Translation \in [FileTypes \X Name -> FileName]
  /\ \A t \in FileTypes, n \in Name : Translation[<<t, n>>] # n

VARIABLES
  dsk,     \* each sector: its link, and its entries or its pairs
  spt,     \* sectors_per_track of the VTOC
  cursor,  \* the track and sector of the loop that runs
  dirs,    \* directory_sectors up to directory_sector_count
  entry,   \* the entry being extracted, counted from the first of the directory
  pair,    \* the pair being written, of the list at the cursor
  outputs, \* contents of the files on the disk written to, as sectors
  pending, \* sectors of the current file that stdio holds back
  lost,    \* history: the files of which fclose failed to write the rest
  dump     \* what the program is doing

dumpVars == <<dsk, spt, cursor, dirs, entry, pair, outputs, pending, lost, dump>>

DumpEnded == {"finished", "aborted", "died", "full", "overrun"}

\* The assertions of TrackSectorAddress.
HasAddress(p) == p \in Dsk /\ p[2] < spt

Used(e) == e.first[1] # 0

\* The entries of the sectors that have been found, one after another.
EntryCount == Len(dirs) * Entries
EntryAt(n) == dsk[dirs[(n \div Entries) + 1]].entries[(n % Entries) + 1]

DumpStops(how) ==
  /\ dump' = how
  /\ UNCHANGED <<dsk, spt, cursor, dirs, entry, pair, outputs, pending, lost>>

-----------------------------------------------------------------------------
(***************************************************************************)
(* ScanDirectory and PrintDirectory.                                       *)
(***************************************************************************)
CanScan == Len(dirs) < spt /\ HasAddress(cursor)

ScanSector ==
  /\ dump = "scan" /\ cursor # None
  /\ CanScan /\ Len(dirs) < DirRoom
  /\ dirs' = Append(dirs, cursor)
  /\ cursor' = dsk[cursor].link
  /\ UNCHANGED <<dsk, spt, entry, pair, outputs, pending, lost, dump>>

ScanAborts ==
  /\ dump = "scan" /\ cursor # None
  /\ ~CanScan
  /\ DumpStops("aborted")

\* The VTOC may promise more sectors than directory_sectors holds.
ScanOverruns ==
  /\ dump = "scan" /\ cursor # None
  /\ CanScan /\ Len(dirs) = DirRoom
  /\ DumpStops("overrun")

\* TranslateFileType dies of the type of any entry in use.
PrintDirectory ==
  /\ dump = "scan" /\ cursor = None
  /\ dump' = IF \E n \in 0 .. EntryCount - 1 : Used(EntryAt(n)) /\ EntryAt(n).type = "invalid"
             THEN "died" ELSE "extract"
  /\ UNCHANGED <<dsk, spt, cursor, dirs, entry, pair, outputs, pending, lost>>

-----------------------------------------------------------------------------
(***************************************************************************)
(* ExtractFiles, ExtractFile and ExtractFileSectors.                       *)
(***************************************************************************)
SkipEntry ==
  /\ dump = "extract" /\ entry < EntryCount
  /\ ~Used(EntryAt(entry))
  /\ entry' = entry + 1
  /\ UNCHANGED <<dsk, spt, cursor, dirs, pair, outputs, pending, lost, dump>>

\* An entry to extract.
ToExtract == dump = "extract" /\ entry < EntryCount /\ Used(EntryAt(entry))

\* The file is opened, which empties it if there is one of that name.
OpenOutput ==
  /\ ToExtract
  /\ outputs' = [outputs EXCEPT ![EntryAt(entry).name] = <<>>]
  /\ pending' = <<>>
  /\ lost' = lost \ {EntryAt(entry).name}
  /\ cursor' = EntryAt(entry).first
  /\ pair' = 0
  /\ dump' = "lists"
  /\ UNCHANGED <<dsk, spt, dirs, entry>>

\* Or fopen fails.
OpenFails == ToExtract /\ DumpStops("died")

Output == outputs[EntryAt(entry).name]

\* stdio tries to write what it holds, and the disk takes k sectors of it.
Flushed(k) ==
  /\ k \in 0 .. Len(pending) /\ Len(Output) + k <= Room
  /\ outputs' = [outputs EXCEPT ![EntryAt(entry).name] = @ \o SubSeq(pending, 1, k)]

\* A list, the address of whose sector has been asserted.
InList == dump = "lists" /\ cursor # None /\ HasAddress(cursor)

\* The next of its pairs, in use or not.
PairIs(ts) == pair < Len(dsk[cursor].pairs) /\ dsk[cursor].pairs[pair + 1] = ts

\* fwrite of a sector: into the buffer, which is emptied first when it is full.
WritePair ==
  /\ InList
  /\ \E ts \in Link \ {None} :
       /\ PairIs(ts) /\ HasAddress(ts)
       /\ \/ /\ Len(pending) < StdioSectors
             /\ pending' = Append(pending, ts)
             /\ UNCHANGED outputs
          \/ /\ Len(pending) = StdioSectors
             /\ Flushed(Len(pending))
             /\ pending' = <<ts>>
  /\ pair' = pair + 1
  /\ UNCHANGED <<dsk, spt, cursor, dirs, entry, lost, dump>>

\* Wrong: a hole ends the list.
HoleEndsList ==
  /\ InList /\ PairIs(None)
  /\ pair' = Len(dsk[cursor].pairs)
  /\ UNCHANGED <<dsk, spt, cursor, dirs, entry, outputs, pending, lost, dump>>

SkipPair ==
  /\ InList /\ PairIs(None)
  /\ pair' = pair + 1
  /\ UNCHANGED <<dsk, spt, cursor, dirs, entry, outputs, pending, lost, dump>>

NextList ==
  /\ InList /\ pair = Len(dsk[cursor].pairs)
  /\ cursor' = dsk[cursor].link
  /\ pair' = 0
  /\ UNCHANGED <<dsk, spt, dirs, entry, outputs, pending, lost, dump>>

\* An assertion of TrackSectorAddress.  A deleted entry gets here: its track is
\* FF.  What stdio holds is not written any more.
WriteAborts ==
  /\ dump = "lists" /\ cursor # None
  /\ \/ ~HasAddress(cursor)
     \/ InList /\ \E ts \in Link \ {None} : PairIs(ts) /\ ~HasAddress(ts)
  /\ DumpStops("aborted")

\* fwrite falls short when the buffer has to be emptied and cannot be: the disk
\* may be full of other things.  The program dies of it.
DiskFull ==
  /\ InList
  /\ \E ts \in Link \ {None} : PairIs(ts) /\ HasAddress(ts)
  /\ Len(pending) = StdioSectors
  /\ \E k \in 0 .. Len(pending) : Flushed(k)
  /\ dump' = "full"
  /\ UNCHANGED <<dsk, spt, cursor, dirs, entry, pair, pending, lost>>

\* fclose writes what stdio holds, as much of it as the disk takes: nobody looks
\* whether that was all.
CloseOutput ==
  /\ dump = "lists" /\ cursor = None
  /\ \E k \in 0 .. Len(pending) :
       /\ Flushed(k)
       /\ lost' = IF k = Len(pending) THEN lost ELSE lost \cup {EntryAt(entry).name}
  /\ pending' = <<>>
  /\ dump' = "translate"
  /\ UNCHANGED <<dsk, spt, cursor, dirs, entry, pair>>

\* What a translation holds, which is not sectors.
Listing == <<NoSector>>

TranslationOf(e) == Translation[<<e.type, e.name>>]

\* The translation is written over whatever has its name: a file that has been
\* extracted before, if an entry is called that.
WritesTranslation ==
  outputs' = [outputs EXCEPT ![TranslationOf(EntryAt(entry))] = Listing]

Translate ==
  /\ dump = "translate"
  /\ WritesTranslation
  /\ entry' = entry + 1 /\ dump' = "extract"
  /\ UNCHANGED <<dsk, spt, cursor, dirs, pair, pending, lost>>

\* It may die of what the file holds, or fopen may fail.
TranslateDies ==
  /\ dump = "translate"
  /\ WritesTranslation \/ UNCHANGED outputs
  /\ dump' = "died"
  /\ UNCHANGED <<dsk, spt, cursor, dirs, entry, pair, pending, lost>>

ExtractDone ==
  /\ dump = "extract" /\ entry = EntryCount
  /\ DumpStops("finished")

-----------------------------------------------------------------------------
DumpInit(image, sectors, first) ==
  /\ dsk = image
  /\ spt = sectors
  /\ cursor = first
  /\ dirs = <<>>
  /\ entry = 0 /\ pair = 0
  /\ outputs = [n \in FileName |-> <<>>]
  /\ pending = <<>> /\ lost = {}
  /\ dump = "scan"

DumpNext ==
  \/ ScanSector \/ ScanAborts \/ ScanOverruns \/ PrintDirectory
  \/ SkipEntry \/ OpenOutput \/ OpenFails \/ CloseOutput \/ Translate \/ TranslateDies
  \/ ExtractDone
  \/ WritePair \/ SkipPair \/ NextList \/ WriteAborts \/ DiskFull

-----------------------------------------------------------------------------
(***************************************************************************)
(* Correctness.                                                            *)
(***************************************************************************)
\* Where the chain of lists from p is after n links.
After(image, p, n) ==
  LET at[i \in Nat] ==
        IF i = 0 THEN p
        ELSE IF at[i - 1] \in Dsk THEN image[at[i - 1]].link ELSE at[i - 1]
  IN  at[n]

\* The sectors among the first n pairs of a list, holes left out.
InUse(pairs, n) ==
  LET kept[i \in 0 .. Len(pairs)] ==
        IF i = 0 THEN <<>>
        ELSE IF pairs[i] = None THEN kept[i - 1] ELSE Append(kept[i - 1], pairs[i])
  IN  kept[n]

ListAt(image, p) ==
  IF p \in Dsk THEN InUse(image[p].pairs, Len(image[p].pairs)) ELSE <<>>

\* The sectors of a file whose lists begin at p, in its first n lists.
Sectors(image, p, n) ==
  LET whole[i \in Nat] ==
        IF i = 0 THEN <<>> ELSE whole[i - 1] \o ListAt(image, After(image, p, i - 1))
  IN  whole[n]

\* Entry m has been written to the file that entry n was, or its translation.
Overwrites(m, n) ==
  /\ Used(EntryAt(m))
  /\ EntryAt(n).name \in {EntryAt(m).name, TranslationOf(EntryAt(m))}

\* Between two files, every file extracted so far holds the sectors of the lists
\* of its entry, in their order and holes left out: all of them, unless its
\* fclose has failed, and then all but some of the last that stdio held back.
\* Nothing is said of a file that a later entry or its translation is written to.
FilesWhole ==
  dump \in {"extract", "finished"} =>
    \A n \in 0 .. entry - 1 :
      /\ Used(EntryAt(n))
      /\ \A m \in n + 1 .. entry - 1 : ~Overwrites(m, n)
      => LET all == Sectors(dsk, EntryAt(n).first, Cardinality(Dsk))
             out == outputs[EntryAt(n).name]
         IN  /\ IsPrefix(out, all)
             /\ Len(all) - Len(out) <= StdioSectors
             /\ EntryAt(n).name \notin lost => out = all

\* However the directory is linked, the program must end when the lists of
\* every file do: the directory is counted, the lists are not.
DumpMustEnd ==
  /\ dump \notin DumpEnded
  /\ \A p \in Dsk : \A i \in DOMAIN dsk[p].entries :
       After(dsk, dsk[p].entries[i].first, Cardinality(Dsk)) \notin Dsk
=============================================================================
