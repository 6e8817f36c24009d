----------------------------- MODULE DiskImage -----------------------------
(***************************************************************************)
(* The walks of emu6502/emdisk.c over a D64 image: readFileDirectory lists *)
(* the files of the disk, readFileFromDiskImage reads one.  Both follow    *)
(* the track and sector at the start of every sector to the next one and   *)
(* remember nothing of where they have been.                               *)
(***************************************************************************)
EXTENDS Buffers, SequencesExt

CONSTANTS
  TRACK_INFO,  \* sectors of each track, 0 to MAX_TRACK_NUMBER
  ImageTracks, \* tracks of the image (35, by checkDiskSize)
  DirStart,    \* where the directory begins (<<18, 1>>)
  Slots,       \* directory entries of a sector (8)
  MaxEntries   \* MAX_DIRENTRY_COUNT (20)

Track == DOMAIN TRACK_INFO

\* The sectors of the image.
Place == UNION {{t} \X (0 .. TRACK_INFO[t] - 1) : t \in 1 .. ImageTracks}

ASSUME ImageAssumption ==
  /\ ImageTracks \in Nat /\ 0 .. ImageTracks \subseteq Track
  /\ TRACK_INFO \in [Track -> Nat] /\ TRACK_INFO[0] = 0
  /\ DirStart \in Place
  /\ Slots \in Nat /\ MaxEntries \in Nat

VARIABLES
  disk,   \* the image: the link of each sector and its directory entries
  start,  \* the first sector of the walk
  next,   \* the sector to read next, its track 0 at the end of the chain
  here,   \* the sector being read
  slot,   \* entries of it that have been looked at
  listed, \* the entries stored in the directory_t, as <<sector, slot>>
  walk    \* which walk this is and how far it is

imageVars == <<bufferVars, disk, start, next, here, slot, listed, walk>>

WalkEnded == {"listed", "read", "stopped", "overrun", "outside"}

\* error() and the assertions of trackAndSectorAddr leave the program.
WalkStops(how) ==
  /\ walk' = how
  /\ UNCHANGED <<bufferVars, disk, start, next, here, slot, listed>>

-----------------------------------------------------------------------------
(***************************************************************************)
(* readFileDirectory.  An entry is "empty" when its track is 0, "bad" when *)
(* error() refuses its track or its type, and a "file" otherwise.          *)
(***************************************************************************)
DirSector ==
  /\ walk = "directory" /\ slot = Slots
  /\ next \in Place
  /\ here' = next
  /\ next' = disk[next].link
  /\ slot' = 0
  /\ UNCHANGED <<bufferVars, disk, start, listed, walk>>

\* A track out of range, or an assertion: no such sector, or not in the image.
DirBadLink ==
  /\ walk = "directory" /\ slot = Slots
  /\ next[1] # 0 /\ next \notin Place
  /\ WalkStops("stopped")

EntryIs(kind) == slot < Slots /\ disk[here].slots[slot + 1] = kind

DirEmpty ==
  /\ walk = "directory" /\ EntryIs("empty")
  /\ slot' = slot + 1
  /\ UNCHANGED <<bufferVars, disk, start, next, here, listed, walk>>

\* Wrong: a file ends the search of its sector.
DirOneFile ==
  /\ walk = "directory" /\ EntryIs("file")
  /\ Len(listed) < MaxEntries
  /\ listed' = Append(listed, <<here, slot>>)
  /\ slot' = Slots
  /\ UNCHANGED <<bufferVars, disk, start, next, here, walk>>

DirFile ==
  /\ walk = "directory" /\ EntryIs("file")
  /\ Len(listed) < MaxEntries
  /\ listed' = Append(listed, <<here, slot>>)
  /\ slot' = slot + 1
  /\ UNCHANGED <<bufferVars, disk, start, next, here, walk>>

DirBadEntry == walk = "directory" /\ EntryIs("bad") /\ WalkStops("stopped")

\* The entry is stored behind the end of the table: nothing counts.
DirOverrun ==
  /\ walk = "directory" /\ EntryIs("file")
  /\ Len(listed) = MaxEntries
  /\ WalkStops("overrun")

DirDone ==
  /\ walk = "directory" /\ slot = Slots /\ next[1] = 0
  /\ WalkStops("listed")

-----------------------------------------------------------------------------
(***************************************************************************)
(* readFileFromDiskImage.                                                  *)
(***************************************************************************)
\* A sector that trackAndSectorAddr accepts, if not one of the image.
Addressable(p) == p[1] \in Track /\ p[2] < TRACK_INFO[p[1]]

\* Of the first sector only the link is used.
FileFirst ==
  /\ walk = "first"
  /\ next \in Place
  /\ here' = next
  /\ next' = disk[next].link
  /\ walk' = "follow"
  /\ UNCHANGED <<bufferVars, disk, start, slot, listed>>

\* Bytes of the sector that belong to the file: the last one says how many.
bytesInSector(p) == IF disk[p].link[1] = 0 THEN disk[p].link[2] ELSE Block

\* The sum of the length and bytesInSector - 2 is unsigned: a last sector of
\* no bytes, or of one, asks for more than there can be.
FileSector ==
  /\ walk = "follow"
  /\ next \in Place
  /\ here' = next
  /\ next' = disk[next].link
  /\ bufEnsureExtraCap(bytesInSector(next) - 2)
  /\ walk' = "copy"
  /\ UNCHANGED <<disk, start, slot, listed>>

GrowFile ==
  /\ walk = "copy"
  /\ Grow
  /\ UNCHANGED <<disk, start, next, here, slot, listed, walk>>

\* The length of the buffer stays what it was: every sector lands at its start.
CopySector ==
  /\ walk = "copy" /\ HasRoom
  /\ walk' = "follow"
  /\ UNCHANGED <<bufferVars, disk, start, next, here, slot, listed>>

FileBadLink ==
  /\ walk = "first" \/ (walk = "follow" /\ next[1] # 0)
  /\ ~Addressable(next)
  /\ WalkStops("stopped")

\* A sector of a track that the image does not have is read all the same.
FileOutside ==
  /\ walk \in {"first", "follow"}
  /\ Addressable(next) /\ next \notin Place
  /\ WalkStops("outside")

FileDone ==
  /\ walk = "follow" /\ next[1] = 0
  /\ WalkStops("read")

-----------------------------------------------------------------------------
ImageInit(image, what, from) ==
  /\ buf = bufCreate /\ want = 0 /\ rest = 0
  /\ disk = image
  /\ start = from /\ next = from
  /\ here = from
  /\ slot = Slots
  /\ listed = <<>>
  /\ walk = what

ReadDirectory(image) == ImageInit(image, "directory", DirStart)
ReadFile(image, from) == ImageInit(image, "first", from)

ImageNext ==
  \/ DirSector \/ DirBadLink \/ DirEmpty \/ DirFile \/ DirBadEntry \/ DirOverrun
  \/ DirDone
  \/ FileFirst \/ FileSector \/ GrowFile \/ CopySector \/ FileBadLink
  \/ FileOutside \/ FileDone

-----------------------------------------------------------------------------
(***************************************************************************)
(* Correctness.                                                            *)
(***************************************************************************)
\* The n-th place of the chain, <<0, 0>> behind its end.
Chain[n \in Nat] ==
  IF n = 0 THEN start
  ELSE LET before == Chain[n - 1]
       IN  IF before \in Place THEN disk[before].link ELSE <<0, 0>>

OnChain == {Chain[n] : n \in 0 .. Cardinality(Place)} \cap Place

ChainEnds == Chain[Cardinality(Place)] \notin Place

\* Of two entries the one that comes first along the chain.
Precedes(e, f) ==
  \E m, n \in 0 .. Cardinality(Place) :
    /\ Chain[m] = e[1] /\ Chain[n] = f[1]
    /\ m < n \/ (m = n /\ e[2] < f[2])

\* A directory that is read to its end lists every file of every sector of the
\* chain, lists it once, and lists them in the order of the chain.
DirectoryComplete ==
  walk = "listed" =>
    /\ IsInjective(listed)
    /\ \A i, j \in DOMAIN listed : i < j => Precedes(listed[i], listed[j])
    /\ ToSet(listed) =
         {e \in OnChain \X (0 .. Slots - 1) : disk[e[1]].slots[e[2] + 1] = "file"}

\* The last sector of the file claims to have no room for its own link.
ShortEnd ==
  \E p \in OnChain : disk[p].link[1] = 0 /\ disk[p].link[2] < 2

\* Walks that must come to an end: along a chain that ends, and when a file is
\* read, to a last sector with room for its own link.  A chain that does not
\* end is followed for ever, and so is the request for four gigabytes that a
\* short last sector makes.
WalkMustEnd ==
  /\ walk \notin WalkEnded
  /\ ChainEnds
  /\ walk = "directory" \/ ~ShortEnd
=============================================================================
