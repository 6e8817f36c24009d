----------------------------- MODULE PrgProofs -----------------------------
(***************************************************************************)
(* Proofs about PrgLoader, for every size of block, page, RAM and unsigned *)
(* and for files of every length; what they say of the contents is said of *)
(* those that are at least a block shorter than an unsigned counts.        *)
(***************************************************************************)
EXTENDS PrgLoader, TLAPS

\* Loading, from a file of one of the lengths.
PrgSpec(as) == PrgInit(as) /\ [][PrgNext]_prgVars

\* While a countable file is read: nothing of it is lost, whole blocks have been
\* read, and the room that has been asked for is what the next block needs, or
\* the file is at its end.
Reading ==
  /\ buf.len + rest = size /\ buf.len <= buf.cap
  /\ buf.cap % Block = 0
  /\ stage \in {"ask", "read"} => buf.len % Block = 0
  /\ stage = "read" =>
       \/ buf.len < Wrap - Block /\ want = buf.len + Block
       \/ rest = 0 /\ want = 0
  /\ stage \in {"load", "loaded", "refused"} => rest = 0
  /\ stage # "overrun"

BufferType ==
  /\ buf \in [cap : Unsigned, len : Unsigned]
  /\ rest \in Nat /\ size \in Nat /\ origin \in Nat

\* Once it has been taken over.
Taken ==
  /\ stage = "loaded" /\ kind = "prg" =>
       /\ buf.len >= 2 /\ Top < RamSize
       /\ loaded = [from |-> origin, to |-> origin + buf.len - 2, xy |-> Top]
  /\ stage = "loaded" /\ kind # "prg" => buf.len = ExactSize[kind]

PrgInv == BufferType /\ (Countable => Reading) /\ Taken

LEMMA BlockType ==
  Block \in Nat /\ Block > 0 /\ Wrap \in Nat /\ Wrap > 2 * Block
BY BuffersAssumption DEF BuffersAssumption

\* A multiple of the block is a block below the next.
LEMMA NextMultiple ==
  ASSUME NEW m \in Nat, m % Block = 0
  PROVE  /\ (m + Block) % Block = 0
         /\ \A n \in Nat : n % Block = 0 /\ m < n => m + Block <= n
<1> DEFINE x == m \div Block
<1>1. x \in Nat /\ m = Block * x
  BY BlockType
<1>2. (m + Block) % Block = 0
  <2>1. m + Block = (x + 1) * Block /\ x + 1 \in Nat
    BY <1>1, BlockType
  <2>. HIDE DEF x
  <2>2. ((x + 1) * Block) % Block = 0
    BY <1>1, BlockType, SMTT(60)
  <2>. QED
    BY <2>1, <2>2
<1>3. ASSUME NEW n \in Nat, n % Block = 0, m < n PROVE m + Block <= n
  <2> DEFINE y == n \div Block
  <2>1. y \in Nat /\ n = Block * y
    BY <1>3, BlockType
  <2>. HIDE DEF x, y
  <2>2. x < y
    <3>1. SUFFICES ASSUME y <= x PROVE FALSE
      BY <1>1, <2>1
    <3>2. PICK d \in Nat : x = y + d
      <4>1. x - y \in Nat /\ x = y + (x - y)
        BY <1>1, <2>1, <3>1
      <4>. QED
        BY <4>1
    <3>3. Block * x = Block * y + Block * d /\ Block * d \in Nat
      BY <2>1, <3>2, BlockType
    <3>. QED
      BY <1>1, <1>3, <2>1, <3>3
  <2>3. PICK d \in Nat : y = x + 1 + d
    <3>1. y - x - 1 \in Nat /\ y = x + 1 + (y - x - 1)
      BY <1>1, <2>1, <2>2
    <3>. QED
      BY <3>1
  <2>4. Block * y = Block * x + Block + Block * d /\ Block * d \in Nat /\ Block * x \in Nat
    BY <1>1, <2>3, BlockType
  <2>. QED
    BY <1>1, <2>1, <2>4, BlockType
<1>. QED
  BY <1>2, <1>3

LEMMA PageType == Page \in Nat /\ Page > 0 /\ RamSize \in Nat
BY PrgAssumption DEF PrgAssumption

LEMMA PrgStart == ASSUME NEW as PROVE PrgInit(as) => PrgInv
<1> SUFFICES ASSUME PrgInit(as) PROVE PrgInv
  OBVIOUS
<1>1. size \in Nat /\ origin \in Nat
  BY PrgAssumption, PageType DEF PrgAssumption, PrgInit
<1>2. buf = [cap |-> Block, len |-> 0] /\ rest = size /\ stage = "ask"
  BY DEF PrgInit, bufCreate
<1>3. BufferType
  BY <1>1, <1>2, BlockType DEF BufferType, Unsigned
<1>4. Block % Block = 0 /\ 0 % Block = 0
  BY BlockType, SMTT(30)
<1>5. Reading
  BY <1>1, <1>2, <1>4, BlockType DEF Reading
<1>. QED
  BY <1>2, <1>3, <1>5 DEF PrgInv, Taken

LEMMA AskRoomInv == PrgInv /\ AskRoom => PrgInv'
<1> SUFFICES ASSUME PrgInv, AskRoom PROVE PrgInv'
  OBVIOUS
<1>1. want' = (buf.len + Block) % Wrap /\ UNCHANGED <<buf, rest, kind, size, origin, loaded>>
      /\ stage = "ask" /\ stage' = "read"
  BY DEF AskRoom, bufEnsureExtraCap
<1>2. buf.len \in Nat /\ rest \in Nat
  BY DEF PrgInv, BufferType, Unsigned
<1>3. ASSUME Countable PROVE Reading'
  <2>1. buf.len + rest = size /\ size <= Wrap - Block /\ Reading
    BY <1>3 DEF PrgInv, Reading, Countable
  <2>2. \/ buf.len < Wrap - Block /\ want' = buf.len + Block
        \/ rest = 0 /\ want' = 0
    <3>1. CASE buf.len < Wrap - Block
      BY <1>1, <1>2, <3>1, BlockType
    <3>2. CASE ~(buf.len < Wrap - Block)
      <4>1. buf.len + Block = Wrap /\ rest = 0
        BY <1>2, <2>1, <3>2, BlockType DEF PrgInv, BufferType
      <4>. QED
        BY <1>1, <4>1, BlockType
    <3>. QED
      BY <3>1, <3>2
  <2>. QED
    BY <1>1, <2>1, <2>2 DEF Reading
<1>. QED
  BY <1>1, <1>3 DEF PrgInv, BufferType, Taken, Countable

LEMMA GrowInv == PrgInv /\ GrowBuffer => PrgInv'
<1> SUFFICES ASSUME PrgInv, GrowBuffer PROVE PrgInv'
  OBVIOUS
<1>1. buf' = [buf EXCEPT !.cap = (@ + Block) % Wrap] /\ ~(buf.cap >= want) /\ stage = "read"
      /\ UNCHANGED <<want, rest, kind, size, origin, loaded, stage>>
  BY DEF GrowBuffer, Grow, HasRoom
<1>2. buf.cap \in Nat /\ buf.len \in Nat /\ buf'.cap = (buf.cap + Block) % Wrap /\ buf'.len = buf.len
  BY <1>1 DEF PrgInv, BufferType, Unsigned
<1>3. BufferType'
  BY <1>1, <1>2, BlockType DEF PrgInv, BufferType, Unsigned
<1>4. ASSUME Countable PROVE Reading'
  <2>1. Reading
    BY <1>4 DEF PrgInv
  <2>2. want = buf.len + Block /\ want < Wrap
    <3>1. want # 0 /\ stage = "read"
      BY <1>1, <1>2
    <3>. QED
      BY <1>2, <2>1, <3>1, BlockType DEF Reading
  <2>3. buf.cap % Block = 0 /\ want % Block = 0
    BY <1>1, <1>2, <2>1, <2>2, NextMultiple DEF Reading
  <2>4. buf.cap + Block <= want /\ (buf.cap + Block) % Block = 0
    BY <1>1, <1>2, <2>2, <2>3, BlockType, NextMultiple
  <2>5. buf'.cap = buf.cap + Block
    <3>1. buf.cap + Block \in Nat /\ buf.cap + Block < Wrap
      BY <1>2, <2>2, <2>4, BlockType
    <3>. QED
      BY <1>2, <3>1, BlockType
  <2>. QED
    BY <1>1, <1>2, <2>1, <2>4, <2>5, BlockType DEF Reading
<1>. QED
  BY <1>1, <1>3, <1>4 DEF PrgInv, Taken, Countable

LEMMA ReadBlockInv == PrgInv /\ ReadBlock => PrgInv'
<1> SUFFICES ASSUME PrgInv, ReadBlock PROVE PrgInv'
  OBVIOUS
<1> DEFINE more == Least(Block, rest)
<1>1. /\ buf.cap >= want /\ stage = "read"
      /\ buf' = [buf EXCEPT !.len = (@ + more) % Wrap]
      /\ rest' = rest - more
      /\ stage' = IF rest < Block THEN "load" ELSE "ask"
      /\ UNCHANGED <<want, kind, size, origin, loaded>>
  BY DEF ReadBlock, Fread, HasRoom
<1>2. more \in Nat /\ more <= Block /\ more <= rest /\ (rest < Block => more = rest)
      /\ (~(rest < Block) => more = Block)
  BY BlockType DEF Least, PrgInv, BufferType
<1>. HIDE DEF more
<1>3. buf.cap \in Nat /\ buf.len \in Nat /\ rest \in Nat /\ buf.cap < Wrap
      /\ buf'.len = (buf.len + more) % Wrap /\ buf'.cap = buf.cap
  BY <1>1, BlockType DEF PrgInv, BufferType, Unsigned
<1>4. BufferType'
  BY <1>1, <1>2, <1>3, BlockType DEF PrgInv, BufferType, Unsigned
<1>5. ASSUME Countable PROVE Reading'
  <2>1. Reading
    BY <1>5 DEF PrgInv
  <2>2. buf.len + more <= buf.cap
    BY <1>1, <1>2, <1>3, <2>1, BlockType DEF Reading
  <2>3. buf'.len = buf.len + more
    BY <1>2, <1>3, <2>2, BlockType
  <2>4. stage' = "ask" => buf'.len % Block = 0
    BY <1>1, <1>2, <1>3, <2>1, <2>3, NextMultiple DEF Reading
  <2>. QED
    BY <1>1, <1>2, <1>3, <2>1, <2>2, <2>3, <2>4 DEF Reading
<1>. QED
  BY <1>1, <1>4, <1>5 DEF PrgInv, Taken, Countable

LEMMA OverrunInv == PrgInv /\ ReadOverruns => PrgInv'
<1> SUFFICES ASSUME PrgInv, ReadOverruns PROVE PrgInv'
  OBVIOUS
<1>1. /\ stage = "read" /\ buf.cap >= want /\ buf.len + Least(Block, rest) > buf.cap
      /\ stage' = "overrun" /\ UNCHANGED <<buf, want, rest, kind, size, origin, loaded>>
  BY DEF ReadOverruns, FreadOverruns, HasRoom, bufferVars
<1>2. buf.cap \in Nat /\ buf.len \in Nat /\ rest \in Nat
  BY DEF PrgInv, BufferType, Unsigned
<1>3. Least(Block, rest) <= Block /\ (rest = 0 => Least(Block, rest) = 0)
      /\ Least(Block, rest) \in Nat
  BY <1>2, BlockType DEF Least
<1>4. ~Countable
  <2>1. SUFFICES ASSUME Reading PROVE FALSE
    BY DEF PrgInv
  <2>2. CASE want = buf.len + Block
    BY <1>1, <1>2, <1>3, <2>2, BlockType
  <2>3. CASE rest = 0
    BY <1>1, <1>2, <1>3, <2>1, <2>3 DEF Reading
  <2>. QED
    BY <1>1, <2>1, <2>2, <2>3 DEF Reading
<1>. QED
  BY <1>1, <1>4 DEF PrgInv, BufferType, Taken, Countable

LEMMA TakeOverInv == PrgInv /\ (loadPRG \/ loadExact) => PrgInv'
<1> SUFFICES ASSUME PrgInv, loadPRG \/ loadExact PROVE PrgInv'
  OBVIOUS
<1>1. stage = "load" /\ stage' \in {"loaded", "refused"} /\ UNCHANGED <<buf, want, rest, kind, size, origin>>
  BY DEF loadPRG, loadExact, bufferVars
<1>2. BufferType' /\ (Countable => Reading)'
  BY <1>1 DEF PrgInv, BufferType, Reading, Countable
<1>3. Top' = Top
  BY <1>1 DEF Top
<1>4. Taken'
  BY <1>1, <1>3 DEF loadPRG, loadExact, Fits, Taken
<1>. QED
  BY <1>1, <1>2, <1>4 DEF PrgInv

LEMMA PrgStep == PrgInv /\ [PrgNext]_prgVars => PrgInv'
<1> SUFFICES ASSUME PrgInv, [PrgNext]_prgVars PROVE PrgInv'
  OBVIOUS
<1>1. CASE UNCHANGED prgVars
  BY <1>1 DEF prgVars, bufferVars, PrgInv, BufferType, Reading, Taken, Top, Countable
<1>. QED
  BY <1>1, AskRoomInv, GrowInv, ReadBlockInv, OverrunInv, TakeOverInv DEF PrgNext

\* bufEnsureCap's unsigned arithmetic holds as far as a block below the largest
\* unsigned: no file of that length or less makes fread write behind the buffer.
\* Longer ones are read too and the theorem leaves what happens to them open;
\* nothing in readFile refuses them.
THEOREM BufferSoundAlways == ASSUME NEW as PROVE PrgSpec(as) => []BufferSound
<1>1. PrgInv => BufferSound
  BY DEF PrgInv, BufferType, Reading, BufferSound
<1>. QED
  BY <1>1, PrgStart, PrgStep, PTL DEF PrgSpec

\* Rounding up to a page.
LEMMA TopRounds ==
  ASSUME NEW n \in Nat
  PROVE  LET up == IF n % Page # 0 THEN (n \div Page + 1) * Page ELSE n
         IN  up \in n .. n + Page - 1 /\ up % Page = 0
<1> DEFINE q == n \div Page
           r == n % Page
<1>1. Page \in Nat /\ Page > 0
  BY PageType
<1>2. q \in Nat /\ r \in Nat /\ r < Page /\ n = Page * q + r
  BY <1>1, SMTT(60)
<1>3. CASE r = 0
  BY <1>1, <1>2, <1>3
<1>4. CASE r # 0
  <2>1. (q + 1) * Page = Page * q + Page
    BY <1>1, <1>2, SMTT(60)
  <2>2. (q + 1) * Page \in n .. n + Page - 1
    <3>. DEFINE m == Page * q
    <3>1. m \in Nat
      BY <1>1, <1>2, SMTT(60)
    <3>. HIDE DEF m, q, r
    <3>. QED
      BY <1>1, <1>2, <1>4, <2>1, <3>1
  <2>3. ((q + 1) * Page) % Page = 0
    BY <1>1, <1>2, SMTT(60)
  <2>. QED
    BY <1>4, <2>2, <2>3
<1>. QED
  BY <1>3, <1>4

\* A file of at most a block less than an unsigned counts, once taken over, was
\* read to its end, block by block; a program lies in RAM without wrapping around
\* its end, and X and Y hold the first page behind it.
THEOREM PrgWholeAlways == ASSUME NEW as PROVE PrgSpec(as) => []PrgWhole
<1>1. PrgInv => PrgWhole
  <2> SUFFICES ASSUME PrgInv, stage = "loaded", Countable
               PROVE  /\ buf.len = size
                      /\ kind = "prg" =>
                           /\ loaded.to - loaded.from = size - 2
                           /\ loaded.to < RamSize
                           /\ loaded.xy \in loaded.to .. loaded.to + Page - 1
                           /\ loaded.xy % Page = 0
                      /\ kind # "prg" => size = ExactSize[kind]
    BY DEF PrgWhole
  <2>1. buf.len = size /\ size \in Nat
    <3>1. buf.len \in Nat /\ rest \in Nat /\ size \in Nat
      BY DEF PrgInv, BufferType, Unsigned
    <3>. QED
      BY <3>1 DEF PrgInv, Reading
  <2>2. CASE kind = "prg"
    <3>1. /\ buf.len >= 2 /\ Top < RamSize /\ origin \in Nat
          /\ loaded = [from |-> origin, to |-> origin + buf.len - 2, xy |-> Top]
      BY <2>2 DEF PrgInv, BufferType, Taken
    <3>2. origin + buf.len - 2 \in Nat
      BY <2>1, <3>1
    <3>3. Top \in origin + buf.len - 2 .. origin + buf.len - 2 + Page - 1 /\ Top % Page = 0
      BY <3>2, TopRounds DEF Top
    <3>. QED
      BY <2>1, <2>2, <3>1, <3>2, <3>3, PageType
  <2>3. CASE kind # "prg"
    BY <2>1, <2>3 DEF PrgInv, Taken
  <2>. QED
    BY <2>1, <2>2, <2>3
<1>. QED
  BY <1>1, PrgStart, PrgStep, PTL DEF PrgSpec
=============================================================================
