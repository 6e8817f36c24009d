---------------------------- MODULE ForthProofs ----------------------------
(***************************************************************************)
(* Proofs about ForthDecompiler, for every dump, start address and labels  *)
(* file: the types, the facts that labelling relies on, and that the scan  *)
(* implements Explorer.                                                    *)
(***************************************************************************)
EXTENDS ForthDecompiler, TLAPS, WellFoundedInduction

LEMMA RadixType == Radix \in Nat /\ Radix >= 2
<1>1. Radix \in Nat \ {0, 1}
  BY DecompilerAssumption, Zenon DEF DecompilerAssumption
<1>. QED
  BY <1>1

LEMMA NativeType ==
  /\ DOMAIN Native \subseteq Addr
  /\ \A a \in DOMAIN Native : Native[a] \in NativeKinds
BY DecompilerAssumption DEF DecompilerAssumption

LEMMA RamSizeType == RAM_SIZE \in Nat /\ RAM_SIZE >= 4
<1>1. Radix * Radix \in Nat /\ Radix * Radix >= 4
  BY RadixType, SMTT(30)
<1>. QED
  BY <1>1 DEF RAM_SIZE

\* A word of two bytes is an address.
LEMMA WordIsAddr ==
  ASSUME ram \in [Addr -> Byte], NEW a \in Addr, Readable(a)
  PROVE  Word(a) \in Addr
<1>1. a + 1 \in Addr
  BY RamSizeType DEF Addr, Readable
<1>2. PICK lo \in Byte, hi \in Byte : lo = ram[a] /\ hi = ram[a + 1]
  BY <1>1
<1>3. Word(a) = lo + Radix * hi
  BY <1>2 DEF Word
<1>4. Radix \in Nat /\ Radix > 0 /\ lo \in Nat /\ hi \in Nat /\ lo <= Radix - 1 /\ hi <= Radix - 1
  BY RadixType DEF Byte
<1>5. Radix * hi \in Nat /\ Radix * hi <= Radix * (Radix - 1)
  BY <1>4, SMTT(30)
<1>6. Radix * (Radix - 1) = Radix * Radix - Radix
  BY <1>4, SMTT(30)
<1>7. lo + Radix * hi \in Nat /\ lo + Radix * hi <= Radix * Radix - 1
  BY <1>4, <1>5, <1>6
<1>. QED
  BY <1>3, <1>7 DEF Addr, RAM_SIZE

\* What a cell can be found to be.
Kinds == NativeKinds \cup Refs \cup {"UNKNOWN"}

LEMMA ResolveKind ==
  ASSUME NEW ref
  PROVE  resolveRef(ref) \in Kinds
<1>1. CASE ref \in DOMAIN Native
  BY <1>1, NativeType DEF resolveRef, Kinds
<1>2. CASE ref \notin DOMAIN Native
  <2>1. resolveRef(ref) = resolveIndirect(ref)
    BY <1>2 DEF resolveRef
  <2>2. \A d \in Defs : RefTo[d] \in Refs
    BY DEF Defs, RefTo, Refs
  <2>. QED
    BY <2>1, <2>2 DEF resolveIndirect, Kinds
<1>. QED
  BY <1>1, <1>2

LEMMA TypeOfKind ==
  ASSUME NEW kind \in Kinds, kind # "UNKNOWN"
  PROVE  TypeOf(kind) \in RefType /\ TypeOf(kind) # "NONE"
BY DEF TypeOf, Kinds, RefType, NativeKinds, Refs, Defs, Branches, Data

LEMMA FollowingType ==
  ASSUME NEW kind \in Kinds
  PROVE  /\ Following(kind) \in Data \cup {"NONE"}
         /\ Following(kind) = "NONE" => kind # "STRING"
BY DEF Following, Data, Kinds, NativeKinds, Refs, Defs, Branches

LEMMA DataLenType ==
  ASSUME NEW kind \in Kinds, ram \in [Addr -> Byte], NEW p \in Nat
  PROVE  /\ DataLen(kind, p) \in Nat
         /\ Following(kind) = "NONE" => DataLen(kind, p) = 0
<1>1. \A b \in Addr : ram[b] \in Nat
  BY RadixType DEF Byte
<1>. QED
  BY <1>1, FollowingType DEF DataLen

\* What a cell's processing does to the table: it stays a table, nothing that
\* is typed becomes untyped, the cell is typed, and no branch appears but the
\* cell itself.
LEMMA MarkedType ==
  ASSUME ram \in [Addr -> Byte], refType \in [Addr -> RefType],
         NEW a \in Addr, Readable(a), NEW kind \in Kinds
  PROVE  /\ Marked(a, kind) \in [Addr -> RefType]
         /\ \A b \in Addr : refType[b] # "NONE" => Marked(a, kind)[b] # "NONE"
         /\ Marked(a, kind)[a] # "NONE"
         /\ \A b \in Addr : Marked(a, kind)[b] \in Branches =>
              refType[b] \in Branches \/ (b = a /\ kind \in Branches)
         /\ \A b \in Addr : Marked(a, kind)[b] = "VAL_BRANCH_OFFSET" =>
              refType[b] = "VAL_BRANCH_OFFSET" \/ (b = a + 2 /\ kind \in Branches)
         /\ \A b \in Addr : Marked(a, kind)[b] \in Refs =>
              refType[b] \in Refs \/ (b = a /\ TypeOf(kind) \in Refs)
<1> DEFINE p == a + 2
           data == p .. p + DataLen(kind, p) - 1
           cell == IF kind = "UNKNOWN" THEN [refType EXCEPT ![a] = "UNKNOWN"]
                   ELSE [refType EXCEPT ![a] = TypeOf(kind), ![a + 1] = "CONT"]
           value(b) == IF b \in data THEN DataMark(kind, b = p, b) ELSE cell[b]
<1>1. Marked(a, kind) = [b \in Addr |-> value(b)]
  BY DEF Marked
<1>2. a + 1 \in Addr /\ a \in Nat /\ p \in Nat
  BY RamSizeType DEF Addr, Readable
<1>3. DataLen(kind, p) \in Nat /\ (Following(kind) = "NONE" => DataLen(kind, p) = 0)
  BY <1>2, DataLenType
<1>4. a \notin data
  BY <1>2, <1>3
<1>5. \A b \in Addr : b \in data => Following(kind) \in Data
  BY <1>2, <1>3, FollowingType
<1>. HIDE DEF p, data
<1>6. ASSUME NEW b \in Addr, b \in data
      PROVE  /\ value(b) \in RefType
             /\ value(b) # "NONE"
             /\ value(b) \in Branches => refType[b] \in Branches
             /\ value(b) \in Refs => refType[b] \in Refs
             /\ value(b) = "VAL_BRANCH_OFFSET" =>
                  refType[b] = "VAL_BRANCH_OFFSET" \/ (b = p /\ kind \in Branches)
  <2>1. DataMark(kind, b = p, b) \in Data \cup {"CONT", "CONT_VAR", refType[b]}
    BY <1>5, <1>6 DEF DataMark
  <2>2. refType[b] = "NONE" => DataMark(kind, b = p, b) \in Data \cup {"CONT", "CONT_VAR"}
    BY <1>5, <1>6 DEF DataMark
  <2>3. kind = "STRING" => Following(kind) = "VAL_STR_LENPFX"
    BY DEF Following, Branches
  <2>4. DataMark(kind, b = p, b) = "VAL_BRANCH_OFFSET" =>
          refType[b] = "VAL_BRANCH_OFFSET" \/ (b = p /\ kind \in Branches)
    <3>1. Following(kind) = "VAL_BRANCH_OFFSET" => kind \in Branches /\ kind # "STRING"
      BY DEF Following, Branches
    <3>2. b # p => DataMark(kind, FALSE, b) \in {"VAL_STR_LENPFX", "CONT", "CONT_VAR", refType[b]}
      BY <2>3 DEF DataMark
    <3>3. CASE b = p
      BY <3>1, <3>3 DEF DataMark
    <3>4. CASE b # p
      <4>1. DataMark(kind, b = p, b) = DataMark(kind, FALSE, b)
        BY <3>4
      <4>. QED
        BY <3>2, <3>4, <4>1
    <3>. QED
      BY <3>3, <3>4
  <2>. QED
    BY <2>1, <2>2, <2>4, <1>6 DEF RefType, Data, Branches, Refs
<1>7. ASSUME NEW b \in Addr, b \notin data
      PROVE  /\ value(b) \in RefType
             /\ refType[b] # "NONE" => value(b) # "NONE"
             /\ b = a => value(b) # "NONE"
             /\ value(b) \in Branches => refType[b] \in Branches \/ (b = a /\ kind \in Branches)
             /\ value(b) \in Refs => refType[b] \in Refs \/ (b = a /\ TypeOf(kind) \in Refs)
             /\ value(b) = "VAL_BRANCH_OFFSET" => refType[b] = "VAL_BRANCH_OFFSET"
  <2>1. CASE kind = "UNKNOWN"
    <3>1. value(b) = IF b = a THEN "UNKNOWN" ELSE refType[b]
      BY <1>7, <2>1
    <3>. QED
      BY <3>1 DEF RefType, Branches, Refs
  <2>2. CASE kind # "UNKNOWN"
    <3>1. value(b) = IF b = a + 1 THEN "CONT" ELSE IF b = a THEN TypeOf(kind) ELSE refType[b]
      BY <1>2, <1>7, <2>2
    <3>2. TypeOf(kind) \in RefType /\ TypeOf(kind) # "NONE"
      BY <2>2, TypeOfKind
    <3>3. TypeOf(kind) \in Branches => kind \in Branches
      BY DEF TypeOf, Branches
    <3>4. "CONT" \in RefType /\ "CONT" # "NONE" /\ "CONT" \notin Branches \cup Refs
      BY DEF RefType, Branches, Refs
    <3>5. a + 1 # a
      BY <1>2
    <3>6. TypeOf(kind) # "VAL_BRANCH_OFFSET" /\ "CONT" # "VAL_BRANCH_OFFSET"
      BY DEF TypeOf, Kinds, NativeKinds, Refs, Defs, Branches
    <3>. QED
      BY <3>1, <3>2, <3>3, <3>4, <3>5, <3>6
  <2>. QED
    BY <2>1, <2>2
<1>8. p = a + 2
  BY DEF p
<1>. HIDE DEF value
<1>. QED
  BY <1>1, <1>4, <1>6, <1>7, <1>8

LEMMA FoundType ==
  ASSUME ram \in [Addr -> Byte], NEW a \in Addr, CanResolve(a),
         NEW kind \in Kinds, ~BadData(a, kind)
  PROVE  Found(a, kind) \in Seq(Addr)
<1>1. Word(a) \in Addr
  BY WordIsAddr DEF CanResolve
<1>2. CASE TypeOf(kind) \in Refs
  <2>1. kind \notin Branches
    BY <1>2 DEF TypeOf, Refs, Branches
  <2>2. Found(a, kind) = IF Word(Word(a)) # a /\ refType[Word(Word(a))] = "NONE"
                         THEN <<Word(a)>> ELSE <<>>
    BY <1>2, <2>1, Zenon DEF Found
  <2>. QED
    BY <1>1, <2>2
<1>3. CASE TypeOf(kind) \notin Refs /\ kind \in Branches
  <2>1. Found(a, kind) = <<BranchTarget(a + 2)>>
    BY <1>3 DEF Found
  <2>. QED
    BY <1>3, <2>1 DEF BadData
<1>4. CASE TypeOf(kind) \notin Refs /\ kind \notin Branches
  BY <1>4 DEF Found
<1>. QED
  BY <1>2, <1>3, <1>4

-----------------------------------------------------------------------------
\* The inductive invariant.  Between the scan and the end of a successful run
\* nothing is left to scan, and the labels of the file are labels.
Ordered ==
  /\ phase = "open" => ip = NoPtr /\ new # <<>>
  /\ phase \in {"label", "write", "done"} => ip = NoPtr /\ old = <<>> /\ new = <<>>

FileLabels == \A line \in file : line.label \in Label

ForthInv ==
  /\ DecompilerTypeOK
  /\ ScannedIsTyped
  /\ BranchesInRange
  /\ Ordered
  /\ FileLabels

LEMMA ForthInit ==
  ASSUME NEW dump \in [Addr -> Byte], NEW start \in Addr, NEW lines,
         \A line \in lines : line.label \in Label
  PROVE  DecompileInit(dump, start, lines) => ForthInv
<1> SUFFICES ASSUME DecompileInit(dump, start, lines) PROVE ForthInv
  OBVIOUS
<1>. USE DEF DecompileInit
<1>1. DecompilerTypeOK
  <2>1. MaxRepeats \in Nat
    BY DecompilerAssumption, Zenon DEF DecompilerAssumption
  <2>2. "NONE" \in RefType /\ NoLabel \in Label /\ "open" \in Phases
    BY DEF RefType, Label, Phases
  <2>3. repeat \in [type : RefType, count : 0 .. MaxRepeats]
    BY <2>1, <2>2
  <2>4. refType \in [Addr -> RefType] /\ labels \in [Addr -> Label]
    BY <2>2
  <2>5. new \in Seq(Addr) /\ old \in Seq(Addr) /\ doStack \in Seq(Addr)
    OBVIOUS
  <2>. QED
    BY <2>2, <2>3, <2>4, <2>5 DEF DecompilerTypeOK, NoPtr
<1>2. ScannedIsTyped
  BY DEF ScannedIsTyped
<1>3. BranchesInRange
  BY DEF BranchesInRange, Branches
<1>4. Ordered
  BY DEF Ordered
<1>5. FileLabels
  BY DEF FileLabels
<1>. QED
  BY <1>1, <1>2, <1>3, <1>4, <1>5 DEF ForthInv

\* Steps that leave the dump and what the scan has found alone.
LEMMA ScanKept ==
  ASSUME ForthInv, UNCHANGED <<ram, scanVars>>
  PROVE  ScannedIsTyped' /\ BranchesInRange'
BY DEF ForthInv, scanVars, ScannedIsTyped, BranchesInRange, Readable, BranchTarget, Offset, Word

LEMMA FailInv == ForthInv /\ Fail => ForthInv'
<1> SUFFICES ASSUME ForthInv, Fail PROVE ForthInv'
  OBVIOUS
<1>1. ScannedIsTyped' /\ BranchesInRange'
  BY ScanKept DEF Fail
<1>2. DecompilerTypeOK'
  BY DEF Fail, ForthInv, DecompilerTypeOK, scanVars, Phases, Ended
<1>. QED
  BY <1>1, <1>2 DEF Fail, ForthInv, Ordered, FileLabels

-----------------------------------------------------------------------------
\* The steps of the scan.
LEMMA OpenFilesInv == ForthInv /\ OpenFiles => ForthInv'
<1> SUFFICES ASSUME ForthInv, OpenFiles PROVE ForthInv'
  OBVIOUS
<1>1. ScannedIsTyped' /\ BranchesInRange'
  BY ScanKept DEF OpenFiles
<1>2. ASSUME NEW a \in Addr PROVE labels'[a] \in Label
  <2>1. CASE \E line \in file : parseHex(line.addr) = a
    <3>1. (CHOOSE line \in file : parseHex(line.addr) = a) \in file
      BY <2>1
    <3>2. labels'[a] = (CHOOSE line \in file : parseHex(line.addr) = a).label
      BY <2>1 DEF OpenFiles
    <3>. QED
      BY <3>1, <3>2 DEF ForthInv, FileLabels
  <2>2. CASE ~\E line \in file : parseHex(line.addr) = a
    <3>1. labels'[a] = NoLabel
      BY <2>2 DEF OpenFiles
    <3>. QED
      BY <3>1 DEF Label
  <2>. QED
    BY <2>1, <2>2
<1>3. labels' \in [Addr -> Label]
  BY <1>2 DEF OpenFiles
<1>4. DecompilerTypeOK'
  BY <1>3 DEF OpenFiles, ForthInv, DecompilerTypeOK, scanVars, Phases
<1>. QED
  BY <1>1, <1>4 DEF OpenFiles, ForthInv, Ordered, FileLabels

LEMMA NextRoundInv == ForthInv /\ NextRound => ForthInv'
<1> SUFFICES ASSUME ForthInv, NextRound PROVE ForthInv'
  OBVIOUS
<1>1. DecompilerTypeOK'
  BY DEF NextRound, ForthInv, DecompilerTypeOK
<1>2. ScannedIsTyped'
  BY DEF NextRound, ForthInv, ScannedIsTyped
<1>3. BranchesInRange'
  BY DEF NextRound, ForthInv, BranchesInRange, Readable, BranchTarget, Offset, Word
<1>. QED
  BY <1>1, <1>2, <1>3 DEF NextRound, ForthInv, Ordered, FileLabels

LEMMA AlreadyScannedInv == ForthInv /\ AlreadyScanned => ForthInv'
<1> SUFFICES ASSUME ForthInv, AlreadyScanned PROVE ForthInv'
  OBVIOUS
<1>1. DecompilerTypeOK'
  BY DEF AlreadyScanned, ForthInv, DecompilerTypeOK
<1>2. ScannedIsTyped'
  BY DEF AlreadyScanned, ForthInv, ScannedIsTyped
<1>3. BranchesInRange'
  BY DEF AlreadyScanned, ForthInv, BranchesInRange, Readable, BranchTarget, Offset, Word
<1>. QED
  BY <1>1, <1>2, <1>3 DEF AlreadyScanned, ForthInv, Ordered, FileLabels

LEMMA StartScanInv == ForthInv /\ StartScan => ForthInv'
<1> SUFFICES ASSUME ForthInv, StartScan PROVE ForthInv'
  OBVIOUS
<1>1. old \in Seq(Addr) /\ old # <<>>
  BY DEF StartScan, ForthInv, DecompilerTypeOK
<1>2. Head(old) \in Addr /\ Tail(old) \in Seq(Addr)
  BY <1>1
<1>3. repeat' \in [type : RefType, count : 0 .. MaxRepeats]
  <2>1. MaxRepeats \in Nat /\ "NONE" \in RefType
    BY DecompilerAssumption, Zenon DEF DecompilerAssumption, RefType
  <2>. QED
    BY <2>1 DEF StartScan
<1>4. DecompilerTypeOK'
  <2>1. Head(old) \in Nat
    BY <1>2, RamSizeType DEF Addr
  <2>. QED
    BY <1>2, <1>3, <2>1 DEF StartScan, ForthInv, DecompilerTypeOK
<1>5. ScannedIsTyped'
  <2>1. ASSUME NEW a \in scanned PROVE refType'[a] # "NONE"
    <3>1. a \in Nat
      BY RamSizeType DEF Addr, ForthInv, DecompilerTypeOK
    <3>. QED
      BY <3>1 DEF StartScan, ForthInv, ScannedIsTyped, NoPtr
  <2>. QED
    BY <2>1 DEF StartScan, ScannedIsTyped
<1>6. BranchesInRange'
  BY DEF StartScan, ForthInv, BranchesInRange, Readable, BranchTarget, Offset, Word
<1>. QED
  BY <1>4, <1>5, <1>6 DEF StartScan, ForthInv, Ordered, FileLabels

LEMMA ScanCellInv == ForthInv /\ ScanCell => ForthInv'
<1> SUFFICES ASSUME ForthInv, ScanCell PROVE ForthInv'
  OBVIOUS
<1> DEFINE kind == resolveRef(Word(ip))
           next == ip + 2 + DataLen(kind, ip + 2)
<1>1. kind \in Kinds
  BY ResolveKind
<1>2. ip \in Addr /\ Readable(ip) /\ CanResolve(ip) /\ ram \in [Addr -> Byte]
      /\ refType \in [Addr -> RefType]
  BY RamSizeType DEF ScanCell, CanResolve, Readable, ForthInv, DecompilerTypeOK, NoPtr, Addr
<1>3. ~BadData(ip, kind) /\ refType' = Marked(ip, kind) /\ new' = new \o Found(ip, kind)
  BY DEF ScanCell
<1>4. /\ ip' = NoPtr \/ ip' = next
      /\ repeat' = repeat \/ (repeat' = Repeated(kind) /\ Repeated(kind).count < MaxRepeats)
      /\ ~LastCell(kind) \/ repeat' = repeat
  BY DEF ScanCell
<1>5. UNCHANGED <<ram, scanned, old, pos, doStack, labels, file, phase>> /\ phase = "scan"
  BY DEF ScanCell
<1>6. ip \in Nat /\ ip + 2 \in Nat
  BY <1>2, RamSizeType DEF Addr
<1>. HIDE DEF kind
<1>7. next \in Nat
  BY <1>1, <1>2, <1>6, DataLenType
<1>8. /\ refType' \in [Addr -> RefType]
      /\ \A b \in Addr : refType[b] # "NONE" => refType'[b] # "NONE"
      /\ refType'[ip] # "NONE"
      /\ \A b \in Addr : refType'[b] \in Branches =>
           refType[b] \in Branches \/ (b = ip /\ kind \in Branches)
      /\ \A b \in Addr : refType'[b] = "VAL_BRANCH_OFFSET" =>
           refType[b] = "VAL_BRANCH_OFFSET" \/ (b = ip + 2 /\ kind \in Branches)
  BY <1>1, <1>2, <1>3, MarkedType
<1>9. new' \in Seq(Addr)
  <2>1. Found(ip, kind) \in Seq(Addr)
    BY <1>1, <1>2, <1>3, FoundType
  <2>2. new \in Seq(Addr)
    BY DEF ForthInv, DecompilerTypeOK
  <2>. QED
    BY <1>3, <2>1, <2>2
<1>10. repeat' \in [type : RefType, count : 0 .. MaxRepeats]
  <2>1. repeat \in [type : RefType, count : 0 .. MaxRepeats]
    BY DEF ForthInv, DecompilerTypeOK
  <2>2. CASE repeat' = repeat
    BY <2>1, <2>2
  <2>3. CASE repeat' = Repeated(kind) /\ Repeated(kind).count < MaxRepeats /\ ~LastCell(kind)
    <3>1. TypeOf(kind) \in RefType
      BY <1>1, <2>3, TypeOfKind DEF LastCell
    <3>2. MaxRepeats \in Nat
      BY DecompilerAssumption, Zenon DEF DecompilerAssumption
    <3>3. CASE TypeOf(kind) = repeat.type
      <4>1. Repeated(kind) = [repeat EXCEPT !.count = @ + 1]
        BY <3>3 DEF Repeated
      <4>. QED
        BY <2>1, <2>3, <3>2, <4>1
    <3>4. CASE TypeOf(kind) # repeat.type
      <4>1. Repeated(kind) = [type |-> TypeOf(kind), count |-> 0]
        BY <3>4 DEF Repeated
      <4>. QED
        BY <2>3, <3>1, <3>2, <4>1
    <3>. QED
      BY <3>3, <3>4
  <2>. QED
    BY <1>4, <2>2, <2>3
<1>. HIDE DEF next
<1>11. DecompilerTypeOK'
  BY <1>4, <1>5, <1>7, <1>8, <1>9, <1>10 DEF ForthInv, DecompilerTypeOK
<1>12. ScannedIsTyped'
  BY <1>5, <1>8 DEF ForthInv, DecompilerTypeOK, ScannedIsTyped
<1>13. BranchesInRange'
  <2>1. ASSUME NEW b \in Addr, refType'[b] \in Branches
        PROVE  Readable(b + 2) /\ BranchTarget(b + 2) \in Addr
    <3>1. CASE refType[b] \in Branches
      BY <3>1 DEF ForthInv, BranchesInRange
    <3>2. CASE b = ip /\ kind \in Branches
      BY <1>3, <3>2 DEF BadData
    <3>. QED
      BY <1>8, <2>1, <3>1, <3>2
  <2>2. ASSUME NEW b \in Addr, refType'[b] = "VAL_BRANCH_OFFSET"
        PROVE  Readable(b) /\ BranchTarget(b) \in Addr
    <3>1. CASE refType[b] = "VAL_BRANCH_OFFSET"
      BY <3>1 DEF ForthInv, BranchesInRange
    <3>2. CASE b = ip + 2 /\ kind \in Branches
      BY <1>3, <3>2 DEF BadData
    <3>. QED
      BY <1>8, <2>2, <3>1, <3>2
  <2>. QED
    BY <1>5, <2>1, <2>2 DEF BranchesInRange, Readable, BranchTarget, Offset, Word
<1>. QED
  BY <1>5, <1>11, <1>12, <1>13 DEF ForthInv, Ordered, FileLabels

LEMMA ScanDoneInv == ForthInv /\ (ScanDone \/ RefsOverrun) => ForthInv'
<1> SUFFICES ASSUME ForthInv, ScanDone \/ RefsOverrun PROVE ForthInv'
  OBVIOUS
<1>1. ScannedIsTyped' /\ BranchesInRange'
  BY ScanKept DEF ScanDone, RefsOverrun
<1>2. DecompilerTypeOK'
  BY DEF ScanDone, RefsOverrun, ForthInv, DecompilerTypeOK, scanVars, Phases, Ended
<1>. QED
  BY <1>1, <1>2 DEF ScanDone, RefsOverrun, ForthInv, Ordered, FileLabels, scanVars

-----------------------------------------------------------------------------
\* The steps of label and writeOutput.
LEMMA CellsType ==
  ASSUME ForthInv
  PROVE  LabelCells \subseteq Addr /\ WriteCells \subseteq Addr
BY RamSizeType DEF LabelCells, WriteCells, FirstCell, Addr, ForthInv, DecompilerTypeOK

LEMMA LabelMovesInv ==
  ASSUME ForthInv, NEW a \in LabelCells, NEW moved \in Nat, LabelMoves(a, moved),
         doStack' \in Seq(Addr), labels' \in [Addr -> Label]
  PROVE  ForthInv'
<1>1. ScannedIsTyped' /\ BranchesInRange'
  BY ScanKept DEF LabelMoves, scanVars
<1>2. a \in Nat
  BY CellsType, RamSizeType DEF Addr
<1>3. pos' \in Nat
  BY <1>2 DEF LabelMoves
<1>4. DecompilerTypeOK'
  BY <1>3 DEF LabelMoves, ForthInv, DecompilerTypeOK, scanVars
<1>. QED
  BY <1>1, <1>4 DEF LabelMoves, ForthInv, Ordered, FileLabels, scanVars

LEMMA LabelDoInv == ForthInv /\ LabelDo => ForthInv'
<1> SUFFICES ASSUME ForthInv, LabelDo PROVE ForthInv'
  OBVIOUS
<1>1. PICK a \in LabelCells : doStack' = Append(doStack, a) /\ UNCHANGED labels /\ LabelMoves(a, 1)
  BY DEF LabelDo
<1>2. doStack' \in Seq(Addr) /\ labels' \in [Addr -> Label]
  BY <1>1, CellsType DEF ForthInv, DecompilerTypeOK
<1>. QED
  BY <1>1, <1>2, LabelMovesInv

LEMMA LabelLoopInv == ForthInv /\ LabelLoop => ForthInv'
<1> SUFFICES ASSUME ForthInv, LabelLoop PROVE ForthInv'
  OBVIOUS
<1>1. PICK a \in LabelCells :
        doStack # <<>> /\ doStack' = Front(doStack) /\ UNCHANGED labels /\ LabelMoves(a, 1)
  BY DEF LabelLoop
<1>2. doStack \in Seq(Addr) /\ labels \in [Addr -> Label]
  BY DEF ForthInv, DecompilerTypeOK
<1>3. Front(doStack) \in Seq(Addr)
  <2>1. Len(doStack) - 1 \in Nat
    BY <1>1, <1>2
  <2>2. SubSeq(doStack, 1, Len(doStack) - 1) \in Seq(Addr)
    BY <1>2, <2>1
  <2>. QED
    BY <2>2 DEF Front
<1>. QED
  BY <1>1, <1>2, <1>3, LabelMovesInv

LEMMA LabelBranchInv == ForthInv /\ LabelBranch => ForthInv'
<1> SUFFICES ASSUME ForthInv, LabelBranch PROVE ForthInv'
  OBVIOUS
<1>1. PICK a \in LabelCells :
        labels' = BranchLabels(a) /\ UNCHANGED doStack /\ LabelMoves(a, 3)
  BY DEF LabelBranch
<1>2. doStack' \in Seq(Addr) /\ labels \in [Addr -> Label]
  BY <1>1 DEF ForthInv, DecompilerTypeOK
<1>3. Words \subseteq Label
  BY DEF Label
<1>4. BranchLabels(a) \in [Addr -> Label]
  <2> DEFINE to == BranchTarget(a + 2)
             before == to - 4
             beforeTo == BranchTarget(before + 2)
  <2>1. {"BEGIN", "UNTIL", "WHILE", "REPEAT", "IF", "ELSE", "ENDIF"} \subseteq Words
    BY DEF Words
  <2>2. [labels EXCEPT ![to] = "BEGIN", ![a] = "UNTIL"] \in [Addr -> Label]
    BY <1>2, <1>3, <2>1
  <2>3. [labels EXCEPT ![a] = "IF", ![to] = "ENDIF"] \in [Addr -> Label]
    BY <1>2, <1>3, <2>1
  <2>4. [labels EXCEPT ![a] = "BEGIN", ![to] = "WHILE", ![beforeTo] = "REPEAT"] \in [Addr -> Label]
    BY <1>2, <1>3, <2>1
  <2>5. [labels EXCEPT ![a] = "IF", ![to] = "ELSE", ![beforeTo] = "ENDIF"] \in [Addr -> Label]
    BY <1>2, <1>3, <2>1
  <2>. QED
    BY <2>2, <2>3, <2>4, <2>5 DEF BranchLabels
<1>. QED
  BY <1>1, <1>2, <1>4, LabelMovesInv

LEMMA LabelDoneInv == ForthInv /\ (LabelDone \/ WriteDone) => ForthInv'
<1> SUFFICES ASSUME ForthInv, LabelDone \/ WriteDone PROVE ForthInv'
  OBVIOUS
<1>1. ScannedIsTyped' /\ BranchesInRange'
  BY ScanKept DEF LabelDone, WriteDone
<1>2. DecompilerTypeOK'
  BY DEF LabelDone, WriteDone, ForthInv, DecompilerTypeOK, scanVars, Phases, Ended
<1>. QED
  BY <1>1, <1>2 DEF LabelDone, WriteDone, ForthInv, Ordered, FileLabels, scanVars

LEMMA WriteCellInv == ForthInv /\ WriteCell => ForthInv'
<1> SUFFICES ASSUME ForthInv, WriteCell PROVE ForthInv'
  OBVIOUS
<1>1. PICK a \in WriteCells :
        /\ file' = IF refType[a] \in Defs /\ getLabel(a) # ""
                   THEN file \cup {Line(a, getLabel(a))} ELSE file
        /\ pos' = a + 1 + Skipped(a)
        /\ UNCHANGED <<ram, scanVars, doStack, labels, phase>>
  BY DEF WriteCell
<1>2. a \in Addr /\ ram \in [Addr -> Byte] /\ labels \in [Addr -> Label]
  BY CellsType DEF ForthInv, DecompilerTypeOK
<1>3. ScannedIsTyped' /\ BranchesInRange'
  BY <1>1, ScanKept
<1>4. pos' \in Nat
  <2>1. ram[a] \in Nat /\ a \in Nat
    BY <1>2, RamSizeType, RadixType DEF Addr, Byte
  <2>2. Skipped(a) \in Nat
    BY <2>1 DEF Skipped
  <2>3. pos' = a + 1 + Skipped(a)
    BY <1>1, Zenon
  <2>. QED
    BY <2>1, <2>2, <2>3
<1>5. DecompilerTypeOK'
  BY <1>1, <1>4 DEF ForthInv, DecompilerTypeOK, scanVars
<1>6. FileLabels'
  <2>1. getLabel(a) \in Label
    BY <1>2 DEF getLabel, Label
  <2>2. Line(a, getLabel(a)).label \in Label
    BY <2>1 DEF Line
  <2>. QED
    BY <1>1, <2>2 DEF ForthInv, FileLabels
<1>. QED
  BY <1>1, <1>3, <1>5, <1>6 DEF ForthInv, Ordered, scanVars

LEMMA ForthNext == ForthInv /\ [DecompileNext]_decompileVars => ForthInv'
<1> SUFFICES ASSUME ForthInv, [DecompileNext]_decompileVars PROVE ForthInv'
  OBVIOUS
<1>1. CASE BadLabelsFile \/ ScanFails \/ LabelFails \/ WriteFails
  BY <1>1, FailInv DEF BadLabelsFile, ScanFails, LabelFails, WriteFails
<1>2. CASE UNCHANGED decompileVars
  <2>1. ScannedIsTyped' /\ BranchesInRange'
    BY <1>2, ScanKept DEF decompileVars, scanVars
  <2>2. DecompilerTypeOK'
    BY <1>2 DEF decompileVars, ForthInv, DecompilerTypeOK
  <2>. QED
    BY <1>2, <2>1, <2>2 DEF decompileVars, ForthInv, Ordered, FileLabels
<1>. QED
  BY <1>1, <1>2, OpenFilesInv, NextRoundInv, AlreadyScannedInv, StartScanInv, ScanCellInv,
     ScanDoneInv, LabelDoInv, LabelLoopInv, LabelBranchInv, LabelDoneInv, WriteCellInv
     DEF DecompileNext, Decompiles

-----------------------------------------------------------------------------
\* Whatever the dump, the address and the labels file: a run of the program.
DecompileSpec(dump, start, lines) ==
  DecompileInit(dump, start, lines) /\ [][DecompileNext]_decompileVars

LEMMA ForthInvariant ==
  ASSUME NEW dump \in [Addr -> Byte], NEW start \in Addr, NEW lines,
         \A line \in lines : line.label \in Label
  PROVE  DecompileSpec(dump, start, lines) => []ForthInv
BY ForthInit, ForthNext, PTL DEF DecompileSpec

\* Type correctness, for every dump, start address and labels file.
THEOREM DecompilerTypeCorrect ==
  ASSUME NEW dump \in [Addr -> Byte], NEW start \in Addr, NEW lines,
         \A line \in lines : line.label \in Label
  PROVE  DecompileSpec(dump, start, lines) => []DecompilerTypeOK
<1>1. ForthInv => DecompilerTypeOK
  BY DEF ForthInv
<1>. QED
  BY <1>1, ForthInvariant, PTL

\* scanDefinition never leaves a definition it has begun looking unscanned: the
\* test that decompileLoop makes before it scans one is enough to scan it once.
THEOREM ScannedIsTypedAlways ==
  ASSUME NEW dump \in [Addr -> Byte], NEW start \in Addr, NEW lines,
         \A line \in lines : line.label \in Label
  PROVE  DecompileSpec(dump, start, lines) => []ScannedIsTyped
<1>1. ForthInv => ScannedIsTyped
  BY DEF ForthInv
<1>. QED
  BY <1>1, ForthInvariant, PTL

\* label and writeOutput follow branches without a check of their own ("TODO:
\* Check range"): whatever RAM holds, the scan has checked every one of them.
THEOREM BranchesInRangeAlways ==
  ASSUME NEW dump \in [Addr -> Byte], NEW start \in Addr, NEW lines,
         \A line \in lines : line.label \in Label
  PROVE  DecompileSpec(dump, start, lines) => []BranchesInRange
<1>1. ForthInv => BranchesInRange
  BY DEF ForthInv
<1>. QED
  BY <1>1, ForthInvariant, PTL

-----------------------------------------------------------------------------
\* The scan implements Explorer.
LEMMA ToSetType ==
  ASSUME NEW S, NEW s \in Seq(S)
  PROVE  ToSet(s) \subseteq S
BY DEF ToSet

LEMMA ToSetHeadTail ==
  ASSUME NEW S, NEW s \in Seq(S), s # <<>>
  PROVE  ToSet(s) \subseteq {Head(s)} \cup ToSet(Tail(s))
<1>1. Len(s) \in Nat \ {0} /\ DOMAIN s = 1 .. Len(s)
  OBVIOUS
<1>2. DOMAIN Tail(s) = 1 .. Len(s) - 1 /\ \A i \in 1 .. Len(s) - 1 : Tail(s)[i] = s[i + 1]
  BY <1>1
<1>3. ASSUME NEW i \in DOMAIN s PROVE s[i] \in {Head(s)} \cup ToSet(Tail(s))
  <2>1. CASE i = 1
    BY <2>1
  <2>2. CASE i # 1
    <3>1. i - 1 \in DOMAIN Tail(s) /\ s[i] = Tail(s)[i - 1]
      BY <1>1, <1>2, <2>2
    <3>. QED
      BY <3>1 DEF ToSet
  <2>. QED
    BY <2>1, <2>2
<1>. QED
  BY <1>3 DEF ToSet

LEMMA ToSetConcat ==
  ASSUME NEW S, NEW s \in Seq(S), NEW t \in Seq(S)
  PROVE  ToSet(s) \subseteq ToSet(s \o t) /\ ToSet(t) \subseteq ToSet(s \o t)
<1>1. \A i \in DOMAIN s : i \in DOMAIN (s \o t) /\ (s \o t)[i] = s[i]
  OBVIOUS
<1>2. ASSUME NEW i \in DOMAIN t PROVE t[i] \in ToSet(s \o t)
  <2>1. Len(s) + i \in DOMAIN (s \o t) /\ (s \o t)[Len(s) + i] = t[i]
    OBVIOUS
  <2>. QED
    BY <2>1 DEF ToSet
<1>. QED
  BY <1>1, <1>2 DEF ToSet

LEMMA ExplorerInit ==
  ASSUME NEW dump \in [Addr -> Byte], NEW start \in Addr, NEW lines
  PROVE  DecompileInit(dump, start, lines) => E!Init
<1> SUFFICES ASSUME DecompileInit(dump, start, lines) PROVE E!Init
  OBVIOUS
<1>1. old \in Seq(Addr) /\ new \in Seq(Addr)
  BY DEF DecompileInit
<1>2. Unscanned \subseteq Addr
  BY <1>1, ToSetType DEF Unscanned
<1>3. Explored = {}
  BY DEF DecompileInit, Explored
<1>4. ScanComplete = FALSE
  BY DEF DecompileInit, ScanComplete
<1>. QED
  BY <1>2, <1>3, <1>4 DEF E!Init

LEMMA ToSetEmpty ==
  ASSUME NEW S, NEW s \in Seq(S)
  PROVE  ToSet(s) = {} <=> s = <<>>
BY DEF ToSet

\* A step of the scan that drops nothing it has found explores.
LEMMA ScanStepExplores ==
  ASSUME ForthInv, ForthInv', phase = "scan", phase' = "scan",
         Explored \subseteq Explored', Unscanned \subseteq Unscanned' \cup Explored'
  PROVE  E!Explore
<1>1. ~ScanComplete /\ ScanComplete' = ScanComplete
  BY DEF ScanComplete
<1>2. Unscanned' \subseteq Addr /\ Explored' \subseteq Addr
  BY ToSetType DEF ForthInv, DecompilerTypeOK, Explored, Unscanned
<1>. QED
  BY <1>1, <1>2 DEF E!Explore

LEMMA RoundExplores ==
  ASSUME ForthInv, ForthInv', NextRound \/ AlreadyScanned \/ StartScan
  PROVE  E!Explore
<1>1. old \in Seq(Addr) /\ new \in Seq(Addr)
  BY DEF ForthInv, DecompilerTypeOK
<1>2. CASE NextRound
  <2>1. Explored' = Explored
    BY <1>2 DEF NextRound, Explored
  <2>2. Unscanned \subseteq Unscanned'
    BY <1>1, <1>2, ToSetEmpty DEF NextRound, Unscanned
  <2>. QED
    BY <1>2, <2>1, <2>2, ScanStepExplores DEF NextRound
<1>3. CASE AlreadyScanned \/ StartScan
  <2>1. Head(old) \in Addr
    BY <1>1, <1>3 DEF AlreadyScanned, StartScan
  <2>2. Explored \subseteq Explored' /\ Head(old) \in Explored'
    BY <1>3, <2>1 DEF AlreadyScanned, StartScan, Explored
  <2>3. ToSet(old) \subseteq {Head(old)} \cup ToSet(Tail(old))
    BY <1>1, <1>3, ToSetHeadTail DEF AlreadyScanned, StartScan
  <2>4. old' = Tail(old) /\ new' = new
    BY <1>3 DEF AlreadyScanned, StartScan
  <2>5. Unscanned \subseteq Unscanned' \cup Explored'
    BY <2>2, <2>3, <2>4 DEF Unscanned
  <2>. QED
    BY <1>3, <2>2, <2>5, ScanStepExplores DEF AlreadyScanned, StartScan
<1>. QED
  BY <1>2, <1>3

LEMMA ScanCellExplores ==
  ASSUME ForthInv, ForthInv', ScanCell
  PROVE  E!Explore
<1> DEFINE kind == resolveRef(Word(ip))
<1>1. kind \in Kinds
  BY ResolveKind
<1>2. ip \in Addr /\ Readable(ip) /\ CanResolve(ip) /\ ram \in [Addr -> Byte]
      /\ refType \in [Addr -> RefType] /\ new \in Seq(Addr)
  BY RamSizeType DEF ScanCell, CanResolve, Readable, ForthInv, DecompilerTypeOK, NoPtr, Addr
<1>3. ~BadData(ip, kind) /\ refType' = Marked(ip, kind) /\ new' = new \o Found(ip, kind)
      /\ UNCHANGED <<scanned, old>>
  BY DEF ScanCell
<1>4. phase = "scan" /\ phase' = "scan"
  BY DEF ScanCell
<1>. HIDE DEF kind
<1>5. \A b \in Addr : refType[b] # "NONE" => refType'[b] # "NONE"
  BY <1>1, <1>2, <1>3, MarkedType
<1>6. Explored \subseteq Explored'
  BY <1>3, <1>5 DEF Explored
<1>7. Unscanned \subseteq Unscanned'
  BY <1>1, <1>2, <1>3, FoundType, ToSetConcat DEF Unscanned
<1>. QED
  BY <1>4, <1>6, <1>7, ScanStepExplores

LEMMA ScanDoneFinishes ==
  ASSUME ForthInv, ScanDone
  PROVE  E!Finish
<1>1. ~ScanComplete /\ ScanComplete'
  BY DEF ScanDone, ScanComplete
<1>2. Unscanned = {}
  BY ToSetEmpty DEF ScanDone, Unscanned, ForthInv, DecompilerTypeOK
<1>3. Unscanned' = Unscanned /\ Explored' = Explored
  BY DEF ScanDone, scanVars, Unscanned, Explored
<1>. QED
  BY <1>1, <1>2, <1>3 DEF E!Finish

\* Before and after the scan, and when it fails, nothing is explored.
LEMMA OtherStepsStutter ==
  ASSUME ForthInv,
         \/ OpenFiles \/ BadLabelsFile \/ ScanFails \/ RefsOverrun
         \/ LabelDo \/ LabelLoop \/ LabelBranch \/ LabelFails \/ LabelDone
         \/ WriteCell \/ WriteFails \/ WriteDone \/ UNCHANGED decompileVars
  PROVE  UNCHANGED E!vars
<1>1. UNCHANGED scanVars
  BY DEF OpenFiles, BadLabelsFile, ScanFails, RefsOverrun, LabelDo, LabelLoop, LabelBranch,
         LabelFails, LabelDone, WriteCell, WriteFails, WriteDone, Fail, LabelMoves,
         decompileVars, scanVars
<1>2. Unscanned' = Unscanned /\ Explored' = Explored
  BY <1>1 DEF scanVars, Unscanned, Explored
<1>3. Unscanned = {} <=> old = <<>> /\ new = <<>>
  BY ToSetEmpty DEF Unscanned, ForthInv, DecompilerTypeOK
<1>4. ScanComplete' = ScanComplete
  <2>1. CASE OpenFiles \/ BadLabelsFile
    BY <1>1, <1>2, <1>3, <2>1
       DEF OpenFiles, BadLabelsFile, Fail, ScanComplete, ForthInv, Ordered, scanVars
  <2>2. CASE ScanFails \/ RefsOverrun
    BY <1>1, <2>2 DEF ScanFails, RefsOverrun, Fail, ScanComplete, scanVars
  <2>3. CASE LabelFails \/ WriteFails
    <3>1. phase \in {"label", "write"}
      BY <2>3 DEF LabelFails, WriteFails, LabelCells, WriteCells
    <3>. QED
      BY <1>1, <1>2, <1>3, <2>3, <3>1
         DEF LabelFails, WriteFails, Fail, ScanComplete, ForthInv, Ordered, scanVars
  <2>4. CASE LabelDo \/ LabelLoop \/ LabelBranch \/ LabelDone
    BY <1>2, <2>4 DEF LabelDo, LabelLoop, LabelBranch, LabelDone, LabelMoves, LabelCells,
                      ScanComplete
  <2>5. CASE WriteCell \/ WriteDone
    BY <1>2, <2>5 DEF WriteCell, WriteDone, WriteCells, ScanComplete
  <2>6. CASE UNCHANGED decompileVars
    BY <1>2, <2>6 DEF decompileVars, ScanComplete
  <2>. QED
    BY <2>1, <2>2, <2>3, <2>4, <2>5, <2>6
<1>. QED
  BY <1>2, <1>4 DEF E!vars

LEMMA ExplorerNext ==
  ASSUME ForthInv, ForthInv', [DecompileNext]_decompileVars
  PROVE  [E!Next]_(E!vars)
<1>1. CASE NextRound \/ AlreadyScanned \/ StartScan
  BY <1>1, RoundExplores DEF E!Next
<1>2. CASE ScanCell
  BY <1>2, ScanCellExplores DEF E!Next
<1>3. CASE ScanDone
  BY <1>3, ScanDoneFinishes DEF E!Next
<1>. QED
  BY <1>1, <1>2, <1>3, OtherStepsStutter DEF DecompileNext, Decompiles

\* decompileLoop and scanDefinition keep what Explorer promises: a reference,
\* once found, stays in one of the two buffers until it has been scanned, and
\* labelling begins only when none is left.
THEOREM ForthRefinesExplorer ==
  ASSUME NEW dump \in [Addr -> Byte], NEW start \in Addr, NEW lines,
         \A line \in lines : line.label \in Label
  PROVE  DecompileSpec(dump, start, lines) => ScanExplores
<1>1. DecompileInit(dump, start, lines) => E!Init
  BY ExplorerInit
<1>2. ForthInv /\ ForthInv' /\ [DecompileNext]_decompileVars => [E!Next]_(E!vars)
  BY ExplorerNext
<1>3. DecompileSpec(dump, start, lines) => E!Init /\ [][E!Next]_(E!vars)
  BY <1>1, <1>2, ForthInvariant, PTL DEF DecompileSpec
<1>. QED
  BY <1>3 DEF ScanExplores, E!Spec

-----------------------------------------------------------------------------
(***************************************************************************)
(* What the scan has found it has visited or still remembers.              *)
(***************************************************************************)
Places == Unscanned \cup Explored

Followed ==
  \A a \in Addr :
    /\ refType[a] \in Branches => BranchTarget(a + 2) \in Places
    /\ refType[a] \in Refs =>
         /\ Readable(a) /\ Readable(Word(a))
         /\ refType[Word(Word(a))] = "NONE" => Word(a) \in Places

LEMMA PlacesKept ==
  ASSUME ForthInv, ForthInv', [DecompileNext]_decompileVars
  PROVE  Places \subseteq Places'
<1>1. E!Explore \/ E!Finish \/ UNCHANGED E!vars
  BY ExplorerNext DEF E!Next
<1>. QED
  BY <1>1 DEF E!Explore, E!Finish, E!vars, Places

LEMMA FollowedInit ==
  ASSUME NEW dump \in [Addr -> Byte], NEW start \in Addr, NEW lines
  PROVE  DecompileInit(dump, start, lines) => Followed
BY DEF DecompileInit, Followed, Branches, Refs

\* A cell that refers to a definition, and its definition, can be read.
LEMMA RefReadable ==
  ASSUME NEW a \in Addr, CanResolve(a), TypeOf(resolveRef(Word(a))) \in Refs
  PROVE  Readable(a) /\ Readable(Word(a))
<1>1. CASE Word(a) \in DOMAIN Native
  <2>1. Native[Word(a)] \in NativeKinds /\ TypeOf(Native[Word(a)]) \in Refs
    BY <1>1, NativeType DEF resolveRef
  <2>2. Native[Word(a)] = "STRING"
    BY <2>1 DEF TypeOf, NativeKinds, Defs, Branches, Refs
  <2>3. \A n \in DOMAIN Native : Native[n] = "STRING" => n <= RAM_SIZE - 2
    BY DecompilerAssumption DEF DecompilerAssumption
  <2>. QED
    BY <1>1, <2>2, <2>3 DEF CanResolve, Readable
<1>2. CASE Word(a) \notin DOMAIN Native
  BY <1>2 DEF CanResolve
<1>. QED
  BY <1>1, <1>2

LEMMA FollowedNext ==
  ASSUME ForthInv, ForthInv', Followed, [DecompileNext]_decompileVars
  PROVE  Followed'
<1>1. Places \subseteq Places'
  BY PlacesKept
<1>2. CASE UNCHANGED <<ram, refType>>
  BY <1>1, <1>2 DEF Followed, BranchTarget, Offset, Word, Readable
<1>3. CASE ScanCell
  <2> DEFINE kind == resolveRef(Word(ip))
  <2>1. kind \in Kinds
    BY ResolveKind
  <2>2. ip \in Addr /\ Readable(ip) /\ CanResolve(ip) /\ ram \in [Addr -> Byte]
        /\ refType \in [Addr -> RefType] /\ new \in Seq(Addr)
    BY <1>3, RamSizeType DEF ScanCell, CanResolve, Readable, ForthInv, DecompilerTypeOK, NoPtr, Addr
  <2>3. ~BadData(ip, kind) /\ refType' = Marked(ip, kind) /\ new' = new \o Found(ip, kind)
        /\ ram' = ram
    BY <1>3 DEF ScanCell
  <2>4. TypeOf(kind) \in Refs => Readable(ip) /\ Readable(Word(ip))
    BY <2>2, RefReadable
  <2>. HIDE DEF kind
  <2>5. /\ \A b \in Addr : refType[b] # "NONE" => refType'[b] # "NONE"
        /\ refType'[ip] # "NONE"
        /\ \A b \in Addr : refType'[b] \in Branches =>
             refType[b] \in Branches \/ (b = ip /\ kind \in Branches)
        /\ \A b \in Addr : refType'[b] \in Refs =>
             refType[b] \in Refs \/ (b = ip /\ TypeOf(kind) \in Refs)
    BY <2>1, <2>2, <2>3, MarkedType
  <2>6. ToSet(Found(ip, kind)) \subseteq Places'
    BY <2>1, <2>2, <2>3, FoundType, ToSetConcat DEF Places, Unscanned
  <2>7. ASSUME NEW x PROVE x \in ToSet(<<x>>)
    BY DEF ToSet
  <2>8. ASSUME NEW b \in Addr, refType'[b] \in Branches
        PROVE  BranchTarget(b + 2) \in Places'
    <3>1. CASE refType[b] \in Branches
      BY <1>1, <3>1 DEF Followed
    <3>2. CASE b = ip /\ kind \in Branches
      <4>1. TypeOf(kind) \notin Refs
        BY <3>2 DEF TypeOf, Branches, Refs
      <4>2. Found(ip, kind) = <<BranchTarget(ip + 2)>>
        BY <3>2, <4>1, Zenon DEF Found
      <4>. QED
        BY <2>6, <2>7, <3>2, <4>2
    <3>. QED
      BY <2>5, <2>8, <3>1, <3>2
  <2>9. ASSUME NEW b \in Addr, refType'[b] \in Refs
        PROVE  /\ Readable(b) /\ Readable(Word(b))
               /\ refType'[Word(Word(b))] = "NONE" => Word(b) \in Places'
    <3>1. CASE refType[b] \in Refs
      <4>1. Readable(b) /\ Readable(Word(b))
            /\ (refType[Word(Word(b))] = "NONE" => Word(b) \in Places)
        BY <3>1 DEF Followed
      <4>2. Word(b) \in Addr
        BY <2>2, <4>1, WordIsAddr
      <4>3. Word(Word(b)) \in Addr
        BY <2>2, <4>1, <4>2, WordIsAddr
      <4>. QED
        BY <1>1, <2>5, <4>1, <4>3
    <3>2. CASE b = ip /\ TypeOf(kind) \in Refs
      <4>1. Readable(b) /\ Readable(Word(b))
        BY <2>4, <3>2
      <4>2. Word(b) \in Addr
        BY <2>2, <4>1, WordIsAddr
      <4>3. Word(Word(b)) \in Addr
        BY <2>2, <4>1, <4>2, WordIsAddr
      <4>4. kind \notin Branches
        BY <3>2 DEF TypeOf, Branches, Refs
      <4>5. Found(ip, kind) = IF Word(Word(ip)) # ip /\ refType[Word(Word(ip))] = "NONE"
                              THEN <<Word(ip)>> ELSE <<>>
        BY <3>2, <4>4, Zenon DEF Found
      <4>6. ASSUME refType'[Word(Word(b))] = "NONE" PROVE Word(b) \in Places'
        <5>1. Word(Word(ip)) # ip /\ refType[Word(Word(ip))] = "NONE"
          BY <2>5, <3>2, <4>3, <4>6
        <5>2. Found(ip, kind) = <<Word(ip)>>
          BY <4>5, <5>1
        <5>. QED
          BY <2>6, <2>7, <3>2, <5>2
      <4>. QED
        BY <4>1, <4>6
    <3>. QED
      BY <2>5, <2>9, <3>1, <3>2
  <2>. QED
    BY <2>3, <2>8, <2>9 DEF Followed, BranchTarget, Offset, Word, Readable
<1>4. ScanCell \/ UNCHANGED <<ram, refType>>
  BY DEF DecompileNext, Decompiles, OpenFiles, BadLabelsFile, NextRound, AlreadyScanned, StartScan,
         ScanFails, RefsOverrun, ScanDone, LabelDo, LabelLoop, LabelBranch,
         LabelFails, LabelDone, WriteCell, WriteFails, WriteDone, Fail, LabelMoves,
         decompileVars, scanVars
<1>. QED
  BY <1>2, <1>3, <1>4

LEMMA FollowedInvariant ==
  ASSUME NEW dump \in [Addr -> Byte], NEW start \in Addr, NEW lines,
         \A line \in lines : line.label \in Label
  PROVE  DecompileSpec(dump, start, lines) => [](ForthInv /\ Followed)
<1>1. DecompileInit(dump, start, lines) => Followed
  BY FollowedInit
<1>2. ForthInv /\ ForthInv' /\ Followed /\ [DecompileNext]_decompileVars => Followed'
  BY FollowedNext
<1>. QED
  BY <1>1, <1>2, ForthInvariant, PTL DEF DecompileSpec

\* Labelling and the listing find every branch target and every definition
\* scanned, although decompileLoop forgets its references round by round.
THEOREM ReferencesFollowedAlways ==
  ASSUME NEW dump \in [Addr -> Byte], NEW start \in Addr, NEW lines,
         \A line \in lines : line.label \in Label
  PROVE  DecompileSpec(dump, start, lines) => []ReferencesFollowed
<1>1. ForthInv /\ Followed => ReferencesFollowed
  <2> SUFFICES ASSUME ForthInv, Followed, phase \in {"label", "write", "done"}
               PROVE  \A a \in Addr :
                        /\ refType[a] \in Branches => refType[BranchTarget(a + 2)] # "NONE"
                        /\ refType[a] \in Refs /\ refType[Word(Word(a))] = "NONE" =>
                             refType[Word(a)] # "NONE"
    BY DEF ReferencesFollowed
  <2>1. ip = NoPtr /\ old = <<>> /\ new = <<>>
    BY DEF ForthInv, Ordered
  <2>2. Unscanned = {}
    BY <2>1, ToSetEmpty DEF Unscanned, ForthInv, DecompilerTypeOK
  <2>3. \A a \in scanned : refType[a] # "NONE"
    <3>1. NoPtr \notin Addr
      BY DEF NoPtr, Addr
    <3>. QED
      BY <2>1, <3>1 DEF ForthInv, ScannedIsTyped, DecompilerTypeOK
  <2>4. \A x \in Places : refType[x] # "NONE"
    BY <2>2, <2>3 DEF Places, Explored
  <2>. QED
    BY <2>4 DEF Followed
<1>. QED
  BY <1>1, FollowedInvariant, PTL

-----------------------------------------------------------------------------
(***************************************************************************)
(* The listing passes by no definition but those of PassedBy.              *)
(***************************************************************************)
LEMMA LeastNat ==
  ASSUME NEW T, T \subseteq Nat, T # {}
  PROVE  \E x \in T : \A y \in T : x <= y
<1>1. PICK x \in T : \A y \in T : ~(<<y, x>> \in OpToRel(<, Nat))
  <2>. DEFINE R == OpToRel(<, Nat)
  <2>1. IsWellFoundedOn(R, Nat)
    BY NatLessThanWellFounded
  <2>. HIDE DEF R
  <2>2. \E x \in T : \A y \in T : ~(<<y, x>> \in R)
    BY <2>1, WFMin
  <2>. QED
    BY <2>2 DEF R
<1>2. ASSUME NEW y \in T PROVE x <= y
  <2>1. ~(y < x)
    BY <1>1 DEF OpToRel
  <2>. QED
    BY <2>1
<1>. QED
  BY <1>2

\* When no cell comes first there is none.
LEMMA NoFirstCell ==
  ASSUME NEW S, NEW p \in Nat, NEW limit \in Nat, FirstCell(S, p, limit) = {}
  PROVE  \A a \in p .. limit - 1 : refType[a] \notin S
<1> DEFINE T == {a \in p .. limit - 1 : refType[a] \in S}
<1>1. SUFFICES ASSUME T # {} PROVE FALSE
  OBVIOUS
<1>2. PICK x \in T : \A y \in T : x <= y
  <2>1. T \subseteq Nat
    OBVIOUS
  <2>. HIDE DEF T
  <2>. QED
    BY <1>1, <2>1, LeastNat
<1>3. x \in p .. limit - 1 /\ refType[x] \in S
  OBVIOUS
<1>4. ASSUME NEW b \in p .. x - 1 PROVE refType[b] \notin S
  BY <1>2, <1>3
<1>5. x \in FirstCell(S, p, limit)
  BY <1>3, <1>4 DEF FirstCell
<1>. QED
  BY <1>5

\* What the listing has come past has been written.
WrittenSoFar ==
  phase \in {"write", "done"} =>
    \A a \in Addr :
      /\ a < pos \/ phase = "done"
      /\ refType[a] \in Defs /\ ~PassedBy(a) /\ labels[a] \notin {NoLabel, ""}
      => Line(a, labels[a]) \in file

LEMMA SkippedInData ==
  ASSUME ForthInv, NEW c \in Addr
  PROVE  Skipped(c) \in Nat /\ (Skipped(c) # 0 => refType[c] \in Data)
<1>1. ram[c] \in Nat
  BY RadixType DEF ForthInv, DecompilerTypeOK, Byte
<1>. QED
  BY <1>1 DEF Skipped, Data

LEMMA WriteCellWrites ==
  ASSUME ForthInv, WrittenSoFar, WriteCell
  PROVE  WrittenSoFar'
<1>1. PICK c \in WriteCells :
        /\ file' = IF refType[c] \in Defs /\ getLabel(c) # ""
                   THEN file \cup {Line(c, getLabel(c))} ELSE file
        /\ pos' = c + 1 + Skipped(c)
        /\ UNCHANGED <<ram, scanVars, doStack, labels, phase>>
  BY DEF WriteCell
<1>2. c \in Addr /\ pos \in Nat
  BY CellsType DEF ForthInv, DecompilerTypeOK
<1>3. phase = "write" /\ c \in FirstCell(Listed, pos, RAM_SIZE - 2)
  BY DEF WriteCells
<1>4. c >= pos /\ \A b \in pos .. c - 1 : refType[b] \notin Listed
  BY <1>2, <1>3, RamSizeType DEF FirstCell
<1>5. UNCHANGED <<ram, refType, labels, phase>> /\ file \subseteq file'
  BY <1>1 DEF scanVars
<1>6. pos' = c + 1 + Skipped(c)
  BY <1>1, Zenon
<1>7. ASSUME NEW a \in Addr, a < pos', refType[a] \in Defs, ~PassedBy(a),
             labels[a] \notin {NoLabel, ""}
      PROVE  Line(a, labels[a]) \in file'
  <2>1. a \in Nat /\ c \in Nat
    BY <1>2, RamSizeType DEF Addr
  <2>2. CASE a < pos
    BY <1>3, <1>5, <1>7, <2>2 DEF WrittenSoFar
  <2>3. CASE a \in pos .. c - 1
    <3>1. refType[a] \in Listed
      BY <1>7 DEF Listed, RefType, NativeKinds, Defs
    <3>. QED
      BY <1>4, <2>3, <3>1
  <2>4. CASE a = c
    <3>1. getLabel(c) = labels[c] /\ labels[c] # ""
      BY <1>7, <2>4 DEF getLabel
    <3>. QED
      BY <1>1, <1>7, <2>4, <3>1
  <2>5. CASE a > c
    <3>1. Skipped(c) \in Nat /\ (Skipped(c) # 0 => refType[c] \in Data)
      BY <1>2, SkippedInData
    <3>2. a < c + 1 + Skipped(c)
      BY <1>6, <1>7
    <3>3. a <= c + Skipped(c) /\ Skipped(c) # 0
      BY <2>1, <2>5, <3>1, <3>2
    <3>4. PassedBy(a)
      BY <1>2, <2>1, <2>5, <3>1, <3>3 DEF PassedBy
    <3>. QED
      BY <1>7, <3>4
  <2>. QED
    BY <1>2, <1>4, <2>1, <2>2, <2>3, <2>4, <2>5
<1>8. \A a \in Addr : PassedBy(a)' = PassedBy(a)
  BY <1>5 DEF PassedBy, Skipped
<1>. QED
  BY <1>3, <1>5, <1>7, <1>8 DEF WrittenSoFar

LEMMA WriteDoneWrites ==
  ASSUME ForthInv, WrittenSoFar, WriteDone
  PROVE  WrittenSoFar'
<1>1. phase = "write" /\ UNCHANGED <<ram, refType, labels, file>>
  BY DEF WriteDone, scanVars
<1>2. FirstCell(Listed, pos, RAM_SIZE - 2) = {} /\ pos \in Nat /\ RAM_SIZE - 2 \in Nat
  BY <1>1, RamSizeType DEF WriteDone, WriteCells, ForthInv, DecompilerTypeOK
<1>3. \A a \in pos .. RAM_SIZE - 2 - 1 : refType[a] \notin Listed
  BY <1>2, NoFirstCell
<1>4. ASSUME NEW a \in Addr, refType[a] \in Defs, ~PassedBy(a), labels[a] \notin {NoLabel, ""}
      PROVE  Line(a, labels[a]) \in file
  <2>1. refType[a] \in Listed
    BY <1>4 DEF Listed, RefType, NativeKinds, Defs
  <2>2. ~(a >= RAM_SIZE - 2)
    BY <1>4, Zenon DEF PassedBy
  <2>3. a < pos
    <3>1. a \in Nat
      BY RamSizeType DEF Addr
    <3>. QED
      BY <1>2, <1>3, <2>1, <2>2, <3>1, RamSizeType
  <2>. QED
    BY <1>1, <1>4, <2>3 DEF WrittenSoFar
<1>5. \A a \in Addr : PassedBy(a)' = PassedBy(a)
  BY <1>1 DEF PassedBy, Skipped
<1>. QED
  BY <1>1, <1>4, <1>5 DEF WrittenSoFar

LEMMA WrittenNext ==
  ASSUME ForthInv, WrittenSoFar, [DecompileNext]_decompileVars
  PROVE  WrittenSoFar'
<1>1. CASE LabelDone
  <2>1. pos' = 0 /\ phase' = "write"
    BY <1>1 DEF LabelDone
  <2>2. \A a \in Addr : ~(a < 0)
    BY RamSizeType DEF Addr
  <2>. QED
    BY <2>1, <2>2, Zenon DEF WrittenSoFar
<1>2. CASE WriteCell
  BY <1>2, WriteCellWrites
<1>3. CASE WriteDone
  BY <1>3, WriteDoneWrites
<1>4. CASE UNCHANGED decompileVars
  <2>1. \A a \in Addr : PassedBy(a)' = PassedBy(a)
    BY <1>4 DEF decompileVars, PassedBy, Skipped
  <2>. QED
    BY <1>4, <2>1 DEF decompileVars, WrittenSoFar
<1>5. CASE phase' \notin {"write", "done"}
  BY <1>5 DEF WrittenSoFar
<1>6. \/ phase' \notin {"write", "done"} \/ LabelDone \/ WriteCell \/ WriteDone
      \/ UNCHANGED decompileVars
  BY DEF DecompileNext, Decompiles, OpenFiles, BadLabelsFile, NextRound, AlreadyScanned, StartScan,
         ScanCell, ScanFails, RefsOverrun, ScanDone, LabelDo, LabelLoop, LabelBranch,
         LabelFails, WriteFails, Fail, LabelMoves, LabelCells
<1>. QED
  BY <1>1, <1>2, <1>3, <1>4, <1>5, <1>6

\* What label has done to the names: none but those of the places a branch
\* leads to, and of the branches themselves, is replaced, by a word of a loop.
Renamed ==
  /\ phase = "scan" => labels = names
  /\ phase \in {"label", "write", "done"} =>
       \A a \in Addr :
         \/ labels[a] = names[a]
         \/ labels[a] \in Words /\ (a \in BranchPlaces \/ refType[a] = "0BRANCH")

LEMMA LabelBranchRenames ==
  ASSUME ForthInv, Renamed, LabelBranch, UNCHANGED names
  PROVE  Renamed'
<1>1. PICK a \in LabelCells :
        /\ refType[a] = "0BRANCH"
        /\ BranchTarget(a + 2) < a + 2 \/ BranchTarget(a + 2) >= 4
        /\ labels' = BranchLabels(a) /\ LabelMoves(a, 3)
  BY DEF LabelBranch
<1> DEFINE to == BranchTarget(a + 2)
           before == to - 4
           beforeTo == BranchTarget(before + 2)
<1>2. a \in Addr /\ labels \in [Addr -> Label] /\ phase = "label"
  BY CellsType DEF ForthInv, DecompilerTypeOK, LabelCells
<1>3. to \in Addr /\ to \in BranchPlaces
  BY <1>1, <1>2 DEF ForthInv, BranchesInRange, Branches, BranchPlaces
<1>4. to >= a + 2 => before \in Addr
  BY <1>1, <1>2, <1>3, RamSizeType DEF Addr
<1>5. to >= a + 2 /\ refType[before] = "BRANCH" => beforeTo \in BranchPlaces
  BY <1>4 DEF BranchPlaces
<1>6. UNCHANGED <<ram, refType, phase>>
  BY <1>1 DEF LabelMoves, scanVars
<1>7. BranchPlaces' = BranchPlaces
  BY <1>6 DEF BranchPlaces, BranchTarget, Offset, Word
<1>8. \A b \in Addr : labels'[b] = labels[b]
        \/ (labels'[b] \in Words /\ (b \in BranchPlaces \/ b = a))
  <2>. HIDE DEF to
  <2>1. {"BEGIN", "UNTIL", "WHILE", "REPEAT", "IF", "ELSE", "ENDIF"} \subseteq Words
    BY DEF Words
  <2>2. CASE to < a + 2
    <3>1. labels' = [labels EXCEPT ![to] = "BEGIN", ![a] = "UNTIL"]
      BY <1>1, <2>2 DEF BranchLabels, to
    <3>. QED
      BY <1>2, <1>3, <2>1, <3>1
  <2>3. CASE ~(to < a + 2) /\ refType[before] # "BRANCH"
    <3>1. labels' = [labels EXCEPT ![a] = "IF", ![to] = "ENDIF"]
      BY <1>1, <2>3 DEF BranchLabels, to
    <3>. QED
      BY <1>2, <1>3, <2>1, <3>1
  <2>4. CASE ~(to < a + 2) /\ refType[before] = "BRANCH"
    <3>1. beforeTo \in BranchPlaces
      BY <1>2, <1>3, <1>5, <2>4, RamSizeType DEF Addr
    <3>2. \/ labels' = [labels EXCEPT ![a] = "BEGIN", ![to] = "WHILE", ![beforeTo] = "REPEAT"]
          \/ labels' = [labels EXCEPT ![a] = "IF", ![to] = "ELSE", ![beforeTo] = "ENDIF"]
      BY <1>1, <2>4 DEF BranchLabels, to
    <3>. HIDE DEF before, beforeTo
    <3>. QED
      BY <1>2, <1>3, <2>1, <3>1, <3>2
  <2>. QED
    BY <2>2, <2>3, <2>4
<1>. QED
  BY <1>1, <1>2, <1>6, <1>7, <1>8 DEF Renamed

LEMMA RenamedNext ==
  ASSUME ForthInv, Renamed, [DecompileNext]_decompileVars
  PROVE  Renamed'
<1>1. CASE OpenFiles /\ names' = labels'
  BY <1>1 DEF OpenFiles, Renamed
<1>2. CASE LabelBranch /\ UNCHANGED names
  BY <1>2, LabelBranchRenames
<1>3. CASE phase' \in {"open", "failed", "overrun"}
  BY <1>3 DEF Renamed
<1>4. CASE phase = "scan" /\ phase' \in {"scan", "label"} /\ UNCHANGED <<labels, names>>
  BY <1>4 DEF Renamed
<1>5. CASE /\ phase \in {"label", "write", "done"} /\ phase' \in {"label", "write", "done"}
           /\ UNCHANGED <<ram, refType, labels, names>>
  <2>1. BranchPlaces' = BranchPlaces
    BY <1>5 DEF BranchPlaces, BranchTarget, Offset, Word
  <2>. QED
    BY <1>5, <2>1 DEF Renamed
<1>6. CASE Decompiles /\ UNCHANGED names /\ ~LabelBranch
  <2>1. \/ phase' \in {"open", "failed", "overrun"}
        \/ phase = "scan" /\ phase' \in {"scan", "label"} /\ UNCHANGED labels
        \/ /\ phase \in {"label", "write", "done"} /\ phase' \in {"label", "write", "done"}
           /\ UNCHANGED <<ram, refType, labels>>
    BY <1>6 DEF Decompiles, BadLabelsFile, NextRound, AlreadyScanned, StartScan, ScanCell,
         ScanFails, RefsOverrun, ScanDone, LabelDo, LabelLoop, LabelFails, LabelDone,
         WriteCell, WriteFails, WriteDone, Fail, LabelMoves, LabelCells, WriteCells, scanVars
  <2>. QED
    BY <1>3, <1>4, <1>5, <1>6, <2>1
<1>7. CASE UNCHANGED decompileVars
  <2>1. BranchPlaces' = BranchPlaces
    BY <1>7 DEF decompileVars, BranchPlaces, BranchTarget, Offset, Word
  <2>. QED
    BY <1>7, <2>1 DEF decompileVars, Renamed
<1>. QED
  BY <1>1, <1>2, <1>6, <1>7 DEF DecompileNext, Decompiles

\* A successful run writes the labels file that openFiles has emptied anew: the
\* name read for a definition that writeOutput lists is in it again, or, where a
\* branch leads to, the word that label has put in its place.
THEOREM LabelsWrittenAlways ==
  ASSUME NEW dump \in [Addr -> Byte], NEW start \in Addr, NEW lines,
         \A line \in lines : line.label \in Label
  PROVE  DecompileSpec(dump, start, lines) => []LabelsWritten
<1>1. DecompileInit(dump, start, lines) => WrittenSoFar
  BY DEF DecompileInit, WrittenSoFar
<1>2. ForthInv /\ WrittenSoFar /\ [DecompileNext]_decompileVars => WrittenSoFar'
  BY WrittenNext
<1>3. WrittenSoFar /\ Renamed => LabelsWritten
  <2> SUFFICES ASSUME WrittenSoFar, Renamed, phase = "done",
                      NEW a \in Addr, refType[a] \in Defs, ~PassedBy(a),
                      names[a] \notin {NoLabel, ""}
               PROVE  \/ Line(a, names[a]) \in file
                      \/ a \in BranchPlaces /\ \E w \in Words : Line(a, w) \in file
    BY DEF LabelsWritten
  <2>1. labels[a] \notin {NoLabel, ""} => Line(a, labels[a]) \in file
    BY DEF WrittenSoFar
  <2>2. "0BRANCH" \notin Defs
    BY DEF Defs
  <2>3. labels[a] = names[a] \/ (labels[a] \in Words /\ a \in BranchPlaces)
    BY <2>2 DEF Renamed
  <2>4. NoLabel \notin Words /\ "" \notin Words
    BY DEF Words, NoLabel
  <2>. QED
    BY <2>1, <2>3, <2>4
<1>4. DecompileInit(dump, start, lines) => Renamed
  BY DEF DecompileInit, Renamed
<1>5. ForthInv /\ Renamed /\ [DecompileNext]_decompileVars => Renamed'
  BY RenamedNext
<1>. QED
  BY <1>1, <1>2, <1>3, <1>4, <1>5, ForthInvariant, PTL DEF DecompileSpec

-----------------------------------------------------------------------------
LEMMA HexDigitValue ==
  ASSUME NEW d \in 0 .. 15
  PROVE  hexValue(hexDigit(d)) = d
<1>1. CASE d < 10
  BY <1>1 DEF hexValue, hexDigit, digit0, letterA
<1>2. CASE d >= 10
  <2>1. hexDigit(d) = 55 + d
    BY <1>2 DEF hexDigit, letterA
  <2>2. 55 + d - 48 \notin 0 .. 9 /\ 55 + d >= 65 /\ ~(55 + d - 65 > 32) /\ 55 + d - 65 <= 5
    BY <1>2
  <2>3. hexValue(55 + d) = 55 + d - 65 + 10
    BY <2>2 DEF hexValue, digit0, letterA
  <2>. QED
    BY <2>1, <2>3
<1>. QED
  BY <1>1, <1>2

\* An address that writeOutput has printed with %04X is one that parseHex
\* accepts and reads back as the same address, on any machine with at most
\* sixteen bits of address.
THEOREM AddressReadBack ==
  ASSUME RAM_SIZE <= 65536, NEW a \in Addr
  PROVE  validHex(hexText(a)) /\ parseHex(hexText(a)) = a
<1>1. a \in Nat /\ a < 65536
  BY RamSizeType DEF Addr
<1> DEFINE q1 == a \div 4096
           q2 == a \div 256
           q3 == a \div 16
           d1 == q1 % 16
           d2 == q2 % 16
           d3 == q3 % 16
           d4 == a % 16
<1>2. d1 \in 0 .. 15 /\ d2 \in 0 .. 15 /\ d3 \in 0 .. 15 /\ d4 \in 0 .. 15
  <2>1. q1 \in Nat /\ q2 \in Nat /\ q3 \in Nat
    BY <1>1
  <2>2. \A q \in Nat : q % 16 \in 0 .. 15
    OBVIOUS
  <2>. QED
    BY <1>1, <2>1, <2>2
<1>3. 4096 * d1 + 256 * d2 + 16 * d3 + d4 = a
  <2>1. a = 16 * q3 + d4 /\ q3 \in Nat
    BY <1>1
  <2>2. q3 = 16 * q2 + d3 /\ q2 \in Nat
    BY <1>1
  <2>3. q2 = 16 * q1 + d2 /\ q1 \in Nat
    BY <1>1
  <2>4. d1 = q1
    BY <1>1
  <2>. HIDE DEF q1, q2, q3, d1, d2, d3, d4
  <2>. QED
    BY <1>2, <2>1, <2>2, <2>3, <2>4
<1>4. hexText(a) = <<hexDigit(d1), hexDigit(d2), hexDigit(d3), hexDigit(d4)>>
  BY DEF hexText
<1>. HIDE DEF d1, d2, d3, d4
<1>5. /\ hexValue(hexText(a)[1]) = d1 /\ hexValue(hexText(a)[2]) = d2
      /\ hexValue(hexText(a)[3]) = d3 /\ hexValue(hexText(a)[4]) = d4
  BY <1>2, <1>4, HexDigitValue
<1>6. \A i \in 1 .. 4 : hexValue(hexText(a)[i]) # -1
  BY <1>2, <1>5
<1>. QED
  BY <1>3, <1>5, <1>6 DEF validHex, parseHex

\* Every step leaves the phase in which the files are opened.
LEMMA OpenIsFirst ==
  ASSUME [DecompileNext]_decompileVars, phase' = "open"
  PROVE  UNCHANGED decompileVars
<1>1. ~(OpenFiles \/ BadLabelsFile \/ NextRound \/ AlreadyScanned \/ StartScan \/ ScanCell
          \/ ScanFails \/ RefsOverrun \/ ScanDone)
  BY DEF OpenFiles, BadLabelsFile, NextRound, AlreadyScanned, StartScan, ScanCell, ScanFails,
         RefsOverrun, ScanDone, Fail
<1>2. ~(LabelDo \/ LabelLoop \/ LabelBranch \/ LabelFails \/ LabelDone)
  BY DEF LabelDo, LabelLoop, LabelBranch, LabelFails, LabelDone, LabelMoves, LabelCells, Fail
<1>3. ~WriteCell
  BY DEF WriteCell, WriteCells
<1>4. ~(WriteFails \/ WriteDone)
  BY DEF WriteFails, WriteDone, Fail
<1>. QED
  BY <1>1, <1>2, <1>3, <1>4 DEF DecompileNext, Decompiles

\* The names a user has given, and those of earlier runs, are found at their
\* addresses again, provided the labels file has one line for an address.
THEOREM LabelsReadBackAlways ==
  ASSUME NEW dump \in [Addr -> Byte], NEW start \in Addr, NEW lines,
         \A line \in lines : line.label \in Label,
         \A l, m \in lines : parseHex(l.addr) = parseHex(m.addr) => l = m,
         RAM_SIZE <= 65536
  PROVE  DecompileSpec(dump, start, lines) => LabelsReadBack
<1> DEFINE Unread == phase = "open" => file = lines
           ReadBack == OpenFiles =>
                         \A a \in Addr, line \in file :
                           line.addr = hexText(a) => labels'[a] = line.label
<1>1. DecompileInit(dump, start, lines) => Unread
  BY DEF DecompileInit
<1>2. Unread /\ [DecompileNext]_decompileVars => Unread'
  <2> SUFFICES ASSUME Unread, [DecompileNext]_decompileVars, phase' = "open" PROVE file' = lines
    OBVIOUS
  <2>1. UNCHANGED decompileVars
    BY OpenIsFirst
  <2>. QED
    BY <2>1 DEF decompileVars
<1>3. Unread => ReadBack
  <2> SUFFICES ASSUME Unread, OpenFiles, NEW a \in Addr, NEW line \in file,
                      line.addr = hexText(a)
               PROVE  labels'[a] = line.label
    OBVIOUS
  <2>1. file = lines
    BY DEF OpenFiles
  <2>2. parseHex(line.addr) = a
    BY AddressReadBack
  <2> DEFINE chosen == CHOOSE l \in file : parseHex(l.addr) = a
  <2>3. labels'[a] = chosen.label
    BY <2>2 DEF OpenFiles
  <2>4. chosen \in file /\ parseHex(chosen.addr) = a
    BY <2>2
  <2>. HIDE DEF chosen
  <2>5. chosen = line
    BY <2>1, <2>2, <2>4
  <2>. QED
    BY <2>3, <2>5
<1>4. Unread /\ [DecompileNext]_decompileVars => [ReadBack]_decompileVars
  BY <1>3
<1>5. DecompileSpec(dump, start, lines) => [][ReadBack]_decompileVars
  <2>. HIDE DEF ReadBack, Unread
  <2>. QED
    BY <1>1, <1>2, <1>4, PTL DEF DecompileSpec
<1>. QED
  BY <1>5 DEF LabelsReadBack
=============================================================================
