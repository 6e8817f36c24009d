-------------------------- MODULE ForthDecompiler --------------------------
(***************************************************************************)
(* The decompiler of emu6502/forth_decompiler.c.  It reads a dump of RAM   *)
(* and the labels of an earlier run, follows the references of the Forth   *)
(* words from a start address (decompileLoop), names the branches (label)  *)
(* and writes the code and the labels file anew (writeOutput).             *)
(***************************************************************************)
EXTENDS Integers, SequencesExt

CONSTANTS
  Radix,       \* values of a byte; a word is two bytes (256 in the program)
  Native,      \* the known code addresses and what the cells naming them are
  RefsCap,     \* entries of the two reference buffers (0x400)
  MaxRepeats,  \* equal cells in a row that make the scan give up (20)
  DoStackSize, \* DO_STACK_SIZE (5)
  UserLabels   \* labels a labels file may hold, the empty one included

RAM_SIZE == Radix * Radix
Byte == 0 .. Radix - 1
Addr == 0 .. RAM_SIZE - 1

Defs == {"COLON_DEF", "VARIABLE_DEF", "CONST_DEF", "USE_DEF"}
Branches == {"BRANCH", "0BRANCH", "LOOP", "+LOOP"}
NativeKinds ==
  Defs \cup Branches \cup {"LIT", "STRING", "EXEC", "SEMICOLON", "DO", "WORD"}

\* The type of a cell that refers to a definition, by the code of the latter.
RefTo == [d \in Defs |->
  CASE d = "COLON_DEF" -> "COLON_REF" [] d = "VARIABLE_DEF" -> "VARIABLE_REF"
    [] d = "CONST_DEF" -> "CONST_REF" [] d = "USE_DEF" -> "USE_REF"]
Refs == {"COLON_REF", "VARIABLE_REF", "CONST_REF", "USE_REF"}

\* The kinds of following data.
Data == {"VAL_LITERAL", "VAL_BRANCH_OFFSET", "VAL_STR_LENPFX", "VAL_VARIABLE"}

\* refType: what a byte of RAM has been found to be.
RefType ==
  {"NONE", "UNKNOWN", "CONT", "CONT_VAR"} \cup Data \cup Refs
    \cup (NativeKinds \ {"STRING"})

Words == {"BEGIN", "UNTIL", "WHILE", "REPEAT", "IF", "ELSE", "ENDIF"}
Generated == "generated"  \* COLON_xxxx and the like, built by getLabel
NoLabel == "none"
Label == Words \cup UserLabels \cup {Generated, NoLabel}

NoPtr == -1

ASSUME DecompilerAssumption ==
  /\ Radix \in Nat \ {0, 1}
  /\ RefsCap \in Nat \ {0} /\ MaxRepeats \in Nat \ {0} /\ DoStackSize \in Nat
  /\ DOMAIN Native \subseteq Addr
  /\ \A a \in DOMAIN Native : Native[a] \in NativeKinds
  /\ \A a \in DOMAIN Native : Native[a] = "STRING" => a <= RAM_SIZE - 2
  /\ "" \in UserLabels
  /\ UserLabels \cap (Words \cup {Generated, NoLabel}) = {}

VARIABLES
  ram,       \* the dump
  refType,   \* what each byte is, "NONE" until the scan has met it
  scanned,   \* addresses with TF_SCANNED (the other target flags are only written)
  old, new,  \* what is left of this round's references, and those of the next
  ip,        \* the cell about to be scanned, NoPtr between two definitions
  repeat,    \* the type of the last cells in a row, and how many follow the first
  pos,       \* the place label or writeOutput has reached
  doStack,   \* (DO)s whose (LOOP) label has not met yet
  labels,    \* label of each address
  file,      \* the labels file: lines of an address in hexadecimal and a label
  phase,     \* what the program is doing, or how it ended
  names      \* history: the labels as openFiles has read them

decompileVars ==
  <<ram, refType, scanned, old, new, ip, repeat, pos, doStack, labels, file, phase, names>>

scanVars == <<refType, scanned, old, new, ip, repeat>>

Ended == {"done", "failed", "overrun"}

-----------------------------------------------------------------------------
(***************************************************************************)
(* Reading RAM.  readWord fails on the last byte.                          *)
(***************************************************************************)
Readable(a) == a <= RAM_SIZE - 2

Word(a) == ram[a] + Radix * ram[a + 1]

\* The word as a signed number.
Offset(a) == IF Word(a) * 2 < RAM_SIZE THEN Word(a) ELSE Word(a) - RAM_SIZE

BranchTarget(a) == a + Offset(a)

NativeAt(a) == IF a \in DOMAIN Native THEN Native[a] ELSE "NONE"

\* What a cell that holds ref is: native code, or a reference to a definition.
resolveIndirect(ref) ==
  LET kind == NativeAt(Word(ref))
  IN  IF kind \in Defs THEN RefTo[kind] ELSE "UNKNOWN"

resolveRef(ref) ==
  IF ref \in DOMAIN Native THEN Native[ref] ELSE resolveIndirect(ref)

CanResolve(a) ==
  Readable(a) /\ (Word(a) \in DOMAIN Native \/ Readable(Word(a)))

\* The word that prints a string is a colon definition.
TypeOf(kind) == IF kind = "STRING" THEN "COLON_REF" ELSE kind

\* The data that follows a cell.
Following(kind) ==
  CASE kind = "STRING" -> "VAL_STR_LENPFX"
    [] kind \in Branches -> "VAL_BRANCH_OFFSET"
    [] kind \in {"LIT", "CONST_DEF", "USE_DEF"} -> "VAL_LITERAL"
    [] kind = "VARIABLE_DEF" -> "VAL_VARIABLE"
    [] OTHER -> "NONE"

\* Bytes of the data at p.  A length that would lie beyond RAM does not matter:
\* the next cell fails.
DataLen(kind, p) ==
  CASE kind = "STRING" -> IF p \in Addr THEN 1 + ram[p] ELSE 1
    [] Following(kind) = "NONE" -> 0
    [] OTHER -> 2

\* What a byte of the data that follows a cell is noted as.
DataMark(kind, first, b) ==
  IF first \/ kind = "STRING" THEN Following(kind)
  ELSE IF kind # "VARIABLE_DEF" THEN "CONT"
  ELSE IF refType[b] = "NONE" THEN "CONT_VAR" ELSE refType[b]

\* Wrong: a cell of unknown code is left as it was.
MarkedIfKnown(a, kind) ==
  LET p == a + 2
      data == p .. p + DataLen(kind, p) - 1
      cell == IF kind = "UNKNOWN" THEN refType
              ELSE [refType EXCEPT ![a] = TypeOf(kind), ![a + 1] = "CONT"]
  IN  [b \in Addr |-> IF b \in data THEN DataMark(kind, b = p, b) ELSE cell[b]]

\* The table after a cell at a of this kind has been processed.  What is
\* written behind the table lands in flags that nobody reads.
Marked(a, kind) ==
  LET p == a + 2
      data == p .. p + DataLen(kind, p) - 1
      cell == IF kind = "UNKNOWN" THEN [refType EXCEPT ![a] = "UNKNOWN"]
              ELSE [refType EXCEPT ![a] = TypeOf(kind), ![a + 1] = "CONT"]
  IN  [b \in Addr |-> IF b \in data THEN DataMark(kind, b = p, b) ELSE cell[b]]

\* Wrong: references to USE words are not followed.
FoundButUse(a, kind) ==
  CASE TypeOf(kind) \in Refs \ {"USE_REF"} ->
         IF Word(Word(a)) # a /\ refType[Word(Word(a))] = "NONE"
         THEN <<Word(a)>> ELSE <<>>
    [] kind \in Branches -> <<BranchTarget(a + 2)>>
    [] OTHER -> <<>>

\* References the cell adds.  A definition is added unless what its code field
\* holds has been scanned: the address tested is not the one added.
Found(a, kind) ==
  CASE TypeOf(kind) \in Refs ->
         IF Word(Word(a)) # a /\ refType[Word(Word(a))] = "NONE"
         THEN <<Word(a)>> ELSE <<>>
    [] kind \in Branches -> <<BranchTarget(a + 2)>>
    [] OTHER -> <<>>

\* Wrong: a branch is checked against the end of RAM only.
BadDataAboveOnly(a, kind) ==
  \/ /\ kind \in Branches
     /\ ~Readable(a + 2) \/ BranchTarget(a + 2) >= RAM_SIZE
  \/ /\ Following(kind) = "VAL_LITERAL"
     /\ a + 3 \in Addr /\ refType[a + 3] # "NONE"

\* processRef gives up on a branch out of RAM and on a value whose second byte
\* is taken.
BadData(a, kind) ==
  \/ /\ kind \in Branches
     /\ ~Readable(a + 2) \/ BranchTarget(a + 2) \notin Addr
  \/ /\ Following(kind) = "VAL_LITERAL"
     /\ a + 3 \in Addr /\ refType[a + 3] # "NONE"

\* Nothing follows these: the instruction pointer never gets there.
LastCell(kind) == kind \in {"UNKNOWN", "VARIABLE_DEF", "CONST_DEF", "USE_DEF"}

Repeated(kind) ==
  IF TypeOf(kind) = repeat.type THEN [repeat EXCEPT !.count = @ + 1]
  ELSE [type |-> TypeOf(kind), count |-> 0]

\* fail(): the program exits.  What it has written to the files stays.
Fail ==
  /\ phase' = "failed"
  /\ UNCHANGED <<ram, scanVars, pos, doStack, labels, file>>

-----------------------------------------------------------------------------
(***************************************************************************)
(* The labels file.  Addresses are written with %04X and read by parseHex, *)
(* which subtracts its way from the digits to the letters.  Characters are *)
(* their codes.                                                            *)
(***************************************************************************)
digit0 == 48
letterA == 65

hexDigit(d) == IF d < 10 THEN digit0 + d ELSE letterA - 10 + d

hexText(a) == <<hexDigit((a \div 4096) % 16), hexDigit((a \div 256) % 16),
                hexDigit((a \div 16) % 16), hexDigit(a % 16)>>

\* Wrong: letters count from zero.
HexValueFromZero(c) == IF c < letterA THEN c - digit0 ELSE c - letterA

\* The value of a digit; a small a is refused, although b to f are not.
hexValue(c) ==
  LET letter == IF c - letterA > 32 THEN (c - letterA) % 32 ELSE c - letterA
  IN  IF c - digit0 \in 0 .. 9 THEN c - digit0
      ELSE IF c >= letterA /\ letter <= 5 THEN letter + 10
      ELSE -1

validHex(text) == \A i \in 1 .. 4 : hexValue(text[i]) # -1

parseHex(text) ==
  4096 * hexValue(text[1]) + 256 * hexValue(text[2])
    + 16 * hexValue(text[3]) + hexValue(text[4])

Line(a, label) == [addr |-> hexText(a), label |-> label]

\* openFiles: the labels are read, and the file is then opened for writing,
\* which empties it.
OpenFiles ==
  /\ phase = "open"
  /\ \A line \in file : validHex(line.addr) /\ parseHex(line.addr) \in Addr
  /\ labels' = [a \in Addr |->
       IF \E line \in file : parseHex(line.addr) = a
       THEN (CHOOSE line \in file : parseHex(line.addr) = a).label
       ELSE NoLabel]
  /\ file' = {}
  /\ phase' = "scan"
  /\ UNCHANGED <<ram, scanVars, pos, doStack>>

\* An address that parseHex refuses.
BadLabelsFile ==
  /\ phase = "open"
  /\ \E line \in file : ~validHex(line.addr)
  /\ Fail

-----------------------------------------------------------------------------
(***************************************************************************)
(* decompileLoop and scanDefinition.                                       *)
(***************************************************************************)
\* The buffers change roles.
NextRound ==
  /\ phase = "scan" /\ ip = NoPtr /\ old = <<>> /\ new # <<>>
  /\ old' = new
  /\ new' = <<>>
  /\ UNCHANGED <<ram, refType, scanned, ip, repeat, pos, doStack, labels, file, phase>>

AlreadyScanned ==
  /\ phase = "scan" /\ ip = NoPtr /\ old # <<>>
  /\ refType[Head(old)] # "NONE"
  /\ old' = Tail(old)
  /\ UNCHANGED <<ram, refType, scanned, new, ip, repeat, pos, doStack, labels, file, phase>>

\* Wrong: a definition is scanned whether or not it has been.
StartAnyScan ==
  /\ phase = "scan" /\ ip = NoPtr /\ old # <<>>
  /\ ip' = Head(old)
  /\ old' = Tail(old)
  /\ scanned' = scanned \cup {Head(old)}
  /\ repeat' = [type |-> "NONE", count |-> 0]
  /\ UNCHANGED <<ram, refType, new, pos, doStack, labels, file, phase>>

\* Wrong: the count of new references is reset with every definition.
StartResetsNew ==
  /\ phase = "scan" /\ ip = NoPtr /\ old # <<>>
  /\ refType[Head(old)] = "NONE"
  /\ ip' = Head(old)
  /\ old' = Tail(old)
  /\ new' = <<>>
  /\ scanned' = scanned \cup {Head(old)}
  /\ repeat' = [type |-> "NONE", count |-> 0]
  /\ UNCHANGED <<ram, refType, pos, doStack, labels, file, phase>>

StartScan ==
  /\ phase = "scan" /\ ip = NoPtr /\ old # <<>>
  /\ refType[Head(old)] = "NONE"
  /\ ip' = Head(old)
  /\ old' = Tail(old)
  /\ scanned' = scanned \cup {Head(old)}
  /\ repeat' = [type |-> "NONE", count |-> 0]
  /\ UNCHANGED <<ram, refType, new, pos, doStack, labels, file, phase>>

\* One turn of scanDefinition's loop.
ScanCell ==
  /\ phase = "scan" /\ ip # NoPtr
  /\ CanResolve(ip)
  /\ LET kind == resolveRef(Word(ip))
         next == ip + 2 + DataLen(kind, ip + 2)
     IN  /\ ~BadData(ip, kind)
         /\ Len(new) + Len(Found(ip, kind)) <= RefsCap
         /\ refType' = Marked(ip, kind)
         /\ new' = new \o Found(ip, kind)
         /\ IF LastCell(kind) THEN ip' = NoPtr /\ UNCHANGED repeat
            ELSE /\ Repeated(kind).count < MaxRepeats
                 /\ repeat' = Repeated(kind)
                 /\ ip' = IF kind = "SEMICOLON" THEN NoPtr ELSE next
  /\ UNCHANGED <<ram, scanned, old, pos, doStack, labels, file, phase>>

\* readWord, processRef or the count of repeats stops the program.  A value at
\* the end of RAM collides or not by what lies behind the table.
ScanFails ==
  /\ phase = "scan" /\ ip # NoPtr
  /\ CanResolve(ip) =>
       LET kind == resolveRef(Word(ip))
       IN  \/ BadData(ip, kind)
           \/ Following(kind) = "VAL_LITERAL" /\ ip + 3 \notin Addr
           \/ ~LastCell(kind) /\ Repeated(kind).count = MaxRepeats
  /\ Fail

\* A reference is stored behind the end of its buffer.
RefsOverrun ==
  /\ phase = "scan" /\ ip # NoPtr
  /\ CanResolve(ip)
  /\ LET kind == resolveRef(Word(ip))
     IN  ~BadData(ip, kind) /\ Len(new) + Len(Found(ip, kind)) > RefsCap
  /\ phase' = "overrun"
  /\ UNCHANGED <<ram, scanVars, pos, doStack, labels, file>>

ScanDone ==
  /\ phase = "scan" /\ ip = NoPtr /\ old = <<>> /\ new = <<>>
  /\ phase' = "label"
  /\ UNCHANGED <<ram, scanVars, pos, doStack, labels, file>>

-----------------------------------------------------------------------------
(***************************************************************************)
(* label: one pass over RAM that pairs loops and names branches.           *)
(***************************************************************************)
\* The first cell from p up to below limit whose type is in S, if there is one.
FirstCell(S, p, limit) ==
  {a \in p .. limit - 1 : refType[a] \in S /\ \A b \in p .. a - 1 : refType[b] \notin S}

Labelled == {"DO", "0BRANCH", "LOOP", "+LOOP"}

\* The cells the pass stops at next.
LabelCells == IF phase = "label" THEN FirstCell(Labelled, pos, RAM_SIZE) ELSE {}

\* The pass goes on behind the cell.
LabelMoves(a, moved) ==
  /\ pos' = a + moved
  /\ UNCHANGED <<ram, scanVars, file, phase>>

LabelDo ==
  \E a \in LabelCells :
    /\ refType[a] = "DO"
    /\ Len(doStack) < DoStackSize
    /\ doStack' = Append(doStack, a)
    /\ UNCHANGED labels
    /\ LabelMoves(a, 1)

\* Only a warning when the (DO) popped is not the one the loop goes back to.
LabelLoop ==
  \E a \in LabelCells :
    /\ refType[a] \in {"LOOP", "+LOOP"}
    /\ BranchTarget(a + 2) >= 2
    /\ doStack # <<>>
    /\ doStack' = Front(doStack)
    /\ UNCHANGED labels
    /\ LabelMoves(a, 1)

\* A branch back ends a loop; a branch forward over a branch is read by where
\* the latter goes.
BranchLabels(a) ==
  LET to == BranchTarget(a + 2)
      before == to - 4
      beforeTo == BranchTarget(before + 2)
  IN  IF to < a + 2 THEN [labels EXCEPT ![to] = "BEGIN", ![a] = "UNTIL"]
      ELSE IF refType[before] # "BRANCH"
      THEN [labels EXCEPT ![a] = "IF", ![to] = "ENDIF"]
      ELSE IF beforeTo < before + 2
      THEN [labels EXCEPT ![a] = "BEGIN", ![to] = "WHILE", ![beforeTo] = "REPEAT"]
      ELSE [labels EXCEPT ![a] = "IF", ![to] = "ELSE", ![beforeTo] = "ENDIF"]

LabelBranch ==
  \E a \in LabelCells :
    /\ refType[a] = "0BRANCH"
    /\ BranchTarget(a + 2) < a + 2 \/ BranchTarget(a + 2) >= 4
    /\ labels' = BranchLabels(a)
    /\ UNCHANGED doStack
    /\ LabelMoves(a, 3)

\* The DO stack is full or empty, or the type is looked up below address 0.
LabelFails ==
  /\ \E a \in LabelCells :
          \/ refType[a] = "DO" /\ Len(doStack) = DoStackSize
          \/ refType[a] \in {"LOOP", "+LOOP"}
               /\ (doStack = <<>> \/ BranchTarget(a + 2) < 2)
          \/ refType[a] = "0BRANCH" /\ BranchTarget(a + 2) \in a + 2 .. 3
  /\ Fail

\* Wrong: the listing begins where the labelling stopped.
LabelDoneThere ==
  /\ phase = "label"
  /\ LabelCells = {}
  /\ phase' = "write"
  /\ UNCHANGED <<ram, scanVars, pos, doStack, labels, file>>

LabelDone ==
  /\ phase = "label"
  /\ LabelCells = {}
  /\ pos' = 0
  /\ phase' = "write"
  /\ UNCHANGED <<ram, scanVars, doStack, labels, file>>

-----------------------------------------------------------------------------
(***************************************************************************)
(* writeOutput: the listing, of which only the lines of the labels file    *)
(* are kept here.  The last two bytes of RAM are not listed.               *)
(***************************************************************************)
Listed == RefType \ {"NONE", "CONT"}

\* The cell that is listed next.
WriteCells == IF phase = "write" THEN FirstCell(Listed, pos, RAM_SIZE - 2) ELSE {}

\* Where getLabel looks for a label: at the cell, then at what it refers to.
Named(a) ==
  IF labels[a] = NoLabel /\ refType[a] \in Refs THEN Word(a) ELSE a

\* getLabel asserts an address and builds a name from the value of a constant.
NoName(a) ==
  \/ a = 0
  \/ /\ refType[a] \in {"CONST_REF", "USE_REF", "CONST_DEF", "USE_DEF"}
     /\ labels[Named(a)] = NoLabel
     /\ ~Readable(Named(a) + 2)

getLabel(a) == IF labels[a] = NoLabel THEN Generated ELSE labels[a]

\* Listed with the byte at a: a string, or the second byte of a variable.
Skipped(a) ==
  CASE refType[a] = "VAL_STR_LENPFX" -> ram[a]
    [] refType[a] = "VAL_VARIABLE" /\ refType[a + 1] = "CONT_VAR" -> 1
    [] OTHER -> 0

WriteCell ==
  \E a \in WriteCells :
    /\ ~NoName(a)
    /\ file' = IF refType[a] \in Defs /\ getLabel(a) # ""
               THEN file \cup {Line(a, getLabel(a))} ELSE file
    /\ pos' = a + 1 + Skipped(a)
    /\ UNCHANGED <<ram, scanVars, doStack, labels, phase>>

WriteFails == (\E a \in WriteCells : NoName(a)) /\ Fail

WriteDone ==
  /\ phase = "write"
  /\ WriteCells = {}
  /\ phase' = "done"
  /\ UNCHANGED <<ram, scanVars, pos, doStack, labels, file>>

-----------------------------------------------------------------------------
\* Run on this dump from this address with this labels file.
DecompileInit(dump, start, lines) ==
  /\ ram = dump
  /\ refType = [a \in Addr |-> "NONE"]
  /\ scanned = {}
  /\ old = <<>> /\ new = <<start>>
  /\ ip = NoPtr
  /\ repeat = [type |-> "NONE", count |-> 0]
  /\ pos = 0
  /\ doStack = <<>>
  /\ labels = [a \in Addr |-> NoLabel]
  /\ file = lines
  /\ phase = "open"
  /\ names = labels

\* What follows once the labels have been read, or could not be.
Decompiles ==
  \/ BadLabelsFile
  \/ NextRound \/ AlreadyScanned \/ StartScan \/ ScanCell \/ ScanFails
  \/ RefsOverrun \/ ScanDone
  \/ LabelDo \/ LabelLoop \/ LabelBranch \/ LabelFails \/ LabelDone
  \/ WriteCell \/ WriteFails \/ WriteDone

DecompileNext ==
  \/ OpenFiles /\ names' = labels'
  \/ Decompiles /\ UNCHANGED names

-----------------------------------------------------------------------------
(***************************************************************************)
(* Correctness.                                                            *)
(***************************************************************************)
Phases == {"open", "scan", "label", "write"} \cup Ended

DecompilerTypeOK ==
  /\ ram \in [Addr -> Byte]
  /\ refType \in [Addr -> RefType]
  /\ scanned \subseteq Addr
  /\ old \in Seq(Addr) /\ new \in Seq(Addr)
  /\ ip \in Nat \cup {NoPtr}
  /\ repeat \in [type : RefType, count : 0 .. MaxRepeats]
  /\ pos \in Nat
  /\ doStack \in Seq(Addr)
  /\ labels \in [Addr -> Label]
  /\ phase \in Phases

\* A definition whose scan has begun is known to have been scanned, even when
\* the scan broke off at once: it is not begun again.
ScannedIsTyped == \A a \in scanned : refType[a] # "NONE" \/ ip = a

\* label and writeOutput do not check where a branch goes ("TODO: Check
\* range"): the scan has, for every branch that label follows and for every
\* offset that writeOutput indexes targetFlags by, also where one of the two is
\* left in the table and data scanned later has overwritten the other.
BranchesInRange ==
  \A a \in Addr :
    /\ refType[a] \in Branches => Readable(a + 2) /\ BranchTarget(a + 2) \in Addr
    /\ refType[a] = "VAL_BRANCH_OFFSET" => Readable(a) /\ BranchTarget(a) \in Addr

\* When the scan is complete, every branch leads to something scanned, and so
\* does every reference to a definition, unless native code was scanned too.
ReferencesFollowed ==
  phase \in {"label", "write", "done"} =>
    \A a \in Addr :
      /\ refType[a] \in Branches => refType[BranchTarget(a + 2)] # "NONE"
      /\ refType[a] \in Refs /\ refType[Word(Word(a))] = "NONE" =>
           refType[Word(a)] # "NONE"

\* A label that an earlier run has written is read back at its address.
LabelsReadBack ==
  [][OpenFiles =>
       \A a \in Addr, line \in file :
         line.addr = hexText(a) => labels'[a] = line.label]_decompileVars

\* Definitions that the listing passes by: the last two bytes, and what lies
\* within a string or a value that is listed as a whole.
PassedBy(a) ==
  a >= RAM_SIZE - 2 \/ \E b \in Addr : b < a /\ refType[b] \in Data /\ a <= b + Skipped(b)

\* Where the branches found lead: the places whose names label may replace.
BranchPlaces ==
  {BranchTarget(b + 2) : b \in {c \in Addr : refType[c] \in {"0BRANCH", "BRANCH"}}}

\* A name that was read for a definition is there for the next run after a
\* successful one that lists the definition, unless a branch leads there: label
\* may have put the word of a loop in the name's place, and then that is there.
LabelsWritten ==
  phase = "done" =>
    \A a \in Addr :
      refType[a] \in Defs /\ ~PassedBy(a) /\ names[a] \notin {NoLabel, ""} =>
        \/ Line(a, names[a]) \in file
        \/ a \in BranchPlaces /\ \E w \in Words : Line(a, w) \in file

\* Nothing found is dropped: the scan explores.
Unscanned == ToSet(old) \cup ToSet(new)
Explored == scanned \cup {a \in Addr : refType[a] # "NONE"}
ScanComplete ==
  \/ phase \in {"label", "write", "done"}
  \/ phase = "failed" /\ ip = NoPtr /\ Unscanned = {}  \* failed after the scan

E == INSTANCE Explorer WITH
       Place <- Addr, todo <- Unscanned, visited <- Explored, finished <- ScanComplete

ScanExplores == E!Spec

\* Claimed by label: BEGIN ... cond WHILE ... REPEAT is compiled to "[begin] ...
\* cond 0BRANCH after ... BRANCH begin [after]".
WhileLoopLabelled ==
  [][LabelBranch =>
       \A a \in LabelCells :
         LET after == BranchTarget(a + 2)
             begin == BranchTarget(after - 2)
         IN  after >= a + 6 /\ refType[after - 4] = "BRANCH" /\ begin < a
             => labels'[a] = "WHILE" /\ labels'[begin] = "BEGIN"]_decompileVars
=============================================================================
