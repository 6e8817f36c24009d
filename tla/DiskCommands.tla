---------------------------- MODULE DiskCommands ----------------------------
(***************************************************************************)
(* The arguments of disk commands, emu6502/emdisk.c: parseDiskCmdArgs      *)
(* turns the text behind a command's name into bytes, by command.          *)
(***************************************************************************)
EXTENDS Integers, Sequences, FiniteSets

CONSTANTS
  UIntSize, \* values of an unsigned (2^32)
  ByteSize, \* values of a byte (256)
  MaxArgs   \* DISK_CMD_MAX_ARG_COUNT (4)

ASSUME CommandsAssumption ==
  UIntSize \in Nat /\ ByteSize \in 1 .. UIntSize /\ MaxArgs \in Nat

\* Characters are bytes.
Space == {32} \cup 9 .. 13
Delimiter == {44, 58}  \* comma and colon
code0 == 48

VARIABLES
  given,    \* the arguments as they were sent, up to the terminating 0
  passed,   \* how many of their characters have been passed by
  argValue, \* the argument that is being read
  args,     \* the arguments found
  form,     \* how the command takes its arguments
  parse     \* which loop runs, or what became of it

commandVars == <<given, passed, argValue, args, form, parse>>

\* Block and user commands; MEMORY-READ and -EXECUTE; POSITION; MEMORY-WRITE;
\* NEW, INITIALIZE, VALIDATE, U9 and UJ; COPY, RENAME and SCRATCH.
Form == {"decimal", "twoBytes", "fourBytes", "block", "none", "names"}

ParseEnded == {"parsed", "invalid", "refused"}

Digit == code0 .. code0 + 9

\* The next character.
Ahead(S) == passed < Len(given) /\ given[passed + 1] \in S

ParseStops(how) == parse' = how /\ UNCHANGED <<given, passed, argValue, args, form>>

-----------------------------------------------------------------------------
(***************************************************************************)
(* parseDecimalArgs.  An argument has a delimiter, spaces, and digits, of  *)
(* which there may be none.                                                *)
(***************************************************************************)
NextArg ==
  /\ parse = "running" /\ form = "decimal"
  /\ Ahead(Delimiter) /\ Len(args) < MaxArgs
  /\ passed' = passed + 1
  /\ argValue' = 0
  /\ parse' = "spaces"
  /\ UNCHANGED <<given, args, form>>

\* No delimiter, or one argument too many.
DecimalInvalid ==
  /\ parse = "running" /\ form = "decimal" /\ passed < Len(given)
  /\ ~Ahead(Delimiter) \/ Len(args) = MaxArgs
  /\ ParseStops("invalid")

SkipSpace ==
  /\ parse = "spaces" /\ Ahead(Space)
  /\ passed' = passed + 1
  /\ UNCHANGED <<given, argValue, args, form, parse>>

\* Wrong: the pointer is not set back to the last space, which skips a character.
SpacesTakeOne ==
  /\ parse = "spaces" /\ ~Ahead(Space)
  /\ passed' = IF passed < Len(given) THEN passed + 1 ELSE passed
  /\ parse' = "digits"
  /\ UNCHANGED <<given, argValue, args, form>>

SpacesDone ==
  /\ parse = "spaces" /\ ~Ahead(Space)
  /\ ParseStops("digits")

\* In unsigned arithmetic.
ReadDigit ==
  /\ parse = "digits" /\ Ahead(Digit)
  /\ passed' = passed + 1
  /\ argValue' = (10 * argValue + given[passed + 1] - code0) % UIntSize
  /\ UNCHANGED <<given, args, form, parse>>

StoreArg ==
  /\ parse = "digits" /\ ~Ahead(Digit)
  /\ argValue < ByteSize
  /\ args' = Append(args, argValue)
  /\ parse' = "running"
  /\ UNCHANGED <<given, passed, argValue, form>>

\* error(): a value that is no byte.
DecimalOutOfRange ==
  /\ parse = "digits" /\ ~Ahead(Digit)
  /\ argValue >= ByteSize
  /\ ParseStops("refused")

\* However many arguments the command needs.
DecimalDone ==
  /\ parse = "running" /\ form = "decimal" /\ passed = Len(given)
  /\ ParseStops("parsed")

-----------------------------------------------------------------------------
(***************************************************************************)
(* The other forms.                                                        *)
(***************************************************************************)
\* The bytes are the arguments.  Their number is the only check.
nArgsExpected == IF form = "twoBytes" THEN 2 ELSE 4

BinaryArgs ==
  /\ parse = "running" /\ form \in {"twoBytes", "fourBytes"}
  /\ \/ Len(given) = nArgsExpected /\ args' = given /\ parse' = "parsed"
     \/ Len(given) # nArgsExpected /\ parse' = "invalid" /\ UNCHANGED args
  /\ UNCHANGED <<given, passed, argValue, form>>

\* An address, the length of the data, and as many bytes of data.
BlockArgs ==
  /\ parse = "running" /\ form = "block"
  /\ IF Len(given) < 3 THEN parse' = "invalid" /\ UNCHANGED args
     ELSE /\ args' = SubSeq(given, 1, 3)
          /\ parse' = IF Len(given) - 3 = given[3] THEN "parsed" ELSE "refused"
  /\ UNCHANGED <<given, passed, argValue, form>>

\* Commands without arguments ignore what follows; those with names are not
\* implemented, which is an error.
OtherArgs ==
  /\ parse = "running" /\ form \in {"none", "names"}
  /\ ParseStops(IF form = "none" THEN "parsed" ELSE "refused")

\* A 0 among the characters would end decimal arguments there.
CommandInit(chars, how) ==
  /\ how = "decimal" => \A i \in DOMAIN chars : chars[i] # 0
  /\ given = chars
  /\ passed = 0 /\ argValue = 0
  /\ args = <<>>
  /\ form = how
  /\ parse = "running"

CommandNext ==
  \/ NextArg \/ SkipSpace \/ SpacesDone \/ ReadDigit \/ StoreArg
  \/ DecimalInvalid \/ DecimalOutOfRange \/ DecimalDone
  \/ BinaryArgs \/ BlockArgs \/ OtherArgs

-----------------------------------------------------------------------------
(***************************************************************************)
(* Correctness.                                                            *)
(***************************************************************************)
\* The places of the delimiters of a text, and those up to a place.
Delimiters(s) == {i \in DOMAIN s : s[i] \in Delimiter}
Before(s, k) == {i \in Delimiters(s) : i <= k}

\* The last places of the arguments.
ArgEnds(s) == {k \in DOMAIN s : k = Len(s) \/ s[k + 1] \in Delimiter}

\* The number that the digits between the last delimiter and a place make.
Sent(s, k) ==
  LET sent[i \in Nat] ==
        IF i \notin DOMAIN s \/ s[i] \in Delimiter THEN 0
        ELSE IF s[i] \in Digit THEN 10 * sent[i - 1] + s[i] - code0
        ELSE sent[i - 1]
  IN  sent[k]

\* Accepted decimal arguments are the numbers that were sent, one for each
\* delimiter, unless a number is too large for the check of its size to tell.
ArgsAsSent ==
  parse = "parsed" /\ form = "decimal" =>
    /\ Len(args) = Cardinality(Delimiters(given))
    /\ \A k \in ArgEnds(given) :
         Sent(given, k) < UIntSize => args[Cardinality(Before(given, k))] = Sent(given, k)
=============================================================================
