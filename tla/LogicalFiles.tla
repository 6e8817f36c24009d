---------------------------- MODULE LogicalFiles ----------------------------
(***************************************************************************)
(* What the KERNAL's file calls promise a program: a partial map from      *)
(* logical file numbers to the device and secondary address the file was   *)
(* opened with.  A number that is open stays with its device until that    *)
(* very file is closed or all files are.  The number that the program      *)
(* speaks of is part of the state: SETLFS, CHKIN and CLOSE set it, OPEN    *)
(* enters it and CLOSE drops no other.                                     *)
(***************************************************************************)
EXTENDS Naturals, FiniteSets, Functions

CONSTANTS Number, Where, Capacity

VARIABLES
  openFiles,  \* where the open files are
  number      \* the current file's number

vars == <<openFiles, number>>

\* The shape of the map: at most Capacity numbers are open.
FilesOK ==
  /\ openFiles \in UNION {[S -> Where] : S \in SUBSET Number}
  /\ Cardinality(DOMAIN openFiles) <= Capacity
  /\ number \in Number

Init == openFiles = [n \in {} |-> 0] /\ number \in Number

Choose(n) == number' = n /\ UNCHANGED openFiles

OpenFile(w) ==
  /\ number \notin DOMAIN openFiles
  /\ Cardinality(DOMAIN openFiles) < Capacity
  /\ openFiles' = [k \in DOMAIN openFiles \cup {number} |->
                     IF k = number THEN w ELSE openFiles[k]]
  /\ UNCHANGED number

CloseFile(n) ==
  /\ n \in DOMAIN openFiles
  /\ openFiles' = Restrict(openFiles, DOMAIN openFiles \ {n})
  /\ number' = n

CloseAll == openFiles' = [n \in {} |-> 0] /\ UNCHANGED number

Next ==
  \/ \E n \in Number : Choose(n) \/ CloseFile(n)
  \/ \E w \in Where : OpenFile(w)
  \/ CloseAll

Spec == Init /\ [][Next]_vars
=============================================================================
