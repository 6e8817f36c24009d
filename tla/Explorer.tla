------------------------------ MODULE Explorer ------------------------------
(***************************************************************************)
(* What a program promises that follows references through data it has not *)
(* seen before.  It remembers every place it has found until it has been   *)
(* there, and it is finished only when no place is left.  How it orders    *)
(* the places is its own affair.                                           *)
(***************************************************************************)
CONSTANT Place

VARIABLES
  todo,     \* places found and not yet visited
  visited,  \* places visited
  finished  \* the program has ended without an error

vars == <<todo, visited, finished>>

Init ==
  /\ todo \subseteq Place
  /\ visited = {}
  /\ finished = FALSE

\* Places are visited and others found, and none is dropped.
Explore ==
  /\ ~finished
  /\ todo' \subseteq Place
  /\ visited' \subseteq Place
  /\ visited \subseteq visited'
  /\ todo \subseteq todo' \cup visited'
  /\ UNCHANGED finished

Finish ==
  /\ ~finished
  /\ todo = {}
  /\ finished' = TRUE
  /\ UNCHANGED <<todo, visited>>

Next == Explore \/ Finish

Spec == Init /\ [][Next]_vars
=============================================================================
