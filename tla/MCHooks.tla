------------------------------ MODULE MCHooks ------------------------------
(***************************************************************************)
(* Values for model checking Hooks and EcaLoader: two addresses and three  *)
(* hooks are the least with which hooks of one address can be apart in the *)
(* table; the loader's hooks are at addresses of their own.                *)
(***************************************************************************)
EXTENDS EcaLoader

CONSTANTS a1, a2, p1, p2, p3

AddressSymmetry == Permutations({a1, a2})

LoaderHook(pc, id) == [pc |-> pc, type |-> EXEC, post |-> FALSE, id |-> id]

MCLoaderHooks ==
  <<LoaderHook(p1, READ_INSTR), LoaderHook(p2, CAPTURE_WORDOP), LoaderHook(p3, CAPTURE_BYTEOP)>>
=============================================================================
