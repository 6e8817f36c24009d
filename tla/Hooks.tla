------------------------------- MODULE Hooks -------------------------------
(***************************************************************************)
(* Execution hooks of emu6502/emmain.c: callbacks registered for an        *)
(* address, sorted and indexed when the interpreter starts, and run before *)
(* the instruction at their address.  registerHook is exported and a       *)
(* callback is handed the machine, so hooks may be added at any time.      *)
(***************************************************************************)
EXTENDS Naturals, SequencesExt

CONSTANTS
  Addresses,  \* addresses of hooks and of instructions
  IDs,        \* hook IDs
  MaxHooks    \* bound on registrations; the table itself grows

\* -1 stands for no address in buildHooksLookupTable.
ASSUME HooksAssumption == MaxHooks \in Nat /\ -1 \notin Addresses

\* HOOKTYPE_EXEC, HOOKTYPE_LOAD, HOOKTYPE_STORE
EXEC == 0
HookType == 0 .. 2

Hook == [pc : Addresses, type : HookType, post : BOOLEAN, id : IDs]

VARIABLES
  hooks,   \* hooks.hooks up to hooks.len
  lookup,  \* hooks.lookup up to hooks.lookupLen
  ready,   \* hooks.ready
  ran,     \* the hooks the last instruction ran
  state    \* "setup" before interp is entered, then "running" until it exits

vars == <<hooks, lookup, ready, ran, state>>

-----------------------------------------------------------------------------
\* compareHooks answers "greater" whenever two hooks differ, so the order qsort
\* leaves is any order.
sortHooks(hs) ==
  {[i \in DOMAIN hs |-> hs[order[i]]] : order \in
     {f \in [DOMAIN hs -> DOMAIN hs] : IsInjective(f)}}

\* Two hooks that compare equal.  Whether the sort compares them is up to it.
Duplicated(hs) == \E i, j \in DOMAIN hs : i # j /\ hs[i] = hs[j]

\* Wrong: the row points one past the hook.
RowPointsPast(h, i) ==
  [pc |-> h.pc,
   t |-> [k \in HookType |-> IF k = h.type THEN [off |-> i, len |-> 1]
                             ELSE [off |-> 0, len |-> 0]]]

\* A row for a new address, with its first hook.
NewRow(h, i) ==
  [pc |-> h.pc,
   t |-> [k \in HookType |-> IF k = h.type THEN [off |-> i - 1, len |-> 1]
                             ELSE [off |-> 0, len |-> 0]]]

\* Wrong: a second type at the address extends its empty range.
ExtendsEmptyRange(hs, acc, i) ==
  LET h == hs[i]
      row == Len(acc.rows)
  IN  IF h.pc # acc.pc THEN
        [rows |-> Append(acc.rows, NewRow(h, i)), pc |-> h.pc, type |-> h.type]
      ELSE [acc EXCEPT !.rows[row].t[h.type].len = @ + 1]

\* One turn of buildHooksLookupTable's loop.  The previous type is noted only
\* when the address changes.
indexHook(hs, acc, i) ==
  LET h == hs[i]
      row == Len(acc.rows)
  IN  IF h.pc # acc.pc THEN
        [rows |-> Append(acc.rows, NewRow(h, i)), pc |-> h.pc, type |-> h.type]
      ELSE IF h.type # acc.type THEN
        [acc EXCEPT !.rows[row].t[h.type] = [off |-> i - 1, len |-> 1]]
      ELSE [acc EXCEPT !.rows[row].t[h.type].len = @ + 1]

\* Before the first hook.
NoRows == [rows |-> <<>>, pc |-> -1, type |-> -1]

\* indexed[n] is the table after the first n hooks.
buildHooksLookupTable(hs) ==
  LET indexed[n \in 0 .. Len(hs)] ==
        IF n = 0 THEN NoRows ELSE indexHook(hs, indexed[n - 1], n)
  IN  indexed[Len(hs)].rows

\* The first row of the address, if any, says where its hooks of a type are.
lookupHooks(pc, type) ==
  LET row == SelectInSeq(lookup, LAMBDA r : r.pc = pc)
      t == lookup[row].t[type]
  IN  IF row = 0 THEN <<>> ELSE SubSeq(hooks, t.off + 1, t.off + t.len)

\* Pre hooks run up to the first post hook.
preHooks(found) ==
  LET stop == SelectInSeq(found, LAMBDA h : h.post)
  IN  IF stop = 0 THEN found ELSE SubSeq(found, 1, stop - 1)

-----------------------------------------------------------------------------
registerHook(h) ==
  /\ state # "stopped"
  /\ Len(hooks) < MaxHooks
  /\ hooks' = Append(hooks, h)
  /\ ready' = FALSE
  /\ UNCHANGED <<lookup, ran, state>>

\* prepareHooks, with which interp begins.
Prepare ==
  /\ state = "setup"
  /\ \E sorted \in sortHooks(hooks) :
       /\ hooks' = sorted
       /\ lookup' = buildHooksLookupTable(sorted)
  /\ ready' = TRUE
  /\ state' = "running"
  /\ UNCHANGED ran

\* compareHooks meets a duplicate and exits.
DuplicateFound ==
  /\ state = "setup"
  /\ Duplicated(hooks)
  /\ state' = "stopped"
  /\ UNCHANGED <<hooks, lookup, ready, ran>>

\* Wrong: a table that is out of date is used all the same.
RunsStaleTable(pc) ==
  /\ state = "running"
  /\ ran' = preHooks(lookupHooks(pc, EXEC))
  /\ UNCHANGED <<hooks, lookup, ready, state>>

\* The instruction at pc, as far as hooks go.
Instruction(pc) ==
  /\ state = "running"
  /\ IF ready THEN ran' = preHooks(lookupHooks(pc, EXEC)) /\ UNCHANGED state
     ELSE state' = "stopped" /\ UNCHANGED ran
  /\ UNCHANGED <<hooks, lookup, ready>>

Init ==
  /\ hooks = <<>>
  /\ lookup = <<>>
  /\ ready = FALSE
  /\ ran = <<>>
  /\ state = "setup"

Next ==
  \/ \E h \in Hook : registerHook(h)
  \/ Prepare
  \/ DuplicateFound
  \/ \E pc \in Addresses : Instruction(pc)

Spec == Init /\ [][Next]_vars

-----------------------------------------------------------------------------
(***************************************************************************)
(* Correctness.                                                            *)
(***************************************************************************)

\* The places of an address's hooks in a sequence of hooks.
At(hs, pc) == {i \in DOMAIN hs : hs[i].pc = pc}

\* Every range of the lookup table lies inside the hooks, although the sort
\* may leave the hooks of one address apart and in any order.
RangesInTable ==
  \A i \in DOMAIN lookup, k \in HookType :
    lookup[i].t[k].off + lookup[i].t[k].len <= Len(hooks)

\* Where an instruction or a hook may be.
PlacesSeen == Addresses \cup {hooks[i].pc : i \in DOMAIN hooks}

\* An instruction runs only hooks of its own address.
NoForeignHook ==
  [][\A pc \in PlacesSeen :
       Instruction(pc) /\ state' = "running" => At(ran', pc) = DOMAIN ran']_vars

\* A hook that has its address to itself is never passed by, even when it was
\* registered after the table was built: the instruction runs it or the
\* interpreter stops.
SoleHookRuns ==
  [][\A pc \in PlacesSeen, k \in DOMAIN hooks :
       /\ Instruction(pc) /\ state' = "running"
       /\ At(hooks, pc) = {k}
       /\ hooks[k].type = EXEC /\ ~hooks[k].post
       => ran' = <<hooks[k]>>]_vars

\* Claimed by interp: "Post hooks sort after pre hooks".
PostHooksSortAfter ==
  ready => \A i, j \in DOMAIN hooks :
             hooks[i].pc = hooks[j].pc /\ hooks[i].type = hooks[j].type
               /\ hooks[i].post /\ ~hooks[j].post => j < i
=============================================================================
