---------------------------- MODULE LoaderProofs ----------------------------
(***************************************************************************)
(* Proofs about Hooks, with the hooks of EcaLoader or without, for every   *)
(* sequence of hooks and whatever the interpreter hands to their callback. *)
(***************************************************************************)
EXTENDS EcaLoader, FiniteSetTheorems, WellFoundedInduction, TLAPS

(***************************************************************************)
(* The lookup table that is built from any sequence of hooks.              *)
(***************************************************************************)
Places == Addresses \cup LoaderAddresses
Watchable == [pc : Places, type : HookType, post : BOOLEAN, id : IDs \cup LoaderID]

Span == [off : Nat, len : Nat]
LookupRow == [pc : Places, t : [HookType -> Span]]

LEMMA PlaceIsNotNone == -1 \notin Places
BY HooksAssumption, LoaderHooksAssumption
   DEF HooksAssumption, LoaderHooksAssumption, Places

\* A set of numbers that holds one of Nat holds a least.
LEMMA Least ==
  ASSUME NEW T, T \subseteq Nat, T # {}
  PROVE  \E x \in T : \A y \in T : x <= y
<1> DEFINE R == OpToRel(<, Nat)
<1>1. IsWellFoundedOn(R, Nat)
  BY NatLessThanWellFounded
<1>2. \A x, y \in Nat : x < y => <<x, y>> \in R
  BY DEF OpToRel
<1>. HIDE DEF R
<1>3. PICK x \in T : \A y \in T : <<y, x>> \notin R
  BY <1>1, WFMin
<1>4. \A y \in T : ~(y < x)
  BY <1>2, <1>3
<1>. QED
  BY <1>4

\* The recursion of buildHooksLookupTable has a solution.
LEMMA IndexedUpTo ==
  ASSUME NEW hs, NEW N \in Nat
  PROVE  \E g : g = [n \in 0 .. N |-> IF n = 0 THEN NoRows ELSE indexHook(hs, g[n - 1], n)]
<1> DEFINE Solves(g, m) ==
             g = [n \in 0 .. m |-> IF n = 0 THEN NoRows ELSE indexHook(hs, g[n - 1], n)]
           Solvable(m) == \E g : Solves(g, m)
           Without == {m \in Nat : ~Solvable(m)}
<1>0. \A n \in Nat : n \notin Without => Solvable(n)
  <2>. HIDE DEF Solvable
  <2>. QED
    OBVIOUS
<1>1. SUFFICES ASSUME Without # {} PROVE FALSE
  <2>. HIDE DEF Without
  <2>. QED
    BY <1>0
<1>2. PICK m \in Without : \A y \in Without : m <= y
  <2>1. Without \subseteq Nat
    OBVIOUS
  <2>. HIDE DEF Without
  <2>. QED
    BY <1>1, <2>1, Least
<1>3. CASE m = 0
  <2>1. Solves([n \in 0 .. 0 |-> NoRows], 0)
    OBVIOUS
  <2>. QED
    BY <1>3, <2>1
<1>4. CASE m # 0
  <2>1. m - 1 \in Nat /\ m - 1 \notin Without
    <3>1. Without \subseteq Nat
      OBVIOUS
    <3>. HIDE DEF Without
    <3>. QED
      BY <1>2, <1>4, <3>1
  <2>2. PICK g : Solves(g, m - 1)
    <3>1. Solvable(m - 1)
      <4>. HIDE DEF Solvable, Without
      <4>. QED
        BY <1>0, <2>1
    <3>. QED
      BY <3>1
  <2> DEFINE h == [n \in 0 .. m |-> IF n = m THEN indexHook(hs, g[m - 1], m) ELSE g[n]]
  <2>3. ASSUME NEW n \in 0 .. m
        PROVE  h[n] = IF n = 0 THEN NoRows ELSE indexHook(hs, h[n - 1], n)
    <3>1. CASE n = m
      <4>1. h[n] = indexHook(hs, g[n - 1], n) /\ n - 1 \in 0 .. m /\ n - 1 # m
        BY <1>4, <2>1, <3>1
      <4>2. h[n - 1] = g[n - 1]
        BY <4>1
      <4>. HIDE DEF h, Solves
      <4>. QED
        BY <1>4, <3>1, <4>1, <4>2
    <3>2. CASE n # m
      <4>1. h[n] = g[n] /\ n \in 0 .. m - 1
        BY <2>1, <3>2
      <4>2. g[n] = IF n = 0 THEN NoRows ELSE indexHook(hs, g[n - 1], n)
        BY <2>2, <4>1
      <4>3. n # 0 => h[n - 1] = g[n - 1]
        BY <2>1, <4>1
      <4>. HIDE DEF h, Solves
      <4>. QED
        BY <4>1, <4>2, <4>3
    <3>. QED
      BY <3>1, <3>2
  <2>4. h = [n \in 0 .. m |-> h[n]]
    OBVIOUS
  <2>5. Solves(h, m)
    <3>. HIDE DEF h
    <3>. QED
      BY <2>3, <2>4
  <2>. QED
    BY <1>2, <2>5
<1>. QED
  BY <1>3, <1>4

LEMMA TableRecursion ==
  ASSUME NEW S, NEW hs \in Seq(S)
  PROVE  \E g : /\ g[0] = NoRows
                /\ \A n \in 1 .. Len(hs) : g[n] = indexHook(hs, g[n - 1], n)
                /\ buildHooksLookupTable(hs) = g[Len(hs)].rows
<1> DEFINE f == CHOOSE g : g = [n \in 0 .. Len(hs) |->
                                  IF n = 0 THEN NoRows ELSE indexHook(hs, g[n - 1], n)]
<1>1. Len(hs) \in Nat
  OBVIOUS
<1>2. f = [n \in 0 .. Len(hs) |-> IF n = 0 THEN NoRows ELSE indexHook(hs, f[n - 1], n)]
  BY <1>1, IndexedUpTo
<1>3. buildHooksLookupTable(hs) = f[Len(hs)].rows
  BY DEF buildHooksLookupTable
<1>. HIDE DEF f
<1>4. f[0] = NoRows
  BY <1>1, <1>2
<1>5. ASSUME NEW n \in 1 .. Len(hs) PROVE f[n] = indexHook(hs, f[n - 1], n)
  BY <1>1, <1>2
<1>. QED
  BY <1>3, <1>4, <1>5

Table == [rows : Seq(LookupRow), pc : Places \cup {-1}, type : HookType \cup {-1}]

\* Spans of rows stay among the first n hooks, and hold hooks of the row's
\* address.
SpansHold(hs, rows, n) ==
  \A i \in DOMAIN rows, k \in HookType :
    /\ rows[i].t[k].off + rows[i].t[k].len <= n
    /\ \A j \in rows[i].t[k].off + 1 .. rows[i].t[k].off + rows[i].t[k].len :
         hs[j].pc = rows[i].pc

\* The last row began with a hook, and the hooks since then have its address.
LastRow(hs, acc, n) ==
  LET row == acc.rows[Len(acc.rows)]
  IN  /\ acc.rows # <<>> /\ row.pc = acc.pc
      /\ acc.type \in HookType /\ row.t[acc.type].len >= 1
      /\ \E first \in 1 .. n :
           /\ \A j \in first .. n : hs[j].pc = acc.pc
           /\ \A k \in HookType : row.t[k].len = 0 \/ row.t[k].off + 1 >= first

\* There is a row for each address of a hook, and for no other.
RowsForHooks(hs, rows, n) ==
  /\ \A i \in DOMAIN rows : \E j \in 1 .. n : hs[j].pc = rows[i].pc
  /\ \A j \in 1 .. n : \E i \in DOMAIN rows : hs[j].pc = rows[i].pc

Sole(hs, k, n) == \A j \in 1 .. n : j # k => hs[j].pc # hs[k].pc

SoleFound(hs, rows, n) ==
  \A i \in DOMAIN rows, k \in 1 .. n :
    Sole(hs, k, n) /\ rows[i].pc = hs[k].pc
      => rows[i].t[hs[k].type] = [off |-> k - 1, len |-> 1]

IndexedTo(hs, acc, n) ==
  /\ acc \in Table
  /\ acc.pc = IF n = 0 THEN -1 ELSE hs[n].pc
  /\ n > 0 => LastRow(hs, acc, n)
  /\ SpansHold(hs, acc.rows, n)
  /\ RowsForHooks(hs, acc.rows, n)
  /\ SoleFound(hs, acc.rows, n)

LEMMA NothingIndexed == ASSUME NEW hs PROVE IndexedTo(hs, NoRows, 0)
BY DEF IndexedTo, NoRows, Table, SpansHold, RowsForHooks, SoleFound

LEMMA NewRowShape ==
  ASSUME NEW h \in Watchable, NEW n \in Nat \ {0}
  PROVE  /\ NewRow(h, n) \in LookupRow
         /\ NewRow(h, n).pc = h.pc
         /\ \A k \in HookType : NewRow(h, n).t[k] = IF k = h.type THEN [off |-> n - 1, len |-> 1]
                                                     ELSE [off |-> 0, len |-> 0]
BY DEF NewRow, LookupRow, Watchable, Span

\* A hook of another address than the one before it begins a row.
LEMMA IndexNewAddress ==
  ASSUME NEW hs \in Seq(Watchable), NEW n \in 1 .. Len(hs), NEW acc,
         IndexedTo(hs, acc, n - 1), hs[n].pc # acc.pc
  PROVE  IndexedTo(hs, indexHook(hs, acc, n), n)
<1> DEFINE h == hs[n]
           row == NewRow(h, n)
           L == Len(acc.rows)
           rows == Append(acc.rows, row)
           new == [rows |-> rows, pc |-> h.pc, type |-> h.type]
<1>1. h \in Watchable /\ h.pc \in Places /\ h.type \in HookType /\ n \in Nat \ {0}
  <2>1. h \in Watchable /\ n \in Nat \ {0}
    OBVIOUS
  <2>. HIDE DEF h
  <2>. QED
    BY <2>1 DEF Watchable
<1>2. /\ row \in LookupRow
      /\ row.pc = h.pc
      /\ \A k \in HookType : row.t[k] = IF k = h.type THEN [off |-> n - 1, len |-> 1]
                                        ELSE [off |-> 0, len |-> 0]
  BY <1>1, NewRowShape
<1>3. indexHook(hs, acc, n) = new
  BY DEF indexHook
<1>4. acc \in Table /\ acc.rows \in Seq(LookupRow) /\ L \in Nat
  BY DEF IndexedTo, Table
<1>. HIDE DEF row, h
<1>5. /\ rows \in Seq(LookupRow) /\ Len(rows) = L + 1 /\ rows[L + 1] = row
      /\ \A i \in 1 .. L : rows[i] = acc.rows[i]
      /\ DOMAIN rows = 1 .. L + 1 /\ DOMAIN acc.rows = 1 .. L
  BY <1>2, <1>4
<1>6. ASSUME NEW k \in HookType
      PROVE  /\ row.t[k].off + row.t[k].len <= n
             /\ row.t[k].len = 0 \/ (row.t[k].off + 1 = n /\ row.t[k].len = 1)
             /\ row.t[k].off \in Nat
  <2>1. CASE k = h.type
    <3>1. row.t[k].off = n - 1 /\ row.t[k].len = 1
      BY <1>2, <2>1
    <3>. QED
      BY <1>1, <3>1
  <2>2. CASE k # h.type
    <3>1. row.t[k].off = 0 /\ row.t[k].len = 0
      BY <1>2, <2>2
    <3>. QED
      BY <1>1, <3>1
  <2>. QED
    BY <2>1, <2>2
<1>. HIDE DEF rows
<1>7. new \in Table
  <2>1. rows \in Seq(LookupRow) /\ h.pc \in Places \cup {-1} /\ h.type \in HookType \cup {-1}
    BY <1>1, <1>5
  <2>. QED
    BY <2>1 DEF Table
<1>8. new.rows = rows /\ new.pc = h.pc /\ new.type = h.type
  OBVIOUS
<1>. HIDE DEF new
<1>9. LastRow(hs, new, n)
  <2>1. new.rows # <<>> /\ new.rows[Len(new.rows)] = row
    BY <1>4, <1>5, <1>8
  <2>2. row.pc = new.pc /\ new.type \in HookType /\ row.t[new.type].len >= 1
    BY <1>1, <1>2, <1>8
  <2>3. /\ n \in 1 .. n
        /\ \A j \in n .. n : hs[j].pc = new.pc
        /\ \A k \in HookType : row.t[k].len = 0 \/ row.t[k].off + 1 >= n
    BY <1>1, <1>6, <1>8 DEF h
  <2>. QED
    BY <2>1, <2>2, <2>3 DEF LastRow
<1>10. SpansHold(hs, rows, n)
  <2> SUFFICES ASSUME NEW i \in DOMAIN rows, NEW k \in HookType
               PROVE  /\ rows[i].t[k].off + rows[i].t[k].len <= n
                      /\ \A j \in rows[i].t[k].off + 1 .. rows[i].t[k].off + rows[i].t[k].len :
                           hs[j].pc = rows[i].pc
    BY DEF SpansHold
  <2>1. CASE i = L + 1
    <3>1. rows[i] = row
      BY <1>5, <2>1
    <3>2. ASSUME NEW j \in row.t[k].off + 1 .. row.t[k].off + row.t[k].len
          PROVE  hs[j].pc = row.pc
      <4>1. j = n
        BY <1>1, <1>6
      <4>. QED
        BY <1>2, <4>1 DEF h
    <3>. QED
      BY <1>6, <3>1, <3>2
  <2>2. CASE i # L + 1
    <3>1. i \in DOMAIN acc.rows /\ rows[i] = acc.rows[i]
      BY <1>4, <1>5, <2>2
    <3>2. acc.rows[i].t[k] \in Span
      <4>1. acc.rows[i] \in LookupRow
        BY <1>4, <3>1
      <4>. QED
        BY <4>1 DEF LookupRow
    <3>3. acc.rows[i].t[k].off \in Nat /\ acc.rows[i].t[k].len \in Nat
      BY <3>2 DEF Span
    <3>4. /\ acc.rows[i].t[k].off + acc.rows[i].t[k].len <= n - 1
          /\ \A j \in acc.rows[i].t[k].off + 1 .. acc.rows[i].t[k].off + acc.rows[i].t[k].len :
               hs[j].pc = acc.rows[i].pc
      BY <3>1 DEF IndexedTo, SpansHold
    <3>5. acc.rows[i].t[k].off + acc.rows[i].t[k].len <= n
      <4>1. \A x, y \in Nat : x + y <= n - 1 => x + y <= n
        BY <1>1
      <4>. QED
        BY <3>3, <3>4, <4>1
    <3>. QED
      BY <3>1, <3>4, <3>5, Zenon
  <2>. QED
    BY <2>1, <2>2
<1>11. RowsForHooks(hs, rows, n)
  <2>1. /\ \A i \in DOMAIN acc.rows : \E j \in 1 .. n - 1 : hs[j].pc = acc.rows[i].pc
        /\ \A j \in 1 .. n - 1 : \E i \in DOMAIN acc.rows : hs[j].pc = acc.rows[i].pc
    BY DEF IndexedTo, RowsForHooks
  <2>2. ASSUME NEW i \in DOMAIN rows PROVE \E j \in 1 .. n : hs[j].pc = rows[i].pc
    <3>1. CASE i = L + 1
      BY <1>1, <1>2, <1>5, <3>1 DEF h
    <3>2. CASE i # L + 1
      <4>1. i \in DOMAIN acc.rows /\ rows[i] = acc.rows[i]
        BY <1>4, <1>5, <3>2
      <4>2. PICK j \in 1 .. n - 1 : hs[j].pc = acc.rows[i].pc
        BY <2>1, <4>1
      <4>. QED
        BY <1>1, <4>1, <4>2
    <3>. QED
      BY <3>1, <3>2
  <2>3. ASSUME NEW j \in 1 .. n PROVE \E i \in DOMAIN rows : hs[j].pc = rows[i].pc
    <3>1. CASE j = n
      <4>1. L + 1 \in DOMAIN rows /\ hs[j].pc = rows[L + 1].pc
        BY <1>2, <1>4, <1>5, <3>1 DEF h
      <4>. QED
        BY <4>1
    <3>2. CASE j # n
      <4>1. j \in 1 .. n - 1
        BY <3>2
      <4>2. PICK i \in DOMAIN acc.rows : hs[j].pc = acc.rows[i].pc
        BY <2>1, <4>1
      <4>. QED
        BY <1>4, <1>5, <4>2
    <3>. QED
      BY <3>1, <3>2
  <2>. QED
    BY <2>2, <2>3 DEF RowsForHooks
<1>12. SoleFound(hs, rows, n)
  <2> SUFFICES ASSUME NEW i \in DOMAIN rows, NEW k \in 1 .. n,
                      Sole(hs, k, n), rows[i].pc = hs[k].pc
               PROVE  rows[i].t[hs[k].type] = [off |-> k - 1, len |-> 1]
    BY DEF SoleFound
  <2>1. CASE i = L + 1
    <3>1. hs[k].pc = hs[n].pc
      BY <1>2, <1>5, <2>1 DEF h
    <3>2. k = n
      BY <3>1, <1>1 DEF Sole
    <3>. QED
      BY <1>1, <1>2, <1>5, <2>1, <3>2 DEF h
  <2>2. CASE i # L + 1
    <3>1. i \in DOMAIN acc.rows /\ rows[i] = acc.rows[i]
      BY <1>4, <1>5, <2>2
    <3>2. PICK j \in 1 .. n - 1 : hs[j].pc = acc.rows[i].pc
      BY <3>1 DEF IndexedTo, RowsForHooks
    <3>3. j = k
      BY <3>1, <3>2, <1>1 DEF Sole
    <3>4. k \in 1 .. n - 1 /\ Sole(hs, k, n - 1)
      BY <3>3, <1>1 DEF Sole
    <3>. QED
      BY <3>1, <3>4 DEF IndexedTo, SoleFound
  <2>. QED
    BY <2>1, <2>2
<1>. QED
  BY <1>1, <1>3, <1>7, <1>8, <1>9, <1>10, <1>11, <1>12 DEF IndexedTo, h

\* An edit of one span of a row, spelled out level by level.
LEMMA SpanSet ==
  ASSUME NEW acc, NEW L, NEW k, NEW v
  PROVE  [acc EXCEPT !.rows[L].t[k] = v]
           = [acc EXCEPT !.rows = [acc.rows EXCEPT ![L] =
                [acc.rows[L] EXCEPT !.t = [acc.rows[L].t EXCEPT ![k] = v]]]]
OBVIOUS

LEMMA SpanLengthened ==
  ASSUME NEW acc, NEW L, NEW k
  PROVE  [acc EXCEPT !.rows[L].t[k].len = @ + 1]
           = [acc EXCEPT !.rows = [acc.rows EXCEPT ![L] =
                [acc.rows[L] EXCEPT !.t = [acc.rows[L].t EXCEPT ![k] =
                   [acc.rows[L].t[k] EXCEPT !.len = @ + 1]]]]]
OBVIOUS

\* A hook of the same address lengthens a span of the last row, or, when it is
\* of another type than the row's first, begins one anew.
LEMMA IndexSameAddress ==
  ASSUME NEW hs \in Seq(Watchable), NEW n \in 1 .. Len(hs), NEW acc,
         IndexedTo(hs, acc, n - 1), hs[n].pc = acc.pc
  PROVE  IndexedTo(hs, indexHook(hs, acc, n), n)
<1> DEFINE h == hs[n]
           L == Len(acc.rows)
           old == acc.rows[L].t[h.type]
           span == IF h.type # acc.type THEN [off |-> n - 1, len |-> 1]
                   ELSE [off |-> old.off, len |-> old.len + 1]
           rows == [acc.rows EXCEPT ![L] =
                      [acc.rows[L] EXCEPT !.t = [acc.rows[L].t EXCEPT ![h.type] = span]]]
           new == [acc EXCEPT !.rows = rows]
<1>1. h \in Watchable /\ h.pc \in Places /\ h.type \in HookType /\ n \in Nat \ {0}
  <2>1. h \in Watchable /\ n \in Nat \ {0}
    OBVIOUS
  <2>. HIDE DEF h
  <2>. QED
    BY <2>1 DEF Watchable
<1>2. acc \in Table /\ acc.rows \in Seq(LookupRow) /\ n - 1 > 0 /\ acc.pc = hs[n - 1].pc
  <2>1. n - 1 = 0 => acc.pc = -1
    BY DEF IndexedTo
  <2>2. h.pc # -1
    BY <1>1, PlaceIsNotNone
  <2>. QED
    BY <1>1, <2>1, <2>2 DEF IndexedTo, Table
<1>3. LastRow(hs, acc, n - 1)
  BY <1>2 DEF IndexedTo
<1>4. L \in 1 .. L /\ DOMAIN acc.rows = 1 .. L /\ acc.rows[L] \in LookupRow /\ acc.rows[L].pc = h.pc
  BY <1>2, <1>3 DEF LastRow
<1>. HIDE DEF h
<1>5. old \in Span /\ acc.rows[L].t \in [HookType -> Span]
  BY <1>1, <1>4 DEF LookupRow
<1>. HIDE DEF old
<1>6. span \in Span
  BY <1>1, <1>5 DEF Span
<1>7. indexHook(hs, acc, n) = new
  <2>1. CASE h.type # acc.type
    <3>1. indexHook(hs, acc, n) = [acc EXCEPT !.rows[L].t[h.type] = [off |-> n - 1, len |-> 1]]
      BY <2>1 DEF indexHook, h
    <3>2. span = [off |-> n - 1, len |-> 1]
      BY <2>1
    <3>. HIDE DEF span
    <3>. QED
      BY <3>1, <3>2, SpanSet
  <2>2. CASE h.type = acc.type
    <3>1. indexHook(hs, acc, n) = [acc EXCEPT !.rows[L].t[h.type].len = @ + 1]
      BY <2>2 DEF indexHook, h
    <3>2. span = [old EXCEPT !.len = @ + 1]
      BY <1>5, <2>2 DEF Span
    <3>. HIDE DEF span
    <3>. QED
      BY <3>1, <3>2, SpanLengthened DEF old
  <2>. QED
    BY <2>1, <2>2
<1>. HIDE DEF span
<1> DEFINE row == rows[L]
<1>8. /\ rows \in Seq(LookupRow) /\ Len(rows) = L /\ DOMAIN rows = 1 .. L
      /\ \A i \in 1 .. L : i # L => rows[i] = acc.rows[i]
      /\ row.pc = h.pc /\ row \in LookupRow
      /\ \A k \in HookType : row.t[k] = IF k = h.type THEN span ELSE acc.rows[L].t[k]
  <2> DEFINE t == [acc.rows[L].t EXCEPT ![h.type] = span]
             r == [acc.rows[L] EXCEPT !.t = t]
  <2>1. /\ t \in [HookType -> Span]
        /\ \A k \in HookType : t[k] = IF k = h.type THEN span ELSE acc.rows[L].t[k]
    BY <1>1, <1>5, <1>6
  <2>. HIDE DEF t
  <2>2. r \in LookupRow /\ r.t = t /\ r.pc = h.pc
    BY <1>4, <2>1 DEF LookupRow
  <2>3. rows = [acc.rows EXCEPT ![L] = r]
    BY DEF t
  <2>. HIDE DEF r, rows
  <2>4. /\ rows \in Seq(LookupRow) /\ Len(rows) = L /\ DOMAIN rows = 1 .. L
        /\ \A i \in 1 .. L : i # L => rows[i] = acc.rows[i]
        /\ row = r
    BY <1>2, <1>4, <2>2, <2>3
  <2>. QED
    BY <2>1, <2>2, <2>4
<1>. HIDE DEF rows
<1>9. new \in Table /\ new.rows = rows /\ new.pc = h.pc /\ new.type = acc.type
  BY <1>2, <1>4, <1>8 DEF Table, h
<1>. HIDE DEF new, row
<1>10. PICK first \in 1 .. n - 1 :
         /\ \A j \in first .. n - 1 : hs[j].pc = acc.pc
         /\ \A k \in HookType : acc.rows[L].t[k].len = 0 \/ acc.rows[L].t[k].off + 1 >= first
  BY <1>3 DEF LastRow
<1>11. /\ acc.type \in HookType /\ acc.rows[L].t[acc.type].len >= 1
       /\ \A k \in HookType : /\ acc.rows[L].t[k].off \in Nat /\ acc.rows[L].t[k].len \in Nat
                                /\ acc.rows[L].t[k].off + acc.rows[L].t[k].len <= n - 1
  <2>1. acc.type \in HookType /\ acc.rows[L].t[acc.type].len >= 1
    BY <1>3 DEF LastRow
  <2>2. ASSUME NEW k \in HookType
        PROVE  acc.rows[L].t[k].off \in Nat /\ acc.rows[L].t[k].len \in Nat
    BY <1>5 DEF Span
  <2>. QED
    BY <1>4, <2>1, <2>2 DEF IndexedTo, SpansHold

\* The span that grows is not empty, so it stays among the row's own hooks.
<1>12. /\ span.off \in Nat /\ span.len \in Nat /\ span.len >= 1
       /\ span.off + 1 >= first /\ span.off + span.len <= n
  <2>1. CASE h.type # acc.type
    <3>1. span.off = n - 1 /\ span.len = 1
      BY <2>1 DEF span
    <3>. QED
      BY <1>1, <1>10, <3>1
  <2>2. CASE h.type = acc.type
    <3>1. span.off = old.off /\ span.len = old.len + 1
      BY <2>2 DEF span
    <3>2. /\ old.off \in Nat /\ old.len \in Nat /\ old.len >= 1
          /\ old.off + old.len <= n - 1 /\ old.off + 1 >= first
      BY <1>10, <1>11, <2>2 DEF old
    <3>. QED
      BY <1>1, <3>1, <3>2
  <2>. QED
    BY <2>1, <2>2
<1>13. \A j \in first .. n : hs[j].pc = h.pc
  BY <1>1, <1>4, <1>10, <1>2 DEF h
<1>14. LastRow(hs, new, n)
  <2>1. new.rows # <<>> /\ new.rows[Len(new.rows)] = row
    BY <1>4, <1>8, <1>9 DEF row
  <2>2. row.pc = new.pc /\ new.type \in HookType /\ row.t[new.type].len >= 1
    BY <1>8, <1>9, <1>11, <1>12
  <2>3. first \in 1 .. n /\ \A j \in first .. n : hs[j].pc = new.pc
    BY <1>1, <1>9, <1>10, <1>13
  <2>4. \A k \in HookType : row.t[k].len = 0 \/ row.t[k].off + 1 >= first
    BY <1>8, <1>10, <1>12
  <2>. QED
    BY <2>1, <2>2, <2>3, <2>4 DEF LastRow
<1>15. SpansHold(hs, rows, n)
  <2> SUFFICES ASSUME NEW i \in DOMAIN rows, NEW k \in HookType
               PROVE  /\ rows[i].t[k].off + rows[i].t[k].len <= n
                      /\ \A j \in rows[i].t[k].off + 1 .. rows[i].t[k].off + rows[i].t[k].len :
                           hs[j].pc = rows[i].pc
    BY DEF SpansHold
  <2>1. CASE i = L /\ k = h.type
    <3>1. rows[i].t[k] = span /\ rows[i].pc = h.pc
      BY <1>8, <2>1 DEF row
    <3>2. ASSUME NEW j \in span.off + 1 .. span.off + span.len PROVE hs[j].pc = h.pc
      <4>1. j \in first .. n
        BY <1>1, <1>10, <1>12
      <4>. QED
        BY <1>13, <4>1
    <3>. QED
      BY <1>12, <3>1, <3>2
  <2>2. CASE ~(i = L /\ k = h.type)
    <3>1. i \in DOMAIN acc.rows /\ rows[i].pc = acc.rows[i].pc /\ rows[i].t[k] = acc.rows[i].t[k]
      BY <1>4, <1>8, <2>2 DEF row
    <3>2. acc.rows[i].t[k] \in Span
      <4>1. acc.rows[i] \in LookupRow
        BY <1>2, <3>1
      <4>. QED
        BY <4>1 DEF LookupRow
    <3>3. acc.rows[i].t[k].off \in Nat /\ acc.rows[i].t[k].len \in Nat
      BY <3>2 DEF Span
    <3>4. /\ acc.rows[i].t[k].off + acc.rows[i].t[k].len <= n - 1
          /\ \A j \in acc.rows[i].t[k].off + 1 .. acc.rows[i].t[k].off + acc.rows[i].t[k].len :
               hs[j].pc = acc.rows[i].pc
      BY <3>1 DEF IndexedTo, SpansHold
    <3>5. acc.rows[i].t[k].off + acc.rows[i].t[k].len <= n
      <4>1. \A x, y \in Nat : x + y <= n - 1 => x + y <= n
        BY <1>1
      <4>. QED
        BY <3>3, <3>4, <4>1
    <3>. QED
      BY <3>1, <3>4, <3>5, Zenon
  <2>. QED
    BY <2>1, <2>2
<1>16. \A i \in DOMAIN rows : i \in DOMAIN acc.rows /\ rows[i].pc = acc.rows[i].pc
  BY <1>4, <1>8 DEF row
<1>17. /\ \A i \in DOMAIN acc.rows : \E j \in 1 .. n - 1 : hs[j].pc = acc.rows[i].pc
       /\ \A j \in 1 .. n - 1 : \E i \in DOMAIN acc.rows : hs[j].pc = acc.rows[i].pc
  BY DEF IndexedTo, RowsForHooks
<1>18. RowsForHooks(hs, rows, n)
  <2>1. ASSUME NEW i \in DOMAIN rows PROVE \E j \in 1 .. n : hs[j].pc = rows[i].pc
    <3>1. PICK j \in 1 .. n - 1 : hs[j].pc = acc.rows[i].pc
      BY <1>16, <1>17
    <3>. QED
      BY <1>1, <1>16, <3>1
  <2>2. ASSUME NEW j \in 1 .. n PROVE \E i \in DOMAIN rows : hs[j].pc = rows[i].pc
    <3>1. CASE j = n
      BY <1>4, <1>8, <3>1 DEF row, h
    <3>2. CASE j # n
      <4>1. j \in 1 .. n - 1
        BY <3>2
      <4>2. PICK i \in DOMAIN acc.rows : hs[j].pc = acc.rows[i].pc
        BY <1>17, <4>1
      <4>. QED
        BY <1>4, <1>8, <1>16, <4>2
    <3>. QED
      BY <3>1, <3>2
  <2>. QED
    BY <2>1, <2>2 DEF RowsForHooks
<1>19. SoleFound(hs, rows, n)
  <2> SUFFICES ASSUME NEW i \in DOMAIN rows, NEW k \in 1 .. n,
                      Sole(hs, k, n), rows[i].pc = hs[k].pc
               PROVE  rows[i].t[hs[k].type] = [off |-> k - 1, len |-> 1]
    BY DEF SoleFound
  <2>1. \A j \in 1 .. n : hs[j].pc = hs[k].pc => j = k
    BY DEF Sole
  <2>2. i # L
    <3>1. SUFFICES ASSUME i = L PROVE FALSE
      OBVIOUS
    <3>2. hs[n - 1].pc = hs[k].pc /\ hs[n].pc = hs[k].pc
      BY <1>2, <1>8, <3>1 DEF row, h
    <3>3. n - 1 \in 1 .. n /\ n \in 1 .. n
      BY <1>1, <1>2
    <3>. QED
      BY <1>1, <2>1, <3>2, <3>3
  <2>3. i \in DOMAIN acc.rows /\ rows[i] = acc.rows[i]
    BY <1>4, <1>8, <2>2
  <2>4. PICK j \in 1 .. n - 1 : hs[j].pc = acc.rows[i].pc
    BY <1>17, <2>3
  <2>5. j = k
    BY <1>1, <2>1, <2>3, <2>4
  <2>6. k \in 1 .. n - 1 /\ Sole(hs, k, n - 1)
    BY <2>5, <1>1 DEF Sole
  <2>. QED
    BY <2>3, <2>6 DEF IndexedTo, SoleFound
<1>. QED
  BY <1>1, <1>7, <1>9, <1>14, <1>15, <1>18, <1>19 DEF IndexedTo, h

\* The table that buildHooksLookupTable leaves.
LEMMA TableBuilt ==
  ASSUME NEW hs \in Seq(Watchable)
  PROVE  \E acc : IndexedTo(hs, acc, Len(hs)) /\ buildHooksLookupTable(hs) = acc.rows
<1>1. PICK g : /\ g[0] = NoRows
               /\ \A n \in 1 .. Len(hs) : g[n] = indexHook(hs, g[n - 1], n)
               /\ buildHooksLookupTable(hs) = g[Len(hs)].rows
  BY TableRecursion
<1> DEFINE Wrong == {n \in 0 .. Len(hs) : ~IndexedTo(hs, g[n], n)}
<1>2. Len(hs) \in Nat
  OBVIOUS
<1>3. Wrong = {}
  <2>1. SUFFICES ASSUME Wrong # {} PROVE FALSE
    OBVIOUS
  <2>2. Wrong \subseteq Nat /\ Wrong \subseteq 0 .. Len(hs)
    BY <1>2
  <2>3. \A n \in 0 .. Len(hs) : n \notin Wrong => IndexedTo(hs, g[n], n)
    OBVIOUS
  <2>4. \A n \in Wrong : ~IndexedTo(hs, g[n], n)
    OBVIOUS
  <2>. HIDE DEF Wrong
  <2>5. PICK n \in Wrong : \A y \in Wrong : n <= y
    BY <2>1, <2>2, Least
  <2>6. n # 0
    BY <1>1, <2>4, NothingIndexed
  <2>7. n \in 1 .. Len(hs) /\ n - 1 \in 0 .. Len(hs) /\ n - 1 \notin Wrong
    BY <1>2, <2>2, <2>5, <2>6
  <2>8. IndexedTo(hs, g[n - 1], n - 1) /\ g[n] = indexHook(hs, g[n - 1], n)
    BY <1>1, <2>3, <2>7
  <2>9. IndexedTo(hs, g[n], n)
    BY <2>7, <2>8, IndexNewAddress, IndexSameAddress
  <2>. QED
    BY <2>4, <2>9
<1>4. IndexedTo(hs, g[Len(hs)], Len(hs))
  BY <1>2, <1>3
<1>. QED
  BY <1>1, <1>4
-----------------------------------------------------------------------------
(***************************************************************************)
(* What an instruction finds in the table.                                 *)
(***************************************************************************)
HooksInv ==
  /\ hooks \in Seq(Watchable)
  /\ lookup \in Seq(LookupRow)
  /\ RangesInTable
  /\ ready => \E acc : IndexedTo(hooks, acc, Len(hooks)) /\ lookup = acc.rows

LEMMA MinIsLeast ==
  ASSUME NEW T, T \subseteq Nat, T # {}
  PROVE  Min(T) \in T
<1>1. PICK x \in T : \A y \in T : x <= y
  BY Least
<1>. QED
  BY <1>1 DEF Min

LEMMA LookupFinds ==
  ASSUME HooksInv, ready, NEW pc
  PROVE  \/ /\ \A j \in DOMAIN hooks : hooks[j].pc # pc
            /\ lookupHooks(pc, EXEC) = <<>>
         \/ \E row \in DOMAIN lookup :
              /\ lookup[row].pc = pc
              /\ lookupHooks(pc, EXEC) =
                   SubSeq(hooks, lookup[row].t[EXEC].off + 1,
                          lookup[row].t[EXEC].off + lookup[row].t[EXEC].len)
<1>1. PICK acc : IndexedTo(hooks, acc, Len(hooks)) /\ lookup = acc.rows
  BY DEF HooksInv
<1> DEFINE I == {i \in 1 .. Len(lookup) : lookup[i].pc = pc}
           row == SelectInSeq(lookup, LAMBDA r : r.pc = pc)
<1>2. DOMAIN lookup = 1 .. Len(lookup) /\ DOMAIN hooks = 1 .. Len(hooks) /\ Len(lookup) \in Nat
  BY DEF HooksInv
<1>3. row = IF I # {} THEN Min(I) ELSE 0
  BY DEF SelectInSeq
<1>4. lookupHooks(pc, EXEC) =
        IF row = 0 THEN <<>>
        ELSE SubSeq(hooks, lookup[row].t[EXEC].off + 1,
                    lookup[row].t[EXEC].off + lookup[row].t[EXEC].len)
  BY DEF lookupHooks
<1>5. CASE I = {}
  <2>1. \A j \in 1 .. Len(hooks) : \E i \in DOMAIN lookup : hooks[j].pc = lookup[i].pc
    BY <1>1 DEF IndexedTo, RowsForHooks
  <2>2. row = 0
    BY <1>3, <1>5
  <2>. HIDE DEF row
  <2>3. \A j \in DOMAIN hooks : hooks[j].pc # pc
    BY <1>2, <1>5, <2>1
  <2>. QED
    BY <1>4, <2>2, <2>3
<1>6. CASE I # {}
  <2>1. I \subseteq Nat /\ I \subseteq DOMAIN lookup /\ \A i \in I : lookup[i].pc = pc
    BY <1>2
  <2>2. Min(I) \in I /\ row = Min(I)
    BY <1>3, <1>6, <2>1, MinIsLeast
  <2>3. \A i \in I : i # 0
    OBVIOUS
  <2>. HIDE DEF row, I
  <2>. QED
    BY <1>4, <2>1, <2>2, <2>3
<1>. QED
  BY <1>5, <1>6

LEMMA SpanOfRow ==
  ASSUME HooksInv, NEW row \in DOMAIN lookup
  PROVE  /\ lookup[row].t[EXEC].off \in Nat /\ lookup[row].t[EXEC].len \in Nat
         /\ lookup[row].t[EXEC].off + lookup[row].t[EXEC].len <= Len(hooks)
<1>1. lookup[row] \in LookupRow
  BY DEF HooksInv
<1>2. EXEC \in HookType
  BY DEF EXEC, HookType
<1>3. lookup[row].t[EXEC] \in Span
  BY <1>1, <1>2 DEF LookupRow
<1>4. lookup[row].t[EXEC].off + lookup[row].t[EXEC].len <= Len(hooks)
  BY <1>2 DEF HooksInv, RangesInTable
<1>. QED
  BY <1>3, <1>4 DEF Span

\* What is found is hooks of the address, whatever the sort left between them.
LEMMA FoundAtAddress ==
  ASSUME HooksInv, ready, NEW pc
  PROVE  /\ lookupHooks(pc, EXEC) \in Seq(Watchable)
         /\ \A i \in DOMAIN lookupHooks(pc, EXEC) : lookupHooks(pc, EXEC)[i].pc = pc
<1> DEFINE found == lookupHooks(pc, EXEC)
<1>1. CASE found = <<>>
  <2>. HIDE DEF found
  <2>. QED
    BY <1>1 DEF found
<1>2. CASE found # <<>>
  <2>1. PICK row \in DOMAIN lookup :
          /\ lookup[row].pc = pc
          /\ found = SubSeq(hooks, lookup[row].t[EXEC].off + 1,
                            lookup[row].t[EXEC].off + lookup[row].t[EXEC].len)
    BY <1>2, LookupFinds
  <2> DEFINE off == lookup[row].t[EXEC].off
             len == lookup[row].t[EXEC].len
  <2>2. off \in Nat /\ len \in Nat /\ off + len <= Len(hooks)
    BY SpanOfRow
  <2>3. \A j \in off + 1 .. off + len : hooks[j].pc = pc
    <3>1. PICK acc : IndexedTo(hooks, acc, Len(hooks)) /\ lookup = acc.rows
      BY DEF HooksInv
    <3>2. EXEC \in HookType
      BY DEF EXEC, HookType
    <3>3. \A j \in off + 1 .. off + len : hooks[j].pc = lookup[row].pc
      BY <3>1, <3>2 DEF IndexedTo, SpansHold
    <3>. QED
      BY <2>1, <3>3
  <2>4. hooks \in Seq(Watchable)
    BY DEF HooksInv
  <2>5. found = SubSeq(hooks, off + 1, off + len)
    BY <2>1
  <2>. HIDE DEF found, off, len
  <2>6. found \in Seq(Watchable) /\ Len(found) = len
    BY <2>2, <2>4, <2>5
  <2>7. ASSUME NEW i \in DOMAIN found PROVE found[i].pc = pc
    <3>1. i \in 1 .. len
      BY <2>6
    <3>2. found[i] = hooks[off + i] /\ off + i \in off + 1 .. off + len
      BY <2>2, <2>4, <2>5, <3>1
    <3>. QED
      BY <2>3, <3>2
  <2>. QED
    BY <2>6, <2>7 DEF found
<1>. QED
  BY <1>1, <1>2

LEMMA PreHooksPrefix ==
  ASSUME NEW found \in Seq(Watchable)
  PROVE  /\ preHooks(found) \in Seq(Watchable)
         /\ \A i \in DOMAIN preHooks(found) : i \in DOMAIN found /\ preHooks(found)[i] = found[i]
         /\ (\A i \in DOMAIN found : ~found[i].post) => preHooks(found) = found
<1> DEFINE I == {i \in 1 .. Len(found) : found[i].post}
           stop == SelectInSeq(found, LAMBDA h : h.post)
<1>1. stop = IF I # {} THEN Min(I) ELSE 0
  BY DEF SelectInSeq
<1>2. preHooks(found) = IF stop = 0 THEN found ELSE SubSeq(found, 1, stop - 1)
  BY DEF preHooks
<1>3. CASE I = {}
  <2>1. stop = 0
    BY <1>1, <1>3
  <2>. HIDE DEF stop, I
  <2>. QED
    BY <1>2, <2>1
<1>4. CASE I # {}
  <2>1. I \subseteq Nat /\ I \subseteq 1 .. Len(found) /\ \A i \in I : found[i].post
    OBVIOUS
  <2>2. Min(I) \in I /\ stop = Min(I)
    BY <1>1, <1>4, <2>1, MinIsLeast
  <2>3. stop \in 1 .. Len(found) /\ found[stop].post
    BY <2>1, <2>2
  <2>. HIDE DEF stop, I
  <2>4. preHooks(found) = SubSeq(found, 1, stop - 1)
    BY <1>2, <2>3
  <2>5. preHooks(found) \in Seq(Watchable) /\ Len(preHooks(found)) = stop - 1
    BY <2>3, <2>4
  <2>6. ASSUME NEW i \in DOMAIN preHooks(found)
        PROVE  i \in DOMAIN found /\ preHooks(found)[i] = found[i]
    BY <2>3, <2>4, <2>5
  <2>. QED
    BY <2>3, <2>5, <2>6
<1>. QED
  BY <1>3, <1>4

LEMMA HooksStart == ObservedInit => HooksInv
<1> SUFFICES ASSUME ObservedInit PROVE HooksInv
  OBVIOUS
<1>1. lookup = <<>> /\ ready = FALSE /\ (hooks = <<>> \/ hooks = LoaderHooks)
  BY DEF ObservedInit, Init, LoaderInit
<1> DEFINE Own == [pc : LoaderAddresses, type : HookType, post : BOOLEAN, id : LoaderID]
<1>2. LoaderHooks \in Seq(Own)
  BY LoaderHooksAssumption DEF LoaderHooksAssumption
<1>3. ASSUME NEW h \in Own PROVE h \in Watchable
  BY DEF Watchable, Places
<1>. HIDE DEF Own
<1>4. LoaderHooks \in Seq(Watchable)
  BY <1>2, <1>3
<1>5. hooks \in Seq(Watchable)
  <2>1. <<>> \in Seq(Watchable)
    OBVIOUS
  <2>. QED
    BY <1>1, <1>4, <2>1, Zenon
<1>. QED
  BY <1>1, <1>5 DEF HooksInv, RangesInTable

LEMMA RegisterKeeps == ASSUME HooksInv, NEW h \in Hook, registerHook(h) PROVE HooksInv'
<1>1. hooks' = Append(hooks, h) /\ ready' = FALSE /\ lookup' = lookup
  BY DEF registerHook
<1>2. h \in Watchable
  BY DEF Hook, Watchable, Places
<1>3. hooks' \in Seq(Watchable) /\ Len(hooks') = Len(hooks) + 1 /\ Len(hooks) \in Nat
  BY <1>1, <1>2 DEF HooksInv
<1>4. RangesInTable'
  <2> SUFFICES ASSUME NEW i \in DOMAIN lookup, NEW k \in HookType
               PROVE  lookup[i].t[k].off + lookup[i].t[k].len <= Len(hooks')
    BY <1>1 DEF RangesInTable
  <2>1. lookup[i] \in LookupRow
    BY DEF HooksInv
  <2>2. lookup[i].t[k] \in Span
    BY <2>1 DEF LookupRow
  <2>3. lookup[i].t[k].off \in Nat /\ lookup[i].t[k].len \in Nat
    BY <2>2 DEF Span
  <2>4. lookup[i].t[k].off + lookup[i].t[k].len <= Len(hooks)
    BY DEF HooksInv, RangesInTable
  <2>. QED
    BY <1>3, <2>3, <2>4
<1>. QED
  BY <1>1, <1>3, <1>4 DEF HooksInv

LEMMA PrepareKeeps == ASSUME HooksInv, Prepare PROVE HooksInv'
<1>1. PICK sorted \in sortHooks(hooks) :
        hooks' = sorted /\ lookup' = buildHooksLookupTable(sorted)
  BY DEF Prepare
<1>2. hooks \in Seq(Watchable)
  BY DEF HooksInv
<1>3. PICK order \in [DOMAIN hooks -> DOMAIN hooks] :
        sorted = [i \in DOMAIN hooks |-> hooks[order[i]]]
  BY <1>1 DEF sortHooks
<1>4. sorted \in Seq(Watchable)
  BY <1>2, <1>3
<1>5. PICK acc : IndexedTo(sorted, acc, Len(sorted)) /\ buildHooksLookupTable(sorted) = acc.rows
  BY <1>4, TableBuilt
<1>6. lookup' \in Seq(LookupRow)
  BY <1>1, <1>5 DEF IndexedTo, Table
<1>7. RangesInTable'
  BY <1>1, <1>5 DEF IndexedTo, SpansHold, RangesInTable
<1>. QED
  BY <1>1, <1>4, <1>5, <1>6, <1>7 DEF HooksInv

LEMMA HooksStep == HooksInv /\ [LoaderNext]_loaderVars => HooksInv'
<1> SUFFICES ASSUME HooksInv, [LoaderNext]_loaderVars PROVE HooksInv'
  OBVIOUS
<1>1. \/ \E h \in Hook : registerHook(h)
      \/ Prepare
      \/ UNCHANGED <<hooks, lookup, ready>>
  BY DEF LoaderNext, Watched, Instruction, Exit, Unwatched, DuplicateFound, loaderVars, vars
<1>2. CASE UNCHANGED <<hooks, lookup, ready>>
  BY <1>2 DEF HooksInv, RangesInTable
<1>. QED
  BY <1>1, <1>2, RegisterKeeps, PrepareKeeps

\* Whatever order the sort leaves, and however types and addresses are mixed,
\* no row of the lookup table points behind the hooks: lookupHooks hands interp
\* no hook that was never registered.
THEOREM RangesInTableAlways == LoaderSpec => []RangesInTable
<1>1. HooksInv => RangesInTable
  BY DEF HooksInv
<1>. QED
  BY <1>1, HooksStart, HooksStep, PTL DEF LoaderSpec

LEMMA RunningFinds ==
  ASSUME NEW pc, Instruction(pc), state' = "running"
  PROVE  ready /\ ran' = preHooks(lookupHooks(pc, EXEC))
BY DEF Instruction

\* The hooks of an address may be apart after the sort; even so an instruction
\* never runs a hook of another address.
THEOREM NoForeignHookAlways == LoaderSpec => NoForeignHook
<1>1. ASSUME HooksInv, [LoaderNext]_loaderVars
      PROVE  [\A pc \in PlacesSeen :
                Instruction(pc) /\ state' = "running" => At(ran', pc) = DOMAIN ran']_vars
  <2> SUFFICES ASSUME NEW pc \in PlacesSeen, Instruction(pc), state' = "running"
               PROVE  At(ran', pc) = DOMAIN ran'
    OBVIOUS
  <2>1. ready /\ ran' = preHooks(lookupHooks(pc, EXEC))
    BY RunningFinds
  <2>2. \A i \in DOMAIN ran' : ran'[i].pc = pc
    BY <1>1, <2>1, FoundAtAddress, PreHooksPrefix
  <2>. QED
    BY <2>2 DEF At
<1>. QED
  BY <1>1, HooksStart, HooksStep, PTL DEF LoaderSpec, NoForeignHook

LEMMA SingleHook ==
  ASSUME NEW S, NEW hs \in Seq(S), NEW k \in 1 .. Len(hs)
  PROVE  SubSeq(hs, k, k) = <<hs[k]>>
<1> DEFINE one == SubSeq(hs, k, k)
<1>1. one \in Seq(S) /\ Len(one) = 1 /\ one[1] = hs[k]
  OBVIOUS
<1>. HIDE DEF one
<1>2. one = <<one[1]>>
  BY <1>1
<1>. QED
  BY <1>1, <1>2 DEF one

\* However many hooks of other addresses surround it, and whichever of them the
\* sort has put next to it, a hook that is alone at its address is run.
THEOREM SoleHookRunsAlways == LoaderSpec => SoleHookRuns
<1>1. ASSUME HooksInv, [LoaderNext]_loaderVars
      PROVE  [\A pc \in PlacesSeen, k \in DOMAIN hooks :
                /\ Instruction(pc) /\ state' = "running"
                /\ At(hooks, pc) = {k}
                /\ hooks[k].type = EXEC /\ ~hooks[k].post
                => ran' = <<hooks[k]>>]_vars
  <2> SUFFICES ASSUME NEW pc \in PlacesSeen, NEW k \in DOMAIN hooks,
                      Instruction(pc), state' = "running",
                      At(hooks, pc) = {k}, hooks[k].type = EXEC, ~hooks[k].post
               PROVE  ran' = <<hooks[k]>>
    OBVIOUS
  <2>1. ready /\ ran' = preHooks(lookupHooks(pc, EXEC))
    BY RunningFinds
  <2>2. PICK acc : IndexedTo(hooks, acc, Len(hooks)) /\ lookup = acc.rows
    BY <1>1, <2>1 DEF HooksInv
  <2>3. hooks \in Seq(Watchable) /\ k \in 1 .. Len(hooks) /\ DOMAIN hooks = 1 .. Len(hooks)
    BY <1>1 DEF HooksInv
  <2>4. hooks[k].pc = pc /\ \A j \in DOMAIN hooks : j # k => hooks[j].pc # pc
    BY DEF At
  <2>5. PICK row \in DOMAIN lookup :
          /\ lookup[row].pc = pc
          /\ lookupHooks(pc, EXEC) =
               SubSeq(hooks, lookup[row].t[EXEC].off + 1,
                      lookup[row].t[EXEC].off + lookup[row].t[EXEC].len)
    BY <1>1, <2>1, <2>4, LookupFinds
  <2>6. Sole(hooks, k, Len(hooks))
    BY <2>3, <2>4 DEF Sole
  <2>7. lookup[row].t[EXEC] = [off |-> k - 1, len |-> 1]
    BY <2>2, <2>3, <2>4, <2>5, <2>6 DEF IndexedTo, SoleFound
  <2>8. lookupHooks(pc, EXEC) = SubSeq(hooks, k, k)
    <3>1. /\ lookup[row].t[EXEC].off + 1 = k
          /\ lookup[row].t[EXEC].off + lookup[row].t[EXEC].len = k
      BY <2>3, <2>7
    <3>. QED
      BY <2>5, <3>1
  <2>9. SubSeq(hooks, k, k) = <<hooks[k]>>
    BY <2>3, SingleHook
  <2>10. <<hooks[k]>> \in Seq(Watchable) /\ \A i \in DOMAIN <<hooks[k]>> : ~<<hooks[k]>>[i].post
    <3>1. hooks[k] \in Watchable
      BY <2>3
    <3>. QED
      BY <3>1
  <2>11. preHooks(<<hooks[k]>>) = <<hooks[k]>>
    BY <2>10, PreHooksPrefix
  <2>. QED
    BY <2>1, <2>8, <2>9, <2>11
<1>. QED
  BY <1>1, HooksStart, HooksStep, PTL DEF LoaderSpec, SoleHookRuns
-----------------------------------------------------------------------------
(***************************************************************************)
(* The disassembly.                                                        *)
(***************************************************************************)
\* The right-hand side of the recursion of saveDisassembly.
LinesFrom(g, ip) ==
  IF ip >= RamSize THEN {}
  ELSE CASE atoms[ip].type = "NONE" -> g[ip + 1]
         [] atoms[ip].type = "INST" ->
              {[at |-> ip, last |-> ip + OperandLength(ip), type |-> "INST"]}
                \cup g[ip + OperandLength(ip) + 1]
         [] OTHER -> {[at |-> ip, last |-> ip, type |-> "stray"]} \cup g[ip + 1]

\* An operand has at most two bytes, and none of them was noted as an
\* instruction.
LEMMA Operand ==
  ASSUME NEW ip \in Nat
  PROVE  /\ OperandLength(ip) \in 0 .. 2
         /\ \A a \in ip + 1 .. ip + OperandLength(ip) : atoms[a].type # "INST"
<1>1. CASE atoms[ip + 1].type = "BYTE"
  <2>1. OperandLength(ip) = 1
    BY <1>1 DEF OperandLength
  <2>. QED
    BY <1>1, <2>1
<1>2. CASE atoms[ip + 1].type = "WORD_LO" /\ atoms[ip + 2].type = "WORD_HI"
  <2>1. OperandLength(ip) = 2
    BY <1>2 DEF OperandLength
  <2>2. ASSUME NEW a \in ip + 1 .. ip + 2 PROVE a = ip + 1 \/ a = ip + 2
    OBVIOUS
  <2>. QED
    BY <1>2, <2>1, <2>2
<1>3. CASE atoms[ip + 1].type = "WORD_LO" /\ atoms[ip + 2].type # "WORD_HI"
  <2>1. OperandLength(ip) = 1
    BY <1>3 DEF OperandLength
  <2>. QED
    BY <1>3, <2>1
<1>4. CASE atoms[ip + 1].type \notin {"BYTE", "WORD_LO"}
  <2>1. OperandLength(ip) = 0
    BY <1>4 DEF OperandLength
  <2>. QED
    BY <2>1
<1>. QED
  BY <1>1, <1>2, <1>3, <1>4

\* What follows an address is all that its lines depend on.
LEMMA LinesLookAhead ==
  ASSUME NEW ip \in Nat, NEW g, NEW h, \A i \in Nat : i > ip => h[i] = g[i]
  PROVE  LinesFrom(h, ip) = LinesFrom(g, ip)
<1>1. ip + 1 \in Nat /\ ip + 1 > ip
  OBVIOUS
<1>2. ip + OperandLength(ip) + 1 \in Nat /\ ip + OperandLength(ip) + 1 > ip
  BY Operand
<1>3. h[ip + 1] = g[ip + 1]
  BY <1>1
<1>4. h[ip + OperandLength(ip) + 1] = g[ip + OperandLength(ip) + 1]
  BY <1>2
<1>. QED
  BY <1>3, <1>4 DEF LinesFrom

LEMMA LinesExist == \E g : g = [ip \in Nat |-> LinesFrom(g, ip)]
<1> DEFINE Solves(g, k) ==
             /\ DOMAIN g = Nat /\ g = [ip \in Nat |-> g[ip]]
             /\ \A ip \in Nat : ip + k >= RamSize => g[ip] = LinesFrom(g, ip)
           Solvable(k) == \E g : Solves(g, k)
           Without == {k \in Nat : ~Solvable(k)}
<1>0. RamSize \in Nat
  BY LoaderAssumption DEF LoaderAssumption
<1>1. \A k \in Nat : k \notin Without => Solvable(k)
  <2>. HIDE DEF Solvable
  <2>. QED
    OBVIOUS
<1>2. \A k \in Without : k \in Nat /\ ~Solvable(k)
  <2>. HIDE DEF Solvable
  <2>. QED
    OBVIOUS
<1>3. Solvable(0)
  <2> DEFINE g == [ip \in Nat |-> {}]
  <2>1. \A ip \in Nat : ip >= RamSize => LinesFrom(g, ip) = {}
    BY DEF LinesFrom
  <2>2. Solves(g, 0)
    BY <2>1
  <2>. QED
    BY <2>2
<1>4. ASSUME NEW k \in Nat, Solvable(k) PROVE Solvable(k + 1)
  <2>1. PICK g : Solves(g, k)
    BY <1>4
  <2> DEFINE at == RamSize - (k + 1)
             h == [ip \in Nat |-> IF ip = at THEN LinesFrom(g, ip) ELSE g[ip]]
  <2>2. ASSUME NEW ip \in Nat, ip + (k + 1) >= RamSize
        PROVE  h[ip] = LinesFrom(h, ip)
    <3>1. \A i \in Nat : i > ip => h[i] = g[i]
      BY <1>0, <2>2
    <3>2. LinesFrom(h, ip) = LinesFrom(g, ip)
      <4>. HIDE DEF h
      <4>. QED
        BY <3>1, LinesLookAhead
    <3>3. CASE ip = at
      <4>1. h[ip] = LinesFrom(g, ip)
        BY <3>3
      <4>. QED
        BY <3>2, <4>1
    <3>4. CASE ip # at
      <4>1. h[ip] = g[ip]
        BY <3>4
      <4>2. ip + k >= RamSize
        BY <1>0, <2>2, <3>4
      <4>3. g[ip] = LinesFrom(g, ip)
        BY <2>1, <4>2
      <4>. QED
        BY <3>2, <4>1, <4>3
    <3>. QED
      BY <3>3, <3>4
  <2>3. DOMAIN h = Nat /\ h = [ip \in Nat |-> h[ip]]
    OBVIOUS
  <2>4. Solves(h, k + 1)
    <3>. HIDE DEF h
    <3>. QED
      BY <2>2, <2>3
  <2>. QED
    BY <2>4
<1>5. Solvable(RamSize)
  <2>. HIDE DEF Solvable
  <2>1. SUFFICES ASSUME Without # {} PROVE FALSE
    <3>. HIDE DEF Without
    <3>. QED
      BY <1>0, <1>1
  <2>. HIDE DEF Without
  <2>2. Without \subseteq Nat
    BY <1>2
  <2>3. PICK k \in Without : \A y \in Without : k <= y
    BY <2>1, <2>2, Least
  <2>4. k # 0
    BY <1>2, <1>3
  <2>5. k - 1 \in Nat /\ k - 1 \notin Without /\ k \in Nat
    BY <2>2, <2>3, <2>4
  <2>6. Solvable((k - 1) + 1)
    BY <1>1, <1>4, <2>5
  <2>7. (k - 1) + 1 = k
    BY <2>5
  <2>. QED
    BY <1>2, <2>6, <2>7
<1>6. PICK g : Solves(g, RamSize)
  BY <1>5
<1>7. ASSUME NEW ip \in Nat PROVE g[ip] = LinesFrom(g, ip)
  BY <1>0, <1>6
<1>8. g = [ip \in Nat |-> g[ip]]
  BY <1>6
<1>. QED
  BY <1>7, <1>8

LEMMA LinesEquation == \A ip \in Nat : Lines[ip] = LinesFrom(Lines, ip)
<1> DEFINE f == CHOOSE g : g = [ip \in Nat |-> LinesFrom(g, ip)]
<1>1. f = [ip \in Nat |-> LinesFrom(f, ip)]
  BY LinesExist
<1>2. Lines = f
  BY DEF Lines, LinesFrom
<1>. HIDE DEF f
<1>. QED
  BY <1>1, <1>2

Covers(l, a) == a \in l.at .. l.last

\* The lines from an address on: where they are, which instructions they are,
\* and that a byte that was read is on one of them and on no other.
Accounts(lines, ip) ==
  /\ \A l \in lines : l.at \in Nat /\ l.last \in Nat /\ l.at >= ip
  /\ \A l \in lines : l.type = "INST" => l.at \in Cell /\ atoms[l.at].type = "INST"
  /\ \A a \in Cell : a >= ip /\ atoms[a].type = "INST" =>
       \E l \in lines : l.type = "INST" /\ l.at = a
  /\ \A a \in Cell : a >= ip /\ atoms[a].type # "NONE" => \E l \in lines : Covers(l, a)
  /\ \A l, m \in lines, a \in Cell : Covers(l, a) /\ Covers(m, a) => l = m

LEMMA AddLine ==
  ASSUME NEW ip \in Cell, NEW last \in Nat, last >= ip, NEW type,
         atoms[ip].type = "INST" => type = "INST",
         type = "INST" => atoms[ip].type = "INST",
         \A a \in ip + 1 .. last : atoms[a].type # "INST",
         NEW S, Accounts(S, last + 1)
  PROVE  Accounts({[at |-> ip, last |-> last, type |-> type]} \cup S, ip)
<1> DEFINE new == [at |-> ip, last |-> last, type |-> type]
           T == {new} \cup S
<1>1. new.at = ip /\ new.last = last /\ new.type = type
  OBVIOUS
<1>2. RamSize \in Nat /\ ip \in Nat
  BY LoaderAssumption DEF LoaderAssumption, Cell
<1>3. \A a \in Cell : a \in Nat
  BY <1>2 DEF Cell
<1>4. \A a \in Cell : Covers(new, a) <=> a >= ip /\ a <= last
  BY <1>1, <1>2, <1>3 DEF Covers
<1>5. \A l \in S : l.at \in Nat /\ l.last \in Nat /\ l.at >= last + 1
  BY DEF Accounts
<1>6. \A l \in S, a \in Cell : Covers(l, a) => a > last
  BY <1>3, <1>5 DEF Covers
<1>. HIDE DEF new
<1>7. \A l \in T : l = new \/ l \in S
  OBVIOUS
<1>8. new \in T /\ S \subseteq T
  OBVIOUS
<1>. HIDE DEF T
<1>9. \A l \in T : l.at \in Nat /\ l.last \in Nat /\ l.at >= ip
  BY <1>1, <1>2, <1>5, <1>7
<1>10. \A l \in T : l.type = "INST" => l.at \in Cell /\ atoms[l.at].type = "INST"
  BY <1>1, <1>7 DEF Accounts
<1>11. ASSUME NEW a \in Cell, a >= ip, atoms[a].type = "INST"
       PROVE  \E l \in T : l.type = "INST" /\ l.at = a
  <2>1. CASE a = ip
    BY <1>1, <1>8, <1>11, <2>1
  <2>2. CASE a # ip
    <3>1. a >= last + 1
      BY <1>2, <1>3, <1>11, <2>2
    <3>. QED
      BY <1>8, <1>11, <3>1 DEF Accounts
  <2>. QED
    BY <2>1, <2>2
<1>12. ASSUME NEW a \in Cell, a >= ip, atoms[a].type # "NONE"
       PROVE  \E l \in T : Covers(l, a)
  <2>1. CASE a <= last
    BY <1>4, <1>8, <1>12, <2>1
  <2>2. CASE ~(a <= last)
    <3>1. a >= last + 1
      BY <1>2, <1>3, <2>2
    <3>. QED
      BY <1>8, <1>12, <3>1 DEF Accounts
  <2>. QED
    BY <2>1, <2>2
<1>13. ASSUME NEW l \in T, NEW m \in T, NEW a \in Cell, Covers(l, a), Covers(m, a)
       PROVE  l = m
  <2>1. CASE l \in S /\ m \in S
    BY <1>13, <2>1 DEF Accounts
  <2>2. CASE l = new \/ m = new
    BY <1>3, <1>4, <1>6, <1>7, <1>13, <2>2
  <2>. QED
    BY <1>7, <2>1, <2>2
<1>14. Accounts(T, ip)
  BY <1>9, <1>10, <1>11, <1>12, <1>13 DEF Accounts
<1>. QED
  BY <1>14 DEF T, new

LEMMA LinesAccount ==
  ASSUME NEW ip \in Nat,
         ip < RamSize => \A i \in Nat : i > ip => Accounts(Lines[i], i)
  PROVE  Accounts(Lines[ip], ip)
<1>1. RamSize \in Nat /\ \A a \in Cell : a \in Nat /\ a < RamSize
  BY LoaderAssumption DEF LoaderAssumption, Cell
<1>2. Lines[ip] = LinesFrom(Lines, ip)
  BY LinesEquation
<1>3. CASE ip >= RamSize
  <2>1. Lines[ip] = {}
    BY <1>2, <1>3 DEF LinesFrom
  <2>. QED
    BY <1>1, <1>3, <2>1 DEF Accounts
<1>4. CASE ip < RamSize
  <2>1. ip \in Cell /\ ip + 1 \in Nat /\ ip + 1 > ip /\ ~(ip >= RamSize)
    BY <1>1, <1>4 DEF Cell
  <2>2. Accounts(Lines[ip + 1], ip + 1)
    BY <1>4, <2>1
  <2>3. CASE atoms[ip].type = "NONE"
    <3>1. Lines[ip] = Lines[ip + 1]
      BY <1>2, <2>1, <2>3 DEF LinesFrom
    <3>2. \A a \in Cell : a >= ip /\ atoms[a].type # "NONE" => a >= ip + 1
      BY <1>1, <2>3
    <3>3. \A l \in Lines[ip + 1] : l.at \in Nat /\ l.last \in Nat /\ l.at >= ip
      BY <2>2 DEF Accounts
    <3>. QED
      BY <2>2, <3>1, <3>2, <3>3 DEF Accounts
  <2>4. CASE atoms[ip].type = "INST"
    <3> DEFINE last == ip + OperandLength(ip)
    <3>1. last \in Nat /\ last >= ip /\ last + 1 \in Nat /\ last + 1 > ip
      BY Operand
    <3>2. Lines[ip] = {[at |-> ip, last |-> last, type |-> "INST"]} \cup Lines[last + 1]
      BY <1>2, <2>1, <2>4 DEF LinesFrom
    <3>3. \A a \in ip + 1 .. last : atoms[a].type # "INST"
      BY Operand
    <3>. HIDE DEF last
    <3>4. Accounts(Lines[last + 1], last + 1)
      BY <1>4, <3>1
    <3>. QED
      BY <2>1, <2>4, <3>1, <3>2, <3>3, <3>4, AddLine
  <2>5. CASE atoms[ip].type \notin {"NONE", "INST"}
    <3>1. Lines[ip] = {[at |-> ip, last |-> ip, type |-> "stray"]} \cup Lines[ip + 1]
      BY <1>2, <2>1, <2>5 DEF LinesFrom
    <3>2. \A a \in ip + 1 .. ip : atoms[a].type # "INST"
      OBVIOUS
    <3>3. Accounts({[at |-> ip, last |-> ip, type |-> "stray"]} \cup Lines[ip + 1], ip)
      <4>1. ip >= ip /\ atoms[ip].type # "INST" /\ "stray" # "INST"
        BY <2>5
      <4>. QED
        BY <2>1, <2>2, <3>2, <4>1, AddLine
    <3>. QED
      BY <3>1, <3>3
  <2>. QED
    BY <2>3, <2>4, <2>5
<1>. QED
  BY <1>1, <1>3, <1>4

LEMMA AllLinesAccount == \A ip \in Nat : Accounts(Lines[ip], ip)
<1> DEFINE Good(k) == \A ip \in Nat : ip + k >= RamSize => Accounts(Lines[ip], ip)
           Bad == {k \in Nat : ~Good(k)}
<1>1. RamSize \in Nat
  BY LoaderAssumption DEF LoaderAssumption
<1>2. Good(0)
  BY <1>1, LinesAccount
<1>3. ASSUME NEW k \in Nat, Good(k) PROVE Good(k + 1)
  <2> SUFFICES ASSUME NEW ip \in Nat, ip + (k + 1) >= RamSize
               PROVE  Accounts(Lines[ip], ip)
    OBVIOUS
  <2>1. ASSUME NEW i \in Nat, i > ip PROVE Accounts(Lines[i], i)
    <3>1. i + k >= RamSize
      BY <1>1, <2>1
    <3>. QED
      BY <1>3, <3>1
  <2>. QED
    BY <2>1, LinesAccount
<1>4. Bad = {}
  <2>1. SUFFICES ASSUME Bad # {} PROVE FALSE
    OBVIOUS
  <2>2. /\ Bad \subseteq Nat
        /\ \A k \in Bad : ~Good(k)
        /\ \A k \in Nat : k \notin Bad => Good(k)
    <3>. HIDE DEF Good
    <3>. QED
      OBVIOUS
  <2>. HIDE DEF Bad, Good
  <2>3. PICK k \in Bad : \A y \in Bad : k <= y
    BY <2>1, <2>2, Least
  <2>4. k \in Nat /\ k # 0
    BY <1>2, <2>2
  <2>5. k - 1 \in Nat /\ k - 1 \notin Bad
    BY <2>2, <2>3, <2>4
  <2>6. Good((k - 1) + 1)
    BY <1>3, <2>2, <2>5
  <2>7. (k - 1) + 1 = k
    BY <2>4
  <2>. QED
    BY <2>2, <2>6, <2>7
<1>5. Good(RamSize)
  <2>. HIDE DEF Good
  <2>. QED
    BY <1>1, <1>4
<1>6. ASSUME NEW ip \in Nat PROVE Accounts(Lines[ip], ip)
  <2>1. ip + RamSize >= RamSize
    BY <1>1
  <2>. QED
    BY <1>5, <2>1
<1>. QED
  BY <1>6

LEMMA ExitKeeps == Exit => DisassemblyComplete'
<1> SUFFICES ASSUME Exit PROVE DisassemblyComplete'
  OBVIOUS
<1>1. listing' = Lines[0] /\ atoms' = atoms
  BY DEF Exit
<1>2. Accounts(listing', 0)
  BY <1>1, AllLinesAccount
<1>3. \A a \in Cell : a >= 0
  BY LoaderAssumption DEF LoaderAssumption, Cell
<1>4. {l.at : l \in {k \in listing' : k.type = "INST"}} = {a \in Cell : atoms[a].type = "INST"}
  BY <1>2, <1>3 DEF Accounts
<1>5. ASSUME NEW a \in Cell, atoms[a].type # "NONE"
      PROVE  Cardinality({l \in listing' : a \in l.at .. l.last}) = 1
  <2>1. PICK l \in listing' : Covers(l, a)
    BY <1>2, <1>3, <1>5 DEF Accounts
  <2>2. \A m \in listing' : Covers(m, a) => m = l
    BY <1>2, <2>1 DEF Accounts
  <2>3. {m \in listing' : a \in m.at .. m.last} = {l}
    BY <2>1, <2>2 DEF Covers
  <2>. QED
    BY <2>3, FS_Singleton
<1>. QED
  BY <1>1, <1>4, <1>5 DEF DisassemblyComplete

\* saveDisassembly runs when captures may have overwritten each other in any
\* way.  Still every instruction has its line, and every byte that was read is
\* on exactly one.
THEOREM DisassemblyCompleteAlways == LoaderSpec => []DisassemblyComplete
<1>1. ObservedInit => DisassemblyComplete
  BY DEF ObservedInit, NothingRead, DisassemblyComplete
<1>2. DisassemblyComplete /\ [LoaderNext]_loaderVars => DisassemblyComplete'
  <2> SUFFICES ASSUME DisassemblyComplete, [LoaderNext]_loaderVars PROVE DisassemblyComplete'
    OBVIOUS
  <2>1. CASE Exit
    BY <2>1, ExitKeeps
  <2>2. CASE UNCHANGED <<atoms, listing, saved>>
    BY <2>2 DEF DisassemblyComplete
  <2>3. CASE saved' # "written"
    BY <2>3 DEF DisassemblyComplete
  <2>4. ASSUME NEW pc, Watched(pc)
        PROVE  saved' # "written"
    <3>1. saved = "no" /\ (saved' = saved \/ \E id : Callback(id))
      BY <2>4 DEF Watched
    <3>2. \A id : Callback(id) => saved' = saved \/ saved' = "lost"
      BY DEF Callback, ReadInstr, CaptureWord, CaptureByte
    <3>. QED
      BY <3>1, <3>2
  <2>. QED
    BY <2>1, <2>2, <2>3, <2>4 DEF LoaderNext, Unwatched, loaderVars
<1>. QED
  BY <1>1, <1>2, PTL DEF LoaderSpec
=============================================================================
