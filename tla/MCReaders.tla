----------------------------- MODULE MCReaders -----------------------------
(***************************************************************************)
(* Inputs for Readers: the dumps of MCForth, program files, disk images,   *)
(* diskettes and arguments of disk commands.                               *)
(***************************************************************************)
EXTENDS MCForth, Readers

-----------------------------------------------------------------------------
\* Program files: none, the two bytes of the address, up to a block, and more.
MCExactSize == "registers" :> 3 @@ "ram" :> 8 @@ "disk" :> 9

-----------------------------------------------------------------------------
\* An image of one track of three sectors.  The track behind it, like those
\* from 36 on, is known to the program and not part of the image.
MCTracks == 0 :> 0 @@ 1 :> 3 @@ 2 :> 1

Links == {<<0, 0>>, <<0, 1>>, <<0, 3>>, <<1, 0>>, <<1, 1>>, <<1, 2>>, <<1, 3>>, <<2, 0>>, <<3, 0>>}

n0 == <<1, 0>>

NoFiles == <<"empty", "empty">>

DirImages ==
  [Place -> [link : {<<0, 0>>, <<1, 0>>, <<1, 1>>, <<1, 2>>, <<2, 0>>},
             slots : {<<"file", "empty">>, <<"file", "file">>, <<"empty", "bad">>}]]

FileImages == [Place -> [link : Links, slots : {NoFiles}]]

-----------------------------------------------------------------------------
\* A diskette with two sectors of its directory, of two entries each, two lists
\* of two pairs, and a sector that the VTOC may or may not count.
n1 == <<1, 1>>
n2 == <<1, 2>>
l1 == <<2, 1>>
l2 == <<2, 2>>
MCDsk == {n1, n2, l1, l2}
MCNames == {"HELLO", "HELLO.A.bas"}
MCFiles == MCNames \cup {"other"}

\* One of the names of entries is that of a translation.
MCTranslation ==
  [tn \in FileTypes \X MCNames |-> IF tn = <<"A", "HELLO">> THEN "HELLO.A.bas" ELSE "other"]

Sector(link, entries, pairs) == [link |-> link, entries |-> entries, pairs |-> pairs]

\* A file, and an entry that has never been used.
File(first, type, name) ==
  <<[first |-> first, type |-> type, name |-> name],
    [first |-> None, type |-> "T", name |-> "HELLO"]>>

Diskettes ==
  {n1 :> Sector(k1, File(f1, "T", nm1), <<>>)
     @@ n2 :> Sector(None, File(f2, t2, nm2), <<>>)
     @@ l1 :> Sector(k2, <<>>, p1)
     @@ l2 :> Sector(k3, <<>>, <<n2, None>>) :
   k1 \in {None, n1, n2}, f1 \in {l1, NoSector}, f2 \in {None, l1, l2},
   t2 \in {"A", "invalid"}, nm1 \in MCNames, nm2 \in MCNames,
   k2 \in {None, l1, l2}, k3 \in {None, l1}, p1 \in {<<n1, l2>>, <<None, n1>>, <<n2, NoSector>>}}

-----------------------------------------------------------------------------
Texts == UNION {[1 .. n -> {32, 44, 48, 57, 65}] : n \in 0 .. 4}
           \cup {<<58>> \o t : t \in [1 .. 4 -> {44, 57}]}
           \cup {<<44, 50, 53, 53>>, <<44, 50, 53, 54>>, <<0, 0, 0>>, <<0, 0, 1, 7>>}

-----------------------------------------------------------------------------
ReadersInit ==
  \/ /\ program = "forth"
     /\ \/ \E d \in Dumps : DecompileInit(d, 2, {Line(2, "main"), Line(14, "")})
        \/ DecompileInit([a \in Addr |-> 0], 2, {[addr |-> <<48, 48, 97, 50>>, label |-> "x"]})
     /\ BufferIdle /\ PrgIdle /\ ImageIdle /\ DumpIdle /\ CommandIdle
  \/ /\ program = "loading"
     /\ \E as \in {"prg"} \cup DOMAIN ExactSize : PrgInit(as)
     /\ ForthIdle /\ ImageIdle /\ DumpIdle /\ CommandIdle
  \/ /\ program = "image"
     /\ \/ \E i \in DirImages : ReadDirectory(i)
        \/ \E i \in FileImages, p \in {<<1, 0>>, <<2, 0>>, <<3, 0>>} : ReadFile(i, p)
     /\ ForthIdle /\ PrgIdle /\ DumpIdle /\ CommandIdle
  \/ /\ program = "diskdump"
     /\ \E d \in Diskettes, s \in {2, 3}, p \in {None, n1} : DumpInit(d, s, p)
     /\ ForthIdle /\ BufferIdle /\ PrgIdle /\ ImageIdle /\ CommandIdle
  \/ /\ program = "command"
     /\ \E t \in Texts, f \in Form : CommandInit(t, f)
     /\ ForthIdle /\ BufferIdle /\ PrgIdle /\ ImageIdle /\ DumpIdle

\* A sequential program takes its next step if there is one.
ReadersSpec == ReadersInit /\ [][ReadersNext]_readersVars /\ WF_readersVars(ReadersNext)
=============================================================================
