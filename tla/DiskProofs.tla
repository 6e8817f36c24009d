---------------------------- MODULE DiskProofs ----------------------------
(***************************************************************************)
(* Proofs about what is read from disks: DiskImage and AppleDump, which    *)
(* follow chains of sectors, for every geometry, every size of a sector,   *)
(* of a directory and of its tables, and every image, wherever its chains  *)
(* lead; and DiskCommands, for every text.                                 *)
(***************************************************************************)
EXTENDS DiskImage, AppleDump, DiskCommands, FiniteSetTheorems, WellFoundedInduction, TLAPS

-----------------------------------------------------------------------------
(***************************************************************************)
(* Recursion, and chains that end.                                         *)
(***************************************************************************)
\* A set of numbers that holds one of Nat holds a least.
LEMMA LeastNumber ==
  ASSUME NEW T, T \subseteq Nat, T # {}
  PROVE  \E x \in T : \A y \in T : x <= y
<1> DEFINE R == OpToRel(<, Nat)
<1>1. IsWellFoundedOn(R, Nat)
  BY NatLessThanWellFounded
<1>2. \A x, y \in Nat : x < y => <<x, y>> \in R
  BY DEF OpToRel
<1>. HIDE DEF R
<1>3. PICK x \in T : \A y \in T : <<y, x>> \notin R
  BY <1>1, WFMin
<1>4. \A y \in T : ~(y < x)
  BY <1>2, <1>3
<1>. QED
  BY <1>4

\* Two recursions that agree at first and in every step agree.
Agree(c, g, m) ==
  /\ c[0] = g[0]
  /\ \A n \in Nat : n < m /\ c[n] = g[n] => c[n + 1] = g[n + 1]

LEMMA SameRecursion ==
  ASSUME NEW c, NEW g, NEW m \in Nat, Agree(c, g, m)
  PROVE  \A n \in 0 .. m : c[n] = g[n]
<1>0. c[0] = g[0] /\ \A n \in Nat : n < m /\ c[n] = g[n] => c[n + 1] = g[n + 1]
  BY DEF Agree
<1> DEFINE Off == {n \in 0 .. m : c[n] # g[n]}
<1>. SUFFICES ASSUME Off # {} PROVE FALSE
  OBVIOUS
<1>1. Off \subseteq Nat /\ (\A n \in Off : n \in 0 .. m /\ c[n] # g[n])
      /\ \A n \in 0 .. m : n \notin Off => c[n] = g[n]
  OBVIOUS
<1>. HIDE DEF Off
<1>2. PICK n \in Off : \A i \in Off : n <= i
  BY <1>1, LeastNumber
<1>3. n # 0
  BY <1>0, <1>1, <1>2
<1>4. n - 1 \in 0 .. m /\ n - 1 \in Nat /\ n - 1 < m /\ (n - 1) + 1 = n /\ n - 1 \notin Off
  BY <1>1, <1>2, <1>3
<1>5. c[n - 1] = g[n - 1]
  BY <1>1, <1>4
<1>6. c[(n - 1) + 1] = g[(n - 1) + 1]
  BY <1>0, <1>4, <1>5
<1>. QED
  BY <1>1, <1>2, <1>4, <1>6

Iterates(c, S, s, F) ==
  c \in [Nat -> S] /\ c[0] = s /\ \A n \in Nat : c[n + 1] = F[c[n]]

\* Iterating a function from a value is well defined.
LEMMA Iteration ==
  ASSUME NEW S, NEW s \in S, NEW F \in [S -> S]
  PROVE  \E c : Iterates(c, S, s, F)
<1> DEFINE Solves(g, m) ==
             g \in [0 .. m -> S] /\ g[0] = s /\ \A n \in 0 .. m - 1 : g[n + 1] = F[g[n]]
           Solvable(m) == \E g : Solves(g, m)
           Without == {m \in Nat : ~Solvable(m)}
<1>1. \A m \in Nat : m \notin Without => Solvable(m)
  <2>. HIDE DEF Solvable
  <2>. QED
    OBVIOUS
<1>2. Without \subseteq Nat /\ \A m \in Without : ~Solvable(m)
  <2>. HIDE DEF Solvable
  <2>. QED
    OBVIOUS
<1>3. Solvable(0)
  <2>1. Solves([n \in 0 .. 0 |-> s], 0)
    OBVIOUS
  <2>. QED
    BY <2>1
<1>4. ASSUME NEW m \in Nat, Solvable(m) PROVE Solvable(m + 1)
  <2>1. PICK g : Solves(g, m)
    BY <1>4
  <2> DEFINE h == [n \in 0 .. m + 1 |-> IF n <= m THEN g[n] ELSE F[g[m]]]
  <2>2. g[m] \in S /\ \A n \in 0 .. m : g[n] \in S
    BY <2>1
  <2>3. h \in [0 .. m + 1 -> S]
    BY <2>2
  <2>4. h[0] = s
    BY <2>1
  <2>5. \A n \in 0 .. m : h[n + 1] = F[h[n]]
    <3>1. TAKE n \in 0 .. m
    <3>2. CASE n = m
      BY <3>2
    <3>3. CASE n # m
      <4>1. n \in 0 .. m - 1 /\ n + 1 \in 0 .. m
        BY <3>3
      <4>2. h[n + 1] = g[n + 1] /\ h[n] = g[n]
        BY <4>1
      <4>3. g[n + 1] = F[g[n]]
        BY <2>1, <4>1
      <4>. QED
        BY <4>2, <4>3
    <3>. QED
      BY <3>2, <3>3
  <2>. HIDE DEF h
  <2>6. Solves(h, m + 1)
    BY <2>3, <2>4, <2>5
  <2>. QED
    BY <2>6
<1>5. \A m \in Nat : Solvable(m)
  <2>. SUFFICES ASSUME Without # {} PROVE FALSE
    BY <1>1
  <2>. HIDE DEF Solvable, Without
  <2>1. PICK m \in Without : \A k \in Without : m <= k
    BY <1>2, LeastNumber
  <2>2. m # 0
    BY <1>2, <1>3, <2>1
  <2>3. m - 1 \in Nat /\ m - 1 \notin Without
    BY <1>2, <2>1, <2>2
  <2>4. Solvable((m - 1) + 1)
    BY <1>1, <1>4, <2>3
  <2>5. (m - 1) + 1 = m
    BY <1>2, <2>1
  <2>. QED
    BY <1>2, <2>1, <2>4, <2>5
<1>6. ASSUME NEW m \in Nat, NEW g, Solves(g, m), NEW k \in Nat, NEW h, Solves(h, k),
             NEW n \in Nat, n <= m, n <= k
      PROVE  g[n] = h[n]
  <2> DEFINE Apart == {i \in Nat : i <= n /\ g[i] # h[i]}
  <2>. SUFFICES ASSUME Apart # {} PROVE FALSE
    BY <1>6
  <2>1. Apart \subseteq Nat /\ \A i \in Apart : i <= n /\ g[i] # h[i]
    OBVIOUS
  <2>2. \A i \in Nat : i <= n /\ i \notin Apart => g[i] = h[i]
    OBVIOUS
  <2>. HIDE DEF Apart
  <2>3. PICK i \in Apart : \A j \in Apart : i <= j
    BY <2>1, LeastNumber
  <2>4. i # 0
    BY <1>6, <2>1, <2>3
  <2>5. i - 1 \in Nat /\ i - 1 <= n /\ i - 1 \notin Apart
    BY <2>1, <2>3, <2>4
  <2>6. g[i - 1] = h[i - 1]
    BY <2>2, <2>5
  <2>7. i - 1 \in 0 .. m - 1 /\ i - 1 \in 0 .. k - 1 /\ (i - 1) + 1 = i
    BY <1>6, <2>1, <2>3, <2>5
  <2>8. g[i] = F[g[i - 1]] /\ h[i] = F[h[i - 1]]
    BY <1>6, <2>7
  <2>. QED
    BY <2>1, <2>3, <2>6, <2>8
<1> DEFINE Sol(m) == CHOOSE g : Solves(g, m)
           c == [n \in Nat |-> Sol(n)[n]]
<1>7. \A m \in Nat : Solves(Sol(m), m)
  BY <1>5
<1>. HIDE DEF Sol
<1>8. c \in [Nat -> S]
  BY <1>7
<1>9. c[0] = s
  BY <1>7
<1>10. ASSUME NEW n \in Nat PROVE c[n + 1] = F[c[n]]
  <2>1. n \in 0 .. (n + 1) - 1 /\ n + 1 \in Nat
    OBVIOUS
  <2>2. Solves(Sol(n + 1), n + 1) /\ Solves(Sol(n), n)
    BY <1>7, <2>1
  <2>3. Sol(n + 1)[n + 1] = F[Sol(n + 1)[n]]
    BY <2>1, <2>2
  <2>4. Sol(n + 1)[n] = Sol(n)[n]
    <3>. HIDE DEF Solves
    <3>. QED
      BY <1>6, <2>1, <2>2
  <2>. QED
    BY <2>1, <2>3, <2>4
<1>. HIDE DEF c
<1>11. Iterates(c, S, s, F)
  BY <1>8, <1>9, <1>10 DEF Iterates
<1>. QED
  BY <1>11

\* The same, when the function is told how often it has been applied.
Counts(c, S, s, F) ==
  c \in [Nat -> S] /\ c[0] = s /\ \A n \in Nat : c[n + 1] = F[<<n, c[n]>>]

LEMMA CountedIteration ==
  ASSUME NEW S, NEW s \in S, NEW F \in [Nat \X S -> S]
  PROVE  \E c : Counts(c, S, s, F)
<1> DEFINE T == Nat \X S
           G == [x \in T |-> <<x[1] + 1, F[x]>>]
<1>1. G \in [T -> T] /\ <<0, s>> \in T
  OBVIOUS
<1>2. \A n \in Nat, y \in S : G[<<n, y>>] = <<n + 1, F[<<n, y>>]>>
  OBVIOUS
<1>. HIDE DEF G
<1>3. PICK d : Iterates(d, T, <<0, s>>, G)
  BY <1>1, Iteration
<1>4. d \in [Nat -> T] /\ d[0] = <<0, s>> /\ \A n \in Nat : d[n + 1] = G[d[n]]
  BY <1>3 DEF Iterates
<1> DEFINE Off == {n \in Nat : d[n][1] # n}
<1>5. Off = {}
  <2>. SUFFICES ASSUME Off # {} PROVE FALSE
    OBVIOUS
  <2>1. Off \subseteq Nat /\ (\A n \in Off : d[n][1] # n)
        /\ \A n \in Nat : n \notin Off => d[n][1] = n
    OBVIOUS
  <2>. HIDE DEF Off
  <2>2. PICK n \in Off : \A m \in Off : n <= m
    BY <2>1, LeastNumber
  <2>3. n # 0
    BY <1>4, <2>1, <2>2
  <2>4. n - 1 \in Nat /\ (n - 1) + 1 = n /\ n - 1 \notin Off
    BY <2>1, <2>2, <2>3
  <2>5. d[n - 1] = <<n - 1, d[n - 1][2]>> /\ d[n - 1][2] \in S
    <3>1. d[n - 1] \in Nat \X S /\ d[n - 1][1] = n - 1
      BY <1>4, <2>1, <2>4
    <3>. QED
      BY <3>1
  <2>6. d[n] = <<(n - 1) + 1, F[<<n - 1, d[n - 1][2]>>]>>
    <3>1. d[n] = G[d[n - 1]]
      BY <1>4, <2>4
    <3>. QED
      BY <1>2, <2>4, <2>5, <3>1
  <2>. QED
    BY <2>1, <2>2, <2>4, <2>6
<1> DEFINE c == [n \in Nat |-> d[n][2]]
<1>6. ASSUME NEW n \in Nat PROVE d[n] = <<n, c[n]>> /\ c[n] \in S
  <2>1. d[n] \in Nat \X S /\ d[n][1] = n
    BY <1>4, <1>5
  <2>. QED
    BY <2>1
<1>7. c \in [Nat -> S]
  BY <1>6
<1>8. c[0] = s
  BY <1>4
<1>9. ASSUME NEW n \in Nat PROVE c[n + 1] = F[<<n, c[n]>>]
  <2>. HIDE DEF c
  <2>1. d[n + 1] = <<n + 1, F[<<n, c[n]>>]>>
    <3>1. d[n + 1] = G[d[n]] /\ d[n] = <<n, c[n]>> /\ c[n] \in S
      BY <1>4, <1>6
    <3>. QED
      BY <1>2, <3>1
  <2>2. d[n + 1] = <<n + 1, c[n + 1]>>
    BY <1>6
  <2>. QED
    BY <2>1, <2>2
<1>. HIDE DEF c
<1>10. Counts(c, S, s, F)
  BY <1>7, <1>8, <1>9 DEF Counts
<1>. QED
  BY <1>10

\* A chain of members of P that leaves P does not come back to a place before:
\* what follows a place that came back would leave P as well.
LEMMA EndsApart ==
  ASSUME NEW S, NEW s, NEW F, NEW P, NEW c, Iterates(c, S, s, F),
         NEW k \in Nat, \A j \in 0 .. k - 1 : c[j] \in P, c[k] \notin P
  PROVE  \A i, j \in 0 .. k - 1 : i # j => c[i] # c[j]
<1> DEFINE Left == {n \in Nat : \E i, j \in 0 .. k - 1 : i < j /\ c[i] = c[j] /\ n = k - j}
<1>1. \A n \in Nat : c[n + 1] = F[c[n]]
  BY DEF Iterates
<1>2. Left \subseteq Nat
      /\ \A n \in Left : \E i, j \in 0 .. k - 1 : i < j /\ c[i] = c[j] /\ n = k - j
  OBVIOUS
<1>3. ASSUME NEW i \in 0 .. k - 1, NEW j \in 0 .. k - 1, i < j, c[i] = c[j]
      PROVE  k - j \in Left
  BY <1>3
<1>. HIDE DEF Left
<1>4. ASSUME Left # {} PROVE FALSE
  <2>1. PICK n \in Left : \A m \in Left : n <= m
    BY <1>2, <1>4, LeastNumber
  <2>2. PICK i \in 0 .. k - 1, j \in 0 .. k - 1 : i < j /\ c[i] = c[j] /\ n = k - j
    BY <1>2, <2>1
  <2>3. c[i + 1] = c[j + 1]
    BY <1>1, <2>2
  <2>4. CASE j + 1 = k
    <3>1. i + 1 \in 0 .. k - 1
      BY <2>2, <2>4
    <3>. QED
      BY <2>3, <2>4, <3>1
  <2>5. CASE j + 1 # k
    <3>1. i + 1 \in 0 .. k - 1 /\ j + 1 \in 0 .. k - 1 /\ i + 1 < j + 1
      BY <2>2, <2>5
    <3>2. k - (j + 1) \in Left
      BY <1>3, <2>3, <3>1
    <3>. QED
      BY <2>1, <2>2, <3>2
  <2>. QED
    BY <2>4, <2>5
<1>5. ASSUME NEW i \in 0 .. k - 1, NEW j \in 0 .. k - 1, i # j, c[i] = c[j] PROVE FALSE
  <2>1. CASE i < j
    BY <1>3, <1>4, <1>5, <2>1
  <2>2. CASE j < i
    BY <1>3, <1>4, <1>5, <2>2
  <2>. QED
    BY <1>5, <2>1, <2>2
<1>. QED
  BY <1>5

\* It is not longer than P is large.
LEMMA EndsSoon ==
  ASSUME NEW P, IsFiniteSet(P), NEW c, NEW k \in Nat,
         \A j \in 0 .. k - 1 : c[j] \in P,
         \A i, j \in 0 .. k - 1 : i # j => c[i] # c[j]
  PROVE  Cardinality(P) \in Nat /\ k <= Cardinality(P)
<1> DEFINE S == 0 .. k - 1
           f == [j \in S |-> c[j]]
<1>1. f \in [S -> P] /\ \A i, j \in S : f[i] = f[j] => i = j
  OBVIOUS
<1>2. IsFiniteSet(S) /\ Cardinality(S) = k
  <2>1. 0 \in Int /\ k - 1 \in Int
    OBVIOUS
  <2>2. IsFiniteSet(0 .. k - 1)
        /\ Cardinality(0 .. k - 1) = IF 0 > k - 1 THEN 0 ELSE (k - 1) - 0 + 1
    BY <2>1, FS_Interval
  <2>. QED
    BY <2>2
<1>. HIDE DEF S, f
<1>3. ~(Cardinality(P) < Cardinality(S))
  BY <1>1, <1>2, FS_PigeonHole
<1>4. Cardinality(P) \in Nat
  BY FS_CardinalityType
<1>. QED
  BY <1>2, <1>3, <1>4

\* It stays outside when nothing leads back into P.
LEMMA NothingBehind ==
  ASSUME NEW S, NEW s, NEW F, NEW P, NEW c, Iterates(c, S, s, F),
         \A x \in S : x \notin P => F[x] \notin P,
         NEW k \in Nat, c[k] \notin P
  PROVE  \A n \in Nat : n >= k => c[n] \notin P
<1> DEFINE Later == {n \in Nat : n >= k /\ c[n] \in P}
<1>1. \A n \in Nat : c[n + 1] = F[c[n]] /\ c[n] \in S
  BY DEF Iterates
<1>. SUFFICES ASSUME Later # {} PROVE FALSE
  OBVIOUS
<1>2. Later \subseteq Nat /\ (\A n \in Later : n >= k /\ c[n] \in P)
      /\ \A n \in Nat : n >= k /\ n \notin Later => c[n] \notin P
  OBVIOUS
<1>. HIDE DEF Later
<1>3. PICK n \in Later : \A m \in Later : n <= m
  BY <1>2, LeastNumber
<1>4. n # k
  BY <1>2, <1>3
<1>5. n - 1 \in Nat /\ n - 1 >= k /\ (n - 1) + 1 = n /\ n - 1 \notin Later
  BY <1>2, <1>3, <1>4
<1>6. c[n - 1] \notin P
  BY <1>2, <1>5
<1>7. c[n] = F[c[n - 1]]
  BY <1>1, <1>5
<1>8. c[n - 1] \in S
  BY <1>1, <1>5
<1>. QED
  BY <1>2, <1>3, <1>6, <1>7, <1>8

-----------------------------------------------------------------------------
(***************************************************************************)
(* The images of DiskImage.                                                *)
(***************************************************************************)
\* What a sector can hold: any two bytes for a link.
Image == [Place -> [link : Nat \X Nat, slots : [1 .. Slots -> {"empty", "bad", "file"}]]]

\* Reading the directory of an image.
DirectorySpec(image) == ReadDirectory(image) /\ [][ImageNext]_imageVars

NoPlace == <<0, 0>>

LEMMA PlaceType == \A p \in Place : p \in Nat \X Nat /\ p[1] # 0
<1> SUFFICES ASSUME NEW p \in Place PROVE p \in Nat \X Nat /\ p[1] # 0
  OBVIOUS
<1>1. PICK t \in 1 .. ImageTracks : p \in {t} \X (0 .. TRACK_INFO[t] - 1)
  BY DEF Place
<1>. QED
  BY <1>1, ImageAssumption DEF ImageAssumption

LEMMA NoPlaceIsNone == NoPlace \notin Place
BY PlaceType DEF NoPlace

LEMMA PlaceFinite == IsFiniteSet(Place) /\ Cardinality(Place) \in Nat
<1> DEFINE SectorsOf(t) == {t} \X (0 .. TRACK_INFO[t] - 1)
           Tracks == {SectorsOf(t) : t \in 1 .. ImageTracks}
           f == [t \in 1 .. ImageTracks |-> SectorsOf(t)]
<1>1. ImageTracks \in Int /\ IsFiniteSet(1 .. ImageTracks)
  BY ImageAssumption, FS_Interval DEF ImageAssumption
<1>2. ASSUME NEW T \in Tracks PROVE IsFiniteSet(T)
  <2>1. PICK t \in 1 .. ImageTracks : T = SectorsOf(t)
    BY <1>2
  <2>2. TRACK_INFO[t] - 1 \in Int
    <3>1. t \in Track
      BY ImageAssumption DEF ImageAssumption
    <3>. QED
      BY <3>1, ImageAssumption DEF ImageAssumption
  <2>3. IsFiniteSet({t})
    BY FS_Singleton
  <2>4. IsFiniteSet(0 .. TRACK_INFO[t] - 1)
    <3>1. \A n \in Int : IsFiniteSet(0 .. n)
      BY FS_Interval
    <3>. QED
      BY <2>2, <3>1
  <2>. QED
    BY <2>1, <2>3, <2>4, FS_Product
<1>3. IsFiniteSet(Tracks)
  <2>1. \A t \in 1 .. ImageTracks : SectorsOf(t) \in Tracks
    OBVIOUS
  <2>2. \A T \in Tracks : \E t \in 1 .. ImageTracks : T = SectorsOf(t)
    OBVIOUS
  <2>. HIDE DEF SectorsOf, Tracks
  <2>3. f \in [1 .. ImageTracks -> Tracks]
    BY <2>1
  <2>4. \A T \in Tracks : \E t \in 1 .. ImageTracks : f[t] = T
    BY <2>2
  <2>. HIDE DEF f
  <2>5. f \in Surjection(1 .. ImageTracks, Tracks)
    BY <2>3, <2>4 DEF Surjection
  <2>. QED
    BY <1>1, <2>5, FS_Surjection
<1>4. Place = UNION Tracks
  BY DEF Place
<1>. QED
  BY <1>2, <1>3, <1>4, FS_UNION, FS_CardinalityType

-----------------------------------------------------------------------------
(***************************************************************************)
(* The chain of the directory.                                             *)
(***************************************************************************)
\* The place behind a place of an image.
Onward(image) ==
  [p \in Nat \X Nat |-> IF p \in Place THEN image[p].link ELSE NoPlace]

\* The links of an image, followed from DirStart.
Links(image) == CHOOSE c : Iterates(c, Nat \X Nat, DirStart, Onward(image))

LEMMA OnwardType ==
  ASSUME NEW image \in Image
  PROVE  /\ Onward(image) \in [Nat \X Nat -> Nat \X Nat]
         /\ \A p \in Place : Onward(image)[p] = image[p].link
         /\ \A p \in Nat \X Nat : p \notin Place => Onward(image)[p] = NoPlace
<1>1. \A p \in Place : image[p].link \in Nat \X Nat
  BY DEF Image
<1>. QED
  BY <1>1, PlaceType DEF Onward, NoPlace

LEMMA LinksIterate ==
  ASSUME NEW image \in Image
  PROVE  Iterates(Links(image), Nat \X Nat, DirStart, Onward(image))
<1>1. DirStart \in Nat \X Nat
  BY ImageAssumption, PlaceType DEF ImageAssumption
<1>2. PICK c : Iterates(c, Nat \X Nat, DirStart, Onward(image))
  BY <1>1, OnwardType, Iteration
<1>. QED
  BY <1>2 DEF Links

LEMMA LinksFollow ==
  ASSUME NEW image \in Image
  PROVE  /\ Links(image) \in [Nat -> Nat \X Nat]
         /\ Links(image)[0] = DirStart
         /\ \A n \in Nat : Links(image)[n + 1] =
              IF Links(image)[n] \in Place THEN image[Links(image)[n]].link ELSE NoPlace
<1> DEFINE L == Links(image)
<1>1. L \in [Nat -> Nat \X Nat] /\ L[0] = DirStart
      /\ \A n \in Nat : L[n + 1] = Onward(image)[L[n]]
  BY LinksIterate DEF Iterates
<1>. HIDE DEF L
<1>2. \A n \in Nat : L[n] \in Nat \X Nat
  BY <1>1
<1>3. \A n \in Nat : L[n + 1] = IF L[n] \in Place THEN image[L[n]].link ELSE NoPlace
  BY <1>1, <1>2, OnwardType
<1>. QED
  BY <1>1, <1>3 DEF L

\* Chain is that chain.
LEMMA ChainLinks ==
  ASSUME NEW image \in Image, disk = image, start = DirStart
  PROVE  \A n \in Nat : Chain[n] = Links(image)[n]
<1> DEFINE L == Links(image)
           Body(c) == [n \in Nat |-> IF n = 0 THEN start
                                     ELSE LET before == c[n - 1]
                                          IN  IF before \in Place THEN disk[before].link
                                              ELSE <<0, 0>>]
<1>1. /\ L \in [Nat -> Nat \X Nat] /\ L[0] = DirStart
      /\ \A n \in Nat : L[n + 1] = IF L[n] \in Place THEN image[L[n]].link ELSE NoPlace
  BY LinksFollow
<1>2. \A n \in Nat : L[n] = Body(L)[n]
  <2>1. TAKE n \in Nat
  <2>2. CASE n = 0
    BY <1>1, <2>2
  <2>3. CASE n # 0
    <3>1. n - 1 \in Nat /\ (n - 1) + 1 = n
      BY <2>3
    <3>2. L[n] = IF L[n - 1] \in Place THEN image[L[n - 1]].link ELSE NoPlace
      <4>. HIDE DEF L
      <4>1. L[(n - 1) + 1] = IF L[n - 1] \in Place THEN image[L[n - 1]].link ELSE NoPlace
        BY <1>1, <3>1
      <4>. QED
        BY <3>1, <4>1
    <3>. QED
      BY <2>3, <3>2 DEF NoPlace
  <2>. QED
    BY <2>2, <2>3
<1>3. L = Body(L)
  <2>1. L \in [Nat -> Nat \X Nat]
    BY <1>1
  <2>. HIDE DEF L
  <2>. QED
    BY <1>2, <2>1
<1>4. Chain = Body(Chain)
  <2>. HIDE DEF L
  <2>. QED
    BY <1>3 DEF Chain
<1> DEFINE Apart == {n \in Nat : Chain[n] # L[n]}
<1>. HIDE DEF L
<1>. SUFFICES ASSUME \E n \in Nat : Chain[n] # L[n] PROVE FALSE
  BY DEF L
<1>5. Apart # {} /\ Apart \subseteq Nat /\ (\A n \in Apart : Chain[n] # L[n])
      /\ \A n \in Nat : n \notin Apart => Chain[n] = L[n]
  OBVIOUS
<1>. HIDE DEF Apart
<1>6. PICK n \in Apart : \A m \in Apart : n <= m
  BY <1>5, LeastNumber
<1>7. \A m \in Nat : Chain[m] = Body(Chain)[m]
  BY <1>4
<1>8. n # 0
  BY <1>2, <1>5, <1>6, <1>7
<1>9. n - 1 \in Nat /\ Chain[n - 1] = L[n - 1]
  BY <1>5, <1>6, <1>8
<1>10. Chain[n] = L[n]
  BY <1>2, <1>5, <1>6, <1>7, <1>9
<1>. QED
  BY <1>5, <1>6, <1>10

-----------------------------------------------------------------------------
(***************************************************************************)
(* What has been listed after k sectors of the chain.                      *)
(***************************************************************************)
\* The files of the first k sectors, of the k-th up to entry s.
Seen(image, k, s) ==
  {e \in Place \X (0 .. Slots - 1) :
     /\ image[e[1]].slots[e[2] + 1] = "file"
     /\ \/ \E j \in 0 .. k - 2 : e[1] = Links(image)[j]
        \/ k > 0 /\ e[1] = Links(image)[k - 1] /\ e[2] < s}

\* The first k places of the chain are all sectors, and no two the same one.
Apart(image, k) ==
  \A i, j \in 0 .. k - 1 : i # j => Links(image)[i] # Links(image)[j]

\* Of two files the one listed first is of an earlier sector among the first k,
\* or of an earlier entry of the same.
Ordered(image, k) ==
  \A i, j \in DOMAIN listed : i < j =>
    \E m, n \in 0 .. k - 1 :
      /\ Links(image)[m] = listed[i][1] /\ Links(image)[n] = listed[j][1]
      /\ m < n \/ (m = n /\ listed[i][2] < listed[j][2])

\* The walk is in the k-th sector of the chain.  Files are listed twice only
\* along a chain that comes back to where it has been.
Walked(image, k) ==
  /\ next = Links(image)[k]
  /\ \A j \in 0 .. k - 1 : Links(image)[j] \in Place
  /\ slot \in 0 .. Slots
  /\ k = 0 => slot = Slots
  /\ k > 0 => here = Links(image)[k - 1]
  /\ listed \in Seq(Place \X Nat)
  /\ ToSet(listed) = Seen(image, k, slot)
  /\ Apart(image, k) => IsInjective(listed)
  /\ Ordered(image, k)

Walking(image) == \E k \in Nat : Walked(image, k)

DirectoryInv(image) ==
  /\ disk = image /\ start = DirStart
  /\ walk \in {"directory", "listed", "stopped", "overrun"}
  /\ walk \in {"directory", "listed"} => Walking(image)
  /\ walk = "listed" => slot = Slots /\ next[1] = 0

LEMMA SlotsType == Slots \in Nat
BY ImageAssumption DEF ImageAssumption

LEMMA SeenNothing == ASSUME NEW image, NEW s PROVE Seen(image, 0, s) = {}
BY DEF Seen

\* On to the next sector.
LEMMA SeenSector ==
  ASSUME NEW image, NEW k \in Nat
  PROVE  Seen(image, k + 1, 0) = Seen(image, k, Slots)
<1>1. ASSUME NEW e \in Place \X (0 .. Slots - 1)
      PROVE  (\/ \E j \in 0 .. (k + 1) - 2 : e[1] = Links(image)[j]
              \/ k + 1 > 0 /\ e[1] = Links(image)[(k + 1) - 1] /\ e[2] < 0)
             <=> \/ \E j \in 0 .. k - 2 : e[1] = Links(image)[j]
                 \/ k > 0 /\ e[1] = Links(image)[k - 1] /\ e[2] < Slots
  <2>1. e[2] \in 0 .. Slots - 1
    OBVIOUS
  <2>2. ~(e[2] < 0) /\ e[2] < Slots
    BY <2>1, SlotsType
  <2>3. (k + 1) - 2 = k - 1
    OBVIOUS
  <2>4. k > 0 => 0 .. k - 1 = (0 .. k - 2) \cup {k - 1}
    OBVIOUS
  <2>5. k = 0 => 0 .. k - 1 = {}
    OBVIOUS
  <2>. QED
    BY <2>2, <2>3, <2>4, <2>5
<1>. QED
  BY <1>1 DEF Seen

\* On to the next entry, of a file or not.
LEMMA SeenEntry ==
  ASSUME NEW image, NEW k \in Nat, k > 0, NEW s \in 0 .. Slots - 1,
         Links(image)[k - 1] \in Place
  PROVE  Seen(image, k, s + 1) =
           IF image[Links(image)[k - 1]].slots[s + 1] = "file"
           THEN Seen(image, k, s) \cup {<<Links(image)[k - 1], s>>}
           ELSE Seen(image, k, s)
<1> DEFINE p == Links(image)[k - 1]
           new == <<p, s>>
<1>1. ASSUME NEW e \in Place \X (0 .. Slots - 1)
      PROVE  (e[1] = p /\ e[2] < s + 1) <=> (e[1] = p /\ e[2] < s) \/ e = new
  <2>1. e[2] \in 0 .. Slots - 1 /\ s \in Int
    OBVIOUS
  <2>2. e[2] < s + 1 <=> e[2] < s \/ e[2] = s
    BY <2>1
  <2>3. e = <<e[1], e[2]>>
    OBVIOUS
  <2>. QED
    BY <2>2, <2>3
<1>2. new \in Place \X (0 .. Slots - 1) /\ new[1] = p /\ new[2] = s
  OBVIOUS
<1>. HIDE DEF new
<1>3. \A e \in Place \X (0 .. Slots - 1) :
        e \in Seen(image, k, s + 1) <=>
          e \in Seen(image, k, s) \/ (e = new /\ image[p].slots[s + 1] = "file")
  BY <1>1, <1>2 DEF Seen
<1>4. /\ Seen(image, k, s + 1) \subseteq Place \X (0 .. Slots - 1)
      /\ Seen(image, k, s) \subseteq Place \X (0 .. Slots - 1)
  BY DEF Seen
<1>. HIDE DEF p
<1>5. Seen(image, k, s + 1) = IF image[p].slots[s + 1] = "file"
                              THEN Seen(image, k, s) \cup {new} ELSE Seen(image, k, s)
  BY <1>2, <1>3, <1>4
<1>. QED
  BY <1>5 DEF p, new

\* A file that has not been seen yet is not listed yet, unless the chain has
\* come back.
LEMMA NotSeen ==
  ASSUME NEW image, NEW k \in Nat, k > 0, NEW s \in Nat, Apart(image, k)
  PROVE  <<Links(image)[k - 1], s>> \notin Seen(image, k, s)
<1> DEFINE new == <<Links(image)[k - 1], s>>
<1>1. new[1] = Links(image)[k - 1] /\ ~(new[2] < s)
  OBVIOUS
<1>2. \A j \in 0 .. k - 2 : Links(image)[j] # Links(image)[k - 1]
  BY DEF Apart
<1>. HIDE DEF new
<1>3. new \notin Seen(image, k, s)
  BY <1>1, <1>2 DEF Seen
<1>. QED
  BY <1>3 DEF new

LEMMA Appended ==
  ASSUME NEW S, NEW q \in Seq(S), NEW x \in S
  PROVE  /\ Append(q, x) \in Seq(S)
         /\ ToSet(Append(q, x)) = ToSet(q) \cup {x}
         /\ IsInjective(q) /\ x \notin ToSet(q) => IsInjective(Append(q, x))
<1> DEFINE r == Append(q, x)
<1>1. /\ r \in Seq(S) /\ Len(r) = Len(q) + 1 /\ Len(q) \in Nat
      /\ DOMAIN r = 1 .. Len(q) + 1 /\ DOMAIN q = 1 .. Len(q)
      /\ (\A i \in 1 .. Len(q) : r[i] = q[i]) /\ r[Len(q) + 1] = x
  OBVIOUS
<1>. HIDE DEF r
<1>2. \A y : y \in ToSet(r) <=> \E i \in 1 .. Len(q) + 1 : r[i] = y
  BY <1>1 DEF ToSet
<1>3. \A y : y \in ToSet(q) <=> \E i \in 1 .. Len(q) : q[i] = y
  BY <1>1 DEF ToSet
<1>4. 1 .. Len(q) + 1 = (1 .. Len(q)) \cup {Len(q) + 1}
  BY <1>1
<1>5. ToSet(r) = ToSet(q) \cup {x}
  BY <1>1, <1>2, <1>3, <1>4
<1>6. ASSUME IsInjective(q), x \notin ToSet(q) PROVE IsInjective(r)
  BY <1>1, <1>3, <1>4, <1>6 DEF IsInjective
<1>. QED
  BY <1>1, <1>5, <1>6 DEF r
-----------------------------------------------------------------------------
(***************************************************************************)
(* The invariant.                                                          *)
(***************************************************************************)
LEMMA DirectoryStart ==
  ASSUME NEW image \in Image
  PROVE  ReadDirectory(image) => DirectoryInv(image)
<1> SUFFICES ASSUME ReadDirectory(image) PROVE DirectoryInv(image)
  OBVIOUS
<1>1. /\ disk = image /\ start = DirStart /\ next = DirStart
      /\ slot = Slots /\ listed = <<>> /\ walk = "directory"
  BY DEF ReadDirectory, ImageInit
<1>2. next = Links(image)[0]
  BY <1>1, LinksFollow
<1>3. listed \in Seq(Place \X Nat) /\ ToSet(listed) = {} /\ IsInjective(listed)
  BY <1>1 DEF ToSet, IsInjective
<1>4. Walked(image, 0)
  <2>1. 0 .. 0 - 1 = {} /\ ~(0 > 0) /\ slot \in 0 .. Slots
    BY <1>1, SlotsType
  <2>2. ToSet(listed) = Seen(image, 0, slot)
    BY <1>3, SeenNothing
  <2>3. Ordered(image, 0)
    BY <1>1 DEF Ordered
  <2>. QED
    BY <1>1, <1>2, <1>3, <2>1, <2>2, <2>3 DEF Walked
<1>5. Walking(image)
  BY <1>4 DEF Walking
<1>. QED
  BY <1>1, <1>5 DEF DirectoryInv

LEMMA SectorStep ==
  ASSUME NEW image \in Image, DirectoryInv(image), DirSector
  PROVE  DirectoryInv(image)'
<1>1. /\ walk = "directory" /\ slot = Slots /\ next \in Place
      /\ here' = next /\ next' = image[next].link /\ slot' = 0
      /\ UNCHANGED <<disk, start, listed, walk>> /\ disk = image
  BY DEF DirSector, DirectoryInv
<1>2. PICK k \in Nat : Walked(image, k)
  BY <1>1 DEF DirectoryInv, Walking
<1>3. next = Links(image)[k] /\ next' = Links(image)[k + 1]
  BY <1>1, <1>2, LinksFollow DEF Walked
<1>4. 0 .. (k + 1) - 1 = (0 .. k - 1) \cup {k} /\ (k + 1) - 1 = k
  OBVIOUS
<1>5. \A j \in 0 .. (k + 1) - 1 : Links(image)[j] \in Place
  BY <1>1, <1>2, <1>3, <1>4 DEF Walked
<1>6. Apart(image, k + 1) => Apart(image, k)
  BY <1>4 DEF Apart
<1>7. ToSet(listed) = Seen(image, k + 1, 0)
  BY <1>1, <1>2, SeenSector DEF Walked
<1>8. ToSet(listed)' = Seen(image, k + 1, slot')
  BY <1>1, <1>7
<1>9. IsInjective(listed)' = IsInjective(listed) /\ listed \in Seq(Place \X Nat)
  BY <1>1, <1>2 DEF Walked
<1>10. Walked(image, k + 1)'
  <2>1. next' = Links(image)[k + 1] /\ here' = Links(image)[(k + 1) - 1]
    BY <1>1, <1>3, <1>4
  <2>2. slot' \in 0 .. Slots
    BY <1>1, SlotsType
  <2>3. listed' \in Seq(Place \X Nat) /\ (Apart(image, k + 1) => IsInjective(listed)')
    BY <1>1, <1>2, <1>6, <1>9 DEF Walked
  <2>4. k + 1 # 0
    OBVIOUS
  <2>5. Ordered(image, k + 1)'
    <3>1. Ordered(image, k)
      BY <1>2 DEF Walked
    <3>2. Ordered(image, k + 1)
      BY <1>4, <3>1 DEF Ordered
    <3>. QED
      BY <1>1, <3>2 DEF Ordered
  <2>. QED
    BY <1>5, <1>8, <2>1, <2>2, <2>3, <2>4, <2>5 DEF Walked
<1>11. k + 1 \in Nat
  OBVIOUS
<1>12. Walking(image)'
  BY <1>10, <1>11 DEF Walking
<1>. QED
  BY <1>1, <1>12 DEF DirectoryInv

LEMMA EntryStep ==
  ASSUME NEW image \in Image, DirectoryInv(image), DirEmpty \/ DirFile
  PROVE  DirectoryInv(image)'
<1>1. /\ walk = "directory" /\ slot < Slots /\ slot' = slot + 1
      /\ UNCHANGED <<disk, start, next, here, walk>> /\ disk = image
  BY DEF DirEmpty, DirFile, EntryIs, DirectoryInv
<1>2. PICK k \in Nat : Walked(image, k)
  BY <1>1 DEF DirectoryInv, Walking
<1>3. slot \in 0 .. Slots - 1 /\ slot \in Nat /\ slot' \in 0 .. Slots
  BY <1>1, <1>2, SlotsType DEF Walked
<1>4. k > 0
  BY <1>1, <1>2, SlotsType DEF Walked
<1>5. here = Links(image)[k - 1] /\ here \in Place /\ k - 1 \in 0 .. k - 1
  BY <1>2, <1>4 DEF Walked
<1>6. Seen(image, k, slot + 1) =
        IF image[here].slots[slot + 1] = "file"
        THEN Seen(image, k, slot) \cup {<<here, slot>>} ELSE Seen(image, k, slot)
  BY <1>3, <1>4, <1>5, SeenEntry
<1>7. /\ listed' \in Seq(Place \X Nat)
      /\ ToSet(listed') = Seen(image, k, slot + 1)
      /\ Apart(image, k) => IsInjective(listed')
      /\ Ordered(image, k)'
  <2>1. CASE DirEmpty
    <3>1. listed' = listed /\ image[here].slots[slot + 1] # "file"
      BY <1>1, <2>1 DEF DirEmpty, EntryIs
    <3>. QED
      BY <1>2, <1>6, <3>1 DEF Walked, Ordered
  <2>2. CASE DirFile
    <3>1. listed' = Append(listed, <<here, slot>>) /\ image[here].slots[slot + 1] = "file"
      BY <1>1, <2>2 DEF DirFile, EntryIs
    <3>2. <<here, slot>> \in Place \X Nat
      BY <1>3, <1>5
    <3>3. Apart(image, k) => <<here, slot>> \notin ToSet(listed)
      BY <1>2, <1>3, <1>4, <1>5, NotSeen DEF Walked
    <3>4. listed \in Seq(Place \X Nat) /\ ToSet(listed) = Seen(image, k, slot)
          /\ (Apart(image, k) => IsInjective(listed))
      BY <1>2 DEF Walked
    <3> DEFINE S == Place \X Nat
               x == <<here, slot>>
    <3>. HIDE DEF S, x
    <3>5. listed \in Seq(S) /\ x \in S
      BY <3>2, <3>4 DEF S, x
    <3>6. /\ Append(listed, x) \in Seq(S)
          /\ ToSet(Append(listed, x)) = ToSet(listed) \cup {x}
          /\ IsInjective(listed) /\ x \notin ToSet(listed) => IsInjective(Append(listed, x))
      BY <3>5, Appended
    <3>7. listed' = Append(listed, x)
      BY <3>1 DEF x
    <3>8. ToSet(listed') = Seen(image, k, slot + 1)
      BY <1>6, <3>1, <3>4, <3>6, <3>7 DEF x
    <3>9. Apart(image, k) => IsInjective(listed')
      BY <3>3, <3>4, <3>6, <3>7 DEF x
    <3>10. Ordered(image, k)'
      <4>1. /\ DOMAIN listed' = 1 .. Len(listed) + 1 /\ DOMAIN listed = 1 .. Len(listed)
            /\ Len(listed) \in Nat
            /\ (\A i \in 1 .. Len(listed) : listed'[i] = listed[i])
            /\ listed'[Len(listed) + 1] = x
        BY <3>5, <3>7
      <4>2. ASSUME NEW i \in 1 .. Len(listed)
            PROVE  \E m, n \in 0 .. k - 1 :
                     /\ Links(image)[m] = listed[i][1] /\ Links(image)[n] = x[1]
                     /\ m < n \/ (m = n /\ listed[i][2] < x[2])
        <5>1. listed[i] \in Seen(image, k, slot)
          BY <3>4, <4>1, <4>2 DEF ToSet
        <5>2. \/ \E j \in 0 .. k - 2 : listed[i][1] = Links(image)[j]
              \/ listed[i][1] = Links(image)[k - 1] /\ listed[i][2] < slot
          BY <5>1 DEF Seen
        <5>3. x[1] = Links(image)[k - 1] /\ x[2] = slot
          BY <1>5 DEF x
        <5>4. CASE \E j \in 0 .. k - 2 : listed[i][1] = Links(image)[j]
          <6>1. PICK j \in 0 .. k - 2 : listed[i][1] = Links(image)[j]
            BY <5>4
          <6>2. j \in 0 .. k - 1 /\ k - 1 \in 0 .. k - 1 /\ j < k - 1
            BY <1>4
          <6>. QED
            BY <5>3, <6>1, <6>2
        <5>5. CASE listed[i][1] = Links(image)[k - 1] /\ listed[i][2] < slot
          BY <1>5, <5>3, <5>5
        <5>. QED
          BY <5>2, <5>4, <5>5
      <4>3. Ordered(image, k)
        BY <1>2 DEF Walked
      <4>4. ASSUME NEW i \in 1 .. Len(listed) + 1, NEW j \in 1 .. Len(listed) + 1, i < j
            PROVE  \E m, n \in 0 .. k - 1 :
                     /\ Links(image)[m] = listed'[i][1] /\ Links(image)[n] = listed'[j][1]
                     /\ m < n \/ (m = n /\ listed'[i][2] < listed'[j][2])
        <5>1. i \in 1 .. Len(listed) /\ listed'[i] = listed[i]
          BY <4>1, <4>4
        <5>2. CASE j = Len(listed) + 1
          BY <4>1, <4>2, <5>1, <5>2
        <5>3. CASE j # Len(listed) + 1
          <6>1. j \in 1 .. Len(listed) /\ listed'[j] = listed[j]
            BY <4>1, <4>4, <5>3
          <6>. QED
            <7>1. \E m, n \in 0 .. k - 1 :
                    /\ Links(image)[m] = listed[i][1] /\ Links(image)[n] = listed[j][1]
                    /\ m < n \/ (m = n /\ listed[i][2] < listed[j][2])
              BY <4>1, <4>3, <4>4, <5>1, <6>1 DEF Ordered
            <7>. QED
              BY <5>1, <6>1, <7>1
        <5>. QED
          BY <5>2, <5>3
      <4>. QED
        BY <4>1, <4>4 DEF Ordered
    <3>. QED
      BY <3>6, <3>7, <3>8, <3>9, <3>10 DEF S
  <2>. QED
    BY <2>1, <2>2
<1>8. Walked(image, k)'
  BY <1>1, <1>2, <1>3, <1>4, <1>7 DEF Walked
<1>9. Walking(image)'
  BY <1>8 DEF Walking
<1>. QED
  BY <1>1, <1>9 DEF DirectoryInv

LEMMA DirectoryStep ==
  ASSUME NEW image \in Image
  PROVE  DirectoryInv(image) /\ [ImageNext]_imageVars => DirectoryInv(image)'
<1> SUFFICES ASSUME DirectoryInv(image), [ImageNext]_imageVars
             PROVE  DirectoryInv(image)'
  OBVIOUS
<1>1. CASE DirSector
  BY <1>1, SectorStep
<1>2. CASE DirEmpty \/ DirFile
  BY <1>2, EntryStep
<1>3. ASSUME NEW how \in {"stopped", "overrun"}, WalkStops(how) PROVE DirectoryInv(image)'
  BY <1>3 DEF WalkStops, DirectoryInv
<1>4. CASE DirBadLink \/ DirBadEntry \/ DirOverrun
  BY <1>3, <1>4 DEF DirBadLink, DirBadEntry, DirOverrun
<1>5. ASSUME UNCHANGED <<disk, start, next, here, slot, listed>>,
             walk \in {"directory", "listed"}, walk' \in {"directory", "listed"},
             walk' = "listed" => slot = Slots /\ next[1] = 0
      PROVE  DirectoryInv(image)'
  <2>1. ToSet(listed)' = ToSet(listed) /\ IsInjective(listed)' = IsInjective(listed)
    BY <1>5
  <2>2. ASSUME NEW k \in Nat, Walked(image, k) PROVE Walked(image, k)'
    BY <1>5, <2>1, <2>2 DEF Walked, Ordered
  <2>3. Walking(image)'
    BY <1>5, <2>2 DEF DirectoryInv, Walking
  <2>. QED
    BY <1>5, <2>3 DEF DirectoryInv
<1>6. CASE DirDone
  BY <1>5, <1>6 DEF DirDone, WalkStops
<1>7. CASE FileFirst \/ FileSector \/ GrowFile \/ CopySector \/ FileBadLink
           \/ FileOutside \/ FileDone
  BY <1>7 DEF FileFirst, FileSector, GrowFile, CopySector, FileBadLink, FileOutside,
              FileDone, DirectoryInv
<1>8. CASE UNCHANGED imageVars
  <2>1. UNCHANGED <<disk, start, next, here, slot, listed, walk>>
    BY <1>8 DEF imageVars
  <2>2. CASE walk \in {"directory", "listed"}
    BY <1>5, <2>1, <2>2 DEF DirectoryInv
  <2>3. CASE walk \notin {"directory", "listed"}
    BY <2>1, <2>3 DEF DirectoryInv
  <2>. QED
    BY <2>2, <2>3
<1>. QED
  BY <1>1, <1>2, <1>4, <1>6, <1>7, <1>8 DEF ImageNext
-----------------------------------------------------------------------------
(***************************************************************************)
(* The directory at the end of its chain.                                  *)
(***************************************************************************)
LEMMA DirectoryKept ==
  ASSUME NEW image \in Image, DirectoryInv(image)
  PROVE  DirectoryComplete
<1>. SUFFICES ASSUME walk = "listed" PROVE DirectoryComplete
  BY DEF DirectoryComplete
<1>1. disk = image /\ start = DirStart /\ slot = Slots /\ next[1] = 0
  BY DEF DirectoryInv
<1>2. PICK k \in Nat : Walked(image, k)
  BY DEF DirectoryInv, Walking
<1>3. \A j \in 0 .. k - 1 : Links(image)[j] \in Place
  BY <1>2 DEF Walked
<1>4. Links(image)[k] \notin Place
  BY <1>1, <1>2, PlaceType DEF Walked
<1>5. Apart(image, k) /\ k <= Cardinality(Place)
  <2>1. Apart(image, k)
    BY <1>3, <1>4, LinksIterate, EndsApart DEF Apart
  <2>. QED
    BY <1>3, <2>1, PlaceFinite, EndsSoon DEF Apart
<1>6. OnChain = {Links(image)[j] : j \in 0 .. k - 1}
  <2>1. \A n \in 0 .. Cardinality(Place) : Chain[n] = Links(image)[n]
    BY <1>1, ChainLinks, PlaceFinite
  <2>2. \A n \in 0 .. Cardinality(Place) : n >= k => Links(image)[n] \notin Place
    <3>1. \A p \in Nat \X Nat : p \notin Place => Onward(image)[p] \notin Place
      BY OnwardType, NoPlaceIsNone
    <3> DEFINE S == Nat \X Nat
               F == Onward(image)
               c == Links(image)
    <3>2. Iterates(c, S, DirStart, F)
      BY LinksIterate
    <3>3. (\A p \in S : p \notin Place => F[p] \notin Place) /\ c[k] \notin Place
      BY <1>4, <3>1
    <3>. HIDE DEF S, F, c
    <3>4. \A n \in Nat : n >= k => c[n] \notin Place
      BY <3>2, <3>3, NothingBehind
    <3>. QED
      BY <3>4, PlaceFinite DEF c
  <2>3. \A p : p \in OnChain <=> p \in Place /\ \E n \in 0 .. Cardinality(Place) : p = Chain[n]
    BY DEF OnChain
  <2>4. \A n : n \in 0 .. k - 1 <=> n \in 0 .. Cardinality(Place) /\ ~(n >= k)
    BY <1>5, PlaceFinite
  <2>5. \A p : p \in OnChain <=> \E j \in 0 .. k - 1 : p = Links(image)[j]
    BY <1>3, <2>1, <2>2, <2>3, <2>4
  <2>. QED
    BY <2>5
<1>7. k # 0
  BY <1>2, <1>4, LinksFollow, ImageAssumption DEF ImageAssumption
<1>8. Seen(image, k, Slots)
        = {e \in OnChain \X (0 .. Slots - 1) : disk[e[1]].slots[e[2] + 1] = "file"}
  <2>1. 0 .. k - 1 = (0 .. k - 2) \cup {k - 1} /\ k > 0
    BY <1>7
  <2>2. ASSUME NEW e \in Place \X (0 .. Slots - 1)
        PROVE  (\/ \E j \in 0 .. k - 2 : e[1] = Links(image)[j]
                \/ k > 0 /\ e[1] = Links(image)[k - 1] /\ e[2] < Slots)
               <=> e[1] \in OnChain
    <3>1. e[2] < Slots
      BY SlotsType
    <3>. QED
      BY <1>6, <2>1, <3>1
  <2>3. OnChain \subseteq Place
    BY <1>3, <1>6
  <2>4. \A e : e \in Seen(image, k, Slots) <=>
          /\ e \in Place \X (0 .. Slots - 1) /\ e[1] \in OnChain
          /\ disk[e[1]].slots[e[2] + 1] = "file"
    BY <1>1, <2>2 DEF Seen
  <2>. HIDE DEF OnChain
  <2>5. \A e : e \in OnChain \X (0 .. Slots - 1) <=>
          e \in Place \X (0 .. Slots - 1) /\ e[1] \in OnChain
    BY <2>3
  <2>. QED
    BY <2>4, <2>5
<1>9. \A i, j \in DOMAIN listed : i < j => Precedes(listed[i], listed[j])
  <2>1. Ordered(image, k)
    BY <1>2 DEF Walked
  <2>2. \A n \in 0 .. k - 1 : n \in 0 .. Cardinality(Place) /\ Chain[n] = Links(image)[n]
    BY <1>1, <1>5, ChainLinks, PlaceFinite
  <2>. QED
    BY <2>1, <2>2 DEF Ordered, Precedes
<1>. QED
  BY <1>1, <1>2, <1>5, <1>8, <1>9 DEF DirectoryComplete, Walked

\* Whatever an image holds, and wherever the chain of its directory leads, a
\* directory that is read to its end is complete: its chain ends within the
\* sectors of the disk, and every file of it is listed, once, in the order of the
\* chain.
THEOREM DirectoryIsComplete ==
  ASSUME NEW image \in Image
  PROVE  DirectorySpec(image) => []DirectoryComplete
<1>1. DirectoryInv(image) => DirectoryComplete
  BY DirectoryKept
<1>2. ReadDirectory(image) => DirectoryInv(image)
  BY DirectoryStart
<1>3. DirectoryInv(image) /\ [ImageNext]_imageVars => DirectoryInv(image)'
  BY DirectoryStep
<1>. QED
  BY <1>1, <1>2, <1>3, PTL DEF DirectorySpec
-----------------------------------------------------------------------------
(***************************************************************************)
(* The lists of AppleDump.                                                 *)
(***************************************************************************)
\* What a diskette can hold: lists of pairs, and links wherever they point.
Diskette == [Dsk -> [link : Link, entries : [1 .. Entries -> Entry], pairs : Seq(Link)]]

\* Extracting the files of a diskette whose VTOC promises so many sectors.
DumpSpec(image, sectors, first) ==
  DumpInit(image, sectors, first) /\ [][DumpNext]_dumpVars

LEMMA DskFinite == IsFiniteSet(Dsk) /\ Cardinality(Dsk) \in Nat
<1>1. IsFiniteSet(0 .. 34) /\ IsFiniteSet(0 .. 15)
  <2>1. 0 \in Int /\ 34 \in Int /\ 15 \in Int
    OBVIOUS
  <2>2. \A a, b \in Int : IsFiniteSet(a .. b)
    BY FS_Interval
  <2>. QED
    BY <2>1, <2>2, Zenon
<1>2. IsFiniteSet((0 .. 34) \X (0 .. 15))
  BY <1>1, FS_Product
<1>3. Dsk \subseteq (0 .. 34) \X (0 .. 15)
  BY DumpAssumption DEF DumpAssumption
<1>. QED
  BY <1>2, <1>3, FS_Subset, FS_CardinalityType

LEMMA NoneIsNoSector == None \notin Dsk /\ Dsk \subseteq Link /\ None \in Link
BY DumpAssumption DEF DumpAssumption, Link

Successor(image) == [q \in Link |-> IF q \in Dsk THEN image[q].link ELSE q]

LEMMA SuccessorType ==
  ASSUME NEW image \in Diskette
  PROVE  /\ Successor(image) \in [Link -> Link]
         /\ \A q \in Link : Successor(image)[q] = IF q \in Dsk THEN image[q].link ELSE q
<1>1. \A q \in Dsk : image[q].link \in Link
  BY DEF Diskette
<1>. QED
  BY <1>1, NoneIsNoSector DEF Successor

LEMMA AfterIterates ==
  ASSUME NEW image \in Diskette, NEW p \in Link
  PROVE  \E c : Iterates(c, Link, p, Successor(image))
                /\ \A n \in Nat : After(image, p, n) = c[n]
<1>1. PICK c : Iterates(c, Link, p, Successor(image))
  <2>1. Successor(image) \in [Link -> Link]
    BY SuccessorType
  <2>. QED
    BY <2>1, Iteration
<1> DEFINE Body(a) == [i \in Nat |-> IF i = 0 THEN p
                                     ELSE IF a[i - 1] \in Dsk THEN image[a[i - 1]].link
                                          ELSE a[i - 1]]
           at == CHOOSE a : a = Body(a)
<1>2. c \in [Nat -> Link] /\ c[0] = p /\ \A n \in Nat : c[n + 1] = Successor(image)[c[n]]
  BY <1>1 DEF Iterates
<1>3. \A n \in Nat : c[n + 1] = IF c[n] \in Dsk THEN image[c[n]].link ELSE c[n]
  BY <1>2, SuccessorType
<1>4. c = Body(c)
  <2>1. ASSUME NEW n \in Nat PROVE c[n] = Body(c)[n]
    <3>1. CASE n = 0
      BY <1>2, <3>1
    <3>2. CASE n # 0
      <4>1. n - 1 \in Nat /\ (n - 1) + 1 = n
        BY <3>2
      <4>2. c[n] = IF c[n - 1] \in Dsk THEN image[c[n - 1]].link ELSE c[n - 1]
        BY <1>3, <4>1
      <4>. QED
        BY <3>2, <4>2
    <3>. QED
      BY <3>1, <3>2
  <2>. QED
    BY <1>2, <2>1
<1>5. at = Body(at)
  BY <1>4
<1>6. \A n \in Nat : After(image, p, n) = at[n]
  BY DEF After
<1>. HIDE DEF at
<1>7. at[0] = p /\ \A n \in Nat : at[n + 1] = IF at[n] \in Dsk THEN image[at[n]].link ELSE at[n]
  <2>1. \A n \in Nat : at[n] = Body(at)[n]
    BY <1>5
  <2>2. ASSUME NEW n \in Nat
        PROVE  at[n + 1] = IF at[n] \in Dsk THEN image[at[n]].link ELSE at[n]
    <3>1. n + 1 \in Nat /\ n + 1 # 0 /\ (n + 1) - 1 = n
      OBVIOUS
    <3>. QED
      BY <2>1, <3>1
  <2>. QED
    BY <2>1, <2>2
<1>8. ASSUME NEW n \in Nat PROVE at[n] = c[n]
  <2>1. Agree(c, at, n)
    BY <1>2, <1>3, <1>7 DEF Agree
  <2>2. \A i \in 0 .. n : c[i] = at[i]
    BY <2>1, SameRecursion
  <2>. QED
    BY <2>2
<1>. QED
  BY <1>1, <1>6, <1>8

LEMMA AfterSteps ==
  ASSUME NEW image \in Diskette, NEW p \in Link
  PROVE  /\ After(image, p, 0) = p
         /\ \A n \in Nat : /\ After(image, p, n) \in Link
                           /\ After(image, p, n + 1) =
                                IF After(image, p, n) \in Dsk
                                THEN image[After(image, p, n)].link ELSE After(image, p, n)
<1>1. PICK c : Iterates(c, Link, p, Successor(image))
               /\ \A n \in Nat : After(image, p, n) = c[n]
  BY AfterIterates
<1>2. c \in [Nat -> Link] /\ c[0] = p /\ \A n \in Nat : c[n + 1] = Successor(image)[c[n]]
  BY <1>1 DEF Iterates
<1>3. \A n \in Nat : c[n + 1] = IF c[n] \in Dsk THEN image[c[n]].link ELSE c[n]
  BY <1>2, SuccessorType
<1>4. \A n \in Nat : n + 1 \in Nat
  OBVIOUS
<1>. QED
  BY <1>1, <1>2, <1>3, <1>4

LEMMA InUseSteps ==
  ASSUME NEW pairs \in Seq(Link)
  PROVE  /\ InUse(pairs, 0) = <<>>
         /\ \A n \in 0 .. Len(pairs) : InUse(pairs, n) \in Seq(Link)
         /\ \A n \in 0 .. Len(pairs) - 1 : InUse(pairs, n + 1) =
              IF pairs[n + 1] = None THEN InUse(pairs, n)
              ELSE Append(InUse(pairs, n), pairs[n + 1])
<1> DEFINE top == Len(pairs)
           S == Seq(Link)
           Put(i, q) == IF pairs[i] = None THEN q ELSE Append(q, pairs[i])
           F == [x \in Nat \X S |-> IF x[1] < top THEN Put(x[1] + 1, x[2]) ELSE x[2]]
           Body(k) == [i \in 0 .. top |-> IF i = 0 THEN <<>> ELSE Put(i, k[i - 1])]
           kept == CHOOSE k : k = Body(k)
<1>1. top \in Nat /\ \A i \in 1 .. top : pairs[i] \in Link
  OBVIOUS
<1>2. ASSUME NEW i \in 1 .. top, NEW q \in S PROVE Put(i, q) \in S
  BY <1>1
<1>3. \A n \in Nat, q \in S : n < top => n + 1 \in 1 .. top
  BY <1>1
<1>. HIDE DEF top, Put
<1>4. <<>> \in S
  OBVIOUS
<1>. HIDE DEF S
<1>5. F \in [Nat \X S -> S]
  BY <1>2, <1>3
<1>6. \A n \in Nat, q \in S : F[<<n, q>>] = IF n < top THEN Put(n + 1, q) ELSE q
  OBVIOUS
<1>. HIDE DEF F
<1>7. PICK c : Counts(c, S, <<>>, F)
  BY <1>4, <1>5, CountedIteration
<1>8. c \in [Nat -> S] /\ c[0] = <<>> /\ \A n \in Nat : c[n + 1] = F[<<n, c[n]>>]
  BY <1>7 DEF Counts
<1>9. \A n \in Nat : n < top => c[n + 1] = Put(n + 1, c[n])
  BY <1>6, <1>8
<1> DEFINE h == [i \in 0 .. top |-> c[i]]
<1>10. h = Body(h)
  <2>1. ASSUME NEW n \in 0 .. top PROVE h[n] = Body(h)[n]
    <3>1. CASE n = 0
      BY <1>8, <3>1
    <3>2. CASE n # 0
      <4>1. n - 1 \in Nat /\ n - 1 < top /\ (n - 1) + 1 = n /\ n - 1 \in 0 .. top
        BY <1>1, <3>2
      <4>2. c[n] = Put(n, c[n - 1])
        BY <1>9, <4>1
      <4>3. h[n] = c[n] /\ h[n - 1] = c[n - 1]
        BY <4>1
      <4>. HIDE DEF h
      <4>. QED
        BY <3>2, <4>2, <4>3
    <3>. QED
      BY <3>1, <3>2
  <2> DEFINE b == Body(h)
  <2>2. b \in [0 .. top -> {b[n] : n \in 0 .. top}] /\ \A n \in 0 .. top : h[n] = b[n]
    BY <2>1
  <2>. QED
    BY <2>2
<1>11. kept = Body(kept)
  <2>. HIDE DEF h
  <2>. QED
    BY <1>10
<1>12. \A n : InUse(pairs, n) = kept[n]
  BY DEF InUse, Put, top
<1>. HIDE DEF kept, h
<1>13. kept[0] = <<>> /\ \A n \in 0 .. top - 1 : kept[n + 1] = Put(n + 1, kept[n])
  <2>1. \A n \in 0 .. top : kept[n] = Body(kept)[n]
    BY <1>11
  <2>2. ASSUME NEW n \in 0 .. top - 1 PROVE kept[n + 1] = Put(n + 1, kept[n])
    <3>1. n + 1 \in 0 .. top /\ n + 1 # 0 /\ (n + 1) - 1 = n
      BY <1>1
    <3>. QED
      BY <2>1, <3>1
  <2>. QED
    BY <1>1, <2>1, <2>2
<1>14. \A n \in 0 .. top : c[n] = kept[n]
  <2>1. Agree(c, kept, top)
    BY <1>1, <1>8, <1>9, <1>13 DEF Agree
  <2>. QED
    BY <1>1, <2>1, SameRecursion
<1>15. \A n \in 0 .. top : kept[n] \in S
  BY <1>1, <1>8, <1>14
<1>. QED
  BY <1>12, <1>13, <1>15 DEF top, S, Put

LEMMA ListType ==
  ASSUME NEW image \in Diskette, NEW p
  PROVE  ListAt(image, p) \in Seq(Link)
<1>1. ASSUME p \in Dsk PROVE image[p].pairs \in Seq(Link)
  BY <1>1 DEF Diskette
<1>2. CASE p \in Dsk
  <2>1. Len(image[p].pairs) \in 0 .. Len(image[p].pairs)
    BY <1>1, <1>2
  <2>. QED
    BY <1>1, <1>2, <2>1, InUseSteps DEF ListAt
<1>3. CASE p \notin Dsk
  BY <1>3 DEF ListAt
<1>. QED
  BY <1>2, <1>3

LEMMA SectorsSteps ==
  ASSUME NEW image \in Diskette, NEW p
  PROVE  /\ Sectors(image, p, 0) = <<>>
         /\ \A n \in Nat :
              /\ Sectors(image, p, n) \in Seq(Link)
              /\ Sectors(image, p, n + 1) =
                   Sectors(image, p, n) \o ListAt(image, After(image, p, n))
<1> DEFINE S == Seq(Link)
           Next(i) == ListAt(image, After(image, p, i))
           F == [x \in Nat \X S |-> x[2] \o Next(x[1])]
           Body(w) == [i \in Nat |-> IF i = 0 THEN <<>> ELSE w[i - 1] \o Next(i - 1)]
           whole == CHOOSE w : w = Body(w)
<1>1. \A i : Next(i) \in Seq(Link)
  BY ListType
<1>. HIDE DEF Next
<1>2. ASSUME NEW n \in Nat, NEW q \in S PROVE q \o Next(n) \in S
  BY <1>1
<1>3. <<>> \in S
  OBVIOUS
<1>. HIDE DEF S
<1>4. F \in [Nat \X S -> S]
  BY <1>2
<1>5. \A n \in Nat, q \in S : F[<<n, q>>] = q \o Next(n)
  OBVIOUS
<1>. HIDE DEF F
<1>6. PICK c : Counts(c, S, <<>>, F)
  BY <1>3, <1>4, CountedIteration
<1>7. c \in [Nat -> S] /\ c[0] = <<>> /\ \A n \in Nat : c[n + 1] = F[<<n, c[n]>>]
  BY <1>6 DEF Counts
<1>8. \A n \in Nat : c[n + 1] = c[n] \o Next(n)
  BY <1>5, <1>7
<1>9. c = Body(c)
  <2>1. ASSUME NEW n \in Nat PROVE c[n] = Body(c)[n]
    <3>1. CASE n = 0
      BY <1>7, <3>1
    <3>2. CASE n # 0
      <4>1. n - 1 \in Nat /\ (n - 1) + 1 = n
        BY <3>2
      <4>2. c[n] = c[n - 1] \o Next(n - 1)
        BY <1>8, <4>1
      <4>. QED
        BY <3>2, <4>2
    <3>. QED
      BY <3>1, <3>2
  <2>. QED
    BY <1>7, <2>1
<1>10. whole = Body(whole)
  BY <1>9
<1>11. \A n : Sectors(image, p, n) = whole[n]
  BY DEF Sectors, Next
<1>. HIDE DEF whole
<1>12. whole[0] = <<>> /\ \A n \in Nat : whole[n + 1] = whole[n] \o Next(n)
  <2>1. \A n \in Nat : whole[n] = Body(whole)[n]
    BY <1>10
  <2>2. ASSUME NEW n \in Nat PROVE whole[n + 1] = whole[n] \o Next(n)
    <3>1. n + 1 \in Nat /\ n + 1 # 0 /\ (n + 1) - 1 = n
      OBVIOUS
    <3>. QED
      BY <2>1, <3>1
  <2>. QED
    BY <2>1, <2>2
<1>13. ASSUME NEW n \in Nat PROVE whole[n] \in S
  <2>1. Agree(c, whole, n)
    BY <1>7, <1>8, <1>12 DEF Agree
  <2>2. c[n] = whole[n]
    BY <2>1, SameRecursion
  <2>. QED
    BY <1>7, <2>2
<1>. QED
  BY <1>11, <1>12, <1>13 DEF S, Next

\* A file whose lists end is complete after as many of them as there are, and
\* after as many as the diskette has sectors.
LEMMA SectorsEnd ==
  ASSUME NEW image \in Diskette, NEW p \in Link, NEW k \in Nat,
         \A j \in 0 .. k - 1 : After(image, p, j) \in Dsk, After(image, p, k) \notin Dsk
  PROVE  Sectors(image, p, k) = Sectors(image, p, Cardinality(Dsk))
<1>1. PICK c : Iterates(c, Link, p, Successor(image))
               /\ \A n \in Nat : After(image, p, n) = c[n]
  BY AfterIterates
<1>2. (\A j \in 0 .. k - 1 : c[j] \in Dsk) /\ c[k] \notin Dsk
  BY <1>1
<1>3. \A i, j \in 0 .. k - 1 : i # j => c[i] # c[j]
  BY <1>1, <1>2, EndsApart
<1>4. Cardinality(Dsk) \in Nat /\ k <= Cardinality(Dsk)
  BY <1>2, <1>3, DskFinite, EndsSoon
<1>5. \A n \in Nat : n >= k => c[n] \notin Dsk
  <2> DEFINE F == Successor(image)
  <2>1. \A x \in Link : x \notin Dsk => F[x] \notin Dsk
    BY SuccessorType
  <2>2. Iterates(c, Link, p, F)
    BY <1>1
  <2>. HIDE DEF F
  <2>. QED
    BY <1>2, <2>1, <2>2, NothingBehind
<1> DEFINE m == Cardinality(Dsk) - k
           g == [i \in Nat |-> Sectors(image, p, k + i)]
           h == [i \in Nat |-> Sectors(image, p, k)]
<1>6. m \in Nat /\ k + m = Cardinality(Dsk)
  BY <1>4
<1>7. ASSUME NEW i \in Nat PROVE Sectors(image, p, k + (i + 1)) = Sectors(image, p, k + i)
  <2>1. k + i \in Nat /\ k + i >= k /\ k + (i + 1) = (k + i) + 1
    OBVIOUS
  <2>2. ListAt(image, After(image, p, k + i)) = <<>>
    BY <1>1, <1>5, <2>1 DEF ListAt
  <2>3. Sectors(image, p, (k + i) + 1) = Sectors(image, p, k + i) \o <<>>
    BY <2>1, <2>2, SectorsSteps
  <2>4. Sectors(image, p, k + i) \in Seq(Link)
    BY <2>1, SectorsSteps
  <2>. QED
    BY <2>1, <2>3, <2>4
<1>8. Agree(h, g, m)
  <2>1. h[0] = g[0]
    OBVIOUS
  <2>2. ASSUME NEW i \in Nat PROVE g[i + 1] = g[i] /\ h[i + 1] = h[i]
    BY <1>7
  <2>. HIDE DEF g, h
  <2>. QED
    BY <2>1, <2>2 DEF Agree
<1>9. h[m] = g[m]
  <2>. HIDE DEF g, h
  <2>1. m \in 0 .. m
    BY <1>6
  <2>. QED
    BY <1>6, <1>8, <2>1, SameRecursion
<1>. QED
  BY <1>6, <1>9

\* Entries are counted through the sectors of the directory.
LEMMA EntryPlace ==
  ASSUME NEW n \in Nat, NEW size \in Nat \ {0}, NEW many \in Nat, n < many * size
  PROVE  (n \div size) + 1 \in 1 .. many /\ (n % size) + 1 \in 1 .. size
<1> DEFINE d == n \div size
           r == n % size
<1>1. d \in Nat /\ r \in Nat /\ r < size /\ n = size * d + r
  OBVIOUS
<1>2. d < many
  <2>. HIDE DEF d, r
  <2>1. SUFFICES ASSUME d >= many PROVE FALSE
    BY <1>1
  <2>2. PICK x \in Nat : d = many + x
    <3>1. d - many \in Nat /\ d = many + (d - many)
      BY <1>1, <2>1
    <3>. QED
      BY <3>1
  <2>3. size * d = many * size + size * x
    BY <2>2
  <2>4. size * x \in Nat /\ many * size \in Nat /\ size * d \in Nat
    BY <1>1
  <2>. QED
    BY <1>1, <2>3, <2>4
<1>. QED
  BY <1>1, <1>2
-----------------------------------------------------------------------------
(***************************************************************************)
(* The invariant of AppleDump.                                             *)
(***************************************************************************)
DumpType(image) ==
  /\ dsk = image
  /\ dirs \in Seq(Dsk) /\ cursor \in Link
  /\ entry \in Nat /\ pair \in Nat
  /\ outputs \in [FileName -> Seq(Link)]
  /\ pending \in Seq(Link) /\ Len(pending) <= StdioSectors

\* The file of entry n holds its sectors, but for what its fclose has lost.
Whole(image, n) ==
  LET all == Sectors(image, EntryAt(n).first, Cardinality(Dsk))
      out == outputs[EntryAt(n).name]
  IN  /\ IsPrefix(out, all)
      /\ Len(all) - Len(out) <= StdioSectors
      /\ EntryAt(n).name \notin lost => out = all

\* No entry from n + 1 to last is written over entry n.
LastOfName(n, last) == \A m \in n + 1 .. last : ~Overwrites(m, n)

\* The entries before the current one have been extracted, unless they have been
\* overwritten since.
Extracted(image, last) ==
  \A n \in 0 .. entry - 1 :
    Used(EntryAt(n)) /\ LastOfName(n, last) => Whole(image, n)

\* k lists of the current file have been written, and of the next some pairs:
\* they are on the disk or in stdio's buffer.
Written(image, k) ==
  /\ cursor = After(image, EntryAt(entry).first, k)
  /\ \A j \in 0 .. k - 1 : After(image, EntryAt(entry).first, j) \in Dsk
  /\ IF cursor \in Dsk
     THEN /\ pair <= Len(image[cursor].pairs)
          /\ Output \o pending
               = Sectors(image, EntryAt(entry).first, k) \o InUse(image[cursor].pairs, pair)
     ELSE Output \o pending = Sectors(image, EntryAt(entry).first, k)

Writing(image) == \E k \in Nat : Written(image, k)

\* An entry in the middle of being extracted.
Current == entry < EntryCount /\ Used(EntryAt(entry))

\* PrintDirectory has let no other pass.
Typed == \A n \in 0 .. EntryCount - 1 : Used(EntryAt(n)) => EntryAt(n).type # "invalid"

DumpInv(image) ==
  /\ DumpType(image)
  /\ dump = "scan" => entry = 0
  /\ dump \in {"extract", "lists", "translate"} => Typed
  /\ dump \in {"extract", "finished"} => entry <= EntryCount /\ Extracted(image, entry - 1)
  /\ dump \in {"lists", "translate"} => Current /\ Extracted(image, entry)
  /\ dump = "lists" => Writing(image)
  /\ dump = "translate" => Whole(image, entry)

LEMMA EntriesType == Entries \in Nat \ {0}
BY DumpAssumption DEF DumpAssumption

LEMMA EntryType ==
  ASSUME NEW image \in Diskette, DumpType(image), NEW n \in Nat, n < EntryCount
  PROVE  /\ EntryAt(n) \in Entry /\ EntryAt(n).first \in Link
         /\ EntryAt(n).name \in Name /\ EntryAt(n).name \in FileName
<1>1. Len(dirs) \in Nat
  BY DEF DumpType
<1>2. (n \div Entries) + 1 \in 1 .. Len(dirs) /\ (n % Entries) + 1 \in 1 .. Entries
  BY <1>1, EntriesType, EntryPlace DEF EntryCount
<1>3. dirs[(n \div Entries) + 1] \in Dsk
  BY <1>2 DEF DumpType
<1>4. image[dirs[(n \div Entries) + 1]].entries \in [1 .. Entries -> Entry]
  BY <1>3 DEF Diskette
<1>5. EntryAt(n) \in Entry
  BY <1>2, <1>4 DEF EntryAt, DumpType
<1>. QED
  BY <1>5, DumpAssumption DEF Entry, DumpAssumption

\* Once the directory has been scanned its entries stay where they are.
LEMMA EntriesKept ==
  ASSUME UNCHANGED <<dsk, dirs>>
  PROVE  /\ EntryCount' = EntryCount /\ \A n : EntryAt(n)' = EntryAt(n)
         /\ \A m, n : Overwrites(m, n)' <=> Overwrites(m, n)
         /\ Typed' <=> Typed
<1>1. EntryCount' = EntryCount /\ \A n : EntryAt(n)' = EntryAt(n)
  BY DEF EntryCount, EntryAt
<1>. QED
  BY <1>1 DEF Overwrites, TranslationOf, Used, Typed

LEMMA DumpStart ==
  ASSUME NEW image \in Diskette, NEW sectors, NEW first \in Link
  PROVE  DumpInit(image, sectors, first) => DumpInv(image)
<1> SUFFICES ASSUME DumpInit(image, sectors, first) PROVE DumpInv(image)
  OBVIOUS
<1>1. pending = <<>> /\ <<>> \in Seq(Link) /\ Len(<<>>) <= StdioSectors
  BY DumpAssumption DEF DumpInit, DumpAssumption
<1>. QED
  BY <1>1 DEF DumpInit, DumpInv, DumpType

LEMMA StopInv ==
  ASSUME NEW image \in Diskette, DumpInv(image), NEW how, DumpStops(how),
         how \notin {"scan", "extract", "lists", "translate", "finished"}
  PROVE  DumpInv(image)'
BY DEF DumpInv, DumpType, DumpStops

LEMMA ScanInv ==
  ASSUME NEW image \in Diskette, DumpInv(image), ScanSector
  PROVE  DumpInv(image)'
<1>1. /\ dump = "scan" /\ cursor \in Dsk /\ dirs' = Append(dirs, cursor)
      /\ cursor' = image[cursor].link
      /\ UNCHANGED <<dsk, entry, pair, outputs, pending, lost, dump>>
  BY DEF ScanSector, CanScan, HasAddress, DumpInv, DumpType
<1>2. cursor' \in Link
  BY <1>1 DEF Diskette
<1>3. dirs' \in Seq(Dsk)
  BY <1>1 DEF DumpInv, DumpType
<1>. QED
  BY <1>1, <1>2, <1>3 DEF DumpInv, DumpType

LEMMA PrintInv ==
  ASSUME NEW image \in Diskette, DumpInv(image), PrintDirectory
  PROVE  DumpInv(image)'
<1>1. /\ entry = 0 /\ entry' = 0 /\ dump' \in {"died", "extract"}
      /\ UNCHANGED <<dsk, cursor, dirs, pair, outputs, pending, lost>>
      /\ dump' = "extract" => Typed
  BY DEF PrintDirectory, DumpInv, Typed
<1>2. EntryCount \in Nat /\ EntryCount' = EntryCount /\ (Typed' <=> Typed)
  <2>1. Len(dirs) \in Nat
    BY DEF DumpInv, DumpType
  <2>. QED
    BY <1>1, <2>1, EntriesType, EntriesKept DEF EntryCount
<1>3. Extracted(image, entry - 1)'
  BY <1>1 DEF Extracted
<1>. QED
  BY <1>1, <1>2, <1>3 DEF DumpInv, DumpType

\* What is written to the output of the current entry or to its translation
\* disturbs no entry before it but those it is written over.
LEMMA OthersKept ==
  ASSUME NEW image \in Diskette, DumpType(image), Current, Extracted(image, entry),
         UNCHANGED <<dsk, dirs, entry>>, NEW q,
         NEW f \in {EntryAt(entry).name, TranslationOf(EntryAt(entry))},
         outputs' = [outputs EXCEPT ![f] = q],
         \A x : x # EntryAt(entry).name => (x \in lost' <=> x \in lost)
  PROVE  Extracted(image, entry)'
<1>1. entry \in Nat /\ entry' = entry /\ outputs \in [FileName -> Seq(Link)]
  BY DEF DumpType
<1>2. \A n : EntryAt(n)' = EntryAt(n)
  BY EntriesKept
<1>3. ASSUME NEW n \in 0 .. entry - 1, Used(EntryAt(n)), LastOfName(n, entry)
      PROVE  /\ outputs'[EntryAt(n).name] = outputs[EntryAt(n).name]
             /\ EntryAt(n).name \in lost' <=> EntryAt(n).name \in lost
             /\ Whole(image, n)
  <2>1. EntryAt(n).name # f /\ EntryAt(n).name # EntryAt(entry).name
    <3>1. entry \in n + 1 .. entry
      BY <1>1
    <3>2. ~Overwrites(entry, n) /\ Used(EntryAt(entry))
      BY <1>3, <3>1 DEF LastOfName, Current
    <3>. QED
      BY <3>2 DEF Overwrites
  <2>2. n \in Nat /\ n < EntryCount
    <3>1. EntryCount \in Nat
      BY EntriesType DEF DumpType, EntryCount
    <3>. QED
      BY <1>1, <3>1 DEF Current
  <2>3. EntryAt(n).name \in FileName
    BY <2>2, EntryType
  <2>. QED
    BY <1>1, <1>3, <2>1, <2>3 DEF Extracted
<1>4. ASSUME NEW n \in 0 .. entry - 1
      PROVE  /\ Used(EntryAt(n))' <=> Used(EntryAt(n))
             /\ LastOfName(n, entry)' <=> LastOfName(n, entry)
  <2>1. Used(EntryAt(n))' <=> Used(EntryAt(n))
    BY <1>2 DEF Used
  <2>2. LastOfName(n, entry)' <=> LastOfName(n, entry)
    BY <1>1, EntriesKept DEF LastOfName
  <2>. QED
    BY <2>1, <2>2
<1>5. ASSUME NEW n \in 0 .. entry - 1, Used(EntryAt(n)), LastOfName(n, entry)
      PROVE  Whole(image, n)'
  BY <1>2, <1>3, <1>5 DEF Whole
<1>. QED
  BY <1>1, <1>4, <1>5 DEF Extracted

LEMMA SkipEntryInv ==
  ASSUME NEW image \in Diskette, DumpInv(image), SkipEntry
  PROVE  DumpInv(image)'
<1>1. /\ dump = "extract" /\ entry < EntryCount /\ ~Used(EntryAt(entry)) /\ entry' = entry + 1
      /\ UNCHANGED <<dsk, cursor, dirs, pair, outputs, pending, lost, dump>>
  BY DEF SkipEntry
<1>2. entry \in Nat /\ EntryCount \in Nat
  BY EntriesType DEF DumpInv, DumpType, EntryCount
<1>3. EntryCount' = EntryCount /\ (\A n : EntryAt(n)' = EntryAt(n)) /\ (Typed' <=> Typed)
  BY <1>1, EntriesKept
<1>4. ASSUME NEW n \in 0 .. entry', Used(EntryAt(n))', LastOfName(n, entry - 1)', n # entry'
      PROVE  Whole(image, n)'
  <2>1. Used(EntryAt(n)) /\ n # entry /\ n \in 0 .. entry - 1
    BY <1>1, <1>2, <1>3, <1>4 DEF Used
  <2>2. LastOfName(n, entry - 1)
    <3>1. \A m \in n + 1 .. entry - 1 : m \in n + 1 .. entry' - 1
      BY <1>1, <1>2
    <3>. QED
      BY <1>1, <1>4, <3>1, EntriesKept DEF LastOfName
  <2>3. Whole(image, n)
    BY <1>1, <2>1, <2>2 DEF DumpInv, Extracted
  <2>. QED
    BY <1>1, <1>3, <2>3 DEF Whole
<1>5. Extracted(image, entry - 1)'
  BY <1>1, <1>2, <1>4 DEF Extracted
<1>6. DumpType(image)'
  BY <1>1, <1>2 DEF DumpInv, DumpType
<1>. QED
  BY <1>1, <1>2, <1>3, <1>5, <1>6 DEF DumpInv

LEMMA OpenInv ==
  ASSUME NEW image \in Diskette, DumpInv(image), OpenOutput
  PROVE  DumpInv(image)'
<1>1. /\ dump = "extract" /\ Current /\ dump' = "lists"
      /\ outputs' = [outputs EXCEPT ![EntryAt(entry).name] = <<>>]
      /\ pending' = <<>> /\ lost' = lost \ {EntryAt(entry).name}
      /\ cursor' = EntryAt(entry).first /\ pair' = 0
      /\ UNCHANGED <<dsk, dirs, entry>>
  BY DEF OpenOutput, ToExtract, Current
<1>2. DumpType(image) /\ entry \in Nat /\ outputs \in [FileName -> Seq(Link)]
  BY DEF DumpInv, DumpType
<1>3. EntryCount' = EntryCount /\ (\A n : EntryAt(n)' = EntryAt(n)) /\ (Typed' <=> Typed)
  BY <1>1, EntriesKept
<1>4. EntryAt(entry).first \in Link /\ EntryAt(entry).name \in FileName
  BY <1>1, <1>2, EntryType DEF Current
<1>5. Extracted(image, entry)
  <2>1. ASSUME NEW n \in 0 .. entry - 1, LastOfName(n, entry) PROVE LastOfName(n, entry - 1)
    <3>1. n + 1 .. entry - 1 \subseteq n + 1 .. entry
      BY <1>2
    <3>. QED
      BY <2>1, <3>1 DEF LastOfName
  <2>. QED
    BY <1>1, <2>1 DEF DumpInv, Extracted
<1>6. Extracted(image, entry)'
  BY <1>1, <1>2, <1>5, OthersKept
<1>7. outputs' \in [FileName -> Seq(Link)] /\ outputs'[EntryAt(entry).name] = <<>>
  BY <1>1, <1>2, <1>4
<1>8. (Output \o pending)' = <<>> /\ EntryAt(entry)' = EntryAt(entry)
  <2>1. <<>> \o <<>> = <<>>
    OBVIOUS
  <2>. QED
    BY <1>1, <1>3, <1>7, <2>1 DEF Output
<1>9. Written(image, 0)'
  <2>1. After(image, EntryAt(entry).first, 0) = EntryAt(entry).first
    BY <1>4, AfterSteps
  <2>2. Sectors(image, EntryAt(entry).first, 0) = <<>>
    BY SectorsSteps
  <2>3. ASSUME cursor' \in Dsk
        PROVE  InUse(image[cursor'].pairs, 0) = <<>> /\ 0 <= Len(image[cursor'].pairs)
    <3>1. image[cursor'].pairs \in Seq(Link)
      BY <2>3 DEF Diskette
    <3>. QED
      BY <3>1, InUseSteps
  <2>4. <<>> \o <<>> = <<>> /\ 0 .. 0 - 1 = {}
    OBVIOUS
  <2>. QED
    BY <1>1, <1>8, <2>1, <2>2, <2>3, <2>4 DEF Written
<1>10. Writing(image)'
  BY <1>9 DEF Writing
<1>11. DumpType(image)'
  <2>1. <<>> \in Seq(Link) /\ Len(<<>>) <= StdioSectors
    BY DumpAssumption DEF DumpAssumption
  <2>. QED
    BY <1>1, <1>2, <1>4, <1>7, <2>1 DEF DumpType
<1>12. Current'
  BY <1>1, <1>3, <1>8 DEF Used, Current
<1>. QED
  BY <1>1, <1>3, <1>6, <1>10, <1>11, <1>12 DEF DumpInv

\* What stdio writes of its buffer.
LEMMA Split ==
  ASSUME NEW S, NEW q \in Seq(S), NEW r \in Seq(S), NEW k \in 0 .. Len(r)
  PROVE  LET some == q \o SubSeq(r, 1, k)
         IN  /\ some \in Seq(S)
             /\ IsPrefix(some, q \o r)
             /\ Len(q \o r) - Len(some) = Len(r) - k
             /\ k = Len(r) => some = q \o r
<1> DEFINE p == SubSeq(r, 1, k)
           some == q \o p
           whole == q \o r
<1>1. p \in Seq(S) /\ Len(p) = k /\ Len(q) \in Nat /\ Len(r) \in Nat
      /\ \A i \in 1 .. k : p[i] = r[i]
  OBVIOUS
<1>2. k = Len(r) => p = r
  BY <1>1
<1>. HIDE DEF p
<1>3. /\ some \in Seq(S) /\ whole \in Seq(S)
      /\ Len(some) = Len(q) + k /\ Len(whole) = Len(q) + Len(r)
      /\ \A i \in 1 .. Len(q) + k : some[i] = whole[i]
  <2>1. some \in Seq(S) /\ whole \in Seq(S) /\ Len(some) = Len(q) + k
        /\ Len(whole) = Len(q) + Len(r)
    BY <1>1
  <2>2. ASSUME NEW i \in 1 .. Len(q) + k PROVE some[i] = whole[i]
    <3>1. CASE i <= Len(q)
      BY <1>1, <3>1
    <3>2. CASE ~(i <= Len(q))
      <4>1. i - Len(q) \in 1 .. k /\ i - Len(q) \in 1 .. Len(r)
        BY <1>1, <3>2
      <4>2. some[i] = p[i - Len(q)] /\ whole[i] = r[i - Len(q)]
        BY <1>1, <3>2, <4>1
      <4>. QED
        BY <1>1, <4>1, <4>2
    <3>. QED
      BY <3>1, <3>2
  <2>. QED
    BY <2>1, <2>2
<1>4. IsPrefix(some, whole)
  <2>. HIDE DEF some, whole
  <2>1. SubSeq(some, 1, Len(some)) = SubSeq(whole, 1, Len(some))
    <3> DEFINE a == SubSeq(some, 1, Len(some))
               b == SubSeq(whole, 1, Len(some))
    <3>1. /\ a \in Seq(S) /\ Len(a) = Len(some)
          /\ b \in Seq(S) /\ Len(b) = Len(some)
          /\ \A i \in 1 .. Len(some) : a[i] = some[i] /\ b[i] = whole[i]
      BY <1>1, <1>3
    <3>. HIDE DEF a, b
    <3>2. a = b
      BY <1>3, <3>1
    <3>. QED
      BY <3>2 DEF a, b
  <2>2. Len(some) <= Len(whole)
    BY <1>1, <1>3
  <2>. QED
    BY <2>1, <2>2 DEF IsPrefix
<1>5. k = Len(r) => some = whole
  BY <1>2
<1>. QED
  BY <1>1, <1>3, <1>4, <1>5 DEF p

\* What is flushed goes to the output of the current entry.
LEMMA FlushedOutput ==
  ASSUME NEW image \in Diskette, DumpType(image), Current, UNCHANGED <<dsk, dirs, entry>>,
         NEW k, Flushed(k)
  PROVE  /\ k \in 0 .. Len(pending)
         /\ Output \in Seq(Link)
         /\ outputs' = [outputs EXCEPT ![EntryAt(entry).name] = Output \o SubSeq(pending, 1, k)]
         /\ outputs' \in [FileName -> Seq(Link)]
         /\ Output' = Output \o SubSeq(pending, 1, k)
<1> DEFINE x == EntryAt(entry).name
           q == Output \o SubSeq(pending, 1, k)
<1>1. entry \in Nat /\ entry < EntryCount /\ outputs \in [FileName -> Seq(Link)]
      /\ pending \in Seq(Link)
  BY DEF DumpType, Current
<1>2. x \in FileName
  BY <1>1, EntryType
<1>3. k \in 0 .. Len(pending) /\ outputs' = [outputs EXCEPT ![x] = q]
  BY DEF Flushed, Output
<1>4. Output \in Seq(Link)
  BY <1>1, <1>2 DEF Output
<1>5. q \in Seq(Link)
  BY <1>1, <1>3, <1>4, Split
<1>6. EntryAt(entry)' = EntryAt(entry)
  BY EntriesKept
<1>. HIDE DEF q
<1>7. outputs' \in [FileName -> Seq(Link)] /\ outputs'[x] = q
  <2>. HIDE DEF x
  <2>. QED
    BY <1>1, <1>2, <1>3, <1>5
<1>8. Output' = q
  BY <1>6, <1>7 DEF Output
<1>. QED
  BY <1>3, <1>4, <1>7, <1>8 DEF q

LEMMA AppendBehind ==
  ASSUME NEW S, NEW q \in Seq(S), NEW r \in Seq(S), NEW x \in S
  PROVE  q \o Append(r, x) = Append(q \o r, x) /\ q \o <<x>> = Append(q, x)
OBVIOUS

LEMMA WritePairInv ==
  ASSUME NEW image \in Diskette, DumpInv(image), WritePair
  PROVE  DumpInv(image)'
<1> DEFINE e == EntryAt(entry)
<1>1. PICK ts \in Link \ {None} :
        /\ pair < Len(dsk[cursor].pairs) /\ dsk[cursor].pairs[pair + 1] = ts
        /\ \/ /\ Len(pending) < StdioSectors
              /\ pending' = Append(pending, ts)
              /\ UNCHANGED outputs
           \/ /\ Len(pending) = StdioSectors
              /\ Flushed(Len(pending))
              /\ pending' = <<ts>>
  BY DEF WritePair, PairIs
<1>2. /\ dump = "lists" /\ dump' = "lists" /\ cursor \in Dsk /\ pair' = pair + 1
      /\ UNCHANGED <<dsk, cursor, dirs, entry, lost>>
  BY DEF WritePair, InList, HasAddress
<1>3. DumpType(image) /\ entry \in Nat /\ pair \in Nat /\ outputs \in [FileName -> Seq(Link)]
      /\ dsk = image /\ Current /\ Extracted(image, entry) /\ pending \in Seq(Link) /\ Typed
      /\ Len(pending) \in Nat /\ Len(pending) <= StdioSectors
  BY <1>2 DEF DumpInv, DumpType
<1>4. EntryCount' = EntryCount /\ (\A n : EntryAt(n)' = EntryAt(n)) /\ (Typed' <=> Typed)
  BY <1>2, EntriesKept
<1>5. e.first \in Link /\ e.name \in FileName
  BY <1>3, EntryType DEF Current
<1>6. StdioSectors \in Nat \ {0}
  BY DumpAssumption DEF DumpAssumption
<1>7. /\ Extracted(image, entry)'
      /\ outputs' \in [FileName -> Seq(Link)]
      /\ pending' \in Seq(Link) /\ Len(pending') <= StdioSectors
      /\ (Output \o pending)' = Append(Output \o pending, ts)
  <2>1. CASE UNCHANGED outputs /\ pending' = Append(pending, ts) /\ Len(pending) < StdioSectors
    <3>1. Extracted(image, entry)'
      BY <1>2, <1>3, <1>4, <2>1, EntriesKept DEF Extracted, LastOfName, Whole, Used
    <3>2. Output' = Output /\ Output \in Seq(Link)
      BY <1>2, <1>3, <1>4, <1>5, <2>1 DEF Output
    <3>3. pending' \in Seq(Link) /\ Len(pending') <= StdioSectors
      BY <1>3, <1>6, <2>1
    <3>4. Output \o Append(pending, ts) = Append(Output \o pending, ts)
      BY <1>3, <3>2, AppendBehind
    <3>. QED
      BY <1>3, <2>1, <3>1, <3>2, <3>3, <3>4
  <2>2. CASE Flushed(Len(pending)) /\ pending' = <<ts>>
    <3>1. /\ Output \in Seq(Link)
          /\ outputs' = [outputs EXCEPT ![e.name] = Output \o SubSeq(pending, 1, Len(pending))]
          /\ outputs' \in [FileName -> Seq(Link)]
          /\ Output' = Output \o SubSeq(pending, 1, Len(pending))
      BY <1>2, <1>3, <2>2, FlushedOutput
    <3>2. Extracted(image, entry)'
      BY <1>2, <1>3, <3>1, OthersKept
    <3>3. Output' = Output \o pending /\ Output \o pending \in Seq(Link)
      BY <1>3, <3>1
    <3>4. <<ts>> \in Seq(Link) /\ Len(<<ts>>) <= StdioSectors
      BY <1>6
    <3>5. (Output \o pending) \o <<ts>> = Append(Output \o pending, ts)
      BY <3>3, AppendBehind
    <3>. QED
      BY <2>2, <3>1, <3>2, <3>3, <3>4, <3>5
  <2>. QED
    BY <1>1, <2>1, <2>2
<1>8. EntryAt(entry)' = e
  BY <1>2, <1>4
<1>9. PICK k \in Nat : Written(image, k)
  BY <1>2 DEF DumpInv, Writing
<1> DEFINE pairs == image[cursor].pairs
<1>10. pairs \in Seq(Link) /\ pair < Len(pairs) /\ pairs[pair + 1] = ts
  BY <1>1, <1>2, <1>3 DEF Diskette
<1>11. Output \o pending = Sectors(image, e.first, k) \o InUse(pairs, pair)
  BY <1>2, <1>9 DEF Written
<1>12. (Output \o pending)' = Sectors(image, e.first, k) \o InUse(pairs, pair + 1)
  <2>. HIDE DEF e, pairs
  <2>1. pair \in 0 .. Len(pairs) - 1 /\ pair \in 0 .. Len(pairs)
    BY <1>3, <1>10
  <2>2. InUse(pairs, pair + 1) = Append(InUse(pairs, pair), ts) /\ InUse(pairs, pair) \in Seq(Link)
    BY <1>1, <1>10, <2>1, InUseSteps
  <2>3. Sectors(image, e.first, k) \in Seq(Link)
    BY SectorsSteps
  <2>4. Append(Sectors(image, e.first, k) \o InUse(pairs, pair), ts)
          = Sectors(image, e.first, k) \o Append(InUse(pairs, pair), ts)
    <3> DEFINE q == Sectors(image, e.first, k)
               r == InUse(pairs, pair)
               S == Link
    <3>1. q \in Seq(S) /\ r \in Seq(S) /\ ts \in S
      BY <2>2, <2>3
    <3>. HIDE DEF q, r, S
    <3>2. q \o Append(r, ts) = Append(q \o r, ts)
      BY <3>1, AppendBehind
    <3>. QED
      BY <3>2 DEF q, r
  <2>. QED
    BY <1>7, <1>11, <2>2, <2>4
<1>13. Written(image, k)'
  <2>1. pair' <= Len(pairs)
    BY <1>2, <1>3, <1>10
  <2>. QED
    BY <1>2, <1>8, <1>9, <1>12, <2>1 DEF Written
<1>14. Writing(image)'
  BY <1>13 DEF Writing
<1>15. DumpType(image)'
  BY <1>2, <1>3, <1>7 DEF DumpType
<1>16. Current'
  BY <1>2, <1>3, <1>4, <1>8 DEF Used, Current
<1>. QED
  BY <1>2, <1>3, <1>4, <1>7, <1>14, <1>15, <1>16 DEF DumpInv

\* What leaves the outputs and the entry alone.
LEMMA StillExtracted ==
  ASSUME NEW image \in Diskette, DumpInv(image), dump = "lists", dump' = "lists",
         UNCHANGED <<dsk, dirs, entry, outputs, pending, lost>>
  PROVE  /\ Extracted(image, entry)' /\ Current' /\ Typed'
         /\ EntryAt(entry)' = EntryAt(entry) /\ Output' = Output
<1>1. EntryCount' = EntryCount /\ (\A n : EntryAt(n)' = EntryAt(n)) /\ (Typed' <=> Typed)
      /\ \A m, n : Overwrites(m, n)' <=> Overwrites(m, n)
  BY EntriesKept
<1>2. Extracted(image, entry) /\ Current /\ Typed
  BY DEF DumpInv
<1>3. Extracted(image, entry)'
  BY <1>1, <1>2 DEF Extracted, LastOfName, Whole, Used
<1>. QED
  BY <1>1, <1>2, <1>3 DEF Used, Output, Current

LEMMA SkipPairInv ==
  ASSUME NEW image \in Diskette, DumpInv(image), SkipPair
  PROVE  DumpInv(image)'
<1> DEFINE e == EntryAt(entry)
           pairs == image[cursor].pairs
<1>1. /\ dump = "lists" /\ dump' = "lists" /\ cursor \in Dsk /\ pair' = pair + 1
      /\ pair < Len(dsk[cursor].pairs) /\ dsk[cursor].pairs[pair + 1] = None
      /\ UNCHANGED <<dsk, cursor, dirs, entry, outputs, pending, lost>>
  BY DEF SkipPair, PairIs, InList, HasAddress
<1>2. DumpType(image) /\ pair \in Nat /\ dsk = image
  BY DEF DumpInv, DumpType
<1>3. /\ Extracted(image, entry)' /\ Current' /\ Typed'
      /\ EntryAt(entry)' = e /\ Output' = Output
  BY <1>1, StillExtracted
<1>4. PICK k \in Nat : Written(image, k)
  BY <1>1 DEF DumpInv, Writing
<1>5. pairs \in Seq(Link) /\ pair < Len(pairs) /\ pairs[pair + 1] = None
  BY <1>1, <1>2 DEF Diskette
<1>6. InUse(pairs, pair + 1) = InUse(pairs, pair)
  <2>. HIDE DEF pairs
  <2>1. pair \in 0 .. Len(pairs) - 1
    BY <1>2, <1>5
  <2>. QED
    BY <1>5, <2>1, InUseSteps
<1>7. Written(image, k)'
  <2>1. pair' <= Len(pairs)
    BY <1>1, <1>2, <1>5
  <2>2. (Output \o pending)' = Sectors(image, e.first, k) \o InUse(pairs, pair + 1)
    BY <1>1, <1>3, <1>4, <1>6 DEF Written
  <2>. QED
    BY <1>1, <1>3, <1>4, <2>1, <2>2 DEF Written
<1>8. Writing(image)'
  BY <1>7 DEF Writing
<1>9. DumpType(image)'
  BY <1>1, <1>2 DEF DumpType
<1>. QED
  BY <1>1, <1>3, <1>8, <1>9 DEF DumpInv

LEMMA NextListInv ==
  ASSUME NEW image \in Diskette, DumpInv(image), NextList
  PROVE  DumpInv(image)'
<1> DEFINE e == EntryAt(entry)
           pairs == image[cursor].pairs
<1>1. /\ dump = "lists" /\ dump' = "lists" /\ cursor \in Dsk /\ pair' = 0
      /\ pair = Len(dsk[cursor].pairs) /\ cursor' = dsk[cursor].link
      /\ UNCHANGED <<dsk, dirs, entry, outputs, pending, lost>>
  BY DEF NextList, InList, HasAddress
<1>2. DumpType(image) /\ pair \in Nat /\ dsk = image /\ entry \in Nat /\ entry < EntryCount
  BY <1>1 DEF DumpInv, DumpType, Current
<1>3. /\ Extracted(image, entry)' /\ Current' /\ Typed'
      /\ EntryAt(entry)' = e /\ Output' = Output
  BY <1>1, StillExtracted
<1>4. PICK k \in Nat : Written(image, k)
  BY <1>1 DEF DumpInv, Writing
<1>5. e.first \in Link /\ cursor' \in Link
  BY <1>1, <1>2, EntryType DEF Diskette
<1>6. cursor = After(image, e.first, k) /\ cursor' = After(image, e.first, k + 1)
  <2>1. cursor = After(image, e.first, k)
    BY <1>4 DEF Written
  <2>. HIDE DEF e
  <2>2. After(image, e.first, k + 1) = image[After(image, e.first, k)].link
    BY <1>1, <1>5, <2>1, AfterSteps
  <2>. QED
    BY <1>1, <1>2, <2>1, <2>2
<1>7. Output \o pending = Sectors(image, e.first, k + 1)
  <2>1. Output \o pending = Sectors(image, e.first, k) \o InUse(pairs, Len(pairs))
    BY <1>1, <1>2, <1>4 DEF Written
  <2>2. ListAt(image, cursor) = InUse(pairs, Len(pairs))
    BY <1>1 DEF ListAt
  <2>. QED
    BY <1>6, <2>1, <2>2, SectorsSteps
<1>8. \A j \in 0 .. (k + 1) - 1 : After(image, e.first, j) \in Dsk
  <2>1. 0 .. (k + 1) - 1 = (0 .. k - 1) \cup {k}
    OBVIOUS
  <2>. QED
    BY <1>1, <1>4, <1>6, <2>1 DEF Written
<1>9. ASSUME cursor' \in Dsk
      PROVE  /\ 0 <= Len(image[cursor'].pairs)
             /\ Output \o pending
                  = Sectors(image, e.first, k + 1) \o InUse(image[cursor'].pairs, 0)
  <2>1. image[cursor'].pairs \in Seq(Link)
    BY <1>9 DEF Diskette
  <2>2. InUse(image[cursor'].pairs, 0) = <<>> /\ 0 <= Len(image[cursor'].pairs)
    BY <2>1, InUseSteps
  <2>3. k + 1 \in Nat
    OBVIOUS
  <2>4. Sectors(image, e.first, k + 1) \in Seq(Link)
    BY <2>3, SectorsSteps
  <2>. QED
    BY <1>7, <2>2, <2>4
<1>10. Written(image, k + 1)'
  BY <1>1, <1>3, <1>6, <1>7, <1>8, <1>9 DEF Written
<1>11. k + 1 \in Nat
  OBVIOUS
<1>12. Writing(image)'
  BY <1>10, <1>11 DEF Writing
<1>13. DumpType(image)'
  BY <1>1, <1>2, <1>5 DEF DumpType
<1>. QED
  BY <1>1, <1>3, <1>12, <1>13 DEF DumpInv

LEMMA CloseInv ==
  ASSUME NEW image \in Diskette, DumpInv(image), CloseOutput
  PROVE  DumpInv(image)'
<1> DEFINE e == EntryAt(entry)
<1>1. PICK k \in 0 .. Len(pending) :
        /\ Flushed(k)
        /\ lost' = IF k = Len(pending) THEN lost ELSE lost \cup {e.name}
  BY DEF CloseOutput
<1>2. /\ dump = "lists" /\ cursor = None /\ dump' = "translate" /\ pending' = <<>>
      /\ UNCHANGED <<dsk, cursor, dirs, entry, pair>>
  BY DEF CloseOutput
<1>3. /\ DumpType(image) /\ entry \in Nat /\ Current /\ Extracted(image, entry) /\ Typed
      /\ pending \in Seq(Link) /\ Len(pending) \in Nat /\ Len(pending) <= StdioSectors
  BY <1>2 DEF DumpInv, DumpType
<1>4. EntryCount' = EntryCount /\ (\A n : EntryAt(n)' = EntryAt(n)) /\ (Typed' <=> Typed)
  BY <1>2, EntriesKept
<1>5. /\ Output \in Seq(Link)
      /\ outputs' = [outputs EXCEPT ![e.name] = Output \o SubSeq(pending, 1, k)]
      /\ outputs' \in [FileName -> Seq(Link)]
      /\ Output' = Output \o SubSeq(pending, 1, k)
  BY <1>1, <1>2, <1>3, FlushedOutput
<1>6. Extracted(image, entry)'
  <2>1. \A x : x # e.name => (x \in lost' <=> x \in lost)
    BY <1>1
  <2>. QED
    BY <1>2, <1>3, <1>5, <2>1, OthersKept
<1>7. Output \o pending = Sectors(image, e.first, Cardinality(Dsk))
  <2>1. PICK m \in Nat : Written(image, m)
    BY <1>2 DEF DumpInv, Writing
  <2>2. e.first \in Link
    BY <1>3, EntryType DEF Current
  <2>3. cursor \notin Dsk
    BY <1>2, NoneIsNoSector
  <2>4. /\ Output \o pending = Sectors(image, e.first, m)
        /\ \A j \in 0 .. m - 1 : After(image, e.first, j) \in Dsk
        /\ After(image, e.first, m) \notin Dsk
    BY <2>1, <2>3 DEF Written
  <2>. QED
    BY <2>2, <2>4, SectorsEnd
<1>8. Whole(image, entry)'
  <2> DEFINE all == Output \o pending
             out == Output \o SubSeq(pending, 1, k)
  <2>1. /\ IsPrefix(out, all) /\ Len(all) - Len(out) = Len(pending) - k
        /\ k = Len(pending) => out = all
    <3> DEFINE q == Output
               S == Link
    <3>1. q \in Seq(S) /\ pending \in Seq(S) /\ k \in 0 .. Len(pending)
      BY <1>3, <1>5
    <3>. HIDE DEF q, S
    <3>2. LET some == q \o SubSeq(pending, 1, k)
          IN  /\ some \in Seq(S)
              /\ IsPrefix(some, q \o pending)
              /\ Len(q \o pending) - Len(some) = Len(pending) - k
              /\ k = Len(pending) => some = q \o pending
      BY <3>1, Split
    <3>. QED
      BY <3>2 DEF q
  <2>2. EntryAt(entry)' = e /\ outputs'[e.name] = out
    BY <1>2, <1>4, <1>5 DEF Output
  <2>3. e.name \notin lost' => k = Len(pending)
    BY <1>1
  <2>4. Len(pending) - k <= StdioSectors
    BY <1>3, DumpAssumption DEF DumpAssumption
  <2>. HIDE DEF all, out
  <2>5. Len(all) - Len(out) <= StdioSectors
    BY <2>1, <2>4
  <2>6. all = Sectors(image, e.first, Cardinality(Dsk))
    BY <1>7 DEF all
  <2>. QED
    BY <1>2, <2>1, <2>2, <2>3, <2>5, <2>6 DEF Whole
<1>9. DumpType(image)'
  <2>1. <<>> \in Seq(Link) /\ Len(<<>>) <= StdioSectors
    BY DumpAssumption DEF DumpAssumption
  <2>. QED
    BY <1>2, <1>3, <1>5, <2>1 DEF DumpType
<1>10. Current'
  BY <1>2, <1>3, <1>4 DEF Current, Used
<1>. QED
  BY <1>2, <1>3, <1>4, <1>6, <1>8, <1>9, <1>10 DEF DumpInv

LEMMA TranslateInv ==
  ASSUME NEW image \in Diskette, DumpInv(image), Translate
  PROVE  DumpInv(image)'
<1> DEFINE e == EntryAt(entry)
           t == TranslationOf(e)
<1>1. /\ dump = "translate" /\ dump' = "extract" /\ entry' = entry + 1
      /\ outputs' = [outputs EXCEPT ![t] = Listing]
      /\ UNCHANGED <<dsk, cursor, dirs, pair, pending, lost>>
  BY DEF Translate, WritesTranslation
<1>2. /\ DumpType(image) /\ entry \in Nat /\ Current /\ Extracted(image, entry) /\ Typed
      /\ Whole(image, entry) /\ outputs \in [FileName -> Seq(Link)] /\ EntryCount \in Nat
  BY <1>1, EntriesType DEF DumpInv, DumpType, EntryCount
<1>3. EntryCount' = EntryCount /\ (\A n : EntryAt(n)' = EntryAt(n)) /\ (Typed' <=> Typed)
  BY <1>1, EntriesKept
<1>4. e \in Entry /\ e.name \in Name /\ e.name \in FileName
  BY <1>2, EntryType DEF Current
<1>5. t \in FileName /\ t # e.name
  <2>1. e.type # "invalid"
    BY <1>2 DEF Typed, Current
  <2>2. e.type \in FileTypes
    BY <1>4, <2>1 DEF Entry
  <2>. QED
    BY <1>4, <2>2, DumpAssumption DEF DumpAssumption, TranslationOf
<1>6. outputs' \in [FileName -> Seq(Link)]
  <2>1. Listing \in Seq(Link)
    BY DEF Listing, Link
  <2>. QED
    BY <1>1, <1>2, <1>5, <2>1
<1>7. ASSUME NEW n \in 0 .. entry, Used(EntryAt(n)), LastOfName(n, entry)
      PROVE  Whole(image, n)'
  <2>1. Whole(image, n)
    BY <1>2, <1>7 DEF Extracted
  <2>2. EntryAt(n).name \in FileName
    BY <1>2, <1>7, EntryType DEF Current
  <2>3. EntryAt(n).name # t
    <3>1. CASE n = entry
      BY <1>5, <3>1
    <3>2. CASE n # entry
      <4>1. entry \in n + 1 .. entry
        BY <1>2, <3>2
      <4>. QED
        BY <1>2, <1>7, <4>1 DEF LastOfName, Overwrites, Current
    <3>. QED
      BY <3>1, <3>2
  <2>4. outputs'[EntryAt(n).name] = outputs[EntryAt(n).name]
    BY <1>1, <1>2, <2>2, <2>3
  <2>. QED
    BY <1>1, <1>3, <2>1, <2>4 DEF Whole
<1>8. Extracted(image, entry - 1)'
  <2>1. entry' - 1 = entry
    BY <1>1, <1>2
  <2>2. ASSUME NEW n \in 0 .. entry, Used(EntryAt(n))', LastOfName(n, entry - 1)'
        PROVE  Whole(image, n)'
    <3>1. Used(EntryAt(n)) /\ LastOfName(n, entry)
      BY <1>1, <1>3, <2>1, <2>2, EntriesKept DEF Used, LastOfName
    <3>. QED
      BY <1>7, <3>1
  <2>. QED
    BY <2>1, <2>2 DEF Extracted
<1>9. DumpType(image)' /\ entry' <= EntryCount'
  BY <1>1, <1>2, <1>3, <1>6 DEF DumpType, Current
<1>. QED
  BY <1>1, <1>2, <1>3, <1>8, <1>9 DEF DumpInv

\* Where the program ends inside a file, of which nothing is claimed.
LEMMA EndInv ==
  ASSUME NEW image \in Diskette, DumpInv(image), DiskFull \/ TranslateDies
  PROVE  DumpInv(image)'
<1>1. /\ dump' \in {"full", "died"} /\ dump \in {"lists", "translate"}
      /\ UNCHANGED <<dsk, cursor, dirs, entry, pair, pending>>
  BY DEF DiskFull, TranslateDies, InList
<1>2. DumpType(image) /\ Current /\ outputs \in [FileName -> Seq(Link)]
  BY <1>1 DEF DumpInv, DumpType
<1>3. outputs' \in [FileName -> Seq(Link)]
  <2>1. CASE DiskFull
    <3>1. PICK k : Flushed(k)
      BY <2>1 DEF DiskFull
    <3>. QED
      BY <1>1, <1>2, <3>1, FlushedOutput
  <2>2. CASE TranslateDies
    <3>1. Listing \in Seq(Link)
      BY DEF Listing, Link
    <3>. QED
      BY <1>2, <2>2, <3>1 DEF TranslateDies, WritesTranslation
  <2>. QED
    BY <2>1, <2>2
<1>. QED
  BY <1>1, <1>2, <1>3 DEF DumpInv, DumpType

\* A state that differs in dump at most.
LEMMA StillInv ==
  ASSUME NEW image \in Diskette, DumpInv(image),
         UNCHANGED <<dsk, cursor, dirs, entry, pair, outputs, pending, lost>>,
         dump' = dump \/ (dump = "extract" /\ dump' = "finished")
  PROVE  DumpInv(image)'
<1>1. EntryCount' = EntryCount /\ (\A n : EntryAt(n)' = EntryAt(n)) /\ (Typed' <=> Typed)
      /\ \A m, n : Overwrites(m, n)' <=> Overwrites(m, n)
  BY EntriesKept
<1>2. DumpType(image)'
  BY DEF DumpInv, DumpType
<1>3. /\ Extracted(image, entry - 1) => Extracted(image, entry - 1)'
      /\ Extracted(image, entry) => Extracted(image, entry)'
      /\ Whole(image, entry) => Whole(image, entry)'
      /\ Current => Current'
  BY <1>1 DEF Extracted, LastOfName, Whole, Used, Current
<1>4. CASE dump = "lists"
  <2>1. PICK k \in Nat : Written(image, k)
    BY <1>4 DEF DumpInv, Writing
  <2>2. EntryAt(entry)' = EntryAt(entry) /\ Output' = Output
    BY <1>4, StillExtracted
  <2>3. Written(image, k)'
    BY <2>1, <2>2 DEF Written
  <2>4. Writing(image)'
    BY <2>3 DEF Writing
  <2>. QED
    BY <1>1, <1>2, <1>3, <1>4, <2>4 DEF DumpInv
<1>5. CASE dump # "lists"
  BY <1>1, <1>2, <1>3, <1>5 DEF DumpInv
<1>. QED
  BY <1>4, <1>5

LEMMA DumpStep ==
  ASSUME NEW image \in Diskette
  PROVE  DumpInv(image) /\ [DumpNext]_dumpVars => DumpInv(image)'
<1> SUFFICES ASSUME DumpInv(image), [DumpNext]_dumpVars PROVE DumpInv(image)'
  OBVIOUS
<1>1. CASE ScanSector
  BY <1>1, ScanInv
<1>2. CASE ScanAborts
  BY <1>2, StopInv DEF ScanAborts
<1>3. CASE ScanOverruns
  BY <1>3, StopInv DEF ScanOverruns
<1>4. CASE PrintDirectory
  BY <1>4, PrintInv
<1>5. CASE SkipEntry
  BY <1>5, SkipEntryInv
<1>6. CASE OpenOutput
  BY <1>6, OpenInv
<1>7. CASE WritePair
  BY <1>7, WritePairInv
<1>8. CASE SkipPair
  BY <1>8, SkipPairInv
<1>9. CASE NextList
  BY <1>9, NextListInv
<1>10. CASE WriteAborts
  BY <1>10, StopInv DEF WriteAborts
<1>11. CASE DiskFull \/ TranslateDies
  BY <1>11, EndInv
<1>12. CASE CloseOutput
  BY <1>12, CloseInv
<1>13. CASE ExtractDone
  BY <1>13, StillInv DEF ExtractDone, DumpStops
<1>14. CASE OpenFails
  BY <1>14, StopInv DEF OpenFails
<1>15. CASE Translate
  BY <1>15, TranslateInv
<1>16. CASE UNCHANGED dumpVars
  BY <1>16, StillInv DEF dumpVars
<1>. QED
  BY <1>1, <1>2, <1>3, <1>4, <1>5, <1>6, <1>7, <1>8, <1>9, <1>10, <1>11, <1>12, <1>13,
     <1>14, <1>15, <1>16 DEF DumpNext

LEMMA DumpKept ==
  ASSUME NEW image \in Diskette, DumpInv(image)
  PROVE  FilesWhole
<1>1. ASSUME dump \in {"extract", "finished"}, NEW n \in 0 .. entry - 1,
             Used(EntryAt(n)), LastOfName(n, entry - 1)
      PROVE  Whole(image, n) /\ dsk = image
  BY <1>1 DEF DumpInv, DumpType, Extracted
<1>2. CASE dump \in {"extract", "finished"}
  <2>1. \A n \in 0 .. entry - 1 :
          Used(EntryAt(n)) /\ LastOfName(n, entry - 1) =>
            LET all == Sectors(dsk, EntryAt(n).first, Cardinality(Dsk))
                out == outputs[EntryAt(n).name]
            IN  /\ IsPrefix(out, all)
                /\ Len(all) - Len(out) <= StdioSectors
                /\ EntryAt(n).name \notin lost => out = all
    BY <1>1, <1>2 DEF Whole
  <2>. QED
    BY <2>1 DEF FilesWhole, LastOfName
<1>. QED
  BY <1>2 DEF FilesWhole

\* Whatever a diskette holds, however many sectors its VTOC promises, and whenever
\* the disk that is written to is full: the files that have been extracted hold
\* every sector of every list of their entries, in order and without the holes.
\* One of which fclose has failed, which the program does not notice, lacks some
\* of the last that stdio held back, and no more.  Files that a later entry or
\* its translation is written over are left out.
THEOREM FilesAreWhole ==
  ASSUME NEW image \in Diskette, NEW sectors, NEW first \in Link
  PROVE  DumpSpec(image, sectors, first) => []FilesWhole
<1>1. DumpInv(image) => FilesWhole
  BY DumpKept
<1>2. DumpInit(image, sectors, first) => DumpInv(image)
  BY DumpStart
<1>3. DumpInv(image) /\ [DumpNext]_dumpVars => DumpInv(image)'
  BY DumpStep
<1>. QED
  BY <1>1, <1>2, <1>3, PTL DEF DumpSpec
-----------------------------------------------------------------------------
(***************************************************************************)
(* The arguments of commands.                                              *)
(***************************************************************************)
CommandSpec(chars, how) == CommandInit(chars, how) /\ [][CommandNext]_commandVars

LEMMA DigitAdds ==
  ASSUME NEW v \in Nat, NEW d \in Digit
  PROVE  /\ 10 * v + d - code0 \in Nat
         /\ v <= 10 * v + d - code0
<1>1. d \in Nat /\ d >= 48
  BY DEF Digit, code0
<1>. QED
  BY <1>1 DEF code0

\* What the numbers sent are, character by character.
LEMMA SentSteps ==
  ASSUME NEW s \in Seq(Nat)
  PROVE  /\ Sent(s, 0) = 0
         /\ \A n \in Nat : Sent(s, n) \in Nat
         /\ \A n \in Nat : Sent(s, n + 1) =
              IF n + 1 \notin DOMAIN s \/ s[n + 1] \in Delimiter THEN 0
              ELSE IF s[n + 1] \in Digit THEN 10 * Sent(s, n) + s[n + 1] - code0
              ELSE Sent(s, n)
<1> DEFINE Put(i, v) == IF i \notin DOMAIN s \/ s[i] \in Delimiter THEN 0
                        ELSE IF s[i] \in Digit THEN 10 * v + s[i] - code0
                        ELSE v
           F == [x \in Nat \X Nat |-> Put(x[1] + 1, x[2])]
           Body(g) == [i \in Nat |-> Put(i, g[i - 1])]
           sent == CHOOSE g : g = Body(g)
<1>1. ASSUME NEW i \in Nat, NEW v \in Nat PROVE Put(i, v) \in Nat
  <2>1. ASSUME i \in DOMAIN s, s[i] \in Digit PROVE 10 * v + s[i] - code0 \in Nat
    BY <2>1, DigitAdds
  <2>. QED
    BY <2>1
<1>2. \A g : Put(0, g) = 0
  OBVIOUS
<1>. HIDE DEF Put
<1>3. \A n \in Nat, v \in Nat : F[<<n, v>>] = Put(n + 1, v)
  OBVIOUS
<1>4. F \in [Nat \X Nat -> Nat]
  <2>1. ASSUME NEW x \in Nat \X Nat PROVE Put(x[1] + 1, x[2]) \in Nat
    <3>1. x[1] + 1 \in Nat /\ x[2] \in Nat
      OBVIOUS
    <3>. QED
      BY <1>1, <3>1
  <2>. HIDE DEF Put
  <2>. QED
    BY <2>1
<1>. HIDE DEF F
<1>5. PICK c : Counts(c, Nat, 0, F)
  BY <1>4, CountedIteration
<1>6. c \in [Nat -> Nat] /\ c[0] = 0 /\ \A n \in Nat : c[n + 1] = Put(n + 1, c[n])
  BY <1>3, <1>5 DEF Counts
<1>7. c = Body(c)
  <2>1. ASSUME NEW n \in Nat PROVE c[n] = Body(c)[n]
    <3>1. CASE n = 0
      BY <1>2, <1>6, <3>1
    <3>2. CASE n # 0
      <4>1. n - 1 \in Nat /\ (n - 1) + 1 = n
        BY <3>2
      <4>2. c[n] = Put(n, c[n - 1])
        BY <1>6, <4>1
      <4>. QED
        BY <4>2
    <3>. QED
      BY <3>1, <3>2
  <2> DEFINE b == Body(c)
  <2>2. b \in [Nat -> {b[n] : n \in Nat}] /\ \A n \in Nat : c[n] = b[n]
    BY <2>1
  <2>. QED
    BY <1>6, <2>2
<1>8. sent = Body(sent)
  BY <1>7
<1>9. \A k : Sent(s, k) = sent[k]
  BY DEF Sent, Put
<1>. HIDE DEF sent
<1>10. \A n \in Nat : sent[n] = Put(n, sent[n - 1])
  BY <1>8
<1>11. sent[0] = 0 /\ \A n \in Nat : sent[n + 1] = Put(n + 1, sent[n])
  <2>1. \A n \in Nat : n + 1 \in Nat /\ (n + 1) - 1 = n
    OBVIOUS
  <2>. QED
    BY <1>2, <1>10, <2>1
<1>12. ASSUME NEW m \in Nat PROVE sent[m] = c[m]
  <2>1. Agree(sent, c, m)
    BY <1>6, <1>11 DEF Agree
  <2>. QED
    BY <2>1, SameRecursion
<1>13. \A n \in Nat : sent[n] \in Nat
  BY <1>6, <1>12
<1>. QED
  BY <1>9, <1>11, <1>13 DEF Put

\* A place is one more delimiter, or none.
LEMMA BeforeSteps ==
  ASSUME NEW s \in Seq(Nat)
  PROVE  /\ Before(s, 0) = {}
         /\ \A n \in Nat : IsFiniteSet(Before(s, n)) /\ Cardinality(Before(s, n)) \in Nat
         /\ \A n \in 0 .. Len(s) - 1 :
              Cardinality(Before(s, n + 1)) =
                IF s[n + 1] \in Delimiter THEN Cardinality(Before(s, n)) + 1
                ELSE Cardinality(Before(s, n))
         /\ Before(s, Len(s)) = Delimiters(s)
<1>1. DOMAIN s = 1 .. Len(s) /\ Len(s) \in Nat
  OBVIOUS
<1>2. Before(s, 0) = {} /\ Before(s, Len(s)) = Delimiters(s)
  BY <1>1 DEF Before, Delimiters
<1>3. ASSUME NEW n \in Nat PROVE IsFiniteSet(Before(s, n)) /\ Cardinality(Before(s, n)) \in Nat
  <2>1. \A a, b \in Int : IsFiniteSet(a .. b)
    BY FS_Interval
  <2>2. IsFiniteSet(1 .. n) /\ Before(s, n) \in SUBSET (1 .. n)
    BY <1>1, <2>1 DEF Before, Delimiters
  <2>. QED
    BY <2>2, FS_Subset, FS_CardinalityType
<1>4. ASSUME NEW n \in 0 .. Len(s) - 1
      PROVE  Cardinality(Before(s, n + 1)) =
               IF s[n + 1] \in Delimiter THEN Cardinality(Before(s, n)) + 1
               ELSE Cardinality(Before(s, n))
  <2>1. n \in Nat /\ n + 1 \in DOMAIN s /\ \A i \in Nat : i <= n + 1 <=> i <= n \/ i = n + 1
    BY <1>1
  <2>2. \A i \in DOMAIN s : i \in Nat
    BY <1>1
  <2>3. CASE s[n + 1] \in Delimiter
    <3>1. n + 1 \in Delimiters(s) /\ \A i \in Delimiters(s) : i \in Nat
      BY <2>1, <2>2, <2>3 DEF Delimiters
    <3>2. \A i : i \in Before(s, n + 1) <=> i \in Before(s, n) \/ i = n + 1
      BY <2>1, <3>1 DEF Before
    <3>3. Before(s, n + 1) = Before(s, n) \cup {n + 1}
      BY <3>2
    <3>4. n + 1 \notin Before(s, n)
      BY <2>1 DEF Before
    <3>. QED
      BY <1>3, <2>1, <2>3, <3>3, <3>4, FS_AddElement
  <2>4. CASE s[n + 1] \notin Delimiter
    <3>1. Before(s, n + 1) = Before(s, n)
      BY <2>1, <2>2, <2>4 DEF Before, Delimiters
    <3>. QED
      BY <2>4, <3>1
  <2>. QED
    BY <2>3, <2>4
<1>. QED
  BY <1>2, <1>3, <1>4

-----------------------------------------------------------------------------
(***************************************************************************)
(* The invariant of DiskCommands.                                          *)
(***************************************************************************)
\* The argument that ends at k has been stored.
Stored(chars, k) ==
  /\ Cardinality(Before(chars, k)) \in 1 .. Len(args)
  /\ Sent(chars, k) < UIntSize => args[Cardinality(Before(chars, k))] = Sent(chars, k)

\* What has been read of the argument that is being read.
ReadSoFar(chars) ==
  /\ Cardinality(Before(chars, passed)) = Len(args) + 1
  /\ Sent(chars, passed) < UIntSize => argValue = Sent(chars, passed)
  /\ \A k \in ArgEnds(chars) : k < passed => Stored(chars, k)

\* Between two arguments.
ReadAll(chars) ==
  /\ Cardinality(Before(chars, passed)) = Len(args)
  /\ \A k \in ArgEnds(chars) : k <= passed => Stored(chars, k)

CommandInv(chars) ==
  /\ given = chars
  /\ args \in Seq(Nat) /\ argValue \in Nat
  /\ passed \in 0 .. Len(chars)
  /\ form = "decimal" =>
       /\ parse \in {"running", "spaces", "digits", "parsed", "invalid", "refused"}
       /\ parse \in {"running", "parsed"} => ReadAll(chars)
       /\ parse \in {"spaces", "digits"} => ReadSoFar(chars)
       /\ parse = "parsed" => passed = Len(chars)
  /\ form # "decimal" => parse \notin {"spaces", "digits"}

LEMMA Characters ==
  /\ \A c \in Space : c \notin Delimiter /\ c \notin Digit
  /\ \A c \in Digit : c \notin Delimiter
BY DEF Space, Delimiter, Digit, code0

LEMMA ArgEndsType ==
  ASSUME NEW chars \in Seq(Nat), NEW k \in ArgEnds(chars)
  PROVE  k \in 1 .. Len(chars) /\ k \in Nat
<1>1. k \in DOMAIN chars
  BY DEF ArgEnds
<1>. QED
  BY <1>1

LEMMA CommandStart ==
  ASSUME NEW chars \in Seq(Nat), NEW how, CommandInit(chars, how)
  PROVE  CommandInv(chars)
<1>1. given = chars /\ passed = 0 /\ argValue = 0 /\ args = <<>> /\ form = how /\ parse = "running"
  BY DEF CommandInit
<1>2. args \in Seq(Nat) /\ Len(args) = 0 /\ Len(chars) \in Nat
  BY <1>1
<1>3. Cardinality(Before(chars, passed)) = 0
  BY <1>1, BeforeSteps, FS_EmptySet
<1>4. \A k \in ArgEnds(chars) : ~(k <= 0)
  BY DEF ArgEnds
<1>. QED
  BY <1>1, <1>2, <1>3, <1>4 DEF CommandInv, ReadAll

\* A delimiter begins an argument.
LEMMA NextArgKeeps ==
  ASSUME NEW chars \in Seq(Nat), CommandInv(chars), NextArg
  PROVE  CommandInv(chars)'
<1>1. /\ form = "decimal" /\ ReadAll(chars) /\ given = chars
      /\ passed < Len(chars) /\ chars[passed + 1] \in Delimiter
      /\ passed' = passed + 1 /\ argValue' = 0 /\ parse' = "spaces"
      /\ args' = args /\ form' = form /\ given' = given
  BY DEF NextArg, CommandInv, Ahead
<1>2. passed \in Nat /\ Len(chars) \in Nat /\ passed \in 0 .. Len(chars) - 1 /\ passed' \in 0 .. Len(chars)
  BY <1>1 DEF CommandInv
<1>3. Cardinality(Before(chars, passed + 1)) = Len(args) + 1
  BY <1>1, <1>2, BeforeSteps DEF ReadAll
<1>4. Sent(chars, passed + 1) = 0
  BY <1>1, <1>2, SentSteps
<1>5. ASSUME NEW k \in ArgEnds(chars), k < passed + 1 PROVE Stored(chars, k)
  <2>1. k <= passed
    BY <1>2, <1>5 DEF ArgEnds
  <2>. QED
    BY <1>1, <2>1 DEF ReadAll
<1>6. ReadSoFar(chars)'
  BY <1>1, <1>3, <1>4, <1>5 DEF ReadSoFar, Stored
<1>. QED
  BY <1>1, <1>2, <1>6 DEF CommandInv

\* A place behind which the argument goes on is not its end.
LEMMA StillReading ==
  ASSUME NEW chars \in Seq(Nat), passed \in 0 .. Len(chars) - 1,
         passed' = passed + 1, args' = args, ReadSoFar(chars),
         chars[passed + 1] \notin Delimiter
  PROVE  /\ Cardinality(Before(chars, passed')) = Len(args') + 1
         /\ \A k \in ArgEnds(chars) : k < passed' => Stored(chars, k)'
<1>1. Len(chars) \in Nat /\ passed \in Nat
  OBVIOUS
<1>2. Cardinality(Before(chars, passed + 1)) = Len(args) + 1
  BY BeforeSteps DEF ReadSoFar
<1>3. ASSUME NEW k \in ArgEnds(chars), k < passed + 1 PROVE Stored(chars, k)
  <2>1. k # passed
    BY <1>1 DEF ArgEnds
  <2>2. k < passed
    BY <1>1, <1>3, <2>1 DEF ArgEnds
  <2>. QED
    BY <2>2 DEF ReadSoFar
<1>. QED
  BY <1>2, <1>3 DEF Stored

LEMMA SkipSpaceKeeps ==
  ASSUME NEW chars \in Seq(Nat), CommandInv(chars), SkipSpace
  PROVE  CommandInv(chars)'
<1>1. /\ form = "decimal" /\ ReadSoFar(chars) /\ given = chars
      /\ passed < Len(chars) /\ chars[passed + 1] \in Space
      /\ passed' = passed + 1 /\ argValue' = argValue /\ parse' = "spaces"
      /\ args' = args /\ form' = form /\ given' = given
  BY DEF SkipSpace, CommandInv, Ahead
<1>2. passed \in Nat /\ Len(chars) \in Nat /\ passed \in 0 .. Len(chars) - 1 /\ passed' \in 0 .. Len(chars)
  BY <1>1 DEF CommandInv
<1>3. chars[passed + 1] \notin Delimiter /\ chars[passed + 1] \notin Digit
  BY <1>1, Characters
<1>4. Sent(chars, passed + 1) = Sent(chars, passed)
  <2>1. passed + 1 \in DOMAIN chars
    BY <1>2
  <2>. QED
    BY <1>2, <1>3, <2>1, SentSteps
<1>5. ReadSoFar(chars)'
  BY <1>1, <1>2, <1>3, <1>4, StillReading DEF ReadSoFar
<1>. QED
  BY <1>1, <1>2, <1>5 DEF CommandInv

\* The value is the number sent, as long as that is below UIntSize.
LEMMA ReadDigitKeeps ==
  ASSUME NEW chars \in Seq(Nat), CommandInv(chars), ReadDigit
  PROVE  CommandInv(chars)'
<1> DEFINE d == chars[passed + 1]
           sum == 10 * argValue + d - code0
<1>1. /\ form = "decimal" /\ ReadSoFar(chars) /\ given = chars
      /\ passed < Len(chars) /\ d \in Digit
      /\ passed' = passed + 1 /\ parse' = "digits"
      /\ argValue' = sum % UIntSize
      /\ args' = args /\ form' = form /\ given' = given
  BY DEF ReadDigit, CommandInv, Ahead
<1>2. /\ passed \in Nat /\ Len(chars) \in Nat /\ passed \in 0 .. Len(chars) - 1
      /\ passed' \in 0 .. Len(chars) /\ argValue \in Nat
  BY <1>1 DEF CommandInv
<1>3. d \notin Delimiter
  BY <1>1, Characters
<1>4. Sent(chars, passed) \in Nat /\ Sent(chars, passed + 1) = 10 * Sent(chars, passed) + d - code0
  <2>1. passed + 1 \in DOMAIN chars
    BY <1>2
  <2>. QED
    BY <1>1, <1>2, <1>3, <2>1, SentSteps
<1>5. UIntSize \in Nat /\ UIntSize > 0
  BY CommandsAssumption DEF CommandsAssumption
<1>6. \A n \in Nat : n % UIntSize \in Nat /\ (n < UIntSize => n % UIntSize = n)
  BY <1>5
<1>7. sum \in Nat /\ Sent(chars, passed) <= Sent(chars, passed + 1) /\ Sent(chars, passed + 1) \in Nat
  BY <1>1, <1>2, <1>4, DigitAdds
<1>8. argValue' \in Nat
  BY <1>1, <1>6, <1>7
<1>9. ASSUME Sent(chars, passed + 1) < UIntSize PROVE argValue' = Sent(chars, passed + 1)
  <2>1. Sent(chars, passed) < UIntSize
    BY <1>4, <1>5, <1>7, <1>9
  <2>2. argValue = Sent(chars, passed)
    BY <1>1, <2>1 DEF ReadSoFar
  <2>3. sum = Sent(chars, passed + 1)
    BY <1>4, <2>2
  <2>. HIDE DEF sum
  <2>. QED
    BY <1>1, <1>6, <1>7, <1>9, <2>3
<1>. HIDE DEF d, sum
<1>10. ReadSoFar(chars)'
  <2>1. chars[passed + 1] \notin Delimiter
    BY <1>3 DEF d
  <2>. QED
    BY <1>1, <1>2, <1>9, <2>1, StillReading DEF ReadSoFar
<1>. QED
  BY <1>1, <1>2, <1>8, <1>10 DEF CommandInv

\* The value is stored in the place of its delimiter.
LEMMA StoreArgKeeps ==
  ASSUME NEW chars \in Seq(Nat), CommandInv(chars), StoreArg
  PROVE  CommandInv(chars)'
<1>1. /\ form = "decimal" /\ ReadSoFar(chars) /\ given = chars
      /\ args' = Append(args, argValue) /\ parse' = "running"
      /\ passed' = passed /\ argValue' = argValue /\ form' = form /\ given' = given
  BY DEF StoreArg, CommandInv
<1>2. args \in Seq(Nat) /\ argValue \in Nat /\ passed \in 0 .. Len(chars)
  BY DEF CommandInv
<1>3. /\ args' \in Seq(Nat) /\ Len(args) \in Nat /\ Len(args') = Len(args) + 1
      /\ args'[Len(args) + 1] = argValue
      /\ \A i \in 1 .. Len(args) : args'[i] = args[i]
  BY <1>1, <1>2
<1>4. Cardinality(Before(chars, passed)) = Len(args')
  BY <1>1, <1>3 DEF ReadSoFar
<1>5. ASSUME NEW k \in ArgEnds(chars), k <= passed PROVE Stored(chars, k)'
  <2>1. k \in Nat /\ passed \in Nat
    BY <1>2, ArgEndsType
  <2>2. CASE k = passed
    <3>1. Cardinality(Before(chars, k)) = Len(args) + 1
      BY <1>1, <2>2 DEF ReadSoFar
    <3>2. Sent(chars, k) < UIntSize => argValue = Sent(chars, k)
      BY <1>1, <2>2 DEF ReadSoFar
    <3>. QED
      BY <1>3, <3>1, <3>2 DEF Stored
  <2>3. CASE k < passed
    <3>1. Stored(chars, k)
      BY <1>1, <2>3 DEF ReadSoFar
    <3>. QED
      BY <1>3, <3>1 DEF Stored
  <2>. QED
    BY <1>5, <2>1, <2>2, <2>3
<1>6. ReadAll(chars)'
  BY <1>1, <1>4, <1>5 DEF ReadAll
<1>. QED
  BY <1>1, <1>2, <1>3, <1>6 DEF CommandInv

LEMMA FirstThree ==
  ASSUME NEW S, NEW s \in Seq(S), Len(s) >= 3
  PROVE  SubSeq(s, 1, 3) \in Seq(S)
OBVIOUS

\* Arguments that are not decimal.
LEMMA OtherForms ==
  ASSUME BinaryArgs \/ BlockArgs \/ OtherArgs
  PROVE  /\ form # "decimal" /\ parse' \in {"parsed", "invalid", "refused"}
         /\ given' = given /\ passed' = passed /\ argValue' = argValue /\ form' = form
         /\ \/ args' = args \/ args' = given
            \/ ~(Len(given) < 3) /\ args' = SubSeq(given, 1, 3)
<1>1. CASE BinaryArgs
  BY <1>1 DEF BinaryArgs
<1>2. CASE BlockArgs
  <2>1. CASE Len(given) < 3
    BY <1>2, <2>1 DEF BlockArgs
  <2>2. CASE ~(Len(given) < 3)
    BY <1>2, <2>2 DEF BlockArgs
  <2>. QED
    BY <2>1, <2>2
<1>3. CASE OtherArgs
  BY <1>3 DEF OtherArgs, ParseStops
<1>. QED
  BY <1>1, <1>2, <1>3

LEMMA OtherFormsKeep ==
  ASSUME NEW chars \in Seq(Nat), CommandInv(chars), BinaryArgs \/ BlockArgs \/ OtherArgs
  PROVE  CommandInv(chars)'
<1>1. args \in Seq(Nat) /\ given \in Seq(Nat) /\ given = chars
  BY DEF CommandInv
<1>2. /\ form # "decimal" /\ parse' \in {"parsed", "invalid", "refused"}
      /\ given' = given /\ passed' = passed /\ argValue' = argValue /\ form' = form
      /\ \/ args' = args \/ args' = given
         \/ ~(Len(given) < 3) /\ args' = SubSeq(given, 1, 3)
  BY OtherForms
<1>3. args' \in Seq(Nat)
  <2>1. CASE args' = args \/ args' = given
    BY <1>1, <2>1
  <2>2. CASE ~(Len(given) < 3) /\ args' = SubSeq(given, 1, 3)
    <3>1. Len(given) \in Nat
      BY <1>1
    <3>2. Len(given) >= 3
      BY <2>2, <3>1
    <3>. QED
      BY <1>1, <2>2, <3>2, FirstThree
  <2>. QED
    BY <1>2, <2>1, <2>2
<1>. QED
  BY <1>1, <1>2, <1>3 DEF CommandInv

\* The other steps of parseDecimalArgs store nothing.
LEMMA OthersKeep ==
  ASSUME NEW chars \in Seq(Nat), CommandInv(chars),
         \/ SpacesDone \/ DecimalInvalid \/ DecimalOutOfRange \/ DecimalDone
         \/ UNCHANGED commandVars
  PROVE  CommandInv(chars)'
<1>1. UNCHANGED <<given, passed, argValue, args, form>>
  BY DEF SpacesDone, DecimalInvalid, DecimalOutOfRange, DecimalDone, ParseStops, commandVars
<1>2. \/ parse = "spaces" /\ parse' = "digits"
      \/ form = "decimal" /\ parse' \in {"invalid", "refused"}
      \/ form = "decimal" /\ parse = "running" /\ passed = Len(chars) /\ parse' = "parsed"
      \/ parse' = parse
  BY DEF SpacesDone, DecimalInvalid, DecimalOutOfRange, DecimalDone, ParseStops, commandVars,
         CommandInv
<1>3. ReadAll(chars)' = ReadAll(chars) /\ ReadSoFar(chars)' = ReadSoFar(chars)
  BY <1>1 DEF ReadAll, ReadSoFar, Stored
<1>. QED
  BY <1>1, <1>2, <1>3 DEF CommandInv

\* Every number that a program sends in a decimal argument is the one that the
\* command gets, in its place, unless an unsigned cannot hold it: spaces, missing
\* digits and empty arguments included, for any number of arguments.
THEOREM ArgsAreAsSent ==
  ASSUME NEW chars \in Seq(Nat), NEW how
  PROVE  CommandSpec(chars, how) => []ArgsAsSent
<1>1. CommandInv(chars) => ArgsAsSent
  <2>. SUFFICES ASSUME CommandInv(chars), parse = "parsed", form = "decimal"
                PROVE  /\ Len(args) = Cardinality(Delimiters(given))
                       /\ \A k \in ArgEnds(given) :
                            Sent(given, k) < UIntSize =>
                              args[Cardinality(Before(given, k))] = Sent(given, k)
    BY DEF ArgsAsSent
  <2>1. given = chars /\ passed = Len(chars) /\ ReadAll(chars)
    BY DEF CommandInv
  <2>2. Len(args) = Cardinality(Delimiters(given))
    BY <2>1, BeforeSteps DEF ReadAll
  <2>3. \A k \in ArgEnds(chars) : k <= Len(chars)
    BY DEF ArgEnds
  <2>. QED
    BY <2>1, <2>2, <2>3 DEF ReadAll, Stored
<1>2. CommandInit(chars, how) => CommandInv(chars)
  BY CommandStart
<1>3. CommandInv(chars) /\ [CommandNext]_commandVars => CommandInv(chars)'
  BY NextArgKeeps, SkipSpaceKeeps, ReadDigitKeeps, StoreArgKeeps,
     OtherFormsKeep, OthersKeep DEF CommandNext
<1>. QED
  BY <1>1, <1>2, <1>3, PTL DEF CommandSpec
=============================================================================
