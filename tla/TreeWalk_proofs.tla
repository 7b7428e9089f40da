---------------------------- MODULE TreeWalk_proofs ----------------------------
(***************************************************************************)
(* Theorems about TreeWalk and FsWalk, for any tree, depth, queue, number  *)
(* of listings at once and failures.                                       *)
(*                                                                         *)
(* A walk has an order: breadth first by level, depth first along each     *)
(* path.  Both are strict and total (PathOrder), so a set of directories   *)
(* has one sequence in that order (InOrderIs), and a sequence in order     *)
(* that misses only what comes after it is a beginning of that one         *)
(* (Beginning).  A traversal keeps a frontier: what it has passed on and   *)
(* then what it has to do are in order, and every directory has been       *)
(* passed on or lies below one to do (Frontier).  Breadth first this is    *)
(* kept because what is to do was found in what was passed on (Found), so  *)
(* that it is at most one level deeper than the next; depth first because  *)
(* no two directories to do lie one below the other (Apart).  A scan has   *)
(* no order: of it, every missing directory has been passed on or is       *)
(* awaited from an item of the work (Awaited).  The walk of an FSPath has  *)
(* the frontier of its listings in flight and its pending directories,     *)
(* less what lies below a listing that failed (Ordered).                   *)
(***************************************************************************)
EXTENDS FsWalk, FiniteSetTheorems, SequenceTheorems, WellFoundedInduction, TLAPS

-----------------------------------------------------------------------------
(* Numbers, and sequences of sequences put after one another.              *)

\* The least number of a set: a minimal counterexample stands for an induction.
LEMMA SmallestNat ==
  ASSUME NEW T, T \subseteq Nat, T # {}
  PROVE  \E x \in T : \A y \in T : x <= y
<1> DEFINE R == OpToRel(<, Nat)
<1>1. IsWellFoundedOn(R, Nat)
  BY NatLessThanWellFounded
<1>2. \A x, y \in Nat : y < x => <<y, x>> \in R
  BY DEF OpToRel
<1> HIDE DEF R
<1>3. PICK x \in T : \A y \in T : ~ (<<y, x>> \in R)
  BY <1>1, WFMin
<1>4. \A y \in T : ~ (y < x)
  BY <1>2, <1>3
<1> QED  BY <1>4

LEMMA UptoIs ==
  ASSUME NEW n \in Nat
  PROVE  IsFiniteSet(1 .. n) /\ Cardinality(1 .. n) = n
  BY FS_Interval

\* Of n of the sequences, f[i] is the first i after one another.
Flattened(f, ss, n) == \A i \in 1 .. n : f[i] = IF i = 1 THEN ss[i] ELSE f[i - 1] \o ss[i]
Flattens(f, ss) == f = [i \in 1 .. Len(ss) |-> IF i = 1 THEN ss[i] ELSE f[i - 1] \o ss[i]]

LEMMA FlattenedUpto ==
  ASSUME NEW S, NEW ss \in Seq(Seq(S)), NEW n \in 0 .. Len(ss)
  PROVE  \E f \in [1 .. n -> Seq(S)] : Flattened(f, ss, n)
<1> USE DEF Flattened
<1> DEFINE Flat(f, m) == Flattened(f, ss, m)
           Bad == {m \in 0 .. Len(ss) : ~\E f \in [1 .. m -> Seq(S)] : Flat(f, m)}
<1> SUFFICES ASSUME Bad # {} PROVE FALSE
  OBVIOUS
<1> Bad \subseteq Nat
  OBVIOUS
<1>1. PICK m \in Bad : \A k \in Bad : m <= k
  <2> HIDE DEF Bad
  <2> QED  BY SmallestNat
<1>2. m \in 1 .. Len(ss)
  <2>1. \E f \in [1 .. 0 -> Seq(S)] : Flat(f, 0)
    <3>1. [i \in 1 .. 0 |-> <<>>] \in [1 .. 0 -> Seq(S)] /\ Flat([i \in 1 .. 0 |-> <<>>], 0)
      OBVIOUS
    <3> QED  BY <3>1
  <2>2. 0 \notin Bad
    BY <2>1
  <2> QED  BY <1>1, <2>2
<1>3. m - 1 \in 0 .. Len(ss) /\ m - 1 \notin Bad
  <2>1. ~(m <= m - 1)
    BY <1>2
  <2> HIDE DEF Bad
  <2> QED  BY <1>1, <1>2, <2>1
<1>4. PICK f \in [1 .. m - 1 -> Seq(S)] : Flat(f, m - 1)
  BY <1>3
<1> DEFINE g == [i \in 1 .. m |-> IF i < m THEN f[i] ELSE IF m = 1 THEN ss[m] ELSE f[m - 1] \o ss[m]]
<1>5. ss[m] \in Seq(S)
  BY <1>2
<1>6. m # 1 => f[m - 1] \in Seq(S)
  BY <1>2, <1>4
<1>7. m # 1 => f[m - 1] \o ss[m] \in Seq(S)
  BY <1>5, <1>6
<1>8. g \in [1 .. m -> Seq(S)]
  BY <1>2, <1>4, <1>5, <1>7
<1>9. Flat(g, m)
  <2> SUFFICES ASSUME NEW i \in 1 .. m PROVE g[i] = IF i = 1 THEN ss[i] ELSE g[i - 1] \o ss[i]
    OBVIOUS
  <2>1. CASE i < m
    <3>1. g[i] = f[i] /\ i \in 1 .. m - 1
      BY <1>2, <2>1
    <3>2. i # 1 => g[i - 1] = f[i - 1]
      BY <1>2, <2>1
    <3> QED  BY <1>4, <3>1, <3>2
  <2>2. CASE i = m
    BY <1>2, <2>2
  <2> QED  BY <1>2, <2>1, <2>2
<1> QED  BY <1>2, <1>8, <1>9

LEMMA FlattenIs ==
  ASSUME NEW S, NEW ss \in Seq(Seq(S)), NEW f \in [1 .. Len(ss) -> Seq(S)], Len(ss) # 0, Flattens(f, ss)
  PROVE  FlattenSeq(ss) = f[Len(ss)]
<1> DEFINE Is(h) == h = [i \in 1 .. Len(ss) |-> IF i = 1 THEN ss[i] ELSE h[i - 1] \o ss[i]]
<1>1. FlattenSeq(ss) = (CHOOSE h : Is(h))[Len(ss)]
  BY DEF FlattenSeq
<1>2. Is(f)
  BY DEF Flattens
<1>3. PICK h : Is(h) /\ h = CHOOSE k : Is(k)
  BY <1>2
<1>4. \A i \in 1 .. Len(ss) : h[i] = IF i = 1 THEN ss[i] ELSE h[i - 1] \o ss[i]
  BY <1>3
<1>5. \A i \in 1 .. Len(ss) : f[i] = IF i = 1 THEN ss[i] ELSE f[i - 1] \o ss[i]
  BY <1>2
<1> HIDE DEF Is
<1>6. \A i \in 1 .. Len(ss) : h[i] = f[i]
  <2> DEFINE Bad == {i \in 1 .. Len(ss) : h[i] # f[i]}
  <2> SUFFICES ASSUME Bad # {} PROVE FALSE
    OBVIOUS
  <2> Bad \subseteq Nat
    OBVIOUS
  <2>1. PICK m \in Bad : \A k \in Bad : m <= k
    <3> HIDE DEF Bad
    <3> QED  BY SmallestNat
  <2>2. m \in 1 .. Len(ss) /\ h[m] # f[m]
    BY <2>1
  <2>3. m # 1
    BY <1>4, <1>5, <2>2
  <2>4. m - 1 \in 1 .. Len(ss) /\ ~(m <= m - 1)
    BY <2>2, <2>3
  <2>5. h[m - 1] = f[m - 1]
    BY <2>1, <2>4
  <2> QED  BY <1>4, <1>5, <2>2, <2>3, <2>5
<1> QED  BY <1>1, <1>3, <1>6

\* One more sequence comes after the others.
LEMMA FlattenAppend ==
  ASSUME NEW S, NEW ss \in Seq(Seq(S)), NEW s \in Seq(S)
  PROVE  FlattenSeq(ss) \in Seq(S) /\ FlattenSeq(Append(ss, s)) = FlattenSeq(ss) \o s
<1> DEFINE n  == Len(ss)
           tt == Append(ss, s)
<1>1. n \in Nat /\ tt \in Seq(Seq(S)) /\ Len(tt) = n + 1 /\ tt[n + 1] = s /\ \A i \in 1 .. n : tt[i] = ss[i]
  OBVIOUS
<1> HIDE DEF tt
<1>2. PICK f \in [1 .. n + 1 -> Seq(S)] :
        \A i \in 1 .. n + 1 : f[i] = IF i = 1 THEN tt[i] ELSE f[i - 1] \o tt[i]
  <2>1. n + 1 \in 0 .. Len(tt)
    BY <1>1
  <2>2. \E f \in [1 .. n + 1 -> Seq(S)] : Flattened(f, tt, n + 1)
    BY <1>1, <2>1, FlattenedUpto
  <2> QED  BY <2>2 DEF Flattened
<1>3. FlattenSeq(tt) = f[n + 1]
  <2>1. f = [i \in 1 .. n + 1 |-> f[i]]
    BY <1>2
  <2>2. Flattens(f, tt)
    BY <1>1, <1>2, <2>1 DEF Flattens
  <2>3. f \in [1 .. Len(tt) -> Seq(S)] /\ Len(tt) # 0
    BY <1>1
  <2> QED  BY <1>1, <2>2, <2>3, FlattenIs
<1>4. CASE n = 0
  <2>1. FlattenSeq(ss) = <<>>
    BY <1>4 DEF FlattenSeq
  <2>2. f[n + 1] = s
    BY <1>1, <1>2, <1>4
  <2> QED  BY <1>3, <2>1, <2>2 DEF tt
<1>5. CASE n # 0
  <2> DEFINE g == [i \in 1 .. n |-> f[i]]
  <2>1. g \in [1 .. Len(ss) -> Seq(S)] /\ \A i \in 1 .. n : g[i] = IF i = 1 THEN ss[i] ELSE g[i - 1] \o ss[i]
    <3>1. g \in [1 .. Len(ss) -> Seq(S)]
      OBVIOUS
    <3>2. ASSUME NEW i \in 1 .. n PROVE f[i] = IF i = 1 THEN ss[i] ELSE f[i - 1] \o ss[i]
      <4>1. i \in 1 .. n + 1 /\ tt[i] = ss[i]
        BY <1>1
      <4> QED  BY <1>2, <4>1
    <3>3. ASSUME NEW i \in 1 .. n, i # 1 PROVE i - 1 \in 1 .. n
      BY <1>1, <3>3
    <3> QED  BY <3>1, <3>2, <3>3
  <2>2. Flattens(g, ss)
    BY <2>1 DEF Flattens
  <2>3. FlattenSeq(ss) = g[n]
    BY <1>1, <1>5, <2>1, <2>2, FlattenIs
  <2>4. g[n] = f[n] /\ f[n] \in Seq(S)
    BY <1>1, <1>2, <1>5
  <2>5. f[n + 1] = f[n] \o s
    <3>1. n + 1 # 1 /\ n + 1 \in 1 .. n + 1 /\ (n + 1) - 1 = n
      BY <1>1, <1>5
    <3> QED  BY <1>1, <1>2, <3>1
  <2> QED  BY <1>3, <2>3, <2>4, <2>5 DEF tt
<1> QED  BY <1>4, <1>5

-----------------------------------------------------------------------------
(* Paths, and the orders of a walk.                                        *)

Paths == Seq(Nat)

LEMMA PathIs ==
  ASSUME NEW p \in Paths
  PROVE  Len(p) \in Nat /\ DOMAIN p = 1 .. Len(p) /\ \A i \in 1 .. Len(p) : p[i] \in Nat
  BY DEF Paths

LEMMA SamePath ==
  ASSUME NEW p \in Paths, NEW q \in Paths, Len(p) = Len(q), \A i \in 1 .. Len(p) : p[i] = q[i]
  PROVE  p = q
  BY DEF Paths

LEMMA CutIs ==
  ASSUME NEW p \in Paths, NEW n \in 0 .. Len(p)
  PROVE  SubSeq(p, 1, n) \in Paths /\ Len(SubSeq(p, 1, n)) = n /\ \A i \in 1 .. n : SubSeq(p, 1, n)[i] = p[i]
  BY DEF Paths

LEMMA PrefixIs ==
  ASSUME NEW p \in Paths, NEW q \in Paths
  PROVE  IsPrefix(p, q) <=> Len(p) <= Len(q) /\ \A k \in 1 .. Len(p) : p[k] = q[k]
<1>1. IsPrefix(p, q) <=> Len(p) <= Len(q) /\ SubSeq(p, 1, Len(p)) = SubSeq(q, 1, Len(p))
  BY DEF IsPrefix
<1>2. ASSUME Len(p) <= Len(q) PROVE SubSeq(p, 1, Len(p)) = SubSeq(q, 1, Len(p)) <=> \A k \in 1 .. Len(p) : p[k] = q[k]
  <2>1. SubSeq(q, 1, Len(p)) \in Paths /\ Len(SubSeq(q, 1, Len(p))) = Len(p) /\ SubSeq(p, 1, Len(p)) = p
        /\ \A k \in 1 .. Len(p) : SubSeq(q, 1, Len(p))[k] = q[k]
    BY <1>2 DEF Paths
  <2> QED  BY <2>1 DEF Paths
<1> QED  BY <1>1, <1>2

\* Two paths that part at i, the first one to the smaller number.
Parts(p, q, i) ==
  i \in 1 .. Len(p) /\ i \in 1 .. Len(q) /\ p[i] < q[i] /\ \A k \in 1 .. i - 1 : p[k] = q[k]

LEMMA BeforeIs ==
  ASSUME NEW p \in Paths, NEW q \in Paths
  PROVE  Before(p, q) <=> IsPrefix(p, q) \/ \E i \in Nat : Parts(p, q, i)
<1>1. ASSUME NEW i \in DOMAIN p \cap DOMAIN q
      PROVE  SubSeq(p, 1, i - 1) = SubSeq(q, 1, i - 1) <=> \A k \in 1 .. i - 1 : p[k] = q[k]
  <2>1. i \in 1 .. Len(p) /\ i \in 1 .. Len(q)
    BY DEF Paths
  <2>2. i - 1 \in 0 .. Len(p) /\ i - 1 \in 0 .. Len(q)
    BY <2>1, PathIs
  <2> DEFINE a == SubSeq(p, 1, i - 1)
             b == SubSeq(q, 1, i - 1)
  <2>3. a \in Paths /\ b \in Paths /\ Len(a) = i - 1 /\ Len(b) = i - 1
        /\ \A k \in 1 .. i - 1 : a[k] = p[k] /\ b[k] = q[k]
    BY <2>2, CutIs
  <2> HIDE DEF a, b
  <2> QED  BY <2>3, SamePath DEF a, b
<1>2. DOMAIN p = 1 .. Len(p) /\ DOMAIN q = 1 .. Len(q)
  BY DEF Paths
<1> QED  BY <1>1, <1>2 DEF Before, Parts

\* Directories on the way to others come before them; no two come before each other.
LEMMA BeforeIsAnOrder ==
  ASSUME NEW p \in Paths, NEW q \in Paths, NEW r \in Paths
  PROVE  /\ Before(p, q) /\ Before(q, p) => p = q
         /\ Before(p, q) /\ Before(q, r) => Before(p, r)
<1>9. \A s \in {p, q, r} : Len(s) \in Nat /\ \A i \in 1 .. Len(s) : s[i] \in Nat
  BY PathIs
<1>1. ASSUME IsPrefix(p, q), IsPrefix(q, p) PROVE p = q
  <2>1. Len(p) = Len(q) /\ \A i \in 1 .. Len(p) : p[i] = q[i]
    BY <1>1, <1>9, PrefixIs
  <2> QED  BY <2>1, SamePath
<1>2. ~(IsPrefix(p, q) /\ \E i \in Nat : Parts(q, p, i))
  BY <1>9, PrefixIs DEF Parts
<1>3. ~(IsPrefix(q, p) /\ \E i \in Nat : Parts(p, q, i))
  BY <1>9, PrefixIs DEF Parts
<1>4. ASSUME NEW i \in Nat, NEW j \in Nat, Parts(p, q, i), Parts(q, p, j) PROVE FALSE
  <2>1. p[i] \in Nat /\ q[i] \in Nat /\ p[j] \in Nat /\ q[j] \in Nat
    BY <1>4, <1>9 DEF Parts
  <2> QED  BY <1>4, <2>1 DEF Parts
<1>5. IsPrefix(p, q) /\ IsPrefix(q, r) => IsPrefix(p, r)
  BY <1>9, PrefixIs
<1>6. ASSUME NEW i \in Nat, IsPrefix(p, q), Parts(q, r, i) PROVE Before(p, r)
  <2>1. CASE i <= Len(p)
    <3>1. Parts(p, r, i)
      BY <1>6, <1>9, <2>1, PrefixIs DEF Parts
    <3> QED  BY <3>1, BeforeIs
  <2>2. CASE i > Len(p)
    <3>1. IsPrefix(p, r)
      BY <1>6, <1>9, <2>2, PrefixIs DEF Parts
    <3> QED  BY <3>1, BeforeIs
  <2> QED  BY <2>1, <2>2
<1>7. ASSUME NEW i \in Nat, Parts(p, q, i), IsPrefix(q, r) PROVE Before(p, r)
  <2>1. Parts(p, r, i)
    BY <1>7, <1>9, PrefixIs DEF Parts
  <2> QED  BY <2>1, BeforeIs
<1>8. ASSUME NEW i \in Nat, NEW j \in Nat, Parts(p, q, i), Parts(q, r, j) PROVE Before(p, r)
  <2>1. CASE i <= j
    <3>1. p[i] \in Nat /\ q[i] \in Nat /\ i \in 1 .. Len(r) /\ r[i] \in Nat
      BY <1>8, <1>9, <2>1 DEF Parts
    <3>2. Parts(p, r, i)
      BY <1>8, <1>9, <2>1, <3>1 DEF Parts
    <3> QED  BY <3>2, BeforeIs
  <2>2. CASE j < i
    <3>1. Parts(p, r, j)
      BY <1>8, <1>9, <2>2 DEF Parts
    <3> QED  BY <3>1, BeforeIs
  <2> QED  BY <1>8, <2>1, <2>2 DEF Parts
<1> QED  BY <1>1, <1>2, <1>3, <1>4, <1>5, <1>6, <1>7, <1>8, BeforeIs

LEMMA BeforeIsTotal ==
  ASSUME NEW p \in Paths, NEW q \in Paths
  PROVE  Before(p, q) \/ Before(q, p)
<1> USE DEF Paths
<1> DEFINE T == {i \in Nat : i \in 1 .. Len(p) /\ i \in 1 .. Len(q) /\ p[i] # q[i]}
<1>1. CASE T = {}
  <2>1. \A i \in Nat : i \in 1 .. Len(p) /\ i \in 1 .. Len(q) => p[i] = q[i]
    BY <1>1
  <2>2. IsPrefix(p, q) \/ IsPrefix(q, p)
    BY <2>1, PrefixIs
  <2> QED  BY <2>2, BeforeIs
<1>2. CASE T # {}
  <2>1. T \subseteq Nat
    OBVIOUS
  <2>2. PICK i \in T : \A j \in T : i <= j
    <3> HIDE DEF T
    <3> QED  BY <1>2, <2>1, SmallestNat
  <2>3. i \in 1 .. Len(p) /\ i \in 1 .. Len(q) /\ p[i] # q[i] /\ p[i] \in Nat /\ q[i] \in Nat
    BY <2>2
  <2>4. \A k \in 1 .. i - 1 : p[k] = q[k]
    BY <2>2, <2>3
  <2>5. Parts(p, q, i) \/ Parts(q, p, i)
    BY <2>3, <2>4 DEF Parts
  <2> QED  BY <2>5, BeforeIs
<1> QED  BY <1>1, <1>2

LEMMA PathOrder ==
  ASSUME NEW how, NEW p \in Paths, NEW q \in Paths, NEW r \in Paths
  PROVE  /\ ~Precedes(how, p, p) /\ ~(Precedes(how, p, q) /\ Precedes(how, q, p))
         /\ Precedes(how, p, q) /\ Precedes(how, q, r) => Precedes(how, p, r)
         /\ p = q \/ Precedes(how, p, q) \/ Precedes(how, q, p)
         /\ IsPrefix(p, q) => p = q \/ Precedes(how, p, q)
<1>1. Len(p) \in Nat /\ Len(q) \in Nat /\ Len(r) \in Nat
  BY DEF Paths
<1>2. IsPrefix(p, q) => Len(p) <= Len(q) /\ Before(p, q)
  BY BeforeIs, PrefixIs
<1> QED  BY <1>1, <1>2, BeforeIsAnOrder, BeforeIsTotal DEF Precedes

-----------------------------------------------------------------------------
(* The sequence of a set in an order.                                      *)

Ascends(how, s)  == \A i, j \in DOMAIN s : i < j => Precedes(how, s[i], s[j])
Ahead(how, S, d) == {e \in S : Precedes(how, e, d)}
Rank(how, S, d)  == Cardinality(Ahead(how, S, d))

LEMMA RankIs ==
  ASSUME NEW how, NEW S \in SUBSET Paths, IsFiniteSet(S), NEW d \in S
  PROVE  /\ IsFiniteSet(Ahead(how, S, d)) /\ Rank(how, S, d) \in 0 .. Cardinality(S) - 1
         /\ \A e \in S : Precedes(how, d, e) => Rank(how, S, d) < Rank(how, S, e)
<1>1. Ahead(how, S, d) \subseteq S \ {d}
  BY PathOrder DEF Ahead
<1>2. IsFiniteSet(S \ {d}) /\ Cardinality(S \ {d}) = Cardinality(S) - 1 /\ Cardinality(S) \in Nat
  BY FS_RemoveElement, FS_CardinalityType
<1>3. IsFiniteSet(Ahead(how, S, d)) /\ Rank(how, S, d) <= Cardinality(S) - 1 /\ Rank(how, S, d) \in Nat
  BY <1>1, <1>2, FS_Subset, FS_CardinalityType DEF Rank
<1>4. ASSUME NEW e \in S, Precedes(how, d, e) PROVE Rank(how, S, d) < Rank(how, S, e)
  <2>1. Ahead(how, S, d) \subseteq Ahead(how, S, e) \ {d} /\ d \in Ahead(how, S, e)
    <3>1. \A x \in S : Precedes(how, x, d) => Precedes(how, x, e)
      BY <1>4, PathOrder
    <3> QED  BY <1>1, <1>4, <3>1 DEF Ahead
  <2>2. IsFiniteSet(Ahead(how, S, e))
    BY FS_Subset DEF Ahead
  <2>3. IsFiniteSet(Ahead(how, S, e) \ {d}) /\ Cardinality(Ahead(how, S, e) \ {d}) = Rank(how, S, e) - 1
        /\ Rank(how, S, e) \in Nat
    BY <2>1, <2>2, FS_RemoveElement, FS_CardinalityType DEF Rank
  <2>4. Rank(how, S, d) <= Rank(how, S, e) - 1
    BY <2>1, <2>3, FS_Subset DEF Rank
  <2> QED  BY <1>3, <2>3, <2>4
<1> QED  BY <1>2, <1>3, <1>4

LEMMA RanksAreAll ==
  ASSUME NEW how, NEW S \in SUBSET Paths, IsFiniteSet(S), NEW i \in 1 .. Cardinality(S)
  PROVE  \E d \in S : Rank(how, S, d) = i - 1
<1> DEFINE n == Cardinality(S)
           f == [d \in S |-> Rank(how, S, d)]
<1>1. n \in Nat
  BY FS_CardinalityType
<1>2. IsFiniteSet(0 .. n - 1) /\ Cardinality(0 .. n - 1) = n
  <2>1. 0 \in Int /\ n - 1 \in Int /\ 0 <= (n - 1) + 1
    BY <1>1
  <2> HIDE DEF n
  <2> QED  BY <1>1, <2>1, FS_Interval
<1>3. f \in [S -> 0 .. n - 1]
  BY RankIs
<1>4. ASSUME NEW d \in S, NEW e \in S, f[d] = f[e] PROVE d = e
  <2>1. Rank(how, S, d) = Rank(how, S, e) /\ Rank(how, S, d) \in 0 .. Cardinality(S) - 1
    BY <1>4, RankIs
  <2>2. ~Precedes(how, d, e) /\ ~Precedes(how, e, d)
    BY <2>1, RankIs
  <2> QED  BY <2>2, PathOrder
<1>5. f \in Injection(S, 0 .. n - 1)
  BY <1>3, <1>4 DEF Injection, IsInjective
<1>6. f \in Surjection(S, 0 .. n - 1)
  BY <1>2, <1>5, FS_Injection
<1>7. i - 1 \in 0 .. n - 1
  BY <1>1
<1>8. PICK d \in S : f[d] = i - 1
  BY <1>6, <1>7 DEF Surjection
<1> QED  BY <1>8

\* The sequence of a set in an order holds all of it, in that order.
LEMMA InOrderIs ==
  ASSUME NEW how, NEW S \in SUBSET Paths, IsFiniteSet(S)
  PROVE  /\ InOrder(how, S) \in Seq(S) /\ Len(InOrder(how, S)) = Cardinality(S)
         /\ \A i \in 1 .. Cardinality(S) : Rank(how, S, InOrder(how, S)[i]) = i - 1
         /\ \A d \in S : \E i \in DOMAIN InOrder(how, S) : InOrder(how, S)[i] = d
         /\ Ascends(how, InOrder(how, S))
<1> DEFINE n == Cardinality(S)
           s == InOrder(how, S)
<1>1. n \in Nat
  BY FS_CardinalityType
<1>2. s = [i \in 1 .. n |-> CHOOSE d \in S : Rank(how, S, d) = i - 1]
  BY DEF InOrder, Rank, Ahead
<1>3. \A i \in 1 .. n : s[i] \in S /\ Rank(how, S, s[i]) = i - 1
  <2> SUFFICES ASSUME NEW i \in 1 .. n PROVE s[i] \in S /\ Rank(how, S, s[i]) = i - 1
    OBVIOUS
  <2>1. \E d \in S : Rank(how, S, d) = i - 1
    BY RanksAreAll
  <2>2. s[i] = CHOOSE d \in S : Rank(how, S, d) = i - 1
    BY <1>2
  <2> QED  BY <2>1, <2>2
<1> HIDE DEF n, s
<1>4. s \in Seq(S) /\ Len(s) = n /\ DOMAIN s = 1 .. n
  <2>1. DOMAIN s = 1 .. n /\ s = [i \in 1 .. n |-> s[i]]
    BY <1>2
  <2> QED  BY <1>1, <1>3, <2>1
<1>5. ASSUME NEW d \in S PROVE \E i \in DOMAIN s : s[i] = d
  <2> DEFINE i == Rank(how, S, d) + 1
  <2>1. i \in 1 .. n /\ Rank(how, S, d) = i - 1 /\ Rank(how, S, d) \in Nat
    BY <1>1, RankIs DEF n
  <2>2. s[i] \in S /\ Rank(how, S, s[i]) = Rank(how, S, d)
    BY <1>3, <2>1
  <2>3. ~Precedes(how, d, s[i]) /\ ~Precedes(how, s[i], d)
    BY <2>1, <2>2, RankIs
  <2>4. s[i] = d
    BY <2>2, <2>3, PathOrder
  <2> QED  BY <1>4, <2>1, <2>4
<1>6. Ascends(how, s)
  <2> SUFFICES ASSUME NEW i \in 1 .. n, NEW j \in 1 .. n, i < j PROVE Precedes(how, s[i], s[j])
    BY <1>4 DEF Ascends
  <2>1. s[i] \in S /\ s[j] \in S /\ Rank(how, S, s[i]) = i - 1 /\ Rank(how, S, s[j]) = j - 1
    BY <1>3
  <2>2. s[i] # s[j]
    BY <1>1, <2>1
  <2>3. ~Precedes(how, s[j], s[i])
    <3>1. Precedes(how, s[j], s[i]) => j - 1 < i - 1
      BY <2>1, RankIs
    <3> QED  BY <1>1, <3>1
  <2> QED  BY <2>1, <2>2, <2>3, PathOrder
<1> QED  BY <1>3, <1>4, <1>5, <1>6 DEF n, s

\* What comes after everything in s.
IsAfter(how, s, d) == \A i \in DOMAIN s : Precedes(how, s[i], d)

Holds(s, d) == \E i \in DOMAIN s : s[i] = d

\* A sequence in order that misses only what comes after it is a beginning.
LEMMA Beginning ==
  ASSUME NEW how, NEW S \in SUBSET Paths, IsFiniteSet(S), NEW s \in Seq(S), Ascends(how, s),
         \A d \in S : Holds(s, d) \/ IsAfter(how, s, d)
  PROVE  /\ IsPrefix(s, InOrder(how, S))
         /\ (\A d \in S : Holds(s, d)) => s = InOrder(how, S)
<1> DEFINE n == Cardinality(S)
           t == InOrder(how, S)
<1>1. n \in Nat /\ Len(s) \in Nat /\ DOMAIN s = 1 .. Len(s) /\ \A i \in DOMAIN s : s[i] \in S /\ s[i] \in Paths
  BY FS_CardinalityType
<1>2. ASSUME NEW i \in 1 .. Len(s) PROVE Rank(how, S, s[i]) = i - 1
  <2> DEFINE f == [j \in 1 .. i - 1 |-> s[j]]
             A == Ahead(how, S, s[i])
  <2>1. ASSUME NEW e \in A PROVE \E j \in 1 .. i - 1 : e = s[j]
    <3>1. e \in S /\ e \in Paths /\ Precedes(how, e, s[i]) /\ s[i] \in Paths
      BY <1>1, <2>1 DEF Ahead
    <3>2. ~Precedes(how, s[i], e)
      BY <3>1, PathOrder
    <3>3. PICK j \in 1 .. Len(s) : s[j] = e
      BY <1>1, <3>1, <3>2 DEF Holds, IsAfter
    <3>4. j < i
      BY <1>1, <3>1, <3>2, <3>3, PathOrder DEF Ascends
    <3> QED  BY <3>3, <3>4
  <2>2. \A j \in 1 .. i - 1 : s[j] \in A
    BY <1>1 DEF Ascends, Ahead
  <2>3. f \in [1 .. i - 1 -> A]
    BY <2>2
  <2>4. ASSUME NEW j \in 1 .. i - 1, NEW k \in 1 .. i - 1, f[j] = f[k] PROVE j = k
    <3>1. s[j] = s[k] /\ s[j] \in Paths /\ j \in DOMAIN s /\ k \in DOMAIN s
      BY <1>1, <2>4
    <3> QED  BY <3>1, PathOrder DEF Ascends
  <2>5. f \in Surjection(1 .. i - 1, A) /\ f \in Injection(1 .. i - 1, A)
    BY <2>1, <2>3, <2>4 DEF Surjection, Injection, IsInjective
  <2>6. IsFiniteSet(1 .. i - 1) /\ Cardinality(1 .. i - 1) = i - 1
    BY UptoIs
  <2>7. Cardinality(A) = i - 1
    <3> HIDE DEF A, f
    <3> QED  BY <2>5, <2>6, FS_Surjection
  <2> QED  BY <2>7 DEF Rank
<1>3. t \in Seq(S) /\ Len(t) = n /\ DOMAIN t = 1 .. n /\ \A i \in 1 .. n : Rank(how, S, t[i]) = i - 1 /\ t[i] \in S
  BY InOrderIs
<1> HIDE DEF n, t
<1>4. Len(s) <= n
  <2>1. CASE Len(s) = 0
    BY <1>1, <2>1
  <2>2. CASE Len(s) # 0
    <3>1. Len(s) \in 1 .. Len(s) /\ s[Len(s)] \in S
      BY <1>1, <2>2
    <3>2. Rank(how, S, s[Len(s)]) = Len(s) - 1 /\ Rank(how, S, s[Len(s)]) \in 0 .. n - 1
      BY <1>2, <3>1, RankIs DEF n
    <3> QED  BY <1>1, <3>2
  <2> QED  BY <2>1, <2>2
<1>5. ASSUME NEW i \in 1 .. Len(s) PROVE t[i] = s[i]
  <2>1. s[i] \in S /\ t[i] \in S /\ Rank(how, S, s[i]) = i - 1 /\ Rank(how, S, t[i]) = i - 1
    BY <1>1, <1>2, <1>3, <1>4
  <2>2. ~Precedes(how, s[i], t[i]) /\ ~Precedes(how, t[i], s[i])
    BY <2>1, RankIs
  <2> QED  BY <2>1, <2>2, PathOrder
<1>6. IsPrefix(s, t)
  <2>1. SubSeq(t, 1, Len(s)) = s
    BY <1>1, <1>3, <1>4, <1>5
  <2>2. SubSeq(s, 1, Len(s)) = s
    BY <1>1
  <2> QED  BY <1>3, <1>4, <2>1, <2>2 DEF IsPrefix
<1>7. ASSUME \A d \in S : Holds(s, d) PROVE s = t
  <2>1. Len(s) = n
    <3>4. Len(s) = n \/ Len(s) < n
      <4>1. Len(s) \in Nat /\ n \in Nat
        BY <1>1
      <4> QED  BY <1>4, <4>1
    <3> SUFFICES ASSUME Len(s) < n PROVE FALSE
      BY <3>4
    <3>1. n \in 1 .. n /\ t[n] \in S /\ Rank(how, S, t[n]) = n - 1
      BY <1>1, <1>3
    <3>2. PICK i \in 1 .. Len(s) : s[i] = t[n]
      BY <1>1, <1>7, <3>1 DEF Holds
    <3>3. Rank(how, S, s[i]) = i - 1
      BY <1>2
    <3> QED  BY <1>1, <3>1, <3>2, <3>3
  <2> QED  BY <1>1, <1>3, <1>5, <2>1
<1> QED  BY <1>6, <1>7 DEF t

\* Of a sequence that misses only what comes after it, so does each beginning.
LEMMA Beginnings ==
  ASSUME NEW how, NEW S \in SUBSET Paths, NEW s \in Seq(S), NEW more \in Seq(S), Ascends(how, s \o more),
         \A d \in S : Holds(s \o more, d) \/ IsAfter(how, s \o more, d)
  PROVE  Ascends(how, s) /\ \A d \in S : Holds(s, d) \/ IsAfter(how, s, d)
<1> DEFINE t == s \o more
<1>1. /\ DOMAIN s = 1 .. Len(s) /\ DOMAIN t = 1 .. Len(s) + Len(more) /\ Len(s) \in Nat /\ Len(more) \in Nat
      /\ \A i \in 1 .. Len(s) : t[i] = s[i]
  OBVIOUS
<1> HIDE DEF t
<1>2. Ascends(how, s)
  BY <1>1 DEF Ascends, t
<1>3. ASSUME NEW d \in S, ~Holds(s, d) PROVE IsAfter(how, s, d)
  <2> SUFFICES ASSUME NEW i \in 1 .. Len(s) PROVE Precedes(how, s[i], d)
    BY <1>1 DEF IsAfter
  <2>1. CASE IsAfter(how, t, d)
    BY <1>1, <2>1 DEF IsAfter
  <2>2. CASE Holds(t, d)
    <3>1. PICK j \in DOMAIN t : t[j] = d
      BY <2>2 DEF Holds
    <3>2. j > Len(s)
      BY <1>1, <1>3, <3>1 DEF Holds
    <3>3. i \in DOMAIN t /\ i < j
      BY <1>1, <3>2
    <3> QED  BY <1>1, <3>1, <3>3 DEF Ascends, t
  <2> QED  BY <2>1, <2>2 DEF t
<1> QED  BY <1>2, <1>3

-----------------------------------------------------------------------------
(* The tree, and what its listings are.                                    *)

LEMMA TreeIs ==
  /\ Tree \subseteq Paths /\ IsFiniteSet(Tree) /\ <<>> \in Tree /\ Sentinel \notin Tree /\ Depths \subseteq Int
  /\ \A d \in Tree : Len(d) \in Nat /\ d \in Paths
  /\ Other \subseteq Paths /\ <<>> \in Other
<1>1. Tree \subseteq Seq(Nat \ {0}) /\ Other \subseteq Seq(Nat \ {0})
  BY TreeAssumption
<1>2. ASSUME NEW p \in Seq(Nat \ {0}) PROVE p \in Paths /\ p # Sentinel
  <2>1. Len(p) = 1 => p[1] # 0
    OBVIOUS
  <2>2. Len(Sentinel) = 1 /\ Sentinel[1] = 0
    BY DEF Sentinel
  <2>3. p \in Paths
    BY DEF Paths
  <2> QED  BY <2>1, <2>2, <2>3
<1> QED  BY <1>1, <1>2, TreeAssumption, PathIs

\* What holds every path's front holds all the ways to its paths.
LEMMA WaysAreIn ==
  ASSUME NEW T \in SUBSET Paths, \A d \in T \ {<<>>} : Front(d) \in T, NEW d \in T, NEW n \in 0 .. Len(d)
  PROVE  SubSeq(d, 1, n) \in T
<1> DEFINE Bad == {k \in 0 .. Len(d) : SubSeq(d, 1, Len(d) - k) \notin T}
<1>1. d \in Paths /\ Len(d) \in Nat /\ SubSeq(d, 1, Len(d)) = d
  BY PathIs DEF Paths
<1>2. Bad \subseteq Nat
  OBVIOUS
<1>3. Bad = {}
  <2> SUFFICES ASSUME Bad # {} PROVE FALSE
    OBVIOUS
  <2>1. PICK k \in Bad : \A j \in Bad : k <= j
    <3> HIDE DEF Bad
    <3> QED  BY <1>2, SmallestNat
  <2>2. k \in 0 .. Len(d) /\ SubSeq(d, 1, Len(d) - k) \notin T
    BY <2>1
  <2>3. k # 0
    <3>1. Len(d) - 0 = Len(d)
      BY <1>1
    <3> QED  BY <1>1, <2>2, <3>1
  <2>4. k - 1 \in 0 .. Len(d) /\ ~(k <= k - 1)
    BY <2>2, <2>3
  <2>5. k - 1 \notin Bad
    <3> HIDE DEF Bad
    <3> QED  BY <2>1, <2>4
  <2> DEFINE m == Len(d) - k
             x == SubSeq(d, 1, m + 1)
  <2>6. m + 1 \in 1 .. Len(d) /\ m \in 0 .. Len(d) /\ Len(d) - (k - 1) = m + 1
    BY <1>1, <2>2, <2>3
  <2>7. x \in T
    BY <2>4, <2>5, <2>6
  <2>8. x \in Paths /\ Len(x) = m + 1 /\ \A i \in 1 .. m + 1 : x[i] = d[i]
    BY <1>1, <2>6, CutIs
  <2> HIDE DEF m, x
  <2>9. Front(x) \in T /\ Front(x) = SubSeq(x, 1, m)
    <3>1. x # <<>> /\ Len(x) - 1 = m
      BY <2>6, <2>8
    <3> QED  BY <2>7, <3>1 DEF Front
  <2> DEFINE y == SubSeq(x, 1, m)
             z == SubSeq(d, 1, m)
  <2>10. m \in 0 .. Len(x)
    BY <2>6, <2>8
  <2>11. y \in Paths /\ Len(y) = m /\ \A i \in 1 .. m : y[i] = x[i]
    BY <2>8, <2>10, CutIs
  <2>12. z \in Paths /\ Len(z) = m /\ \A i \in 1 .. m : z[i] = d[i]
    BY <1>1, <2>6, CutIs
  <2> HIDE DEF y, z
  <2>13. y = z
    BY <2>6, <2>8, <2>11, <2>12, SamePath
  <2> QED  BY <2>2, <2>9, <2>13 DEF m, y, z
<1>4. Len(d) - n \in 0 .. Len(d) /\ Len(d) - (Len(d) - n) = n
  BY <1>1
<1>5. Len(d) - n \notin Bad
  BY <1>3
<1> QED  BY <1>4, <1>5

\* The child of p on the way to d.
Step1(p, d) == SubSeq(d, 1, Len(p) + 1)

LEMMA OnTheWay ==
  ASSUME NEW p \in Paths, NEW d \in Paths, IsPrefix(p, d), p # d
  PROVE  /\ Len(p) + 1 \in 1 .. Len(d) /\ Step1(p, d) \in Paths /\ Len(Step1(p, d)) = Len(p) + 1
         /\ IsPrefix(p, Step1(p, d)) /\ p # Step1(p, d) /\ IsPrefix(Step1(p, d), d)
<1>1. Len(p) \in Nat /\ Len(d) \in Nat /\ Len(p) <= Len(d) /\ \A k \in 1 .. Len(p) : p[k] = d[k]
  BY PathIs, PrefixIs
<1>2. Len(p) # Len(d)
  BY <1>1, SamePath
<1>3. Len(p) + 1 \in 1 .. Len(d) /\ Len(p) + 1 \in 0 .. Len(d)
  BY <1>1, <1>2
<1> DEFINE c == Step1(p, d)
<1>4. c \in Paths /\ Len(c) = Len(p) + 1 /\ \A k \in 1 .. Len(p) + 1 : c[k] = d[k]
  BY <1>3, CutIs DEF Step1
<1> HIDE DEF c
<1>5. IsPrefix(p, c)
  BY <1>1, <1>4, PrefixIs
<1>6. IsPrefix(c, d)
  BY <1>3, <1>4, PrefixIs
<1>7. p # c
  BY <1>1, <1>4
<1> QED  BY <1>3, <1>4, <1>5, <1>6, <1>7 DEF c

LEMMA ListingIs ==
  ASSUME NEW d \in Tree, NEW n \in Nat \ {0}, NEW S \in SUBSET Below(d, n)
  PROVE  /\ S \subseteq Paths /\ IsFiniteSet(S) /\ InOrder("dfs", S) \in Seq(Tree)
         /\ \A i \in DOMAIN InOrder("dfs", S) : InOrder("dfs", S)[i] \in S
         /\ \A e \in S : Holds(InOrder("dfs", S), e)
         /\ Ascends("dfs", InOrder("dfs", S))
<1>1. S \subseteq Tree /\ S \subseteq Paths /\ IsFiniteSet(S)
  BY TreeIs, FS_Subset DEF Below
<1>2. InOrder("dfs", S) \in Seq(S) /\ \A e \in S : Holds(InOrder("dfs", S), e)
  <2>1. PICK how : how = "dfs"
    OBVIOUS
  <2>2. InOrder(how, S) \in Seq(S) /\ \A e \in S : \E i \in DOMAIN InOrder(how, S) : InOrder(how, S)[i] = e
    BY <1>1, InOrderIs
  <2> QED  BY <2>1, <2>2 DEF Holds
<1>3. \A i \in DOMAIN InOrder("dfs", S) : InOrder("dfs", S)[i] \in S
  BY <1>2, ElementOfSeq
<1>4. InOrder("dfs", S) \in Seq(Tree)
  BY <1>1, <1>2
<1> QED  BY <1>1, <1>2, <1>3, <1>4, InOrderIs

LEMMA ChildrenAre ==
  ASSUME NEW d \in Tree
  PROVE  /\ Listing(d, 1) \in Seq(Tree) /\ \A how : Ascends(how, Listing(d, 1))
         /\ \A i \in DOMAIN Listing(d, 1) :
              Len(Listing(d, 1)[i]) = Len(d) + 1 /\ IsPrefix(d, Listing(d, 1)[i]) /\ Listing(d, 1)[i] # d
         /\ \A e \in Tree : IsPrefix(d, e) /\ d # e => Holds(Listing(d, 1), Step1(d, e))
<1> DEFINE s == Listing(d, 1)
<1>1. /\ s \in Seq(Tree) /\ Ascends("dfs", s)
      /\ \A i \in DOMAIN s : s[i] \in Below(d, 1)
      /\ \A e \in Below(d, 1) : Holds(s, e)
  BY ListingIs DEF Listing
<1>2. ASSUME NEW e \in Below(d, 1) PROVE Len(e) = Len(d) + 1 /\ IsPrefix(d, e) /\ e # d
  <2>1. e \in Paths /\ d \in Paths /\ IsPrefix(d, e) /\ e # d /\ Len(e) <= Len(d) + 1
    BY TreeIs DEF Below, IsStrictPrefix
  <2>2. Len(d) + 1 \in 1 .. Len(e) /\ Len(e) \in Nat /\ Len(d) \in Nat
    BY <2>1, OnTheWay, PathIs
  <2> QED  BY <2>1, <2>2
<1>3. ASSUME NEW e \in Tree, IsPrefix(d, e), d # e PROVE Holds(s, Step1(d, e))
  <2>1. Len(d) + 1 \in 0 .. Len(e) /\ Len(Step1(d, e)) = Len(d) + 1 /\ IsPrefix(d, Step1(d, e)) /\ d # Step1(d, e)
    BY <1>3, TreeIs, OnTheWay
  <2>2. Step1(d, e) \in Tree
    BY <2>1, TreeIs, TreeAssumption, WaysAreIn DEF Step1
  <2>3. Step1(d, e) \in Below(d, 1)
    BY <2>1, <2>2, TreeIs DEF Below, IsStrictPrefix
  <2> QED  BY <1>1, <2>3
<1>4. ASSUME NEW how, NEW i \in DOMAIN s, NEW j \in DOMAIN s, i < j PROVE Precedes(how, s[i], s[j])
  <2>1. Precedes("dfs", s[i], s[j]) /\ Len(s[i]) = Len(s[j])
    BY <1>1, <1>2, <1>4 DEF Ascends
  <2> QED  BY <2>1 DEF Precedes
<1> QED  BY <1>1, <1>2, <1>3, <1>4 DEF Ascends

-----------------------------------------------------------------------------
(* Sequences after one another.                                            *)

LEMMA ConcatIs ==
  ASSUME NEW S, NEW s \in Seq(S), NEW t \in Seq(S)
  PROVE  /\ s \o t \in Seq(S) /\ DOMAIN (s \o t) = 1 .. Len(s) + Len(t) /\ Len(s) \in Nat /\ Len(t) \in Nat
         /\ DOMAIN s = 1 .. Len(s) /\ DOMAIN t = 1 .. Len(t)
         /\ \A i \in DOMAIN s : (s \o t)[i] = s[i]
         /\ \A i \in DOMAIN t : (s \o t)[Len(s) + i] = t[i]
         /\ \A i \in DOMAIN (s \o t) : i \in DOMAIN s \/ (i - Len(s) \in DOMAIN t /\ (s \o t)[i] = t[i - Len(s)])
<1> DEFINE u == s \o t
<1>1. /\ u \in Seq(S) /\ DOMAIN u = 1 .. Len(s) + Len(t) /\ Len(s) \in Nat /\ Len(t) \in Nat
      /\ DOMAIN s = 1 .. Len(s) /\ DOMAIN t = 1 .. Len(t)
  OBVIOUS
<1>2. \A i \in 1 .. Len(s) : u[i] = s[i]
  OBVIOUS
<1>3. \A i \in 1 .. Len(s) + Len(t) : i > Len(s) => u[i] = t[i - Len(s)]
  OBVIOUS
<1> HIDE DEF u
<1>4. \A i \in DOMAIN t : u[Len(s) + i] = t[i]
  <2> SUFFICES ASSUME NEW i \in DOMAIN t PROVE u[Len(s) + i] = t[i]
    OBVIOUS
  <2>1. Len(s) + i \in 1 .. Len(s) + Len(t) /\ Len(s) + i > Len(s) /\ (Len(s) + i) - Len(s) = i
    BY <1>1
  <2> QED  BY <1>3, <2>1
<1>5. \A i \in DOMAIN u : i \in DOMAIN s \/ (i - Len(s) \in DOMAIN t /\ u[i] = t[i - Len(s)])
  BY <1>1, <1>3
<1> QED  BY <1>1, <1>2, <1>4, <1>5 DEF u

LEMMA ConcatHolds ==
  ASSUME NEW S, NEW s \in Seq(S), NEW t \in Seq(S), NEW d
  PROVE  Holds(s \o t, d) <=> Holds(s, d) \/ Holds(t, d)
<1> DEFINE u == s \o t
<1>1. /\ DOMAIN u = 1 .. Len(s) + Len(t) /\ Len(s) \in Nat /\ Len(t) \in Nat
      /\ DOMAIN s = 1 .. Len(s) /\ DOMAIN t = 1 .. Len(t)
      /\ \A i \in DOMAIN s : u[i] = s[i]
      /\ \A i \in DOMAIN t : u[Len(s) + i] = t[i]
      /\ \A i \in DOMAIN u : i \in DOMAIN s \/ (i - Len(s) \in DOMAIN t /\ u[i] = t[i - Len(s)])
  BY ConcatIs
<1> HIDE DEF u
<1>2. Holds(s, d) => Holds(u, d)
  BY <1>1 DEF Holds
<1>3. ASSUME Holds(t, d) PROVE Holds(u, d)
  <2>1. PICK i \in DOMAIN t : t[i] = d
    BY <1>3 DEF Holds
  <2>2. Len(s) + i \in DOMAIN u /\ u[Len(s) + i] = d
    BY <1>1, <2>1
  <2> QED  BY <2>2 DEF Holds
<1>4. Holds(u, d) => Holds(s, d) \/ Holds(t, d)
  BY <1>1 DEF Holds
<1> QED  BY <1>2, <1>3, <1>4 DEF u

\* Everything in s before everything in t.
AllBefore(how, s, t) == \A i \in DOMAIN s, j \in DOMAIN t : Precedes(how, s[i], t[j])

LEMMA ConcatAscends ==
  ASSUME NEW how, NEW S, NEW s \in Seq(S), NEW t \in Seq(S)
  PROVE  Ascends(how, s \o t) <=> Ascends(how, s) /\ Ascends(how, t) /\ AllBefore(how, s, t)
<1> DEFINE u == s \o t
<1>1. /\ DOMAIN u = 1 .. Len(s) + Len(t) /\ Len(s) \in Nat /\ Len(t) \in Nat
      /\ DOMAIN s = 1 .. Len(s) /\ DOMAIN t = 1 .. Len(t)
      /\ \A i \in DOMAIN s : u[i] = s[i]
      /\ \A i \in DOMAIN t : u[Len(s) + i] = t[i]
      /\ \A i \in DOMAIN u : i \in DOMAIN s \/ (i - Len(s) \in DOMAIN t /\ u[i] = t[i - Len(s)])
  BY ConcatIs
<1> HIDE DEF u
<1>2. ASSUME Ascends(how, u) PROVE Ascends(how, s) /\ Ascends(how, t) /\ AllBefore(how, s, t)
  <2>1. Ascends(how, s)
    BY <1>1, <1>2 DEF Ascends
  <2>2. ASSUME NEW i \in DOMAIN t, NEW j \in DOMAIN t, i < j PROVE Precedes(how, t[i], t[j])
    <3>1. Len(s) + i \in DOMAIN u /\ Len(s) + j \in DOMAIN u /\ Len(s) + i < Len(s) + j
      BY <1>1, <2>2
    <3> QED  BY <1>1, <1>2, <3>1 DEF Ascends
  <2>3. ASSUME NEW i \in DOMAIN s, NEW j \in DOMAIN t PROVE Precedes(how, s[i], t[j])
    <3>1. i \in DOMAIN u /\ Len(s) + j \in DOMAIN u /\ i < Len(s) + j
      BY <1>1
    <3> QED  BY <1>1, <1>2, <3>1 DEF Ascends
  <2> QED  BY <2>1, <2>2, <2>3 DEF Ascends, AllBefore
<1>3. ASSUME Ascends(how, s), Ascends(how, t), AllBefore(how, s, t),
             NEW i \in DOMAIN u, NEW j \in DOMAIN u, i < j
      PROVE  Precedes(how, u[i], u[j])
  <2>1. CASE j \in DOMAIN s
    <3>1. i \in DOMAIN s
      BY <1>1, <1>3, <2>1
    <3> QED  BY <1>1, <1>3, <2>1, <3>1 DEF Ascends
  <2>2. CASE i \in DOMAIN s /\ j - Len(s) \in DOMAIN t
    BY <1>1, <1>3, <2>2 DEF AllBefore
  <2>3. CASE i \notin DOMAIN s
    <3>1. j \notin DOMAIN s
      BY <1>1, <1>3, <2>3
    <3>2. i - Len(s) \in DOMAIN t /\ j - Len(s) \in DOMAIN t /\ i - Len(s) < j - Len(s)
          /\ u[i] = t[i - Len(s)] /\ u[j] = t[j - Len(s)]
      BY <1>1, <1>3, <2>3, <3>1
    <3> QED  BY <1>3, <3>2 DEF Ascends
  <2> QED  BY <1>1, <2>1, <2>2, <2>3
<1> QED  BY <1>2, <1>3 DEF Ascends, u

-----------------------------------------------------------------------------
(* The frontier of a traversal: what was visited, and what is to be.       *)

\* What is below directories of one level comes in their order.
LEMMA CousinsFollow ==
  ASSUME NEW p \in Paths, NEW q \in Paths, NEW v \in Paths, NEW w \in Paths,
         Len(p) = Len(q), Len(v) = Len(w), Precedes("bfs", p, q), IsPrefix(p, v), IsPrefix(q, w)
  PROVE  Precedes("bfs", v, w)
<1>1. p # q /\ Before(p, q)
  BY DEF Precedes
<1>2. ~IsPrefix(p, q)
  <2> SUFFICES ASSUME IsPrefix(p, q) PROVE FALSE
    OBVIOUS
  <2>1. p = q
    BY PrefixIs, SamePath, PathIs
  <2> QED  BY <1>1, <2>1
<1>3. PICK i \in Nat : Parts(p, q, i)
  BY <1>1, <1>2, BeforeIs
<1>4. Parts(v, w, i)
  BY <1>3, PrefixIs, PathIs DEF Parts
<1>5. Before(v, w)
  BY <1>4, BeforeIs
<1>6. v # w
  <2>1. v[i] < w[i] /\ v[i] \in Nat /\ w[i] \in Nat
    BY <1>4, PathIs DEF Parts
  <2> QED  BY <2>1
<1> QED  BY <1>5, <1>6 DEF Precedes

\* What is below a directory comes before the next that is not.
LEMMA BelowComesFirst ==
  ASSUME NEW p \in Paths, NEW v \in Paths, NEW w \in Paths,
         Precedes("dfs", p, w), ~IsPrefix(p, w), IsPrefix(p, v)
  PROVE  Precedes("dfs", v, w)
<1>1. Before(p, w)
  BY DEF Precedes
<1>2. PICK i \in Nat : Parts(p, w, i)
  BY <1>1, BeforeIs
<1>3. Parts(v, w, i)
  BY <1>2, PrefixIs, PathIs DEF Parts
<1>4. Before(v, w)
  BY <1>3, BeforeIs
<1>5. v # w
  <2>1. v[i] < w[i] /\ v[i] \in Nat /\ w[i] \in Nat
    BY <1>3, PathIs DEF Parts
  <2> QED  BY <2>1
<1> QED  BY <1>4, <1>5 DEF Precedes

LEMMA FrontIs ==
  ASSUME NEW p \in Paths, p # <<>>
  PROVE  Front(p) \in Paths /\ Len(Front(p)) = Len(p) - 1 /\ IsPrefix(Front(p), p) /\ Front(p) # p
<1>1. Len(p) \in Nat \ {0}
  BY PathIs DEF Paths
<1>2. Len(p) - 1 \in 0 .. Len(p)
  BY <1>1
<1>3. Front(p) \in Paths /\ Len(Front(p)) = Len(p) - 1 /\ \A i \in 1 .. Len(p) - 1 : Front(p)[i] = p[i]
  BY <1>2, CutIs DEF Front
<1>4. IsPrefix(Front(p), p)
  BY <1>1, <1>3, PrefixIs
<1> QED  BY <1>1, <1>3, <1>4

\* Two ways of one length to one place are one.
LEMMA SameWay ==
  ASSUME NEW p \in Paths, NEW q \in Paths, NEW d \in Paths, IsPrefix(p, d), IsPrefix(q, d), Len(p) = Len(q)
  PROVE  p = q
<1>1. \A k \in 1 .. Len(p) : p[k] = q[k]
  BY PrefixIs
<1> QED  BY <1>1, SamePath

LEMMA TailIs ==
  ASSUME NEW S, NEW s \in Seq(S), s # <<>>
  PROVE  /\ Head(s) \in S /\ Tail(s) \in Seq(S) /\ s = <<Head(s)>> \o Tail(s) /\ <<Head(s)>> \in Seq(S)
         /\ DOMAIN Tail(s) = 1 .. Len(s) - 1 /\ DOMAIN s = 1 .. Len(s) /\ Len(s) \in Nat \ {0}
         /\ Head(s) = s[1] /\ \A i \in DOMAIN Tail(s) : Tail(s)[i] = s[i + 1]
  OBVIOUS

\* The children of h among S, in order.
Children(h, S, kids) ==
  /\ kids \in Seq(S) /\ \A how : Ascends(how, kids)
  /\ \A i \in DOMAIN kids : Len(kids[i]) = Len(h) + 1 /\ IsPrefix(h, kids[i]) /\ kids[i] # h
  /\ \A e \in S : IsPrefix(h, e) /\ h # e => Holds(kids, Step1(h, e))

Reached(W, d) == \E i \in DOMAIN W : IsPrefix(W[i], d)

\* D has been visited of S, and W is to be: in order, and nothing is lost.
Frontier(how, S, D, W) ==
  /\ D \in Seq(S) /\ W \in Seq(S) /\ Ascends(how, D \o W)
  /\ \A d \in S : Holds(D, d) \/ Reached(W, d)

\* What is to be visited breadth first was found in what was visited.
Found(D, W)  == \A i \in DOMAIN W : W[i] = <<>> \/ Holds(D, Front(W[i]))
\* What is to be visited depth first is apart.
Apart(W) == \A i, j \in DOMAIN W : i # j => ~IsPrefix(W[i], W[j])

LEMMA Covered ==
  ASSUME NEW S \in SUBSET Paths, NEW D \in Seq(S), NEW W \in Seq(S), W # <<>>, NEW kids, Children(Head(W), S, kids),
         NEW d \in S, Holds(D, d) \/ Reached(W, d)
  PROVE  Holds(D \o <<Head(W)>>, d) \/ (Reached(Tail(W) \o kids, d) /\ Reached(kids \o Tail(W), d))
<1> DEFINE h == Head(W)
<1>1. /\ h \in S /\ Tail(W) \in Seq(S) /\ <<h>> \in Seq(S) /\ kids \in Seq(S)
      /\ DOMAIN Tail(W) = 1 .. Len(W) - 1 /\ DOMAIN W = 1 .. Len(W) /\ Len(W) \in Nat
      /\ h = W[1] /\ \A i \in DOMAIN Tail(W) : Tail(W)[i] = W[i + 1]
  BY TailIs DEF Children
<1>2. CASE Holds(D, d)
  BY <1>1, <1>2, ConcatHolds
<1>3. CASE d = h
  <2>1. Holds(<<h>>, h)
    BY DEF Holds
  <2> QED  BY <1>1, <1>3, <2>1, ConcatHolds
<1>4. ASSUME NEW x, Holds(Tail(W), x) \/ Holds(kids, x), IsPrefix(x, d)
      PROVE  Reached(Tail(W) \o kids, d) /\ Reached(kids \o Tail(W), d)
  <2>1. Holds(Tail(W) \o kids, x) /\ Holds(kids \o Tail(W), x)
    BY <1>1, <1>4, ConcatHolds
  <2> QED  BY <1>4, <2>1 DEF Holds, Reached
<1>5. CASE d # h /\ IsPrefix(h, d)
  <2>1. Holds(kids, Step1(h, d))
    BY <1>5 DEF Children
  <2>2. IsPrefix(Step1(h, d), d)
    BY <1>1, <1>5, OnTheWay
  <2> QED  BY <1>4, <2>1, <2>2
<1>6. CASE ~Holds(D, d) /\ ~IsPrefix(h, d)
  <2>1. PICK i \in DOMAIN W : IsPrefix(W[i], d)
    BY <1>6 DEF Reached
  <2>2. i # 1
    BY <1>1, <1>6, <2>1
  <2>3. i - 1 \in DOMAIN Tail(W) /\ Tail(W)[i - 1] = W[i]
    BY <1>1, <2>1, <2>2
  <2>4. Holds(Tail(W), W[i])
    BY <2>3 DEF Holds
  <2> QED  BY <1>4, <2>1, <2>4
<1> QED  BY <1>2, <1>3, <1>5, <1>6

\* The order of what was visited, h after it, and the rest.
LEMMA Split ==
  ASSUME NEW how, NEW S \in SUBSET Paths, NEW D \in Seq(S), NEW W \in Seq(S), W # <<>>, Ascends(how, D \o W)
  PROVE  /\ Ascends(how, D) /\ Ascends(how, Tail(W)) /\ AllBefore(how, D, Tail(W))
         /\ \A i \in DOMAIN D : Precedes(how, D[i], Head(W))
         /\ \A i \in DOMAIN Tail(W) : Precedes(how, Head(W), Tail(W)[i])
<1>1. /\ Ascends(how, D) /\ Ascends(how, W) /\ AllBefore(how, D, W)
  BY ConcatAscends
<1>2. /\ DOMAIN Tail(W) = 1 .. Len(W) - 1 /\ DOMAIN W = 1 .. Len(W) /\ Len(W) \in Nat \ {0}
      /\ Head(W) = W[1] /\ \A i \in DOMAIN Tail(W) : Tail(W)[i] = W[i + 1]
  BY TailIs
<1>3. \A i \in DOMAIN Tail(W) : i + 1 \in DOMAIN W /\ 1 \in DOMAIN W /\ 1 < i + 1
  BY <1>2
<1>4. Ascends(how, Tail(W))
  <2> SUFFICES ASSUME NEW i \in DOMAIN Tail(W), NEW j \in DOMAIN Tail(W), i < j
               PROVE  Precedes(how, Tail(W)[i], Tail(W)[j])
    BY DEF Ascends
  <2>1. i + 1 \in DOMAIN W /\ j + 1 \in DOMAIN W /\ i + 1 < j + 1
    BY <1>2, <1>3
  <2> QED  BY <1>1, <1>2, <2>1 DEF Ascends
<1>5. AllBefore(how, D, Tail(W))
  BY <1>1, <1>2, <1>3 DEF AllBefore
<1>6. \A i \in DOMAIN D : Precedes(how, D[i], Head(W))
  BY <1>1, <1>2 DEF AllBefore
<1>7. \A i \in DOMAIN Tail(W) : Precedes(how, Head(W), Tail(W)[i])
  BY <1>1, <1>2, <1>3 DEF Ascends
<1> QED  BY <1>1, <1>4, <1>5, <1>6, <1>7

\* And together again.
LEMMA Join3 ==
  ASSUME NEW how, NEW S \in SUBSET Paths, NEW D \in Seq(S), NEW h \in S, NEW s \in Seq(S), NEW t \in Seq(S),
         Ascends(how, D), Ascends(how, s), Ascends(how, t), AllBefore(how, s, t),
         \A i \in DOMAIN D : Precedes(how, D[i], h),
         \A i \in DOMAIN s : Precedes(how, h, s[i]), \A i \in DOMAIN t : Precedes(how, h, t[i])
  PROVE  Ascends(how, (D \o <<h>>) \o (s \o t))
<1>1. <<h>> \in Seq(S) /\ DOMAIN <<h>> = {1} /\ <<h>>[1] = h
  OBVIOUS
<1>2. Ascends(how, <<h>>) /\ AllBefore(how, D, <<h>>)
  BY <1>1 DEF Ascends, AllBefore
<1>3. D \o <<h>> \in Seq(S) /\ Ascends(how, D \o <<h>>)
  BY <1>1, <1>2, ConcatIs, ConcatAscends
<1>4. s \o t \in Seq(S) /\ Ascends(how, s \o t)
  BY ConcatIs, ConcatAscends
<1>5. ASSUME NEW x \in S, Holds(D, x) \/ x = h, NEW y \in S, Holds(s, y) \/ Holds(t, y)
      PROVE  Precedes(how, x, y)
  <2>1. Precedes(how, h, y)
    BY <1>5 DEF Holds
  <2>2. CASE Holds(D, x)
    <3>1. Precedes(how, x, h)
      BY <2>2 DEF Holds
    <3> QED  BY <2>1, <3>1, PathOrder
  <2> QED  BY <1>5, <2>1, <2>2
<1>6. AllBefore(how, D \o <<h>>, s \o t)
  <2> SUFFICES ASSUME NEW i \in DOMAIN (D \o <<h>>), NEW j \in DOMAIN (s \o t)
               PROVE  Precedes(how, (D \o <<h>>)[i], (s \o t)[j])
    BY DEF AllBefore
  <2> DEFINE x == (D \o <<h>>)[i]
             y == (s \o t)[j]
  <2>1. x \in S /\ y \in S
    BY <1>3, <1>4, ElementOfSeq
  <2>2. Holds(D \o <<h>>, x) /\ Holds(s \o t, y)
    BY DEF Holds
  <2> HIDE DEF x, y
  <2>3. Holds(D, x) \/ Holds(<<h>>, x)
    BY <1>1, <2>2, ConcatHolds
  <2>4. Holds(s, y) \/ Holds(t, y)
    BY <2>2, ConcatHolds
  <2>5. Holds(D, x) \/ x = h
    BY <1>1, <2>3 DEF Holds
  <2> QED  BY <1>5, <2>1, <2>4, <2>5 DEF x, y
<1> QED  BY <1>3, <1>4, <1>6, ConcatAscends

LEMMA VisitedFirst ==
  ASSUME NEW S \in SUBSET Paths, NEW D \in Seq(S), NEW W \in Seq(S), Ascends("bfs", D \o W), Found(D, W), W # <<>>,
         NEW kids, Children(Head(W), S, kids)
  PROVE  /\ D \o <<Head(W)>> \in Seq(S) /\ Tail(W) \o kids \in Seq(S)
         /\ Ascends("bfs", (D \o <<Head(W)>>) \o (Tail(W) \o kids))
         /\ Found(D \o <<Head(W)>>, Tail(W) \o kids)
<1> DEFINE h == Head(W)
           t == Tail(W)
<1>1. /\ D \in Seq(S) /\ W \in Seq(S) /\ h \in S /\ t \in Seq(S) /\ <<h>> \in Seq(S) /\ kids \in Seq(S)
      /\ \A i \in DOMAIN t : t[i] = W[i + 1] /\ i + 1 \in DOMAIN W
  <2>1. /\ DOMAIN t = 1 .. Len(W) - 1 /\ DOMAIN W = 1 .. Len(W) /\ Len(W) \in Nat
        /\ \A i \in DOMAIN t : t[i] = W[i + 1]
    BY TailIs
  <2> QED  BY <2>1, TailIs DEF Children
<1>2. /\ Ascends("bfs", D) /\ Ascends("bfs", t) /\ AllBefore("bfs", D, t)
      /\ \A i \in DOMAIN D : Precedes("bfs", D[i], h)
      /\ \A i \in DOMAIN t : Precedes("bfs", h, t[i])
  BY <1>1, Split
<1>3. \A i \in DOMAIN kids : kids[i] \in S /\ Len(kids[i]) = Len(h) + 1 /\ IsPrefix(h, kids[i]) /\ kids[i] # h
  BY <1>1, ElementOfSeq DEF Children
<1>4. \A i \in DOMAIN t : t[i] \in S
  BY <1>1, ElementOfSeq
<1>5. \A p \in S : Len(p) \in Nat /\ p \in Paths
  BY PathIs
<1> HIDE DEF h, t
<1>6. \A i \in DOMAIN kids : Precedes("bfs", h, kids[i])
  BY <1>1, <1>3, <1>5, PathOrder
<1>7. AllBefore("bfs", t, kids)
  <2> SUFFICES ASSUME NEW i \in DOMAIN t, NEW j \in DOMAIN kids PROVE Precedes("bfs", t[i], kids[j])
    BY DEF AllBefore
  <2>1. t[i] \in Paths /\ kids[j] \in Paths /\ h \in Paths /\ Len(t[i]) \in Nat /\ Len(kids[j]) = Len(h) + 1
        /\ Len(h) \in Nat
    BY <1>1, <1>3, <1>4, <1>5
  <2>2. Precedes("bfs", h, t[i])
    BY <1>2
  <2>3. t[i] # <<>>
    <3>1. Len(h) = 0 => h = <<>>
      BY <2>1 DEF Paths
    <3>2. ~Precedes("bfs", h, h)
      BY <2>1, PathOrder
    <3> QED  BY <2>1, <2>2, <3>1, <3>2 DEF Precedes
  <2>4. Holds(D, Front(t[i]))
    BY <1>1, <2>3 DEF Found
  <2>5. Precedes("bfs", Front(t[i]), h)
    BY <1>2, <2>4 DEF Holds
  <2>6. Front(t[i]) \in Paths /\ Len(Front(t[i])) = Len(t[i]) - 1 /\ IsPrefix(Front(t[i]), t[i])
    BY <2>1, <2>3, FrontIs
  <2>7. Len(t[i]) - 1 <= Len(h)
    BY <2>1, <2>5, <2>6 DEF Precedes
  <2>8. CASE Len(t[i]) <= Len(h)
    BY <2>1, <2>8 DEF Precedes
  <2>9. CASE Len(t[i]) = Len(h) + 1
    BY <1>3, <2>1, <2>5, <2>6, <2>9, CousinsFollow
  <2> QED  BY <2>1, <2>7, <2>8, <2>9
<1>8. Ascends("bfs", (D \o <<h>>) \o (t \o kids))
  <2>1. Ascends("bfs", kids)
    BY DEF Children
  <2> QED  BY <1>1, <1>2, <1>6, <1>7, <2>1, Join3
<1>9. D \o <<h>> \in Seq(S) /\ t \o kids \in Seq(S)
  BY <1>1, ConcatIs
<1>10. Found(D \o <<h>>, t \o kids)
  <2> SUFFICES ASSUME NEW i \in DOMAIN (t \o kids), (t \o kids)[i] # <<>>
               PROVE  Holds(D \o <<h>>, Front((t \o kids)[i]))
    BY DEF Found
  <2> DEFINE x == (t \o kids)[i]
  <2>1. Holds(t \o kids, x) /\ x \in S
    BY <1>9, ElementOfSeq DEF Holds
  <2> HIDE DEF x
  <2>2. Holds(t, x) \/ Holds(kids, x)
    BY <1>1, <2>1, ConcatHolds
  <2>3. CASE Holds(t, x)
    <3>1. Holds(D, Front(x))
      BY <1>1, <2>3 DEF x, Holds, Found
    <3> QED  BY <1>1, <3>1, ConcatHolds DEF x
  <2>4. CASE Holds(kids, x)
    <3>1. Len(x) = Len(h) + 1 /\ IsPrefix(h, x)
      BY <1>3, <2>4 DEF Holds
    <3>2. Len(Front(x)) = Len(h) /\ IsPrefix(Front(x), x) /\ Front(x) \in Paths
      <4>1. x # <<>> /\ x \in Paths /\ Len(h) \in Nat
        BY <1>1, <1>5, <2>1 DEF x
      <4> QED  BY <3>1, <4>1, FrontIs
    <3>3. Front(x) = h
      BY <1>1, <1>5, <2>1, <3>1, <3>2, SameWay
    <3>4. Holds(<<h>>, Front(x))
      BY <3>3 DEF Holds
    <3> QED  BY <1>1, <3>4, ConcatHolds DEF x
  <2> QED  BY <2>2, <2>3, <2>4
<1> QED  BY <1>8, <1>9, <1>10 DEF h, t

LEMMA VisitFirst ==
  ASSUME NEW S \in SUBSET Paths, NEW D, NEW W, Frontier("bfs", S, D, W), Found(D, W), W # <<>>,
         NEW kids, Children(Head(W), S, kids)
  PROVE  Frontier("bfs", S, D \o <<Head(W)>>, Tail(W) \o kids) /\ Found(D \o <<Head(W)>>, Tail(W) \o kids)
<1>1. /\ D \in Seq(S) /\ W \in Seq(S) /\ Ascends("bfs", D \o W)
      /\ \A d \in S : Holds(D, d) \/ Reached(W, d)
  BY DEF Frontier
<1>2. \A d \in S : Holds(D \o <<Head(W)>>, d) \/ Reached(Tail(W) \o kids, d)
  BY <1>1, Covered
<1> QED  BY <1>1, <1>2, VisitedFirst DEF Frontier

LEMMA VisitDeep ==
  ASSUME NEW S \in SUBSET Paths, NEW D, NEW W, Frontier("dfs", S, D, W), Apart(W), W # <<>>,
         NEW kids, Children(Head(W), S, kids)
  PROVE  Frontier("dfs", S, D \o <<Head(W)>>, kids \o Tail(W)) /\ Apart(kids \o Tail(W))
<1> DEFINE h == Head(W)
           t == Tail(W)
<1>1. /\ D \in Seq(S) /\ W \in Seq(S) /\ h \in S /\ t \in Seq(S) /\ <<h>> \in Seq(S) /\ kids \in Seq(S)
      /\ \A i \in DOMAIN t : t[i] = W[i + 1] /\ i + 1 \in DOMAIN W /\ i + 1 # 1
      /\ h = W[1] /\ 1 \in DOMAIN W
  <2>1. /\ DOMAIN t = 1 .. Len(W) - 1 /\ DOMAIN W = 1 .. Len(W) /\ Len(W) \in Nat \ {0} /\ h = W[1]
        /\ \A i \in DOMAIN t : t[i] = W[i + 1]
    BY TailIs DEF Frontier
  <2> QED  BY <2>1, TailIs DEF Frontier, Children
<1>2. /\ Ascends("dfs", D) /\ Ascends("dfs", t) /\ AllBefore("dfs", D, t)
      /\ \A i \in DOMAIN D : Precedes("dfs", D[i], h)
      /\ \A i \in DOMAIN t : Precedes("dfs", h, t[i])
  BY <1>1, Split DEF Frontier
<1>3. \A i \in DOMAIN kids : kids[i] \in S /\ Len(kids[i]) = Len(h) + 1 /\ IsPrefix(h, kids[i]) /\ kids[i] # h
  BY <1>1, ElementOfSeq DEF Children
<1>4. \A i \in DOMAIN t : t[i] \in S
  BY <1>1, ElementOfSeq
<1>5. \A p \in S : Len(p) \in Nat /\ p \in Paths
  BY PathIs
<1>6. \A i \in DOMAIN t : ~IsPrefix(h, t[i]) /\ ~IsPrefix(t[i], h)
  BY <1>1 DEF Apart
<1> HIDE DEF h, t
<1>7. \A i \in DOMAIN kids : Precedes("dfs", h, kids[i])
  BY <1>1, <1>3, <1>5, PathOrder
<1>8. AllBefore("dfs", kids, t)
  <2> SUFFICES ASSUME NEW i \in DOMAIN kids, NEW j \in DOMAIN t PROVE Precedes("dfs", kids[i], t[j])
    BY DEF AllBefore
  <2>1. t[j] \in Paths /\ kids[i] \in Paths /\ h \in Paths
    BY <1>1, <1>3, <1>4, <1>5
  <2> QED  BY <1>2, <1>3, <1>6, <2>1, BelowComesFirst
<1>9. Ascends("dfs", (D \o <<h>>) \o (kids \o t))
  <2>1. Ascends("dfs", kids)
    BY DEF Children
  <2> QED  BY <1>1, <1>2, <1>7, <1>8, <2>1, Join3
<1>10. D \o <<h>> \in Seq(S) /\ kids \o t \in Seq(S)
  BY <1>1, ConcatIs
<1>11. \A d \in S : Holds(D \o <<h>>, d) \/ Reached(kids \o t, d)
  BY <1>1, Covered DEF h, t, Frontier
<1>12. ASSUME NEW i \in DOMAIN kids, NEW j \in DOMAIN t PROVE ~IsPrefix(kids[i], t[j]) /\ ~IsPrefix(t[j], kids[i])
  <2>1. t[j] \in Paths /\ kids[i] \in Paths /\ h \in Paths /\ Len(t[j]) \in Nat /\ Len(kids[i]) = Len(h) + 1
        /\ IsPrefix(h, kids[i]) /\ Len(h) \in Nat
    BY <1>1, <1>3, <1>4, <1>5
  <2>2. ~IsPrefix(h, t[j]) /\ ~IsPrefix(t[j], h)
    BY <1>6
  <2>3. ~IsPrefix(kids[i], t[j])
    BY <2>1, <2>2, PrefixIs
  <2>4. ~IsPrefix(t[j], kids[i])
    <3> SUFFICES ASSUME IsPrefix(t[j], kids[i]) PROVE FALSE
      OBVIOUS
    <3>1. CASE Len(t[j]) <= Len(h)
      BY <2>1, <2>2, <3>1, PrefixIs
    <3>2. CASE Len(t[j]) > Len(h)
      BY <2>1, <2>2, <3>2, PrefixIs
    <3> QED  BY <2>1, <3>1, <3>2
  <2> QED  BY <2>3, <2>4
<1>13. \A i, j \in DOMAIN kids : i # j => ~IsPrefix(kids[i], kids[j])
  <2> SUFFICES ASSUME NEW i \in DOMAIN kids, NEW j \in DOMAIN kids, i # j, IsPrefix(kids[i], kids[j]) PROVE FALSE
    OBVIOUS
  <2>1. kids[i] \in Paths /\ kids[j] \in Paths /\ Len(kids[i]) = Len(kids[j])
    BY <1>1, <1>3, <1>5
  <2>2. kids[i] = kids[j]
    <3>1. \A k \in 1 .. Len(kids[i]) : kids[i][k] = kids[j][k]
      BY <2>1, PrefixIs
    <3> QED  BY <2>1, <3>1, SamePath
  <2>3. Precedes("dfs", kids[i], kids[j]) \/ Precedes("dfs", kids[j], kids[i])
    <3>1. i < j \/ j < i
      BY <1>1
    <3> QED  BY <3>1 DEF Children, Ascends
  <2> QED  BY <2>1, <2>2, <2>3, PathOrder
<1>14. \A i, j \in DOMAIN t : i # j => ~IsPrefix(t[i], t[j])
  <2> SUFFICES ASSUME NEW i \in DOMAIN t, NEW j \in DOMAIN t, i # j PROVE ~IsPrefix(t[i], t[j])
    OBVIOUS
  <2>1. i + 1 # j + 1
    BY <1>1
  <2> QED  BY <1>1, <2>1 DEF Apart
<1>15. Apart(kids \o t)
  <2> SUFFICES ASSUME NEW i \in DOMAIN (kids \o t), NEW j \in DOMAIN (kids \o t), i # j
               PROVE  ~IsPrefix((kids \o t)[i], (kids \o t)[j])
    BY DEF Apart
  <2> DEFINE u == kids \o t
             n == Len(kids)
  <2>1. /\ DOMAIN u \subseteq Nat /\ n \in Nat
        /\ \A k \in DOMAIN kids : u[k] = kids[k]
        /\ \A k \in DOMAIN u : k \in DOMAIN kids \/ (k - n \in DOMAIN t /\ u[k] = t[k - n])
    BY <1>1, ConcatIs
  <2> HIDE DEF u, n
  <2>2. i - n # j - n
    BY <2>1 DEF u
  <2> QED  BY <1>12, <1>13, <1>14, <2>1, <2>2 DEF u
<1> QED  BY <1>9, <1>10, <1>11, <1>15 DEF Frontier, h, t

-----------------------------------------------------------------------------
(* walk(): the invariant, and what follows from it.                        *)

Dirs(w) == [i \in DOMAIN w |-> w[i].dir]

WorkItems == [do : {"visit", "subtree", "report", "diff"}, dir : Tree, depth : Int]

\* The sentinel is the producer's last word, and the queue's last item.
WalkControls ==
  /\ producer = "off" <=> consumer = "off"
  /\ consumer = "off" => got = <<>> /\ outQueue = <<>>
  /\ \A i \in DOMAIN outQueue : outQueue[i] = Sentinel => i = Len(outQueue) /\ producer \in {"record", "ended"}
  /\ consumer \in {"join", "cut", "returned", "raised", "stopped"} => outQueue = <<>> /\ producer \in {"record", "ended"}
  /\ consumer \in {"returned", "raised", "stopped"} => producer = "ended"
  /\ producer \in {"failing", "record"} => work # <<>>
  /\ producer # "run" => output = <<>>
  /\ consumer = "returned" => work = <<>>

\* The directories in a queue, without the sentinel, and all those made and not lost.
Plain(q) == IF q # <<>> /\ q[Len(q)] = Sentinel THEN SubSeq(q, 1, Len(q) - 1) ELSE q
Made     == (got \o Plain(outQueue)) \o output

\* No directory was drained.
Kept == consumer \in {"get", "join", "returned", "raised"}

At(depth, d) == IF depth < 0 THEN depth ELSE depth - Len(d)

VisitItems(depth) == {x \in WorkItems : x.do = "visit" /\ x.dir \in Within(depth) /\ x.depth = At(depth, x.dir)}

Visits == walk.how # "scan" /\ consumer # "off" => work \in Seq(VisitItems(walk.depth))

Visiting ==
  walk.how # "scan" /\ Kept =>
    /\ Frontier(walk.how, Within(walk.depth), Made, Dirs(work))
    /\ walk.how = "bfs" => Found(Made, Dirs(work))
    /\ walk.how = "dfs" => Apart(Dirs(work))

LEMMA WalkTypes ==
  ASSUME WalkTypeOK
  PROVE  /\ got \in Seq(Tree) /\ output \in Seq(Tree) /\ outQueue \in Seq(Tree \cup {Sentinel})
         /\ work \in Seq(WorkItems) /\ Dirs(work) \in Seq(Tree) /\ DOMAIN Dirs(work) = DOMAIN work
         /\ walk.depth \in Int /\ walk.how \in {"bfs", "dfs", "scan"}
<1>1. work \in Seq(WorkItems)
  BY DEF WalkTypeOK, WorkItems
<1>2. Dirs(work) \in Seq(Tree) /\ DOMAIN Dirs(work) = DOMAIN work
  <2>1. \A i \in DOMAIN work : work[i].dir \in Tree
    <3> SUFFICES ASSUME NEW i \in DOMAIN work PROVE work[i].dir \in Tree
      OBVIOUS
    <3>1. work[i] \in WorkItems
      BY <1>1, ElementOfSeq
    <3> QED  BY <3>1 DEF WorkItems
  <2>2. DOMAIN work = 1 .. Len(work) /\ Len(work) \in Nat
    BY <1>1
  <2>3. Dirs(work) = [i \in 1 .. Len(work) |-> work[i].dir]
    BY <2>2 DEF Dirs
  <2> HIDE DEF WorkItems
  <2> QED  BY <2>1, <2>2, <2>3
<1>3. walk.depth \in Int
  <2>1. walk \in [how : Hows, depth : Depths \cup {-1}]
    BY DEF WalkTypeOK
  <2>2. walk.depth \in Depths \cup {-1} /\ -1 \in Int
    BY <2>1
  <2> QED  BY <2>2, TreeIs
<1>4. walk.how \in Hows
  BY DEF WalkTypeOK
<1> QED  BY <1>1, <1>2, <1>3, <1>4 DEF WalkTypeOK, Hows

LEMMA WithinIs ==
  ASSUME NEW depth \in Int
  PROVE  Within(depth) \in SUBSET Paths /\ IsFiniteSet(Within(depth)) /\ Within(depth) \subseteq Tree
         /\ Seq(Within(depth)) \subseteq Seq(Tree)
<1>1. Within(depth) \subseteq Tree
  BY DEF Within
<1> QED  BY <1>1, TreeIs, FS_Subset

Closing(q) == \A i \in DOMAIN q : q[i] = Sentinel => i = Len(q)

LEMMA PlainIs ==
  ASSUME NEW q \in Seq(Tree \cup {Sentinel}), Closing(q)
  PROVE  /\ Plain(q) \in Seq(Tree)
         /\ ~Holds(q, Sentinel) => Plain(q) = q
<1>1. Len(q) \in Nat /\ DOMAIN q = 1 .. Len(q) /\ \A i \in DOMAIN q : q[i] \in Tree \cup {Sentinel}
  BY ElementOfSeq
<1>2. CASE q # <<>> /\ q[Len(q)] = Sentinel
  <2>1. Len(q) # 0
    BY <1>2
  <2>2. PICK m \in Nat : Len(q) = m + 1
    <3>1. Len(q) - 1 \in Nat /\ Len(q) = (Len(q) - 1) + 1
      BY <1>1, <2>1
    <3> QED  BY <3>1
  <2>3. \A i \in 1 .. m : i \in DOMAIN q /\ i # Len(q) /\ q[i] \in Tree
    <3>1. \A i \in 1 .. m : i \in DOMAIN q /\ i # Len(q)
      BY <1>1, <2>2
    <3> QED  BY <1>1, <3>1 DEF Closing
  <2>4. /\ SubSeq(q, 1, m) \in Seq(Tree \cup {Sentinel}) /\ Len(SubSeq(q, 1, m)) = m
        /\ \A i \in 1 .. m : SubSeq(q, 1, m)[i] = q[i]
    BY <1>1, <2>2
  <2>5. SubSeq(q, 1, m) \in Seq(Tree)
    BY <2>3, <2>4
  <2>6. Len(q) - 1 = m
    BY <2>2
  <2>7. Holds(q, Sentinel)
    BY <1>1, <1>2, <2>1 DEF Holds
  <2> QED  BY <1>2, <2>5, <2>6, <2>7 DEF Plain
<1>3. CASE ~(q # <<>> /\ q[Len(q)] = Sentinel)
  <2>1. \A i \in 1 .. Len(q) : q[i] \in Tree
    <3> SUFFICES ASSUME NEW i \in 1 .. Len(q) PROVE q[i] \in Tree
      OBVIOUS
    <3>1. i \in DOMAIN q /\ q # <<>>
      BY <1>1
    <3> QED  BY <1>1, <1>3, <3>1 DEF Closing
  <2>2. q \in Seq(Tree)
    BY <1>1, <2>1
  <2>3. Plain(q) = q
    BY <1>3 DEF Plain
  <2> QED  BY <2>2, <2>3
<1> QED  BY <1>2, <1>3

\* A sequence that holds h and then b is h put before b.
LEMMA PutBefore ==
  ASSUME NEW U, NEW h \in U, NEW a \in Seq(U), NEW b \in Seq(U), NEW m \in Nat, Len(b) = m, Len(a) = m + 1,
         a[1] = h, \A i \in 1 .. m : a[i + 1] = b[i]
  PROVE  a = <<h>> \o b
<1> DEFINE c == <<h>> \o b
<1>1. c \in Seq(U) /\ Len(c) = m + 1 /\ c[1] = h
  OBVIOUS
<1>2. \A j \in 1 .. m + 1 : j # 1 => c[j] = b[j - 1] /\ j - 1 \in 1 .. m
  OBVIOUS
<1>3. DOMAIN a = 1 .. m + 1 /\ DOMAIN c = 1 .. m + 1
  BY <1>1
<1> HIDE DEF c
<1>4. ASSUME NEW j \in 1 .. m + 1 PROVE a[j] = c[j]
  <2>1. CASE j = 1
    BY <1>1, <2>1
  <2>2. CASE j # 1
    <3>1. j - 1 \in 1 .. m /\ a[(j - 1) + 1] = b[j - 1] /\ (j - 1) + 1 = j
      BY <1>2, <2>2
    <3> QED  BY <1>2, <2>2, <3>1
  <2> QED  BY <2>1, <2>2
<1>5. a = c
  BY <1>1, <1>3, <1>4
<1> QED  BY <1>5 DEF c

LEMMA PlainHead ==
  ASSUME NEW q \in Seq(Tree \cup {Sentinel}), Closing(q), q # <<>>
  PROVE  /\ Closing(Tail(q)) /\ Tail(q) \in Seq(Tree \cup {Sentinel}) /\ Len(Tail(q)) = Len(q) - 1
         /\ Head(q) # Sentinel => Head(q) \in Tree /\ Plain(q) = <<Head(q)>> \o Plain(Tail(q))
         /\ Head(q) = Sentinel => Plain(q) = <<>> /\ Tail(q) = <<>>
<1> DEFINE h == Head(q)
           t == Tail(q)
<1>1. /\ Len(q) \in Nat \ {0} /\ DOMAIN q = 1 .. Len(q) /\ h = q[1] /\ h \in Tree \cup {Sentinel}
      /\ t \in Seq(Tree \cup {Sentinel}) /\ Len(t) = Len(q) - 1 /\ DOMAIN t = 1 .. Len(q) - 1
      /\ \A i \in DOMAIN t : t[i] = q[i + 1]
  <2>1. t \in Seq(Tree \cup {Sentinel}) /\ DOMAIN t = 1 .. Len(q) - 1 /\ DOMAIN q = 1 .. Len(q)
        /\ Len(q) \in Nat \ {0} /\ Head(q) = q[1] /\ \A i \in DOMAIN t : t[i] = q[i + 1] /\ h \in Tree \cup {Sentinel}
    BY TailIs
  <2>2. Len(t) = Len(q) - 1
    OBVIOUS
  <2> QED  BY <2>1, <2>2
<1> HIDE DEF h, t
<1>2. Closing(t)
  <2> SUFFICES ASSUME NEW i \in DOMAIN t, t[i] = Sentinel PROVE i = Len(t)
    BY DEF Closing
  <2>1. i + 1 \in DOMAIN q
    BY <1>1
  <2>2. i + 1 = Len(q)
    BY <1>1, <2>1 DEF Closing
  <2> QED  BY <1>1, <2>2
<1>3. ASSUME h = Sentinel PROVE Plain(q) = <<>> /\ t = <<>>
  <2>0. 1 \in DOMAIN q /\ q[1] = Sentinel
    BY <1>1, <1>3
  <2>1. Len(q) = 1
    BY <2>0 DEF Closing
  <2>2. t = <<>>
    BY <1>1, <2>1
  <2>3. q[Len(q)] = Sentinel /\ Len(q) - 1 = 0 /\ q # <<>>
    BY <2>0, <2>1
  <2>4. SubSeq(q, 1, 0) = <<>>
    OBVIOUS
  <2> QED  BY <2>2, <2>3, <2>4 DEF Plain
<1>4. ASSUME h # Sentinel PROVE h \in Tree /\ Plain(q) = <<h>> \o Plain(t)
  <2>1. h \in Tree
    BY <1>1, <1>4
  <2>2. t # <<>> <=> Len(q) > 1
    BY <1>1
  <2>3. CASE q[Len(q)] = Sentinel
    <3>1. Len(q) > 1
      BY <1>1, <1>4, <2>3
    <3>2. t # <<>> /\ t[Len(t)] = Sentinel
      BY <1>1, <2>2, <2>3, <3>1
    <3>3. Plain(q) = SubSeq(q, 1, Len(q) - 1) /\ Plain(t) = SubSeq(t, 1, Len(t) - 1)
      BY <2>3, <3>2 DEF Plain
    <3>4. PICK m \in Nat : Len(q) - 1 = m + 1 /\ Len(t) - 1 = m
      <4>1. Len(q) - 2 \in Nat /\ Len(q) - 1 = (Len(q) - 2) + 1 /\ Len(t) - 1 = Len(q) - 2
        BY <1>1, <3>1
      <4> QED  BY <4>1
    <3> DEFINE a == SubSeq(q, 1, m + 1)
               b == SubSeq(t, 1, m)
               U == Tree \cup {Sentinel}
    <3>5. a \in Seq(U) /\ Len(a) = m + 1 /\ \A i \in 1 .. m + 1 : a[i] = q[i]
      <4>0. Len(q) \in Int
        BY <1>1
      <4>1. Len(q) = m + 2
        BY <3>4, <4>0
      <4> HIDE DEF U
      <4>2. q \in Seq(U)
        BY DEF U
      <4> QED  BY <4>1, <4>2
    <3>6. b \in Seq(U) /\ Len(b) = m /\ \A i \in 1 .. m : b[i] = t[i]
      <4>0. Len(t) = Len(q) - 1
        BY <1>1
      <4>1. Len(t) = m + 1
        BY <3>4, <4>0
      <4> HIDE DEF U
      <4>2. t \in Seq(U)
        BY <1>1 DEF U
      <4> QED  BY <4>1, <4>2
    <3> HIDE DEF a, b, U
    <3>7. DOMAIN t = 1 .. m + 1 /\ h \in U /\ \A i \in 1 .. m : t[i] = q[i + 1]
      <4>1. DOMAIN t = 1 .. m + 1
        BY <1>1, <3>4
      <4>2. \A i \in 1 .. m : i \in 1 .. m + 1
        OBVIOUS
      <4> QED  BY <1>1, <4>1, <4>2 DEF U
    <3>8. a = <<h>> \o b
      <4>1. a[1] = h
        BY <1>1, <3>5
      <4>2. \A i \in 1 .. m : a[i + 1] = b[i]
        <5> SUFFICES ASSUME NEW i \in 1 .. m PROVE a[i + 1] = b[i]
          OBVIOUS
        <5>1. i + 1 \in 1 .. m + 1
          OBVIOUS
        <5> QED  BY <3>5, <3>6, <3>7, <5>1
      <4>3. h \in U /\ a \in Seq(U) /\ b \in Seq(U) /\ Len(b) = m /\ Len(a) = m + 1
        BY <3>5, <3>6, <3>7
      <4> QED  BY <4>1, <4>2, <4>3, PutBefore
    <3> QED  BY <2>1, <3>3, <3>4, <3>8 DEF a, b
  <2>4. CASE q[Len(q)] # Sentinel
    <3>1. Plain(q) = q
      BY <2>4 DEF Plain
    <3>2. t # <<>> => t[Len(t)] # Sentinel
      <4>1. ASSUME t # <<>> PROVE Len(q) - 1 \in DOMAIN t /\ (Len(q) - 1) + 1 = Len(q) /\ Len(t) = Len(q) - 1
        BY <1>1, <2>2, <4>1
      <4> QED  BY <1>1, <2>4, <4>1
    <3>3. Plain(t) = t
      BY <3>2 DEF Plain
    <3>4. q = <<h>> \o t
      BY TailIs DEF h, t
    <3> QED  BY <2>1, <3>1, <3>3, <3>4
  <2> QED  BY <2>3, <2>4
<1> QED  BY <1>1, <1>2, <1>3, <1>4 DEF h, t

LEMMA PlainAppend ==
  ASSUME NEW q \in Seq(Tree \cup {Sentinel}), ~Holds(q, Sentinel), NEW d \in Tree \cup {Sentinel}
  PROVE  /\ q \in Seq(Tree) /\ Plain(q) = q /\ Closing(Append(q, d))
         /\ d # Sentinel => Plain(Append(q, d)) = q \o <<d>> /\ ~Holds(Append(q, d), Sentinel)
         /\ d = Sentinel => Plain(Append(q, d)) = q
<1>1. Len(q) \in Nat /\ DOMAIN q = 1 .. Len(q) /\ Closing(q)
  BY DEF Closing, Holds
<1>2. Plain(q) = q /\ q \in Seq(Tree)
  BY <1>1, PlainIs
<1> DEFINE a == Append(q, d)
<1>3. /\ a \in Seq(Tree \cup {Sentinel}) /\ Len(a) = Len(q) + 1 /\ DOMAIN a = 1 .. Len(q) + 1
      /\ a[Len(q) + 1] = d /\ \A i \in 1 .. Len(q) : a[i] = q[i] /\ a # <<>>
  <2>1. \A i \in 1 .. Len(q) : a[i] = q[i]
    OBVIOUS
  <2>2. a \in Seq(Tree \cup {Sentinel}) /\ Len(a) = Len(q) + 1
    OBVIOUS
  <2>3. a[Len(q) + 1] = d /\ DOMAIN a = 1 .. Len(q) + 1
    OBVIOUS
  <2> QED  BY <1>1, <2>1, <2>2, <2>3
<1>4. d = Sentinel => Plain(a) = q
  <2>1. SubSeq(a, 1, Len(q)) = q
    BY <1>2
  <2>2. a # <<>> /\ Len(a) - 1 = Len(q)
    BY <1>1, <1>3
  <2> QED  BY <1>3, <2>1, <2>2 DEF Plain
<1>5. q \o <<d>> = a
  OBVIOUS
<1> HIDE DEF a
<1>6. Closing(a)
  <2> SUFFICES ASSUME NEW i \in DOMAIN a, a[i] = Sentinel PROVE i = Len(a)
    BY DEF Closing
  <2>1. i \notin 1 .. Len(q)
    BY <1>1, <1>3 DEF Holds
  <2> QED  BY <1>1, <1>3, <2>1
<1>7. ASSUME d # Sentinel PROVE Plain(a) = a /\ ~Holds(a, Sentinel)
  <2>1. Plain(a) = a
    BY <1>3, <1>7 DEF Plain
  <2>2. ASSUME NEW i \in DOMAIN a PROVE a[i] # Sentinel
    <3>1. i \in 1 .. Len(q) \/ i = Len(q) + 1
      BY <1>1, <1>3
    <3> QED  BY <1>1, <1>3, <1>7, <3>1 DEF Holds
  <2> QED  BY <2>1, <2>2 DEF Holds
<1> QED  BY <1>2, <1>4, <1>5, <1>6, <1>7 DEF a

LEMMA MadeIs ==
  ASSUME WalkTypeOK, WalkControls
  PROVE  /\ Closing(outQueue) /\ Plain(outQueue) \in Seq(Tree) /\ got \o Plain(outQueue) \in Seq(Tree)
         /\ Made \in Seq(Tree) /\ (producer \notin {"record", "ended"} => ~Holds(outQueue, Sentinel))
<1>1. Closing(outQueue) /\ (producer \notin {"record", "ended"} => ~Holds(outQueue, Sentinel))
  BY DEF WalkControls, Closing, Holds
<1>2. Plain(outQueue) \in Seq(Tree)
  BY <1>1, PlainIs, WalkTypes
<1> QED  BY <1>1, <1>2, ConcatIs, WalkTypes DEF Made

\* What was yielded is a beginning of what is expected, and at the end all.
LEMMA VisitedInOrder ==
  ASSUME WalkTypeOK, WalkControls, Visiting, walk.how # "scan", Kept
  PROVE  /\ IsPrefix(got, Expected(walk.how, walk.depth))
         /\ consumer = "returned" => got = Expected(walk.how, walk.depth)
<1> DEFINE how == walk.how
           S   == Within(walk.depth)
           W   == Dirs(work)
           more == Plain(outQueue) \o output
<1>1. S \in SUBSET Paths /\ IsFiniteSet(S) /\ Made \in Seq(S) /\ W \in Seq(S) /\ Ascends(how, Made \o W)
      /\ S \subseteq Tree /\ \A d \in S : Holds(Made, d) \/ Reached(W, d)
  BY WithinIs, WalkTypes DEF Visiting, Frontier
<1>2. got \in Seq(Tree) /\ Plain(outQueue) \in Seq(Tree) /\ output \in Seq(Tree)
  BY MadeIs, WalkTypes
<1>3. Made = got \o more
  BY <1>2 DEF Made
<1>4. Ascends(how, Made) /\ AllBefore(how, Made, W)
  BY <1>1, ConcatAscends
<1>5. \A d \in S : Holds(Made, d) \/ IsAfter(how, Made, d)
  <2> SUFFICES ASSUME NEW d \in S, ~Holds(Made, d), NEW i \in DOMAIN Made PROVE Precedes(how, Made[i], d)
    BY DEF IsAfter
  <2>1. PICK j \in DOMAIN W : IsPrefix(W[j], d)
    BY <1>1 DEF Reached
  <2>2. Made[i] \in S /\ W[j] \in S /\ Precedes(how, Made[i], W[j])
    BY <1>1, <1>4, ElementOfSeq DEF AllBefore
  <2>3. W[j] = d \/ Precedes(how, W[j], d)
    BY <1>1, <2>1, <2>2, PathOrder
  <2> QED  BY <1>1, <2>2, <2>3, PathOrder
<1>6. got \in Seq(S) /\ more \in Seq(S)
  <2>1. more \in Seq(Tree)
    BY <1>2, ConcatIs
  <2> HIDE DEF more, S
  <2>2. \A i \in DOMAIN Made : Made[i] \in S
    BY <1>1, ElementOfSeq
  <2>3. /\ DOMAIN Made = 1 .. Len(got) + Len(more) /\ Len(got) \in Nat /\ Len(more) \in Nat
        /\ DOMAIN got = 1 .. Len(got) /\ DOMAIN more = 1 .. Len(more)
        /\ \A i \in DOMAIN got : Made[i] = got[i]
        /\ \A i \in DOMAIN more : Made[Len(got) + i] = more[i]
    BY <1>2, <1>3, <2>1, ConcatIs
  <2>4. \A i \in 1 .. Len(got) : got[i] \in S
    BY <2>2, <2>3
  <2>5. \A i \in 1 .. Len(more) : more[i] \in S
    <3> SUFFICES ASSUME NEW i \in 1 .. Len(more) PROVE more[i] \in S
      OBVIOUS
    <3>1. Len(got) + i \in DOMAIN Made
      BY <2>3
    <3> QED  BY <2>2, <2>3, <3>1
  <2>6. ASSUME NEW u \in Seq(Tree), \A i \in 1 .. Len(u) : u[i] \in S PROVE u \in Seq(S)
    BY <2>6
  <2> QED  BY <1>2, <2>1, <2>4, <2>5, <2>6
<1> HIDE DEF more, S, W, how
<1>7. Ascends(how, got) /\ \A d \in S : Holds(got, d) \/ IsAfter(how, got, d)
  BY <1>1, <1>3, <1>4, <1>5, <1>6, Beginnings
<1>8. IsPrefix(got, InOrder(how, S)) /\ ((\A d \in S : Holds(got, d)) => got = InOrder(how, S))
  BY <1>1, <1>6, <1>7, Beginning
<1>9. ASSUME consumer = "returned" PROVE \A d \in S : Holds(got, d)
  <2>1. work = <<>> /\ outQueue = <<>> /\ output = <<>>
    BY <1>9 DEF WalkControls
  <2>2. Plain(outQueue) = <<>> /\ W = <<>>
    BY <2>1 DEF Plain, W, Dirs
  <2>3. Made = got
    BY <1>2, <2>1, <2>2 DEF Made
  <2>4. \A d \in S : ~Reached(W, d)
    BY <2>2 DEF Reached
  <2> QED  BY <1>1, <2>3, <2>4
<1> QED  BY <1>8, <1>9 DEF Expected, how, S

\* Sequences one after another hold what one of them holds.
LEMMA FlattenHolds ==
  ASSUME NEW S, NEW ss \in Seq(Seq(S))
  PROVE  /\ FlattenSeq(ss) \in Seq(S)
         /\ \A x : Holds(FlattenSeq(ss), x) <=> \E i \in DOMAIN ss : Holds(ss[i], x)
<1> SUFFICES ASSUME NEW x
             PROVE  FlattenSeq(ss) \in Seq(S) /\ (Holds(FlattenSeq(ss), x) <=> \E i \in DOMAIN ss : Holds(ss[i], x))
  OBVIOUS
<1> DEFINE n == Len(ss)
<1>1. n \in Nat /\ DOMAIN ss = 1 .. n /\ \A i \in 1 .. n : ss[i] \in Seq(S)
  OBVIOUS
<1>2. CASE n = 0
  <2>1. FlattenSeq(ss) = <<>> /\ DOMAIN ss = {}
    BY <1>2 DEF FlattenSeq
  <2> QED  BY <2>1 DEF Holds
<1>3. CASE n # 0
  <2>1. PICK f \in [1 .. n -> Seq(S)] : Flattened(f, ss, n)
    <3>1. n \in 0 .. Len(ss)
      BY <1>1
    <3> QED  BY <3>1, FlattenedUpto
  <2>2. FlattenSeq(ss) = f[n]
    <3>1. f = [i \in 1 .. n |-> f[i]]
      BY <2>1
    <3>2. Flattens(f, ss)
      BY <2>1, <3>1 DEF Flattens, Flattened
    <3> QED  BY <1>3, <2>1, <3>2, FlattenIs
  <2> HIDE DEF n
  <2> DEFINE Says(k) == Holds(f[k], x) <=> \E i \in 1 .. k : Holds(ss[i], x)
             Bad     == {k \in 1 .. n : ~Says(k)}
  <2>3. Bad \subseteq Nat
    BY <1>1
  <2>4. Bad = {}
    <3> SUFFICES ASSUME Bad # {} PROVE FALSE
      OBVIOUS
    <3>1. PICK k \in Bad : \A j \in Bad : k <= j
      <4> HIDE DEF Bad
      <4> QED  BY <2>3, SmallestNat
    <3>2. k \in 1 .. n /\ ~Says(k)
      BY <3>1
    <3>3. f[k] = IF k = 1 THEN ss[k] ELSE f[k - 1] \o ss[k]
      BY <2>1, <3>2 DEF Flattened
    <3>4. k # 1
      <4> SUFFICES ASSUME k = 1 PROVE FALSE
        OBVIOUS
      <4>1. 1 .. 1 = {1} /\ f[1] = ss[1]
        BY <3>3
      <4> QED  BY <3>2, <4>1
    <3>5. k - 1 \in 1 .. n /\ ~(k <= k - 1) /\ 1 .. k = (1 .. k - 1) \cup {k}
      BY <1>1, <3>2, <3>4
    <3>6. Says(k - 1)
      <4>1. k - 1 \notin Bad
        <5> HIDE DEF Bad
        <5> QED  BY <3>1, <3>5
      <4> QED  BY <3>5, <4>1
    <3>7. f[k - 1] \in Seq(S) /\ ss[k] \in Seq(S)
      BY <1>1, <2>1, <3>2, <3>5
    <3>8. Holds(f[k], x) <=> Holds(f[k - 1], x) \/ Holds(ss[k], x)
      BY <3>3, <3>4, <3>7, ConcatHolds
    <3> QED  BY <3>2, <3>5, <3>6, <3>8
  <2>5. n \in 1 .. n
    BY <1>1, <1>3
  <2>6. Says(n)
    BY <2>4, <2>5
  <2> QED  BY <1>1, <2>1, <2>2, <2>5, <2>6
<1> QED  BY <1>2, <1>3

ScanItems(depth) ==
  {x \in WorkItems : x.do # "visit" /\ (x.do = "diff" <=> x.dir \in Other)
                     /\ (depth = -1 => x.do = "report" \/ x.depth = -1)}

Scanned ==
  walk.how = "scan" /\ consumer # "off" =>
    /\ work \in Seq(ScanItems(walk.depth))
    /\ got \in Seq(Tree \ Other) /\ output \in Seq(Tree \ Other) /\ outQueue \in Seq((Tree \ Other) \cup {Sentinel})

\* What a scan without a limit will find by an item.
Covers(item, m) == IF item.do = "report" THEN item.dir = m ELSE IsStrictPrefix(item.dir, m)
Awaited(w, m)  == \E i \in DOMAIN w : Covers(w[i], m)

Scanning ==
  walk.how = "scan" /\ walk.depth = -1 /\ Kept =>
    \A m \in Tree \ Other : Holds(Made, m) \/ Awaited(work, m)

\* A walk broken off has given a beginning.
Begun ==
  walk.how # "scan" /\ consumer # "off" /\ ~Kept => IsPrefix(got, Expected(walk.how, walk.depth))

WalkInv == WalkTypeOK /\ WalkControls /\ Visits /\ Visiting /\ Scanned /\ Scanning /\ Begun

LEMMA WalksAreWhole == WalkInv => WalkIsWhole
<1> SUFFICES ASSUME WalkInv, walk.how # "scan", consumer # "off"
             PROVE  /\ IsPrefix(got, Expected(walk.how, walk.depth))
                    /\ consumer = "returned" => got = Expected(walk.how, walk.depth)
  BY DEF WalkIsWhole
<1>1. CASE Kept
  BY <1>1, VisitedInOrder DEF WalkInv
<1>2. CASE ~Kept
  BY <1>2 DEF WalkInv, Begun, Kept
<1> QED  BY <1>1, <1>2

LEMMA ScansAreWhole == WalkInv => ScanFindsMissing
<1> SUFFICES ASSUME WalkInv, walk.how = "scan", walk.depth = -1
             PROVE  Range(got) \subseteq Tree \ Other /\ (consumer = "returned" => Range(got) = Tree \ Other)
  BY DEF ScanFindsMissing
<1>1. WalkTypeOK /\ WalkControls
  BY DEF WalkInv
<1>2. got \in Seq(Tree) /\ Plain(outQueue) \in Seq(Tree) /\ output \in Seq(Tree) /\ got \o Plain(outQueue) \in Seq(Tree)
      /\ DOMAIN got = 1 .. Len(got)
  BY <1>1, MadeIs, WalkTypes
<1>3. got \in Seq(Tree \ Other)
  <2>1. CASE consumer = "off"
    BY <1>1, <2>1 DEF WalkControls
  <2> QED  BY <2>1 DEF WalkInv, Scanned
<1>4. ASSUME consumer = "returned", NEW m \in Tree \ Other PROVE Holds(got, m)
  <2>1. work = <<>> /\ outQueue = <<>> /\ output = <<>>
    BY <1>1, <1>4 DEF WalkControls
  <2>2. Plain(outQueue) = <<>>
    BY <2>1 DEF Plain
  <2>3. Made = got
    <3>1. Made = (got \o <<>>) \o <<>>
      BY <2>1, <2>2 DEF Made
    <3>2. got \o <<>> = got
      BY <1>2
    <3> QED  BY <3>1, <3>2
  <2>4. ~Awaited(work, m)
    BY <2>1 DEF Awaited
  <2> QED  BY <1>4, <2>3, <2>4 DEF WalkInv, Scanning, Kept
<1>5. \A i \in DOMAIN got : got[i] \in Tree \ Other
  BY <1>2, <1>3, ElementOfSeq
<1> QED  BY <1>4, <1>5 DEF Range, Holds

-----------------------------------------------------------------------------
(* The work of the producer, item by item.                                 *)

LEMMA EachIs ==
  ASSUME NEW do \in {"visit", "subtree", "report", "diff"}, NEW ds \in Seq(Tree), NEW depth \in Int
  PROVE  /\ Each(do, ds, depth) \in Seq(WorkItems) /\ DOMAIN Each(do, ds, depth) = DOMAIN ds
         /\ Dirs(Each(do, ds, depth)) = ds
         /\ \A i \in DOMAIN ds : Each(do, ds, depth)[i] = Item(do, ds[i], depth)
<1>1. DOMAIN ds = 1 .. Len(ds) /\ Len(ds) \in Nat /\ \A i \in 1 .. Len(ds) : ds[i] \in Tree
  BY ElementOfSeq
<1>2. \A i \in 1 .. Len(ds) : Item(do, ds[i], depth) \in WorkItems /\ Item(do, ds[i], depth).dir = ds[i]
  BY <1>1 DEF Item, WorkItems
<1> DEFINE e == Each(do, ds, depth)
<1>3. e = [i \in 1 .. Len(ds) |-> Item(do, ds[i], depth)]
  BY <1>1 DEF Each
<1>4. DOMAIN e = 1 .. Len(ds) /\ \A i \in 1 .. Len(ds) : e[i] = Item(do, ds[i], depth)
  BY <1>3
<1>5. e \in Seq(WorkItems)
  <2> HIDE DEF WorkItems
  <2> QED  BY <1>1, <1>2, <1>3
<1>6. Dirs(e) = [i \in 1 .. Len(ds) |-> ds[i]]
  BY <1>2, <1>4 DEF Dirs
<1>7. ds = [i \in 1 .. Len(ds) |-> ds[i]]
  BY <1>1
<1> QED  BY <1>1, <1>4, <1>5, <1>6, <1>7

LEMMA AnyDirsOf ==
  ASSUME NEW R, \A x \in R : x.dir \in Tree, NEW w \in Seq(R)
  PROVE  /\ Dirs(w) \in Seq(Tree) /\ DOMAIN Dirs(w) = DOMAIN w /\ Len(Dirs(w)) = Len(w)
         /\ \A i \in DOMAIN w : w[i] \in R /\ Dirs(w)[i] = w[i].dir
<1>1. DOMAIN w = 1 .. Len(w) /\ Len(w) \in Nat /\ \A i \in 1 .. Len(w) : w[i] \in R
  BY ElementOfSeq
<1>2. \A i \in 1 .. Len(w) : w[i].dir \in Tree
  BY <1>1
<1>3. Dirs(w) = [i \in 1 .. Len(w) |-> w[i].dir]
  BY <1>1 DEF Dirs
<1>4. Dirs(w) \in Seq(Tree) /\ Len(Dirs(w)) = Len(w)
  BY <1>1, <1>2, <1>3
<1> QED  BY <1>1, <1>3, <1>4

LEMMA AnyDirsConcat ==
  ASSUME NEW R, \A x \in R : x.dir \in Tree, NEW v \in Seq(R), NEW w \in Seq(R)
  PROVE  Dirs(v \o w) = Dirs(v) \o Dirs(w)
<1>1. v \o w \in Seq(R) /\ Len(v \o w) = Len(v) + Len(w) /\ Len(v) \in Nat /\ Len(w) \in Nat
  OBVIOUS
<1>2. /\ DOMAIN (v \o w) = 1 .. Len(v) + Len(w)
      /\ DOMAIN v = 1 .. Len(v) /\ DOMAIN w = 1 .. Len(w)
      /\ \A i \in DOMAIN v : (v \o w)[i] = v[i]
      /\ \A i \in DOMAIN (v \o w) : i \in DOMAIN v \/ (i - Len(v) \in DOMAIN w /\ (v \o w)[i] = w[i - Len(v)])
  BY ConcatIs
<1> DEFINE a == Dirs(v \o w)
           b == Dirs(v) \o Dirs(w)
<1>3. a \in Seq(Tree) /\ Len(a) = Len(v) + Len(w) /\ \A i \in 1 .. Len(v) + Len(w) : a[i] = (v \o w)[i].dir
  BY <1>1, <1>2, AnyDirsOf
<1>4. Dirs(v) \in Seq(Tree) /\ Len(Dirs(v)) = Len(v) /\ Dirs(w) \in Seq(Tree) /\ Len(Dirs(w)) = Len(w)
  BY AnyDirsOf
<1>9. /\ b \in Seq(Tree) /\ DOMAIN b = 1 .. Len(Dirs(v)) + Len(Dirs(w))
      /\ DOMAIN Dirs(v) = 1 .. Len(Dirs(v)) /\ DOMAIN Dirs(w) = 1 .. Len(Dirs(w))
      /\ \A i \in DOMAIN Dirs(v) : b[i] = Dirs(v)[i]
      /\ \A i \in DOMAIN b : i \in DOMAIN Dirs(v) \/ b[i] = Dirs(w)[i - Len(Dirs(v))]
  <2>1. Dirs(v) \in Seq(Tree) /\ Dirs(w) \in Seq(Tree)
    BY <1>4
  <2>2. ASSUME NEW s \in Seq(Tree), NEW t \in Seq(Tree)
        PROVE  /\ s \o t \in Seq(Tree) /\ DOMAIN (s \o t) = 1 .. Len(s) + Len(t)
               /\ DOMAIN s = 1 .. Len(s) /\ DOMAIN t = 1 .. Len(t)
               /\ \A i \in DOMAIN s : (s \o t)[i] = s[i]
               /\ \A i \in DOMAIN (s \o t) : i \in DOMAIN s \/ (s \o t)[i] = t[i - Len(s)]
    BY <2>2, ConcatIs
  <2> QED  BY <2>1, <2>2
<1> HIDE DEF b
<1>5. b \in Seq(Tree) /\ Len(b) = Len(v) + Len(w)
      /\ \A i \in 1 .. Len(v) : b[i] = Dirs(v)[i]
  BY <1>1, <1>4, <1>9
<1>8. ASSUME NEW i \in 1 .. Len(v) + Len(w), i > Len(v) PROVE b[i] = Dirs(w)[i - Len(v)]
  <2>1. i \in DOMAIN b /\ i \notin DOMAIN Dirs(v)
    BY <1>1, <1>4, <1>8, <1>9
  <2> QED  BY <1>4, <1>9, <2>1
<1> HIDE DEF a, b
<1>6. \A i \in 1 .. Len(v) + Len(w) : a[i] = b[i]
  <2> SUFFICES ASSUME NEW i \in 1 .. Len(v) + Len(w) PROVE a[i] = b[i]
    OBVIOUS
  <2>1. CASE i \in DOMAIN v
    <3>1. b[i] = Dirs(v)[i] /\ Dirs(v)[i] = v[i].dir
      BY <1>2, <1>5, <2>1, AnyDirsOf
    <3> QED  BY <1>2, <1>3, <2>1, <3>1
  <2>2. CASE i \notin DOMAIN v
    <3>1. i - Len(v) \in DOMAIN w /\ (v \o w)[i] = w[i - Len(v)] /\ i > Len(v)
      BY <1>1, <1>2, <2>2
    <3>2. b[i] = Dirs(w)[i - Len(v)]
      BY <1>8, <3>1
    <3>3. Dirs(w)[i - Len(v)] = w[i - Len(v)].dir
      BY <3>1, AnyDirsOf
    <3> QED  BY <1>3, <3>1, <3>2, <3>3
  <2> QED  BY <2>1, <2>2
<1>7. a = b
  BY <1>1, <1>3, <1>5, <1>6
<1> QED  BY <1>7 DEF a, b

LEMMA AnyDirsTail ==
  ASSUME NEW R, \A x \in R : x.dir \in Tree, NEW w \in Seq(R), w # <<>>
  PROVE  /\ Tail(w) \in Seq(R) /\ Head(w) \in R /\ Dirs(w) # <<>>
         /\ Head(Dirs(w)) = Head(w).dir /\ Tail(Dirs(w)) = Dirs(Tail(w))
<1>1. /\ Head(w) \in R /\ Tail(w) \in Seq(R)
      /\ DOMAIN Tail(w) = 1 .. Len(w) - 1 /\ DOMAIN w = 1 .. Len(w) /\ Len(w) \in Nat \ {0}
      /\ Head(w) = w[1] /\ \A i \in DOMAIN Tail(w) : Tail(w)[i] = w[i + 1]
  BY TailIs
<1>2. Dirs(w) \in Seq(Tree) /\ Len(Dirs(w)) = Len(w) /\ \A i \in DOMAIN w : Dirs(w)[i] = w[i].dir
  BY AnyDirsOf
<1>3. Dirs(w) # <<>>
  BY <1>1, <1>2
<1>4. /\ Tail(Dirs(w)) \in Seq(Tree) /\ DOMAIN Tail(Dirs(w)) = 1 .. Len(w) - 1 /\ Head(Dirs(w)) = Dirs(w)[1]
      /\ \A i \in DOMAIN Tail(Dirs(w)) : Tail(Dirs(w))[i] = Dirs(w)[i + 1]
  BY <1>2, <1>3, TailIs
<1>5. Dirs(Tail(w)) \in Seq(Tree) /\ DOMAIN Dirs(Tail(w)) = 1 .. Len(w) - 1
      /\ \A i \in 1 .. Len(w) - 1 : Dirs(Tail(w))[i] = Tail(w)[i].dir
  BY <1>1, AnyDirsOf
<1> DEFINE a == Tail(Dirs(w))
           b == Dirs(Tail(w))
<1>6. \A i \in 1 .. Len(w) - 1 : a[i] = b[i]
  <2> SUFFICES ASSUME NEW i \in 1 .. Len(w) - 1 PROVE a[i] = b[i]
    OBVIOUS
  <2>1. i + 1 \in DOMAIN w
    BY <1>1
  <2> QED  BY <1>1, <1>2, <1>4, <1>5, <2>1
<1> HIDE DEF a, b
<1>7. a = b
  BY <1>4, <1>5, <1>6 DEF a, b
<1> QED  BY <1>1, <1>2, <1>3, <1>4, <1>7 DEF a, b

LEMMA ItemsAreAt == \A x \in WorkItems : x.dir \in Tree
  BY DEF WorkItems

LEMMA DirsOf ==
  ASSUME NEW w \in Seq(WorkItems)
  PROVE  /\ Dirs(w) \in Seq(Tree) /\ DOMAIN Dirs(w) = DOMAIN w /\ Len(Dirs(w)) = Len(w)
         /\ \A i \in DOMAIN w : w[i] \in WorkItems /\ Dirs(w)[i] = w[i].dir
  BY ItemsAreAt, AnyDirsOf

LEMMA DirsConcat ==
  ASSUME NEW v \in Seq(WorkItems), NEW w \in Seq(WorkItems)
  PROVE  Dirs(v \o w) = Dirs(v) \o Dirs(w)
  BY ItemsAreAt, AnyDirsConcat

LEMMA DirsTail ==
  ASSUME NEW w \in Seq(WorkItems), w # <<>>
  PROVE  /\ Tail(w) \in Seq(WorkItems) /\ Head(w) \in WorkItems /\ Dirs(w) # <<>>
         /\ Head(Dirs(w)) = Head(w).dir /\ Tail(Dirs(w)) = Dirs(Tail(w))
  BY ItemsAreAt, AnyDirsTail

\* What is to be visited below a directory is what the depth leaves of it.
KidsOf(h, at) == IF at = 0 THEN <<>> ELSE Listing(h, 1)

LEMMA KidsAre ==
  ASSUME NEW depth \in Int, NEW h \in Within(depth)
  PROVE  /\ Children(h, Within(depth), KidsOf(h, At(depth, h))) /\ At(depth, h) \in Int
         /\ KidsOf(h, At(depth, h)) \in Seq(Tree)
         /\ \A i \in DOMAIN KidsOf(h, At(depth, h)) : At(depth, KidsOf(h, At(depth, h))[i]) = Levels(At(depth, h), 1)
<1> DEFINE kids == KidsOf(h, At(depth, h))
           S == Within(depth)
<1>1. h \in Tree /\ Len(h) \in Nat /\ (depth < 0 \/ Len(h) <= depth) /\ At(depth, h) \in Int
      /\ (depth < 0 => At(depth, h) = depth) /\ (~(depth < 0) => At(depth, h) = depth - Len(h))
  BY TreeIs DEF Within, At
<1>2. CASE At(depth, h) = 0
  <2>1. kids = <<>> /\ depth = Len(h) /\ ~(depth < 0)
    BY <1>1, <1>2 DEF KidsOf
  <2>2. ASSUME NEW e \in S, IsPrefix(h, e), h # e PROVE FALSE
    <3>1. Len(e) <= Len(h) /\ Len(e) \in Nat /\ e \in Paths /\ h \in Paths
      BY <1>1, <2>1, <2>2, TreeIs DEF Within
    <3> QED  BY <1>1, <2>2, <3>1, OnTheWay
  <2>3. DOMAIN kids = {} /\ kids \in Seq(S) /\ kids \in Seq(Tree)
    BY <2>1
  <2> HIDE DEF kids, S
  <2> QED  BY <1>1, <2>2, <2>3 DEF Children, Ascends, kids, S
<1>3. CASE At(depth, h) # 0
  <2>1. kids = Listing(h, 1)
    BY <1>3 DEF KidsOf
  <2>2. /\ kids \in Seq(Tree) /\ \A how : Ascends(how, kids)
        /\ \A i \in DOMAIN kids : Len(kids[i]) = Len(h) + 1 /\ IsPrefix(h, kids[i]) /\ kids[i] # h
        /\ \A e \in Tree : IsPrefix(h, e) /\ h # e => Holds(kids, Step1(h, e))
    BY <1>1, <2>1, ChildrenAre
  <2> HIDE DEF kids
  <2>3. depth < 0 \/ Len(h) + 1 <= depth
    BY <1>1, <1>3
  <2>4. DOMAIN kids = 1 .. Len(kids) /\ Len(kids) \in Nat /\ \A i \in DOMAIN kids : kids[i] \in Tree
    BY <2>2, ElementOfSeq
  <2>5. \A i \in DOMAIN kids : kids[i] \in S
    BY <2>2, <2>3, <2>4 DEF Within
  <2>6. kids \in Seq(S)
    <3> HIDE DEF S
    <3> QED  BY <2>2, <2>4, <2>5
  <2>7. S \subseteq Tree
    BY DEF Within
  <2>8. ASSUME NEW i \in DOMAIN kids PROVE At(depth, kids[i]) = Levels(At(depth, h), 1)
    <3>1. CASE depth < 0
      BY <1>1, <3>1 DEF At, Levels
    <3>2. CASE ~(depth < 0)
      <4>1. Len(kids[i]) = Len(h) + 1
        BY <2>2
      <4>2. At(depth, kids[i]) = depth - (Len(h) + 1) /\ At(depth, h) = depth - Len(h)
        BY <1>1, <3>2, <4>1 DEF At
      <4>3. depth - Len(h) > 0 /\ (depth - Len(h)) - 1 = depth - (Len(h) + 1)
        BY <1>1, <2>3, <3>2
      <4> QED  BY <4>2, <4>3 DEF Levels
    <3> QED  BY <3>1, <3>2
  <2>9. Children(h, S, kids)
    BY <2>2, <2>6, <2>7 DEF Children
  <2> QED  BY <1>1, <2>2, <2>8, <2>9 DEF kids
<1> QED  BY <1>2, <1>3

\* What a producer at work has, and what it leaves as it was.
LEMMA AtWork ==
  ASSUME WalkInv, producer = "run", output = <<>>, work # <<>>
  PROVE  /\ WalkTypeOK /\ WalkControls /\ consumer \in {"get", "drain"} /\ (Kept <=> consumer = "get")
         /\ work \in Seq(WorkItems) /\ Head(work) \in WorkItems /\ Tail(work) \in Seq(WorkItems) /\ Dirs(work) # <<>>
         /\ Head(Dirs(work)) = Head(work).dir /\ Tail(Dirs(work)) = Dirs(Tail(work))
         /\ Head(work).dir \in Tree /\ Head(work).depth \in Int
         /\ walk.depth \in Int /\ walk.how \in {"bfs", "dfs", "scan"}
         /\ got \o Plain(outQueue) \in Seq(Tree) /\ Made \in Seq(Tree) /\ Made = got \o Plain(outQueue)
<1>1. WalkTypeOK /\ WalkControls
  BY DEF WalkInv
<1>2. consumer \in {"get", "drain"}
  BY <1>1 DEF WalkControls, WalkTypeOK, Consumers
<1>3. work \in Seq(WorkItems) /\ walk.depth \in Int /\ walk.how \in {"bfs", "dfs", "scan"}
  BY <1>1, WalkTypes
<1>4. Head(work) \in WorkItems /\ Tail(work) \in Seq(WorkItems) /\ Dirs(work) # <<>>
      /\ Head(Dirs(work)) = Head(work).dir /\ Tail(Dirs(work)) = Dirs(Tail(work))
  BY <1>3, DirsTail
<1>5. Head(work).dir \in Tree /\ Head(work).depth \in Int
  BY <1>4 DEF WorkItems
<1>6. got \o Plain(outQueue) \in Seq(Tree) /\ Made \in Seq(Tree)
  BY <1>1, MadeIs
<1>7. Made = got \o Plain(outQueue)
  <2>1. Made = (got \o Plain(outQueue)) \o <<>>
    BY DEF Made
  <2> QED  BY <1>6, <2>1
<1> QED  BY <1>1, <1>2, <1>3, <1>4, <1>5, <1>6, <1>7 DEF Kept

\* What every turn of the producer keeps.
LEMMA ProduceKeeps ==
  ASSUME WalkInv, Produce, output' \in Seq(Tree), work' \in Seq(WorkItems)
  PROVE  /\ WalkTypeOK' /\ WalkControls' /\ Begun' /\ Made' = Made \o output'
         /\ walk' = walk /\ consumer' = consumer /\ (Kept' <=> Kept)
         /\ producer = "run" /\ output = <<>> /\ work # <<>> /\ got' = got /\ outQueue' = outQueue
<1>1. producer = "run" /\ output = <<>> /\ work # <<>> /\ UNCHANGED <<walk, producer, outQueue, consumer, got>>
  BY DEF Produce
<1>2. WalkTypeOK /\ WalkControls /\ consumer \in {"get", "drain"} /\ Made = got \o Plain(outQueue)
  BY <1>1, AtWork
<1>3. WalkTypeOK'
  BY <1>1, <1>2 DEF WalkTypeOK, WorkItems
<1>4. WalkControls'
  BY <1>1, <1>2 DEF WalkControls
<1>5. Kept' <=> Kept
  BY <1>1 DEF Kept
<1>6. Begun'
  BY <1>1, <1>5 DEF WalkInv, Begun
<1>7. Made' = Made \o output'
  BY <1>1, <1>2 DEF Made
<1> QED  BY <1>1, <1>3, <1>4, <1>5, <1>6, <1>7

LEMMA VisitKeepsInv ==
  ASSUME WalkInv, Produce, Visit(Head(work))
  PROVE  WalkInv'
<1> DEFINE item == Head(work)
           h    == item.dir
           S    == Within(walk.depth)
           kids == KidsOf(h, At(walk.depth, h))
           more == IF item.depth = 0 THEN <<>> ELSE Each("visit", Listing(h, 1), Levels(item.depth, 1))
<1>1. producer = "run" /\ output = <<>> /\ work # <<>>
  BY DEF Produce
<1>2. /\ WalkTypeOK /\ WalkControls /\ consumer \in {"get", "drain"} /\ (Kept <=> consumer = "get")
      /\ work \in Seq(WorkItems) /\ item \in WorkItems /\ Tail(work) \in Seq(WorkItems) /\ Dirs(work) # <<>>
      /\ Head(Dirs(work)) = h /\ Tail(Dirs(work)) = Dirs(Tail(work))
      /\ h \in Tree /\ item.depth \in Int
      /\ walk.depth \in Int /\ walk.how \in {"bfs", "dfs", "scan"} /\ Made \in Seq(Tree)
  BY <1>1, AtWork
<1>3. item.do = "visit"
  BY DEF Visit
<1>4. walk.how # "scan"
  <2> SUFFICES ASSUME walk.how = "scan" PROVE FALSE
    OBVIOUS
  <2>1. work \in Seq(ScanItems(walk.depth))
    BY <1>2 DEF WalkInv, Scanned
  <2>2. item \in ScanItems(walk.depth)
    BY <1>1, <2>1, TailIs
  <2> QED  BY <1>3, <2>2 DEF ScanItems
<1>5. work \in Seq(VisitItems(walk.depth))
  BY <1>2, <1>4 DEF WalkInv, Visits
<1>6. item \in VisitItems(walk.depth) /\ Tail(work) \in Seq(VisitItems(walk.depth))
  BY <1>1, <1>5, TailIs
<1>7. h \in S /\ item.depth = At(walk.depth, h)
  BY <1>6 DEF VisitItems
<1>8. /\ Children(h, S, kids) /\ At(walk.depth, h) \in Int /\ kids \in Seq(Tree)
      /\ \A i \in DOMAIN kids : At(walk.depth, kids[i]) = Levels(item.depth, 1)
  BY <1>2, <1>7, KidsAre
<1>9. more = Each("visit", kids, Levels(item.depth, 1))
  <2>1. Each("visit", <<>>, Levels(item.depth, 1)) = <<>>
    BY DEF Each
  <2> QED  BY <1>7, <2>1 DEF KidsOf
<1>10. Levels(item.depth, 1) \in Int
  BY <1>2 DEF Levels
<1>11. /\ work' = IF walk.how = "bfs" THEN Tail(work) \o more ELSE more \o Tail(work)
       /\ output' = <<h>>
  BY DEF Visit
<1> HIDE DEF item, h, S, kids, more
<1>12. more \in Seq(WorkItems) /\ Dirs(more) = kids /\ DOMAIN more = DOMAIN kids
       /\ \A i \in DOMAIN kids : more[i] = Item("visit", kids[i], Levels(item.depth, 1))
  BY <1>8, <1>9, <1>10, EachIs
<1>13. \A i \in DOMAIN kids : kids[i] \in S
  BY <1>8, ElementOfSeq DEF Children
<1>14. more \in Seq(VisitItems(walk.depth))
  <2>1. \A i \in DOMAIN more : more[i] \in VisitItems(walk.depth)
    <3> SUFFICES ASSUME NEW i \in DOMAIN more PROVE more[i] \in VisitItems(walk.depth)
      OBVIOUS
    <3>1. more[i] \in WorkItems /\ more[i] = Item("visit", kids[i], Levels(item.depth, 1)) /\ kids[i] \in S
      BY <1>12, <1>13, ElementOfSeq
    <3>2. more[i].do = "visit" /\ more[i].dir = kids[i] /\ more[i].depth = At(walk.depth, kids[i])
      BY <1>8, <1>12, <3>1 DEF Item
    <3> QED  BY <3>1, <3>2 DEF VisitItems, S
  <2> QED  BY <1>12, <2>1
<1>15. work' \in Seq(VisitItems(walk.depth)) /\ work' \in Seq(WorkItems) /\ output' \in Seq(Tree)
  <2>1. \A x \in Seq(VisitItems(walk.depth)), y \in Seq(VisitItems(walk.depth)) : x \o y \in Seq(VisitItems(walk.depth))
    OBVIOUS
  <2>2. work' \in Seq(VisitItems(walk.depth))
    BY <1>6, <1>11, <1>14, <2>1
  <2>3. \A x \in Seq(WorkItems), y \in Seq(WorkItems) : x \o y \in Seq(WorkItems)
    <3> HIDE DEF WorkItems
    <3> QED  OBVIOUS
  <2>4. work' \in Seq(WorkItems)
    BY <1>2, <1>11, <1>12, <2>3
  <2>5. output' \in Seq(Tree)
    BY <1>2, <1>11
  <2> QED  BY <2>2, <2>4, <2>5
<1>16. /\ WalkTypeOK' /\ WalkControls' /\ Begun' /\ Made' = Made \o <<h>>
       /\ walk' = walk /\ consumer' = consumer /\ (Kept' <=> Kept)
  BY <1>11, <1>15, ProduceKeeps
<1>17. Visits'
  BY <1>15, <1>16 DEF Visits
<1>18. Scanned' /\ Scanning'
  BY <1>4, <1>16 DEF Scanned, Scanning
<1>19. ASSUME Kept
       PROVE  /\ Frontier(walk.how, S, Made', Dirs(work'))
              /\ walk.how = "bfs" => Found(Made', Dirs(work'))
              /\ walk.how = "dfs" => Apart(Dirs(work'))
  <2>1. /\ Frontier(walk.how, S, Made, Dirs(work)) /\ S \in SUBSET Paths
        /\ walk.how = "bfs" => Found(Made, Dirs(work))
        /\ walk.how = "dfs" => Apart(Dirs(work))
    BY <1>2, <1>4, <1>19, WithinIs DEF WalkInv, Visiting, S
  <2>2. CASE walk.how = "bfs"
    <3>1. Dirs(work') = Tail(Dirs(work)) \o kids
      BY <1>2, <1>11, <1>12, <2>2, DirsConcat
    <3> QED  BY <1>2, <1>8, <1>16, <2>1, <2>2, <3>1, VisitFirst
  <2>3. CASE walk.how = "dfs"
    <3>1. Dirs(work') = kids \o Tail(Dirs(work))
      BY <1>2, <1>11, <1>12, <2>3, DirsConcat
    <3> QED  BY <1>2, <1>8, <1>16, <2>1, <2>3, <3>1, VisitDeep
  <2> QED  BY <1>2, <1>4, <2>2, <2>3
<1>20. Visiting'
  BY <1>16, <1>19 DEF Visiting, S
<1> QED  BY <1>16, <1>17, <1>18, <1>20 DEF WalkInv

LEMMA AwaitedIs ==
  ASSUME NEW w, NEW m
  PROVE  Awaited(w, m) <=> \E x : Holds(w, x) /\ Covers(x, m)
  BY DEF Awaited, Holds

LEMMA AwaitedConcat ==
  ASSUME NEW S, NEW v \in Seq(S), NEW w \in Seq(S), NEW m
  PROVE  Awaited(v \o w, m) <=> Awaited(v, m) \/ Awaited(w, m)
<1>1. \A x : Holds(v \o w, x) <=> Holds(v, x) \/ Holds(w, x)
  BY ConcatHolds
<1> QED  BY <1>1, AwaitedIs

LEMMA AwaitedHead ==
  ASSUME NEW S, NEW w \in Seq(S), w # <<>>, NEW m, Awaited(w, m)
  PROVE  Covers(Head(w), m) \/ Awaited(Tail(w), m)
<1>1. /\ w = <<Head(w)>> \o Tail(w) /\ <<Head(w)>> \in Seq(S) /\ Tail(w) \in Seq(S)
  BY TailIs
<1>2. Awaited(<<Head(w)>>, m) \/ Awaited(Tail(w), m)
  <2>1. Awaited(<<Head(w)>> \o Tail(w), m)
    BY <1>1
  <2> HIDE <1>1
  <2>2. <<Head(w)>> \in Seq(S) /\ Tail(w) \in Seq(S)
    BY <1>1
  <2> QED  BY <2>1, <2>2, AwaitedConcat
<1> QED  BY <1>2 DEF Awaited

\* Nothing below a missing directory is there.
LEMMA BelowMissing ==
  ASSUME NEW h \in Tree \ Other, NEW e \in Tree, IsPrefix(h, e)
  PROVE  e \in Tree \ Other
<1> SUFFICES ASSUME e \in Other PROVE FALSE
  OBVIOUS
<1>1. e \in Paths /\ h \in Paths /\ Other \in SUBSET Paths /\ Len(h) \in Nat /\ Len(e) \in Nat
  BY TreeIs
<1>2. Len(h) \in 0 .. Len(e) /\ \A k \in 1 .. Len(h) : h[k] = e[k]
  BY <1>1, PrefixIs
<1>3. SubSeq(e, 1, Len(h)) \in Other
  BY <1>1, <1>2, TreeAssumption, WaysAreIn
<1>4. SubSeq(e, 1, Len(h)) = h
  <2>1. /\ SubSeq(e, 1, Len(h)) \in Paths /\ Len(SubSeq(e, 1, Len(h))) = Len(h)
        /\ \A i \in 1 .. Len(h) : SubSeq(e, 1, Len(h))[i] = e[i]
    BY <1>1, <1>2, CutIs
  <2> QED  BY <1>1, <1>2, <2>1, SamePath
<1> QED  BY <1>3, <1>4

LEMMA ScanKeeps ==
  ASSUME WalkInv, Produce, walk.how = "scan",
         work' \in Seq(ScanItems(walk.depth)), output' \in Seq(Tree \ Other),
         walk.depth = -1 =>
           \A m \in Tree \ Other : Covers(Head(work), m) => Holds(output', m) \/ Awaited(work', m),
         \A m : Awaited(Tail(work), m) => Awaited(work', m)
  PROVE  WalkInv'
<1>1. work' \in Seq(WorkItems) /\ output' \in Seq(Tree)
  <2>1. ScanItems(walk.depth) \subseteq WorkItems
    BY DEF ScanItems
  <2> HIDE DEF WorkItems
  <2> QED  BY <2>1
<1>2. /\ WalkTypeOK' /\ WalkControls' /\ Begun' /\ Made' = Made \o output'
      /\ walk' = walk /\ consumer' = consumer /\ (Kept' <=> Kept)
      /\ producer = "run" /\ output = <<>> /\ work # <<>> /\ got' = got /\ outQueue' = outQueue
  BY <1>1, ProduceKeeps
<1>3. Made \in Seq(Tree) /\ work \in Seq(WorkItems) /\ consumer # "off"
  BY <1>2, AtWork
<1>4. Visits' /\ Visiting'
  BY <1>2 DEF Visits, Visiting
<1>5. Scanned'
  BY <1>2, <1>3 DEF WalkInv, Scanned
<1>6. Scanning'
  <2> SUFFICES ASSUME walk.depth = -1, Kept, NEW m \in Tree \ Other
               PROVE  Holds(Made', m) \/ Awaited(work', m)
    BY <1>2 DEF Scanning
  <2>1. Holds(Made, m) \/ Awaited(work, m)
    BY DEF WalkInv, Scanning
  <2>2. Holds(Made, m) \/ Covers(Head(work), m) \/ Awaited(Tail(work), m)
    BY <1>2, <1>3, <2>1, AwaitedHead
  <2>3. Holds(Made', m) <=> Holds(Made, m) \/ Holds(output', m)
    BY <1>1, <1>2, <1>3, ConcatHolds
  <2> QED  BY <2>2, <2>3
<1> QED  BY <1>2, <1>4, <1>5, <1>6 DEF WalkInv

\* What a scan has in hand.
LEMMA AtScan ==
  ASSUME WalkInv, Produce, Head(work).do # "visit"
  PROVE  /\ walk.how = "scan" /\ work # <<>> /\ Head(work) \in ScanItems(walk.depth)
         /\ Tail(work) \in Seq(ScanItems(walk.depth))
         /\ Head(work).dir \in Tree /\ Head(work).depth \in Int /\ walk.depth \in Int
<1>1. producer = "run" /\ output = <<>> /\ work # <<>>
  BY DEF Produce
<1>2. /\ consumer # "off" /\ Head(work).dir \in Tree /\ Head(work).depth \in Int /\ walk.depth \in Int
  BY <1>1, AtWork
<1>3. walk.how = "scan"
  <2> SUFFICES ASSUME walk.how # "scan" PROVE FALSE
    OBVIOUS
  <2>1. work \in Seq(VisitItems(walk.depth))
    BY <1>2 DEF WalkInv, Visits
  <2>2. Head(work) \in VisitItems(walk.depth)
    BY <1>1, <2>1, TailIs
  <2> QED  BY <2>2 DEF VisitItems
<1>4. work \in Seq(ScanItems(walk.depth))
  BY <1>2, <1>3 DEF WalkInv, Scanned
<1> QED  BY <1>1, <1>2, <1>3, <1>4, TailIs

LEMMA ReportKeepsInv ==
  ASSUME WalkInv, Produce, Report(Head(work))
  PROVE  WalkInv'
<1>1. Head(work).do = "report" /\ output' = <<Head(work).dir>> /\ work' = Tail(work)
  BY DEF Report
<1>2. /\ walk.how = "scan" /\ Head(work) \in ScanItems(walk.depth)
      /\ Tail(work) \in Seq(ScanItems(walk.depth)) /\ Head(work).dir \in Tree
  BY <1>1, AtScan
<1>3. output' \in Seq(Tree \ Other)
  BY <1>1, <1>2 DEF ScanItems
<1>4. ASSUME NEW m, Covers(Head(work), m) PROVE Holds(output', m)
  BY <1>1, <1>4 DEF Covers, Holds
<1> QED  BY <1>1, <1>2, <1>3, <1>4, ScanKeeps

LEMMA EachScanned ==
  ASSUME NEW do \in {"subtree", "diff"}, NEW ds \in Seq(Tree), NEW at \in Int, NEW depth \in Int,
         depth = -1 => at = -1, \A i \in DOMAIN ds : do = "diff" <=> ds[i] \in Other
  PROVE  /\ Each(do, ds, at) \in Seq(ScanItems(depth))
         /\ \A e, m : Holds(ds, e) /\ IsStrictPrefix(e, m) => Awaited(Each(do, ds, at), m)
<1>1. /\ Each(do, ds, at) \in Seq(WorkItems) /\ DOMAIN Each(do, ds, at) = DOMAIN ds
      /\ \A i \in DOMAIN ds : Each(do, ds, at)[i] = Item(do, ds[i], at)
  BY EachIs
<1> DEFINE w == Each(do, ds, at)
<1> HIDE DEF w
<1>2. \A i \in DOMAIN w : w[i] \in ScanItems(depth)
  <2> SUFFICES ASSUME NEW i \in DOMAIN w PROVE w[i] \in ScanItems(depth)
    OBVIOUS
  <2>1. w[i] \in WorkItems /\ w[i] = Item(do, ds[i], at) /\ i \in DOMAIN ds
    BY <1>1, ElementOfSeq DEF w
  <2>2. w[i].do = do /\ w[i].dir = ds[i] /\ w[i].depth = at
    BY <2>1 DEF Item
  <2> QED  BY <2>1, <2>2 DEF ScanItems
<1>3. w \in Seq(ScanItems(depth))
  <2>1. w \in Seq(WorkItems)
    BY <1>1 DEF w
  <2> QED  BY <1>2, <2>1
<1>4. ASSUME NEW e, NEW m, Holds(ds, e), IsStrictPrefix(e, m) PROVE Awaited(w, m)
  <2>1. PICK i \in DOMAIN ds : ds[i] = e
    BY <1>4 DEF Holds
  <2>2. i \in DOMAIN w /\ w[i] = Item(do, e, at)
    BY <1>1, <2>1 DEF w
  <2>3. Covers(w[i], m)
    BY <1>4, <2>2 DEF Covers, Item
  <2> QED  BY <2>2, <2>3 DEF Awaited
<1> QED  BY <1>3, <1>4 DEF w

LEMMA StepIsBelow ==
  ASSUME NEW h \in Tree, NEW m \in Tree, IsStrictPrefix(h, m), NEW n \in Nat \ {0}
  PROVE  /\ Step1(h, m) \in Below(h, n) /\ Step1(h, m) \in Tree
         /\ Step1(h, m) = m \/ IsStrictPrefix(Step1(h, m), m)
<1> DEFINE c == Step1(h, m)
<1>1. h \in Paths /\ m \in Paths /\ IsPrefix(h, m) /\ h # m /\ Len(h) \in Nat
  BY TreeIs DEF IsStrictPrefix
<1>2. Len(h) + 1 \in 1 .. Len(m) /\ Len(c) = Len(h) + 1 /\ IsPrefix(h, c) /\ h # c /\ IsPrefix(c, m)
  BY <1>1, OnTheWay
<1>3. c \in Tree
  <2>1. Len(h) + 1 \in 0 .. Len(m)
    BY <1>2
  <2> QED  BY <1>1, <2>1, TreeIs, TreeAssumption, WaysAreIn DEF Step1
<1> HIDE DEF c
<1>4. Len(c) <= Len(h) + n
  BY <1>1, <1>2
<1> QED  BY <1>2, <1>3, <1>4 DEF c, Below, IsStrictPrefix

LEMMA SubtreeKeepsInv ==
  ASSUME WalkInv, Produce, Subtree(Head(work))
  PROVE  WalkInv'
<1> DEFINE item == Head(work)
           h    == item.dir
           kids == Listing(h, 1)
           more == IF item.depth = 0 THEN <<>> ELSE Each("subtree", kids, Levels(item.depth, 1))
           D    == walk.depth
<1>1. item.do = "subtree" /\ output' = kids /\ work' = more \o Tail(work)
  BY DEF Subtree
<1>2. /\ walk.how = "scan" /\ item \in ScanItems(D) /\ Tail(work) \in Seq(ScanItems(D))
      /\ h \in Tree /\ item.depth \in Int /\ D \in Int
  BY <1>1, AtScan
<1> HIDE DEF item, h, kids, more, D
<1>3. h \in Tree \ Other /\ (D = -1 => item.depth = -1)
  BY <1>1, <1>2 DEF ScanItems, h
<1>4. kids \in Seq(Tree) /\ \A i \in DOMAIN kids : IsPrefix(h, kids[i])
  BY <1>2, ChildrenAre DEF kids
<1>5. \A i \in DOMAIN kids : kids[i] \in Tree \ Other
  BY <1>3, <1>4, ElementOfSeq, BelowMissing
<1>6. kids \in Seq(Tree \ Other)
  BY <1>4, <1>5
<1>7. Levels(item.depth, 1) \in Int /\ (D = -1 => Levels(item.depth, 1) = -1)
  BY <1>2, <1>3 DEF Levels
<1>8. /\ Each("subtree", kids, Levels(item.depth, 1)) \in Seq(ScanItems(D))
      /\ \A e, m : Holds(kids, e) /\ IsStrictPrefix(e, m) => Awaited(Each("subtree", kids, Levels(item.depth, 1)), m)
  BY <1>2, <1>4, <1>5, <1>7, EachScanned
<1>9. more \in Seq(ScanItems(D))
  <2>1. <<>> \in Seq(ScanItems(D))
    OBVIOUS
  <2> QED  BY <1>8, <2>1 DEF more
<1>10. \A m : Awaited(work', m) <=> Awaited(more, m) \/ Awaited(Tail(work), m)
  BY <1>1, <1>2, <1>9, AwaitedConcat
<1>11. work' \in Seq(ScanItems(D))
  <2>1. \A x \in Seq(ScanItems(D)), y \in Seq(ScanItems(D)) : x \o y \in Seq(ScanItems(D))
    OBVIOUS
  <2> QED  BY <1>1, <1>2, <1>9, <2>1
<1>12. ASSUME D = -1, NEW m \in Tree \ Other, Covers(item, m) PROVE Holds(kids, m) \/ Awaited(more, m)
  <2>1. IsStrictPrefix(h, m)
    BY <1>1, <1>12 DEF Covers, h
  <2>2. Step1(h, m) = m \/ IsStrictPrefix(Step1(h, m), m)
    BY <1>2, <2>1, StepIsBelow
  <2>3. Holds(kids, Step1(h, m))
    BY <1>2, <2>1, ChildrenAre DEF kids, IsStrictPrefix
  <2>4. item.depth # 0
    BY <1>3, <1>12
  <2> QED  BY <1>8, <2>2, <2>3, <2>4 DEF more
<1> QED  BY <1>1, <1>2, <1>6, <1>10, <1>11, <1>12, ScanKeeps DEF D, item

\* What a scan has to do for a directory that is missing, and for all of them.
Reports(e, deeper, depth) == <<Item("report", e, 0)>> \o IF deeper THEN <<Item("subtree", e, depth)>> ELSE <<>>
AllReports(es, deeper, depth) == [i \in DOMAIN es |-> Reports(es[i], deeper, depth)]

LEMMA ReportsAre ==
  ASSUME NEW e \in Tree \ Other, NEW deeper \in BOOLEAN, NEW at \in Int, NEW depth \in Int, depth = -1 => at = -1
  PROVE  /\ Reports(e, deeper, at) \in Seq(ScanItems(depth))
         /\ Awaited(Reports(e, deeper, at), e)
         /\ \A m : deeper /\ IsStrictPrefix(e, m) => Awaited(Reports(e, deeper, at), m)
<1> DEFINE r == Item("report", e, 0)
           s == Item("subtree", e, at)
<1>1. r \in ScanItems(depth) /\ s \in ScanItems(depth)
  BY DEF Item, ScanItems, WorkItems
<1>2. Covers(r, e) /\ \A m : IsStrictPrefix(e, m) => Covers(s, m)
  BY DEF Item, Covers
<1> HIDE DEF r, s
<1> DEFINE more == IF deeper THEN <<s>> ELSE <<>>
<1>3. Reports(e, deeper, at) = <<r>> \o more
  BY DEF Reports, r, s
<1>4. <<r>> \in Seq(ScanItems(depth)) /\ more \in Seq(ScanItems(depth))
  BY <1>1
<1>5. Awaited(<<r>>, e) /\ \A m : deeper /\ IsStrictPrefix(e, m) => Awaited(more, m)
  BY <1>2 DEF Awaited
<1> HIDE DEF more
<1>6. <<r>> \o more \in Seq(ScanItems(depth))
  BY <1>4, ConcatIs
<1> QED  BY <1>3, <1>4, <1>5, <1>6, AwaitedConcat

LEMMA AllReportsAre ==
  ASSUME NEW es \in Seq(Tree), \A i \in DOMAIN es : es[i] \notin Other,
         NEW deeper \in BOOLEAN, NEW at \in Int, NEW depth \in Int, depth = -1 => at = -1
  PROVE  /\ FlattenSeq(AllReports(es, deeper, at)) \in Seq(ScanItems(depth))
         /\ \A e : Holds(es, e) => Awaited(FlattenSeq(AllReports(es, deeper, at)), e)
         /\ \A e, m : deeper /\ Holds(es, e) /\ IsStrictPrefix(e, m) =>
                        Awaited(FlattenSeq(AllReports(es, deeper, at)), m)
<1> DEFINE ss == AllReports(es, deeper, at)
           I  == ScanItems(depth)
<1>1. DOMAIN es = 1 .. Len(es) /\ Len(es) \in Nat /\ \A i \in DOMAIN es : es[i] \in Tree \ Other
  BY ElementOfSeq
<1>2. ss = [i \in 1 .. Len(es) |-> Reports(es[i], deeper, at)]
  BY <1>1 DEF AllReports
<1>3. \A i \in 1 .. Len(es) : Reports(es[i], deeper, at) \in Seq(I)
  BY <1>1, ReportsAre
<1> HIDE DEF I
<1>4. ss \in Seq(Seq(I)) /\ DOMAIN ss = DOMAIN es /\ \A i \in DOMAIN es : ss[i] = Reports(es[i], deeper, at)
  <2>1. ss \in Seq(Seq(I))
    BY <1>1, <1>2, <1>3
  <2> QED  BY <1>1, <1>2, <2>1
<1> HIDE DEF ss
<1>5. FlattenSeq(ss) \in Seq(I) /\ \A x : Holds(FlattenSeq(ss), x) <=> \E i \in DOMAIN ss : Holds(ss[i], x)
  BY <1>4, FlattenHolds
<1>6. ASSUME NEW i \in DOMAIN es, NEW m, Awaited(ss[i], m) PROVE Awaited(FlattenSeq(ss), m)
  <2>1. PICK x : Holds(ss[i], x) /\ Covers(x, m)
    BY <1>6, AwaitedIs
  <2>2. Holds(FlattenSeq(ss), x)
    BY <1>4, <1>5, <2>1
  <2> QED  BY <2>1, <2>2, AwaitedIs
<1>7. ASSUME NEW e, Holds(es, e) PROVE Awaited(FlattenSeq(ss), e)
  <2>1. PICK i \in DOMAIN es : es[i] = e
    BY <1>7 DEF Holds
  <2>2. Awaited(ss[i], e)
    BY <1>1, <1>4, <2>1, ReportsAre
  <2> QED  BY <1>6, <2>2
<1>8. ASSUME NEW e, NEW m, deeper, Holds(es, e), IsStrictPrefix(e, m) PROVE Awaited(FlattenSeq(ss), m)
  <2>1. PICK i \in DOMAIN es : es[i] = e
    BY <1>8 DEF Holds
  <2>2. Awaited(ss[i], m)
    BY <1>1, <1>4, <1>8, <2>1, ReportsAre
  <2> QED  BY <1>6, <2>2
<1> QED  BY <1>5, <1>7, <1>8 DEF ss, I

LEMMA DiffKeepsInv ==
  ASSUME WalkInv, Produce, Diff(Head(work))
  PROVE  WalkInv'
<1> DEFINE item     == Head(work)
           h        == item.dir
           levels   == IF item.depth > 1 \/ item.depth = -1 THEN 2 ELSE 1
           at       == Levels(item.depth, levels)
           deeper   == at > 0 \/ at = -1
           entries  == Below(h, levels)
           missing  == InOrder("dfs", entries \ Other)
           matching == InOrder("dfs", entries \cap Other)
           flat     == FlattenSeq(AllReports(missing, deeper, at))
           diffs    == IF deeper THEN Each("diff", matching, at) ELSE <<>>
           D        == walk.depth
<1>1. item.do = "diff" /\ output' = <<>> /\ work' = flat \o diffs \o Tail(work)
  BY DEF Diff, AllReports, Reports
<1>2. /\ walk.how = "scan" /\ item \in ScanItems(D) /\ Tail(work) \in Seq(ScanItems(D))
      /\ h \in Tree /\ item.depth \in Int /\ D \in Int
  BY <1>1, AtScan
<1>3. levels \in Nat \ {0}
  OBVIOUS
<1>4. at \in Int /\ deeper \in BOOLEAN /\ (item.depth = -1 => at = -1)
  BY <1>2, <1>3 DEF Levels
<1>5. item.depth = -1 => deeper
  BY <1>4
<1> HIDE DEF item, h, levels, at, deeper
<1>6. /\ missing \in Seq(Tree) /\ \A i \in DOMAIN missing : missing[i] \in entries \ Other
      /\ \A e \in entries \ Other : Holds(missing, e)
  <2>1. entries \ Other \in SUBSET Below(h, levels)
    OBVIOUS
  <2> HIDE DEF entries
  <2> QED  BY <1>2, <1>3, <2>1, ListingIs
<1>7. /\ matching \in Seq(Tree) /\ \A i \in DOMAIN matching : matching[i] \in entries \cap Other
      /\ \A e \in entries \cap Other : Holds(matching, e)
  <2>1. entries \cap Other \in SUBSET Below(h, levels)
    OBVIOUS
  <2> HIDE DEF entries
  <2> QED  BY <1>2, <1>3, <2>1, ListingIs
<1> HIDE DEF missing, matching, D
<1>8. D = -1 => item.depth = -1 /\ at = -1 /\ deeper
  BY <1>1, <1>2, <1>4, <1>5 DEF ScanItems
<1>9. /\ flat \in Seq(ScanItems(D))
      /\ \A e : Holds(missing, e) => Awaited(flat, e)
      /\ \A e, m : deeper /\ Holds(missing, e) /\ IsStrictPrefix(e, m) => Awaited(flat, m)
  BY <1>2, <1>4, <1>6, <1>8, AllReportsAre
<1>10. /\ Each("diff", matching, at) \in Seq(ScanItems(D))
       /\ \A e, m : Holds(matching, e) /\ IsStrictPrefix(e, m) => Awaited(Each("diff", matching, at), m)
  BY <1>2, <1>4, <1>7, <1>8, EachScanned
<1>11. diffs \in Seq(ScanItems(D))
  <2>1. <<>> \in Seq(ScanItems(D))
    OBVIOUS
  <2> QED  BY <1>10, <2>1
<1> HIDE DEF flat
<1>12. flat \o diffs \in Seq(ScanItems(D)) /\ work' \in Seq(ScanItems(D))
  <2>1. \A x \in Seq(ScanItems(D)), y \in Seq(ScanItems(D)) : x \o y \in Seq(ScanItems(D))
    OBVIOUS
  <2> HIDE DEF diffs
  <2> QED  BY <1>1, <1>2, <1>9, <1>11, <2>1
<1>13. \A m : Awaited(work', m) <=> Awaited(flat, m) \/ Awaited(diffs, m) \/ Awaited(Tail(work), m)
  <2> HIDE DEF diffs
  <2>1. \A m : Awaited(flat \o diffs, m) <=> Awaited(flat, m) \/ Awaited(diffs, m)
    BY <1>9, <1>11, AwaitedConcat
  <2>2. \A m : Awaited((flat \o diffs) \o Tail(work), m) <=> Awaited(flat \o diffs, m) \/ Awaited(Tail(work), m)
    BY <1>2, <1>12, AwaitedConcat
  <2> QED  BY <1>1, <2>1, <2>2
<1>14. ASSUME D = -1, NEW m \in Tree \ Other, Covers(item, m) PROVE Awaited(work', m)
  <2>1. IsStrictPrefix(h, m)
    BY <1>1, <1>14 DEF Covers, h
  <2> DEFINE c == Step1(h, m)
  <2>2. c \in entries /\ (c = m \/ IsStrictPrefix(c, m))
    BY <1>2, <1>3, <2>1, StepIsBelow
  <2> HIDE DEF c, entries
  <2>3. CASE c \in Other
    <3>1. IsStrictPrefix(c, m) /\ Holds(matching, c)
      BY <1>7, <1>14, <2>2, <2>3
    <3>2. Awaited(diffs, m)
      BY <1>8, <1>10, <1>14, <3>1
    <3> QED  BY <1>13, <3>2
  <2>4. CASE c \notin Other
    <3>1. Holds(missing, c)
      BY <1>6, <2>2, <2>4
    <3>2. Awaited(flat, m)
      BY <1>8, <1>9, <1>14, <2>2, <3>1
    <3> QED  BY <1>13, <3>2
  <2> QED  BY <2>3, <2>4
<1>15. output' \in Seq(Tree \ Other)
  BY <1>1
<1> QED  BY <1>2, <1>12, <1>13, <1>14, <1>15, ScanKeeps DEF D, item

LEMMA ProduceKeepsInv == WalkInv /\ Produce => WalkInv'
  BY VisitKeepsInv, SubtreeKeepsInv, ReportKeepsInv, DiffKeepsInv DEF Produce

-----------------------------------------------------------------------------
(* The steps of the producer, of the queue and of the generator.           *)

WalkNext == WalkStep \/ WalkCall \/ ListFails

LEMMA WalkInitially == WalkInit => WalkInv
<1> SUFFICES ASSUME WalkInit PROVE WalkInv
  OBVIOUS
<1> USE DEF WalkInit
<1>1. WalkTypeOK
  BY TreeAssumption DEF WalkTypeOK, Hows, Producers, Consumers
<1>2. WalkControls
  BY DEF WalkControls
<1> QED  BY <1>1, <1>2 DEF WalkInv, Visits, Visiting, Scanned, Scanning, Begun, Kept

\* The first thing a walk has to do is the root, and it is all there is.
LEMMA RootIsAll ==
  ASSUME NEW how, NEW depth \in Int
  PROVE  /\ Frontier(how, Within(depth), <<>>, <<<<>>>>) /\ Found(<<>>, <<<<>>>>) /\ Apart(<<<<>>>>)
<1>1. <<>> \in Within(depth) /\ Within(depth) \subseteq Paths
  <2>1. Len(<<>>) = 0
    OBVIOUS
  <2> QED  BY <2>1, TreeIs DEF Within
<1> DEFINE D == <<>>
           W == <<<<>>>>
<1>2. D \in Seq(Within(depth)) /\ W \in Seq(Within(depth)) /\ DOMAIN W = {1} /\ W[1] = <<>> /\ D \o W = W
  <2>1. \A x \in Seq(Within(depth)) : <<>> \o x = x
    OBVIOUS
  <2>2. W \in Seq(Within(depth)) /\ DOMAIN W = {1} /\ W[1] = <<>>
    BY <1>1
  <2> QED  BY <2>1, <2>2
<1> HIDE DEF D, W
<1>3. Ascends(how, D \o W)
  BY <1>2 DEF Ascends
<1>4. \A d \in Within(depth) : Reached(W, d)
  <2>1. \A d \in Paths : IsPrefix(<<>>, d)
    <3> SUFFICES ASSUME NEW d \in Paths PROVE IsPrefix(<<>>, d)
      OBVIOUS
    <3>1. <<>> \in Paths /\ Len(<<>>) = 0 /\ Len(d) \in Nat
      BY DEF Paths
    <3> QED  BY <3>1, PrefixIs
  <2> QED  BY <1>1, <1>2, <2>1 DEF Reached
<1> QED  BY <1>2, <1>3, <1>4 DEF Frontier, Found, Apart, D, W

LEMMA StartKeepsInv ==
  ASSUME WalkInv, NEW how \in Hows, NEW depth \in Depths, StartWalk(how, depth)
  PROVE  WalkInv'
<1> DEFINE do   == IF how = "scan" THEN "diff" ELSE "visit"
           item == Item(do, <<>>, depth)
<1>1. /\ consumer = "off" /\ walk' = [how |-> how, depth |-> depth] /\ work' = <<item>>
      /\ producer' = "run" /\ consumer' = "get" /\ UNCHANGED <<output, outQueue, got>>
  BY DEF StartWalk
<1>2. WalkTypeOK /\ WalkControls
  BY DEF WalkInv
<1>3. got = <<>> /\ outQueue = <<>> /\ output = <<>>
  BY <1>1, <1>2 DEF WalkControls
<1>4. depth \in Int /\ <<>> \in Tree /\ <<>> \in Other
  BY TreeIs
<1>5. item \in WorkItems /\ item.do = do /\ item.dir = <<>> /\ item.depth = depth
  BY <1>4 DEF Item, WorkItems
<1>6. walk'.how = how /\ walk'.depth = depth
  BY <1>1
<1> HIDE DEF item
<1>7. WalkTypeOK'
  <2>1. work' \in Seq(WorkItems)
    BY <1>1, <1>5
  <2>2. walk' \in [how : Hows, depth : Depths \cup {-1}]
    BY <1>1
  <2> QED  BY <1>1, <1>2, <2>1, <2>2 DEF WalkTypeOK, WorkItems, Producers, Consumers
<1>8. WalkControls'
  BY <1>1, <1>3 DEF WalkControls
<1>9. Made' = <<>>
  <2>1. Made' = (<<>> \o Plain(<<>>)) \o <<>>
    BY <1>1, <1>3 DEF Made
  <2>2. Plain(<<>>) = <<>> /\ <<>> \o <<>> = <<>>
    BY DEF Plain
  <2> QED  BY <2>1, <2>2
<1>10. Dirs(work') = <<<<>>>>
  <2>1. DOMAIN <<item>> = {1} /\ <<item>>[1].dir = <<>>
    BY <1>5
  <2>2. Dirs(<<item>>) = [i \in {1} |-> <<>>]
    BY <2>1 DEF Dirs
  <2>3. <<<<>>>> = [i \in {1} |-> <<>>]
    OBVIOUS
  <2> QED  BY <1>1, <2>2, <2>3
<1>11. Visiting'
  BY <1>4, <1>6, <1>9, <1>10, RootIsAll DEF Visiting
<1>12. Visits'
  <2> SUFFICES ASSUME how # "scan" PROVE work' \in Seq(VisitItems(depth))
    BY <1>6 DEF Visits
  <2>1. <<>> \in Within(depth) /\ At(depth, <<>>) = depth
    <3>1. Len(<<>>) = 0
      OBVIOUS
    <3> QED  BY <1>4, <3>1 DEF Within, At
  <2>2. item \in VisitItems(depth)
    BY <1>5, <2>1 DEF VisitItems
  <2> QED  BY <1>1, <2>2
<1>13. Scanned'
  <2> SUFFICES ASSUME how = "scan"
               PROVE  /\ work' \in Seq(ScanItems(depth))
                      /\ got' = <<>> /\ output' = <<>> /\ outQueue' = <<>>
    BY <1>6 DEF Scanned
  <2>1. item \in ScanItems(depth)
    BY <1>4, <1>5 DEF ScanItems
  <2> QED  BY <1>1, <1>3, <2>1
<1>14. Scanning'
  <2> SUFFICES ASSUME how = "scan", NEW m \in Tree \ Other PROVE Awaited(work', m)
    BY <1>6 DEF Scanning
  <2>1. IsPrefix(<<>>, m) /\ m # <<>>
    <3>1. <<>> \in Paths /\ Len(<<>>) = 0 /\ m \in Paths /\ Len(m) \in Nat
      BY TreeIs DEF Paths
    <3> QED  BY <1>4, <3>1, PrefixIs
  <2>2. Covers(item, m)
    BY <1>5, <2>1 DEF Covers, IsStrictPrefix
  <2>3. DOMAIN work' = {1} /\ work'[1] = item
    BY <1>1
  <2> QED  BY <2>2, <2>3 DEF Awaited
<1>15. Begun'
  BY <1>1 DEF Begun, Kept
<1> QED  BY <1>7, <1>8, <1>11, <1>12, <1>13, <1>14, <1>15 DEF WalkInv

\* What leaves the work and all that is made as it was.
LEMMA MadeStays ==
  ASSUME WalkInv, WalkTypeOK', WalkControls', UNCHANGED <<walk, work>>, consumer # "off",
         Kept' => Kept /\ Made' = Made,
         walk.how = "scan" => /\ got' \in Seq(Tree \ Other) /\ output' \in Seq(Tree \ Other)
                              /\ outQueue' \in Seq((Tree \ Other) \cup {Sentinel}),
         ~Kept' => UNCHANGED got
  PROVE  WalkInv'
<1>1. Visits' /\ Scanned'
  BY DEF WalkInv, Visits, Scanned
<1>2. Visiting' /\ Scanning'
  BY DEF WalkInv, Visiting, Scanning
<1>3. Begun'
  <2> SUFFICES ASSUME walk.how # "scan", ~Kept' PROVE IsPrefix(got, Expected(walk.how, walk.depth))
    BY DEF Begun
  <2>1. CASE Kept
    BY <2>1, VisitedInOrder DEF WalkInv
  <2>2. CASE ~Kept
    BY <2>2 DEF WalkInv, Begun
  <2> QED  BY <2>1, <2>2
<1> QED  BY <1>1, <1>2, <1>3 DEF WalkInv

LEMMA PutKeepsInv ==
  ASSUME WalkInv, Put
  PROVE  WalkInv'
<1> DEFINE h == Head(output)
           t == Tail(output)
<1>1. /\ producer = "run" /\ output # <<>> /\ Len(outQueue) < QueueSize
      /\ outQueue' = Append(outQueue, h) /\ output' = t
      /\ UNCHANGED <<walk, work, producer, consumer, got>>
  BY DEF Put
<1>2. WalkTypeOK /\ WalkControls
  BY DEF WalkInv
<1>3. /\ got \in Seq(Tree) /\ output \in Seq(Tree) /\ outQueue \in Seq(Tree \cup {Sentinel})
      /\ ~Holds(outQueue, Sentinel) /\ Sentinel \notin Tree
  BY <1>1, <1>2, WalkTypes, MadeIs, TreeIs
<1>4. h \in Tree /\ t \in Seq(Tree) /\ output = <<h>> \o t /\ <<h>> \in Seq(Tree)
  BY <1>1, <1>3, TailIs
<1> HIDE DEF h, t
<1>5. /\ outQueue \in Seq(Tree) /\ Plain(outQueue) = outQueue /\ Plain(outQueue') = outQueue \o <<h>>
      /\ ~Holds(outQueue', Sentinel) /\ Closing(outQueue')
  BY <1>1, <1>3, <1>4, PlainAppend
<1>6. Made' = Made
  <2>1. \A a \in Seq(Tree), b \in Seq(Tree), c \in Seq(Tree), d \in Seq(Tree) :
           (a \o (b \o c)) \o d = (a \o b) \o (c \o d)
    OBVIOUS
  <2>2. Made' = (got \o (outQueue \o <<h>>)) \o t /\ Made = (got \o outQueue) \o output
    BY <1>1, <1>5 DEF Made
  <2>3. (got \o (outQueue \o <<h>>)) \o t = (got \o outQueue) \o (<<h>> \o t)
    BY <1>3, <1>4, <1>5, <2>1
  <2> QED  BY <1>4, <2>2, <2>3
<1>7. WalkTypeOK'
  <2>1. outQueue' \in Seq(Tree \cup {Sentinel}) /\ Len(outQueue') <= QueueSize
    <3>1. Len(outQueue') = Len(outQueue) + 1 /\ Len(outQueue) \in Nat /\ outQueue' \in Seq(Tree \cup {Sentinel})
      BY <1>1, <1>3, <1>4
    <3> QED  BY <1>1, <3>1, TreeAssumption
  <2> QED  BY <1>1, <1>2, <1>4, <2>1 DEF WalkTypeOK
<1>8. consumer \in {"get", "drain"}
  BY <1>1, <1>2 DEF WalkControls, WalkTypeOK, Consumers
<1>9. WalkControls'
  <2>1. \A i \in DOMAIN outQueue' : outQueue'[i] # Sentinel
    BY <1>5 DEF Holds
  <2> QED  BY <1>1, <1>2, <1>8, <2>1 DEF WalkControls
<1>10. ASSUME walk.how = "scan"
       PROVE  /\ got' \in Seq(Tree \ Other) /\ output' \in Seq(Tree \ Other)
              /\ outQueue' \in Seq((Tree \ Other) \cup {Sentinel})
  <2>1. /\ got \in Seq(Tree \ Other) /\ output \in Seq(Tree \ Other)
        /\ outQueue \in Seq((Tree \ Other) \cup {Sentinel})
    BY <1>8, <1>10 DEF WalkInv, Scanned
  <2>2. h \in Tree \ Other /\ t \in Seq(Tree \ Other)
    BY <1>1, <2>1, TailIs DEF h, t
  <2> QED  BY <1>1, <2>1, <2>2
<1>11. Kept' <=> Kept
  BY <1>1 DEF Kept
<1> QED  BY <1>1, <1>6, <1>7, <1>8, <1>9, <1>10, <1>11, MadeStays

LEMMA PutSentinelKeepsInv ==
  ASSUME WalkInv, PutSentinel
  PROVE  WalkInv'
<1>1. /\ producer \in {"run", "failing"} /\ (producer = "run" => work = <<>> /\ output = <<>>)
      /\ Len(outQueue) < QueueSize /\ outQueue' = Append(outQueue, Sentinel)
      /\ producer' = (IF producer = "run" THEN "ended" ELSE "record")
      /\ UNCHANGED <<walk, work, output, consumer, got>>
  BY DEF PutSentinel
<1>2. WalkTypeOK /\ WalkControls
  BY DEF WalkInv
<1>3. /\ outQueue \in Seq(Tree \cup {Sentinel}) /\ ~Holds(outQueue, Sentinel)
  BY <1>1, <1>2, WalkTypes, MadeIs
<1>4. Plain(outQueue) = outQueue /\ Plain(outQueue') = outQueue /\ Closing(outQueue')
  BY <1>1, <1>3, PlainAppend
<1>5. Made' = Made
  BY <1>1, <1>4 DEF Made
<1>6. WalkTypeOK'
  <2>1. outQueue' \in Seq(Tree \cup {Sentinel}) /\ Len(outQueue') <= QueueSize
    <3>1. Len(outQueue') = Len(outQueue) + 1 /\ Len(outQueue) \in Nat /\ outQueue' \in Seq(Tree \cup {Sentinel})
      BY <1>1, <1>3
    <3> QED  BY <1>1, <3>1, TreeAssumption
  <2> QED  BY <1>1, <1>2, <2>1 DEF WalkTypeOK, Producers
<1>7. consumer \in {"get", "drain"}
  BY <1>1, <1>2 DEF WalkControls, WalkTypeOK, Consumers
<1>8. WalkControls'
  <2>1. output = <<>>
    BY <1>1, <1>2 DEF WalkControls
  <2>2. producer' = "record" => work # <<>>
    BY <1>1, <1>2 DEF WalkControls
  <2>3. producer' \in {"record", "ended"}
    BY <1>1
  <2> QED  BY <1>1, <1>4, <1>7, <2>1, <2>2, <2>3 DEF WalkControls, Closing
<1>9. walk.how = "scan" =>
        /\ got' \in Seq(Tree \ Other) /\ output' \in Seq(Tree \ Other)
        /\ outQueue' \in Seq((Tree \ Other) \cup {Sentinel})
  BY <1>1, <1>7 DEF WalkInv, Scanned
<1>10. Kept' <=> Kept
  BY <1>1 DEF Kept
<1> QED  BY <1>1, <1>5, <1>6, <1>7, <1>8, <1>9, <1>10, MadeStays

LEMMA YieldKeepsInv ==
  ASSUME WalkInv, Yield
  PROVE  WalkInv'
<1> DEFINE h == Head(outQueue)
<1>1. /\ consumer = "get" /\ outQueue # <<>> /\ outQueue' = Tail(outQueue)
      /\ (h = Sentinel => consumer' = "join" /\ got' = got)
      /\ (h # Sentinel => got' = Append(got, h) /\ consumer' = consumer)
      /\ UNCHANGED <<walk, work, producer, output>>
  BY DEF Yield
<1>2. WalkTypeOK /\ WalkControls
  BY DEF WalkInv
<1>3. /\ got \in Seq(Tree) /\ output \in Seq(Tree) /\ outQueue \in Seq(Tree \cup {Sentinel}) /\ Closing(outQueue)
  BY <1>2, WalkTypes, MadeIs
<1>4. /\ Closing(outQueue') /\ outQueue' \in Seq(Tree \cup {Sentinel}) /\ Len(outQueue') = Len(outQueue) - 1
      /\ h # Sentinel => h \in Tree /\ Plain(outQueue) = <<h>> \o Plain(outQueue')
      /\ h = Sentinel => Plain(outQueue) = <<>> /\ outQueue' = <<>>
  BY <1>1, <1>3, PlainHead
<1>5. h = Sentinel => producer \in {"record", "ended"}
  <2>1. 1 \in DOMAIN outQueue /\ h = outQueue[1]
    BY <1>1, <1>3, TailIs
  <2> QED  BY <1>2, <2>1 DEF WalkControls
<1>6. Plain(outQueue') \in Seq(Tree)
  BY <1>4, PlainIs
<1> HIDE DEF h
<1>7. Made' = Made
  <2>1. CASE h = Sentinel
    <3>1. Plain(outQueue') = <<>>
      BY <1>4, <2>1 DEF Plain
    <3> QED  BY <1>1, <1>4, <2>1, <3>1 DEF Made
  <2>2. CASE h # Sentinel
    <3>1. \A a \in Seq(Tree), x \in Tree, b \in Seq(Tree) : Append(a, x) \o b = a \o (<<x>> \o b)
      OBVIOUS
    <3>2. h \in Tree /\ Plain(outQueue) = <<h>> \o Plain(outQueue')
      BY <1>4, <2>2
    <3>3. Append(got, h) \o Plain(outQueue') = got \o (<<h>> \o Plain(outQueue'))
      <4> HIDE <3>2
      <4>1. h \in Tree
        BY <3>2
      <4> QED  BY <1>3, <1>6, <3>1, <4>1
    <3> QED  BY <1>1, <2>2, <3>2, <3>3 DEF Made
  <2> QED  BY <2>1, <2>2
<1>8. WalkTypeOK'
  <2>1. Len(outQueue') <= QueueSize
    <3>1. Len(outQueue) \in Nat /\ Len(outQueue) <= QueueSize /\ QueueSize \in Nat
      BY <1>2, <1>3, TreeAssumption DEF WalkTypeOK
    <3> QED  BY <1>4, <3>1
  <2>2. got' \in Seq(Tree) /\ consumer' \in Consumers
    <3>1. \A x \in Tree : Append(got, x) \in Seq(Tree)
      BY <1>3
    <3>2. consumer' \in {"get", "join"}
      BY <1>1
    <3> QED  BY <1>1, <1>3, <1>4, <3>1, <3>2 DEF Consumers
  <2> QED  BY <1>1, <1>2, <1>4, <2>1, <2>2 DEF WalkTypeOK
<1>9. WalkControls'
  <2>1. CASE h = Sentinel
    BY <1>1, <1>2, <1>4, <1>5, <2>1 DEF WalkControls
  <2>2. CASE h # Sentinel
    <3>1. \A i \in DOMAIN outQueue' : outQueue'[i] = Sentinel => i = Len(outQueue') /\ producer \in {"record", "ended"}
      <4> SUFFICES ASSUME NEW i \in DOMAIN outQueue', outQueue'[i] = Sentinel
                   PROVE  i = Len(outQueue') /\ producer \in {"record", "ended"}
        OBVIOUS
      <4>1. i = Len(outQueue')
        BY <1>4 DEF Closing
      <4>2. /\ i \in DOMAIN Tail(outQueue) /\ Tail(outQueue)[i] = outQueue[i + 1]
            /\ DOMAIN Tail(outQueue) = 1 .. Len(outQueue) - 1 /\ DOMAIN outQueue = 1 .. Len(outQueue) /\ Len(outQueue) \in Nat
        BY <1>1, <1>3, TailIs
      <4>3. i + 1 \in DOMAIN outQueue
        BY <4>2
      <4> QED  BY <1>1, <1>2, <4>1, <4>2, <4>3 DEF WalkControls
    <3> QED  BY <1>1, <1>2, <2>2, <3>1 DEF WalkControls
  <2> QED  BY <2>1, <2>2
<1>10. ASSUME walk.how = "scan"
       PROVE  /\ got' \in Seq(Tree \ Other) /\ output' \in Seq(Tree \ Other)
              /\ outQueue' \in Seq((Tree \ Other) \cup {Sentinel})
  <2>1. /\ got \in Seq(Tree \ Other) /\ output \in Seq(Tree \ Other)
        /\ outQueue \in Seq((Tree \ Other) \cup {Sentinel})
    BY <1>1, <1>10 DEF WalkInv, Scanned
  <2>2. h \in (Tree \ Other) \cup {Sentinel} /\ outQueue' \in Seq((Tree \ Other) \cup {Sentinel})
    BY <1>1, <2>1, TailIs DEF h
  <2>3. \A x \in Tree \ Other : Append(got, x) \in Seq(Tree \ Other)
    BY <2>1
  <2> QED  BY <1>1, <2>1, <2>2, <2>3
<1>11. Kept /\ Kept' /\ consumer # "off"
  BY <1>1 DEF Kept
<1> QED  BY <1>1, <1>7, <1>8, <1>9, <1>10, <1>11, MadeStays

LEMMA DrainKeepsInv ==
  ASSUME WalkInv, Drain
  PROVE  WalkInv'
<1> DEFINE h == Head(outQueue)
<1>1. /\ consumer = "drain" /\ outQueue # <<>> /\ outQueue' = Tail(outQueue)
      /\ consumer' = (IF h = Sentinel THEN "cut" ELSE "drain")
      /\ UNCHANGED <<walk, work, producer, output, got>>
  BY DEF Drain
<1>2. WalkTypeOK /\ WalkControls
  BY DEF WalkInv
<1>3. /\ outQueue \in Seq(Tree \cup {Sentinel}) /\ Closing(outQueue)
  BY <1>2, WalkTypes, MadeIs
<1>4. /\ Closing(outQueue') /\ outQueue' \in Seq(Tree \cup {Sentinel}) /\ Len(outQueue') = Len(outQueue) - 1
      /\ h = Sentinel => outQueue' = <<>>
  BY <1>1, <1>3, PlainHead
<1>5. /\ DOMAIN outQueue' = 1 .. Len(outQueue) - 1 /\ DOMAIN outQueue = 1 .. Len(outQueue) /\ Len(outQueue) \in Nat \ {0}
      /\ h = outQueue[1] /\ \A i \in DOMAIN outQueue' : outQueue'[i] = outQueue[i + 1]
  BY <1>1, <1>3, TailIs
<1> HIDE DEF h
<1>6. h = Sentinel => producer \in {"record", "ended"}
  <2>1. 1 \in DOMAIN outQueue
    BY <1>5
  <2> QED  BY <1>2, <1>5, <2>1 DEF WalkControls
<1>7. WalkTypeOK'
  <2>1. Len(outQueue') <= QueueSize
    <3>1. Len(outQueue) \in Nat /\ Len(outQueue) <= QueueSize /\ QueueSize \in Nat
      BY <1>2, <1>3, TreeAssumption DEF WalkTypeOK
    <3> QED  BY <1>4, <3>1
  <2> QED  BY <1>1, <1>2, <1>4, <2>1 DEF WalkTypeOK, Consumers
<1>8. WalkControls'
  <2>1. \A i \in DOMAIN outQueue' : outQueue'[i] = Sentinel => i = Len(outQueue') /\ producer \in {"record", "ended"}
    <3> SUFFICES ASSUME NEW i \in DOMAIN outQueue', outQueue'[i] = Sentinel
                 PROVE  i = Len(outQueue') /\ producer \in {"record", "ended"}
      OBVIOUS
    <3>1. i = Len(outQueue')
      BY <1>4 DEF Closing
    <3>2. i + 1 \in DOMAIN outQueue
      BY <1>5
    <3> QED  BY <1>2, <1>5, <3>1, <3>2 DEF WalkControls
  <2> QED  BY <1>1, <1>2, <1>4, <1>6, <2>1 DEF WalkControls
<1>9. ASSUME walk.how = "scan"
      PROVE  /\ got' \in Seq(Tree \ Other) /\ output' \in Seq(Tree \ Other)
             /\ outQueue' \in Seq((Tree \ Other) \cup {Sentinel})
  <2>1. /\ got \in Seq(Tree \ Other) /\ output \in Seq(Tree \ Other)
        /\ outQueue \in Seq((Tree \ Other) \cup {Sentinel})
    BY <1>1, <1>9 DEF WalkInv, Scanned
  <2> QED  BY <1>1, <2>1, TailIs
<1>10. ~Kept /\ ~Kept' /\ consumer # "off"
  BY <1>1 DEF Kept
<1> QED  BY <1>1, <1>7, <1>8, <1>9, <1>10, MadeStays

LEMMA WalkRestKeepsInv ==
  ASSUME WalkInv, ListFails \/ Record \/ BreakOff \/ Join \/ UNCHANGED walkVars
  PROVE  WalkInv'
<1>1. WalkTypeOK /\ WalkControls
  BY DEF WalkInv
<1>2. CASE UNCHANGED walkVars
  <2> USE <1>2 DEF walkVars
  <2>1. WalkTypeOK' /\ WalkControls'
    BY <1>1 DEF WalkTypeOK, WalkControls
  <2>2. Made' = Made /\ (Kept' <=> Kept)
    BY DEF Made, Kept
  <2>3. Visits' /\ Visiting' /\ Scanned' /\ Scanning' /\ Begun'
    BY <2>2 DEF WalkInv, Visits, Visiting, Scanned, Scanning, Begun
  <2> QED  BY <2>1, <2>3 DEF WalkInv
<1>3. CASE ListFails \/ Record \/ BreakOff \/ Join
  <2>1. UNCHANGED <<walk, work, output, outQueue, got>> /\ consumer # "off"
    BY <1>1, <1>3 DEF ListFails, Record, BreakOff, Join, WalkControls
  <2>2. Made' = Made /\ (Kept' => Kept)
    BY <1>1, <1>3, <2>1 DEF Made, Kept, ListFails, Record, BreakOff, Join
  <2>3. WalkTypeOK'
    BY <1>1, <1>3, <2>1 DEF WalkTypeOK, ListFails, Record, BreakOff, Join, Producers, Consumers
  <2>4. WalkControls'
    <3>1. CASE ListFails
      BY <1>1, <2>1, <3>1 DEF WalkControls, ListFails
    <3>2. CASE Record
      BY <1>1, <2>1, <3>2 DEF WalkControls, Record
    <3>3. CASE BreakOff
      BY <1>1, <2>1, <3>3 DEF WalkControls, BreakOff
    <3>4. CASE Join
      BY <1>1, <2>1, <3>4 DEF WalkControls, Join
    <3> QED  BY <1>3, <3>1, <3>2, <3>3, <3>4
  <2>5. walk.how = "scan" =>
          /\ got' \in Seq(Tree \ Other) /\ output' \in Seq(Tree \ Other)
          /\ outQueue' \in Seq((Tree \ Other) \cup {Sentinel})
    BY <2>1 DEF WalkInv, Scanned
  <2> QED  BY <2>1, <2>2, <2>3, <2>4, <2>5, MadeStays
<1> QED  BY <1>2, <1>3

LEMMA WalkStepsKeepInv == WalkInv /\ [WalkNext]_walkVars => WalkInv'
<1> SUFFICES ASSUME WalkInv, [WalkNext]_walkVars PROVE WalkInv'
  OBVIOUS
<1>1. ASSUME NEW how \in Hows, NEW depth \in Depths, StartWalk(how, depth) PROVE WalkInv'
  BY <1>1, StartKeepsInv
<1> QED  BY <1>1, ProduceKeepsInv, PutKeepsInv, PutSentinelKeepsInv, YieldKeepsInv, DrainKeepsInv, WalkRestKeepsInv
         DEF WalkNext, WalkStep, WalkCall

-----------------------------------------------------------------------------
(* FSWalkThread: the invariant, and its steps.                             *)

\* What the walk of an FSPath has listed and passed on, and what it has to do.
FsMade == (fsGot \o Plain(fsQueue)) \o holding
FsToDo == Dirs(flight) \o pending
Failed(f) == {f[i].dir : i \in {j \in DOMAIN f : f[j].is = "skip"}}
Spared(K) == {d \in Tree : \A e \in K : ~IsPrefix(e, d)}

\* D was listed, W is to be, K failed, and F of it is still in flight.
Ordered(D, W, K, F) ==
  /\ D \in Seq(Tree) /\ W \in Seq(Tree) /\ Ascends("bfs", D \o W) /\ Found(D, W) /\ Found(D, D)
  /\ F \subseteq K /\ K \subseteq Tree
  /\ \A e \in K : ~Holds(D, e) /\ (e \in F \/ \A i \in DOMAIN W : Precedes("bfs", e, W[i]))
  /\ \A d \in Spared(K) : Holds(D, d) \/ Reached(W, d)

LEMMA InTree == \A d \in Tree : d \in Paths
  BY TreeIs

\* The head was listed: it is passed on, its children wait behind the others.
LEMMA ListHead ==
  ASSUME NEW D, NEW W, NEW K, NEW F, Ordered(D, W, K, F), W # <<>>, Head(W) \notin F
  PROVE  Ordered(D \o <<Head(W)>>, Tail(W) \o Listing(Head(W), 1), K, F)
<1> DEFINE h == Head(W)
           kids == Listing(h, 1)
           t == Tail(W)
<1>1. D \in Seq(Tree) /\ W \in Seq(Tree) /\ Ascends("bfs", D \o W) /\ Found(D, W) /\ Found(D, D)
  BY DEF Ordered
<1>2. /\ h \in Tree /\ t \in Seq(Tree) /\ <<h>> \in Seq(Tree) /\ h = W[1] /\ 1 \in DOMAIN W
      /\ \A i \in DOMAIN t : i + 1 \in DOMAIN W /\ t[i] = W[i + 1]
  <2>1. /\ h \in Tree /\ t \in Seq(Tree) /\ <<h>> \in Seq(Tree) /\ h = W[1] /\ Len(W) \in Nat \ {0}
        /\ DOMAIN t = 1 .. Len(W) - 1 /\ DOMAIN W = 1 .. Len(W) /\ \A i \in DOMAIN t : t[i] = W[i + 1]
    BY <1>1, TailIs
  <2> QED  BY <2>1
<1>3. Children(h, Tree, kids)
  BY <1>2, ChildrenAre DEF Children
<1>4. Tree \in SUBSET Paths
  BY TreeIs
<1> HIDE DEF h, t, kids
<1>5. /\ D \o <<h>> \in Seq(Tree) /\ t \o kids \in Seq(Tree)
      /\ Ascends("bfs", (D \o <<h>>) \o (t \o kids)) /\ Found(D \o <<h>>, t \o kids)
  BY <1>1, <1>3, <1>4, VisitedFirst DEF h, t
<1>6. h \notin K
  <2> SUFFICES ASSUME h \in K PROVE FALSE
    OBVIOUS
  <2>1. Precedes("bfs", h, h)
    BY <1>2 DEF Ordered, h
  <2> QED  BY <1>2, <2>1, InTree, PathOrder
<1>7. Found(D \o <<h>>, D \o <<h>>)
  <2> SUFFICES ASSUME NEW i \in DOMAIN (D \o <<h>>), (D \o <<h>>)[i] # <<>>
               PROVE  Holds(D \o <<h>>, Front((D \o <<h>>)[i]))
    BY DEF Found
  <2>1. PICK x : x = (D \o <<h>>)[i]
    OBVIOUS
  <2>2. Holds(D, x) \/ Holds(<<h>>, x)
    BY <1>1, <1>2, <2>1, ConcatHolds DEF Holds
  <2>3. CASE Holds(D, x)
    <3>1. Holds(D, Front(x))
      BY <1>1, <2>1, <2>3 DEF Holds, Found
    <3> QED  BY <1>1, <1>2, <2>1, <3>1, ConcatHolds
  <2>4. CASE Holds(<<h>>, x)
    <3>1. x = W[1] /\ 1 \in DOMAIN W
      BY <1>2, <2>4 DEF Holds
    <3> QED  BY <1>1, <1>2, <2>1, <3>1, ConcatHolds DEF Found
  <2> QED  BY <2>2, <2>3, <2>4
<1>8. ASSUME NEW e \in K
      PROVE  ~Holds(D \o <<h>>, e) /\ (e \in F \/ \A i \in DOMAIN (t \o kids) : Precedes("bfs", e, (t \o kids)[i]))
  <2>1. ~Holds(D, e) /\ (e \in F \/ \A i \in DOMAIN W : Precedes("bfs", e, W[i])) /\ e \in Tree /\ e \in Paths /\ h \in Paths
    BY <1>2, InTree DEF Ordered
  <2>2. ~Holds(<<h>>, e)
    BY <1>6 DEF Holds
  <2>3. ~Holds(D \o <<h>>, e)
    BY <1>1, <1>2, <2>1, <2>2, ConcatHolds
  <2>4. ASSUME e \notin F, NEW i \in DOMAIN (t \o kids) PROVE Precedes("bfs", e, (t \o kids)[i])
    <3>1. PICK x : x = (t \o kids)[i]
      OBVIOUS
    <3>2. kids \in Seq(Tree)
      BY <1>3 DEF Children
    <3>3. Holds(t, x) \/ Holds(kids, x)
      BY <1>2, <3>1, <3>2, ConcatHolds DEF Holds
    <3>4. \A j \in DOMAIN W : Precedes("bfs", e, W[j])
      BY <2>1, <2>4
    <3>5. CASE Holds(t, x)
      BY <1>2, <3>1, <3>4, <3>5 DEF Holds
    <3>6. CASE Holds(kids, x)
      <4>1. IsPrefix(h, x) /\ x # h /\ x \in Tree
        BY <1>3, <3>2, <3>6, ElementOfSeq DEF Children, Holds
      <4>2. Precedes("bfs", h, x) /\ Precedes("bfs", e, h) /\ x \in Paths
        BY <1>2, <2>1, <3>4, <4>1, InTree, PathOrder
      <4> QED  BY <2>1, <3>1, <4>2, PathOrder
    <3> QED  BY <3>3, <3>5, <3>6
  <2> QED  BY <2>3, <2>4
<1>9. \A d \in Spared(K) : Holds(D \o <<h>>, d) \/ Reached(t \o kids, d)
  <2> SUFFICES ASSUME NEW d \in Spared(K) PROVE Holds(D \o <<h>>, d) \/ Reached(t \o kids, d)
    OBVIOUS
  <2>1. d \in Tree /\ (Holds(D, d) \/ Reached(W, d))
    BY DEF Spared, Ordered
  <2> QED  BY <1>1, <1>3, <1>4, <2>1, Covered DEF h, t
<1> QED  BY <1>5, <1>7, <1>8, <1>9 DEF Ordered, h, t, kids

\* The head failed: it is left out, with all that is below it.
LEMMA SkipHead ==
  ASSUME NEW D, NEW W, NEW K, NEW F, Ordered(D, W, K, F), W # <<>>, Head(W) \in F
  PROVE  Ordered(D, Tail(W), K, F \ {Head(W)})
<1> DEFINE h == Head(W)
           t == Tail(W)
<1>1. D \in Seq(Tree) /\ W \in Seq(Tree) /\ Ascends("bfs", D \o W) /\ Found(D, W) /\ Found(D, D) /\ h \in K
  BY DEF Ordered
<1>2. /\ t \in Seq(Tree) /\ h = W[1] /\ 1 \in DOMAIN W
      /\ \A i \in DOMAIN t : i + 1 \in DOMAIN W /\ t[i] = W[i + 1]
      /\ \A i \in DOMAIN W : i # 1 => i - 1 \in DOMAIN t /\ t[i - 1] = W[i]
  <2>1. /\ t \in Seq(Tree) /\ h = W[1] /\ Len(W) \in Nat \ {0}
        /\ DOMAIN t = 1 .. Len(W) - 1 /\ DOMAIN W = 1 .. Len(W) /\ \A i \in DOMAIN t : t[i] = W[i + 1]
    BY <1>1, TailIs
  <2> QED  BY <2>1
<1>3. Ascends("bfs", D) /\ Ascends("bfs", t) /\ AllBefore("bfs", D, t) /\ \A i \in DOMAIN t : Precedes("bfs", h, t[i])
  BY <1>1, TreeIs, Split
<1> HIDE DEF h, t
<1>4. Ascends("bfs", D \o t) /\ Found(D, t)
  BY <1>1, <1>2, <1>3, ConcatAscends DEF Found
<1>5. \A e \in K : ~Holds(D, e) /\ (e \in F \ {h} \/ \A i \in DOMAIN t : Precedes("bfs", e, t[i]))
  BY <1>2, <1>3 DEF Ordered
<1>6. ASSUME NEW d \in Spared(K), ~Holds(D, d) PROVE Reached(t, d)
  <2>1. PICK i \in DOMAIN W : IsPrefix(W[i], d)
    BY <1>6 DEF Ordered, Reached
  <2>2. i # 1
    BY <1>1, <1>2, <2>1 DEF Spared
  <2> QED  BY <1>2, <2>1, <2>2 DEF Reached
<1> QED  BY <1>1, <1>2, <1>4, <1>5, <1>6 DEF Ordered, h, t

\* One of what is to be done fails.
LEMMA FailOne ==
  ASSUME NEW D, NEW W, NEW K, NEW F, Ordered(D, W, K, F), NEW i \in DOMAIN W
  PROVE  Ordered(D, W, K \cup {W[i]}, F \cup {W[i]})
<1>1. D \in Seq(Tree) /\ W \in Seq(Tree) /\ AllBefore("bfs", D, W)
  BY TreeIs, ConcatAscends DEF Ordered
<1>2. W[i] \in Tree /\ W[i] \in Paths
  BY <1>1, ElementOfSeq, InTree
<1>3. ~Holds(D, W[i])
  BY <1>1, <1>2, PathOrder DEF AllBefore, Holds
<1>4. Spared(K \cup {W[i]}) \subseteq Spared(K)
  BY DEF Spared
<1> QED  BY <1>2, <1>3, <1>4 DEF Ordered

\* What was listed is reached by listed directories, so none of it is lost.
LEMMA ListedAreSpared ==
  ASSUME NEW D, NEW W, NEW K, NEW F, Ordered(D, W, K, F), NEW d, Holds(D, d)
  PROVE  d \in Spared(K)
<1> DEFINE T == {x \in Tree : Holds(D, x)}
<1>1. D \in Seq(Tree) /\ Found(D, D)
  BY DEF Ordered
<1>2. d \in T /\ d \in Tree
  BY <1>1, ElementOfSeq DEF Holds
<1>3. T \in SUBSET Paths
  BY InTree
<1>4. \A x \in T \ {<<>>} : Front(x) \in T
  <2> SUFFICES ASSUME NEW x \in T, x # <<>> PROVE Front(x) \in T
    OBVIOUS
  <2>1. Holds(D, Front(x))
    BY <1>1 DEF Holds, Found
  <2>2. Front(x) \in Tree
    BY <2>1, <1>1, ElementOfSeq DEF Holds
  <2> QED  BY <2>1, <2>2
<1> HIDE DEF T
<1>5. ASSUME NEW e \in K, IsPrefix(e, d) PROVE FALSE
  <2>1. e \in Paths /\ d \in Paths /\ ~Holds(D, e)
    BY <1>2, InTree DEF Ordered
  <2>2. Len(e) \in 0 .. Len(d) /\ \A k \in 1 .. Len(e) : e[k] = d[k]
    BY <1>5, <2>1, PrefixIs, PathIs
  <2>3. SubSeq(d, 1, Len(e)) \in T
    BY <1>2, <1>3, <1>4, <2>2, WaysAreIn
  <2>4. SubSeq(d, 1, Len(e)) \in Paths /\ Len(SubSeq(d, 1, Len(e))) = Len(e)
        /\ \A k \in 1 .. Len(e) : SubSeq(d, 1, Len(e))[k] = d[k]
    BY <2>1, <2>2, CutIs
  <2>5. SubSeq(d, 1, Len(e)) = e
    <3> DEFINE y == SubSeq(d, 1, Len(e))
    <3>1. y \in Paths /\ Len(y) = Len(e) /\ \A k \in 1 .. Len(y) : y[k] = e[k]
      BY <2>2, <2>4
    <3> HIDE DEF y
    <3>2. y = e
      BY <2>1, <3>1, SamePath
    <3> QED  BY <3>2 DEF y
  <2> QED  BY <2>1, <2>3, <2>5 DEF T
<1> QED  BY <1>2, <1>5 DEF Spared

Flights == [dir : Tree, is : {"listing", "done", "skip"}]

\* None is the thread's last word; it is put when there is nothing left, or the reader has left.
FsPlace ==
  /\ fsWorker \in {"put", "none"} => holding # <<>>
  /\ reader = "off" <=> fsWorker = "off"
  /\ reader = "off" =>
       pending = <<>> /\ flight = <<>> /\ holding = <<>> /\ fsQueue = <<>> /\ fsGot = <<>> /\ skipped = {}
  /\ \A i \in DOMAIN fsQueue : fsQueue[i] = Sentinel => i = Len(fsQueue) /\ fsWorker = "dead"
  /\ reader \in {"off", "read", "end"} => ~stop
  /\ ~stop => fsWorker # "none"
  /\ ~stop /\ fsWorker = "dead" => pending = <<>> /\ flight = <<>> /\ holding = <<>>
  /\ reader = "end" => fsWorker = "dead" /\ fsQueue = <<>>
  /\ reader \in {"drainAll", "all"} => fsWorker = "dead" /\ flight = <<>>

FsFront == reader \in {"read", "end"} => Ordered(FsMade, FsToDo, skipped, Failed(flight))
FsPast  == reader \in {"drainAll", "all", "drainCut", "cut"} => FsWalkIsOrdered
FsInv   == FsTypeOK /\ FsPlace /\ FsFront /\ FsPast

FsNext == FsStep \/ FsCall \/ FsFault

LEMMA FsTypes ==
  ASSUME FsTypeOK
  PROVE  /\ pending \in Seq(Tree) /\ flight \in Seq(Flights) /\ holding \in Seq(Tree) /\ fsGot \in Seq(Tree)
         /\ fsQueue \in Seq(Tree \cup {Sentinel}) /\ Len(fsQueue) \in Nat /\ FsQueueSize \in Nat \ {0}
         /\ Dirs(flight) \in Seq(Tree) /\ DOMAIN Dirs(flight) = DOMAIN flight /\ FsToDo \in Seq(Tree)
         /\ \A i \in DOMAIN flight : flight[i] \in Flights /\ Dirs(flight)[i] = flight[i].dir
         /\ \A x \in Flights : x.dir \in Tree
<1>1. /\ pending \in Seq(Tree) /\ flight \in Seq(Flights) /\ holding \in Seq(Tree) /\ fsGot \in Seq(Tree)
      /\ fsQueue \in Seq(Tree \cup {Sentinel})
  BY DEF FsTypeOK, Flights
<1>2. \A x \in Flights : x.dir \in Tree
  BY DEF Flights
<1>3. Dirs(flight) \in Seq(Tree) /\ DOMAIN Dirs(flight) = DOMAIN flight
      /\ \A i \in DOMAIN flight : flight[i] \in Flights /\ Dirs(flight)[i] = flight[i].dir
  BY <1>1, <1>2, AnyDirsOf
<1>4. FsToDo \in Seq(Tree)
  BY <1>1, <1>3, ConcatIs DEF FsToDo
<1>5. Len(fsQueue) \in Nat
  BY <1>1
<1> QED  BY <1>1, <1>2, <1>3, <1>4, <1>5, FsAssumption

LEMMA FsMadeIs ==
  ASSUME FsTypeOK, FsPlace
  PROVE  /\ Closing(fsQueue) /\ Plain(fsQueue) \in Seq(Tree) /\ fsGot \o Plain(fsQueue) \in Seq(Tree)
         /\ FsMade \in Seq(Tree) /\ (fsWorker # "dead" => ~Holds(fsQueue, Sentinel))
         /\ (holding = <<>> => FsMade = fsGot \o Plain(fsQueue))
<1>1. Closing(fsQueue) /\ (fsWorker # "dead" => ~Holds(fsQueue, Sentinel))
  BY DEF FsPlace, Closing, Holds
<1>2. Plain(fsQueue) \in Seq(Tree)
  BY <1>1, PlainIs, FsTypes
<1>3. fsGot \o Plain(fsQueue) \in Seq(Tree) /\ FsMade \in Seq(Tree)
  BY <1>2, ConcatIs, FsTypes DEF FsMade
<1>4. holding = <<>> => FsMade = fsGot \o Plain(fsQueue)
  BY <1>3 DEF FsMade
<1> QED  BY <1>1, <1>2, <1>3, <1>4

\* A reading walk has given a beginning of what it was to give, and at the end all of it.
LEMMA ReadIsOrdered ==
  ASSUME FsTypeOK, FsPlace, FsFront, reader \in {"read", "end"}
  PROVE  FsWalkIsOrdered
<1>1. Ordered(FsMade, FsToDo, skipped, Failed(flight))
  BY DEF FsFront
<1>2. fsGot \in Seq(Tree) /\ Plain(fsQueue) \in Seq(Tree) /\ fsGot \o Plain(fsQueue) \in Seq(Tree) /\ holding \in Seq(Tree)
  BY FsTypes, FsMadeIs
<1>3. FsMade \in Seq(Tree) /\ FsToDo \in Seq(Tree) /\ Ascends("bfs", FsMade \o FsToDo) /\ Tree \in SUBSET Paths
  BY <1>1, TreeIs DEF Ordered
<1>4. Ascends("bfs", FsMade)
  BY <1>3, ConcatAscends
<1>5. Ascends("bfs", fsGot)
  BY <1>2, <1>4, ConcatAscends DEF FsMade
<1>6. ASSUME reader = "end" PROVE Range(fsGot) = Spared(skipped)
  <2>1. pending = <<>> /\ flight = <<>> /\ holding = <<>> /\ fsQueue = <<>>
    BY <1>6 DEF FsPlace
  <2>2. FsMade = fsGot
    <3>1. Plain(fsQueue) = <<>>
      BY <2>1 DEF Plain
    <3>2. FsMade = (fsGot \o <<>>) \o <<>>
      BY <2>1, <3>1 DEF FsMade
    <3> QED  BY <1>2, <3>2
  <2>3. FsToDo = <<>>
    <3>1. Dirs(flight) = <<>>
      BY <2>1 DEF Dirs
    <3>2. FsToDo = <<>> \o <<>>
      BY <2>1, <3>1 DEF FsToDo
    <3> QED  BY <3>2
  <2>4. \A d : ~Reached(FsToDo, d)
    BY <2>3 DEF Reached
  <2>5. \A d \in Spared(skipped) : Holds(fsGot, d)
    BY <1>1, <2>2, <2>4 DEF Ordered
  <2>6. \A d : Holds(fsGot, d) => d \in Spared(skipped)
    BY <1>1, <2>2, ListedAreSpared
  <2> QED  BY <2>5, <2>6 DEF Holds, Range
<1> QED  BY <1>5, <1>6 DEF FsWalkIsOrdered, Ascends, Spared

LEMMA FsIsOrdered == FsInv => FsWalkIsOrdered
<1> SUFFICES ASSUME FsInv PROVE FsWalkIsOrdered
  OBVIOUS
<1>1. CASE reader \in {"read", "end"}
  BY <1>1, ReadIsOrdered DEF FsInv
<1>2. CASE reader = "off"
  <2>1. fsGot = <<>>
    BY <1>2 DEF FsInv, FsPlace
  <2> QED  BY <1>2, <2>1 DEF FsWalkIsOrdered
<1> QED  BY <1>1, <1>2 DEF FsInv, FsPast, FsTypeOK

LEMMA FsInitially == FsInit => FsInv
<1> SUFFICES ASSUME FsInit PROVE FsInv
  OBVIOUS
<1> USE DEF FsInit
<1>1. FsTypeOK
  <2>1. 0 <= FsQueueSize /\ 0 <= Backlog /\ Len(<<>>) = 0
    BY FsAssumption
  <2>2. \A S : <<>> \in Seq(S)
    OBVIOUS
  <2>3. /\ Len(flight) <= Backlog /\ Len(fsQueue) <= FsQueueSize /\ Len(holding) <= 1
        /\ pending \in Seq(Tree) /\ holding \in Seq(Tree) /\ fsGot \in Seq(Tree)
        /\ flight \in Seq([dir : Tree, is : {"listing", "done", "skip"}]) /\ fsQueue \in Seq(Tree \cup {Sentinel})
    BY <2>1, <2>2
  <2>4. /\ fsWorker \in {"off", "walk", "put", "none", "dead"} /\ stop \in BOOLEAN /\ skipped \subseteq Tree
        /\ reader \in {"off", "read", "end", "drainAll", "drainCut", "all", "cut"}
    OBVIOUS
  <2> HIDE DEF FsInit
  <2> QED  BY <2>3, <2>4 DEF FsTypeOK
<1>2. FsPlace
  BY DEF FsPlace
<1> QED  BY <1>1, <1>2 DEF FsInv, FsFront, FsPast

LEMMA EnterKeepsInv ==
  ASSUME FsInv, Enter
  PROVE  FsInv'
<1> USE DEF Enter
<1>1. /\ flight = <<>> /\ holding = <<>> /\ fsQueue = <<>> /\ fsGot = <<>> /\ skipped = {} /\ FsTypeOK /\ FsPlace
      /\ reader' = "read" /\ fsWorker' = "walk" /\ pending' = <<<<>>>>
      /\ UNCHANGED <<flight, holding, stop, fsQueue, fsGot, skipped>>
  BY DEF FsInv, FsPlace
<1>2. FsTypeOK'
  <2>1. <<<<>>>> \in Seq(Tree)
    BY TreeIs
  <2> QED  BY <1>1, <2>1 DEF FsTypeOK
<1>3. FsPlace'
  BY <1>1 DEF FsPlace
<1>4. FsMade' = <<>> /\ FsToDo' = <<<<>>>> /\ Failed(flight') = {}
  <2>1. Plain(fsQueue') = <<>> /\ Dirs(flight') = <<>> /\ Failed(flight') = {}
    BY <1>1 DEF Plain, Dirs, Failed
  <2>2. FsMade' = (<<>> \o <<>>) \o <<>> /\ FsToDo' = <<>> \o <<<<>>>>
    BY <1>1, <2>1 DEF FsMade, FsToDo
  <2>3. <<>> \o <<>> = <<>>
    OBVIOUS
  <2>4. <<<<>>>> \in Seq(Tree)
    BY TreeIs
  <2>5. <<>> \o <<<<>>>> = <<<<>>>>
    BY <2>4
  <2> QED  BY <2>1, <2>2, <2>3, <2>5
<1>5. Ordered(<<>>, <<<<>>>>, {}, {})
  <2>0. PICK w : w = <<<<>>>>
    OBVIOUS
  <2>1. w \in Seq(Tree) /\ <<>> \in Seq(Tree) /\ DOMAIN w = {1} /\ w[1] = <<>>
    BY <2>0, TreeIs
  <2>2. <<>> \o w = w
    BY <2>1
  <2>3. Ascends("bfs", w)
    BY <2>1 DEF Ascends
  <2>4. Found(<<>>, w) /\ Found(<<>>, <<>>)
    BY <2>1 DEF Found
  <2>5. \A d \in Tree : Reached(w, d)
    <3> SUFFICES ASSUME NEW d \in Tree PROVE Reached(w, d)
      OBVIOUS
    <3>1. <<>> \in Paths /\ d \in Paths /\ Len(<<>>) = 0 /\ Len(d) \in Nat
      BY InTree, TreeIs
    <3>2. IsPrefix(<<>>, d)
      BY <3>1, PrefixIs
    <3> QED  BY <2>1, <3>2 DEF Reached
  <2> QED  BY <2>0, <2>1, <2>2, <2>3, <2>4, <2>5 DEF Ordered, Spared
<1>6. FsFront' /\ FsPast'
  <2>1. Ordered(FsMade', FsToDo', skipped', Failed(flight'))
    BY <1>1, <1>4, <1>5
  <2> QED  BY <1>1, <2>1 DEF FsFront, FsPast
<1> QED  BY <1>2, <1>3, <1>6 DEF FsInv

\* One more in flight, or one fewer.
LEMMA FlightIs ==
  ASSUME NEW f \in Seq(Flights), NEW x \in Flights
  PROVE  /\ Append(f, x) \in Seq(Flights) /\ Dirs(Append(f, x)) = Dirs(f) \o <<x.dir>>
         /\ x.is # "skip" => Failed(Append(f, x)) = Failed(f)
<1>1. /\ <<x>> \in Seq(Flights) /\ Append(f, x) = f \o <<x>> /\ DOMAIN <<x>> = {1} /\ <<x>>[1] = x
  OBVIOUS
<1>2. \A y \in Flights : y.dir \in Tree
  BY DEF Flights
<1>3. Dirs(<<x>>) = <<x.dir>>
  BY <1>1 DEF Dirs
<1>4. Dirs(f \o <<x>>) = Dirs(f) \o Dirs(<<x>>)
  BY <1>1, <1>2, AnyDirsConcat
<1>5. ASSUME x.is # "skip" PROVE Failed(f \o <<x>>) = Failed(f)
  <2>1. /\ DOMAIN (f \o <<x>>) = 1 .. Len(f) + Len(<<x>>) /\ DOMAIN f = 1 .. Len(f) /\ Len(f) \in Nat /\ Len(<<x>>) = 1
        /\ \A i \in DOMAIN f : (f \o <<x>>)[i] = f[i]
        /\ \A i \in DOMAIN (f \o <<x>>) : i \in DOMAIN f \/ (f \o <<x>>)[i] = x
    BY <1>1, ConcatIs
  <2>2. DOMAIN f \subseteq DOMAIN (f \o <<x>>)
    BY <2>1
  <2> QED  BY <1>5, <2>1, <2>2 DEF Failed
<1>6. Append(f, x) \in Seq(Flights)
  OBVIOUS
<1> QED  BY <1>1, <1>3, <1>4, <1>5, <1>6

LEMMA SubmittingKeepsInv ==
  ASSUME FsInv, Submitting
  PROVE  FsInv'
<1> DEFINE h == Head(pending)
           x == [dir |-> h, is |-> "listing"]
<1>1. /\ fsWorker = "walk" /\ pending # <<>> /\ Len(flight) < Backlog
      /\ flight' = Append(flight, x) /\ pending' = Tail(pending) /\ FsTypeOK /\ FsPlace
      /\ UNCHANGED <<fsWorker, holding, stop, fsQueue, reader, fsGot, skipped>>
  BY DEF FsInv, Submitting, CanSubmit
<1>2. h \in Tree /\ pending' \in Seq(Tree) /\ pending = <<h>> \o pending' /\ <<h>> \in Seq(Tree)
  BY <1>1, FsTypes, TailIs
<1>3. x \in Flights /\ x.is # "skip" /\ x.dir = h
  BY <1>2 DEF Flights
<1> HIDE DEF x, h
<1>4. flight' \in Seq(Flights) /\ Dirs(flight') = Dirs(flight) \o <<h>> /\ Failed(flight') = Failed(flight)
      /\ Len(flight') = Len(flight) + 1 /\ Len(flight) \in Nat
  BY <1>1, <1>3, FsTypes, FlightIs
<1>5. FsTypeOK'
  <2>1. Len(flight') <= Backlog
    BY <1>1, <1>4, FsAssumption
  <2> QED  BY <1>1, <1>2, <1>4, <2>1 DEF FsTypeOK, Flights
<1>6. FsPlace'
  BY <1>1 DEF FsPlace
<1>7. FsMade' = FsMade
  BY <1>1 DEF FsMade
<1>8. FsToDo' = FsToDo
  <2>1. FsToDo' = (Dirs(flight) \o <<h>>) \o pending' /\ FsToDo = Dirs(flight) \o (<<h>> \o pending')
    BY <1>2, <1>4 DEF FsToDo
  <2>2. Dirs(flight) \in Seq(Tree)
    BY <1>1, FsTypes
  <2>3. \A a, b, c \in Seq(Tree) : (a \o b) \o c = a \o (b \o c)
    OBVIOUS
  <2> QED  BY <1>2, <2>1, <2>2, <2>3
<1>9. FsFront' /\ FsPast'
  BY <1>1, <1>4, <1>7, <1>8 DEF FsInv, FsFront, FsPast, FsWalkIsOrdered
<1> QED  BY <1>5, <1>6, <1>9 DEF FsInv

LEMMA ListedKeepsInv ==
  ASSUME FsInv, NEW i \in DOMAIN flight, NEW how \in {"done", "skip"}, Listed(i, how)
  PROVE  FsInv'
<1> DEFINE d == flight[i].dir
<1>1. /\ flight[i].is = "listing" /\ flight' = [flight EXCEPT ![i].is = how] /\ FsTypeOK /\ FsPlace
      /\ skipped' = (IF how = "skip" THEN skipped \cup {d} ELSE skipped)
      /\ UNCHANGED <<pending, fsWorker, holding, stop, fsQueue, reader, fsGot>>
  BY DEF FsInv, Listed
<1>2. /\ flight \in Seq(Flights) /\ \A j \in DOMAIN flight : flight[j] \in Flights
      /\ DOMAIN flight = 1 .. Len(flight) /\ Len(flight) \in Nat /\ d \in Tree
  <2>1. flight \in Seq(Flights) /\ \A j \in DOMAIN flight : flight[j] \in Flights
    BY <1>1, FsTypes
  <2> QED  BY <2>1 DEF Flights
<1>3. /\ DOMAIN flight' = DOMAIN flight /\ flight'[i] = [flight[i] EXCEPT !.is = how]
      /\ \A j \in DOMAIN flight : j # i => flight'[j] = flight[j]
  BY <1>1, <1>2
<1>4. /\ flight'[i] \in Flights /\ flight'[i].dir = d /\ flight'[i].is = how
  BY <1>2, <1>3 DEF Flights
<1>5. flight' \in Seq(Flights) /\ Len(flight') = Len(flight)
  <2>1. \A j \in 1 .. Len(flight) : flight'[j] \in Flights
    BY <1>2, <1>3, <1>4
  <2>2. flight' = [j \in 1 .. Len(flight) |-> flight'[j]]
    BY <1>1, <1>2, <1>3
  <2> HIDE DEF Flights
  <2> QED  BY <1>2, <2>1, <2>2
<1>6. Dirs(flight') = Dirs(flight)
  BY <1>3, <1>4 DEF Dirs
<1>7. Failed(flight') = IF how = "skip" THEN Failed(flight) \cup {d} ELSE Failed(flight)
  <2>1. i \notin {j \in DOMAIN flight : flight[j].is = "skip"}
    BY <1>1
  <2>2. {j \in DOMAIN flight' : flight'[j].is = "skip"} =
          IF how = "skip" THEN {j \in DOMAIN flight : flight[j].is = "skip"} \cup {i}
          ELSE {j \in DOMAIN flight : flight[j].is = "skip"}
    BY <1>1, <1>3, <1>4, <2>1
  <2>3. \A j \in DOMAIN flight : flight'[j].dir = flight[j].dir
    BY <1>3, <1>4
  <2>4. CASE how = "skip"
    BY <1>3, <2>2, <2>3, <2>4 DEF Failed
  <2>5. CASE how # "skip"
    BY <1>3, <2>2, <2>3, <2>5 DEF Failed
  <2> QED  BY <2>4, <2>5
<1> HIDE DEF d
<1>8. FsTypeOK'
  <2>1. flight' \in Seq([dir : Tree, is : {"listing", "done", "skip"}])
    BY <1>5 DEF Flights
  <2> QED  BY <1>1, <1>2, <1>5, <2>1 DEF FsTypeOK
<1>9. flight # <<>>
  BY <1>2
<1>10. FsPlace'
  BY <1>1, <1>9 DEF FsPlace
<1>11. FsMade' = FsMade /\ FsToDo' = FsToDo
  BY <1>1, <1>6 DEF FsMade, FsToDo
<1>12. Holds(FsToDo, d)
  <2>1. Holds(Dirs(flight), d)
    BY <1>1, FsTypes DEF Holds, d
  <2> QED  BY <1>1, <2>1, FsTypes, ConcatHolds DEF FsToDo
<1>13. FsFront'
  <2> SUFFICES ASSUME reader \in {"read", "end"} PROVE Ordered(FsMade, FsToDo, skipped', Failed(flight'))
    BY <1>1, <1>11 DEF FsFront
  <2>1. Ordered(FsMade, FsToDo, skipped, Failed(flight))
    BY DEF FsInv, FsFront
  <2>2. Ordered(FsMade, FsToDo, skipped \cup {d}, Failed(flight) \cup {d})
    BY <1>12, <2>1, FailOne DEF Holds
  <2> QED  BY <1>1, <1>7, <2>1, <2>2
<1>14. FsPast'
  <2> SUFFICES ASSUME reader \in {"drainAll", "all", "drainCut", "cut"} PROVE FsWalkIsOrdered'
    BY <1>1 DEF FsPast
  <2>1. reader \notin {"drainAll", "all"}
    BY <1>1, <1>9 DEF FsPlace
  <2>2. FsWalkIsOrdered
    BY DEF FsInv, FsPast
  <2> QED  BY <1>1, <2>1, <2>2 DEF FsWalkIsOrdered
<1> QED  BY <1>8, <1>10, <1>13, <1>14 DEF FsInv

LEMMA FailedTail ==
  ASSUME NEW f \in Seq(Flights), f # <<>>
  PROVE  /\ Tail(f) \in Seq(Flights) /\ Head(f) \in Flights /\ Len(Tail(f)) = Len(f) - 1
         /\ Failed(Tail(f)) \subseteq Failed(f) /\ Failed(f) \subseteq Failed(Tail(f)) \cup {Head(f).dir}
         /\ Head(f).is # "skip" => Failed(f) = Failed(Tail(f))
         /\ Head(f).is = "skip" => Head(f).dir \in Failed(f)
         /\ \A e \in Failed(Tail(f)) : Holds(Dirs(Tail(f)), e)
<1>1. /\ Head(f) \in Flights /\ Tail(f) \in Seq(Flights)
      /\ DOMAIN Tail(f) = 1 .. Len(f) - 1 /\ DOMAIN f = 1 .. Len(f) /\ Len(f) \in Nat \ {0}
      /\ Head(f) = f[1] /\ \A i \in DOMAIN Tail(f) : Tail(f)[i] = f[i + 1]
  BY TailIs
<1>2. Len(Tail(f)) = Len(f) - 1
  OBVIOUS
<1>3. /\ 1 \in DOMAIN f /\ \A i \in DOMAIN Tail(f) : i + 1 \in DOMAIN f
      /\ \A i \in DOMAIN f : i # 1 => i - 1 \in DOMAIN Tail(f) /\ (i - 1) + 1 = i
  BY <1>1
<1>4. Failed(Tail(f)) \subseteq Failed(f)
  BY <1>1, <1>3 DEF Failed
<1>5. ASSUME NEW e \in Failed(f) PROVE e \in Failed(Tail(f)) \/ (e = Head(f).dir /\ Head(f).is = "skip")
  <2>1. PICK i \in DOMAIN f : f[i].is = "skip" /\ e = f[i].dir
    BY <1>5 DEF Failed
  <2>2. CASE i = 1
    BY <1>1, <2>1, <2>2
  <2>3. CASE i # 1
    <3>1. i - 1 \in DOMAIN Tail(f) /\ Tail(f)[i - 1] = f[i]
      BY <1>1, <1>3, <2>3
    <3> QED  BY <2>1, <3>1 DEF Failed
  <2> QED  BY <2>2, <2>3
<1>6. Head(f).is = "skip" => Head(f).dir \in Failed(f)
  BY <1>1, <1>3 DEF Failed
<1>7. \A e \in Failed(Tail(f)) : Holds(Dirs(Tail(f)), e)
  BY DEF Failed, Holds, Dirs
<1> QED  BY <1>1, <1>2, <1>4, <1>5, <1>6, <1>7

LEMMA TailConcat ==
  ASSUME NEW S, NEW s \in Seq(S), s # <<>>, NEW t \in Seq(S)
  PROVE  s \o t # <<>> /\ Head(s \o t) = Head(s) /\ Tail(s \o t) = Tail(s) \o t
<1>1. PICK h \in S, r \in Seq(S) : s = <<h>> \o r
  BY TailIs
<1>2. \A a \in Seq(S) : Head(<<h>> \o a) = h /\ Tail(<<h>> \o a) = a /\ <<h>> \o a # <<>>
  OBVIOUS
<1>3. <<h>> \in Seq(S) /\ \A a, b, c \in Seq(S) : (a \o b) \o c = a \o (b \o c)
  OBVIOUS
<1>4. s \o t = <<h>> \o (r \o t) /\ r \o t \in Seq(S)
  BY <1>1, <1>3, ConcatIs
<1> QED  BY <1>1, <1>2, <1>4

LEMMA TakeHeadKeepsInv ==
  ASSUME FsInv, TakeHeadListing
  PROVE  FsInv'
<1> DEFINE f == Head(flight)
           h == f.dir
           kids == Listing(h, 1)
<1>1. /\ fsWorker = "walk" /\ holding = <<>> /\ flight # <<>> /\ f.is # "listing" /\ flight' = Tail(flight)
      /\ IF f.is = "skip" THEN UNCHANGED <<pending, holding>>
         ELSE pending' = pending \o kids /\ holding' = <<h>>
      /\ FsTypeOK /\ FsPlace /\ UNCHANGED <<fsWorker, stop, fsQueue, reader, fsGot, skipped>>
  BY DEF FsInv, TakeHeadListing
<1>2. /\ flight' \in Seq(Flights) /\ f \in Flights /\ Len(flight') = Len(flight) - 1 /\ flight \in Seq(Flights)
      /\ Failed(flight') \subseteq Failed(flight) /\ Failed(flight) \subseteq Failed(flight') \cup {h}
      /\ f.is # "skip" => Failed(flight) = Failed(flight')
      /\ f.is = "skip" => h \in Failed(flight)
      /\ \A e \in Failed(flight') : Holds(Dirs(flight'), e)
  BY <1>1, FsTypes, FailedTail
<1>3. h \in Tree /\ f.is \in {"done", "skip"}
  BY <1>1, <1>2 DEF Flights
<1>4. kids \in Seq(Tree)
  BY <1>3, ChildrenAre
<1>5. pending' \in Seq(Tree) /\ holding' \in Seq(Tree) /\ Len(holding') <= 1
  <2>1. <<h>> \in Seq(Tree) /\ Len(<<h>>) = 1 /\ pending \in Seq(Tree) /\ holding \in Seq(Tree) /\ Len(<<>>) = 0
    BY <1>1, <1>3, FsTypes
  <2>2. pending \o kids \in Seq(Tree)
    BY <1>4, <2>1, ConcatIs
  <2> HIDE DEF kids, h, f
  <2>3. CASE f.is = "skip"
    <3>1. pending' = pending /\ holding' = <<>>
      BY <1>1, <2>3
    <3> QED  BY <2>1, <3>1
  <2>4. CASE f.is # "skip"
    <3>1. pending' = pending \o kids /\ holding' = <<h>>
      BY <1>1, <2>4
    <3> QED  BY <2>1, <2>2, <3>1
  <2> QED  BY <2>3, <2>4
<1>6. FsTypeOK'
  <2>1. Len(flight') <= Backlog
    <3>1. Len(flight) \in Nat /\ Len(flight) <= Backlog
      BY <1>1, <1>2 DEF FsTypeOK
    <3> QED  BY <1>2, <3>1, FsAssumption
  <2>2. flight' \in Seq([dir : Tree, is : {"listing", "done", "skip"}])
    BY <1>2 DEF Flights
  <2> HIDE DEF kids, h, f
  <2> QED  BY <1>1, <1>5, <2>1, <2>2 DEF FsTypeOK
<1>7. FsPlace'
  <2> HIDE DEF kids, h, f
  <2> QED  BY <1>1 DEF FsPlace
<1>8. /\ FsToDo # <<>> /\ Head(FsToDo) = h /\ Dirs(flight') \in Seq(Tree)
      /\ Tail(FsToDo) = Dirs(flight') \o pending
  <2>1. /\ Dirs(flight) # <<>> /\ Head(Dirs(flight)) = h /\ Tail(Dirs(flight)) = Dirs(flight')
        /\ Dirs(flight) \in Seq(Tree) /\ pending \in Seq(Tree)
    BY <1>1, <1>2, FsTypes, AnyDirsTail
  <2>2. Dirs(flight') \in Seq(Tree)
    BY <2>1, TailIs
  <2>3. PICK s : s = Dirs(flight)
    OBVIOUS
  <2>4. s \o pending # <<>> /\ Head(s \o pending) = Head(s) /\ Tail(s \o pending) = Tail(s) \o pending
    <3>1. s \in Seq(Tree) /\ s # <<>> /\ pending \in Seq(Tree)
      BY <2>1, <2>3
    <3> QED  BY <3>1, TailConcat
  <2> HIDE DEF kids, h, f
  <2> QED  BY <2>1, <2>2, <2>3, <2>4 DEF FsToDo
<1>9. pending \in Seq(Tree) /\ FsToDo \in Seq(Tree) /\ fsGot \o Plain(fsQueue) \in Seq(Tree)
      /\ FsMade = fsGot \o Plain(fsQueue)
  BY <1>1, FsTypes, FsMadeIs
<1>10. CASE f.is = "skip"
  <2>1. FsMade' = FsMade /\ FsToDo' = Tail(FsToDo)
    BY <1>1, <1>8, <1>10 DEF FsMade, FsToDo
  <2>2. FsFront'
    <3> SUFFICES ASSUME reader \in {"read", "end"} PROVE Ordered(FsMade, Tail(FsToDo), skipped, Failed(flight'))
      BY <1>1, <2>1 DEF FsFront
    <3>1. Ordered(FsMade, FsToDo, skipped, Failed(flight))
      BY DEF FsInv, FsFront
    <3>2. Ordered(FsMade, Tail(FsToDo), skipped, Failed(flight) \ {h})
      BY <1>2, <1>8, <1>10, <3>1, SkipHead
    <3>3. h \notin Failed(flight')
      <4> SUFFICES ASSUME h \in Failed(flight') PROVE FALSE
        OBVIOUS
      <4>1. Holds(Dirs(flight'), h)
        BY <1>2
      <4>2. Holds(Dirs(flight') \o pending, h)
        <5>1. \A s \in Seq(Tree) : Holds(s, h) => Holds(s \o pending, h)
          BY <1>9, ConcatHolds
        <5> QED  BY <1>8, <4>1, <5>1
      <4>3. \A i \in DOMAIN Tail(FsToDo) : Precedes("bfs", Head(FsToDo), Tail(FsToDo)[i])
        <5>1. FsMade \in Seq(Tree) /\ Ascends("bfs", FsMade \o FsToDo) /\ Tree \in SUBSET Paths
          BY <3>1, TreeIs DEF Ordered
        <5> QED  BY <1>8, <1>9, <5>1, Split
      <4>4. Precedes("bfs", h, h)
        BY <1>8, <4>2, <4>3 DEF Holds
      <4> QED  BY <1>3, <4>4, InTree, PathOrder
    <3>4. Failed(flight') = Failed(flight) \ {h}
      BY <1>2, <3>3
    <3> QED  BY <3>2, <3>4
  <2> HIDE DEF kids, h, f
  <2>3. FsPast'
    BY <1>1 DEF FsInv, FsPast, FsWalkIsOrdered
  <2> QED  BY <1>6, <1>7, <2>2, <2>3 DEF FsInv
<1>11. CASE f.is # "skip"
  <2>1. FsMade' = FsMade \o <<h>> /\ FsToDo' = Tail(FsToDo) \o kids
    <3>1. FsMade' = FsMade \o <<h>>
      BY <1>1, <1>9, <1>11 DEF FsMade
    <3>2. FsToDo' = Dirs(flight') \o (pending \o kids)
      BY <1>1, <1>11 DEF FsToDo
    <3>3. \A a, b, c \in Seq(Tree) : (a \o b) \o c = a \o (b \o c)
      OBVIOUS
    <3>4. Dirs(flight') \o (pending \o kids) = (Dirs(flight') \o pending) \o kids
      BY <1>4, <1>8, <1>9, <3>3
    <3> QED  BY <1>8, <3>1, <3>2, <3>4
  <2>2. FsFront'
    <3> SUFFICES ASSUME reader \in {"read", "end"}
                 PROVE  Ordered(FsMade \o <<h>>, Tail(FsToDo) \o kids, skipped, Failed(flight))
      BY <1>1, <1>2, <1>11, <2>1 DEF FsFront
    <3>1. Ordered(FsMade, FsToDo, skipped, Failed(flight))
      BY DEF FsInv, FsFront
    <3>2. h \notin Failed(flight)
      <4> SUFFICES ASSUME h \in Failed(flight') PROVE FALSE
        BY <1>2, <1>11
      <4>1. Holds(Dirs(flight'), h)
        BY <1>2
      <4>2. Holds(Dirs(flight') \o pending, h)
        <5>1. \A s \in Seq(Tree) : Holds(s, h) => Holds(s \o pending, h)
          BY <1>9, ConcatHolds
        <5> QED  BY <1>8, <4>1, <5>1
      <4>3. \A i \in DOMAIN Tail(FsToDo) : Precedes("bfs", Head(FsToDo), Tail(FsToDo)[i])
        <5>1. FsMade \in Seq(Tree) /\ Ascends("bfs", FsMade \o FsToDo) /\ Tree \in SUBSET Paths
          BY <3>1, TreeIs DEF Ordered
        <5> QED  BY <1>8, <1>9, <5>1, Split
      <4>4. Precedes("bfs", h, h)
        BY <1>8, <4>2, <4>3 DEF Holds
      <4> QED  BY <1>3, <4>4, InTree, PathOrder
    <3> QED  BY <1>8, <3>1, <3>2, ListHead
  <2> HIDE DEF kids, h, f
  <2>3. FsPast'
    BY <1>1 DEF FsInv, FsPast, FsWalkIsOrdered
  <2> QED  BY <1>6, <1>7, <2>2, <2>3 DEF FsInv
<1> QED  BY <1>10, <1>11

\* What leaves the made, the to-do and the failed alone.
LEMMA FrontStays ==
  ASSUME FsInv, FsTypeOK', FsPlace', FsMade' = FsMade, FsToDo' = FsToDo,
         UNCHANGED <<flight, skipped>>,
         reader' \in {"read", "end"} => reader \in {"read", "end"},
         reader' \in {"drainAll", "all", "drainCut", "cut"} => FsWalkIsOrdered'
  PROVE  FsInv'
  BY DEF FsInv, FsFront, FsPast

LEMMA FsPutKeepsInv ==
  ASSUME FsInv, FsPut
  PROVE  FsInv'
<1>1. /\ fsWorker = "put" /\ Len(fsQueue) < FsQueueSize /\ fsQueue' = Append(fsQueue, holding[1])
      /\ holding' = <<>> /\ fsWorker' = "walk" /\ FsTypeOK /\ FsPlace
      /\ UNCHANGED <<pending, flight, stop, reader, fsGot, skipped>>
  BY DEF FsInv, FsPut
<1>2. holding[1] \in Tree /\ holding = <<holding[1]>>
  <2>1. holding \in Seq(Tree) /\ holding # <<>> /\ Len(holding) <= 1
    BY <1>1 DEF FsTypeOK, FsPlace
  <2>6. Len(holding) \in Nat \ {0}
    BY <2>1, TailIs
  <2>2. Len(holding) = 1
    <3>1. PICK n : n = Len(holding)
      OBVIOUS
    <3>2. n \in Nat \ {0} /\ n <= 1
      BY <2>1, <2>6, <3>1
    <3>3. n = 1
      BY <3>2
    <3> QED  BY <3>1, <3>3
  <2>3. DOMAIN holding = {1} /\ holding = [i \in {1} |-> holding[i]] /\ holding[1] \in Tree
    BY <2>1, <2>2
  <2>4. <<holding[1]>> = [i \in {1} |-> holding[1]]
    OBVIOUS
  <2>5. \A i \in {1} : holding[i] = holding[1]
    OBVIOUS
  <2> QED  BY <2>3, <2>4, <2>5
<1>3. /\ fsQueue \in Seq(Tree \cup {Sentinel}) /\ ~Holds(fsQueue, Sentinel) /\ holding[1] # Sentinel
      /\ fsGot \in Seq(Tree) /\ Plain(fsQueue) \in Seq(Tree)
  BY <1>1, <1>2, FsTypes, FsMadeIs, TreeIs
<1>4. /\ fsQueue \in Seq(Tree) /\ Plain(fsQueue) = fsQueue
      /\ Plain(fsQueue') = fsQueue \o <<holding[1]>> /\ ~Holds(fsQueue', Sentinel)
  BY <1>1, <1>2, <1>3, PlainAppend
<1>5. FsTypeOK'
  <2>1. fsQueue' \in Seq(Tree \cup {Sentinel}) /\ Len(fsQueue') = Len(fsQueue) + 1 /\ Len(fsQueue) \in Nat
    BY <1>1, <1>2, <1>3
  <2>2. Len(fsQueue') <= FsQueueSize
    BY <1>1, <2>1, FsAssumption
  <2>3. holding' \in Seq(Tree) /\ Len(holding') <= 1
    BY <1>1
  <2> QED  BY <1>1, <2>1, <2>2, <2>3 DEF FsTypeOK
<1>6. FsPlace'
  BY <1>1, <1>4 DEF FsPlace, Holds
<1>7. FsMade' = FsMade
  <2>1. \A a, b, c \in Seq(Tree) : (a \o b) \o c = a \o (b \o c)
    OBVIOUS
  <2>2. <<holding[1]>> \in Seq(Tree)
    BY <1>2
  <2>3. (fsGot \o fsQueue) \o <<holding[1]>> = fsGot \o (fsQueue \o <<holding[1]>>)
    BY <1>3, <1>4, <2>1, <2>2
  <2>4. FsMade = (fsGot \o fsQueue) \o <<holding[1]>>
    BY <1>2, <1>4 DEF FsMade
  <2>5. FsMade' = (fsGot \o (fsQueue \o <<holding[1]>>)) \o <<>>
    BY <1>1, <1>4 DEF FsMade
  <2>6. fsGot \o (fsQueue \o <<holding[1]>>) \in Seq(Tree)
    BY <1>3, <1>4, <2>2, ConcatIs
  <2>7. \A a \in Seq(Tree) : a \o <<>> = a
    OBVIOUS
  <2> QED  BY <2>3, <2>4, <2>5, <2>6, <2>7
<1>8. FsToDo' = FsToDo
  BY <1>1 DEF FsToDo
<1>9. reader' \in {"drainAll", "all", "drainCut", "cut"} => FsWalkIsOrdered'
  BY <1>1 DEF FsInv, FsPast, FsWalkIsOrdered
<1> QED  BY <1>1, <1>5, <1>6, <1>7, <1>8, <1>9, FrontStays

LEMMA FsPutNoneKeepsInv ==
  ASSUME FsInv, FsPutNone
  PROVE  FsInv'
<1>1. /\ fsWorker = "none" \/ (fsWorker = "walk" /\ pending = <<>> /\ flight = <<>> /\ holding = <<>>)
      /\ Len(fsQueue) < FsQueueSize /\ fsQueue' = Append(fsQueue, Sentinel) /\ fsWorker' = "dead"
      /\ FsTypeOK /\ FsPlace /\ UNCHANGED <<pending, flight, holding, stop, reader, fsGot, skipped>>
  BY DEF FsInv, FsPutNone
<1>2. fsQueue \in Seq(Tree \cup {Sentinel}) /\ ~Holds(fsQueue, Sentinel)
  BY <1>1, FsTypes, FsMadeIs
<1>3. Plain(fsQueue') = Plain(fsQueue) /\ Closing(fsQueue')
  BY <1>1, <1>2, PlainAppend
<1>4. FsTypeOK'
  <2>1. fsQueue' \in Seq(Tree \cup {Sentinel}) /\ Len(fsQueue') = Len(fsQueue) + 1 /\ Len(fsQueue) \in Nat
    BY <1>1, <1>2
  <2>2. Len(fsQueue') <= FsQueueSize
    BY <1>1, <2>1, FsAssumption
  <2> QED  BY <1>1, <2>1, <2>2 DEF FsTypeOK
<1>5. FsPlace'
  <2>1. reader # "end" /\ reader \notin {"drainAll", "all"} /\ reader # "off" /\ (~stop => fsWorker = "walk")
    BY <1>1 DEF FsPlace
  <2> QED  BY <1>1, <1>3, <2>1 DEF FsPlace, Closing
<1>6. FsMade' = FsMade /\ FsToDo' = FsToDo
  BY <1>1, <1>3 DEF FsMade, FsToDo
<1>7. reader' \in {"drainAll", "all", "drainCut", "cut"} => FsWalkIsOrdered'
  BY <1>1 DEF FsInv, FsPast, FsWalkIsOrdered
<1> QED  BY <1>1, <1>4, <1>5, <1>6, <1>7, FrontStays

LEMMA ReadKeepsInv ==
  ASSUME FsInv, Read
  PROVE  FsInv'
<1> DEFINE h == Head(fsQueue)
<1>1. /\ reader = "read" /\ fsQueue # <<>> /\ fsQueue' = Tail(fsQueue) /\ FsTypeOK /\ FsPlace
      /\ IF h = Sentinel THEN reader' = "end" /\ UNCHANGED fsGot
         ELSE fsGot' = Append(fsGot, h) /\ UNCHANGED reader
      /\ UNCHANGED <<pending, flight, fsWorker, holding, stop, skipped>>
  BY DEF FsInv, Read
<1>2. fsQueue \in Seq(Tree \cup {Sentinel}) /\ Closing(fsQueue) /\ fsGot \in Seq(Tree)
  BY <1>1, FsTypes, FsMadeIs
<1>3. /\ Closing(fsQueue') /\ fsQueue' \in Seq(Tree \cup {Sentinel}) /\ Len(fsQueue') = Len(fsQueue) - 1
      /\ h # Sentinel => h \in Tree /\ Plain(fsQueue) = <<h>> \o Plain(fsQueue')
      /\ h = Sentinel => Plain(fsQueue) = <<>> /\ fsQueue' = <<>>
  BY <1>1, <1>2, PlainHead
<1>4. /\ DOMAIN fsQueue' = 1 .. Len(fsQueue) - 1 /\ DOMAIN fsQueue = 1 .. Len(fsQueue) /\ Len(fsQueue) \in Nat \ {0}
      /\ h = fsQueue[1] /\ \A i \in DOMAIN fsQueue' : fsQueue'[i] = fsQueue[i + 1]
  BY <1>1, <1>2, TailIs
<1> HIDE DEF h
<1>5. FsTypeOK'
  <2>1. Len(fsQueue') <= FsQueueSize
    <3>1. Len(fsQueue) \in Nat /\ Len(fsQueue) <= FsQueueSize
      BY <1>1, <1>4 DEF FsTypeOK
    <3> QED  BY <1>3, <3>1, FsAssumption
  <2>2. fsGot' \in Seq(Tree)
    <3>1. h # Sentinel => Append(fsGot, h) \in Seq(Tree)
      BY <1>2, <1>3
    <3> QED  BY <1>1, <1>2, <3>1
  <2> QED  BY <1>1, <1>3, <2>1, <2>2 DEF FsTypeOK
<1>6. \A i \in DOMAIN fsQueue' : i + 1 \in DOMAIN fsQueue
  BY <1>4
<1>7. h = Sentinel => fsWorker = "dead"
  <2>1. 1 \in DOMAIN fsQueue
    BY <1>4
  <2> QED  BY <1>1, <1>4, <2>1 DEF FsPlace
<1>8. FsPlace'
  <2>1. \A i \in DOMAIN fsQueue' : fsQueue'[i] = Sentinel => i = Len(fsQueue') /\ fsWorker = "dead"
    BY <1>1, <1>3, <1>4, <1>6 DEF FsPlace, Closing
  <2> QED  BY <1>1, <1>3, <1>7, <2>1 DEF FsPlace
<1>9. FsMade' = FsMade
  <2>1. CASE h = Sentinel
    <3>1. Plain(fsQueue') = <<>>
      BY <1>3, <2>1 DEF Plain
    <3> QED  BY <1>1, <1>3, <2>1, <3>1 DEF FsMade
  <2>2. CASE h # Sentinel
    <3>1. Plain(fsQueue') \in Seq(Tree)
      BY <1>3, PlainIs
    <3>6. \A a \in Seq(Tree), x \in Tree : Append(a, x) = a \o <<x>> /\ <<x>> \in Seq(Tree)
      OBVIOUS
    <3>2. fsGot' = fsGot \o <<h>> /\ <<h>> \in Seq(Tree)
      BY <1>1, <1>2, <1>3, <2>2, <3>6
    <3>3. \A a, b, c \in Seq(Tree) : (a \o b) \o c = a \o (b \o c)
      OBVIOUS
    <3>4. (fsGot \o <<h>>) \o Plain(fsQueue') = fsGot \o (<<h>> \o Plain(fsQueue'))
      BY <1>2, <3>1, <3>2, <3>3
    <3>5. fsGot' \o Plain(fsQueue') = fsGot \o Plain(fsQueue)
      BY <1>3, <2>2, <3>2, <3>4
    <3> QED  BY <1>1, <3>5 DEF FsMade
  <2> QED  BY <2>1, <2>2
<1>10. FsToDo' = FsToDo
  BY <1>1 DEF FsToDo
<1>11. reader' \in {"read", "end"}
  BY <1>1
<1> QED  BY <1>1, <1>5, <1>8, <1>9, <1>10, <1>11, FrontStays

LEMMA FsDrainKeepsInv ==
  ASSUME FsInv, FsDrain
  PROVE  FsInv'
<1>1. /\ reader \in {"drainAll", "drainCut"} /\ FsTypeOK /\ FsPlace /\ FsWalkIsOrdered
      /\ UNCHANGED <<pending, flight, fsWorker, holding, stop, fsGot, skipped>>
  BY DEF FsInv, FsPast, FsDrain
<1>2. CASE fsWorker = "dead"
  <2>1. reader' = (IF reader = "drainAll" THEN "all" ELSE "cut") /\ UNCHANGED fsQueue
    BY <1>1, <1>2 DEF FsDrain
  <2>2. FsTypeOK'
    BY <1>1, <2>1 DEF FsTypeOK
  <2>3. FsPlace'
    BY <1>1, <1>2, <2>1 DEF FsPlace
  <2>4. FsWalkIsOrdered' /\ reader' \notin {"read", "end"}
    BY <1>1, <2>1 DEF FsWalkIsOrdered
  <2> QED  BY <2>2, <2>3, <2>4 DEF FsInv, FsFront, FsPast
<1>3. CASE fsWorker # "dead"
  <2>1. fsQueue # <<>> /\ fsQueue' = Tail(fsQueue) /\ UNCHANGED reader
    BY <1>1, <1>3 DEF FsDrain
  <2>2. fsQueue \in Seq(Tree \cup {Sentinel}) /\ Closing(fsQueue) /\ ~Holds(fsQueue, Sentinel)
    BY <1>1, <1>3, FsTypes, FsMadeIs
  <2>3. fsQueue' \in Seq(Tree \cup {Sentinel}) /\ Len(fsQueue') = Len(fsQueue) - 1
    BY <2>1, <2>2, PlainHead
  <2>4. /\ DOMAIN fsQueue' = 1 .. Len(fsQueue) - 1 /\ DOMAIN fsQueue = 1 .. Len(fsQueue) /\ Len(fsQueue) \in Nat \ {0}
        /\ \A i \in DOMAIN fsQueue' : fsQueue'[i] = fsQueue[i + 1]
    BY <2>1, <2>2, TailIs
  <2>5. FsTypeOK'
    <3>1. Len(fsQueue') <= FsQueueSize
      <4>1. Len(fsQueue) \in Nat /\ Len(fsQueue) <= FsQueueSize
        BY <1>1, <2>4 DEF FsTypeOK
      <4> QED  BY <2>3, <4>1, FsAssumption
    <3> QED  BY <1>1, <2>1, <2>3, <3>1 DEF FsTypeOK
  <2>6. FsPlace'
    <3>1. \A i \in DOMAIN fsQueue' : i + 1 \in DOMAIN fsQueue
      BY <2>4
    <3>2. \A i \in DOMAIN fsQueue' : fsQueue'[i] # Sentinel
      BY <2>2, <2>4, <3>1 DEF Holds
    <3> QED  BY <1>1, <1>3, <2>1, <3>2 DEF FsPlace
  <2>7. FsWalkIsOrdered' /\ reader' \notin {"read", "end"}
    BY <1>1, <2>1 DEF FsWalkIsOrdered
  <2> QED  BY <2>5, <2>6, <2>7 DEF FsInv, FsFront, FsPast
<1> QED  BY <1>2, <1>3

LEMMA FsRestKeepsInv ==
  ASSUME FsInv, Yielded \/ Exit \/ UNCHANGED fsVars
  PROVE  FsInv'
<1>1. FsTypeOK /\ FsPlace
  BY DEF FsInv
<1>2. CASE Yielded
  <2>1. /\ fsWorker = "walk" /\ holding # <<>> /\ fsWorker' = (IF stop THEN "none" ELSE "put")
        /\ UNCHANGED <<pending, flight, holding, stop, fsQueue, reader, fsGot, skipped>>
    BY <1>2 DEF Yielded
  <2>2. FsTypeOK' /\ FsPlace'
    BY <1>1, <2>1 DEF FsTypeOK, FsPlace
  <2>3. FsMade' = FsMade /\ FsToDo' = FsToDo
    BY <2>1 DEF FsMade, FsToDo
  <2>4. reader' \in {"drainAll", "all", "drainCut", "cut"} => FsWalkIsOrdered'
    BY <2>1 DEF FsInv, FsPast, FsWalkIsOrdered
  <2> QED  BY <2>1, <2>2, <2>3, <2>4, FrontStays
<1>3. CASE Exit
  <2>1. /\ reader \in {"read", "end"} /\ reader' = (IF reader = "end" THEN "drainAll" ELSE "drainCut") /\ stop' = TRUE
        /\ UNCHANGED <<pending, flight, fsWorker, holding, fsQueue, fsGot, skipped>>
    BY <1>3 DEF Exit
  <2>2. FsTypeOK'
    BY <1>1, <2>1 DEF FsTypeOK
  <2>3. FsPlace'
    BY <1>1, <2>1 DEF FsPlace
  <2>4. FsWalkIsOrdered
    BY <2>1, FsIsOrdered
  <2>5. FsWalkIsOrdered'
    BY <2>1, <2>4 DEF FsWalkIsOrdered
  <2> QED  BY <2>1, <2>2, <2>3, <2>5 DEF FsInv, FsFront, FsPast
<1>4. CASE UNCHANGED fsVars
  <2> USE <1>4 DEF fsVars
  <2>1. FsTypeOK' /\ FsPlace'
    BY <1>1 DEF FsTypeOK, FsPlace
  <2>2. FsMade' = FsMade /\ FsToDo' = FsToDo
    BY DEF FsMade, FsToDo
  <2>3. reader' \in {"drainAll", "all", "drainCut", "cut"} => FsWalkIsOrdered'
    BY DEF FsInv, FsPast, FsWalkIsOrdered
  <2> QED  BY <2>1, <2>2, <2>3, FrontStays
<1> QED  BY <1>2, <1>3, <1>4

LEMMA FsStepsKeepInv == FsInv /\ [FsNext]_fsVars => FsInv'
<1> SUFFICES ASSUME FsInv, [FsNext]_fsVars PROVE FsInv'
  OBVIOUS
<1>1. ASSUME NEW i \in DOMAIN flight, Listed(i, "done") \/ Listed(i, "skip") PROVE FsInv'
  BY <1>1, ListedKeepsInv
<1> QED  BY <1>1, EnterKeepsInv, SubmittingKeepsInv, TakeHeadKeepsInv, FsPutKeepsInv, FsPutNoneKeepsInv,
            ReadKeepsInv, FsDrainKeepsInv, FsRestKeepsInv
         DEF FsNext, FsStep, FsCall, FsFault

-----------------------------------------------------------------------------
(* The behaviors.                                                          *)

\* A walk yields the directories in its order, a beginning of them whatever
\* fails and whenever it is broken off, and all of them if it returns
\* (walk_runner_breadth_first, walk_runner_depth_first, _walk_stream).
THEOREM Walks == WalkInit /\ [][WalkNext]_walkVars => []WalkIsWhole
  BY WalkInitially, WalkStepsKeepInv, WalksAreWhole, PTL

\* A scan without a limit yields missing directories only, and all of them if
\* it returns (scan_missing_folders, _async_diff_dir_walk_task).
THEOREM Scans == WalkInit /\ [][WalkNext]_walkVars => []ScanFindsMissing
  BY WalkInitially, WalkStepsKeepInv, ScansAreWhole, PTL

\* The walk of an FSPath gives its results level by level in their order
\* however fast they are listed, and read to its end every directory that is
\* not at or below a failed listing (FSWalkThread, FSWalker).
THEOREM FsWalks == FsInit /\ [][FsNext]_fsVars => []FsWalkIsOrdered
  BY FsInitially, FsStepsKeepInv, FsIsOrdered, PTL

=============================================================================
