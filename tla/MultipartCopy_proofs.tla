------------------------ MODULE MultipartCopy_proofs ------------------------
(***************************************************************************)
(* Theorems about MultipartCopy, for any object, chunk size, number of     *)
(* threads, calls, crashes and faults.                                     *)
(*                                                                         *)
(* First the operators: what the layout of an object in parts is, and what *)
(* ObjectSize, a fold, computes.  Then the invariants.  Of the merge's     *)
(* records: what S3 holds of a multipart upload only grows (HoldsMore),    *)
(* and each copy of the MergeState (the call's own, the one the writer is  *)
(* writing, the one a writer left behind still writes, merge.json) claims  *)
(* no more than that (Records).  Of its result: info.json is never of      *)
(* larger chunks than the object's, so a directory that passes for whole   *)
(* lacks the first part at most (FetchedParts); every copy of the          *)
(* MergeState lists one of the two (WholeInv), and only the whole one has  *)
(* the size that Cleanup asks for.  Of an upload: the semaphore bounds the *)
(* parts submitted and not yet copied (TasksInv), hence the files staged.  *)
(***************************************************************************)
EXTENDS MultipartCopy, FiniteSetTheorems, WellFoundedInduction, TLAPS

-----------------------------------------------------------------------------
(* The arithmetic of parts.                                                *)

\* The least number of a set: a minimal counterexample stands for an induction.
LEMMA LeastNat ==
  ASSUME NEW T, T \subseteq Nat, T # {}
  PROVE  \E x \in T : \A y \in T : x <= y
<1> DEFINE R == OpToRel(<, Nat)
<1>1. IsWellFoundedOn(R, Nat)
  BY NatLessThanWellFounded
<1>2. \A x, y \in Nat : y < x => <<y, x>> \in R
  BY DEF OpToRel
<1> HIDE DEF R
<1>3. PICK x \in T : \A y \in T : ~ (<<y, x>> \in R)
  BY <1>1, WFMin
<1>4. \A y \in T : ~ (y < x)
  BY <1>2, <1>3
<1> QED  BY <1>4

LEMMA Times == ASSUME NEW a \in Int, NEW b \in Int, NEW k \in Nat, a <= b PROVE k * a <= k * b
  OBVIOUS

LEMMA TimesLess == ASSUME NEW a \in Int, NEW b \in Int, NEW k \in Nat \ {0}, k * a < k * b PROVE a < b
<1>1. CASE b <= a
  BY <1>1, Times
<1> QED  BY <1>1

LEMMA QuotientBounds ==
  ASSUME NEW n \in Nat, NEW b \in Nat \ {0}
  PROVE  b * (n \div b) <= n /\ n < b * (n \div b) + b
  BY SMTT(60)

LEMMA CeilDivBounds ==
  ASSUME NEW a \in Nat, NEW b \in Nat \ {0}
  PROVE  /\ CeilDiv(a, b) \in Nat /\ a <= b * CeilDiv(a, b) /\ b * CeilDiv(a, b) < a + b
         /\ a > 0 => CeilDiv(a, b) > 0
<1> DEFINE n == a + b - 1
           q == n \div b
<1>1. n \in Nat /\ q \in Int
  OBVIOUS
<1>2. b * q <= n /\ n < b * q + b
  BY <1>1, QuotientBounds
<1>3. CeilDiv(a, b) = q
  BY DEF CeilDiv
<1> HIDE DEF q
<1>4. b * q <= n /\ n < b * q + b /\ n = a + b - 1 /\ b * q \in Int
  BY <1>1, <1>2
<1> HIDE DEF n
<1>5. a <= b * q /\ b * q < a + b
  BY <1>1, <1>4
<1>6. b * (-1) < b * q /\ (a > 0 => b * 0 < b * q)
  BY <1>4, <1>1
<1>7. (-1) < q /\ (a > 0 => 0 < q)
  BY <1>6, <1>1, TimesLess
<1> QED  BY <1>1, <1>3, <1>5, <1>7

LEMMA CeilDivAntitone ==
  ASSUME NEW a \in Nat, NEW b \in Nat \ {0}, NEW d \in Nat \ {0}, b <= d
  PROVE  CeilDiv(a, d) <= CeilDiv(a, b)
<1>1. PICK q \in Nat : q = CeilDiv(a, b) /\ a <= b * q
  BY CeilDivBounds
<1>2. PICK r \in Nat : r = CeilDiv(a, d) /\ d * r < a + d
  BY CeilDivBounds
<1>3. q * b <= q * d
  BY Times
<1>4. b * q = q * b /\ d * q = q * d /\ d * (q + 1) = d * q + d
  OBVIOUS
<1>5. d * r < d * (q + 1)
  BY <1>1, <1>2, <1>3, <1>4
<1>6. r < q + 1
  BY <1>5, TimesLess
<1> QED  BY <1>1, <1>2, <1>6

\* The bytes of every part but the last.
PartChunk == ChunkSize(Size, Chunk)

LEMMA ChunkSizeNat ==
  ASSUME NEW t \in Nat \ {0}
  PROVE  ChunkSize(Size, t) \in Nat \ {0} /\ (t <= PartChunk => ChunkSize(Size, t) <= PartChunk)
<1>1. CeilDiv(Size, MaxPartNumber) \in Nat
  BY CeilDivBounds, PartsDirAssumption
<1> QED  BY <1>1, PartsDirAssumption DEF PartChunk, ChunkSize

LEMMA IntervalCardinality ==
  ASSUME NEW a \in Int, NEW b \in Int, a <= b + 1
  PROVE  IsFiniteSet(a .. b) /\ Cardinality(a .. b) = b - a + 1
  BY FS_Interval

LEMMA Layout ==
  /\ PartChunk \in Nat \ {0} /\ LastPart \in Nat \ {0} /\ AllParts = 1 .. LastPart
  /\ LastPart = CeilDiv(Size, PartChunk)
  /\ (LastPart - 1) * PartChunk < Size /\ Size <= LastPart * PartChunk
<1>1. PartChunk \in Nat \ {0}
  BY ChunkSizeNat, PartsDirAssumption DEF PartChunk
<1>2. PICK n : n = CeilDiv(Size, PartChunk)
  OBVIOUS
<1>6. n \in Nat \ {0} /\ Size <= PartChunk * n /\ PartChunk * n < Size + PartChunk
  BY <1>1, <1>2, CeilDivBounds, PartsDirAssumption
<1>3. AllParts = 1 .. n
  BY <1>2 DEF AllParts, SplitParts, PartChunk
<1>4. LastPart = n
  BY <1>6, <1>3, IntervalCardinality DEF LastPart
<1>5. (n - 1) * PartChunk = PartChunk * n - PartChunk /\ n * PartChunk = PartChunk * n
  BY <1>1, <1>6
<1> QED  BY <1>1, <1>2, <1>3, <1>4, <1>5, <1>6, PartsDirAssumption

LEMMA PartSizes ==
  ASSUME NEW n \in AllParts
  PROVE  /\ PartSize(n) = IF n = LastPart THEN Size - (LastPart - 1) * PartChunk ELSE PartChunk
         /\ PartSize(n) \in 1 .. PartChunk /\ PartSize(n) \in 1 .. Size
<1> DEFINE c == PartChunk
           low == (n - 1) * c
           high == n * c
<1>1. n \in 1 .. LastPart /\ c \in Nat \ {0} /\ LastPart \in Nat /\ Size \in Nat
  BY Layout, PartsDirAssumption
<1>2. PartSize(n) = (IF high > Size THEN Size ELSE high) - low
  BY <1>1, Layout DEF PartSize, SplitParts, PartChunk, AllParts
<1>3. low \in Nat /\ high \in Nat /\ high = low + c
  BY <1>1
<1>4. high <= LastPart * c /\ low <= (LastPart - 1) * c
  BY <1>1
<1>5. CASE n = LastPart
  <2> HIDE DEF high, low, c
  <2>1. low < Size /\ Size <= high /\ low = (LastPart - 1) * PartChunk
    BY <1>5, Layout DEF low, high, c
  <2> QED  BY <1>1, <1>2, <1>3, <1>5, <2>1 DEF c
<1>6. CASE n # LastPart
  <2>1. n <= LastPart - 1
    BY <1>1, <1>6
  <2>2. high <= (LastPart - 1) * c
    BY <1>1, <2>1
  <2> HIDE DEF high, low, c
  <2>3. high < Size
    BY <1>1, <1>3, <2>2, Layout DEF c
  <2> QED  BY <1>1, <1>2, <1>3, <1>6, <2>3 DEF c
<1> QED  BY <1>5, <1>6

LEMMA WholeIs ==
  /\ Whole \in Seq(AllParts) /\ Len(Whole) = LastPart /\ \A i \in 1 .. LastPart : Whole[i] = i
  /\ Tail(Whole) \in Seq(AllParts) /\ Len(Tail(Whole)) = LastPart - 1
  /\ \A i \in 1 .. LastPart - 1 : Tail(Whole)[i] = i + 1
<1>1. Whole \in Seq(AllParts) /\ Len(Whole) = LastPart /\ \A i \in 1 .. LastPart : Whole[i] = i
  BY Layout DEF Whole
<1> QED  BY <1>1, Layout

\* The parts of a directory in order, with the first of them and without.
LEMMA AscendingAll == Ascending(AllParts) = Whole
<1>1. Cardinality(AllParts) = LastPart
  BY DEF LastPart
<1>2. ASSUME NEW i \in 1 .. LastPart PROVE Ascending(AllParts)[i] = i
  <2>1. ASSUME NEW n \in AllParts PROVE Cardinality({m \in AllParts : m < n}) = n - 1
    <3>1. {m \in AllParts : m < n} = 1 .. n - 1
      BY Layout
    <3>2. n \in Int /\ 1 <= n
      BY Layout
    <3>3. Cardinality(1 .. n - 1) = (n - 1) - 1 + 1
      BY <3>2, IntervalCardinality
    <3>4. Cardinality({m \in AllParts : m < n}) = Cardinality(1 .. n - 1)
      BY <3>1
    <3> QED  BY <3>2, <3>3, <3>4
  <2>2. Ascending(AllParts)[i] = CHOOSE n \in AllParts : Cardinality({m \in AllParts : m < n}) = i - 1
    BY <1>1 DEF Ascending
  <2>3. \A n \in AllParts : Cardinality({m \in AllParts : m < n}) = i - 1 <=> n = i
    BY <2>1, Layout
  <2> QED  BY <2>2, <2>3, Layout
<1> QED  BY <1>1, <1>2 DEF Ascending, Whole

LEMMA AscendingRest == Ascending(AllParts \ {1}) = Tail(Whole)
<1> DEFINE rest == AllParts \ {1}
<1>1. Cardinality(rest) = LastPart - 1 /\ rest = 2 .. LastPart
  <2>1. rest = 2 .. LastPart
    BY Layout
  <2>2. LastPart \in Int /\ 1 <= LastPart
    BY Layout
  <2>3. Cardinality(2 .. LastPart) = LastPart - 2 + 1
    BY <2>2, IntervalCardinality
  <2>4. Cardinality(rest) = Cardinality(2 .. LastPart)
    BY <2>1
  <2> QED  BY <2>1, <2>2, <2>3, <2>4
<1> HIDE DEF rest
<1>2. ASSUME NEW i \in 1 .. LastPart - 1 PROVE Ascending(rest)[i] = i + 1
  <2>1. ASSUME NEW n \in rest PROVE Cardinality({m \in rest : m < n}) = n - 2
    <3>1. {m \in rest : m < n} = 2 .. n - 1
      BY <1>1, Layout
    <3>2. n \in Int /\ 2 <= n
      BY <1>1
    <3>3. Cardinality(2 .. n - 1) = (n - 1) - 2 + 1
      BY <3>2, IntervalCardinality
    <3>4. Cardinality({m \in rest : m < n}) = Cardinality(2 .. n - 1)
      BY <3>1
    <3> QED  BY <3>2, <3>3, <3>4
  <2>2. Ascending(rest)[i] = CHOOSE n \in rest : Cardinality({m \in rest : m < n}) = i - 1
    BY <1>1 DEF Ascending
  <2>3. \A n \in rest : Cardinality({m \in rest : m < n}) = i - 1 <=> n = i + 1
    BY <1>1, <2>1
  <2>4. i + 1 \in rest
    BY <1>1, Layout
  <2> QED  BY <2>2, <2>3, <2>4
<1>3. Ascending(rest) = [i \in 1 .. LastPart - 1 |-> Ascending(rest)[i]]
  <2>1. Ascending(rest) = [i \in 1 .. LastPart - 1 |->
                             CHOOSE n \in rest : Cardinality({m \in rest : m < n}) = i - 1]
    BY <1>1 DEF Ascending
  <2> QED  BY <2>1
<1>4. Tail(Whole) = [i \in 1 .. LastPart - 1 |-> i + 1]
  <2>1. Tail(Whole) \in Seq(AllParts) /\ Len(Tail(Whole)) = LastPart - 1
    BY WholeIs
  <2>2. DOMAIN Tail(Whole) = 1 .. LastPart - 1
    BY <2>1
  <2>3. \A t \in Seq(AllParts) : t = [i \in DOMAIN t |-> t[i]]
    OBVIOUS
  <2>4. Tail(Whole) = [i \in DOMAIN Tail(Whole) |-> Tail(Whole)[i]]
    BY <2>1, <2>3
  <2> QED  BY <2>2, <2>4, WholeIs
<1>5. Ascending(rest) = Tail(Whole)
  BY <1>2, <1>3, <1>4
<1> QED  BY <1>5 DEF rest

\* The fold is the only function that adds one part at a time.
LEMMA ObjectSizeIs ==
  ASSUME NEW o \in Seq(AllParts), NEW g \in [SUBSET DOMAIN o -> Int],
         \A n \in AllParts : PartSize(n) \in Int,
         g[{}] = 0, \A s \in SUBSET DOMAIN o : \A i \in s : g[s] = PartSize(o[i]) + g[s \ {i}]
  PROVE  ObjectSize(o) = g[DOMAIN o]
<1> DEFINE I == DOMAIN o
           Is(f) == f = [s \in SUBSET I |-> IF s = {} THEN 0
                           ELSE PartSize(o[CHOOSE x \in s : TRUE]) + f[s \ {CHOOSE x \in s : TRUE}]]
<1>1. ObjectSize(o) = (CHOOSE f : Is(f))[I]
  BY DEF ObjectSize, FoldSeq, FoldFunction, FoldFunctionOnSet, MapThenFoldSet
<1> DEFINE body(f, s) == IF s = {} THEN 0 ELSE PartSize(o[CHOOSE x \in s : TRUE]) + f[s \ {CHOOSE x \in s : TRUE}]
<1>2. Is(g)
  <2>1. ASSUME NEW s \in SUBSET I PROVE g[s] = body(g, s)
    <3>1. CASE s # {}
      <4>1. (CHOOSE x \in s : TRUE) \in s
        BY <3>1
      <4> QED  BY <3>1, <4>1
    <3> QED  BY <3>1
  <2> QED  BY <2>1
<1>3. PICK f : Is(f) /\ f = (CHOOSE h : Is(h))
  BY <1>2
<1>7. f = [s \in SUBSET I |-> body(f, s)]
  BY <1>3
<1> HIDE DEF Is, body
<1>4. \A s \in SUBSET I : f[s] = body(f, s)
  BY <1>7
<1>5. IsFiniteSet(I)
  BY FS_Interval
<1>6. \A s \in SUBSET I : f[s] = g[s]
  <2> DEFINE Bad == {Cardinality(s) : s \in {r \in SUBSET I : f[r] # g[r]}}
  <2> SUFFICES ASSUME Bad # {} PROVE FALSE
    OBVIOUS
  <2>1. Bad \subseteq Nat
    BY <1>5, FS_Subset, FS_CardinalityType
  <2>2. PICK n \in Bad : \A m \in Bad : n <= m
    BY <2>1, LeastNat
  <2>3. PICK s \in SUBSET I : f[s] # g[s] /\ n = Cardinality(s)
    BY <2>2
  <2>4. s # {}
    BY <1>4, <2>3 DEF body
  <2>5. PICK i \in s : i = CHOOSE x \in s : TRUE
    BY <2>4
  <2>6. IsFiniteSet(s) /\ Cardinality(s \ {i}) = Cardinality(s) - 1 /\ Cardinality(s) \in Nat
    BY <1>5, FS_Subset, FS_RemoveElement, FS_CardinalityType
  <2>7. f[s \ {i}] = g[s \ {i}]
    <3> SUFFICES ASSUME f[s \ {i}] # g[s \ {i}] PROVE FALSE
      OBVIOUS
    <3>1. Cardinality(s \ {i}) \in Bad
      BY <2>3
    <3> HIDE DEF Bad
    <3>2. n <= n - 1
      BY <2>2, <2>3, <2>6, <3>1
    <3> QED  BY <2>3, <2>6, <3>2
  <2>8. f[s] = PartSize(o[i]) + g[s \ {i}]
    BY <1>4, <2>4, <2>5, <2>7 DEF body
  <2> QED  BY <2>3, <2>8
<1> QED  BY <1>1, <1>3, <1>6 DEF Is

\* Parts that end with the last of the object: all full but that one.
LEMMA SizeOfRun ==
  ASSUME NEW o \in Seq(AllParts), o # <<>>, \A i \in DOMAIN o : o[i] = LastPart <=> i = Len(o)
  PROVE  ObjectSize(o) = PartChunk * Len(o) - (PartChunk - PartSize(LastPart))
<1> DEFINE I     == DOMAIN o
           short == PartChunk - PartSize(LastPart)
           g     == [s \in SUBSET I |-> PartChunk * Cardinality(s) - (IF Len(o) \in s THEN short ELSE 0)]
<1>1. LastPart \in AllParts /\ short \in Nat /\ PartChunk \in Nat
  <2>1. LastPart \in AllParts
    BY Layout
  <2>2. PartSize(LastPart) \in 1 .. PartChunk
    BY <2>1, PartSizes
  <2> QED  BY <2>1, <2>2, Layout
<1>2. I = 1 .. Len(o) /\ Len(o) \in I /\ Cardinality(I) = Len(o) /\ IsFiniteSet(I)
  BY IntervalCardinality
<1>3. \A n \in AllParts : PartSize(n) \in Int
  BY PartSizes
<1>4. \A i \in I : PartSize(o[i]) = IF i = Len(o) THEN PartChunk - short ELSE PartChunk
  <2> SUFFICES ASSUME NEW i \in I PROVE PartSize(o[i]) = IF i = Len(o) THEN PartChunk - short ELSE PartChunk
    OBVIOUS
  <2>1. o[i] \in AllParts
    OBVIOUS
  <2>2. CASE i = Len(o)
    BY <2>1, <2>2, <1>1, <1>3
  <2>3. CASE i # Len(o)
    BY <2>1, <2>3, PartSizes
  <2> QED  BY <2>2, <2>3
<1> HIDE DEF short
<1>5. \A s \in SUBSET I : Cardinality(s) \in Nat
  BY <1>2, FS_Subset, FS_CardinalityType
<1>6. g \in [SUBSET I -> Int]
  BY <1>1, <1>5
<1>7. g[{}] = 0
  BY <1>1, FS_EmptySet
<1>8. ASSUME NEW s \in SUBSET I, NEW i \in s PROVE g[s] = PartSize(o[i]) + g[s \ {i}]
  <2>1. Cardinality(s \ {i}) = Cardinality(s) - 1
    BY <1>2, FS_Subset, FS_RemoveElement
  <2>2. PartChunk * (Cardinality(s) - 1) = PartChunk * Cardinality(s) - PartChunk
    BY <1>1, <1>5
  <2>3. g[s \ {i}] = PartChunk * Cardinality(s) - PartChunk - (IF Len(o) \in s \ {i} THEN short ELSE 0)
    BY <2>1, <2>2
  <2>4. PartChunk * Cardinality(s) \in Int
    BY <1>1, <1>5
  <2> QED  BY <1>1, <1>4, <2>3, <2>4
<1> HIDE DEF g
<1>9. ObjectSize(o) = g[I]
  BY <1>3, <1>6, <1>7, <1>8, ObjectSizeIs
<1> QED  BY <1>2, <1>9 DEF g, short

LEMMA SizeOfWhole == ObjectSize(Whole) = Size
<1>1. Whole \in Seq(AllParts) /\ Whole # <<>> /\ \A i \in DOMAIN Whole : Whole[i] = LastPart <=> i = Len(Whole)
  BY WholeIs, Layout
<1>2. ObjectSize(Whole) = PartChunk * LastPart - (PartChunk - PartSize(LastPart))
  BY <1>1, SizeOfRun, WholeIs
<1>3. PartSize(LastPart) = Size - (LastPart - 1) * PartChunk
  BY PartSizes, Layout
<1>4. (LastPart - 1) * PartChunk = PartChunk * LastPart - PartChunk /\ PartChunk * LastPart \in Int
  BY Layout
<1> QED  BY <1>2, <1>3, <1>4, Layout, PartsDirAssumption

LEMMA SizeOfRest == ObjectSize(Tail(Whole)) # Size
<1> DEFINE rest == Tail(Whole)
<1>1. rest \in Seq(AllParts) /\ Len(rest) = LastPart - 1 /\ \A i \in 1 .. LastPart - 1 : rest[i] = i + 1
  BY WholeIs
<1> HIDE DEF rest
<1>2. CASE LastPart = 1
  <2> DEFINE g == [s \in SUBSET DOMAIN rest |-> 0]
  <2>1. DOMAIN rest = {}
    BY <1>1, <1>2
  <2>2. g \in [SUBSET DOMAIN rest -> Int] /\ g[{}] = 0
        /\ \A s \in SUBSET DOMAIN rest : \A i \in s : g[s] = PartSize(rest[i]) + g[s \ {i}]
    BY <2>1
  <2>3. \A n \in AllParts : PartSize(n) \in Int
    BY PartSizes
  <2> HIDE DEF g
  <2>4. ObjectSize(rest) = g[DOMAIN rest]
    BY <1>1, <2>2, <2>3, ObjectSizeIs
  <2> QED  BY <2>4, PartsDirAssumption DEF g, rest
<1>3. CASE LastPart # 1
  <2>1. rest # <<>> /\ \A i \in DOMAIN rest : rest[i] = LastPart <=> i = Len(rest)
    BY <1>1, <1>3, Layout
  <2>2. ObjectSize(rest) = PartChunk * (LastPart - 1) - (PartChunk - PartSize(LastPart))
    BY <1>1, <2>1, SizeOfRun
  <2>3. PartSize(LastPart) = Size - (LastPart - 1) * PartChunk
    BY PartSizes, Layout
  <2>4. (LastPart - 1) * PartChunk = PartChunk * (LastPart - 1) /\ PartChunk * (LastPart - 1) \in Int
    BY Layout
  <2>5. ObjectSize(rest) = Size - PartChunk
    BY <2>2, <2>3, <2>4, Layout, PartsDirAssumption
  <2> QED  BY <2>5, Layout, PartsDirAssumption DEF rest
<1> QED  BY <1>2, <1>3

-----------------------------------------------------------------------------
(* The records of the merge.                                               *)

Uploads == [open : BOOLEAN, copied : SUBSET AllParts]

\* A MergeState that claims nothing its multipart upload does not hold.
TrueIn(r, u) ==
  /\ r = [id |-> r.id, all |-> r.all, finished |-> r.finished]
  /\ r.id \in DOMAIN u /\ r.finished \subseteq u[r.id].copied

Claims(r, u) == r # None => TrueIn(r, u)

MergeShapes == uploads \in Seq(Uploads) /\ job \in [AllParts -> JobStates]

Records ==
  Claims(mergeJson, uploads) /\ Claims(st, uploads) /\ Claims(snap, uploads) /\ Claims(late, uploads)

\* A piece to be noted has been copied.
Answered ==
  st # None => \A k \in AllParts : job[k] = "copied" => k \in uploads[st.id].copied

MergeInv == MergeShapes /\ Records /\ Answered

\* From one step to the next an upload holds no less.
HoldsMore ==
  /\ uploads' \in Seq(Uploads) /\ DOMAIN uploads \subseteq DOMAIN uploads'
  /\ \A id \in DOMAIN uploads : uploads[id].copied \subseteq uploads'[id].copied

LEMMA StaysTrue ==
  ASSUME HoldsMore, NEW r, Claims(r, uploads)
  PROVE  Claims(r, uploads')
  BY DEF HoldsMore, Claims, TrueIn

LEMMA SameHoldsMore ==
  ASSUME MergeShapes, UNCHANGED uploads
  PROVE  HoldsMore
  BY DEF MergeShapes, HoldsMore

LEMMA MergeInitially == Init => MergeInv
<1> SUFFICES ASSUME Init PROVE MergeInv
  OBVIOUS
<1>1. MergeShapes
  BY DEF Init, MergeInit, MergeShapes, JobStates
<1>2. Records /\ Answered
  BY DEF Init, MergeInit, Records, Claims, Answered
<1> QED  BY <1>1, <1>2 DEF MergeInv

\* Steps that only move a record from one place to another.
LEMMA MovesKeepInv ==
  ASSUME MergeInv, UNCHANGED uploads, job' \in [AllParts -> JobStates],
         {mergeJson', st', snap', late'} \subseteq {None, mergeJson, st, snap, late},
         st' = None \/ (st' = st /\ \A k \in AllParts : job'[k] = "copied" => job[k] = "copied")
  PROVE  MergeInv'
<1>1. MergeShapes'
  BY DEF MergeInv, MergeShapes
<1>2. ASSUME NEW r \in {None, mergeJson, st, snap, late} PROVE Claims(r, uploads')
  BY <1>2 DEF MergeInv, Records, Claims
<1>3. Records'
  BY <1>2 DEF Records
<1>4. Answered'
  BY DEF MergeInv, Answered
<1> QED  BY <1>1, <1>3, <1>4 DEF MergeInv

\* Steps under which the uploads grow and the records stay what they are.
LEMMA GrowthKeepsInv ==
  ASSUME MergeInv, HoldsMore, job' \in [AllParts -> JobStates],
         UNCHANGED <<mergeJson, st, snap, late>>,
         st # None => \A k \in AllParts :
           job'[k] = "copied" => job[k] = "copied" \/ k \in uploads'[st.id].copied
  PROVE  MergeInv'
<1>1. MergeShapes'
  BY DEF MergeShapes, HoldsMore
<1>2. Records'
  <2>1. /\ Claims(mergeJson, uploads') /\ Claims(st, uploads')
        /\ Claims(snap, uploads') /\ Claims(late, uploads')
    BY StaysTrue DEF MergeInv, Records
  <2> QED  BY <2>1 DEF Records
<1>3. Answered'
  <2> SUFFICES ASSUME st # None, NEW k \in AllParts, job'[k] = "copied"
               PROVE  k \in uploads'[st.id].copied
    BY DEF Answered
  <2>1. CASE job[k] = "copied"
    BY <2>1 DEF MergeInv, Answered, Records, Claims, TrueIn, HoldsMore
  <2>2. CASE k \in uploads'[st.id].copied
    BY <2>2
  <2> QED  BY <2>1, <2>2
<1> QED  BY <1>1, <1>2, <1>3 DEF MergeInv

\* A merge starts with merge.json or with an upload of its own.
LEMMA StartsKeepInv ==
  ASSUME MergeInv, MergeResume \/ MergeNew(TRUE) \/ MergeNew(FALSE)
  PROVE  MergeInv'
<1> USE DEF MergeInv, MergeShapes
<1>1. ASSUME HoldsMore, UNCHANGED <<mergeJson, late>>, NEW s, TrueIn(s, uploads'), StartMerge(s)
      PROVE  MergeInv'
  <2>1. /\ st' = s /\ snap' = None
        /\ \A k \in AllParts : job'[k] \in {"none", "done"}
        /\ job' \in [AllParts -> JobStates]
    BY <1>1 DEF StartMerge, JobStates
  <2>2. Claims(mergeJson, uploads') /\ Claims(late, uploads')
    BY <1>1, StaysTrue DEF Records
  <2>3. Records' /\ Answered'
    BY <1>1, <2>1, <2>2 DEF Records, Claims, Answered
  <2> QED  BY <1>1, <2>1, <2>3 DEF HoldsMore
<1>2. CASE MergeResume
  <2>1. PICK s : s = mergeJson
    OBVIOUS
  <2>2. UNCHANGED <<uploads, mergeJson, late>> /\ StartMerge(s) /\ TrueIn(s, uploads)
    BY <1>2, <2>1 DEF MergeResume, Records, Claims
  <2>3. TrueIn(s, uploads') /\ HoldsMore
    BY <2>2, SameHoldsMore DEF TrueIn
  <2> QED  BY <1>1, <2>2, <2>3
<1>3. CASE MergeNew(TRUE) \/ MergeNew(FALSE)
  <2>1. PICK s : s = [id |-> Len(uploads'), all |-> Ascending(parts), finished |-> {}]
    OBVIOUS
  <2> DEFINE new == [open |-> TRUE, copied |-> {}]
  <2>2. uploads' = Append(uploads, new) /\ StartMerge(s) /\ UNCHANGED <<mergeJson, late>>
    BY <1>3, <2>1 DEF MergeNew
  <2>3. new \in Uploads
    BY DEF Uploads
  <2> HIDE DEF new
  <2>4. /\ uploads' \in Seq(Uploads) /\ Len(uploads') = Len(uploads) + 1
        /\ DOMAIN uploads = 1 .. Len(uploads) /\ DOMAIN uploads' = 1 .. Len(uploads')
        /\ \A id \in DOMAIN uploads : uploads'[id] = uploads[id]
    BY <2>2, <2>3
  <2>5. HoldsMore /\ Len(uploads') \in DOMAIN uploads'
    BY <2>4 DEF HoldsMore
  <2>6. TrueIn(s, uploads')
    BY <2>1, <2>5 DEF TrueIn
  <2> QED  BY <1>1, <2>2, <2>5, <2>6
<1> QED  BY <1>2, <1>3

\* A piece is copied, or perhaps copied.
LEMMA CopyKeepsInv ==
  ASSUME MergeInv, st # None, NEW k \in AllParts, NEW answered \in BOOLEAN, JobCopy(k, answered)
  PROVE  MergeInv'
<1> USE DEF MergeInv, MergeShapes
<1> DEFINE id == st.id
<1>1. id \in DOMAIN uploads /\ uploads[id] \in Uploads
  BY DEF Records, Claims, TrueIn
<1>2. /\ job' = [job EXCEPT ![k] = IF answered THEN "copied" ELSE "failed"]
      /\ UNCHANGED <<mergeJson, st, snap, late>>
  BY DEF JobCopy, writerVars
<1>3. PICK made \in BOOLEAN :
        /\ answered => made
        /\ uploads' = IF made THEN [uploads EXCEPT ![id].copied = @ \cup {k}] ELSE uploads
  BY DEF JobCopy
<1>4. HoldsMore /\ (answered => k \in uploads'[id].copied)
  <2>1. CASE made
    <3> DEFINE more == [uploads[id] EXCEPT !.copied = @ \cup {k}]
    <3>1. uploads' = [uploads EXCEPT ![id] = more]
      BY <1>3, <2>1
    <3>2. more \in Uploads /\ more.copied = uploads[id].copied \cup {k}
      BY <1>1 DEF Uploads
    <3> HIDE DEF more
    <3>3. uploads' \in Seq(Uploads) /\ DOMAIN uploads' = DOMAIN uploads
      BY <1>1, <3>1, <3>2
    <3> QED  BY <1>1, <3>1, <3>2, <3>3 DEF HoldsMore
  <2>2. CASE ~made
    BY <1>3, <2>2 DEF HoldsMore
  <2> QED  BY <2>1, <2>2
<1>5. job' \in [AllParts -> JobStates]
  BY <1>2 DEF JobStates
<1>6. ASSUME NEW m \in AllParts, job'[m] = "copied"
      PROVE  job[m] = "copied" \/ m \in uploads'[id].copied
  BY <1>2, <1>4, <1>6
<1> QED  BY <1>2, <1>4, <1>5, <1>6, GrowthKeepsInv

\* A piece is noted once its copy has been answered.
LEMMA NoteKeepsInv ==
  ASSUME MergeInv, st # None, NEW k \in AllParts, JobNote(k)
  PROVE  MergeInv'
<1> USE DEF MergeInv, MergeShapes
<1>1. /\ job[k] = "copied" /\ st' = [st EXCEPT !.finished = @ \cup {k}]
      /\ job' = [job EXCEPT ![k] = "noted"]
      /\ UNCHANGED <<uploads, mergeJson, snap, late>>
  BY DEF JobNote, JobsIn, durableVars, writerVars
<1>2. TrueIn(st, uploads) /\ k \in uploads[st.id].copied
  BY <1>1 DEF Records, Claims, Answered
<1>3. TrueIn(st', uploads) /\ st'.id = st.id
  BY <1>1, <1>2 DEF TrueIn
<1>4. job' \in [AllParts -> JobStates] /\ \A m \in AllParts : job'[m] = "copied" => job[m] = "copied"
  BY <1>1 DEF JobStates
<1>5. Records'
  BY <1>1, <1>3 DEF Records, Claims
<1>6. Answered'
  BY <1>1, <1>3, <1>4 DEF Answered
<1> QED  BY <1>1, <1>4, <1>5, <1>6

\* The upload is completed, or perhaps completed.
LEMMA CompleteKeepsInv ==
  ASSUME MergeInv, st # None, NEW answered \in BOOLEAN, Complete(answered)
  PROVE  MergeInv'
<1> USE DEF MergeInv, MergeShapes
<1>1. UNCHANGED <<mergeJson, st, job, snap, late>>
  BY DEF Complete, poolVars
<1>2. UNCHANGED uploads \/ uploads' = [uploads EXCEPT ![st.id].open = FALSE]
  BY DEF Complete
<1>3. HoldsMore
  <2>1. CASE UNCHANGED uploads
    BY <2>1, SameHoldsMore
  <2>2. CASE uploads' = [uploads EXCEPT ![st.id].open = FALSE]
    <3> DEFINE id   == st.id
               shut == [uploads[id] EXCEPT !.open = FALSE]
    <3>1. uploads' = [uploads EXCEPT ![id] = shut] /\ id \in DOMAIN uploads /\ uploads[id] \in Uploads
      BY <2>2 DEF Records, Claims, TrueIn
    <3>2. shut \in Uploads /\ shut.copied = uploads[id].copied
      BY <3>1 DEF Uploads
    <3> HIDE DEF shut
    <3>3. uploads' \in Seq(Uploads) /\ DOMAIN uploads' = DOMAIN uploads
      BY <3>1, <3>2
    <3> QED  BY <3>1, <3>2, <3>3 DEF HoldsMore
  <2> QED  BY <1>2, <2>1, <2>2
<1> QED  BY <1>1, <1>3, GrowthKeepsInv

\* The pool, the writer and the end of the merge.
LEMMA PoolKeepsInv ==
  ASSUME MergeInv, st # None, 
         \/ \E k \in AllParts : JobSubmit(k) \/ JobStart(k) \/ JobTell(k)
         \/ FinalRuns \/ PoolFails \/ PoolDrained \/ WriterGets
  PROVE  MergeInv'
<1>1. UNCHANGED <<uploads, mergeJson, st, late>> /\ snap' \in {snap, st}
  BY DEF JobSubmit, JobStart, JobTell, FinalRuns, PoolFails, PoolDrained, WriterGets,
         durableVars, poolVars, writerVars
<1>2. job \in [AllParts -> JobStates]
  BY DEF MergeInv, MergeShapes
<1>3. job' \in [AllParts -> JobStates] /\ \A k \in AllParts : job'[k] = "copied" => job[k] = "copied"
  <2>1. CASE \E k \in AllParts : JobSubmit(k) \/ JobStart(k) \/ JobTell(k)
    BY <1>2, <2>1 DEF JobSubmit, JobStart, JobTell, JobStates
  <2>2. CASE FinalRuns \/ PoolDrained \/ WriterGets
    BY <1>2, <2>2 DEF FinalRuns, PoolDrained, WriterGets, poolVars
  <2>3. CASE PoolFails
    <3>1. job' = [n \in AllParts |-> IF job[n] = "queued" THEN "cancelled" ELSE job[n]]
      BY <2>3 DEF PoolFails
    <3> QED  BY <1>2, <3>1 DEF JobStates
  <2> QED  BY <2>1, <2>2, <2>3
<1> QED  BY <1>1, <1>3, MovesKeepInv

LEMMA WriterKeepsInv ==
  ASSUME MergeInv,
         \/ WriterWrites("ok") \/ WriterWrites("raised") \/ LateWrite
         \/ Closed(TRUE) \/ Closed(FALSE)
  PROVE  MergeInv'
<1>1. job \in [AllParts -> JobStates]
  BY DEF MergeInv, MergeShapes
<1>2. CASE WriterWrites("ok") \/ WriterWrites("raised") \/ LateWrite
  <2>1. /\ UNCHANGED <<uploads, st, job>> /\ late' \in {late, None} /\ snap' \in {snap, None}
        /\ mergeJson' \in {mergeJson, snap, late}
    BY <1>2 DEF WriterWrites, LateWrite, poolVars
  <2> QED  BY <1>1, <2>1, MovesKeepInv
<1>3. CASE Closed(TRUE) \/ Closed(FALSE)
  <2>1. /\ UNCHANGED <<uploads, mergeJson>> /\ st' = None /\ snap' = None /\ late' \in {late, snap}
        /\ job' = [n \in AllParts |-> "none"]
    BY <1>3 DEF Closed, durableVars
  <2>2. job' \in [AllParts -> JobStates]
    BY <2>1 DEF JobStates
  <2> QED  BY <2>1, <2>2, MovesKeepInv
<1> QED  BY <1>2, <1>3

LEMMA RestKeepsInv ==
  ASSUME MergeInv,
         \/ MergeRefused(TRUE) \/ MergeRefused(FALSE) \/ Cleanup \/ PurgeState
         \/ Purged(TRUE) \/ Purged(FALSE) \/ \E n \in AllParts : PurgePart(n)
         \/ UNCHANGED mergeVars
         \/ StartCopy \/ StartFinish \/ Crash \/ Uploaded \/ Return
  PROVE  MergeInv'
<1>1. job \in [AllParts -> JobStates]
  BY DEF MergeInv, MergeShapes
<1>2. CASE Crash
  <2>1. /\ UNCHANGED <<uploads, mergeJson>> /\ st' = None /\ snap' = None /\ late' = None
        /\ job' = [n \in AllParts |-> "none"]
    BY <1>2 DEF Crash, MergeReset, durableVars
  <2>2. job' \in [AllParts -> JobStates]
    BY <2>1 DEF JobStates
  <2> QED  BY <2>1, <2>2, MovesKeepInv
<1>3. CASE ~Crash
  <2>1. UNCHANGED <<uploads, st, job, snap, late>> /\ mergeJson' \in {mergeJson, None}
    BY <1>3 DEF MergeRefused, Cleanup, PurgeState, Purged, PurgePart, StartCopy, StartFinish,
                Uploaded, Return, mergeVars, durableVars, poolVars, writerVars
  <2> QED  BY <1>1, <2>1, MovesKeepInv
<1> QED  BY <1>2, <1>3

LEMMA MergeStepsKeepInv ==
  ASSUME MergeInv, [Next]_copyVars
  PROVE  MergeInv'
<1>1. CASE MergeStep
  <2>1. CASE MergeResume \/ MergeNew(TRUE)
    BY <2>1, StartsKeepInv
  <2>2. CASE \/ MergeRefused(TRUE) \/ Cleanup \/ PurgeState \/ Purged(TRUE)
             \/ \E n \in AllParts : PurgePart(n)
    BY <2>2, RestKeepsInv
  <2>3. CASE WriterWrites("ok") \/ Closed(TRUE) \/ LateWrite
    BY <2>3, WriterKeepsInv
  <2>4. CASE st # None /\ \/ \E k \in AllParts : JobSubmit(k) \/ JobStart(k) \/ JobTell(k)
                          \/ FinalRuns \/ PoolFails \/ PoolDrained \/ WriterGets
    BY <2>4, PoolKeepsInv
  <2>5. CASE st # None /\ \E k \in AllParts : JobNote(k)
    BY <2>5, NoteKeepsInv
  <2>6. CASE st # None /\ \/ \E k \in AllParts : JobCopy(k, uploads[st.id].open)
                          \/ Complete(uploads[st.id].open)
    <3>1. st.id \in DOMAIN uploads /\ uploads \in Seq(Uploads)
      BY <2>6 DEF MergeInv, MergeShapes, Records, Claims, TrueIn
    <3>2. uploads[st.id] \in Uploads
      BY <3>1
    <3>3. uploads[st.id].open \in BOOLEAN
      BY <3>2 DEF Uploads
    <3> QED  BY <2>6, <3>3, CopyKeepsInv, CompleteKeepsInv
  <2> QED  BY <1>1, <2>1, <2>2, <2>3, <2>4, <2>5, <2>6 DEF MergeStep
<1>2. CASE MergeFault
  <2>1. CASE MergeNew(FALSE)
    BY <2>1, StartsKeepInv
  <2>2. CASE MergeRefused(FALSE) \/ Purged(FALSE)
    BY <2>2, RestKeepsInv
  <2>3. CASE WriterWrites("raised") \/ Closed(FALSE)
    BY <2>3, WriterKeepsInv
  <2>4. CASE st # None /\ \E k \in AllParts : JobCopy(k, FALSE)
    BY <2>4, CopyKeepsInv
  <2>5. CASE st # None /\ Complete(FALSE)
    BY <2>5, CompleteKeepsInv
  <2> QED  BY <1>2, <2>1, <2>2, <2>3, <2>4, <2>5 DEF MergeFault
<1>3. CASE StartCopy \/ StartFinish \/ Crash \/ Uploaded \/ Return \/ UNCHANGED mergeVars
  BY <1>3, RestKeepsInv
<1>4. CASE UNCHANGED copyVars
  <2>1. UNCHANGED mergeVars
    BY <1>4 DEF copyVars
  <2> QED  BY <1>3, <2>1
<1> QED  BY <1>1, <1>2, <1>3, <1>4 DEF Next, Step, Fault

(* merge.json, which a resumed merge trusts and only adds to, never claims a *)
(* piece that its multipart upload does not hold: not while the writer lags  *)
(* behind the pool, nor when a writer abandoned by close() writes late, nor  *)
(* when the process dies in between.                                         *)
THEOREM RecordStaysTrue == Spec => []RecordIsTrue
<1>1. MergeInv /\ [Next]_copyVars => MergeInv'
  BY MergeStepsKeepInv
<1>2. MergeInv => RecordIsTrue
  BY DEF MergeInv, Records, Claims, TrueIn, RecordIsTrue
<1> QED  BY <1>1, <1>2, MergeInitially, PTL DEF Spec
-----------------------------------------------------------------------------
(* The object, and the parts purged for it.                                *)

\* What a merge may list and write: all the parts, or all but the first.
Runs == {Whole, Tail(Whole)}

\* info.json never claims chunks larger than the parts are.
InfoInv == parts \subseteq AllParts /\ (info # None => info \in [chunk : 1 .. PartChunk, first : {1}, last : {LastPart}])

Lists(r) == r # None => r.all \in Runs

WholeInv ==
  /\ InfoInv
  /\ Lists(mergeJson) /\ Lists(st) /\ Lists(snap) /\ Lists(late)
  /\ object # None => object \in Runs
  /\ mg = "purge" => object = Whole

\* What passes for a whole directory lacks the first part at most.
LEMMA FetchedParts ==
  ASSUME InfoInv, FetchIsDone
  PROVE  Ascending(parts) \in Runs
<1>1. info.chunk \in 1 .. PartChunk /\ info.first = 1 /\ info.last = LastPart /\ info # None
  BY DEF InfoInv, FetchIsDone
<1> DEFINE c == ChunkSize(Size, info.chunk)
<1>2. c \in Nat \ {0} /\ c <= PartChunk
  BY <1>1, ChunkSizeNat, Layout
<1>3. CeilDiv(Size, c) \in Nat /\ LastPart <= CeilDiv(Size, c)
  BY <1>2, CeilDivAntitone, CeilDivBounds, Layout, PartsDirAssumption
<1>4. DOMAIN SplitParts(Size, info.chunk) = 1 .. CeilDiv(Size, c)
  BY DEF SplitParts
<1> HIDE DEF c
<1>5. \A n \in 2 .. LastPart : n \in ExpectedParts(info)
  BY <1>1, <1>3, <1>4, Layout DEF ExpectedParts
<1>6. AllParts \ {1} \subseteq parts /\ parts \subseteq AllParts
  BY <1>5, Layout DEF FetchIsDone, InfoInv
<1>7. CASE 1 \in parts
  <2>1. parts = AllParts
    BY <1>6, <1>7
  <2> QED  BY <2>1, AscendingAll DEF Runs
<1>8. CASE 1 \notin parts
  <2>1. parts = AllParts \ {1}
    BY <1>6, <1>8
  <2> QED  BY <2>1, AscendingRest DEF Runs
<1> QED  BY <1>7, <1>8

LEMMA OnlyWholeHasItsSize ==
  ASSUME NEW o \in Runs, ObjectSize(o) = Size
  PROVE  o = Whole
  BY SizeOfRest DEF Runs

LEMMA WholeInitially == Init => WholeInv
  BY DEF Init, MergeInit, WholeInv, InfoInv, Lists

\* The directory is left alone, or filled by the upload, or purged.
LEMMA DirectoryStepsKeepInfo ==
  ASSUME InfoInv, [Next]_copyVars
  PROVE  InfoInv'
<1>1. CASE UNCHANGED <<parts, info>>
  BY <1>1 DEF InfoInv
<1>2. CASE parts' \subseteq parts /\ info' \in {info, None}
  BY <1>2 DEF InfoInv
<1>3. CASE UNCHANGED info /\ \E n \in AllParts : parts' \in {parts, parts \cup {n}}
  BY <1>3 DEF InfoInv
<1>4. CASE UploadBegin
  <2>1. CASE UNCHANGED info
    BY <1>1, <1>4, <2>1 DEF UploadBegin
  <2>2. CASE ~UNCHANGED info
    <3> DEFINE left == AllParts \ parts
               first == CHOOSE n \in left : \A m \in left : n <= m
    <3>1. left # {} /\ info' = [chunk |-> PartSize(first), first |-> 1, last |-> LastPart] /\ UNCHANGED parts
      BY <1>4, <2>2 DEF UploadBegin
    <3>2. \E n \in left : \A m \in left : n <= m
      <4>1. left \subseteq Nat
        BY Layout
      <4> QED  BY <3>1, <4>1, LeastNat
    <3>3. first \in AllParts
      BY <3>2
    <3>4. PartSize(first) \in 1 .. PartChunk
      BY <3>3, PartSizes
    <3> QED  BY <3>1, <3>4 DEF InfoInv
  <2> QED  BY <2>1, <2>2
<1>5. CASE UploadStep
  BY <1>1, <1>3, <1>4, <1>5
    DEF UploadStep, UploadEnd, Submit, ReadStart, ReadEnd, CopyStart, CopyEnd
<1>6. CASE UploadFault
  BY <1>1, <1>3, <1>6 DEF UploadFault, ReadEnd, CopyEnd
<1>7. CASE MergeStep
  BY <1>1, <1>2, <1>7
    DEF MergeStep, MergeResume, MergeNew, MergeRefused, JobSubmit, JobStart, JobCopy, JobNote, JobTell, FinalRuns,
        PoolFails, PoolDrained, WriterGets, Complete, WriterWrites, Closed, LateWrite, Cleanup, PurgeState,
        Purged, PurgePart
<1>8. CASE MergeFault
  BY <1>1, <1>8 DEF MergeFault, MergeNew, MergeRefused, JobCopy, Complete, WriterWrites, Closed, Purged
<1>9. CASE StartCopy \/ StartFinish \/ Crash \/ Uploaded \/ Return \/ UNCHANGED copyVars
  BY <1>1, <1>9 DEF StartCopy, StartFinish, Crash, Uploaded, Return, copyVars
<1> QED  BY <1>5, <1>6, <1>7, <1>8, <1>9 DEF Next, Step, Fault

LEMMA WholeStepsKeepInv ==
  ASSUME MergeInv, WholeInv, [Next]_copyVars
  PROVE  WholeInv'
<1>1. InfoInv'
  BY DirectoryStepsKeepInfo DEF WholeInv
<1>2. ASSUME {mergeJson', st', snap', late'} \subseteq {None, mergeJson, st, snap, late},
             UNCHANGED object, mg' # "purge" \/ mg = "purge"
      PROVE  WholeInv'
  BY <1>1, <1>2 DEF WholeInv, Lists
<1>3. CASE MergeResume \/ MergeNew(TRUE) \/ MergeNew(FALSE)
  <2>1. PICK s : Lists(s) /\ StartMerge(s) /\ UNCHANGED <<mergeJson, late, object>>
    <3>1. CASE MergeResume
      BY <3>1 DEF MergeResume, WholeInv
    <3>2. CASE MergeNew(TRUE) \/ MergeNew(FALSE)
      <4> DEFINE s == [id |-> Len(uploads'), all |-> Ascending(parts), finished |-> {}]
      <4>1. StartMerge(s) /\ UNCHANGED <<mergeJson, late, object>> /\ s.all \in Runs
        BY <3>2, FetchedParts DEF MergeNew, WholeInv
      <4>2. Lists(s)
        BY <4>1 DEF Lists
      <4> HIDE DEF s
      <4> QED  BY <4>1, <4>2
    <3> QED  BY <1>3, <3>1, <3>2
  <2> QED  BY <1>1, <2>1 DEF StartMerge, WholeInv, Lists
<1>4. CASE MergeStep \/ MergeFault
  <2>1. CASE Cleanup
    BY <1>1, <2>1, OnlyWholeHasItsSize DEF Cleanup, WholeInv, Lists, durableVars, poolVars, writerVars
  <2>2. CASE st # None /\ \E answered \in BOOLEAN : Complete(answered)
    <3>1. UNCHANGED <<mergeJson, st, snap, late>> /\ mg' = "close" /\ object' \in {object, st.all}
      BY <2>2 DEF Complete, EndStream, poolVars, writerVars
    <3> QED  BY <1>1, <2>2, <3>1 DEF WholeInv, Lists
  <2>3. CASE st # None /\ \E k \in AllParts : JobNote(k)
    <3>1. UNCHANGED <<mergeJson, object, mg, snap, late>> /\ \E k \in AllParts : st' = [st EXCEPT !.finished = @ \cup {k}]
      BY <2>3 DEF JobNote, durableVars, writerVars
    <3>2. st = [id |-> st.id, all |-> st.all, finished |-> st.finished]
      BY <2>3 DEF MergeInv, Records, Claims, TrueIn
    <3>3. st'.all = st.all
      BY <3>1, <3>2
    <3> QED  BY <1>1, <2>3, <3>1, <3>3 DEF WholeInv, Lists
  <2>4. CASE st # None /\ \/ \E k \in AllParts : JobSubmit(k) \/ JobStart(k) \/ JobTell(k)
                          \/ \E k \in AllParts, answered \in BOOLEAN : JobCopy(k, answered)
                          \/ FinalRuns \/ PoolFails \/ PoolDrained \/ WriterGets
    BY <1>2, <2>4 DEF JobSubmit, JobStart, JobTell, JobCopy, FinalRuns, PoolFails, PoolDrained, EndStream, WriterGets,
                      durableVars, poolVars, writerVars
  <2>5. CASE \/ WriterWrites("ok") \/ WriterWrites("raised") \/ Closed(TRUE) \/ Closed(FALSE) \/ LateWrite
             \/ PurgeState \/ Purged(TRUE) \/ Purged(FALSE) \/ MergeRefused(TRUE) \/ MergeRefused(FALSE)
             \/ \E n \in AllParts : PurgePart(n)
    BY <1>2, <2>5 DEF WriterWrites, Closed, LateWrite, PurgeState, Purged, MergeRefused, PurgePart,
                      durableVars, poolVars, writerVars
  <2>6. CASE MergeFault
    BY <1>3, <2>2, <2>4, <2>5, <2>6 DEF MergeFault
  <2>7. CASE MergeStep
    <3>3. st # None => uploads[st.id].open \in BOOLEAN
      <4> SUFFICES ASSUME st # None PROVE uploads[st.id].open \in BOOLEAN
        OBVIOUS
      <4>1. st.id \in DOMAIN uploads /\ uploads \in Seq(Uploads)
        BY DEF MergeInv, MergeShapes, Records, Claims, TrueIn
      <4>2. uploads[st.id] \in Uploads
        BY <4>1
      <4> QED  BY <4>2 DEF Uploads
    <3>1. CASE st # None /\ Complete(uploads[st.id].open)
      BY <2>2, <3>1, <3>3
    <3>2. CASE st # None /\ \E k \in AllParts : JobCopy(k, uploads[st.id].open)
      BY <2>4, <3>2, <3>3
    <3> QED  BY <1>3, <2>1, <2>3, <2>4, <2>5, <2>7, <3>1, <3>2 DEF MergeStep
  <2> QED  BY <1>4, <2>6, <2>7
<1>5. CASE UNCHANGED mergeVars \/ StartCopy \/ StartFinish \/ Crash \/ Uploaded \/ Return \/ UNCHANGED copyVars
  BY <1>2, <1>5 DEF StartCopy, StartFinish, Crash, Uploaded, Return, MergeReset, mergeVars, copyVars,
                    durableVars, poolVars, writerVars
<1> QED  BY <1>4, <1>5 DEF Next, Step, Fault

CopyInv == MergeInv /\ WholeInv

LEMMA CopyStepsKeepInv == CopyInv /\ [Next]_copyVars => CopyInv'
  BY MergeStepsKeepInv, WholeStepsKeepInv DEF CopyInv

LEMMA CopyInductive == Init /\ [][Next]_copyVars => []CopyInv
<1>1. Init => CopyInv
  BY MergeInitially, WholeInitially DEF CopyInv
<1> QED  BY <1>1, CopyStepsKeepInv, PTL

(* Whatever crashed, was repeated, abandoned or half done, and whatever the  *)
(* sizes, an object a merge completed is made of the parts in their order,   *)
(* each once: all of them, or all but the first, for which the check of the  *)
(* directory does not look.                                                  *)
THEOREM MergedParts == Spec => []MergedInOrder
<1>1. CopyInv => MergedInOrder
  BY DEF CopyInv, WholeInv, Runs, MergedInOrder
<1> QED  BY <1>1, CopyInductive, PTL DEF Spec

\* A purge is of an object that has the size of the source, which only the whole has.
LEMMA PurgeSteps == CopyInv /\ [Next]_copyVars => [parts \ parts' # {} => object = Whole]_copyVars
<1> SUFFICES ASSUME CopyInv, [Next]_copyVars, parts \ parts' # {}
             PROVE  object = Whole
  OBVIOUS
<1>1. ~UNCHANGED parts
  BY DEF copyVars
<1>2. CASE MergeStep
  <2>1. \E n \in AllParts : PurgePart(n)
    BY <1>1, <1>2
      DEF MergeStep, MergeResume, MergeNew, MergeRefused, JobSubmit, JobStart, JobCopy, JobNote, JobTell, FinalRuns,
          PoolFails, PoolDrained, WriterGets, Complete, WriterWrites, Closed, LateWrite, Cleanup, PurgeState,
          Purged
  <2> QED  BY <2>1 DEF PurgePart, CopyInv, WholeInv
<1>3. CASE ~MergeStep
  <2>1. parts \subseteq parts' \/ UNCHANGED parts
    BY <1>3
      DEF Next, Step, Fault, UploadStep, UploadFault, UploadBegin, UploadEnd, Submit, ReadStart, ReadEnd, CopyStart, CopyEnd,
          MergeFault, MergeNew, MergeRefused, JobCopy, Complete, WriterWrites, Closed, Purged,
          StartCopy, StartFinish, Crash, Uploaded, Return, copyVars
  <2> QED  BY <2>1
<1> QED  BY <1>2, <1>3

(* _cleanup_merge() compares sizes only, and that is enough: of what a merge *)
(* can have written, only the object of all parts has the size of the        *)
(* source, so no part is ever purged for an object that lacks it.            *)
THEOREM PurgesAreSafe == Spec => PurgedWhenWhole
  BY PurgeSteps, CopyInductive, PTL DEF Spec, PurgedWhenWhole
-----------------------------------------------------------------------------
(* The upload.                                                             *)

TasksInv == task \in [AllParts -> TaskStates] /\ Cardinality(Outstanding) <= Threads + 1

LEMMA PartsFinite == IsFiniteSet(AllParts)
  BY Layout, IntervalCardinality

LEMMA OutstandingFinite == IsFiniteSet(Outstanding) /\ Cardinality(Outstanding) \in Nat
<1>1. Outstanding \subseteq AllParts
  BY DEF Outstanding, In
<1> QED  BY <1>1, PartsFinite, FS_Subset, FS_CardinalityType

LEMMA NoneOutstanding ==
  ASSUME task' = [n \in AllParts |-> "none"]
  PROVE  TasksInv'
<1>1. task' \in [AllParts -> TaskStates]
  BY DEF TaskStates
<1>2. Outstanding' = {}
  BY DEF Outstanding, In
<1>3. Cardinality(Outstanding') = 0
  BY <1>2, FS_EmptySet
<1> QED  BY <1>1, <1>3, UploadAssumption DEF TasksInv

\* A task that moves on, if not from "none", takes no more of the semaphore.
LEMMA FewerOutstanding ==
  ASSUME TasksInv, task' \in [AllParts -> TaskStates], Outstanding' \subseteq Outstanding
  PROVE  TasksInv'
<1>1. PICK more : more = Outstanding'
  OBVIOUS
<1>2. Cardinality(more) <= Cardinality(Outstanding) /\ Cardinality(more) \in Nat
  <2>1. IsFiniteSet(more) /\ Cardinality(more) <= Cardinality(Outstanding)
    BY <1>1, OutstandingFinite, FS_Subset
  <2> QED  BY <2>1, FS_CardinalityType
<1> QED  BY <1>1, <1>2, OutstandingFinite, UploadAssumption DEF TasksInv

LEMMA MoveKeepsTasks ==
  ASSUME TasksInv, NEW n \in AllParts, NEW from \in TaskStates \ {"none", "done", "failed"},
         NEW to \in TaskStates, Move(n, from, to)
  PROVE  TasksInv'
<1>1. /\ task \in [AllParts -> TaskStates] /\ task[n] = from /\ task' = [task EXCEPT ![n] = to]
  BY DEF TasksInv, Move
<1>2. task' \in [AllParts -> TaskStates]
  BY <1>1
<1>3. Outstanding' \subseteq Outstanding
  BY <1>1 DEF Outstanding, In, TaskStates
<1> QED  BY <1>2, <1>3, FewerOutstanding

LEMMA SubmitKeepsTasks ==
  ASSUME TasksInv, NEW n \in AllParts, Submit(n)
  PROVE  TasksInv'
<1>1. /\ task \in [AllParts -> TaskStates] /\ task' = [task EXCEPT ![n] = "queued"]
      /\ Cardinality(Outstanding) <= Threads
  BY DEF TasksInv, Submit
<1>2. task' \in [AllParts -> TaskStates]
  BY <1>1 DEF TaskStates
<1>3. Outstanding' = Outstanding \cup {n}
  BY <1>1 DEF Outstanding, In
<1>4. PICK more : more = Outstanding \cup {n}
  OBVIOUS
<1>5. Cardinality(more) <= Cardinality(Outstanding) + 1 /\ Cardinality(more) \in Nat
  <2>1. /\ IsFiniteSet(more)
        /\ Cardinality(more) = IF n \in Outstanding THEN Cardinality(Outstanding) ELSE Cardinality(Outstanding) + 1
    BY <1>4, OutstandingFinite, FS_AddElement
  <2> QED  BY <2>1, OutstandingFinite
<1>6. Cardinality(more) <= Threads + 1
  BY <1>1, <1>5, OutstandingFinite, UploadAssumption
<1>7. Cardinality(Outstanding') <= Threads + 1
  BY <1>3, <1>4, <1>6
<1> QED  BY <1>2, <1>7 DEF TasksInv

LEMMA TasksInitially == Init => TasksInv
<1> SUFFICES ASSUME Init PROVE TasksInv
  OBVIOUS
<1>1. task = [n \in AllParts |-> "none"]
  BY DEF Init, UploadInit
<1>2. Outstanding = {} /\ task \in [AllParts -> TaskStates]
  BY <1>1 DEF Outstanding, In, TaskStates
<1> QED  BY <1>2, FS_EmptySet, UploadAssumption DEF TasksInv

LEMMA TaskStepsKeepInv ==
  ASSUME TasksInv, [Next]_copyVars
  PROVE  TasksInv'
<1>1. CASE UNCHANGED task
  BY <1>1 DEF TasksInv, Outstanding, In
<1>2. CASE task' = [n \in AllParts |-> "none"]
  BY <1>2, NoneOutstanding
<1>3. CASE UploadStep
  <2>1. CASE UploadBegin \/ UploadEnd
    BY <1>1, <1>2, <2>1 DEF UploadBegin, UploadEnd
  <2>2. CASE \E n \in AllParts : Submit(n)
    BY <2>2, SubmitKeepsTasks
  <2>3. ASSUME NEW n \in AllParts,
               ReadStart(n) \/ ReadEnd(n, "read") \/ CopyStart(n) \/ CopyEnd(n, "done")
        PROVE  TasksInv'
    <3>1. \/ Move(n, "queued", "reading") \/ Move(n, "reading", "read") \/ Move(n, "read", "copying")
          \/ Move(n, "unread", "failed") \/ Move(n, "copying", "done")
      BY <2>3 DEF ReadStart, ReadEnd, CopyStart, CopyEnd
    <3> QED  BY <3>1, MoveKeepsTasks DEF TaskStates
  <2> QED  BY <1>3, <2>1, <2>2, <2>3 DEF UploadStep
<1>4. CASE UploadFault
  <2>1. PICK n \in AllParts : Move(n, "reading", "unread") \/ Move(n, "copying", "failed")
    BY <1>4 DEF UploadFault, ReadEnd, CopyEnd
  <2> QED  BY <2>1, MoveKeepsTasks DEF TaskStates
<1>5. CASE StartCopy \/ StartFinish \/ Crash \/ Uploaded \/ Return
  BY <1>1, <1>2, <1>5 DEF StartCopy, StartFinish, Crash, Uploaded, Return, UploadReset, uploadVars
<1>6. CASE UNCHANGED uploadVars \/ UNCHANGED copyVars
  BY <1>1, <1>6 DEF uploadVars, copyVars
<1> QED  BY <1>3, <1>4, <1>5, <1>6 DEF Next, Step, Fault

LEMMA TasksBound == TasksInv => StagingBounded
<1>1. Staged \subseteq Outstanding
  BY DEF Staged, Outstanding, In
<1>2. IsFiniteSet(Staged) /\ Cardinality(Staged) <= Cardinality(Outstanding)
  BY <1>1, OutstandingFinite, FS_Subset
<1>3. Cardinality(Staged) \in Nat
  BY <1>2, FS_CardinalityType
<1> QED  BY <1>2, <1>3, OutstandingFinite, UploadAssumption DEF TasksInv, StagingBounded

(* The semaphore of upload_parts_resumable(), released by the end of a copy  *)
(* and not by that of a read, bounds the chunk files on the local disk by    *)
(* the number of threads and one, however the two pools are scheduled.       *)
THEOREM StagingStaysBounded == Spec => []StagingBounded
<1>1. TasksInv /\ [Next]_copyVars => TasksInv'
  BY TaskStepsKeepInv
<1> QED  BY <1>1, TasksBound, TasksInitially, PTL DEF Spec
-----------------------------------------------------------------------------
(* The types.                                                              *)

CopyControls ==
  /\ info # None => info.chunk \in 1 .. Size
  /\ mg \in MergeControls /\ outcome \in {"ok", "raised"} /\ fin \in {"none", "done", "cancelled"}
  /\ wq \in Seq({"piece", "eos"}) /\ wr \in {"off", "get", "write", "stopped"}
  /\ up \in UpControls /\ todo \subseteq AllParts /\ task \in [AllParts -> TaskStates]
  /\ call \in {"idle", "copy", "finish"} /\ clean \in BOOLEAN
  /\ budget \in [calls : 0 .. MaxCalls, crashes : 0 .. MaxCrashes, faults : 0 .. MaxFaults]

LEMMA SpendIsTyped ==
  ASSUME NEW what \in {"calls", "crashes", "faults"}, Spend(what),
         budget \in [calls : 0 .. MaxCalls, crashes : 0 .. MaxCrashes, faults : 0 .. MaxFaults]
  PROVE  budget' \in [calls : 0 .. MaxCalls, crashes : 0 .. MaxCrashes, faults : 0 .. MaxFaults]
<1>1. budget' = [budget EXCEPT ![what] = @ - 1] /\ budget[what] > 0
  BY DEF Spend
<1>2. CASE what = "calls"
  BY <1>1, <1>2, CopyAssumption
<1>3. CASE what = "crashes"
  BY <1>1, <1>3, CopyAssumption
<1>4. CASE what = "faults"
  BY <1>1, <1>4, CopyAssumption
<1> QED  BY <1>2, <1>3, <1>4

LEMMA UploadIsTyped ==
  ASSUME CopyControls, UploadStep \/ UploadFault,
         UNCHANGED <<mg, outcome, fin, wq, wr, call>>, clean' \in BOOLEAN,
         budget' \in [calls : 0 .. MaxCalls, crashes : 0 .. MaxCrashes, faults : 0 .. MaxFaults]
  PROVE  CopyControls'
<1>1. CASE UploadBegin
  <2> DEFINE left == AllParts \ parts
             first == CHOOSE n \in left : \A m \in left : n <= m
  <2>1. CASE left # {}
    <3>1. \E n \in left : \A m \in left : n <= m
      <4>1. left \subseteq Nat
        BY Layout
      <4> QED  BY <2>1, <4>1, LeastNat
    <3>2. first \in AllParts
      BY <3>1
    <3>3. PartSize(first) \in 1 .. Size
      BY <3>2, PartSizes
    <3>4. info' = info \/ info' = [chunk |-> PartSize(first), first |-> 1, last |-> LastPart]
      BY <1>1 DEF UploadBegin
    <3>5. todo' \in {todo, left} /\ up' \in UpControls /\ task' \in [AllParts -> TaskStates]
      BY <1>1 DEF UploadBegin, CopyControls, UpControls, TaskStates
    <3> QED  BY <3>3, <3>4, <3>5 DEF CopyControls
  <2>2. CASE left = {}
    BY <1>1, <2>2 DEF UploadBegin, CopyControls, UpControls
  <2> QED  BY <2>1, <2>2
<1>2. CASE UploadEnd
  BY <1>2 DEF UploadEnd, CopyControls, UpControls
<1>3. ASSUME NEW n \in AllParts,
             \/ Submit(n) \/ ReadStart(n) \/ ReadEnd(n, "read") \/ ReadEnd(n, "unread") \/ CopyStart(n)
             \/ CopyEnd(n, "done") \/ CopyEnd(n, "failed")
      PROVE  CopyControls'
  <2>1. PICK s \in TaskStates : task' = [task EXCEPT ![n] = s]
    BY <1>3 DEF Submit, ReadStart, ReadEnd, CopyStart, CopyEnd, Move, TaskStates
  <2>2. task' \in [AllParts -> TaskStates]
    BY <2>1 DEF CopyControls
  <2>3. UNCHANGED <<up, info>> /\ todo' \subseteq todo
    BY <1>3 DEF Submit, ReadStart, ReadEnd, CopyStart, CopyEnd
  <2> QED  BY <2>2, <2>3 DEF CopyControls
<1> QED  BY <1>1, <1>2, <1>3 DEF UploadStep, UploadFault

LEMMA QueueIsTyped ==
  ASSUME wq \in Seq({"piece", "eos"})
  PROVE  {wq, <<>>, Append(wq, "piece"), Append(wq, "eos")} \subseteq Seq({"piece", "eos"})
<1>1. <<>> \in Seq({"piece", "eos"})
  OBVIOUS
<1>2. Append(wq, "piece") \in Seq({"piece", "eos"}) /\ Append(wq, "eos") \in Seq({"piece", "eos"})
  OBVIOUS
<1> QED  BY <1>1, <1>2

LEMMA MergeIsTyped ==
  ASSUME CopyControls, MergeStep \/ MergeFault, UNCHANGED <<uploadVars, call>>, clean' \in BOOLEAN,
         budget' \in [calls : 0 .. MaxCalls, crashes : 0 .. MaxCrashes, faults : 0 .. MaxFaults]
  PROVE  CopyControls'
<1>1. wq' \in {wq, <<>>, Append(wq, "piece"), Append(wq, "eos")} /\ info' \in {info, None}
  BY DEF MergeStep, MergeFault, MergeResume, MergeNew, StartMerge, MergeRefused, JobSubmit, JobStart, JobCopy, JobNote,
         JobTell, FinalRuns, PoolFails, PoolDrained, WriterGets, Complete, EndStream, WriterWrites, Closed, LateWrite,
         Cleanup, PurgeState, Purged, PurgePart, durableVars, poolVars, writerVars
<1>2. wq' \in Seq({"piece", "eos"})
  BY <1>1, QueueIsTyped DEF CopyControls
<1>3. mg' \in MergeControls /\ outcome' \in {"ok", "raised"}
  BY DEF MergeStep, MergeFault, MergeResume, MergeNew, StartMerge, MergeRefused, JobSubmit, JobStart, JobCopy, JobNote,
         JobTell, FinalRuns, PoolFails, PoolDrained, WriterGets, Complete, EndStream, WriterWrites, Closed, LateWrite,
         Cleanup, PurgeState, Purged, PurgePart, durableVars, poolVars, writerVars, CopyControls, MergeControls
<1>4. fin' \in {"none", "done", "cancelled"} /\ wr' \in {"off", "get", "write", "stopped"}
  BY DEF MergeStep, MergeFault, MergeResume, MergeNew, StartMerge, MergeRefused, JobSubmit, JobStart, JobCopy, JobNote,
         JobTell, FinalRuns, PoolFails, PoolDrained, WriterGets, Complete, EndStream, WriterWrites, Closed, LateWrite,
         Cleanup, PurgeState, Purged, PurgePart, durableVars, poolVars, writerVars, CopyControls
<1>5. call' \in {"idle", "copy", "finish"} /\ clean' \in BOOLEAN /\ UNCHANGED uploadVars
  BY DEF CopyControls
<1> QED  BY <1>1, <1>2, <1>3, <1>4, <1>5 DEF CopyControls, uploadVars

LEMMA CallsAreTyped ==
  ASSUME CopyControls, StartCopy \/ StartFinish \/ Crash \/ Uploaded \/ Return \/ UNCHANGED copyVars
  PROVE  CopyControls'
<1>1. budget' \in [calls : 0 .. MaxCalls, crashes : 0 .. MaxCrashes, faults : 0 .. MaxFaults]
  BY SpendIsTyped DEF StartCopy, StartFinish, Crash, Uploaded, Return, CopyControls, copyVars
<1>2. CASE Crash \/ Uploaded
  <2>1. task' = [n \in AllParts |-> "none"] /\ up' = "off" /\ todo' = {}
    BY <1>2 DEF Crash, Uploaded, UploadReset
  <2>2. task' \in [AllParts -> TaskStates]
    BY <2>1 DEF TaskStates
  <2>3. /\ UNCHANGED <<info, clean>> /\ call' \in {call, "idle"}
        /\ mg' \in {mg, "off", "begin"} /\ wq' \in {wq, <<>>} /\ wr' \in {wr, "off"} /\ fin' \in {fin, "none"} /\ outcome' \in {outcome, "ok"}
    BY <1>2 DEF Crash, Uploaded, MergeReset, durableVars, poolVars, writerVars
  <2>4. wq' \in Seq({"piece", "eos"})
    BY <2>3, QueueIsTyped DEF CopyControls
  <2>5. mg' \in MergeControls
    BY <2>3 DEF CopyControls, MergeControls
  <2> QED  BY <1>1, <2>1, <2>2, <2>3, <2>4, <2>5 DEF CopyControls, UpControls
<1>3. CASE StartCopy \/ StartFinish \/ Return
  <2>1. UNCHANGED <<info, todo, task, fin, wq, wr>>
    BY <1>3 DEF StartCopy, StartFinish, Return, uploadVars, durableVars, mergeVars, poolVars, writerVars
  <2>2. mg' \in {mg, "begin", "off"} /\ up' \in {up, "begin"} /\ outcome' \in {outcome, "ok"}
    BY <1>3 DEF StartCopy, StartFinish, Return, uploadVars, durableVars, mergeVars, poolVars, writerVars
  <2>3. call' \in {"copy", "finish", "idle"} /\ clean' \in {clean, TRUE}
    BY <1>3 DEF StartCopy, StartFinish, Return
  <2>4. mg' \in MergeControls /\ up' \in UpControls
    BY <2>2 DEF CopyControls, MergeControls, UpControls
  <2>5. outcome' \in {"ok", "raised"} /\ call' \in {"copy", "finish", "idle"} /\ clean' \in BOOLEAN
    BY <2>2, <2>3 DEF CopyControls
  <2> QED  BY <1>1, <2>1, <2>4, <2>5 DEF CopyControls
<1>4. CASE UNCHANGED copyVars
  BY <1>4 DEF copyVars, uploadVars, mergeVars, CopyControls
<1> QED  BY <1>2, <1>3, <1>4

LEMMA ControlsSteps == CopyControls /\ [Next]_copyVars => CopyControls'
<1> SUFFICES ASSUME CopyControls, [Next]_copyVars PROVE CopyControls'
  OBVIOUS
<1>1. CASE StartCopy \/ StartFinish \/ Crash \/ Uploaded \/ Return \/ UNCHANGED copyVars
  BY <1>1, CallsAreTyped
<1>2. CASE UploadStep /\ UNCHANGED <<mergeVars, call, clean, budget>>
  BY <1>2, UploadIsTyped DEF mergeVars, CopyControls
<1>3. CASE MergeStep /\ UNCHANGED <<uploadVars, call, clean, budget>>
  BY <1>3, MergeIsTyped DEF CopyControls
<1>4. CASE Fault
  <2>1. budget' \in [calls : 0 .. MaxCalls, crashes : 0 .. MaxCrashes, faults : 0 .. MaxFaults]
    BY <1>4, SpendIsTyped DEF Fault, CopyControls
  <2>2. CASE MergeFault /\ UNCHANGED <<uploadVars, call>>
    BY <1>4, <2>1, <2>2, MergeIsTyped DEF Fault
  <2>3. CASE UploadFault /\ UNCHANGED <<mergeVars, call>>
    BY <1>4, <2>1, <2>3, UploadIsTyped DEF Fault, mergeVars
  <2> QED  BY <1>4, <2>2, <2>3 DEF Fault
<1> QED  BY <1>1, <1>2, <1>3, <1>4 DEF Next, Step

LEMMA ControlsInitially == Init => CopyControls
  BY CopyAssumption DEF Init, MergeInit, UploadInit, CopyControls, MergeControls, UpControls, TaskStates

LEMMA RecordIsTyped ==
  ASSUME CopyInv, NEW r, r # None, Claims(r, uploads), Lists(r)
  PROVE  r \in MergeStates
<1>1. r = [id |-> r.id, all |-> r.all, finished |-> r.finished] /\ r.id \in DOMAIN uploads
      /\ r.finished \subseteq uploads[r.id].copied
  BY DEF Claims, TrueIn
<1>2. uploads[r.id] \in Uploads
  BY <1>1 DEF CopyInv, MergeInv, MergeShapes
<1>3. r.finished \subseteq AllParts
  BY <1>1, <1>2 DEF Uploads
<1>4. r.all \in Seq(AllParts)
  BY WholeIs DEF Lists, Runs
<1> QED  BY <1>1, <1>3, <1>4 DEF MergeStates

LEMMA TypesFollow == CopyInv /\ CopyControls => TypeOK
<1> SUFFICES ASSUME CopyInv, CopyControls PROVE TypeOK
  OBVIOUS
<1>1. PartsDirTypeOK
  BY DEF CopyInv, WholeInv, InfoInv, CopyControls, PartsDirTypeOK
<1>2. UploadTypeOK
  BY DEF CopyControls, UploadTypeOK
<1>3. {mergeJson, st, snap, late} \ {None} \subseteq MergeStates
  BY RecordIsTyped DEF CopyInv, MergeInv, Records, WholeInv
<1>4. object \in Seq(AllParts) \cup {None}
  BY WholeIs DEF CopyInv, WholeInv, Runs
<1>5. MergeTypeOK
  BY <1>3, <1>4 DEF MergeTypeOK, CopyInv, MergeInv, MergeShapes, Uploads, CopyControls
<1> QED  BY <1>1, <1>2, <1>5 DEF TypeOK, CopyControls

LEMMA CopyTypes == Init /\ [][Next]_copyVars => []TypeOK
<1>1. Init => CopyInv /\ CopyControls
  BY MergeInitially, WholeInitially, ControlsInitially DEF CopyInv
<1>2. CopyInv /\ CopyControls /\ [Next]_copyVars => (CopyInv /\ CopyControls)'
  BY CopyStepsKeepInv, ControlsSteps
<1> QED  BY <1>1, <1>2, TypesFollow, PTL

(* The parts directory, the upload and the merge keep their types: merge.json *)
(* in particular names a multipart upload that was made, and parts there are. *)
THEOREM TypeCorrect == Spec => []TypeOK
  BY CopyTypes, PTL DEF Spec
=============================================================================
