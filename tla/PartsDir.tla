------------------------------ MODULE PartsDir ------------------------------
(***************************************************************************)
(* The directory <dst>-parts through which a resumable copy works: the     *)
(* part objects uploaded so far, info.json, and the arithmetic that names  *)
(* the parts (PartInfo in types.py, InfoJson in info_json.py).  It is all  *)
(* a crash leaves behind of an upload, and all a merge has to go by.       *)
(***************************************************************************)
EXTENDS Integers, FiniteSets

CONSTANTS
  Size,          \* bytes in the source object
  Chunk,         \* the chunk size asked for (96MB in the code)
  MaxPartNumber, \* _MAX_PART_NUMBER
  None           \* Python's None

ASSUME PartsDirAssumption ==
  /\ Size \in Nat \ {0} /\ Chunk \in Nat \ {0} /\ MaxPartNumber \in Nat \ {0}
  /\ None \notin [chunk : Nat, first : Nat, last : Nat]

VARIABLES
  parts, \* the numbers of the part.* objects in the directory
  info   \* info.json: [chunk, first, last], or None

CeilDiv(a, b) == (a + b - 1) \div b

\* PartInfo._get_chunk_size: no smaller than MaxPartNumber parts allow.
ChunkSize(size, target) ==
  LET least == CeilDiv(size, MaxPartNumber) IN IF least > target THEN least ELSE target

\* PartInfo.split_parts: the ranges, numbered from one; the last may be short.
SplitParts(size, target) ==
  LET c == ChunkSize(size, target) IN
    [n \in 1 .. CeilDiv(size, c) |->
       [start |-> (n - 1) * c, end |-> IF n * c > size THEN size ELSE n * c]]

PartSize(n)  == LET r == SplitParts(Size, Chunk)[n] IN r.end - r.start
AllParts     == DOMAIN SplitParts(Size, Chunk)
LastPart     == Cardinality(AllParts)

\* Mutant: the list sliced as if part numbers were its indices, from one.
ExpectedFromTheList(i) == {n \in DOMAIN SplitParts(Size, i.chunk) : n - 1 > i.first /\ n <= i.last}

\* InfoJson.compute_all_part_numbers: the list of parts, whose index 0 holds
\* part 1, sliced [first : last + 1] by part numbers.
ExpectedParts(i) == {n \in DOMAIN SplitParts(Size, i.chunk) : n - 1 \in i.first .. i.last}

\* InfoJson.fetch_is_done.
FetchIsDone == info # None /\ ExpectedParts(info) \subseteq parts

PartsDirTypeOK ==
  /\ parts \subseteq AllParts
  /\ info \in [chunk : 1 .. Size, first : {1}, last : {LastPart}] \cup {None}
=============================================================================
