------------------------------ MODULE PackedFilter ------------------------------
(***************************************************************************)
(* Filters as the code stores them: PackedBitArray (p4t/utils/bit_array.h) *)
(* and the two arrays of a Filter (p4t/model/filter.h), with the loops     *)
(* over their chunks.                                                      *)
(*                                                                         *)
(* A chunk is the set of the offsets whose bit is one, so that &, | and ~  *)
(* are the operations on sets.  The arrays have MaxWidth bits and a filter *)
(* may have fewer; the bits above are padding.                             *)
(***************************************************************************)
EXTENDS Ternary

CONSTANTS
  ChunkBits,    \* BITS_PER_CHUNK, 64 in the code
  MaxWidth      \* MAX_WIDTH, 104 in the code

\* assert(width_ <= MAX_WIDTH)
ASSUME PackingAssumption ==
  /\ ChunkBits \in Nat \ {0}
  /\ MaxWidth \in Nat
  /\ Width <= MaxWidth

-----------------------------------------------------------------------------
(* Bit arrays.                                                             *)

NumChunks == (MaxWidth + ChunkBits - 1) \div ChunkBits

ChunkIds == 0 .. NumChunks - 1
Offsets  == 0 .. ChunkBits - 1

BitArray == [ChunkIds -> SUBSET Offsets]

NoBits == [c \in ChunkIds |-> {}]

SetBit(arr, i, x) ==
  [arr EXCEPT ![i \div ChunkBits] = IF x THEN @ \cup {i % ChunkBits} ELSE @ \ {i % ChunkBits}]

GetBit(arr, i) == i % ChunkBits \in arr[i \div ChunkBits]

Xor(a, b) == (a \ b) \cup (b \ a)

Complement(a) == Offsets \ a

\* is_zero(lhs - rhs).
IsSubmask(lhs, rhs) == \A c \in ChunkIds : lhs[c] \cap Complement(rhs[c]) = {}

\* bits_to_mask: SetBit for every bit of S.
BitsToMask(S) == [c \in ChunkIds |-> {o \in Offsets : c * ChunkBits + o \in S}]

-----------------------------------------------------------------------------
(* Filters.                                                                *)

PackedFilter == [value : BitArray, mask : BitArray]

\* Filter(width).
AllAny == [value |-> NoBits, mask |-> NoBits]

\* operator[]
PackedAt(p, i) ==
  IF ~ GetBit(p.mask, i) THEN ANY ELSE IF GetBit(p.value, i) THEN ONE ELSE ZERO

\* Filter::set.  ANY leaves the value as it was.
PackedSet(p, i, x) ==
  IF x = ANY
  THEN [value |-> p.value, mask |-> SetBit(p.mask, i, FALSE)]
  ELSE [value |-> SetBit(p.value, i, x = ONE), mask |-> SetBit(p.mask, i, TRUE)]

\* svmr_entry2filter: the bits of an entry, set one after the other.
Packed(f) ==
  LET after[n \in 0 .. Width] ==
        IF n = 0 THEN AllAny ELSE PackedSet(after[n - 1], n - 1, f[n - 1])
  IN  after[Width]

PackedDifferences(p, q, mask, c) ==
  Xor(p.value[c], q.value[c]) \cap mask[c] \cap p.mask[c] \cap q.mask[c]

PackedIntersect(p, q, mask) ==
  \A c \in ChunkIds : PackedDifferences(p, q, mask, c) = {}

PackedSubsums(p, q) ==
  \A c \in ChunkIds :
    (Xor(p.value[c], q.value[c]) \cup Complement(q.mask[c])) \cap p.mask[c] = {}

PackedHasAny(p, mask) == \E c \in ChunkIds : mask[c] \cap Complement(p.mask[c]) # {}

\* Mutant: only the chunk of the first difference is looked at.
PackedFastBlocker_FirstChunk(p, q, mask) ==
  LET diff(c) == PackedDifferences(p, q, mask, c)
      nonzero == {c \in ChunkIds : diff(c) # {}}
      c0      == First(nonzero)
      idx     == First(diff(c0))
  IN  IF nonzero = {} THEN [only |-> TRUE, first |-> -1]
      ELSE [only |-> diff(c0) = {idx}, first |-> c0 * ChunkBits + idx]

\* The loop is left at the second chunk, or the second bit of a chunk, that
\* differs.
PackedFastBlocker(p, q, mask) ==
  LET diff(c) == PackedDifferences(p, q, mask, c)
      nonzero == {c \in ChunkIds : diff(c) # {}}
      c0      == First(nonzero)
      idx     == First(diff(c0))
  IN  IF nonzero = {} THEN [only |-> TRUE, first |-> -1]
      ELSE [only |-> diff(c0) = {idx} /\ nonzero = {c0}, first |-> c0 * ChunkBits + idx]

-----------------------------------------------------------------------------
\* p is a filter of Width bits that reads as f, wherever its value has been
\* left behind by a set to ANY; its mask has nothing in the padding.
Represents(p, f) ==
  /\ p \in PackedFilter
  /\ \A b \in Bits : PackedAt(p, b) = f[b]
  /\ \A c \in ChunkIds : \A o \in p.mask[c] : c * ChunkBits + o \in Bits

\* The loops over the chunks of two filters as they are stored have the answers
\* the definitions by bits have.
AnswersAlike(f, g, mask) ==
  LET p == Packed(f)
      q == Packed(g)
      m == BitsToMask(mask)
  IN  /\ Represents(p, f) /\ Represents(q, g)
      /\ PackedIntersect(p, q, m) = Intersect(f, g, mask)
      /\ PackedFastBlocker(p, q, m) = FastBlocker(f, g, mask)
      /\ PackedSubsums(p, q) = Subsums(f, g)
      /\ PackedHasAny(p, m) = (\E b \in mask : f[b] = ANY)
      /\ IsSubmask(p.mask, q.mask) = (Support(f) \subseteq Support(g))
=============================================================================
