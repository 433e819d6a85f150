------------------------------- MODULE Ternary -------------------------------
(***************************************************************************)
(* Ternary bit vectors: the filters, supports and bit masks every native   *)
(* algorithm is built from (p4t/model/filter.h, p4t/model/support.h).      *)
(*                                                                         *)
(* The code packs a filter into two bit arrays, value_ and mask_, here a   *)
(* function from bit indices to ONE, ZERO and ANY; PackedFilter has the    *)
(* arrays, and PackingFaithful in TernaryProofs why this is enough.        *)
(* A mask (a set of bits in use) and a support (a sorted vector of exact   *)
(* bits) are sets of bit indices.                                          *)
(***************************************************************************)
EXTENDS Integers, FiniteSets

CONSTANT Width      \* number of classification bits (Filter::size)

ASSUME WidthAssumption == Width \in Nat

Bits == 0 .. Width - 1

ONE  == "1"
ZERO == "0"
ANY  == "*"

Filter == [Bits -> {ONE, ZERO, ANY}]

\* A packet header: a fully specified bit vector.
Header == [Bits -> {ONE, ZERO}]

Support(f) == {b \in Bits : f[b] # ANY}

Matches(h, f) == \A b \in Support(f) : h[b] = f[b]

-----------------------------------------------------------------------------
(* Pairs of filters.                                                       *)

\* (f1.value ^ f2.value) & mask & f1.mask & f2.mask, as a set of bits.
Differences(f, g, mask) ==
  {b \in mask : f[b] # ANY /\ g[b] # ANY /\ f[b] # g[b]}

Intersect(f, g, mask) == Differences(f, g, mask) = {}

\* lhs is at least as general as rhs: it covers every header rhs covers.
Subsums(lhs, rhs) == \A b \in Support(lhs) : rhs[b] = lhs[b]

\* {only one difference?, first difference or -1}
FastBlocker(f, g, mask) ==
  LET diff == Differences(f, g, mask)
  IN  [only  |-> Cardinality(diff) <= 1,
       first |-> IF diff = {} THEN -1
                 ELSE CHOOSE b \in diff : \A c \in diff : b <= c]

-----------------------------------------------------------------------------
(* Sequences of filters.                                                   *)

\* is_oi: no two filters of the sequence intersect on the bits of mask.
IsOI(filters, mask) ==
  \A i, j \in DOMAIN filters :
     j < i => ~Intersect(filters[i], filters[j], mask)

\* find_exact: the bits of mask on which every filter is exact.
ExactBits(filters, mask) ==
  {b \in mask : \A i \in DOMAIN filters : filters[i][b] # ANY}

\* The least element of a non-empty set of integers.
First(S) == CHOOSE x \in S : \A y \in S : x <= y
=============================================================================
