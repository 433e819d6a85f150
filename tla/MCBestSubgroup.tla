---------------------------- MODULE MCBestSubgroup ----------------------------
(***************************************************************************)
(* Small calls for TLC: every list of less than MaxFilters filters out of  *)
(* six, and of MaxFilters out of five, with every limit up to MaxLimit;    *)
(* and the shorter lists with a limit above the width.                     *)
(***************************************************************************)
EXTENDS BestSubgroup

CONSTANTS
  MaxFilters,     \* bound on the number of filters
  MaxLimit,       \* bound on the number of bits asked for
  Algorithms      \* the algorithms tried

Bit3(a, b, c) == [k \in Bits |-> CASE k = 0 -> a [] k = 1 -> b [] OTHER -> c]

\* Prefixes and filters that are none: some pairs differ in one bit, some in
\* several, some not at all.
FewFilters ==
  { Bit3(ZERO, ZERO, ONE),  Bit3(ZERO, ONE, ANY),  Bit3(ONE, ANY, ANY),
    Bit3(ANY, ONE, ONE),    Bit3(ANY, ANY, ZERO) }

SomeFilters == FewFilters \cup {Bit3(ONE, ZERO, ZERO)}

ShortLists == UNION {[1 .. n -> SomeFilters] : n \in 0 .. MaxFilters - 1}

LongLists == [1 .. MaxFilters -> FewFilters]

Calls(lists, limits) ==
  [filters : lists, limit : limits, only_exact : BOOLEAN,
   algo : Algorithms, oi_mode : OIMode]

SomeCalls ==
  Calls(ShortLists \cup LongLists, 0 .. MaxLimit) \cup Calls(ShortLists, {Width + 1})
=============================================================================
