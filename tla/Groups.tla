-------------------------------- MODULE Groups --------------------------------
(***************************************************************************)
(* What an LPM group is made of: filters reordered to the bits of a        *)
(* ReorderingClassifier (cls/classifiers/simple.py), chains of supports    *)
(* (p4t/model/support.h) and the bit order they give                       *)
(* (cls/optimizations/oi_lpm.py).                                          *)
(*                                                                         *)
(* A reordered filter is a function from coordinates 1 .. n, coordinate k  *)
(* standing for bits[k].                                                   *)
(***************************************************************************)
EXTENDS Ternary, Sequences

\* _reorder_vmr and subset_filter.
Reordered(f, bits) == [k \in DOMAIN bits |-> f[bits[k]]]

\* is_prefix of updates.cpp: nothing but ANY after the first ANY.
IsPrefix(f) == \A k, l \in DOMAIN f : k < l /\ f[k] = ANY => f[l] = ANY

\* to_support, of a reordered filter.
Exact(f) == {k \in DOMAIN f : f[k] # ANY}

Covers(f, h, bits) == \A k \in DOMAIN f : f[k] \in {ANY, h[bits[k]]}

DisjointFilters(f, g) == \E k \in DOMAIN f : ANY \notin {f[k], g[k]} /\ f[k] # g[k]

-----------------------------------------------------------------------------
IsChain(supports) == \A s, t \in supports : s \subseteq t \/ t \subseteq s

\* _chain2diffs: the number of the first support of the chain that has
\* coordinate k; the last call of _chain2bits adds the whole width.
Level(chain, k) == Cardinality({s \in chain : k \notin s})

Precedes(chain, k, l) ==
  \/ Level(chain, k) < Level(chain, l)
  \/ Level(chain, k) = Level(chain, l) /\ k < l

\* Mutant: the bits stay in ascending order.
Chain2Bits_Ascending(chain, n) == [p \in 1 .. n |-> p]

\* _chain2bits: position p holds the coordinate with p - 1 before it.
Chain2Bits(chain, n) ==
  [p \in 1 .. n |->
     CHOOSE k \in 1 .. n : Cardinality({l \in 1 .. n : Precedes(chain, l, k)}) = p - 1]
=============================================================================
