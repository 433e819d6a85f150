------------------------------ MODULE MaximalOI ------------------------------
(***************************************************************************)
(* What find_maximal_oi_subset (p4t/opt/oi_algos.cpp) returns: the order   *)
(* in which a greedy run picks filters that are pairwise disjoint          *)
(* ("order independent") on a mask.                                        *)
(*                                                                         *)
(* OISubset.tla is the code's step-by-step computation, shown there to end *)
(* in the run described here; the callers are modelled with GreedyRuns.    *)
(***************************************************************************)
EXTENDS Ternary, Sequences

TOP_DOWN   == "top_down"
MIN_DEGREE == "min_degree"
OIMode     == {TOP_DOWN, MIN_DEGREE}

\* Positions that intersect none of the picked ones.
Remaining(fs, mask, picked) ==
  {k \in DOMAIN fs : \A p \in picked : ~Intersect(fs[k], fs[p], mask)}

Degree(fs, mask, i, S) ==
  Cardinality({j \in S : j # i /\ Intersect(fs[j], fs[i], mask)})

\* min_element returns the first of the least degree.
Preferred(fs, mask, mode, S) ==
  IF mode = TOP_DOWN
  THEN First(S)
  ELSE First({i \in S : \A j \in S :
                Degree(fs, mask, i, S) <= Degree(fs, mask, j, S)})

Before(r, k) == {r[i] : i \in 1 .. k - 1}

IsGreedyRun(fs, mask, mode, r) ==
  /\ Remaining(fs, mask, Before(r, Len(r) + 1)) = {}
  /\ \A k \in DOMAIN r :
       LET S == Remaining(fs, mask, Before(r, k))
       IN  r[k] \in S /\ r[k] = Preferred(fs, mask, mode, S)

PickOrders(n) == UNION {[1 .. k -> 1 .. n] : k \in 0 .. n}

\* A singleton: the choice of each pick is determined by the earlier ones.
GreedyRuns(fs, mask, mode) ==
  {r \in PickOrders(Len(fs)) : IsGreedyRun(fs, mask, mode, r)}
=============================================================================
