------------------------------- MODULE OISubset -------------------------------
(***************************************************************************)
(* find_maximal_oi_subset (p4t/opt/oi_algos.cpp), step by step, in both    *)
(* modes.                                                                  *)
(*                                                                         *)
(* TOP_DOWN scans the filters once.  MIN_DEGREE keeps, in num_edges, the   *)
(* degree of every filter in the intersection graph of the filters still   *)
(* in "indices"; degrees are first counted and later decremented by        *)
(* __gnu_parallel::for_each, one iteration per index, in any order and     *)
(* with a barrier at the end of the loop.  An iteration writes only its    *)
(* own element of num_edges and what it reads is not written during the    *)
(* loop, so an iteration is one step.  "indices" stays in ascending order  *)
(* (stable_partition, then erase of the tail) and is modelled as a set.    *)
(***************************************************************************)
EXTENDS MaximalOI, Functions

CONSTANTS
  Inputs,     \* set of [filters |-> ..., mask |-> ...]
  Scale       \* MinDegreeBound is stated in parts of 1 / Scale

ASSUME InputsAssumption ==
  Inputs \subseteq [filters : Seq(Filter), mask : SUBSET Bits]

ASSUME ScaleAssumption == Scale \in Nat

VARIABLES
  filters, mask, mode,   \* the arguments
  result,                \* the picked positions, in the order of picking
  cursor,                \* TOP_DOWN: the next filter of the scan
  indices,               \* MIN_DEGREE: positions not erased yet
  removed,               \* the range [rm_it, end) of indices
  num_edges,             \* degrees
  pending,               \* iterations of the parallel loop still to run
  pc

args == <<filters, mask, mode>>
vars == <<filters, mask, mode, result, cursor, indices, removed, num_edges,
          pending, pc>>

Isect(i, j) == Intersect(filters[i], filters[j], mask)

Picked == {result[k] : k \in DOMAIN result}

-----------------------------------------------------------------------------
Init ==
  /\ \E in \in Inputs : filters = in.filters /\ mask = in.mask
  /\ mode \in OIMode
  /\ result = <<>>
  /\ cursor = 1
  /\ indices = DOMAIN filters
  /\ removed = {}
  /\ num_edges = [i \in DOMAIN filters |-> 0]
  /\ pending = DOMAIN filters
  /\ pc = IF mode = TOP_DOWN THEN "scan" ELSE "count"

\* Mutant: a filter is compared with the last picked one only.
Scan_LastOnly ==
  /\ pc = "scan"
  /\ cursor <= Len(filters)
  /\ result' = IF result # <<>> /\ Isect(result[Len(result)], cursor)
               THEN result
               ELSE Append(result, cursor)
  /\ cursor' = cursor + 1
  /\ UNCHANGED <<args, indices, removed, num_edges, pending, pc>>

\* Mutant: a filter is compared with all earlier ones, picked or not.
Scan_AllEarlier ==
  /\ pc = "scan"
  /\ cursor <= Len(filters)
  /\ result' = IF \E j \in 1 .. cursor - 1 : Isect(j, cursor)
               THEN result
               ELSE Append(result, cursor)
  /\ cursor' = cursor + 1
  /\ UNCHANGED <<args, indices, removed, num_edges, pending, pc>>

\* One iteration of find_maximal_oi_subset_top_down.
Scan ==
  /\ pc = "scan"
  /\ cursor <= Len(filters)
  /\ result' = IF \E j \in Picked : Isect(j, cursor)
               THEN result
               ELSE Append(result, cursor)
  /\ cursor' = cursor + 1
  /\ UNCHANGED <<args, indices, removed, num_edges, pending, pc>>

\* Iteration i of the first parallel loop.
CountEdges(i) ==
  /\ pc = "count"
  /\ i \in pending
  /\ num_edges' = [num_edges EXCEPT ![i] =
                     @ + Cardinality({j \in DOMAIN filters : j # i /\ Isect(j, i)})]
  /\ pending' = pending \ {i}
  /\ UNCHANGED <<args, result, cursor, indices, removed, pc>>

\* The barrier at the end of the first parallel loop.
Counted ==
  /\ pc = "count"
  /\ pending = {}
  /\ pc' = "pick"
  /\ UNCHANGED <<args, result, cursor, indices, removed, num_edges, pending>>

\* Mutant: the last of several minima.
MinElement_LastMinimum ==
  CHOOSE i \in indices : \A j \in indices :
    num_edges[i] < num_edges[j] \/ (num_edges[i] = num_edges[j] /\ j <= i)

\* Mutant: the comparison is the wrong way round.
MinElement_Maximum ==
  First({i \in indices : \A j \in indices : num_edges[i] >= num_edges[j]})

MinElement == First({i \in indices : \A j \in indices : num_edges[i] <= num_edges[j]})

\* Mutant: only what stands behind the pick is partitioned.
Pick_OnlyBehind ==
  /\ pc = "pick"
  /\ indices # {}
  /\ LET min_idx == MinElement
     IN  /\ result' = Append(result, min_idx)
         /\ removed' = {i \in indices : i >= min_idx /\ Isect(i, min_idx)}
  /\ pending' = indices \ removed'
  /\ pc' = "update"
  /\ UNCHANGED <<args, cursor, indices, num_edges>>

\* min_element, then stable_partition: what intersects the pick (the pick
\* itself included) moves behind rm_it.
Pick ==
  /\ pc = "pick"
  /\ indices # {}
  /\ LET min_idx == MinElement
     IN  /\ result' = Append(result, min_idx)
         /\ removed' = {i \in indices : Isect(i, min_idx)}
  /\ pending' = indices \ removed'
  /\ pc' = "update"
  /\ UNCHANGED <<args, cursor, indices, num_edges>>

\* Mutant: only the pick is subtracted, not everything that was removed.
UpdateEdges_PickOnly(i) ==
  /\ pc = "update"
  /\ i \in pending
  /\ num_edges' = [num_edges EXCEPT ![i] =
                     @ - Cardinality({j \in {result[Len(result)]} : Isect(i, j)})]
  /\ pending' = pending \ {i}
  /\ UNCHANGED <<args, result, cursor, indices, removed, pc>>

\* Iteration i of the second parallel loop.
UpdateEdges(i) ==
  /\ pc = "update"
  /\ i \in pending
  /\ num_edges' = [num_edges EXCEPT ![i] =
                     @ - Cardinality({j \in removed : Isect(i, j)})]
  /\ pending' = pending \ {i}
  /\ UNCHANGED <<args, result, cursor, indices, removed, pc>>

\* The barrier, then indices.erase(rm_it, end).
Erase ==
  /\ pc = "update"
  /\ pending = {}
  /\ indices' = indices \ removed
  /\ removed' = {}
  /\ pc' = "pick"
  /\ UNCHANGED <<args, result, cursor, num_edges, pending>>

\* The loops are left.
Finish ==
  /\ \/ pc = "scan" /\ cursor > Len(filters)
     \/ pc = "pick" /\ indices = {}
  /\ pc' = "done"
  /\ UNCHANGED <<args, result, cursor, indices, removed, num_edges, pending>>

Return ==
  /\ pc = "done"
  /\ UNCHANGED vars

Iteration == \E i \in DOMAIN filters : CountEdges(i) \/ UpdateEdges(i)

Step == Scan \/ Iteration \/ Counted \/ Pick \/ Erase \/ Finish

Next == Step \/ Return

Spec == Init /\ [][Next]_vars

-----------------------------------------------------------------------------
TypeOK ==
  /\ filters \in Seq(Filter)
  /\ mask \in SUBSET Bits
  /\ mode \in OIMode
  /\ result \in Seq(DOMAIN filters)
  /\ cursor \in 1 .. Len(filters) + 1
  /\ indices \in SUBSET DOMAIN filters
  /\ removed \in SUBSET indices
  /\ num_edges \in [DOMAIN filters -> Int]
  /\ pending \in SUBSET DOMAIN filters
  /\ pc \in {"scan", "count", "pick", "update", "done"}

(* Properties.                                                             *)

\* The filters picked so far are order independent: pairwise disjoint on the
\* mask (what is_oi asserts of the result in best_to_stay_minme).
Independent ==
  \A k, l \in DOMAIN result : l < k => ~Isect(result[k], result[l])

\* The result is maximal, as the name of the function says: a filter left
\* out intersects one that was picked.
Maximal ==
  pc = "done" => \A i \in DOMAIN filters :
                    i \notin Picked => \E p \in Picked : Isect(i, p)

\* When min_element reads the degrees, decrementing them in parallel has
\* kept them what counting them afresh would give, none stale or negative.
DegreesFresh ==
  pc = "pick" => \A i \in indices :
                    num_edges[i] = Degree(filters, mask, i, indices)

\* Whatever the order of the parallel iterations, the result is the one run
\* of the greedy algorithm, with ties broken by position.
Deterministic == pc = "done" => result \in GreedyRuns(filters, mask, mode)

\* What picking by least degree is worth: the result is at least as large as
\* the sum over all filters of 1 / (degree + 1).  The scan of TOP_DOWN gives
\* no such bound; a stale or wrongly compared degree loses it.
MinDegreeBound ==
  LET share == [i \in DOMAIN filters |->
                  Scale \div (Degree(filters, mask, i, DOMAIN filters) + 1)]
  IN  pc = "done" /\ mode = MIN_DEGREE =>
        Scale * Len(result) >= FoldFunction(+, 0, share)

-----------------------------------------------------------------------------
(* Both modes implement the greedy construction of a maximal independent   *)
(* set of the intersection graph.                                          *)

Live == IF mode = TOP_DOWN
        THEN {k \in cursor .. Len(filters) : \A p \in Picked : ~Isect(p, k)}
        ELSE indices \ removed

Abstract == INSTANCE IndependentSet WITH
  vertices <- DOMAIN filters,
  edges    <- {e \in (DOMAIN filters) \X (DOMAIN filters) : Isect(e[1], e[2])},
  chosen   <- Picked,
  live     <- Live

\* Every pick is a step of the abstract algorithm: a live filter is chosen
\* and exactly the filters that intersect it stop being live; every other
\* step, scanning over a filter or updating degrees, changes nothing of it.
RefinesIndependentSet == Abstract!Spec
=============================================================================
