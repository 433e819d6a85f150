---------------------------- MODULE IndependentSet ----------------------------
(***************************************************************************)
(* The greedy construction of a maximal independent set, whatever decides  *)
(* which live vertex is chosen next: the promise of find_maximal_oi_subset *)
(* (p4t/opt/oi_algos.h).                                                   *)
(***************************************************************************)
VARIABLES
  vertices,    \* the graph: its vertices,
  edges,       \* and its edges, as pairs in both directions
  chosen,      \* the vertices chosen so far
  live         \* vertices neither chosen nor excluded by a chosen one

vars == <<vertices, edges, chosen, live>>

\* A filter intersects itself, so the code's graph has every loop.
IsGraph ==
  /\ edges \subseteq vertices \X vertices
  /\ \A v \in vertices : <<v, v>> \in edges
  /\ \A e \in edges : <<e[2], e[1]>> \in edges

Init ==
  /\ IsGraph
  /\ chosen = {}
  /\ live = vertices

Choose(v) ==
  /\ v \in live
  /\ chosen' = chosen \cup {v}
  /\ live' = {w \in live : <<v, w>> \notin edges}
  /\ UNCHANGED <<vertices, edges>>

Next == \E v \in live : Choose(v)

Spec == Init /\ [][Next]_vars

-----------------------------------------------------------------------------
\* No two chosen vertices are neighbours.
IndependentChosen ==
  \A v, w \in chosen : v # w => <<v, w>> \notin edges

\* Live vertices are exactly those that can still be chosen.
LiveAreFree ==
  live = {v \in vertices : \A c \in chosen : <<c, v>> \notin edges}

\* When nothing is live, the choice is maximal.
MaximalChosen ==
  live = {} => \A v \in vertices : \E c \in chosen : <<c, v>> \in edges
=============================================================================
