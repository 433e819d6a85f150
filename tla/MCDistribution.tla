---------------------------- MODULE MCDistribution ----------------------------
(***************************************************************************)
(* Small calls for TLC: lists of at most MaxRules of a few rules, most of  *)
(* which meet each other, and two or three switches.                       *)
(***************************************************************************)
EXTENDS Distribution

CONSTANTS
  MaxRules,       \* bound on the number of rules
  Acts,           \* the actions used
  CapacityLists   \* the capacities tried

Bit2(a, b) == [k \in Bits |-> IF k = 0 THEN a ELSE b]

SomeFilters == {Bit2(ZERO, ANY), Bit2(ANY, ZERO), Bit2(ONE, ONE), Bit2(ANY, ANY)}

Lists == UNION {[1 .. n -> [filter : SomeFilters, action : Acts]] : n \in 0 .. MaxRules}

SomeCalls == [rules : Lists, capacities : CapacityLists]

\* A switch without room is one on which nothing fits.
Capacities == {<<2, 2>>, <<3, 2>>, <<2, 3, 1>>, <<3, 0>>}

\* The first two rules are decided by the first switch and shadow the others
\* as NOP rules: the second switch has to place more rules than it keeps.
Shadowed ==
  {[k \in 1 .. 5 |->
      [filter |-> <<Bit2(ZERO, ZERO), Bit2(ONE, ONE), Bit2(ZERO, ANY),
                    Bit2(ANY, ONE), Bit2(ANY, ANY)>>[k],
       action |-> acts[k]]] : acts \in [1 .. 5 -> Acts]}

AllCalls == SomeCalls \cup [rules : Shadowed, capacities : {<<3, 3>>, <<3, 4, 1>>}]

ShadowedCalls == [rules : Shadowed, capacities : {<<3, 3>>}]
=============================================================================
