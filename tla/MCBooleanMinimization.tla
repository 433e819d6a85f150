----------------------- MODULE MCBooleanMinimization -----------------------
(***************************************************************************)
(* Small rule lists for TLC, over Width bits.                              *)
(***************************************************************************)
EXTENDS BooleanMinimization

CONSTANTS
  MaxRules,        \* bound on the length of an input list
  FewActions       \* the actions used by the longest lists

Lists(acts, n) ==
  UNION {[1 .. i -> [filter : Filter, action : acts]] : i \in 0 .. n}

\* Every list of MaxRules rules over FewActions, and every list over all the
\* actions with a rule less: a third action is what makes two conflicting
\* rules conflict with each other, a fourth rule what puts one between them.
WithoutResolution ==
  [rules : Lists(FewActions, MaxRules) \cup Lists(Actions, MaxRules - 1),
   use_resolution : {FALSE}]

\* A resolution needs two rules and one between them.
WithResolution == [rules : Lists(Actions, MaxRules - 1), use_resolution : {TRUE}]

AllCalls == WithoutResolution \cup WithResolution
=============================================================================
