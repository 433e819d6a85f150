------------------------------- MODULE MCSharing -------------------------------
(***************************************************************************)
(* Small sessions for TLC.                                                 *)
(***************************************************************************)
EXTENDS Sharing

CONSTANT MaxRules     \* bound on the rules of a classifier

Lists(filters, n) ==
  UNION {[1 .. i -> [filter : filters, action : Actions]] : i \in 0 .. n}

\* Filters that cover, meet and miss each other.
FewFilters ==
  {[b \in Bits |-> IF b = 0 THEN f[1] ELSE f[2]] :
     f \in {<<ONE, ONE>>, <<ONE, ANY>>, <<ANY, ONE>>, <<ANY, ANY>>}}

SomeSessions ==
  [cls : Lists(Filter, MaxRules - 1), use_resolution : BOOLEAN]
    \cup [cls : Lists(FewFilters, MaxRules), use_resolution : {FALSE}]
=============================================================================
