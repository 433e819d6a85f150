------------------------------ MODULE MCOISubset ------------------------------
(***************************************************************************)
(* Small inputs for TLC: every list of at most ManyMasks filters with      *)
(* every mask, and lists of OneMask distinct filters with all bits in use. *)
(***************************************************************************)
EXTENDS OISubset

CONSTANTS
  ManyMasks,     \* length of the lists tried with every mask
  OneMask        \* length of the lists of distinct filters

Distinct(s) == \A i, j \in DOMAIN s : i # j => s[i] # s[j]

SmallInputs ==
  [filters : UNION {[1 .. n -> Filter] : n \in 0 .. ManyMasks},
   mask : SUBSET Bits]

DistinctInputs ==
  [filters : {s \in [1 .. OneMask -> Filter] : Distinct(s)}, mask : {Bits}]

SomeInputs == SmallInputs \cup DistinctInputs
=============================================================================
