----------------------------- MODULE Distribution -----------------------------
(***************************************************************************)
(* Placing a classifier on a line of switches: boolean_minimization        *)
(* (cls/optimizations/distribution.py) and perform_best_splitting          *)
(* (p4t/opt/distribution_algos.cpp), without resolution.                   *)
(*                                                                         *)
(* A switch gets the first rules of the list.  What it decides becomes NOP *)
(* in the list for the switches after it, which is minimized again.  The   *)
(* loop around the binary search runs once, for the first rule that acts,  *)
(* so that the best cut is the one it finds.                               *)
(***************************************************************************)
EXTENDS RuleLists

CONSTANT Inputs    \* the calls

Call == [rules : Seq(Rule), capacities : Seq(Nat)]

ASSUME InputsAssumption == Inputs \subseteq Call

VARIABLES
  call,    \* the arguments
  left,    \* cls: what is not placed yet
  placed,  \* result: the rules of the switches done
  l, r,    \* the binary search for the cut
  here,    \* rules_here, empty before the first probe
  pc

vars == <<call, left, placed, l, r, here, pc>>

-----------------------------------------------------------------------------
(* The calls of perform_boolean_minimization, which without resolution is  *)
(* one forward and one backward pass.                                      *)

\* The number of positions in S before i, and the position with n before it.
Before(S, i) == Cardinality({j \in S : j < i})

Position(S, n) == CHOOSE i \in S : Before(S, i) = n

\* utils::subset: the rules at the positions of S, in their order.
Subset(list, S) == [k \in 1 .. Cardinality(S) |-> list[Position(S, k - 1)]]

Minimized(list) == Subset(list, BackwardPass(list, ForwardPass(list, DOMAIN list)))

\* Rules from first up to, but not including, last do nothing.
WithNops(list, first, last) ==
  [k \in DOMAIN list |->
     IF k \in first .. last - 1 THEN [list[k] EXCEPT !.action = NOP] ELSE list[k]]

-----------------------------------------------------------------------------
Init ==
  /\ call \in Inputs
  /\ left = call.rules
  /\ placed = <<>>
  /\ l = 0
  /\ r = 0
  /\ here = <<>>
  /\ pc = "place"

\* The number of the switch that split is called for.
Switch == Len(placed) + 1

Capacity == call.capacities[Switch]

NonNops == {k \in DOMAIN left : left[k].action # NOP}

\* All the rules fit.
PlaceAll ==
  /\ pc = "place"
  /\ Switch \in DOMAIN call.capacities
  /\ Len(left) <= Capacity
  /\ placed' = Append(placed, left)
  /\ left' = <<>>
  /\ UNCHANGED <<call, l, r, here, pc>>

\* No rule does anything: first_non_nop is -1, and rules[-1] is read.
ReadBeforeFirst ==
  /\ pc = "place"
  /\ Switch \in DOMAIN call.capacities
  /\ Len(left) > Capacity
  /\ NonNops = {}
  /\ pc' = "undefined"
  /\ UNCHANGED <<call, left, placed, l, r, here>>

\* Mutant: the search may run past the end of the list.
StartSearch_NotClamped ==
  /\ pc = "place"
  /\ Switch \in DOMAIN call.capacities
  /\ Len(left) > Capacity
  /\ NonNops # {}
  /\ l' = First(NonNops)
  /\ r' = First(NonNops) + Capacity
  /\ here' = <<>>
  /\ pc' = "search"
  /\ UNCHANGED <<call, left, placed>>

\* Positions count from one: with i the first rule that acts, the first
\* l - 1 rules are known to fit and the first r - 1 are not.
StartSearch ==
  /\ pc = "place"
  /\ Switch \in DOMAIN call.capacities
  /\ Len(left) > Capacity
  /\ NonNops # {}
  /\ l' = First(NonNops)
  /\ r' = First({First(NonNops) + Capacity, Len(left) + 1})
  /\ here' = <<>>
  /\ pc' = "search"
  /\ UNCHANGED <<call, left, placed>>

\* The rules before the middle, of which those before i are NOP already.
Probed == Minimized(SubSeq(left, 1, ((r + l) \div 2) - 1))

\* Mutant: the search goes on in the wrong half.
Probe_WrongHalf ==
  /\ pc = "search"
  /\ r - l > 1
  /\ here' = Probed
  /\ IF Len(here') > Capacity
       THEN l' = (r + l) \div 2 /\ UNCHANGED r
       ELSE r' = (r + l) \div 2 /\ UNCHANGED l
  /\ UNCHANGED <<call, left, placed, pc>>

\* Mutant: the probe is tried once more when the bounds meet.
Probe_BoundsMeet ==
  /\ pc = "search"
  /\ r - l > 0
  /\ here' = Probed
  /\ IF Len(here') > Capacity
       THEN r' = (r + l) \div 2 /\ UNCHANGED l
       ELSE l' = (r + l) \div 2 /\ UNCHANGED r
  /\ UNCHANGED <<call, left, placed, pc>>

Probe ==
  /\ pc = "search"
  /\ r - l > 1
  /\ here' = Probed
  /\ IF Len(here') > Capacity
       THEN r' = (r + l) \div 2 /\ UNCHANGED l
       ELSE l' = (r + l) \div 2 /\ UNCHANGED r
  /\ UNCHANGED <<call, left, placed, pc>>

\* l == i: not even one rule that acts fits, and split returns None.
NothingFits ==
  /\ pc = "search"
  /\ r - l <= 1
  /\ l = First(NonNops)
  /\ pc' = "none"
  /\ UNCHANGED <<call, left, placed, l, r, here>>

\* Mutant: the rule at the cut is taken for placed.
Cut_OneTooMany ==
  /\ pc = "search"
  /\ r - l <= 1
  /\ l > First(NonNops)
  /\ placed' = Append(placed, here)
  /\ left' = Minimized(WithNops(left, First(NonNops), l + 1))
  /\ pc' = "place"
  /\ UNCHANGED <<call, l, r, here>>

\* Mutant: what is left is not minimized for the next switch.
Cut_NotMinimized ==
  /\ pc = "search"
  /\ r - l <= 1
  /\ l > First(NonNops)
  /\ placed' = Append(placed, here)
  /\ left' = WithNops(left, First(NonNops), l)
  /\ pc' = "place"
  /\ UNCHANGED <<call, l, r, here>>

\* The switch gets the rules of the last probe; the rules before the cut are
\* NOP for the switches after it.
Cut ==
  /\ pc = "search"
  /\ r - l <= 1
  /\ l > First(NonNops)
  /\ placed' = Append(placed, here)
  /\ left' = Minimized(WithNops(left, First(NonNops), l))
  /\ pc' = "place"
  /\ UNCHANGED <<call, l, r, here>>

\* No switch is left: the sizes, or None when there are rules left.
Finish ==
  /\ pc = "place"
  /\ Switch \notin DOMAIN call.capacities
  /\ pc' = IF left = <<>> THEN "sizes" ELSE "none"
  /\ UNCHANGED <<call, left, placed, l, r, here>>

Return ==
  /\ pc \in {"sizes", "none", "undefined"}
  /\ UNCHANGED vars

Step ==
  \/ PlaceAll \/ ReadBeforeFirst \/ StartSearch
  \/ Probe \/ NothingFits \/ Cut \/ Finish

Next == Step \/ Return

Spec == Init /\ [][Next]_vars

-----------------------------------------------------------------------------
TypeOK ==
  /\ call \in Call
  /\ left \in Seq(Rule)
  /\ placed \in Seq(Seq(Rule))
  /\ Len(placed) <= Len(call.capacities)
  /\ l \in Nat /\ r \in Nat
  /\ pc = "search" => l \in DOMAIN left /\ r \in l .. Len(left) + 1
  /\ here \in Seq(Rule)
  /\ pc \in {"place", "search", "sizes", "none", "undefined"}

(* Properties.                                                             *)

\* The actions a header meets on its way along a line of rule lists.
OnTheWay(stages, h) == {DecideAll(stages[s], h) : s \in DOMAIN stages} \ {NOP}

\* The switches done and the rules left over decide every header together as
\* the classifier did, and never with two different actions.
LineDecidesAlike ==
  \A h \in Header :
    OnTheWay(Append(placed, left), h) = {DecideAll(call.rules, h)} \ {NOP}

\* Wherever the binary search cuts, the rules before the cut fit, although
\* minimization is not monotone in the number of rules.
CutFits ==
  pc = "search" /\ l > First(NonNops) =>
    Len(Minimized(SubSeq(left, 1, l - 1))) <= Capacity

\* The rule before the first is read only for a classifier that decides
\* nothing at all: once a switch is done, a list without a rule that acts was
\* minimized to the empty one, which every switch can hold.
ActsAfterACut ==
  pc = "undefined" =>
    placed = <<>> /\ \A k \in DOMAIN call.rules : call.rules[k].action = NOP

\* "capacities: switch capacities".
CapacityRespected ==
  \A s \in DOMAIN placed : Len(placed[s]) <= call.capacities[s]

\* Every step is one towards the return: a switch is done, or its search
\* starts, narrows or ends.  Without this the loop over the switches or the
\* binary search could run for ever.
EveryStepAdvances ==
  [][\/ Len(placed') > Len(placed)
     \/ pc = "place" /\ pc' # "place"
     \/ pc = "search" /\ (pc' # "search" \/ r' - l' < r - l)]_vars
=============================================================================
