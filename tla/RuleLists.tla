------------------------------- MODULE RuleLists -------------------------------
(***************************************************************************)
(* Prioritised lists of rules: what they decide, and the passes of         *)
(* p4t/opt/boolean_minimization.cpp as functions of a list.                *)
(*                                                                         *)
(* A pass returns utils::subset(rules, active): a subsequence of the rules *)
(* in their order.  No pass changes a rule, so a list between passes is a  *)
(* list and the set S of its positions that are still there.               *)
(***************************************************************************)
EXTENDS Ternary, Sequences

CONSTANTS
  Actions,         \* action codes, with NOP among them
  NOP              \* Action::nop(), code -1, Python's None

ASSUME ActionsAssumption == NOP \in Actions

Rule == [filter : Filter, action : Actions]

-----------------------------------------------------------------------------
(* What a rule list means: the first rule that matches a header decides.   *)
(* The callers pass is_default_nop = true: no match means NOP.             *)

Matching(list, S, h) == {k \in S : Matches(h, list[k].filter)}

Decide(list, S, h) ==
  LET matching == Matching(list, S, h)
  IN  IF matching = {} THEN NOP ELSE list[First(matching)].action

DecideAll(list, h) == Decide(list, DOMAIN list, h)

-----------------------------------------------------------------------------
(* Forward subsumption (try_new_forward_subsumption).                      *)

\* The masks of the list, the classes PreprocessingData::build numbers.
Masks(list, S) == {Support(list[k].filter) : k \in S}

\* Do f and g agree on the bits of a class that both have?
Agree(f, g, m) == \A b \in m \cap Support(f) : g[b] = f[b]

\* Entries of class m found at or after (after = TRUE) or before k by
\* binary search: same value on the class's bits that k also has.
Hits(list, k, m, S, after) ==
  {o \in S : /\ Support(list[o].filter) = m
             /\ IF after THEN o > k ELSE o < k
             /\ Agree(list[k].filter, list[o].filter, m)}

\* k is removed when a class whose mask is part of k's has an earlier hit.
ForwardSubsumed(list, k, S) ==
  \E m \in Masks(list, S) :
     m \subseteq Support(list[k].filter) /\ Hits(list, k, m, S, FALSE) # {}

ForwardPass(list, S) == {k \in S : ~ForwardSubsumed(list, k, S)}

-----------------------------------------------------------------------------
(* Backward subsumption (try_new_backward_subsumption).                    *)

\* Does class m offer a subsumer of k: is its first hit after k one that
\* covers k and has k's action?
OffersSubsumer(list, k, m, S) ==
  LET hits == Hits(list, k, m, S, TRUE)
  IN  /\ hits # {}
      /\ m \subseteq Support(list[k].filter)
      /\ list[First(hits)].action = list[k].action

Subsumers(list, k, S) ==
  {First(Hits(list, k, m, S, TRUE)) :
     m \in {n \in Masks(list, S) : OffersSubsumer(list, k, n, S)}}

\* Mutant: only the first hit of a class is examined for a conflict.
Conflicts_FirstHitOnly(list, k, S) ==
  {o \in {First(Hits(list, k, m, S, TRUE)) :
             m \in {n \in Masks(list, S) : Hits(list, k, n, S, TRUE) # {}}} :
     list[o].action # list[k].action}

\* In the other classes the first hit with a different action conflicts.
Conflicts(list, k, S) ==
  UNION {{o \in Hits(list, k, m, S, TRUE) : list[o].action # list[k].action} :
            m \in {n \in Masks(list, S) : ~OffersSubsumer(list, k, n, S)}}

\* Mutant: a subsumer counts even when a conflict stands before it.
BackwardSubsumed_ConflictIgnored(list, k, S) ==
  \/ Subsumers(list, k, S) # {}
  \/ list[k].action = NOP /\ Conflicts(list, k, S) = {}

BackwardSubsumed(list, k, S) ==
  \/ \E s \in Subsumers(list, k, S) : \A c \in Conflicts(list, k, S) : s < c
  \/ list[k].action = NOP /\ Conflicts(list, k, S) = {}

BackwardPass(list, S) == {k \in S : ~BackwardSubsumed(list, k, S)}

-----------------------------------------------------------------------------
(* The pairwise versions of the passes, kept in the source.                *)

\* try_forward_subsumption: each rule still active erases the later rules it
\* covers.
NaiveForward(list, S) ==
  LET after[i \in 0 .. Len(list)] ==
        IF i = 0 THEN S
        ELSE IF i \in after[i - 1]
             THEN {j \in after[i - 1] :
                     ~(i < j /\ Subsums(list[i].filter, list[j].filter))}
             ELSE after[i - 1]
  IN  after[Len(list)]

\* The first later rule that covers k or conflicts with it is the candidate.
NextRelated(list, k, S) ==
  {o \in S : /\ k < o
             /\ \/ Subsums(list[o].filter, list[k].filter)
                \/ /\ Intersect(list[o].filter, list[k].filter, Bits)
                   /\ list[o].action # list[k].action}

\* try_backward_subsumption erases k when it has the candidate's action.
Erased(list, k, S) ==
  IF NextRelated(list, k, S) = {} THEN list[k].action = NOP
  ELSE list[First(NextRelated(list, k, S))].action = list[k].action

NaiveBackward(list, S) == {k \in S : ~Erased(list, k, S)}
=============================================================================
