------------------------- MODULE BooleanMinimization -------------------------
(***************************************************************************)
(* perform_boolean_minimization (p4t/opt/boolean_minimization.cpp): the    *)
(* loop of forward subsumption, backward subsumption and resolution that   *)
(* shrinks a prioritised list of rules.                                    *)
(***************************************************************************)
EXTENDS RuleLists

CONSTANT Inputs    \* the calls

Call == [rules : Seq(Rule), use_resolution : BOOLEAN]

ASSUME InputsAssumption == Inputs \subseteq Call

VARIABLES
  rules,           \* the list the function was called with
  use_resolution,  \* its other argument
  active,          \* positions of rules that the current list still holds
  previous_size,   \* size when update_size last saw it shrink
  trying,          \* has a pass of this iteration saved a rule?
  pc,              \* the pass to run next
  row,             \* try_resolution: position of the outer iterator i
  listed           \* try_resolution: the list the pass was called with

vars == <<rules, use_resolution, active, previous_size, trying, pc, row, listed>>

-----------------------------------------------------------------------------
(* Resolution (try_resolution).                                            *)

\* check_no_intersection_with: true when find_first_intersection FOUND a
\* rule between i and j that intersects i and has another action.
CheckNoIntersectionWith(i, j, S) ==
  \E o \in S : /\ i < o /\ o < j
               /\ Intersect(rules[i].filter, rules[o].filter, Bits)
               /\ rules[i].action # rules[o].action

Resolvable(i, j, S) ==
  LET res == FastBlocker(rules[i].filter, rules[j].filter, Bits)
  IN  /\ rules[i].action = rules[j].action
      /\ res.only
      /\ res.first >= 0
      /\ CheckNoIntersectionWith(i, j, S)

-----------------------------------------------------------------------------
Init ==
  /\ \E c \in Inputs : rules = c.rules /\ use_resolution = c.use_resolution
  /\ active = DOMAIN rules
  /\ previous_size = Len(rules)
  /\ trying = TRUE
  /\ pc = "loop"
  /\ row = 0
  /\ listed = {}

\* Mutant: a pass that saved nothing counts as one that did.
UpdateSize_NotStrict(S) ==
  IF Cardinality(S) <= previous_size
  THEN previous_size' = Cardinality(S) /\ trying' = TRUE
  ELSE UNCHANGED <<previous_size, trying>>

\* update_size(rules.size()) on the list a pass returned; "trying" becomes
\* true when the list is shorter than previous_size.
UpdateSize(S) ==
  IF Cardinality(S) < previous_size
  THEN previous_size' = Cardinality(S) /\ trying' = TRUE
  ELSE UNCHANGED <<previous_size, trying>>

\* while (trying) { trying = false; ...
Loop ==
  /\ pc = "loop"
  /\ IF trying
     THEN trying' = FALSE /\ pc' = "forward"
     ELSE pc' = "done" /\ UNCHANGED trying
  /\ UNCHANGED <<rules, use_resolution, active, previous_size, row, listed>>

Forward ==
  /\ pc = "forward"
  /\ active' = ForwardPass(rules, active)
  /\ UpdateSize(active')
  /\ pc' = "backward"
  /\ UNCHANGED <<rules, use_resolution, row, listed>>

\* Without resolution the loop is left after the backward pass.
Backward ==
  /\ pc = "backward"
  /\ active' = BackwardPass(rules, active)
  /\ UpdateSize(active')
  /\ IF use_resolution
     THEN pc' = "resolution" /\ row' = 1 /\ listed' = active'
     ELSE pc' = "done" /\ UNCHANGED <<row, listed>>
  /\ UNCHANGED <<rules, use_resolution>>

\* One iteration of the loop over i.  rules is a vector of const, so
\* i->filter() is the overload that returns a copy: set(diff_bit, ANY)
\* widens the copy, while active.erase(j) does remove the other rule.
ResolveRow ==
  /\ pc = "resolution"
  /\ row <= Len(rules)
  /\ active' = IF row \in active
               THEN {j \in active : ~(row < j /\ Resolvable(row, j, listed))}
               ELSE active
  /\ row' = row + 1
  /\ UNCHANGED <<rules, use_resolution, previous_size, trying, pc, listed>>

\* Mutant: what resolution saved does not ask for another iteration.
EndResolution_NotCounted ==
  /\ pc = "resolution"
  /\ row > Len(rules)
  /\ pc' = "loop"
  /\ row' = 0
  /\ listed' = {}
  /\ UNCHANGED <<rules, use_resolution, active, previous_size, trying>>

EndResolution ==
  /\ pc = "resolution"
  /\ row > Len(rules)
  /\ UpdateSize(active)
  /\ pc' = "loop"
  /\ row' = 0
  /\ listed' = {}
  /\ UNCHANGED <<rules, use_resolution, active>>

Return ==
  /\ pc = "done"
  /\ UNCHANGED vars

Next == Loop \/ Forward \/ Backward \/ ResolveRow \/ EndResolution \/ Return

Spec == Init /\ [][Next]_vars

\* A sequential function: it runs until it returns.
FairSpec == Spec /\ WF_vars(Loop \/ Forward \/ Backward
                              \/ ResolveRow \/ EndResolution)

-----------------------------------------------------------------------------
TypeOK ==
  /\ rules \in Seq(Rule)
  /\ use_resolution \in BOOLEAN
  /\ active \subseteq DOMAIN rules
  /\ previous_size \in Nat
  /\ trying \in BOOLEAN
  /\ pc \in {"loop", "forward", "backward", "resolution", "done"}
  /\ row \in Nat
  /\ listed \subseteq DOMAIN rules

(* Properties.                                                             *)

\* The minimised list decides every header as the original list does, at
\* every point of a call without resolution: the subsumption passes only drop
\* rules whose removal no header can notice (compression.py, "possibly
\* minimized version of the given classifier").
Equivalent ==
  ~ use_resolution =>
    \A h \in Header : Decide(rules, active, h) = DecideAll(rules, h)

\* The result is a fixpoint.  Without resolution the loop is left after one
\* iteration because "One iteration is enough in this case": running the
\* passes again would remove nothing.  With resolution, the bookkeeping of
\* trying and previous_size may not leave the loop while a pass could still
\* remove a rule.
Fixpoint ==
  pc = "done" =>
    /\ ForwardPass(rules, active) = active
    /\ BackwardPass(rules, active) = active
    /\ use_resolution =>
         \A i, j \in active : i < j => ~Resolvable(i, j, active)

\* The passes that group rules by mask and binary-search each group return
\* the very list the pairwise passes they replaced return: looking only at
\* the first hit of a group loses nothing.
PassesAgree ==
  [][/\ pc = "forward"  => active' = NaiveForward(rules, active)
     /\ pc = "backward" => active' = NaiveBackward(rules, active)]_vars

\* What a caller that asks for resolution relies on: the list returned still
\* decides every header as the original (try_resolution merges two rules
\* only after "check_no_intersection_with").
ResolutionEquivalent ==
  pc = "done" => \A h \in Header : Decide(rules, active, h) = DecideAll(rules, h)

\* The loop is left: every further iteration needs a pass that saved a rule.
Termination == <>(pc = "done")
=============================================================================
