----------------------------- MODULE Incremental -----------------------------
(***************************************************************************)
(* test_incremental (cls/optimizations/oi_lpm.py) and the native           *)
(* incremental_oi_lpm (p4t/opt/updates.cpp): rules are added one by one to *)
(* LPM groups, or to a traditional classifier of bounded size, until one   *)
(* fits nowhere; then the rules added so far are grouped anew.             *)
(*                                                                         *)
(* Grouping is minimize_oi_lpm: its steps are those of Decomposition.      *)
(***************************************************************************)
EXTENDS Groups

CONSTANT Inputs   \* the calls

Call == [rules : Seq(Filter), max_width : Nat, max_num_groups : Nat,
         max_candidate_groups : Nat, max_traditional : Nat]

\* minimize_oi_lpm: assert max_num_groups <= max_candidate_groups
ASSUME InputsAssumption ==
  /\ Inputs \subseteq Call
  /\ \A c \in Inputs : c.max_num_groups <= c.max_candidate_groups

VARIABLES
  call,         \* the arguments
  num_added,    \* rules added by the batches before this one
  incremental,  \* rules this batch added to groups
  in_tcam,      \* and to the traditional classifier
  lpm_groups,   \* the batch's copy of the groups, in the order it tries them
  traditional,  \* and of the traditional classifier
  pc

\* The state of minimize_oi_lpm.
VARIABLES indices, groups, selected, rest, lpm_pc

batch_vars == <<incremental, in_tcam, lpm_groups, traditional>>
lpm_vars   == <<indices, groups, selected, rest, lpm_pc>>
vars       == <<call, num_added, pc, batch_vars, lpm_vars>>

Rules == DOMAIN call.rules

\* minimize_oi_lpm is called for the first num_added rules.
Added == SubSeq(call.rules, 1, num_added)

Grouping ==
  INSTANCE Decomposition WITH
    Inputs   <- {},
    call     <- [kind |-> "minimize_oi_lpm", rules |-> Added,
                 max_width |-> call.max_width,
                 max_num_groups |-> call.max_num_groups,
                 max_candidate_groups |-> call.max_candidate_groups,
                 max_expanded_bits |-> 0],
    pc       <- lpm_pc

-----------------------------------------------------------------------------
Init ==
  /\ call \in Inputs
  /\ num_added = 0
  /\ incremental = 0
  /\ in_tcam = 0
  /\ lpm_groups = <<>>
  /\ traditional = {}
  /\ indices = {}
  /\ groups = <<>>
  /\ selected = {}
  /\ rest = {}
  /\ lpm_pc = "idle"
  /\ pc = IF call.rules = <<>> THEN "done" ELSE "batch"

\* The rule the native loop is at: every rule before it has been added.
Current == num_added + incremental + in_tcam + 1

\* Mutant: the filter is compared with the filters of the grouping only.
Accepts_OldOnly(group, f) ==
  LET r_f == Reordered(f, group.bits)
  IN  /\ IsPrefix(r_f)
      /\ \A e \in group.entries : e.rule <= num_added => DisjointFilters(e.filter, r_f)

\* The filter on the group's bits is a prefix and meets no filter there.
Accepts(group, f) ==
  LET r_f == Reordered(f, group.bits)
  IN  /\ IsPrefix(r_f)
      /\ \A e \in group.entries : DisjointFilters(e.filter, r_f)

Accepting == {g \in DOMAIN lpm_groups : Accepts(lpm_groups[g], call.rules[Current])}

AddToGroup ==
  /\ pc = "batch"
  /\ Current \in Rules
  /\ Accepting # {}
  /\ LET g == First(Accepting)
         r_f == Reordered(call.rules[Current], lpm_groups[g].bits)
     IN  lpm_groups' = [lpm_groups EXCEPT ![g].entries =
                          @ \cup {[rule |-> Current, filter |-> r_f]}]
  /\ incremental' = incremental + 1
  /\ UNCHANGED <<call, num_added, in_tcam, traditional, pc, lpm_vars>>

AddToTraditional ==
  /\ pc = "batch"
  /\ Current \in Rules
  /\ Accepting = {}
  /\ Cardinality(traditional) < call.max_traditional
  /\ traditional' = traditional \cup {Current}
  /\ in_tcam' = in_tcam + 1
  /\ UNCHANGED <<call, num_added, incremental, lpm_groups, pc, lpm_vars>>

\* classifier.subset(range(num_added)), once num_added' is known.
StartGrouping ==
  /\ indices' = 1 .. num_added'
  /\ groups' = <<>>
  /\ selected' = {}
  /\ rest' = {}
  /\ lpm_pc' = "loop"

\* Mutant: the rule that fits nowhere is counted as well.
EndBatch_CountsMisfit ==
  /\ pc = "batch"
  /\ Current \in Rules =>
       Accepting = {} /\ Cardinality(traditional) >= call.max_traditional
  /\ num_added' = Current
  /\ IF num_added' < Len(call.rules)
       THEN pc' = "regroup" /\ StartGrouping
       ELSE pc' = "done" /\ UNCHANGED lpm_vars
  /\ incremental' = 0
  /\ in_tcam' = 0
  /\ lpm_groups' = <<>>
  /\ traditional' = {}
  /\ UNCHANGED call

\* The loop ends or breaks.  Only the two counts are returned: the groups and
\* the traditional classifier of the batch are copies.
EndBatch ==
  /\ pc = "batch"
  /\ Current \in Rules =>
       /\ Accepting = {}
       /\ Cardinality(traditional) >= call.max_traditional
  /\ num_added' = num_added + incremental + in_tcam
  /\ IF num_added' < Len(call.rules)
       THEN pc' = "regroup" /\ StartGrouping
       ELSE pc' = "done" /\ UNCHANGED lpm_vars
  /\ incremental' = 0
  /\ in_tcam' = 0
  /\ lpm_groups' = <<>>
  /\ traditional' = {}
  /\ UNCHANGED call

\* A step of minimize_oi_lpm.
Regroup ==
  /\ pc = "regroup"
  /\ UNCHANGED <<call, num_added, pc, batch_vars>>
  /\ Grouping!PeelLPM \/ Grouping!Finish

\* The selected groups in the order of the sort.
Sorted ==
  [k \in 1 .. Cardinality(selected) |->
     CHOOSE g \in selected : Cardinality({h \in selected : Grouping!After(g, h)}) = k - 1]

\* Mutant: the leftover rules of the grouping are forgotten.
StartBatch_LeftoverLost ==
  /\ pc = "regroup"
  /\ lpm_pc = "done"
  /\ lpm_groups' = [k \in DOMAIN Sorted |->
                      [bits |-> groups[Sorted[k]].bits, entries |-> groups[Sorted[k]].entries]]
  /\ pc' = "batch"
  /\ UNCHANGED <<call, num_added, incremental, in_tcam, traditional, lpm_vars>>

\* The next batch starts with what minimize_oi_lpm returned.
StartBatch ==
  /\ pc = "regroup"
  /\ lpm_pc = "done"
  /\ lpm_groups' = [k \in DOMAIN Sorted |->
                      [bits |-> groups[Sorted[k]].bits, entries |-> groups[Sorted[k]].entries]]
  /\ traditional' = rest
  /\ pc' = "batch"
  /\ UNCHANGED <<call, num_added, incremental, in_tcam, lpm_vars>>

Return ==
  /\ pc = "done"
  /\ UNCHANGED vars

Next ==
  \/ AddToGroup
  \/ AddToTraditional
  \/ EndBatch
  \/ Regroup
  \/ StartBatch
  \/ Return

\* The loops run in one thread that never waits.
Spec == Init /\ [][Next]_vars /\ WF_vars(Next)

-----------------------------------------------------------------------------
TypeOK ==
  /\ call \in Inputs
  /\ num_added \in 0 .. Len(call.rules)
  /\ incremental \in Nat /\ in_tcam \in Nat
  /\ Current - 1 <= Len(call.rules)
  /\ traditional \subseteq Rules
  /\ \A g \in DOMAIN lpm_groups : \A e \in lpm_groups[g].entries :
       e.rule \in Rules /\ DOMAIN e.filter = DOMAIN lpm_groups[g].bits
  /\ pc \in {"batch", "regroup", "done"}

(* Properties.                                                             *)

\* Groups stay LPM and OI while rules are added to them.
GroupsStayLPM ==
  \A g \in DOMAIN lpm_groups : \A d, e \in lpm_groups[g].entries :
     /\ IsPrefix(d.filter)
     /\ d # e => DisjointFilters(d.filter, e.filter)

\* What a lookup in a group yields when entries on fewer bits than the rules
\* check the rule they stand for.
Lookup(group, h) ==
  LET candidates == {e \in group.entries : Covers(e.filter, h, group.bits)}
  IN  {e.rule : e \in {c \in candidates :
         /\ \A d \in candidates : c.rule <= d.rule
         /\ Len(group.bits) = Width \/ Matches(h, call.rules[c.rule])}}

\* The counts are of rules that fit: at every point of a batch the groups and
\* the traditional classifier decide every header as the rules added so far.
AddedAreRepresented ==
  pc = "batch" => \A h \in Header :
    LET added == {i \in 1 .. Current - 1 : Matches(h, call.rules[i])}
        found == {i \in traditional : Matches(h, call.rules[i])}
                   \cup UNION {Lookup(lpm_groups[g], h) : g \in DOMAIN lpm_groups}
    IN  /\ added = {} <=> found = {}
        /\ added # {} => First(added) = First(found)

\* "Returns: A list of Incremental Batch Stats".
StatsAreReturned == <>(pc = "done")
=============================================================================
