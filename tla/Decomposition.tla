---------------------------- MODULE Decomposition ----------------------------
(***************************************************************************)
(* decompose_oi and minimize_oi_lpm (cls/optimizations/oi_lpm.py): groups  *)
(* of rules are taken off a classifier one after the other, the largest    *)
(* ones are returned as subclassifiers and the rest as one more.           *)
(*                                                                         *)
(* best_subgroup is taken for what BestSubgroup.tla shows of its results,  *)
(* min_bmgr for a longest chain of supports and min_bmgr1_w_expansions for *)
(* a chain of expanded ones.  A rule is its position in the classifier,    *)
(* the first one having the highest priority.  Each of these functions is  *)
(* given a classifier made of some of the rules and answers with positions *)
(* in that one, which the loop translates back.                            *)
(***************************************************************************)
EXTENDS Groups

OI           == "decompose_oi"
OI_LPM       == "minimize_oi_lpm"
OI_LPM_EXP   == "minimize_oi_lpm, expanded"
Kind         == {OI, OI_LPM, OI_LPM_EXP}

CONSTANT Inputs   \* the calls

Call == [kind : Kind, rules : Seq(Filter), max_width : Nat,
         max_num_groups : Nat, max_candidate_groups : Nat,
         max_expanded_bits : Nat]

\* assert max_num_groups <= max_candidate_groups
ASSUME InputsAssumption ==
  /\ Inputs \subseteq Call
  /\ \A c \in Inputs : c.max_num_groups <= c.max_candidate_groups

VARIABLES
  call,       \* the arguments
  indices,    \* rules not in a group yet, a sorted list in the code
  groups,     \* the candidate groups, in the order they were found
  selected,   \* the numbers of the groups that are returned
  rest,       \* the rules of the classifier with leftover rules
  pc

vars == <<call, indices, groups, selected, rest, pc>>

Rules == DOMAIN call.rules

-----------------------------------------------------------------------------
(* The calls of the loop.                                                  *)

\* Lists of at most n members of S, none twice.
Picks(S, n) ==
  {q \in UNION {[1 .. k -> S] : k \in 0 .. n} :
     \A k, l \in DOMAIN q : q[k] = q[l] => k = l}

BitLists(n) == Picks(Bits, n)

\* indices, as the sorted list that positions refer to.
Listed(S) ==
  [n \in 1 .. Cardinality(S) |->
     CHOOSE i \in S : Cardinality({j \in S : j < i}) = n - 1]

\* classifier.subset, of a list of rules.
Subset(list, positions) == [k \in DOMAIN positions |-> list[positions[k]]]

\* Mutant: independence on all the bits, not on those that are returned.
Independent_AllBits(S, bits) ==
  \A i, j \in S : i # j => ~ Intersect(call.rules[i], call.rules[j], Bits)

Independent(S, bits) ==
  \A i, j \in S :
     i # j => ~ Intersect(call.rules[i], call.rules[j], {bits[k] : k \in DOMAIN bits})

\* What best_subgroup may return for classifier.subset(indices): positions
\* in that list, which MIN_DEGREE leaves in the order of its picks.
Subgroups ==
  {s \in [bits : BitLists(call.max_width),
          oi_indices : Picks(DOMAIN Listed(indices), Cardinality(indices)) \ {<<>>}] :
     LET oi == Subset(Listed(indices), s.oi_indices)
     IN  Independent({oi[k] : k \in DOMAIN oi}, s.bits)}

SupportOf(i, bits) == Exact(Reordered(call.rules[i], bits))

\* min_bmgr with one group: positions in the order-independent classifier oi
\* of a chain of supports with the most rules.
LongestChains(oi, bits) ==
  LET chains == {P \in SUBSET DOMAIN oi : IsChain({SupportOf(oi[k], bits) : k \in P})}
  IN  {P \in chains : \A Q \in chains : Cardinality(Q) <= Cardinality(P)}

\* min_bmgr1_w_expansions: positions in oi, and the coordinates the rule at
\* each of them is made exact on.
Expansions(oi, bits) ==
  {exp \in UNION {[P -> SUBSET DOMAIN bits] : P \in (SUBSET DOMAIN oi) \ {{}}} :
     /\ IsChain({exp[k] : k \in DOMAIN exp})
     /\ \A k \in DOMAIN exp :
          /\ SupportOf(oi[k], bits) \subseteq exp[k]
          /\ Cardinality(exp[k] \ SupportOf(oi[k], bits)) <= call.max_expanded_bits}

\* expand: every value of the bits of exp that are not exact yet.
Expand(f, exp) ==
  {g \in [DOMAIN f -> {ONE, ZERO, ANY}] :
     \A k \in DOMAIN f : IF f[k] = ANY /\ k \in exp THEN g[k] # ANY ELSE g[k] = f[k]}

Entry(i, bits) == [rule |-> i, filter |-> Reordered(call.rules[i], bits)]

\* Mutant: positions in oi_classifier are taken for positions in indices.
CurrentIndices_Once(oi_indices, lpm_indices) ==
  {Listed(indices)[k] : k \in lpm_indices}

\* [indices[oi_indices[i]] for i in lpm_indices].
CurrentIndices(oi_indices, lpm_indices) ==
  {Listed(indices)[oi_indices[k]] : k \in lpm_indices}

-----------------------------------------------------------------------------
Init ==
  /\ call \in Inputs
  /\ indices = Rules
  /\ groups = <<>>
  /\ selected = {}
  /\ rest = {}
  /\ pc = "loop"

Continue ==
  /\ Len(groups) < call.max_candidate_groups
  /\ indices # {}

\* Mutant: the rules taken away are not removed from indices.
AddGroup_NothingRemoved(bits, entries, current_indices) ==
  /\ groups' = Append(groups, [bits |-> bits, entries |-> entries,
                               indices |-> current_indices])
  /\ UNCHANGED <<call, indices, selected, rest, pc>>

AddGroup(bits, entries, current_indices) ==
  /\ groups' = Append(groups, [bits |-> bits, entries |-> entries,
                               indices |-> current_indices])
  /\ indices' = indices \ current_indices
  /\ UNCHANGED <<call, selected, rest, pc>>

\* An iteration of decompose_oi.  The group takes current_indices away, but
\* its classifier is classifier.subset(oi_indices): positions in indices are
\* used as if they were positions in the whole classifier.
PeelOI ==
  /\ pc = "loop"
  /\ call.kind = OI
  /\ Continue
  /\ \E s \in Subgroups :
       LET oi_indices == {s.oi_indices[k] : k \in DOMAIN s.oi_indices}
       IN  AddGroup(s.bits, {Entry(k, s.bits) : k \in oi_indices},
                    {Listed(indices)[k] : k \in oi_indices})

\* An iteration of minimize_oi_lpm without expansions.
PeelLPM ==
  /\ pc = "loop"
  /\ call.kind = OI_LPM
  /\ Continue
  /\ \E s \in Subgroups :
       LET oi == Subset(Listed(indices), s.oi_indices)
       IN  \E lpm_indices \in LongestChains(oi, s.bits) :
             LET chain == {SupportOf(oi[k], s.bits) : k \in lpm_indices}
                 bits  == Reordered(s.bits, Chain2Bits(chain, Len(s.bits)))
             IN  AddGroup(bits, {Entry(oi[k], bits) : k \in lpm_indices},
                          CurrentIndices(s.oi_indices, lpm_indices))

\* An iteration of minimize_oi_lpm with expansions: the expanded entries are
\* appended to oi_classifier.subset([]), which keeps the order of oi_bits.
PeelExpanded ==
  /\ pc = "loop"
  /\ call.kind = OI_LPM_EXP
  /\ Continue
  /\ \E s \in Subgroups :
       LET oi == Subset(Listed(indices), s.oi_indices)
       IN  \E exp \in Expansions(oi, s.bits) :
             AddGroup(s.bits,
                      UNION { {[rule |-> oi[k], filter |-> f] :
                                 f \in Expand(Reordered(call.rules[oi[k]], s.bits), exp[k])}
                              : k \in DOMAIN exp },
                      CurrentIndices(s.oi_indices, DOMAIN exp))

\* groups.sort(key=size, reverse=True): group g comes after group h.
After(g, h) ==
  LET size(k) == Cardinality(groups[k].indices)
  IN  size(h) > size(g) \/ (size(h) = size(g) /\ h < g)

\* Mutant: the rules of all candidate groups are taken for covered.
Finish_AllCandidates ==
  /\ pc = "loop"
  /\ ~ Continue
  /\ selected' = {g \in DOMAIN groups :
                    Cardinality({h \in DOMAIN groups : After(g, h)}) < call.max_num_groups}
  /\ rest' = indices
  /\ pc' = "done"
  /\ UNCHANGED <<call, indices, groups>>

\* The sort, the cut to max_num_groups, and the leftover rules.
Finish ==
  /\ pc = "loop"
  /\ ~ Continue
  /\ selected' = {g \in DOMAIN groups :
                    Cardinality({h \in DOMAIN groups : After(g, h)}) < call.max_num_groups}
  /\ rest' = Rules \ UNION {groups[g].indices : g \in selected'}
  /\ pc' = "done"
  /\ UNCHANGED <<call, indices, groups>>

Return ==
  /\ pc = "done"
  /\ UNCHANGED vars

Step == PeelOI \/ PeelLPM \/ PeelExpanded \/ Finish

Next == Step \/ Return

Spec == Init /\ [][Next]_vars

-----------------------------------------------------------------------------
EntryType ==
  [rule : Rules, filter : UNION {[1 .. k -> {ONE, ZERO, ANY}] : k \in 0 .. Width}]

Group ==
  [bits : BitLists(Width), entries : SUBSET EntryType, indices : SUBSET Rules]

TypeOK ==
  /\ call \in Call
  /\ indices \in SUBSET Rules
  /\ groups \in Seq(Group)
  /\ selected \in SUBSET DOMAIN groups
  /\ rest \in SUBSET Rules
  /\ pc \in {"loop", "done"}

(* Properties.                                                             *)

\* Every rule is taken away by one group at most, or still to be given one;
\* and in the end it is left over, or taken by one group that is returned.
Accounted ==
  /\ \A g, h \in DOMAIN groups : g # h => groups[g].indices \cap groups[h].indices = {}
  /\ \A g \in DOMAIN groups : groups[g].indices \cap indices = {}
  /\ Rules = indices \cup UNION {groups[g].indices : g \in DOMAIN groups}
  /\ pc = "done" =>
       /\ Rules = rest \cup UNION {groups[g].indices : g \in selected}
       /\ \A g \in selected : groups[g].indices \cap rest = {}

\* "Pair of subclassifiers list and classifier with leftover rules": every
\* rule is in one of the classifiers returned.
EveryRuleKept ==
  pc = "done" =>
    Rules = rest \cup {e.rule : e \in UNION {groups[g].entries : g \in selected}}

\* minimize_oi_lpm subsets the classifier by indices[i], and keeps that.
LPMRulesKept == call.kind # OI => EveryRuleKept

\* "Minimizes the number of subclassifiers, which are both LPM and OI": the
\* entries of a group of minimize_oi_lpm are disjoint, so that a lookup in it
\* has one candidate at most, whose false-positive check decides.
GroupsOI ==
  call.kind # OI =>
    \A g \in DOMAIN groups : \A d, e \in groups[g].entries :
       d # e => DisjointFilters(d.filter, e.filter)

\* And without expansions they are prefixes in the group's order of bits,
\* which is what is_prefix asks of a filter that is added to the group.  An
\* expanded group keeps the order of oi_bits; there is one that makes all its
\* entries prefixes, although nobody applies it.
GroupsLPM ==
  call.kind # OI => \A g \in DOMAIN groups :
    LET entries == groups[g].entries
        order   == Chain2Bits({Exact(e.filter) : e \in entries}, Len(groups[g].bits))
    IN  \A e \in entries :
          /\ IsPrefix(Reordered(e.filter, order))
          /\ call.kind = OI_LPM => IsPrefix(e.filter)

\* Mutant: no false-positive check.
Verified_Unchecked(h, g, e) == TRUE

\* An entry on fewer bits than the rule has FPCAction, which checks the rule.
Verified(h, g, e) ==
  Len(groups[g].bits) = Width \/ Matches(h, call.rules[e.rule])

\* The rules a lookup of h yields: in each group, that of the candidate.
Yield(h, g) ==
  LET candidates == {e \in groups[g].entries : Covers(e.filter, h, groups[g].bits)}
  IN  {e.rule : e \in {c \in candidates : /\ \A d \in candidates : c.rule <= d.rule
                                          /\ Verified(h, g, c)}}

\* The groups and the leftover rules together (MultiGroupClassifier, "the
\* action of the highest priority entry is used") decide every header as the
\* classifier given to minimize_oi_lpm did.
Equivalent ==
  pc = "done" /\ call.kind # OI => \A h \in Header :
    LET before == {i \in Rules : Matches(h, call.rules[i])}
        after  == {i \in rest : Matches(h, call.rules[i])}
                    \cup UNION {Yield(h, g) : g \in selected}
    IN  /\ before = {} <=> after = {}
        /\ before # {} => First(before) = First(after)
=============================================================================
