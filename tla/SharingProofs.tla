---------------------------- MODULE SharingProofs ----------------------------
(***************************************************************************)
(* First, boolean minimization for every width, set of actions and input:  *)
(* without resolution it preserves what the rule list decides for every    *)
(* header; its passes return what the pairwise passes of the source would; *)
(* and no pass could remove another rule from its result.                  *)
(* That a single pass preserves decisions is shown in TernaryProofs.       *)
(*                                                                         *)
(* Then the splits that call it: the parts that any number of them return  *)
(* decide every header as the classifier the caller had, for every width,  *)
(* classifier and predicates.  While entries are replaced, both lists keep *)
(* the filters, so that a header meets the same position of both first;    *)
(* its action is in one of the two.  Minimization changes neither          *)
(* decision.  The weights say beforehand what a split may cost: the list   *)
(* that was weighed bounds all those that splits make of it (Bounded).     *)
(***************************************************************************)
EXTENDS Sharing, TernaryProofs

-----------------------------------------------------------------------------
(* Boolean minimization.                                                   *)

\* A pass only ever returns positions it was given.
LEMMA StepKeepsTypes ==
  ASSUME TypeOK, [Next]_vars
  PROVE  TypeOK'
<1>1. ASSUME NEW S \in SUBSET DOMAIN rules, UpdateSize(S)
      PROVE  previous_size' \in Nat /\ trying' \in BOOLEAN
  <2>1. Cardinality(S) \in Nat
    BY Positions, FS_Subset, FS_CardinalityType DEF TypeOK
  <2> QED
    BY <1>1, <2>1 DEF UpdateSize, TypeOK
<1>2. CASE Loop
  BY <1>2 DEF Loop, TypeOK
<1>3. CASE Forward
  <2>1. active' \in SUBSET DOMAIN rules
    BY <1>3 DEF Forward, ForwardPass, TypeOK
  <2> QED
    BY <1>1, <1>3, <2>1 DEF Forward, TypeOK
<1>4. CASE Backward
  <2>1. active' \in SUBSET DOMAIN rules
    BY <1>4 DEF Backward, BackwardPass, TypeOK
  <2> QED
    BY <1>1, <1>4, <2>1 DEF Backward, TypeOK
<1>5. CASE ResolveRow
  BY <1>5 DEF ResolveRow, TypeOK
<1>6. CASE EndResolution
  BY <1>1, <1>6 DEF EndResolution, TypeOK
<1>7. CASE Return \/ UNCHANGED vars
  BY <1>7 DEF Return, vars, TypeOK
<1> QED
  BY <1>2, <1>3, <1>4, <1>5, <1>6, <1>7 DEF Next

\* The type invariant of perform_boolean_minimization.
THEOREM TypeCorrect == Spec => []TypeOK
<1>1. Init => TypeOK
  <2> SUFFICES ASSUME Init PROVE TypeOK
    OBVIOUS
  <2>1. rules \in Seq(Rule) /\ use_resolution \in BOOLEAN
    BY InputsAssumption DEF Init, Call
  <2> QED
    BY <2>1, Positions DEF Init, TypeOK
<1>2. TypeOK /\ [Next]_vars => TypeOK'
  BY StepKeepsTypes
<1> QED
  BY <1>1, <1>2, PTL DEF Spec

\* Without resolution the list never passes to try_resolution.
NoResolution == pc = "resolution" => use_resolution

SoundInv == TypeOK /\ NoResolution /\ Equivalent

\* No pass but resolution changes what the list decides.
LEMMA StepKeepsDecisions ==
  ASSUME SoundInv, TypeOK', [Next]_vars
  PROVE  SoundInv'
<1> USE DEF SoundInv, NoResolution
<1>1. ASSUME rules' = rules, use_resolution' = use_resolution,
             active' = active
      PROVE  Equivalent'
  BY <1>1 DEF Equivalent, Decide, DecideAll, Matching
<1>2. ASSUME rules' = rules, use_resolution' = use_resolution,
             \A h \in Header : Decide(rules, active', h) = Decide(rules, active, h)
      PROVE  Equivalent'
  <2> SUFFICES ASSUME ~ use_resolution, NEW h \in Header
               PROVE  (Decide(rules, active, h) = DecideAll(rules, h))'
    BY <1>2 DEF Equivalent
  <2>1. Decide(rules, active, h)' = Decide(rules, active', h)
    BY <1>2 DEF Decide, DecideAll, Matching
  <2>2. DecideAll(rules, h)' = DecideAll(rules, h)
    BY <1>2 DEF Decide, DecideAll, Matching
  <2>3. Decide(rules, active, h) = DecideAll(rules, h)
    BY DEF Equivalent
  <2> QED
    BY <1>2, <2>1, <2>2, <2>3
<1>3. rules \in Seq(Rule) /\ active \in SUBSET DOMAIN rules
  BY DEF TypeOK
<1>4. CASE Loop
  BY <1>1, <1>4 DEF Loop
<1>5. CASE Forward
  <2>1. /\ rules' = rules /\ use_resolution' = use_resolution
        /\ active' = ForwardPass(rules, active) /\ pc' = "backward"
    BY <1>5 DEF Forward
  <2> QED
    BY <1>2, <1>3, <2>1, ForwardSound
<1>6. CASE Backward
  <2>1. /\ rules' = rules /\ use_resolution' = use_resolution
        /\ active' = BackwardPass(rules, active)
        /\ pc' = "resolution" => use_resolution
    BY <1>6 DEF Backward
  <2> QED
    BY <1>2, <1>3, <2>1, BackwardSound
<1>7. CASE ResolveRow \/ EndResolution
  BY <1>7 DEF ResolveRow, EndResolution, Equivalent
<1>8. CASE Return \/ UNCHANGED vars
  BY <1>1, <1>8 DEF Return, vars
<1> QED
  BY <1>4, <1>5, <1>6, <1>7, <1>8 DEF Next

\* A call without resolution returns, and at every point holds, a list that
\* decides every header as the list it was given.
THEOREM MinimizationSound == Spec => []Equivalent
<1>1. Init => SoundInv
  <2> SUFFICES ASSUME Init PROVE SoundInv
    OBVIOUS
  <2>1. rules \in Seq(Rule) /\ use_resolution \in BOOLEAN
    BY InputsAssumption DEF Init, Call
  <2> QED
    BY <2>1, Positions DEF Init, TypeOK, SoundInv, NoResolution, Equivalent, DecideAll
<1>2. SoundInv /\ TypeOK' /\ [Next]_vars => SoundInv'
  BY StepKeepsDecisions
<1>3. SoundInv => Equivalent
  BY DEF SoundInv
<1> QED
  BY <1>1, <1>2, <1>3, TypeCorrect, PTL DEF Spec

-----------------------------------------------------------------------------
(* The pairwise passes.                                                    *)

CoversRule(list, o, k) == Subsums(list[o].filter, list[k].filter)

Overlap(list, o, k) == Intersect(list[o].filter, list[k].filter, Bits)

\* What binary search in a class finds: the rules of the class that intersect
\* k, and for a class that is part of the support of k those that cover it.
LEMMA HitsRelate ==
  ASSUME NEW list \in Seq(Rule), NEW S \in SUBSET DOMAIN list,
         NEW k \in S, NEW o \in S, NEW after \in BOOLEAN
  PROVE  LET m == Support(list[o].filter)
             there == IF after THEN o > k ELSE o < k
         IN  /\ o \in Hits(list, k, m, S, after) <=> there /\ Overlap(list, o, k)
             /\ CoversRule(list, o, k) <=> Overlap(list, o, k) /\ m \subseteq Support(list[k].filter)
<1> DEFINE f == list[o].filter
           g == list[k].filter
<1>1. f \in Filter /\ g \in Filter
  BY Positions
<1>2. Agree(g, f, Support(f)) <=> Intersect(f, g, Bits)
  BY <1>1 DEF Agree, Intersect, Differences, Support, Filter
<1>3. Subsums(f, g) <=> Intersect(f, g, Bits) /\ Support(f) \subseteq Support(g)
  BY <1>1 DEF Subsums, Intersect, Differences, Support, Filter
<1> QED
  BY <1>2, <1>3 DEF Hits, CoversRule, Overlap

\* A rule is removed by the forward pass when an earlier one covers it.
LEMMA ForwardIsCovered ==
  ASSUME NEW list \in Seq(Rule), NEW S \in SUBSET DOMAIN list, NEW k \in S
  PROVE  ForwardSubsumed(list, k, S) <=> \E o \in S : o < k /\ CoversRule(list, o, k)
<1>1. ASSUME ForwardSubsumed(list, k, S)
      PROVE  \E o \in S : o < k /\ CoversRule(list, o, k)
  <2>1. PICK m \in Masks(list, S) : /\ m \subseteq Support(list[k].filter)
                                    /\ Hits(list, k, m, S, FALSE) # {}
    BY <1>1 DEF ForwardSubsumed
  <2>2. PICK o \in Hits(list, k, m, S, FALSE) : TRUE
    BY <2>1
  <2>3. o \in S /\ m = Support(list[o].filter)
    BY <2>2 DEF Hits
  <2> QED
    BY <2>1, <2>2, <2>3, HitsRelate
<1>2. ASSUME NEW o \in S, o < k, CoversRule(list, o, k)
      PROVE  ForwardSubsumed(list, k, S)
  <2> DEFINE m == Support(list[o].filter)
  <2>1. o \in Hits(list, k, m, S, FALSE) /\ m \subseteq Support(list[k].filter)
    BY <1>2, HitsRelate
  <2>2. m \in Masks(list, S)
    BY DEF Masks
  <2> HIDE DEF m
  <2> QED
    BY <2>1, <2>2 DEF ForwardSubsumed
<1> QED
  BY <1>1, <1>2

LEMMA CoversTransitive ==
  ASSUME NEW list \in Seq(Rule),
         NEW i \in DOMAIN list, NEW j \in DOMAIN list, NEW k \in DOMAIN list,
         CoversRule(list, i, j), CoversRule(list, j, k)
  PROVE  CoversRule(list, i, k)
<1>1. \A x \in {i, j, k} : list[x].filter \in Filter
  BY Positions
<1> QED
  BY <1>1 DEF CoversRule, Subsums, Support

\* What the pairwise forward pass has left after the first n rules: the rule
\* at n erases what it covers unless it is erased itself, and then so is
\* everything it covers.
Uncovered(list, S, n) ==
  {k \in S : ~ \E o \in S : o <= n /\ o < k /\ CoversRule(list, o, k)}

LEMMA UncoveredStep ==
  ASSUME NEW list \in Seq(Rule), NEW S \in SUBSET DOMAIN list, NEW n \in 1 .. Len(list)
  PROVE  Uncovered(list, S, n) =
           IF n \in Uncovered(list, S, n - 1)
           THEN {j \in Uncovered(list, S, n - 1) : ~(n < j /\ CoversRule(list, n, j))}
           ELSE Uncovered(list, S, n - 1)
<1> DEFINE U == Uncovered(list, S, n)
           V == Uncovered(list, S, n - 1)
<1>1. S \subseteq Nat /\ S \subseteq DOMAIN list /\ n \in Nat /\ n \in DOMAIN list
  BY Positions
<1>2. U \subseteq S /\ V \subseteq S
  BY DEF Uncovered
<1>3. \A o \in S : o <= n <=> (o <= n - 1 \/ o = n)
  BY <1>1
<1>4. ASSUME NEW k \in S
      PROVE  k \in U <=> k \in V /\ ~ (n \in S /\ n < k /\ CoversRule(list, n, k))
  BY <1>3 DEF Uncovered
<1>5. CASE n \in V
  <2>1. n \in S
    BY <1>2, <1>5
  <2> HIDE DEF U, V
  <2>2. U = {j \in V : ~(n < j /\ CoversRule(list, n, j))}
    BY <1>2, <1>4, <2>1
  <2> QED
    BY <1>5, <2>2 DEF U, V
<1>6. CASE n \notin V
  <2>1. ASSUME NEW k \in V, n \in S, n < k, CoversRule(list, n, k) PROVE FALSE
    <3>1. PICK o \in S : o <= n - 1 /\ o < n /\ CoversRule(list, o, n)
      BY <1>6, <2>1 DEF Uncovered
    <3>2. o \in DOMAIN list /\ k \in DOMAIN list
      BY <1>1, <1>2
    <3>3. CoversRule(list, o, k)
      BY <1>1, <2>1, <3>1, <3>2, CoversTransitive
    <3>4. o < k
      BY <1>1, <1>2, <2>1, <3>1
    <3> QED
      BY <3>1, <3>3, <3>4 DEF Uncovered
  <2> HIDE DEF U, V
  <2>2. U = V
    BY <1>2, <1>4, <2>1
  <2> QED
    BY <1>6, <2>2 DEF U, V
<1> QED
  BY <1>5, <1>6

LEMMA UncoveredEnds ==
  ASSUME NEW list \in Seq(Rule), NEW S \in SUBSET DOMAIN list
  PROVE  /\ Uncovered(list, S, 0) = S
         /\ Uncovered(list, S, Len(list)) = ForwardPass(list, S)
<1>1. Len(list) \in Nat /\ \A o \in S : o \in 1 .. Len(list)
  BY Positions
<1>2. \A o \in S : ~ (o <= 0) /\ o <= Len(list)
  BY <1>1
<1>3. Uncovered(list, S, 0) = S
  BY <1>2 DEF Uncovered
<1>4. ASSUME NEW k \in S
      PROVE  k \in Uncovered(list, S, Len(list)) <=> ~ ForwardSubsumed(list, k, S)
  BY <1>2, ForwardIsCovered DEF Uncovered
<1>5. Uncovered(list, S, Len(list)) = ForwardPass(list, S)
  BY <1>4 DEF Uncovered, ForwardPass
<1> QED
  BY <1>3, <1>5

\* The pass that looks up the classes of masks keeps the rules the pairwise
\* one keeps.
LEMMA NaiveForwardAgrees ==
  ASSUME NEW list \in Seq(Rule), NEW S \in SUBSET DOMAIN list
  PROVE  NaiveForward(list, S) = ForwardPass(list, S)
<1> DEFINE after(f) == [i \in 0 .. Len(list) |->
        IF i = 0 THEN S
        ELSE IF i \in f[i - 1]
             THEN {j \in f[i - 1] :
                     ~(i < j /\ Subsums(list[i].filter, list[j].filter))}
             ELSE f[i - 1]]
           run == CHOOSE f : f = after(f)
           left == [i \in 0 .. Len(list) |-> Uncovered(list, S, i)]
<1>1. Len(list) \in Nat
  BY Positions
<1>2. NaiveForward(list, S) = run[Len(list)]
  BY DEF NaiveForward
<1>3. left = after(left)
  <2>1. ASSUME NEW i \in 0 .. Len(list) PROVE left[i] = after(left)[i]
    <3>1. CASE i = 0
      BY <3>1, UncoveredEnds
    <3>2. CASE i # 0
      <4>1. i \in 1 .. Len(list) /\ i - 1 \in 0 .. Len(list)
        BY <1>1, <3>2
      <4>2. left[i] = Uncovered(list, S, i) /\ left[i - 1] = Uncovered(list, S, i - 1)
        BY <4>1
      <4> QED
        BY <3>2, <4>1, <4>2, UncoveredStep DEF CoversRule
    <3> QED
      BY <3>1, <3>2
  <2> QED
    BY <2>1
<1>4. run = after(run)
  BY <1>3
<1> HIDE DEF run
<1>5. run[0] = S
  <2>1. 0 \in 0 .. Len(list)
    BY <1>1
  <2> QED
    BY <1>4, <2>1
<1>6. ASSUME NEW i \in 1 .. Len(list)
      PROVE  run[i] = IF i \in run[i - 1]
                      THEN {j \in run[i - 1] : ~(i < j /\ CoversRule(list, i, j))}
                      ELSE run[i - 1]
  <2>1. i \in 0 .. Len(list) /\ i # 0
    BY <1>1
  <2> QED
    BY <1>4, <2>1 DEF CoversRule
<1> HIDE DEF after, left
<1>7. \A i \in 0 .. Len(list) : run[i] = Uncovered(list, S, i)
  <2> DEFINE Wrong == {i \in 0 .. Len(list) : run[i] # Uncovered(list, S, i)}
  <2>1. SUFFICES ASSUME Wrong # {} PROVE FALSE
    OBVIOUS
  <2>2. Wrong \subseteq Nat
    BY <1>1
  <2>3. PICK i \in Wrong : \A j \in Wrong : i <= j
    BY <2>1, <2>2, FirstIsLeast
  <2>4. i # 0
    BY <1>5, UncoveredEnds
  <2>5. i \in 1 .. Len(list) /\ i - 1 \in 0 .. Len(list) /\ ~ (i <= i - 1)
    BY <1>1, <2>4
  <2>6. run[i - 1] = Uncovered(list, S, i - 1)
    BY <2>3, <2>5
  <2>7. run[i] = Uncovered(list, S, i)
    BY <1>6, <2>5, <2>6, UncoveredStep
  <2> QED
    BY <2>7
<1> QED
  BY <1>1, <1>2, <1>7, UncoveredEnds

\* What can end the pairwise scan for k: a later rule that covers it, or that
\* overlaps it and has another action.
LEMMA Related ==
  ASSUME NEW list \in Seq(Rule), NEW S \in SUBSET DOMAIN list, NEW k \in S
  PROVE  /\ NextRelated(list, k, S) \subseteq S
         /\ NextRelated(list, k, S) \subseteq Nat
         /\ \A o \in S : o \in NextRelated(list, k, S) <=>
              /\ k < o
              /\ CoversRule(list, o, k) \/ (Overlap(list, o, k) /\ list[o].action # list[k].action)
BY Positions DEF NextRelated, CoversRule, Overlap

LEMMA SubsumerRelated ==
  ASSUME NEW list \in Seq(Rule), NEW S \in SUBSET DOMAIN list, NEW k \in S,
         NEW s \in Subsumers(list, k, S)
  PROVE  s \in NextRelated(list, k, S) /\ list[s].action = list[k].action
<1>1. PICK m \in Masks(list, S) : OffersSubsumer(list, k, m, S)
                            /\ s = First(Hits(list, k, m, S, TRUE))
  BY DEF Subsumers
<1> DEFINE H == Hits(list, k, m, S, TRUE)
<1>2. H # {} /\ m \subseteq Support(list[k].filter) /\ list[s].action = list[k].action
  BY <1>1 DEF OffersSubsumer
<1>3. H \subseteq Nat
  BY Positions DEF Hits
<1>4. s \in H
  BY <1>1, <1>2, <1>3, FirstIsLeast
<1>5. s \in S /\ Support(list[s].filter) = m
  BY <1>4 DEF Hits
<1>6. k < s /\ CoversRule(list, s, k)
  <2>1. s > k /\ Overlap(list, s, k)
    BY <1>4, <1>5, HitsRelate
  <2>2. s \in Nat /\ k \in Nat
    BY <1>3, <1>4, Positions
  <2> QED
    BY <1>2, <1>5, <2>1, <2>2, HitsRelate
<1> QED
  BY <1>2, <1>5, <1>6, Related

LEMMA ConflictRelated ==
  ASSUME NEW list \in Seq(Rule), NEW S \in SUBSET DOMAIN list, NEW k \in S,
         NEW c \in Conflicts(list, k, S)
  PROVE  c \in NextRelated(list, k, S) /\ list[c].action # list[k].action
<1>1. PICK m \in Masks(list, S) : c \in Hits(list, k, m, S, TRUE)
                                /\ list[c].action # list[k].action
  BY DEF Conflicts
<1>2. c \in S /\ m = Support(list[c].filter)
  BY <1>1 DEF Hits
<1>3. c > k /\ Overlap(list, c, k)
  BY <1>1, <1>2, HitsRelate
<1>4. c \in Nat /\ k \in Nat
  BY <1>2, Positions
<1> QED
  BY <1>1, <1>2, <1>3, <1>4, Related

\* The first related rule is offered by its class when it has k's action,
LEMMA FirstRelatedOffered ==
  ASSUME NEW list \in Seq(Rule), NEW S \in SUBSET DOMAIN list, NEW k \in S,
         NEW e \in NextRelated(list, k, S), \A o \in NextRelated(list, k, S) : e <= o,
         list[e].action = list[k].action
  PROVE  e \in Subsumers(list, k, S)
<1> DEFINE m == Support(list[e].filter)
           H == Hits(list, k, m, S, TRUE)
<1>1. e \in S /\ k < e /\ CoversRule(list, e, k) /\ e \in Nat /\ k \in Nat
  BY Related, Positions
<1>2. m \in Masks(list, S)
  BY <1>1 DEF Masks
<1>3. m \subseteq Support(list[k].filter) /\ e \in H
  BY <1>1, HitsRelate
<1>4. \A o \in H : o \in S /\ Support(list[o].filter) = m
  BY DEF Hits
<1>5. ASSUME NEW o \in H PROVE e <= o
  <2>1. o > k /\ Overlap(list, o, k)
    BY <1>4, HitsRelate
  <2>2. CoversRule(list, o, k)
    BY <1>3, <1>4, <2>1, HitsRelate
  <2>3. o \in NextRelated(list, k, S)
    BY <1>1, <1>4, <2>1, <2>2, Positions, Related
  <2> QED
    BY <2>3
<1>6. H \subseteq Nat
  BY <1>4, Positions
<1> HIDE DEF m, H
<1>7. First(H) = e
  BY <1>3, <1>5, <1>6, FirstUnique
<1> QED
  BY <1>2, <1>3, <1>7 DEF Subsumers, OffersSubsumer, H

\* and a related rule with another action is a conflict, or stands behind what
\* its class offers.
LEMMA OtherActionSeen ==
  ASSUME NEW list \in Seq(Rule), NEW S \in SUBSET DOMAIN list, NEW k \in S,
         NEW c \in NextRelated(list, k, S), list[c].action # list[k].action,
         c \notin Conflicts(list, k, S)
  PROVE  \E s \in Subsumers(list, k, S) : s < c
<1> DEFINE m == Support(list[c].filter)
           H == Hits(list, k, m, S, TRUE)
<1>1. c \in S /\ k < c /\ Overlap(list, c, k) /\ c \in Nat /\ k \in Nat
  BY Related, HitsRelate, Positions
<1>2. m \in Masks(list, S)
  BY <1>1 DEF Masks
<1>3. c \in H
  BY <1>1, HitsRelate
<1>4. H \subseteq Nat
  BY Positions DEF Hits
<1> HIDE DEF m
<1>5. OffersSubsumer(list, k, m, S)
  <2>1. SUFFICES ASSUME ~ OffersSubsumer(list, k, m, S) PROVE FALSE
    OBVIOUS
  <2>2. m \in {n \in Masks(list, S) : ~ OffersSubsumer(list, k, n, S)}
    BY <1>2, <2>1
  <2>3. c \in {p \in H : list[p].action # list[k].action}
    BY <1>3
  <2> QED
    BY <2>2, <2>3, Zenon DEF Conflicts
<1>6. First(H) \in Subsumers(list, k, S)
  BY <1>2, <1>5 DEF Subsumers
<1>7. First(H) <= c /\ First(H) \in Nat
  BY <1>3, <1>4, FirstIsLeast
<1>8. First(H) # c
  BY <1>5 DEF OffersSubsumer
<1>9. First(H) < c
  <2> HIDE DEF H
  <2> QED
    BY <1>1, <1>7, <1>8
<1> QED
  BY <1>6, <1>9, Zenon

LEMMA BackwardIsErased ==
  ASSUME NEW list \in Seq(Rule), NEW S \in SUBSET DOMAIN list, NEW k \in S
  PROVE  BackwardSubsumed(list, k, S) <=> Erased(list, k, S)
<1> DEFINE R == NextRelated(list, k, S)
           e == First(R)
<1>1. R \subseteq Nat
  BY Related
<1>2. R # {} => e \in R /\ \A o \in R : e <= o
  BY <1>1, FirstIsLeast
<1>3. Erased(list, k, S) <=> IF R = {} THEN list[k].action = NOP
                             ELSE list[e].action = list[k].action
  BY DEF Erased
<1> HIDE DEF R, e
<1>4. ASSUME R # {}, list[e].action # list[k].action
      PROVE  e \in Conflicts(list, k, S)
  <2>1. SUFFICES ASSUME NEW s \in Subsumers(list, k, S), s < e PROVE FALSE
    BY <1>2, <1>4, OtherActionSeen DEF R
  <2>2. s \in R
    BY SubsumerRelated DEF R
  <2>3. e <= s /\ e \in Nat /\ s \in Nat
    BY <1>1, <1>2, <1>4, <2>2
  <2> QED
    BY <2>1, <2>3
<1>5. ASSUME BackwardSubsumed(list, k, S)
      PROVE  Erased(list, k, S)
  <2>1. CASE list[k].action = NOP /\ Conflicts(list, k, S) = {}
    BY <1>3, <1>4, <2>1
  <2>2. ASSUME NEW s \in Subsumers(list, k, S), \A c \in Conflicts(list, k, S) : s < c
        PROVE  Erased(list, k, S)
    <3>1. s \in R
      BY SubsumerRelated DEF R
    <3>2. R # {} /\ e <= s /\ e \in Nat /\ s \in Nat
      BY <1>1, <1>2, <3>1
    <3>3. ~ (s < e)
      BY <3>2
    <3> QED
      BY <1>3, <1>4, <2>2, <3>2, <3>3
  <2> QED
    BY <1>5, <2>1, <2>2 DEF BackwardSubsumed
<1>6. ASSUME Erased(list, k, S)
      PROVE  BackwardSubsumed(list, k, S)
  <2>1. \A c \in Conflicts(list, k, S) : c \in R /\ list[c].action # list[k].action
    BY ConflictRelated DEF R
  <2>2. CASE R = {}
    BY <1>3, <1>6, <2>1, <2>2 DEF BackwardSubsumed
  <2>3. CASE R # {}
    <3>1. e \in R /\ (\A o \in R : e <= o) /\ list[e].action = list[k].action
      BY <1>2, <1>3, <1>6, <2>3
    <3>2. e \in Subsumers(list, k, S)
      BY <3>1, FirstRelatedOffered DEF R
    <3>3. ASSUME NEW c \in Conflicts(list, k, S) PROVE e < c
      <4>1. c \in R /\ c # e
        BY <2>1, <3>1
      <4>2. e <= c /\ e \in Nat /\ c \in Nat
        BY <1>1, <3>1, <4>1
      <4> QED
        BY <4>1, <4>2
    <3> QED
      BY <3>2, <3>3 DEF BackwardSubsumed
  <2> QED
    BY <2>2, <2>3
<1> QED
  BY <1>5, <1>6

LEMMA NaiveBackwardAgrees ==
  ASSUME NEW list \in Seq(Rule), NEW S \in SUBSET DOMAIN list
  PROVE  NaiveBackward(list, S) = BackwardPass(list, S)
BY BackwardIsErased DEF NaiveBackward, BackwardPass

\* The passes that look up classes of masks return, at every step of a call,
\* what the pairwise passes they replaced would return.
THEOREM ClassesLoseNothing == Spec => PassesAgree
<1>1. ASSUME TypeOK, [Next]_vars
      PROVE  [/\ pc = "forward"  => active' = NaiveForward(rules, active)
              /\ pc = "backward" => active' = NaiveBackward(rules, active)]_vars
  <2>1. rules \in Seq(Rule) /\ active \in SUBSET DOMAIN rules
    BY <1>1 DEF TypeOK
  <2>2. NaiveForward(rules, active) = ForwardPass(rules, active)
        /\ NaiveBackward(rules, active) = BackwardPass(rules, active)
    BY <2>1, NaiveForwardAgrees, NaiveBackwardAgrees
  <2>3. Next => /\ pc = "forward"  => active' = ForwardPass(rules, active)
                /\ pc = "backward" => active' = BackwardPass(rules, active)
    BY DEF Next, Loop, Forward, Backward, ResolveRow, EndResolution, Return
  <2> QED
    BY <1>1, <2>2, <2>3
<1> QED
  BY <1>1, TypeCorrect, PTL DEF Spec, PassesAgree

-----------------------------------------------------------------------------
(* The result is a fixpoint.                                               *)
(*                                                                         *)
(* For the forward pass this is monotonicity: taking rules away covers no  *)
(* other rule.  The backward pass could find more to remove once a         *)
(* conflict is gone.  It does not: the conflict was removed because a      *)
(* later rule of its action covers it, which conflicts as well, and the    *)
(* last of these conflicts is still there.                                 *)

LEMMA ForwardStays ==
  ASSUME NEW list \in Seq(Rule), NEW S \in SUBSET DOMAIN list, NEW T \in SUBSET S,
         \A k \in T : ~ ForwardSubsumed(list, k, S)
  PROVE  ForwardPass(list, T) = T
<1>1. T \in SUBSET DOMAIN list
  OBVIOUS
<1>2. ASSUME NEW k \in T, ForwardSubsumed(list, k, T) PROVE FALSE
  <2>1. PICK o \in T : o < k /\ CoversRule(list, o, k)
    BY <1>1, <1>2, ForwardIsCovered
  <2>2. k \in S /\ o \in S
    OBVIOUS
  <2>3. ForwardSubsumed(list, k, S)
    BY <2>1, <2>2, ForwardIsCovered
  <2> QED
    BY <2>3
<1> QED
  BY <1>2 DEF ForwardPass

LEMMA CoverOverlaps ==
  ASSUME NEW list \in Seq(Rule),
         NEW d \in DOMAIN list, NEW c \in DOMAIN list, NEW k \in DOMAIN list,
         CoversRule(list, d, c), Overlap(list, c, k)
  PROVE  Overlap(list, d, k)
<1>1. \A x \in {d, c, k} : list[x].filter \in Filter
  BY Positions
<1> QED
  BY <1>1 DEF CoversRule, Overlap, Subsums, Support, Intersect, Differences, Filter

LEMMA OverlapSymmetric ==
  ASSUME NEW list, NEW c, NEW k, Overlap(list, c, k)
  PROVE  Overlap(list, k, c)
BY DEF Overlap, Intersect, Differences

LEMMA CoverIsOverlap ==
  ASSUME NEW list \in Seq(Rule), NEW c \in DOMAIN list, NEW k \in DOMAIN list,
         CoversRule(list, c, k)
  PROVE  Overlap(list, c, k)
<1>1. list[c].filter \in Filter /\ list[k].filter \in Filter
  BY Positions
<1> QED
  BY <1>1 DEF CoversRule, Overlap, Subsums, Support, Intersect, Differences

LEMMA ErasedStays ==
  ASSUME NEW list \in Seq(Rule), NEW S \in SUBSET DOMAIN list,
         NEW B, B = NaiveBackward(list, S), NEW k \in B
  PROVE  ~ Erased(list, k, B)
<1> DEFINE R == NextRelated(list, k, S)
           Q == NextRelated(list, k, B)
           e == First(Q)
           act(o) == list[o].action
           X == {c \in R : act(c) # act(k) /\ (Q = {} \/ c < e)}
<1> SUFFICES ASSUME Erased(list, k, B) PROVE FALSE
  OBVIOUS
<1>1. /\ B \subseteq S /\ k \in S /\ ~ Erased(list, k, S)
      /\ \A c \in S : c \in B \/ Erased(list, c, S)
  BY DEF NaiveBackward
<1>2. S \subseteq Nat /\ S \subseteq DOMAIN list /\ B \in SUBSET DOMAIN list
  BY <1>1, Positions
<1>3. /\ R \subseteq S /\ Q \subseteq R /\ Q \subseteq B
      /\ \A c \in R : c \in B => c \in Q
  BY <1>1 DEF NextRelated
<1>4. /\ Q # {} => e \in Q /\ (\A o \in Q : e <= o) /\ act(e) = act(k)
      /\ Q = {} => act(k) = NOP
  <2>1. Q \subseteq Nat
    BY <1>2, <1>3
  <2>2. Q # {} => e \in Q /\ (\A o \in Q : e <= o)
    BY <2>1, FirstIsLeast
  <2> QED
    BY <2>2 DEF Erased
<1> HIDE DEF Q, e
<1>5. X # {}
  <2>1. R # {}
    BY <1>1, <1>3, <1>4 DEF Erased
  <2>2. PICK c \in R : (\A o \in R : c <= o) /\ act(c) # act(k)
    <3>1. R \subseteq Nat
      BY <1>2, <1>3
    <3>2. First(R) \in R /\ \A o \in R : First(R) <= o
      BY <2>1, <3>1, FirstIsLeast
    <3>3. act(First(R)) # act(k)
      BY <1>1, <2>1 DEF Erased
    <3> QED
      BY <3>2, <3>3
  <2>3. Q = {} \/ c < e
    <3> SUFFICES ASSUME Q # {} PROVE c < e
      OBVIOUS
    <3>1. e \in R /\ c # e
      BY <1>3, <1>4, <2>2
    <3>2. c <= e /\ c \in Nat /\ e \in Nat
      BY <1>2, <1>3, <2>2, <3>1
    <3> QED
      BY <3>1, <3>2
  <2> QED
    BY <2>2, <2>3
<1>6. ASSUME NEW c \in X PROVE \E d \in X : c < d
  <2>1. c \in R /\ c \in S /\ act(c) # act(k) /\ (Q = {} \/ c < e)
    BY <1>3
  <2>2. c \notin Q
    <3> SUFFICES ASSUME c \in Q PROVE FALSE
      OBVIOUS
    <3>1. e <= c /\ c < e /\ e \in Q
      BY <1>4, <2>1
    <3>2. e \in Nat /\ c \in Nat
      BY <1>2, <1>3, <3>1
    <3> QED
      BY <3>1, <3>2
  <2>3. Erased(list, c, S)
    BY <1>1, <1>3, <2>1, <2>2
  <2>4. k < c /\ Overlap(list, c, k)
    <3>1. k < c /\ (CoversRule(list, c, k) \/ Overlap(list, c, k))
      BY <1>1, <2>1, Related
    <3> QED
      BY <1>1, <1>2, <2>1, <3>1, CoverIsOverlap
  <2> DEFINE Z == NextRelated(list, c, S)
             d == First(Z)
  <2>5. Q # {} => e \in Z /\ act(e) # act(c)
    <3> SUFFICES ASSUME Q # {} PROVE e \in Z /\ act(e) # act(c)
      OBVIOUS
    <3>1. e \in R /\ e \in S /\ act(e) = act(k) /\ c < e
      BY <1>3, <1>4, <2>1
    <3>2. CoversRule(list, e, k)
      BY <1>1, <3>1, Related
    <3>3. Overlap(list, e, c)
      BY <1>1, <1>2, <2>1, <2>4, <3>1, <3>2, OverlapSymmetric, CoverOverlaps
    <3> QED
      BY <2>1, <3>1, <3>3, Related
  <2>6. Z # {} /\ act(d) = act(c)
    BY <1>4, <2>1, <2>3, <2>5 DEF Erased
  <2>7. d \in Z /\ \A o \in Z : d <= o
    <3>1. Z \subseteq Nat
      BY <2>1, Related
    <3> QED
      BY <2>6, <3>1, FirstIsLeast
  <2> HIDE DEF d
  <2>8. d \in S /\ c < d /\ CoversRule(list, d, c)
    BY <2>1, <2>6, <2>7, Related
  <2>9. d \in R /\ act(d) # act(k)
    <3>1. Overlap(list, d, k)
      BY <1>1, <1>2, <2>1, <2>4, <2>8, CoverOverlaps
    <3>2. k < d
      BY <1>1, <1>2, <2>1, <2>4, <2>8
    <3> QED
      BY <1>1, <2>1, <2>6, <2>8, <3>1, <3>2, Related
  <2>10. Q = {} \/ d < e
    <3> SUFFICES ASSUME Q # {} PROVE d < e
      OBVIOUS
    <3>1. d <= e /\ d # e /\ e \in S
      BY <1>3, <1>4, <2>5, <2>6, <2>7
    <3>2. d \in Nat /\ e \in Nat
      BY <1>2, <2>8, <3>1
    <3> QED
      BY <3>1, <3>2
  <2> QED
    BY <2>8, <2>9, <2>10
<1>7. X \subseteq 1 .. Len(list) /\ Len(list) \in Nat
  <2>1. DOMAIN list = 1 .. Len(list) /\ Len(list) \in Nat
    BY Positions
  <2> QED
    BY <1>2, <1>3, <2>1
<1> HIDE DEF X
<1>8. PICK z \in X : \A y \in X : y <= z
  BY <1>5, <1>7, LastExists
<1>9. PICK d \in X : z < d
  BY <1>6
<1>10. d <= z /\ d \in Nat /\ z \in Nat
  BY <1>7, <1>8
<1> QED
  BY <1>9, <1>10

\* Once no rule is covered by an earlier one, the backward pass leaves a list
\* from which neither pass removes anything.
LEMMA PassesSettle ==
  ASSUME NEW list \in Seq(Rule), NEW S \in SUBSET DOMAIN list,
         ForwardPass(list, S) = S
  PROVE  LET B == BackwardPass(list, S)
         IN  ForwardPass(list, B) = B /\ BackwardPass(list, B) = B
<1> DEFINE B == BackwardPass(list, S)
<1>1. B = NaiveBackward(list, S)
  BY NaiveBackwardAgrees
<1>2. B \in SUBSET S /\ B \in SUBSET DOMAIN list
  BY DEF BackwardPass
<1>3. \A k \in B : ~ ForwardSubsumed(list, k, S)
  BY <1>2 DEF ForwardPass
<1> HIDE DEF B
<1>4. ForwardPass(list, B) = B
  BY <1>2, <1>3, ForwardStays
<1>5. NaiveBackward(list, B) = B
  BY <1>1, ErasedStays DEF NaiveBackward
<1>6. BackwardPass(list, B) = B
  BY <1>2, <1>5, NaiveBackwardAgrees
<1> QED
  BY <1>4, <1>6 DEF B

\* Nothing is left for either pass.
Settled(S) == ForwardPass(rules, S) = S /\ BackwardPass(rules, S) = S

\* The size the bookkeeping remembers is that of the list before the rows of
\* resolution, which look at the list as it was before them.
FixInv ==
  /\ TypeOK
  /\ pc # "resolution" => previous_size = Cardinality(active)
  /\ pc = "backward" => ForwardPass(rules, active) = active
  /\ pc = "resolution" =>
       /\ use_resolution
       /\ active \subseteq listed
       /\ previous_size = Cardinality(listed)
       /\ Settled(listed)
       /\ \A i, j \in active : i < row /\ i < j => ~Resolvable(i, j, listed)
  /\ pc = "loop" /\ ~ trying =>
       Settled(active) /\ \A i, j \in active : i < j => ~Resolvable(i, j, active)
  /\ Fixpoint

LEMMA SizeOfPart ==
  ASSUME TypeOK, NEW S \in SUBSET DOMAIN rules, NEW T \in SUBSET S
  PROVE  /\ Cardinality(S) \in Nat /\ Cardinality(T) \in Nat
         /\ Cardinality(T) <= Cardinality(S)
         /\ Cardinality(T) = Cardinality(S) => T = S
<1>1. IsFiniteSet(S)
  BY Positions, FS_Subset DEF TypeOK
<1> QED
  BY <1>1, FS_Subset, FS_CardinalityType

\* update_size keeps the size of a list that can only have shrunk.
LEMMA SizeRemembered ==
  ASSUME TypeOK, NEW S \in SUBSET DOMAIN rules, NEW T \in SUBSET S,
         previous_size = Cardinality(S), UpdateSize(T)
  PROVE  /\ previous_size' = Cardinality(T)
         /\ ~ trying' => ~ trying /\ T = S
<1>1. /\ Cardinality(S) \in Nat /\ Cardinality(T) \in Nat
      /\ Cardinality(T) <= Cardinality(S)
      /\ Cardinality(T) = Cardinality(S) => T = S
  BY SizeOfPart
<1> QED
  BY <1>1 DEF UpdateSize

LEMMA StepKeepsFixInv ==
  ASSUME FixInv, [Next]_vars, TypeOK'
  PROVE  FixInv'
<1> USE DEF FixInv
<1>1. rules \in Seq(Rule) /\ active \in SUBSET DOMAIN rules /\ listed \in SUBSET DOMAIN rules
      /\ use_resolution \in BOOLEAN
  BY DEF TypeOK
<1>2. CASE Loop
  <2>1. /\ pc = "loop" /\ active' = active /\ rules' = rules /\ previous_size' = previous_size
        /\ \/ trying /\ pc' = "forward"
           \/ ~ trying /\ pc' = "done"
    BY <1>2 DEF Loop
  <2>2. CASE pc' = "forward"
    BY <2>1, <2>2 DEF Fixpoint
  <2>3. CASE ~ trying /\ pc' = "done"
    <3>1. Settled(active) /\ \A i, j \in active : i < j => ~Resolvable(i, j, active)
      BY <2>1, <2>3
    <3>2. Fixpoint'
      BY <2>1, <3>1 DEF Fixpoint, Settled, Resolvable, CheckNoIntersectionWith
    <3> QED
      BY <2>1, <2>3, <3>2
  <2> QED
    BY <2>1, <2>2, <2>3
<1>3. CASE Forward
  <2> DEFINE F == ForwardPass(rules, active)
  <2>1. /\ active' = F /\ rules' = rules /\ pc' = "backward" /\ UpdateSize(F)
        /\ previous_size = Cardinality(active)
    BY <1>3 DEF Forward
  <2>2. F \in SUBSET active /\ F \in SUBSET DOMAIN rules
    BY <1>1 DEF ForwardPass
  <2>3. \A k \in F : ~ ForwardSubsumed(rules, k, active)
    BY DEF ForwardPass
  <2> HIDE DEF F
  <2>4. ForwardPass(rules, F) = F
    BY <1>1, <2>2, <2>3, ForwardStays
  <2>5. previous_size' = Cardinality(F)
    BY <1>1, <2>1, <2>2, SizeRemembered
  <2> QED
    BY <2>1, <2>4, <2>5 DEF Fixpoint
<1>4. CASE Backward
  <2> DEFINE B == BackwardPass(rules, active)
  <2>1. /\ active' = B /\ rules' = rules /\ UpdateSize(B)
        /\ previous_size = Cardinality(active) /\ use_resolution' = use_resolution
        /\ ForwardPass(rules, active) = active
        /\ \/ use_resolution /\ pc' = "resolution" /\ row' = 1 /\ listed' = B
           \/ ~ use_resolution /\ pc' = "done"
    BY <1>4 DEF Backward
  <2>2. B \in SUBSET active /\ B \in SUBSET DOMAIN rules
    BY <1>1 DEF BackwardPass
  <2>3. Settled(B)
    BY <1>1, <2>1, PassesSettle DEF Settled
  <2> HIDE DEF B
  <2>4. previous_size' = Cardinality(B)
    BY <1>1, <2>1, <2>2, SizeRemembered
  <2>5. CASE use_resolution /\ pc' = "resolution" /\ row' = 1 /\ listed' = B
    <3>1. \A i \in B : ~ (i < 1)
      BY <1>1, <2>2, Positions
    <3>2. Settled(listed)'
      BY <2>1, <2>3, <2>5 DEF Settled
    <3> QED
      BY <2>1, <2>4, <2>5, <3>1, <3>2 DEF Fixpoint
  <2>6. CASE ~ use_resolution /\ pc' = "done"
    BY <2>1, <2>3, <2>4, <2>6 DEF Fixpoint, Settled
  <2> QED
    BY <2>1, <2>5, <2>6
<1>5. CASE ResolveRow
  <2>1. /\ pc = "resolution" /\ row' = row + 1 /\ pc' = pc
        /\ UNCHANGED <<rules, use_resolution, previous_size, trying, listed>>
        /\ active' = IF row \in active
                     THEN {j \in active : ~(row < j /\ Resolvable(row, j, listed))}
                     ELSE active
    BY <1>5 DEF ResolveRow
  <2>2. active' \subseteq active
    BY <2>1
  <2>3. ASSUME NEW i \in active', NEW j \in active', i < row + 1, i < j
        PROVE  ~ Resolvable(i, j, listed)
    <3>1. i \in active /\ j \in active /\ i \in Nat /\ row \in Nat
      BY <1>1, <2>2, Positions DEF TypeOK
    <3>2. CASE i < row
      BY <2>1, <2>3, <3>1, <3>2
    <3>3. CASE i = row
      BY <2>1, <2>3, <3>1, <3>3
    <3> QED
      BY <2>3, <3>1, <3>2, <3>3
  <2>4. \A i, j : Resolvable(i, j, listed)' <=> Resolvable(i, j, listed)
    BY <2>1 DEF Resolvable, CheckNoIntersectionWith
  <2>5. Settled(listed)'
    BY <2>1 DEF Settled
  <2> QED
    BY <2>1, <2>2, <2>3, <2>4, <2>5 DEF Fixpoint
<1>6. CASE EndResolution
  <2>1. /\ pc = "resolution" /\ pc' = "loop" /\ row > Len(rules) /\ UpdateSize(active)
        /\ UNCHANGED <<rules, use_resolution, active>>
    BY <1>6 DEF EndResolution
  <2>2. active \in SUBSET listed /\ previous_size = Cardinality(listed)
    BY <2>1
  <2>3. /\ previous_size' = Cardinality(active)
        /\ ~ trying' => active = listed
    BY <1>1, <2>1, <2>2, SizeRemembered
  <2>4. ASSUME ~ trying'
        PROVE  Settled(active) /\ \A i, j \in active : i < j => ~Resolvable(i, j, active)
    <3>1. active = listed /\ Settled(listed)
          /\ \A i, j \in active : i < row /\ i < j => ~Resolvable(i, j, listed)
      BY <2>1, <2>3, <2>4
    <3>2. ASSUME NEW i \in active PROVE i < row
      <4>1. i \in 1 .. Len(rules) /\ Len(rules) \in Nat /\ row \in Nat
        BY <1>1, Positions DEF TypeOK
      <4> QED
        BY <2>1, <4>1
    <3> QED
      BY <3>1, <3>2
  <2>5. /\ Settled(active)' <=> Settled(active)
        /\ \A i, j : Resolvable(i, j, active)' <=> Resolvable(i, j, active)
    BY <2>1 DEF Settled, Resolvable, CheckNoIntersectionWith
  <2> QED
    BY <2>1, <2>3, <2>4, <2>5 DEF Fixpoint
<1>7. CASE Return \/ UNCHANGED vars
  <2>1. UNCHANGED <<rules, use_resolution, active, previous_size, trying, pc, row, listed>>
    BY <1>7 DEF Return, vars
  <2>2. /\ \A S : Settled(S)' <=> ForwardPass(rules', S') = S' /\ BackwardPass(rules', S') = S'
        /\ \A i, j : Resolvable(i, j, active)' <=> Resolvable(i, j, active)
        /\ \A i, j : Resolvable(i, j, listed)' <=> Resolvable(i, j, listed)
    BY <2>1 DEF Settled, Resolvable, CheckNoIntersectionWith
  <2> QED
    BY <2>1, <2>2 DEF Fixpoint, Settled
<1> QED
  BY <1>2, <1>3, <1>4, <1>5, <1>6, <1>7 DEF Next

\* When the call returns, a further pass would remove nothing: without
\* resolution one iteration is enough, and with resolution the loop is left
\* only after an iteration in which none of the passes saved a rule.
THEOREM ResultIsFixpoint == Spec => []Fixpoint
<1>1. Init => FixInv
  <2> SUFFICES ASSUME Init PROVE FixInv
    OBVIOUS
  <2>1. rules \in Seq(Rule) /\ use_resolution \in BOOLEAN
    BY InputsAssumption DEF Init, Call
  <2>2. Cardinality(DOMAIN rules) = Len(rules)
    <3>1. DOMAIN rules = 1 .. Len(rules) /\ Len(rules) \in Nat
      BY <2>1
    <3> QED
      BY <3>1, IntervalSize
  <2>3. TypeOK
    BY <2>1, Positions DEF Init, TypeOK
  <2> QED
    BY <2>2, <2>3 DEF Init, FixInv, Fixpoint
<1>2. FixInv /\ [Next]_vars /\ TypeOK' => FixInv'
  BY StepKeepsFixInv
<1>3. FixInv => Fixpoint
  BY DEF FixInv
<1> QED
  BY <1>1, <1>2, <1>3, TypeCorrect, PTL DEF Spec

-----------------------------------------------------------------------------
(* Splits by shareable actions.                                            *)

\* A part that decides is the only one, and decides what is to be decided;
\* rest is what the entries in no part yet decide.
Composed(ps, rest, decision, h) ==
  /\ \A p \in DOMAIN ps : Decide(ps[p].rules, ps[p].kept, h) # NOP =>
       /\ Decide(ps[p].rules, ps[p].kept, h) = decision
       /\ rest = NOP
       /\ \A q \in DOMAIN ps : q # p => Decide(ps[q].rules, ps[q].kept, h) = NOP
  /\ rest # NOP => rest = decision
  /\ \/ decision = NOP \/ rest # NOP
     \/ \E p \in DOMAIN ps : Decide(ps[p].rules, ps[p].kept, h) # NOP

\* A further part may decide what the rest did, or nothing.
LEMMA AppendPart ==
  ASSUME NEW ps \in Seq(Part), NEW part \in Part, NEW rest, NEW rest2, NEW decision, NEW h,
         Composed(ps, rest, decision, h),
         \/ Decide(part.rules, part.kept, h) = NOP /\ rest2 = rest
         \/ Decide(part.rules, part.kept, h) = rest /\ rest2 = NOP
  PROVE  Composed(Append(ps, part), rest2, decision, h)
<1> DEFINE all == Append(ps, part)
           D(x) == Decide(x.rules, x.kept, h)
<1>1. /\ Len(ps) \in Nat /\ DOMAIN ps = 1 .. Len(ps)
      /\ DOMAIN all = 1 .. Len(ps) + 1
      /\ \A p \in DOMAIN ps : all[p] = ps[p]
      /\ all[Len(ps) + 1] = part
      /\ \A p \in DOMAIN all : p \in DOMAIN ps \/ p = Len(ps) + 1
      /\ DOMAIN ps \subseteq DOMAIN all
      /\ Len(ps) + 1 \in DOMAIN all /\ Len(ps) + 1 \notin DOMAIN ps
  OBVIOUS
<1>2. /\ \A p \in DOMAIN ps : D(ps[p]) # NOP =>
           /\ D(ps[p]) = decision
           /\ rest = NOP
           /\ \A q \in DOMAIN ps : q # p => D(ps[q]) = NOP
      /\ rest # NOP => rest = decision
      /\ \/ decision = NOP \/ rest # NOP
         \/ \E p \in DOMAIN ps : D(ps[p]) # NOP
      /\ \/ D(part) = NOP /\ rest2 = rest
         \/ D(part) = rest /\ rest2 = NOP
  BY DEF Composed
<1> DEFINE new == Len(ps) + 1
<1>3. all[new] = part /\ new \in DOMAIN all /\ new \notin DOMAIN ps
      /\ \A p \in DOMAIN all : p \in DOMAIN ps \/ p = new
  BY <1>1
<1> HIDE DEF all, D, new
<1>4. \A p \in DOMAIN all : D(all[p]) # NOP =>
           /\ D(all[p]) = decision
           /\ rest2 = NOP
           /\ \A q \in DOMAIN all : q # p => D(all[q]) = NOP
  <2> SUFFICES ASSUME NEW p \in DOMAIN all, D(all[p]) # NOP
               PROVE  /\ D(all[p]) = decision
                      /\ rest2 = NOP
                      /\ \A q \in DOMAIN all : q # p => D(all[q]) = NOP
    OBVIOUS
  <2>1. CASE p = new
    <3>1. D(part) # NOP /\ D(part) = rest /\ rest2 = NOP /\ rest = decision
      BY <1>2, <1>3, <2>1
    <3>2. \A q \in DOMAIN ps : D(ps[q]) = NOP
      BY <1>2, <3>1
    <3>3. \A q \in DOMAIN all : q # p => q \in DOMAIN ps
      BY <1>3, <2>1
    <3> QED
      BY <1>1, <1>3, <2>1, <3>1, <3>2, <3>3
  <2>2. CASE p \in DOMAIN ps
    <3>1. D(ps[p]) # NOP /\ all[p] = ps[p]
      BY <1>1, <2>2
    <3>2. /\ D(ps[p]) = decision /\ rest = NOP
          /\ \A q \in DOMAIN ps : q # p => D(ps[q]) = NOP
      BY <1>2, <2>2, <3>1
    <3>3. D(part) = NOP /\ rest2 = NOP
      BY <1>2, <3>2
    <3> QED
      BY <1>1, <1>3, <3>1, <3>2, <3>3
  <2> QED
    BY <1>3, <2>1, <2>2
<1>5. rest2 # NOP => rest2 = decision
  BY <1>2
<1>6. \/ decision = NOP \/ rest2 # NOP
      \/ \E p \in DOMAIN all : D(all[p]) # NOP
  <2>1. CASE \E p \in DOMAIN ps : D(ps[p]) # NOP
    BY <1>1, <2>1
  <2>2. CASE decision # NOP /\ rest # NOP /\ rest2 = NOP
    <3>1. D(all[new]) # NOP
      BY <1>2, <1>3, <2>2
    <3> QED
      BY <1>3, <3>1
  <2> QED
    BY <1>2, <2>1, <2>2
<1> QED
  BY <1>4, <1>5, <1>6 DEF Composed, all, D

-----------------------------------------------------------------------------
(* Decisions over positions.                                               *)

\* Lists with the same filters are decided at the same position.
LEMMA SamePosition ==
  ASSUME NEW xs \in Seq(Rule), NEW ys \in Seq(Rule), Len(xs) = Len(ys),
         \A k \in DOMAIN xs : xs[k].filter = ys[k].filter,
         NEW h \in Header
  PROVE  \/ DecideAll(xs, h) = NOP /\ DecideAll(ys, h) = NOP
         \/ \E k \in DOMAIN xs : /\ DecideAll(xs, h) = xs[k].action
                                 /\ DecideAll(ys, h) = ys[k].action
<1> DEFINE M == {k \in DOMAIN xs : Matches(h, xs[k].filter)}
           N == {k \in DOMAIN ys : Matches(h, ys[k].filter)}
<1>1. DOMAIN xs = DOMAIN ys /\ DOMAIN xs = 1 .. Len(xs) /\ Len(xs) \in Nat
  OBVIOUS
<1>2. M = N /\ M \subseteq Nat /\ M \subseteq DOMAIN xs
  BY <1>1
<1>3. DecideAll(xs, h) = IF M = {} THEN NOP ELSE xs[First(M)].action
  BY DEF DecideAll, Decide, Matching
<1>4. DecideAll(ys, h) = IF N = {} THEN NOP ELSE ys[First(N)].action
  BY DEF DecideAll, Decide, Matching
<1>5. CASE M = {}
  BY <1>2, <1>3, <1>4, <1>5
<1>6. CASE M # {}
  <2>1. First(M) \in M
    BY <1>2, <1>6, FirstIsLeast
  <2>2. First(M) \in DOMAIN xs
    BY <1>2, <2>1
  <2>3. DecideAll(xs, h) = xs[First(M)].action /\ DecideAll(ys, h) = ys[First(M)].action
    BY <1>2, <1>3, <1>4, <1>6
  <2> QED
    BY <2>2, <2>3
<1> QED
  BY <1>5, <1>6

-----------------------------------------------------------------------------
(* Types.                                                                  *)

LEMMA NopIsRule ==
  ASSUME NEW rule \in Rule
  PROVE  Nop(rule) \in Rule /\ Nop(rule).filter = rule.filter /\ Nop(rule).action = NOP
BY ActionsAssumption DEF Nop, Rule

\* A list whose entry i becomes a NOP.
WithNop(list, i) == [list EXCEPT ![i] = Nop(list[i])]

LEMMA ReplaceEntry ==
  ASSUME NEW list \in Seq(Rule), NEW i \in DOMAIN list
  PROVE  /\ WithNop(list, i) \in Seq(Rule)
         /\ Len(WithNop(list, i)) = Len(list)
         /\ DOMAIN WithNop(list, i) = DOMAIN list
         /\ \A k \in DOMAIN list : WithNop(list, i)[k].filter = list[k].filter
         /\ \A k \in DOMAIN list : k # i => WithNop(list, i)[k] = list[k]
         /\ WithNop(list, i)[i].action = NOP
<1> DEFINE new == [list EXCEPT ![i] = Nop(list[i])]
<1>1. list[i] \in Rule
  OBVIOUS
<1>2. Nop(list[i]) \in Rule /\ Nop(list[i]).filter = list[i].filter /\ Nop(list[i]).action = NOP
  BY <1>1, NopIsRule
<1>3. new \in Seq(Rule) /\ Len(new) = Len(list) /\ DOMAIN new = DOMAIN list
  BY <1>2
<1>4. \A k \in DOMAIN list : k # i => new[k] = list[k]
  OBVIOUS
<1>5. new[i] = Nop(list[i])
  OBVIOUS
<1> QED
  BY <1>2, <1>3, <1>4, <1>5 DEF WithNop

\* What an iteration of the loop does to the lists.
LEMMA ReplaceSteps ==
  ASSUME Replace
  PROVE  \/ cls[index].action \in is_shareable /\ cls' = WithNop(cls, index) /\ shared' = shared
         \/ cls[index].action \notin is_shareable /\ shared' = WithNop(shared, index) /\ cls' = cls
BY DEF Replace, WithNop

LEMMA WeightsType ==
  ASSUME cls \in Seq(Rule)
  PROVE  \A k \in DOMAIN ObstructionWeights :
           k \in Actions \cup {NopCode} /\ ObstructionWeights[k] \in Nat
<1>1. \A k \in DOMAIN cls : cls[k].action \in Actions
  <2>1. \A k \in DOMAIN cls : cls[k] \in Rule
    OBVIOUS
  <2> QED
    BY <2>1 DEF Rule
<1>2. \A a : IsFiniteSet(Obstructing(a))
  <2> TAKE a
  <2>1. DOMAIN cls = 1 .. Len(cls) /\ Len(cls) \in Nat /\ IsFiniteSet(1 .. Len(cls))
    BY FS_Interval
  <2>2. Obstructing(a) \subseteq DOMAIN cls
    BY DEF Obstructing
  <2> QED
    BY <2>1, <2>2, FS_Subset
<1>3. \A a : Cardinality(Obstructing(a)) \in Nat
  BY <1>2, FS_CardinalityType
<1> QED
  BY <1>1, <1>3 DEF ObstructionWeights, Code

LEMMA StartTypes ==
  ASSUME NEW list \in Seq(Rule), use_resolution \in BOOLEAN, StartMinimization(list)
  PROVE  TypeOK' /\ rules' = list /\ active' = DOMAIN list
         /\ use_resolution' = use_resolution /\ pc' = "loop"
<1>1. Len(list) \in Nat
  OBVIOUS
<1> QED
  BY <1>1 DEF StartMinimization, TypeOK

\* TypeOK holds of variables that do not change.
LEMMA TypesUnchanged ==
  ASSUME TypeOK, UNCHANGED vars
  PROVE  TypeOK'
BY DEF TypeOK, vars

LEMMA MinimizeIsNext ==
  ASSUME Minimize
  PROVE  Next /\ UNCHANGED sharing_vars
BY DEF Minimize, Next

\* Until it is given up, the copy has the caller's filters.
CopyType == at = "replacing" \/ at = "shared" => Len(shared) = Len(cls)

ShareTypeInv == ShareTypeOK /\ CopyType

LEMMA ShareStepTypes ==
  ASSUME ShareTypeInv, [ShareNext]_share_vars
  PROVE  ShareTypeInv'
<1> USE DEF ShareTypeInv, CopyType
<1>1. CASE Weigh
  <2>1. TypeOK'
    BY <1>1, TypesUnchanged DEF Weigh, ShareTypeOK
  <2> QED
    BY <1>1, <2>1, WeightsType DEF Weigh, ShareTypeOK
<1>2. CASE Split
  <2>1. TypeOK'
    BY <1>2, TypesUnchanged DEF Split, ShareTypeOK
  <2>2. is_shareable' \in SUBSET Actions
    BY <1>2, SessionsAssumption DEF Split
  <2> QED
    BY <1>2, <2>1, <2>2 DEF Split, ShareTypeOK
<1>3. CASE Replace
  <2>1. TypeOK'
    BY <1>3, TypesUnchanged DEF Replace, ShareTypeOK
  <2>2. /\ cls[index] \in Rule /\ shared[index] \in Rule
        /\ index \in DOMAIN cls /\ index \in DOMAIN shared
    BY <1>3 DEF Replace, ShareTypeOK
  <2>3. /\ cls' \in Seq(Rule) /\ Len(cls') = Len(cls)
        /\ shared' \in Seq(Rule) /\ Len(shared') = Len(shared)
    BY <1>3, <2>2, ReplaceSteps, ReplaceEntry DEF ShareTypeOK
  <2>4. index' \in Nat /\ index' \in 1 .. Len(cls') + 1
    BY <1>3, <2>2, <2>3 DEF Replace, ShareTypeOK
  <2> QED
    BY <1>3, <2>1, <2>3, <2>4 DEF Replace, ShareTypeOK
<1>4. CASE MinimizeShared
  <2>1. TypeOK'
    BY <1>4, StartTypes DEF MinimizeShared, ShareTypeOK, TypeOK
  <2> QED
    BY <1>4, <2>1 DEF MinimizeShared, ShareTypeOK
<1>5. CASE Minimize
  <2>1. TypeOK'
    BY <1>5, MinimizeIsNext, StepKeepsTypes DEF ShareTypeOK
  <2> QED
    BY <1>5, <2>1 DEF Minimize, sharing_vars, ShareTypeOK
<1>6. CASE MinimizeUnshared
  <2>1. TypeOK'
    BY <1>6, StartTypes DEF MinimizeUnshared, ShareTypeOK, TypeOK
  <2>2. [rules |-> rules, kept |-> active] \in Part
    BY Positions DEF Part, ShareTypeOK, TypeOK
  <2>3. parts' \in Seq(Part)
    BY <1>6, <2>2 DEF MinimizeUnshared, ShareTypeOK
  <2> QED
    BY <1>6, <2>1, <2>3 DEF MinimizeUnshared, ShareTypeOK
<1>7. CASE ReturnParts
  <2>1. TypeOK'
    BY <1>7, TypesUnchanged DEF ReturnParts, ShareTypeOK
  <2>2. [rules |-> rules, kept |-> active] \in Part
    BY Positions DEF Part, ShareTypeOK, TypeOK
  <2> QED
    BY <1>7, <2>1, <2>2 DEF ReturnParts, ShareTypeOK
<1>8. CASE Stop \/ UNCHANGED share_vars
  <2>1. UNCHANGED vars /\ UNCHANGED sharing_vars
    BY <1>8 DEF Stop, share_vars
  <2>2. TypeOK'
    BY <2>1, TypesUnchanged DEF ShareTypeOK
  <2> QED
    BY <2>1, <2>2 DEF sharing_vars, ShareTypeOK
<1> QED
  BY <1>1, <1>2, <1>3, <1>4, <1>5, <1>6, <1>7, <1>8 DEF ShareNext

LEMMA ShareInitTypes ==
  ASSUME ShareInit
  PROVE  ShareTypeInv /\ cls = original
<1>1. PICK s \in Sessions : cls = s.cls /\ use_resolution = s.use_resolution
  BY DEF ShareInit
<1>2. cls \in Seq(Rule) /\ use_resolution \in BOOLEAN
  BY <1>1, SessionsAssumption DEF Session
<1>3. TypeOK
  <2>1. /\ rules = <<>> /\ active = {} /\ previous_size = 0 /\ trying = FALSE
        /\ pc = "done" /\ row = 0 /\ listed = {}
    BY DEF ShareInit
  <2>2. rules \in Seq(Rule)
    BY <2>1
  <2>3. active \subseteq DOMAIN rules /\ listed \subseteq DOMAIN rules
    BY <2>1
  <2>4. previous_size \in Nat /\ row \in Nat /\ trying \in BOOLEAN
    BY <2>1
  <2> QED
    BY <1>2, <2>1, <2>2, <2>3, <2>4 DEF TypeOK
<1>4. unshared \in Part /\ parts \in Seq(Part)
  BY DEF ShareInit, Part
<1> QED
  BY <1>2, <1>3, <1>4 DEF ShareInit, ShareTypeInv, ShareTypeOK, CopyType

\* The lists, the dictionary and the parts keep their types, and the loop of
\* split_shared_unshared stays within the classifier.
THEOREM SharingTypes == ShareSpec => []ShareTypeOK
<1>1. ShareInit => ShareTypeInv
  BY ShareInitTypes
<1>2. ShareTypeInv /\ [ShareNext]_share_vars => ShareTypeInv'
  BY ShareStepTypes
<1>3. ShareTypeInv => ShareTypeOK
  BY DEF ShareTypeInv
<1> QED
  BY <1>1, <1>2, <1>3, PTL DEF ShareSpec

-----------------------------------------------------------------------------
(* Decisions.                                                              *)

\* What the entries in no part yet decide: while entries are replaced, and
\* until the copy is given up, by the list that holds the action.
Rest(h) ==
  IF (at = "replacing" \/ at = "shared") /\ DecideAll(cls, h) = NOP
  THEN DecideAll(shared, h)
  ELSE DecideAll(cls, h)

\* The lists differ in actions only, and hold each action once where the
\* loop has been.
Twins ==
  /\ at = "replacing" \/ at = "shared" =>
       \A k \in DOMAIN cls : shared[k].filter = cls[k].filter
  /\ at = "replacing" =>
       \A k \in DOMAIN cls : IF k < index
                             THEN cls[k].action = NOP \/ shared[k].action = NOP
                             ELSE cls[k].action = shared[k].action
  /\ at = "shared" =>
       \A k \in DOMAIN cls : cls[k].action = NOP \/ shared[k].action = NOP

\* What is being minimized, and what was.
Minimizing ==
  /\ at = "shared" => rules = shared
  /\ at = "unshared" => rules = cls
  /\ (at = "idle" \/ at = "weighed") /\ parts # <<>> /\ ~ use_resolution =>
       \A h \in Header : Decide(unshared.rules, unshared.kept, h) = DecideAll(cls, h)

AllComposed ==
  ~ use_resolution =>
    \A h \in Header : Composed(parts, Rest(h), DecideAll(original, h), h)

ShareInv == ShareTypeInv /\ SoundInv /\ Twins /\ Minimizing /\ AllComposed

\* Steps that change neither the parts nor what is left keep AllComposed.
LEMMA ComposedUnchanged ==
  ASSUME AllComposed, parts' = parts, original' = original,
         use_resolution' = use_resolution,
         \A h \in Header : Rest(h)' = Rest(h)
  PROVE  AllComposed'
<1> SUFFICES ASSUME ~ use_resolution, NEW h \in Header
             PROVE  Composed(parts, Rest(h), DecideAll(original, h), h)'
  BY DEF AllComposed
<1>1. Composed(parts, Rest(h), DecideAll(original, h), h)
  BY DEF AllComposed
<1>2. Rest(h)' = Rest(h) /\ DecideAll(original, h)' = DecideAll(original, h)
  BY DEF DecideAll, Decide, Matching
<1>3. Composed(parts', Rest(h)', DecideAll(original, h)', h)
  BY <1>1, <1>2
<1> QED
  BY <1>3 DEF Composed, Decide, Matching

\* A minimization that begins is sound so far.
LEMMA StartSound ==
  ASSUME NEW list \in Seq(Rule), use_resolution \in BOOLEAN, StartMinimization(list)
  PROVE  SoundInv'
<1>1. /\ TypeOK' /\ rules' = list /\ active' = DOMAIN list
      /\ use_resolution' = use_resolution /\ pc' = "loop"
  BY StartTypes
<1>2. NoResolution' /\ active' = DOMAIN rules'
  BY <1>1 DEF NoResolution
<1> QED
  BY <1>1, <1>2 DEF SoundInv, Equivalent, DecideAll

LEMMA SoundUnchanged ==
  ASSUME SoundInv, UNCHANGED vars
  PROVE  SoundInv'
BY TypesUnchanged, StepKeepsDecisions DEF SoundInv

\* When a minimization has ended, what it kept decides as its list.
LEMMA SoundDecides ==
  ASSUME SoundInv, ~ use_resolution, NEW h \in Header
  PROVE  Decide(rules, active, h) = DecideAll(rules, h)
BY DEF SoundInv, Equivalent

\* The first entry a header matches keeps its action in one of the lists.
LEMMA ReplaceKeepsRest ==
  ASSUME ShareInv, Replace, NEW h \in Header
  PROVE  Rest(h)' = Rest(h)
<1>1. /\ cls \in Seq(Rule) /\ shared \in Seq(Rule) /\ Len(shared) = Len(cls)
      /\ \A k \in DOMAIN cls : shared[k].filter = cls[k].filter
      /\ at = "replacing" /\ at' = "replacing" /\ index \in DOMAIN cls
  BY DEF ShareInv, ShareTypeInv, ShareTypeOK, CopyType, Twins, Replace
<1>2. /\ cls' \in Seq(Rule) /\ shared' \in Seq(Rule)
      /\ Len(cls') = Len(cls) /\ Len(shared') = Len(shared)
      /\ \A k \in DOMAIN cls : cls'[k].filter = cls[k].filter
      /\ \A k \in DOMAIN cls : shared'[k].filter = cls[k].filter
      /\ \A k \in DOMAIN cls : k # index => cls'[k] = cls[k] /\ shared'[k] = shared[k]
  <2>1. index \in DOMAIN shared /\ DOMAIN shared = DOMAIN cls
    BY <1>1
  <2>2. CASE cls' = WithNop(cls, index) /\ shared' = shared
    BY <1>1, <2>2, ReplaceEntry
  <2>3. CASE shared' = WithNop(shared, index) /\ cls' = cls
    <3>1. /\ shared' \in Seq(Rule) /\ Len(shared') = Len(shared)
          /\ \A k \in DOMAIN shared : shared'[k].filter = shared[k].filter
          /\ \A k \in DOMAIN shared : k # index => shared'[k] = shared[k]
      BY <1>1, <2>1, <2>3, ReplaceEntry
    <3> QED
      BY <1>1, <2>1, <2>3, <3>1
  <2> QED
    BY <2>2, <2>3, ReplaceSteps
<1>3. cls[index].action = shared[index].action
  BY <1>1 DEF ShareInv, Twins, ShareTypeInv, ShareTypeOK
<1>4. /\ cls'[index].action = NOP \/ cls'[index].action = cls[index].action
      /\ shared'[index].action = NOP \/ shared'[index].action = cls[index].action
      /\ cls'[index].action # NOP \/ shared'[index].action = cls[index].action
  <2>1. Nop(cls[index]).action = NOP /\ Nop(shared[index]).action = NOP
    BY <1>1, NopIsRule
  <2>2. CASE cls[index].action \in is_shareable
    BY <1>1, <1>3, <2>1, <2>2 DEF Replace
  <2>3. CASE cls[index].action \notin is_shareable
    BY <1>1, <1>3, <2>1, <2>3 DEF Replace
  <2> QED
    BY <2>2, <2>3
<1> DEFINE M == {k \in DOMAIN cls : Matches(h, cls[k].filter)}
           k1 == First(M)
<1>5. /\ DecideAll(cls, h) = IF M = {} THEN NOP ELSE cls[k1].action
      /\ DecideAll(shared, h) = IF M = {} THEN NOP ELSE shared[k1].action
      /\ DecideAll(cls', h) = IF M = {} THEN NOP ELSE cls'[k1].action
      /\ DecideAll(shared', h) = IF M = {} THEN NOP ELSE shared'[k1].action
  <2>1. DOMAIN shared = DOMAIN cls /\ DOMAIN cls' = DOMAIN cls /\ DOMAIN shared' = DOMAIN cls
    BY <1>1, <1>2
  <2>2. /\ {k \in DOMAIN shared : Matches(h, shared[k].filter)} = M
        /\ {k \in DOMAIN cls' : Matches(h, cls'[k].filter)} = M
        /\ {k \in DOMAIN shared' : Matches(h, shared'[k].filter)} = M
    BY <1>1, <1>2, <2>1
  <2> QED
    BY <2>2 DEF DecideAll, Decide, Matching
<1>6. M # {} => k1 \in DOMAIN cls
  <2>1. M \subseteq Nat
    BY <1>1
  <2>2. M # {} => k1 \in M
    BY <2>1, FirstIsLeast
  <2> QED
    BY <2>2
<1>7. Rest(h) = IF DecideAll(cls, h) = NOP THEN DecideAll(shared, h) ELSE DecideAll(cls, h)
  BY <1>1 DEF Rest
<1>8. Rest(h)' = IF DecideAll(cls', h) = NOP THEN DecideAll(shared', h) ELSE DecideAll(cls', h)
  BY <1>1 DEF Rest, DecideAll, Decide, Matching
<1> HIDE DEF M, k1
<1>9. CASE M = {}
  BY <1>5, <1>7, <1>8, <1>9
<1>10. CASE M # {} /\ k1 # index
  BY <1>2, <1>5, <1>6, <1>7, <1>8, <1>10
<1>11. CASE M # {} /\ k1 = index
  BY <1>3, <1>4, <1>5, <1>7, <1>8, <1>11
<1> QED
  BY <1>9, <1>10, <1>11

LEMMA ShareStepKeeps ==
  ASSUME ShareInv, ShareTypeInv', [ShareNext]_share_vars
  PROVE  ShareInv'
<1> USE DEF ShareInv
<1>1. cls \in Seq(Rule) /\ shared \in Seq(Rule) /\ use_resolution \in BOOLEAN
      /\ parts \in Seq(Part) /\ unshared \in Part
      /\ [rules |-> rules, kept |-> active] \in Part
  BY Positions DEF ShareTypeInv, ShareTypeOK, SoundInv, TypeOK, Part
<1>2. CASE Weigh
  <2>1. SoundInv'
    BY <1>2, SoundUnchanged DEF Weigh
  <2>2. UNCHANGED <<original, cls, shared, parts, unshared, use_resolution, rules>>
        /\ at = "idle" /\ at' = "weighed"
    BY <1>2 DEF Weigh, vars
  <2>3. Twins'
    BY <2>2 DEF Twins
  <2>4. Minimizing'
    BY <2>2 DEF Minimizing, DecideAll, Decide, Matching
  <2>5. \A h \in Header : Rest(h)' = Rest(h)
    BY <2>2 DEF Rest, DecideAll, Decide, Matching
  <2>6. AllComposed'
    BY <2>2, <2>5, ComposedUnchanged
  <2> QED
    BY <2>1, <2>3, <2>4, <2>6
<1>3. CASE Split
  <2>1. SoundInv'
    BY <1>3, SoundUnchanged DEF Split
  <2>2. UNCHANGED <<original, cls, parts, use_resolution>>
        /\ at \in {"idle", "weighed"} /\ at' = "replacing" /\ shared' = cls /\ index' = 1
    BY <1>3 DEF Split, vars
  <2>3. Twins'
    BY <1>1, <2>2 DEF Twins
  <2>4. Minimizing'
    BY <2>2 DEF Minimizing
  <2>5. \A h \in Header : Rest(h)' = Rest(h)
    BY <2>2 DEF Rest, DecideAll, Decide, Matching
  <2>6. AllComposed'
    BY <2>2, <2>5, ComposedUnchanged
  <2> QED
    BY <2>1, <2>3, <2>4, <2>6
<1>4. CASE Replace
  <2>1. SoundInv'
    BY <1>4, SoundUnchanged DEF Replace
  <2>2. UNCHANGED <<original, parts, use_resolution>>
        /\ at = "replacing" /\ at' = "replacing" /\ index' = index + 1
        /\ index \in DOMAIN cls /\ index \in Nat /\ Len(shared) = Len(cls)
        /\ DOMAIN shared = DOMAIN cls /\ DOMAIN cls \subseteq Nat
    BY <1>1, <1>4 DEF Replace, vars, ShareTypeInv, ShareTypeOK, CopyType
  <2>3. Twins'
    <3>1. cls[index].action = shared[index].action
          /\ \A k \in DOMAIN cls : shared[k].filter = cls[k].filter
      BY <2>2 DEF Twins
    <3>2. CASE cls' = WithNop(cls, index) /\ shared' = shared
      <4>1. /\ Len(cls') = Len(cls) /\ DOMAIN cls' = DOMAIN cls
            /\ \A k \in DOMAIN cls : cls'[k].filter = cls[k].filter
            /\ \A k \in DOMAIN cls : k # index => cls'[k] = cls[k]
            /\ cls'[index].action = NOP
        BY <1>1, <2>2, <3>2, ReplaceEntry
      <4> QED
        BY <2>2, <3>1, <3>2, <4>1 DEF Twins
    <3>3. CASE shared' = WithNop(shared, index) /\ cls' = cls
      <4>1. /\ \A k \in DOMAIN shared : shared'[k].filter = shared[k].filter
            /\ \A k \in DOMAIN shared : k # index => shared'[k] = shared[k]
            /\ shared'[index].action = NOP
        BY <1>1, <2>2, <3>3, ReplaceEntry
      <4> QED
        BY <2>2, <3>1, <3>3, <4>1 DEF Twins
    <3> QED
      BY <1>4, <3>2, <3>3, ReplaceSteps
  <2>4. Minimizing'
    BY <2>2 DEF Minimizing
  <2>5. \A h \in Header : Rest(h)' = Rest(h)
    BY <1>4, ReplaceKeepsRest
  <2>6. AllComposed'
    BY <2>2, <2>5, ComposedUnchanged
  <2> QED
    BY <2>1, <2>3, <2>4, <2>6
<1>5. CASE MinimizeShared
  <2>1. UNCHANGED <<original, cls, shared, parts, index, use_resolution>>
        /\ at = "replacing" /\ at' = "shared" /\ rules' = shared /\ index > Len(cls)
    BY <1>5 DEF MinimizeShared, StartMinimization
  <2>2. SoundInv'
    BY <1>1, <1>5, StartSound DEF MinimizeShared
  <2>3. Twins'
    <3>1. \A k \in DOMAIN cls : k < index
      BY <1>1, <2>1 DEF ShareTypeInv, ShareTypeOK
    <3> QED
      BY <2>1, <3>1 DEF Twins
  <2>4. Minimizing'
    BY <2>1 DEF Minimizing
  <2>5. \A h \in Header : Rest(h)' = Rest(h)
    BY <2>1 DEF Rest, DecideAll, Decide, Matching
  <2>6. AllComposed'
    BY <2>1, <2>5, ComposedUnchanged
  <2> QED
    BY <2>2, <2>3, <2>4, <2>6
<1>6. CASE Minimize
  <2>1. UNCHANGED <<original, cls, shared, parts, index, unshared, at>>
        /\ rules' = rules /\ use_resolution' = use_resolution
        /\ (at = "shared" \/ at = "unshared")
    BY <1>6 DEF Minimize, sharing_vars, Loop, Forward, Backward, ResolveRow, EndResolution
  <2>2. SoundInv'
    BY <1>6, MinimizeIsNext, StepKeepsTypes, StepKeepsDecisions DEF SoundInv
  <2>3. Twins'
    BY <2>1 DEF Twins
  <2>4. Minimizing'
    BY <2>1 DEF Minimizing
  <2>5. \A h \in Header : Rest(h)' = Rest(h)
    BY <2>1 DEF Rest, DecideAll, Decide, Matching
  <2>6. AllComposed'
    BY <2>1, <2>5, ComposedUnchanged
  <2> QED
    BY <2>2, <2>3, <2>4, <2>6
<1>7. CASE MinimizeUnshared
  <2> DEFINE part == [rules |-> rules, kept |-> active]
  <2>1. /\ UNCHANGED <<original, cls, shared, use_resolution>>
        /\ at = "shared" /\ at' = "unshared" /\ rules' = cls
        /\ parts' = Append(parts, part)
    BY <1>7 DEF MinimizeUnshared, StartMinimization
  <2>2. SoundInv'
    BY <1>1, <1>7, StartSound DEF MinimizeUnshared
  <2>3. Twins'
    BY <2>1 DEF Twins
  <2>4. Minimizing'
    BY <2>1 DEF Minimizing
  <2>5. AllComposed'
    <3> SUFFICES ASSUME ~ use_resolution, NEW h \in Header
                 PROVE  Composed(parts, Rest(h), DecideAll(original, h), h)'
      BY <2>1 DEF AllComposed
    <3>1. Composed(parts, Rest(h), DecideAll(original, h), h)
      BY DEF AllComposed
    <3>2. Decide(part.rules, part.kept, h) = DecideAll(shared, h)
      BY <2>1, SoundDecides DEF Minimizing
    <3>3. Rest(h) = IF DecideAll(cls, h) = NOP THEN DecideAll(shared, h) ELSE DecideAll(cls, h)
      BY <2>1 DEF Rest
    <3>4. DecideAll(cls, h) = NOP \/ DecideAll(shared, h) = NOP
      <4>1. /\ Len(cls) = Len(shared)
            /\ \A k \in DOMAIN cls : cls[k].filter = shared[k].filter
            /\ \A k \in DOMAIN cls : cls[k].action = NOP \/ shared[k].action = NOP
        BY <2>1 DEF ShareTypeInv, CopyType, Twins
      <4>2. \/ DecideAll(cls, h) = NOP /\ DecideAll(shared, h) = NOP
            \/ \E k \in DOMAIN cls : /\ DecideAll(cls, h) = cls[k].action
                                     /\ DecideAll(shared, h) = shared[k].action
        BY <1>1, <4>1, SamePosition
      <4> QED
        BY <4>1, <4>2
    <3>5. \/ Decide(part.rules, part.kept, h) = NOP /\ DecideAll(cls, h) = Rest(h)
          \/ Decide(part.rules, part.kept, h) = Rest(h) /\ DecideAll(cls, h) = NOP
      BY <3>2, <3>3, <3>4
    <3>6. Composed(Append(parts, part), DecideAll(cls, h), DecideAll(original, h), h)
      BY <1>1, <3>1, <3>5, AppendPart
    <3>7. DecideAll(original, h)' = DecideAll(original, h) /\ Rest(h)' = DecideAll(cls, h)
      BY <2>1 DEF Rest, DecideAll, Decide, Matching
    <3>8. Composed(parts', Rest(h)', DecideAll(original, h)', h)
      BY <2>1, <3>6, <3>7
    <3> QED
      BY <3>8 DEF Composed, Decide, Matching
  <2> QED
    BY <2>2, <2>3, <2>4, <2>5
<1>8. CASE ReturnParts
  <2>1. /\ UNCHANGED <<original, cls, shared, parts, use_resolution>>
        /\ at = "unshared" /\ at' = "idle" /\ rules = cls
        /\ unshared' = [rules |-> rules, kept |-> active]
    BY <1>8 DEF ReturnParts, vars, Minimizing
  <2>2. SoundInv'
    BY <1>8, SoundUnchanged DEF ReturnParts
  <2>3. Twins'
    BY <2>1 DEF Twins
  <2>4. Minimizing'
    <3>1. \A h \in Header : ~ use_resolution => Decide(rules, active, h) = DecideAll(cls, h)
      BY <2>1, SoundDecides
    <3>2. unshared'.rules = rules /\ unshared'.kept = active
      BY <2>1
    <3>3. \A h \in Header : DecideAll(cls, h)' = DecideAll(cls, h)
      BY <2>1 DEF DecideAll, Decide, Matching
    <3>4. \A h \in Header :
            Decide(unshared.rules, unshared.kept, h)' = Decide(rules, active, h)
      BY <3>2 DEF Decide, Matching
    <3> QED
      BY <2>1, <3>1, <3>3, <3>4 DEF Minimizing
  <2>5. \A h \in Header : Rest(h)' = Rest(h)
    BY <2>1 DEF Rest, DecideAll, Decide, Matching
  <2>6. AllComposed'
    BY <2>1, <2>5, ComposedUnchanged
  <2> QED
    BY <2>2, <2>3, <2>4, <2>6
<1>9. CASE Stop \/ UNCHANGED share_vars
  <2>1. UNCHANGED vars /\ UNCHANGED sharing_vars
    BY <1>9 DEF Stop, share_vars
  <2>2. UNCHANGED <<original, cls, shared, parts, index, unshared, at, rules, use_resolution>>
    BY <2>1 DEF vars, sharing_vars
  <2>3. SoundInv'
    BY <2>1, SoundUnchanged
  <2>4. Twins'
    BY <2>2 DEF Twins
  <2>5. Minimizing'
    BY <2>2 DEF Minimizing, DecideAll, Decide, Matching
  <2>6. \A h \in Header : Rest(h)' = Rest(h)
    BY <2>2 DEF Rest, DecideAll, Decide, Matching
  <2>7. AllComposed'
    BY <2>2, <2>6, ComposedUnchanged
  <2> QED
    BY <2>3, <2>4, <2>5, <2>7
<1> QED
  BY <1>2, <1>3, <1>4, <1>5, <1>6, <1>7, <1>8, <1>9 DEF ShareNext

\* The invariant is what SplitsCompose says of the parts, with the rest as
\* one more part.
LEMMA ComposedIsSplits ==
  ASSUME ShareInv
  PROVE  SplitsCompose
<1> SUFFICES ASSUME at = "idle", parts # <<>>, ~ use_resolution, NEW h \in Header
             PROVE  LET all      == Append(parts, unshared)
                        decision == DecideAll(original, h)
                        deciding == {p \in DOMAIN all :
                                       Decide(all[p].rules, all[p].kept, h) # NOP}
                    IN  /\ Cardinality(deciding) = IF decision = NOP THEN 0 ELSE 1
                        /\ \A p \in deciding :
                             Decide(all[p].rules, all[p].kept, h) = decision
                        /\ DecideAll(cls, h) = Decide(unshared.rules, unshared.kept, h)
  BY DEF SplitsCompose
<1> DEFINE all      == Append(parts, unshared)
           decision == DecideAll(original, h)
           D(p)     == Decide(all[p].rules, all[p].kept, h)
           deciding == {p \in DOMAIN all : D(p) # NOP}
<1>1. DecideAll(cls, h) = Decide(unshared.rules, unshared.kept, h)
  BY DEF ShareInv, Minimizing
<1>2. Rest(h) = DecideAll(cls, h)
  BY DEF Rest
<1>3. Composed(parts, Rest(h), decision, h)
  BY DEF ShareInv, AllComposed
<1>4. parts \in Seq(Part) /\ unshared \in Part
  BY DEF ShareInv, ShareTypeInv, ShareTypeOK
<1>5. Composed(all, NOP, decision, h)
  BY <1>1, <1>2, <1>3, <1>4, AppendPart
<1>6. /\ \A p \in DOMAIN all : D(p) # NOP =>
             D(p) = decision /\ \A q \in DOMAIN all : q # p => D(q) = NOP
      /\ decision = NOP \/ \E p \in DOMAIN all : D(p) # NOP
  BY <1>5 DEF Composed
<1> HIDE DEF all, decision, D
<1>7. \A p \in deciding : D(p) = decision
  BY <1>6
<1>8. Cardinality(deciding) = IF decision = NOP THEN 0 ELSE 1
  <2>1. CASE decision = NOP
    <3>1. deciding = {}
      BY <1>6, <2>1
    <3> QED
      BY <2>1, <3>1, FS_EmptySet
  <2>2. CASE decision # NOP
    <3>1. PICK p \in DOMAIN all : D(p) # NOP
      BY <1>6, <2>2
    <3>2. deciding = {p}
      BY <1>6, <3>1
    <3> QED
      BY <2>2, <3>2, FS_Singleton
  <2> QED
    BY <2>1, <2>2
<1> QED
  BY <1>1, <1>7, <1>8 DEF all, decision, D

LEMMA ShareInvariance == ShareSpec => []ShareInv
<1>1. ShareInit => ShareInv
  <2> SUFFICES ASSUME ShareInit PROVE ShareInv
    OBVIOUS
  <2>1. ShareTypeInv /\ cls = original
    BY ShareInitTypes
  <2>2. /\ at = "idle" /\ parts = <<>> /\ pc = "done"
        /\ rules = <<>> /\ active = {}
    BY DEF ShareInit
  <2>3. SoundInv
    <3>1. TypeOK
      BY <2>1 DEF ShareTypeInv, ShareTypeOK
    <3>2. active = DOMAIN rules
      BY <2>2
    <3> QED
      BY <2>2, <3>1, <3>2 DEF SoundInv, NoResolution, Equivalent, DecideAll
  <2>4. Twins /\ Minimizing
    BY <2>2 DEF Twins, Minimizing
  <2>5. AllComposed
    <3> SUFFICES ASSUME NEW h \in Header
                 PROVE  Composed(parts, Rest(h), DecideAll(original, h), h)
      BY DEF AllComposed
    <3>1. Rest(h) = DecideAll(original, h)
      BY <2>1, <2>2 DEF Rest
    <3>2. DOMAIN parts = {}
      BY <2>2
    <3> QED
      BY <3>1, <3>2 DEF Composed
  <2> QED
    BY <2>1, <2>3, <2>4, <2>5 DEF ShareInv
<1>2. ShareInv /\ [ShareNext]_share_vars => ShareInv'
  <2>1. ShareInv => ShareTypeInv
    BY DEF ShareInv
  <2> QED
    BY <2>1, ShareStepTypes, ShareStepKeeps
<1> QED
  BY <1>1, <1>2, PTL DEF ShareSpec

\* Whatever is split off a classifier, and however often, without resolution:
\* each header is decided as before, by one of the parts that were returned.
THEOREM SplitsSound == ShareSpec => []SplitsCompose
<1>1. ShareInv => SplitsCompose
  BY ComposedIsSplits
<1> QED
  BY <1>1, ShareInvariance, PTL

-----------------------------------------------------------------------------
(* Weights.                                                                *)
(*                                                                         *)
(* A NOP that minimization keeps stands before a rule with an action that  *)
(* it intersects: behind a backward pass no other is left.  In the shared  *)
(* part that action is shareable, and the NOP was an entry of another      *)
(* action when the split began; replacing entries by NOPs makes no rule    *)
(* obstruct an action it did not obstruct before, so it has been counted   *)
(* for that action when the classifier was weighed, however long ago.      *)

\* The rules of a list that obstruct those of action a.
Counted(list, a) ==
  {j \in DOMAIN list : list[j].action # a
     /\ \E i \in DOMAIN list : j < i /\ list[i].action = a /\ Overlap(list, j, i)}

\* w is the dictionary of the list, as far as it is about actions.
WeightsOf(list, w) ==
  /\ DOMAIN w \subseteq Actions \cup {NopCode}
  /\ \A a \in Actions \ {NOP} :
       /\ Counted(list, a) # {} => a \in DOMAIN w
       /\ a \in DOMAIN w => w[a] = Cardinality(Counted(list, a))

\* copy has the entries of the list, and before n only the actions in sh.
CopyOf(list, copy, sh, n) ==
  /\ Len(copy) = Len(list)
  /\ \A k \in DOMAIN list :
       /\ copy[k].filter = list[k].filter
       /\ copy[k].action = IF k < n /\ list[k].action \notin sh THEN NOP ELSE list[k].action

\* w is the dictionary of a list in which the same rules, and maybe others,
\* obstruct every action.
Bounded(list, w) ==
  \E origin \in Seq(Rule) :
    /\ WeightsOf(origin, w)
    /\ \A a \in Actions \ {NOP} : Counted(list, a) \subseteq Counted(origin, a)

\* The list has become the two lists of the split.
SplitOf(list, w, mine, copy, sh, n) ==
  /\ Bounded(list, w)
  /\ Len(list) = Len(mine)
  /\ CopyOf(list, copy, sh, n)
  /\ CopyOf(list, mine, Actions \ sh, n)

SharedOf(list, w, copy, sh) ==
  Bounded(list, w) /\ CopyOf(list, copy, sh, Len(list) + 1)

Weighed ==
  weights # <<>> =>
    /\ at # "replacing" => Bounded(cls, weights)
    /\ at = "replacing" =>
         \E list \in Seq(Rule) : SplitOf(list, weights, cls, shared, is_shareable, index)
    /\ at = "shared" =>
         \E list \in Seq(Rule) : SharedOf(list, weights, shared, is_shareable)

\* A NOP hides a later rule from some header.
Shadows(list, S) ==
  \A k \in S : list[k].action = NOP =>
    \E i \in DOMAIN list : k < i /\ list[i].action # NOP /\ Overlap(list, k, i)

\* No other NOP is left by an iteration.
NopsShadow ==
  (pc \in {"resolution", "done"} \/ (pc = "loop" /\ ~ trying)) => Shadows(rules, active)

WithinWeights(part, w, sh) ==
  Cardinality({k \in part.kept : part.rules[k].action = NOP})
    <= Cardinality(Units(w, (sh \ {NOP}) \cap DOMAIN w))

Costs ==
  at = "unshared" /\ weights # <<>> =>
    WithinWeights(parts[Len(parts)], weights, is_shareable)

WeighInv == Weighed /\ NopsShadow /\ Costs /\ IsFiniteSet(DOMAIN weights)

LEMMA CountedFinite ==
  ASSUME NEW list \in Seq(Rule), NEW a
  PROVE  /\ IsFiniteSet(Counted(list, a))
         /\ Cardinality(Counted(list, a)) \in Nat
         /\ Cardinality(Counted(list, a)) = 0 <=> Counted(list, a) = {}
<1>1. Counted(list, a) \subseteq DOMAIN list /\ IsFiniteSet(DOMAIN list)
  BY Positions DEF Counted
<1>2. IsFiniteSet(Counted(list, a))
  BY <1>1, FS_Subset
<1> QED
  BY <1>2, FS_CardinalityType, FS_EmptySet

\* weight_action_obstruction counts what it says, for keys that are actions.
LEMMA WeightsMeasure ==
  ASSUME cls \in Seq(Rule)
  PROVE  WeightsOf(cls, ObstructionWeights) /\ IsFiniteSet(DOMAIN ObstructionWeights)
<1> DEFINE obstructed == {a \in Actions : Obstructing(a) # {}}
           present    == {cls[i].action : i \in DOMAIN cls}
           keys       == {Code(a) : a \in obstructed} \cup present
<1>1. \A a : Obstructing(a) = Counted(cls, a)
  BY DEF Obstructing, Counted, Overlap
<1>2. DOMAIN ObstructionWeights = keys
  BY DEF ObstructionWeights
<1>3. \A k \in keys :
        ObstructionWeights[k] =
          IF \E a \in obstructed : Code(a) = k
          THEN Cardinality(Obstructing(IF k = NopCode THEN NOP ELSE k))
          ELSE 0
  BY DEF ObstructionWeights
<1>4. present \subseteq Actions
  BY Positions
<1>5. \A a \in Actions \ {NOP} : Code(a) = a /\ a # NopCode
  BY SessionsAssumption DEF Code
<1>6. keys \subseteq Actions \cup {NopCode}
  BY <1>4, <1>5 DEF Code
<1>7. ASSUME NEW a \in Actions \ {NOP}
      PROVE  /\ Counted(cls, a) # {} => a \in keys
             /\ a \in keys => ObstructionWeights[a] = Cardinality(Counted(cls, a))
  <2>1. (\E b \in obstructed : Code(b) = a) <=> a \in obstructed
    BY <1>5, SessionsAssumption DEF Code
  <2>2. a \in obstructed <=> Counted(cls, a) # {}
    BY <1>1
  <2>3. a \in obstructed => a \in keys
    BY <1>5
  <2>4. ASSUME a \in keys PROVE ObstructionWeights[a] = Cardinality(Counted(cls, a))
    <3>1. ObstructionWeights[a] = IF a \in obstructed THEN Cardinality(Obstructing(a)) ELSE 0
      BY <1>3, <1>5, <2>1, <2>4
    <3>2. a \notin obstructed => Cardinality(Counted(cls, a)) = 0
      BY <2>2, CountedFinite
    <3> QED
      BY <1>1, <3>1, <3>2
  <2> QED
    BY <2>2, <2>3, <2>4
<1>8. IsFiniteSet(keys)
  <2>1. IsFiniteSet(DOMAIN cls)
    BY Positions
  <2>2. IsFiniteSet(present)
    <3> DEFINE f == [i \in DOMAIN cls |-> cls[i].action]
    <3>1. f \in Surjection(DOMAIN cls, present)
      BY DEF Surjection
    <3> HIDE DEF f, present
    <3> QED
      BY <2>1, <3>1, FS_Surjection
  <2>3. keys \subseteq present \cup {NopCode}
    <3>1. \A a \in obstructed : a # NOP => a \in present
      BY DEF Obstructing
    <3> QED
      BY <3>1 DEF Code
  <2>4. IsFiniteSet(present \cup {NopCode})
    BY <2>2, FS_AddElement
  <2> HIDE DEF keys, present
  <2> QED
    BY <2>3, <2>4, FS_Subset
<1> HIDE DEF keys
<1> QED
  BY <1>2, <1>6, <1>7, <1>8 DEF WeightsOf

\* A NOP the backward pass keeps stands before a rule with an action.
LEMMA BackwardShadows ==
  ASSUME NEW list \in Seq(Rule), NEW S \in SUBSET DOMAIN list
  PROVE  Shadows(list, BackwardPass(list, S))
<1> SUFFICES ASSUME NEW k \in BackwardPass(list, S), list[k].action = NOP
             PROVE  \E i \in DOMAIN list : k < i /\ list[i].action # NOP /\ Overlap(list, k, i)
  BY DEF Shadows
<1>1. k \in S /\ ~ Erased(list, k, S)
  BY BackwardIsErased DEF BackwardPass
<1> DEFINE e == First(NextRelated(list, k, S))
<1>2. NextRelated(list, k, S) # {} /\ list[e].action # NOP
  BY <1>1 DEF Erased
<1>3. e \in NextRelated(list, k, S)
  BY <1>1, <1>2, Related, FirstIsLeast
<1> HIDE DEF e
<1>4. e \in DOMAIN list /\ k \in DOMAIN list /\ k < e
      /\ (CoversRule(list, e, k) \/ Overlap(list, e, k))
  BY <1>1, <1>3, Related
<1>5. Overlap(list, k, e)
  BY <1>4, CoverIsOverlap, OverlapSymmetric
<1> QED
  BY <1>2, <1>4, <1>5

LEMMA ShadowsPart ==
  ASSUME NEW list, NEW S, NEW T \in SUBSET S, Shadows(list, S)
  PROVE  Shadows(list, T)
BY DEF Shadows

LEMMA MinimizeShadows ==
  ASSUME TypeOK, NopsShadow, [Next]_vars
  PROVE  NopsShadow'
<1>1. rules \in Seq(Rule) /\ active \in SUBSET DOMAIN rules
  BY DEF TypeOK
<1>2. CASE Loop
  <2>1. /\ rules' = rules /\ active' = active
        /\ pc' = "forward" \/ (pc' = "done" /\ pc = "loop" /\ ~ trying)
    BY <1>2 DEF Loop
  <2> QED
    BY <2>1 DEF NopsShadow
<1>3. CASE Forward
  BY <1>3 DEF Forward, NopsShadow
<1>4. CASE Backward
  <2>1. rules' = rules /\ active' = BackwardPass(rules, active)
    BY <1>4 DEF Backward
  <2>2. Shadows(rules', active')
    BY <1>1, <2>1, BackwardShadows
  <2> QED
    BY <2>2 DEF NopsShadow
<1>5. CASE ResolveRow
  <2>1. rules' = rules /\ active' \in SUBSET active /\ pc = "resolution"
    BY <1>5 DEF ResolveRow
  <2>2. Shadows(rules, active)
    BY <2>1 DEF NopsShadow
  <2>3. Shadows(rules', active')
    BY <2>1, <2>2, ShadowsPart
  <2> QED
    BY <2>3 DEF NopsShadow
<1>6. CASE EndResolution
  BY <1>6 DEF EndResolution, NopsShadow
<1>7. CASE Return \/ UNCHANGED vars
  BY <1>7 DEF Return, vars, NopsShadow
<1> QED
  BY <1>2, <1>3, <1>4, <1>5, <1>6, <1>7 DEF Next

\* The NOPs kept in the shared part were counted for shareable actions.
LEMMA ShadowsAreCounted ==
  ASSUME NEW list \in Seq(Rule), NEW copy \in Seq(Rule), NEW sh, NEW w,
         NEW origin \in Seq(Rule), WeightsOf(origin, w),
         \A a \in Actions \ {NOP} : Counted(list, a) \subseteq Counted(origin, a),
         CopyOf(list, copy, sh, Len(list) + 1),
         NEW S \in SUBSET DOMAIN copy, Shadows(copy, S),
         NEW k \in S, copy[k].action = NOP
  PROVE  \E a \in (sh \ {NOP}) \cap DOMAIN w : k \in Counted(origin, a)
<1>1. /\ DOMAIN copy = DOMAIN list /\ DOMAIN list = 1 .. Len(list)
      /\ Len(list) \in Nat
  BY Positions DEF CopyOf
<1>2. PICK i \in DOMAIN copy : k < i /\ copy[i].action # NOP /\ Overlap(copy, k, i)
  BY DEF Shadows
<1>3. \A j \in DOMAIN list :
        /\ copy[j].filter = list[j].filter
        /\ copy[j].action = IF list[j].action \notin sh THEN NOP ELSE list[j].action
  <2>1. \A j \in DOMAIN list : j < Len(list) + 1
    BY <1>1
  <2> QED
    BY <2>1 DEF CopyOf
<1>4. k \in DOMAIN list /\ i \in DOMAIN list
  BY <1>1, <1>2
<1> DEFINE a == list[i].action
<1>5. a \in sh /\ a # NOP /\ a \in Actions /\ copy[i].action = a
  BY <1>2, <1>3, <1>4, Positions
<1>6. list[k].action # a
  BY <1>3, <1>4, <1>5
<1>7. Overlap(list, k, i)
  BY <1>2, <1>3, <1>4 DEF Overlap
<1>8. k \in Counted(origin, a)
  BY <1>2, <1>4, <1>5, <1>6, <1>7 DEF Counted
<1> HIDE DEF a
<1>9. a \in DOMAIN w
  BY <1>5, <1>8 DEF WeightsOf
<1> QED
  BY <1>5, <1>8, <1>9

LEMMA PartWithinWeights ==
  ASSUME NEW list \in Seq(Rule), NEW copy \in Seq(Rule), NEW sh \in SUBSET Actions, NEW w,
         Bounded(list, w), CopyOf(list, copy, sh, Len(list) + 1), IsFiniteSet(DOMAIN w),
         NEW S \in SUBSET DOMAIN copy, Shadows(copy, S)
  PROVE  WithinWeights([rules |-> copy, kept |-> S], w, sh)
<1>0. PICK origin \in Seq(Rule) :
        /\ WeightsOf(origin, w)
        /\ \A a \in Actions \ {NOP} : Counted(list, a) \subseteq Counted(origin, a)
  BY DEF Bounded
<1> DEFINE N == {k \in S : copy[k].action = NOP}
           T == (sh \ {NOP}) \cap DOMAIN w
           cover == [a \in T |-> Counted(origin, a)]
<1>1. \A k \in N : \E a \in T : k \in cover[a]
  BY <1>0, ShadowsAreCounted
<1>2. IsFiniteSet(T)
  BY FS_Subset
<1>3. \A a \in T : IsFiniteSet(cover[a]) /\ w[a] = Cardinality(cover[a])
  <2> SUFFICES ASSUME NEW a \in T
               PROVE  IsFiniteSet(Counted(origin, a)) /\ w[a] = Cardinality(Counted(origin, a))
    OBVIOUS
  <2>1. a \in Actions \ {NOP} /\ a \in DOMAIN w
    OBVIOUS
  <2> QED
    BY <1>0, <2>1, CountedFinite DEF WeightsOf
<1> HIDE DEF N, T, cover
<1>4. Cardinality(N) <= Cardinality(Units(w, T))
  BY <1>1, <1>2, <1>3, CoverBound
<1> QED
  BY <1>4 DEF WithinWeights, N, T

LEMMA CopyStep ==
  ASSUME NEW list \in Seq(Rule), NEW copy \in Seq(Rule), NEW sh,
         NEW n \in DOMAIN list, CopyOf(list, copy, sh, n)
  PROVE  /\ list[n].action \in sh => CopyOf(list, copy, sh, n + 1)
         /\ list[n].action \notin sh => CopyOf(list, WithNop(copy, n), sh, n + 1)
<1>1. /\ Len(copy) = Len(list) /\ DOMAIN copy = DOMAIN list /\ DOMAIN list \subseteq Nat
      /\ n \in DOMAIN copy
  BY Positions DEF CopyOf
<1>2. \A k \in DOMAIN list :
        /\ copy[k].filter = list[k].filter
        /\ copy[k].action = IF k < n /\ list[k].action \notin sh THEN NOP ELSE list[k].action
  BY DEF CopyOf
<1>3. \A k \in DOMAIN list : k < n + 1 <=> k < n \/ k = n
  BY <1>1
<1>4. ASSUME list[n].action \in sh PROVE CopyOf(list, copy, sh, n + 1)
  BY <1>1, <1>2, <1>3, <1>4 DEF CopyOf
<1>5. ASSUME list[n].action \notin sh PROVE CopyOf(list, WithNop(copy, n), sh, n + 1)
  <2>1. /\ Len(WithNop(copy, n)) = Len(copy)
        /\ \A k \in DOMAIN copy : WithNop(copy, n)[k].filter = copy[k].filter
        /\ \A k \in DOMAIN copy : k # n => WithNop(copy, n)[k] = copy[k]
        /\ WithNop(copy, n)[n].action = NOP
    BY <1>1, ReplaceEntry
  <2>2. ASSUME NEW k \in DOMAIN list
        PROVE  /\ WithNop(copy, n)[k].filter = list[k].filter
               /\ WithNop(copy, n)[k].action =
                    IF k < n + 1 /\ list[k].action \notin sh THEN NOP ELSE list[k].action
    <3>1. CASE k = n
      BY <1>1, <1>2, <1>3, <1>5, <2>1, <3>1
    <3>2. CASE k # n
      BY <1>1, <1>2, <1>3, <2>1, <3>2
    <3> QED
      BY <3>1, <3>2
  <2> QED
    BY <1>1, <2>1, <2>2 DEF CopyOf
<1> QED
  BY <1>4, <1>5

\* While entries are replaced both lists follow the one that is split.
LEMMA ReplaceWeighed ==
  ASSUME ShareTypeInv, Weighed, Replace
  PROVE  Weighed'
<1>1. /\ at = "replacing" /\ at' = "replacing" /\ weights' = weights
      /\ is_shareable' = is_shareable /\ index' = index + 1 /\ index \in DOMAIN cls
  BY DEF Replace
<1>2. cls \in Seq(Rule) /\ shared \in Seq(Rule)
  BY DEF ShareTypeInv, ShareTypeOK
<1> SUFFICES ASSUME weights # <<>>
             PROVE  \E list \in Seq(Rule) :
                      SplitOf(list, weights, cls', shared', is_shareable, index + 1)
  BY <1>1 DEF Weighed
<1>3. PICK list \in Seq(Rule) : SplitOf(list, weights, cls, shared, is_shareable, index)
  BY <1>1 DEF Weighed
<1>4. /\ Bounded(list, weights) /\ Len(list) = Len(cls)
      /\ CopyOf(list, shared, is_shareable, index)
      /\ CopyOf(list, cls, Actions \ is_shareable, index)
  BY <1>3 DEF SplitOf
<1>5. DOMAIN cls = DOMAIN list /\ index \in DOMAIN list /\ ~ (index < index)
  BY <1>1, <1>2, <1>4, Positions
<1>6. cls[index].action = list[index].action /\ list[index].action \in Actions
  BY <1>4, <1>5, Positions DEF CopyOf
<1>7. /\ CopyOf(list, shared', is_shareable, index + 1)
      /\ CopyOf(list, cls', Actions \ is_shareable, index + 1)
      /\ Len(list) = Len(cls')
  <2>1. CASE cls[index].action \in is_shareable /\ cls' = WithNop(cls, index) /\ shared' = shared
    <3>1. CopyOf(list, shared, is_shareable, index + 1)
      BY <1>2, <1>4, <1>5, <1>6, <2>1, CopyStep
    <3>2. CopyOf(list, WithNop(cls, index), Actions \ is_shareable, index + 1)
      BY <1>2, <1>4, <1>5, <1>6, <2>1, CopyStep
    <3>3. Len(WithNop(cls, index)) = Len(cls)
      BY <1>1, <1>2, ReplaceEntry
    <3> QED
      BY <1>4, <2>1, <3>1, <3>2, <3>3
  <2>2. CASE cls[index].action \notin is_shareable /\ shared' = WithNop(shared, index) /\ cls' = cls
    <3>1. CopyOf(list, WithNop(shared, index), is_shareable, index + 1)
      BY <1>2, <1>4, <1>5, <1>6, <2>2, CopyStep
    <3>2. CopyOf(list, cls, Actions \ is_shareable, index + 1)
      BY <1>2, <1>4, <1>5, <1>6, <2>2, CopyStep
    <3> QED
      BY <1>4, <2>2, <3>1, <3>2
  <2> QED
    BY <2>1, <2>2, ReplaceSteps
<1> QED
  BY <1>4, <1>7 DEF SplitOf

\* A list in which some actions have become NOPs has no new obstructions.
LEMMA CopyBounded ==
  ASSUME NEW list \in Seq(Rule), NEW w, Bounded(list, w),
         NEW copy \in Seq(Rule), NEW sh, CopyOf(list, copy, sh, Len(list) + 1)
  PROVE  Bounded(copy, w)
<1>1. DOMAIN copy = DOMAIN list /\ DOMAIN list = 1 .. Len(list) /\ Len(list) \in Nat
  BY Positions DEF CopyOf
<1>2. \A k \in DOMAIN list :
        /\ copy[k].filter = list[k].filter
        /\ copy[k].action = IF list[k].action \notin sh THEN NOP ELSE list[k].action
  <2>1. \A k \in DOMAIN list : k < Len(list) + 1
    BY <1>1
  <2> QED
    BY <2>1 DEF CopyOf
<1>3. ASSUME NEW a \in Actions \ {NOP}, NEW j \in Counted(copy, a)
      PROVE  j \in Counted(list, a)
  <2>1. j \in DOMAIN list /\ copy[j].action # a
    BY <1>1 DEF Counted
  <2>2. PICK i \in DOMAIN list : j < i /\ copy[i].action = a /\ Overlap(copy, j, i)
    BY <1>1 DEF Counted
  <2>3. list[i].action = a /\ a \in sh
    BY <1>2, <2>2
  <2>4. list[j].action # a
    BY <1>2, <2>1, <2>3
  <2>5. Overlap(list, j, i)
    BY <1>2, <2>1, <2>2 DEF Overlap
  <2> QED
    BY <2>1, <2>2, <2>3, <2>4, <2>5 DEF Counted
<1>4. PICK origin \in Seq(Rule) :
        /\ WeightsOf(origin, w)
        /\ \A a \in Actions \ {NOP} : Counted(list, a) \subseteq Counted(origin, a)
  BY DEF Bounded
<1>5. \A a \in Actions \ {NOP} : Counted(copy, a) \subseteq Counted(origin, a)
  BY <1>3, <1>4
<1> QED
  BY <1>4, <1>5 DEF Bounded

LEMMA CopyIsWhole ==
  ASSUME NEW list \in Seq(Rule), NEW sh
  PROVE  CopyOf(list, list, sh, 1)
<1>1. \A k \in DOMAIN list : ~ (k < 1)
  BY Positions
<1> QED
  BY <1>1 DEF CopyOf

LEMMA WeighStepKeeps ==
  ASSUME WeighInv, ShareInv, [ShareNext]_share_vars
  PROVE  WeighInv'
<1> USE DEF WeighInv
<1>1. /\ ShareTypeInv /\ ShareTypeOK /\ TypeOK /\ Minimizing
      /\ cls \in Seq(Rule) /\ shared \in Seq(Rule) /\ is_shareable \in SUBSET Actions
      /\ rules \in Seq(Rule) /\ active \in SUBSET DOMAIN rules
      /\ parts \in Seq(Part) /\ [rules |-> rules, kept |-> active] \in Part
  BY Positions DEF ShareInv, ShareTypeInv, ShareTypeOK, TypeOK, Part
<1>2. CASE Weigh
  <2>1. cls' = cls /\ weights' = ObstructionWeights /\ at' = "weighed" /\ UNCHANGED vars
    BY <1>2 DEF Weigh
  <2>2. WeightsOf(cls, ObstructionWeights) /\ IsFiniteSet(DOMAIN ObstructionWeights)
    BY <1>1, WeightsMeasure
  <2>3. Bounded(cls, ObstructionWeights)
    BY <1>1, <2>2 DEF Bounded
  <2>4. Bounded(cls', weights')
    BY <2>1, <2>3
  <2>5. Weighed'
    BY <2>1, <2>4 DEF Weighed
  <2>6. NopsShadow'
    BY <2>1 DEF NopsShadow, vars
  <2> QED
    BY <2>1, <2>2, <2>5, <2>6 DEF Costs
<1>3. CASE Split
  <2>1. /\ cls' = cls /\ weights' = weights /\ shared' = cls /\ index' = 1
        /\ at # "replacing" /\ at' = "replacing" /\ UNCHANGED vars
    BY <1>3 DEF Split
  <2>2. ASSUME weights # <<>>
        PROVE  SplitOf(cls, weights, cls, cls, is_shareable', 1)
    <3>1. Bounded(cls, weights)
      BY <2>1, <2>2 DEF Weighed
    <3>2. CopyOf(cls, cls, is_shareable', 1) /\ CopyOf(cls, cls, Actions \ is_shareable', 1)
      BY <1>1, CopyIsWhole
    <3> QED
      BY <3>1, <3>2 DEF SplitOf
  <2>3. Weighed'
    BY <1>1, <2>1, <2>2 DEF Weighed
  <2>4. NopsShadow'
    BY <2>1 DEF NopsShadow, vars
  <2> QED
    BY <2>1, <2>3, <2>4 DEF Costs
<1>4. CASE Replace
  <2>1. weights' = weights /\ at' = "replacing" /\ UNCHANGED vars
    BY <1>4 DEF Replace
  <2>2. Weighed'
    BY <1>1, <1>4, ReplaceWeighed
  <2>3. NopsShadow'
    BY <2>1 DEF NopsShadow, vars
  <2> QED
    BY <2>1, <2>2, <2>3 DEF Costs
<1>5. CASE MinimizeShared
  <2>1. /\ cls' = cls /\ weights' = weights /\ shared' = shared /\ is_shareable' = is_shareable
        /\ at = "replacing" /\ at' = "shared" /\ index > Len(cls)
        /\ pc' = "loop" /\ trying' = TRUE
    BY <1>5 DEF MinimizeShared, StartMinimization
  <2>2. ASSUME weights # <<>>
        PROVE  /\ Bounded(cls, weights)
               /\ \E list \in Seq(Rule) : SharedOf(list, weights, shared, is_shareable)
    <3>1. PICK list \in Seq(Rule) : SplitOf(list, weights, cls, shared, is_shareable, index)
      BY <2>1, <2>2 DEF Weighed
    <3>2. /\ Bounded(list, weights) /\ Len(list) = Len(cls)
          /\ CopyOf(list, shared, is_shareable, index)
          /\ CopyOf(list, cls, Actions \ is_shareable, index)
      BY <3>1 DEF SplitOf
    <3>3. \A k \in DOMAIN list : k < index /\ k < Len(list) + 1
      BY <1>1, <2>1, <3>2, Positions DEF ShareTypeOK
    <3>4. CopyOf(list, shared, is_shareable, Len(list) + 1)
      BY <3>2, <3>3 DEF CopyOf
    <3>5. CopyOf(list, cls, Actions \ is_shareable, Len(list) + 1)
      BY <3>2, <3>3 DEF CopyOf
    <3>6. Bounded(cls, weights)
      BY <1>1, <3>2, <3>5, CopyBounded
    <3> QED
      BY <3>2, <3>4, <3>6 DEF SharedOf
  <2>3. Weighed'
    BY <2>1, <2>2 DEF Weighed
  <2> QED
    BY <2>1, <2>3 DEF Costs, NopsShadow
<1>6. CASE Minimize
  <2>1. UNCHANGED sharing_vars /\ Next
    BY <1>6, MinimizeIsNext
  <2>2. NopsShadow'
    BY <1>1, <2>1, MinimizeShadows
  <2>3. Weighed'
    BY <2>1 DEF Weighed, sharing_vars
  <2>4. Costs'
    BY <2>1 DEF sharing_vars, Costs
  <2> QED
    BY <2>1, <2>2, <2>3, <2>4 DEF sharing_vars
<1>7. CASE MinimizeUnshared
  <2> DEFINE part == [rules |-> rules, kept |-> active]
  <2>1. /\ at = "shared" /\ at' = "unshared" /\ pc = "done" /\ pc' = "loop" /\ trying' = TRUE
        /\ parts' = Append(parts, part)
        /\ weights' = weights /\ is_shareable' = is_shareable
    BY <1>7 DEF MinimizeUnshared, StartMinimization
  <2>2. rules = shared /\ Shadows(rules, active)
    BY <1>1, <2>1 DEF Minimizing, NopsShadow
  <2>3. ASSUME weights # <<>> PROVE WithinWeights(part, weights, is_shareable)
    <3>1. PICK list \in Seq(Rule) : SharedOf(list, weights, shared, is_shareable)
      BY <2>1, <2>3 DEF Weighed
    <3> QED
      BY <1>1, <2>2, <3>1, PartWithinWeights DEF SharedOf
  <2>4. parts'[Len(parts')] = part
    BY <1>1, <2>1
  <2> HIDE DEF part
  <2>5. Costs'
    BY <2>1, <2>3, <2>4 DEF Costs
  <2>6. NopsShadow'
    BY <2>1 DEF NopsShadow
  <2>7. Weighed'
    BY <1>7, <2>1 DEF Weighed, MinimizeUnshared
  <2> QED
    BY <2>1, <2>5, <2>6, <2>7
<1>8. CASE ReturnParts
  <2>1. weights' = weights /\ cls' = cls /\ at = "unshared" /\ at' = "idle" /\ UNCHANGED vars
    BY <1>8 DEF ReturnParts
  <2>2. NopsShadow'
    BY <2>1 DEF NopsShadow, vars
  <2>3. Weighed'
    BY <2>1 DEF Weighed
  <2> QED
    BY <2>1, <2>2, <2>3 DEF Costs
<1>9. CASE Stop \/ UNCHANGED share_vars
  <2>1. UNCHANGED vars /\ UNCHANGED sharing_vars
    BY <1>9 DEF Stop, share_vars
  <2>2. NopsShadow'
    BY <2>1 DEF NopsShadow, vars
  <2>3. Weighed'
    BY <2>1 DEF Weighed, sharing_vars
  <2>4. Costs'
    BY <2>1 DEF sharing_vars, Costs
  <2> QED
    BY <2>1, <2>2, <2>3, <2>4 DEF sharing_vars
<1> QED
  BY <1>2, <1>3, <1>4, <1>5, <1>6, <1>7, <1>8, <1>9 DEF ShareNext

LEMMA WeighInvariance == ShareSpec => []WeighInv
<1>1. ShareInit => WeighInv
  <2> SUFFICES ASSUME ShareInit PROVE WeighInv
    OBVIOUS
  <2>1. at = "idle" /\ active = {} /\ weights = <<>> /\ DOMAIN weights = {}
    BY DEF ShareInit
  <2> QED
    BY <2>1, FS_EmptySet DEF WeighInv, Weighed, NopsShadow, Shadows, Costs
<1>2. WeighInv /\ ShareInv /\ [ShareNext]_share_vars => WeighInv'
  BY WeighStepKeeps
<1> QED
  BY <1>1, <1>2, ShareInvariance, PTL DEF ShareSpec

\* Whatever header a rule of an action of weight zero matches, the classifier
\* decides with that action, as it was weighed and after any number of splits.
THEOREM ZeroWeightDecides == ShareSpec => []ZeroWeightUnobstructed
<1>1. WeighInv /\ ShareInv => ZeroWeightUnobstructed
  <2> SUFFICES ASSUME WeighInv, ShareInv, at # "replacing",
                      NEW a \in DOMAIN weights \ {NOP}, weights[a] = 0,
                      NEW h \in Header, NEW i \in DOMAIN cls,
                      cls[i].action = a, Matches(h, cls[i].filter)
               PROVE  DecideAll(cls, h) = a
    BY DEF ZeroWeightUnobstructed
  <2>0. weights # <<>>
    OBVIOUS
  <2>1. cls \in Seq(Rule) /\ Bounded(cls, weights)
    BY <2>0 DEF ShareInv, ShareTypeInv, ShareTypeOK, WeighInv, Weighed
  <2>2. a \in Actions \ {NOP}
    BY <2>1, Positions
  <2>3. Counted(cls, a) = {}
    <3>1. PICK origin \in Seq(Rule) :
            WeightsOf(origin, weights) /\ Counted(cls, a) \subseteq Counted(origin, a)
      BY <2>1, <2>2 DEF Bounded
    <3>2. Counted(origin, a) = {}
      BY <2>2, <3>1, CountedFinite DEF WeightsOf
    <3> QED
      BY <3>1, <3>2
  <2> DEFINE M == Matching(cls, DOMAIN cls, h)
             k == First(M)
  <2>4. M \subseteq Nat /\ M \subseteq DOMAIN cls /\ i \in M
    BY <2>1, Positions DEF Matching
  <2>5. k \in M /\ k <= i
    BY <2>4, FirstIsLeast
  <2>6. k \in DOMAIN cls /\ k \in Nat /\ i \in Nat /\ Matches(h, cls[k].filter)
    BY <2>4, <2>5 DEF Matching
  <2>7. DecideAll(cls, h) = cls[k].action
    BY <2>4 DEF DecideAll, Decide
  <2> HIDE DEF k, M
  <2>8. ASSUME cls[k].action # a PROVE FALSE
    <3>1. k < i
      BY <2>5, <2>6, <2>8
    <3>2. cls[k].filter \in Filter /\ cls[i].filter \in Filter
      BY <2>1, <2>6, Positions
    <3>3. Overlap(cls, k, i)
      BY <2>6, <3>2, CommonHeaderIntersect DEF Overlap
    <3>4. k \in Counted(cls, a)
      BY <2>6, <2>8, <3>1, <3>3 DEF Counted
    <3> QED
      BY <2>3, <3>4
  <2> QED
    BY <2>7, <2>8
<1> QED
  BY <1>1, WeighInvariance, ShareInvariance, PTL

\* The fold that adds up the weights counts their units.
LEMMA SumOfWeights ==
  ASSUME NEW w, NEW S, IsFiniteSet(S), \A x \in S : w[x] \in Nat
  PROVE  MapThenSumSet(LAMBDA a : w[a], S) = Cardinality(Units(w, S))
<1> DEFINE sum == CHOOSE f : Sums(w, S, f)
<1>1. Sums(w, S, sum)
  BY SumsExist
<1>2. MapThenSumSet(LAMBDA a : w[a], S) = sum[S]
  BY DEF MapThenSumSet, MapThenFoldSet, Sums
<1> HIDE DEF sum
<1> QED
  BY <1>1, <1>2, SumCountsUnits

\* The cost of sharing is what the weights say at most, with resolution too:
\* every NOP the shared part keeps has been counted for an action it shares.
THEOREM WeightsBoundNops == ShareSpec => []WeightsBoundCost
<1>1. WeighInv /\ ShareInv => WeightsBoundCost
  <2> SUFFICES ASSUME WeighInv, ShareInv, at = "unshared", weights # <<>>
               PROVE  WeightsBoundCost
    BY DEF WeightsBoundCost
  <2> DEFINE S == (is_shareable \ {NOP}) \cap DOMAIN weights
  <2>1. WithinWeights(parts[Len(parts)], weights, is_shareable)
    BY DEF WeighInv, Costs
  <2>2. IsFiniteSet(S)
    BY FS_Subset DEF WeighInv
  <2>3. \A x \in S : weights[x] \in Nat
    BY DEF ShareInv, ShareTypeInv, ShareTypeOK
  <2>4. MapThenSumSet(LAMBDA a : weights[a], S) = Cardinality(Units(weights, S))
    BY <2>2, <2>3, SumOfWeights
  <2> QED
    BY <2>1, <2>4 DEF WithinWeights, WeightsBoundCost
<1> QED
  BY <1>1, WeighInvariance, ShareInvariance, PTL
=============================================================================
