-------------------------------- MODULE Sharing --------------------------------
(***************************************************************************)
(* Sharing actions between classifiers: weight_action_obstruction and      *)
(* split_shared_unshared (cls/optimizations/sharing.py), with the          *)
(* minimization of both parts step by step.                                *)
(*                                                                         *)
(* The caller weighs and splits one classifier object, any number of       *)
(* times, and may go on with weights from before earlier splits or without *)
(* any.  Weighing changes nothing, splitting replaces entries of the       *)
(* object that was passed.  A part that is returned is the list that was   *)
(* minimized and the positions in it that are left.                        *)
(***************************************************************************)
EXTENDS BooleanMinimization, FiniteSetsExt

CONSTANTS
  Sessions,       \* the classifiers, and whether the caller uses resolution
  Predicates,     \* what is_shareable can be: the actions it holds for
  NopCode,        \* the key -1 of a dict, where None is the key of an entry
  MaxCalls        \* bound on the number of splits

Session == [cls : Seq(Rule), use_resolution : BOOLEAN]

ASSUME SessionsAssumption ==
  /\ Sessions \subseteq Session
  /\ Predicates \subseteq SUBSET Actions
  /\ NopCode \notin Actions
  /\ MaxCalls \in Nat

VARIABLES
  original,      \* what the caller's classifier was at first
  cls,           \* the caller's classifier, of which unshared is an alias
  weights,       \* the dictionary of the last weighing, empty before it
  is_shareable,  \* the argument of the split under way
  shared,        \* the copy
  index,         \* i of the loop over the entries
  parts,         \* every shared part returned
  unshared,      \* the last unshared part returned
  at             \* where the caller is

sharing_vars == <<original, cls, weights, is_shareable, shared, index, parts, unshared, at>>
share_vars == <<sharing_vars, vars>>

-----------------------------------------------------------------------------
(* calc_obstruction_weights.                                               *)

\* Mutant: only earlier rules that cover the whole rule obstruct it.
Obstructing_CoverOnly(a) ==
  {j \in DOMAIN cls : cls[j].action # a
     /\ \E i \in DOMAIN cls : j < i /\ cls[i].action = a
                              /\ Subsums(cls[j].filter, cls[i].filter)}

\* Mutant: the search stops at the first obstructing rule.
Obstructing_FirstOnly(a) ==
  LET before(i) == {j \in DOMAIN cls : j < i /\ cls[j].action # a
                                       /\ Intersect(cls[j].filter, cls[i].filter, Bits)}
  IN  {First(before(i)) : i \in {k \in DOMAIN cls : cls[k].action = a /\ before(k) # {}}}

\* counting_rules[a]: rules of other actions that a rule of a comes after.
Obstructing(a) ==
  {j \in DOMAIN cls : cls[j].action # a
     /\ \E i \in DOMAIN cls : j < i /\ cls[i].action = a
                              /\ Intersect(cls[j].filter, cls[i].filter, Bits)}

\* The native keys are codes, also for a NOP.
Code(a) == IF a = NOP THEN NopCode ELSE a

\* The dictionary: actions of the entries that are no key of the native one
\* get a zero, and None never is.
ObstructionWeights ==
  LET obstructed == {a \in Actions : Obstructing(a) # {}}
      present    == {cls[i].action : i \in DOMAIN cls}
  IN  [k \in {Code(a) : a \in obstructed} \cup present |->
         IF \E a \in obstructed : Code(a) = k
         THEN Cardinality(Obstructing(IF k = NopCode THEN NOP ELSE k))
         ELSE 0]

-----------------------------------------------------------------------------
ShareInit ==
  /\ \E s \in Sessions : cls = s.cls /\ use_resolution = s.use_resolution
  /\ original = cls
  /\ weights = <<>>
  /\ is_shareable = {}
  /\ shared = <<>>
  /\ index = 1
  /\ parts = <<>>
  /\ unshared = [rules |-> <<>>, kept |-> {}]
  /\ at = "idle"
  /\ rules = <<>> /\ active = {} /\ previous_size = 0
  /\ trying = FALSE /\ pc = "done" /\ row = 0 /\ listed = {}

\* weight_action_obstruction.
Weigh ==
  /\ at = "idle"
  /\ Len(parts) < MaxCalls
  /\ weights' = ObstructionWeights
  /\ at' = "weighed"
  /\ UNCHANGED <<original, cls, is_shareable, shared, index, parts, unshared, vars>>

\* A call of split_shared_unshared: shared is a copy of all the entries.
Split ==
  /\ at \in {"idle", "weighed"}
  /\ Len(parts) < MaxCalls
  /\ is_shareable' \in Predicates
  /\ shared' = cls
  /\ index' = 1
  /\ at' = "replacing"
  /\ UNCHANGED <<original, cls, weights, parts, unshared, vars>>

Nop(rule) == [rule EXCEPT !.action = NOP]

\* Mutant: the caller's classifier is left alone.
Replace_CallerKeeps ==
  /\ at = "replacing"
  /\ index \in DOMAIN cls
  /\ IF cls[index].action \in is_shareable
     THEN UNCHANGED <<cls, shared>>
     ELSE shared' = [shared EXCEPT ![index] = Nop(shared[index])] /\ UNCHANGED cls
  /\ index' = index + 1
  /\ UNCHANGED <<original, weights, is_shareable, parts, unshared, at, vars>>

\* An iteration: the entry becomes None in one of the two lists.
Replace ==
  /\ at = "replacing"
  /\ index \in DOMAIN cls
  /\ IF cls[index].action \in is_shareable
     THEN cls' = [cls EXCEPT ![index] = Nop(cls[index])] /\ UNCHANGED shared
     ELSE shared' = [shared EXCEPT ![index] = Nop(shared[index])] /\ UNCHANGED cls
  /\ index' = index + 1
  /\ UNCHANGED <<original, weights, is_shareable, parts, unshared, at, vars>>

\* try_boolean_minimization: a call of perform_boolean_minimization.
StartMinimization(list) ==
  /\ rules' = list
  /\ active' = DOMAIN list
  /\ previous_size' = Len(list)
  /\ trying' = TRUE
  /\ pc' = "loop"
  /\ row' = 0
  /\ listed' = {}
  /\ UNCHANGED use_resolution

MinimizeShared ==
  /\ at = "replacing"
  /\ index > Len(cls)
  /\ StartMinimization(shared)
  /\ at' = "shared"
  /\ UNCHANGED <<original, cls, weights, is_shareable, shared, index, parts, unshared>>

Minimize ==
  /\ at \in {"shared", "unshared"}
  /\ Loop \/ Forward \/ Backward \/ ResolveRow \/ EndResolution
  /\ UNCHANGED sharing_vars

MinimizeUnshared ==
  /\ at = "shared"
  /\ pc = "done"
  /\ parts' = Append(parts, [rules |-> rules, kept |-> active])
  /\ StartMinimization(cls)
  /\ at' = "unshared"
  /\ UNCHANGED <<original, cls, weights, is_shareable, shared, index, unshared>>

ReturnParts ==
  /\ at = "unshared"
  /\ pc = "done"
  /\ unshared' = [rules |-> rules, kept |-> active]
  /\ at' = "idle"
  /\ UNCHANGED <<original, cls, weights, is_shareable, shared, index, parts, vars>>

Stop ==
  /\ at = "idle"
  /\ Len(parts) = MaxCalls
  /\ UNCHANGED share_vars

ShareNext ==
  \/ Weigh \/ Split \/ Replace \/ MinimizeShared \/ Minimize
  \/ MinimizeUnshared \/ ReturnParts \/ Stop

ShareSpec == ShareInit /\ [][ShareNext]_share_vars

-----------------------------------------------------------------------------
Part == [rules : Seq(Rule), kept : SUBSET Nat]

ShareTypeOK ==
  /\ original \in Seq(Rule)
  /\ cls \in Seq(Rule) /\ Len(cls) = Len(original)
  /\ \A k \in DOMAIN weights : k \in Actions \cup {NopCode} /\ weights[k] \in Nat
  /\ is_shareable \in SUBSET Actions
  /\ shared \in Seq(Rule)
  /\ index \in Nat /\ index \in 1 .. Len(cls) + 1
  /\ parts \in Seq(Part)
  /\ unshared \in Part
  /\ at \in {"idle", "weighed", "replacing", "shared", "unshared"}
  /\ TypeOK

(* Properties.                                                             *)

\* Every header is decided as before by exactly one of the shared parts and
\* what is left, after any number of splits with any predicates: the entries
\* of the caller's classifier that one split took away are not in another.
\* The caller's own object decides as the unshared part from then on.
SplitsCompose ==
  at = "idle" /\ parts # <<>> /\ ~ use_resolution =>
    \A h \in Header :
      LET all      == Append(parts, unshared)
          decision == DecideAll(original, h)
          deciding == {p \in DOMAIN all : Decide(all[p].rules, all[p].kept, h) # NOP}
      IN  /\ Cardinality(deciding) = IF decision = NOP THEN 0 ELSE 1
          /\ \A p \in deciding : Decide(all[p].rules, all[p].kept, h) = decision
          /\ DecideAll(cls, h) = Decide(unshared.rules, unshared.kept, h)

\* A header that a rule of an action of weight zero matches is decided by
\* that action: no rule of another one comes first, in the classifier that
\* was weighed or in what any number of splits leave of it.  (The key None is
\* a NOP's, and its zero says nothing.)
ZeroWeightUnobstructed ==
  at # "replacing" =>
    \A a \in DOMAIN weights \ {NOP} : weights[a] = 0 =>
      \A h \in Header :
        LET mine == {k \in DOMAIN cls : cls[k].action = a /\ Matches(h, cls[k].filter)}
        IN  mine # {} => DecideAll(cls, h) = a

\* What the weights are for: the shared part costs at most as many NOP rules
\* as its actions weigh together, also when other actions have been split off
\* since the weighing.
WeightsBoundCost ==
  at = "unshared" /\ weights # <<>> =>
    LET part == parts[Len(parts)]
        nops == {k \in part.kept : part.rules[k].action = NOP}
    IN  Cardinality(nops) <=
          MapThenSumSet(LAMBDA a : weights[a], (is_shareable \ {NOP}) \cap DOMAIN weights)
=============================================================================
