------------------------------ MODULE Expansion ------------------------------
(***************************************************************************)
(* try_expand_chain (p4t/opt/expansion_algos.cpp): supports outside a      *)
(* chain are tried in turn, and one is taken in by making it, and a member *)
(* of the chain with all that was expanded to it, exact on more bits.      *)
(*                                                                         *)
(* The chain is a sequence from the smallest support to the largest; the   *)
(* same support may be in it twice.  The map bits_expanded is total, with  *)
(* the zero that operator[] creates for a key it does not hold.            *)
(***************************************************************************)
EXTENDS Groups, Functions

Seqs == INSTANCE SequencesExt

\* The bits of the classifier whose supports are chained.
Coordinates == 1 .. Width

VARIABLES
  unique_supports, weights, max_bits,    \* the arguments, with the chain
  chain,                                 \* changed in place
  expansions,                            \* what each support is expanded to
  bits_expanded,                         \* by how many bits, for members of the chain
  non_chain,                             \* non_chain_indices still to be tried
  phase                                  \* where the function is

expand_args == <<unique_supports, weights, max_bits>>
expand_vars == <<expand_args, chain, expansions, bits_expanded, non_chain, phase>>

-----------------------------------------------------------------------------
\* A call, with the maps and the indices set up.
ExpandCall(supports, support_weights, bits, ch) ==
  /\ unique_supports' = supports
  /\ weights' = support_weights
  /\ max_bits' = bits
  /\ chain' = ch
  /\ expansions' = [s \in supports |-> s]
  /\ bits_expanded' = [s \in SUBSET Coordinates |-> 0]
  /\ non_chain' = supports \ Range(ch)
  /\ phase' = "expand"

\* The sort by weight leaves the order of equal weights open.
Candidates ==
  {s \in non_chain : \A t \in non_chain : weights[t] <= weights[s]}

\* Members of the chain that do not hold all the bits of the candidate.
Blocking(candidate) == {p \in DOMAIN chain : ~ candidate \subseteq chain[p]}

\* The last of them.
InsertionPoint(candidate, p) ==
  p \in Blocking(candidate) /\ \A q \in Blocking(candidate) : q <= p

\* std::max
Larger(m, n) == IF m < n THEN n ELSE m

\* Mutant: what is expanded to the member already is not counted.
BitsToExpand_MemberOnly(candidate, member) ==
  LET sunion == candidate \cup member
  IN  Larger(Cardinality(sunion) - Cardinality(candidate),
             Cardinality(sunion) - Cardinality(member))

\* bits_to_expand, for the candidate and for the worst of what is expanded
\* to the member.
BitsToExpand(candidate, member) ==
  LET sunion == candidate \cup member
  IN  Larger(Cardinality(sunion) - Cardinality(candidate),
             Cardinality(sunion) - Cardinality(member) + bits_expanded[member])

\* Mutant: what was expanded to the member stays expanded to it.
ExpandTo_MemberOnly(candidate, member, sunion) ==
  expansions' = [s \in DOMAIN expansions |->
                   IF s \in {candidate, member} THEN sunion ELSE expansions[s]]

\* expansions[candidate] and those of get_preimage(expansions, member).
ExpandTo(candidate, member, sunion) ==
  expansions' = [s \in DOMAIN expansions |->
                   IF s = candidate \/ expansions[s] = member THEN sunion
                   ELSE expansions[s]]

\* On to the next index.
Tried(candidate) ==
  /\ non_chain' = non_chain \ {candidate}
  /\ UNCHANGED <<expand_args, phase>>

\* The candidate is part of every member: it goes before the first.
Prepend(candidate) ==
  /\ Blocking(candidate) = {}
  /\ chain' = <<candidate>> \o chain
  /\ Tried(candidate)
  /\ UNCHANGED <<expansions, bits_expanded>>

\* Too many bits.
Skip(candidate, p) ==
  /\ InsertionPoint(candidate, p)
  /\ BitsToExpand(candidate, chain[p]) > max_bits
  /\ Tried(candidate)
  /\ UNCHANGED <<chain, expansions, bits_expanded>>

\* The union is the member after p, which replaces p.
Merge(candidate, p) ==
  LET sunion == candidate \cup chain[p]
  IN  /\ InsertionPoint(candidate, p)
      /\ BitsToExpand(candidate, chain[p]) <= max_bits
      /\ p < Len(chain) /\ chain[p + 1] = sunion
      /\ ExpandTo(candidate, chain[p], sunion)
      /\ bits_expanded' = [bits_expanded EXCEPT
           ![sunion] = Larger(bits_expanded[sunion], BitsToExpand(candidate, chain[p]))]
      /\ chain' = Seqs!RemoveAt(chain, p)
      /\ Tried(candidate)

\* The union takes the place of p.
Widen(candidate, p) ==
  LET sunion == candidate \cup chain[p]
  IN  /\ InsertionPoint(candidate, p)
      /\ BitsToExpand(candidate, chain[p]) <= max_bits
      /\ ~ (p < Len(chain) /\ chain[p + 1] = sunion)
      /\ ExpandTo(candidate, chain[p], sunion)
      /\ bits_expanded' = [bits_expanded EXCEPT
           ![sunion] = BitsToExpand(candidate, chain[p])]
      /\ chain' = [chain EXCEPT ![p] = sunion]
      /\ Tried(candidate)

Try ==
  /\ phase = "expand"
  /\ \E candidate \in Candidates :
       \/ Prepend(candidate)
       \/ \E p \in DOMAIN chain :
            Skip(candidate, p) \/ Merge(candidate, p) \/ Widen(candidate, p)

ExpandReturn ==
  /\ phase = "expand"
  /\ non_chain = {}
  /\ phase' = "expanded"
  /\ UNCHANGED <<expand_args, chain, expansions, bits_expanded, non_chain>>

ExpandNext == Try \/ ExpandReturn

-----------------------------------------------------------------------------
Supports == SUBSET Coordinates

ExpandTypeOK ==
  /\ unique_supports \subseteq Supports
  /\ weights \in [unique_supports -> Nat]
  /\ max_bits \in Nat
  /\ chain \in Seq(Supports)
  /\ expansions \in [unique_supports -> Supports]
  /\ bits_expanded \in [Supports -> Nat]
  /\ non_chain \subseteq unique_supports

(* Properties.                                                             *)

\* What has become of the chain is a chain, however its members were
\* widened, merged and put before the others: _chain2bits takes it as one.
ChainMonotone ==
  \A p, q \in DOMAIN chain : p < q => chain[p] \subseteq chain[q]

\* bits_expanded is never less than what some support expanded to a member
\* would cost, although it is overwritten when a union takes a place and not
\* when a support equal to an earlier union is put before the first member.
CacheSound ==
  \A s \in unique_supports :
    expansions[s] \in Range(chain) =>
      Cardinality(expansions[s]) - Cardinality(s) <= bits_expanded[expansions[s]]

\* The supports whose expansion is in the chain: those whose rules
\* min_bmgr1_w_expansions returns.
Covered == {s \in unique_supports : expansions[s] \in Range(chain)}

Abstract ==
  INSTANCE ChainCover WITH
    Size <- Cardinality, supports <- unique_supports, cover <- [s \in Covered |-> expansions[s]]

\* Whatever is tried, and in whatever order, the covered supports stay
\* covered, each within the budget, by one chain.
RefinesChainCover == Abstract!Spec
=============================================================================
