------------------------------ MODULE ChainCover ------------------------------
(***************************************************************************)
(* What try_expand_chain (p4t/opt/expansion_algos.h) promises, whatever    *)
(* the order in which it tries the supports: each covered support is       *)
(* expanded to a member of one chain, within the budget, and no support    *)
(* stops being covered.                                                    *)
(***************************************************************************)
EXTENDS Integers

CONSTANT Size(_)   \* the number of bits of a set

VARIABLES
  supports,    \* the supports, {} before the call
  max_bits,    \* the number of bits each may be expanded by
  cover        \* what each support covered so far is expanded to

vars == <<supports, max_bits, cover>>

IsCover ==
  /\ DOMAIN cover \subseteq supports
  /\ \A s, t \in DOMAIN cover : cover[s] \subseteq cover[t] \/ cover[t] \subseteq cover[s]
  /\ \A s \in DOMAIN cover :
       s \subseteq cover[s] /\ Size(cover[s] \ s) <= max_bits

Init == IsCover

\* The call: any chain of the supports is covered, by itself.
Begin ==
  /\ supports = {}
  /\ IsCover'
  /\ \A s \in DOMAIN cover' : cover'[s] = s

\* Other members and other expansions, for a superset of the supports.
Extend ==
  /\ DOMAIN cover \subseteq DOMAIN cover'
  /\ IsCover'
  /\ UNCHANGED <<supports, max_bits>>

Next == Begin \/ Extend

Spec == Init /\ [][Next]_vars
=============================================================================
