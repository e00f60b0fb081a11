---------------------------- MODULE UnitClosure ----------------------------
(***************************************************************************)
(* What selecting members of an archive promises (runtime/gcc/copy_link.h  *)
(* and doc/gcc_space.md): units are added only for a strong use that no    *)
(* unit so far defines, in any order, until there is no such member or the *)
(* limit of units is reached.  Which names a unit defines and uses is left *)
(* to the parameters.                                                      *)
(***************************************************************************)
EXTENDS Naturals, Sequences, FiniteSets

CONSTANTS Defines(_),    \* the names a unit defines for other units
          Needs(_),      \* the names it uses and does not declare weak
          Roots(_),      \* what the explicit units alone resolve, besides
          Start0,        \* the names wanted from the beginning
          Limit          \* how many units can be linked

VARIABLES chosen,   \* the units, the explicit ones first
          spare,    \* the members that are not chosen, as a function
          selected  \* whether the selection is over

closureVars == <<chosen, spare, selected>>

Resolved == (UNION {Defines(chosen[i]) : i \in DOMAIN chosen}) \cup Roots(chosen)
Wanted   == (Start0 \cup (UNION {Needs(chosen[i]) : i \in DOMAIN chosen})) \ Resolved

Useful(m) == m \in DOMAIN spare /\ Defines(spare[m]) \cap Wanted # {}

Take(m) == /\ ~selected /\ Len(chosen) < Limit
           /\ Useful(m)
           /\ chosen' = Append(chosen, spare[m])
           /\ spare' = [k \in DOMAIN spare \ {m} |-> spare[k]]
           /\ UNCHANGED selected

Finish == /\ ~selected /\ selected' = TRUE
          /\ ~\E m \in DOMAIN spare : Useful(m)
          /\ UNCHANGED <<chosen, spare>>

Next == (\E m \in DOMAIN spare : Take(m)) \/ Finish
Spec == ~selected /\ [][Next]_closureVars
=============================================================================
