------------------------------- MODULE Shared -------------------------------
(***************************************************************************)
(* What the component modules that are checked side by side have in common. *)
(***************************************************************************)
EXTENDS Naturals, Sequences, FiniteSets

CONSTANT None   \* a null reference

\* Each member of S appears in at most one of the sets f[x].
Disjoint(f) == \A x, y \in DOMAIN f : x # y => f[x] \cap f[y] = {}

Least(S) == CHOOSE x \in S : \A y \in S : x <= y

Greatest(S) == CHOOSE x \in S : \A y \in S : y <= x
=============================================================================
