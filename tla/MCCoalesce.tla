----------------------------- MODULE MCCoalesce -----------------------------
(* Model values and symmetry for the runs of Coalesce. *)
EXTENDS Coalesce, TLC

CONSTANTS search, page

\* Both keys live in namespaces of their own, or share one.
Apart(k) == k
Together(k) == search

Symmetry == Permutations(Task) \union Permutations(LockId)
=============================================================================
