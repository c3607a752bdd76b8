----------------------------- MODULE MCSynthesis -----------------------------
EXTENDS Synthesis

\* The proportions of the shipped budgets, with one that is not smaller than the first.
Chars == {1, 2, 4}
=============================================================================
