----------------------------- MODULE MCStorage ------------------------------
EXTENDS Storage, TLC

Symmetry == Permutations(Thread) \union Permutations(Provider) \union Permutations(Preset)
=============================================================================
