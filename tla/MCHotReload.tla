----------------------------- MODULE MCHotReload -----------------------------
EXTENDS HotReload, TLC

CONSTANTS w1, w2

ThreadSymmetry == Permutations({w1, w2})

=============================================================================
