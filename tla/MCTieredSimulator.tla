-------------------------- MODULE MCTieredSimulator --------------------------
EXTENDS TieredSimulator

KeySymmetry == Permutations(Key)
==============================================================================
