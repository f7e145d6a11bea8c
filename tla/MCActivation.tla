---------------------------- MODULE MCActivation ----------------------------
EXTENDS Activation, TLC

ClientPortSymmetry == Permutations(Client) \cup Permutations(Port)
=============================================================================
