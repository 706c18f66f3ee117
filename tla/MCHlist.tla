-------------------------------- MODULE MCHlist --------------------------------
EXTENDS Hlist, TLC

\* Neither a head nor a node is singled out.
Interchangeable == Permutations(Heads) \cup Permutations(Nodes)
=============================================================================
