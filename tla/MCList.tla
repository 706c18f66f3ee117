-------------------------------- MODULE MCList --------------------------------
(* Small instances of List for TLC.                                        *)
EXTENDS List, TLC

Interchangeable == Permutations(Heads) \cup Permutations(Nodes)
=============================================================================
