------------------------------- MODULE MCPlist -------------------------------
(* Small instances of Plist for TLC.                                       *)
EXTENDS Plist, TLC

Interchangeable == Permutations(Heads) \cup Permutations(Nodes)
=============================================================================
