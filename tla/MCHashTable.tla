---------------------------- MODULE MCHashTable ----------------------------
(* A table of two lists and one list of the client's own; two of the three *)
(* names share a bucket.                                                   *)
EXTENDS HashTable, TLC

CONSTANTS n1, n2, n3, n4

\* No property mentions a node, and none is a liveness property.
NodeSymmetry == Permutations(Node)

MCName == {<<1>>, <<2>>, <<1, 1>>}
=============================================================================
