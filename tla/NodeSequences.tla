--------------------------- MODULE NodeSequences ---------------------------
(***************************************************************************)
(* What nList promises: each list is a sequence of nodes, a node is in one *)
(* list at most and there once, it joins anywhere and leaves from anywhere *)
(* and the other nodes keep their order.                                   *)
(***************************************************************************)
EXTENDS Naturals, Sequences, SequencesExt

CONSTANTS Node, List

VARIABLE nodes      \* of each list, head first

Init == nodes = [l \in List |-> <<>>]

Join(n, l) ==
    /\ \A k \in List : n \notin ToSet(nodes[k])
    /\ \E i \in 1 .. Len(nodes[l]) + 1 : nodes' = [nodes EXCEPT ![l] = InsertAt(@, i, n)]

Leave(n, l) ==
    \E i \in DOMAIN nodes[l] :
        nodes[l][i] = n /\ nodes' = [nodes EXCEPT ![l] = RemoveAt(@, i)]

Next == \E n \in Node, l \in List : Join(n, l) \/ Leave(n, l)

Spec == Init /\ [][Next]_nodes
=============================================================================
