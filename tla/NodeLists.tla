----------------------------- MODULE NodeLists -----------------------------
(***************************************************************************)
(* nNode and nList: doubly linked lists whose nodes are the clients' own   *)
(* objects.  The three fields of an nList are read as two nodes: head and  *)
(* tail are the succ and pred of one, tail and tailpred of the other, and  *)
(* both share the tail, which is null for ever.                            *)
(*                                                                         *)
(* An assert is a precondition: callers meet it.                           *)
(***************************************************************************)
EXTENDS Naturals, Sequences

CONSTANTS Node, List, Null

HeadEnd(l) == <<"head", l>>     \* (nNode *) &(this->head)
TailEnd(l) == <<"tail", l>>     \* (nNode *) &(this->tail)

HeadEnds == {HeadEnd(l) : l \in List}
TailEnds == {TailEnd(l) : l \in List}
Place    == Node \cup HeadEnds \cup TailEnds

ASSUME ListsAssumption ==
    /\ Null \notin Place
    /\ Node \cap HeadEnds = {}
    /\ Node \cap TailEnds = {}

VARIABLES succ, pred

links == <<succ, pred>>

\* nNode::nNode and nList::nList
Init ==
    /\ succ = [p \in Place |-> IF p \in HeadEnds THEN TailEnd(p[2]) ELSE Null]
    /\ pred = [p \in Place |-> IF p \in TailEnds THEN HeadEnd(p[2]) ELSE Null]

-----------------------------------------------------------------------------
IsLinked(n) == succ[n] # Null

\* Of a linked node; the end of the list reads as null.
GetSucc(p) == IF succ[succ[p]] # Null THEN succ[p] ELSE Null
GetPred(p) == IF pred[pred[p]] # Null THEN pred[p] ELSE Null

GetHead(l) == GetSucc(HeadEnd(l))
GetTail(l) == GetPred(TailEnd(l))

\* Mutant: succ->pred = this is forgotten.
LinkOneWay(n, p, s) ==
    /\ succ' = [succ EXCEPT ![n] = s, ![p] = n]
    /\ pred' = [pred EXCEPT ![n] = p]

\* The four assignments that put n between p and s.
Link(n, p, s) ==
    /\ succ' = [succ EXCEPT ![n] = s, ![p] = n]
    /\ pred' = [pred EXCEPT ![n] = p, ![s] = n]

InsertBefore(n, s) ==
    /\ pred[s] # Null
    /\ ~IsLinked(n)
    /\ Link(n, pred[s], s)

InsertAfter(n, p) ==
    /\ succ[p] # Null
    /\ ~IsLinked(n)
    /\ Link(n, p, succ[p])

\* Mutant: the links of the node itself are not cleared.
RemoveKeeps(n) ==
    /\ IsLinked(n)
    /\ succ' = [succ EXCEPT ![pred[n]] = succ[n]]
    /\ pred' = [pred EXCEPT ![succ[n]] = pred[n]]

Remove(n) ==
    /\ IsLinked(n)
    /\ succ' = [succ EXCEPT ![pred[n]] = succ[n], ![n] = Null]
    /\ pred' = [pred EXCEPT ![succ[n]] = pred[n], ![n] = Null]

AddHead(l, n) == InsertAfter(n, HeadEnd(l))
AddTail(l, n) == InsertBefore(n, TailEnd(l))

\* An empty list is left alone.
RemHead(l) == GetHead(l) # Null /\ Remove(GetHead(l))
RemTail(l) == GetTail(l) # Null /\ Remove(GetTail(l))

Next ==
    \/ \E n, m \in Node : InsertBefore(n, m) \/ InsertAfter(n, m)
    \/ \E n \in Node : Remove(n)
    \/ \E l \in List, n \in Node : AddHead(l, n) \/ AddTail(l, n)
    \/ \E l \in List : RemHead(l) \/ RemTail(l)

Spec == Init /\ [][Next]_links

-----------------------------------------------------------------------------
\* The nodes of a list as a client's loop over GetSucc meets them.
NodesFrom[p \in Place] ==
    IF GetSucc(p) = Null THEN <<>> ELSE <<GetSucc(p)>> \o NodesFrom[GetSucc(p)]

NodesOf(l) == NodesFrom[HeadEnd(l)]

TypeOK ==
    /\ succ \in [Place -> Place \cup {Null}]
    /\ pred \in [Place -> Place \cup {Null}]

\* The two directions agree, whatever the order of insertions and removals: one
\* place follows another exactly when the other precedes it, a node has both
\* links or none, and only the outer sides of the ends are null for ever.
Mirrored ==
    /\ \A p, q \in Place : succ[p] = q <=> pred[q] = p
    /\ \A n \in Node : succ[n] = Null <=> pred[n] = Null
    /\ \A l \in List : /\ pred[HeadEnd(l)] = Null /\ succ[HeadEnd(l)] # Null
                       /\ succ[TailEnd(l)] = Null /\ pred[TailEnd(l)] # Null
=============================================================================
