------------------------------ MODULE PoolList ------------------------------
(***************************************************************************)
(* CList: a list of elements whose nodes come from a CMemoryPoolFactory of *)
(* its own.  Nodes are the objects of MemoryPool; the list works on three  *)
(* things at once, the links forward, the links back and the pool.         *)
(*                                                                         *)
(* Callers name indices that are there; the calls that would still follow  *)
(* a null pointer (InsertpAfter the first of several, DeleteAt the last    *)
(* but one) end the program and are left out.                              *)
(***************************************************************************)
EXTENDS MemoryPool

Seqs == INSTANCE SequencesExt

CONSTANTS
    Element,
    BlockSize,      \* dwBlockSize
    MaxCount        \* bound: the nodes of the list

ASSUME ListAssumption == BlockSize \in Nat \ {0} /\ MaxCount \in Nat

VARIABLES
    nodePool,       \* m_pNodePool: whether there is a list, whose the pool then is
    list,           \* m_pHead, m_pTail, m_nCount, and the nodes of the list
    rest,           \* DeleteAll: the node it has come to, Nil when it is not running
    elements,       \* history: what a sequence holds after the same calls
    skewed          \* history: InsertpAfter has put a node between two others

listVars == <<nodePool, list, rest, elements, skewed>>

Nil == <<0, 0>>

NoList == [head |-> Nil, tail |-> Nil, count |-> 0, nodes |-> <<>>]

ListInit ==
    /\ nodePool = FALSE
    /\ list = NoList
    /\ rest = Nil
    /\ elements = <<>>
    /\ skewed = FALSE

-----------------------------------------------------------------------------
(* What the calls make of list l, with a new node p or a node p to delete. *)

GetNextPos(l, p) == l.nodes[p].next
GetPrevPos(l, p) == l.nodes[p].prev
GetAtPos(l, p)   == l.nodes[p].element

GetIndexPos(l, index) ==
    LET Step[i \in 0 .. index] == IF i = 0 THEN l.head ELSE GetNextPos(l, Step[i - 1])
    IN Step[index]

WithNode(l, p, e, prev, next) ==
    LET new == [element |-> e, prev |-> prev, next |-> next] IN
    [l EXCEPT !.count = @ + 1, !.nodes = [q \in DOMAIN @ \cup {p} |-> IF q = p THEN new ELSE @[q]]]

WithoutNode(l, p) ==
    [l EXCEPT !.count = @ - 1, !.nodes = [q \in DOMAIN @ \ {p} |-> @[q]]]

SetPrev(l, p, q) == [l EXCEPT !.nodes[p].prev = q]
SetNext(l, p, q) == [l EXCEPT !.nodes[p].next = q]

AddedHead(l, p, e) ==
    LET new == [WithNode(l, p, e, Nil, l.head) EXCEPT !.head = p] IN
    IF l.head = Nil THEN [new EXCEPT !.tail = p] ELSE SetPrev(new, l.head, p)

\* Mutant: the new tail does not know the node before it.
AddedTailUnlinked(l, p, e) ==
    LET new == [WithNode(l, p, e, Nil, Nil) EXCEPT !.tail = p] IN
    IF l.tail = Nil THEN [new EXCEPT !.head = p] ELSE SetNext(new, l.tail, p)

AddedTail(l, p, e) ==
    LET new == [WithNode(l, p, e, l.tail, Nil) EXCEPT !.tail = p] IN
    IF l.tail = Nil THEN [new EXCEPT !.head = p] ELSE SetNext(new, l.tail, p)

AddedBefore(l, p, e, index) ==
    LET after   == GetIndexPos(l, index - 1)
        current == GetIndexPos(l, index)
        new     == WithNode(l, p, e, GetPrevPos(l, current), current)
    IN SetNext(SetPrev(new, current, p), after, p)

\* The node before the place, not the one behind the new node, is told to look back to it.
AddedAfter(l, p, e, index) ==
    LET after   == GetIndexPos(l, index - 1)
        current == GetIndexPos(l, index)
        new     == WithNode(l, p, e, current, GetNextPos(l, current))
    IN SetNext(SetPrev(new, after, p), current, p)

DeletedHead(l) ==
    IF l.head = l.tail THEN NoList
    ELSE LET h == GetNextPos(l, l.head) IN
         WithoutNode(SetPrev([l EXCEPT !.head = h], h, Nil), l.head)

\* The node before the tail is looked for from the head, whatever the links back say.
DeletedTail(l) ==
    IF l.head = l.tail THEN NoList
    ELSE LET after   == GetIndexPos(l, l.count - 2)
             current == GetIndexPos(l, l.count - 1)
         IN WithoutNode(SetNext([l EXCEPT !.tail = after], after, Nil), current)

\* A node that is neither the first nor the last, with the one before it.
DeletedBetween(l, after, current) ==
    WithoutNode(SetNext(SetPrev(l, GetNextPos(l, current), after), after, GetNextPos(l, current)),
                current)

-----------------------------------------------------------------------------
\* CList: the pool is made with the list.
Construct ==
    /\ bands = <<>> /\ nodePool' = TRUE
    /\ bands' = <<NewBand(1, BlockSize)>>
    /\ free' = 1
    /\ extend' = BlockSize \div 2 + 1
    /\ UNCHANGED <<held, failed, inits, list, rest, elements, skewed>>

Idle == nodePool /\ rest = Nil

\* A call that adds a node: new gives the list with it, s the sequence.
Adds(new(_), s) ==
    /\ Idle
    /\ list.count < MaxCount
    /\ AllocCurrent \/ AllocExtends \/ AllocFromNewer
    /\ \E p \in held' \ held : list' = new(p)
    /\ elements' = s
    /\ UNCHANGED <<rest, nodePool>>

AddHead(e) ==
    /\ Adds(LAMBDA p : AddedHead(list, p, e), <<e>> \o elements)
    /\ UNCHANGED skewed

AddTail(e) ==
    /\ Adds(LAMBDA p : AddedTail(list, p, e), Append(elements, e))
    /\ UNCHANGED skewed

InsertBefore(e, index) ==
    /\ index \in 1 .. list.count - 1            \* before the first: AddHead
    /\ Adds(LAMBDA p : AddedBefore(list, p, e, index), Seqs!InsertAt(elements, index + 1, e))
    /\ UNCHANGED skewed

InsertpAfter(e, index) ==
    /\ index \in 1 .. list.count - 2            \* after the last: AddTail
    /\ Adds(LAMBDA p : AddedAfter(list, p, e, index), Seqs!InsertAt(elements, index + 2, e))
    /\ skewed' = TRUE

\* A call that frees node p.
Deletes(p, l, s) ==
    /\ Idle
    /\ FreeCurrent(p) \/ FreeToOlder(p)
    /\ list' = l
    /\ elements' = s
    /\ UNCHANGED <<rest, skewed, nodePool>>

DeleteHead ==
    /\ list.head # Nil
    /\ Deletes(list.head, DeletedHead(list), Tail(elements))

DeleteTail ==
    /\ list.tail # Nil
    /\ Deletes(list.tail, DeletedTail(list), Seqs!Front(elements))

\* DeletePos of the node of an index (the first: DeleteHead, the last: DeleteTail).
DeletePos(index) ==
    /\ index \in 1 .. list.count - 2
    /\ LET p == GetIndexPos(list, index) IN
       Deletes(p, DeletedBetween(list, GetIndexPos(list, index - 1), p),
               Seqs!RemoveAt(elements, index + 1))

\* DeleteAt starts at the second node and still takes index steps: it deletes the element
\* behind the one it was asked for.
DeleteAt(index) ==
    /\ index \in 1 .. list.count - 3
    /\ LET p == GetIndexPos(list, index + 1) IN
       Deletes(p, DeletedBetween(list, GetIndexPos(list, index), p),
               Seqs!RemoveAt(elements, index + 2))

\* DeleteAll, node by node.
DeleteAllBegins ==
    /\ Idle
    /\ list.head # Nil
    /\ rest' = list.head
    /\ UNCHANGED <<vars, list, elements, skewed, nodePool>>

DeleteAllStep ==
    /\ rest # Nil
    /\ FreeCurrent(rest) \/ FreeToOlder(rest)
    /\ rest' = GetNextPos(list, rest)
    /\ IF rest' # Nil THEN UNCHANGED <<list, elements, skewed>>
       ELSE list' = NoList /\ elements' = <<>> /\ skewed' = FALSE
    /\ UNCHANGED nodePool

\* The destructor, DeleteAll done.
Destruct ==
    /\ Idle /\ list.head = Nil
    /\ Release
    /\ nodePool' = FALSE
    /\ UNCHANGED <<list, rest, elements, skewed>>

Index == 0 .. Cardinality(AllObjects)

ListNext ==
    \/ Construct \/ DeleteHead \/ DeleteTail \/ DeleteAllBegins \/ DeleteAllStep \/ Destruct
    \/ \E index \in Index : DeletePos(index) \/ DeleteAt(index)
    \/ \E e \in Element :
          \/ AddHead(e) \/ AddTail(e)
          \/ \E index \in Index : InsertBefore(e, index) \/ InsertpAfter(e, index)

ListSpec == Init /\ ListInit /\ [][ListNext]_<<vars, listVars>>

-----------------------------------------------------------------------------
Nodes == [i \in 1 .. list.count |-> GetIndexPos(list, i - 1)]

\* Forward, the list is the sequence of its calls, and ends where m_pTail says.  (Of
\* DeleteAt that is the sequence without the element behind the one asked for.)  It reads
\* the same backward, until InsertpAfter has put a node between two others.
ListHolds ==
    /\ Len(elements) = list.count
    /\ \A i \in 1 .. list.count : GetAtPos(list, Nodes[i]) = elements[i]
    /\ IF list.count = 0 THEN list.head = Nil /\ list.tail = Nil
       ELSE list.tail = Nodes[list.count] /\ GetNextPos(list, list.tail) = Nil
    /\ ~skewed => \A i \in 1 .. list.count :
                  GetPrevPos(list, Nodes[i]) = IF i = 1 THEN Nil ELSE Nodes[i - 1]

\* No node is leaked and none is used after it was freed: what the pool has handed out is
\* what is in the list, or what is left of it while it is deleted.
NodesHeld ==
    held = IF rest = Nil THEN Seqs!ToSet(Nodes)
           ELSE {Nodes[i] : i \in {j \in DOMAIN Nodes :
                    \E k \in 1 .. j : Nodes[k] = rest}}

\* The list is that of its calls, forward and backward, and its nodes are what its pool has
\* handed out.
ListSound == ListHolds /\ (nodePool => NodesHeld)
=============================================================================
