----------------------------- MODULE HashTable -----------------------------
(***************************************************************************)
(* nStrNode, nStrList and nHashTable over NodeLists: named nodes filed at  *)
(* the head of the list their name hashes to.  The table keeps its lists   *)
(* private but its nodes are public: clients rename them, take them out    *)
(* and put others next to them.                                            *)
(*                                                                         *)
(* Nodes are given names before they are filed and no name is empty (Find  *)
(* asserts it).  Names are short: the sum of hash stays within an int, or  *)
(* its remainder could be negative, which TableAssumption excludes.        *)
(***************************************************************************)
EXTENDS NodeLists

SeqExt == INSTANCE SequencesExt     \* it has a Remove of its own

CONSTANTS
    Name,           \* sequences of character codes
    htable_size

Bucket == 0 .. htable_size - 1

hash(str) == SeqExt!FoldLeftDomain(LAMBDA i, j : i + str[j] * j, 0, str) % htable_size

ASSUME TableAssumption ==
    /\ Bucket \subseteq List        \* the rest are the clients' own nStrLists
    /\ \A str \in Name : hash(str) \in Bucket

VARIABLES
    name,
    filed           \* history: the nodes Add has filed, newest first, until taken out or renamed

tableVars == <<succ, pred, name, filed>>

\* nStrList::Find
Search(l, str) ==
    LET From[n \in Node \cup {Null}] ==
            IF n = Null \/ name[n] = str THEN n ELSE From[GetSucc(n)]
    IN From[GetHead(l)]

Find(str) == Search(hash(str), str)

TableInit ==
    /\ Init
    /\ name \in [Node -> Name]
    /\ filed = <<>>

-----------------------------------------------------------------------------
Forget(n) ==
    \/ \E i \in DOMAIN filed : filed[i] = n /\ filed' = SeqExt!RemoveAt(filed, i)
    \/ (\A i \in DOMAIN filed : filed[i] # n) /\ UNCHANGED filed

\* Mutant: a node is filed at the tail.
AddLast(n) ==
    /\ AddTail(hash(name[n]), n)
    /\ filed' = <<n>> \o filed
    /\ UNCHANGED name

Add(n) ==
    /\ AddHead(hash(name[n]), n)
    /\ filed' = <<n>> \o filed
    /\ UNCHANGED name

SetName(n, str) ==
    /\ name[n] # str
    /\ name' = [name EXCEPT ![n] = str]
    /\ Forget(n)
    /\ UNCHANGED links

TakeOut(n) == Remove(n) /\ Forget(n) /\ UNCHANGED name

\* Next to a node of the table or of another list.
PutBeside(n, m) == (InsertBefore(n, m) \/ InsertAfter(n, m)) /\ UNCHANGED <<name, filed>>

OwnList(l, n) == (AddHead(l, n) \/ AddTail(l, n)) /\ UNCHANGED <<name, filed>>

ShortenOwnList(l) == (RemHead(l) \/ RemTail(l)) /\ UNCHANGED <<name, filed>>

TableNext ==
    \/ \E n \in Node :
          Add(n) \/ TakeOut(n) \/ (\E str \in Name : SetName(n, str)) \/ (\E m \in Node : PutBeside(n, m))
    \/ \E l \in List \ Bucket : ShortenOwnList(l) \/ (\E n \in Node : OwnList(l, n))

TableSpec == TableInit /\ [][TableNext]_tableVars

-----------------------------------------------------------------------------
Abstract == INSTANCE NodeSequences WITH nodes <- [l \in List |-> NodesOf(l)]

\* The links implement sequences of nodes: whatever the calls, no list loses a
\* node, shares one with another list or meets it twice, and a call moves no
\* other node.
ListsAreSequences == Abstract!Spec

\* A node that was filed and neither renamed nor taken out is found by its name,
\* unless a newer one of that name hides it; renamed nodes and nodes put beside
\* it by hand may hide it too, never lose it.
FindsNewest ==
    \A str \in Name :
        LET named == {i \in DOMAIN filed : name[filed[i]] = str}
            found == Find(str)
        IN named # {} => /\ found # Null
                         /\ name[found] = str
                         /\ \A i, j \in named : filed[i] = found => i <= j
=============================================================================
