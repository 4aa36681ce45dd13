-------------------------- MODULE HashTableProofs --------------------------
(*************************************************************************)
(* The links of nNode and nList and the table above them, for any number *)
(* of nodes and lists.  TypeOK and Mirrored are inductive together: both *)
(* insertions are Link between two neighbours, and n is none of the two  *)
(* because it has no links and they have.                                *)
(*                                                                       *)
(* Behind the links are sequences: Represents(sq) says that the links    *)
(* lead through sq[l] from head to tail, that no node is met twice and   *)
(* that a node with links is met.  A step of the links is a Put into one *)
(* of the sequences or a Drop from it, and a client's loop over GetSucc  *)
(* meets them, so the lists implement NodeSequences.                     *)
(*                                                                       *)
(* The table adds that each filed node is met in the list its name       *)
(* hashes to, before the nodes filed earlier, and Find returns the first *)
(* of its name.                                                          *)
(*************************************************************************)
EXTENDS HashTable, SequenceTheorems, WellFoundedInduction, TLAPS

IInv == TypeOK /\ Mirrored

\* The ends are places, are no nodes and differ from each other.
LEMMA Ends ==
    ASSUME NEW l \in List
    PROVE  /\ HeadEnd(l) \in Place /\ TailEnd(l) \in Place
           /\ HeadEnd(l) \notin Node /\ TailEnd(l) \notin Node
           /\ HeadEnd(l) \in HeadEnds /\ TailEnd(l) \in TailEnds
           /\ HeadEnd(l) \notin TailEnds /\ TailEnd(l) \notin HeadEnds
           /\ HeadEnd(l)[2] = l /\ TailEnd(l)[2] = l
BY ListsAssumption DEF HeadEnd, TailEnd, HeadEnds, TailEnds, Place

\* The constructors establish the links of empty lists.
LEMMA InitMirrored == Init => IInv
<1> SUFFICES ASSUME Init PROVE IInv
  OBVIOUS
<1> USE ListsAssumption
<1>1. \A p \in HeadEnds : \E l \in List : p = HeadEnd(l)
  BY DEF HeadEnds
<1>2. \A p \in TailEnds : \E l \in List : p = TailEnd(l)
  BY DEF TailEnds
<1>3. \A l \in List : succ[HeadEnd(l)] = TailEnd(l) /\ pred[TailEnd(l)] = HeadEnd(l)
  BY Ends DEF Init
<1>4. \A p \in Place : /\ p \notin HeadEnds => succ[p] = Null
                       /\ p \notin TailEnds => pred[p] = Null
  BY DEF Init
<1>5. TypeOK
  BY <1>1, <1>2, Ends DEF Init, TypeOK
<1>6. \A p, q \in Place : succ[p] = q <=> pred[q] = p
  <2> SUFFICES ASSUME NEW p \in Place, NEW q \in Place PROVE succ[p] = q <=> pred[q] = p
    OBVIOUS
  <2>1. ASSUME succ[p] = q PROVE pred[q] = p
    BY <2>1, <1>1, <1>3, <1>4
  <2>2. ASSUME pred[q] = p PROVE succ[p] = q
    BY <2>2, <1>2, <1>3, <1>4
  <2> QED
    BY <2>1, <2>2
<1>7. \A n \in Node : succ[n] = Null /\ pred[n] = Null
  BY <1>4 DEF Place
<1>8. \A l \in List : /\ pred[HeadEnd(l)] = Null /\ succ[HeadEnd(l)] # Null
                      /\ succ[TailEnd(l)] = Null /\ pred[TailEnd(l)] # Null
  BY <1>3, <1>4, Ends
<1> QED
  BY <1>5, <1>6, <1>7, <1>8 DEF IInv, Mirrored

\* An unlinked node linked between two neighbours.
LEMMA LinkMirrored ==
    ASSUME IInv, NEW n \in Node, NEW p \in Place, NEW s \in Place,
           succ[n] = Null, succ[p] = s, Link(n, p, s)
    PROVE  IInv'
<1> USE ListsAssumption DEF IInv
<1>1. n \in Place /\ pred[n] = Null /\ pred[s] = p
  BY DEF Place, Mirrored
<1>2. n # p /\ n # s
  BY <1>1
<1>3. /\ succ' = [succ EXCEPT ![n] = s, ![p] = n]
      /\ pred' = [pred EXCEPT ![n] = p, ![s] = n]
  BY DEF Link
<1>4. /\ succ'[n] = s /\ succ'[p] = n /\ \A q \in Place \ {n, p} : succ'[q] = succ[q]
      /\ pred'[n] = p /\ pred'[s] = n /\ \A q \in Place \ {n, s} : pred'[q] = pred[q]
  BY <1>1, <1>2, <1>3 DEF TypeOK
<1>5. TypeOK'
  BY <1>1, <1>3 DEF TypeOK
<1>6. \A q, r \in Place : succ'[q] = r <=> pred'[r] = q
  BY <1>1, <1>2, <1>4 DEF Mirrored
<1>7. \A m \in Node : succ'[m] = Null <=> pred'[m] = Null
  BY <1>1, <1>2, <1>4 DEF Mirrored, Place
<1>8. \A l \in List : /\ pred'[HeadEnd(l)] = Null /\ succ'[HeadEnd(l)] # Null
                      /\ succ'[TailEnd(l)] = Null /\ pred'[TailEnd(l)] # Null
  BY <1>1, <1>2, <1>4, Ends DEF Mirrored
<1> QED
  BY <1>5, <1>6, <1>7, <1>8 DEF Mirrored

\* A linked node taken out: its neighbours become each other's.
LEMMA RemoveMirrored ==
    ASSUME IInv, NEW n \in Node, Remove(n)
    PROVE  IInv'
<1> USE ListsAssumption DEF IInv
<1> DEFINE p == pred[n]
           s == succ[n]
<1>1. n \in Place /\ p \in Place /\ s \in Place /\ succ[p] = n /\ pred[s] = n
  BY DEF Place, Mirrored, TypeOK, Remove, IsLinked
<1>2. /\ succ' = [succ EXCEPT ![p] = s, ![n] = Null]
      /\ pred' = [pred EXCEPT ![s] = p, ![n] = Null]
  BY DEF Remove
<1>3. TypeOK'
  BY <1>1, <1>2 DEF TypeOK
<1>4. CASE n = p
  <2>1. s = n
    BY <1>1, <1>4
  <2>2. /\ succ'[n] = Null /\ pred'[n] = Null
        /\ \A q \in Place \ {n} : succ'[q] = succ[q] /\ pred'[q] = pred[q]
    BY <1>1, <1>2, <1>4, <2>1 DEF TypeOK
  <2> QED
    BY <1>1, <1>3, <1>4, <2>1, <2>2, Ends DEF Mirrored, Place
<1>5. CASE n # p
  <2>1. s # n
    BY <1>1, <1>5 DEF Mirrored
  <2>2. /\ succ'[p] = s /\ succ'[n] = Null /\ \A q \in Place \ {n, p} : succ'[q] = succ[q]
        /\ pred'[s] = p /\ pred'[n] = Null /\ \A q \in Place \ {n, s} : pred'[q] = pred[q]
    BY <1>1, <1>2, <1>5, <2>1 DEF TypeOK
  <2> HIDE DEF p, s
  <2>3. \A q, r \in Place : succ'[q] = r <=> pred'[r] = q
    BY <1>1, <1>5, <2>1, <2>2 DEF Mirrored
  <2>4. \A m \in Node : succ'[m] = Null <=> pred'[m] = Null
    BY <1>1, <2>1, <2>2 DEF Mirrored, Place
  <2>5. \A l \in List : /\ pred'[HeadEnd(l)] = Null /\ succ'[HeadEnd(l)] # Null
                        /\ succ'[TailEnd(l)] = Null /\ pred'[TailEnd(l)] # Null
    BY <1>1, <2>1, <2>2, Ends DEF Mirrored
  <2> QED
    BY <1>3, <2>3, <2>4, <2>5 DEF Mirrored
<1> QED
  BY <1>4, <1>5

\* Insertion before a place that has a predecessor, after one that has a successor.
LEMMA InsertMirrored ==
    ASSUME IInv, NEW n \in Node, NEW q \in Place, InsertBefore(n, q) \/ InsertAfter(n, q)
    PROVE  IInv'
<1>1. CASE InsertBefore(n, q)
  <2>1. pred[q] \in Place /\ succ[pred[q]] = q
    BY <1>1 DEF IInv, TypeOK, Mirrored, InsertBefore
  <2> QED
    BY <1>1, <2>1, LinkMirrored DEF InsertBefore, IsLinked
<1>2. CASE InsertAfter(n, q)
  <2>1. succ[q] \in Place
    BY <1>2 DEF IInv, TypeOK, InsertAfter
  <2> QED
    BY <1>2, <2>1, LinkMirrored DEF InsertAfter, IsLinked
<1> QED
  BY <1>1, <1>2

\* RemHead and RemTail take out a node: what GetHead returns is linked, hence no end.
LEMMA EndNodes ==
    ASSUME IInv, NEW l \in List
    PROVE  /\ GetHead(l) # Null => GetHead(l) \in Node
           /\ GetTail(l) # Null => GetTail(l) \in Node
<1> USE ListsAssumption DEF IInv
<1>1. \A q \in Place \ Node : (\E k \in List : q = HeadEnd(k)) \/ (\E k \in List : q = TailEnd(k))
  BY DEF Place, HeadEnds, TailEnds
<1>2. HeadEnd(l) \in Place /\ TailEnd(l) \in Place
  BY Ends
<1>3. ASSUME GetHead(l) # Null PROVE GetHead(l) \in Node
  <2>1. /\ GetHead(l) = succ[HeadEnd(l)] /\ GetHead(l) \in Place
        /\ succ[GetHead(l)] # Null /\ pred[GetHead(l)] = HeadEnd(l)
    BY <1>2, <1>3 DEF GetHead, GetSucc, TypeOK, Mirrored
  <2> QED
    BY <2>1, <1>1, <1>2 DEF Mirrored
<1>4. ASSUME GetTail(l) # Null PROVE GetTail(l) \in Node
  <2>1. /\ GetTail(l) = pred[TailEnd(l)] /\ GetTail(l) \in Place
        /\ pred[GetTail(l)] # Null /\ succ[GetTail(l)] = TailEnd(l)
    BY <1>2, <1>4 DEF GetTail, GetPred, TypeOK, Mirrored
  <2> QED
    BY <2>1, <1>1, <1>2 DEF Mirrored
<1> QED
  BY <1>3, <1>4

LEMMA NextMirrored == IInv /\ [Next]_links => IInv'
<1> SUFFICES ASSUME IInv, [Next]_links PROVE IInv'
  OBVIOUS
<1>1. ASSUME NEW n \in Node, NEW m \in Node, InsertBefore(n, m) \/ InsertAfter(n, m) PROVE IInv'
  BY <1>1, InsertMirrored DEF Place
<1>2. ASSUME NEW n \in Node, Remove(n) PROVE IInv'
  BY <1>2, RemoveMirrored
<1>3. ASSUME NEW l \in List, NEW n \in Node, AddHead(l, n) \/ AddTail(l, n) PROVE IInv'
  BY <1>3, Ends, InsertMirrored DEF AddHead, AddTail
<1>4. ASSUME NEW l \in List, RemHead(l) \/ RemTail(l) PROVE IInv'
  BY <1>4, EndNodes, RemoveMirrored DEF RemHead, RemTail
<1>5. CASE UNCHANGED links
  BY <1>5 DEF links, IInv, TypeOK, Mirrored
<1> QED
  BY <1>1, <1>2, <1>3, <1>4, <1>5 DEF Next

\* Every link of every list has its mirror image after any sequence of calls on
\* nodes and lists that meets their asserts.
THEOREM ListsMirrored == Spec => []Mirrored
<1>1. IInv => Mirrored
  BY DEF IInv
<1> QED
  BY InitMirrored, NextMirrored, <1>1, PTL DEF Spec

-----------------------------------------------------------------------------
Named == name \in [Node -> Name]

\* What the table and its clients do to the links, nNode and nList do.
LEMMA TableStepIsListStep == Named /\ [TableNext]_tableVars => Named' /\ [Next]_links
<1> SUFFICES ASSUME Named, [TableNext]_tableVars PROVE Named' /\ [Next]_links
  OBVIOUS
<1>1. ASSUME NEW n \in Node, Add(n) PROVE Named' /\ Next
  <2>1. hash(name[n]) \in List
    BY TableAssumption DEF Named
  <2> QED
    BY <1>1, <2>1 DEF Add, Named, Next
<1>2. ASSUME NEW n \in Node, TakeOut(n) PROVE Named' /\ Next
  BY <1>2 DEF TakeOut, Named, Next
<1>3. ASSUME NEW n \in Node, NEW str \in Name, SetName(n, str) PROVE Named' /\ UNCHANGED links
  BY <1>3 DEF SetName, Named
<1>4. ASSUME NEW n \in Node, NEW m \in Node, PutBeside(n, m) PROVE Named' /\ Next
  BY <1>4 DEF PutBeside, Named, Next
<1>5. ASSUME NEW l \in List, NEW n \in Node, OwnList(l, n) PROVE Named' /\ Next
  BY <1>5 DEF OwnList, Named, Next
<1>6. ASSUME NEW l \in List, ShortenOwnList(l) PROVE Named' /\ Next
  BY <1>6 DEF ShortenOwnList, Named, Next
<1>7. CASE UNCHANGED tableVars
  BY <1>7 DEF tableVars, links, Named
<1> QED
  BY <1>1, <1>2, <1>3, <1>4, <1>5, <1>6, <1>7 DEF TableNext

\* The hash table uses its lists by their rules: its steps implement NodeLists.
THEOREM TableImplementsLists == TableSpec => Spec
<1>1. TableInit => Named /\ Init
  BY DEF TableInit, Named
<1> QED
  BY <1>1, TableStepIsListStep, PTL DEF TableSpec, Spec

\* Hence its links, and those of its clients' lists, mirror each other.
THEOREM TableMirrored == TableSpec => []Mirrored
  BY TableImplementsLists, ListsMirrored, PTL

-----------------------------------------------------------------------------
(* The sequences behind the links                                          *)

LEMMA Least ==
    ASSUME NEW T \in SUBSET Nat, T # {}
    PROVE  \E x \in T : \A y \in T : x <= y
<1> DEFINE R == OpToRel(<, Nat)
<1>1. IsWellFoundedOn(R, Nat) BY NatLessThanWellFounded
<1>2. \A x, y \in Nat : <<y, x>> \in R <=> y < x BY Zenon DEF OpToRel
<1> HIDE DEF R
<1>3. PICK x \in T : \A y \in T : ~ (<<y, x>> \in R) BY <1>1, WFMin
<1>4. \A y \in T : ~(y < x) BY <1>2, <1>3
<1>5. x \in Nat /\ \A y \in T : y \in Nat OBVIOUS
<1>. QED BY <1>4, <1>5

Put(q, i, n) == SubSeq(q, 1, i - 1) \o <<n>> \o SubSeq(q, i, Len(q))

Drop(q, i) == SubSeq(q, 1, i - 1) \o SubSeq(q, i + 1, Len(q))

LEMMA PutIs ==
    ASSUME NEW q \in Seq(Node), NEW n \in Node, NEW i \in 1 .. Len(q) + 1
    PROVE  /\ Put(q, i, n) \in Seq(Node) /\ Len(Put(q, i, n)) = Len(q) + 1
           /\ \A j \in 1 .. Len(q) + 1 :
                 Put(q, i, n)[j] = IF j < i THEN q[j] ELSE IF j = i THEN n ELSE q[j - 1]
<1>1. PICK a, b, c :
        a = SubSeq(q, 1, i - 1) /\ b = <<n>> /\ c = SubSeq(q, i, Len(q)) /\ Put(q, i, n) = (a \o b) \o c
  BY DEF Put
<1>2. Len(q) \in Nat /\ i \in Nat /\ \A j \in 1 .. Len(q) : q[j] \in Node BY ElementOfSeq
<1>3. a \in Seq(Node) /\ Len(a) = i - 1 /\ \A j \in 1 .. i - 1 : a[j] = q[j]
  <2>1. \A j \in 1 .. i - 1 : q[j] \in Node BY <1>2
  <2>2. 1 \in Int /\ i - 1 \in Int BY <1>2
  <2>3. /\ a \in Seq(Node) /\ Len(a) = IF 1 <= i - 1 THEN (i - 1) - 1 + 1 ELSE 0
        /\ \A j \in 1 .. (i - 1) - 1 + 1 : a[j] = q[1 + j - 1]
    BY <1>1, <2>1, <2>2, SubSeqProperties
  <2>. QED BY <1>2, <2>3
<1>4. /\ c \in Seq(Node) /\ Len(c) = Len(q) - i + 1
      /\ \A j \in 1 .. Len(q) - i + 1 : c[j] = q[i + j - 1]
  <2>1. \A j \in i .. Len(q) : q[j] \in Node BY <1>2
  <2>2. i \in Int /\ Len(q) \in Int BY <1>2
  <2>3. /\ c \in Seq(Node) /\ Len(c) = IF i <= Len(q) THEN Len(q) - i + 1 ELSE 0
        /\ \A j \in 1 .. Len(q) - i + 1 : c[j] = q[i + j - 1]
    BY <1>1, <2>1, <2>2, SubSeqProperties
  <2>. QED BY <1>2, <2>3
<1>5. b \in Seq(Node) /\ Len(b) = 1 /\ b[1] = n BY <1>1
<1>6. PICK d : d = a \o b OBVIOUS
<1>7. /\ d \in Seq(Node) /\ Len(d) = Len(a) + Len(b)
      /\ \A j \in 1 .. Len(a) + Len(b) : d[j] = IF j <= Len(a) THEN a[j] ELSE b[j - Len(a)]
  BY <1>3, <1>5, <1>6, ConcatProperties
<1>8. d \in Seq(Node) /\ Len(d) = i /\ \A j \in 1 .. i : d[j] = IF j < i THEN q[j] ELSE n
  <2>1. Len(d) = i BY <1>2, <1>3, <1>5, <1>7
  <2>2. ASSUME NEW j \in 1 .. i PROVE d[j] = IF j < i THEN q[j] ELSE n
    <3>1. d[j] = IF j <= Len(a) THEN a[j] ELSE b[j - Len(a)] BY <1>2, <1>3, <1>5, <1>7
    <3>2. CASE j < i BY <1>2, <1>3, <3>1, <3>2
    <3>3. CASE j = i
      <4>1. ~(j <= Len(a)) /\ j - Len(a) = 1 BY <1>2, <1>3, <3>3
      <4>. QED BY <1>5, <3>1, <3>3, <4>1
    <3>. QED BY <1>2, <3>2, <3>3
  <2>. QED BY <1>7, <2>1, <2>2
<1>9. PICK e : e = d \o c OBVIOUS
<1>10. /\ e \in Seq(Node) /\ Len(e) = Len(d) + Len(c)
       /\ \A j \in 1 .. Len(d) + Len(c) : e[j] = IF j <= Len(d) THEN d[j] ELSE c[j - Len(d)]
  BY <1>4, <1>8, <1>9, ConcatProperties
<1>11. Len(e) = Len(q) + 1 BY <1>2, <1>4, <1>8, <1>10
<1>12. ASSUME NEW j \in 1 .. Len(q) + 1
       PROVE  e[j] = IF j < i THEN q[j] ELSE IF j = i THEN n ELSE q[j - 1]
  <2>1. e[j] = IF j <= i THEN d[j] ELSE c[j - i] BY <1>2, <1>4, <1>8, <1>10
  <2>2. CASE j <= i BY <1>2, <1>8, <2>1, <2>2
  <2>3. CASE j > i
    <3>1. j - i \in 1 .. Len(q) - i + 1 /\ i + (j - i) - 1 = j - 1 BY <1>2, <2>3
    <3>. QED BY <1>2, <1>4, <2>1, <2>3, <3>1
  <2>. QED BY <1>2, <2>2, <2>3
<1>13. e = Put(q, i, n) BY <1>1, <1>6, <1>9
<1>. QED BY <1>10, <1>11, <1>12, <1>13

LEMMA DropIs ==
    ASSUME NEW q \in Seq(Node), NEW i \in 1 .. Len(q)
    PROVE  /\ Drop(q, i) \in Seq(Node) /\ Len(Drop(q, i)) = Len(q) - 1
           /\ \A j \in 1 .. Len(q) - 1 : Drop(q, i)[j] = IF j < i THEN q[j] ELSE q[j + 1]
<1>1. PICK a, c : a = SubSeq(q, 1, i - 1) /\ c = SubSeq(q, i + 1, Len(q)) /\ Drop(q, i) = a \o c
  BY DEF Drop
<1>2. Len(q) \in Nat /\ i \in Nat /\ \A j \in 1 .. Len(q) : q[j] \in Node BY ElementOfSeq
<1>3. a \in Seq(Node) /\ Len(a) = i - 1 /\ \A j \in 1 .. i - 1 : a[j] = q[j]
  <2>1. \A j \in 1 .. i - 1 : q[j] \in Node BY <1>2
  <2>2. 1 \in Int /\ i - 1 \in Int BY <1>2
  <2>3. /\ a \in Seq(Node) /\ Len(a) = IF 1 <= i - 1 THEN (i - 1) - 1 + 1 ELSE 0
        /\ \A j \in 1 .. (i - 1) - 1 + 1 : a[j] = q[1 + j - 1]
    BY <1>1, <2>1, <2>2, SubSeqProperties
  <2>. QED BY <1>2, <2>3
<1>4. /\ c \in Seq(Node) /\ Len(c) = Len(q) - i
      /\ \A j \in 1 .. Len(q) - i : c[j] = q[i + j]
  <2>1. \A j \in i + 1 .. Len(q) : q[j] \in Node BY <1>2
  <2>2. i + 1 \in Int /\ Len(q) \in Int BY <1>2
  <2>3. /\ c \in Seq(Node) /\ Len(c) = IF i + 1 <= Len(q) THEN Len(q) - (i + 1) + 1 ELSE 0
        /\ \A j \in 1 .. Len(q) - (i + 1) + 1 : c[j] = q[(i + 1) + j - 1]
    BY <1>1, <2>1, <2>2, SubSeqProperties
  <2>4. \A j \in 1 .. Len(q) - i : j \in 1 .. Len(q) - (i + 1) + 1 /\ (i + 1) + j - 1 = i + j
    BY <1>2
  <2>. QED BY <1>2, <2>3, <2>4
<1>5. PICK e : e = a \o c OBVIOUS
<1>6. /\ e \in Seq(Node) /\ Len(e) = Len(a) + Len(c)
      /\ \A j \in 1 .. Len(a) + Len(c) : e[j] = IF j <= Len(a) THEN a[j] ELSE c[j - Len(a)]
  BY <1>3, <1>4, <1>5, ConcatProperties
<1>7. Len(e) = Len(q) - 1 BY <1>2, <1>3, <1>4, <1>6
<1>8. ASSUME NEW j \in 1 .. Len(q) - 1 PROVE e[j] = IF j < i THEN q[j] ELSE q[j + 1]
  <2>1. e[j] = IF j <= i - 1 THEN a[j] ELSE c[j - (i - 1)] BY <1>2, <1>3, <1>4, <1>6
  <2>2. CASE j < i BY <1>2, <1>3, <2>1, <2>2
  <2>3. CASE j >= i
    <3>1. j - (i - 1) \in 1 .. Len(q) - i /\ i + (j - (i - 1)) = j + 1 BY <1>2, <2>3
    <3>. QED BY <1>2, <1>4, <2>1, <2>3, <3>1
  <2>. QED BY <1>2, <2>2, <2>3
<1>9. e = Drop(q, i) BY <1>1, <1>5
<1>. QED BY <1>6, <1>7, <1>8, <1>9

\* The places of list l whose nodes are sq[l], its ends included.
At(sq, l, i) == IF i = 0 THEN HeadEnd(l) ELSE IF i = Len(sq[l]) + 1 THEN TailEnd(l) ELSE sq[l][i]

\* The links are those of the sequences sq: they lead through each, no node is met
\* twice, and a node that has links is met.
Represents(sq) ==
    /\ sq \in [List -> Seq(Node)]
    /\ \A l \in List : \A i \in 0 .. Len(sq[l]) : succ[At(sq, l, i)] = At(sq, l, i + 1)
    /\ \A k, l \in List : \A i \in 1 .. Len(sq[k]), j \in 1 .. Len(sq[l]) :
          sq[k][i] = sq[l][j] => k = l /\ i = j
    /\ \A n \in Node : succ[n] # Null => \E l \in List : \E i \in 1 .. Len(sq[l]) : n = sq[l][i]

LEMMA SequenceTypes ==
    ASSUME NEW sq \in [List -> Seq(Node)], NEW l \in List
    PROVE  /\ sq[l] \in Seq(Node) /\ Len(sq[l]) \in Nat
           /\ \A i \in 1 .. Len(sq[l]) : sq[l][i] \in Node /\ At(sq, l, i) = sq[l][i]
           /\ At(sq, l, 0) = HeadEnd(l) /\ At(sq, l, Len(sq[l]) + 1) = TailEnd(l)
<1>1. sq[l] \in Seq(Node) /\ Len(sq[l]) \in Nat OBVIOUS
<1>. QED BY <1>1 DEF At

\* What a place of a list is, and that it is not null.
LEMMA PlaceOfList ==
    ASSUME NEW sq \in [List -> Seq(Node)], NEW l \in List, NEW i \in 0 .. Len(sq[l]) + 1
    PROVE  /\ At(sq, l, i) \in Place /\ At(sq, l, i) # Null
           /\ \/ i = 0 /\ At(sq, l, i) = HeadEnd(l)
              \/ i \in 1 .. Len(sq[l]) /\ At(sq, l, i) = sq[l][i] /\ At(sq, l, i) \in Node
              \/ i = Len(sq[l]) + 1 /\ At(sq, l, i) = TailEnd(l)
<1>1. sq[l] \in Seq(Node) /\ Len(sq[l]) \in Nat OBVIOUS
<1>2. CASE i = 0
  <2>1. At(sq, l, i) = HeadEnd(l) BY <1>2 DEF At
  <2>. QED BY <1>2, <2>1, Ends, ListsAssumption
<1>3. CASE i = Len(sq[l]) + 1 BY <1>3, SequenceTypes, Ends, ListsAssumption
<1>4. CASE i \in 1 .. Len(sq[l])
  <2>1. At(sq, l, i) = sq[l][i] /\ sq[l][i] \in Node BY <1>4, SequenceTypes
  <2>. QED BY <1>4, <2>1, ListsAssumption DEF Place
<1>. QED BY <1>1, <1>2, <1>3, <1>4

\* No place is met twice.
LEMMA PlacesApart ==
    ASSUME NEW sq, Represents(sq), NEW k \in List, NEW l \in List,
           NEW i \in 0 .. Len(sq[k]), NEW j \in 0 .. Len(sq[l]), At(sq, k, i) = At(sq, l, j)
    PROVE  k = l /\ i = j
<1>0. sq \in [List -> Seq(Node)] BY DEF Represents
<1>1. Len(sq[k]) \in Nat /\ Len(sq[l]) \in Nat BY <1>0
<1>2. i \in 0 .. Len(sq[k]) + 1 /\ j \in 0 .. Len(sq[l]) + 1 BY <1>1
<1>3. \/ i = 0 /\ At(sq, k, i) = HeadEnd(k)
      \/ i \in 1 .. Len(sq[k]) /\ At(sq, k, i) = sq[k][i] /\ At(sq, k, i) \in Node
  BY <1>0, <1>1, <1>2, PlaceOfList
<1>4. \/ j = 0 /\ At(sq, l, j) = HeadEnd(l)
      \/ j \in 1 .. Len(sq[l]) /\ At(sq, l, j) = sq[l][j] /\ At(sq, l, j) \in Node
  BY <1>0, <1>1, <1>2, PlaceOfList
<1>5. HeadEnd(k) \notin Node /\ HeadEnd(l) \notin Node /\ (HeadEnd(k) = HeadEnd(l) => k = l)
  BY Ends
<1>. QED BY <1>3, <1>4, <1>5 DEF Represents

\* A place that has a successor is met, and so is its successor, behind it.
LEMMA PlaceMet ==
    ASSUME IInv, NEW sq, Represents(sq), NEW p \in Place, succ[p] # Null
    PROVE  \E l \in List : \E i \in 0 .. Len(sq[l]) : p = At(sq, l, i) /\ succ[p] = At(sq, l, i + 1)
<1>0. sq \in [List -> Seq(Node)] BY DEF Represents
<1>1. CASE p \in Node
  <2>1. PICK l \in List : \E i \in 1 .. Len(sq[l]) : p = sq[l][i] BY <1>1 DEF Represents
  <2>2. PICK i \in 1 .. Len(sq[l]) : p = sq[l][i] BY <2>1
  <2>3. Len(sq[l]) \in Nat /\ p = At(sq, l, i) BY <1>0, <2>2, SequenceTypes
  <2>4. i \in 0 .. Len(sq[l]) BY <2>3
  <2>. QED BY <2>3, <2>4 DEF Represents
<1>2. CASE p \in HeadEnds
  <2>1. PICK l \in List : p = HeadEnd(l) BY <1>2 DEF HeadEnds
  <2>2. Len(sq[l]) \in Nat /\ p = At(sq, l, 0) BY <1>0, <2>1, SequenceTypes
  <2>3. 0 \in 0 .. Len(sq[l]) BY <2>2
  <2>. QED BY <2>2, <2>3 DEF Represents
<1>3. p \notin TailEnds BY DEF TailEnds, IInv, Mirrored
<1>. QED BY <1>1, <1>2, <1>3 DEF Place

\* A node of a sequence has links.
LEMMA MetLinked ==
    ASSUME NEW sq, Represents(sq), NEW l \in List, NEW i \in 1 .. Len(sq[l])
    PROVE  sq[l][i] \in Node /\ succ[sq[l][i]] # Null
<1>0. sq \in [List -> Seq(Node)] BY DEF Represents
<1>1. Len(sq[l]) \in Nat /\ sq[l][i] = At(sq, l, i) /\ sq[l][i] \in Node BY <1>0, SequenceTypes
<1>2. i \in 0 .. Len(sq[l]) /\ i + 1 \in 0 .. Len(sq[l]) + 1 BY <1>1
<1>3. succ[At(sq, l, i)] = At(sq, l, i + 1) BY <1>2 DEF Represents
<1>. QED BY <1>0, <1>1, <1>2, <1>3, PlaceOfList

LEMMA InitRepresents == Init => Represents([l \in List |-> <<>>])
<1> SUFFICES ASSUME Init PROVE Represents([l \in List |-> <<>>]) OBVIOUS
<1>1. PICK sq : sq = [l \in List |-> <<>>] OBVIOUS
<1>2. sq \in [List -> Seq(Node)] /\ \A l \in List : Len(sq[l]) = 0 BY <1>1
<1>3. ASSUME NEW l \in List, NEW i \in 0 .. Len(sq[l])
      PROVE  succ[At(sq, l, i)] = At(sq, l, i + 1)
  <2>1. i = 0 BY <1>2
  <2>2. At(sq, l, 0) = HeadEnd(l) /\ At(sq, l, 1) = TailEnd(l) BY <1>2 DEF At
  <2>3. succ[HeadEnd(l)] = TailEnd(HeadEnd(l)[2]) BY Ends DEF Init
  <2>. QED BY <2>1, <2>2, <2>3, Ends
<1>4. ASSUME NEW n \in Node, succ[n] # Null PROVE FALSE
  BY <1>4, ListsAssumption DEF Init, Place
<1>5. Represents(sq) BY <1>2, <1>3, <1>4 DEF Represents
<1>. QED BY <1>1, <1>5

\* A node put between the places i - 1 and i of a list.
LEMMA JoinRepresents ==
    ASSUME IInv, NEW sq, Represents(sq), NEW l \in List, NEW i \in 1 .. Len(sq[l]) + 1,
           NEW n \in Node, succ[n] = Null,
           succ' = [succ EXCEPT ![n] = At(sq, l, i), ![At(sq, l, i - 1)] = n],
           NEW w, w = [sq EXCEPT ![l] = Put(sq[l], i, n)]
    PROVE  Represents(w)'
<1>0. sq \in [List -> Seq(Node)] /\ succ \in [Place -> Place \cup {Null}] /\ n \in Place
  BY DEF Represents, IInv, TypeOK, Place
<1>1. PICK len \in Nat : len = Len(sq[l]) /\ i \in 1 .. len + 1 BY <1>0
<1>2. /\ w \in [List -> Seq(Node)] /\ Len(w[l]) = len + 1
      /\ \A j \in 1 .. len + 1 : w[l][j] = IF j < i THEN sq[l][j] ELSE IF j = i THEN n ELSE sq[l][j - 1]
      /\ \A k \in List : k # l => w[k] = sq[k]
  <2>1. /\ Put(sq[l], i, n) \in Seq(Node) /\ Len(Put(sq[l], i, n)) = len + 1
        /\ \A j \in 1 .. len + 1 :
              Put(sq[l], i, n)[j] = IF j < i THEN sq[l][j] ELSE IF j = i THEN n ELSE sq[l][j - 1]
    BY SMTT(20), <1>0, <1>1, PutIs
  <2>. QED BY <1>0, <2>1
<1>3. \A k \in List : k # l => \A j : At(w, k, j) = At(sq, k, j) BY <1>2 DEF At
<1>4. ASSUME NEW j \in 0 .. len + 2
      PROVE  At(w, l, j) = IF j < i THEN At(sq, l, j) ELSE IF j = i THEN n ELSE At(sq, l, j - 1)
  <2>1. CASE j = 0
    <3>1. At(w, l, j) = HeadEnd(l) /\ At(sq, l, j) = HeadEnd(l) /\ j < i BY <1>1, <2>1 DEF At
    <3>. QED BY <3>1
  <2>2. CASE j = len + 2
    <3>1. At(w, l, j) = TailEnd(l) BY <1>1, <1>2, <2>2 DEF At
    <3>2. At(sq, l, j - 1) = TailEnd(l) /\ ~(j < i) /\ j # i BY <1>1, <2>2 DEF At
    <3>. QED BY <3>1, <3>2
  <2>3. CASE j \in 1 .. len + 1
    <3>1. At(w, l, j) = w[l][j] BY <1>1, <1>2, <2>3 DEF At
    <3>2. CASE j < i
      <4>1. At(sq, l, j) = sq[l][j] BY <1>1, <2>3, <3>2 DEF At
      <4>. QED BY <1>2, <2>3, <3>1, <3>2, <4>1
    <3>3. CASE j = i BY <1>1, <1>2, <2>3, <3>1, <3>3
    <3>4. CASE j > i
      <4>1. At(sq, l, j - 1) = sq[l][j - 1] BY <1>1, <2>3, <3>4 DEF At
      <4>. QED BY <1>1, <1>2, <2>3, <3>1, <3>4, <4>1
    <3>. QED BY <1>1, <3>2, <3>3, <3>4
  <2>. QED BY SMTT(60), <1>1, <2>1, <2>2, <2>3
<1>5. ASSUME NEW k \in List, NEW j \in 0 .. Len(sq[k])
      PROVE  /\ At(sq, k, j) \in Place /\ At(sq, k, j) # n
             /\ succ[At(sq, k, j)] = At(sq, k, j + 1)
  <2>1. Len(sq[k]) \in Nat /\ j \in 0 .. Len(sq[k]) + 1 /\ j + 1 \in 0 .. Len(sq[k]) + 1 BY <1>0
  <2>2. succ[At(sq, k, j)] = At(sq, k, j + 1) BY DEF Represents
  <2>. QED BY <1>0, <2>1, <2>2, PlaceOfList
<1>6. PICK p : p = At(sq, l, i - 1) OBVIOUS
<1>7. /\ succ'[n] = At(sq, l, i) /\ p # n /\ succ'[p] = n
      /\ \A q \in Place : q # n /\ q # p => succ'[q] = succ[q]
  <2>1. i - 1 \in 0 .. Len(sq[l]) BY <1>1
  <2>2. p \in Place /\ p # n BY <1>5, <1>6, <2>1
  <2>. QED BY <1>0, <1>6, <2>2
<1>8. ASSUME NEW k \in List, NEW j \in 0 .. Len(w[k])
      PROVE  succ'[At(w, k, j)] = At(w, k, j + 1)
  <2>1. CASE k # l
    <3>1. j \in 0 .. Len(sq[k]) /\ At(w, k, j) = At(sq, k, j) /\ At(w, k, j + 1) = At(sq, k, j + 1)
      BY <1>2, <1>3, <2>1
    <3>2. i - 1 \in 0 .. Len(sq[l]) BY <1>1
    <3>3. At(sq, k, j) # p BY <1>6, <2>1, <3>1, <3>2, PlacesApart
    <3>. QED BY <1>5, <1>7, <3>1, <3>3
  <2>2. CASE k = l
    <3>1. j \in 0 .. len + 1 /\ j \in 0 .. len + 2 /\ j + 1 \in 0 .. len + 2 BY <1>1, <1>2, <2>2
    <3>2. At(w, l, j) = IF j < i THEN At(sq, l, j) ELSE IF j = i THEN n ELSE At(sq, l, j - 1)
      BY <1>4, <3>1
    <3>3. PICK h \in 0 .. len + 2 : h = j + 1 BY <3>1
    <3>4. At(w, l, h) = IF h < i THEN At(sq, l, h) ELSE IF h = i THEN n ELSE At(sq, l, h - 1)
      BY <1>4
    <3>5. CASE j < i - 1
      <4>1. At(w, l, j) = At(sq, l, j) /\ At(w, l, j + 1) = At(sq, l, j + 1)
        BY <1>1, <3>1, <3>5, <3>2, <3>3, <3>4
      <4>2. j \in 0 .. Len(sq[l]) /\ i - 1 \in 0 .. Len(sq[l]) /\ j # i - 1 BY <1>1, <3>1, <3>5
      <4>3. At(sq, l, j) # p BY <1>6, <4>2, PlacesApart
      <4>. QED BY ZenonT(30), <1>5, <1>7, <2>2, <4>1, <4>2, <4>3
    <3>6. CASE j = i - 1
      <4>1. At(w, l, j) = p BY <1>1, <1>6, <3>1, <3>6, <3>2
      <4>2. At(w, l, j + 1) = n BY <1>1, <3>1, <3>6, <3>3, <3>4
      <4>. QED BY <1>7, <2>2, <4>1, <4>2
    <3>7. CASE j = i
      <4>1. At(w, l, j) = n BY <1>1, <3>1, <3>7, <3>2
      <4>2. At(w, l, j + 1) = At(sq, l, j) BY <1>1, <3>1, <3>7, <3>3, <3>4
      <4>. QED BY <1>7, <2>2, <3>7, <4>1, <4>2
    <3>8. CASE j > i
      <4>1. At(w, l, j) = At(sq, l, j - 1)
        <5>1. ~(j < i) /\ j # i BY <1>1, <3>1, <3>8
        <5>. QED BY <3>2, <5>1
      <4>2. At(w, l, j + 1) = At(sq, l, j)
        <5>1. ~(h < i) /\ h # i /\ h - 1 = j BY <1>1, <3>1, <3>8, <3>3
        <5>. QED BY <3>3, <3>4, <5>1
      <4>3. j - 1 \in 0 .. Len(sq[l]) /\ i - 1 \in 0 .. Len(sq[l]) /\ j - 1 # i - 1 /\ (j - 1) + 1 = j
        <5>1. j \in Nat /\ i \in Nat /\ i >= 1 /\ i <= len + 1 /\ j <= len + 1 BY <1>1, <3>1
        <5>2. j - 1 \in 0 .. len /\ i - 1 \in 0 .. len BY <3>8, <5>1
        <5>3. j - 1 # i - 1 /\ (j - 1) + 1 = j BY <3>8, <5>1
        <5>. QED BY <1>1, <5>2, <5>3
      <4>4. At(sq, l, j - 1) # p BY <1>6, <4>3, PlacesApart
      <4>5. succ[At(sq, l, j - 1)] = At(sq, l, (j - 1) + 1) /\ At(sq, l, j - 1) \in Place /\ At(sq, l, j - 1) # n
        BY <1>5, <4>3
      <4>6. succ'[At(sq, l, j - 1)] = At(sq, l, j) BY <1>7, <4>3, <4>4, <4>5
      <4>. QED BY <2>2, <4>1, <4>2, <4>6
    <3>. QED BY <1>1, <3>1, <3>5, <3>6, <3>7, <3>8
  <2>. QED BY <2>1, <2>2
\* A node of the new sequences is n, where it was put, or one of the old ones.
<1>9. ASSUME NEW k \in List, NEW j \in 1 .. Len(w[k])
      PROVE  \/ w[k][j] = n /\ k = l /\ j = i
             \/ \E a \in 1 .. Len(sq[k]) :
                   /\ w[k][j] = sq[k][a] /\ w[k][j] # n
                   /\ a = IF k = l /\ j > i THEN j - 1 ELSE j
  <2>1. CASE k # l
    <3>1. j \in 1 .. Len(sq[k]) /\ w[k][j] = sq[k][j] BY <1>2, <2>1
    <3>2. sq[k][j] # n BY <3>1, MetLinked
    <3>. QED BY <2>1, <3>1, <3>2
  <2>2. CASE k = l
    <3>1. j \in 1 .. len + 1 BY <1>2, <2>2
    <3>2. CASE j = i BY <1>1, <1>2, <2>2, <3>1, <3>2
    <3>3. CASE j < i
      <4>1. j \in 1 .. Len(sq[k]) /\ w[k][j] = sq[k][j] BY <1>1, <1>2, <2>2, <3>1, <3>3
      <4>2. sq[k][j] # n BY <4>1, MetLinked
      <4>. QED BY <1>1, <3>3, <4>1, <4>2
    <3>4. CASE j > i
      <4>1. PICK a \in 1 .. Len(sq[k]) : a = j - 1 BY <1>1, <2>2, <3>1, <3>4
      <4>2. w[k][j] = sq[k][a] BY <1>1, <1>2, <2>2, <3>1, <3>4, <4>1
      <4>3. sq[k][a] # n BY MetLinked
      <4>. QED BY <2>2, <3>4, <4>1, <4>2, <4>3
    <3>. QED BY <1>1, <3>1, <3>2, <3>3, <3>4
  <2>. QED BY <2>1, <2>2
<1>10. ASSUME NEW k \in List, NEW m \in List, NEW j \in 1 .. Len(w[k]), NEW h \in 1 .. Len(w[m]),
              w[k][j] = w[m][h]
       PROVE  k = m /\ j = h
  <2>1. CASE w[k][j] = n BY <1>9, <1>10, <2>1
  <2>2. CASE w[k][j] # n
    <3>1. PICK a \in 1 .. Len(sq[k]) :
            w[k][j] = sq[k][a] /\ a = IF k = l /\ j > i THEN j - 1 ELSE j
      BY <1>9, <2>2
    <3>2. PICK b \in 1 .. Len(sq[m]) :
            w[m][h] = sq[m][b] /\ b = IF m = l /\ h > i THEN h - 1 ELSE h
      BY <1>9, <1>10, <2>2
    <3>3. k = m /\ a = b BY SMTT(60), <1>10, <3>1, <3>2 DEF Represents
    <3>4. j # i \/ k # l
      <4>1. ASSUME j = i, k = l PROVE FALSE
        <5>1. i \in 1 .. len + 1 /\ w[l][i] = n BY <1>1, <1>2
        <5>. QED BY <2>2, <4>1, <5>1
      <4>. QED BY <4>1
    <3>5. h # i \/ m # l
      <4>1. ASSUME h = i, m = l PROVE FALSE
        <5>1. i \in 1 .. len + 1 /\ w[l][i] = n BY <1>1, <1>2
        <5>. QED BY <1>10, <2>2, <4>1, <5>1
      <4>. QED BY <4>1
    <3>6. j \in Nat /\ h \in Nat /\ i \in Nat BY <1>0, <1>1, <1>2
    <3>. QED BY <3>1, <3>2, <3>3, <3>4, <3>5, <3>6
  <2>. QED BY <2>1, <2>2
<1>11. ASSUME NEW m \in Node, succ'[m] # Null
       PROVE  \E k \in List : \E j \in 1 .. Len(w[k]) : m = w[k][j]
  <2>1. CASE m = n
    <3>1. i \in 1 .. Len(w[l]) /\ w[l][i] = n BY <1>1, <1>2
    <3>. QED BY <2>1, <3>1
  <2>2. CASE m # n
    <3>1. succ[m] # Null
      <4>1. m \in Place BY DEF Place
      <4>2. i - 1 \in 0 .. Len(sq[l]) /\ (i - 1) + 1 = i /\ i \in 0 .. Len(sq[l]) + 1 BY <1>1
      <4>3. m = p => succ[m] = At(sq, l, i) BY <1>5, <1>6, <4>2
      <4>4. At(sq, l, i) # Null BY <1>0, <4>2, PlaceOfList
      <4>. QED BY <1>7, <1>11, <2>2, <4>1, <4>3, <4>4
    <3>2. PICK k \in List : \E a \in 1 .. Len(sq[k]) : m = sq[k][a] BY <3>1 DEF Represents
    <3>3. PICK a \in 1 .. Len(sq[k]) : m = sq[k][a] BY <3>2
    <3>4. CASE k # l BY <1>2, <3>3, <3>4
    <3>5. CASE k = l
      <4>1. CASE a < i
        <5>1. a \in 1 .. len + 1 /\ w[l][a] = sq[l][a] BY <1>1, <1>2, <3>5, <4>1
        <5>. QED BY <1>2, <3>3, <3>5, <5>1
      <4>2. CASE a >= i
        <5>1. PICK b \in 1 .. len + 1 : b = a + 1 /\ ~(b < i) /\ b # i /\ b - 1 = a BY <1>1, <3>5, <4>2
        <5>2. w[l][b] = sq[l][a] BY <1>2, <5>1
        <5>. QED BY <1>2, <3>3, <3>5, <5>2
      <4>. QED BY <1>1, <3>5, <4>1, <4>2
    <3>. QED BY <3>4, <3>5
  <2>. QED BY <2>1, <2>2
<1>. QED BY <1>2, <1>8, <1>10, <1>11 DEF Represents

\* A node taken out: what is around it closes up.
LEMMA LeaveRepresents ==
    ASSUME IInv, NEW sq, Represents(sq), NEW l \in List, NEW i \in 1 .. Len(sq[l]),
           succ' = [succ EXCEPT ![At(sq, l, i - 1)] = At(sq, l, i + 1), ![sq[l][i]] = Null],
           NEW w, w = [sq EXCEPT ![l] = Drop(sq[l], i)]
    PROVE  Represents(w)'
<1>0. sq \in [List -> Seq(Node)] /\ succ \in [Place -> Place \cup {Null}]
  BY DEF Represents, IInv, TypeOK
<1>1. PICK len \in Nat : len = Len(sq[l]) /\ i \in 1 .. len BY <1>0
<1>2. /\ w \in [List -> Seq(Node)] /\ Len(w[l]) = len - 1
      /\ \A j \in 1 .. len - 1 : w[l][j] = IF j < i THEN sq[l][j] ELSE sq[l][j + 1]
      /\ \A k \in List : k # l => w[k] = sq[k]
  <2>1. /\ Drop(sq[l], i) \in Seq(Node) /\ Len(Drop(sq[l], i)) = len - 1
        /\ \A j \in 1 .. len - 1 : Drop(sq[l], i)[j] = IF j < i THEN sq[l][j] ELSE sq[l][j + 1]
    BY <1>0, <1>1, DropIs
  <2>. QED BY <1>0, <2>1
<1>3. \A k \in List : k # l => \A j : At(w, k, j) = At(sq, k, j) BY <1>2 DEF At
<1>4. ASSUME NEW j \in 0 .. len
      PROVE  At(w, l, j) = IF j < i THEN At(sq, l, j) ELSE At(sq, l, j + 1)
  <2>1. CASE j = 0
    <3>1. At(w, l, j) = HeadEnd(l) /\ At(sq, l, j) = HeadEnd(l) /\ j < i BY <1>1, <2>1 DEF At
    <3>. QED BY <3>1
  <2>2. CASE j = len
    <3>1. At(w, l, j) = TailEnd(l) BY <1>1, <1>2, <2>2 DEF At
    <3>2. At(sq, l, j + 1) = TailEnd(l) /\ ~(j < i) BY <1>1, <2>2 DEF At
    <3>. QED BY <3>1, <3>2
  <2>3. CASE j \in 1 .. len - 1
    <3>1. At(w, l, j) = w[l][j] BY <1>1, <1>2, <2>3 DEF At
    <3>2. CASE j < i
      <4>1. At(sq, l, j) = sq[l][j] BY <1>1, <2>3, <3>2 DEF At
      <4>. QED BY <1>2, <2>3, <3>1, <3>2, <4>1
    <3>3. CASE j >= i
      <4>1. At(sq, l, j + 1) = sq[l][j + 1] BY <1>1, <2>3, <3>3 DEF At
      <4>. QED BY <1>1, <1>2, <2>3, <3>1, <3>3, <4>1
    <3>. QED BY <1>1, <3>2, <3>3
  <2>. QED BY <1>1, <2>1, <2>2, <2>3
<1>5. ASSUME NEW k \in List, NEW j \in 0 .. Len(sq[k])
      PROVE  /\ At(sq, k, j) \in Place /\ succ[At(sq, k, j)] = At(sq, k, j + 1)
             /\ (At(sq, k, j) = sq[l][i] => k = l /\ j = i)
             /\ (At(sq, k, j) = At(sq, l, i - 1) => k = l /\ j = i - 1)
  <2>1. Len(sq[k]) \in Nat /\ j \in 0 .. Len(sq[k]) + 1 BY <1>0
  <2>2. succ[At(sq, k, j)] = At(sq, k, j + 1) BY DEF Represents
  <2>3. i \in 0 .. Len(sq[l]) /\ i - 1 \in 0 .. Len(sq[l]) /\ sq[l][i] = At(sq, l, i)
    BY <1>0, <1>1, SequenceTypes
  <2>. QED BY <1>0, <2>1, <2>2, <2>3, PlaceOfList, PlacesApart
<1>6. PICK p, n : p = At(sq, l, i - 1) /\ n = sq[l][i] OBVIOUS
<1>7. /\ p # n /\ succ'[p] = At(sq, l, i + 1) /\ succ'[n] = Null
      /\ \A q \in Place : q # n /\ q # p => succ'[q] = succ[q]
  <2>1. i - 1 \in 0 .. Len(sq[l]) /\ i \in 0 .. Len(sq[l]) /\ i - 1 # i BY <1>1
  <2>2. p \in Place /\ p # n BY <1>5, <1>6, <2>1
  <2>3. n \in Place
    <3>1. At(sq, l, i) = n BY <1>0, <1>6, SequenceTypes
    <3>. QED BY <1>5, <2>1, <3>1
  <2>. QED BY <1>0, <1>6, <2>2, <2>3
<1>8. ASSUME NEW k \in List, NEW j \in 0 .. Len(w[k])
      PROVE  succ'[At(w, k, j)] = At(w, k, j + 1)
  <2>1. CASE k # l
    <3>1. j \in 0 .. Len(sq[k]) /\ At(w, k, j) = At(sq, k, j) /\ At(w, k, j + 1) = At(sq, k, j + 1)
      BY <1>2, <1>3, <2>1
    <3>2. At(sq, k, j) # p /\ At(sq, k, j) # n BY <1>5, <1>6, <2>1, <3>1
    <3>. QED BY <1>5, <1>7, <3>1, <3>2
  <2>2. CASE k = l
    <3>1. j \in 0 .. len - 1 /\ j \in 0 .. len /\ j + 1 \in 0 .. len BY <1>1, <1>2, <2>2
    <3>2. At(w, l, j) = IF j < i THEN At(sq, l, j) ELSE At(sq, l, j + 1) BY <1>4, <3>1
    <3>3. PICK h \in 0 .. len : h = j + 1 BY <3>1
    <3>4. At(w, l, h) = IF h < i THEN At(sq, l, h) ELSE At(sq, l, h + 1) BY <1>4
    <3>5. CASE j < i - 1
      <4>1. At(w, l, j) = At(sq, l, j) /\ At(w, l, j + 1) = At(sq, l, j + 1)
        BY <1>1, <3>1, <3>2, <3>3, <3>4, <3>5
      <4>2. j \in 0 .. Len(sq[l]) /\ j # i /\ j # i - 1 BY <1>1, <3>1, <3>5
      <4>3. At(sq, l, j) # p /\ At(sq, l, j) # n BY <1>5, <1>6, <4>2
      <4>. QED BY ZenonT(30), <1>5, <1>7, <2>2, <4>1, <4>2, <4>3
    <3>6. CASE j = i - 1
      <4>1. At(w, l, j) = p BY <1>1, <1>6, <3>1, <3>2, <3>6
      <4>2. At(w, l, h) = At(sq, l, i + 1)
        <5>1. h = i /\ ~(h < i) BY <1>1, <3>1, <3>3, <3>6
        <5>. QED BY <3>4, <5>1
      <4>. QED BY <1>7, <2>2, <3>3, <4>1, <4>2
    <3>7. CASE j >= i
      <4>1. At(w, l, j) = At(sq, l, h)
        <5>1. ~(j < i) BY <1>1, <3>1, <3>7
        <5>. QED BY <3>2, <3>3, <5>1
      <4>2. At(w, l, h) = At(sq, l, h + 1)
        <5>1. ~(h < i) BY <1>1, <3>1, <3>3, <3>7
        <5>. QED BY <3>4, <5>1
      <4>3. h \in 0 .. Len(sq[l]) /\ h # i /\ h # i - 1
        <5>1. h \in 0 .. len /\ h > i BY <1>1, <3>1, <3>3, <3>7
        <5>. QED BY <1>1, <5>1
      <4>4. At(sq, l, h) # p /\ At(sq, l, h) # n BY <1>5, <1>6, <4>3
      <4>5. succ'[At(sq, l, h)] = At(sq, l, h + 1)
        <5>1. At(sq, l, h) \in Place /\ succ[At(sq, l, h)] = At(sq, l, h + 1) BY <1>5, <4>3
        <5>. QED BY <1>7, <4>4, <5>1
      <4>. QED BY <2>2, <3>3, <4>1, <4>2, <4>5
    <3>. QED BY <1>1, <3>1, <3>5, <3>6, <3>7
  <2>. QED BY <2>1, <2>2
\* A node of the new sequences is one of the old ones.
<1>9. ASSUME NEW k \in List, NEW j \in 1 .. Len(w[k])
      PROVE  \E a \in 1 .. Len(sq[k]) :
                w[k][j] = sq[k][a] /\ a = IF k = l /\ j >= i THEN j + 1 ELSE j
  <2>1. CASE k # l
    <3>1. j \in 1 .. Len(sq[k]) /\ w[k][j] = sq[k][j] BY <1>2, <2>1
    <3>. QED BY <2>1, <3>1
  <2>2. CASE k = l
    <3>1. j \in 1 .. len - 1 BY <1>2, <2>2
    <3>2. CASE j < i
      <4>1. j \in 1 .. Len(sq[k]) /\ w[k][j] = sq[k][j] BY <1>1, <1>2, <2>2, <3>1, <3>2
      <4>. QED BY <1>1, <3>2, <4>1
    <3>3. CASE j >= i
      <4>1. PICK a \in 1 .. Len(sq[k]) : a = j + 1 BY <1>1, <2>2, <3>1, <3>3
      <4>2. w[k][j] = sq[k][a] BY <1>1, <1>2, <2>2, <3>1, <3>3, <4>1
      <4>. QED BY <2>2, <3>3, <4>1, <4>2
    <3>. QED BY <1>1, <3>1, <3>2, <3>3
  <2>. QED BY <2>1, <2>2
<1>10. ASSUME NEW k \in List, NEW m \in List, NEW j \in 1 .. Len(w[k]), NEW h \in 1 .. Len(w[m]),
              w[k][j] = w[m][h]
       PROVE  k = m /\ j = h
  <2>1. PICK a \in 1 .. Len(sq[k]) : w[k][j] = sq[k][a] /\ a = IF k = l /\ j >= i THEN j + 1 ELSE j
    BY <1>9
  <2>2. PICK b \in 1 .. Len(sq[m]) : w[m][h] = sq[m][b] /\ b = IF m = l /\ h >= i THEN h + 1 ELSE h
    BY <1>9
  <2>3. k = m /\ a = b
    <3>1. sq[k][a] = sq[m][b] BY <1>10, <2>1, <2>2
    <3>. QED BY <3>1 DEF Represents
  <2>4. j \in Nat /\ h \in Nat /\ i \in Nat BY <1>0, <1>1, <1>2
  <2>. QED BY <2>1, <2>2, <2>3, <2>4
<1>11. ASSUME NEW m \in Node, succ'[m] # Null
       PROVE  \E k \in List : \E j \in 1 .. Len(w[k]) : m = w[k][j]
  <2>1. m # n BY <1>7, <1>11
  <2>2. succ[m] # Null
    <3>1. m \in Place BY DEF Place
    <3>2. i - 1 \in 0 .. Len(sq[l]) /\ (i - 1) + 1 = i BY <1>1
    <3>3. m = p => succ[m] = sq[l][i] BY <1>0, <1>5, <1>6, <3>2, SequenceTypes
    <3>4. sq[l][i] # Null
      <4>1. sq[l][i] \in Node BY <1>0, SequenceTypes
      <4>. QED BY <4>1, ListsAssumption DEF Place
    <3>. QED BY <1>7, <1>11, <2>1, <3>1, <3>3, <3>4
  <2>3. PICK k \in List : \E a \in 1 .. Len(sq[k]) : m = sq[k][a] BY <2>2 DEF Represents
  <2>4. PICK a \in 1 .. Len(sq[k]) : m = sq[k][a] BY <2>3
  <2>5. CASE k # l BY <1>2, <2>4, <2>5
  <2>6. CASE k = l
    <3>1. a # i BY <1>6, <2>1, <2>4, <2>6
    <3>2. CASE a < i
      <4>1. a \in 1 .. len - 1 /\ w[l][a] = sq[l][a] BY <1>1, <1>2, <2>6, <3>2
      <4>. QED BY <1>2, <2>4, <2>6, <4>1
    <3>3. CASE a > i
      <4>1. PICK b \in 1 .. len - 1 : b = a - 1 /\ ~(b < i) /\ b + 1 = a BY <1>1, <2>6, <3>3
      <4>2. w[l][b] = sq[l][a] BY <1>2, <4>1
      <4>. QED BY <1>2, <2>4, <2>6, <4>2
    <3>. QED BY <1>1, <2>6, <3>1, <3>2, <3>3
  <2>. QED BY <2>5, <2>6
<1>. QED BY <1>2, <1>8, <1>10, <1>11 DEF Represents

-----------------------------------------------------------------------------
(* What the loops over GetSucc meet.  Both are recursive functions over    *)
(* the places: that they are what they say rests on the sequences, along   *)
(* which they come to an end.                                              *)

LEMMA SuccOf ==
    ASSUME IInv, NEW sq, Represents(sq)
    PROVE  /\ \A l \in List : \A i \in 0 .. Len(sq[l]) - 1 :
                 GetSucc(At(sq, l, i)) = sq[l][i + 1] /\ sq[l][i + 1] \in Node
           /\ \A l \in List : GetSucc(At(sq, l, Len(sq[l]))) = Null
           /\ \A p \in Place :
                 (\A l \in List : \A i \in 0 .. Len(sq[l]) : p # At(sq, l, i)) => GetSucc(p) = Null
<1>0. sq \in [List -> Seq(Node)] BY DEF Represents
<1>1. ASSUME NEW l \in List, NEW i \in 0 .. Len(sq[l]) - 1
      PROVE  GetSucc(At(sq, l, i)) = sq[l][i + 1] /\ sq[l][i + 1] \in Node
  <2>1. Len(sq[l]) \in Nat BY <1>0
  <2>2. PICK j \in 1 .. Len(sq[l]) : j = i + 1 BY <2>1
  <2>3. i \in 0 .. Len(sq[l]) BY <2>1
  <2>4. At(sq, l, j) = sq[l][j] BY <1>0, SequenceTypes
  <2>5. succ[At(sq, l, i)] = sq[l][j] BY <2>2, <2>3, <2>4 DEF Represents
  <2>6. sq[l][j] \in Node /\ succ[sq[l][j]] # Null BY MetLinked
  <2>. QED BY <2>2, <2>5, <2>6 DEF GetSucc
<1>2. ASSUME NEW l \in List PROVE GetSucc(At(sq, l, Len(sq[l]))) = Null
  <2>1. Len(sq[l]) \in Nat /\ At(sq, l, Len(sq[l]) + 1) = TailEnd(l) BY <1>0, SequenceTypes
  <2>2. Len(sq[l]) \in 0 .. Len(sq[l]) BY <2>1
  <2>3. succ[At(sq, l, Len(sq[l]))] = TailEnd(l) BY <2>1, <2>2 DEF Represents
  <2>4. succ[TailEnd(l)] = Null BY DEF IInv, Mirrored
  <2>. QED BY <2>3, <2>4 DEF GetSucc
<1>3. ASSUME NEW p \in Place, \A l \in List : \A i \in 0 .. Len(sq[l]) : p # At(sq, l, i)
      PROVE  GetSucc(p) = Null
  <2>1. succ[p] = Null BY <1>3, PlaceMet
  <2>. QED BY <2>1 DEF GetSucc
<1>. QED BY <1>1, <1>2, <1>3

\* The nodes behind a place.
Rest(sq, p) ==
    CHOOSE v :
        /\ \A l \in List : \A i \in 0 .. Len(sq[l]) :
              p = At(sq, l, i) => v = SubSeq(sq[l], i + 1, Len(sq[l]))
        /\ (\A l \in List : \A i \in 0 .. Len(sq[l]) : p # At(sq, l, i)) => v = <<>>

LEMMA RestIs ==
    ASSUME NEW sq, Represents(sq), NEW p
    PROVE  /\ \A l \in List : \A i \in 0 .. Len(sq[l]) :
                 p = At(sq, l, i) => Rest(sq, p) = SubSeq(sq[l], i + 1, Len(sq[l]))
           /\ (\A l \in List : \A i \in 0 .. Len(sq[l]) : p # At(sq, l, i)) => Rest(sq, p) = <<>>
<1> DEFINE Is(v) ==
        /\ \A l \in List : \A i \in 0 .. Len(sq[l]) :
              p = At(sq, l, i) => v = SubSeq(sq[l], i + 1, Len(sq[l]))
        /\ (\A l \in List : \A i \in 0 .. Len(sq[l]) : p # At(sq, l, i)) => v = <<>>
<1>1. \E v : Is(v)
  <2>1. CASE \A l \in List : \A i \in 0 .. Len(sq[l]) : p # At(sq, l, i)
    <3>1. Is(<<>>) BY <2>1
    <3>. QED BY <3>1
  <2>2. CASE \E l \in List : \E i \in 0 .. Len(sq[l]) : p = At(sq, l, i)
    <3>1. PICK l \in List : \E i \in 0 .. Len(sq[l]) : p = At(sq, l, i) BY <2>2
    <3>2. PICK i \in 0 .. Len(sq[l]) : p = At(sq, l, i) BY <3>1
    <3>3. PICK v : v = SubSeq(sq[l], i + 1, Len(sq[l])) OBVIOUS
    <3>4. ASSUME NEW k \in List, NEW j \in 0 .. Len(sq[k]), p = At(sq, k, j)
          PROVE  v = SubSeq(sq[k], j + 1, Len(sq[k]))
      <4>1. At(sq, k, j) = At(sq, l, i) BY <3>2, <3>4
      <4>2. k = l /\ j = i BY <4>1, PlacesApart
      <4>. QED BY <3>3, <4>2
    <3>5. Is(v) BY <3>2, <3>4
    <3>. QED BY <3>5
  <2>. QED BY <2>1, <2>2
<1>2. Rest(sq, p) = CHOOSE v : Is(v) BY DEF Rest
<1>3. Is(Rest(sq, p))
  <2> HIDE DEF Is
  <2>. QED BY <1>1, <1>2
<1>. QED BY <1>3

LEMMA NodesFromIs ==
    ASSUME IInv, NEW sq, Represents(sq)
    PROVE  NodesFrom = [p \in Place |->
                          IF GetSucc(p) = Null THEN <<>> ELSE <<GetSucc(p)>> \o NodesFrom[GetSucc(p)]]
<1>0. sq \in [List -> Seq(Node)] BY DEF Represents
<1>1. PICK f : f = [p \in Place |-> Rest(sq, p)] OBVIOUS
<1>2. ASSUME NEW p \in Place
      PROVE  f[p] = IF GetSucc(p) = Null THEN <<>> ELSE <<GetSucc(p)>> \o f[GetSucc(p)]
  <2>1. CASE \A l \in List : \A i \in 0 .. Len(sq[l]) : p # At(sq, l, i)
    <3>1. GetSucc(p) = Null BY <2>1, SuccOf
    <3>2. f[p] = <<>> BY <1>1, <2>1, RestIs
    <3>. QED BY <3>1, <3>2
  <2>2. CASE \E l \in List : \E i \in 0 .. Len(sq[l]) : p = At(sq, l, i)
    <3>1. PICK l \in List : \E i \in 0 .. Len(sq[l]) : p = At(sq, l, i) BY <2>2
    <3>2. PICK i \in 0 .. Len(sq[l]) : p = At(sq, l, i) BY <3>1
    <3>3. PICK q \in Seq(Node) : q = sq[l] BY <1>0
    <3>4. Len(q) \in Nat /\ i \in Nat /\ i <= Len(q) BY <3>3
    <3>5. f[p] = SubSeq(q, i + 1, Len(q)) BY <1>1, <3>2, <3>3, RestIs
    <3>6. CASE i = Len(q)
      <4>1. GetSucc(p) = Null BY <3>2, <3>3, <3>6, SuccOf
      <4>2. i + 1 \in Int /\ Len(q) \in Int /\ Len(q) < i + 1 BY <3>4, <3>6
      <4>3. f[p] = <<>> BY <3>5, <4>2, SubSeqEmpty
      <4>. QED BY <4>1, <4>3
    <3>7. CASE i # Len(q)
      <4>1. i \in 0 .. Len(sq[l]) - 1 BY <3>3, <3>4, <3>7
      <4>2. PICK j \in 1 .. Len(q) : j = i + 1 /\ Len(q) \in j .. Len(q) BY <3>4, <3>7
      <4>3. GetSucc(p) = q[j] /\ q[j] \in Node BY <3>2, <3>3, <4>1, <4>2, SuccOf
      <4>4. q[j] = At(sq, l, j) /\ j \in 0 .. Len(sq[l]) BY <1>0, <3>3, <3>4, <4>2, SequenceTypes
      <4>5. f[q[j]] = SubSeq(q, j + 1, Len(q))
        <5>1. q[j] \in Place BY <4>3 DEF Place
        <5>2. Rest(sq, q[j]) = SubSeq(sq[l], j + 1, Len(sq[l])) BY <4>4, RestIs
        <5>. QED BY <1>1, <3>3, <5>1, <5>2
      <4>6. SubSeq(q, j, Len(q)) = <<q[j]>> \o SubSeq(q, j + 1, Len(q)) BY <4>2, SubSeqRecursiveFirst
      <4>7. q[j] # Null BY <4>3, ListsAssumption DEF Place
      <4>. QED BY <3>5, <4>2, <4>3, <4>5, <4>6, <4>7
    <3>. QED BY <3>6, <3>7
  <2>. QED BY <2>1, <2>2
<1>3. f = [p \in Place |-> IF GetSucc(p) = Null THEN <<>> ELSE <<GetSucc(p)>> \o f[GetSucc(p)]]
  BY <1>1, <1>2
<1>. QED BY <1>3, Zenon DEF NodesFrom

LEMMA NodesAre ==
    ASSUME IInv, NEW sq, Represents(sq), NEW l \in List
    PROVE  NodesOf(l) = sq[l]
<1>0. sq \in [List -> Seq(Node)] BY DEF Represents
<1>1. PICK q \in Seq(Node) : q = sq[l] BY <1>0
<1>2. PICK len \in Nat : len = Len(q) OBVIOUS
<1>3. \A p \in Place : NodesFrom[p] =
        IF GetSucc(p) = Null THEN <<>> ELSE <<GetSucc(p)>> \o NodesFrom[GetSucc(p)]
  BY NodesFromIs
<1>4. \A i \in 0 .. len : At(sq, l, i) \in Place
  <2>1. \A i \in 0 .. len : i \in 0 .. Len(sq[l]) + 1 BY <1>1, <1>2
  <2>. QED BY <1>0, <2>1, PlaceOfList
<1> DEFINE T == {d \in 0 .. len : NodesFrom[At(sq, l, len - d)] # SubSeq(q, len - d + 1, len)}
<1>5. T = {}
  <2>1. SUFFICES ASSUME T # {} PROVE FALSE OBVIOUS
  <2>2. PICK d \in T : \A e \in T : d <= e
    <3>1. T \in SUBSET Nat OBVIOUS
    <3> HIDE DEF T
    <3>. QED BY <2>1, <3>1, Least
  <2>3. PICK i \in 0 .. len : i = len - d BY <1>2
  <2>4. NodesFrom[At(sq, l, i)] # SubSeq(q, i + 1, len) BY <2>3
  <2>5. CASE d = 0
    <3>1. GetSucc(At(sq, l, i)) = Null
      <4>1. i = Len(sq[l]) BY <1>1, <1>2, <2>3, <2>5
      <4>. QED BY <4>1, SuccOf
    <3>2. NodesFrom[At(sq, l, i)] = <<>> BY <1>3, <1>4, <3>1
    <3>3. i + 1 \in Int /\ len \in Int /\ len < i + 1 BY <2>3, <2>5
    <3>4. SubSeq(q, i + 1, len) = <<>> BY <3>3, SubSeqEmpty
    <3>. QED BY <2>4, <3>2, <3>4
  <2>6. CASE d # 0
    <3>1. d - 1 \in 0 .. len /\ d - 1 \notin T BY <2>2, <2>6
    <3>2. PICK j \in 1 .. Len(q) : j = i + 1 /\ j = len - (d - 1) /\ len \in j .. Len(q)
      <4>1. d \in 1 .. len BY <2>6
      <4>2. i + 1 = len - (d - 1) /\ i + 1 \in 1 .. len /\ len \in i + 1 .. len BY <2>3, <4>1
      <4>. QED BY <1>2, <4>2
    <3>3. NodesFrom[At(sq, l, j)] = SubSeq(q, j + 1, len) BY <3>1, <3>2
    <3>4. i \in 0 .. Len(sq[l]) - 1 BY <1>1, <1>2, <2>3, <2>6
    <3>5. GetSucc(At(sq, l, i)) = q[j] /\ q[j] \in Node BY <1>1, <3>2, <3>4, SuccOf
    <3>6. At(sq, l, j) = q[j] BY <1>0, <1>1, <3>2, SequenceTypes
    <3>7. q[j] # Null BY <3>5, ListsAssumption DEF Place
    <3>8. NodesFrom[At(sq, l, i)] = <<q[j]>> \o SubSeq(q, j + 1, len)
      BY <1>3, <1>4, <3>3, <3>5, <3>6, <3>7
    <3>9. SubSeq(q, j, len) = <<q[j]>> \o SubSeq(q, j + 1, len) BY <3>2, SubSeqRecursiveFirst
    <3>. QED BY <2>4, <3>2, <3>8, <3>9
  <2>. QED BY <2>5, <2>6
<1>6. NodesFrom[At(sq, l, 0)] = SubSeq(q, 1, len)
  <2>1. len \in 0 .. len /\ len - len = 0 /\ len - len + 1 = 1 OBVIOUS
  <2>. QED BY <1>5, <2>1
<1>7. SubSeq(q, 1, len) = q BY <1>2, SubSeqFull
<1>8. At(sq, l, 0) = HeadEnd(l) BY DEF At
<1>. QED BY <1>1, <1>6, <1>7, <1>8 DEF NodesOf

-----------------------------------------------------------------------------
(* The steps of the lists                                                  *)

Unmet(sq, n) == \A k \in List : \A j \in 1 .. Len(sq[k]) : sq[k][j] # n

\* Both insertions put a node that is in no list between two places of one.
LEMMA InsertRepresents ==
    ASSUME IInv, NEW sq, Represents(sq), NEW n \in Node, NEW q \in Place,
           InsertBefore(n, q) \/ InsertAfter(n, q)
    PROVE  \E l \in List : \E i \in 1 .. Len(sq[l]) + 1 :
              /\ Represents([sq EXCEPT ![l] = Put(sq[l], i, n)])'
              /\ Unmet(sq, n)
              /\ InsertAfter(n, q) => q = At(sq, l, i - 1)
<1>0. sq \in [List -> Seq(Node)] BY DEF Represents
<1>1. PICK p \in Place, s \in Place :
        /\ succ[n] = Null /\ succ[p] = s /\ s # Null
        /\ succ' = [succ EXCEPT ![n] = s, ![p] = n]
        /\ InsertAfter(n, q) => q = p
  <2>1. CASE InsertAfter(n, q)
    <3>1. succ[q] \in Place BY <2>1 DEF InsertAfter, IInv, TypeOK
    <3>2. /\ succ[n] = Null /\ succ[q] # Null
          /\ succ' = [succ EXCEPT ![n] = succ[q], ![q] = n]
      BY <2>1 DEF InsertAfter, IsLinked, Link
    <3>. QED BY <3>1, <3>2
  <2>2. CASE ~InsertAfter(n, q) /\ InsertBefore(n, q)
    <3>1. pred[q] \in Place BY <2>2 DEF InsertBefore, IInv, TypeOK
    <3>2. succ[pred[q]] = q BY <3>1 DEF IInv, Mirrored
    <3>3. /\ succ[n] = Null
          /\ succ' = [succ EXCEPT ![n] = q, ![pred[q]] = n]
      BY <2>2 DEF InsertBefore, IsLinked, Link
    <3>4. q # Null BY ListsAssumption
    <3>. QED BY <2>2, <3>1, <3>2, <3>3, <3>4
  <2>. QED BY <2>1, <2>2
<1>2. PICK l \in List : \E i \in 0 .. Len(sq[l]) : p = At(sq, l, i) /\ succ[p] = At(sq, l, i + 1)
  BY <1>1, PlaceMet
<1>3. PICK a \in 0 .. Len(sq[l]) : p = At(sq, l, a) /\ succ[p] = At(sq, l, a + 1) BY <1>2
<1>4. PICK i \in 1 .. Len(sq[l]) + 1 : i = a + 1 /\ i - 1 = a
  <2>1. Len(sq[l]) \in Nat BY <1>0
  <2>. QED BY <2>1
<1>5. succ' = [succ EXCEPT ![n] = At(sq, l, i), ![At(sq, l, i - 1)] = n] BY <1>1, <1>3, <1>4
<1>6. PICK w : w = [sq EXCEPT ![l] = Put(sq[l], i, n)] OBVIOUS
<1>7. Represents(w)' BY <1>1, <1>5, <1>6, JoinRepresents
<1>8. Unmet(sq, n) BY <1>1, MetLinked DEF Unmet
<1>9. InsertAfter(n, q) => q = At(sq, l, i - 1) BY <1>1, <1>3, <1>4
<1>. QED BY <1>6, <1>7, <1>8, <1>9

LEMMA RemoveRepresents ==
    ASSUME IInv, NEW sq, Represents(sq), NEW n \in Node, Remove(n)
    PROVE  \E l \in List : \E i \in 1 .. Len(sq[l]) :
              sq[l][i] = n /\ Represents([sq EXCEPT ![l] = Drop(sq[l], i)])'
<1>0. sq \in [List -> Seq(Node)] BY DEF Represents
<1>1. succ[n] # Null /\ succ' = [succ EXCEPT ![pred[n]] = succ[n], ![n] = Null]
  BY DEF Remove, IsLinked
<1>2. PICK l \in List : \E i \in 1 .. Len(sq[l]) : n = sq[l][i] BY <1>1 DEF Represents
<1>3. PICK i \in 1 .. Len(sq[l]) : n = sq[l][i] BY <1>2
<1>4. Len(sq[l]) \in Nat /\ At(sq, l, i) = n BY <1>0, <1>3, SequenceTypes
<1>5. /\ i \in 0 .. Len(sq[l]) /\ i - 1 \in 0 .. Len(sq[l]) /\ (i - 1) + 1 = i
      /\ i - 1 \in 0 .. Len(sq[l]) + 1
  BY <1>4
<1>6. succ[n] = At(sq, l, i + 1) BY <1>4, <1>5 DEF Represents
<1>7. pred[n] = At(sq, l, i - 1)
  <2>1. succ[At(sq, l, i - 1)] = At(sq, l, (i - 1) + 1) BY <1>5 DEF Represents
  <2>2. succ[At(sq, l, i - 1)] = n BY <1>4, <1>5, <2>1
  <2>3. At(sq, l, i - 1) \in Place BY <1>0, <1>5, PlaceOfList
  <2>4. n \in Place BY DEF Place
  <2>. QED BY <2>2, <2>3, <2>4 DEF IInv, Mirrored
<1>8. PICK w : w = [sq EXCEPT ![l] = Drop(sq[l], i)] OBVIOUS
<1>9. succ' = [succ EXCEPT ![At(sq, l, i - 1)] = At(sq, l, i + 1), ![sq[l][i]] = Null]
  BY <1>1, <1>3, <1>6, <1>7
<1>10. Represents(w)' BY <1>8, <1>9, LeaveRepresents
<1>. QED BY <1>3, <1>8, <1>10

LEMMA SameRepresents ==
    ASSUME NEW sq, Represents(sq), UNCHANGED links
    PROVE  Represents(sq)'
BY DEF Represents, links

\* Every step puts a node in at one place, takes one out, or does neither.
LEMMA NextRepresents ==
    ASSUME IInv, NEW sq, Represents(sq), [Next]_links
    PROVE  \/ Represents(sq)'
           \/ \E n \in Node, l \in List : \E i \in 1 .. Len(sq[l]) + 1 :
                 Unmet(sq, n) /\ Represents([sq EXCEPT ![l] = Put(sq[l], i, n)])'
           \/ \E n \in Node, l \in List : \E i \in 1 .. Len(sq[l]) :
                 sq[l][i] = n /\ Represents([sq EXCEPT ![l] = Drop(sq[l], i)])'
<1> DEFINE Joins == \E n \in Node, l \in List : \E i \in 1 .. Len(sq[l]) + 1 :
                       Unmet(sq, n) /\ Represents([sq EXCEPT ![l] = Put(sq[l], i, n)])'
           Leaves == \E n \in Node, l \in List : \E i \in 1 .. Len(sq[l]) :
                        sq[l][i] = n /\ Represents([sq EXCEPT ![l] = Drop(sq[l], i)])'
<1>1. ASSUME NEW n \in Node, NEW q \in Place, InsertBefore(n, q) \/ InsertAfter(n, q) PROVE Joins
  BY <1>1, InsertRepresents
<1>2. ASSUME NEW n \in Node, Remove(n) PROVE Leaves
  BY <1>2, RemoveRepresents
<1> HIDE DEF Joins, Leaves
<1>3. ASSUME NEW n \in Node, NEW m \in Node, InsertBefore(n, m) \/ InsertAfter(n, m) PROVE Joins
  BY <1>1, <1>3 DEF Place
<1>4. ASSUME NEW l \in List, NEW n \in Node, AddHead(l, n) \/ AddTail(l, n) PROVE Joins
  BY <1>1, <1>4, Ends DEF AddHead, AddTail
<1>5. ASSUME NEW l \in List, RemHead(l) \/ RemTail(l) PROVE Leaves
  BY <1>2, <1>5, EndNodes DEF RemHead, RemTail
<1>6. ASSUME UNCHANGED links PROVE Represents(sq)' BY <1>6, SameRepresents
<1>7. ASSUME Next PROVE Joins \/ Leaves
  <2>1. \/ \E n, m \in Node : InsertBefore(n, m) \/ InsertAfter(n, m)
        \/ \E n \in Node : Remove(n)
        \/ \E l \in List, n \in Node : AddHead(l, n) \/ AddTail(l, n)
        \/ \E l \in List : RemHead(l) \/ RemTail(l)
    BY <1>7 DEF Next
  <2>2. CASE \E n, m \in Node : InsertBefore(n, m) \/ InsertAfter(n, m) BY <1>3, <2>2
  <2>3. CASE \E n \in Node : Remove(n) BY <1>2, <2>3
  <2>4. CASE \E l \in List, n \in Node : AddHead(l, n) \/ AddTail(l, n) BY <1>4, <2>4
  <2>5. CASE \E l \in List : RemHead(l) \/ RemTail(l) BY <1>5, <2>5
  <2>. QED BY <2>1, <2>2, <2>3, <2>4, <2>5
<1>8. Represents(sq)' \/ Joins \/ Leaves BY <1>6, <1>7
<1>. QED BY <1>8 DEF Joins, Leaves

-----------------------------------------------------------------------------
ListsInv == IInv /\ \E sq : Represents(sq)

LEMMA ListsInvInit == Init => ListsInv
  BY InitMirrored, InitRepresents DEF ListsInv

LEMMA ListsInvNext == ListsInv /\ [Next]_links => ListsInv'
<1> SUFFICES ASSUME ListsInv, [Next]_links PROVE ListsInv' OBVIOUS
<1>1. IInv' BY NextMirrored DEF ListsInv
<1>2. PICK sq : Represents(sq) BY DEF ListsInv
<1>3. \E w : Represents(w)' BY <1>2, NextRepresents DEF ListsInv
<1>. QED BY <1>1, <1>3 DEF ListsInv

\* The sequences are what Abstract is told of the lists.
Mapped == \A sq : Represents(sq) => [l \in List |-> NodesOf(l)] = sq

LEMMA NodesMapped == IInv => Mapped
<1> SUFFICES ASSUME IInv, NEW sq, Represents(sq) PROVE [l \in List |-> NodesOf(l)] = sq
  BY DEF Mapped
<1>1. sq \in [List -> Seq(Node)] BY DEF Represents
<1>2. \A l \in List : NodesOf(l) = sq[l] BY NodesAre
<1>. QED BY <1>1, <1>2

LEMMA NodesMappedNext == IInv' => Mapped'
  BY NodesMapped, PTL

LEMMA AbstractInit == Init => Abstract!Init
<1> SUFFICES ASSUME Init PROVE Abstract!Init OBVIOUS
<1>1. Mapped BY InitMirrored, NodesMapped
<1>2. [l \in List |-> NodesOf(l)] = [l \in List |-> <<>>] BY <1>1, InitRepresents DEF Mapped
<1>. QED BY <1>2 DEF Abstract!Init

LEMMA AbstractNext == ListsInv /\ [Next]_links => [Abstract!Next]_([l \in List |-> NodesOf(l)])
<1> SUFFICES ASSUME ListsInv, [Next]_links
             PROVE  [Abstract!Next]_([l \in List |-> NodesOf(l)])
  OBVIOUS
<1>1. IInv /\ Mapped /\ Mapped' BY NextMirrored, NodesMapped, NodesMappedNext DEF ListsInv
<1>2. PICK sq : Represents(sq) BY DEF ListsInv
<1>3. [l \in List |-> NodesOf(l)] = sq BY <1>1, <1>2 DEF Mapped
<1>4. ASSUME NEW w, Represents(w)' PROVE [l \in List |-> NodesOf(l)]' = w
  BY <1>1, <1>4 DEF Mapped
<1>5. sq \in [List -> Seq(Node)] BY <1>2 DEF Represents
<1>6. CASE Represents(sq)' BY <1>3, <1>4, <1>6
<1>7. ASSUME NEW n \in Node, NEW l \in List, NEW i \in 1 .. Len(sq[l]) + 1,
             Unmet(sq, n), Represents([sq EXCEPT ![l] = Put(sq[l], i, n)])'
      PROVE  Abstract!Next
  <2>1. [k \in List |-> NodesOf(k)]' = [sq EXCEPT ![l] = Put(sq[l], i, n)] BY <1>4, <1>7
  <2>2. \A k \in List : n \notin Abstract!ToSet(sq[k])
    <3>1. \A k \in List : DOMAIN sq[k] = 1 .. Len(sq[k]) BY <1>5
    <3>. QED BY <1>7, <3>1 DEF Abstract!ToSet, Unmet
  <2>3. Put(sq[l], i, n) = Abstract!InsertAt(sq[l], i, n) BY DEF Put, Abstract!InsertAt
  <2>4. Abstract!Join(n, l) BY <1>3, <2>1, <2>2, <2>3 DEF Abstract!Join
  <2>. QED BY <2>4 DEF Abstract!Next
<1>8. ASSUME NEW n \in Node, NEW l \in List, NEW i \in 1 .. Len(sq[l]),
             sq[l][i] = n, Represents([sq EXCEPT ![l] = Drop(sq[l], i)])'
      PROVE  Abstract!Next
  <2>1. [k \in List |-> NodesOf(k)]' = [sq EXCEPT ![l] = Drop(sq[l], i)] BY <1>4, <1>8
  <2>2. i \in DOMAIN sq[l] BY <1>5
  <2>3. Drop(sq[l], i) = Abstract!RemoveAt(sq[l], i) BY DEF Drop, Abstract!RemoveAt
  <2>4. Abstract!Leave(n, l) BY <1>3, <1>8, <2>1, <2>2, <2>3 DEF Abstract!Leave
  <2>. QED BY <2>4 DEF Abstract!Next
<1>. QED BY <1>1, <1>2, <1>6, <1>7, <1>8, NextRepresents

\* nList keeps its promise, for any number of nodes and lists: whatever nodes and lists are
\* asked for, a list is the sequence of nodes that the calls made it, and a call moves no
\* node but the one it is for.
THEOREM ListsImplementSequences == Spec => ListsAreSequences
<1>1. Init => Abstract!Init BY AbstractInit
<1>2. ListsInv /\ [Next]_links => [Abstract!Next]_([l \in List |-> NodesOf(l)]) BY AbstractNext
<1>. QED BY <1>1, <1>2, ListsInvInit, ListsInvNext, PTL DEF Spec, ListsAreSequences, Abstract!Spec

\* So do the lists of the hash table and its clients.
THEOREM TableImplementsSequences == TableSpec => ListsAreSequences
  BY TableImplementsLists, ListsImplementSequences, PTL

-----------------------------------------------------------------------------
(* Names.  The nodes that were filed under a list stand in it in the order *)
(* in which they were filed, newest first, whatever else stands between    *)
(* them.                                                                   *)

In(sq, l, n) == \E a \in 1 .. Len(sq[l]) : sq[l][a] = n

Before(sq, l, m, n) == \E a, b \in 1 .. Len(sq[l]) : a < b /\ sq[l][a] = m /\ sq[l][b] = n

Its(n) == hash(name[n])

FiledIn(sq) ==
    /\ filed \in Seq(Node)
    /\ \A i \in 1 .. Len(filed) : In(sq, Its(filed[i]), filed[i])
    /\ \A i, j \in 1 .. Len(filed) :
          i < j /\ Its(filed[i]) = Its(filed[j]) => Before(sq, Its(filed[i]), filed[i], filed[j])

TableInv == IInv /\ Named /\ \E sq : Represents(sq) /\ FiledIn(sq)

IsWith(w, sq, l, i, n) == w = [sq EXCEPT ![l] = Put(sq[l], i, n)]

LEMMA PutKeeps ==
    ASSUME NEW sq, sq \in [List -> Seq(Node)], NEW l \in List, NEW i, i \in 1 .. Len(sq[l]) + 1,
           NEW n \in Node, NEW w, IsWith(w, sq, l, i, n)
    PROVE  /\ In(w, l, n)
           /\ \A k \in List : \A m : In(sq, k, m) => In(w, k, m)
           /\ \A k \in List : \A m, h : Before(sq, k, m, h) => Before(w, k, m, h)
           /\ i = 1 => \A m : In(sq, l, m) => Before(w, l, n, m)
<1>0. w = [sq EXCEPT ![l] = Put(sq[l], i, n)] BY DEF IsWith
<1>1. PICK len \in Nat : len = Len(sq[l]) /\ i \in 1 .. len + 1 OBVIOUS
<1>2. /\ Len(w[l]) = len + 1
      /\ \A j \in 1 .. len + 1 : w[l][j] = IF j < i THEN sq[l][j] ELSE IF j = i THEN n ELSE sq[l][j - 1]
      /\ \A k \in List : k # l => w[k] = sq[k]
  <2>1. /\ Len(Put(sq[l], i, n)) = len + 1
        /\ \A j \in 1 .. len + 1 :
              Put(sq[l], i, n)[j] = IF j < i THEN sq[l][j] ELSE IF j = i THEN n ELSE sq[l][j - 1]
    BY <1>1, PutIs
  <2>. QED BY <1>0, <2>1
<1>3. i \in 1 .. Len(w[l]) /\ w[l][i] = n BY <1>1, <1>2
<1>4. ASSUME NEW k \in List, NEW a \in 1 .. Len(sq[k])
      PROVE  \E b \in 1 .. Len(w[k]) : w[k][b] = sq[k][a] /\ b = IF k = l /\ a >= i THEN a + 1 ELSE a
  <2>1. CASE k # l BY <1>2, <2>1
  <2>2. CASE k = l /\ a < i
    <3>1. a \in 1 .. len + 1 /\ a \in 1 .. Len(w[k]) /\ ~(a >= i) BY <1>1, <1>2, <2>2
    <3>2. w[k][a] = sq[k][a] BY <1>2, <2>2, <3>1
    <3>. QED BY <3>1, <3>2
  <2>3. CASE k = l /\ a >= i
    <3>1. PICK b \in 1 .. len + 1 : b = a + 1 /\ ~(b < i) /\ b # i /\ b - 1 = a BY <1>1, <2>3
    <3>2. w[k][b] = sq[k][a] BY <1>2, <2>3, <3>1
    <3>. QED BY <1>2, <2>3, <3>1, <3>2
  <2>. QED BY <1>1, <2>1, <2>2, <2>3
<1>5. ASSUME NEW k \in List, NEW m, NEW h, Before(sq, k, m, h) PROVE Before(w, k, m, h)
  <2>1. PICK a, b \in 1 .. Len(sq[k]) : a < b /\ sq[k][a] = m /\ sq[k][b] = h BY <1>5 DEF Before
  <2>2. PICK c \in 1 .. Len(w[k]) : w[k][c] = sq[k][a] /\ c = IF k = l /\ a >= i THEN a + 1 ELSE a
    BY <1>4
  <2>3. PICK d \in 1 .. Len(w[k]) : w[k][d] = sq[k][b] /\ d = IF k = l /\ b >= i THEN b + 1 ELSE b
    BY <1>4
  <2>4. c < d
    <3>1. a \in Nat /\ b \in Nat /\ i \in Nat BY <1>1
    <3>. QED BY <2>1, <2>2, <2>3, <3>1
  <2>. QED BY <2>1, <2>2, <2>3, <2>4 DEF Before
<1>6. ASSUME i = 1, NEW m, In(sq, l, m) PROVE Before(w, l, n, m)
  <2>1. PICK a \in 1 .. Len(sq[l]) : sq[l][a] = m BY <1>6 DEF In
  <2>2. PICK b \in 1 .. Len(w[l]) : w[l][b] = sq[l][a] /\ b = a + 1 BY <1>1, <1>4, <1>6
  <2>3. i < b BY <1>1, <1>6, <2>2
  <2>. QED BY <1>3, <2>1, <2>2, <2>3 DEF Before
<1>7. ASSUME NEW k \in List, NEW m, In(sq, k, m) PROVE In(w, k, m)
  <2>1. PICK a \in 1 .. Len(sq[k]) : sq[k][a] = m BY <1>7 DEF In
  <2>2. \E b \in 1 .. Len(w[k]) : w[k][b] = sq[k][a] BY <1>4
  <2>. QED BY <2>1, <2>2 DEF In
<1>8. In(w, l, n) BY <1>3 DEF In
<1>. QED BY <1>5, <1>6, <1>7, <1>8

LEMMA DropKeeps ==
    ASSUME NEW sq \in [List -> Seq(Node)], NEW l \in List, NEW i \in 1 .. Len(sq[l]),
           NEW w, w = [sq EXCEPT ![l] = Drop(sq[l], i)]
    PROVE  /\ \A k \in List : \A m : m # sq[l][i] /\ In(sq, k, m) => In(w, k, m)
           /\ \A k \in List : \A m, h :
                 m # sq[l][i] /\ h # sq[l][i] /\ Before(sq, k, m, h) => Before(w, k, m, h)
<1>1. PICK len \in Nat : len = Len(sq[l]) /\ i \in 1 .. len OBVIOUS
<1>2. /\ Len(w[l]) = len - 1
      /\ \A j \in 1 .. len - 1 : w[l][j] = IF j < i THEN sq[l][j] ELSE sq[l][j + 1]
      /\ \A k \in List : k # l => w[k] = sq[k]
  <2>1. /\ Len(Drop(sq[l], i)) = len - 1
        /\ \A j \in 1 .. len - 1 : Drop(sq[l], i)[j] = IF j < i THEN sq[l][j] ELSE sq[l][j + 1]
    BY <1>1, DropIs
  <2>. QED BY <2>1
<1>3. ASSUME NEW k \in List, NEW a \in 1 .. Len(sq[k]), sq[k][a] # sq[l][i]
      PROVE  \E b \in 1 .. Len(w[k]) : w[k][b] = sq[k][a] /\ b = IF k = l /\ a > i THEN a - 1 ELSE a
  <2>1. CASE k # l BY <1>2, <2>1
  <2>2. CASE k = l /\ a < i
    <3>1. a \in 1 .. len - 1 /\ a \in 1 .. Len(w[k]) /\ ~(a > i) BY <1>1, <1>2, <2>2
    <3>2. w[k][a] = sq[k][a] BY <1>2, <2>2, <3>1
    <3>. QED BY <3>1, <3>2
  <2>3. CASE k = l /\ a > i
    <3>1. PICK b \in 1 .. len - 1 : b = a - 1 /\ ~(b < i) /\ b + 1 = a BY <1>1, <2>3
    <3>2. w[k][b] = sq[k][a] BY <1>2, <2>3, <3>1
    <3>. QED BY <1>2, <2>3, <3>1, <3>2
  <2>. QED BY <1>1, <1>3, <2>1, <2>2, <2>3
<1>4. ASSUME NEW k \in List, NEW m, NEW h,
             m # sq[l][i], h # sq[l][i], Before(sq, k, m, h)
      PROVE  Before(w, k, m, h)
  <2>1. PICK a, b \in 1 .. Len(sq[k]) : a < b /\ sq[k][a] = m /\ sq[k][b] = h BY <1>4 DEF Before
  <2>2. PICK c \in 1 .. Len(w[k]) : w[k][c] = sq[k][a] /\ c = IF k = l /\ a > i THEN a - 1 ELSE a
    BY <1>3, <1>4, <2>1
  <2>3. PICK d \in 1 .. Len(w[k]) : w[k][d] = sq[k][b] /\ d = IF k = l /\ b > i THEN b - 1 ELSE b
    BY <1>3, <1>4, <2>1
  <2>4. c < d
    <3>1. a \in Nat /\ b \in Nat /\ i \in Nat BY <1>1
    <3>2. k = l => a # i /\ b # i BY <1>4, <2>1
    <3>. QED BY <2>1, <2>2, <2>3, <3>1, <3>2
  <2>. QED BY <2>1, <2>2, <2>3, <2>4 DEF Before
<1>5. ASSUME NEW k \in List, NEW m, m # sq[l][i], In(sq, k, m) PROVE In(w, k, m)
  <2>1. PICK a \in 1 .. Len(sq[k]) : sq[k][a] = m BY <1>5 DEF In
  <2>2. \E b \in 1 .. Len(w[k]) : w[k][b] = sq[k][a] BY <1>3, <1>5, <2>1
  <2>. QED BY <2>1, <2>2 DEF In
<1>. QED BY <1>4, <1>5

\* A node that is in a list is in no other and only once, and it is linked.
LEMMA InOnce ==
    ASSUME NEW sq, Represents(sq), NEW k \in List, NEW n, In(sq, k, n)
    PROVE  /\ succ[n] # Null /\ n \in Node /\ ~Before(sq, k, n, n)
           /\ \A l \in List : In(sq, l, n) => l = k
BY SMTT(60), MetLinked DEF In, Before, Represents

\* Filed nodes are linked and filed once.
LEMMA FiledOnce ==
    ASSUME Named, NEW sq, Represents(sq), FiledIn(sq)
    PROVE  /\ \A i \in 1 .. Len(filed) :
                 filed[i] \in Node /\ Its(filed[i]) \in List /\ succ[filed[i]] # Null
           /\ \A i, j \in 1 .. Len(filed) : filed[i] = filed[j] => i = j
<1>1. filed \in Seq(Node) BY DEF FiledIn
<1>2. Len(filed) \in Nat /\ \A i \in 1 .. Len(filed) : filed[i] \in Node BY <1>1
<1>3. \A n \in Node : Its(n) \in List BY TableAssumption DEF Named, Its
<1>4. ASSUME NEW i \in 1 .. Len(filed)
      PROVE  succ[filed[i]] # Null /\ ~Before(sq, Its(filed[i]), filed[i], filed[i])
  BY <1>2, <1>3, InOnce DEF FiledIn
<1>5. ASSUME NEW i \in 1 .. Len(filed), NEW j \in 1 .. Len(filed), filed[i] = filed[j]
      PROVE  ~(i < j)
  BY <1>4, <1>5 DEF FiledIn
<1>6. ASSUME NEW i \in 1 .. Len(filed), NEW j \in 1 .. Len(filed), filed[i] = filed[j]
      PROVE  i = j
  <2>1. ~(i < j) /\ ~(j < i) BY <1>5, <1>6
  <2>. QED BY <1>2, <2>1
<1>. QED BY <1>2, <1>3, <1>4, <1>6

\* Nothing is filed or forgotten, and the filed nodes keep their names, lists and order.
LEMMA FiledKept ==
    ASSUME Named, NEW sq, Represents(sq), FiledIn(sq), NEW w, filed' = filed, name' = name,
           \A i \in 1 .. Len(filed) : \A k \in List :
              In(sq, k, filed[i]) => In(w, k, filed[i]),
           \A i, j \in 1 .. Len(filed) : \A k \in List :
              Before(sq, k, filed[i], filed[j]) => Before(w, k, filed[i], filed[j])
    PROVE  FiledIn(w)'
<1>1. \A i \in 1 .. Len(filed) : Its(filed[i]) \in List BY FiledOnce
<1>2. \A n : hash(name'[n]) = Its(n) BY DEF Its
<1>3. \A i \in 1 .. Len(filed') : In(w, hash(name'[filed'[i]]), filed'[i]) BY <1>1, <1>2 DEF FiledIn
<1>4. \A i, j \in 1 .. Len(filed') :
        i < j /\ hash(name'[filed'[i]]) = hash(name'[filed'[j]]) => Before(w, hash(name'[filed'[i]]), filed'[i], filed'[j])
  BY <1>1, <1>2 DEF FiledIn
<1>. QED BY <1>3, <1>4 DEF FiledIn, In, Before, Its

\* A node is forgotten and the others keep their names, lists and order.
LEMMA FiledForgot ==
    ASSUME Named, NEW sq, Represents(sq), FiledIn(sq), NEW w, NEW n \in Node, Forget(n),
           \A m \in Node : m # n => name'[m] = name[m],
           \A k \in List : \A m : m # n /\ In(sq, k, m) => In(w, k, m),
           \A k \in List : \A m, h : m # n /\ h # n /\ Before(sq, k, m, h) => Before(w, k, m, h)
    PROVE  FiledIn(w)'
<1>1. /\ \A i \in 1 .. Len(filed) : filed[i] \in Node /\ Its(filed[i]) \in List
      /\ \A i, j \in 1 .. Len(filed) : filed[i] = filed[j] => i = j
  BY FiledOnce
<1>2. filed \in Seq(Node) BY DEF FiledIn
<1>3. \A m \in Node : m # n => hash(name'[m]) = Its(m) BY DEF Its
\* What is left are the others, in their order.
<1>4. /\ filed' \in Seq(Node)
      /\ \A i \in 1 .. Len(filed') : \E a \in 1 .. Len(filed) : filed'[i] = filed[a] /\ filed[a] # n
      /\ \A i, j \in 1 .. Len(filed') : i < j =>
            \E a, b \in 1 .. Len(filed) :
               a < b /\ filed'[i] = filed[a] /\ filed'[j] = filed[b] /\ filed[a] # n /\ filed[b] # n
  <2>1. CASE (\A i \in DOMAIN filed : filed[i] # n) /\ UNCHANGED filed
    <3>1. DOMAIN filed = 1 .. Len(filed) BY <1>2
    <3>. QED BY <1>2, <2>1, <3>1
  <2>2. CASE \E i \in DOMAIN filed : filed[i] = n /\ filed' = SeqExt!RemoveAt(filed, i)
    <3>1. PICK e \in DOMAIN filed : filed[e] = n /\ filed' = SeqExt!RemoveAt(filed, e) BY <2>2
    <3>2. PICK len \in Nat : len = Len(filed) /\ e \in 1 .. Len(filed) /\ e \in 1 .. len BY <1>2
    <3>3. filed' = Drop(filed, e) BY <3>1 DEF SeqExt!RemoveAt, Drop
    <3>4. /\ filed' \in Seq(Node) /\ Len(filed') = len - 1
          /\ \A j \in 1 .. len - 1 : filed'[j] = IF j < e THEN filed[j] ELSE filed[j + 1]
      BY <1>2, <3>2, <3>3, DropIs
    <3>5. ASSUME NEW i \in 1 .. len - 1
          PROVE  \E a \in 1 .. Len(filed) :
                    filed'[i] = filed[a] /\ filed[a] # n /\ a = IF i < e THEN i ELSE i + 1
      <4>1. PICK a \in 1 .. len : a = IF i < e THEN i ELSE i + 1 BY <3>2
      <4>2. filed'[i] = filed[a] BY <3>4, <4>1
      <4>3. a # e BY <3>2, <4>1
      <4>4. filed[a] # n BY <1>1, <3>1, <3>2, <4>3
      <4>. QED BY <3>2, <4>1, <4>2, <4>4
    <3>6. ASSUME NEW i \in 1 .. len - 1, NEW j \in 1 .. len - 1, i < j
          PROVE  \E a, b \in 1 .. Len(filed) :
                    a < b /\ filed'[i] = filed[a] /\ filed'[j] = filed[b] /\ filed[a] # n /\ filed[b] # n
      <4>1. PICK a \in 1 .. Len(filed) :
              filed'[i] = filed[a] /\ filed[a] # n /\ a = IF i < e THEN i ELSE i + 1
        BY <3>5
      <4>2. PICK b \in 1 .. Len(filed) :
              filed'[j] = filed[b] /\ filed[b] # n /\ b = IF j < e THEN j ELSE j + 1
        BY <3>5
      <4>3. a < b BY <3>2, <3>6, <4>1, <4>2
      <4>. QED BY <4>1, <4>2, <4>3
    <3>7. filed' \in Seq(Node) /\ 1 .. Len(filed') = 1 .. len - 1 BY <3>4
    <3>8. \A i \in 1 .. Len(filed') : \E a \in 1 .. Len(filed) : filed'[i] = filed[a] /\ filed[a] # n
      BY <3>5, <3>7
    <3>9. \A i, j \in 1 .. Len(filed') : i < j =>
            \E a, b \in 1 .. Len(filed) :
               a < b /\ filed'[i] = filed[a] /\ filed'[j] = filed[b] /\ filed[a] # n /\ filed[b] # n
      BY <3>6, <3>7
    <3>. QED BY <3>7, <3>8, <3>9
  <2>. QED BY <2>1, <2>2 DEF Forget
<1>5. ASSUME NEW i \in 1 .. Len(filed') PROVE In(w, hash(name'[filed'[i]]), filed'[i])
  <2>1. PICK a \in 1 .. Len(filed) : filed'[i] = filed[a] /\ filed[a] # n BY <1>4
  <2>2. In(sq, Its(filed[a]), filed[a]) BY DEF FiledIn
  <2>3. In(w, Its(filed[a]), filed[a]) BY <1>1, <2>1, <2>2
  <2>. QED BY <1>1, <1>3, <2>1, <2>3
<1>6. ASSUME NEW i \in 1 .. Len(filed'), NEW j \in 1 .. Len(filed'),
             i < j, hash(name'[filed'[i]]) = hash(name'[filed'[j]])
      PROVE  Before(w, hash(name'[filed'[i]]), filed'[i], filed'[j])
  <2>1. PICK a, b \in 1 .. Len(filed) :
          a < b /\ filed'[i] = filed[a] /\ filed'[j] = filed[b] /\ filed[a] # n /\ filed[b] # n
    BY <1>4, <1>6
  <2>2. hash(name'[filed[a]]) = Its(filed[a]) /\ hash(name'[filed[b]]) = Its(filed[b])
    BY <1>1, <1>3, <2>1
  <2>3. hash(name'[filed'[i]]) = Its(filed[a]) /\ hash(name'[filed'[j]]) = Its(filed[b]) BY <2>1, <2>2
  <2>4. Before(sq, Its(filed[a]), filed[a], filed[b]) BY <1>6, <2>1, <2>3 DEF FiledIn
  <2>5. Before(w, Its(filed[a]), filed[a], filed[b]) BY <1>1, <2>1, <2>4
  <2>. QED BY <2>1, <2>3, <2>5
<1>. QED BY <1>4, <1>5, <1>6 DEF FiledIn, In, Before, Its

LEMMA FiledNext ==
    ASSUME NEW w, filed' \in Seq(Node),
           \A i \in 1 .. Len(filed') : In(w, hash(name'[filed'[i]]), filed'[i]),
           \A i, j \in 1 .. Len(filed') :
              i < j /\ hash(name'[filed'[i]]) = hash(name'[filed'[j]])
                 => Before(w, hash(name'[filed'[i]]), filed'[i], filed'[j])
    PROVE  FiledIn(w)'
BY DEF FiledIn, In, Before, Its

\* A node is filed before the others of its list.
LEMMA FiledAdded ==
    ASSUME Named, NEW sq, Represents(sq), FiledIn(sq), NEW w, NEW n \in Node,
           filed' = <<n>> \o filed, name' = name,
           In(w, Its(n), n),
           \A k \in List : \A m : In(sq, k, m) => In(w, k, m),
           \A k \in List : \A m, h : Before(sq, k, m, h) => Before(w, k, m, h),
           \A m : In(sq, Its(n), m) => Before(w, Its(n), n, m)
    PROVE  FiledIn(w)'
<1>1. \A i \in 1 .. Len(filed) : filed[i] \in Node /\ Its(filed[i]) \in List BY FiledOnce
<1>2. \A m : hash(name'[m]) = Its(m) BY DEF Its
<1>3. PICK len \in Nat : len = Len(filed) BY DEF FiledIn
<1>4. /\ filed' \in Seq(Node) /\ Len(filed') = len + 1 /\ filed'[1] = n
      /\ \A i \in 1 .. len + 1 : i # 1 => i - 1 \in 1 .. Len(filed) /\ filed'[i] = filed[i - 1]
  <2>1. filed \in Seq(Node) /\ <<n>> \in Seq(Node) /\ Len(<<n>>) = 1 BY DEF FiledIn
  <2>2. PICK g : g = <<n>> /\ filed' = g \o filed OBVIOUS
  <2>3. /\ filed' \in Seq(Node) /\ Len(filed') = Len(g) + Len(filed)
        /\ \A i \in 1 .. Len(g) + Len(filed) :
              filed'[i] = IF i <= Len(g) THEN g[i] ELSE filed[i - Len(g)]
    BY <2>1, <2>2, ConcatProperties
  <2>4. Len(g) = 1 /\ g[1] = n BY <2>2
  <2>. QED BY <1>3, <2>3, <2>4
<1>5. ASSUME NEW i \in 1 .. Len(filed') PROVE In(w, hash(name'[filed'[i]]), filed'[i])
  <2>1. CASE i = 1 BY <1>2, <1>4, <2>1
  <2>2. CASE i # 1
    <3>1. PICK a \in 1 .. Len(filed) : filed'[i] = filed[a] BY <1>4, <2>2
    <3>2. In(sq, Its(filed[a]), filed[a]) BY DEF FiledIn
    <3>. QED BY <1>1, <1>2, <3>1, <3>2
  <2>. QED BY <2>1, <2>2
<1>6. ASSUME NEW i \in 1 .. Len(filed'), NEW j \in 1 .. Len(filed'),
             i < j, hash(name'[filed'[i]]) = hash(name'[filed'[j]])
      PROVE  Before(w, hash(name'[filed'[i]]), filed'[i], filed'[j])
  <2>1. j # 1 BY <1>4, <1>6
  <2>2. PICK b \in 1 .. Len(filed) : filed'[j] = filed[b] /\ b = j - 1 BY <1>4, <2>1
  <2>3. In(sq, Its(filed[b]), filed[b]) BY DEF FiledIn
  <2>4. CASE i = 1
    <3>1. filed'[i] = n /\ Its(filed[b]) = Its(n) BY <1>2, <1>4, <1>6, <2>2, <2>4
    <3>. QED BY <1>2, <2>2, <2>3, <3>1
  <2>5. CASE i # 1
    <3>1. PICK a \in 1 .. Len(filed) : filed'[i] = filed[a] /\ a = i - 1 BY <1>4, <2>5
    <3>2. a < b BY <1>4, <1>6, <2>2, <3>1
    <3>3. Its(filed[a]) = Its(filed[b]) BY <1>2, <1>6, <2>2, <3>1
    <3>4. Before(sq, Its(filed[a]), filed[a], filed[b]) BY <3>2, <3>3 DEF FiledIn
    <3>. QED BY <1>1, <1>2, <2>2, <3>1, <3>4
  <2>. QED BY <2>4, <2>5
<1>7. filed' \in Seq(Node) BY <1>4
<1>. QED BY <1>5, <1>6, <1>7, FiledNext

LEMMA TableInvInit == TableInit => TableInv
<1> SUFFICES ASSUME TableInit PROVE TableInv OBVIOUS
<1>1. IInv BY InitMirrored DEF TableInit
<1>2. Named BY DEF TableInit, Named
<1>3. Represents([l \in List |-> <<>>]) BY InitRepresents DEF TableInit
<1>4. filed = <<>> BY DEF TableInit
<1>5. FiledIn([l \in List |-> <<>>]) BY <1>4 DEF FiledIn
<1>. QED BY <1>1, <1>2, <1>3, <1>5 DEF TableInv

LEMMA TableInvNext == TableInv /\ [TableNext]_tableVars => TableInv'
<1> SUFFICES ASSUME TableInv, [TableNext]_tableVars PROVE TableInv' OBVIOUS
<1>1. IInv /\ Named BY DEF TableInv
<1>2. PICK sq : Represents(sq) /\ FiledIn(sq) BY DEF TableInv
<1>3. Named' /\ [Next]_links BY <1>1, TableStepIsListStep
<1>4. IInv' BY <1>1, <1>3, NextMirrored
<1>5. sq \in [List -> Seq(Node)] BY <1>2 DEF Represents
<1>6. /\ \A i \in 1 .. Len(filed) :
            filed[i] \in Node /\ Its(filed[i]) \in List /\ succ[filed[i]] # Null
      /\ \A n \in Node : Its(n) \in List
  BY <1>1, <1>2, FiledOnce, TableAssumption DEF Named, Its
<1> DEFINE Goal == \E w : Represents(w)' /\ FiledIn(w)'
<1>7. ASSUME NEW n \in Node, Add(n) PROVE Goal
  <2>1. /\ InsertAfter(n, HeadEnd(Its(n))) /\ HeadEnd(Its(n)) \in Place
        /\ filed' = <<n>> \o filed /\ name' = name
    BY <1>6, <1>7, Ends DEF Add, AddHead, Its
  <2>2. PICK l \in List : \E i \in 1 .. Len(sq[l]) + 1 :
          /\ Represents([sq EXCEPT ![l] = Put(sq[l], i, n)])'
          /\ HeadEnd(Its(n)) = At(sq, l, i - 1)
    BY ZenonT(30), <1>1, <1>2, <2>1, InsertRepresents
  <2>3. PICK i \in 1 .. Len(sq[l]) + 1 :
          /\ Represents([sq EXCEPT ![l] = Put(sq[l], i, n)])'
          /\ HeadEnd(Its(n)) = At(sq, l, i - 1)
    BY <2>2
  <2>4. l = Its(n) /\ i = 1
    <3>1. Len(sq[l]) \in Nat /\ Len(sq[Its(n)]) \in Nat BY <1>5, <1>6
    <3>2. i - 1 \in 0 .. Len(sq[l]) /\ 0 \in 0 .. Len(sq[Its(n)]) BY <3>1
    <3>3. At(sq, Its(n), 0) = At(sq, l, i - 1) BY <2>3 DEF At
    <3>4. l = Its(n) /\ i - 1 = 0 BY <1>2, <1>6, <3>2, <3>3, PlacesApart
    <3>. QED BY <3>1, <3>4
  <2>5. PICK w : w = [sq EXCEPT ![l] = Put(sq[l], i, n)] OBVIOUS
  <2>8. IsWith(w, sq, l, i, n) BY <2>5 DEF IsWith
  <2>6. /\ In(w, l, n)
        /\ \A k \in List : \A m : In(sq, k, m) => In(w, k, m)
        /\ \A k \in List : \A m, h : Before(sq, k, m, h) => Before(w, k, m, h)
        /\ \A m : In(sq, l, m) => Before(w, l, n, m)
    <3>1. /\ In(w, l, n)
          /\ \A k \in List : \A m : In(sq, k, m) => In(w, k, m)
          /\ \A k \in List : \A m, h : Before(sq, k, m, h) => Before(w, k, m, h)
          /\ i = 1 => \A m : In(sq, l, m) => Before(w, l, n, m)
      <4>1. In(w, l, n) BY <1>5, <2>8, PutKeeps, Zenon
      <4>2. \A k \in List : \A m : In(sq, k, m) => In(w, k, m) BY <1>5, <2>8, PutKeeps, Zenon
      <4>3. \A k \in List : \A m, h : Before(sq, k, m, h) => Before(w, k, m, h)
        BY <1>5, <2>8, PutKeeps, Zenon
      <4>4. i = 1 => \A m : In(sq, l, m) => Before(w, l, n, m) BY <1>5, <2>8, PutKeeps, Zenon
      <4>. QED BY <4>1, <4>2, <4>3, <4>4
    <3>. QED BY <2>4, <3>1
  <2>7. FiledIn(w)' BY <1>1, <1>2, <2>1, <2>4, <2>6, FiledAdded
  <2>. QED BY <2>3, <2>5, <2>7
<1>8. ASSUME NEW n \in Node, TakeOut(n) PROVE Goal
  <2>1. Remove(n) /\ Forget(n) /\ name' = name BY <1>8 DEF TakeOut
  <2>2. PICK l \in List : \E i \in 1 .. Len(sq[l]) :
          sq[l][i] = n /\ Represents([sq EXCEPT ![l] = Drop(sq[l], i)])'
    BY <1>1, <1>2, <2>1, RemoveRepresents
  <2>3. PICK i \in 1 .. Len(sq[l]) :
          sq[l][i] = n /\ Represents([sq EXCEPT ![l] = Drop(sq[l], i)])'
    BY <2>2
  <2>4. PICK w : w = [sq EXCEPT ![l] = Drop(sq[l], i)] OBVIOUS
  <2>5. /\ \A k \in List : \A m : m # n /\ In(sq, k, m) => In(w, k, m)
        /\ \A k \in List : \A m, h : m # n /\ h # n /\ Before(sq, k, m, h) => Before(w, k, m, h)
    BY ZenonT(30), <1>5, <2>3, <2>4, DropKeeps
  <2>6. FiledIn(w)' BY <1>1, <1>2, <2>1, <2>5, FiledForgot
  <2>. QED BY <2>3, <2>4, <2>6
<1>9. ASSUME NEW n \in Node, NEW str \in Name, SetName(n, str) PROVE Goal
  <2>1. Forget(n) /\ UNCHANGED links /\ \A m \in Node : m # n => name'[m] = name[m]
    BY <1>1, <1>9 DEF SetName, Named
  <2>2. FiledIn(sq)' BY <1>1, <1>2, <2>1, FiledForgot
  <2>3. Represents(sq)' BY <1>2, <2>1, SameRepresents
  <2>. QED BY <2>2, <2>3
\* A node that was in no list is put in one, but not filed.
<1>10. ASSUME NEW n \in Node, NEW q \in Place, InsertBefore(n, q) \/ InsertAfter(n, q),
              name' = name, filed' = filed
       PROVE  Goal
  <2>1. PICK l \in List : \E i \in 1 .. Len(sq[l]) + 1 :
          Represents([sq EXCEPT ![l] = Put(sq[l], i, n)])'
    BY <1>1, <1>2, <1>10, InsertRepresents
  <2>2. PICK i \in 1 .. Len(sq[l]) + 1 : Represents([sq EXCEPT ![l] = Put(sq[l], i, n)])' BY <2>1
  <2>3. PICK w : w = [sq EXCEPT ![l] = Put(sq[l], i, n)] OBVIOUS
  <2>6. IsWith(w, sq, l, i, n) BY <2>3 DEF IsWith
  <2>4. /\ \A k \in List : \A m : In(sq, k, m) => In(w, k, m)
        /\ \A k \in List : \A m, h : Before(sq, k, m, h) => Before(w, k, m, h)
    <3>1. \A k \in List : \A m : In(sq, k, m) => In(w, k, m) BY <1>5, <2>6, PutKeeps, Zenon
    <3>2. \A k \in List : \A m, h : Before(sq, k, m, h) => Before(w, k, m, h)
      BY <1>5, <2>6, PutKeeps, Zenon
    <3>. QED BY <3>1, <3>2
  <2>5. FiledIn(w)' BY <1>1, <1>2, <1>10, <2>4, FiledKept
  <2>. QED BY <2>2, <2>3, <2>5
\* A node is taken out of a list of the client's own, so that it was not filed.
<1>11. ASSUME NEW o \in List \ Bucket, ShortenOwnList(o) PROVE Goal
  <2>1. PICK n \in Node : Remove(n) /\ name' = name /\ filed' = filed /\ (n = GetHead(o) \/ n = GetTail(o))
    BY <1>1, <1>11, EndNodes DEF ShortenOwnList, RemHead, RemTail
  <2>2. PICK l \in List : \E i \in 1 .. Len(sq[l]) :
          sq[l][i] = n /\ Represents([sq EXCEPT ![l] = Drop(sq[l], i)])'
    BY <1>1, <1>2, <2>1, RemoveRepresents
  <2>3. PICK i \in 1 .. Len(sq[l]) :
          sq[l][i] = n /\ Represents([sq EXCEPT ![l] = Drop(sq[l], i)])'
    BY <2>2
  <2>4. PICK w : w = [sq EXCEPT ![l] = Drop(sq[l], i)] OBVIOUS
  <2>5. /\ \A k \in List : \A m : m # n /\ In(sq, k, m) => In(w, k, m)
        /\ \A k \in List : \A m, h : m # n /\ h # n /\ Before(sq, k, m, h) => Before(w, k, m, h)
    BY ZenonT(30), <1>5, <2>3, <2>4, DropKeeps
  <2>6. l = o
    <3>1. Len(sq[o]) \in Nat /\ 0 \in 0 .. Len(sq[o]) /\ Len(sq[l]) \in Nat BY <1>5, <1>11
    <3>2. CASE n = GetHead(o)
      <4>1. n # Null /\ n = succ[HeadEnd(o)] /\ HeadEnd(o) = At(sq, o, 0)
        BY <3>2, ListsAssumption DEF GetHead, GetSucc, Place, At
      <4>2. n = At(sq, o, 1) BY <1>2, <1>11, <3>1, <4>1 DEF Represents
      <4>3. i \in 0 .. Len(sq[l]) /\ n = At(sq, l, i) BY <2>3, <3>1 DEF At
      <4>4. 1 \in 0 .. Len(sq[o]) + 1 /\ (1 = Len(sq[o]) + 1 \/ 1 \in 0 .. Len(sq[o])) BY <3>1
      <4>5. 1 # Len(sq[o]) + 1 BY <1>11, <4>2, <3>1, Ends, SequenceTypes, <1>5
      <4>. QED BY <1>2, <1>11, <4>2, <4>3, <4>4, <4>5, PlacesApart
    <3>3. CASE n = GetTail(o)
      <4>1. n # Null /\ n = pred[TailEnd(o)] /\ n \in Place /\ TailEnd(o) \in Place
        BY <3>3, <1>11, Ends, ListsAssumption DEF GetTail, GetPred, Place
      <4>2. succ[n] = TailEnd(o) BY <1>1, <4>1 DEF IInv, Mirrored
      <4>3. i \in 0 .. Len(sq[l]) /\ i + 1 \in 1 .. Len(sq[l]) + 1 /\ n = At(sq, l, i)
        BY <2>3, <3>1 DEF At
      <4>4. At(sq, l, i + 1) = TailEnd(o) BY <1>2, <4>2, <4>3 DEF Represents
      <4>. QED BY SMTT(20), <1>5, <1>11, <3>1, <4>3, <4>4, PlaceOfList, Ends
    <3>. QED BY <2>1, <3>2, <3>3
  <2>7. \A j \in 1 .. Len(filed) : filed[j] # n
    <3>1. ASSUME NEW j \in 1 .. Len(filed), filed[j] = n PROVE FALSE
      <4>1. In(sq, Its(n), n) /\ Its(n) \in List BY <1>2, <1>6, <3>1 DEF FiledIn
      <4>2. In(sq, l, n) BY <2>3 DEF In
      <4>3. Its(n) = l BY <1>2, <4>1, <4>2, InOnce
      <4>4. Its(n) \in Bucket BY <1>1, TableAssumption DEF Named, Its
      <4>. QED BY <2>6, <4>3, <4>4
    <3>. QED BY <3>1
  <2>8. FiledIn(w)' BY <1>1, <1>2, <2>1, <2>5, <2>7, FiledKept
  <2>. QED BY <2>3, <2>4, <2>8
<1>12. CASE UNCHANGED tableVars
  <2>1. UNCHANGED links /\ name' = name /\ filed' = filed BY <1>12 DEF tableVars, links
  <2>2. FiledIn(sq)' BY <1>1, <1>2, <2>1, FiledKept
  <2>3. Represents(sq)' BY <1>2, <2>1, SameRepresents
  <2>4. Goal BY <2>2, <2>3
  <2>. QED BY <1>3, <1>4, <2>4 DEF TableInv
<1>13. Goal => TableInv'
  <2>1. ASSUME Goal PROVE TableInv'
    <3>1. PICK w : Represents(w)' /\ FiledIn(w)' BY <2>1
    <3>. QED BY <1>3, <1>4, <3>1 DEF TableInv
  <2>. QED BY <2>1
<1>14. ASSUME NEW n \in Node, NEW m \in Node, PutBeside(n, m) PROVE Goal
  <2>1. m \in Place /\ (InsertBefore(n, m) \/ InsertAfter(n, m)) /\ name' = name /\ filed' = filed
    BY <1>14 DEF PutBeside, Place
  <2>. QED BY <1>10, <2>1
<1>15. ASSUME NEW l \in List, NEW n \in Node, OwnList(l, n) PROVE Goal
  <2>1. /\ HeadEnd(l) \in Place /\ TailEnd(l) \in Place /\ name' = name /\ filed' = filed
        /\ InsertAfter(n, HeadEnd(l)) \/ InsertBefore(n, TailEnd(l))
    BY <1>15, Ends DEF OwnList, AddHead, AddTail
  <2>. QED BY <1>10, <2>1
<1> HIDE DEF Goal
<1>. QED BY <1>7, <1>8, <1>9, <1>11, <1>12, <1>13, <1>14, <1>15 DEF TableNext

-----------------------------------------------------------------------------
(* Finding by name                                                         *)

LEMMA NodeAfter ==
    ASSUME IInv, NEW sq, Represents(sq)
    PROVE  /\ \A k \in List : \A a, b \in 1 .. Len(sq[k]) : b = a + 1 => GetSucc(sq[k][a]) = sq[k][b]
           /\ \A k \in List : \A a \in 1 .. Len(sq[k]) : a = Len(sq[k]) => GetSucc(sq[k][a]) = Null
           /\ \A n \in Node : Unmet(sq, n) => GetSucc(n) = Null
           /\ \A k \in List : 1 \in 1 .. Len(sq[k]) => GetHead(k) = sq[k][1]
<1>0. sq \in [List -> Seq(Node)] BY DEF Represents
<1>1. ASSUME NEW k \in List, NEW a \in 1 .. Len(sq[k])
      PROVE  Len(sq[k]) \in Nat /\ a \in 0 .. Len(sq[k]) /\ At(sq, k, a) = sq[k][a]
  BY <1>0, SequenceTypes
<1>2. ASSUME NEW k \in List, NEW a \in 1 .. Len(sq[k]), NEW b \in 1 .. Len(sq[k]), b = a + 1
      PROVE  GetSucc(sq[k][a]) = sq[k][b]
  <2>1. a \in 0 .. Len(sq[k]) - 1 BY <1>1, <1>2
  <2>. QED BY <1>1, <1>2, <2>1, SuccOf
<1>3. ASSUME NEW k \in List, NEW a \in 1 .. Len(sq[k]), a = Len(sq[k])
      PROVE  GetSucc(sq[k][a]) = Null
  BY <1>1, <1>3, SuccOf
<1>4. ASSUME NEW n \in Node, Unmet(sq, n) PROVE GetSucc(n) = Null
  <2>1. succ[n] = Null BY <1>4 DEF Represents, Unmet
  <2>. QED BY <2>1 DEF GetSucc
<1>5. ASSUME NEW k \in List, 1 \in 1 .. Len(sq[k]) PROVE GetHead(k) = sq[k][1]
  <2>1. 0 \in 0 .. Len(sq[k]) - 1 /\ 0 + 1 = 1 BY <1>1, <1>5
  <2>2. GetSucc(At(sq, k, 0)) = sq[k][1] BY <2>1, SuccOf
  <2>. QED BY <2>2 DEF GetHead, At
<1>. QED BY <1>2, <1>3, <1>4, <1>5

\* The first node of a name at or behind a node: none or one.
Hits(sq, str, n) ==
    {m \in Node : \E k \in List : \E a, b \in 1 .. Len(sq[k]) :
        /\ a <= b /\ sq[k][a] = n /\ sq[k][b] = m /\ name[m] = str
        /\ \A c \in 1 .. Len(sq[k]) : a <= c /\ c < b => name[sq[k][c]] # str}

FirstHit(sq, str, n) ==
    IF n = Null \/ name[n] = str THEN n
    ELSE IF Hits(sq, str, n) = {} THEN Null ELSE CHOOSE m : m \in Hits(sq, str, n)

\* Node n is met in list k at a.
Sits(sq, k, a, n) == k \in List /\ a \in 1 .. Len(sq[k]) /\ n = sq[k][a]

SameHits(sq, str, n, h) == Hits(sq, str, n) = Hits(sq, str, h)

\* It is the same for a node of another name and for the next node.
LEMMA HitsNext ==
    ASSUME NEW sq, Represents(sq), NEW k, NEW a, NEW n, Sits(sq, k, a, n), NEW h, Sits(sq, k, a + 1, h),
           NEW str, name[n] # str
    PROVE  SameHits(sq, str, n, h)
<1>. USE DEF Sits
<1>b. PICK b \in 1 .. Len(sq[k]) : b = a + 1 OBVIOUS
<1>0. Len(sq[k]) \in Nat /\ a \in Nat /\ b \in Nat /\ b = a + 1 /\ h = sq[k][b] BY <1>b DEF Represents
<1>1. ASSUME NEW m \in Hits(sq, str, n) PROVE m \in Hits(sq, str, h)
  <2>1. PICK l \in List : \E c, d \in 1 .. Len(sq[l]) :
          /\ c <= d /\ sq[l][c] = n /\ sq[l][d] = m /\ name[m] = str
          /\ \A e \in 1 .. Len(sq[l]) : c <= e /\ e < d => name[sq[l][e]] # str
    BY DEF Hits
  <2>2. PICK c, d \in 1 .. Len(sq[l]) :
          /\ c <= d /\ sq[l][c] = n /\ sq[l][d] = m /\ name[m] = str
          /\ \A e \in 1 .. Len(sq[l]) : c <= e /\ e < d => name[sq[l][e]] # str
    BY <2>1
  <2>3. l = k /\ c = a BY <2>2 DEF Represents
  <2>4. d # a BY <2>2, <2>3
  <2>5. d \in Nat BY <1>0, <2>3
  <2>6. b <= d BY <1>0, <2>2, <2>3, <2>4, <2>5
  <2>7. \A e \in 1 .. Len(sq[k]) : b <= e /\ e < d => name[sq[k][e]] # str
    BY <1>0, <2>2, <2>3
  <2>8. m \in Node BY DEF Hits
  <2>. QED BY <2>2, <2>3, <2>6, <2>7, <2>8 DEF Hits
<1>2. ASSUME NEW m \in Hits(sq, str, h) PROVE m \in Hits(sq, str, n)
  <2>1. PICK l \in List : \E c, d \in 1 .. Len(sq[l]) :
          /\ c <= d /\ sq[l][c] = h /\ sq[l][d] = m /\ name[m] = str
          /\ \A e \in 1 .. Len(sq[l]) : c <= e /\ e < d => name[sq[l][e]] # str
    BY DEF Hits
  <2>2. PICK c, d \in 1 .. Len(sq[l]) :
          /\ c <= d /\ sq[l][c] = h /\ sq[l][d] = m /\ name[m] = str
          /\ \A e \in 1 .. Len(sq[l]) : c <= e /\ e < d => name[sq[l][e]] # str
    BY <2>1
  <2>3. l = k /\ c = b BY <1>0, <2>2 DEF Represents
  <2>4. d \in Nat /\ a <= d BY <1>0, <2>2, <2>3
  <2>5. ASSUME NEW e \in 1 .. Len(sq[k]), a <= e, e < d PROVE name[sq[k][e]] # str
    <3>1. e = a \/ b <= e BY <1>0, <2>5
    <3>. QED BY <2>2, <2>3, <2>5, <3>1
  <2>6. m \in Node BY DEF Hits
  <2>. QED BY <2>2, <2>3, <2>4, <2>5, <2>6 DEF Hits
<1>. QED BY <1>1, <1>2 DEF SameHits

LEMMA HitsOwn ==
    ASSUME NEW sq, Represents(sq), NEW k, NEW a, NEW n, Sits(sq, k, a, n), NEW str, name[n] = str
    PROVE  Hits(sq, str, n) = {n}
<1>. USE DEF Sits
<1>0. Len(sq[k]) \in Nat /\ a \in Nat /\ n \in Node BY DEF Represents
<1>1. n \in Hits(sq, str, n) BY <1>0 DEF Hits
<1>2. ASSUME NEW m \in Hits(sq, str, n) PROVE m = n
  <2>1. PICK l \in List : \E c, d \in 1 .. Len(sq[l]) :
          /\ c <= d /\ sq[l][c] = n /\ sq[l][d] = m
          /\ \A e \in 1 .. Len(sq[l]) : c <= e /\ e < d => name[sq[l][e]] # str
    BY DEF Hits
  <2>2. PICK c, d \in 1 .. Len(sq[l]) :
          /\ c <= d /\ sq[l][c] = n /\ sq[l][d] = m
          /\ \A e \in 1 .. Len(sq[l]) : c <= e /\ e < d => name[sq[l][e]] # str
    BY <2>1
  <2>3. l = k /\ c = a BY <2>2 DEF Represents
  <2>4. d \in Nat /\ ~(c < d) BY <1>0, <2>2, <2>3
  <2>5. c = d BY <1>0, <2>2, <2>3, <2>4
  <2>. QED BY <2>2, <2>5
<1>. QED BY <1>1, <1>2

\* The last node, unless it has the name, and a node that is in no list lead to none.
LEMMA HitsNone ==
    ASSUME NEW sq, Represents(sq), NEW str, NEW n \in Node, name[n] # str,
           \/ Unmet(sq, n)
           \/ \E k \in List : \E a \in 1 .. Len(sq[k]) : sq[k][a] = n /\ a = Len(sq[k])
    PROVE  Hits(sq, str, n) = {}
<1>1. ASSUME NEW m \in Hits(sq, str, n) PROVE FALSE
  <2>1. PICK l \in List : \E c, d \in 1 .. Len(sq[l]) :
          c <= d /\ sq[l][c] = n /\ sq[l][d] = m /\ name[m] = str
    BY DEF Hits
  <2>2. PICK c, d \in 1 .. Len(sq[l]) : c <= d /\ sq[l][c] = n /\ sq[l][d] = m /\ name[m] = str
    BY <2>1
  <2>3. Len(sq[l]) \in Nat /\ c \in Nat /\ d \in Nat BY DEF Represents
  <2>4. PICK k \in List : \E a \in 1 .. Len(sq[k]) : sq[k][a] = n /\ a = Len(sq[k])
    BY <2>2 DEF Unmet
  <2>5. PICK a \in 1 .. Len(sq[k]) : sq[k][a] = n /\ a = Len(sq[k]) BY <2>4
  <2>6. l = k /\ c = a BY <2>2, <2>5 DEF Represents
  <2>7. c = d BY <2>2, <2>3, <2>5, <2>6
  <2>. QED BY <2>2, <2>7
<1>. QED BY <1>1

LEMMA FirstHitNext ==
    ASSUME IInv, NEW sq, Represents(sq), NEW str, NEW n \in Node, name[n] # str
    PROVE  /\ GetSucc(n) \in Node \cup {Null}
           /\ FirstHit(sq, str, n) = FirstHit(sq, str, GetSucc(n))
<1>0. n # Null /\ sq \in [List -> Seq(Node)] BY ListsAssumption DEF Place, Represents
<1>1. FirstHit(sq, str, n) = IF Hits(sq, str, n) = {} THEN Null ELSE CHOOSE m : m \in Hits(sq, str, n)
  BY <1>0 DEF FirstHit
<1>2. CASE Unmet(sq, n)
  <2>1. GetSucc(n) = Null BY <1>2, NodeAfter
  <2>2. Hits(sq, str, n) = {} BY <1>2, HitsNone
  <2>. QED BY <1>1, <2>1, <2>2 DEF FirstHit
<1>3. CASE ~Unmet(sq, n)
  <2>1. PICK k \in List : \E a \in 1 .. Len(sq[k]) : sq[k][a] = n BY <1>3 DEF Unmet
  <2>2. PICK a \in 1 .. Len(sq[k]) : sq[k][a] = n BY <2>1
  <2>3. Len(sq[k]) \in Nat BY <1>0
  <2>4. CASE a = Len(sq[k])
    <3>1. GetSucc(n) = Null BY <2>2, <2>4, NodeAfter
    <3>2. Hits(sq, str, n) = {} BY <2>2, <2>4, HitsNone
    <3>. QED BY <1>1, <3>1, <3>2 DEF FirstHit
  <2>5. CASE a # Len(sq[k])
    <3>1. PICK b \in 1 .. Len(sq[k]) : b = a + 1 BY <2>3, <2>5
    <3>2. GetSucc(n) = sq[k][b] BY <2>2, <3>1, NodeAfter
    <3>3. sq[k][b] \in Node /\ sq[k][b] # Null BY <1>0, ListsAssumption DEF Place
    <3>5. PICK m : m = sq[k][b] OBVIOUS
    <3>8. Sits(sq, k, a, n) /\ Sits(sq, k, b, m) BY <2>2, <3>5 DEF Sits
    <3>9. Sits(sq, k, a + 1, m) BY <3>1, <3>8
    <3>10. SameHits(sq, str, n, m) BY <3>8, <3>9, HitsNext, Zenon
    <3>4. Hits(sq, str, n) = Hits(sq, str, m) BY <3>10 DEF SameHits
    <3>6. CASE name[m] = str
      <4>1. Hits(sq, str, m) = {m} BY <3>6, <3>8, HitsOwn, Zenon
      <4>2. FirstHit(sq, str, m) = m BY <3>6 DEF FirstHit
      <4>3. (CHOOSE h : h \in {m}) = m OBVIOUS
      <4>4. FirstHit(sq, str, n) = m BY <1>1, <3>4, <3>5, <4>1, <4>3
      <4>. QED BY <3>2, <3>3, <3>5, <4>2, <4>4
    <3>7. CASE name[m] # str
      <4>1. FirstHit(sq, str, m) = IF Hits(sq, str, m) = {} THEN Null ELSE CHOOSE h : h \in Hits(sq, str, m)
        BY <3>3, <3>5, <3>7 DEF FirstHit
      <4>. QED BY <1>1, <3>2, <3>3, <3>4, <3>5, <4>1
    <3>. QED BY <3>6, <3>7
  <2>. QED BY <2>4, <2>5
<1>. QED BY <1>2, <1>3

\* The walk of Find is defined for every node: it ends.
LEMMA SearchWalk ==
    ASSUME IInv, NEW sq, Represents(sq), NEW str, NEW l \in List
    PROVE  \E f : /\ Search(l, str) = f[GetHead(l)]
                  /\ \A n \in Node : f[n] = IF name[n] = str THEN n ELSE f[GetSucc(n)]
<1> DEFINE Walk(f) == f = [n \in Node \cup {Null} |->
                              IF n = Null \/ name[n] = str THEN n ELSE f[GetSucc(n)]]
<1>1. PICK f : f = [n \in Node \cup {Null} |-> FirstHit(sq, str, n)] OBVIOUS
<1>2. ASSUME NEW n \in Node \cup {Null}
      PROVE  f[n] = IF n = Null \/ name[n] = str THEN n ELSE f[GetSucc(n)]
  <2>1. f[n] = FirstHit(sq, str, n) BY <1>1
  <2>2. CASE n = Null \/ name[n] = str
    <3>1. FirstHit(sq, str, n) = n BY <2>2 DEF FirstHit
    <3>. QED BY <2>1, <2>2, <3>1
  <2>3. CASE n # Null /\ name[n] # str
    <3>1. /\ GetSucc(n) \in Node \cup {Null}
          /\ FirstHit(sq, str, n) = FirstHit(sq, str, GetSucc(n))
      BY <2>3, FirstHitNext
    <3>2. f[GetSucc(n)] = FirstHit(sq, str, GetSucc(n)) BY <1>1, <3>1
    <3>. QED BY <2>1, <2>3, <3>1, <3>2
  <2>. QED BY <2>2, <2>3
<1>3. Walk(f) BY <1>1, <1>2
<1>4. PICK g : g = CHOOSE h : Walk(h) OBVIOUS
<1>5. Walk(g)
  <2> HIDE DEF Walk
  <2>. QED BY <1>3, <1>4
<1>6. Search(l, str) = g[GetHead(l)] BY <1>4, Zenon DEF Search
<1>7. ASSUME NEW n \in Node PROVE g[n] = IF name[n] = str THEN n ELSE g[GetSucc(n)]
  <2>1. n # Null BY ListsAssumption DEF Place
  <2>2. PICK r \in Node \cup {Null} : r = n OBVIOUS
  <2>3. g[r] = IF r = Null \/ name[r] = str THEN r ELSE g[GetSucc(r)] BY <1>5
  <2>. QED BY <2>1, <2>2, <2>3
<1>. QED BY <1>6, <1>7

\* Find returns the first node of its list that has the name.
LEMMA SearchFinds ==
    ASSUME IInv, NEW sq, Represents(sq), NEW l \in List, NEW str, NEW c \in 1 .. Len(sq[l]),
           name[sq[l][c]] = str,
           \A a \in 1 .. Len(sq[l]) : a < c => name[sq[l][a]] # str
    PROVE  Search(l, str) = sq[l][c]
<1>0. sq \in [List -> Seq(Node)] BY DEF Represents
<1>1. Len(sq[l]) \in Nat /\ c \in Nat /\ \A a \in 1 .. Len(sq[l]) : sq[l][a] \in Node BY <1>0
<1>2. PICK f : /\ Search(l, str) = f[GetHead(l)]
               /\ \A n \in Node : f[n] = IF name[n] = str THEN n ELSE f[GetSucc(n)]
  BY SearchWalk
<1> DEFINE T == {d \in 0 .. c - 1 : f[sq[l][c - d]] # sq[l][c]}
<1>3. T = {}
  <2>1. SUFFICES ASSUME T # {} PROVE FALSE OBVIOUS
  <2>2. PICK d \in T : \A e \in T : d <= e
    <3>1. T \in SUBSET Nat OBVIOUS
    <3> HIDE DEF T
    <3>. QED BY <2>1, <3>1, Least
  <2>3. PICK a \in 1 .. Len(sq[l]) : a = c - d BY <1>1
  <2>4. f[sq[l][a]] # sq[l][c] BY <2>3
  <2>5. CASE d = 0
    <3>1. a = c BY <1>1, <2>3, <2>5
    <3>2. f[sq[l][c]] = sq[l][c] BY <1>1, <1>2
    <3>. QED BY <2>4, <3>1, <3>2
  <2>6. CASE d # 0
    <3>1. d - 1 \in 0 .. c - 1 /\ d - 1 \notin T
      <4>1. d \in 0 .. c - 1 /\ \A e \in T : d <= e BY <2>2
      <4>2. d - 1 \in 0 .. c - 1 /\ ~(d <= d - 1) BY <1>1, <2>6, <4>1
      <4> HIDE DEF T
      <4>. QED BY <4>1, <4>2
    <3>2. PICK b \in 1 .. Len(sq[l]) : b = a + 1 /\ b = c - (d - 1) BY <1>1, <2>3, <2>6
    <3>3. f[sq[l][b]] = sq[l][c] BY <3>1, <3>2
    <3>4. a < c BY <1>1, <2>3, <2>6
    <3>5. name[sq[l][a]] # str BY <3>4
    <3>6. f[sq[l][a]] = f[GetSucc(sq[l][a])] BY <1>1, <1>2, <3>5
    <3>7. GetSucc(sq[l][a]) = sq[l][b] BY <3>2, NodeAfter
    <3>. QED BY <2>4, <3>3, <3>6, <3>7
  <2>. QED BY <2>5, <2>6
<1>4. f[sq[l][1]] = sq[l][c]
  <2>1. c - 1 \in 0 .. c - 1 /\ c - (c - 1) = 1 BY <1>1
  <2>. QED BY <1>3, <2>1
<1>5. 1 \in 1 .. Len(sq[l]) BY <1>1
<1>6. GetHead(l) = sq[l][1] BY <1>5, NodeAfter
<1>. QED BY <1>2, <1>4, <1>6

LEMMA TableInvFinds == TableInv => FindsNewest
<1> SUFFICES ASSUME TableInv, NEW str \in Name, {i \in DOMAIN filed : name[filed[i]] = str} # {}
             PROVE  /\ Find(str) # Null /\ name[Find(str)] = str
                    /\ \A i, j \in {i \in DOMAIN filed : name[filed[i]] = str} :
                          filed[i] = Find(str) => i <= j
  BY DEF FindsNewest
<1>1. IInv /\ Named BY DEF TableInv
<1>2. PICK sq : Represents(sq) /\ FiledIn(sq) BY DEF TableInv
<1>3. sq \in [List -> Seq(Node)] /\ filed \in Seq(Node) BY <1>2 DEF Represents, FiledIn
<1>4. DOMAIN filed = 1 .. Len(filed) /\ Len(filed) \in Nat BY <1>3
<1>5. PICK l \in List : l = hash(str) BY TableAssumption
<1>6. \A n \in Node : name[n] = str => Its(n) = l BY <1>5 DEF Its
<1> DEFINE T == {a \in 1 .. Len(sq[l]) : name[sq[l][a]] = str}
<1>7. PICK c \in T : \A a \in T : c <= a
  <2>1. PICK i \in 1 .. Len(filed) : name[filed[i]] = str BY <1>4
  <2>2. Its(filed[i]) = l BY <1>3, <1>6, <2>1
  <2>3. In(sq, l, filed[i]) BY <1>2, <2>2 DEF FiledIn
  <2>4. T # {} BY <2>1, <2>3 DEF In
  <2>5. T \in SUBSET Nat OBVIOUS
  <2> HIDE DEF T
  <2>. QED BY <2>4, <2>5, Least
<1>8. Find(str) = sq[l][c]
  <2>1. Len(sq[l]) \in Nat /\ c \in 1 .. Len(sq[l]) /\ name[sq[l][c]] = str BY <1>3
  <2>2. ASSUME NEW a \in 1 .. Len(sq[l]), a < c PROVE name[sq[l][a]] # str
    <3>1. ~(c <= a) BY <2>1, <2>2
    <3>. QED BY <1>7, <3>1
  <2>3. Search(l, str) = sq[l][c] BY <1>1, <1>2, <2>1, <2>2, SearchFinds
  <2>. QED BY <1>5, <2>3 DEF Find
<1>9. sq[l][c] \in Node /\ name[sq[l][c]] = str /\ sq[l][c] # Null BY <1>3, ListsAssumption DEF Place
<1>10. ASSUME NEW i \in 1 .. Len(filed), NEW j \in 1 .. Len(filed),
              name[filed[i]] = str, name[filed[j]] = str, filed[i] = sq[l][c], j < i
       PROVE  FALSE
  <2>1. Its(filed[i]) = l /\ Its(filed[j]) = l BY <1>3, <1>6, <1>10
  <2>2. Before(sq, l, filed[j], filed[i]) BY <1>2, <1>10, <2>1 DEF FiledIn
  <2>3. PICK a, b \in 1 .. Len(sq[l]) : a < b /\ sq[l][a] = filed[j] /\ sq[l][b] = filed[i]
    BY <2>2 DEF Before
  <2>4. b = c BY <1>2, <1>10, <2>3 DEF Represents
  <2>5. a \in T BY <1>10, <2>3
  <2>. QED BY <1>7, <2>3, <2>4, <2>5
<1>11. ASSUME NEW i \in 1 .. Len(filed), NEW j \in 1 .. Len(filed),
              name[filed[i]] = str, name[filed[j]] = str, filed[i] = sq[l][c]
       PROVE  i <= j
  <2>1. ~(j < i) BY <1>10, <1>11
  <2>. QED BY <2>1
<1>. QED BY <1>4, <1>8, <1>9, <1>11

\* A filed node that keeps its name is found by it, or a newer one that hides it,
\* however nodes are renamed, taken out, filed again or put beside others.
THEOREM FiledNodesFound == TableSpec => []FindsNewest
<1>. QED BY TableInvInit, TableInvNext, TableInvFinds, PTL DEF TableSpec
=============================================================================
