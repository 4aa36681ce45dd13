------------------------------- MODULE Arrays -------------------------------
(***************************************************************************)
(* nArray: an array in one allocation that grows by a fixed step or by     *)
(* doubling.  The allocation outlives the elements: what lies behind the   *)
(* last element is kept, and comes back when an index or Reserve extends   *)
(* the array over it.                                                      *)
(*                                                                         *)
(* Elements are of a type without a destructor of its own (Destroy does    *)
(* nothing; an element of another type would be destroyed by Erase and     *)
(* again by delete[]).  Callers keep to what the array asserts: indices    *)
(* are in range and a fixed array is not made to grow.  Places count from  *)
(* 0, so place i is mem[i + 1].                                            *)
(***************************************************************************)
EXTENDS Integers, Sequences

SeqExt == INSTANCE SequencesExt

CONSTANTS
    Value,
    Fresh,          \* what new leaves in an element
    Unknown,        \* in the history: a place that no call determines
    GrowSizes,      \* the steps callers choose; 0 is a fixed array
    MaxAlloc        \* bound: the places of an allocation

ASSUME ArraysAssumption ==
    GrowSizes \subseteq Nat /\ MaxAlloc \in Nat /\ Unknown \notin Value \cup {Fresh}

VARIABLES
    array,          \* growSize, DoubleGrowSize of flags, numElements, and mem for
                    \* elements and allocSize
    items,          \* history: what a sequence holds after the same calls
    parted          \* history: a call since the last that set the whole array did not
                    \* do what it says, and items is not followed

arrayVars == <<array, items, parted>>

Blank(n)        == [i \in 1 .. n |-> Fresh]
Alloc(a)        == Len(a.mem)
Contents(a)     == SubSeq(a.mem, 1, a.num)
Put(a, i, v)    == [a EXCEPT !.mem[i + 1] = v]

\* The constructor of a preallocated array, Reallocate and, with no size, Delete.
EmptyArray(size, grow) == [mem |-> Blank(size), num |-> 0, growSize |-> grow, doubles |-> FALSE]

\* The constructor with an initial value; SetFixedSize leaves the elements fresh.
FilledArray(size, grow, v) == [EmptyArray(size, grow) EXCEPT !.num = size, !.mem = [i \in 1 .. size |-> v]]

Copy(src) == [src EXCEPT !.mem = Contents(src) \o Blank(Alloc(src) - src.num)]

GrowTo(a, size) == [a EXCEPT !.mem = Contents(a) \o Blank(size - a.num)]

Grown(a, size) == IF a.doubles THEN IF size = 0 THEN a.growSize ELSE 2 * size
                  ELSE size + a.growSize

CanGrow(a) == a.growSize > 0

\* PushBack and Append make room for one.
Grow(a) == IF a.num = Alloc(a) THEN GrowTo(a, Grown(a, Alloc(a))) ELSE a

\* Move and Reserve grow until a place is left over behind the last element.
GrowPast(a, needed) ==
    LET Size[n \in Nat] == IF needed < n THEN n ELSE Size[Grown(a, n)]
    IN IF needed < Alloc(a) THEN a ELSE GrowTo(a, Size[Alloc(a)])

\* Mutant: always from the front.
CopyOrderForward(num, from, to) == [k \in 1 .. num |-> k - 1]

\* A backward move copies from the front, a forward one from the back.
CopyOrder(num, from, to) == [k \in 1 .. num |-> IF from > to THEN k - 1 ELSE num - k]

\* Every place of order is copied from behind from to behind to, one after another.
CopyEach(mem, from, to, order) ==
    LET After[k \in 0 .. Len(order)] ==
            IF k = 0 THEN mem
            ELSE [After[k - 1] EXCEPT ![to + order[k] + 1] = After[k - 1][from + order[k] + 1]]
    IN After[Len(order)]

Move(a, from, to) ==
    LET num   == a.num - from
        roomy == GrowPast(a, to + num)
    IN [roomy EXCEPT !.mem = CopyEach(@, from, to, CopyOrder(num, from, to)), !.num = to + num]

CheckIndex(a, i) ==
    IF i < a.num THEN a
    ELSE [IF i < Alloc(a) THEN a ELSE GrowTo(a, i + a.growSize) EXCEPT !.num = i + 1]

-----------------------------------------------------------------------------
\* A call that makes s of the sequence, and one after which both are anew.
Becomes(a, s) ==
    /\ Alloc(a) <= MaxAlloc
    /\ array' = a
    /\ items' = IF parted THEN <<>> ELSE s
    /\ UNCHANGED parted

Renewed(a, s) ==
    /\ Alloc(a) <= MaxAlloc
    /\ array' = a
    /\ items' = s
    /\ parted' = FALSE

\* A call that leaves the array other than what it says.
Parts(a) ==
    /\ Alloc(a) <= MaxAlloc
    /\ array' = a
    /\ items' = <<>>
    /\ parted' = TRUE

Unknowns(n) == [i \in 1 .. n |-> Unknown]

PushedBack(a, v) == [Put(Grow(a), a.num, v) EXCEPT !.num = @ + 1]

\* PushBack and Append
PushBack(v) ==
    /\ array.num = Alloc(array) => CanGrow(array)
    /\ Becomes(PushedBack(array, v), Append(items, v))

MoveCanGrow == array.num + 1 >= Alloc(array) => CanGrow(array)

Insert(i, v) ==
    /\ i < array.num /\ MoveCanGrow
    /\ Becomes(Put(Move(array, i, i + 1), i, v), SeqExt!InsertAt(items, i + 1, v))

\* Insert of an element of this array: the reference is read after the move, when the
\* element it meant may be one place further on, or the allocation it lay in freed:
\* nothing says what is inserted then.
InsertOwn(i, j) ==
    /\ i < array.num /\ j < array.num /\ MoveCanGrow
    /\ LET moved == Move(array, i, i + 1)
           freed == Alloc(moved) # Alloc(array)
       IN \E v \in IF freed THEN Value ELSE {moved.mem[j + 1]} :
            Becomes(Put(moved, i, v),
                    SeqExt!InsertAt(items, i + 1, IF freed \/ j > i THEN Unknown ELSE items[j + 1]))

EraseAt(a, i) == IF i = a.num - 1 THEN [a EXCEPT !.num = @ - 1] ELSE Move(a, i + 1, i)

\* Erase by index or iterator; EraseQuick moves the same places with memmove.
Erase(i) ==
    /\ i < array.num
    /\ Becomes(EraseAt(array, i), SeqExt!RemoveAt(items, i + 1))

\* FindIndex; Find gives the place itself.
FindIndex(v) ==
    LET From[i \in 0 .. array.num] ==
            IF i = array.num THEN -1 ELSE IF array.mem[i + 1] = v THEN i ELSE From[i + 1]
    IN From[0]

\* Whoever searches reads what is in the places that no call determines.
Read == [i \in DOMAIN items |-> IF items[i] = Unknown THEN array.mem[i] ELSE items[i]]

\* Find, and Erase of what is found.
EraseFound(v) ==
    /\ FindIndex(v) # -1
    /\ Becomes(EraseAt(array, FindIndex(v)), SeqExt!RemoveFirst(Read, v))

\* At extends the array to the index, over whatever lies there; Set would as well, but
\* asserts that there is an element.
Set(i, v) ==
    /\ i >= Alloc(array) => CanGrow(array)
    /\ LET a == Put(CheckIndex(array, i), i, v) IN
       Becomes(a, IF i < Len(items) THEN SeqExt!ReplaceAt(items, i + 1, v)
                  ELSE items \o Unknowns(i - Len(items)) \o <<v>>)

\* Reserve, and the caller fills what it reserved.
Reserve(n, v) ==
    /\ array.num + n >= Alloc(array) => CanGrow(array)
    /\ LET a == GrowPast(array, array.num + n) IN
       Becomes([a EXCEPT !.num = @ + n,
                         !.mem = [i \in DOMAIN @ |-> IF i \in a.num + 1 .. a.num + n THEN v ELSE @[i]]],
               items \o [i \in 1 .. n |-> v])

\* "Fills an array range", which "will grow the array if necessary": but behind the last
\* element it makes room and counts nothing, so that what it wrote there is not there.
Fill(first, n, v) ==
    LET past == first + n
        a    == IF past > array.num THEN GrowTo(array, past) ELSE array
        Over(s) == [i \in DOMAIN s |-> IF i \in first + 1 .. past THEN v ELSE s[i]]
        b    == [a EXCEPT !.mem = Over(@)]
    IN IF past > array.num THEN Parts(b) ELSE Becomes(b, Over(items))

\* Clear and Reset
Clear == Renewed([array EXCEPT !.num = 0], <<>>)

\* A new array, Reallocate of this one, or an assignment from it; and SetFixedSize.
ConstructArray(size, grow) ==
    \/ Renewed(EmptyArray(size, grow), <<>>)
    \/ \E v \in Value : Renewed(FilledArray(size, grow, v), [i \in 1 .. size |-> v])
    \/ Renewed(FilledArray(size, 0, Fresh), Unknowns(size))

SetFlags(d) == Becomes([array EXCEPT !.doubles = d], items)

\* The copy constructor: the caller goes on with the copy.
CopyConstruct == Becomes(Copy(array), items)

\* operator= deletes before it copies: an array assigned to itself loses its elements.
AssignSelf ==
    \/ array.num > 0 /\ Parts(Copy(EmptyArray(0, 0)))
    \/ array.num = 0 /\ Becomes(Copy(EmptyArray(0, 0)), <<>>)

ArraysInit == array = EmptyArray(0, 16) /\ items = <<>> /\ parted = FALSE

Places == 0 .. MaxAlloc - 1

ArraysNext ==
    \/ Clear \/ CopyConstruct \/ AssignSelf
    \/ \E d \in BOOLEAN : SetFlags(d)
    \/ \E n \in 0 .. MaxAlloc, grow \in GrowSizes : ConstructArray(n, grow)
    \/ \E i \in Places : Erase(i) \/ (\E j \in Places : InsertOwn(i, j))
    \/ \E v \in Value :
          \/ PushBack(v) \/ EraseFound(v)
          \/ \E i \in Places : Insert(i, v) \/ Set(i, v)
          \/ \E n \in 1 .. 2 : Reserve(n, v) \/ (\E i \in Places : Fill(i, n, v))

ArraysSpec == ArraysInit /\ [][ArraysNext]_arrayVars

-----------------------------------------------------------------------------
\* However the array grows, and whichever way the moves overlap, it has as many elements
\* as a sequence under the same calls, each the same, and they lie within the allocation.
\* Two kinds of place are excepted, that no call determines: those an index or
\* SetFixedSize counted without writing them, and the one Insert put a reference into
\* the array itself in, from behind it or out of the allocation Move freed.  And two
\* calls do not do what they say: assigning a non-empty array to itself, and Fill behind
\* the last element.  What such a call leaves is not followed until the array is cleared
\* or made anew.
HoldsSequence ==
    /\ array.num <= Alloc(array)
    /\ ~parted => /\ Len(items) = array.num
                  /\ \A i \in DOMAIN items : items[i] \in {Unknown, array.mem[i]}
=============================================================================
