----------------------------- MODULE MemoryPool -----------------------------
(***************************************************************************)
(* CMemoryPoolFactory and SafeMemoryPoolFactory over CMemTypeBand: objects *)
(* are handed out from bands, each a stack of free objects; a new band is  *)
(* made when there is none left.  A freed object goes to whichever band is *)
(* the current one, not to the band it came from.                          *)
(*                                                                         *)
(* A band is numbered by its age, so the head of the list is the last one, *)
(* pPrev of band b is b + 1 and pNext is b - 1.  Every call is one step:   *)
(* the safe pool runs it inside its critical section, the other one is for *)
(* a single thread.                                                        *)
(***************************************************************************)
EXTENDS Integers, Sequences, FiniteSets

CONSTANTS
    Sizes,      \* the band sizes callers ask for
    MaxBands,   \* bound: bands of one pool
    MaxInits    \* bound: calls of Initialize

ASSUME PoolAssumption ==
    /\ Sizes \subseteq Nat \ {0}
    /\ MaxBands \in Nat /\ MaxInits \in Nat

VARIABLES
    bands,      \* m_pBandHead: oldest band first, each its size and its free objects
    free,       \* m_pFreeBand, 0 for NULL
    extend,     \* m_dwPoolExtendSize
    held,       \* the objects callers hold
    failed,     \* whether an Alloc has returned NULL or a Free has refused an object
    inits       \* the calls of Initialize so far

vars == <<bands, free, extend, held, failed, inits>>

Object == (Nat \ {0}) \X (Nat \ {0})

-----------------------------------------------------------------------------
(* CMemTypeBand                                                            *)

\* AllocBand: band b, all its objects free.
NewBand(b, size) == [max |-> size, stack |-> [i \in 1 .. size |-> <<b, i>>]]

\* FreeIdx and nMaxBandObjectNum
Available(band) == Len(band.stack)
Empty(band) == Available(band) = 0

\* Mutant: the last place of a band is not used (the assertion FreeObject has
\* commented out).
FullButOne(band) == Available(band) + 1 >= band.max

Full(band) == Available(band) >= band.max

Top(band) == band.stack[Available(band)]

\* AlloObject, when the band is not empty
Popped(band) == [band EXCEPT !.stack = SubSeq(@, 1, Len(@) - 1)]

\* Mutant: the index is not moved up.
PushedKeeps(band, p) == band

\* FreeObject, when the band is not full
Pushed(band, p) == [band EXCEPT !.stack = Append(@, p)]

-----------------------------------------------------------------------------
Init ==
    /\ bands = <<>>
    /\ free = 0
    /\ extend = 0
    /\ held = {}
    /\ failed = FALSE
    /\ inits = 0

\* The sizes of later bands: what the caller asks for, or, when it asks for none,
\* dwPoolBasicSize/2+1; in the safe pool dwPoolExtendSize/2+1, which is 1.
ExtendSizes(basic) == Sizes \cup {basic \div 2 + 1, 1}

\* Initialize of a live pool fails, but has changed the extend size.
Initialize ==
    /\ inits < MaxInits
    /\ inits' = inits + 1
    /\ \E basic \in Sizes :
          /\ extend' \in ExtendSizes(basic)
          /\ \/ /\ bands = <<>>
                /\ bands' = <<NewBand(1, basic)>>
                /\ free' = 1
             \/ /\ bands # <<>>
                /\ UNCHANGED <<bands, free>>
    /\ UNCHANGED <<held, failed>>

\* Release, by a caller that has freed what it held.
Release ==
    /\ bands # <<>>
    /\ held = {}
    /\ bands' = <<>>
    /\ free' = 0
    /\ UNCHANGED <<extend, held, failed, inits>>

\* AlloObject on band b, which is now the current one; NULL when it is empty.
TakeFrom(all, b) ==
    /\ free' = b
    /\ bands' = IF Empty(all[b]) THEN all ELSE [all EXCEPT ![b] = Popped(@)]
    /\ held' = IF Empty(all[b]) THEN held ELSE held \cup {Top(all[b])}
    /\ failed' = (failed \/ Empty(all[b]))
    /\ UNCHANGED <<extend, inits>>

AllocCurrent ==
    /\ bands # <<>>
    /\ ~Empty(bands[free])
    /\ TakeFrom(bands, free)

\* The current band is empty and is the head: a new band in front of it.
AllocExtends ==
    /\ bands # <<>>
    /\ Empty(bands[free])
    /\ free = Len(bands) /\ free < MaxBands
    /\ TakeFrom(Append(bands, NewBand(free + 1, extend)), free + 1)

\* Mutant: m_pFreeBand->pNext
NewerWrongWay == IF free > 1 THEN free - 1 ELSE free

\* m_pFreeBand->pPrev
Newer == free + 1

\* The current band is empty and is not the head: the next newer one.
AllocFromNewer ==
    /\ bands # <<>>
    /\ Empty(bands[free])
    /\ free < Len(bands)
    /\ TakeFrom(bands, Newer)

\* FreeObject on band b, which is now the current one; refused when it is full.
GiveTo(b, p) ==
    /\ free' = b
    /\ bands' = IF Full(bands[b]) THEN bands ELSE [bands EXCEPT ![b] = Pushed(@, p)]
    /\ held' = held \ {p}
    /\ failed' = (failed \/ Full(bands[b]))
    /\ UNCHANGED <<extend, inits>>

FreeCurrent(p) ==
    /\ ~Full(bands[free])
    /\ GiveTo(free, p)

\* The current band is full: the next older one, if there is one.
FreeToOlder(p) ==
    /\ Full(bands[free])
    /\ GiveTo(IF free > 1 THEN free - 1 ELSE free, p)

\* Callers free what they hold, once.
Free == \E p \in held : FreeCurrent(p) \/ FreeToOlder(p)

Next ==
    Initialize \/ Release \/ AllocCurrent \/ AllocExtends \/ AllocFromNewer \/ Free

Spec == Init /\ [][Next]_vars

-----------------------------------------------------------------------------
AllObjects == UNION {{<<b, i>> : i \in 1 .. bands[b].max} : b \in DOMAIN bands}

\* The places of the free objects.
Slots == UNION {{<<b, i>> : i \in 1 .. Available(bands[b])} : b \in DOMAIN bands}

At(s) == bands[s[1]].stack[s[2]]

\* The bands older than the current one are empty and the newer ones are full:
\* Alloc and Free look one band further and need no more.
Ordered ==
    \A b \in DOMAIN bands :
        /\ b < free => Available(bands[b]) = 0
        /\ b > free => Available(bands[b]) = bands[b].max

\* No object can be handed out twice: it is free in one place at most, and not
\* while somebody holds it, though it returns to a band it did not come from.
NoneTwice ==
    /\ \A s, t \in Slots : At(s) = At(t) => s = t
    /\ \A s \in Slots : At(s) \notin held

\* No object is lost: each is held or free.
NoneLost == AllObjects \subseteq held \cup {At(s) : s \in Slots}

\* Alloc never returns NULL, and Free never finds the pool full (its message to
\* that effect, and the breakpoint of the safe pool, are never reached).
NeverFails == ~failed

\* Each object is in one place: free in one band, or held by one caller.
ObjectsOnce == NoneTwice /\ NoneLost
=============================================================================
