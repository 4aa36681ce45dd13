---------------------------- MODULE ByteBuffers ----------------------------
(***************************************************************************)
(* ByteBuffer and WorldPacket: bytes with a position that values are       *)
(* written at and one they are read from.  Nothing in the bytes says what  *)
(* they are: the reader names the types the writer wrote, in their order.  *)
(*                                                                         *)
(* A value is a number of some width, a string, a list of strings (vector  *)
(* and list are stored alike) or a map of one-byte numbers to strings.     *)
(* Bytes that fall outside the storage, which the code asserts against in  *)
(* put and would meet after a hexlike of more rows than were read, are not *)
(* touched.                                                                *)
(***************************************************************************)
EXTENDS Integers, Sequences

LOCAL SeqExt == INSTANCE SequencesExt

CONSTANTS
    Base,           \* 256: a byte is below it
    LengthSize,     \* sizeof(uint32)
    MAX_ARR_SIZE,
    RowSize,        \* 16, the bytes of a row hexlike prints
    Values,         \* what callers write
    Blocks,         \* bytes callers append as they are
    MaxBytes        \* bound: the bytes of a buffer

ASSUME ByteBufferAssumption ==
    {Base - 1, LengthSize, MAX_ARR_SIZE, RowSize} \subseteq Nat \ {0} /\ MaxBytes \in Nat

VARIABLES
    storage, rpos, wpos,
    written,        \* history: the values whose bytes are in the storage, and where
    astray          \* history: the reader has read what is not there, or been moved

bufferVars == <<storage, rpos, wpos, written, astray>>

Number(width, n) == [type |-> "number", width |-> width, value |-> n]
String(s)        == [type |-> "string", width |-> 0, value |-> s]
List(strings)    == [type |-> "list", width |-> 0, value |-> strings]
Map(pairs)       == [type |-> "map", width |-> 0, value |-> pairs]

-----------------------------------------------------------------------------
(* operator<<                                                              *)

Digits(width, n) == [i \in 1 .. width |-> (n \div Base ^ (i - 1)) % Base]

StringBytes(s) == Digits(LengthSize, Len(s) + 1) \o s \o <<0>>

ManyBytes(elements, Bytes(_)) ==
    Digits(LengthSize, Len(elements)) \o SeqExt!FlattenSeq([i \in DOMAIN elements |-> Bytes(elements[i])])

BytesOf(v) ==
    CASE v.type = "number" -> Digits(v.width, v.value)
      [] v.type = "string" -> StringBytes(v.value)
      [] v.type = "list"   -> ManyBytes(v.value, StringBytes)
      [] v.type = "map"    -> ManyBytes(v.value, LAMBDA p : Digits(1, p[1]) \o StringBytes(p[2]))

-----------------------------------------------------------------------------
(* operator>> at a position: the value, and the position after it.         *)

\* read<T>: 0 past the end, and the position moves on all the same.
ReadNumber(pos, width) ==
    [value |-> IF pos + width > Len(storage) THEN 0
               ELSE SeqExt!FoldRight(LAMBDA b, n : b + Base * n, SubSeq(storage, pos + 1, pos + width), 0),
     next  |-> pos + width]

ReadString(pos) ==
    LET length == ReadNumber(pos, LengthSize)
        From[p \in Nat, left \in Nat] ==
            LET c == ReadNumber(p, 1) IN
            IF left = 0 THEN [value |-> <<>>, next |-> p]
            ELSE IF c.value = 0 THEN [value |-> <<>>, next |-> c.next]
            ELSE LET more == From[c.next, left - 1] IN [more EXCEPT !.value = <<c.value>> \o @]
    IN From[length.next, length.value]

\* Containers: too large a count is taken for an empty one, the elements left unread.
ReadMany(pos, Element(_)) ==
    LET count == ReadNumber(pos, LengthSize)
        From[p \in Nat, left \in Nat] ==
            IF left = 0 THEN [value |-> <<>>, next |-> p]
            ELSE LET e    == Element(p)
                     more == From[e.next, left - 1]
                 IN [more EXCEPT !.value = <<e.value>> \o @]
    IN From[count.next, IF count.value > MAX_ARR_SIZE THEN 0 ELSE count.value]

ReadPair(pos) ==
    LET key    == ReadNumber(pos, 1)
        mapped == ReadString(key.next)
    IN [value |-> <<key.value, mapped.value>>, next |-> mapped.next]

ReadAs(pos, v) ==
    CASE v.type = "number" -> ReadNumber(pos, v.width)
      [] v.type = "string" -> ReadString(pos)
      [] v.type = "list"   -> ReadMany(pos, ReadString)
      [] v.type = "map"    -> ReadMany(pos, ReadPair)

-----------------------------------------------------------------------------
\* Strings that end where they say they do, and containers that are not too large.
Plain(s)   == \A i \in DOMAIN s : s[i] # 0
Carried(v) ==
    CASE v.type = "number" -> TRUE
      [] v.type = "string" -> Plain(v.value)
      [] v.type = "list"   -> Len(v.value) <= MAX_ARR_SIZE /\ \A i \in DOMAIN v.value : Plain(v.value[i])
      [] v.type = "map"    -> Len(v.value) <= MAX_ARR_SIZE /\ \A i \in DOMAIN v.value : Plain(v.value[i][2])

BufferInit ==
    /\ storage = <<>>
    /\ rpos = 0 /\ wpos = 0
    /\ written = {}
    /\ astray = FALSE

Larger(m, n) == IF m > n THEN m ELSE n

\* The storage with bytes at pos, made larger where they need it.
Over(pos, bytes) ==
    [i \in 1 .. Larger(Len(storage), pos + Len(bytes)) |->
        IF i \in pos + 1 .. pos + Len(bytes) THEN bytes[i - pos]
        ELSE IF i <= Len(storage) THEN storage[i] ELSE 0]

Untouched(from, to) == {w \in written : w.to <= from \/ to <= w.from}

\* append
Added(bytes, what) ==
    LET to == wpos + Len(bytes) IN
    /\ to <= MaxBytes
    /\ storage' = Over(wpos, bytes)
    /\ wpos' = to
    /\ written' = Untouched(wpos, to) \cup {[from |-> wpos, to |-> to, is |-> v] : v \in what}
    /\ astray' = (astray \/ wpos # Len(storage))
    /\ UNCHANGED rpos

Write(v) == Added(BytesOf(v), {u \in {v} : Carried(u)})

\* append(const std::string&), which writes no length, and append of another buffer.
AppendRaw(bytes) == Added(bytes, {})

\* WritePacketHeader: nothing once there is something.
WritePacketHeader(v) == storage = <<>> /\ v.type = "number" /\ Write(v)

ReadHere == {w \in written : w.from = rpos}

\* The reader asks for the type that was written where it is.
ReadNext ==
    \E w \in ReadHere :
        /\ rpos' = ReadAs(rpos, w.is).next
        /\ UNCHANGED <<storage, wpos, written, astray>>

\* It asks for something that is not there, or of another type.
ReadAmiss(v) ==
    /\ \A w \in ReadHere : [w.is EXCEPT !.value = v.value] # v
    /\ rpos' = ReadAs(rpos, v).next
    /\ rpos' <= MaxBytes
    /\ astray' = TRUE
    /\ UNCHANGED <<storage, wpos, written>>

\* rpos(n), to read a value again
SetReadPosition ==
    /\ \E w \in written : rpos' = w.from
    /\ astray' = FALSE
    /\ UNCHANGED <<storage, wpos, written>>

\* wpos(n), to write over a value
SetWritePosition ==
    /\ \E w \in written : wpos' \in {w.from, w.to}
    /\ UNCHANGED <<storage, rpos, written, astray>>

\* put: another number over a number, the write position staying where it is.
PutNumber ==
    /\ \E w \in written :
          /\ w.is.type = "number"
          /\ storage' = Over(w.from, Digits(w.is.width, Base - 1))
          /\ written' = Untouched(w.from, w.to) \cup {[w EXCEPT !.is.value = Base - 1]}
    /\ UNCHANGED <<rpos, wpos, astray>>

\* clear, and Initialize of a packet
ClearBuffer ==
    /\ storage' = <<>>
    /\ rpos' = 0 /\ wpos' = 0
    /\ written' = {} /\ astray' = FALSE

\* Mutant: the read position stays.
ResizeKeeps(size) ==
    /\ storage' = [i \in 1 .. size |-> IF i <= Len(storage) THEN storage[i] ELSE 0]
    /\ wpos' = size
    /\ written' = {w \in written : w.to <= size}
    /\ astray' = FALSE
    /\ UNCHANGED rpos

Resize(size) ==
    /\ storage' = [i \in 1 .. size |-> IF i <= Len(storage) THEN storage[i] ELSE 0]
    /\ rpos' = 0 /\ wpos' = size
    /\ written' = {w \in written : w.to <= size}
    /\ astray' = FALSE

ReverseBuffer ==
    /\ storage' = SeqExt!Reverse(storage)
    /\ written' = {} /\ astray' = TRUE
    /\ UNCHANGED <<rpos, wpos>>

\* hexlike only prints, but moves the read position back a row for every row it begins.
Hexlike ==
    LET back == IF storage = <<>> THEN 0 ELSE RowSize * ((Len(storage) - 1) \div RowSize) IN
    /\ back <= rpos
    /\ rpos' = rpos - back
    /\ astray' = (astray \/ back > 0)
    /\ UNCHANGED <<storage, wpos, written>>

BufferNext ==
    \/ ReadNext \/ SetReadPosition \/ SetWritePosition \/ ClearBuffer \/ ReverseBuffer \/ Hexlike \/ PutNumber
    \/ \E v \in Values : Write(v) \/ WritePacketHeader(v) \/ ReadAmiss(v)
    \/ \E bytes \in Blocks : AppendRaw(bytes)
    \/ \E size \in 0 .. MaxBytes : Resize(size)

BufferSpec == BufferInit /\ [][BufferNext]_bufferVars

-----------------------------------------------------------------------------
\* Every value that has been written and not written over since is read back as it was,
\* and the reader comes out behind it, whatever has been written around it, put over
\* it, cut off behind it or read before.
Readable ==
    \A w \in written : ReadAs(w.from, w.is) = [value |-> w.is.value, next |-> w.to]

\* A reader that asks for what was written, and only when it is there, always stands
\* between two values: at the beginning, behind one, or where the next will be written.
InStep ==
    ~astray => rpos \in {0, wpos} \cup {w.from : w \in written} \cup {w.to : w \in written}

\* What the writer wrote is what the reader reads, and reader and writer agree on where
\* its values begin.
BufferCarries == Readable /\ InStep
=============================================================================
