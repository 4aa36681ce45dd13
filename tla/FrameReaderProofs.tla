------------------------- MODULE FrameReaderProofs --------------------------
(* No receive of the frame reader writes outside its message buffer, for   *)
(* every header length, buffer size, stream and pattern of short receives; *)
(* and when receives are not short, the messages handed out are those of   *)
(* the peer, for every stream.  Between the server and each of its peers,  *)
(* with the layouts the three programs have, every message is handled as   *)
(* it was sent, for any number of orders.                                  *)
EXTENDS FrameReader, PeerStreams, SequenceTheorems, WellFoundedInduction, TLAPS

\* What the bound rests on: the lengths in play are natural numbers, and the
\* receive under way fits.
BufferInv ==
    /\ sent \in Seq(Lengths)
    /\ request \in [off : Nat, len : Nat, done : BOOLEAN]
    /\ leave \in Int /\ offset \in Nat
    /\ InBuffer

\* Whatever bytes the header was read from, it gives a length of the peer or zero.
LEMMA HeaderValuesNat ==
  ASSUME BufferInv
  PROVE  HeaderValues \subseteq Nat
<1> DEFINE half == HeaderLength \div 2
           from(p) == \A k \in 0 .. half - 1 : buf[k] = p + k
           first == CHOOSE i \in 1 .. Len(sent) : from(Start[i] + 1)
<1>1. Lengths \subseteq Nat BY SizeAssumption
<1>2. \A i \in 1 .. Len(sent) : sent[i] \in Lengths BY DEF BufferInv
<1>3. ASSUME \E i \in 1 .. Len(sent) : from(Start[i] + 1)
      PROVE  first \in 1 .. Len(sent)
  <2> HIDE DEF from
  <2>. QED BY <1>3
<1>4. ASSUME NEW n \in HeaderValues PROVE n \in Nat
  <2>1. \/ n = 0
        \/ n \in Lengths
        \/ (\E i \in 1 .. Len(sent) : from(Start[i] + 1)) /\ n = sent[first]
    BY <1>4 DEF HeaderValues
  <2>. HIDE DEF first, from
  <2>2. CASE (\E i \in 1 .. Len(sent) : from(Start[i] + 1)) /\ n = sent[first]
    <3>1. n \in Lengths BY <1>2, <1>3, <2>2
    <3>. QED BY <1>1, <3>1
  <2>3. CASE n \in Lengths BY <1>1, <2>3
  <2>4. CASE n = 0 BY <2>4
  <2>. QED BY <2>1, <2>2, <2>3, <2>4
<1>. QED BY <1>4

LEMMA BufferInit ==
  ASSUME Init
  PROVE  BufferInv
<1>1. sent \in Seq(Lengths)
  <2>1. sent \in UNION {[1 .. n -> Lengths] : n \in 1 .. MaxFrames} BY DEF Init
  <2>2. PICK n \in 1 .. MaxFrames : sent \in [1 .. n -> Lengths] BY <2>1
  <2>. QED BY <2>2, SizeAssumption
<1>. QED BY <1>1, SizeAssumption DEF Init, BufferInv, InBuffer

\* ReceiveHeader asks for a header at the start of a buffer that holds one.
LEMMA HeaderFits ==
  ASSUME ReceiveHeader
  PROVE  /\ leave' \in Int /\ offset' \in Nat
         /\ request' \in [off : Nat, len : Nat, done : BOOLEAN]
         /\ InBuffer'
BY SizeAssumption DEF ReceiveHeader, ReceiveSp, InBuffer

\* The next piece of a body either fits behind what is there or starts again.
LEMMA PieceFits ==
  ASSUME NEW read \in Nat, NEW left \in Nat, Piece(read, left)
  PROVE  request' \in [off : Nat, len : Nat, done : BOOLEAN] /\ InBuffer'
<1>1. CASE read + left > MaxSize
  <2>1. PICK n \in Nat : n <= MaxSize /\ request' = [off |-> 0, len |-> n, done |-> FALSE]
    BY <1>1, SizeAssumption DEF Piece, ReceiveSp
  <2>. QED BY <2>1, SizeAssumption DEF InBuffer
<1>2. CASE read + left <= MaxSize
  <2>1. request' = [off |-> read, len |-> left, done |-> FALSE]
    BY <1>2, SizeAssumption DEF Piece, ReceiveSp
  <2>. QED BY <1>2, <2>1 DEF InBuffer
<1>. QED BY <1>1, <1>2, SizeAssumption

LEMMA BufferNext ==
  ASSUME BufferInv, [Next]_vars
  PROVE  BufferInv'
<1>1. CASE Receive \/ ReceiveFails
  BY <1>1 DEF Receive, ReceiveFails, BufferInv, InBuffer
<1>2. CASE Shut \/ UNCHANGED vars BY <1>2 DEF Shut, BufferInv, InBuffer, vars
<1>3. CASE ReadStopped
  BY <1>3, SizeAssumption DEF ReadStopped, NoRequest, BufferInv, InBuffer
<1>4. CASE ReadHeader
  <2>1. sent' = sent BY <1>4 DEF ReadHeader
  <2>2. PICK n \in HeaderValues :
          \/ n = 0 /\ SkipEmpty
          \/ n > 0 /\ leave' = n /\ offset' = 0 /\ ReceiveSp(0, BodyLength(n))
    BY <1>4 DEF ReadHeader
  <2>3. n \in Nat BY HeaderValuesNat
  <2>4. CASE n = 0 /\ SkipEmpty BY <2>1, <2>4, HeaderFits DEF SkipEmpty, BufferInv
  <2>5. CASE n > 0 /\ leave' = n /\ offset' = 0 /\ ReceiveSp(0, BodyLength(n))
    <3>1. BodyLength(n) \in Nat /\ BodyLength(n) <= MaxSize BY <2>3, SizeAssumption DEF BodyLength
    <3>. QED BY <2>1, <2>3, <2>5, <3>1, SizeAssumption DEF ReceiveSp, BufferInv, InBuffer
  <2>. QED BY <2>2, <2>4, <2>5
<1>5. CASE ReadBody
  <2> DEFINE left == leave - request.len
             read == offset + request.len
  <2>1. sent' = sent BY <1>5 DEF ReadBody
  <2>2. left \in Int /\ read \in Nat BY DEF BufferInv
  <2>3. \/ left = 0 /\ ReceiveHeader
        \/ left > 0 /\ leave' = left /\ offset' = read /\ Piece(read, left)
    BY <1>5 DEF ReadBody
  <2>4. CASE ReceiveHeader BY <2>1, <2>4, HeaderFits DEF BufferInv
  <2>5. CASE left > 0 /\ leave' = left /\ offset' = read /\ Piece(read, left)
    BY <2>1, <2>2, <2>5, PieceFits DEF BufferInv
  <2>. QED BY <2>3, <2>4, <2>5
<1>. QED BY <1>1, <1>2, <1>3, <1>4, <1>5 DEF Next

\* handle_read_sp never asks the socket to write outside the message buffer: not
\* for any length a header claims, nor when receives fall short and the reader is
\* out of step with the stream.
THEOREM ReceivesInBuffer == Spec => []InBuffer
<1>1. BufferInv => InBuffer BY DEF BufferInv
<1>. QED BY <1>1, BufferInit, BufferNext, PTL DEF Spec

-----------------------------------------------------------------------------
(* Where messages start.  Start is a recursive function: that there is     *)
(* one, and what it is, is shown by looking at the least argument for      *)
(* which it is not so.                                                     *)

LEMMA Least ==
    ASSUME NEW T \in SUBSET Nat, T # {}
    PROVE  \E x \in T : \A y \in T : x <= y
<1> DEFINE R == OpToRel(<, Nat)
<1>1. IsWellFoundedOn(R, Nat) BY NatLessThanWellFounded
<1>2. \A x, y \in Nat : <<y, x>> \in R <=> y < x BY Zenon DEF OpToRel
<1> HIDE DEF R
<1>3. PICK x \in T : \A y \in T : ~ (<<y, x>> \in R) BY <1>1, WFMin
<1>4. \A y \in T : ~(y < x) BY <1>2, <1>3
<1>5. x \in Nat /\ \A y \in T : y \in Nat OBVIOUS
<1>. QED BY <1>4, <1>5

\* f gives the starts of the first n messages.
StartsOf(f, n) ==
    /\ f \in [1 .. n -> Nat] /\ f[1] = 0
    /\ \A i \in 1 .. n - 1 : f[i + 1] = f[i] + HeaderLength + sent[i]

LEMMA LengthsNat ==
    ASSUME sent \in Seq(Lengths)
    PROVE  /\ Len(sent) \in Nat /\ HeaderLength \in Nat
           /\ \A i \in 1 .. Len(sent) : sent[i] \in Nat
<1>1. Len(sent) \in Nat /\ \A i \in 1 .. Len(sent) : sent[i] \in Lengths OBVIOUS
<1>. QED BY <1>1, SizeAssumption

LEMMA StartsExist ==
    ASSUME sent \in Seq(Lengths), NEW n \in 1 .. Len(sent) + 1
    PROVE  \E f : StartsOf(f, n)
<1>0. /\ Len(sent) \in Nat /\ HeaderLength \in Nat
      /\ \A i \in 1 .. Len(sent) : sent[i] \in Nat
  BY LengthsNat
<1> DEFINE T == {k \in 1 .. Len(sent) + 1 : ~\E f : StartsOf(f, k)}
<1>1. SUFFICES ASSUME T # {} PROVE FALSE OBVIOUS
<1>2. PICK x \in T : \A y \in T : x <= y
  <2>1. T \in SUBSET Nat BY <1>0
  <2> HIDE DEF T
  <2>. QED BY <1>1, <2>1, Least
<1>3. CASE x = 1
  <2>1. StartsOf([i \in 1 .. 1 |-> 0], 1) BY DEF StartsOf
  <2>. QED BY <1>3, <2>1
<1>4. CASE x # 1
  <2>1. x - 1 \in 1 .. Len(sent) + 1 /\ x - 1 \notin T BY <1>0, <1>2, <1>4, SMTT(30)
  <2>2. PICK f : StartsOf(f, x - 1) BY <2>1
  <2>3. PICK last \in Nat : last = f[x - 1] + HeaderLength + sent[x - 1]
    <3>1. x - 1 \in 1 .. x - 1 BY <1>0, <2>1
    <3>2. f[x - 1] \in Nat BY <2>2, <3>1 DEF StartsOf
    <3>3. sent[x - 1] \in Nat BY <1>0, <2>1
    <3>. QED BY <1>0, <3>2, <3>3
  <2>4. PICK g : g = [i \in 1 .. x |-> IF i = x THEN last ELSE f[i]] OBVIOUS
  <2>5. StartsOf(g, x)
    <3>1. x \in Nat /\ x > 1 BY <1>0, <1>4
    <3>2. g \in [1 .. x -> Nat]
      <4>1. \A i \in 1 .. x : i # x => i \in 1 .. x - 1 BY <3>1
      <4>. QED BY <2>2, <2>4, <4>1 DEF StartsOf
    <3>3. g[1] = 0 BY <2>2, <2>4, <3>1 DEF StartsOf
    <3>4. ASSUME NEW i \in 1 .. x - 1 PROVE g[i + 1] = g[i] + HeaderLength + sent[i]
      <4>1. CASE i + 1 = x
        <5>1. g[i + 1] = last /\ g[i] = f[i] /\ i = x - 1 BY <2>4, <3>1, <4>1
        <5>. QED BY <2>3, <5>1
      <4>2. CASE i + 1 # x
        <5>1. i \in 1 .. (x - 1) - 1 /\ i # x /\ i \in 1 .. x /\ i + 1 \in 1 .. x BY <3>1, <4>2
        <5>2. g[i + 1] = f[i + 1] /\ g[i] = f[i] BY <2>4, <4>2, <5>1
        <5>. QED BY <2>2, <5>1, <5>2 DEF StartsOf
      <4>. QED BY <4>1, <4>2
    <3>. QED BY <3>2, <3>3, <3>4 DEF StartsOf
  <2>. QED BY <2>5
<1>. QED BY <1>3, <1>4

\* The first message starts at the first byte, each one where the one before ends.
LEMMA StartSteps ==
    ASSUME sent \in Seq(Lengths)
    PROVE  /\ Start[1] = 0
           /\ \A i \in 1 .. Len(sent) : Start[i + 1] = Start[i] + HeaderLength + sent[i]
<1>0. /\ Len(sent) \in Nat /\ HeaderLength \in Nat
      /\ \A i \in 1 .. Len(sent) : sent[i] \in Nat
  BY LengthsNat
<1>1. PICK f : StartsOf(f, Len(sent) + 1)
  <2>1. Len(sent) + 1 \in 1 .. Len(sent) + 1 BY <1>0
  <2>. QED BY <2>1, StartsExist
<1>2. f = [i \in 1 .. Len(sent) + 1 |-> IF i = 1 THEN 0 ELSE f[i - 1] + HeaderLength + sent[i - 1]]
  <2>1. ASSUME NEW i \in 1 .. Len(sent) + 1, i # 1
        PROVE  f[i] = f[i - 1] + HeaderLength + sent[i - 1]
    <3>1. i - 1 \in 1 .. (Len(sent) + 1) - 1 /\ (i - 1) + 1 = i BY <1>0, <2>1
    <3>. QED BY <1>1, <3>1 DEF StartsOf
  <2>. QED BY <1>1, <2>1 DEF StartsOf
<1>3. Start = [i \in 1 .. Len(sent) + 1 |->
                  IF i = 1 THEN 0 ELSE Start[i - 1] + HeaderLength + sent[i - 1]]
  BY <1>2, Zenon DEF Start
<1>4. 1 \in 1 .. Len(sent) + 1 BY <1>0
<1>5. ASSUME NEW i \in 1 .. Len(sent) PROVE Start[i + 1] = Start[i] + HeaderLength + sent[i]
  <2>1. i + 1 \in 1 .. Len(sent) + 1 /\ i + 1 # 1 /\ (i + 1) - 1 = i BY <1>0
  <2>. QED BY <1>3, <2>1
<1>. QED BY <1>3, <1>4, <1>5

\* Later messages start later.
LEMMA StartsAscend ==
    ASSUME sent \in Seq(Lengths)
    PROVE  /\ \A i \in 1 .. Len(sent) + 1 : Start[i] \in Nat
           /\ \A i, j \in 1 .. Len(sent) + 1 : i < j => Start[i] < Start[j]
<1>0. /\ Len(sent) \in Nat /\ HeaderLength \in Nat /\ HeaderLength > 0
      /\ \A i \in 1 .. Len(sent) : sent[i] \in Nat
  BY LengthsNat, SizeAssumption
<1>1. /\ Start[1] = 0
      /\ \A i \in 1 .. Len(sent) : Start[i + 1] = Start[i] + HeaderLength + sent[i]
  BY StartSteps
<1>2. \A i \in 1 .. Len(sent) + 1 : Start[i] \in Nat
  <2> DEFINE T == {i \in 1 .. Len(sent) + 1 : Start[i] \notin Nat}
  <2>1. SUFFICES ASSUME T # {} PROVE FALSE OBVIOUS
  <2>2. PICK x \in T : \A y \in T : x <= y
    <3>1. T \in SUBSET Nat BY <1>0
    <3> HIDE DEF T
    <3>. QED BY <2>1, <3>1, Least
  <2>3. x # 1 BY <1>1
  <2>4. x - 1 \in 1 .. Len(sent) /\ (x - 1) + 1 = x BY <1>0, <2>3
  <2>5. Start[x - 1] \in Nat BY <1>0, <2>2, <2>4
  <2>6. Start[x] = Start[x - 1] + HeaderLength + sent[x - 1] BY <1>1, <2>4
  <2>. QED BY <1>0, <2>4, <2>5, <2>6
<1>3. ASSUME NEW i \in 1 .. Len(sent) + 1, NEW j \in 1 .. Len(sent) + 1, i < j
      PROVE  Start[i] < Start[j]
  <2> DEFINE T == {k \in 1 .. Len(sent) + 1 : i < k /\ ~(Start[i] < Start[k])}
  <2>1. SUFFICES ASSUME T # {} PROVE FALSE BY <1>3
  <2>2. PICK x \in T : \A y \in T : x <= y
    <3>1. T \in SUBSET Nat BY <1>0
    <3> HIDE DEF T
    <3>. QED BY <2>1, <3>1, Least
  <2>3. x - 1 \in 1 .. Len(sent) /\ (x - 1) + 1 = x /\ i <= x - 1 BY <1>0
  <2>4. Start[x] = Start[x - 1] + HeaderLength + sent[x - 1] BY <1>1, <2>3
  <2>5. Start[i] <= Start[x - 1]
    <3>1. CASE i = x - 1 BY <1>2, <3>1
    <3>2. CASE i # x - 1
      <4>1. x - 1 \notin T /\ i < x - 1 /\ x - 1 \in 1 .. Len(sent) + 1 BY <1>0, <2>2, <2>3, <3>2
      <4>2. Start[i] < Start[x - 1] BY <4>1
      <4>3. Start[i] \in Nat /\ Start[x - 1] \in Nat BY <1>2, <4>1
      <4>. QED BY <4>2, <4>3
    <3>. QED BY <3>1, <3>2
  <2>6. Start[i] \in Nat /\ Start[x - 1] \in Nat /\ sent[x - 1] \in Nat BY <1>0, <1>2, <2>3
  <2>7. Start[i] < Start[x] BY SMTT(20), <1>0, <2>4, <2>5, <2>6
  <2>. QED BY <2>7
<1>. QED BY <1>2, <1>3

-----------------------------------------------------------------------------
(* Messages handed out, when every receive brings what it asked for        *)

\* Where the reader is when n messages of the peer are behind it: it has asked for a
\* header, it has the next one, the stream has ended where it would be, ...
HeaderAsked(n) ==
    /\ leave = -1 /\ offset = 0 /\ buf = Fresh /\ pos = Start[n + 1]
    /\ request = [off |-> 0, len |-> HeaderLength, done |-> FALSE]

HeaderRead(n) ==
    /\ leave = -1 /\ n < Len(sent) /\ pos = Start[n + 1] + HeaderLength
    /\ request = [off |-> 0, len |-> HeaderLength, done |-> TRUE]
    /\ \A k \in 0 .. HeaderLength - 1 : buf[k] = Start[n + 1] + 1 + k

HeaderMissed(n) ==
    /\ leave = -1 /\ n = Len(sent) /\ buf = Fresh /\ pos = Start[n + 1]
    /\ request = [off |-> 0, len |-> HeaderLength, done |-> TRUE]

\* ... or it is in the body of the next one, of which leave bytes are missing; one that
\* fits is received at once.
InBody(n) ==
    /\ n < Len(sent)
    /\ leave \in 1 .. sent[n + 1] /\ offset = sent[n + 1] - leave
    /\ request.len \in 1 .. leave
    /\ pos = Start[n + 1] + HeaderLength + offset + (IF request.done THEN request.len ELSE 0)
    /\ sent[n + 1] <= MaxSize =>
          /\ request.off = 0 /\ offset = 0 /\ request.len = leave
          /\ request.done => \A k \in 0 .. leave - 1 : buf[k] = Start[n + 1] + HeaderLength + 1 + k

Placed(n) == HeaderAsked(n) \/ HeaderRead(n) \/ HeaderMissed(n) \/ InBody(n)

BytesType ==
    /\ buf \in [0 .. MaxSize - 1 -> Nat] /\ pos \in Nat /\ total \in Nat
    /\ delivered \in Seq(Seq(Nat)) /\ status \in {"open", "shut"}

FrameInv ==
    /\ BufferInv /\ BytesType
    /\ total = StreamLength
    /\ \E n \in 0 .. Len(sent) :
          HandedOut(n) /\ Start[n + 1] <= pos /\ (status = "open" => Placed(n))

LEMMA HandedSame ==
    ASSUME NEW n, HandedOut(n), delivered' = delivered, sent' = sent
    PROVE  HandedOut(n)'
<1>1. Start' = Start BY DEF Start
<1>. QED BY <1>1 DEF HandedOut, Body, Wanted

\* A message that does not fit, or is empty, is left out, ...
LEMMA HandedSkip ==
    ASSUME sent \in Seq(Lengths), delivered \in Seq(Seq(Nat)),
           NEW n \in 0 .. Len(sent) - 1, HandedOut(n), ~Wanted(n + 1),
           delivered' = delivered, sent' = sent
    PROVE  HandedOut(n + 1)'
<1>1. PICK f \in [DOMAIN delivered -> 1 .. n] :
        /\ \A j, k \in DOMAIN delivered : j < k => f[j] < f[k]
        /\ \A k \in DOMAIN delivered : delivered[k] = Body(f[k])
        /\ {f[k] : k \in DOMAIN delivered} = {i \in 1 .. n : Wanted(i)}
  BY DEF HandedOut
<1>2. {i \in 1 .. n : Wanted(i)} = {i \in 1 .. (n + 1) : Wanted(i)} OBVIOUS
<1>3. f \in [DOMAIN delivered -> 1 .. (n + 1)] OBVIOUS
<1>4. HandedOut(n + 1) BY <1>1, <1>2, <1>3 DEF HandedOut
<1>. QED BY <1>4, HandedSame

\* ... and one that fits is added at the end.
LEMMA HandedAppend ==
    ASSUME sent \in Seq(Lengths), delivered \in Seq(Seq(Nat)),
           NEW n \in 0 .. Len(sent) - 1, HandedOut(n), Wanted(n + 1),
           Body(n + 1) \in Seq(Nat),
           delivered' = Append(delivered, Body(n + 1)), sent' = sent
    PROVE  HandedOut(n + 1)'
<1>1. PICK f \in [DOMAIN delivered -> 1 .. n] :
        /\ \A j, k \in DOMAIN delivered : j < k => f[j] < f[k]
        /\ \A k \in DOMAIN delivered : delivered[k] = Body(f[k])
        /\ {f[k] : k \in DOMAIN delivered} = {i \in 1 .. n : Wanted(i)}
  BY DEF HandedOut
<1>2. PICK d \in Nat :
        /\ DOMAIN delivered = 1 .. d /\ DOMAIN delivered' = 1 .. (d + 1)
        /\ \A k \in 1 .. d : delivered'[k] = delivered[k]
        /\ delivered'[d + 1] = Body(n + 1)
  <2>1. PICK d \in Nat : d = Len(delivered) OBVIOUS
  <2>2. /\ DOMAIN delivered = 1 .. d /\ DOMAIN delivered' = 1 .. (d + 1)
        /\ \A k \in 1 .. d : delivered'[k] = delivered[k]
        /\ delivered'[d + 1] = Body(n + 1)
    BY <2>1
  <2>. QED BY <2>2
<1>3. PICK g : g = [k \in 1 .. (d + 1) |-> IF k = d + 1 THEN n + 1 ELSE f[k]] OBVIOUS
<1>n. n \in Nat OBVIOUS
<1>4. /\ \A k \in 1 .. (d + 1) : k = d + 1 \/ k \in 1 .. d
      /\ \A k \in 1 .. d : k \in 1 .. (d + 1) /\ k # d + 1
      /\ d + 1 \in 1 .. (d + 1)
  OBVIOUS
<1>5. /\ g[d + 1] = n + 1
      /\ \A k \in 1 .. d : g[k] = f[k] /\ f[k] \in 1 .. n
  BY <1>1, <1>2, <1>3, <1>4
<1>6. g \in [1 .. (d + 1) -> 1 .. (n + 1)]
  <2>1. ASSUME NEW k \in 1 .. (d + 1) PROVE g[k] \in 1 .. (n + 1)
    <3>1. CASE k = d + 1 BY <1>n, <1>5, <3>1
    <3>2. CASE k \in 1 .. d
      <4>1. PICK i \in 1 .. n : g[k] = i BY <1>5, <3>2
      <4>2. i \in 1 .. (n + 1) BY <1>n
      <4>. QED BY <4>1, <4>2
    <3>. QED BY <1>4, <3>1, <3>2
  <2>. QED BY <1>3, <2>1
<1>7. ASSUME NEW j \in 1 .. (d + 1), NEW k \in 1 .. (d + 1), j < k PROVE g[j] < g[k]
  <2>1. j \in 1 .. d BY <1>7
  <2>2. CASE k = d + 1 BY SMTT(20), <1>5, <1>n, <2>1, <2>2
  <2>3. CASE k \in 1 .. d BY <1>1, <1>2, <1>5, <1>7, <2>1, <2>3
  <2>. QED BY <1>4, <2>2, <2>3
<1>8. ASSUME NEW k \in 1 .. (d + 1) PROVE delivered'[k] = Body(g[k])
  BY <1>1, <1>2, <1>4, <1>5
<1>9. {g[k] : k \in 1 .. (d + 1)} = {i \in 1 .. (n + 1) : Wanted(i)}
  <2>1. {i \in 1 .. (n + 1) : Wanted(i)} = {i \in 1 .. n : Wanted(i)} \cup {n + 1} BY <1>n
  <2>2. {g[k] : k \in 1 .. (d + 1)} = {f[k] : k \in 1 .. d} \cup {n + 1} BY <1>4, <1>5
  <2>. QED BY <1>1, <1>2, <2>1, <2>2
<1>10. Start' = Start BY DEF Start
<1>11. \A i : Body(i)' = Body(i) /\ (Wanted(i)' <=> Wanted(i)) BY <1>10 DEF Body, Wanted
<1>12. /\ g \in [DOMAIN delivered' -> 1 .. (n + 1)]
       /\ \A j, k \in DOMAIN delivered' : j < k => g[j] < g[k]
       /\ \A k \in DOMAIN delivered' : delivered'[k] = Body(g[k])'
       /\ {g[k] : k \in DOMAIN delivered'} = {i \in 1 .. (n + 1) : Wanted(i)'}
  <2>1. DOMAIN delivered' = 1 .. (d + 1) BY <1>2
  <2>2. {i \in 1 .. (n + 1) : Wanted(i)'} = {i \in 1 .. (n + 1) : Wanted(i)} BY <1>11
  <2>. QED BY <1>6, <1>7, <1>8, <1>9, <1>11, <2>1, <2>2
<1>. QED BY <1>12 DEF HandedOut

LEMMA FrameInit == Init => (~Ragged => FrameInv)
<1> SUFFICES ASSUME Init, ~Ragged PROVE FrameInv OBVIOUS
<1>1. BufferInv BY BufferInit
<1>2. sent \in Seq(Lengths) BY <1>1 DEF BufferInv
<1>3. Start[1] = 0 BY <1>2, StartSteps
<1>4. Len(sent) \in Nat /\ Len(sent) + 1 \in 1 .. Len(sent) + 1 BY <1>2, LengthsNat
<1>5. StreamLength \in Nat BY <1>2, <1>4, StartsAscend DEF StreamLength
<1>6. BytesType
  <2>1. buf \in [0 .. MaxSize - 1 -> Nat] BY DEF Init, Fresh
  <2>. QED BY <1>5, <2>1 DEF Init, BytesType
<1>7. HandedOut(0)
  <2>1. DOMAIN delivered = {} BY DEF Init
  <2>2. {i \in 1 .. 0 : Wanted(i)} = {} OBVIOUS
  <2>3. PICK f : f = [k \in DOMAIN delivered |-> 0] OBVIOUS
  <2>4. f \in [DOMAIN delivered -> 1 .. 0] BY <2>1, <2>3
  <2>. QED BY <2>1, <2>2, <2>4 DEF HandedOut
<1>8. HeaderAsked(0) BY <1>3 DEF Init, HeaderAsked
<1>9. 0 \in 0 .. Len(sent) BY <1>4
<1>10. total = StreamLength /\ pos = 0 BY DEF Init
<1>. QED BY <1>1, <1>3, <1>6, <1>7, <1>8, <1>9, <1>10 DEF FrameInv, Placed

\* What the socket does.
LEMMA FrameReceive ==
    ASSUME ~Ragged, FrameInv, BufferInv', Receive \/ ReceiveFails
    PROVE  FrameInv'
<1>1. PICK n \in 0 .. Len(sent) :
        HandedOut(n) /\ Start[n + 1] <= pos /\ (status = "open" => Placed(n))
  BY DEF FrameInv
<1>2. sent \in Seq(Lengths) /\ total = StreamLength /\ BytesType BY DEF FrameInv, BufferInv
<1>3. /\ Len(sent) \in Nat /\ HeaderLength \in Nat /\ HeaderLength > 1
      /\ \A i \in 1 .. Len(sent) : sent[i] \in Nat
  BY <1>2, LengthsNat, SizeAssumption
<1>4. /\ \A i \in 1 .. Len(sent) : Start[i + 1] = Start[i] + HeaderLength + sent[i]
      /\ \A i \in 1 .. Len(sent) + 1 : Start[i] \in Nat
      /\ \A i, j \in 1 .. Len(sent) + 1 : i < j => Start[i] < Start[j]
  BY <1>2, StartSteps, StartsAscend
<1>5. /\ sent' = sent /\ total' = total /\ leave' = leave /\ offset' = offset
      /\ delivered' = delivered /\ status' = status
      /\ request' = [request EXCEPT !.done = TRUE]
  BY DEF Receive, ReceiveFails
<1>6. Start' = Start /\ StreamLength' = StreamLength BY <1>5 DEF Start, StreamLength
<1>7. HandedOut(n)' BY <1>1, <1>5, HandedSame
<1>8. request \in [off : Nat, len : Nat, done : BOOLEAN] BY DEF FrameInv, BufferInv
<1>9. /\ request'.off = request.off /\ request'.len = request.len /\ request'.done
      /\ request'= [off |-> request.off, len |-> request.len, done |-> TRUE]
  BY <1>5, <1>8
<1>10. PICK m \in Nat : m = n + 1 /\ m \in 1 .. Len(sent) + 1 BY <1>3
<1>11. Start[m] \in Nat /\ StreamLength = Start[Len(sent) + 1] BY <1>4, <1>10 DEF StreamLength
<1>12. ASSUME BytesType', pos <= pos', status' = "open" => Placed(n)' PROVE FrameInv'
  <2>1. Start'[n + 1] <= pos' BY <1>1, <1>2, <1>6, <1>10, <1>11, <1>12 DEF BytesType
  <2>2. n \in 0 .. Len(sent') BY <1>5
  <2>. QED BY <1>2, <1>5, <1>6, <1>7, <1>12, <2>1, <2>2 DEF FrameInv
\* Inside a message the stream has not ended.
<1>13. ASSUME n < Len(sent)
       PROVE  /\ m \in 1 .. Len(sent) /\ sent[m] \in Nat
              /\ Start[m] + HeaderLength + sent[m] <= total
  <2>1. m \in 1 .. Len(sent) BY <1>3, <1>10, <1>13
  <2>2. Start[m + 1] = Start[m] + HeaderLength + sent[m] /\ sent[m] \in Nat BY <1>3, <1>4, <2>1
  <2>3. Start[m + 1] <= Start[Len(sent) + 1]
    <3>1. m + 1 \in 1 .. Len(sent) + 1 /\ Len(sent) + 1 \in 1 .. Len(sent) + 1 BY <1>3, <2>1
    <3>2. CASE m + 1 = Len(sent) + 1
      <4>1. Start[m + 1] \in Nat BY <1>4, <3>1
      <4>. QED BY <3>2, <4>1
    <3>3. CASE m + 1 # Len(sent) + 1
      <4>1. PICK i \in 1 .. Len(sent) + 1, j \in 1 .. Len(sent) + 1 : i = m + 1 /\ j = Len(sent) + 1
        BY <3>1
      <4>2. i < j BY <1>3, <2>1, <3>3, <4>1
      <4>3. Start[i] \in Nat /\ Start[j] \in Nat /\ Start[i] < Start[j] BY <1>4, <4>2
      <4>. QED BY <4>1, <4>3
    <3>. QED BY <3>2, <3>3
  <2>. QED BY <1>2, <1>11, <2>1, <2>2, <2>3
<1>14. CASE Receive
  <2>1. /\ request # NoRequest /\ ~request.done /\ status = "open"
        /\ pos + request.len <= total /\ pos' = pos + request.len
        /\ buf' = [k \in 0 .. MaxSize - 1 |->
                        IF k \in request.off .. request.off + request.len - 1
                        THEN pos + (k - request.off) + 1 ELSE buf[k]]
    BY <1>14 DEF Receive, Outstanding
  <2>2. BytesType'
    <3>1. ASSUME NEW k \in 0 .. MaxSize - 1 PROVE buf'[k] \in Nat
      <4>1. pos \in Nat /\ buf[k] \in Nat /\ request.off \in Nat /\ request.len \in Nat /\ k \in Nat
        BY SMTT(20), <1>2, <1>8 DEF BytesType
      <4>2. CASE k \in request.off .. request.off + request.len - 1
        <5>1. buf'[k] = pos + (k - request.off) + 1 BY <2>1, <4>2
        <5>. QED BY <4>1, <4>2, <5>1
      <4>3. CASE k \notin request.off .. request.off + request.len - 1
        <5>1. buf'[k] = buf[k] BY <2>1, <4>3
        <5>. QED BY <4>1, <5>1
      <4>. QED BY <4>2, <4>3
    <3>. QED BY <1>2, <1>5, <1>8, <2>1, <3>1 DEF BytesType
  <2>3. pos <= pos' BY <1>2, <1>8, <2>1 DEF BytesType
  <2>4. Placed(n)'
    <3>1. CASE HeaderAsked(n)
      <4>1. /\ request.off = 0 /\ request.len = HeaderLength /\ leave = -1 /\ pos = Start[m]
        BY <1>10, <3>1 DEF HeaderAsked
      <4>2. n < Len(sent)
        <5>1. Start[m] < total
          <6>1. total \in Nat /\ Start[m] + HeaderLength <= total BY <1>2, <2>1, <4>1 DEF BytesType
          <6>. QED BY <1>3, <1>11, <6>1
        <5>2. Start[m] < Start[Len(sent) + 1] BY <1>2, <1>11, <5>1
        <5>3. m # Len(sent) + 1 BY <1>11, <5>2
        <5>. QED BY <1>3, <1>10, <5>3
      <4>3. \A k \in 0 .. HeaderLength - 1 : buf'[k] = Start[m] + 1 + k
        <5>1. \A k \in 0 .. HeaderLength - 1 : k \in 0 .. MaxSize - 1 BY SizeAssumption
        <5>2. \A k \in 0 .. HeaderLength - 1 : k \in request.off .. request.off + request.len - 1
          BY <1>3, <4>1
        <5>3. \A k \in 0 .. HeaderLength - 1 : buf'[k] = pos + (k - request.off) + 1
          BY <2>1, <5>1, <5>2
        <5>. QED BY <1>11, <4>1, <5>3
      <4>4. /\ leave' = -1 /\ n < Len(sent') /\ pos' = Start'[m] + HeaderLength
            /\ request' = [off |-> 0, len |-> HeaderLength, done |-> TRUE]
            /\ \A k \in 0 .. HeaderLength - 1 : buf'[k] = Start'[m] + 1 + k
        BY ZenonT(30), <1>5, <1>6, <1>9, <2>1, <4>1, <4>2, <4>3
      <4>5. HeaderRead(n)' BY <1>10, <4>4 DEF HeaderRead
      <4>. QED BY <4>5 DEF Placed
    <3>2. CASE InBody(n)
      <4>1. /\ n < Len(sent)
            /\ leave \in 1 .. sent[m] /\ offset = sent[m] - leave
            /\ request.len \in 1 .. leave
            /\ pos = Start[m] + HeaderLength + offset
            /\ sent[m] <= MaxSize => request.off = 0 /\ offset = 0 /\ request.len = leave
        BY SMTT(20), <1>3, <1>10, <1>11, <1>13, <2>1, <3>2 DEF InBody
      <4>2. sent[m] \in Nat BY <1>13, <4>1
      <4>3. ASSUME sent[m] <= MaxSize, NEW k \in 0 .. leave - 1
            PROVE  buf'[k] = Start[m] + HeaderLength + 1 + k
        <5>1. k \in 0 .. MaxSize - 1 /\ k \in request.off .. request.off + request.len - 1
          BY <4>1, <4>2, <4>3, SizeAssumption
        <5>2. buf'[k] = pos + (k - request.off) + 1 BY <2>1, <5>1
        <5>3. k \in Nat /\ request.off = 0 /\ pos = Start[m] + HeaderLength BY <1>3, <1>11, <4>1, <4>2, <4>3
        <5>. QED BY <1>3, <1>11, <5>2, <5>3
      <4>4. pos' = Start[m] + HeaderLength + offset + request.len BY <2>1, <4>1
      <4>5. InBody(n)'
        BY <1>5, <1>6, <1>9, <1>10, <4>1, <4>3, <4>4 DEF InBody
      <4>. QED BY <4>5 DEF Placed
    <3>. QED BY <1>1, <2>1, <3>1, <3>2 DEF Placed, HeaderRead, HeaderMissed
  <2>. QED BY <1>12, <2>2, <2>3, <2>4
<1>15. CASE ReceiveFails
  <2>1. /\ request # NoRequest /\ ~request.done /\ (pos = total \/ status = "shut")
        /\ pos' = pos /\ buf' = buf
    BY <1>15 DEF ReceiveFails, Outstanding
  <2>2. BytesType' BY <1>2, <1>5, <2>1 DEF BytesType
  <2>3. pos <= pos' BY <1>2, <2>1 DEF BytesType
  <2>4. ASSUME status = "open" PROVE Placed(n)'
    <3>1. pos = total BY <2>1, <2>4
    <3>2. CASE HeaderAsked(n)
      <4>1. /\ request.off = 0 /\ request.len = HeaderLength /\ leave = -1 /\ pos = Start[m] /\ buf = Fresh
        BY <1>10, <3>2 DEF HeaderAsked
      <4>2. n = Len(sent)
        <5>1. ASSUME n # Len(sent) PROVE FALSE
          <6>1. n < Len(sent) BY <1>3, <5>1
          <6>. QED BY <1>3, <1>11, <1>13, <3>1, <4>1, <6>1
        <5>. QED BY <5>1
      <4>. QED BY <1>5, <1>6, <1>9, <1>10, <2>1, <4>1, <4>2 DEF Placed, HeaderMissed
    <3>3. CASE InBody(n)
      <4>1. /\ n < Len(sent)
            /\ leave \in 1 .. sent[m] /\ offset = sent[m] - leave
            /\ pos = Start[m] + HeaderLength + offset
        BY <1>3, <1>10, <1>11, <1>13, <2>1, <3>3 DEF InBody
      <4>. QED BY SMTT(20), <1>3, <1>11, <1>13, <3>1, <4>1
    <3>. QED BY <1>1, <2>1, <2>4, <3>2, <3>3 DEF Placed, HeaderRead, HeaderMissed
  <2>. QED BY <1>5, <1>12, <2>2, <2>3, <2>4
<1>. QED BY <1>14, <1>15

\* Closing the session, and the handler that finds it closed.
LEMMA FrameShut ==
    ASSUME FrameInv, BufferInv', Shut \/ ReadStopped \/ UNCHANGED vars
    PROVE  FrameInv'
<1>1. PICK n \in 0 .. Len(sent) :
        HandedOut(n) /\ Start[n + 1] <= pos /\ (status = "open" => Placed(n))
  BY DEF FrameInv
<1>2. /\ sent' = sent /\ total' = total /\ pos' = pos /\ buf' = buf /\ delivered' = delivered
      /\ \/ status' = "shut"
         \/ status' = status /\ request' = request /\ leave' = leave /\ offset' = offset
  BY DEF Shut, ReadStopped, vars
<1>3. Start' = Start /\ StreamLength' = StreamLength BY <1>2 DEF Start, StreamLength
<1>4. HandedOut(n)' BY <1>1, <1>2, HandedSame
<1>5. BytesType'
  <2>1. status' \in {"open", "shut"} BY <1>2 DEF FrameInv, BytesType
  <2>. QED BY <1>2, <2>1 DEF FrameInv, BytesType
<1>6. status' = "open" => Placed(n)'
  BY <1>1, <1>2, <1>3 DEF Placed, HeaderAsked, HeaderRead, HeaderMissed, InBody
<1>7. total' = StreamLength' BY <1>2, <1>3 DEF FrameInv
<1>8. Start'[n + 1] <= pos' /\ n \in 0 .. Len(sent') BY <1>1, <1>2, <1>3
<1>. QED BY <1>4, <1>5, <1>6, <1>7, <1>8 DEF FrameInv

\* A header is asked for once n messages are behind the reader.
LEMMA HeaderNext ==
    ASSUME FrameInv, BufferInv', NEW n \in 0 .. Len(sent),
           sent' = sent, total' = total, pos' = pos, status' = status,
           ReceiveHeader, HandedOut(n)', pos = Start[n + 1], delivered' \in Seq(Seq(Nat))
    PROVE  FrameInv'
<1>1. Start' = Start /\ StreamLength' = StreamLength BY DEF Start, StreamLength
<1>2. HeaderAsked(n)'
  <2>1. /\ leave' = -1 /\ offset' = 0 /\ buf' = Fresh
        /\ request' = [off |-> 0, len |-> HeaderLength, done |-> FALSE]
    BY DEF ReceiveHeader, ReceiveSp
  <2>2. Fresh' = Fresh BY DEF Fresh
  <2>. QED BY <1>1, <2>1, <2>2 DEF HeaderAsked
<1>3. BytesType'
  <2>1. buf' \in [0 .. MaxSize - 1 -> Nat] BY DEF ReceiveHeader, Fresh
  <2>. QED BY <2>1 DEF FrameInv, BytesType
<1>4. pos \in Nat BY DEF FrameInv, BytesType
<1>5. Start'[n + 1] <= pos' /\ n \in 0 .. Len(sent') /\ total' = StreamLength'
  BY <1>1, <1>4 DEF FrameInv
<1>. QED BY <1>2, <1>3, <1>5 DEF FrameInv, Placed

\* The header read is that of the next message.
LEMMA HeaderValue ==
    ASSUME FrameInv, NEW n \in 0 .. Len(sent) - 1, HeaderRead(n)
    PROVE  HeaderValues = {sent[n + 1]}
<1>1. sent \in Seq(Lengths) BY DEF FrameInv, BufferInv
<1>2. Len(sent) \in Nat BY <1>1, LengthsNat
<1>3. PICK m \in 1 .. Len(sent) : m = n + 1 BY <1>2
<1>4. PICK half \in Nat : half = HeaderLength \div 2 /\ half >= 1 /\ half <= HeaderLength
  BY SizeAssumption
<1>5. /\ \A i \in 1 .. Len(sent) : Start[i] \in Nat
      /\ \A i, j \in 1 .. Len(sent) : i < j => Start[i] < Start[j]
  <2>1. \A i \in 1 .. Len(sent) : i \in 1 .. Len(sent) + 1 BY <1>2
  <2>. QED BY <1>1, <2>1, StartsAscend
<1> DEFINE from(p) == \A k \in 0 .. half - 1 : buf[k] = p + k
<1>6. \A k \in 0 .. half - 1 : k \in Nat /\ buf[k] = Start[m] + 1 + k
  <2>1. \A k \in 0 .. half - 1 : k \in 0 .. HeaderLength - 1 /\ k \in Nat BY <1>4, SizeAssumption
  <2>. QED BY <1>3, <2>1 DEF HeaderRead
<1>7. 0 \in 0 .. half - 1 BY <1>4
<1>8. Start[m] \in Nat BY <1>5
<1>9. ~ \A k \in 0 .. half - 1 : buf[k] = 0
  <2>1. buf[0] = Start[m] + 1 BY <1>6, <1>7, <1>8
  <2>. QED BY <1>7, <1>8, <2>1
<1>10. from(Start[m] + 1) BY <1>6
<1>11. ASSUME NEW i \in 1 .. Len(sent), from(Start[i] + 1) PROVE i = m
  <2>1. Start[i] \in Nat BY <1>5
  <2>2. buf[0] = Start[i] + 1 + 0 /\ buf[0] = Start[m] + 1 + 0 BY <1>6, <1>7, <1>11
  <2>3. Start[i] = Start[m] BY <1>8, <2>1, <2>2
  <2>4. ~(i < m) /\ ~(m < i) BY <1>5, <1>8, <2>1, <2>3
  <2>. QED BY <1>2, <2>4
<1>12. (CHOOSE i \in 1 .. Len(sent) : from(Start[i] + 1)) = m
  <2> HIDE DEF from
  <2>. QED BY <1>10, <1>11
<1>13. HeaderValues = {sent[CHOOSE i \in 1 .. Len(sent) : from(Start[i] + 1)]}
  <2>1. \E i \in 1 .. Len(sent) : from(Start[i] + 1) BY <1>10
  <2>. QED BY <1>4, <1>9, <2>1, Zenon DEF HeaderValues
<1>. QED BY <1>3, <1>12, <1>13

\* Where the stream has ended there is nothing but what a fresh buffer holds.
LEMMA NoHeaderValue ==
    ASSUME buf = Fresh
    PROVE  HeaderValues = {0}
<1>1. PICK half \in Nat : half = HeaderLength \div 2 /\ half <= MaxSize BY SizeAssumption
<1>2. \A k \in 0 .. half - 1 : k \in 0 .. MaxSize - 1 BY <1>1, SizeAssumption
<1>3. \A k \in 0 .. half - 1 : buf[k] = 0 BY <1>2 DEF Fresh
<1>. QED BY <1>1, <1>3, Zenon DEF HeaderValues

\* What follows from the next message being there.
LEMMA NextMessage ==
    ASSUME FrameInv, NEW n \in 0 .. Len(sent), n < Len(sent)
    PROVE  \E m \in 1 .. Len(sent) :
              /\ m = n + 1 /\ sent[m] \in Nat /\ Start[m] \in Nat
              /\ Start[m + 1] = Start[m] + HeaderLength + sent[m]
              /\ m \in 0 .. Len(sent) /\ n \in 0 .. Len(sent) - 1
              /\ (Wanted(m) <=> sent[m] \in 1 .. MaxSize)
<1>1. sent \in Seq(Lengths) BY DEF FrameInv, BufferInv
<1>2. Len(sent) \in Nat /\ \A i \in 1 .. Len(sent) : sent[i] \in Nat BY <1>1, LengthsNat
<1>3. PICK m \in 1 .. Len(sent) : m = n + 1 BY <1>2
<1>4. m \in 1 .. Len(sent) + 1 BY <1>2
<1>5. Start[m] \in Nat BY <1>1, <1>4, StartsAscend
<1>6. Start[m + 1] = Start[m] + HeaderLength + sent[m] BY <1>1, StartSteps
<1>. QED BY <1>2, <1>3, <1>5, <1>6 DEF Wanted

\* handle_read_sp, with a header.
LEMMA FrameHeader ==
    ASSUME FrameInv, BufferInv', ReadHeader
    PROVE  FrameInv'
<1>1. PICK n \in 0 .. Len(sent) :
        HandedOut(n) /\ Start[n + 1] <= pos /\ (status = "open" => Placed(n))
  BY DEF FrameInv
<1>2. /\ sent' = sent /\ total' = total /\ pos' = pos /\ delivered' = delivered
      /\ status' = status /\ request.done /\ leave = -1 /\ status = "open"
  BY DEF ReadHeader
<1>3. PICK v \in HeaderValues :
          \/ v = 0 /\ ReceiveHeader
          \/ v > 0 /\ leave' = v /\ offset' = 0 /\ ReceiveSp(0, BodyLength(v)) /\ buf' = buf
  BY DEF ReadHeader, SkipEmpty
<1>4. sent \in Seq(Lengths) /\ delivered \in Seq(Seq(Nat)) BY DEF FrameInv, BufferInv, BytesType
<1>5. CASE HeaderRead(n)
  <2>1. n < Len(sent) BY <1>5 DEF HeaderRead
  <2>2. PICK m \in 1 .. Len(sent) :
          /\ m = n + 1 /\ sent[m] \in Nat /\ Start[m] \in Nat
          /\ Start[m + 1] = Start[m] + HeaderLength + sent[m]
          /\ m \in 0 .. Len(sent) /\ n \in 0 .. Len(sent) - 1
          /\ (Wanted(m) <=> sent[m] \in 1 .. MaxSize)
    BY <2>1, NextMessage
  <2>3. v = sent[m] BY <1>5, <2>2, HeaderValue
  <2>4. pos = Start[m] + HeaderLength BY <1>5, <2>2 DEF HeaderRead
  <2>5. CASE v = 0 /\ ReceiveHeader
    <3>1. HandedOut(n + 1)'
      <4>1. ~Wanted(n + 1) BY <2>2, <2>3, <2>5
      <4>. QED BY <1>1, <1>2, <1>4, <2>2, <4>1, HandedSkip
    <3>2. pos = Start[m + 1] BY <2>2, <2>3, <2>4, <2>5, SizeAssumption
    <3>3. HandedOut(m)' BY <2>2, <3>1
    <3>. QED BY <1>2, <1>4, <2>2, <2>5, <3>2, <3>3, HeaderNext
  <2>6. CASE v > 0 /\ leave' = v /\ offset' = 0 /\ ReceiveSp(0, BodyLength(v)) /\ buf' = buf
    <3>1. Start' = Start /\ StreamLength' = StreamLength BY <1>2 DEF Start, StreamLength
    <3>2. PICK len \in 1 .. v : len = BodyLength(v) /\ (v <= MaxSize => len = v)
      BY <2>2, <2>3, <2>6, SizeAssumption DEF BodyLength
    <3>3. request' = [off |-> 0, len |-> len, done |-> FALSE] BY <2>6, <3>2 DEF ReceiveSp
    <3>4. InBody(n)'
      <4>1. /\ n < Len(sent') /\ leave' \in 1 .. sent'[m] /\ offset' = sent'[m] - leave'
            /\ request'.len \in 1 .. leave'
        BY <1>2, <2>1, <2>2, <2>3, <2>6, <3>2, <3>3
      <4>2. pos' = Start'[m] + HeaderLength + offset' + (IF request'.done THEN request'.len ELSE 0)
        BY <1>2, <2>2, <2>4, <2>6, <3>1, <3>3, SizeAssumption
      <4>3. sent'[m] <= MaxSize =>
              request'.off = 0 /\ offset' = 0 /\ request'.len = leave' /\ ~request'.done
        BY <1>2, <2>3, <2>6, <3>2, <3>3
      <4>. QED BY <2>2, <4>1, <4>2, <4>3 DEF InBody
    <3>5. HandedOut(n)' BY <1>1, <1>2, HandedSame
    <3>6. BytesType' /\ total' = StreamLength' BY <1>2, <2>6, <3>1 DEF FrameInv, BytesType
    <3>7. Start'[n + 1] <= pos' /\ n \in 0 .. Len(sent') BY <1>1, <1>2, <3>1
    <3>. QED BY <3>4, <3>5, <3>6, <3>7 DEF FrameInv, Placed
  <2>. QED BY <1>3, <2>5, <2>6
<1>6. CASE HeaderMissed(n)
  <2>1. v = 0 BY <1>6, NoHeaderValue DEF HeaderMissed
  <2>2. pos = Start[n + 1] BY <1>6 DEF HeaderMissed
  <2>3. HandedOut(n)' BY <1>1, <1>2, HandedSame
  <2>. QED BY <1>2, <1>3, <1>4, <2>1, <2>2, <2>3, HeaderNext
<1>7. ~HeaderAsked(n) BY <1>2 DEF HeaderAsked
<1>8. ~InBody(n) BY <1>2 DEF InBody
<1>. QED BY <1>1, <1>2, <1>5, <1>6, <1>7, <1>8 DEF Placed

\* handle_read_sp, with a body or a piece of one.
LEMMA FrameBody ==
    ASSUME FrameInv, BufferInv', ReadBody
    PROVE  FrameInv'
<1> DEFINE left == leave - request.len
           read == offset + request.len
<1>1. PICK n \in 0 .. Len(sent) :
        HandedOut(n) /\ Start[n + 1] <= pos /\ (status = "open" => Placed(n))
  BY DEF FrameInv
<1>2. /\ sent' = sent /\ total' = total /\ pos' = pos
      /\ status' = status /\ request.done /\ status = "open"
      /\ ~(leave = -1 /\ request.len = HeaderLength)
      /\ \/ /\ left = 0 /\ ReceiveHeader
            /\ delivered' = IF Discards(read) THEN delivered
                            ELSE Append(delivered, [k \in 1 .. read |-> buf[k - 1]])
         \/ /\ left > 0 /\ leave' = left /\ offset' = read /\ Piece(read, left)
            /\ buf' = buf /\ delivered' = delivered
  BY DEF ReadBody
<1>3. InBody(n) BY <1>1, <1>2 DEF Placed, HeaderAsked, HeaderRead, HeaderMissed
<1>4. sent \in Seq(Lengths) /\ delivered \in Seq(Seq(Nat)) BY DEF FrameInv, BufferInv, BytesType
<1>5. n < Len(sent) BY <1>3 DEF InBody
<1>6. PICK m \in 1 .. Len(sent) :
        /\ m = n + 1 /\ sent[m] \in Nat /\ Start[m] \in Nat
        /\ Start[m + 1] = Start[m] + HeaderLength + sent[m]
        /\ m \in 0 .. Len(sent) /\ n \in 0 .. Len(sent) - 1
        /\ (Wanted(m) <=> sent[m] \in 1 .. MaxSize)
  BY <1>5, NextMessage
<1>7. /\ leave \in 1 .. sent[m] /\ offset = sent[m] - leave
      /\ request.len \in 1 .. leave
      /\ pos = Start[m] + HeaderLength + offset + request.len
      /\ sent[m] <= MaxSize =>
            /\ request.off = 0 /\ offset = 0 /\ request.len = leave
            /\ \A k \in 0 .. leave - 1 : buf[k] = Start[m] + HeaderLength + 1 + k
  BY <1>2, <1>3, <1>6 DEF InBody
<1>8. HeaderLength \in Nat /\ MaxSize \in Nat BY SizeAssumption
<1>9. CASE left = 0
  <2>1. /\ ReceiveHeader
        /\ delivered' = IF Discards(read) THEN delivered
                        ELSE Append(delivered, [k \in 1 .. read |-> buf[k - 1]])
    BY <1>2, <1>9
  <2>2. leave = request.len /\ read = sent[m] /\ sent[m] >= 1 BY <1>6, <1>7, <1>9
  <2>3. pos = Start[m + 1] BY SMTT(20), <1>6, <1>7, <1>8, <2>2
  <2>4. HandedOut(n + 1)' /\ delivered' \in Seq(Seq(Nat))
    <3>1. CASE sent[m] > MaxSize
      <4>1. delivered' = delivered BY <2>1, <2>2, <3>1 DEF Discards
      <4>2. ~Wanted(n + 1) BY <1>6, <1>8, <3>1
      <4>. QED BY <1>1, <1>2, <1>4, <1>6, <4>1, <4>2, HandedSkip
    <3>2. CASE sent[m] <= MaxSize
      <4>1. ~Discards(read) BY <1>6, <1>8, <2>2, <3>2 DEF Discards
      <4>2. leave = sent[m] BY <1>6, <1>7, <3>2
      <4>3. ASSUME NEW k \in 1 .. sent[m]
            PROVE  buf[k - 1] = Start[m] + HeaderLength + k
        <5>1. PICK i \in 0 .. leave - 1 : i = k - 1 BY <1>6, <4>2
        <5>2. buf[i] = Start[m] + HeaderLength + 1 + i BY <1>7, <3>2
        <5>. QED BY <1>6, <1>8, <5>1, <5>2
      <4>4. [k \in 1 .. read |-> buf[k - 1]] = Body(m) BY <2>2, <4>3 DEF Body
      <4>5. Body(m) \in Seq(Nat) BY <1>6, <1>8, SMTT(20) DEF Body
      <4>6. delivered' = Append(delivered, Body(m)) BY <2>1, <4>1, <4>4
      <4>7. Wanted(m) BY <1>6, <1>8, <2>2, <3>2
      <4>8. HandedOut(n + 1)' BY <1>1, <1>2, <1>4, <1>6, <4>5, <4>6, <4>7, HandedAppend
      <4>9. delivered' \in Seq(Seq(Nat)) BY <1>4, <4>5, <4>6
      <4>. QED BY <4>8, <4>9
    <3>. QED BY <1>6, <1>8, <3>1, <3>2
  <2>5. HandedOut(m)' BY <1>6, <2>4
  <2>. QED BY <1>2, <1>6, <2>1, <2>3, <2>4, <2>5, HeaderNext
<1>10. CASE left > 0
  <2>1. /\ leave' = left /\ offset' = read /\ Piece(read, left)
        /\ buf' = buf /\ delivered' = delivered
    BY <1>2, <1>10
  <2>2. sent[m] > MaxSize BY <1>6, <1>7, <1>8, <1>10
  <2>3. left \in 1 .. sent[m] /\ read = sent[m] - left BY SMTT(20), <1>6, <1>7, <1>10
  <2>4. read + left > MaxSize BY <1>6, <2>2, <2>3
  <2>5. PICK len \in 1 .. left : request' = [off |-> 0, len |-> len, done |-> FALSE]
    <3>1. (IF left < MaxSize THEN left ELSE MaxSize) \in 1 .. left BY <1>6, <1>8, <2>3, SizeAssumption
    <3>. QED BY <2>1, <2>4, <3>1 DEF Piece, ReceiveSp
  <2>6. Start' = Start /\ StreamLength' = StreamLength BY <1>2 DEF Start, StreamLength
  <2>7. InBody(n)'
    <3>1. /\ n < Len(sent') /\ leave' \in 1 .. sent'[m] /\ offset' = sent'[m] - leave'
          /\ request'.len \in 1 .. leave'
      BY <1>2, <1>5, <2>1, <2>3, <2>5
    <3>2. pos' = Start'[m] + HeaderLength + offset' + (IF request'.done THEN request'.len ELSE 0)
      <4>1. offset \in Int /\ request.len \in Int BY <1>6, <1>7
      <4>2. pos = Start[m] + HeaderLength + read + 0
        <5>1. pos = Start[m] + HeaderLength + offset + request.len BY <1>7
        <5>2. Start[m] \in Nat BY <1>6
        <5>. QED BY SMTT(20), <1>8, <4>1, <5>1, <5>2
      <4>3. request'.done = FALSE BY <2>5
      <4>. QED BY <1>2, <2>1, <2>6, <4>2, <4>3
    <3>3. ~(sent'[m] <= MaxSize) BY <1>2, <1>6, <1>8, <2>2
    <3>. QED BY <1>6, <3>1, <3>2, <3>3 DEF InBody
  <2>8. HandedOut(n)' BY <1>1, <1>2, <2>1, HandedSame
  <2>9. BytesType' /\ total' = StreamLength' BY <1>2, <2>1, <2>6 DEF FrameInv, BytesType
  <2>10. Start'[n + 1] <= pos' /\ n \in 0 .. Len(sent') BY <1>1, <1>2, <2>6
  <2>. QED BY <2>7, <2>8, <2>9, <2>10 DEF FrameInv, Placed
<1>. QED BY <1>2, <1>9, <1>10

LEMMA FrameNext == ASSUME ~Ragged, FrameInv, [Next]_vars PROVE FrameInv'
<1>1. BufferInv' BY BufferNext DEF FrameInv
<1>2. CASE Receive \/ ReceiveFails BY <1>1, <1>2, FrameReceive
<1>3. CASE Shut \/ ReadStopped \/ UNCHANGED vars BY <1>1, <1>3, FrameShut
<1>4. CASE ReadHeader BY <1>1, <1>4, FrameHeader
<1>5. CASE ReadBody BY <1>1, <1>5, FrameBody
<1>. QED BY <1>2, <1>3, <1>4, <1>5 DEF Next

\* As long as every receive brings what it asked for, what handle_read_sp hands to
\* OnReadComplete are the peer's messages, whole, in their order and once each, whatever
\* the peer sends: those that are empty or too long for the buffer are left out and do
\* not put the reader out of step.
THEOREM FramesHandedOut == ~Ragged => (Spec => []FramesIntact)
<1>1. FrameInv => FramesIntact
  <2> SUFFICES ASSUME FrameInv PROVE FramesIntact OBVIOUS
  <2>1. PICK n \in 0 .. Len(sent) :
          HandedOut(n) /\ Start[n + 1] <= pos /\ (status = "open" => Placed(n))
    BY DEF FrameInv
  <2>2. ASSUME status = "open", leave = -1, ~request.done PROVE Start[n + 1] = pos
    BY <2>1, <2>2 DEF Placed, HeaderAsked, HeaderRead, HeaderMissed, InBody
  <2>. QED BY <2>1, <2>2 DEF FramesIntact
<1>2. ASSUME ~Ragged PROVE Spec => []FramesIntact
  <2>1. Init => FrameInv BY <1>2, FrameInit
  <2>2. FrameInv /\ [Next]_vars => FrameInv' BY <1>2, FrameNext
  <2>. QED BY <1>1, <2>1, <2>2, PTL DEF Spec
<1>. QED BY <1>2

-----------------------------------------------------------------------------
(* Sums of numbers one after another                                       *)

\* f gives the sums of the first numbers of s, up to n of them.
SumsOf(f, s, n) ==
    /\ f \in [0 .. n -> Nat] /\ f[0] = 0
    /\ \A i \in 1 .. n : f[i] = f[i - 1] + s[i]

LEMMA SumsExist ==
    ASSUME NEW s \in Seq(Nat), NEW n \in 0 .. Len(s)
    PROVE  \E f : SumsOf(f, s, n)
<1>0. Len(s) \in Nat /\ \A i \in 1 .. Len(s) : s[i] \in Nat OBVIOUS
<1> DEFINE T == {k \in 0 .. Len(s) : ~\E f : SumsOf(f, s, k)}
<1>1. SUFFICES ASSUME T # {} PROVE FALSE OBVIOUS
<1>2. PICK x \in T : \A y \in T : x <= y
  <2>1. T \in SUBSET Nat BY <1>0
  <2> HIDE DEF T
  <2>. QED BY <1>1, <2>1, Least
<1>3. CASE x = 0
  <2>1. SumsOf([i \in 0 .. 0 |-> 0], s, 0) BY DEF SumsOf
  <2>. QED BY <1>3, <2>1
<1>4. CASE x # 0
  <2>1. x - 1 \in 0 .. Len(s) /\ x - 1 \notin T /\ x \in Nat
    <3>1. x \in 0 .. Len(s) OBVIOUS
    <3>2. x - 1 \in 0 .. Len(s) /\ x \in Nat /\ ~(x <= x - 1) BY <1>0, <1>4, <3>1
    <3>3. x - 1 \notin T BY <1>2, <3>2
    <3>. QED BY <3>2, <3>3
  <2>2. PICK f : SumsOf(f, s, x - 1) BY <2>1
  <2>3. PICK last \in Nat : last = f[x - 1] + s[x]
    <3>1. x - 1 \in 0 .. x - 1 /\ x \in 1 .. Len(s) BY <1>0, <2>1
    <3>2. f[x - 1] \in Nat BY <2>2, <3>1 DEF SumsOf
    <3>. QED BY <1>0, <3>1, <3>2
  <2>4. PICK g : g = [i \in 0 .. x |-> IF i = x THEN last ELSE f[i]] OBVIOUS
  <2>5. g \in [0 .. x -> Nat]
    <3>1. \A i \in 0 .. x : i # x => i \in 0 .. x - 1 BY <2>1
    <3>. QED BY <2>2, <2>4, <3>1 DEF SumsOf
  <2>6. g[0] = 0 BY <1>4, <2>1, <2>2, <2>4 DEF SumsOf
  <2>7. ASSUME NEW i \in 1 .. x PROVE g[i] = g[i - 1] + s[i]
    <3>1. i \in 0 .. x /\ i - 1 \in 0 .. x /\ i - 1 # x BY <2>1
    <3>2. g[i - 1] = f[i - 1] BY <2>4, <3>1
    <3>3. CASE i = x BY <2>3, <2>4, <3>1, <3>2, <3>3
    <3>4. CASE i # x
      <4>1. i \in 1 .. x - 1 BY <2>1, <3>4
      <4>. QED BY <2>2, <2>4, <3>1, <3>2, <3>4, <4>1 DEF SumsOf
    <3>. QED BY <3>3, <3>4
  <2>8. SumsOf(g, s, x) BY <2>5, <2>6, <2>7 DEF SumsOf
  <2>. QED BY <2>8
<1>. QED BY <1>3, <1>4

\* SumTo is one of them, ...
LEMMA SumToIs ==
    ASSUME NEW s \in Seq(Nat), NEW n \in 0 .. Len(s)
    PROVE  \E f : SumsOf(f, s, n) /\ SumTo(s, n) = f[n]
<1>0. Len(s) \in Nat /\ n \in Nat OBVIOUS
<1> DEFINE Of[i \in 0 .. n] == IF i = 0 THEN 0 ELSE Of[i - 1] + s[i]
<1>1. PICK f : SumsOf(f, s, n) BY SumsExist
<1>2. f = [i \in 0 .. n |-> IF i = 0 THEN 0 ELSE f[i - 1] + s[i]]
  <2>1. \A i \in 0 .. n : i # 0 => i \in 1 .. n BY <1>0
  <2>. QED BY <1>1, <2>1 DEF SumsOf
<1>3. Of = [i \in 0 .. n |-> IF i = 0 THEN 0 ELSE Of[i - 1] + s[i]] BY <1>2, Zenon
<1>4. SumTo(s, n) = Of[n] BY Zenon DEF SumTo
<1> HIDE DEF Of
<1>5. SumsOf(Of, s, n)
  <2>1. Of[0] = 0 BY <1>0, <1>3
  <2>2. ASSUME NEW i \in 1 .. n PROVE Of[i] = Of[i - 1] + s[i]
    <3>1. i \in 0 .. n /\ i # 0 BY <1>0
    <3>. QED BY <1>3, <3>1
  <2> DEFINE T == {i \in 0 .. n : Of[i] \notin Nat}
  <2>3. T = {}
    <3>1. SUFFICES ASSUME T # {} PROVE FALSE OBVIOUS
    <3>2. PICK x \in T : \A y \in T : x <= y
      <4>1. T \in SUBSET Nat BY <1>0
      <4> HIDE DEF T
      <4>. QED BY <3>1, <4>1, Least
    <3>3. x # 0 BY <2>1
    <3>4. x \in 1 .. n /\ x - 1 \in 0 .. n /\ x \in 1 .. Len(s) BY <1>0, <3>3
    <3>5. Of[x - 1] \in Nat BY <1>0, <3>2, <3>4
    <3>6. s[x] \in Nat BY <3>4
    <3>. QED BY <2>2, <3>4, <3>5, <3>6
  <2>4. \A i \in 0 .. n : Of[i] \in Nat BY <2>3
  <2>5. Of \in [0 .. n -> Nat] BY <1>3, <2>4
  <2>. QED BY <2>1, <2>2, <2>5 DEF SumsOf
<1>. QED BY <1>4, <1>5

\* ... and there is one only.
LEMMA SumsUnique ==
    ASSUME NEW s \in Seq(Nat), NEW t \in Seq(Nat), NEW n \in 0 .. Len(s), NEW m \in n .. Len(t),
           \A i \in 1 .. n : s[i] = t[i],
           NEW f, SumsOf(f, s, n), NEW g, SumsOf(g, t, m)
    PROVE  \A i \in 0 .. n : f[i] = g[i]
<1>0. n \in Nat /\ m \in Nat /\ n <= m OBVIOUS
<1> DEFINE T == {i \in 0 .. n : f[i] # g[i]}
<1>1. SUFFICES ASSUME T # {} PROVE FALSE OBVIOUS
<1>2. PICK x \in T : \A y \in T : x <= y
  <2>1. T \in SUBSET Nat BY <1>0
  <2> HIDE DEF T
  <2>. QED BY <1>1, <2>1, Least
<1>3. x # 0 BY DEF SumsOf
<1>4. x \in 1 .. n /\ x \in 1 .. m /\ x - 1 \in 0 .. n /\ x - 1 \notin T BY <1>0, <1>2, <1>3
<1>5. f[x - 1] = g[x - 1] BY <1>4
<1>6. f[x] = f[x - 1] + s[x] /\ g[x] = g[x - 1] + t[x] BY <1>4 DEF SumsOf
<1>. QED BY <1>4, <1>5, <1>6

\* The sum of n numbers is the sum of those before and the last, whatever comes after them.
LEMMA SumStep ==
    ASSUME NEW s \in Seq(Nat)
    PROVE  /\ SumTo(s, 0) = 0
           /\ \A n \in 0 .. Len(s) : SumTo(s, n) \in Nat
           /\ \A n \in 1 .. Len(s) : SumTo(s, n) = SumTo(s, n - 1) + s[n]
<1>0. Len(s) \in Nat OBVIOUS
<1>1. SumTo(s, 0) = 0
  <2>1. 0 \in 0 .. Len(s) BY <1>0
  <2>. QED BY <2>1, SumToIs DEF SumsOf
<1>2. ASSUME NEW n \in 0 .. Len(s) PROVE SumTo(s, n) \in Nat
  <2>1. PICK f : SumsOf(f, s, n) /\ SumTo(s, n) = f[n] BY SumToIs
  <2>2. n \in 0 .. n BY <1>0
  <2>. QED BY <2>1, <2>2 DEF SumsOf
<1>3. ASSUME NEW n \in 1 .. Len(s) PROVE SumTo(s, n) = SumTo(s, n - 1) + s[n]
  <2>1. n \in 0 .. Len(s) /\ n - 1 \in 0 .. Len(s) /\ n \in (n - 1) .. Len(s) /\ n \in 1 .. n
        /\ n - 1 \in 0 .. n - 1
    BY <1>0
  <2>2. PICK g : SumsOf(g, s, n) /\ SumTo(s, n) = g[n] BY <2>1, SumToIs
  <2>3. PICK f : SumsOf(f, s, n - 1) /\ SumTo(s, n - 1) = f[n - 1] BY <2>1, SumToIs
  <2>4. \A i \in 0 .. n - 1 : f[i] = g[i] BY <2>1, <2>2, <2>3, SumsUnique
  <2>5. g[n] = g[n - 1] + s[n] BY <2>1, <2>2 DEF SumsOf
  <2>. QED BY <2>1, <2>2, <2>3, <2>4, <2>5
<1>. QED BY <1>1, <1>2, <1>3

LEMMA SumSame ==
    ASSUME NEW s \in Seq(Nat), NEW t \in Seq(Nat), NEW n \in 0 .. Len(s), n <= Len(t),
           \A i \in 1 .. n : s[i] = t[i]
    PROVE  SumTo(s, n) = SumTo(t, n)
<1>1. n \in 0 .. Len(t) /\ n \in n .. Len(t) /\ n \in 0 .. n OBVIOUS
<1>2. PICK f : SumsOf(f, s, n) /\ SumTo(s, n) = f[n] BY SumToIs
<1>3. PICK g : SumsOf(g, t, n) /\ SumTo(t, n) = g[n] BY <1>1, SumToIs
<1>4. \A i \in 0 .. n : f[i] = g[i] BY <1>1, <1>2, <1>3, SumsUnique
<1>. QED BY <1>1, <1>2, <1>3, <1>4

-----------------------------------------------------------------------------
(* The tables of layouts                                                   *)

\* The sums of a table's first fields, one by one.
LEMMA FirstSums ==
    ASSUME NEW s \in Seq(Nat)
    PROVE  /\ SumTo(s, 0) = 0
           /\ 1 <= Len(s) => SumTo(s, 1) = SumTo(s, 0) + s[1]
           /\ 2 <= Len(s) => SumTo(s, 2) = SumTo(s, 1) + s[2]
           /\ 3 <= Len(s) => SumTo(s, 3) = SumTo(s, 2) + s[3]
           /\ 4 <= Len(s) => SumTo(s, 4) = SumTo(s, 3) + s[4]
           /\ 5 <= Len(s) => SumTo(s, 5) = SumTo(s, 4) + s[5]
           /\ 6 <= Len(s) => SumTo(s, 6) = SumTo(s, 5) + s[6]
           /\ 7 <= Len(s) => SumTo(s, 7) = SumTo(s, 6) + s[7]
           /\ 8 <= Len(s) => SumTo(s, 8) = SumTo(s, 7) + s[8]
           /\ 9 <= Len(s) => SumTo(s, 9) = SumTo(s, 8) + s[9]
<1>1. ASSUME NEW m \in Nat, NEW n \in Nat \ {0}, m = n - 1, n <= Len(s)
      PROVE  SumTo(s, n) = SumTo(s, m) + s[n]
  <2>1. n \in 1 .. Len(s) BY <1>1
  <2>. QED BY <1>1, <2>1, SumStep
<1>2. 1 <= Len(s) => SumTo(s, 1) = SumTo(s, 0) + s[1] BY <1>1
<1>3. 2 <= Len(s) => SumTo(s, 2) = SumTo(s, 1) + s[2] BY <1>1
<1>4. 3 <= Len(s) => SumTo(s, 3) = SumTo(s, 2) + s[3] BY <1>1
<1>5. 4 <= Len(s) => SumTo(s, 4) = SumTo(s, 3) + s[4] BY <1>1
<1>6. 5 <= Len(s) => SumTo(s, 5) = SumTo(s, 4) + s[5] BY <1>1
<1>7. 6 <= Len(s) => SumTo(s, 6) = SumTo(s, 5) + s[6] BY <1>1
<1>8. 7 <= Len(s) => SumTo(s, 7) = SumTo(s, 6) + s[7] BY <1>1
<1>9. 8 <= Len(s) => SumTo(s, 8) = SumTo(s, 7) + s[8] BY <1>1
<1>10. 9 <= Len(s) => SumTo(s, 9) = SumTo(s, 8) + s[9] BY <1>1
<1>. QED BY SumStep, <1>2, <1>3, <1>4, <1>5, <1>6, <1>7, <1>8, <1>9, <1>10

LEMMA SumsOfFields ==
    /\ Sum(<<1, 1>>) = 2 /\ Sum(<<1, 1, 1>>) = 3 /\ Sum(<<1, 1, 4, 4>>) = 10
    /\ Sum(<<1, 1, 2, 2, 4, 32>>) = 42 /\ Sum(<<1, 1, 20, 24>>) = 46 /\ Sum(<<1, 1, 32>>) = 34
    /\ Sum(<<1, 1, 1, 4, 4, 4, 4, 11, 168>>) = 198
<1>1. Sum(<<1, 1>>) = 2
  <2> DEFINE s == <<1, 1>>
  <2>1. s \in Seq(Nat) /\ Len(s) = 2 OBVIOUS
  <2>2. s[1] = 1 /\ s[2] = 1 OBVIOUS
  <2> HIDE DEF s
  <2>3. 1 <= Len(s) /\ 2 <= Len(s) BY <2>1
  <2>4. SumTo(s, 0) = 0 BY Zenon, <2>1, FirstSums
  <2>5. SumTo(s, 1) = SumTo(s, 0) + s[1] BY Zenon, <2>1, <2>3, FirstSums
  <2>6. SumTo(s, 2) = SumTo(s, 1) + s[2] BY Zenon, <2>1, <2>3, FirstSums
  <2>7. SumTo(s, 2) = 2 BY <2>2, <2>4, <2>5, <2>6
  <2>. QED BY <2>1, <2>7 DEF Sum, s
<1>2. Sum(<<1, 1, 1>>) = 3
  <2> DEFINE s == <<1, 1, 1>>
  <2>1. s \in Seq(Nat) /\ Len(s) = 3 OBVIOUS
  <2>2. s[1] = 1 /\ s[2] = 1 /\ s[3] = 1 OBVIOUS
  <2> HIDE DEF s
  <2>3. 1 <= Len(s) /\ 2 <= Len(s) /\ 3 <= Len(s) BY <2>1
  <2>4. SumTo(s, 0) = 0 BY Zenon, <2>1, FirstSums
  <2>5. SumTo(s, 1) = SumTo(s, 0) + s[1] BY Zenon, <2>1, <2>3, FirstSums
  <2>6. SumTo(s, 2) = SumTo(s, 1) + s[2] BY Zenon, <2>1, <2>3, FirstSums
  <2>7. SumTo(s, 3) = SumTo(s, 2) + s[3] BY Zenon, <2>1, <2>3, FirstSums
  <2>8. SumTo(s, 3) = 3 BY <2>2, <2>4, <2>5, <2>6, <2>7
  <2>. QED BY <2>1, <2>8 DEF Sum, s
<1>3. Sum(<<1, 1, 4, 4>>) = 10
  <2> DEFINE s == <<1, 1, 4, 4>>
  <2>1. s \in Seq(Nat) /\ Len(s) = 4 OBVIOUS
  <2>2. s[1] = 1 /\ s[2] = 1 /\ s[3] = 4 /\ s[4] = 4 OBVIOUS
  <2> HIDE DEF s
  <2>3. 1 <= Len(s) /\ 2 <= Len(s) /\ 3 <= Len(s) /\ 4 <= Len(s) BY <2>1
  <2>4. SumTo(s, 0) = 0 BY Zenon, <2>1, FirstSums
  <2>5. SumTo(s, 1) = SumTo(s, 0) + s[1] BY Zenon, <2>1, <2>3, FirstSums
  <2>6. SumTo(s, 2) = SumTo(s, 1) + s[2] BY Zenon, <2>1, <2>3, FirstSums
  <2>7. SumTo(s, 3) = SumTo(s, 2) + s[3] BY Zenon, <2>1, <2>3, FirstSums
  <2>8. SumTo(s, 4) = SumTo(s, 3) + s[4] BY Zenon, <2>1, <2>3, FirstSums
  <2>9. SumTo(s, 4) = 10 BY <2>2, <2>4, <2>5, <2>6, <2>7, <2>8
  <2>. QED BY <2>1, <2>9 DEF Sum, s
<1>4. Sum(<<1, 1, 2, 2, 4, 32>>) = 42
  <2> DEFINE s == <<1, 1, 2, 2, 4, 32>>
  <2>1. s \in Seq(Nat) /\ Len(s) = 6 OBVIOUS
  <2>2. s[1] = 1 /\ s[2] = 1 /\ s[3] = 2 /\ s[4] = 2 /\ s[5] = 4 /\ s[6] = 32 OBVIOUS
  <2> HIDE DEF s
  <2>3. 1 <= Len(s) /\ 2 <= Len(s) /\ 3 <= Len(s) /\ 4 <= Len(s) /\ 5 <= Len(s) /\ 6 <= Len(s) BY <2>1
  <2>4. SumTo(s, 0) = 0 BY Zenon, <2>1, FirstSums
  <2>5. SumTo(s, 1) = SumTo(s, 0) + s[1] BY Zenon, <2>1, <2>3, FirstSums
  <2>6. SumTo(s, 2) = SumTo(s, 1) + s[2] BY Zenon, <2>1, <2>3, FirstSums
  <2>7. SumTo(s, 3) = SumTo(s, 2) + s[3] BY Zenon, <2>1, <2>3, FirstSums
  <2>8. SumTo(s, 4) = SumTo(s, 3) + s[4] BY Zenon, <2>1, <2>3, FirstSums
  <2>9. SumTo(s, 5) = SumTo(s, 4) + s[5] BY Zenon, <2>1, <2>3, FirstSums
  <2>10. SumTo(s, 6) = SumTo(s, 5) + s[6] BY Zenon, <2>1, <2>3, FirstSums
  <2>11. SumTo(s, 6) = 42 BY <2>2, <2>4, <2>5, <2>6, <2>7, <2>8, <2>9, <2>10
  <2>. QED BY <2>1, <2>11 DEF Sum, s
<1>5. Sum(<<1, 1, 20, 24>>) = 46
  <2> DEFINE s == <<1, 1, 20, 24>>
  <2>1. s \in Seq(Nat) /\ Len(s) = 4 OBVIOUS
  <2>2. s[1] = 1 /\ s[2] = 1 /\ s[3] = 20 /\ s[4] = 24 OBVIOUS
  <2> HIDE DEF s
  <2>3. 1 <= Len(s) /\ 2 <= Len(s) /\ 3 <= Len(s) /\ 4 <= Len(s) BY <2>1
  <2>4. SumTo(s, 0) = 0 BY Zenon, <2>1, FirstSums
  <2>5. SumTo(s, 1) = SumTo(s, 0) + s[1] BY Zenon, <2>1, <2>3, FirstSums
  <2>6. SumTo(s, 2) = SumTo(s, 1) + s[2] BY Zenon, <2>1, <2>3, FirstSums
  <2>7. SumTo(s, 3) = SumTo(s, 2) + s[3] BY Zenon, <2>1, <2>3, FirstSums
  <2>8. SumTo(s, 4) = SumTo(s, 3) + s[4] BY Zenon, <2>1, <2>3, FirstSums
  <2>9. SumTo(s, 4) = 46 BY <2>2, <2>4, <2>5, <2>6, <2>7, <2>8
  <2>. QED BY <2>1, <2>9 DEF Sum, s
<1>6. Sum(<<1, 1, 32>>) = 34
  <2> DEFINE s == <<1, 1, 32>>
  <2>1. s \in Seq(Nat) /\ Len(s) = 3 OBVIOUS
  <2>2. s[1] = 1 /\ s[2] = 1 /\ s[3] = 32 OBVIOUS
  <2> HIDE DEF s
  <2>3. 1 <= Len(s) /\ 2 <= Len(s) /\ 3 <= Len(s) BY <2>1
  <2>4. SumTo(s, 0) = 0 BY Zenon, <2>1, FirstSums
  <2>5. SumTo(s, 1) = SumTo(s, 0) + s[1] BY Zenon, <2>1, <2>3, FirstSums
  <2>6. SumTo(s, 2) = SumTo(s, 1) + s[2] BY Zenon, <2>1, <2>3, FirstSums
  <2>7. SumTo(s, 3) = SumTo(s, 2) + s[3] BY Zenon, <2>1, <2>3, FirstSums
  <2>8. SumTo(s, 3) = 34 BY <2>2, <2>4, <2>5, <2>6, <2>7
  <2>. QED BY <2>1, <2>8 DEF Sum, s
<1>7. Sum(<<1, 1, 1, 4, 4, 4, 4, 11, 168>>) = 198
  <2> DEFINE s == <<1, 1, 1, 4, 4, 4, 4, 11, 168>>
  <2>1. s \in Seq(Nat) /\ Len(s) = 9 OBVIOUS
  <2>2. s[1] = 1 /\ s[2] = 1 /\ s[3] = 1 /\ s[4] = 4 /\ s[5] = 4 /\ s[6] = 4 /\ s[7] = 4 /\ s[8] = 11 /\ s[9] = 168 OBVIOUS
  <2> HIDE DEF s
  <2>3. 1 <= Len(s) /\ 2 <= Len(s) /\ 3 <= Len(s) /\ 4 <= Len(s) /\ 5 <= Len(s) /\ 6 <= Len(s) /\ 7 <= Len(s) /\ 8 <= Len(s) /\ 9 <= Len(s) BY <2>1
  <2>4. SumTo(s, 0) = 0 BY Zenon, <2>1, FirstSums
  <2>5. SumTo(s, 1) = SumTo(s, 0) + s[1] BY Zenon, <2>1, <2>3, FirstSums
  <2>6. SumTo(s, 2) = SumTo(s, 1) + s[2] BY Zenon, <2>1, <2>3, FirstSums
  <2>7. SumTo(s, 3) = SumTo(s, 2) + s[3] BY Zenon, <2>1, <2>3, FirstSums
  <2>8. SumTo(s, 4) = SumTo(s, 3) + s[4] BY Zenon, <2>1, <2>3, FirstSums
  <2>9. SumTo(s, 5) = SumTo(s, 4) + s[5] BY Zenon, <2>1, <2>3, FirstSums
  <2>10. SumTo(s, 6) = SumTo(s, 5) + s[6] BY Zenon, <2>1, <2>3, FirstSums
  <2>11. SumTo(s, 7) = SumTo(s, 6) + s[7] BY Zenon, <2>1, <2>3, FirstSums
  <2>12. SumTo(s, 8) = SumTo(s, 7) + s[8] BY Zenon, <2>1, <2>3, FirstSums
  <2>13. SumTo(s, 9) = SumTo(s, 8) + s[9] BY Zenon, <2>1, <2>3, FirstSums
  <2>14. SumTo(s, 9) = 198 BY <2>2, <2>4, <2>5, <2>6, <2>7, <2>8, <2>9, <2>10, <2>11, <2>12, <2>13
  <2>. QED BY <2>1, <2>14 DEF Sum, s
<1>. QED BY <1>1, <1>2, <1>3, <1>4, <1>5, <1>6, <1>7

\* What a header claims and what follows it are the same, but for AUTH_SYN; and what the
\* web server reads of a message is what follows.
LEMMA TablesAgree ==
    /\ Writes("AUTH_SYN") = [length |-> 46, bytes |-> 42]
    /\ Writes("WSCONNECTED") = [length |-> 2, bytes |-> 2]
    /\ Writes("AUTH_RESULT") = [length |-> 3, bytes |-> 3]
    /\ Writes("NEWORDERBRD") = [length |-> 10, bytes |-> 10]
    /\ Writes("SVR_READY") = [length |-> 42, bytes |-> 42]
    /\ Writes("AUTH_ACK") = [length |-> 3, bytes |-> 3]
    /\ Writes("PUSHSVR_AUTH") = [length |-> 34, bytes |-> 34]
    /\ Writes("S2W_ORDER") = [length |-> 198, bytes |-> 198]
    /\ \A type \in {"PUSHSVR_AUTH", "S2W_ORDER"} :
          /\ WebReads[type] \in Seq(Nat) /\ Len(WebReads[type]) >= 3
          /\ WebReads[type][1] = 1 /\ WebReads[type][2] = 1
          /\ Sum(WebReads[type]) = Writes(type).bytes
<1>1. Writes("AUTH_SYN") = [length |-> 46, bytes |-> 42] BY DEF Writes, AndroidWrites, HeaderBytes
<1>2. Writes("WSCONNECTED") = [length |-> 2, bytes |-> 2]
  BY SumsOfFields DEF Writes, AndroidWrites, WebWrites
<1>3. Writes("AUTH_RESULT") = [length |-> 3, bytes |-> 3]
  BY SumsOfFields DEF Writes, AndroidWrites, WebWrites
<1>4. Writes("NEWORDERBRD") = [length |-> 10, bytes |-> 10]
  BY SumsOfFields DEF Writes, AndroidWrites, WebWrites
<1>5. ASSUME NEW type \in {"SVR_READY", "AUTH_ACK", "PUSHSVR_AUTH", "S2W_ORDER"}
      PROVE  Writes(type) = [length |-> Sum(Layout(type)), bytes |-> Sum(Layout(type))]
  BY <1>5 DEF Writes, AndroidWrites, WebWrites
<1>6. /\ Layout("SVR_READY") = <<1, 1, 2, 2, 4, 32>> /\ Layout("AUTH_ACK") = <<1, 1, 1>>
      /\ Layout("PUSHSVR_AUTH") = <<1, 1, 32>> /\ Layout("S2W_ORDER") = <<1, 1, 1, 4, 4, 4, 4, 11, 168>>
  BY DEF Layout, LayoutCS, LayoutWS
<1>7. /\ WebReads["PUSHSVR_AUTH"] = <<1, 1, 32>>
      /\ WebReads["S2W_ORDER"] = <<1, 1, 1, 4, 4, 4, 4, 11, 168>>
  BY DEF WebReads
<1>8. /\ <<1, 1, 32>> \in Seq(Nat) /\ Len(<<1, 1, 32>>) = 3
      /\ <<1, 1, 1, 4, 4, 4, 4, 11, 168>> \in Seq(Nat) /\ Len(<<1, 1, 1, 4, 4, 4, 4, 11, 168>>) = 9
  OBVIOUS
<1>9. /\ Writes("SVR_READY") = [length |-> 42, bytes |-> 42]
      /\ Writes("AUTH_ACK") = [length |-> 3, bytes |-> 3]
      /\ Writes("PUSHSVR_AUTH") = [length |-> 34, bytes |-> 34]
      /\ Writes("S2W_ORDER") = [length |-> 198, bytes |-> 198]
  BY <1>5, <1>6, SumsOfFields
<1>10. ASSUME NEW type \in {"PUSHSVR_AUTH", "S2W_ORDER"}
       PROVE /\ WebReads[type] \in Seq(Nat) /\ Len(WebReads[type]) >= 3
             /\ WebReads[type][1] = 1 /\ WebReads[type][2] = 1
             /\ Sum(WebReads[type]) = Writes(type).bytes
  <2>1. CASE type = "PUSHSVR_AUTH"
    <3>1. WebReads[type] = <<1, 1, 32>> /\ Writes(type).bytes = 34 BY <1>7, <1>9, <2>1
    <3>2. Sum(WebReads[type]) = 34 BY <3>1, SumsOfFields
    <3>. QED BY <1>8, <3>1, <3>2
  <2>2. CASE type = "S2W_ORDER"
    <3>1. WebReads[type] = <<1, 1, 1, 4, 4, 4, 4, 11, 168>> /\ Writes(type).bytes = 198
      BY <1>7, <1>9, <2>2
    <3>2. Sum(WebReads[type]) = 198 BY <3>1, SumsOfFields
    <3>. QED BY <1>8, <3>1, <3>2
  <2>. QED BY <2>1, <2>2
<1>. QED BY <1>1, <1>2, <1>3, <1>4, <1>9, <1>10

-----------------------------------------------------------------------------
\* The messages each direction carries.
Spoken(d) ==
    IF peer = "android" THEN IF d = "in" THEN {"AUTH_SYN"} ELSE {"SVR_READY", "AUTH_ACK"}
    ELSE IF d = "in" THEN {"WSCONNECTED", "AUTH_RESULT", "NEWORDERBRD"}
    ELSE {"PUSHSVR_AUTH", "S2W_ORDER"}

MsgType == {"SVR_READY", "AUTH_SYN", "AUTH_ACK", "WSCONNECTED", "PUSHSVR_AUTH", "AUTH_RESULT",
            "NEWORDERBRD", "S2W_ORDER"}

Msg == [type : MsgType, junk : BOOLEAN, nought : BOOLEAN]

\* Where a reader can stand, and the fields it has still to read.
ReaderType == {r \in [at : {"header", "body", "type", "fields", "lost"}, fields : Seq(Nat), body : Nat] :
                  r.at = "body" => Len(r.fields) = 1}

StreamsTyped ==
    /\ peer \in {"android", "web"}
    /\ written \in [Dir -> Seq(Msg)]
    /\ \A d \in Dir : \A i \in DOMAIN written[d] : written[d][i].type \in Spoken(d)
    /\ taken \in [Dir -> Nat]
    /\ reader \in [Dir -> ReaderType] /\ DOMAIN handled = Dir
    /\ missed \in [Dir -> BOOLEAN] /\ ~missed["in"]
    /\ alive \in BOOLEAN

\* The Android client is greeted once, and answers when it has read the greeting: at most
\* one AUTH_SYN is ever written.
AnswersOnce ==
    peer = "android" =>
        /\ \A i \in DOMAIN written["out"] : written["out"][i].type = "SVR_READY" => i = 1
        /\ \/ written["in"] = <<>>
           \/ Len(written["in"]) = 1 /\ taken["out"] > HeaderBytes
        /\ reader["out"].at = "body" => taken["out"] = reader["out"].body

\* The reader has handled the first n messages and is somewhere in the next one: before it, ...
AtStart(d, n) == reader[d] = Header /\ taken[d] = Begin(d, n + 1)

\* ... before its body, which the server and the Android client read in one portion, ...
AtBody(d, n) ==
    LET body == Begin(d, n + 1) + HeaderBytes IN
    /\ n < Len(written[d]) /\ ~(d = "out" /\ peer = "web")
    /\ reader[d] = [at |-> "body", fields |-> <<Writes(written[d][n + 1].type).length>>, body |-> body]
    /\ taken[d] = body

\* ... or, the web server, before its type, or one of its fields.
AtType(d, n) ==
    LET body == Begin(d, n + 1) + HeaderBytes IN
    /\ n < Len(written[d]) /\ d = "out" /\ peer = "web"
    /\ reader[d] = [at |-> "type", fields |-> <<1, 1>>, body |-> body]
    /\ taken[d] = body

AtField(d, n) ==
    LET body  == Begin(d, n + 1) + HeaderBytes
        table == WebReads[written[d][n + 1].type]
    IN  /\ n < Len(written[d]) /\ d = "out" /\ peer = "web"
        /\ \E k \in 3 .. Len(table) + 1 :
              /\ reader[d] = [at |-> "fields", fields |-> SubSeq(table, k, Len(table)), body |-> body]
              /\ taken[d] = body + SumTo(table, k - 1)

ReaderAt(d, n) == AtStart(d, n) \/ AtBody(d, n) \/ AtType(d, n) \/ AtField(d, n)

Follows(d) ==
    \E n \in 0 .. Len(written[d]) :
        /\ handled[d] = SubSeq(Types(d), 1, n)
        /\ ReaderAt(d, n)

PeersInv ==
    /\ StreamsTyped
    /\ AnswersOnce
    /\ \A d \in Dir : InStep(d) => Follows(d)

-----------------------------------------------------------------------------
(* Where messages begin                                                    *)

LEMMA SpokenTypes ==
    ASSUME StreamsTyped, NEW d \in Dir
    PROVE  /\ written[d] \in Seq(Msg)
           /\ Len(written[d]) \in Nat /\ DOMAIN written[d] = 1 .. Len(written[d])
           /\ \A i \in 1 .. Len(written[d]) :
                 Writes(written[d][i].type).bytes \in Nat \ {0}
<1>1. written[d] \in Seq(Msg) BY DEF StreamsTyped
<1>2. Len(written[d]) \in Nat /\ DOMAIN written[d] = 1 .. Len(written[d]) BY <1>1
<1>3. ASSUME NEW i \in 1 .. Len(written[d]) PROVE Writes(written[d][i].type).bytes \in Nat \ {0}
  <2>1. written[d][i].type \in {"AUTH_SYN", "SVR_READY", "AUTH_ACK", "WSCONNECTED", "AUTH_RESULT",
                                "NEWORDERBRD", "PUSHSVR_AUTH", "S2W_ORDER"}
    BY <1>2 DEF StreamsTyped, Spoken
  <2>2. /\ Writes("AUTH_SYN").bytes = 42 /\ Writes("SVR_READY").bytes = 42
        /\ Writes("AUTH_ACK").bytes = 3 /\ Writes("WSCONNECTED").bytes = 2
        /\ Writes("AUTH_RESULT").bytes = 3 /\ Writes("NEWORDERBRD").bytes = 10
        /\ Writes("PUSHSVR_AUTH").bytes = 34 /\ Writes("S2W_ORDER").bytes = 198
    BY TablesAgree
  <2>. QED BY <2>1, <2>2, SMTT(30)
<1>. QED BY <1>1, <1>2, <1>3

SizesRight ==
    \A d \in Dir :
        /\ Sizes(d) \in Seq(Nat) /\ Len(Sizes(d)) = Len(written[d])
        /\ \A i \in 1 .. Len(written[d]) :
              Sizes(d)[i] = HeaderBytes + Writes(written[d][i].type).bytes

LEMMA SizesAre == StreamsTyped => SizesRight
<1> SUFFICES ASSUME StreamsTyped, NEW d \in Dir
    PROVE  /\ Sizes(d) \in Seq(Nat) /\ Len(Sizes(d)) = Len(written[d])
           /\ \A i \in 1 .. Len(written[d]) :
                 Sizes(d)[i] = HeaderBytes + Writes(written[d][i].type).bytes
  BY DEF SizesRight
<1>1. Len(written[d]) \in Nat /\ DOMAIN written[d] = 1 .. Len(written[d]) BY SpokenTypes
<1>2. ASSUME NEW i \in 1 .. Len(written[d])
      PROVE  HeaderBytes + Writes(written[d][i].type).bytes \in Nat
  <2>1. Writes(written[d][i].type).bytes \in Nat BY SpokenTypes
  <2>. QED BY <2>1 DEF HeaderBytes
<1>3. Sizes(d) = [i \in 1 .. Len(written[d]) |-> HeaderBytes + Writes(written[d][i].type).bytes]
  BY <1>1 DEF Sizes
<1>. QED BY <1>1, <1>2, <1>3

LEMMA SizesStay == (StreamsTyped => SizesRight)'
BY SizesAre, PTL

LEMMA BeginSteps ==
    ASSUME StreamsTyped, NEW d \in Dir
    PROVE  /\ Begin(d, 1) = 0
           /\ \A i \in 1 .. Len(written[d]) + 1 : Begin(d, i) \in Nat
           /\ \A i \in 1 .. Len(written[d]) :
                 Begin(d, i + 1) = Begin(d, i) + HeaderBytes + Writes(written[d][i].type).bytes
<1>1. /\ Sizes(d) \in Seq(Nat) /\ Len(Sizes(d)) = Len(written[d])
      /\ \A i \in 1 .. Len(written[d]) : Sizes(d)[i] = HeaderBytes + Writes(written[d][i].type).bytes
  BY SizesAre DEF SizesRight
<1>2. Len(written[d]) \in Nat
      /\ \A i \in 1 .. Len(written[d]) : Writes(written[d][i].type).bytes \in Nat
  BY SpokenTypes
<1>3. /\ SumTo(Sizes(d), 0) = 0
      /\ \A n \in 0 .. Len(written[d]) : SumTo(Sizes(d), n) \in Nat
      /\ \A n \in 1 .. Len(written[d]) : SumTo(Sizes(d), n) = SumTo(Sizes(d), n - 1) + Sizes(d)[n]
  BY <1>1, SumStep
<1>4. Begin(d, 1) = 0 BY <1>3 DEF Begin
<1>5. ASSUME NEW i \in 1 .. Len(written[d]) + 1 PROVE Begin(d, i) \in Nat
  <2>1. i - 1 \in 0 .. Len(written[d]) BY <1>2
  <2>. QED BY <1>3, <2>1 DEF Begin
<1>6. ASSUME NEW i \in 1 .. Len(written[d])
      PROVE Begin(d, i + 1) = Begin(d, i) + HeaderBytes + Writes(written[d][i].type).bytes
  <2>1. (i + 1) - 1 = i /\ i - 1 \in 0 .. Len(written[d]) BY <1>2
  <2>2. SumTo(Sizes(d), i) = SumTo(Sizes(d), i - 1) + Sizes(d)[i] BY <1>3
  <2>3. SumTo(Sizes(d), i - 1) \in Nat /\ Writes(written[d][i].type).bytes \in Nat BY <1>2, <1>3, <2>1
  <2>4. Begin(d, i) = SumTo(Sizes(d), i - 1) /\ Begin(d, i + 1) = SumTo(Sizes(d), i) BY <2>1 DEF Begin
  <2>5. Sizes(d)[i] = HeaderBytes + Writes(written[d][i].type).bytes BY <1>1
  <2>6. Begin(d, i + 1) = Begin(d, i) + (HeaderBytes + Writes(written[d][i].type).bytes)
    BY <2>2, <2>4, <2>5
  <2> HIDE DEF HeaderBytes
  <2>7. HeaderBytes \in Nat /\ Begin(d, i) \in Nat BY <2>3, <2>4 DEF HeaderBytes
  <2>. QED BY <2>3, <2>6, <2>7
<1>. QED BY <1>4, <1>5, <1>6

LEMMA BeginsAscend ==
    ASSUME StreamsTyped, NEW d \in Dir, NEW i \in 1 .. Len(written[d]) + 1,
           NEW j \in 1 .. Len(written[d]) + 1, i < j
    PROVE  Begin(d, i) + HeaderBytes < Begin(d, j)
<1>0. Len(written[d]) \in Nat BY SpokenTypes
<1> DEFINE T == {k \in 1 .. Len(written[d]) + 1 : i < k /\ ~(Begin(d, i) + HeaderBytes < Begin(d, k))}
<1>1. SUFFICES ASSUME T # {} PROVE FALSE OBVIOUS
<1>2. PICK x \in T : \A y \in T : x <= y
  <2>1. T \in SUBSET Nat BY <1>0
  <2> HIDE DEF T
  <2>. QED BY <1>1, <2>1, Least
<1>3. x - 1 \in 1 .. Len(written[d]) /\ (x - 1) + 1 = x /\ i <= x - 1 BY <1>0
<1>4. Begin(d, x) = Begin(d, x - 1) + HeaderBytes + Writes(written[d][x - 1].type).bytes
  BY <1>3, BeginSteps
<1>5. Writes(written[d][x - 1].type).bytes \in Nat \ {0} BY <1>3, SpokenTypes
<1>6. Begin(d, i) \in Nat /\ Begin(d, x - 1) \in Nat
  <2>1. x - 1 \in 1 .. Len(written[d]) + 1 BY <1>0, <1>3
  <2>. QED BY <2>1, BeginSteps
<1>7. Begin(d, i) <= Begin(d, x - 1)
  <2>1. CASE i = x - 1 BY <1>6, <2>1
  <2>2. CASE i # x - 1
    <3>1. i < x - 1 /\ x - 1 \in 1 .. Len(written[d]) + 1 /\ ~(x <= x - 1) BY <1>0, <1>3, <2>2
    <3>2. x - 1 \notin T BY <1>2, <3>1
    <3>3. Begin(d, i) + HeaderBytes < Begin(d, x - 1) BY <3>1, <3>2
    <3>. QED BY <1>6, <3>3 DEF HeaderBytes
  <2>. QED BY <2>1, <2>2
<1>8. Begin(d, i) + HeaderBytes < Begin(d, x) BY <1>4, <1>5, <1>6, <1>7 DEF HeaderBytes
<1>. QED BY <1>8

\* One message begins where a message begins.
LEMMA OneThere ==
    ASSUME StreamsTyped, NEW d \in Dir, NEW i \in 1 .. Len(written[d])
    PROVE  /\ At(d, Begin(d, i)) = {written[d][i]}
           /\ BodyAt(d, Begin(d, i) + HeaderBytes) = {written[d][i]}
<1>0. Len(written[d]) \in Nat /\ DOMAIN written[d] = 1 .. Len(written[d]) BY SpokenTypes
<1>1. ASSUME NEW j \in 1 .. Len(written[d]), j # i
      PROVE  Begin(d, i) # Begin(d, j) /\ Begin(d, i) \in Nat /\ Begin(d, j) \in Nat
  <2>1. i \in 1 .. Len(written[d]) + 1 /\ j \in 1 .. Len(written[d]) + 1 BY <1>0
  <2>2. Begin(d, i) \in Nat /\ Begin(d, j) \in Nat BY <2>1, BeginSteps
  <2>3. i < j \/ j < i BY <1>0, <1>1
  <2>4. Begin(d, i) + HeaderBytes < Begin(d, j) \/ Begin(d, j) + HeaderBytes < Begin(d, i)
    BY <2>1, <2>3, BeginsAscend
  <2>. QED BY <2>2, <2>4 DEF HeaderBytes
<1>2. {j \in DOMAIN written[d] : Begin(d, j) = Begin(d, i)} = {i} BY <1>0, <1>1
<1>3. {j \in DOMAIN written[d] : Begin(d, j) + HeaderBytes = Begin(d, i) + HeaderBytes} = {i}
  <2>1. ASSUME NEW j \in 1 .. Len(written[d]), j # i
        PROVE  Begin(d, j) + HeaderBytes # Begin(d, i) + HeaderBytes
    BY <1>1, <2>1 DEF HeaderBytes
  <2>. QED BY <1>0, <2>1
<1>. QED BY <1>2, <1>3 DEF At, BodyAt

\* What is written stays where it is.
LEMMA BeginStays ==
    ASSUME StreamsTyped, StreamsTyped', NEW d \in Dir, NEW i \in 1 .. Len(written[d]) + 1,
           Len(written[d]) <= Len(written'[d]),
           \A j \in 1 .. Len(written[d]) : written'[d][j] = written[d][j]
    PROVE  Begin(d, i)' = Begin(d, i)
<1>1. /\ Sizes(d) \in Seq(Nat) /\ Len(Sizes(d)) = Len(written[d])
      /\ \A j \in 1 .. Len(written[d]) : Sizes(d)[j] = HeaderBytes + Writes(written[d][j].type).bytes
  BY SizesAre DEF SizesRight
<1>2. /\ Sizes(d)' \in Seq(Nat) /\ Len(Sizes(d)') = Len(written'[d])
      /\ \A j \in 1 .. Len(written'[d]) : Sizes(d)'[j] = HeaderBytes + Writes(written'[d][j].type).bytes
  BY SizesStay DEF SizesRight
<1>3. Len(written[d]) \in Nat /\ Len(written'[d]) \in Nat BY <1>1, <1>2
<1>4. i - 1 \in 0 .. Len(Sizes(d)) /\ i - 1 <= Len(Sizes(d)') BY <1>1, <1>2, <1>3
<1>5. ASSUME NEW j \in 1 .. i - 1 PROVE Sizes(d)[j] = Sizes(d)'[j]
  <2>1. j \in 1 .. Len(written[d]) /\ j \in 1 .. Len(written'[d]) BY <1>3
  <2>2. written'[d][j] = written[d][j] BY <2>1
  <2>. QED BY <1>1, <1>2, <2>1, <2>2
<1>6. SumTo(Sizes(d), i - 1) = SumTo(Sizes(d)', i - 1) BY <1>1, <1>2, <1>4, <1>5, SumSame
<1>7. Begin(d, i)' = SumTo(Sizes(d)', i - 1) BY DEF Begin, SumTo
<1>. QED BY <1>6, <1>7 DEF Begin

-----------------------------------------------------------------------------
(* Steps                                                                   *)

\* What the reader is about to read tells where in the message it is.
LEMMA ReaderPlace ==
    ASSUME NEW d, NEW n, ReaderAt(d, n)
    PROVE  /\ reader[d].at \in {"header", "body", "type", "fields"}
           /\ reader[d].at = "header" => AtStart(d, n)
           /\ reader[d].at = "body" => AtBody(d, n)
           /\ reader[d].at = "type" => AtType(d, n)
           /\ reader[d].at = "fields" => AtField(d, n)
<1>1. CASE AtStart(d, n)
  <2>1. reader[d].at = "header" BY <1>1 DEF AtStart, Header
  <2>. QED BY <1>1, <2>1
<1>2. CASE AtBody(d, n)
  <2>1. reader[d].at = "body" BY <1>2 DEF AtBody
  <2>. QED BY <1>2, <2>1
<1>3. CASE AtType(d, n)
  <2>1. reader[d].at = "type" BY <1>3 DEF AtType
  <2>. QED BY <1>3, <2>1
<1>4. CASE AtField(d, n)
  <2>1. PICK k : reader[d] = [at |-> "fields",
                              fields |-> SubSeq(WebReads[written[d][n + 1].type], k,
                                                Len(WebReads[written[d][n + 1].type])),
                              body |-> Begin(d, n + 1) + HeaderBytes]
    BY <1>4 DEF AtField
  <2>2. reader[d].at = "fields" BY <2>1
  <2>. QED BY <1>4, <2>2
<1>. QED BY <1>1, <1>2, <1>3, <1>4 DEF ReaderAt

LEMMA HasDirs == Dir = {"in", "out"} /\ "in" \in Dir /\ "out" \in Dir BY DEF Dir

\* Nothing that was written changes.
Grows(d) ==
    /\ Len(written[d]) <= Len(written'[d])
    /\ \A j \in 1 .. Len(written[d]) : written'[d][j] = written[d][j]

LEMMA Sent ==
    ASSUME StreamsTyped, peer' = peer, NEW d \in Dir, NEW m \in Msg, m.type \in Spoken(d),
           written' = [written EXCEPT ![d] = Append(@, m)]
    PROVE  /\ written' \in [Dir -> Seq(Msg)]
           /\ \A e \in Dir : \A i \in DOMAIN written'[e] : written'[e][i].type \in Spoken(e)'
           /\ \A e \in Dir : Grows(e)
           /\ Len(written'[d]) = Len(written[d]) + 1 /\ written'[d][Len(written[d]) + 1] = m
           /\ \A e \in Dir \ {d} : written'[e] = written[e]
<1>1. written \in [Dir -> Seq(Msg)] BY DEF StreamsTyped
<1>2. written[d] \in Seq(Msg) /\ Len(written[d]) \in Nat BY <1>1
<1>3. written'[d] = Append(written[d], m) /\ \A e \in Dir \ {d} : written'[e] = written[e] BY <1>1
<1>4. /\ written'[d] \in Seq(Msg) /\ Len(written'[d]) = Len(written[d]) + 1
      /\ written'[d][Len(written[d]) + 1] = m
      /\ \A j \in 1 .. Len(written[d]) : written'[d][j] = written[d][j]
  BY <1>2, <1>3, AppendProperties
<1>5. written' \in [Dir -> Seq(Msg)] BY <1>1, <1>3, <1>4
<1>6. \A e \in Dir : Spoken(e)' = Spoken(e) BY DEF Spoken
<1>7. ASSUME NEW e \in Dir, NEW i \in DOMAIN written'[e] PROVE written'[e][i].type \in Spoken(e)'
  <2>1. CASE e # d
    <3>1. written'[e] = written[e] BY <1>3, <2>1
    <3>. QED BY <1>6, <3>1 DEF StreamsTyped
  <2>2. CASE e = d
    <3>1. i \in 1 .. Len(written[d]) + 1 BY <1>4, <2>2
    <3>2. CASE i = Len(written[d]) + 1 BY <1>4, <1>6, <2>2, <3>2
    <3>3. CASE i # Len(written[d]) + 1
      <4>1. i \in 1 .. Len(written[d]) /\ i \in DOMAIN written[d] BY <1>2, <3>1, <3>3
      <4>2. written'[d][i] = written[d][i] BY <1>4, <4>1
      <4>. QED BY <1>6, <2>2, <4>1, <4>2 DEF StreamsTyped
    <3>. QED BY <3>2, <3>3
  <2>. QED BY <2>1, <2>2
<1>8. ASSUME NEW e \in Dir PROVE Grows(e)
  <2>1. CASE e = d BY <1>2, <1>4, <2>1 DEF Grows
  <2>2. CASE e # d
    <3>1. written'[e] = written[e] /\ Len(written[e]) \in Nat BY <1>1, <1>3, <2>2
    <3>. QED BY <3>1 DEF Grows
  <2>. QED BY <2>1, <2>2
<1>. QED BY <1>3, <1>4, <1>5, <1>7, <1>8

LEMMA PeerSendsOne ==
    ASSUME NEW type, PeerSends(type)
    PROVE  \E m : /\ m = Message(type, FALSE, FALSE)
                  /\ written' = [written EXCEPT !["in"] = Append(@, m)]
BY DEF PeerSends

LEMMA ServerSendsOne ==
    ASSUME NEW type \in MsgType, ServerSends(type)
    PROVE  \E m \in Msg : m.type = type /\ written' = [written EXCEPT !["out"] = Append(@, m)]
<1>1. PICK junk \in BOOLEAN, nought \in BOOLEAN :
        written' = [written EXCEPT !["out"] = Append(@, Message(type, junk, nought))]
  BY DEF ServerSends
<1>2. Message(type, junk, nought) \in Msg /\ Message(type, junk, nought).type = type BY DEF Message, Msg
<1>. QED BY <1>1, <1>2

LEMMA Taken ==
    ASSUME StreamsTyped, NEW d \in Dir, NEW n \in Nat, NEW k \in Nat, NEW next \in ReaderType,
           Take(d, n, k, next)
    PROVE  /\ peer' = peer
           /\ taken' \in [Dir -> Nat] /\ reader' \in [Dir -> ReaderType] /\ missed' \in [Dir -> BOOLEAN]
           /\ taken'[d] = taken[d] + k /\ reader'[d] = next
           /\ (missed'[d] <=> missed[d] \/ k < n)
           /\ \A e \in Dir \ {d} : taken'[e] = taken[e] /\ reader'[e] = reader[e] /\ missed'[e] = missed[e]
<1>1. taken \in [Dir -> Nat] /\ reader \in [Dir -> ReaderType] /\ missed \in [Dir -> BOOLEAN]
  BY DEF StreamsTyped
<1>2. /\ taken' = [taken EXCEPT ![d] = @ + k]
      /\ missed' = [missed EXCEPT ![d] = @ \/ k < n]
      /\ reader' = [reader EXCEPT ![d] = next]
      /\ peer' = peer
  BY DEF Take
<1>3. taken[d] + k \in Nat /\ (missed[d] \/ k < n) \in BOOLEAN BY <1>1
<1>. QED BY <1>1, <1>2, <1>3

LEMMA TypedInit == StreamsInit => StreamsTyped
<1> SUFFICES ASSUME StreamsInit PROVE StreamsTyped OBVIOUS
<1>1. Header \in ReaderType
  <2>1. <<HeaderBytes>> \in Seq(Nat) /\ Len(<<HeaderBytes>>) = 1 BY DEF HeaderBytes
  <2>. QED BY <2>1 DEF Header, ReaderType
<1>2. <<>> \in Seq(Msg) /\ DOMAIN <<>> = {} OBVIOUS
<1>. QED BY <1>1, <1>2, HasDirs DEF StreamsInit, StreamsTyped

TypesRight ==
    \A d \in Dir :
        /\ Types(d) \in Seq(MsgType) /\ Len(Types(d)) = Len(written[d])
        /\ \A i \in 1 .. Len(written[d]) :
              written[d][i].type \in MsgType /\ Types(d)[i] = written[d][i].type

LEMMA TypesAre == StreamsTyped => TypesRight
<1> SUFFICES ASSUME StreamsTyped, NEW d \in Dir
    PROVE  /\ Types(d) \in Seq(MsgType) /\ Len(Types(d)) = Len(written[d])
           /\ \A i \in 1 .. Len(written[d]) :
                 written[d][i].type \in MsgType /\ Types(d)[i] = written[d][i].type
  BY DEF TypesRight
<1>1. /\ written[d] \in Seq(Msg) /\ Len(written[d]) \in Nat
      /\ DOMAIN written[d] = 1 .. Len(written[d])
  BY SpokenTypes
<1>2. ASSUME NEW i \in 1 .. Len(written[d]) PROVE written[d][i].type \in MsgType
  <2>1. written[d][i] \in Msg BY <1>1
  <2>. QED BY <2>1 DEF Msg
<1>3. Types(d) = [i \in 1 .. Len(written[d]) |-> written[d][i].type] BY <1>1 DEF Types
<1>. QED BY <1>1, <1>2, <1>3

LEMMA TypesStay == (StreamsTyped => TypesRight)'
BY TypesAre, PTL

\* The types of the messages handled stay when more is written, ...
LEMMA HandledSame ==
    ASSUME StreamsTyped, StreamsTyped', NEW d \in Dir, Grows(d), NEW n \in 0 .. Len(written[d])
    PROVE  SubSeq(Types(d)', 1, n) = SubSeq(Types(d), 1, n)
<1>1. Len(written[d]) \in Nat /\ Len(written'[d]) \in Nat BY DEF StreamsTyped
<1>2. /\ Types(d) \in Seq(MsgType) /\ Len(Types(d)) = Len(written[d])
      /\ \A i \in 1 .. Len(written[d]) : Types(d)[i] = written[d][i].type
  BY TypesAre DEF TypesRight
<1>3. /\ Types(d)' \in Seq(MsgType) /\ Len(Types(d)') = Len(written'[d])
      /\ \A i \in 1 .. Len(written'[d]) : Types(d)'[i] = written'[d][i].type
  BY TypesStay DEF TypesRight
<1>4. ASSUME NEW i \in 1 .. n PROVE Types(d)'[i] = Types(d)[i]
  <2>1. i \in 1 .. Len(written[d]) /\ i \in 1 .. Len(written'[d]) BY <1>1 DEF Grows
  <2>2. written'[d][i] = written[d][i] BY <2>1 DEF Grows
  <2>. QED BY <1>2, <1>3, <2>1, <2>2
<1>5. n <= Len(Types(d)) /\ n <= Len(Types(d)') /\ n \in Nat BY <1>1, <1>2, <1>3 DEF Grows
<1>6. /\ SubSeq(Types(d), 1, n) \in Seq(MsgType) /\ Len(SubSeq(Types(d), 1, n)) = n
      /\ \A i \in 1 .. n : SubSeq(Types(d), 1, n)[i] = Types(d)[i]
  BY <1>2, <1>5
<1>7. /\ SubSeq(Types(d)', 1, n) \in Seq(MsgType) /\ Len(SubSeq(Types(d)', 1, n)) = n
      /\ \A i \in 1 .. n : SubSeq(Types(d)', 1, n)[i] = Types(d)'[i]
  BY <1>3, <1>5
<1>. QED BY <1>4, <1>6, <1>7, SeqEqual

\* ... and the next one is added to them.
LEMMA HandledMore ==
    ASSUME StreamsTyped, StreamsTyped', NEW d \in Dir, Grows(d),
           NEW n \in 0 .. Len(written[d]), n < Len(written[d]),
           handled[d] = SubSeq(Types(d), 1, n),
           handled'[d] = Append(handled[d], written[d][n + 1].type)
    PROVE  handled'[d] = SubSeq(Types(d)', 1, n + 1)
<1>1. Len(written[d]) \in Nat BY DEF StreamsTyped
<1>2. /\ Types(d) \in Seq(MsgType) /\ Len(Types(d)) = Len(written[d])
      /\ \A i \in 1 .. Len(written[d]) :
            written[d][i].type \in MsgType /\ Types(d)[i] = written[d][i].type
  BY TypesAre DEF TypesRight
<1>3. n + 1 \in 0 .. Len(written[d]) /\ n + 1 \in 1 .. Len(written[d]) BY <1>1
<1>4. SubSeq(Types(d)', 1, n + 1) = SubSeq(Types(d), 1, n + 1) BY <1>3, HandledSame
<1>5. /\ SubSeq(Types(d), 1, n + 1) \in Seq(MsgType) /\ Len(SubSeq(Types(d), 1, n + 1)) = n + 1
      /\ \A i \in 1 .. n + 1 : SubSeq(Types(d), 1, n + 1)[i] = Types(d)[i]
  BY <1>1, <1>2, <1>3
<1>6. /\ handled[d] \in Seq(MsgType) /\ Len(handled[d]) = n
      /\ \A i \in 1 .. n : handled[d][i] = Types(d)[i]
  BY <1>1, <1>2
<1>7. written[d][n + 1].type \in MsgType /\ Types(d)[n + 1] = written[d][n + 1].type BY <1>2, <1>3
<1>8. /\ handled'[d] \in Seq(MsgType) /\ Len(handled'[d]) = n + 1
      /\ \A i \in 1 .. n : handled'[d][i] = Types(d)[i]
      /\ handled'[d][n + 1] = Types(d)[n + 1]
  BY <1>6, <1>7, AppendProperties
<1>9. \A i \in 1 .. n + 1 : handled'[d][i] = SubSeq(Types(d), 1, n + 1)[i] BY <1>1, <1>5, <1>8
<1>. QED BY <1>4, <1>5, <1>8, <1>9, SeqEqual

\* A direction nobody reads from goes on as it was.
LEMMA FollowsStays ==
    ASSUME StreamsTyped, StreamsTyped', NEW d \in Dir, Follows(d), Grows(d), peer' = peer,
           reader'[d] = reader[d], taken'[d] = taken[d], handled'[d] = handled[d]
    PROVE  Follows(d)'
<1>1. PICK n \in 0 .. Len(written[d]) : handled[d] = SubSeq(Types(d), 1, n) /\ ReaderAt(d, n)
  BY DEF Follows
<1>2. Len(written[d]) \in Nat /\ Len(written'[d]) \in Nat BY DEF StreamsTyped
<1>3. n \in 0 .. Len(written'[d]) /\ n + 1 \in 1 .. Len(written[d]) + 1 BY <1>2 DEF Grows
<1>4. handled'[d] = SubSeq(Types(d)', 1, n) BY <1>1, HandledSame
<1>5. Begin(d, n + 1)' = Begin(d, n + 1) BY <1>3, BeginStays DEF Grows
<1>6. ReaderAt(d, n)'
  <2>1. CASE AtStart(d, n)
    <3>1. AtStart(d, n)' BY <1>5, <2>1 DEF AtStart, Header
    <3>. QED BY <3>1 DEF ReaderAt
  <2>2. ASSUME n < Len(written[d])
        PROVE  n < Len(written'[d]) /\ written'[d][n + 1] = written[d][n + 1]
    BY <1>2, <1>3, <2>2 DEF Grows
  <2>3. CASE AtBody(d, n)
    <3>1. AtBody(d, n)' BY <1>5, <2>2, <2>3 DEF AtBody
    <3>. QED BY <3>1 DEF ReaderAt
  <2>4. CASE AtType(d, n)
    <3>1. AtType(d, n)' BY <1>5, <2>2, <2>4 DEF AtType
    <3>. QED BY <3>1 DEF ReaderAt
  <2>5. CASE AtField(d, n)
    <3>1. AtField(d, n)' BY <1>5, <2>2, <2>5 DEF AtField
    <3>. QED BY <3>1 DEF ReaderAt
  <2>. QED BY <1>1, <2>1, <2>3, <2>4, <2>5 DEF ReaderAt
<1>. QED BY <1>3, <1>4, <1>6 DEF Follows

\* Where a whole header is still to come, a message begins.
LEMMA NextWritten ==
    ASSUME StreamsTyped, NEW d \in Dir, NEW n \in 0 .. Len(written[d]),
           taken[d] = Begin(d, n + 1), HeaderBytes <= Unread(d)
    PROVE  n < Len(written[d]) /\ At(d, taken[d]) = {written[d][n + 1]}
<1>1. Len(written[d]) \in Nat BY DEF StreamsTyped
<1>2. n # Len(written[d])
  <2>1. SUFFICES ASSUME n = Len(written[d]) PROVE FALSE OBVIOUS
  <2>2. n + 1 \in 1 .. Len(written[d]) + 1 BY <1>1
  <2>3. Begin(d, n + 1) \in Nat BY <2>2, BeginSteps
  <2>4. Unread(d) = 0 BY <2>1, <2>3 DEF Unread
  <2>. QED BY <2>4 DEF HeaderBytes
<1>3. n + 1 \in 1 .. Len(written[d]) BY <1>1, <1>2
<1>. QED BY <1>1, <1>2, <1>3, OneThere

\* The same for the messages the web server reads, whose place is that of their body.
LEMMA BodyThere ==
    ASSUME StreamsTyped, NEW d \in Dir, NEW n \in 0 .. Len(written[d]), n < Len(written[d])
    PROVE  /\ BodyAt(d, Begin(d, n + 1) + HeaderBytes) = {written[d][n + 1]}
           /\ written[d][n + 1] \in Msg /\ written[d][n + 1].type \in Spoken(d)
           /\ Begin(d, n + 1) \in Nat
           /\ Begin(d, n + 2) = Begin(d, n + 1) + HeaderBytes + Writes(written[d][n + 1].type).bytes
<1>1. /\ written[d] \in Seq(Msg) /\ Len(written[d]) \in Nat
      /\ DOMAIN written[d] = 1 .. Len(written[d])
  BY SpokenTypes
<1>2. n + 1 \in 1 .. Len(written[d]) /\ n + 1 \in 1 .. Len(written[d]) + 1 /\ (n + 1) + 1 = n + 2
  BY <1>1
<1>3. written[d][n + 1] \in Msg BY <1>1, <1>2
<1>4. written[d][n + 1].type \in Spoken(d) BY <1>1, <1>2 DEF StreamsTyped
<1>5. Begin(d, (n + 1) + 1) = Begin(d, n + 1) + HeaderBytes + Writes(written[d][n + 1].type).bytes
  BY <1>2, BeginSteps
<1>6. Begin(d, n + 1) \in Nat BY <1>2, BeginSteps
<1>. QED BY <1>2, <1>3, <1>4, <1>5, <1>6, OneThere

\* The reader goes on in the message it is in, ...
LEMMA ReadsOn ==
    ASSUME StreamsTyped, StreamsTyped', NEW d \in Dir, Grows(d), NEW n \in 0 .. Len(written[d]),
           handled[d] = SubSeq(Types(d), 1, n), handled'[d] = handled[d], ReaderAt(d, n)'
    PROVE  Follows(d)'
<1>1. n \in 0 .. Len(written'[d])
  <2>1. Len(written[d]) \in Nat /\ Len(written'[d]) \in Nat BY DEF StreamsTyped
  <2>. QED BY <2>1 DEF Grows
<1>2. handled'[d] = SubSeq(Types(d)', 1, n) BY HandledSame
<1>. QED BY <1>1, <1>2 DEF Follows

\* ... or handles it and stands before the next.
LEMMA HandlesOn ==
    ASSUME StreamsTyped, StreamsTyped', NEW d \in Dir, Grows(d), NEW n \in 0 .. Len(written[d]),
           n < Len(written[d]), handled[d] = SubSeq(Types(d), 1, n),
           handled'[d] = Append(handled[d], written[d][n + 1].type),
           reader'[d] = Header, taken'[d] = Begin(d, n + 2)
    PROVE  Follows(d)'
<1>0. Len(written[d]) \in Nat /\ Len(written'[d]) \in Nat BY DEF StreamsTyped
<1>1. n + 1 \in 0 .. Len(written'[d]) /\ n + 2 \in 1 .. Len(written[d]) + 1 /\ (n + 1) + 1 = n + 2
  BY <1>0, SMTT(30) DEF Grows
<1>2. handled'[d] = SubSeq(Types(d)', 1, n + 1) BY HandledMore
<1>3. Begin(d, n + 2)' = Begin(d, n + 2) BY <1>1, BeginStays DEF Grows
<1>4. ReaderAt(d, n + 1)' BY <1>1, <1>3 DEF ReaderAt, AtStart, Header
<1>. QED BY <1>1, <1>2, <1>4 DEF Follows

LEMMA Unwritten ==
    ASSUME StreamsTyped, peer' = peer, UNCHANGED written
    PROVE  /\ written' \in [Dir -> Seq(Msg)]
           /\ \A e \in Dir : \A i \in DOMAIN written'[e] : written'[e][i].type \in Spoken(e)'
           /\ \A e \in Dir : Grows(e)
<1>1. ASSUME NEW e \in Dir PROVE Grows(e)
  <2>1. Len(written[e]) \in Nat BY DEF StreamsTyped
  <2>. QED BY <2>1 DEF Grows
<1>2. \A e \in Dir : Spoken(e)' = Spoken(e) BY DEF Spoken
<1>3. written' \in [Dir -> Seq(Msg)] BY DEF StreamsTyped
<1>4. \A e \in Dir : \A i \in DOMAIN written'[e] : written'[e][i].type \in Spoken(e)'
  BY <1>2 DEF StreamsTyped
<1>. QED BY <1>1, <1>3, <1>4

-----------------------------------------------------------------------------
(* The messages that are written                                           *)

\* A message of the peer, ...
LEMMA PeerWrites ==
    ASSUME StreamsTyped, peer' = peer, NEW type \in Spoken("in"), PeerSends(type)
    PROVE  /\ written' \in [Dir -> Seq(Msg)]
           /\ \A e \in Dir : \A i \in DOMAIN written'[e] : written'[e][i].type \in Spoken(e)'
           /\ \A e \in Dir : Grows(e)
           /\ Len(written'["in"]) = Len(written["in"]) + 1
           /\ written'["out"] = written["out"]
<1>1. type \in MsgType BY HasDirs DEF Spoken, MsgType
<1>2. PICK m : m = Message(type, FALSE, FALSE) OBVIOUS
<1>3. m \in Msg /\ m.type = type BY <1>1, <1>2 DEF Message, Msg
<1>4. written' = [written EXCEPT !["in"] = Append(@, m)] BY <1>2 DEF PeerSends
<1>5. m.type \in Spoken("in") BY <1>3
<1>6. /\ written' \in [Dir -> Seq(Msg)]
      /\ \A e \in Dir : \A i \in DOMAIN written'[e] : written'[e][i].type \in Spoken(e)'
      /\ \A e \in Dir : Grows(e)
      /\ Len(written'["in"]) = Len(written["in"]) + 1
      /\ \A e \in Dir \ {"in"} : written'[e] = written[e]
  BY <1>3, <1>4, <1>5, HasDirs, Sent
<1>. QED BY <1>6, HasDirs

\* ... and of the server.
LEMMA ServerWrites ==
    ASSUME StreamsTyped, peer' = peer, NEW type \in Spoken("out"), ServerSends(type)
    PROVE  /\ written' \in [Dir -> Seq(Msg)]
           /\ \A e \in Dir : \A i \in DOMAIN written'[e] : written'[e][i].type \in Spoken(e)'
           /\ \A e \in Dir : Grows(e)
           /\ Len(written'["out"]) = Len(written["out"]) + 1
           /\ written'["out"][Len(written["out"]) + 1].type = type
           /\ written'["in"] = written["in"]
<1>1. type \in MsgType BY HasDirs DEF Spoken, MsgType
<1>2. PICK m \in Msg : m.type = type /\ written' = [written EXCEPT !["out"] = Append(@, m)]
  BY <1>1, ServerSendsOne
<1>3. m.type \in Spoken("out") BY <1>2
<1>4. /\ written' \in [Dir -> Seq(Msg)]
      /\ \A e \in Dir : \A i \in DOMAIN written'[e] : written'[e][i].type \in Spoken(e)'
      /\ \A e \in Dir : Grows(e)
      /\ Len(written'["out"]) = Len(written["out"]) + 1
      /\ written'["out"][Len(written["out"]) + 1] = m
      /\ \A e \in Dir \ {"out"} : written'[e] = written[e]
  BY <1>2, <1>3, HasDirs, Sent
<1>. QED BY <1>2, <1>4, HasDirs

\* A step that only writes keeps every direction that was in step so.
LEMMA WritingStep ==
    ASSUME PeersInv, UNCHANGED <<peer, taken, reader, handled, missed, alive>>,
           written' \in [Dir -> Seq(Msg)],
           \A e \in Dir : \A i \in DOMAIN written'[e] : written'[e][i].type \in Spoken(e)',
           \A e \in Dir : Grows(e)
    PROVE  StreamsTyped' /\ \A d \in Dir : InStep(d)' => Follows(d)'
<1>1. StreamsTyped' BY DEF PeersInv, StreamsTyped
<1>2. ASSUME NEW d \in Dir, InStep(d)' PROVE Follows(d)'
  <2>1. InStep(d) BY <1>2 DEF InStep
  <2>2. StreamsTyped /\ Follows(d) BY <2>1 DEF PeersInv
  <2>. QED BY <1>1, <2>2, FollowsStays
<1>. QED BY <1>1, <1>2

LEMMA GreetStep == PeersInv /\ Greet => PeersInv'
<1> SUFFICES ASSUME PeersInv, Greet PROVE PeersInv' OBVIOUS
<1>1. /\ StreamsTyped /\ peer' = peer /\ written = [d \in Dir |-> <<>>]
      /\ UNCHANGED <<peer, taken, reader, handled, missed, alive>>
  BY DEF Greet, PeersInv
<1>2. CASE peer = "android" /\ ServerSends("SVR_READY")
  <2>1. "SVR_READY" \in Spoken("out") BY <1>2, HasDirs DEF Spoken
  <2>2. /\ written' \in [Dir -> Seq(Msg)]
        /\ \A e \in Dir : \A i \in DOMAIN written'[e] : written'[e][i].type \in Spoken(e)'
        /\ \A e \in Dir : Grows(e)
        /\ Len(written'["out"]) = Len(written["out"]) + 1 /\ written'["in"] = written["in"]
    BY <1>1, <1>2, <2>1, ServerWrites
  <2>3. StreamsTyped' /\ \A d \in Dir : InStep(d)' => Follows(d)' BY <1>1, <2>2, WritingStep
  <2>4. written["in"] = <<>> /\ Len(written["out"]) = 0 BY <1>1, HasDirs
  <2>5. \A i \in DOMAIN written'["out"] : i = 1
    <3>1. written'["out"] \in Seq(Msg) /\ Len(written'["out"]) = 1 BY <2>2, <2>4, HasDirs
    <3>. QED BY <3>1
  <2>6. AnswersOnce' BY <1>1, <2>2, <2>4, <2>5 DEF AnswersOnce, PeersInv
  <2>. QED BY <2>3, <2>6 DEF PeersInv
<1>3. CASE peer = "web" /\ PeerSends("WSCONNECTED")
  <2>1. "WSCONNECTED" \in Spoken("in") BY <1>3, HasDirs DEF Spoken
  <2>2. /\ written' \in [Dir -> Seq(Msg)]
        /\ \A e \in Dir : \A i \in DOMAIN written'[e] : written'[e][i].type \in Spoken(e)'
        /\ \A e \in Dir : Grows(e)
    BY <1>1, <1>3, <2>1, PeerWrites
  <2>3. StreamsTyped' /\ \A d \in Dir : InStep(d)' => Follows(d)' BY <1>1, <2>2, WritingStep
  <2>4. AnswersOnce' BY <1>1, <1>3 DEF AnswersOnce
  <2>. QED BY <2>3, <2>4 DEF PeersInv
<1>. QED BY <1>2, <1>3 DEF Greet

LEMMA PassOrderStep == PeersInv /\ PassOrder => PeersInv'
<1> SUFFICES ASSUME PeersInv, PassOrder PROVE PeersInv' OBVIOUS
<1>1. /\ StreamsTyped /\ peer' = peer /\ peer = "web" /\ ServerSends("S2W_ORDER")
      /\ UNCHANGED <<peer, taken, reader, handled, missed, alive>>
  BY DEF PassOrder, PeersInv
<1>2. "S2W_ORDER" \in Spoken("out") BY <1>1, HasDirs DEF Spoken
<1>3. /\ written' \in [Dir -> Seq(Msg)]
      /\ \A e \in Dir : \A i \in DOMAIN written'[e] : written'[e][i].type \in Spoken(e)'
      /\ \A e \in Dir : Grows(e)
  BY <1>1, <1>2, ServerWrites
<1>4. StreamsTyped' /\ \A d \in Dir : InStep(d)' => Follows(d)' BY <1>1, <1>3, WritingStep
<1>5. AnswersOnce' BY <1>1 DEF AnswersOnce
<1>. QED BY <1>4, <1>5 DEF PeersInv

-----------------------------------------------------------------------------
(* The messages that are read                                              *)

LEMMA LengthsKnown ==
    /\ \A type \in MsgType : Writes(type).length \in Nat /\ Writes(type).bytes \in Nat
    /\ \A type \in MsgType \ {"AUTH_SYN"} :
          Writes(type).length = Writes(type).bytes /\ Writes(type).length > 1
<1>1. ASSUME NEW type \in MsgType
      PROVE  /\ Writes(type).length \in Nat /\ Writes(type).bytes \in Nat
             /\ type # "AUTH_SYN" =>
                   Writes(type).length = Writes(type).bytes /\ Writes(type).length > 1
  <2>1. /\ Writes("AUTH_SYN").length = 46 /\ Writes("AUTH_SYN").bytes = 42
        /\ Writes("WSCONNECTED").length = 2 /\ Writes("WSCONNECTED").bytes = 2
        /\ Writes("AUTH_RESULT").length = 3 /\ Writes("AUTH_RESULT").bytes = 3
        /\ Writes("NEWORDERBRD").length = 10 /\ Writes("NEWORDERBRD").bytes = 10
    BY TablesAgree, SMTT(30)
  <2>2. /\ Writes("SVR_READY").length = 42 /\ Writes("SVR_READY").bytes = 42
        /\ Writes("AUTH_ACK").length = 3 /\ Writes("AUTH_ACK").bytes = 3
        /\ Writes("PUSHSVR_AUTH").length = 34 /\ Writes("PUSHSVR_AUTH").bytes = 34
        /\ Writes("S2W_ORDER").length = 198 /\ Writes("S2W_ORDER").bytes = 198
    BY TablesAgree, SMTT(30)
  <2>. QED BY <2>1, <2>2 DEF MsgType
<1>. QED BY <1>1

LEMMA PlacesTyped ==
    /\ Header \in ReaderType /\ Lost \in ReaderType
    /\ \A n, p \in Nat : [at |-> "body", fields |-> <<n>>, body |-> p] \in ReaderType
    /\ \A fs \in Seq(Nat), p \in Nat :
          /\ [at |-> "type", fields |-> fs, body |-> p] \in ReaderType
          /\ [at |-> "fields", fields |-> fs, body |-> p] \in ReaderType
<1>1. Header \in ReaderType
  <2>1. <<HeaderBytes>> \in Seq(Nat) BY DEF HeaderBytes
  <2>. QED BY <2>1 DEF Header, ReaderType
<1>2. Lost \in ReaderType BY DEF Lost, ReaderType
<1>3. ASSUME NEW n \in Nat, NEW p \in Nat
      PROVE  [at |-> "body", fields |-> <<n>>, body |-> p] \in ReaderType
  <2>1. <<n>> \in Seq(Nat) /\ Len(<<n>>) = 1 OBVIOUS
  <2>. QED BY <2>1 DEF ReaderType
<1>4. ASSUME NEW fs \in Seq(Nat), NEW p \in Nat
      PROVE  /\ [at |-> "type", fields |-> fs, body |-> p] \in ReaderType
             /\ [at |-> "fields", fields |-> fs, body |-> p] \in ReaderType
  BY DEF ReaderType
<1>. QED BY <1>1, <1>2, <1>3, <1>4

\* The messages a reader may find are messages.
LEMMA FoundTyped ==
    ASSUME StreamsTyped, NEW d \in Dir, NEW p, NEW m \in At(d, p) \cup BodyAt(d, p)
    PROVE  m \in Msg /\ m.type \in Spoken(d) /\ m.type \in MsgType
<1>1. written[d] \in Seq(Msg) /\ DOMAIN written[d] = 1 .. Len(written[d]) BY SpokenTypes
<1>2. PICK i \in DOMAIN written[d] : m = written[d][i] BY DEF At, BodyAt
<1>3. m \in Msg BY <1>1, <1>2
<1>4. m.type \in Spoken(d) BY <1>2 DEF StreamsTyped
<1>. QED BY <1>3, <1>4 DEF Msg

\* What is left of the invariant when one direction was read.
LEMMA ReadingStep ==
    ASSUME PeersInv, StreamsTyped', peer' = peer, NEW d \in Dir, NEW e \in Dir, e # d,
           reader'[e] = reader[e], taken'[e] = taken[e], handled'[e] = handled[e],
           missed'[e] = missed[e], e = "out" => alive' = alive, Grows(e),
           InStep(d)' => Follows(d)', AnswersOnce'
    PROVE  PeersInv'
<1>1. ASSUME NEW f \in Dir, InStep(f)' PROVE Follows(f)'
  <2>1. CASE f = d BY <1>1, <2>1
  <2>2. CASE f = e
    <3>1. InStep(e) BY <1>1, <2>2 DEF InStep
    <3>2. StreamsTyped /\ Follows(e) BY <3>1 DEF PeersInv
    <3>. QED BY <2>2, <3>2, FollowsStays
  <2>. QED BY <2>1, <2>2, HasDirs
<1>. QED BY <1>1 DEF PeersInv

LEMMA ServerReadsHeaderStep == PeersInv /\ ServerReadsHeader => PeersInv'
<1> SUFFICES ASSUME PeersInv, ServerReadsHeader PROVE PeersInv' OBVIOUS
<1> DEFINE at == At("in", taken["in"])
<1> DEFINE next == IF at = {} THEN Lost
                   ELSE LET m == CHOOSE m \in at : TRUE IN
                        [at |-> "body", fields |-> <<Writes(m.type).length>>,
                         body |-> taken["in"] + HeaderBytes]
<1>1. /\ reader["in"].at = "header" /\ HeaderBytes <= Unread("in")
      /\ Take("in", HeaderBytes, HeaderBytes, next)
      /\ UNCHANGED <<written, handled, alive>>
  BY DEF ServerReadsHeader, Whole
<1>2. StreamsTyped /\ taken["in"] \in Nat /\ InStep("in")
  BY HasDirs DEF PeersInv, StreamsTyped, InStep
<1>3. Follows("in") BY <1>2, HasDirs DEF PeersInv
<1>4. PICK n \in 0 .. Len(written["in"]) :
        handled["in"] = SubSeq(Types("in"), 1, n) /\ ReaderAt("in", n)
  BY <1>3 DEF Follows
<1>5. taken["in"] = Begin("in", n + 1) BY <1>1, <1>4, ReaderPlace DEF AtStart
<1>6. n < Len(written["in"]) /\ at = {written["in"][n + 1]} BY <1>1, <1>2, <1>5, HasDirs, NextWritten
<1> DEFINE type == written["in"][n + 1].type
<1>7. type \in MsgType
  <2>1. Len(written["in"]) \in Nat BY <1>2, HasDirs DEF StreamsTyped
  <2>2. n + 1 \in 1 .. Len(written["in"]) BY <1>6, <2>1
  <2>. QED BY <1>2, <2>2, HasDirs, TypesAre DEF TypesRight
<1>8. next = [at |-> "body", fields |-> <<Writes(type).length>>, body |-> taken["in"] + HeaderBytes]
  BY <1>6
<1>9. Writes(type).length \in Nat /\ taken["in"] + HeaderBytes \in Nat /\ HeaderBytes \in Nat
  BY <1>2, <1>7, LengthsKnown DEF HeaderBytes
<1>10. next \in ReaderType BY <1>8, <1>9, PlacesTyped
<1> HIDE DEF next, at
<1>11. /\ peer' = peer
       /\ taken' \in [Dir -> Nat] /\ reader' \in [Dir -> ReaderType] /\ missed' \in [Dir -> BOOLEAN]
       /\ taken'["in"] = taken["in"] + HeaderBytes /\ reader'["in"] = next
       /\ (missed'["in"] <=> missed["in"] \/ HeaderBytes < HeaderBytes)
       /\ \A e \in Dir \ {"in"} :
             taken'[e] = taken[e] /\ reader'[e] = reader[e] /\ missed'[e] = missed[e]
  BY <1>1, <1>2, <1>9, <1>10, HasDirs, Taken
<1>12. /\ written' \in [Dir -> Seq(Msg)]
       /\ \A e \in Dir : \A i \in DOMAIN written'[e] : written'[e][i].type \in Spoken(e)'
       /\ \A e \in Dir : Grows(e)
  BY <1>1, <1>2, <1>11, Unwritten
<1>13. ~missed'["in"]
  <2>1. ~missed["in"] /\ ~(HeaderBytes < HeaderBytes) BY <1>2, <1>9 DEF StreamsTyped
  <2>. QED BY <1>11, <2>1, Zenon
<1>14. StreamsTyped' BY <1>1, <1>2, <1>11, <1>12, <1>13 DEF StreamsTyped
<1>15. n + 1 \in 1 .. Len(written["in"]) + 1 /\ Len(written["in"]) \in Nat
  <2>1. Len(written["in"]) \in Nat BY <1>2, HasDirs DEF StreamsTyped
  <2>. QED BY <2>1
<1>16. Begin("in", n + 1)' = Begin("in", n + 1)
  BY <1>2, <1>12, <1>14, <1>15, HasDirs, BeginStays DEF Grows
<1>17. ReaderAt("in", n)' BY <1>1, <1>5, <1>6, <1>8, <1>11, <1>16 DEF ReaderAt, AtBody
<1>18. Follows("in")' BY <1>1, <1>2, <1>4, <1>12, <1>14, <1>17, HasDirs, ReadsOn
<1>19. AnswersOnce' BY <1>1, <1>11, HasDirs DEF PeersInv, AnswersOnce
<1>. QED BY <1>1, <1>11, <1>12, <1>14, <1>18, <1>19, HasDirs, ReadingStep

LEMMA ServerReadsBodyStep == PeersInv /\ ServerReadsBody => PeersInv'
<1> SUFFICES ASSUME PeersInv, ServerReadsBody PROVE PeersInv' OBVIOUS
<1> DEFINE size == Head(reader["in"].fields)
<1>1. /\ reader["in"].at = "body" /\ size <= Unread("in")
      /\ Take("in", size, size, Header) /\ UNCHANGED alive
  BY DEF ServerReadsBody, Whole
<1>2. StreamsTyped /\ taken["in"] \in Nat /\ InStep("in") /\ Len(written["in"]) \in Nat
  BY HasDirs DEF PeersInv, StreamsTyped, InStep
<1>3. Follows("in") BY <1>2, HasDirs DEF PeersInv
<1>4. PICK n \in 0 .. Len(written["in"]) :
        handled["in"] = SubSeq(Types("in"), 1, n) /\ ReaderAt("in", n)
  BY <1>3 DEF Follows
<1> DEFINE msg == written["in"][n + 1]
<1>5. /\ n < Len(written["in"]) /\ reader["in"].fields = <<Writes(msg.type).length>>
      /\ reader["in"].body = Begin("in", n + 1) + HeaderBytes
      /\ taken["in"] = Begin("in", n + 1) + HeaderBytes
  <2>1. AtBody("in", n) BY <1>1, <1>4, ReaderPlace, Zenon
  <2>. QED BY <2>1 DEF AtBody
<1>6. /\ BodyAt("in", reader["in"].body) = {msg}
      /\ msg \in Msg /\ msg.type \in Spoken("in")
      /\ Begin("in", n + 1) \in Nat
      /\ Begin("in", n + 2) = Begin("in", n + 1) + HeaderBytes + Writes(msg.type).bytes
  BY <1>2, <1>5, HasDirs, BodyThere
<1>7. size = Writes(msg.type).length /\ msg.type \in MsgType BY <1>5, <1>6 DEF Msg
<1>8. /\ handled' = [handled EXCEPT !["in"] = Append(@, msg.type)]
      /\ IF msg.type = "AUTH_SYN" /\ size = Sum(Layout("AUTH_SYN")) THEN ServerSends("AUTH_ACK")
         ELSE IF msg.type = "WSCONNECTED" THEN ServerSends("PUSHSVR_AUTH")
         ELSE UNCHANGED written
  BY <1>6 DEF ServerReadsBody, Handle
<1> HIDE DEF msg, size
<1>9. peer = "web"
  <2>1. SUFFICES ASSUME peer = "android" PROVE FALSE BY <1>2 DEF StreamsTyped
  <2>2. msg.type = "AUTH_SYN" BY <1>6, <2>1 DEF Spoken
  <2>3. size = 46 /\ Writes(msg.type).bytes = 42 BY <1>7, <2>2, TablesAgree
  <2>4. Len(written["in"]) = 1
    <3>1. Len(written["in"]) # 0 BY <1>2, <1>5
    <3>2. written["in"] # <<>> BY <3>1
    <3>. QED BY <2>1, <3>2 DEF PeersInv, AnswersOnce
  <2>5. n = 0 /\ Len(written["in"]) + 1 = n + 2 BY <1>5, <2>4
  <2>6. Begin("in", Len(written["in"]) + 1) = Begin("in", n + 2) BY <2>5
  <2>7. Unread("in") = 42 BY <1>5, <1>6, <2>3, <2>6 DEF Unread, HeaderBytes
  <2>. QED BY <1>1, <2>3, <2>7
<1>10. msg.type \in {"WSCONNECTED", "AUTH_RESULT", "NEWORDERBRD"} BY <1>6, <1>9 DEF Spoken
<1>11. size \in Nat /\ size = Writes(msg.type).bytes BY <1>7, <1>10, LengthsKnown
<1>12. /\ peer' = peer
       /\ taken' \in [Dir -> Nat] /\ reader' \in [Dir -> ReaderType] /\ missed' \in [Dir -> BOOLEAN]
       /\ taken'["in"] = taken["in"] + size /\ reader'["in"] = Header
       /\ (missed'["in"] <=> missed["in"] \/ size < size)
       /\ \A e \in Dir \ {"in"} :
             taken'[e] = taken[e] /\ reader'[e] = reader[e] /\ missed'[e] = missed[e]
  BY <1>1, <1>2, <1>11, HasDirs, PlacesTyped, Taken
<1>13. /\ written' \in [Dir -> Seq(Msg)]
       /\ \A e \in Dir : \A i \in DOMAIN written'[e] : written'[e][i].type \in Spoken(e)'
       /\ \A e \in Dir : Grows(e)
  <2>1. CASE UNCHANGED written BY <1>2, <1>12, <2>1, Unwritten
  <2>2. CASE ServerSends("PUSHSVR_AUTH")
    <3>1. "PUSHSVR_AUTH" \in Spoken("out") BY <1>9, HasDirs DEF Spoken
    <3>. QED BY <1>2, <1>12, <2>2, <3>1, ServerWrites
  <2>. QED BY <1>8, <1>10, <2>1, <2>2
<1>14. ~missed'["in"]
  <2>1. ~missed["in"] /\ ~(size < size) BY <1>2, <1>11 DEF StreamsTyped
  <2>. QED BY <1>12, <2>1, Zenon
<1>15. DOMAIN handled' = Dir /\ handled'["in"] = Append(handled["in"], msg.type)
       /\ handled'["out"] = handled["out"]
  BY <1>2, <1>8, HasDirs DEF StreamsTyped
<1>16. StreamsTyped' BY <1>1, <1>2, <1>12, <1>13, <1>14, <1>15 DEF StreamsTyped
<1>17. taken'["in"] = Begin("in", n + 2)
  BY <1>5, <1>6, <1>11, <1>12 DEF HeaderBytes
<1>18. Follows("in")'
  BY <1>2, <1>4, <1>5, <1>12, <1>13, <1>15, <1>16, <1>17, HasDirs, HandlesOn DEF msg
<1>19. AnswersOnce' BY <1>9, <1>12 DEF AnswersOnce
<1>. QED BY <1>1, <1>12, <1>13, <1>15, <1>16, <1>18, <1>19, HasDirs, ReadingStep

LEMMA AndroidReadsHeaderStep == PeersInv /\ AndroidReadsHeader => PeersInv'
<1> SUFFICES ASSUME PeersInv, AndroidReadsHeader PROVE PeersInv' OBVIOUS
<1> DEFINE at == At("out", taken["out"])
<1> DEFINE first == CHOOSE x \in at : TRUE
<1> DEFINE next == IF at = {} \/ first.junk THEN Lost
                   ELSE [at |-> "body", fields |-> <<Writes(first.type).length>>,
                         body |-> taken["out"] + HeaderBytes]
<1>1. /\ peer = "android" /\ alive /\ reader["out"].at = "header"
      /\ HeaderBytes <= Unread("out") /\ Take("out", HeaderBytes, HeaderBytes, next)
      /\ alive' = ~(at # {} /\ first.junk)
      /\ UNCHANGED <<written, handled>>
  BY DEF AndroidReadsHeader, Whole
<1>2. StreamsTyped /\ taken["out"] \in Nat /\ Len(written["out"]) \in Nat
  BY HasDirs DEF PeersInv, StreamsTyped
<1>3. taken["out"] + HeaderBytes \in Nat /\ HeaderBytes \in Nat BY <1>2 DEF HeaderBytes
<1>4. next \in ReaderType
  <2>1. CASE at = {} \/ first.junk BY <2>1, PlacesTyped
  <2>2. CASE ~(at = {} \/ first.junk)
    <3>1. first \in at BY <2>2
    <3>2. first.type \in MsgType BY <1>2, <3>1, HasDirs, FoundTyped
    <3>3. Writes(first.type).length \in Nat BY <3>2, LengthsKnown
    <3>. QED BY <1>3, <2>2, <3>3, PlacesTyped
  <2>. QED BY <2>1, <2>2
<1>5. next.at = "body" => next.body = taken["out"] + HeaderBytes BY DEF Lost
<1>6. (InStep("out")' /\ at # {}) =>
          next = [at |-> "body", fields |-> <<Writes(first.type).length>>,
                  body |-> taken["out"] + HeaderBytes]
  BY <1>1 DEF InStep
<1> HIDE DEF next, at, first
<1>7. /\ peer' = peer
      /\ taken' \in [Dir -> Nat] /\ reader' \in [Dir -> ReaderType] /\ missed' \in [Dir -> BOOLEAN]
      /\ taken'["out"] = taken["out"] + HeaderBytes /\ reader'["out"] = next
      /\ (missed'["out"] <=> missed["out"] \/ HeaderBytes < HeaderBytes)
      /\ \A e \in Dir \ {"out"} :
            taken'[e] = taken[e] /\ reader'[e] = reader[e] /\ missed'[e] = missed[e]
  BY <1>1, <1>2, <1>3, <1>4, HasDirs, Taken
<1>8. /\ written' \in [Dir -> Seq(Msg)]
      /\ \A e \in Dir : \A i \in DOMAIN written'[e] : written'[e][i].type \in Spoken(e)'
      /\ \A e \in Dir : Grows(e)
  BY <1>1, <1>2, <1>7, Unwritten
<1>9. StreamsTyped'
  <2>1. ~missed'["in"] BY <1>2, <1>7, HasDirs DEF StreamsTyped
  <2>2. alive' \in BOOLEAN BY <1>1
  <2>. QED BY <1>1, <1>2, <1>7, <1>8, <2>1, <2>2 DEF StreamsTyped
<1>10. ASSUME InStep("out")' PROVE Follows("out")'
  <2>1. InStep("out")
    <3>1. ~missed["out"] BY <1>7, <1>10 DEF InStep
    <3>. QED BY <1>1, <3>1 DEF InStep
  <2>2. Follows("out") BY <2>1, HasDirs DEF PeersInv
  <2>3. PICK n \in 0 .. Len(written["out"]) :
          handled["out"] = SubSeq(Types("out"), 1, n) /\ ReaderAt("out", n)
    BY <2>2 DEF Follows
  <2>4. taken["out"] = Begin("out", n + 1) BY <1>1, <2>3, ReaderPlace DEF AtStart
  <2>5. n < Len(written["out"]) /\ at = {written["out"][n + 1]}
    BY <1>1, <1>2, <2>4, HasDirs, NextWritten DEF at
  <2>6. first = written["out"][n + 1] BY <2>5 DEF first
  <2>7. next = [at |-> "body", fields |-> <<Writes(written["out"][n + 1].type).length>>,
                body |-> taken["out"] + HeaderBytes]
    BY <1>6, <1>10, <2>5, <2>6
  <2>8. n + 1 \in 1 .. Len(written["out"]) + 1 BY <1>2
  <2>9. Begin("out", n + 1)' = Begin("out", n + 1)
    BY <1>2, <1>8, <1>9, <2>8, HasDirs, BeginStays DEF Grows
  <2>10. ReaderAt("out", n)' BY <1>1, <1>7, <2>4, <2>5, <2>7, <2>9 DEF ReaderAt, AtBody
  <2>. QED BY <1>1, <1>2, <1>8, <1>9, <2>3, <2>10, HasDirs, ReadsOn
<1>11. AnswersOnce'
  <2>1. reader'["out"].at = "body" => taken'["out"] = reader'["out"].body BY <1>5, <1>7
  <2>2. written["in"] = <<>> \/ (Len(written["in"]) = 1 /\ taken["out"] > HeaderBytes)
    BY <1>1 DEF PeersInv, AnswersOnce
  <2>3. taken["out"] > HeaderBytes => taken'["out"] > HeaderBytes BY <1>2, <1>3, <1>7
  <2>4. \A i \in DOMAIN written["out"] : written["out"][i].type = "SVR_READY" => i = 1
    BY <1>1 DEF PeersInv, AnswersOnce
  <2>. QED BY <1>1, <2>1, <2>2, <2>3, <2>4 DEF AnswersOnce
<1>. QED BY <1>1, <1>7, <1>8, <1>9, <1>10, <1>11, HasDirs, ReadingStep

LEMMA AndroidReadsBodyStep == PeersInv /\ AndroidReadsBody => PeersInv'
<1> SUFFICES ASSUME PeersInv, AndroidReadsBody PROVE PeersInv' OBVIOUS
<1> DEFINE size == Head(reader["out"].fields)
<1>1. PICK k \in 1 .. size : Take("out", size, k, Header)
  BY DEF AndroidReadsBody, Some
<1>2. peer = "android" /\ alive /\ reader["out"].at = "body" /\ UNCHANGED alive
  BY DEF AndroidReadsBody
<1>3. PICK m \in BodyAt("out", reader["out"].body) :
        IF taken'["out"] = taken["out"] + 1 THEN UNCHANGED <<written, handled>>
        ELSE /\ Handle("out", m.type)
             /\ IF m.type = "SVR_READY" THEN PeerSends("AUTH_SYN") ELSE UNCHANGED written
  BY DEF AndroidReadsBody
<1>4. StreamsTyped /\ taken["out"] \in Nat /\ Len(written["out"]) \in Nat
  BY HasDirs DEF PeersInv, StreamsTyped
<1>5. size \in Nat
  <2>1. reader["out"] \in ReaderType BY <1>4, HasDirs DEF StreamsTyped
  <2>2. reader["out"].fields \in Seq(Nat) /\ Len(reader["out"].fields) = 1 BY <1>2, <2>1 DEF ReaderType
  <2>. QED BY <2>2
<1> HIDE DEF size
<1>6. k \in Nat /\ k >= 1 BY <1>5
<1>7. /\ peer' = peer
      /\ taken' \in [Dir -> Nat] /\ reader' \in [Dir -> ReaderType] /\ missed' \in [Dir -> BOOLEAN]
      /\ taken'["out"] = taken["out"] + k /\ reader'["out"] = Header
      /\ (missed'["out"] <=> missed["out"] \/ k < size)
      /\ \A e \in Dir \ {"out"} :
            taken'[e] = taken[e] /\ reader'[e] = reader[e] /\ missed'[e] = missed[e]
  BY <1>1, <1>4, <1>5, <1>6, HasDirs, PlacesTyped, Taken
<1>8. /\ written' \in [Dir -> Seq(Msg)]
      /\ \A e \in Dir : \A i \in DOMAIN written'[e] : written'[e][i].type \in Spoken(e)'
      /\ \A e \in Dir : Grows(e)
      /\ written'["out"] = written["out"]
  <2>1. CASE UNCHANGED written BY <1>4, <1>7, <2>1, Unwritten
  <2>2. CASE PeerSends("AUTH_SYN")
    <3>1. "AUTH_SYN" \in Spoken("in") BY <1>2, HasDirs DEF Spoken
    <3>. QED BY <1>4, <1>7, <2>2, <3>1, PeerWrites
  <2>. QED BY <1>3, <2>1, <2>2
<1>9. DOMAIN handled' = Dir /\ handled'["in"] = handled["in"]
  BY <1>3, <1>4, HasDirs DEF Handle, StreamsTyped
<1>10. StreamsTyped'
  <2>1. ~missed'["in"] BY <1>4, <1>7, HasDirs DEF StreamsTyped
  <2>. QED BY <1>2, <1>4, <1>7, <1>8, <1>9, <2>1 DEF StreamsTyped
<1>11. ASSUME InStep("out")' PROVE Follows("out")'
  <2>1. InStep("out") /\ ~(k < size)
    <3>1. ~missed["out"] /\ ~(k < size) BY <1>7, <1>11 DEF InStep
    <3>. QED BY <1>2, <3>1 DEF InStep
  <2>2. Follows("out") /\ k = size BY <1>5, <2>1, HasDirs DEF PeersInv
  <2>3. PICK n \in 0 .. Len(written["out"]) :
          handled["out"] = SubSeq(Types("out"), 1, n) /\ ReaderAt("out", n)
    BY <2>2 DEF Follows
  <2> DEFINE msg == written["out"][n + 1]
  <2>4. /\ n < Len(written["out"]) /\ reader["out"].fields = <<Writes(msg.type).length>>
        /\ reader["out"].body = Begin("out", n + 1) + HeaderBytes
        /\ taken["out"] = Begin("out", n + 1) + HeaderBytes
    <3>1. AtBody("out", n) BY <1>2, <2>3, ReaderPlace, Zenon
    <3>. QED BY <3>1 DEF AtBody
  <2>5. /\ BodyAt("out", reader["out"].body) = {msg}
        /\ msg \in Msg /\ msg.type \in Spoken("out")
        /\ Begin("out", n + 1) \in Nat
        /\ Begin("out", n + 2) = Begin("out", n + 1) + HeaderBytes + Writes(msg.type).bytes
    BY <1>4, <2>4, HasDirs, BodyThere
  <2>6. size = Writes(msg.type).length /\ m = msg BY <2>4, <2>5 DEF size
  <2> HIDE DEF msg
  <2>7. msg.type \in MsgType \ {"AUTH_SYN"} BY <1>2, <2>5, HasDirs DEF Spoken, MsgType
  <2>8. size = Writes(msg.type).bytes /\ size > 1 BY <2>6, <2>7, LengthsKnown
  <2>9. taken'["out"] # taken["out"] + 1 BY <1>4, <1>5, <1>7, <2>2, <2>8
  <2>10. handled'["out"] = Append(handled["out"], msg.type)
    BY <1>3, <1>4, <2>6, <2>9, HasDirs DEF Handle, StreamsTyped
  <2>11. taken'["out"] = Begin("out", n + 2)
    BY <1>5, <1>7, <2>2, <2>4, <2>5, <2>8 DEF HeaderBytes
  <2>. QED BY <1>4, <1>7, <1>8, <1>10, <2>3, <2>4, <2>10, <2>11, HasDirs, HandlesOn DEF msg
<1>12. AnswersOnce'
  <2>1. reader'["out"].at # "body" BY <1>7 DEF Header
  <2>2. /\ written["in"] = <<>> \/ (Len(written["in"]) = 1 /\ taken["out"] > HeaderBytes)
        /\ \A i \in DOMAIN written["out"] : written["out"][i].type = "SVR_READY" => i = 1
        /\ taken["out"] = reader["out"].body
    BY <1>2 DEF PeersInv, AnswersOnce
  <2>3. CASE written' = written
    <3>1. taken["out"] > HeaderBytes => taken'["out"] > HeaderBytes
      BY <1>4, <1>6, <1>7 DEF HeaderBytes
    <3>. QED BY <2>1, <2>2, <2>3, <3>1 DEF AnswersOnce
  <2>4. CASE m.type = "SVR_READY" /\ PeerSends("AUTH_SYN")
    <3>1. PICK i \in DOMAIN written["out"] :
            m = written["out"][i] /\ Begin("out", i) + HeaderBytes = reader["out"].body
      BY DEF BodyAt
    <3>2. i = 1 BY <2>2, <2>4, <3>1
    <3>3. Begin("out", 1) = 0 BY <1>4, HasDirs, BeginSteps
    <3>4. taken["out"] = HeaderBytes BY <2>2, <3>1, <3>2, <3>3 DEF HeaderBytes
    <3>5. written["in"] = <<>> /\ taken'["out"] > HeaderBytes
      BY <1>6, <1>7, <2>2, <3>4 DEF HeaderBytes
    <3>6. "AUTH_SYN" \in Spoken("in") BY <1>2, HasDirs DEF Spoken
    <3>7. Len(written'["in"]) = Len(written["in"]) + 1 BY <1>4, <1>7, <2>4, <3>6, PeerWrites
    <3>8. Len(written'["in"]) = 1 BY <3>5, <3>7
    <3>. QED BY <1>8, <2>1, <2>2, <3>5, <3>8 DEF AnswersOnce
  <2>. QED BY <1>3, <2>3, <2>4
<1>. QED BY <1>2, <1>7, <1>8, <1>9, <1>10, <1>11, <1>12, HasDirs, ReadingStep

\* What a read of the web server leaves to be shown.
LEMMA WebReading ==
    ASSUME PeersInv, peer = "web", alive, NEW size \in Nat, NEW k \in Nat, NEW next \in ReaderType,
           Take("out", size, k, next), UNCHANGED <<written, handled>>, alive' \in BOOLEAN
    PROVE  /\ StreamsTyped /\ StreamsTyped' /\ taken["out"] \in Nat /\ Len(written["out"]) \in Nat
           /\ peer' = peer /\ taken'["out"] = taken["out"] + k /\ reader'["out"] = next
           /\ \A e \in Dir : Grows(e)
           /\ InStep("out")' => InStep("out") /\ ~(k < size)
           /\ (InStep("out")' => Follows("out")') => PeersInv'
<1>1. StreamsTyped /\ taken["out"] \in Nat /\ Len(written["out"]) \in Nat
  BY HasDirs DEF PeersInv, StreamsTyped
<1>2. /\ peer' = peer
      /\ taken' \in [Dir -> Nat] /\ reader' \in [Dir -> ReaderType] /\ missed' \in [Dir -> BOOLEAN]
      /\ taken'["out"] = taken["out"] + k /\ reader'["out"] = next
      /\ (missed'["out"] <=> missed["out"] \/ k < size)
      /\ \A e \in Dir \ {"out"} :
            taken'[e] = taken[e] /\ reader'[e] = reader[e] /\ missed'[e] = missed[e]
  BY <1>1, HasDirs, Taken
<1>3. /\ written' \in [Dir -> Seq(Msg)]
      /\ \A e \in Dir : \A i \in DOMAIN written'[e] : written'[e][i].type \in Spoken(e)'
      /\ \A e \in Dir : Grows(e)
  BY <1>1, <1>2, Unwritten
<1>4. StreamsTyped'
  <2>1. ~missed'["in"] BY <1>1, <1>2, HasDirs DEF StreamsTyped
  <2>. QED BY <1>1, <1>2, <1>3, <2>1 DEF StreamsTyped
<1>5. ASSUME InStep("out")' PROVE InStep("out") /\ ~(k < size)
  <2>1. ~missed["out"] /\ ~(k < size) BY <1>2, <1>5 DEF InStep
  <2>. QED BY <2>1 DEF InStep
<1>6. AnswersOnce' BY <1>2 DEF AnswersOnce
<1>7. (InStep("out")' => Follows("out")') => PeersInv'
  BY <1>2, <1>3, <1>4, <1>6, HasDirs, ReadingStep
<1>. QED BY <1>1, <1>2, <1>3, <1>4, <1>5, <1>7

LEMMA WebReadsHeaderStep == PeersInv /\ WebReadsHeader => PeersInv'
<1> SUFFICES ASSUME PeersInv, WebReadsHeader PROVE PeersInv' OBVIOUS
<1> DEFINE next == [at |-> "type", fields |-> <<1, 1>>, body |-> taken["out"] + HeaderBytes]
<1>1. PICK k \in 1 .. HeaderBytes : k <= Unread("out") /\ Take("out", HeaderBytes, k, next)
  BY DEF WebReadsHeader, Some
<1>2. /\ peer = "web" /\ alive /\ reader["out"].at = "header"
      /\ UNCHANGED <<written, handled, alive>>
  BY DEF WebReadsHeader
<1>3. HeaderBytes \in Nat /\ k \in Nat BY DEF HeaderBytes
<1>4. next \in ReaderType
  <2>1. taken["out"] + HeaderBytes \in Nat BY <1>3, HasDirs DEF PeersInv, StreamsTyped
  <2>2. <<1, 1>> \in Seq(Nat) OBVIOUS
  <2>. QED BY <2>1, <2>2, PlacesTyped
<1>5. alive' \in BOOLEAN BY <1>2
<1> HIDE DEF next
<1>6. /\ StreamsTyped /\ StreamsTyped' /\ taken["out"] \in Nat /\ Len(written["out"]) \in Nat
      /\ peer' = peer /\ taken'["out"] = taken["out"] + k /\ reader'["out"] = next
      /\ \A e \in Dir : Grows(e)
      /\ InStep("out")' => InStep("out") /\ ~(k < HeaderBytes)
      /\ (InStep("out")' => Follows("out")') => PeersInv'
  BY <1>1, <1>2, <1>3, <1>4, <1>5, WebReading
<1>7. ASSUME InStep("out")' PROVE Follows("out")'
  <2>1. Follows("out") /\ k = HeaderBytes BY <1>1, <1>3, <1>6, <1>7, HasDirs DEF PeersInv
  <2>2. PICK n \in 0 .. Len(written["out"]) :
          handled["out"] = SubSeq(Types("out"), 1, n) /\ ReaderAt("out", n)
    BY <2>1 DEF Follows
  <2>3. taken["out"] = Begin("out", n + 1) BY <1>2, <2>2, ReaderPlace DEF AtStart
  <2>4. n < Len(written["out"]) BY <1>1, <1>6, <2>1, <2>3, HasDirs, NextWritten
  <2>5. n + 1 \in 1 .. Len(written["out"]) + 1 BY <1>6
  <2>6. Begin("out", n + 1)' = Begin("out", n + 1)
    BY <1>6, <2>5, HasDirs, BeginStays DEF Grows
  <2>7. ReaderAt("out", n)' BY <1>2, <1>6, <2>1, <2>3, <2>4, <2>6 DEF ReaderAt, AtType, next
  <2>. QED BY <1>2, <1>6, <2>2, <2>7, HasDirs, ReadsOn
<1>. QED BY <1>6, <1>7

\* What is read of a message after its type, and after each of its fields.
LEMMA FieldsLeft ==
    ASSUME NEW type \in {"PUSHSVR_AUTH", "S2W_ORDER"}
    PROVE  LET table == WebReads[type] IN
           /\ table \in Seq(Nat) /\ Len(table) \in Nat /\ Len(table) >= 3
           /\ Tail(Tail(table)) \in Seq(Nat)
           /\ Tail(Tail(table)) = SubSeq(table, 3, Len(table))
           /\ SumTo(table, 2) = 2
           /\ SumTo(table, Len(table)) = Writes(type).bytes
<1> DEFINE table == WebReads[type]
<1>1. /\ table \in Seq(Nat) /\ Len(table) \in Nat /\ Len(table) >= 3
      /\ table[1] = 1 /\ table[2] = 1 /\ Sum(table) = Writes(type).bytes
  <2>1. /\ WebReads[type] \in Seq(Nat) /\ Len(WebReads[type]) >= 3
        /\ WebReads[type][1] = 1 /\ WebReads[type][2] = 1
        /\ Sum(WebReads[type]) = Writes(type).bytes
    BY TablesAgree, Zenon
  <2>2. Len(WebReads[type]) \in Nat BY <2>1
  <2>. QED BY <2>1, <2>2
<1> HIDE DEF table
<1>2. 1 <= Len(table) /\ 2 <= Len(table) BY <1>1
<1>3. SumTo(table, 0) = 0 BY Zenon, <1>1, FirstSums
<1>4. SumTo(table, 1) = SumTo(table, 0) + table[1] BY Zenon, <1>1, <1>2, FirstSums
<1>5. SumTo(table, 2) = SumTo(table, 1) + table[2] BY Zenon, <1>1, <1>2, FirstSums
<1>6. /\ Tail(Tail(table)) \in Seq(Nat) /\ Len(Tail(Tail(table))) = Len(table) - 2
      /\ \A i \in 1 .. Len(table) - 2 : Tail(Tail(table))[i] = table[i + 2]
  <2> DEFINE rest == Tail(table)
  <2>1. /\ rest \in Seq(Nat) /\ Len(rest) = Len(table) - 1
        /\ \A i \in 1 .. Len(table) - 1 : rest[i] = table[i + 1]
    BY <1>1
  <2> HIDE DEF rest
  <2>2. /\ Tail(rest) \in Seq(Nat) /\ Len(Tail(rest)) = Len(rest) - 1
        /\ \A i \in 1 .. Len(rest) - 1 : Tail(rest)[i] = rest[i + 1]
    BY <1>1, <2>1
  <2>3. ASSUME NEW i \in 1 .. Len(table) - 2 PROVE Tail(rest)[i] = table[i + 2]
    <3>1. i \in 1 .. Len(rest) - 1 /\ i + 1 \in 1 .. Len(table) - 1 /\ (i + 1) + 1 = i + 2
      BY <1>1, <2>1
    <3>. QED BY <2>1, <2>2, <3>1
  <2>4. Len(Tail(rest)) = Len(table) - 2 BY <1>1, <2>1, <2>2
  <2>. QED BY <2>2, <2>3, <2>4 DEF rest
<1>7. /\ SubSeq(table, 3, Len(table)) \in Seq(Nat)
      /\ Len(SubSeq(table, 3, Len(table))) = Len(table) - 2
      /\ \A i \in 1 .. Len(table) - 2 : SubSeq(table, 3, Len(table))[i] = table[i + 2]
  BY <1>1
<1>8. Tail(Tail(table)) = SubSeq(table, 3, Len(table)) BY <1>6, <1>7, SeqEqual
<1>9. SumTo(table, 2) = 2 BY <1>1, <1>3, <1>4, <1>5
<1>. QED BY <1>1, <1>6, <1>8, <1>9 DEF table, Sum

LEMMA WebReadsTypeStep == PeersInv /\ WebReadsType => PeersInv'
<1> SUFFICES ASSUME PeersInv, WebReadsType PROVE PeersInv' OBVIOUS
<1> DEFINE at == BodyAt("out", taken["out"])
<1> DEFINE first == CHOOSE m \in at : TRUE
<1> DEFINE next == IF at = {} THEN Lost
                   ELSE [at |-> "fields", body |-> taken["out"],
                         fields |-> Tail(Tail(WebReads[first.type]))]
<1>1. /\ peer = "web" /\ alive /\ reader["out"].at = "type"
      /\ Take("out", 2, 2, next) /\ UNCHANGED <<written, handled, alive>>
  BY DEF WebReadsType, Whole
<1>2. StreamsTyped /\ taken["out"] \in Nat BY HasDirs DEF PeersInv, StreamsTyped
<1>3. next \in ReaderType
  <2>1. CASE at = {} BY <2>1, PlacesTyped
  <2>2. CASE at # {}
    <3>1. first \in at BY <2>2
    <3>2. first.type \in Spoken("out") BY <1>2, <3>1, HasDirs, FoundTyped
    <3>3. first.type \in {"PUSHSVR_AUTH", "S2W_ORDER"} BY <1>1, <3>2 DEF Spoken
    <3>4. Tail(Tail(WebReads[first.type])) \in Seq(Nat) BY <3>3, FieldsLeft
    <3>. QED BY <1>2, <2>2, <3>4, PlacesTyped
  <2>. QED BY <2>1, <2>2
<1>4. alive' \in BOOLEAN BY <1>1, <1>2 DEF StreamsTyped
<1> HIDE DEF next, at, first
<1>5. /\ StreamsTyped /\ StreamsTyped' /\ taken["out"] \in Nat /\ Len(written["out"]) \in Nat
      /\ peer' = peer /\ taken'["out"] = taken["out"] + 2 /\ reader'["out"] = next
      /\ \A e \in Dir : Grows(e)
      /\ InStep("out")' => InStep("out") /\ ~(2 < 2)
      /\ (InStep("out")' => Follows("out")') => PeersInv'
  BY <1>1, <1>3, <1>4, WebReading
<1>6. ASSUME InStep("out")' PROVE Follows("out")'
  <2>1. Follows("out") BY <1>5, <1>6, HasDirs DEF PeersInv
  <2>2. PICK n \in 0 .. Len(written["out"]) :
          handled["out"] = SubSeq(Types("out"), 1, n) /\ ReaderAt("out", n)
    BY <2>1 DEF Follows
  <2> DEFINE msg == written["out"][n + 1]
  <2>3. n < Len(written["out"]) /\ taken["out"] = Begin("out", n + 1) + HeaderBytes
    BY <1>1, <2>2, ReaderPlace DEF AtType
  <2>4. at = {msg} /\ msg.type \in Spoken("out") BY <1>2, <2>3, HasDirs, BodyThere DEF at
  <2>5. first = msg BY <2>4 DEF first
  <2>6. msg.type \in {"PUSHSVR_AUTH", "S2W_ORDER"} BY <1>1, <2>4 DEF Spoken
  <2> DEFINE table == WebReads[msg.type]
  <2> HIDE DEF msg
  <2>7. /\ table \in Seq(Nat) /\ Len(table) \in Nat /\ Len(table) >= 3
        /\ Tail(Tail(table)) = SubSeq(table, 3, Len(table)) /\ SumTo(table, 2) = 2
    BY <2>6, FieldsLeft
  <2>8. next = [at |-> "fields", fields |-> SubSeq(table, 3, Len(table)),
                body |-> Begin("out", n + 1) + HeaderBytes]
    BY <2>3, <2>4, <2>5, <2>7 DEF next
  <2> HIDE DEF table
  <2>9. n + 1 \in 1 .. Len(written["out"]) + 1 BY <1>5
  <2>10. Begin("out", n + 1)' = Begin("out", n + 1)
    BY <1>5, <2>9, HasDirs, BeginStays DEF Grows
  <2>11. 3 \in 3 .. Len(table) + 1 /\ 3 - 1 = 2 BY <2>7
  <2>12. taken'["out"] = (Begin("out", n + 1) + HeaderBytes) + SumTo(table, 3 - 1)
    BY <1>5, <2>3, <2>7, <2>11
  <2>13. written'["out"][n + 1].type = msg.type /\ n < Len(written'["out"]) BY <1>1, <2>3 DEF msg
  <2>14. \E k \in 3 .. Len(table) + 1 :
            /\ reader'["out"] = [at |-> "fields", fields |-> SubSeq(table, k, Len(table)),
                                 body |-> Begin("out", n + 1)' + HeaderBytes]
            /\ taken'["out"] = (Begin("out", n + 1)' + HeaderBytes) + SumTo(table, k - 1)
    BY <1>5, <2>8, <2>10, <2>11, <2>12
  <2>15. peer' = "web" BY <1>1, <1>5
  <2>16. ReaderAt("out", n)' BY <2>13, <2>14, <2>15 DEF ReaderAt, AtField, table
  <2>. QED BY <1>1, <1>5, <2>2, <2>16, HasDirs, ReadsOn
<1>. QED BY <1>5, <1>6

LEMMA WebReadsFieldStep == PeersInv /\ WebReadsField => PeersInv'
<1> SUFFICES ASSUME PeersInv, WebReadsField PROVE PeersInv' OBVIOUS
<1> DEFINE fs == reader["out"].fields
<1> DEFINE next == [at |-> "fields", fields |-> Tail(fs), body |-> reader["out"].body]
<1>1. /\ peer = "web" /\ alive /\ reader["out"].at = "fields" /\ fs # <<>>
      /\ UNCHANGED <<written, handled>>
  BY DEF WebReadsField
<1>2. PICK k \in 1 .. Head(fs) : Take("out", Head(fs), k, next)
  BY DEF WebReadsField, Some
<1>3. StreamsTyped /\ reader["out"] \in ReaderType BY HasDirs DEF PeersInv, StreamsTyped
<1>4. fs \in Seq(Nat) /\ reader["out"].body \in Nat BY <1>3 DEF ReaderType
<1>5. Head(fs) \in Nat /\ Tail(fs) \in Seq(Nat) /\ k \in Nat BY <1>1, <1>4
<1>6. next = [at |-> "fields", fields |-> Tail(fs), body |-> reader["out"].body] OBVIOUS
<1>7. next \in ReaderType BY <1>4, <1>5, <1>6, PlacesTyped
<1>8. alive' \in BOOLEAN BY DEF WebReadsField
<1> HIDE DEF next, fs
<1>9. /\ StreamsTyped /\ StreamsTyped' /\ taken["out"] \in Nat /\ Len(written["out"]) \in Nat
      /\ peer' = peer /\ taken'["out"] = taken["out"] + k /\ reader'["out"] = next
      /\ \A e \in Dir : Grows(e)
      /\ InStep("out")' => InStep("out") /\ ~(k < Head(fs))
      /\ (InStep("out")' => Follows("out")') => PeersInv'
  BY <1>1, <1>2, <1>5, <1>7, <1>8, WebReading
<1>10. ASSUME InStep("out")' PROVE Follows("out")'
  <2>1. Follows("out") /\ k = Head(fs) BY <1>2, <1>5, <1>9, <1>10, HasDirs DEF PeersInv
  <2>2. PICK n \in 0 .. Len(written["out"]) :
          handled["out"] = SubSeq(Types("out"), 1, n) /\ ReaderAt("out", n)
    BY <2>1 DEF Follows
  <2> DEFINE msg == written["out"][n + 1]
  <2> DEFINE table == WebReads[msg.type]
  <2> DEFINE body == Begin("out", n + 1) + HeaderBytes
  <2>3. PICK j \in 3 .. Len(table) + 1 :
          /\ reader["out"] = [at |-> "fields", fields |-> SubSeq(table, j, Len(table)), body |-> body]
          /\ taken["out"] = body + SumTo(table, j - 1)
    <3>1. AtField("out", n) BY <1>1, <2>2, ReaderPlace, Zenon
    <3>. QED BY <3>1 DEF AtField
  <2>4. n < Len(written["out"]) BY <1>1, <2>2, ReaderPlace DEF AtField
  <2>5. msg.type \in Spoken("out") /\ Begin("out", n + 1) \in Nat BY <1>3, <2>4, HasDirs, BodyThere
  <2>6. msg.type \in {"PUSHSVR_AUTH", "S2W_ORDER"} BY <1>1, <2>5 DEF Spoken
  <2> HIDE DEF msg
  <2>7. table \in Seq(Nat) /\ Len(table) \in Nat /\ Len(table) >= 3 BY <2>6, FieldsLeft
  <2> HIDE DEF table
  <2>8. fs = SubSeq(table, j, Len(table)) BY <2>3 DEF fs
  <2>9. j \in 1 .. Len(table)
    <3>1. j # Len(table) + 1
      <4>1. SUFFICES ASSUME j = Len(table) + 1 PROVE FALSE OBVIOUS
      <4>2. SubSeq(table, j, Len(table)) = <<>> BY <2>7, <4>1
      <4>. QED BY <1>1, <2>8, <4>2
    <3>. QED BY <2>7, <3>1
  <2>10. /\ Head(fs) = table[j] /\ Len(fs) = Len(table) - j + 1
         /\ \A i \in 1 .. Len(table) - j + 1 : fs[i] = table[i + j - 1]
    BY <2>7, <2>8, <2>9
  <2>11. Tail(fs) = SubSeq(table, j + 1, Len(table))
    <3>1. /\ Tail(fs) \in Seq(Nat) /\ Len(Tail(fs)) = Len(table) - j
          /\ \A i \in 1 .. Len(table) - j : Tail(fs)[i] = fs[i + 1]
      BY <1>1, <1>4, <2>7, <2>9, <2>10, SMTT(30)
    <3>2. /\ SubSeq(table, j + 1, Len(table)) \in Seq(Nat)
          /\ Len(SubSeq(table, j + 1, Len(table))) = Len(table) - j
          /\ \A i \in 1 .. Len(table) - j : SubSeq(table, j + 1, Len(table))[i] = table[i + j]
      BY <2>7, <2>9
    <3>3. ASSUME NEW i \in 1 .. Len(table) - j
          PROVE  Tail(fs)[i] = SubSeq(table, j + 1, Len(table))[i]
      <4>1. i + 1 \in 1 .. Len(table) - j + 1 /\ (i + 1) + j - 1 = i + j BY <2>7, <2>9
      <4>. QED BY <2>10, <3>1, <3>2, <4>1
    <3>. QED BY <3>1, <3>2, <3>3, SeqEqual
  <2>12. SumTo(table, j) = SumTo(table, j - 1) + table[j] BY <2>7, <2>9, SumStep
  <2>13. SumTo(table, j - 1) \in Nat /\ table[j] \in Nat
    <3>1. j - 1 \in 0 .. Len(table) BY <2>7, <2>9
    <3>2. SumTo(table, j - 1) \in Nat BY <2>7, <3>1, SumStep, Zenon
    <3>3. table[j] \in Nat BY <2>7, <2>9
    <3>. QED BY <3>2, <3>3
  <2>14. body \in Nat BY <2>5 DEF HeaderBytes
  <2> HIDE DEF body
  <2>15. taken'["out"] = body + SumTo(table, j) BY <1>9, <2>1, <2>3, <2>10, <2>12, <2>13, <2>14
  <2>16. next = [at |-> "fields", fields |-> SubSeq(table, j + 1, Len(table)), body |-> body]
    <3>1. reader["out"].body = body BY <2>3
    <3>. QED BY <1>6, <2>11, <3>1, Zenon
  <2>17. n + 1 \in 1 .. Len(written["out"]) + 1 BY <1>9
  <2>18. Begin("out", n + 1)' = Begin("out", n + 1)
    BY <1>9, <2>17, HasDirs, BeginStays DEF Grows
  <2>19. j + 1 \in 3 .. Len(table) + 1 /\ (j + 1) - 1 = j BY <2>7, <2>9
  <2>20. written'["out"][n + 1].type = msg.type /\ n < Len(written'["out"]) BY <1>1, <2>4 DEF msg
  <2>21. body = Begin("out", n + 1)' + HeaderBytes BY <2>18 DEF body
  <2>22. \E i \in 3 .. Len(table) + 1 :
            /\ reader'["out"] = [at |-> "fields", fields |-> SubSeq(table, i, Len(table)),
                                 body |-> Begin("out", n + 1)' + HeaderBytes]
            /\ taken'["out"] = (Begin("out", n + 1)' + HeaderBytes) + SumTo(table, i - 1)
    BY <1>9, <2>15, <2>16, <2>19, <2>21
  <2>23. peer' = "web" BY <1>1, <1>9
  <2>24. ReaderAt("out", n)' BY <2>20, <2>22, <2>23 DEF ReaderAt, AtField, table
  <2>. QED BY <1>1, <1>9, <2>2, <2>24, HasDirs, ReadsOn
<1>. QED BY <1>9, <1>10

LEMMA WebHandlesStep == PeersInv /\ WebHandles => PeersInv'
<1> SUFFICES ASSUME PeersInv, WebHandles PROVE PeersInv' OBVIOUS
<1>1. /\ peer = "web" /\ alive /\ reader["out"].at = "fields" /\ reader["out"].fields = <<>>
      /\ reader' = [reader EXCEPT !["out"] = Header]
      /\ UNCHANGED <<peer, taken, missed, alive>>
  BY DEF WebHandles
<1>2. PICK m \in BodyAt("out", reader["out"].body) :
        /\ Handle("out", m.type)
        /\ PeerSends(IF m.type = "PUSHSVR_AUTH" THEN "AUTH_RESULT" ELSE "NEWORDERBRD")
  BY DEF WebHandles
<1>3. StreamsTyped /\ Len(written["out"]) \in Nat BY HasDirs DEF PeersInv, StreamsTyped
<1>4. PICK answer : answer = IF m.type = "PUSHSVR_AUTH" THEN "AUTH_RESULT" ELSE "NEWORDERBRD" OBVIOUS
<1>5. answer \in Spoken("in") /\ PeerSends(answer) BY <1>1, <1>2, <1>4, HasDirs DEF Spoken
<1>6. /\ written' \in [Dir -> Seq(Msg)]
      /\ \A e \in Dir : \A i \in DOMAIN written'[e] : written'[e][i].type \in Spoken(e)'
      /\ \A e \in Dir : Grows(e)
  BY <1>1, <1>3, <1>5, PeerWrites
<1>7. /\ reader' \in [Dir -> ReaderType] /\ reader'["out"] = Header /\ reader'["in"] = reader["in"]
  BY <1>1, <1>3, HasDirs, PlacesTyped DEF StreamsTyped
<1>8. /\ DOMAIN handled' = Dir /\ handled'["in"] = handled["in"]
      /\ handled'["out"] = Append(handled["out"], m.type)
  BY <1>2, <1>3, HasDirs DEF Handle, StreamsTyped
<1>9. StreamsTyped' BY <1>1, <1>3, <1>6, <1>7, <1>8 DEF StreamsTyped
<1>10. ASSUME InStep("out")' PROVE Follows("out")'
  <2>1. InStep("out") BY <1>1, <1>10 DEF InStep
  <2>2. Follows("out") BY <2>1, HasDirs DEF PeersInv
  <2>3. PICK n \in 0 .. Len(written["out"]) :
          handled["out"] = SubSeq(Types("out"), 1, n) /\ ReaderAt("out", n)
    BY <2>2 DEF Follows
  <2> DEFINE msg == written["out"][n + 1]
  <2> DEFINE table == WebReads[msg.type]
  <2> DEFINE body == Begin("out", n + 1) + HeaderBytes
  <2>4. PICK j \in 3 .. Len(table) + 1 :
          /\ reader["out"] = [at |-> "fields", fields |-> SubSeq(table, j, Len(table)), body |-> body]
          /\ taken["out"] = body + SumTo(table, j - 1)
    <3>1. AtField("out", n) BY <1>1, <2>3, ReaderPlace, Zenon
    <3>. QED BY <3>1 DEF AtField
  <2>5. n < Len(written["out"]) BY <1>1, <2>3, ReaderPlace DEF AtField
  <2>6. /\ BodyAt("out", body) = {msg} /\ msg.type \in Spoken("out") /\ Begin("out", n + 1) \in Nat
        /\ Begin("out", n + 2) = body + Writes(msg.type).bytes
    BY <1>3, <2>5, HasDirs, BodyThere
  <2>7. msg.type \in {"PUSHSVR_AUTH", "S2W_ORDER"} BY <1>1, <2>6 DEF Spoken
  <2>8. m = msg BY <2>4, <2>6
  <2> HIDE DEF msg, body
  <2>9. /\ table \in Seq(Nat) /\ Len(table) \in Nat /\ Len(table) >= 3
        /\ SumTo(table, Len(table)) = Writes(msg.type).bytes
    BY <2>7, FieldsLeft
  <2> HIDE DEF table
  <2>10. j - 1 = Len(table)
    <3>1. SUFFICES ASSUME j <= Len(table) PROVE FALSE BY <2>9
    <3>2. j \in 1 .. Len(table) BY <2>9, <3>1
    <3>3. Len(SubSeq(table, j, Len(table))) = Len(table) - j + 1 BY <2>9, <3>2
    <3>4. SubSeq(table, j, Len(table)) = <<>> BY <1>1, <2>4
    <3>. QED BY <2>9, <3>2, <3>3, <3>4
  <2>11. taken'["out"] = Begin("out", n + 2) BY <1>1, <2>4, <2>6, <2>9, <2>10
  <2>. QED BY <1>3, <1>6, <1>7, <1>8, <1>9, <2>3, <2>5, <2>8, <2>11, HasDirs, HandlesOn DEF msg
<1>11. AnswersOnce' BY <1>1 DEF AnswersOnce
<1>. QED BY <1>1, <1>6, <1>7, <1>8, <1>9, <1>10, <1>11, HasDirs, ReadingStep

-----------------------------------------------------------------------------
LEMMA PeersInit == StreamsInit => PeersInv
<1> SUFFICES ASSUME StreamsInit PROVE PeersInv OBVIOUS
<1>1. StreamsTyped BY TypedInit
<1>2. AnswersOnce BY HasDirs DEF StreamsInit, AnswersOnce, Header
<1>3. ASSUME NEW d \in Dir PROVE Follows(d)
  <2>1. /\ written[d] = <<>> /\ taken[d] = 0 /\ reader[d] = Header /\ handled[d] = <<>>
    BY DEF StreamsInit
  <2>2. Begin(d, 1) = 0 BY <1>1, BeginSteps
  <2>3. Types(d) \in Seq(MsgType) BY <1>1, TypesAre DEF TypesRight
  <2>4. SubSeq(Types(d), 1, 0) = <<>> BY <2>3
  <2>5. 0 \in 0 .. Len(written[d]) /\ 0 + 1 = 1 BY <2>1
  <2>6. ReaderAt(d, 0) BY <2>1, <2>2, <2>5 DEF ReaderAt, AtStart
  <2>. QED BY <2>1, <2>4, <2>5, <2>6 DEF Follows
<1>. QED BY <1>1, <1>2, <1>3 DEF PeersInv

\* The predicates of a state only.
LEMMA PeersStutter == PeersInv /\ UNCHANGED streamVars => PeersInv'
<1> SUFFICES ASSUME PeersInv, UNCHANGED streamVars PROVE PeersInv' OBVIOUS
<1>1. StreamsTyped /\ peer' = peer /\ UNCHANGED written
      /\ UNCHANGED <<peer, taken, reader, handled, missed, alive>>
  BY DEF PeersInv, streamVars
<1>2. /\ written' \in [Dir -> Seq(Msg)]
      /\ \A e \in Dir : \A i \in DOMAIN written'[e] : written'[e][i].type \in Spoken(e)'
      /\ \A e \in Dir : Grows(e)
  BY <1>1, Unwritten
<1>3. StreamsTyped' /\ \A d \in Dir : InStep(d)' => Follows(d)' BY <1>1, <1>2, WritingStep
<1>4. AnswersOnce' BY <1>1 DEF PeersInv, AnswersOnce
<1>. QED BY <1>3, <1>4 DEF PeersInv

LEMMA PeersNext == PeersInv /\ [StreamsNext]_streamVars => PeersInv'
<1> SUFFICES ASSUME PeersInv, [StreamsNext]_streamVars PROVE PeersInv' OBVIOUS
<1>1. CASE Greet BY <1>1, GreetStep
<1>2. CASE PassOrder BY <1>2, PassOrderStep
<1>3. CASE ServerReadsHeader BY <1>3, ServerReadsHeaderStep
<1>4. CASE ServerReadsBody BY <1>4, ServerReadsBodyStep
<1>5. CASE AndroidReadsHeader BY <1>5, AndroidReadsHeaderStep
<1>6. CASE AndroidReadsBody BY <1>6, AndroidReadsBodyStep
<1>7. CASE WebReadsHeader BY <1>7, WebReadsHeaderStep
<1>8. CASE WebReadsType BY <1>8, WebReadsTypeStep
<1>9. CASE WebReadsField BY <1>9, WebReadsFieldStep
<1>10. CASE WebHandles BY <1>10, WebHandlesStep
<1>11. CASE UNCHANGED streamVars BY <1>11, PeersStutter
<1>. QED BY <1>1, <1>2, <1>3, <1>4, <1>5, <1>6, <1>7, <1>8, <1>9, <1>10, <1>11 DEF StreamsNext, Reads

LEMMA PeersHandled == PeersInv => HandledAsSent
<1> SUFFICES ASSUME PeersInv, NEW d \in Dir, InStep(d)
    PROVE  reader[d] # Lost /\ SeqExt!IsPrefix(handled[d], Types(d))
  BY DEF HandledAsSent
<1>1. StreamsTyped /\ Follows(d) BY DEF PeersInv
<1>2. PICK n \in 0 .. Len(written[d]) : handled[d] = SubSeq(Types(d), 1, n) /\ ReaderAt(d, n)
  BY <1>1 DEF Follows
<1>3. reader[d].at # "lost" BY <1>2, ReaderPlace
<1>4. Types(d) \in Seq(MsgType) /\ Len(Types(d)) = Len(written[d]) BY <1>1, TypesAre DEF TypesRight
<1>5. n \in Nat /\ n <= Len(Types(d)) BY <1>4
<1>6. Len(handled[d]) = n /\ Len(handled[d]) <= Len(Types(d)) BY <1>2, <1>4, <1>5
<1>7. handled[d] = SubSeq(Types(d), 1, Len(handled[d])) BY <1>2, <1>6
<1>8. SeqExt!IsPrefix(handled[d], Types(d)) BY <1>6, <1>7 DEF SeqExt!IsPrefix
<1>. QED BY <1>3, <1>8 DEF Lost

\* For any number of orders: while every read brings what it asked for and the peer lives,
\* each program handles the messages of the other in the order they were written, each from
\* its first byte to its last -- the three tables of layouts agree.
THEOREM PeersHandleAsSent == StreamsSpec => []HandledAsSent
<1>1. StreamsSpec => []PeersInv BY PeersInit, PeersNext, PTL DEF StreamsSpec
<1>. QED BY <1>1, PeersHandled, PTL
=============================================================================
