---------------------------- MODULE FrameReader ----------------------------
(***************************************************************************)
(* The receiving side of one session in small-buffer mode: Session::start, *)
(* _receive_sp and handle_read_sp turn the byte stream of a peer into      *)
(* messages, each a header that carries a length and a body of that        *)
(* length, read into one CNetMsg buffer.                                   *)
(*                                                                         *)
(* A byte is its position in the peer's stream; position 0 stands for the  *)
(* bytes CNetMsg::Init leaves in a fresh buffer.                           *)
(***************************************************************************)
EXTENDS Integers, Sequences

CONSTANTS
    HeaderLength,   \* PACKET_HEADER_LENGTH
    MaxSize,        \* CNetMsg::GetMaxSize()
    Lengths,        \* the body lengths peers send (all below 2^16)
    MaxFrames,      \* bound: the messages of one stream
    Ragged          \* whether receives may fall short and streams end inside a message

ASSUME SizeAssumption ==
    /\ HeaderLength \in Nat \ {0, 1} /\ MaxSize \in Nat /\ MaxSize >= HeaderLength
    /\ Lengths \subseteq Nat /\ MaxFrames \in Nat /\ Ragged \in BOOLEAN

VARIABLES
    sent,           \* the body lengths of the peer's messages
    total,          \* the bytes the peer sends before it closes
    pos,            \* the bytes received so far
    request,        \* the outstanding async_receive: where, how much, completed or not
    buf,            \* m_bufMsg of the message being read
    leave,          \* m_nSmallBufferModeReadLeave
    offset,         \* m_nSmallBufferModeReadOffset
    delivered,      \* the messages handed to OnReadComplete
    status          \* whether the session is still open

vars == <<sent, total, pos, request, buf, leave, offset, delivered, status>>

-----------------------------------------------------------------------------
(* The peer's stream                                                       *)

\* The bytes before message i.
Start ==
    LET start[i \in 1 .. Len(sent) + 1] ==
            IF i = 1 THEN 0 ELSE start[i - 1] + HeaderLength + sent[i - 1]
    IN  start

StreamLength == Start[Len(sent) + 1]

Body(i) == [k \in 1 .. sent[i] |-> Start[i] + HeaderLength + k]

\* The messages a peer may expect to see handed out: those that fit the buffer.
Wanted(i) == sent[i] \in 1 .. MaxSize

\* What is handed out are the bodies of the wanted ones among the first n messages, in
\* their order and once each: the k-th is that of message f[k].
HandedOut(n) ==
    \E f \in [DOMAIN delivered -> 1 .. n] :
        /\ \A j, k \in DOMAIN delivered : j < k => f[j] < f[k]
        /\ \A k \in DOMAIN delivered : delivered[k] = Body(f[k])
        /\ {f[k] : k \in DOMAIN delivered} = {i \in 1 .. n : Wanted(i)}

-----------------------------------------------------------------------------
Fresh == [k \in 0 .. MaxSize - 1 |-> 0]

NoRequest == [off |-> 0, len |-> 0, done |-> FALSE]

\* _receive_sp(buffer, off, len)
ReceiveSp(off, len) == request' = [off |-> off, len |-> len, done |-> FALSE]

\* A new message, and its header.
ReceiveHeader ==
    /\ leave' = -1
    /\ offset' = 0
    /\ buf' = Fresh
    /\ ReceiveSp(0, HeaderLength)

\* The peer's stream is whatever it is; Session::start asks for the first header.
Init ==
    /\ sent \in UNION {[1 .. n -> Lengths] : n \in 1 .. MaxFrames}
    /\ total \in IF Ragged THEN 0 .. StreamLength ELSE {StreamLength}
    /\ pos = 0
    /\ request = [off |-> 0, len |-> HeaderLength, done |-> FALSE]
    /\ buf = Fresh
    /\ leave = -1
    /\ offset = 0
    /\ delivered = <<>>
    /\ status = "open"

Outstanding == request # NoRequest /\ ~request.done

\* The socket delivers n bytes, normally as many as were asked for.
Receive ==
    /\ Outstanding
    /\ status = "open"
    /\ \E n \in IF Ragged THEN 1 .. request.len ELSE {request.len} :
          /\ pos + n <= total
          /\ pos' = pos + n
          /\ buf' = [k \in 0 .. MaxSize - 1 |->
                        IF k \in request.off .. request.off + n - 1
                        THEN pos + (k - request.off) + 1 ELSE buf[k]]
    /\ request' = [request EXCEPT !.done = TRUE]
    /\ UNCHANGED <<sent, total, leave, offset, delivered, status>>

\* The receive fails: the peer has closed, or this side's socket has been closed.
ReceiveFails ==
    /\ Outstanding
    /\ pos = total \/ status = "shut"
    /\ request' = [request EXCEPT !.done = TRUE]
    /\ UNCHANGED <<sent, total, pos, buf, leave, offset, delivered, status>>

\* handle_exit, run by another handler.
Shut ==
    /\ status = "open"
    /\ status' = "shut"
    /\ UNCHANGED <<sent, total, pos, request, buf, leave, offset, delivered>>

-----------------------------------------------------------------------------
(* handle_read_sp.  bytes_transferred is bound to the length asked for, so *)
(* neither an error nor a short receive is seen.                           *)

\* What the low half of the header in the buffer can read as.
HeaderValues ==
    LET half == HeaderLength \div 2
        from(p) == \A k \in 0 .. half - 1 : buf[k] = p + k
    IN  IF \A k \in 0 .. half - 1 : buf[k] = 0 THEN {0}
        ELSE IF \E i \in 1 .. Len(sent) : from(Start[i] + 1)
        THEN {sent[CHOOSE i \in 1 .. Len(sent) : from(Start[i] + 1)]}
        ELSE Lengths

ReadStopped ==
    /\ request.done
    /\ status = "shut"
    /\ request' = NoRequest
    /\ UNCHANGED <<sent, total, pos, buf, leave, offset, delivered, status>>

\* Mutant: nothing is received after an empty message.
SkipEmptyStops == request' = NoRequest /\ UNCHANGED <<buf, leave, offset>>

\* An empty message is skipped.
SkipEmpty == ReceiveHeader

\* A body that does not fit is received piece by piece and thrown away.
BodyLength(n) == IF n > MaxSize THEN MaxSize ELSE n

ReadHeader ==
    /\ request.done
    /\ status = "open"
    /\ leave = -1 /\ request.len = HeaderLength
    /\ \E n \in HeaderValues :
          \/ n = 0 /\ SkipEmpty
          \/ /\ n > 0
             /\ leave' = n
             /\ offset' = 0
             /\ ReceiveSp(0, BodyLength(n))
             /\ UNCHANGED buf
    /\ UNCHANGED <<sent, total, pos, delivered, status>>

\* Mutant: a message that just fits is thrown away too.
DiscardsFull(read) == read >= MaxSize

Discards(read) == read > MaxSize

\* Mutant: the pieces of an over-long body are put one after another.
PieceAppended(read, left) == ReceiveSp(read, left)

\* The next piece: over the last one when the body does not fit.
Piece(read, left) ==
    IF read + left > MaxSize THEN ReceiveSp(0, IF left < MaxSize THEN left ELSE MaxSize)
                             ELSE ReceiveSp(read, left)

ReadBody ==
    LET left == leave - request.len
        read == offset + request.len
    IN
    /\ request.done
    /\ status = "open"
    /\ ~(leave = -1 /\ request.len = HeaderLength)
    /\ \/ /\ left = 0
          /\ delivered' = IF Discards(read) THEN delivered
                          ELSE Append(delivered, [k \in 1 .. read |-> buf[k - 1]])
          /\ ReceiveHeader
       \/ /\ left > 0
          /\ leave' = left
          /\ offset' = read
          /\ Piece(read, left)
          /\ UNCHANGED <<buf, delivered>>
    /\ UNCHANGED <<sent, total, pos, status>>

Next == Receive \/ ReceiveFails \/ Shut \/ ReadStopped \/ ReadHeader \/ ReadBody

Spec == Init /\ [][Next]_vars

-----------------------------------------------------------------------------
\* No receive is ever asked to write outside the message buffer, whatever length
\* a header claims and however the receives fall short.
InBuffer == request.off + request.len <= MaxSize

\* Every message handed to OnReadComplete is a message of the peer, whole, and
\* they come in the peer's order; over-long and empty ones do not put the reader
\* out of step.  Whenever the reader asks for a header, it has handed out
\* everything it has read.
FramesIntact ==
    \E n \in 0 .. Len(sent) :
        /\ HandedOut(n)
        /\ Start[n + 1] <= pos
        /\ status = "open" /\ leave = -1 /\ ~request.done => Start[n + 1] = pos

\* The socket reports what happens to a receive, and queued handlers run.
Fairness == WF_vars(Receive \/ ReceiveFails) /\ WF_vars(ReadStopped \/ ReadHeader \/ ReadBody)

FairSpec == Spec /\ Fairness

\* In the end every message that fits is handed out, unless the session is closed.
AllRead == <>(HandedOut(Len(sent)) \/ status = "shut")
=============================================================================
