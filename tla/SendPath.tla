------------------------------ MODULE SendPath ------------------------------
(***************************************************************************)
(* Send and the write side of a session.  Send builds the frame in a       *)
(* buffer on its own stack, passes async_write that buffer and returns;    *)
(* the kernel takes the bytes at once as far as it has room, and the rest  *)
(* later from where the buffer was.  Several threads send on one session.  *)
(*                                                                         *)
(* A message is numbered by the call of Send that made it and crosses to   *)
(* the kernel in at most Pieces pieces.  Of a buffer we keep the number of *)
(* the message that is in it, 0 for anything else.  Sessions are not freed *)
(* here: what becomes of a freed one is the subject of SessionLayer.       *)
(***************************************************************************)
EXTENDS Integers, Sequences, FiniteSets

CONSTANTS
    Thread,     \* threads that call Send and run handlers
    Session,
    Pieces,     \* pieces of a message
    Room,       \* the numbers of pieces the kernel may have room for
    MaxSends    \* bound: calls of Send

ASSUME SendAssumption ==
    /\ Pieces \in Nat \ {0} /\ MaxSends \in Nat
    /\ Room \subseteq Nat

VARIABLES
    closed,     \* m_emSocketStatus is SS_CLOSED or SS_ERROR
    up,         \* the socket can be written to
    pc, call,   \* what each thread does, and for which write
    buffer,     \* SendBuf: the message in the stack buffer of each thread
    tmp,        \* the value of a counter that a thread has read
    queue,      \* per socket, the writes that wait for room, first come first served
    ready,      \* per session, the writes whose last piece has been tried: handlers to run
    stream,     \* per session, the pieces the kernel has taken
    wait,       \* s_nTotalDataSendWait
    total,      \* s_nTotalDataSend and s_nTotalDataSendDiscard
    \* history
    begun,      \* per session, the messages async_write was called for, in order
    delayed,    \* per session, whether a write had to wait for room
    calls,      \* the calls of Send so far
    calm        \* no two threads updated s_nTotalDataSendWait at once, no session ended

sockets == <<closed, up>>
threads == <<pc, call, buffer, tmp>>
writes == <<queue, ready, stream>>
counters == <<wait, total>>
history == <<begun, delayed, calls, calm>>
vars == <<sockets, threads, writes, counters, history>>

\* A write of message msg from the buffer of thread by, pos pieces of it done.
Write == [msg : 1 .. MaxSends, by : Thread, pos : 0 .. Pieces, failed : BOOLEAN]

\* A piece of the stream: piece part of message msg, found to belong to got.
Piece == [msg : 1 .. MaxSends, part : 1 .. Pieces, got : 0 .. MaxSends]

NoCall == [to |-> 0, msg |-> 0]

Init ==
    /\ closed = [s \in Session |-> FALSE]
    /\ up = [s \in Session |-> TRUE]
    /\ pc = [t \in Thread |-> "idle"]
    /\ call = [t \in Thread |-> NoCall]
    /\ buffer = [t \in Thread |-> 0]
    /\ tmp = [t \in Thread |-> 0]
    /\ queue = [s \in Session |-> <<>>]
    /\ ready = [s \in Session |-> {}]
    /\ stream = [s \in Session |-> <<>>]
    /\ wait = 0
    /\ total = [sent |-> 0, discarded |-> 0]
    /\ begun = [s \in Session |-> <<>>]
    /\ delayed = [s \in Session |-> FALSE]
    /\ calls = 0
    /\ calm = TRUE

At(t, from, to) == pc[t] = from /\ pc' = [pc EXCEPT ![t] = to]

-----------------------------------------------------------------------------
(* The socket                                                              *)

\* The first k pieces of write w that the kernel does not have yet, as they are
\* in the buffer now.
Taken(w, k) ==
    [i \in 1 .. k |-> [msg |-> w.msg, part |-> w.pos + i, got |-> buffer[w.by]]]

\* As much of write w as there is room for.
Fits(w, room) == IF room < Pieces - w.pos THEN room ELSE Pieces - w.pos

Advanced(w, k) == [w EXCEPT !.pos = @ + k]
Failed(w) == [w EXCEPT !.failed = TRUE]

\* async_send: a write to a dead socket fails, one that finds others waiting waits
\* behind them, and of any other the kernel takes at once what it has room for.
\* rest: the handlers left to run.
StartFails(s, w, rest) ==
    /\ ~up[s]
    /\ ready' = [ready EXCEPT ![s] = rest \cup {Failed(w)}]
    /\ calm' = FALSE
    /\ UNCHANGED <<queue, stream, delayed>>

StartWaits(s, w, rest) ==
    /\ up[s] /\ queue[s] # <<>>
    /\ queue' = [queue EXCEPT ![s] = Append(@, w)]
    /\ delayed' = [delayed EXCEPT ![s] = TRUE]
    /\ ready' = [ready EXCEPT ![s] = rest]
    /\ UNCHANGED <<stream, calm>>

StartTakes(s, w, rest, k) ==
    /\ up[s] /\ queue[s] = <<>>
    /\ stream' = [stream EXCEPT ![s] = @ \o Taken(w, k)]
    /\ delayed' = [delayed EXCEPT ![s] = @ \/ w.pos + k < Pieces]
    /\ \/ /\ k = 0
          /\ queue' = [queue EXCEPT ![s] = <<w>>]
          /\ ready' = [ready EXCEPT ![s] = rest]
       \/ /\ k > 0
          /\ ready' = [ready EXCEPT ![s] = rest \cup {Advanced(w, k)}]
          /\ UNCHANGED queue
    /\ UNCHANGED calm

Start(s, w, rest) ==
    \/ StartFails(s, w, rest)
    \/ StartWaits(s, w, rest)
    \/ \E room \in Room : StartTakes(s, w, rest, Fits(w, room))

\* The kernel has room again for the first of the writes that wait.
KernelTakes(s) ==
    /\ queue[s] # <<>>
    /\ \E room \in Room \ {0} :
        LET w == Head(queue[s])
            k == Fits(w, room) IN
        /\ stream' = [stream EXCEPT ![s] = @ \o Taken(w, k)]
        /\ queue' = [queue EXCEPT ![s] = Tail(@)]
        /\ ready' = [ready EXCEPT ![s] = @ \cup {Advanced(w, k)}]
    /\ UNCHANGED <<sockets, threads, counters, history>>

\* The writes that wait fail when the socket dies.
Die(s) ==
    /\ up[s]
    /\ up' = [up EXCEPT ![s] = FALSE]
    /\ queue' = [queue EXCEPT ![s] = <<>>]
    /\ ready' = [ready EXCEPT ![s] = @ \cup
                    {Failed(queue[s][i]) : i \in DOMAIN queue[s]}]
    /\ calm' = FALSE
    /\ UNCHANGED <<closed, threads, stream, counters, begun, delayed, calls>>

\* The peer resets the connection.
PeerResets(s) == ~closed[s] /\ Die(s)

\* handle_exit sets the status, and closes the socket later.
ExitMark(s) ==
    /\ ~closed[s]
    /\ closed' = [closed EXCEPT ![s] = TRUE]
    /\ calm' = FALSE
    /\ UNCHANGED <<up, threads, writes, counters, begun, delayed, calls>>

ExitClosesSocket(s) == closed[s] /\ Die(s)

-----------------------------------------------------------------------------
(* Send                                                                    *)

\* Mutant: one buffer for all threads, without the lock that is commented out.
SharedBuffer(t) == CHOOSE u \in Thread : TRUE

\* Whose buffer Send fills.
SendBuf(t) == t

\* Send: the session is found, the frame is built and, in Session::Send, the status
\* is found not to be closed.
Send(t, s) ==
    /\ ~closed[s]
    /\ calls < MaxSends
    /\ At(t, "idle", "built")
    /\ calls' = calls + 1
    /\ buffer' = [buffer EXCEPT ![SendBuf(t)] = calls + 1]
    /\ call' = [call EXCEPT ![t] = [to |-> s, msg |-> calls + 1]]
    /\ UNCHANGED <<sockets, tmp, writes, counters, begun, delayed, calm>>

NewWrite(t) == [msg |-> call[t].msg, by |-> SendBuf(t), pos |-> 0, failed |-> FALSE]

\* async_write from the buffer on the stack; the session may have been closed since.
AsyncWrite(t) ==
    LET s == call[t].to IN
    /\ At(t, "built", "written")
    /\ begun' = [begun EXCEPT ![s] = Append(@, call[t].msg)]
    /\ Start(s, NewWrite(t), ready[s])
    /\ UNCHANGED <<sockets, call, buffer, tmp, counters, calls>>

\* Whether another thread is between reading s_nTotalDataSendWait and writing it.
WaitUpdating(t) == \E u \in Thread \ {t} : pc[u] \in {"add", "subtract"}

\* s_nTotalDataSendWait + length is computed first,
ReadWait(t) ==
    /\ At(t, "written", "add")
    /\ tmp' = [tmp EXCEPT ![t] = wait + Pieces]
    /\ calm' = (calm /\ ~WaitUpdating(t))
    /\ UNCHANGED <<sockets, call, buffer, writes, counters, begun, delayed, calls>>

\* then exchanged for the counter, and Send returns.
AddToWait(t) ==
    /\ At(t, "add", "idle")
    /\ wait' = tmp[t]
    /\ tmp' = [tmp EXCEPT ![t] = 0]
    /\ call' = [call EXCEPT ![t] = NoCall]
    /\ UNCHANGED <<sockets, buffer, writes, total, history>>

\* After Send its buffer is stack that the next call of the thread writes to.
StackReused(t) ==
    /\ pc[t] = "idle"
    /\ buffer[t] # 0
    /\ buffer' = [buffer EXCEPT ![t] = 0]
    /\ UNCHANGED <<sockets, pc, call, tmp, writes, counters, history>>

-----------------------------------------------------------------------------
(* The handlers, one at a time in the strand of their session.  They run   *)
(* in any order: worker threads race to the strand with what is ready.     *)

StrandFree(s) ==
    \A t \in Thread : call[t].to = s => pc[t] \notin {"subtract", "count", "sent", "discarded"}

\* Mutant: the whole buffer is written again.
WriteOnFromStart(s) ==
    /\ StrandFree(s)
    /\ \E w \in ready[s] :
        /\ ~w.failed /\ w.pos < Pieces
        /\ Start(s, [w EXCEPT !.pos = 0], ready[s] \ {w})
    /\ UNCHANGED <<sockets, threads, counters, begun, calls>>

\* The write goes on where it stopped, asio's own handler.
WriteOn(s) ==
    /\ StrandFree(s)
    /\ \E w \in ready[s] :
        /\ ~w.failed /\ w.pos < Pieces
        /\ Start(s, w, ready[s] \ {w})
    /\ UNCHANGED <<sockets, threads, counters, begun, calls>>

Complete(w) == w.failed \/ w.pos = Pieces

\* Where handle_write goes on after a write.
Outcome(w) == IF w.failed THEN "discard" ELSE "subtract"

\* handle_write, with OnSend, which does nothing in the server; the length it is
\* bound to is that of the message, whatever the kernel took.
HandleWrite(t, s) ==
    /\ ~closed[s] /\ StrandFree(s)
    /\ \E w \in ready[s] :
        /\ Complete(w)
        /\ ready' = [ready EXCEPT ![s] = @ \ {w}]
        /\ call' = [call EXCEPT ![t] = [to |-> s, msg |-> w.msg]]
        /\ At(t, "idle", IF Outcome(w) = "subtract" THEN "subtract" ELSE "discarded")
        /\ tmp' = [tmp EXCEPT ![t] = IF Outcome(w) = "subtract" THEN wait - Pieces
                                     ELSE total.discarded + Pieces]
    /\ calm' = (calm /\ ~WaitUpdating(t))
    /\ UNCHANGED <<sockets, buffer, queue, stream, counters, begun, delayed, calls>>

\* It returns at once when the session is closed.
HandleWriteClosed(s) ==
    /\ closed[s] /\ StrandFree(s)
    /\ \E w \in ready[s] : Complete(w) /\ ready' = [ready EXCEPT ![s] = @ \ {w}]
    /\ UNCHANGED <<sockets, threads, queue, stream, counters, history>>

\* Mutant: the bytes stay counted as waiting.
SubtractNothing(t) ==
    /\ At(t, "subtract", "count")
    /\ tmp' = [tmp EXCEPT ![t] = 0]
    /\ UNCHANGED <<sockets, call, buffer, writes, counters, history>>

\* s_nTotalDataSendWait is lowered,
SubtractFromWait(t) ==
    /\ At(t, "subtract", "count")
    /\ wait' = tmp[t]
    /\ tmp' = [tmp EXCEPT ![t] = 0]
    /\ UNCHANGED <<sockets, call, buffer, writes, total, history>>

\* and the bytes sent are added up, by reading the sum
ReadTotal(t) ==
    /\ At(t, "count", "sent")
    /\ tmp' = [tmp EXCEPT ![t] = total.sent + Pieces]
    /\ UNCHANGED <<sockets, call, buffer, writes, counters, history>>

\* and writing it; the same for bytes discarded.
AddToTotal(t) ==
    /\ \E sum \in {"sent", "discarded"} :
        /\ At(t, sum, "idle")
        /\ total' = [total EXCEPT ![sum] = tmp[t]]
    /\ tmp' = [tmp EXCEPT ![t] = 0]
    /\ call' = [call EXCEPT ![t] = NoCall]
    /\ UNCHANGED <<sockets, buffer, writes, wait, history>>

-----------------------------------------------------------------------------
Next ==
    \/ \E t \in Thread :
        \/ \E s \in Session : Send(t, s) \/ HandleWrite(t, s)
        \/ AsyncWrite(t) \/ ReadWait(t) \/ AddToWait(t) \/ StackReused(t)
        \/ SubtractFromWait(t) \/ ReadTotal(t) \/ AddToTotal(t)
    \/ \E s \in Session :
        \/ KernelTakes(s) \/ PeerResets(s) \/ ExitMark(s) \/ ExitClosesSocket(s)
        \/ WriteOn(s) \/ HandleWriteClosed(s)

Spec == Init /\ [][Next]_vars

-----------------------------------------------------------------------------
(* Properties                                                              *)

\* The variables have their types (the counters of Socket.h may be off, and the
\* one of waiting bytes may go below zero).
TypeOK ==
    /\ closed \in [Session -> BOOLEAN] /\ up \in [Session -> BOOLEAN]
    /\ pc \in [Thread -> {"idle", "built", "written", "add",
                          "subtract", "count", "sent", "discarded"}]
    /\ call \in [Thread -> {NoCall} \cup [to : Session, msg : 1 .. MaxSends]]
    /\ buffer \in [Thread -> 0 .. MaxSends]
    /\ tmp \in [Thread -> Int]
    /\ queue \in [Session -> Seq(Write)]
    /\ ready \in [Session -> SUBSET Write]
    /\ stream \in [Session -> Seq(Piece)]
    /\ wait \in Int /\ total \in [sent : Nat, discarded : Nat]
    /\ begun \in [Session -> Seq(1 .. MaxSends)]
    /\ delayed \in [Session -> BOOLEAN]
    /\ calls \in 0 .. MaxSends /\ calm \in BOOLEAN

\* The k-th piece of the messages ms sent whole, one after the other.
FramePiece(ms, k) ==
    LET m == ms[((k - 1) \div Pieces) + 1]
    IN  [msg |-> m, part |-> ((k - 1) % Pieces) + 1, got |-> m]

Whole(s) ==
    /\ Len(stream[s]) <= Pieces * Len(begun[s])
    /\ \A k \in DOMAIN stream[s] : stream[s][k] = FramePiece(begun[s], k)

\* The peer receives the messages in the order Send wrote them, whole and once.
StreamsWhole == \A s \in Session : Whole(s)

\* That is so as long as no write of the session has had to wait for room: the
\* buffers of the threads do not get into each other's way.
WholeUntilDelayed == \A s \in Session : ~delayed[s] => Whole(s)

FirstOf(s, k, m) == stream[s][k].part = 1 /\ stream[s][k].msg = m

\* Messages begin on the stream in the order of async_write, also when writes wait
\* and are mixed: before the first piece of a message come those of all before it.
BegunInOrder ==
    \A s \in Session : \A k \in DOMAIN stream[s] : stream[s][k].part = 1 =>
        \E b \in DOMAIN begun[s] :
            /\ begun[s][b] = stream[s][k].msg
            /\ \A a \in 1 .. b - 1 : \E j \in 1 .. k - 1 : FirstOf(s, j, begun[s][a])

\* The pieces of a message enter the stream one after the other and once, although
\* its write is taken up again by a handler any number of times.
PiecesOnce ==
    \A s \in Session : \A j, k \in DOMAIN stream[s] :
        j < k /\ stream[s][j].msg = stream[s][k].msg => stream[s][j].part < stream[s][k].part

\* What is left of order when messages are mixed.
PiecesInOrder == BegunInOrder /\ PiecesOnce

OnStream(s, m, p) == \E k \in DOMAIN stream[s] : stream[s][k].msg = m /\ stream[s][k].part = p

\* The pieces of messages the kernel has taken, each counted once.
TakenPieces ==
    {mp \in (1 .. MaxSends) \X (1 .. Pieces) : \E s \in Session : OnStream(s, mp[1], mp[2])}

\* s_nTotalDataSend never counts bytes the kernel has not taken, although two
\* threads may overwrite each other's sums.
TotalNotAhead == total.sent <= Cardinality(TakenPieces)

\* When nothing is being sent any more s_nTotalDataSendWait is zero again.  That is
\* claimed while calm only: it says nothing of an update that two threads lose, nor of
\* a failed write, or one whose session was closed meanwhile, which stay in it.
WaitSettles ==
    (/\ calm
     /\ \A t \in Thread : pc[t] \in {"idle", "built", "count", "sent"}
     /\ \A s \in Session : queue[s] = <<>> /\ ready[s] = {}) => wait = 0

\* The total sent is never too high, and what waits is counted right while calm.
BytesCounted == TotalNotAhead /\ WaitSettles
=============================================================================
