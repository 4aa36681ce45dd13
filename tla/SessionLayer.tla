---------------------------- MODULE SessionLayer ----------------------------
(***************************************************************************)
(* The session layer of AdvanceLib/Socket: SessionManager (object pool and *)
(* id map), Session, Acceptor, Connector, CloseSocket / AsyncClose, and    *)
(* the io_service worker threads that run their completion handlers.       *)
(*                                                                         *)
(* A thread runs one handler at a time, statement group by statement group *)
(* (th[t].pc), so the handlers of one session interleave wherever the code *)
(* lets them: accept, connect, receive and write handlers go through the   *)
(* session's strand, timer handlers do not.  Of the writes of a session    *)
(* only their number is kept; their bytes are the subject of SendPath.     *)
(*                                                                         *)
(* Undefined behaviour ends the run: touching a destroyed session or       *)
(* calling through a pointer another thread has just cleared sets "fault", *)
(* after which nothing happens.                                            *)
(***************************************************************************)
EXTENDS Integers, FiniteSets

CONSTANTS
    Thread,         \* the threads inside io_service::run
    MaxId,          \* bound: the last connection id; construct() returns NULL beyond it
    MaxCloses,      \* bound: CloseSocket/AsyncClose calls that find one session
    MaxWrites       \* bound: no message is sent on while a session has that many writes

ASSUME ThreadAssumption == IsFiniteSet(Thread)
ASSUME MaxIdAssumption == MaxId \in Nat /\ MaxId >= 3
ASSUME MaxClosesAssumption == MaxCloses \in Nat
ASSUME MaxWritesAssumption == MaxWrites \in Nat

VARIABLES
    connindex,      \* s_global_current_connexindex
    freed,          \* freed[s]: number of DestroySession calls on session s
    smap,           \* m_mapSession (an id maps to its own session)
    status,         \* m_emSocketStatus
    owner,          \* which of m_pAcceptor / m_pConnector is set
    sock,           \* whether socket_ is open
    io,             \* the outstanding accept/connect/receive, or its queued handler
    writes,         \* writes[s]: async_writes of s with an operation outstanding
    written,        \* queued handlers of such operations
    timer,          \* the wait pending on timer_
    exits,          \* queued handle_exit wait handlers
    destroys,       \* queued handle_destory wait handlers
    onclose,        \* OnClose callbacks made (history)
    closes,         \* CloseSocket/AsyncClose calls that found the session (history)
    conneced,       \* s_nTotalConneced
    connecting,     \* s_nTotalConnecting
    closed,         \* s_nTotalClosed
    connSession,    \* Connector::m_pConnectSession (0: NULL)
    users,          \* sessions with a record in UserInfoManager (none is ever removed)
    th,             \* the handler each thread is running
    fault           \* the undefined behaviour reached, if any

vars == <<connindex, freed, smap, status, owner, sock, io, writes, written,
          timer, exits, destroys, onclose, closes, conneced, connecting, closed,
          connSession, users, th, fault>>

-----------------------------------------------------------------------------
\* s_global_current_connexindex starts at 1 and is incremented first.
FirstId == 2
WebId   == 3            \* the session of NetThread's AsyncConnect

Session == FirstId .. MaxId

Constructed == FirstId .. connindex
Live        == {s \in Constructed : freed[s] = 0}

Idle == [pc |-> "idle", ses |-> 0, tgt |-> 0, ret |-> "idle"]

Goto(t, pc)       == th' = [th EXCEPT ![t].pc = pc]
Finish(t)         == th' = [th EXCEPT ![t] = Idle]
\* Back from handle_exit or Close to whatever called it.
Return(t) ==
    IF th[t].ret = "idle" THEN Finish(t)
    ELSE th' = [th EXCEPT ![t] = [@ EXCEPT !.pc = th[t].ret, !.tgt = 0]]
\* Calls Send(u, ...).
Call(t, u)        == th' = [th EXCEPT ![t] = [@ EXCEPT !.pc = "send_lookup", !.tgt = u]]
Enter(t, s, pc, r) ==
    /\ fault = "none"
    /\ th[t].pc = "idle"
    /\ th' = [th EXCEPT ![t] = [pc |-> pc, ses |-> s, tgt |-> 0, ret |-> r]]

\* Steps that use only a connection id, the acceptor or the connector.  OnConnect
\* also reads m_connindex, which a freed chunk of the pool still holds.
ByIdOnly == {"idle", "reaccept", "on_connect", "closesocket", "asyncclose", "send_lookup"}

\* Inside Session::Send.
Sending(t) == th[t].pc \in {"send", "send_write"}

\* The session objects thread t is about to use.
Touches(t) ==
    CASE th[t].pc \in ByIdOnly -> {}
      [] Sending(t)            -> {th[t].tgt}
      [] OTHER                 -> {th[t].ses}

At(t, pc) ==
    /\ fault = "none"
    /\ th[t].pc = pc
    /\ \A s \in Touches(t) : freed[s] = 0

\* A strand handler of s returns to one of these; timer handlers to "idle".
InStrand(t, s) == th[t].pc # "idle" /\ th[t].ses = s /\ th[t].ret # "idle"
StrandFree(s)  == \A t \in Thread : ~InStrand(t, s)

InTimerHandler(t, s) == th[t].pc # "idle" /\ th[t].ses = s /\ th[t].ret = "idle"

IsShut(s) == status[s] \in {"CLOSED", "ERROR"}

output    == <<writes, written>>
sessionIo == <<connindex, freed, smap, status, owner, sock, io, output>>
timers    == <<timer, exits, destroys>>
counters  == <<conneced, connecting, closed, connSession>>
history   == <<onclose, closes, users>>
-----------------------------------------------------------------------------
(* Socket and timer operations of the asynchronous i/o library.            *)

\* Mutant: close() leaves the writes waiting for room.
CloseSockKeepsWrites(s) ==
    /\ sock' = [sock EXCEPT ![s] = "closed"]
    /\ io' = [io EXCEPT ![s] = IF @ = "receive" THEN "received" ELSE @]
    /\ UNCHANGED output

\* socket_.close(): a pending receive and pending writes complete at once with an
\* error, and their handlers are queued.
CloseSock(s) ==
    /\ sock' = [sock EXCEPT ![s] = "closed"]
    /\ io' = [io EXCEPT ![s] = IF @ = "receive" THEN "received" ELSE @]
    /\ writes' = [writes EXCEPT ![s] = 0]
    /\ written' = [written EXCEPT ![s] = @ + writes[s]]

\* socket_.async_receive(): on a closed socket it completes at once.
AsyncReceive(s) ==
    io' = [io EXCEPT ![s] = IF sock[s] = "open" THEN "receive" ELSE "received"]

\* async_write(): on a closed socket it completes at once.
AsyncWrite(s) ==
    IF sock[s] = "open"
    THEN writes' = [writes EXCEPT ![s] = @ + 1] /\ UNCHANGED written
    ELSE written' = [written EXCEPT ![s] = @ + 1] /\ UNCHANGED writes

\* timer_.expires_from_now(); timer_.async_wait(): the wait already pending is
\* cancelled, and its handler is queued: the bound handlers ignore the error.
ArmTimer(s, wait) ==
    /\ timer'    = [timer EXCEPT ![s] = wait]
    /\ exits'    = [exits EXCEPT ![s] = IF timer[s] = "exit" THEN @ + 1 ELSE @]
    /\ destroys' = [destroys EXCEPT ![s] = IF timer[s] = "destroy" THEN @ + 1 ELSE @]

\* Handlers do not block, so the ten seconds of a wait outlast every handler
\* that was queued or running when it was armed.  They do not outlast an operation
\* that waits for the peer: that none is left is the work of socket_.close().
Drained(s) ==
    /\ io[s] # "received" /\ written[s] = 0
    /\ exits[s] = 0
    /\ \A t \in Thread :
          /\ th[t].pc # "idle" => th[t].ses # s
          /\ Sending(t) => th[t].tgt # s

\* Mutant: Close waits so shortly that one wait's handler overtakes another's.
ExitsOverlap(s) == TRUE

\* For Close's wait it is the earlier wait handlers of s.
ExitsDrained(s) == exits[s] = 0 /\ \A t \in Thread : ~InTimerHandler(t, s)

TimerExpires(s) ==
    /\ fault = "none"
    /\ timer' = [timer EXCEPT ![s] = "none"]
    /\ \/ /\ timer[s] = "exit"
          /\ ExitsDrained(s)
          /\ exits' = [exits EXCEPT ![s] = @ + 1]
          /\ UNCHANGED destroys
       \/ /\ timer[s] = "destroy"
          /\ Drained(s)
          /\ destroys' = [destroys EXCEPT ![s] = @ + 1]
          /\ UNCHANGED exits
    /\ UNCHANGED <<sessionIo, counters, history, th, fault>>

\* The operating system completes an operation; the handler joins the strand's
\* queue.  A receive completes alike for data, end of file and errors.
Completion ==
    [accept  |-> {"accepted", "acceptfailed"},
     connect |-> {"connected", "connectfailed"},
     receive |-> {"received"}]

IoCompletes(s) ==
    /\ fault = "none"
    /\ io[s] \in DOMAIN Completion
    /\ \E r \in Completion[io[s]] : io' = [io EXCEPT ![s] = r]
    /\ UNCHANGED <<connindex, freed, smap, status, owner, sock, output, timers, counters, history, th, fault>>

\* The kernel has taken bytes of a write, or refuses them: its handler is queued.
WriteCompletes(s) ==
    /\ fault = "none"
    /\ writes[s] > 0
    /\ writes' = [writes EXCEPT ![s] = @ - 1]
    /\ written' = [written EXCEPT ![s] = @ + 1]
    /\ UNCHANGED <<connindex, freed, smap, status, owner, sock, io, timers, counters, history, th, fault>>

\* async_write's own handler, in the strand: bytes are left, so it goes on writing.
\* (On a closed socket that fails at once, and the handler is queued again.)
WriteOn(s) ==
    /\ fault = "none"
    /\ written[s] > 0 /\ sock[s] = "open" /\ StrandFree(s)
    /\ writes' = [writes EXCEPT ![s] = @ + 1]
    /\ written' = [written EXCEPT ![s] = @ - 1]
    /\ UNCHANGED <<connindex, freed, smap, status, owner, sock, io, timers, counters, history, th, fault>>

\* A thread takes the handler h of s from the strand; only one at a time.
Dispatch(t, s, h, pc, ret) ==
    /\ io[s] = h
    /\ StrandFree(s)
    /\ Enter(t, s, pc, ret)
-----------------------------------------------------------------------------
(* NetThreadPorc: StartListen and AsyncConnect have run before any thread. *)

Init ==
    /\ connindex   = WebId
    /\ freed       = [s \in Session |-> 0]
    /\ smap        = {}
    /\ status      = [s \in Session |-> IF s = WebId THEN "CONNECTING" ELSE "IDLE"]
    /\ owner       = [s \in Session |-> IF s = WebId THEN "connector" ELSE "none"]
    /\ sock        = [s \in Session |-> "open"]
    /\ io          = [s \in Session |-> CASE s = FirstId -> "accept"
                                          [] s = WebId   -> "connect"
                                          [] OTHER       -> "none"]
    /\ writes      = [s \in Session |-> 0]
    /\ written     = [s \in Session |-> 0]
    /\ timer       = [s \in Session |-> "none"]
    /\ exits       = [s \in Session |-> 0]
    /\ destroys    = [s \in Session |-> 0]
    /\ onclose     = [s \in Session |-> 0]
    /\ closes      = [s \in Session |-> 0]
    /\ conneced    = 0
    /\ connecting  = 1
    /\ closed      = 0
    /\ connSession = WebId
    /\ users       = {}
    /\ th          = [t \in Thread |-> Idle]
    /\ fault       = "none"

\* Within the bounds, a handler may ask to close session s.
MayClose(s) ==
    closes[s] < MaxCloses /\ \A u \in Session \ {s} : closes[s] + closes[u] < MaxCloses

-----------------------------------------------------------------------------
(* Acceptor::handle_accept                                                 *)

\* The error branch frees the session and does not accept again.
HandleAcceptError(t, s) ==
    /\ fault = "none"
    /\ th[t].pc = "idle"
    /\ io[s] = "acceptfailed"
    /\ io' = [io EXCEPT ![s] = "none"]
    /\ freed' = [freed EXCEPT ![s] = @ + 1]
    /\ UNCHANGED <<connindex, smap, status, owner, sock, output, timers, counters, history, th, fault>>

\* The peer is already gone: handle_exit on a session in no map, with no owner.
HandleAcceptPeerGone(t, s) ==
    /\ Dispatch(t, s, "accepted", "exit_check", "reaccept")
    /\ io' = [io EXCEPT ![s] = "none"]
    /\ conneced' = conneced + 1
    /\ UNCHANGED <<connindex, freed, smap, status, owner, sock, output, timers,
                   connecting, closed, connSession, history, fault>>

\* Mutant: the session is started without OnAccept.
HandleAcceptUnannounced(t, s) ==
    /\ Dispatch(t, s, "accepted", "start", "start")
    /\ io'       = [io EXCEPT ![s] = "none"]
    /\ conneced' = conneced + 1
    /\ status'   = [status EXCEPT ![s] = "CONNECTED"]
    /\ owner'    = [owner EXCEPT ![s] = "acceptor"]
    /\ smap'     = smap \cup {s}
    /\ UNCHANGED <<connindex, freed, sock, output, timers, connecting, closed, connSession, history, fault>>

HandleAccept(t, s) ==
    /\ Dispatch(t, s, "accepted", "on_accept", "start")
    /\ io'       = [io EXCEPT ![s] = "none"]
    /\ conneced' = conneced + 1
    /\ status'   = [status EXCEPT ![s] = "CONNECTED"]
    /\ owner'    = [owner EXCEPT ![s] = "acceptor"]
    /\ smap'     = smap \cup {s}
    /\ UNCHANGED <<connindex, freed, sock, output, timers, connecting, closed, connSession, history, fault>>

\* ClientAcceptor::OnAccept: no user record, close; otherwise send SVR_READY.
OnAccept(t) ==
    LET s == th[t].ses IN
    /\ At(t, "on_accept")
    /\ \/ /\ MayClose(s)                              \* AddUser() == NULL
          /\ Goto(t, "closesocket")
          /\ UNCHANGED users
       \/ /\ users' = users \cup {s}
          /\ Call(t, s)
    /\ UNCHANGED <<sessionIo, timers, counters, onclose, closes, fault>>

\* Session::start, then handle_accept goes on to accept the next client.
Start(t) ==
    /\ At(t, "start")
    /\ AsyncReceive(th[t].ses)
    /\ Goto(t, "reaccept")
    /\ UNCHANGED <<connindex, freed, smap, status, owner, sock, output, timers, counters, history, fault>>

Reaccept(t) ==
    /\ At(t, "reaccept")
    /\ \/ /\ connindex < MaxId
          /\ connindex' = connindex + 1
          /\ io' = [io EXCEPT ![connindex + 1] = "accept"]
       \/ /\ connindex = MaxId                      \* AllocSession() == NULL
          /\ UNCHANGED <<connindex, io>>
    /\ Finish(t)
    /\ UNCHANGED <<freed, smap, status, owner, sock, output, timers, counters, history, fault>>

-----------------------------------------------------------------------------
(* Connector::handle_connect                                               *)

HandleConnectError(t, s) ==
    /\ Dispatch(t, s, "connectfailed", "on_connect", "on_connect")
    /\ io'          = [io EXCEPT ![s] = "none"]
    /\ connecting'  = connecting - 1
    /\ status'      = [status EXCEPT ![s] = "ERROR"]
    /\ freed'       = [freed EXCEPT ![s] = @ + 1]
    /\ connSession' = 0
    /\ UNCHANGED <<connindex, smap, owner, sock, output, timers, conneced, closed, history, fault>>

HandleConnect(t, s) ==
    /\ Dispatch(t, s, "connected", "on_connect", "on_connect")
    /\ status' = [status EXCEPT ![s] = "CONNECTED"]
    /\ smap'   = smap \cup {s}
    /\ io'     = [io EXCEPT ![s] = "receive"]       \* Session::start
    /\ UNCHANGED <<connindex, freed, owner, sock, output, timers, counters, history, fault>>

\* OnConnect(new_session->m_connindex, ...) reads the session on both branches.
OnConnect(t) ==
    /\ At(t, "on_connect")
    /\ Finish(t)
    /\ UNCHANGED <<sessionIo, timers, counters, history, fault>>

-----------------------------------------------------------------------------
(* Session::handle_read_sp                                                 *)

HandleRead(t, s) ==
    /\ Dispatch(t, s, "received", "read_check", "rearm")
    /\ io' = [io EXCEPT ![s] = "none"]
    /\ UNCHANGED <<connindex, freed, smap, status, owner, sock, output, timers, counters, history, fault>>

\* The status test at entry, then whether the receive completed a message.
ReadCheck(t) ==
    LET s == th[t].ses IN
    /\ At(t, "read_check")
    /\ \/ IsShut(s) /\ Finish(t)
       \/ ~IsShut(s) /\ Goto(t, "rearm")
       \/ ~IsShut(s) /\ Goto(t, "deliver_check")
    /\ UNCHANGED <<sessionIo, timers, counters, history, fault>>

\* if(m_pAcceptor) ... else if(m_pConnector) ...
DeliverCheck(t) ==
    LET s == th[t].ses IN
    /\ At(t, "deliver_check")
    /\ Goto(t, CASE owner[s] = "acceptor"  -> "deliver_acceptor"
                 [] owner[s] = "connector" -> "deliver_connector"
                 [] OTHER                  -> "rearm")
    /\ UNCHANGED <<sessionIo, timers, counters, history, fault>>

\* A session to send to, for a client's or a web server's message.
Addressee == {u \in Session : \A v \in Session : writes[v] + written[v] < MaxWrites}

\* A client's message: ignored, answered or forwarded (a Send to any session), or
\* its sender kicked (AsyncClose).  The branch that closes a sender with no user
\* record is never reached: see UserKnown.
DeliverClient(t) ==
    LET s == th[t].ses IN
    /\ At(t, "deliver_acceptor")
    /\ \/ Goto(t, "rearm")
       \/ MayClose(s) /\ Goto(t, "asyncclose")
       \/ \E u \in Addressee : Call(t, u)
    /\ UNCHANGED <<sessionIo, timers, counters, history, fault>>

\* A web server's message is ignored, answered or passed on to a client.
DeliverWeb(t) ==
    /\ At(t, "deliver_connector")
    /\ \/ Goto(t, "rearm")
       \/ \E u \in Addressee : Call(t, u)
    /\ UNCHANGED <<sessionIo, timers, counters, history, fault>>

\* _receive_sp at the end of the handler.
Rearm(t) ==
    /\ At(t, "rearm")
    /\ AsyncReceive(th[t].ses)
    /\ Finish(t)
    /\ UNCHANGED <<connindex, freed, smap, status, owner, sock, output, timers, counters, history, fault>>

-----------------------------------------------------------------------------
(* Send, CloseSocket, AsyncClose: a lookup by id, then a use of the        *)
(* session's address with no lock held.                                    *)

SendLookup(t) ==
    /\ At(t, "send_lookup")
    /\ \/ th[t].tgt \in smap /\ Goto(t, "send")
       \/ th[t].tgt \notin smap /\ Return(t)
    /\ UNCHANGED <<sessionIo, timers, counters, history, fault>>

\* Session::Send: nothing on a shut session,
SendCheck(t) ==
    /\ At(t, "send")
    /\ IF IsShut(th[t].tgt) THEN Return(t) ELSE Goto(t, "send_write")
    /\ UNCHANGED <<sessionIo, timers, counters, history, fault>>

\* otherwise one more write, which another thread may have closed the socket under.
SendData(t) ==
    /\ At(t, "send_write")
    /\ AsyncWrite(th[t].tgt)
    /\ Return(t)
    /\ UNCHANGED <<connindex, freed, smap, status, owner, sock, io, timers, counters, history, fault>>

-----------------------------------------------------------------------------
(* Session::handle_write                                                   *)

\* A write has come to its end; handle_write is bound to the session's address.
HandleWrite(t, s) ==
    /\ written[s] > 0
    /\ StrandFree(s)
    /\ Enter(t, s, "write_check", "write_notify")
    /\ written' = [written EXCEPT ![s] = @ - 1]
    /\ UNCHANGED <<connindex, freed, smap, status, owner, sock, io, writes, timers, counters, history, fault>>

\* The status test at entry, then the owner pointers.
WriteCheck(t) ==
    /\ At(t, "write_check")
    /\ IF IsShut(th[t].ses) THEN Finish(t) ELSE Goto(t, "write_owner")
    /\ UNCHANGED <<sessionIo, timers, counters, history, fault>>

WriteOwner(t) ==
    /\ At(t, "write_owner")
    /\ IF owner[th[t].ses] = "none" THEN Finish(t) ELSE Goto(t, "write_notify")
    /\ UNCHANGED <<sessionIo, timers, counters, history, fault>>

\* OnSend, which does nothing in the server, and the counts of bytes (see SendPath).
WriteNotify(t) ==
    /\ At(t, "write_notify")
    /\ Finish(t)
    /\ UNCHANGED <<sessionIo, timers, counters, history, fault>>

-----------------------------------------------------------------------------
(* CloseSocket and AsyncClose                                              *)

CloseLookup(t, call, next) ==
    LET s == th[t].ses IN
    /\ At(t, call)
    /\ \/ /\ s \in smap
          /\ closes' = [closes EXCEPT ![s] = @ + 1]
          /\ Goto(t, next)
       \/ /\ s \notin smap
          /\ Return(t)
          /\ UNCHANGED closes
    /\ UNCHANGED <<sessionIo, timers, counters, onclose, users, fault>>

CloseSocket(t) == CloseLookup(t, "closesocket", "exit_check")
AsyncClose(t)  == CloseLookup(t, "asyncclose", "close")

\* Session::Close with a wait: the handler of the wait is not on the strand.
Close(t) ==
    /\ At(t, "close")
    /\ ArmTimer(th[t].ses, "exit")
    /\ Return(t)
    /\ UNCHANGED <<sessionIo, counters, history, fault>>

-----------------------------------------------------------------------------
(* Session::handle_exit and Session::handle_destory                        *)

RunExit(t, s) ==
    /\ exits[s] > 0
    /\ Enter(t, s, "exit_check", "idle")
    /\ exits' = [exits EXCEPT ![s] = @ - 1]
    /\ UNCHANGED <<sessionIo, timer, destroys, counters, history, fault>>

ExitCheck(t) ==
    LET s == th[t].ses IN
    /\ At(t, "exit_check")
    /\ IF IsShut(s) THEN Return(t) ELSE Goto(t, "exit_mark")
    /\ UNCHANGED <<sessionIo, timers, counters, history, fault>>

\* Mutant: handle_exit goes on without marking the session.
ExitMarkForgotten(t) ==
    /\ At(t, "exit_mark")
    /\ closed' = closed + 1
    /\ Goto(t, "exit_owner")
    /\ UNCHANGED <<sessionIo, timers, conneced, connecting, connSession, history, fault>>

ExitMark(t) ==
    /\ At(t, "exit_mark")
    /\ status' = [status EXCEPT ![th[t].ses] = "CLOSED"]
    /\ closed' = closed + 1
    /\ Goto(t, "exit_owner")
    /\ UNCHANGED <<connindex, freed, smap, owner, sock, io, output, timers,
                   conneced, connecting, connSession, history, fault>>

\* Nothing in the program closes the connector's session: no branch for it here.
ExitOwner(t) ==
    LET s == th[t].ses IN
    /\ At(t, "exit_owner")
    /\ \/ owner[s] = "acceptor" /\ Goto(t, "exit_acceptor")
       \/ owner[s] = "none"     /\ Goto(t, "exit_lookup")
    /\ UNCHANGED <<sessionIo, timers, counters, history, fault>>

\* The OnClose callback, the counter, the owner pointer.
ExitNotify(t) ==
    LET s == th[t].ses IN
    /\ onclose' = [onclose EXCEPT ![s] = @ + 1]
    /\ owner'   = [owner EXCEPT ![s] = "none"]
    /\ Goto(t, "exit_lookup")
    /\ UNCHANGED <<connindex, freed, smap, status, sock, io, output, timers, closed, closes, users, fault>>

\* Mutant: the client is not counted out.
ExitAcceptorUncounted(t) ==
    /\ At(t, "exit_acceptor")
    /\ ExitNotify(t)
    /\ UNCHANGED <<conneced, connecting, connSession>>

ExitAcceptor(t) ==
    /\ At(t, "exit_acceptor")
    /\ ExitNotify(t)
    /\ conneced' = conneced - 1
    /\ UNCHANGED <<connecting, connSession>>

\* Mutant: the session is not taken out of the map.
ExitLookupSkipsRemove(t) ==
    LET s == th[t].ses IN
    /\ At(t, "exit_lookup")
    /\ CloseSock(s)
    /\ IF s \in smap THEN Goto(t, "exit_arm") ELSE Return(t)
    /\ UNCHANGED <<connindex, freed, smap, status, owner, timers, counters, history, fault>>

\* Not in the map: the socket is closed and nobody will destroy the session.
ExitLookup(t) ==
    LET s == th[t].ses IN
    /\ At(t, "exit_lookup")
    /\ \/ /\ s \in smap
          /\ Goto(t, "exit_remove")
          /\ UNCHANGED <<sock, io, output>>
       \/ /\ s \notin smap
          /\ CloseSock(s)
          /\ Return(t)
    /\ UNCHANGED <<connindex, freed, smap, status, owner, timers, counters, history, fault>>

\* Mutant: erase is forgotten.
ExitRemoveKeepsEntry(t) ==
    /\ At(t, "exit_remove")
    /\ CloseSock(th[t].ses)
    /\ Goto(t, "exit_arm")
    /\ UNCHANGED <<connindex, freed, smap, status, owner, timers, counters, history, fault>>

\* Mutant: handle_exit ends without a wait for handle_destory.
ExitRemoveOnly(t) ==
    /\ At(t, "exit_remove")
    /\ smap' = smap \ {th[t].ses}
    /\ CloseSock(th[t].ses)
    /\ Return(t)
    /\ UNCHANGED <<connindex, freed, status, owner, timers, counters, history, fault>>

ExitRemove(t) ==
    LET s == th[t].ses IN
    /\ At(t, "exit_remove")
    /\ smap' = smap \ {s}
    /\ CloseSock(s)
    /\ Goto(t, "exit_arm")
    /\ UNCHANGED <<connindex, freed, status, owner, timers, counters, history, fault>>

ExitArm(t) ==
    /\ At(t, "exit_arm")
    /\ ArmTimer(th[t].ses, "destroy")
    /\ Return(t)
    /\ UNCHANGED <<sessionIo, counters, history, fault>>

HandleDestroy(t, s) ==
    /\ fault = "none"
    /\ th[t].pc = "idle"
    /\ destroys[s] > 0
    /\ destroys' = [destroys EXCEPT ![s] = @ - 1]
    /\ freed'    = [freed EXCEPT ![s] = @ + 1]
    /\ closed'   = closed - 1
    /\ UNCHANGED <<connindex, smap, status, owner, sock, io, output, timer, exits,
                   conneced, connecting, connSession, history, th, fault>>
-----------------------------------------------------------------------------
(* Undefined behaviour                                                     *)

\* A step through the address of a session that has been destroyed.
StaleUse(t) ==
    /\ fault = "none"
    /\ \E s \in Touches(t) : freed[s] > 0
    /\ fault' = "stale_use"
    /\ UNCHANGED <<sessionIo, timers, counters, history, th>>

\* A callback through an owner pointer that is reloaded after another thread's
\* handle_exit has cleared it.  (The build may also keep the value it tested:
\* then the callback runs as in the steps above.)
NullCall(t) ==
    LET s == th[t].ses IN
    /\ \E pc \in {"deliver_acceptor", "deliver_connector", "exit_acceptor", "write_notify"} :
          At(t, pc)
    /\ owner[s] = "none"
    /\ fault' = "null_call"
    /\ UNCHANGED <<sessionIo, timers, counters, history, th>>

-----------------------------------------------------------------------------
HandlerStep(t) ==
    \/ OnAccept(t) \/ Start(t) \/ Reaccept(t) \/ OnConnect(t)
    \/ ReadCheck(t) \/ DeliverCheck(t) \/ DeliverClient(t) \/ DeliverWeb(t) \/ Rearm(t)
    \/ SendLookup(t) \/ SendCheck(t) \/ SendData(t) \/ CloseSocket(t) \/ AsyncClose(t) \/ Close(t)
    \/ WriteCheck(t) \/ WriteOwner(t) \/ WriteNotify(t)
    \/ ExitCheck(t) \/ ExitMark(t) \/ ExitOwner(t) \/ ExitAcceptor(t)
    \/ ExitLookup(t) \/ ExitRemove(t) \/ ExitArm(t)
    \/ StaleUse(t) \/ NullCall(t)

\* An idle thread picks a queued handler of session s.
RunHandler(t, s) ==
    \/ HandleAcceptError(t, s) \/ HandleAcceptPeerGone(t, s) \/ HandleAccept(t, s)
    \/ HandleConnectError(t, s) \/ HandleConnect(t, s)
    \/ HandleRead(t, s) \/ HandleWrite(t, s) \/ RunExit(t, s) \/ HandleDestroy(t, s)

Next ==
    \/ \E t \in Thread : HandlerStep(t)
    \/ \E t \in Thread, s \in Session : RunHandler(t, s)
    \/ \E s \in Session : IoCompletes(s) \/ WriteCompletes(s) \/ WriteOn(s) \/ TimerExpires(s)

Spec == Init /\ [][Next]_vars

-----------------------------------------------------------------------------
Pcs == {"idle", "on_accept", "start", "reaccept", "on_connect", "read_check",
        "deliver_check", "deliver_acceptor", "deliver_connector", "rearm",
        "send_lookup", "send", "send_write", "closesocket", "asyncclose", "close",
        "write_check", "write_owner", "write_notify", "exit_check", "exit_mark",
        "exit_owner", "exit_acceptor", "exit_lookup", "exit_remove", "exit_arm"}

Handlers == [pc : Pcs, ses : Session \cup {0}, tgt : Session \cup {0},
             ret : {"idle", "start", "reaccept", "on_connect", "rearm", "write_notify"}]

\* Every variable stays in its range.
TypeOK ==
    /\ connindex \in 1 .. MaxId
    /\ freed \in [Session -> Nat]
    /\ smap \subseteq Session
    /\ status \in [Session -> {"IDLE", "CONNECTING", "CONNECTED", "CLOSED", "ERROR"}]
    /\ owner \in [Session -> {"none", "acceptor", "connector"}]
    /\ sock \in [Session -> {"open", "closed"}]
    /\ io \in [Session -> {"none", "accept", "accepted", "acceptfailed", "connect",
                           "connected", "connectfailed", "receive", "received"}]
    /\ writes \in [Session -> Nat] /\ written \in [Session -> Nat]
    /\ timer \in [Session -> {"none", "exit", "destroy"}]
    /\ exits \in [Session -> Nat] /\ destroys \in [Session -> Nat]
    /\ onclose \in [Session -> Nat] /\ closes \in [Session -> Nat]
    /\ conneced \in Int /\ connecting \in Int /\ closed \in Int
    /\ connSession \in Session \cup {0}
    /\ users \subseteq Session
    /\ th \in [Thread -> Handlers]
    /\ fault \in {"none", "stale_use", "null_call"}

-----------------------------------------------------------------------------
(* Safety                                                                  *)

\* GetSession never hands out a session that has been destroyed, however many
\* threads are inside handle_exit, Close and handle_destory at once.
DirectoryLive == smap \subseteq Live

FreshIo == {"accept", "accepted", "acceptfailed", "connect", "connected", "connectfailed"}

\* Everything that still leads to the session object s.
InUse(s) ==
    \/ io[s] # "none" \/ writes[s] > 0 \/ written[s] > 0
    \/ timer[s] # "none" \/ exits[s] > 0 \/ destroys[s] > 0
    \/ \E t \in Thread : s \in Touches(t)

\* socket_.close() and the ten seconds between handle_exit and handle_destory do
\* their work for a session that was asked to close at most once: when it is
\* destroyed, no receive, write or wait, no queued handler (handle_read_sp,
\* handle_write, handle_exit, handle_destory) and no thread refers to it any more,
\* although Session::Send may have tested the status before it was closed and
\* started its write afterwards.
DestroyedIsUnused == \A s \in Session : freed[s] > 0 /\ closes[s] <= 1 => ~InUse(s)

\* Two close requests for one session still make one OnClose callback and one
\* destruction, although the first wait's handler and the second's both run.
CloseOnce == \A s \in Session : closes[s] <= 2 => onclose[s] <= 1 /\ freed[s] <= 1

\* Sessions whose peer was gone when they were accepted.
Orphans == {s \in Constructed \ {WebId} :
               io[s] \notin FreshIo /\ owner[s] = "none" /\ onclose[s] = 0 /\ freed[s] = 0}

\* OnReadComplete of a client never misses the sender's user record: the session
\* whose AddUser failed is shut before its first receive.
UserKnown == \A t \in Thread : th[t].pc = "deliver_acceptor" => th[t].ses \in users

\* The statistics agree with the sessions: s_nTotalConneced counts the clients
\* whose close has not been reported (and the orphans, which never leave it),
\* s_nTotalClosed those closed but not yet destroyed.
CountersExact ==
    (\A s \in Session : closes[s] <= 2) =>
        /\ conneced = Cardinality({s \in Session : owner[s] = "acceptor"}) + Cardinality(Orphans)
        /\ closed = Cardinality({s \in Session : status[s] = "CLOSED" /\ freed[s] = 0})

-----------------------------------------------------------------------------
(* The inductive invariant behind DirectoryLive and LifecycleImplemented   *)

Busy(t, s) == th[t].pc # "idle" /\ th[t].ses = s
NoThread(s) == \A t \in Thread : ~Busy(t, s)
NoTimer(s) == timer[s] = "none" /\ exits[s] = 0 /\ destroys[s] = 0
NoWrite(s) == writes[s] = 0 /\ written[s] = 0

\* Nothing has happened to an id that has not been handed out ...
UnbornUntouched ==
    \A s \in Session : s > connindex =>
        /\ io[s] = "none" /\ status[s] = "IDLE" /\ freed[s] = 0
        /\ s \notin smap /\ NoTimer(s) /\ NoWrite(s) /\ NoThread(s)

\* ... and a session still waiting for its accept or connect handler is private.
FreshPrivate ==
    \A s \in Session : io[s] \in FreshIo =>
        /\ status[s] \in {"IDLE", "CONNECTING"} /\ freed[s] = 0
        /\ s \notin smap /\ NoTimer(s) /\ NoWrite(s) /\ NoThread(s)

\* No message is on its way to a session nobody has heard of.
Heard(s) == io[s] \notin FreshIo /\ s <= connindex

SendsKnown ==
    \A t \in Thread : Sending(t) => th[t].tgt \in Session /\ Heard(th[t].tgt)

\* The part of handle_exit that follows the status change.
ExitTail == {"exit_owner", "exit_acceptor", "exit_lookup",
             "exit_remove", "exit_arm"}

ExitingClosed ==
    \A t \in Thread : th[t].pc \in ExitTail => status[th[t].ses] = "CLOSED"

\* handle_destory is, or is about to be, on its way for s.
DestroyDue(s) ==
    \/ timer[s] = "destroy" \/ destroys[s] > 0
    \/ \E t \in Thread : Busy(t, s) /\ th[t].pc = "exit_arm"

DoomedWithdrawn ==
    \A s \in Session :
        /\ DestroyDue(s) => s \notin smap /\ status[s] = "CLOSED"
        /\ freed[s] > 0 => s \notin smap

HandlersHaveSession == \A t \in Thread : th[t].pc # "idle" => th[t].ses \in Session

SessionInv ==
    /\ TypeOK
    /\ HandlersHaveSession
    /\ UnbornUntouched
    /\ FreshPrivate
    /\ SendsKnown
    /\ ExitingClosed
    /\ DoomedWithdrawn

-----------------------------------------------------------------------------
(* The inductive invariant behind DestroyedIsUnused, CloseOnce, UserKnown  *)
(* and CountersExact                                                       *)

ExitPcs == {"exit_check", "exit_mark"} \cup ExitTail

\* The statements a handler of each kind runs.
HandlersShaped ==
    \A t \in Thread :
        /\ th[t].ret = "idle"       => th[t].pc \in {"idle"} \cup ExitPcs
        /\ th[t].ret = "on_connect" => th[t].pc = "on_connect"
        /\ th[t].ret = "reaccept"   => th[t].pc \in {"exit_check", "exit_mark", "exit_owner",
                                                     "exit_lookup", "reaccept"}
        /\ th[t].ret = "start"      => th[t].pc \in {"on_accept", "closesocket", "send_lookup",
                                                     "send", "send_write", "start",
                                                     "reaccept"} \cup ExitPcs
        /\ th[t].ret = "rearm"      => th[t].pc \in {"read_check", "deliver_check",
                                                     "deliver_acceptor", "deliver_connector",
                                                     "rearm", "send_lookup", "send",
                                                     "send_write", "asyncclose", "close"}
        /\ th[t].ret = "write_notify" => th[t].pc \in {"write_check", "write_owner", "write_notify"}

\* The strand runs one handler of s at a time.
StrandSerial(s) == \A t, u \in Thread : InStrand(t, s) /\ InStrand(u, s) => t = u

\* Only the connector's session is connected, only the others are accepted.
RolesApart(s) ==
    /\ s = WebId  => io[s] \notin {"accept", "accepted", "acceptfailed"} /\ owner[s] # "acceptor"
    /\ s # WebId  => io[s] \notin {"connect", "connected", "connectfailed"}
    /\ s \in smap => s = WebId \/ owner[s] = "acceptor" \/ onclose[s] > 0
    /\ \A t \in Thread : Busy(t, s) /\ th[t].pc = "on_connect" => s = WebId

\* Nothing has been counted or announced for a session that is not open yet.
FreshBlank(s) ==
    ~Heard(s) =>
        closes[s] = 0 /\ onclose[s] = 0 /\ (s = WebId \/ owner[s] = "none")

\* Nothing closes s from outside while its accept handler runs.
AcceptUndisturbed(s) ==
    \A t \in Thread : Busy(t, s) =>
        /\ th[t].ret \in {"start", "reaccept"} =>
              /\ s # WebId /\ timer[s] # "exit" /\ exits[s] = 0
              /\ \A u \in Thread : ~InTimerHandler(u, s)
        /\ th[t].pc \in {"on_accept", "closesocket"} => s \in smap /\ closes[s] = 0
        /\ th[t].ret = "reaccept" =>
              s \notin smap /\ closes[s] = 0 /\ owner[s] = "none" /\ onclose[s] = 0

\* Who receives from s has told UserInfoManager about it, or it is shut.
Known(s) == s \in users \/ s = WebId

Announced(s) ==
    /\ io[s] \in {"receive", "received"} => Known(s) \/ IsShut(s)
    /\ \A t \in Thread : Busy(t, s) =>
          /\ th[t].ret = "rearm" => Known(s) \/ (th[t].pc = "read_check" /\ IsShut(s))
          /\ th[t].ret = "start" /\ th[t].pc \in {"send_lookup", "send", "send_write"} => Known(s)
          /\ th[t].pc = "start"  => Known(s) \/ IsShut(s)
          /\ th[t].pc \in {"deliver_acceptor", "asyncclose", "close"} => s # WebId

\* What a close request that found s becomes: a call of Close, its wait, a queued
\* handler, a running handle_exit.
CloseCalled(s) == \E t \in Thread : Busy(t, s) /\ th[t].pc = "close"
ExitWaits(s)   == timer[s] = "exit"
Exiting(t, s)  == Busy(t, s) /\ th[t].pc \in ExitPcs
DestroyArmed(s) == timer[s] = "destroy" \/ destroys[s] > 0
Withdrawn(s)   == DestroyArmed(s) \/ freed[s] > 0

\* Without a request there is none of these, but for a session accepted too late.
NoRequest(s) ==
    /\ closes[s] = 0 =>
          /\ NoTimer(s) /\ ~CloseCalled(s)
          /\ \A t \in Thread : Exiting(t, s) => th[t].ret = "reaccept"
    /\ closes[s] > 0 => s # WebId /\ (owner[s] = "acceptor" \/ onclose[s] > 0)

\* One request is in one place at a time, and s is not withdrawn before handle_exit.
OneRequest(s) ==
    closes[s] <= 1 =>
        /\ ~(CloseCalled(s) /\ ExitWaits(s))
        /\ CloseCalled(s) \/ ExitWaits(s) => exits[s] = 0
        /\ CloseCalled(s) \/ ExitWaits(s) \/ exits[s] > 0 =>
              ~Withdrawn(s) /\ \A t \in Thread : ~Exiting(t, s)
        /\ \A t \in Thread : Exiting(t, s) => ~Withdrawn(s)

\* Two requests never lead to two handle_exit at once.
ExitsInTurn(s) ==
    closes[s] <= 2 =>
        /\ exits[s] <= 1
        /\ \A t \in Thread : InTimerHandler(t, s) => exits[s] = 0
        /\ \A t, u \in Thread : InTimerHandler(t, s) /\ InTimerHandler(u, s) => t = u
        /\ CloseCalled(s) /\ ExitWaits(s) =>
              exits[s] = 0 /\ \A t \in Thread : ~InTimerHandler(t, s)

\* So the second handle_exit finds s closed, and the first one's work is done once.
ClosedOnce(s) ==
    closes[s] <= 2 =>
        /\ status[s] # "CLOSED" => onclose[s] = 0
        /\ onclose[s] <= 1 /\ (onclose[s] = 1 => owner[s] = "none")
        /\ freed[s] <= 1 /\ destroys[s] <= 1
        /\ destroys[s] > 0 => timer[s] # "destroy"
        /\ DestroyArmed(s) => freed[s] = 0
        /\ \A t \in Thread : Busy(t, s) =>
              /\ th[t].pc = "exit_mark" => ~IsShut(s)
              /\ th[t].pc \in {"exit_mark", "exit_owner", "exit_acceptor"} => onclose[s] = 0
              /\ th[t].pc = "exit_acceptor" => owner[s] = "acceptor"
              /\ th[t].pc \in {"exit_mark"} \cup ExitTail => ~Withdrawn(s)

\* After a single request nothing leads to a session whose handle_destory is queued.
DestroyAlone(s) ==
    closes[s] <= 1 /\ (destroys[s] > 0 \/ freed[s] > 0) =>
        /\ io[s] = "none" /\ NoWrite(s)
        /\ timer[s] = "none" /\ exits[s] = 0
        /\ \A t \in Thread :
              /\ Busy(t, s) => th[t].pc = "on_connect"
              /\ ~(Sending(t) /\ th[t].tgt = s)

CloseSound(s) ==
    /\ StrandSerial(s) /\ RolesApart(s) /\ FreshBlank(s) /\ AcceptUndisturbed(s) /\ Announced(s)
    /\ NoRequest(s) /\ OneRequest(s) /\ ExitsInTurn(s) /\ ClosedOnce(s) /\ DestroyAlone(s)

\* Nothing waits for the peer on a socket that handle_exit has closed, and it closes
\* every socket whose session handle_destory will free.
SocketSound(s) ==
    /\ ~Heard(s) => sock[s] = "open"
    /\ sock[s] = "closed" => io[s] # "receive" /\ writes[s] = 0
    /\ DestroyDue(s) => sock[s] = "closed"

\* The invariant above and, for every session, how its close requests are served:
\* one strand handler and one handle_exit at a time, each step taken once, and
\* nothing left on the socket that only its peer could end.
CloseInv ==
    /\ SessionInv
    /\ connindex >= WebId
    /\ HandlersShaped
    /\ \A s \in Session : CloseSound(s) /\ SocketSound(s)

-----------------------------------------------------------------------------
(* The abstract view of a session                                          *)

PhaseOf(s) ==
    IF s > connindex THEN "unborn"
    ELSE IF freed[s] > 0 THEN "gone"
    ELSE IF status[s] = "CLOSED" THEN "closing"
    ELSE IF status[s] = "CONNECTED" THEN "open"
    ELSE "pending"

Phase == [s \in Session |-> PhaseOf(s)]

Lifecycle == INSTANCE SessionLifecycle WITH phase <- Phase, directory <- smap

\* Whatever the handlers interleave, a session only moves forward through its
\* life, is in the directory only between opening and withdrawal, and is freed
\* only after it has been withdrawn.
LifecycleImplemented == Lifecycle!LifecycleSpec

-----------------------------------------------------------------------------
(* Liveness                                                                *)

\* The scheduler runs every thread that has a handler, io_service runs queued
\* handlers in order, and timers expire.  Nothing makes a peer connect or send.
Fairness ==
    /\ \A t \in Thread : WF_vars(HandlerStep(t))
    /\ \A s \in Session :
          /\ SF_vars(\E t \in Thread : HandleRead(t, s) \/ HandleWrite(t, s))
          /\ SF_vars(\E t \in Thread : RunExit(t, s))
          /\ SF_vars(\E t \in Thread : HandleDestroy(t, s))
          /\ WF_vars(TimerExpires(s))

FairSpec == Spec /\ Fairness

\* A session somebody asked to close is destroyed in the end, unless undefined
\* behaviour stopped the process first.
CloseCompletes ==
    \A s \in Session : closes[s] > 0 ~> (freed[s] > 0 \/ fault # "none")
=============================================================================
