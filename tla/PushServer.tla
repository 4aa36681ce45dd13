----------------------------- MODULE PushServer -----------------------------
(***************************************************************************)
(* The push server on top of the session layer: ClientAcceptor,            *)
(* WebSvrConnector, the message handlers, the users' records and the web   *)
(* server at the other end, which answers one message at a time.           *)
(*                                                                         *)
(* The session layer is SessionLifecycle (SessionLayer implements it): the *)
(* steps here that open, close and free a session are its steps.  The      *)
(* handlers of one session never overlap (its strand), a handler reads     *)
(* shared state once, at its Send, so one step per handler loses nothing.  *)
(***************************************************************************)
EXTENDS Naturals, Sequences

CONSTANTS
    MaxId,          \* bound: the last connection id
    OrderNo,        \* the numbers clients give their orders
    OtherTypes,     \* types of messages that no handler is registered for
    MaxRequests     \* bound: the messages one client sends

ASSUME PushAssumption ==
    /\ MaxId \in Nat /\ MaxId >= 3
    /\ MaxRequests \in Nat
    /\ OrderNo \subseteq Nat
    /\ OtherTypes \cap {"AUTH_SYN", "ORDER_SYN", "WRONG_SIZE"} = {}

FirstId == 2
WebId   == 3        \* the session NetThreadPorc connects to the web server
Ids     == FirstId .. MaxId
Client  == Ids \ {WebId}

VARIABLES
    phase,          \* SessionLifecycle: the phase of every session
    directory,      \* SessionLifecycle: the sessions a lookup by id finds
    accepting,      \* where handle_accept is: waiting for a client, OnAccept, the next async_accept
    webConID,       \* g_iWebServerConID
    chunk,          \* m_connindex as the web session's memory holds it after a failed connect
    user,           \* m_eUserStatus of a connection's record, "none" without a record
    in,             \* what the peer of a session has sent that the server has not handled
    out,            \* what the server has sent to the peer (the web server consumes it)
    requests,       \* how many messages each client has sent
    web             \* the web server process

sessions == <<phase, directory>>
vars == <<phase, directory, accepting, webConID, chunk, user, in, out, requests, web>>

Lifecycle == INSTANCE SessionLifecycle

-----------------------------------------------------------------------------
Msg(type)          == [type |-> type, usr |-> 0, no |-> 0]
OrderMsg(type, c, n) == [type |-> type, usr |-> c, no |-> n]

Reaches(s) == s \in directory /\ phase[s] = "open"

ChangeStatus(c, status) == user' = [user EXCEPT ![c] = status]

\* ::Send(s, m): nothing unless the session is found and not shut.
Send(s, m) ==
    out' = IF Reaches(s) THEN [out EXCEPT ![s] = Append(@, m)] ELSE out

Init ==
    /\ Lifecycle!LifecycleInit
    /\ accepting = [step |-> "wait", id |-> FirstId]
    /\ webConID  = 0
    /\ chunk     = 0
    /\ user      = [c \in Client |-> "none"]
    /\ in        = [s \in Ids |-> <<>>]
    /\ out       = [s \in Ids |-> <<>>]
    /\ requests  = [c \in Client |-> 0]
    /\ web       = "listening"

-----------------------------------------------------------------------------
(* Acceptor::handle_accept with ClientAcceptor::OnAccept.  AddUser and     *)
(* AllocSession find memory up to MaxId.                                   *)

AcceptClient ==
    LET c == accepting.id IN
    /\ accepting.step = "wait"
    /\ Lifecycle!Open(c)
    /\ accepting' = [accepting EXCEPT !.step = "on_accept"]
    /\ UNCHANGED <<webConID, chunk, user, in, out, requests, web>>

\* The client has gone already: handle_exit, no OnAccept.
AcceptPeerGone ==
    /\ accepting.step = "wait"
    /\ Lifecycle!Shut(accepting.id)
    /\ accepting' = [accepting EXCEPT !.step = "reaccept"]
    /\ UNCHANGED <<webConID, chunk, user, in, out, requests, web>>

\* The error branch accepts no further client.
AcceptFails ==
    /\ accepting.step = "wait"
    /\ Lifecycle!Abandon(accepting.id)
    /\ accepting' = [accepting EXCEPT !.step = "stopped"]
    /\ UNCHANGED <<webConID, chunk, user, in, out, requests, web>>

OnAccept ==
    LET c == accepting.id IN
    /\ accepting.step = "on_accept"
    /\ ChangeStatus(c, "CONNECTED")
    /\ Send(c, Msg("SVR_READY"))
    /\ accepting' = [accepting EXCEPT !.step = "reaccept"]
    /\ UNCHANGED <<sessions, webConID, chunk, in, requests, web>>

\* The next session may be built in the memory of the failed web session.
Reaccept ==
    /\ accepting.step = "reaccept"
    /\ \E c \in Client :
          /\ Lifecycle!Create(c)
          /\ accepting' = [step |-> "wait", id |-> c]
          /\ chunk' \in IF chunk = 0 THEN {0} ELSE {chunk, c}
    /\ UNCHANGED <<webConID, user, in, out, requests, web>>

-----------------------------------------------------------------------------
(* Connector::handle_connect with WebSvrConnector::OnConnect               *)

Connect ==
    /\ Lifecycle!Open(WebId)
    /\ webConID' = WebId
    /\ UNCHANGED <<accepting, chunk, user, in, out, requests, web>>

\* The session is destroyed ...
ConnectFails ==
    /\ Lifecycle!Abandon(WebId)
    /\ chunk' = WebId
    /\ UNCHANGED <<accepting, webConID, user, in, out, requests, web>>

\* ... and OnConnect is called all the same, with the id its memory holds.
OnConnectError ==
    /\ chunk # 0
    /\ webConID' = chunk
    /\ chunk' = 0
    /\ UNCHANGED <<sessions, accepting, user, in, out, requests, web>>

-----------------------------------------------------------------------------
(* ClientAcceptor::OnReadComplete and ParsePacket_CS                       *)

\* handle_read_sp has read the next message of session s, which is not shut.
Reads(s) ==
    /\ in[s] # <<>>
    /\ phase[s] = "open"
    /\ accepting.step = "on_accept" => accepting.id # s
    /\ in' = [in EXCEPT ![s] = Tail(@)]

Receives(s, type) == Reads(s) /\ Head(in[s]).type = type

\* The keys RegisterHandler_CS has put into the table of client messages; what is
\* sent with the wrong size has the key of its type.
FuncMap_CS == {"AUTH_SYN", "ORDER_SYN", "WRONG_SIZE"}

\* Another category, or a key Find does not find: nothing is done, and the client stays.
Unhandled(c) ==
    /\ Reads(c)
    /\ Head(in[c]).type \notin FuncMap_CS
    /\ UNCHANGED <<sessions, accepting, webConID, chunk, user, out, requests, web>>

\* Handler_C2S_USER_AUTH_SYN
AuthSyn(c) ==
    /\ Receives(c, "AUTH_SYN")
    /\ Send(c, Msg("AUTH_ACK"))
    /\ UNCHANGED <<sessions, accepting, webConID, chunk, user, requests, web>>

\* Handler_C2S_TEST_ORDER_SYN: passed on to the web server with the connection id.
TestOrderSyn(c) ==
    /\ Receives(c, "ORDER_SYN")
    /\ Send(webConID, OrderMsg("S2W_ORDER", c, Head(in[c]).no))
    /\ UNCHANGED <<sessions, accepting, webConID, chunk, user, requests, web>>

\* Either message with the wrong size: KickUser.  s_emServerType is none of the
\* types it knows, so it sends nothing; the close comes with ExitUser.
KickUser(c) ==
    /\ Receives(c, "WRONG_SIZE")
    /\ ChangeStatus(c, "ERROR")
    /\ UNCHANGED <<sessions, accepting, webConID, chunk, out, requests, web>>

\* Mutant: the users in good standing are closed.
ExitUserNotKicked(c) ==
    /\ user[c] = "CONNECTED"
    /\ Lifecycle!Shut(c)
    /\ UNCHANGED <<accepting, webConID, chunk, user, in, out, requests, web>>

\* AsyncClose has waited: handle_exit.  ClientAcceptor::OnClose does nothing.
ExitUser(c) ==
    /\ user[c] = "ERROR"
    /\ Lifecycle!Shut(c)
    /\ UNCHANGED <<accepting, webConID, chunk, user, in, out, requests, web>>

ExitWithdraw(c) ==
    /\ Lifecycle!Withdraw(c)
    /\ UNCHANGED <<accepting, webConID, chunk, user, in, out, requests, web>>

\* handle_destory, only for a session that was withdrawn: one that was shut before
\* it opened is never freed.
ExitDestroy(c) ==
    /\ user[c] = "ERROR"
    /\ Lifecycle!Free(c)
    /\ UNCHANGED <<accepting, webConID, chunk, user, in, out, requests, web>>

-----------------------------------------------------------------------------
(* WebSvrConnector::OnReadComplete and ParsePacket_WS                      *)

\* Handler_W2S_WSCONNECTED_CMD
WsConnected ==
    /\ Receives(WebId, "WSCONNECTED")
    /\ Send(WebId, Msg("PUSHSVR_AUTH"))
    /\ UNCHANGED <<sessions, accepting, webConID, chunk, user, requests, web>>

\* Handler_W2S_AUTH_RESULT_ACK only prints the result.
AuthResult ==
    /\ Receives(WebId, "AUTH_RESULT")
    /\ UNCHANGED <<sessions, accepting, webConID, chunk, user, out, requests, web>>

\* Mutant: every client is told.
NewOrderBrdToAll ==
    /\ Receives(WebId, "NEWORDERBRD")
    /\ out' = [s \in Ids |-> IF s # WebId /\ Reaches(s) THEN Append(out[s], Msg("ORDER_ACK"))
                                                        ELSE out[s]]
    /\ UNCHANGED <<sessions, accepting, webConID, chunk, user, requests, web>>

\* Mutant: the answer goes back to the web server.
NewOrderBrdToWeb ==
    /\ Receives(WebId, "NEWORDERBRD")
    /\ Send(webConID, Msg("ORDER_ACK"))
    /\ UNCHANGED <<sessions, accepting, webConID, chunk, user, requests, web>>

\* Handler_W2S_NEWORDERBRD_CMD
NewOrderBrd ==
    /\ Receives(WebId, "NEWORDERBRD")
    /\ Send(Head(in[WebId]).usr, Msg("ORDER_ACK"))
    /\ UNCHANGED <<sessions, accepting, webConID, chunk, user, requests, web>>

-----------------------------------------------------------------------------
(* The peers.  A client that goes away only stops sending: the server does *)
(* not notice (see FrameReader).                                           *)

ClientSends(c) ==
    /\ phase[c] = "open"
    /\ requests[c] < MaxRequests
    /\ requests' = [requests EXCEPT ![c] = @ + 1]
    /\ \/ \E type \in {"AUTH_SYN", "WRONG_SIZE"} \cup OtherTypes : in' = [in EXCEPT ![c] = Append(@, Msg(type))]
       \/ \E n \in OrderNo : in' = [in EXCEPT ![c] = Append(@, OrderMsg("ORDER_SYN", 0, n))]
    /\ UNCHANGED <<sessions, accepting, webConID, chunk, user, out, web>>

\* index.php: accept, then ConfirmConnect.
WebAccepts ==
    /\ phase[WebId] = "open"
    /\ web = "listening"
    /\ web' = "serving"
    /\ in' = [in EXCEPT ![WebId] = Append(@, Msg("WSCONNECTED"))]
    /\ UNCHANGED <<sessions, accepting, webConID, chunk, user, out, requests>>

\* msg_handler: one message at a time, answered at once.
WebHandles ==
    /\ web = "serving"
    /\ out[WebId] # <<>>
    /\ LET m == Head(out[WebId]) IN
       in' = [in EXCEPT ![WebId] = Append(@,
                 IF m.type = "PUSHSVR_AUTH" THEN Msg("AUTH_RESULT")
                 ELSE OrderMsg("NEWORDERBRD", m.usr, m.no))]
    /\ out' = [out EXCEPT ![WebId] = Tail(@)]
    /\ UNCHANGED <<sessions, accepting, webConID, chunk, user, requests, web>>

\* The script ends (a failed read or write: "or die").  The server does not notice.
WebDies ==
    /\ web = "serving"
    /\ web' = "dead"
    /\ UNCHANGED <<sessions, accepting, webConID, chunk, user, in, out, requests>>

-----------------------------------------------------------------------------
ServerOfClient(c) ==
    \/ AuthSyn(c) \/ TestOrderSyn(c) \/ KickUser(c) \/ Unhandled(c)
    \/ ExitUser(c) \/ ExitWithdraw(c) \/ ExitDestroy(c)

ServerOfWeb == WsConnected \/ AuthResult \/ NewOrderBrd

Accepting == AcceptClient \/ AcceptPeerGone \/ AcceptFails \/ OnAccept \/ Reaccept

Connecting == Connect \/ ConnectFails \/ OnConnectError

Next ==
    \/ Accepting
    \/ Connecting
    \/ \E c \in Client : ServerOfClient(c) \/ ClientSends(c)
    \/ ServerOfWeb
    \/ WebAccepts \/ WebHandles \/ WebDies

Spec == Init /\ [][Next]_vars

-----------------------------------------------------------------------------
(* Orders                                                                  *)

\* The numbers, in turn, of the messages of one type and user in queue q.
InTransit(q, type, c) ==
    LET Upto[i \in 0 .. Len(q)] ==
            IF i = 0 THEN <<>>
            ELSE IF q[i].type = type /\ q[i].usr = c THEN Append(Upto[i - 1], q[i].no)
            ELSE Upto[i - 1]
    IN  Upto[Len(q)]

\* The orders of client c on their way, those nearest their answer first.
Pending == [c \in Client |->
    InTransit(in[WebId], "NEWORDERBRD", c) \o InTransit(out[WebId], "S2W_ORDER", c)
        \o InTransit(in[c], "ORDER_SYN", 0)]

Answers == [c \in Client |-> Len(InTransit(out[c], "ORDER_ACK", 0))]

Orders == INSTANCE OrderService WITH pending <- Pending, answers <- Answers

\* Orders and answers pass through two processes, three queues and a numeric
\* connection id, and yet every answer goes to the client that placed the order,
\* once, in the order in which it placed them.
OrderServiceImplemented == Orders!OrderSpec

-----------------------------------------------------------------------------
(* Liveness                                                                *)

\* Receive handlers and waits run, and a web server that lives goes on reading.
\* Nothing makes a client connect or send, or the connection to the web server
\* succeed.
Fairness ==
    /\ WF_vars(OnAccept) /\ WF_vars(OnConnectError)
    /\ \A c \in Client :
          /\ WF_vars(AuthSyn(c) \/ TestOrderSyn(c) \/ KickUser(c) \/ Unhandled(c))
          /\ WF_vars(ExitUser(c)) /\ WF_vars(ExitWithdraw(c)) /\ WF_vars(ExitDestroy(c))
    /\ WF_vars(ServerOfWeb)
    /\ WF_vars(WebAccepts) /\ WF_vars(WebHandles)

FairSpec == Spec /\ Fairness

AtWeb(c) == Len(InTransit(in[WebId], "NEWORDERBRD", c)) + Len(InTransit(out[WebId], "S2W_ORDER", c))

\* An order that was passed on to the web server is answered, unless the web server
\* dies or the client is closed.
OrdersAnswered ==
    \A c \in Client : \A k \in 1 .. MaxRequests :
        Answers[c] + AtWeb(c) >= k ~> Answers[c] >= k \/ web = "dead" \/ ~Reaches(c)

\* A user who was kicked is closed and the session freed, whatever else it sends.
KickCloses == \A c \in Client : user[c] = "ERROR" ~> phase[c] = "gone"
=============================================================================
