------------------------- MODULE SessionCloseProofs -------------------------
(* How SessionLayer serves close requests, for any number of threads, ids  *)
(* and closes: what is proved from the invariant CloseInv.                 *)
EXTENDS SessionLayerProofs, FiniteSetTheorems

USE DEF output, sessionIo, timers, counters, history

-----------------------------------------------------------------------------
(* Moves of one thread, with what they keep of its handler                 *)

\* Thread t moves on in the handler it is running.
Moved(t) ==
    /\ th[t].pc # "idle"
    /\ th' \in Running
    /\ \A u \in Thread \ {t} : th'[u] = th[u]
    /\ th'[t].pc # "idle" => th'[t].ses = th[t].ses /\ th'[t].ret = th[t].ret
    /\ th'[t].pc = "idle" => th'[t].ret = "idle"
    /\ th'[t].pc \in {"send", "send_write"} => th'[t].tgt = th[t].tgt

\* The next statement.
LEMMA GotoMoved ==
  ASSUME th \in Running, NEW t \in Thread, th[t].pc # "idle", NEW p \in Pcs \ {"idle"}, Goto(t, p)
  PROVE  Moved(t) /\ th'[t].pc = p
BY DEF Goto, Moved, Handlers, Running

\* The end of the handler.
LEMMA FinishMoved ==
  ASSUME th \in Running, NEW t \in Thread, th[t].pc # "idle", Finish(t)
  PROVE  Moved(t) /\ th'[t].pc = "idle"
<1>1. Idle \in Handlers /\ Idle.pc = "idle" /\ Idle.ret = "idle" BY DEF Idle, Handlers, Pcs
<1>. QED BY <1>1 DEF Finish, Moved, Running

\* The return from handle_exit, Close or Send.
LEMMA ReturnMoved ==
  ASSUME th \in Running, NEW t \in Thread, th[t].pc # "idle", Return(t)
  PROVE  Moved(t) /\ th'[t].pc = th[t].ret
<1>1. CASE th[t].ret = "idle" BY <1>1, FinishMoved DEF Return
<1>2. CASE th[t].ret # "idle"
  <2> DEFINE r == [th[t] EXCEPT !.pc = th[t].ret, !.tgt = 0]
  <2>1. th[t] \in Handlers BY DEF Running
  <2>2. th[t].ret \in {"start", "reaccept", "on_connect", "rearm", "write_notify"} /\ th[t].ret \in Pcs
    BY <1>2, <2>1 DEF Handlers, Pcs
  <2>3. r \in Handlers /\ r.pc = th[t].ret /\ r.ses = th[t].ses /\ r.ret = th[t].ret
    BY <2>1, <2>2 DEF Handlers
  <2>4. th' = [th EXCEPT ![t] = r] BY <1>2 DEF Return
  <2> HIDE DEF r
  <2>. QED BY <2>2, <2>3, <2>4 DEF Moved, Running
<1>. QED BY <1>1, <1>2

\* A call of Send.
LEMMA CallMoved ==
  ASSUME th \in Running, NEW t \in Thread, th[t].pc # "idle", NEW u \in Session, Call(t, u)
  PROVE  Moved(t) /\ th'[t].pc = "send_lookup"
<1> DEFINE r == [th[t] EXCEPT !.pc = "send_lookup", !.tgt = u]
<1>1. th[t] \in Handlers BY DEF Running
<1>2. r \in Handlers /\ r.pc = "send_lookup" /\ r.ses = th[t].ses /\ r.ret = th[t].ret
  BY <1>1 DEF Handlers, Pcs
<1>3. th' = [th EXCEPT ![t] = r] BY DEF Call
<1> HIDE DEF r
<1>. QED BY <1>2, <1>3 DEF Moved, Running

\* Thread t takes a handler of s whose first statement is p and which returns to r.
Taken(t, s, p, r) ==
    /\ th[t].pc = "idle"
    /\ th' \in Running
    /\ \A u \in Thread \ {t} : th'[u] = th[u]
    /\ th'[t].pc = p /\ th'[t].ses = s /\ th'[t].ret = r

LEMMA EnterTaken ==
  ASSUME th \in Running, NEW t \in Thread, NEW s \in Session, NEW p \in Pcs,
         NEW r \in ReturnPcs, Enter(t, s, p, r)
  PROVE  Taken(t, s, p, r)
<1> DEFINE h == [pc |-> p, ses |-> s, tgt |-> 0, ret |-> r]
<1>1. h \in Handlers /\ h.pc = p /\ h.ses = s /\ h.ret = r BY DEF Handlers, ReturnPcs
<1>2. th' = [th EXCEPT ![t] = h] BY DEF Enter
<1> HIDE DEF h
<1>. QED BY <1>1, <1>2 DEF Enter, Running, Taken

-----------------------------------------------------------------------------
(* Sessions a step does not concern                                        *)

\* Writes of r are started only by a thread inside Send.
WritesFollow(r) == NoWrite(r) => NoWrite(r)' \/ \E u \in Thread : Sending(u) /\ th[u].tgt = r

\* The step changes nothing of session r, its socket and its writes apart, and of the
\* handlers that run for it.
Untouched(r) ==
    /\ io'[r] = io[r] /\ status'[r] = status[r] /\ owner'[r] = owner[r]
    /\ timer'[r] = timer[r] /\ exits'[r] = exits[r] /\ destroys'[r] = destroys[r]
    /\ onclose'[r] = onclose[r] /\ closes'[r] = closes[r] /\ freed'[r] = freed[r]
    /\ r \in smap' <=> r \in smap
    /\ r \in users => r \in users'
    /\ r <= connindex => r <= connindex'
    /\ \A t \in Thread : th'[t].pc # "idle" /\ th'[t].ses = r => th'[t] = th[t]
    /\ \A t \in Thread : Sending(t)' /\ th'[t].tgt = r => (Sending(t) /\ th[t].tgt = r) \/ r \in smap
    /\ WritesFollow(r)

\* Then r is as sound after it as before.
LEMMA UntouchedSound ==
  ASSUME SessionInv, NEW r \in Session, CloseSound(r), Untouched(r)
  PROVE  CloseSound(r)'
<1> USE DEF Untouched, CloseSound
<1>1. StrandSerial(r)' BY DEF StrandSerial, InStrand
<1>2. RolesApart(r)' BY DEF RolesApart, Busy
<1>3. AcceptUndisturbed(r)' BY DEF AcceptUndisturbed, Busy, InTimerHandler
<1>4. Announced(r)' BY DEF Announced, Busy, Known, IsShut
<1>5. NoRequest(r)' BY DEF NoRequest, NoTimer, CloseCalled, Exiting, Busy
<1>6. OneRequest(r)'
  BY DEF OneRequest, CloseCalled, ExitWaits, Exiting, Busy, Withdrawn, DestroyArmed
<1>7. ExitsInTurn(r)' BY DEF ExitsInTurn, CloseCalled, ExitWaits, InTimerHandler, Busy
<1>8. ClosedOnce(r)' BY DEF ClosedOnce, DestroyArmed, Withdrawn, IsShut, Busy
<1>9. r \in smap => ~(destroys[r] > 0) /\ ~(freed[r] > 0)
  BY DEF SessionInv, DoomedWithdrawn, DestroyDue, TypeOK
<1>10. DestroyAlone(r)' BY <1>9 DEF DestroyAlone, WritesFollow, Busy
<1>11. FreshBlank(r)' BY DEF FreshBlank, Heard
<1>. QED BY <1>1, <1>2, <1>3, <1>4, <1>5, <1>6, <1>7, <1>8, <1>10, <1>11

-----------------------------------------------------------------------------
(* Steps that only move a thread, or receive                               *)

\* What no such step changes.
data == <<freed, smap, status, owner, timer, exits, destroys, onclose, closes>>

\* The thread comes to a statement it may come to, and finds there what it needs.
Lands(t) ==
    LET s == th[t].ses
        q == th[t].pc
        p == th'[t].pc
    IN
    /\ p \notin {"on_accept", "on_connect", "read_check", "close",
                 "exit_check", "exit_owner", "exit_arm"}
    /\ p = "closesocket" => q = "on_accept"
    /\ q = "on_connect" => p = "idle"
    /\ p # "idle" /\ th[t].ret = "rearm" => Known(s)
    /\ p \in {"send_lookup", "send", "send_write"} /\ th[t].ret = "start" => s \in users'
    /\ p = "start" => s \in users' \/ IsShut(s)
    /\ p \in {"deliver_acceptor", "asyncclose"} => s # WebId
    /\ p = "exit_mark" => q = "exit_check" /\ ~IsShut(s) /\ freed[s] = 0
    /\ p = "exit_acceptor" => q = "exit_owner" /\ owner[s] = "acceptor"
    /\ p = "exit_lookup" => q = "exit_owner"
    /\ p = "exit_remove" => q = "exit_lookup"
    /\ p = "send" => th[t].tgt \in smap
    /\ p = "send_write" => q = "send"
    /\ \/ io'[s] = io[s]
       \/ io'[s] \in {"receive", "received"} /\ q # "on_connect" /\ (s \in users' \/ s = WebId \/ IsShut(s))

\* A handler's session has been handed out and is past its accept or connect.
LEMMA BusyBorn ==
  ASSUME SessionInv, NEW r \in Session, NEW t \in Thread, Busy(t, r)
  PROVE  r <= connindex /\ io[r] \notin FreshIo
BY BusyHeard DEF NoThread, Heard

\* Such a step keeps every session sound.
LEMMA WalkSound ==
  ASSUME CloseInv, NEW t \in Thread, Moved(t), UNCHANGED data, users \subseteq users',
         connindex' \in Int, connindex <= connindex', Lands(t),
         NEW r \in Session, r # th[t].ses => io'[r] = io[r], WritesFollow(r)
  PROVE  CloseSound(r)'
<1>1. CASE r # th[t].ses
  <2>1. connindex \in Int /\ r \in Int
    BY MaxIdAssumption DEF CloseInv, SessionInv, TypeOK, Session, FirstId
  <2>2. r <= connindex => r <= connindex' BY <2>1
  <2>3. Untouched(r) BY <1>1, <2>2 DEF Moved, Lands, Untouched, Sending, data
  <2>. QED BY <2>3, UntouchedSound DEF CloseInv
<1>2. CASE r = th[t].ses
  <2> USE <1>2 DEF data
  <2>0. /\ CloseSound(r) /\ SessionInv /\ TypeOK
        /\ Busy(t, r)
        /\ \A u \in Thread \ {t} : th'[u] = th[u]
        /\ th'[t].pc # "idle" => th'[t].ses = r /\ th'[t].ret = th[t].ret
        /\ th'[t].pc = "idle" => th'[t].ret = "idle"
    BY DEF CloseInv, SessionInv, Moved, Busy
  <2>1. StrandSerial(r)'
    BY <2>0 DEF CloseSound, StrandSerial, InStrand, Busy
  <2>2. RolesApart(r)'
    BY <2>0 DEF CloseSound, RolesApart, Busy, Lands
  <2>3. AcceptUndisturbed(r)'
    BY <2>0 DEF CloseSound, AcceptUndisturbed, Busy, InTimerHandler, Lands
  <2>4. Announced(r)'
    BY <2>0 DEF CloseSound, Announced, Busy, Known, IsShut, Lands
  <2>5. NoRequest(r)'
    BY <2>0 DEF CloseSound, NoRequest, NoTimer, CloseCalled, Exiting, ExitPcs, ExitTail, Busy, Lands
  <2>6. OneRequest(r)'
    BY <2>0 DEF CloseSound, OneRequest, CloseCalled, ExitWaits, Exiting, ExitPcs, ExitTail, Busy, Withdrawn,
       DestroyArmed, Lands
  <2>7. ExitsInTurn(r)'
    BY <2>0 DEF CloseSound, ExitsInTurn, CloseCalled, ExitWaits, InTimerHandler, Busy, Lands
  <2>8. ClosedOnce(r)'
    <3>1. th'[t].pc = "exit_mark" => ~Withdrawn(r) /\ status[r] # "CLOSED"
      BY <2>0 DEF Lands, IsShut, Withdrawn, DestroyArmed, SessionInv, DoomedWithdrawn, DestroyDue, TypeOK
    <3>. QED BY <2>0, <3>1
         DEF CloseSound, ClosedOnce, DestroyArmed, Withdrawn, IsShut, Busy, ExitTail, Lands
  <2>9. th'[t].pc \in {"send", "send_write"} => th'[t].tgt = th[t].tgt
    BY DEF Moved
  <2>10. DestroyAlone(r)'
    BY <2>0, <2>9
    DEF CloseSound, DestroyAlone, WritesFollow, Sending, Busy, Lands, SessionInv, DoomedWithdrawn, DestroyDue, TypeOK
  <2>11. FreshBlank(r)'
    <3>1. r <= connindex /\ io[r] \notin FreshIo
      BY <2>0, BusyBorn
    <3>2. connindex \in Int BY <2>0, MaxIdAssumption DEF SessionInv, TypeOK
    <3>3. r \in Int BY DEF Session, FirstId
    <3>. QED BY <3>1, <3>2, <3>3 DEF FreshBlank, Heard, Lands, FreshIo
  <2>. QED BY <2>1, <2>2, <2>3, <2>4, <2>5, <2>6, <2>7, <2>8, <2>10, <2>11 DEF CloseSound
<1>. QED BY <1>1, <1>2

\* What is left of the invariant to prove when SessionInv is known to be kept.
Kept == connindex' >= WebId /\ HandlersShaped' /\ \A r \in Session : CloseSound(r)'

\* The statements that only move a thread.
WalkStep(t) ==
    \/ OnAccept(t) \/ OnConnect(t) \/ ReadCheck(t) \/ DeliverCheck(t) \/ DeliverClient(t)
    \/ DeliverWeb(t) \/ SendLookup(t) \/ SendCheck(t) \/ SendData(t) \/ WriteCheck(t)
    \/ WriteOwner(t) \/ WriteNotify(t) \/ ExitCheck(t) \/ ExitOwner(t) \/ Start(t)
    \/ Rearm(t) \/ ExitLookup(t)

\* They keep the invariant: one case each.
LEMMA WalkKept ==
  ASSUME CloseInv, NEW t \in Thread, WalkStep(t)
  PROVE  Kept
<1> DEFINE s == th[t].ses
<1> USE DEF Kept
<1>0. /\ TypeOK /\ HandlersHaveSession /\ HandlersShaped /\ ExitingClosed /\ th \in Running /\ connindex >= WebId
      /\ s \in Session => CloseSound(s)
      /\ th[t].ret \in ReturnPcs
  BY DEF CloseInv, SessionInv, TypeOK, Running, Handlers, ReturnPcs
<1>1. CASE OnAccept(t)
  <2>1. th[t].pc = "on_accept" /\ s \in Session BY <1>0, <1>1 DEF OnAccept, At, HandlersHaveSession
  <2>2. Moved(t) /\ (th'[t].pc = "closesocket" \/ (th'[t].pc = "send_lookup" /\ s \in users'))
    BY <1>0, <1>1, <2>1, GotoMoved, CallMoved DEF OnAccept, At, Pcs
  <2>3. /\ UNCHANGED <<data, connindex>> /\ users \subseteq users'
        /\ UNCHANGED io /\ \A r \in Session : WritesFollow(r)
    BY <1>0, <1>1, <2>1 DEF OnAccept, data, WritesFollow, NoWrite
  <2>4. Lands(t)
    BY <1>0, <2>1, <2>2, <2>3
    DEF Lands, Busy, HandlersShaped, CloseSound, Announced, RolesApart, AcceptUndisturbed, Known, IsShut, ReturnPcs, ExitPcs, ExitTail
  <2>5. HandlersShaped'
    BY <1>0, <2>1, <2>2 DEF Moved, HandlersShaped, ExitPcs, ExitTail, ReturnPcs
  <2>. QED BY <1>0, <2>2, <2>3, <2>4, <2>5, WalkSound DEF TypeOK
<1>2. CASE OnConnect(t)
  <2>1. th[t].pc = "on_connect" /\ s \in Session BY <1>0, <1>2 DEF OnConnect, At, HandlersHaveSession
  <2>2. Moved(t) /\ th'[t].pc = "idle"
    BY <1>0, <1>2, <2>1, FinishMoved DEF OnConnect, At, Pcs
  <2>3. /\ UNCHANGED <<data, connindex>> /\ users \subseteq users'
        /\ UNCHANGED io /\ \A r \in Session : WritesFollow(r)
    BY <1>0, <1>2, <2>1 DEF OnConnect, data, WritesFollow, NoWrite
  <2>4. Lands(t)
    BY <1>0, <2>1, <2>2, <2>3
    DEF Lands, Busy, HandlersShaped, CloseSound, Announced, RolesApart, AcceptUndisturbed, Known, IsShut, ReturnPcs, ExitPcs, ExitTail
  <2>5. HandlersShaped'
    BY <1>0, <2>1, <2>2 DEF Moved, HandlersShaped, ExitPcs, ExitTail, ReturnPcs
  <2>. QED BY <1>0, <2>2, <2>3, <2>4, <2>5, WalkSound DEF TypeOK
<1>3. CASE ReadCheck(t)
  <2>1. th[t].pc = "read_check" /\ s \in Session BY <1>0, <1>3 DEF ReadCheck, At, HandlersHaveSession
  <2>2. Moved(t) /\ (th'[t].pc = "idle" \/ (th'[t].pc \in {"rearm", "deliver_check"} /\ ~IsShut(s)))
    BY <1>0, <1>3, <2>1, FinishMoved, GotoMoved DEF ReadCheck, At, Pcs, IsShut, Touches, ByIdOnly
  <2>3. /\ UNCHANGED <<data, connindex>> /\ users \subseteq users'
        /\ UNCHANGED io /\ \A r \in Session : WritesFollow(r)
    BY <1>0, <1>3, <2>1 DEF ReadCheck, data, WritesFollow, NoWrite
  <2>4. Lands(t)
    BY <1>0, <2>1, <2>2, <2>3
    DEF Lands, Busy, HandlersShaped, CloseSound, Announced, RolesApart, AcceptUndisturbed, Known, IsShut, ReturnPcs, ExitPcs, ExitTail
  <2>5. HandlersShaped'
    BY <1>0, <2>1, <2>2 DEF Moved, HandlersShaped, ExitPcs, ExitTail, ReturnPcs
  <2>. QED BY <1>0, <2>2, <2>3, <2>4, <2>5, WalkSound DEF TypeOK
<1>4. CASE DeliverCheck(t)
  <2>1. th[t].pc = "deliver_check" /\ s \in Session BY <1>0, <1>4 DEF DeliverCheck, At, HandlersHaveSession
  <2>2. Moved(t) /\ (th'[t].pc \in {"deliver_connector", "rearm"} \/ (th'[t].pc = "deliver_acceptor" /\ owner[s] = "acceptor"))
    BY <1>0, <1>4, <2>1, GotoMoved DEF DeliverCheck, At, Pcs
  <2>3. /\ UNCHANGED <<data, connindex>> /\ users \subseteq users'
        /\ UNCHANGED io /\ \A r \in Session : WritesFollow(r)
    BY <1>0, <1>4, <2>1 DEF DeliverCheck, data, WritesFollow, NoWrite
  <2>4. Lands(t)
    BY <1>0, <2>1, <2>2, <2>3
    DEF Lands, Busy, HandlersShaped, CloseSound, Announced, RolesApart, AcceptUndisturbed, Known, IsShut, ReturnPcs, ExitPcs, ExitTail
  <2>5. HandlersShaped'
    BY <1>0, <2>1, <2>2 DEF Moved, HandlersShaped, ExitPcs, ExitTail, ReturnPcs
  <2>. QED BY <1>0, <2>2, <2>3, <2>4, <2>5, WalkSound DEF TypeOK
<1>5. CASE DeliverClient(t)
  <2>1. th[t].pc = "deliver_acceptor" /\ s \in Session BY <1>0, <1>5 DEF DeliverClient, At, HandlersHaveSession
  <2>2. Moved(t) /\ th'[t].pc \in {"rearm", "asyncclose", "send_lookup"}
    BY <1>0, <1>5, <2>1, GotoMoved, CallMoved DEF DeliverClient, At, Pcs, Addressee
  <2>3. /\ UNCHANGED <<data, connindex>> /\ users \subseteq users'
        /\ UNCHANGED io /\ \A r \in Session : WritesFollow(r)
    BY <1>0, <1>5, <2>1 DEF DeliverClient, data, WritesFollow, NoWrite
  <2>4. Lands(t)
    BY <1>0, <2>1, <2>2, <2>3
    DEF Lands, Busy, HandlersShaped, CloseSound, Announced, RolesApart, AcceptUndisturbed, Known, IsShut, ReturnPcs, ExitPcs, ExitTail
  <2>5. HandlersShaped'
    BY <1>0, <2>1, <2>2 DEF Moved, HandlersShaped, ExitPcs, ExitTail, ReturnPcs
  <2>. QED BY <1>0, <2>2, <2>3, <2>4, <2>5, WalkSound DEF TypeOK
<1>6. CASE DeliverWeb(t)
  <2>1. th[t].pc = "deliver_connector" /\ s \in Session BY <1>0, <1>6 DEF DeliverWeb, At, HandlersHaveSession
  <2>2. Moved(t) /\ th'[t].pc \in {"rearm", "send_lookup"}
    BY <1>0, <1>6, <2>1, GotoMoved, CallMoved DEF DeliverWeb, At, Pcs, Addressee
  <2>3. /\ UNCHANGED <<data, connindex>> /\ users \subseteq users'
        /\ UNCHANGED io /\ \A r \in Session : WritesFollow(r)
    BY <1>0, <1>6, <2>1 DEF DeliverWeb, data, WritesFollow, NoWrite
  <2>4. Lands(t)
    BY <1>0, <2>1, <2>2, <2>3
    DEF Lands, Busy, HandlersShaped, CloseSound, Announced, RolesApart, AcceptUndisturbed, Known, IsShut, ReturnPcs, ExitPcs, ExitTail
  <2>5. HandlersShaped'
    BY <1>0, <2>1, <2>2 DEF Moved, HandlersShaped, ExitPcs, ExitTail, ReturnPcs
  <2>. QED BY <1>0, <2>2, <2>3, <2>4, <2>5, WalkSound DEF TypeOK
<1>7. CASE SendLookup(t)
  <2>1. th[t].pc = "send_lookup" /\ s \in Session BY <1>0, <1>7 DEF SendLookup, At, HandlersHaveSession
  <2>2. Moved(t) /\ (th'[t].pc = th[t].ret \/ (th'[t].pc = "send" /\ th[t].tgt \in smap))
    BY <1>0, <1>7, <2>1, GotoMoved, ReturnMoved DEF SendLookup, At, Pcs
  <2>3. /\ UNCHANGED <<data, connindex>> /\ users \subseteq users'
        /\ UNCHANGED io /\ \A r \in Session : WritesFollow(r)
    BY <1>0, <1>7, <2>1 DEF SendLookup, data, WritesFollow, NoWrite
  <2>4. Lands(t)
    BY <1>0, <2>1, <2>2, <2>3
    DEF Lands, Busy, HandlersShaped, CloseSound, Announced, RolesApart, AcceptUndisturbed, Known, IsShut, ReturnPcs, ExitPcs, ExitTail
  <2>5. HandlersShaped'
    BY <1>0, <2>1, <2>2 DEF Moved, HandlersShaped, ExitPcs, ExitTail, ReturnPcs
  <2>. QED BY <1>0, <2>2, <2>3, <2>4, <2>5, WalkSound DEF TypeOK
<1>8. CASE SendData(t)
  <2>1. th[t].pc = "send_write" /\ s \in Session BY <1>0, <1>8 DEF SendData, At, HandlersHaveSession
  <2>2. Moved(t) /\ th'[t].pc = th[t].ret
    BY <1>0, <1>8, <2>1, ReturnMoved DEF SendData, At, Pcs
  <2>3. /\ UNCHANGED <<data, connindex>> /\ users \subseteq users'
        /\ UNCHANGED io /\ \A r \in Session : WritesFollow(r)
    BY <1>0, <1>8, <2>1 DEF SendData, data, WritesFollow, NoWrite, AsyncWrite, Sending, TypeOK
  <2>4. Lands(t)
    BY <1>0, <2>1, <2>2, <2>3
    DEF Lands, Busy, HandlersShaped, CloseSound, Announced, RolesApart, AcceptUndisturbed, Known, IsShut, ReturnPcs, ExitPcs, ExitTail
  <2>5. HandlersShaped'
    BY <1>0, <2>1, <2>2 DEF Moved, HandlersShaped, ExitPcs, ExitTail, ReturnPcs
  <2>. QED BY <1>0, <2>2, <2>3, <2>4, <2>5, WalkSound DEF TypeOK
<1>9. CASE ExitCheck(t)
  <2>1. th[t].pc = "exit_check" /\ s \in Session BY <1>0, <1>9 DEF ExitCheck, At, HandlersHaveSession
  <2>2. Moved(t) /\ ((th'[t].pc = th[t].ret /\ IsShut(s)) \/ (th'[t].pc = "exit_mark" /\ ~IsShut(s) /\ freed[s] = 0))
    BY <1>0, <1>9, <2>1, GotoMoved, ReturnMoved DEF ExitCheck, At, Pcs, IsShut, Touches, ByIdOnly, Sending
  <2>3. /\ UNCHANGED <<data, connindex>> /\ users \subseteq users'
        /\ UNCHANGED io /\ \A r \in Session : WritesFollow(r)
    BY <1>0, <1>9, <2>1 DEF ExitCheck, data, WritesFollow, NoWrite
  <2>4. Lands(t)
    BY <1>0, <2>1, <2>2, <2>3
    DEF Lands, Busy, HandlersShaped, CloseSound, Announced, RolesApart, AcceptUndisturbed, Known, IsShut, ReturnPcs, ExitPcs, ExitTail
  <2>5. HandlersShaped'
    BY <1>0, <2>1, <2>2 DEF Moved, HandlersShaped, ExitPcs, ExitTail, ReturnPcs
  <2>. QED BY <1>0, <2>2, <2>3, <2>4, <2>5, WalkSound DEF TypeOK
<1>10. CASE ExitOwner(t)
  <2>1. th[t].pc = "exit_owner" /\ s \in Session BY <1>0, <1>10 DEF ExitOwner, At, HandlersHaveSession
  <2>2. Moved(t) /\ (th'[t].pc = "exit_lookup" \/ (th'[t].pc = "exit_acceptor" /\ owner[s] = "acceptor"))
    BY <1>0, <1>10, <2>1, GotoMoved DEF ExitOwner, At, Pcs
  <2>3. /\ UNCHANGED <<data, connindex>> /\ users \subseteq users'
        /\ UNCHANGED io /\ \A r \in Session : WritesFollow(r)
    BY <1>0, <1>10, <2>1 DEF ExitOwner, data, WritesFollow, NoWrite
  <2>4. Lands(t)
    BY <1>0, <2>1, <2>2, <2>3
    DEF Lands, Busy, HandlersShaped, CloseSound, Announced, RolesApart, AcceptUndisturbed, Known, IsShut, ReturnPcs, ExitPcs, ExitTail
  <2>5. HandlersShaped'
    BY <1>0, <2>1, <2>2 DEF Moved, HandlersShaped, ExitPcs, ExitTail, ReturnPcs, Busy, CloseSound, AcceptUndisturbed
  <2>. QED BY <1>0, <2>2, <2>3, <2>4, <2>5, WalkSound DEF TypeOK
<1>11. CASE Start(t)
  <2>1. th[t].pc = "start" /\ s \in Session BY <1>0, <1>11 DEF Start, At, HandlersHaveSession
  <2>2. Moved(t) /\ th'[t].pc = "reaccept"
    BY <1>0, <1>11, <2>1, GotoMoved DEF Start, At, Pcs
  <2>3. /\ UNCHANGED <<data, connindex>> /\ users \subseteq users'
        /\ (\A r \in Session \ {s} : io'[r] = io[r]) /\ io'[s] \in {"receive", "received"}
        /\ \A r \in Session : WritesFollow(r)
    BY <1>0, <1>11, <2>1 DEF Start, data, AsyncReceive, TypeOK, WritesFollow, NoWrite
  <2>4. Lands(t)
    BY <1>0, <2>1, <2>2, <2>3
    DEF Lands, Busy, HandlersShaped, CloseSound, Announced, RolesApart, AcceptUndisturbed, Known, IsShut, ReturnPcs, ExitPcs, ExitTail
  <2>5. HandlersShaped'
    BY <1>0, <2>1, <2>2 DEF Moved, HandlersShaped, ExitPcs, ExitTail, ReturnPcs
  <2>. QED BY <1>0, <2>2, <2>3, <2>4, <2>5, WalkSound DEF TypeOK
<1>12. CASE Rearm(t)
  <2>1. th[t].pc = "rearm" /\ s \in Session BY <1>0, <1>12 DEF Rearm, At, HandlersHaveSession
  <2>2. Moved(t) /\ th'[t].pc = "idle"
    BY <1>0, <1>12, <2>1, FinishMoved DEF Rearm, At, Pcs
  <2>3. /\ UNCHANGED <<data, connindex>> /\ users \subseteq users'
        /\ (\A r \in Session \ {s} : io'[r] = io[r]) /\ io'[s] \in {"receive", "received"}
        /\ \A r \in Session : WritesFollow(r)
    BY <1>0, <1>12, <2>1 DEF Rearm, data, AsyncReceive, TypeOK, WritesFollow, NoWrite
  <2>4. Lands(t)
    BY <1>0, <2>1, <2>2, <2>3
    DEF Lands, Busy, HandlersShaped, CloseSound, Announced, RolesApart, AcceptUndisturbed, Known, IsShut, ReturnPcs, ExitPcs, ExitTail
  <2>5. HandlersShaped'
    BY <1>0, <2>1, <2>2 DEF Moved, HandlersShaped, ExitPcs, ExitTail, ReturnPcs
  <2>. QED BY <1>0, <2>2, <2>3, <2>4, <2>5, WalkSound DEF TypeOK
<1>13. CASE ExitLookup(t)
  <2>1. th[t].pc = "exit_lookup" /\ s \in Session BY <1>0, <1>13 DEF ExitLookup, At, HandlersHaveSession
  <2>2. Moved(t) /\ (th'[t].pc = th[t].ret \/ (th'[t].pc = "exit_remove" /\ s \in smap))
    BY <1>0, <1>13, <2>1, GotoMoved, ReturnMoved DEF ExitLookup, At, Pcs
  <2>3. /\ UNCHANGED <<data, connindex>> /\ users \subseteq users'
        /\ (\A r \in Session \ {s} : io'[r] = io[r])
        /\ io'[s] = io[s] \/ (io[s] = "receive" /\ io'[s] = "received")
        /\ \A r \in Session : WritesFollow(r)
    BY <1>0, <1>13, <2>1 DEF ExitLookup, data, CloseSock, TypeOK, WritesFollow, NoWrite
  <2>4. Lands(t)
    BY <1>0, <2>1, <2>2, <2>3
    DEF Lands, Busy, HandlersShaped, CloseSound, Announced, RolesApart, AcceptUndisturbed, Known, IsShut, ReturnPcs, ExitPcs, ExitTail, ExitingClosed
  <2>5. HandlersShaped'
    BY <1>0, <2>1, <2>2 DEF Moved, HandlersShaped, ExitPcs, ExitTail, ReturnPcs, Busy, CloseSound, AcceptUndisturbed
  <2>. QED BY <1>0, <2>2, <2>3, <2>4, <2>5, WalkSound DEF TypeOK
<1>14. CASE SendCheck(t)
  <2>1. th[t].pc = "send" /\ s \in Session BY <1>0, <1>14 DEF SendCheck, At, HandlersHaveSession
  <2>2. Moved(t) /\ (th'[t].pc = th[t].ret \/ th'[t].pc = "send_write")
    BY <1>0, <1>14, <2>1, GotoMoved, ReturnMoved DEF SendCheck, At, Pcs
  <2>3. /\ UNCHANGED <<data, connindex>> /\ users \subseteq users'
        /\ UNCHANGED io /\ \A r \in Session : WritesFollow(r)
    BY <1>0, <1>14, <2>1 DEF SendCheck, data, WritesFollow, NoWrite
  <2>4. Lands(t)
    BY <1>0, <2>1, <2>2, <2>3
    DEF Lands, Busy, HandlersShaped, CloseSound, Announced, RolesApart, AcceptUndisturbed, Known, IsShut, ReturnPcs, ExitPcs, ExitTail
  <2>5. HandlersShaped'
    BY <1>0, <2>1, <2>2 DEF Moved, HandlersShaped, ExitPcs, ExitTail, ReturnPcs
  <2>. QED BY <1>0, <2>2, <2>3, <2>4, <2>5, WalkSound DEF TypeOK
<1>15. CASE WriteCheck(t)
  <2>1. th[t].pc = "write_check" /\ s \in Session BY <1>0, <1>15 DEF WriteCheck, At, HandlersHaveSession
  <2>2. Moved(t) /\ th'[t].pc \in {"idle", "write_owner"}
    BY <1>0, <1>15, <2>1, GotoMoved, FinishMoved DEF WriteCheck, At, Pcs
  <2>3. /\ UNCHANGED <<data, connindex>> /\ users \subseteq users'
        /\ UNCHANGED io /\ \A r \in Session : WritesFollow(r)
    BY <1>0, <1>15, <2>1 DEF WriteCheck, data, WritesFollow, NoWrite
  <2>4. Lands(t)
    BY <1>0, <2>1, <2>2, <2>3
    DEF Lands, Busy, HandlersShaped, CloseSound, Announced, RolesApart, AcceptUndisturbed, Known, IsShut, ReturnPcs, ExitPcs, ExitTail
  <2>5. HandlersShaped'
    BY <1>0, <2>1, <2>2 DEF Moved, HandlersShaped, ExitPcs, ExitTail, ReturnPcs
  <2>. QED BY <1>0, <2>2, <2>3, <2>4, <2>5, WalkSound DEF TypeOK
<1>16. CASE WriteOwner(t)
  <2>1. th[t].pc = "write_owner" /\ s \in Session BY <1>0, <1>16 DEF WriteOwner, At, HandlersHaveSession
  <2>2. Moved(t) /\ th'[t].pc \in {"idle", "write_notify"}
    BY <1>0, <1>16, <2>1, GotoMoved, FinishMoved DEF WriteOwner, At, Pcs
  <2>3. /\ UNCHANGED <<data, connindex>> /\ users \subseteq users'
        /\ UNCHANGED io /\ \A r \in Session : WritesFollow(r)
    BY <1>0, <1>16, <2>1 DEF WriteOwner, data, WritesFollow, NoWrite
  <2>4. Lands(t)
    BY <1>0, <2>1, <2>2, <2>3
    DEF Lands, Busy, HandlersShaped, CloseSound, Announced, RolesApart, AcceptUndisturbed, Known, IsShut, ReturnPcs, ExitPcs, ExitTail
  <2>5. HandlersShaped'
    BY <1>0, <2>1, <2>2 DEF Moved, HandlersShaped, ExitPcs, ExitTail, ReturnPcs
  <2>. QED BY <1>0, <2>2, <2>3, <2>4, <2>5, WalkSound DEF TypeOK
<1>17. CASE WriteNotify(t)
  <2>1. th[t].pc = "write_notify" /\ s \in Session BY <1>0, <1>17 DEF WriteNotify, At, HandlersHaveSession
  <2>2. Moved(t) /\ th'[t].pc = "idle"
    BY <1>0, <1>17, <2>1, FinishMoved DEF WriteNotify, At, Pcs
  <2>3. /\ UNCHANGED <<data, connindex>> /\ users \subseteq users'
        /\ UNCHANGED io /\ \A r \in Session : WritesFollow(r)
    BY <1>0, <1>17, <2>1 DEF WriteNotify, data, WritesFollow, NoWrite
  <2>4. Lands(t)
    BY <1>0, <2>1, <2>2, <2>3
    DEF Lands, Busy, HandlersShaped, CloseSound, Announced, RolesApart, AcceptUndisturbed, Known, IsShut, ReturnPcs, ExitPcs, ExitTail
  <2>5. HandlersShaped'
    BY <1>0, <2>1, <2>2 DEF Moved, HandlersShaped, ExitPcs, ExitTail, ReturnPcs
  <2>. QED BY <1>0, <2>2, <2>3, <2>4, <2>5, WalkSound DEF TypeOK
<1>. QED BY <1>1, <1>2, <1>3, <1>4, <1>5, <1>6, <1>7, <1>8, <1>9, <1>10, <1>11, <1>12, <1>13,
         <1>14, <1>15, <1>16, <1>17 DEF WalkStep

-----------------------------------------------------------------------------
(* Statements that change the session it runs for                  *)

\* At most one thread is inside handle_exit of a session closed at most twice.
LEMMA SoleExit ==
  ASSUME HandlersShaped, th \in Running, NEW r \in Session, CloseSound(r), closes[r] <= 2,
         NEW t \in Thread, NEW u \in Thread, Exiting(t, r), Exiting(u, r)
  PROVE  t = u
<1>1. CASE th[t].ret = "idle" /\ th[u].ret = "idle"
  BY <1>1 DEF CloseSound, ExitsInTurn, InTimerHandler, Exiting, Busy
<1>2. CASE th[t].ret # "idle" /\ th[u].ret # "idle"
  BY <1>2 DEF CloseSound, StrandSerial, InStrand, Exiting, Busy
<1>3. ASSUME NEW x \in Thread, NEW y \in Thread, Exiting(x, r), Exiting(y, r),
             th[x].ret = "idle", th[y].ret # "idle"
      PROVE  FALSE
  <2>1. th[y].ret \in {"start", "reaccept"}
    BY <1>3 DEF Running, Handlers, HandlersShaped, Exiting, ExitPcs, ExitTail
  <2>2. InTimerHandler(x, r) /\ Busy(y, r) BY <1>3 DEF InTimerHandler, Exiting, Busy
  <2>. QED BY <2>1, <2>2 DEF CloseSound, AcceptUndisturbed
<1>. QED BY <1>1, <1>2, <1>3

\* The strand runs at most one call of Close for a session.
LEMMA SoleClose ==
  ASSUME HandlersShaped, NEW r \in Session, CloseSound(r),
         NEW t \in Thread, NEW u \in Thread, Busy(t, r), th[t].pc = "close", Busy(u, r), th[u].ret # "idle"
  PROVE  t = u
BY DEF HandlersShaped, CloseSound, StrandSerial, InStrand, Busy, ExitPcs, ExitTail

\* Each of these statements keeps the invariant.
LEMMA ChangeKept ==
  ASSUME CloseInv, NEW t \in Thread, Close(t) \/ ExitMark(t) \/ ExitAcceptor(t) \/ ExitRemove(t) \/ ExitArm(t)
  PROVE  Kept
<1> DEFINE s == th[t].ses
<1> USE DEF Kept
<1>0. /\ SessionInv /\ TypeOK /\ HandlersHaveSession /\ HandlersShaped /\ ExitingClosed /\ DoomedWithdrawn
      /\ th \in Running /\ connindex >= WebId /\ \A r \in Session : CloseSound(r)
      /\ \A u \in Thread : th[u].ret \in ReturnPcs
  BY DEF CloseInv, SessionInv, TypeOK, Running, Handlers, ReturnPcs
<1>1. CASE Close(t)
  <2>1. th[t].pc = "close" /\ s \in Session /\ Busy(t, s) BY <1>0, <1>1 DEF Close, At, HandlersHaveSession, Busy
  <2>2. Moved(t) /\ th'[t].pc = "rearm" /\ th[t].ret = "rearm"
    BY <1>0, <1>1, <2>1, ReturnMoved DEF Close, At, Pcs, HandlersShaped, ReturnPcs, ExitPcs, ExitTail
  <2>3. /\ UNCHANGED <<connindex, freed, smap, status, owner, io, onclose, closes, users, output>>
        /\ \A r \in Session \ {s} : timer'[r] = timer[r] /\ exits'[r] = exits[r] /\ destroys'[r] = destroys[r]
        /\ timer'[s] = "exit"
        /\ exits'[s] = IF timer[s] = "exit" THEN exits[s] + 1 ELSE exits[s]
        /\ destroys'[s] = IF timer[s] = "destroy" THEN destroys[s] + 1 ELSE destroys[s]
    BY <1>0, <1>1, <2>1 DEF Close, ArmTimer, TypeOK
  <2>4. \A r \in Session \ {s} : Untouched(r)
    BY <1>0, <2>1, <2>2, <2>3 DEF WritesFollow, NoWrite, Sending, Moved, Untouched, TypeOK, ReturnPcs
  <2>5. \A r \in Session \ {s} : CloseSound(r)' BY <1>0, <2>4, UntouchedSound
  <2>6. HandlersShaped'
    BY <1>0, <2>1, <2>2 DEF Moved, HandlersShaped, ExitPcs, ExitTail, ReturnPcs
  <2>7. ASSUME NEW r \in Session, r = s PROVE CloseSound(r)'
    <3>0. /\ CloseSound(r) /\ r = s
          /\ timer[r] \in {"none", "exit", "destroy"}
          /\ exits[r] \in Nat /\ destroys[r] \in Nat /\ onclose[r] \in Nat
          /\ closes[r] \in Nat /\ freed[r] \in Nat
          /\ r <= connindex /\ io[r] \notin FreshIo
          /\ \A u \in Thread \ {t} : th'[u] = th[u]
          /\ th'[t].pc # "idle" => th'[t].ses = s /\ th'[t].ret = th[t].ret
          /\ th'[t].pc = "idle" => th'[t].ret = "idle"
      BY <1>0, <2>1, <2>2, <2>7, BusyBorn DEF Moved, TypeOK
    <3>a. CloseCalled(r) /\ ~CloseCalled(r)'
      BY <1>0, <2>1, <2>2, <3>0, SoleClose DEF CloseCalled, Busy, HandlersShaped, ExitPcs, ExitTail
    <3>1. StrandSerial(r)'
      BY <1>0, <2>1, <2>2, <2>3, <3>0 DEF CloseSound, StrandSerial, Busy, InStrand, ReturnPcs
    <3>2. RolesApart(r)'
      BY <1>0, <2>1, <2>2, <2>3, <3>0 DEF CloseSound, RolesApart, Busy, ReturnPcs
    <3>3. AcceptUndisturbed(r)'
      BY <1>0, <2>1, <2>2, <2>3, <3>0
      DEF CloseSound, AcceptUndisturbed, Busy, InTimerHandler, ReturnPcs, StrandSerial, InStrand,
          HandlersShaped, ExitPcs, ExitTail
    <3>4. Announced(r)'
      BY <1>0, <2>1, <2>2, <2>3, <3>0 DEF CloseSound, Announced, Busy, Known, IsShut, ReturnPcs
    <3>5. NoRequest(r)'
      BY <1>0, <2>1, <2>2, <2>3, <3>0 DEF CloseSound, NoRequest, Busy, NoTimer, CloseCalled, Exiting, ExitPcs, ExitTail, ReturnPcs
    <3>6. OneRequest(r)'
      BY <1>0, <2>1, <2>2, <2>3, <3>0, <3>a
      DEF CloseSound, OneRequest, Busy, CloseCalled, ExitWaits, Exiting, ExitPcs, ExitTail,
          Withdrawn, DestroyArmed, ReturnPcs
    <3>7. ExitsInTurn(r)'
      BY <1>0, <2>1, <2>2, <2>3, <3>0, <3>a DEF CloseSound, ExitsInTurn, Busy, CloseCalled, ExitWaits, InTimerHandler, ReturnPcs
    <3>8. ClosedOnce(r)'
      BY <1>0, <2>1, <2>2, <2>3, <3>0 DEF CloseSound, ClosedOnce, Busy, DestroyArmed, Withdrawn, IsShut, ExitTail, ReturnPcs
    <3>10. DestroyAlone(r)'
      BY <1>0, <2>1, <2>2, <2>3, <3>0, <3>a DEF NoWrite, Sending, CloseSound, DestroyAlone, Busy, ReturnPcs, OneRequest, Withdrawn, DestroyArmed
    <3>11. FreshBlank(r)'
      BY <1>0, <2>1, <2>2, <2>3, <3>0 DEF Heard, CloseSound, FreshBlank, Busy, FreshIo, ReturnPcs
    <3>. QED BY <3>1, <3>2, <3>3, <3>4, <3>5, <3>6, <3>7, <3>8, <3>10, <3>11 DEF CloseSound
  <2>. QED BY <1>0, <2>3, <2>5, <2>6, <2>7
<1>2. CASE ExitMark(t)
  <2>1. th[t].pc = "exit_mark" /\ s \in Session /\ Busy(t, s) BY <1>0, <1>2 DEF ExitMark, At, HandlersHaveSession, Busy
  <2>2. Moved(t) /\ th'[t].pc = "exit_owner"
    BY <1>0, <1>2, <2>1, GotoMoved DEF ExitMark, At, Pcs
  <2>3. /\ UNCHANGED <<connindex, freed, smap, owner, io, timer, exits, destroys, onclose, closes, users, output>>
        /\ \A r \in Session \ {s} : status'[r] = status[r]
        /\ status'[s] = "CLOSED"
    BY <1>0, <1>2, <2>1 DEF ExitMark, TypeOK
  <2>4. \A r \in Session \ {s} : Untouched(r)
    BY <1>0, <2>1, <2>2, <2>3 DEF WritesFollow, NoWrite, Sending, Moved, Untouched, TypeOK, ReturnPcs
  <2>5. \A r \in Session \ {s} : CloseSound(r)' BY <1>0, <2>4, UntouchedSound
  <2>6. HandlersShaped'
    BY <1>0, <2>1, <2>2 DEF Moved, HandlersShaped, ExitPcs, ExitTail, ReturnPcs
  <2>7. ASSUME NEW r \in Session, r = s PROVE CloseSound(r)'
    <3>0. /\ CloseSound(r) /\ r = s
          /\ timer[r] \in {"none", "exit", "destroy"}
          /\ exits[r] \in Nat /\ destroys[r] \in Nat /\ onclose[r] \in Nat
          /\ closes[r] \in Nat /\ freed[r] \in Nat
          /\ r <= connindex /\ io[r] \notin FreshIo
          /\ \A u \in Thread \ {t} : th'[u] = th[u]
          /\ th'[t].pc # "idle" => th'[t].ses = s /\ th'[t].ret = th[t].ret
          /\ th'[t].pc = "idle" => th'[t].ret = "idle"
      BY <1>0, <2>1, <2>2, <2>7, BusyBorn DEF Moved, TypeOK
    <3>a. Exiting(t, r) /\ (closes[r] <= 2 => \A u \in Thread : Exiting(u, r) => u = t)
      BY <1>0, <2>1, <3>0, SoleExit DEF Exiting, ExitPcs, ExitTail
    <3>1. StrandSerial(r)'
      BY <1>0, <2>1, <2>2, <2>3, <3>0 DEF CloseSound, StrandSerial, Busy, InStrand, ReturnPcs
    <3>2. RolesApart(r)'
      BY <1>0, <2>1, <2>2, <2>3, <3>0 DEF CloseSound, RolesApart, Busy, ReturnPcs
    <3>3. AcceptUndisturbed(r)'
      BY <1>0, <2>1, <2>2, <2>3, <3>0 DEF CloseSound, AcceptUndisturbed, Busy, InTimerHandler, ReturnPcs
    <3>4. Announced(r)'
      BY <1>0, <2>1, <2>2, <2>3, <3>0 DEF CloseSound, Announced, Busy, Known, IsShut, ReturnPcs
    <3>5. NoRequest(r)'
      BY <1>0, <2>1, <2>2, <2>3, <3>0 DEF CloseSound, NoRequest, Busy, NoTimer, CloseCalled, Exiting, ExitPcs, ExitTail, ReturnPcs
    <3>6. OneRequest(r)'
      BY <1>0, <2>1, <2>2, <2>3, <3>0
      DEF CloseSound, OneRequest, Busy, CloseCalled, ExitWaits, Exiting, ExitPcs, ExitTail,
          Withdrawn, DestroyArmed, ReturnPcs
    <3>7. ExitsInTurn(r)'
      BY <1>0, <2>1, <2>2, <2>3, <3>0 DEF CloseSound, ExitsInTurn, Busy, CloseCalled, ExitWaits, InTimerHandler, ReturnPcs
    <3>8. ClosedOnce(r)'
      BY <1>0, <2>1, <2>2, <2>3, <3>0, <3>a
      DEF CloseSound, ClosedOnce, Busy, DestroyArmed, Withdrawn, IsShut, ExitTail, ReturnPcs,
          Exiting, ExitPcs
    <3>10. DestroyAlone(r)'
      BY <1>0, <2>1, <2>2, <2>3, <3>0 DEF NoWrite, Sending, CloseSound, DestroyAlone, Busy, ReturnPcs
    <3>11. FreshBlank(r)'
      BY <1>0, <2>1, <2>2, <2>3, <3>0 DEF Heard, CloseSound, FreshBlank, Busy, FreshIo, ReturnPcs
    <3>. QED BY <3>1, <3>2, <3>3, <3>4, <3>5, <3>6, <3>7, <3>8, <3>10, <3>11 DEF CloseSound
  <2>. QED BY <1>0, <2>3, <2>5, <2>6, <2>7
<1>3. CASE ExitAcceptor(t)
  <2>1. th[t].pc = "exit_acceptor" /\ s \in Session /\ Busy(t, s) BY <1>0, <1>3 DEF ExitAcceptor, ExitNotify, At, HandlersHaveSession, Busy
  <2>2. Moved(t) /\ th'[t].pc = "exit_lookup"
    BY <1>0, <1>3, <2>1, GotoMoved DEF ExitAcceptor, ExitNotify, At, Pcs
  <2>3. /\ UNCHANGED <<connindex, freed, smap, status, io, timer, exits, destroys, closes, users, output>>
        /\ \A r \in Session \ {s} : owner'[r] = owner[r] /\ onclose'[r] = onclose[r]
        /\ owner'[s] = "none"
        /\ onclose'[s] = onclose[s] + 1
    BY <1>0, <1>3, <2>1 DEF ExitAcceptor, ExitNotify, TypeOK
  <2>4. \A r \in Session \ {s} : Untouched(r)
    BY <1>0, <2>1, <2>2, <2>3 DEF WritesFollow, NoWrite, Sending, Moved, Untouched, TypeOK, ReturnPcs
  <2>5. \A r \in Session \ {s} : CloseSound(r)' BY <1>0, <2>4, UntouchedSound
  <2>6. HandlersShaped'
    BY <1>0, <2>1, <2>2 DEF Moved, HandlersShaped, ExitPcs, ExitTail, ReturnPcs
  <2>7. ASSUME NEW r \in Session, r = s PROVE CloseSound(r)'
    <3>0. /\ CloseSound(r) /\ r = s
          /\ timer[r] \in {"none", "exit", "destroy"}
          /\ exits[r] \in Nat /\ destroys[r] \in Nat /\ onclose[r] \in Nat
          /\ closes[r] \in Nat /\ freed[r] \in Nat
          /\ r <= connindex /\ io[r] \notin FreshIo
          /\ \A u \in Thread \ {t} : th'[u] = th[u]
          /\ th'[t].pc # "idle" => th'[t].ses = s /\ th'[t].ret = th[t].ret
          /\ th'[t].pc = "idle" => th'[t].ret = "idle"
      BY <1>0, <2>1, <2>2, <2>7, BusyBorn DEF Moved, TypeOK
    <3>a. Exiting(t, r) /\ (closes[r] <= 2 => \A u \in Thread : Exiting(u, r) => u = t)
      BY <1>0, <2>1, <3>0, SoleExit DEF Exiting, ExitPcs, ExitTail
    <3>1. StrandSerial(r)'
      BY <1>0, <2>1, <2>2, <2>3, <3>0 DEF CloseSound, StrandSerial, Busy, InStrand, ReturnPcs
    <3>2. RolesApart(r)'
      BY <1>0, <2>1, <2>2, <2>3, <3>0 DEF CloseSound, RolesApart, Busy, ReturnPcs
    <3>3. AcceptUndisturbed(r)'
      BY <1>0, <2>1, <2>2, <2>3, <3>0
      DEF CloseSound, AcceptUndisturbed, Busy, InTimerHandler, ReturnPcs, StrandSerial, InStrand,
          HandlersShaped, ExitPcs, ExitTail
    <3>4. Announced(r)'
      BY <1>0, <2>1, <2>2, <2>3, <3>0 DEF CloseSound, Announced, Busy, Known, IsShut, ReturnPcs
    <3>5. NoRequest(r)'
      BY <1>0, <2>1, <2>2, <2>3, <3>0 DEF CloseSound, NoRequest, Busy, NoTimer, CloseCalled, Exiting, ExitPcs, ExitTail, ReturnPcs
    <3>6. OneRequest(r)'
      BY <1>0, <2>1, <2>2, <2>3, <3>0
      DEF CloseSound, OneRequest, Busy, CloseCalled, ExitWaits, Exiting, ExitPcs, ExitTail,
          Withdrawn, DestroyArmed, ReturnPcs
    <3>7. ExitsInTurn(r)'
      BY <1>0, <2>1, <2>2, <2>3, <3>0 DEF CloseSound, ExitsInTurn, Busy, CloseCalled, ExitWaits, InTimerHandler, ReturnPcs
    <3>8. ClosedOnce(r)'
      BY <1>0, <2>1, <2>2, <2>3, <3>0, <3>a
      DEF CloseSound, ClosedOnce, Busy, DestroyArmed, Withdrawn, IsShut, ExitTail, ReturnPcs,
          Exiting, ExitPcs, ExitingClosed
    <3>10. DestroyAlone(r)'
      BY <1>0, <2>1, <2>2, <2>3, <3>0 DEF NoWrite, Sending, CloseSound, DestroyAlone, Busy, ReturnPcs
    <3>11. FreshBlank(r)'
      BY <1>0, <2>1, <2>2, <2>3, <3>0 DEF Heard, CloseSound, FreshBlank, Busy, FreshIo, ReturnPcs
    <3>. QED BY <3>1, <3>2, <3>3, <3>4, <3>5, <3>6, <3>7, <3>8, <3>10, <3>11 DEF CloseSound
  <2>. QED BY <1>0, <2>3, <2>5, <2>6, <2>7
<1>4. CASE ExitRemove(t)
  <2>1. th[t].pc = "exit_remove" /\ s \in Session /\ Busy(t, s) BY <1>0, <1>4 DEF ExitRemove, At, HandlersHaveSession, Busy
  <2>2. Moved(t) /\ th'[t].pc = "exit_arm"
    BY <1>0, <1>4, <2>1, GotoMoved DEF ExitRemove, At, Pcs
  <2>3. /\ UNCHANGED <<connindex, freed, status, owner, timer, exits, destroys, onclose, closes, users>>
        /\ \A r \in Session \ {s} : io'[r] = io[r] /\ writes'[r] = writes[r] /\ written'[r] = written[r]
        /\ \A r \in Session : NoWrite(r) => NoWrite(r)'
        /\ smap' = smap \ {s}
        /\ io'[s] = io[s] \/ (io[s] = "receive" /\ io'[s] = "received")
    <3>1. /\ UNCHANGED <<connindex, freed, status, owner, timer, exits, destroys, onclose, closes, users>>
          /\ smap' = smap \ {s} /\ CloseSock(s)
      BY <1>4 DEF ExitRemove
    <3>2. writes'[s] = 0 /\ written'[s] = written[s] + writes[s]
      BY <1>0, <2>1, <3>1 DEF CloseSock, TypeOK
    <3>3. \A r \in Session \ {s} : writes'[r] = writes[r] /\ written'[r] = written[r]
      BY <1>0, <2>1, <3>1 DEF CloseSock, TypeOK
    <3>4. \A r \in Session : NoWrite(r) => NoWrite(r)' BY <3>2, <3>3 DEF NoWrite
    <3>. QED BY <1>0, <2>1, <3>1, <3>3, <3>4 DEF CloseSock, TypeOK
  <2>4. \A r \in Session \ {s} : Untouched(r)
    BY <1>0, <2>1, <2>2, <2>3 DEF WritesFollow, NoWrite, Sending, Moved, Untouched, TypeOK, ReturnPcs
  <2>5. \A r \in Session \ {s} : CloseSound(r)' BY <1>0, <2>4, UntouchedSound
  <2>6. HandlersShaped'
    BY <1>0, <2>1, <2>2 DEF Moved, HandlersShaped, ExitPcs, ExitTail, ReturnPcs
  <2>7. ASSUME NEW r \in Session, r = s PROVE CloseSound(r)'
    <3>0. /\ CloseSound(r) /\ r = s
          /\ timer[r] \in {"none", "exit", "destroy"}
          /\ exits[r] \in Nat /\ destroys[r] \in Nat /\ onclose[r] \in Nat
          /\ closes[r] \in Nat /\ freed[r] \in Nat
          /\ r <= connindex /\ io[r] \notin FreshIo
          /\ \A u \in Thread \ {t} : th'[u] = th[u]
          /\ th'[t].pc # "idle" => th'[t].ses = s /\ th'[t].ret = th[t].ret
          /\ th'[t].pc = "idle" => th'[t].ret = "idle"
      BY <1>0, <2>1, <2>2, <2>7, BusyBorn DEF Moved, TypeOK
    <3>a. Exiting(t, r) /\ (closes[r] <= 2 => \A u \in Thread : Exiting(u, r) => u = t)
      BY <1>0, <2>1, <3>0, SoleExit DEF Exiting, ExitPcs, ExitTail
    <3>1. StrandSerial(r)'
      BY <1>0, <2>1, <2>2, <2>3, <3>0 DEF CloseSound, StrandSerial, Busy, InStrand, ReturnPcs
    <3>2. RolesApart(r)'
      BY <1>0, <2>1, <2>2, <2>3, <3>0 DEF CloseSound, RolesApart, Busy, ReturnPcs
    <3>3. AcceptUndisturbed(r)'
      BY <1>0, <2>1, <2>2, <2>3, <3>0
      DEF CloseSound, AcceptUndisturbed, Busy, InTimerHandler, ReturnPcs, StrandSerial, InStrand,
          HandlersShaped, ExitPcs, ExitTail
    <3>4. Announced(r)'
      BY <1>0, <2>1, <2>2, <2>3, <3>0 DEF CloseSound, Announced, Busy, Known, IsShut, ReturnPcs
    <3>5. NoRequest(r)'
      BY <1>0, <2>1, <2>2, <2>3, <3>0 DEF CloseSound, NoRequest, Busy, NoTimer, CloseCalled, Exiting, ExitPcs, ExitTail, ReturnPcs
    <3>6. OneRequest(r)'
      BY <1>0, <2>1, <2>2, <2>3, <3>0
      DEF CloseSound, OneRequest, Busy, CloseCalled, ExitWaits, Exiting, ExitPcs, ExitTail,
          Withdrawn, DestroyArmed, ReturnPcs
    <3>7. ExitsInTurn(r)'
      BY <1>0, <2>1, <2>2, <2>3, <3>0 DEF CloseSound, ExitsInTurn, Busy, CloseCalled, ExitWaits, InTimerHandler, ReturnPcs
    <3>8. ClosedOnce(r)'
      BY <1>0, <2>1, <2>2, <2>3, <3>0 DEF CloseSound, ClosedOnce, Busy, DestroyArmed, Withdrawn, IsShut, ExitTail, ReturnPcs
    <3>10. DestroyAlone(r)'
      BY <1>0, <2>1, <2>2, <2>3, <3>0 DEF NoWrite, Sending, CloseSound, DestroyAlone, Busy, ReturnPcs
    <3>11. FreshBlank(r)'
      BY <1>0, <2>1, <2>2, <2>3, <3>0 DEF Heard, CloseSound, FreshBlank, Busy, FreshIo, ReturnPcs
    <3>. QED BY <3>1, <3>2, <3>3, <3>4, <3>5, <3>6, <3>7, <3>8, <3>10, <3>11 DEF CloseSound
  <2>. QED BY <1>0, <2>3, <2>5, <2>6, <2>7
<1>5. CASE ExitArm(t)
  <2>1. th[t].pc = "exit_arm" /\ s \in Session /\ Busy(t, s) BY <1>0, <1>5 DEF ExitArm, At, HandlersHaveSession, Busy
  <2>2. Moved(t) /\ th'[t].pc = th[t].ret
    BY <1>0, <1>5, <2>1, ReturnMoved DEF ExitArm, At, Pcs
  <2>3. /\ UNCHANGED <<connindex, freed, smap, status, owner, io, onclose, closes, users, output>>
        /\ \A r \in Session \ {s} : timer'[r] = timer[r] /\ exits'[r] = exits[r] /\ destroys'[r] = destroys[r]
        /\ timer'[s] = "destroy"
        /\ exits'[s] = IF timer[s] = "exit" THEN exits[s] + 1 ELSE exits[s]
        /\ destroys'[s] = IF timer[s] = "destroy" THEN destroys[s] + 1 ELSE destroys[s]
    BY <1>0, <1>5, <2>1 DEF ExitArm, ArmTimer, TypeOK
  <2>4. \A r \in Session \ {s} : Untouched(r)
    BY <1>0, <2>1, <2>2, <2>3 DEF WritesFollow, NoWrite, Sending, Moved, Untouched, TypeOK, ReturnPcs
  <2>5. \A r \in Session \ {s} : CloseSound(r)' BY <1>0, <2>4, UntouchedSound
  <2>6. HandlersShaped'
    BY <1>0, <2>1, <2>2 DEF Moved, HandlersShaped, ExitPcs, ExitTail, ReturnPcs
  <2>7. ASSUME NEW r \in Session, r = s PROVE CloseSound(r)'
    <3>0. /\ CloseSound(r) /\ r = s
          /\ timer[r] \in {"none", "exit", "destroy"}
          /\ exits[r] \in Nat /\ destroys[r] \in Nat /\ onclose[r] \in Nat
          /\ closes[r] \in Nat /\ freed[r] \in Nat
          /\ r <= connindex /\ io[r] \notin FreshIo
          /\ \A u \in Thread \ {t} : th'[u] = th[u]
          /\ th'[t].pc # "idle" => th'[t].ses = s /\ th'[t].ret = th[t].ret
          /\ th'[t].pc = "idle" => th'[t].ret = "idle"
      BY <1>0, <2>1, <2>2, <2>7, BusyBorn DEF Moved, TypeOK
    <3>a. Exiting(t, r) /\ (closes[r] <= 2 => \A u \in Thread : Exiting(u, r) => u = t)
      BY <1>0, <2>1, <3>0, SoleExit DEF Exiting, ExitPcs, ExitTail
    <3>1. StrandSerial(r)'
      BY <1>0, <2>1, <2>2, <2>3, <3>0 DEF CloseSound, StrandSerial, Busy, InStrand, ReturnPcs
    <3>2. RolesApart(r)'
      BY <1>0, <2>1, <2>2, <2>3, <3>0
      DEF CloseSound, RolesApart, Busy, ReturnPcs, StrandSerial, InStrand, HandlersShaped, ExitPcs,
          ExitTail
    <3>3. AcceptUndisturbed(r)'
      BY <1>0, <2>1, <2>2, <2>3, <3>0 DEF CloseSound, AcceptUndisturbed, Busy, InTimerHandler, ReturnPcs
    <3>4. Announced(r)'
      BY <1>0, <2>1, <2>2, <2>3, <3>0
      DEF CloseSound, Announced, Busy, Known, IsShut, ReturnPcs, ExitingClosed, StrandSerial,
          InStrand, HandlersShaped, ExitPcs, ExitTail
    <3>5. NoRequest(r)'
      BY <1>0, <2>1, <2>2, <2>3, <3>0
      DEF CloseSound, NoRequest, Busy, NoTimer, CloseCalled, Exiting, ExitPcs, ExitTail, ReturnPcs,
          StrandSerial, InStrand, HandlersShaped
    <3>b. th[t].ret \in {"idle", "start"}
      BY <1>0, <2>1 DEF HandlersShaped, ReturnPcs
    <3>c. closes[r] <= 1 => ~CloseCalled(r) /\ ~ExitWaits(r) /\ exits[r] = 0
      BY <3>0, <3>a DEF CloseSound, OneRequest
    <3>d. closes[r] <= 2 => ~Withdrawn(r)
      BY <2>1, <3>0 DEF CloseSound, ClosedOnce, ExitTail
    <3>e. closes[r] <= 2 => exits[r] = 0 /\ \A u \in Thread : InTimerHandler(u, r) => u = t
      BY <2>1, <3>0, <3>b DEF CloseSound, ExitsInTurn, AcceptUndisturbed, InTimerHandler, Busy
    <3>f. \A u \in Thread : Exiting(u, r)' => Exiting(u, r) /\ u # t
      BY <2>2, <3>0, <3>b DEF Exiting, Busy, ExitPcs, ExitTail
    <3>6. OneRequest(r)'
      <4>1. ~ExitWaits(r)' BY <2>3, <3>0 DEF ExitWaits
      <4>2. ~CloseCalled(r) => ~CloseCalled(r)' BY <2>2, <3>0, <3>b DEF CloseCalled, Busy
      <4>. QED BY <2>3, <3>0, <3>a, <3>c, <3>f, <4>1, <4>2 DEF OneRequest, ExitWaits
    <3>7. ExitsInTurn(r)'
      <4>1. \A u \in Thread : InTimerHandler(u, r)' => InTimerHandler(u, r) /\ u # t
        BY <2>2, <3>0, <3>b DEF InTimerHandler
      <4>. QED BY <2>3, <3>0, <3>e, <4>1 DEF ExitsInTurn, ExitWaits
    <3>8. ClosedOnce(r)'
      BY <1>0, <2>1, <2>2, <2>3, <3>0, <3>a
      DEF CloseSound, ClosedOnce, Busy, DestroyArmed, Withdrawn, IsShut, ExitTail, ReturnPcs,
          Exiting, StrandSerial, InStrand, HandlersShaped, ExitPcs
    <3>10. DestroyAlone(r)'
      BY <2>3, <3>0, <3>d DEF NoWrite, Sending, DestroyAlone, Withdrawn, DestroyArmed
    <3>11. FreshBlank(r)'
      BY <1>0, <2>1, <2>2, <2>3, <3>0 DEF Heard, CloseSound, FreshBlank, Busy, FreshIo, ReturnPcs
    <3>. QED BY <3>1, <3>2, <3>3, <3>4, <3>5, <3>6, <3>7, <3>8, <3>10, <3>11 DEF CloseSound
  <2>. QED BY <1>0, <2>3, <2>5, <2>6, <2>7
<1>. QED BY <1>1, <1>2, <1>3, <1>4, <1>5

\* A close request that finds the session, and the end of the accept handler.
LEMMA RequestKept ==
  ASSUME CloseInv, NEW t \in Thread, CloseSocket(t) \/ AsyncClose(t) \/ Reaccept(t)
  PROVE  Kept
<1> DEFINE s == th[t].ses
<1> USE DEF Kept
<1>0. /\ SessionInv /\ TypeOK /\ HandlersHaveSession /\ HandlersShaped /\ ExitingClosed /\ DoomedWithdrawn
      /\ th \in Running /\ connindex >= WebId /\ \A r \in Session : CloseSound(r)
      /\ \A u \in Thread : th[u].ret \in ReturnPcs
  BY DEF CloseInv, SessionInv, TypeOK, Running, Handlers, ReturnPcs
<1>1. CASE CloseSocket(t)
  <2>1. th[t].pc = "closesocket" /\ s \in Session /\ Busy(t, s) BY <1>0, <1>1 DEF CloseSocket, CloseLookup, At, HandlersHaveSession, Busy
  <2>0. s \in smap /\ closes[s] = 0 BY <1>0, <2>1 DEF CloseSound, AcceptUndisturbed
  <2>2. Moved(t) /\ th'[t].pc = "exit_check"
    BY <1>0, <1>1, <2>0, <2>1, GotoMoved DEF CloseSocket, CloseLookup, At, Pcs
  <2>3. /\ UNCHANGED <<connindex, freed, smap, status, owner, io, timer, exits, destroys, onclose, users, output>>
        /\ \A r \in Session \ {s} : closes'[r] = closes[r]
        /\ closes'[s] = closes[s] + 1
        /\ s \in smap
    BY <1>0, <1>1, <2>1, <2>0 DEF CloseSocket, CloseLookup, TypeOK
  <2>4. \A r \in Session \ {s} : Untouched(r)
    BY <1>0, <2>1, <2>2, <2>3 DEF WritesFollow, NoWrite, Sending, Moved, Untouched, TypeOK, ReturnPcs
  <2>5. \A r \in Session \ {s} : CloseSound(r)' BY <1>0, <2>4, UntouchedSound
  <2>6. HandlersShaped'
    BY <1>0, <2>1, <2>2 DEF Moved, HandlersShaped, ExitPcs, ExitTail, ReturnPcs
  <2>7. ASSUME NEW r \in Session, r = s PROVE CloseSound(r)'
    <3>0. /\ CloseSound(r) /\ r = s
          /\ timer[r] \in {"none", "exit", "destroy"}
          /\ exits[r] \in Nat /\ destroys[r] \in Nat /\ onclose[r] \in Nat
          /\ closes[r] \in Nat /\ freed[r] \in Nat
          /\ r <= connindex /\ io[r] \notin FreshIo
          /\ \A u \in Thread \ {t} : th'[u] = th[u]
          /\ th'[t].pc # "idle" => th'[t].ses = s /\ th'[t].ret = th[t].ret
          /\ th'[t].pc = "idle" => th'[t].ret = "idle"
      BY <1>0, <2>1, <2>2, <2>7, BusyBorn DEF Moved, TypeOK
    <3>a. closes[r] = 0 \/ closes'[r] >= 2 BY <2>3, <3>0
    <3>b. r \in smap /\ ~Withdrawn(r)
      BY <1>0, <2>3, <3>0 DEF Withdrawn, DestroyArmed, DoomedWithdrawn, DestroyDue
    <3>1. StrandSerial(r)'
      BY <1>0, <2>1, <2>2, <2>3, <3>0 DEF CloseSound, StrandSerial, Busy, InStrand, ReturnPcs
    <3>2. RolesApart(r)'
      BY <1>0, <2>1, <2>2, <2>3, <3>0 DEF CloseSound, RolesApart, Busy, ReturnPcs
    <3>3. AcceptUndisturbed(r)'
      BY <1>0, <2>1, <2>2, <2>3, <3>0
      DEF CloseSound, AcceptUndisturbed, Busy, InTimerHandler, ReturnPcs, StrandSerial, InStrand,
          HandlersShaped, ExitPcs, ExitTail
    <3>4. Announced(r)'
      BY <1>0, <2>1, <2>2, <2>3, <3>0 DEF CloseSound, Announced, Busy, Known, IsShut, ReturnPcs
    <3>5. NoRequest(r)'
      BY <1>0, <2>1, <2>2, <2>3, <3>0
      DEF CloseSound, NoRequest, Busy, NoTimer, CloseCalled, Exiting, ExitPcs, ExitTail, ReturnPcs,
          RolesApart, Announced, AcceptUndisturbed, StrandSerial, InStrand, HandlersShaped
    <3>c. closes[r] = 0 => NoTimer(r) /\ ~CloseCalled(r) /\ \A u \in Thread : ~Exiting(u, r)
      BY <3>0, <3>b DEF CloseSound, NoRequest, AcceptUndisturbed, Exiting
    <3>6. OneRequest(r)'
      BY <2>1, <2>2, <2>3, <3>0, <3>a, <3>b, <3>c
      DEF OneRequest, Busy, CloseCalled, ExitWaits, Exiting, ExitPcs, ExitTail, Withdrawn,
          DestroyArmed, NoTimer
    <3>d. ExitsInTurn(r) /\ OneRequest(r) BY <3>0 DEF CloseSound
    <3>e. ~InTimerHandler(t, r) /\ ~InTimerHandler(t, r)'
      BY <1>0, <2>1, <2>2, <3>0 DEF InTimerHandler, HandlersShaped, ExitPcs, ExitTail
    <3>f. \A u \in Thread \ {t} : InTimerHandler(u, r)' <=> InTimerHandler(u, r)
      BY <3>0 DEF InTimerHandler
    <3>7. ExitsInTurn(r)'
      <4>1. SUFFICES ASSUME closes[r] = 0 \/ closes[r] = 1 PROVE ExitsInTurn(r)'
        BY <2>3, <3>0 DEF ExitsInTurn
      <4>2. closes[r] = 0 => \A u \in Thread : ~InTimerHandler(u, r)
        BY <1>0, <3>c DEF InTimerHandler, Exiting, HandlersShaped, ExitPcs, ExitTail, Busy
      <4>. QED
        BY <1>0, <2>1, <2>2, <2>3, <3>0, <3>c, <3>d, <3>e, <3>f, <4>1, <4>2
        DEF ExitsInTurn, OneRequest, Busy, CloseCalled, ExitWaits, Exiting, InTimerHandler, NoTimer, HandlersShaped
    <3>8. ClosedOnce(r)'
      BY <1>0, <2>1, <2>2, <2>3, <3>0
      DEF CloseSound, ClosedOnce, Busy, DestroyArmed, Withdrawn, IsShut, ExitTail, ReturnPcs,
          StrandSerial, InStrand, HandlersShaped, ExitPcs
    <3>10. DestroyAlone(r)'
      BY <1>0, <2>1, <2>2, <2>3, <3>0, <3>a, <3>b DEF NoWrite, Sending, CloseSound, DestroyAlone, Busy, ReturnPcs, Withdrawn, DestroyArmed
    <3>11. FreshBlank(r)'
      BY <1>0, <2>1, <2>2, <2>3, <3>0 DEF Heard, CloseSound, FreshBlank, Busy, FreshIo, ReturnPcs
    <3>. QED BY <3>1, <3>2, <3>3, <3>4, <3>5, <3>6, <3>7, <3>8, <3>10, <3>11 DEF CloseSound
  <2>. QED BY <1>0, <2>3, <2>5, <2>6, <2>7
<1>2. CASE AsyncClose(t) /\ s \in smap
  <2>1. th[t].pc = "asyncclose" /\ s \in Session /\ Busy(t, s) BY <1>0, <1>2 DEF AsyncClose, CloseLookup, At, HandlersHaveSession, Busy
  <2>2. Moved(t) /\ th'[t].pc = "close" /\ th[t].ret = "rearm"
    BY <1>0, <1>2, <2>1, GotoMoved DEF AsyncClose, CloseLookup, At, Pcs, HandlersShaped, ReturnPcs, ExitPcs, ExitTail
  <2>3. /\ UNCHANGED <<connindex, freed, smap, status, owner, io, timer, exits, destroys, onclose, users, output>>
        /\ \A r \in Session \ {s} : closes'[r] = closes[r]
        /\ closes'[s] = closes[s] + 1
        /\ s \in smap
    BY <1>0, <1>2, <2>1 DEF AsyncClose, CloseLookup, TypeOK
  <2>4. \A r \in Session \ {s} : Untouched(r)
    BY <1>0, <2>1, <2>2, <2>3 DEF WritesFollow, NoWrite, Sending, Moved, Untouched, TypeOK, ReturnPcs
  <2>5. \A r \in Session \ {s} : CloseSound(r)' BY <1>0, <2>4, UntouchedSound
  <2>6. HandlersShaped'
    BY <1>0, <2>1, <2>2 DEF Moved, HandlersShaped, ExitPcs, ExitTail, ReturnPcs
  <2>7. ASSUME NEW r \in Session, r = s PROVE CloseSound(r)'
    <3>0. /\ CloseSound(r) /\ r = s
          /\ timer[r] \in {"none", "exit", "destroy"}
          /\ exits[r] \in Nat /\ destroys[r] \in Nat /\ onclose[r] \in Nat
          /\ closes[r] \in Nat /\ freed[r] \in Nat
          /\ r <= connindex /\ io[r] \notin FreshIo
          /\ \A u \in Thread \ {t} : th'[u] = th[u]
          /\ th'[t].pc # "idle" => th'[t].ses = s /\ th'[t].ret = th[t].ret
          /\ th'[t].pc = "idle" => th'[t].ret = "idle"
      BY <1>0, <2>1, <2>2, <2>7, BusyBorn DEF Moved, TypeOK
    <3>a. closes[r] = 0 \/ closes'[r] >= 2 BY <2>3, <3>0
    <3>b. r \in smap /\ ~Withdrawn(r)
      BY <1>0, <2>3, <3>0 DEF Withdrawn, DestroyArmed, DoomedWithdrawn, DestroyDue
    <3>1. StrandSerial(r)'
      BY <1>0, <2>1, <2>2, <2>3, <3>0 DEF CloseSound, StrandSerial, Busy, InStrand, ReturnPcs
    <3>2. RolesApart(r)'
      BY <1>0, <2>1, <2>2, <2>3, <3>0 DEF CloseSound, RolesApart, Busy, ReturnPcs
    <3>3. AcceptUndisturbed(r)'
      BY <1>0, <2>1, <2>2, <2>3, <3>0
      DEF CloseSound, AcceptUndisturbed, Busy, InTimerHandler, ReturnPcs, StrandSerial, InStrand,
          HandlersShaped, ExitPcs, ExitTail
    <3>4. Announced(r)'
      BY <1>0, <2>1, <2>2, <2>3, <3>0 DEF CloseSound, Announced, Busy, Known, IsShut, ReturnPcs
    <3>5. NoRequest(r)'
      BY <1>0, <2>1, <2>2, <2>3, <3>0
      DEF CloseSound, NoRequest, Busy, NoTimer, CloseCalled, Exiting, ExitPcs, ExitTail, ReturnPcs,
          RolesApart, Announced, AcceptUndisturbed, StrandSerial, InStrand, HandlersShaped
    <3>c. closes[r] = 0 => NoTimer(r) /\ ~CloseCalled(r) /\ \A u \in Thread : ~Exiting(u, r)
      BY <3>0, <3>b DEF CloseSound, NoRequest, AcceptUndisturbed, Exiting
    <3>6. OneRequest(r)'
      BY <2>1, <2>2, <2>3, <3>0, <3>a, <3>b, <3>c
      DEF OneRequest, Busy, CloseCalled, ExitWaits, Exiting, ExitPcs, ExitTail, Withdrawn,
          DestroyArmed, NoTimer
    <3>d. ExitsInTurn(r) /\ OneRequest(r) BY <3>0 DEF CloseSound
    <3>e. ~InTimerHandler(t, r) /\ ~InTimerHandler(t, r)'
      BY <1>0, <2>1, <2>2, <3>0 DEF InTimerHandler, HandlersShaped, ExitPcs, ExitTail
    <3>f. \A u \in Thread \ {t} : InTimerHandler(u, r)' <=> InTimerHandler(u, r)
      BY <3>0 DEF InTimerHandler
    <3>7. ExitsInTurn(r)'
      <4>1. SUFFICES ASSUME closes[r] = 0 \/ closes[r] = 1 PROVE ExitsInTurn(r)'
        BY <2>3, <3>0 DEF ExitsInTurn
      <4>2. closes[r] = 0 => \A u \in Thread : ~InTimerHandler(u, r)
        BY <1>0, <3>c DEF InTimerHandler, Exiting, HandlersShaped, ExitPcs, ExitTail, Busy
      <4>. QED
        BY <1>0, <2>1, <2>2, <2>3, <3>0, <3>c, <3>d, <3>e, <3>f, <4>1, <4>2
        DEF ExitsInTurn, OneRequest, Busy, CloseCalled, ExitWaits, Exiting, InTimerHandler, NoTimer, HandlersShaped
    <3>8. ClosedOnce(r)'
      BY <1>0, <2>1, <2>2, <2>3, <3>0
      DEF CloseSound, ClosedOnce, Busy, DestroyArmed, Withdrawn, IsShut, ExitTail, ReturnPcs,
          StrandSerial, InStrand, HandlersShaped, ExitPcs
    <3>10. DestroyAlone(r)'
      BY <1>0, <2>1, <2>2, <2>3, <3>0, <3>a, <3>b DEF NoWrite, Sending, CloseSound, DestroyAlone, Busy, ReturnPcs, Withdrawn, DestroyArmed
    <3>11. FreshBlank(r)'
      BY <1>0, <2>1, <2>2, <2>3, <3>0 DEF Heard, CloseSound, FreshBlank, Busy, FreshIo, ReturnPcs
    <3>. QED BY <3>1, <3>2, <3>3, <3>4, <3>5, <3>6, <3>7, <3>8, <3>10, <3>11 DEF CloseSound
  <2>. QED BY <1>0, <2>3, <2>5, <2>6, <2>7
<1>3. CASE AsyncClose(t) /\ s \notin smap
  <2>1. th[t].pc = "asyncclose" /\ s \in Session BY <1>0, <1>3 DEF AsyncClose, CloseLookup, At, HandlersHaveSession
  <2>2. Moved(t) /\ th'[t].pc = "rearm" /\ th[t].ret = "rearm"
    BY <1>0, <1>3, <2>1, ReturnMoved
    DEF AsyncClose, CloseLookup, At, Pcs, HandlersShaped, ReturnPcs, ExitPcs, ExitTail
  <2>3. UNCHANGED <<data, connindex, users, io>> /\ \A r \in Session : WritesFollow(r)
    BY <1>3 DEF AsyncClose, CloseLookup, data, WritesFollow, NoWrite
  <2>4. Lands(t)
    BY <1>0, <2>1, <2>2, <2>3 DEF Lands, Busy, CloseSound, Announced, Known
  <2>5. HandlersShaped'
    BY <1>0, <2>1, <2>2 DEF Moved, HandlersShaped
  <2>. QED BY <1>0, <2>2, <2>3, <2>4, <2>5, WalkSound DEF TypeOK
<1>4. CASE Reaccept(t)
  <2>1. th[t].pc = "reaccept" /\ s \in Session BY <1>0, <1>4 DEF Reaccept, At, HandlersHaveSession
  <2>2. Moved(t) /\ th'[t].pc = "idle" BY <1>0, <1>4, <2>1, FinishMoved DEF Reaccept
  <2>3. UNCHANGED <<data, users, output>> /\ \A r \in Session : WritesFollow(r)
    BY <1>4 DEF Reaccept, data, WritesFollow, NoWrite
  <2>4. HandlersShaped'
    BY <1>0, <2>2 DEF Moved, HandlersShaped
  <2>5. CASE connindex = MaxId
    <3>1. UNCHANGED <<connindex, io>> BY <1>0, <1>4, <2>5, MaxIdAssumption DEF Reaccept
    <3>2. Lands(t) BY <2>1, <2>2, <3>1 DEF Lands
    <3>. QED BY <1>0, <2>2, <2>3, <2>4, <3>1, <3>2, WalkSound DEF TypeOK
  <2>6. CASE connindex < MaxId
    <3> DEFINE n == connindex + 1
    <3>1. connindex' = n /\ io' = [io EXCEPT ![n] = "accept"]
      BY <1>0, <1>4, <2>6, MaxIdAssumption DEF Reaccept, TypeOK
    <3>2. /\ n \in Session /\ n \in Int /\ n > connindex /\ n > WebId /\ WebId <= n
          /\ connindex \in Int /\ connindex <= n
      BY <1>0, <2>6, MaxIdAssumption DEF TypeOK, Session, FirstId, WebId
    <3> HIDE DEF n
    <3>3. /\ io[n] = "none" /\ status[n] = "IDLE" /\ freed[n] = 0 /\ n \notin smap
          /\ NoTimer(n) /\ NoWrite(n) /\ NoThread(n) /\ n # s /\ CloseSound(n)
      BY <1>0, <2>1, <3>2 DEF SessionInv, UnbornUntouched, NoThread, Busy
    <3>4. io'[n] = "accept" /\ \A r \in Session \ {n} : io'[r] = io[r]
      BY <1>0, <3>1, <3>2 DEF TypeOK
    <3>5. Lands(t) BY <2>1, <2>2, <3>3, <3>4 DEF Lands
    <3>6. \A r \in Session \ {n} : CloseSound(r)'
      BY <1>0, <2>2, <2>3, <3>1, <3>2, <3>4, <3>5, WalkSound
    <3>7. ASSUME NEW r \in Session, r = n PROVE CloseSound(r)'
      <4>1. \A u \in Thread : ~Busy(u, r)'
        BY <2>2, <3>3, <3>7 DEF Moved, NoThread, Busy
      <4>2. r # WebId BY <3>2, <3>7 DEF WebId
      <4>5. StrandSerial(r)' /\ RolesApart(r)' /\ AcceptUndisturbed(r)' /\ Announced(r)'
        BY <2>3, <3>3, <3>4, <3>7, <4>1, <4>2
        DEF CloseSound, StrandSerial, InStrand, Busy, RolesApart, AcceptUndisturbed, Announced, data
      <4>6. NoRequest(r)' /\ OneRequest(r)' /\ ExitsInTurn(r)' /\ ClosedOnce(r)'
        BY <2>3, <3>3, <3>4, <3>7, <4>1, <4>2
        DEF CloseSound, NoRequest, OneRequest, ExitsInTurn, ClosedOnce, NoTimer, CloseCalled, ExitWaits, Exiting,
            Busy, InTimerHandler, DestroyArmed, Withdrawn, data
      <4>7. DestroyAlone(r)'
        BY <2>3, <3>3, <3>7 DEF DestroyAlone, NoTimer, data
      <4>8. closes[r] = 0 /\ onclose[r] = 0 /\ owner[r] = "none"
        BY <3>2, <3>3, <3>7, <4>2 DEF CloseSound, FreshBlank, Heard
      <4>9. FreshBlank(r)' BY <2>3, <4>8 DEF Heard, FreshBlank, data
      <4>. QED BY <4>5, <4>6, <4>7, <4>9 DEF CloseSound
    <3>. QED BY <2>4, <3>1, <3>2, <3>6, <3>7
  <2>. QED BY <1>0, <2>5, <2>6, MaxIdAssumption DEF TypeOK
<1>. QED BY <1>1, <1>2, <1>3, <1>4

-----------------------------------------------------------------------------
(* Handlers taken from a queue, and what the i/o library does              *)

\* What is known of a session that waits for its accept or connect handler.
LEMMA FreshKnown ==
  ASSUME CloseInv, NEW s \in Session, io[s] \in FreshIo
  PROVE  /\ status[s] \in {"IDLE", "CONNECTING"} /\ freed[s] = 0 /\ s \notin smap
         /\ timer[s] = "none" /\ exits[s] = 0 /\ destroys[s] = 0
         /\ closes[s] = 0 /\ onclose[s] = 0 /\ (s = WebId \/ owner[s] = "none") /\ s <= connindex
         /\ NoWrite(s) /\ \A u \in Thread : ~Busy(u, s) /\ ~(Sending(u) /\ th[u].tgt = s)
         /\ s = WebId => io[s] \in {"connect", "connected", "connectfailed"} /\ owner[s] # "acceptor"
         /\ s # WebId => io[s] \in {"accept", "accepted", "acceptfailed"}
<1>0. UnbornUntouched /\ connindex \in Nat /\ s \in Nat
  BY MaxIdAssumption DEF CloseInv, SessionInv, TypeOK, Session, FirstId
<1>1. s <= connindex BY <1>0 DEF UnbornUntouched, FreshIo
<1>. QED BY <1>1 DEF CloseInv, SessionInv, FreshPrivate, CloseSound, FreshBlank, RolesApart, SendsKnown,
       Heard, NoTimer, NoThread, FreshIo

\* A session that waits for something has been handed out and is past its accept or connect.
LEMMA WaitingBorn ==
  ASSUME SessionInv, NEW r \in Session, ~NoTimer(r)
  PROVE  r <= connindex /\ io[r] \notin FreshIo
BY MaxIdAssumption DEF SessionInv, UnbornUntouched, FreshPrivate, TypeOK, Session, FirstId

\* Taking a handler keeps the invariant: one case per handler.
LEMMA RunKept ==
  ASSUME CloseInv, NEW t \in Thread, NEW s \in Session, RunHandler(t, s)
  PROVE  Kept
<1> USE DEF Kept
<1>0. /\ SessionInv /\ TypeOK /\ HandlersHaveSession /\ HandlersShaped /\ ExitingClosed /\ DoomedWithdrawn
      /\ th \in Running /\ connindex >= WebId /\ CloseSound(s) /\ \A r \in Session : CloseSound(r)
      /\ \A u \in Thread : th[u].ret \in ReturnPcs
      /\ exits[s] \in Nat /\ destroys[s] \in Nat /\ onclose[s] \in Nat
      /\ closes[s] \in Nat /\ freed[s] \in Nat
  BY DEF CloseInv, SessionInv, TypeOK, Running, Handlers, ReturnPcs
<1>1. CASE HandleAcceptError(t, s)
  <2>1. UNCHANGED th BY <1>1 DEF HandleAcceptError
  <2>2. /\ UNCHANGED <<connindex, smap, status, owner, timer, exits, destroys, onclose, closes, users, output>>
        /\ \A r \in Session \ {s} : io'[r] = io[r] /\ freed'[r] = freed[r]
        /\ io'[s] = "none"
        /\ freed'[s] = freed[s] + 1
    BY <1>0, <1>1 DEF HandleAcceptError, TypeOK
  <2>3. \A r \in Session \ {s} : Untouched(r)
    BY <1>0, <2>1, <2>2 DEF WritesFollow, NoWrite, Sending, Untouched, TypeOK
  <2>4. \A r \in Session \ {s} : CloseSound(r)' BY <1>0, <2>3, UntouchedSound
  <2>5. HandlersShaped'
    BY <1>0, <2>1 DEF HandlersShaped, ExitPcs, ExitTail
  <2>6. io[s] = "acceptfailed" /\ io[s] \in FreshIo BY <1>1 DEF HandleAcceptError, FreshIo
  <2>7. StrandSerial(s)'
    BY <1>0, <2>1, <2>2, <2>6, FreshKnown DEF CloseSound, StrandSerial, Busy, InStrand
  <2>8. RolesApart(s)'
    BY <1>0, <2>1, <2>2, <2>6, FreshKnown DEF CloseSound, RolesApart, Busy
  <2>9. AcceptUndisturbed(s)'
    BY <1>0, <2>1, <2>2, <2>6, FreshKnown DEF CloseSound, AcceptUndisturbed, Busy, InTimerHandler
  <2>10. Announced(s)'
    BY <1>0, <2>1, <2>2, <2>6, FreshKnown DEF CloseSound, Announced, Busy, Known, IsShut
  <2>11. NoRequest(s)'
    BY <1>0, <2>1, <2>2, <2>6, FreshKnown DEF CloseSound, NoRequest, Busy, NoTimer, CloseCalled, Exiting, ExitPcs, ExitTail
  <2>12. OneRequest(s)'
    BY <1>0, <2>1, <2>2, <2>6, FreshKnown
    DEF CloseSound, OneRequest, Busy, CloseCalled, ExitWaits, Exiting, ExitPcs, ExitTail, Withdrawn,
        DestroyArmed
  <2>13. ExitsInTurn(s)'
    BY <1>0, <2>1, <2>2, <2>6, FreshKnown DEF CloseSound, ExitsInTurn, Busy, CloseCalled, ExitWaits, InTimerHandler
  <2>14. ClosedOnce(s)'
    BY <1>0, <2>1, <2>2, <2>6, FreshKnown DEF CloseSound, ClosedOnce, Busy, DestroyArmed, Withdrawn, IsShut, ExitTail
  <2>16. DestroyAlone(s)'
    BY <1>0, <2>1, <2>2, <2>6, FreshKnown DEF NoWrite, Sending, CloseSound, DestroyAlone, Busy
  <2>17. FreshBlank(s)'
    BY <1>0, <2>1, <2>2, <2>6, FreshKnown DEF Heard, CloseSound, FreshBlank, Busy, FreshIo
  <2>. QED BY <1>0, <2>2, <2>4, <2>5, <2>7, <2>8, <2>9, <2>10, <2>11, <2>12, <2>13, <2>14, <2>16, <2>17 DEF CloseSound
<1>2. CASE HandleAcceptPeerGone(t, s)
  <2>1. Taken(t, s, "exit_check", "reaccept")
    BY <1>0, <1>2, EnterTaken DEF HandleAcceptPeerGone, Dispatch, Pcs, ReturnPcs
  <2>2. /\ UNCHANGED <<connindex, freed, smap, status, owner, timer, exits, destroys, onclose, closes, users, output>>
        /\ \A r \in Session \ {s} : io'[r] = io[r]
        /\ io'[s] = "none"
    BY <1>0, <1>2 DEF HandleAcceptPeerGone, Dispatch, TypeOK
  <2>3. \A r \in Session \ {s} : Untouched(r)
    BY <1>0, <2>1, <2>2 DEF WritesFollow, NoWrite, Sending, Taken, Untouched, TypeOK
  <2>4. \A r \in Session \ {s} : CloseSound(r)' BY <1>0, <2>3, UntouchedSound
  <2>5. HandlersShaped'
    BY <1>0, <2>1 DEF Taken, HandlersShaped, ExitPcs, ExitTail
  <2>6. io[s] = "accepted" /\ io[s] \in FreshIo BY <1>2 DEF HandleAcceptPeerGone, Dispatch, FreshIo
  <2>7. StrandSerial(s)'
    BY <1>0, <2>1, <2>2, <2>6, FreshKnown DEF Taken, CloseSound, StrandSerial, Busy, InStrand
  <2>8. RolesApart(s)'
    BY <1>0, <2>1, <2>2, <2>6, FreshKnown DEF Taken, CloseSound, RolesApart, Busy
  <2>9. AcceptUndisturbed(s)'
    BY <1>0, <2>1, <2>2, <2>6, FreshKnown DEF Taken, CloseSound, AcceptUndisturbed, Busy, InTimerHandler
  <2>10. Announced(s)'
    BY <1>0, <2>1, <2>2, <2>6, FreshKnown DEF Taken, CloseSound, Announced, Busy, Known, IsShut
  <2>11. NoRequest(s)'
    BY <1>0, <2>1, <2>2, <2>6, FreshKnown DEF Taken, CloseSound, NoRequest, Busy, NoTimer, CloseCalled, Exiting, ExitPcs, ExitTail
  <2>12. OneRequest(s)'
    BY <1>0, <2>1, <2>2, <2>6, FreshKnown
    DEF Taken, CloseSound, OneRequest, Busy, CloseCalled, ExitWaits, Exiting, ExitPcs, ExitTail,
        Withdrawn, DestroyArmed
  <2>13. ExitsInTurn(s)'
    BY <1>0, <2>1, <2>2, <2>6, FreshKnown DEF Taken, CloseSound, ExitsInTurn, Busy, CloseCalled, ExitWaits, InTimerHandler
  <2>14. ClosedOnce(s)'
    BY <1>0, <2>1, <2>2, <2>6, FreshKnown DEF Taken, CloseSound, ClosedOnce, Busy, DestroyArmed, Withdrawn, IsShut, ExitTail
  <2>16. DestroyAlone(s)'
    BY <1>0, <2>1, <2>2, <2>6, FreshKnown DEF NoWrite, Sending, Taken, CloseSound, DestroyAlone, Busy
  <2>17. FreshBlank(s)'
    BY <1>0, <2>1, <2>2, <2>6, FreshKnown DEF Heard, Taken, CloseSound, FreshBlank, Busy, FreshIo
  <2>. QED BY <1>0, <2>2, <2>4, <2>5, <2>7, <2>8, <2>9, <2>10, <2>11, <2>12, <2>13, <2>14, <2>16, <2>17 DEF CloseSound
<1>3. CASE HandleAccept(t, s)
  <2>1. Taken(t, s, "on_accept", "start")
    BY <1>0, <1>3, EnterTaken DEF HandleAccept, Dispatch, Pcs, ReturnPcs
  <2>2. /\ UNCHANGED <<connindex, freed, timer, exits, destroys, onclose, closes, users, output>>
        /\ \A r \in Session \ {s} : io'[r] = io[r] /\ status'[r] = status[r] /\ owner'[r] = owner[r]
        /\ io'[s] = "none"
        /\ status'[s] = "CONNECTED"
        /\ owner'[s] = "acceptor"
        /\ smap' = smap \cup {s}
    BY <1>0, <1>3 DEF HandleAccept, Dispatch, TypeOK
  <2>3. \A r \in Session \ {s} : Untouched(r)
    BY <1>0, <2>1, <2>2 DEF WritesFollow, NoWrite, Sending, Taken, Untouched, TypeOK
  <2>4. \A r \in Session \ {s} : CloseSound(r)' BY <1>0, <2>3, UntouchedSound
  <2>5. HandlersShaped'
    BY <1>0, <2>1 DEF Taken, HandlersShaped, ExitPcs, ExitTail
  <2>6. io[s] = "accepted" /\ io[s] \in FreshIo BY <1>3 DEF HandleAccept, Dispatch, FreshIo
  <2>7. StrandSerial(s)'
    BY <1>0, <2>1, <2>2, <2>6, FreshKnown DEF Taken, CloseSound, StrandSerial, Busy, InStrand
  <2>8. RolesApart(s)'
    BY <1>0, <2>1, <2>2, <2>6, FreshKnown DEF Taken, CloseSound, RolesApart, Busy
  <2>9. AcceptUndisturbed(s)'
    BY <1>0, <2>1, <2>2, <2>6, FreshKnown DEF Taken, CloseSound, AcceptUndisturbed, Busy, InTimerHandler
  <2>10. Announced(s)'
    BY <1>0, <2>1, <2>2, <2>6, FreshKnown DEF Taken, CloseSound, Announced, Busy, Known, IsShut
  <2>11. NoRequest(s)'
    BY <1>0, <2>1, <2>2, <2>6, FreshKnown DEF Taken, CloseSound, NoRequest, Busy, NoTimer, CloseCalled, Exiting, ExitPcs, ExitTail
  <2>12. OneRequest(s)'
    BY <1>0, <2>1, <2>2, <2>6, FreshKnown
    DEF Taken, CloseSound, OneRequest, Busy, CloseCalled, ExitWaits, Exiting, ExitPcs, ExitTail,
        Withdrawn, DestroyArmed
  <2>13. ExitsInTurn(s)'
    BY <1>0, <2>1, <2>2, <2>6, FreshKnown DEF Taken, CloseSound, ExitsInTurn, Busy, CloseCalled, ExitWaits, InTimerHandler
  <2>14. ClosedOnce(s)'
    BY <1>0, <2>1, <2>2, <2>6, FreshKnown DEF Taken, CloseSound, ClosedOnce, Busy, DestroyArmed, Withdrawn, IsShut, ExitTail
  <2>16. DestroyAlone(s)'
    BY <1>0, <2>1, <2>2, <2>6, FreshKnown DEF NoWrite, Sending, Taken, CloseSound, DestroyAlone, Busy
  <2>17. FreshBlank(s)'
    BY <1>0, <2>1, <2>2, <2>6, FreshKnown DEF Heard, Taken, CloseSound, FreshBlank, Busy, FreshIo
  <2>. QED BY <1>0, <2>2, <2>4, <2>5, <2>7, <2>8, <2>9, <2>10, <2>11, <2>12, <2>13, <2>14, <2>16, <2>17 DEF CloseSound
<1>4. CASE HandleConnectError(t, s)
  <2>1. Taken(t, s, "on_connect", "on_connect")
    BY <1>0, <1>4, EnterTaken DEF HandleConnectError, Dispatch, Pcs, ReturnPcs
  <2>2. /\ UNCHANGED <<connindex, smap, owner, timer, exits, destroys, onclose, closes, users, output>>
        /\ \A r \in Session \ {s} : io'[r] = io[r] /\ freed'[r] = freed[r] /\ status'[r] = status[r]
        /\ io'[s] = "none"
        /\ freed'[s] = freed[s] + 1
        /\ status'[s] = "ERROR"
    BY <1>0, <1>4 DEF HandleConnectError, Dispatch, TypeOK
  <2>3. \A r \in Session \ {s} : Untouched(r)
    BY <1>0, <2>1, <2>2 DEF WritesFollow, NoWrite, Sending, Taken, Untouched, TypeOK
  <2>4. \A r \in Session \ {s} : CloseSound(r)' BY <1>0, <2>3, UntouchedSound
  <2>5. HandlersShaped'
    BY <1>0, <2>1 DEF Taken, HandlersShaped, ExitPcs, ExitTail
  <2>6. io[s] = "connectfailed" /\ io[s] \in FreshIo BY <1>4 DEF HandleConnectError, Dispatch, FreshIo
  <2>7. StrandSerial(s)'
    BY <1>0, <2>1, <2>2, <2>6, FreshKnown DEF Taken, CloseSound, StrandSerial, Busy, InStrand
  <2>8. RolesApart(s)'
    BY <1>0, <2>1, <2>2, <2>6, FreshKnown DEF Taken, CloseSound, RolesApart, Busy
  <2>9. AcceptUndisturbed(s)'
    BY <1>0, <2>1, <2>2, <2>6, FreshKnown DEF Taken, CloseSound, AcceptUndisturbed, Busy, InTimerHandler
  <2>10. Announced(s)'
    BY <1>0, <2>1, <2>2, <2>6, FreshKnown DEF Taken, CloseSound, Announced, Busy, Known, IsShut
  <2>11. NoRequest(s)'
    BY <1>0, <2>1, <2>2, <2>6, FreshKnown DEF Taken, CloseSound, NoRequest, Busy, NoTimer, CloseCalled, Exiting, ExitPcs, ExitTail
  <2>12. OneRequest(s)'
    BY <1>0, <2>1, <2>2, <2>6, FreshKnown
    DEF Taken, CloseSound, OneRequest, Busy, CloseCalled, ExitWaits, Exiting, ExitPcs, ExitTail,
        Withdrawn, DestroyArmed
  <2>13. ExitsInTurn(s)'
    BY <1>0, <2>1, <2>2, <2>6, FreshKnown DEF Taken, CloseSound, ExitsInTurn, Busy, CloseCalled, ExitWaits, InTimerHandler
  <2>14. ClosedOnce(s)'
    BY <1>0, <2>1, <2>2, <2>6, FreshKnown DEF Taken, CloseSound, ClosedOnce, Busy, DestroyArmed, Withdrawn, IsShut, ExitTail
  <2>16. DestroyAlone(s)'
    BY <1>0, <2>1, <2>2, <2>6, FreshKnown DEF NoWrite, Sending, Taken, CloseSound, DestroyAlone, Busy
  <2>17. FreshBlank(s)'
    BY <1>0, <2>1, <2>2, <2>6, FreshKnown DEF Heard, Taken, CloseSound, FreshBlank, Busy, FreshIo
  <2>. QED BY <1>0, <2>2, <2>4, <2>5, <2>7, <2>8, <2>9, <2>10, <2>11, <2>12, <2>13, <2>14, <2>16, <2>17 DEF CloseSound
<1>5. CASE HandleConnect(t, s)
  <2>1. Taken(t, s, "on_connect", "on_connect")
    BY <1>0, <1>5, EnterTaken DEF HandleConnect, Dispatch, Pcs, ReturnPcs
  <2>2. /\ UNCHANGED <<connindex, freed, owner, timer, exits, destroys, onclose, closes, users, output>>
        /\ \A r \in Session \ {s} : io'[r] = io[r] /\ status'[r] = status[r]
        /\ io'[s] = "receive"
        /\ status'[s] = "CONNECTED"
        /\ smap' = smap \cup {s}
    BY <1>0, <1>5 DEF HandleConnect, Dispatch, TypeOK
  <2>3. \A r \in Session \ {s} : Untouched(r)
    BY <1>0, <2>1, <2>2 DEF WritesFollow, NoWrite, Sending, Taken, Untouched, TypeOK
  <2>4. \A r \in Session \ {s} : CloseSound(r)' BY <1>0, <2>3, UntouchedSound
  <2>5. HandlersShaped'
    BY <1>0, <2>1 DEF Taken, HandlersShaped, ExitPcs, ExitTail
  <2>6. io[s] = "connected" /\ io[s] \in FreshIo BY <1>5 DEF HandleConnect, Dispatch, FreshIo
  <2>7. StrandSerial(s)'
    BY <1>0, <2>1, <2>2, <2>6, FreshKnown DEF Taken, CloseSound, StrandSerial, Busy, InStrand
  <2>8. RolesApart(s)'
    BY <1>0, <2>1, <2>2, <2>6, FreshKnown DEF Taken, CloseSound, RolesApart, Busy
  <2>9. AcceptUndisturbed(s)'
    BY <1>0, <2>1, <2>2, <2>6, FreshKnown DEF Taken, CloseSound, AcceptUndisturbed, Busy, InTimerHandler
  <2>10. Announced(s)'
    BY <1>0, <2>1, <2>2, <2>6, FreshKnown DEF Taken, CloseSound, Announced, Busy, Known, IsShut
  <2>11. NoRequest(s)'
    BY <1>0, <2>1, <2>2, <2>6, FreshKnown DEF Taken, CloseSound, NoRequest, Busy, NoTimer, CloseCalled, Exiting, ExitPcs, ExitTail
  <2>12. OneRequest(s)'
    BY <1>0, <2>1, <2>2, <2>6, FreshKnown
    DEF Taken, CloseSound, OneRequest, Busy, CloseCalled, ExitWaits, Exiting, ExitPcs, ExitTail,
        Withdrawn, DestroyArmed
  <2>13. ExitsInTurn(s)'
    BY <1>0, <2>1, <2>2, <2>6, FreshKnown DEF Taken, CloseSound, ExitsInTurn, Busy, CloseCalled, ExitWaits, InTimerHandler
  <2>14. ClosedOnce(s)'
    BY <1>0, <2>1, <2>2, <2>6, FreshKnown DEF Taken, CloseSound, ClosedOnce, Busy, DestroyArmed, Withdrawn, IsShut, ExitTail
  <2>16. DestroyAlone(s)'
    BY <1>0, <2>1, <2>2, <2>6, FreshKnown DEF NoWrite, Sending, Taken, CloseSound, DestroyAlone, Busy
  <2>17. FreshBlank(s)'
    BY <1>0, <2>1, <2>2, <2>6, FreshKnown DEF Heard, Taken, CloseSound, FreshBlank, Busy, FreshIo
  <2>. QED BY <1>0, <2>2, <2>4, <2>5, <2>7, <2>8, <2>9, <2>10, <2>11, <2>12, <2>13, <2>14, <2>16, <2>17 DEF CloseSound
<1>6. CASE HandleRead(t, s)
  <2>1. Taken(t, s, "read_check", "rearm")
    BY <1>0, <1>6, EnterTaken DEF HandleRead, Dispatch, Pcs, ReturnPcs
  <2>2. /\ UNCHANGED <<connindex, freed, smap, status, owner, timer, exits, destroys, onclose, closes, users, output>>
        /\ \A r \in Session \ {s} : io'[r] = io[r]
        /\ io'[s] = "none"
        /\ io[s] = "received"
        /\ \A u \in Thread : ~InStrand(u, s)
    BY <1>0, <1>6 DEF HandleRead, Dispatch, StrandFree, TypeOK
  <2>3. \A r \in Session \ {s} : Untouched(r)
    BY <1>0, <2>1, <2>2 DEF WritesFollow, NoWrite, Sending, Taken, Untouched, TypeOK
  <2>4. \A r \in Session \ {s} : CloseSound(r)' BY <1>0, <2>3, UntouchedSound
  <2>5. HandlersShaped'
    BY <1>0, <2>1 DEF Taken, HandlersShaped, ExitPcs, ExitTail
  <2>6. s <= connindex /\ io[s] \notin FreshIo
    BY <1>0, <1>6, MaxIdAssumption
    DEF HandleRead, Dispatch, SessionInv, UnbornUntouched, FreshIo, TypeOK, Session, FirstId
  <2>7. StrandSerial(s)'
    BY <1>0, <2>1, <2>2, <2>6 DEF Taken, CloseSound, StrandSerial, Busy, InStrand
  <2>8. RolesApart(s)'
    BY <1>0, <2>1, <2>2, <2>6 DEF Taken, CloseSound, RolesApart, Busy
  <2>9. AcceptUndisturbed(s)'
    BY <1>0, <2>1, <2>2, <2>6 DEF Taken, CloseSound, AcceptUndisturbed, Busy, InTimerHandler
  <2>10. Announced(s)'
    BY <1>0, <2>1, <2>2, <2>6 DEF Taken, CloseSound, Announced, Busy, Known, IsShut
  <2>11. NoRequest(s)'
    BY <1>0, <2>1, <2>2, <2>6 DEF Taken, CloseSound, NoRequest, Busy, NoTimer, CloseCalled, Exiting, ExitPcs, ExitTail
  <2>12. OneRequest(s)'
    BY <1>0, <2>1, <2>2, <2>6
    DEF Taken, CloseSound, OneRequest, Busy, CloseCalled, ExitWaits, Exiting, ExitPcs, ExitTail,
        Withdrawn, DestroyArmed
  <2>13. ExitsInTurn(s)'
    BY <1>0, <2>1, <2>2, <2>6 DEF Taken, CloseSound, ExitsInTurn, Busy, CloseCalled, ExitWaits, InTimerHandler
  <2>14. ClosedOnce(s)'
    BY <1>0, <2>1, <2>2, <2>6 DEF Taken, CloseSound, ClosedOnce, Busy, DestroyArmed, Withdrawn, IsShut, ExitTail
  <2>16. DestroyAlone(s)'
    BY <1>0, <2>1, <2>2, <2>6 DEF NoWrite, Sending, Taken, CloseSound, DestroyAlone, Busy
  <2>17. FreshBlank(s)'
    BY <1>0, <2>1, <2>2, <2>6 DEF Heard, Taken, CloseSound, FreshBlank, Busy, FreshIo
  <2>. QED BY <1>0, <2>2, <2>4, <2>5, <2>7, <2>8, <2>9, <2>10, <2>11, <2>12, <2>13, <2>14, <2>16, <2>17 DEF CloseSound
<1>7. CASE RunExit(t, s)
  <2>1. Taken(t, s, "exit_check", "idle")
    BY <1>0, <1>7, EnterTaken DEF RunExit, Pcs, ReturnPcs
  <2>2. /\ UNCHANGED <<connindex, freed, smap, status, owner, io, timer, destroys, onclose, closes, users, output>>
        /\ \A r \in Session \ {s} : exits'[r] = exits[r]
        /\ exits[s] > 0
        /\ exits'[s] = exits[s] - 1
    BY <1>0, <1>7 DEF RunExit, TypeOK
  <2>3. \A r \in Session \ {s} : Untouched(r)
    BY <1>0, <2>1, <2>2 DEF WritesFollow, NoWrite, Sending, Taken, Untouched, TypeOK
  <2>4. \A r \in Session \ {s} : CloseSound(r)' BY <1>0, <2>3, UntouchedSound
  <2>5. HandlersShaped'
    BY <1>0, <2>1 DEF Taken, HandlersShaped, ExitPcs, ExitTail
  <2>6. s <= connindex /\ io[s] \notin FreshIo
    BY <1>0, <1>7, WaitingBorn
    DEF RunExit, NoTimer
  <2>7. StrandSerial(s)'
    BY <1>0, <2>1, <2>2, <2>6 DEF Taken, CloseSound, StrandSerial, Busy, InStrand
  <2>8. RolesApart(s)'
    BY <1>0, <2>1, <2>2, <2>6 DEF Taken, CloseSound, RolesApart, Busy
  <2>9. AcceptUndisturbed(s)'
    BY <1>0, <2>1, <2>2, <2>6 DEF Taken, CloseSound, AcceptUndisturbed, Busy, InTimerHandler
  <2>10. Announced(s)'
    BY <1>0, <2>1, <2>2, <2>6 DEF Taken, CloseSound, Announced, Busy, Known, IsShut
  <2>11. NoRequest(s)'
    BY <1>0, <2>1, <2>2, <2>6 DEF Taken, CloseSound, NoRequest, Busy, NoTimer, CloseCalled, Exiting, ExitPcs, ExitTail
  <2>12. OneRequest(s)'
    BY <1>0, <2>1, <2>2, <2>6
    DEF Taken, CloseSound, OneRequest, Busy, CloseCalled, ExitWaits, Exiting, ExitPcs, ExitTail,
        Withdrawn, DestroyArmed, ExitsInTurn
  <2>13. ExitsInTurn(s)'
    BY <1>0, <2>1, <2>2, <2>6 DEF Taken, CloseSound, ExitsInTurn, Busy, CloseCalled, ExitWaits, InTimerHandler
  <2>14. ClosedOnce(s)'
    BY <1>0, <2>1, <2>2, <2>6 DEF Taken, CloseSound, ClosedOnce, Busy, DestroyArmed, Withdrawn, IsShut, ExitTail
  <2>16. DestroyAlone(s)'
    BY <1>0, <2>1, <2>2, <2>6 DEF NoWrite, Sending, Taken, CloseSound, DestroyAlone, Busy
  <2>17. FreshBlank(s)'
    BY <1>0, <2>1, <2>2, <2>6 DEF Heard, Taken, CloseSound, FreshBlank, Busy, FreshIo
  <2>. QED BY <1>0, <2>2, <2>4, <2>5, <2>7, <2>8, <2>9, <2>10, <2>11, <2>12, <2>13, <2>14, <2>16, <2>17 DEF CloseSound
<1>8. CASE HandleDestroy(t, s)
  <2>1. UNCHANGED th BY <1>8 DEF HandleDestroy
  <2>2. /\ UNCHANGED <<connindex, smap, status, owner, io, timer, exits, onclose, closes, users, output>>
        /\ \A r \in Session \ {s} : destroys'[r] = destroys[r] /\ freed'[r] = freed[r]
        /\ destroys[s] > 0
        /\ destroys'[s] = destroys[s] - 1
        /\ freed'[s] = freed[s] + 1
    BY <1>0, <1>8 DEF HandleDestroy, TypeOK
  <2>3. \A r \in Session \ {s} : Untouched(r)
    BY <1>0, <2>1, <2>2 DEF WritesFollow, NoWrite, Sending, Untouched, TypeOK
  <2>4. \A r \in Session \ {s} : CloseSound(r)' BY <1>0, <2>3, UntouchedSound
  <2>5. HandlersShaped'
    BY <1>0, <2>1 DEF HandlersShaped, ExitPcs, ExitTail
  <2>6. s <= connindex /\ io[s] \notin FreshIo
    BY <1>0, <1>8, WaitingBorn
    DEF HandleDestroy, NoTimer
  <2>7. StrandSerial(s)'
    BY <1>0, <2>1, <2>2, <2>6 DEF CloseSound, StrandSerial, Busy, InStrand
  <2>8. RolesApart(s)'
    BY <1>0, <2>1, <2>2, <2>6 DEF CloseSound, RolesApart, Busy
  <2>9. AcceptUndisturbed(s)'
    BY <1>0, <2>1, <2>2, <2>6 DEF CloseSound, AcceptUndisturbed, Busy, InTimerHandler
  <2>10. Announced(s)'
    BY <1>0, <2>1, <2>2, <2>6 DEF CloseSound, Announced, Busy, Known, IsShut
  <2>11. NoRequest(s)'
    BY <1>0, <2>1, <2>2, <2>6 DEF CloseSound, NoRequest, Busy, NoTimer, CloseCalled, Exiting, ExitPcs, ExitTail
  <2>12. OneRequest(s)'
    BY <1>0, <2>1, <2>2, <2>6
    DEF CloseSound, OneRequest, Busy, CloseCalled, ExitWaits, Exiting, ExitPcs, ExitTail, Withdrawn,
        DestroyArmed
  <2>13. ExitsInTurn(s)'
    BY <1>0, <2>1, <2>2, <2>6 DEF CloseSound, ExitsInTurn, Busy, CloseCalled, ExitWaits, InTimerHandler
  <2>14. ClosedOnce(s)'
    BY <1>0, <2>1, <2>2, <2>6 DEF CloseSound, ClosedOnce, Busy, DestroyArmed, Withdrawn, IsShut, ExitTail
  <2>16. DestroyAlone(s)'
    BY <1>0, <2>1, <2>2, <2>6 DEF NoWrite, Sending, CloseSound, DestroyAlone, Busy
  <2>17. FreshBlank(s)'
    BY <1>0, <2>1, <2>2, <2>6 DEF Heard, CloseSound, FreshBlank, Busy, FreshIo
  <2>. QED BY <1>0, <2>2, <2>4, <2>5, <2>7, <2>8, <2>9, <2>10, <2>11, <2>12, <2>13, <2>14, <2>16, <2>17 DEF CloseSound
<1>9. CASE HandleWrite(t, s)
  <2>1. Taken(t, s, "write_check", "write_notify")
    BY <1>0, <1>9, EnterTaken DEF HandleWrite, Pcs, ReturnPcs
  <2>2. /\ UNCHANGED <<connindex, freed, smap, status, owner, io, timer, exits, destroys, onclose, closes, users, writes>>
        /\ \A r \in Session \ {s} : written'[r] = written[r]
        /\ ~NoWrite(s)
        /\ \A u \in Thread : ~InStrand(u, s)
    BY <1>0, <1>9 DEF HandleWrite, StrandFree, TypeOK, NoWrite
  <2>3. \A r \in Session \ {s} : Untouched(r)
    BY <1>0, <2>1, <2>2 DEF WritesFollow, NoWrite, Sending, Taken, Untouched, TypeOK
  <2>4. \A r \in Session \ {s} : CloseSound(r)' BY <1>0, <2>3, UntouchedSound
  <2>5. HandlersShaped'
    BY <1>0, <2>1 DEF Taken, HandlersShaped, ExitPcs, ExitTail
  <2>6. s <= connindex /\ io[s] \notin FreshIo BY <1>0, <2>2, BusyHeard DEF Heard
  <2>7. StrandSerial(s)'
    BY <1>0, <2>1, <2>2, <2>6 DEF Taken, CloseSound, StrandSerial, Busy, InStrand
  <2>8. RolesApart(s)'
    BY <1>0, <2>1, <2>2, <2>6 DEF Taken, CloseSound, RolesApart, Busy
  <2>9. AcceptUndisturbed(s)'
    BY <1>0, <2>1, <2>2, <2>6 DEF Taken, CloseSound, AcceptUndisturbed, Busy, InTimerHandler
  <2>10. Announced(s)'
    BY <1>0, <2>1, <2>2, <2>6 DEF Taken, CloseSound, Announced, Busy, Known, IsShut
  <2>11. NoRequest(s)'
    BY <1>0, <2>1, <2>2, <2>6 DEF Taken, CloseSound, NoRequest, Busy, NoTimer, CloseCalled, Exiting, ExitPcs, ExitTail
  <2>12. OneRequest(s)'
    BY <1>0, <2>1, <2>2, <2>6
    DEF Taken, CloseSound, OneRequest, Busy, CloseCalled, ExitWaits, Exiting, ExitPcs, ExitTail,
        Withdrawn, DestroyArmed
  <2>13. ExitsInTurn(s)'
    BY <1>0, <2>1, <2>2, <2>6 DEF Taken, CloseSound, ExitsInTurn, Busy, CloseCalled, ExitWaits, InTimerHandler
  <2>14. ClosedOnce(s)'
    BY <1>0, <2>1, <2>2, <2>6 DEF Taken, CloseSound, ClosedOnce, Busy, DestroyArmed, Withdrawn, IsShut, ExitTail
  <2>16. DestroyAlone(s)'
    BY <1>0, <2>1, <2>2, <2>6 DEF NoWrite, Sending, Taken, CloseSound, DestroyAlone, Busy
  <2>17. FreshBlank(s)'
    BY <1>0, <2>1, <2>2, <2>6 DEF Heard, Taken, CloseSound, FreshBlank, Busy, FreshIo
  <2>. QED BY <1>0, <2>2, <2>4, <2>5, <2>7, <2>8, <2>9, <2>10, <2>11, <2>12, <2>13, <2>14, <2>16, <2>17 DEF CloseSound
<1>. QED BY <1>1, <1>2, <1>3, <1>4, <1>5, <1>6, <1>7, <1>8, <1>9 DEF RunHandler

\* So do completions and expiries.
LEMMA AsioKept ==
  ASSUME CloseInv, NEW s \in Session,
         IoCompletes(s) \/ WriteCompletes(s) \/ WriteOn(s) \/ TimerExpires(s)
  PROVE  Kept
<1> USE DEF Kept
<1>0. /\ SessionInv /\ TypeOK /\ HandlersShaped /\ DoomedWithdrawn
      /\ connindex >= WebId /\ SocketSound(s) /\ \A r \in Session : CloseSound(r)
      /\ exits[s] \in Nat /\ destroys[s] \in Nat /\ onclose[s] \in Nat
      /\ closes[s] \in Nat /\ freed[s] \in Nat
  BY DEF CloseInv, SessionInv, TypeOK
<1>1. CASE IoCompletes(s)
  <2>1. /\ UNCHANGED <<connindex, freed, smap, status, owner, timer, exits, destroys, onclose, closes, users, output, th>>
        /\ \A r \in Session \ {s} : io'[r] = io[r]
        /\ io'[s] # "none" /\ io[s] # "none"
        /\ io'[s] \in {"accepted", "acceptfailed"} => io[s] = "accept"
        /\ io'[s] \in {"connected", "connectfailed"} => io[s] = "connect"
        /\ io'[s] = "received" => io[s] = "receive"
        /\ io'[s] \in {"accepted", "acceptfailed", "connected", "connectfailed", "received"}
    BY <1>0, <1>1 DEF IoCompletes, Completion, TypeOK
  <2>2. \A r \in Session \ {s} : Untouched(r) BY <2>1 DEF WritesFollow, NoWrite, Sending, Untouched
  <2>3. \A r \in Session \ {s} : CloseSound(r)' BY <1>0, <2>2, UntouchedSound
  <2>4. HandlersShaped' BY <1>0, <2>1 DEF HandlersShaped
  <2>5. StrandSerial(s)' BY <1>0, <2>1 DEF CloseSound, StrandSerial, InStrand
  <2>6. RolesApart(s)' BY <1>0, <2>1 DEF CloseSound, RolesApart, Busy
  <2>7. AcceptUndisturbed(s)' BY <1>0, <2>1 DEF CloseSound, AcceptUndisturbed, Busy, InTimerHandler
  <2>8. Announced(s)' BY <1>0, <2>1 DEF CloseSound, Announced, Busy, Known, IsShut
  <2>9. NoRequest(s)' BY <1>0, <2>1 DEF CloseSound, NoRequest, NoTimer, CloseCalled, Exiting, Busy
  <2>10. OneRequest(s)'
    BY <1>0, <2>1 DEF CloseSound, OneRequest, CloseCalled, ExitWaits, Exiting, Busy, Withdrawn, DestroyArmed
  <2>11. ExitsInTurn(s)'
    BY <1>0, <2>1 DEF CloseSound, ExitsInTurn, CloseCalled, ExitWaits, InTimerHandler, Busy
  <2>12. ClosedOnce(s)' BY <1>0, <2>1 DEF CloseSound, ClosedOnce, DestroyArmed, Withdrawn, IsShut, Busy
  <2>14. DestroyAlone(s)' BY <1>0, <2>1 DEF NoWrite, Sending, CloseSound, DestroyAlone
  <2>15. FreshBlank(s)' BY <1>0, <2>1 DEF Heard, CloseSound, FreshBlank, FreshIo
  <2>. QED BY <1>0, <2>1, <2>3, <2>4, <2>5, <2>6, <2>7, <2>8, <2>9, <2>10, <2>11, <2>12, <2>14, <2>15
       DEF CloseSound
<1>2. CASE TimerExpires(s)
  <2>0. timer[s] = "destroy" /\ Drained(s) => io[s] = "none" /\ NoWrite(s)
    <3>1. timer[s] = "destroy" => status[s] = "CLOSED" /\ sock[s] = "closed"
      BY <1>0 DEF SocketSound, DoomedWithdrawn, DestroyDue
    <3>2. timer[s] = "destroy" => io[s] \notin FreshIo BY <1>0, WaitingBorn DEF NoTimer
    <3>. QED BY <1>0, <3>1, <3>2 DEF SocketSound, Drained, NoWrite, FreshIo, TypeOK
  <2>1. /\ UNCHANGED <<connindex, freed, smap, status, owner, io, onclose, closes, users, output, th>>
        /\ \A r \in Session \ {s} : timer'[r] = timer[r] /\ exits'[r] = exits[r] /\ destroys'[r] = destroys[r]
        /\ timer'[s] = "none"
        /\ \/ /\ timer[s] = "exit" /\ exits[s] = 0 /\ exits'[s] = exits[s] + 1 /\ destroys'[s] = destroys[s]
              /\ \A u \in Thread : ~InTimerHandler(u, s)
           \/ /\ timer[s] = "destroy" /\ exits'[s] = exits[s] /\ destroys'[s] = destroys[s] + 1
              /\ io[s] = "none" /\ NoWrite(s) /\ exits[s] = 0
              /\ \A u \in Thread : ~Busy(u, s) /\ ~(Sending(u) /\ th[u].tgt = s)
    BY <1>0, <1>2, <2>0 DEF TimerExpires, ExitsDrained, Drained, TypeOK, Busy
  <2>2. \A r \in Session \ {s} : Untouched(r) BY <2>1 DEF WritesFollow, NoWrite, Sending, Untouched
  <2>3. \A r \in Session \ {s} : CloseSound(r)' BY <1>0, <2>2, UntouchedSound
  <2>4. HandlersShaped' BY <1>0, <2>1 DEF HandlersShaped
  <2>5. StrandSerial(s)' BY <1>0, <2>1 DEF CloseSound, StrandSerial, InStrand
  <2>6. RolesApart(s)' BY <1>0, <2>1 DEF CloseSound, RolesApart, Busy
  <2>7. AcceptUndisturbed(s)' BY <1>0, <2>1 DEF CloseSound, AcceptUndisturbed, Busy, InTimerHandler
  <2>8. Announced(s)' BY <1>0, <2>1 DEF CloseSound, Announced, Busy, Known, IsShut
  <2>9. NoRequest(s)' BY <1>0, <2>1 DEF CloseSound, NoRequest, NoTimer, CloseCalled, Exiting, Busy
  <2>10. OneRequest(s)'
    BY <1>0, <2>1 DEF CloseSound, OneRequest, CloseCalled, ExitWaits, Exiting, Busy, Withdrawn, DestroyArmed
  <2>11. ExitsInTurn(s)'
    BY <1>0, <2>1 DEF CloseSound, ExitsInTurn, CloseCalled, ExitWaits, InTimerHandler, Busy
  <2>12. ClosedOnce(s)' BY <1>0, <2>1 DEF CloseSound, ClosedOnce, DestroyArmed, Withdrawn, IsShut, Busy
  <2>14. DestroyAlone(s)'
    BY <1>0, <2>1 DEF NoWrite, Sending, CloseSound, DestroyAlone, OneRequest, ExitWaits, Withdrawn, DestroyArmed, Busy
  <2>15. FreshBlank(s)' BY <1>0, <2>1 DEF Heard, CloseSound, FreshBlank
  <2>. QED BY <1>0, <2>1, <2>3, <2>4, <2>5, <2>6, <2>7, <2>8, <2>9, <2>10, <2>11, <2>12, <2>14, <2>15
       DEF CloseSound
<1>3. CASE WriteCompletes(s) \/ WriteOn(s)
  <2>1. /\ UNCHANGED <<connindex, freed, smap, status, owner, io, timer, exits, destroys, onclose, closes, users, th>>
        /\ \A r \in Session \ {s} : writes'[r] = writes[r] /\ written'[r] = written[r]
        /\ ~NoWrite(s)
    BY <1>0, <1>3 DEF WriteCompletes, WriteOn, NoWrite, TypeOK
  <2>2. \A r \in Session : Untouched(r) BY <2>1 DEF Untouched, WritesFollow, NoWrite, Sending
  <2>3. \A r \in Session : CloseSound(r)' BY <1>0, <2>2, UntouchedSound
  <2>. QED BY <1>0, <2>1, <2>3 DEF HandlersShaped
<1>. QED BY <1>1, <1>2, <1>3

-----------------------------------------------------------------------------
(* Sockets                                                                 *)

\* The step opens nothing on a closed socket of r, and sends handle_destory to no
\* session that was not due for it.
SocketCalm(r) ==
    /\ sock'[r] = sock[r]
    /\ sock[r] = "closed" => (io'[r] = "receive" => io[r] = "receive") /\ (writes[r] = 0 => writes'[r] = 0)
    /\ Heard(r) => Heard(r)'
    /\ DestroyDue(r)' => DestroyDue(r)

LEMMA SocketStays ==
  ASSUME NEW r \in Session, SocketSound(r), SocketCalm(r)
  PROVE  SocketSound(r)'
BY DEF SocketSound, SocketCalm

\* The thread leaves its statement, not for the one that sends for handle_destory.
Leaves(t) ==
    /\ th[t].pc # "idle"
    /\ \/ \E p \in Pcs \ {"exit_arm"} : Goto(t, p)
       \/ Finish(t) \/ Return(t) \/ \E u \in Session : Call(t, u)

LEMMA LeavesCalm ==
  ASSUME th \in Running, NEW t \in Thread, Leaves(t), UNCHANGED <<timer, destroys>>, NEW r \in Session
  PROVE  DestroyDue(r)' => DestroyDue(r)
<1>1. Advance(t) /\ th'[t].pc # "exit_arm"
  BY GotoAdvances, FinishAdvances, ReturnAdvances, CallAdvances DEF Leaves, ReturnPcs
<1>. QED BY <1>1 DEF Advance, DestroyDue, Busy

\* Statements of a handler keep sockets sound: they close the socket before
\* they send for handle_destory.
LEMMA SocketWalk ==
  ASSUME CloseInv, NEW t \in Thread, HandlerStep(t), NEW r \in Session
  PROVE  SocketSound(r)'
<1> DEFINE s == th[t].ses
<1>0. /\ SessionInv /\ TypeOK /\ HandlersHaveSession /\ SendsKnown /\ th \in Running /\ SocketSound(r)
      /\ th[t].pc # "idle" => s \in Session /\ Busy(t, s)
  BY DEF CloseInv, SessionInv, TypeOK, Running, HandlersHaveSession, Busy
<1>1. ASSUME Leaves(t), UNCHANGED <<connindex, sock, io, writes, timer, destroys>> PROVE SocketSound(r)'
  BY <1>0, <1>1, LeavesCalm, SocketStays DEF SocketCalm, Heard
<1>2. CASE OnAccept(t)
  <2>1. Leaves(t) BY <1>0, <1>2 DEF OnAccept, Leaves, At, Pcs, HandlersHaveSession
  <2>2. UNCHANGED <<connindex, sock, io, writes, timer, destroys>> BY <1>2 DEF OnAccept
  <2>. QED BY <1>1, <2>1, <2>2
<1>3. CASE OnConnect(t)
  <2>1. Leaves(t) BY <1>0, <1>3 DEF OnConnect, Leaves, At, Pcs, HandlersHaveSession
  <2>2. UNCHANGED <<connindex, sock, io, writes, timer, destroys>> BY <1>3 DEF OnConnect
  <2>. QED BY <1>1, <2>1, <2>2
<1>4. CASE ReadCheck(t)
  <2>1. Leaves(t) BY <1>0, <1>4 DEF ReadCheck, Leaves, At, Pcs, HandlersHaveSession
  <2>2. UNCHANGED <<connindex, sock, io, writes, timer, destroys>> BY <1>4 DEF ReadCheck
  <2>. QED BY <1>1, <2>1, <2>2
<1>5. CASE DeliverCheck(t)
  <2>1. Leaves(t) BY <1>0, <1>5 DEF DeliverCheck, Leaves, At, Pcs, HandlersHaveSession
  <2>2. UNCHANGED <<connindex, sock, io, writes, timer, destroys>> BY <1>5 DEF DeliverCheck
  <2>. QED BY <1>1, <2>1, <2>2
<1>6. CASE DeliverClient(t)
  <2>1. Leaves(t) BY <1>0, <1>6 DEF DeliverClient, Addressee, Leaves, At, Pcs, HandlersHaveSession
  <2>2. UNCHANGED <<connindex, sock, io, writes, timer, destroys>> BY <1>6 DEF DeliverClient, Addressee
  <2>. QED BY <1>1, <2>1, <2>2
<1>7. CASE DeliverWeb(t)
  <2>1. Leaves(t) BY <1>0, <1>7 DEF DeliverWeb, Addressee, Leaves, At, Pcs, HandlersHaveSession
  <2>2. UNCHANGED <<connindex, sock, io, writes, timer, destroys>> BY <1>7 DEF DeliverWeb, Addressee
  <2>. QED BY <1>1, <2>1, <2>2
<1>8. CASE SendLookup(t)
  <2>1. Leaves(t) BY <1>0, <1>8 DEF SendLookup, Leaves, At, Pcs, HandlersHaveSession
  <2>2. UNCHANGED <<connindex, sock, io, writes, timer, destroys>> BY <1>8 DEF SendLookup
  <2>. QED BY <1>1, <2>1, <2>2
<1>9. CASE SendCheck(t)
  <2>1. Leaves(t) BY <1>0, <1>9 DEF SendCheck, Leaves, At, Pcs, HandlersHaveSession
  <2>2. UNCHANGED <<connindex, sock, io, writes, timer, destroys>> BY <1>9 DEF SendCheck
  <2>. QED BY <1>1, <2>1, <2>2
<1>10. CASE WriteCheck(t)
  <2>1. Leaves(t) BY <1>0, <1>10 DEF WriteCheck, Leaves, At, Pcs, HandlersHaveSession
  <2>2. UNCHANGED <<connindex, sock, io, writes, timer, destroys>> BY <1>10 DEF WriteCheck
  <2>. QED BY <1>1, <2>1, <2>2
<1>11. CASE WriteOwner(t)
  <2>1. Leaves(t) BY <1>0, <1>11 DEF WriteOwner, Leaves, At, Pcs, HandlersHaveSession
  <2>2. UNCHANGED <<connindex, sock, io, writes, timer, destroys>> BY <1>11 DEF WriteOwner
  <2>. QED BY <1>1, <2>1, <2>2
<1>12. CASE WriteNotify(t)
  <2>1. Leaves(t) BY <1>0, <1>12 DEF WriteNotify, Leaves, At, Pcs, HandlersHaveSession
  <2>2. UNCHANGED <<connindex, sock, io, writes, timer, destroys>> BY <1>12 DEF WriteNotify
  <2>. QED BY <1>1, <2>1, <2>2
<1>13. CASE CloseSocket(t)
  <2>1. Leaves(t) BY <1>0, <1>13 DEF CloseSocket, CloseLookup, Leaves, At, Pcs, HandlersHaveSession
  <2>2. UNCHANGED <<connindex, sock, io, writes, timer, destroys>> BY <1>13 DEF CloseSocket, CloseLookup
  <2>. QED BY <1>1, <2>1, <2>2
<1>14. CASE AsyncClose(t)
  <2>1. Leaves(t) BY <1>0, <1>14 DEF AsyncClose, CloseLookup, Leaves, At, Pcs, HandlersHaveSession
  <2>2. UNCHANGED <<connindex, sock, io, writes, timer, destroys>> BY <1>14 DEF AsyncClose, CloseLookup
  <2>. QED BY <1>1, <2>1, <2>2
<1>15. CASE ExitCheck(t)
  <2>1. Leaves(t) BY <1>0, <1>15 DEF ExitCheck, Leaves, At, Pcs, HandlersHaveSession
  <2>2. UNCHANGED <<connindex, sock, io, writes, timer, destroys>> BY <1>15 DEF ExitCheck
  <2>. QED BY <1>1, <2>1, <2>2
<1>16. CASE ExitMark(t)
  <2>1. Leaves(t) BY <1>0, <1>16 DEF ExitMark, Leaves, At, Pcs, HandlersHaveSession
  <2>2. UNCHANGED <<connindex, sock, io, writes, timer, destroys>> BY <1>16 DEF ExitMark
  <2>. QED BY <1>1, <2>1, <2>2
<1>17. CASE ExitOwner(t)
  <2>1. Leaves(t) BY <1>0, <1>17 DEF ExitOwner, Leaves, At, Pcs, HandlersHaveSession
  <2>2. UNCHANGED <<connindex, sock, io, writes, timer, destroys>> BY <1>17 DEF ExitOwner
  <2>. QED BY <1>1, <2>1, <2>2
<1>18. CASE ExitAcceptor(t)
  <2>1. Leaves(t) BY <1>0, <1>18 DEF ExitAcceptor, ExitNotify, Leaves, At, Pcs, HandlersHaveSession
  <2>2. UNCHANGED <<connindex, sock, io, writes, timer, destroys>> BY <1>18 DEF ExitAcceptor, ExitNotify
  <2>. QED BY <1>1, <2>1, <2>2
<1>19. CASE Start(t)
  <2>1. Leaves(t) /\ s \in Session /\ UNCHANGED <<timer, destroys>>
    BY <1>0, <1>19 DEF Start, Leaves, At, Pcs
  <2>2. UNCHANGED <<connindex, sock, writes>> /\ io' = [io EXCEPT ![s] = IF sock[s] = "open" THEN "receive" ELSE "received"]
    BY <1>19 DEF Start, AsyncReceive
  <2>3. SocketCalm(r) BY <1>0, <2>1, <2>2, LeavesCalm DEF SocketCalm, Heard, FreshIo, TypeOK
  <2>. QED BY <1>0, <2>3, SocketStays
<1>20. CASE Rearm(t)
  <2>1. Leaves(t) /\ s \in Session /\ UNCHANGED <<timer, destroys>>
    BY <1>0, <1>20 DEF Rearm, Leaves, At, Pcs
  <2>2. UNCHANGED <<connindex, sock, writes>> /\ io' = [io EXCEPT ![s] = IF sock[s] = "open" THEN "receive" ELSE "received"]
    BY <1>20 DEF Rearm, AsyncReceive
  <2>3. SocketCalm(r) BY <1>0, <2>1, <2>2, LeavesCalm DEF SocketCalm, Heard, FreshIo, TypeOK
  <2>. QED BY <1>0, <2>3, SocketStays
<1>21. CASE Reaccept(t)
  <2>1. Leaves(t) /\ UNCHANGED <<sock, writes, timer, destroys>>
    BY <1>0, <1>21 DEF Reaccept, Leaves, At
  <2>2. \/ UNCHANGED <<connindex, io>>
        \/ connindex' = connindex + 1 /\ io' = [io EXCEPT ![connindex + 1] = "accept"]
    BY <1>21 DEF Reaccept
  <2>3. connindex \in Int /\ r \in Int
    BY <1>0, MaxIdAssumption DEF TypeOK, Session, FirstId
  <2>4. SocketCalm(r) BY <1>0, <2>1, <2>2, <2>3, LeavesCalm DEF SocketCalm, Heard, TypeOK
  <2>. QED BY <1>0, <2>4, SocketStays
<1>22. CASE SendData(t)
  <2>1. Leaves(t) /\ UNCHANGED <<connindex, sock, io, timer, destroys>> /\ th[t].tgt \in Session
    BY <1>0, <1>22 DEF SendData, Leaves, At, SendsKnown, Sending
  <2>2. sock[r] = "closed" => writes'[r] = writes[r]
    BY <1>0, <1>22, <2>1 DEF SendData, AsyncWrite, TypeOK
  <2>3. SocketCalm(r) BY <1>0, <2>1, <2>2, LeavesCalm DEF SocketCalm, Heard
  <2>. QED BY <1>0, <2>3, SocketStays
<1>23. CASE Close(t)
  <2>1. Leaves(t) /\ s \in Session /\ Busy(t, s) /\ UNCHANGED <<connindex, sock, io, writes>> /\ ArmTimer(s, "exit")
    BY <1>0, <1>23 DEF Close, Leaves, At
  <2>2. Advance(t) /\ th'[t].pc # "exit_arm"
    BY <1>0, <1>23, <2>1, ReturnAdvances DEF Close, ReturnPcs, Busy
  <2>3. DestroyDue(r)' => DestroyDue(r)
    BY <1>0, <1>23, <2>1, <2>2 DEF Close, At, ArmTimer, Advance, DestroyDue, Busy, TypeOK
  <2>. QED BY <1>0, <2>1, <2>3, SocketStays DEF SocketCalm, Heard
<1>24. CASE ExitArm(t)
  <2>1. Leaves(t) /\ s \in Session /\ Busy(t, s) /\ UNCHANGED <<connindex, sock, io, writes>> /\ ArmTimer(s, "destroy")
    BY <1>0, <1>24 DEF ExitArm, Leaves, At
  <2>2. Advance(t) /\ th'[t].pc # "exit_arm"
    BY <1>0, <1>24, <2>1, ReturnAdvances DEF ExitArm, ReturnPcs, Busy
  <2>3. DestroyDue(r)' => DestroyDue(r)
    BY <1>0, <1>24, <2>1, <2>2 DEF ExitArm, At, ArmTimer, Advance, DestroyDue, Busy, TypeOK
  <2>. QED BY <1>0, <2>1, <2>3, SocketStays DEF SocketCalm, Heard
<1>25. CASE ExitLookup(t) \/ ExitRemove(t)
  <2>1. s \in Session /\ Busy(t, s) /\ UNCHANGED <<connindex, timer, destroys>>
    BY <1>0, <1>25 DEF ExitLookup, ExitRemove, At
  <2>2. Heard(s) BY <1>0, <2>1, BusyHeard DEF NoThread
  <2>3. Advance(t) /\ (th'[t].pc = "exit_arm" => ExitRemove(t))
    BY <1>0, <1>25, GotoAdvances, ReturnAdvances DEF ExitLookup, ExitRemove, At, Pcs, ReturnPcs
  <2>4. \/ UNCHANGED <<sock, io, writes>> /\ ~ExitRemove(t)
        \/ /\ sock' = [sock EXCEPT ![s] = "closed"]
           /\ io' = [io EXCEPT ![s] = IF @ = "receive" THEN "received" ELSE @]
           /\ writes' = [writes EXCEPT ![s] = 0]
    BY <1>25 DEF ExitLookup, ExitRemove, CloseSock, At
  <2>5. CASE UNCHANGED <<sock, io, writes>> /\ ~ExitRemove(t)
    <3>1. DestroyDue(r)' => DestroyDue(r) BY <2>1, <2>3, <2>5 DEF Advance, DestroyDue, Busy
    <3>. QED BY <1>0, <2>1, <2>5, <3>1, SocketStays DEF SocketCalm, Heard
  <2>6. CASE /\ sock' = [sock EXCEPT ![s] = "closed"]
             /\ io' = [io EXCEPT ![s] = IF @ = "receive" THEN "received" ELSE @]
             /\ writes' = [writes EXCEPT ![s] = 0]
    <3>1. CASE r = s BY <1>0, <2>1, <2>2, <2>6, <3>1 DEF SocketSound, Heard, FreshIo, TypeOK
    <3>2. CASE r # s
      <4>1. DestroyDue(r)' => DestroyDue(r) BY <2>1, <2>3, <3>2 DEF Advance, DestroyDue, Busy
      <4>. QED BY <1>0, <2>1, <2>6, <3>2, <4>1, SocketStays DEF SocketCalm, Heard, TypeOK
    <3>. QED BY <3>1, <3>2
  <2>. QED BY <2>4, <2>5, <2>6
<1>26. CASE StaleUse(t) \/ NullCall(t)
  <2>1. UNCHANGED <<connindex, sock, io, writes, timer, destroys, th>> BY <1>26 DEF StaleUse, NullCall
  <2>. QED BY <1>0, <2>1, SocketStays DEF SocketCalm, Heard, DestroyDue, Busy
<1>. QED BY <1>2, <1>3, <1>4, <1>5, <1>6, <1>7, <1>8, <1>9, <1>10, <1>11, <1>12, <1>13, <1>14,
         <1>15, <1>16, <1>17, <1>18, <1>19, <1>20, <1>21, <1>22, <1>23, <1>24, <1>25, <1>26 DEF
         HandlerStep

\* Handlers taken from a queue, completions and expiries keep sockets sound: a receive
\* or a write is only waited for on an open one.
LEMMA SocketRun ==
  ASSUME CloseInv, NEW s \in Session, NEW r \in Session,
         \/ \E t \in Thread : RunHandler(t, s)
         \/ IoCompletes(s) \/ WriteCompletes(s) \/ WriteOn(s) \/ TimerExpires(s)
  PROVE  SocketSound(r)'
<1>0. TypeOK /\ th \in Running /\ SocketSound(r) /\ SocketSound(s)
  BY DEF CloseInv, SessionInv, TypeOK, Running
<1>1. ASSUME NEW t \in Thread, RunHandler(t, s) PROVE SocketSound(r)'
  <2>1. DestroyDue(r)' => DestroyDue(r)
    <3>1. \A u \in Thread : th'[u].pc = "exit_arm" => th'[u] = th[u]
      <4>1. ASSUME NEW p \in Pcs \ {"exit_arm"}, NEW k \in ReturnPcs, Enter(t, s, p, k)
            PROVE  \A u \in Thread : th'[u].pc = "exit_arm" => th'[u] = th[u]
        BY <1>0, <4>1, EnterTaken DEF Taken
      <4>. QED BY <1>1, <4>1
           DEF RunHandler, HandleAcceptError, HandleAcceptPeerGone, HandleAccept, HandleConnectError,
               HandleConnect, HandleRead, HandleWrite, RunExit, HandleDestroy, Dispatch, Pcs, ReturnPcs
    <3>2. timer' = timer /\ (destroys'[r] > 0 => destroys[r] > 0)
      BY <1>0, <1>1
      DEF RunHandler, HandleAcceptError, HandleAcceptPeerGone, HandleAccept, HandleConnectError,
          HandleConnect, HandleRead, HandleWrite, RunExit, HandleDestroy, TypeOK
    <3>. QED BY <3>1, <3>2 DEF DestroyDue, Busy
  <2>2. UNCHANGED <<connindex, sock, writes>>
    BY <1>1
    DEF RunHandler, HandleAcceptError, HandleAcceptPeerGone, HandleAccept, HandleConnectError,
        HandleConnect, HandleRead, HandleWrite, RunExit, HandleDestroy
  <2>3. \/ io'[r] = io[r] \/ io'[r] = "none"
        \/ r = s /\ io[s] = "connected" /\ io'[s] = "receive"
    BY <1>0, <1>1
    DEF RunHandler, HandleAcceptError, HandleAcceptPeerGone, HandleAccept, HandleConnectError,
        HandleConnect, HandleRead, HandleWrite, RunExit, HandleDestroy, Dispatch, TypeOK
  <2>4. io[s] = "connected" => sock[s] = "open" BY <1>0 DEF SocketSound, Heard, FreshIo
  <2>5. SocketCalm(r) BY <2>1, <2>2, <2>3, <2>4 DEF SocketCalm, Heard, FreshIo
  <2>. QED BY <1>0, <2>5, SocketStays
<1>2. CASE IoCompletes(s)
  <2>1. UNCHANGED <<connindex, sock, writes, timer, destroys, th>> BY <1>2 DEF IoCompletes
  <2>2. io'[r] = io[r] \/ (io'[r] # "receive" /\ (io'[r] \in FreshIo => io[r] \in FreshIo))
    BY <1>0, <1>2 DEF IoCompletes, Completion, FreshIo, TypeOK
  <2>. QED BY <1>0, <2>1, <2>2, SocketStays DEF SocketCalm, Heard, DestroyDue, Busy
<1>3. CASE WriteCompletes(s) \/ WriteOn(s)
  <2>1. UNCHANGED <<connindex, sock, io, timer, destroys, th>> BY <1>3 DEF WriteCompletes, WriteOn
  <2>2. sock[r] = "closed" => (writes[r] = 0 => writes'[r] = 0)
    BY <1>0, <1>3 DEF WriteCompletes, WriteOn, TypeOK
  <2>. QED BY <1>0, <2>1, <2>2, SocketStays DEF SocketCalm, Heard, DestroyDue, Busy
<1>4. CASE TimerExpires(s)
  <2>1. UNCHANGED <<connindex, sock, io, writes, th>> BY <1>4 DEF TimerExpires
  <2>2. DestroyDue(r)' => DestroyDue(r)
    BY <1>0, <1>4 DEF TimerExpires, DestroyDue, Busy, TypeOK
  <2>. QED BY <1>0, <2>1, <2>2, SocketStays DEF SocketCalm, Heard
<1>. QED BY <1>1, <1>2, <1>3, <1>4

-----------------------------------------------------------------------------
(* The invariant, and what follows from it                                 *)

\* NetThreadPorc leaves the invariant true.
LEMMA CloseInit == Init => CloseInv
<1> SUFFICES ASSUME Init PROVE CloseInv
  OBVIOUS
<1>1. SessionInv BY InitInv
<1>2. \A t \in Thread : th[t].pc = "idle" /\ th[t].ret = "idle" BY DEF Init, Idle
<1>3. HandlersShaped BY <1>2 DEF HandlersShaped
<1>4. ASSUME NEW s \in Session PROVE CloseSound(s) /\ SocketSound(s)
  <2>1. /\ freed[s] = 0 /\ smap = {} /\ timer[s] = "none" /\ exits[s] = 0 /\ destroys[s] = 0
        /\ onclose[s] = 0 /\ closes[s] = 0 /\ connindex = WebId
        /\ io[s] = "accept" => s = FirstId
        /\ io[s] = "connect" => s = WebId
        /\ io[s] \in {"accept", "connect", "none"}
        /\ owner[s] = IF s = WebId THEN "connector" ELSE "none"
        /\ status[s] \in {"CONNECTING", "IDLE"}
    BY <1>4 DEF Init
  <2>2. \A t \in Thread : ~Busy(t, s) /\ ~InStrand(t, s) /\ ~InTimerHandler(t, s) /\ ~Exiting(t, s) /\ ~Sending(t)
    BY <1>2 DEF Busy, InStrand, InTimerHandler, Exiting, Sending
  <2>3. FirstId # WebId BY DEF FirstId, WebId
  <2>4. StrandSerial(s) /\ RolesApart(s) /\ FreshBlank(s) /\ AcceptUndisturbed(s) /\ Announced(s)
    BY <2>1, <2>2, <2>3 DEF StrandSerial, RolesApart, FreshBlank, AcceptUndisturbed, Announced
  <2>5. NoRequest(s) /\ OneRequest(s) /\ ExitsInTurn(s) /\ ClosedOnce(s) /\ DestroyAlone(s)
    BY <2>1, <2>2 DEF NoRequest, OneRequest, ExitsInTurn, ClosedOnce, DestroyAlone, NoTimer,
       CloseCalled, ExitWaits, DestroyArmed, Withdrawn
  <2>6. SocketSound(s) BY <2>1, <2>2 DEF Init, SocketSound, DestroyDue
  <2>. QED BY <2>4, <2>5, <2>6 DEF CloseSound
<1>5. connindex >= WebId BY DEF Init, WebId
<1>. QED BY <1>1, <1>3, <1>4, <1>5 DEF CloseInv

\* Undefined behaviour, and stuttering, change nothing the invariant is about.
LEMMA StillKept ==
  ASSUME CloseInv, UNCHANGED <<data, connindex, io, output, users, th>>
  PROVE  Kept
<1>1. \A r \in Session : Untouched(r) BY DEF WritesFollow, NoWrite, Sending, Untouched, data
<1>2. \A r \in Session : CloseSound(r)' BY <1>1, UntouchedSound DEF CloseInv
<1>. QED BY <1>2 DEF Kept, CloseInv, HandlersShaped

\* Every step of the service keeps the invariant.
LEMMA CloseNext == CloseInv /\ [Next]_vars => CloseInv'
<1> SUFFICES ASSUME CloseInv, [Next]_vars PROVE CloseInv'
  OBVIOUS
<1>1. SessionInv' BY NextInv DEF CloseInv
<1>2. Kept
  <2>1. CASE UNCHANGED vars BY <2>1, StillKept DEF vars, data
  <2>2. ASSUME NEW t \in Thread, HandlerStep(t) PROVE Kept
    <3>1. CASE StaleUse(t) \/ NullCall(t)
      <4>1. UNCHANGED <<data, connindex, io, output, users, th>> BY <3>1 DEF StaleUse, NullCall, data
      <4>. QED BY <4>1, StillKept
    <3>. QED BY <2>2, <3>1, WalkKept, ChangeKept, RequestKept DEF HandlerStep, WalkStep
  <2>3. ASSUME NEW t \in Thread, NEW s \in Session, RunHandler(t, s) PROVE Kept
    BY <2>3, RunKept
  <2>4. ASSUME NEW s \in Session,
               IoCompletes(s) \/ WriteCompletes(s) \/ WriteOn(s) \/ TimerExpires(s)
        PROVE  Kept
    BY <2>4, AsioKept
  <2>. QED BY <2>1, <2>2, <2>3, <2>4 DEF Next
<1>3. \A r \in Session : SocketSound(r)'
  <2>1. CASE UNCHANGED vars
    BY <2>1, SocketStays DEF vars, CloseInv, SocketCalm, Heard, DestroyDue, Busy
  <2>. QED BY <2>1, SocketWalk, SocketRun DEF Next
<1>. QED BY <1>1, <1>2, <1>3 DEF Kept, CloseInv

\* However the handlers of a session interleave, its strand runs one at a time, its
\* close requests are served in turn, and handle_exit's work is done once.
THEOREM CloseInvariantHolds == Spec => []CloseInv
BY CloseInit, CloseNext, PTL DEF Spec

\* ClientAcceptor::OnReadComplete always finds the sender's user record.
THEOREM SenderKnown == Spec => []UserKnown
<1>1. CloseInv => UserKnown
  <2> SUFFICES ASSUME CloseInv, NEW t \in Thread, th[t].pc = "deliver_acceptor"
               PROVE  th[t].ses \in users
    BY DEF UserKnown
  <2>1. th[t].ses \in Session /\ th[t].ret = "rearm"
    BY DEF CloseInv, SessionInv, HandlersHaveSession, HandlersShaped, TypeOK, Handlers, ExitPcs, ExitTail
  <2>. QED BY <2>1 DEF CloseInv, CloseSound, Announced, Busy, Known
<1>. QED BY <1>1, CloseInvariantHolds, PTL

\* Two close requests for one session make one OnClose callback and one destruction.
THEOREM ClosesOnce == Spec => []CloseOnce
<1>1. CloseInv => CloseOnce BY DEF CloseInv, CloseOnce, CloseSound, ClosedOnce
<1>. QED BY <1>1, CloseInvariantHolds, PTL

\* When a session asked to close at most once has been destroyed, it is in no thread's
\* hands, waits for nothing, and no handler of a receive, a write or a wait is queued.
THEOREM DestroyedUnused == Spec => []DestroyedIsUnused
<1>1. CloseInv => DestroyedIsUnused
  <2> SUFFICES ASSUME CloseInv, NEW s \in Session, freed[s] > 0, closes[s] <= 1
               PROVE  ~InUse(s)
    BY DEF DestroyedIsUnused
  <2>1. freed[s] \in Nat /\ closes[s] \in Nat /\ destroys[s] \in Nat /\ exits[s] \in Nat
    BY DEF CloseInv, SessionInv, TypeOK
  <2>2. io[s] = "none" /\ NoWrite(s) /\ timer[s] = "none" /\ exits[s] = 0
        /\ \A t \in Thread : (Busy(t, s) => th[t].pc = "on_connect") /\ ~(Sending(t) /\ th[t].tgt = s)
    BY <2>1 DEF CloseInv, CloseSound, DestroyAlone
  <2>3. destroys[s] = 0 BY <2>1 DEF CloseInv, CloseSound, ClosedOnce, DestroyArmed
  <2>4. \A t \in Thread : s \notin Touches(t) BY <2>2 DEF Touches, Sending, ByIdOnly, Busy
  <2>. QED BY <2>2, <2>3, <2>4 DEF InUse, NoWrite
<1>. QED BY <1>1, CloseInvariantHolds, PTL

-----------------------------------------------------------------------------
(* The statistics                                                          *)

IsClient(r)  == owner[r] = "acceptor"
IsClosing(r) == status[r] = "CLOSED" /\ freed[r] = 0
IsOrphan(r)  == /\ r <= connindex /\ r # WebId /\ io[r] \notin FreshIo
                /\ owner[r] = "none" /\ onclose[r] = 0 /\ freed[r] = 0

Clients == {r \in Session : IsClient(r)}
Closing == {r \in Session : IsClosing(r)}
Strays  == {r \in Session : IsOrphan(r)}

FewCloses == \A r \in Session : closes[r] <= 2

\* The sets CountersExact counts are these, and are finite.
LEMMA CountedSets ==
  ASSUME CloseInv
  PROVE  /\ IsFiniteSet(Clients) /\ IsFiniteSet(Closing) /\ IsFiniteSet(Strays)
         /\ Orphans = Strays
         /\ Clients = {r \in Session : owner[r] = "acceptor"}
         /\ Closing = {r \in Session : status[r] = "CLOSED" /\ freed[r] = 0}
<1>1. IsFiniteSet(Session)
  BY MaxIdAssumption, FS_Interval DEF Session, FirstId
<1>2. Clients \subseteq Session /\ Closing \subseteq Session /\ Strays \subseteq Session
  BY DEF Clients, Closing, Strays
<1>3. connindex \in Int /\ connindex <= MaxId BY MaxIdAssumption DEF CloseInv, SessionInv, TypeOK
<1>4. Constructed = {r \in Session : r <= connindex}
  BY <1>3, MaxIdAssumption DEF Constructed, Session, FirstId
<1>5. Orphans = Strays BY <1>4 DEF Orphans, Strays, IsOrphan
<1>. QED BY <1>1, <1>2, <1>5, FS_Subset DEF Clients, Closing, IsClient, IsClosing

\* What CountersExact says, in these terms.
Tally == FewCloses => /\ conneced = Cardinality(Clients) + Cardinality(Strays)
                      /\ closed = Cardinality(Closing)

LEMMA TallyIsCounters == ASSUME CloseInv PROVE Tally <=> CountersExact
BY CountedSets DEF Tally, CountersExact, FewCloses

\* Sessions keep their standing but for s.
StandsAs(r) ==
    /\ IsClient(r)' <=> IsClient(r)
    /\ IsClosing(r)' <=> IsClosing(r)
    /\ IsOrphan(r)' <=> IsOrphan(r)

\* A step that changes no session's standing and no counter keeps the tally.
LEMMA TallyStill ==
  ASSUME CloseInv, Tally, FewCloses' => FewCloses, \A r \in Session : StandsAs(r),
         UNCHANGED <<conneced, closed>>
  PROVE  Tally'
<1>1. Clients' = Clients BY DEF Clients, StandsAs
<1>2. Closing' = Closing BY DEF Closing, StandsAs
<1>3. Strays' = Strays BY DEF Strays, StandsAs
<1>. QED BY <1>1, <1>2, <1>3 DEF Tally

\* Counting one more, or one less.
LEMMA CountOne ==
  ASSUME NEW S, IsFiniteSet(S), NEW x
  PROVE  /\ Cardinality(S) \in Nat
         /\ x \notin S => Cardinality(S \cup {x}) = Cardinality(S) + 1
         /\ x \in S => Cardinality(S \ {x}) = Cardinality(S) - 1
BY FS_AddElement, FS_RemoveElement, FS_CardinalityType

\* Every step keeps the tally: the five that move a counter move a session with it.
LEMMA TallyNext ==
  ASSUME CloseInv, Tally, [Next]_vars
  PROVE  Tally'
<1>0. /\ SessionInv /\ TypeOK /\ HandlersHaveSession /\ HandlersShaped /\ DoomedWithdrawn
      /\ \A r \in Session : CloseSound(r)
      /\ \A r \in Session : r \in Int /\ closes[r] \in Nat /\ onclose[r] \in Nat /\ freed[r] \in Nat /\ destroys[r] \in Nat
      /\ connindex \in Int /\ conneced \in Int /\ closed \in Int
  <2>1. /\ SessionInv /\ TypeOK /\ HandlersHaveSession /\ HandlersShaped /\ DoomedWithdrawn
        /\ \A r \in Session : CloseSound(r)
    BY DEF CloseInv, SessionInv
  <2>2. \A r \in Session : r \in Int
    BY MaxIdAssumption DEF Session, FirstId
  <2>3. connindex \in Int /\ conneced \in Int /\ closed \in Int
    BY <2>1, MaxIdAssumption DEF TypeOK, FirstId
  <2>4. \A r \in Session : closes[r] \in Nat /\ onclose[r] \in Nat /\ freed[r] \in Nat /\ destroys[r] \in Nat
    BY <2>1 DEF TypeOK
  <2>. QED BY <2>1, <2>2, <2>3, <2>4
<1>6. /\ IsFiniteSet(Clients) /\ IsFiniteSet(Closing) /\ IsFiniteSet(Strays)
      /\ Cardinality(Clients) \in Nat /\ Cardinality(Closing) \in Nat /\ Cardinality(Strays) \in Nat
  BY CountedSets, CountOne
<1> USE DEF StandsAs, IsClient, IsClosing, IsOrphan
<1>1. CASE UNCHANGED <<connindex, freed, status, owner, io, onclose, closes, conneced, closed>>
  BY <1>1, TallyStill DEF FewCloses
<1>2. ASSUME NEW t \in Thread, HandlerStep(t) PROVE Tally'
  <2> DEFINE s == th[t].ses
  <2>1. CASE OnAccept(t) BY <1>1, <2>1 DEF OnAccept
  <2>2. CASE OnConnect(t) BY <1>1, <2>2 DEF OnConnect
  <2>3. CASE ReadCheck(t) BY <1>1, <2>3 DEF ReadCheck
  <2>4. CASE DeliverCheck(t) BY <1>1, <2>4 DEF DeliverCheck
  <2>5. CASE DeliverClient(t) BY <1>1, <2>5 DEF DeliverClient
  <2>6. CASE DeliverWeb(t) BY <1>1, <2>6 DEF DeliverWeb
  <2>7. CASE SendLookup(t) BY <1>1, <2>7 DEF SendLookup
  <2>8. CASE SendData(t) BY <1>1, <2>8 DEF SendData
  <2>9. CASE Close(t) BY <1>1, <2>9 DEF Close
  <2>10. CASE ExitCheck(t) BY <1>1, <2>10 DEF ExitCheck
  <2>11. CASE ExitOwner(t) BY <1>1, <2>11 DEF ExitOwner
  <2>12. CASE ExitArm(t) BY <1>1, <2>12 DEF ExitArm
  <2>13. CASE StaleUse(t) BY <1>1, <2>13 DEF StaleUse
  <2>14. CASE NullCall(t) BY <1>1, <2>14 DEF NullCall
  <2>15. CASE CloseSocket(t)
    <3>1. UNCHANGED <<connindex, freed, status, owner, io, onclose, conneced, closed>> BY <2>15 DEF CloseSocket, CloseLookup
    <3>2. \A r \in Session : closes'[r] = closes[r] \/ closes'[r] = closes[r] + 1
      BY <1>0, <2>15 DEF CloseSocket, CloseLookup, TypeOK
    <3>3. FewCloses' => FewCloses BY <1>0, <3>2 DEF FewCloses
    <3>. QED BY <3>1, <3>3, TallyStill
  <2>16. CASE AsyncClose(t)
    <3>1. UNCHANGED <<connindex, freed, status, owner, io, onclose, conneced, closed>> BY <2>16 DEF AsyncClose, CloseLookup
    <3>2. \A r \in Session : closes'[r] = closes[r] \/ closes'[r] = closes[r] + 1
      BY <1>0, <2>16 DEF AsyncClose, CloseLookup, TypeOK
    <3>3. FewCloses' => FewCloses BY <1>0, <3>2 DEF FewCloses
    <3>. QED BY <3>1, <3>3, TallyStill
  <2>17. CASE Start(t)
    <3>1. s \in Session /\ Busy(t, s) BY <1>0, <2>17 DEF Start, At, HandlersHaveSession, Busy
    <3>2. io[s] \notin FreshIo BY <1>0, <3>1, BusyBorn
    <3>3. /\ UNCHANGED <<connindex, freed, status, owner, onclose, closes, conneced, closed>>
          /\ \A r \in Session \ {s} : io'[r] = io[r]
          /\ io'[s] = io[s] \/ io'[s] \in {"receive", "received"}
      BY <1>0, <2>17, <3>1 DEF Start, AsyncReceive, TypeOK
    <3>4. \A r \in Session : io'[r] \in FreshIo <=> io[r] \in FreshIo BY <3>2, <3>3 DEF FreshIo
    <3>. QED BY <3>3, <3>4, TallyStill DEF FewCloses
  <2>18. CASE Rearm(t)
    <3>1. s \in Session /\ Busy(t, s) BY <1>0, <2>18 DEF Rearm, At, HandlersHaveSession, Busy
    <3>2. io[s] \notin FreshIo BY <1>0, <3>1, BusyBorn
    <3>3. /\ UNCHANGED <<connindex, freed, status, owner, onclose, closes, conneced, closed>>
          /\ \A r \in Session \ {s} : io'[r] = io[r]
          /\ io'[s] = io[s] \/ io'[s] \in {"receive", "received"}
      BY <1>0, <2>18, <3>1 DEF Rearm, AsyncReceive, TypeOK
    <3>4. \A r \in Session : io'[r] \in FreshIo <=> io[r] \in FreshIo BY <3>2, <3>3 DEF FreshIo
    <3>. QED BY <3>3, <3>4, TallyStill DEF FewCloses
  <2>19. CASE ExitLookup(t)
    <3>1. s \in Session /\ Busy(t, s) BY <1>0, <2>19 DEF ExitLookup, At, HandlersHaveSession, Busy
    <3>2. io[s] \notin FreshIo BY <1>0, <3>1, BusyBorn
    <3>3. /\ UNCHANGED <<connindex, freed, status, owner, onclose, closes, conneced, closed>>
          /\ \A r \in Session \ {s} : io'[r] = io[r]
          /\ io'[s] = io[s] \/ io'[s] \in {"receive", "received"}
      BY <1>0, <2>19, <3>1 DEF ExitLookup, CloseSock, TypeOK
    <3>4. \A r \in Session : io'[r] \in FreshIo <=> io[r] \in FreshIo BY <3>2, <3>3 DEF FreshIo
    <3>. QED BY <3>3, <3>4, TallyStill DEF FewCloses
  <2>20. CASE ExitRemove(t)
    <3>1. s \in Session /\ Busy(t, s) BY <1>0, <2>20 DEF ExitRemove, At, HandlersHaveSession, Busy
    <3>2. io[s] \notin FreshIo BY <1>0, <3>1, BusyBorn
    <3>3. /\ UNCHANGED <<connindex, freed, status, owner, onclose, closes, conneced, closed>>
          /\ \A r \in Session \ {s} : io'[r] = io[r]
          /\ io'[s] = io[s] \/ io'[s] \in {"receive", "received"}
      BY <1>0, <2>20, <3>1 DEF ExitRemove, CloseSock, TypeOK
    <3>4. \A r \in Session : io'[r] \in FreshIo <=> io[r] \in FreshIo BY <3>2, <3>3 DEF FreshIo
    <3>. QED BY <3>3, <3>4, TallyStill DEF FewCloses
  <2>21. CASE Reaccept(t)
    <3>1. /\ UNCHANGED <<freed, status, owner, onclose, closes, conneced, closed>>
          /\ \/ UNCHANGED <<connindex, io>>
             \/ /\ connindex' = connindex + 1 /\ connindex + 1 \in Session
                /\ io'[connindex + 1] = "accept"
                /\ \A r \in Session : r # connindex + 1 => io'[r] = io[r]
      <4>1. CASE connindex = MaxId BY <1>0, <2>21, <4>1, MaxIdAssumption DEF Reaccept
      <4>2. CASE connindex # MaxId
        <5>1. connindex + 1 \in Session
          BY <1>0, <4>2, MaxIdAssumption DEF TypeOK, Session, FirstId
        <5>2. UNCHANGED <<freed, status, owner, onclose, closes, conneced, closed>>
          BY <2>21 DEF Reaccept
        <5>3. connindex' = connindex + 1 /\ io' = [io EXCEPT ![connindex + 1] = "accept"]
          BY <1>0, <2>21, <4>2 DEF Reaccept, TypeOK
        <5>. QED BY <1>0, <5>1, <5>2, <5>3 DEF TypeOK
      <4>. QED BY <4>1, <4>2
    <3>2. \A r \in Session : IsOrphan(r)' <=> IsOrphan(r)
      BY <1>0, <3>1 DEF FreshIo
    <3>. QED BY <3>1, <3>2, TallyStill DEF FewCloses
  <2>22. CASE ExitMark(t)
    <3>1. s \in Session /\ th[t].pc = "exit_mark" /\ Busy(t, s)
      BY <1>0, <2>22 DEF ExitMark, At, HandlersHaveSession, Busy
    <3>2. /\ UNCHANGED <<connindex, freed, owner, io, onclose, closes, conneced>> /\ closed' = closed + 1
          /\ status'[s] = "CLOSED" /\ \A r \in Session \ {s} : status'[r] = status[r]
      BY <1>0, <2>22, <3>1 DEF ExitMark, TypeOK
    <3>3. FewCloses => status[s] # "CLOSED" /\ freed[s] = 0
      BY <1>0, <3>1 DEF FewCloses, CloseSound, ClosedOnce, IsShut, Withdrawn, Busy
    <3>4. Clients' = Clients /\ Strays' = Strays BY <3>2 DEF Clients, Strays
    <3>5. FewCloses => s \notin Closing /\ Closing' = Closing \cup {s} BY <3>1, <3>2, <3>3 DEF Closing
    <3>6. FewCloses' => FewCloses BY <3>2 DEF FewCloses
    <3>. QED BY <1>0, <1>6, <3>2, <3>4, <3>5, <3>6, CountOne DEF Tally
  <2>23. CASE ExitAcceptor(t)
    <3>1. s \in Session /\ th[t].pc = "exit_acceptor" /\ Busy(t, s)
      BY <1>0, <2>23 DEF ExitAcceptor, At, HandlersHaveSession, Busy
    <3>2. /\ UNCHANGED <<connindex, freed, status, io, closes, closed>> /\ conneced' = conneced - 1
          /\ owner'[s] = "none" /\ onclose'[s] = onclose[s] + 1
          /\ \A r \in Session \ {s} : owner'[r] = owner[r] /\ onclose'[r] = onclose[r]
      BY <1>0, <2>23, <3>1 DEF ExitAcceptor, ExitNotify, TypeOK
    <3>3. FewCloses => owner[s] = "acceptor"
      BY <1>0, <3>1 DEF FewCloses, CloseSound, ClosedOnce, Busy
    <3>4. Closing' = Closing BY <3>2 DEF Closing
    <3>5. FewCloses => Strays' = Strays
      BY <1>0, <3>1, <3>2, <3>3 DEF Strays
    <3>6. FewCloses => s \in Clients /\ Clients' = Clients \ {s} BY <3>1, <3>2, <3>3 DEF Clients
    <3>7. FewCloses' => FewCloses BY <3>2 DEF FewCloses
    <3>8. FewCloses => Cardinality(Clients') = Cardinality(Clients) - 1 BY <1>6, <3>6, CountOne
    <3>. QED BY <1>0, <1>6, <3>2, <3>4, <3>5, <3>7, <3>8 DEF Tally
  <2>24. CASE SendCheck(t) BY <1>1, <2>24 DEF SendCheck
  <2>25. CASE WriteCheck(t) BY <1>1, <2>25 DEF WriteCheck
  <2>26. CASE WriteOwner(t) BY <1>1, <2>26 DEF WriteOwner
  <2>27. CASE WriteNotify(t) BY <1>1, <2>27 DEF WriteNotify
  <2>. QED BY <1>2, <2>1, <2>2, <2>3, <2>4, <2>5, <2>6, <2>7, <2>8, <2>9, <2>10, <2>11, <2>12, <2>13,
              <2>14, <2>15, <2>16, <2>17, <2>18, <2>19, <2>20, <2>21, <2>22, <2>23, <2>24, <2>25,
              <2>26, <2>27 DEF HandlerStep
<1>3. ASSUME NEW t \in Thread, NEW s \in Session, RunHandler(t, s) PROVE Tally'
  <2>0. /\ CloseSound(s) /\ (FewCloses => closes[s] <= 2)
        /\ io[s] \in FreshIo =>
             /\ status[s] \in {"IDLE", "CONNECTING"} /\ freed[s] = 0 /\ onclose[s] = 0
             /\ (s = WebId \/ owner[s] = "none") /\ s <= connindex
             /\ s = WebId => owner[s] # "acceptor" /\ io[s] \in {"connect", "connected", "connectfailed"}
             /\ s # WebId => io[s] \in {"accept", "accepted", "acceptfailed"}
    BY <1>0, FreshKnown DEF FewCloses
  <2>1. CASE RunExit(t, s) BY <1>1, <2>1 DEF RunExit
  <2>2. CASE HandleRead(t, s)
    <3>1. /\ UNCHANGED <<connindex, freed, status, owner, onclose, closes, conneced, closed>>
          /\ \A r \in Session \ {s} : io'[r] = io[r]
          /\ io[s] = "received" /\ io'[s] = "none"
      BY <1>0, <2>2 DEF HandleRead, Dispatch, TypeOK
    <3>2. \A r \in Session : io'[r] \in FreshIo <=> io[r] \in FreshIo BY <3>1 DEF FreshIo
    <3>. QED BY <3>1, <3>2, TallyStill DEF FewCloses
  <2>3. CASE HandleConnect(t, s)
    <3>1. /\ UNCHANGED <<connindex, freed, owner, onclose, closes, conneced, closed>>
          /\ \A r \in Session \ {s} : io'[r] = io[r] /\ status'[r] = status[r]
          /\ io[s] = "connected" /\ status'[s] = "CONNECTED"
      BY <1>0, <2>3 DEF HandleConnect, Dispatch, TypeOK
    <3>2. s = WebId /\ status[s] # "CLOSED" BY <2>0, <3>1 DEF FreshIo
    <3>3. \A r \in Session : StandsAs(r) BY <3>1, <3>2
    <3>. QED BY <3>1, <3>3, TallyStill DEF FewCloses
  <2>4. CASE HandleConnectError(t, s)
    <3>1. /\ UNCHANGED <<connindex, owner, onclose, closes, conneced, closed>>
          /\ \A r \in Session \ {s} : io'[r] = io[r] /\ status'[r] = status[r] /\ freed'[r] = freed[r]
          /\ io[s] = "connectfailed" /\ status'[s] = "ERROR"
      BY <1>0, <2>4 DEF HandleConnectError, Dispatch, TypeOK
    <3>2. s = WebId /\ status[s] # "CLOSED" BY <2>0, <3>1 DEF FreshIo
    <3>3. \A r \in Session : StandsAs(r) BY <3>1, <3>2
    <3>. QED BY <3>1, <3>3, TallyStill DEF FewCloses
  <2>5. CASE HandleAcceptError(t, s)
    <3>1. /\ UNCHANGED <<connindex, status, owner, onclose, closes, conneced, closed>>
          /\ \A r \in Session \ {s} : io'[r] = io[r] /\ freed'[r] = freed[r]
          /\ io[s] = "acceptfailed" /\ freed'[s] = freed[s] + 1
      BY <1>0, <2>5 DEF HandleAcceptError, TypeOK
    <3>2. status[s] # "CLOSED" /\ io[s] \in FreshIo /\ freed'[s] # 0 BY <1>0, <2>0, <3>1 DEF FreshIo
    <3>3. \A r \in Session : StandsAs(r) BY <3>1, <3>2
    <3>. QED BY <3>1, <3>3, TallyStill DEF FewCloses
  <2>6. CASE HandleAcceptPeerGone(t, s)
    <3>1. /\ UNCHANGED <<connindex, freed, status, owner, onclose, closes, closed>> /\ conneced' = conneced + 1
          /\ \A r \in Session \ {s} : io'[r] = io[r]
          /\ io[s] = "accepted" /\ io'[s] = "none"
      BY <1>0, <2>6 DEF HandleAcceptPeerGone, Dispatch, TypeOK
    <3>2. io[s] \in FreshIo /\ io'[s] \notin FreshIo BY <3>1 DEF FreshIo
    <3>3. ~IsOrphan(s) /\ IsOrphan(s)' BY <2>0, <3>1, <3>2
    <3>4. Clients' = Clients /\ Closing' = Closing BY <3>1 DEF Clients, Closing
    <3>5. s \notin Strays /\ Strays' = Strays \cup {s} BY <3>1, <3>3 DEF Strays
    <3>6. FewCloses' => FewCloses BY <3>1 DEF FewCloses
    <3>7. Cardinality(Strays') = Cardinality(Strays) + 1 BY <1>6, <3>5, CountOne
    <3>. QED BY <1>0, <1>6, <3>1, <3>4, <3>6, <3>7 DEF Tally
  <2>7. CASE HandleAccept(t, s)
    <3>1. /\ UNCHANGED <<connindex, freed, onclose, closes, closed>> /\ conneced' = conneced + 1
          /\ \A r \in Session \ {s} : io'[r] = io[r] /\ status'[r] = status[r] /\ owner'[r] = owner[r]
          /\ io[s] = "accepted" /\ status'[s] = "CONNECTED" /\ owner'[s] = "acceptor"
      BY <1>0, <2>7 DEF HandleAccept, Dispatch, TypeOK
    <3>2. io[s] \in FreshIo BY <3>1 DEF FreshIo
    <3>3. owner[s] # "acceptor" /\ status[s] # "CLOSED" BY <2>0, <3>1, <3>2
    <3>4. Strays' = Strays /\ Closing' = Closing BY <3>1, <3>2, <3>3 DEF Strays, Closing
    <3>5. s \notin Clients /\ Clients' = Clients \cup {s} BY <3>1, <3>3 DEF Clients
    <3>6. FewCloses' => FewCloses BY <3>1 DEF FewCloses
    <3>7. Cardinality(Clients') = Cardinality(Clients) + 1 BY <1>6, <3>5, CountOne
    <3>. QED BY <1>0, <1>6, <3>1, <3>4, <3>6, <3>7 DEF Tally
  <2>8. CASE HandleDestroy(t, s)
    <3>1. /\ UNCHANGED <<connindex, status, owner, io, onclose, closes, conneced>> /\ closed' = closed - 1
          /\ \A r \in Session \ {s} : freed'[r] = freed[r]
          /\ destroys[s] > 0 /\ freed'[s] = freed[s] + 1
      BY <1>0, <2>8 DEF HandleDestroy, TypeOK
    <3>2. status[s] = "CLOSED" BY <1>0, <3>1 DEF DoomedWithdrawn, DestroyDue
    <3>3. FewCloses => freed[s] = 0 BY <1>0, <2>0, <3>1 DEF CloseSound, ClosedOnce, DestroyArmed
    <3>4. owner[s] = "acceptor" \/ onclose[s] > 0
      BY <1>0, <2>0, <3>1 DEF CloseSound, NoRequest, NoTimer
    <3>5. Clients' = Clients BY <3>1 DEF Clients
    <3>6. Strays' = Strays BY <1>0, <3>1, <3>4 DEF Strays
    <3>7. FewCloses => s \in Closing /\ Closing' = Closing \ {s} BY <1>0, <3>1, <3>2, <3>3 DEF Closing
    <3>8. FewCloses' => FewCloses BY <3>1 DEF FewCloses
    <3>. QED BY <1>0, <1>6, <3>1, <3>5, <3>6, <3>7, <3>8, CountOne DEF Tally
  <2>9. CASE HandleWrite(t, s) BY <1>1, <2>9 DEF HandleWrite
  <2>. QED BY <1>3, <2>1, <2>2, <2>3, <2>4, <2>5, <2>6, <2>7, <2>8, <2>9 DEF RunHandler
<1>4. ASSUME NEW s \in Session, IoCompletes(s) \/ WriteCompletes(s) \/ WriteOn(s) \/ TimerExpires(s)
      PROVE  Tally'
  <2>1. CASE TimerExpires(s) BY <1>1, <2>1 DEF TimerExpires
  <2>2. CASE IoCompletes(s)
    <3>1. /\ UNCHANGED <<connindex, freed, status, owner, onclose, closes, conneced, closed>>
          /\ \A r \in Session \ {s} : io'[r] = io[r]
          /\ io'[s] \in FreshIo <=> io[s] \in FreshIo
      BY <1>0, <2>2 DEF IoCompletes, Completion, TypeOK, FreshIo
    <3>2. \A r \in Session : io'[r] \in FreshIo <=> io[r] \in FreshIo BY <3>1
    <3>. QED BY <3>1, <3>2, TallyStill DEF FewCloses
  <2>3. CASE WriteCompletes(s) \/ WriteOn(s) BY <1>1, <2>3 DEF WriteCompletes, WriteOn
  <2>. QED BY <1>4, <2>1, <2>2, <2>3
<1>5. CASE UNCHANGED vars BY <1>1, <1>5 DEF vars
<1>. QED BY <1>2, <1>3, <1>4, <1>5 DEF Next

\* NetThreadPorc starts with all of them empty.
LEMMA TallyInit == Init => Tally
<1> SUFFICES ASSUME Init PROVE Tally
  OBVIOUS
<1>1. Clients = {} /\ Closing = {}
  BY DEF Init, Clients, Closing, IsClient, IsClosing
<1>2. Strays = {}
  BY DEF Init, Strays, IsOrphan, FreshIo, WebId, FirstId, Session
<1>. QED BY <1>1, <1>2, FS_EmptySet DEF Tally, Init

\* While no session has been asked to close more than twice, the statistics agree
\* with the sessions: s_nTotalConneced with the clients not yet reported closed, the
\* sessions accepted too late included, s_nTotalClosed with those not yet destroyed.
THEOREM CountersAgree == Spec => []CountersExact
<1> DEFINE I == CloseInv /\ Tally
<1>1. Init => I BY CloseInit, TallyInit
<1>2. I /\ [Next]_vars => I' BY CloseNext, TallyNext
<1>3. I => CountersExact BY TallyIsCounters
<1> HIDE DEF I
<1>. QED BY <1>1, <1>2, <1>3, PTL DEF Spec
=============================================================================
