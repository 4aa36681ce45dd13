------------------------- MODULE SessionLayerProofs -------------------------
(* Proofs about SessionLayer, for any number of threads, ids and closes:    *)
(* its invariant, and that every step of a handler is a step of a session's *)
(* life or changes nothing a caller can see (SessionLifecycle).             *)
EXTENDS SessionLayer, TLAPS

USE DEF output, sessionIo, timers, counters, history

-----------------------------------------------------------------------------
(* Moves of one thread                                                     *)

Running == [Thread -> Handlers]

\* Thread t moves on inside the handler it is running, or ends it.
Advance(t) ==
    /\ th[t].pc # "idle"
    /\ th' \in Running
    /\ \A u \in Thread \ {t} : th'[u] = th[u]
    /\ th'[t].pc # "idle" => th'[t].ses = th[t].ses

\* What handle_exit, Close and Send may return to.
ReturnPcs == {"idle", "start", "reaccept", "on_connect", "rearm", "write_notify"}

\* The next statement of the handler.
LEMMA GotoAdvances ==
  ASSUME th \in Running, NEW t \in Thread, th[t].pc # "idle", NEW p \in Pcs, Goto(t, p)
  PROVE  Advance(t) /\ th'[t].pc = p /\ th'[t].tgt = th[t].tgt
BY DEF Goto, Advance, Handlers, Running

\* The end of the handler.
LEMMA FinishAdvances ==
  ASSUME th \in Running, NEW t \in Thread, th[t].pc # "idle", Finish(t)
  PROVE  Advance(t) /\ th'[t].pc = "idle"
<1>1. Idle \in Handlers /\ Idle.pc = "idle" BY DEF Idle, Handlers, Pcs
<1>. QED BY <1>1 DEF Finish, Advance, Running

\* Back to the caller of handle_exit, Close or Send.
LEMMA ReturnAdvances ==
  ASSUME th \in Running, NEW t \in Thread, th[t].pc # "idle", Return(t)
  PROVE  Advance(t) /\ th'[t].pc \in ReturnPcs
<1>1. CASE th[t].ret = "idle" BY <1>1, FinishAdvances DEF Return, ReturnPcs
<1>2. CASE th[t].ret # "idle"
  <2> DEFINE r == [th[t] EXCEPT !.pc = th[t].ret, !.tgt = 0]
  <2>1. th[t] \in Handlers BY DEF Running
  <2>2. th[t].ret \in ReturnPcs /\ th[t].ret \in Pcs BY <2>1 DEF Handlers, Pcs, ReturnPcs
  <2>3. r \in Handlers /\ r.pc = th[t].ret /\ r.ses = th[t].ses BY <2>1, <2>2 DEF Handlers
  <2>4. th' = [th EXCEPT ![t] = r] BY <1>2 DEF Return
  <2> HIDE DEF r
  <2>. QED BY <2>2, <2>3, <2>4 DEF Advance, Running
<1>. QED BY <1>1, <1>2

\* A call of Send.
LEMMA CallAdvances ==
  ASSUME th \in Running, NEW t \in Thread, th[t].pc # "idle", NEW u \in Session, Call(t, u)
  PROVE  Advance(t) /\ th'[t].pc = "send_lookup"
<1> DEFINE r == [th[t] EXCEPT !.pc = "send_lookup", !.tgt = u]
<1>1. th[t] \in Handlers BY DEF Running
<1>2. r \in Handlers /\ r.pc = "send_lookup" /\ r.ses = th[t].ses BY <1>1 DEF Handlers, Pcs
<1>3. th' = [th EXCEPT ![t] = r] BY DEF Call
<1> HIDE DEF r
<1>. QED BY <1>2, <1>3 DEF Advance, Running

\* A thread leaves io_service::run for a handler.
LEMMA EnterStarts ==
  ASSUME th \in Running, NEW t \in Thread, NEW s \in Session, NEW p \in Pcs, 
         NEW r \in ReturnPcs, Enter(t, s, p, r)
  PROVE  /\ th[t].pc = "idle"
         /\ th' \in Running
         /\ \A u \in Thread \ {t} : th'[u] = th[u]
         /\ th'[t].pc = p /\ th'[t].ses = s
<1> DEFINE h == [pc |-> p, ses |-> s, tgt |-> 0, ret |-> r]
<1>1. h \in Handlers /\ h.pc = p /\ h.ses = s BY DEF Handlers, ReturnPcs
<1>2. th' = [th EXCEPT ![t] = h] BY DEF Enter
<1> HIDE DEF h
<1>. QED BY <1>1, <1>2 DEF Enter, Running

\* Thread t moves on, into handle_exit's last part only for a closed session and
\* into Send only for one that has been heard of.
Onward(t) ==
    /\ Advance(t)
    /\ th'[t].pc \in ExitTail => th'[t].pc # "exit_arm" /\ status[th[t].ses] = "CLOSED"
    /\ Sending(t)' => th'[t].tgt \in Session /\ Heard(th'[t].tgt)

\* A step that changes no session's standing: not its phase, its place in the map
\* or its waits; at most its own receive and the writes of sessions heard of.
Quiet(t) ==
    /\ Onward(t)
    /\ UNCHANGED <<connindex, freed, smap, status, timers>>
    /\ \A s \in Session : io'[s] = io[s] \/ (s = th[t].ses /\ io'[s] \notin FreshIo)
    /\ \A s \in Session : NoWrite(s) => NoWrite(s)' \/ Heard(s)

\* No thread turns to a new session to send to, and no session is forgotten.
LEMMA SendsKept ==
  ASSUME SendsKnown,
         \A u \in Thread : Sending(u)' => Sending(u) /\ th'[u].tgt = th[u].tgt,
         \A r \in Session : Heard(r) => Heard(r)'
  PROVE  SendsKnown'
BY DEF SendsKnown, Heard

\* Moving on takes no session into a handler that was in none.
LEMMA AdvanceKeepsSessions ==
  ASSUME HandlersHaveSession, NEW t \in Thread, Advance(t)
  PROVE  /\ HandlersHaveSession'
         /\ \A s \in Session : NoThread(s) => NoThread(s)' /\ s # th[t].ses
BY DEF HandlersHaveSession, Advance, NoThread, Busy

\* A quiet step keeps the invariant.
LEMMA QuietPreserves ==
  ASSUME SessionInv, TypeOK', NEW t \in Thread, Quiet(t)
  PROVE  SessionInv'
<1> USE DEF Quiet, Onward, Advance, SessionInv
<1>1. HandlersHaveSession' BY AdvanceKeepsSessions
<1>2. \A s \in Session : NoThread(s) => NoThread(s)' /\ s # th[t].ses
  BY AdvanceKeepsSessions
<1>3. UnbornUntouched'
  BY <1>2 DEF UnbornUntouched, NoTimer, NoWrite, Heard, TypeOK, Session
<1>4. FreshPrivate'
  BY <1>2 DEF FreshPrivate, NoTimer, Heard
<1>5. ExitingClosed'
  BY DEF ExitingClosed, ExitTail
<1>6. \A s \in Session : DestroyDue(s)' => DestroyDue(s)
  BY DEF DestroyDue, Busy, ExitTail
<1>7. DoomedWithdrawn'
  BY <1>6 DEF DoomedWithdrawn
<1>8. SendsKnown'
  BY DEF SendsKnown, Heard, Sending
<1>. QED BY <1>1, <1>3, <1>4, <1>5, <1>7, <1>8

\* Re-arming timer_ keeps the wait queues in their ranges.
LEMMA ArmTimerType ==
  ASSUME TypeOK, NEW s \in Session, NEW w \in {"exit", "destroy"}, ArmTimer(s, w)
  PROVE  /\ timer' \in [Session -> {"none", "exit", "destroy"}]
         /\ exits' \in [Session -> Nat]
         /\ destroys' \in [Session -> Nat]
BY DEF TypeOK, ArmTimer

-----------------------------------------------------------------------------
(* Preservation                                                            *)

\* A session in the map has been heard of.
LEMMA ListedHeard ==
  ASSUME SessionInv, NEW r \in smap
  PROVE  r \in Session /\ Heard(r)
<1>1. r \in Session /\ r \in Int /\ connindex \in Int BY DEF SessionInv, TypeOK, Session, FirstId
<1>. QED BY <1>1 DEF SessionInv, UnbornUntouched, FreshPrivate, Heard

\* A handler's session has been heard of, and so has a session with a write or a
\* wait outstanding.
LEMMA BusyHeard ==
  ASSUME SessionInv, NEW r \in Session, ~NoThread(r) \/ ~NoWrite(r) \/ ~NoTimer(r)
  PROVE  Heard(r)
<1>1. r \in Int /\ connindex \in Int BY DEF SessionInv, TypeOK, Session, FirstId
<1>. QED BY <1>1 DEF SessionInv, UnbornUntouched, FreshPrivate, Heard

\* Every step inside a handler keeps the invariant: one case per action.
LEMMA HandlerStepInv ==
  ASSUME SessionInv, NEW t \in Thread, HandlerStep(t)
  PROVE  SessionInv'
<1> DEFINE s == th[t].ses
<1> USE DEF Running
<1>0. /\ TypeOK /\ HandlersHaveSession /\ SendsKnown /\ th \in Running
      /\ th[t].pc # "idle" => Heard(s)
  BY BusyHeard DEF SessionInv, TypeOK, HandlersHaveSession, NoThread, Busy
<1>1. CASE OnAccept(t)
  <2>1. th[t].pc # "idle" /\ s \in Session BY <1>0, <1>1 DEF OnAccept, At, HandlersHaveSession
  <2>2. Onward(t)
    BY <1>0, <1>1, <2>1, GotoAdvances, CallAdvances DEF OnAccept, At, Pcs, ReturnPcs, ExitTail, SessionInv, ExitingClosed, Onward, Sending
  <2>3. TypeOK' BY <1>0, <1>1, <2>1, <2>2 DEF OnAccept, TypeOK, Onward, Advance
  <2>. QED BY <1>0, <1>1, <2>1, <2>2, <2>3, QuietPreserves DEF OnAccept, Quiet, NoWrite, TypeOK, FreshIo
<1>2. CASE Start(t)
  <2>1. th[t].pc # "idle" /\ s \in Session BY <1>0, <1>2 DEF Start, At, HandlersHaveSession
  <2>2. Onward(t)
    BY <1>0, <1>2, <2>1, GotoAdvances DEF Start, At, Pcs, ReturnPcs, ExitTail, SessionInv, ExitingClosed, Onward, Sending
  <2>3. TypeOK' BY <1>0, <1>2, <2>1, <2>2 DEF Start, AsyncReceive, TypeOK, Onward, Advance
  <2>. QED BY <1>0, <1>2, <2>1, <2>2, <2>3, QuietPreserves DEF Start, AsyncReceive, Quiet, NoWrite, TypeOK, FreshIo
<1>3. CASE OnConnect(t)
  <2>1. th[t].pc # "idle" /\ s \in Session BY <1>0, <1>3 DEF OnConnect, At, HandlersHaveSession
  <2>2. Onward(t)
    BY <1>0, <1>3, <2>1, FinishAdvances DEF OnConnect, At, Pcs, ReturnPcs, ExitTail, SessionInv, ExitingClosed, Onward, Sending
  <2>3. TypeOK' BY <1>0, <1>3, <2>1, <2>2 DEF OnConnect, TypeOK, Onward, Advance
  <2>. QED BY <1>0, <1>3, <2>1, <2>2, <2>3, QuietPreserves DEF OnConnect, Quiet, NoWrite, TypeOK, FreshIo
<1>4. CASE ReadCheck(t)
  <2>1. th[t].pc # "idle" /\ s \in Session BY <1>0, <1>4 DEF ReadCheck, At, HandlersHaveSession
  <2>2. Onward(t)
    BY <1>0, <1>4, <2>1, FinishAdvances, GotoAdvances DEF ReadCheck, At, Pcs, ReturnPcs, ExitTail, SessionInv, ExitingClosed, Onward, Sending
  <2>3. TypeOK' BY <1>0, <1>4, <2>1, <2>2 DEF ReadCheck, TypeOK, Onward, Advance
  <2>. QED BY <1>0, <1>4, <2>1, <2>2, <2>3, QuietPreserves DEF ReadCheck, Quiet, NoWrite, TypeOK, FreshIo
<1>5. CASE DeliverCheck(t)
  <2>1. th[t].pc # "idle" /\ s \in Session BY <1>0, <1>5 DEF DeliverCheck, At, HandlersHaveSession
  <2>2. Onward(t)
    BY <1>0, <1>5, <2>1, GotoAdvances DEF DeliverCheck, At, Pcs, ReturnPcs, ExitTail, SessionInv, ExitingClosed, Onward, Sending
  <2>3. TypeOK' BY <1>0, <1>5, <2>1, <2>2 DEF DeliverCheck, TypeOK, Onward, Advance
  <2>. QED BY <1>0, <1>5, <2>1, <2>2, <2>3, QuietPreserves DEF DeliverCheck, Quiet, NoWrite, TypeOK, FreshIo
<1>6. CASE DeliverClient(t)
  <2>1. th[t].pc # "idle" /\ s \in Session BY <1>0, <1>6 DEF DeliverClient, Addressee, At, HandlersHaveSession
  <2>2. Onward(t)
    BY <1>0, <1>6, <2>1, GotoAdvances, CallAdvances DEF DeliverClient, Addressee, At, Pcs, ReturnPcs, ExitTail, SessionInv, ExitingClosed, Onward, Sending
  <2>3. TypeOK' BY <1>0, <1>6, <2>1, <2>2 DEF DeliverClient, TypeOK, Onward, Advance
  <2>. QED BY <1>0, <1>6, <2>1, <2>2, <2>3, QuietPreserves DEF DeliverClient, Quiet, NoWrite, TypeOK, FreshIo
<1>7. CASE DeliverWeb(t)
  <2>1. th[t].pc # "idle" /\ s \in Session BY <1>0, <1>7 DEF DeliverWeb, Addressee, At, HandlersHaveSession
  <2>2. Onward(t)
    BY <1>0, <1>7, <2>1, GotoAdvances, CallAdvances DEF DeliverWeb, Addressee, At, Pcs, ReturnPcs, ExitTail, SessionInv, ExitingClosed, Onward, Sending
  <2>3. TypeOK' BY <1>0, <1>7, <2>1, <2>2 DEF DeliverWeb, TypeOK, Onward, Advance
  <2>. QED BY <1>0, <1>7, <2>1, <2>2, <2>3, QuietPreserves DEF DeliverWeb, Quiet, NoWrite, TypeOK, FreshIo
<1>8. CASE Rearm(t)
  <2>1. th[t].pc # "idle" /\ s \in Session BY <1>0, <1>8 DEF Rearm, At, HandlersHaveSession
  <2>2. Onward(t)
    BY <1>0, <1>8, <2>1, FinishAdvances DEF Rearm, At, Pcs, ReturnPcs, ExitTail, SessionInv, ExitingClosed, Onward, Sending
  <2>3. TypeOK' BY <1>0, <1>8, <2>1, <2>2 DEF Rearm, AsyncReceive, TypeOK, Onward, Advance
  <2>. QED BY <1>0, <1>8, <2>1, <2>2, <2>3, QuietPreserves DEF Rearm, AsyncReceive, Quiet, NoWrite, TypeOK, FreshIo
<1>9. CASE SendLookup(t)
  <2>1. th[t].pc # "idle" /\ s \in Session BY <1>0, <1>9 DEF SendLookup, At, HandlersHaveSession
  <2>2. Onward(t)
    BY <1>0, <1>9, <2>1, GotoAdvances, ReturnAdvances, ListedHeard DEF SendLookup, At, Pcs, ReturnPcs, ExitTail, SessionInv, ExitingClosed, Onward, Sending
  <2>3. TypeOK' BY <1>0, <1>9, <2>1, <2>2 DEF SendLookup, TypeOK, Onward, Advance
  <2>. QED BY <1>0, <1>9, <2>1, <2>2, <2>3, QuietPreserves DEF SendLookup, Quiet, NoWrite, TypeOK, FreshIo
<1>10. CASE SendCheck(t)
  <2>1. th[t].pc # "idle" /\ s \in Session BY <1>0, <1>10 DEF SendCheck, At, HandlersHaveSession
  <2>2. Onward(t)
    BY <1>0, <1>10, <2>1, GotoAdvances, ReturnAdvances
    DEF SendCheck, At, Pcs, ReturnPcs, ExitTail, SessionInv, ExitingClosed, Onward, Sending, SendsKnown
  <2>3. TypeOK' BY <1>0, <1>10, <2>1, <2>2 DEF SendCheck, TypeOK, Onward, Advance
  <2>. QED BY <1>0, <1>10, <2>1, <2>2, <2>3, QuietPreserves DEF SendCheck, Quiet, NoWrite, TypeOK, FreshIo
<1>16. CASE SendData(t)
  <2> DEFINE u == th[t].tgt
  <2>1. /\ th[t].pc # "idle" /\ s \in Session
        /\ u \in Session /\ Heard(u)
    BY <1>0, <1>16 DEF SendData, At, HandlersHaveSession, SendsKnown, Sending
  <2>2. Onward(t)
    BY <1>0, <1>16, <2>1, ReturnAdvances
    DEF SendData, At, Pcs, ReturnPcs, ExitTail, SessionInv, ExitingClosed, Onward, Sending
  <2>3. /\ writes' \in [Session -> Nat] /\ written' \in [Session -> Nat]
        /\ \A r \in Session \ {u} : writes'[r] = writes[r] /\ written'[r] = written[r]
    BY <1>0, <1>16, <2>1 DEF SendData, AsyncWrite, TypeOK
  <2>4. TypeOK' BY <1>0, <1>16, <2>2, <2>3 DEF SendData, TypeOK, Onward, Advance
  <2>. QED BY <1>16, <2>1, <2>2, <2>3, <2>4, QuietPreserves DEF SendData, Quiet, NoWrite
<1>24. CASE WriteCheck(t)
  <2>1. th[t].pc # "idle" /\ s \in Session BY <1>0, <1>24 DEF WriteCheck, At, HandlersHaveSession
  <2>2. Onward(t)
    BY <1>0, <1>24, <2>1, FinishAdvances, GotoAdvances
    DEF WriteCheck, At, Pcs, ReturnPcs, ExitTail, SessionInv, ExitingClosed, Onward, Sending
  <2>3. TypeOK' BY <1>0, <1>24, <2>1, <2>2 DEF WriteCheck, TypeOK, Onward, Advance
  <2>. QED BY <1>0, <1>24, <2>1, <2>2, <2>3, QuietPreserves DEF WriteCheck, Quiet, NoWrite, TypeOK, FreshIo
<1>25. CASE WriteOwner(t)
  <2>1. th[t].pc # "idle" /\ s \in Session BY <1>0, <1>25 DEF WriteOwner, At, HandlersHaveSession
  <2>2. Onward(t)
    BY <1>0, <1>25, <2>1, FinishAdvances, GotoAdvances
    DEF WriteOwner, At, Pcs, ReturnPcs, ExitTail, SessionInv, ExitingClosed, Onward, Sending
  <2>3. TypeOK' BY <1>0, <1>25, <2>1, <2>2 DEF WriteOwner, TypeOK, Onward, Advance
  <2>. QED BY <1>0, <1>25, <2>1, <2>2, <2>3, QuietPreserves DEF WriteOwner, Quiet, NoWrite, TypeOK, FreshIo
<1>26. CASE WriteNotify(t)
  <2>1. th[t].pc # "idle" /\ s \in Session BY <1>0, <1>26 DEF WriteNotify, At, HandlersHaveSession
  <2>2. Onward(t)
    BY <1>0, <1>26, <2>1, FinishAdvances
    DEF WriteNotify, At, Pcs, ReturnPcs, ExitTail, SessionInv, ExitingClosed, Onward, Sending
  <2>3. TypeOK' BY <1>0, <1>26, <2>1, <2>2 DEF WriteNotify, TypeOK, Onward, Advance
  <2>. QED BY <1>0, <1>26, <2>1, <2>2, <2>3, QuietPreserves DEF WriteNotify, Quiet, NoWrite, TypeOK, FreshIo
<1>11. CASE CloseSocket(t)
  <2>1. th[t].pc # "idle" /\ s \in Session BY <1>0, <1>11 DEF CloseSocket, CloseLookup, At, HandlersHaveSession
  <2>2. Onward(t)
    BY <1>0, <1>11, <2>1, GotoAdvances, ReturnAdvances
    DEF CloseSocket, CloseLookup, At, Pcs, ReturnPcs, ExitTail, SessionInv, ExitingClosed, Onward, Sending
  <2>3. TypeOK' BY <1>0, <1>11, <2>1, <2>2 DEF CloseSocket, CloseLookup, TypeOK, Onward, Advance
  <2>. QED BY <1>0, <1>11, <2>1, <2>2, <2>3, QuietPreserves DEF CloseSocket, CloseLookup, Quiet, NoWrite, TypeOK, FreshIo
<1>12. CASE AsyncClose(t)
  <2>1. th[t].pc # "idle" /\ s \in Session BY <1>0, <1>12 DEF AsyncClose, CloseLookup, At, HandlersHaveSession
  <2>2. Onward(t)
    BY <1>0, <1>12, <2>1, GotoAdvances, ReturnAdvances
    DEF AsyncClose, CloseLookup, At, Pcs, ReturnPcs, ExitTail, SessionInv, ExitingClosed, Onward, Sending
  <2>3. TypeOK' BY <1>0, <1>12, <2>1, <2>2 DEF AsyncClose, CloseLookup, TypeOK, Onward, Advance
  <2>. QED BY <1>0, <1>12, <2>1, <2>2, <2>3, QuietPreserves DEF AsyncClose, CloseLookup, Quiet, NoWrite, TypeOK, FreshIo
<1>13. CASE ExitCheck(t)
  <2>1. th[t].pc # "idle" /\ s \in Session BY <1>0, <1>13 DEF ExitCheck, At, HandlersHaveSession
  <2>2. Onward(t)
    BY <1>0, <1>13, <2>1, GotoAdvances, ReturnAdvances DEF ExitCheck, At, Pcs, ReturnPcs, ExitTail, SessionInv, ExitingClosed, Onward, Sending
  <2>3. TypeOK' BY <1>0, <1>13, <2>1, <2>2 DEF ExitCheck, TypeOK, Onward, Advance
  <2>. QED BY <1>0, <1>13, <2>1, <2>2, <2>3, QuietPreserves DEF ExitCheck, Quiet, NoWrite, TypeOK, FreshIo
<1>14. CASE ExitOwner(t)
  <2>1. th[t].pc # "idle" /\ s \in Session BY <1>0, <1>14 DEF ExitOwner, At, HandlersHaveSession
  <2>2. Onward(t)
    BY <1>0, <1>14, <2>1, GotoAdvances DEF ExitOwner, At, Pcs, ReturnPcs, ExitTail, SessionInv, ExitingClosed, Onward, Sending
  <2>3. TypeOK' BY <1>0, <1>14, <2>1, <2>2 DEF ExitOwner, TypeOK, Onward, Advance
  <2>. QED BY <1>0, <1>14, <2>1, <2>2, <2>3, QuietPreserves DEF ExitOwner, Quiet, NoWrite, TypeOK, FreshIo
<1>15. CASE ExitAcceptor(t)
  <2>1. th[t].pc # "idle" /\ s \in Session BY <1>0, <1>15 DEF ExitAcceptor, ExitNotify, At, HandlersHaveSession
  <2>2. Onward(t)
    BY <1>0, <1>15, <2>1, GotoAdvances DEF ExitAcceptor, ExitNotify, At, Pcs, ReturnPcs, ExitTail, SessionInv, ExitingClosed, Onward, Sending
  <2>3. TypeOK' BY <1>0, <1>15, <2>1, <2>2 DEF ExitAcceptor, ExitNotify, TypeOK, Onward, Advance
  <2>. QED BY <1>0, <1>15, <2>1, <2>2, <2>3, QuietPreserves DEF ExitAcceptor, ExitNotify, Quiet, NoWrite, TypeOK, FreshIo
<1>17. CASE ExitLookup(t)
  <2>1. th[t].pc # "idle" /\ s \in Session BY <1>0, <1>17 DEF ExitLookup, At, HandlersHaveSession
  <2>2. Onward(t)
    BY <1>0, <1>17, <2>1, GotoAdvances, ReturnAdvances DEF ExitLookup, At, Pcs, ReturnPcs, ExitTail, SessionInv, ExitingClosed, Onward, Sending
  <2>3. TypeOK' BY <1>0, <1>17, <2>1, <2>2 DEF ExitLookup, CloseSock, TypeOK, Onward, Advance
  <2>. QED BY <1>0, <1>17, <2>1, <2>2, <2>3, QuietPreserves DEF ExitLookup, CloseSock, Quiet, NoWrite, TypeOK, FreshIo
<1>18. CASE Reaccept(t)
  <2> DEFINE n == connindex + 1
  <2>1. th[t].pc # "idle" /\ s \in Session BY <1>0, <1>18 DEF Reaccept, At, HandlersHaveSession
  <2>2. Advance(t) /\ th'[t].pc = "idle" BY <1>0, <1>18, <2>1, FinishAdvances DEF Reaccept
  <2>3. CASE connindex = MaxId
    <3>1. UNCHANGED <<connindex, io>>
      BY <1>0, <1>18, <2>3, MaxIdAssumption DEF Reaccept
    <3>2. TypeOK' BY <1>0, <1>18, <2>2, <3>1 DEF Reaccept, TypeOK, Advance
    <3>. QED BY <1>18, <2>2, <3>1, <3>2, QuietPreserves DEF Reaccept, Quiet, Onward, Sending, NoWrite, ExitTail
  <2>4. CASE connindex < MaxId
    <3>1. connindex' = n /\ io' = [io EXCEPT ![n] = "accept"]
      BY <1>0, <1>18, <2>4, MaxIdAssumption DEF Reaccept, TypeOK
    <3>2. /\ n \in Session /\ n \in 1 .. MaxId
          /\ n > connindex
          /\ \A r \in Session : r > n => r > connindex /\ r # n
      BY <1>0, <2>4, MaxIdAssumption DEF TypeOK, Session, FirstId
    <3> HIDE DEF n
    <3>3. /\ HandlersHaveSession'
          /\ \A r \in Session : NoThread(r) => NoThread(r)' /\ r # s
      BY <1>0, <2>2, AdvanceKeepsSessions
    <3>4. TypeOK' BY <1>0, <1>18, <2>2, <3>1, <3>2 DEF Reaccept, TypeOK, Advance
    <3>5. \A r \in Session : DestroyDue(r)' => DestroyDue(r)
      BY <1>18, <2>2 DEF Reaccept, DestroyDue, Busy, Advance
    <3>6. ExitingClosed' BY <1>18, <2>2 DEF Reaccept, SessionInv, ExitingClosed, Advance, ExitTail
    <3>7. DoomedWithdrawn' BY <1>18, <3>5 DEF Reaccept, SessionInv, DoomedWithdrawn
    <3>8. UnbornUntouched'
      BY <1>0, <1>18, <3>1, <3>2, <3>3 DEF Reaccept, SessionInv, UnbornUntouched, NoTimer, NoWrite, TypeOK
    <3>9. FreshPrivate'
      BY <1>0, <1>18, <3>1, <3>2, <3>3
      DEF Reaccept, SessionInv, FreshPrivate, UnbornUntouched, NoTimer, NoWrite, TypeOK, FreshIo
    <3>10. SendsKnown'
      <4>1. \A r \in Session : Heard(r) => Heard(r)'
        BY <1>0, <3>1, <3>2 DEF Heard, TypeOK, Session, FirstId
      <4>. QED BY <1>0, <2>2, <4>1, SendsKept DEF Advance, Sending
    <3>. QED BY <3>3, <3>4, <3>6, <3>7, <3>8, <3>9, <3>10 DEF SessionInv
  <2>. QED BY <1>0, <2>3, <2>4, MaxIdAssumption DEF TypeOK
<1>19. CASE Close(t)
  <2>1. th[t].pc = "close" /\ s \in Session /\ freed[s] = 0
    BY <1>0, <1>19 DEF Close, At, HandlersHaveSession, Touches, Sending, ByIdOnly
  <2>2. Advance(t) /\ th'[t].pc \in ReturnPcs BY <1>0, <1>19, <2>1, ReturnAdvances DEF Close, Pcs
  <2>3. /\ HandlersHaveSession'
        /\ \A r \in Session : NoThread(r) => NoThread(r)' /\ r # s
    BY <1>0, <2>2, AdvanceKeepsSessions
  <2>4. TypeOK' BY <1>0, <1>19, <2>1, <2>2, ArmTimerType DEF Close, TypeOK, Advance
  <2>5. \A r \in Session : DestroyDue(r)' => DestroyDue(r)
    BY <1>0, <1>19, <2>1, <2>2 DEF Close, ArmTimer, TypeOK, DestroyDue, Busy, Advance, ReturnPcs
  <2>6. ExitingClosed' BY <1>19, <2>2 DEF Close, SessionInv, ExitingClosed, Advance, ExitTail, ReturnPcs
  <2>7. DoomedWithdrawn' BY <1>19, <2>5 DEF Close, SessionInv, DoomedWithdrawn
  <2>8. \A r \in Session : NoTimer(r) /\ r # s => NoTimer(r)'
    BY <1>0, <1>19, <2>1 DEF Close, ArmTimer, NoTimer, TypeOK
  <2>9. UnbornUntouched' /\ FreshPrivate'
    BY <1>19, <2>3, <2>8 DEF Close, SessionInv, UnbornUntouched, FreshPrivate, NoWrite
  <2>10. SendsKnown' BY <1>0, <1>19, <2>2, SendsKept DEF Close, Advance, Sending, ReturnPcs, Heard
  <2>. QED BY <2>3, <2>4, <2>6, <2>7, <2>9, <2>10 DEF SessionInv
<1>20. CASE ExitMark(t)
  <2>1. th[t].pc = "exit_mark" /\ s \in Session /\ freed[s] = 0
    BY <1>0, <1>20 DEF ExitMark, At, HandlersHaveSession, Touches, Sending, ByIdOnly
  <2>2. Advance(t) /\ th'[t].pc = "exit_owner" BY <1>0, <1>20, <2>1, GotoAdvances DEF ExitMark, Pcs
  <2>3. /\ HandlersHaveSession'
        /\ \A r \in Session : NoThread(r) => NoThread(r)' /\ r # s
    BY <1>0, <2>2, AdvanceKeepsSessions
  <2>4. TypeOK' BY <1>0, <1>20, <2>1, <2>2 DEF ExitMark, TypeOK, Advance
  <2>5. \A r \in Session : DestroyDue(r)' => DestroyDue(r)
    BY <1>20, <2>2 DEF ExitMark, DestroyDue, Busy, Advance
  <2>6. ExitingClosed' BY <1>0, <1>20, <2>2 DEF ExitMark, SessionInv, ExitingClosed, Advance, TypeOK, HandlersHaveSession, ExitTail
  <2>7. DoomedWithdrawn' BY <1>0, <1>20, <2>1, <2>5 DEF ExitMark, SessionInv, DoomedWithdrawn, TypeOK
  <2>8. UnbornUntouched' /\ FreshPrivate'
    BY <1>0, <1>20, <2>1, <2>3 DEF ExitMark, SessionInv, UnbornUntouched, FreshPrivate, NoTimer, NoWrite, TypeOK
  <2>9. SendsKnown' BY <1>0, <1>20, <2>2, SendsKept DEF ExitMark, Advance, Sending, Heard
  <2>. QED BY <2>3, <2>4, <2>6, <2>7, <2>8, <2>9 DEF SessionInv
<1>21. CASE ExitRemove(t)
  <2>1. th[t].pc = "exit_remove" /\ s \in Session /\ freed[s] = 0
    BY <1>0, <1>21 DEF ExitRemove, At, HandlersHaveSession, Touches, Sending, ByIdOnly
  <2>2. Advance(t) /\ th'[t].pc = "exit_arm" BY <1>0, <1>21, <2>1, GotoAdvances DEF ExitRemove, Pcs
  <2>3. /\ HandlersHaveSession'
        /\ \A r \in Session : NoThread(r) => NoThread(r)' /\ r # s
    BY <1>0, <2>2, AdvanceKeepsSessions
  <2>4. TypeOK' BY <1>0, <1>21, <2>1, <2>2 DEF ExitRemove, CloseSock, TypeOK, Advance
  <2>5. \A r \in Session : DestroyDue(r)' => DestroyDue(r) \/ r = s
    BY <1>21, <2>2 DEF ExitRemove, DestroyDue, Busy, Advance
  <2>6. status[s] = "CLOSED" BY <2>1 DEF SessionInv, ExitingClosed, ExitTail
  <2>7. ExitingClosed' BY <1>21, <2>2, <2>6 DEF ExitRemove, SessionInv, ExitingClosed, Advance
  <2>8. DoomedWithdrawn' BY <1>21, <2>5, <2>6 DEF ExitRemove, SessionInv, DoomedWithdrawn
  <2>9. UnbornUntouched' /\ FreshPrivate'
    BY <1>0, <1>21, <2>1, <2>3
    DEF ExitRemove, CloseSock, SessionInv, UnbornUntouched, FreshPrivate, NoTimer, NoWrite, TypeOK, FreshIo
  <2>10. SendsKnown'
    BY <1>0, <1>21, <2>1, <2>2, SendsKept DEF ExitRemove, CloseSock, Advance, Sending, Heard, FreshIo, TypeOK
  <2>. QED BY <2>3, <2>4, <2>7, <2>8, <2>9, <2>10 DEF SessionInv
<1>22. CASE ExitArm(t)
  <2>1. th[t].pc = "exit_arm" /\ s \in Session /\ freed[s] = 0
    BY <1>0, <1>22 DEF ExitArm, At, HandlersHaveSession, Touches, Sending, ByIdOnly
  <2>2. Advance(t) /\ th'[t].pc \in ReturnPcs BY <1>0, <1>22, <2>1, ReturnAdvances DEF ExitArm, Pcs
  <2>3. /\ HandlersHaveSession'
        /\ \A r \in Session : NoThread(r) => NoThread(r)' /\ r # s
    BY <1>0, <2>2, AdvanceKeepsSessions
  <2>4. TypeOK' BY <1>0, <1>22, <2>1, <2>2, ArmTimerType DEF ExitArm, TypeOK, Advance
  <2>5. \A r \in Session : DestroyDue(r)' => DestroyDue(r)
    BY <1>0, <1>22, <2>1, <2>2 DEF ExitArm, ArmTimer, TypeOK, DestroyDue, Busy, Advance, ReturnPcs
  <2>6. ExitingClosed' BY <1>22, <2>2 DEF ExitArm, SessionInv, ExitingClosed, Advance, ExitTail, ReturnPcs
  <2>7. DoomedWithdrawn' BY <1>22, <2>5 DEF ExitArm, SessionInv, DoomedWithdrawn
  <2>8. \A r \in Session : NoTimer(r) /\ r # s => NoTimer(r)'
    BY <1>0, <1>22, <2>1 DEF ExitArm, ArmTimer, NoTimer, TypeOK
  <2>9. UnbornUntouched' /\ FreshPrivate'
    BY <1>22, <2>3, <2>8 DEF ExitArm, SessionInv, UnbornUntouched, FreshPrivate, NoWrite
  <2>10. SendsKnown' BY <1>0, <1>22, <2>2, SendsKept DEF ExitArm, Advance, Sending, ReturnPcs, Heard
  <2>. QED BY <2>3, <2>4, <2>6, <2>7, <2>9, <2>10 DEF SessionInv
<1>23. CASE StaleUse(t) \/ NullCall(t)
  <2>1. /\ UNCHANGED <<sessionIo, timers, counters, history, th>>
        /\ fault' \in {"none", "stale_use", "null_call"}
    BY <1>23 DEF StaleUse, NullCall
  <2>. QED BY <2>1 DEF SessionInv, TypeOK, HandlersHaveSession, UnbornUntouched, FreshPrivate,
       SendsKnown, Sending, Heard, ExitingClosed, DoomedWithdrawn, NoTimer, NoWrite, NoThread, Busy, DestroyDue
<1>. QED BY <1>1, <1>2, <1>3, <1>4, <1>5, <1>6, <1>7, <1>8, <1>9, <1>10, <1>11, <1>12, <1>13,
     <1>14, <1>15, <1>16, <1>17, <1>18, <1>19, <1>20, <1>21, <1>22, <1>23, <1>24, <1>25, <1>26
  DEF HandlerStep

\* Thread t goes from idle to the handler whose first step is pc, for session s.
Begins(t, s) ==
    /\ th[t].pc = "idle" /\ th'[t].pc # "idle" /\ th'[t].ses = s
    /\ th'[t].pc \notin ExitTail /\ ~Sending(t)'
    /\ th' \in Running
    /\ \A u \in Thread \ {t} : th'[u] = th[u]

\* Taking a handler concerns its own session only.
LEMMA BeginsFrame ==
  ASSUME SessionInv, NEW t \in Thread, NEW s \in Session, Begins(t, s)
  PROVE  /\ HandlersHaveSession'
         /\ \A r \in Session \ {s} : NoThread(r) => NoThread(r)'
         /\ \A u \in Thread : th'[u].pc \in ExitTail => th'[u] = th[u]
         /\ \A r \in Session, u \in Thread :
               Busy(u, r)' /\ th'[u].pc = "exit_arm" => Busy(u, r) /\ th[u].pc = "exit_arm"
         /\ (\A r \in Session : Heard(r) => Heard(r)') => SendsKnown'
<1>1. (\A r \in Session : Heard(r) => Heard(r)') => SendsKnown'
  BY SendsKept DEF SessionInv, Begins, Sending
<1>. QED BY <1>1 DEF SessionInv, HandlersHaveSession, Begins, NoThread, Busy, ExitTail

\* Taking a queued handler keeps the invariant: one case per handler.
LEMMA RunHandlerInv ==
  ASSUME SessionInv, NEW t \in Thread, NEW s \in Session, RunHandler(t, s)
  PROVE  SessionInv'
<1> USE DEF Running
<1>0. TypeOK /\ th \in Running BY DEF SessionInv, TypeOK
<1>1. CASE HandleAcceptError(t, s)
  <2>1. TypeOK' BY <1>0, <1>1 DEF HandleAcceptError, TypeOK
  <2>. QED BY <1>0, <1>1, <2>1 DEF HandleAcceptError, SessionInv, TypeOK, HandlersHaveSession, UnbornUntouched,
       FreshPrivate, FreshIo, SendsKnown, Sending, Heard, ExitingClosed, DoomedWithdrawn, NoTimer, NoWrite,
       NoThread, Busy, DestroyDue
<1>2. CASE HandleAcceptPeerGone(t, s)
  <2>1. Begins(t, s) BY <1>0, <1>2, EnterStarts DEF HandleAcceptPeerGone, Dispatch, Begins, Sending, Pcs, ReturnPcs, ExitTail
  <2>2. TypeOK' BY <1>0, <1>2, <2>1 DEF HandleAcceptPeerGone, TypeOK, Begins
  <2>3. ~(s > connindex)
    BY <1>0, <1>2 DEF HandleAcceptPeerGone, Dispatch, SessionInv, UnbornUntouched, NoTimer, TypeOK
  <2>4. freed[s] = 0 /\ s \notin smap /\ NoThread(s) /\ ~DestroyDue(s)
    BY <1>2 DEF HandleAcceptPeerGone, Dispatch, SessionInv, FreshPrivate, FreshIo, NoTimer, NoThread, DestroyDue
  <2>5. \A r \in Session : DestroyDue(r)' => DestroyDue(r)
    BY <1>2, <2>1, BeginsFrame DEF HandleAcceptPeerGone, DestroyDue
  <2>6. ExitingClosed'
    BY <1>0, <1>2, <2>1, <2>4, BeginsFrame
    DEF HandleAcceptPeerGone, SessionInv, ExitingClosed, TypeOK, HandlersHaveSession, NoThread, Busy, ExitTail
  <2>7. DoomedWithdrawn'
    BY <1>0, <1>2, <2>4, <2>5 DEF HandleAcceptPeerGone, SessionInv, DoomedWithdrawn, TypeOK
  <2>8. UnbornUntouched' /\ FreshPrivate'
    BY <1>0, <1>2, <2>1, <2>3, <2>4, BeginsFrame
    DEF HandleAcceptPeerGone, SessionInv, UnbornUntouched, FreshPrivate, NoTimer, NoWrite, TypeOK, FreshIo
  <2>9. SendsKnown' BY <1>0, <1>2, <2>1, BeginsFrame DEF HandleAcceptPeerGone, Heard, TypeOK, FreshIo
  <2>. QED BY <2>1, <2>2, <2>6, <2>7, <2>8, <2>9, BeginsFrame DEF SessionInv
<1>3. CASE HandleAccept(t, s)
  <2>1. Begins(t, s) BY <1>0, <1>3, EnterStarts DEF HandleAccept, Dispatch, Begins, Sending, Pcs, ReturnPcs, ExitTail
  <2>2. TypeOK' BY <1>0, <1>3, <2>1 DEF HandleAccept, TypeOK, Begins
  <2>3. ~(s > connindex)
    BY <1>0, <1>3 DEF HandleAccept, Dispatch, SessionInv, UnbornUntouched, NoTimer, TypeOK
  <2>4. freed[s] = 0 /\ s \notin smap /\ NoThread(s) /\ ~DestroyDue(s)
    BY <1>3 DEF HandleAccept, Dispatch, SessionInv, FreshPrivate, FreshIo, NoTimer, NoThread, DestroyDue
  <2>5. \A r \in Session : DestroyDue(r)' => DestroyDue(r)
    BY <1>3, <2>1, BeginsFrame DEF HandleAccept, DestroyDue
  <2>6. ExitingClosed'
    BY <1>0, <1>3, <2>1, <2>4, BeginsFrame
    DEF HandleAccept, SessionInv, ExitingClosed, TypeOK, HandlersHaveSession, NoThread, Busy, ExitTail
  <2>7. DoomedWithdrawn'
    BY <1>0, <1>3, <2>4, <2>5 DEF HandleAccept, SessionInv, DoomedWithdrawn, TypeOK
  <2>8. UnbornUntouched' /\ FreshPrivate'
    BY <1>0, <1>3, <2>1, <2>3, <2>4, BeginsFrame
    DEF HandleAccept, SessionInv, UnbornUntouched, FreshPrivate, NoTimer, NoWrite, TypeOK, FreshIo
  <2>9. SendsKnown' BY <1>0, <1>3, <2>1, BeginsFrame DEF HandleAccept, Heard, TypeOK, FreshIo
  <2>. QED BY <2>1, <2>2, <2>6, <2>7, <2>8, <2>9, BeginsFrame DEF SessionInv
<1>4. CASE HandleConnectError(t, s)
  <2>1. Begins(t, s) BY <1>0, <1>4, EnterStarts DEF HandleConnectError, Dispatch, Begins, Sending, Pcs, ReturnPcs, ExitTail
  <2>2. TypeOK' BY <1>0, <1>4, <2>1 DEF HandleConnectError, TypeOK, Begins
  <2>3. ~(s > connindex)
    BY <1>0, <1>4 DEF HandleConnectError, Dispatch, SessionInv, UnbornUntouched, NoTimer, TypeOK
  <2>4. freed[s] = 0 /\ s \notin smap /\ NoThread(s) /\ ~DestroyDue(s)
    BY <1>4 DEF HandleConnectError, Dispatch, SessionInv, FreshPrivate, FreshIo, NoTimer, NoThread, DestroyDue
  <2>5. \A r \in Session : DestroyDue(r)' => DestroyDue(r)
    BY <1>4, <2>1, BeginsFrame DEF HandleConnectError, DestroyDue
  <2>6. ExitingClosed'
    BY <1>0, <1>4, <2>1, <2>4, BeginsFrame
    DEF HandleConnectError, SessionInv, ExitingClosed, TypeOK, HandlersHaveSession, NoThread, Busy, ExitTail
  <2>7. DoomedWithdrawn'
    BY <1>0, <1>4, <2>4, <2>5 DEF HandleConnectError, SessionInv, DoomedWithdrawn, TypeOK
  <2>8. UnbornUntouched' /\ FreshPrivate'
    BY <1>0, <1>4, <2>1, <2>3, <2>4, BeginsFrame
    DEF HandleConnectError, SessionInv, UnbornUntouched, FreshPrivate, NoTimer, NoWrite, TypeOK, FreshIo
  <2>9. SendsKnown' BY <1>0, <1>4, <2>1, BeginsFrame DEF HandleConnectError, Heard, TypeOK, FreshIo
  <2>. QED BY <2>1, <2>2, <2>6, <2>7, <2>8, <2>9, BeginsFrame DEF SessionInv
<1>5. CASE HandleConnect(t, s)
  <2>1. Begins(t, s) BY <1>0, <1>5, EnterStarts DEF HandleConnect, Dispatch, Begins, Sending, Pcs, ReturnPcs, ExitTail
  <2>2. TypeOK' BY <1>0, <1>5, <2>1 DEF HandleConnect, TypeOK, Begins
  <2>3. ~(s > connindex)
    BY <1>0, <1>5 DEF HandleConnect, Dispatch, SessionInv, UnbornUntouched, NoTimer, TypeOK
  <2>4. freed[s] = 0 /\ s \notin smap /\ NoThread(s) /\ ~DestroyDue(s)
    BY <1>5 DEF HandleConnect, Dispatch, SessionInv, FreshPrivate, FreshIo, NoTimer, NoThread, DestroyDue
  <2>5. \A r \in Session : DestroyDue(r)' => DestroyDue(r)
    BY <1>5, <2>1, BeginsFrame DEF HandleConnect, DestroyDue
  <2>6. ExitingClosed'
    BY <1>0, <1>5, <2>1, <2>4, BeginsFrame
    DEF HandleConnect, SessionInv, ExitingClosed, TypeOK, HandlersHaveSession, NoThread, Busy, ExitTail
  <2>7. DoomedWithdrawn'
    BY <1>0, <1>5, <2>4, <2>5 DEF HandleConnect, SessionInv, DoomedWithdrawn, TypeOK
  <2>8. UnbornUntouched' /\ FreshPrivate'
    BY <1>0, <1>5, <2>1, <2>3, <2>4, BeginsFrame
    DEF HandleConnect, SessionInv, UnbornUntouched, FreshPrivate, NoTimer, NoWrite, TypeOK, FreshIo
  <2>9. SendsKnown' BY <1>0, <1>5, <2>1, BeginsFrame DEF HandleConnect, Heard, TypeOK, FreshIo
  <2>. QED BY <2>1, <2>2, <2>6, <2>7, <2>8, <2>9, BeginsFrame DEF SessionInv
<1>6. CASE HandleRead(t, s)
  <2>1. Begins(t, s) BY <1>0, <1>6, EnterStarts DEF HandleRead, Dispatch, Begins, Sending, Pcs, ReturnPcs, ExitTail
  <2>2. TypeOK' BY <1>0, <1>6, <2>1 DEF HandleRead, TypeOK, Begins
  <2>3. ~(s > connindex)
    BY <1>0, <1>6 DEF HandleRead, Dispatch, SessionInv, UnbornUntouched, NoTimer, TypeOK
  <2>4. io[s] \notin FreshIo \/ UNCHANGED io
    BY <1>6 DEF HandleRead, Dispatch, FreshIo
  <2>5. \A r \in Session : DestroyDue(r)' => DestroyDue(r)
    BY <1>6, <2>1, BeginsFrame DEF HandleRead, DestroyDue
  <2>6. ExitingClosed'
    BY <1>0, <1>6, <2>1, <2>4, BeginsFrame
    DEF HandleRead, SessionInv, ExitingClosed, TypeOK, HandlersHaveSession, NoThread, Busy, ExitTail
  <2>7. DoomedWithdrawn'
    BY <1>0, <1>6, <2>4, <2>5 DEF HandleRead, SessionInv, DoomedWithdrawn, TypeOK
  <2>8. UnbornUntouched' /\ FreshPrivate'
    BY <1>0, <1>6, <2>1, <2>3, <2>4, BeginsFrame
    DEF HandleRead, SessionInv, UnbornUntouched, FreshPrivate, NoTimer, NoWrite, TypeOK, FreshIo
  <2>9. SendsKnown' BY <1>0, <1>6, <2>1, BeginsFrame DEF HandleRead, Heard, TypeOK, FreshIo
  <2>. QED BY <2>1, <2>2, <2>6, <2>7, <2>8, <2>9, BeginsFrame DEF SessionInv
<1>7. CASE RunExit(t, s)
  <2>1. Begins(t, s) BY <1>0, <1>7, EnterStarts DEF RunExit, Begins, Sending, Pcs, ReturnPcs, ExitTail
  <2>2. TypeOK' BY <1>0, <1>7, <2>1 DEF RunExit, TypeOK, Begins
  <2>3. ~(s > connindex)
    BY <1>0, <1>7 DEF RunExit, SessionInv, UnbornUntouched, NoTimer, TypeOK
  <2>4. io[s] \notin FreshIo
    BY <1>0, <1>7 DEF RunExit, SessionInv, FreshPrivate, NoTimer, TypeOK
  <2>5. \A r \in Session : DestroyDue(r)' => DestroyDue(r)
    BY <1>7, <2>1, BeginsFrame DEF RunExit, DestroyDue
  <2>6. ExitingClosed'
    BY <1>0, <1>7, <2>1, <2>4, BeginsFrame
    DEF RunExit, SessionInv, ExitingClosed, TypeOK, HandlersHaveSession, NoThread, Busy, ExitTail
  <2>7. DoomedWithdrawn'
    BY <1>0, <1>7, <2>4, <2>5 DEF RunExit, SessionInv, DoomedWithdrawn, TypeOK
  <2>8. UnbornUntouched' /\ FreshPrivate'
    BY <1>0, <1>7, <2>1, <2>3, <2>4, BeginsFrame
    DEF RunExit, SessionInv, UnbornUntouched, FreshPrivate, NoTimer, NoWrite, TypeOK, FreshIo
  <2>9. SendsKnown' BY <1>0, <1>7, <2>1, BeginsFrame DEF RunExit, Heard, TypeOK, FreshIo
  <2>. QED BY <2>1, <2>2, <2>6, <2>7, <2>8, <2>9, BeginsFrame DEF SessionInv
<1>8. CASE HandleDestroy(t, s)
  <2>1. TypeOK' BY <1>0, <1>8 DEF HandleDestroy, TypeOK
  <2>2. HandlersHaveSession' /\ ExitingClosed'
    BY <1>8 DEF HandleDestroy, SessionInv, HandlersHaveSession, ExitingClosed
  <2>3. \A r \in Session : DestroyDue(r)' => DestroyDue(r)
    BY <1>0, <1>8 DEF HandleDestroy, DestroyDue, Busy, TypeOK
  <2>4. DestroyDue(s) BY <1>8 DEF HandleDestroy, DestroyDue
  <2>5. DoomedWithdrawn' BY <1>0, <1>8, <2>3, <2>4 DEF HandleDestroy, SessionInv, DoomedWithdrawn, TypeOK
  <2>6. UnbornUntouched' /\ FreshPrivate'
    BY <1>0, <1>8
    DEF HandleDestroy, SessionInv, UnbornUntouched, FreshPrivate, NoTimer, NoWrite, NoThread, Busy, TypeOK
  <2>7. SendsKnown' BY <1>8 DEF HandleDestroy, SessionInv, SendsKnown, Sending, Heard
  <2>. QED BY <2>1, <2>2, <2>5, <2>6, <2>7 DEF SessionInv
<1>9. CASE HandleWrite(t, s)
  <2>1. Begins(t, s) BY <1>0, <1>9, EnterStarts DEF HandleWrite, Begins, Sending, Pcs, ReturnPcs, ExitTail
  <2>2. TypeOK' BY <1>0, <1>9, <2>1 DEF HandleWrite, TypeOK, Begins
  <2>3. ~(s > connindex)
    BY <1>0, <1>9 DEF HandleWrite, SessionInv, UnbornUntouched, NoWrite, TypeOK
  <2>4. io[s] \notin FreshIo \/ UNCHANGED io
    BY <1>0, <1>9 DEF HandleWrite, SessionInv, FreshPrivate, NoWrite, TypeOK
  <2>5. \A r \in Session : DestroyDue(r)' => DestroyDue(r)
    BY <1>9, <2>1, BeginsFrame DEF HandleWrite, DestroyDue
  <2>6. ExitingClosed'
    BY <1>0, <1>9, <2>1, <2>4, BeginsFrame
    DEF HandleWrite, SessionInv, ExitingClosed, TypeOK, HandlersHaveSession, NoThread, Busy, ExitTail
  <2>7. DoomedWithdrawn'
    BY <1>0, <1>9, <2>4, <2>5 DEF HandleWrite, SessionInv, DoomedWithdrawn, TypeOK
  <2>8. UnbornUntouched' /\ FreshPrivate'
    BY <1>0, <1>9, <2>1, <2>3, <2>4, BeginsFrame
    DEF HandleWrite, SessionInv, UnbornUntouched, FreshPrivate, NoTimer, NoWrite, TypeOK, FreshIo
  <2>9. SendsKnown' BY <1>0, <1>9, <2>1, BeginsFrame DEF HandleWrite, Heard, TypeOK, FreshIo
  <2>. QED BY <2>1, <2>2, <2>6, <2>7, <2>8, <2>9, BeginsFrame DEF SessionInv
<1>. QED BY <1>1, <1>2, <1>3, <1>4, <1>5, <1>6, <1>7, <1>8, <1>9 DEF RunHandler

\* So do the completions and expiries of the asynchronous i/o library.
LEMMA AsioStepInv ==
  ASSUME SessionInv, NEW s \in Session, IoCompletes(s) \/ WriteCompletes(s) \/ WriteOn(s) \/ TimerExpires(s)
  PROVE  SessionInv'
<1> USE DEF SessionInv
<1>1. CASE IoCompletes(s)
  <2>1. /\ io[s] # "none"
        /\ io'[s] \in FreshIo => io[s] \in FreshIo
        /\ io' \in [Session -> {"none", "accept", "accepted", "acceptfailed", "connect",
                           "connected", "connectfailed", "receive", "received"}]
        /\ \A r \in Session \ {s} : io'[r] = io[r]
    BY <1>1 DEF IoCompletes, Completion, FreshIo, TypeOK
  <2>2. TypeOK' BY <1>1, <2>1 DEF IoCompletes, TypeOK
  <2>. QED BY <1>1, <2>1, <2>2 DEF IoCompletes, HandlersHaveSession, UnbornUntouched, FreshPrivate,
       SendsKnown, Sending, Heard, ExitingClosed, DoomedWithdrawn, NoTimer, NoWrite, NoThread, Busy, DestroyDue
<1>2. CASE TimerExpires(s)
  <2>1. TypeOK' BY <1>2 DEF TimerExpires, TypeOK
  <2>2. \A r \in Session : (DestroyDue(r)' => DestroyDue(r)) /\ (NoTimer(r) => NoTimer(r)')
    BY <1>2 DEF TimerExpires, DestroyDue, NoTimer, Busy, TypeOK
  <2>. QED BY <1>2, <2>1, <2>2 DEF TimerExpires, HandlersHaveSession, UnbornUntouched, FreshPrivate,
       SendsKnown, Sending, Heard, ExitingClosed, DoomedWithdrawn, NoWrite, NoThread, Busy
<1>3. CASE WriteCompletes(s) \/ WriteOn(s)
  <2>1. /\ writes' \in [Session -> Nat] /\ written' \in [Session -> Nat]
        /\ ~NoWrite(s)
        /\ \A r \in Session \ {s} : writes'[r] = writes[r] /\ written'[r] = written[r]
        /\ UNCHANGED <<connindex, freed, smap, status, owner, sock, io, timers, counters, history, th, fault>>
    BY <1>3 DEF WriteCompletes, WriteOn, NoWrite, TypeOK
  <2>2. TypeOK' BY <2>1 DEF TypeOK
  <2>3. \A r \in Session : NoWrite(r) => NoWrite(r)' BY <2>1 DEF NoWrite
  <2>. QED BY <2>1, <2>2, <2>3 DEF HandlersHaveSession, UnbornUntouched, FreshPrivate,
       SendsKnown, Sending, Heard, ExitingClosed, DoomedWithdrawn, NoTimer, NoThread, Busy, DestroyDue
<1>. QED BY <1>1, <1>2, <1>3

-----------------------------------------------------------------------------
(* The invariant, and what follows from it                                 *)

\* NetThreadPorc leaves the invariant true: two private sessions, no thread.
LEMMA InitInv == Init => SessionInv
<1> SUFFICES ASSUME Init PROVE SessionInv
  OBVIOUS
<1>1. Idle \in Handlers /\ Idle.pc = "idle" BY DEF Idle, Handlers, Pcs
<1>2. WebId \in Session /\ FirstId \in Session /\ WebId \in 1 .. MaxId /\ FirstId # WebId
  BY MaxIdAssumption DEF WebId, FirstId, Session
<1>3. TypeOK BY <1>1, <1>2 DEF Init, TypeOK
<1>4. \A t \in Thread : th[t].pc = "idle" BY <1>1 DEF Init
<1>5. \A s \in Session : NoThread(s) /\ NoTimer(s) /\ NoWrite(s) /\ ~DestroyDue(s)
  BY <1>4 DEF NoThread, Busy, Init, NoTimer, NoWrite, DestroyDue
<1>6. HandlersHaveSession /\ SendsKnown /\ ExitingClosed
  BY <1>4 DEF HandlersHaveSession, SendsKnown, Sending, ExitingClosed, ExitTail
<1>7. \A s \in Session : s > connindex => s # WebId /\ s # FirstId
  BY DEF Init, WebId, FirstId
<1>8. UnbornUntouched BY <1>2, <1>5, <1>7 DEF Init, UnbornUntouched
<1>9. FreshPrivate BY <1>2, <1>5 DEF Init, FreshPrivate
<1>10. DoomedWithdrawn BY <1>5 DEF Init, DoomedWithdrawn
<1>. QED BY <1>3, <1>6, <1>8, <1>9, <1>10 DEF SessionInv

\* Every step of the service keeps the invariant.
LEMMA NextInv == SessionInv /\ [Next]_vars => SessionInv'
<1> SUFFICES ASSUME SessionInv, [Next]_vars PROVE SessionInv'
  OBVIOUS
<1>1. CASE UNCHANGED vars
  BY <1>1 DEF vars, SessionInv, TypeOK, HandlersHaveSession, UnbornUntouched, FreshPrivate,
     SendsKnown, Sending, Heard, ExitingClosed, DoomedWithdrawn, NoTimer, NoWrite, NoThread, Busy, DestroyDue
<1>2. CASE Next
  BY <1>2, HandlerStepInv, RunHandlerInv, AsioStepInv DEF Next
<1>. QED BY <1>1, <1>2

\* However many threads run the handlers, and however often sessions are closed,
\* the inductive invariant holds in every reachable state.
THEOREM InvariantHolds == Spec => []SessionInv
BY InitInv, NextInv, PTL DEF Spec

\* Every variable stays in its range.
THEOREM TypeCorrect == Spec => []TypeOK
<1>1. SessionInv => TypeOK BY DEF SessionInv
<1>. QED BY <1>1, InvariantHolds, PTL

\* GetSession never hands out a destroyed session: handle_exit takes an id out of
\* the map before it arms the wait for handle_destory, and nothing puts it back.
THEOREM DirectoryIsLive == Spec => []DirectoryLive
<1>1. SessionInv => DirectoryLive
  <2> SUFFICES ASSUME SessionInv, NEW s \in smap PROVE s \in Live
    BY DEF DirectoryLive
  <2>1. s \in Session /\ freed[s] \in Nat BY DEF SessionInv, TypeOK
  <2>2. freed[s] = 0 BY <2>1 DEF SessionInv, DoomedWithdrawn
  <2>3. ~(s > connindex) BY <2>1 DEF SessionInv, UnbornUntouched
  <2>. QED BY <2>1, <2>2, <2>3 DEF Live, Constructed, Session, SessionInv, TypeOK, FirstId
<1>. QED BY <1>1, InvariantHolds, PTL

-----------------------------------------------------------------------------
(* The life cycle                                                          *)

\* A step of the lifecycle, or a stutter.
LifecycleStep == [Lifecycle!LifecycleNext]_(Lifecycle!lifecycleVars)

\* Nothing a caller can see has changed.
LEMMA Invisible ==
  ASSUME UNCHANGED <<connindex, freed, status, smap>>
  PROVE  LifecycleStep
<1>1. \A s \in Session : PhaseOf(s)' = PhaseOf(s) BY DEF PhaseOf
<1>2. UNCHANGED Phase BY <1>1 DEF Phase
<1>. QED BY <1>2 DEF LifecycleStep, Lifecycle!lifecycleVars

\* One session changes phase, the others do not.
LEMMA PhaseMoves ==
  ASSUME NEW s \in Session, NEW a, NEW b, PhaseOf(s) = a, PhaseOf(s)' = b,
         \A r \in Session \ {s} : PhaseOf(r)' = PhaseOf(r)
  PROVE  Lifecycle!Move(s, a, b)
<1>1. Phase[s] = a BY DEF Phase
<1>2. Phase' = [Phase EXCEPT ![s] = b]
  BY DEF Phase
<1>. QED BY <1>1, <1>2 DEF Lifecycle!Move

\* The first two sessions are pending, the rest unborn.
LEMMA InitRefines == Init => Lifecycle!LifecycleInit
<1> SUFFICES ASSUME Init PROVE Lifecycle!LifecycleInit
  OBVIOUS
<1>1. \A s \in Session : PhaseOf(s) = IF s \in {FirstId, FirstId + 1} THEN "pending" ELSE "unborn"
  BY DEF Init, PhaseOf, FirstId, WebId, Session
<1>. QED BY <1>1 DEF Lifecycle!LifecycleInit, Lifecycle!Ids, Phase, Session, Init

\* handle_accept's AllocSession creates the session with the next id.
LEMMA ReacceptCreates ==
  ASSUME SessionInv, NEW t \in Thread, Reaccept(t)
  PROVE  LifecycleStep
<1>0. connindex \in 1 .. MaxId BY DEF SessionInv, TypeOK
<1>1. CASE connindex = MaxId
  BY <1>1, Invisible, MaxIdAssumption DEF Reaccept
<1>2. CASE connindex < MaxId
  <2>1. PICK n \in Session : n = connindex + 1
    BY <1>0, <1>2, MaxIdAssumption DEF Session, FirstId
  <2>2. connindex' = n /\ UNCHANGED <<freed, status, smap>>
    BY <1>0, <1>2, <2>1, MaxIdAssumption DEF Reaccept
  <2>3. /\ n > connindex /\ ~(n > n)
        /\ \A r \in Session : r # n => (r > n <=> r > connindex)
        /\ \A r \in Session : r > connindex => n <= r
    BY <1>0, <1>2, <2>1, MaxIdAssumption DEF Session, FirstId
  <2>4. PhaseOf(n) = "unborn" BY <2>3 DEF PhaseOf
  <2>5. PhaseOf(n)' = "pending"
    BY <2>2, <2>3 DEF PhaseOf, SessionInv, UnbornUntouched
  <2>6. \A r \in Session \ {n} : PhaseOf(r)' = PhaseOf(r)
    BY <2>2, <2>3 DEF PhaseOf
  <2>7. Lifecycle!Move(n, "unborn", "pending") BY <2>4, <2>5, <2>6, PhaseMoves
  <2>8. \A r \in Session : PhaseOf(r) = "unborn" => n <= r
    BY <2>3 DEF PhaseOf
  <2>9. Lifecycle!Create(n)
    BY <2>2, <2>7, <2>8 DEF Lifecycle!Create, Lifecycle!Ids, Phase, Session
  <2>. QED BY <2>9 DEF LifecycleStep, Lifecycle!LifecycleNext, Lifecycle!Ids, Session
<1>. QED BY <1>0, <1>1, <1>2, MaxIdAssumption

\* handle_exit's status change shuts the session, once.
LEMMA ExitMarkShuts ==
  ASSUME SessionInv, NEW t \in Thread, ExitMark(t)
  PROVE  LifecycleStep
<1>0. PICK s \in Session : s = th[t].ses
  BY DEF SessionInv, HandlersHaveSession, ExitMark, At
<1>1. th[t].pc # "idle" /\ freed[s] = 0
  BY <1>0 DEF ExitMark, At, Touches, Sending, ByIdOnly
<1>2. ~(s > connindex) BY <1>0, <1>1 DEF SessionInv, UnbornUntouched, NoThread, Busy
<1>3. status' = [status EXCEPT ![s] = "CLOSED"] /\ UNCHANGED <<connindex, freed, smap>>
  BY <1>0 DEF ExitMark
<1>4. status'[s] = "CLOSED" /\ \A r \in Session \ {s} : status'[r] = status[r]
  BY <1>3 DEF SessionInv, TypeOK
<1>5. \A r \in Session \ {s} : PhaseOf(r)' = PhaseOf(r) BY <1>3, <1>4 DEF PhaseOf
<1>6. PhaseOf(s)' = "closing" BY <1>1, <1>2, <1>3, <1>4 DEF PhaseOf
<1>7. CASE status[s] = "CLOSED"
  <2>1. status' = status BY <1>3, <1>7 DEF SessionInv, TypeOK
  <2>. QED BY <1>3, <2>1, Invisible
<1>8. CASE status[s] # "CLOSED"
  <2>1. PhaseOf(s) = "open" \/ PhaseOf(s) = "pending" BY <1>1, <1>2, <1>8 DEF PhaseOf
  <2>2. Lifecycle!Move(s, "open", "closing") \/ Lifecycle!Move(s, "pending", "closing")
    BY <1>5, <1>6, <2>1, PhaseMoves
  <2>3. Lifecycle!Shut(s) BY <1>3, <2>2 DEF Lifecycle!Shut
  <2>. QED BY <2>3 DEF LifecycleStep, Lifecycle!LifecycleNext, Lifecycle!Ids, Session
<1>. QED BY <1>7, <1>8

\* m_mapSession.erase withdraws the session, and only a closing one.
LEMMA ExitRemoveWithdraws ==
  ASSUME SessionInv, NEW t \in Thread, ExitRemove(t)
  PROVE  LifecycleStep
<1>0. PICK s \in Session : s = th[t].ses
  BY DEF SessionInv, HandlersHaveSession, ExitRemove, At
<1>1. th[t].pc = "exit_remove" /\ freed[s] = 0
  BY <1>0 DEF ExitRemove, At, Touches, Sending, ByIdOnly
<1>2. ~(s > connindex) BY <1>0, <1>1 DEF SessionInv, UnbornUntouched, NoThread, Busy
<1>3. smap' = smap \ {s} /\ UNCHANGED <<connindex, freed, status>> BY <1>0 DEF ExitRemove
<1>4. Phase[s] = "closing"
  BY <1>0, <1>1, <1>2 DEF Phase, PhaseOf, SessionInv, ExitingClosed, ExitTail
<1>5. UNCHANGED Phase BY <1>3 DEF Phase, PhaseOf
<1>6. CASE s \in smap
  <2>1. Lifecycle!Withdraw(s) BY <1>3, <1>4, <1>5, <1>6 DEF Lifecycle!Withdraw
  <2>. QED BY <2>1 DEF LifecycleStep, Lifecycle!LifecycleNext, Lifecycle!Ids, Session
<1>7. CASE s \notin smap
  <2>1. smap' = smap BY <1>3, <1>7
  <2>. QED BY <1>3, <2>1, Invisible
<1>. QED BY <1>6, <1>7

\* No other step inside a handler is visible.
LEMMA HandlerStepRefines ==
  ASSUME SessionInv, NEW t \in Thread, HandlerStep(t)
  PROVE  LifecycleStep
<1>1. CASE Reaccept(t) BY <1>1, ReacceptCreates
<1>2. CASE ExitMark(t) BY <1>2, ExitMarkShuts
<1>3. CASE ExitRemove(t) BY <1>3, ExitRemoveWithdraws
<1>4. CASE \/ OnAccept(t) \/ Start(t) \/ OnConnect(t) \/ ReadCheck(t) \/ DeliverCheck(t)
           \/ DeliverClient(t) \/ DeliverWeb(t) \/ Rearm(t)
  BY <1>4, Invisible
  DEF OnAccept, Start, OnConnect, ReadCheck, DeliverCheck, DeliverClient, DeliverWeb, Rearm
<1>5. CASE \/ SendLookup(t) \/ SendCheck(t) \/ SendData(t) \/ CloseSocket(t) \/ AsyncClose(t) \/ Close(t)
           \/ WriteCheck(t) \/ WriteOwner(t) \/ WriteNotify(t)
  BY <1>5, Invisible
  DEF SendLookup, SendCheck, SendData, CloseSocket, AsyncClose, CloseLookup, Close, WriteCheck, WriteOwner, WriteNotify
<1>6. CASE \/ ExitCheck(t) \/ ExitOwner(t) \/ ExitAcceptor(t)
           \/ ExitLookup(t) \/ ExitArm(t) \/ StaleUse(t) \/ NullCall(t)
  BY <1>6, Invisible
  DEF ExitCheck, ExitOwner, ExitAcceptor, ExitNotify, ExitLookup, ExitArm,
      StaleUse, NullCall
<1>. QED BY <1>1, <1>2, <1>3, <1>4, <1>5, <1>6 DEF HandlerStep

\* An accepted or connected session opens, a failed one is abandoned, and
\* handle_destory frees a session that has been withdrawn.
LEMMA RunHandlerRefines ==
  ASSUME SessionInv, NEW t \in Thread, NEW s \in Session, RunHandler(t, s)
  PROVE  LifecycleStep
<1> USE DEF PhaseOf
<1>0. TypeOK BY DEF SessionInv
<1>1. io[s] \in FreshIo => PhaseOf(s) = "pending" /\ freed[s] = 0
  BY <1>0 DEF SessionInv, FreshPrivate, UnbornUntouched, FreshIo
<1>2. io[s] # "none" => ~(s > connindex) BY DEF SessionInv, UnbornUntouched
<1>3. CASE HandleAcceptError(t, s) \/ HandleConnectError(t, s)
  <2>1. /\ io[s] \in FreshIo /\ io[s] # "none"
        /\ freed' = [freed EXCEPT ![s] = @ + 1] /\ UNCHANGED <<connindex, smap>>
        /\ \A r \in Session \ {s} : status'[r] = status[r]
    BY <1>0, <1>3 DEF HandleAcceptError, HandleConnectError, Dispatch, FreshIo, TypeOK
  <2>2. freed'[s] > 0 /\ \A r \in Session \ {s} : freed'[r] = freed[r]
    BY <1>0, <2>1 DEF TypeOK
  <2>3. PhaseOf(s)' = "gone" /\ \A r \in Session \ {s} : PhaseOf(r)' = PhaseOf(r)
    BY <1>2, <2>1, <2>2
  <2>4. Lifecycle!Move(s, "pending", "gone") BY <1>1, <2>1, <2>3, PhaseMoves
  <2>5. Lifecycle!Abandon(s) BY <2>1, <2>4 DEF Lifecycle!Abandon
  <2>. QED BY <2>5 DEF LifecycleStep, Lifecycle!LifecycleNext, Lifecycle!Ids, Session
<1>4. CASE HandleAccept(t, s) \/ HandleConnect(t, s)
  <2>1. /\ io[s] \in FreshIo /\ io[s] # "none" /\ smap' = smap \cup {s}
        /\ status' = [status EXCEPT ![s] = "CONNECTED"] /\ UNCHANGED <<connindex, freed>>
    BY <1>4 DEF HandleAccept, HandleConnect, Dispatch, FreshIo
  <2>2. status'[s] = "CONNECTED" /\ \A r \in Session \ {s} : status'[r] = status[r]
    BY <1>0, <2>1 DEF TypeOK
  <2>3. PhaseOf(s)' = "open" /\ \A r \in Session \ {s} : PhaseOf(r)' = PhaseOf(r)
    BY <1>1, <1>2, <2>1, <2>2
  <2>4. Lifecycle!Move(s, "pending", "open") BY <1>1, <2>1, <2>3, PhaseMoves
  <2>5. Lifecycle!Open(s) BY <2>1, <2>4 DEF Lifecycle!Open
  <2>. QED BY <2>5 DEF LifecycleStep, Lifecycle!LifecycleNext, Lifecycle!Ids, Session
<1>5. CASE HandleDestroy(t, s)
  <2>1. /\ s \notin smap /\ status[s] = "CLOSED"
        /\ freed' = [freed EXCEPT ![s] = @ + 1] /\ UNCHANGED <<connindex, smap, status>>
    BY <1>5 DEF HandleDestroy, SessionInv, DoomedWithdrawn, DestroyDue
  <2>2. freed'[s] > 0 /\ \A r \in Session \ {s} : freed'[r] = freed[r]
    BY <1>0, <2>1 DEF TypeOK
  <2>3. ~(s > connindex) BY <1>5 DEF HandleDestroy, SessionInv, UnbornUntouched, NoTimer
  <2>4. PhaseOf(s)' = "gone" /\ \A r \in Session \ {s} : PhaseOf(r)' = PhaseOf(r)
    BY <2>1, <2>2, <2>3
  <2>5. CASE freed[s] = 0
    <3>1. PhaseOf(s) = "closing" BY <2>1, <2>3, <2>5
    <3>2. Lifecycle!Move(s, "closing", "gone") BY <2>4, <3>1, PhaseMoves
    <3>3. Lifecycle!Free(s) BY <2>1, <3>2 DEF Lifecycle!Free
    <3>. QED BY <3>3 DEF LifecycleStep, Lifecycle!LifecycleNext, Lifecycle!Ids, Session
  <2>6. CASE freed[s] > 0
    <3>1. PhaseOf(s) = "gone" BY <2>3, <2>6
    <3>2. UNCHANGED <<Phase, smap>> BY <2>1, <2>4, <3>1 DEF Phase
    <3>. QED BY <3>2 DEF LifecycleStep, Lifecycle!lifecycleVars
  <2>. QED BY <1>0, <2>5, <2>6 DEF TypeOK
<1>6. CASE HandleAcceptPeerGone(t, s) \/ HandleRead(t, s) \/ HandleWrite(t, s) \/ RunExit(t, s)
  BY <1>6, Invisible DEF HandleAcceptPeerGone, HandleRead, HandleWrite, RunExit
<1>. QED BY <1>3, <1>4, <1>5, <1>6 DEF RunHandler

\* Every step is a step of the lifecycle or invisible.
LEMMA NextRefines == SessionInv /\ [Next]_vars => LifecycleStep
<1> SUFFICES ASSUME SessionInv, [Next]_vars PROVE LifecycleStep
  OBVIOUS
<1>1. CASE UNCHANGED vars BY <1>1, Invisible DEF vars
<1>2. ASSUME NEW s \in Session, IoCompletes(s) \/ WriteCompletes(s) \/ WriteOn(s) \/ TimerExpires(s)
      PROVE  LifecycleStep
  BY <1>2, Invisible DEF IoCompletes, WriteCompletes, WriteOn, TimerExpires
<1>3. CASE Next BY <1>2, <1>3, HandlerStepRefines, RunHandlerRefines DEF Next
<1>. QED BY <1>1, <1>3

\* The session layer implements the lifecycle of SessionLifecycle: whatever the
\* threads interleave, handle_accept opens, handle_exit shuts and withdraws, and
\* handle_destory frees a session in that order, ids are handed out in order and
\* none is used again.
THEOREM ImplementsLifecycle == Spec => LifecycleImplemented
BY InitRefines, NextRefines, InvariantHolds, PTL
DEF Spec, LifecycleImplemented, Lifecycle!LifecycleSpec, LifecycleStep
=============================================================================
