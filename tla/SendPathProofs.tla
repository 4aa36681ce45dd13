--------------------------- MODULE SendPathProofs ---------------------------
(***************************************************************************)
(* Proofs about SendPath, for every set of threads and sessions, every     *)
(* number of pieces and every amount of room in the kernel.                *)
(***************************************************************************)
EXTENDS SendPath, FiniteSetTheorems, TLAPS

\* A thread that is in a call knows its session and message, and a sum it is
\* about to write is not negative.
Busy ==
    \A t \in Thread :
        /\ pc[t] # "idle" => call[t] \in [to : Session, msg : 1 .. MaxSends]
        /\ pc[t] \in {"sent", "discarded"} => tmp[t] \in Nat

TypeInv == TypeOK /\ Busy

\* Until it starts the write, Send has its own message in its buffer.
Built == \A t \in Thread : pc[t] = "built" => buffer[t] = call[t].msg

\* While no write of a session has had to wait, all that were begun have come to
\* their end and, unless the socket is dead, their messages are on the stream.
InStep ==
    \A s \in Session : ~delayed[s] =>
        /\ queue[s] = <<>>
        /\ \A w \in ready[s] : Complete(w)
        /\ Whole(s)
        /\ up[s] => Len(stream[s]) = Pieces * Len(begun[s])

WholeInv == TypeInv /\ Built /\ InStep

-----------------------------------------------------------------------------
(* Types                                                                   *)

\* The pieces the kernel takes are pieces of the message that is written.
LEMMA TakenType ==
    ASSUME TypeOK, NEW w \in Write, NEW k \in 0 .. (Pieces - w.pos)
    PROVE  /\ Taken(w, k) \in Seq(Piece)
           /\ Len(Taken(w, k)) = k
           /\ \A i \in 1 .. k : Taken(w, k)[i] =
                [msg |-> w.msg, part |-> w.pos + i, got |-> buffer[w.by]]
<1>1. /\ Pieces \in Nat /\ k \in Nat /\ w.pos \in Nat
      /\ w.msg \in 1 .. MaxSends /\ w.by \in Thread
      /\ buffer[w.by] \in 0 .. MaxSends
    BY SendAssumption DEF TypeOK, Write
<1>2. \A i \in 1 .. k :
        [msg |-> w.msg, part |-> w.pos + i, got |-> buffer[w.by]] \in Piece
    BY <1>1 DEF Piece
<1> QED BY <1>1, <1>2 DEF Taken

LEMMA FailedType ==
    ASSUME NEW w \in Write
    PROVE  Failed(w) \in Write
BY DEF Write, Failed

LEMMA FitsType ==
    ASSUME NEW w \in Write, NEW room \in Room
    PROVE  /\ Fits(w, room) \in 0 .. (Pieces - w.pos)
           /\ \A k \in 0 .. (Pieces - w.pos) : Advanced(w, k) \in Write
<1>1. /\ Pieces \in Nat /\ room \in Nat
      /\ w.pos \in 0 .. Pieces
    BY SendAssumption DEF Write
<1>2. Fits(w, room) \in 0 .. (Pieces - w.pos)  BY <1>1 DEF Fits
<1>3. ASSUME NEW k \in 0 .. (Pieces - w.pos)
      PROVE  Advanced(w, k) \in Write
  <2>1. w.pos + k \in 0 .. Pieces  BY <1>1
  <2> QED BY <2>1 DEF Advanced, Write
<1> QED BY <1>2, <1>3

\* A write that is started leaves the queue, the handlers, the stream and the
\* history of its session well typed.
LEMMA StartType ==
    ASSUME TypeOK, NEW s \in Session, NEW w \in Write, NEW rest \in SUBSET Write,
           Start(s, w, rest)
    PROVE  /\ queue' \in [Session -> Seq(Write)]
           /\ ready' \in [Session -> SUBSET Write]
           /\ stream' \in [Session -> Seq(Piece)]
           /\ delayed' \in [Session -> BOOLEAN]
           /\ calm' \in BOOLEAN
<1>1. CASE StartFails(s, w, rest)
    BY <1>1, FailedType DEF StartFails, TypeOK
<1>2. CASE StartWaits(s, w, rest)
    BY <1>2 DEF StartWaits, TypeOK
<1>3. ASSUME NEW room \in Room, StartTakes(s, w, rest, Fits(w, room))
      PROVE  /\ queue' \in [Session -> Seq(Write)]
             /\ ready' \in [Session -> SUBSET Write]
             /\ stream' \in [Session -> Seq(Piece)]
             /\ delayed' \in [Session -> BOOLEAN]
             /\ calm' \in BOOLEAN
  <2> DEFINE k == Fits(w, room)
  <2>1. k \in 0 .. (Pieces - w.pos) /\ Advanced(w, k) \in Write  BY FitsType
  <2>2. Taken(w, k) \in Seq(Piece)  BY <2>1, TakenType
  <2>3. <<w>> \in Seq(Write)  OBVIOUS
  <2>4. stream[s] \o Taken(w, k) \in Seq(Piece)  BY <2>2 DEF TypeOK
  <2> HIDE DEF k
  <2>5. StartTakes(s, w, rest, k)  BY <1>3 DEF k
  <2>6. /\ stream' \in [Session -> Seq(Piece)]
        /\ delayed' \in [Session -> BOOLEAN]
        /\ calm' \in BOOLEAN
    BY <2>4, <2>5 DEF StartTakes, TypeOK
  <2>7. queue \in [Session -> Seq(Write)] /\ ready \in [Session -> SUBSET Write]
    BY DEF TypeOK
  <2>8. CASE k = 0
    <3>1. /\ queue' = [queue EXCEPT ![s] = <<w>>]
          /\ ready' = [ready EXCEPT ![s] = rest]
      BY <2>1, <2>5, <2>8 DEF StartTakes
    <3>2. queue' \in [Session -> Seq(Write)]  BY <2>3, <2>7, <3>1
    <3>3. ready' \in [Session -> SUBSET Write]  BY <2>7, <3>1
    <3> QED BY <2>6, <3>2, <3>3
  <2>9. CASE k > 0
    <3> DEFINE left == rest \cup {Advanced(w, k)}
    <3>1. /\ queue' = queue
          /\ ready' = [ready EXCEPT ![s] = left]
      BY <2>1, <2>5, <2>9 DEF StartTakes
    <3>2. left \in SUBSET Write  BY <2>1
    <3> HIDE DEF left
    <3>3. ready' \in [Session -> SUBSET Write]  BY <2>7, <3>1, <3>2
    <3> QED BY <2>6, <2>7, <3>1, <3>3
  <2> QED BY <2>1, <2>5, <2>8, <2>9 DEF StartTakes
<1> QED BY <1>1, <1>2, <1>3 DEF Start

\* TypeOK with Busy is inductive.
LEMMA TypeInit == Init => TypeInv
<1> SUFFICES ASSUME Init PROVE TypeInv  OBVIOUS
<1>1. [sent |-> 0, discarded |-> 0] \in [sent : Nat, discarded : Nat]  OBVIOUS
<1>2. MaxSends \in Nat  BY SendAssumption
<1>3. <<>> \in Seq(Write) /\ <<>> \in Seq(Piece) /\ <<>> \in Seq(1 .. MaxSends)  OBVIOUS
<1> QED BY <1>1, <1>2, <1>3 DEF Init, TypeInv, TypeOK, Busy

LEMMA TypeStep == TypeInv /\ [Next]_vars => TypeInv'
<1> SUFFICES ASSUME TypeInv, [Next]_vars PROVE TypeInv'  OBVIOUS
<1> USE DEF TypeInv, sockets, threads, writes, counters, history
<1>1. Pieces \in Nat \ {0} /\ MaxSends \in Nat  BY SendAssumption
<1>2. CASE UNCHANGED vars  BY <1>2 DEF vars, TypeOK, Busy, Write, Piece
<1>3. ASSUME NEW t \in Thread, NEW s \in Session, Send(t, s) PROVE TypeInv'
  <2>1. [to |-> s, msg |-> calls + 1] \in [to : Session, msg : 1 .. MaxSends]
    BY <1>1, <1>3 DEF Send, TypeOK
  <2>2. calls + 1 \in 1 .. MaxSends  BY <1>1, <1>3 DEF Send, TypeOK
  <2>3. TypeOK'  BY SMTT(20), <1>3, <2>1, <2>2 DEF Send, At, SendBuf, TypeOK
  <2>4. ASSUME NEW u \in Thread
        PROVE  /\ pc'[u] # "idle" => call'[u] \in [to : Session, msg : 1 .. MaxSends]
               /\ pc'[u] \in {"sent", "discarded"} => tmp'[u] \in Nat
    <3>1. CASE u = t
      <4>1. pc'[u] = "built" /\ call'[u] = [to |-> s, msg |-> calls + 1]
        BY <1>3, <3>1 DEF Send, At, TypeOK
      <4> QED BY <2>1, <4>1
    <3>2. CASE u # t
      <4>1. pc'[u] = pc[u] /\ call'[u] = call[u] /\ tmp'[u] = tmp[u]
        BY <1>3, <3>2 DEF Send, At, TypeOK
      <4> QED BY <4>1 DEF Busy
    <3> QED BY <3>1, <3>2
  <2>5. Busy'  BY <2>4 DEF Busy
  <2> QED BY <2>3, <2>5
<1>4. ASSUME NEW t \in Thread, NEW s \in Session, HandleWrite(t, s) PROVE TypeInv'
  <2>1. PICK w \in ready[s] :
        /\ Complete(w)
        /\ ready' = [ready EXCEPT ![s] = @ \ {w}]
        /\ call' = [call EXCEPT ![t] = [to |-> s, msg |-> w.msg]]
        /\ At(t, "idle", IF Outcome(w) = "subtract" THEN "subtract" ELSE "discarded")
        /\ tmp' = [tmp EXCEPT ![t] = IF Outcome(w) = "subtract" THEN wait - Pieces
                                     ELSE total.discarded + Pieces]
    BY <1>4 DEF HandleWrite
  <2>2. w \in Write  BY DEF TypeOK
  <2>3. [to |-> s, msg |-> w.msg] \in [to : Session, msg : 1 .. MaxSends]
    BY <2>2 DEF Write
  <2>4. wait - Pieces \in Int /\ total.discarded + Pieces \in Nat
    BY <1>1 DEF TypeOK
  <2>5. ready[s] \ {w} \in SUBSET Write  BY DEF TypeOK
  <2>6. ready' \in [Session -> SUBSET Write]  BY <2>1, <2>5 DEF TypeOK
  <2>7. calm' \in BOOLEAN
    BY <1>4 DEF HandleWrite, TypeOK, WaitUpdating
  <2>8. TypeOK'
    BY SMTT(20), <1>4, <2>1, <2>3, <2>4, <2>6, <2>7 DEF HandleWrite, At, TypeOK
  <2>9. Busy'
    <3> SUFFICES ASSUME NEW u \in Thread
                 PROVE  /\ pc'[u] # "idle" => call'[u] \in [to : Session, msg : 1 .. MaxSends]
                        /\ pc'[u] \in {"sent", "discarded"} => tmp'[u] \in Nat
      BY DEF Busy
    <3>1. CASE u = t
      <4>1. call'[u] = [to |-> s, msg |-> w.msg]  BY <2>1, <3>1 DEF TypeOK
      <4>2. CASE Outcome(w) = "subtract"
        <5>1. pc'[u] = "subtract"  BY <2>1, <3>1, <4>2 DEF At, TypeOK
        <5> QED BY <2>3, <4>1, <5>1
      <4>3. CASE Outcome(w) # "subtract"
        <5>1. tmp'[u] = total.discarded + Pieces  BY <2>1, <3>1, <4>3 DEF TypeOK
        <5> QED BY <2>3, <2>4, <4>1, <5>1
      <4> QED BY <4>2, <4>3
    <3>2. CASE u # t
      <4>1. pc'[u] = pc[u] /\ call'[u] = call[u] /\ tmp'[u] = tmp[u]
        BY <2>1, <3>2 DEF At, TypeOK
      <4> QED BY <4>1 DEF Busy
    <3> QED BY <3>1, <3>2
  <2> QED BY <2>8, <2>9
<1>6. ASSUME NEW t \in Thread, AsyncWrite(t) PROVE TypeInv'
  <2> DEFINE s == call[t].to
  <2>1. s \in Session /\ call[t].msg \in 1 .. MaxSends
    BY <1>6 DEF AsyncWrite, At, Busy
  <2>2. NewWrite(t) \in Write
    BY <1>1, <2>1 DEF NewWrite, Write, SendBuf
  <2>3. Start(s, NewWrite(t), ready[s]) /\ ready[s] \in SUBSET Write
    BY <1>6, <2>1 DEF AsyncWrite, TypeOK
  <2>4. /\ queue' \in [Session -> Seq(Write)]
        /\ ready' \in [Session -> SUBSET Write]
        /\ stream' \in [Session -> Seq(Piece)]
        /\ delayed' \in [Session -> BOOLEAN]
        /\ calm' \in BOOLEAN
    BY <2>1, <2>2, <2>3, StartType
  <2>5. begun' \in [Session -> Seq(1 .. MaxSends)]
    <3>1. begun' = [begun EXCEPT ![s] = Append(begun[s], call[t].msg)]
      BY <1>6 DEF AsyncWrite
    <3>2. Append(begun[s], call[t].msg) \in Seq(1 .. MaxSends)
      BY <2>1 DEF TypeOK
    <3> QED BY <3>1, <3>2 DEF TypeOK
  <2>6. TypeOK'
    BY <1>6, <2>4, <2>5 DEF AsyncWrite, At, TypeOK
  <2>7. Busy'  BY <1>6 DEF AsyncWrite, At, TypeOK, Busy
  <2> QED BY <2>6, <2>7
<1>7. ASSUME NEW t \in Thread, ReadWait(t) PROVE TypeInv'
  <2>1. wait + Pieces \in Int /\ calm' \in BOOLEAN
    BY <1>1, <1>7 DEF ReadWait, TypeOK, WaitUpdating
  <2> QED BY <1>7, <2>1 DEF ReadWait, At, TypeOK, Busy
<1>8. ASSUME NEW t \in Thread, AddToWait(t) PROVE TypeInv'
    BY <1>8 DEF AddToWait, At, TypeOK, Busy
<1>9. ASSUME NEW t \in Thread, StackReused(t) PROVE TypeInv'
    BY SMTT(20), <1>1, <1>9 DEF StackReused, TypeOK, Busy
<1>10. ASSUME NEW t \in Thread, SubtractFromWait(t) PROVE TypeInv'
    BY <1>10 DEF SubtractFromWait, At, TypeOK, Busy
<1>11. ASSUME NEW t \in Thread, ReadTotal(t) PROVE TypeInv'
  <2>1. total.sent + Pieces \in Nat  BY <1>1 DEF TypeOK
  <2> QED BY <1>11, <2>1 DEF ReadTotal, At, TypeOK, Busy
<1>12. ASSUME NEW t \in Thread, AddToTotal(t) PROVE TypeInv'
  <2>1. PICK sum \in {"sent", "discarded"} :
        At(t, sum, "idle") /\ total' = [total EXCEPT ![sum] = tmp[t]]
    BY <1>12 DEF AddToTotal
  <2>2. tmp[t] \in Nat  BY <2>1 DEF At, Busy
  <2>3. total' \in [sent : Nat, discarded : Nat]  BY <2>1, <2>2 DEF TypeOK
  <2>4. TypeOK'  BY <1>12, <2>1, <2>3 DEF AddToTotal, At, TypeOK
  <2>5. Busy'  BY <1>12, <2>1 DEF AddToTotal, At, TypeOK, Busy
  <2> QED BY <2>4, <2>5
<1>13. ASSUME NEW s \in Session, KernelTakes(s) PROVE TypeInv'
  <2>1. PICK room \in Room \ {0} :
        /\ stream' = [stream EXCEPT ![s] = @ \o Taken(Head(queue[s]), Fits(Head(queue[s]), room))]
        /\ queue' = [queue EXCEPT ![s] = Tail(@)]
        /\ ready' = [ready EXCEPT ![s] =
                @ \cup {Advanced(Head(queue[s]), Fits(Head(queue[s]), room))}]
    BY <1>13 DEF KernelTakes
  <2>2. queue[s] \in Seq(Write) /\ queue[s] # <<>>
    BY <1>13 DEF KernelTakes, TypeOK
  <2>3. Head(queue[s]) \in Write /\ Tail(queue[s]) \in Seq(Write)  BY <2>2
  <2> DEFINE w == Head(queue[s])
             k == Fits(w, room)
  <2>4. k \in 0 .. (Pieces - w.pos) /\ Advanced(w, k) \in Write  BY <2>3, FitsType
  <2>5. Taken(w, k) \in Seq(Piece)  BY <2>3, <2>4, TakenType
  <2>6. stream[s] \o Taken(w, k) \in Seq(Piece)  BY <2>5 DEF TypeOK
  <2>7. ready[s] \cup {Advanced(w, k)} \in SUBSET Write  BY <2>4 DEF TypeOK
  <2> HIDE DEF w, k
  <2>8. stream' \in [Session -> Seq(Piece)]  BY <2>1, <2>6 DEF w, k, TypeOK
  <2>9. queue' \in [Session -> Seq(Write)]  BY <2>1, <2>3 DEF TypeOK
  <2>10. ready' \in [Session -> SUBSET Write]  BY <2>1, <2>7 DEF w, k, TypeOK
  <2> QED BY <1>13, <2>8, <2>9, <2>10 DEF KernelTakes, TypeOK, Busy
<1>14. ASSUME NEW s \in Session, Die(s), closed' = closed PROVE TypeInv'
  <2>1. {Failed(queue[s][i]) : i \in DOMAIN queue[s]} \subseteq Write
    <3>1. queue[s] \in Seq(Write)  BY DEF TypeOK
    <3>2. \A i \in DOMAIN queue[s] : queue[s][i] \in Write  BY <3>1
    <3> QED BY <3>2, FailedType
  <2> DEFINE left == ready[s] \cup {Failed(queue[s][i]) : i \in DOMAIN queue[s]}
  <2>2. left \in SUBSET Write  BY <2>1 DEF TypeOK
  <2>3. ready' = [ready EXCEPT ![s] = left]  BY <1>14 DEF Die
  <2> HIDE DEF left
  <2>4. ready' \in [Session -> SUBSET Write]  BY <2>2, <2>3 DEF TypeOK
  <2>5. /\ up' \in [Session -> BOOLEAN]
        /\ queue' \in [Session -> Seq(Write)]
        /\ calm' \in BOOLEAN
    <3>1. <<>> \in Seq(Write)  OBVIOUS
    <3> QED BY <1>14, <3>1 DEF Die, TypeOK
  <2>6. TypeOK'  BY <1>14, <2>4, <2>5 DEF Die, TypeOK
  <2>7. Busy'  BY <1>14 DEF Die, Busy
  <2> QED BY <2>6, <2>7
<1>15. ASSUME NEW s \in Session, PeerResets(s) PROVE TypeInv'
    BY <1>14, <1>15 DEF PeerResets, Die
<1>16. ASSUME NEW s \in Session, ExitMark(s) PROVE TypeInv'
    BY <1>16 DEF ExitMark, TypeOK, Busy
<1>17. ASSUME NEW s \in Session, ExitClosesSocket(s) PROVE TypeInv'
    BY <1>14, <1>17 DEF ExitClosesSocket, Die
<1>18. ASSUME NEW s \in Session, WriteOn(s) PROVE TypeInv'
  <2>1. PICK w \in ready[s] : Start(s, w, ready[s] \ {w})
    BY <1>18 DEF WriteOn
  <2>2. w \in Write /\ ready[s] \ {w} \in SUBSET Write  BY DEF TypeOK
  <2>3. /\ queue' \in [Session -> Seq(Write)]
        /\ ready' \in [Session -> SUBSET Write]
        /\ stream' \in [Session -> Seq(Piece)]
        /\ delayed' \in [Session -> BOOLEAN]
        /\ calm' \in BOOLEAN
    BY <2>1, <2>2, StartType
  <2> QED BY <1>18, <2>3 DEF WriteOn, TypeOK, Busy
<1>19. ASSUME NEW s \in Session, HandleWriteClosed(s) PROVE TypeInv'
  <2>1. PICK w \in ready[s] : ready' = [ready EXCEPT ![s] = @ \ {w}]
    BY <1>19 DEF HandleWriteClosed
  <2>2. ready[s] \ {w} \in SUBSET Write  BY DEF TypeOK
  <2>3. ready' \in [Session -> SUBSET Write]  BY <2>1, <2>2 DEF TypeOK
  <2> QED BY <1>19, <2>3 DEF HandleWriteClosed, TypeOK, Busy
<1> QED BY <1>2, <1>3, <1>4, <1>6, <1>7, <1>8, <1>9, <1>10, <1>11, <1>12, <1>13,
           <1>15, <1>16, <1>17, <1>18, <1>19 DEF Next

\* Every variable keeps its type, the counters their sign.
THEOREM SendTypes == Spec => []TypeOK
<1>1. TypeInv => TypeOK  BY DEF TypeInv
<1> QED BY <1>1, TypeInit, TypeStep, PTL DEF Spec

-----------------------------------------------------------------------------
(* Whole streams                                                           *)

LEMMA DivMod ==
    ASSUME NEW n \in Nat, NEW i \in 1 .. Pieces
    PROVE  /\ ((Pieces * n + i) - 1) \div Pieces = n
           /\ ((Pieces * n + i) - 1) % Pieces = i - 1
<1>1. Pieces \in Nat \ {0} /\ Pieces * n \in Nat  BY SendAssumption
<1>2. ((Pieces * n + i) - 1) \div Pieces = n  BY <1>1
<1>3. ((Pieces * n + i) - 1) % Pieces = i - 1  BY <1>1, <1>2
<1> QED BY <1>2, <1>3

LEMMA DivBelow ==
    ASSUME NEW n \in Nat, NEW k \in 1 .. (Pieces * n)
    PROVE  (k - 1) \div Pieces \in 0 .. (n - 1)
<1>1. Pieces \in Nat \ {0} /\ Pieces * n \in Nat  BY SendAssumption
<1> DEFINE q == (k - 1) \div Pieces
<1>2. /\ q \in Int /\ q >= 0
      /\ k - 1 = Pieces * q + ((k - 1) % Pieces)
      /\ (k - 1) % Pieces \in 0 .. (Pieces - 1)
    BY <1>1
<1>3. ASSUME q >= n PROVE FALSE
  <2> HIDE DEF q
  <2>1. Pieces * q >= Pieces * n  BY <1>1, <1>2, <1>3
  <2> QED BY <1>1, <1>2, <2>1
<1> QED BY <1>2, <1>3

\* A message more leaves the pieces before it as they are and adds its own.
LEMMA FrameGrows ==
    ASSUME NEW ms \in Seq(1 .. MaxSends), NEW m \in 1 .. MaxSends
    PROVE  /\ \A k \in 1 .. (Pieces * Len(ms)) :
                FramePiece(Append(ms, m), k) = FramePiece(ms, k)
           /\ \A i \in 1 .. Pieces : FramePiece(Append(ms, m), Pieces * Len(ms) + i)
                = [msg |-> m, part |-> i, got |-> m]
<1>1. Len(ms) \in Nat /\ Pieces \in Nat \ {0}  BY SendAssumption
<1>2. ASSUME NEW k \in 1 .. (Pieces * Len(ms))
      PROVE  FramePiece(Append(ms, m), k) = FramePiece(ms, k)
  <2>1. (k - 1) \div Pieces \in 0 .. (Len(ms) - 1)  BY <1>1, DivBelow
  <2>2. ((k - 1) \div Pieces) + 1 \in 1 .. Len(ms)  BY <1>1, <2>1
  <2>3. Append(ms, m)[((k - 1) \div Pieces) + 1] = ms[((k - 1) \div Pieces) + 1]
    BY <2>2
  <2> QED BY <2>3 DEF FramePiece
<1>3. ASSUME NEW i \in 1 .. Pieces
      PROVE  FramePiece(Append(ms, m), Pieces * Len(ms) + i)
                = [msg |-> m, part |-> i, got |-> m]
  <2>1. /\ ((Pieces * Len(ms) + i) - 1) \div Pieces = Len(ms)
        /\ ((Pieces * Len(ms) + i) - 1) % Pieces = i - 1
    BY <1>1, DivMod
  <2>2. Append(ms, m)[Len(ms) + 1] = m  BY <1>1
  <2>3. (i - 1) + 1 = i  BY <1>1
  <2> QED BY <2>1, <2>2, <2>3 DEF FramePiece
<1> QED BY <1>2, <1>3

LEMMA ConcatLen ==
    ASSUME NEW S, NEW a \in Seq(S), NEW b \in Seq(S)
    PROVE  Len(a \o b) = Len(a) + Len(b)
OBVIOUS

\* What InStep says of one session.
InStepAt(s) ==
    ~delayed[s] =>
        /\ queue[s] = <<>>
        /\ \A w \in ready[s] : Complete(w)
        /\ Whole(s)
        /\ up[s] => Len(stream[s]) = Pieces * Len(begun[s])

\* Nothing of it changes while the writes of the session do not, or end.
LEMMA InStepKept ==
    ASSUME NEW s \in Session, InStepAt(s), delayed'[s] = delayed[s],
           queue'[s] = queue[s], ready'[s] \subseteq ready[s],
           stream'[s] = stream[s], begun'[s] = begun[s], up'[s] = up[s]
    PROVE  InStepAt(s)'
BY DEF InStepAt, Whole, Complete, FramePiece

\* A new message goes to the stream whole or has to wait.
LEMMA InStepAsyncWrite ==
    ASSUME WholeInv, NEW t \in Thread, NEW s \in Session, s = call[t].to, AsyncWrite(t)
    PROVE  InStepAt(s)'
<1>1. PICK m \in 1 .. MaxSends : m = call[t].msg /\ m = buffer[t]
    BY DEF WholeInv, TypeInv, Busy, Built, AsyncWrite, At
<1>inStep. InStepAt(s)
    BY DEF WholeInv, InStep, InStepAt
<1>2. PICK w \in Write : /\ w = NewWrite(t)
                         /\ w.pos = 0 /\ w.msg = m /\ w.by = t /\ ~w.failed
  <2>1. Pieces \in Nat  BY SendAssumption
  <2>2. NewWrite(t) = [msg |-> m, by |-> t, pos |-> 0, failed |-> FALSE]
    BY <1>1 DEF NewWrite, SendBuf
  <2>3. NewWrite(t) \in Write  BY <2>1, <2>2 DEF Write
  <2> QED BY <2>2, <2>3
<1>3. begun'[s] = Append(begun[s], m) /\ up' = up
    BY <1>1 DEF AsyncWrite, WholeInv, TypeInv, TypeOK, sockets
<1>4. begun[s] \in Seq(1 .. MaxSends) /\ stream[s] \in Seq(Piece)
    BY <1>1 DEF WholeInv, TypeInv, TypeOK
<1>5. /\ Pieces \in Nat \ {0} /\ Len(begun[s]) \in Nat /\ Len(stream[s]) \in Nat
      /\ Len(begun'[s]) = Len(begun[s]) + 1
      /\ Pieces * Len(begun[s]) \in Nat
      /\ Pieces * Len(begun'[s]) = Pieces * Len(begun[s]) + Pieces
  <2>1. Pieces \in Nat \ {0}  BY SendAssumption
  <2>2. Len(begun[s]) \in Nat /\ Len(stream[s]) \in Nat  BY <1>4
  <2>3. Len(begun'[s]) = Len(begun[s]) + 1  BY <1>3, <1>4
  <2>4. Pieces * (Len(begun[s]) + 1) = Pieces * Len(begun[s]) + Pieces  BY <2>1, <2>2
  <2> QED BY <2>1, <2>2, <2>3, <2>4
<1>6. /\ \A k \in 1 .. (Pieces * Len(begun[s])) :
            FramePiece(begun'[s], k) = FramePiece(begun[s], k)
      /\ \A i \in 1 .. Pieces : FramePiece(begun'[s], Pieces * Len(begun[s]) + i)
            = [msg |-> m, part |-> i, got |-> m]
    BY <1>1, <1>3, <1>4, FrameGrows
<1>7. /\ delayed \in [Session -> BOOLEAN] /\ stream \in [Session -> Seq(Piece)]
      /\ ready \in [Session -> SUBSET Write] /\ queue \in [Session -> Seq(Write)]
    BY DEF WholeInv, TypeInv, TypeOK
<1>8. Start(s, w, ready[s])
    BY <1>2 DEF AsyncWrite
<1>9. CASE StartFails(s, w, ready[s])
  <2>1. /\ ~up[s] /\ delayed'[s] = delayed[s] /\ queue'[s] = queue[s]
        /\ stream'[s] = stream[s]
        /\ ready'[s] = ready[s] \cup {Failed(w)}
    BY <1>1, <1>7, <1>9 DEF StartFails
  <2>2. Failed(w).failed  BY <1>2 DEF Failed, Write
  <2>3. SUFFICES ASSUME ~delayed[s] PROVE InStepAt(s)'
    BY <2>1 DEF InStepAt
  <2>4. \A v \in ready'[s] : Complete(v)
    BY <1>inStep, <2>1, <2>2, <2>3 DEF InStepAt, Complete
  <2>5. Whole(s) /\ queue[s] = <<>>  BY <1>inStep, <2>3 DEF InStepAt
  <2>6. Whole(s)'
    <3>1. Len(stream'[s]) <= Pieces * Len(begun'[s])  BY <1>5, <2>1, <2>5 DEF Whole
    <3>0. DOMAIN stream[s] = 1 .. Len(stream[s]) /\ Len(stream[s]) <= Pieces * Len(begun[s])
      BY <1>4, <2>5 DEF Whole
    <3>2. \A k \in DOMAIN stream[s] : k \in 1 .. (Pieces * Len(begun[s])) BY <1>5, <3>0
    <3>3. \A k \in DOMAIN stream'[s] : stream'[s][k] = FramePiece(begun'[s], k)
      BY <1>6, <2>1, <2>5, <3>2 DEF Whole
    <3> QED BY <3>1, <3>3 DEF Whole, FramePiece
  <2> QED BY <1>3, <2>1, <2>4, <2>5, <2>6 DEF InStepAt, Complete
<1>10. CASE StartWaits(s, w, ready[s])
    BY <1>inStep, <1>7, <1>10 DEF StartWaits, InStepAt
<1>11. ASSUME NEW room \in Room, StartTakes(s, w, ready[s], Fits(w, room))
       PROVE  InStepAt(s)'
  <2> DEFINE k == Fits(w, room)
  <2>1. k \in 0 .. Pieces /\ k \in 0 .. (Pieces - w.pos)
    BY <1>2, <1>5, FitsType
  <2>2. StartTakes(s, w, ready[s], k)  BY <1>11
  <2> HIDE DEF k
  <2>3. /\ up[s] /\ queue[s] = <<>>
        /\ delayed'[s] = (delayed[s] \/ k < Pieces)
        /\ stream'[s] = stream[s] \o Taken(w, k)
    <3>1. up[s] /\ queue[s] = <<>> BY <2>2 DEF StartTakes
    <3>0. delayed' = [delayed EXCEPT ![s] = delayed[s] \/ (w.pos + k < Pieces)] BY <2>2 DEF StartTakes
    <3>4. delayed'[s] = (delayed[s] \/ (w.pos + k < Pieces)) BY <1>1, <1>7, <3>0, Zenon
    <3>5. w.pos + k = k BY <1>2, <2>1
    <3>2. delayed'[s] = (delayed[s] \/ k < Pieces) BY <3>4, <3>5, Zenon
    <3>3. stream'[s] = stream[s] \o Taken(w, k) BY <1>1, <1>7, <2>2 DEF StartTakes
    <3>. QED BY <3>1, <3>2, <3>3
  <2>4. SUFFICES ASSUME ~delayed'[s] PROVE InStepAt(s)'
    BY DEF InStepAt
  <2>5. ~delayed[s] /\ k = Pieces
    <3>1. ~delayed[s] /\ ~(k < Pieces)  BY <2>3, <2>4, Zenon
    <3>2. k = Pieces  BY <1>5, <2>1, <3>1
    <3> QED BY <3>1, <3>2
  <2>6. queue' = queue /\ ready'[s] = ready[s] \cup {Advanced(w, Pieces)}
    BY <1>1, <1>5, <1>7, <2>2, <2>5 DEF StartTakes
  <2>7. Complete(Advanced(w, Pieces))
    BY <1>2, <1>5 DEF Advanced, Complete, Write
  <2>8. /\ \A v \in ready[s] : Complete(v)
        /\ Whole(s)
        /\ Len(stream[s]) = Pieces * Len(begun[s])
    BY <1>inStep, <2>3, <2>5 DEF InStepAt
  <2>9. /\ Taken(w, Pieces) \in Seq(Piece) /\ Len(Taken(w, Pieces)) = Pieces
        /\ \A i \in 1 .. Pieces :
                Taken(w, Pieces)[i] = [msg |-> m, part |-> i, got |-> m]
    <3>1. /\ Taken(w, Pieces) \in Seq(Piece) /\ Len(Taken(w, Pieces)) = Pieces
          /\ \A i \in 1 .. Pieces : Taken(w, Pieces)[i] =
                [msg |-> w.msg, part |-> w.pos + i, got |-> buffer[w.by]]
      BY <1>2, <2>1, <2>5, TakenType DEF WholeInv, TypeInv
    <3>2. \A i \in 1 .. Pieces : w.pos + i = i  BY <1>2, <1>5
    <3> QED BY <1>1, <1>2, <3>1, <3>2
  <2>10. Len(stream'[s]) = Pieces * Len(begun'[s])
    <3>1. Len(stream'[s]) = Len(stream[s]) + Pieces
      <4> DEFINE taken == Taken(w, Pieces)
      <4>1. /\ stream'[s] = stream[s] \o taken
            /\ taken \in Seq(Piece) /\ Len(taken) = Pieces
        BY <2>3, <2>5, <2>9
      <4> HIDE DEF taken
      <4>2. Len(stream[s] \o taken) = Len(stream[s]) + Len(taken)
          BY <1>4, <4>1, ConcatLen
      <4> QED BY <4>1, <4>2
    <3> QED BY <1>5, <2>8, <3>1
  <2>11. ASSUME NEW j \in DOMAIN stream'[s]
         PROVE  stream'[s][j] = FramePiece(begun'[s], j)
    <3>1. CASE j \in 1 .. Len(stream[s])
      <4>1. stream'[s][j] = stream[s][j] /\ j \in DOMAIN stream[s]
        BY <1>4, <2>3, <2>5, <2>9, <3>1
      <4> QED BY <1>6, <2>8, <3>1, <4>1 DEF Whole
    <3>2. CASE j \notin 1 .. Len(stream[s])
      <4>1. j \in 1 .. (Len(stream[s]) + Pieces)
        BY <1>4, <1>5, <2>3, <2>5, <2>9
      <4>2. PICK i \in 1 .. Pieces : j = Len(stream[s]) + i
        <5> DEFINE len == Len(stream[s])
        <5>1. len \in Nat /\ j \in 1 .. (len + Pieces) /\ j \notin 1 .. len
          BY <1>5, <3>2, <4>1
        <5> HIDE DEF len
        <5>2. j - len \in 1 .. Pieces /\ j = len + (j - len)  BY <1>5, <5>1
        <5> QED BY <5>2 DEF len
      <4>3. stream'[s][j] = Taken(w, Pieces)[i]
        BY <1>4, <1>5, <2>3, <2>5, <2>9, <4>2
      <4> QED BY <1>6, <2>8, <2>9, <4>2, <4>3
    <3> QED BY <3>1, <3>2
  <2>12. Whole(s)'
    BY SMTT(20), <1>5, <2>10, <2>11 DEF Whole, FramePiece
  <2>13. \A v \in ready'[s] : Complete(v)  BY <2>6, <2>7, <2>8
  <2> QED BY <2>3, <2>6, <2>10, <2>12, <2>13 DEF InStepAt, Complete
<1> QED BY <1>8, <1>9, <1>10, <1>11 DEF Start

\* A write is taken up again only after it has had to wait.
LEMMA InStepWriteOn ==
    ASSUME WholeInv, NEW s \in Session, WriteOn(s)
    PROVE  InStepAt(s)'
<1>1. PICK w \in ready[s] :
        ~w.failed /\ w.pos < Pieces /\ Start(s, w, ready[s] \ {w})
    BY DEF WriteOn
<1>2. ~Complete(w)
  <2>1. w.pos \in 0 .. Pieces  BY DEF WholeInv, TypeInv, TypeOK, Write
  <2>2. w.pos # Pieces  BY <1>1, <2>1, SendAssumption
  <2> QED BY <1>1, <2>2 DEF Complete
<1>3. delayed[s] /\ delayed \in [Session -> BOOLEAN]
    BY <1>2 DEF WholeInv, InStep, TypeInv, TypeOK
<1>4. delayed'[s]
  <2>1. CASE StartFails(s, w, ready[s] \ {w})  BY <1>3, <2>1 DEF StartFails
  <2>2. CASE StartWaits(s, w, ready[s] \ {w})  BY <1>3, <2>2 DEF StartWaits
  <2>3. ASSUME NEW room \in Room, StartTakes(s, w, ready[s] \ {w}, Fits(w, room))
        PROVE  delayed'[s]
    BY <1>3, <2>3, Zenon DEF StartTakes
  <2> QED BY <1>1, <2>1, <2>2, <2>3 DEF Start
<1> QED BY <1>4 DEF InStepAt

\* A session that none of the steps on it touches stays as it is.
LEMMA StartElsewhere ==
    ASSUME TypeOK, NEW s \in Session, NEW w, NEW rest, Start(s, w, rest),
           NEW r \in Session, r # s
    PROVE  /\ delayed'[r] = delayed[r] /\ queue'[r] = queue[r]
           /\ ready'[r] = ready[r] /\ stream'[r] = stream[r]
<1>1. CASE StartFails(s, w, rest)  BY <1>1 DEF StartFails, TypeOK
<1>2. CASE StartWaits(s, w, rest)  BY <1>2 DEF StartWaits, TypeOK
<1>3. ASSUME NEW room \in Room, StartTakes(s, w, rest, Fits(w, room))
      PROVE  /\ delayed'[r] = delayed[r] /\ queue'[r] = queue[r]
             /\ ready'[r] = ready[r] /\ stream'[r] = stream[r]
  <2> DEFINE k == Fits(w, room)
  <2>1. StartTakes(s, w, rest, k)  BY <1>3
  <2> HIDE DEF k
  <2>2. delayed'[r] = delayed[r] /\ stream'[r] = stream[r]
    BY <2>1 DEF StartTakes, TypeOK
  <2>3. queue'[r] = queue[r] /\ ready'[r] = ready[r]
    BY <2>1 DEF StartTakes, TypeOK
  <2> QED BY <2>2, <2>3
<1> QED BY <1>1, <1>2, <1>3 DEF Start

LEMMA WholeInit == Init => WholeInv
<1> SUFFICES ASSUME Init PROVE WholeInv  OBVIOUS
<1>1. TypeInv  BY TypeInit
<1>2. Built  BY DEF Init, Built
<1>3. InStep
  <2>1. Pieces * 0 = 0  BY SendAssumption
  <2> QED BY <2>1 DEF Init, InStep, Whole
<1> QED BY <1>1, <1>2, <1>3 DEF WholeInv

LEMMA WholeStep == WholeInv /\ [Next]_vars => WholeInv'
<1> SUFFICES ASSUME WholeInv, [Next]_vars PROVE WholeInv'  OBVIOUS
<1> USE DEF sockets, threads, writes, counters, history
<1>1. TypeInv /\ TypeInv' /\ TypeOK  BY TypeStep DEF WholeInv, TypeInv
<1>2. \A s \in Session : InStepAt(s)  BY DEF WholeInv, InStep, InStepAt
<1>3. Built'
  <2> USE <1>1 DEF WholeInv, TypeInv, Built
  <2>1. CASE UNCHANGED vars  BY <2>1 DEF vars
  <2>2. ASSUME NEW t \in Thread, NEW s \in Session, Send(t, s) PROVE Built'
      BY <2>2 DEF Send, At, SendBuf, TypeOK
  <2>3. ASSUME NEW t \in Thread, NEW s \in Session, HandleWrite(t, s) PROVE Built'
    <3>1. /\ UNCHANGED buffer
          /\ \A u \in Thread : pc'[u] = "built" => pc[u] = "built" /\ call'[u] = call[u]
      BY <2>3 DEF HandleWrite, At, TypeOK
    <3> QED BY <3>1
  <2>4. ASSUME NEW t \in Thread,
               AsyncWrite(t) \/ ReadWait(t) \/ AddToWait(t)
               \/ SubtractFromWait(t) \/ ReadTotal(t) \/ AddToTotal(t)
        PROVE  Built'
    <3>1. /\ UNCHANGED buffer
          /\ \A u \in Thread : pc'[u] = "built" => pc[u] = "built" /\ call'[u] = call[u]
      BY <2>4 DEF AsyncWrite, ReadWait, AddToWait, SubtractFromWait,
                  ReadTotal, AddToTotal, At, TypeOK
    <3> QED BY <3>1
  <2>5. ASSUME NEW t \in Thread, StackReused(t) PROVE Built'
      BY <2>5 DEF StackReused, TypeOK
  <2>6. ASSUME NEW s \in Session,
               KernelTakes(s) \/ PeerResets(s) \/ ExitMark(s) \/ ExitClosesSocket(s)
               \/ WriteOn(s) \/ HandleWriteClosed(s)
        PROVE  Built'
      BY <2>6 DEF KernelTakes, PeerResets, ExitMark, ExitClosesSocket, Die, WriteOn,
                  HandleWriteClosed
  <2> QED BY <2>1, <2>2, <2>3, <2>4, <2>5, <2>6 DEF Next
<1>4. ASSUME NEW r \in Session PROVE InStepAt(r)'
  <2>1. CASE UNCHANGED vars  BY <1>2, <2>1, InStepKept DEF vars
  <2>2. ASSUME NEW t \in Thread, NEW s \in Session, Send(t, s) PROVE InStepAt(r)'
      BY <1>2, <2>2, InStepKept DEF Send
  <2>3. ASSUME NEW t \in Thread, NEW s \in Session, HandleWrite(t, s) PROVE InStepAt(r)'
    <3>1. ready'[r] \subseteq ready[r]  BY <1>1, <2>3 DEF HandleWrite, TypeOK
    <3> QED BY <1>2, <2>3, <3>1, InStepKept DEF HandleWrite
  <2>4. ASSUME NEW t \in Thread, AsyncWrite(t) PROVE InStepAt(r)'
    <3>1. PICK s \in Session : s = call[t].to
      BY <1>1, <2>4 DEF AsyncWrite, At, TypeInv, Busy
    <3>2. CASE r = s  BY <2>4, <3>1, <3>2, InStepAsyncWrite
    <3>3. CASE r # s
      <4>1. /\ Start(s, NewWrite(t), ready[s])
            /\ begun'[r] = begun[r] /\ up'[r] = up[r]
        BY <1>1, <2>4, <3>1, <3>3 DEF AsyncWrite, TypeOK
      <4>2. /\ delayed'[r] = delayed[r] /\ queue'[r] = queue[r]
            /\ ready'[r] = ready[r] /\ stream'[r] = stream[r]
        BY <1>1, <3>3, <4>1, StartElsewhere
      <4> QED BY <1>2, <4>1, <4>2, InStepKept
    <3> QED BY <3>2, <3>3
  <2>5. ASSUME NEW t \in Thread,
               ReadWait(t) \/ AddToWait(t) \/ StackReused(t)
               \/ SubtractFromWait(t) \/ ReadTotal(t) \/ AddToTotal(t)
        PROVE  InStepAt(r)'
    <3>1. /\ delayed' = delayed /\ queue' = queue /\ ready' = ready
          /\ stream' = stream /\ begun' = begun /\ up' = up
      BY <2>5 DEF ReadWait, AddToWait, StackReused, SubtractFromWait,
                  ReadTotal, AddToTotal
    <3> QED BY <1>2, <3>1, InStepKept
  <2>6. ASSUME NEW s \in Session, KernelTakes(s) PROVE InStepAt(r)'
    <3>1. CASE r = s
      <4>1. delayed[s]  BY <1>2, <2>6 DEF KernelTakes, InStepAt
      <4> QED BY <2>6, <3>1, <4>1 DEF KernelTakes, InStepAt
    <3>2. CASE r # s
      <4>1. /\ queue'[r] = queue[r] /\ ready'[r] = ready[r] /\ stream'[r] = stream[r]
        BY <1>1, <2>6, <3>2 DEF KernelTakes, TypeOK
      <4> QED BY <1>2, <2>6, <4>1, InStepKept DEF KernelTakes
    <3> QED BY <3>1, <3>2
  <2>7. ASSUME NEW s \in Session, Die(s) PROVE InStepAt(r)'
    <3>1. CASE r = s
      <4>1. /\ ~up'[s] /\ queue'[s] = <<>> /\ delayed' = delayed
            /\ stream' = stream /\ begun' = begun
        BY <1>1, <2>7 DEF Die, TypeOK
      <4>2. SUFFICES ASSUME ~delayed[s] PROVE InStepAt(s)'
        BY <3>1, <4>1 DEF InStepAt
      <4>3. queue[s] = <<>> /\ Whole(s) /\ \A w \in ready[s] : Complete(w)
        BY <1>2, <4>2 DEF InStepAt
      <4>4. ready'[s] = ready[s]
        BY <1>1, <2>7, <4>3 DEF Die, TypeOK
      <4>5. Whole(s)'  BY <4>1, <4>3 DEF Whole, FramePiece
      <4> QED BY <4>1, <4>3, <4>4, <4>5 DEF InStepAt, Complete
    <3>2. CASE r # s
      <4>1. /\ up'[r] = up[r] /\ queue'[r] = queue[r] /\ ready'[r] = ready[r]
        BY <1>1, <2>7, <3>2 DEF Die, TypeOK
      <4> QED BY <1>2, <2>7, <4>1, InStepKept DEF Die
    <3> QED BY <3>1, <3>2
  <2>8. ASSUME NEW s \in Session, PeerResets(s) \/ ExitClosesSocket(s) PROVE InStepAt(r)'
      BY <2>7, <2>8 DEF PeerResets, ExitClosesSocket
  <2>9. ASSUME NEW s \in Session, ExitMark(s) PROVE InStepAt(r)'
      BY <1>2, <2>9, InStepKept DEF ExitMark
  <2>10. ASSUME NEW s \in Session, WriteOn(s) PROVE InStepAt(r)'
    <3>1. CASE r = s  BY <2>10, <3>1, InStepWriteOn
    <3>2. CASE r # s
      <4>1. PICK w \in ready[s] : Start(s, w, ready[s] \ {w})
        BY <2>10 DEF WriteOn
      <4>2. /\ delayed'[r] = delayed[r] /\ queue'[r] = queue[r]
            /\ ready'[r] = ready[r] /\ stream'[r] = stream[r]
        BY <1>1, <3>2, <4>1, StartElsewhere
      <4> QED BY <1>2, <2>10, <4>2, InStepKept DEF WriteOn
    <3> QED BY <3>1, <3>2
  <2>11. ASSUME NEW s \in Session, HandleWriteClosed(s) PROVE InStepAt(r)'
    <3>1. ready'[r] \subseteq ready[r]  BY <1>1, <2>11 DEF HandleWriteClosed, TypeOK
    <3> QED BY <1>2, <2>11, <3>1, InStepKept DEF HandleWriteClosed
  <2> QED BY <2>1, <2>2, <2>3, <2>4, <2>5, <2>6, <2>8, <2>9, <2>10, <2>11 DEF Next
<1>5. InStep'  BY <1>4 DEF InStep, InStepAt
<1> QED BY <1>1, <1>3, <1>5 DEF WholeInv

\* However many threads send to however many sessions, and whatever ends them: as
\* long as no write of a session has had to wait for room in the kernel, the peer
\* has the messages of Send in order, each whole.
THEOREM StreamWholeUntilDelayed == Spec => []WholeUntilDelayed
<1>1. WholeInv => WholeUntilDelayed
    BY DEF WholeInv, InStep, WholeUntilDelayed
<1> QED BY <1>1, WholeInit, WholeStep, PTL DEF Spec
-----------------------------------------------------------------------------
(* The invariants behind PiecesInOrder and BytesCounted                    *)

\* The messages whose write to s was begun.
Sent(s) == {begun[s][a] : a \in DOMAIN begun[s]}

\* A number is begun once, at one session, and a message built has one of its own.
NumbersApart ==
    /\ \A s \in Session : \A m \in Sent(s) : m <= calls
    /\ \A r, s \in Session : \A a \in DOMAIN begun[r], b \in DOMAIN begun[s] :
          begun[r][a] = begun[s][b] => r = s /\ a = b
    /\ \A t \in Thread : pc[t] = "built" =>
          /\ call[t].msg <= calls
          /\ \A s \in Session : call[t].msg \notin Sent(s)
          /\ \A u \in Thread : pc[u] = "built" /\ call[u].msg = call[t].msg => u = t

\* A message has one write, waiting or with a handler to run.
OneWrite(s) ==
    /\ \A i, j \in DOMAIN queue[s] : queue[s][i].msg = queue[s][j].msg => i = j
    /\ \A v, w \in ready[s] : v.msg = w.msg => v = w
    /\ \A i \in DOMAIN queue[s] : \A w \in ready[s] : queue[s][i].msg # w.msg

\* The pieces of the message of w that are on the stream are those w has done.
Placed(s, w) ==
    /\ \A p \in 1 .. w.pos : OnStream(s, w.msg, p)
    /\ \A k \in DOMAIN stream[s] : stream[s][k].msg = w.msg => stream[s][k].part <= w.pos

Ascending(s) ==
    \A j, k \in DOMAIN stream[s] :
        j < k /\ stream[s][j].msg = stream[s][k].msg => stream[s][j].part < stream[s][k].part

Unfinished(s, w) == w.msg \in Sent(s) /\ Placed(s, w) /\ ~w.failed /\ w.pos < Pieces
Tried(s, w) == w.msg \in Sent(s) /\ Placed(s, w) /\ (w.failed \/ w.pos > 0)

WritesPlaced(s) ==
    /\ \A i \in DOMAIN queue[s] : Unfinished(s, queue[s][i])
    /\ \A w \in ready[s] : Tried(s, w)
    /\ \A k \in DOMAIN stream[s] : stream[s][k].msg \in Sent(s)
    /\ Ascending(s)

\* A message begun at a live socket has its first piece on the stream or waits with
\* it, those that wait so in the order in which they were begun.
Waits(s, i, m) == queue[s][i].msg = m /\ queue[s][i].pos = 0

FirstsInOrder(s) ==
    /\ queue[s] # <<>> => up[s]
    /\ up[s] => \A m \in Sent(s) : OnStream(s, m, 1) \/ \E i \in DOMAIN queue[s] : Waits(s, i, m)
    /\ \A i, j \in DOMAIN queue[s] : \A a, b \in DOMAIN begun[s] :
          i < j /\ Waits(s, i, begun[s][a]) /\ Waits(s, j, begun[s][b]) => a < b
    /\ \A k \in DOMAIN stream[s] : \A a, b \in DOMAIN begun[s] :
          a < b /\ FirstOf(s, k, begun[s][b]) => \E j \in 1 .. k - 1 : FirstOf(s, j, begun[s][a])

InOrder(s) == OneWrite(s) /\ WritesPlaced(s) /\ FirstsInOrder(s)

OrderInv == TypeInv /\ NumbersApart /\ \A s \in Session : InOrder(s)

\* A handler that counts a message has it to itself, and the kernel has it whole.
WaitsAt(q, m) == \E i \in DOMAIN q : q[i].msg = m
ReadyAt(set, m) == \E w \in set : w.msg = m
Alive(m) == \E s \in Session : WaitsAt(queue[s], m) \/ ReadyAt(ready[s], m)

Handles(t, m) == pc[t] \in {"subtract", "count"} /\ call[t].msg = m

Whole1(m) == \A p \in 1 .. Pieces : \E s \in Session : OnStream(s, m, p)

Begun(m) == \E s \in Session : m \in Sent(s)

HandlersApart ==
    \A t \in Thread : \A m \in 1 .. MaxSends : Handles(t, m) =>
        /\ Begun(m)
        /\ Whole1(m)
        /\ ~Alive(m)
        /\ \A u \in Thread : Handles(u, m) => u = t

\* The messages that are wholly sent and whose handler has read the sum.
Counted == {m \in 1 .. MaxSends : Whole1(m) /\ ~Alive(m) /\ \A t \in Thread : ~Handles(t, m)}

TotalBounded ==
    /\ total.sent <= Pieces * Cardinality(Counted)
    /\ \A t \in Thread : pc[t] = "sent" => tmp[t] <= Pieces * Cardinality(Counted)

\* The messages that are still to be subtracted, and those still to be added.
ToSubtract == {m \in 1 .. MaxSends : Alive(m) \/ \E t \in Thread : pc[t] = "subtract" /\ call[t].msg = m}
ToAdd == {m \in 1 .. MaxSends : \E t \in Thread : pc[t] \in {"written", "add"} /\ call[t].msg = m}

Updating(t) == pc[t] \in {"add", "subtract"}

SendersApart ==
    \A t, u \in Thread :
        /\ pc[t] \in {"written", "add"} => Begun(call[t].msg)
        /\ pc[t] \in {"written", "add"} /\ pc[u] \in {"written", "add"} /\ call[t].msg = call[u].msg => t = u

WaitTallied ==
    calm =>
        /\ \A s \in Session : up[s] /\ ~closed[s] /\ \A w \in ready[s] : ~w.failed
        /\ \A t, u \in Thread : Updating(t) /\ Updating(u) => t = u
        /\ \A t \in Thread :
              /\ pc[t] = "add" => tmp[t] = wait + Pieces
              /\ pc[t] = "subtract" => tmp[t] = wait - Pieces
        /\ wait = Pieces * (Cardinality(ToSubtract) - Cardinality(ToAdd))

BytesInv == OrderInv /\ HandlersApart /\ SendersApart /\ TotalBounded /\ WaitTallied

\* How a write w goes on, if queue and rest are the other writes of its session: it
\* fails, it waits, or the kernel takes k pieces of it.
Fails(s, q, rest, w) ==
    queue'[s] = q /\ stream'[s] = stream[s] /\ ready'[s] = rest \cup {Failed(w)}

WaitsOn(s, q, rest, w) ==
    queue'[s] = Append(q, w) /\ stream'[s] = stream[s] /\ ready'[s] = rest

Takes(s, q, rest, w, k) ==
    /\ queue'[s] = q /\ stream'[s] = stream[s] \o Taken(w, k)
    /\ ready'[s] = rest \cup {Advanced(w, k)}

GoesOn(s, q, rest, w) ==
    \/ Fails(s, q, rest, w)
    \/ WaitsOn(s, q, rest, w)
    \/ \E k \in 1 .. (Pieces - w.pos) : Takes(s, q, rest, w, k)

LEMMA StartEffect ==
    ASSUME TypeOK, NEW s \in Session, NEW w \in Write, w.pos < Pieces,
           NEW rest \in SUBSET Write, Start(s, w, rest)
    PROVE  \/ ~up[s] /\ ~calm' /\ Fails(s, queue[s], rest, w)
           \/ up[s] /\ calm' = calm /\ WaitsOn(s, queue[s], rest, w)
           \/ /\ up[s] /\ calm' = calm /\ queue[s] = <<>>
              /\ \E k \in 1 .. (Pieces - w.pos) : Takes(s, queue[s], rest, w, k)
<1>0. /\ queue \in [Session -> Seq(Write)] /\ ready \in [Session -> SUBSET Write]
      /\ stream \in [Session -> Seq(Piece)]
  BY DEF TypeOK
<1>1. CASE StartFails(s, w, rest) BY <1>0, <1>1 DEF StartFails, Fails
<1>2. CASE StartWaits(s, w, rest) BY <1>0, <1>2 DEF StartWaits, WaitsOn
<1>3. ASSUME NEW room \in Room, StartTakes(s, w, rest, Fits(w, room))
      PROVE  \/ up[s] /\ calm' = calm /\ WaitsOn(s, queue[s], rest, w)
             \/ /\ up[s] /\ calm' = calm /\ queue[s] = <<>>
                /\ \E k \in 1 .. (Pieces - w.pos) : Takes(s, queue[s], rest, w, k)
  <2> DEFINE k == Fits(w, room)
  <2>1. k \in 0 .. (Pieces - w.pos) BY FitsType
  <2>2. StartTakes(s, w, rest, k) BY <1>3
  <2>3. Taken(w, k) \in Seq(Piece) /\ Len(Taken(w, k)) = k BY <2>1, TakenType
  <2> HIDE DEF k
  <2>4. CASE k = 0
    <3>1. Taken(w, k) = <<>> BY <2>3, <2>4
    <3>2. stream[s] \o Taken(w, k) = stream[s] BY <1>0, <3>1
    <3>3. queue'[s] = <<w>> /\ ready'[s] = rest /\ stream'[s] = stream[s] /\ up[s] /\ queue[s] = <<>> /\ calm' = calm
      BY <1>0, <2>2, <2>4, <3>2 DEF StartTakes
    <3>4. <<w>> = Append(queue[s], w) BY <3>3
    <3>. QED BY <3>3, <3>4 DEF WaitsOn
  <2>5. CASE k > 0
    <3>1. k \in 1 .. (Pieces - w.pos) BY <2>1, <2>5
    <3>2. queue'[s] = queue[s] /\ ready'[s] = rest \cup {Advanced(w, k)} /\ stream'[s] = stream[s] \o Taken(w, k)
          /\ up[s] /\ queue[s] = <<>> /\ calm' = calm
      BY <1>0, <2>1, <2>2, <2>5 DEF StartTakes
    <3>. QED BY <3>1, <3>2 DEF Takes
  <2>. QED BY <2>1, <2>4, <2>5
<1>. QED BY <1>1, <1>2, <1>3 DEF Start

LEMMA SeqElement ==
    ASSUME NEW S, NEW q \in Seq(S), NEW a \in DOMAIN q
    PROVE  q[a] \in S
OBVIOUS

LEMMA ConcatParts ==
    ASSUME NEW S, NEW a \in Seq(S), NEW b \in Seq(S)
    PROVE  /\ Len(a) \in Nat /\ Len(b) \in Nat
           /\ DOMAIN a = 1 .. Len(a)
           /\ DOMAIN (a \o b) = 1 .. (Len(a) + Len(b))
           /\ \A j \in 1 .. Len(a) : (a \o b)[j] = a[j]
           /\ \A j \in 1 .. (Len(a) + Len(b)) : j \notin 1 .. Len(a) =>
                 j - Len(a) \in 1 .. Len(b) /\ (a \o b)[j] = b[j - Len(a)]
OBVIOUS

\* The stream after the kernel has taken k pieces of w.
LEMMA StreamAfter ==
    ASSUME TypeOK, NEW s \in Session, NEW w \in Write, NEW k \in 0 .. (Pieces - w.pos),
           stream'[s] = stream[s] \o Taken(w, k)
    PROVE  /\ Len(stream[s]) \in Nat /\ k \in Nat /\ w.pos \in Nat
           /\ DOMAIN stream[s] = 1 .. Len(stream[s])
           /\ DOMAIN stream'[s] = 1 .. (Len(stream[s]) + k)
           /\ \A j \in DOMAIN stream[s] : stream'[s][j] = stream[s][j]
           /\ \A j \in DOMAIN stream'[s] \ DOMAIN stream[s] :
                 /\ j - Len(stream[s]) \in 1 .. k
                 /\ stream'[s][j].msg = w.msg
                 /\ stream'[s][j].part = w.pos + (j - Len(stream[s]))
<1>1. PICK old \in Seq(Piece) : old = stream[s] BY DEF TypeOK
<1>2. PICK new \in Seq(Piece) :
      /\ new = Taken(w, k) /\ Len(new) = k
      /\ \A i \in 1 .. k : new[i].msg = w.msg /\ new[i].part = w.pos + i
  <2>1. /\ Taken(w, k) \in Seq(Piece) /\ Len(Taken(w, k)) = k
        /\ \A i \in 1 .. k : Taken(w, k)[i] = [msg |-> w.msg, part |-> w.pos + i, got |-> buffer[w.by]]
    BY TakenType
  <2>. QED BY <2>1
<1>3. k \in Nat /\ w.pos \in Nat BY SendAssumption DEF Write
<1>4. /\ Len(old) \in Nat /\ DOMAIN old = 1 .. Len(old)
      /\ DOMAIN (old \o new) = 1 .. (Len(old) + k)
      /\ \A j \in 1 .. Len(old) : (old \o new)[j] = old[j]
      /\ \A j \in 1 .. (Len(old) + k) : j \notin 1 .. Len(old) =>
            j - Len(old) \in 1 .. k /\ (old \o new)[j] = new[j - Len(old)]
  <2>1. /\ Len(old) \in Nat /\ DOMAIN old = 1 .. Len(old)
        /\ DOMAIN (old \o new) = 1 .. (Len(old) + Len(new))
        /\ \A j \in 1 .. Len(old) : (old \o new)[j] = old[j]
        /\ \A j \in 1 .. (Len(old) + Len(new)) : j \notin 1 .. Len(old) =>
              j - Len(old) \in 1 .. Len(new) /\ (old \o new)[j] = new[j - Len(old)]
    BY ConcatParts
  <2>. QED BY <1>2, <2>1
<1>5. ASSUME NEW j \in 1 .. (Len(old) + k), j \notin 1 .. Len(old)
      PROVE  /\ j - Len(old) \in 1 .. k
             /\ (old \o new)[j].msg = w.msg
             /\ (old \o new)[j].part = w.pos + (j - Len(old))
  BY <1>2, <1>4, <1>5
<1>6. stream[s] = old /\ stream'[s] = old \o new BY <1>1, <1>2
<1>. QED BY <1>3, <1>4, <1>5, <1>6

Grown(s, w, k, len) ==
    /\ k \in Nat /\ w.pos \in Nat
    /\ DOMAIN stream[s] = 1 .. len
    /\ DOMAIN stream'[s] = 1 .. (len + k)
    /\ \A j \in 1 .. len : stream'[s][j] = stream[s][j] /\ stream[s][j].part \in Int
    /\ \A j \in (1 .. (len + k)) \ (1 .. len) :
          /\ j - len \in 1 .. k
          /\ stream'[s][j].msg = w.msg
          /\ stream'[s][j].part = w.pos + (j - len)

LEMMA StreamGrows ==
    ASSUME TypeOK, NEW s \in Session, NEW w \in Write, NEW k \in 1 .. (Pieces - w.pos),
           stream'[s] = stream[s] \o Taken(w, k)
    PROVE  \E len \in Nat : Grown(s, w, k, len)
<1>0. PICK len \in Nat : len = Len(stream[s]) BY DEF TypeOK
<1>1. k \in 0 .. (Pieces - w.pos) BY SendAssumption DEF Write
<1>2. /\ Len(stream[s]) \in Nat /\ k \in Nat /\ w.pos \in Nat
      /\ DOMAIN stream[s] = 1 .. Len(stream[s])
      /\ DOMAIN stream'[s] = 1 .. (Len(stream[s]) + k)
      /\ \A j \in DOMAIN stream[s] : stream'[s][j] = stream[s][j]
      /\ \A j \in DOMAIN stream'[s] \ DOMAIN stream[s] :
            /\ j - Len(stream[s]) \in 1 .. k
            /\ stream'[s][j].msg = w.msg
            /\ stream'[s][j].part = w.pos + (j - Len(stream[s]))
  BY <1>1, StreamAfter
<1>3. ASSUME NEW j \in 1 .. len PROVE stream[s][j].part \in Int
  <2>1. stream[s] \in Seq(Piece) /\ j \in DOMAIN stream[s] BY <1>0, <1>2 DEF TypeOK
  <2>2. stream[s][j] \in Piece BY <2>1
  <2>. QED BY <2>2 DEF Piece
<1>. QED BY <1>0, <1>2, <1>3 DEF Grown

\* The other writes, and the ones to w, are of different messages.
Apart(q, rest, w) ==
    /\ \A i, j \in DOMAIN q : q[i].msg = q[j].msg => i = j
    /\ \A u, v \in rest : u.msg = v.msg => u = v
    /\ \A i \in DOMAIN q : \A v \in rest : q[i].msg # v.msg
    /\ \A i \in DOMAIN q : q[i].msg # w.msg
    /\ \A v \in rest : v.msg # w.msg

LEMMA AppendedQueue ==
    ASSUME NEW S, NEW q \in Seq(S), NEW w \in S
    PROVE  /\ Len(q) \in Nat /\ DOMAIN q = 1 .. Len(q)
           /\ DOMAIN Append(q, w) = 1 .. (Len(q) + 1)
           /\ \A i \in DOMAIN q : Append(q, w)[i] = q[i]
           /\ Append(q, w)[Len(q) + 1] = w
           /\ \A i \in DOMAIN Append(q, w) : i \in DOMAIN q \/ i = Len(q) + 1
OBVIOUS

LEMMA OneWriteOn ==
    ASSUME NEW s \in Session, NEW q \in Seq(Write), NEW rest \in SUBSET Write, NEW w \in Write,
           Apart(q, rest, w), GoesOn(s, q, rest, w)
    PROVE  OneWrite(s)'
<1>1. ASSUME NEW x, x.msg = w.msg, queue'[s] = q, ready'[s] = rest \cup {x} PROVE OneWrite(s)'
  BY <1>1 DEF OneWrite, Apart
<1>2. CASE WaitsOn(s, q, rest, w)
  <2> DEFINE q2 == Append(q, w)
  <2>1. /\ \A i \in DOMAIN q2 : i \in DOMAIN q \/ i = Len(q) + 1
        /\ \A i \in DOMAIN q : q2[i] = q[i]
        /\ q2[Len(q) + 1] = w
    BY AppendedQueue
  <2> HIDE DEF q2
  <2>2. queue'[s] = q2 /\ ready'[s] = rest BY <1>2 DEF WaitsOn, q2
  <2>3. /\ \A i, j \in DOMAIN q2 : q2[i].msg = q2[j].msg => i = j
        /\ \A i \in DOMAIN q2 : \A v \in rest : q2[i].msg # v.msg
    BY <2>1 DEF Apart
  <2>. QED BY <2>2, <2>3 DEF OneWrite, Apart
<1>3. CASE Fails(s, q, rest, w)
  <2>1. Failed(w).msg = w.msg BY DEF Failed, Write
  <2>. QED BY <1>1, <1>3, <2>1 DEF Fails
<1>4. ASSUME NEW k \in 1 .. (Pieces - w.pos), Takes(s, q, rest, w, k) PROVE OneWrite(s)'
  <2>1. Advanced(w, k).msg = w.msg BY DEF Advanced, Write
  <2>. QED BY <1>1, <1>4, <2>1 DEF Takes
<1>. QED BY <1>2, <1>3, <1>4 DEF GoesOn

\* A write that is not touched keeps its place while the stream does or grows by
\* pieces of another message.
LEMMA PlacedStill ==
    ASSUME NEW s \in Session, NEW u \in Write, Placed(s, u), stream'[s] = stream[s]
    PROVE  Placed(s, u)'
BY DEF Placed, OnStream

LEMMA PlacedOn ==
    ASSUME TypeOK, NEW s \in Session, NEW q \in Seq(Write), NEW rest \in SUBSET Write,
           NEW w \in Write, Apart(q, rest, w), GoesOn(s, q, rest, w),
           Sent(s) \subseteq Sent(s)', w.msg \in Sent(s)',
           ~w.failed, w.pos < Pieces, Placed(s, w),
           \A i \in DOMAIN q : Unfinished(s, q[i]),
           \A v \in rest : Tried(s, v),
           \A k \in DOMAIN stream[s] : stream[s][k].msg \in Sent(s),
           Ascending(s)
    PROVE  WritesPlaced(s)'
<1>0. \A i \in DOMAIN q : q[i] \in Write
  OBVIOUS
<1>1. ASSUME stream'[s] = stream[s],
             \/ queue'[s] = q /\ ready'[s] = rest \cup {Failed(w)}
             \/ queue'[s] = Append(q, w) /\ ready'[s] = rest
      PROVE  WritesPlaced(s)'
  <2>1. \A u \in Write : Placed(s, u) => Placed(s, u)' BY <1>1, PlacedStill
  <2>2. \A i \in DOMAIN q : Unfinished(s, q[i])' BY <1>0, <2>1 DEF Unfinished
  <2>3. \A v \in rest : Tried(s, v)' BY <2>1 DEF Tried
  <2>4. Unfinished(s, w)' BY <2>1 DEF Unfinished
  <2>5. PICK x \in Write : x = Failed(w) BY FailedType
  <2>6. Tried(s, x)'
    <3>1. x.msg = w.msg /\ x.pos = w.pos /\ x.failed BY <2>5 DEF Failed, Write
    <3>. QED BY <2>1, <3>1 DEF Tried, Placed
  <2>7. \A k \in DOMAIN stream'[s] : stream'[s][k].msg \in Sent(s)' BY <1>1
  <2>8. Ascending(s)' BY <1>1 DEF Ascending
  <2>9. CASE queue'[s] = q /\ ready'[s] = rest \cup {Failed(w)}
    BY <2>2, <2>3, <2>5, <2>6, <2>7, <2>8, <2>9 DEF WritesPlaced
  <2>10. CASE queue'[s] = Append(q, w) /\ ready'[s] = rest
    <3>1. \A i \in DOMAIN queue'[s] : queue'[s][i] = w \/ \E j \in DOMAIN q : queue'[s][i] = q[j]
      BY <2>10, AppendedQueue
    <3>2. \A i \in DOMAIN queue'[s] : Unfinished(s, queue[s][i])'
      BY <2>2, <2>4, <3>1 DEF Unfinished
    <3>. QED BY <2>3, <2>7, <2>8, <2>10, <3>2 DEF WritesPlaced
  <2>. QED BY <1>1, <2>9, <2>10
<1>2. ASSUME NEW k \in 1 .. (Pieces - w.pos), Takes(s, q, rest, w, k) PROVE WritesPlaced(s)'
  <2>1. /\ queue'[s] = q /\ ready'[s] = rest \cup {Advanced(w, k)}
        /\ stream'[s] = stream[s] \o Taken(w, k)
    BY <1>2 DEF Takes
  <2>0. PICK len \in Nat : Grown(s, w, k, len) BY <2>1, StreamGrows
  <2>2. /\ k \in Nat /\ w.pos \in Nat
        /\ DOMAIN stream[s] = 1 .. len
        /\ DOMAIN stream'[s] = 1 .. (len + k)
        /\ \A j \in 1 .. len : stream'[s][j] = stream[s][j] /\ stream[s][j].part \in Int
        /\ \A j \in (1 .. (len + k)) \ (1 .. len) :
              /\ j - len \in 1 .. k
              /\ stream'[s][j].msg = w.msg
              /\ stream'[s][j].part = w.pos + (j - len)
    BY <2>0 DEF Grown
  <2>grows. ASSUME NEW m, NEW p, OnStream(s, m, p) PROVE OnStream(s, m, p)'
    <3>1. PICK j \in 1 .. len : stream[s][j].msg = m /\ stream[s][j].part = p
      BY <2>2, <2>grows DEF OnStream
    <3>2. j \in DOMAIN stream'[s] /\ stream'[s][j] = stream[s][j] BY <2>2
    <3>. QED BY <3>1, <3>2 DEF OnStream
  <2>3. ASSUME NEW u \in Write, u.msg # w.msg, Placed(s, u) PROVE Placed(s, u)'
    <3>1. \A p \in 1 .. u.pos : OnStream(s, u.msg, p)' BY <2>3, <2>grows DEF Placed
    <3>2. \A j \in DOMAIN stream'[s] : stream'[s][j].msg = u.msg => j \in 1 .. len
      BY <2>2, <2>3
    <3>. QED BY <2>2, <2>3, <3>1, <3>2 DEF Placed
  <2>4. PICK x \in Write : x = Advanced(w, k)
    <3>1. k \in 0 .. (Pieces - w.pos) BY <2>2
    <3>2. w.pos + k \in 0 .. Pieces BY <2>2, SendAssumption
    <3>. QED BY <3>2 DEF Advanced, Write
  <2>5. x.msg = w.msg /\ x.pos = w.pos + k BY <2>4 DEF Advanced, Write
  <2>6. Placed(s, x)'
    <3>1. ASSUME NEW p \in 1 .. x.pos PROVE OnStream(s, x.msg, p)'
      <4>1. CASE p \in 1 .. w.pos BY <2>5, <2>grows, <4>1 DEF Placed
      <4>2. CASE p \notin 1 .. w.pos
        <5> DEFINE j == len + (p - w.pos)
        <5>1. j \in (1 .. (len + k)) \ (1 .. len) /\ w.pos + (j - len) = p
          BY <2>2, <2>5, <4>2
        <5>2. stream'[s][j].msg = x.msg /\ stream'[s][j].part = p BY <2>2, <2>5, <5>1
        <5>. QED BY <2>2, <5>1, <5>2 DEF OnStream
      <4>. QED BY <4>1, <4>2
    <3>2. ASSUME NEW j \in DOMAIN stream'[s], stream'[s][j].msg = x.msg
          PROVE  stream'[s][j].part <= x.pos
      <4>1. CASE j \in 1 .. len
        <5>1. stream[s][j].msg = w.msg /\ stream[s][j].part <= w.pos
          BY <2>2, <2>5, <3>2, <4>1 DEF Placed
        <5>2. stream[s][j].part \in Int
          BY <2>2, <4>1
        <5>. QED BY SMTT(60), <2>2, <2>5, <4>1, <5>1, <5>2
      <4>2. CASE j \notin 1 .. len BY <2>2, <2>5, <3>2, <4>2
      <4>. QED BY <4>1, <4>2
    <3>. QED BY <3>1, <3>2 DEF Placed
  <2>7. \A i \in DOMAIN q : Unfinished(s, q[i])' BY <1>0, <2>3 DEF Unfinished, Apart
  <2>8. \A v \in rest : Tried(s, v)' BY <2>3 DEF Tried, Apart
  <2>9. Tried(s, x)' BY <2>2, <2>5, <2>6 DEF Tried
  <2>10. \A j \in DOMAIN stream'[s] : stream'[s][j].msg \in Sent(s)' BY <2>2
  <2>11. Ascending(s)'
    <3>1. SUFFICES ASSUME NEW i \in DOMAIN stream'[s], NEW j \in DOMAIN stream'[s],
                          i < j, stream'[s][i].msg = stream'[s][j].msg
                   PROVE  stream'[s][i].part < stream'[s][j].part
      BY DEF Ascending
    <3>2. CASE j \in 1 .. len
      <4>1. i \in 1 .. len BY <2>2, <3>1, <3>2
      <4>. QED BY <2>2, <3>1, <3>2, <4>1 DEF Ascending
    <3>3. CASE j \notin 1 .. len /\ i \in 1 .. len
      <4>1. stream[s][i].msg = w.msg /\ stream[s][i].part <= w.pos
        BY <2>2, <3>1, <3>3 DEF Placed
      <4>2. stream[s][i].part \in Int BY <2>2, <3>3
      <4>3. stream'[s][i] = stream[s][i] BY <2>2, <3>3
      <4>4. j - len \in 1 .. k /\ stream'[s][j].part = w.pos + (j - len) BY <2>2, <3>3
      <4>5. w.pos \in Nat /\ j - len \in Nat /\ j - len > 0 BY <2>2, <4>4
      <4>. QED BY <4>1, <4>2, <4>3, <4>4, <4>5
    <3>4. CASE j \notin 1 .. len /\ i \notin 1 .. len BY SMTT(20), <2>2, <3>1, <3>4
    <3>. QED BY <3>2, <3>3, <3>4
  <2>. QED BY <2>1, <2>4, <2>7, <2>8, <2>9, <2>10, <2>11 DEF WritesPlaced
<1>. QED BY <1>1, <1>2 DEF GoesOn, Fails, WaitsOn

\* The order of first pieces, when a new message is begun, ...
LEMMA FirstsBegin ==
    ASSUME TypeOK, NEW s \in Session, NEW w \in Write, NEW rest \in SUBSET Write,
           w.pos = 0, w.msg \notin Sent(s),
           begun'[s] = Append(begun[s], w.msg), up'[s] = up[s],
           \A a, b \in DOMAIN begun[s] : begun[s][a] = begun[s][b] => a = b,
           WritesPlaced(s), FirstsInOrder(s),
           \/ ~up[s] /\ Fails(s, queue[s], rest, w)
           \/ up[s] /\ WaitsOn(s, queue[s], rest, w)
           \/ /\ up[s] /\ queue[s] = <<>>
              /\ \E k \in 1 .. (Pieces - w.pos) : Takes(s, queue[s], rest, w, k)
    PROVE  FirstsInOrder(s)'
<1>1. PICK n \in Nat : n = Len(begun[s]) BY DEF TypeOK
<1>2. /\ DOMAIN begun[s] = 1 .. n /\ DOMAIN begun'[s] = 1 .. (n + 1)
      /\ \A a \in 1 .. n : begun'[s][a] = begun[s][a] /\ begun[s][a] \in Sent(s)
      /\ begun'[s][n + 1] = w.msg
  <2>1. begun[s] \in Seq(1 .. MaxSends) /\ w.msg \in 1 .. MaxSends BY DEF TypeOK, Write
  <2>2. /\ DOMAIN begun[s] = 1 .. n /\ DOMAIN begun'[s] = 1 .. (n + 1)
        /\ \A a \in 1 .. n : begun'[s][a] = begun[s][a]
        /\ begun'[s][n + 1] = w.msg
    BY <1>1, <2>1
  <2>. QED BY <2>2 DEF Sent
<1>3. Sent(s)' = Sent(s) \cup {w.msg} BY <1>2 DEF Sent
<1>4. \A k \in DOMAIN stream[s] : stream[s][k].msg \in Sent(s) BY DEF WritesPlaced
<1>5. \A i \in DOMAIN queue[s] : queue[s][i].msg \in Sent(s) BY DEF WritesPlaced, Unfinished
<1>6. ASSUME NEW k \in DOMAIN stream[s], NEW a \in 1 .. (n + 1), NEW b \in 1 .. (n + 1),
             a < b, FirstOf(s, k, begun'[s][b])
      PROVE  \E j \in 1 .. k - 1 : FirstOf(s, j, begun'[s][a])
  <2>1. b # n + 1 BY <1>2, <1>4, <1>6 DEF FirstOf
  <2>2. a \in 1 .. n /\ b \in 1 .. n BY <1>6, <2>1
  <2>3. FirstOf(s, k, begun[s][b]) BY <1>2, <1>6, <2>2
  <2>. QED BY <1>2, <1>6, <2>2, <2>3 DEF FirstsInOrder
<1>7. CASE ~up[s] /\ Fails(s, queue[s], rest, w)
  <2>1. queue[s] = <<>> BY <1>7 DEF FirstsInOrder
  <2>2. queue'[s] = <<>> /\ stream'[s] = stream[s] /\ ~up'[s] BY <1>7, <2>1 DEF Fails
  <2>3. \A i, j \in DOMAIN queue'[s] : ~(i < j) BY <2>2
  <2>. QED BY <1>2, <1>6, <2>2, <2>3 DEF FirstsInOrder, FirstOf
<1>8. CASE up[s] /\ WaitsOn(s, queue[s], rest, w)
  <2>1. PICK len \in Nat : len = Len(queue[s]) BY DEF TypeOK
  <2>2. /\ DOMAIN queue[s] = 1 .. len /\ DOMAIN queue'[s] = 1 .. (len + 1)
        /\ \A i \in 1 .. len : queue'[s][i] = queue[s][i]
        /\ queue'[s][len + 1] = w
    <3>1. queue[s] \in Seq(Write) BY DEF TypeOK
    <3>. QED BY <1>8, <2>1, <3>1 DEF WaitsOn
  <2>3. stream'[s] = stream[s] /\ up'[s] BY <1>8 DEF WaitsOn
  <2>4. ASSUME NEW m \in Sent(s)'
        PROVE  OnStream(s, m, 1)' \/ \E i \in DOMAIN queue'[s] : Waits(s, i, m)'
    <3>1. CASE m = w.msg BY <2>2, <3>1 DEF Waits
    <3>2. CASE m # w.msg
      <4>1. m \in Sent(s) BY <1>3, <3>2
      <4>2. OnStream(s, m, 1) \/ \E i \in DOMAIN queue[s] : Waits(s, i, m)
        BY <1>8, <4>1 DEF FirstsInOrder
      <4>3. CASE OnStream(s, m, 1) BY <2>3, <4>3 DEF OnStream
      <4>4. ASSUME NEW i \in DOMAIN queue[s], Waits(s, i, m)
            PROVE  \E j \in DOMAIN queue'[s] : Waits(s, j, m)'
        <5>1. i \in DOMAIN queue'[s] /\ queue'[s][i] = queue[s][i] BY <2>2
        <5>. QED BY <4>4, <5>1 DEF Waits
      <4>. QED BY <4>2, <4>3, <4>4
    <3>. QED BY <3>1, <3>2
  <2>5. ASSUME NEW i \in DOMAIN queue'[s], NEW j \in DOMAIN queue'[s],
               NEW a \in 1 .. (n + 1), NEW b \in 1 .. (n + 1),
               i < j, Waits(s, i, begun[s][a])', Waits(s, j, begun[s][b])'
        PROVE  a < b
    <3>1. i \in 1 .. len /\ queue'[s][i] = queue[s][i] BY <2>2, <2>5
    <3>2. a \in 1 .. n
      <4>1. queue[s][i].msg \in Sent(s) BY <1>5, <2>2, <3>1
      <4>2. begun'[s][a] # w.msg BY <2>5, <3>1, <4>1 DEF Waits
      <4>. QED BY <1>2, <4>2
    <3>3. CASE j = len + 1
      <4>1. begun'[s][b] = w.msg BY <2>2, <2>5, <3>3 DEF Waits
      <4>2. b = n + 1
        <5>1. ASSUME b \in 1 .. n PROVE FALSE BY <1>2, <4>1, <5>1
        <5>. QED BY <5>1
      <4>. QED BY <3>2, <4>2
    <3>4. CASE j # len + 1
      <4>1. j \in 1 .. len /\ queue'[s][j] = queue[s][j] BY <2>2, <3>4
      <4>2. begun'[s][b] \in Sent(s) BY <1>5, <2>2, <2>5, <4>1 DEF Waits
      <4>3. b \in 1 .. n BY <1>2, <4>2
      <4>4. Waits(s, i, begun[s][a]) /\ Waits(s, j, begun[s][b])
        BY <1>2, <2>5, <3>1, <3>2, <4>1, <4>3 DEF Waits
      <4>. QED BY <1>2, <2>2, <2>5, <3>1, <3>2, <4>1, <4>3, <4>4 DEF FirstsInOrder
    <3>. QED BY <3>3, <3>4
  <2>. QED BY SMTT(60), <1>2, <1>6, <2>3, <2>4, <2>5 DEF FirstsInOrder, FirstOf
<1>9. ASSUME up[s], queue[s] = <<>>, NEW k \in 1 .. (Pieces - w.pos), Takes(s, queue[s], rest, w, k)
      PROVE  FirstsInOrder(s)'
  <2>1. /\ queue'[s] = <<>> /\ up'[s] /\ stream'[s] = stream[s] \o Taken(w, k)
    BY <1>9 DEF Takes
  <2>0. PICK len \in Nat : Grown(s, w, k, len) BY <2>1, StreamGrows
  <2>2. /\ k \in Nat
        /\ DOMAIN stream[s] = 1 .. len
        /\ DOMAIN stream'[s] = 1 .. (len + k)
        /\ \A j \in 1 .. len : stream'[s][j] = stream[s][j]
        /\ \A j \in (1 .. (len + k)) \ (1 .. len) :
              /\ j - len \in 1 .. k
              /\ stream'[s][j].msg = w.msg
              /\ stream'[s][j].part = w.pos + (j - len)
    BY <2>0 DEF Grown
  <2>3. ASSUME NEW m \in Sent(s)' PROVE OnStream(s, m, 1)'
    <3>1. CASE m = w.msg
      <4>1. len + 1 \in DOMAIN stream'[s] /\ len + 1 \notin 1 .. len BY <2>2
      <4>2. stream'[s][len + 1].msg = m /\ stream'[s][len + 1].part = 1
        BY <2>2, <3>1, <4>1
      <4>. QED BY <4>1, <4>2 DEF OnStream
    <3>2. CASE m # w.msg
      <4>1. OnStream(s, m, 1) BY <1>3, <1>9, <3>2 DEF FirstsInOrder
      <4>2. PICK j \in 1 .. len : stream[s][j].msg = m /\ stream[s][j].part = 1
        BY <2>2, <4>1 DEF OnStream
      <4>3. j \in DOMAIN stream'[s] /\ stream'[s][j] = stream[s][j] BY <2>2
      <4>. QED BY <4>2, <4>3 DEF OnStream
    <3>. QED BY <3>1, <3>2
  <2>4. ASSUME NEW j \in DOMAIN stream'[s], NEW a \in 1 .. (n + 1), NEW b \in 1 .. (n + 1),
               a < b, FirstOf(s, j, begun[s][b])'
        PROVE  \E i \in 1 .. j - 1 : FirstOf(s, i, begun[s][a])'
    <3>1. CASE j \in 1 .. len
      <4>1. FirstOf(s, j, begun'[s][b]) BY <2>2, <2>4, <3>1 DEF FirstOf
      <4>2. PICK i \in 1 .. j - 1 : FirstOf(s, i, begun'[s][a]) BY <1>6, <2>2, <2>4, <3>1, <4>1
      <4>3. i \in 1 .. len BY <3>1
      <4>. QED BY <2>2, <4>2, <4>3 DEF FirstOf
    <3>2. CASE j \notin 1 .. len
      <4>1. begun'[s][b] = w.msg BY <2>2, <2>4, <3>2 DEF FirstOf
      <4>2. a \in 1 .. n
        <5>1. ASSUME b \in 1 .. n PROVE FALSE BY <1>2, <4>1, <5>1
        <5>. QED BY <2>4, <5>1
      <4>3. OnStream(s, begun[s][a], 1) BY <1>2, <1>9, <4>2 DEF FirstsInOrder
      <4>4. PICK i \in 1 .. len : stream[s][i].msg = begun[s][a] /\ stream[s][i].part = 1
        BY <2>2, <4>3 DEF OnStream
      <4>5. i \in 1 .. j - 1 BY <2>2, <3>2
      <4>. QED BY ZenonT(30), <1>2, <2>2, <4>2, <4>4, <4>5 DEF FirstOf
    <3>. QED BY <3>1, <3>2
  <2>5. \A i, j \in DOMAIN queue'[s] : ~(i < j) BY <2>1
  <2>. QED BY <1>2, <2>1, <2>3, <2>4, <2>5 DEF FirstsInOrder
<1>. QED BY <1>7, <1>8, <1>9

\* ..., when a write that has begun goes on, ...
LEMMA FirstsOn ==
    ASSUME TypeOK, NEW s \in Session, NEW w \in Write, NEW rest \in SUBSET Write,
           w.pos > 0, begun'[s] = begun[s], up'[s] = up[s], FirstsInOrder(s),
           \/ ~up[s] /\ Fails(s, queue[s], rest, w)
           \/ up[s] /\ WaitsOn(s, queue[s], rest, w)
           \/ /\ up[s] /\ queue[s] = <<>>
              /\ \E k \in 1 .. (Pieces - w.pos) : Takes(s, queue[s], rest, w, k)
    PROVE  FirstsInOrder(s)'
<1>1. Sent(s)' = Sent(s) BY DEF Sent
<1>2. CASE ~up[s] /\ Fails(s, queue[s], rest, w)
  <2>1. queue'[s] = queue[s] /\ stream'[s] = stream[s] /\ ~up'[s] BY <1>2 DEF Fails
  <2>. QED BY <1>1, <2>1 DEF FirstsInOrder, FirstOf, Waits, OnStream
<1>3. CASE up[s] /\ WaitsOn(s, queue[s], rest, w)
  <2>1. PICK len \in Nat : len = Len(queue[s]) BY DEF TypeOK
  <2>2. /\ DOMAIN queue[s] = 1 .. len /\ DOMAIN queue'[s] = 1 .. (len + 1)
        /\ \A i \in 1 .. len : queue'[s][i] = queue[s][i]
        /\ queue'[s][len + 1] = w
    <3>1. queue[s] \in Seq(Write) BY DEF TypeOK
    <3>. QED BY <1>3, <2>1, <3>1 DEF WaitsOn
  <2>3. stream'[s] = stream[s] /\ up'[s] BY <1>3 DEF WaitsOn
  <2>4. \A i \in 1 .. len : \A m : Waits(s, i, m)' <=> Waits(s, i, m)
    BY <2>2 DEF Waits
  <2>5. \A i \in DOMAIN queue'[s] : \A m : Waits(s, i, m)' => i \in 1 .. len
    BY <2>2 DEF Waits
  <2>6. ASSUME NEW m \in Sent(s)'
        PROVE  OnStream(s, m, 1)' \/ \E i \in DOMAIN queue'[s] : Waits(s, i, m)'
    <3>1. OnStream(s, m, 1) \/ \E i \in DOMAIN queue[s] : Waits(s, i, m)
      BY <1>1, <1>3 DEF FirstsInOrder
    <3>2. CASE OnStream(s, m, 1) BY <2>3, <3>2 DEF OnStream
    <3>3. ASSUME NEW i \in DOMAIN queue[s], Waits(s, i, m)
          PROVE  \E j \in DOMAIN queue'[s] : Waits(s, j, m)'
      <4>1. i \in 1 .. len /\ i \in DOMAIN queue'[s] BY <2>2
      <4>. QED BY <2>4, <3>3, <4>1
    <3>. QED BY <3>1, <3>2, <3>3
  <2>7. ASSUME NEW i \in DOMAIN queue'[s], NEW j \in DOMAIN queue'[s],
               NEW a \in DOMAIN begun[s], NEW b \in DOMAIN begun[s],
               i < j, Waits(s, i, begun[s][a])', Waits(s, j, begun[s][b])'
        PROVE  a < b
    <3>1. i \in DOMAIN queue[s] /\ j \in DOMAIN queue[s] BY <2>2, <2>5, <2>7
    <3>2. Waits(s, i, begun[s][a]) /\ Waits(s, j, begun[s][b])
      BY <2>2, <2>7, <3>1 DEF Waits
    <3>. QED BY <2>7, <3>1, <3>2 DEF FirstsInOrder
  <2>. QED BY <1>1, <2>3, <2>6, <2>7 DEF FirstsInOrder, FirstOf
<1>4. ASSUME up[s], queue[s] = <<>>, NEW k \in 1 .. (Pieces - w.pos), Takes(s, queue[s], rest, w, k)
      PROVE  FirstsInOrder(s)'
  <2>1. /\ queue'[s] = <<>> /\ up'[s] /\ stream'[s] = stream[s] \o Taken(w, k)
    BY <1>4 DEF Takes
  <2>2. PICK len \in Nat : Grown(s, w, k, len) BY <2>1, StreamGrows
  <2>3. /\ DOMAIN stream[s] = 1 .. len
        /\ DOMAIN stream'[s] = 1 .. (len + k)
        /\ \A j \in 1 .. len : stream'[s][j] = stream[s][j]
        /\ k \in Nat
    BY <2>2 DEF Grown
  <2>4. \A j \in DOMAIN stream'[s] : j \notin 1 .. len => stream'[s][j].part > 1
    BY SMTT(20), <2>2 DEF Grown
  <2>5. ASSUME NEW m \in Sent(s)' PROVE OnStream(s, m, 1)'
    <3>1. OnStream(s, m, 1) BY <1>1, <1>4 DEF FirstsInOrder
    <3>2. PICK j \in 1 .. len : stream[s][j].msg = m /\ stream[s][j].part = 1
      BY <2>3, <3>1 DEF OnStream
    <3>3. j \in DOMAIN stream'[s] /\ stream'[s][j] = stream[s][j] BY <2>3
    <3>. QED BY <3>2, <3>3 DEF OnStream
  <2>6. ASSUME NEW j \in DOMAIN stream'[s], NEW a \in DOMAIN begun[s], NEW b \in DOMAIN begun[s],
               a < b, FirstOf(s, j, begun[s][b])'
        PROVE  \E i \in 1 .. j - 1 : FirstOf(s, i, begun[s][a])'
    <3>1. j \in 1 .. len BY <2>4, <2>6 DEF FirstOf
    <3>2. FirstOf(s, j, begun[s][b]) BY <2>3, <2>6, <3>1 DEF FirstOf
    <3>3. PICK i \in 1 .. j - 1 : FirstOf(s, i, begun[s][a])
      BY <2>3, <2>6, <3>1, <3>2 DEF FirstsInOrder
    <3>4. i \in 1 .. len BY <3>1
    <3>. QED BY <2>3, <3>3, <3>4 DEF FirstOf
  <2>7. \A i, j \in DOMAIN queue'[s] : ~(i < j) BY <2>1
  <2>. QED BY <2>1, <2>5, <2>6, <2>7 DEF FirstsInOrder
<1>. QED BY <1>2, <1>3, <1>4

\* ... and when the kernel has room for the first write that waits: the messages
\* begun before its own do not wait any more.
LEMMA FirstsKernel ==
    ASSUME TypeOK, NEW s \in Session, queue[s] # <<>>, NEW w \in Write, w = Head(queue[s]),
           NEW rest \in SUBSET Write, begun'[s] = begun[s], up'[s] = up[s], FirstsInOrder(s),
           \A a, b \in DOMAIN begun[s] : begun[s][a] = begun[s][b] => a = b,
           NEW k \in 1 .. (Pieces - w.pos), Takes(s, Tail(queue[s]), rest, w, k)
    PROVE  FirstsInOrder(s)'
<1>1. Sent(s)' = Sent(s) BY DEF Sent
<1>2. PICK wait1 \in Nat : wait1 = Len(queue[s]) BY DEF TypeOK
<1>3. /\ DOMAIN queue[s] = 1 .. wait1 /\ wait1 >= 1 /\ queue[s][1] = w
      /\ DOMAIN queue'[s] = 1 .. (wait1 - 1)
      /\ \A i \in 1 .. (wait1 - 1) : queue'[s][i] = queue[s][i + 1]
  <2>1. queue[s] \in Seq(Write) /\ queue'[s] = Tail(queue[s]) BY DEF TypeOK, Takes
  <2>. QED BY <1>2, <2>1
<1>4. up[s] /\ up'[s] BY DEF FirstsInOrder
<1>5. PICK len \in Nat : Grown(s, w, k, len) BY StreamGrows DEF Takes
<1>6. /\ DOMAIN stream[s] = 1 .. len
      /\ DOMAIN stream'[s] = 1 .. (len + k)
      /\ \A j \in 1 .. len : stream'[s][j] = stream[s][j]
      /\ k \in Nat /\ k >= 1
  BY <1>5 DEF Grown
<1>7. ASSUME NEW m, OnStream(s, m, 1) PROVE \E i \in 1 .. len : FirstOf(s, i, m) /\ FirstOf(s, i, m)'
  BY <1>6, <1>7 DEF OnStream, FirstOf
<1>8. ASSUME NEW m \in Sent(s)
      PROVE  OnStream(s, m, 1)' \/ \E i \in DOMAIN queue'[s] : Waits(s, i, m)'
  <2>1. CASE OnStream(s, m, 1)
    <3>1. PICK i \in 1 .. len : FirstOf(s, i, m)' BY <1>7, <2>1
    <3>2. i \in DOMAIN stream'[s] BY <1>6
    <3>. QED BY <3>1, <3>2 DEF OnStream, FirstOf
  <2>2. CASE Waits(s, 1, m)
    <3>1. w.msg = m /\ w.pos = 0 BY <1>3, <2>2 DEF Waits
    <3>2. len + 1 \in (1 .. (len + k)) \ (1 .. len) /\ w.pos + ((len + 1) - len) = 1
      BY <1>6, <3>1
    <3>3. stream'[s][len + 1].msg = m /\ stream'[s][len + 1].part = 1
      BY <1>5, <3>1, <3>2 DEF Grown
    <3>. QED BY <1>6, <3>2, <3>3 DEF OnStream
  <2>3. ASSUME NEW i \in DOMAIN queue[s], i # 1, Waits(s, i, m)
        PROVE  \E j \in DOMAIN queue'[s] : Waits(s, j, m)'
    <3>1. PICK j \in 1 .. (wait1 - 1) : i = j + 1
      <4>1. i - 1 \in 1 .. (wait1 - 1) /\ i = (i - 1) + 1 BY <1>3, <2>3
      <4>. QED BY <4>1
    <3>2. j \in DOMAIN queue'[s] /\ queue'[s][j] = queue[s][i] BY <1>3, <3>1
    <3>. QED BY <2>3, <3>2 DEF Waits
  <2>4. OnStream(s, m, 1) \/ \E i \in DOMAIN queue[s] : Waits(s, i, m)
    BY <1>4 DEF FirstsInOrder
  <2>. QED BY <2>1, <2>2, <2>3, <2>4
<1>9. ASSUME NEW i \in DOMAIN queue'[s], NEW j \in DOMAIN queue'[s],
             NEW a \in DOMAIN begun[s], NEW b \in DOMAIN begun[s],
             i < j, Waits(s, i, begun[s][a])', Waits(s, j, begun[s][b])'
      PROVE  a < b
  <2>1. /\ i + 1 \in DOMAIN queue[s] /\ j + 1 \in DOMAIN queue[s] /\ i + 1 < j + 1
        /\ queue'[s][i] = queue[s][i + 1] /\ queue'[s][j] = queue[s][j + 1]
    BY SMTT(60), <1>3, <1>9
  <2>2. Waits(s, i + 1, begun[s][a]) /\ Waits(s, j + 1, begun[s][b])
    BY <1>9, <2>1 DEF Waits
  <2>. QED BY <2>1, <2>2 DEF FirstsInOrder
<1>10. ASSUME NEW j \in DOMAIN stream'[s], NEW a \in DOMAIN begun[s], NEW b \in DOMAIN begun[s],
              a < b, FirstOf(s, j, begun[s][b])'
       PROVE  \E i \in 1 .. j - 1 : FirstOf(s, i, begun[s][a])'
  <2>1. CASE j \in 1 .. len
    <3>1. FirstOf(s, j, begun[s][b]) BY <1>6, <1>10, <2>1 DEF FirstOf
    <3>2. PICK i \in 1 .. j - 1 : FirstOf(s, i, begun[s][a])
      BY <1>6, <1>10, <2>1, <3>1 DEF FirstsInOrder
    <3>3. i \in 1 .. len BY <2>1
    <3>. QED BY <1>6, <3>2, <3>3 DEF FirstOf
  <2>2. CASE j \notin 1 .. len
    <3>1. w.msg = begun[s][b] /\ w.pos = 0
      BY SMTT(20), <1>5, <1>6, <1>10, <2>2 DEF FirstOf, Grown
    <3>2. Waits(s, 1, begun[s][b]) /\ 1 \in DOMAIN queue[s] BY <1>3, <3>1 DEF Waits
    <3>3. OnStream(s, begun[s][a], 1) \/ \E i \in DOMAIN queue[s] : Waits(s, i, begun[s][a])
      BY <1>4 DEF FirstsInOrder, Sent
    <3>4. DOMAIN begun[s] \subseteq Nat
      <4>1. begun[s] \in Seq(1 .. MaxSends) BY DEF TypeOK
      <4>. QED BY <4>1
    <3>5. ASSUME NEW i \in DOMAIN queue[s], Waits(s, i, begun[s][a]) PROVE FALSE
      <4>1. CASE i = 1
        <5>1. begun[s][a] = begun[s][b] BY <3>2, <3>5, <4>1 DEF Waits
        <5>. QED BY <1>10, <3>4, <5>1
      <4>2. CASE i # 1
        <5>1. 1 < i BY <1>3, <4>2
        <5>2. b < a BY <3>2, <3>5, <5>1 DEF FirstsInOrder
        <5>. QED BY <1>10, <3>4, <5>2
      <4>. QED BY <4>1, <4>2
    <3>6. PICK i \in 1 .. len : FirstOf(s, i, begun[s][a])' BY <1>7, <3>3, <3>5
    <3>7. i \in 1 .. j - 1 BY <1>6, <2>2
    <3>. QED BY <3>6, <3>7
  <2>. QED BY <2>1, <2>2
<1>. QED BY <1>1, <1>4, <1>8, <1>9, <1>10 DEF FirstsInOrder

\* Handlers that have run, or nothing at all, ...
LEMMA InOrderStill ==
    ASSUME NEW s \in Session, TypeOK, InOrder(s), ready'[s] \subseteq ready[s],
           queue'[s] = queue[s], stream'[s] = stream[s], begun'[s] = begun[s], up'[s] = up[s]
    PROVE  InOrder(s)'
<1>1. OneWrite(s)' BY DEF InOrder, OneWrite
<1>2. Sent(s)' = Sent(s) BY DEF Sent
<1>3. \A w \in Write : Placed(s, w) => Placed(s, w)' BY PlacedStill
<1>4. WritesPlaced(s)'
  <2>1. \A i \in DOMAIN queue[s] : queue[s][i] \in Write BY DEF TypeOK
  <2>2. \A w \in ready[s] : w \in Write BY DEF TypeOK
  <2>3. \A i \in DOMAIN queue'[s] : Unfinished(s, queue[s][i])'
    BY <1>2, <1>3, <2>1 DEF InOrder, WritesPlaced, Unfinished
  <2>4. \A w \in ready'[s] : Tried(s, w)'
    BY <1>2, <1>3, <2>2 DEF InOrder, WritesPlaced, Tried
  <2>5. Ascending(s)' /\ \A k \in DOMAIN stream'[s] : stream'[s][k].msg \in Sent(s)'
    BY <1>2 DEF InOrder, WritesPlaced, Ascending
  <2>. QED BY <2>3, <2>4, <2>5 DEF WritesPlaced
<1>5. FirstsInOrder(s)'
  BY <1>2 DEF InOrder, FirstsInOrder, FirstOf, Waits, OnStream
<1>. QED BY <1>1, <1>4, <1>5 DEF InOrder

\* ..., a socket that dies, ...
LEMMA InOrderDead ==
    ASSUME NEW s \in Session, TypeOK, InOrder(s), begun'[s] = begun[s], ~up'[s],
           stream'[s] = stream[s], queue'[s] = <<>>,
           ready'[s] = ready[s] \cup {Failed(queue[s][i]) : i \in DOMAIN queue[s]}
    PROVE  InOrder(s)'
<1>1. \A i \in DOMAIN queue[s] : queue[s][i] \in Write BY DEF TypeOK
<1>2. \A i \in DOMAIN queue[s] : /\ Failed(queue[s][i]).msg = queue[s][i].msg
                                 /\ Failed(queue[s][i]).pos = queue[s][i].pos
                                 /\ Failed(queue[s][i]).failed
  BY <1>1 DEF Write, Failed
<1>3. DOMAIN queue'[s] = {} OBVIOUS
<1>4. OneWrite(s)'
  <2>1. ASSUME NEW v \in ready'[s], NEW w \in ready'[s], v.msg = w.msg PROVE v = w
    <3>1. CASE v \in ready[s] /\ w \in ready[s] BY <2>1, <3>1 DEF InOrder, OneWrite
    <3>2. CASE v \in ready[s] /\ w \notin ready[s]
      <4>1. PICK i \in DOMAIN queue[s] : w = Failed(queue[s][i]) BY <3>2
      <4>2. v.msg = queue[s][i].msg BY <1>2, <2>1, <4>1
      <4>. QED BY <3>2, <4>2 DEF InOrder, OneWrite
    <3>3. CASE v \notin ready[s] /\ w \in ready[s]
      <4>1. PICK i \in DOMAIN queue[s] : v = Failed(queue[s][i]) BY <3>3
      <4>2. w.msg = queue[s][i].msg BY <1>2, <2>1, <4>1
      <4>. QED BY <3>3, <4>2 DEF InOrder, OneWrite
    <3>4. CASE v \notin ready[s] /\ w \notin ready[s]
      <4>1. PICK i \in DOMAIN queue[s] : v = Failed(queue[s][i]) BY <3>4
      <4>2. PICK j \in DOMAIN queue[s] : w = Failed(queue[s][j]) BY <3>4
      <4>3. queue[s][i].msg = queue[s][j].msg BY <1>2, <2>1, <4>1, <4>2
      <4>4. i = j BY <4>3 DEF InOrder, OneWrite
      <4>. QED BY <4>1, <4>2, <4>4
    <3>. QED BY <3>1, <3>2, <3>3, <3>4
  <2>. QED BY <1>3, <2>1 DEF OneWrite
<1>5. Sent(s)' = Sent(s) BY DEF Sent
<1>6. \A w \in Write : Placed(s, w) => Placed(s, w)' BY PlacedStill
<1>7. ASSUME NEW w \in ready'[s] PROVE Tried(s, w)'
  <2>1. CASE w \in ready[s]
    <3>1. w \in Write /\ Tried(s, w) BY <2>1 DEF TypeOK, InOrder, WritesPlaced
    <3>. QED BY <1>5, <1>6, <3>1 DEF Tried
  <2>2. CASE w \notin ready[s]
    <3>1. PICK i \in DOMAIN queue[s] : w = Failed(queue[s][i]) BY <2>2
    <3>2. PICK u \in Write : u = queue[s][i] BY <1>1
    <3>3. Unfinished(s, u) BY <3>2 DEF InOrder, WritesPlaced
    <3>4. Placed(s, u)' /\ u.msg \in Sent(s) BY <1>6, <3>3 DEF Unfinished
    <3>5. w.msg = u.msg /\ w.pos = u.pos /\ w.failed BY <1>2, <3>1, <3>2
    <3>6. Placed(s, w)' BY <3>4, <3>5 DEF Placed
    <3>. QED BY <1>5, <3>4, <3>5, <3>6 DEF Tried
  <2>. QED BY <2>1, <2>2
<1>8. WritesPlaced(s)'
  <2>1. Ascending(s)' /\ \A k \in DOMAIN stream'[s] : stream'[s][k].msg \in Sent(s)'
    BY <1>5 DEF InOrder, WritesPlaced, Ascending
  <2>. QED BY <1>3, <1>7, <2>1 DEF WritesPlaced
<1>9. FirstsInOrder(s)' BY <1>3 DEF InOrder, FirstsInOrder, FirstOf
<1>. QED BY <1>4, <1>8, <1>9 DEF InOrder

\* ..., a write that is taken up again, ...
LEMMA InOrderOn ==
    ASSUME NEW s \in Session, TypeOK, InOrder(s), NEW w \in ready[s], ~w.failed, w.pos < Pieces,
           begun'[s] = begun[s], up'[s] = up[s], Start(s, w, ready[s] \ {w})
    PROVE  InOrder(s)'
<1>1. PICK q \in Seq(Write) : q = queue[s] BY DEF TypeOK
<1>2. PICK rest \in SUBSET Write : rest = ready[s] \ {w} BY DEF TypeOK
<1>3. w \in Write BY DEF TypeOK
<1>4. \/ ~up[s] /\ ~calm' /\ Fails(s, queue[s], rest, w)
      \/ up[s] /\ calm' = calm /\ WaitsOn(s, queue[s], rest, w)
      \/ /\ up[s] /\ calm' = calm /\ queue[s] = <<>>
         /\ \E k \in 1 .. (Pieces - w.pos) : Takes(s, queue[s], rest, w, k)
  BY <1>2, <1>3, StartEffect
<1>5. GoesOn(s, q, rest, w) BY <1>1, <1>4 DEF GoesOn
<1>6. Apart(q, rest, w) BY <1>1, <1>2 DEF InOrder, OneWrite, Apart
<1>7. Tried(s, w) BY DEF InOrder, WritesPlaced
<1>8. Sent(s)' = Sent(s) BY DEF Sent
<1>9. OneWrite(s)' BY <1>3, <1>5, <1>6, OneWriteOn
<1>10. WritesPlaced(s)'
  <2>1. \A i \in DOMAIN q : Unfinished(s, q[i]) BY <1>1 DEF InOrder, WritesPlaced
  <2>2. /\ \A v \in rest : Tried(s, v)
        /\ \A k \in DOMAIN stream[s] : stream[s][k].msg \in Sent(s)
        /\ Ascending(s)
    BY <1>2 DEF InOrder, WritesPlaced
  <2>3. Sent(s) \subseteq Sent(s)' /\ w.msg \in Sent(s)' /\ Placed(s, w) BY <1>7, <1>8 DEF Tried
  <2>. QED BY <1>3, <1>5, <1>6, <2>1, <2>2, <2>3, PlacedOn
<1>11. FirstsInOrder(s)'
  <2>1. w.pos > 0 BY <1>7 DEF Tried
  <2>2. FirstsInOrder(s) BY DEF InOrder
  <2>. QED BY <1>3, <1>4, <2>1, <2>2, FirstsOn
<1>. QED BY <1>9, <1>10, <1>11 DEF InOrder

\* ..., the first write of a message ...
LEMMA InOrderBegun ==
    ASSUME NEW s \in Session, TypeOK, InOrder(s), NEW w \in Write, ~w.failed, w.pos = 0,
           w.msg \notin Sent(s), begun'[s] = Append(begun[s], w.msg), up'[s] = up[s],
           \A a, b \in DOMAIN begun[s] : begun[s][a] = begun[s][b] => a = b,
           Start(s, w, ready[s])
    PROVE  InOrder(s)'
<1>1. PICK q \in Seq(Write) : q = queue[s] BY DEF TypeOK
<1>2. PICK rest \in SUBSET Write : rest = ready[s] BY DEF TypeOK
<1>3. Pieces \in Nat /\ w.pos < Pieces BY SendAssumption
<1>4. \/ ~up[s] /\ ~calm' /\ Fails(s, queue[s], rest, w)
      \/ up[s] /\ calm' = calm /\ WaitsOn(s, queue[s], rest, w)
      \/ /\ up[s] /\ calm' = calm /\ queue[s] = <<>>
         /\ \E k \in 1 .. (Pieces - w.pos) : Takes(s, queue[s], rest, w, k)
  BY <1>2, <1>3, StartEffect
<1>5. GoesOn(s, q, rest, w) BY <1>1, <1>4 DEF GoesOn
<1>6. Apart(q, rest, w)
  BY <1>1, <1>2 DEF InOrder, OneWrite, WritesPlaced, Unfinished, Tried, Apart
<1>7. Sent(s) \subseteq Sent(s)' /\ w.msg \in Sent(s)'
  <2>1. begun[s] \in Seq(1 .. MaxSends) /\ w.msg \in 1 .. MaxSends BY DEF TypeOK, Write
  <2>2. PICK b \in Seq(1 .. MaxSends) : b = begun[s] BY <2>1
  <2>3. /\ \A a \in DOMAIN b : a \in DOMAIN Append(b, w.msg) /\ Append(b, w.msg)[a] = b[a]
        /\ Len(b) + 1 \in DOMAIN Append(b, w.msg) /\ Append(b, w.msg)[Len(b) + 1] = w.msg
    BY <2>1
  <2>. QED BY <2>2, <2>3 DEF Sent
<1>8. Placed(s, w)
  <2>1. \A k \in DOMAIN stream[s] : stream[s][k].msg # w.msg BY DEF InOrder, WritesPlaced
  <2>. QED BY <2>1 DEF Placed
<1>9. OneWrite(s)' BY <1>5, <1>6, OneWriteOn
<1>10. WritesPlaced(s)'
  <2>1. \A i \in DOMAIN q : Unfinished(s, q[i]) BY <1>1 DEF InOrder, WritesPlaced
  <2>2. /\ \A v \in rest : Tried(s, v)
        /\ \A k \in DOMAIN stream[s] : stream[s][k].msg \in Sent(s)
        /\ Ascending(s)
    BY <1>2 DEF InOrder, WritesPlaced
  <2>. QED BY <1>3, <1>5, <1>6, <1>7, <1>8, <2>1, <2>2, PlacedOn
<1>11. FirstsInOrder(s)'
  <2>1. FirstsInOrder(s) /\ WritesPlaced(s) BY DEF InOrder
  <2>. QED BY <1>4, <2>1, FirstsBegin
<1>. QED BY <1>9, <1>10, <1>11 DEF InOrder

\* The kernel takes pieces of the first write that waits.
LEMMA KernelEffect ==
    ASSUME NEW s \in Session, TypeOK, InOrder(s), KernelTakes(s)
    PROVE  \E w \in Write : \E k \in 1 .. (Pieces - w.pos) :
             /\ queue[s] # <<>> /\ w = Head(queue[s]) /\ Unfinished(s, w)
             /\ Takes(s, Tail(queue[s]), ready[s], w, k)
<1>1. PICK q \in Seq(Write) : q = queue[s] BY DEF TypeOK
<1>2. q # <<>> BY <1>1 DEF KernelTakes
<1>3. PICK w \in Write : w = Head(q) /\ w = q[1] /\ 1 \in DOMAIN q BY <1>2
<1>4. Unfinished(s, w) BY <1>1, <1>3 DEF InOrder, WritesPlaced
<1>5. PICK room \in Room \ {0} :
        /\ stream' = [stream EXCEPT ![s] = @ \o Taken(w, Fits(w, room))]
        /\ queue' = [queue EXCEPT ![s] = Tail(@)]
        /\ ready' = [ready EXCEPT ![s] = @ \cup {Advanced(w, Fits(w, room))}]
  BY <1>1, <1>3 DEF KernelTakes
<1>6. Fits(w, room) \in 1 .. (Pieces - w.pos)
  <2>1. room \in Nat /\ room # 0 /\ Pieces \in Nat /\ w.pos \in Nat /\ w.pos < Pieces
    BY <1>4, SendAssumption DEF Write, Unfinished
  <2>. QED BY <2>1 DEF Fits
<1>7. Takes(s, Tail(queue[s]), ready[s], w, Fits(w, room))
  BY <1>5 DEF Takes, TypeOK
<1>. QED BY <1>1, <1>2, <1>3, <1>4, <1>6, <1>7

\* ... and room for the first of those that wait leave the session in order.
LEMMA InOrderKernel ==
    ASSUME NEW s \in Session, TypeOK, InOrder(s), KernelTakes(s),
           \A a, b \in DOMAIN begun[s] : begun[s][a] = begun[s][b] => a = b
    PROVE  InOrder(s)'
<1>1. PICK q \in Seq(Write) : q = queue[s] BY DEF TypeOK
<1>h. PICK w \in Write : \E k \in 1 .. (Pieces - w.pos) :
        /\ queue[s] # <<>> /\ w = Head(queue[s]) /\ Unfinished(s, w)
        /\ Takes(s, Tail(queue[s]), ready[s], w, k)
  BY KernelEffect
<1>k. PICK k \in 1 .. (Pieces - w.pos) :
        /\ queue[s] # <<>> /\ w = Head(queue[s]) /\ Unfinished(s, w)
        /\ Takes(s, Tail(queue[s]), ready[s], w, k)
  BY <1>h
<1>2. q # <<>> BY <1>1, <1>k
<1>3. w = Head(q) /\ w = q[1] BY <1>1, <1>2, <1>k
<1>4. PICK t \in Seq(Write) : t = Tail(q)
  <2>1. Tail(q) \in Seq(Write) BY <1>2
  <2>. QED BY <2>1
<1>5. /\ \A i \in DOMAIN t : i + 1 \in DOMAIN q /\ i + 1 # 1 /\ t[i] = q[i + 1]
      /\ 1 \in DOMAIN q /\ DOMAIN t \subseteq Int
  BY <1>2, <1>4
<1>6. PICK rest \in SUBSET Write : rest = ready[s] BY DEF TypeOK
<1>7. Unfinished(s, w) BY <1>k
<1>8. Takes(s, t, rest, w, k) BY <1>1, <1>4, <1>6, <1>k
<1>9. begun'[s] = begun[s] /\ up'[s] = up[s] BY DEF KernelTakes, sockets, history
<1>10. GoesOn(s, t, rest, w) BY <1>8 DEF GoesOn
<1>11. Apart(t, rest, w)
  <2>1. /\ \A i, j \in DOMAIN q : q[i].msg = q[j].msg => i = j
        /\ \A u, v \in rest : u.msg = v.msg => u = v
        /\ \A i \in DOMAIN q : \A v \in rest : q[i].msg # v.msg
    BY <1>1, <1>6 DEF InOrder, OneWrite
  <2>2. ASSUME NEW i \in DOMAIN t, NEW j \in DOMAIN t, t[i].msg = t[j].msg PROVE i = j
    <3>1. i + 1 = j + 1 BY <1>5, <2>1, <2>2
    <3>. QED BY <1>5, <3>1
  <2>3. \A i \in DOMAIN t : \A v \in rest : t[i].msg # v.msg BY <1>5, <2>1
  <2>4. \A i \in DOMAIN t : t[i].msg # w.msg BY <1>3, <1>5, <2>1
  <2>5. \A v \in rest : v.msg # w.msg BY <1>3, <1>5, <2>1
  <2>. QED BY <2>1, <2>2, <2>3, <2>4, <2>5 DEF Apart
<1>12. OneWrite(s)' BY <1>10, <1>11, OneWriteOn
<1>13. WritesPlaced(s)'
  <2>1. \A i \in DOMAIN t : Unfinished(s, t[i]) BY <1>1, <1>5 DEF InOrder, WritesPlaced
  <2>2. /\ \A v \in rest : Tried(s, v)
        /\ \A j \in DOMAIN stream[s] : stream[s][j].msg \in Sent(s)
        /\ Ascending(s)
    BY <1>6 DEF InOrder, WritesPlaced
  <2>3. Sent(s) \subseteq Sent(s)' /\ w.msg \in Sent(s)' BY <1>7, <1>9 DEF Sent, Unfinished
  <2>4. ~w.failed /\ w.pos < Pieces /\ Placed(s, w) BY <1>7 DEF Unfinished
  <2>. QED BY <1>10, <1>11, <2>1, <2>2, <2>3, <2>4, PlacedOn
<1>14. FirstsInOrder(s)'
  <2>1. queue[s] # <<>> /\ w = Head(queue[s]) /\ Takes(s, Tail(queue[s]), rest, w, k)
    BY <1>1, <1>2, <1>3, <1>4, <1>8
  <2>2. FirstsInOrder(s) BY DEF InOrder
  <2>. QED BY <1>9, <2>1, <2>2, FirstsKernel
<1>. QED BY <1>12, <1>13, <1>14 DEF InOrder

\* The numbers of the messages stay apart while none is begun or built ...
LEMMA NumbersStill ==
    ASSUME NumbersApart, begun' = begun, calls' = calls,
           \A t \in Thread : pc'[t] = "built" => pc[t] = "built" /\ call'[t] = call[t]
    PROVE  NumbersApart'
<1>1. \A s \in Session : Sent(s)' = Sent(s) BY DEF Sent
<1>. QED BY <1>1 DEF NumbersApart

\* ... and when one is begun.
LEMMA NumbersBegun ==
    ASSUME TypeOK, NumbersApart, NEW t \in Thread, NEW s \in Session, pc[t] = "built",
           pc' = [pc EXCEPT ![t] = "written"], call' = call, calls' = calls,
           call[t].msg \in 1 .. MaxSends,
           begun' = [begun EXCEPT ![s] = Append(@, call[t].msg)]
    PROVE  /\ NumbersApart'
           /\ begun'[s] = Append(begun[s], call[t].msg)
           /\ \A r \in Session \ {s} : begun'[r] = begun[r]
           /\ Sent(s)' = Sent(s) \cup {call[t].msg}
<1>1. PICK old \in Seq(1 .. MaxSends) : old = begun[s] BY DEF TypeOK
<1>2. PICK m \in 1 .. MaxSends : m = call[t].msg OBVIOUS
<1>3. PICK n \in Nat : n = Len(old) OBVIOUS
<1>4. begun'[s] = Append(old, m) /\ \A r \in Session \ {s} : begun'[r] = begun[r]
  BY <1>1, <1>2 DEF TypeOK
<1>5. /\ DOMAIN begun[s] = 1 .. n /\ DOMAIN begun'[s] = 1 .. (n + 1)
      /\ \A a \in 1 .. n : begun'[s][a] = begun[s][a]
      /\ begun'[s][n + 1] = m
  <2>1. /\ DOMAIN old = 1 .. n /\ DOMAIN Append(old, m) = 1 .. (n + 1)
        /\ \A a \in 1 .. n : Append(old, m)[a] = old[a]
        /\ Append(old, m)[n + 1] = m
    BY <1>3
  <2>. QED BY <1>1, <1>4, <2>1
<1>6. Sent(s)' = Sent(s) \cup {m} BY <1>5 DEF Sent
<1>7. \A r \in Session \ {s} : Sent(r)' = Sent(r) BY <1>4 DEF Sent
<1>8. m <= calls /\ \A r \in Session : m \notin Sent(r)
  BY <1>2 DEF NumbersApart
<1>9. \A r \in Session : \A x \in Sent(r)' : x <= calls'
  BY <1>6, <1>7, <1>8 DEF NumbersApart
<1>10. ASSUME NEW q \in Session, NEW r \in Session, NEW a \in DOMAIN begun'[q],
              NEW b \in DOMAIN begun'[r], begun'[q][a] = begun'[r][b]
       PROVE  q = r /\ a = b
  <2>1. ASSUME NEW p \in Session, NEW c \in DOMAIN begun'[p]
        PROVE  \/ p = s /\ c = n + 1 /\ begun'[p][c] = m
               \/ c \in DOMAIN begun[p] /\ begun'[p][c] = begun[p][c] /\ begun[p][c] # m
    <3>1. CASE p = s
      <4>1. CASE c = n + 1 BY <1>5, <3>1, <4>1
      <4>2. CASE c # n + 1
        <5>1. c \in DOMAIN begun[s] /\ begun'[s][c] = begun[s][c] BY <1>5, <3>1, <4>2
        <5>. QED BY <1>8, <3>1, <5>1 DEF Sent
      <4>. QED BY <4>1, <4>2
    <3>2. CASE p # s BY <1>4, <1>8, <3>2 DEF Sent
    <3>. QED BY <3>1, <3>2
  <2>2. CASE begun'[q][a] = m
    <3>1. q = s /\ a = n + 1 BY <2>1, <2>2
    <3>2. r = s /\ b = n + 1 BY <1>10, <2>1, <2>2
    <3>. QED BY <3>1, <3>2
  <2>3. CASE begun'[q][a] # m
    <3>1. a \in DOMAIN begun[q] /\ begun'[q][a] = begun[q][a] BY <2>1, <2>3
    <3>2. b \in DOMAIN begun[r] /\ begun'[r][b] = begun[r][b] BY <1>10, <2>1, <2>3
    <3>. QED BY <1>10, <3>1, <3>2 DEF NumbersApart
  <2>. QED BY <2>2, <2>3
<1>11. ASSUME NEW u \in Thread, pc'[u] = "built"
       PROVE  /\ call'[u].msg <= calls'
              /\ \A r \in Session : call'[u].msg \notin Sent(r)'
              /\ \A v \in Thread : pc'[v] = "built" /\ call'[v].msg = call'[u].msg => v = u
  <2>1. pc[u] = "built" /\ u # t BY <1>11 DEF TypeOK
  <2>2. \A v \in Thread : pc'[v] = "built" => pc[v] = "built" BY DEF TypeOK
  <2>3. call[u].msg # m BY <1>2, <2>1 DEF NumbersApart
  <2>. QED BY <1>6, <1>7, <2>1, <2>2, <2>3 DEF NumbersApart
<1>12. NumbersApart' BY <1>9, <1>10, <1>11 DEF NumbersApart
<1>. QED BY <1>1, <1>2, <1>4, <1>6, <1>12

LEMMA OrderInit == Init => OrderInv
<1> SUFFICES ASSUME Init PROVE OrderInv OBVIOUS
<1>1. TypeInv BY TypeInit
<1>2. \A s \in Session : queue[s] = <<>> /\ ready[s] = {} /\ stream[s] = <<>> /\ begun[s] = <<>>
  BY DEF Init
<1>3. \A s \in Session : DOMAIN queue[s] = {} /\ DOMAIN stream[s] = {} /\ DOMAIN begun[s] = {}
  BY <1>2
<1>4. \A s \in Session : Sent(s) = {} BY <1>3 DEF Sent
<1>5. NumbersApart
  <2>1. \A t \in Thread : pc[t] # "built" BY DEF Init
  <2>. QED BY <1>3, <1>4, <2>1 DEF NumbersApart
<1>6. \A s \in Session : InOrder(s)
  BY <1>2, <1>3, <1>4 DEF InOrder, OneWrite, WritesPlaced, Ascending, FirstsInOrder
<1>. QED BY <1>1, <1>5, <1>6 DEF OrderInv

LEMMA OrderStep == OrderInv /\ [Next]_vars => OrderInv'
<1> SUFFICES ASSUME OrderInv, [Next]_vars PROVE OrderInv' OBVIOUS
<1>0. TypeInv' BY TypeStep DEF OrderInv
<1>1. TypeOK /\ Busy /\ NumbersApart /\ \A s \in Session : InOrder(s)
  BY DEF OrderInv, TypeInv
\* What the steps that leave the writes alone leave in order.
<1>2. ASSUME begun' = begun, calls' = calls, queue' = queue, stream' = stream, up' = up,
             \A s \in Session : ready'[s] \subseteq ready[s],
             \A t \in Thread : pc'[t] = "built" => pc[t] = "built" /\ call'[t] = call[t]
      PROVE  OrderInv'
  <2>1. NumbersApart' BY <1>1, <1>2, NumbersStill
  <2>2. \A s \in Session : InOrder(s)' BY <1>1, <1>2, InOrderStill
  <2>. QED BY <1>0, <2>1, <2>2 DEF OrderInv
\* What the others leave in order at the sessions they are not about.
<1>3. ASSUME NEW s \in Session, NEW r \in Session, r # s,
             begun'[r] = begun[r], queue'[r] = queue[r], stream'[r] = stream[r], up'[r] = up[r],
             ready'[r] = ready[r]
      PROVE  InOrder(r)'
  BY <1>1, <1>3, InOrderStill
<1>4. \A s \in Session : \A a, b \in DOMAIN begun[s] : begun[s][a] = begun[s][b] => a = b
  BY <1>1 DEF NumbersApart
<1>5. ASSUME NEW t \in Thread, NEW s \in Session, Send(t, s) PROVE OrderInv'
  <2>1. \A r \in Session : InOrder(r)'
    BY <1>1, <1>5, InOrderStill DEF Send, sockets, writes
  <2>2. /\ pc' = [pc EXCEPT ![t] = "built"] /\ calls' = calls + 1 /\ begun' = begun
        /\ call' = [call EXCEPT ![t] = [to |-> s, msg |-> calls + 1]]
    BY <1>5 DEF Send, At
  <2>3. \A r \in Session : Sent(r)' = Sent(r) BY <2>2 DEF Sent
  <2>4. \A r \in Session : \A m \in Sent(r) : m \in Nat /\ m <= calls /\ m # calls + 1
    <3>1. \A r \in Session : \A m \in Sent(r) : m \in 1 .. MaxSends /\ m <= calls
      <4>1. \A r \in Session : begun[r] \in Seq(1 .. MaxSends) BY <1>1 DEF TypeOK
      <4>2. ASSUME NEW r \in Session, NEW a \in DOMAIN begun[r]
            PROVE  begun[r][a] \in 1 .. MaxSends
        BY <4>1, SeqElement
      <4>. QED BY <1>1, <4>2 DEF NumbersApart, Sent
    <3>. QED BY <1>1, <3>1 DEF TypeOK
  <2>5. \A u \in Thread \ {t} : pc[u] = "built" => call[u].msg <= calls /\ call[u].msg # calls + 1
    <3>1. \A u \in Thread : pc[u] = "built" => call[u].msg \in 1 .. MaxSends /\ call[u].msg <= calls
      BY <1>1 DEF Busy, NumbersApart
    <3>. QED BY <1>1, <3>1 DEF TypeOK
  <2>6. /\ pc'[t] = "built" /\ call'[t].msg = calls + 1
        /\ \A u \in Thread \ {t} : pc'[u] = pc[u] /\ call'[u] = call[u]
    BY <1>1, <2>2 DEF TypeOK
  <2>7. calls \in Nat /\ calls' = calls + 1 BY <1>1, <2>2 DEF TypeOK
  <2>8. \A r \in Session : \A m \in Sent(r)' : m <= calls' BY <2>3, <2>4, <2>7
  <2>9. ASSUME NEW u \in Thread, pc'[u] = "built"
        PROVE  /\ call'[u].msg <= calls'
               /\ \A r \in Session : call'[u].msg \notin Sent(r)'
               /\ \A v \in Thread : pc'[v] = "built" /\ call'[v].msg = call'[u].msg => v = u
    <3>1. CASE u = t BY <2>3, <2>4, <2>5, <2>6, <2>7, <3>1
    <3>2. CASE u # t
      <4>1. pc[u] = "built" /\ call'[u] = call[u] BY <2>6, <2>9, <3>2
      <4>2. call[u].msg \in Int /\ call[u].msg <= calls /\ call[u].msg # calls + 1
        BY <1>1, <2>5, <3>2, <4>1 DEF Busy
      <4>. QED BY <1>1, <2>3, <2>6, <2>7, <4>1, <4>2 DEF NumbersApart
    <3>. QED BY <3>1, <3>2
  <2>10. NumbersApart' BY <1>1, <2>2, <2>8, <2>9 DEF NumbersApart
  <2>. QED BY <1>0, <2>1, <2>10 DEF OrderInv
<1>6. ASSUME NEW t \in Thread, AsyncWrite(t) PROVE OrderInv'
  <2>1. PICK s \in Session : s = call[t].to /\ call[t].msg \in 1 .. MaxSends
    BY <1>1, <1>6 DEF AsyncWrite, At, Busy
  <2>2. PICK w \in Write : w = NewWrite(t)
    <3>1. 0 \in 0 .. Pieces BY SendAssumption
    <3>. QED BY <2>1, <3>1 DEF NewWrite, SendBuf, Write
  <2>3. ~w.failed /\ w.pos = 0 /\ w.msg = call[t].msg BY <2>2 DEF NewWrite
  <2>4. /\ pc[t] = "built" /\ pc' = [pc EXCEPT ![t] = "written"] /\ call' = call /\ calls' = calls
        /\ begun' = [begun EXCEPT ![s] = Append(@, call[t].msg)] /\ up' = up
        /\ Start(s, w, ready[s])
    BY <1>6, <2>1, <2>2 DEF AsyncWrite, At, sockets
  <2>5. /\ NumbersApart'
        /\ begun'[s] = Append(begun[s], call[t].msg)
        /\ \A r \in Session \ {s} : begun'[r] = begun[r]
    BY <1>1, <2>1, <2>4, NumbersBegun
  <2>6. w.msg \notin Sent(s) BY <1>1, <2>3, <2>4 DEF NumbersApart
  <2>7. InOrder(s)' BY <1>1, <1>4, <2>3, <2>4, <2>5, <2>6, InOrderBegun
  <2>8. \A r \in Session : r # s => InOrder(r)'
    <3>1. \A r \in Session : r # s =>
            queue'[r] = queue[r] /\ ready'[r] = ready[r] /\ stream'[r] = stream[r]
      BY <1>1, <2>4, StartElsewhere
    <3>. QED BY <1>3, <2>4, <2>5, <3>1
  <2>. QED BY <1>0, <2>5, <2>7, <2>8 DEF OrderInv
<1>7. ASSUME NEW s \in Session, WriteOn(s) PROVE OrderInv'
  <2>1. PICK w \in ready[s] : ~w.failed /\ w.pos < Pieces /\ Start(s, w, ready[s] \ {w})
    BY <1>7 DEF WriteOn
  <2>2. begun' = begun /\ up' = up /\ calls' = calls /\ pc' = pc /\ call' = call
    BY <1>7 DEF WriteOn, sockets, threads
  <2>3. InOrder(s)' BY <1>1, <2>1, <2>2, InOrderOn
  <2>4. \A r \in Session : r # s =>
          queue'[r] = queue[r] /\ ready'[r] = ready[r] /\ stream'[r] = stream[r]
    BY <1>1, <2>1, StartElsewhere
  <2>5. \A r \in Session : r # s => InOrder(r)' BY <1>3, <2>2, <2>4
  <2>6. NumbersApart' BY <1>1, <2>2, NumbersStill
  <2>. QED BY <1>0, <2>3, <2>5, <2>6 DEF OrderInv
<1>8. ASSUME NEW s \in Session, KernelTakes(s) PROVE OrderInv'
  <2>1. InOrder(s)' BY <1>1, <1>4, <1>8, InOrderKernel
  <2>2. begun' = begun /\ up' = up /\ calls' = calls /\ pc' = pc /\ call' = call
    BY <1>8 DEF KernelTakes, sockets, threads, history
  <2>3. \A r \in Session : r # s =>
          queue'[r] = queue[r] /\ ready'[r] = ready[r] /\ stream'[r] = stream[r]
    BY <1>1, <1>8 DEF KernelTakes, TypeOK
  <2>4. \A r \in Session : r # s => InOrder(r)' BY <1>3, <2>2, <2>3
  <2>5. NumbersApart' BY <1>1, <2>2, NumbersStill
  <2>. QED BY <1>0, <2>1, <2>4, <2>5 DEF OrderInv
<1>9. ASSUME NEW s \in Session, Die(s) PROVE OrderInv'
  <2>1. /\ up' = [up EXCEPT ![s] = FALSE] /\ queue' = [queue EXCEPT ![s] = <<>>]
        /\ ready' = [ready EXCEPT ![s] = @ \cup {Failed(queue[s][i]) : i \in DOMAIN queue[s]}]
        /\ begun' = begun /\ stream' = stream /\ calls' = calls /\ pc' = pc /\ call' = call
    BY <1>9 DEF Die, threads
  <2>2. /\ ~up'[s] /\ queue'[s] = <<>>
        /\ ready'[s] = ready[s] \cup {Failed(queue[s][i]) : i \in DOMAIN queue[s]}
    BY <1>1, <2>1 DEF TypeOK
  <2>3. InOrder(s)' BY <1>1, <2>1, <2>2, InOrderDead
  <2>4. \A r \in Session : r # s => up'[r] = up[r] /\ queue'[r] = queue[r] /\ ready'[r] = ready[r]
    BY <1>1, <2>1 DEF TypeOK
  <2>5. \A r \in Session : r # s => InOrder(r)' BY <1>3, <2>1, <2>4
  <2>6. NumbersApart' BY <1>1, <2>1, NumbersStill
  <2>. QED BY <1>0, <2>3, <2>5, <2>6 DEF OrderInv
<1>10. ASSUME NEW t \in Thread, NEW s \in Session, HandleWrite(t, s) PROVE OrderInv'
  <2>1. PICK w \in ready[s] :
          /\ ready' = [ready EXCEPT ![s] = @ \ {w}]
          /\ call' = [call EXCEPT ![t] = [to |-> s, msg |-> w.msg]]
          /\ pc' = [pc EXCEPT ![t] = IF Outcome(w) = "subtract" THEN "subtract" ELSE "discarded"]
    BY <1>10 DEF HandleWrite, At
  <2>2. \A r \in Session : ready'[r] \subseteq ready[r] BY <1>1, <2>1 DEF TypeOK
  <2>3. \A u \in Thread : pc'[u] = "built" => pc[u] = "built" /\ call'[u] = call[u]
    BY <1>1, <2>1 DEF TypeOK
  <2>. QED BY <1>2, <1>10, <2>2, <2>3 DEF HandleWrite, sockets, counters
<1>11. ASSUME NEW s \in Session, HandleWriteClosed(s) PROVE OrderInv'
  <2>1. \A r \in Session : ready'[r] \subseteq ready[r] BY <1>1, <1>11 DEF HandleWriteClosed, TypeOK
  <2>. QED BY <1>2, <1>11, <2>1 DEF HandleWriteClosed, sockets, threads, history
<1>12. ASSUME NEW s \in Session, ExitMark(s) PROVE OrderInv'
  BY <1>2, <1>12 DEF ExitMark, threads, writes
<1>13. ASSUME NEW t \in Thread, ReadWait(t) \/ StackReused(t) \/ SubtractFromWait(t) \/ ReadTotal(t)
       PROVE  OrderInv'
  <2>1. \A u \in Thread : pc'[u] = "built" => pc[u] = "built"
    BY <1>1, <1>13 DEF TypeOK, ReadWait, StackReused, SubtractFromWait, ReadTotal, At
  <2>2. call' = call /\ begun' = begun /\ calls' = calls /\ queue' = queue /\ stream' = stream /\ up' = up
        /\ ready' = ready
    BY <1>13 DEF ReadWait, StackReused, SubtractFromWait, ReadTotal, sockets, writes, history
  <2>. QED BY <1>2, <2>1, <2>2
<1>14. ASSUME NEW t \in Thread, AddToWait(t) \/ AddToTotal(t) PROVE OrderInv'
  <2>1. pc' = [pc EXCEPT ![t] = "idle"] /\ call' = [call EXCEPT ![t] = NoCall]
    BY <1>14 DEF AddToWait, AddToTotal, At
  <2>2. \A u \in Thread : pc'[u] = "built" => pc[u] = "built" /\ call'[u] = call[u]
    BY <1>1, <2>1 DEF TypeOK
  <2>3. begun' = begun /\ calls' = calls /\ queue' = queue /\ stream' = stream /\ up' = up
        /\ ready' = ready
    BY <1>14 DEF AddToWait, AddToTotal, sockets, writes, history
  <2>. QED BY <1>2, <2>2, <2>3
<1>15. CASE UNCHANGED vars
  BY <1>2, <1>15 DEF vars, sockets, threads, writes, history
<1>. QED
  BY <1>5, <1>6, <1>7, <1>8, <1>9, <1>10, <1>11, <1>12, <1>13, <1>14, <1>15
  DEF Next, PeerResets, ExitClosesSocket

\* However writes wait, fail, are taken up again and are mixed: the messages of a
\* session begin on its stream in the order in which async_write was called for
\* them, and the pieces of each come one after the other and once.
THEOREM PiecesKeepOrder == Spec => []PiecesInOrder
<1>1. ASSUME OrderInv PROVE PiecesInOrder
  <2>1. TypeOK /\ \A s \in Session : InOrder(s) BY <1>1 DEF OrderInv, TypeInv
  <2>2. PiecesOnce BY <2>1 DEF InOrder, WritesPlaced, Ascending, PiecesOnce
  <2>3. BegunInOrder
    <3>1. SUFFICES ASSUME NEW s \in Session, NEW k \in DOMAIN stream[s], stream[s][k].part = 1
                   PROVE  \E b \in DOMAIN begun[s] :
                            /\ begun[s][b] = stream[s][k].msg
                            /\ \A a \in 1 .. b - 1 : \E j \in 1 .. k - 1 : FirstOf(s, j, begun[s][a])
      BY DEF BegunInOrder
    <3>2. stream[s][k].msg \in Sent(s) BY <2>1 DEF InOrder, WritesPlaced
    <3>3. PICK b \in DOMAIN begun[s] : begun[s][b] = stream[s][k].msg BY <3>2 DEF Sent
    <3>4. FirstOf(s, k, begun[s][b]) BY <3>1, <3>3 DEF FirstOf
    <3>5. \A a \in 1 .. b - 1 : a \in DOMAIN begun[s] /\ a < b
      <4>1. PICK n \in Nat : DOMAIN begun[s] = 1 .. n BY <2>1 DEF TypeOK
      <4>. QED BY <3>3, <4>1
    <3>6. \A a \in 1 .. b - 1 : \E j \in 1 .. k - 1 : FirstOf(s, j, begun[s][a])
      BY <2>1, <3>4, <3>5 DEF InOrder, FirstsInOrder
    <3>. QED BY <3>3, <3>6
  <2>. QED BY <2>2, <2>3 DEF PiecesInOrder
<1>. QED BY <1>1, OrderInit, OrderStep, PTL DEF Spec

-----------------------------------------------------------------------------
(* Bytes: which messages are alive, and which pieces are on the stream,    *)
(* after each step                                                         *)

LEMMA OnStreamStill ==
    ASSUME NEW s \in Session, stream'[s] = stream[s], NEW m, NEW p, OnStream(s, m, p)
    PROVE  OnStream(s, m, p)'
BY DEF OnStream

LEMMA OnStreamGrown ==
    ASSUME TypeOK, NEW s \in Session, NEW w \in Write, NEW k \in 1 .. (Pieces - w.pos),
           stream'[s] = stream[s] \o Taken(w, k), NEW m, NEW p, OnStream(s, m, p)
    PROVE  OnStream(s, m, p)'
<1>1. PICK len \in Nat : Grown(s, w, k, len) BY StreamGrows
<1>2. PICK j \in 1 .. len : stream[s][j].msg = m /\ stream[s][j].part = p
  BY <1>1 DEF OnStream, Grown
<1>3. j \in DOMAIN stream'[s] /\ stream'[s][j] = stream[s][j] BY <1>1 DEF Grown
<1>. QED BY <1>2, <1>3 DEF OnStream

\* However a write goes on, it is of the same message.
LEMMA GoesOnAlive ==
    ASSUME TypeOK, NEW s \in Session, NEW q \in Seq(Write), NEW rest \in SUBSET Write,
           NEW w \in Write, GoesOn(s, q, rest, w), NEW m
    PROVE  /\ WaitsAt(queue'[s], m) \/ ReadyAt(ready'[s], m)
                <=> WaitsAt(q, m) \/ ReadyAt(rest, m) \/ m = w.msg
           /\ \A p : OnStream(s, m, p) => OnStream(s, m, p)'
<1>1. ASSUME NEW x, x.msg = w.msg
      PROVE  ReadyAt(rest \cup {x}, m) <=> ReadyAt(rest, m) \/ m = w.msg
  BY <1>1 DEF ReadyAt
<1>2. CASE Fails(s, q, rest, w)
  <2>1. Failed(w).msg = w.msg BY DEF Failed, Write
  <2>2. queue'[s] = q /\ ready'[s] = rest \cup {Failed(w)} /\ stream'[s] = stream[s]
    BY <1>2 DEF Fails
  <2>3. ReadyAt(ready'[s], m) <=> ReadyAt(rest, m) \/ m = w.msg BY <1>1, <2>1, <2>2
  <2>. QED BY <2>2, <2>3, OnStreamStill
<1>3. CASE WaitsOn(s, q, rest, w)
  <2>1. /\ \A i \in DOMAIN q : i \in DOMAIN Append(q, w) /\ Append(q, w)[i] = q[i]
        /\ Len(q) + 1 \in DOMAIN Append(q, w) /\ Append(q, w)[Len(q) + 1] = w
        /\ \A i \in DOMAIN Append(q, w) : i \in DOMAIN q \/ i = Len(q) + 1
    BY AppendedQueue
  <2>2. WaitsAt(Append(q, w), m) <=> WaitsAt(q, m) \/ m = w.msg BY <2>1 DEF WaitsAt
  <2>. QED BY <1>3, <2>2, OnStreamStill DEF WaitsOn
<1>4. ASSUME NEW k \in 1 .. (Pieces - w.pos), Takes(s, q, rest, w, k)
      PROVE  /\ WaitsAt(queue'[s], m) \/ ReadyAt(ready'[s], m)
                   <=> WaitsAt(q, m) \/ ReadyAt(rest, m) \/ m = w.msg
             /\ \A p : OnStream(s, m, p) => OnStream(s, m, p)'
  <2>1. Advanced(w, k).msg = w.msg BY DEF Advanced, Write
  <2>2. queue'[s] = q /\ ready'[s] = rest \cup {Advanced(w, k)}
        /\ stream'[s] = stream[s] \o Taken(w, k)
    BY <1>4 DEF Takes
  <2>3. ReadyAt(ready'[s], m) <=> ReadyAt(rest, m) \/ m = w.msg BY <1>1, <2>1, <2>2
  <2>. QED BY <2>2, <2>3, OnStreamGrown
<1>. QED BY <1>2, <1>3, <1>4 DEF GoesOn

\* What a step does to the other sessions and to the streams, in terms of messages.
Onward == \A s \in Session : \A m, p : OnStream(s, m, p) => OnStream(s, m, p)'

\* async_write and the handler that takes a write up again.
LEMMA StartAlive ==
    ASSUME TypeOK, NEW s \in Session, NEW w \in Write, ~w.failed, w.pos < Pieces,
           NEW rest \in SUBSET Write, Start(s, w, rest)
    PROVE  /\ Onward
           /\ \A m : Alive(m)' <=> \/ WaitsAt(queue[s], m) \/ ReadyAt(rest, m) \/ m = w.msg
                                   \/ \E r \in Session \ {s} : WaitsAt(queue[r], m) \/ ReadyAt(ready[r], m)
           /\ calm' => /\ calm
                       /\ \A v \in ready'[s] : v.failed => v \in rest
                       /\ \A r \in Session : r # s => ready'[r] = ready[r]
<1>1. \/ ~up[s] /\ ~calm' /\ Fails(s, queue[s], rest, w)
      \/ up[s] /\ calm' = calm /\ WaitsOn(s, queue[s], rest, w)
      \/ /\ up[s] /\ calm' = calm /\ queue[s] = <<>>
         /\ \E k \in 1 .. (Pieces - w.pos) : Takes(s, queue[s], rest, w, k)
  BY StartEffect
<1>2. GoesOn(s, queue[s], rest, w) BY <1>1 DEF GoesOn
<1>3. \A r \in Session : r # s =>
        queue'[r] = queue[r] /\ ready'[r] = ready[r] /\ stream'[r] = stream[r]
  BY StartElsewhere
<1>4. PICK q \in Seq(Write) : q = queue[s] BY DEF TypeOK
<1>5. ASSUME NEW m
      PROVE  /\ WaitsAt(queue'[s], m) \/ ReadyAt(ready'[s], m)
                  <=> WaitsAt(queue[s], m) \/ ReadyAt(rest, m) \/ m = w.msg
             /\ \A p : OnStream(s, m, p) => OnStream(s, m, p)'
  <2>1. GoesOn(s, q, rest, w) BY <1>2, <1>4
  <2>. QED BY <1>4, <2>1, GoesOnAlive
<1>6. Onward BY <1>3, <1>5, OnStreamStill DEF Onward
<1>7. ASSUME NEW m
      PROVE  Alive(m)' <=> \/ WaitsAt(queue[s], m) \/ ReadyAt(rest, m) \/ m = w.msg
                           \/ \E r \in Session \ {s} : WaitsAt(queue[r], m) \/ ReadyAt(ready[r], m)
  BY <1>3, <1>5 DEF Alive
<1>8. ASSUME NEW k \in 1 .. (Pieces - w.pos) PROVE ~Advanced(w, k).failed
  BY DEF Advanced, Write
<1>9. calm' => /\ calm
               /\ \A v \in ready'[s] : v.failed => v \in rest
               /\ \A r \in Session : r # s => ready'[r] = ready[r]
  BY <1>1, <1>3, <1>8 DEF WaitsOn, Takes
<1>. QED BY <1>6, <1>7, <1>9

LEMMA KernelAlive ==
    ASSUME TypeOK, NEW s \in Session, InOrder(s), KernelTakes(s)
    PROVE  /\ Onward
           /\ \A m : Alive(m)' <=> Alive(m)
           /\ calm' = calm
           /\ \A r \in Session : \A v \in ready'[r] : v.failed => v \in ready[r]
<1>1. PICK w \in Write : \E k \in 1 .. (Pieces - w.pos) :
        /\ queue[s] # <<>> /\ w = Head(queue[s]) /\ Unfinished(s, w)
        /\ Takes(s, Tail(queue[s]), ready[s], w, k)
  BY KernelEffect
<1>2. PICK k \in 1 .. (Pieces - w.pos) :
        /\ queue[s] # <<>> /\ w = Head(queue[s]) /\ Unfinished(s, w)
        /\ Takes(s, Tail(queue[s]), ready[s], w, k)
  BY <1>1
<1>3. PICK q \in Seq(Write) : q = queue[s] /\ q # <<>> BY <1>2 DEF TypeOK
<1>4. PICK t \in Seq(Write) : t = Tail(q)
  <2>1. Tail(q) \in Seq(Write) BY <1>3
  <2>. QED BY <2>1
<1>5. PICK rest \in SUBSET Write : rest = ready[s] BY DEF TypeOK
<1>6. GoesOn(s, t, rest, w) BY <1>2, <1>3, <1>4, <1>5 DEF GoesOn
<1>7. ASSUME NEW m PROVE WaitsAt(q, m) <=> WaitsAt(t, m) \/ m = w.msg
  <2>1. /\ \A i \in DOMAIN t : i + 1 \in DOMAIN q /\ t[i] = q[i + 1]
        /\ 1 \in DOMAIN q /\ w = q[1]
        /\ \A i \in DOMAIN q : i = 1 \/ (i - 1 \in DOMAIN t /\ t[i - 1] = q[i])
    BY SMTT(20), <1>2, <1>3, <1>4
  <2>. QED BY ZenonT(30), <2>1 DEF WaitsAt
<1>8. ASSUME NEW m
      PROVE  /\ WaitsAt(queue'[s], m) \/ ReadyAt(ready'[s], m) <=> WaitsAt(q, m) \/ ReadyAt(rest, m)
             /\ \A p : OnStream(s, m, p) => OnStream(s, m, p)'
  BY <1>6, <1>7, GoesOnAlive
<1>9. \A r \in Session : r # s =>
        queue'[r] = queue[r] /\ ready'[r] = ready[r] /\ stream'[r] = stream[r]
  BY DEF KernelTakes, TypeOK
<1>10. Onward BY <1>8, <1>9, OnStreamStill DEF Onward
<1>11. \A m : Alive(m)' <=> Alive(m) BY <1>3, <1>5, <1>8, <1>9 DEF Alive
<1>12. ~Advanced(w, k).failed BY <1>2 DEF Unfinished, Advanced, Write
<1>13. \A r \in Session : \A v \in ready'[r] : v.failed => v \in ready[r]
  BY <1>2, <1>9, <1>12 DEF Takes
<1>. QED BY <1>10, <1>11, <1>13 DEF KernelTakes, history

LEMMA DieAlive ==
    ASSUME TypeOK, NEW s \in Session, Die(s)
    PROVE  Onward /\ \A m : Alive(m)' <=> Alive(m)
<1>1. /\ queue' = [queue EXCEPT ![s] = <<>>] /\ stream' = stream
      /\ ready' = [ready EXCEPT ![s] = @ \cup {Failed(queue[s][i]) : i \in DOMAIN queue[s]}]
  BY DEF Die
<1>2. /\ queue'[s] = <<>>
      /\ ready'[s] = ready[s] \cup {Failed(queue[s][i]) : i \in DOMAIN queue[s]}
      /\ \A r \in Session : r # s => queue'[r] = queue[r] /\ ready'[r] = ready[r]
  BY <1>1 DEF TypeOK
<1>3. \A i \in DOMAIN queue[s] : Failed(queue[s][i]).msg = queue[s][i].msg
  <2>1. \A i \in DOMAIN queue[s] : queue[s][i] \in Write BY DEF TypeOK
  <2>. QED BY <2>1 DEF Failed, Write
<1>4. ASSUME NEW m
      PROVE  WaitsAt(queue'[s], m) \/ ReadyAt(ready'[s], m) <=> WaitsAt(queue[s], m) \/ ReadyAt(ready[s], m)
  <2>1. ~WaitsAt(queue'[s], m) BY <1>2 DEF WaitsAt
  <2>2. ReadyAt(ready'[s], m) <=> WaitsAt(queue[s], m) \/ ReadyAt(ready[s], m)
    BY <1>2, <1>3 DEF WaitsAt, ReadyAt
  <2>. QED BY <2>1, <2>2
<1>5. \A m : Alive(m)' <=> Alive(m) BY <1>2, <1>4 DEF Alive
<1>. QED BY <1>1, <1>5, OnStreamStill DEF Onward

LEMMA WritesSame ==
    ASSUME queue' = queue, ready' = ready, stream' = stream
    PROVE  Onward /\ \A m : Alive(m)' <=> Alive(m)
<1>1. \A m : Alive(m)' <=> Alive(m) BY DEF Alive
<1>. QED BY <1>1, OnStreamStill DEF Onward

-----------------------------------------------------------------------------
(* Bytes: the parts of BytesInv                                            *)

LEMMA AliveBegun ==
    ASSUME \A s \in Session : WritesPlaced(s), NEW m, Alive(m)
    PROVE  Begun(m)
<1>1. PICK s \in Session : WaitsAt(queue[s], m) \/ ReadyAt(ready[s], m) BY DEF Alive
<1>. QED BY <1>1 DEF WaitsAt, ReadyAt, WritesPlaced, Unfinished, Tried, Begun

LEMMA WholeBegun ==
    ASSUME \A s \in Session : WritesPlaced(s), NEW m, Whole1(m)
    PROVE  Begun(m)
<1>1. 1 \in 1 .. Pieces BY SendAssumption
<1>2. PICK s \in Session : OnStream(s, m, 1) BY <1>1 DEF Whole1
<1>. QED BY <1>2 DEF OnStream, WritesPlaced, Begun

\* Handlers stay apart while no thread begins to handle a message.
LEMMA HandlersStill ==
    ASSUME HandlersApart, Onward,
           \A m : Begun(m) => Begun(m)',
           \A m : Begun(m) /\ Alive(m)' => Alive(m),
           \A t \in Thread : \A m : Handles(t, m)' => Handles(t, m)
    PROVE  HandlersApart'
<1>1. SUFFICES ASSUME NEW t \in Thread, NEW m \in 1 .. MaxSends, Handles(t, m)'
               PROVE  /\ Begun(m)' /\ Whole1(m)' /\ ~Alive(m)'
                      /\ \A u \in Thread : Handles(u, m)' => u = t
  BY DEF HandlersApart
<1>2. /\ Begun(m) /\ Whole1(m) /\ ~Alive(m)
      /\ \A u \in Thread : Handles(u, m) => u = t
  BY <1>1 DEF HandlersApart
<1>3. Whole1(m)' BY <1>2 DEF Whole1, Onward
<1>. QED BY <1>1, <1>2, <1>3

\* A message that is counted stays so.
LEMMA CountedStill ==
    ASSUME \A s \in Session : WritesPlaced(s), Onward,
           \A m : Begun(m) /\ Alive(m)' => Alive(m),
           \A t \in Thread : \A m : Handles(t, m)' /\ ~Alive(m) => Handles(t, m)
    PROVE  Counted \subseteq Counted'
<1>1. SUFFICES ASSUME NEW m \in Counted PROVE m \in Counted' OBVIOUS
<1>2. m \in 1 .. MaxSends /\ Whole1(m) /\ ~Alive(m) /\ \A t \in Thread : ~Handles(t, m)
  BY DEF Counted
<1>3. Whole1(m)' BY <1>2 DEF Whole1, Onward
<1>4. ~Alive(m)' BY <1>2, WholeBegun
<1>. QED BY <1>2, <1>3, <1>4 DEF Counted

LEMMA NumbersFinite ==
    ASSUME NEW S \in SUBSET (1 .. MaxSends)
    PROVE  IsFiniteSet(S) /\ Cardinality(S) \in Nat
<1>1. IsFiniteSet(1 .. MaxSends) BY SendAssumption, FS_Interval
<1>2. IsFiniteSet(S) BY <1>1, FS_Subset
<1>. QED BY <1>2, FS_CardinalityType

LEMMA Times ==
    /\ \A p, a \in Int : p * (a + 1) = p * a + p /\ p * (a - 1) = p * a - p /\ p * a \in Int
    /\ \A p, a, b \in Nat : a <= b => p * a <= p * b
<1>1. ASSUME NEW p \in Nat, NEW a \in Nat, NEW b \in Nat, a <= b PROVE p * a <= p * b
  <2>1. PICK d \in Nat : b = a + d
    <3>1. b - a \in Nat /\ b = a + (b - a) BY <1>1
    <3>. QED BY <3>1
  <2>2. p * b = p * a + p * d BY <2>1
  <2>3. p * d \in Nat /\ p * a \in Int OBVIOUS
  <2>. QED BY <2>2, <2>3
<1>. QED BY <1>1

LEMMA CountedMore ==
    ASSUME Counted \subseteq Counted'
    PROVE  /\ Cardinality(Counted) \in Nat /\ Cardinality(Counted') \in Nat
           /\ Pieces * Cardinality(Counted) \in Nat /\ Pieces * Cardinality(Counted') \in Nat
           /\ Pieces * Cardinality(Counted) <= Pieces * Cardinality(Counted')
<1>1. Counted \in SUBSET (1 .. MaxSends) /\ Counted' \in SUBSET (1 .. MaxSends) BY DEF Counted
<1>2. PICK a, b : a = Cardinality(Counted) /\ b = Cardinality(Counted') OBVIOUS
<1>3. a \in Nat /\ b \in Nat /\ IsFiniteSet(Counted') BY <1>1, <1>2, NumbersFinite
<1>4. a <= b BY <1>2, <1>3, FS_Subset
<1>5. Pieces \in Nat BY SendAssumption
<1>6. Pieces * a <= Pieces * b /\ Pieces * a \in Nat /\ Pieces * b \in Nat
  BY <1>3, <1>4, <1>5, Times
<1>. QED BY <1>2, <1>3, <1>6

\* The sum is not changed, by a step after which no more threads are about to
\* write it.
LEMMA TotalStill ==
    ASSUME TypeOK, TypeOK', TotalBounded, Counted \subseteq Counted', total'.sent = total.sent,
           \A t \in Thread : pc'[t] = "sent" => pc[t] = "sent" /\ tmp'[t] = tmp[t]
    PROVE  TotalBounded'
<1>1. PICK a, b \in Nat : a = Pieces * Cardinality(Counted) /\ b = Pieces * Cardinality(Counted')
  BY CountedMore
<1>2. a <= b BY <1>1, CountedMore
<1>3. total.sent \in Nat /\ \A t \in Thread : tmp[t] \in Int BY DEF TypeOK
<1>4. total.sent <= a /\ \A t \in Thread : pc[t] = "sent" => tmp[t] <= a
  BY <1>1 DEF TotalBounded
<1>5. total'.sent <= b /\ \A t \in Thread : pc'[t] = "sent" => tmp'[t] <= b
  BY <1>2, <1>3, <1>4
<1>. QED BY <1>1, <1>5 DEF TotalBounded

Sending == {"written", "add"}

LEMMA SendersStill ==
    ASSUME SendersApart, \A m : Begun(m) => Begun(m)',
           \A t \in Thread : pc'[t] \in Sending => pc[t] \in Sending /\ call'[t] = call[t]
    PROVE  SendersApart'
BY DEF SendersApart, Sending

\* A step that threads without a sum to update make leaves what is tallied alone.
LEMMA TalliedStill ==
    ASSUME TypeOK, WaitTallied, calm' => calm, up' = up, closed' = closed, wait' = wait,
           calm' => \A s \in Session : \A w \in ready'[s] : w.failed => w \in ready[s],
           \A m : Alive(m)' <=> Alive(m),
           \A t \in Thread :
              \/ pc'[t] = pc[t] /\ call'[t] = call[t] /\ tmp'[t] = tmp[t]
              \/ pc[t] \notin Sending \cup {"subtract"} /\ pc'[t] \notin Sending \cup {"subtract"}
    PROVE  WaitTallied'
<1>1. \A t \in Thread : /\ pc'[t] \in Sending \cup {"subtract"} <=> pc[t] \in Sending \cup {"subtract"}
                        /\ pc[t] \in Sending \cup {"subtract"} =>
                              pc'[t] = pc[t] /\ call'[t] = call[t] /\ tmp'[t] = tmp[t]
  OBVIOUS
<1>2. ToSubtract' = ToSubtract BY <1>1 DEF ToSubtract
<1>3. ToAdd' = ToAdd BY <1>1 DEF ToAdd, Sending
<1>4. \A t \in Thread : Updating(t)' <=> Updating(t) BY <1>1 DEF Updating, Sending
<1>5. SUFFICES ASSUME calm' PROVE WaitTallied' BY DEF WaitTallied
<1>6. /\ \A s \in Session : up[s] /\ ~closed[s] /\ \A w \in ready[s] : ~w.failed
      /\ \A t, u \in Thread : Updating(t) /\ Updating(u) => t = u
      /\ \A t \in Thread :
            /\ pc[t] = "add" => tmp[t] = wait + Pieces
            /\ pc[t] = "subtract" => tmp[t] = wait - Pieces
      /\ wait = Pieces * (Cardinality(ToSubtract) - Cardinality(ToAdd))
  BY <1>5 DEF WaitTallied
<1>7. \A s \in Session : up'[s] /\ ~closed'[s] /\ \A w \in ready'[s] : ~w.failed
  BY <1>5, <1>6
<1>8. \A t, u \in Thread : Updating(t)' /\ Updating(u)' => t = u BY <1>4, <1>6
<1>9. \A t \in Thread :
            /\ pc'[t] = "add" => tmp'[t] = wait' + Pieces
            /\ pc'[t] = "subtract" => tmp'[t] = wait' - Pieces
  BY <1>1, <1>6 DEF Sending
<1>10. wait' = Pieces * (Cardinality(ToSubtract') - Cardinality(ToAdd')) BY <1>2, <1>3, <1>6
<1>. QED BY <1>7, <1>8, <1>9, <1>10 DEF WaitTallied

\* A step that adds to or takes from the messages tallied.
LEMMA TallyMoves ==
    ASSUME NEW S \in SUBSET (1 .. MaxSends), NEW m \in 1 .. MaxSends
    PROVE  /\ m \notin S => Cardinality(S \cup {m}) = Cardinality(S) + 1
           /\ m \in S => Cardinality(S \ {m}) = Cardinality(S) - 1
           /\ Cardinality(S) \in Nat
<1>1. IsFiniteSet(S) /\ Cardinality(S) \in Nat BY NumbersFinite
<1>2. m \notin S => Cardinality(S \cup {m}) = Cardinality(S) + 1 BY <1>1, FS_AddElement
<1>3. m \in S => Cardinality(S \ {m}) = Cardinality(S) - 1 BY <1>1, FS_RemoveElement
<1>. QED BY <1>1, <1>2, <1>3

LEMMA ToNumbers == ToSubtract \in SUBSET (1 .. MaxSends) /\ ToAdd \in SUBSET (1 .. MaxSends)
BY DEF ToSubtract, ToAdd

LEMMA BytesAsyncWrite ==
    ASSUME BytesInv, OrderInv', NEW t \in Thread, AsyncWrite(t)
    PROVE  BytesInv'
<1>1. /\ TypeOK /\ TypeOK' /\ Busy /\ NumbersApart /\ \A s \in Session : InOrder(s)
      /\ HandlersApart /\ SendersApart /\ TotalBounded /\ WaitTallied
  BY DEF BytesInv, OrderInv, TypeInv
<1>2. PICK s \in Session : s = call[t].to
  BY <1>1 DEF AsyncWrite, At, Busy
<1>3. PICK m \in 1 .. MaxSends : m = call[t].msg
  BY <1>1 DEF AsyncWrite, At, Busy
<1>4. PICK w \in Write : w = NewWrite(t)
  <2>1. 0 \in 0 .. Pieces BY SendAssumption
  <2>. QED BY <1>3, <2>1 DEF NewWrite, SendBuf, Write
<1>5. ~w.failed /\ w.pos = 0 /\ w.pos < Pieces /\ w.msg = m
  BY <1>3, <1>4, SendAssumption DEF NewWrite
<1>6. /\ pc[t] = "built" /\ pc' = [pc EXCEPT ![t] = "written"] /\ call' = call /\ calls' = calls
      /\ begun' = [begun EXCEPT ![s] = Append(@, call[t].msg)] /\ up' = up /\ closed' = closed
      /\ Start(s, w, ready[s]) /\ tmp' = tmp /\ wait' = wait /\ total' = total
  BY <1>2, <1>4 DEF AsyncWrite, At, sockets, counters
<1>7. /\ \A r \in Session \ {s} : begun'[r] = begun[r]
      /\ Sent(s)' = Sent(s) \cup {m}
  BY <1>1, <1>3, <1>6, NumbersBegun
<1>8. ~Begun(m) /\ Begun(m)' /\ \A x : Begun(x) => Begun(x)'
  <2>1. ~Begun(m) BY <1>1, <1>3, <1>6 DEF NumbersApart, Begun
  <2>2. \A r \in Session \ {s} : Sent(r)' = Sent(r) BY <1>7 DEF Sent
  <2>. QED BY <1>7, <2>1, <2>2 DEF Begun
<1>9. PICK rest \in SUBSET Write : rest = ready[s] BY <1>1 DEF TypeOK
<1>10. /\ Onward
       /\ \A x : Alive(x)' <=> \/ WaitsAt(queue[s], x) \/ ReadyAt(rest, x) \/ x = w.msg
                               \/ \E r \in Session \ {s} : WaitsAt(queue[r], x) \/ ReadyAt(ready[r], x)
       /\ calm' => /\ calm
                   /\ \A v \in ready'[s] : v.failed => v \in rest
                   /\ \A r \in Session : r # s => ready'[r] = ready[r]
  BY <1>1, <1>5, <1>6, <1>9, StartAlive
<1>11. \A x : Alive(x)' <=> Alive(x) \/ x = m BY <1>5, <1>9, <1>10 DEF Alive
<1>12. \A s1 \in Session : WritesPlaced(s1) BY <1>1 DEF InOrder
<1>13. \A u \in Thread : \A x : Handles(u, x)' => Handles(u, x)
  BY <1>1, <1>6 DEF Handles, TypeOK
<1>14. \A x : Begun(x) /\ Alive(x)' => Alive(x) BY <1>8, <1>11
<1>15. HandlersApart' BY <1>1, <1>8, <1>10, <1>13, <1>14, HandlersStill
<1>16. TotalBounded'
  <2>1. Counted \subseteq Counted' BY <1>10, <1>12, <1>13, <1>14, CountedStill
  <2>. QED BY <1>1, <1>6, <2>1, TotalStill DEF TypeOK
<1>17. SendersApart'
  <2>1. \A u \in Thread \ {t} : pc'[u] = pc[u] /\ call'[u] = call[u] BY <1>1, <1>6 DEF TypeOK
  <2>2. \A u \in Thread \ {t} : pc[u] \in {"written", "add"} => call[u].msg # m
    BY <1>1, <1>8 DEF SendersApart
  <2>. QED BY <1>1, <1>3, <1>6, <1>8, <2>1, <2>2 DEF SendersApart
<1>18. WaitTallied'
  <2>1. SUFFICES ASSUME calm' PROVE WaitTallied' BY DEF WaitTallied
  <2>2. /\ \A r \in Session : up[r] /\ ~closed[r] /\ \A v \in ready[r] : ~v.failed
        /\ \A u, v \in Thread : Updating(u) /\ Updating(v) => u = v
        /\ \A u \in Thread :
              /\ pc[u] = "add" => tmp[u] = wait + Pieces
              /\ pc[u] = "subtract" => tmp[u] = wait - Pieces
        /\ wait = Pieces * (Cardinality(ToSubtract) - Cardinality(ToAdd))
    BY <1>1, <1>10, <2>1 DEF WaitTallied
  <2>3. \A r \in Session : up'[r] /\ ~closed'[r] /\ \A v \in ready'[r] : ~v.failed
    BY <1>6, <1>9, <1>10, <2>1, <2>2
  <2>4. \A u \in Thread : /\ pc'[u] \in {"add", "subtract"} <=> pc[u] \in {"add", "subtract"}
                          /\ u # t => pc'[u] = pc[u]
    BY <1>1, <1>6 DEF TypeOK
  <2>5. \A u, v \in Thread : Updating(u)' /\ Updating(v)' => u = v
    BY <2>2, <2>4 DEF Updating
  <2>6. \A u \in Thread : /\ pc'[u] = "add" => tmp'[u] = wait' + Pieces
                          /\ pc'[u] = "subtract" => tmp'[u] = wait' - Pieces
    BY <1>1, <1>6, <2>2 DEF TypeOK
  <2>7. ToSubtract' = ToSubtract \cup {m} /\ m \notin ToSubtract
    <3>1. \A u \in Thread : pc'[u] = "subtract" <=> pc[u] = "subtract" BY <1>1, <1>6 DEF TypeOK
    <3>2. \A u \in Thread : pc[u] = "subtract" => call[u].msg # m
      BY <1>1, <1>8 DEF HandlersApart, Handles
    <3>3. ~Alive(m) BY <1>8, <1>12, AliveBegun
    <3>4. ToSubtract' = ToSubtract \cup {m} BY <1>6, <1>11, <3>1 DEF ToSubtract
    <3>. QED BY <3>2, <3>3, <3>4 DEF ToSubtract
  <2>8. ToAdd' = ToAdd \cup {m} /\ m \notin ToAdd
    <3>1. pc'[t] = "written" /\ pc[t] = "built" BY <1>1, <1>6 DEF TypeOK
    <3>2. \A u \in Thread : pc[u] \in {"written", "add"} => call[u].msg # m
      BY <1>1, <1>8 DEF SendersApart
    <3>3. m \notin ToAdd BY <3>2 DEF ToAdd
    <3>4. ToAdd' = ToAdd \cup {m} BY <1>3, <1>6, <2>4, <3>1 DEF ToAdd
    <3>. QED BY <3>3, <3>4
  <2>9. /\ Cardinality(ToSubtract') = Cardinality(ToSubtract) + 1
        /\ Cardinality(ToAdd') = Cardinality(ToAdd) + 1
        /\ Cardinality(ToSubtract) \in Nat /\ Cardinality(ToAdd) \in Nat
    BY <2>7, <2>8, ToNumbers, TallyMoves
  <2>10. Cardinality(ToSubtract') - Cardinality(ToAdd') = Cardinality(ToSubtract) - Cardinality(ToAdd)
    BY <2>9
  <2>11. wait' = Pieces * (Cardinality(ToSubtract') - Cardinality(ToAdd')) BY <1>6, <2>2, <2>10
  <2>. QED BY <2>3, <2>5, <2>6, <2>11 DEF WaitTallied
<1>. QED BY <1>15, <1>16, <1>17, <1>18 DEF BytesInv

LEMMA BytesHandleWrite ==
    ASSUME BytesInv, OrderInv', NEW t \in Thread, NEW s \in Session, HandleWrite(t, s)
    PROVE  BytesInv'
<1>1. /\ TypeOK /\ TypeOK' /\ Busy /\ NumbersApart /\ \A r \in Session : InOrder(r)
      /\ HandlersApart /\ SendersApart /\ TotalBounded /\ WaitTallied
  BY DEF BytesInv, OrderInv, TypeInv
<1>2. PICK w \in ready[s] :
        /\ Complete(w)
        /\ ready' = [ready EXCEPT ![s] = @ \ {w}]
        /\ call' = [call EXCEPT ![t] = [to |-> s, msg |-> w.msg]]
        /\ pc[t] = "idle"
        /\ pc' = [pc EXCEPT ![t] = IF Outcome(w) = "subtract" THEN "subtract" ELSE "discarded"]
        /\ tmp' = [tmp EXCEPT ![t] = IF Outcome(w) = "subtract" THEN wait - Pieces
                                     ELSE total.discarded + Pieces]
  BY DEF HandleWrite, At
<1>3. /\ queue' = queue /\ stream' = stream /\ begun' = begun /\ wait' = wait /\ total' = total
      /\ up' = up /\ closed' = closed /\ calm' = (calm /\ ~WaitUpdating(t))
  BY DEF HandleWrite, sockets, counters
<1>4. w \in Write /\ Tried(s, w) BY <1>1 DEF TypeOK, InOrder, WritesPlaced
<1>5. PICK m \in 1 .. MaxSends : m = w.msg BY <1>4 DEF Write
<1>6. Begun(m) /\ Alive(m) BY <1>4, <1>5 DEF Tried, Begun, Alive, ReadyAt
<1>7. \A x : Begun(x)' <=> Begun(x) BY <1>3 DEF Begun, Sent
<1>8. ready'[s] = ready[s] \ {w} /\ \A r \in Session : r # s => ready'[r] = ready[r]
  BY <1>1, <1>2 DEF TypeOK
<1>9. \A x : Alive(x)' => Alive(x) BY <1>3, <1>8 DEF Alive, ReadyAt
<1>10. ~Alive(m)'
  <2>1. SUFFICES ASSUME NEW r \in Session, WaitsAt(queue[r], m) \/ ReadyAt(ready'[r], m)
                 PROVE  FALSE
    BY <1>3 DEF Alive
  <2>2. CASE r = s
    BY <1>1, <1>5, <1>8, <2>1, <2>2 DEF InOrder, OneWrite, WaitsAt, ReadyAt
  <2>3. CASE r # s
    <3>1. m \in Sent(r)
      BY <1>1, <1>8, <2>1, <2>3 DEF InOrder, WritesPlaced, Unfinished, Tried, WaitsAt, ReadyAt
    <3>2. m \in Sent(s) BY <1>4, <1>5 DEF Tried
    <3>. QED BY <1>1, <2>3, <3>1, <3>2 DEF NumbersApart, Sent
  <2>. QED BY <2>2, <2>3
<1>11. \A x : x # m /\ Alive(x) => Alive(x)'
  <2>1. SUFFICES ASSUME NEW x, x # m, NEW r \in Session, WaitsAt(queue[r], x) \/ ReadyAt(ready[r], x)
                 PROVE  WaitsAt(queue[r], x) \/ ReadyAt(ready'[r], x)
    BY <1>3 DEF Alive
  <2>. QED BY <1>5, <1>8, <2>1 DEF ReadyAt
<1>12. Onward BY <1>3, OnStreamStill DEF Onward
<1>13. /\ \A u \in Thread \ {t} : pc'[u] = pc[u] /\ call'[u] = call[u] /\ tmp'[u] = tmp[u]
       /\ call'[t].msg = m
       /\ pc'[t] = IF Outcome(w) = "subtract" THEN "subtract" ELSE "discarded"
       /\ tmp'[t] = IF Outcome(w) = "subtract" THEN wait - Pieces ELSE total.discarded + Pieces
  BY <1>1, <1>2, <1>5 DEF TypeOK
<1>14. \A u \in Thread : \A x : Handles(u, x)' => Handles(u, x) \/ (u = t /\ x = m /\ ~w.failed)
  BY <1>13 DEF Handles, Outcome
<1>15. HandlersApart'
  <2>1. \A u \in Thread : ~Handles(u, m) BY <1>1, <1>6 DEF HandlersApart
  <2>2. SUFFICES ASSUME NEW u \in Thread, NEW x \in 1 .. MaxSends, Handles(u, x)'
                 PROVE  /\ Begun(x)' /\ Whole1(x)' /\ ~Alive(x)'
                        /\ \A v \in Thread : Handles(v, x)' => v = u
    BY DEF HandlersApart
  <2>3. CASE x = m
    <3>1. ~w.failed /\ u = t BY <1>14, <2>1, <2>2, <2>3
    <3>2. Placed(s, w) /\ w.pos = Pieces BY <1>2, <1>4, <3>1 DEF Complete, Tried
    <3>3. \A p \in 1 .. Pieces : OnStream(s, m, p) BY <1>5, <3>2 DEF Placed
    <3>4. Whole1(m)' BY <1>12, <3>3 DEF Whole1, Onward
    <3>. QED BY <1>6, <1>7, <1>10, <1>14, <2>1, <2>3, <3>1, <3>4
  <2>4. CASE x # m
    <3>1. Handles(u, x) BY <1>14, <2>2, <2>4
    <3>2. Begun(x) /\ Whole1(x) /\ ~Alive(x) /\ \A v \in Thread : Handles(v, x) => v = u
      BY <1>1, <3>1 DEF HandlersApart
    <3>3. Whole1(x)' BY <1>12, <3>2 DEF Whole1, Onward
    <3>. QED BY <1>7, <1>9, <1>14, <2>4, <3>2, <3>3
  <2>. QED BY <2>3, <2>4
<1>16. TotalBounded'
  <2>1. \A u \in Thread : \A x : Handles(u, x)' /\ ~Alive(x) => Handles(u, x) BY <1>6, <1>14
  <2>2. \A r \in Session : WritesPlaced(r) BY <1>1 DEF InOrder
  <2>3. Counted \subseteq Counted' BY <1>9, <1>12, <2>1, <2>2, CountedStill
  <2>. QED BY <1>1, <1>3, <1>13, <2>3, TotalStill
<1>17. SendersApart' BY <1>1, <1>7, <1>13, SendersStill DEF Sending
<1>18. WaitTallied'
  <2>1. SUFFICES ASSUME calm' PROVE WaitTallied' BY DEF WaitTallied
  <2>2. /\ \A r \in Session : up[r] /\ ~closed[r] /\ \A v \in ready[r] : ~v.failed
        /\ wait = Pieces * (Cardinality(ToSubtract) - Cardinality(ToAdd))
    BY <1>1, <1>3, <2>1 DEF WaitTallied
  <2>3. \A u \in Thread \ {t} : pc[u] \notin {"add", "subtract"} BY <1>3, <2>1 DEF WaitUpdating
  <2>4. ~w.failed BY <2>2
  <2>5. pc'[t] = "subtract" /\ tmp'[t] = wait' - Pieces BY <1>3, <1>13, <2>4 DEF Outcome
  <2>6. \A r \in Session : up'[r] /\ ~closed'[r] /\ \A v \in ready'[r] : ~v.failed
    BY <1>3, <1>8, <2>2
  <2>7. /\ \A u, v \in Thread : Updating(u)' /\ Updating(v)' => u = v
        /\ \A u \in Thread : /\ pc'[u] = "add" => tmp'[u] = wait' + Pieces
                             /\ pc'[u] = "subtract" => tmp'[u] = wait' - Pieces
    BY <1>13, <2>3, <2>5 DEF Updating
  <2>8. ToSubtract' = ToSubtract
    <3>1. \A x : Alive(x) <=> Alive(x)' \/ x = m BY <1>6, <1>9, <1>11
    <3>2. \A u \in Thread : pc[u] # "subtract" BY <1>2, <2>3
    <3>3. \A x : (\E u \in Thread : pc'[u] = "subtract" /\ call'[u].msg = x) <=> x = m
      BY <1>13, <2>5, <3>2
    <3>. QED BY <3>1, <3>2, <3>3 DEF ToSubtract
  <2>9. ToAdd' = ToAdd
    <3>1. \A u \in Thread : /\ pc'[u] \in {"written", "add"} <=> pc[u] \in {"written", "add"}
                            /\ pc'[u] \in {"written", "add"} => call'[u] = call[u]
      BY <1>2, <1>13
    <3>. QED BY <3>1 DEF ToAdd
  <2>. QED BY <1>3, <2>2, <2>6, <2>7, <2>8, <2>9 DEF WaitTallied
<1>. QED BY <1>15, <1>16, <1>17, <1>18 DEF BytesInv

LEMMA BytesInit == Init => BytesInv
<1> SUFFICES ASSUME Init PROVE BytesInv OBVIOUS
<1>1. OrderInv BY OrderInit
<1>2. /\ \A t \in Thread : pc[t] = "idle"
      /\ \A s \in Session : up[s] /\ ~closed[s] /\ queue[s] = <<>> /\ ready[s] = {}
      /\ wait = 0 /\ total.sent = 0
  BY DEF Init
<1>3. HandlersApart BY <1>2 DEF HandlersApart, Handles
<1>4. SendersApart BY <1>2 DEF SendersApart
<1>5. TotalBounded
  <2>1. Counted \subseteq 1 .. MaxSends BY DEF Counted
  <2>2. PICK c \in Nat : c = Cardinality(Counted) BY <2>1, NumbersFinite
  <2>3. Pieces \in Nat /\ 0 <= Pieces * c BY <2>2, SendAssumption, Times
  <2>. QED BY <1>2, <2>2, <2>3 DEF TotalBounded
<1>6. WaitTallied
  <2>1. \A m : ~Alive(m)
    <3>1. \A s \in Session : DOMAIN queue[s] = {} BY <1>2
    <3>. QED BY <1>2, <3>1 DEF Alive, WaitsAt, ReadyAt
  <2>2. ToSubtract = {} /\ ToAdd = {} BY <1>2, <2>1 DEF ToSubtract, ToAdd
  <2>3. Cardinality(ToSubtract) = 0 /\ Cardinality(ToAdd) = 0 BY <2>2, FS_EmptySet
  <2>4. Pieces * (0 - 0) = 0 BY SendAssumption
  <2>5. wait = Pieces * (Cardinality(ToSubtract) - Cardinality(ToAdd)) BY <1>2, <2>3, <2>4
  <2>. QED BY <1>2, <2>5 DEF WaitTallied, Updating
<1>. QED BY <1>1, <1>3, <1>4, <1>5, <1>6 DEF BytesInv

LEMMA BytesStep == BytesInv /\ [Next]_vars => BytesInv'
<1> SUFFICES ASSUME BytesInv, [Next]_vars PROVE BytesInv' OBVIOUS
<1>1. /\ TypeOK /\ Busy /\ NumbersApart /\ \A s \in Session : InOrder(s)
      /\ HandlersApart /\ SendersApart /\ TotalBounded /\ WaitTallied
  BY DEF BytesInv, OrderInv, TypeInv
<1>2. OrderInv' /\ TypeOK'
  <2>1. OrderInv' BY OrderStep DEF BytesInv
  <2>. QED BY <2>1 DEF OrderInv, TypeInv
<1>3. \A s \in Session : WritesPlaced(s) BY <1>1 DEF InOrder
\* The handlers after a step that neither begins a write nor a handler.
<1>4. ASSUME Onward, begun' = begun, \A m : Alive(m)' => Alive(m),
             \A t \in Thread : \A m : Handles(t, m)' => Handles(t, m)
      PROVE  HandlersApart' /\ Counted \subseteq Counted'
  <2>1. \A m : Begun(m) => Begun(m)' BY <1>4 DEF Begun, Sent
  <2>2. HandlersApart' BY <1>1, <1>4, <2>1, HandlersStill
  <2>3. Counted \subseteq Counted' BY <1>3, <1>4, CountedStill
  <2>. QED BY <2>2, <2>3
\* A step of the socket: no thread moves.
<1>5. ASSUME Onward, begun' = begun, \A m : Alive(m)' => Alive(m),
             pc' = pc, call' = call, tmp' = tmp, total' = total, WaitTallied'
      PROVE  BytesInv'
  <2>1. HandlersApart' /\ Counted \subseteq Counted' BY <1>4, <1>5 DEF Handles
  <2>2. TotalBounded' BY <1>1, <1>2, <1>5, <2>1, TotalStill
  <2>3. SendersApart' BY <1>1, <1>5, SendersStill DEF Begun, Sent
  <2>. QED BY <1>2, <1>5, <2>1, <2>2, <2>3 DEF BytesInv
\* A step of thread t alone.
<1>6. ASSUME NEW t \in Thread, queue' = queue, ready' = ready, stream' = stream, begun' = begun,
             pc'[t] \in {"subtract", "count"} =>
                pc[t] \in {"subtract", "count"} /\ call'[t] = call[t],
             pc'[t] \in Sending => pc[t] \in Sending /\ call'[t] = call[t],
             \A u \in Thread \ {t} : pc'[u] = pc[u] /\ call'[u] = call[u]
      PROVE  /\ HandlersApart' /\ Counted \subseteq Counted' /\ SendersApart'
             /\ \A m : Alive(m)' <=> Alive(m)
  <2>1. Onward /\ \A m : Alive(m)' <=> Alive(m) BY <1>6, WritesSame
  <2>2. \A u \in Thread : \A m : Handles(u, m)' => Handles(u, m) BY <1>6 DEF Handles
  <2>3. HandlersApart' /\ Counted \subseteq Counted' BY <1>4, <1>6, <2>1, <2>2
  <2>4. SendersApart' BY <1>1, <1>6, SendersStill DEF Begun, Sent
  <2>. QED BY <2>1, <2>3, <2>4
<1>7. ASSUME NEW t \in Thread, NEW s \in Session, Send(t, s) PROVE BytesInv'
  <2>1. /\ queue' = queue /\ ready' = ready /\ stream' = stream /\ begun' = begun /\ calm' = calm
        /\ up' = up /\ closed' = closed /\ wait' = wait /\ total' = total /\ tmp' = tmp
        /\ pc[t] = "idle" /\ pc' = [pc EXCEPT ![t] = "built"]
        /\ call' = [call EXCEPT ![t] = [to |-> s, msg |-> calls + 1]]
    BY <1>7 DEF Send, At, sockets, writes, counters
  <2>2. pc'[t] = "built" /\ \A u \in Thread \ {t} : pc'[u] = pc[u] /\ call'[u] = call[u]
    BY <1>1, <2>1 DEF TypeOK
  <2>3. /\ HandlersApart' /\ Counted \subseteq Counted' /\ SendersApart'
        /\ \A m : Alive(m)' <=> Alive(m)
    BY <1>6, <2>1, <2>2 DEF Sending
  <2>4. TotalBounded' BY <1>1, <1>2, <2>1, <2>2, <2>3, TotalStill
  <2>5. WaitTallied' BY <1>1, <2>1, <2>2, <2>3, TalliedStill DEF Sending
  <2>. QED BY <1>2, <2>3, <2>4, <2>5 DEF BytesInv
<1>8. ASSUME NEW t \in Thread, ReadWait(t) PROVE BytesInv'
  <2>1. /\ queue' = queue /\ ready' = ready /\ stream' = stream /\ begun' = begun
        /\ calm' = (calm /\ ~WaitUpdating(t))
        /\ up' = up /\ closed' = closed /\ wait' = wait /\ total' = total
        /\ tmp' = [tmp EXCEPT ![t] = wait + Pieces]
        /\ pc[t] = "written" /\ pc' = [pc EXCEPT ![t] = "add"] /\ call' = call
    BY <1>8 DEF ReadWait, At, sockets, writes, counters
  <2>2. pc'[t] = "add" /\ tmp'[t] = wait + Pieces
        /\ \A u \in Thread \ {t} : pc'[u] = pc[u] /\ tmp'[u] = tmp[u]
    BY <1>1, <2>1 DEF TypeOK
  <2>3. /\ HandlersApart' /\ Counted \subseteq Counted' /\ SendersApart'
        /\ \A m : Alive(m)' <=> Alive(m)
    BY <1>6, <2>1, <2>2 DEF Sending
  <2>4. TotalBounded' BY <1>1, <1>2, <2>1, <2>2, <2>3, TotalStill
  <2>5. WaitTallied'
    <3>1. SUFFICES ASSUME calm' PROVE WaitTallied' BY DEF WaitTallied
    <3>2. \A u \in Thread \ {t} : pc[u] \notin {"add", "subtract"} BY <2>1, <3>1 DEF WaitUpdating
    <3>3. /\ \A u, v \in Thread : Updating(u)' /\ Updating(v)' => u = v
          /\ \A u \in Thread : /\ pc'[u] = "add" => tmp'[u] = wait' + Pieces
                               /\ pc'[u] = "subtract" => tmp'[u] = wait' - Pieces
      BY <2>1, <2>2, <3>2 DEF Updating
    <3>4. ToSubtract' = ToSubtract BY <2>1, <2>2, <2>3 DEF ToSubtract
    <3>5. ToAdd' = ToAdd BY <2>1, <2>2 DEF ToAdd
    <3>. QED BY <1>1, <2>1, <3>1, <3>3, <3>4, <3>5 DEF WaitTallied
  <2>. QED BY <1>2, <2>3, <2>4, <2>5 DEF BytesInv
<1>9. ASSUME NEW t \in Thread, AddToWait(t) PROVE BytesInv'
  <2>1. /\ queue' = queue /\ ready' = ready /\ stream' = stream /\ begun' = begun /\ calm' = calm
        /\ up' = up /\ closed' = closed /\ wait' = tmp[t] /\ total' = total
        /\ tmp' = [tmp EXCEPT ![t] = 0]
        /\ pc[t] = "add" /\ pc' = [pc EXCEPT ![t] = "idle"] /\ call' = [call EXCEPT ![t] = NoCall]
    BY <1>9 DEF AddToWait, At, sockets, writes, history
  <2>2. pc'[t] = "idle"
        /\ \A u \in Thread \ {t} : pc'[u] = pc[u] /\ tmp'[u] = tmp[u] /\ call'[u] = call[u]
    BY <1>1, <2>1 DEF TypeOK
  <2>3. /\ HandlersApart' /\ Counted \subseteq Counted' /\ SendersApart'
        /\ \A m : Alive(m)' <=> Alive(m)
    BY <1>6, <2>1, <2>2 DEF Sending
  <2>4. TotalBounded' BY <1>1, <1>2, <2>1, <2>2, <2>3, TotalStill
  <2>5. WaitTallied'
    <3>1. SUFFICES ASSUME calm' PROVE WaitTallied' BY DEF WaitTallied
    <3>2. /\ \A r \in Session : up[r] /\ ~closed[r] /\ \A v \in ready[r] : ~v.failed
          /\ \A u, v \in Thread : Updating(u) /\ Updating(v) => u = v
          /\ tmp[t] = wait + Pieces
          /\ wait = Pieces * (Cardinality(ToSubtract) - Cardinality(ToAdd))
      BY <1>1, <2>1, <3>1 DEF WaitTallied
    <3>3. \A u \in Thread : ~Updating(u)' BY <2>1, <2>2, <3>2 DEF Updating
    <3>4. ToSubtract' = ToSubtract BY <2>1, <2>2, <2>3 DEF ToSubtract
    <3>5. PICK m \in 1 .. MaxSends : m = call[t].msg BY <1>1, <2>1 DEF Busy
    <3>6. \A u \in Thread \ {t} : pc[u] \in {"written", "add"} => call[u].msg # m
      BY <1>1, <2>1, <3>5 DEF SendersApart
    <3>7. ToAdd' = ToAdd \ {m} /\ m \in ToAdd BY <2>1, <2>2, <3>5, <3>6 DEF ToAdd
    <3>8. /\ Cardinality(ToAdd') = Cardinality(ToAdd) - 1
          /\ Cardinality(ToSubtract) \in Nat /\ Cardinality(ToAdd) \in Nat
      BY <3>7, ToNumbers, TallyMoves
    <3>9. PICK d \in Int : d = Cardinality(ToSubtract) - Cardinality(ToAdd) BY <3>8
    <3>10. Cardinality(ToSubtract') - Cardinality(ToAdd') = d + 1 BY <3>4, <3>8, <3>9
    <3>11. Pieces * (d + 1) = Pieces * d + Pieces BY <3>9, SendAssumption, Times
    <3>12. wait' = Pieces * (Cardinality(ToSubtract') - Cardinality(ToAdd'))
      BY <2>1, <3>2, <3>9, <3>10, <3>11
    <3>13. \A u \in Thread : pc'[u] \notin {"add", "subtract"} BY <3>3 DEF Updating
    <3>. QED BY <2>1, <3>2, <3>3, <3>12, <3>13 DEF WaitTallied
  <2>. QED BY <1>2, <2>3, <2>4, <2>5 DEF BytesInv
<1>10. ASSUME NEW t \in Thread, SubtractFromWait(t) PROVE BytesInv'
  <2>1. /\ queue' = queue /\ ready' = ready /\ stream' = stream /\ begun' = begun /\ calm' = calm
        /\ up' = up /\ closed' = closed /\ wait' = tmp[t] /\ total' = total
        /\ tmp' = [tmp EXCEPT ![t] = 0]
        /\ pc[t] = "subtract" /\ pc' = [pc EXCEPT ![t] = "count"] /\ call' = call
    BY <1>10 DEF SubtractFromWait, At, sockets, writes, history
  <2>2. pc'[t] = "count" /\ \A u \in Thread \ {t} : pc'[u] = pc[u] /\ tmp'[u] = tmp[u]
    BY <1>1, <2>1 DEF TypeOK
  <2>3. /\ HandlersApart' /\ Counted \subseteq Counted' /\ SendersApart'
        /\ \A m : Alive(m)' <=> Alive(m)
    BY <1>6, <2>1, <2>2 DEF Sending
  <2>4. TotalBounded' BY <1>1, <1>2, <2>1, <2>2, <2>3, TotalStill
  <2>5. WaitTallied'
    <3>1. SUFFICES ASSUME calm' PROVE WaitTallied' BY DEF WaitTallied
    <3>2. /\ \A r \in Session : up[r] /\ ~closed[r] /\ \A v \in ready[r] : ~v.failed
          /\ \A u, v \in Thread : Updating(u) /\ Updating(v) => u = v
          /\ tmp[t] = wait - Pieces
          /\ wait = Pieces * (Cardinality(ToSubtract) - Cardinality(ToAdd))
      BY <1>1, <2>1, <3>1 DEF WaitTallied
    <3>3. \A u \in Thread : ~Updating(u)' BY <2>1, <2>2, <3>2 DEF Updating
    <3>4. ToAdd' = ToAdd
      <4>1. \A u \in Thread : pc'[u] \in {"written", "add"} <=> pc[u] \in {"written", "add"}
        BY <2>1, <2>2
      <4>2. \A u \in Thread : call'[u] = call[u] BY <2>1
      <4>. QED BY <4>1, <4>2 DEF ToAdd
    <3>5. PICK m \in 1 .. MaxSends : m = call[t].msg BY <1>1, <2>1 DEF Busy
    <3>6. ~Alive(m) /\ \A u \in Thread \ {t} : pc[u] = "subtract" => call[u].msg # m
      <4>1. Handles(t, m) BY <2>1, <3>5 DEF Handles
      <4>. QED BY <1>1, <4>1 DEF HandlersApart, Handles
    <3>7. ToSubtract' = ToSubtract \ {m} /\ m \in ToSubtract
      BY <2>1, <2>2, <2>3, <3>5, <3>6 DEF ToSubtract
    <3>8. /\ Cardinality(ToSubtract') = Cardinality(ToSubtract) - 1
          /\ Cardinality(ToSubtract) \in Nat /\ Cardinality(ToAdd) \in Nat
      BY <3>7, ToNumbers, TallyMoves
    <3>9. PICK d \in Int : d = Cardinality(ToSubtract) - Cardinality(ToAdd) BY <3>8
    <3>10. Cardinality(ToSubtract') - Cardinality(ToAdd') = d - 1 BY <3>4, <3>8, <3>9
    <3>11. Pieces * (d - 1) = Pieces * d - Pieces BY <3>9, SendAssumption, Times
    <3>12. wait' = Pieces * (Cardinality(ToSubtract') - Cardinality(ToAdd'))
      BY <2>1, <3>2, <3>9, <3>10, <3>11
    <3>13. \A u \in Thread : pc'[u] \notin {"add", "subtract"} BY <3>3 DEF Updating
    <3>. QED BY <2>1, <3>2, <3>3, <3>12, <3>13 DEF WaitTallied
  <2>. QED BY <1>2, <2>3, <2>4, <2>5 DEF BytesInv
<1>11. ASSUME NEW t \in Thread, ReadTotal(t) PROVE BytesInv'
  <2>1. /\ queue' = queue /\ ready' = ready /\ stream' = stream /\ begun' = begun /\ calm' = calm
        /\ up' = up /\ closed' = closed /\ wait' = wait /\ total' = total
        /\ tmp' = [tmp EXCEPT ![t] = total.sent + Pieces]
        /\ pc[t] = "count" /\ pc' = [pc EXCEPT ![t] = "sent"] /\ call' = call
    BY <1>11 DEF ReadTotal, At, sockets, writes, counters, history
  <2>2. pc'[t] = "sent" /\ tmp'[t] = total.sent + Pieces
        /\ \A u \in Thread \ {t} : pc'[u] = pc[u] /\ tmp'[u] = tmp[u]
    BY <1>1, <2>1 DEF TypeOK
  <2>3. /\ HandlersApart' /\ Counted \subseteq Counted' /\ SendersApart'
        /\ \A m : Alive(m)' <=> Alive(m)
    BY <1>6, <2>1, <2>2 DEF Sending
  <2>4. PICK m \in 1 .. MaxSends : m = call[t].msg BY <1>1, <2>1 DEF Busy
  <2>5. Handles(t, m) BY <2>1, <2>4 DEF Handles
  <2>6. m \notin Counted BY <2>5 DEF Counted
  <2>7. m \in Counted'
    <3>1. Whole1(m) /\ ~Alive(m) /\ \A u \in Thread : Handles(u, m) => u = t
      BY <1>1, <2>5 DEF HandlersApart
    <3>2. Whole1(m)' BY <2>1, <3>1 DEF Whole1, OnStream
    <3>3. \A u \in Thread : ~Handles(u, m)'
      <4>1. ~Handles(t, m)' BY <2>2 DEF Handles
      <4>2. \A u \in Thread \ {t} : Handles(u, m)' => Handles(u, m) BY <2>1, <2>2 DEF Handles
      <4>. QED BY <3>1, <4>1, <4>2
    <3>. QED BY <2>3, <3>1, <3>2, <3>3 DEF Counted
  <2>8. TotalBounded'
    <3>1. Counted \subseteq 1 .. MaxSends /\ Counted' \subseteq 1 .. MaxSends BY DEF Counted
    <3>2. PICK a, b \in Nat : a = Cardinality(Counted) /\ b = Cardinality(Counted')
      BY <3>1, NumbersFinite
    <3>3. a + 1 <= b
      <4>1. Cardinality(Counted \cup {m}) = a + 1 BY <2>6, <3>1, <3>2, TallyMoves
      <4>2. Counted \cup {m} \subseteq Counted' BY <2>3, <2>7
      <4>3. IsFiniteSet(Counted') BY <3>1, NumbersFinite
      <4>. QED BY <3>2, <4>1, <4>2, <4>3, FS_Subset
    <3>4. Pieces \in Nat /\ a + 1 \in Nat BY SendAssumption
    <3>5. /\ Pieces * (a + 1) = Pieces * a + Pieces /\ Pieces * a \in Int
          /\ Pieces * (a + 1) <= Pieces * b /\ Pieces * b \in Int
      <4>1. PICK p, e \in Nat : p = Pieces /\ e = a + 1 BY <3>4
      <4>2. p * e <= p * b BY <3>3, <4>1, Times
      <4>3. p * (a + 1) = p * a + p /\ p * a \in Int /\ p * b \in Int BY Times
      <4>. QED BY <4>1, <4>2, <4>3
    <3>6. PICK x, y \in Int : x = Pieces * a /\ y = Pieces * b BY <3>5
    <3>7. x + Pieces <= y BY <3>5, <3>6
    <3>8. total.sent <= x /\ \A u \in Thread : pc[u] = "sent" => tmp[u] <= x
      BY <1>1, <3>2, <3>6 DEF TotalBounded
    <3>9. total.sent \in Nat /\ \A u \in Thread : tmp[u] \in Int BY <1>1 DEF TypeOK
    <3>10. total'.sent <= y /\ \A u \in Thread : pc'[u] = "sent" => tmp'[u] <= y
      BY <2>1, <2>2, <3>4, <3>7, <3>8, <3>9
    <3>. QED BY <3>2, <3>6, <3>10 DEF TotalBounded
  <2>9. WaitTallied' BY <1>1, <2>1, <2>2, <2>3, TalliedStill DEF Sending
  <2>. QED BY <1>2, <2>3, <2>8, <2>9 DEF BytesInv
<1>12. ASSUME NEW t \in Thread, AddToTotal(t) PROVE BytesInv'
  <2>1. PICK sum \in {"sent", "discarded"} :
          pc[t] = sum /\ pc' = [pc EXCEPT ![t] = "idle"] /\ total' = [total EXCEPT ![sum] = tmp[t]]
    BY <1>12 DEF AddToTotal, At
  <2>2. /\ queue' = queue /\ ready' = ready /\ stream' = stream /\ begun' = begun /\ calm' = calm
        /\ up' = up /\ closed' = closed /\ wait' = wait
        /\ tmp' = [tmp EXCEPT ![t] = 0] /\ call' = [call EXCEPT ![t] = NoCall]
    BY <1>12 DEF AddToTotal, sockets, writes, history
  <2>3. pc'[t] = "idle"
        /\ \A u \in Thread \ {t} : pc'[u] = pc[u] /\ tmp'[u] = tmp[u] /\ call'[u] = call[u]
    BY <1>1, <2>1, <2>2 DEF TypeOK
  <2>4. /\ HandlersApart' /\ Counted \subseteq Counted' /\ SendersApart'
        /\ \A m : Alive(m)' <=> Alive(m)
    BY <1>6, <2>2, <2>3 DEF Sending
  <2>5. TotalBounded'
    <3>1. PICK a, b \in Nat : a = Pieces * Cardinality(Counted) /\ b = Pieces * Cardinality(Counted')
      BY <2>4, CountedMore
    <3>2. a <= b BY <2>4, <3>1, CountedMore
    <3>3. total.sent <= a /\ \A u \in Thread : pc[u] = "sent" => tmp[u] <= a
      BY <1>1, <3>1 DEF TotalBounded
    <3>4. total.sent \in Nat /\ \A u \in Thread : tmp[u] \in Int BY <1>1 DEF TypeOK
    <3>5. total'.sent = IF sum = "sent" THEN tmp[t] ELSE total.sent BY <1>1, <2>1 DEF TypeOK
    <3>6. total'.sent <= b BY <2>1, <3>2, <3>3, <3>4, <3>5
    <3>7. \A u \in Thread : pc'[u] = "sent" => tmp'[u] <= b BY <2>3, <3>2, <3>3, <3>4
    <3>. QED BY <3>1, <3>6, <3>7 DEF TotalBounded
  <2>6. WaitTallied' BY <1>1, <2>1, <2>2, <2>3, <2>4, TalliedStill DEF Sending
  <2>. QED BY <1>2, <2>4, <2>5, <2>6 DEF BytesInv
<1>13. ASSUME NEW t \in Thread, StackReused(t) PROVE BytesInv'
  <2>1. /\ queue' = queue /\ ready' = ready /\ stream' = stream /\ begun' = begun /\ calm' = calm
        /\ up' = up /\ closed' = closed /\ wait' = wait /\ total' = total
        /\ pc' = pc /\ call' = call /\ tmp' = tmp
    BY <1>13 DEF StackReused, sockets, writes, counters, history
  <2>2. Onward /\ \A m : Alive(m)' <=> Alive(m) BY <2>1, WritesSame
  <2>3. WaitTallied' BY <1>1, <2>1, <2>2, TalliedStill
  <2>. QED BY <1>5, <2>1, <2>2, <2>3
<1>14. ASSUME NEW s \in Session, WriteOn(s) PROVE BytesInv'
  <2>1. PICK w \in ready[s] : ~w.failed /\ w.pos < Pieces /\ Start(s, w, ready[s] \ {w})
    BY <1>14 DEF WriteOn
  <2>2. /\ begun' = begun /\ pc' = pc /\ call' = call /\ tmp' = tmp /\ total' = total
        /\ wait' = wait /\ up' = up /\ closed' = closed
    BY <1>14 DEF WriteOn, sockets, threads, counters
  <2>3. w \in Write BY <1>1 DEF TypeOK
  <2>4. PICK rest \in SUBSET Write : rest = ready[s] \ {w} BY <1>1 DEF TypeOK
  <2>5. /\ Onward
        /\ \A m : Alive(m)' <=> \/ WaitsAt(queue[s], m) \/ ReadyAt(rest, m) \/ m = w.msg
                                \/ \E r \in Session \ {s} : WaitsAt(queue[r], m) \/ ReadyAt(ready[r], m)
        /\ calm' => /\ calm
                    /\ \A v \in ready'[s] : v.failed => v \in rest
                    /\ \A r \in Session : r # s => ready'[r] = ready[r]
    BY <1>1, <2>1, <2>3, <2>4, StartAlive
  <2>6. \A m : ReadyAt(ready[s], m) <=> ReadyAt(rest, m) \/ m = w.msg BY <2>4 DEF ReadyAt
  <2>7. \A m : Alive(m)' <=> Alive(m) BY <2>5, <2>6 DEF Alive
  <2>8. WaitTallied' BY <1>1, <2>2, <2>4, <2>5, <2>7, TalliedStill
  <2>. QED BY <1>5, <2>2, <2>5, <2>7, <2>8
<1>15. ASSUME NEW s \in Session, KernelTakes(s) PROVE BytesInv'
  <2>1. /\ begun' = begun /\ pc' = pc /\ call' = call /\ tmp' = tmp /\ total' = total
        /\ wait' = wait /\ up' = up /\ closed' = closed
    BY <1>15 DEF KernelTakes, sockets, threads, counters, history
  <2>2. /\ Onward /\ calm' = calm
        /\ \A m : Alive(m)' <=> Alive(m)
        /\ \A r \in Session : \A v \in ready'[r] : v.failed => v \in ready[r]
    BY <1>1, <1>15, KernelAlive
  <2>3. WaitTallied' BY <1>1, <2>1, <2>2, TalliedStill
  <2>. QED BY <1>5, <2>1, <2>2, <2>3
<1>16. ASSUME NEW s \in Session, Die(s) PROVE BytesInv'
  <2>1. begun' = begun /\ pc' = pc /\ call' = call /\ tmp' = tmp /\ total' = total /\ ~calm'
    BY <1>16 DEF Die, threads, counters
  <2>2. Onward /\ \A m : Alive(m)' <=> Alive(m) BY <1>1, <1>16, DieAlive
  <2>3. WaitTallied' BY <2>1 DEF WaitTallied
  <2>. QED BY <1>5, <2>1, <2>2, <2>3
<1>17. ASSUME NEW s \in Session, ExitMark(s) PROVE BytesInv'
  <2>1. /\ begun' = begun /\ pc' = pc /\ call' = call /\ tmp' = tmp /\ total' = total /\ ~calm'
        /\ queue' = queue /\ ready' = ready /\ stream' = stream
    BY <1>17 DEF ExitMark, threads, writes, counters
  <2>2. Onward /\ \A m : Alive(m)' <=> Alive(m) BY <2>1, WritesSame
  <2>3. WaitTallied' BY <2>1 DEF WaitTallied
  <2>. QED BY <1>5, <2>1, <2>2, <2>3
<1>18. ASSUME NEW s \in Session, HandleWriteClosed(s) PROVE BytesInv'
  <2>1. /\ begun' = begun /\ pc' = pc /\ call' = call /\ tmp' = tmp /\ total' = total
        /\ queue' = queue /\ stream' = stream /\ calm' = calm /\ closed[s]
    BY <1>18 DEF HandleWriteClosed, threads, counters, history
  <2>2. \A r \in Session : ready'[r] \subseteq ready[r]
    BY <1>1, <1>18 DEF HandleWriteClosed, TypeOK
  <2>3. \A m : Alive(m)' => Alive(m) BY <2>1, <2>2 DEF Alive, ReadyAt
  <2>4. Onward BY <2>1, OnStreamStill DEF Onward
  <2>5. WaitTallied' BY <1>1, <2>1 DEF WaitTallied
  <2>. QED BY <1>5, <2>1, <2>3, <2>4, <2>5
<1>19. CASE UNCHANGED vars
  <2>1. /\ queue' = queue /\ ready' = ready /\ stream' = stream /\ begun' = begun /\ calm' = calm
        /\ up' = up /\ closed' = closed /\ wait' = wait /\ total' = total
        /\ pc' = pc /\ call' = call /\ tmp' = tmp
    BY <1>19 DEF vars, sockets, threads, writes, counters, history
  <2>2. Onward /\ \A m : Alive(m)' <=> Alive(m) BY <2>1, WritesSame
  <2>3. WaitTallied' BY <1>1, <2>1, <2>2, TalliedStill
  <2>. QED BY <1>5, <2>1, <2>2, <2>3
<1>20. ASSUME NEW t \in Thread, AsyncWrite(t) PROVE BytesInv'
  BY <1>2, <1>20, BytesAsyncWrite
<1>21. ASSUME NEW t \in Thread, NEW s \in Session, HandleWrite(t, s) PROVE BytesInv'
  BY <1>2, <1>21, BytesHandleWrite
<1>. QED
  BY <1>7, <1>8, <1>9, <1>10, <1>11, <1>12, <1>13, <1>14, <1>15, <1>16, <1>17, <1>18, <1>19,
     <1>20, <1>21
  DEF Next, PeerResets, ExitClosesSocket

\* However the threads overwrite each other's sums, s_nTotalDataSend never counts
\* bytes the kernel has not taken; and when no session has ended and no two threads
\* have updated it at once, s_nTotalDataSendWait is zero once nothing is being sent.
THEOREM BytesAreCounted == Spec => []BytesCounted
<1>1. ASSUME BytesInv PROVE BytesCounted
  <2>1. TypeOK /\ TotalBounded /\ WaitTallied BY <1>1 DEF BytesInv, OrderInv, TypeInv
  <2>2. TotalNotAhead
    <3>1. TakenPieces \subseteq (1 .. MaxSends) \X (1 .. Pieces) BY DEF TakenPieces
    <3>2. IsFiniteSet(1 .. MaxSends) /\ IsFiniteSet(1 .. Pieces) /\ Cardinality(1 .. Pieces) = Pieces
      BY SendAssumption, FS_Interval
    <3>3. IsFiniteSet((1 .. MaxSends) \X (1 .. Pieces)) BY <3>2, FS_Product
    <3>4. IsFiniteSet(TakenPieces) BY <3>1, <3>3, FS_Subset
    <3>5. Counted \X (1 .. Pieces) \subseteq TakenPieces
      BY DEF Counted, Whole1, TakenPieces
    <3>6. Counted \subseteq 1 .. MaxSends BY DEF Counted
    <3>7. IsFiniteSet(Counted) /\ Cardinality(Counted) \in Nat BY <3>6, NumbersFinite
    <3>8. Cardinality(Counted \X (1 .. Pieces)) = Cardinality(Counted) * Pieces
      BY <3>2, <3>7, FS_Product
    <3>9. Cardinality(Counted \X (1 .. Pieces)) <= Cardinality(TakenPieces)
      BY <3>4, <3>5, FS_Subset
    <3>10. PICK c, n \in Nat : c = Cardinality(Counted) /\ n = Cardinality(TakenPieces)
      BY <3>4, <3>7, FS_CardinalityType
    <3>11. PICK x \in Int : x = Pieces * c /\ x = c * Pieces
      BY SendAssumption
    <3>12. total.sent <= x /\ x <= n BY <2>1, <3>8, <3>9, <3>10, <3>11 DEF TotalBounded
    <3>13. total.sent \in Nat BY <2>1 DEF TypeOK
    <3>14. total.sent <= n BY <3>12, <3>13
    <3>. QED BY <3>10, <3>14 DEF TotalNotAhead
  <2>3. WaitSettles
    <3>1. SUFFICES ASSUME calm, \A t \in Thread : pc[t] \in {"idle", "built", "count", "sent"},
                          \A s \in Session : queue[s] = <<>> /\ ready[s] = {}
                   PROVE  wait = 0
      BY DEF WaitSettles
    <3>2. \A m : ~Alive(m)
      <4>1. \A s \in Session : DOMAIN queue[s] = {} BY <3>1
      <4>. QED BY <3>1, <4>1 DEF Alive, WaitsAt, ReadyAt
    <3>3. ToSubtract = {} /\ ToAdd = {} BY <3>1, <3>2 DEF ToSubtract, ToAdd
    <3>4. Cardinality(ToSubtract) = 0 /\ Cardinality(ToAdd) = 0 BY <3>3, FS_EmptySet
    <3>5. wait = Pieces * (Cardinality(ToSubtract) - Cardinality(ToAdd))
      BY <2>1, <3>1 DEF WaitTallied
    <3>6. Pieces * (0 - 0) = 0 BY SendAssumption
    <3>. QED BY <3>4, <3>5, <3>6
  <2>. QED BY <2>2, <2>3 DEF BytesCounted
<1>. QED BY <1>1, BytesInit, BytesStep, PTL DEF Spec
=============================================================================
