--------------------------- MODULE LibraryProofs ---------------------------
(***************************************************************************)
(* Proofs about parts of the two libraries, each on its own.               *)
(*                                                                         *)
(* ServiceThreads: until io_service stops no worker leaves it, and every   *)
(* round adds those it was asked for or runs no handlers.                  *)
(*                                                                         *)
(* Timers: the tick a timer expires at is that of the time it was armed    *)
(* for, and an event's last tick is ahead of the one it was armed at by as *)
(* many intervals as it has fired, at least.                               *)
(***************************************************************************)
EXTENDS ServiceThreads, Timers, Arrays, SequenceTheorems, WellFoundedInduction, TLAPS

-----------------------------------------------------------------------------
(* The threads of the service                                              *)

\* What thread_num asks for beside the service thread.
Helpers == totalThread - 1

\* Before io_service stops no worker leaves it: there are those of the rounds that ended
\* in an exception and those this round has created; or there is room for no more, and
\* no round will come to run handlers.
WorkersStay ==
    /\ svc # "join"
    /\ \/ /\ workers >= MaxThreads /\ Helpers > 0
          /\ svc \in {"check", "spawn", "ended"} /\ (svc = "spawn" => spawned = 0)
       \/ svc \in {"off", "check"} /\ workers = thrown * Helpers
       \/ svc = "spawn" /\ spawned <= Helpers /\ workers = thrown * Helpers + spawned
       \/ svc = "run" /\ workers = (thrown + 1) * Helpers
       \/ svc = "ended"

ThreadsInv ==
    /\ svc \in {"off", "check", "spawn", "run", "join", "ended"}
    /\ workers \in Nat /\ spawned \in Nat /\ thrown \in Nat
    /\ svc = "off" => workers = 0 /\ thrown = 0
    /\ svc \in {"check", "spawn", "run", "join"} => totalThread \in ThreadNums
    /\ ioStopped \/ WorkersStay

LEMMA ThreadsInvInit == ThreadsInit => ThreadsInv
BY DEF ThreadsInit, ThreadsInv, WorkersStay, Helpers

\* Rounds add up.
LEMMA OneMoreRound ==
  ASSUME NEW n \in Nat, NEW h \in Nat
  PROVE  n * h \in Nat /\ (n + 1) * h = n * h + h /\ 0 * h = 0
OBVIOUS

LEMMA ThreadsInvNext == ThreadsInv /\ [ThreadsNext]_threadVars => ThreadsInv'
<1> SUFFICES ASSUME ThreadsInv, [ThreadsNext]_threadVars PROVE ThreadsInv' OBVIOUS
<1> USE ThreadsAssumption DEF ThreadsInv, WorkersStay, rounds, io, stopping, fate
<1>1. CASE NetThreadPorc
  <2>1. \A n \in ThreadNums : n - 1 \in Nat OBVIOUS
  <2>2. \A n \in Nat : 0 * n = 0 BY OneMoreRound
  <2>3. CASE svc' = "ended" BY <1>1, <2>3 DEF NetThreadPorc
  <2>4. CASE svc' # "ended"
    <3>1. /\ svc' = "check" /\ workers' = 0 /\ thrown' = 0 /\ totalThread' \in ThreadNums
          /\ spawned' \in Nat
      BY <1>1, <2>4 DEF NetThreadPorc
    <3>2. thrown' * Helpers' = 0 BY <3>1, <2>1, <2>2 DEF Helpers
    <3>. QED BY <3>1, <3>2
  <2>. QED BY <2>3, <2>4
<1>2. CASE SvcCheck \/ SvcSpawn \/ SvcSpawnFails \/ SvcRuns
  <2>1. Helpers \in Nat /\ UNCHANGED Helpers /\ thrown * Helpers \in Nat
        /\ (thrown + 1) * Helpers = thrown * Helpers + Helpers
    <3>1. svc \in {"check", "spawn"} /\ totalThread' = totalThread
      BY <1>2 DEF SvcCheck, SvcSpawn, SvcSpawnFails, SvcRuns
    <3>2. totalThread \in ThreadNums BY <3>1
    <3>3. Helpers \in Nat /\ UNCHANGED Helpers BY <3>1, <3>2 DEF Helpers
    <3>4. thrown \in Nat OBVIOUS
    <3>. QED BY <3>3, <3>4, OneMoreRound
  <2>2. CASE SvcCheck BY <2>1, <2>2 DEF SvcCheck
  <2>3. CASE SvcSpawn BY <2>1, <2>3 DEF SvcSpawn, SpawnsMore, Helpers
  <2>4. CASE SvcSpawnFails BY <2>1, <2>4 DEF SvcSpawnFails, SpawnsMore, Helpers
  <2>5. CASE SvcRuns BY <2>1, <2>5 DEF SvcRuns, SpawnsMore, Helpers
  <2>. QED BY <1>2, <2>2, <2>3, <2>4, <2>5
<1>3. CASE SvcReturns \/ SvcJoin BY <1>3 DEF SvcReturns, SvcJoin
<1>4. CASE HandlerThrows
  <2>1. svc = "run" /\ svc' = "check" /\ UNCHANGED <<workers, spawned, totalThread, ioStopped>> /\ thrown' = thrown + 1
    BY <1>4 DEF HandlerThrows
  <2>2. UNCHANGED Helpers BY <2>1 DEF Helpers
  <2>. QED BY <2>1, <2>2
<1>5. CASE \/ RunHandler \/ WorkerThrows \/ StopListen \/ RaiseStopFlag \/ RemoveAllSession
           \/ (\E h \in Handler : Ready(h)) \/ UNCHANGED threadVars
  <2>1. UNCHANGED <<rounds, workers, ioStopped, thrown>>
    BY <1>5 DEF RunHandler, WorkerThrows, StopListen, RaiseStopFlag, RemoveAllSession, Ready, threadVars
  <2>. QED BY <2>1 DEF Helpers
<1>6. CASE RunDry BY <1>6 DEF RunDry
<1>7. CASE WorkerReturns BY <1>7 DEF WorkerReturns
<1>8. CASE StopService BY <1>8 DEF StopService
<1>. QED
  BY <1>1, <1>2, <1>3, <1>4, <1>5, <1>6, <1>7, <1>8 DEF ThreadsNext, Service, Run, Stop

\* Until io_service is stopped, a service thread that runs handlers has thread_num - 1
\* workers beside it, no fewer and no more, and as many again for every handler that has
\* thrown on it: for every number of threads, and however many the system has room for.
THEOREM ThreadsAsAsked == ThreadsSpec => []ThreadsCounted
<1>1. ThreadsInv => ThreadsCounted
  BY ThreadsAssumption DEF ThreadsInv, WorkersStay, Helpers, ThreadsCounted
<1>. QED BY <1>1, ThreadsInvInit, ThreadsInvNext, PTL DEF ThreadsSpec

-----------------------------------------------------------------------------
(* Ticks                                                                   *)

LEMMA TickRange ==
    ASSUME NEW t \in Int
    PROVE  t % Wrap \in 0 .. Wrap - 1 /\ t \div Wrap \in Int
BY TimersAssumption

LEMMA TickOfTick ==
    ASSUME NEW t \in 0 .. Wrap - 1
    PROVE  t % Wrap = t
BY TimersAssumption

\* Ticks of one round are as far apart as their times.
LEMMA OneRound ==
    ASSUME NEW t \in Int, NEW u \in Int, SameRound(t, u)
    PROVE  t - u = (t % Wrap) - (u % Wrap)
BY TimersAssumption DEF SameRound

\* Rounds do not come back.
LEMMA RoundsPass ==
    ASSUME NEW t \in Int, NEW u \in Int, NEW v \in Int, t <= u, u <= v, SameRound(t, v)
    PROVE  SameRound(t, u)
<1>1. \A x, y \in Int : x <= y => x \div Wrap <= y \div Wrap BY TimersAssumption
<1>2. t \div Wrap <= u \div Wrap /\ u \div Wrap <= v \div Wrap BY <1>1
<1>3. t \div Wrap \in Int /\ u \div Wrap \in Int /\ v \div Wrap \in Int BY TickRange
<1>. QED BY <1>2, <1>3 DEF SameRound

\* Adding to a tick is adding to the time.
LEMMA TickMoves ==
    ASSUME NEW t \in Int, NEW n \in Int
    PROVE  ((t % Wrap) + n) % Wrap = (t + n) % Wrap
<1> USE TimersAssumption
<1>1. PICK q : q = t \div Wrap OBVIOUS
<1>2. PICK r \in 0 .. Wrap - 1 : r = t % Wrap BY TickRange
<1>3. q \in Int BY <1>1, TickRange
<1>4. t % Wrap = t - Wrap * (t \div Wrap) OBVIOUS
<1>5. t = Wrap * q + r BY <1>1, <1>2, <1>3, <1>4
<1>6. PICK p : p = (r + n) \div Wrap OBVIOUS
<1>7. PICK e \in 0 .. Wrap - 1 : e = (r + n) % Wrap BY TickRange
<1>8. p \in Int BY <1>6, TickRange
<1>9. (r + n) % Wrap = (r + n) - Wrap * ((r + n) \div Wrap) OBVIOUS
<1>10. r + n = Wrap * p + e BY <1>6, <1>7, <1>8, <1>9
<1>11. t + n = Wrap * (q + p) + e BY <1>3, <1>5, <1>8, <1>10
<1>12. (Wrap * (q + p) + e) % Wrap = e BY <1>3, <1>8
<1>. QED BY <1>2, <1>7, <1>11, <1>12

LEMMA TickMovesBack ==
    ASSUME NEW t \in Int, NEW n \in Int
    PROVE  ((t % Wrap) - n) % Wrap = (t - n) % Wrap
<1>1. PICK m \in Int : m = 0 - n OBVIOUS
<1>2. t % Wrap \in Int BY TickRange
<1>3. ((t % Wrap) + m) % Wrap = (t + m) % Wrap BY TickMoves
<1>4. (t % Wrap) + m = (t % Wrap) - n /\ t + m = t - n BY <1>1, <1>2
<1>. QED BY <1>3, <1>4

-----------------------------------------------------------------------------
(* Timer and RecvTickTimer                                                 *)

TimerInv ==
    /\ time \in Nat /\ due \in Nat
    /\ timer \in [checks : BOOLEAN, expire : 0 .. Wrap - 1, interval : 0 .. Wrap - 1]
    /\ timer.expire = due % Wrap

Periodic == event.strategy \in {"Next", "NextAccumulate"}

EventInv ==
    /\ time \in Nat
    /\ event \in [strategy : Strategies, last : 0 .. Wrap - 1, interval : 0 .. Wrap - 1]
    /\ firing \in [armed : Nat, interval : 0 .. Wrap - 1, count : Nat]
    /\ firing.armed <= time
    /\ Periodic => event.interval = firing.interval
    /\ Periodic /\ SameRound(firing.armed, time) =>
          /\ event.last <= Tick
          /\ firing.count * firing.interval <= event.last - (firing.armed % Wrap)

LEMMA TimersInvInit == TimersInit => TimerInv /\ EventInv
<1> SUFFICES ASSUME TimersInit PROVE TimerInv /\ EventInv OBVIOUS
<1>1. 0 \in 0 .. Wrap - 1 BY TimersAssumption
<1>2. 0 % Wrap = 0 BY <1>1, TickOfTick
<1>. QED BY <1>1, <1>2 DEF TimersInit, TimerInv, EventInv, Periodic, Strategies

LEMMA ArmInv ==
    ASSUME TimerInv, NEW interval \in 0 .. Wrap - 1, Arm(interval), UNCHANGED time
    PROVE  TimerInv'
<1>1. PICK t \in Nat : t = time BY DEF TimerInv
<1>2. due' = t + interval /\ t + interval \in Nat BY <1>1, TimersAssumption DEF Arm
<1>3. ((t % Wrap) + interval) % Wrap = (t + interval) % Wrap BY TickMoves
<1>4. PICK e \in 0 .. Wrap - 1 : e = (t + interval) % Wrap BY <1>2, TickRange
<1>5. timer' = [checks |-> TRUE, expire |-> e, interval |-> interval]
  BY <1>1, <1>3, <1>4 DEF Arm, Plus, Tick
<1>. QED BY <1>1, <1>2, <1>4, <1>5 DEF TimerInv

LEMMA TimerInvNext == TimerInv /\ [TimersNext]_timerVars => TimerInv'
<1> SUFFICES ASSUME TimerInv, [TimersNext]_timerVars PROVE TimerInv' OBVIOUS
<1> USE TimersAssumption
<1>1. /\ time \in Nat /\ due \in Nat /\ timer.expire = due % Wrap
      /\ timer \in [checks : BOOLEAN, expire : 0 .. Wrap - 1, interval : 0 .. Wrap - 1]
      /\ timer.interval \in 0 .. Wrap - 1 /\ timer.expire \in 0 .. Wrap - 1 /\ timer.checks \in BOOLEAN
  BY DEF TimerInv
<1>2. CASE TimePasses BY <1>1, <1>2 DEF TimePasses, TimerInv
<1>3. CASE SetTimer
  <2>1. PICK interval \in Intervals \cup {timer.interval} : Arm(interval) BY <1>3 DEF SetTimer
  <2>2. interval \in 0 .. Wrap - 1 BY <1>1
  <2>. QED BY <1>3, <2>1, <2>2, ArmInv DEF SetTimer
<1>4. CASE PollTimer
  <2>1. PICK reset, manual \in BOOLEAN :
          /\ timer' = [timer EXCEPT !.checks = ~manual,
                                    !.expire = IF reset THEN Plus(Tick, timer.interval) ELSE @]
          /\ due' = IF reset THEN time + timer.interval ELSE due
    BY <1>4 DEF PollTimer
  <2>2. time' = time BY <1>4 DEF PollTimer
  <2>3. CASE reset
    <3>1. PICK t \in Nat, interval \in 0 .. Wrap - 1 : t = time /\ interval = timer.interval BY <1>1
    <3>0. t \in Int /\ interval \in Int OBVIOUS
    <3>2. ((t % Wrap) + interval) % Wrap = (t + interval) % Wrap BY <3>0, TickMoves
    <3>3. PICK e \in 0 .. Wrap - 1 : e = (t + interval) % Wrap BY TickRange
    <3>4. timer' = [timer EXCEPT !.checks = ~manual, !.expire = e]
      BY <2>1, <2>3, <3>1, <3>2, <3>3 DEF Plus, Tick
    <3>5. due' = t + interval /\ t + interval \in Nat BY <2>1, <2>3, <3>1
    <3>. QED BY <1>1, <2>2, <3>3, <3>4, <3>5 DEF TimerInv
  <2>4. CASE ~reset
    <3>1. timer' = [timer EXCEPT !.checks = ~manual] /\ due' = due BY <1>1, <2>1, <2>4
    <3>. QED BY <1>1, <2>2, <3>1 DEF TimerInv
  <2>. QED BY <2>3, <2>4
<1>5. CASE AdjustTimer
  <2>1. CASE \E interval \in Intervals : timer' = [timer EXCEPT !.interval = interval]
    BY <1>1, <1>5, <2>1 DEF AdjustTimer, TimerInv
  <2>2. CASE \E on \in BOOLEAN : timer' = [timer EXCEPT !.checks = on]
    BY <1>1, <1>5, <2>2 DEF AdjustTimer, TimerInv
  <2>. QED BY <1>5, <2>1, <2>2 DEF AdjustTimer
<1>6. CASE MoveExpireTime
  <2>1. PICK n \in Intervals :
          \/ timer' = [timer EXCEPT !.expire = Plus(@, n)] /\ due' = due + n
          \/ timer' = [timer EXCEPT !.expire = Minus(@, n)] /\ due' = due - n
    BY <1>6 DEF MoveExpireTime
  <2>2. due' \in Nat /\ time' = time BY <1>6 DEF MoveExpireTime
  <2>3. PICK d \in Nat, k \in Nat : d = due /\ k = n BY <1>1
  <2>4. ((d % Wrap) + k) % Wrap = (d + k) % Wrap /\ ((d % Wrap) - k) % Wrap = (d - k) % Wrap
    <3>1. d \in Int /\ k \in Int OBVIOUS
    <3>. QED BY <3>1, TickMoves, TickMovesBack
  <2>5. PICK e \in 0 .. Wrap - 1 : e = due' % Wrap
    <3>1. PICK u \in Int : u = due' BY <2>2
    <3>2. u % Wrap \in 0 .. Wrap - 1 BY TickRange
    <3>. QED BY <3>1, <3>2
  <2>6. timer' = [timer EXCEPT !.expire = e] BY <1>1, <2>1, <2>3, <2>4, <2>5 DEF Plus, Minus
  <2>. QED BY <1>1, <2>2, <2>5, <2>6 DEF TimerInv
<1>7. CASE InitTime
  <2>0. PICK t \in Nat : t = time BY <1>1
  <2>1. PICK r \in 0 .. Wrap - 1 : t = time /\ r = t % Wrap
    <3>1. t \in Int OBVIOUS
    <3>2. t % Wrap \in 0 .. Wrap - 1 BY <3>1, TickRange
    <3>. QED BY <2>0, <3>2
  <2>2. (t - r) % Wrap = 0
    <3>1. t \in Int OBVIOUS
    <3>2. (t - (t % Wrap)) % Wrap = 0 BY <3>1
    <3>3. t % Wrap = r BY <2>1
    <3>. QED BY <3>2, <3>3
  <2>3. t - r \in Nat
    <3>2. t % Wrap = t - Wrap * (t \div Wrap) BY <2>1
    <3>3. 0 <= t \div Wrap /\ t \div Wrap \in Int BY <2>1
    <3>. QED BY <2>1, <3>2, <3>3
  <2>4. due' = t - r /\ timer' = [timer EXCEPT !.expire = 0] /\ time' = time
    BY <1>7, <2>1 DEF InitTime, Tick
  <2>. QED BY <1>1, <2>2, <2>3, <2>4 DEF TimerInv
<1>8. CASE InitEvent \/ PollEvent \/ UNCHANGED timerVars
  BY <1>1, <1>8 DEF InitEvent, PollEvent, timerVars, TimerInv
<1>. QED BY <1>2, <1>3, <1>4, <1>5, <1>6, <1>7, <1>8 DEF TimersNext, TimerNext, EventNext

LEMMA TimerInvTells == TimerInv => TimerTells
<1> SUFFICES ASSUME TimerInv PROVE TimerTells OBVIOUS
<1> USE TimersAssumption
<1>1. /\ time \in Nat /\ due \in Nat /\ timer.expire = due % Wrap
      /\ timer.interval \in 0 .. Wrap - 1 /\ timer.expire \in 0 .. Wrap - 1 /\ timer.checks \in BOOLEAN
  BY DEF TimerInv
<1>2. Tick \in 0 .. Wrap - 1 BY <1>1, TickRange DEF Tick
<1>3. ASSUME SameRound(time, due) PROVE time - due = Tick - timer.expire
  BY <1>1, <1>3, OneRound DEF Tick
<1>4. ExpiresWhenDue
  <2>1. SUFFICES ASSUME timer.checks, SameRound(time, due) PROVE Expired <=> time >= due
    BY DEF ExpiresWhenDue
  <2>2. time - due = Tick - timer.expire BY <1>3, <2>1
  <2>3. Tick >= timer.expire <=> time >= due BY <1>1, <1>2, <2>2
  <2>. QED BY <2>1, <2>3 DEF Expired
<1>5. RemainsNoLonger
  <2>1. SUFFICES ASSUME timer.checks, SameRound(time, due), timer.expire >= timer.interval
                 PROVE  GetRemainTime <= IF due > time THEN due - time ELSE 0
    BY DEF RemainsNoLonger
  <2>2. time - due = Tick - timer.expire BY <1>3, <2>1
  <2>3. CASE Tick >= timer.expire
    <3>1. Expired /\ GetRemainTime = 0 BY <2>1, <2>3 DEF Expired, GetRemainTime
    <3>2. 0 <= IF due > time THEN due - time ELSE 0 BY <1>1
    <3>. QED BY <3>1, <3>2
  <2>4. CASE ~(Tick >= timer.expire)
    <3>1. PICK b \in 0 .. Wrap - 1 : b = timer.expire - timer.interval BY <1>1, <2>1
    <3>2. Minus(timer.expire, timer.interval) = b BY <3>1, TickOfTick DEF Minus
    <3>3. GetProcessTime = IF timer.expire = 0 \/ Tick < b THEN 0 ELSE Tick - b
      BY <1>1, <2>1, <2>4, <3>2 DEF GetProcessTime
    <3>4. ~Expired BY <2>4 DEF Expired
    <3>5. due > time /\ due - time = timer.expire - Tick BY <1>1, <1>2, <2>2, <2>4
    <3>6. PICK p \in Nat : p = GetProcessTime BY <1>2, <3>1, <3>3
    <3>7. GetRemainTime = IF timer.interval <= p THEN 0 ELSE timer.interval - p
      BY <3>4, <3>6 DEF GetRemainTime
    <3>8. timer.interval - p <= timer.expire - Tick BY <1>1, <1>2, <2>1, <2>4, <3>1, <3>3, <3>6
    <3>. QED BY <1>1, <1>2, <2>4, <3>5, <3>6, <3>7, <3>8
  <2>. QED BY <2>3, <2>4
<1>. QED BY <1>4, <1>5 DEF TimerTells

\* However a timer is armed, moved, given another interval and polled, and whatever the
\* width of the clock, it says what is due within one round of the clock.
THEOREM TimersTell == TimersSpec => []TimerTells
<1>1. TimersInit => TimerInv BY TimersInvInit
<1>. QED BY <1>1, TimerInvNext, TimerInvTells, PTL DEF TimersSpec

LEMMA EventInvNext == EventInv /\ [TimersNext]_timerVars => EventInv'
<1> SUFFICES ASSUME EventInv, [TimersNext]_timerVars PROVE EventInv' OBVIOUS
<1> USE TimersAssumption
<1>1. /\ time \in Nat
      /\ event \in [strategy : Strategies, last : 0 .. Wrap - 1, interval : 0 .. Wrap - 1]
      /\ firing \in [armed : Nat, interval : 0 .. Wrap - 1, count : Nat]
      /\ firing.armed \in Nat /\ firing.interval \in 0 .. Wrap - 1 /\ firing.count \in Nat
      /\ event.last \in 0 .. Wrap - 1 /\ event.interval \in 0 .. Wrap - 1 /\ firing.armed <= time
      /\ Periodic => event.interval = firing.interval
  BY DEF EventInv
<1>2. Tick \in 0 .. Wrap - 1 /\ firing.armed % Wrap \in 0 .. Wrap - 1 BY SMTT(20), <1>1, TickRange DEF Tick
<1>3. CASE TimePasses
  <2>1. time' = time + 1 /\ event' = event /\ firing' = firing BY <1>3 DEF TimePasses
  <2>2. ASSUME Periodic, SameRound(firing.armed, time')
        PROVE  /\ event.last <= time' % Wrap
               /\ firing.count * firing.interval <= event.last - (firing.armed % Wrap)
    <3>1. SameRound(firing.armed, time) BY <1>1, <2>1, <2>2, RoundsPass
    <3>2. SameRound(time', time) BY <2>2, <3>1 DEF SameRound
    <3>3. time' - time = (time' % Wrap) - (time % Wrap) BY <1>1, <2>1, <3>2, OneRound
    <3>4. time' % Wrap \in 0 .. Wrap - 1 BY SMTT(20), <1>1, <2>1, TickRange
    <3>5. event.last <= Tick /\ firing.count * firing.interval <= event.last - (firing.armed % Wrap)
      BY <2>2, <3>1 DEF EventInv
    <3>. QED BY <1>1, <1>2, <2>1, <3>3, <3>4, <3>5 DEF Tick
  <2>3. time' \in Nat /\ firing.armed <= time' BY <1>1, <2>1
  <2>. QED BY <1>1, <2>1, <2>2, <2>3 DEF EventInv, Periodic, Tick
<1>4. CASE InitEvent
  <2>1. PICK interval \in Intervals, strategy \in Strategies :
          /\ event' = [strategy |-> strategy, last |-> Tick, interval |-> interval]
          /\ firing' = [armed |-> time, interval |-> interval, count |-> 0]
    BY <1>4 DEF InitEvent
  <2>2. time' = time /\ interval \in 0 .. Wrap - 1 BY <1>4 DEF InitEvent
  <2>3. firing'.count * firing'.interval = 0 /\ firing'.armed = time /\ event'.last = Tick
    BY <2>1, <2>2
  <2>4. Tick' = Tick /\ firing'.armed % Wrap = Tick BY <2>2, <2>3 DEF Tick
  <2>5. event'.last <= Tick' /\ firing'.count * firing'.interval <= event'.last - (firing'.armed % Wrap)
    BY <1>2, <2>3, <2>4
  <2>. QED BY <1>1, <1>2, <2>1, <2>2, <2>5 DEF EventInv, Periodic
<1>5. CASE PollEvent
  <2>1. /\ Fires /\ event' = ResetInterval /\ time' = time /\ Tick' = Tick
        /\ firing' = [firing EXCEPT !.count = IF @ > MaxTime THEN @ ELSE @ + 1]
    BY <1>5 DEF PollEvent, Tick
  <2>2. PICK c \in Nat : c = (IF firing.count > MaxTime THEN firing.count ELSE firing.count + 1) /\ c <= firing.count + 1
    BY <1>1
  <2>3. firing' = [firing EXCEPT !.count = c] BY <2>1, <2>2
  <2>4. PICK l \in 0 .. Wrap - 1, n \in 0 .. Wrap - 1, e \in 0 .. Wrap - 1 :
          l = event.last /\ n = event.interval /\ e = (l + n) % Wrap
    <3>1. PICK a \in 0 .. Wrap - 1, b \in 0 .. Wrap - 1 : a = event.last /\ b = event.interval BY <1>1
    <3>2. PICK u \in Int : u = a + b OBVIOUS
    <3>3. u % Wrap \in 0 .. Wrap - 1 BY TickRange
    <3>. QED BY <3>1, <3>2, <3>3
  <2>5. n > 0 /\ Minus(Tick, l) >= n BY <2>1, <2>4 DEF Fires, Elapsed
  <2>6. event.strategy \in Strategies BY <1>1
  <2>7. CASE ~Periodic
    <3>1. event' \in {[event EXCEPT !.interval = 0], event}
      BY <2>1, <2>6, <2>7 DEF ResetInterval, Periodic, Strategies
    <3>. QED BY <1>1, <2>1, <2>3, <2>7, <3>1 DEF EventInv, Periodic
  <2>8. CASE Periodic
    <3>1. ASSUME SameRound(firing.armed, time)
          PROVE  /\ l + n <= Tick /\ Tick > l /\ e = l + n
                 /\ c * firing.interval <= (l + n) - (firing.armed % Wrap)
      <4>1. l <= Tick /\ firing.count * firing.interval <= l - (firing.armed % Wrap)
        BY <2>4, <2>8, <3>1 DEF EventInv
      <4>2. Tick - l \in 0 .. Wrap - 1 BY <1>2, <4>1
      <4>3. Minus(Tick, l) = Tick - l BY <4>2, TickOfTick DEF Minus
      <4>4. l + n <= Tick /\ Tick > l BY <1>2, <2>5, <4>1, <4>3
      <4>5. l + n \in 0 .. Wrap - 1 BY <1>2, <4>4
      <4>6. e = l + n BY <2>4, <4>5, TickOfTick
      <4>7. firing.interval = n BY <1>1, <2>4, <2>8
      <4>8. c * n <= firing.count * n + n
        <5>1. (firing.count + 1) * n = firing.count * n + n BY <1>1
        <5>2. c = firing.count + 1 \/ c = firing.count BY <2>2
        <5>. QED BY <1>1, <5>1, <5>2
      <4>. QED BY <1>1, <1>2, <4>1, <4>4, <4>6, <4>7, <4>8
    <3>2. CASE event.strategy = "Next"
      <4>1. event' = [event EXCEPT !.last = Tick] BY <2>1, <3>2 DEF ResetInterval
      <4>2. ASSUME SameRound(firing.armed, time)
            PROVE  c * firing.interval <= Tick - (firing.armed % Wrap)
        <5>1. c * firing.interval \in Int BY <1>1
        <5>. QED BY <1>2, <3>1, <4>2, <5>1
      <4>3. Periodic' /\ event'.last = Tick /\ event'.interval = event.interval BY <1>1, <3>2, <4>1 DEF Periodic
      <4>4. firing'.armed = firing.armed /\ firing'.interval = firing.interval /\ firing'.count = c
        BY <1>1, <2>3
      <4>5. event' \in [strategy : Strategies, last : 0 .. Wrap - 1, interval : 0 .. Wrap - 1]
        BY <1>1, <1>2, <4>1
      <4>6. firing' \in [armed : Nat, interval : 0 .. Wrap - 1, count : Nat] BY <1>1, <2>3
      <4>7. Tick <= Tick' BY <1>2, <2>1
      <4>. QED BY <1>1, <2>1, <2>8, <4>2, <4>3, <4>4, <4>5, <4>6, <4>7 DEF EventInv
    <3>3. CASE event.strategy = "NextAccumulate"
      <4>1. event' = IF Tick > l THEN [event EXCEPT !.last = e] ELSE event
        BY <2>1, <2>4, <3>3 DEF ResetInterval, Plus
      <4>2. PICK k \in 0 .. Wrap - 1 : k = IF Tick > l THEN e ELSE l OBVIOUS
      <4>3. event' = [event EXCEPT !.last = k] BY <1>1, <2>4, <4>1, <4>2
      <4>4. Periodic' /\ event'.last = k /\ event'.interval = event.interval BY <1>1, <3>3, <4>3 DEF Periodic
      <4>5. firing'.armed = firing.armed /\ firing'.interval = firing.interval /\ firing'.count = c
        BY <1>1, <2>3
      <4>6. event' \in [strategy : Strategies, last : 0 .. Wrap - 1, interval : 0 .. Wrap - 1]
        BY <1>1, <4>3
      <4>7. firing' \in [armed : Nat, interval : 0 .. Wrap - 1, count : Nat] BY <1>1, <2>3
      <4>8. ASSUME SameRound(firing.armed, time)
            PROVE  k <= Tick /\ c * firing.interval <= k - (firing.armed % Wrap)
        BY <3>1, <4>2, <4>8
      <4>. QED BY <1>1, <2>1, <2>8, <4>4, <4>5, <4>6, <4>7, <4>8 DEF EventInv
    <3>. QED BY <2>8, <3>2, <3>3 DEF Periodic
  <2>. QED BY <2>7, <2>8
<1>6. CASE SetTimer \/ PollTimer \/ AdjustTimer \/ MoveExpireTime \/ InitTime \/ UNCHANGED timerVars
  <2>1. time' = time /\ event' = event /\ firing' = firing
    BY <1>6 DEF SetTimer, PollTimer, AdjustTimer, MoveExpireTime, InitTime, timerVars
  <2>. QED BY <2>1 DEF EventInv, Periodic, Tick
<1>. QED BY <1>3, <1>4, <1>5, <1>6 DEF TimersNext, TimerNext, EventNext

\* For every width of the clock and every pattern of polls, a periodic event fires no
\* more often than its interval has passed, until the clock comes round.
THEOREM EventsInTime == TimersSpec => []NotTooOften
<1>1. TimersInit => EventInv BY TimersInvInit
<1>2. EventInv => NotTooOften
  <2> SUFFICES ASSUME EventInv, Periodic, SameRound(firing.armed, time)
               PROVE  firing.count * firing.interval <= time - firing.armed
    BY DEF NotTooOften, Periodic
  <2>1. /\ time \in Nat /\ firing.armed \in Nat /\ firing.interval \in 0 .. Wrap - 1
        /\ firing.count \in Nat /\ event.last \in 0 .. Wrap - 1
    BY DEF EventInv
  <2>2. SameRound(time, firing.armed) BY DEF SameRound
  <2>3. time - firing.armed = Tick - (firing.armed % Wrap) BY <2>1, <2>2, OneRound DEF Tick
  <2>4. Tick \in 0 .. Wrap - 1 /\ firing.armed % Wrap \in 0 .. Wrap - 1 BY <2>1, TickRange DEF Tick
  <2>5. event.last <= Tick /\ firing.count * firing.interval <= event.last - (firing.armed % Wrap)
    BY DEF EventInv
  <2>6. firing.count * firing.interval \in Int BY <2>1, TimersAssumption
  <2>. QED BY <2>1, <2>3, <2>4, <2>5, <2>6
<1>. QED BY <1>1, <1>2, EventInvNext, PTL DEF TimersSpec

-----------------------------------------------------------------------------
(* Arrays                                                                  *)

LEMMA Least ==
    ASSUME NEW T \in SUBSET Nat, T # {}
    PROVE  \E x \in T : \A y \in T : x <= y
<1> DEFINE R == OpToRel(<, Nat)
<1>1. IsWellFoundedOn(R, Nat) BY NatLessThanWellFounded
<1>2. \A x, y \in Nat : <<y, x>> \in R <=> y < x BY Zenon DEF OpToRel
<1> HIDE DEF R
<1>3. PICK x \in T : \A y \in T : ~ (<<y, x>> \in R) BY <1>1, WFMin
<1>4. \A y \in T : ~(y < x) BY <1>2, <1>3
<1>5. x \in Nat /\ \A y \in T : y \in Nat OBVIOUS
<1>. QED BY <1>4, <1>5

\* What a place of the array, or of the history, may hold.
Elem == Value \cup {Fresh, Unknown}

ArrayType == [growSize : Nat, doubles : BOOLEAN, num : Nat, mem : Seq(Elem)]

\* The array a holds the sequence s.
Holds(a, s) ==
    /\ a \in ArrayType /\ s \in Seq(Elem)
    /\ a.num <= Alloc(a) /\ Len(s) = a.num
    /\ \A i \in 1 .. a.num : a.mem[i] = s[i]

\* The history t says nothing of the sequence s that is not so.
Fits(t, s) ==
    /\ t \in Seq(Elem) /\ Len(t) = Len(s)
    /\ \A i \in 1 .. Len(s) : t[i] \in {Unknown, s[i]}

ArrayInv == \E s : Holds(array, s) /\ (~parted => Fits(items, s))

LEMMA HoldsContents ==
    ASSUME NEW a, NEW s, Holds(a, s)
    PROVE  a.num <= Alloc(a) /\ Contents(a) = s
<1>1. /\ a.mem \in Seq(Elem) /\ a.num \in Nat /\ a.num <= Len(a.mem) /\ s \in Seq(Elem)
      /\ Len(s) = a.num /\ \A i \in 1 .. a.num : a.mem[i] = s[i]
  BY DEF Holds, ArrayType, Alloc
<1>2. /\ SubSeq(a.mem, 1, a.num) \in Seq(Elem) /\ Len(SubSeq(a.mem, 1, a.num)) = a.num
      /\ \A i \in 1 .. a.num : SubSeq(a.mem, 1, a.num)[i] = a.mem[i]
  BY <1>1
<1>3. SubSeq(a.mem, 1, a.num) = s BY <1>1, <1>2, SeqEqual
<1>. QED BY <1>1, <1>3 DEF Contents, Alloc

-----------------------------------------------------------------------------
(* The fields of an array that is changed                                  *)

LEMMA MemSet ==
    ASSUME NEW a \in ArrayType, NEW m \in Seq(Elem)
    PROVE  LET b == [a EXCEPT !.mem = m] IN
           /\ b \in ArrayType /\ b.mem = m
           /\ b.num = a.num /\ b.growSize = a.growSize /\ b.doubles = a.doubles
BY DEF ArrayType

LEMMA NumSet ==
    ASSUME NEW a \in ArrayType, NEW n \in Nat
    PROVE  LET b == [a EXCEPT !.num = n] IN
           /\ b \in ArrayType /\ b.num = n
           /\ b.mem = a.mem /\ b.growSize = a.growSize /\ b.doubles = a.doubles
BY DEF ArrayType

With(a, m, n) == [a EXCEPT !.mem = m, !.num = n]

LEMMA BothSet ==
    ASSUME NEW a \in ArrayType, NEW m \in Seq(Elem), NEW n \in Nat
    PROVE  /\ With(a, m, n) \in ArrayType /\ With(a, m, n).mem = m /\ With(a, m, n).num = n
           /\ With(a, m, n).growSize = a.growSize /\ With(a, m, n).doubles = a.doubles
<1> DEFINE c == [a EXCEPT !.mem = m]
<1>1. /\ c \in ArrayType /\ c.mem = m
      /\ c.num = a.num /\ c.growSize = a.growSize /\ c.doubles = a.doubles
  BY MemSet, Zenon
<1>2. With(a, m, n) = [c EXCEPT !.num = n] BY DEF With
<1> HIDE DEF c
<1> DEFINE d == [c EXCEPT !.num = n]
<1>3. /\ d \in ArrayType /\ d.num = n
      /\ d.mem = c.mem /\ d.growSize = c.growSize /\ d.doubles = c.doubles
  BY <1>1, NumSet, Zenon
<1>4. With(a, m, n) = d BY <1>2
<1> HIDE DEF d
<1>. QED BY <1>1, <1>3, <1>4

LEMMA PutIs ==
    ASSUME NEW a \in ArrayType, NEW i \in 0 .. Alloc(a) - 1, NEW v \in Elem
    PROVE  /\ Put(a, i, v) \in ArrayType /\ Put(a, i, v).num = a.num
           /\ Put(a, i, v).mem = [a.mem EXCEPT ![i + 1] = v]
           /\ Put(a, i, v).mem \in Seq(Elem) /\ Alloc(Put(a, i, v)) = Alloc(a)
           /\ \A j \in 1 .. Alloc(a) : Put(a, i, v).mem[j] = IF j = i + 1 THEN v ELSE a.mem[j]
<1> DEFINE m == [a.mem EXCEPT ![i + 1] = v]
<1>1. a.mem \in Seq(Elem) /\ Alloc(a) = Len(a.mem) /\ Alloc(a) \in Nat BY DEF ArrayType, Alloc
<1>2. i + 1 \in 1 .. Len(a.mem) BY <1>1
<1>3. /\ m \in Seq(Elem) /\ Len(m) = Len(a.mem)
      /\ \A j \in 1 .. Len(a.mem) : m[j] = IF j = i + 1 THEN v ELSE a.mem[j]
  BY <1>1, <1>2
<1> HIDE DEF m
<1> DEFINE b == [a EXCEPT !.mem = m]
<1>4. Put(a, i, v) = b BY DEF Put, m
<1>5. b \in ArrayType /\ b.mem = m /\ b.num = a.num BY <1>3, MemSet, Zenon
<1> HIDE DEF b
<1>. QED BY <1>1, <1>3, <1>4, <1>5 DEF m, Alloc

LEMMA GrowToIs ==
    ASSUME NEW a, NEW s, Holds(a, s), NEW size \in Nat, size >= a.num
    PROVE  /\ Holds(GrowTo(a, size), s) /\ Alloc(GrowTo(a, size)) = size
           /\ GrowTo(a, size).num = a.num /\ GrowTo(a, size).growSize = a.growSize
           /\ GrowTo(a, size).doubles = a.doubles
<1>1. /\ a \in ArrayType /\ a.mem \in Seq(Elem) /\ a.num \in Nat /\ s \in Seq(Elem)
      /\ Len(s) = a.num /\ Contents(a) = s
  BY HoldsContents DEF Holds, ArrayType
<1> DEFINE m == s \o Blank(size - a.num)
<1>2. /\ Blank(size - a.num) \in Seq(Elem) /\ Len(Blank(size - a.num)) = size - a.num
  <2>1. Fresh \in Elem /\ size - a.num \in Nat BY <1>1 DEF Elem
  <2>. QED BY <2>1 DEF Blank
<1>3. m \in Seq(Elem) /\ Len(m) = size /\ \A i \in 1 .. a.num : m[i] = s[i]
  BY <1>1, <1>2, SMTT(30)
<1> HIDE DEF m
<1> DEFINE b == [a EXCEPT !.mem = m]
<1>4. GrowTo(a, size) = b BY <1>1 DEF GrowTo, m
<1>5. /\ b \in ArrayType /\ b.mem = m
      /\ b.num = a.num /\ b.growSize = a.growSize /\ b.doubles = a.doubles
  BY <1>1, <1>3, MemSet, Zenon
<1> HIDE DEF b
<1>6. Holds(b, s) /\ Alloc(b) = size BY <1>1, <1>3, <1>5 DEF Holds, Alloc
<1>. QED BY <1>4, <1>5, <1>6

-----------------------------------------------------------------------------
(* Copies                                                                  *)

\* The places from behind to, num of them, are those from behind from, as mem had them.
Shifted(mem, from, to, num) ==
    [i \in 1 .. Len(mem) |-> IF i \in to + 1 .. to + num THEN mem[(i - to) + from] ELSE mem[i]]

\* What the first k copies have come to.
Half(mem, from, to, num, k) ==
    [i \in 1 .. Len(mem) |->
        IF i \in (IF from > to THEN to + 1 .. to + k ELSE to + num - k + 1 .. to + num)
        THEN mem[(i - to) + from] ELSE mem[i]]

LEMMA CopiesShift ==
    ASSUME NEW mem \in Seq(Elem), NEW from \in Nat, NEW to \in Nat, NEW num \in Nat,
           from + num <= Len(mem), to + num <= Len(mem)
    PROVE  CopyEach(mem, from, to, CopyOrder(num, from, to)) = Shifted(mem, from, to, num)
<1> DEFINE order == CopyOrder(num, from, to)
<1>0. Len(mem) \in Nat OBVIOUS
<1>1. Len(order) = num /\ \A k \in 1 .. num : order[k] = IF from > to THEN k - 1 ELSE num - k
  BY DEF CopyOrder
<1> HIDE DEF order
<1> DEFINE H(k) == Half(mem, from, to, num, k)
<1>2. H(0) = mem
  <2>1. \A i \in 1 .. Len(mem) :
           i \notin (IF from > to THEN to + 1 .. to + 0 ELSE to + num - 0 + 1 .. to + num)
    BY <1>0
  <2>2. H(0) = [i \in 1 .. Len(mem) |-> mem[i]] BY <2>1 DEF Half
  <2>. QED BY <2>2
<1>3. H(num) = Shifted(mem, from, to, num)
  <2>1. to + num - num + 1 = to + 1 OBVIOUS
  <2>. QED BY <2>1 DEF Half, Shifted
<1>4. ASSUME NEW k \in 1 .. num
      PROVE  H(k) = [H(k - 1) EXCEPT ![to + order[k] + 1] = H(k - 1)[from + order[k] + 1]]
  <2> DEFINE d == to + order[k] + 1
  <2> DEFINE e == from + order[k] + 1
  <2>1. d = IF from > to THEN to + k ELSE to + num - k + 1 BY <1>1
  <2>2. e = IF from > to THEN from + k ELSE from + num - k + 1 BY <1>1
  <2> HIDE DEF d, e
  <2>3. d \in 1 .. Len(mem) /\ e \in 1 .. Len(mem) /\ (d - to) + from = e BY <1>0, <2>1, <2>2
  <2>4. e \notin (IF from > to THEN to + 1 .. to + (k - 1) ELSE to + num - (k - 1) + 1 .. to + num)
    BY <2>2
  <2>5. H(k - 1)[e] = mem[e] BY <2>3, <2>4 DEF Half
  <2>6. ASSUME NEW i \in 1 .. Len(mem) PROVE H(k)[i] = IF i = d THEN mem[e] ELSE H(k - 1)[i]
    <3> DEFINE done == IF from > to THEN to + 1 .. to + k ELSE to + num - k + 1 .. to + num
    <3> DEFINE was == IF from > to THEN to + 1 .. to + (k - 1)
                      ELSE to + num - (k - 1) + 1 .. to + num
    <3>1. i \in done <=> (i \in was \/ i = d) BY <1>0, <2>1
    <3>2. H(k)[i] = IF i \in done THEN mem[(i - to) + from] ELSE mem[i] BY DEF Half
    <3>3. H(k - 1)[i] = IF i \in was THEN mem[(i - to) + from] ELSE mem[i] BY DEF Half
    <3> HIDE DEF done, was, H
    <3>. QED BY <2>3, <3>1, <3>2, <3>3
  <2>7. /\ H(k) = [i \in 1 .. Len(mem) |-> H(k)[i]]
        /\ H(k - 1) = [i \in 1 .. Len(mem) |-> H(k - 1)[i]]
    BY DEF Half
  <2> HIDE DEF H
  <2>8. [H(k - 1) EXCEPT ![d] = H(k - 1)[e]]
           = [i \in 1 .. Len(mem) |-> IF i = d THEN H(k - 1)[e] ELSE H(k - 1)[i]]
    BY <2>7
  <2>. QED BY <2>5, <2>6, <2>7, <2>8 DEF d, e
<1> HIDE DEF H
<1> DEFINE After[k \in 0 .. Len(order)] ==
            IF k = 0 THEN mem
            ELSE [After[k - 1] EXCEPT ![to + order[k] + 1] = After[k - 1][from + order[k] + 1]]
<1>5. PICK f : f = [k \in 0 .. num |-> H(k)] OBVIOUS
<1>6. f = [k \in 0 .. Len(order) |->
              IF k = 0 THEN mem
              ELSE [f[k - 1] EXCEPT ![to + order[k] + 1] = f[k - 1][from + order[k] + 1]]]
  <2>1. ASSUME NEW k \in 0 .. num, k # 0 PROVE k \in 1 .. num /\ f[k - 1] = H(k - 1)
    <3>1. k \in 1 .. num /\ k - 1 \in 0 .. num BY <2>1
    <3>. QED BY <1>5, <3>1
  <2>2. ASSUME NEW k \in 0 .. num
        PROVE  H(k) = IF k = 0 THEN mem
                      ELSE [f[k - 1] EXCEPT ![to + order[k] + 1] = f[k - 1][from + order[k] + 1]]
    <3>1. CASE k = 0 BY <1>2, <3>1
    <3>2. CASE k # 0
      <4>1. H(k) = [H(k - 1) EXCEPT ![to + order[k] + 1] = H(k - 1)[from + order[k] + 1]]
        BY <1>4, <2>1, <3>2
      <4>2. f[k - 1] = H(k - 1) BY <2>1, <3>2
      <4>. QED BY <3>2, <4>1, <4>2, Zenon
    <3>. QED BY <3>1, <3>2
  <2>. QED BY <1>1, <1>5, <2>2, Zenon
<1>7. After = [k \in 0 .. Len(order) |->
                  IF k = 0 THEN mem
                  ELSE [After[k - 1] EXCEPT ![to + order[k] + 1] = After[k - 1][from + order[k] + 1]]]
  BY <1>6, Zenon
<1>8. CopyEach(mem, from, to, order) = After[Len(order)] BY Zenon DEF CopyEach
<1> HIDE DEF After
<1>9. \A k \in 0 .. num : After[k] = H(k)
  <2> DEFINE T == {k \in 0 .. num : After[k] # H(k)}
  <2>1. SUFFICES ASSUME T # {} PROVE FALSE OBVIOUS
  <2>2. PICK x \in T : \A y \in T : x <= y
    <3>1. T \in SUBSET Nat OBVIOUS
    <3> HIDE DEF T
    <3>. QED BY <2>1, <3>1, Least
  <2>3. x # 0
    <3>1. 0 \in 0 .. Len(order) BY <1>1
    <3>2. After[0] = mem BY <1>7, <3>1, Zenon
    <3>. QED BY <1>2, <3>2
  <2>4. x \in 1 .. num /\ x - 1 \in 0 .. num /\ x \in 0 .. Len(order) /\ ~(x <= x - 1) BY <1>1, <2>3
  <2>5. After[x - 1] = H(x - 1) BY <2>2, <2>4
  <2>6. After[x] = [After[x - 1] EXCEPT ![to + order[x] + 1] = After[x - 1][from + order[x] + 1]]
    BY <1>7, <2>3, <2>4, Zenon
  <2>7. H(x) = [H(x - 1) EXCEPT ![to + order[x] + 1] = H(x - 1)[from + order[x] + 1]]
    BY <1>4, <2>4
  <2>8. After[x] = H(x) BY <2>5, <2>6, <2>7, Zenon
  <2>. QED BY <2>8
<1>10. num \in 0 .. num OBVIOUS
<1>. QED BY <1>1, <1>3, <1>8, <1>9, <1>10 DEF order

-----------------------------------------------------------------------------
(* Growth                                                                  *)

LEMMA GrownIsMore ==
    ASSUME NEW a \in ArrayType, CanGrow(a), NEW n \in Nat
    PROVE  Grown(a, n) \in Nat /\ Grown(a, n) > n
<1>1. a.growSize \in Nat /\ a.growSize > 0 BY DEF ArrayType, CanGrow
<1>2. CASE a.doubles BY <1>1, <1>2 DEF Grown
<1>3. CASE ~a.doubles BY <1>1, <1>3 DEF Grown
<1>. QED BY <1>2, <1>3

\* f tells the size that growth comes to, at least from each of the sizes from k on.
Reaches(f, a, needed, k) ==
    /\ f \in [Nat -> Nat]
    /\ \A n \in Nat : n >= k => f[n] = IF needed < n THEN n ELSE f[Grown(a, n)]

LEMMA ReachesAll ==
    ASSUME NEW a \in ArrayType, CanGrow(a), NEW needed \in Nat
    PROVE  \E f : Reaches(f, a, needed, 0)
<1> DEFINE T == {j \in 0 .. needed + 1 : ~\E f : Reaches(f, a, needed, (needed + 1) - j)}
<1>1. T = {}
  <2>1. SUFFICES ASSUME T # {} PROVE FALSE OBVIOUS
  <2>2. PICK x \in T : \A y \in T : x <= y
    <3>1. T \in SUBSET Nat OBVIOUS
    <3> HIDE DEF T
    <3>. QED BY <2>1, <3>1, Least
  <2>3. CASE x = 0
    <3> DEFINE f == [n \in Nat |-> n]
    <3>1. Reaches(f, a, needed, (needed + 1) - 0) BY DEF Reaches
    <3>. QED BY <2>3, <3>1
  <2>4. CASE x # 0
    <3>1. x - 1 \in 0 .. needed + 1 /\ ~(x <= x - 1) BY <2>4
    <3>2. x - 1 \notin T BY <2>2, <3>1
    <3>3. PICK f : Reaches(f, a, needed, (needed + 1) - (x - 1)) BY <3>1, <3>2
    <3>4. PICK k \in Nat : k = (needed + 1) - x /\ k + 1 = (needed + 1) - (x - 1) /\ k <= needed
      BY <2>4
    <3>5. Grown(a, k) \in Nat /\ Grown(a, k) > k BY GrownIsMore
    <3> DEFINE g == [n \in Nat |-> IF n = k THEN f[Grown(a, k)] ELSE f[n]]
    <3>6. f \in [Nat -> Nat] /\ \A n \in Nat : n >= k + 1 => f[n] = IF needed < n THEN n ELSE f[Grown(a, n)]
      BY <3>3, <3>4 DEF Reaches
    <3>7. g \in [Nat -> Nat] BY <3>5, <3>6
    <3>8. ASSUME NEW n \in Nat, n >= k PROVE g[n] = IF needed < n THEN n ELSE g[Grown(a, n)]
      <4>1. Grown(a, n) \in Nat /\ Grown(a, n) > n BY GrownIsMore
      <4>2. g[Grown(a, n)] = f[Grown(a, n)] BY <3>8, <4>1
      <4>3. CASE n = k BY <3>4, <4>2, <4>3
      <4>4. CASE n # k
        <5>1. n >= k + 1 /\ g[n] = f[n] BY <3>8, <4>4
        <5>. QED BY <3>6, <4>2, <5>1
      <4>. QED BY <4>3, <4>4
    <3> HIDE DEF g
    <3>9. Reaches(g, a, needed, k) BY <3>7, <3>8 DEF Reaches
    <3>. QED BY <3>4, <3>9
  <2>. QED BY <2>3, <2>4
<1>2. needed + 1 \in 0 .. needed + 1 /\ (needed + 1) - (needed + 1) = 0 OBVIOUS
<1>. QED BY <1>1, <1>2

\* Growing stops, and behind what is needed.
LEMMA GrowPastIs ==
    ASSUME NEW a, NEW s, Holds(a, s), NEW needed \in Nat, needed >= a.num,
           needed >= Alloc(a) => CanGrow(a)
    PROVE  LET b == GrowPast(a, needed) IN
           /\ Holds(b, s) /\ needed < Alloc(b) /\ Alloc(b) \in Nat
           /\ b.num = a.num /\ b.growSize = a.growSize /\ b.doubles = a.doubles
           /\ needed < Alloc(a) => b = a
<1>0. a \in ArrayType /\ Alloc(a) \in Nat /\ a.num \in Nat BY DEF Holds, ArrayType, Alloc
<1>1. CASE needed < Alloc(a)
  <2>1. GrowPast(a, needed) = a BY <1>1 DEF GrowPast
  <2>. QED BY <1>0, <1>1, <2>1
<1>2. CASE ~(needed < Alloc(a))
  <2>0. CanGrow(a) BY <1>0, <1>2
  <2> DEFINE Size[n \in Nat] == IF needed < n THEN n ELSE Size[Grown(a, n)]
  <2>1. PICK f : Reaches(f, a, needed, 0) BY <1>0, <2>0, ReachesAll
  <2>2. f = [n \in Nat |-> IF needed < n THEN n ELSE f[Grown(a, n)]] BY <2>1 DEF Reaches
  <2>3. Size = [n \in Nat |-> IF needed < n THEN n ELSE Size[Grown(a, n)]] BY <2>2, Zenon
  <2>4. GrowPast(a, needed) = GrowTo(a, Size[Alloc(a)]) BY <1>2, Zenon DEF GrowPast
  <2> HIDE DEF Size
  <2>5. \A n \in Nat : Size[n] = IF needed < n THEN n ELSE Size[Grown(a, n)] BY <2>3
  <2> DEFINE Good(n) == Size[n] \in Nat /\ Size[n] > needed
  <2>6. \A n \in Nat : Good(n)
    <3> DEFINE T == {j \in 0 .. needed + 1 : \E n \in Nat : n >= (needed + 1) - j /\ ~Good(n)}
    <3>1. T = {}
      <4>1. SUFFICES ASSUME T # {} PROVE FALSE OBVIOUS
      <4>2. PICK x \in T : \A y \in T : x <= y
        <5>1. T \in SUBSET Nat OBVIOUS
        <5> HIDE DEF T
        <5>. QED BY <4>1, <5>1, Least
      <4>3. PICK n \in Nat : n >= (needed + 1) - x /\ ~Good(n) OBVIOUS
      <4>4. ~(needed < n) BY <2>5, <4>3
      <4>5. Grown(a, n) \in Nat /\ Grown(a, n) > n BY <1>0, <2>0, GrownIsMore
      <4>6. Size[n] = Size[Grown(a, n)] BY <2>5, <4>4
      <4>7. ~Good(Grown(a, n)) BY <4>3, <4>6
      <4>8. x - 1 \in 0 .. needed + 1 /\ ~(x <= x - 1) /\ Grown(a, n) >= (needed + 1) - (x - 1)
        BY <4>3, <4>4, <4>5
      <4> HIDE DEF Good
      <4>9. x - 1 \in T BY <4>5, <4>7, <4>8
      <4>. QED BY <4>2, <4>8, <4>9
    <3>2. ASSUME NEW n \in Nat PROVE Good(n)
      <4>1. needed + 1 \in 0 .. needed + 1 /\ n >= (needed + 1) - (needed + 1) OBVIOUS
      <4> HIDE DEF Good
      <4>. QED BY <3>1, <4>1
    <3> HIDE DEF Good
    <3>. QED BY <3>2
  <2>7. PICK size \in Nat : size = Size[Alloc(a)] /\ size > needed BY <1>0, <2>6
  <2>8. GrowPast(a, needed) = GrowTo(a, size) /\ size >= a.num BY <1>0, <2>4, <2>7
  <2>9. /\ Holds(GrowTo(a, size), s) /\ Alloc(GrowTo(a, size)) = size
        /\ GrowTo(a, size).num = a.num /\ GrowTo(a, size).growSize = a.growSize
        /\ GrowTo(a, size).doubles = a.doubles
    BY <2>8, GrowToIs
  <2>. QED BY <1>2, <2>7, <2>8, <2>9
<1>. QED BY <1>1, <1>2

\* What Move does: the elements from place from on are at place to, and there is room behind.
LEMMA MoveIs ==
    ASSUME NEW a, NEW s, Holds(a, s), NEW from \in 0 .. a.num, NEW to \in 0 .. a.num,
           NEW last \in Nat, last = to + (a.num - from), last >= a.num - 1,
           last >= Alloc(a) => CanGrow(a)
    PROVE  LET b == Move(a, from, to) IN
           /\ b \in ArrayType /\ b.num = last /\ last <= Alloc(b) /\ Alloc(b) \in Nat
           /\ last < Alloc(a) => Alloc(b) = Alloc(a)
           /\ \A i \in 1 .. a.num : i <= to => b.mem[i] = s[i]
           /\ \A i \in to + 1 .. last : b.mem[i] = s[(i - to) + from]
<1> DEFINE num == a.num - from
<1>0. /\ a \in ArrayType /\ Alloc(a) \in Nat /\ a.num \in Nat /\ a.num <= Alloc(a)
      /\ num \in Nat /\ last = to + num
  BY DEF Holds, ArrayType, Alloc
<1> HIDE DEF num
<1> DEFINE roomy == GrowPast(a, last)
<1>1. /\ Holds(roomy, s) /\ last <= Alloc(roomy) /\ Alloc(roomy) \in Nat
      /\ roomy.num = a.num
      /\ last < Alloc(a) => Alloc(roomy) = Alloc(a)
  <2>1. CASE last >= a.num
    <3>1. /\ Holds(roomy, s) /\ last < Alloc(roomy) /\ Alloc(roomy) \in Nat
          /\ roomy.num = a.num
          /\ last < Alloc(a) => roomy = a
      BY <2>1, GrowPastIs, Zenon
    <3> HIDE DEF roomy
    <3>. QED BY <3>1
  <2>2. CASE ~(last >= a.num)
    <3>1. last < Alloc(a) BY <1>0, <2>2
    <3>2. roomy = a BY <3>1 DEF GrowPast
    <3>. QED BY <1>0, <3>1, <3>2
  <2>. QED BY <2>1, <2>2
<1> HIDE DEF roomy
<1>2. /\ roomy \in ArrayType /\ roomy.mem \in Seq(Elem) /\ Alloc(roomy) = Len(roomy.mem)
      /\ a.num <= Alloc(roomy) /\ \A i \in 1 .. a.num : roomy.mem[i] = s[i]
  BY <1>1 DEF Holds, ArrayType, Alloc
<1> DEFINE m == Shifted(roomy.mem, from, to, num)
<1>3. CopyEach(roomy.mem, from, to, CopyOrder(num, from, to)) = m
  <2>1. from \in Nat /\ to \in Nat /\ from + num <= Len(roomy.mem) /\ to + num <= Len(roomy.mem)
    BY <1>0, <1>1, <1>2 DEF num
  <2>. QED BY <1>0, <1>2, <2>1, CopiesShift, SMTT(30)
<1>4. \A i \in to + 1 .. last : i \in 1 .. Len(roomy.mem) /\ (i - to) + from \in 1 .. a.num
  BY <1>0, <1>1, <1>2, SMTT(30) DEF num
<1>5. m \in Seq(Elem) /\ Len(m) = Len(roomy.mem)
  <2>1. ASSUME NEW i \in 1 .. Len(roomy.mem)
        PROVE (IF i \in to + 1 .. to + num THEN roomy.mem[(i - to) + from] ELSE roomy.mem[i]) \in Elem
    <3>1. CASE i \in to + 1 .. to + num
      <4>1. (i - to) + from \in 1 .. Len(roomy.mem) BY <1>0, <1>2, <1>4, <3>1, SMTT(30)
      <4>. QED BY <1>2, <3>1, <4>1
    <3>2. CASE i \notin to + 1 .. to + num BY <1>2, <3>2
    <3>. QED BY <3>1, <3>2
  <2>. QED BY <1>2, <2>1 DEF Shifted
<1>6. \A i \in 1 .. a.num : i <= to => m[i] = s[i]
  <2>1. ASSUME NEW i \in 1 .. a.num, i <= to PROVE m[i] = s[i]
    <3>1. i \in 1 .. Len(roomy.mem) /\ i \notin to + 1 .. to + num BY <1>0, <1>1, <1>2, <2>1
    <3>. QED BY <1>2, <3>1 DEF Shifted
  <2>. QED BY <2>1
<1>7. \A i \in to + 1 .. last : m[i] = s[(i - to) + from]
  <2>1. ASSUME NEW i \in to + 1 .. last PROVE m[i] = s[(i - to) + from]
    <3>1. i \in to + 1 .. to + num BY <1>0
    <3>2. m[i] = roomy.mem[(i - to) + from] BY <1>4, <3>1 DEF Shifted
    <3>. QED BY <1>2, <1>4, <3>2
  <2>. QED BY <2>1
<1>8. Move(a, from, to) = [roomy EXCEPT !.mem = CopyEach(roomy.mem, from, to, CopyOrder(num, from, to)),
                                       !.num = to + num]
  BY <1>0 DEF Move, num, roomy
<1>9. Move(a, from, to) = [roomy EXCEPT !.mem = m, !.num = last] BY <1>0, <1>3, <1>8
<1> HIDE DEF m
<1> DEFINE b == With(roomy, m, last)
<1>10. Move(a, from, to) = b BY <1>9 DEF With
<1>11. b \in ArrayType /\ b.mem = m /\ b.num = last BY <1>2, <1>5, BothSet, ZenonT(40)
<1> HIDE DEF b
<1>12. Alloc(b) = Alloc(roomy) BY <1>2, <1>5, <1>11 DEF Alloc
<1>. QED BY <1>1, <1>6, <1>7, <1>10, <1>11, <1>12

-----------------------------------------------------------------------------
(* Sequences with an element more, less or other                           *)

LEMMA PieceIs ==
    ASSUME NEW s \in Seq(Elem), NEW n \in Nat, NEW i \in n .. Len(s)
    PROVE  /\ SubSeq(s, n + 1, i) \in Seq(Elem) /\ Len(SubSeq(s, n + 1, i)) = i - n
           /\ \A j \in 1 .. i - n : SubSeq(s, n + 1, i)[j] = s[n + j]
<1>1. i \in Nat /\ n + 1 <= i + 1 OBVIOUS
<1>. QED BY <1>1

LEMMA InsertedAt ==
    ASSUME NEW s \in Seq(Elem), NEW i \in 1 .. Len(s), NEW e \in Elem
    PROVE  LET t == SeqExt!InsertAt(s, i, e) IN
           /\ t \in Seq(Elem) /\ Len(t) = Len(s) + 1
           /\ \A j \in 1 .. Len(s) + 1 :
                 t[j] = IF j < i THEN s[j] ELSE IF j = i THEN e ELSE s[j - 1]
<1> DEFINE p == SubSeq(s, 1, i - 1)
<1> DEFINE q == SubSeq(s, i, Len(s))
<1>1. /\ p \in Seq(Elem) /\ Len(p) = i - 1 /\ \A j \in 1 .. i - 1 : p[j] = s[j]
  OBVIOUS
<1>2. /\ q \in Seq(Elem) /\ Len(q) = Len(s) - i + 1 /\ \A j \in 1 .. Len(s) - i + 1 : q[j] = s[i + j - 1]
  OBVIOUS
<1> HIDE DEF p, q
<1>3. /\ p \o <<e>> \in Seq(Elem) /\ Len(p \o <<e>>) = i
      /\ \A j \in 1 .. i : (p \o <<e>>)[j] = IF j < i THEN s[j] ELSE e
  BY <1>1
<1> DEFINE pe == p \o <<e>>
<1> HIDE DEF pe
<1>4. pe \in Seq(Elem) /\ Len(pe) = i /\ \A j \in 1 .. i : pe[j] = IF j < i THEN s[j] ELSE e
  BY <1>3 DEF pe
<1>5. SeqExt!InsertAt(s, i, e) = pe \o q BY DEF SeqExt!InsertAt, p, q, pe
<1> DEFINE t == pe \o q
<1>6. t \in Seq(Elem) /\ Len(t) = Len(s) + 1
  <2>1. t \in Seq(Elem) BY <1>2, <1>4
  <2>2. Len(t) = Len(pe) + Len(q) BY <1>2, <1>4, ConcatProperties, Zenon
  <2>. QED BY <1>2, <1>4, <2>1, <2>2
<1>7. \A j \in 1 .. i : t[j] = pe[j] BY <1>2, <1>4
<1>8. \A j \in i + 1 .. Len(s) + 1 : t[j] = q[j - i] /\ j - i \in 1 .. Len(s) - i + 1 BY <1>2, <1>4
<1> HIDE DEF t
<1>9. ASSUME NEW j \in 1 .. Len(s) + 1
      PROVE  t[j] = IF j < i THEN s[j] ELSE IF j = i THEN e ELSE s[j - 1]
  <2>1. CASE j <= i BY <1>4, <1>7, <2>1
  <2>2. CASE j > i
    <3>1. j \in i + 1 .. Len(s) + 1 /\ i + (j - i) - 1 = j - 1 BY <2>2
    <3>. QED BY <1>2, <1>8, <2>2, <3>1
  <2>. QED BY <2>1, <2>2
<1>. QED BY <1>5, <1>6, <1>9 DEF t

LEMMA RemovedAt ==
    ASSUME NEW s \in Seq(Elem), NEW i \in 1 .. Len(s)
    PROVE  LET t == SeqExt!RemoveAt(s, i) IN
           /\ t \in Seq(Elem) /\ Len(t) = Len(s) - 1
           /\ \A j \in 1 .. Len(s) - 1 : t[j] = IF j < i THEN s[j] ELSE s[j + 1]
<1> DEFINE p == SubSeq(s, 1, i - 1)
<1> DEFINE q == SubSeq(s, i + 1, Len(s))
<1>1. /\ p \in Seq(Elem) /\ Len(p) = i - 1 /\ \A j \in 1 .. i - 1 : p[j] = s[j]
  OBVIOUS
<1>2. /\ q \in Seq(Elem) /\ Len(q) = Len(s) - i /\ \A j \in 1 .. Len(s) - i : q[j] = s[i + j]
  OBVIOUS
<1> HIDE DEF p, q
<1>3. SeqExt!RemoveAt(s, i) = p \o q BY DEF SeqExt!RemoveAt, p, q
<1> DEFINE t == p \o q
<1>4. t \in Seq(Elem) /\ Len(t) = Len(s) - 1
  <2>1. t \in Seq(Elem) BY <1>1, <1>2
  <2>2. Len(t) = Len(p) + Len(q) BY <1>1, <1>2, ConcatProperties, Zenon
  <2>. QED BY <1>1, <1>2, <2>1, <2>2
<1>5. \A j \in 1 .. i - 1 : t[j] = p[j] BY <1>1, <1>2
<1>6. \A j \in i .. Len(s) - 1 : t[j] = q[j - i + 1] /\ j - i + 1 \in 1 .. Len(s) - i BY <1>1, <1>2
<1> HIDE DEF t
<1>7. ASSUME NEW j \in 1 .. Len(s) - 1 PROVE t[j] = IF j < i THEN s[j] ELSE s[j + 1]
  <2>1. CASE j < i BY <1>1, <1>5, <2>1
  <2>2. CASE j >= i
    <3>1. j \in i .. Len(s) - 1 /\ i + (j - i + 1) = j + 1 BY <2>2
    <3>. QED BY <1>2, <1>6, <2>2, <3>1
  <2>. QED BY <2>1, <2>2
<1>. QED BY <1>3, <1>4, <1>7 DEF t

\* The sequence without its first element e.
LEMMA RemovedFirst ==
    ASSUME NEW s \in Seq(Elem), NEW e, NEW i \in 1 .. Len(s), s[i] = e,
           \A j \in 1 .. i - 1 : s[j] # e
    PROVE  SeqExt!RemoveFirst(s, e) = SeqExt!RemoveAt(s, i)
<1> DEFINE I == {j \in 1 .. Len(s) : s[j] = e}
<1>1. i \in I /\ (\A j \in I : i <= j) /\ \A j \in I : j \in Nat OBVIOUS
<1>2. SeqExt!RemoveFirst(s, e) = SeqExt!RemoveAt(s, SeqExt!Min(I))
  BY <1>1, Zenon DEF SeqExt!RemoveFirst, SeqExt!SelectInSeq
<1> HIDE DEF I
<1>3. SeqExt!Min(I) \in I /\ \A j \in I : SeqExt!Min(I) <= j BY <1>1, Zenon DEF SeqExt!Min
<1>4. PICK x \in I : x = SeqExt!Min(I) BY <1>3
<1>5. x <= i /\ i <= x /\ x \in Nat /\ i \in Nat BY <1>1, <1>3, <1>4
<1>6. x = i BY <1>5
<1>. QED BY <1>2, <1>4, <1>6

\* A sequence with v at the places of S.
LEMMA OverIs ==
    ASSUME NEW s \in Seq(Elem), NEW v \in Elem, NEW S
    PROVE  LET t == [i \in DOMAIN s |-> IF i \in S THEN v ELSE s[i]] IN
           /\ t \in Seq(Elem) /\ Len(t) = Len(s)
           /\ \A i \in 1 .. Len(s) : t[i] = IF i \in S THEN v ELSE s[i]
<1>1. DOMAIN s = 1 .. Len(s) /\ Len(s) \in Nat OBVIOUS
<1>. QED BY <1>1

-----------------------------------------------------------------------------
(* What calls do to the sequence and its history                           *)

LEMMA FitsItself ==
    ASSUME NEW s \in Seq(Elem)
    PROVE  Fits(s, s)
BY DEF Fits

LEMMA FitsEmpty == Fits(<<>>, <<>>)
<1>1. <<>> \in Seq(Elem) OBVIOUS
<1>. QED BY <1>1, FitsItself

LEMMA FitsJoined ==
    ASSUME NEW s \in Seq(Elem), NEW t, Fits(t, s), NEW q \in Seq(Elem), NEW u, Fits(u, q)
    PROVE  Fits(t \o u, s \o q)
<1>1. /\ t \in Seq(Elem) /\ Len(t) = Len(s) /\ Len(s) \in Nat
      /\ u \in Seq(Elem) /\ Len(u) = Len(q) /\ Len(q) \in Nat
      /\ \A i \in 1 .. Len(s) : t[i] \in {Unknown, s[i]}
      /\ \A i \in 1 .. Len(q) : u[i] \in {Unknown, q[i]}
  BY DEF Fits
<1>2. /\ Len(t \o u) = Len(s) + Len(q) /\ Len(s \o q) = Len(s) + Len(q)
      /\ t \o u \in Seq(Elem)
  <2>1. Len(t \o u) = Len(t) + Len(u) /\ t \o u \in Seq(Elem)
    BY <1>1, ConcatProperties, Zenon
  <2>2. Len(s \o q) = Len(s) + Len(q) BY ConcatProperties, Zenon
  <2>. QED BY <1>1, <2>1, <2>2
<1>3. ASSUME NEW i \in 1 .. Len(s) + Len(q)
      PROVE  (t \o u)[i] \in {Unknown, (s \o q)[i]}
  <2>1. CASE i <= Len(s)
    <3>1. i \in 1 .. Len(s) BY <1>1, <2>1
    <3>2. (t \o u)[i] = t[i] /\ (s \o q)[i] = s[i] BY <1>1, <3>1
    <3>. QED BY <1>1, <3>1, <3>2
  <2>2. CASE ~(i <= Len(s))
    <3>1. i - Len(s) \in 1 .. Len(q) BY <1>1, <2>2
    <3>2. (t \o u)[i] = u[i - Len(s)] /\ (s \o q)[i] = q[i - Len(s)] BY <1>1, <2>2
    <3>. QED BY <1>1, <3>1, <3>2
  <2>. QED BY <2>1, <2>2
<1>. QED BY <1>1, <1>2, <1>3 DEF Fits

LEMMA FitsOne ==
    ASSUME NEW v \in Elem
    PROVE  <<v>> \in Seq(Elem) /\ Fits(<<v>>, <<v>>)
BY DEF Fits

LEMMA FitsUnknown ==
    ASSUME NEW q \in Seq(Elem), NEW n \in Nat, Len(q) = n
    PROVE  Fits(Unknowns(n), q)
<1>1. Unknown \in Elem BY DEF Elem
<1>2. Unknowns(n) \in Seq(Elem) /\ Len(Unknowns(n)) = n /\ \A i \in 1 .. n : Unknowns(n)[i] = Unknown
  BY <1>1 DEF Unknowns
<1>. QED BY <1>2 DEF Fits

LEMMA FitsAppended ==
    ASSUME NEW s \in Seq(Elem), NEW t, Fits(t, s), NEW v \in Elem
    PROVE  Fits(Append(t, v), Append(s, v))
<1>1. /\ t \in Seq(Elem) /\ Len(t) = Len(s) /\ Len(s) \in Nat
      /\ \A i \in 1 .. Len(s) : t[i] \in {Unknown, s[i]}
  BY DEF Fits
<1>. QED BY <1>1 DEF Fits

LEMMA FitsInserted ==
    ASSUME NEW s \in Seq(Elem), NEW t, Fits(t, s), NEW i \in 1 .. Len(s), NEW v \in Elem,
           NEW e \in {Unknown, v}
    PROVE  Fits(SeqExt!InsertAt(t, i, e), SeqExt!InsertAt(s, i, v))
<1>1. /\ t \in Seq(Elem) /\ Len(t) = Len(s) /\ Len(s) \in Nat /\ e \in Elem
      /\ \A j \in 1 .. Len(s) : t[j] \in {Unknown, s[j]}
  BY DEF Fits, Elem
<1> DEFINE a == SeqExt!InsertAt(t, i, e)
<1> DEFINE b == SeqExt!InsertAt(s, i, v)
<1>2. /\ b \in Seq(Elem) /\ Len(b) = Len(s) + 1
      /\ \A j \in 1 .. Len(s) + 1 : b[j] = IF j < i THEN s[j] ELSE IF j = i THEN v ELSE s[j - 1]
  BY InsertedAt
<1>3. /\ a \in Seq(Elem) /\ Len(a) = Len(s) + 1
      /\ \A j \in 1 .. Len(s) + 1 : a[j] = IF j < i THEN t[j] ELSE IF j = i THEN e ELSE t[j - 1]
  <2>1. i \in 1 .. Len(t) /\ t \in Seq(Elem) /\ e \in Elem BY <1>1
  <2>2. /\ a \in Seq(Elem) /\ Len(a) = Len(t) + 1
        /\ \A j \in 1 .. Len(t) + 1 : a[j] = IF j < i THEN t[j] ELSE IF j = i THEN e ELSE t[j - 1]
    BY <2>1, InsertedAt
  <2>. QED BY <1>1, <2>2
<1> HIDE DEF a, b
<1>4. ASSUME NEW j \in 1 .. Len(s) + 1 PROVE a[j] \in {Unknown, b[j]}
  <2>1. CASE j < i
    <3>1. j \in 1 .. Len(s) BY <2>1
    <3>. QED BY <1>1, <1>2, <1>3, <2>1, <3>1
  <2>2. CASE j = i BY <1>2, <1>3, <2>2
  <2>3. CASE j > i
    <3>1. j - 1 \in 1 .. Len(s) /\ ~(j < i) /\ j # i BY <2>3
    <3>. QED BY <1>1, <1>2, <1>3, <3>1
  <2>. QED BY <2>1, <2>2, <2>3
<1>5. Fits(a, b) BY <1>2, <1>3, <1>4 DEF Fits
<1>. QED BY <1>5 DEF a, b

LEMMA FitsRemoved ==
    ASSUME NEW s \in Seq(Elem), NEW t, Fits(t, s), NEW i \in 1 .. Len(s)
    PROVE  Fits(SeqExt!RemoveAt(t, i), SeqExt!RemoveAt(s, i))
<1>1. /\ t \in Seq(Elem) /\ Len(t) = Len(s) /\ Len(s) \in Nat
      /\ \A j \in 1 .. Len(s) : t[j] \in {Unknown, s[j]}
  BY DEF Fits
<1> DEFINE a == SeqExt!RemoveAt(t, i)
<1> DEFINE b == SeqExt!RemoveAt(s, i)
<1>2. /\ b \in Seq(Elem) /\ Len(b) = Len(s) - 1
      /\ \A j \in 1 .. Len(s) - 1 : b[j] = IF j < i THEN s[j] ELSE s[j + 1]
  BY RemovedAt
<1>3. /\ a \in Seq(Elem) /\ Len(a) = Len(s) - 1
      /\ \A j \in 1 .. Len(s) - 1 : a[j] = IF j < i THEN t[j] ELSE t[j + 1]
  <2>1. i \in 1 .. Len(t) BY <1>1
  <2>2. /\ a \in Seq(Elem) /\ Len(a) = Len(t) - 1
        /\ \A j \in 1 .. Len(t) - 1 : a[j] = IF j < i THEN t[j] ELSE t[j + 1]
    BY <1>1, <2>1, RemovedAt
  <2>. QED BY <1>1, <2>2
<1> HIDE DEF a, b
<1>4. ASSUME NEW j \in 1 .. Len(s) - 1 PROVE a[j] \in {Unknown, b[j]}
  <2>1. j \in 1 .. Len(s) /\ j + 1 \in 1 .. Len(s) OBVIOUS
  <2>. QED BY <1>1, <1>2, <1>3, <2>1
<1>5. Fits(a, b) BY <1>2, <1>3, <1>4 DEF Fits
<1>. QED BY <1>5 DEF a, b

LEMMA FitsReplaced ==
    ASSUME NEW s \in Seq(Elem), NEW t, Fits(t, s), NEW i \in 1 .. Len(s), NEW v \in Elem
    PROVE  Fits([t EXCEPT ![i] = v], [s EXCEPT ![i] = v])
<1>1. /\ t \in Seq(Elem) /\ Len(t) = Len(s) /\ Len(s) \in Nat
      /\ \A j \in 1 .. Len(s) : t[j] \in {Unknown, s[j]}
  BY DEF Fits
<1> DEFINE a == [t EXCEPT ![i] = v]
<1> DEFINE b == [s EXCEPT ![i] = v]
<1>2. /\ b \in Seq(Elem) /\ Len(b) = Len(s) /\ \A j \in 1 .. Len(s) : b[j] = IF j = i THEN v ELSE s[j]
  OBVIOUS
<1>3. /\ a \in Seq(Elem) /\ Len(a) = Len(s) /\ \A j \in 1 .. Len(s) : a[j] = IF j = i THEN v ELSE t[j]
  BY <1>1
<1> HIDE DEF a, b
<1>4. Fits(a, b) BY <1>1, <1>2, <1>3 DEF Fits
<1>. QED BY <1>4 DEF a, b

Overlaid(s, S, v) == [i \in DOMAIN s |-> IF i \in S THEN v ELSE s[i]]

LEMMA FitsOver ==
    ASSUME NEW s \in Seq(Elem), NEW t, Fits(t, s), NEW v \in Elem, NEW S
    PROVE  Fits(Overlaid(t, S, v), Overlaid(s, S, v))
<1>1. /\ t \in Seq(Elem) /\ Len(t) = Len(s) /\ Len(s) \in Nat
      /\ \A j \in 1 .. Len(s) : t[j] \in {Unknown, s[j]}
  BY DEF Fits
<1> DEFINE a == Overlaid(t, S, v)
<1> DEFINE b == Overlaid(s, S, v)
<1>2. /\ b \in Seq(Elem) /\ Len(b) = Len(s)
      /\ \A i \in 1 .. Len(s) : b[i] = IF i \in S THEN v ELSE s[i]
  BY OverIs DEF Overlaid
<1>3. /\ a \in Seq(Elem) /\ Len(a) = Len(t)
      /\ \A i \in 1 .. Len(t) : a[i] = IF i \in S THEN v ELSE t[i]
  BY <1>1, OverIs DEF Overlaid
<1> HIDE DEF a, b
<1>4. Fits(a, b) BY <1>1, <1>2, <1>3 DEF Fits
<1>. QED BY <1>4 DEF a, b

-----------------------------------------------------------------------------
(* The operations                                                          *)

LEMMA HeldIs ==
    ASSUME NEW a, NEW s, Holds(a, s)
    PROVE  /\ a \in ArrayType /\ a.num \in Nat /\ a.growSize \in Nat /\ a.mem \in Seq(Elem)
           /\ Alloc(a) = Len(a.mem) /\ Alloc(a) \in Nat /\ a.num <= Alloc(a)
           /\ s \in Seq(Elem) /\ Len(s) = a.num
           /\ \A i \in 1 .. a.num : a.mem[i] = s[i]
BY DEF Holds, ArrayType, Alloc

LEMMA PushedBackIs ==
    ASSUME NEW a, NEW s, Holds(a, s), NEW v \in Elem, a.num = Alloc(a) => CanGrow(a)
    PROVE  Holds(PushedBack(a, v), Append(s, v))
<1>0. a \in ArrayType /\ a.num \in Nat /\ s \in Seq(Elem) /\ Len(s) = a.num /\ Alloc(a) \in Nat
      /\ a.num <= Alloc(a)
  BY HeldIs
<1> DEFINE g == Grow(a)
<1>1. Holds(g, s) /\ Alloc(g) > a.num /\ g.num = a.num
  <2>1. CASE a.num = Alloc(a)
    <3>1. PICK n \in Nat : n = Grown(a, Alloc(a)) /\ n > a.num BY <1>0, <2>1, GrownIsMore
    <3>2. g = GrowTo(a, n) BY <2>1, <3>1 DEF Grow
    <3>3. n >= a.num BY <1>0, <3>1
    <3>4. Holds(GrowTo(a, n), s) /\ Alloc(GrowTo(a, n)) = n /\ GrowTo(a, n).num = a.num
      BY <3>3, GrowToIs
    <3>. QED BY <3>1, <3>2, <3>4
  <2>2. CASE a.num # Alloc(a)
    <3>1. g = a BY <2>2 DEF Grow
    <3>. QED BY <1>0, <2>2, <3>1
  <2>. QED BY <2>1, <2>2
<1> HIDE DEF g
<1>2. /\ g \in ArrayType /\ Alloc(g) \in Nat /\ \A i \in 1 .. a.num : g.mem[i] = s[i]
  BY <1>1, HeldIs
<1> DEFINE p == Put(g, a.num, v)
<1>3. a.num \in 0 .. Alloc(g) - 1 BY <1>0, <1>1, <1>2
<1>4. /\ p \in ArrayType /\ p.mem \in Seq(Elem) /\ Alloc(p) = Alloc(g) /\ p.num = a.num
      /\ \A j \in 1 .. Alloc(g) : p.mem[j] = IF j = a.num + 1 THEN v ELSE g.mem[j]
  <2>1. /\ Put(g, a.num, v) \in ArrayType /\ Put(g, a.num, v).num = g.num
        /\ Put(g, a.num, v).mem = [g.mem EXCEPT ![a.num + 1] = v]
        /\ Put(g, a.num, v).mem \in Seq(Elem) /\ Alloc(Put(g, a.num, v)) = Alloc(g)
        /\ \A j \in 1 .. Alloc(g) : Put(g, a.num, v).mem[j] = IF j = a.num + 1 THEN v ELSE g.mem[j]
    BY <1>2, <1>3, PutIs, Zenon
  <2>. QED BY <1>1, <2>1
<1> HIDE DEF p
<1> DEFINE b == [p EXCEPT !.num = p.num + 1]
<1>5. PushedBack(a, v) = b BY DEF PushedBack, p, g
<1>6. p.num + 1 \in Nat BY <1>0, <1>4
<1>7. b \in ArrayType /\ b.mem = p.mem /\ b.num = p.num + 1 BY <1>4, <1>6, NumSet, Zenon
<1> HIDE DEF b
<1>8. /\ Append(s, v) \in Seq(Elem) /\ Len(Append(s, v)) = a.num + 1
      /\ \A i \in 1 .. a.num + 1 : Append(s, v)[i] = IF i = a.num + 1 THEN v ELSE s[i]
  BY <1>0
<1>9. ASSUME NEW i \in 1 .. a.num + 1 PROVE b.mem[i] = Append(s, v)[i]
  <2>1. i \in 1 .. Alloc(g) BY <1>0, <1>1, <1>2
  <2>2. CASE i = a.num + 1 BY <1>4, <1>7, <1>8, <2>1, <2>2
  <2>3. CASE i # a.num + 1
    <3>1. i \in 1 .. a.num BY <1>0, <2>3
    <3>. QED BY <1>2, <1>4, <1>7, <1>8, <2>1, <2>3, <3>1
  <2>. QED BY <2>2, <2>3
<1>10. Alloc(b) = Alloc(g) /\ b.num = a.num + 1 BY <1>4, <1>7 DEF Alloc
<1>11. Holds(b, Append(s, v)) BY <1>0, <1>1, <1>2, <1>7, <1>8, <1>9, <1>10 DEF Holds
<1>. QED BY <1>5, <1>11

LEMMA RoomIs ==
    ASSUME NEW a, NEW s, Holds(a, s), NEW i \in 0 .. a.num - 1,
           a.num + 1 >= Alloc(a) => CanGrow(a)
    PROVE  LET m == Move(a, i, i + 1) IN
           /\ m \in ArrayType /\ m.num = a.num + 1 /\ a.num + 1 <= Alloc(m) /\ Alloc(m) \in Nat
           /\ \A j \in 1 .. a.num : j <= i + 1 => m.mem[j] = s[j]
           /\ \A j \in (i + 1) + 1 .. a.num + 1 : m.mem[j] = s[(j - (i + 1)) + i]
<1>1. a.num \in Nat /\ i \in Nat /\ i < a.num BY HeldIs
<1>2. /\ i \in 0 .. a.num /\ i + 1 \in 0 .. a.num /\ a.num + 1 \in Nat
      /\ a.num + 1 = (i + 1) + (a.num - i) /\ a.num + 1 >= a.num - 1
  BY <1>1
<1>. QED BY <1>2, MoveIs

\* Room is made at place i, and v put there.
LEMMA InsertedIs ==
    ASSUME NEW a, NEW s, Holds(a, s), NEW i \in 0 .. a.num - 1, NEW v \in Elem,
           a.num + 1 >= Alloc(a) => CanGrow(a)
    PROVE  /\ Holds(Put(Move(a, i, i + 1), i, v), SeqExt!InsertAt(s, i + 1, v))
           /\ Put(Move(a, i, i + 1), i, v) \in ArrayType
           /\ Alloc(Put(Move(a, i, i + 1), i, v)) = Alloc(Move(a, i, i + 1))
<1>0. a \in ArrayType /\ a.num \in Nat /\ s \in Seq(Elem) /\ Len(s) = a.num /\ i \in Nat /\ i < a.num
  BY HeldIs
<1> DEFINE m == Move(a, i, i + 1)
<1>1. /\ m \in ArrayType /\ m.num = a.num + 1 /\ a.num + 1 <= Alloc(m) /\ Alloc(m) \in Nat
      /\ \A j \in 1 .. a.num : j <= i + 1 => m.mem[j] = s[j]
      /\ \A j \in (i + 1) + 1 .. a.num + 1 : m.mem[j] = s[(j - (i + 1)) + i]
  BY RoomIs
<1> HIDE DEF m
<1> DEFINE b == Put(m, i, v)
<1>2. i \in 0 .. Alloc(m) - 1 BY <1>0, <1>1
<1>3. /\ b \in ArrayType /\ b.num = m.num /\ Alloc(b) = Alloc(m)
      /\ \A j \in 1 .. Alloc(m) : b.mem[j] = IF j = i + 1 THEN v ELSE m.mem[j]
  <2>1. /\ Put(m, i, v) \in ArrayType /\ Put(m, i, v).num = m.num
        /\ Put(m, i, v).mem = [m.mem EXCEPT ![i + 1] = v]
        /\ Put(m, i, v).mem \in Seq(Elem) /\ Alloc(Put(m, i, v)) = Alloc(m)
        /\ \A j \in 1 .. Alloc(m) : Put(m, i, v).mem[j] = IF j = i + 1 THEN v ELSE m.mem[j]
    <3>1. m \in ArrayType BY <1>1
    <3>. QED BY <1>2, <3>1, PutIs, SMTT(30)
  <2>. QED BY <2>1
<1> HIDE DEF b
<1> DEFINE t == SeqExt!InsertAt(s, i + 1, v)
<1>4. /\ t \in Seq(Elem) /\ Len(t) = a.num + 1
      /\ \A j \in 1 .. a.num + 1 :
            t[j] = IF j < i + 1 THEN s[j] ELSE IF j = i + 1 THEN v ELSE s[j - 1]
  <2>1. i + 1 \in 1 .. Len(s) BY <1>0
  <2>2. /\ SeqExt!InsertAt(s, i + 1, v) \in Seq(Elem)
        /\ Len(SeqExt!InsertAt(s, i + 1, v)) = Len(s) + 1
        /\ \A j \in 1 .. Len(s) + 1 :
              SeqExt!InsertAt(s, i + 1, v)[j] =
                 IF j < i + 1 THEN s[j] ELSE IF j = i + 1 THEN v ELSE s[j - 1]
    <3>1. s \in Seq(Elem) BY <1>0
    <3>. QED BY <2>1, <3>1, InsertedAt, SMTT(30)
  <2>. QED BY <1>0, <2>2
<1> HIDE DEF t
<1>5. ASSUME NEW j \in 1 .. a.num + 1 PROVE b.mem[j] = t[j]
  <2>1. j \in 1 .. Alloc(m) BY <1>0, <1>1
  <2>2. CASE j < i + 1
    <3>1. j \in 1 .. a.num /\ j <= i + 1 BY <1>0, <2>2
    <3>. QED BY <1>0, <1>1, <1>3, <1>4, <2>1, <2>2, <3>1
  <2>3. CASE j = i + 1 BY <1>0, <1>3, <1>4, <2>1, <2>3
  <2>4. CASE j > i + 1
    <3>1. j \in (i + 1) + 1 .. a.num + 1 /\ (j - (i + 1)) + i = j - 1 BY <1>0, <2>4
    <3>2. m.mem[j] = s[j - 1] BY <1>1, <3>1
    <3>. QED BY <1>0, <1>3, <1>4, <2>1, <2>4, <3>2
  <2>. QED BY <1>0, <2>2, <2>3, <2>4
<1>6. Holds(b, t) BY <1>1, <1>3, <1>4, <1>5 DEF Holds
<1>. QED BY <1>3, <1>6 DEF b, m, t

LEMMA ErasedIs ==
    ASSUME NEW a, NEW s, Holds(a, s), NEW i \in 0 .. a.num - 1
    PROVE  Holds(EraseAt(a, i), SeqExt!RemoveAt(s, i + 1))
<1>0. /\ a \in ArrayType /\ a.num \in Nat /\ s \in Seq(Elem) /\ Len(s) = a.num /\ i \in Nat
      /\ i < a.num /\ Alloc(a) \in Nat /\ a.num <= Alloc(a)
      /\ \A j \in 1 .. a.num : a.mem[j] = s[j]
  BY HeldIs
<1> DEFINE t == SeqExt!RemoveAt(s, i + 1)
<1>1. /\ t \in Seq(Elem) /\ Len(t) = a.num - 1
      /\ \A j \in 1 .. a.num - 1 : t[j] = IF j < i + 1 THEN s[j] ELSE s[j + 1]
  <2>1. i + 1 \in 1 .. Len(s) BY <1>0
  <2>. QED BY <1>0, <2>1, RemovedAt
<1> HIDE DEF t
<1>2. CASE i = a.num - 1
  <2> DEFINE b == [a EXCEPT !.num = a.num - 1]
  <2>1. EraseAt(a, i) = b BY <1>2 DEF EraseAt
  <2>2. a.num - 1 \in Nat BY <1>0, <1>2
  <2>3. b \in ArrayType /\ b.mem = a.mem /\ b.num = a.num - 1 BY <1>0, <2>2, NumSet, Zenon
  <2> HIDE DEF b
  <2>4. ASSUME NEW j \in 1 .. a.num - 1 PROVE b.mem[j] = t[j]
    <3>1. j \in 1 .. a.num /\ j < i + 1 BY <1>0, <1>2
    <3>. QED BY <1>0, <1>1, <2>3, <3>1
  <2>5. Holds(b, t) BY <1>0, <1>1, <2>2, <2>3, <2>4 DEF Holds, Alloc
  <2>. QED BY <2>1, <2>5 DEF t
<1>3. CASE i # a.num - 1
  <2> DEFINE b == Move(a, i + 1, i)
  <2>1. EraseAt(a, i) = b BY <1>3 DEF EraseAt
  <2>2. /\ i + 1 \in 0 .. a.num /\ i \in 0 .. a.num /\ a.num - 1 \in Nat
        /\ a.num - 1 = i + (a.num - (i + 1)) /\ a.num - 1 >= a.num - 1 /\ a.num - 1 < Alloc(a)
    <3>1. a.num \in Nat /\ i \in Nat /\ i < a.num BY <1>0
    <3>2. a.num <= Alloc(a) /\ Alloc(a) \in Nat BY <1>0
    <3>. QED BY <3>1, <3>2
  <2>3. /\ b \in ArrayType /\ b.num = a.num - 1 /\ a.num - 1 <= Alloc(b)
        /\ \A j \in 1 .. a.num : j <= i => b.mem[j] = s[j]
        /\ \A j \in i + 1 .. a.num - 1 : b.mem[j] = s[(j - i) + (i + 1)]
    <3>1. ~(a.num - 1 >= Alloc(a)) BY <1>0, <2>2
    <3>. QED BY <2>2, <3>1, MoveIs
  <2> HIDE DEF b
  <2>4. ASSUME NEW j \in 1 .. a.num - 1 PROVE b.mem[j] = t[j]
    <3>1. CASE j < i + 1
      <4>1. j \in 1 .. a.num /\ j <= i BY <1>0, <3>1
      <4>. QED BY <1>1, <2>3, <3>1, <4>1
    <3>2. CASE j >= i + 1
      <4>1. j \in i + 1 .. a.num - 1 /\ (j - i) + (i + 1) = j + 1 /\ ~(j < i + 1) BY <1>0, <3>2
      <4>. QED BY <1>1, <2>3, <4>1
    <3>. QED BY <1>0, <3>1, <3>2
  <2>5. Holds(b, t) BY <1>1, <2>2, <2>3, <2>4 DEF Holds
  <2>. QED BY <2>1, <2>5 DEF t
<1>. QED BY <1>2, <1>3

LEMMA CopyIs ==
    ASSUME NEW a, NEW s, Holds(a, s)
    PROVE  Holds(Copy(a), s)
<1>1. /\ a.num \in Nat /\ a.num <= Alloc(a) /\ Alloc(a) \in Nat BY HeldIs
<1>2. Holds(GrowTo(a, Alloc(a)), s) BY <1>1, GrowToIs
<1>3. Copy(a) = GrowTo(a, Alloc(a)) BY Zenon DEF Copy, GrowTo
<1>. QED BY <1>2, <1>3

LEMMA BlankIs ==
    ASSUME NEW n \in Nat
    PROVE  Blank(n) \in Seq(Elem) /\ Len(Blank(n)) = n
<1>1. Fresh \in Elem BY DEF Elem
<1>. QED BY <1>1 DEF Blank

LEMMA EmptyIs ==
    ASSUME NEW size \in Nat, NEW grow \in Nat
    PROVE  /\ Holds(EmptyArray(size, grow), <<>>) /\ EmptyArray(size, grow) \in ArrayType
           /\ Alloc(EmptyArray(size, grow)) = size
<1> DEFINE b == EmptyArray(size, grow)
<1>1. Blank(size) \in Seq(Elem) /\ Len(Blank(size)) = size BY BlankIs
<1>2. b \in ArrayType /\ b.num = 0 /\ b.mem = Blank(size) BY <1>1 DEF EmptyArray, ArrayType
<1> HIDE DEF b
<1>3. Holds(b, <<>>) BY <1>1, <1>2 DEF Holds, Alloc
<1>. QED BY <1>1, <1>2, <1>3 DEF b, Alloc

LEMMA FilledIs ==
    ASSUME NEW size \in Nat, NEW grow \in Nat, NEW v \in Elem
    PROVE  Holds(FilledArray(size, grow, v), [i \in 1 .. size |-> v])
<1> DEFINE e == EmptyArray(size, grow)
<1> DEFINE t == [i \in 1 .. size |-> v]
<1>1. t \in Seq(Elem) /\ Len(t) = size OBVIOUS
<1>2. e \in ArrayType BY EmptyIs
<1> HIDE DEF e, t
<1> DEFINE c == [e EXCEPT !.num = size]
<1>3. c \in ArrayType /\ c.num = size BY <1>2, NumSet, Zenon
<1>4. FilledArray(size, grow, v) = [c EXCEPT !.mem = t] BY Zenon DEF FilledArray, e, t
<1> HIDE DEF c
<1> DEFINE b == [c EXCEPT !.mem = t]
<1>5. b \in ArrayType /\ b.mem = t /\ b.num = c.num BY <1>1, <1>3, MemSet, Zenon
<1> HIDE DEF b
<1>6. Holds(b, t) BY <1>1, <1>3, <1>5 DEF Holds, Alloc
<1>7. FilledArray(size, grow, v) = b BY <1>4 DEF b
<1>. QED BY <1>6, <1>7 DEF t

LEMMA FlagsIs ==
    ASSUME NEW a, NEW s, Holds(a, s), NEW d \in BOOLEAN
    PROVE  Holds([a EXCEPT !.doubles = d], s)
<1> DEFINE b == [a EXCEPT !.doubles = d]
<1>1. a \in ArrayType BY HeldIs
<1>2. b \in ArrayType /\ b.mem = a.mem /\ b.num = a.num BY <1>1 DEF ArrayType
<1> HIDE DEF b
<1>3. Holds(b, s) BY <1>2, HeldIs DEF Holds, Alloc
<1>. QED BY <1>3 DEF b

LEMMA ClearedIs ==
    ASSUME NEW a \in ArrayType
    PROVE  Holds([a EXCEPT !.num = 0], <<>>)
<1> DEFINE b == [a EXCEPT !.num = 0]
<1>1. b \in ArrayType /\ b.num = 0 BY NumSet, Zenon
<1> HIDE DEF b
<1>2. Holds(b, <<>>) BY <1>1 DEF Holds, ArrayType, Alloc
<1>. QED BY <1>2 DEF b

\* An index within the array, or one the array is extended to.
LEMMA SetIs ==
    ASSUME NEW a, NEW s, Holds(a, s), NEW i \in Nat, NEW v \in Elem,
           i >= Alloc(a) => CanGrow(a)
    PROVE  LET b == Put(CheckIndex(a, i), i, v) IN
           Holds(b, IF i < Len(s) THEN SeqExt!ReplaceAt(s, i + 1, v)
                    ELSE s \o SubSeq(b.mem, Len(s) + 1, i) \o <<v>>)
<1>0. /\ a \in ArrayType /\ a.num \in Nat /\ a.growSize \in Nat /\ a.mem \in Seq(Elem)
      /\ Alloc(a) = Len(a.mem) /\ Alloc(a) \in Nat /\ a.num <= Alloc(a)
      /\ s \in Seq(Elem) /\ Len(s) = a.num
      /\ \A j \in 1 .. a.num : a.mem[j] = s[j]
  BY HeldIs
<1> DEFINE b == Put(CheckIndex(a, i), i, v)
<1>1. CASE i < a.num
  <2>1. CheckIndex(a, i) = a BY <1>1 DEF CheckIndex
  <2>2. i \in 0 .. Alloc(a) - 1 BY <1>0, <1>1
  <2>3. /\ b \in ArrayType /\ b.num = a.num /\ Alloc(b) = Alloc(a)
        /\ \A j \in 1 .. Alloc(a) : b.mem[j] = IF j = i + 1 THEN v ELSE a.mem[j]
    <3>1. /\ Put(a, i, v) \in ArrayType /\ Put(a, i, v).num = a.num
          /\ Put(a, i, v).mem = [a.mem EXCEPT ![i + 1] = v]
          /\ Put(a, i, v).mem \in Seq(Elem) /\ Alloc(Put(a, i, v)) = Alloc(a)
          /\ \A j \in 1 .. Alloc(a) : Put(a, i, v).mem[j] = IF j = i + 1 THEN v ELSE a.mem[j]
      BY <1>0, <2>2, PutIs
    <3>. QED BY <2>1, <3>1
  <2> HIDE DEF b
  <2> DEFINE t == SeqExt!ReplaceAt(s, i + 1, v)
  <2>4. /\ t \in Seq(Elem) /\ Len(t) = a.num
        /\ \A j \in 1 .. a.num : t[j] = IF j = i + 1 THEN v ELSE s[j]
    BY <1>0, <1>1 DEF SeqExt!ReplaceAt
  <2> HIDE DEF t
  <2>5. \A j \in 1 .. a.num : j \in 1 .. Alloc(a) BY <1>0
  <2>6. Holds(b, t) BY <1>0, <2>3, <2>4, <2>5 DEF Holds
  <2>. QED BY <1>0, <1>1, <2>6 DEF b, t
<1>2. CASE ~(i < a.num)
  <2> DEFINE r == IF i < Alloc(a) THEN a ELSE GrowTo(a, i + a.growSize)
  <2>1. Holds(r, s) /\ i < Alloc(r)
    <3>1. CASE i < Alloc(a) BY <1>0, <3>1
    <3>2. CASE ~(i < Alloc(a))
      <4>1. PICK n \in Nat : n = i + a.growSize /\ n > i /\ n >= a.num
        BY <1>0, <1>2, <3>2, SMTT(30) DEF CanGrow
      <4>2. r = GrowTo(a, n) BY <3>2, <4>1
      <4>3. Holds(GrowTo(a, n), s) /\ Alloc(GrowTo(a, n)) = n BY <4>1, GrowToIs
      <4>. QED BY <4>1, <4>2, <4>3
    <3>. QED BY <3>1, <3>2
  <2> DEFINE c == [r EXCEPT !.num = i + 1]
  <2>2. CheckIndex(a, i) = c BY <1>2 DEF CheckIndex
  <2> HIDE DEF r
  <2>3. r \in ArrayType /\ Alloc(r) \in Nat /\ Alloc(r) = Len(r.mem) /\ i + 1 \in Nat
        /\ r.num = a.num /\ \A j \in 1 .. a.num : r.mem[j] = s[j]
    BY <1>0, <2>1, HeldIs
  <2>4. c \in ArrayType /\ c.mem = r.mem /\ c.num = i + 1 BY <2>3, NumSet, Zenon
  <2> HIDE DEF c
  <2>5. c \in ArrayType /\ i \in 0 .. Alloc(c) - 1 /\ Alloc(c) = Alloc(r)
    BY <2>1, <2>3, <2>4 DEF Alloc
  <2>6. /\ b \in ArrayType /\ b.num = i + 1 /\ Alloc(b) = Alloc(r) /\ b.mem \in Seq(Elem)
        /\ \A j \in 1 .. Alloc(r) : b.mem[j] = IF j = i + 1 THEN v ELSE r.mem[j]
    <3>1. /\ Put(c, i, v) \in ArrayType /\ Put(c, i, v).num = c.num
          /\ Put(c, i, v).mem = [c.mem EXCEPT ![i + 1] = v]
          /\ Put(c, i, v).mem \in Seq(Elem) /\ Alloc(Put(c, i, v)) = Alloc(c)
          /\ \A j \in 1 .. Alloc(c) : Put(c, i, v).mem[j] = IF j = i + 1 THEN v ELSE c.mem[j]
      BY <2>5, PutIs
    <3>. QED BY <2>2, <2>4, <2>5, <3>1
  <2> HIDE DEF b
  <2> DEFINE q == SubSeq(b.mem, Len(s) + 1, i)
  <2>7. /\ q \in Seq(Elem) /\ Len(q) = i - a.num /\ \A j \in 1 .. i - a.num : q[j] = b.mem[a.num + j]
    <3>1. Len(b.mem) = Alloc(r) BY <2>6 DEF Alloc
    <3>2. a.num + 1 \in 1 .. i + 1 /\ i \in a.num .. Len(b.mem) BY <1>0, <1>2, <2>1, <2>3, <3>1
    <3>3. q = SubSeq(b.mem, a.num + 1, i) BY <1>0
    <3> HIDE DEF q
    <3>4. i \in a.num .. Len(b.mem) /\ b.mem \in Seq(Elem) BY <2>6, <3>2
    <3>. QED BY <1>0, <3>3, <3>4, PieceIs
  <2> HIDE DEF q
  <2> DEFINE p == s \o q
  <2>8. p \in Seq(Elem) /\ Len(p) = i
        /\ \A j \in 1 .. i : p[j] = IF j <= a.num THEN s[j] ELSE q[j - a.num]
    <3>1. p \in Seq(Elem) BY <1>0, <2>7
    <3>2. Len(p) = Len(s) + Len(q) BY <1>0, <2>7, ConcatProperties, Zenon
    <3>3. \A j \in 1 .. Len(s) + Len(q) : p[j] = IF j <= Len(s) THEN s[j] ELSE q[j - Len(s)]
      <4>1. s \in Seq(Elem) /\ q \in Seq(Elem) BY <1>0, <2>7
      <4>. QED BY <4>1
    <3>. QED BY <1>0, <1>2, <2>7, <3>1, <3>2, <3>3
  <2> HIDE DEF p
  <2> DEFINE t == p \o <<v>>
  <2>9. t \in Seq(Elem) /\ Len(t) = i + 1
        /\ \A j \in 1 .. i + 1 : t[j] = IF j = i + 1 THEN v ELSE p[j]
    BY <2>8
  <2> HIDE DEF t
  <2>10. ASSUME NEW j \in 1 .. i + 1 PROVE b.mem[j] = t[j]
    <3>0. j \in 1 .. Alloc(r) BY <2>1, <2>3
    <3>1. CASE j = i + 1 BY <2>6, <2>9, <3>0, <3>1
    <3>2. CASE j # i + 1 /\ j <= a.num
      <4>1. j \in 1 .. a.num /\ j \in 1 .. i BY <1>0, <1>2, <3>2
      <4>2. t[j] = s[j] BY <2>8, <2>9, <3>2, <4>1
      <4>. QED BY <2>3, <2>6, <3>0, <3>2, <4>1, <4>2
    <3>3. CASE j # i + 1 /\ j > a.num
      <4>1. j \in 1 .. i /\ j - a.num \in 1 .. i - a.num /\ a.num + (j - a.num) = j /\ ~(j <= a.num)
        BY <1>0, <3>3
      <4>2. t[j] = q[j - a.num] BY <2>8, <2>9, <3>3, <4>1
      <4>. QED BY <2>7, <4>1, <4>2
    <3>. QED BY <1>0, <3>1, <3>2, <3>3
  <2>11. Holds(b, t) BY <2>1, <2>3, <2>6, <2>9, <2>10 DEF Holds
  <2>12. t = s \o SubSeq(b.mem, Len(s) + 1, i) \o <<v>> BY DEF t, p, q
  <2>13. ~(i < Len(s)) BY <1>0, <1>2
  <2> HIDE DEF t, p, q
  <2>. QED BY <2>11, <2>12, <2>13 DEF b
<1>. QED BY <1>1, <1>2

Reserved(g, n, v) ==
    [g EXCEPT !.num = @ + n,
              !.mem = [i \in DOMAIN @ |-> IF i \in g.num + 1 .. g.num + n THEN v ELSE @[i]]]

Row(n, v) == [i \in 1 .. n |-> v]

\* What Reserve made room for is filled.
LEMMA ReservedIs ==
    ASSUME NEW a, NEW s, Holds(a, s), NEW n \in Nat, NEW v \in Elem, n > 0,
           a.num + n >= Alloc(a) => CanGrow(a)
    PROVE  Holds(Reserved(GrowPast(a, a.num + n), n, v), s \o Row(n, v))
<1>0. a.num \in Nat /\ s \in Seq(Elem) /\ Len(s) = a.num BY HeldIs
<1> DEFINE g == GrowPast(a, a.num + n)
<1>1. Holds(g, s) /\ a.num + n < Alloc(g) /\ g.num = a.num
  <2>1. a.num + n \in Nat /\ a.num + n >= a.num BY <1>0
  <2>. QED BY <2>1, GrowPastIs
<1> HIDE DEF g
<1>2. /\ g \in ArrayType /\ g.mem \in Seq(Elem) /\ Alloc(g) = Len(g.mem) /\ Alloc(g) \in Nat
      /\ \A j \in 1 .. a.num : g.mem[j] = s[j]
  BY <1>1, HeldIs
<1> DEFINE m == [i \in DOMAIN g.mem |-> IF i \in a.num + 1 .. a.num + n THEN v ELSE g.mem[i]]
<1>3. /\ m \in Seq(Elem) /\ Len(m) = Alloc(g)
      /\ \A i \in 1 .. Alloc(g) : m[i] = IF i \in a.num + 1 .. a.num + n THEN v ELSE g.mem[i]
  BY <1>2, OverIs
<1> HIDE DEF m
<1> DEFINE c == [g EXCEPT !.num = a.num + n]
<1>4. a.num + n \in Nat BY <1>0
<1>5. c \in ArrayType /\ c.mem = g.mem /\ c.num = a.num + n BY <1>2, <1>4, NumSet, Zenon
<1> HIDE DEF c
<1> DEFINE b == [c EXCEPT !.mem = m]
<1>6. b \in ArrayType /\ b.mem = m /\ b.num = c.num BY <1>3, <1>5, MemSet, Zenon
<1>7. Reserved(g, n, v) = b BY <1>1, <1>5 DEF Reserved, c, m
<1> HIDE DEF b
<1> DEFINE w == Row(n, v)
<1>8. w \in Seq(Elem) /\ Len(w) = n /\ \A i \in 1 .. n : w[i] = v BY DEF Row
<1> HIDE DEF w
<1> DEFINE t == s \o w
<1>9. t \in Seq(Elem) /\ Len(t) = a.num + n
      /\ \A j \in 1 .. a.num + n : t[j] = IF j <= a.num THEN s[j] ELSE w[j - a.num]
  <2>1. t \in Seq(Elem) BY <1>0, <1>8
  <2>2. Len(t) = Len(s) + Len(w) BY <1>0, <1>8, ConcatProperties, Zenon
  <2>3. \A j \in 1 .. Len(s) + Len(w) : t[j] = IF j <= Len(s) THEN s[j] ELSE w[j - Len(s)]
    BY <1>0, <1>8
  <2>. QED BY <1>0, <1>8, <2>1, <2>2, <2>3
<1> HIDE DEF t
<1>10. ASSUME NEW j \in 1 .. a.num + n PROVE b.mem[j] = t[j]
  <2>0. j \in 1 .. Alloc(g) BY <1>0, <1>1, <1>2
  <2>1. CASE j <= a.num
    <3>1. j \in 1 .. a.num /\ j \notin a.num + 1 .. a.num + n BY <1>0, <2>1
    <3>. QED BY <1>2, <1>3, <1>6, <1>9, <2>0, <2>1, <3>1
  <2>2. CASE ~(j <= a.num)
    <3>1. j \in a.num + 1 .. a.num + n /\ j - a.num \in 1 .. n BY <1>0, <2>2
    <3>. QED BY <1>3, <1>6, <1>8, <1>9, <2>0, <2>2, <3>1
  <2>. QED BY <2>1, <2>2
<1>11. Alloc(b) = Alloc(g) /\ a.num + n <= Alloc(g) BY <1>0, <1>1, <1>2, <1>3, <1>6 DEF Alloc
<1>12. Holds(b, t) BY <1>0, <1>5, <1>6, <1>9, <1>10, <1>11 DEF Holds
<1>. QED BY <1>7, <1>12 DEF g, t, w

FilledOver(a, S, v) == [a EXCEPT !.mem = [i \in DOMAIN @ |-> IF i \in S THEN v ELSE @[i]]]

\* Fill writes over the elements, and behind them.
LEMMA FilledOverIs ==
    ASSUME NEW a, NEW s, Holds(a, s), NEW v \in Elem, NEW S
    PROVE  Holds(FilledOver(a, S, v), Overlaid(s, S, v))
<1>1. /\ a \in ArrayType /\ a.num \in Nat /\ a.mem \in Seq(Elem) /\ Alloc(a) = Len(a.mem)
      /\ Alloc(a) \in Nat /\ a.num <= Alloc(a) /\ s \in Seq(Elem) /\ Len(s) = a.num
      /\ \A i \in 1 .. a.num : a.mem[i] = s[i]
  BY HeldIs
<1> DEFINE m == [i \in DOMAIN a.mem |-> IF i \in S THEN v ELSE a.mem[i]]
<1> DEFINE t == Overlaid(s, S, v)
<1>2. /\ m \in Seq(Elem) /\ Len(m) = Alloc(a)
      /\ \A i \in 1 .. Alloc(a) : m[i] = IF i \in S THEN v ELSE a.mem[i]
  <2>1. a.mem \in Seq(Elem) BY <1>1
  <2>2. /\ m \in Seq(Elem) /\ Len(m) = Len(a.mem)
        /\ \A i \in 1 .. Len(a.mem) : m[i] = IF i \in S THEN v ELSE a.mem[i]
    BY <2>1, OverIs
  <2>. QED BY <1>1, <2>2
<1>3. /\ t \in Seq(Elem) /\ Len(t) = a.num
      /\ \A i \in 1 .. a.num : t[i] = IF i \in S THEN v ELSE s[i]
  BY <1>1, OverIs DEF Overlaid
<1> HIDE DEF m, t
<1> DEFINE b == [a EXCEPT !.mem = m]
<1>4. b \in ArrayType /\ b.mem = m /\ b.num = a.num BY <1>1, <1>2, MemSet, Zenon
<1>5. FilledOver(a, S, v) = b BY DEF FilledOver, m
<1> HIDE DEF b
<1>6. Alloc(b) = Alloc(a) BY <1>2, <1>4 DEF Alloc
<1>7. \A i \in 1 .. a.num : i \in 1 .. Alloc(a) BY <1>1
<1>8. \A i \in 1 .. a.num : b.mem[i] = t[i] BY <1>1, <1>2, <1>3, <1>4, <1>7
<1>9. Holds(b, t) BY <1>1, <1>3, <1>4, <1>6, <1>8 DEF Holds
<1>. QED BY <1>5, <1>9 DEF t

-----------------------------------------------------------------------------
LEMMA ArrayInvInit == ArraysInit => ArrayInv
<1>1. 0 \in Nat /\ 16 \in Nat OBVIOUS
<1>2. Holds(EmptyArray(0, 16), <<>>) BY <1>1, EmptyIs, Zenon
<1>3. Fits(<<>>, <<>>) BY FitsEmpty
<1>4. ASSUME ArraysInit PROVE array = EmptyArray(0, 16) /\ items = <<>> BY <1>4 DEF ArraysInit
<1>5. ArraysInit => Holds(array, <<>>) /\ Fits(items, <<>>) BY <1>2, <1>3, <1>4, Zenon
<1>. QED BY <1>5, Zenon DEF ArrayInv

LEMMA ValuesAreElems == \A v \in Value : v \in Elem
BY DEF Elem

\* After a call the invariant holds of what the array has become.
LEMMA BecomesHolds ==
    ASSUME NEW a, NEW s, NEW t, Holds(a, s), ~parted => Fits(t, s), Becomes(a, t)
    PROVE  ArrayInv'
<1>1. array' = a /\ parted' = parted /\ (~parted => items' = t) BY DEF Becomes
<1>. QED BY <1>1, Zenon DEF ArrayInv

LEMMA RenewedHolds ==
    ASSUME NEW a, NEW s, NEW t, Holds(a, s), Fits(t, s), Renewed(a, t)
    PROVE  ArrayInv'
<1>1. array' = a /\ items' = t BY DEF Renewed
<1>. QED BY <1>1, Zenon DEF ArrayInv

LEMMA PartsHolds ==
    ASSUME NEW a, NEW s, Holds(a, s), Parts(a)
    PROVE  ArrayInv'
<1>1. array' = a /\ parted' = TRUE BY DEF Parts
<1>. QED BY <1>1, Zenon DEF ArrayInv

LEMMA PushBackHolds ==
    ASSUME ArrayInv, NEW v \in Value, PushBack(v)
    PROVE  ArrayInv'
<1>1. PICK s : Holds(array, s) /\ (~parted => Fits(items, s)) BY DEF ArrayInv
<1>2. v \in Elem /\ s \in Seq(Elem) BY <1>1, HeldIs, ValuesAreElems
<1>3. Holds(PushedBack(array, v), Append(s, v)) BY <1>1, <1>2, PushedBackIs DEF PushBack
<1>4. ~parted => Fits(Append(items, v), Append(s, v)) BY <1>1, <1>2, FitsAppended
<1>5. Becomes(PushedBack(array, v), Append(items, v)) BY DEF PushBack
<1>. QED BY <1>3, <1>4, <1>5, BecomesHolds, Zenon

LEMMA InsertHolds ==
    ASSUME ArrayInv, NEW i \in Places, NEW v \in Value, Insert(i, v)
    PROVE  ArrayInv'
<1>1. PICK s : Holds(array, s) /\ (~parted => Fits(items, s)) BY DEF ArrayInv
<1>2. v \in Elem /\ s \in Seq(Elem) /\ Len(s) = array.num /\ array.num \in Nat
  BY <1>1, HeldIs, ValuesAreElems
<1>3. i \in 0 .. array.num - 1 /\ i + 1 \in 1 .. Len(s)
  BY <1>2, ArraysAssumption DEF Insert, Places
<1>4. array.num + 1 >= Alloc(array) => CanGrow(array) BY DEF Insert, MoveCanGrow
<1>5. Holds(Put(Move(array, i, i + 1), i, v), SeqExt!InsertAt(s, i + 1, v))
  BY <1>1, <1>2, <1>3, <1>4, InsertedIs
<1>6. ~parted => Fits(SeqExt!InsertAt(items, i + 1, v), SeqExt!InsertAt(s, i + 1, v))
  BY <1>1, <1>2, <1>3, FitsInserted
<1>7. Becomes(Put(Move(array, i, i + 1), i, v), SeqExt!InsertAt(items, i + 1, v)) BY DEF Insert
<1>. QED BY <1>5, <1>6, <1>7, BecomesHolds, Zenon

LEMMA InsertOwnHolds ==
    ASSUME ArrayInv, NEW i \in Places, NEW j \in Places, InsertOwn(i, j)
    PROVE  ArrayInv'
<1>1. PICK s : Holds(array, s) /\ (~parted => Fits(items, s)) BY DEF ArrayInv
<1>0. s \in Seq(Elem) /\ Len(s) = array.num /\ array.num \in Nat BY <1>1, HeldIs
<1>2. i \in 0 .. array.num - 1 /\ j \in 0 .. array.num - 1
  BY <1>0, ArraysAssumption DEF InsertOwn, Places
<1>3. array.num + 1 >= Alloc(array) => CanGrow(array) BY DEF InsertOwn, MoveCanGrow
<1> DEFINE moved == Move(array, i, i + 1)
<1> DEFINE freed == Alloc(moved) # Alloc(array)
<1> DEFINE e == IF freed \/ j > i THEN Unknown ELSE items[j + 1]
<1>4. PICK v \in (IF freed THEN Value ELSE {moved.mem[j + 1]}) :
         Becomes(Put(moved, i, v), SeqExt!InsertAt(items, i + 1, e))
  BY Zenon DEF InsertOwn
<1>5. /\ moved \in ArrayType /\ moved.num = array.num + 1 /\ array.num + 1 <= Alloc(moved)
      /\ Alloc(moved) \in Nat
      /\ \A k \in 1 .. array.num : k <= i + 1 => moved.mem[k] = s[k]
  BY <1>1, <1>2, <1>3, RoomIs
<1>6. v \in Elem
  <2> HIDE DEF moved
  <2>1. CASE freed BY <1>4, <2>1, ValuesAreElems
  <2>2. CASE ~freed
    <3>1. moved.mem \in Seq(Elem) /\ j + 1 \in 1 .. Len(moved.mem)
      BY <1>0, <1>2, <1>5 DEF ArrayType, Alloc
    <3>2. moved.mem[j + 1] \in Elem BY <3>1
    <3>. QED BY <1>4, <2>2, <3>2
  <2>. QED BY <2>1, <2>2
<1>7. Holds(Put(moved, i, v), SeqExt!InsertAt(s, i + 1, v)) BY <1>1, <1>2, <1>3, <1>6, InsertedIs
<1> HIDE DEF moved
<1>8. ASSUME ~parted PROVE Fits(SeqExt!InsertAt(items, i + 1, e), SeqExt!InsertAt(s, i + 1, v))
  <2>1. e \in {Unknown, v}
    <3>1. CASE freed \/ j > i BY <3>1
    <3>2. CASE ~(freed \/ j > i)
      <4>1. j + 1 \in 1 .. array.num /\ j + 1 <= i + 1 BY <1>0, <1>2, <3>2
      <4>2. v = s[j + 1] /\ e = items[j + 1] BY <1>4, <1>5, <3>2, <4>1
      <4>3. items[j + 1] \in {Unknown, s[j + 1]} BY <1>0, <1>1, <1>8, <4>1 DEF Fits
      <4>. QED BY <4>2, <4>3
    <3>. QED BY <3>1, <3>2
  <2> HIDE DEF e
  <2>2. i + 1 \in 1 .. Len(s) BY <1>0, <1>2
  <2>. QED BY <1>0, <1>1, <1>6, <1>8, <2>1, <2>2, FitsInserted
<1> HIDE DEF e
<1>. QED BY <1>4, <1>7, <1>8, BecomesHolds, Zenon

LEMMA EraseHolds ==
    ASSUME ArrayInv, NEW i \in Places, Erase(i)
    PROVE  ArrayInv'
<1>1. PICK s : Holds(array, s) /\ (~parted => Fits(items, s)) BY DEF ArrayInv
<1>2. s \in Seq(Elem) /\ Len(s) = array.num /\ array.num \in Nat BY <1>1, HeldIs
<1>3. i \in 0 .. array.num - 1 /\ i + 1 \in 1 .. Len(s)
  BY <1>2, ArraysAssumption DEF Erase, Places
<1>4. Holds(EraseAt(array, i), SeqExt!RemoveAt(s, i + 1)) BY <1>1, <1>3, ErasedIs
<1>5. ~parted => Fits(SeqExt!RemoveAt(items, i + 1), SeqExt!RemoveAt(s, i + 1))
  BY <1>1, <1>2, <1>3, FitsRemoved
<1>6. Becomes(EraseAt(array, i), SeqExt!RemoveAt(items, i + 1)) BY DEF Erase
<1>. QED BY <1>4, <1>5, <1>6, BecomesHolds, Zenon

\* FindIndex finds the first element that is v, and -1 tells that there is none.
LEMMA FindIndexIs ==
    ASSUME NEW s, Holds(array, s), NEW v, FindIndex(v) # -1
    PROVE  /\ FindIndex(v) \in 0 .. array.num - 1 /\ s[FindIndex(v) + 1] = v
           /\ \A j \in 1 .. FindIndex(v) : s[j] # v
<1>0. /\ array.num \in Nat /\ \A i \in 1 .. array.num : array.mem[i] = s[i]
  BY HeldIs
\* The first such place from i on.
<1> DEFINE First(i, k) == /\ k \in i .. array.num - 1 /\ array.mem[k + 1] = v
                          /\ \A j \in i .. k - 1 : array.mem[j + 1] # v
<1> DEFINE Tells(i, r) == \/ r = -1 /\ \A j \in i .. array.num - 1 : array.mem[j + 1] # v
                          \/ First(i, r)
<1> DEFINE From[i \in 0 .. array.num] ==
            IF i = array.num THEN -1 ELSE IF array.mem[i + 1] = v THEN i ELSE From[i + 1]
<1>1. \E f : /\ \A i \in 0 .. array.num : Tells(i, f[i])
             /\ f = [i \in 0 .. array.num |->
                        IF i = array.num THEN -1 ELSE IF array.mem[i + 1] = v THEN i ELSE f[i + 1]]
  <2>1. \A i \in 0 .. array.num : \E r : Tells(i, r)
    <3>1. SUFFICES ASSUME NEW i \in 0 .. array.num PROVE \E r : Tells(i, r) OBVIOUS
    <3> DEFINE T == {j \in i .. array.num - 1 : array.mem[j + 1] = v}
    <3>2. CASE T = {}
      <4>1. Tells(i, -1) BY <3>2
      <4>. QED BY <4>1
    <3>3. CASE T # {}
      <4>1. PICK x \in T : \A y \in T : x <= y
        <5>1. T \in SUBSET Nat BY <1>0
        <5> HIDE DEF T
        <5>. QED BY <3>3, <5>1, Least
      <4>2. First(i, x) BY <1>0, <4>1
      <4>. QED BY <4>2
    <3>. QED BY <3>2, <3>3
  <2> DEFINE choice(i) == CHOOSE r : Tells(i, r)
  <2> DEFINE f == [i \in 0 .. array.num |-> choice(i)]
  <2>2. \A i \in 0 .. array.num : Tells(i, f[i])
    <3>1. SUFFICES ASSUME NEW i \in 0 .. array.num PROVE Tells(i, f[i]) OBVIOUS
    <3>2. f[i] = CHOOSE r : Tells(i, r) OBVIOUS
    <3> HIDE DEF f, Tells, choice
    <3>. QED BY <2>1, <3>2
  <2>3. ASSUME NEW i \in 0 .. array.num
        PROVE  f[i] = IF i = array.num THEN -1 ELSE IF array.mem[i + 1] = v THEN i ELSE f[i + 1]
    <3> HIDE DEF f
    <3>1. CASE i = array.num
      <4>1. ~\E k : k \in i .. array.num - 1 BY <1>0, <3>1
      <4>2. ~First(i, f[i]) BY <4>1
      <4> HIDE DEF First
      <4>. QED BY <2>2, <3>1, <4>2
    <3>2. CASE i # array.num /\ array.mem[i + 1] = v
      <4>1. i \in i .. array.num - 1 BY <1>0, <3>2
      <4>2. First(i, f[i]) BY <2>2, <3>2, <4>1
      <4>3. ~(f[i] > i)
        <5>1. f[i] \in Int /\ i \in Int BY <1>0, <4>2
        <5>2. f[i] > i => i \in i .. f[i] - 1 BY <5>1
        <5>. QED BY <3>2, <4>2, <5>2
      <4>4. f[i] >= i /\ f[i] \in Int /\ i \in Int BY <1>0, <4>2
      <4>5. f[i] = i BY <4>3, <4>4
      <4>. QED BY <3>2, <4>5
    <3>3. CASE i # array.num /\ array.mem[i + 1] # v
      <4>1. i + 1 \in 0 .. array.num /\ i \in Nat BY <1>0, <3>3
      <4>2. Tells(i, f[i]) /\ Tells(i + 1, f[i + 1]) BY <2>2, <4>1
      <4>3. CASE f[i + 1] = -1 /\ \A j \in i + 1 .. array.num - 1 : array.mem[j + 1] # v
        <5>1. \A j \in i .. array.num - 1 : array.mem[j + 1] # v
          <6>1. \A j \in i .. array.num - 1 : j = i \/ j \in i + 1 .. array.num - 1 BY <1>0, <4>1
          <6>. QED BY <3>3, <4>3, <6>1
        <5>2. ~First(i, f[i]) BY <5>1
        <5> HIDE DEF First
        <5>. QED BY <3>3, <4>2, <4>3, <5>2
      <4>4. CASE First(i + 1, f[i + 1])
        <5>1. PICK k \in i + 1 .. array.num - 1 :
                 k = f[i + 1] /\ array.mem[k + 1] = v /\ \A j \in i + 1 .. k - 1 : array.mem[j + 1] # v
          BY <4>4
        <5>2. k \in i .. array.num - 1 BY <1>0, <4>1
        <5>3. PICK l \in i .. array.num - 1 :
                 l = f[i] /\ array.mem[l + 1] = v /\ \A j \in i .. l - 1 : array.mem[j + 1] # v
          BY <4>2, <5>1, <5>2
        <5>4. l \in i + 1 .. array.num - 1 BY <1>0, <3>3, <4>1, <5>3
        <5>5. k \in Int /\ l \in Int BY <1>0
        <5>6. ~(l < k)
          <6>1. l < k => l \in i + 1 .. k - 1 BY <4>1, <5>4, <5>5
          <6>. QED BY <5>1, <5>3, <6>1
        <5>7. ~(k < l)
          <6>1. k < l => k \in i .. l - 1 BY <4>1, <5>2, <5>5
          <6>. QED BY <5>1, <5>3, <6>1
        <5>8. k = l BY <5>5, <5>6, <5>7
        <5>. QED BY <3>3, <5>1, <5>3, <5>8
      <4> HIDE DEF First
      <4>. QED BY <4>2, <4>3, <4>4
    <3>. QED BY <3>1, <3>2, <3>3
  <2>4. f = [i \in 0 .. array.num |->
                IF i = array.num THEN -1 ELSE IF array.mem[i + 1] = v THEN i ELSE f[i + 1]]
    <3> HIDE DEF choice
    <3>1. f = [i \in 0 .. array.num |-> f[i]] OBVIOUS
    <3> HIDE DEF f
    <3>. QED BY <2>3, <3>1, Zenon
  <2> HIDE DEF f, Tells
  <2>. QED BY <2>2, <2>4
<1>2. From = [i \in 0 .. array.num |->
                 IF i = array.num THEN -1 ELSE IF array.mem[i + 1] = v THEN i ELSE From[i + 1]]
  <2>1. PICK f : f = [i \in 0 .. array.num |->
                        IF i = array.num THEN -1 ELSE IF array.mem[i + 1] = v THEN i ELSE f[i + 1]]
    <3> HIDE DEF Tells
    <3>. QED BY <1>1
  <2>. QED BY <2>1, Zenon
<1>3. FindIndex(v) = From[0] BY Zenon DEF FindIndex
<1> HIDE DEF From
<1>4. \A i \in 0 .. array.num : Tells(i, From[i])
  <2> DEFINE T == {j \in 0 .. array.num : ~Tells(array.num - j, From[array.num - j])}
  <2>1. T = {}
    <3>1. SUFFICES ASSUME T # {} PROVE FALSE OBVIOUS
    <3>2. PICK x \in T : \A y \in T : x <= y
      <4> HIDE DEF Tells
      <4>1. T \in SUBSET Nat BY <1>0
      <4> HIDE DEF T
      <4>. QED BY <3>1, <4>1, Least
    <3>3. PICK i \in 0 .. array.num : i = array.num - x /\ ~Tells(i, From[i]) BY <1>0, <3>2
    <3>4. From[i] = IF i = array.num THEN -1 ELSE IF array.mem[i + 1] = v THEN i ELSE From[i + 1]
      BY <1>2, Zenon
    <3>5. i # array.num
      <4>1. ASSUME i = array.num PROVE FALSE
        <5>1. From[i] = -1 /\ ~\E k : k \in i .. array.num - 1 BY <1>0, <3>4, <4>1
        <5>. QED BY <3>3, <5>1
      <4>. QED BY <4>1
    <3>6. /\ i + 1 \in 0 .. array.num /\ x - 1 \in 0 .. array.num /\ ~(x <= x - 1)
          /\ i + 1 = array.num - (x - 1) /\ i \in Nat
      BY <1>0, <3>3, <3>5
    <3>7. Tells(i + 1, From[i + 1])
      <4> HIDE DEF Tells
      <4>1. x - 1 \notin T BY <3>2, <3>6
      <4>. QED BY <3>6, <4>1
    <3>8. CASE array.mem[i + 1] = v
      <4>1. From[i] = i /\ i \in i .. array.num - 1 /\ ~\E j : j \in i .. i - 1
        BY <1>0, <3>4, <3>5, <3>6, <3>8
      <4>2. First(i, From[i]) BY <3>8, <4>1
      <4>. QED BY <3>3, <4>2
    <3>9. CASE array.mem[i + 1] # v
      <4>1. From[i] = From[i + 1] BY <3>4, <3>5, <3>9
      <4>2. CASE From[i + 1] = -1 /\ \A j \in i + 1 .. array.num - 1 : array.mem[j + 1] # v
        <5>1. \A j \in i .. array.num - 1 : j = i \/ j \in i + 1 .. array.num - 1 BY <1>0, <3>6
        <5>2. \A j \in i .. array.num - 1 : array.mem[j + 1] # v BY <3>9, <4>2, <5>1
        <5>. QED BY <3>3, <4>1, <4>2, <5>2
      <4>3. CASE First(i + 1, From[i + 1])
        <5>1. PICK k \in i + 1 .. array.num - 1 :
                 k = From[i + 1] /\ array.mem[k + 1] = v /\ \A j \in i + 1 .. k - 1 : array.mem[j + 1] # v
          BY <4>3
        <5>2. k \in i .. array.num - 1 BY <1>0, <3>6
        <5>3. \A j \in i .. k - 1 : j = i \/ j \in i + 1 .. k - 1 BY <1>0, <3>6
        <5>4. First(i, k) BY <3>9, <5>1, <5>2, <5>3
        <5> HIDE DEF First
        <5>. QED BY <3>3, <4>1, <5>1, <5>4
      <4> HIDE DEF First
      <4>. QED BY <3>7, <4>2, <4>3
    <3>. QED BY <3>8, <3>9
  <2> HIDE DEF Tells
  <2>2. ASSUME NEW i \in 0 .. array.num PROVE Tells(i, From[i])
    <3>1. array.num - i \in 0 .. array.num /\ array.num - (array.num - i) = i BY <1>0
    <3>. QED BY <2>1, <3>1
  <2>. QED BY <2>2
<1>5. First(0, From[0])
  <2>1. 0 \in 0 .. array.num BY <1>0
  <2> HIDE DEF First
  <2>. QED BY <1>3, <1>4, <2>1
<1>6. PICK k \in 0 .. array.num - 1 :
         k = FindIndex(v) /\ array.mem[k + 1] = v /\ \A j \in 0 .. k - 1 : array.mem[j + 1] # v
  BY <1>3, <1>5
<1>7. s[k + 1] = v BY <1>0, <1>6
<1>8. ASSUME NEW j \in 1 .. k PROVE s[j] # v
  <2>1. j - 1 \in 0 .. k - 1 /\ (j - 1) + 1 = j /\ j \in 1 .. array.num BY <1>0
  <2>. QED BY <1>0, <1>6, <2>1
<1>. QED BY <1>6, <1>7, <1>8

LEMMA EraseFoundHolds ==
    ASSUME ArrayInv, NEW v \in Value, EraseFound(v)
    PROVE  ArrayInv'
<1>1. PICK s : Holds(array, s) /\ (~parted => Fits(items, s)) BY DEF ArrayInv
<1>2. /\ s \in Seq(Elem) /\ Len(s) = array.num /\ array.num \in Nat
      /\ \A i \in 1 .. array.num : array.mem[i] = s[i]
  BY <1>1, HeldIs
<1>3. PICK i : i = FindIndex(v) OBVIOUS
<1>4. i \in 0 .. array.num - 1 /\ s[i + 1] = v /\ \A j \in 1 .. i : s[j] # v
  BY <1>1, <1>3, FindIndexIs DEF EraseFound
<1>5. i + 1 \in 1 .. Len(s) /\ (i + 1) - 1 = i BY <1>2, <1>4
<1>6. Holds(EraseAt(array, i), SeqExt!RemoveAt(s, i + 1)) BY <1>1, <1>4, ErasedIs
<1>7. SeqExt!RemoveFirst(s, v) = SeqExt!RemoveAt(s, i + 1) BY <1>2, <1>4, <1>5, RemovedFirst
<1>8. ~parted => Read = s
  <2> SUFFICES ASSUME ~parted PROVE Read = s OBVIOUS
  <2>1. /\ items \in Seq(Elem) /\ Len(items) = array.num
        /\ \A k \in 1 .. array.num : items[k] \in {Unknown, s[k]}
    BY <1>1, <1>2 DEF Fits
  <2>2. DOMAIN items = 1 .. array.num BY <2>1
  <2>3. \A k \in 1 .. array.num :
           (IF items[k] = Unknown THEN array.mem[k] ELSE items[k]) = s[k]
    BY <1>2, <2>1
  <2>4. Read = [k \in 1 .. array.num |-> s[k]] BY <2>2, <2>3 DEF Read
  <2>5. s = [k \in 1 .. array.num |-> s[k]] BY <1>2
  <2>. QED BY <2>4, <2>5
<1>9. SeqExt!RemoveAt(s, i + 1) \in Seq(Elem) BY <1>2, <1>5, RemovedAt
<1>10. ~parted => Fits(SeqExt!RemoveFirst(Read, v), SeqExt!RemoveAt(s, i + 1))
  BY <1>7, <1>8, <1>9, FitsItself
<1>11. Becomes(EraseAt(array, i), SeqExt!RemoveFirst(Read, v)) BY <1>3, Zenon DEF EraseFound
<1>. QED BY <1>6, <1>10, <1>11, BecomesHolds, Zenon

LEMMA SetHolds ==
    ASSUME ArrayInv, NEW i \in Places, NEW v \in Value, Set(i, v)
    PROVE  ArrayInv'
<1>1. PICK s : Holds(array, s) /\ (~parted => Fits(items, s)) BY DEF ArrayInv
<1>2. /\ i \in Nat /\ v \in Elem /\ s \in Seq(Elem) /\ Len(s) \in Nat
      /\ i >= Alloc(array) => CanGrow(array)
  BY <1>1, HeldIs, ArraysAssumption, ValuesAreElems DEF Set, Places
<1> DEFINE a == Put(CheckIndex(array, i), i, v)
<1> DEFINE q == SubSeq(a.mem, Len(s) + 1, i)
<1> DEFINE u == IF i < Len(s) THEN SeqExt!ReplaceAt(s, i + 1, v) ELSE s \o q \o <<v>>
<1> DEFINE t == IF i < Len(items) THEN SeqExt!ReplaceAt(items, i + 1, v)
                ELSE items \o Unknowns(i - Len(items)) \o <<v>>
<1>3. Holds(a, u) BY <1>1, <1>2, SetIs
<1>4. Becomes(a, t) BY Zenon DEF Set
<1>5. ~(i < Len(s)) => q \in Seq(Elem) /\ Len(q) = i - Len(s)
  <2>1. SUFFICES ASSUME ~(i < Len(s)) PROVE q \in Seq(Elem) /\ Len(q) = i - Len(s) OBVIOUS
  <2>2. a.mem \in Seq(Elem) /\ a.num <= Len(a.mem) /\ Len(u) = a.num /\ u \in Seq(Elem)
    <3> HIDE DEF a, u
    <3>. QED BY <1>3, HeldIs
  <2>3. a.num = i + 1
    <3>1. array \in ArrayType /\ array.num = Len(s) /\ Alloc(array) \in Nat BY <1>1, HeldIs
    <3>2. CheckIndex(array, i) = [IF i < Alloc(array) THEN array
                                  ELSE GrowTo(array, i + array.growSize) EXCEPT !.num = i + 1]
      BY <2>1, <3>1 DEF CheckIndex
    <3> DEFINE g == IF i < Alloc(array) THEN array ELSE GrowTo(array, i + array.growSize)
    <3>3. g \in ArrayType
      <4>1. CASE i < Alloc(array) BY <3>1, <4>1
      <4>2. CASE ~(i < Alloc(array))
        <5>1. array.growSize \in Nat BY <1>1, HeldIs
        <5>2. PICK n \in Nat : n = i + array.growSize /\ n >= array.num
          BY <1>2, <2>1, <3>1, <5>1
        <5>3. Holds(GrowTo(array, n), s) BY <1>1, <5>2, GrowToIs
        <5>4. GrowTo(array, n) \in ArrayType BY <5>3, HeldIs
        <5>. QED BY <4>2, <5>2, <5>4
      <4>. QED BY <4>1, <4>2
    <3> HIDE DEF g
    <3>4. i + 1 \in Nat BY <1>2
    <3>5. [g EXCEPT !.num = i + 1] \in ArrayType /\ [g EXCEPT !.num = i + 1].num = i + 1
      BY <3>3, <3>4, NumSet, Zenon
    <3>6. CheckIndex(array, i) \in ArrayType /\ CheckIndex(array, i).num = i + 1
      BY <3>2, <3>5, Zenon DEF g
    <3>. QED BY <3>6 DEF Put, ArrayType
  <2> HIDE DEF a
  <2>4. /\ Len(s) \in Nat /\ i \in Len(s) .. Len(a.mem)
    BY <1>2, <2>1, <2>2, <2>3
  <2>. QED BY <2>2, <2>4, PieceIs
<1>6. ASSUME ~parted PROVE Fits(t, u)
  <2> HIDE DEF a, q
  <2>1. Fits(items, s) /\ items \in Seq(Elem) /\ Len(items) = Len(s) BY <1>1, <1>6 DEF Fits
  <2>2. CASE i < Len(s)
    <3>1. /\ t = [items EXCEPT ![i + 1] = v] /\ u = [s EXCEPT ![i + 1] = v]
      BY <2>1, <2>2 DEF SeqExt!ReplaceAt
    <3> HIDE DEF t, u
    <3>2. i + 1 \in 1 .. Len(s) BY <1>2, <2>2
    <3>. QED BY <1>2, <2>1, <3>1, <3>2, FitsReplaced
  <2>3. CASE ~(i < Len(s))
    <3>1. i - Len(s) \in Nat /\ q \in Seq(Elem) /\ Len(q) = i - Len(s) BY <1>2, <1>5, <2>3
    <3>2. Fits(Unknowns(i - Len(s)), q) BY <3>1, FitsUnknown
    <3>3. Fits(items \o Unknowns(i - Len(s)), s \o q) BY <1>2, <2>1, <3>1, <3>2, FitsJoined
    <3>4. s \o q \in Seq(Elem) BY <1>2, <3>1
    <3>5. Fits((items \o Unknowns(i - Len(s))) \o <<v>>, (s \o q) \o <<v>>)
      BY <1>2, <3>3, <3>4, FitsOne, FitsJoined
    <3>. QED BY <2>1, <2>3, <3>5
  <2>. QED BY <2>2, <2>3
<1> HIDE DEF a, t, u
<1>. QED BY <1>3, <1>4, <1>6, BecomesHolds, Zenon

LEMMA ReserveHolds ==
    ASSUME ArrayInv, NEW n \in 1 .. 2, NEW v \in Value, Reserve(n, v)
    PROVE  ArrayInv'
<1>1. PICK s : Holds(array, s) /\ (~parted => Fits(items, s)) BY DEF ArrayInv
<1>2. /\ n \in Nat /\ n > 0 /\ v \in Elem /\ s \in Seq(Elem)
      /\ array.num + n >= Alloc(array) => CanGrow(array)
  BY <1>1, HeldIs, ValuesAreElems DEF Reserve
<1> DEFINE b == Reserved(GrowPast(array, array.num + n), n, v)
<1>3. Holds(b, s \o Row(n, v)) BY <1>1, <1>2, ReservedIs
<1>4. Row(n, v) \in Seq(Elem) BY <1>2 DEF Row
<1>5. ~parted => Fits(items \o Row(n, v), s \o Row(n, v))
  BY <1>1, <1>2, <1>4, FitsItself, FitsJoined
<1>6. Becomes(b, items \o Row(n, v)) BY Zenon DEF Reserve, Reserved, Row
<1> HIDE DEF b
<1>. QED BY <1>3, <1>5, <1>6, BecomesHolds, Zenon

LEMMA FillHolds ==
    ASSUME ArrayInv, NEW first \in Places, NEW n \in 1 .. 2, NEW v \in Value, Fill(first, n, v)
    PROVE  ArrayInv'
<1>1. PICK s : Holds(array, s) /\ (~parted => Fits(items, s)) BY DEF ArrayInv
<1>2. array.num \in Nat /\ v \in Elem /\ s \in Seq(Elem) BY <1>1, HeldIs, ValuesAreElems
<1>3. PICK past \in Nat : past = first + n BY ArraysAssumption DEF Places
<1> DEFINE a == IF past > array.num THEN GrowTo(array, past) ELSE array
<1> DEFINE S == first + 1 .. past
<1> DEFINE Over(q) == Overlaid(q, S, v)
<1>4. Holds(a, s)
  <2>1. CASE past > array.num
    <3>1. past >= array.num BY <1>2, <2>1
    <3>2. Holds(GrowTo(array, past), s) BY <1>1, <3>1, GrowToIs
    <3>. QED BY <2>1, <3>2
  <2>2. CASE ~(past > array.num) BY <1>1, <2>2
  <2>. QED BY <2>1, <2>2
<1> DEFINE b == FilledOver(a, S, v)
<1>5. IF past > array.num THEN Parts(b) ELSE Becomes(b, Over(items))
  BY <1>3, Zenon DEF Fill, FilledOver, Overlaid
<1>6. Holds(b, Over(s))
  <2> HIDE DEF a, S
  <2>. QED BY <1>2, <1>4, FilledOverIs
<1>7. ~parted => Fits(Over(items), Over(s))
  <2> HIDE DEF S
  <2>. QED BY <1>1, <1>2, FitsOver
<1> HIDE DEF b, Over
<1>8. CASE past > array.num
  <2>1. Parts(b) BY <1>5, <1>8
  <2>. QED BY <1>6, <2>1, PartsHolds, Zenon
<1>9. CASE ~(past > array.num)
  <2>1. Becomes(b, Over(items)) BY <1>5, <1>9
  <2>. QED BY <1>6, <1>7, <2>1, BecomesHolds, Zenon
<1>. QED BY <1>8, <1>9

LEMMA ConstructArrayHolds ==
    ASSUME NEW size \in 0 .. MaxAlloc, NEW grow \in GrowSizes, ConstructArray(size, grow)
    PROVE  ArrayInv'
<1>1. size \in Nat /\ grow \in Nat /\ 0 \in Nat BY ArraysAssumption
<1>2. CASE Renewed(EmptyArray(size, grow), <<>>)
  <2>1. Holds(EmptyArray(size, grow), <<>>) BY <1>1, EmptyIs, Zenon
  <2>2. Fits(<<>>, <<>>) BY FitsEmpty
  <2>. QED BY <1>2, <2>1, <2>2, RenewedHolds, Zenon
<1>3. ASSUME NEW v \in Value, Renewed(FilledArray(size, grow, v), Row(size, v))
      PROVE  ArrayInv'
  <2>1. v \in Elem BY ValuesAreElems
  <2>2. Holds(FilledArray(size, grow, v), Row(size, v)) BY <1>1, <2>1, FilledIs, Zenon DEF Row
  <2>3. Row(size, v) \in Seq(Elem) BY <1>1, <2>1 DEF Row
  <2>. QED BY <1>3, <2>2, <2>3, FitsItself, RenewedHolds, Zenon
<1>4. CASE Renewed(FilledArray(size, 0, Fresh), Unknowns(size))
  <2>1. Fresh \in Elem BY DEF Elem
  <2>2. Holds(FilledArray(size, 0, Fresh), Row(size, Fresh)) BY <1>1, <2>1, FilledIs, Zenon DEF Row
  <2>3. Row(size, Fresh) \in Seq(Elem) /\ Len(Row(size, Fresh)) = size BY <1>1, <2>1 DEF Row
  <2>4. Fits(Unknowns(size), Row(size, Fresh)) BY <1>1, <2>3, FitsUnknown
  <2>. QED BY <1>4, <2>2, <2>4, RenewedHolds, Zenon
<1>. QED BY <1>2, <1>3, <1>4, Zenon DEF ConstructArray, Row

LEMMA WholeArrayHolds ==
    ASSUME ArrayInv, Clear \/ CopyConstruct \/ AssignSelf \/ (\E d \in BOOLEAN : SetFlags(d))
    PROVE  ArrayInv'
<1>1. PICK s : Holds(array, s) /\ (~parted => Fits(items, s)) BY DEF ArrayInv
<1>2. Fits(<<>>, <<>>) BY FitsEmpty
<1>3. CASE Clear
  <2>1. array \in ArrayType BY <1>1, HeldIs
  <2>2. Holds([array EXCEPT !.num = 0], <<>>) BY <2>1, ClearedIs, Zenon
  <2>. QED BY <1>2, <1>3, <2>2, RenewedHolds, Zenon DEF Clear
<1>4. CASE CopyConstruct
  <2>1. Holds(Copy(array), s) BY <1>1, CopyIs, Zenon
  <2>. QED BY <1>1, <1>4, <2>1, BecomesHolds, Zenon DEF CopyConstruct
<1>5. CASE AssignSelf
  <2>1. 0 \in Nat OBVIOUS
  <2>2. Holds(EmptyArray(0, 0), <<>>) BY <2>1, EmptyIs, Zenon
  <2>3. Holds(Copy(EmptyArray(0, 0)), <<>>) BY <2>2, CopyIs, Zenon
  <2>4. CASE Parts(Copy(EmptyArray(0, 0))) BY <2>3, <2>4, PartsHolds, Zenon
  <2>5. CASE Becomes(Copy(EmptyArray(0, 0)), <<>>) BY <1>2, <2>3, <2>5, BecomesHolds, Zenon
  <2>. QED BY <1>5, <2>4, <2>5, Zenon DEF AssignSelf
<1>6. ASSUME NEW d \in BOOLEAN, SetFlags(d) PROVE ArrayInv'
  <2>1. Holds([array EXCEPT !.doubles = d], s) BY <1>1, FlagsIs, Zenon
  <2>. QED BY <1>1, <1>6, <2>1, BecomesHolds, Zenon DEF SetFlags
<1>. QED BY <1>3, <1>4, <1>5, <1>6, Zenon

LEMMA ArrayInvNext == ArrayInv /\ [ArraysNext]_arrayVars => ArrayInv'
<1> SUFFICES ASSUME ArrayInv, [ArraysNext]_arrayVars PROVE ArrayInv' OBVIOUS
<1>1. CASE Clear \/ CopyConstruct \/ AssignSelf \/ (\E d \in BOOLEAN : SetFlags(d))
  BY <1>1, WholeArrayHolds, Zenon
<1>2. ASSUME NEW n \in 0 .. MaxAlloc, NEW grow \in GrowSizes, ConstructArray(n, grow) PROVE ArrayInv'
  BY <1>2, ConstructArrayHolds, Zenon
<1>3. ASSUME NEW i \in Places, Erase(i) PROVE ArrayInv' BY <1>3, EraseHolds, Zenon
<1>4. ASSUME NEW i \in Places, NEW j \in Places, InsertOwn(i, j) PROVE ArrayInv'
  BY <1>4, InsertOwnHolds, Zenon
<1>5. ASSUME NEW v \in Value, PushBack(v) PROVE ArrayInv' BY <1>5, PushBackHolds, Zenon
<1>6. ASSUME NEW v \in Value, EraseFound(v) PROVE ArrayInv' BY <1>6, EraseFoundHolds, Zenon
<1>7. ASSUME NEW v \in Value, NEW i \in Places, Insert(i, v) PROVE ArrayInv'
  BY <1>7, InsertHolds, Zenon
<1>8. ASSUME NEW v \in Value, NEW i \in Places, Set(i, v) PROVE ArrayInv' BY <1>8, SetHolds, Zenon
<1>9. ASSUME NEW v \in Value, NEW n \in 1 .. 2, Reserve(n, v) PROVE ArrayInv'
  BY <1>9, ReserveHolds, Zenon
<1>10. ASSUME NEW v \in Value, NEW n \in 1 .. 2, NEW i \in Places, Fill(i, n, v) PROVE ArrayInv'
  BY <1>10, FillHolds, Zenon
<1>11. CASE UNCHANGED arrayVars
  <2>1. array' = array /\ items' = items /\ parted' = parted BY <1>11 DEF arrayVars
  <2>. QED BY <2>1, Zenon DEF ArrayInv
<1>. QED
  BY <1>1, <1>2, <1>3, <1>4, <1>5, <1>6, <1>7, <1>8, <1>9, <1>10, <1>11, Zenon DEF ArraysNext

LEMMA ArrayInvHolds == ArrayInv => HoldsSequence
<1> SUFFICES ASSUME ArrayInv PROVE HoldsSequence OBVIOUS
<1>1. PICK s : Holds(array, s) /\ (~parted => Fits(items, s)) BY DEF ArrayInv
<1>2. /\ array.num <= Alloc(array) /\ Len(s) = array.num /\ array.num \in Nat
      /\ \A i \in 1 .. array.num : array.mem[i] = s[i]
  BY <1>1, HeldIs
<1>3. ASSUME ~parted
      PROVE  Len(items) = array.num /\ \A i \in DOMAIN items : items[i] \in {Unknown, array.mem[i]}
  <2>1. items \in Seq(Elem) /\ Len(items) = Len(s) /\ \A i \in 1 .. Len(s) : items[i] \in {Unknown, s[i]}
    BY <1>1, <1>3 DEF Fits
  <2>. QED BY <1>2, <2>1
<1>. QED BY <1>2, <1>3 DEF HoldsSequence

\* Whatever is put in, inserted, erased, reserved or filled, and however the array grows
\* for it, each of its elements is that of a sequence under the same calls, where these
\* determine it, until the array is assigned to itself or filled behind its last element.
THEOREM ArrayIsASequence == ArraysSpec => []HoldsSequence
BY ArrayInvInit, ArrayInvNext, ArrayInvHolds, PTL DEF ArraysSpec
=============================================================================
