------------------------------- MODULE Timers -------------------------------
(***************************************************************************)
(* Timer and RecvTickTimer, polled against a clock whose ticks wrap.       *)
(* Timer compares the tick with the tick it expires at; RecvTickTimer      *)
(* subtracts, and what it does when it fires is one of four strategies     *)
(* (AutoTimer and AutoTimerSecs only bring it the tick).                   *)
(*                                                                         *)
(* A tick is time % Wrap; the properties know the time itself.             *)
(***************************************************************************)
EXTENDS Integers

CONSTANTS
    Wrap,           \* 2^32
    Intervals,      \* those callers set
    MaxTime         \* bound: the ticks a behaviour lasts, and how far from the present an
                    \* expiry is moved

ASSUME TimersAssumption == Wrap \in Nat \ {0} /\ Intervals \subseteq 1 .. Wrap - 1 /\ MaxTime \in Nat

VARIABLES
    time,
    timer,          \* Timer: m_bCheckTime, m_dwExpireTime, m_dwIntervalTime
    due,            \* history: the time the timer was armed for
    event,          \* RecvTickTimer: its strategy, m_dwLastTick, m_dwIntervalTick
    firing          \* history: when the event was armed, its interval, its firings

timerVars == <<time, timer, due, event, firing>>

Tick == time % Wrap

\* Unsigned arithmetic on ticks.
Plus(t, n)  == (t + n) % Wrap
Minus(t, n) == (t - n) % Wrap

TimersInit ==
    /\ time = 0
    /\ timer = [checks |-> FALSE, expire |-> 0, interval |-> 0]
    /\ due = 0
    /\ event = [strategy |-> "Out", last |-> 0, interval |-> 0]
    /\ firing = [armed |-> 0, interval |-> 0, count |-> 0]

TimePasses ==
    /\ time < MaxTime
    /\ time' = time + 1
    /\ UNCHANGED <<timer, due, event, firing>>

-----------------------------------------------------------------------------
(* Timer                                                                   *)

\* IsExpired(FALSE)
Expired == timer.checks /\ Tick >= timer.expire

Arm(interval) ==
    /\ timer' = [checks |-> TRUE, expire |-> Plus(Tick, interval), interval |-> interval]
    /\ due' = time + interval

\* SetTimer, or Reset with the interval there is.
SetTimer == (\E interval \in Intervals \cup {timer.interval} : Arm(interval)) /\ UNCHANGED <<time, event, firing>>

\* IsExpired and IsExpiredManual: armed again when asked to; the manual one stops checking.
PollTimer ==
    /\ Expired
    /\ \E reset, manual \in BOOLEAN :
          /\ timer' = [timer EXCEPT !.checks = ~manual,
                                    !.expire = IF reset THEN Plus(Tick, timer.interval) ELSE @]
          /\ due' = IF reset THEN time + timer.interval ELSE due
    /\ UNCHANGED <<time, event, firing>>

\* SetIntervalTime, EnableCheckTime, DisableCheckTime
AdjustTimer ==
    /\ \/ \E interval \in Intervals : timer' = [timer EXCEPT !.interval = interval]
       \/ \E on \in BOOLEAN : timer' = [timer EXCEPT !.checks = on]
    /\ UNCHANGED <<time, due, event, firing>>

\* ResetReCalcTimer and DecreaseExpireTime; each checks that the tick it changes is no
\* less than the change.
MoveExpireTime ==
    /\ \E n \in Intervals :
          /\ timer.expire >= n
          /\ \/ ~Expired /\ timer' = [timer EXCEPT !.expire = Plus(@, n)] /\ due' = due + n
             \/ timer' = [timer EXCEPT !.expire = Minus(@, n)] /\ due' = due - n
    /\ due' \in 0 .. MaxTime
    /\ UNCHANGED <<time, event, firing>>

\* InitTime: due since the clock last came round.
InitTime ==
    /\ timer' = [timer EXCEPT !.expire = 0]
    /\ due' = time - Tick
    /\ UNCHANGED <<time, event, firing>>

\* Mutant: the tick the timer was armed at is not counted.
GetProcessTimeLate ==
    LET begun == Minus(timer.expire, timer.interval) IN
    IF timer.expire = 0 \/ timer.expire < timer.interval \/ Tick <= begun THEN 0
    ELSE IF Tick >= timer.expire THEN timer.interval
    ELSE Tick - begun - 1

\* GetProcessTime; 0 as well when one of its checks fails.
GetProcessTime ==
    LET begun == Minus(timer.expire, timer.interval) IN
    IF timer.expire = 0 \/ timer.expire < timer.interval \/ Tick < begun THEN 0
    ELSE IF Tick >= timer.expire THEN timer.interval
    ELSE Tick - begun

GetRemainTime ==
    IF Expired \/ timer.interval <= GetProcessTime THEN 0 ELSE timer.interval - GetProcessTime

-----------------------------------------------------------------------------
(* RecvTickTimer                                                           *)

Strategies == {"Out", "Over", "Next", "NextAccumulate"}

\* Init
InitEvent ==
    /\ \E interval \in Intervals, strategy \in Strategies :
          /\ event' = [strategy |-> strategy, last |-> Tick, interval |-> interval]
          /\ firing' = [armed |-> time, interval |-> interval, count |-> 0]
    /\ UNCHANGED <<time, timer, due>>

\* Mutant: the tick itself is compared.
ElapsedNot == Tick

\* dwCurTick - m_dwLastTick
Elapsed == Minus(Tick, event.last)

Fires == event.interval > 0 /\ Elapsed >= event.interval

\* ResetInterval: of the accumulating strategy only when the tick is beyond the last one,
\* which it is not again until the clock has come round.
ResetInterval ==
    CASE event.strategy = "Out"  -> [event EXCEPT !.interval = 0]
      [] event.strategy = "Over" -> event
      [] event.strategy = "Next" -> [event EXCEPT !.last = Tick]
      [] OTHER -> IF Tick > event.last THEN [event EXCEPT !.last = Plus(@, event.interval)] ELSE event

\* TimeEvent, when it returns true
PollEvent ==
    /\ Fires
    /\ event' = ResetInterval
    /\ firing' = [firing EXCEPT !.count = IF @ > MaxTime THEN @ ELSE @ + 1]
    /\ UNCHANGED <<time, timer, due>>

TimerNext == TimePasses \/ SetTimer \/ PollTimer \/ AdjustTimer \/ MoveExpireTime \/ InitTime
EventNext == TimePasses \/ InitEvent \/ PollEvent

TimersNext == TimerNext \/ EventNext

TimersSpec == TimersInit /\ [][TimersNext]_timerVars

-----------------------------------------------------------------------------
SameRound(t, u) == t \div Wrap = u \div Wrap

\* A timer that is checked has expired exactly when the time it was armed for, moved
\* forth and back since, has come, as long as that time and the present are of one round
\* of the clock; otherwise it is at once or a whole round late.
ExpiresWhenDue == timer.checks /\ SameRound(time, due) => (Expired <=> time >= due)

\* Within one round GetRemainTime never promises more than what is left, however the
\* timer was moved and its interval changed, unless it expires within an interval of the
\* tick 0 (GetProcessTime gives up then).
RemainsNoLonger ==
    timer.checks /\ SameRound(time, due) /\ timer.expire >= timer.interval =>
        GetRemainTime <= IF due > time THEN due - time ELSE 0

\* A periodic event never fires more often than its intervals have passed, whatever the
\* strategy and however irregular the polls, until the clock comes round.
NotTooOften ==
    event.strategy \in {"Next", "NextAccumulate"} /\ SameRound(firing.armed, time) =>
        firing.count * firing.interval <= time - firing.armed

\* A timer says what is due: expired when it is, and else not more time than is left.
TimerTells == ExpiresWhenDue /\ RemainsNoLonger
=============================================================================
