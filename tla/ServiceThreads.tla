---------------------------- MODULE ServiceThreads ----------------------------
(***************************************************************************)
(* The threads that run the handlers of the network: NetThread starts      *)
(* StartSocketService on a thread of its own, which in every round spawns  *)
(* workers and then runs handlers itself, and StopSocketService ends it.   *)
(* io_service is external: a queue of handlers, one of which every run     *)
(* takes at a time, and a stopped flag that makes every run return at once *)
(* (set by stop, and by a run that finds nothing outstanding); nothing     *)
(* here calls its reset.                                                   *)
(*                                                                         *)
(* The server itself never stops the service: RunServer does not return.   *)
(***************************************************************************)
EXTENDS Naturals, Sequences

CONSTANTS
    ThreadNums,     \* what thread_num may be (5 in the server)
    MaxThreads,     \* bound: the workers the system has room for
    MaxThrows       \* bound: handlers that throw on the service thread

ASSUME ThreadsAssumption ==
    ThreadNums \subseteq Nat \ {0} /\ MaxThreads \in Nat /\ MaxThrows \in Nat

Handler == {"accept", "connect"}

VARIABLES
    totalThread,    \* s_nTotalThread, the thread_num of StartSocketService
    svc,            \* where StartSocketService is
    spawned,        \* workers this round has created (i - 1 of its loop)
    workers,        \* workers that are inside io_service::run
    queue,          \* handlers that are ready to run
    pending,        \* handlers whose operation is outstanding
    ioStopped,      \* the stopped flag of g_io_service
    stopFlag,       \* g_bStopSocketFlag
    stopper,        \* where StopNetThread is
    dead,           \* the process has died
    thrown          \* history: handlers that have thrown on the service thread

rounds   == <<totalThread, svc, spawned>>
io       == <<queue, pending, ioStopped>>
stopping == <<stopFlag, stopper>>
fate     == <<dead, thrown>>

threadVars == <<rounds, workers, io, stopping, fate>>

ThreadsInit ==
    /\ totalThread = 0 /\ svc = "off" /\ spawned = 0 /\ workers = 0
    /\ queue = <<>> /\ pending = {}
    /\ ioStopped = FALSE
    /\ stopFlag = FALSE /\ stopper = "idle"
    /\ dead = FALSE /\ thrown = 0

-----------------------------------------------------------------------------
(* NetThreadPorc and StartSocketService                                    *)

\* StartListen and AsyncConnect, then StartSocketService; if StartListen fails, or the
\* service is stopped already, the thread ends without starting it.
NetThreadPorc ==
    /\ svc = "off" /\ ~dead
    /\ \/ svc' = "ended" /\ UNCHANGED <<totalThread, pending>>
       \/ svc' = "check" /\ ~stopFlag /\ pending' = Handler /\ totalThread' \in ThreadNums
    /\ UNCHANGED <<spawned, workers, queue, ioStopped, stopping, fate>>

SvcCheck ==
    /\ svc = "check" /\ ~dead
    /\ svc' = IF stopFlag THEN "ended" ELSE "spawn"
    /\ spawned' = 0
    /\ UNCHANGED <<totalThread, workers, io, stopping, fate>>

\* Mutant: the loop starts at two.
SpawnsMoreFromTwo == spawned + 1 < totalThread - 1

\* The condition of the loop.
SpawnsMore == spawned < totalThread - 1

\* The worker runs handlers while the service thread creates the next.
SvcSpawn ==
    /\ svc = "spawn" /\ ~dead
    /\ SpawnsMore /\ workers < MaxThreads
    /\ spawned' = spawned + 1
    /\ workers' = workers + 1
    /\ UNCHANGED <<totalThread, svc, io, stopping, fate>>

\* A thread that cannot be created is an exception: this round runs no handlers here.
SvcSpawnFails ==
    /\ svc = "spawn" /\ ~dead
    /\ SpawnsMore /\ workers >= MaxThreads
    /\ svc' = "check"
    /\ UNCHANGED <<totalThread, spawned, workers, io, stopping, fate>>

SvcRuns ==
    /\ svc = "spawn" /\ ~dead
    /\ ~SpawnsMore
    /\ svc' = "run"
    /\ UNCHANGED <<totalThread, spawned, workers, io, stopping, fate>>

SvcReturns ==
    /\ svc = "run" /\ ioStopped /\ ~dead
    /\ svc' = "join"
    /\ UNCHANGED <<totalThread, spawned, workers, io, stopping, fate>>

\* The joins are of thread objects that are no more: they wait for nothing, or the
\* process dies of them.
SvcJoin ==
    /\ svc = "join" /\ ~dead
    /\ \/ svc' = "check" /\ UNCHANGED dead
       \/ totalThread > 1 /\ dead' = TRUE /\ UNCHANGED svc
    /\ UNCHANGED <<totalThread, spawned, workers, io, stopping, thrown>>

-----------------------------------------------------------------------------
(* io_service::run                                                         *)

Running == svc = "run" \/ workers > 0

\* The operation of handler h completes.
Ready(h) ==
    /\ h \in pending /\ ~dead
    /\ pending' = pending \ {h}
    /\ queue' = Append(queue, h)
    /\ UNCHANGED <<rounds, workers, ioStopped, stopping, fate>>

\* A thread takes the next handler, which starts its next operation or does not.
RunHandler ==
    /\ Running /\ ~ioStopped /\ ~dead
    /\ queue # <<>>
    /\ queue' = Tail(queue)
    /\ pending' \in {pending, pending \cup {Head(queue)}}
    /\ UNCHANGED <<rounds, workers, ioStopped, stopping, fate>>

\* Mutant: the exception is caught outside of the loop.
HandlerThrowsOut ==
    /\ svc = "run" /\ ~ioStopped /\ ~dead
    /\ queue # <<>> /\ thrown < MaxThrows
    /\ queue' = Tail(queue)
    /\ svc' = "ended" /\ thrown' = thrown + 1
    /\ UNCHANGED <<totalThread, spawned, workers, pending, ioStopped, stopping, dead>>

\* The handler throws.  The service thread catches it and begins another round while
\* the workers of this one run on.
HandlerThrows ==
    /\ svc = "run" /\ ~ioStopped /\ ~dead
    /\ queue # <<>> /\ thrown < MaxThrows
    /\ queue' = Tail(queue)
    /\ svc' = "check" /\ thrown' = thrown + 1
    /\ UNCHANGED <<totalThread, spawned, workers, pending, ioStopped, stopping, dead>>

\* On a worker nothing catches it.
WorkerThrows ==
    /\ workers > 0 /\ ~ioStopped /\ ~dead
    /\ queue # <<>>
    /\ dead' = TRUE
    /\ UNCHANGED <<rounds, workers, io, stopping, thrown>>

\* Nothing outstanding: the service stops, for good.
RunDry ==
    /\ Running /\ ~ioStopped /\ ~dead
    /\ queue = <<>> /\ pending = {}
    /\ ioStopped' = TRUE
    /\ UNCHANGED <<rounds, workers, queue, pending, stopping, fate>>

WorkerReturns ==
    /\ workers > 0 /\ ioStopped /\ ~dead
    /\ workers' = workers - 1
    /\ UNCHANGED <<rounds, io, stopping, fate>>

-----------------------------------------------------------------------------
(* StopNetThread with StopSocketService                                    *)

\* StopListen closes the acceptor: an outstanding accept completes (with an error).
StopListen ==
    /\ stopper = "idle" /\ svc # "off" /\ ~dead
    /\ stopper' = "flag"
    /\ pending' = pending \ {"accept"}
    /\ queue' = IF "accept" \in pending THEN Append(queue, "accept") ELSE queue
    /\ UNCHANGED <<rounds, workers, ioStopped, stopFlag, fate>>

\* Mutant: the flag is not set.
RaiseStopFlagNot ==
    /\ stopper = "flag" /\ ~dead
    /\ stopper' = "remove"
    /\ UNCHANGED <<rounds, workers, io, stopFlag, fate>>

RaiseStopFlag ==
    /\ stopper = "flag" /\ ~dead
    /\ stopFlag' = TRUE
    /\ stopper' = "remove"
    /\ UNCHANGED <<rounds, workers, io, fate>>

\* Every session is cancelled and destroyed: what they had outstanding completes.  (It
\* is the sessions' memory that the handlers still use; see SessionLayer.)
RemoveAllSession ==
    /\ stopper = "remove" /\ ~dead
    /\ pending' = pending \ {"connect"}
    /\ queue' = IF "connect" \in pending THEN Append(queue, "connect") ELSE queue
    /\ stopper' = "stop"
    /\ UNCHANGED <<rounds, workers, ioStopped, stopFlag, fate>>

\* g_io_service.stop().  (SessionManager::Release, which follows, only frees memory.)
StopService ==
    /\ stopper = "stop" /\ ~dead
    /\ ioStopped' = TRUE
    /\ stopper' = "done"
    /\ UNCHANGED <<rounds, workers, queue, pending, stopFlag, fate>>

-----------------------------------------------------------------------------
Service == SvcCheck \/ SvcSpawn \/ SvcSpawnFails \/ SvcRuns \/ SvcReturns \/ SvcJoin
Run     == RunHandler \/ HandlerThrows \/ WorkerThrows
Stop    == RaiseStopFlag \/ RemoveAllSession \/ StopService

ThreadsNext ==
    \/ NetThreadPorc \/ Service \/ Run \/ RunDry \/ WorkerReturns
    \/ StopListen \/ Stop
    \/ \E h \in Handler : Ready(h)

\* Threads are scheduled.  Nothing makes an operation complete or a client stop the
\* service.
ThreadsFairness ==
    /\ WF_threadVars(Service) /\ WF_threadVars(Run) /\ WF_threadVars(WorkerReturns)
    /\ WF_threadVars(Stop)

ThreadsSpec == ThreadsInit /\ [][ThreadsNext]_threadVars /\ ThreadsFairness

-----------------------------------------------------------------------------
\* While the service is not stopped and its thread runs handlers, it has exactly the
\* threads asked for: that thread and thread_num - 1 workers, however handlers, their
\* exceptions and the loop that creates workers interleave.  But every handler that threw
\* on the service thread has left the workers of its round behind: nothing ends them,
\* and the next round adds its own.  (Once io_service is stopped workers leave one by
\* one, and nothing is said of their number.)
ThreadsCounted == svc = "run" /\ ~ioStopped => workers = (thrown + 1) * (totalThread - 1)

\* A handler that is ready is run, whatever other handlers throw on the service thread,
\* unless the process dies or the service has stopped.
HandlersRun ==
    \A h \in Handler : (\E i \in DOMAIN queue : queue[i] = h)
        ~> (\A i \in DOMAIN queue : queue[i] # h) \/ dead \/ ioStopped

\* Stopped at any moment of a round, StartSocketService returns and no thread is left
\* in the service.
StopEnds == stopper = "done" ~> dead \/ (svc = "ended" /\ workers = 0)
=============================================================================
