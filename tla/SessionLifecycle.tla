-------------------------- MODULE SessionLifecycle --------------------------
(***************************************************************************)
(* What the session layer promises its callers, with no threads, timers or *)
(* handlers in sight.  A connection id goes through the phases             *)
(*                                                                         *)
(*      unborn -> pending -> open -> closing -> gone                       *)
(*                                                                         *)
(* and never back; ids are handed out in order and never reused; a lookup  *)
(* finds a session only between the moment it opens and the moment it is   *)
(* withdrawn from the directory, and its memory goes away after that.      *)
(* SessionLayer implements this specification.                             *)
(***************************************************************************)
EXTENDS Naturals

CONSTANT
    FirstId,        \* the first connection id handed out
    MaxId           \* bound: the last connection id of the instance

VARIABLES
    phase,          \* the phase of every id
    directory       \* the ids a lookup finds

lifecycleVars == <<phase, directory>>

Ids == FirstId .. MaxId

\* The service starts with one session waiting for a client and one waiting
\* for the web server.
LifecycleInit ==
    /\ phase = [s \in Ids |-> IF s \in {FirstId, FirstId + 1} THEN "pending" ELSE "unborn"]
    /\ directory = {}

Move(s, from, to) ==
    /\ phase[s] = from
    /\ phase' = [phase EXCEPT ![s] = to]

\* Ids are handed out in order: the next one is the least unborn id.
Create(s) ==
    /\ \A r \in Ids : phase[r] = "unborn" => s <= r
    /\ Move(s, "unborn", "pending")
    /\ UNCHANGED directory

Open(s) ==
    /\ Move(s, "pending", "open")
    /\ directory' = directory \cup {s}

\* A session that never opened is freed without having been closed.
Abandon(s) ==
    /\ Move(s, "pending", "gone")
    /\ UNCHANGED directory

Shut(s) ==
    /\ \/ Move(s, "open", "closing")
       \/ Move(s, "pending", "closing")
    /\ UNCHANGED directory

Withdraw(s) ==
    /\ phase[s] = "closing"
    /\ s \in directory
    /\ directory' = directory \ {s}
    /\ UNCHANGED phase

Free(s) ==
    /\ s \notin directory
    /\ Move(s, "closing", "gone")
    /\ UNCHANGED directory

LifecycleNext ==
    \E s \in Ids : \/ Create(s)
                   \/ Open(s)
                   \/ Abandon(s)
                   \/ Shut(s)
                   \/ Withdraw(s)
                   \/ Free(s)

LifecycleSpec == LifecycleInit /\ [][LifecycleNext]_lifecycleVars
=============================================================================
