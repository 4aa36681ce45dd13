---------------------------- MODULE MCPushService ----------------------------
(* The push server and the threads that run it: a behaviour takes steps of *)
(* one or of the other, as subject says from the start.  In its initial    *)
(* state neither has a step that is owed, so fairness asks nothing of the  *)
(* one that rests.                                                         *)
EXTENDS MCPushServer, ServiceThreads

VARIABLE subject

MCInit == Init /\ ThreadsInit /\ subject \in {"server", "threads"}

MCNext ==
    \/ subject = "server"  /\ Next /\ UNCHANGED <<threadVars, subject>>
    \/ subject = "threads" /\ ThreadsNext /\ UNCHANGED <<vars, subject>>

MCSpec ==
    /\ MCInit
    /\ [][MCNext]_<<vars, threadVars, subject>>
    /\ Fairness
    /\ ThreadsFairness
=============================================================================
