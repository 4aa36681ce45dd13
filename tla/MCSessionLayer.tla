--------------------------- MODULE MCSessionLayer ---------------------------
(* Small instances of SessionLayer, and what a comment of the session      *)
(* layer says that its code does not do.                                   *)
EXTENDS SessionLayer, TLC

\* The threads are interchangeable: sound for invariants and step properties.
ThreadSymmetry == Permutations(Thread)

\* Bound: no two sessions have writes under way at once.  (A write and a close meet in
\* session_liveness, which has no such bound.)
WritesApart ==
    \A s, u \in Session : s # u => writes[s] + written[s] + writes[u] + written[u] <= 1

\* Session.h: GetSession's pointer may be used inside a handler of the session
\* itself.  So no handler may find its own session destroyed.
OwnHandlerSessionLive == \A t \in Thread : Touches(t) \subseteq Live
=============================================================================
