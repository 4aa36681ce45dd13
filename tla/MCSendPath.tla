----------------------------- MODULE MCSendPath -----------------------------
(* A small instance of SendPath.                                           *)
EXTENDS SendPath, TLC

\* Nothing distinguishes threads or sessions from each other.
Interchangeable == Permutations(Thread) \cup Permutations(Session)
=============================================================================
