----------------------------- MODULE MCChatCache -----------------------------
(***************************************************************************)
(* Small instances of ChatCache for TLC.                                   *)
(***************************************************************************)
EXTENDS ChatCache, TLC

\* Requests are alike, and so are the threads of the pool.  Sound for the safety
\* runs only.
Alike == Permutations(Calls) \cup Permutations(Threads)
=============================================================================
