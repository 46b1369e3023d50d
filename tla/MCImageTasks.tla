---------------------------- MODULE MCImageTasks ----------------------------
(***************************************************************************)
(* Small instances of ImageTasks for TLC.                                  *)
(***************************************************************************)
EXTENDS ImageTasks, TLC

\* Tasks are alike, and so are the polling threads.  Sound for the safety runs
\* only.
Alike == Permutations(Keys) \cup Permutations(Pollers)
=============================================================================
