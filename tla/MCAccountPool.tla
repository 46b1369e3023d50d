--------------------------- MODULE MCAccountPool ----------------------------
(***************************************************************************)
(* Small instances of AccountPool for TLC.                                 *)
(***************************************************************************)
EXTENDS AccountPool, TLC

\* Workers are alike, and so are the tokens the upstream has not issued yet.
\* Sound for the safety runs only.
Alike == Permutations(Workers) \cup Permutations(Tokens \ InitialTokens)

\* Quotas: an account that is used up by the next image; one that is used up
\* already; one without a limit.
OneLeft == {1}
OneLeftOrNone == {0, 1}
OneLeftOrUnmetered == {Unmetered, 1}
=============================================================================
