---------------------------- MODULE TokenAliases ----------------------------
(***************************************************************************)
(* The alias table of services/account_service.py.                         *)
(*                                                                         *)
(* The pool is keyed by access token.  When a token is refreshed the       *)
(* account moves to a new key and AccountService._token_aliases remembers  *)
(* old -> new, so that a thread still holding the old string finds the     *)
(* account.  Every operation of the service starts by resolving the token  *)
(* it was called with.                                                     *)
(*                                                                         *)
(* The operators take the set `live' of keys of AccountService._accounts   *)
(* and the table `alias' (NoToken where the table has no entry) as         *)
(* arguments, so that lemmas can relate the tables before and after a step.*)
(***************************************************************************)

CONSTANTS Tokens,    \* the access-token strings
          NoToken    \* "no entry", "no token"

ASSUME NoTokenAssumption == NoToken \notin Tokens

\* The loop goes on from a token that is no key of the pool but has an entry.
Forwarded(live, alias, t) == t \notin live /\ alias[t] # NoToken

\* A set of tokens that the loop cannot leave.
ClosedUnder(live, alias, S) ==
    \A t \in S : Forwarded(live, alias, t) => alias[t] \in S

\* The tokens the loop of _resolve_access_token_locked visits from t: the
\* least set that holds t and that the loop cannot leave.  Stating the loop as
\* a least closed set keeps it free of recursion, and gives the proofs their
\* induction principle: any closed set that holds t holds Visited(t).
Visited(live, alias, t) ==
    {u \in Tokens : \A S \in SUBSET Tokens :
                        t \in S /\ ClosedUnder(live, alias, S) => u \in S}

\* Where the loop can stop.
Ends(live, alias, t) ==
    {u \in Visited(live, alias, t) : ~Forwarded(live, alias, u)}

\* The only element of S.
TheOne(S) == CHOOSE u \in S : TRUE

\* What the loop meets again first when it cannot stop: the token by which it
\* entered the cycle.
MetAgain(live, alias, t) ==
    {u \in Visited(live, alias, t) :
        /\ u \in Visited(live, alias, alias[u])
        /\ u = t \/ \E v \in Visited(live, alias, t) :
                        alias[v] = u /\ v \notin Visited(live, alias, u)}

\* The token at which the loop stops: a token that is not forwarded stops it at
\* once.  The loop follows one entry at a time, so there is at most one end; where
\* there is none the entries make a cycle, and `seen' stops the code at the token
\* it meets again.  (There is one; the last case keeps the operator total.)
Resolve(live, alias, t) ==
    LET ends == Ends(live, alias, t)
        again == MetAgain(live, alias, t)
    IN  IF ~Forwarded(live, alias, t) THEN t
        ELSE IF ends # {} THEN TheOne(ends)
        ELSE IF again # {} THEN TheOne(again) ELSE t
=============================================================================
