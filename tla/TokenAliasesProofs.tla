------------------------- MODULE TokenAliasesProofs -------------------------
(***************************************************************************)
(* Lemmas on the alias table: what resolving a token returns, and how it   *)
(* changes when an account is refreshed, removed or imported.              *)
(*                                                                         *)
(* Each proof of "every visited token has property P" names the set of     *)
(* tokens with P and shows that the loop cannot leave it.                  *)
(***************************************************************************)
EXTENDS TokenAliases, TLAPS

IsTable(alias) == alias \in [Tokens -> Tokens \cup {NoToken}]

\* A set that holds t and that the loop cannot leave holds what it visits.
LEMMA VisitedInClosed ==
    ASSUME NEW live, NEW alias, NEW t \in Tokens, NEW S \in SUBSET Tokens,
           t \in S, ClosedUnder(live, alias, S)
    PROVE  Visited(live, alias, t) \subseteq S
BY DEF Visited

\* The loop visits the token it starts from, and only tokens.
LEMMA VisitedSelf ==
    ASSUME NEW live, NEW alias, NEW t \in Tokens
    PROVE  t \in Visited(live, alias, t) /\ Visited(live, alias, t) \subseteq Tokens
BY DEF Visited

\* The loop cannot leave what it visits.
LEMMA VisitedClosed ==
    ASSUME NEW live, NEW alias, IsTable(alias), NEW t \in Tokens
    PROVE  ClosedUnder(live, alias, Visited(live, alias, t))
<1> SUFFICES ASSUME NEW u \in Visited(live, alias, t), Forwarded(live, alias, u)
             PROVE  alias[u] \in Visited(live, alias, t)
    BY DEF ClosedUnder
<1>1. alias[u] \in Tokens
    BY VisitedSelf DEF IsTable, Forwarded
<1>2. ASSUME NEW S \in SUBSET Tokens, t \in S, ClosedUnder(live, alias, S)
      PROVE  alias[u] \in S
    BY <1>2 DEF Visited, ClosedUnder
<1> QED BY <1>1, <1>2 DEF Visited

\* A token that is not forwarded is all the loop visits from it.
LEMMA VisitedEnd ==
    ASSUME NEW live, NEW alias, NEW t \in Tokens, ~Forwarded(live, alias, t)
    PROVE  Visited(live, alias, t) = {t}
<1>1. ClosedUnder(live, alias, {t})
    BY DEF ClosedUnder
<1> QED BY <1>1, VisitedInClosed, VisitedSelf

\* From a forwarded token the loop visits that token, and what it visits from
\* the next one.
LEMMA VisitedNext ==
    ASSUME NEW live, NEW alias, IsTable(alias),
           NEW t \in Tokens, Forwarded(live, alias, t)
    PROVE  /\ alias[t] \in Tokens
           /\ Visited(live, alias, t) = {t} \cup Visited(live, alias, alias[t])
<1> DEFINE V == Visited(live, alias, alias[t])
<1>1. alias[t] \in Tokens
    BY DEF IsTable, Forwarded
<1>2. ClosedUnder(live, alias, V)
    BY <1>1, VisitedClosed
<1>3. V \subseteq Tokens /\ alias[t] \in V
    BY <1>1, VisitedSelf
<1>4. ClosedUnder(live, alias, {t} \cup V)
    BY <1>2, <1>3 DEF ClosedUnder
<1>5. Visited(live, alias, t) \subseteq {t} \cup V
    BY <1>3, <1>4, VisitedInClosed
<1>6. t \in Visited(live, alias, t) /\ alias[t] \in Visited(live, alias, t)
    BY VisitedSelf, VisitedClosed DEF ClosedUnder
<1>7. V \subseteq Visited(live, alias, t)
    BY <1>1, <1>6, VisitedInClosed, VisitedSelf, VisitedClosed
<1> QED BY <1>1, <1>5, <1>6, <1>7

\* The loop stops at one token at most.
LEMMA OneEnd ==
    ASSUME NEW live, NEW alias, IsTable(alias), NEW t \in Tokens,
           NEW u \in Ends(live, alias, t), NEW v \in Ends(live, alias, t)
    PROVE  u = v
<1> DEFINE S == {x \in Tokens : u \in Visited(live, alias, x)}
<1>1. u \in Tokens /\ v \in Tokens
    BY VisitedSelf DEF Ends
<1>2. t \in S
    BY DEF Ends
<1>3. ClosedUnder(live, alias, S)
    <2> SUFFICES ASSUME NEW x \in S, Forwarded(live, alias, x)
                 PROVE  alias[x] \in S
        BY DEF ClosedUnder
    <2>1. u # x
        BY DEF Ends
    <2> QED BY <2>1, VisitedNext
<1>4. v \in S
    BY <1>2, <1>3, VisitedInClosed DEF Ends
<1> QED BY <1>1, <1>4, VisitedEnd DEF Ends

\* Where there is an end, resolving returns it.
LEMMA ResolveEnd ==
    ASSUME NEW live, NEW alias, IsTable(alias), NEW t \in Tokens,
           NEW u \in Ends(live, alias, t)
    PROVE  Resolve(live, alias, t) = u
<1>1. CASE ~Forwarded(live, alias, t)
    BY <1>1, VisitedEnd DEF Resolve, Ends
<1>2. CASE Forwarded(live, alias, t)
    <2>1. TheOne(Ends(live, alias, t)) \in Ends(live, alias, t)
        BY DEF TheOne
    <2>2. TheOne(Ends(live, alias, t)) = u
        BY <2>1, OneEnd
    <2> QED BY <1>2, <2>2 DEF Resolve
<1> QED BY <1>1, <1>2

\* Resolving a token returns a token, one that the loop visits.
LEMMA ResolveType ==
    ASSUME NEW live, NEW alias, NEW t \in Tokens
    PROVE  /\ Resolve(live, alias, t) \in Tokens
           /\ Resolve(live, alias, t) \in Visited(live, alias, t)
BY VisitedSelf DEF Resolve, Ends, MetAgain, TheOne

\* A token of the pool that the loop visits is where it ends.
LEMMA ResolveLive ==
    ASSUME NEW live, NEW alias, IsTable(alias), NEW u \in Tokens, NEW t \in live,
           t \in Visited(live, alias, u)
    PROVE  Resolve(live, alias, u) = t
<1>1. t \in Ends(live, alias, u)
    BY DEF Ends, Forwarded
<1> QED BY <1>1, ResolveEnd

\* What every entry keeps, the loop keeps.
LEMMA VisitedKeeps ==
    ASSUME NEW live, NEW alias, IsTable(alias), NEW f, NEW u \in Tokens,
           \A x \in Tokens : alias[x] # NoToken => f[alias[x]] = f[x]
    PROVE  \A x \in Visited(live, alias, u) : f[x] = f[u]
<1> DEFINE S == {x \in Tokens : f[x] = f[u]}
<1>1. ClosedUnder(live, alias, S)
    BY DEF ClosedUnder, Forwarded, IsTable
<1>2. Visited(live, alias, u) \subseteq S
    BY <1>1, VisitedInClosed
<1> QED BY <1>2

\* With fewer accounts in the pool the loop goes further.
LEMMA VisitedGrows ==
    ASSUME NEW live, NEW live2, live2 \subseteq live, NEW alias, NEW t \in Tokens
    PROVE  Visited(live, alias, t) \subseteq Visited(live2, alias, t)
<1>1. \A S \in SUBSET Tokens : ClosedUnder(live2, alias, S) => ClosedUnder(live, alias, S)
    BY DEF ClosedUnder, Forwarded
<1> QED BY <1>1 DEF Visited

\* What is visited depends on the pool only through what is forwarded.
LEMMA VisitedSame ==
    ASSUME NEW live, NEW live2, NEW alias,
           \A x \in Tokens : Forwarded(live, alias, x) <=> Forwarded(live2, alias, x)
    PROVE  \A t \in Tokens : Visited(live, alias, t) = Visited(live2, alias, t)
<1>1. \A S \in SUBSET Tokens : ClosedUnder(live, alias, S) <=> ClosedUnder(live2, alias, S)
    BY DEF ClosedUnder
<1> QED BY <1>1 DEF Visited

\* The table once x and every entry from or to it are removed.
Without(alias, x) == [u \in Tokens |-> IF u = x \/ alias[u] = x THEN NoToken ELSE alias[u]]

\* Removing an account loses no way to another one: the loop stops at x, which
\* is in the pool, or does not come by x.
LEMMA VisitedAfterRemoval ==
    ASSUME NEW live, NEW alias, IsTable(alias), NEW x \in Tokens, NEW u \in Tokens,
           x \in live \/ x \notin Visited(live, alias, u),
           NEW t \in Visited(live, alias, u), t # x
    PROVE  t \in Visited(live \ {x}, Without(alias, x), u)
<1> DEFINE V == Visited(live, alias, u)
<1>1. t \in Tokens /\ u \in V /\ V \subseteq Tokens
    BY VisitedSelf
<1>2. ClosedUnder(live, alias, V)
    BY VisitedClosed
<1>3. ASSUME NEW S \in SUBSET Tokens, u \in S,
             ClosedUnder(live \ {x}, Without(alias, x), S)
      PROVE  t \in S
    <2>1. CASE x \in live
        <3>1. ClosedUnder(live, alias, S \cup {x})
            BY <1>3, <2>1 DEF ClosedUnder, Forwarded, Without
        <3>2. V \subseteq S \cup {x}
            BY <1>3, <3>1, VisitedInClosed
        <3> QED BY <3>2
    <2>2. CASE x \notin V
        <3>1. ASSUME NEW s \in S \cap V, Forwarded(live, alias, s)
              PROVE  alias[s] \in S \cap V
            <4>1. alias[s] \in V /\ s # x /\ alias[s] # x /\ s \in Tokens
                BY <1>1, <1>2, <2>2, <3>1 DEF ClosedUnder
            <4>2. Without(alias, x)[s] = alias[s]
                BY <4>1 DEF Without
            <4>3. Forwarded(live \ {x}, Without(alias, x), s)
                BY <3>1, <4>2 DEF Forwarded
            <4> QED BY <1>3, <4>1, <4>2, <4>3 DEF ClosedUnder
        <3>2. ClosedUnder(live, alias, S \cap V)
            BY <3>1 DEF ClosedUnder
        <3>3. V \subseteq S \cap V
            BY <1>1, <1>3, <3>2, VisitedInClosed
        <3> QED BY <3>3
    <2> QED BY <2>1, <2>2
<1> QED BY <1>1, <1>3 DEF Visited

\* A refresh that moves an account from old to n: what led to old leads to n, and
\* no other way is lost that did not come by n.
LEMMA VisitedAfterRotation ==
    ASSUME NEW live, NEW alias, IsTable(alias), NEW old \in Tokens, NEW n \in Tokens,
           old \in live, n # old, NEW u \in Tokens
    PROVE  LET live2 == (live \ {old}) \cup {n}
               alias2 == [alias EXCEPT ![old] = n]
           IN  /\ n \notin Visited(live, alias, u)
                     => Visited(live, alias, u) \subseteq Visited(live2, alias2, u)
               /\ old \in Visited(live, alias, u) => n \in Visited(live2, alias2, u)
<1> DEFINE live2 == (live \ {old}) \cup {n}
           alias2 == [alias EXCEPT ![old] = n]
           V == Visited(live, alias, u)
           V2 == Visited(live2, alias2, u)
<1>1. IsTable(alias2) /\ alias2[old] = n
    BY DEF IsTable
<1>2. /\ ClosedUnder(live, alias, V) /\ u \in V /\ V \subseteq Tokens
      /\ ClosedUnder(live2, alias2, V2) /\ u \in V2 /\ V2 \subseteq Tokens
    <2> HIDE DEF live2, alias2
    <2> QED BY <1>1, VisitedClosed, VisitedSelf
<1>3. ASSUME NEW s \in V2, Forwarded(live, alias, s), s # n
      PROVE  alias[s] \in V2
    <2>1. s \in Tokens /\ s # old
        BY <1>2, <1>3 DEF Forwarded
    <2>2. alias2[s] = alias[s]
        BY <2>1 DEF IsTable
    <2>3. Forwarded(live2, alias2, s)
        BY <1>3, <2>2 DEF Forwarded
    <2> QED BY <1>2, <2>2, <2>3 DEF ClosedUnder
<1>4. ASSUME n \notin V
      PROVE  V \subseteq V2
    <2> HIDE DEF V, V2, live2, alias2
    <2>1. ClosedUnder(live, alias, V \cap V2)
        BY <1>2, <1>3, <1>4 DEF ClosedUnder
    <2>2. V \subseteq V \cap V2
        BY <1>2, <2>1, VisitedInClosed DEF V
    <2> QED BY <2>2
<1>5. ASSUME old \in V, n \notin V2
      PROVE  FALSE
    <2>1. Forwarded(live2, alias2, old)
        BY <1>1, NoTokenAssumption DEF Forwarded
    <2> HIDE DEF V, V2, live2, alias2
    <2>2. old \notin V2
        BY <1>1, <1>2, <1>5, <2>1 DEF ClosedUnder
    <2>3. ClosedUnder(live, alias, V2)
        BY <1>3, <1>5 DEF ClosedUnder
    <2>4. V \subseteq V2
        BY <1>2, <2>3, VisitedInClosed DEF V
    <2> QED BY <1>5, <2>2, <2>4
<1> QED BY <1>4, <1>5
=============================================================================
