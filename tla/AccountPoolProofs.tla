------------------------- MODULE AccountPoolProofs --------------------------
(***************************************************************************)
(* The slot accounting of AccountPool, for every number of workers,        *)
(* checks, tokens and slots.                                               *)
(*                                                                         *)
(* The pool changes in a handful of ways: an account is written or dropped,*)
(* deleted, refreshed to a new key, imported.  For each of them a lemma    *)
(* shows PoolSound.  The steps of the threads are combinations of these    *)
(* with moves of the thread's own variables.                               *)
(***************************************************************************)
EXTENDS AccountPool, TokenAliasesProofs, FiniteSetTheorems, TLAPS

PoolTyped ==
    /\ accounts \in [Tokens -> Account \cup {NoAccount}]
    /\ aliases \in [Tokens -> Tokens \cup {NoToken}]
    /\ inflight \in [Tokens -> Nat]
    /\ lineage \in [Tokens -> Tokens \cup {NoToken}]

\* No token loses its lineage.
Keeps == \A u \in Known : u \in Known' /\ lineage'[u] = lineage[u]

\* Every account of the pool keeps its count, under whatever key; or is new.
Carried ==
    \A x \in Live' :
        \/ \E y \in Live : lineage'[x] = lineage[y] /\ inflight'[x] = inflight[y]
        \/ lineage'[x] \notin Known /\ inflight'[x] = 0

\* A change of the pool that keeps it in order.
PoolSound == PoolTyped' /\ TableInv' /\ Keeps /\ Carried

-----------------------------------------------------------------------------
\* The loop stays within the lineage, and finds the account if there is one.
LEMMA HomeFacts ==
    ASSUME PoolTyped, TableInv, NEW u \in Tokens
    PROVE  /\ Home(u) \in Tokens
           /\ lineage[Home(u)] = lineage[u]
           /\ \A x \in Visited(Live, aliases, u) : lineage[x] = lineage[u]
           /\ \A t \in Live : lineage[u] = lineage[t] => Home(u) = t
<1>1. IsTable(aliases) /\ Live \subseteq Tokens
    BY DEF PoolTyped, IsTable, Live
<1>2. Home(u) \in Tokens /\ Home(u) \in Visited(Live, aliases, u)
    BY ResolveType DEF Home
<1>3. \A x \in Visited(Live, aliases, u) : lineage[x] = lineage[u]
    BY <1>1, VisitedKeeps DEF TableInv, EntriesKeepLineage
<1>4. \A t \in Live : lineage[u] = lineage[t] => Home(u) = t
    BY <1>1, ResolveLive DEF Home, TableInv, LineageLeadsHome
<1> QED BY <1>2, <1>3, <1>4

\* An account of the pool has a lineage.
LEMMA LiveKnown ==
    ASSUME TableInv
    PROVE  Live \subseteq Known
BY DEF TableInv, FreshUnused, Live

-----------------------------------------------------------------------------
\* A step that writes or drops accounts, and nothing else.
LEMMA DataSound ==
    ASSUME PoolTyped, TableInv, UNCHANGED <<aliases, inflight, lineage>>,
           accounts' \in [Tokens -> Account \cup {NoAccount}], Live' \subseteq Live
    PROVE  PoolSound
<1>1. PoolTyped' /\ Known' = Known
    BY DEF PoolTyped, Known
<1>2. \A u \in Tokens : Visited(Live, aliases, u) \subseteq Visited(Live', aliases, u)
    BY VisitedGrows
<1>3. FreshUnused'
    BY <1>1 DEF FreshUnused, TableInv, Live
<1>4. OneKeyPerAccount' /\ EntriesKeepLineage'
    BY DEF OneKeyPerAccount, EntriesKeepLineage, TableInv
<1>5. LineageLeadsHome'
    BY <1>2 DEF LineageLeadsHome, TableInv
<1>6. ReplacedIdle'
    BY DEF ReplacedIdle, TableInv
<1>7. Keeps /\ Carried
    BY <1>1 DEF Keeps, Carried
<1> QED BY <1>1, <1>3, <1>4, <1>5, <1>6, <1>7 DEF PoolSound, TableInv

\* A step that leaves the pool alone.
LEMMA StutterSound ==
    ASSUME PoolTyped, TableInv, UNCHANGED poolVars
    PROVE  PoolSound
<1>1. Live' = Live
    BY DEF Live, poolVars
<1> QED BY <1>1, DataSound DEF poolVars, PoolTyped

\* update_account: it writes the account or drops it.
LEMMA UpdateSound ==
    ASSUME PoolTyped, TableInv, NEW t \in Tokens, NEW a,
           Home(t) \in Live => a \in Account, Update(t, a)
    PROVE  PoolSound
<1>1. CASE Home(t) \in Live
    <2>1. accounts' \in [Tokens -> Account \cup {NoAccount}]
        BY <1>1 DEF Update, Store, PoolTyped
    <2>2. Live' \subseteq Live
        BY <1>1 DEF Update, Store, PoolTyped, Live
    <2> QED BY <2>1, <2>2, DataSound DEF Update
<1>2. CASE Home(t) \notin Live
    BY <1>2, StutterSound DEF Update, poolVars
<1> QED BY <1>1, <1>2

\* delete_accounts.
LEMMA DeletionSound ==
    ASSUME PoolTyped, TableInv, NEW t \in Tokens, Deletion(t)
    PROVE  PoolSound
<1> DEFINE x == Home(t)
<1>0. /\ x \in Tokens /\ IsTable(aliases)
      /\ \A y \in Live : lineage[x] = lineage[y] => x = y
    BY HomeFacts DEF PoolTyped, IsTable
<1>1. /\ accounts' = [accounts EXCEPT ![x] = NoAccount]
      /\ inflight' = [inflight EXCEPT ![x] = 0]
      /\ aliases' = Without(aliases, x)
      /\ lineage' = lineage
    BY DEF Deletion, Discard, Without
<1> HIDE DEF x
<1>2. PoolTyped' /\ Known' = Known /\ Live' = Live \ {x}
    BY <1>0, <1>1, NoTokenAssumption DEF PoolTyped, Known, Live, Without
<1>3. FreshUnused'
    BY <1>0, <1>1, <1>2 DEF FreshUnused, TableInv, Without, PoolTyped
<1>4. OneKeyPerAccount'
    BY <1>0, <1>1, <1>2 DEF OneKeyPerAccount, TableInv, Without, Live
<1>5. EntriesKeepLineage'
    BY <1>1 DEF EntriesKeepLineage, TableInv, Without
<1>6. LineageLeadsHome'
    <2> SUFFICES ASSUME NEW y \in Live \ {x}, NEW u \in Tokens, lineage[u] = lineage[y]
                 PROVE  y \in Visited(Live \ {x}, Without(aliases, x), u)
        BY <1>1, <1>2 DEF LineageLeadsHome
    <2>1. y \in Visited(Live, aliases, u)
        BY DEF TableInv, LineageLeadsHome
    <2>2. x \notin Visited(Live, aliases, u)
        BY <1>0, HomeFacts
    <2> QED BY <1>0, <2>1, <2>2, VisitedAfterRemoval
<1>7. ReplacedIdle'
    BY <1>1, <1>2 DEF ReplacedIdle, TableInv, PoolTyped
<1>8. Keeps /\ Carried
    BY <1>1, <1>2 DEF Keeps, Carried, PoolTyped, Live
<1> QED BY <1>2, <1>3, <1>4, <1>5, <1>6, <1>7, <1>8 DEF PoolSound, TableInv

\* A refresh or a login that returned another token: a new one, or one that was
\* the key of this account before.
LEMMA RotationSound ==
    ASSUME PoolTyped, TableInv, NEW old \in Live, NEW n \in Tokens, n # old,
           n \in Known => lineage[n] = lineage[old], Rotation(old, n)
    PROVE  PoolSound /\ n \in Known' /\ lineage'[n] = lineage[old]
<1>0. /\ old \in Tokens /\ old \in Known /\ IsTable(aliases)
      /\ lineage[old] \in Tokens /\ accounts[old] \in Account
      /\ n \notin Live /\ inflight[n] = 0
    <2>1. /\ old \in Tokens /\ old \in Known /\ IsTable(aliases)
          /\ lineage[old] \in Tokens /\ accounts[old] \in Account
        BY LiveKnown DEF PoolTyped, IsTable, Known, Live
    <2>2. CASE n \in Known
        BY <2>1, <2>2 DEF TableInv, OneKeyPerAccount, ReplacedIdle
    <2>3. CASE n \notin Known
        <3>1. n \in Tokens \ Known
            BY <2>3
        <3>2. accounts[n] = NoAccount /\ inflight[n] = 0
            BY <3>1 DEF TableInv, FreshUnused
        <3> QED BY <2>1, <3>2 DEF Live
    <2> QED BY <2>1, <2>2, <2>3
<1>1. /\ accounts' = [accounts EXCEPT ![old] = NoAccount,
                                      ![n] = [accounts[old] EXCEPT !.invalid = 0]]
      /\ aliases' = [aliases EXCEPT ![old] = n]
      /\ inflight' = [inflight EXCEPT ![old] = 0, ![n] = @ + inflight[old]]
      /\ lineage' = [lineage EXCEPT ![n] = lineage[old]]
    BY DEF Rotation
<1>2. [accounts[old] EXCEPT !.invalid = 0] \in Account
    BY <1>0 DEF Account
<1>3. PoolTyped'
    BY <1>0, <1>1, <1>2 DEF PoolTyped
<1>4. Live' = (Live \ {old}) \cup {n}
    BY <1>0, <1>1, <1>2, NoAccountAssumption DEF PoolTyped, Live
<1>5. /\ Known' = Known \cup {n} /\ lineage'[n] = lineage[old]
      /\ \A u \in Tokens \ {n} : lineage'[u] = lineage[u]
    BY <1>0, <1>1, NoTokenAssumption DEF PoolTyped, Known
<1>7. FreshUnused'
    <2> SUFFICES ASSUME NEW t \in Tokens \ Known'
                 PROVE  /\ accounts'[t] = NoAccount /\ inflight'[t] = 0
                        /\ aliases'[t] = NoToken
                        /\ \A u \in Tokens : aliases'[u] # t /\ lineage'[u] # t
        BY DEF FreshUnused
    <2>1. t \in Tokens \ Known /\ t # n /\ t # old
        BY <1>0, <1>5
    <2>2. accounts[t] = NoAccount /\ inflight[t] = 0 /\ aliases[t] = NoToken
        BY <2>1 DEF TableInv, FreshUnused
    <2>3. \A u \in Tokens : aliases[u] # t /\ lineage[u] # t
        BY <2>1 DEF TableInv, FreshUnused
    <2>4. accounts'[t] = NoAccount /\ inflight'[t] = 0 /\ aliases'[t] = NoToken
        BY <1>1, <2>1, <2>2 DEF PoolTyped
    <2>5. \A u \in Tokens : aliases'[u] # t /\ lineage'[u] # t
        BY <1>0, <1>1, <1>5, <2>1, <2>3 DEF PoolTyped
    <2> QED BY <2>4, <2>5
<1>8. OneKeyPerAccount'
    <2>2. \A t, u \in Live \ {old} : lineage'[t] = lineage'[u] => t = u
        BY <1>0, <1>5 DEF TableInv, OneKeyPerAccount, Live
    <2>3. \A t \in Live \ {old} : lineage'[t] # lineage'[n]
        BY <1>0, <1>5 DEF TableInv, OneKeyPerAccount, Live
    <2> QED BY <1>4, <2>2, <2>3 DEF OneKeyPerAccount
<1>9. EntriesKeepLineage'
    <2> SUFFICES ASSUME NEW u \in Tokens, aliases'[u] # NoToken
                 PROVE  lineage'[aliases'[u]] = lineage'[u]
        BY DEF EntriesKeepLineage
    <2>1. CASE u = old
        BY <1>0, <1>1, <1>5, <2>1 DEF PoolTyped
    <2>2. CASE u # old
        <3>1. aliases'[u] = aliases[u] /\ aliases[u] \in Tokens
            BY <1>1, <2>2 DEF PoolTyped
        <3>2. lineage[aliases[u]] = lineage[u]
            BY <3>1, NoTokenAssumption DEF TableInv, EntriesKeepLineage
        <3>3. CASE n \in Known
            BY <1>5, <3>1, <3>2, <3>3
        <3>4. CASE n \notin Known
            <4>1. u # n /\ aliases[u] # n
                BY <3>1, <3>4, NoTokenAssumption DEF TableInv, FreshUnused
            <4> QED BY <1>5, <3>1, <3>2, <4>1
        <3> QED BY <3>3, <3>4
    <2> QED BY <2>1, <2>2
<1>10. LineageLeadsHome'
    <2> SUFFICES ASSUME NEW t \in Live', NEW u \in Tokens, lineage'[u] = lineage'[t]
                 PROVE  t \in Visited(Live', aliases', u)
        BY DEF LineageLeadsHome
    <2>1. /\ n \notin Visited(Live, aliases, u)
                => Visited(Live, aliases, u) \subseteq Visited(Live', aliases', u)
          /\ old \in Visited(Live, aliases, u) => n \in Visited(Live', aliases', u)
        <3>1. aliases' = [aliases EXCEPT ![old] = n]
            BY <1>1
        <3>2. old \in Tokens /\ old \in Live /\ IsTable(aliases)
            BY <1>0
        <3> QED BY <1>4, <3>1, <3>2, VisitedAfterRotation
    <2>2. CASE u = n
        <3>1. t = n
            BY <1>4, <1>8, <2>2 DEF OneKeyPerAccount
        <3> QED BY <2>2, <3>1, VisitedSelf
    <2>3. CASE u # n /\ t = n
        <3>1. lineage[u] = lineage[old]
            BY <1>5, <2>3
        <3>2. old \in Visited(Live, aliases, u)
            BY <3>1 DEF TableInv, LineageLeadsHome
        <3> QED BY <2>1, <2>3, <3>2
    <2>4. CASE u # n /\ t # n
        <3>1. t \in Live /\ t # old /\ lineage[u] = lineage[t] /\ t \in Known
            BY <1>4, <1>5, <2>4, LiveKnown DEF Live
        <3>2. lineage[t] # lineage[old]
            BY <3>1 DEF TableInv, OneKeyPerAccount
        <3>3. \A x \in Visited(Live, aliases, u) : lineage[x] = lineage[t]
            BY <3>1, HomeFacts
        <3>4. n \notin Visited(Live, aliases, u)
            BY <3>1, <3>2, <3>3 DEF Known
        <3> QED BY <2>1, <3>1, <3>4 DEF TableInv, LineageLeadsHome
    <2> QED BY <2>2, <2>3, <2>4
<1>11. ReplacedIdle'
    <2> SUFFICES ASSUME NEW t \in Live', NEW u \in Tokens, lineage'[u] = lineage'[t], u # t
                 PROVE  inflight'[u] = 0
        BY DEF ReplacedIdle
    <2>1. u # n
        BY <1>4, <1>8 DEF OneKeyPerAccount
    <2>2. CASE u = old
        BY <1>0, <1>1, <2>2 DEF PoolTyped
    <2>3. CASE u # old
        <3>1. inflight'[u] = inflight[u] /\ lineage'[u] = lineage[u]
            BY <1>1, <1>5, <2>1, <2>3 DEF PoolTyped
        <3>2. CASE t = n
            BY <1>5, <2>3, <3>1, <3>2 DEF TableInv, ReplacedIdle
        <3>3. CASE t # n
            BY <1>4, <1>5, <3>1, <3>3 DEF TableInv, ReplacedIdle, Live
        <3> QED BY <3>2, <3>3
    <2> QED BY <2>2, <2>3
<1>12. Keeps
    BY <1>0, <1>5 DEF Keeps, Known
<1>13. Carried
    <2>1. inflight'[n] = inflight[old]
        BY <1>0, <1>1 DEF PoolTyped
    <2>2. \A x \in Live \ {old} : inflight'[x] = inflight[x] /\ lineage'[x] = lineage[x]
        BY <1>0, <1>1, <1>5 DEF PoolTyped, Live
    <2> QED BY <1>4, <1>5, <2>1, <2>2 DEF Carried
<1> QED BY <1>3, <1>5, <1>7, <1>8, <1>9, <1>10, <1>11, <1>12, <1>13 DEF PoolSound, TableInv

\* The upstream returned the token it had issued before.
LEMMA RenewalSound ==
    ASSUME PoolTyped, TableInv, NEW t \in Live, Renewal(t)
    PROVE  PoolSound
<1>1. [accounts[t] EXCEPT !.invalid = 0] \in Account /\ t \in Tokens
    BY DEF PoolTyped, Live, Account
<1>2. accounts' = [accounts EXCEPT ![t] = [accounts[t] EXCEPT !.invalid = 0]]
    BY DEF Renewal
<1>3. accounts' \in [Tokens -> Account \cup {NoAccount}] /\ Live' \subseteq Live
    BY <1>1, <1>2 DEF PoolTyped, Live
<1> QED BY <1>3, DataSound DEF Renewal

\* An import of a token the pool has never seen.
LEMMA ImportSound ==
    ASSUME PoolTyped, TableInv, NEW t \in Tokens \ Known, Import(t)
    PROVE  PoolSound
<1>0. aliases[t] = NoToken /\ inflight[t] = 0 /\ lineage[t] = NoToken /\ t \notin Live
    BY DEF TableInv, FreshUnused, Known, Import
<1>1. PICK q \in Quotas : accounts' = [accounts EXCEPT ![t] = New(q)]
    BY DEF Import
<1>2. New(q) \in Account
    BY PoolAssumption DEF New, Account, Statuses
<1>3. /\ aliases' = aliases /\ inflight' = inflight
      /\ lineage' = [lineage EXCEPT ![t] = t]
    BY <1>0 DEF Import
<1>4. PoolTyped'
    BY <1>1, <1>2, <1>3 DEF PoolTyped
<1>5. Live' = Live \cup {t}
    BY <1>1, <1>2, NoAccountAssumption DEF Live, PoolTyped
<1>6. /\ Known' = Known \cup {t} /\ lineage'[t] = t
      /\ \A u \in Tokens \ {t} : lineage'[u] = lineage[u] /\ lineage[u] # t
    BY <1>3, NoTokenAssumption DEF PoolTyped, Known, TableInv, FreshUnused
<1>7. \A x \in Tokens : Forwarded(Live, aliases, x) <=> Forwarded(Live', aliases, x)
    BY <1>0, <1>5 DEF Forwarded
<1>8. \A u \in Tokens : Visited(Live, aliases, u) = Visited(Live', aliases, u)
    BY <1>7, VisitedSame
<1>9. FreshUnused'
    BY <1>1, <1>3, <1>6 DEF FreshUnused, TableInv, PoolTyped
<1>10. OneKeyPerAccount'
    <2>1. \A x, y \in Live : lineage'[x] = lineage'[y] => x = y
        BY <1>0, <1>6 DEF OneKeyPerAccount, TableInv, Live
    <2>2. \A x \in Live : lineage'[x] # lineage'[t]
        BY <1>0, <1>6 DEF Live
    <2> QED BY <1>5, <2>1, <2>2 DEF OneKeyPerAccount
<1>11. EntriesKeepLineage'
    BY <1>0, <1>3, <1>6 DEF EntriesKeepLineage, TableInv, PoolTyped, FreshUnused
<1>12. LineageLeadsHome'
    <2> SUFFICES ASSUME NEW x \in Live', NEW u \in Tokens, lineage'[u] = lineage'[x]
                 PROVE  x \in Visited(Live', aliases', u)
        BY DEF LineageLeadsHome
    <2>1. CASE x = t
        <3>1. u = t
            BY <1>6, <2>1
        <3> QED BY <2>1, <3>1, VisitedSelf
    <2>2. CASE x # t
        <3>1. x \in Live /\ lineage'[x] = lineage[x] /\ lineage[x] # t
            BY <1>5, <1>6, <2>2 DEF Live
        <3>2. u # t /\ lineage[u] = lineage[x]
            BY <1>6, <3>1
        <3>3. x \in Visited(Live, aliases, u)
            BY <3>1, <3>2 DEF TableInv, LineageLeadsHome
        <3> QED BY <1>3, <1>8, <3>3
    <2> QED BY <2>1, <2>2
<1>13. ReplacedIdle'
    <2> SUFFICES ASSUME NEW x \in Live', NEW u \in Tokens, lineage'[u] = lineage'[x], u # x
                 PROVE  inflight[u] = 0
        BY <1>3 DEF ReplacedIdle
    <2>1. x # t
        BY <1>6
    <2>2. x \in Live /\ lineage[u] = lineage[x]
        BY <1>5, <1>6, <2>1 DEF Live
    <2> QED BY <2>2 DEF TableInv, ReplacedIdle
<1>14. Keeps
    BY <1>6 DEF Keeps, Known
<1>15. Carried
    <2>1. \A x \in Live : lineage'[x] = lineage[x] /\ inflight'[x] = inflight[x]
        BY <1>0, <1>3, <1>6 DEF Live
    <2> QED BY <1>0, <1>3, <1>5, <1>6, <2>1 DEF Carried
<1> QED BY <1>4, <1>9, <1>10, <1>11, <1>12, <1>13, <1>14, <1>15 DEF PoolSound, TableInv

\* remove_invalid_token.
LEMMA RemoveInvalidTokenSound ==
    ASSUME PoolTyped, TableInv, NEW t \in Tokens, RemoveInvalidToken(t)
    PROVE  PoolSound
<1> DEFINE a == [accounts[Home(t)] EXCEPT !.status = "abnormal",
                                          !.quota = Requota(@, 0)]
<1>1. Home(t) \in Live => a \in Account
    BY DEF PoolTyped, Live, Account, Statuses, Requota
<1>2. CASE AutoRemoveInvalid
    BY <1>2, DeletionSound DEF RemoveInvalidToken
<1>3. CASE ~AutoRemoveInvalid
    <2>1. Update(t, a)
        BY <1>3 DEF RemoveInvalidToken
    <2> QED BY <1>1, <2>1, UpdateSound
<1> QED BY <1>2, <1>3

\* A step that changes only the counts keeps the table.
LEMMA CountsOnly ==
    ASSUME PoolTyped, TableInv, UNCHANGED <<accounts, aliases, lineage>>,
           inflight' \in [Tokens -> Nat],
           \A t \in Tokens \ Live : inflight[t] = 0 => inflight'[t] = 0
    PROVE  PoolTyped' /\ TableInv' /\ Keeps
<1>1. Live' = Live /\ Known' = Known
    BY DEF Live, Known
<1>2. FreshUnused'
    BY <1>1 DEF TableInv, FreshUnused, Live
<1>3. OneKeyPerAccount' /\ EntriesKeepLineage' /\ LineageLeadsHome'
    BY <1>1 DEF TableInv, OneKeyPerAccount, EntriesKeepLineage, LineageLeadsHome
<1>4. ReplacedIdle'
    <2> SUFFICES ASSUME NEW t \in Live, NEW u \in Tokens, lineage[u] = lineage[t], u # t
                 PROVE  inflight'[u] = 0
        BY <1>1 DEF ReplacedIdle
    <2>1. u \notin Live /\ inflight[u] = 0
        BY DEF TableInv, OneKeyPerAccount, ReplacedIdle
    <2> QED BY <2>1
<1> QED BY <1>1, <1>2, <1>3, <1>4 DEF TableInv, PoolTyped, Keeps

-----------------------------------------------------------------------------
\* The part of TypeOK about the threads.
ThreadTyped ==
    /\ refreshLock \in Threads \cup {NoThread}
    /\ pc \in [Threads -> Pcs]
    /\ tok \in [Threads -> Tokens \cup {NoToken}]
    /\ held \in [Workers -> BOOLEAN]
    /\ tried \in [Workers -> SUBSET Tokens]
    /\ attempted \in [Workers -> SUBSET Tokens]
    /\ call \in [Threads -> Tokens \cup {NoToken}]
    /\ act \in [Threads -> Tokens \cup {NoToken}]
    /\ verdict \in [Workers -> Verdicts]

ThreadInv == ThreadTyped /\ ThreadsKnowTokens /\ WorkersHold /\ ChecksStayOut

\* Where a worker or a check may be.
InPlace(th) ==
    /\ th \in Workers => pc[th] \in WorkerPcs /\ (held[th] <=> pc[th] \in HoldingPcs)
    /\ th \in Checkers =>
          pc[th] \notin {"ask", "acquire", "giveBack", "submit", "polling", "settle",
                         "auth", "authHttp", "authPlatform", "authRemove"}

\* A step of one thread leaves the variables of the others alone.
OnlyMoves(th) ==
    /\ \A o \in Threads \ {th} : /\ pc'[o] = pc[o] /\ tok'[o] = tok[o]
                                 /\ call'[o] = call[o] /\ act'[o] = act[o]
    /\ \A o \in Workers \ {th} : held'[o] = held[o]

\* So it is enough to look at the thread that moves.
LEMMA ThreadMoves ==
    ASSUME ThreadInv, Keeps, NEW th \in Threads, OnlyMoves(th), ThreadTyped',
           KnowsTokens(th)', InPlace(th)'
    PROVE  ThreadInv'
<1>1. ASSUME NEW o \in Threads
      PROVE  KnowsTokens(o)'
    <2>1. CASE o = th
        BY <2>1
    <2>2. CASE o # th
        <3>1. KnowsTokens(o)
            BY DEF ThreadInv, ThreadsKnowTokens
        <3>2. pc'[o] = pc[o] /\ tok'[o] = tok[o] /\ call'[o] = call[o] /\ act'[o] = act[o]
            BY <2>2 DEF OnlyMoves
        <3>3. TokensOf(o)' = TokensOf(o)
            BY <3>2 DEF TokensOf
        <3>4. TokensOf(o) # {} => tok[o] \in TokensOf(o)
            BY <3>1 DEF TokensOf, KnowsTokens, NeedsActive, NeedsHttpCall
        <3>5. \A u \in TokensOf(o) : u \in Known' /\ lineage'[u] = lineage'[tok[o]]
            BY <3>1, <3>4 DEF KnowsTokens, Keeps
        <3> QED BY <3>1, <3>2, <3>3, <3>5 DEF KnowsTokens
    <2> QED BY <2>1, <2>2
<1>2. ASSUME NEW o \in Workers
      PROVE  pc'[o] \in WorkerPcs /\ (held'[o] <=> pc'[o] \in HoldingPcs)
    BY DEF ThreadInv, WorkersHold, OnlyMoves, InPlace, Threads
<1>3. ChecksStayOut'
    BY DEF ThreadInv, ChecksStayOut, OnlyMoves, InPlace, Threads
<1> QED BY <1>1, <1>2, <1>3 DEF ThreadInv, ThreadsKnowTokens, WorkersHold

\* While every worker keeps its slot, under whatever name, the counts are right.
LEMMA SlotsKept ==
    ASSUME PoolTyped, TableInv, PoolSound, ThreadInv, SlotsByLineage,
           \A w \in Workers : /\ held'[w] = held[w]
                              /\ held[w] => lineage'[tok'[w]] = lineage[tok[w]]
    PROVE  SlotsByLineage'
<1> SUFFICES ASSUME NEW x \in Live'
             PROVE  /\ inflight'[x] = Cardinality(LineageHolders(lineage[x])')
                    /\ inflight'[x] <= MaxConcurrency
    BY DEF SlotsByLineage
<1>1. LineageHolders(lineage[x])' = LineageHolders(lineage'[x])
    BY DEF LineageHolders
<1>2. CASE \E y \in Live : lineage'[x] = lineage[y] /\ inflight'[x] = inflight[y]
    BY <1>1, <1>2 DEF SlotsByLineage
<1>3. CASE lineage'[x] \notin Known /\ inflight'[x] = 0
    <2>1. \A w \in Workers : held[w] => lineage[tok[w]] \in Known
        <3> SUFFICES ASSUME NEW w \in Workers, held[w]
                     PROVE  lineage[tok[w]] \in Known
            OBVIOUS
        <3>1. KnowsTokens(w) /\ pc[w] \in HoldingPcs
            BY DEF ThreadInv, ThreadsKnowTokens, Threads, WorkersHold
        <3>2. tok[w] \in Known
            BY <3>1 DEF KnowsTokens, HoldingPcs, TokensOf
        <3>3. lineage[tok[w]] \in Tokens
            BY <3>2 DEF Known, PoolTyped
        <3> QED BY <3>2, <3>3 DEF TableInv, FreshUnused, Known
    <2>2. LineageHolders(lineage'[x]) = {}
        BY <1>3, <2>1 DEF LineageHolders
    <2> QED BY <1>1, <1>3, <2>2, FS_EmptySet, PoolAssumption
<1> QED BY <1>2, <1>3 DEF PoolSound, Carried

\* release_image_slot by a worker that holds a slot.
LEMMA SlotReleased ==
    ASSUME PoolTyped, TableInv, ThreadInv, SlotsByLineage,
           UNCHANGED <<accounts, aliases, lineage>>,
           NEW w \in Workers, held[w], inflight' = Released(tok[w]),
           held' = [held EXCEPT ![w] = FALSE],
           \A v \in Workers \ {w} : tok'[v] = tok[v]
    PROVE  PoolTyped' /\ TableInv' /\ Keeps /\ SlotsByLineage'
<1> DEFINE h == Home(tok[w])
           l == lineage[tok[w]]
<1>1. tok[w] \in Tokens
    <2>1. KnowsTokens(w) /\ pc[w] \in HoldingPcs
        BY DEF ThreadInv, ThreadsKnowTokens, Threads, WorkersHold
    <2> QED BY <2>1 DEF KnowsTokens, HoldingPcs, ThreadInv, ThreadTyped, Threads
<1>2. h \in Tokens /\ lineage[h] = l /\ \A t \in Live : lineage[t] = l => h = t
    BY <1>1, HomeFacts
<1>3. inflight' = [inflight EXCEPT ![h] = Dec(inflight[h])]
    BY DEF Released
<1>4. inflight' \in [Tokens -> Nat]
    BY <1>2, <1>3 DEF PoolTyped, Dec
<1>5. \A t \in Tokens : inflight[t] = 0 => inflight'[t] = 0
    BY <1>2, <1>3 DEF PoolTyped, Dec
<1>6. PoolTyped' /\ TableInv' /\ Keeps
    BY <1>4, <1>5, CountsOnly
<1>7. SlotsByLineage'
    <2> SUFFICES ASSUME NEW x \in Live
                 PROVE  /\ inflight'[x] = Cardinality(LineageHolders(lineage[x])')
                        /\ inflight'[x] <= MaxConcurrency
        BY DEF SlotsByLineage, Live
    <2>1. /\ inflight[x] = Cardinality(LineageHolders(lineage[x]))
          /\ inflight[x] <= MaxConcurrency
          /\ inflight[x] \in Nat /\ x \in Tokens
        BY DEF SlotsByLineage, PoolTyped, Live
    <2>2. CASE lineage[x] = l
        <3>1. h = x
            BY <1>2, <2>2
        <3>2. LineageHolders(lineage[x])' = LineageHolders(l) \ {w}
            BY <2>2 DEF LineageHolders, ThreadInv, ThreadTyped
        <3>3. w \in LineageHolders(l) /\ IsFiniteSet(LineageHolders(l))
            BY PoolAssumption, FS_Subset DEF LineageHolders
        <3>4. Cardinality(LineageHolders(l) \ {w}) = Cardinality(LineageHolders(l)) - 1
            BY <3>3, FS_RemoveElement
        <3>5. Cardinality(LineageHolders(l)) # 0
            BY <3>3, FS_EmptySet
        <3>6. inflight'[x] = inflight[x] - 1
            BY <1>2, <1>3, <2>1, <2>2, <3>1, <3>5 DEF Dec, PoolTyped
        <3>7. inflight[x] = Cardinality(LineageHolders(l))
            BY <2>1, <2>2
        <3>8. inflight'[x] = Cardinality(LineageHolders(lineage[x])')
            BY <3>2, <3>4, <3>6, <3>7
        <3>9. MaxConcurrency \in Nat
            BY PoolAssumption
        <3>10. inflight'[x] <= MaxConcurrency
            BY <2>1, <3>6, <3>9
        <3> QED BY <3>8, <3>10
    <2>3. CASE lineage[x] # l
        <3>1. LineageHolders(lineage[x])' = LineageHolders(lineage[x])
            BY <2>3 DEF LineageHolders, ThreadInv, ThreadTyped
        <3>2. inflight'[x] = inflight[x]
            BY <1>2, <1>3, <2>3 DEF PoolTyped
        <3> QED BY <2>1, <3>1, <3>2
    <2> QED BY <2>2, <2>3
<1> QED BY <1>6, <1>7

-----------------------------------------------------------------------------
LEMMA Unpack ==
    ASSUME Inductive
    PROVE  PoolTyped /\ TableInv /\ ThreadInv /\ SlotsByLineage
BY DEF Inductive, TypeOK, PoolTyped, ThreadInv, ThreadTyped

\* Whatever a thread calls its account, it means one known account.
LEMMA ThreadTokens ==
    ASSUME Inductive, NEW th \in Threads
    PROVE  /\ \A u \in {tok[th], act[th], call[th]} :
                  u # NoToken => /\ u \in Known /\ u \in Tokens
                                 /\ lineage[u] = lineage[tok[th]]
                                 /\ Home(u) \in Known /\ Home(u) \in Tokens
                                 /\ lineage[Home(u)] = lineage[tok[th]]
                                 /\ tok[th] # NoToken
           /\ pc[th] \notin {"start", "ask", "acquire", "done"} => tok[th] # NoToken
           /\ pc[th] \in {"start", "ask", "acquire"} => tok[th] = NoToken
           /\ act[th] # NoToken <=> pc[th] \in NeedsActive
           /\ call[th] # NoToken <=> pc[th] \in NeedsHttpCall
           /\ InPlace(th) /\ pc[th] \in Pcs
<1>1. PoolTyped /\ TableInv /\ ThreadInv
    BY Unpack
<1>2. KnowsTokens(th) /\ InPlace(th) /\ pc[th] \in Pcs
    BY <1>1 DEF ThreadInv, ThreadsKnowTokens, WorkersHold, ChecksStayOut, InPlace, ThreadTyped
<1>3. ASSUME NEW u \in {tok[th], act[th], call[th]}, u # NoToken
      PROVE  /\ u \in Known /\ u \in Tokens
             /\ lineage[u] = lineage[tok[th]]
             /\ Home(u) \in Known /\ Home(u) \in Tokens
             /\ lineage[Home(u)] = lineage[tok[th]]
             /\ tok[th] # NoToken
    <2>1. u \in TokensOf(th)
        BY <1>3 DEF TokensOf
    <2>2. u \in Known /\ lineage[u] = lineage[tok[th]] /\ tok[th] # NoToken
        BY <1>2, <2>1 DEF KnowsTokens, NeedsActive, NeedsHttpCall, TokensOf
    <2>3. u \in Tokens
        BY <2>2 DEF Known
    <2>4. Home(u) \in Tokens /\ lineage[Home(u)] = lineage[u]
        BY <1>1, <2>3, HomeFacts
    <2> QED BY <2>2, <2>3, <2>4 DEF Known
<1> QED BY <1>2, <1>3 DEF KnowsTokens, NeedsActive, NeedsHttpCall

\* A step of one thread that keeps the pool in order, and its slot if it has one.
LEMMA StepSound ==
    ASSUME Inductive, PoolSound, NEW th \in Threads, OnlyMoves(th), ThreadTyped',
           KnowsTokens(th)', InPlace(th)',
           th \in Workers => /\ held'[th] = held[th]
                             /\ held[th] => lineage'[tok'[th]] = lineage[tok[th]]
    PROVE  Inductive'
<1>1. PoolTyped /\ TableInv /\ ThreadInv /\ SlotsByLineage
    BY Unpack
<1>2. ThreadInv'
    BY <1>1, ThreadMoves DEF PoolSound
<1>3. ASSUME NEW w \in Workers
      PROVE  held'[w] = held[w] /\ (held[w] => lineage'[tok'[w]] = lineage[tok[w]])
    <2>1. CASE w = th
        BY <2>1
    <2>2. CASE w # th
        <3>1. held'[w] = held[w] /\ tok'[w] = tok[w]
            BY <2>2 DEF OnlyMoves, Threads
        <3>2. held[w] => tok[w] \in Known
            BY ThreadTokens DEF Threads, InPlace, HoldingPcs
        <3> QED BY <3>1, <3>2 DEF PoolSound, Keeps
    <2> QED BY <2>1, <2>2
<1>4. SlotsByLineage'
    BY <1>1, <1>3, SlotsKept
<1> QED BY <1>2, <1>4 DEF Inductive, TypeOK, PoolSound, PoolTyped, ThreadInv, ThreadTyped

\* A step of a worker that gives its slot back.
LEMMA ReleaseSound ==
    ASSUME Inductive, NEW w \in Workers, UNCHANGED <<accounts, aliases, lineage>>,
           held[w], inflight' = Released(tok[w]), held' = [held EXCEPT ![w] = FALSE],
           OnlyMoves(w), ThreadTyped', KnowsTokens(w)', InPlace(w)'
    PROVE  Inductive'
<1>1. PoolTyped /\ TableInv /\ ThreadInv /\ SlotsByLineage
    BY Unpack
<1>2. \A v \in Workers \ {w} : tok'[v] = tok[v]
    BY DEF OnlyMoves, Threads
<1>3. PoolTyped' /\ TableInv' /\ Keeps /\ SlotsByLineage'
    BY <1>1, <1>2, SlotReleased
<1>4. ThreadInv'
    BY <1>1, <1>3, ThreadMoves DEF Threads
<1> QED BY <1>3, <1>4 DEF Inductive, TypeOK, PoolTyped, ThreadInv, ThreadTyped

-----------------------------------------------------------------------------
(***************************************************************************)
(* The steps of the workers                                                *)
(***************************************************************************)

LEMMA AcquireSound ==
    ASSUME Inductive, NEW w \in Workers, Acquire(w)
    PROVE  Inductive'
<1>0. PoolTyped /\ TableInv /\ ThreadInv /\ SlotsByLineage /\ w \in Threads
    BY Unpack DEF Threads
<1>1. PICK t \in Candidates(attempted[w]) :
          /\ inflight' = [inflight EXCEPT ![t] = @ + 1]
          /\ tok' = [tok EXCEPT ![w] = t]
          /\ act' = [act EXCEPT ![w] = t]
          /\ attempted' = [attempted EXCEPT ![w] = @ \cup {t}]
    BY DEF Acquire
<1>2. /\ pc[w] = "acquire" /\ held' = [held EXCEPT ![w] = TRUE]
      /\ pc' = [pc EXCEPT ![w] = "preflight"]
      /\ UNCHANGED <<accounts, aliases, lineage, refreshLock, call, tried, verdict>>
    BY DEF Acquire, Goto
<1>3. /\ t \in Live /\ t \in Tokens /\ t \in Known /\ lineage[t] \in Tokens
      /\ inflight[t] < MaxConcurrency /\ inflight[t] \in Nat
    BY <1>0, LiveKnown DEF Candidates, Ready, Live, Known, PoolTyped
<1>4. ~held[w]
    BY <1>0, <1>2 DEF ThreadInv, WorkersHold, HoldingPcs
<1>5. PoolTyped' /\ TableInv' /\ Keeps
    <2>1. inflight' \in [Tokens -> Nat]
        BY <1>0, <1>1, <1>3 DEF PoolTyped
    <2>2. \A u \in Tokens \ Live : inflight'[u] = inflight[u]
        BY <1>0, <1>1, <1>3 DEF PoolTyped
    <2> QED BY <1>0, <1>2, <2>1, <2>2, CountsOnly
<1>6. ThreadTyped'
    BY <1>0, <1>1, <1>2, <1>3 DEF ThreadInv, ThreadTyped, Pcs
<1>7. OnlyMoves(w)
    BY <1>0, <1>1, <1>2 DEF OnlyMoves, ThreadInv, ThreadTyped
<1>8. call[w] = NoToken
    BY <1>0, <1>2, ThreadTokens DEF NeedsHttpCall
<1>9. KnowsTokens(w)' /\ InPlace(w)'
    <2>1. /\ tok'[w] = t /\ act'[w] = t /\ pc'[w] = "preflight" /\ held'[w]
          /\ call'[w] = NoToken
        BY <1>0, <1>1, <1>2, <1>8 DEF ThreadInv, ThreadTyped
    <2>2. t # NoToken /\ t \in Known'
        BY <1>2, <1>3, NoTokenAssumption DEF Known
    <2>3. KnowsTokens(w)'
        BY <2>1, <2>2 DEF KnowsTokens, TokensOf, NeedsActive, NeedsHttpCall
    <2>4. InPlace(w)'
        BY <2>1, PoolAssumption DEF InPlace, WorkerPcs, Pcs, HoldingPcs
    <2> QED BY <2>3, <2>4
<1>10. SlotsByLineage'
    <2> SUFFICES ASSUME NEW x \in Live
                 PROVE  /\ inflight'[x] = Cardinality(LineageHolders(lineage[x])')
                        /\ inflight'[x] <= MaxConcurrency
        BY <1>2 DEF SlotsByLineage, Live
    <2>1. /\ inflight[x] = Cardinality(LineageHolders(lineage[x]))
          /\ inflight[x] <= MaxConcurrency /\ x \in Tokens
        BY <1>0 DEF SlotsByLineage, Live
    <2>2. CASE x = t
        <3>1. LineageHolders(lineage[x])' = LineageHolders(lineage[x]) \cup {w}
            BY <1>0, <1>1, <1>2, <1>3, <2>2 DEF LineageHolders, ThreadInv, ThreadTyped, Threads
        <3>2. w \notin LineageHolders(lineage[x]) /\ IsFiniteSet(LineageHolders(lineage[x]))
            BY <1>4, PoolAssumption, FS_Subset DEF LineageHolders
        <3>3. Cardinality(LineageHolders(lineage[x]) \cup {w})
                = Cardinality(LineageHolders(lineage[x])) + 1
            BY <3>2, FS_AddElement
        <3>4. inflight'[x] = inflight[x] + 1
            BY <1>0, <1>1, <1>3, <2>2 DEF PoolTyped
        <3>5. inflight'[x] = Cardinality(LineageHolders(lineage[x])')
            BY <2>1, <3>1, <3>3, <3>4
        <3>6. MaxConcurrency \in Nat
            BY PoolAssumption
        <3>7. inflight'[x] <= MaxConcurrency
            BY <1>3, <2>2, <3>4, <3>6
        <3> QED BY <3>5, <3>7
    <2>3. CASE x # t
        <3>1. lineage[x] # lineage[t]
            BY <1>0, <1>3, <2>3 DEF TableInv, OneKeyPerAccount
        <3>2. LineageHolders(lineage[x])' = LineageHolders(lineage[x])
            BY <1>0, <1>1, <1>2, <1>4, <3>1 DEF LineageHolders, ThreadInv, ThreadTyped, Threads
        <3>3. inflight'[x] = inflight[x]
            BY <1>0, <1>1, <2>1, <2>3 DEF PoolTyped
        <3> QED BY <2>1, <3>2, <3>3
    <2> QED BY <2>2, <2>3
<1>11. ThreadInv'
    BY <1>0, <1>5, <1>6, <1>7, <1>9, ThreadMoves
<1> QED BY <1>5, <1>10, <1>11 DEF Inductive, TypeOK, PoolTyped, ThreadInv, ThreadTyped

\* After a step: u is no token, or a name of the account that thread th took.
Means(th, u) == u = NoToken \/ (u \in Known' /\ lineage'[u] = lineage[tok[th]])

\* The tokens a thread has keep their meaning, and so do their current keys.
LEMMA OldMeans ==
    ASSUME Inductive, Keeps, NEW th \in Threads, NEW u \in {tok[th], act[th], call[th]}
    PROVE  Means(th, u) /\ (u # NoToken => Means(th, Home(u)))
BY ThreadTokens DEF Means, Keeps

LEMMA KnowsAfter ==
    ASSUME Inductive, Keeps, NEW th \in Threads,
           Means(th, tok'[th]), Means(th, act'[th]), Means(th, call'[th]),
           pc'[th] \in {"start", "ask", "acquire"} => tok'[th] = NoToken,
           pc'[th] \notin {"start", "ask", "acquire", "done"} => tok'[th] # NoToken,
           act'[th] # NoToken <=> pc'[th] \in NeedsActive,
           call'[th] # NoToken <=> pc'[th] \in NeedsHttpCall
    PROVE  KnowsTokens(th)'
<1>1. ASSUME NEW u \in TokensOf(th)'
      PROVE  u \in Known' /\ lineage'[u] = lineage'[tok'[th]]
    <2>1. tok'[th] # NoToken
        BY DEF TokensOf, NeedsActive, NeedsHttpCall
    <2>2. u # NoToken /\ Means(th, u)
        BY DEF TokensOf
    <2> QED BY <2>1, <2>2 DEF Means
<1> QED BY <1>1 DEF KnowsTokens

\* A worker without an account goes on, or ends.
LEMMA IdleMove ==
    ASSUME Inductive, NEW w \in Workers, pc[w] \in {"ask", "acquire"},
           NEW l \in {"acquire", "done"}, pc' = [pc EXCEPT ![w] = l],
           attempted' \in [Workers -> SUBSET Tokens],
           UNCHANGED <<poolVars, fetchVars, tok, held, tried, verdict>>
    PROVE  Inductive'
<1>0. PoolTyped /\ TableInv /\ ThreadInv /\ w \in Threads /\ ThreadTyped
    BY Unpack DEF Threads, ThreadInv
<1>2. PoolSound
    BY <1>0, StutterSound
<1>3. ThreadTyped' /\ OnlyMoves(w)
    BY <1>0 DEF ThreadTyped, Pcs, OnlyMoves, fetchVars
<1>4. KnowsTokens(w)'
    <2>1. Means(w, tok'[w]) /\ Means(w, act'[w]) /\ Means(w, call'[w])
        BY <1>0, <1>2, OldMeans DEF PoolSound, fetchVars
    <2>2. /\ pc'[w] = l /\ act'[w] = NoToken /\ call'[w] = NoToken
          /\ tok'[w] = NoToken
        BY <1>0, ThreadTokens DEF ThreadTyped, fetchVars, NeedsActive, NeedsHttpCall
    <2> QED BY <1>0, <1>2, <2>1, <2>2, KnowsAfter DEF PoolSound, NeedsActive, NeedsHttpCall
<1>5. InPlace(w)'
    BY <1>0, ThreadTokens, PoolAssumption
       DEF ThreadTyped, InPlace, WorkerPcs, Pcs, HoldingPcs
<1>6. held'[w] = held[w] /\ lineage'[tok'[w]] = lineage[tok[w]]
    BY DEF poolVars
<1> QED BY <1>0, <1>2, <1>3, <1>4, <1>5, <1>6, StepSound

LEMMA AskSound ==
    ASSUME Inductive, NEW w \in Workers, Ask(w)
    PROVE  Inductive'
<1>1. /\ pc[w] = "ask" /\ pc' = [pc EXCEPT ![w] = "acquire"]
      /\ attempted' = [attempted EXCEPT ![w] = {Home(t) : t \in tried[w]}]
      /\ UNCHANGED <<poolVars, fetchVars, tok, held, tried, verdict>>
    BY DEF Ask, Goto
<1>2. /\ tried[w] \subseteq Tokens /\ attempted \in [Workers -> SUBSET Tokens]
      /\ PoolTyped /\ TableInv
    BY Unpack DEF ThreadInv, ThreadTyped
<1>3. {Home(t) : t \in tried[w]} \subseteq Tokens
    BY <1>2, HomeFacts
<1>4. attempted' \in [Workers -> SUBSET Tokens]
    BY <1>1, <1>2, <1>3
<1> QED BY <1>1, <1>4, IdleMove

LEMMA NoCandidateSound ==
    ASSUME Inductive, NEW w \in Workers, NoCandidate(w)
    PROVE  Inductive'
<1>1. /\ pc[w] = "acquire" /\ pc' = [pc EXCEPT ![w] = "done"]
      /\ attempted' = [attempted EXCEPT ![w] = {}]
      /\ UNCHANGED <<poolVars, fetchVars, tok, held, tried, verdict>>
    BY DEF NoCandidate, Goto
<1>2. attempted' \in [Workers -> SUBSET Tokens]
    BY <1>1, Unpack DEF ThreadInv, ThreadTyped
<1> QED BY <1>1, <1>2, IdleMove

LEMMA GiveBackSound ==
    ASSUME Inductive, NEW w \in Workers, GiveBack(w)
    PROVE  Inductive'
<1>0. PoolTyped /\ ThreadTyped /\ w \in Threads
    BY Unpack DEF Threads, ThreadInv
<1>1. /\ pc[w] = "giveBack" /\ pc' = [pc EXCEPT ![w] = "acquire"]
      /\ inflight' = Released(tok[w]) /\ held' = [held EXCEPT ![w] = FALSE]
      /\ tok' = [tok EXCEPT ![w] = NoToken]
      /\ UNCHANGED <<accounts, aliases, lineage, fetchVars, tried, attempted, verdict>>
    BY DEF GiveBack, Goto
<1>2. held[w] /\ act[w] = NoToken /\ call[w] = NoToken
    BY <1>0, <1>1, ThreadTokens DEF InPlace, HoldingPcs, NeedsActive, NeedsHttpCall
<1>3. ThreadTyped' /\ OnlyMoves(w)
    BY <1>0, <1>1 DEF ThreadTyped, Pcs, OnlyMoves, fetchVars
<1>4. /\ pc'[w] = "acquire" /\ ~held'[w]
      /\ tok'[w] = NoToken /\ act'[w] = NoToken /\ call'[w] = NoToken
    BY <1>0, <1>1, <1>2 DEF ThreadTyped, fetchVars
<1>5. KnowsTokens(w)'
    BY <1>4 DEF KnowsTokens, TokensOf, NeedsActive, NeedsHttpCall
<1>6. InPlace(w)'
    BY <1>4, PoolAssumption DEF InPlace, WorkerPcs, Pcs, HoldingPcs
<1> QED BY <1>1, <1>2, <1>3, <1>5, <1>6, ReleaseSound

LEMMA ReleaseEarlySound ==
    ASSUME Inductive, NEW w \in Workers, ReleaseEarly(w)
    PROVE  Inductive'
<1>0. PoolTyped /\ ThreadTyped /\ w \in Threads
    BY Unpack DEF Threads, ThreadInv
<1>1. /\ pc[w] = "submit" /\ pc' = [pc EXCEPT ![w] = "polling"]
      /\ inflight' = Released(tok[w]) /\ held' = [held EXCEPT ![w] = FALSE]
      /\ UNCHANGED <<accounts, aliases, lineage, fetchVars, tok, tried, attempted, verdict>>
    BY DEF ReleaseEarly, Goto
<1>2. held[w] /\ act[w] = NoToken /\ call[w] = NoToken /\ tok[w] # NoToken
    BY <1>0, <1>1, ThreadTokens DEF InPlace, HoldingPcs, NeedsActive, NeedsHttpCall
<1>3. ThreadTyped' /\ OnlyMoves(w)
    BY <1>0, <1>1 DEF ThreadTyped, Pcs, OnlyMoves, fetchVars
<1>4. /\ pc'[w] = "polling" /\ ~held'[w]
      /\ tok'[w] = tok[w] /\ act'[w] = NoToken /\ call'[w] = NoToken
    BY <1>0, <1>1, <1>2 DEF ThreadTyped, fetchVars
<1>5. Keeps
    BY <1>1 DEF Keeps, Known
<1>6. KnowsTokens(w)'
    BY <1>0, <1>2, <1>4, <1>5, OldMeans, KnowsAfter DEF Means, NeedsActive, NeedsHttpCall
<1>7. InPlace(w)'
    BY <1>4, PoolAssumption DEF InPlace, WorkerPcs, Pcs, HoldingPcs
<1> QED BY <1>1, <1>2, <1>3, <1>6, <1>7, ReleaseSound

LEMMA CancelSound ==
    ASSUME Inductive, NEW w \in Workers, Cancel(w)
    PROVE  Inductive'
<1>0. PoolTyped /\ TableInv /\ ThreadTyped /\ w \in Threads
    BY Unpack DEF Threads, ThreadInv
<1>1. /\ pc[w] \in {"ask", "submit", "polling"} /\ pc' = [pc EXCEPT ![w] = "done"]
      /\ inflight' = IF held[w] THEN Released(tok[w]) ELSE inflight
      /\ held' = [held EXCEPT ![w] = FALSE] /\ tok' = [tok EXCEPT ![w] = NoToken]
      /\ UNCHANGED <<accounts, aliases, lineage, fetchVars, tried, attempted, verdict>>
    BY DEF Cancel, Goto, ReleaseIfHeld, Generating
<1>2. act[w] = NoToken /\ call[w] = NoToken
    BY <1>0, <1>1, ThreadTokens DEF NeedsActive, NeedsHttpCall
<1>3. ThreadTyped' /\ OnlyMoves(w)
    BY <1>0, <1>1 DEF ThreadTyped, Pcs, OnlyMoves, fetchVars
<1>4. /\ pc'[w] = "done" /\ ~held'[w]
      /\ tok'[w] = NoToken /\ act'[w] = NoToken /\ call'[w] = NoToken
    BY <1>0, <1>1, <1>2 DEF ThreadTyped, fetchVars
<1>5. KnowsTokens(w)'
    BY <1>4 DEF KnowsTokens, TokensOf, NeedsActive, NeedsHttpCall
<1>6. InPlace(w)'
    BY <1>4, PoolAssumption DEF InPlace, WorkerPcs, Pcs, HoldingPcs
<1>7. CASE held[w]
    BY <1>1, <1>3, <1>5, <1>6, <1>7, ReleaseSound
<1>8. CASE ~held[w]
    <2>1. PoolSound
        BY <1>0, <1>1, <1>8, StutterSound DEF poolVars
    <2>2. held'[w] = held[w]
        BY <1>0, <1>1, <1>8 DEF ThreadTyped
    <2> QED BY <1>0, <1>3, <1>4, <1>5, <1>6, <1>8, <2>1, <2>2, StepSound
<1> QED BY <1>7, <1>8

LEMMA FinishSound ==
    ASSUME Inductive, NEW w \in Workers, Finish(w)
    PROVE  Inductive'
<1>0. PoolTyped /\ TableInv /\ ThreadTyped /\ w \in Threads
    BY Unpack DEF Threads, ThreadInv
<1>1. /\ pc[w] \in {"submit", "polling"} /\ pc' = [pc EXCEPT ![w] = "settle"]
      /\ \E v \in Verdicts \ {"none"} : verdict' = [verdict EXCEPT ![w] = v]
      /\ inflight' = IF held[w] THEN Released(tok[w]) ELSE inflight
      /\ held' = [held EXCEPT ![w] = FALSE]
      /\ UNCHANGED <<accounts, aliases, lineage, fetchVars, tok, tried, attempted>>
    BY DEF Finish, Goto, ReleaseIfHeld, Generating
<1>2. act[w] = NoToken /\ call[w] = NoToken /\ tok[w] # NoToken
    BY <1>0, <1>1, ThreadTokens DEF NeedsActive, NeedsHttpCall
<1>3. ThreadTyped' /\ OnlyMoves(w)
    BY <1>0, <1>1 DEF ThreadTyped, Pcs, OnlyMoves, fetchVars
<1>4. /\ pc'[w] = "settle" /\ ~held'[w]
      /\ tok'[w] = tok[w] /\ act'[w] = NoToken /\ call'[w] = NoToken
    BY <1>0, <1>1, <1>2 DEF ThreadTyped, fetchVars
<1>5. Keeps
    BY <1>1 DEF Keeps, Known
<1>6. KnowsTokens(w)'
    BY <1>0, <1>2, <1>4, <1>5, OldMeans, KnowsAfter DEF Means, NeedsActive, NeedsHttpCall
<1>7. InPlace(w)'
    BY <1>4, PoolAssumption DEF InPlace, WorkerPcs, Pcs, HoldingPcs
<1>8. CASE held[w]
    BY <1>1, <1>3, <1>6, <1>7, <1>8, ReleaseSound
<1>9. CASE ~held[w]
    <2>1. PoolSound
        BY <1>0, <1>1, <1>9, StutterSound DEF poolVars
    <2>2. held'[w] = held[w]
        BY <1>0, <1>1, <1>9 DEF ThreadTyped
    <2> QED BY <1>0, <1>3, <1>4, <1>6, <1>7, <1>9, <2>1, <2>2, StepSound
<1> QED BY <1>8, <1>9

\* What mark_image_result makes of an account is an account.
LEMMA MarkedType ==
    ASSUME NEW a \in Account, NEW v
    PROVE  Marked(a, v) \in Account
<1> DEFINE q == Requota(a.quota, IF a.quota <= 0 THEN 0 ELSE a.quota - 1)
<1>1. a.quota \in Nat \cup {Unmetered} /\ a.status \in Statuses
    BY DEF Account
<1>2. q \in Nat \cup {Unmetered}
    BY <1>1 DEF Requota, Unmetered
<1> HIDE DEF q
<1>3. [a EXCEPT !.quota = q,
                !.status = IF q = 0 THEN "limited"
                           ELSE IF a.status = "limited" THEN "normal" ELSE a.status]
          \in Account
    BY <1>1, <1>2 DEF Account, Statuses
<1> QED BY <1>3 DEF Marked, Charged, q

LEMMA SettleSound ==
    ASSUME Inductive, NEW w \in Workers, Settle(w)
    PROVE  Inductive'
<1>0. PoolTyped /\ TableInv /\ ThreadTyped /\ w \in Threads
    BY Unpack DEF Threads, ThreadInv
<1>1. /\ pc[w] = "settle"
      /\ Update(tok[w], Marked(accounts[Home(tok[w])], verdict[w]))
      /\ verdict' = [verdict EXCEPT ![w] = "none"]
      /\ UNCHANGED <<fetchVars, held, tried, attempted>>
      /\ \/ pc' = [pc EXCEPT ![w] = "auth"] /\ tok' = tok
         \/ /\ pc' = [pc EXCEPT ![w] = "ask"] \/ pc' = [pc EXCEPT ![w] = "done"]
            /\ tok' = [tok EXCEPT ![w] = NoToken]
    BY DEF Settle, Goto
<1>2. /\ act[w] = NoToken /\ call[w] = NoToken /\ tok[w] # NoToken /\ tok[w] \in Tokens
      /\ ~held[w]
    BY <1>0, <1>1, ThreadTokens DEF NeedsActive, NeedsHttpCall, InPlace, HoldingPcs
<1>3. PoolSound
    <2>1. Home(tok[w]) \in Live => Marked(accounts[Home(tok[w])], verdict[w]) \in Account
        BY <1>0, MarkedType DEF PoolTyped, Live
    <2> QED BY <1>0, <1>1, <1>2, <2>1, UpdateSound
<1>4. ThreadTyped' /\ OnlyMoves(w)
    BY <1>0, <1>1 DEF ThreadTyped, Pcs, OnlyMoves, fetchVars, Verdicts
<1>5. /\ ~held'[w] /\ act'[w] = NoToken /\ call'[w] = NoToken
      /\ \/ pc'[w] = "auth" /\ tok'[w] = tok[w]
         \/ pc'[w] \in {"ask", "done"} /\ tok'[w] = NoToken
    BY <1>0, <1>1, <1>2 DEF ThreadTyped, fetchVars
<1>6. KnowsTokens(w)'
    BY <1>0, <1>2, <1>3, <1>5, OldMeans, KnowsAfter
       DEF Means, NeedsActive, NeedsHttpCall, PoolSound
<1>7. InPlace(w)'
    BY <1>5, PoolAssumption DEF InPlace, WorkerPcs, Pcs, HoldingPcs
<1> QED BY <1>0, <1>1, <1>2, <1>3, <1>4, <1>6, <1>7, StepSound

LEMMA AuthRemoveSound ==
    ASSUME Inductive, NEW w \in Workers, AuthRemove(w)
    PROVE  Inductive'
<1>0. PoolTyped /\ TableInv /\ ThreadTyped /\ w \in Threads
    BY Unpack DEF Threads, ThreadInv
<1>1. /\ pc[w] = "authRemove" /\ pc' = [pc EXCEPT ![w] = "ask"]
      /\ RemoveInvalidToken(tok[w])
      /\ tok' = [tok EXCEPT ![w] = NoToken]
      /\ UNCHANGED <<fetchVars, held, tried, attempted, verdict>>
    BY DEF AuthRemove, Goto
<1>2. /\ act[w] = NoToken /\ call[w] = NoToken /\ tok[w] # NoToken /\ tok[w] \in Tokens
      /\ ~held[w]
    BY <1>0, <1>1, ThreadTokens DEF NeedsActive, NeedsHttpCall, InPlace, HoldingPcs
<1>3. PoolSound
    BY <1>0, <1>1, <1>2, RemoveInvalidTokenSound
<1>4. ThreadTyped' /\ OnlyMoves(w)
    BY <1>0, <1>1 DEF ThreadTyped, Pcs, OnlyMoves, fetchVars
<1>5. /\ ~held'[w] /\ act'[w] = NoToken /\ call'[w] = NoToken
      /\ pc'[w] = "ask" /\ tok'[w] = NoToken
    BY <1>0, <1>1, <1>2 DEF ThreadTyped, fetchVars
<1>6. KnowsTokens(w)'
    BY <1>5 DEF KnowsTokens, TokensOf, NeedsActive, NeedsHttpCall
<1>7. InPlace(w)'
    BY <1>5, PoolAssumption DEF InPlace, WorkerPcs, Pcs, HoldingPcs
<1> QED BY <1>0, <1>1, <1>2, <1>3, <1>4, <1>6, <1>7, StepSound

-----------------------------------------------------------------------------
(***************************************************************************)
(* The steps of fetch_remote_info and refresh_access_token                 *)
(***************************************************************************)

\* The tokens of an answer are applied to the account the thread took.
LEMMA AppliedSound ==
    ASSUME Inductive, NEW th \in Threads, NEW u \in {tok[th], act[th], call[th]},
           u # NoToken, NEW n \in Tokens, Applied(u, n)
    PROVE  PoolSound /\ Means(th, n) /\ n # NoToken
<1> DEFINE target == Home(u)
<1>0. PoolTyped /\ TableInv /\ n # NoToken
    BY Unpack, NoTokenAssumption
<1>1. PoolSound => Means(th, target)
    BY OldMeans DEF PoolSound
<1>2. lineage[target] = lineage[tok[th]]
    BY ThreadTokens
<1>3. \/ n = target /\ UNCHANGED poolVars
      \/ target \in Live /\ n = target /\ Renewal(target)
      \/ /\ target \in Live /\ n # target
         /\ n \in Known => lineage[n] = lineage[target]
         /\ Rotation(target, n)
    BY DEF Applied
<1> HIDE DEF target
<1>4. CASE n = target /\ UNCHANGED poolVars
    BY <1>0, <1>1, <1>4, StutterSound
<1>5. CASE target \in Live /\ n = target /\ Renewal(target)
    BY <1>0, <1>1, <1>5, RenewalSound
<1>6. CASE /\ target \in Live /\ n # target
           /\ n \in Known => lineage[n] = lineage[target]
           /\ Rotation(target, n)
    <2>1. PoolSound /\ n \in Known' /\ lineage'[n] = lineage[target]
        BY <1>0, <1>6, RotationSound
    <2> QED BY <1>0, <1>2, <2>1 DEF Means
<1> QED BY <1>3, <1>4, <1>5, <1>6

\* Whatever the refresh did to the pool, its caller goes on with a token that
\* names the account it took.
LEMMA ReturnedSound ==
    ASSUME Inductive, PoolSound, NEW th \in Threads, NEW arg, NEW result,
           result # NoToken, Means(th, result), Returned(th, arg, result),
           pc[th] \in {"preflight", "preflightHttp", "force", "forceHttp", "forcePlatform",
                       "auth", "authHttp", "authPlatform"},
           refreshLock' \in Threads \cup {NoThread}
    PROVE  Inductive'
<1>0. PoolTyped /\ ThreadTyped /\ tok[th] # NoToken /\ InPlace(th) /\ Keeps
    BY Unpack, ThreadTokens DEF ThreadInv, PoolSound
<1>1. /\ call' = [call EXCEPT ![th] = NoToken]
      /\ \/ /\ pc[th] \in {"preflight", "preflightHttp"}
            /\ act' = [act EXCEPT ![th] = result]
            /\ pc' = [pc EXCEPT ![th] = "info"]
            /\ UNCHANGED workerVars
         \/ /\ pc[th] \in {"force", "forceHttp", "forcePlatform"}
            /\ act' = [act EXCEPT ![th] = result]
            /\ pc' = [pc EXCEPT ![th] = "retry"] \/ pc' = [pc EXCEPT ![th] = "invalid"]
            /\ UNCHANGED workerVars
         \/ /\ pc[th] \in {"auth", "authHttp", "authPlatform"}
            /\ act' = [act EXCEPT ![th] = NoToken]
            /\ \/ /\ tried' = [tried EXCEPT ![th] = @ \ {arg}]
                  /\ tok' = [tok EXCEPT ![th] = NoToken]
                  /\ pc' = [pc EXCEPT ![th] = "ask"]
                  /\ UNCHANGED <<held, attempted, verdict>>
               \/ pc' = [pc EXCEPT ![th] = "authRemove"] /\ UNCHANGED workerVars
    BY DEF Returned, Goto
<1>2. result \in Tokens
    BY DEF Means, Known
<1>3. pc[th] \in {"auth", "authHttp", "authPlatform"} => th \in Workers /\ ~held[th]
    BY <1>0 DEF InPlace, Threads, HoldingPcs
<1>4. ThreadTyped'
    <2>1. call' \in [Threads -> Tokens \cup {NoToken}] /\ act' \in [Threads -> Tokens \cup {NoToken}]
        BY <1>0, <1>1, <1>2 DEF ThreadTyped
    <2>2. pc' \in [Threads -> Pcs] /\ tok' \in [Threads -> Tokens \cup {NoToken}]
        BY <1>0, <1>1 DEF ThreadTyped, workerVars, Pcs
    <2>3. /\ held' \in [Workers -> BOOLEAN] /\ verdict' \in [Workers -> Verdicts]
          /\ attempted' \in [Workers -> SUBSET Tokens] /\ tried' \in [Workers -> SUBSET Tokens]
        BY <1>0, <1>1, <1>3 DEF ThreadTyped, workerVars
    <2> QED BY <2>1, <2>2, <2>3 DEF ThreadTyped
<1>5. held' = held /\ OnlyMoves(th)
    BY <1>0, <1>1 DEF ThreadTyped, workerVars, OnlyMoves
<1>6. /\ call'[th] = NoToken
      /\ \/ /\ pc'[th] \in {"info", "retry", "invalid"} /\ act'[th] = result
            /\ tok'[th] = tok[th] /\ pc[th] \notin {"auth", "authHttp", "authPlatform"}
         \/ /\ pc'[th] = "ask" /\ act'[th] = NoToken
            /\ tok'[th] = NoToken /\ pc[th] \in {"auth", "authHttp", "authPlatform"}
         \/ /\ pc'[th] = "authRemove" /\ act'[th] = NoToken
            /\ tok'[th] = tok[th] /\ pc[th] \in {"auth", "authHttp", "authPlatform"}
    BY <1>0, <1>1 DEF ThreadTyped, workerVars
<1>7. KnowsTokens(th)'
    <2>1. Means(th, tok'[th]) /\ Means(th, act'[th]) /\ Means(th, call'[th])
        BY <1>0, <1>6, OldMeans DEF Means
    <2> QED BY <1>0, <1>6, <2>1, KnowsAfter DEF NeedsActive, NeedsHttpCall
<1>8. InPlace(th)'
    BY <1>0, <1>3, <1>5, <1>6, PoolAssumption DEF InPlace, WorkerPcs, Pcs, HoldingPcs
<1>9. th \in Workers => held'[th] = held[th] /\ (held[th] => lineage'[tok'[th]] = lineage[tok[th]])
    BY <1>0, <1>3, <1>5, <1>6, OldMeans DEF Means
<1> QED BY <1>4, <1>5, <1>7, <1>8, <1>9, StepSound

LEMMA BeginRefreshSound ==
    ASSUME Inductive, NEW th \in Threads, BeginRefresh(th)
    PROVE  Inductive'
<1> DEFINE arg == RefreshArgument(th)
           target == Home(arg)
<1>0. PoolTyped /\ TableInv /\ ThreadTyped
    BY Unpack DEF ThreadInv
<1>1. /\ pc[th] \in {"preflight", "force", "auth"} /\ UNCHANGED poolVars
      /\ \/ Returned(th, arg, arg) /\ UNCHANGED refreshLock
         \/ Returned(th, arg, target) /\ UNCHANGED refreshLock
         \/ /\ refreshLock' = th
            /\ call' = [call EXCEPT ![th] = arg]
            /\ act' = [act EXCEPT ![th] = target]
            /\ Goto(th, HttpOf(pc[th]))
            /\ UNCHANGED workerVars
    BY DEF BeginRefresh
<1>2. PoolSound
    BY <1>0, <1>1, StutterSound
<1>3. tok[th] # NoToken /\ InPlace(th) /\ arg \in {tok[th], act[th]} /\ arg # NoToken
    BY <1>1, ThreadTokens DEF RefreshArgument, NeedsActive
<1>4. target \in Tokens /\ arg \in Tokens /\ target # NoToken
    BY <1>3, ThreadTokens, NoTokenAssumption
<1>5. Means(th, arg) /\ Means(th, target)
    BY <1>2, <1>3, OldMeans DEF PoolSound
<1> HIDE DEF arg, target
<1>6. CASE Returned(th, arg, arg) /\ UNCHANGED refreshLock
    BY <1>0, <1>1, <1>2, <1>3, <1>5, <1>6, ReturnedSound DEF ThreadTyped
<1>7. CASE Returned(th, arg, target) /\ UNCHANGED refreshLock
    BY <1>0, <1>1, <1>2, <1>4, <1>5, <1>7, ReturnedSound DEF ThreadTyped
<1>8. CASE /\ refreshLock' = th
           /\ call' = [call EXCEPT ![th] = arg]
           /\ act' = [act EXCEPT ![th] = target]
           /\ Goto(th, HttpOf(pc[th]))
           /\ UNCHANGED workerVars
    <2>1. HttpOf(pc[th]) \in NeedsHttpCall
        BY <1>1 DEF HttpOf, NeedsHttpCall
    <2>2. pc' = [pc EXCEPT ![th] = HttpOf(pc[th])]
        BY <1>8 DEF Goto
    <2>3. ThreadTyped'
        BY <1>0, <1>4, <1>8, <2>1, <2>2 DEF ThreadTyped, workerVars, NeedsHttpCall, Pcs
    <2>4. OnlyMoves(th)
        BY <1>0, <1>8, <2>2 DEF ThreadTyped, workerVars, OnlyMoves
    <2>5. /\ pc'[th] = HttpOf(pc[th]) /\ call'[th] = arg /\ act'[th] = target
          /\ tok'[th] = tok[th] /\ held' = held
        BY <1>0, <1>8, <2>2 DEF ThreadTyped, workerVars
    <2>6. KnowsTokens(th)'
        <3>1. Means(th, tok'[th]) /\ Means(th, act'[th]) /\ Means(th, call'[th])
            BY <1>2, <1>5, <2>5, OldMeans DEF PoolSound
        <3> QED BY <1>2, <1>3, <1>4, <2>1, <2>5, <3>1, KnowsAfter
               DEF NeedsActive, NeedsHttpCall, PoolSound
    <2>7. InPlace(th)'
        BY <1>1, <1>3, <2>5 DEF InPlace, WorkerPcs, Pcs, HoldingPcs, HttpOf
    <2>8. held'[th] = held[th] /\ lineage'[tok'[th]] = lineage[tok[th]]
        BY <1>1, <2>5 DEF poolVars
    <2> QED BY <1>2, <2>3, <2>4, <2>6, <2>7, <2>8, StepSound
<1> QED BY <1>1, <1>6, <1>7, <1>8

LEMMA EndRefreshSound ==
    ASSUME Inductive, NEW th \in Threads, EndRefresh(th)
    PROVE  Inductive'
<1>0. PoolTyped /\ TableInv
    BY Unpack
<1>1. /\ pc[th] \in {"preflightHttp", "forceHttp", "authHttp"} /\ refreshLock' = NoThread
      /\ \/ Returned(th, call[th], act[th]) /\ UNCHANGED poolVars
         \/ \E n \in Tokens : Applied(act[th], n) /\ Returned(th, call[th], n)
    BY DEF EndRefresh
<1>2. act[th] # NoToken
    BY <1>1, ThreadTokens DEF NeedsActive
<1>3. CASE Returned(th, call[th], act[th]) /\ UNCHANGED poolVars
    <2>1. PoolSound
        BY <1>0, <1>3, StutterSound
    <2>2. Means(th, act[th])
        BY <2>1, OldMeans DEF PoolSound
    <2> QED BY <1>1, <1>2, <1>3, <2>1, <2>2, ReturnedSound
<1>4. ASSUME NEW n \in Tokens, Applied(act[th], n), Returned(th, call[th], n)
      PROVE  Inductive'
    <2>1. PoolSound /\ Means(th, n) /\ n # NoToken
        BY <1>2, <1>4, AppliedSound
    <2> QED BY <1>1, <1>4, <2>1, ReturnedSound
<1> QED BY <1>1, <1>3, <1>4

LEMMA SessionRefreshedSound ==
    ASSUME Inductive, NEW th \in Threads, SessionRefreshed(th)
    PROVE  Inductive'
<1> DEFINE l == IF pc[th] = "forceHttp" THEN "forcePlatform" ELSE "authPlatform"
<1>0. /\ ThreadTyped /\ pc[th] \in {"forceHttp", "authHttp"}
      /\ pc' = [pc EXCEPT ![th] = l] /\ UNCHANGED <<refreshLock, call, workerVars>>
    BY Unpack DEF ThreadInv, SessionRefreshed, Goto
<1>1. PICK n \in Tokens : Applied(act[th], n) /\ act' = [act EXCEPT ![th] = n]
    BY DEF SessionRefreshed
<1>2. act[th] # NoToken /\ call[th] # NoToken /\ tok[th] # NoToken /\ InPlace(th)
    BY <1>0, ThreadTokens DEF NeedsActive, NeedsHttpCall
<1>3. PoolSound /\ Means(th, n) /\ n # NoToken
    BY <1>1, <1>2, AppliedSound
<1>4. l \in {"forcePlatform", "authPlatform"} /\ l \in Pcs
    BY DEF Pcs
<1>5. /\ pc[th] = "forceHttp" <=> l = "forcePlatform"
      /\ pc[th] = "authHttp" <=> l = "authPlatform"
    BY <1>0
<1> HIDE DEF l
<1>6. ThreadTyped' /\ OnlyMoves(th)
    BY <1>0, <1>1, <1>4 DEF ThreadTyped, OnlyMoves, workerVars
<1>7. /\ pc'[th] = l /\ call'[th] = call[th] /\ act'[th] = n
      /\ tok'[th] = tok[th] /\ held' = held
    BY <1>0, <1>1 DEF ThreadTyped, workerVars
<1>8. Means(th, tok[th]) /\ Means(th, call[th])
    BY <1>3, OldMeans DEF PoolSound
<1>9. KnowsTokens(th)'
    BY <1>2, <1>3, <1>4, <1>7, <1>8, KnowsAfter DEF NeedsActive, NeedsHttpCall, PoolSound
<1>10. InPlace(th)'
    BY <1>0, <1>2, <1>4, <1>5, <1>7 DEF InPlace, WorkerPcs, Pcs, HoldingPcs
<1>11. held'[th] = held[th] /\ lineage'[tok'[th]] = lineage[tok[th]]
    BY <1>2, <1>7, <1>8 DEF Means
<1> QED BY <1>3, <1>6, <1>9, <1>10, <1>11, StepSound

LEMMA EndPlatformSound ==
    ASSUME Inductive, NEW th \in Threads, EndPlatform(th)
    PROVE  Inductive'
<1>0. PoolTyped /\ TableInv
    BY Unpack
<1>1. /\ pc[th] \in {"forcePlatform", "authPlatform"} /\ refreshLock' = NoThread
      /\ UNCHANGED poolVars
    BY DEF EndPlatform
<1>2. PICK n \in {act[th], Home(act[th])} : Returned(th, call[th], n)
    BY DEF EndPlatform
<1>3. act[th] # NoToken /\ Home(act[th]) # NoToken
    BY <1>1, ThreadTokens, NoTokenAssumption DEF NeedsActive
<1>4. PoolSound
    BY <1>0, <1>1, StutterSound
<1>5. Means(th, n) /\ n # NoToken
    BY <1>3, <1>4, OldMeans DEF PoolSound
<1> QED BY <1>1, <1>2, <1>4, <1>5, ReturnedSound

\* A step of a thread that drops its active token, and keeps its slot if it has
\* one: the last step of a check, or of a fetch that failed.
LEMMA FetchOver ==
    ASSUME Inductive, PoolSound, NEW th \in Threads,
           act' = [act EXCEPT ![th] = NoToken],
           tok' = tok \/ \E u \in Tokens : u # NoToken /\ Means(th, u) /\ tok' = [tok EXCEPT ![th] = u],
           NEW l \in {"giveBack", "submit", "done"}, pc' = [pc EXCEPT ![th] = l],
           l = "done" <=> th \notin Workers, l = "submit" => th \in Workers,
           pc[th] \in NeedsActive \ NeedsHttpCall,
           attempted' \in [Workers -> SUBSET Tokens], tried' \in [Workers -> SUBSET Tokens],
           UNCHANGED <<refreshLock, call, held, verdict>>
    PROVE  Inductive'
<1>0. ThreadTyped /\ tok[th] # NoToken /\ InPlace(th) /\ call[th] = NoToken /\ tok[th] \in Tokens
    BY Unpack, ThreadTokens DEF ThreadInv, NeedsActive, NeedsHttpCall
<1>1. ThreadTyped'
    BY <1>0 DEF ThreadTyped, Pcs
<1>2. OnlyMoves(th)
    BY <1>0 DEF ThreadTyped, OnlyMoves
<1>3. Means(th, tok'[th]) /\ tok'[th] # NoToken
    <2>1. Means(th, tok[th])
        BY OldMeans DEF PoolSound
    <2> QED BY <1>0, <2>1 DEF ThreadTyped
<1>4. pc'[th] = l /\ act'[th] = NoToken /\ call'[th] = NoToken
    BY <1>0 DEF ThreadTyped
<1>5. KnowsTokens(th)'
    BY <1>3, <1>4, KnowsAfter DEF Means, NeedsActive, NeedsHttpCall, PoolSound
<1>6. InPlace(th)'
    <2>1. th \in Workers => held[th]
        BY <1>0 DEF InPlace, HoldingPcs, WorkerPcs, Pcs, NeedsActive, NeedsHttpCall
    <2> QED BY <1>4, <2>1, PoolAssumption DEF InPlace, WorkerPcs, Pcs, HoldingPcs
<1>7. held'[th] = held[th] /\ lineage'[tok'[th]] = lineage[tok[th]]
    BY <1>3 DEF Means
<1> QED BY <1>1, <1>2, <1>5, <1>6, <1>7, StepSound

\* A thread that moves on with the tokens it has, from one place where it has an
\* active token to another.
LEMMA GoesOn ==
    ASSUME Inductive, PoolSound, NEW th \in Threads, NEW l \in {"update", "remove"},
           pc[th] \in {"info", "retry", "invalid"}, pc' = [pc EXCEPT ![th] = l],
           UNCHANGED <<refreshLock, call, act, workerVars>>
    PROVE  Inductive'
<1>0. /\ ThreadTyped /\ tok[th] # NoToken /\ act[th] # NoToken /\ call[th] = NoToken
      /\ InPlace(th)
    BY Unpack, ThreadTokens DEF ThreadInv, NeedsActive, NeedsHttpCall
<1>1. ThreadTyped' /\ OnlyMoves(th)
    BY <1>0 DEF ThreadTyped, OnlyMoves, workerVars, Pcs
<1>2. /\ pc'[th] = l /\ held' = held
      /\ tok'[th] = tok[th] /\ act'[th] = act[th] /\ call'[th] = call[th]
    BY <1>0 DEF ThreadTyped, workerVars
<1>3. Means(th, tok'[th]) /\ Means(th, act'[th]) /\ Means(th, call'[th])
    BY <1>2, OldMeans DEF PoolSound
<1>4. KnowsTokens(th)'
    BY <1>0, <1>2, <1>3, KnowsAfter DEF PoolSound, NeedsActive, NeedsHttpCall
<1>5. InPlace(th)'
    BY <1>0, <1>2 DEF InPlace, WorkerPcs, Pcs, HoldingPcs
<1>6. held'[th] = held[th] /\ lineage'[tok'[th]] = lineage[tok[th]]
    BY <1>0, <1>2, <1>3 DEF Means
<1> QED BY <1>1, <1>4, <1>5, <1>6, StepSound

\* A write of the invalid_count of an account.
LEMMA CountedSound ==
    ASSUME PoolTyped, TableInv, NEW t \in Live, NEW n \in 0..2,
           accounts' = [accounts EXCEPT ![t].invalid = n],
           UNCHANGED <<aliases, inflight, lineage>>
    PROVE  PoolSound
<1>1. t \in Tokens /\ accounts[t] \in Account
    BY DEF PoolTyped, Live
<1>2. [accounts[t] EXCEPT !.invalid = n] \in Account
    BY <1>1 DEF Account
<1>3. accounts' = [accounts EXCEPT ![t] = [accounts[t] EXCEPT !.invalid = n]]
    OBVIOUS
<1>4. accounts' \in [Tokens -> Account \cup {NoAccount}] /\ Live' \subseteq Live
    BY <1>1, <1>2, <1>3 DEF PoolTyped, Live
<1> QED BY <1>4, DataSound

LEMMA InfoOkSound ==
    ASSUME Inductive, NEW th \in Threads, InfoOk(th)
    PROVE  Inductive'
<1>0. PoolTyped /\ TableInv
    BY Unpack
<1>1. /\ pc[th] \in {"info", "retry"} /\ pc' = [pc EXCEPT ![th] = "update"]
      /\ \/ UNCHANGED accounts
         \/ /\ Home(act[th]) \in Live
            /\ accounts' = [accounts EXCEPT ![Home(act[th])].invalid = 0]
      /\ UNCHANGED <<aliases, inflight, lineage, fetchVars, workerVars>>
    BY DEF InfoOk, Goto
<1>2. PoolSound
    BY <1>0, <1>1, StutterSound, CountedSound DEF poolVars
<1> QED BY <1>1, <1>2, GoesOn DEF fetchVars

LEMMA StoreInfoSound ==
    ASSUME Inductive, NEW th \in Threads, StoreInfo(th)
    PROVE  Inductive'
<1> DEFINE target == Home(act[th])
<1>0. PoolTyped /\ TableInv /\ ThreadTyped /\ act[th] # NoToken
    BY Unpack, ThreadTokens DEF ThreadInv, StoreInfo, NeedsActive
<1>1. target \in Tokens /\ act[th] \in Tokens /\ target # NoToken
    BY <1>0, ThreadTokens, NoTokenAssumption
<1>2. PICK report \in Reports :
          /\ Update(act[th], [accounts[target] EXCEPT !.status = report.status,
                                                     !.quota = report.quota])
          /\ \/ /\ th \in Workers /\ tok' = [tok EXCEPT ![th] = target] /\ Goto(th, "submit")
                /\ tried' = [tried EXCEPT ![th] = @ \cup {target}]
                /\ attempted' = [attempted EXCEPT ![th] = {}]
             \/ /\ UNCHANGED <<tok, tried>> /\ Goto(th, AfterFetch(th))
                /\ \/ attempted' = attempted
                   \/ th \in Workers /\ attempted' = [attempted EXCEPT ![th] = @ \cup {target}]
    BY DEF StoreInfo
<1> DEFINE a == [accounts[target] EXCEPT !.status = report.status, !.quota = report.quota]
<1>3. target \in Live => a \in Account
    <2>1. report \in [status : {"normal", "limited"}, quota : Quotas]
        BY DEF Reports
    <2>2. report.status \in Statuses /\ report.quota \in Nat \cup {Unmetered}
        BY <2>1, PoolAssumption DEF Statuses
    <2>3. target \in Live => accounts[target] \in Account
        BY <1>0 DEF PoolTyped, Live
    <2> QED BY <2>2, <2>3 DEF Account
<1>4. PoolSound
    BY <1>0, <1>1, <1>2, <1>3, UpdateSound
<1>5. Means(th, target)
    BY <1>0, <1>4, OldMeans DEF PoolSound
<1>6. /\ pc[th] \in NeedsActive \ NeedsHttpCall /\ act' = [act EXCEPT ![th] = NoToken]
      /\ UNCHANGED <<refreshLock, call, held, verdict>>
    BY DEF StoreInfo, NeedsActive, NeedsHttpCall
<1> HIDE DEF target, a
<1>7. attempted' \in [Workers -> SUBSET Tokens] /\ tried' \in [Workers -> SUBSET Tokens]
    BY <1>0, <1>1, <1>2 DEF ThreadTyped
<1>8. CASE th \in Workers /\ tok' = [tok EXCEPT ![th] = target] /\ Goto(th, "submit")
    BY <1>1, <1>4, <1>5, <1>6, <1>7, <1>8, FetchOver DEF Goto
<1>9. CASE tok' = tok /\ Goto(th, AfterFetch(th))
    BY <1>4, <1>6, <1>7, <1>9, FetchOver DEF Goto, AfterFetch
<1> QED BY <1>2, <1>8, <1>9

LEMMA InfoFailsSound ==
    ASSUME Inductive, NEW th \in Threads, InfoFails(th)
    PROVE  Inductive'
<1>0. PoolTyped /\ TableInv /\ ThreadTyped
    BY Unpack DEF ThreadInv
<1>1. /\ pc[th] \in NeedsActive \ NeedsHttpCall /\ act' = [act EXCEPT ![th] = NoToken]
      /\ pc' = [pc EXCEPT ![th] = AfterFetch(th)]
      /\ UNCHANGED <<poolVars, refreshLock, call, workerVars>>
    BY DEF InfoFails, Goto, NeedsActive, NeedsHttpCall
<1>2. PoolSound
    BY <1>0, <1>1, StutterSound
<1>3. UNCHANGED <<refreshLock, call, held, verdict>> /\ UNCHANGED <<tok, tried, attempted>>
    BY <1>1 DEF workerVars
<1> QED BY <1>0, <1>1, <1>2, <1>3, FetchOver DEF AfterFetch, ThreadTyped

LEMMA InfoInvalidSound ==
    ASSUME Inductive, NEW th \in Threads, InfoInvalid(th)
    PROVE  Inductive'
<1>0. PoolTyped /\ TableInv /\ ThreadTyped
    BY Unpack DEF ThreadInv
<1>1. /\ pc[th] \in {"info", "retry"}
      /\ pc' = [pc EXCEPT ![th] = IF pc[th] = "info" THEN "force" ELSE "invalid"]
      /\ UNCHANGED <<poolVars, fetchVars, workerVars>>
    BY DEF InfoInvalid, Goto
<1>2. PoolSound
    BY <1>0, <1>1, StutterSound
<1>3. ThreadTyped' /\ OnlyMoves(th)
    BY <1>0, <1>1 DEF ThreadTyped, OnlyMoves, fetchVars, workerVars, Pcs
<1>4. /\ pc'[th] \in {"force", "invalid"} /\ held' = held
      /\ tok'[th] = tok[th] /\ act'[th] = act[th] /\ call'[th] = call[th]
    BY <1>0, <1>1 DEF ThreadTyped, fetchVars, workerVars
<1>5. tok[th] # NoToken /\ act[th] # NoToken /\ call[th] = NoToken /\ InPlace(th)
    BY <1>1, ThreadTokens DEF NeedsActive, NeedsHttpCall
<1>6. KnowsTokens(th)'
    <2>1. Means(th, tok'[th]) /\ Means(th, act'[th]) /\ Means(th, call'[th])
        BY <1>2, <1>4, OldMeans DEF PoolSound
    <2> QED BY <1>2, <1>4, <1>5, <2>1, KnowsAfter DEF PoolSound, NeedsActive, NeedsHttpCall
<1>7. InPlace(th)'
    BY <1>1, <1>4, <1>5 DEF InPlace, WorkerPcs, Pcs, HoldingPcs
<1>8. held'[th] = held[th] /\ lineage'[tok'[th]] = lineage[tok[th]]
    BY <1>1 DEF poolVars, workerVars
<1> QED BY <1>2, <1>3, <1>6, <1>7, <1>8, StepSound

LEMMA RecordInvalidSound ==
    ASSUME Inductive, NEW th \in Threads, RecordInvalid(th)
    PROVE  Inductive'
<1> DEFINE target == Home(act[th])
<1>0. PoolTyped /\ TableInv /\ ThreadTyped /\ act[th] # NoToken /\ pc[th] = "invalid"
    BY Unpack, ThreadTokens DEF ThreadInv, RecordInvalid, NeedsActive
<1>1. target \in Tokens
    BY <1>0, ThreadTokens
<1>2. /\ \/ accounts' = accounts
         \/ /\ target \in Live
            /\ accounts' = [accounts EXCEPT ![target].invalid = OneMore(@)]
      /\ UNCHANGED <<aliases, inflight, lineage, refreshLock, call, workerVars>>
    BY DEF RecordInvalid
<1>3. \/ Goto(th, "remove") /\ UNCHANGED act
      \/ Goto(th, AfterFetch(th)) /\ act' = [act EXCEPT ![th] = NoToken]
    BY DEF RecordInvalid
<1> HIDE DEF target
<1>4. PoolSound
    <2>1. CASE accounts' = accounts
        BY <1>0, <1>2, <2>1, StutterSound DEF poolVars
    <2>2. CASE target \in Live /\ accounts' = [accounts EXCEPT ![target].invalid = OneMore(@)]
        <3>1. accounts[target].invalid \in 0..2
            BY <1>0, <2>2 DEF PoolTyped, Live, Account
        <3>2. OneMore(accounts[target].invalid) \in 0..2
            BY <3>1 DEF OneMore
        <3> QED BY <1>0, <1>2, <2>2, <3>2, CountedSound
    <2> QED BY <1>2, <2>1, <2>2
<1>5. CASE Goto(th, "remove") /\ UNCHANGED act
    BY <1>0, <1>2, <1>4, <1>5, GoesOn DEF Goto
<1>6. CASE Goto(th, AfterFetch(th)) /\ act' = [act EXCEPT ![th] = NoToken]
    <2>1. UNCHANGED <<refreshLock, call, held, verdict>> /\ UNCHANGED <<tok, tried, attempted>>
        BY <1>2 DEF workerVars
    <2> QED BY <1>0, <1>4, <1>6, <2>1, FetchOver
            DEF Goto, AfterFetch, ThreadTyped, NeedsActive, NeedsHttpCall
<1> QED BY <1>3, <1>5, <1>6

LEMMA RemoveInvalidSound ==
    ASSUME Inductive, NEW th \in Threads, RemoveInvalid(th)
    PROVE  Inductive'
<1>0. PoolTyped /\ TableInv /\ ThreadTyped
    BY Unpack DEF ThreadInv
<1>1. /\ pc[th] \in NeedsActive \ NeedsHttpCall /\ act' = [act EXCEPT ![th] = NoToken]
      /\ RemoveInvalidToken(act[th])
      /\ pc' = [pc EXCEPT ![th] = AfterFetch(th)]
      /\ UNCHANGED <<refreshLock, call, workerVars>>
    BY DEF RemoveInvalid, Goto, NeedsActive, NeedsHttpCall
<1>2. act[th] \in Tokens
    BY <1>1, ThreadTokens
<1>3. PoolSound
    BY <1>0, <1>1, <1>2, RemoveInvalidTokenSound
<1>4. UNCHANGED <<refreshLock, call, held, verdict>> /\ UNCHANGED <<tok, tried, attempted>>
    BY <1>1 DEF workerVars
<1> QED BY <1>0, <1>1, <1>3, <1>4, FetchOver DEF AfterFetch, ThreadTyped

-----------------------------------------------------------------------------
(***************************************************************************)
(* The steps of the checks, and of the operator                            *)
(***************************************************************************)

\* A check starts on an account of the pool.
LEMMA CheckStarts ==
    ASSUME Inductive, NEW c \in Checkers, NEW t \in Live, pc[c] = "start",
           tok' = [tok EXCEPT ![c] = t],
           \/ act' = [act EXCEPT ![c] = t] /\ Goto(c, "preflight")
           \/ act' = act /\ Goto(c, "login"),
           UNCHANGED <<poolVars, refreshLock, held, tried, attempted, call, verdict>>
    PROVE  Inductive'
<1>0. PoolTyped /\ TableInv /\ ThreadTyped /\ c \in Threads /\ c \notin Workers
    BY Unpack, PoolAssumption DEF ThreadInv, Threads
<1>1. t \in Tokens /\ t \in Known /\ t # NoToken
    BY <1>0, LiveKnown, NoTokenAssumption DEF Live
<1>2. act[c] = NoToken /\ call[c] = NoToken
    BY <1>0, ThreadTokens DEF NeedsActive, NeedsHttpCall
<1>3. PoolSound
    BY <1>0, StutterSound
<1>4. ThreadTyped' /\ OnlyMoves(c)
    BY <1>0, <1>1 DEF ThreadTyped, OnlyMoves, Goto, Pcs
<1>5. /\ tok'[c] = t /\ call'[c] = NoToken
      /\ \/ pc'[c] = "preflight" /\ act'[c] = t
         \/ pc'[c] = "login" /\ act'[c] = NoToken
    BY <1>0, <1>2 DEF ThreadTyped, Goto
<1>6. KnowsTokens(c)'
    BY <1>1, <1>3, <1>5 DEF KnowsTokens, TokensOf, NeedsActive, NeedsHttpCall, PoolSound, Keeps
<1>7. InPlace(c)'
    BY <1>0, <1>5 DEF InPlace
<1> QED BY <1>0, <1>3, <1>4, <1>6, <1>7, StepSound

\* A check goes on or ends, with a token that names the account it took.
LEMMA CheckGoesOn ==
    ASSUME Inductive, PoolSound, NEW c \in Checkers, NEW u, NEW l \in {"revive", "remove", "done"},
           pc[c] \in {"login", "revive"}, Means(c, u), u \in Tokens \cup {NoToken},
           act' = [act EXCEPT ![c] = u],
           u # NoToken <=> l # "done", Goto(c, l),
           UNCHANGED <<refreshLock, call, workerVars>>
    PROVE  Inductive'
<1>0. ThreadTyped /\ c \in Threads /\ c \notin Workers
    BY Unpack, PoolAssumption DEF ThreadInv, Threads
<1>1. tok[c] # NoToken /\ call[c] = NoToken
    BY <1>0, ThreadTokens DEF NeedsHttpCall
<1>2. ThreadTyped' /\ OnlyMoves(c)
    BY <1>0 DEF ThreadTyped, OnlyMoves, Goto, Pcs, workerVars
<1>3. tok'[c] = tok[c] /\ call'[c] = NoToken /\ pc'[c] = l /\ act'[c] = u
    BY <1>0, <1>1 DEF ThreadTyped, Goto, workerVars
<1>4. KnowsTokens(c)'
    <2>1. Means(c, tok'[c]) /\ Means(c, act'[c]) /\ Means(c, call'[c])
        BY <1>0, <1>3, OldMeans DEF PoolSound, Means
    <2> QED BY <1>0, <1>1, <1>3, <2>1, KnowsAfter DEF PoolSound, NeedsActive, NeedsHttpCall
<1>5. InPlace(c)'
    BY <1>0, <1>3 DEF InPlace
<1> QED BY <1>0, <1>2, <1>4, <1>5, StepSound

LEMMA LoginOkSound ==
    ASSUME Inductive, NEW c \in Checkers, LoginOk(c)
    PROVE  Inductive'
<1>0. c \in Threads /\ pc[c] = "login"
    BY DEF Threads, LoginOk
<1>1. PICK n \in Tokens : Applied(tok[c], n) /\ act' = [act EXCEPT ![c] = n]
    BY DEF LoginOk
<1>2. tok[c] # NoToken
    BY <1>0, ThreadTokens
<1>3. PoolSound /\ Means(c, n) /\ n # NoToken
    BY <1>0, <1>1, <1>2, AppliedSound
<1>4. Goto(c, "revive") /\ UNCHANGED <<refreshLock, call, workerVars>>
    BY DEF LoginOk
<1> QED BY <1>0, <1>1, <1>3, <1>4, CheckGoesOn

LEMMA ReviveSound ==
    ASSUME Inductive, NEW c \in Checkers, Revive(c)
    PROVE  Inductive'
<1>0. PoolTyped /\ TableInv /\ c \in Threads /\ pc[c] = "revive" /\ act[c] \in Tokens
    BY Unpack, ThreadTokens DEF Threads, Revive, NeedsActive
<1> DEFINE a == [accounts[Home(act[c])] EXCEPT !.status = "normal"]
<1>1. Home(act[c]) \in Live => a \in Account
    BY <1>0 DEF PoolTyped, Live, Account, Statuses
<1>2. Update(act[c], a) /\ act' = [act EXCEPT ![c] = NoToken] /\ Goto(c, "done")
      /\ UNCHANGED <<refreshLock, call, workerVars>>
    BY DEF Revive
<1> HIDE DEF a
<1>3. PoolSound
    BY <1>0, <1>1, <1>2, UpdateSound
<1> QED BY <1>0, <1>2, <1>3, CheckGoesOn DEF Means

LEMMA LoginDeactivatedSound ==
    ASSUME Inductive, NEW c \in Checkers, LoginDeactivated(c)
    PROVE  Inductive'
<1>0. PoolTyped /\ TableInv /\ ThreadTyped /\ c \in Threads /\ pc[c] = "login" /\ tok[c] \in Tokens
    BY Unpack, ThreadTokens DEF Threads, LoginDeactivated, ThreadInv
<1> DEFINE a == [accounts[Home(tok[c])] EXCEPT !.status = "disabled",
                                               !.quota = Requota(@, 0)]
<1>1. Home(tok[c]) \in Live => a \in Account
    BY <1>0 DEF PoolTyped, Live, Account, Statuses, Requota
<1>2. Update(tok[c], a) /\ Goto(c, "done") /\ UNCHANGED <<fetchVars, workerVars>>
    BY DEF LoginDeactivated
<1> HIDE DEF a
<1>3. PoolSound
    BY <1>0, <1>1, <1>2, UpdateSound
<1>4. act[c] = NoToken
    BY <1>0, ThreadTokens DEF NeedsActive
<1>5. act' = [act EXCEPT ![c] = NoToken] /\ UNCHANGED <<refreshLock, call, workerVars>>
    BY <1>0, <1>2, <1>4 DEF fetchVars, ThreadTyped
<1> QED BY <1>0, <1>2, <1>3, <1>5, CheckGoesOn DEF Means

LEMMA LoginFailsSound ==
    ASSUME Inductive, NEW c \in Checkers, LoginFails(c)
    PROVE  Inductive'
<1>0. /\ PoolTyped /\ TableInv /\ c \in Threads /\ pc[c] = "login"
      /\ tok[c] \in Tokens /\ tok[c] # NoToken
    BY Unpack, ThreadTokens DEF Threads, LoginFails
<1>1. /\ act' = [act EXCEPT ![c] = tok[c]] /\ Goto(c, "remove")
      /\ UNCHANGED <<poolVars, refreshLock, call, workerVars>>
    BY DEF LoginFails
<1>2. PoolSound
    BY <1>0, <1>1, StutterSound
<1>3. Means(c, tok[c])
    BY <1>0, <1>2, OldMeans DEF PoolSound
<1> QED BY <1>0, <1>1, <1>2, <1>3, CheckGoesOn

\* An import, a deletion or an edit: no thread moves.
LEMMA OperatorSound ==
    ASSUME Inductive, PoolSound, UNCHANGED <<refreshLock, pc, workerVars, call, act>>
    PROVE  Inductive'
<1>0. PoolTyped /\ TableInv /\ ThreadInv /\ SlotsByLineage
    BY Unpack
<1>1. ThreadTyped' /\ WorkersHold' /\ ChecksStayOut'
    BY <1>0 DEF ThreadInv, ThreadTyped, WorkersHold, ChecksStayOut, workerVars
<1>2. ASSUME NEW th \in Threads
      PROVE  KnowsTokens(th)'
    <2>1. Means(th, tok[th]) /\ Means(th, act[th]) /\ Means(th, call[th])
        BY OldMeans DEF PoolSound
    <2> QED BY <2>1, ThreadTokens, KnowsAfter DEF PoolSound, workerVars
<1>3. ASSUME NEW w \in Workers
      PROVE  held'[w] = held[w] /\ (held[w] => lineage'[tok'[w]] = lineage[tok[w]])
    <2>1. held[w] => tok[w] # NoToken
        BY ThreadTokens DEF Threads, InPlace, HoldingPcs
    <2> QED BY <2>1, OldMeans DEF PoolSound, Threads, Means, workerVars
<1>4. SlotsByLineage'
    BY <1>0, <1>3, SlotsKept
<1> QED BY <1>1, <1>2, <1>4
       DEF Inductive, TypeOK, PoolSound, PoolTyped, ThreadTyped, ThreadsKnowTokens

LEMMA EditSound ==
    ASSUME Inductive, NEW t \in Tokens, Edit(t)
    PROVE  Inductive'
<1>0. PoolTyped /\ TableInv /\ Home(t) \in Live
    BY Unpack DEF Edit
<1>1. PICK s \in EditedStatuses, q \in Quotas \ {Unmetered} :
          Update(t, [accounts[Home(t)] EXCEPT !.status = s, !.quota = Requota(@, q)])
    BY DEF Edit
<1>2. accounts[Home(t)] \in Account /\ s \in Statuses /\ q \in Nat
    BY <1>0, PoolAssumption DEF PoolTyped, Live
<1>3. [accounts[Home(t)] EXCEPT !.status = s, !.quota = Requota(@, q)] \in Account
    BY <1>2 DEF Account, Requota
<1>4. PoolSound
    BY <1>0, <1>1, <1>3, UpdateSound
<1> QED BY <1>4, OperatorSound DEF Edit

-----------------------------------------------------------------------------
(***************************************************************************)
(* The theorems                                                            *)
(***************************************************************************)

LEMMA InitInductive ==
    ASSUME Init
    PROVE  Inductive
<1>1. PICK q \in Quotas :
          accounts = [t \in Tokens |->
              IF t \in InitialTokens THEN [New(q) EXCEPT !.invalid = LoadedRefusals]
                                     ELSE NoAccount]
    BY DEF Init
<1>2. [New(q) EXCEPT !.invalid = LoadedRefusals] \in Account
    BY PoolAssumption DEF New, Account, Statuses
<1>3. TypeOK
    <2>1. accounts \in [Tokens -> Account \cup {NoAccount}]
        BY <1>1, <1>2
    <2>2. /\ aliases \in [Tokens -> Tokens \cup {NoToken}] /\ inflight \in [Tokens -> Nat]
          /\ lineage \in [Tokens -> Tokens \cup {NoToken}]
          /\ refreshLock \in Threads \cup {NoThread}
        BY DEF Init
    <2>3. /\ pc \in [Threads -> Pcs] /\ tok \in [Threads -> Tokens \cup {NoToken}]
          /\ call \in [Threads -> Tokens \cup {NoToken}]
          /\ act \in [Threads -> Tokens \cup {NoToken}]
        BY DEF Init, Pcs
    <2>4. /\ held \in [Workers -> BOOLEAN] /\ attempted \in [Workers -> SUBSET Tokens]
          /\ tried \in [Workers -> SUBSET Tokens]
          /\ verdict \in [Workers -> Verdicts]
        BY DEF Init, Verdicts
    <2> QED BY <2>1, <2>2, <2>3, <2>4 DEF TypeOK
<1>4. Live = InitialTokens /\ Known = InitialTokens
    BY <1>1, <1>2, PoolAssumption, NoTokenAssumption, NoAccountAssumption DEF Live, Known, Init
<1>6. TableInv
    <2>1. FreshUnused
        BY <1>1, <1>4, NoTokenAssumption DEF FreshUnused, Init
    <2>2. OneKeyPerAccount
        BY <1>4, PoolAssumption DEF OneKeyPerAccount, Init
    <2>3. EntriesKeepLineage
        BY DEF EntriesKeepLineage, Init
    <2>4. LineageLeadsHome
        <3> SUFFICES ASSUME NEW t \in Live, NEW u \in Tokens, lineage[u] = lineage[t]
                     PROVE  t \in Visited(Live, aliases, u)
            BY DEF LineageLeadsHome
        <3>1. u = t
            BY <1>4, PoolAssumption, NoTokenAssumption DEF Init
        <3> QED BY <3>1, VisitedSelf
    <2>5. ReplacedIdle
        BY DEF ReplacedIdle, Init
    <2> QED BY <2>1, <2>2, <2>3, <2>4, <2>5 DEF TableInv
<1>7. ThreadsKnowTokens
    BY NoTokenAssumption DEF ThreadsKnowTokens, KnowsTokens, TokensOf, NeedsActive,
                             NeedsHttpCall, Init
<1>8. WorkersHold /\ ChecksStayOut
    BY PoolAssumption DEF WorkersHold, ChecksStayOut, WorkerPcs, Pcs, HoldingPcs, Init, Threads
<1>9. SlotsByLineage
    <2>1. \A l : LineageHolders(l) = {}
        BY DEF LineageHolders, Init
    <2>2. \A t \in Tokens : inflight[t] = 0
        BY DEF Init
    <2>3. MaxConcurrency \in Nat /\ Live \subseteq Tokens /\ Cardinality({}) = 0
        BY PoolAssumption, FS_EmptySet DEF Live
    <2> QED BY <2>1, <2>2, <2>3 DEF SlotsByLineage
<1> QED BY <1>3, <1>6, <1>7, <1>8, <1>9 DEF Inductive

\* When no import names a token the pool has known before, every step keeps the
\* inductive invariant.
LEMMA NextInductive ==
    ASSUME ~Reimport, Inductive, [Next]_vars
    PROVE  Inductive'
<1>1. ASSUME NEW th \in Threads, Fetch(th)
      PROVE  Inductive'
    BY <1>1, BeginRefreshSound, EndRefreshSound, SessionRefreshedSound, EndPlatformSound,
       InfoOkSound, StoreInfoSound, InfoFailsSound,
       InfoInvalidSound, RecordInvalidSound, RemoveInvalidSound DEF Fetch
<1>2. ASSUME NEW w \in Workers, WorkerStep(w) \/ Cancel(w)
      PROVE  Inductive'
    BY <1>2, AskSound, AcquireSound, NoCandidateSound, GiveBackSound, ReleaseEarlySound, CancelSound,
       FinishSound, SettleSound, AuthRemoveSound DEF WorkerStep
<1>3. ASSUME NEW c \in Checkers, CheckerStep(c)
      PROVE  Inductive'
    <2>1. CASE StartCheck(c)
        BY <2>1, CheckStarts DEF StartCheck
    <2>2. CASE StartLogin(c)
        BY <2>2, CheckStarts DEF StartLogin, fetchVars
    <2> QED BY <1>3, <2>1, <2>2, LoginOkSound, ReviveSound, LoginDeactivatedSound,
               LoginFailsSound DEF CheckerStep
<1>4. ASSUME Operator
      PROVE  Inductive'
    <2>0. PoolTyped /\ TableInv
        BY Unpack
    <2>1. ASSUME NEW t \in Tokens, Import(t)
          PROVE  Inductive'
        <3>1. t \notin Known
            BY <2>1 DEF Import
        <3> QED BY <2>0, <2>1, <3>1, ImportSound, OperatorSound DEF Import
    <2>2. ASSUME NEW t \in Tokens, Delete(t)
          PROVE  Inductive'
        BY <2>0, <2>2, DeletionSound, OperatorSound DEF Delete
    <2> QED BY <1>4, <2>1, <2>2, EditSound DEF Operator
<1>5. CASE UNCHANGED vars
    <2>1. PoolSound
        BY <1>5, Unpack, StutterSound DEF vars, poolVars
    <2> QED BY <1>5, <2>1, OperatorSound DEF vars, workerVars
<1> QED BY <1>1, <1>2, <1>3, <1>4, <1>5 DEF Next

\* The inductive invariant implies the properties.
LEMMA InductiveImplies ==
    ASSUME Inductive
    PROVE  /\ SlotAccounting /\ ConcurrencyRespected
           /\ TracksAccount /\ OneKeyPerAccount
<1>0. PoolTyped /\ TableInv /\ ThreadInv /\ SlotsByLineage
    BY Unpack
<1>1. ASSUME NEW t \in Live
      PROVE  Holders(t) = LineageHolders(lineage[t])
    <2>1. ASSUME NEW w \in Workers, held[w]
          PROVE  Home(tok[w]) = t <=> lineage[tok[w]] = lineage[t]
        <3>1. tok[w] # NoToken /\ tok[w] \in Tokens
            BY <2>1, ThreadTokens DEF Threads, InPlace, HoldingPcs
        <3> QED BY <1>0, <3>1, HomeFacts
    <2> QED BY <2>1 DEF Holders, LineageHolders
<1>2. SlotAccounting
    BY <1>0, <1>1 DEF SlotAccounting, SlotsByLineage
<1>3. ConcurrencyRespected
    BY <1>0, <1>1 DEF ConcurrencyRespected, SlotsByLineage
<1>4. TracksAccount
    <2> SUFFICES ASSUME NEW th \in Threads, NEW t \in Live, NEW u \in TokensOf(th),
                        lineage[t] = lineage[u]
                 PROVE  Home(u) = t
        BY DEF TracksAccount
    <2>1. u \in Tokens
        BY ThreadTokens DEF TokensOf
    <2> QED BY <1>0, <2>1, HomeFacts
<1> QED BY <1>0, <1>2, <1>3, <1>4 DEF TableInv

\* The invariant holds in every state the service can reach.
THEOREM PoolInvariant ==
    ASSUME ~Reimport
    PROVE  Spec => []Inductive
<1>1. Init => Inductive
    BY InitInductive
<1>2. Inductive /\ [Next]_vars => Inductive'
    BY NextInductive
<1> QED BY <1>1, <1>2, PTL DEF Spec

\* Every variable keeps its type.
THEOREM PoolTypes ==
    ASSUME ~Reimport
    PROVE  Spec => []TypeOK
<1>1. Inductive => TypeOK
    BY DEF Inductive
<1> QED BY <1>1, PoolInvariant, PTL

\* No slot leaks and none is freed twice: the in-flight count of every account
\* is the number of workers that hold a slot on it, through refreshes, removals,
\* early releases, failures and cancellations, whatever the number of workers,
\* accounts and checks.
THEOREM SlotsAreAccounted ==
    ASSUME ~Reimport
    PROVE  Spec => []SlotAccounting
<1> QED BY InductiveImplies, PoolInvariant, PTL

\* No account serves more workers than image_account_concurrency.
THEOREM ConcurrencyIsRespected ==
    ASSUME ~Reimport
    PROVE  Spec => []ConcurrencyRespected
<1> QED BY InductiveImplies, PoolInvariant, PTL

\* A thread's token leads to the account it took as long as the pool has it.
THEOREM AccountsAreTracked ==
    ASSUME ~Reimport
    PROVE  Spec => []TracksAccount
<1> QED BY InductiveImplies, PoolInvariant, PTL

\* An account has one key at a time, however its token is replaced and also when
\* a refresh brings an earlier one back.
THEOREM KeysAreUnique ==
    ASSUME ~Reimport
    PROVE  Spec => []OneKeyPerAccount
<1> QED BY InductiveImplies, PoolInvariant, PTL
=============================================================================
