--------------------------- MODULE ChatCacheProofs ---------------------------
(***************************************************************************)
(* What ChatCache promises for every number of requests, keys, threads and *)
(* entries.  The steps differ in which variables they touch: those of the  *)
(* store and of the owner are proved one by one, the others only move a    *)
(* request on.                                                             *)
(***************************************************************************)
EXTENDS ChatCache, FiniteSetTheorems, TLAPS

\* The part of the invariant that does not count entries.
Logic == /\ ComputationsAreRegistered /\ AnswersGrow /\ WaitersJoined
         /\ WholeAnswers /\ WaitersAreTold

-----------------------------------------------------------------------------
\* The variables keep their types.
LEMMA TypesKept ==
    ASSUME TypeOK, [Next]_vars
    PROVE  TypeOK'
<1> USE CacheAssumption DEF TypeOK, request, store, publication, locks, Goto, Yields, End, Pcs, Ended
<1>1. ASSUME NEW c \in Calls, Dispatch(c) PROVE TypeOK'
    BY <1>1 DEF Dispatch
<1>2. ASSUME NEW c \in Calls, Bypass(c) \/ Direct(c) PROVE TypeOK'
    BY <1>2 DEF Bypass, Direct
<1>3. ASSUME NEW c \in Calls, Hit(c) \/ Join(c) \/ Own(c) PROVE TypeOK'
    BY <1>3 DEF Hit, Join, Own, Looks
<1>4. ASSUME NEW c \in Calls, Chunk(c) \/ Computed(c) \/ ComputeFails(c) \/ Abandon(c)
      PROVE  TypeOK'
    BY <1>4 DEF Chunk, Computed, ComputeFails, Abandon
<1>5. ASSUME NEW c \in Calls, Erase(c) \/ Store(c) PROVE TypeOK'
    BY <1>5 DEF Erase, Store, Erased, Pruned, Cached
<1>6. ASSUME NEW c \in Calls, Publish(c) PROVE TypeOK'
    BY <1>6 DEF Publish
<1>7. ASSUME NEW c \in Calls, Wake(c) PROVE TypeOK'
    <2>1. source[c] \in Calls \/ source[c] = NoCall
        OBVIOUS
    <2> QED BY <1>7, <2>1 DEF Wake
<1>8. ASSUME NEW c \in Calls, EndReplayEntry(c) PROVE TypeOK'
    BY <1>8 DEF EndReplayEntry, LeaveEntry
<1>9. ASSUME NEW c \in Calls, EndReplayCall(c) PROVE TypeOK'
    BY <1>9 DEF EndReplayCall, LeaveCall
<1>10. ASSUME NEW c \in Calls, AbandonReplay(c) PROVE TypeOK'
    BY <1>10 DEF AbandonReplay
<1>11. ASSUME NEW k \in Keys, Expire(k) PROVE TypeOK'
    BY <1>11 DEF Expire
<1>12. CASE UNCHANGED vars
    BY <1>12 DEF vars
<1> QED BY <1>1, <1>2, <1>3, <1>4, <1>5, <1>6, <1>7, <1>8, <1>9, <1>10, <1>11, <1>12 DEF Next, Step

-----------------------------------------------------------------------------
\* A request that ends without a word to others, who expect none.
LEMMA OnlyEnds ==
    ASSUME TypeOK, Logic, NEW c \in Calls, NEW label \in Ended,
           pc' = [pc EXCEPT ![c] = label],
           UNCHANGED <<request, store, publication, produced, source>>,
           pc[c] \notin Computing \cup {"publish", "publishError"},
           label = "done" =>
              source[c] = NoCall \/ (produced[source[c]] = "whole" /\ key[source[c]] = key[c])
    PROVE  Logic'
<1> USE DEF TypeOK, Logic, request, store, publication, Computing, Ended
<1>1. ComputationsAreRegistered'
    BY DEF ComputationsAreRegistered
<1>2. AnswersGrow'
    BY DEF AnswersGrow
<1>3. WaitersJoined'
    BY DEF WaitersJoined
<1>4. WholeAnswers'
    BY DEF WholeAnswers
<1>5. WaitersAreTold'
    BY DEF WaitersAreTold, WaitersJoined
<1> QED BY <1>1, <1>2, <1>3, <1>4, <1>5

-----------------------------------------------------------------------------
\* Each step keeps the logic of the cache.
LEMMA LogicKept ==
    ASSUME TypeOK, Logic, [Next]_vars
    PROVE  Logic'
<1> USE CacheAssumption
<1> USE DEF TypeOK, request, store, publication, locks, Goto, Yields, End
<1>1. ASSUME NEW c \in Calls, Dispatch(c) PROVE Logic'
    BY <1>1 DEF Dispatch, Logic, ComputationsAreRegistered, AnswersGrow, WaitersJoined,
                WholeAnswers, WaitersAreTold
<1>2. ASSUME NEW c \in Calls, Bypass(c) \/ Direct(c) PROVE Logic'
    <2>1. CASE Bypass(c)
        BY <2>1 DEF Bypass, Logic, ComputationsAreRegistered, AnswersGrow, WaitersJoined,
                    WholeAnswers, WaitersAreTold, Computing
    <2>2. CASE Direct(c)
        <3>1. source[c] = NoCall
            BY <2>2 DEF Direct, Logic, AnswersGrow
        <3>2. PICK label \in Ended : pc' = [pc EXCEPT ![c] = label]
            BY <2>2 DEF Direct
        <3>3. pc[c] = "direct" /\ UNCHANGED <<request, store, publication, produced, source>>
            BY <2>2 DEF Direct
        <3> QED BY <3>1, <3>2, <3>3, OnlyEnds DEF Computing
    <2> QED BY <1>2, <2>1, <2>2
<1>3. ASSUME NEW c \in Calls, Hit(c) PROVE Logic'
    BY <1>3 DEF Hit, Looks, Logic, ComputationsAreRegistered, AnswersGrow, WaitersJoined,
                WholeAnswers, WaitersAreTold, Computing
<1>4. ASSUME NEW c \in Calls, Join(c) PROVE Logic'
    BY <1>4 DEF Join, Looks, Logic, ComputationsAreRegistered, AnswersGrow, WaitersJoined,
                WholeAnswers, WaitersAreTold, Computing
<1>5. ASSUME NEW c \in Calls, Own(c) PROVE Logic'
    BY <1>5 DEF Own, Looks, Logic, ComputationsAreRegistered, AnswersGrow, WaitersJoined,
                WholeAnswers, WaitersAreTold, Computing
<1>6. ASSUME NEW c \in Calls, Chunk(c) \/ Computed(c) \/ ComputeFails(c) \/ Abandon(c)
      PROVE  Logic'
    BY <1>6 DEF Chunk, Computed, ComputeFails, Abandon, Logic, ComputationsAreRegistered,
                AnswersGrow, WaitersJoined, WholeAnswers, WaitersAreTold, Computing
<1>7. ASSUME NEW c \in Calls, Erase(c) PROVE Logic'
    BY <1>7 DEF Erase, Erased, Logic, ComputationsAreRegistered,
                AnswersGrow, WaitersJoined, WholeAnswers, WaitersAreTold, Computing
<1>8. ASSUME NEW c \in Calls, Store(c) PROVE Logic'
    BY <1>8 DEF Store, Erased, Logic, ComputationsAreRegistered,
                AnswersGrow, WaitersJoined, WholeAnswers, WaitersAreTold, Computing
<1>9. ASSUME NEW c \in Calls, Publish(c) PROVE Logic'
    <2>1. source[c] = NoCall /\ (pc[c] = "publish" => produced[c] = "whole")
        BY <1>9 DEF Publish, Logic, AnswersGrow
    <2>2. ComputationsAreRegistered'
        BY <1>9 DEF Publish, Logic, ComputationsAreRegistered, Computing
    <2>3. AnswersGrow'
        BY <1>9, <2>1 DEF Publish, Logic, AnswersGrow, Computing
    <2>4. WaitersJoined' /\ WholeAnswers'
        BY <1>9, <2>1 DEF Publish, Logic, WaitersJoined, WholeAnswers
    <2>5. WaitersAreTold'
        BY <1>9 DEF Publish, Logic, WaitersJoined, WaitersAreTold, Computing
    <2> QED BY <2>2, <2>3, <2>4, <2>5 DEF Logic
<1>10. ASSUME NEW c \in Calls, Wake(c) PROVE Logic'
    BY <1>10 DEF Wake, Logic, ComputationsAreRegistered,
                 AnswersGrow, WaitersJoined, WholeAnswers, WaitersAreTold, Computing
<1>11. ASSUME NEW c \in Calls, EndReplayEntry(c) \/ EndReplayCall(c) \/ AbandonReplay(c)
       PROVE  Logic'
    <2>1. pc[c] \in {"replayEntry", "replayCall"}
          /\ UNCHANGED <<request, store, publication, produced, source>>
        <3>1. CASE EndReplayEntry(c)
            BY <3>1 DEF EndReplayEntry
        <3>2. CASE EndReplayCall(c)
            BY <3>2 DEF EndReplayCall
        <3>3. CASE AbandonReplay(c)
            BY <3>3 DEF AbandonReplay
        <3> QED BY <1>11, <3>1, <3>2, <3>3
    <2>2. source[c] = NoCall \/ (produced[source[c]] = "whole" /\ key[source[c]] = key[c])
        BY <2>1 DEF Logic, WholeAnswers
    <2>3. PICK label \in Ended : pc' = [pc EXCEPT ![c] = label]
        <3>1. CASE EndReplayEntry(c)
            BY <3>1 DEF EndReplayEntry, Ended
        <3>2. CASE EndReplayCall(c)
            BY <3>2 DEF EndReplayCall, Ended
        <3>3. CASE AbandonReplay(c)
            BY <3>3 DEF AbandonReplay, Ended
        <3> QED BY <1>11, <3>1, <3>2, <3>3
    <2> QED BY <2>1, <2>2, <2>3, OnlyEnds DEF Computing
<1>12. ASSUME NEW k \in Keys, Expire(k) PROVE Logic'
    BY <1>12 DEF Expire, Logic, ComputationsAreRegistered,
                 AnswersGrow, WaitersJoined, WholeAnswers, WaitersAreTold
<1>13. CASE UNCHANGED vars
    BY <1>13 DEF vars, Logic, ComputationsAreRegistered,
                 AnswersGrow, WaitersJoined, WholeAnswers, WaitersAreTold
<1> QED BY <1>1, <1>2, <1>3, <1>4, <1>5, <1>6, <1>7, <1>8, <1>9, <1>10, <1>11, <1>12, <1>13
        DEF Next, Step

-----------------------------------------------------------------------------
\* The store and the expiry are the only steps that change the entries.
LEMMA BoundKept ==
    ASSUME TypeOK, WithinBound, [Next]_vars
    PROVE  WithinBound'
<1> USE CacheAssumption
<1>1. ASSUME NEW c \in Calls, Store(c) PROVE WithinBound'
    <2>1. PICK kept \in Pruned(c) :
             entries' = [k \in Keys |-> IF k = key[c] THEN c
                                        ELSE IF k \in kept THEN entries[k] ELSE NoCall]
        BY <1>1 DEF Store
    <2>2. Cached' = kept
        BY <2>1 DEF Cached, Pruned, TypeOK
    <2> QED BY <2>2 DEF WithinBound, Pruned
<1>2. ASSUME NEW k \in Keys, Expire(k) PROVE WithinBound'
    <2>1. Cached' \subseteq Cached
        BY <1>2 DEF Expire, Cached, TypeOK
    <2>2. IsFiniteSet(Cached)
        BY FS_Subset DEF Cached
    <2>3. Cardinality(Cached') <= Cardinality(Cached)
          /\ Cardinality(Cached) \in Nat /\ Cardinality(Cached') \in Nat
        BY <2>1, <2>2, FS_Subset, FS_CardinalityType
    <2> QED BY <2>3 DEF WithinBound
<1>3. ASSUME UNCHANGED entries PROVE WithinBound'
    BY <1>3 DEF WithinBound, Cached
<1>4. ASSUME NEW c \in Calls, Step(c), ~Store(c) PROVE UNCHANGED entries
    BY <1>4 DEF Step, Bypass, Direct, Hit, Join, Own, Looks, Chunk, Computed, ComputeFails,
                Erase, Publish, Wake, EndReplayEntry, EndReplayCall, store
<1>5. ASSUME NEW c \in Calls, Dispatch(c) \/ Abandon(c) \/ AbandonReplay(c)
      PROVE  UNCHANGED entries
    BY <1>5 DEF Dispatch, Abandon, AbandonReplay, store
<1>6. CASE UNCHANGED vars
    BY <1>3, <1>6 DEF vars
<1> QED BY <1>1, <1>2, <1>3, <1>4, <1>5, <1>6 DEF Next

\* Nothing is cached at first.
LEMMA CacheStarts == Init => CacheInductive
<1> SUFFICES ASSUME Init PROVE CacheInductive
    OBVIOUS
<1> USE CacheAssumption DEF Init
<1>1. TypeOK
    BY DEF TypeOK, Pcs
<1>2. Logic
    BY DEF Logic, ComputationsAreRegistered, AnswersGrow, WaitersJoined, WholeAnswers,
           WaitersAreTold, Computing
<1>3. Cached = {}
    BY DEF Cached
<1>4. WithinBound
    BY <1>3, FS_EmptySet DEF WithinBound
<1> QED BY <1>1, <1>2, <1>4 DEF CacheInductive, Logic

-----------------------------------------------------------------------------
\* The inductive invariant of the cache: every computation is registered under its
\* own key until it is stored or erased.  ChatCompletionCache.
THEOREM CacheInvariant == Spec => []CacheInductive
<1>1. CacheInductive /\ [Next]_vars => CacheInductive'
    BY TypesKept, LogicKept, BoundKept DEF CacheInductive, Logic
<1> QED BY <1>1, CacheStarts, PTL DEF Spec

\* However many requests there are, no two compute the same answer at once.
\* _inflight.
THEOREM RequestsAreMerged == Spec => []OneComputation
<1>1. CacheInductive => OneComputation
    BY DEF CacheInductive, ComputationsAreRegistered, OneComputation
<1> QED BY <1>1, CacheInvariant, PTL

\* No part of an answer is cached or passed to a waiting request.
\* get_or_compute_stream.
THEOREM AnswersAreWhole == Spec => []WholeAnswers
<1>1. CacheInductive => WholeAnswers
    BY DEF CacheInductive
<1> QED BY <1>1, CacheInvariant, PTL

\* No owner leaves without telling the requests that wait for it.
THEOREM OwnersTell == Spec => []WaitersAreTold
<1>1. CacheInductive => WaitersAreTold
    BY DEF CacheInductive
<1> QED BY <1>1, CacheInvariant, PTL

\* Nobody joins a computation that is over.  _inflight.
THEOREM RegisteredRun == Spec => []RegisteredIsRunning
<1>1. CacheInductive => RegisteredIsRunning
    BY DEF CacheInductive, ComputationsAreRegistered, RegisteredIsRunning
<1> QED BY <1>1, CacheInvariant, PTL

\* The cache stays within max_entries.  _prune_locked.
THEOREM CacheIsBounded == Spec => []WithinBound
<1>1. CacheInductive => WithinBound
    BY DEF CacheInductive
<1> QED BY <1>1, CacheInvariant, PTL
=============================================================================
