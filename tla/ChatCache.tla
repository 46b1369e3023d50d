------------------------------ MODULE ChatCache ------------------------------
(***************************************************************************)
(* The cache of chat completions:                                          *)
(* services/protocol/chat_completion_cache.py, and the thread pool of the  *)
(* server that runs it (services/log_service.py, LoggedCall.run).          *)
(*                                                                         *)
(* A request looks its key up under ChatCompletionCache._lock.  It finds   *)
(* the answer, or waits for the request that is computing it, or computes  *)
(* it.  A response is handled by one thread of the pool from beginning to  *)
(* end.  A stream is a generator: each of its chunks is asked for by       *)
(* whichever thread of the pool is free, and a replayed stream keeps the   *)
(* lock it took between two chunks.  The locks are reentrant and belong to *)
(* the thread that took them.                                              *)
(*                                                                         *)
(* Left out: the text of the answers, the settings other than stream_cache *)
(* (the cache is on and merges requests, as by default), clear(), which    *)
(* only tests call, and which entry is evicted (any other may be).         *)
(***************************************************************************)
EXTENDS Naturals, FiniteSets

CONSTANTS Calls,         \* the requests
          NoCall,
          Keys,          \* the cache keys; a key tells streams from responses
          StreamKeys,
          Threads,       \* the threads of the pool
          Loop,          \* the thread of the event loop
          NoThread,
          MaxEntries     \* max_entries

ASSUME CacheAssumption ==
    /\ NoCall \notin Calls
    /\ IsFiniteSet(Keys) /\ StreamKeys \subseteq Keys
    /\ Loop \notin Threads /\ NoThread \notin Threads \cup {Loop}
    /\ MaxEntries \in Nat \ {0}

VARIABLES
    key,          \* the key of each request
    streamCache,  \* the setting stream_cache
    entries,      \* _entries: the request that computed what is cached
    inflight,     \* _inflight: the request that computes
    finished,     \* InflightCall.done
    failed,       \* InflightCall.error is set
    produced,     \* how much of its answer a request has computed
    pc,           \* where a request is
    source,       \* the request whose answer it waits for, replays or returned
    thread,       \* the thread that runs it now
    mutex,        \* the thread that owns _lock
    condition,    \* the thread that owns the condition of an InflightCall
    leaked        \* history: _lock (NoCall) or conditions that stay taken

vars == <<key, streamCache, entries, inflight, finished, failed, produced, pc,
          source, thread, mutex, condition, leaked>>
request == <<key, streamCache>>
store == <<entries, inflight>>
publication == <<finished, failed>>
locks == <<mutex, condition, leaked>>

Pcs == {"lookup", "compute", "store", "erase", "publish", "publishError",
        "waiting", "replayEntry", "replayCall", "direct", "done", "raised", "left"}
Ended == {"done", "raised", "left"}

TypeOK ==
    /\ key \in [Calls -> Keys]
    /\ streamCache \in BOOLEAN
    /\ entries \in [Keys -> Calls \cup {NoCall}]
    /\ inflight \in [Keys -> Calls \cup {NoCall}]
    /\ finished \in [Calls -> BOOLEAN]
    /\ failed \in [Calls -> BOOLEAN]
    /\ produced \in [Calls -> {"nothing", "part", "whole"}]
    /\ pc \in [Calls -> Pcs]
    /\ source \in [Calls -> Calls \cup {NoCall}]
    /\ thread \in [Calls -> Threads \cup {Loop, NoThread}]
    /\ mutex \in Threads \cup {Loop, NoThread}
    /\ condition \in [Calls -> Threads \cup {Loop, NoThread}]
    /\ leaked \subseteq Calls \cup {NoCall}

Init ==
    /\ key \in [Calls -> Keys]
    /\ streamCache \in BOOLEAN
    /\ entries = [k \in Keys |-> NoCall]
    /\ inflight = [k \in Keys |-> NoCall]
    /\ finished = [c \in Calls |-> FALSE]
    /\ failed = [c \in Calls |-> FALSE]
    /\ produced = [c \in Calls |-> "nothing"]
    /\ pc = [c \in Calls |-> "lookup"]
    /\ source = [c \in Calls |-> NoCall]
    /\ thread = [c \in Calls |-> NoThread]
    /\ mutex = NoThread
    /\ condition = [c \in Calls |-> NoThread]
    /\ leaked = {}

IsStream(c) == key[c] \in StreamKeys

\* `c' is run by a thread.  A request that ended is not.
Runs(c) == thread[c] # NoThread
Goto(c, label) == pc' = [pc EXCEPT ![c] = label]
Yields(c) == thread' = [thread EXCEPT ![c] = NoThread]
End(c, label) == Goto(c, label) /\ Yields(c)
-----------------------------------------------------------------------------
(***************************************************************************)
(* The thread pool and the two locks                                       *)
(***************************************************************************)

\* run_in_threadpool(handler) and run_in_threadpool(next): the event loop hands
\* the request to a free thread of the pool.
Dispatch(c) ==
    /\ pc[c] \notin Ended /\ ~Runs(c)
    /\ \A d \in Calls : thread[d] # Loop
    /\ \E t \in Threads : /\ \A d \in Calls : thread[d] # t
                          /\ thread' = [thread EXCEPT ![c] = t]
    /\ UNCHANGED <<request, store, publication, produced, pc, source, locks>>

\* The thread of `c' can take the lock.
Enters(c, lock) == lock \in {NoThread, thread[c]}

\* Who else is between the lines of `with self._lock'.
Others(c) == {d \in Calls \ {c} : pc[d] = "replayEntry"}
\* The same for the condition of source[c].
OtherReplays(c) == {d \in Calls \ {c} : pc[d] = "replayCall" /\ source[d] = source[c]}

\* The end of a replay on the thread of `c'.  A thread that does not own the lock
\* cannot release it: RuntimeError, and the lock stays taken.
LeaveEntry(c) ==
    /\ IF mutex = thread[c]
       THEN /\ mutex' = IF Others(c) # {} \/ NoCall \in leaked THEN mutex ELSE NoThread
            /\ UNCHANGED leaked
       ELSE leaked' = leaked \cup {NoCall} /\ UNCHANGED mutex
    /\ UNCHANGED condition

LeaveCall(c) ==
    LET o == source[c]
    IN  /\ IF condition[o] = thread[c]
           THEN /\ condition' = [condition EXCEPT ![o] =
                                    IF OtherReplays(c) # {} \/ o \in leaked THEN @ ELSE NoThread]
                /\ UNCHANGED leaked
           ELSE leaked' = leaked \cup {o} /\ UNCHANGED condition
        /\ UNCHANGED mutex
-----------------------------------------------------------------------------
(***************************************************************************)
(* The lookup                                                              *)
(***************************************************************************)

\* With stream_cache off, a stream goes past the cache.
Bypass(c) ==
    /\ pc[c] = "lookup" /\ Runs(c)
    /\ IsStream(c) /\ ~streamCache
    /\ Goto(c, "direct")
    /\ UNCHANGED <<request, store, publication, produced, source, thread, locks>>

Direct(c) ==
    /\ pc[c] = "direct" /\ Runs(c)
    /\ \E label \in Ended : End(c, label)
    /\ UNCHANGED <<request, store, publication, produced, source, locks>>

\* The first section of get_or_compute_response and get_or_compute_stream.
Looks(c) ==
    /\ pc[c] = "lookup" /\ Runs(c)
    /\ IsStream(c) => streamCache
    /\ Enters(c, mutex)
    /\ UNCHANGED <<request, entries, publication, produced, condition, leaked>>

\* The answer is there.  A replayed stream yields its first chunk with the lock.
Hit(c) ==
    /\ Looks(c)
    /\ entries[key[c]] # NoCall
    /\ source' = [source EXCEPT ![c] = entries[key[c]]]
    /\ IF IsStream(c)
       THEN End(c, "replayEntry") /\ mutex' = thread[c]
       ELSE End(c, "done") /\ UNCHANGED mutex
    /\ UNCHANGED inflight

\* Another request computes it.
Join(c) ==
    /\ Looks(c)
    /\ entries[key[c]] = NoCall /\ inflight[key[c]] # NoCall
    /\ source' = [source EXCEPT ![c] = inflight[key[c]]]
    /\ Goto(c, "waiting")
    /\ UNCHANGED <<inflight, thread, mutex>>

\* Mutant: the request is not registered.
OwnUnregistered(c) ==
    /\ Looks(c)
    /\ entries[key[c]] = NoCall /\ inflight[key[c]] = NoCall
    /\ Goto(c, "compute")
    /\ UNCHANGED <<inflight, source, thread, mutex>>

\* Nobody does: this request owns the computation.
Own(c) ==
    /\ Looks(c)
    /\ entries[key[c]] = NoCall /\ inflight[key[c]] = NoCall
    /\ inflight' = [inflight EXCEPT ![key[c]] = c]
    /\ Goto(c, "compute")
    /\ UNCHANGED <<source, thread, mutex>>
-----------------------------------------------------------------------------
(***************************************************************************)
(* The owner computes                                                      *)
(***************************************************************************)

\* A stream yields each chunk as it comes.
Chunk(c) ==
    /\ pc[c] = "compute" /\ Runs(c) /\ IsStream(c)
    /\ produced' = [produced EXCEPT ![c] = "part"]
    /\ Yields(c)
    /\ UNCHANGED <<request, store, publication, pc, source, locks>>

Computed(c) ==
    /\ pc[c] = "compute" /\ Runs(c)
    /\ produced' = [produced EXCEPT ![c] = "whole"]
    /\ Goto(c, "store")
    /\ UNCHANGED <<request, store, publication, source, thread, locks>>

ComputeFails(c) ==
    /\ pc[c] = "compute" /\ Runs(c)
    /\ Goto(c, "erase")
    /\ UNCHANGED <<request, store, publication, produced, source, thread, locks>>

\* Mutant: `except Exception' lets GeneratorExit through.
AbandonsSilently(c) ==
    /\ pc[c] = "compute" /\ ~Runs(c) /\ produced[c] = "part"
    /\ Goto(c, "left")
    /\ UNCHANGED <<request, store, publication, produced, source, thread, locks>>

\* Mutant: the chunks that were sent are kept as the answer.
AbandonKeepsPart(c) ==
    /\ pc[c] = "compute" /\ ~Runs(c) /\ produced[c] = "part"
    /\ Goto(c, "store")
    /\ thread' = [thread EXCEPT ![c] = Loop]
    /\ UNCHANGED <<request, store, publication, produced, source, locks>>

\* The client of a stream went away: the event loop drops the generator, which is
\* closed there and then.  GeneratorExit is an error like any other.
Abandon(c) ==
    /\ pc[c] = "compute" /\ ~Runs(c) /\ produced[c] = "part"
    /\ Goto(c, "erase")
    /\ thread' = [thread EXCEPT ![c] = Loop]
    /\ UNCHANGED <<request, store, publication, produced, source, locks>>

\* Mutant: the computation stays registered.
ErasedNever(c) == inflight
Erased(c) == [inflight EXCEPT ![key[c]] = NoCall]

Erase(c) ==
    /\ pc[c] = "erase" /\ Enters(c, mutex)
    /\ inflight' = Erased(c)
    /\ Goto(c, "publishError")
    /\ UNCHANGED <<request, entries, publication, produced, source, thread, locks>>

Cached == {k \in Keys : entries[k] # NoCall}

\* Mutant: pruned before the entry is written, which then makes one too many.
PrunedBefore(c) ==
    {kept \in SUBSET (Cached \cup {key[c]}) :
        /\ key[c] \in kept
        /\ Cardinality(kept \ {key[c]}) <= MaxEntries
        /\ Cached \subseteq kept}

\* _prune_locked after the entry is written: what is kept.
Pruned(c) ==
    {kept \in SUBSET (Cached \cup {key[c]}) :
        /\ key[c] \in kept
        /\ Cardinality(kept) <= MaxEntries
        /\ Cached \subseteq kept \/ Cardinality(kept) = MaxEntries}

Store(c) ==
    /\ pc[c] = "store" /\ Enters(c, mutex)
    /\ \E kept \in Pruned(c) :
          entries' = [k \in Keys |-> IF k = key[c] THEN c
                                     ELSE IF k \in kept THEN entries[k] ELSE NoCall]
    /\ inflight' = Erased(c)
    /\ Goto(c, "publish")
    /\ UNCHANGED <<request, publication, produced, source, thread, locks>>

\* Mutant: an error is not told to the waiting requests.
PublishAnswers(c) ==
    /\ pc[c] \in {"publish", "publishError"} /\ Enters(c, condition[c])
    /\ finished' = [finished EXCEPT ![c] = pc[c] = "publish"]
    /\ End(c, IF pc[c] = "publish" THEN "done"
              ELSE IF thread[c] = Loop THEN "left" ELSE "raised")
    /\ UNCHANGED <<request, store, failed, produced, source, locks>>

\* The waiting requests are told.
Publish(c) ==
    /\ pc[c] \in {"publish", "publishError"} /\ Enters(c, condition[c])
    /\ finished' = [finished EXCEPT ![c] = TRUE]
    /\ failed' = [failed EXCEPT ![c] = pc[c] = "publishError"]
    /\ End(c, IF pc[c] = "publish" THEN "done"
              ELSE IF thread[c] = Loop THEN "left" ELSE "raised")
    /\ UNCHANGED <<request, store, produced, source, locks>>

\* The time to live of an entry is over.
Expire(k) ==
    /\ entries[k] # NoCall
    /\ entries' = [entries EXCEPT ![k] = NoCall]
    /\ UNCHANGED <<request, inflight, publication, produced, pc, source, thread, locks>>
-----------------------------------------------------------------------------
(***************************************************************************)
(* The waiting requests, and the replays                                   *)
(***************************************************************************)

\* The request is woken, and has the condition again.  It raises the error of the
\* owner, or returns its answer, or yields the first chunk with the condition.
Wake(c) ==
    /\ pc[c] = "waiting" /\ finished[source[c]]
    /\ Enters(c, condition[source[c]])
    /\ IF failed[source[c]] THEN End(c, "raised") /\ UNCHANGED condition
       ELSE IF ~IsStream(c) THEN End(c, "done") /\ UNCHANGED condition
       ELSE /\ End(c, "replayCall")
            /\ condition' = [condition EXCEPT ![source[c]] = thread[c]]
    /\ UNCHANGED <<request, store, publication, produced, source, mutex, leaked>>

\* The last chunk was sent.
EndReplayEntry(c) ==
    /\ pc[c] = "replayEntry" /\ Runs(c)
    /\ LeaveEntry(c)
    /\ End(c, IF mutex = thread[c] THEN "done" ELSE "raised")
    /\ UNCHANGED <<request, store, publication, produced, source>>

EndReplayCall(c) ==
    /\ pc[c] = "replayCall" /\ Runs(c)
    /\ LeaveCall(c)
    /\ End(c, IF condition[source[c]] = thread[c] THEN "done" ELSE "raised")
    /\ UNCHANGED <<request, store, publication, produced, source>>

\* The client went away during a replay: the generator is closed by the event
\* loop, which does not own the lock.
AbandonReplay(c) ==
    /\ pc[c] \in {"replayEntry", "replayCall"} /\ ~Runs(c)
    /\ leaked' = leaked \cup {IF pc[c] = "replayEntry" THEN NoCall ELSE source[c]}
    /\ Goto(c, "left")
    /\ UNCHANGED <<request, store, publication, produced, source, thread, mutex, condition>>
-----------------------------------------------------------------------------
Step(c) ==
    \/ Bypass(c) \/ Direct(c) \/ Hit(c) \/ Join(c) \/ Own(c)
    \/ Chunk(c) \/ Computed(c) \/ ComputeFails(c) \/ Erase(c) \/ Store(c)
    \/ Publish(c) \/ Wake(c) \/ EndReplayEntry(c) \/ EndReplayCall(c)

Next ==
    \/ \E c \in Calls : Dispatch(c) \/ Step(c) \/ Abandon(c) \/ AbandonReplay(c)
    \/ \E k \in Keys : Expire(k)

\* Threads run, the upstream answers or times out, and the loop hands out a free
\* thread.  No client has to leave, and no entry has to expire.
Fairness == \A c \in Calls : WF_vars(Dispatch(c)) /\ WF_vars(Step(c))

Spec == Init /\ [][Next]_vars
FairSpec == Spec /\ Fairness
-----------------------------------------------------------------------------
(***************************************************************************)
(* Properties                                                              *)
(***************************************************************************)

Computing == {"compute", "store", "erase"}

\* Requests for the same answer are merged: no two of them compute it at once,
\* whichever fail, are abandoned or evicted in between.  _inflight.
OneComputation ==
    \A c, d \in Calls :
        c # d /\ pc[c] \in Computing /\ pc[d] \in Computing => key[c] # key[d]

\* What is cached, replayed or returned in place of a computation is a whole answer
\* to the same request, though streams fail or are abandoned halfway.
WholeAnswers ==
    /\ \A k \in Keys : entries[k] # NoCall =>
          produced[entries[k]] = "whole" /\ key[entries[k]] = k
    /\ \A c \in Calls : pc[c] \in {"replayEntry", "replayCall", "done"} /\ source[c] # NoCall =>
          produced[source[c]] = "whole" /\ key[source[c]] = key[c]

\* A request that waits for another is going to be told, or is told already: the
\* owner never leaves without a word.  get_or_compute_stream.
WaitersAreTold ==
    \A c \in Calls : pc[c] = "waiting" =>
        \/ pc[source[c]] \in Computing \cup {"publish", "publishError"}
        \/ finished[source[c]]

\* What is registered is being computed now: nobody is given an answer older than
\* its time to live by joining a computation that is over.
RegisteredIsRunning ==
    \A k \in Keys : inflight[k] # NoCall => pc[inflight[k]] \in Computing

\* There are never more entries than max_entries.  _prune_locked.
WithinBound == Cardinality(Cached) <= MaxEntries

\* With stream_cache off every request ends: no waiter is forgotten, and no lock is
\* kept.
ResponsesEnd == ~streamCache => \A c \in Calls : <>(pc[c] \in Ended)

\* A request for which there is a whole answer gets it: a replay ends as the stream
\* it repeats did.  get_or_compute_stream.
ReplaysSucceed ==
    \A c \in Calls : pc[c] = "raised" /\ source[c] # NoCall => failed[source[c]]
-----------------------------------------------------------------------------
(***************************************************************************)
(* The inductive invariant behind the invariants above (ChatCacheProofs):  *)
(* a computation is registered from beginning to end under its own key,    *)
(* and an answer that is whole stays so.                                   *)
(***************************************************************************)

ComputationsAreRegistered ==
    /\ \A c \in Calls : pc[c] \in Computing => inflight[key[c]] = c
    /\ \A k \in Keys : inflight[k] # NoCall =>
          pc[inflight[k]] \in Computing /\ key[inflight[k]] = k

AnswersGrow ==
    \A c \in Calls : /\ pc[c] \in {"lookup", "compute"} => produced[c] # "whole"
                     /\ pc[c] \in {"store", "publish"} => produced[c] = "whole"
                     /\ finished[c] /\ ~failed[c] => produced[c] = "whole"
                     /\ pc[c] \in {"lookup", "direct", "publish", "publishError"}
                           \cup Computing => source[c] = NoCall

WaitersJoined ==
    \A c \in Calls : pc[c] = "waiting" => source[c] # NoCall /\ key[source[c]] = key[c]

CacheInductive ==
    /\ TypeOK
    /\ ComputationsAreRegistered /\ AnswersGrow /\ WaitersJoined
    /\ WholeAnswers /\ WaitersAreTold /\ WithinBound
=============================================================================
