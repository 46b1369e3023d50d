----------------------------- MODULE ImagePage ------------------------------
(***************************************************************************)
(* The image page of the web client (web/src/app/image/page.tsx) and the   *)
(* conversations it keeps in the browser (web/src/store/                   *)
(* image-conversations.ts).                                                *)
(*                                                                         *)
(* A turn is submitted as one task per image.  A queue loop per turn sends *)
(* the tasks, polls them every two seconds and writes what it learns to    *)
(* the page's memory and, through one queue of writes, to the browser's    *)
(* store.  Loops are promises: leaving the page forgets their keys but     *)
(* does not stop them, so a loop may outlive the page that started it and  *)
(* work on that page's memory.  Every request of a loop, a load or a       *)
(* handler is a step of its own, between which anything else may happen.   *)
(*                                                                         *)
(* Abstracted: what a task is asked for (prompt, size, references) and     *)
(* shows (data, progress, times).  "queued" and "generating" turns are     *)
(* one status, "active".  An image is an atom: "loading", "success", or an *)
(* error told apart by what the code tells apart (stopped by the user,     *)
(* timed out, deleted, any other).  The browser's store does not fail, and *)
(* answers before the next request, timer or click is served: a change is  *)
(* stored in the step that makes it, one after the other as the write      *)
(* queue of the code has them.                                             *)
(***************************************************************************)
EXTENDS Naturals, FiniteSets

CONSTANTS
    Convs,      \* conversation ids
    Turns,      \* turn ids
    Tasks,      \* image ids, which are task ids
    Loops,      \* bound: loops that run at a time
    NoConv, NoTurn, NoLoop, NoLoad,
    MaxImages,  \* bound: images of a turn
    MaxErrors,  \* polls that fail in a row before a loop gives up (10)
    MaxMounts,  \* bound: times the page is shown
    MaxOps,     \* bound: operations of the user, requests that fail, tasks lost
    MaxTime     \* bound: of the clock, which then stands still

ASSUME BoundsAssumption ==
    /\ MaxImages \in Nat \ {0} /\ MaxErrors \in Nat \ {0}
    /\ MaxMounts \in Nat \ {0} /\ MaxOps \in Nat /\ MaxTime \in Nat

VARIABLES
    phase,      \* the service's tasks, as TaskLifecycle has them
    store,      \* the conversations in the browser's store
    mount,      \* the page shown last: a page is mounted anew each time
    open,       \* whether it is still shown
    mem,        \* per mount, conversationsRef
    keys,       \* activeConversationQueueIds
    loops,      \* the running runConversationQueue calls
    calls,      \* runConversationQueue calls to be made next, <<mount, turn>>
    asks,       \* stop and continue handlers that wait for their request
    load,       \* per mount, the items of the loadHistory call under way
    used,       \* ids given out
    clock, ops

imageVars == <<phase, store, mount, open, mem, keys, loops, calls, asks,
               load, used, clock, ops>>

Lifecycle == INSTANCE TaskLifecycle WITH Keys <- Tasks

Mounts == 1..MaxMounts

(***************************************************************************)
(* Images, turns and conversations.                                        *)
(***************************************************************************)
Errors == {"stopped", "timeout", "failed", "deleted"}
Images == {"none", "loading", "success"} \cup Errors
Turn == [images : [Tasks -> Images], status : {"active", "success", "error"},
         promptDeleted : BOOLEAN, resultsDeleted : BOOLEAN]
Conv == [turns : [Turns -> Turn \cup {NoTurn}], at : Nat]
Memory == [Convs -> Conv \cup {NoConv}]
LoopSteps == {"submit", "accepted", "ask", "polled", "done"}
LoopRecs ==
    [m : Mounts, c : Convs, t : Turns, step : LoopSteps, again : BOOLEAN, errors : Nat,
     ids : SUBSET Tasks, got : [Tasks -> Lifecycle!Phases], snapshot : Conv]

\* What stands for nothing is none of the things it is missing for.
ASSUME NothingAssumption ==
    /\ NoTurn \notin Turn /\ NoConv \notin Conv
    /\ NoLoop \notin LoopRecs /\ NoLoad \notin Memory

Nothing == [c \in Convs |-> NoConv]

Has(M, c, t) == M[c] # NoConv /\ M[c].turns[t] # NoTurn
Loading(turn) == {k \in Tasks : turn.images[k] = "loading"}
InTurn(turn) == {k \in Tasks : turn.images[k] # "none"}

\* deriveTurnStatus
Derived(turn) ==
    [turn EXCEPT !.status =
        IF Loading(turn) # {} THEN "active"
        ELSE IF \E k \in Tasks : turn.images[k] \in Errors THEN "error" ELSE "success"]

\* A clock that has reached its bound gives the same millisecond again.
Now == IF clock < MaxTime THEN clock + 1 ELSE clock

\* shouldRefreshConversationUpdatedAt
Refreshes(turns, next) ==
    \E t \in Turns : /\ turns[t] # NoTurn /\ next[t] # NoTurn
                     /\ turns[t].status = "active" /\ next[t].status # "active"

\* The conversation with its turns changed, stamped when one of them ended.
Restamped(conv, next) ==
    [turns |-> next, at |-> IF Refreshes(conv.turns, next) THEN Now ELSE conv.at]

\* Mutant: the status of the task is taken for the image's own.
AsImageRaw(answer, image) == IF answer = "none" THEN image ELSE answer

\* taskDataToStoredImage: what an answer about a task makes of its image.
\* A successful task has images (ImageTasks!ImagesIffSuccess).
AsImage(answer, image) ==
    CASE answer = "none" -> image
      [] answer = "running" -> "loading"
      [] answer \in {"success", "timeout", "stopped"} -> answer
      [] answer \in {"failed", "restarted"} -> "failed"

\* Mutant: an answer also counts for an image its user stopped.
PolledStopped(turn, got) ==
    Derived([turn EXCEPT !.images = [k \in Tasks |->
        IF turn.images[k] = "none" THEN "none" ELSE AsImage(got[k], turn.images[k])]])

\* The images of a turn by the answers of applyTasks.
Polled(turn, got) ==
    Derived([turn EXCEPT !.images = [k \in Tasks |->
        IF turn.images[k] \in {"none", "stopped"} THEN turn.images[k]
        ELSE AsImage(got[k], turn.images[k])]])

\* The turns that a page with memory M would start a loop for.
Waiting(M, t) ==
    \E c \in Convs : /\ Has(M, c, t) /\ M[c].turns[t].status = "active"
                     /\ Loading(M[c].turns[t]) # {}
ConvOf(M, t) == CHOOSE c \in Convs : Has(M, c, t)
Woken(M) == {t \in Turns \ keys : /\ Waiting(M, t)
                                  /\ ~M[ConvOf(M, t)].turns[t].resultsDeleted}

(***************************************************************************)
(* Changes of a page's memory and of the store.  The page that is shown    *)
(* renders them, and its effect calls runConversationQueue for the turns   *)
(* that wait before anything else happens; a page that was left does not.  *)
(***************************************************************************)
\* Mutant: of two of the same millisecond the older one wins.
LatestStrict(current, next) ==
    IF current = NoConv \/ (next # NoConv /\ next.at > current.at) THEN next ELSE current

\* pickLatestConversation
Latest(current, next) ==
    IF current = NoConv \/ (next # NoConv /\ next.at >= current.at) THEN next ELSE current

\* saveImageConversation, saveImageConversations
Save(items) == store' = [c \in Convs |-> IF items[c] = NoConv THEN store[c] ELSE Latest(store[c], items[c])]
One(c, conv) == [Nothing EXCEPT ![c] = conv]

Quiet == calls = {}
Shown(m) == open /\ m = mount

SetMemory(m, M) == \E next \in {M} :
    /\ mem' = [mem EXCEPT ![m] = next]
    /\ calls' = IF Shown(m) THEN {m} \X Woken(next) ELSE {}

\* updateConversation and persistConversation
Put(m, c, conv) == \E next \in {conv} :
    /\ SetMemory(m, [mem[m] EXCEPT ![c] = next])
    /\ Save(One(c, next))
    /\ clock' = IF next.at > clock THEN next.at ELSE clock

Counted == ops < MaxOps /\ ops' = ops + 1
ByUser == Quiet /\ open /\ Counted
M0 == mem[mount]
Fresh(S) == S \ used

(***************************************************************************)
(* The user's operations on turns and images.                              *)
(***************************************************************************)
NewTurn(ks) ==
    [images |-> [k \in Tasks |-> IF k \in ks THEN "loading" ELSE "none"], status |-> "active",
     promptDeleted |-> FALSE, resultsDeleted |-> FALSE]

AddTurn(c, conv, t, ks) ==
    /\ Put(mount, c, [turns |-> [conv.turns EXCEPT ![t] = NewTurn(ks)], at |-> Now])
    /\ used' = used \cup {c, t} \cup ks
    /\ UNCHANGED <<phase, mount, open, keys, loops, asks, load>>

\* handleSubmit: a turn of the selected conversation, or of a new one.
Submit ==
    /\ ByUser
    /\ Fresh(Turns) # {}
    /\ LET t == CHOOSE x \in Fresh(Turns) : TRUE IN
       \E ks \in SUBSET Fresh(Tasks) : /\ ks # {} /\ Cardinality(ks) <= MaxImages
        /\ \/ \E c \in Convs : M0[c] # NoConv /\ AddTurn(c, M0[c], t, ks)
           \/ /\ Fresh(Convs) # {}
              /\ LET c == CHOOSE x \in Fresh(Convs) : TRUE
                 IN  AddTurn(c, [turns |-> [x \in Turns |-> NoTurn], at |-> 0], t, ks)

\* The results of a turn, their errors and the buttons below them are shown.
ResultsShown(c, t) == Has(M0, c, t) /\ ~M0[c].turns[t].resultsDeleted

\* handleRegenerateTurn: the same again as a new turn.
Regenerate(c, t) ==
    /\ ByUser
    /\ ResultsShown(c, t) /\ ~M0[c].turns[t].promptDeleted
    /\ Fresh(Turns) # {}
    /\ \E ks \in SUBSET Fresh(Tasks) :
        /\ Cardinality(ks) = IF InTurn(M0[c].turns[t]) = {} THEN 1 ELSE Cardinality(InTurn(M0[c].turns[t]))
        /\ AddTurn(c, M0[c], CHOOSE x \in Fresh(Turns) : TRUE, ks)

\* An image may be retried or stopped while its results are shown.
ImageShown(c, t, k, states) ==
    ResultsShown(c, t) /\ M0[c].turns[t].images[k] \in states

\* handleRetryImage: the failed image becomes one with a new id.
RetryImage(c, t, k) ==
    /\ ByUser
    /\ ImageShown(c, t, k, Errors)
    /\ Fresh(Tasks) # {}
    /\ LET turn == M0[c].turns[t]
           new == CHOOSE x \in Fresh(Tasks) : TRUE
           next == IF turn.promptDeleted THEN turn
                   ELSE Derived([turn EXCEPT !.images[k] = "none", !.images[new] = "loading"])
       IN  /\ Put(mount, c, [turns |-> [M0[c].turns EXCEPT ![t] = next], at |-> Now])
           /\ used' = used \cup {new}
    /\ UNCHANGED <<phase, mount, open, keys, loops, asks, load>>

\* handleDismissErrors
DismissErrors(c, t) ==
    /\ ByUser
    /\ ResultsShown(c, t) /\ M0[c].turns[t].status = "error"
    /\ LET turn == M0[c].turns[t]
           left == [k \in Tasks |-> IF turn.images[k] \in Errors THEN "none" ELSE turn.images[k]]
       IN  Put(mount, c, [turns |-> [M0[c].turns EXCEPT ![t] = Derived([turn EXCEPT !.images = left])],
                          at |-> Now])
    /\ UNCHANGED <<phase, mount, open, keys, loops, asks, load, used>>

\* handleStopImage and handleTimeoutRetryContinue send a request and change
\* the page when it is answered.  A stop that fails is taken for done.
StopTask(k) ==
    phase' = IF phase[k] = "running" THEN [phase EXCEPT ![k] = "stopped"] ELSE phase

AskStop(c, t, k) ==
    /\ ByUser
    /\ ImageShown(c, t, k, {"loading"})
    /\ asks' = asks \cup {[op |-> "stop", m |-> mount, c |-> c, t |-> t, k |-> k]}
    /\ StopTask(k) \/ UNCHANGED phase
    /\ UNCHANGED <<store, mount, open, mem, keys, loops, calls, load, used, clock>>

\* resume_poll refuses a task that did not time out; the handler then only
\* says so.
AskContinue(c, t, k) ==
    /\ ByUser
    /\ ImageShown(c, t, k, {"timeout"})
    /\ IF phase[k] = "timeout"
       THEN /\ phase' = [phase EXCEPT ![k] = "running"]
            /\ asks' = asks \cup {[op |-> "continue", m |-> mount, c |-> c, t |-> t, k |-> k]}
       ELSE UNCHANGED <<phase, asks>>
    /\ UNCHANGED <<store, mount, open, mem, keys, loops, calls, load, used, clock>>

StoppedTurn(turn, k) ==
    Derived([turn EXCEPT !.images[k] = IF @ = "none" THEN "none" ELSE "stopped"])
ContinuedTurn(turn, k) ==
    [turn EXCEPT !.status = "active",
                 !.images[k] = IF @ \in {"none", "deleted"} THEN @ ELSE "loading"]

\* Mutant: updateConversation makes up a conversation that is not there.
CurrentOrNew(m, c) ==
    IF mem[m][c] = NoConv THEN [turns |-> [t \in Turns |-> NoTurn], at |-> Now] ELSE mem[m][c]

Current(m, c) == mem[m][c]

LoopsOf(m) == {l \in Loops : loops[l] # NoLoop /\ loops[l].m = m}

\* The page dies: an updater gave null where it promises a conversation.
\* With other conversations listed the sort throws first and nothing changes.
Answered(a) ==
    /\ Quiet /\ a \in asks
    /\ asks' = asks \ {a}
    /\ LET M == mem[a.m]
           conv == Current(a.m, a.c) IN
       IF conv # NoConv
       THEN LET turn == conv.turns[a.t]
                next == IF turn = NoTurn THEN NoTurn
                        ELSE IF a.op = "stop" THEN StoppedTurn(turn, a.k)
                        ELSE ContinuedTurn(turn, a.k)
                turns == [conv.turns EXCEPT ![a.t] = next]
            IN  /\ Put(a.m, a.c, IF a.op = "stop" THEN Restamped(conv, turns)
                                 ELSE [conv EXCEPT !.turns = turns])
                /\ UNCHANGED <<open, keys, loops>>
       ELSE /\ UNCHANGED <<store, mem, clock, calls>>
            /\ IF M = Nothing
               THEN /\ open' = (open /\ ~Shown(a.m))
                    /\ keys' = IF Shown(a.m) THEN {} ELSE keys \ {loops[l].t : l \in LoopsOf(a.m)}
                    /\ loops' = [l \in Loops |-> IF l \in LoopsOf(a.m) THEN NoLoop ELSE loops[l]]
               ELSE UNCHANGED <<open, keys, loops>>
    /\ UNCHANGED <<phase, mount, load, used, ops>>

(***************************************************************************)
(* Renaming and deleting.                                                  *)
(***************************************************************************)
\* handleRenameConversation; renameImageConversation stamps the stored one.
Rename(c) ==
    /\ ByUser
    /\ M0[c] # NoConv
    /\ SetMemory(mount, [M0 EXCEPT ![c].at = Now])
    /\ clock' = Now
    /\ store' = IF store[c] = NoConv THEN store ELSE [store EXCEPT ![c].at = Now]
    /\ UNCHANGED <<phase, mount, open, keys, loops, asks, load, used>>

\* deleteImageConversation
Remove(c) ==
    /\ SetMemory(mount, [M0 EXCEPT ![c] = NoConv])
    /\ store' = [store EXCEPT ![c] = NoConv]
    /\ UNCHANGED clock

\* handleDeleteConversation
DeleteConversation(c) ==
    /\ ByUser
    /\ M0[c] # NoConv
    /\ Remove(c)
    /\ UNCHANGED <<phase, mount, open, keys, loops, asks, load, used>>

\* handleDeleteTurnPart: a turn without prompt and results goes, and with
\* the last turn its conversation.  A queued turn stays active, a generating
\* one is in error.
DeleteTurnPart(c, t, part) ==
    /\ ByUser
    /\ Has(M0, c, t)
    /\ LET turn == M0[c].turns[t]
           deleted(s) ==
               [turn EXCEPT !.resultsDeleted = TRUE, !.status = s,
                            !.images = [k \in Tasks |-> IF @[k] = "none" THEN "none" ELSE "deleted"]]
           keep(next) ==
               LET turns == [M0[c].turns EXCEPT ![t] =
                                IF next.promptDeleted /\ next.resultsDeleted THEN NoTurn ELSE next]
               IN  IF \A x \in Turns : turns[x] = NoTurn THEN Remove(c)
                   ELSE Put(mount, c, [turns |-> turns, at |-> Now])
       IN  \/ /\ part = "prompt" /\ ~turn.promptDeleted
              /\ keep([turn EXCEPT !.promptDeleted = TRUE])
           \/ /\ part = "results" /\ ~turn.resultsDeleted
              /\ \E s \in IF turn.status = "active" THEN {"active", "error"} ELSE {turn.status} :
                    keep(deleted(s))
    /\ UNCHANGED <<phase, mount, open, keys, loops, asks, load, used>>

\* handleClearHistory, clearImageConversations
ClearHistory ==
    /\ ByUser
    /\ M0 # Nothing
    /\ SetMemory(mount, Nothing)
    /\ store' = Nothing
    /\ UNCHANGED <<phase, mount, open, keys, loops, asks, load, used, clock>>

(***************************************************************************)
(* The queue loop of a turn: runConversationQueue.                         *)
(***************************************************************************)
NoAnswer == [k \in Tasks |-> "none"]

\* Mutants: the key is not entered; it stays behind.
TakeNoKey(t) == keys' = keys
KeepKey(t) == keys' = keys

TakeKey(t) == keys' = keys \cup {t}
ReleaseKey(t) == keys' = keys \ {t}

\* A call returns at once when the turn does not wait or its key is taken.
RunQueue ==
    /\ ~Quiet
    /\ LET x == CHOOSE y \in calls : TRUE
           m == x[1]
           t == x[2]
       IN  /\ calls' = calls \ {x}
           /\ IF Waiting(mem[m], t) /\ t \notin keys
              THEN LET l == CHOOSE y \in Loops : loops[y] = NoLoop
                       c == ConvOf(mem[m], t)
                   IN  /\ \E y \in Loops : loops[y] = NoLoop
                       /\ TakeKey(t)
                       /\ loops' = [loops EXCEPT ![l] =
                            [m |-> m, c |-> c, t |-> t, step |-> "submit", again |-> FALSE,
                             errors |-> 0, ids |-> Loading(mem[m][c].turns[t]), got |-> NoAnswer,
                             snapshot |-> mem[m][c]]]
              ELSE UNCHANGED <<keys, loops>>
    /\ UNCHANGED <<phase, store, mount, open, mem, asks, load, used, clock, ops>>

At(l, step) == Quiet /\ loops[l] # NoLoop /\ loops[l].step = step
LoopRest == <<mount, open, keys, asks, load, used>>
Still == UNCHANGED <<store, mem, calls, clock>>

\* The conversation a loop works on: one that is gone is taken from the
\* snapshot made when the loop began.
Worked(l) == LET x == loops[l] IN IF mem[x.m][x.c] = NoConv THEN x.snapshot ELSE mem[x.m][x.c]

\* The service takes a task it does not know, and answers with what it has.
Accepted(ks) == [k \in Tasks |-> IF k \in ks /\ phase[k] = "none" THEN "running" ELSE phase[k]]

SubmitArrives(l) ==
    /\ At(l, "submit")
    /\ phase' = Accepted(loops[l].ids)
    /\ loops' = [loops EXCEPT ![l].step = "accepted",
                              ![l].got = [k \in Tasks |-> IF k \in loops[l].ids THEN phase'[k] ELSE "none"]]
    /\ Still /\ UNCHANGED <<LoopRest, ops>>

\* The head of the loop: the images of the turn that load are asked for, in
\* the memory M the step before has left.
LoadingOf(M, l) ==
    IF Has(M, loops[l].c, loops[l].t) THEN Loading(M[loops[l].c].turns[loops[l].t]) ELSE {}
Look(l) ==
    loops' = LET ids == LoadingOf(mem'[loops[l].m], l) IN
             [loops EXCEPT ![l].step = IF ids = {} THEN "done" ELSE "ask", ![l].ids = ids]

\* The catch of the loop: the images that still load have failed.
Fail(l) ==
    LET x == loops[l]
        conv == Worked(l)
        failed(turn) ==
            [turn EXCEPT !.status = "error",
                         !.images = [k \in Tasks |-> IF @[k] = "loading" THEN "failed" ELSE @[k]]]
        next == IF conv.turns[x.t] = NoTurn THEN NoTurn ELSE failed(conv.turns[x.t])
    IN  /\ Put(x.m, x.c, [turns |-> [conv.turns EXCEPT ![x.t] = next], at |-> Now])
        /\ loops' = [loops EXCEPT ![l].step = "done"]

PollError(l) ==
    IF loops[l].errors + 1 >= MaxErrors THEN Fail(l)
    ELSE /\ Still
         /\ loops' = LET ids == LoadingOf(mem[loops[l].m], l) IN
                     [loops EXCEPT ![l].step = IF ids = {} THEN "done" ELSE "ask", ![l].ids = ids,
                                   ![l].errors = @ + 1]

\* One of the requests fails; others may have made their task.
SubmitFails(l) ==
    /\ At(l, "submit")
    /\ Counted
    /\ \E ks \in SUBSET loops[l].ids : phase' = Accepted(ks)
    /\ IF loops[l].again THEN PollError(l) ELSE Fail(l)
    /\ UNCHANGED LoopRest

ApplyTasks(l) ==
    LET x == loops[l]
        conv == Worked(l)
        turn == conv.turns[x.t]
        turns == [conv.turns EXCEPT ![x.t] = IF turn = NoTurn THEN NoTurn ELSE Polled(turn, x.got)]
    IN  Put(x.m, x.c, Restamped(conv, turns))

SubmitApplied(l) ==
    /\ At(l, "accepted")
    /\ ApplyTasks(l)
    /\ Look(l)
    /\ UNCHANGED <<LoopRest, phase, ops>>

PollArrives(l) ==
    /\ At(l, "ask")
    /\ loops' = [loops EXCEPT ![l].step = "polled", ![l].errors = 0,
                   ![l].got = [k \in Tasks |-> IF k \in loops[l].ids THEN phase[k] ELSE "none"]]
    /\ Still /\ UNCHANGED <<LoopRest, phase, ops>>

PollFails(l) ==
    /\ At(l, "ask")
    /\ Counted
    /\ PollError(l)
    /\ UNCHANGED <<LoopRest, phase>>

\* The answers are applied at once; tasks the service does not know are sent
\* again, by what was loading before the poll.
PollApplied(l) ==
    /\ At(l, "polled")
    /\ LET missing == {k \in loops[l].ids : loops[l].got[k] = "none"} IN
       /\ IF missing = loops[l].ids THEN Still ELSE ApplyTasks(l)
       /\ IF missing = {} THEN Look(l)
          ELSE loops' = [loops EXCEPT ![l].step = "submit", ![l].again = TRUE, ![l].ids = missing]
    /\ UNCHANGED <<LoopRest, phase, ops>>

\* The finally of the loop: its key goes, and turns of its page that wait
\* without a loop are run.
Finish(l) ==
    /\ At(l, "done")
    /\ LET x == loops[l] IN
       /\ ReleaseKey(x.t)
       /\ calls' = {x.m} \X {t \in Turns \ keys' : Waiting(mem[x.m], t)}
    /\ loops' = [loops EXCEPT ![l] = NoLoop]
    /\ UNCHANGED <<phase, store, mount, open, mem, asks, load, used, clock, ops>>

(***************************************************************************)
(* Showing the page: loadHistory reads the store, recovers the turns that  *)
(* were left in an odd status, and asks for the tasks that may have ended. *)
(***************************************************************************)
MapTurns(M, F(_)) ==
    [c \in Convs |-> IF M[c] = NoConv THEN NoConv
        ELSE Restamped(M[c], [t \in Turns |-> IF M[c].turns[t] = NoTurn THEN NoTurn
                                              ELSE F(M[c].turns[t])])]

\* recoverConversationHistory
Recovered(turn) == IF turn.status = "success" THEN turn ELSE Derived(turn)

\* syncConversationImageTasks
Unsettled == {"loading", "stopped", "timeout", "failed"}
ToSync(M) == {k \in Tasks : \E c \in Convs, t \in Turns :
    Has(M, c, t) /\ ~M[c].turns[t].resultsDeleted /\ M[c].turns[t].images[k] \in Unsettled}
Synced(turn, got) ==
    LET next == [turn EXCEPT !.images = [k \in Tasks |->
                    IF turn.images[k] \in Unsettled THEN AsImage(got[k], turn.images[k])
                    ELSE turn.images[k]]]
    IN  IF next.images = turn.images THEN turn ELSE Derived(next)

Stamps(items) ==
    clock' = IF \E c \in Convs : items[c] # NoConv /\ items[c].at > clock THEN Now ELSE clock

\* Loading with nothing to ask for ends at once.
StartLoad(m) ==
    LET items == MapTurns(store, Recovered) IN
    /\ Save(items)
    /\ Stamps(items)
    /\ load' = [load EXCEPT ![m] = IF ToSync(items) = {} THEN NoLoad ELSE items]
    /\ mem' = IF ToSync(items) = {} THEN [mem EXCEPT ![m] = items] ELSE mem
    /\ calls' = IF ToSync(items) = {} THEN {m} \X Woken(items) ELSE {}

\* The page takes what was loaded, whatever it was given since.
Loaded(m) ==
    /\ Quiet /\ load[m] # NoLoad
    /\ load' = [load EXCEPT ![m] = NoLoad]
    /\ \/ LET got == [k \in Tasks |-> IF k \in ToSync(load[m]) THEN phase[k] ELSE "none"]
              sync(turn) == Synced(turn, got)
              items == MapTurns(load[m], sync)
          IN  /\ Save(items)
              /\ Stamps(items)
              /\ IF Shown(m) THEN SetMemory(m, items) ELSE UNCHANGED <<mem, calls>>
              /\ UNCHANGED ops
       \/ /\ Counted
          /\ IF Shown(m) THEN SetMemory(m, load[m]) ELSE UNCHANGED <<mem, calls>>
          /\ UNCHANGED <<store, clock>>
    /\ UNCHANGED <<phase, mount, open, keys, loops, asks, used>>

\* The page is left for another one: its keys are forgotten, its loops go on.
Leave ==
    /\ ByUser /\ mount < MaxMounts
    /\ open' = FALSE
    /\ keys' = {}
    /\ UNCHANGED <<phase, store, mount, mem, loops, calls, asks, load, used, clock>>

\* The page is shown again.
Return ==
    /\ Quiet /\ ~open /\ mount < MaxMounts
    /\ open' = TRUE /\ mount' = mount + 1
    /\ StartLoad(mount + 1)
    /\ UNCHANGED <<phase, keys, loops, asks, used, ops>>

\* The tab is reloaded: only the store and the service are left.
Reload ==
    /\ ByUser /\ mount < MaxMounts
    /\ mount' = mount + 1
    /\ LET items == MapTurns(store, Recovered) IN
       /\ Save(items)
       /\ Stamps(items)
       /\ load' = [m \in Mounts |-> IF m = mount + 1 /\ ToSync(items) # {} THEN items ELSE NoLoad]
       /\ mem' = [m \in Mounts |-> IF m = mount + 1 /\ ToSync(items) = {} THEN items ELSE Nothing]
       /\ calls' = IF ToSync(items) = {} THEN {mount + 1} \X {t \in Turns : Waiting(items, t)} ELSE {}
    /\ keys' = {} /\ asks' = {}
    /\ loops' = [l \in Loops |-> NoLoop]
    /\ UNCHANGED <<phase, open, used>>

\* The browser shows the page from its back/forward cache.
PageShow ==
    /\ ByUser
    /\ load[mount] = NoLoad
    /\ StartLoad(mount)
    /\ UNCHANGED <<phase, mount, open, keys, loops, asks, used>>

(***************************************************************************)
(* The service, by the moves of TaskLifecycle that no request makes.       *)
(***************************************************************************)
ServiceRest == <<store, mount, open, mem, keys, loops, calls, asks, load, used, clock>>

TaskEnds(k) ==
    /\ Quiet /\ phase[k] = "running"
    /\ \E p \in {"success", "failed", "timeout"} : phase' = [phase EXCEPT ![k] = p]
    /\ UNCHANGED <<ServiceRest, ops>>

\* A restart of the service ends its tasks; tasks that ended are forgotten.
TaskLost(k) ==
    /\ Quiet
    /\ Counted
    /\ phase' = [phase EXCEPT ![k] = IF phase[k] = "running" THEN "restarted" ELSE "none"]
    /\ <<phase[k], phase'[k]>> \in Lifecycle!Moves
    /\ UNCHANGED ServiceRest

InitImage ==
    /\ phase = [k \in Tasks |-> "none"]
    /\ store = Nothing
    /\ mount = 1 /\ open = TRUE
    /\ mem = [m \in Mounts |-> Nothing]
    /\ keys = {} /\ loops = [l \in Loops |-> NoLoop] /\ calls = {} /\ asks = {}
    /\ load = [m \in Mounts |-> NoLoad]
    /\ used = {} /\ clock = 0 /\ ops = 0

UserStep ==
    \/ Submit
    \/ \E c \in Convs, t \in Turns :
        \/ Regenerate(c, t)
        \/ DismissErrors(c, t)
        \/ \E part \in {"prompt", "results"} : DeleteTurnPart(c, t, part)
        \/ \E k \in Tasks : RetryImage(c, t, k) \/ AskStop(c, t, k) \/ AskContinue(c, t, k)
    \/ \E c \in Convs : Rename(c) \/ DeleteConversation(c)
    \/ ClearHistory \/ Leave \/ Return \/ Reload \/ PageShow

LoopStep(l) ==
    \/ SubmitArrives(l) \/ SubmitFails(l) \/ SubmitApplied(l)
    \/ PollArrives(l) \/ PollFails(l) \/ PollApplied(l) \/ Finish(l)

\* What the event loop of the tab runs by itself.
PageStep ==
    \/ RunQueue
    \/ \E a \in asks : Answered(a)
    \/ \E m \in Mounts : Loaded(m)
    \/ \E l \in Loops : LoopStep(l)

ServiceStep == \E k \in Tasks : TaskEnds(k) \/ TaskLost(k)

NextImage == UserStep \/ PageStep \/ ServiceStep

SpecImage == InitImage /\ [][NextImage]_imageVars

\* An open tab runs the callbacks that are due, and requests are answered;
\* running tasks end (ImageTasks!EveryTaskEnds).
FairSpecImage ==
    /\ SpecImage
    /\ WF_imageVars(PageStep)
    /\ WF_imageVars(\E k \in Tasks : TaskEnds(k))

(***************************************************************************)
(* Properties.                                                             *)
(***************************************************************************)
\* The variables keep their types.
ImageTypeOK ==
    /\ phase \in [Tasks -> Lifecycle!Phases]
    /\ store \in Memory
    /\ mount \in Mounts /\ open \in BOOLEAN
    /\ mem \in [Mounts -> Memory]
    /\ keys \subseteq Turns
    /\ loops \in [Loops -> LoopRecs \cup {NoLoop}]
    /\ calls \subseteq Mounts \X Turns
    /\ asks \subseteq [op : {"stop", "continue"}, m : Mounts, c : Convs, t : Turns, k : Tasks]
    /\ load \in [Mounts -> Memory \cup {NoLoad}]
    /\ used \subseteq Convs \cup Turns \cup Tasks
    /\ clock \in Nat /\ ops \in Nat

\* Until the page is left no turn is worked on by two loops, which would
\* each submit and poll for it, and no loop runs without its key
\* (activeConversationQueueIds), on which its being alone rests.
OneLoopPerTurn ==
    (mount = 1 /\ open) =>
        \A l \in Loops : loops[l] # NoLoop =>
            /\ loops[l].t \in keys
            /\ \A l2 \in Loops \ {l} : loops[l2] # NoLoop => loops[l2].t # loops[l].t

\* A key belongs to a loop that runs: one left behind by any of the ways a
\* loop may end would keep its turn from ever being run again.
KeysHaveLoops == \A t \in keys : \E l \in Loops : loops[l] # NoLoop /\ loops[l].t = t

Agree == store = mem[1]

\* What the page that was shown first has in memory is what the browser has
\* stored, whatever handlers and loops write in whatever order and however
\* many times in one millisecond; only loading may make them differ.
EveryChangeIsStored ==
    [][(Agree /\ mount' = 1 /\ load' = load) => Agree']_imageVars

\* An image its user stopped stays stopped when answers about its task
\* arrive late, until the user asks for it again or the page loads anew: it
\* takes what a load ends with, or at once what PageShow finds stored.
StoppedStaysStopped ==
    [][\A m \in Mounts, c \in Convs, t \in Turns, k \in Tasks :
        (/\ Has(mem[m], c, t) /\ Has(mem'[m], c, t)
         /\ mem[m][c].turns[t].images[k] = "stopped"
         /\ mem'[m][c].turns[t].images[k] \notin {"stopped", "none", "deleted"})
        => PageShow \/ load' # load \/ \E a \in asks : a.op = "continue" /\ a.k = k]_imageVars

Gone(c) ==
    /\ c \in used /\ store[c] = NoConv
    /\ \A m \in Mounts : mem[m][c] = NoConv /\ (load[m] = NoLoad \/ load[m][c] = NoConv)
    /\ \A l \in Loops : loops[l] # NoLoop => loops[l].c # c

\* A deleted conversation that no loop works on and no load has found is
\* gone for good, though handlers may still wait for an answer about it.
DeletedIsFinal == [][\A c \in Convs : Gone(c) => Gone(c)']_imageVars

\* Every turn with images that load gets them or an error, or is stopped or
\* deleted, through failing requests and lost tasks, as long as the page
\* shown first stays open.
TurnsSettle ==
    \A t \in Turns : (open /\ mount = 1 /\ Waiting(mem[1], t))
                        ~> (~open \/ mount # 1 \/ ~Waiting(mem[1], t))
=============================================================================
