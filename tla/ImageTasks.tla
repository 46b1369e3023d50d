----------------------------- MODULE ImageTasks -----------------------------
(***************************************************************************)
(* The image tasks: services/image_task_service.py.                        *)
(*                                                                         *)
(* A request submits a task under a key the client chose; a worker thread  *)
(* generates the image and writes the task; the client lists its tasks,    *)
(* stops one, or continues one that timed out, which starts another thread *)
(* that polls the upstream for the image.  Every action is one critical    *)
(* section of ImageTaskService._lock, or a step of a thread between two.   *)
(*                                                                         *)
(* The handler that generates the image is one step with an outcome; what  *)
(* it does is in module AccountPool.  Of the redundant copies of a         *)
(* generation only those matter here that lost: nobody waits for them.     *)
(* Names, messages, usage, durations and logging are left out.             *)
(***************************************************************************)
EXTENDS Naturals

CONSTANTS Keys,        \* owner:client_task_id
          NoKey,
          Pollers,     \* threads of resume_poll that may run at once
          NoTask,      \* the key is not in _tasks
          EarlyStop    \* may a stop arrive before the worker has begun?

Statuses == {"running", "success", "error"}
Errors == {"none", "failed", "timeout", "stopped", "restarted"}

\* `data' tells whether there are images, `conv' whether the conversation_id
\* of the upstream is known.
Task == [status : Statuses, error : Errors, data : BOOLEAN, conv : BOOLEAN]

ASSUME TasksAssumption ==
    /\ NoKey \notin Keys
    /\ NoTask \notin Task
    /\ EarlyStop \in BOOLEAN

VARIABLES
    tasks,       \* ImageTaskService._tasks
    stored,      \* the tasks in the file
    overdue,     \* image_poll_timeout_secs have passed since the start
    worker,      \* where the submit of a task, then its worker thread, is
    registered,  \* is the task in _workers and _cancel_events?
    cancelled,   \* is its cancel event set?
    detached,    \* does a redundant copy that lost still run?
    poller,      \* where a resume_poll thread is
    polls        \* the task it polls for

vars == <<tasks, stored, overdue, worker, registered, cancelled, detached,
          poller, polls>>
threadVars == <<worker, registered, cancelled, detached>>
pollVars == <<poller, polls>>

\* Between the creation of a task and the first step of its worker.
Starting == {"created", "registered", "begin"}
Delivering == {"deliverImages", "deliverFailure", "deliverTimeout"}
Generating == {"handling"} \cup Delivering
Working == {"check"} \cup Generating
WorkerPcs == {"none", "startFailed", "finally"} \cup Starting \cup Working
PollerPcs == {"idle", "polling", "found"}

TypeOK ==
    /\ tasks \in [Keys -> Task \cup {NoTask}]
    /\ stored \in [Keys -> Task \cup {NoTask}]
    /\ overdue \in [Keys -> BOOLEAN]
    /\ worker \in [Keys -> WorkerPcs]
    /\ registered \in [Keys -> BOOLEAN]
    /\ cancelled \in [Keys -> BOOLEAN]
    /\ detached \in [Keys -> BOOLEAN]
    /\ poller \in [Pollers -> PollerPcs]
    /\ polls \in [Pollers -> Keys \cup {NoKey}]

Init ==
    /\ tasks = [k \in Keys |-> NoTask]
    /\ stored = [k \in Keys |-> NoTask]
    /\ overdue = [k \in Keys |-> FALSE]
    /\ worker = [k \in Keys |-> "none"]
    /\ registered = [k \in Keys |-> FALSE]
    /\ cancelled = [k \in Keys |-> FALSE]
    /\ detached = [k \in Keys |-> FALSE]
    /\ poller = [p \in Pollers |-> "idle"]
    /\ polls = [p \in Pollers |-> NoKey]

Exists(k) == tasks[k] # NoTask
Unfinished(k) == Exists(k) /\ tasks[k].status = "running"
Terminal(k) == Exists(k) /\ tasks[k].status # "running"

\* The thread is in _workers and runs.
LiveWorker(k) == registered[k] /\ worker[k] \in Working \cup {"begin", "finally"}

Goto(k, label) == worker' = [worker EXCEPT ![k] = label]
-----------------------------------------------------------------------------
(***************************************************************************)
(* Writing tasks                                                           *)
(***************************************************************************)

\* _save_locked: the file is replaced as a whole.
Save == stored' = tasks'

\* Mutant: a result overwrites a task that ended.
UpdateEnded(k, new) ==
    /\ tasks' = IF ~Exists(k) THEN tasks ELSE [tasks EXCEPT ![k] = new]
    /\ Save

\* Mutant: the images of a late result are merged into a task that ended.
UpdateMerges(k, new) ==
    /\ tasks' = IF ~Exists(k) THEN tasks
                ELSE IF Terminal(k) /\ new.status # "running"
                THEN [tasks EXCEPT ![k].conv = new.conv, ![k].data = new.data]
                ELSE [tasks EXCEPT ![k] = new]
    /\ Save

\* Mutant: an update replaces the conversation_id by what it knows.
UpdateForgets(k, new) ==
    /\ tasks' = IF ~Exists(k) THEN tasks
                ELSE IF Terminal(k) /\ new.status # "running"
                THEN [tasks EXCEPT ![k].conv = FALSE]
                ELSE [tasks EXCEPT ![k] = new]
    /\ Save

\* _update_task: a task that has gone is left alone, and a task that ended takes
\* no update but its conversation_id, unless the update makes it run again.
UpdateTask(k, new) ==
    /\ tasks' = IF ~Exists(k) THEN tasks
                ELSE IF Terminal(k) /\ new.status # "running"
                THEN [tasks EXCEPT ![k].conv = new.conv]
                ELSE [tasks EXCEPT ![k] = new]
    /\ Save

Rerun(k) == [tasks[k] EXCEPT !.status = "running", !.error = "none"]
Continued(k) == [Rerun(k) EXCEPT !.conv = TRUE]
Images(k, c) == [tasks[k] EXCEPT !.status = "success", !.error = "none",
                                 !.data = TRUE, !.conv = @ \/ c]
Failure(k, e, c) == [tasks[k] EXCEPT !.status = "error", !.error = e,
                                     !.data = FALSE, !.conv = @ \/ c]

\* Mutant: a status of its own until the worker begins.
FreshQueued == [status |-> "queued", error |-> "none", data |-> FALSE, conv |-> FALSE]
Fresh == [status |-> "running", error |-> "none", data |-> FALSE, conv |-> FALSE]

\* The tasks _cleanup_locked may find older than the retention: at least a day,
\* so that no thread works on them any more.
Retired == {k \in Keys : /\ Terminal(k) /\ worker[k] = "none" /\ ~detached[k]
                         /\ \A p \in Pollers : polls[p] # k}

Forget(old) == [k \in Keys |-> IF k \in old THEN NoTask ELSE tasks[k]]
-----------------------------------------------------------------------------
(***************************************************************************)
(* _submit                                                                 *)
(***************************************************************************)

\* The first section creates the task, after a cleanup.  An id is not used again
\* in the very request that forgets it.
Submit(k) ==
    /\ ~Exists(k) /\ worker[k] = "none"
    /\ \E old \in SUBSET Retired : tasks' = [Forget(old) EXCEPT ![k] = Fresh]
    /\ Save
    /\ overdue' = [overdue EXCEPT ![k] = FALSE]
    /\ Goto(k, "created")
    /\ UNCHANGED <<registered, cancelled, detached, pollVars>>

\* A second submit of the same id returns the task there is.
SubmitAgain(k) ==
    /\ Exists(k)
    /\ \E old \in SUBSET (Retired \ {k}) : tasks' = Forget(old)
    /\ Save
    /\ UNCHANGED <<overdue, threadVars, pollVars>>

\* The second section registers the thread and its cancel event.
Register(k) ==
    /\ worker[k] = "created"
    /\ registered' = [registered EXCEPT ![k] = TRUE]
    /\ cancelled' = [cancelled EXCEPT ![k] = FALSE]
    /\ Goto(k, "registered")
    /\ UNCHANGED <<tasks, stored, overdue, detached, pollVars>>

Start(k) ==
    /\ worker[k] = "registered"
    /\ Goto(k, "begin")
    /\ UNCHANGED <<tasks, stored, overdue, registered, cancelled, detached, pollVars>>

\* Mutant: the entries stay when the thread cannot be started.
StartRaisesLeaks(k) ==
    /\ worker[k] = "registered"
    /\ Goto(k, "startFailed")
    /\ UNCHANGED <<tasks, stored, overdue, registered, cancelled, detached, pollVars>>

\* thread.start() raised: the entries are dropped, then the task fails.
StartRaises(k) ==
    /\ worker[k] = "registered"
    /\ registered' = [registered EXCEPT ![k] = FALSE]
    /\ cancelled' = [cancelled EXCEPT ![k] = FALSE]
    /\ Goto(k, "startFailed")
    /\ UNCHANGED <<tasks, stored, overdue, detached, pollVars>>

StartFailed(k) ==
    /\ worker[k] = "startFailed"
    /\ UpdateTask(k, Failure(k, "failed", FALSE))
    /\ Goto(k, "none")
    /\ UNCHANGED <<overdue, registered, cancelled, detached, pollVars>>
-----------------------------------------------------------------------------
(***************************************************************************)
(* The worker thread: _run_task                                            *)
(***************************************************************************)

\* Mutant: the worker begins without an update.
BeginSilently(k) ==
    /\ worker[k] = "begin"
    /\ Goto(k, "check")
    /\ UNCHANGED <<tasks, stored, overdue, registered, cancelled, detached, pollVars>>

\* Its first update makes the task run, whatever happened to it since.
Begin(k) ==
    /\ worker[k] = "begin"
    /\ UpdateTask(k, Rerun(k))
    /\ Goto(k, "check")
    /\ UNCHANGED <<overdue, registered, cancelled, detached, pollVars>>

Check(k) ==
    /\ worker[k] = "check"
    /\ Goto(k, IF cancelled[k] THEN "finally" ELSE "handling")
    /\ UNCHANGED <<tasks, stored, overdue, registered, cancelled, detached, pollVars>>

\* Somebody generates for the task: its worker, or a copy that lost.
Generates(k) == worker[k] \in Generating \/ detached[k]

\* A progress callback that brings a conversation_id.  It looked at the cancel
\* event before it took the lock, so a stop may have come in between.  A copy that
\* lost may call it when the worker is over.
Progress(k) ==
    /\ Generates(k)
    /\ UpdateTask(k, [tasks[k] EXCEPT !.conv = TRUE])
    /\ UNCHANGED <<overdue, threadVars, pollVars>>

\* The step image_stream_resolve_start sets started_ts: the clock starts anew.
ResolveStarts(k) ==
    /\ Generates(k)
    /\ Unfinished(k)
    /\ overdue' = [overdue EXCEPT ![k] = FALSE]
    /\ UNCHANGED <<tasks, stored, threadVars, pollVars>>

\* The handler returned or raised; then the worker looks at the cancel event.  When
\* a copy brought images the others are told to end and not waited for.
HandlerEnds(k) ==
    /\ worker[k] = "handling"
    /\ \E outcome \in Delivering, left \in BOOLEAN :
          /\ left => outcome = "deliverImages"
          /\ Goto(k, IF cancelled[k] THEN "finally" ELSE outcome)
          /\ detached' = [detached EXCEPT ![k] = left]
    /\ UNCHANGED <<tasks, stored, overdue, registered, cancelled, pollVars>>

\* The last copy that lost has ended.
CopiesEnd(k) ==
    /\ detached[k]
    /\ detached' = [detached EXCEPT ![k] = FALSE]
    /\ UNCHANGED <<tasks, stored, overdue, worker, registered, cancelled, pollVars>>

\* The result is written, with the conversation_id if the handler returned one.
Deliver(k) ==
    /\ \E c \in BOOLEAN :
          \/ worker[k] = "deliverImages" /\ UpdateTask(k, Images(k, c))
          \/ worker[k] = "deliverFailure" /\ UpdateTask(k, Failure(k, "failed", c))
          \/ worker[k] = "deliverTimeout" /\ UpdateTask(k, Failure(k, "timeout", c))
    /\ Goto(k, "finally")
    /\ UNCHANGED <<overdue, registered, cancelled, detached, pollVars>>

\* Mutant: the cancel event stays behind.
FinallyKeepsEvent(k) ==
    /\ worker[k] = "finally"
    /\ registered' = [registered EXCEPT ![k] = FALSE]
    /\ Goto(k, "none")
    /\ UNCHANGED <<tasks, stored, overdue, cancelled, detached, pollVars>>

Finally(k) ==
    /\ worker[k] = "finally"
    /\ registered' = [registered EXCEPT ![k] = FALSE]
    /\ cancelled' = [cancelled EXCEPT ![k] = FALSE]
    /\ Goto(k, "none")
    /\ UNCHANGED <<tasks, stored, overdue, detached, pollVars>>
-----------------------------------------------------------------------------
(***************************************************************************)
(* The client's requests, and the clock                                    *)
(***************************************************************************)

\* Mutant: the event is set whether it is registered or not.
StopSets(k) ==
    /\ Unfinished(k)
    /\ worker[k] \in Starting => EarlyStop
    /\ cancelled' = [cancelled EXCEPT ![k] = TRUE]
    /\ tasks' = [tasks EXCEPT ![k].status = "error", ![k].error = "stopped"]
    /\ Save
    /\ UNCHANGED <<overdue, worker, registered, detached, pollVars>>

\* stop_task: the event is set if it is registered by now.
Stop(k) ==
    /\ Unfinished(k)
    /\ worker[k] \in Starting => EarlyStop
    /\ cancelled' = [cancelled EXCEPT ![k] = registered[k]]
    /\ tasks' = [tasks EXCEPT ![k].status = "error", ![k].error = "stopped"]
    /\ Save
    /\ UNCHANGED <<overdue, worker, registered, detached, pollVars>>

\* The timeout passes.  It is longer than the start of a thread.
Tick(k) ==
    /\ Unfinished(k) /\ worker[k] \notin Starting
    /\ ~overdue[k]
    /\ overdue' = [overdue EXCEPT ![k] = TRUE]
    /\ UNCHANGED <<tasks, stored, threadVars, pollVars>>

\* Mutants: live workers are not spared; only registered tasks expire.
ExpiresLive(k) == Unfinished(k) /\ overdue[k]
ExpiresRegistered(k) == Unfinished(k) /\ overdue[k] /\ registered[k] /\ ~LiveWorker(k)

\* _expire_overdue_locked spares the tasks with a live worker.
Expires(k) == Unfinished(k) /\ overdue[k] /\ ~LiveWorker(k)

\* list_tasks: cleanup, then expiry.
List ==
    /\ \E old \in SUBSET Retired :
          tasks' = [k \in Keys |->
                       IF Expires(k)
                       THEN [tasks[k] EXCEPT !.status = "error", !.error = "timeout"]
                       ELSE Forget(old)[k]]
    /\ Save
    /\ UNCHANGED <<overdue, threadVars, pollVars>>

\* resume_poll: the task runs again and a thread polls for its image, unless the
\* thread cannot be started.  The client sends the conversation_id if the task has
\* none.
Resume(k) ==
    /\ Terminal(k) /\ tasks[k].error = "timeout"
    /\ UpdateTask(k, Continued(k))
    /\ \/ \E p \in Pollers :
             /\ poller[p] = "idle"
             /\ poller' = [poller EXCEPT ![p] = "polling"]
             /\ polls' = [polls EXCEPT ![p] = k]
       \/ UNCHANGED pollVars
    /\ UNCHANGED <<overdue, threadVars>>
-----------------------------------------------------------------------------
(***************************************************************************)
(* The polling thread: _run_resume_poll                                    *)
(***************************************************************************)

PollFinds(p) ==
    /\ poller[p] = "polling"
    /\ poller' = [poller EXCEPT ![p] = "found"]
    /\ UNCHANGED <<tasks, stored, overdue, threadVars, polls>>

PollOver(p) ==
    /\ poller' = [poller EXCEPT ![p] = "idle"]
    /\ polls' = [polls EXCEPT ![p] = NoKey]

PollDelivers(p) ==
    /\ poller[p] = "found"
    /\ UpdateTask(polls[p], Images(polls[p], FALSE))
    /\ PollOver(p)
    /\ UNCHANGED <<overdue, threadVars>>

PollFails(p) ==
    /\ poller[p] = "polling"
    /\ \E e \in {"failed", "timeout"} :
          UpdateTask(polls[p], Failure(polls[p], e, FALSE))
    /\ PollOver(p)
    /\ UNCHANGED <<overdue, threadVars>>
-----------------------------------------------------------------------------
(***************************************************************************)
(* A crash and the next start: _load_locked, _recover_unfinished_locked    *)
(***************************************************************************)

\* A task nobody works on any more is marked.
Recovered(t) == IF t # NoTask /\ t.status = "running"
                THEN [t EXCEPT !.status = "error", !.error = "restarted"]
                ELSE t

\* The tasks that had ended may be older than the retention.
Restart ==
    /\ \E old \in SUBSET {k \in Keys : stored[k] # NoTask /\ stored[k] = Recovered(stored[k])} :
          tasks' = [k \in Keys |-> IF k \in old THEN NoTask ELSE Recovered(stored[k])]
    /\ Save
    /\ worker' = [k \in Keys |-> "none"]
    /\ registered' = [k \in Keys |-> FALSE]
    /\ cancelled' = [k \in Keys |-> FALSE]
    /\ detached' = [k \in Keys |-> FALSE]
    /\ poller' = [p \in Pollers |-> "idle"]
    /\ polls' = [p \in Pollers |-> NoKey]
    /\ UNCHANGED overdue
-----------------------------------------------------------------------------
WorkerStep(k) ==
    \/ Register(k) \/ Start(k) \/ StartRaises(k) \/ StartFailed(k)
    \/ Begin(k) \/ Check(k) \/ HandlerEnds(k) \/ Deliver(k) \/ Finally(k)

Client(k) == Submit(k) \/ SubmitAgain(k) \/ Stop(k) \/ Resume(k)

PollerStep(p) == PollFinds(p) \/ PollDelivers(p) \/ PollFails(p)

Next ==
    \/ \E k \in Keys : \/ WorkerStep(k) \/ Client(k)
                       \/ Progress(k) \/ ResolveStarts(k) \/ CopiesEnd(k) \/ Tick(k)
    \/ \E p \in Pollers : PollerStep(p)
    \/ List
    \/ Restart

\* Threads run, their handlers and copies end; the page lists its unfinished tasks
\* every few seconds.  Nobody has to submit, stop or continue anything.
Fairness ==
    /\ \A k \in Keys : WF_vars(WorkerStep(k)) /\ WF_vars(CopiesEnd(k)) /\ WF_vars(Tick(k))
    /\ \A p \in Pollers : WF_vars(PollerStep(p))
    /\ WF_vars(List)

Spec == Init /\ [][Next]_vars
FairSpec == Spec /\ Fairness
-----------------------------------------------------------------------------
(***************************************************************************)
(* Properties                                                              *)
(***************************************************************************)

\* The phase of a task a client sees.
Phase(k) == IF ~Exists(k) THEN "none"
            ELSE IF tasks[k].status = "error" THEN tasks[k].error
            ELSE tasks[k].status

Promise == INSTANCE TaskLifecycle WITH phase <- [k \in Keys |-> Phase(k)]

\* The tasks go through the phases a client is promised: a task that succeeded or
\* was stopped stays so, whatever its worker, its poller, a restart or another
\* request does.  _update_task, _run_task, _recover_unfinished_locked.
Lifecycle == Promise!Spec

\* A task is shown with images exactly when it succeeded: neither a continued
\* task nor a failed one shows images of an earlier run.  _run_task,
\* _run_resume_poll, _recover_unfinished_locked.
ImagesIffSuccess ==
    \A k \in Keys : Exists(k) => (tasks[k].data <=> tasks[k].status = "success")

\* While a worker generates and nobody stopped its task, the task is shown as
\* running: neither the expiry nor another thread ends it under the worker's
\* hands.  _expire_overdue_locked.
WorkerOwnsTask ==
    \A k \in Keys : worker[k] \in Working /\ ~cancelled[k] => Unfinished(k)

\* A task whose conversation is known stays one that can be continued.
\* _update_task, _run_task, resume_poll.
ConversationIsKept ==
    [][\A k \in Keys : Exists(k) /\ tasks[k].conv /\ Exists(k)' => tasks'[k].conv]_vars

\* A cancel event is set only for a task that its user stopped: no worker gives
\* up a task that is shown as running.  stop_task, _run_task.
CancelledIsStopped ==
    \A k \in Keys : cancelled[k] => Terminal(k) /\ tasks[k].error = "stopped"

\* The entries of a task in _workers and _cancel_events go with its thread: a
\* task whose thread is over is not taken for a live one.  _run_task, _submit.
RegisteredIsAlive ==
    \A k \in Keys : registered[k] => worker[k] = "registered" \/ LiveWorker(k)

\* The images of the worker are shown, unless its user stopped the task: nothing
\* ended the task while the worker was busy.  _run_task, _expire_overdue_locked.
WorkersImagesAreShown ==
    [][\A k \in Keys :
          /\ worker[k] = "deliverImages" /\ worker'[k] = "finally"
          /\ tasks[k].error # "stopped"
          => tasks'[k].status = "success"]_vars

\* So are the images a continued task waited for.  _run_resume_poll,
\* _expire_overdue_locked.
PolledImagesAreShown ==
    [][\A p \in Pollers :
          /\ poller[p] = "found" /\ PollDelivers(p)
          /\ tasks[polls[p]].error # "stopped"
          => tasks'[polls[p]].status = "success"]_vars

\* A task its user stopped does not run again.  stop_task, _run_task.
StoppedStaysStopped ==
    [][\A k \in Keys : Phase(k) = "stopped" => Phase(k)' # "running"]_vars

\* No task is shown as running for ever.  _run_task, _run_resume_poll,
\* _expire_overdue_locked.
EveryTaskEnds == \A k \in Keys : Unfinished(k) ~> ~Unfinished(k)
-----------------------------------------------------------------------------
(***************************************************************************)
(* The inductive invariant behind Lifecycle and the invariants above       *)
(* (ImageTasksProofs): what is true of one task, its worker and its        *)
(* pollers.  The last part is what a stop before the worker's first step   *)
(* would break.                                                            *)
(***************************************************************************)
Busy(k) == worker[k] \in Starting \cup Working

KeyInv(k) ==
    /\ stored[k] = tasks[k]
    /\ Exists(k) => /\ tasks[k].data <=> tasks[k].status = "success"
                    /\ tasks[k].status = "error" <=> tasks[k].error # "none"
    /\ Busy(k) => /\ Exists(k) /\ tasks[k].error \in {"none", "stopped"}
                  /\ tasks[k].status # "success"
                  /\ \A p \in Pollers : polls[p] # k
    /\ worker[k] \in Starting => ~overdue[k]
    /\ worker[k] \in Working \cup {"registered", "begin"} => registered[k]
    /\ worker[k] \in Working /\ ~cancelled[k] => Unfinished(k)
    /\ registered[k] => worker[k] \in {"registered", "begin", "finally"} \cup Working
    /\ cancelled[k] => registered[k]
    /\ \A p \in Pollers : polls[p] = k => Exists(k)

PromptInv(k) ==
    /\ worker[k] \in Starting => Unfinished(k)
    /\ cancelled[k] => Terminal(k) /\ tasks[k].error = "stopped"

\* True of every state of every instance.  TasksInductive is its own proof: each
\* step keeps it.
TasksInductive ==
    /\ TypeOK
    /\ \A p \in Pollers : poller[p] # "idle" => polls[p] # NoKey
    /\ \A k \in Keys : KeyInv(k) /\ (~EarlyStop => PromptInv(k))
=============================================================================
