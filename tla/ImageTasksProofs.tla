-------------------------- MODULE ImageTasksProofs --------------------------
(***************************************************************************)
(* Theorems about the image tasks, for any number of tasks and of polling  *)
(* threads.                                                                *)
(***************************************************************************)
EXTENDS ImageTasks, TLAPS

\* What the writers build is a task.
LEMMA NewTasks ==
    ASSUME NEW k \in Keys, tasks[k] \in Task, NEW c \in BOOLEAN, NEW e \in Errors
    PROVE  /\ Rerun(k) \in Task /\ Continued(k) \in Task /\ Images(k, c) \in Task /\ Failure(k, e, c) \in Task
           /\ Rerun(k).status = "running" /\ Rerun(k).error = "none"
           /\ Rerun(k).data = tasks[k].data
           /\ Continued(k).status = "running" /\ Continued(k).error = "none"
           /\ Continued(k).data = tasks[k].data
           /\ Images(k, c).status = "success" /\ Images(k, c).error = "none"
           /\ Images(k, c).data
           /\ Failure(k, e, c).status = "error" /\ Failure(k, e, c).error = e
           /\ ~Failure(k, e, c).data
  BY DEF Task, Statuses, Errors, Rerun, Continued, Images, Failure

\* _update_task touches one task; one that is gone stays so, and one that ended
\* keeps all a client sees of it unless it runs again.
LEMMA UpdateEffect ==
    ASSUME TypeOK, NEW k \in Keys, NEW new, Exists(k) => new \in Task,
           UpdateTask(k, new)
    PROVE  /\ tasks' \in [Keys -> Task \cup {NoTask}]
           /\ stored' = tasks'
           /\ \A j \in Keys \ {k} : tasks'[j] = tasks[j]
           /\ ~Exists(k) => tasks'[k] = NoTask
           /\ Exists(k) => tasks'[k] # NoTask
           /\ Terminal(k) /\ new.status # "running" =>
                 /\ tasks'[k].status = tasks[k].status
                 /\ tasks'[k].error = tasks[k].error
                 /\ tasks'[k].data = tasks[k].data
           /\ Exists(k) /\ (Unfinished(k) \/ new.status = "running") => tasks'[k] = new
<1>0. NoTask \notin Task
  BY TasksAssumption
<1>1. /\ tasks \in [Keys -> Task \cup {NoTask}]
      /\ stored' = tasks'
      /\ tasks' = IF ~Exists(k) THEN tasks
                  ELSE IF Terminal(k) /\ new.status # "running"
                  THEN [tasks EXCEPT ![k].conv = new.conv]
                  ELSE [tasks EXCEPT ![k] = new]
  BY DEF TypeOK, UpdateTask, Save
<1>2. CASE ~Exists(k)
  BY <1>1, <1>2 DEF Exists, Terminal, Unfinished
<1>3. CASE Exists(k) /\ Terminal(k) /\ new.status # "running"
  <2>1. tasks[k] \in Task /\ new \in Task
    BY <1>1, <1>3 DEF Exists
  <2>2. tasks' = [tasks EXCEPT ![k] = [tasks[k] EXCEPT !.conv = new.conv]]
    BY <1>1, <1>3
  <2>3. /\ [tasks[k] EXCEPT !.conv = new.conv] \in Task
        /\ [tasks[k] EXCEPT !.conv = new.conv].status = tasks[k].status
        /\ [tasks[k] EXCEPT !.conv = new.conv].error = tasks[k].error
        /\ [tasks[k] EXCEPT !.conv = new.conv].data = tasks[k].data
    BY <2>1 DEF Task
  <2>4. tasks'[k] = [tasks[k] EXCEPT !.conv = new.conv]
    BY <1>1, <2>2
  <2>5. /\ tasks' \in [Keys -> Task \cup {NoTask}]
        /\ \A j \in Keys \ {k} : tasks'[j] = tasks[j]
    BY <1>1, <2>2, <2>3
  <2> QED
    BY <1>0, <1>1, <1>3, <2>3, <2>4, <2>5 DEF Unfinished, Terminal
<1>4. CASE Exists(k) /\ ~(Terminal(k) /\ new.status # "running")
  BY <1>0, <1>1, <1>4 DEF Exists, Terminal, Unfinished
<1> QED
  BY <1>2, <1>3, <1>4
-----------------------------------------------------------------------------
(***************************************************************************)
(* The tasks an action leaves alone                                        *)
(***************************************************************************)

\* What is true of a task and its threads stays so while none of them changes and
\* no poller joins them.
LEMMA Untouched ==
    ASSUME NEW k \in Keys, KeyInv(k), ~EarlyStop => PromptInv(k),
           tasks'[k] = tasks[k], stored'[k] = stored[k], overdue'[k] = overdue[k],
           worker'[k] = worker[k], registered'[k] = registered[k],
           cancelled'[k] = cancelled[k],
           \A p \in Pollers : polls'[p] = k => polls[p] = k
    PROVE  KeyInv(k)' /\ (~EarlyStop => PromptInv(k)')
  BY DEF KeyInv, PromptInv, Busy, Exists, Unfinished, Terminal

\* A retired task has no thread, so that it can be forgotten.
LEMMA Forgotten ==
    ASSUME NEW k \in Keys, TypeOK, KeyInv(k), ~EarlyStop => PromptInv(k),
           k \in Retired, tasks'[k] = NoTask, stored'[k] = NoTask,
           worker'[k] = worker[k], registered'[k] = registered[k],
           cancelled'[k] = cancelled[k], polls' = polls
    PROVE  KeyInv(k)' /\ (~EarlyStop => PromptInv(k)')
<1>1. worker[k] = "none" /\ \A p \in Pollers : polls[p] # k
  BY DEF Retired
<1> QED
  BY <1>1 DEF KeyInv, PromptInv, Busy, Exists, Unfinished, Terminal, Starting,
              Working, Generating, Delivering

\* A cleanup changes no task it does not forget.
LEMMA ForgetEffect ==
    ASSUME TypeOK, NEW old \in SUBSET Keys
    PROVE  /\ Forget(old) \in [Keys -> Task \cup {NoTask}]
           /\ \A k \in old : Forget(old)[k] = NoTask
           /\ \A k \in Keys \ old : Forget(old)[k] = tasks[k]
  BY DEF TypeOK, Forget

\* What an action that touches one task has to show.
TouchesOnly(k) ==
    \A j \in Keys \ {k} :
       /\ tasks'[j] = tasks[j] /\ stored'[j] = tasks'[j]
       /\ overdue'[j] = overdue[j] /\ worker'[j] = worker[j]
       /\ registered'[j] = registered[j] /\ cancelled'[j] = cancelled[j]
       /\ \A p \in Pollers : polls'[p] = j => polls[p] = j

LEMMA OneTask ==
    ASSUME TasksInductive, NEW k \in Keys, TouchesOnly(k), TypeOK',
           \A p \in Pollers : poller'[p] # "idle" => polls'[p] # NoKey,
           KeyInv(k)', ~EarlyStop => PromptInv(k)'
    PROVE  TasksInductive'
<1>1. ASSUME NEW j \in Keys, j # k PROVE KeyInv(j)' /\ (~EarlyStop => PromptInv(j)')
  <2>1. KeyInv(j) /\ (~EarlyStop => PromptInv(j)) /\ stored[j] = tasks[j]
    BY DEF TasksInductive, KeyInv
  <2>2. /\ tasks'[j] = tasks[j] /\ stored'[j] = stored[j]
        /\ overdue'[j] = overdue[j] /\ worker'[j] = worker[j]
        /\ registered'[j] = registered[j] /\ cancelled'[j] = cancelled[j]
        /\ \A p \in Pollers : polls'[p] = j => polls[p] = j
    BY <1>1, <2>1 DEF TouchesOnly
  <2> QED
    BY <2>1, <2>2, Untouched
<1> QED
  BY <1>1 DEF TasksInductive
-----------------------------------------------------------------------------
(***************************************************************************)
(* Each action keeps the invariant                                         *)
(***************************************************************************)
LEMMA RegisterKeeps ==
    ASSUME TasksInductive, NEW k \in Keys, Register(k)
    PROVE  TasksInductive'
<1>1. /\ TypeOK /\ KeyInv(k) /\ (~EarlyStop => PromptInv(k))
      /\ \A p \in Pollers : poller[p] # "idle" => polls[p] # NoKey
  BY DEF TasksInductive
<1>2. /\ worker[k] = "created"
      /\ worker' = [worker EXCEPT ![k] = "registered"]
      /\ registered' = [registered EXCEPT ![k] = TRUE]
      /\ cancelled' = [cancelled EXCEPT ![k] = FALSE]
      /\ UNCHANGED <<tasks, stored, overdue, detached, poller, polls>>
  BY DEF Register, Goto, pollVars
<1>3. TypeOK'
  BY <1>1, <1>2 DEF TypeOK, WorkerPcs, Starting
<1>4. TouchesOnly(k)
  BY <1>1, <1>2 DEF TouchesOnly, TypeOK, TasksInductive, KeyInv
<1>5. worker'[k] = "registered" /\ registered'[k] /\ ~cancelled'[k]
  BY <1>1, <1>2 DEF TypeOK
<1>6. KeyInv(k)' /\ (~EarlyStop => PromptInv(k)')
  BY <1>1, <1>2, <1>5 DEF KeyInv, PromptInv, Busy, Exists, Unfinished, Terminal,
                          Starting, Working, Generating, Delivering
<1> QED
  BY <1>1, <1>2, <1>3, <1>4, <1>6, OneTask

LEMMA StartKeeps ==
    ASSUME TasksInductive, NEW k \in Keys, Start(k)
    PROVE  TasksInductive'
<1>1. /\ TypeOK /\ KeyInv(k) /\ (~EarlyStop => PromptInv(k))
      /\ \A p \in Pollers : poller[p] # "idle" => polls[p] # NoKey
  BY DEF TasksInductive
<1>2. /\ worker[k] = "registered"
      /\ worker' = [worker EXCEPT ![k] = "begin"]
      /\ UNCHANGED <<tasks, stored, overdue, registered, cancelled, detached, poller, polls>>
  BY DEF Start, Goto, pollVars
<1>3. TypeOK'
  BY <1>1, <1>2 DEF TypeOK, WorkerPcs, Starting, Working, Generating, Delivering
<1>4. TouchesOnly(k)
  BY <1>1, <1>2 DEF TouchesOnly, TypeOK, TasksInductive, KeyInv
<1>5. worker'[k] = "begin"
  BY <1>1, <1>2 DEF TypeOK
<1>6. KeyInv(k)' /\ (~EarlyStop => PromptInv(k)')
  BY <1>1, <1>2, <1>5 DEF KeyInv, PromptInv, Busy, Exists, Unfinished, Terminal,
                     Starting, Working, Generating, Delivering
<1> QED
  BY <1>1, <1>2, <1>3, <1>4, <1>6, OneTask

LEMMA StartRaisesKeeps ==
    ASSUME TasksInductive, NEW k \in Keys, StartRaises(k)
    PROVE  TasksInductive'
<1>1. /\ TypeOK /\ KeyInv(k) /\ (~EarlyStop => PromptInv(k))
      /\ \A p \in Pollers : poller[p] # "idle" => polls[p] # NoKey
  BY DEF TasksInductive
<1>2. /\ worker[k] = "registered"
      /\ worker' = [worker EXCEPT ![k] = "startFailed"]
      /\ registered' = [registered EXCEPT ![k] = FALSE]
      /\ cancelled' = [cancelled EXCEPT ![k] = FALSE]
      /\ UNCHANGED <<tasks, stored, overdue, detached, poller, polls>>
  BY DEF StartRaises, Goto, pollVars
<1>3. TypeOK'
  BY <1>1, <1>2 DEF TypeOK, WorkerPcs, Starting, Working, Generating, Delivering
<1>4. TouchesOnly(k)
  BY <1>1, <1>2 DEF TouchesOnly, TypeOK, TasksInductive, KeyInv
<1>5. worker'[k] = "startFailed" /\ ~registered'[k] /\ ~cancelled'[k]
  BY <1>1, <1>2 DEF TypeOK
<1>6. KeyInv(k)' /\ (~EarlyStop => PromptInv(k)')
  BY <1>1, <1>2, <1>5 DEF KeyInv, PromptInv, Busy, Exists, Unfinished, Terminal,
                     Starting, Working, Generating, Delivering
<1> QED
  BY <1>1, <1>2, <1>3, <1>4, <1>6, OneTask

LEMMA CheckKeeps ==
    ASSUME TasksInductive, NEW k \in Keys, Check(k)
    PROVE  TasksInductive'
<1>1. /\ TypeOK /\ KeyInv(k) /\ (~EarlyStop => PromptInv(k))
      /\ \A p \in Pollers : poller[p] # "idle" => polls[p] # NoKey
  BY DEF TasksInductive
<1>2. /\ worker[k] = "check"
      /\ worker' = [worker EXCEPT ![k] = IF cancelled[k] THEN "finally" ELSE "handling"]
      /\ UNCHANGED <<tasks, stored, overdue, registered, cancelled, detached, poller, polls>>
  BY DEF Check, Goto, pollVars
<1>3. TypeOK'
  BY <1>1, <1>2 DEF TypeOK, WorkerPcs, Starting, Working, Generating, Delivering
<1>4. TouchesOnly(k)
  BY <1>1, <1>2 DEF TouchesOnly, TypeOK, TasksInductive, KeyInv
<1>5. worker'[k] = IF cancelled[k] THEN "finally" ELSE "handling"
  BY <1>1, <1>2 DEF TypeOK
<1>6. KeyInv(k)' /\ (~EarlyStop => PromptInv(k)')
  BY <1>1, <1>2, <1>5 DEF KeyInv, PromptInv, Busy, Exists, Unfinished, Terminal,
                     Starting, Working, Generating, Delivering
<1> QED
  BY <1>1, <1>2, <1>3, <1>4, <1>6, OneTask

LEMMA FinallyKeeps ==
    ASSUME TasksInductive, NEW k \in Keys, Finally(k)
    PROVE  TasksInductive'
<1>1. /\ TypeOK /\ KeyInv(k) /\ (~EarlyStop => PromptInv(k))
      /\ \A p \in Pollers : poller[p] # "idle" => polls[p] # NoKey
  BY DEF TasksInductive
<1>2. /\ worker[k] = "finally"
      /\ worker' = [worker EXCEPT ![k] = "none"]
      /\ registered' = [registered EXCEPT ![k] = FALSE]
      /\ cancelled' = [cancelled EXCEPT ![k] = FALSE]
      /\ UNCHANGED <<tasks, stored, overdue, detached, poller, polls>>
  BY DEF Finally, Goto, pollVars
<1>3. TypeOK'
  BY <1>1, <1>2 DEF TypeOK, WorkerPcs, Starting, Working, Generating, Delivering
<1>4. TouchesOnly(k)
  BY <1>1, <1>2 DEF TouchesOnly, TypeOK, TasksInductive, KeyInv
<1>5. worker'[k] = "none" /\ ~registered'[k] /\ ~cancelled'[k]
  BY <1>1, <1>2 DEF TypeOK
<1>6. KeyInv(k)' /\ (~EarlyStop => PromptInv(k)')
  BY <1>1, <1>2, <1>5 DEF KeyInv, PromptInv, Busy, Exists, Unfinished, Terminal,
                     Starting, Working, Generating, Delivering
<1> QED
  BY <1>1, <1>2, <1>3, <1>4, <1>6, OneTask

LEMMA ResolveStartsKeeps ==
    ASSUME TasksInductive, NEW k \in Keys, ResolveStarts(k)
    PROVE  TasksInductive'
<1>1. /\ TypeOK /\ KeyInv(k) /\ (~EarlyStop => PromptInv(k))
      /\ \A p \in Pollers : poller[p] # "idle" => polls[p] # NoKey
  BY DEF TasksInductive
<1>2. /\ Unfinished(k)
      /\ overdue' = [overdue EXCEPT ![k] = FALSE]
      /\ UNCHANGED <<tasks, stored, worker, registered, cancelled, detached, poller, polls>>
  BY DEF ResolveStarts, threadVars, pollVars
<1>3. TypeOK'
  BY <1>1, <1>2 DEF TypeOK, WorkerPcs, Starting, Working, Generating, Delivering
<1>4. TouchesOnly(k)
  BY <1>1, <1>2 DEF TouchesOnly, TypeOK, TasksInductive, KeyInv
<1>5. overdue'[k] = FALSE
  BY <1>1, <1>2 DEF TypeOK
<1>6. KeyInv(k)' /\ (~EarlyStop => PromptInv(k)')
  BY <1>1, <1>2, <1>5 DEF KeyInv, PromptInv, Busy, Exists, Unfinished, Terminal,
                     Starting, Working, Generating, Delivering
<1> QED
  BY <1>1, <1>2, <1>3, <1>4, <1>6, OneTask

LEMMA CopiesEndKeeps ==
    ASSUME TasksInductive, NEW k \in Keys, CopiesEnd(k)
    PROVE  TasksInductive'
<1>1. /\ TypeOK /\ KeyInv(k) /\ (~EarlyStop => PromptInv(k))
      /\ \A p \in Pollers : poller[p] # "idle" => polls[p] # NoKey
  BY DEF TasksInductive
<1>2. /\ detached' = [detached EXCEPT ![k] = FALSE]
      /\ UNCHANGED <<tasks, stored, overdue, worker, registered, cancelled, poller, polls>>
  BY DEF CopiesEnd, pollVars
<1>3. TypeOK'
  BY <1>1, <1>2 DEF TypeOK
<1>4. TouchesOnly(k)
  BY <1>1, <1>2 DEF TouchesOnly, TasksInductive, KeyInv
<1>5. KeyInv(k)' /\ (~EarlyStop => PromptInv(k)')
  BY <1>1, <1>2, Untouched
<1> QED
  BY <1>1, <1>2, <1>3, <1>4, <1>5, OneTask

LEMMA TickKeeps ==
    ASSUME TasksInductive, NEW k \in Keys, Tick(k)
    PROVE  TasksInductive'
<1>1. /\ TypeOK /\ KeyInv(k) /\ (~EarlyStop => PromptInv(k))
      /\ \A p \in Pollers : poller[p] # "idle" => polls[p] # NoKey
  BY DEF TasksInductive
<1>2. /\ worker[k] \notin Starting
      /\ overdue' = [overdue EXCEPT ![k] = TRUE]
      /\ UNCHANGED <<tasks, stored, worker, registered, cancelled, detached, poller, polls>>
  BY DEF Tick, threadVars, pollVars
<1>3. TypeOK'
  BY <1>1, <1>2 DEF TypeOK, WorkerPcs, Starting, Working, Generating, Delivering
<1>4. TouchesOnly(k)
  BY <1>1, <1>2 DEF TouchesOnly, TypeOK, TasksInductive, KeyInv
<1>5. overdue'[k] = TRUE
  BY <1>1, <1>2 DEF TypeOK
<1>6. KeyInv(k)' /\ (~EarlyStop => PromptInv(k)')
  BY <1>1, <1>2, <1>5 DEF KeyInv, PromptInv, Busy, Exists, Unfinished, Terminal,
                     Starting, Working, Generating, Delivering
<1> QED
  BY <1>1, <1>2, <1>3, <1>4, <1>6, OneTask

LEMMA HandlerEndsKeeps ==
    ASSUME TasksInductive, NEW k \in Keys, HandlerEnds(k)
    PROVE  TasksInductive'
<1>1. /\ TypeOK /\ KeyInv(k) /\ (~EarlyStop => PromptInv(k))
      /\ \A p \in Pollers : poller[p] # "idle" => polls[p] # NoKey
  BY DEF TasksInductive
<1>2. PICK next \in Delivering \cup {"finally"}, left \in BOOLEAN :
         /\ worker[k] = "handling"
         /\ detached' = [detached EXCEPT ![k] = left]
         /\ cancelled[k] <=> next = "finally"
         /\ worker' = [worker EXCEPT ![k] = next]
         /\ UNCHANGED <<tasks, stored, overdue, registered, cancelled, poller, polls>>
  BY DEF HandlerEnds, Goto, pollVars, Delivering
<1>3. TypeOK'
  BY <1>1, <1>2 DEF TypeOK, WorkerPcs, Starting, Working, Generating, Delivering
<1>4. TouchesOnly(k)
  BY <1>1, <1>2 DEF TouchesOnly, TypeOK, TasksInductive, KeyInv
<1>5. worker'[k] = next
  BY <1>1, <1>2 DEF TypeOK
<1>6. KeyInv(k)' /\ (~EarlyStop => PromptInv(k)')
  BY <1>1, <1>2, <1>5 DEF KeyInv, PromptInv, Busy, Exists, Unfinished, Terminal,
                          Starting, Working, Generating, Delivering
<1> QED
  BY <1>1, <1>2, <1>3, <1>4, <1>6, OneTask

LEMMA StartFailedKeeps ==
    ASSUME TasksInductive, NEW k \in Keys, StartFailed(k)
    PROVE  TasksInductive'
<1>1. /\ TypeOK /\ KeyInv(k) /\ (~EarlyStop => PromptInv(k))
      /\ \A p \in Pollers : poller[p] # "idle" => polls[p] # NoKey
  BY DEF TasksInductive
<1>2. /\ worker[k] = "startFailed"
      /\ worker' = [worker EXCEPT ![k] = "none"]
      /\ UNCHANGED <<overdue, registered, cancelled, detached, poller, polls>>
  BY DEF StartFailed, Goto, pollVars
<1>3. Exists(k) => tasks[k] \in Task
  BY <1>1 DEF TypeOK, Exists
<1>4. PICK new : /\ UpdateTask(k, new)
                 /\ Exists(k) => /\ new \in Task
                                 /\ new.status = "error"
                                 /\ new.error # "none"
                                 /\ ~new.data
  <2>1. UpdateTask(k, Failure(k, "failed", FALSE))
    BY DEF StartFailed
  <2>2. Exists(k) => /\ Failure(k, "failed", FALSE) \in Task
                     /\ Failure(k, "failed", FALSE).status = "error"
                                   /\ Failure(k, "failed", FALSE).error # "none"
                                   /\ ~Failure(k, "failed", FALSE).data
    BY <1>3, NewTasks DEF Errors
  <2> QED
    BY <2>1, <2>2
<1>5. /\ tasks' \in [Keys -> Task \cup {NoTask}]
      /\ stored' = tasks'
      /\ \A j \in Keys \ {k} : tasks'[j] = tasks[j]
      /\ ~Exists(k) => tasks'[k] = NoTask
      /\ Exists(k) => tasks'[k] # NoTask
      /\ Terminal(k) /\ new.status # "running" =>
            /\ tasks'[k].status = tasks[k].status
            /\ tasks'[k].error = tasks[k].error
            /\ tasks'[k].data = tasks[k].data
      /\ Exists(k) /\ (Unfinished(k) \/ new.status = "running") => tasks'[k] = new
  BY <1>1, <1>4, UpdateEffect
<1>6. TypeOK'
  BY <1>1, <1>2, <1>5 DEF TypeOK, WorkerPcs, Starting, Working, Generating, Delivering
<1>7. TouchesOnly(k)
  BY <1>1, <1>2, <1>5 DEF TouchesOnly, TypeOK
<1>8. worker'[k] = "none"
  BY <1>1, <1>2 DEF TypeOK
<1>9. KeyInv(k)' /\ (~EarlyStop => PromptInv(k)')
  BY <1>1, <1>2, <1>4, <1>5, <1>8
  DEF KeyInv, PromptInv, Busy, Exists, Unfinished, Terminal, Starting, Working, Generating,
      Delivering
<1> QED
  BY <1>1, <1>2, <1>6, <1>7, <1>9, OneTask

LEMMA BeginKeeps ==
    ASSUME TasksInductive, NEW k \in Keys, Begin(k)
    PROVE  TasksInductive'
<1>1. /\ TypeOK /\ KeyInv(k) /\ (~EarlyStop => PromptInv(k))
      /\ \A p \in Pollers : poller[p] # "idle" => polls[p] # NoKey
  BY DEF TasksInductive
<1>2. /\ worker[k] = "begin"
      /\ worker' = [worker EXCEPT ![k] = "check"]
      /\ UNCHANGED <<overdue, registered, cancelled, detached, poller, polls>>
  BY DEF Begin, Goto, pollVars
<1>3. Exists(k) => tasks[k] \in Task
  BY <1>1 DEF TypeOK, Exists
<1>4. PICK new : /\ UpdateTask(k, new)
                 /\ Exists(k) => /\ new \in Task
                                 /\ new.status = "running"
                                 /\ new.error = "none"
                                 /\ new.data = tasks[k].data
  <2>1. UpdateTask(k, Rerun(k))
    BY DEF Begin
  <2>2. Exists(k) => /\ Rerun(k) \in Task
                     /\ Rerun(k).status = "running"
                                   /\ Rerun(k).error = "none"
                                   /\ Rerun(k).data = tasks[k].data
    BY <1>3, NewTasks DEF Errors
  <2> QED
    BY <2>1, <2>2
<1>5. /\ tasks' \in [Keys -> Task \cup {NoTask}]
      /\ stored' = tasks'
      /\ \A j \in Keys \ {k} : tasks'[j] = tasks[j]
      /\ ~Exists(k) => tasks'[k] = NoTask
      /\ Exists(k) => tasks'[k] # NoTask
      /\ Terminal(k) /\ new.status # "running" =>
            /\ tasks'[k].status = tasks[k].status
            /\ tasks'[k].error = tasks[k].error
            /\ tasks'[k].data = tasks[k].data
      /\ Exists(k) /\ (Unfinished(k) \/ new.status = "running") => tasks'[k] = new
  BY <1>1, <1>4, UpdateEffect
<1>6. TypeOK'
  BY <1>1, <1>2, <1>5 DEF TypeOK, WorkerPcs, Starting, Working, Generating, Delivering
<1>7. TouchesOnly(k)
  BY <1>1, <1>2, <1>5 DEF TouchesOnly, TypeOK
<1>8. worker'[k] = "check"
  BY <1>1, <1>2 DEF TypeOK
<1>9. KeyInv(k)' /\ (~EarlyStop => PromptInv(k)')
  BY <1>1, <1>2, <1>4, <1>5, <1>8
  DEF KeyInv, PromptInv, Busy, Exists, Unfinished, Terminal, Starting, Working, Generating,
      Delivering
<1> QED
  BY <1>1, <1>2, <1>6, <1>7, <1>9, OneTask

LEMMA ProgressKeeps ==
    ASSUME TasksInductive, NEW k \in Keys, Progress(k)
    PROVE  TasksInductive'
<1>1. /\ TypeOK /\ KeyInv(k) /\ (~EarlyStop => PromptInv(k))
      /\ \A p \in Pollers : poller[p] # "idle" => polls[p] # NoKey
  BY DEF TasksInductive
<1>2. /\ worker' = worker
      /\ UNCHANGED <<overdue, registered, cancelled, detached, poller, polls>>
  BY DEF Progress, threadVars, pollVars
<1>3. Exists(k) => tasks[k] \in Task
  BY <1>1 DEF TypeOK, Exists
<1>4. PICK new : /\ UpdateTask(k, new)
                 /\ Exists(k) => /\ new \in Task
                                 /\ new.status = tasks[k].status
                                 /\ new.error = tasks[k].error
                                 /\ new.data = tasks[k].data
  <2>1. UpdateTask(k, [tasks[k] EXCEPT !.conv = TRUE])
    BY DEF Progress
  <2>2. Exists(k) => /\ [tasks[k] EXCEPT !.conv = TRUE] \in Task
                     /\ [tasks[k] EXCEPT !.conv = TRUE].status = tasks[k].status
                                   /\ [tasks[k] EXCEPT !.conv = TRUE].error = tasks[k].error
                                   /\ [tasks[k] EXCEPT !.conv = TRUE].data = tasks[k].data
    BY <1>3 DEF Task
  <2> QED
    BY <2>1, <2>2
<1>5. /\ tasks' \in [Keys -> Task \cup {NoTask}]
      /\ stored' = tasks'
      /\ \A j \in Keys \ {k} : tasks'[j] = tasks[j]
      /\ ~Exists(k) => tasks'[k] = NoTask
      /\ Exists(k) => tasks'[k] # NoTask
      /\ Terminal(k) /\ new.status # "running" =>
            /\ tasks'[k].status = tasks[k].status
            /\ tasks'[k].error = tasks[k].error
            /\ tasks'[k].data = tasks[k].data
      /\ Exists(k) /\ (Unfinished(k) \/ new.status = "running") => tasks'[k] = new
  BY <1>1, <1>4, UpdateEffect
<1>6. TypeOK'
  BY <1>1, <1>2, <1>5 DEF TypeOK, WorkerPcs, Starting, Working, Generating, Delivering
<1>7. TouchesOnly(k)
  BY <1>1, <1>2, <1>5 DEF TouchesOnly, TypeOK
<1>8. worker'[k] = worker[k]
  BY <1>1, <1>2 DEF TypeOK
<1>9. KeyInv(k)' /\ (~EarlyStop => PromptInv(k)')
  BY <1>1, <1>2, <1>4, <1>5, <1>8
  DEF KeyInv, PromptInv, Busy, Exists, Unfinished, Terminal, Starting, Working, Generating,
      Delivering
<1> QED
  BY <1>1, <1>2, <1>6, <1>7, <1>9, OneTask

LEMMA DeliverKeeps ==
    ASSUME TasksInductive, NEW k \in Keys, Deliver(k)
    PROVE  TasksInductive'
<1>1. /\ TypeOK /\ KeyInv(k) /\ (~EarlyStop => PromptInv(k))
      /\ \A p \in Pollers : poller[p] # "idle" => polls[p] # NoKey
  BY DEF TasksInductive
<1>2. /\ worker' = [worker EXCEPT ![k] = "finally"]
      /\ UNCHANGED <<overdue, registered, cancelled, detached, poller, polls>>
      /\ worker[k] \in Delivering
  BY DEF Deliver, Goto, pollVars, Delivering
<1>3. PICK c \in BOOLEAN : \/ UpdateTask(k, Images(k, c))
                          \/ UpdateTask(k, Failure(k, "failed", c))
                          \/ UpdateTask(k, Failure(k, "timeout", c))
  BY DEF Deliver
<1>4. PICK new :
         /\ UpdateTask(k, new)
         /\ Exists(k) => /\ new \in Task
                         /\ new.status # "running"
                         /\ new.data <=> new.status = "success"
                         /\ new.status = "error" <=> new.error # "none"
  <2>1. Exists(k) => tasks[k] \in Task
    BY <1>1 DEF TypeOK, Exists
  <2>2. CASE UpdateTask(k, Images(k, c))
    BY <2>1, <2>2, NewTasks DEF Errors
  <2>3. CASE UpdateTask(k, Failure(k, "failed", c))
    BY <2>1, <2>3, NewTasks DEF Errors
  <2>4. CASE UpdateTask(k, Failure(k, "timeout", c))
    BY <2>1, <2>4, NewTasks DEF Errors
  <2> QED
    BY <1>3, <2>2, <2>3, <2>4
<1>5. /\ tasks' \in [Keys -> Task \cup {NoTask}]
      /\ stored' = tasks'
      /\ \A j \in Keys \ {k} : tasks'[j] = tasks[j]
      /\ ~Exists(k) => tasks'[k] = NoTask
      /\ Exists(k) => tasks'[k] # NoTask
      /\ Terminal(k) /\ new.status # "running" =>
            /\ tasks'[k].status = tasks[k].status
            /\ tasks'[k].error = tasks[k].error
            /\ tasks'[k].data = tasks[k].data
      /\ Exists(k) /\ (Unfinished(k) \/ new.status = "running") => tasks'[k] = new
  BY <1>1, <1>4, UpdateEffect
<1>6. TypeOK'
  BY <1>1, <1>2, <1>5 DEF TypeOK, WorkerPcs, Starting, Working, Generating, Delivering
<1>7. TouchesOnly(k)
  BY <1>1, <1>2, <1>5 DEF TouchesOnly, TypeOK
<1>8. worker'[k] = "finally"
  BY <1>1, <1>2 DEF TypeOK
<1>9. KeyInv(k)' /\ (~EarlyStop => PromptInv(k)')
  BY <1>1, <1>2, <1>4, <1>5, <1>8
  DEF KeyInv, PromptInv, Busy, Exists, Unfinished, Terminal, Starting, Working, Generating,
      Delivering
<1> QED
  BY <1>1, <1>2, <1>6, <1>7, <1>9, OneTask

LEMMA StopKeeps ==
    ASSUME TasksInductive, NEW k \in Keys, Stop(k)
    PROVE  TasksInductive'
<1>1. /\ TypeOK /\ KeyInv(k) /\ (~EarlyStop => PromptInv(k))
      /\ \A p \in Pollers : poller[p] # "idle" => polls[p] # NoKey
  BY DEF TasksInductive
<1> DEFINE stopped == [tasks[k] EXCEPT !.status = "error", !.error = "stopped"]
<1>2. /\ Unfinished(k) /\ (worker[k] \in Starting => EarlyStop)
      /\ cancelled' = [cancelled EXCEPT ![k] = registered[k]]
      /\ tasks' = [tasks EXCEPT ![k] = stopped]
      /\ stored' = tasks'
      /\ UNCHANGED <<overdue, worker, registered, detached, poller, polls>>
  BY DEF Stop, Save, pollVars
<1>3. /\ stopped \in Task /\ stopped.status = "error" /\ stopped.error = "stopped"
      /\ stopped.data = tasks[k].data
  <2>1. tasks[k] \in Task
    BY <1>1, <1>2 DEF TypeOK, Unfinished, Exists
  <2> QED
    BY <2>1 DEF Task, Statuses, Errors
<1> HIDE DEF stopped
<1>4. TypeOK'
  BY <1>1, <1>2, <1>3 DEF TypeOK
<1>5. TouchesOnly(k)
  BY <1>1, <1>2 DEF TouchesOnly, TypeOK
<1>6. tasks'[k] = stopped /\ tasks'[k] # NoTask /\ cancelled'[k] = registered[k]
  BY <1>1, <1>2, <1>3, TasksAssumption DEF TypeOK
<1>7. KeyInv(k)' /\ (~EarlyStop => PromptInv(k)')
  BY <1>1, <1>2, <1>3, <1>6
  DEF KeyInv, PromptInv, Busy, Exists, Unfinished, Terminal, Starting, Working, Generating,
      Delivering
<1> QED
  BY <1>1, <1>2, <1>4, <1>5, <1>7, OneTask

LEMMA SubmitKeeps ==
    ASSUME TasksInductive, NEW k \in Keys, Submit(k)
    PROVE  TasksInductive'
<1>1. /\ TypeOK /\ KeyInv(k) /\ (~EarlyStop => PromptInv(k))
      /\ \A p \in Pollers : poller[p] # "idle" => polls[p] # NoKey
  BY DEF TasksInductive
<1>2. PICK old \in SUBSET Retired :
         /\ ~Exists(k) /\ worker[k] = "none"
         /\ tasks' = [Forget(old) EXCEPT ![k] = Fresh]
         /\ stored' = tasks'
         /\ overdue' = [overdue EXCEPT ![k] = FALSE]
         /\ worker' = [worker EXCEPT ![k] = "created"]
         /\ UNCHANGED <<registered, cancelled, detached, poller, polls>>
  BY DEF Submit, Save, Goto, pollVars
<1>3. old \in SUBSET Keys
  BY <1>2 DEF Retired
<1>4. /\ Fresh \in Task /\ Fresh # NoTask /\ Fresh.status = "running"
      /\ Fresh.error = "none" /\ ~Fresh.data
  <2>1. Fresh \in Task
    BY DEF Fresh, Task, Statuses, Errors
  <2>2. Fresh # NoTask
    BY <2>1, TasksAssumption
  <2>3. Fresh.status = "running" /\ Fresh.error = "none" /\ ~Fresh.data
    BY DEF Fresh
  <2> QED
    BY <2>1, <2>2, <2>3
<1>5. /\ tasks' \in [Keys -> Task \cup {NoTask}]
      /\ tasks'[k] = Fresh
      /\ \A j \in Keys \ {k} : tasks'[j] = IF j \in old THEN NoTask ELSE tasks[j]
  BY <1>1, <1>2, <1>3, <1>4, ForgetEffect
<1>6. TypeOK'
  BY <1>1, <1>2, <1>5 DEF TypeOK, WorkerPcs, Starting
<1>7. worker'[k] = "created" /\ ~overdue'[k]
  BY <1>1, <1>2 DEF TypeOK
<1>8. KeyInv(k)' /\ (~EarlyStop => PromptInv(k)')
  BY <1>1, <1>2, <1>4, <1>5, <1>7
  DEF KeyInv, PromptInv, Busy, Exists, Unfinished, Terminal, Starting, Working, Generating,
      Delivering
<1>9. ASSUME NEW j \in Keys, j # k PROVE KeyInv(j)' /\ (~EarlyStop => PromptInv(j)')
  <2>1. KeyInv(j) /\ (~EarlyStop => PromptInv(j)) /\ stored[j] = tasks[j]
    BY DEF TasksInductive, KeyInv
  <2>2. /\ worker'[j] = worker[j] /\ overdue'[j] = overdue[j]
        /\ registered'[j] = registered[j] /\ cancelled'[j] = cancelled[j]
        /\ polls' = polls /\ stored'[j] = tasks'[j]
    BY <1>1, <1>2, <1>9 DEF TypeOK
  <2>3. CASE j \in old
    BY <1>1, <1>2, <1>5, <1>9, <2>1, <2>2, <2>3, Forgotten
  <2>4. CASE j \notin old
    BY <1>5, <1>9, <2>1, <2>2, <2>4, Untouched
  <2> QED
    BY <2>3, <2>4
<1> QED
  BY <1>1, <1>2, <1>6, <1>8, <1>9 DEF TasksInductive

\* An action that only forgets.
LEMMA ForgettingKeeps ==
    ASSUME TasksInductive, NEW old \in SUBSET Retired, tasks' = Forget(old),
           stored' = tasks',
           UNCHANGED <<overdue, worker, registered, cancelled, detached, poller, polls>>
    PROVE  TasksInductive'
<1>1. TypeOK /\ old \in SUBSET Keys
  BY DEF TasksInductive, Retired
<1>2. TypeOK'
  BY <1>1, ForgetEffect DEF TypeOK
<1>3. ASSUME NEW j \in Keys PROVE KeyInv(j)' /\ (~EarlyStop => PromptInv(j)')
  <2>1. KeyInv(j) /\ (~EarlyStop => PromptInv(j)) /\ stored[j] = tasks[j]
    BY DEF TasksInductive, KeyInv
  <2>2. CASE j \in old
    <3>1. tasks'[j] = NoTask /\ stored'[j] = NoTask
      BY <1>1, <2>2, ForgetEffect
    <3> QED
      BY <1>1, <2>1, <2>2, <3>1, Forgotten
  <2>3. CASE j \notin old
    <3>1. tasks'[j] = tasks[j] /\ stored'[j] = stored[j]
      BY <1>1, <2>1, <2>3, ForgetEffect
    <3> QED
      BY <2>1, <3>1, Untouched
  <2> QED
    BY <2>2, <2>3
<1> QED
  BY <1>2, <1>3 DEF TasksInductive

LEMMA SubmitAgainKeeps ==
    ASSUME TasksInductive, NEW k \in Keys, SubmitAgain(k)
    PROVE  TasksInductive'
<1>1. PICK old \in SUBSET (Retired \ {k}) :
         /\ tasks' = Forget(old) /\ stored' = tasks'
         /\ UNCHANGED <<overdue, worker, registered, cancelled, detached, poller, polls>>
  BY DEF SubmitAgain, Save, threadVars, pollVars
<1> QED
  BY <1>1, ForgettingKeeps

LEMMA ListKeeps ==
    ASSUME TasksInductive, List
    PROVE  TasksInductive'
<1> DEFINE expired(k) == [tasks[k] EXCEPT !.status = "error", !.error = "timeout"]
<1>1. TypeOK
  BY DEF TasksInductive
<1>2. PICK old \in SUBSET Retired :
         /\ tasks' = [k \in Keys |-> IF Expires(k) THEN expired(k) ELSE Forget(old)[k]]
         /\ stored' = tasks'
         /\ UNCHANGED <<overdue, worker, registered, cancelled, detached, poller, polls>>
  BY DEF List, Save, threadVars, pollVars
<1>3. old \in SUBSET Keys
  BY DEF Retired
<1>4. ASSUME NEW k \in Keys, Expires(k)
      PROVE  /\ expired(k) \in Task /\ expired(k) # NoTask
             /\ expired(k).status = "error" /\ expired(k).error = "timeout"
             /\ expired(k).data = tasks[k].data
  <2>1. tasks[k] \in Task
    BY <1>1, <1>4 DEF Expires, Unfinished, Exists, TypeOK
  <2>2. expired(k) \in Task
    BY <2>1 DEF Task, Statuses, Errors
  <2>3. /\ expired(k).status = "error" /\ expired(k).error = "timeout"
        /\ expired(k).data = tasks[k].data
    BY <2>1 DEF Task
  <2> QED
    BY <2>2, <2>3, TasksAssumption
<1> HIDE DEF expired
<1>5. /\ tasks' \in [Keys -> Task \cup {NoTask}]
      /\ \A k \in Keys : tasks'[k] = IF Expires(k) THEN expired(k) ELSE Forget(old)[k]
  BY <1>1, <1>2, <1>3, <1>4, ForgetEffect
<1>6. TypeOK'
  BY <1>1, <1>2, <1>5 DEF TypeOK
<1>7. ASSUME NEW k \in Keys PROVE KeyInv(k)' /\ (~EarlyStop => PromptInv(k)')
  <2>1. KeyInv(k) /\ (~EarlyStop => PromptInv(k)) /\ stored[k] = tasks[k]
    BY DEF TasksInductive, KeyInv
  <2>2. CASE Expires(k)
    <3>1. tasks'[k] = expired(k) /\ stored'[k] = tasks'[k]
      BY <1>2, <1>5, <2>2
    <3>2. worker[k] \notin Starting \cup Working /\ ~cancelled[k]
      BY <2>1, <2>2 DEF Expires, LiveWorker, KeyInv, PromptInv, Unfinished, Terminal,
                        Exists, Starting, Working, Generating, Delivering
    <3> QED
      BY <1>2, <1>4, <2>1, <2>2, <3>1, <3>2
      DEF KeyInv, PromptInv, Busy, Exists, Unfinished, Terminal, Expires, Starting,
          Working, Generating, Delivering
  <2>3. CASE ~Expires(k) /\ k \in old
    <3>1. tasks'[k] = NoTask /\ stored'[k] = NoTask
      BY <1>1, <1>2, <1>3, <1>5, <2>3, ForgetEffect
    <3> QED
      BY <1>1, <1>2, <2>1, <2>3, <3>1, Forgotten
  <2>4. CASE ~Expires(k) /\ k \notin old
    <3>1. tasks'[k] = tasks[k] /\ stored'[k] = stored[k]
      BY <1>1, <1>2, <1>3, <1>5, <2>1, <2>4, ForgetEffect
    <3> QED
      BY <1>2, <2>1, <3>1, Untouched
  <2> QED
    BY <2>2, <2>3, <2>4
<1>8. \A p \in Pollers : poller'[p] # "idle" => polls'[p] # NoKey
  BY <1>2 DEF TasksInductive
<1> QED
  BY <1>6, <1>7, <1>8 DEF TasksInductive

LEMMA ResumeKeeps ==
    ASSUME TasksInductive, NEW k \in Keys, Resume(k)
    PROVE  TasksInductive'
<1>1. /\ TypeOK /\ KeyInv(k) /\ (~EarlyStop => PromptInv(k))
      /\ \A p \in Pollers : poller[p] # "idle" => polls[p] # NoKey
  BY DEF TasksInductive
<1>2. /\ Terminal(k) /\ tasks[k].error = "timeout"
      /\ UNCHANGED <<overdue, worker, registered, cancelled, detached>>
      /\ \/ \E p \in Pollers : /\ poller' = [poller EXCEPT ![p] = "polling"]
                               /\ polls' = [polls EXCEPT ![p] = k]
         \/ UNCHANGED <<poller, polls>>
  BY DEF Resume, threadVars, pollVars
<1>3. tasks[k] \in Task
  BY <1>1, <1>2 DEF TypeOK, Exists, Terminal
<1>4. PICK new : /\ UpdateTask(k, new)
                 /\ new \in Task /\ new.status = "running"
                 /\ new.error = "none" /\ new.data = tasks[k].data
  <2>1. UpdateTask(k, Continued(k))
    BY DEF Resume
  <2>2. TRUE \in BOOLEAN /\ "none" \in Errors
    BY DEF Errors
  <2>3. /\ Continued(k) \in Task /\ Continued(k).status = "running"
        /\ Continued(k).error = "none" /\ Continued(k).data = tasks[k].data
    BY <1>3, <2>2, NewTasks
  <2> QED
    BY <2>1, <2>3
<1>5. /\ tasks' \in [Keys -> Task \cup {NoTask}]
      /\ stored' = tasks'
      /\ \A j \in Keys \ {k} : tasks'[j] = tasks[j]
      /\ ~Exists(k) => tasks'[k] = NoTask
      /\ Exists(k) => tasks'[k] # NoTask
      /\ Terminal(k) /\ new.status # "running" =>
            /\ tasks'[k].status = tasks[k].status
            /\ tasks'[k].error = tasks[k].error
            /\ tasks'[k].data = tasks[k].data
      /\ Exists(k) /\ (Unfinished(k) \/ new.status = "running") => tasks'[k] = new
  BY <1>1, <1>4, UpdateEffect
<1>6. /\ poller' \in [Pollers -> PollerPcs]
      /\ polls' \in [Pollers -> Keys \cup {NoKey}]
      /\ \A p \in Pollers : poller'[p] # "idle" => polls'[p] # NoKey
      /\ \A p \in Pollers : polls'[p] = polls[p] \/ polls'[p] = k
  <2>1. CASE UNCHANGED <<poller, polls>>
    BY <1>1, <2>1 DEF TypeOK
  <2>2. CASE \E p \in Pollers : /\ poller' = [poller EXCEPT ![p] = "polling"]
                               /\ polls' = [polls EXCEPT ![p] = k]
    BY <1>1, <2>2, TasksAssumption DEF TypeOK, PollerPcs
  <2> QED
    BY <1>2, <2>1, <2>2
<1>7. TypeOK'
  BY <1>1, <1>2, <1>5, <1>6 DEF TypeOK
<1>8. TouchesOnly(k)
  BY <1>1, <1>2, <1>5, <1>6 DEF TouchesOnly, TypeOK
<1>9. KeyInv(k)' /\ (~EarlyStop => PromptInv(k)')
  BY <1>1, <1>2, <1>4, <1>5, <1>6
  DEF KeyInv, PromptInv, Busy, Exists, Unfinished, Terminal, Starting, Working, Generating,
      Delivering
<1> QED
  BY <1>6, <1>7, <1>8, <1>9, OneTask

LEMMA PollFindsKeeps ==
    ASSUME TasksInductive, NEW p \in Pollers, PollFinds(p)
    PROVE  TasksInductive'
<1>1. /\ TypeOK /\ \A q \in Pollers : poller[q] # "idle" => polls[q] # NoKey
      /\ poller[p] = "polling" /\ poller' = [poller EXCEPT ![p] = "found"]
      /\ UNCHANGED <<tasks, stored, overdue, worker, registered, cancelled, detached, polls>>
  BY DEF PollFinds, TasksInductive, threadVars
<1>2. TypeOK' /\ \A q \in Pollers : poller'[q] # "idle" => polls'[q] # NoKey
  BY <1>1 DEF TypeOK, PollerPcs
<1>3. ASSUME NEW k \in Keys PROVE KeyInv(k)' /\ (~EarlyStop => PromptInv(k)')
  BY <1>1, Untouched DEF TasksInductive
<1> QED
  BY <1>2, <1>3 DEF TasksInductive

\* A poller that ends writes a result to its task and leaves it.
LEMMA PollEndKeeps ==
    ASSUME TasksInductive, NEW p \in Pollers, NEW k \in Keys, polls[p] = k, NEW new,
           UpdateTask(k, new), PollOver(p),
           UNCHANGED <<overdue, worker, registered, cancelled, detached>>,
           Exists(k) => /\ new \in Task /\ new.status # "running"
                        /\ new.data <=> new.status = "success"
                        /\ new.status = "error" <=> new.error # "none"
    PROVE  TasksInductive'
<1>1. /\ TypeOK /\ KeyInv(k) /\ (~EarlyStop => PromptInv(k))
      /\ \A q \in Pollers : poller[q] # "idle" => polls[q] # NoKey
  BY DEF TasksInductive
<1>2. /\ poller' = [poller EXCEPT ![p] = "idle"]
      /\ polls' = [polls EXCEPT ![p] = NoKey]
  BY DEF PollOver
<1>3. /\ poller' \in [Pollers -> PollerPcs]
      /\ polls' \in [Pollers -> Keys \cup {NoKey}]
      /\ \A q \in Pollers : poller'[q] # "idle" => polls'[q] # NoKey
      /\ \A q \in Pollers : polls'[q] = polls[q] \/ polls'[q] = NoKey
  BY <1>1, <1>2 DEF TypeOK, PollerPcs
<1>4. ~Busy(k)
  BY <1>1 DEF KeyInv
<1>5. /\ tasks' \in [Keys -> Task \cup {NoTask}]
      /\ stored' = tasks'
      /\ \A j \in Keys \ {k} : tasks'[j] = tasks[j]
      /\ ~Exists(k) => tasks'[k] = NoTask
      /\ Exists(k) => tasks'[k] # NoTask
      /\ Terminal(k) /\ new.status # "running" =>
            /\ tasks'[k].status = tasks[k].status
            /\ tasks'[k].error = tasks[k].error
            /\ tasks'[k].data = tasks[k].data
      /\ Exists(k) /\ (Unfinished(k) \/ new.status = "running") => tasks'[k] = new
  BY <1>1, UpdateEffect
<1>6. TypeOK'
  BY <1>1, <1>3, <1>5 DEF TypeOK
<1>7. TouchesOnly(k)
  BY <1>1, <1>3, <1>5, TasksAssumption DEF TouchesOnly, TypeOK
<1>8. KeyInv(k)' /\ (~EarlyStop => PromptInv(k)')
  BY <1>1, <1>3, <1>4, <1>5, TasksAssumption
  DEF KeyInv, PromptInv, Busy, Exists, Unfinished, Terminal, Starting, Working, Generating,
      Delivering
<1> QED
  BY <1>3, <1>6, <1>7, <1>8, OneTask

LEMMA PollDeliversKeeps ==
    ASSUME TasksInductive, NEW p \in Pollers, PollDelivers(p)
    PROVE  TasksInductive'
<1>1. polls[p] \in Keys
  BY DEF TasksInductive, TypeOK, PollDelivers
<1>2. /\ UpdateTask(polls[p], Images(polls[p], FALSE))
      /\ PollOver(p)
      /\ UNCHANGED <<overdue, worker, registered, cancelled, detached>>
  BY DEF PollDelivers, threadVars
<1>3. Exists(polls[p]) => tasks[polls[p]] \in Task
  BY <1>1 DEF TasksInductive, TypeOK, Exists
<1>4. PICK new : /\ UpdateTask(polls[p], new)
                 /\ Exists(polls[p]) => /\ new \in Task
                                        /\ new.status = "success"
                                        /\ new.error = "none"
                                        /\ new.data
  BY <1>1, <1>2, <1>3, NewTasks DEF Errors
<1> QED
  BY <1>1, <1>2, <1>4, PollEndKeeps

LEMMA PollFailsKeeps ==
    ASSUME TasksInductive, NEW p \in Pollers, PollFails(p)
    PROVE  TasksInductive'
<1>1. polls[p] \in Keys
  BY DEF TasksInductive, TypeOK, PollFails
<1>2. PICK e \in {"failed", "timeout"} :
         UpdateTask(polls[p], Failure(polls[p], e, FALSE))
  BY DEF PollFails
<1>3. PollOver(p) /\ UNCHANGED <<overdue, worker, registered, cancelled, detached>>
  BY DEF PollFails, threadVars
<1>4. Exists(polls[p]) => tasks[polls[p]] \in Task
  BY <1>1 DEF TasksInductive, TypeOK, Exists
<1>5. e \in Errors
  BY <1>2 DEF Errors
<1>6. PICK new : new = Failure(polls[p], e, FALSE)
  OBVIOUS
<1>7. Exists(polls[p]) => /\ new \in Task
                          /\ new.status = "error"
                          /\ new.error = e
                          /\ ~new.data
  BY <1>1, <1>4, <1>5, <1>6, NewTasks
<1>8. e # "none"
  BY <1>2
<1> QED
  BY <1>1, <1>2, <1>3, <1>6, <1>7, <1>8, PollEndKeeps

\* What a restart reads back has ended, without images unless it succeeded.
LEMMA RecoveredTask ==
    ASSUME TypeOK, NEW k \in Keys, KeyInv(k)
    PROVE  /\ Recovered(stored[k]) \in Task \cup {NoTask}
           /\ Recovered(stored[k]) = NoTask <=> tasks[k] = NoTask
           /\ Exists(k) => /\ Recovered(stored[k]).data = tasks[k].data
                           /\ Recovered(stored[k]).status # "running"
           /\ Unfinished(k) => /\ Recovered(stored[k]).status = "error"
                               /\ Recovered(stored[k]).error = "restarted"
           /\ ~Unfinished(k) => Recovered(stored[k]) = tasks[k]
<1> DEFINE dead == [tasks[k] EXCEPT !.status = "error", !.error = "restarted"]
<1>1. stored[k] = tasks[k]
  BY DEF KeyInv
<1>2. CASE Unfinished(k)
  <2>1. tasks[k] \in Task
    BY <1>2 DEF Unfinished, Exists, TypeOK
  <2>2. Recovered(stored[k]) = dead
    BY <1>1, <1>2 DEF Recovered, Unfinished, Exists
  <2>3. dead \in Task
    BY <2>1 DEF Task, Statuses, Errors
  <2>4. dead.data = tasks[k].data /\ dead.status = "error" /\ dead.error = "restarted"
    BY <2>1 DEF Task
  <2>5. dead # NoTask
    BY <2>3, TasksAssumption
  <2> HIDE DEF dead
  <2> QED
    BY <1>2, <2>2, <2>3, <2>4, <2>5 DEF Unfinished, Exists
<1>3. CASE ~Unfinished(k)
  <2>1. Recovered(stored[k]) = tasks[k]
    BY <1>1, <1>3 DEF Recovered, Unfinished, Exists
  <2> QED
    BY <1>3, <2>1 DEF TypeOK, Unfinished, Exists
<1> QED
  BY <1>2, <1>3

LEMMA RestartKeeps ==
    ASSUME TasksInductive, Restart
    PROVE  TasksInductive'
<1>1. TypeOK
  BY DEF TasksInductive
<1>2. PICK old \in SUBSET Keys :
         /\ tasks' = [k \in Keys |-> IF k \in old THEN NoTask ELSE Recovered(stored[k])]
         /\ stored' = tasks'
  BY DEF Restart, Save
<1>3. /\ worker' = [k \in Keys |-> "none"]
      /\ registered' = [k \in Keys |-> FALSE]
      /\ cancelled' = [k \in Keys |-> FALSE]
      /\ poller' = [p \in Pollers |-> "idle"]
      /\ polls' = [p \in Pollers |-> NoKey]
      /\ overdue' = overdue
      /\ detached' = [k \in Keys |-> FALSE]
  BY DEF Restart
<1>4. tasks' \in [Keys -> Task \cup {NoTask}]
  BY <1>1, <1>2, RecoveredTask DEF TasksInductive
<1>5. TypeOK' /\ \A p \in Pollers : poller'[p] # "idle" => polls'[p] # NoKey
  BY <1>1, <1>2, <1>3, <1>4 DEF TypeOK, WorkerPcs, PollerPcs
<1>6. ASSUME NEW k \in Keys PROVE KeyInv(k)' /\ (~EarlyStop => PromptInv(k)')
  <2>1. KeyInv(k)
    BY DEF TasksInductive
  <2>2. tasks'[k] = (IF k \in old THEN NoTask ELSE Recovered(stored[k]))
        /\ stored'[k] = tasks'[k]
    BY <1>2
  <2>3. /\ worker'[k] = "none" /\ ~registered'[k] /\ ~cancelled'[k]
        /\ \A p \in Pollers : polls'[p] # k
    BY <1>3, TasksAssumption
  <2>4. tasks'[k] # NoTask => /\ tasks'[k].data <=> tasks'[k].status = "success"
                              /\ tasks'[k].status = "error" <=> tasks'[k].error # "none"
    BY <1>1, <2>1, <2>2, RecoveredTask DEF KeyInv, Exists, Unfinished
  <2> QED
    BY <1>5, <2>2, <2>3, <2>4
    DEF TypeOK, KeyInv, PromptInv, Busy, Exists, Starting, Working, Generating, Delivering
<1> QED
  BY <1>5, <1>6 DEF TasksInductive
-----------------------------------------------------------------------------
(***************************************************************************)
(* The invariants                                                          *)
(***************************************************************************)
LEMMA NextKeeps ==
    ASSUME TasksInductive, [Next]_vars
    PROVE  TasksInductive'
<1>1. ASSUME NEW k \in Keys, WorkerStep(k) PROVE TasksInductive'
  BY <1>1, RegisterKeeps, StartKeeps, StartRaisesKeeps, StartFailedKeeps, BeginKeeps,
     CheckKeeps, HandlerEndsKeeps, DeliverKeeps, FinallyKeeps DEF WorkerStep
<1>2. ASSUME NEW k \in Keys, Client(k) PROVE TasksInductive'
  BY <1>2, SubmitKeeps, SubmitAgainKeeps, StopKeeps, ResumeKeeps DEF Client
<1>3. ASSUME NEW k \in Keys, Progress(k) \/ ResolveStarts(k) \/ CopiesEnd(k) \/ Tick(k)
      PROVE  TasksInductive'
  BY <1>3, ProgressKeeps, ResolveStartsKeeps, CopiesEndKeeps, TickKeeps
<1>4. ASSUME NEW p \in Pollers, PollerStep(p) PROVE TasksInductive'
  BY <1>4, PollFindsKeeps, PollDeliversKeeps, PollFailsKeeps DEF PollerStep
<1>5. CASE UNCHANGED vars
  <2>1. /\ TypeOK' /\ UNCHANGED <<tasks, stored, overdue, worker>>
        /\ UNCHANGED <<registered, cancelled, detached, poller, polls>>
    BY <1>5 DEF vars, TypeOK, TasksInductive
  <2>2. ASSUME NEW k \in Keys PROVE KeyInv(k)' /\ (~EarlyStop => PromptInv(k)')
    BY <2>1, Untouched DEF TasksInductive
  <2> QED
    BY <2>1, <2>2 DEF TasksInductive
<1> QED
  BY <1>1, <1>2, <1>3, <1>4, <1>5, ListKeeps, RestartKeeps DEF Next

LEMMA InitHolds == Init => TasksInductive
<1> SUFFICES ASSUME Init PROVE TasksInductive
  OBVIOUS
<1>1. TypeOK
  BY DEF Init, TypeOK, WorkerPcs, PollerPcs
<1>2. ASSUME NEW k \in Keys PROVE KeyInv(k) /\ (~EarlyStop => PromptInv(k))
  <2>1. /\ tasks[k] = NoTask /\ stored[k] = NoTask /\ worker[k] = "none"
        /\ ~registered[k] /\ ~cancelled[k] /\ \A p \in Pollers : polls[p] # k
    BY TasksAssumption DEF Init
  <2> QED
    BY <1>1, <2>1 DEF TypeOK, KeyInv, PromptInv, Busy, Exists, Unfinished, Starting,
                      Working, Generating, Delivering
<1> QED
  BY <1>1, <1>2 DEF Init, TasksInductive

\* What is true of every task, its worker and its pollers in every state: the
\* invariant the theorems below follow from.  image_task_service.py.
THEOREM TasksInvariant == Spec => []TasksInductive
  BY InitHolds, NextKeeps, PTL DEF Spec

\* Every state has its type.
THEOREM TaskTypes == Spec => []TypeOK
<1>1. TasksInductive => TypeOK
  BY DEF TasksInductive
<1> QED
  BY <1>1, TasksInvariant, PTL

\* A task is shown with images exactly when it succeeded, however workers, polling
\* threads, stops and restarts interleave.  _update_task, _run_task.
THEOREM ImagesOnlyOfSuccess == Spec => []ImagesIffSuccess
<1>1. TasksInductive => ImagesIffSuccess
  BY DEF TasksInductive, KeyInv, ImagesIffSuccess
<1> QED
  BY <1>1, TasksInvariant, PTL

\* A task nobody stopped is shown as running as long as its worker generates.
\* _expire_overdue_locked, _run_task.
THEOREM WorkersOwnTheirTasks == Spec => []WorkerOwnsTask
<1>1. TasksInductive => WorkerOwnsTask
  BY DEF TasksInductive, KeyInv, WorkerOwnsTask
<1> QED
  BY <1>1, TasksInvariant, PTL

\* _workers holds no thread that is over.  _run_task, _submit.
THEOREM RegisteredAreAlive == Spec => []RegisteredIsAlive
<1>1. TasksInductive => RegisteredIsAlive
  BY DEF TasksInductive, KeyInv, RegisteredIsAlive, LiveWorker, Working, Generating, Delivering
<1> QED
  BY <1>1, TasksInvariant, PTL

\* Only a delivery ends a worker that has images.
LEMMA DeliveryIsDeliver ==
    ASSUME TypeOK, [Next]_vars, NEW k \in Keys,
           worker[k] = "deliverImages", worker'[k] = "finally"
    PROVE  Deliver(k)
<1>1. worker \in [Keys -> WorkerPcs]
  BY DEF TypeOK
<1>2. ASSUME NEW j \in Keys, WorkerStep(j) PROVE Deliver(k)
  <2>1. CASE j = k
    BY <1>2, <2>1 DEF WorkerStep, Register, Start, StartRaises, StartFailed, Begin,
                      Check, HandlerEnds, Finally
  <2>2. CASE j # k
    BY <1>1, <1>2, <2>2 DEF WorkerStep, Register, Start, StartRaises, StartFailed,
                            Begin, Check, HandlerEnds, Deliver, Finally, Goto
  <2> QED
    BY <2>1, <2>2
<1>3. ASSUME NEW j \in Keys, Client(j) PROVE Deliver(k)
  BY <1>1, <1>3 DEF Client, Submit, SubmitAgain, Stop, Resume, Goto, threadVars
<1>4. ASSUME NEW j \in Keys, Progress(j) \/ ResolveStarts(j) \/ CopiesEnd(j) \/ Tick(j)
      PROVE  Deliver(k)
  BY <1>4 DEF Progress, ResolveStarts, CopiesEnd, Tick, threadVars
<1>5. ASSUME NEW p \in Pollers, PollerStep(p) PROVE Deliver(k)
  BY <1>5 DEF PollerStep, PollFinds, PollDelivers, PollFails, threadVars
<1>6. CASE List \/ UNCHANGED vars
  BY <1>6 DEF List, threadVars, vars
<1>7. CASE Restart
  BY <1>7 DEF Restart
<1> QED
  BY <1>2, <1>3, <1>4, <1>5, <1>6, <1>7 DEF Next

\* The images of a worker are shown unless its user stopped the task: the task was
\* running when they arrived.  _run_task, _update_task.
THEOREM ImagesAreShown == Spec => WorkersImagesAreShown
<1> DEFINE Shown(k) == /\ worker[k] = "deliverImages" /\ worker'[k] = "finally"
                       /\ tasks[k].error # "stopped"
                       => tasks'[k].status = "success"
<1>1. ASSUME TasksInductive, [Next]_vars, NEW k \in Keys PROVE Shown(k)
  <2> SUFFICES ASSUME worker[k] = "deliverImages", worker'[k] = "finally",
                      tasks[k].error # "stopped"
               PROVE  tasks'[k].status = "success"
    OBVIOUS
  <2>1. TypeOK /\ KeyInv(k) /\ Deliver(k)
    BY <1>1, DeliveryIsDeliver DEF TasksInductive
  <2>2. tasks[k] \in Task /\ Exists(k) /\ Unfinished(k)
    BY <2>1 DEF TypeOK, KeyInv, Busy, Exists, Unfinished, Working, Generating, Delivering, Task,
                Statuses
  <2>3. PICK c \in BOOLEAN : UpdateTask(k, Images(k, c))
    BY <2>1 DEF Deliver
  <2>4. "none" \in Errors
    BY DEF Errors
  <2>5. Images(k, c) \in Task /\ Images(k, c).status = "success"
    BY <2>2, <2>4, NewTasks
  <2>6. tasks'[k] = Images(k, c)
    BY <2>1, <2>2, <2>3, <2>5, UpdateEffect
  <2> QED
    BY <2>5, <2>6
<1>2. TasksInductive /\ [Next]_vars => [\A k \in Keys : Shown(k)]_vars
  BY <1>1
<1> QED
  BY <1>2, TasksInvariant, PTL DEF Spec, WorkersImagesAreShown
-----------------------------------------------------------------------------
(***************************************************************************)
(* The tasks keep the promise of TaskLifecycle, unless a stop arrives      *)
(* before the worker has begun.                                            *)
(***************************************************************************)

\* What a step may do to a task.
Moved(k) ==
    \/ tasks'[k] = tasks[k]
    \/ ~Exists(k) /\ Unfinished(k)'
    \/ Terminal(k) /\ ~Exists(k)'
    \/ Unfinished(k) /\ Exists(k)'
    \/ Terminal(k) /\ tasks[k].error = "timeout" /\ Unfinished(k)'
    \/ Terminal(k) /\ Exists(k)' /\ tasks'[k].status = tasks[k].status
                  /\ tasks'[k].error = tasks[k].error

\* How the phase of a task follows from the task.
PhaseMeans(k) ==
    /\ ~Exists(k) <=> Phase(k) = "none"
    /\ Unfinished(k) <=> Phase(k) = "running"
    /\ Terminal(k) => Phase(k) \in Promise!Ended
    /\ Terminal(k) /\ tasks[k].error = "timeout" => Phase(k) = "timeout"
    /\ Phase(k) \in Promise!Phases

LEMMA PhaseOf == TasksInductive => \A k \in Keys : PhaseMeans(k)
<1> SUFFICES ASSUME TasksInductive, NEW k \in Keys PROVE PhaseMeans(k)
  OBVIOUS
<1>1. /\ tasks[k] \in Task \cup {NoTask}
      /\ Exists(k) => (tasks[k].status = "error" <=> tasks[k].error # "none")
  BY DEF TasksInductive, TypeOK, KeyInv
<1>2. Exists(k) => tasks[k].status \in Statuses /\ tasks[k].error \in Errors
  BY <1>1 DEF Exists, Task
<1> QED
  BY <1>1, <1>2 DEF PhaseMeans, Phase, Exists, Unfinished, Terminal, Statuses, Errors,
                    Promise!Ended, Promise!Phases

LEMMA MovedIsMove ==
    ASSUME NEW k \in Keys, PhaseMeans(k), PhaseMeans(k)', Moved(k),
           Phase(k)' # Phase(k)
    PROVE  <<Phase(k), Phase(k)'>> \in Promise!Moves
<1>1. /\ ~Exists(k) <=> Phase(k) = "none"
      /\ Unfinished(k) <=> Phase(k) = "running"
      /\ Terminal(k) => Phase(k) \in Promise!Ended
      /\ Terminal(k) /\ tasks[k].error = "timeout" => Phase(k) = "timeout"
  BY DEF PhaseMeans
<1>2. /\ (~Exists(k))' <=> Phase(k)' = "none"
      /\ Unfinished(k)' <=> Phase(k)' = "running"
      /\ Terminal(k)' => Phase(k)' \in Promise!Ended
  BY DEF PhaseMeans
<1>3. CASE tasks'[k] = tasks[k]
  BY <1>3 DEF Phase, Exists
<1>4. CASE ~Exists(k) /\ Unfinished(k)'
  BY <1>1, <1>2, <1>4 DEF Promise!Moves
<1>5. CASE Terminal(k) /\ ~Exists(k)'
  BY <1>1, <1>2, <1>5 DEF Promise!Moves
<1>6. CASE Unfinished(k) /\ Exists(k)'
  <2>1. Terminal(k)'
    BY <1>1, <1>2, <1>6 DEF Terminal, Unfinished
  <2> QED
    BY <1>1, <1>2, <1>6, <2>1 DEF Promise!Moves
<1>7. CASE Terminal(k) /\ tasks[k].error = "timeout" /\ Unfinished(k)'
  BY <1>1, <1>2, <1>7 DEF Promise!Moves
<1>8. CASE /\ Terminal(k) /\ Exists(k)' /\ tasks'[k].status = tasks[k].status
           /\ tasks'[k].error = tasks[k].error
  BY <1>8 DEF Phase, Terminal, Exists
<1> QED
  BY <1>3, <1>4, <1>5, <1>6, <1>7, <1>8 DEF Moved

\* An update makes a task run again only if it ran or timed out.
LEMMA UpdateMoves ==
    ASSUME TasksInductive, NEW k \in Keys, NEW new, UpdateTask(k, new),
           Exists(k) => new \in Task,
           Exists(k) /\ new.status = "running" =>
               Unfinished(k) \/ (Terminal(k) /\ tasks[k].error = "timeout")
    PROVE  \A j \in Keys : Moved(j)
<1>1. TypeOK
  BY DEF TasksInductive
<1>2. /\ \A j \in Keys \ {k} : tasks'[j] = tasks[j]
      /\ ~Exists(k) => tasks'[k] = NoTask
      /\ Exists(k) => tasks'[k] # NoTask
      /\ Terminal(k) /\ new.status # "running" =>
            /\ tasks'[k].status = tasks[k].status
            /\ tasks'[k].error = tasks[k].error
      /\ Exists(k) /\ (Unfinished(k) \/ new.status = "running") => tasks'[k] = new
  BY <1>1, UpdateEffect
<1>3. Moved(k)
  BY <1>2 DEF Moved, Exists, Unfinished, Terminal
<1> QED
  BY <1>2, <1>3 DEF Moved

LEMMA StepMoves ==
    ASSUME ~EarlyStop, TasksInductive, [Next]_vars, NEW j \in Keys
    PROVE  Moved(j)
<1>1. TypeOK /\ (\A k \in Keys : KeyInv(k) /\ PromptInv(k)) /\ TRUE \in BOOLEAN
  BY DEF TasksInductive
<1>2. \A k \in Keys : Exists(k) => tasks[k] \in Task
  BY <1>1 DEF TypeOK, Exists
<1>3. ASSUME NEW k \in Keys, WorkerStep(k) PROVE Moved(j)
  <2>1. CASE UNCHANGED tasks
    BY <2>1 DEF Moved
  <2>2. CASE StartFailed(k)
    <3>1. Exists(k) => /\ Failure(k, "failed", FALSE) \in Task
                       /\ Failure(k, "failed", FALSE).status = "error"
      BY <1>2, NewTasks DEF Errors
    <3>2. UpdateTask(k, Failure(k, "failed", FALSE))
      BY <2>2 DEF StartFailed
    <3> QED
      BY <3>1, <3>2, UpdateMoves
  <2>3. CASE Begin(k)
    <3>1. Unfinished(k) /\ Exists(k)
      BY <1>1, <2>3 DEF Begin, PromptInv, Starting, Unfinished
    <3>2. Rerun(k) \in Task /\ UpdateTask(k, Rerun(k))
      BY <1>1, <1>2, <2>3, <3>1, NewTasks DEF Begin, Errors
    <3> QED
      BY <3>1, <3>2, UpdateMoves
  <2>4. CASE Deliver(k)
    <3>1. PICK c \in BOOLEAN : \/ UpdateTask(k, Images(k, c))
                              \/ UpdateTask(k, Failure(k, "failed", c))
                              \/ UpdateTask(k, Failure(k, "timeout", c))
      BY <2>4 DEF Deliver
    <3>2. Exists(k) => /\ Images(k, c) \in Task /\ Images(k, c).status = "success"
      BY <1>2, NewTasks DEF Errors
    <3>3. ASSUME NEW e \in Errors, Exists(k)
          PROVE  Failure(k, e, c) \in Task /\ Failure(k, e, c).status = "error"
      BY <1>2, <3>3, NewTasks
    <3>4. "failed" \in Errors /\ "timeout" \in Errors
      BY DEF Errors
    <3>5. CASE UpdateTask(k, Images(k, c))
      BY <3>2, <3>5, UpdateMoves
    <3>6. CASE UpdateTask(k, Failure(k, "failed", c))
      BY <3>3, <3>4, <3>6, UpdateMoves
    <3>7. CASE UpdateTask(k, Failure(k, "timeout", c))
      BY <3>3, <3>4, <3>7, UpdateMoves
    <3> QED
      BY <3>1, <3>5, <3>6, <3>7
  <2> QED
    BY <1>3, <2>1, <2>2, <2>3, <2>4
    DEF WorkerStep, Register, Start, StartRaises, Check, HandlerEnds, Finally
<1>4. ASSUME NEW old \in SUBSET Retired, tasks'[j] = Forget(old)[j] PROVE Moved(j)
  <2>1. old \in SUBSET Keys
    BY DEF Retired
  <2>2. CASE j \in old
    BY <1>1, <1>4, <2>1, <2>2, ForgetEffect DEF Moved, Exists, Retired
  <2>3. CASE j \notin old
    BY <1>1, <1>4, <2>1, <2>3, ForgetEffect DEF Moved
  <2> QED
    BY <2>2, <2>3
<1>5. ASSUME NEW k \in Keys, Client(k) PROVE Moved(j)
  <2>1. CASE Submit(k)
    <3>1. PICK old \in SUBSET Retired : tasks' = [Forget(old) EXCEPT ![k] = Fresh]
      BY <2>1 DEF Submit
    <3>2. Forget(old) \in [Keys -> Task \cup {NoTask}]
      BY <1>1, ForgetEffect DEF Retired
    <3>3. CASE j # k
      BY <1>4, <3>1, <3>2, <3>3
    <3>4. CASE j = k
      <4>1. ~Exists(j) /\ tasks'[j] = Fresh
        BY <2>1, <3>1, <3>2, <3>4 DEF Submit
      <4>2. Fresh \in Task /\ Fresh.status = "running"
        BY DEF Fresh, Task, Statuses, Errors
      <4>3. Fresh # NoTask
        BY <4>2, TasksAssumption
      <4> QED
        BY <4>1, <4>2, <4>3 DEF Moved, Exists, Unfinished
    <3> QED
      BY <3>3, <3>4
  <2>2. CASE SubmitAgain(k)
    BY <1>4, <2>2 DEF SubmitAgain
  <2>3. CASE Stop(k)
    <3> DEFINE stopped == [tasks[k] EXCEPT !.status = "error", !.error = "stopped"]
    <3>1. Unfinished(k) /\ tasks' = [tasks EXCEPT ![k] = stopped]
      BY <2>3 DEF Stop
    <3>2. stopped \in Task
      BY <1>2, <3>1 DEF Unfinished, Task, Statuses, Errors
    <3>3. stopped # NoTask
      BY <3>2, TasksAssumption
    <3> HIDE DEF stopped
    <3> QED
      BY <1>1, <3>1, <3>3 DEF TypeOK, Moved, Exists
  <2>4. CASE Resume(k)
    <3>1. Terminal(k) /\ tasks[k].error = "timeout" /\ Exists(k)
      BY <2>4 DEF Resume, Terminal
    <3>2. "none" \in Errors
      BY DEF Errors
    <3>3. Continued(k) \in Task /\ UpdateTask(k, Continued(k))
      BY <1>1, <1>2, <2>4, <3>1, <3>2, NewTasks DEF Resume
    <3> QED
      BY <3>1, <3>3, UpdateMoves
  <2> QED
    BY <1>5, <2>1, <2>2, <2>3, <2>4 DEF Client
<1>6. ASSUME NEW k \in Keys, Progress(k) \/ ResolveStarts(k) \/ CopiesEnd(k) \/ Tick(k)
      PROVE  Moved(j)
  <2> DEFINE known == [tasks[k] EXCEPT !.conv = TRUE]
  <2>1. CASE UpdateTask(k, known)
    <3>1. Exists(k) => known \in Task /\ known.status = tasks[k].status
      BY <1>2 DEF Task
    <3> HIDE DEF known
    <3>2. Exists(k) /\ known.status = "running" => Unfinished(k)
      BY <3>1 DEF Unfinished
    <3> QED
      BY <2>1, <3>1, <3>2, UpdateMoves
  <2>2. CASE UNCHANGED tasks
    BY <2>2 DEF Moved
  <2> QED
    BY <1>6, <2>1, <2>2 DEF Progress, ResolveStarts, CopiesEnd, Tick
<1>7. ASSUME NEW p \in Pollers, PollerStep(p) PROVE Moved(j)
  <2>1. CASE PollFinds(p)
    BY <2>1 DEF PollFinds, Moved
  <2>2. CASE PollDelivers(p) \/ PollFails(p)
    <3> DEFINE k == polls[p]
    <3>1. k \in Keys
      BY <2>2 DEF TasksInductive, TypeOK, PollDelivers, PollFails
    <3>2. PICK new : /\ UpdateTask(k, new)
                     /\ Exists(k) => new \in Task /\ new.status # "running"
      <4>1. CASE PollDelivers(p)
        BY <1>2, <3>1, <4>1, NewTasks DEF PollDelivers, Errors
      <4>2. CASE PollFails(p)
        <5>1. PICK e \in {"failed", "timeout"} : UpdateTask(k, Failure(k, e, FALSE))
          BY <4>2 DEF PollFails
        <5>2. e \in Errors /\ FALSE \in BOOLEAN
          BY DEF Errors
        <5>3. Exists(k) => /\ Failure(k, e, FALSE) \in Task
                           /\ Failure(k, e, FALSE).status = "error"
          BY <1>2, <3>1, <5>2, NewTasks
        <5> QED
          BY <5>1, <5>3
      <4> QED
        BY <2>2, <4>1, <4>2
    <3> HIDE DEF k
    <3> QED
      BY <3>1, <3>2, UpdateMoves
  <2> QED
    BY <1>7, <2>1, <2>2 DEF PollerStep
<1>8. CASE List
  <2>1. PICK old \in SUBSET Retired :
           tasks' = [k \in Keys |->
                       IF Expires(k)
                       THEN [tasks[k] EXCEPT !.status = "error", !.error = "timeout"]
                       ELSE Forget(old)[k]]
    BY <1>8 DEF List
  <2>2. CASE Expires(j)
    <3> DEFINE expired == [tasks[j] EXCEPT !.status = "error", !.error = "timeout"]
    <3>1. Unfinished(j) /\ tasks'[j] = expired
      BY <2>1, <2>2 DEF Expires
    <3>2. expired \in Task
      <4>1. tasks[j] \in Task
        BY <1>2, <3>1 DEF Unfinished
      <4> QED
        BY <4>1 DEF Task, Statuses, Errors
    <3> HIDE DEF expired
    <3> QED
      BY <3>1, <3>2, TasksAssumption DEF Moved, Exists
  <2>3. CASE ~Expires(j)
    BY <1>4, <2>1, <2>3
  <2> QED
    BY <2>2, <2>3
<1>9. CASE Restart
  <2>1. PICK old \in SUBSET {k \in Keys : /\ stored[k] # NoTask
                                         /\ stored[k] = Recovered(stored[k])} :
           tasks'[j] = IF j \in old THEN NoTask ELSE Recovered(stored[j])
    BY <1>9 DEF Restart
  <2>2. stored[j] = tasks[j]
    BY <1>1 DEF KeyInv
  <2>3. CASE j \in old
    <3>1. ~Unfinished(j)
      BY <1>1, <2>1, <2>2, <2>3, RecoveredTask DEF Exists, Unfinished
    <3> QED
      BY <2>1, <2>2, <2>3, <3>1 DEF Moved, Exists, Unfinished, Terminal
  <2>4. CASE j \notin old
    <3>1. CASE Unfinished(j)
      BY <1>1, <2>1, <2>2, <2>4, <3>1, RecoveredTask DEF Moved, Exists, Unfinished
    <3>2. CASE ~Unfinished(j)
      BY <1>1, <2>1, <2>4, <3>2, RecoveredTask DEF Moved
    <3> QED
      BY <3>1, <3>2
  <2> QED
    BY <2>3, <2>4
<1>10. CASE UNCHANGED vars
  BY <1>10 DEF vars, Moved
<1> QED
  BY <1>3, <1>5, <1>6, <1>7, <1>8, <1>9, <1>10 DEF Next

\* A cancel event that is set belongs to a task its user stopped.  stop_task.
THEOREM CancelledAreStopped ==
    ASSUME ~EarlyStop
    PROVE  Spec => []CancelledIsStopped
<1>1. TasksInductive => CancelledIsStopped
  BY DEF TasksInductive, PromptInv, CancelledIsStopped
<1> QED
  BY <1>1, TasksInvariant, PTL

\* The service implements TaskLifecycle: no interleaving of workers, polling
\* threads, requests, expiry and restarts makes a task move in a way a client is
\* not promised, as long as stops come after the worker's first step.
THEOREM ServiceKeepsPromise ==
    ASSUME ~EarlyStop
    PROVE  Spec => Lifecycle
<1> DEFINE phase == [k \in Keys |-> Phase(k)]
<1>1. Init => Promise!Init
  BY DEF Init, Promise!Init, Phase, Exists
<1>2. TasksInductive' => (\A k \in Keys : PhaseMeans(k))'
  BY PhaseOf, PTL
<1>3. ASSUME TasksInductive, TasksInductive', [Next]_vars PROVE [Promise!Next]_phase
  <2>1. ASSUME NEW k \in Keys
        PROVE  /\ phase[k] = Phase(k) /\ phase'[k] = Phase(k)'
               /\ Phase(k)' \in Promise!Phases
               /\ Phase(k)' # Phase(k) => <<Phase(k), Phase(k)'>> \in Promise!Moves
    <3>1. PhaseMeans(k) /\ PhaseMeans(k)' /\ Moved(k)
      BY <1>2, <1>3, PhaseOf, StepMoves
    <3> QED
      BY <3>1, MovedIsMove DEF PhaseMeans
  <2> QED
    BY <2>1 DEF Promise!Next
<1> QED
  BY <1>1, <1>3, TasksInvariant, PTL DEF Spec, Lifecycle, Promise!Spec
-----------------------------------------------------------------------------
(***************************************************************************)
(* The conversation of a task                                              *)
(***************************************************************************)
ConvKept(k) == Exists(k) /\ tasks[k].conv /\ Exists(k)' => tasks'[k].conv

\* No writer builds a task that knows less.
LEMMA NewConvs ==
    ASSUME NEW k \in Keys, tasks[k] \in Task, tasks[k].conv, NEW c \in BOOLEAN, NEW e \in Errors
    PROVE  Rerun(k).conv /\ Continued(k).conv /\ Images(k, c).conv /\ Failure(k, e, c).conv
  BY DEF Task, Rerun, Continued, Images, Failure

LEMMA UpdateKeepsConv ==
    ASSUME TypeOK, NEW k \in Keys, NEW new, Exists(k) /\ tasks[k].conv => new.conv, UpdateTask(k, new)
    PROVE  \A j \in Keys : ConvKept(j)
<1>1. /\ tasks \in [Keys -> Task \cup {NoTask}]
      /\ tasks' = IF ~Exists(k) THEN tasks
                  ELSE IF Terminal(k) /\ new.status # "running"
                  THEN [tasks EXCEPT ![k].conv = new.conv]
                  ELSE [tasks EXCEPT ![k] = new]
  BY DEF TypeOK, UpdateTask
<1>2. CASE ~Exists(k)
  BY <1>1, <1>2 DEF ConvKept
<1>3. CASE Exists(k) /\ Terminal(k) /\ new.status # "running"
  <2>1. tasks[k] \in Task
    BY <1>1, <1>3 DEF Exists
  <2>2. PICK t : t = [tasks[k] EXCEPT !.conv = new.conv]
    OBVIOUS
  <2>3. t.conv = new.conv
    BY <2>1, <2>2 DEF Task
  <2>4. tasks' = [tasks EXCEPT ![k] = t]
    BY <1>1, <1>3, <2>2
  <2> QED
    BY <1>1, <1>3, <2>3, <2>4 DEF ConvKept
<1>4. CASE Exists(k) /\ ~(Terminal(k) /\ new.status # "running")
  BY <1>1, <1>4 DEF ConvKept
<1> QED
  BY <1>2, <1>3, <1>4

LEMMA StepKeepsConv ==
    ASSUME TasksInductive, [Next]_vars, NEW j \in Keys
    PROVE  ConvKept(j)
<1>1. TypeOK /\ tasks \in [Keys -> Task \cup {NoTask}] /\ stored[j] = tasks[j]
  BY DEF TasksInductive, TypeOK, KeyInv
<1>2. \A k \in Keys : Exists(k) => tasks[k] \in Task
  BY <1>1 DEF Exists
<1>3. ASSUME NEW k \in Keys, WorkerStep(k) PROVE ConvKept(j)
  <2>1. CASE UNCHANGED tasks
    BY <2>1 DEF ConvKept
  <2>2. PICK new : (Exists(k) /\ tasks[k].conv => new.conv) /\ (tasks' = tasks \/ UpdateTask(k, new))
    <3>1. CASE StartFailed(k)
      BY <1>2, <3>1, NewConvs DEF StartFailed, Errors
    <3>2. CASE Begin(k)
      <4>1. "none" \in Errors /\ TRUE \in BOOLEAN
        BY DEF Errors
      <4> QED
        BY <1>2, <3>2, <4>1, NewConvs DEF Begin
    <3>3. CASE Deliver(k)
      <4>1. PICK c \in BOOLEAN : \/ UpdateTask(k, Images(k, c))
                                \/ UpdateTask(k, Failure(k, "failed", c))
                                \/ UpdateTask(k, Failure(k, "timeout", c))
        BY <3>3 DEF Deliver
      <4>2. "failed" \in Errors /\ "timeout" \in Errors
        BY DEF Errors
      <4> QED
        BY <1>2, <4>1, <4>2, NewConvs
    <3>4. CASE UNCHANGED tasks
      <4>1. PICK new : new = [conv |-> TRUE]
        OBVIOUS
      <4> QED
        BY <3>4, <4>1
    <3> QED
      BY <1>3, <3>1, <3>2, <3>3, <3>4
      DEF WorkerStep, Register, Start, StartRaises, Check, HandlerEnds, Finally
  <2> QED
    BY <1>1, <2>1, <2>2, UpdateKeepsConv
<1>4. ASSUME NEW old \in SUBSET Retired, tasks'[j] = Forget(old)[j] PROVE ConvKept(j)
  <2>1. old \in SUBSET Keys
    BY DEF Retired
  <2> QED
    BY <1>1, <1>4, <2>1, ForgetEffect DEF ConvKept, Exists
<1>5. ASSUME NEW k \in Keys, Client(k) PROVE ConvKept(j)
  <2>1. CASE Submit(k)
    <3>1. PICK old \in SUBSET Retired : tasks' = [Forget(old) EXCEPT ![k] = Fresh]
      BY <2>1 DEF Submit
    <3>2. Forget(old) \in [Keys -> Task \cup {NoTask}]
      BY <1>1, ForgetEffect DEF Retired
    <3>3. CASE j # k
      BY <1>4, <3>1, <3>2, <3>3
    <3>4. CASE j = k
      BY <2>1, <3>4 DEF Submit, ConvKept
    <3> QED
      BY <3>3, <3>4
  <2>2. CASE SubmitAgain(k)
    BY <1>4, <2>2 DEF SubmitAgain
  <2>3. CASE Stop(k)
    <3>1. PICK t : t = [tasks[k] EXCEPT !.status = "error", !.error = "stopped"]
      OBVIOUS
    <3>2. Unfinished(k) /\ tasks' = [tasks EXCEPT ![k] = t]
      BY <2>3, <3>1 DEF Stop
    <3>3. t.conv = tasks[k].conv
      BY <1>2, <3>1, <3>2 DEF Unfinished, Task
    <3> QED
      BY <1>1, <3>2, <3>3 DEF ConvKept
  <2>4. CASE Resume(k)
    <3>1. Exists(k) /\ UpdateTask(k, Continued(k))
      BY <2>4 DEF Resume, Terminal
    <3>2. "none" \in Errors /\ TRUE \in BOOLEAN
      BY DEF Errors
    <3>3. tasks[k].conv => Continued(k).conv
      BY <1>2, <3>1, <3>2, NewConvs
    <3> QED
      BY <1>1, <3>1, <3>3, UpdateKeepsConv
  <2> QED
    BY <1>5, <2>1, <2>2, <2>3, <2>4 DEF Client
<1>6. ASSUME NEW k \in Keys, Progress(k) \/ ResolveStarts(k) \/ CopiesEnd(k) \/ Tick(k)
      PROVE  ConvKept(j)
  <2>1. PICK known : known = [tasks[k] EXCEPT !.conv = TRUE]
    OBVIOUS
  <2>2. CASE UpdateTask(k, known)
    <3>1. Exists(k) => known.conv
      BY <1>2, <2>1 DEF Task
    <3> QED
      BY <1>1, <2>2, <3>1, UpdateKeepsConv
  <2>3. CASE UNCHANGED tasks
    BY <2>3 DEF ConvKept
  <2> QED
    BY <1>6, <2>1, <2>2, <2>3 DEF Progress, ResolveStarts, CopiesEnd, Tick
<1>7. ASSUME NEW p \in Pollers, PollerStep(p) PROVE ConvKept(j)
  <2>1. CASE PollFinds(p)
    BY <2>1 DEF PollFinds, ConvKept
  <2>2. CASE PollDelivers(p) \/ PollFails(p)
    <3>1. polls[p] \in Keys
      BY <2>2 DEF TasksInductive, TypeOK, PollDelivers, PollFails
    <3>2. PICK k \in Keys : k = polls[p]
      BY <3>1
    <3>3. PICK e \in Errors : UpdateTask(k, Images(k, FALSE)) \/ UpdateTask(k, Failure(k, e, FALSE))
      BY <2>2, <3>2 DEF PollDelivers, PollFails, Errors
    <3>4. FALSE \in BOOLEAN
      OBVIOUS
    <3>5. Exists(k) /\ tasks[k].conv => Images(k, FALSE).conv /\ Failure(k, e, FALSE).conv
      BY <1>2, <3>4, NewConvs
    <3> QED
      BY <1>1, <3>3, <3>5, UpdateKeepsConv
  <2> QED
    BY <1>7, <2>1, <2>2 DEF PollerStep
<1>8. CASE List
  <2>1. PICK old \in SUBSET Retired :
           tasks' = [k \in Keys |->
                       IF Expires(k)
                       THEN [tasks[k] EXCEPT !.status = "error", !.error = "timeout"]
                       ELSE Forget(old)[k]]
    BY <1>8 DEF List
  <2>2. CASE Expires(j)
    <3>1. PICK t : t = [tasks[j] EXCEPT !.status = "error", !.error = "timeout"]
      OBVIOUS
    <3>2. tasks'[j] = t
      BY <2>1, <2>2, <3>1
    <3>3. t.conv = tasks[j].conv
      BY <1>2, <2>2, <3>1 DEF Expires, Unfinished, Task
    <3> QED
      BY <3>2, <3>3 DEF ConvKept
  <2>3. CASE ~Expires(j)
    BY <1>4, <2>1, <2>3
  <2> QED
    BY <2>2, <2>3
<1>9. CASE Restart
  <2>1. tasks'[j] = NoTask \/ tasks'[j] = Recovered(tasks[j])
    BY <1>1, <1>9 DEF Restart
  <2>2. PICK t : t = [tasks[j] EXCEPT !.status = "error", !.error = "restarted"]
    OBVIOUS
  <2>3. Exists(j) => t.conv = tasks[j].conv
    BY <1>2, <2>2 DEF Task
  <2> QED
    BY <2>1, <2>2, <2>3 DEF ConvKept, Exists, Recovered
<1>10. CASE UNCHANGED vars
  BY <1>10 DEF vars, ConvKept
<1> QED
  BY <1>3, <1>5, <1>6, <1>7, <1>8, <1>9, <1>10 DEF Next

\* Whichever writer comes last, _update_task, a stop, the expiry, a restart, a
\* task whose conversation is known stays one that can be continued.
THEOREM ConversationsAreKept == Spec => ConversationIsKept
<1>1. TasksInductive /\ [Next]_vars
      => [\A k \in Keys : Exists(k) /\ tasks[k].conv /\ Exists(k)' => tasks'[k].conv]_vars
  BY StepKeepsConv DEF ConvKept
<1> QED
  BY <1>1, TasksInvariant, PTL DEF Spec, ConversationIsKept
=============================================================================
