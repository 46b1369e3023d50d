-------------------------- MODULE RegisterScheduler --------------------------
(***************************************************************************)
(* The scheduler of one register (services/register_service.py): a start   *)
(* makes a run of its own, with a thread (_run, _run_loop) that keeps so   *)
(* many registrations in flight (worker of the engines) until the target   *)
(* is reached or the run is stopped.  A stop does not wait for the         *)
(* registrations in flight, and a start does not wait for the run before.  *)
(*                                                                         *)
(* Abstracted: failures are counted as successes are, and left out of the  *)
(* statistics; quota and available count the accounts of the pool in the   *)
(* same way.  What the periodic check writes when nothing has changed is   *)
(* left out, and so is a configuration file that cannot be written.        *)
(***************************************************************************)
EXTENDS Naturals, Sequences

CONSTANTS
    SchedulerUses,  \* bound: requests, failures and faults
    FirstSchedules  \* how it begins: what a behaviour asks the register for, and
                    \* how much of the bound it has

ASSUME SchedulerAssumption ==
    /\ SchedulerUses \in Nat
    /\ FirstSchedules \subseteq
        (SUBSET [mode : {"total", "available"}, target : Nat \ {0}, threads : Nat \ {0}])
        \X (0..SchedulerUses)
    /\ \A f \in FirstSchedules : f[1] # {}

VARIABLES
    enabled,      \* _config["enabled"], which is stored
    tasks,        \* what this behaviour asks for
    task,         \* the mode, the target and the threads of _config
    stats,        \* _config["stats"]: the run they were made for, 0 after a reset
    runs,         \* the threads of the starts, in order, and their registrations
    normal,       \* the normal accounts of the pool
    schedulerUse

schedulerVars == <<enabled, tasks, task, stats, runs, normal, schedulerUse>>

\* _generation: the last start, 0 if there was none.
generation == Len(runs)
RunNumbers == DOMAIN runs
RunSteps == {"again", "top", "dispatch", "submit", "report", "idle", "wait", "drain", "ended"}
NoTask == [mode |-> "total", target |-> 0, threads |-> 0]
NewRun(t) ==
    [step |-> "again", stopped |-> FALSE, paused |-> FALSE, cfg |-> NoTask, threads |-> 0,
     success |-> 0,
     working |-> 0, oks |-> 0, others |-> 0,         \* futures: under way, and done
     made |-> 0, faulted |-> FALSE, asked |-> {t}]   \* history
\* What is left of a thread that has ended: its history.
Ended(r) == [r EXCEPT !.step = "ended", !.stopped = TRUE, !.paused = FALSE, !.cfg = NoTask, !.threads = 0,
                      !.success = 0, !.working = 0, !.oks = 0, !.others = 0]

NoStats == [run |-> 0, success |-> 0, running |-> 0]

Futures(g) == runs[g].working + runs[g].oks + runs[g].others
Current(g) == g = generation
Active(g) == Current(g) /\ enabled /\ ~runs[g].stopped

\* Failed registrations do not count against the target.
Reached(t, success, inFlight) ==
    IF t.mode = "total" THEN success + inFlight >= t.target ELSE normal >= t.target

\* The statistics after a run has written its own: only the last run may.
BumpGeneration(g, success, running) ==
    stats' = IF Current(g) THEN [stats EXCEPT !.success = success, !.running = running] ELSE stats

SchedulerInit ==
    /\ enabled = FALSE /\ stats = NoStats /\ normal = 0
    /\ \E f \in FirstSchedules : tasks = f[1] /\ schedulerUse = f[2]
    /\ task \in tasks /\ runs = <<>>

UseScheduler == schedulerUse > 0 /\ schedulerUse' = schedulerUse - 1 /\ UNCHANGED tasks
DoesNotUse == UNCHANGED <<tasks, schedulerUse>>

(***************************************************************************)
(* Requests, and the start of the process.                                 *)
(***************************************************************************)
\* The stop event is that of the last run.
LastStopped(rs) == [g \in DOMAIN rs |-> [rs[g] EXCEPT !.stopped = @ \/ g = Len(rs)]]

\* A run for every start, beside those that have not ended yet.
Starts(old, t) ==
    /\ enabled' = TRUE /\ task' = t
    /\ runs' = Append(LastStopped(old), NewRun(t))
    /\ stats' = [NoStats EXCEPT !.run = Len(runs')]

StartRegister(t) == UseScheduler /\ Starts(runs, t) /\ UNCHANGED normal

StopRegister ==
    /\ UseScheduler /\ enabled' = FALSE /\ runs' = LastStopped(runs)
    /\ UNCHANGED <<task, stats, normal>>

ResetStats == UseScheduler /\ stats' = NoStats /\ UNCHANGED <<enabled, task, runs, normal>>

\* Statistics of a register that is off are put right when it is normalised.
Normalised == IF enabled THEN stats ELSE [stats EXCEPT !.running = 0]

UpdateConfig(t) ==
    /\ UseScheduler /\ task' = t /\ stats' = Normalised
    /\ runs' = [g \in RunNumbers |->
                    IF g = generation THEN [runs[g] EXCEPT !.asked = @ \cup {t}] ELSE runs[g]]
    /\ UNCHANGED <<enabled, normal>>

\* The process goes with its threads; a register that was on starts again.  The
\* new process counts its generations from 1; here they go on.
RestartProcess ==
    LET Killed == [g \in RunNumbers |->
                       [Ended(runs[g]) EXCEPT !.faulted = @ \/ runs[g].step # "ended"]]
    IN  /\ UseScheduler /\ UNCHANGED normal
        /\ \/ enabled /\ Starts(Killed, task)
           \/ /\ ~enabled /\ runs' = Killed /\ stats' = Normalised
              /\ UNCHANGED <<enabled, task>>

\* An account of the pool is used up or taken out.
AccountLost ==
    /\ UseScheduler /\ normal > 0 /\ normal' = normal - 1
    /\ UNCHANGED <<enabled, task, stats, runs>>

(***************************************************************************)
(* The registrations.                                                      *)
(***************************************************************************)
Outcome(g, r) == /\ runs[g].working > 0 /\ runs' = [runs EXCEPT ![g] = r]
                 /\ UNCHANGED <<enabled, task, stats>>

\* A worker past its last look at the stop event still makes its account.
WorkerSucceeds(g) ==
    /\ Outcome(g, [runs[g] EXCEPT !.working = @ - 1, !.oks = @ + 1, !.made = @ + 1])
    /\ normal' = normal + 1 /\ DoesNotUse

WorkerFails(g) ==
    /\ Outcome(g, [runs[g] EXCEPT !.working = @ - 1, !.others = @ + 1])
    /\ UseScheduler /\ UNCHANGED normal

WorkerCancelled(g) ==
    /\ runs[g].stopped /\ Outcome(g, [runs[g] EXCEPT !.working = @ - 1, !.others = @ + 1])
    /\ DoesNotUse /\ UNCHANGED normal

(***************************************************************************)
(* The thread of a run.                                                    *)
(***************************************************************************)
RunIs(g, step) == runs[g].step = step /\ UNCHANGED <<task, normal>>
StepTo(g, step) == runs' = [runs EXCEPT ![g].step = step]
StepWith(g, r, step) == runs' = [runs EXCEPT ![g] = [r EXCEPT !.step = step]]

EndsRun(g) == runs' = [runs EXCEPT ![g] = Ended(runs[g])]

LeavesRun(g) == EndsRun(g) /\ BumpGeneration(g, stats.success, 0)

\* The loop counts from what the statistics say.
RunLoop(g) ==
    /\ RunIs(g, "again") /\ DoesNotUse /\ UNCHANGED enabled
    /\ \/ /\ Active(g) /\ UNCHANGED stats
          /\ StepWith(g, [runs[g] EXCEPT !.success = stats.success, !.threads = task.threads], "top")
       \/ ~Active(g) /\ LeavesRun(g)

ReadConfig(g) ==
    /\ RunIs(g, "top") /\ DoesNotUse /\ UNCHANGED <<enabled, stats>>
    /\ StepWith(g, [runs[g] EXCEPT !.cfg = task, !.paused = FALSE], "dispatch")

\* The process has few file descriptors left: no registration for a while.
Pressure(g) ==
    /\ RunIs(g, "top") /\ UseScheduler /\ UNCHANGED <<enabled, stats>>
    /\ StepWith(g, [runs[g] EXCEPT !.cfg = task, !.paused = TRUE], "report")

MayDispatch(g) ==
    /\ Active(g) /\ Futures(g) < runs[g].threads
    /\ ~Reached(runs[g].cfg, runs[g].success, Futures(g))

Dispatch(g) ==
    /\ RunIs(g, "dispatch") /\ DoesNotUse /\ UNCHANGED <<enabled, stats>>
    /\ StepTo(g, IF MayDispatch(g) THEN "submit" ELSE "report")

\* The run may have been stopped since it looked.
Submit(g) ==
    /\ RunIs(g, "submit") /\ DoesNotUse /\ UNCHANGED <<enabled, stats>>
    /\ StepWith(g, [runs[g] EXCEPT !.working = @ + 1], "dispatch")

Report(g) ==
    /\ RunIs(g, "report") /\ DoesNotUse /\ UNCHANGED enabled
    /\ BumpGeneration(g, runs[g].success, Futures(g))
    /\ StepTo(g, IF Futures(g) = 0 THEN "idle" ELSE "wait")

\* A run that is not the last one leaves the register alone.
FinishRun(g) ==
    /\ BumpGeneration(g, runs[g].success, 0)
    /\ enabled' = (enabled /\ ~Current(g))
    /\ EndsRun(g)

TargetIsMade(g) ==
    /\ ~runs[g].paused /\ runs[g].cfg.mode = "total"
    /\ runs[g].success >= runs[g].cfg.target

IdleEnds(g) ==
    /\ RunIs(g, "idle") /\ DoesNotUse
    /\ ~Active(g) \/ TargetIsMade(g)
    /\ FinishRun(g)

\* The wait for the next look, when it will find something to do.
CheckAgain(g) ==
    /\ RunIs(g, "idle") /\ Active(g) /\ ~TargetIsMade(g)
    /\ \/ runs[g].paused \/ runs[g].cfg # task \/ stats.success # runs[g].success
       \/ ~Reached(task, runs[g].success, 0)
    /\ StepTo(g, "top") /\ DoesNotUse /\ UNCHANGED <<enabled, stats>>

\* What has ended is taken from the futures, and counted for the last run.
Counted(g) ==
    [runs[g] EXCEPT !.success = @ + (IF Current(g) THEN runs[g].oks ELSE 0),
                    !.oks = 0, !.others = 0]

Collect(g) ==
    /\ RunIs(g, "wait") /\ runs[g].oks + runs[g].others > 0
    /\ StepWith(g, Counted(g), "top")
    /\ BumpGeneration(g, Counted(g).success, runs[g].working)
    /\ DoesNotUse /\ UNCHANGED enabled

WaitTimesOut(g) ==
    /\ RunIs(g, "wait") /\ runs[g].paused /\ runs[g].oks + runs[g].others = 0
    /\ StepTo(g, "top") /\ DoesNotUse /\ UNCHANGED <<enabled, stats>>

\* An exception, of the pool's metrics or of a thread that cannot be made:
\* the executor waits for what is in flight, and nobody asks for the results.
LoopRaises(g) ==
    /\ runs[g].step \in {"dispatch", "submit"} /\ UseScheduler
    /\ StepWith(g, [runs[g] EXCEPT !.faulted = TRUE], "drain")
    /\ UNCHANGED <<enabled, task, stats, normal>>

Supervise(g) ==
    /\ RunIs(g, "drain") /\ runs[g].working = 0
    /\ BumpGeneration(g, stats.success, 0)
    /\ IF Active(g) THEN StepWith(g, [runs[g] EXCEPT !.oks = 0, !.others = 0], "again")
       ELSE EndsRun(g)
    /\ DoesNotUse /\ UNCHANGED enabled

(***************************************************************************)
(* The specification.                                                      *)
(***************************************************************************)
SchedulerRequests ==
    \/ \E t \in tasks : StartRegister(t) \/ UpdateConfig(t)
    \/ StopRegister \/ ResetStats \/ RestartProcess \/ AccountLost

RunGoesOn(g) ==
    \/ RunLoop(g) \/ ReadConfig(g) \/ Dispatch(g) \/ Submit(g) \/ Report(g)
    \/ IdleEnds(g) \/ CheckAgain(g) \/ Collect(g) \/ WaitTimesOut(g) \/ Supervise(g)
    \/ WorkerSucceeds(g) \/ WorkerCancelled(g)

SchedulerGoesOn == \E g \in RunNumbers : RunGoesOn(g)

SchedulerNext ==
    \/ SchedulerRequests \/ SchedulerGoesOn
    \/ \E g \in RunNumbers : Pressure(g) \/ LoopRaises(g) \/ WorkerFails(g)

SchedulerSpec == SchedulerInit /\ [][SchedulerNext]_schedulerVars
FairSchedulerSpec == SchedulerSpec /\ WF_schedulerVars(SchedulerGoesOn)

Run == [step : RunSteps, stopped : BOOLEAN, paused : BOOLEAN, cfg : tasks \cup {NoTask},
        threads : Nat, success : Nat, working : Nat, oks : Nat, others : Nat,
        made : Nat, faulted : BOOLEAN, asked : SUBSET tasks]

SchedulerTypeOK ==
    /\ enabled \in BOOLEAN /\ generation \in 0..SchedulerUses /\ task \in tasks
    /\ stats \in [run : 0..SchedulerUses, success : Nat, running : Nat]
    /\ runs \in Seq(Run)
    /\ \A g \in RunNumbers : runs[g].step # "ended" => Futures(g) <= runs[g].threads
    /\ normal \in Nat /\ schedulerUse \in Nat

\* The statistics of a run have successes of that run only, and when it has
\* ended all of them, those after its stop too; the results that an exception
\* of the scheduler or the end of the process lost are the only ones missing.
CountsOwnResults ==
    /\ generation = 0 => stats.success = 0
    /\ generation > 0 => stats.success <= runs[generation].made
    /\ LET r == runs[stats.run]
       IN  stats.run > 0 /\ r.step = "ended" /\ ~r.faulted => stats.success = r.made

\* With a total to make, a run without exceptions never makes more accounts
\* than some total it was given, however many threads it has.
TargetKept ==
    \A g \in RunNumbers :
        (~runs[g].faulted /\ \A t \in runs[g].asked : t.mode = "total")
        => \E t \in runs[g].asked : runs[g].made + runs[g].working <= t.target

\* A register is on as long as its last run has not ended or been stopped: no
\* run before it turns it off, and it is never on without a run.
OnHasScheduler ==
    enabled <=> /\ generation > 0
                /\ ~runs[generation].stopped /\ runs[generation].step # "ended"

\* When no more requests come, the runs that were stopped or replaced end, and
\* the register shows no registration under way while it is off.
SchedulerSettled ==
    /\ \A g \in RunNumbers : runs[g].step = "ended" \/ (enabled /\ g = generation)
    /\ ~enabled => stats.running = 0
=============================================================================
