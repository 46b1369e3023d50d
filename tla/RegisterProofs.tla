--------------------------- MODULE RegisterProofs ---------------------------
(***************************************************************************)
(* The register page: its types, and that a form which is not marked as    *)
(* edited shows settings the service has had, for any bound and any        *)
(* registers.  What makes that inductive is where a version can come from: *)
(* a served answer or an event carries one the service had when it was     *)
(* made, and versions the service has had are never taken back.            *)
(*                                                                         *)
(* The scheduler of a register: its types, that a register which is on has *)
(* a thread that looks after it, that a run counts its own results and     *)
(* that a target is kept.  What makes that inductive is what every run,    *)
(* the last one and those that were replaced, keeps to while it is under   *)
(* way (RunInv): it is submitting only while what it has made and what is  *)
(* in work are together below its target, and the last run has counted     *)
(* everything it made unless a result was lost.                            *)
(***************************************************************************)
EXTENDS RegisterPage, RegisterScheduler, SequenceTheorems, TLAPS

\* Answers and events carry settings the service has had.
CarriesHad ==
    /\ settings \in hadSettings
    /\ \A r \in Registers : streams[r] # NoEvent => streams[r].settings \in hadSettings
    /\ \A c \in registerCalls : c.state = "served" => c.settings \in hadSettings

\* The uses left make the next edit a version within the bound.
UsesLeft == registerUse \in 0..RegisterUses

RegisterInv == RegisterTypeOK /\ UsesLeft /\ CarriesHad /\ UnsavedIsMarked

LEMMA InitEstablishes == RegisterInit => RegisterInv
<1> SUFFICES ASSUME RegisterInit PROVE RegisterInv
  OBVIOUS
<1>1. PICK f \in FollowedRegisters :
        /\ followed = f[1] /\ registerUse = f[2]
        /\ registers = [r \in Registers |-> f[3] /\ r \in followed]
  BY DEF RegisterInit
<1>2. f[1] \in SUBSET Registers /\ f[2] \in 0..RegisterUses /\ f[3] \in BOOLEAN /\ RegisterUses \in Nat
  BY RegisterAssumption DEF Registers
<1>a. followed \in SUBSET Registers /\ registerUse \in Nat /\ 0 \in Versions
  BY <1>1, <1>2 DEF Versions
<1>3. registerCalls \in SUBSET RegisterCall
  <2>1. \A r \in followed :
          [op |-> "load", register |-> r, n |-> 0, settings |-> 0, state |-> "sent", on |-> FALSE]
            \in RegisterCall
    BY <1>a DEF RegisterCall, RegisterOps
  <2> QED
    BY <2>1 DEF RegisterInit
<1>4. RegisterTypeOK
  <2>1. NoEvent \in Event
    BY <1>2 DEF NoEvent, Event
  <2>2. streams \in [Registers -> Event] /\ streamed \in [Registers -> Event]
    BY <2>1 DEF RegisterInit
  <2>3. registers \in [Registers -> BOOLEAN]
    BY <1>1, <1>2
  <2> QED
    BY <1>a, <1>3, <2>2, <2>3 DEF RegisterInit, RegisterTypeOK
<1>5. CarriesHad
  BY DEF RegisterInit, CarriesHad
<1>6. UnsavedIsMarked
  BY DEF RegisterInit, UnsavedIsMarked
<1> QED
  BY <1>1, <1>2, <1>4, <1>5, <1>6 DEF RegisterInv, UsesLeft

(***************************************************************************)
(* One lemma per action.                                                   *)
(***************************************************************************)
LEMMA ServedKeeps ==
  ASSUME RegisterInv, NEW c \in registerCalls, RegisterServed(c)
  PROVE  RegisterInv'
<1> USE DEF RegisterServed, RegisterServiceOnly, registerPageVars, formVars
<1>1. c \in RegisterCall /\ RegisterTypeOK
  BY DEF RegisterInv, RegisterTypeOK
<1>2. PICK result \in {"served", "failed"} :
        registerCalls' = (registerCalls \ {c}) \cup
            {[c EXCEPT !.state = result, !.on = registers'[c.register], !.settings = settings']}
  OBVIOUS
<1> DEFINE d == [c EXCEPT !.state = result, !.on = registers'[c.register], !.settings = settings']
<1>3. registers' \in [Registers -> BOOLEAN] /\ settings' \in Versions
  BY <1>1 DEF RegisterTypeOK, RegisterCall
<1>4. d \in RegisterCall /\ d.settings = settings' /\ d.op = c.op /\ d.register = c.register
  <2>1. registers'[c.register] \in BOOLEAN
    BY <1>1, <1>3 DEF RegisterCall
  <2> QED
    BY <1>1, <1>3, <2>1 DEF RegisterCall
<1>5. RegisterTypeOK'
  BY <1>1, <1>2, <1>3, <1>4 DEF RegisterTypeOK
<1>6. CarriesHad'
  BY <1>2, <1>4 DEF RegisterInv, CarriesHad
<1>7. UnsavedIsMarked'
  <2>1. ~isRegisterDirty' => shownSettings' \in hadSettings'
    BY DEF RegisterInv, UnsavedIsMarked
  <2>2. ASSUME NEW r \in savingRegisters'
        PROVE  \E e \in registerCalls' : e.register = r /\ e.op # "load"
    <3>1. PICK e \in registerCalls : e.register = r /\ e.op # "load"
      BY <2>2 DEF RegisterInv, UnsavedIsMarked
    <3> QED
      BY <3>1, <1>2, <1>4
  <2> QED
    BY <2>1, <2>2 DEF UnsavedIsMarked
<1> QED
  BY <1>5, <1>6, <1>7 DEF RegisterInv, UsesLeft

LEMMA RefusedKeeps ==
  ASSUME RegisterInv, NEW c \in registerCalls, RegisterRefused(c)
  PROVE  RegisterInv'
<1> USE DEF RegisterRefused, RegisterServiceOnly, registerPageVars, formVars
<1> DEFINE d == [c EXCEPT !.state = "failed"]
<1>1. c \in RegisterCall /\ RegisterTypeOK
  BY DEF RegisterInv, RegisterTypeOK
<1>2. d \in RegisterCall /\ d.state = "failed" /\ d.op = c.op /\ d.register = c.register
  BY <1>1 DEF RegisterCall
<1>3. registerCalls' = (registerCalls \ {c}) \cup {d}
  OBVIOUS
<1>4. RegisterTypeOK'
  BY <1>1, <1>2, <1>3 DEF RegisterTypeOK
<1>5. CarriesHad'
  BY <1>2, <1>3 DEF RegisterInv, CarriesHad
<1>6. UnsavedIsMarked'
  <2>1. ASSUME NEW r \in savingRegisters'
        PROVE  \E e \in registerCalls' : e.register = r /\ e.op # "load"
    <3>1. PICK e \in registerCalls : e.register = r /\ e.op # "load"
      BY <2>1 DEF RegisterInv, UnsavedIsMarked
    <3> QED
      BY <3>1, <1>2, <1>3
  <2> QED
    BY <2>1 DEF RegisterInv, UnsavedIsMarked
<1> QED
  BY <1>4, <1>5, <1>6 DEF RegisterInv, UsesLeft

LEMMA StopsKeeps ==
  ASSUME RegisterInv, NEW r \in Registers, RegisterStops(r)
  PROVE  RegisterInv'
<1> USE DEF RegisterStops, registerPageVars, formVars
<1>1. RegisterTypeOK' /\ UsesLeft'
  BY RegisterAssumption DEF RegisterInv, RegisterTypeOK, UsesLeft
<1>2. CarriesHad' /\ UnsavedIsMarked'
  BY DEF RegisterInv, CarriesHad, UnsavedIsMarked
<1> QED
  BY <1>1, <1>2 DEF RegisterInv

LEMMA SendsKeeps ==
  ASSUME RegisterInv, NEW r \in Registers, StreamSends(r)
  PROVE  RegisterInv'
<1> USE DEF StreamSends, RegisterServiceOnly, registerPageVars, formVars
<1>1. RegisterTypeOK
  BY DEF RegisterInv
<1>2. Snapshot(r) \in Event /\ Snapshot(r).settings = settings
  BY <1>1, RegisterAssumption DEF Snapshot, Event, RegisterTypeOK, Versions
<1>3. RegisterTypeOK'
  BY <1>1, <1>2 DEF RegisterTypeOK
<1>4. CarriesHad'
  BY <1>1, <1>2 DEF RegisterInv, CarriesHad, RegisterTypeOK
<1>5. UnsavedIsMarked'
  BY DEF RegisterInv, UnsavedIsMarked
<1> QED
  BY <1>3, <1>4, <1>5 DEF RegisterInv, UsesLeft

\* The page takes an answer: the first look at a register.
LEMMA LoadedKeeps ==
  ASSUME RegisterInv, NEW c \in registerCalls, RegisterLoaded(c)
  PROVE  RegisterInv'
<1> USE DEF RegisterLoaded, RegisterAnswered, TakeRegister, ShowRegister, Onward, formVars
<1>1. c \in RegisterCall /\ RegisterTypeOK
  BY DEF RegisterInv, RegisterTypeOK
<1>2. RegisterTypeOK'
  BY <1>1 DEF RegisterTypeOK, RegisterCall
<1>3. CarriesHad'
  BY DEF RegisterInv, CarriesHad
<1>4. UnsavedIsMarked'
  BY DEF RegisterInv, CarriesHad, UnsavedIsMarked
<1> QED
  BY <1>2, <1>3, <1>4 DEF RegisterInv, UsesLeft

\* The page takes an answer to a button: of its register none is disabled.
LEMMA SavedKeeps ==
  ASSUME RegisterInv, NEW c \in registerCalls, RegisterSaved(c)
  PROVE  RegisterInv'
<1> USE DEF RegisterSaved, RegisterAnswered, TakeRegister, ShowRegister, Onward, formVars
<1>1. c \in RegisterCall /\ RegisterTypeOK
  BY DEF RegisterInv, RegisterTypeOK
<1>2. RegisterTypeOK'
  BY <1>1 DEF RegisterTypeOK, RegisterCall
<1>3. CarriesHad'
  BY DEF RegisterInv, CarriesHad
<1>4. UnsavedIsMarked'
  BY DEF RegisterInv, CarriesHad, UnsavedIsMarked
<1> QED
  BY <1>2, <1>3, <1>4 DEF RegisterInv, UsesLeft

LEMMA EventKeeps ==
  ASSUME RegisterInv, EventOfMain \/ \E r \in Registers : EventOfOther(r)
  PROVE  RegisterInv'
<1> USE DEF EventOfMain, EventOfOther, SetRegisterConfig, ShowRegister, Onward, formVars
<1>1. RegisterTypeOK /\ "main" \in Registers /\ RegisterUses \in Nat
  BY RegisterAssumption DEF RegisterInv, Registers
<1>2. hadSettings' = hadSettings /\ settings' = settings /\ registerCalls' = registerCalls
      /\ savingRegisters' = savingRegisters /\ registerUse' = registerUse
  OBVIOUS
<1>3. NoEvent \in Event
  BY <1>1 DEF NoEvent, Event
<1>4. CASE EventOfMain
  <2>1. streams["main"] \in Event /\ streams["main"].settings \in hadSettings
    BY <1>1, <1>4 DEF RegisterInv, CarriesHad, RegisterTypeOK
  <2>2. shownSettings' \in Versions /\ isRegisterDirty' \in BOOLEAN
        /\ shownRegisters' \in [Registers -> {"none", "off", "on"}]
    BY <1>1, <1>4, <2>1 DEF RegisterTypeOK
  <2>3. RegisterTypeOK'
    BY <1>1, <1>3, <1>4, <2>2 DEF RegisterTypeOK
  <2>4. CarriesHad'
    BY <1>1, <1>2, <1>4 DEF RegisterInv, CarriesHad, RegisterTypeOK
  <2>5. UnsavedIsMarked'
    BY <1>2, <1>4, <2>1 DEF RegisterInv, UnsavedIsMarked
  <2> QED
    BY <1>2, <2>3, <2>4, <2>5 DEF RegisterInv, UsesLeft
<1>5. ASSUME NEW r \in Registers, EventOfOther(r)
      PROVE  RegisterInv'
  <2>1. RegisterTypeOK'
    BY <1>1, <1>3, <1>5 DEF RegisterTypeOK
  <2>2. CarriesHad'
    BY <1>1, <1>2, <1>5 DEF RegisterInv, CarriesHad, RegisterTypeOK
  <2>3. UnsavedIsMarked'
    BY <1>2, <1>5 DEF RegisterInv, UnsavedIsMarked
  <2> QED
    BY <1>2, <2>1, <2>2, <2>3 DEF RegisterInv, UsesLeft
<1> QED
  BY <1>4, <1>5

\* An edit makes a version that is within the bound and marks the form.
LEMMA EditKeeps ==
  ASSUME RegisterInv, UseRegister, SetRegisterField
  PROVE  RegisterInv'
<1> USE DEF UseRegister, SetRegisterField
<1>1. RegisterTypeOK' /\ UsesLeft'
  BY RegisterAssumption DEF RegisterInv, RegisterTypeOK, UsesLeft, Versions
<1>2. CarriesHad' /\ UnsavedIsMarked'
  BY DEF RegisterInv, CarriesHad, UnsavedIsMarked
<1> QED
  BY <1>1, <1>2 DEF RegisterInv

LEMMA AskKeeps ==
  ASSUME RegisterInv, NEW op \in RegisterOps \ {"load"}, NEW r \in Registers, AskRegister(op, r)
  PROVE  RegisterInv'
<1> USE DEF UseRegister, AskRegister, formVars
<1> DEFINE d == NewRegisterCall(op, r)
<1>1. d \in RegisterCall /\ d.state = "sent" /\ d.op = op /\ d.register = r
  BY DEF RegisterInv, RegisterTypeOK, NewRegisterCall, RegisterCall
<1>2. RegisterTypeOK' /\ UsesLeft'
  BY <1>1, RegisterAssumption DEF RegisterInv, RegisterTypeOK, UsesLeft
<1>3. CarriesHad'
  BY <1>1 DEF RegisterInv, CarriesHad
<1>4. UnsavedIsMarked'
  BY <1>1 DEF RegisterInv, UnsavedIsMarked
<1> QED
  BY <1>2, <1>3, <1>4 DEF RegisterInv

\* Whatever the user does is an edit or a request.
LEMMA UserEditsOrAsks ==
  ASSUME RegisterUser
  PROVE  \/ UseRegister /\ SetRegisterField
         \/ \E op \in RegisterOps \ {"load"}, r \in Registers : AskRegister(op, r)
<1>1. CASE EditTask \/ EditMail \/ EditProvider \/ EditDomains
  BY <1>1 DEF EditTask, EditMail, EditProvider, EditDomains
<1>2. CASE SaveRegister \/ ResetRegister \/ ResetOutlookPool
  BY <1>2 DEF SaveRegister, ResetRegister, ResetOutlookPool, RegisterOps, Registers
<1>3. CASE ToggleRegister \/ ToggleNewRegister \/ ToggleGptFreeRegister
  BY <1>3 DEF ToggleRegister, ToggleNewRegister, ToggleGptFreeRegister, Toggled, RegisterOps, Registers
<1>4. CASE ResetNewRegisterStats \/ ResetGptFreeRegisterStats
  BY <1>4 DEF ResetNewRegisterStats, ResetGptFreeRegisterStats, RegisterOps, Registers
<1> QED
  BY <1>1, <1>2, <1>3, <1>4 DEF RegisterUser

LEMMA NextKeeps == RegisterInv /\ [RegisterNext]_registerVars => RegisterInv'
<1> SUFFICES ASSUME RegisterInv, [RegisterNext]_registerVars PROVE RegisterInv'
  OBVIOUS
<1>1. CASE RegisterUser
  BY <1>1, UserEditsOrAsks, EditKeeps, AskKeeps
<1>2. CASE RegisterWorks
  BY <1>2, ServedKeeps, LoadedKeeps, SavedKeeps, SendsKeeps, EventKeeps DEF RegisterWorks
<1>3. CASE \E c \in registerCalls : RegisterRefused(c)
  BY <1>3, RefusedKeeps
<1>4. CASE \E r \in Registers : RegisterStops(r)
  BY <1>4, StopsKeeps
<1>5. CASE UNCHANGED registerVars
  BY <1>5 DEF RegisterInv, RegisterTypeOK, UsesLeft, CarriesHad, UnsavedIsMarked, registerVars,
              registerPageVars, formVars
<1> QED
  BY <1>1, <1>2, <1>3, <1>4, <1>5 DEF RegisterNext

\* The invariant of the registration page.
THEOREM RegisterInvariant == RegisterSpec => []RegisterInv
<1> QED
  BY InitEstablishes, NextKeeps, PTL DEF RegisterSpec

\* The variables of the registration page keep their types: an edit, which
\* numbers its version by the uses that are left (setRegisterField of
\* settings/store.ts), never leaves the bound.
THEOREM RegisterTypes == RegisterSpec => []RegisterTypeOK
<1>1. RegisterInv => RegisterTypeOK
  BY DEF RegisterInv
<1> QED
  BY <1>1, RegisterInvariant, PTL

\* Whatever order saves, starts, answers and events of settings/store.ts and
\* register/page.tsx come in, a form without the mark for edits shows settings
\* the service has had, and a disabled button waits for a request.
THEOREM UnsavedIsAlwaysMarked == RegisterSpec => []UnsavedIsMarked
<1>1. RegisterInv => UnsavedIsMarked
  BY DEF RegisterInv
<1> QED
  BY <1>1, RegisterInvariant, PTL

(***************************************************************************)
(* The scheduler of a register.                                            *)
(***************************************************************************)
InFlight(r) == r.working + r.oks + r.others

\* What a run keeps to, the last one (last) or one that was replaced.
RunInv(r, last) ==
    /\ r.step # "ended" => InFlight(r) <= r.threads
    /\ r.step = "submit" => InFlight(r) < r.threads /\ r.cfg \in r.asked
    /\ r.step \in {"again", "idle", "ended"} => InFlight(r) = 0
    /\ r.step = "drain" => r.faulted
    /\ last /\ r.step = "dispatch" => r.cfg \in r.asked
    /\ r.success + r.oks <= r.made
    /\ ~r.faulted =>
        /\ last /\ r.step # "ended" => r.made = r.success + r.oks
        /\ r.step = "again" => r.made = 0
        /\ r.step = "submit" /\ r.cfg.mode = "total" => r.made + r.working < r.cfg.target
        /\ (\A t \in r.asked : t.mode = "total") => \E t \in r.asked : r.made + r.working <= t.target

SchedulerInv ==
    /\ SchedulerTypeOK /\ OnHasScheduler /\ CountsOwnResults
    /\ tasks \subseteq [mode : {"total", "available"}, target : Nat \ {0}, threads : Nat \ {0}]
    /\ \A g \in RunNumbers : RunInv(runs[g], g = generation)
    /\ stats.run \in {0, generation} /\ generation + schedulerUse <= SchedulerUses
    /\ generation > 0 => task \in runs[generation].asked

TaskRec == [mode : {"total", "available"}, target : Nat \ {0}, threads : Nat \ {0}]

\* A sequence of runs is a function, and a function on 1..n a sequence.
LEMMA RunsOK ==
    ASSUME SchedulerInv
    PROVE  /\ generation \in Nat /\ RunNumbers = 1..generation
           /\ \A g \in RunNumbers : runs[g] \in Run /\ RunInv(runs[g], g = generation)
BY LenProperties DEF SchedulerInv, SchedulerTypeOK, generation, RunNumbers

LEMMA BoundsTyped ==
    ASSUME SchedulerInv
    PROVE  normal \in Nat /\ schedulerUse \in Nat /\ enabled \in BOOLEAN
BY DEF SchedulerInv, SchedulerTypeOK

LEMMA FunctionIsSeq ==
    ASSUME NEW n \in Nat, NEW S, NEW f \in [1..n -> S]
    PROVE  f \in Seq(S) /\ Len(f) = n
<1>1. f \in Seq(S)
    BY SeqDef
<1>2. Len(f) \in Nat /\ DOMAIN f = 1..Len(f)
    BY <1>1, LenProperties
<1>3. 1..Len(f) = 1..n
    BY <1>2
<1>4. \A m, k \in Nat : 1..m = 1..k => m <= k
    <2> SUFFICES ASSUME NEW m \in Nat, NEW k \in Nat, 1..m = 1..k
                 PROVE  m <= k
        OBVIOUS
    <2>1. CASE m = 0
        BY <2>1
    <2>2. CASE m # 0
        <3>1. m \in 1..m
            BY <2>2
        <3> QED BY <3>1
    <2> QED BY <2>1, <2>2
<1>5. Len(f) <= n /\ n <= Len(f)
    BY <1>2, <1>3, <1>4
<1> QED BY <1>1, <1>2, <1>5

LEMMA SchedulerInitInv == SchedulerInit => SchedulerInv
<1> SUFFICES ASSUME SchedulerInit PROVE SchedulerInv
    OBVIOUS
<1> USE DEF SchedulerInit
<1>1. PICK f \in FirstSchedules : tasks = f[1] /\ schedulerUse = f[2]
    OBVIOUS
<1>2. tasks \subseteq TaskRec /\ schedulerUse \in 0..SchedulerUses
    BY <1>1, SchedulerAssumption DEF TaskRec
<1>3. runs \in Seq(Run) /\ generation = 0 /\ \A g : g \notin RunNumbers
    BY EmptySeq DEF generation, RunNumbers
<1>4. SchedulerTypeOK
    <2>1. schedulerUse \in Nat /\ 0 \in 0..SchedulerUses
        BY <1>2, SchedulerAssumption
    <2>2. stats \in [run : 0..SchedulerUses, success : Nat, running : Nat]
        BY <2>1 DEF NoStats
    <2> QED BY <1>3, <2>1, <2>2 DEF SchedulerTypeOK
<1>5. OnHasScheduler /\ CountsOwnResults
    BY <1>3 DEF OnHasScheduler, CountsOwnResults, NoStats
<1>6. stats.run = 0 /\ generation + schedulerUse <= SchedulerUses
    BY <1>2, <1>3, SchedulerAssumption DEF NoStats
<1> QED BY <1>2, <1>3, <1>4, <1>5, <1>6 DEF SchedulerInv, TaskRec

(***************************************************************************)
(* What a replaced run keeps to is less; a run that ends, or is stopped,   *)
(* or is given another task by a request.                                  *)
(***************************************************************************)
LEMMA ReplacedKeeps ==
    ASSUME NEW r, RunInv(r, TRUE)
    PROVE  RunInv(r, FALSE)
BY DEF RunInv

LEMMA StoppedKeeps ==
    ASSUME NEW r \in Run, NEW last \in BOOLEAN, RunInv(r, last), NEW b \in BOOLEAN
    PROVE  [r EXCEPT !.stopped = b] \in Run /\ RunInv([r EXCEPT !.stopped = b], last)
           /\ [r EXCEPT !.stopped = b].asked = r.asked /\ [r EXCEPT !.stopped = b].made = r.made
           /\ [r EXCEPT !.stopped = b].step = r.step /\ [r EXCEPT !.stopped = b].faulted = r.faulted
           /\ [r EXCEPT !.stopped = b].stopped = b
BY DEF Run, RunInv, InFlight

LEMMA AskedKeeps ==
    ASSUME tasks \subseteq TaskRec, NEW r \in Run, NEW last \in BOOLEAN, RunInv(r, last), NEW t \in tasks
    PROVE  /\ [r EXCEPT !.asked = @ \cup {t}] \in Run /\ RunInv([r EXCEPT !.asked = @ \cup {t}], last)
           /\ t \in [r EXCEPT !.asked = @ \cup {t}].asked
<1> DEFINE s == [r EXCEPT !.asked = @ \cup {t}]
<1>1. s \in Run /\ s.asked = r.asked \cup {t}
    BY DEF Run
<1>2. /\ s.step = r.step /\ s.cfg = r.cfg /\ s.threads = r.threads /\ s.success = r.success /\ s.working = r.working
      /\ s.oks = r.oks /\ s.others = r.others /\ s.made = r.made /\ s.faulted = r.faulted
    BY DEF Run
<1> HIDE DEF s
<1>3. (\A x \in s.asked : x.mode = "total") => \A x \in r.asked : x.mode = "total"
    BY <1>1
<1>4. RunInv(s, last)
    BY <1>1, <1>2, <1>3 DEF RunInv, InFlight
<1> QED BY <1>1, <1>4 DEF s

LEMMA EndedRun ==
    ASSUME NEW r \in Run
    PROVE  /\ Ended(r) \in Run /\ Ended(r).step = "ended" /\ Ended(r).made = r.made /\ Ended(r).asked = r.asked
           /\ Ended(r).success = 0 /\ Ended(r).stopped /\ Ended(r).working = 0 /\ Ended(r).oks = 0
           /\ Ended(r).others = 0 /\ Ended(r).faulted = r.faulted
BY DEF Ended, Run, RunSteps, NoTask

LEMMA EndedKeeps ==
    ASSUME tasks \subseteq TaskRec, NEW r \in Run, NEW last \in BOOLEAN, RunInv(r, last),
           NEW e \in Run, e.step = "ended", e.made = r.made, e.asked = r.asked,
           e.success = 0, e.working = 0, e.oks = 0, e.others = 0, ~e.faulted => ~r.faulted
    PROVE  RunInv(e, last)
<1>1. r.made \in Nat /\ r.working \in Nat
    BY DEF Run
<1>2. ASSUME ~e.faulted, \A t \in e.asked : t.mode = "total"
      PROVE  \E t \in e.asked : e.made + e.working <= t.target
    <2>1. PICK t \in r.asked : r.made + r.working <= t.target
        BY <1>2 DEF RunInv
    <2>2. t.target \in Nat
        BY DEF Run, TaskRec
    <2> QED BY <1>1, <2>1, <2>2
<1> QED BY <1>1, <1>2 DEF RunInv, InFlight

(***************************************************************************)
(* Steps of one run (g, which becomes r).                                  *)
(***************************************************************************)
StatsOK(s) == s \in [run : 0..SchedulerUses, success : Nat, running : Nat]

LEMMA RunMoves ==
    ASSUME SchedulerInv, NEW g \in RunNumbers, NEW r \in Run, runs' = [runs EXCEPT ![g] = r],
           RunInv(r, g = generation), r.asked = runs[g].asked, UNCHANGED <<tasks, task>>,
           enabled' \in BOOLEAN, normal' \in Nat, schedulerUse' \in Nat, schedulerUse' <= schedulerUse,
           StatsOK(stats'), stats'.run = stats.run, OnHasScheduler', CountsOwnResults'
    PROVE  SchedulerInv'
<1>1. /\ runs \in Seq(Run) /\ generation \in Nat /\ RunNumbers = 1..generation
      /\ \A h \in RunNumbers : RunInv(runs[h], h = generation)
    BY RunsOK DEF SchedulerInv, SchedulerTypeOK
<1>2. /\ runs' \in Seq(Run) /\ generation' = generation
      /\ \A h \in RunNumbers : runs'[h] = IF h = g THEN r ELSE runs[h]
    BY <1>1, ExceptSeq DEF generation
<1>3. RunNumbers' = RunNumbers
    BY <1>2, LenProperties DEF generation, RunNumbers, SchedulerInv, SchedulerTypeOK
<1>4. \A h \in RunNumbers' : RunInv(runs'[h], h = generation')
    BY <1>1, <1>2, <1>3
<1>5. SchedulerTypeOK'
    <2>1. UNCHANGED Run
        BY DEF Run
    <2>2. \A h \in RunNumbers' : runs'[h].step # "ended" => Futures(h)' <= runs'[h].threads
        BY <1>4 DEF RunInv, InFlight, Futures
    <2>3. generation' \in 0..SchedulerUses /\ task' \in tasks'
        BY <1>2 DEF SchedulerInv, SchedulerTypeOK
    <2> QED BY <1>2, <2>1, <2>2, <2>3 DEF SchedulerTypeOK, StatsOK
<1>6. /\ stats'.run \in {0, generation'} /\ tasks' \subseteq TaskRec
      /\ generation' + schedulerUse' <= SchedulerUses
    <2>1. stats'.run \in {0, generation'}
        BY <1>2 DEF SchedulerInv
    <2>2. tasks' \subseteq TaskRec
        BY DEF SchedulerInv, TaskRec
    <2>3. /\ schedulerUse \in Nat /\ generation \in Nat /\ SchedulerUses \in Nat
          /\ generation + schedulerUse <= SchedulerUses
        BY <1>1, SchedulerAssumption DEF SchedulerInv, SchedulerTypeOK
    <2> HIDE DEF generation
    <2>4. generation' + schedulerUse' <= SchedulerUses
        <3>1. \A a, b, c \in Nat : a + b <= SchedulerUses /\ c <= b => a + c <= SchedulerUses
            BY <2>3
        <3> QED BY <1>2, <2>3, <3>1
    <2> QED BY <2>1, <2>2, <2>4
<1>7. generation' > 0 => task' \in runs'[generation'].asked
    <2>1. generation > 0 => generation \in RunNumbers
        BY <1>1
    <2> QED BY <1>2, <2>1 DEF SchedulerInv
<1> QED BY <1>4, <1>5, <1>6, <1>7 DEF SchedulerInv, TaskRec

\* The statistics are left alone, or written by the last run.
Told(g, r) ==
    \/ UNCHANGED stats
    \/ /\ Current(g) /\ StatsOK(stats') /\ stats'.run = stats.run
       /\ stats'.success \in {stats.success, r.success}

LEMMA StatsWritten ==
    ASSUME StatsOK(stats), NEW n \in Nat, NEW m \in Nat, stats' = [stats EXCEPT !.success = n, !.running = m]
    PROVE  StatsOK(stats') /\ stats'.run = stats.run /\ stats'.success = n
BY DEF StatsOK

\* A run that does not end.
LEMMA RunGoes ==
    ASSUME SchedulerInv, NEW g \in RunNumbers, NEW r \in Run, runs' = [runs EXCEPT ![g] = r],
           RunInv(r, g = generation), r.asked = runs[g].asked, r.made >= runs[g].made, Told(g, r),
           runs[g].step # "ended", r.step # "ended", r.stopped = runs[g].stopped,
           UNCHANGED <<tasks, task, enabled>>, normal' \in Nat, schedulerUse' \in Nat, schedulerUse' <= schedulerUse
    PROVE  SchedulerInv'
<1>1. /\ runs \in Seq(Run) /\ generation \in Nat /\ RunNumbers = 1..generation
      /\ \A h \in RunNumbers : runs[h] \in Run /\ RunInv(runs[h], h = generation)
    BY RunsOK DEF SchedulerInv, SchedulerTypeOK
<1>2. /\ generation' = generation
      /\ \A h \in RunNumbers : runs'[h] = IF h = g THEN r ELSE runs[h]
    BY <1>1, ExceptSeq DEF generation
<1>3. StatsOK(stats) /\ r.success \in Nat /\ r.oks \in Nat /\ r.made \in Nat /\ runs[g].made \in Nat
    BY <1>1 DEF SchedulerInv, SchedulerTypeOK, StatsOK, Run
<1>4. StatsOK(stats') /\ stats'.run = stats.run
      /\ (stats'.success = stats.success \/ (g = generation /\ stats'.success = r.success))
      /\ (g # generation => stats'.success = stats.success)
    BY <1>3 DEF Told, StatsOK, Current
<1>5. OnHasScheduler'
    <2>1. generation > 0 => generation \in RunNumbers
        BY <1>1
    <2> QED BY <1>2, <2>1 DEF SchedulerInv, OnHasScheduler
<1>6. CountsOwnResults'
    <2>1. generation > 0 /\ generation \in RunNumbers
        BY <1>1
    <2>2. stats'.success <= runs'[generation].made
        <3>1. runs[generation].made \in Nat /\ stats.success \in Nat /\ stats.success <= runs[generation].made
            BY <1>1, <1>3, <2>1 DEF SchedulerInv, CountsOwnResults, Run, StatsOK
        <3>2. runs'[generation].made >= runs[generation].made /\ runs'[generation].made \in Nat
            BY <1>1, <1>2, <1>3, <2>1, <3>1
        <3>3. g = generation => r.success <= runs'[generation].made
            BY <1>2, <1>3, <2>1 DEF RunInv
        <3> QED BY <1>4, <3>1, <3>2, <3>3
    <2>3. ASSUME stats'.run > 0, runs'[stats'.run].step = "ended", ~runs'[stats'.run].faulted
          PROVE  stats'.success = runs'[stats'.run].made
        <3>1. stats'.run = generation /\ g # generation
            BY <1>2, <1>4, <2>1, <2>3 DEF SchedulerInv
        <3> QED BY <1>2, <1>4, <2>1, <2>3, <3>1 DEF SchedulerInv, CountsOwnResults
    <2> QED BY <1>2, <2>1, <2>2, <2>3 DEF CountsOwnResults
<1> QED BY <1>4, <1>5, <1>6, RunMoves DEF SchedulerInv, SchedulerTypeOK

\* A run that ends.
LEMMA RunEnds ==
    ASSUME SchedulerInv, NEW g \in RunNumbers, runs[g].step # "ended", EndsRun(g),
           enabled' \in BOOLEAN, Current(g) => ~enabled', ~Current(g) => enabled' = enabled,
           \/ ~Current(g) /\ UNCHANGED stats
           \/ /\ Current(g) /\ StatsOK(stats') /\ stats'.run = stats.run
              /\ stats'.success <= runs[g].made
              /\ ~runs[g].faulted => stats'.success = runs[g].made,
           UNCHANGED <<tasks, task, normal, schedulerUse>>
    PROVE  SchedulerInv'
<1>1. /\ runs \in Seq(Run) /\ generation \in Nat /\ RunNumbers = 1..generation
      /\ \A h \in RunNumbers : runs[h] \in Run /\ RunInv(runs[h], h = generation)
    BY RunsOK DEF SchedulerInv, SchedulerTypeOK
<1> DEFINE r == Ended(runs[g])
<1>2. /\ r \in Run /\ RunInv(r, g = generation) /\ r.step = "ended" /\ r.made = runs[g].made
      /\ r.asked = runs[g].asked /\ r.faulted = runs[g].faulted /\ r.stopped
    <2>1. PICK a \in Run : a = runs[g]
        BY <1>1
    <2>2. PICK last \in BOOLEAN : last = (g = generation)
        OBVIOUS
    <2>3. RunInv(a, last) /\ tasks \subseteq TaskRec
        BY <1>1, <2>1, <2>2 DEF SchedulerInv, TaskRec
    <2>4. PICK e : e = Ended(a)
        OBVIOUS
    <2>5. /\ e \in Run /\ e.step = "ended" /\ e.made = a.made /\ e.asked = a.asked
          /\ e.success = 0 /\ e.stopped /\ e.working = 0 /\ e.oks = 0 /\ e.others = 0 /\ e.faulted = a.faulted
        BY <2>4, EndedRun
    <2>6. RunInv(e, last)
        <3>1. ~e.faulted => ~a.faulted
            BY <2>5
        <3> QED BY <2>3, <2>5, <3>1, EndedKeeps
    <2>7. r = e
        BY <2>1, <2>4
    <2> HIDE DEF r
    <2> QED BY <2>1, <2>2, <2>5, <2>6, <2>7
<1>3. runs' = [runs EXCEPT ![g] = r]
    BY DEF EndsRun
<1> HIDE DEF r
<1>4. /\ generation' = generation
      /\ \A h \in RunNumbers : runs'[h] = IF h = g THEN r ELSE runs[h]
    BY <1>1, <1>2, <1>3, ExceptSeq DEF generation
<1>5. StatsOK(stats) /\ StatsOK(stats') /\ stats'.run = stats.run
    BY DEF SchedulerInv, SchedulerTypeOK, StatsOK
<1>7. OnHasScheduler'
    <2>1. generation > 0 => generation \in RunNumbers
        BY <1>1
    <2> QED BY <1>2, <1>4, <2>1 DEF SchedulerInv, OnHasScheduler, Current
<1>8. CountsOwnResults'
    <2>1. generation > 0 /\ generation \in RunNumbers
        BY <1>1
    <2>2. CASE Current(g)
        BY <1>2, <1>4, <1>5, <2>1, <2>2 DEF SchedulerInv, CountsOwnResults, Current
    <2>3. CASE ~Current(g)
        BY <1>4, <2>1, <2>3 DEF SchedulerInv, CountsOwnResults, Current
    <2> QED BY <2>2, <2>3
<1>9. normal' \in Nat /\ schedulerUse' \in Nat /\ schedulerUse' <= schedulerUse
    BY DEF SchedulerInv, SchedulerTypeOK
<1> QED BY <1>2, <1>3, <1>5, <1>7, <1>8, <1>9, RunMoves DEF SchedulerInv

(***************************************************************************)
(* The registrations.                                                      *)
(***************************************************************************)
\* A run that is written as a, which is in Run and keeps to RunInv.
LEMMA WorkerSucceedsInv ==
    ASSUME SchedulerInv, NEW g \in RunNumbers, WorkerSucceeds(g)
    PROVE  SchedulerInv'
<1>1. PICK a \in Run : a = runs[g]
    BY RunsOK
<1>2. PICK last \in BOOLEAN : last = (g = generation)
    OBVIOUS
<1>3. PICK r : r = [a EXCEPT !.working = @ - 1, !.oks = @ + 1, !.made = @ + 1]
    OBVIOUS
<1>4. RunInv(a, last) /\ a.working > 0 /\ runs' = [runs EXCEPT ![g] = r]
    BY <1>1, <1>2, <1>3, RunsOK DEF WorkerSucceeds, Outcome
<1>5. /\ a.working \in Nat /\ a.oks \in Nat /\ a.others \in Nat /\ a.made \in Nat /\ a.success \in Nat
      /\ a.threads \in Nat
    BY DEF Run
<1>6. /\ r \in Run /\ r.working = a.working - 1 /\ r.oks = a.oks + 1 /\ r.made = a.made + 1
      /\ r.step = a.step /\ r.others = a.others /\ r.success = a.success /\ r.threads = a.threads
      /\ r.cfg = a.cfg /\ r.asked = a.asked /\ r.faulted = a.faulted /\ r.stopped = a.stopped
    <2>1. a.working - 1 \in Nat /\ a.oks + 1 \in Nat /\ a.others + 1 \in Nat /\ a.made + 1 \in Nat
        BY <1>4, <1>5
    <2>2. r \in Run
        BY <1>3, <2>1 DEF Run
    <2> QED BY <1>3, <2>2 DEF Run
<1>7. a.step \notin {"again", "idle", "ended"}
    BY <1>4, <1>5 DEF RunInv, InFlight
<1>8. RunInv(r, last) /\ r.made + r.working = a.made + a.working
    BY <1>4, <1>5, <1>6, <1>7 DEF RunInv, InFlight
<1>9. /\ normal' \in Nat /\ schedulerUse' \in Nat /\ schedulerUse' <= schedulerUse
      /\ UNCHANGED <<tasks, task, enabled, stats>>
    BY DEF WorkerSucceeds, Outcome, DoesNotUse, SchedulerInv, SchedulerTypeOK
<1>10. Told(g, r) /\ r.made >= a.made
    BY <1>5, <1>6, <1>9 DEF Told
<1> QED BY <1>1, <1>2, <1>4, <1>6, <1>7, <1>8, <1>9, <1>10, RunGoes

LEMMA WorkerFailsInv ==
    ASSUME SchedulerInv, NEW g \in RunNumbers, WorkerFails(g) \/ WorkerCancelled(g)
    PROVE  SchedulerInv'
<1>1. PICK a \in Run : a = runs[g]
    BY RunsOK
<1>2. PICK last \in BOOLEAN : last = (g = generation)
    OBVIOUS
<1>3. PICK r : r = [a EXCEPT !.working = @ - 1, !.others = @ + 1]
    OBVIOUS
<1>4. RunInv(a, last) /\ a.working > 0 /\ runs' = [runs EXCEPT ![g] = r]
    BY <1>1, <1>2, <1>3, RunsOK DEF WorkerFails, WorkerCancelled, Outcome
<1>5. /\ a.working \in Nat /\ a.oks \in Nat /\ a.others \in Nat /\ a.made \in Nat /\ a.success \in Nat
      /\ a.threads \in Nat
    BY DEF Run
<1>6. /\ r \in Run /\ r.working = a.working - 1 /\ r.oks = a.oks /\ r.made = a.made
      /\ r.step = a.step /\ r.others = a.others + 1 /\ r.success = a.success /\ r.threads = a.threads
      /\ r.cfg = a.cfg /\ r.asked = a.asked /\ r.faulted = a.faulted /\ r.stopped = a.stopped
    <2>1. a.working - 1 \in Nat /\ a.oks + 1 \in Nat /\ a.others + 1 \in Nat /\ a.made + 1 \in Nat
        BY <1>4, <1>5
    <2>2. r \in Run
        BY <1>3, <2>1 DEF Run
    <2> QED BY <1>3, <2>2 DEF Run
<1>7. a.step \notin {"again", "idle", "ended"}
    BY <1>4, <1>5 DEF RunInv, InFlight
<1>8. RunInv(r, last)
    <2>1. ASSUME NEW n \in Nat, a.made + a.working <= n
          PROVE  r.made + r.working <= n
        BY <1>4, <1>5, <1>6, <2>1
    <2>2. a.step = "submit" /\ a.cfg.mode = "total" /\ ~a.faulted => r.made + r.working < r.cfg.target
        <3>1. a.cfg.mode = "total" /\ a.step = "submit" => a.cfg.target \in Nat
            BY <1>4, <1>6 DEF RunInv, SchedulerInv, Run
        <3> QED BY <1>4, <1>5, <1>6, <3>1 DEF RunInv
    <2>3. \A t \in a.asked : t.target \in Nat
        BY DEF Run, SchedulerInv
    <2> QED BY <1>4, <1>5, <1>6, <1>7, <2>1, <2>2, <2>3 DEF RunInv, InFlight
<1>9. /\ normal' \in Nat /\ schedulerUse' \in Nat /\ schedulerUse' <= schedulerUse
      /\ UNCHANGED <<tasks, task, enabled, stats>>
    BY SchedulerAssumption DEF WorkerFails, WorkerCancelled, Outcome, DoesNotUse, UseScheduler, SchedulerInv, SchedulerTypeOK
<1>10. Told(g, r) /\ r.made >= a.made
    BY <1>5, <1>6, <1>9 DEF Told
<1> QED BY <1>1, <1>2, <1>4, <1>6, <1>7, <1>8, <1>9, <1>10, RunGoes

(***************************************************************************)
(* The thread of a run.                                                    *)
(***************************************************************************)
LEMMA RunLoopInv ==
    ASSUME SchedulerInv, NEW g \in RunNumbers, RunLoop(g)
    PROVE  SchedulerInv'
<1>1. PICK a \in Run : a = runs[g]
    BY RunsOK
<1>2. PICK last \in BOOLEAN : last = (g = generation)
    OBVIOUS
<1>3. RunInv(a, last) /\ a.step = "again" /\ UNCHANGED <<tasks, task, enabled, normal, schedulerUse>>
    BY <1>1, <1>2, RunsOK DEF RunLoop, RunIs, DoesNotUse
<1>4. /\ a.oks = 0 /\ a.working = 0 /\ a.others = 0 /\ a.made \in Nat /\ a.success \in Nat
      /\ ~a.faulted => a.made = 0
    BY <1>3 DEF RunInv, InFlight, Run
<1>5. /\ normal \in Nat /\ schedulerUse \in Nat /\ enabled \in BOOLEAN /\ StatsOK(stats)
      /\ generation > 0 => stats.success <= runs[generation].made
    BY DEF SchedulerInv, SchedulerTypeOK, StatsOK, CountsOwnResults
<1>6. generation \in Nat /\ generation > 0
    BY RunsOK
<1>7. CASE /\ Active(g) /\ UNCHANGED stats
           /\ StepWith(g, [runs[g] EXCEPT !.success = stats.success, !.threads = task.threads], "top")
    <2>1. PICK n \in Nat : n = stats.success
        BY <1>5 DEF StatsOK
    <2>2. PICK m \in Nat : m = task.threads
        BY DEF SchedulerInv, SchedulerTypeOK
    <2>3. PICK r : r = [a EXCEPT !.success = n, !.threads = m, !.step = "top"]
        OBVIOUS
    <2>4. runs' = [runs EXCEPT ![g] = r]
        BY <1>1, <1>7, <2>1, <2>2, <2>3 DEF StepWith, Run
    <2>5. /\ r \in Run /\ r.step = "top" /\ r.success = n /\ r.threads = m /\ r.working = 0 /\ r.oks = 0
          /\ r.others = 0 /\ r.asked = a.asked /\ r.made = a.made /\ r.faulted = a.faulted
          /\ r.stopped = a.stopped
        BY <1>4, <2>3 DEF Run, RunSteps
    <2>6. n <= a.made
        BY <1>1, <1>5, <1>6, <1>7, <2>1 DEF Active, Current
    <2>7. RunInv(r, last)
        BY <1>3, <1>4, <2>5, <2>6 DEF RunInv, InFlight
    <2>8. Told(g, r) /\ r.made >= a.made
        BY <1>4, <1>7, <2>5 DEF Told
    <2>9. /\ runs[g].step # "ended" /\ r.step # "ended"
          /\ normal' \in Nat /\ schedulerUse' \in Nat /\ schedulerUse' <= schedulerUse
        BY <1>1, <1>3, <1>5, <2>5
    <2> QED BY <1>1, <1>2, <1>3, <2>4, <2>5, <2>7, <2>8, <2>9, RunGoes
<1>8. CASE ~Active(g) /\ LeavesRun(g)
    <2>1. EndsRun(g) /\ runs[g].step # "ended" /\ enabled' \in BOOLEAN /\ enabled' = enabled
        BY <1>1, <1>3, <1>5, <1>8 DEF LeavesRun
    <2>2. Current(g) => ~enabled'
        BY <1>3, <1>8 DEF Active, Current, SchedulerInv, OnHasScheduler
    <2>3. CASE Current(g)
        <3>1. stats.success \in Nat /\ StatsOK(stats') /\ stats'.run = stats.run /\ stats'.success = stats.success
            BY <1>5, <1>8, <2>3 DEF LeavesRun, BumpGeneration, StatsOK
        <3>2. stats'.success <= runs[g].made /\ (~runs[g].faulted => stats'.success = runs[g].made)
            BY <1>1, <1>4, <1>5, <1>6, <2>3, <3>1 DEF Current
        <3> QED BY <1>3, <2>1, <2>2, <2>3, <3>1, <3>2, RunEnds
    <2>4. CASE ~Current(g)
        <3>1. UNCHANGED stats
            BY <1>8, <2>4 DEF LeavesRun, BumpGeneration
        <3> QED BY <1>3, <2>1, <2>2, <2>4, <3>1, RunEnds
    <2> QED BY <2>3, <2>4
<1> QED BY <1>7, <1>8 DEF RunLoop

LEMMA ReadConfigInv ==
    ASSUME SchedulerInv, NEW g \in RunNumbers, ReadConfig(g) \/ Pressure(g)
    PROVE  SchedulerInv'
<1>1. PICK a \in Run : a = runs[g]
    BY RunsOK
<1>2. PICK last \in BOOLEAN : last = (g = generation)
    OBVIOUS
<1>3. /\ RunInv(a, last) /\ a.step = "top" /\ UNCHANGED <<tasks, task, enabled, normal, stats>>
      /\ normal' \in Nat /\ schedulerUse' \in Nat /\ schedulerUse' <= schedulerUse
    BY <1>1, <1>2, RunsOK, BoundsTyped DEF ReadConfig, Pressure, RunIs, DoesNotUse, UseScheduler
<1>4. PICK p \in BOOLEAN, s \in {"dispatch", "report"} :
        runs' = [runs EXCEPT ![g] = [a EXCEPT !.cfg = task, !.paused = p, !.step = s]]
    <2>1. CASE ReadConfig(g)
        <3>1. runs' = [runs EXCEPT ![g] = [a EXCEPT !.cfg = task, !.paused = FALSE, !.step = "dispatch"]]
            BY <1>1, <2>1 DEF ReadConfig, StepWith, Run
        <3> QED BY <3>1
    <2>2. CASE Pressure(g)
        <3>1. runs' = [runs EXCEPT ![g] = [a EXCEPT !.cfg = task, !.paused = TRUE, !.step = "report"]]
            BY <1>1, <2>2 DEF Pressure, StepWith, Run
        <3> QED BY <3>1
    <2> QED BY <2>1, <2>2
<1>5. PICK r : r = [a EXCEPT !.cfg = task, !.paused = p, !.step = s]
    OBVIOUS
<1>6. /\ r \in Run /\ r.step = s /\ r.cfg = task /\ r.success = a.success /\ r.threads = a.threads
      /\ r.working = a.working /\ r.oks = a.oks /\ r.others = a.others /\ r.asked = a.asked
      /\ r.made = a.made /\ r.faulted = a.faulted /\ r.stopped = a.stopped
    <2>1. task \in tasks
        BY DEF SchedulerInv, SchedulerTypeOK
    <2>2. r \in Run
        BY <1>5, <2>1 DEF Run, RunSteps
    <2> QED BY <1>5, <2>2 DEF Run
<1>7. last => task \in a.asked
    <2>1. ASSUME g = generation
          PROVE  task \in a.asked
        <3>1. generation > 0
            BY <2>1, RunsOK
        <3> QED BY <1>1, <2>1, <3>1 DEF SchedulerInv
    <2> QED BY <1>2, <2>1
<1>8. RunInv(r, last)
    BY <1>3, <1>6, <1>7 DEF RunInv, InFlight
<1>9. Told(g, r) /\ r.made >= a.made
    BY <1>3, <1>6 DEF Told, Run
<1> QED BY <1>1, <1>2, <1>3, <1>4, <1>5, <1>6, <1>8, <1>9, RunGoes

\* Only the last run, which counts all of its own, looks for room.
LEMMA DispatchInv ==
    ASSUME SchedulerInv, NEW g \in RunNumbers, Dispatch(g)
    PROVE  SchedulerInv'
<1>1. PICK a \in Run : a = runs[g]
    BY RunsOK
<1>2. PICK last \in BOOLEAN : last = (g = generation)
    OBVIOUS
<1>3. /\ RunInv(a, last) /\ a.step = "dispatch"
      /\ UNCHANGED <<tasks, task, enabled, normal, stats, schedulerUse>>
      /\ normal' \in Nat /\ schedulerUse' \in Nat /\ schedulerUse' <= schedulerUse
    BY <1>1, <1>2, RunsOK, BoundsTyped DEF Dispatch, RunIs, DoesNotUse
<1>4. PICK s : s = IF MayDispatch(g) THEN "submit" ELSE "report"
    OBVIOUS
<1>5. PICK r : r = [a EXCEPT !.step = s]
    OBVIOUS
<1>6. /\ r \in Run /\ r.step = s /\ r.cfg = a.cfg /\ r.success = a.success /\ r.threads = a.threads
      /\ r.working = a.working /\ r.oks = a.oks /\ r.others = a.others /\ r.asked = a.asked
      /\ r.made = a.made /\ r.faulted = a.faulted /\ r.stopped = a.stopped
    BY <1>4, <1>5 DEF Run, RunSteps
<1>7. runs' = [runs EXCEPT ![g] = r]
    BY <1>1, <1>4, <1>5 DEF Dispatch, StepTo
<1>8. /\ a.working \in Nat /\ a.oks \in Nat /\ a.others \in Nat /\ a.made \in Nat /\ a.success \in Nat
      /\ a.threads \in Nat
    BY DEF Run
<1>9. ASSUME s = "submit"
      PROVE  /\ last /\ InFlight(a) < a.threads /\ a.cfg \in a.asked
             /\ a.cfg.mode = "total" /\ ~a.faulted => a.made + a.working < a.cfg.target
    <2>1. MayDispatch(g)
        BY <1>4, <1>9
    <2>2. last /\ InFlight(a) < a.threads
        BY <1>1, <1>2, <2>1 DEF MayDispatch, Active, Current, Futures, InFlight
    <2>3. a.cfg \in a.asked
        BY <1>3, <2>2 DEF RunInv
    <2>4. ASSUME a.cfg.mode = "total", ~a.faulted
          PROVE  a.made + a.working < a.cfg.target
        <3>1. a.made = a.success + a.oks
            BY <1>3, <2>2, <2>4 DEF RunInv
        <3>2. ~(a.success + InFlight(a) >= a.cfg.target)
            BY <1>1, <2>1, <2>4 DEF MayDispatch, Reached, Futures, InFlight
        <3>3. a.cfg.target \in Nat
            BY <2>3 DEF Run, SchedulerInv
        <3> QED BY <1>8, <3>1, <3>2, <3>3 DEF InFlight
    <2> QED BY <2>2, <2>3, <2>4
<1>10. RunInv(r, last)
    BY <1>3, <1>4, <1>6, <1>8, <1>9 DEF RunInv, InFlight
<1>11. Told(g, r) /\ r.made >= a.made
    BY <1>3, <1>6, <1>8 DEF Told
<1> QED BY <1>1, <1>2, <1>3, <1>4, <1>6, <1>7, <1>10, <1>11, RunGoes

LEMMA SubmitInv ==
    ASSUME SchedulerInv, NEW g \in RunNumbers, Submit(g)
    PROVE  SchedulerInv'
<1>1. PICK a \in Run : a = runs[g]
    BY RunsOK
<1>2. PICK last \in BOOLEAN : last = (g = generation)
    OBVIOUS
<1>3. /\ RunInv(a, last) /\ a.step = "submit"
      /\ UNCHANGED <<tasks, task, enabled, normal, stats, schedulerUse>>
      /\ normal' \in Nat /\ schedulerUse' \in Nat /\ schedulerUse' <= schedulerUse
    BY <1>1, <1>2, RunsOK, BoundsTyped DEF Submit, RunIs, DoesNotUse
<1>4. PICK r : r = [a EXCEPT !.working = @ + 1, !.step = "dispatch"]
    OBVIOUS
<1>5. /\ a.working \in Nat /\ a.oks \in Nat /\ a.others \in Nat /\ a.made \in Nat /\ a.success \in Nat
      /\ a.threads \in Nat
    BY DEF Run
<1>6. /\ r \in Run /\ r.step = "dispatch" /\ r.cfg = a.cfg /\ r.success = a.success /\ r.threads = a.threads
      /\ r.working = a.working + 1 /\ r.oks = a.oks /\ r.others = a.others /\ r.asked = a.asked
      /\ r.made = a.made /\ r.faulted = a.faulted /\ r.stopped = a.stopped
    <2>1. a.working + 1 \in Nat
        BY <1>5
    <2>2. r \in Run
        BY <1>4, <2>1 DEF Run, RunSteps
    <2> QED BY <1>4, <2>2 DEF Run
<1>7. runs' = [runs EXCEPT ![g] = r]
    BY <1>1, <1>4 DEF Submit, StepWith, Run
<1>8. RunInv(r, last)
    <2>1. ASSUME ~a.faulted, \A t \in a.asked : t.mode = "total"
          PROVE  \E t \in a.asked : r.made + r.working <= t.target
        <3>1. a.cfg \in a.asked /\ a.made + a.working < a.cfg.target
            BY <1>3, <2>1 DEF RunInv
        <3>2. a.cfg.target \in Nat
            BY <3>1 DEF Run, SchedulerInv
        <3>3. r.made + r.working <= a.cfg.target
            BY <1>5, <1>6, <3>1, <3>2
        <3> QED BY <3>1, <3>3
    <2> QED BY <1>3, <1>5, <1>6, <2>1 DEF RunInv, InFlight
<1>9. Told(g, r) /\ r.made >= a.made
    BY <1>3, <1>5, <1>6 DEF Told
<1> QED BY <1>1, <1>2, <1>3, <1>6, <1>7, <1>8, <1>9, RunGoes

LEMMA ReportInv ==
    ASSUME SchedulerInv, NEW g \in RunNumbers, Report(g)
    PROVE  SchedulerInv'
<1>1. PICK a \in Run : a = runs[g]
    BY RunsOK
<1>2. PICK last \in BOOLEAN : last = (g = generation)
    OBVIOUS
<1>3. /\ RunInv(a, last) /\ a.step = "report"
      /\ UNCHANGED <<tasks, task, enabled, normal, schedulerUse>>
      /\ normal' \in Nat /\ schedulerUse' \in Nat /\ schedulerUse' <= schedulerUse
    BY <1>1, <1>2, RunsOK, BoundsTyped DEF Report, RunIs, DoesNotUse
<1>4. PICK s : s = IF InFlight(a) = 0 THEN "idle" ELSE "wait"
    OBVIOUS
<1>5. PICK r : r = [a EXCEPT !.step = s]
    OBVIOUS
<1>6. /\ r \in Run /\ r.step = s /\ r.cfg = a.cfg /\ r.success = a.success /\ r.threads = a.threads
      /\ r.working = a.working /\ r.oks = a.oks /\ r.others = a.others /\ r.asked = a.asked
      /\ r.made = a.made /\ r.faulted = a.faulted /\ r.stopped = a.stopped
    BY <1>4, <1>5 DEF Run, RunSteps
<1>7. /\ a.working \in Nat /\ a.oks \in Nat /\ a.others \in Nat /\ a.made \in Nat /\ a.success \in Nat
      /\ Futures(g) = InFlight(a) /\ InFlight(a) \in Nat
    BY <1>1 DEF Run, Futures, InFlight
<1>8. runs' = [runs EXCEPT ![g] = r]
    BY <1>1, <1>4, <1>5, <1>7 DEF Report, StepTo
<1>9. RunInv(r, last)
    BY <1>3, <1>4, <1>6 DEF RunInv, InFlight
<1>10. Told(g, r) /\ r.made >= a.made
    <2>1. StatsOK(stats)
        BY DEF SchedulerInv, SchedulerTypeOK, StatsOK
    <2>2. CASE Current(g)
        <3>1. stats' = [stats EXCEPT !.success = a.success, !.running = InFlight(a)]
            BY <1>1, <1>7, <2>2 DEF Report, BumpGeneration
        <3>2. StatsOK(stats') /\ stats'.run = stats.run /\ stats'.success = a.success
            BY <1>7, <2>1, <3>1, StatsWritten
        <3> QED BY <1>6, <1>7, <2>2, <3>2 DEF Told
    <2>3. CASE ~Current(g)
        BY <1>6, <1>7, <2>3 DEF Report, BumpGeneration, Told
    <2> QED BY <2>2, <2>3
<1> QED BY <1>1, <1>2, <1>3, <1>4, <1>6, <1>8, <1>9, <1>10, RunGoes

LEMMA IdleEndsInv ==
    ASSUME SchedulerInv, NEW g \in RunNumbers, IdleEnds(g)
    PROVE  SchedulerInv'
<1>1. PICK a \in Run : a = runs[g]
    BY RunsOK
<1>2. /\ RunInv(a, g = generation) /\ a.step = "idle" /\ EndsRun(g)
      /\ UNCHANGED <<tasks, task, normal, schedulerUse>>
    BY <1>1, RunsOK DEF IdleEnds, FinishRun, RunIs, DoesNotUse
<1>3. a.success \in Nat /\ a.made \in Nat /\ a.oks = 0
    BY <1>2 DEF RunInv, InFlight, Run
<1>4. /\ enabled' \in BOOLEAN /\ (Current(g) => ~enabled') /\ (~Current(g) => enabled' = enabled)
    BY DEF IdleEnds, FinishRun, SchedulerInv, SchedulerTypeOK
<1>5. CASE Current(g)
    <2>1. StatsOK(stats)
        BY DEF SchedulerInv, SchedulerTypeOK, StatsOK
    <2>2. stats' = [stats EXCEPT !.success = a.success, !.running = 0]
        BY <1>1, <1>5 DEF IdleEnds, FinishRun, BumpGeneration
    <2>3. StatsOK(stats') /\ stats'.run = stats.run /\ stats'.success = a.success
        BY <1>3, <2>1, <2>2 DEF StatsOK
    <2>4. a.success <= a.made /\ (~a.faulted => a.success = a.made)
        BY <1>2, <1>3, <1>5 DEF RunInv, Current
    <2> QED BY <1>1, <1>2, <1>4, <1>5, <2>3, <2>4, RunEnds
<1>6. CASE ~Current(g)
    <2>1. UNCHANGED stats
        BY <1>6 DEF IdleEnds, FinishRun, BumpGeneration
    <2> QED BY <1>1, <1>2, <1>4, <1>6, <2>1, RunEnds
<1> QED BY <1>5, <1>6

\* A run that looks again, having counted nothing.
LEMMA LooksAgainInv ==
    ASSUME SchedulerInv, NEW g \in RunNumbers, CheckAgain(g) \/ WaitTimesOut(g)
    PROVE  SchedulerInv'
<1>1. PICK a \in Run : a = runs[g]
    BY RunsOK
<1>2. PICK last \in BOOLEAN : last = (g = generation)
    OBVIOUS
<1>3. /\ RunInv(a, last) /\ a.step \in {"idle", "wait"}
      /\ UNCHANGED <<tasks, task, enabled, normal, stats, schedulerUse>>
      /\ normal' \in Nat /\ schedulerUse' \in Nat /\ schedulerUse' <= schedulerUse
    BY <1>1, <1>2, RunsOK, BoundsTyped DEF CheckAgain, WaitTimesOut, RunIs, DoesNotUse
<1>4. PICK r : r = [a EXCEPT !.step = "top"]
    OBVIOUS
<1>5. runs' = [runs EXCEPT ![g] = r]
    BY <1>1, <1>4 DEF CheckAgain, WaitTimesOut, StepTo
<1>6. /\ r \in Run /\ r.step = "top" /\ r.cfg = a.cfg /\ r.success = a.success /\ r.threads = a.threads
      /\ r.working = a.working /\ r.oks = a.oks /\ r.others = a.others /\ r.asked = a.asked
      /\ r.made = a.made /\ r.faulted = a.faulted /\ r.stopped = a.stopped
    BY <1>4 DEF Run, RunSteps
<1>7. RunInv(r, last)
    BY <1>3, <1>6 DEF RunInv, InFlight
<1>8. Told(g, r) /\ r.made >= a.made
    BY <1>3, <1>6 DEF Told, Run
<1> QED BY <1>1, <1>2, <1>3, <1>5, <1>6, <1>7, <1>8, RunGoes

LEMMA CollectInv ==
    ASSUME SchedulerInv, NEW g \in RunNumbers, Collect(g)
    PROVE  SchedulerInv'
<1>1. PICK a \in Run : a = runs[g]
    BY RunsOK
<1>2. PICK last \in BOOLEAN : last = (g = generation)
    OBVIOUS
<1>3. /\ RunInv(a, last) /\ a.step = "wait"
      /\ UNCHANGED <<tasks, task, enabled, normal, schedulerUse>>
      /\ normal' \in Nat /\ schedulerUse' \in Nat /\ schedulerUse' <= schedulerUse
    BY <1>1, <1>2, RunsOK, BoundsTyped DEF Collect, RunIs, DoesNotUse
<1>4. /\ a.working \in Nat /\ a.oks \in Nat /\ a.others \in Nat /\ a.made \in Nat /\ a.success \in Nat
      /\ a.threads \in Nat
    BY DEF Run
<1>5. PICK n \in Nat : n = IF last THEN a.success + a.oks ELSE a.success
    BY <1>4
<1>6. PICK r : r = [a EXCEPT !.success = n, !.oks = 0, !.others = 0, !.step = "top"]
    OBVIOUS
<1>7. /\ r \in Run /\ r.step = "top" /\ r.cfg = a.cfg /\ r.success = n /\ r.threads = a.threads
      /\ r.working = a.working /\ r.oks = 0 /\ r.others = 0 /\ r.asked = a.asked
      /\ r.made = a.made /\ r.faulted = a.faulted /\ r.stopped = a.stopped
    <2>1. r \in Run
        BY <1>6 DEF Run, RunSteps
    <2> QED BY <1>6, <2>1 DEF Run
<1>8. Counted(g) = [a EXCEPT !.success = n, !.oks = 0, !.others = 0]
    <2>1. CASE last
        BY <1>1, <1>2, <1>5, <2>1 DEF Counted, Current
    <2>2. CASE ~last
        <3>1. Counted(g) = [a EXCEPT !.success = @ + 0, !.oks = 0, !.others = 0]
            BY <1>1, <1>2, <2>2 DEF Counted, Current
        <3>2. a.success + 0 = n
            BY <1>4, <1>5, <2>2
        <3> QED BY <3>1, <3>2
    <2> QED BY <2>1, <2>2
<1>9. Counted(g).success = n
    BY <1>8 DEF Run
<1>10. runs' = [runs EXCEPT ![g] = r]
    BY <1>6, <1>8 DEF Collect, StepWith, Run
<1>11. RunInv(r, last)
    BY <1>3, <1>4, <1>5, <1>7 DEF RunInv, InFlight
<1>12. Told(g, r) /\ r.made >= a.made
    <2>1. StatsOK(stats)
        BY DEF SchedulerInv, SchedulerTypeOK, StatsOK
    <2>2. CASE Current(g)
        <3>1. stats' = [stats EXCEPT !.success = n, !.running = a.working]
            BY <1>1, <1>9, <2>2 DEF Collect, BumpGeneration
        <3>2. StatsOK(stats') /\ stats'.run = stats.run /\ stats'.success = n
            BY <1>4, <2>1, <3>1, StatsWritten
        <3> QED BY <1>4, <1>7, <2>2, <3>2 DEF Told
    <2>3. CASE ~Current(g)
        BY <1>4, <1>7, <2>3 DEF Collect, BumpGeneration, Told
    <2> QED BY <2>2, <2>3
<1> QED BY <1>1, <1>2, <1>3, <1>7, <1>10, <1>11, <1>12, RunGoes

LEMMA LoopRaisesInv ==
    ASSUME SchedulerInv, NEW g \in RunNumbers, LoopRaises(g)
    PROVE  SchedulerInv'
<1>1. PICK a \in Run : a = runs[g]
    BY RunsOK
<1>2. PICK last \in BOOLEAN : last = (g = generation)
    OBVIOUS
<1>3. /\ RunInv(a, last) /\ a.step \in {"dispatch", "submit"}
      /\ UNCHANGED <<tasks, task, enabled, normal, stats>>
      /\ normal' \in Nat /\ schedulerUse' \in Nat /\ schedulerUse' <= schedulerUse
    BY <1>1, <1>2, RunsOK, BoundsTyped DEF LoopRaises, UseScheduler
<1>4. PICK r : r = [a EXCEPT !.faulted = TRUE, !.step = "drain"]
    OBVIOUS
<1>5. runs' = [runs EXCEPT ![g] = r]
    BY <1>1, <1>4 DEF LoopRaises, StepWith, Run
<1>6. /\ r \in Run /\ r.step = "drain" /\ r.cfg = a.cfg /\ r.success = a.success /\ r.threads = a.threads
      /\ r.working = a.working /\ r.oks = a.oks /\ r.others = a.others /\ r.asked = a.asked
      /\ r.made = a.made /\ r.faulted /\ r.stopped = a.stopped
    BY <1>4 DEF Run, RunSteps
<1>7. RunInv(r, last)
    BY <1>3, <1>6 DEF RunInv, InFlight
<1>8. Told(g, r) /\ r.made >= a.made
    BY <1>3, <1>6 DEF Told, Run
<1> QED BY <1>1, <1>2, <1>3, <1>5, <1>6, <1>7, <1>8, RunGoes

\* The results that nobody asked for are lost: the run is marked as such.
LEMMA SuperviseInv ==
    ASSUME SchedulerInv, NEW g \in RunNumbers, Supervise(g)
    PROVE  SchedulerInv'
<1>1. PICK a \in Run : a = runs[g]
    BY RunsOK
<1>2. PICK last \in BOOLEAN : last = (g = generation)
    OBVIOUS
<1>3. /\ RunInv(a, last) /\ a.step = "drain" /\ a.working = 0 /\ a.faulted
      /\ UNCHANGED <<tasks, task, enabled, normal, schedulerUse>>
      /\ normal' \in Nat /\ schedulerUse' \in Nat /\ schedulerUse' <= schedulerUse
    BY <1>1, <1>2, RunsOK, BoundsTyped DEF Supervise, RunIs, DoesNotUse, RunInv
<1>4. /\ a.made \in Nat /\ a.success \in Nat /\ a.oks \in Nat /\ a.others \in Nat /\ a.threads \in Nat
    BY DEF Run
<1>5. /\ StatsOK(stats)
      /\ Current(g) => /\ StatsOK(stats') /\ stats'.run = stats.run /\ stats'.success = stats.success
      /\ ~Current(g) => UNCHANGED stats
    BY DEF Supervise, BumpGeneration, SchedulerInv, SchedulerTypeOK, StatsOK
<1>6. CASE Active(g)
    <2>1. PICK r : r = [a EXCEPT !.oks = 0, !.others = 0, !.step = "again"]
        OBVIOUS
    <2>2. runs' = [runs EXCEPT ![g] = r]
        BY <1>1, <1>6, <2>1 DEF Supervise, StepWith, Run
    <2>3. /\ r \in Run /\ r.step = "again" /\ r.cfg = a.cfg /\ r.success = a.success /\ r.threads = a.threads
          /\ r.working = 0 /\ r.oks = 0 /\ r.others = 0 /\ r.asked = a.asked
          /\ r.made = a.made /\ r.faulted /\ r.stopped = a.stopped
        BY <1>3, <2>1 DEF Run, RunSteps
    <2>4. RunInv(r, last)
        BY <1>3, <1>4, <2>3 DEF RunInv, InFlight
    <2>5. Told(g, r) /\ r.made >= a.made
        BY <1>4, <1>5, <2>3 DEF Told
    <2> QED BY <1>1, <1>2, <1>3, <2>2, <2>3, <2>4, <2>5, RunGoes
<1>7. CASE ~Active(g)
    <2>1. EndsRun(g) /\ runs[g].step # "ended" /\ enabled' \in BOOLEAN /\ enabled' = enabled
        BY <1>1, <1>3, <1>7 DEF Supervise, SchedulerInv, SchedulerTypeOK
    <2>2. Current(g) => ~enabled'
        BY <1>3, <1>7 DEF Active, Current, SchedulerInv, OnHasScheduler
    <2>3. CASE Current(g)
        <3>1. generation > 0
            BY RunsOK
        <3>2. stats'.success <= runs[g].made
            BY <1>5, <2>3, <3>1 DEF SchedulerInv, CountsOwnResults, Current
        <3> QED BY <1>1, <1>3, <1>5, <2>1, <2>2, <2>3, <3>2, RunEnds
    <2>4. CASE ~Current(g)
        BY <1>3, <1>5, <2>1, <2>4, RunEnds
    <2> QED BY <2>3, <2>4
<1> QED BY <1>6, <1>7

(***************************************************************************)
(* Requests, and the start of the process.                                 *)
(***************************************************************************)
\* Requests that write every run, and start none.
LEMMA RunsWritten ==
    ASSUME SchedulerInv, NEW rs \in [RunNumbers -> Run], runs' = rs,
           \A h \in RunNumbers : /\ RunInv(rs[h], h = generation) /\ rs[h].made = runs[h].made
                                 /\ rs[h].step = "ended" /\ ~rs[h].faulted
                                    => runs[h].step = "ended" /\ ~runs[h].faulted,
           UNCHANGED tasks, task' \in tasks, generation > 0 => task' \in rs[generation].asked,
           StatsOK(stats'),
           (stats'.run = 0 /\ stats'.success = 0)
           \/ (stats'.run = stats.run /\ stats'.success = stats.success),
           enabled' \in BOOLEAN,
           enabled' <=> generation > 0 /\ ~rs[generation].stopped /\ rs[generation].step # "ended",
           normal' \in Nat, schedulerUse' \in Nat, schedulerUse' <= schedulerUse
    PROVE  SchedulerInv'
<1>1. /\ generation \in Nat /\ RunNumbers = 1..generation
      /\ \A h \in RunNumbers : runs[h] \in Run /\ RunInv(runs[h], h = generation)
    BY RunsOK
<1>2. runs' \in Seq(Run) /\ Len(runs') = generation
    BY <1>1, FunctionIsSeq
<1>3. generation' = generation /\ RunNumbers' = RunNumbers
    BY <1>1, <1>2 DEF generation, RunNumbers
<1>4. \A h \in RunNumbers' : RunInv(runs'[h], h = generation')
    BY <1>3
<1>5. SchedulerTypeOK'
    <2>1. UNCHANGED Run
        BY DEF Run
    <2>2. \A h \in RunNumbers' : runs'[h].step # "ended" => Futures(h)' <= runs'[h].threads
        BY <1>4 DEF RunInv, InFlight, Futures
    <2>3. generation' \in 0..SchedulerUses /\ task' \in tasks'
        BY <1>3 DEF SchedulerInv, SchedulerTypeOK
    <2> QED BY <1>2, <2>1, <2>2, <2>3 DEF SchedulerTypeOK, StatsOK
<1>6. stats'.run \in {0, generation'} /\ tasks' \subseteq TaskRec
    BY <1>3 DEF SchedulerInv, TaskRec
<1>7. generation' + schedulerUse' <= SchedulerUses
    <2>1. /\ schedulerUse \in Nat /\ SchedulerUses \in Nat /\ generation + schedulerUse <= SchedulerUses
        BY SchedulerAssumption DEF SchedulerInv, SchedulerTypeOK
    <2>2. \A a, b, c \in Nat : a + b <= SchedulerUses /\ c <= b => a + c <= SchedulerUses
        BY <2>1
    <2> QED BY <1>1, <1>3, <2>1, <2>2
<1>8. generation' > 0 => task' \in runs'[generation'].asked
    BY <1>3
<1>9. OnHasScheduler'
    BY <1>3 DEF OnHasScheduler
<1>10. CountsOwnResults'
    <2>1. CASE generation = 0
        BY <1>1, <1>3, <1>6, <2>1 DEF SchedulerInv, CountsOwnResults
    <2>2. CASE generation > 0
        <3>1. generation \in RunNumbers
            BY <1>1, <2>2
        <3>2. runs[generation].made \in Nat /\ stats'.success <= runs'[generation].made
            <4>1. runs[generation].made \in Nat /\ stats.success <= runs[generation].made
                BY <1>1, <2>2, <3>1 DEF Run, SchedulerInv, CountsOwnResults
            <4>2. runs'[generation].made = runs[generation].made
                BY <3>1
            <4> QED BY <4>1, <4>2
        <3>3. ASSUME stats'.run > 0, runs'[stats'.run].step = "ended", ~runs'[stats'.run].faulted
              PROVE  stats'.success = runs'[stats'.run].made
            <4>1. stats'.run = generation /\ stats'.run = stats.run /\ stats'.success = stats.success
                BY <1>3, <1>6, <2>2, <3>3
            <4> QED BY <2>2, <3>1, <3>3, <4>1 DEF SchedulerInv, CountsOwnResults
        <3> QED BY <1>3, <2>2, <3>2, <3>3 DEF CountsOwnResults
    <2> QED BY <1>1, <2>1, <2>2
<1> QED BY <1>4, <1>5, <1>6, <1>7, <1>8, <1>9, <1>10 DEF SchedulerInv, TaskRec

LEMMA StatsKept ==
    ASSUME SchedulerInv
    PROVE  /\ StatsOK(stats) /\ StatsOK(NoStats) /\ StatsOK(Normalised)
           /\ Normalised.run = stats.run /\ Normalised.success = stats.success
           /\ NoStats.run = 0 /\ NoStats.success = 0
           /\ normal \in Nat /\ schedulerUse \in Nat /\ schedulerUse - 1 <= schedulerUse /\ task \in tasks
           /\ generation > 0 => task \in runs[generation].asked
<1>1. StatsOK(stats)
    BY DEF SchedulerInv, SchedulerTypeOK, StatsOK
<1>2. StatsOK(NoStats) /\ NoStats.run = 0 /\ NoStats.success = 0
    BY SchedulerAssumption DEF StatsOK, NoStats
<1>3. StatsOK(Normalised) /\ Normalised.run = stats.run /\ Normalised.success = stats.success
    BY <1>1 DEF StatsOK, Normalised
<1>4. /\ normal \in Nat /\ schedulerUse \in Nat /\ schedulerUse - 1 <= schedulerUse /\ task \in tasks
      /\ generation > 0 => task \in runs[generation].asked
    BY DEF SchedulerInv, SchedulerTypeOK
<1> QED BY <1>1, <1>2, <1>3, <1>4

\* The stop event of the last run is set, or not.
LEMMA LastStoppedKeeps ==
    ASSUME SchedulerInv, NEW rs \in [RunNumbers -> Run], Len(rs) = generation,
           \A h \in RunNumbers : RunInv(rs[h], h = generation)
    PROVE  /\ LastStopped(rs) \in [RunNumbers -> Run]
           /\ \A h \in RunNumbers :
                /\ RunInv(LastStopped(rs)[h], h = generation) /\ LastStopped(rs)[h].made = rs[h].made
                /\ LastStopped(rs)[h].step = rs[h].step /\ LastStopped(rs)[h].faulted = rs[h].faulted
                /\ LastStopped(rs)[h].asked = rs[h].asked
                /\ h = generation => LastStopped(rs)[h].stopped
<1>1. \A h \in RunNumbers : rs[h] \in Run /\ rs[h].stopped \in BOOLEAN
    BY DEF Run
<1>2. DOMAIN rs = RunNumbers
    OBVIOUS
<1>3. ASSUME NEW h \in RunNumbers
      PROVE  /\ LastStopped(rs)[h] \in Run
             /\ RunInv(LastStopped(rs)[h], h = generation) /\ LastStopped(rs)[h].made = rs[h].made
             /\ LastStopped(rs)[h].step = rs[h].step /\ LastStopped(rs)[h].faulted = rs[h].faulted
             /\ LastStopped(rs)[h].asked = rs[h].asked
             /\ h = generation => LastStopped(rs)[h].stopped
    <2>1. PICK b \in BOOLEAN : b = (rs[h].stopped \/ h = generation)
        BY <1>1
    <2>2. PICK a \in Run : a = rs[h]
        BY <1>1
    <2>3. PICK last \in BOOLEAN : last = (h = generation)
        OBVIOUS
    <2>4. LastStopped(rs)[h] = [a EXCEPT !.stopped = b]
        BY <1>2, <2>1, <2>2 DEF LastStopped
    <2>5. RunInv(a, last)
        BY <2>2, <2>3
    <2>6. h = generation => b
        BY <2>1
    <2>7. PICK e : e = [a EXCEPT !.stopped = b]
        OBVIOUS
    <2>8. /\ e \in Run /\ RunInv(e, last) /\ e.asked = a.asked /\ e.made = a.made
          /\ e.step = a.step /\ e.faulted = a.faulted /\ e.stopped = b
        BY <2>5, <2>7, StoppedKeeps
    <2> QED BY <2>2, <2>3, <2>4, <2>6, <2>7, <2>8
<1>4. LastStopped(rs) = [h \in RunNumbers |-> LastStopped(rs)[h]]
    BY <1>2 DEF LastStopped
<1> QED BY <1>3, <1>4

LEMMA RunsAreFunction ==
    ASSUME SchedulerInv
    PROVE  runs \in [RunNumbers -> Run]
BY LenProperties DEF SchedulerInv, SchedulerTypeOK, RunNumbers

LEMMA StopRegisterInv ==
    ASSUME SchedulerInv, StopRegister
    PROVE  SchedulerInv'
<1>1. /\ UNCHANGED <<tasks, task, stats, normal>> /\ enabled' = FALSE
      /\ schedulerUse' \in Nat /\ schedulerUse' <= schedulerUse
    BY StatsKept DEF StopRegister, UseScheduler
<1>2. /\ LastStopped(runs) \in [RunNumbers -> Run] /\ runs' = LastStopped(runs)
      /\ \A h \in RunNumbers :
            /\ RunInv(LastStopped(runs)[h], h = generation) /\ LastStopped(runs)[h].made = runs[h].made
            /\ LastStopped(runs)[h].step = runs[h].step /\ LastStopped(runs)[h].faulted = runs[h].faulted
            /\ LastStopped(runs)[h].asked = runs[h].asked
            /\ h = generation => LastStopped(runs)[h].stopped
    <2>1. Len(runs) = generation
        BY DEF generation
    <2> QED BY <2>1, RunsOK, RunsAreFunction, LastStoppedKeeps DEF StopRegister
<1>3. generation > 0 => generation \in RunNumbers
    BY RunsOK
<1>4. PICK rs \in [RunNumbers -> Run] : rs = LastStopped(runs)
    BY <1>2
<1>5. \A h \in RunNumbers : /\ RunInv(rs[h], h = generation) /\ rs[h].made = runs[h].made
                             /\ rs[h].step = "ended" /\ ~rs[h].faulted
                                => runs[h].step = "ended" /\ ~runs[h].faulted
    BY <1>2, <1>4
<1>6. generation > 0 => task' \in rs[generation].asked /\ rs[generation].stopped
    BY <1>1, <1>2, <1>3, <1>4, StatsKept
<1>7. /\ StatsOK(stats') /\ stats'.run = stats.run /\ stats'.success = stats.success
      /\ normal' \in Nat /\ task' \in tasks
    BY <1>1, StatsKept
<1> QED BY <1>1, <1>2, <1>4, <1>5, <1>6, <1>7, RunsWritten

LEMMA ResetStatsInv ==
    ASSUME SchedulerInv, ResetStats \/ AccountLost
    PROVE  SchedulerInv'
<1>1. /\ UNCHANGED <<tasks, task, enabled, runs>> /\ (stats' = NoStats \/ stats' = stats)
      /\ schedulerUse' \in Nat /\ schedulerUse' <= schedulerUse /\ normal' \in Nat
    BY StatsKept DEF ResetStats, AccountLost, UseScheduler
<1>2. enabled \in BOOLEAN /\ OnHasScheduler
    BY DEF SchedulerInv, SchedulerTypeOK
<1> QED BY <1>1, <1>2, RunsOK, RunsAreFunction, StatsKept, RunsWritten DEF OnHasScheduler

LEMMA UpdateConfigInv ==
    ASSUME SchedulerInv, NEW t \in tasks, UpdateConfig(t)
    PROVE  SchedulerInv'
<1>1. /\ UNCHANGED <<tasks, enabled, normal>> /\ task' = t /\ stats' = Normalised
      /\ schedulerUse' \in Nat /\ schedulerUse' <= schedulerUse
    BY StatsKept DEF UpdateConfig, UseScheduler
<1>2. PICK rs : rs = [g \in RunNumbers |->
                        IF g = generation THEN [runs[g] EXCEPT !.asked = @ \cup {t}] ELSE runs[g]]
    OBVIOUS
<1>3. ASSUME NEW h \in RunNumbers
      PROVE  /\ rs[h] \in Run /\ RunInv(rs[h], h = generation) /\ rs[h].made = runs[h].made
             /\ rs[h].step = runs[h].step /\ rs[h].faulted = runs[h].faulted
             /\ rs[h].stopped = runs[h].stopped /\ (h = generation => t \in rs[h].asked)
    <2>1. CASE h = generation
        <3>1. PICK a \in Run : a = runs[h]
            BY RunsOK
        <3>2. PICK last \in BOOLEAN : last = (h = generation)
            OBVIOUS
        <3>3. RunInv(a, last) /\ tasks \subseteq TaskRec /\ rs[h] = [a EXCEPT !.asked = @ \cup {t}]
            BY <1>2, <2>1, <3>1, <3>2, RunsOK DEF SchedulerInv, TaskRec
        <3>4. rs[h] \in Run /\ RunInv(rs[h], last) /\ t \in rs[h].asked
            BY <3>3, AskedKeeps
        <3>5. rs[h].made = a.made /\ rs[h].step = a.step /\ rs[h].faulted = a.faulted /\ rs[h].stopped = a.stopped
            BY <3>3 DEF Run
        <3> QED BY <3>1, <3>2, <3>4, <3>5
    <2>2. CASE h # generation
        BY <1>2, <2>2, RunsOK
    <2> QED BY <2>1, <2>2
<1>4. rs \in [RunNumbers -> Run] /\ runs' = rs
    BY <1>2, <1>3 DEF UpdateConfig
<1>5. generation > 0 => generation \in RunNumbers
    BY RunsOK
<1>6. enabled \in BOOLEAN /\ OnHasScheduler
    BY DEF SchedulerInv, SchedulerTypeOK
<1>7. enabled' <=> generation > 0 /\ ~rs[generation].stopped /\ rs[generation].step # "ended"
    BY <1>1, <1>3, <1>5, <1>6 DEF OnHasScheduler
<1> QED BY <1>1, <1>3, <1>4, <1>5, <1>6, <1>7, StatsKept, RunsWritten

\* A start, beside the runs old that there are.
LEMMA StartsInv ==
    ASSUME SchedulerInv, NEW old \in [RunNumbers -> Run], NEW t \in tasks, Starts(old, t),
           \A h \in RunNumbers : RunInv(old[h], h = generation),
           UNCHANGED <<tasks, normal>>, schedulerUse > 0, schedulerUse' = schedulerUse - 1
    PROVE  SchedulerInv'
<1>1. /\ generation \in Nat /\ RunNumbers = 1..generation /\ schedulerUse \in Nat
      /\ SchedulerUses \in Nat /\ generation + schedulerUse <= SchedulerUses
    BY RunsOK, SchedulerAssumption DEF SchedulerInv, SchedulerTypeOK
<1>2. old \in Seq(Run) /\ Len(old) = generation
    BY <1>1, FunctionIsSeq
<1> DEFINE rs == LastStopped(old)
           n == NewRun(t)
<1>3. /\ rs \in [RunNumbers -> Run]
      /\ \A h \in RunNumbers : RunInv(rs[h], h = generation)
    BY <1>2, LastStoppedKeeps
<1>4. rs \in Seq(Run) /\ Len(rs) = generation
    BY <1>1, <1>3, FunctionIsSeq
<1>5. /\ n \in Run /\ n.step = "again" /\ ~n.stopped /\ ~n.faulted /\ n.made = 0 /\ n.asked = {t}
      /\ n.working = 0 /\ n.oks = 0 /\ n.others = 0 /\ n.success = 0 /\ n.threads = 0
    BY DEF NewRun, NoTask, Run, RunSteps
<1>6. /\ enabled' = TRUE /\ task' = t /\ runs' = Append(rs, n)
      /\ stats' = [NoStats EXCEPT !.run = Len(runs')]
    BY DEF Starts
<1>7. RunInv(n, TRUE)
    <2>1. t.target \in Nat
        BY DEF SchedulerInv
    <2> QED BY <1>5, <2>1 DEF RunInv, InFlight
<1> HIDE DEF rs, n
<1>8. /\ runs' \in Seq(Run) /\ Len(runs') = generation + 1
      /\ \A h \in 1..generation : runs'[h] = rs[h]
      /\ runs'[generation + 1] = n
    BY <1>1, <1>4, <1>5, <1>6, AppendProperties
<1>9. generation' = generation + 1 /\ RunNumbers' = 1..(generation + 1)
    <2>1. generation' = generation + 1
        BY <1>8 DEF generation
    <2>2. DOMAIN runs' = 1..Len(runs')
        BY <1>8, LenProperties
    <2> QED BY <1>8, <2>1, <2>2 DEF RunNumbers
<1>10. \A h \in RunNumbers' : RunInv(runs'[h], h = generation')
    <2> SUFFICES ASSUME NEW h \in 1..(generation + 1)
                 PROVE  RunInv(runs'[h], h = generation + 1)
        BY <1>9
    <2>1. CASE h = generation + 1
        BY <1>7, <1>8, <2>1
    <2>2. CASE h # generation + 1
        <3>1. h \in 1..generation
            BY <1>1, <2>2
        <3>2. PICK a : a = rs[h]
            OBVIOUS
        <3>3. RunInv(a, FALSE)
            <4>1. CASE h = generation
                <5>1. RunInv(a, TRUE)
                    BY <1>1, <1>3, <3>1, <3>2, <4>1
                <5> QED BY <5>1, ReplacedKeeps
            <4>2. CASE h # generation
                <5>1. (h = generation) = FALSE
                    BY <4>2
                <5> QED BY <1>1, <1>3, <3>1, <3>2, <5>1
            <4> QED BY <4>1, <4>2
        <3>4. (h = generation + 1) = FALSE
            BY <2>2
        <3> QED BY <1>8, <3>1, <3>2, <3>3, <3>4
    <2> QED BY <2>1, <2>2
<1>11. /\ StatsOK(stats') /\ stats'.run = generation' /\ stats'.success = 0
       /\ generation' + schedulerUse' <= SchedulerUses /\ schedulerUse' \in Nat
       /\ generation' \in 0..SchedulerUses /\ generation' > 0
    <2>1. /\ generation' + schedulerUse' <= SchedulerUses /\ schedulerUse' \in Nat
          /\ generation' \in 0..SchedulerUses /\ generation' > 0
        BY <1>1, <1>9
    <2>2. stats' = [NoStats EXCEPT !.run = generation']
        BY <1>6 DEF generation
    <2> HIDE DEF generation
    <2> QED BY <2>1, <2>2 DEF NoStats, StatsOK
<1>12. SchedulerTypeOK'
    <2>1. UNCHANGED Run
        BY DEF Run
    <2>2. \A h \in RunNumbers' : runs'[h].step # "ended" => Futures(h)' <= runs'[h].threads
        BY <1>10 DEF RunInv, InFlight, Futures
    <2>3. task' \in tasks' /\ enabled' \in BOOLEAN /\ normal' \in Nat
        BY <1>6 DEF SchedulerInv, SchedulerTypeOK
    <2> QED BY <1>8, <1>11, <2>1, <2>2, <2>3 DEF SchedulerTypeOK, StatsOK
<1>13. runs'[generation'] = n
    BY <1>8, <1>9
<1>14. OnHasScheduler' /\ CountsOwnResults'
    <2>1. OnHasScheduler'
        BY <1>5, <1>6, <1>11, <1>13 DEF OnHasScheduler
    <2>2. CountsOwnResults'
        BY <1>5, <1>11, <1>13 DEF CountsOwnResults
    <2> QED BY <2>1, <2>2
<1>15. tasks' \subseteq TaskRec /\ task' \in runs'[generation'].asked
    BY <1>5, <1>6, <1>13 DEF SchedulerInv, TaskRec
<1> QED BY <1>10, <1>11, <1>12, <1>14, <1>15 DEF SchedulerInv, TaskRec

LEMMA StartRegisterInv ==
    ASSUME SchedulerInv, NEW t \in tasks, StartRegister(t)
    PROVE  SchedulerInv'
BY RunsOK, RunsAreFunction, StartsInv DEF StartRegister, UseScheduler

\* A run whose process was ended has lost what it had in flight.
LEMMA RestartProcessInv ==
    ASSUME SchedulerInv, RestartProcess
    PROVE  SchedulerInv'
<1>1. PICK rs : rs = [g \in RunNumbers |->
                        [Ended(runs[g]) EXCEPT !.faulted = @ \/ runs[g].step # "ended"]]
    OBVIOUS
<1>2. /\ schedulerUse > 0 /\ schedulerUse' = schedulerUse - 1 /\ UNCHANGED <<tasks, normal>>
      /\ \/ enabled /\ Starts(rs, task)
         \/ /\ ~enabled /\ runs' = rs /\ stats' = Normalised /\ UNCHANGED <<enabled, task>>
    BY <1>1 DEF RestartProcess, UseScheduler
<1>3. ASSUME NEW h \in RunNumbers
      PROVE  /\ rs[h] \in Run /\ RunInv(rs[h], h = generation) /\ rs[h].made = runs[h].made
             /\ rs[h].step = "ended" /\ rs[h].asked = runs[h].asked
             /\ ~rs[h].faulted => runs[h].step = "ended" /\ ~runs[h].faulted
    <2>1. PICK a \in Run : a = runs[h]
        BY RunsOK
    <2>2. PICK last \in BOOLEAN : last = (h = generation)
        OBVIOUS
    <2>3. RunInv(a, last) /\ tasks \subseteq TaskRec
        BY <2>1, <2>2, RunsOK DEF SchedulerInv, TaskRec
    <2>4. PICK e : e = Ended(a)
        OBVIOUS
    <2>5. /\ e \in Run /\ e.step = "ended" /\ e.made = a.made /\ e.asked = a.asked
          /\ e.success = 0 /\ e.stopped /\ e.working = 0 /\ e.oks = 0 /\ e.others = 0 /\ e.faulted = a.faulted
        BY <2>4, EndedRun
    <2>6. PICK f \in BOOLEAN : f = (a.faulted \/ a.step # "ended")
        BY DEF Run
    <2>7. PICK d : d = [e EXCEPT !.faulted = f]
        OBVIOUS
    <2>8. rs[h] = d
        <3>1. rs[h] = [e EXCEPT !.faulted = @ \/ a.step # "ended"]
            BY <1>1, <2>1, <2>4
        <3>2. [e EXCEPT !.faulted = @ \/ a.step # "ended"] = [e EXCEPT !.faulted = f]
            BY <2>5, <2>6 DEF Run
        <3> QED BY <2>7, <3>1, <3>2
    <2>9. /\ d \in Run /\ d.step = "ended" /\ d.made = a.made /\ d.asked = a.asked /\ d.faulted = f
          /\ d.success = 0 /\ d.working = 0 /\ d.oks = 0 /\ d.others = 0
        BY <2>5, <2>7 DEF Run
    <2>10. RunInv(d, last)
        <3>1. ~d.faulted => ~a.faulted
            BY <2>6, <2>9
        <3> QED BY <2>3, <2>9, <3>1, EndedKeeps
    <2> QED BY <2>1, <2>2, <2>6, <2>8, <2>9, <2>10
<1>4. rs \in [RunNumbers -> Run]
    BY <1>1, <1>3
<1>5. CASE enabled /\ Starts(rs, task)
    BY <1>2, <1>3, <1>4, <1>5, StatsKept, StartsInv
<1>6. CASE ~enabled /\ runs' = rs /\ stats' = Normalised /\ UNCHANGED <<enabled, task>>
    <2>1. generation > 0 => generation \in RunNumbers
        BY RunsOK
    <2>2. /\ enabled' \in BOOLEAN
          /\ enabled' <=> generation > 0 /\ ~rs[generation].stopped /\ rs[generation].step # "ended"
        BY <1>3, <1>6, <2>1 DEF SchedulerInv, SchedulerTypeOK
    <2>3. schedulerUse' \in Nat /\ schedulerUse' <= schedulerUse
        BY <1>2, StatsKept
    <2> QED BY <1>2, <1>3, <1>4, <1>6, <2>1, <2>2, <2>3, StatsKept, RunsWritten
<1> QED BY <1>2, <1>5, <1>6

LEMMA SchedulerNextInv == SchedulerInv /\ [SchedulerNext]_schedulerVars => SchedulerInv'
<1> SUFFICES ASSUME SchedulerInv, [SchedulerNext]_schedulerVars PROVE SchedulerInv'
    OBVIOUS
<1>1. ASSUME NEW t \in tasks, StartRegister(t)
      PROVE  SchedulerInv'
    BY <1>1, StartRegisterInv
<1>2. ASSUME NEW t \in tasks, UpdateConfig(t)
      PROVE  SchedulerInv'
    BY <1>2, UpdateConfigInv
<1>3. CASE StopRegister
    BY <1>3, StopRegisterInv
<1>4. CASE ResetStats \/ AccountLost
    BY <1>4, ResetStatsInv
<1>5. CASE RestartProcess
    BY <1>5, RestartProcessInv
<1>6. ASSUME NEW g \in RunNumbers, RunGoesOn(g)
      PROVE  SchedulerInv'
    BY <1>6, RunLoopInv, ReadConfigInv, DispatchInv, SubmitInv, ReportInv, IdleEndsInv, LooksAgainInv,
       CollectInv, SuperviseInv, WorkerSucceedsInv, WorkerFailsInv DEF RunGoesOn
<1>7. ASSUME NEW g \in RunNumbers, Pressure(g) \/ LoopRaises(g) \/ WorkerFails(g)
      PROVE  SchedulerInv'
    BY <1>7, ReadConfigInv, LoopRaisesInv, WorkerFailsInv
<1>8. CASE UNCHANGED schedulerVars
    <2> USE <1>8 DEF schedulerVars
    <2>1. SchedulerTypeOK' /\ OnHasScheduler' /\ CountsOwnResults'
        BY DEF SchedulerInv, SchedulerTypeOK, OnHasScheduler, CountsOwnResults, generation, RunNumbers, Futures, Run
    <2> QED BY <2>1 DEF SchedulerInv, generation, RunNumbers
<1> QED BY <1>1, <1>2, <1>3, <1>4, <1>5, <1>6, <1>7, <1>8 DEF SchedulerNext, SchedulerRequests, SchedulerGoesOn

LEMMA SchedulerInvTells == SchedulerInv => SchedulerTypeOK /\ OnHasScheduler /\ CountsOwnResults /\ TargetKept
BY DEF SchedulerInv, RunInv, TargetKept

\* The invariant of the scheduler.
THEOREM SchedulerInvariant == SchedulerSpec => []SchedulerInv
<1> QED
  BY SchedulerInitInv, SchedulerNextInv, PTL DEF SchedulerSpec

\* However starts, stops, resets, updates and restarts of the process meet the
\* threads of runs that are still at work (register_service.py), a register that
\* is on has a thread, a result counts for the run that made it, and no run
\* registers more than the target it was given.
THEOREM SchedulerKeepsTarget ==
  SchedulerSpec => [](SchedulerTypeOK /\ OnHasScheduler /\ CountsOwnResults /\ TargetKept)
<1> QED
  BY SchedulerInvariant, SchedulerInvTells, PTL
=============================================================================
