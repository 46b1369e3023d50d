------------------------ MODULE SettingsFormsProofs -------------------------
(***************************************************************************)
(* What a handler of the settings page goes on with was saved: for any     *)
(* handlers that save first, any bounds, and any saves that overlap, fail  *)
(* and are answered in any order.                                          *)
(*                                                                         *)
(* The invariant adds the step before: a save that was served is of a      *)
(* version the service has had, and only requests that come after a save   *)
(* are ever being worked on.                                               *)
(*                                                                         *)
(* And a button is disabled exactly while its handler is under way, once:  *)
(* across tabs and pages where the store keeps the flag, and while its     *)
(* card is mounted where the card does.  That invariant adds which steps a *)
(* handler has, and that of the handlers a button tells of there is one.   *)
(***************************************************************************)
EXTENDS SettingsForms, FiniteSetTheorems, TLAPS

\* A request is a record of these fields, whatever they hold.
IsFormCall(c) ==
    c = [op |-> c.op, step |-> c.step, here |-> c.here, key |-> c.key, version |-> c.version, n |-> c.n,
         on |-> c.on, items |-> c.items, state |-> c.state]

\* What one request knows of the versions in had.
CallInv(c, had) ==
    /\ IsFormCall(c)
    /\ c.state = "working" => c.step # "save"
    /\ c.op \in SaveFirst /\ (c.step # "save" \/ c.state = "served") => c.version \in had

FormInv == \A c \in formCalls : CallInv(c, hadSaved)

LEMMA OtherOps ==
  /\ \A op \in {"saveConfig", "testProxy", "load", "list", "poll", "remove", "detail"} : op \notin SaveFirst
BY FormAssumption DEF SaveFirst

\* A request some fields of which are changed is a request.
LEMMA SameFields ==
  ASSUME NEW c, NEW d, IsFormCall(c), d = [f \in DOMAIN c |-> d[f]]
  PROVE  IsFormCall(d)
<1>1. DOMAIN c = {"op", "step", "here", "key", "version", "n", "on", "items", "state"}
  BY DEF IsFormCall
<1> QED
  BY <1>1 DEF IsFormCall

\* The request d is c, gone on to its next step or with its state set.
Moved(c, d, next) == d = [c EXCEPT !.step = next, !.state = "sent"]
StateIs(c, d, state) == d = [c EXCEPT !.state = state]

\* One that goes on to its next step.
LEMMA NextStep ==
  ASSUME NEW c, NEW d, NEW next, IsFormCall(c), Moved(c, d, next)
  PROVE  IsFormCall(d) /\ d.op = c.op /\ d.step = next /\ d.state = "sent" /\ d.version = c.version
<1>1. d = [f \in DOMAIN c |-> IF f = "step" THEN next ELSE IF f = "state" THEN "sent" ELSE c[f]]
  BY DEF Moved
<1>2. IsFormCall(d)
  BY <1>1, SameFields
<1> QED
  BY <1>1, <1>2 DEF IsFormCall

\* One whose state alone is set.
LEMMA StateSet ==
  ASSUME NEW c, NEW d, NEW state, IsFormCall(c), StateIs(c, d, state)
  PROVE  IsFormCall(d) /\ d.op = c.op /\ d.step = c.step /\ d.state = state /\ d.version = c.version
<1>1. d = [f \in DOMAIN c |-> IF f = "state" THEN state ELSE c[f]]
  BY DEF StateIs
<1>2. IsFormCall(d)
  BY <1>1, SameFields
<1> QED
  BY <1>1, <1>2 DEF IsFormCall

LEMMA FormInitEstablishes == FormInit => FormInv
<1> SUFFICES ASSUME FormInit, NEW c \in formCalls PROVE CallInv(c, hadSaved)
  BY DEF FormInv
<1>1. c = [op |-> "load", step |-> "then", here |-> TRUE, key |-> NoBackup, version |-> 0, n |-> 0,
           on |-> FALSE, items |-> {}, state |-> "sent"]
  BY DEF FormInit
<1> QED
  BY <1>1, OtherOps DEF CallInv, IsFormCall

\* A step that replaces one request by others, and takes no version back.
LEMMA OthersKeep ==
  ASSUME FormInv, hadSaved \subseteq hadSaved', NEW c,
         \A d \in formCalls' : d \in formCalls \ {c} \/ CallInv(d, hadSaved')
  PROVE  FormInv'
BY DEF FormInv, CallInv

LEMMA FailsKeeps ==
  ASSUME FormInv, NEW c \in formCalls, FormCallFails(c)
  PROVE  FormInv'
<1>0. PICK d : StateIs(c, d, "failed")
  BY DEF StateIs
<1>1. CallInv(c, hadSaved)
  BY DEF FormInv
<1>2. hadSaved' = hadSaved /\ formCalls' = (formCalls \ {c}) \cup {d}
  BY <1>0 DEF StateIs, FormCallFails, AnswerForm, formServiceVars
<1>3. CallInv(d, hadSaved')
  <2>1. IsFormCall(c)
    BY <1>1 DEF CallInv
  <2>2. IsFormCall(d) /\ d.op = c.op /\ d.step = c.step /\ d.version = c.version /\ d.state = "failed"
    BY <1>0, <2>1, StateSet
  <2> QED
    BY <1>1, <1>2, <2>2 DEF CallInv
<1> QED
  BY <1>2, <1>3, OthersKeep

LEMMA ConfigSavedKeeps ==
  ASSUME FormInv, NEW c \in formCalls, ConfigSaved(c)
  PROVE  FormInv'
<1>0. PICK d : StateIs(c, d, "served")
  BY DEF StateIs
<1>1. CallInv(c, hadSaved)
  BY DEF FormInv
<1>2. hadSaved' = hadSaved \cup {c.version} /\ formCalls' = (formCalls \ {c}) \cup {d}
  BY <1>0 DEF StateIs, ConfigSaved, AnswerForm
<1>3. CallInv(d, hadSaved')
  <2>1. IsFormCall(c)
    BY <1>1 DEF CallInv
  <2>2. IsFormCall(d) /\ d.op = c.op /\ d.step = c.step /\ d.version = c.version /\ d.state = "served"
    BY <1>0, <2>1, StateSet
  <2> QED
    BY <1>1, <1>2, <2>2 DEF CallInv
<1> QED
  BY <1>2, <1>3, OthersKeep

LEMMA CallServedKeeps ==
  ASSUME FormInv, NEW c \in formCalls, FormCallServed(c)
  PROVE  FormInv'
<1>1. CallInv(c, hadSaved)
  BY DEF FormInv
<1>2. PICK version : version = IF c.op = "load" /\ c.step = "then" THEN keptConfig ELSE c.version
  OBVIOUS
<1> DEFINE d == [c EXCEPT !.state = "served", !.items = backupFiles, !.on = backupRuns,
                          !.version = version]
<1>3. hadSaved' = hadSaved /\ formCalls' = (formCalls \ {c}) \cup {d} /\ c.step # "save"
  BY <1>2 DEF FormCallServed, AnswerForm, formServiceVars
<1>4. CallInv(d, hadSaved')
  <2>1. IsFormCall(d) /\ d.state = "served" /\ d.op = c.op /\ d.version = version
    <3>1. IsFormCall(c)
      BY <1>1 DEF CallInv
    <3>2. PICK e : e = d
      OBVIOUS
    <3>3. e = [f \in DOMAIN c |-> IF f = "state" THEN "served" ELSE IF f = "version" THEN version
                                 ELSE IF f = "items" THEN backupFiles ELSE IF f = "on" THEN backupRuns
                                 ELSE c[f]]
      BY <3>2
    <3>4. IsFormCall(e)
      BY <3>1, <3>3, SameFields
    <3>5. e.state = "served" /\ e.op = c.op /\ e.version = version
      BY <3>1, <3>3 DEF IsFormCall
    <3> QED
      BY <3>2, <3>4, <3>5
  <2>2. c.op \in SaveFirst => version = c.version
    BY <1>2, OtherOps
  <2> QED
    BY <1>1, <1>3, <2>1, <2>2 DEF CallInv
<1> QED
  BY <1>3, <1>4, OthersKeep

LEMMA RemovedKeeps ==
  ASSUME FormInv, NEW c \in formCalls, BackupRemoved(c)
  PROVE  FormInv'
<1>0. PICK d : StateIs(c, d, "served")
  BY DEF StateIs
<1>1. CallInv(c, hadSaved)
  BY DEF FormInv
<1>2. hadSaved' = hadSaved /\ formCalls' = (formCalls \ {c}) \cup {d} /\ c.step = "then"
  BY <1>0 DEF StateIs, BackupRemoved, AnswerForm
<1>3. CallInv(d, hadSaved')
  <2>1. IsFormCall(c)
    BY <1>1 DEF CallInv
  <2>2. IsFormCall(d) /\ d.op = c.op /\ d.step = c.step /\ d.version = c.version /\ d.state = "served"
    BY <1>0, <2>1, StateSet
  <2> QED
    BY <1>1, <1>2, <2>2 DEF CallInv
<1> QED
  BY <1>2, <1>3, OthersKeep

LEMMA BeginsKeeps ==
  ASSUME FormInv, NEW c \in formCalls, BackupBegins(c)
  PROVE  FormInv'
<1>5. PICK state : state = IF backupRuns THEN "failed" ELSE "working"
  OBVIOUS
<1>0. PICK d : StateIs(c, d, state)
  BY DEF StateIs
<1>1. CallInv(c, hadSaved)
  BY DEF FormInv
<1>2. hadSaved' = hadSaved /\ formCalls' = (formCalls \ {c}) \cup {d} /\ c.step = "then"
  BY <1>5, <1>0 DEF StateIs, BackupBegins, AnswerForm
<1>3. CallInv(d, hadSaved')
  <2>1. IsFormCall(c)
    BY <1>1 DEF CallInv
  <2>2. IsFormCall(d) /\ d.op = c.op /\ d.step = c.step /\ d.version = c.version /\ d.state = state
    BY <1>0, <2>1, StateSet
  <2> QED
    BY <1>1, <1>2, <1>5, <2>2 DEF CallInv
<1> QED
  BY <1>2, <1>3, OthersKeep

LEMMA EndsKeeps ==
  ASSUME FormInv, BackupEnds
  PROVE  FormInv'
<1>1. PICK made \in {{}} \cup {{k} : k \in BackupKeys} :
        formCalls' = {IF c.state # "working" THEN c
                      ELSE [c EXCEPT !.state = IF made = {} THEN "failed" ELSE "served"] : c \in formCalls}
  BY DEF BackupEnds
<1>2. hadSaved' = hadSaved
  BY DEF BackupEnds
<1>3. ASSUME NEW d \in formCalls' PROVE CallInv(d, hadSaved')
  <2>1. PICK c \in formCalls :
          d = IF c.state # "working" THEN c
              ELSE [c EXCEPT !.state = IF made = {} THEN "failed" ELSE "served"]
    BY <1>1
  <2>2. CallInv(c, hadSaved)
    BY DEF FormInv
  <2>3. CASE c.state # "working"
    BY <1>2, <2>1, <2>2, <2>3
  <2>4. CASE c.state = "working"
    <3>1. PICK new : new # "working" /\ StateIs(c, d, new)
      BY <2>1, <2>4 DEF StateIs
    <3>2. IsFormCall(c)
      BY <2>2 DEF CallInv
    <3>3. IsFormCall(d) /\ d.op = c.op /\ d.step = c.step /\ d.version = c.version /\ d.state = new
      BY <3>1, <3>2, StateSet
    <3> QED
      BY <1>2, <2>2, <2>4, <3>1, <3>3 DEF CallInv
  <2> QED
    BY <2>3, <2>4
<1> QED
  BY <1>3 DEF FormInv

\* A handler goes on after its save, which was served.
LEMMA SaveAnsweredKeeps ==
  ASSUME FormInv, NEW c \in formCalls, SaveAnswered(c)
  PROVE  FormInv'
<1>0. PICK d : Moved(c, d, "then")
  BY DEF Moved
<1>1. CallInv(c, hadSaved)
  BY DEF FormInv
<1>2. hadSaved' = hadSaved
  BY DEF SaveAnswered, FormAnswer, formServiceVars
<1>3. CASE GoesOn(c)
  <2>1. formCalls' = (formCalls \ {c}) \cup {d} /\ c.state = "served"
    BY <1>0, <1>3 DEF Moved, SaveAnswered, Onwards, GoesOn, Served
  <2>2. CallInv(d, hadSaved')
    <3>1. IsFormCall(c)
      BY <1>1 DEF CallInv
    <3>2. IsFormCall(d) /\ d.op = c.op /\ d.step = "then" /\ d.state = "sent" /\ d.version = c.version
      BY <1>0, <3>1, NextStep
    <3> QED
      BY <1>1, <1>2, <2>1, <3>2 DEF CallInv
  <2>3. \A e \in formCalls' : e \in formCalls \ {c} \/ CallInv(e, hadSaved')
    BY <2>1, <2>2
  <2> QED
    BY <1>2, <2>3, OthersKeep
<1>4. CASE ~GoesOn(c)
  <2>1. formCalls' = formCalls \ {c}
    BY <1>4 DEF SaveAnswered, WithoutForm
  <2> QED
    BY <1>2, <2>1, OthersKeep
<1> QED
  BY <1>3, <1>4

\* After a backup, or a deletion, the list is loaded.
LEMMA RelistKeeps ==
  ASSUME FormInv, NEW c \in formCalls, BackupRan(c) \/ RemoveAnswered(c)
  PROVE  FormInv'
<1>0. PICK d : Moved(c, d, "list")
  BY DEF Moved
<1>1. CallInv(c, hadSaved)
  BY DEF FormInv
<1>2. hadSaved' = hadSaved /\ c.step = "then"
      /\ (formCalls' = (formCalls \ {c}) \cup {d} \/ formCalls' = formCalls \ {c})
  BY <1>0 DEF Moved, BackupRan, RemoveAnswered, FormAnswer, formServiceVars, Onwards, WithoutForm
<1>3. CallInv(d, hadSaved')
  <2>1. IsFormCall(c)
    BY <1>1 DEF CallInv
  <2>2. IsFormCall(d) /\ d.op = c.op /\ d.step = "list" /\ d.state = "sent" /\ d.version = c.version
    BY <1>0, <2>1, NextStep
  <2> QED
    BY <1>1, <1>2, <2>2 DEF CallInv
<1> QED
  BY <1>2, <1>3, OthersKeep

\* The other answers end their handlers.
LEMMA AnswersKeep ==
  ASSUME FormInv, NEW c \in formCalls,
         TestAnswered(c) \/ BackupsLoaded(c) \/ DetailLoaded(c)
  PROVE  FormInv'
<1>1. hadSaved' = hadSaved /\ formCalls' = formCalls \ {c}
  BY DEF TestAnswered, BackupsLoaded, DetailLoaded, FormAnswer, formServiceVars, WithoutForm
<1> QED
  BY <1>1, OthersKeep

\* A request that is new is a save, or of a handler that saves nothing.
LEMMA NewCallInv ==
  ASSUME NEW op, NEW step, NEW key, NEW had, step = "save" \/ op \notin SaveFirst
  PROVE  CallInv(NewFormCall(op, step, key), had)
BY DEF CallInv, IsFormCall, NewFormCall

\* A request whose card is unmounted is the same otherwise.
LEMMA WithoutCardKeeps ==
  ASSUME FormInv, NEW d \in WithoutCard
  PROVE  CallInv(d, hadSaved)
<1>1. PICK c \in formCalls : d = IF c.op \in LocalOps THEN [c EXCEPT !.here = FALSE] ELSE c
  BY DEF WithoutCard
<1>2. CallInv(c, hadSaved) /\ IsFormCall(c)
  BY DEF FormInv, CallInv
<1>3. CASE d = c
  BY <1>2, <1>3
<1>4. CASE d = [c EXCEPT !.here = FALSE]
  <2>1. d = [f \in DOMAIN c |-> IF f = "here" THEN FALSE ELSE c[f]]
    BY <1>4
  <2>2. IsFormCall(d)
    BY <1>2, <2>1, SameFields
  <2>3. d.op = c.op /\ d.step = c.step /\ d.state = c.state /\ d.version = c.version
    BY <1>2, <2>1 DEF IsFormCall
  <2> QED
    BY <1>2, <2>2, <2>3 DEF CallInv
<1> QED
  BY <1>1, <1>3, <1>4

\* After the load of initialize the pools are waited for, and the list follows.
LEMMA InitializeKeeps ==
  ASSUME FormInv, NEW c \in formCalls, ConfigLoaded(c) \/ InitializeBackups(c)
  PROVE  FormInv'
<1>1. CallInv(c, hadSaved) /\ IsFormCall(c)
  BY DEF FormInv, CallInv
<1>2. hadSaved' = hadSaved
  BY DEF ConfigLoaded, InitializeBackups, FormAnswer, formServiceVars
<1>3. CASE ConfigLoaded(c)
  <2>1. PICK d : d = [c EXCEPT !.step = "pools"]
    OBVIOUS
  <2>2. d = [f \in DOMAIN c |-> IF f = "step" THEN "pools" ELSE c[f]]
    BY <2>1
  <2>3. IsFormCall(d)
    BY <1>1, <2>2, SameFields
  <2>4. d.op = "load" /\ d.step = "pools"
    BY <1>1, <1>3, <2>2 DEF IsFormCall, ConfigLoaded
  <2>5. CallInv(d, hadSaved')
    BY <2>3, <2>4, OtherOps DEF CallInv
  <2>6. formCalls' = (formCalls \ {c}) \cup {d}
    BY <1>3, <2>1 DEF ConfigLoaded
  <2> QED
    BY <1>2, <2>5, <2>6, OthersKeep
<1>4. CASE InitializeBackups(c)
  <2>1. PICK d : Moved(c, d, "list")
    BY DEF Moved
  <2>2. IsFormCall(d) /\ d.op = c.op /\ d.step = "list" /\ d.state = "sent" /\ d.version = c.version
    BY <1>1, <2>1, NextStep
  <2>3. CallInv(d, hadSaved')
    BY <1>1, <1>2, <1>4, <2>2 DEF CallInv, InitializeBackups
  <2>4. formCalls' = (formCalls \ {c}) \cup {d} \/ formCalls' = formCalls \ {c}
    BY <1>4, <2>1 DEF Moved, InitializeBackups, Onwards, WithoutForm
  <2> QED
    BY <1>2, <2>3, <2>4, OthersKeep
<1> QED
  BY <1>3, <1>4

LEMMA UserKeeps ==
  ASSUME FormInv, FormUser
  PROVE  FormInv'
<1>1. hadSaved' = hadSaved
  BY DEF FormUser, EditBasics, EditTexts, EditStorage, EditRuntime, EditClearance, EditApplications, EditBackup, Field,
         ReopenSettings, SwitchTab, UseForm, UseBackups, TestProxy, SaveConfig, RunBackup, LoadBackups, CloseDetail, TestSettings,
         RemoveBackup, OpenDetail, AskForm, formServiceVars
<1>2. CASE SwitchTab(formTab') \/ ReopenSettings
  <2>1. CallInv(NewFormCall("load", "then", NoBackup), hadSaved)
    BY NewCallInv, OtherOps
  <2>2. \A d \in WithoutCard : CallInv(d, hadSaved)
    BY WithoutCardKeeps
  <2> QED
    BY <1>1, <1>2, <2>1, <2>2 DEF SwitchTab, ReopenSettings, FormInv
<1>5. \/ formCalls' = formCalls \/ SwitchTab(formTab') \/ ReopenSettings
      \/ \E op \in FormOps, step \in {"save", "then", "list"}, key \in BackupKeys \cup {NoBackup} :
           /\ step = "save" \/ op \notin SaveFirst
           /\ formCalls' = formCalls \cup {NewFormCall(op, step, key)}
  <2> USE OtherOps DEF FormOps
  <2>1. CASE EditBasics \/ EditTexts \/ EditStorage \/ EditRuntime \/ EditClearance \/ EditApplications \/ EditBackup
    BY <2>1 DEF EditBasics, EditTexts, EditStorage, EditRuntime, EditClearance, EditApplications, EditBackup, Field
  <2>2. CASE TestProxy
    BY <2>2 DEF TestProxy
  <2>3. CASE SaveConfig \/ RunBackup
    BY <2>3 DEF SaveConfig, RunBackup, AskForm, SaveFirst
  <2>4. CASE \E op \in Tests : TestSettings(op)
    BY <2>4 DEF TestSettings, AskForm, SaveFirst
  <2>5. CASE LoadBackups \/ CloseDetail
    BY <2>5 DEF LoadBackups, CloseDetail
  <2>6. CASE \E k \in BackupKeys : RemoveBackup(k) \/ OpenDetail(k)
    BY <2>6 DEF RemoveBackup, OpenDetail
  <2>7. CASE ReopenSettings \/ \E t \in FormTabs : SwitchTab(t)
    BY <2>7 DEF SwitchTab
  <2> QED
    BY <2>1, <2>2, <2>3, <2>4, <2>5, <2>6, <2>7 DEF FormUser
<1>3. CASE formCalls' = formCalls
  BY <1>1, <1>3 DEF FormInv
<1>4. CASE formCalls' # formCalls /\ ~SwitchTab(formTab') /\ ~ReopenSettings
  <2>1. PICK op \in FormOps, step \in {"save", "then", "list"}, key \in BackupKeys \cup {NoBackup} :
           /\ step = "save" \/ op \notin SaveFirst
           /\ formCalls' = formCalls \cup {NewFormCall(op, step, key)}
    BY <1>4, <1>5
  <2>2. CallInv(NewFormCall(op, step, key), hadSaved')
    BY <2>1, NewCallInv
  <2> QED
    BY <1>1, <2>1, <2>2 DEF FormInv
<1> QED
  BY <1>2, <1>3, <1>4

\* The request the page makes by itself.
LEMMA PageKeeps ==
  ASSUME FormInv, PollBackups
  PROVE  FormInv'
<1>1. hadSaved' = hadSaved
  BY DEF PollBackups, formServiceVars
<1> DEFINE poll == [NewFormCall("poll", "list", NoBackup) EXCEPT !.n = 0]
<1>2. CallInv(poll, hadSaved')
  <2>1. NewFormCall("poll", "list", NoBackup).op = "poll"
        /\ NewFormCall("poll", "list", NoBackup).state = "sent"
        /\ IsFormCall(NewFormCall("poll", "list", NoBackup))
    BY DEF IsFormCall, NewFormCall
  <2>2. IsFormCall(poll) /\ poll.op = "poll" /\ poll.state = "sent"
    BY <2>1 DEF IsFormCall
  <2> QED
    BY <2>2, OtherOps DEF CallInv
<1>3. formCalls' = formCalls \cup {poll}
  BY DEF PollBackups
<1> QED
  BY <1>1, <1>2, <1>3 DEF FormInv

LEMMA FormNextKeeps == FormInv /\ [FormNext]_formVarsAll => FormInv'
<1> SUFFICES ASSUME FormInv, [FormNext]_formVarsAll PROVE FormInv'
  OBVIOUS
<1>1. CASE FormUser
  BY <1>1, UserKeeps
<1>2. CASE FormServed
  BY <1>2, ConfigSavedKeeps, CallServedKeeps, RemovedKeeps, BeginsKeeps DEF FormServed
<1>3. CASE FormAnswered
  BY <1>3, InitializeKeeps, AnswersKeep, SaveAnsweredKeeps, RelistKeeps DEF FormAnswered
<1>4. CASE PollBackups
  BY <1>4, PageKeeps
<1>5. CASE BackupEnds
  BY <1>5, EndsKeeps
<1>6. CASE ScheduledBackup \/ UNCHANGED formVarsAll
  BY <1>6 DEF ScheduledBackup, formVarsAll, formServiceVars, FormInv
<1>7. CASE \E c \in formCalls : FormCallFails(c)
  BY <1>7, FailsKeeps
<1> QED
  BY <1>1, <1>2, <1>3, <1>4, <1>5, <1>6, <1>7 DEF FormNext, FormGoesOn

\* The invariant of the settings page's requests.
THEOREM FormInvariant == FormSpec => []FormInv
<1> QED
  BY FormInitEstablishes, FormNextKeeps, PTL DEF FormSpec

\* Whatever saves overlap and fail, a test or a backup of settings/store.ts
\* (testImageStorage, runBackupNow and the others that save first) goes on only
\* with settings that were saved.
THEOREM TestsAlwaysFollowSaves == FormSpec => []TestsFollowSaves
<1>1. FormInv => TestsFollowSaves
  BY DEF FormInv, CallInv, TestsFollowSaves
<1> QED
  BY <1>1, FormInvariant, PTL

\* A set whose elements are all the same has at most one.
LEMMA AtMostOne ==
    ASSUME NEW S, \A x, y \in S : x = y
    PROVE  Cardinality(S) =< 1 /\ Cardinality(S) \in Nat
<1>1. CASE S = {}
    BY <1>1, FS_EmptySet
<1>2. CASE S # {}
    <2>1. PICK x \in S : TRUE
        BY <1>2
    <2>2. S = {x}
        BY <2>1
    <2> QED BY <2>2, FS_Singleton
<1> QED BY <1>1, <1>2

(***************************************************************************)
(* The settings.  A handler is one request at a time, whose step is one    *)
(* the handler has; only of a handler whose flag its card keeps can the    *)
(* card be gone; and of those whose card is there, or that need none, one  *)
(* with a button is there once.                                            *)
(***************************************************************************)
StepsOf(op) ==
    CASE op = "runBackup" -> {"save", "then", "list"}
      [] op \in Tests -> {"save", "then"}
      [] op = "saveConfig" -> {"save"}
      [] op = "load" -> {"then", "pools", "list"}
      [] op \in {"testProxy", "detail"} -> {"then"}
      [] op \in {"list", "poll"} -> {"list"}
      [] op = "remove" -> {"then", "list"}
FormCallOK(c) == c \in FormCall /\ c.step \in StepsOf(c.op) /\ (c.here \/ c.op \in LocalOps)

FormTypes ==
    /\ hadSaved \subseteq FormVersions /\ keptConfig \in FormVersions /\ config \in FormVersions
    /\ formTab \in FormTabs /\ backupFiles \subseteq BackupKeys /\ backups \subseteq BackupKeys
    /\ {backupRuns, backupRunning, backupDetail} \subseteq BOOLEAN
    /\ formFlags \subseteq FormOps /\ deletingBackupKey \in BackupKeys \cup {NoBackup}
    /\ formUse \in 0..MostFormUses /\ backupUse \in 0..MostFormUses /\ formFault \in Nat

Flagged == SaveFirst \cup {"testProxy"}
Shown(op, calls) == \E c \in calls : c.op = op /\ c.here
OneHandler ==
    /\ \A c \in formCalls : FormCallOK(c)
    /\ \A c, d \in formCalls : c.op = d.op /\ c.op \in Flagged /\ c.here /\ d.here => c = d
FlagsTold ==
    /\ \A op \in Flagged : op \in formFlags <=> Shown(op, formCalls)
    /\ "saveConfig" \in formFlags => \E c \in formCalls : c.step = "save"
    /\ "load" \in formFlags => \E c \in formCalls : c.op = "load" /\ c.step = "then"
    /\ "list" \in formFlags => \E c \in formCalls : c.op \in {"load", "list"}

HandlersInv == FormTypes /\ OneHandler /\ FlagsTold

\* The handlers are different from each other.
LEMMA OpsDiffer ==
    /\ \A op \in Tests : op \notin {"saveConfig", "runBackup", "testProxy", "load", "list", "poll", "remove", "detail"}
    /\ \A op \in FormOps : op \in Tests \/ op \in {"saveConfig", "runBackup", "testProxy", "load", "list", "poll", "remove", "detail"}
    /\ Flagged = Tests \cup {"runBackup", "testProxy"}
    /\ LocalOps \subseteq Tests \cup {"testProxy", "detail"}
BY FormAssumption DEF Flagged, FormOps, SaveFirst, LocalOps

LEMMA StepsOfOps ==
    /\ StepsOf("runBackup") = {"save", "then", "list"}
    /\ \A op \in Tests : StepsOf(op) = {"save", "then"}
    /\ StepsOf("saveConfig") = {"save"} /\ StepsOf("load") = {"then", "pools", "list"}
    /\ StepsOf("testProxy") = {"then"} /\ StepsOf("detail") = {"then"} /\ StepsOf("list") = {"list"} /\ StepsOf("poll") = {"list"}
    /\ StepsOf("remove") = {"then", "list"}
<1>1. StepsOf("runBackup") = {"save", "then", "list"}
    <2>1. "runBackup" \notin Tests
        BY OpsDiffer
    <2> QED BY <2>1 DEF StepsOf
<1>2. \A op \in Tests : StepsOf(op) = {"save", "then"}
    BY OpsDiffer DEF StepsOf
<1>3. ASSUME NEW op \in {"saveConfig", "load", "testProxy", "detail", "list", "poll", "remove"}
      PROVE  op \notin Tests /\ op # "runBackup"
    BY OpsDiffer
<1>4. StepsOf("saveConfig") = {"save"}
    BY <1>3 DEF StepsOf
<1>5. StepsOf("load") = {"then", "pools", "list"} /\ StepsOf("testProxy") = {"then"} /\ StepsOf("detail") = {"then"}
    BY <1>3 DEF StepsOf
<1>6. StepsOf("list") = {"list"} /\ StepsOf("poll") = {"list"}
    BY <1>3 DEF StepsOf
<1>7. StepsOf("remove") = {"then", "list"}
    BY <1>3 DEF StepsOf
<1> QED BY <1>1, <1>2, <1>4, <1>5, <1>6, <1>7

LEMMA HandlersInvTells == HandlersInv => FormTypeOK /\ FormFlagsTell
<1> SUFFICES ASSUME HandlersInv PROVE FormTypeOK /\ FormFlagsTell
    OBVIOUS
<1>1. formUse \in Nat /\ backupUse \in Nat
    BY FormAssumption DEF HandlersInv, FormTypes
<1>2. FormTypeOK
    BY <1>1 DEF HandlersInv, FormTypes, OneHandler, FormCallOK, FormTypeOK
<1>3. ASSUME NEW op \in Flagged,
             NEW handlers, handlers = {c \in formCalls : c.op = op /\ (op \in LocalOps => c.here)}
      PROVE  Cardinality(handlers) =< 1 /\ (op \in formFlags <=> handlers # {})
    <2>1. handlers = {c \in formCalls : c.op = op /\ c.here}
        BY <1>3 DEF HandlersInv, OneHandler, FormCallOK
    <2>2. \A x, y \in handlers : x = y
        BY <2>1 DEF HandlersInv, OneHandler
    <2>3. op \in formFlags <=> handlers # {}
        BY <2>1 DEF HandlersInv, FlagsTold, Shown
    <2> QED BY <2>2, <2>3, AtMostOne
<1> QED BY <1>2, <1>3 DEF FormFlagsTell, HandlersInv, FlagsTold, Flagged

LEMMA NewFormCallOK ==
    ASSUME FormTypes, NEW op \in FormOps, NEW step \in StepsOf(op), step \in {"save", "then", "list"},
           NEW k \in BackupKeys \cup {NoBackup}
    PROVE  /\ FormCallOK(NewFormCall(op, step, k)) /\ NewFormCall(op, step, k).op = op
           /\ NewFormCall(op, step, k).step = step /\ NewFormCall(op, step, k).here
<1>1. formUse + backupUse \in 0..(2 * MostFormUses)
    BY FormAssumption DEF FormTypes
<1>2. config \in FormVersions
    BY DEF FormTypes
<1> QED BY <1>1, <1>2 DEF FormCallOK, NewFormCall, FormCall

LEMMA HandlersInitInv == FormInit => HandlersInv
<1> SUFFICES ASSUME FormInit PROVE HandlersInv
    OBVIOUS
<1>1. PICK u \in FormUses : formUse = u[1] /\ backupUse = u[2] /\ backupFiles = u[3]
    BY DEF FormInit
<1>2. formUse \in 0..MostFormUses /\ backupUse \in 0..MostFormUses
    BY <1>1, FormAssumption
<1>3. 0 \in FormVersions /\ 1 \in FormVersions /\ 0 \in 0..(2 * MostFormUses)
    BY FormAssumption DEF FormVersions
<1>4. FormTypes
    BY <1>2, <1>3, FormAssumption DEF FormInit, FormTypes, FormOps, FormTabs
<1>5. PICK c : c = [op |-> "load", step |-> "then", here |-> TRUE, key |-> NoBackup, version |-> 0, n |-> 0,
                    on |-> FALSE, items |-> {}, state |-> "sent"]
    OBVIOUS
<1>6. FormCallOK(c) /\ c.op = "load" /\ c.step = "then"
    BY <1>3, <1>5, StepsOfOps DEF FormCallOK, FormCall, FormOps
<1>7. formCalls = {c} /\ formFlags = {"load", "list"}
    BY <1>5 DEF FormInit
<1>8. OneHandler
    BY <1>6, <1>7 DEF OneHandler
<1>9. FlagsTold
    BY <1>6, <1>7, OpsDiffer DEF FlagsTold, Shown
<1> QED BY <1>4, <1>8, <1>9 DEF HandlersInv

(***************************************************************************)
(* The service.                                                            *)
(***************************************************************************)
\* A request is answered, and remains.
LEMMA FormAnsweredBy ==
    ASSUME HandlersInv, NEW c \in formCalls, NEW d, AnswerForm(c, d), FormCallOK(d), d.op = c.op, d.step = c.step, d.here = c.here,
           keptConfig' \in FormVersions,
           hadSaved' \subseteq FormVersions, backupFiles' \subseteq BackupKeys, backupRuns' \in BOOLEAN,
           formFault' \in Nat
    PROVE  HandlersInv'
<1>1. /\ formCalls' = (formCalls \ {c}) \cup {d}
      /\ UNCHANGED <<config, formFlags, formTab, backups, backupRunning, deletingBackupKey, backupDetail,
                     formUse, backupUse>>
    BY DEF AnswerForm, backupVars
<1>2. FormTypes'
    BY <1>1 DEF HandlersInv, FormTypes
<1>3. OneHandler'
    BY <1>1 DEF HandlersInv, OneHandler
<1>4. FlagsTold'
    <2>1. \A op : Shown(op, formCalls') <=> Shown(op, formCalls)
        BY <1>1 DEF Shown
    <2>2. (\E x \in formCalls' : x.step = "save") <=> (\E x \in formCalls : x.step = "save")
        BY <1>1
    <2>4. (\E x \in formCalls' : x.op = "load" /\ x.step = "then")
          <=> (\E x \in formCalls : x.op = "load" /\ x.step = "then")
        BY <1>1
    <2>5. (\E x \in formCalls' : x.op \in {"load", "list"}) <=> (\E x \in formCalls : x.op \in {"load", "list"})
        BY <1>1
    <2> QED BY <1>1, <2>1, <2>2, <2>4, <2>5 DEF HandlersInv, FlagsTold
<1> QED BY <1>2, <1>3, <1>4 DEF HandlersInv

LEMMA FormCallKept ==
    ASSUME NEW c, FormCallOK(c), NEW st \in {"sent", "working", "served", "failed"}
    PROVE  /\ FormCallOK([c EXCEPT !.state = st])
           /\ [c EXCEPT !.state = st].op = c.op /\ [c EXCEPT !.state = st].step = c.step
           /\ [c EXCEPT !.state = st].here = c.here
BY DEF FormCallOK, FormCall

LEMMA FormServedInv ==
    ASSUME HandlersInv, NEW c \in formCalls,
           ConfigSaved(c) \/ FormCallServed(c) \/ BackupRemoved(c) \/ BackupBegins(c) \/ FormCallFails(c)
    PROVE  HandlersInv'
<1>1. /\ FormCallOK(c) /\ c.version \in FormVersions /\ keptConfig \in FormVersions /\ hadSaved \subseteq FormVersions
      /\ backupFiles \subseteq BackupKeys /\ backupRuns \in BOOLEAN /\ formFault \in Nat
    BY DEF HandlersInv, FormTypes, OneHandler, FormCallOK, FormCall
<1>2. CASE FormCallServed(c)
    <2>1. PICK version : version = IF c.op = "load" /\ c.step = "then" THEN keptConfig ELSE c.version
        OBVIOUS
    <2>2. version \in FormVersions
        BY <1>1, <2>1
    <2>3. PICK files \in SUBSET BackupKeys, on \in BOOLEAN : files = backupFiles /\ on = backupRuns
        BY <1>1
    <2>4. PICK d : d = [c EXCEPT !.state = "served", !.items = files, !.on = on, !.version = version]
        OBVIOUS
    <2>5. FormCallOK(d) /\ d.op = c.op /\ d.step = c.step /\ d.here = c.here
        BY <1>1, <2>2, <2>4 DEF FormCallOK, FormCall
    <2>6. AnswerForm(c, d) /\ UNCHANGED <<hadSaved, keptConfig, backupFiles, backupRuns, formFault>>
        BY <1>2, <2>1, <2>3, <2>4 DEF FormCallServed, formServiceVars
    <2> QED BY <1>1, <2>5, <2>6, FormAnsweredBy
<1>3. CASE ConfigSaved(c) \/ BackupRemoved(c) \/ BackupBegins(c) \/ FormCallFails(c)
    <2>1. PICK st \in {"working", "served", "failed"} : AnswerForm(c, [c EXCEPT !.state = st])
        <3>1. CASE BackupBegins(c)
            BY <3>1 DEF BackupBegins
        <3>2. CASE ConfigSaved(c) \/ BackupRemoved(c) \/ FormCallFails(c)
            BY <3>2 DEF ConfigSaved, BackupRemoved, FormCallFails
        <3> QED BY <1>3, <3>1, <3>2
    <2>2. PICK d : d = [c EXCEPT !.state = st]
        OBVIOUS
    <2>3. FormCallOK(d) /\ d.op = c.op /\ d.step = c.step /\ d.here = c.here
        BY <1>1, <2>2, FormCallKept
    <2>4. /\ hadSaved' \subseteq FormVersions /\ keptConfig' \in FormVersions /\ backupFiles' \subseteq BackupKeys /\ backupRuns' \in BOOLEAN
          /\ formFault' \in Nat
        <3>1. CASE ConfigSaved(c)
            BY <1>1, <3>1 DEF ConfigSaved
        <3>2. CASE BackupRemoved(c)
            BY <1>1, <3>2 DEF BackupRemoved
        <3>3. CASE BackupBegins(c)
            BY <1>1, <3>3 DEF BackupBegins
        <3>4. CASE FormCallFails(c)
            BY <1>1, <3>4 DEF FormCallFails, formServiceVars
        <3> QED BY <1>3, <3>1, <3>2, <3>3, <3>4
    <2> QED BY <2>1, <2>2, <2>3, <2>4, FormAnsweredBy
<1> QED BY <1>2, <1>3

LEMMA BackupEndsInv ==
    ASSUME HandlersInv, BackupEnds
    PROVE  HandlersInv'
<1>1. PICK st \in {"failed", "served"} :
        formCalls' = {IF c.state # "working" THEN c ELSE [c EXCEPT !.state = st] : c \in formCalls}
    <2>1. PICK made \in {{}} \cup {{k} : k \in BackupKeys} :
            formCalls' =
                {IF c.state # "working" THEN c
                 ELSE [c EXCEPT !.state = IF made = {} THEN "failed" ELSE "served"] : c \in formCalls}
        BY DEF BackupEnds
    <2>2. CASE made = {}
        BY <2>1, <2>2
    <2>3. CASE made # {}
        BY <2>1, <2>3
    <2> QED BY <2>2, <2>3
<1> DEFINE Next(c) == IF c.state # "working" THEN c ELSE [c EXCEPT !.state = st]
<1>2. \A c \in formCalls :
        FormCallOK(Next(c)) /\ Next(c).op = c.op /\ Next(c).step = c.step /\ Next(c).here = c.here
    BY FormCallKept DEF HandlersInv, OneHandler
<1>3. formCalls' = {Next(c) : c \in formCalls}
    BY <1>1
<1> HIDE DEF Next
<1>4. FormTypes'
    <2>1. /\ backupRuns' = FALSE /\ backupFiles' \subseteq BackupKeys
          /\ UNCHANGED <<hadSaved, keptConfig, config, formFlags, formTab, backups, backupRunning, deletingBackupKey,
                         backupDetail, formUse, backupUse, formFault>>
        BY DEF BackupEnds, HandlersInv, FormTypes, backupVars
    <2> QED BY <2>1 DEF HandlersInv, FormTypes
<1>5. OneHandler'
    <2>1. \A x \in formCalls' : FormCallOK(x)
        BY <1>2, <1>3
    <2>2. ASSUME NEW x \in formCalls', NEW y \in formCalls', x.op = y.op, x.op \in Flagged, x.here, y.here
          PROVE  x = y
        <3>1. PICK c \in formCalls : x = Next(c)
            BY <1>3
        <3>2. PICK d \in formCalls : y = Next(d)
            BY <1>3
        <3>3. c.op = d.op /\ c.op \in Flagged /\ c.here /\ d.here
            BY <1>2, <2>2, <3>1, <3>2
        <3> QED BY <3>1, <3>2, <3>3 DEF HandlersInv, OneHandler
    <2> QED BY <2>1, <2>2 DEF OneHandler
<1>6. FlagsTold'
    <2>1. \A op : Shown(op, formCalls') <=> Shown(op, formCalls)
        BY <1>2, <1>3 DEF Shown
    <2>2. (\E x \in formCalls' : x.step = "save") <=> (\E x \in formCalls : x.step = "save")
        BY <1>2, <1>3
    <2>4. (\E x \in formCalls' : x.op = "load" /\ x.step = "then")
          <=> (\E x \in formCalls : x.op = "load" /\ x.step = "then")
        BY <1>2, <1>3
    <2>5. (\E x \in formCalls' : x.op \in {"load", "list"}) <=> (\E x \in formCalls : x.op \in {"load", "list"})
        BY <1>2, <1>3
    <2>3. UNCHANGED formFlags
        BY DEF BackupEnds
    <2> QED BY <2>1, <2>2, <2>3, <2>4, <2>5 DEF HandlersInv, FlagsTold
<1> QED BY <1>4, <1>5, <1>6 DEF HandlersInv

(***************************************************************************)
(* The user.                                                               *)
(***************************************************************************)
\* Nothing is asked for.
LEMMA FormSameCalls ==
    ASSUME HandlersInv, FormTypes', UNCHANGED <<formCalls, formFlags>>
    PROVE  HandlersInv'
BY DEF HandlersInv, OneHandler, FlagsTold, Shown

\* A request more, whose button is disabled with it if it has one.
LEMMA FormAsksInv ==
    ASSUME HandlersInv, FormTypes', NEW d, FormCallOK(d), d.here, d.op # "load", formCalls' = formCalls \cup {d},
           d.op \in Flagged => d.op \notin formFlags /\ d.op \in formFlags',
           formFlags \subseteq formFlags', formFlags' \subseteq formFlags \cup {d.op, "saveConfig"},
           "saveConfig" \in formFlags' \ formFlags => d.step = "save"
    PROVE  HandlersInv'
<1>1. d.op \in Flagged => ~Shown(d.op, formCalls)
    BY DEF HandlersInv, FlagsTold
<1>2. OneHandler'
    BY <1>1 DEF HandlersInv, OneHandler, Shown
<1>3. \A op \in Flagged : op # "saveConfig"
    BY OpsDiffer
<1>4. ASSUME NEW op \in Flagged
      PROVE  op \in formFlags' <=> Shown(op, formCalls')
    <2>1. Shown(op, formCalls') <=> op = d.op \/ Shown(op, formCalls)
        BY DEF Shown
    <2>2. op \in formFlags' <=> op = d.op \/ op \in formFlags
        BY <1>3
    <2> QED BY <2>1, <2>2 DEF HandlersInv, FlagsTold
<1>5. "saveConfig" \in formFlags' => \E c \in formCalls' : c.step = "save"
    BY DEF HandlersInv, FlagsTold
<1>6. /\ "load" \in formFlags' => \E c \in formCalls' : c.op = "load" /\ c.step = "then"
      /\ "list" \in formFlags' => \E c \in formCalls' : c.op \in {"load", "list"}
    BY DEF HandlersInv, FlagsTold
<1> QED BY <1>2, <1>4, <1>5, <1>6 DEF HandlersInv, FlagsTold

\* Handlers whose card is unmounted, and a load more when the page was left.
LEMMA WithoutCardInv ==
    ASSUME HandlersInv, FormTypes', NEW more, \A d \in more : FormCallOK(d) /\ d.op = "load" /\ d.step = "then",
           formCalls' = WithoutCard \cup more,
           formFlags' = formFlags \ LocalOps \/ (formFlags' = (formFlags \ LocalOps) \cup {"load"} /\ more # {})
    PROVE  HandlersInv'
<1> DEFINE Next(c) == IF c.op \in LocalOps THEN [c EXCEPT !.here = FALSE] ELSE c
<1>1. ASSUME NEW c \in formCalls
      PROVE  /\ FormCallOK(Next(c)) /\ Next(c).op = c.op /\ Next(c).step = c.step
             /\ Next(c).here => Next(c) = c /\ c.here /\ c.op \notin LocalOps
             /\ c.op \notin LocalOps => Next(c) = c
    <2>1. FormCallOK(c)
        BY DEF HandlersInv, OneHandler
    <2> QED BY <2>1 DEF FormCallOK, FormCall
<1>2. WithoutCard = {Next(c) : c \in formCalls}
    BY DEF WithoutCard
<1> HIDE DEF Next
<1>3. \A x \in formCalls' : x \in more \/ \E c \in formCalls : x = Next(c)
    BY <1>2
<1>4. \A op \in Flagged : op \notin {"load", "saveConfig", "list"}
    BY OpsDiffer
<1>5. "saveConfig" \notin LocalOps /\ "load" \notin LocalOps /\ "list" \notin LocalOps
    BY OpsDiffer
<1>6. OneHandler'
    <2>1. \A x \in formCalls' : FormCallOK(x)
        BY <1>1, <1>3
    <2>2. ASSUME NEW x \in formCalls', NEW y \in formCalls', x.op = y.op, x.op \in Flagged, x.here, y.here
          PROVE  x = y
        <3>1. x \notin more /\ y \notin more
            BY <1>4, <2>2
        <3>2. PICK c \in formCalls : x = Next(c)
            BY <1>3, <3>1
        <3>3. PICK d \in formCalls : y = Next(d)
            BY <1>3, <3>1
        <3>4. x = c /\ y = d
            BY <1>1, <2>2, <3>2, <3>3
        <3> QED BY <2>2, <3>4 DEF HandlersInv, OneHandler
    <2> QED BY <2>1, <2>2 DEF OneHandler
<1>7. ASSUME NEW op \in Flagged
      PROVE  op \in formFlags' <=> Shown(op, formCalls')
    <2>1. op \in formFlags' <=> op \in formFlags /\ op \notin LocalOps
        BY <1>4
    <2>2. ASSUME Shown(op, formCalls') PROVE op \notin LocalOps /\ Shown(op, formCalls)
        <3>1. PICK x \in formCalls' : x.op = op /\ x.here
            BY <2>2 DEF Shown
        <3>2. PICK c \in formCalls : x = Next(c)
            BY <1>3, <1>4, <3>1
        <3> QED BY <1>1, <3>1, <3>2 DEF Shown
    <2>3. ASSUME op \notin LocalOps, Shown(op, formCalls) PROVE Shown(op, formCalls')
        <3>1. PICK c \in formCalls : c.op = op /\ c.here
            BY <2>3 DEF Shown
        <3>2. c \in formCalls'
            BY <1>1, <1>2, <2>3, <3>1
        <3> QED BY <3>1, <3>2 DEF Shown
    <2> QED BY <2>1, <2>2, <2>3 DEF HandlersInv, FlagsTold
<1>8. "saveConfig" \in formFlags' => \E x \in formCalls' : x.step = "save"
    <2>1. "saveConfig" \in formFlags' => \E c \in formCalls : c.step = "save"
        BY DEF HandlersInv, FlagsTold
    <2> QED BY <1>1, <1>2, <2>1
<1>9. "load" \in formFlags' => \E x \in formCalls' : x.op = "load" /\ x.step = "then"
    <2>1. "load" \in formFlags' => more # {} \/ \E c \in formCalls : c.op = "load" /\ c.step = "then"
        BY DEF HandlersInv, FlagsTold
    <2> QED BY <1>1, <1>2, <2>1
<1>10. "list" \in formFlags' => \E x \in formCalls' : x.op \in {"load", "list"}
    <2>1. "list" \in formFlags' => \E c \in formCalls : c.op \in {"load", "list"}
        BY DEF HandlersInv, FlagsTold
    <2> QED BY <1>1, <1>2, <2>1
<1> QED BY <1>6, <1>7, <1>8, <1>9, <1>10 DEF HandlersInv, FlagsTold

LEMMA FormUserInv ==
    ASSUME HandlersInv, FormUser
    PROVE  HandlersInv'
<1> USE DEF backupVars, formServiceVars
<1>1. FormTypes /\ MostFormUses \in Nat
    BY FormAssumption DEF HandlersInv
<1>2. UseForm => /\ UNCHANGED <<hadSaved, keptConfig, backupFiles, backupRuns, backupUse, formFault>>
                 /\ formUse' \in 0..MostFormUses /\ formUse \in 1..MostFormUses
    BY <1>1 DEF UseForm, FormTypes
<1>3. UseBackups => /\ UNCHANGED <<hadSaved, keptConfig, backupFiles, backupRuns, formUse, formFault>>
                    /\ backupUse' \in 0..MostFormUses /\ "list" \notin formFlags
    BY <1>1 DEF UseBackups, FormTypes
<1>4. CASE EditBasics \/ EditTexts \/ EditStorage \/ EditRuntime \/ EditClearance \/ EditApplications \/ EditBackup
    <2>1. Field(formTab) /\ config' = NewVersion /\ UseForm
        BY <1>4 DEF EditBasics, EditTexts, EditStorage, EditRuntime, EditClearance, EditApplications, EditBackup,
                    SetConfigField, SetNestedField, SetBackupField, Field
    <2>2. NewVersion \in FormVersions
        BY <1>1, <1>2, <2>1 DEF NewVersion, FormVersions
    <2> QED BY <1>1, <1>2, <2>1, <2>2, FormSameCalls DEF Field, FormTypes
<1>5. ASSUME NEW op \in SaveFirst \cup {"saveConfig"}, AskForm(op, NewFormCall(op, "save", NoBackup))
      PROVE  HandlersInv'
    <2>6. op # "load"
        BY OpsDiffer DEF SaveFirst
    <2>1. op \in FormOps /\ "save" \in StepsOf(op)
        BY StepsOfOps DEF SaveFirst, FormOps
    <2>2. PICK d : d = NewFormCall(op, "save", NoBackup)
        OBVIOUS
    <2>3. FormCallOK(d) /\ d.op = op /\ d.step = "save" /\ d.here
        BY <1>1, <2>1, <2>2, NewFormCallOK
    <2>4. /\ UseForm /\ op \notin formFlags /\ formFlags' = formFlags \cup {op, "saveConfig"}
          /\ formCalls' = formCalls \cup {d}
          /\ UNCHANGED <<config, formTab, backups, backupRunning, deletingBackupKey, backupDetail>>
        BY <1>5, <2>2 DEF AskForm
    <2>5. FormTypes'
        BY <1>1, <1>2, <2>1, <2>4 DEF FormTypes, FormOps
    <2> QED BY <2>3, <2>4, <2>5, <2>6, FormAsksInv
<1>6. CASE TestProxy
    <2>1. "testProxy" \in FormOps /\ "then" \in StepsOf("testProxy")
        BY StepsOfOps DEF FormOps
    <2>2. PICK d : d = NewFormCall("testProxy", "then", NoBackup)
        OBVIOUS
    <2>3. FormCallOK(d) /\ d.op = "testProxy" /\ d.step = "then" /\ d.here
        BY <1>1, <2>1, <2>2, NewFormCallOK
    <2>4. /\ UseForm /\ "testProxy" \notin formFlags /\ formFlags' = formFlags \cup {"testProxy"}
          /\ formCalls' = formCalls \cup {d}
          /\ UNCHANGED <<config, formTab, backups, backupRunning, deletingBackupKey, backupDetail>>
        BY <1>6, <2>2 DEF TestProxy
    <2>5. FormTypes'
        BY <1>1, <1>2, <2>1, <2>4 DEF FormTypes
    <2> QED BY <2>3, <2>4, <2>5, FormAsksInv
<1>7. CASE LoadBackups
    <2>1. "list" \in FormOps /\ "list" \in StepsOf("list")
        BY StepsOfOps DEF FormOps
    <2>2. PICK d : d = NewFormCall("list", "list", NoBackup)
        OBVIOUS
    <2>3. FormCallOK(d) /\ d.op = "list" /\ d.step = "list" /\ d.here
        BY <1>1, <2>1, <2>2, NewFormCallOK
    <2>4. /\ UseBackups /\ formFlags' = formFlags \cup {"list"} /\ formCalls' = formCalls \cup {d}
          /\ UNCHANGED <<config, formTab, backups, backupRunning, deletingBackupKey, backupDetail>>
        BY <1>7, <2>2 DEF LoadBackups
    <2>5. FormTypes'
        BY <1>1, <1>3, <2>1, <2>4 DEF FormTypes
    <2>6. "list" \notin Flagged
        BY OpsDiffer
    <2> QED BY <1>3, <2>3, <2>4, <2>5, <2>6, FormAsksInv
<1>8. CASE CloseDetail
    BY <1>1, <1>8, FormSameCalls DEF CloseDetail, FormTypes
<1>9. ASSUME NEW k \in BackupKeys, RemoveBackup(k)
      PROVE  HandlersInv'
    <2>1. "remove" \in FormOps /\ "then" \in StepsOf("remove")
        BY StepsOfOps DEF FormOps
    <2>2. PICK d : d = NewFormCall("remove", "then", k)
        OBVIOUS
    <2>3. FormCallOK(d) /\ d.op = "remove" /\ d.step = "then" /\ d.here
        BY <1>1, <2>1, <2>2, NewFormCallOK
    <2>4. /\ UseBackups /\ formCalls' = formCalls \cup {d} /\ deletingBackupKey' = k
          /\ UNCHANGED <<config, formFlags, formTab, backups, backupRunning, backupDetail>>
        BY <1>9, <2>2 DEF RemoveBackup
    <2>5. FormTypes'
        BY <1>1, <1>3, <2>4 DEF FormTypes
    <2>6. "remove" \notin Flagged
        BY OpsDiffer
    <2> QED BY <2>3, <2>4, <2>5, <2>6, FormAsksInv
<1>10. ASSUME NEW k \in BackupKeys, OpenDetail(k)
       PROVE  HandlersInv'
    <2>1. "detail" \in FormOps /\ "then" \in StepsOf("detail")
        BY StepsOfOps DEF FormOps
    <2>2. PICK d : d = NewFormCall("detail", "then", k)
        OBVIOUS
    <2>3. FormCallOK(d) /\ d.op = "detail" /\ d.step = "then" /\ d.here
        BY <1>1, <2>1, <2>2, NewFormCallOK
    <2>4. /\ UseBackups /\ formCalls' = formCalls \cup {d} /\ backupDetail' = TRUE
          /\ formFlags' = formFlags \cup {"detail"}
          /\ UNCHANGED <<config, formTab, backups, backupRunning, deletingBackupKey>>
        BY <1>10, <2>2 DEF OpenDetail
    <2>5. FormTypes'
        BY <1>1, <1>3, <2>1, <2>4 DEF FormTypes
    <2>6. "detail" \notin Flagged
        BY OpsDiffer
    <2> QED BY <2>3, <2>4, <2>5, <2>6, FormAsksInv
<1>11. ASSUME NEW t \in FormTabs, SwitchTab(t)
       PROVE  HandlersInv'
    <2>3. PICK more : more = {}
        OBVIOUS
    <2>1. /\ formTab' = t /\ formFlags' = formFlags \ LocalOps /\ formCalls' = WithoutCard \cup more
          /\ UNCHANGED <<hadSaved, keptConfig, backupFiles, backupRuns, config, backups, backupRunning,
                         deletingBackupKey, backupDetail, formUse, backupUse, formFault>>
        BY <1>11, <2>3 DEF SwitchTab, backupVars, formServiceVars
    <2>2. FormTypes'
        BY <1>1, <2>1 DEF FormTypes
    <2>4. \A d \in more : FormCallOK(d) /\ d.op = "load" /\ d.step = "then"
        BY <2>3
    <2> QED BY <2>1, <2>2, <2>4, WithoutCardInv
<1>12. CASE ReopenSettings
    <2>1. "load" \in FormOps /\ "then" \in StepsOf("load")
        BY StepsOfOps DEF FormOps
    <2>2. PICK d : d = NewFormCall("load", "then", NoBackup)
        OBVIOUS
    <2>3. FormCallOK(d) /\ d.op = "load" /\ d.step = "then"
        BY <1>1, <2>1, <2>2, NewFormCallOK
    <2>4. /\ UseForm /\ formTab' = "basic" /\ backupDetail' = FALSE
          /\ formFlags' = (formFlags \ LocalOps) \cup {"load"} /\ formCalls' = WithoutCard \cup {d}
          /\ UNCHANGED <<config, backups, backupRunning, deletingBackupKey>>
        BY <1>12, <2>2 DEF ReopenSettings
    <2>5. FormTypes'
        BY <1>1, <1>2, <2>1, <2>4 DEF FormTypes, FormTabs
    <2>6. PICK more : more = {d}
        OBVIOUS
    <2>7. more # {} /\ \A x \in more : FormCallOK(x) /\ x.op = "load" /\ x.step = "then"
        BY <2>3, <2>6
    <2>8. formCalls' = WithoutCard \cup more /\ formFlags' = (formFlags \ LocalOps) \cup {"load"}
        BY <2>4, <2>6
    <2> QED BY <2>5, <2>7, <2>8, WithoutCardInv
<1> QED BY <1>4, <1>5, <1>6, <1>7, <1>8, <1>9, <1>10, <1>11, <1>12
    DEF FormUser, SaveConfig, RunBackup, TestSettings, SaveFirst

\* A handler comes to an end, and its button is enabled again if it is shown.
LEMMA FormEndsInv ==
    ASSUME HandlersInv, NEW c \in formCalls, FormTypes', formCalls' = formCalls \ {c},
           formFlags' \subseteq formFlags, formFlags \ {c.op, "saveConfig", "list"} \subseteq formFlags',
           c.here /\ c.op \in Flagged => c.op \notin formFlags', ~c.here => formFlags \ {"saveConfig"} \subseteq formFlags',
           "saveConfig" \in formFlags' => c.step # "save",
           c.op = "load" => c.step # "then",
           "list" \in formFlags' => c.op \notin {"load", "list"}
    PROVE  HandlersInv'
<1>1. OneHandler'
    BY DEF HandlersInv, OneHandler
<1>2. \A op \in Flagged : op \notin {"saveConfig", "list"}
    BY OpsDiffer
<1>3. ASSUME NEW op \in Flagged
      PROVE  op \in formFlags' <=> Shown(op, formCalls')
    <2>1. op \in formFlags <=> Shown(op, formCalls)
        BY DEF HandlersInv, FlagsTold
    <2>2. CASE op = c.op /\ c.here
        BY <1>3, <2>2 DEF HandlersInv, OneHandler, Shown
    <2>3. CASE ~(op = c.op /\ c.here)
        <3>1. Shown(op, formCalls') <=> Shown(op, formCalls)
            BY <2>3 DEF Shown
        <3>2. op \in formFlags' <=> op \in formFlags
            BY <1>2, <2>3
        <3> QED BY <2>1, <3>1, <3>2
    <2> QED BY <2>2, <2>3
<1>4. "saveConfig" \in formFlags' => \E d \in formCalls' : d.step = "save"
    BY DEF HandlersInv, FlagsTold
<1>5. "load" \in formFlags' => \E d \in formCalls' : d.op = "load" /\ d.step = "then"
    BY DEF HandlersInv, FlagsTold
<1>6. "list" \in formFlags' => \E d \in formCalls' : d.op \in {"load", "list"}
    BY DEF HandlersInv, FlagsTold
<1> QED BY <1>1, <1>3, <1>4, <1>5, <1>6 DEF HandlersInv, FlagsTold

\* A handler comes to what is next, as the request d.
LEMMA FormMovesInv ==
    ASSUME HandlersInv, NEW c \in formCalls, FormTypes', NEW d, FormCallOK(d), d.op = c.op, d.here = c.here,
           formCalls' = (formCalls \ {c}) \cup {d},
           \A op \in Flagged : op \in formFlags' <=> op \in formFlags,
           "saveConfig" \in formFlags' => "saveConfig" \in formFlags /\ c.step # "save",
           "load" \in formFlags' => "load" \in formFlags /\ ~(c.op = "load" /\ c.step = "then"),
           "list" \in formFlags' => "list" \in formFlags \/ c.op = "load"
    PROVE  HandlersInv'
<1>1. OneHandler'
    BY DEF HandlersInv, OneHandler
<1>2. \A op : Shown(op, formCalls') <=> Shown(op, formCalls)
    BY DEF Shown
<1>3. "saveConfig" \in formFlags' => \E x \in formCalls' : x.step = "save"
    BY DEF HandlersInv, FlagsTold
<1>4. "load" \in formFlags' => \E x \in formCalls' : x.op = "load" /\ x.step = "then"
    BY DEF HandlersInv, FlagsTold
<1>5. "list" \in formFlags' => \E x \in formCalls' : x.op \in {"load", "list"}
    BY DEF HandlersInv, FlagsTold
<1> QED BY <1>1, <1>2, <1>3, <1>4, <1>5 DEF HandlersInv, FlagsTold

LEMMA FormGoesOnInv ==
    ASSUME HandlersInv, NEW c \in formCalls, FormTypes', NEW step \in StepsOf(c.op), step \in {"then", "list"},
           Onwards(c, step), c.op = "load" => c.step # "then",
           \A op \in Flagged : op \in formFlags' <=> op \in formFlags,
           "saveConfig" \in formFlags' => "saveConfig" \in formFlags /\ c.step # "save",
           "load" \in formFlags' => "load" \in formFlags,
           "list" \in formFlags' => "list" \in formFlags \/ c.op = "load"
    PROVE  HandlersInv'
<1>1. FormCallOK(c)
    BY DEF HandlersInv, OneHandler
<1>2. PICK d : d = [c EXCEPT !.step = step, !.state = "sent"]
    OBVIOUS
<1>3. d.op = c.op /\ d.here = c.here /\ FormCallOK(d)
    BY <1>1, <1>2 DEF FormCallOK, FormCall
<1>4. formCalls' = (formCalls \ {c}) \cup {d}
    BY <1>2 DEF Onwards
<1> QED BY <1>3, <1>4, FormMovesInv

LEMMA FormAnswersInv ==
    ASSUME HandlersInv, NEW c \in formCalls,
           \/ ConfigLoaded(c) \/ InitializeBackups(c) \/ SaveAnswered(c) \/ TestAnswered(c) \/ BackupRan(c)
           \/ BackupsLoaded(c) \/ RemoveAnswered(c) \/ DetailLoaded(c)
    PROVE  HandlersInv'
<1>1. FormTypes /\ FormCallOK(c) /\ c \in FormCall
    BY DEF HandlersInv, OneHandler, FormCallOK
<1>11. /\ \A op \in Flagged : op \notin {"load", "saveConfig", "list", "detail", "remove"}
       /\ \A op \in Tests : op \notin {"load", "saveConfig", "list"}
    BY OpsDiffer
<1>12. ~c.here => c.op \in Tests \cup {"testProxy", "detail"}
    BY <1>1, OpsDiffer DEF FormCallOK
<1>2. c.version \in FormVersions /\ c.items \subseteq BackupKeys /\ c.on \in BOOLEAN /\ c.step \in StepsOf(c.op)
    BY <1>1 DEF FormCall, FormCallOK
<1>3. FormAnswer(c) => UNCHANGED <<hadSaved, keptConfig, backupFiles, backupRuns, formUse, backupUse, formFault>>
    BY DEF FormAnswer, formServiceVars
<1>4. CASE ConfigLoaded(c)
    <2>1. PICK d : d = [c EXCEPT !.step = "pools"]
        OBVIOUS
    <2>2. /\ c.op = "load" /\ c.step = "then" /\ formCalls' = (formCalls \ {c}) \cup {d}
          /\ formFlags' = formFlags \ {"load"}
          /\ UNCHANGED <<formTab, backups, backupRunning, deletingBackupKey, backupDetail>>
        BY <1>4, <2>1 DEF ConfigLoaded, backupVars
    <2>3. config' \in FormVersions
        BY <1>1, <1>2, <1>4 DEF ConfigLoaded, FormTypes
    <2>4. FormTypes'
        BY <1>1, <1>3, <1>4, <2>2, <2>3 DEF FormTypes, ConfigLoaded
    <2>5. d.op = c.op /\ d.here = c.here /\ FormCallOK(d)
        BY <1>1, <2>1, <2>2, StepsOfOps DEF FormCallOK, FormCall
    <2> QED BY <1>11, <2>2, <2>4, <2>5, FormMovesInv
<1>13. CASE InitializeBackups(c)
    <2>1. /\ c.step = "pools"
          /\ UNCHANGED <<config, formTab, backupRunning, deletingBackupKey, backupDetail>>
        BY <1>13 DEF InitializeBackups
    <2>2. c.op = "load"
        BY <1>1, <1>2, <2>1, StepsOfOps, OpsDiffer DEF FormCall
    <2>3. CASE Onwards(c, "list") /\ formFlags' = formFlags \cup {"list"} /\ UNCHANGED backups
        <3>1. FormTypes'
            BY <1>1, <1>3, <1>13, <2>1, <2>3 DEF FormTypes, InitializeBackups, FormOps
        <3>2. "list" \in StepsOf(c.op)
            BY <2>2, StepsOfOps
        <3> QED BY <1>11, <2>1, <2>2, <2>3, <3>1, <3>2, FormGoesOnInv
    <2>4. CASE WithoutForm(c) /\ backups' = {} /\ formFlags' = formFlags \ {"list"}
        <3>1. FormTypes'
            BY <1>1, <1>3, <1>13, <2>1, <2>4 DEF FormTypes, InitializeBackups
        <3>2. formCalls' = formCalls \ {c} /\ c.here
            BY <1>12, <2>2, <2>4, OpsDiffer DEF WithoutForm
        <3> QED BY <1>11, <2>1, <2>2, <2>4, <3>1, <3>2, FormEndsInv
    <2> QED BY <1>13, <2>3, <2>4 DEF InitializeBackups
<1>5. CASE SaveAnswered(c)
    <2>1. /\ c.step = "save" /\ formFlags' = formFlags \ ({"saveConfig"} \cup IF GoesOn(c) THEN {} ELSE OwnFlag(c))
          /\ UNCHANGED <<formTab, backups, backupRunning, deletingBackupKey, backupDetail>>
        BY <1>5 DEF SaveAnswered, backupVars
    <2>2. config' \in FormVersions
        BY <1>1, <1>2, <1>5 DEF SaveAnswered, FormTypes
    <2>3. FormTypes'
        BY <1>1, <1>3, <1>5, <2>1, <2>2 DEF FormTypes, SaveAnswered
    <2>4. CASE GoesOn(c)
        <3>1. c.op \in SaveFirst
            <4>1. c.op \in Tests \/ c.op \in {"saveConfig", "runBackup", "testProxy", "load", "list", "poll", "remove", "detail"}
                BY <1>1, OpsDiffer DEF FormCall
            <4>2. c.op \notin {"testProxy", "load", "list", "poll", "remove", "detail"}
                BY <1>2, <2>1, StepsOfOps
            <4> QED BY <2>4, <4>1, <4>2 DEF GoesOn, SaveFirst
        <3>2. "then" \in StepsOf(c.op)
            BY <3>1, StepsOfOps DEF SaveFirst
        <3>3. Onwards(c, "then") /\ formFlags' = formFlags \ {"saveConfig"}
            BY <1>5, <2>1, <2>4 DEF SaveAnswered
        <3>4. c.op = "load" => c.step # "then"
            BY <2>1
        <3> QED BY <1>11, <2>1, <2>3, <3>2, <3>3, <3>4, FormGoesOnInv
    <2>5. CASE ~GoesOn(c)
        <3>1. /\ formCalls' = formCalls \ {c}
              /\ formFlags' = formFlags \ (IF c.here THEN {"saveConfig", c.op} ELSE {"saveConfig"})
            BY <1>5, <2>1, <2>5 DEF SaveAnswered, WithoutForm, OwnFlag
        <3>2. c.op \notin {"load", "list"}
            BY <1>2, <2>1, StepsOfOps
        <3> QED BY <1>11, <2>1, <2>3, <3>1, <3>2, FormEndsInv
    <2> QED BY <2>4, <2>5
<1>6. CASE TestAnswered(c)
    <2>1. /\ c.step = "then" /\ formCalls' = formCalls \ {c} /\ formFlags' = formFlags \ OwnFlag(c)
          /\ UNCHANGED <<config, formTab, backups, backupRunning, deletingBackupKey, backupDetail>>
        BY <1>6 DEF TestAnswered, WithoutForm, backupVars
    <2>2. FormTypes'
        BY <1>1, <1>3, <1>6, <2>1 DEF FormTypes, TestAnswered
    <2>3. c.op \notin {"load", "list", "saveConfig"}
        BY <1>6, <1>11 DEF TestAnswered
    <2> QED BY <2>1, <2>2, <2>3, FormEndsInv DEF OwnFlag
<1>7. CASE BackupRan(c)
    <2>1. /\ c.step = "then" /\ c.op = "runBackup"
          /\ UNCHANGED <<config, formTab, backups, backupRunning, deletingBackupKey, backupDetail>>
        BY <1>7 DEF BackupRan, backupVars
    <2>2. CASE Served(c)
        <3>1. Onwards(c, "list") /\ UNCHANGED formFlags
            BY <1>7, <2>2 DEF BackupRan
        <3>2. FormTypes'
            BY <1>1, <1>3, <1>7, <2>1, <3>1 DEF FormTypes, BackupRan
        <3>3. "list" \in StepsOf(c.op)
            BY <2>1, StepsOfOps
        <3>4. c.op # "load"
            BY <2>1
        <3> QED BY <2>1, <3>1, <3>2, <3>3, <3>4, FormGoesOnInv
    <2>3. CASE ~Served(c)
        <3>1. formCalls' = formCalls \ {c} /\ formFlags' = formFlags \ {c.op}
            BY <1>7, <2>1, <2>3 DEF BackupRan, WithoutForm
        <3>2. FormTypes'
            BY <1>1, <1>3, <1>7, <2>1, <3>1 DEF FormTypes, BackupRan
        <3>3. c.here
            BY <1>12, <2>1, OpsDiffer
        <3> QED BY <2>1, <3>1, <3>2, <3>3, FormEndsInv
    <2> QED BY <2>2, <2>3
<1>8. CASE BackupsLoaded(c)
    <2>1. /\ c.step = "list" /\ formCalls' = formCalls \ {c} /\ formFlags' = formFlags \ (IF c.op = "load" THEN {"list"} ELSE {c.op})
          /\ UNCHANGED <<config, formTab, backupDetail>> /\ FormAnswer(c)
        BY <1>8 DEF BackupsLoaded, WithoutForm
    <2>2. backups' \subseteq BackupKeys /\ backupRunning' \in BOOLEAN
        BY <1>1, <1>2, <1>8 DEF BackupsLoaded, ShowBackups, FormTypes
    <2>3. deletingBackupKey' \in BackupKeys \cup {NoBackup}
        BY <1>1, <1>8 DEF BackupsLoaded, FormTypes
    <2>4. FormTypes'
        BY <1>1, <1>3, <2>1, <2>2, <2>3 DEF FormTypes
    <2>5. c.here
        BY <1>2, <1>12, <2>1, StepsOfOps, OpsDiffer
    <2>6. c.op = "load" => c.op \notin Flagged
        BY <1>11
    <2> QED BY <2>1, <2>4, <2>5, <2>6, FormEndsInv
<1>9. CASE RemoveAnswered(c)
    <2>1. /\ c.step = "then" /\ c.op = "remove"
          /\ UNCHANGED <<config, formFlags, formTab, backups, backupRunning, backupDetail>>
        BY <1>9 DEF RemoveAnswered
    <2>2. deletingBackupKey' \in BackupKeys \cup {NoBackup}
        BY <1>1, <1>9 DEF RemoveAnswered, FormTypes
    <2>3. FormTypes'
        BY <1>1, <1>3, <1>9, <2>1, <2>2 DEF FormTypes, RemoveAnswered
    <2>4. CASE Served(c)
        <3>1. Onwards(c, "list")
            BY <1>9, <2>4 DEF RemoveAnswered
        <3>2. "list" \in StepsOf(c.op)
            BY <2>1, StepsOfOps
        <3>3. c.op # "load"
            BY <2>1
        <3> QED BY <2>1, <2>3, <3>1, <3>2, <3>3, FormGoesOnInv
    <2>5. CASE ~Served(c)
        <3>1. formCalls' = formCalls \ {c}
            BY <1>9, <2>5 DEF RemoveAnswered, WithoutForm
        <3>2. "remove" \notin Flagged
            BY OpsDiffer
        <3> QED BY <2>1, <2>3, <3>1, <3>2, FormEndsInv
    <2> QED BY <2>4, <2>5
<1>10. CASE DetailLoaded(c)
    <2>1. /\ c.op = "detail" /\ formCalls' = formCalls \ {c} /\ formFlags' = formFlags \ OwnFlag(c)
          /\ UNCHANGED <<config, formTab, backups, backupRunning, deletingBackupKey, backupDetail>>
        BY <1>10 DEF DetailLoaded, WithoutForm, backupVars
    <2>2. FormTypes'
        BY <1>1, <1>3, <1>10, <2>1 DEF FormTypes, DetailLoaded
    <2>3. c.step # "save"
        BY <1>2, <2>1, StepsOfOps
    <2> QED BY <2>1, <2>2, <2>3, FormEndsInv DEF OwnFlag
<1> QED BY <1>4, <1>5, <1>6, <1>7, <1>8, <1>9, <1>10, <1>13

LEMMA FormPollsInv ==
    ASSUME HandlersInv, PollBackups
    PROVE  HandlersInv'
<1>1. PICK d0 : d0 = NewFormCall("poll", "list", NoBackup)
    OBVIOUS
<1>2. FormCallOK(d0) /\ d0.op = "poll" /\ d0.step = "list" /\ d0.here
    BY <1>1, StepsOfOps, NewFormCallOK DEF FormOps, HandlersInv
<1>3. PICK d : d = [d0 EXCEPT !.n = 0]
    OBVIOUS
<1>4. 0 \in 0..(2 * MostFormUses)
    BY FormAssumption
<1>5. FormCallOK(d) /\ d.op = "poll" /\ d.step = "list" /\ d.here
    BY <1>2, <1>3, <1>4 DEF FormCallOK, FormCall
<1>6. /\ formCalls' = formCalls \cup {d}
      /\ UNCHANGED <<hadSaved, keptConfig, backupFiles, backupRuns, config, formFlags, formTab, backups, backupRunning,
                     deletingBackupKey, backupDetail, formUse, backupUse, formFault>>
    BY <1>1, <1>3 DEF PollBackups, formServiceVars, backupVars
<1>7. FormTypes'
    BY <1>6 DEF HandlersInv, FormTypes
<1>8. "poll" \notin Flagged
    BY OpsDiffer
<1> QED BY <1>5, <1>6, <1>7, <1>8, FormAsksInv

LEMMA HandlersNextInv ==
    ASSUME HandlersInv, [FormNext]_formVarsAll
    PROVE  HandlersInv'
<1>1. CASE FormUser
    BY <1>1, FormUserInv
<1>2. CASE FormServed \/ \E c \in formCalls : FormCallFails(c)
    BY <1>2, FormServedInv DEF FormServed
<1>3. CASE FormAnswered
    BY <1>3, FormAnswersInv DEF FormAnswered
<1>4. CASE PollBackups
    BY <1>4, FormPollsInv
<1>5. CASE BackupEnds
    BY <1>5, BackupEndsInv
<1>6. CASE ScheduledBackup
    <2>1. /\ backupUse' = backupUse - 1 /\ backupUse > 0 /\ backupRuns' = TRUE
          /\ UNCHANGED <<hadSaved, keptConfig, backupFiles, config, formFlags, formTab, backups, backupRunning,
                         deletingBackupKey, backupDetail, formCalls, formUse, formFault>>
        BY <1>6 DEF ScheduledBackup, backupVars
    <2>2. backupUse' \in 0..MostFormUses
        BY <2>1, FormAssumption DEF HandlersInv, FormTypes
    <2>3. FormTypes'
        BY <2>1, <2>2 DEF HandlersInv, FormTypes
    <2> QED BY <2>1, <2>3, FormSameCalls
<1>7. CASE UNCHANGED formVarsAll
    <2>1. UNCHANGED <<hadSaved, keptConfig, backupFiles, backupRuns, config, formFlags, formTab, backups, backupRunning,
                      deletingBackupKey, backupDetail, formCalls, formUse, backupUse, formFault>>
        BY <1>7 DEF formVarsAll, formServiceVars, backupVars
    <2> QED BY <2>1 DEF HandlersInv, FormTypes, OneHandler, FlagsTold, Shown
<1> QED BY <1>1, <1>2, <1>3, <1>4, <1>5, <1>6, <1>7 DEF FormNext, FormGoesOn

\* The invariant of the handlers and their buttons.
THEOREM HandlersInvariant == FormSpec => []HandlersInv
<1> QED
  BY HandlersInitInv, HandlersNextInv, PTL DEF FormSpec

\* Whichever handlers of settings/store.ts and its cards overlap, fail and go on,
\* and whatever tabs and pages are left meanwhile: the button of one is disabled
\* exactly while it is under way, and it never runs twice, while its card is
\* mounted if the card keeps the flag, and at all times if the store does.
THEOREM FormFlagsAlwaysTell == FormSpec => [](FormTypeOK /\ FormFlagsTell)
<1> QED
  BY HandlersInvariant, HandlersInvTells, PTL
=============================================================================
