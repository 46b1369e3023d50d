---------------------------- MODULE SettingsForms ---------------------------
(***************************************************************************)
(* The settings page: the configuration form, which the settings store     *)
(* keeps (web/src/app/settings/store.ts) and several cards edit, what the  *)
(* cards do with it, and the list of backups.                              *)
(*                                                                         *)
(* Most buttons save the form first and then ask for what they are for:    *)
(* such a handler is a request, its answer, another request and so on, and *)
(* saves of several handlers overlap, as only the save buttons wait for    *)
(* one another.                                                            *)
(*                                                                         *)
(* Only the card of one tab is mounted (settings/page.tsx, Tabs without    *)
(* forceMount).  Handlers go on when their card is gone; what the store    *)
(* keeps of them outlives the card, and what the card keeps itself is      *)
(* forgotten: its buttons are enabled again while the handler of the card  *)
(* that is gone is still under way.  A page that is left and opened again  *)
(* does all that and runs initialize once more, beside the first if that   *)
(* is still under way; both loads lower the one isLoadingConfig.           *)
(*                                                                         *)
(* Abstracted: the configuration is a numbered version, an edit makes a    *)
(* new one; a save gives back the version it was sent (normalised, which   *)
(* is left out).  Of a backup there is its key.  Results of tests, details *)
(* of a backup and downloads are only shown.  A page that is left is       *)
(* opened again in the same step: in between, what is under way goes on as *)
(* it would.  Tabs that have nothing of the form are one with the canvas.  *)
(***************************************************************************)
EXTENDS Naturals, FiniteSets

CONSTANTS
    Tests,          \* the handlers that save and then ask for one thing: the
                    \* tests of the cards and the synchronisation of images
    TabOf,          \* the tab of each
    BackupKeys, NoBackup,
    FormUses,       \* bound: what the user does, <<with the form, with the list>>
                    \* (scheduled backups are of the list), and the backups there
                    \* are at first
    MostFormUses,   \* of either use
    FormFaults      \* bound: requests that fail

ASSUME FormAssumption ==
    /\ TabOf \in [Tests -> {"basic", "proxy", "backup"}]
    /\ NoBackup \notin BackupKeys /\ MostFormUses \in Nat /\ FormFaults \in Nat
    /\ FormUses \subseteq (0..MostFormUses) \X (0..MostFormUses) \X SUBSET BackupKeys
    /\ Tests \cap {"saveConfig", "runBackup", "testProxy", "load", "list", "poll", "remove", "detail"} = {}

VARIABLES
    hadSaved,          \* history: the versions the service has had
    keptConfig,        \* of the service: the version it keeps,
    backupFiles,       \* its backups,
    backupRuns,        \* and whether it makes one
    config,            \* the version in the form, 0 when there is none
    formFlags,         \* isLoadingConfig, isSavingConfig, ... that are set
    formTab,           \* the tab that is open
    backups,           \* the list shown
    backupRunning,     \* backupState.running
    deletingBackupKey,
    backupDetail,      \* whether the details are shown
    formCalls,         \* requests without an answer
    formUse, backupUse, \* what is left of the user's uses
    formFault

formServiceVars == <<hadSaved, keptConfig, backupFiles, backupRuns>>
backupVars == <<backups, backupRunning, deletingBackupKey, backupDetail>>
formVarsAll == <<formServiceVars, config, formFlags, formTab, backupVars, formCalls,
                 formUse, backupUse, formFault>>

FormTabs == {"basic", "proxy", "backup", "canvas"}
SaveFirst == Tests \cup {"runBackup"}
FormOps == SaveFirst \cup {"load", "saveConfig", "testProxy", "list", "poll", "remove", "detail"}
\* The handlers whose flag is of the card: isTestingProxy of the basic card,
\* isTestingProxy and isTestingClearance of the runtime's, and detailLoading.
LocalOps == {op \in Tests : TabOf[op] = "proxy"} \cup {"testProxy", "detail"}
FormVersions == 0..(MostFormUses + 1)
FormCall == [op : FormOps, step : {"save", "then", "pools", "list"}, here : BOOLEAN, key : BackupKeys \cup {NoBackup},
             version : FormVersions, n : 0..(2 * MostFormUses), on : BOOLEAN, items : SUBSET BackupKeys,
             state : {"sent", "working", "served", "failed"}]

\* While here, the card whose handler made it is mounted.
NewFormCall(op, step, key) ==
    [op |-> op, step |-> step, here |-> TRUE, key |-> key, version |-> config, n |-> formUse + backupUse, on |-> FALSE,
     items |-> {}, state |-> "sent"]

\* initialize: the configuration and the pools are loaded, then the backups.
FormInit ==
    /\ hadSaved = {1} /\ keptConfig = 1 /\ backupRuns = FALSE
    /\ config = 0 /\ formFlags = {"load", "list"} /\ formTab = "basic"
    /\ backups = {} /\ backupRunning = FALSE /\ deletingBackupKey = NoBackup
    /\ backupDetail = FALSE
    /\ \E u \in FormUses : formUse = u[1] /\ backupUse = u[2] /\ backupFiles = u[3]
    /\ formFault = FormFaults
    /\ formCalls = {[op |-> "load", step |-> "then", here |-> TRUE, key |-> NoBackup, version |-> 0, n |-> 0,
                     on |-> FALSE, items |-> {}, state |-> "sent"]}

(***************************************************************************)
(* The service.                                                            *)
(***************************************************************************)
AnswerForm(c, next) ==
    /\ formCalls' = (formCalls \ {c}) \cup {next}
    /\ UNCHANGED <<config, formFlags, formTab, backupVars, formUse, backupUse>>

FormCallFails(c) ==
    /\ c.state = "sent" /\ formFault > 0 /\ formFault' = formFault - 1
    /\ AnswerForm(c, [c EXCEPT !.state = "failed"]) /\ UNCHANGED formServiceVars

ConfigSaved(c) ==
    /\ c.state = "sent" /\ c.step = "save" /\ hadSaved' = hadSaved \cup {c.version}
    /\ keptConfig' = c.version
    /\ AnswerForm(c, [c EXCEPT !.state = "served"])
    /\ UNCHANGED <<backupFiles, backupRuns, formFault>>

FormCallServed(c) ==
    /\ c.state = "sent"
    /\ c.step = "list" \/ (c.step = "then" /\ c.op \notin {"runBackup", "remove"})
    /\ AnswerForm(c, [c EXCEPT !.state = "served", !.items = backupFiles, !.on = backupRuns,
                               !.version = IF c.op = "load" /\ c.step = "then" THEN keptConfig ELSE @])
    /\ UNCHANGED <<formServiceVars, formFault>>

BackupRemoved(c) ==
    /\ c.state = "sent" /\ c.step = "then" /\ c.op = "remove"
    /\ backupFiles' = backupFiles \ {c.key}
    /\ AnswerForm(c, [c EXCEPT !.state = "served"])
    /\ UNCHANGED <<hadSaved, keptConfig, backupRuns, formFault>>

\* One backup runs at a time; a second is refused.
BackupBegins(c) ==
    /\ c.state = "sent" /\ c.step = "then" /\ c.op = "runBackup" /\ backupRuns' = TRUE
    /\ AnswerForm(c, [c EXCEPT !.state = IF backupRuns THEN "failed" ELSE "working"])
    /\ UNCHANGED <<hadSaved, keptConfig, backupFiles, formFault>>

ScheduledBackup ==
    /\ ~backupRuns /\ backupUse > 0 /\ backupUse' = backupUse - 1 /\ backupRuns' = TRUE
    /\ UNCHANGED <<hadSaved, keptConfig, backupFiles, config, formFlags, formTab, backupVars,
                   formCalls, formUse, formFault>>

\* It makes a backup or fails; who waits for it is answered.
BackupEnds ==
    /\ backupRuns /\ backupRuns' = FALSE
    /\ \E made \in {{}} \cup {{k} : k \in BackupKeys} :
        /\ backupFiles' = backupFiles \cup made
        /\ formCalls' =
            {IF c.state # "working" THEN c
             ELSE [c EXCEPT !.state = IF made = {} THEN "failed" ELSE "served"] : c \in formCalls}
    /\ UNCHANGED <<hadSaved, keptConfig, config, formFlags, formTab, backupVars, formUse, backupUse, formFault>>

(***************************************************************************)
(* The configuration form.                                                 *)
(***************************************************************************)
FormAnswer(c) ==
    /\ c.state \in {"served", "failed"}
    /\ UNCHANGED <<formServiceVars, formUse, backupUse, formFault>>
WithoutForm(c) == formCalls' = formCalls \ {c}
Onwards(c, step) == formCalls' = (formCalls \ {c}) \cup {[c EXCEPT !.step = step, !.state = "sent"]}
Served(c) == c.state = "served"
\* What a handler lowers: the flag of a card that is gone shows nowhere.
OwnFlag(c) == IF c.here THEN {c.op} ELSE {}
\* The cards show a form once it is there.
FormShown == "load" \notin formFlags /\ config # 0

UseForm ==
    /\ formUse > 0 /\ formUse' = formUse - 1
    /\ UNCHANGED <<formServiceVars, backupUse, formFault>>
UseBackups ==
    /\ formTab = "backup" /\ FormShown /\ "list" \notin formFlags
    /\ backupUse > 0 /\ backupUse' = backupUse - 1
    /\ UNCHANGED <<formServiceVars, formUse, formFault>>

ConfigLoaded(c) ==
    /\ c.op = "load" /\ c.step = "then" /\ FormAnswer(c)
    /\ formCalls' = (formCalls \ {c}) \cup {[c EXCEPT !.step = "pools"]}
    /\ config' = IF Served(c) THEN c.version ELSE config
    /\ formFlags' = formFlags \ {"load"}
    /\ UNCHANGED <<formTab, backupVars>>

\* The rest of initialize, when the pools came as well: whether the form, as
\* it is by now, holds what a backup needs.
InitializeBackups(c) ==
    /\ c.step = "pools" /\ FormAnswer(c)
    /\ \/ /\ config # 0 /\ Onwards(c, "list")
          /\ formFlags' = formFlags \cup {"list"} /\ UNCHANGED backups
       \/ WithoutForm(c) /\ backups' = {} /\ formFlags' = formFlags \ {"list"}
    /\ UNCHANGED <<config, formTab, backupRunning, deletingBackupKey, backupDetail>>

\* The handlers of a card that is unmounted go on without it.
WithoutCard == {IF c.op \in LocalOps THEN [c EXCEPT !.here = FALSE] ELSE c : c \in formCalls}

\* The details of a backup are in front of the tabs.
SwitchTab(t) ==
    /\ t # formTab /\ ~backupDetail /\ formTab' = t
    /\ formFlags' = formFlags \ LocalOps /\ formCalls' = WithoutCard
    /\ UNCHANGED <<formServiceVars, config, backupVars, formUse, backupUse, formFault>>

ReopenSettings ==
    /\ UseForm /\ formTab' = "basic" /\ backupDetail' = FALSE
    /\ formFlags' = (formFlags \ LocalOps) \cup {"load"}
    /\ formCalls' = WithoutCard \cup {NewFormCall("load", "then", NoBackup)}
    /\ UNCHANGED <<config, backups, backupRunning, deletingBackupKey>>

\* The setters of the store.  The number of uses left makes a version that is
\* new.
NewVersion == MostFormUses + 2 - formUse
SetConfigField == config # 0 /\ config' = NewVersion
SetNestedField == config # 0 /\ config' = NewVersion
SetBackupField == config # 0 /\ config' = NewVersion

\* A field is there with the form.  (Some are disabled by what another field
\* says, which is left out.)
Field(t) ==
    /\ formTab = t /\ FormShown /\ UseForm
    /\ UNCHANGED <<formFlags, formTab, backupVars, formCalls>>

\* The basic card: numbers, addresses and switches, texts for all requests,
EditBasics == Field("basic") /\ SetConfigField
EditTexts == Field("basic") /\ SetConfigField
\* the storage of images and the review, which lie deeper,
EditStorage == Field("basic") /\ SetNestedField
\* the proxy runtime and its clearance,
EditRuntime == Field("proxy") /\ SetNestedField
EditClearance == Field("proxy") /\ SetNestedField
\* the applications,
EditApplications == Field("canvas") /\ SetNestedField
\* and the backups.
EditBackup == Field("backup") /\ SetBackupField

AskForm(op, call) ==
    /\ FormShown /\ UseForm /\ op \notin formFlags
    /\ formFlags' = formFlags \cup {op, "saveConfig"} /\ formCalls' = formCalls \cup {call}
    /\ UNCHANGED <<config, formTab, backupVars>>

\* Each of the four cards has the button.
SaveConfig == AskForm("saveConfig", NewFormCall("saveConfig", "save", NoBackup))

TestSettings(op) == formTab = TabOf[op] /\ AskForm(op, NewFormCall(op, "save", NoBackup))

\* The test of the proxy that is in the form, saved or not, saves nothing.
TestProxy ==
    /\ formTab = "basic" /\ FormShown /\ UseForm /\ "testProxy" \notin formFlags
    /\ formFlags' = formFlags \cup {"testProxy"}
    /\ formCalls' = formCalls \cup {NewFormCall("testProxy", "then", NoBackup)}
    /\ UNCHANGED <<config, formTab, backupVars>>

RunBackup ==
    formTab = "backup" /\ ~backupRunning /\ AskForm("runBackup", NewFormCall("runBackup", "save", NoBackup))

\* Mutant: what a handler saves for is asked for even when the save failed.
GoesOnAnyway(c) == c.op # "saveConfig"

GoesOn(c) == Served(c) /\ c.op # "saveConfig"

\* The end of saveConfig, in the handler that called it.  The flag is lowered
\* by any of the saves, and the form shows what this one sent.
SaveAnswered(c) ==
    /\ c.step = "save" /\ FormAnswer(c)
    /\ config' = IF Served(c) THEN c.version ELSE config
    /\ formFlags' = formFlags \ ({"saveConfig"} \cup IF GoesOn(c) THEN {} ELSE OwnFlag(c))
    /\ IF GoesOn(c) THEN Onwards(c, "then") ELSE WithoutForm(c)
    /\ UNCHANGED <<formTab, backupVars>>

TestAnswered(c) ==
    /\ c.op \in Tests \cup {"testProxy"} /\ c.step = "then" /\ FormAnswer(c) /\ WithoutForm(c)
    /\ formFlags' = formFlags \ OwnFlag(c)
    /\ UNCHANGED <<config, formTab, backupVars>>

(***************************************************************************)
(* The list of backups.                                                    *)
(***************************************************************************)
\* Mutant: once shown, a backup is shown to run for ever.
ShowBackupsMerged(c) ==
    IF Served(c) THEN backups' = c.items /\ backupRunning' = (backupRunning \/ c.on)
    ELSE UNCHANGED <<backups, backupRunning>>

ShowBackups(c) ==
    IF Served(c) THEN backups' = c.items /\ backupRunning' = c.on
    ELSE UNCHANGED <<backups, backupRunning>>

\* After the backup the list is loaded once more.
BackupRan(c) ==
    /\ c.op = "runBackup" /\ c.step = "then" /\ FormAnswer(c)
    /\ IF Served(c) THEN Onwards(c, "list") /\ UNCHANGED formFlags
       ELSE WithoutForm(c) /\ formFlags' = formFlags \ {"runBackup"}
    /\ UNCHANGED <<config, formTab, backupVars>>

LoadBackups ==
    /\ UseBackups /\ formFlags' = formFlags \cup {"list"}
    /\ formCalls' = formCalls \cup {NewFormCall("list", "list", NoBackup)}
    /\ UNCHANGED <<config, formTab, backupVars>>

\* The interval goes off while a backup is shown to run.  At most one poll of
\* its is in flight.
PollBackups ==
    /\ backupRunning /\ \A c \in formCalls : c.op # "poll"
    /\ formCalls' = formCalls \cup {[NewFormCall("poll", "list", NoBackup) EXCEPT !.n = 0]}
    /\ UNCHANGED <<formServiceVars, config, formFlags, formTab, backupVars, formUse, backupUse, formFault>>

BackupsLoaded(c) ==
    /\ c.step = "list" /\ FormAnswer(c) /\ WithoutForm(c) /\ ShowBackups(c)
    /\ formFlags' = formFlags \ (IF c.op = "load" THEN {"list"} ELSE {c.op})
    /\ deletingBackupKey' = IF c.op = "remove" THEN NoBackup ELSE deletingBackupKey
    /\ UNCHANGED <<config, formTab, backupDetail>>

\* Only the backup deleted last is marked.
RemoveBackup(k) ==
    /\ UseBackups /\ k \in backups /\ deletingBackupKey # k
    /\ deletingBackupKey' = k
    /\ formCalls' = formCalls \cup {NewFormCall("remove", "then", k)}
    /\ UNCHANGED <<config, formFlags, formTab, backups, backupRunning, backupDetail>>

RemoveAnswered(c) ==
    /\ c.op = "remove" /\ c.step = "then" /\ FormAnswer(c)
    /\ IF Served(c) THEN Onwards(c, "list") /\ UNCHANGED deletingBackupKey
       ELSE WithoutForm(c) /\ deletingBackupKey' = NoBackup
    /\ UNCHANGED <<config, formFlags, formTab, backups, backupRunning, backupDetail>>

OpenDetail(k) ==
    /\ UseBackups /\ k \in backups /\ ~backupDetail
    /\ backupDetail' = TRUE /\ formFlags' = formFlags \cup {"detail"}
    /\ formCalls' = formCalls \cup {NewFormCall("detail", "then", k)}
    /\ UNCHANGED <<config, formTab, backups, backupRunning, deletingBackupKey>>

CloseDetail ==
    /\ backupDetail /\ backupDetail' = FALSE
    /\ UNCHANGED <<formServiceVars, config, formFlags, formTab, backups, backupRunning,
                   deletingBackupKey, formCalls, formUse, backupUse, formFault>>

\* Whichever backup is shown by now.
DetailLoaded(c) ==
    /\ c.op = "detail" /\ FormAnswer(c) /\ WithoutForm(c)
    /\ formFlags' = formFlags \ OwnFlag(c)
    /\ UNCHANGED <<config, formTab, backupVars>>

(***************************************************************************)
(* The specification.                                                      *)
(***************************************************************************)
FormUser ==
    \/ \E t \in FormTabs : SwitchTab(t)
    \/ ReopenSettings
    \/ EditBasics \/ EditTexts \/ EditStorage \/ EditRuntime \/ EditClearance \/ EditApplications \/ EditBackup
    \/ TestProxy
    \/ SaveConfig \/ RunBackup \/ LoadBackups \/ CloseDetail
    \/ \E op \in Tests : TestSettings(op)
    \/ \E k \in BackupKeys : RemoveBackup(k) \/ OpenDetail(k)

FormServed ==
    \E c \in formCalls : ConfigSaved(c) \/ FormCallServed(c) \/ BackupRemoved(c) \/ BackupBegins(c)

FormAnswered ==
    \E c \in formCalls :
        \/ ConfigLoaded(c) \/ InitializeBackups(c) \/ SaveAnswered(c) \/ TestAnswered(c) \/ BackupRan(c)
        \/ BackupsLoaded(c) \/ RemoveAnswered(c) \/ DetailLoaded(c)

FormGoesOn == FormServed \/ FormAnswered \/ PollBackups

FormNext ==
    \/ FormUser \/ FormGoesOn \/ BackupEnds \/ ScheduledBackup
    \/ \E c \in formCalls : FormCallFails(c)

FormSpec == FormInit /\ [][FormNext]_formVarsAll

\* Requests are answered and the interval goes off, and a backup ends.
FairFormSpec == FormSpec /\ WF_formVarsAll(FormGoesOn) /\ WF_formVarsAll(BackupEnds)

FormTypeOK ==
    /\ hadSaved \subseteq FormVersions /\ {keptConfig, config} \subseteq FormVersions
    /\ formTab \in FormTabs
    /\ backupFiles \subseteq BackupKeys /\ backups \subseteq BackupKeys
    /\ {backupRuns, backupRunning, backupDetail} \subseteq BOOLEAN
    /\ formFlags \subseteq FormOps /\ deletingBackupKey \in BackupKeys \cup {NoBackup}
    /\ formCalls \in SUBSET FormCall /\ {formUse, backupUse, formFault} \subseteq Nat

\* What is tested, and what is backed up with, was saved: of overlapping
\* saves, one that fails stops the handler that made it and no other.
TestsFollowSaves ==
    \A c \in formCalls : c.op \in SaveFirst /\ c.step # "save" => c.version \in hadSaved

\* The button of a handler is disabled exactly while the handler is under way,
\* once: of one whose flag the store keeps, whatever tabs are switched and
\* however often the page is opened; of one whose flag the card keeps, while
\* that card is mounted (the card after it knows nothing of it).  The save
\* buttons, which handlers share, are disabled only while some save is under
\* way, and a page that shows that it loads waits for a load.
FormFlagsTell ==
    /\ \A op \in SaveFirst \cup {"testProxy"} :
        LET handlers == {c \in formCalls : c.op = op /\ (op \in LocalOps => c.here)}
        IN  Cardinality(handlers) =< 1 /\ (op \in formFlags <=> handlers # {})
    /\ "saveConfig" \in formFlags => \E c \in formCalls : c.step = "save"
    /\ "load" \in formFlags => \E c \in formCalls : c.op = "load" /\ c.step = "then"
    /\ "list" \in formFlags => \E c \in formCalls : c.op \in {"load", "list"}

\* When the user leaves off, every button comes back.
FormSettled == formFlags = {} /\ deletingBackupKey = NoBackup
FormSettles == <>[]FormSettled

\* A backup shown to run is shown otherwise in the end.
BackupIsFollowed == []<>~backupRunning
=============================================================================
