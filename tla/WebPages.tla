------------------------------ MODULE WebPages ------------------------------
(***************************************************************************)
(* The pages of the frontend besides the one that makes images, and        *)
(* the scheduler of the registers, which the register page starts and      *)
(* stops.  A behaviour is one of one part: what a page does is seen by     *)
(* another page only through the service, which each module has its own    *)
(* part of, and a register is seen by its page as running or not.          *)
(* The parts that are not looked at keep one initial state.                *)
(***************************************************************************)
EXTENDS AccountsPage, Connections, RegisterPage, SettingsForms, UserKeys,
        ManagedLists, Library, WebSession, RegisterScheduler

VARIABLE part   \* the part the behaviour is of

Parts == {"accounts", "connections", "register", "forms", "keys", "lists", "library", "session", "scheduler"}
pagesVars == <<accountVars, connVars, registerVars, formVarsAll, keyVars, managedVars,
               libraryVars, sessionVars, schedulerVars, part>>

First(S) == CHOOSE x \in S : TRUE

(***************************************************************************)
(* The pages.                                                              *)
(***************************************************************************)
PagesInit ==
    /\ part \in Parts
    /\ AccountsInit /\ ConnectionsInit /\ RegisterInit /\ FormInit /\ UserKeysInit
    /\ ListsInit /\ LibraryInit /\ SessionInit /\ SchedulerInit
    /\ part # "accounts" => pool = First(FirstPools) /\ <<rowUse, dialogUse>> = First(AccountUses)
    /\ part # "connections" => /\ variant = "cpa" /\ servers = First(FirstServers)
                               /\ <<connUse, connFault>> = First(ConnectionUses)
    /\ part # "register" => <<followed, registerUse, registers["main"]>> = First(FollowedRegisters)
    /\ part # "forms" => <<formUse, backupUse, backupFiles>> = First(FormUses)
    /\ part # "lists" => /\ listPage = "images" /\ <<listUse, listFault>> = First(ListUses)
    /\ part # "library" => library = "prompts"
    /\ part # "scheduler" => /\ <<tasks, schedulerUse>> = First(FirstSchedules)
                             /\ task = First(tasks)
    /\ part # "session" =>
        LET first == First(FirstSessions)
        IN  /\ keyItem = first[1] /\ sessionUse = first[3]
            /\ \A t \in Tabs : tabPage[t] = "closed" <=> t \notin first[2]

AccountsPart == part = "accounts"
ConnectionsPart == part = "connections"
RegisterPart == part = "register"
FormPart == part = "forms"
KeysPart == part = "keys"
ListsPart == part = "lists"
LibraryPart == part = "library"
SessionPart == part = "session"
SchedulerPart == part = "scheduler"

NotAccounts == UNCHANGED <<part, connVars, registerVars, formVarsAll, keyVars, managedVars, libraryVars, sessionVars, schedulerVars>>
NotConnections == UNCHANGED <<part, accountVars, registerVars, formVarsAll, keyVars, managedVars, libraryVars, sessionVars, schedulerVars>>
NotRegister == UNCHANGED <<part, accountVars, connVars, formVarsAll, keyVars, managedVars, libraryVars, sessionVars, schedulerVars>>
NotForm == UNCHANGED <<part, accountVars, connVars, registerVars, keyVars, managedVars, libraryVars, sessionVars, schedulerVars>>
NotKeys == UNCHANGED <<part, accountVars, connVars, registerVars, formVarsAll, managedVars, libraryVars, sessionVars, schedulerVars>>
NotLists == UNCHANGED <<part, accountVars, connVars, registerVars, formVarsAll, keyVars, libraryVars, sessionVars, schedulerVars>>
NotLibrary == UNCHANGED <<part, accountVars, connVars, registerVars, formVarsAll, keyVars, managedVars, sessionVars, schedulerVars>>
NotScheduler ==
    UNCHANGED <<part, accountVars, connVars, registerVars, formVarsAll, keyVars, managedVars, libraryVars, sessionVars>>
NotSession == UNCHANGED <<part, accountVars, connVars, registerVars, formVarsAll, keyVars, managedVars, libraryVars, schedulerVars>>

PagesNext ==
    \/ AccountsPart /\ AccountsNext /\ NotAccounts
    \/ ConnectionsPart /\ ConnectionsNext /\ NotConnections
    \/ RegisterPart /\ RegisterNext /\ NotRegister
    \/ FormPart /\ FormNext /\ NotForm
    \/ KeysPart /\ UserKeysNext /\ NotKeys
    \/ ListsPart /\ ListsNext /\ NotLists
    \/ LibraryPart /\ LibraryNext /\ NotLibrary
    \/ SessionPart /\ SessionNext /\ NotSession
    \/ SchedulerPart /\ SchedulerNext /\ NotScheduler

(***************************************************************************)
(* The fairness of the modules, of the part that is looked at.             *)
(***************************************************************************)
PagesGoOn ==
    /\ UNCHANGED part
    /\ \/ AccountsPart /\ AccountsGoOn
       \/ ConnectionsPart /\ ConnectionsGoOn
       \/ RegisterPart /\ RegisterWorks
       \/ FormPart /\ FormGoesOn
       \/ KeysPart /\ UserKeysGoOn
       \/ ListsPart /\ ListsGoOn
       \/ LibraryPart /\ LibraryGoesOn
       \/ SessionPart /\ JobSteps
       \/ SchedulerPart /\ SchedulerGoesOn

WorkEnds ==
    /\ UNCHANGED part
    /\ \/ AccountsPart /\ \E n \in Numbers : JobEnds(n)
       \/ ConnectionsPart /\ \E s \in Servers : ImportEnds(s)
       \/ FormPart /\ BackupEnds

\* What the part that is looked at changes.
partVars ==
    CASE AccountsPart -> accountVars
      [] ConnectionsPart -> connVars
      [] RegisterPart -> registerVars
      [] FormPart -> formVarsAll
      [] KeysPart -> keyVars
      [] ListsPart -> managedVars
      [] LibraryPart -> libraryVars
      [] SessionPart -> sessionVars
      [] SchedulerPart -> schedulerVars

PagesSpec ==
    /\ PagesInit /\ [][PagesNext]_pagesVars
    /\ WF_partVars(PagesGoOn) /\ WF_partVars(WorkEnds)

(***************************************************************************)
(* The properties of the modules, in groups.                               *)
(***************************************************************************)
\* The types of every module's variables.
PagesTypeOK ==
    /\ AccountsPart => AccountsTypeOK
    /\ ConnectionsPart => ConnectionsTypeOK
    /\ RegisterPart => RegisterTypeOK
    /\ FormPart => FormTypeOK
    /\ KeysPart => UserKeysTypeOK
    /\ ListsPart => ListsTypeOK
    /\ LibraryPart => LibraryTypeOK
    /\ SessionPart => SessionTypeOK
    /\ SchedulerPart => SchedulerTypeOK

\* What is selected is of the list the page shows, whichever answer put that
\* list there: accounts/page.tsx (selectedIds), image-manager/page.tsx
\* (selectedPaths) and logs/page.tsx (selectedIds).  An open dialog may still
\* ask about an entry a load has dropped, and a tag that is gone may narrow.
SelectionsAreListed ==
    /\ AccountsPart => SelectionIsListed
    /\ ListsPart => EntriesListed

\* Flags that disable a button or show a row as busy are up exactly while a
\* handler that raised them is under way, and no handler runs twice: those a
\* page or a card keeps itself, of the accounts, the keys, the image manager
\* and the logs, the libraries and some of the settings, while that page or
\* card is mounted; those of the settings that the store keeps, across tabs
\* and pages.  And a register that is shown as running has a scheduler.
PageFlagsTell ==
    /\ AccountsPart => AccountFlagsTell
    /\ FormPart => FormFlagsTell
    /\ KeysPart => PendingTells
    /\ ListsPart => DeletingTells
    /\ LibraryPart => SavesTell
    /\ SchedulerPart => OnHasScheduler

\* An answer is used for what it was asked for: the session of an OAuth login
\* and the callback pasted for it, the files a server was browsed for and the
\* import of them, the key and the role of a session, and the result of a
\* registration, which counts for the run that made it and for its target.
AnswersKeepTheirOwner ==
    /\ AccountsPart => DialogCoherent
    /\ ConnectionsPart => ImportsOwnFiles
    /\ SessionPart => SessionIsWhole
    /\ SchedulerPart => CountsOwnResults /\ TargetKept

\* What is followed by polls, imports of servers and backups, is shown to have
\* ended in the end.
JobsAreFollowed == PoolJobsAreFollowed /\ BackupIsFollowed

\* When the user leaves off every page comes to rest: no button stays disabled,
\* no validation of a session goes on for ever, and the runs of a register that
\* were stopped or replaced end.
PagesSettle ==
    <>[](/\ AccountsPart => AccountsSettled
         /\ ConnectionsPart => ConnectionsSettled
         /\ RegisterPart => RegisterSettled
         /\ FormPart => FormSettled
         /\ KeysPart => UserKeysSettled
         /\ ListsPart => ListsSettled
         /\ LibraryPart => LibrarySettled
         /\ SessionPart => SessionSettled
         /\ SchedulerPart => SchedulerSettled)
=============================================================================
