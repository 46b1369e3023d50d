----------------------------- MODULE Connections ----------------------------
(***************************************************************************)
(* The connections of the settings page: the CPA pools, kept in the        *)
(* settings store (web/src/app/settings/store.ts, which outlives the page),*)
(* and the Sub2API servers, kept in their component                        *)
(* (components/sub2api-connections.tsx).  Both list servers, add, edit and *)
(* delete them, browse what a server holds, and import what the user       *)
(* selects as a job of the service whose state they poll.  They differ in  *)
(* what they do with an answer, so a behaviour is of one of the variants.  *)
(*                                                                         *)
(* The component of the servers is forgotten with its tab, and begins anew *)
(* when it is opened again; opening the page again loads the pools once    *)
(* more.  Neither is modelled: a behaviour is of one mounted page.         *)
(*                                                                         *)
(* Abstracted: what the forms hold; of a job, that it runs or has ended;   *)
(* the search field may match any part of the files, and pages of the      *)
(* list, which limit only what is seen, are left out.  A file carries the  *)
(* server it was read from, which the code does not tell.                  *)
(***************************************************************************)
EXTENDS Naturals, FiniteSets

CONSTANTS
    Servers, NoServer,
    FirstServers,   \* the servers of the service at first
    Names,          \* of remote files or accounts
    ConnectionUses  \* bounds: pairs of what the user does and the requests that fail

ASSUME ConnectionAssumption ==
    /\ NoServer \notin Servers /\ FirstServers \subseteq [Servers -> {"absent", "idle"}]
    /\ ConnectionUses \subseteq Nat \X Nat

VARIABLES
    variant,        \* "cpa" or "sub2api"
    servers,        \* of the service: its servers and their import jobs
    shownServers,   \* pools, or servers, of the page
    settingsShown,  \* whether the settings page is shown
    polling,        \* whether the interval that polls runs
    connFlags,      \* isLoading, isSaving, isStartingImport, isLoadingGroups
    deletingId, loadingId,
    serverDialog,   \* the dialog that adds or edits a server
    browser,        \* the dialog that selects what to import
    connCalls,      \* requests without an answer
    connUse, connFault

pageVars == <<shownServers, polling, connFlags, deletingId, loadingId>>
dialogsVars == <<serverDialog, browser>>
connVars == <<variant, servers, settingsShown, pageVars, dialogsVars, connCalls,
              connUse, connFault>>

Files == Servers \X Names
JobStates == {"absent", "idle", "running", "ended"}
List == [Servers -> JobStates]
NoList == [s \in Servers |-> "absent"]
Present(list) == {s \in Servers : list[s] # "absent"}
Running(list) == \E s \in Servers : list[s] = "running"
ConnOps == {"load", "tick", "save", "delete", "browse", "import", "groups"}
ConnCall == [op : ConnOps, n : Nat, server : Servers \cup {NoServer}, files : SUBSET Files,
             state : {"sent", "served", "failed"}, list : List]

NewConnCall(op, server, files, list) ==
    [op |-> op, n |-> connUse, server |-> server, files |-> files,
     state |-> "sent", list |-> list]

\* A row of the list is shown when the list is there; its buttons wait for
\* what was asked of its server.
Busy(s) == deletingId = s \/ loadingId = s
Row(s) == settingsShown /\ "load" \notin connFlags /\ s \in Present(shownServers) /\ ~Busy(s)

ConnectionsInit ==
    /\ variant \in {"cpa", "sub2api"} /\ settingsShown = TRUE
    /\ servers \in FirstServers
    /\ shownServers = NoList /\ polling = FALSE
    /\ connFlags = {"load"} /\ deletingId = NoServer /\ loadingId = NoServer
    /\ serverDialog = [open |-> FALSE, editing |-> NoServer, groups |-> NoServer]
    /\ browser = [open |-> FALSE, server |-> NoServer, files |-> {}, selected |-> {}]
    /\ \E u \in ConnectionUses : connUse = u[1] /\ connFault = u[2]
    /\ connCalls = {NewConnCall("load", NoServer, {}, NoList)}

(***************************************************************************)
(* The service.                                                            *)
(***************************************************************************)
Respond(c, next) == connCalls' = (connCalls \ {c}) \cup {next}
ServiceOnly == UNCHANGED <<variant, settingsShown, pageVars, dialogsVars, connUse>>

ConnectionFails(c) ==
    /\ c.state = "sent" /\ connFault > 0 /\ connFault' = connFault - 1
    /\ Respond(c, [c EXCEPT !.state = "failed"])
    /\ ServiceOnly /\ UNCHANGED servers

ListServed(c) ==
    /\ c.state = "sent" /\ c.op \in {"load", "tick", "save", "delete"}
    /\ \/ c.op \in {"load", "tick"} /\ UNCHANGED servers
       \/ /\ c.op = "save" /\ c.server = NoServer
          /\ IF Present(servers) = Servers THEN UNCHANGED servers
             ELSE \E s \in Servers \ Present(servers) :
                    servers' = [servers EXCEPT ![s] = "idle"]
       \/ c.op = "save" /\ c.server \in Present(servers) /\ UNCHANGED servers
       \/ c.op = "delete" /\ c.server \in Present(servers)
          /\ servers' = [servers EXCEPT ![c.server] = "absent"]
    /\ Respond(c, [c EXCEPT !.state = "served", !.list = servers'])
    /\ ServiceOnly /\ UNCHANGED connFault

\* The files of a server may be any.
FilesServed(c) ==
    /\ c.state = "sent" /\ c.op \in {"browse", "groups"} /\ c.server \in Present(servers)
    /\ \E ns \in (SUBSET Names) \ {{}} :
        Respond(c, [c EXCEPT !.state = "served", !.files =
            IF c.op = "browse" THEN {c.server} \X ns ELSE {}])
    /\ ServiceOnly /\ UNCHANGED <<servers, connFault>>

ImportServed(c) ==
    /\ c.state = "sent" /\ c.op = "import" /\ c.server \in Present(servers)
    /\ servers' = [servers EXCEPT ![c.server] = "running"]
    /\ Respond(c, [c EXCEPT !.state = "served"])
    /\ ServiceOnly /\ UNCHANGED connFault

\* What asks for a server that is gone is refused.
Refused(c) ==
    /\ c.state = "sent" /\ c.server # NoServer /\ c.server \notin Present(servers)
    /\ Respond(c, [c EXCEPT !.state = "failed"])
    /\ ServiceOnly /\ UNCHANGED <<servers, connFault>>

ImportEnds(s) ==
    /\ servers[s] = "running" /\ servers' = [servers EXCEPT ![s] = "ended"]
    /\ ServiceOnly /\ UNCHANGED <<connCalls, connFault>>

(***************************************************************************)
(* The page.                                                               *)
(***************************************************************************)
Use == connUse > 0 /\ connUse' = connUse - 1 /\ UNCHANGED <<variant, servers, connFault>>
Answered(c) ==
    /\ c.state # "sent" /\ connCalls' = connCalls \ {c}
    /\ UNCHANGED <<variant, servers, settingsShown, connUse, connFault>>
Good(c) == c.state = "served"
Lower(flag) == connFlags' = connFlags \ {flag}

\* The interval runs while a job of the list runs.  The effect that owns it is
\* run again by every new list; for Sub2API servers a poll that fails stops it.
PollsFor(failed, list) ==
    settingsShown /\ Running(list) /\ (failed => variant = "cpa" /\ polling)

ShowServers(list) == shownServers' = list /\ polling' = PollsFor(FALSE, list)
KeepServers == UNCHANGED <<shownServers, polling>>
ShowIf(c, list) == IF Good(c) THEN ShowServers(list) ELSE KeepServers

\* loadPools and loadServers
ServersLoaded(c) ==
    /\ c.op = "load" /\ Answered(c) /\ ShowIf(c, c.list) /\ Lower("load")
    /\ UNCHANGED <<deletingId, loadingId, dialogsVars>>

\* At most two polls are in flight.
PollTick ==
    /\ polling
    /\ \E n \in {1, 2} :
        /\ \A c \in connCalls : c.op = "tick" => c.n # n
        /\ connCalls' = connCalls \cup
            {[NewConnCall("tick", NoServer, {}, NoList) EXCEPT !.n = n]}
    /\ UNCHANGED <<variant, servers, settingsShown, pageVars, dialogsVars, connUse, connFault>>

Polled(c) ==
    /\ c.op = "tick" /\ Answered(c)
    /\ IF Good(c) THEN ShowServers(c.list)
       ELSE UNCHANGED shownServers /\ polling' = PollsFor(TRUE, shownServers)
    /\ UNCHANGED <<connFlags, deletingId, loadingId, dialogsVars>>

\* The store of the pools stays as it is while the page is away; the component
\* of the servers does not.
LeaveSettings ==
    /\ variant = "cpa" /\ settingsShown /\ Use
    /\ settingsShown' = FALSE /\ polling' = FALSE
    /\ UNCHANGED <<shownServers, connFlags, deletingId, loadingId, dialogsVars, connCalls>>

ReturnToSettings ==
    /\ ~settingsShown /\ settingsShown' = TRUE
    /\ polling' = Running(shownServers)
    /\ connFlags' = connFlags \cup {"load"}
    /\ connCalls' = connCalls \cup {NewConnCall("load", NoServer, {}, NoList)}
    /\ UNCHANGED <<variant, servers, shownServers, deletingId, loadingId, dialogsVars,
                   connUse, connFault>>

\* The dialog, its fields filled from a server or emptied; groups shown before
\* are gone.
OpenDialogFor(editing) ==
    /\ settingsShown /\ Use
    /\ serverDialog' = [open |-> TRUE, editing |-> editing, groups |-> NoServer]
    /\ UNCHANGED <<settingsShown, pageVars, browser, connCalls>>

OpenAddDialog == OpenDialogFor(NoServer)

OpenServerDialog(s) == Row(s) /\ OpenDialogFor(s)

SetDialogOpen ==
    /\ serverDialog.open /\ Use /\ serverDialog' = [serverDialog EXCEPT !.open = FALSE]
    /\ UNCHANGED <<settingsShown, pageVars, browser, connCalls>>

\* Groups are offered for a server that is saved.
GroupsOffered ==
    /\ variant = "sub2api" /\ serverDialog.open /\ serverDialog.editing # NoServer
    /\ "groups" \notin connFlags

FetchGroups ==
    /\ GroupsOffered /\ Use
    /\ connFlags' = connFlags \cup {"groups"}
    /\ connCalls' = connCalls \cup {NewConnCall("groups", serverDialog.editing, {}, NoList)}
    /\ UNCHANGED <<settingsShown, shownServers, polling, deletingId, loadingId, dialogsVars>>

\* They are shown in the dialog, whichever server it edits by now.
GroupsFetched(c) ==
    /\ c.op = "groups" /\ Answered(c) /\ Lower("groups")
    /\ serverDialog' = IF Good(c) THEN [serverDialog EXCEPT !.groups = c.server] ELSE serverDialog
    /\ UNCHANGED <<shownServers, polling, deletingId, loadingId, browser>>

SavePool ==
    /\ serverDialog.open /\ "save" \notin connFlags /\ Use
    /\ connFlags' = connFlags \cup {"save"}
    /\ connCalls' = connCalls \cup {NewConnCall("save", serverDialog.editing, {}, NoList)}
    /\ UNCHANGED <<settingsShown, shownServers, polling, deletingId, loadingId, dialogsVars>>

PoolSaved(c) ==
    /\ c.op = "save" /\ Answered(c) /\ ShowIf(c, c.list) /\ Lower("save")
    /\ serverDialog' = IF Good(c) THEN [serverDialog EXCEPT !.open = FALSE] ELSE serverDialog
    /\ UNCHANGED <<deletingId, loadingId, browser>>

DeletePool(s) ==
    /\ Row(s) /\ Use
    /\ deletingId' = s
    /\ connCalls' = connCalls \cup {NewConnCall("delete", s, {}, NoList)}
    /\ UNCHANGED <<settingsShown, shownServers, polling, connFlags, loadingId, dialogsVars>>

PoolDeleted(c) ==
    /\ c.op = "delete" /\ Answered(c) /\ ShowIf(c, c.list)
    /\ deletingId' = NoServer
    /\ UNCHANGED <<connFlags, loadingId, dialogsVars>>

BrowseFiles(s) ==
    /\ Row(s) /\ Use
    /\ loadingId' = s
    /\ connCalls' = connCalls \cup {NewConnCall("browse", s, {}, NoList)}
    /\ UNCHANGED <<settingsShown, shownServers, polling, connFlags, deletingId, dialogsVars>>

\* The server, its files and the selection are replaced together.
Browse(c) == [open |-> TRUE, server |-> c.server, files |-> c.files, selected |-> {}]

FilesBrowsed(c) ==
    /\ c.op = "browse" /\ Answered(c) /\ loadingId' = NoServer
    /\ browser' = IF Good(c) THEN Browse(c) ELSE browser
    /\ UNCHANGED <<shownServers, polling, connFlags, deletingId, serverDialog>>

\* What a search leaves of the files, and what one checkbox, or the one for
\* all of these, makes of the selection.
FilteredFiles == (SUBSET browser.files) \ {{}}
ToggledFiles(selected, filtered) ==
    IF filtered \subseteq selected THEN selected \ filtered ELSE selected \cup filtered

SelectFiles ==
    /\ browser.open /\ Use
    /\ \E filtered \in FilteredFiles :
        browser' = [browser EXCEPT !.selected = ToggledFiles(@, filtered)]
    /\ UNCHANGED <<settingsShown, pageVars, serverDialog, connCalls>>

CloseBrowser ==
    /\ browser.open /\ Use /\ browser' = [browser EXCEPT !.open = FALSE]
    /\ UNCHANGED <<settingsShown, pageVars, serverDialog, connCalls>>

ImportOffered == browser.open /\ browser.selected # {} /\ "import" \notin connFlags

\* The request keeps the list as it is now.
StartImport ==
    /\ ImportOffered /\ Use
    /\ connFlags' = connFlags \cup {"import"}
    /\ connCalls' = connCalls \cup
        {NewConnCall("import", browser.server, browser.selected, shownServers)}
    /\ UNCHANGED <<settingsShown, shownServers, polling, deletingId, loadingId, dialogsVars>>

WithJob(list, s) == IF list[s] = "absent" THEN list ELSE [list EXCEPT ![s] = "running"]

\* Into the list that was shown when the request was made: what came between
\* is gone until the next poll.
PoolImportStarted(c) ==
    /\ c.op = "import" /\ variant = "cpa" /\ Answered(c) /\ Lower("import")
    /\ ShowIf(c, WithJob(c.list, c.server))
    /\ browser' = IF Good(c) THEN [browser EXCEPT !.open = FALSE] ELSE browser
    /\ UNCHANGED <<deletingId, loadingId, serverDialog>>

\* Into the list as it is shown.
ServerImportStarted(c) ==
    /\ c.op = "import" /\ variant = "sub2api" /\ Answered(c) /\ Lower("import")
    /\ ShowIf(c, WithJob(shownServers, c.server))
    /\ browser' = IF Good(c) THEN [browser EXCEPT !.open = FALSE] ELSE browser
    /\ UNCHANGED <<deletingId, loadingId, serverDialog>>

(***************************************************************************)
(* The specification.                                                      *)
(***************************************************************************)
ConnectionsUser ==
    \/ LeaveSettings \/ OpenAddDialog \/ SetDialogOpen \/ FetchGroups \/ SavePool
    \/ SelectFiles \/ CloseBrowser \/ StartImport
    \/ \E s \in Servers : OpenServerDialog(s) \/ DeletePool(s) \/ BrowseFiles(s)

ConnectionsServed ==
    \E c \in connCalls : ListServed(c) \/ FilesServed(c) \/ ImportServed(c) \/ Refused(c)

ConnectionsAnswered ==
    \E c \in connCalls :
        \/ ServersLoaded(c) \/ Polled(c) \/ GroupsFetched(c) \/ PoolSaved(c) \/ PoolDeleted(c)
        \/ FilesBrowsed(c) \/ PoolImportStarted(c) \/ ServerImportStarted(c)

ConnectionsGoOn == ConnectionsServed \/ ConnectionsAnswered \/ PollTick

ConnectionsNext ==
    \/ ConnectionsUser \/ ReturnToSettings \/ ConnectionsGoOn
    \/ \E c \in connCalls : ConnectionFails(c)
    \/ \E s \in Servers : ImportEnds(s)

ConnectionsSpec == ConnectionsInit /\ [][ConnectionsNext]_connVars

\* Requests are answered and the interval goes off, and the imports of the
\* service end.
FairConnectionsSpec ==
    /\ ConnectionsSpec
    /\ WF_connVars(ConnectionsGoOn) /\ WF_connVars(\E s \in Servers : ImportEnds(s))

ConnectionsTypeOK ==
    /\ variant \in {"cpa", "sub2api"} /\ settingsShown \in BOOLEAN
    /\ servers \in List /\ shownServers \in List /\ polling \in BOOLEAN
    /\ connFlags \subseteq {"load", "save", "import", "groups"}
    /\ {deletingId, loadingId} \subseteq Servers \cup {NoServer}
    /\ serverDialog \in [open : BOOLEAN, editing : Servers \cup {NoServer},
                         groups : Servers \cup {NoServer}]
    /\ browser \in [open : BOOLEAN, server : Servers \cup {NoServer},
                    files : SUBSET Files, selected : SUBSET Files]
    /\ connCalls \in SUBSET ConnCall /\ connUse \in Nat /\ connFault \in Nat

\* What is imported from a server was read from that server, and is shown as
\* its own, though two servers may be browsed at once and answer in any order.
ImportsOwnFiles ==
    /\ browser.selected \subseteq browser.files
    /\ browser.files \subseteq {browser.server} \X Names
    /\ \A c \in connCalls : c.op = "import" => c.files \subseteq {c.server} \X Names

\* When the user leaves off, every button of the connections comes back.
ConnectionsSettled == connFlags = {} /\ deletingId = NoServer /\ loadingId = NoServer
ConnectionsSettle == <>[]ConnectionsSettled

\* A pool shown as importing, on a page that stays open, is shown otherwise in
\* the end, even when polls fail: the interval survives them.
PoolJobsAreFollowed ==
    \A s \in Servers : []<>(variant = "cpa" /\ settingsShown => shownServers[s] # "running")
=============================================================================
