---------------------------- MODULE AccountsPage ----------------------------
(***************************************************************************)
(* The accounts page of the web client (web/src/app/accounts/page.tsx) and *)
(* its import dialog (components/account-import-dialog.tsx).               *)
(*                                                                         *)
(* A handler that awaits a request is two steps of the page with the work  *)
(* of the service between them, and requests of different handlers are     *)
(* answered in any order.  A refresh or a recovery is a job of the service *)
(* that the page polls by an interval, which does not wait for the answer  *)
(* to its last poll: polls of one job overlap.                             *)
(*                                                                         *)
(* Abstracted: an account is a token with the part of its status the page  *)
(* decides by; quotas, types and e-mails are left out, and so are the      *)
(* progress bar, toasts and the clipboard.  Of the filters there is the    *)
(* one by status.  Tokens are numbered in the order of the list.  What is  *)
(* typed in a field of the dialog is the tokens found in it.  A page that  *)
(* is left forgets all of this, and one that is opened again starts anew.  *)
(***************************************************************************)
EXTENDS Naturals, FiniteSets, FiniteSetsExt

CONSTANTS
    Tokens,        \* access tokens, 1..n in the order of the list
    NoToken,
    PageSize,      \* rows on a page of the list
    FirstPools,    \* accounts of the service at first
    AccountUses    \* bound: what the user does, <<in the list, in the dialog>>

ASSUME AccountAssumption ==
    /\ Tokens \subseteq Nat /\ IsFiniteSet(Tokens) /\ NoToken \notin Tokens
    /\ PageSize \in Nat \ {0}
    /\ FirstPools \subseteq [Tokens -> {"absent", "normal", "abnormal"}]
    /\ AccountUses \subseteq Nat \X Nat

VARIABLES
    pool,            \* the accounts of the service, by token
    jobs,            \* its refresh and recovery jobs
    accounts,        \* the accounts the page has
    selectedIds, page, statusFilter,
    accountFlags,    \* isLoading, isRefreshing, ... that are set
    refreshingTokens,
    refreshSummary,  \* whether the cards show the numbers of a running job
    editingAccount, showDiagnostics,
    flows,           \* refreshes and recoveries of the page, by number
    accountCalls,    \* requests and file reads without an answer
    importDialog,
    rowUse, dialogUse \* what is left of the user's uses

listVars == <<selectedIds, page, statusFilter>>
flowVars == <<jobs, flows, refreshingTokens, refreshSummary>>
dialogVars == <<importDialog, dialogUse>>
accountVars == <<pool, flowVars, accounts, listVars, accountFlags,
    editingAccount, showDiagnostics, accountCalls, dialogVars, rowUse>>

Status == {"absent", "normal", "abnormal"}
Items == [Tokens -> Status]
NoItems == [t \in Tokens |-> "absent"]
Listed(items) == {t \in Tokens : items[t] # "absent"}
Abnormal(items) == {t \in Tokens : items[t] = "abnormal"}

Numbers == UNION {1..u[1] : u \in AccountUses}
Requests == {"load", "delete", "update", "proxy", "submit", "diagnose"}
Flags == Requests \cup {"oauth", "refresh", "relogin"}
\* "text" is any of the three methods with a text field.
Methods == {"menu", "text", "json", "oauth"}
Kinds == {"none", "one", "refresh", "relogin"}

Job == [state : {"none", "running", "done", "error"}, ts : SUBSET Tokens, items : Items]
Call == [op : Requests \cup {"oauth", "start", "poll", "relist", "txt", "file"},
         n : Nat, ts : SUBSET Tokens, state : {"sent", "served", "failed"},
         done : BOOLEAN, items : Items]
Flow == [kind : Kinds, ts : SUBSET Tokens,
         state : {"none", "starting", "polling", "settled", "relisting", "ended"}]
Dialog == [open : BOOLEAN, method : Methods, typed : SUBSET Tokens,
           pending : SUBSET Tokens, confirm : BOOLEAN, session : Nat, callback : Nat]

NewCall(op, n, ts) == [op |-> op, n |-> n, ts |-> ts, state |-> "sent",
                       done |-> FALSE, items |-> NoItems]
NoJob == [state |-> "none", ts |-> {}, items |-> NoItems]
NoFlow == [kind |-> "none", ts |-> {}, state |-> "none"]

\* resetState
Reset(open) == [open |-> open, method |-> "menu", typed |-> {}, pending |-> {},
                confirm |-> FALSE, session |-> 0, callback |-> 0]

\* The state of a page just opened: it asks for the accounts.
OpenPage ==
    [accounts |-> NoItems, flags |-> {"load"}, dialog |-> Reset(FALSE),
     calls |-> {NewCall("load", 0, {})}]

AccountsInit ==
    /\ pool \in FirstPools /\ jobs = [n \in Numbers |-> NoJob]
    /\ accounts = OpenPage.accounts /\ accountFlags = OpenPage.flags
    /\ accountCalls = OpenPage.calls /\ importDialog = OpenPage.dialog
    /\ selectedIds = {} /\ page = 1 /\ statusFilter = "all"
    /\ refreshingTokens = {} /\ refreshSummary = FALSE
    /\ editingAccount = NoToken /\ showDiagnostics = FALSE
    /\ flows = [n \in Numbers |-> NoFlow]
    /\ \E u \in AccountUses : rowUse = u[1] /\ dialogUse = u[2]

(***************************************************************************)
(* What is shown.                                                          *)
(***************************************************************************)
FilteredAccounts ==
    IF statusFilter = "all" THEN Listed(accounts) ELSE Abnormal(accounts)
PageCount == IF FilteredAccounts = {} THEN 1
             ELSE (Cardinality(FilteredAccounts) + PageSize - 1) \div PageSize
SafePage == IF page =< PageCount THEN page ELSE PageCount
Position(t) == Cardinality({u \in FilteredAccounts : u =< t})
CurrentRows ==
    {t \in FilteredAccounts : /\ Position(t) > (SafePage - 1) * PageSize
                              /\ Position(t) =< SafePage * PageSize}
SelectedTokens == selectedIds \cap Listed(accounts)
Idle == accountFlags \cap {"load", "refresh", "delete"} = {}

UseRow == rowUse > 0 /\ rowUse' = rowUse - 1
UseDialog == dialogUse > 0 /\ dialogUse' = dialogUse - 1

(***************************************************************************)
(* Requests.  A request that fails has had its effect or has not.          *)
(***************************************************************************)
Ask(flag, call) ==
    /\ accountFlags' = accountFlags \cup {flag}
    /\ accountCalls' = accountCalls \cup {call}

Answer(c, next) == accountCalls' = (accountCalls \ {c}) \cup {next}

CallFails(c) ==
    /\ c.state = "sent" /\ Answer(c, [c EXCEPT !.state = "failed"])
    /\ UNCHANGED <<pool, flowVars, accounts, listVars, accountFlags,
                   editingAccount, showDiagnostics, dialogVars, rowUse>>

\* What a request makes of the service's accounts.
Effect(c) ==
    CASE c.op = "delete" -> {[t \in Tokens |-> IF t \in c.ts THEN "absent" ELSE pool[t]]}
      [] c.op = "update" -> {[t \in Tokens |-> IF t \in c.ts THEN s ELSE pool[t]] :
                                s \in {"normal", "abnormal"}}
      [] c.op = "submit" /\ c.n = 0 ->
            {[t \in Tokens |-> IF t \in c.ts /\ pool[t] = "absent" THEN "normal" ELSE pool[t]]}
      [] c.op = "submit" /\ c.n > 0 -> {[pool EXCEPT ![t] = "normal"] : t \in Tokens}
      [] OTHER -> {pool}

CallServed(c) ==
    /\ c.state = "sent" /\ c.op \notin {"start", "poll"}
    /\ c.op = "update" => c.ts \subseteq Listed(pool)
    /\ \E next \in Effect(c) :
        /\ pool' = next
        /\ \/ Answer(c, [c EXCEPT !.state = "served", !.items = next])
           \/ next # pool /\ Answer(c, [c EXCEPT !.state = "failed"])
    /\ UNCHANGED <<flowVars, accounts, listVars, accountFlags,
                   editingAccount, showDiagnostics, dialogVars, rowUse>>

\* A job of the service: it answers at once with its number, runs on its own,
\* and its progress may be asked for.
JobCallServed(c) ==
    /\ c.state = "sent"
    /\ \/ /\ c.op = "start"
          /\ jobs' = [jobs EXCEPT ![c.n].state = "running", ![c.n].ts = c.ts]
          /\ Answer(c, [c EXCEPT !.state = "served"])
       \/ /\ c.op = "poll"
          /\ Answer(c, [c EXCEPT !.state = "served", !.items = jobs[c.n].items,
                                 !.done = jobs[c.n].state # "running"])
          /\ UNCHANGED jobs
    /\ UNCHANGED <<pool, flows, refreshingTokens, refreshSummary, accounts, listVars,
            accountFlags, editingAccount, showDiagnostics, dialogVars, rowUse>>

JobEnds(n) ==
    /\ jobs[n].state = "running"
    /\ \/ jobs' = [jobs EXCEPT ![n].state = "error"] /\ UNCHANGED pool
       \/ \E s \in Status :
            /\ pool' = [t \in Tokens |->
                    IF t \in jobs[n].ts /\ pool[t] # "absent" THEN s ELSE pool[t]]
            /\ jobs' = [jobs EXCEPT ![n].state = "done", ![n].items = pool']
    /\ UNCHANGED <<flows, refreshingTokens, refreshSummary, accounts, listVars,
            accountFlags, editingAccount, showDiagnostics, accountCalls, dialogVars, rowUse>>

(***************************************************************************)
(* Answers.                                                                *)
(***************************************************************************)
\* Mutant: the selection is left as it was.
ShowRaw(items) == accounts' = items /\ UNCHANGED listVars

\* setAccounts, and setSelectedIds without the accounts that are gone
Show(items) ==
    /\ accounts' = items
    /\ selectedIds' = selectedIds \cap Listed(items)
    /\ UNCHANGED <<page, statusFilter>>

\* Mutant: the flag is lowered when the request succeeded.
TakeOnSuccess(c) ==
    /\ c.state # "sent"
    /\ accountFlags' = IF c.state = "served" THEN accountFlags \ {c.op} ELSE accountFlags
    /\ accountCalls' = accountCalls \ {c}

\* The end of a handler: its request is answered and its flag lowered.
Take(c) ==
    /\ c.state # "sent"
    /\ accountFlags' = accountFlags \ {c.op}
    /\ accountCalls' = accountCalls \ {c}

Ok(c) == c.state = "served"
ShowOrKeep(c) == IF Ok(c) THEN Show(c.items) ELSE UNCHANGED <<accounts, listVars>>

LoadAccounts ==
    /\ Idle /\ UseRow /\ Ask("load", NewCall("load", 0, {}))
    /\ UNCHANGED <<pool, flowVars, accounts, listVars, editingAccount,
                   showDiagnostics, dialogVars>>

AccountsLoaded(c) ==
    /\ c.op = "load" /\ Take(c) /\ ShowOrKeep(c)
    /\ UNCHANGED <<pool, flowVars, editingAccount, showDiagnostics, dialogVars, rowUse>>

\* The diagnosis of the pool and the test of a proxy are only shown.
OtherLoaded(c) ==
    /\ c.op \in {"diagnose", "proxy"} /\ Take(c)
    /\ UNCHANGED <<pool, flowVars, accounts, listVars, editingAccount,
                   showDiagnostics, dialogVars, rowUse>>

DeleteTokens(ts) ==
    /\ ts # {} /\ "delete" \notin accountFlags /\ UseRow
    /\ Ask("delete", NewCall("delete", 0, ts))
    /\ UNCHANGED <<pool, flowVars, accounts, listVars, editingAccount,
                   showDiagnostics, dialogVars>>

RemoveOrDelete ==
    \E ts \in {Abnormal(accounts), SelectedTokens} \cup {{t} : t \in CurrentRows} :
        DeleteTokens(ts)

TokensDeleted(c) ==
    /\ c.op = "delete" /\ Take(c) /\ ShowOrKeep(c)
    /\ UNCHANGED <<pool, flowVars, editingAccount, showDiagnostics, dialogVars, rowUse>>

(***************************************************************************)
(* Refreshes and recoveries.                                               *)
(***************************************************************************)
StartFlow(kind, ts) ==
    /\ UseRow
    /\ flows' = [flows EXCEPT ![rowUse] = [kind |-> kind, ts |-> ts, state |-> "starting"]]
    /\ accountCalls' = accountCalls \cup {NewCall("start", rowUse, ts)}
    /\ UNCHANGED <<pool, jobs, refreshSummary, accounts, listVars, editingAccount,
                   showDiagnostics, dialogVars>>

\* Of one account only its row spins; none is no refresh.
RefreshAccounts(ts) ==
    /\ ts # {}
    /\ IF Cardinality(ts) = 1
       THEN /\ refreshingTokens' = refreshingTokens \cup ts
            /\ StartFlow("one", ts) /\ UNCHANGED accountFlags
       ELSE /\ accountFlags' = accountFlags \cup {"refresh"}
            /\ StartFlow("refresh", ts) /\ UNCHANGED refreshingTokens

RefreshButtons ==
    \/ Idle /\ RefreshAccounts(Listed(accounts))
    \/ "refresh" \notin accountFlags /\ RefreshAccounts(SelectedTokens)

RefreshRow(t) ==
    /\ t \in CurrentRows /\ "refresh" \notin accountFlags /\ t \notin refreshingTokens
    /\ RefreshAccounts({t})

\* Of the selected accounts, those shown as abnormal.
ReLogin ==
    /\ "relogin" \notin accountFlags /\ SelectedTokens \cap Abnormal(accounts) # {}
    /\ accountFlags' = accountFlags \cup {"relogin"}
    /\ StartFlow("relogin", SelectedTokens \cap Abnormal(accounts))
    /\ UNCHANGED refreshingTokens

\* The end of a flow, by success or by an error.
EndFlow(n, next) ==
    /\ flows' = [next EXCEPT ![n].state = "ended"]
    /\ accountFlags' = accountFlags \ {flows[n].kind}
    /\ refreshingTokens' =
            IF flows[n].kind = "one" THEN refreshingTokens \ flows[n].ts ELSE refreshingTokens

FlowStarted(c) ==
    /\ c.op = "start" /\ c.state # "sent"
    /\ accountCalls' = accountCalls \ {c}
    /\ IF Ok(c) THEN /\ flows' = [flows EXCEPT ![c.n].state = "polling"]
                     /\ UNCHANGED <<accountFlags, refreshingTokens, refreshSummary>>
       ELSE /\ EndFlow(c.n, flows)
            /\ refreshSummary' = (flows[c.n].kind = "one" /\ refreshSummary)
    /\ UNCHANGED <<pool, jobs, accounts, listVars, editingAccount,
                   showDiagnostics, dialogVars, rowUse>>

\* A tick of the interval.  At most two polls of a flow are in flight, told
\* apart by the tokens field.
Tick(n) ==
    /\ flows[n].state = "polling"
    /\ \E c \in {NewCall("poll", n, {}), NewCall("poll", n, flows[n].ts)} :
        /\ \A d \in accountCalls : d.op = "poll" /\ d.n = n => d.ts # c.ts
        /\ accountCalls' = accountCalls \cup {c}
    /\ UNCHANGED <<pool, flowVars, accounts, listVars, accountFlags, editingAccount,
                   showDiagnostics, dialogVars, rowUse>>

\* pollRefreshProgress, of one account.  An answer that comes after the end of
\* the flow is still shown.
OnePolled(c) ==
    /\ c.op = "poll" /\ c.state # "sent" /\ flows[c.n].kind = "one"
    /\ accountCalls' = accountCalls \ {c}
    /\ IF Ok(c) /\ c.done /\ jobs[c.n].state = "done"
       THEN Show(c.items) ELSE UNCHANGED <<accounts, listVars>>
    /\ IF flows[c.n].state = "polling" /\ (Ok(c) => c.done)
       THEN EndFlow(c.n, flows) ELSE UNCHANGED <<flows, accountFlags, refreshingTokens>>
    /\ UNCHANGED <<pool, jobs, refreshSummary, editingAccount, showDiagnostics, dialogVars, rowUse>>

\* The callback of the interval of a refresh of several accounts, or of a
\* recovery.  The summary of the cards is set by every answer, late or not.
ManyPolled(c) ==
    /\ c.op = "poll" /\ c.state # "sent" /\ flows[c.n].kind \in {"refresh", "relogin"}
    /\ accountCalls' = accountCalls \ {c}
    /\ LET live == flows[c.n].state = "polling"
           good == Ok(c) /\ c.done /\ jobs[c.n].state = "done"
       IN  \/ /\ Ok(c) /\ ~c.done /\ refreshSummary' = TRUE
              /\ UNCHANGED <<flows, accountFlags, refreshingTokens, accounts, listVars>>
           \/ /\ good /\ refreshSummary' = FALSE
              /\ flows' = IF live THEN [flows EXCEPT ![c.n].state = "settled"] ELSE flows
              /\ IF live /\ flows[c.n].kind = "refresh"
                 THEN Show(c.items) ELSE UNCHANGED <<accounts, listVars>>
              /\ UNCHANGED <<accountFlags, refreshingTokens>>
           \/ /\ ~good /\ (Ok(c) => c.done)
              /\ IF live THEN EndFlow(c.n, flows) /\ refreshSummary' = FALSE
                 ELSE UNCHANGED <<flows, accountFlags, refreshingTokens, refreshSummary>>
              /\ UNCHANGED <<accounts, listVars>>
    /\ UNCHANGED <<pool, jobs, editingAccount, showDiagnostics, dialogVars, rowUse>>

\* After the bar was shown to the end; a recovery loads the accounts first.
RefreshEnds(n) ==
    /\ flows[n].state = "settled" /\ flows[n].kind = "refresh" /\ EndFlow(n, flows)
    /\ UNCHANGED <<pool, jobs, refreshSummary, accounts, listVars, editingAccount,
                   showDiagnostics, accountCalls, dialogVars, rowUse>>

Relist(n) ==
    /\ flows[n].state = "settled" /\ flows[n].kind = "relogin"
    /\ flows' = [flows EXCEPT ![n].state = "relisting"]
    /\ accountCalls' = accountCalls \cup {NewCall("relist", n, {})}
    /\ UNCHANGED <<pool, jobs, refreshingTokens, refreshSummary, accounts, listVars,
            accountFlags, editingAccount, showDiagnostics, dialogVars, rowUse>>

ReLoginEnds(c) ==
    /\ c.op = "relist" /\ c.state # "sent"
    /\ accountCalls' = accountCalls \ {c}
    /\ EndFlow(c.n, flows) /\ ShowOrKeep(c)
    /\ UNCHANGED <<pool, jobs, refreshSummary, editingAccount, showDiagnostics, dialogVars, rowUse>>

(***************************************************************************)
(* The edit dialog, the analysis panel, the selection and the paging.      *)
(***************************************************************************)
OpenEditDialog(t) ==
    /\ t \in CurrentRows /\ "update" \notin accountFlags /\ UseRow
    /\ editingAccount' = t
    /\ UNCHANGED <<pool, flowVars, accounts, listVars, accountFlags, showDiagnostics,
                   accountCalls, dialogVars>>

\* By its button, or by Escape, which works during an update as well.
CloseEditDialog ==
    /\ editingAccount # NoToken /\ UseRow /\ editingAccount' = NoToken
    /\ UNCHANGED <<pool, flowVars, accounts, listVars, accountFlags, showDiagnostics,
                   accountCalls, dialogVars>>

UpdateAccount ==
    /\ editingAccount # NoToken /\ "update" \notin accountFlags /\ UseRow
    /\ Ask("update", NewCall("update", 0, {editingAccount}))
    /\ UNCHANGED <<pool, flowVars, accounts, listVars, editingAccount, showDiagnostics,
                   dialogVars>>

AccountUpdated(c) ==
    /\ c.op = "update" /\ Take(c) /\ ShowOrKeep(c)
    /\ editingAccount' = IF Ok(c) THEN NoToken ELSE editingAccount
    /\ UNCHANGED <<pool, flowVars, showDiagnostics, dialogVars, rowUse>>

TestAccountProxy ==
    /\ editingAccount # NoToken /\ "proxy" \notin accountFlags /\ UseRow
    /\ Ask("proxy", NewCall("proxy", 0, {}))
    /\ UNCHANGED <<pool, flowVars, accounts, listVars, editingAccount, showDiagnostics,
                   dialogVars>>

\* The panel starts to load as it is opened; closed, it is forgotten with
\* its request.
ToggleDiagnostics ==
    /\ UseRow /\ showDiagnostics' = ~showDiagnostics
    /\ IF showDiagnostics
       THEN /\ accountFlags' = accountFlags \ {"diagnose"}
            /\ accountCalls' = {c \in accountCalls : c.op # "diagnose"}
       ELSE Ask("diagnose", NewCall("diagnose", 0, {}))
    /\ UNCHANGED <<pool, flowVars, accounts, listVars, editingAccount, dialogVars>>

LoadDiagnostics ==
    /\ showDiagnostics /\ "diagnose" \notin accountFlags /\ UseRow
    /\ Ask("diagnose", NewCall("diagnose", 0, {}))
    /\ UNCHANGED <<pool, flowVars, accounts, listVars, editingAccount, showDiagnostics,
                   dialogVars>>

Lists == /\ UseRow
         /\ UNCHANGED <<pool, flowVars, accounts, accountFlags, editingAccount,
                        showDiagnostics, accountCalls, dialogVars>>

SelectRow(t) ==
    /\ t \in CurrentRows /\ Lists
    /\ selectedIds' = IF t \in selectedIds THEN selectedIds \ {t} ELSE selectedIds \cup {t}
    /\ UNCHANGED <<page, statusFilter>>

ToggleSelectAll ==
    /\ CurrentRows # {} /\ Lists
    /\ selectedIds' = IF CurrentRows \subseteq selectedIds THEN selectedIds \ CurrentRows
                      ELSE selectedIds \cup CurrentRows
    /\ UNCHANGED <<page, statusFilter>>

SetStatusFilter ==
    /\ Lists /\ page' = 1
    /\ statusFilter' = IF statusFilter = "all" THEN "abnormal" ELSE "all"
    /\ UNCHANGED selectedIds

\* Mutant: the button for the page before is never disabled and has no bound.
SetPageBack ==
    Lists /\ UNCHANGED <<selectedIds, statusFilter>> /\ page' = page - 1

SetPage ==
    /\ Lists /\ UNCHANGED <<selectedIds, statusFilter>>
    /\ \/ SafePage > 1 /\ page' = Max({1, page - 1})
       \/ SafePage < PageCount /\ page' = Min({PageCount, page + 1})
       \/ page' \in 1..PageCount

(***************************************************************************)
(* The import dialog.                                                      *)
(***************************************************************************)
Typing == importDialog.open /\ UseDialog
DialogOnly == UNCHANGED <<pool, flowVars, accounts, listVars, editingAccount,
                          showDiagnostics, rowUse>>
JustDialog == DialogOnly /\ UNCHANGED <<accountFlags, accountCalls>>
FooterEnabled == Idle /\ "submit" \notin accountFlags

OpenImport ==
    /\ ~importDialog.open /\ Idle /\ dialogUse > 0
    /\ importDialog' = [importDialog EXCEPT !.open = TRUE]
    /\ JustDialog /\ UNCHANGED dialogUse

\* The button of the dialog closes it as it is.
CancelImport ==
    /\ Typing /\ FooterEnabled
    /\ importDialog' = [importDialog EXCEPT !.open = FALSE] /\ JustDialog

\* Escape, at any time, resets it.
HandleOpenChange ==
    /\ Typing /\ importDialog' = Reset(FALSE)
    /\ accountFlags' = accountFlags \ {"oauth"}
    /\ DialogOnly /\ UNCHANGED accountCalls

SetMethod(m) ==
    /\ Typing /\ (importDialog.method = "menu" \/ m = "menu")
    /\ importDialog' = [importDialog EXCEPT !.method = m] /\ JustDialog

TypeTokens(ts) ==
    /\ Typing /\ importDialog.method = "text"
    /\ importDialog' = [importDialog EXCEPT !.typed = ts] /\ JustDialog

\* What a text or a file holds.
Found == (SUBSET Tokens) \ {{}}

\* A file is read, and its tokens taken in, in steps of their own.
PickFile(op, ts) ==
    /\ Typing /\ importDialog.method = (IF op = "txt" THEN "text" ELSE "json")
    /\ accountCalls' = accountCalls \cup {NewCall(op, 0, ts)}
    /\ DialogOnly /\ UNCHANGED <<accountFlags, importDialog>>

TxtSelected(c) ==
    /\ c.op = "txt" /\ c.state # "sent" /\ accountCalls' = accountCalls \ {c}
    /\ importDialog' = IF Ok(c) THEN [importDialog EXCEPT !.typed = @ \cup c.ts]
                       ELSE importDialog
    /\ DialogOnly /\ UNCHANGED <<accountFlags, dialogUse>>

AccountJsonSelected(c) ==
    /\ c.op = "file" /\ c.state # "sent" /\ accountCalls' = accountCalls \ {c}
    /\ importDialog' = IF Ok(c) THEN [importDialog EXCEPT !.pending = c.ts, !.confirm = TRUE]
                       ELSE importDialog
    /\ DialogOnly /\ UNCHANGED <<accountFlags, dialogUse>>

SetConfirm(shown) ==
    /\ UseDialog /\ importDialog.confirm # shown
    /\ shown => importDialog.open /\ FooterEnabled /\ importDialog.pending # {}
    /\ importDialog' = [importDialog EXCEPT !.confirm = shown] /\ JustDialog

SubmitTokens(n, ts) ==
    /\ UseDialog /\ Ask("submit", NewCall("submit", n, ts))
    /\ DialogOnly /\ UNCHANGED importDialog

ImportTokenText ==
    /\ importDialog.open /\ FooterEnabled /\ importDialog.method = "text"
    /\ importDialog.typed # {} /\ SubmitTokens(0, importDialog.typed)

\* A session holds one token.
ImportSessionJson ==
    /\ importDialog.open /\ FooterEnabled /\ importDialog.method = "text"
    /\ Cardinality(importDialog.typed) = 1 /\ SubmitTokens(0, importDialog.typed)

ImportCodexAuthJson ==
    /\ importDialog.open /\ FooterEnabled /\ importDialog.method = "text"
    /\ Cardinality(importDialog.typed) = 1 /\ SubmitTokens(0, importDialog.typed)

ConfirmImport ==
    /\ importDialog.confirm /\ "submit" \notin accountFlags
    /\ importDialog.pending # {} /\ SubmitTokens(0, importDialog.pending)

\* The form shows the button while it has no session, the session otherwise.
OAuthOffered ==
    importDialog.method = "oauth" /\ importDialog.session = 0 /\ "oauth" \notin accountFlags

StartOAuth ==
    /\ Typing /\ OAuthOffered /\ Ask("oauth", NewCall("oauth", dialogUse, {}))
    /\ DialogOnly /\ UNCHANGED importDialog

\* Mutant: what was pasted for the session before is left in its field.
OAuthStartedAgain(n) == [importDialog EXCEPT !.session = n]

OAuthStartedFor(n) == [importDialog EXCEPT !.session = n, !.callback = 0]

\* The new session is shown whatever the dialog shows by now.
OAuthStarted(c) ==
    /\ c.op = "oauth" /\ Take(c)
    /\ importDialog' = IF Ok(c) THEN OAuthStartedFor(c.n) ELSE importDialog
    /\ DialogOnly /\ UNCHANGED dialogUse

OAuthAgain ==
    /\ Typing /\ importDialog.method = "oauth" /\ importDialog.session # 0
    /\ importDialog' = [importDialog EXCEPT !.session = 0, !.callback = 0] /\ JustDialog

\* The user pastes what the authorization of the session shown gave.
PasteCallback ==
    /\ Typing /\ importDialog.method = "oauth" /\ importDialog.session # 0
    /\ importDialog' = [importDialog EXCEPT !.callback = importDialog.session] /\ JustDialog

FinishOAuth ==
    /\ importDialog.open /\ FooterEnabled /\ importDialog.method = "oauth"
    /\ importDialog.session # 0 /\ importDialog.callback # 0
    /\ SubmitTokens(importDialog.session, {})

\* onImported, setOpen(false), resetState: a dialog that was closed and opened
\* again meanwhile is closed, and what was typed in it is gone.
TokensSubmitted(c) ==
    /\ c.op = "submit" /\ c.state # "sent" /\ accountCalls' = accountCalls \ {c}
    /\ IF Ok(c) THEN /\ accounts' = c.items /\ selectedIds' = {} /\ page' = 1
                     /\ importDialog' = Reset(FALSE)
                     /\ accountFlags' = accountFlags \ {"submit", "oauth"}
       ELSE /\ accountFlags' = accountFlags \ {"submit"}
            /\ UNCHANGED <<accounts, selectedIds, page, importDialog>>
    /\ UNCHANGED <<pool, flowVars, statusFilter, editingAccount, showDiagnostics, rowUse,
                   dialogUse>>

(***************************************************************************)
(* The specification.                                                      *)
(***************************************************************************)
AccountsUser ==
    \/ LoadAccounts \/ RemoveOrDelete \/ RefreshButtons \/ ReLogin
    \/ \E t \in Tokens : RefreshRow(t) \/ OpenEditDialog(t) \/ SelectRow(t)
    \/ CloseEditDialog \/ UpdateAccount \/ TestAccountProxy
    \/ ToggleDiagnostics \/ LoadDiagnostics
    \/ ToggleSelectAll \/ SetStatusFilter \/ SetPage
    \/ OpenImport \/ CancelImport \/ HandleOpenChange
    \/ \E m \in Methods : SetMethod(m)
    \/ \E ts \in Found :
            TypeTokens(ts) \/ \E op \in {"txt", "file"} : PickFile(op, ts)
    \/ \E shown \in BOOLEAN : SetConfirm(shown)
    \/ ImportTokenText \/ ImportSessionJson \/ ImportCodexAuthJson \/ ConfirmImport
    \/ StartOAuth \/ OAuthAgain \/ PasteCallback \/ FinishOAuth

AccountsServed == \E c \in accountCalls : CallServed(c) \/ JobCallServed(c)

AccountsAnswered ==
    \E c \in accountCalls :
        \/ AccountsLoaded(c) \/ OtherLoaded(c) \/ TokensDeleted(c) \/ FlowStarted(c)
        \/ OnePolled(c) \/ ManyPolled(c) \/ ReLoginEnds(c) \/ AccountUpdated(c)
        \/ TxtSelected(c) \/ AccountJsonSelected(c) \/ OAuthStarted(c) \/ TokensSubmitted(c)

AccountsTimers == \E n \in Numbers : Tick(n) \/ RefreshEnds(n) \/ Relist(n)

AccountsGoOn ==
    \/ AccountsAnswered \/ AccountsTimers \/ AccountsServed
    \/ \E c \in accountCalls : c.state = "sent" /\ CallFails(c)

AccountsNext ==
    \/ AccountsUser \/ AccountsGoOn
    \/ \E c \in accountCalls : CallFails(c)
    \/ \E n \in Numbers : JobEnds(n)

AccountsSpec == AccountsInit /\ [][AccountsNext]_accountVars

\* A request is answered or fails, its handler goes on and timers go off, in
\* whatever order; and the jobs of the service end.
FairAccountsSpec ==
    /\ AccountsSpec
    /\ WF_accountVars(AccountsGoOn) /\ WF_accountVars(\E n \in Numbers : JobEnds(n))

AccountsTypeOK ==
    /\ pool \in Items /\ accounts \in Items /\ jobs \in [Numbers -> Job]
    /\ flows \in [Numbers -> Flow] /\ accountCalls \in SUBSET Call
    /\ selectedIds \subseteq Tokens /\ refreshingTokens \subseteq Tokens
    /\ page \in Nat \ {0} /\ statusFilter \in {"all", "abnormal"}
    /\ accountFlags \subseteq Flags /\ refreshSummary \in BOOLEAN
    /\ editingAccount \in Tokens \cup {NoToken} /\ showDiagnostics \in BOOLEAN
    /\ importDialog \in Dialog /\ rowUse \in Nat /\ dialogUse \in Nat

\* Only accounts of the list are selected, whichever of the answers that
\* replace the list came last: "delete selected" names nothing the user does
\* not see.
SelectionIsListed == selectedIds \subseteq Listed(accounts)

\* A flag that disables buttons is up exactly while its one request, or its
\* one flow, is under way; a row spins only while a flow refreshes it.
AccountFlagsTell ==
    /\ \A op \in Requests :
        /\ op \in accountFlags <=> \E c \in accountCalls : c.op = op
        /\ Cardinality({c \in accountCalls : c.op = op}) =< 1
    /\ \A kind \in {"refresh", "relogin"} :
        LET under == {n \in Numbers : flows[n].kind = kind /\ flows[n].state # "ended"}
        IN  Cardinality(under) =< 1 /\ (kind \in accountFlags <=> under # {})
    /\ \A t \in refreshingTokens :
        \E n \in Numbers : flows[n].kind = "one" /\ t \in flows[n].ts
                             /\ flows[n].state # "ended"

\* What is pasted is sent with the session it was given for, though a session
\* asked for before the dialog was closed may come when another is shown; and
\* the question whether to import has something to import.
DialogCoherent ==
    /\ importDialog.callback # 0 => importDialog.callback = importDialog.session
    /\ importDialog.confirm => importDialog.pending # {}

\* When the user leaves off, every button comes back: no flag stays up and no
\* row spins for ever.
AccountsSettled == accountFlags = {} /\ refreshingTokens = {}
AccountsSettle == <>[]AccountsSettled
=============================================================================
