--------------------------- MODULE WebPagesProofs ---------------------------
(***************************************************************************)
(* The pages of the frontend: the types of every page, that what is        *)
(* selected is listed, that flags tell what is under way, and that an      *)
(* answer is used for what it was asked for, for any accounts, servers,    *)
(* keys, entries, sessions and bounds.                                     *)
(*                                                                         *)
(* Every part has an inductive invariant of its own, below; the register,  *)
(* its scheduler and the settings have theirs in modules of their own.     *)
(* Most say of the requests under way what the page has to show of them:   *)
(* that there is one for a flag that is up and none for a flag that is     *)
(* down, and that the one there is carries what it was made with.          *)
(***************************************************************************)
EXTENDS WebPages, RegisterProofs, SettingsFormsProofs

(***************************************************************************)
(* The accounts page.                                                      *)
(***************************************************************************)
\* A request of a kind that has a flag is the only one of its kind.
OneRequest ==
    /\ \A c, d \in accountCalls : c.op \in Requests /\ d.op = c.op => c = d
    /\ \A op \in Requests : op \in accountFlags <=> \E c \in accountCalls : c.op = op
    /\ "diagnose" \in accountFlags => showDiagnostics

\* A start or a last load is asked for one flow, which waits for it; a poll
\* is of a flow that was begun; and the flows not yet begun are empty.
FlowCalls ==
    /\ \A c, d \in accountCalls : c.op \in {"start", "relist"} /\ d.op = c.op /\ d.n = c.n => c = d
    /\ \A c \in accountCalls :
        /\ c.op \in {"start", "relist", "poll"} => c.n \in Numbers
        /\ c.op = "start" => flows[c.n].state = "starting"
        /\ c.op = "relist" => flows[c.n].state = "relisting"
    /\ \A n \in Numbers : n =< rowUse => flows[n] = NoFlow
    /\ \E u \in AccountUses : rowUse =< u[1]

UnderWay(n, kind) == flows[n].kind = kind /\ flows[n].state # "ended"

OneFlow ==
    /\ \A kind \in {"refresh", "relogin"} :
        /\ \A m, n \in Numbers : UnderWay(m, kind) /\ UnderWay(n, kind) => m = n
        /\ kind \in accountFlags <=> \E n \in Numbers : UnderWay(n, kind)
    /\ \A t \in refreshingTokens : \E n \in Numbers : UnderWay(n, "one") /\ t \in flows[n].ts
    /\ \A n \in Numbers : flows[n].kind = "none" <=> flows[n].state = "none"

FilesHold == \A c \in accountCalls : c.op = "file" => c.ts # {}

AccountsInv == 
    /\ AccountsTypeOK /\ SelectionIsListed /\ DialogCoherent
    /\ OneRequest /\ FlowCalls /\ OneFlow /\ FilesHold

FlowOps == {"start", "relist", "poll"}

LEMMA OneRequestTells ==
    ASSUME OneRequest, OneFlow
    PROVE  AccountFlagsTell
<1>1. ASSUME NEW op \in Requests
      PROVE  /\ op \in accountFlags <=> \E c \in accountCalls : c.op = op
             /\ Cardinality({c \in accountCalls : c.op = op}) =< 1
    <2>1. \A x, y \in {c \in accountCalls : c.op = op} : x = y
        BY DEF OneRequest
    <2> QED BY <2>1, AtMostOne DEF OneRequest
<1>2. ASSUME NEW kind \in {"refresh", "relogin"}
      PROVE  LET under == {n \in Numbers : flows[n].kind = kind /\ flows[n].state # "ended"}
             IN  Cardinality(under) =< 1 /\ (kind \in accountFlags <=> under # {})
    <2> DEFINE under == {n \in Numbers : flows[n].kind = kind /\ flows[n].state # "ended"}
    <2>1. \A x, y \in under : x = y
        BY DEF OneFlow, UnderWay
    <2>2. kind \in accountFlags <=> under # {}
        BY DEF OneFlow, UnderWay
    <2> QED BY <2>1, <2>2, AtMostOne
<1>3. \A t \in refreshingTokens :
        \E n \in Numbers : flows[n].kind = "one" /\ t \in flows[n].ts /\ flows[n].state # "ended"
    BY DEF OneFlow, UnderWay
<1> QED BY <1>1, <1>2, <1>3 DEF AccountFlagsTell

(***************************************************************************)
(* What is shown is of the list.                                           *)
(***************************************************************************)
LEMMA NumbersOK == \A n \in Numbers : n \in Nat /\ n > 0
BY AccountAssumption DEF Numbers

LEMMA NewCallOK ==
    ASSUME NEW op \in Requests \cup {"oauth", "start", "poll", "relist", "txt", "file"},
           NEW n \in Nat, NEW ts \in SUBSET Tokens
    PROVE  NewCall(op, n, ts) \in Call /\ NewCall(op, n, ts).op = op
           /\ NewCall(op, n, ts).n = n /\ NewCall(op, n, ts).ts = ts
BY DEF NewCall, Call, NoItems, Items, Status

LEMMA RowsAreListed ==
    ASSUME AccountsTypeOK
    PROVE  /\ FilteredAccounts \subseteq Listed(accounts) /\ CurrentRows \subseteq Listed(accounts)
           /\ Listed(accounts) \subseteq Tokens /\ Abnormal(accounts) \subseteq Tokens
           /\ SelectedTokens \subseteq Tokens
BY DEF FilteredAccounts, CurrentRows, Listed, Abnormal, SelectedTokens

LEMMA PageCountOK ==
    ASSUME AccountsTypeOK
    PROVE  PageCount \in Int
<1>1. IsFiniteSet(FilteredAccounts)
    BY RowsAreListed, AccountAssumption, FS_Subset
<1>2. Cardinality(FilteredAccounts) \in Nat
    BY <1>1, FS_CardinalityType
<1> QED BY <1>2, AccountAssumption DEF PageCount

LEMMA AccountsInitInv == AccountsInit => AccountsInv
<1> SUFFICES ASSUME AccountsInit PROVE AccountsInv
    OBVIOUS
<1> USE DEF AccountsInit, OpenPage
<1>1. PICK u \in AccountUses : rowUse = u[1] /\ dialogUse = u[2]
    OBVIOUS
<1>2. rowUse \in Nat /\ dialogUse \in Nat
    BY <1>1, AccountAssumption
<1>3. NewCall("load", 0, {}) \in Call /\ NewCall("load", 0, {}).op = "load"
    BY NewCallOK DEF Requests
<1>4. pool \in Items /\ accounts \in Items
    BY AccountAssumption DEF Items, Status, NoItems
<1>5. jobs \in [Numbers -> Job] /\ flows \in [Numbers -> Flow]
    BY DEF Job, Flow, NoJob, NoFlow, Kinds, Items, NoItems, Status
<1>6. importDialog \in Dialog /\ DialogCoherent
    BY DEF Dialog, Reset, Methods, DialogCoherent
<1>7. AccountsTypeOK
    <2>1. accountFlags = {"load"} /\ accountCalls = {NewCall("load", 0, {})}
        OBVIOUS
    <2>2. /\ selectedIds = {} /\ page = 1 /\ statusFilter = "all" /\ refreshingTokens = {}
          /\ refreshSummary = FALSE /\ editingAccount = NoToken /\ showDiagnostics = FALSE
        OBVIOUS
    <2> HIDE DEF AccountsInit, OpenPage
    <2>3. accountCalls \in SUBSET Call /\ accountFlags \subseteq Flags
        BY <1>3, <2>1 DEF Flags, Requests
    <2>4. page \in Nat \ {0} /\ statusFilter \in {"all", "abnormal"} /\ selectedIds \subseteq Tokens
        BY <2>2
    <2>5. /\ refreshingTokens \subseteq Tokens /\ refreshSummary \in BOOLEAN
          /\ editingAccount \in Tokens \cup {NoToken} /\ showDiagnostics \in BOOLEAN
        BY <2>2
    <2> QED BY <1>2, <1>4, <1>5, <1>6, <2>3, <2>4, <2>5 DEF AccountsTypeOK
<1>8. OneRequest
    BY <1>3 DEF OneRequest, Requests
<1>9. FlowCalls
    <2>1. rowUse =< u[1]
        BY <1>1, <1>2
    <2> QED BY <1>3, <2>1 DEF FlowCalls
<1>10. OneFlow
    BY DEF OneFlow, UnderWay, NoFlow
<1>11. FilesHold /\ SelectionIsListed
    BY <1>3 DEF FilesHold, SelectionIsListed
<1> QED BY <1>6, <1>7, <1>8, <1>9, <1>10, <1>11 DEF AccountsInv

(***************************************************************************)
(* Requests with a flag: asked, answered by the service, taken.            *)
(***************************************************************************)
LEMMA RequestAsked ==
    ASSUME OneRequest, NEW call, call.op \in Requests, call.op \notin accountFlags,
           accountFlags' = accountFlags \cup {call.op}, accountCalls' = accountCalls \cup {call},
           showDiagnostics' = (showDiagnostics \/ call.op = "diagnose")
    PROVE  OneRequest'
BY DEF OneRequest

LEMMA RequestTaken ==
    ASSUME OneRequest, NEW c \in accountCalls, c.op \in Requests,
           accountFlags' = accountFlags \ {c.op}, accountCalls' = accountCalls \ {c},
           UNCHANGED showDiagnostics
    PROVE  OneRequest'
BY DEF OneRequest

\* Steps that leave the requests with flags alone.
LEMMA RequestsRest ==
    ASSUME OneRequest, \A c : c.op \in Requests => (c \in accountCalls' <=> c \in accountCalls),
           \A op \in Requests : op \in accountFlags' <=> op \in accountFlags,
           UNCHANGED showDiagnostics
    PROVE  OneRequest'
BY DEF OneRequest, Requests

LEMMA CallTurned ==
    ASSUME OneRequest, FlowCalls, OneFlow, FilesHold, NEW c \in accountCalls, NEW d,
           d.op = c.op, d.n = c.n, d.ts = c.ts, accountCalls' = (accountCalls \ {c}) \cup {d},
           UNCHANGED <<accountFlags, showDiagnostics, flows, refreshingTokens, rowUse>>
    PROVE  OneRequest' /\ FlowCalls' /\ OneFlow' /\ FilesHold'
<1>1. OneRequest'
    BY DEF OneRequest
<1>2. FlowCalls'
    BY DEF FlowCalls
<1>3. OneFlow' /\ FilesHold'
    BY DEF OneFlow, UnderWay, FilesHold
<1> QED BY <1>1, <1>2, <1>3

(***************************************************************************)
(* Flows: steps that leave them alone, move one, begin one or end one.     *)
(***************************************************************************)
LEMMA FlowsRest ==
    ASSUME AccountsTypeOK, FlowCalls, OneFlow, UNCHANGED <<flows, refreshingTokens>>,
           rowUse' \in Nat, rowUse' =< rowUse,
           \A kind \in {"refresh", "relogin"} : kind \in accountFlags' <=> kind \in accountFlags,
           \A c \in accountCalls' : c.op \in FlowOps => c \in accountCalls
    PROVE  FlowCalls' /\ OneFlow'
<1>1. FlowCalls'
    <2>1. \A n \in Numbers : n =< rowUse' => n =< rowUse
        BY NumbersOK DEF AccountsTypeOK
    <2>2. \A u \in AccountUses : rowUse =< u[1] => rowUse' =< u[1]
        BY AccountAssumption DEF AccountsTypeOK
    <2>3. \E u \in AccountUses : rowUse' =< u[1]
        BY <2>2 DEF FlowCalls
    <2> QED BY <2>1, <2>3 DEF FlowCalls, FlowOps
<1>2. OneFlow'
    BY DEF OneFlow, UnderWay
<1> QED BY <1>1, <1>2

\* The requests of flows (next) after one that flow n makes in state s: a last
\* load, or a poll.
OnlyFlow(next, n, s) ==
    /\ \A c, d \in next : c.op \in {"start", "relist"} /\ d.op = c.op /\ d.n = c.n => c = d
    /\ \A c \in next :
        /\ c.op \in FlowOps => c \in accountCalls \/ (c.n = n /\ c.op # "start")
        /\ c.op \in {"start", "relist"} /\ c.n = n => c.op = "relist" /\ s = "relisting"

LEMMA FlowMoved ==
    ASSUME AccountsTypeOK, FlowCalls, OneFlow, NEW n \in Numbers, NEW s,
           flows[n].state \notin {"none", "ended"}, s \notin {"none", "ended"},
           flows' = [flows EXCEPT ![n].state = s],
           UNCHANGED <<accountFlags, refreshingTokens, rowUse>>, OnlyFlow(accountCalls', n, s)
    PROVE  FlowCalls' /\ OneFlow'
<1> USE DEF OnlyFlow
<1>0. \A m \in Numbers : /\ flows'[m].kind = flows[m].kind /\ flows'[m].ts = flows[m].ts
                         /\ flows'[m].state = (IF m = n THEN s ELSE flows[m].state)
                         /\ m # n => flows'[m] = flows[m]
    BY DEF AccountsTypeOK, Flow
<1>1. FlowCalls'
    <2>1. \A m \in Numbers : m =< rowUse => flows'[m] = NoFlow
        BY <1>0 DEF FlowCalls, NoFlow
    <2>2. \A c \in accountCalls' :
            /\ c.op \in {"start", "relist", "poll"} => c.n \in Numbers
            /\ c.op = "start" => flows'[c.n].state = "starting"
            /\ c.op = "relist" => flows'[c.n].state = "relisting"
        BY <1>0 DEF FlowCalls, FlowOps
    <2> QED BY <2>1, <2>2 DEF FlowCalls
<1>2. OneFlow'
    <2>1. \A m \in Numbers, kind \in {"refresh", "relogin", "one"} :
            UnderWay(m, kind)' <=> UnderWay(m, kind)
        BY <1>0 DEF UnderWay
    <2>2. \A m \in Numbers : flows'[m].kind = "none" <=> flows'[m].state = "none"
        BY <1>0 DEF OneFlow
    <2> QED BY <1>0, <2>1, <2>2 DEF OneFlow
<1> QED BY <1>1, <1>2

LEMMA FlowEnded ==
    ASSUME AccountsTypeOK, FlowCalls, OneFlow, NEW n \in Numbers,
           flows[n].state \notin {"none", "ended"}, EndFlow(n, flows), UNCHANGED rowUse,
           \A c \in accountCalls' : /\ c.op \in FlowOps => c \in accountCalls
                                    /\ c.op \in {"start", "relist"} => c.n # n
    PROVE  /\ FlowCalls' /\ OneFlow' /\ flows' \in [Numbers -> Flow]
           /\ refreshingTokens' \subseteq Tokens /\ accountFlags' \subseteq Flags
           /\ \A op \in Requests : op \in accountFlags' <=> op \in accountFlags
<1>0. \A m \in Numbers : /\ flows'[m].kind = flows[m].kind /\ flows'[m].ts = flows[m].ts
                         /\ flows'[m].state = (IF m = n THEN "ended" ELSE flows[m].state)
                         /\ m # n => flows'[m] = flows[m]
    BY DEF AccountsTypeOK, Flow, EndFlow
<1>1. FlowCalls'
    <2>1. \A m \in Numbers : m =< rowUse => flows'[m] = NoFlow
        BY <1>0 DEF FlowCalls, NoFlow
    <2>2. \A c \in accountCalls' :
            /\ c.op \in {"start", "relist", "poll"} => c.n \in Numbers
            /\ c.op = "start" => flows'[c.n].state = "starting"
            /\ c.op = "relist" => flows'[c.n].state = "relisting"
        BY <1>0 DEF FlowCalls, FlowOps
    <2> QED BY <2>1, <2>2 DEF FlowCalls, FlowOps
<1>k. flows[n].kind \in {"one", "refresh", "relogin"} /\ flows[n].ts \subseteq Tokens
    BY DEF AccountsTypeOK, Flow, Kinds, OneFlow
<1>2. OneFlow'
    <2>1. \A m \in Numbers, kind \in {"refresh", "relogin", "one"} :
            UnderWay(m, kind)' <=> UnderWay(m, kind) /\ m # n
        BY <1>0 DEF UnderWay
    <2>2. \A m \in Numbers : flows'[m].kind = "none" <=> flows'[m].state = "none"
        BY <1>0 DEF OneFlow
    <2>3. UnderWay(n, flows[n].kind)
        BY DEF UnderWay
    <2>4. ASSUME NEW kind \in {"refresh", "relogin"}
          PROVE  /\ \A l, m \in Numbers : UnderWay(l, kind)' /\ UnderWay(m, kind)' => l = m
                 /\ kind \in accountFlags' <=> \E m \in Numbers : UnderWay(m, kind)'
        <3>1. CASE kind = flows[n].kind
            BY <2>1, <2>3, <3>1 DEF OneFlow, EndFlow
        <3>2. CASE kind # flows[n].kind
            BY <2>1, <3>2 DEF OneFlow, EndFlow, UnderWay
        <3> QED BY <3>1, <3>2
    <2>5. ASSUME NEW t \in refreshingTokens'
          PROVE  \E m \in Numbers : UnderWay(m, "one")' /\ t \in flows'[m].ts
        <3>1. t \in refreshingTokens /\ (flows[n].kind = "one" => t \notin flows[n].ts)
            BY DEF EndFlow
        <3>2. PICK m \in Numbers : UnderWay(m, "one") /\ t \in flows[m].ts
            BY <3>1 DEF OneFlow
        <3>3. m # n
            BY <3>1, <3>2 DEF UnderWay
        <3> QED BY <1>0, <2>1, <3>2, <3>3
    <2> QED BY <2>2, <2>4, <2>5 DEF OneFlow
<1>3. flows' \in [Numbers -> Flow]
    BY DEF AccountsTypeOK, Flow, EndFlow
<1>4. refreshingTokens' \subseteq Tokens /\ accountFlags' \subseteq Flags
    BY DEF AccountsTypeOK, EndFlow
<1>5. \A op \in Requests : op \in accountFlags' <=> op \in accountFlags
    BY <1>k DEF EndFlow, Requests
<1> QED BY <1>1, <1>2, <1>3, <1>4, <1>5

\* A flow begins: its number is the uses that are left, and was never used.
LEMMA FlowBegun ==
    ASSUME AccountsTypeOK, OneRequest, FlowCalls, OneFlow, FilesHold,
           NEW kind \in {"one", "refresh", "relogin"}, NEW ts \in SUBSET Tokens, StartFlow(kind, ts),
           IF kind = "one"
           THEN refreshingTokens' = refreshingTokens \cup ts /\ UNCHANGED accountFlags
           ELSE /\ kind \notin accountFlags /\ accountFlags' = accountFlags \cup {kind}
                /\ UNCHANGED refreshingTokens
    PROVE  /\ OneRequest' /\ FlowCalls' /\ OneFlow' /\ FilesHold'
           /\ AccountsTypeOK'
<1> DEFINE call == NewCall("start", rowUse, ts)
           flow == [kind |-> kind, ts |-> ts, state |-> "starting"]
<1>1. PICK u \in AccountUses : rowUse =< u[1]
    BY DEF FlowCalls
<1>2. rowUse \in Numbers /\ rowUse \in Nat /\ rowUse > 0 /\ rowUse' = rowUse - 1
    BY <1>1, AccountAssumption DEF StartFlow, UseRow, Numbers, AccountsTypeOK
<1>3. flows[rowUse] = NoFlow
    BY <1>2 DEF FlowCalls
<1>4. call \in Call /\ call.op = "start" /\ call.n = rowUse
    BY <1>2 DEF NewCall, Call, NoItems, Items, Status
<1>5. flow \in Flow
    BY DEF Flow, Kinds
<1>6. \A m \in Numbers : flows'[m] = IF m = rowUse THEN flow ELSE flows[m]
    BY <1>2 DEF StartFlow, AccountsTypeOK
<1>c. accountCalls' = accountCalls \cup {call} /\ UNCHANGED showDiagnostics
    BY DEF StartFlow
<1>7. OneRequest'
    BY <1>c, <1>4, RequestsRest DEF Requests
<1>n. \A c \in accountCalls : c.op \in {"start", "relist"} => c.n # rowUse
    BY <1>3 DEF FlowCalls, NoFlow
<1>8. FlowCalls'
    <2>1. \A c, d \in accountCalls' :
            c.op \in {"start", "relist"} /\ d.op = c.op /\ d.n = c.n => c = d
        BY <1>4, <1>c, <1>n DEF FlowCalls
    <2>2. ASSUME NEW c \in accountCalls'
          PROVE  /\ c.op \in {"start", "relist", "poll"} => c.n \in Numbers
                 /\ c.op = "start" => flows'[c.n].state = "starting"
                 /\ c.op = "relist" => flows'[c.n].state = "relisting"
        <3>1. CASE c \in accountCalls
            <4>1. c.op \in {"start", "relist"} => c.n \in Numbers /\ flows'[c.n] = flows[c.n]
                BY <1>6, <1>n, <3>1 DEF FlowCalls
            <4> QED BY <3>1, <4>1 DEF FlowCalls
        <3>2. CASE c = call
            <4>1. flows'[c.n].state = "starting"
                BY <1>2, <1>4, <1>6, <3>2
            <4> QED BY <1>2, <1>4, <3>2, <4>1
        <3> QED BY <1>c, <3>1, <3>2
    <2>3. \A n \in Numbers : n =< rowUse' => flows'[n] = NoFlow
        BY <1>2, <1>6, NumbersOK DEF FlowCalls
    <2>4. rowUse' =< u[1]
        BY <1>1, <1>2, AccountAssumption
    <2> QED BY <2>1, <2>2, <2>3, <2>4 DEF FlowCalls
<1>9. OneFlow'
    <2>1. \A m \in Numbers, k \in {"refresh", "relogin", "one"} :
            UnderWay(m, k)' <=> UnderWay(m, k) \/ (m = rowUse /\ k = kind)
        BY <1>2, <1>3, <1>6 DEF UnderWay, NoFlow
    <2>2. \A m \in Numbers : flows'[m].kind = "none" <=> flows'[m].state = "none"
        BY <1>6 DEF OneFlow
    <2>3. ASSUME NEW k \in {"refresh", "relogin"}
          PROVE  /\ \A l, m \in Numbers : UnderWay(l, k)' /\ UnderWay(m, k)' => l = m
                 /\ k \in accountFlags' <=> \E m \in Numbers : UnderWay(m, k)'
        <3>1. CASE k = kind
            BY <1>2, <2>1, <3>1 DEF OneFlow
        <3>2. CASE k # kind
            <4>1. k \in accountFlags' <=> k \in accountFlags
                BY <3>2
            <4> QED BY <2>1, <3>2, <4>1 DEF OneFlow
        <3> QED BY <3>1, <3>2
    <2>4. ASSUME NEW t \in refreshingTokens'
          PROVE  \E m \in Numbers : UnderWay(m, "one")' /\ t \in flows'[m].ts
        <3>1. CASE t \in refreshingTokens
            <4>1. PICK m \in Numbers : UnderWay(m, "one") /\ t \in flows[m].ts
                BY <3>1 DEF OneFlow
            <4>2. m # rowUse
                BY <1>3, <4>1 DEF UnderWay, NoFlow
            <4> QED BY <1>6, <2>1, <4>1, <4>2
        <3>2. CASE t \notin refreshingTokens
            <4>1. kind = "one" /\ t \in ts
                BY <3>2
            <4> QED BY <1>2, <1>6, <2>1, <4>1
        <3> QED BY <3>1, <3>2
    <2> QED BY <2>2, <2>3, <2>4 DEF OneFlow
<1>10. FilesHold'
    BY <1>4, <1>c DEF FilesHold
<1>11. AccountsTypeOK'
    <2>1. flows' \in [Numbers -> Flow] /\ accountCalls' \in SUBSET Call /\ rowUse' \in Nat
        BY <1>2, <1>4, <1>5, <1>c DEF StartFlow, AccountsTypeOK
    <2>2. accountFlags' \subseteq Flags /\ refreshingTokens' \subseteq Tokens
        BY DEF AccountsTypeOK, Flags
    <2> QED BY <2>1, <2>2 DEF StartFlow, AccountsTypeOK, listVars, dialogVars
<1> QED BY <1>7, <1>8, <1>9, <1>10, <1>11

(***************************************************************************)
(* Steps of the list and of the dialog.                                    *)
(***************************************************************************)
\* A use of the list that begins no flow and may ask for something.
LEMMA RowStep ==
    ASSUME AccountsInv, UseRow, UNCHANGED <<pool, flowVars, accounts, dialogVars>>,
           selectedIds' \subseteq Listed(accounts), page' \in Nat \ {0},
           statusFilter' \in {"all", "abnormal"}, editingAccount' \in Tokens \cup {NoToken},
           showDiagnostics' \in BOOLEAN, accountFlags' \subseteq Flags, accountCalls' \subseteq Call,
           \A kind \in {"refresh", "relogin"} : kind \in accountFlags' <=> kind \in accountFlags,
           \A c \in accountCalls' : c.op \notin Requests => c \in accountCalls,
           OneRequest'
    PROVE  AccountsInv'
<1>1. rowUse' \in Nat /\ rowUse' =< rowUse
    BY DEF AccountsInv, AccountsTypeOK, UseRow
<1>2. FlowCalls' /\ OneFlow'
    BY <1>1, FlowsRest DEF AccountsInv, flowVars, FlowOps, Requests
<1>3. AccountsTypeOK'
    BY <1>1, RowsAreListed DEF AccountsInv, AccountsTypeOK, flowVars, dialogVars
<1>4. FilesHold' /\ SelectionIsListed' /\ DialogCoherent'
    BY DEF AccountsInv, FilesHold, SelectionIsListed, DialogCoherent, dialogVars, Listed, Requests
<1> QED BY <1>2, <1>3, <1>4 DEF AccountsInv

LEMMA RowAsks ==
    ASSUME AccountsInv, UseRow, UNCHANGED <<pool, flowVars, accounts, listVars, editingAccount, dialogVars>>,
           NEW op \in Requests, NEW ts \in SUBSET Tokens, op \notin accountFlags,
           Ask(op, NewCall(op, 0, ts)), showDiagnostics' = (showDiagnostics \/ op = "diagnose")
    PROVE  AccountsInv'
<1>1. NewCall(op, 0, ts) \in Call /\ NewCall(op, 0, ts).op = op
    BY NewCallOK
<1>2. OneRequest'
    BY <1>1, RequestAsked DEF AccountsInv, Ask
<1>3. accountFlags' \subseteq Flags /\ accountCalls' \subseteq Call
    BY <1>1 DEF AccountsInv, AccountsTypeOK, Ask, Flags
<1>4. \A kind \in {"refresh", "relogin"} : kind \in accountFlags' <=> kind \in accountFlags
    BY DEF Ask, Requests
<1>5. \A c \in accountCalls' : c.op \notin Requests => c \in accountCalls
    BY <1>1 DEF Ask
<1> QED BY <1>2, <1>3, <1>4, <1>5, RowStep DEF AccountsInv, AccountsTypeOK, SelectionIsListed, listVars

DialogOK(dialog) ==
    /\ dialog \in Dialog
    /\ dialog.callback # 0 => dialog.callback = dialog.session
    /\ dialog.confirm => dialog.pending # {}

\* A step of the dialog that leaves the requests with flags alone.
LEMMA DialogStep ==
    ASSUME AccountsInv, DialogOnly, DialogOK(importDialog'), dialogUse' \in Nat,
           accountFlags' \subseteq Flags, accountCalls' \subseteq Call,
           \A flag \in Flags \ {"oauth"} : flag \in accountFlags' <=> flag \in accountFlags,
           \A c : c.op \notin {"oauth", "txt", "file"} => (c \in accountCalls' <=> c \in accountCalls),
           FilesHold'
    PROVE  AccountsInv'
<1>1. OneRequest'
    BY RequestsRest DEF AccountsInv, DialogOnly, Flags, Requests
<1>2. rowUse' \in Nat /\ rowUse' =< rowUse
    BY DEF AccountsInv, AccountsTypeOK, DialogOnly
<1>3. FlowCalls' /\ OneFlow'
    BY <1>2, FlowsRest DEF AccountsInv, DialogOnly, flowVars, FlowOps, Flags
<1>4. AccountsTypeOK'
    BY DEF AccountsInv, AccountsTypeOK, DialogOnly, flowVars, listVars, DialogOK
<1>5. SelectionIsListed' /\ DialogCoherent'
    BY DEF AccountsInv, SelectionIsListed, DialogCoherent, DialogOnly, DialogOK, Listed, listVars
<1> QED BY <1>1, <1>3, <1>4, <1>5 DEF AccountsInv

LEMMA DialogSubmits ==
    ASSUME AccountsInv, NEW n \in Nat, NEW ts \in SUBSET Tokens, "submit" \notin accountFlags,
           SubmitTokens(n, ts)
    PROVE  AccountsInv'
<1>1. NewCall("submit", n, ts) \in Call /\ NewCall("submit", n, ts).op = "submit"
    BY NewCallOK DEF Requests
<1>2. OneRequest'
    <2>1. showDiagnostics' = (showDiagnostics \/ "submit" = "diagnose")
        BY DEF SubmitTokens, DialogOnly, AccountsInv, AccountsTypeOK
    <2> QED BY <1>1, <2>1, RequestAsked DEF AccountsInv, SubmitTokens, Ask, Requests
<1>3. accountFlags' \subseteq Flags /\ accountCalls' \subseteq Call /\ dialogUse' \in Nat
    BY <1>1 DEF AccountsInv, AccountsTypeOK, SubmitTokens, Ask, Flags, UseDialog, Requests
<1>4. rowUse' \in Nat /\ rowUse' =< rowUse
    BY DEF AccountsInv, AccountsTypeOK, DialogOnly, SubmitTokens
<1>5. FlowCalls' /\ OneFlow'
    BY <1>1, <1>4, FlowsRest DEF AccountsInv, DialogOnly, flowVars, FlowOps, SubmitTokens, Ask
<1>6. AccountsTypeOK'
    BY <1>3 DEF AccountsInv, AccountsTypeOK, DialogOnly, flowVars, listVars, SubmitTokens
<1>7. SelectionIsListed' /\ DialogCoherent' /\ FilesHold'
    BY <1>1 DEF AccountsInv, SelectionIsListed, DialogCoherent, DialogOnly, Listed, listVars, SubmitTokens,
        FilesHold, Ask
<1> QED BY <1>2, <1>5, <1>6, <1>7 DEF AccountsInv

LEMMA BeginFlow ==
    ASSUME AccountsInv, NEW kind \in {"one", "refresh", "relogin"}, NEW ts \in SUBSET Tokens,
           StartFlow(kind, ts),
           IF kind = "one"
           THEN refreshingTokens' = refreshingTokens \cup ts /\ UNCHANGED accountFlags
           ELSE /\ kind \notin accountFlags /\ accountFlags' = accountFlags \cup {kind}
                /\ UNCHANGED refreshingTokens
    PROVE  AccountsInv'
<1>1. OneRequest' /\ FlowCalls' /\ OneFlow' /\ FilesHold' /\ AccountsTypeOK'
    BY FlowBegun DEF AccountsInv
<1>2. SelectionIsListed' /\ DialogCoherent'
    BY DEF AccountsInv, SelectionIsListed, DialogCoherent, StartFlow, listVars, dialogVars, Listed
<1> QED BY <1>1, <1>2 DEF AccountsInv

LEMMA RefreshBegins ==
    ASSUME AccountsInv, NEW ts \in SUBSET Tokens, RefreshAccounts(ts), "refresh" \notin accountFlags
    PROVE  AccountsInv'
<1>1. CASE Cardinality(ts) = 1
    BY <1>1, BeginFlow DEF RefreshAccounts
<1>2. CASE Cardinality(ts) # 1
    BY <1>2, BeginFlow DEF RefreshAccounts
<1> QED BY <1>1, <1>2

LEMMA AccountsUserInv ==
    ASSUME AccountsInv, AccountsUser
    PROVE  AccountsInv'
<1>0. AccountsTypeOK /\ SelectionIsListed /\ OneRequest /\ FilesHold /\ DialogOK(importDialog)
    BY DEF AccountsInv, AccountsTypeOK, DialogCoherent, DialogOK
<1>r. /\ CurrentRows \subseteq Listed(accounts) /\ Listed(accounts) \in SUBSET Tokens
      /\ Abnormal(accounts) \in SUBSET Tokens /\ SelectedTokens \in SUBSET Tokens
    BY <1>0, RowsAreListed
<1>1. CASE LoadAccounts
    <2>1. "load" \in Requests /\ {} \in SUBSET Tokens /\ "load" \notin accountFlags
        BY <1>1 DEF Requests, LoadAccounts, Idle
    <2>2. showDiagnostics' = (showDiagnostics \/ "load" = "diagnose")
        BY <1>0, <1>1 DEF LoadAccounts, AccountsTypeOK
    <2> QED BY <1>1, <2>1, <2>2, RowAsks DEF LoadAccounts
<1>2. CASE RemoveOrDelete
    <2>1. PICK ts \in SUBSET Tokens : DeleteTokens(ts)
        BY <1>2, <1>r DEF RemoveOrDelete
    <2>2. "delete" \in Requests /\ "delete" \notin accountFlags
        BY <2>1 DEF Requests, DeleteTokens
    <2>3. showDiagnostics' = (showDiagnostics \/ "delete" = "diagnose")
        BY <1>0, <2>1 DEF DeleteTokens, AccountsTypeOK
    <2> QED BY <2>1, <2>2, <2>3, RowAsks DEF DeleteTokens
<1>3. CASE RefreshButtons
    BY <1>3, <1>r, RefreshBegins DEF RefreshButtons, Idle
<1>4. CASE ReLogin
    <2>1. SelectedTokens \cap Abnormal(accounts) \in SUBSET Tokens
        BY <1>r
    <2> QED BY <1>4, <2>1, BeginFlow DEF ReLogin
<1>5. CASE \E t \in Tokens : RefreshRow(t)
    <2>1. \A t \in Tokens : {t} \in SUBSET Tokens
        OBVIOUS
    <2> QED BY <1>5, <2>1, RefreshBegins DEF RefreshRow
\* Steps that ask for nothing.
<1>6. ASSUME UseRow, UNCHANGED <<pool, flowVars, accounts, dialogVars, showDiagnostics, accountFlags, accountCalls>>,
             selectedIds' \subseteq Listed(accounts), page' \in Nat \ {0},
             statusFilter' \in {"all", "abnormal"}, editingAccount' \in Tokens \cup {NoToken}
      PROVE  AccountsInv'
    <2>1. OneRequest'
        BY <1>0, <1>6 DEF OneRequest
    <2> QED BY <1>0, <1>6, <2>1, RowStep DEF AccountsTypeOK
<1>7. CASE CloseEditDialog \/ \E t \in Tokens : OpenEditDialog(t)
    <2>1. editingAccount' \in Tokens \cup {NoToken}
        BY <1>7 DEF CloseEditDialog, OpenEditDialog
    <2> QED BY <1>0, <1>6, <1>7, <2>1
            DEF CloseEditDialog, OpenEditDialog, AccountsTypeOK, SelectionIsListed, listVars
<1>8. CASE ToggleSelectAll \/ \E t \in Tokens : SelectRow(t)
    <2>1. selectedIds' \subseteq Listed(accounts)
        BY <1>0, <1>8, <1>r DEF ToggleSelectAll, SelectRow, SelectionIsListed
    <2> QED BY <1>0, <1>6, <1>8, <2>1 DEF ToggleSelectAll, SelectRow, Lists, AccountsTypeOK
<1>9. CASE SetStatusFilter
    <2>1. page' \in Nat \ {0} /\ statusFilter' \in {"all", "abnormal"}
        BY <1>9 DEF SetStatusFilter
    <2> QED BY <1>0, <1>6, <1>9, <2>1 DEF SetStatusFilter, Lists, AccountsTypeOK, SelectionIsListed
<1>10. CASE SetPage
    <2>0. PageCount \in Int /\ page \in Nat \ {0}
        BY <1>0, PageCountOK DEF AccountsTypeOK
    <2>1. ASSUME NEW x \in Int, NEW y \in Int
          PROVE  Max({x, y}) \in {x, y} /\ Max({x, y}) >= x /\ Min({x, y}) \in {x, y}
        <3>1. \E m \in {x, y} : \A n \in {x, y} : m >= n
            BY <2>1
        <3>2. \E m \in {x, y} : \A n \in {x, y} : m =< n
            BY <2>1
        <3> QED BY <3>1, <3>2 DEF Max, Min
    <2>5. page' \in Nat \ {0}
        <3>2. CASE SafePage > 1 /\ page' = Max({1, page - 1})
            BY <2>0, <2>1, <3>2
        <3>3. CASE SafePage < PageCount /\ page' = Min({PageCount, page + 1})
            <4>1. PageCount > page
                BY <2>0, <3>3 DEF SafePage
            <4>2. page + 1 \in Int
                BY <2>0
            <4>3. Min({PageCount, page + 1}) \in {PageCount, page + 1}
                BY <2>0, <2>1, <4>2
            <4> QED BY <2>0, <3>3, <4>1, <4>3
        <3>4. CASE page' \in 1..PageCount
            BY <2>0, <3>4
        <3> QED BY <1>10, <3>2, <3>3, <3>4 DEF SetPage
    <2> QED BY <1>0, <1>6, <1>10, <2>5 DEF SetPage, Lists, AccountsTypeOK, SelectionIsListed
<1>11. CASE UpdateAccount
    <2>1. "update" \in Requests /\ {editingAccount} \in SUBSET Tokens
        BY <1>0, <1>11 DEF Requests, UpdateAccount, AccountsTypeOK
    <2>2. showDiagnostics' = (showDiagnostics \/ "update" = "diagnose")
        BY <1>0, <1>11 DEF UpdateAccount, AccountsTypeOK
    <2> QED BY <1>11, <2>1, <2>2, RowAsks DEF UpdateAccount
<1>12. CASE TestAccountProxy
    <2>1. "proxy" \in Requests /\ {} \in SUBSET Tokens
        BY DEF Requests
    <2>2. showDiagnostics' = (showDiagnostics \/ "proxy" = "diagnose")
        BY <1>0, <1>12 DEF TestAccountProxy, AccountsTypeOK
    <2> QED BY <1>12, <2>1, <2>2, RowAsks DEF TestAccountProxy
<1>d. "diagnose" \in Requests /\ {} \in SUBSET Tokens
    BY DEF Requests
<1>13. CASE LoadDiagnostics
    <2>1. showDiagnostics' = (showDiagnostics \/ "diagnose" = "diagnose")
        BY <1>0, <1>13 DEF LoadDiagnostics, AccountsTypeOK
    <2> QED BY <1>13, <1>d, <2>1, RowAsks DEF LoadDiagnostics
<1>14. CASE ToggleDiagnostics
    <2>1. CASE showDiagnostics
        <3>1. OneRequest'
            BY <1>0, <1>14, <2>1 DEF ToggleDiagnostics, OneRequest, AccountsTypeOK
        <3>2. accountFlags' \subseteq Flags /\ accountCalls' \subseteq Call
            BY <1>0, <1>14, <2>1 DEF ToggleDiagnostics, AccountsTypeOK
        <3>3. /\ \A c \in accountCalls' : c \in accountCalls
              /\ \A kind \in {"refresh", "relogin"} : kind \in accountFlags' <=> kind \in accountFlags
            BY <1>14, <2>1 DEF ToggleDiagnostics
        <3> QED BY <1>0, <1>14, <2>1, <3>1, <3>2, <3>3, RowStep
                DEF ToggleDiagnostics, AccountsTypeOK, SelectionIsListed, listVars
    <2>2. CASE ~showDiagnostics
        <3>1. "diagnose" \notin accountFlags /\ showDiagnostics' = (showDiagnostics \/ "diagnose" = "diagnose")
            BY <1>0, <1>14, <2>2 DEF ToggleDiagnostics, OneRequest, AccountsTypeOK
        <3> QED BY <1>14, <1>d, <2>2, <3>1, RowAsks DEF ToggleDiagnostics
    <2> QED BY <2>1, <2>2
\* Steps of the dialog that make no request.
<1>15. ASSUME DialogOnly, DialogOK(importDialog'), UseDialog \/ UNCHANGED dialogUse, UNCHANGED accountCalls,
              accountFlags' \in {accountFlags, accountFlags \ {"oauth"}}
       PROVE  AccountsInv'
    <2>1. dialogUse' \in Nat
        BY <1>0, <1>15 DEF UseDialog, AccountsTypeOK
    <2>2. /\ accountFlags' \subseteq Flags /\ accountCalls' \subseteq Call
          /\ \A flag \in Flags \ {"oauth"} : flag \in accountFlags' <=> flag \in accountFlags
        BY <1>0, <1>15 DEF AccountsTypeOK
    <2>3. FilesHold'
        BY <1>0, <1>15 DEF FilesHold
    <2> QED BY <1>15, <2>1, <2>2, <2>3, DialogStep
<1>16. CASE OpenImport \/ CancelImport
    <2>1. DialogOK(importDialog')
        BY <1>0, <1>16 DEF OpenImport, CancelImport, DialogOK, Dialog
    <2> QED BY <1>15, <1>16, <2>1 DEF OpenImport, CancelImport, JustDialog, Typing
<1>17. CASE HandleOpenChange
    <2>1. DialogOK(importDialog')
        BY <1>17 DEF HandleOpenChange, DialogOK, Dialog, Reset, Methods
    <2> QED BY <1>15, <1>17, <2>1 DEF HandleOpenChange, Typing
<1>18. CASE \E m \in Methods : SetMethod(m)
    <2>1. DialogOK(importDialog')
        BY <1>0, <1>18 DEF SetMethod, DialogOK, Dialog
    <2> QED BY <1>15, <1>18, <2>1 DEF SetMethod, JustDialog, Typing
<1>19. CASE \E ts \in Found : TypeTokens(ts)
    <2>1. DialogOK(importDialog')
        BY <1>0, <1>19 DEF TypeTokens, DialogOK, Dialog, Found
    <2> QED BY <1>15, <1>19, <2>1 DEF TypeTokens, JustDialog, Typing
<1>20. CASE \E shown \in BOOLEAN : SetConfirm(shown)
    <2>1. DialogOK(importDialog')
        BY <1>0, <1>20 DEF SetConfirm, DialogOK, Dialog
    <2> QED BY <1>15, <1>20, <2>1 DEF SetConfirm, JustDialog
<1>21. CASE OAuthAgain \/ PasteCallback
    <2>1. DialogOK(importDialog')
        <3>1. CASE OAuthAgain
            BY <1>0, <3>1 DEF OAuthAgain, DialogOK, Dialog
        <3>2. CASE PasteCallback
            <4>1. importDialog.session \in Nat /\ importDialog \in Dialog
                BY <1>0 DEF DialogOK, Dialog
            <4>2. importDialog' \in Dialog
                BY <3>2, <4>1 DEF PasteCallback, Dialog
            <4>3. /\ importDialog'.callback = importDialog'.session
                  /\ importDialog'.confirm = importDialog.confirm /\ importDialog'.pending = importDialog.pending
                BY <3>2, <4>1 DEF PasteCallback, Dialog
            <4> QED BY <1>0, <4>2, <4>3 DEF DialogOK
        <3> QED BY <1>21, <3>1, <3>2
    <2> QED BY <1>15, <1>21, <2>1 DEF OAuthAgain, PasteCallback, JustDialog, Typing
\* Steps of the dialog that ask for something.
<1>22. ASSUME NEW op \in {"oauth", "txt", "file"}, NEW n \in Nat, NEW ts \in SUBSET Tokens,
              op = "file" => ts # {}, Typing, DialogOnly, UNCHANGED importDialog,
              accountCalls' = accountCalls \cup {NewCall(op, n, ts)},
              accountFlags' \in {accountFlags, accountFlags \cup {"oauth"}}
       PROVE  AccountsInv'
    <2>1. /\ NewCall(op, n, ts) \in Call /\ NewCall(op, n, ts).op = op /\ NewCall(op, n, ts).ts = ts
        BY <1>22, NewCallOK
    <2>2. dialogUse' \in Nat
        BY <1>0, <1>22 DEF Typing, UseDialog, AccountsTypeOK
    <2>3. accountFlags' \subseteq Flags /\ accountCalls' \subseteq Call
        BY <1>0, <1>22, <2>1 DEF AccountsTypeOK, Flags
    <2>4. /\ \A flag \in Flags \ {"oauth"} : flag \in accountFlags' <=> flag \in accountFlags
          /\ \A c : c.op \notin {"oauth", "txt", "file"} => (c \in accountCalls' <=> c \in accountCalls)
        BY <1>22, <2>1
    <2>5. FilesHold'
        BY <1>0, <1>22, <2>1 DEF FilesHold
    <2> QED BY <1>0, <1>22, <2>2, <2>3, <2>4, <2>5, DialogStep
<1>23. CASE \E ts \in Found, op \in {"txt", "file"} : PickFile(op, ts)
    <2>1. PICK ts \in Found, op \in {"txt", "file"} : PickFile(op, ts)
        BY <1>23
    <2>2. ts \in SUBSET Tokens /\ ts # {} /\ 0 \in Nat
        BY DEF Found
    <2> QED BY <1>22, <2>1, <2>2 DEF PickFile
<1>24. CASE StartOAuth
    <2>1. dialogUse \in Nat /\ {} \in SUBSET Tokens
        BY <1>0 DEF AccountsTypeOK
    <2> QED BY <1>22, <1>24, <2>1 DEF StartOAuth, Ask
<1>25. CASE ImportTokenText \/ ImportSessionJson \/ ImportCodexAuthJson \/ ConfirmImport \/ FinishOAuth
    <2>1. /\ importDialog.typed \in SUBSET Tokens /\ importDialog.pending \in SUBSET Tokens
          /\ {} \in SUBSET Tokens /\ importDialog.session \in Nat /\ 0 \in Nat
        BY <1>0 DEF DialogOK, Dialog
    <2> QED BY <1>25, <2>1, DialogSubmits
            DEF ImportTokenText, ImportSessionJson, ImportCodexAuthJson, ConfirmImport, FinishOAuth, FooterEnabled
<1> QED BY <1>1, <1>2, <1>3, <1>4, <1>5, <1>7, <1>8, <1>9, <1>10, <1>11, <1>12, <1>13, <1>14, <1>16, <1>17,
           <1>18, <1>19, <1>20, <1>21, <1>23, <1>24, <1>25 DEF AccountsUser

(***************************************************************************)
(* The service.                                                            *)
(***************************************************************************)
LEMMA EffectOK ==
    ASSUME AccountsTypeOK, NEW c \in Call, NEW next \in Effect(c)
    PROVE  next \in Items
<1>1. pool \in Items
    BY DEF AccountsTypeOK
<1>2. CASE c.op = "delete"
    BY <1>1, <1>2 DEF Effect, Items, Status
<1>3. CASE c.op = "update"
    BY <1>1, <1>3 DEF Effect, Items, Status
<1>4. CASE c.op = "submit" /\ c.n = 0
    BY <1>1, <1>4 DEF Effect, Items, Status
<1>5. CASE c.op = "submit" /\ c.n > 0
    <2>1. c.op # "delete" /\ c.op # "update" /\ ~(c.op = "submit" /\ c.n = 0)
        BY <1>5 DEF Call
    <2>2. Effect(c) = {[pool EXCEPT ![t] = "normal"] : t \in Tokens}
        BY <1>5, <2>1 DEF Effect
    <2> QED BY <1>1, <2>2 DEF Items, Status
<1>6. CASE c.op \notin {"delete", "update"} /\ ~(c.op = "submit" /\ (c.n = 0 \/ c.n > 0))
    <2>1. Effect(c) = {pool}
        BY <1>6 DEF Effect
    <2> QED BY <1>1, <2>1
<1> QED BY <1>2, <1>3, <1>4, <1>5, <1>6

\* The service answers a request, or a job of it ends.
LEMMA ServiceStep ==
    ASSUME AccountsInv, NEW c \in accountCalls, NEW d \in Call, d.op = c.op, d.n = c.n, d.ts = c.ts,
           Answer(c, d), pool' \in Items, jobs' \in [Numbers -> Job],
           UNCHANGED <<flows, refreshingTokens, refreshSummary, accounts, listVars, accountFlags,
                       editingAccount, showDiagnostics, dialogVars, rowUse>>
    PROVE  AccountsInv'
<1>1. OneRequest' /\ FlowCalls' /\ OneFlow' /\ FilesHold'
    BY CallTurned DEF AccountsInv, Answer
<1>2. AccountsTypeOK'
    BY DEF AccountsInv, AccountsTypeOK, listVars, dialogVars, Answer
<1>3. SelectionIsListed' /\ DialogCoherent'
    BY DEF AccountsInv, SelectionIsListed, DialogCoherent, listVars, dialogVars, Listed
<1> QED BY <1>1, <1>2, <1>3 DEF AccountsInv

LEMMA AccountsServiceInv ==
    ASSUME AccountsInv, NEW c \in accountCalls, CallServed(c) \/ JobCallServed(c) \/ CallFails(c)
    PROVE  AccountsInv'
<1>0. c \in Call /\ pool \in Items /\ jobs \in [Numbers -> Job]
    BY DEF AccountsInv, AccountsTypeOK
<1>f. [c EXCEPT !.state = "failed"] \in Call
    BY <1>0 DEF Call
<1>k. /\ [c EXCEPT !.state = "failed"].op = c.op /\ [c EXCEPT !.state = "failed"].n = c.n
      /\ [c EXCEPT !.state = "failed"].ts = c.ts
    BY <1>0 DEF Call
<1>1. CASE CallFails(c)
    BY <1>0, <1>1, <1>f, <1>k, ServiceStep DEF CallFails, flowVars
<1>2. CASE CallServed(c)
    <2>1. PICK next \in Effect(c) :
            /\ pool' = next
            /\ \/ Answer(c, [c EXCEPT !.state = "served", !.items = next])
               \/ Answer(c, [c EXCEPT !.state = "failed"])
        BY <1>2 DEF CallServed
    <2>2. next \in Items
        BY <1>0, EffectOK DEF AccountsInv
    <2> DEFINE d == [c EXCEPT !.state = "served", !.items = next]
    <2>3. d \in Call /\ d.op = c.op /\ d.n = c.n /\ d.ts = c.ts
        BY <1>0, <2>2 DEF Call
    <2> QED BY <1>0, <1>2, <1>f, <1>k, <2>1, <2>2, <2>3, ServiceStep DEF CallServed, flowVars
<1>3. CASE JobCallServed(c)
    <2>1. CASE c.op = "start"
        <3>1. /\ jobs' = [jobs EXCEPT ![c.n].state = "running", ![c.n].ts = c.ts]
              /\ Answer(c, [c EXCEPT !.state = "served"])
            BY <1>3, <2>1 DEF JobCallServed
        <3>2. jobs' \in [Numbers -> Job]
            <4>1. [jobs EXCEPT ![c.n].state = "running"] \in [Numbers -> Job]
                BY <1>0 DEF Job
            <4>2. c.ts \in SUBSET Tokens
                BY <1>0 DEF Call
            <4>3. jobs' = [[jobs EXCEPT ![c.n].state = "running"] EXCEPT ![c.n].ts = c.ts]
                BY <3>1
            <4> HIDE <3>1
            <4> QED BY <4>1, <4>2, <4>3 DEF Job
        <3> DEFINE d == [c EXCEPT !.state = "served"]
        <3>3. d \in Call /\ d.op = c.op /\ d.n = c.n /\ d.ts = c.ts
            BY <1>0 DEF Call
        <3> QED BY <1>0, <1>3, <3>1, <3>2, <3>3, ServiceStep DEF JobCallServed
    <2>2. CASE c.op = "poll"
        <3> DEFINE d == [c EXCEPT !.state = "served", !.items = jobs[c.n].items,
                                  !.done = jobs[c.n].state # "running"]
        <3>1. Answer(c, d) /\ UNCHANGED jobs
            BY <1>3, <2>2 DEF JobCallServed
        <3>2. c.n \in Numbers
            BY <2>2 DEF AccountsInv, FlowCalls
        <3>3. jobs[c.n].items \in Items /\ (jobs[c.n].state # "running") \in BOOLEAN
            BY <1>0, <3>2 DEF Job
        <3>4. d \in Call /\ d.op = c.op /\ d.n = c.n /\ d.ts = c.ts
            BY <1>0, <3>3 DEF Call
        <3> QED BY <1>0, <1>3, <3>1, <3>4, ServiceStep DEF JobCallServed
    <2> QED BY <1>3, <2>1, <2>2 DEF JobCallServed
<1> QED BY <1>1, <1>2, <1>3

LEMMA JobEndsInv ==
    ASSUME AccountsInv, NEW n \in Numbers, JobEnds(n)
    PROVE  AccountsInv'
<1>0. pool \in Items /\ jobs \in [Numbers -> Job]
    BY DEF AccountsInv, AccountsTypeOK
<1>1. pool' \in Items /\ jobs' \in [Numbers -> Job]
    <2>1. CASE jobs' = [jobs EXCEPT ![n].state = "error"] /\ UNCHANGED pool
        BY <1>0, <2>1 DEF Job
    <2>2. ASSUME NEW s \in Status,
                 pool' = [t \in Tokens |-> IF t \in jobs[n].ts /\ pool[t] # "absent" THEN s ELSE pool[t]],
                 jobs' = [jobs EXCEPT ![n].state = "done", ![n].items = pool']
          PROVE  pool' \in Items /\ jobs' \in [Numbers -> Job]
        <3>1. pool' \in Items
            BY <1>0, <2>2 DEF Items
        <3> QED BY <1>0, <2>2, <3>1 DEF Job
    <2> QED BY <2>1, <2>2 DEF JobEnds
<1>2. AccountsTypeOK'
    BY <1>1 DEF AccountsInv, AccountsTypeOK, JobEnds, listVars, dialogVars
<1>3. OneRequest' /\ FlowCalls' /\ OneFlow' /\ FilesHold'
    BY DEF AccountsInv, OneRequest, FlowCalls, OneFlow, UnderWay, FilesHold, JobEnds
<1>4. SelectionIsListed' /\ DialogCoherent'
    BY DEF AccountsInv, SelectionIsListed, DialogCoherent, listVars, dialogVars, Listed, JobEnds
<1> QED BY <1>2, <1>3, <1>4 DEF AccountsInv

(***************************************************************************)
(* Handlers that go on.                                                    *)
(***************************************************************************)
\* What a handler shows.
LEMMA ShowOK ==
    ASSUME AccountsInv, NEW items \in Items, Show(items) \/ UNCHANGED <<accounts, listVars>>
    PROVE  /\ accounts' \in Items /\ selectedIds' \subseteq Listed(accounts')
           /\ page' \in Nat \ {0} /\ statusFilter' \in {"all", "abnormal"}
BY DEF AccountsInv, AccountsTypeOK, Show, SelectionIsListed, Listed, listVars

\* The answer to a request with a flag.
LEMMA TakeInv ==
    ASSUME AccountsInv, NEW c \in accountCalls, Take(c), c.op \in Requests,
           ShowOrKeep(c) \/ UNCHANGED <<accounts, listVars>>,
           editingAccount' \in {editingAccount, NoToken},
           UNCHANGED <<pool, flowVars, showDiagnostics, dialogVars, rowUse>>
    PROVE  AccountsInv'
<1>1. c.items \in Items
    BY DEF AccountsInv, AccountsTypeOK, Call
<1>2. /\ accounts' \in Items /\ selectedIds' \subseteq Listed(accounts')
      /\ page' \in Nat \ {0} /\ statusFilter' \in {"all", "abnormal"}
    BY <1>1, ShowOK DEF ShowOrKeep
<1>3. OneRequest'
    BY RequestTaken DEF AccountsInv, Take
<1>4. rowUse' \in Nat /\ rowUse' =< rowUse
    BY DEF AccountsInv, AccountsTypeOK
<1>5. FlowCalls' /\ OneFlow'
    BY <1>4, FlowsRest DEF AccountsInv, Take, flowVars, Requests
<1>6. Listed(accounts') \subseteq Tokens
    BY DEF Listed
<1>7. AccountsTypeOK'
    BY <1>2, <1>6 DEF AccountsInv, AccountsTypeOK, Take, flowVars, dialogVars
<1>8. SelectionIsListed' /\ DialogCoherent' /\ FilesHold'
    BY <1>2 DEF AccountsInv, SelectionIsListed, DialogCoherent, FilesHold, dialogVars, Take, Listed
<1> QED BY <1>3, <1>5, <1>7, <1>8 DEF AccountsInv

\* A step of a flow, which may take the answer to a request without a flag.
LEMMA FlowStep ==
    ASSUME AccountsInv, NEW items \in Items, Show(items) \/ UNCHANGED <<accounts, listVars>>,
           FlowCalls', OneFlow', flows' \in [Numbers -> Flow], refreshingTokens' \subseteq Tokens,
           accountFlags' \subseteq Flags, refreshSummary' \in BOOLEAN,
           \A op \in Requests : op \in accountFlags' <=> op \in accountFlags,
           accountCalls' \subseteq Call,
           \A c : c.op \notin FlowOps => (c \in accountCalls' <=> c \in accountCalls),
           UNCHANGED <<pool, jobs, editingAccount, showDiagnostics, dialogVars, rowUse>>
    PROVE  AccountsInv'
<1>1. /\ accounts' \in Items /\ selectedIds' \subseteq Listed(accounts')
      /\ page' \in Nat \ {0} /\ statusFilter' \in {"all", "abnormal"}
    BY ShowOK
<1>2. OneRequest'
    BY RequestsRest DEF AccountsInv, FlowOps, Requests
<1>3. Listed(accounts') \subseteq Tokens
    BY DEF Listed
<1>4. AccountsTypeOK'
    BY <1>1, <1>3 DEF AccountsInv, AccountsTypeOK, dialogVars
<1>5. SelectionIsListed' /\ DialogCoherent' /\ FilesHold'
    BY <1>1 DEF AccountsInv, SelectionIsListed, DialogCoherent, FilesHold, dialogVars, Listed, FlowOps
<1> QED BY <1>2, <1>4, <1>5 DEF AccountsInv

\* The answer to a request of the dialog that only the dialog shows.
LEMMA DialogTakes ==
    ASSUME AccountsInv, NEW c \in accountCalls, c.op \in {"oauth", "txt", "file"}, DialogOnly,
           accountCalls' = accountCalls \ {c}, accountFlags' \in {accountFlags, accountFlags \ {"oauth"}},
           DialogOK(importDialog'), UNCHANGED dialogUse
    PROVE  AccountsInv'
<1>1. /\ \A flag \in Flags \ {"oauth"} : flag \in accountFlags' <=> flag \in accountFlags
      /\ \A x : x.op \notin {"oauth", "txt", "file"} => (x \in accountCalls' <=> x \in accountCalls)
    OBVIOUS
<1>2. accountFlags' \subseteq Flags /\ accountCalls' \subseteq Call /\ dialogUse' \in Nat
    BY DEF AccountsInv, AccountsTypeOK
<1>3. FilesHold'
    BY DEF AccountsInv, FilesHold
<1> QED BY <1>1, <1>2, <1>3, DialogStep

LEMMA SubmittedInv ==
    ASSUME AccountsInv, NEW c \in accountCalls, TokensSubmitted(c)
    PROVE  AccountsInv'
<1>0. AccountsTypeOK /\ c \in Call /\ c.op = "submit" /\ c.items \in Items
    BY DEF AccountsInv, AccountsTypeOK, TokensSubmitted, Call
<1>1. OneRequest'
    <2>1. accountCalls' = accountCalls \ {c} /\ UNCHANGED showDiagnostics
        BY DEF TokensSubmitted
    <2>2. \A op \in Requests : op \in accountFlags' <=> op \in accountFlags /\ op # "submit"
        BY DEF TokensSubmitted, Requests
    <2>3. "submit" \in Requests /\ "diagnose" \in Requests
        BY DEF Requests
    <2> QED BY <1>0, <2>1, <2>2, <2>3 DEF AccountsInv, OneRequest
<1>2. rowUse' \in Nat /\ rowUse' =< rowUse
    BY <1>0 DEF AccountsTypeOK, TokensSubmitted
<1>3. FlowCalls' /\ OneFlow'
    <2>1. \A kind \in {"refresh", "relogin"} : kind \in accountFlags' <=> kind \in accountFlags
        BY DEF TokensSubmitted
    <2>2. \A x \in accountCalls' : x.op \in FlowOps => x \in accountCalls
        BY DEF TokensSubmitted
    <2> QED BY <1>2, <2>1, <2>2, FlowsRest DEF AccountsInv, TokensSubmitted, flowVars
<1>4. DialogOK(importDialog')
    <2>1. DialogOK(Reset(FALSE))
        BY DEF DialogOK, Dialog, Reset, Methods
    <2>2. DialogOK(importDialog)
        BY DEF AccountsInv, AccountsTypeOK, DialogCoherent, DialogOK
    <2> QED BY <2>1, <2>2 DEF TokensSubmitted
<1>5. /\ accounts' \in Items /\ selectedIds' \subseteq Listed(accounts') /\ selectedIds' \subseteq Tokens
      /\ page' \in Nat \ {0} /\ accountFlags' \subseteq Flags /\ accountCalls' \subseteq Call
    <2>1. accountFlags' \subseteq Flags /\ accountCalls' \subseteq Call
        BY <1>0 DEF AccountsTypeOK, TokensSubmitted
    <2>2. CASE Ok(c)
        <3>1. accounts' = c.items /\ selectedIds' = {} /\ page' = 1
            BY <2>2 DEF TokensSubmitted
        <3> QED BY <1>0, <2>1, <3>1
    <2>3. CASE ~Ok(c)
        <3>1. UNCHANGED <<accounts, selectedIds, page>>
            BY <2>3 DEF TokensSubmitted
        <3> QED BY <1>0, <2>1, <3>1 DEF AccountsInv, AccountsTypeOK, SelectionIsListed, Listed
    <2> QED BY <2>2, <2>3
<1>6. AccountsTypeOK'
    BY <1>0, <1>4, <1>5 DEF AccountsTypeOK, TokensSubmitted, DialogOK, flowVars
<1>7. SelectionIsListed' /\ DialogCoherent' /\ FilesHold'
    BY <1>4, <1>5 DEF AccountsInv, SelectionIsListed, DialogCoherent, FilesHold, DialogOK, TokensSubmitted, Listed
<1> QED BY <1>1, <1>3, <1>6, <1>7 DEF AccountsInv

\* A handler of a flow takes an answer, and the flow ends.
LEMMA FlowEnds ==
    ASSUME AccountsInv, NEW n \in Numbers, flows[n].state \notin {"none", "ended"}, EndFlow(n, flows),
           accountCalls' \subseteq accountCalls,
           \A c : c.op \notin FlowOps => (c \in accountCalls' <=> c \in accountCalls),
           \A c \in accountCalls' : c.op \in {"start", "relist"} => c.n # n,
           NEW items \in Items, Show(items) \/ UNCHANGED <<accounts, listVars>>, refreshSummary' \in BOOLEAN,
           UNCHANGED <<pool, jobs, editingAccount, showDiagnostics, dialogVars, rowUse>>
    PROVE  AccountsInv'
<1>1. /\ FlowCalls' /\ OneFlow' /\ flows' \in [Numbers -> Flow]
      /\ refreshingTokens' \subseteq Tokens /\ accountFlags' \subseteq Flags
      /\ \A op \in Requests : op \in accountFlags' <=> op \in accountFlags
    BY FlowEnded DEF AccountsInv
<1>2. accountCalls' \subseteq Call
    BY DEF AccountsInv, AccountsTypeOK
<1> QED BY <1>1, <1>2, FlowStep

\* A flow goes on to another state (s).
LEMMA FlowGoesOn ==
    ASSUME AccountsInv, NEW n \in Numbers, flows[n].state \notin {"none", "ended"},
           NEW s \in {"polling", "settled", "relisting"}, flows' = [flows EXCEPT ![n].state = s],
           UNCHANGED <<accountFlags, refreshingTokens>>, accountCalls' \subseteq Call,
           \A c : c.op \notin FlowOps => (c \in accountCalls' <=> c \in accountCalls),
           OnlyFlow(accountCalls', n, s), NEW items \in Items, Show(items) \/ UNCHANGED <<accounts, listVars>>, refreshSummary' \in BOOLEAN,
           UNCHANGED <<pool, jobs, editingAccount, showDiagnostics, dialogVars, rowUse>>
    PROVE  AccountsInv'
<1>0. AccountsTypeOK /\ FlowCalls /\ OneFlow /\ s \notin {"none", "ended"} /\ UNCHANGED rowUse
    BY DEF AccountsInv
<1>1. FlowCalls' /\ OneFlow'
    BY <1>0, FlowMoved
<1>2. flows' \in [Numbers -> Flow] /\ refreshingTokens' \subseteq Tokens /\ accountFlags' \subseteq Flags
    BY DEF AccountsInv, AccountsTypeOK, Flow
<1> QED BY <1>1, <1>2, FlowStep

\* A poll is answered and its flow stays as it is.
LEMMA PollIsShown ==
    ASSUME AccountsInv, NEW c \in accountCalls, c.op = "poll", accountCalls' = accountCalls \ {c},
           Show(c.items) \/ UNCHANGED <<accounts, listVars>>, refreshSummary' \in BOOLEAN,
           UNCHANGED <<flows, accountFlags, refreshingTokens, pool, jobs, editingAccount, showDiagnostics,
                       dialogVars, rowUse>>
    PROVE  AccountsInv'
<1>1. c.items \in Items
    BY DEF AccountsInv, AccountsTypeOK, Call
<1>2. rowUse' \in Nat /\ rowUse' =< rowUse
    BY DEF AccountsInv, AccountsTypeOK
<1>3. FlowCalls' /\ OneFlow'
    BY <1>2, FlowsRest DEF AccountsInv
<1>4. /\ accountCalls' \subseteq Call /\ flows' \in [Numbers -> Flow] /\ refreshingTokens' \subseteq Tokens
      /\ accountFlags' \subseteq Flags
    BY DEF AccountsInv, AccountsTypeOK
<1>5. \A x : x.op \notin FlowOps => (x \in accountCalls' <=> x \in accountCalls)
    BY DEF FlowOps
<1>6. \A op \in Requests : op \in accountFlags' <=> op \in accountFlags
    OBVIOUS
<1> QED BY <1>1, <1>3, <1>4, <1>5, <1>6, FlowStep

LEMMA FlowAnsweredInv ==
    ASSUME AccountsInv, NEW c \in accountCalls,
           FlowStarted(c) \/ OnePolled(c) \/ ManyPolled(c) \/ ReLoginEnds(c)
    PROVE  AccountsInv'
<1>0. /\ AccountsTypeOK /\ c \in Call /\ c.items \in Items
      /\ c.op \in FlowOps /\ c.n \in Numbers /\ accountCalls' = accountCalls \ {c}
    BY DEF AccountsInv, AccountsTypeOK, Call, FlowCalls, FlowOps, FlowStarted, OnePolled, ManyPolled, ReLoginEnds
<1>1. /\ accountCalls' \subseteq accountCalls /\ accountCalls' \subseteq Call
      /\ \A x : x.op \notin FlowOps => (x \in accountCalls' <=> x \in accountCalls)
    BY <1>0 DEF AccountsTypeOK
<1>2. \A x, y \in accountCalls' : x.op \in {"start", "relist"} /\ y.op = x.op /\ y.n = x.n => x = y
    BY <1>1 DEF AccountsInv, FlowCalls
<1>3. /\ c.op = "start" => flows[c.n].state = "starting"
      /\ c.op = "relist" => flows[c.n].state = "relisting"
    BY DEF AccountsInv, FlowCalls
\* No other start or last load is of a flow that has this one, or is polling.
<1>4. ASSUME c.op \in {"start", "relist"} \/ flows[c.n].state = "polling"
      PROVE  \A x \in accountCalls' : x.op \in {"start", "relist"} => x.n # c.n
    BY <1>0, <1>3, <1>4 DEF AccountsInv, FlowCalls
<1>5. refreshSummary \in BOOLEAN
    BY <1>0 DEF AccountsTypeOK
<1>6. CASE FlowStarted(c)
    <2>1. c.op = "start"
        BY <1>6 DEF FlowStarted
    <2>2. flows[c.n].state = "starting" /\ \A x \in accountCalls' : x.op \in {"start", "relist"} => x.n # c.n
        BY <1>3, <1>4, <2>1
    <2>3. CASE Ok(c)
        <3>1. OnlyFlow(accountCalls', c.n, "polling")
            BY <1>1, <1>2, <2>2 DEF OnlyFlow
        <3> QED BY <1>0, <1>1, <1>5, <1>6, <2>2, <2>3, <3>1, FlowGoesOn DEF FlowStarted
    <2>4. CASE ~Ok(c)
        <3>1. refreshSummary' \in BOOLEAN
            BY <1>5, <1>6, <2>4 DEF FlowStarted
        <3> QED BY <1>0, <1>1, <1>6, <2>2, <2>4, <3>1, FlowEnds DEF FlowStarted
    <2> QED BY <2>3, <2>4
<1>7. CASE OnePolled(c)
    <2>1. c.op = "poll" /\ (Show(c.items) \/ UNCHANGED <<accounts, listVars>>)
        BY <1>7 DEF OnePolled
    <2>2. CASE flows[c.n].state = "polling" /\ (Ok(c) => c.done)
        <3>1. EndFlow(c.n, flows)
            BY <1>7, <2>2 DEF OnePolled
        <3> QED BY <1>0, <1>1, <1>4, <1>5, <1>7, <2>1, <2>2, <3>1, FlowEnds DEF OnePolled
    <2>3. CASE ~(flows[c.n].state = "polling" /\ (Ok(c) => c.done))
        BY <1>0, <1>5, <1>7, <2>1, <2>3, PollIsShown DEF OnePolled
    <2> QED BY <2>2, <2>3
<1>8. CASE ManyPolled(c)
    <2>1. c.op = "poll" /\ UNCHANGED <<pool, jobs, editingAccount, showDiagnostics, dialogVars, rowUse>>
        BY <1>8 DEF ManyPolled
    <2> DEFINE live == flows[c.n].state = "polling"
    <2>2. CASE /\ refreshSummary' = TRUE
               /\ UNCHANGED <<flows, accountFlags, refreshingTokens, accounts, listVars>>
        BY <1>0, <2>1, <2>2, PollIsShown
    <2>3. CASE /\ refreshSummary' = FALSE
               /\ flows' = (IF live THEN [flows EXCEPT ![c.n].state = "settled"] ELSE flows)
               /\ IF live /\ flows[c.n].kind = "refresh" THEN Show(c.items) ELSE UNCHANGED <<accounts, listVars>>
               /\ UNCHANGED <<accountFlags, refreshingTokens>>
        <3>1. CASE live
            <4>1. flows' = [flows EXCEPT ![c.n].state = "settled"]
                BY <2>3, <3>1
            <4>2. Show(c.items) \/ UNCHANGED <<accounts, listVars>>
                BY <2>3
            <4>3. OnlyFlow(accountCalls', c.n, "settled")
                BY <1>1, <1>2, <1>4, <3>1 DEF OnlyFlow
            <4>4. refreshSummary' \in BOOLEAN /\ flows[c.n].state \notin {"none", "ended"}
                BY <2>3, <3>1
            <4>5. UNCHANGED <<accountFlags, refreshingTokens>>
                BY <2>3
            <4> QED BY <1>0, <1>1, <2>1, <4>1, <4>2, <4>3, <4>4, <4>5, FlowGoesOn
        <3>2. CASE ~live
            BY <1>0, <2>1, <2>3, <3>2, PollIsShown
        <3> QED BY <3>1, <3>2
    <2>4. CASE /\ IF live THEN EndFlow(c.n, flows) /\ refreshSummary' = FALSE
                  ELSE UNCHANGED <<flows, accountFlags, refreshingTokens, refreshSummary>>
               /\ UNCHANGED <<accounts, listVars>>
        <3>1. CASE live
            BY <1>0, <1>1, <1>4, <2>1, <2>4, <3>1, FlowEnds
        <3>2. CASE ~live
            BY <1>0, <1>5, <2>1, <2>4, <3>2, PollIsShown
        <3> QED BY <3>1, <3>2
    <2> QED BY <1>8, <2>2, <2>3, <2>4 DEF ManyPolled
<1>9. CASE ReLoginEnds(c)
    <2>1. c.op = "relist" /\ (Show(c.items) \/ UNCHANGED <<accounts, listVars>>)
        BY <1>9 DEF ReLoginEnds, ShowOrKeep
    <2>2. flows[c.n].state = "relisting" /\ \A x \in accountCalls' : x.op \in {"start", "relist"} => x.n # c.n
        BY <1>3, <1>4, <2>1
    <2> QED BY <1>0, <1>1, <1>5, <1>9, <2>1, <2>2, FlowEnds DEF ReLoginEnds
<1> QED BY <1>6, <1>7, <1>8, <1>9

LEMMA AccountsAnsweredInv ==
    ASSUME AccountsInv, AccountsAnswered
    PROVE  AccountsInv'
<1>0. DialogOK(importDialog) /\ AccountsTypeOK
    BY DEF AccountsInv, AccountsTypeOK, DialogCoherent, DialogOK
<1>c. PICK c \in accountCalls :
        \/ AccountsLoaded(c) \/ OtherLoaded(c) \/ TokensDeleted(c) \/ FlowStarted(c)
        \/ OnePolled(c) \/ ManyPolled(c) \/ ReLoginEnds(c) \/ AccountUpdated(c)
        \/ TxtSelected(c) \/ AccountJsonSelected(c) \/ OAuthStarted(c) \/ TokensSubmitted(c)
    BY DEF AccountsAnswered
<1>t. c \in Call /\ c.ts \in SUBSET Tokens /\ c.n \in Nat
    BY <1>0 DEF AccountsTypeOK, Call
<1>1. CASE AccountsLoaded(c) \/ OtherLoaded(c) \/ TokensDeleted(c)
    <2>1. c.op \in Requests /\ Take(c)
        BY <1>1 DEF AccountsLoaded, OtherLoaded, TokensDeleted, Requests
    <2> QED BY <1>1, <2>1, TakeInv DEF AccountsLoaded, OtherLoaded, TokensDeleted
<1>2. CASE AccountUpdated(c)
    <2>1. c.op \in Requests /\ editingAccount' \in {editingAccount, NoToken}
        BY <1>2 DEF AccountUpdated, Requests
    <2> QED BY <1>2, <2>1, TakeInv DEF AccountUpdated
<1>3. CASE TxtSelected(c)
    <2>1. DialogOK(importDialog')
        <3>1. CASE Ok(c)
            BY <1>0, <1>3, <1>t, <3>1 DEF TxtSelected, DialogOK, Dialog
        <3>2. CASE ~Ok(c)
            BY <1>0, <1>3, <3>2 DEF TxtSelected
        <3> QED BY <3>1, <3>2
    <2> QED BY <1>3, <2>1, DialogTakes DEF TxtSelected
<1>4. CASE AccountJsonSelected(c)
    <2>1. DialogOK(importDialog')
        <3>1. CASE Ok(c)
            <4>1. c.ts # {}
                BY <1>4 DEF AccountJsonSelected, AccountsInv, FilesHold
            <4> QED BY <1>0, <1>4, <1>t, <3>1, <4>1 DEF AccountJsonSelected, DialogOK, Dialog
        <3>2. CASE ~Ok(c)
            BY <1>0, <1>4, <3>2 DEF AccountJsonSelected
        <3> QED BY <3>1, <3>2
    <2> QED BY <1>4, <2>1, DialogTakes DEF AccountJsonSelected
<1>5. CASE OAuthStarted(c)
    <2>1. DialogOK(importDialog')
        <3>1. CASE Ok(c)
            BY <1>0, <1>5, <1>t, <3>1 DEF OAuthStarted, OAuthStartedFor, DialogOK, Dialog
        <3>2. CASE ~Ok(c)
            BY <1>0, <1>5, <3>2 DEF OAuthStarted
        <3> QED BY <3>1, <3>2
    <2> QED BY <1>5, <2>1, DialogTakes DEF OAuthStarted, Take
<1> QED BY <1>c, <1>1, <1>2, <1>3, <1>4, <1>5, FlowAnsweredInv, SubmittedInv

LEMMA AccountsTimersInv ==
    ASSUME AccountsInv, AccountsTimers
    PROVE  AccountsInv'
<1>0. AccountsTypeOK /\ NoItems \in Items /\ refreshSummary \in BOOLEAN
    BY DEF AccountsInv, AccountsTypeOK, NoItems, Items, Status
<1>n. PICK n \in Numbers : Tick(n) \/ RefreshEnds(n) \/ Relist(n)
    BY DEF AccountsTimers
<1>m. n \in Nat
    BY NumbersOK
<1>k. \A c \in accountCalls : c.op \in {"start", "relist"} => flows[c.n].state \in {"starting", "relisting"}
    BY DEF AccountsInv, FlowCalls
<1>1. CASE Tick(n)
    <2>0. flows[n].ts \in SUBSET Tokens /\ {} \in SUBSET Tokens
        BY <1>0 DEF AccountsTypeOK, Flow
    <2>1. PICK ts \in SUBSET Tokens : accountCalls' = accountCalls \cup {NewCall("poll", n, ts)}
        BY <1>1, <2>0 DEF Tick
    <2> DEFINE c == NewCall("poll", n, ts)
    <2>2. c \in Call /\ c.op = "poll" /\ c.n = n
        BY <1>m DEF NewCall, Call, NoItems, Items, Status
    <2>c. accountCalls' = accountCalls \cup {c}
        BY <2>1
    <2> HIDE DEF c
    <2>3. FlowCalls' /\ OneFlow'
        BY <2>c, <2>2, <1>1 DEF AccountsInv, FlowCalls, OneFlow, UnderWay, Tick, flowVars
    <2>4. accountCalls' \subseteq Call /\ \A x : x.op \notin FlowOps => (x \in accountCalls' <=> x \in accountCalls)
        BY <1>0, <2>c, <2>2 DEF AccountsTypeOK, FlowOps
    <2>5. /\ flows' \in [Numbers -> Flow] /\ refreshingTokens' \subseteq Tokens /\ accountFlags' \subseteq Flags
          /\ \A op \in Requests : op \in accountFlags' <=> op \in accountFlags
        BY <1>0, <1>1 DEF AccountsTypeOK, Tick, flowVars
    <2> QED BY <1>0, <1>1, <2>3, <2>4, <2>5, FlowStep DEF Tick, flowVars
<1>2. CASE RefreshEnds(n)
    <2>1. \A c \in accountCalls' : c.op \in {"start", "relist"} => c.n # n
        BY <1>2, <1>k DEF RefreshEnds
    <2> QED BY <1>0, <1>2, <2>1, FlowEnds DEF RefreshEnds
<1>3. CASE Relist(n)
    <2> DEFINE call == NewCall("relist", n, {})
    <2>1. call \in Call /\ call.op = "relist" /\ call.n = n
        BY <1>m DEF NewCall, Call, NoItems, Items, Status
    <2>2. \A c \in accountCalls : c.op \in {"start", "relist"} => c.n # n
        BY <1>3, <1>k DEF Relist
    <2>3. accountCalls' = accountCalls \cup {call}
        BY <1>3 DEF Relist
    <2> HIDE DEF call
    <2>4. accountCalls' \subseteq Call /\ \A x : x.op \notin FlowOps => (x \in accountCalls' <=> x \in accountCalls)
        BY <1>0, <2>1, <2>3 DEF AccountsTypeOK, FlowOps
    <2>5. OnlyFlow(accountCalls', n, "relisting")
        BY <2>1, <2>2, <2>3 DEF AccountsInv, FlowCalls, OnlyFlow
    <2> QED BY <1>0, <1>3, <2>4, <2>5, FlowGoesOn DEF Relist
<1> QED BY <1>n, <1>1, <1>2, <1>3

LEMMA AccountsNextInv ==
    ASSUME AccountsInv, [AccountsNext]_accountVars
    PROVE  AccountsInv'
<1>1. CASE UNCHANGED accountVars
    <2>1. AccountsTypeOK' /\ SelectionIsListed' /\ DialogCoherent'
        BY <1>1 DEF AccountsInv, accountVars, AccountsTypeOK, SelectionIsListed, DialogCoherent, flowVars, listVars,
            dialogVars, Listed
    <2>2. OneRequest' /\ FlowCalls' /\ OneFlow' /\ FilesHold'
        BY <1>1 DEF AccountsInv, accountVars, OneRequest, FlowCalls, OneFlow, UnderWay, FilesHold, flowVars
    <2> QED BY <2>1, <2>2 DEF AccountsInv
<1> QED BY <1>1, AccountsUserInv, AccountsServiceInv, JobEndsInv, AccountsAnsweredInv, AccountsTimersInv
        DEF AccountsNext, AccountsGoOn, AccountsServed

(***************************************************************************)
(* The image manager and the logs.                                         *)
(***************************************************************************)
IsDeletion(c) == c.op = "delete" \/ (c.op = "load" /\ c.mode # "none")

OneDeletion ==
    /\ \A c, d \in listCalls : IsDeletion(c) /\ IsDeletion(d) => c = d
    /\ "delete" \in listFlags <=> \E c \in listCalls : IsDeletion(c)
    /\ "load" \in listFlags => \E c \in listCalls : c.op = "load"

ListsInv == ListsTypeOK /\ EntriesListed /\ OneDeletion

LEMMA OneDeletionTells ==
    ASSUME OneDeletion
    PROVE  DeletingTells
<1> DEFINE deletions == {c \in listCalls : c.op = "delete" \/ (c.op = "load" /\ c.mode # "none")}
<1>1. \A x, y \in deletions : x = y
    BY DEF OneDeletion, IsDeletion
<1>2. Cardinality(deletions) =< 1
    BY <1>1, AtMostOne
<1>3. "delete" \in listFlags <=> deletions # {}
    BY DEF OneDeletion, IsDeletion
<1> QED BY <1>2, <1>3 DEF DeletingTells, OneDeletion

LEMMA NewListCallOK ==
    ASSUME ListsTypeOK, NEW op \in ListOps, NEW mode \in Modes, NEW es \in SUBSET Entries,
           NEW labels \in SUBSET Labels
    PROVE  NewListCall(op, mode, es, labels) \in ListCall
BY DEF ListsTypeOK, NewListCall, ListCall, Untagged, Tagging

LEMMA LabelsOfOK ==
    ASSUME NEW tagging \in Tagging
    PROVE  LabelsOf(tagging) \in SUBSET Labels
BY DEF LabelsOf, Tagging

LEMMA ListsInitInv == ListsInit => ListsInv
<1> SUFFICES ASSUME ListsInit PROVE ListsInv
    OBVIOUS
<1>1. PICK u \in ListUses : listUse = u[1] /\ listFault = u[2]
    BY DEF ListsInit
<1>2. listUse \in Nat /\ listFault \in Nat
    BY <1>1, ListAssumption
<1>3. NewListCall("load", "none", {}, {}) \in ListCall
    BY <1>2 DEF ListsInit, NewListCall, ListCall, ListOps, Modes, Untagged, Tagging
<1>4. ListsTypeOK
    BY <1>2, <1>3 DEF ListsInit, ListsTypeOK, ListOps, Modes, Untagged, Tagging
<1>5. EntriesListed
    BY DEF ListsInit, EntriesListed
<1>6. OneDeletion
    BY DEF ListsInit, OneDeletion, NewListCall, IsDeletion
<1> QED BY <1>4, <1>5, <1>6 DEF ListsInv

(***************************************************************************)
(* Requests.  One that is asked, one that is answered by the service, and  *)
(* one whose handler goes on, with the requests it makes (more).           *)
(***************************************************************************)
LEMMA ListAsked ==
    ASSUME OneDeletion, NEW call, NEW flag, ~IsDeletion(call),
           "delete" \notin flag, "load" \in flag => call.op = "load",
           listFlags' = listFlags \cup flag, listCalls' = listCalls \cup {call}
    PROVE  OneDeletion'
BY DEF OneDeletion

LEMMA AskedToDelete ==
    ASSUME OneDeletion, NEW call, IsDeletion(call), "delete" \notin listFlags,
           listFlags' = listFlags \cup {"delete"}, listCalls' = listCalls \cup {call}
    PROVE  OneDeletion'
BY DEF OneDeletion

LEMMA Turned ==
    ASSUME OneDeletion, NEW c \in listCalls, NEW d, IsDeletion(d) <=> IsDeletion(c), d.op = c.op,
           UNCHANGED listFlags, listCalls' = (listCalls \ {c}) \cup {d}
    PROVE  OneDeletion'
BY DEF OneDeletion

LEMMA HandlerGoesOn ==
    ASSUME OneDeletion, NEW c \in listCalls, NEW more,
           listCalls' = (listCalls \ {c}) \cup more,
           \A d \in more : ~IsDeletion(d),
           IF IsDeletion(c) THEN "delete" \notin listFlags'
                            ELSE "delete" \in listFlags' <=> "delete" \in listFlags,
           "load" \in listFlags' => \/ "load" \in listFlags /\ c.op # "load"
                                    \/ \E d \in more : d.op = "load"
    PROVE  OneDeletion'
BY DEF OneDeletion

LEMMA HandlerEnds ==
    ASSUME OneDeletion, NEW c \in listCalls, listCalls' = (listCalls \ {c}) \cup {},
           IF IsDeletion(c) THEN "delete" \notin listFlags'
                            ELSE "delete" \in listFlags' <=> "delete" \in listFlags,
           "load" \in listFlags' => "load" \in listFlags /\ c.op # "load"
    PROVE  OneDeletion'
<1>1. listCalls' = listCalls \ {c}
    OBVIOUS
<1> QED BY <1>1 DEF OneDeletion

LEMMA DeletionReloads ==
    ASSUME OneDeletion, NEW c \in listCalls, NEW d, IsDeletion(c), IsDeletion(d), d.op = "load",
           listCalls' = (listCalls \ {c}) \cup {d}, listFlags' = listFlags \cup {"load"}
    PROVE  OneDeletion'
BY DEF OneDeletion

LEMMA ListServiceInv ==
    ASSUME ListsInv, NEW c \in listCalls, ListCallServed(c) \/ ListCallFails(c)
    PROVE  ListsInv'
<1>1. CASE ListCallFails(c)
    <2> DEFINE d == [c EXCEPT !.state = "failed"]
    <2>1. c \in ListCall /\ d \in ListCall /\ d.op = c.op /\ d.mode = c.mode
        BY DEF ListsInv, ListsTypeOK, ListCall
    <2>2. OneDeletion'
        BY <1>1, <2>1, Turned DEF ListCallFails, ListServiceOnly, ListsInv, IsDeletion
    <2>3. ListsTypeOK'
        BY <1>1, <2>1 DEF ListCallFails, ListServiceOnly, ListsInv, ListsTypeOK, storedVars, tagVars,
            confirmVars, detailVars
    <2> QED BY <1>1, <2>2, <2>3 DEF ListCallFails, ListServiceOnly, ListsInv, EntriesListed
<1>2. CASE ListCallServed(c)
    <2> DEFINE items == IF c.narrow THEN stored' \cap InRange ELSE stored'
               d == [c EXCEPT !.state = "served", !.tags = storedTags', !.items = items]
    <2>1. c \in ListCall /\ stored' \in SUBSET Entries
        BY <1>2 DEF ListsInv, ListsTypeOK, ListCallServed
    <2>2. storedTags' \in Tagging
        BY <1>2, <2>1 DEF ListsInv, ListsTypeOK, ListCallServed, ListCall, Tagging
    <2>3. d \in ListCall /\ d.op = c.op /\ d.mode = c.mode
        BY <2>1, <2>2 DEF ListCall
    <2>4. listCalls' = (listCalls \ {c}) \cup {d}
        BY <1>2 DEF ListCallServed
    <2>5. OneDeletion'
        BY <1>2, <2>3, <2>4, Turned DEF ListCallServed, ListServiceOnly, ListsInv, IsDeletion
    <2>6. ListsTypeOK'
        BY <1>2, <2>1, <2>2, <2>3, <2>4 DEF ListCallServed, ListServiceOnly, ListsInv, ListsTypeOK, tagVars,
            confirmVars, detailVars
    <2> QED BY <1>2, <2>5, <2>6 DEF ListCallServed, ListServiceOnly, ListsInv, EntriesListed
<1> QED BY <1>1, <1>2

(***************************************************************************)
(* The user.                                                               *)
(***************************************************************************)
\* A use of the list that makes no request.
LEMMA ListUseInv ==
    ASSUME ListsInv, UseList, UNCHANGED <<entries, entryTags, allTags, listFlags, listCalls>>,
           narrowed' \in BOOLEAN, selectedTags' \subseteq Labels, selectedPaths' \subseteq entries,
           deleteMode' \in Modes, deleteTarget' \subseteq Entries, closings' \in Nat,
           detailLog' \in Entries \cup {NoEntry}, detailOpen' \in BOOLEAN
    PROVE  ListsInv'
<1>1. ListsTypeOK'
    BY DEF ListsInv, ListsTypeOK, UseList, storedVars
<1>2. OneDeletion'
    BY DEF ListsInv, OneDeletion
<1> QED BY <1>1, <1>2 DEF ListsInv, EntriesListed

\* One that makes a request.
LEMMA ListAskInv ==
    ASSUME ListsInv, UseList, NEW flag \in SUBSET ListOps, NEW call \in ListCall,
           listFlags' = listFlags \cup flag, listCalls' = listCalls \cup {call},
           UNCHANGED <<entries, entryTags, allTags, selectedPaths, confirmVars>>,
           narrowed' \in BOOLEAN, selectedTags' \subseteq Labels,
           \/ ~IsDeletion(call) /\ "delete" \notin flag /\ ("load" \in flag => call.op = "load")
           \/ IsDeletion(call) /\ "delete" \notin listFlags /\ flag = {"delete"}
    PROVE  ListsInv'
<1>1. ListsTypeOK'
    BY DEF ListsInv, ListsTypeOK, UseList, storedVars, confirmVars, detailVars
<1>2. OneDeletion'
    BY ListAsked, AskedToDelete DEF ListsInv
<1> QED BY <1>1, <1>2 DEF ListsInv, EntriesListed

LEMMA ListsUserInv ==
    ASSUME ListsInv, ListsUser
    PROVE  ListsInv'
<1> USE DEF ListOps, Modes
<1>0. ListsTypeOK /\ EntriesListed /\ {} \in SUBSET Entries /\ {} \in SUBSET Labels
    BY DEF ListsInv
<1>1. CASE LoadImages
    <2>1. NewListCall("load", "none", {}, {}) \in ListCall
        BY <1>0, NewListCallOK
    <2>2. ~IsDeletion(NewListCall("load", "none", {}, {}))
        BY DEF IsDeletion, NewListCall
    <2>3. NewListCall("load", "none", {}, {}).op = "load"
        BY DEF NewListCall
    <2> QED BY <1>0, <1>1, <2>1, <2>2, <2>3, ListAskInv DEF LoadImages, tagVars, ListsTypeOK
<1>2. CASE SetListFilter
    <2> DEFINE call == [NewListCall("load", "none", {}, {}) EXCEPT !.narrow = narrowed']
    <2>1. narrowed' \in BOOLEAN /\ selectedTags' \subseteq Labels
        BY <1>0, <1>2 DEF SetListFilter, ListsTypeOK
    <2>2. NewListCall("load", "none", {}, {}) \in ListCall
        BY <1>0, NewListCallOK
    <2>3. call \in ListCall
        BY <2>1, <2>2 DEF ListCall
    <2>4. ~IsDeletion(call) /\ call.op = "load"
        BY DEF IsDeletion, NewListCall
    <2> QED BY <1>2, <2>1, <2>3, <2>4, ListAskInv DEF SetListFilter
<1>3. CASE TogglePaths
    <2>1. selectedPaths' \subseteq entries
        BY <1>0, <1>3 DEF TogglePaths, Checkboxes, Filtered, EntriesListed
    <2> QED BY <1>0, <1>3, <2>1, ListUseInv DEF TogglePaths, tagVars, confirmVars, detailVars, ListsTypeOK
<1>4. CASE ClearSelection
    BY <1>0, <1>4, ListUseInv DEF ClearSelection, tagVars, confirmVars, detailVars, ListsTypeOK
<1>5. ASSUME NEW mode \in Modes, NEW target \in SUBSET Entries, OpenDelete(mode, target)
      PROVE  ListsInv'
    BY <1>0, <1>5, ListUseInv DEF OpenDelete, tagVars, detailVars, ListsTypeOK, EntriesListed
<1>6. CASE OpenImageDelete
    <2>1. deleteTarget \in SUBSET Entries /\ \A e \in Filtered : {e} \in SUBSET Entries
        BY <1>0 DEF ListsTypeOK, Filtered
    <2> QED BY <1>5, <1>6, <2>1 DEF OpenImageDelete, OpenOne
<1>7. CASE OpenLogDelete
    <2>1. entries \cap selectedPaths \in SUBSET Entries /\ \A e \in entries : {e} \in SUBSET Entries
        BY <1>0 DEF ListsTypeOK
    <2> QED BY <1>5, <1>7, <2>1 DEF OpenLogDelete
<1>8. CASE CloseDelete
    <2>1. deleteMode' \in Modes /\ deleteTarget' \subseteq Entries /\ closings' \in Nat
        BY <1>0, <1>8 DEF CloseDelete, CloseDialog, ListsTypeOK
    <2> QED BY <1>0, <1>8, <2>1, ListUseInv DEF CloseDelete, CloseDialog, tagVars, detailVars,
            ListsTypeOK, EntriesListed
<1>9. ASSUME NEW es \in SUBSET Entries, Confirm(es)
      PROVE  ListsInv'
    <2> DEFINE call == NewListCall("delete", deleteMode, es, {})
    <2>1. call \in ListCall
        BY <1>0, NewListCallOK DEF ListsTypeOK
    <2>2. IsDeletion(call)
        BY DEF IsDeletion, NewListCall
    <2> QED BY <1>0, <1>9, <2>1, <2>2, ListAskInv DEF Confirm, MayConfirm, tagVars, ListsTypeOK
<1>10. CASE HandleDelete1 \/ ConfirmDelete \/ DeleteByDate \/ ConfirmLogs
    <2>1. {deleteTarget, selectedPaths, {}} \subseteq SUBSET Entries
        BY <1>0 DEF ListsTypeOK
    <2> QED BY <1>9, <1>10, <2>1 DEF HandleDelete1, ConfirmDelete, DeleteByDate, ConfirmLogs
<1>11. ASSUME NEW open \in BOOLEAN, NEW log \in Entries \cup {NoEntry}, Details(open, log)
       PROVE  ListsInv'
    BY <1>0, <1>11, ListUseInv DEF Details, tagVars, ListsTypeOK, EntriesListed
<1>12. CASE OpenLogDetail \/ CloseLogDetail \/ OpenLogImage
    <2>1. detailLog \in Entries \cup {NoEntry} /\ entries \subseteq Entries \cup {NoEntry}
        BY <1>0 DEF ListsTypeOK
    <2> QED BY <1>11, <1>12, <2>1 DEF OpenLogDetail, CloseLogDetail, OpenLogImage
<1>13. ASSUME NEW op \in ListOps \ {"load", "delete"}, NEW flag \in SUBSET ListOps,
              NEW es \in SUBSET Entries, NEW labels \in SUBSET Labels,
              flag \cap {"load", "delete"} = {},
              AskImages(flag, NewListCall(op, "none", es, labels))
       PROVE  ListsInv'
    <2>1. NewListCall(op, "none", es, labels) \in ListCall
        BY <1>0, NewListCallOK
    <2>2. ~IsDeletion(NewListCall(op, "none", es, labels))
        BY DEF IsDeletion, NewListCall
    <2> QED BY <1>0, <1>13, <2>1, <2>2, ListAskInv DEF AskImages, ListsTypeOK
<1>14. CASE HandleSetTags
    <2>1. PICK e \in Filtered, t \in Labels : SetTags(e, ChangedTags(e, t))
        BY <1>14 DEF HandleSetTags
    <2>2. {e} \in SUBSET Entries /\ ChangedTags(e, t) \in SUBSET Labels
        BY <1>0 DEF Filtered, ListsTypeOK, ChangedTags, Tagging
    <2> QED BY <1>13, <2>1, <2>2 DEF SetTags
<1>15. CASE HandleDeleteTag
    <2>1. \A t \in allTags : {t} \in SUBSET Labels
        BY <1>0 DEF ListsTypeOK
    <2> QED BY <1>0, <1>13, <1>15, <2>1 DEF HandleDeleteTag
<1>16. CASE ToggleFilterTag
    <2>1. selectedTags' \subseteq Labels
        BY <1>0, <1>16 DEF ToggleFilterTag, ListsTypeOK
    <2> QED BY <1>0, <1>16, <2>1, ListUseInv DEF ToggleFilterTag, confirmVars, detailVars, ListsTypeOK,
            EntriesListed
<1>17. CASE BatchDownload
    <2>1. selectedPaths \in SUBSET Entries
        BY <1>0 DEF ListsTypeOK
    <2> QED BY <1>0, <1>13, <1>17, <2>1 DEF BatchDownload
<1>18. CASE StorageButtons
    BY <1>0, <1>13, <1>18 DEF StorageButtons
<1> QED BY <1>1, <1>2, <1>3, <1>4, <1>6, <1>7, <1>8, <1>10, <1>12, <1>14, <1>15, <1>16, <1>17, <1>18
        DEF ListsUser

(***************************************************************************)
(* Handlers that go on.                                                    *)
(***************************************************************************)
LEMMA ReloadOK ==
    ASSUME ListsTypeOK, NEW c \in listCalls
    PROVE  \E d \in ListCall : /\ Reload(c) = {d} /\ d.op = "load" /\ d.mode = c.mode
                               /\ [d EXCEPT !.mode = "none"] \in ListCall
                               /\ [d EXCEPT !.op = "storage"] \in ListCall
<1>1. c \in ListCall
    BY DEF ListsTypeOK
<1>2. NewListCall("load", c.mode, {}, {}) \in ListCall
    BY <1>1, NewListCallOK DEF ListCall, ListOps
<1> DEFINE d == [NewListCall("load", c.mode, {}, {}) EXCEPT !.n = c.n, !.narrow = c.narrow]
<1>3. d \in ListCall /\ d.op = "load" /\ d.mode = c.mode
    BY <1>1, <1>2 DEF ListCall, NewListCall
<1>4. [d EXCEPT !.mode = "none"] \in ListCall /\ [d EXCEPT !.op = "storage"] \in ListCall
    BY <1>3 DEF ListCall, Modes, ListOps
<1> QED BY <1>3, <1>4 DEF Reload

\* A handler that goes on keeps the types and the selection when what it
\* shows, selects and asks for is in order.
LEMMA ListAnswerInv ==
    ASSUME ListsInv, NEW c \in listCalls, NEW more \in SUBSET ListCall, ListAnswer(c, more),
           entries' \subseteq Entries, selectedPaths' \subseteq entries',
           entryTags' \in Tagging, allTags' \subseteq Labels, selectedTags' \subseteq Labels,
           listFlags' \subseteq ListOps, deleteMode' \in Modes, deleteTarget' \subseteq Entries,
           closings' \in Nat, detailLog' \in Entries \cup {NoEntry}, detailOpen' \in BOOLEAN,
           OneDeletion'
    PROVE  ListsInv'
<1>1. ListsTypeOK'
    BY DEF ListsInv, ListsTypeOK, ListAnswer, storedVars
<1> QED BY <1>1 DEF ListsInv, EntriesListed

LEMMA ListsAnsweredInv ==
    ASSUME ListsInv, ListsAnswered
    PROVE  ListsInv'
<1>0. ListsTypeOK /\ EntriesListed /\ OneDeletion
    BY DEF ListsInv
<1>c. PICK c \in listCalls :
        \/ ImagesLoaded(c) \/ LogsLoaded(c) \/ ImageDeleted(c) \/ SelectedDeleted(c)
        \/ DatesDeleted(c) \/ LogsDeleted(c) \/ TagsSet(c) \/ AllTagsLoaded(c)
        \/ TagDeleted(c) \/ DiskChanged(c) \/ ShownOnly(c)
    BY DEF ListsAnswered
<1>t. c \in ListCall
    BY <1>0 DEF ListsTypeOK
<1>1. CASE ImagesLoaded(c) \/ LogsLoaded(c)
    <2>1. c.op = "load" /\ ListAnswer(c, {})
        BY <1>1 DEF ImagesLoaded, LogsLoaded
    <2>2. listFlags' = listFlags \ (IF c.mode = "none" THEN {"load"} ELSE {"load", "delete"})
        BY <1>1 DEF ImagesLoaded, LogsLoaded
    <2>3. OneDeletion'
        BY <1>0, <2>1, <2>2, HandlerEnds DEF ListAnswer, IsDeletion
    <2>4. c.items \subseteq Entries /\ c.tags \in Tagging
        BY <1>t DEF ListCall
    <2>5. entries' \subseteq Entries /\ selectedPaths' \subseteq entries'
        BY <1>0, <1>1, <2>4 DEF ImagesLoaded, LogsLoaded, ShowEntries, ListsTypeOK, EntriesListed
    <2>6. entryTags' \in Tagging /\ allTags' \subseteq Labels /\ selectedTags' \subseteq Labels
        BY <1>0, <1>1, <2>4, LabelsOfOK DEF ImagesLoaded, LogsLoaded, ListsTypeOK, tagVars
    <2>7. UNCHANGED confirmVars
        BY <1>1 DEF ImagesLoaded, LogsLoaded
    <2> QED BY <1>0, <2>1, <2>2, <2>3, <2>5, <2>6, <2>7, ListAnswerInv DEF ListsTypeOK, confirmVars, detailVars
<1>2. CASE ImageDeleted(c)
    <2>1. OneDeletion'
        BY <1>0, <1>2, HandlerEnds DEF ImageDeleted, ListAnswer, IsDeletion
    <2>2. entries' \subseteq Entries /\ selectedPaths' \subseteq entries'
        BY <1>0, <1>2 DEF ImageDeleted, ListsTypeOK, EntriesListed
    <2>3. deleteMode' \in Modes /\ closings' \in Nat /\ listFlags' \subseteq ListOps
        BY <1>0, <1>2 DEF ImageDeleted, CloseDialog, ListsTypeOK, Modes
    <2> QED BY <1>0, <1>2, <2>1, <2>2, <2>3, ListAnswerInv
            DEF ImageDeleted, CloseDialog, ListsTypeOK, tagVars, detailVars
<1>3. CASE SelectedDeleted(c)
    <2>1. PICK d \in ListCall : Reload(c) = {d} /\ d.op = "load" /\ d.mode = c.mode
        BY <1>0, ReloadOK
    <2>2. IsDeletion(c) /\ IsDeletion(d)
        BY <1>3, <2>1 DEF SelectedDeleted, IsDeletion
    <2>3. OneDeletion'
        <3>1. CASE Came(c)
            BY <1>0, <1>3, <2>1, <2>2, <3>1, DeletionReloads DEF SelectedDeleted, ListAnswer
        <3>2. CASE ~Came(c)
            <4>1. listCalls' = (listCalls \ {c}) \cup {} /\ listFlags' = listFlags \ {"delete"} /\ c.op = "delete"
                BY <1>3, <3>2 DEF SelectedDeleted, ListAnswer
            <4> QED BY <1>0, <2>2, <4>1, HandlerEnds
        <3> QED BY <3>1, <3>2
    <2>4. selectedPaths' \subseteq entries' /\ listFlags' \subseteq ListOps /\ deleteMode' \in Modes
        BY <1>0, <1>3 DEF SelectedDeleted, ListsTypeOK, ListOps, Modes, EntriesListed
    <2> QED BY <1>0, <1>3, <2>1, <2>3, <2>4, ListAnswerInv
            DEF SelectedDeleted, ListsTypeOK, tagVars, detailVars
<1>4. CASE DatesDeleted(c)
    <2>1. PICK d \in ListCall : /\ Reload(c) = {d} /\ d.op = "load"
                                /\ [d EXCEPT !.mode = "none"] \in ListCall
                                /\ [d EXCEPT !.op = "storage"] \in ListCall
        BY <1>0, ReloadOK
    <2> DEFINE loads == [d EXCEPT !.mode = "none"]
               shows == [d EXCEPT !.op = "storage"]
               more == IF Came(c) THEN {loads, shows} ELSE {}
    <2>2. loads.op = "load" /\ loads.mode = "none" /\ shows.op = "storage"
        BY <2>1 DEF ListCall
    <2>3. ListAnswer(c, more)
        BY <1>4, <2>1 DEF DatesDeleted
    <2>4. OneDeletion'
        <3>1. IsDeletion(c) /\ \A x \in more : ~IsDeletion(x)
            BY <1>4, <2>2 DEF DatesDeleted, IsDeletion
        <3>2. "delete" \notin listFlags' /\ ("load" \in listFlags' => "load" \in listFlags \/ Came(c))
            BY <1>4 DEF DatesDeleted
        <3>3. listCalls' = (listCalls \ {c}) \cup more /\ c.op = "delete"
            BY <1>4, <2>3 DEF DatesDeleted, ListAnswer
        <3>4. Came(c) => loads \in more
            OBVIOUS
        <3> HIDE DEF more, loads, shows
        <3> QED BY <1>0, <2>2, <3>1, <3>2, <3>3, <3>4, HandlerGoesOn
    <2>5. listFlags' \subseteq ListOps /\ deleteMode' \in Modes /\ more \in SUBSET ListCall
        BY <1>0, <1>4, <2>1 DEF DatesDeleted, ListsTypeOK, ListOps, Modes
    <2> HIDE DEF more
    <2> QED BY <1>0, <1>4, <2>3, <2>4, <2>5, ListAnswerInv
            DEF DatesDeleted, ListsTypeOK, EntriesListed, tagVars, detailVars
<1>5. CASE LogsDeleted(c)
    <2>1. PICK d \in ListCall : Reload(c) = {d} /\ d.op = "load" /\ d.mode = c.mode
        BY <1>0, ReloadOK
    <2>2. IsDeletion(c) /\ IsDeletion(d)
        BY <1>5, <2>1 DEF LogsDeleted, IsDeletion
    <2>3. OneDeletion'
        <3>1. CASE Came(c)
            BY <1>0, <1>5, <2>1, <2>2, <3>1, DeletionReloads DEF LogsDeleted, ListAnswer
        <3>2. CASE ~Came(c)
            <4>1. listCalls' = (listCalls \ {c}) \cup {} /\ listFlags' = listFlags \ {"delete"} /\ c.op = "delete"
                BY <1>5, <3>2 DEF LogsDeleted, ListAnswer
            <4> QED BY <1>0, <2>2, <4>1, HandlerEnds
        <3> QED BY <3>1, <3>2
    <2>4. selectedPaths' \subseteq entries' /\ listFlags' \subseteq ListOps /\ deleteMode' \in Modes
        BY <1>0, <1>5 DEF LogsDeleted, ListsTypeOK, ListOps, Modes, EntriesListed
    <2>5. deleteTarget' \subseteq Entries /\ detailLog' \in Entries \cup {NoEntry} /\ detailOpen' \in BOOLEAN
        BY <1>0, <1>5 DEF LogsDeleted, ListsTypeOK, detailVars
    <2> QED BY <1>0, <1>5, <2>1, <2>3, <2>4, <2>5, ListAnswerInv DEF LogsDeleted, ListsTypeOK, tagVars
<1>6. ASSUME NEW more \in SUBSET ListCall, ListAnswer(c, more), ~IsDeletion(c), c.op # "load",
             \A d \in more : ~IsDeletion(d),
             "delete" \in listFlags' <=> "delete" \in listFlags,
             "load" \in listFlags' => "load" \in listFlags,
             listFlags' \subseteq ListOps, UNCHANGED <<entries, selectedPaths, confirmVars>>,
             entryTags' \in Tagging, allTags' \subseteq Labels, selectedTags' \subseteq Labels
      PROVE  ListsInv'
    <2>1. OneDeletion'
        BY <1>0, <1>6, HandlerGoesOn DEF ListAnswer
    <2> QED BY <1>0, <1>6, <2>1, ListAnswerInv DEF ListsTypeOK, EntriesListed, confirmVars, detailVars
<1>7. CASE TagsSet(c)
    <2> DEFINE d == [c EXCEPT !.op = "allTags", !.state = "sent"]
               more == IF Came(c) THEN {d} ELSE {}
    <2>1. d \in ListCall /\ ~IsDeletion(d) /\ ~IsDeletion(c) /\ c.op # "load"
        BY <1>7, <1>t DEF ListCall, ListOps, IsDeletion, TagsSet
    <2>2. entryTags' \in Tagging
        BY <1>0, <1>7, <1>t DEF TagsSet, ListsTypeOK, ListCall, Tagging
    <2>3. more \in SUBSET ListCall /\ \A x \in more : ~IsDeletion(x)
        BY <2>1
    <2>4. ListAnswer(c, more)
        BY <1>7 DEF TagsSet
    <2> HIDE DEF more
    <2> QED BY <1>0, <1>6, <1>7, <2>1, <2>2, <2>3, <2>4 DEF TagsSet, ListsTypeOK
<1>8. CASE AllTagsLoaded(c)
    <2>1. ~IsDeletion(c) /\ c.op # "load" /\ allTags' \subseteq Labels
        BY <1>0, <1>8, <1>t, LabelsOfOK DEF AllTagsLoaded, IsDeletion, ListsTypeOK, ListCall
    <2> QED BY <1>0, <1>6, <1>8, <2>1 DEF AllTagsLoaded, ListsTypeOK
<1>9. CASE TagDeleted(c)
    <2>1. ~IsDeletion(c) /\ c.op # "load" /\ allTags' \subseteq Labels /\ selectedTags' \subseteq Labels
        BY <1>0, <1>9 DEF TagDeleted, IsDeletion, ListsTypeOK, tagVars
    <2>2. entryTags' \in Tagging
        BY <1>0, <1>9 DEF TagDeleted, ListsTypeOK, Tagging, tagVars
    <2> QED BY <1>0, <1>6, <1>9, <2>1, <2>2 DEF TagDeleted, ListsTypeOK
<1>10. CASE DiskChanged(c)
    <2> DEFINE d == [c EXCEPT !.op = "storage", !.state = "sent"]
               more == IF Came(c) THEN {d} ELSE {}
    <2>1. d \in ListCall /\ ~IsDeletion(d) /\ ~IsDeletion(c) /\ c.op # "load"
        BY <1>10, <1>t DEF ListCall, ListOps, IsDeletion, DiskChanged
    <2>2. more \in SUBSET ListCall /\ \A x \in more : ~IsDeletion(x)
        BY <2>1
    <2>3. ListAnswer(c, more) /\ listFlags' \subseteq ListOps
        BY <1>0, <1>10 DEF DiskChanged, ListsTypeOK, ListOps
    <2>4. /\ "delete" \in listFlags' <=> "delete" \in listFlags
          /\ "load" \in listFlags' <=> "load" \in listFlags
        BY <1>10 DEF DiskChanged
    <2> HIDE DEF more
    <2> QED BY <1>0, <1>6, <1>10, <2>1, <2>2, <2>3, <2>4 DEF DiskChanged, ListsTypeOK, tagVars
<1>11. CASE ShownOnly(c)
    <2>1. ~IsDeletion(c) /\ c.op # "load" /\ listFlags' \subseteq ListOps
        BY <1>0, <1>11 DEF ShownOnly, IsDeletion, ListsTypeOK
    <2>2. /\ "delete" \in listFlags' <=> "delete" \in listFlags
          /\ "load" \in listFlags' <=> "load" \in listFlags
        BY <1>11 DEF ShownOnly
    <2> QED BY <1>0, <1>6, <1>11, <2>1, <2>2 DEF ShownOnly, ListsTypeOK, tagVars
<1> QED BY <1>c, <1>1, <1>2, <1>3, <1>4, <1>5, <1>7, <1>8, <1>9, <1>10, <1>11

LEMMA ListsNextInv ==
    ASSUME ListsInv, [ListsNext]_managedVars
    PROVE  ListsInv'
<1>1. CASE EmptyTarget
    <2>1. ListsTypeOK'
        BY <1>1 DEF EmptyTarget, ListsInv, ListsTypeOK, storedVars, tagVars, detailVars
    <2>2. OneDeletion' /\ EntriesListed'
        BY <1>1 DEF EmptyTarget, ListsInv, OneDeletion, EntriesListed
    <2> QED BY <2>1, <2>2 DEF ListsInv
<1>2. CASE UNCHANGED managedVars
    <2>1. ListsTypeOK'
        BY <1>2 DEF managedVars, ListsInv, ListsTypeOK, storedVars, tagVars, confirmVars, detailVars
    <2>2. OneDeletion' /\ EntriesListed'
        BY <1>2 DEF managedVars, ListsInv, OneDeletion, EntriesListed
    <2> QED BY <2>1, <2>2 DEF ListsInv
<1> QED BY <1>1, <1>2, ListsUserInv, ListServiceInv, ListsAnsweredInv DEF ListsNext, ListsGoOn, ListsServed

(***************************************************************************)
(* The connections.  Every request has files of its own server only: one   *)
(* that browses is answered with them, and one that imports has those that *)
(* were browsed.                                                           *)
(***************************************************************************)
OwnFiles(c) == c \in ConnCall /\ c.files \subseteq {c.server} \X Names

ConnInv ==
    /\ ConnectionsTypeOK /\ \A c \in connCalls : OwnFiles(c)
    /\ browser.selected \subseteq browser.files /\ browser.files \subseteq {browser.server} \X Names

ConnTypes ==
    /\ variant \in {"cpa", "sub2api"} /\ settingsShown \in BOOLEAN
    /\ servers \in List /\ shownServers \in List /\ polling \in BOOLEAN
    /\ connFlags \subseteq {"load", "save", "import", "groups"}
    /\ {deletingId, loadingId} \subseteq Servers \cup {NoServer}
    /\ serverDialog \in [open : BOOLEAN, editing : Servers \cup {NoServer},
                         groups : Servers \cup {NoServer}]
    /\ browser \in [open : BOOLEAN, server : Servers \cup {NoServer},
                    files : SUBSET Files, selected : SUBSET Files]
    /\ connUse \in Nat /\ connFault \in Nat
BrowserOwn ==
    browser.selected \subseteq browser.files /\ browser.files \subseteq {browser.server} \X Names

LEMMA ConnParts == ConnInv <=> ConnTypes /\ BrowserOwn /\ \A c \in connCalls : OwnFiles(c)
BY DEF ConnInv, ConnectionsTypeOK, ConnTypes, BrowserOwn, OwnFiles

LEMMA ConnPartsNext == ConnInv' <=> ConnTypes' /\ BrowserOwn' /\ \A c \in connCalls' : OwnFiles(c)
BY DEF ConnInv, ConnectionsTypeOK, ConnTypes, BrowserOwn, OwnFiles

LEMMA ConnInvTells == ConnInv => ConnectionsTypeOK /\ ImportsOwnFiles
BY DEF ConnInv, ImportsOwnFiles, OwnFiles

LEMMA NewConnCallOwn ==
    ASSUME ConnInv, NEW op \in ConnOps, NEW s \in Servers \cup {NoServer}, NEW files \in SUBSET Files,
           NEW list \in List, files \subseteq {s} \X Names
    PROVE  OwnFiles(NewConnCall(op, s, files, list))
BY DEF OwnFiles, NewConnCall, ConnCall, ConnInv, ConnectionsTypeOK

LEMMA NoFilesOwn ==
    ASSUME ConnInv, NEW op \in ConnOps, NEW s \in Servers \cup {NoServer}
    PROVE  OwnFiles(NewConnCall(op, s, {}, NoList))
<1>1. {} \in SUBSET Files /\ NoList \in List /\ {} \subseteq {s} \X Names
    BY DEF NoList, List, JobStates
<1> QED BY <1>1, NewConnCallOwn

LEMMA ConnInitInv == ConnectionsInit => ConnInv
<1> SUFFICES ASSUME ConnectionsInit PROVE ConnInv
    OBVIOUS
<1> USE DEF ConnectionsInit
<1>1. PICK u \in ConnectionUses : connUse = u[1] /\ connFault = u[2]
    OBVIOUS
<1>2. connUse \in Nat /\ connFault \in Nat
    BY <1>1, ConnectionAssumption
<1>3. servers \in List /\ shownServers \in List
    BY ConnectionAssumption DEF List, JobStates, NoList
<1>4. ConnTypes /\ BrowserOwn
    BY <1>2, <1>3 DEF ConnTypes, BrowserOwn
<1>5. OwnFiles(NewConnCall("load", NoServer, {}, NoList))
    BY <1>2, <1>3 DEF OwnFiles, NewConnCall, ConnCall, ConnOps
<1> QED BY <1>4, <1>5, ConnParts

(***************************************************************************)
(* The service.                                                            *)
(***************************************************************************)
LEMMA RespondsInv ==
    ASSUME ConnInv, NEW c \in connCalls, NEW d, Respond(c, d), OwnFiles(d), ServiceOnly,
           servers' \in List, connFault' \in Nat
    PROVE  ConnInv'
<1>1. ConnTypes' /\ BrowserOwn'
    BY ConnParts DEF ConnTypes, BrowserOwn, ServiceOnly, pageVars, dialogsVars
<1>2. \A e \in connCalls' : OwnFiles(e)
    BY ConnParts DEF Respond
<1> QED BY <1>1, <1>2, ConnPartsNext

LEMMA AnsweredOwn ==
    ASSUME NEW c, OwnFiles(c), NEW st \in {"sent", "served", "failed"}, NEW list \in List
    PROVE  /\ OwnFiles([c EXCEPT !.state = st]) /\ OwnFiles([c EXCEPT !.state = st, !.list = list])
           /\ \A files \in SUBSET Files :
                files \subseteq {c.server} \X Names => OwnFiles([c EXCEPT !.state = st, !.files = files])
<1>1. OwnFiles([c EXCEPT !.state = st])
    BY DEF OwnFiles, ConnCall
<1>2. OwnFiles([c EXCEPT !.state = st, !.list = list])
    BY DEF OwnFiles, ConnCall
<1>3. ASSUME NEW files \in SUBSET Files, files \subseteq {c.server} \X Names
      PROVE  OwnFiles([c EXCEPT !.state = st, !.files = files])
    BY <1>3 DEF OwnFiles, ConnCall
<1> QED BY <1>1, <1>2, <1>3

LEMMA ServiceInv ==
    ASSUME ConnInv, NEW c \in connCalls,
           ListServed(c) \/ FilesServed(c) \/ ImportServed(c) \/ Refused(c) \/ ConnectionFails(c)
    PROVE  ConnInv'
<1>1. servers \in List /\ connFault \in Nat /\ OwnFiles(c) /\ c.server \in Servers \cup {NoServer}
    BY ConnParts DEF ConnTypes, OwnFiles, ConnCall
<1>2. \A s, st : st \in JobStates => [servers EXCEPT ![s] = st] \in List
    BY <1>1 DEF List
<1>3. "idle" \in JobStates /\ "absent" \in JobStates /\ "running" \in JobStates
    BY DEF JobStates
<1>4. CASE ListServed(c)
    <2>1. servers' \in List
        <3>1. /\ \A s : [servers EXCEPT ![s] = "idle"] \in List
              /\ \A s : [servers EXCEPT ![s] = "absent"] \in List
            BY <1>2, <1>3
        <3>2. \/ UNCHANGED servers
              \/ \E s \in Servers : servers' = [servers EXCEPT ![s] = "idle"]
              \/ servers' = [servers EXCEPT ![c.server] = "absent"]
            BY <1>4 DEF ListServed
        <3> QED BY <1>1, <3>1, <3>2
    <2>2. PICK list \in List : list = servers'
        BY <2>1
    <2>3. OwnFiles([c EXCEPT !.state = "served", !.list = list])
        BY <1>1, AnsweredOwn
    <2>4. Respond(c, [c EXCEPT !.state = "served", !.list = list]) /\ ServiceOnly /\ connFault' \in Nat
        BY <1>1, <1>4, <2>2 DEF ListServed, Respond
    <2> QED BY <2>1, <2>3, <2>4, RespondsInv
<1>5. CASE FilesServed(c)
    <2>1. /\ c.server \in Servers /\ ServiceOnly /\ UNCHANGED <<servers, connFault>>
          /\ \E ns \in (SUBSET Names) \ {{}} :
                Respond(c, [c EXCEPT !.state = "served", !.files =
                    IF c.op = "browse" THEN {c.server} \X ns ELSE {}])
        BY <1>5 DEF FilesServed, Present
    <2>2. PICK ns \in (SUBSET Names) \ {{}} :
                Respond(c, [c EXCEPT !.state = "served", !.files =
                    IF c.op = "browse" THEN {c.server} \X ns ELSE {}])
        BY <2>1
    <2>3. PICK files : files = IF c.op = "browse" THEN {c.server} \X ns ELSE {}
        OBVIOUS
    <2>4. files \in SUBSET Files /\ files \subseteq {c.server} \X Names
        BY <2>1, <2>3 DEF Files
    <2>5. Respond(c, [c EXCEPT !.state = "served", !.files = files])
        BY <2>2, <2>3
    <2>6. OwnFiles([c EXCEPT !.state = "served", !.files = files])
        BY <1>1, <2>4, AnsweredOwn
    <2> QED BY <1>1, <2>1, <2>5, <2>6, RespondsInv
<1>6. CASE ImportServed(c)
    <2>1. servers' \in List /\ ServiceOnly /\ connFault' \in Nat /\ Respond(c, [c EXCEPT !.state = "served"])
        BY <1>1, <1>2, <1>3, <1>6 DEF ImportServed
    <2>2. OwnFiles([c EXCEPT !.state = "served"])
        BY <1>1, AnsweredOwn
    <2> QED BY <2>1, <2>2, RespondsInv
<1>7. CASE Refused(c) \/ ConnectionFails(c)
    <2>1. servers' \in List /\ ServiceOnly /\ connFault' \in Nat /\ Respond(c, [c EXCEPT !.state = "failed"])
        BY <1>1, <1>7 DEF Refused, ConnectionFails
    <2>2. OwnFiles([c EXCEPT !.state = "failed"])
        BY <1>1, AnsweredOwn
    <2> QED BY <2>1, <2>2, RespondsInv
<1> QED BY <1>4, <1>5, <1>6, <1>7

LEMMA ImportEndsInv ==
    ASSUME ConnInv, NEW s \in Servers, ImportEnds(s)
    PROVE  ConnInv'
<1>1. servers' \in List
    BY ConnParts DEF ImportEnds, ConnTypes, List, JobStates
<1>2. ConnTypes' /\ BrowserOwn'
    BY <1>1, ConnParts DEF ImportEnds, ConnTypes, BrowserOwn, ServiceOnly, pageVars, dialogsVars
<1> QED BY <1>2, ConnParts, ConnPartsNext DEF ImportEnds

(***************************************************************************)
(* The page.                                                               *)
(***************************************************************************)
LEMMA PollsBoolean ==
    ASSUME settingsShown \in BOOLEAN
    PROVE  \A failed \in BOOLEAN : \A list : PollsFor(failed, list) \in BOOLEAN
BY DEF PollsFor

\* An answer that writes the list shown, or does not.
LEMMA ShownTyped ==
    ASSUME ConnInv, NEW c \in connCalls, NEW list \in List, ShowIf(c, list)
    PROVE  shownServers' \in List /\ polling' \in BOOLEAN
BY ConnParts, PollsBoolean DEF ShowIf, ShowServers, KeepServers, ConnTypes

LEMMA AnswerInv ==
    ASSUME ConnInv, NEW c \in connCalls, Answered(c), shownServers' \in List, polling' \in BOOLEAN,
           connFlags' \subseteq connFlags, {deletingId', loadingId'} \subseteq {deletingId, loadingId, NoServer},
           \/ UNCHANGED serverDialog \/ serverDialog' = [serverDialog EXCEPT !.groups = c.server]
           \/ serverDialog' = [serverDialog EXCEPT !.open = FALSE],
           \/ UNCHANGED browser \/ browser' = Browse(c) \/ browser' = [browser EXCEPT !.open = FALSE]
    PROVE  ConnInv'
<1>1. OwnFiles(c) /\ c.server \in Servers \cup {NoServer} /\ c.files \in SUBSET Files
    BY ConnParts DEF OwnFiles, ConnCall
<1>2. \A e \in connCalls' : OwnFiles(e)
    BY ConnParts DEF Answered
<1>3. browser' \in [open : BOOLEAN, server : Servers \cup {NoServer},
                    files : SUBSET Files, selected : SUBSET Files]
    <2> DEFINE Browsers == [open : BOOLEAN, server : Servers \cup {NoServer},
                            files : SUBSET Files, selected : SUBSET Files]
    <2>1. browser \in Browsers
        BY ConnParts DEF ConnTypes
    <2>2. [browser EXCEPT !.open = FALSE] \in Browsers
        BY <2>1
    <2>3. Browse(c) \in Browsers
        BY <1>1 DEF Browse
    <2> HIDE DEF Browsers
    <2>4. browser' \in Browsers
        BY <2>1, <2>2, <2>3
    <2> QED BY <2>4 DEF Browsers
<1>4. serverDialog' \in [open : BOOLEAN, editing : Servers \cup {NoServer},
                         groups : Servers \cup {NoServer}]
    BY <1>1, ConnParts DEF ConnTypes
<1>5. BrowserOwn'
    BY <1>1, ConnParts DEF ConnTypes, Browse, OwnFiles, BrowserOwn
<1>6. ConnTypes'
    BY <1>3, <1>4, ConnParts DEF ConnTypes, Answered
<1> QED BY <1>2, <1>5, <1>6, ConnPartsNext

LEMMA AnsweredInv ==
    ASSUME ConnInv, NEW c \in connCalls,
           \/ ServersLoaded(c) \/ Polled(c) \/ GroupsFetched(c) \/ PoolSaved(c) \/ PoolDeleted(c)
           \/ FilesBrowsed(c) \/ PoolImportStarted(c) \/ ServerImportStarted(c)
    PROVE  ConnInv'
<1> USE DEF dialogsVars, Lower
<1>1. c.list \in List /\ shownServers \in List /\ polling \in BOOLEAN /\ settingsShown \in BOOLEAN
    BY ConnParts DEF ConnTypes, OwnFiles, ConnCall
<1>2. \A list \in List : WithJob(list, c.server) \in List
    BY DEF WithJob, List, JobStates
<1>3. CASE ServersLoaded(c)
    BY <1>1, <1>3, ShownTyped, AnswerInv DEF ServersLoaded
<1>4. CASE Polled(c)
    <2>1. shownServers' \in List /\ polling' \in BOOLEAN
        BY <1>1, <1>4, PollsBoolean DEF Polled, ShowServers
    <2> QED BY <1>4, <2>1, AnswerInv DEF Polled
<1>5. CASE GroupsFetched(c)
    BY <1>1, <1>5, AnswerInv DEF GroupsFetched
<1>6. CASE PoolSaved(c)
    BY <1>1, <1>6, ShownTyped, AnswerInv DEF PoolSaved
<1>7. CASE PoolDeleted(c)
    BY <1>1, <1>7, ShownTyped, AnswerInv DEF PoolDeleted
<1>8. CASE FilesBrowsed(c)
    BY <1>1, <1>8, AnswerInv DEF FilesBrowsed
<1>9. CASE PoolImportStarted(c)
    BY <1>1, <1>2, <1>9, ShownTyped, AnswerInv DEF PoolImportStarted
<1>10. CASE ServerImportStarted(c)
    BY <1>1, <1>2, <1>10, ShownTyped, AnswerInv DEF ServerImportStarted
<1> QED BY <1>3, <1>4, <1>5, <1>6, <1>7, <1>8, <1>9, <1>10

\* What the user does leaves the service alone.
LEMMA UserSteps ==
    ASSUME ConnInv, Use, ConnTypes', BrowserOwn', \A c \in connCalls' : c \in connCalls \/ OwnFiles(c)
    PROVE  ConnInv'
BY ConnParts, ConnPartsNext

LEMMA ConnUserInv ==
    ASSUME ConnInv, ConnectionsUser
    PROVE  ConnInv'
<1> USE DEF dialogsVars, pageVars
<1>1. /\ ConnTypes /\ BrowserOwn /\ \A c \in connCalls : OwnFiles(c)
      /\ serverDialog.editing \in Servers \cup {NoServer} /\ browser.server \in Servers \cup {NoServer}
      /\ browser.selected \in SUBSET Files /\ browser.files \in SUBSET Files
    BY ConnParts DEF ConnTypes
<1>2. ASSUME Use PROVE UNCHANGED <<variant, servers, connFault>> /\ connUse' \in Nat
    BY <1>1, <1>2 DEF Use, ConnTypes
<1>3. \A s \in Servers \cup {NoServer}, op \in ConnOps : OwnFiles(NewConnCall(op, s, {}, NoList))
    BY NoFilesOwn
<1>4. CASE LeaveSettings
    BY <1>1, <1>2, <1>4, UserSteps DEF LeaveSettings, ConnTypes, BrowserOwn
<1>5. ASSUME NEW s \in Servers \cup {NoServer}, OpenDialogFor(s)
      PROVE  ConnInv'
    <2>1. serverDialog' \in [open : BOOLEAN, editing : Servers \cup {NoServer}, groups : Servers \cup {NoServer}]
        BY <1>5 DEF OpenDialogFor
    <2> QED BY <1>1, <1>2, <1>5, <2>1, UserSteps DEF OpenDialogFor, ConnTypes, BrowserOwn
<1>6. CASE SetDialogOpen
    <2>1. serverDialog' \in [open : BOOLEAN, editing : Servers \cup {NoServer}, groups : Servers \cup {NoServer}]
        BY <1>1, <1>6 DEF SetDialogOpen, ConnTypes
    <2> QED BY <1>1, <1>2, <1>6, <2>1, UserSteps DEF SetDialogOpen, ConnTypes, BrowserOwn
<1>7. CASE FetchGroups \/ SavePool
    <2>1. PICK op \in ConnOps : connCalls' = connCalls \cup {NewConnCall(op, serverDialog.editing, {}, NoList)}
        BY <1>7 DEF FetchGroups, SavePool, ConnOps
    <2>2. \A c \in connCalls' : c \in connCalls \/ OwnFiles(c)
        BY <1>1, <1>3, <2>1
    <2> QED BY <1>1, <1>2, <1>7, <2>2, UserSteps DEF FetchGroups, SavePool, ConnTypes, BrowserOwn
<1>8. CASE SelectFiles
    <2>1. PICK filtered \in FilteredFiles : browser' = [browser EXCEPT !.selected = ToggledFiles(@, filtered)]
        BY <1>8 DEF SelectFiles
    <2>2. PICK sel : sel = ToggledFiles(browser.selected, filtered)
        OBVIOUS
    <2>3. sel \subseteq browser.files /\ sel \in SUBSET Files
        BY <1>1, <2>2 DEF ToggledFiles, FilteredFiles, BrowserOwn
    <2>4. browser' = [browser EXCEPT !.selected = sel]
        BY <2>1, <2>2
    <2>5. BrowserOwn' /\ browser' \in [open : BOOLEAN, server : Servers \cup {NoServer},
                                       files : SUBSET Files, selected : SUBSET Files]
        BY <1>1, <2>3, <2>4 DEF BrowserOwn, ConnTypes
    <2> QED BY <1>1, <1>2, <1>8, <2>5, UserSteps DEF SelectFiles, ConnTypes
<1>9. CASE CloseBrowser
    <2>1. BrowserOwn' /\ browser' \in [open : BOOLEAN, server : Servers \cup {NoServer},
                                       files : SUBSET Files, selected : SUBSET Files]
        BY <1>1, <1>9 DEF CloseBrowser, BrowserOwn, ConnTypes
    <2> QED BY <1>1, <1>2, <1>9, <2>1, UserSteps DEF CloseBrowser, ConnTypes
<1>10. CASE StartImport
    <2>1. browser.selected \subseteq {browser.server} \X Names /\ shownServers \in List /\ "import" \in ConnOps
        BY <1>1 DEF BrowserOwn, ConnTypes, ConnOps
    <2>2. OwnFiles(NewConnCall("import", browser.server, browser.selected, shownServers))
        BY <1>1, <2>1, NewConnCallOwn
    <2>3. \A c \in connCalls' : c \in connCalls \/ OwnFiles(c)
        BY <1>10, <2>2 DEF StartImport
    <2> QED BY <1>1, <1>2, <1>10, <2>3, UserSteps DEF StartImport, ConnTypes, BrowserOwn
<1>11. ASSUME NEW s \in Servers, DeletePool(s) \/ BrowseFiles(s)
       PROVE  ConnInv'
    <2>1. PICK op \in ConnOps : connCalls' = connCalls \cup {NewConnCall(op, s, {}, NoList)}
        BY <1>11 DEF DeletePool, BrowseFiles, ConnOps
    <2>2. \A c \in connCalls' : c \in connCalls \/ OwnFiles(c)
        BY <1>1, <1>3, <2>1
    <2> QED BY <1>1, <1>2, <1>11, <2>2, UserSteps DEF DeletePool, BrowseFiles, ConnTypes, BrowserOwn
<1> QED BY <1>4, <1>5, <1>6, <1>7, <1>8, <1>9, <1>10, <1>11 DEF ConnectionsUser, OpenAddDialog, OpenServerDialog

LEMMA ConnNextInv == ConnInv /\ [ConnectionsNext]_connVars => ConnInv'
<1> SUFFICES ASSUME ConnInv, [ConnectionsNext]_connVars PROVE ConnInv'
    OBVIOUS
<1> USE DEF dialogsVars, pageVars
<1>1. CASE PollTick
    <2>1. PICK n \in {1, 2} :
            connCalls' = connCalls \cup {[NewConnCall("tick", NoServer, {}, NoList) EXCEPT !.n = n]}
        BY <1>1 DEF PollTick
    <2>2. OwnFiles(NewConnCall("tick", NoServer, {}, NoList))
        BY NoFilesOwn DEF ConnOps
    <2>3. OwnFiles([NewConnCall("tick", NoServer, {}, NoList) EXCEPT !.n = n])
        BY <2>2 DEF OwnFiles, ConnCall
    <2>4. ConnTypes' /\ BrowserOwn'
        BY <1>1, ConnParts DEF PollTick, ConnTypes, BrowserOwn
    <2> QED BY <2>1, <2>3, <2>4, ConnParts, ConnPartsNext
<1>2. CASE ReturnToSettings
    <2>1. OwnFiles(NewConnCall("load", NoServer, {}, NoList))
        BY NoFilesOwn DEF ConnOps
    <2>2. ConnTypes' /\ BrowserOwn'
        BY <1>2, ConnParts DEF ReturnToSettings, ConnTypes, BrowserOwn, Running
    <2> QED BY <1>2, <2>1, <2>2, ConnParts, ConnPartsNext DEF ReturnToSettings
<1>3. CASE UNCHANGED connVars
    BY <1>3, ConnParts, ConnPartsNext DEF connVars, ConnTypes, BrowserOwn
<1> QED BY <1>1, <1>2, <1>3, ConnUserInv, ServiceInv, AnsweredInv, ImportEndsInv
    DEF ConnectionsNext, ConnectionsGoOn, ConnectionsServed, ConnectionsAnswered

(***************************************************************************)
(* The session.  A call asks with a key, and writes a session that has the *)
(* role of its key.                                                        *)
(***************************************************************************)
Whole(s) == s \in Sessions /\ s = SessionOf(s.key)

JobInv(j) ==
    /\ j \in SessionJob
    /\ j.step \in {"ask", "repair", "writeKey", "writeSession"} => j.session.key \in AuthKeys
    /\ j.step \in {"writeKey", "writeSession"} => Whole(j.session)

SessionTypes ==
    /\ keyItem \in AuthKeys \cup {NoAuthKey} /\ sessionItem \in Sessions /\ refused \subseteq AuthKeys
    /\ tabPage \in [Tabs -> Pages] /\ isCheckingAuth \in [Tabs -> BOOLEAN]
    /\ session \in [Tabs -> Sessions] /\ navSession \in [Tabs -> Sessions]
    /\ sessionUse \in Nat
AllWhole ==
    /\ Whole(sessionItem)
    /\ \A t \in Tabs : Whole(session[t]) /\ Whole(navSession[t])

SessInv == SessionTypes /\ AllWhole /\ \A j \in sessionJobs : JobInv(j)

LEMMA SessInvTells == SessInv => SessionTypeOK /\ SessionIsWhole
BY DEF SessInv, SessionTypes, SessionTypeOK, AllWhole, SessionIsWhole, Whole, JobInv

LEMMA WholeSessions ==
    /\ Whole(NoSession)
    /\ \A k \in AuthKeys : RoleOf[k] \in {"admin", "user"} /\ Whole([key |-> k, role |-> RoleOf[k]])
    /\ \A s : Whole(s) /\ s # NoSession => s.key \in AuthKeys
    /\ \A k \in AuthKeys \cup {NoAuthKey} : Whole(SessionOf(k))
<1>1. Whole(NoSession)
    BY DEF Whole, NoSession, SessionOf, Sessions
<1>2. ASSUME NEW k \in AuthKeys
      PROVE  RoleOf[k] \in {"admin", "user"} /\ Whole([key |-> k, role |-> RoleOf[k]])
    BY SessionAssumption DEF Whole, SessionOf, Sessions
<1>3. ASSUME NEW s, Whole(s), s # NoSession
      PROVE  s.key \in AuthKeys
    BY <1>3 DEF Whole, SessionOf, Sessions
<1>4. ASSUME NEW k \in AuthKeys \cup {NoAuthKey}
      PROVE  Whole(SessionOf(k))
    BY <1>1, <1>2 DEF SessionOf
<1> QED BY <1>1, <1>2, <1>3, <1>4

LEMMA SessInitInv == SessionInit => SessInv
<1> SUFFICES ASSUME SessionInit PROVE SessInv
    OBVIOUS
<1>1. PICK first \in FirstSessions :
        /\ keyItem = first[1] /\ sessionItem = SessionOf(first[1])
        /\ tabPage = [t \in Tabs |-> IF t \in first[2] THEN "login" ELSE "closed"]
        /\ sessionUse = first[3]
    BY DEF SessionInit
<1>2. first[1] \in AuthKeys \cup {NoAuthKey} /\ first[3] \in Nat
    BY SessionAssumption
<1>3. Whole(sessionItem) /\ Whole(NoSession)
    BY <1>1, <1>2, WholeSessions
<1>4. AllWhole /\ \A j \in sessionJobs : JobInv(j)
    BY <1>3 DEF AllWhole, SessionInit
<1>5. SessionTypes
    BY <1>1, <1>2, <1>3 DEF SessionTypes, SessionInit, Whole, Pages
<1> QED BY <1>4, <1>5 DEF SessInv

\* A job that begins.
LEMMA NewJobInv ==
    ASSUME NEW t \in Tabs, NEW who \in Validations \cup {"login", "logout", "unauthorized"},
           NEW step \in Steps, NEW k \in AuthKeys \cup {NoAuthKey},
           step \notin {"repair", "writeKey", "writeSession"}, step = "ask" => k \in AuthKeys
    PROVE  JobInv(NewJob(t, who, step, k))
<1>1. [NoSession EXCEPT !.key = k] = [key |-> k, role |-> "none"]
    BY DEF NoSession
<1>2. [key |-> k, role |-> "none"] \in Sessions
    BY DEF Sessions
<1> QED BY <1>1, <1>2 DEF JobInv, NewJob, SessionJob

\* A job that goes on.
LEMMA NextJobInv ==
    ASSUME NEW j, JobInv(j), NEW step \in Steps, NEW k \in AuthKeys \cup {NoAuthKey}, NEW s \in Sessions,
           step \in {"ask", "repair", "writeKey", "writeSession"} => s.key \in AuthKeys,
           step \in {"writeKey", "writeSession"} => Whole(s)
    PROVE  JobInv([j EXCEPT !.step = step, !.read = k, !.session = s])
BY DEF JobInv, SessionJob

LEMMA LeftJobInv ==
    ASSUME NEW j, JobInv(j)
    PROVE  JobInv([j EXCEPT !.active = FALSE])
BY DEF JobInv, SessionJob

(***************************************************************************)
(* Pages.                                                                  *)
(***************************************************************************)
TabsInv(js) ==
    /\ tabPage \in [Tabs -> Pages] /\ isCheckingAuth \in [Tabs -> BOOLEAN]
    /\ session \in [Tabs -> Sessions] /\ navSession \in [Tabs -> Sessions]
    /\ \A t \in Tabs : Whole(session[t]) /\ Whole(navSession[t])
    /\ \A j \in js : JobInv(j)

LEMMA GotoInv ==
    ASSUME NEW js, TabsInv(js), NEW t \in Tabs, NEW p \in Pages, Goto(t, p, js)
    PROVE  TabsInv(sessionJobs)'
<1>1. /\ tabPage' \in [Tabs -> Pages] /\ isCheckingAuth' \in [Tabs -> BOOLEAN]
    BY DEF TabsInv, Goto
<1>2. NoSession \in Sessions /\ Whole(NoSession)
    BY WholeSessions DEF Whole
<1>3. session' \in [Tabs -> Sessions] /\ \A u \in Tabs : Whole(session'[u])
    BY <1>2 DEF TabsInv, Goto
<1>4. navSession' \in [Tabs -> Sessions] /\ \A u \in Tabs : Whole(navSession'[u])
    BY <1>2 DEF TabsInv, Goto
<1>5. \A j \in Opened(t, p) : JobInv(j)
    <2>1. \A who \in Validations : JobInv(NewJob(t, who, "readKey", NoAuthKey))
        BY NewJobInv DEF Steps
    <2> QED BY <2>1 DEF Opened, Validations
<1>6. \A j \in sessionJobs' : JobInv(j)
    <2>1. \A j \in js : JobInv(j) /\ JobInv([j EXCEPT !.active = FALSE])
        BY LeftJobInv DEF TabsInv
    <2> QED BY <1>5, <2>1 DEF Goto
<1> QED BY <1>1, <1>3, <1>4, <1>6 DEF TabsInv

LEMMA FinishesInv ==
    ASSUME TabsInv(sessionJobs), NEW j \in sessionJobs, NEW s, Whole(s), Finishes(j, s)
    PROVE  TabsInv(sessionJobs)'
<1>1. j.tab \in Tabs /\ s \in Sessions /\ JobInv(j) /\ Whole(NoSession) /\ NoSession \in Sessions
    BY WholeSessions DEF TabsInv, JobInv, SessionJob, Whole
<1>2. TabsInv(sessionJobs \ {j}) /\ TabsInv({o \in sessionJobs : o.tab # j.tab})
    BY DEF TabsInv
<1>3. DefaultPage(s) \in Pages /\ "login" \in Pages
    BY DEF DefaultPage, Pages
<1>4. \A p \in Pages : Goto(j.tab, p, sessionJobs \ {j}) => TabsInv(sessionJobs)'
    BY <1>1, <1>2, GotoInv
<1>5. CASE LeftEnds(j)
    BY <1>5 DEF LeftEnds, Ends, TabsInv, tabVars
<1>6. CASE NavEnds(j, s)
    BY <1>1, <1>6 DEF NavEnds, Ends, TabsInv
<1>7. CASE GuardEnds(j, s)
    <2>1. ASSUME isCheckingAuth' = [isCheckingAuth EXCEPT ![j.tab] = FALSE],
                 session' = [session EXCEPT ![j.tab] = s],
                 Ends(j) /\ UNCHANGED <<tabPage, navSession>>
          PROVE  TabsInv(sessionJobs)'
        BY <1>1, <2>1 DEF Ends, TabsInv
    <2> QED BY <1>3, <1>4, <1>7, <2>1 DEF GuardEnds
<1>8. CASE RedirectEnds(j, s)
    <2>1. ASSUME isCheckingAuth' = [isCheckingAuth EXCEPT ![j.tab] = FALSE],
                 Ends(j) /\ UNCHANGED <<tabPage, session, navSession>>
          PROVE  TabsInv(sessionJobs)'
        BY <1>1, <2>1 DEF Ends, TabsInv
    <2> QED BY <1>3, <1>4, <1>8, <2>1 DEF RedirectEnds
<1>9. CASE LoginEnds(j, s) \/ LogoutEnds(j)
    <2>1. PICK p \in Pages : GoesTo(j, p)
        BY <1>3, <1>9 DEF LoginEnds, LogoutEnds
    <2>2. ASSUME Ends(j), UNCHANGED tabVars
          PROVE  TabsInv(sessionJobs)'
        BY <2>2 DEF Ends, TabsInv, tabVars
    <2> QED BY <1>4, <2>1, <2>2 DEF GoesTo
<1>10. CASE UnauthorizedEnds(j)
    BY <1>1, <1>2, <1>3, <1>10, GotoInv DEF UnauthorizedEnds
<1> QED BY <1>5, <1>6, <1>7, <1>8, <1>9, <1>10 DEF Finishes

LEMMA SessParts == SessInv <=> /\ TabsInv(sessionJobs) /\ keyItem \in AuthKeys \cup {NoAuthKey}
                               /\ Whole(sessionItem) /\ refused \subseteq AuthKeys /\ sessionUse \in Nat
BY DEF SessInv, TabsInv, SessionTypes, AllWhole, Whole

LEMMA SessPartsNext == SessInv' <=> /\ TabsInv(sessionJobs)' /\ keyItem' \in AuthKeys \cup {NoAuthKey}
                                    /\ Whole(sessionItem') /\ refused' \subseteq AuthKeys /\ sessionUse' \in Nat
BY DEF SessInv, TabsInv, SessionTypes, AllWhole, Whole

LEMMA SameTabs ==
    ASSUME SessInv, UNCHANGED tabVars, \A j \in sessionJobs' : JobInv(j)
    PROVE  TabsInv(sessionJobs)'
BY SessParts DEF TabsInv, tabVars

LEMMA SessUserInv ==
    ASSUME SessInv, SessionUser
    PROVE  SessInv'
<1>1. /\ keyItem \in AuthKeys \cup {NoAuthKey} /\ Whole(sessionItem) /\ refused \subseteq AuthKeys
      /\ sessionUse \in Nat /\ TabsInv(sessionJobs) /\ \A j \in sessionJobs : JobInv(j)
    BY SessParts DEF TabsInv
<1>2. UseSession => sessionUse' \in Nat /\ UNCHANGED <<keyItem, sessionItem>>
    BY <1>1 DEF UseSession, authItems
<1>3. ASSUME NEW t \in Tabs, NEW p \in Pages, OpenTab(t, p)
      PROVE  SessInv'
    BY <1>1, <1>2, <1>3, GotoInv, SessPartsNext DEF OpenTab
<1>4. ASSUME NEW t \in Tabs, NEW k \in AuthKeys, HandleLogin(t, k)
      PROVE  SessInv'
    <2>1. JobInv(NewJob(t, "login", "ask", k))
        BY NewJobInv DEF Steps
    <2>2. \A j \in sessionJobs' : JobInv(j)
        BY <1>1, <1>4, <2>1 DEF HandleLogin
    <2>3. TabsInv(sessionJobs)'
        BY <1>4, <2>2, SameTabs DEF HandleLogin
    <2> QED BY <1>1, <1>2, <1>4, <2>3, SessPartsNext DEF HandleLogin
<1>5. ASSUME NEW t \in Tabs, HandleLogout(t) \/ Unauthorized(t)
      PROVE  SessInv'
    <2>1. JobInv(NewJob(t, "logout", "clearKey", NoAuthKey)) /\ JobInv(NewJob(t, "unauthorized", "clearKey", NoAuthKey))
        BY NewJobInv DEF Steps
    <2>2. \A j \in sessionJobs' : JobInv(j)
        BY <1>1, <1>5, <2>1 DEF HandleLogout, Unauthorized
    <2>3. TabsInv(sessionJobs)'
        BY <1>5, <2>2, SameTabs DEF HandleLogout, Unauthorized
    <2> QED BY <1>1, <1>2, <1>5, <2>3, SessPartsNext DEF HandleLogout, Unauthorized
<1>6. ASSUME NEW k \in AuthKeys, Revoke(k)
      PROVE  SessInv'
    <2>1. TabsInv(sessionJobs)'
        BY <1>1, <1>6, SameTabs DEF Revoke
    <2> QED BY <1>1, <1>2, <1>6, <2>1, SessPartsNext DEF Revoke
<1> QED BY <1>3, <1>4, <1>5, <1>6 DEF SessionUser

(***************************************************************************)
(* The calls.                                                              *)
(***************************************************************************)
LEMMA GoesInv ==
    ASSUME SessInv, NEW j \in sessionJobs, NEW d, Goes(j, d), JobInv(d), UNCHANGED tabVars
    PROVE  TabsInv(sessionJobs)'
<1>1. \A o \in sessionJobs' : JobInv(o)
    BY DEF Goes, SessInv
<1> QED BY <1>1, SameTabs

LEMMA JobStepInv ==
    ASSUME SessInv, NEW j \in sessionJobs,
           \/ ReadKey(j) \/ ReadSession(j) \/ RepairKey(j) \/ Accepted(j) \/ AskFails(j)
           \/ WriteKey(j) \/ WriteSession(j) \/ ClearKey(j) \/ ClearSession(j)
    PROVE  SessInv'
<1> USE DEF authItems
<1>1. /\ keyItem \in AuthKeys \cup {NoAuthKey} /\ Whole(sessionItem) /\ refused \subseteq AuthKeys
      /\ sessionUse \in Nat /\ TabsInv(sessionJobs) /\ JobInv(j)
    BY SessParts DEF TabsInv
<1>2. /\ j.session \in Sessions /\ j.read \in AuthKeys \cup {NoAuthKey} /\ sessionItem \in Sessions
      /\ NoSession \in Sessions /\ Whole(NoSession) /\ NoAuthKey \in AuthKeys \cup {NoAuthKey}
    BY <1>1, WholeSessions DEF JobInv, SessionJob, Whole
<1>3. /\ DOMAIN j = {"tab", "who", "step", "read", "session", "active"}
      /\ j = [tab |-> j.tab, who |-> j.who, step |-> j.step, read |-> j.read, session |-> j.session,
              active |-> j.active]
    BY <1>1 DEF JobInv, SessionJob
<1>4. CASE ReadKey(j)
    <2>1. Goes(j, [j EXCEPT !.step = "readSession", !.read = keyItem]) /\ UNCHANGED tabVars
        BY <1>4 DEF ReadKey, Stays
    <2>2. JobInv([j EXCEPT !.step = "readSession", !.read = keyItem])
        BY <1>1, <1>2 DEF JobInv, SessionJob, Steps
    <2>3. TabsInv(sessionJobs)'
        BY <2>1, <2>2, GoesInv
    <2> QED BY <1>1, <1>4, <2>3, SessPartsNext DEF ReadKey, Stays
<1>5. CASE ReadSession(j)
    <2>1. CASE sessionItem = NoSession /\ j.read = NoAuthKey
        <3>1. Finishes(j, NoSession) /\ UNCHANGED <<authItems, refused, sessionUse>>
            BY <1>5, <2>1 DEF ReadSession
        <3> QED BY <1>1, <1>2, <3>1, FinishesInv, SessPartsNext
    <2>2. CASE ~(sessionItem = NoSession /\ j.read = NoAuthKey)
        <3>1. PICK step \in {"clearKey", "ask", "repair"} :
                /\ step = IF sessionItem = NoSession THEN "clearKey"
                          ELSE IF j.read = sessionItem.key THEN "ask" ELSE "repair"
            OBVIOUS
        <3>2. /\ Goes(j, [j EXCEPT !.read = NoAuthKey, !.session = sessionItem, !.step = step])
              /\ UNCHANGED <<authItems, refused, sessionUse, tabVars>>
            BY <1>5, <2>2, <3>1 DEF ReadSession
        <3>3. step # "clearKey" => sessionItem.key \in AuthKeys
            BY <1>1, <3>1, WholeSessions
        <3>4. JobInv([j EXCEPT !.read = NoAuthKey, !.session = sessionItem, !.step = step])
            <4>1. PICK s \in Sessions : s = sessionItem
                BY <1>2
            <4>2. JobInv([j EXCEPT !.read = NoAuthKey, !.session = s, !.step = step])
                BY <1>1, <3>3, <4>1 DEF JobInv, SessionJob, Steps
            <4> QED BY <4>1, <4>2
        <3>5. TabsInv(sessionJobs)'
            BY <3>2, <3>4, GoesInv
        <3> QED BY <1>1, <3>2, <3>5, SessPartsNext
    <2> QED BY <2>1, <2>2
<1>6. CASE RepairKey(j)
    <2>1. Goes(j, [j EXCEPT !.step = "ask"]) /\ UNCHANGED tabVars /\ j.step = "repair"
        BY <1>6 DEF RepairKey, Stays, Runs
    <2>2. JobInv([j EXCEPT !.step = "ask"]) /\ j.session.key \in AuthKeys
        BY <1>1, <2>1 DEF JobInv, SessionJob, Steps
    <2>3. TabsInv(sessionJobs)'
        BY <2>1, <2>2, GoesInv
    <2> QED BY <1>1, <1>6, <2>2, <2>3, SessPartsNext DEF RepairKey, Stays
<1>7. CASE Accepted(j)
    <2>1. /\ Goes(j, [j EXCEPT !.step = "writeKey", !.session.role = RoleOf[Asked(j)]])
          /\ UNCHANGED tabVars /\ j.step = "ask"
        BY <1>7 DEF Accepted, Stays, Runs
    <2>2. PICK k \in AuthKeys : k = j.session.key
        BY <1>1, <2>1 DEF JobInv
    <2>3. PICK s : s = [j.session EXCEPT !.role = RoleOf[k]]
        OBVIOUS
    <2>4. s = [key |-> k, role |-> RoleOf[k]]
        BY <1>2, <2>2, <2>3 DEF Sessions
    <2>5. Whole(s) /\ s \in Sessions /\ s.key = k
        BY <2>4, WholeSessions DEF Whole
    <2>6. [j EXCEPT !.step = "writeKey", !.session.role = RoleOf[Asked(j)]]
              = [j EXCEPT !.step = "writeKey", !.session = s]
        BY <1>3, <2>2, <2>3 DEF Asked
    <2>7. JobInv([j EXCEPT !.step = "writeKey", !.session = s])
        BY <1>1, <2>5 DEF JobInv, SessionJob, Steps
    <2>8. TabsInv(sessionJobs)'
        BY <2>1, <2>6, <2>7, GoesInv
    <2> QED BY <1>1, <1>7, <2>8, SessPartsNext DEF Accepted, Stays
<1>8. CASE AskFails(j)
    <2>1. /\ sessionUse' \in Nat /\ UNCHANGED <<keyItem, sessionItem, refused, tabVars>>
          /\ \/ sessionJobs' = sessionJobs \ {j}
             \/ Goes(j, [j EXCEPT !.step = "clearKey", !.session = NoSession])
        BY <1>1, <1>8 DEF AskFails
    <2>2. JobInv([j EXCEPT !.step = "clearKey", !.session = NoSession])
        <3>1. PICK s \in Sessions : s = NoSession
            BY <1>2
        <3>2. JobInv([j EXCEPT !.step = "clearKey", !.session = s])
            BY <1>1 DEF JobInv, SessionJob, Steps
        <3> QED BY <3>1, <3>2
    <2>3. TabsInv(sessionJobs)'
        <3>1. CASE sessionJobs' = sessionJobs \ {j}
            BY <2>1, <3>1, SameTabs DEF SessInv
        <3>2. CASE Goes(j, [j EXCEPT !.step = "clearKey", !.session = NoSession])
            BY <2>1, <2>2, <3>2, GoesInv
        <3> QED BY <2>1, <3>1, <3>2
    <2> QED BY <1>1, <2>1, <2>3, SessPartsNext
<1>9. CASE WriteKey(j)
    <2>1. Goes(j, [j EXCEPT !.step = "writeSession"]) /\ UNCHANGED tabVars /\ j.step = "writeKey"
        BY <1>9 DEF WriteKey, Stays, Runs
    <2>2. JobInv([j EXCEPT !.step = "writeSession"]) /\ j.session.key \in AuthKeys
        BY <1>1, <2>1 DEF JobInv, SessionJob, Steps
    <2>3. TabsInv(sessionJobs)'
        BY <2>1, <2>2, GoesInv
    <2> QED BY <1>1, <1>9, <2>2, <2>3, SessPartsNext DEF WriteKey, Stays
<1>10. CASE WriteSession(j)
    <2>1. /\ Finishes(j, j.session) /\ j.step = "writeSession" /\ sessionItem' = j.session
          /\ UNCHANGED <<keyItem, refused, sessionUse>>
        BY <1>10 DEF WriteSession, Runs
    <2>2. Whole(j.session)
        BY <1>1, <2>1 DEF JobInv
    <2>3. TabsInv(sessionJobs)'
        BY <1>1, <2>1, <2>2, FinishesInv
    <2> QED BY <1>1, <2>1, <2>2, <2>3, SessPartsNext
<1>11. CASE ClearKey(j)
    <2>1. Goes(j, [j EXCEPT !.step = "clearSession"]) /\ UNCHANGED tabVars
        BY <1>11 DEF ClearKey, Stays
    <2>2. JobInv([j EXCEPT !.step = "clearSession"])
        BY <1>1 DEF JobInv, SessionJob, Steps
    <2>3. TabsInv(sessionJobs)'
        BY <2>1, <2>2, GoesInv
    <2> QED BY <1>1, <1>2, <1>11, <2>3, SessPartsNext DEF ClearKey, Stays
<1>12. CASE ClearSession(j)
    <2>1. /\ Finishes(j, NoSession) /\ sessionItem' = NoSession
          /\ UNCHANGED <<keyItem, refused, sessionUse>>
        BY <1>12 DEF ClearSession
    <2>2. TabsInv(sessionJobs)'
        BY <1>1, <1>2, <2>1, FinishesInv
    <2> QED BY <1>1, <1>2, <2>1, <2>2, SessPartsNext
<1> QED BY <1>4, <1>5, <1>6, <1>7, <1>8, <1>9, <1>10, <1>11, <1>12

LEMMA SessNextInv == SessInv /\ [SessionNext]_sessionVars => SessInv'
<1> SUFFICES ASSUME SessInv, [SessionNext]_sessionVars PROVE SessInv'
    OBVIOUS
<1>1. CASE UNCHANGED sessionVars
    BY <1>1, SessParts, SessPartsNext DEF sessionVars, authItems, tabVars, TabsInv
<1> QED BY <1>1, SessUserInv, JobStepInv DEF SessionNext, JobSteps

(***************************************************************************)
(* The keys of users.  A request is for a key, or of a kind of its own,    *)
(* and the mounted card has one of each.                                   *)
(***************************************************************************)
KeyCallOK(c) == c \in KeyCall /\ (c.key = NoKey <=> c.op \in {"load", "create"})
SameKeyCall(c, d) == c.here /\ d.here /\ c.key = d.key /\ (c.key # NoKey \/ c.op = d.op)

KeyTypes ==
    /\ userKeys \subseteq Keys /\ keyItems \subseteq Keys /\ pendingIds \subseteq Keys
    /\ keyFlags \subseteq {"load", "create"} /\ createDialog \in BOOLEAN
    /\ {deletingItem, editingItem} \subseteq Keys \cup {NoKey} /\ keyUse \in Nat
OneKeyCall ==
    /\ \A c \in keyCalls : KeyCallOK(c)
    /\ \A c, d \in keyCalls : SameKeyCall(c, d) => c = d
PendingTold ==
    /\ \A k \in Keys : k \in pendingIds <=> \E c \in keyCalls : c.here /\ c.key = k
    /\ \A op \in {"load", "create"} : op \in keyFlags <=> \E c \in keyCalls : c.here /\ c.op = op

KeysInv == KeyTypes /\ OneKeyCall /\ PendingTold

LEMMA KeysInvTells == KeysInv => UserKeysTypeOK /\ PendingTells
<1> SUFFICES ASSUME KeysInv PROVE UserKeysTypeOK /\ PendingTells
    OBVIOUS
<1>1. UserKeysTypeOK
    BY DEF KeysInv, KeyTypes, OneKeyCall, KeyCallOK, UserKeysTypeOK
<1> DEFINE own == {c \in keyCalls : c.here}
<1>2. ASSUME NEW k \in Keys
      PROVE  Cardinality({c \in own : c.key = k}) =< 1
    <2>1. k # NoKey
        BY KeyAssumption
    <2>2. \A x, y \in {c \in own : c.key = k} : x = y
        BY <2>1 DEF KeysInv, OneKeyCall, SameKeyCall
    <2> QED BY <2>2, AtMostOne
<1>3. /\ \A k \in Keys : k \in pendingIds <=> \E c \in own : c.key = k
      /\ \A op \in {"load", "create"} : op \in keyFlags <=> \E c \in own : c.op = op
    BY DEF KeysInv, PendingTold
<1> QED BY <1>1, <1>2, <1>3 DEF PendingTells

LEMMA NewKeyCallOK ==
    ASSUME KeysInv, NEW op \in KeyOps, NEW k \in Keys \cup {NoKey}, k = NoKey <=> op \in {"load", "create"}
    PROVE  KeyCallOK(NewKeyCall(op, k)) /\ NewKeyCall(op, k).key = k /\ NewKeyCall(op, k).op = op
           /\ NewKeyCall(op, k).here
BY DEF KeyCallOK, NewKeyCall, KeyCall, KeysInv, KeyTypes

LEMMA KeysInitInv == UserKeysInit => KeysInv
<1> SUFFICES ASSUME UserKeysInit PROVE KeysInv
    OBVIOUS
<1>1. KeyTypes
    BY KeyAssumption DEF UserKeysInit, KeyTypes
<1>2. KeyCallOK(NewKeyCall("load", NoKey)) /\ NewKeyCall("load", NoKey).key = NoKey
      /\ NewKeyCall("load", NoKey).op = "load" /\ NewKeyCall("load", NoKey).here
    BY <1>1 DEF KeyTypes, KeyCallOK, NewKeyCall, KeyCall, KeyOps
<1>3. keyCalls = {NewKeyCall("load", NoKey)}
    BY DEF UserKeysInit
<1>4. OneKeyCall
    BY <1>2, <1>3 DEF OneKeyCall
<1>5. PendingTold
    BY <1>2, <1>3, KeyAssumption DEF PendingTold, UserKeysInit
<1> QED BY <1>1, <1>4, <1>5 DEF KeysInv

LEMMA KeysMadeOK ==
    ASSUME KeysInv, NEW c \in keyCalls
    PROVE  KeysMade(c) \cup {userKeys} \subseteq SUBSET Keys
BY DEF KeysMade, KeysInv, KeyTypes

LEMMA KeyCallEndsInv ==
    ASSUME KeysInv, NEW c \in keyCalls, KeyCallEnds(c)
    PROVE  KeysInv'
<1>1. PICK made \in KeysMade(c) \cup {userKeys}, result \in {"served", "failed"} :
        /\ userKeys' = made
        /\ keyCalls' = (keyCalls \ {c}) \cup {[c EXCEPT !.state = result, !.items = made]}
    BY DEF KeyCallEnds
<1>2. made \in SUBSET Keys /\ KeyCallOK(c)
    BY KeysMadeOK DEF KeysInv, OneKeyCall
<1>3. PICK d : d = [c EXCEPT !.state = result, !.items = made]
    OBVIOUS
<1>4. KeyCallOK(d) /\ d.key = c.key /\ d.op = c.op /\ d.here = c.here
    BY <1>2, <1>3 DEF KeyCallOK, KeyCall
<1>5. keyCalls' = (keyCalls \ {c}) \cup {d}
    BY <1>1, <1>3
<1>6. UNCHANGED <<keyItems, keyFlags, pendingIds, createDialog, deletingItem, editingItem, keyUse>>
    BY DEF KeyCallEnds, keyDialogs
<1>7. KeyTypes'
    BY <1>1, <1>2, <1>6 DEF KeysInv, KeyTypes
<1>8. OneKeyCall'
    BY <1>4, <1>5 DEF KeysInv, OneKeyCall, SameKeyCall
<1>9. PendingTold'
    BY <1>4, <1>5, <1>6 DEF KeysInv, PendingTold
<1> QED BY <1>7, <1>8, <1>9 DEF KeysInv

LEMMA KeyAnsweredInv ==
    ASSUME KeysInv, NEW c \in keyCalls, KeysLoaded(c) \/ KeyCreated(c) \/ KeyChanged(c)
    PROVE  KeysInv'
<1>1. KeyCallOK(c) /\ c.items \in SUBSET Keys
    BY DEF KeysInv, OneKeyCall, KeyCallOK, KeyCall
<1>2. keyCalls' = keyCalls \ {c} /\ c.here /\ keyItems' \subseteq Keys /\ UNCHANGED <<userKeys, keyUse>>
    BY <1>1 DEF KeysLoaded, KeyCreated, KeyChanged, KeyAnswer, KeysInv, KeyTypes
<1>3. KeyTypes'
    BY <1>1, <1>2 DEF KeysLoaded, KeyCreated, KeyChanged, KeysInv, KeyTypes, SetNotPending, keyDialogs
<1>4. OneKeyCall'
    BY <1>2 DEF KeysInv, OneKeyCall
<1>5. CASE c.op \in {"load", "create"}
    <2>1. keyFlags' = keyFlags \ {c.op} /\ UNCHANGED pendingIds /\ c.key = NoKey
        BY <1>1, <1>5 DEF KeysLoaded, KeyCreated, KeyChanged, KeyCallOK
    <2>2. \A d \in keyCalls : d.here /\ d.op = c.op => d = c
        BY <1>2, <1>5, <2>1 DEF KeysInv, OneKeyCall, SameKeyCall, KeyCallOK
    <2>3. \A k \in Keys : k # c.key
        BY <2>1, KeyAssumption
    <2> QED BY <1>2, <1>3, <1>4, <1>5, <2>1, <2>2, <2>3 DEF KeysInv, PendingTold
<1>6. CASE c.op \notin {"load", "create"}
    <2>1. UNCHANGED keyFlags /\ pendingIds' = pendingIds \ {c.key} /\ c.key # NoKey
        BY <1>1, <1>6 DEF KeysLoaded, KeyCreated, KeyChanged, KeyCallOK, SetNotPending
    <2>2. \A d \in keyCalls : d.here /\ d.key = c.key => d = c
        BY <1>2, <2>1 DEF KeysInv, OneKeyCall, SameKeyCall
    <2> QED BY <1>2, <1>3, <1>4, <1>6, <2>1, <2>2 DEF KeysInv, PendingTold
<1> QED BY <1>5, <1>6

\* The answer to a card that is gone tells the one that is mounted nothing.
LEMMA AnsweredInVainInv ==
    ASSUME KeysInv, NEW c \in keyCalls, AnsweredInVain(c)
    PROVE  KeysInv'
<1>1. /\ ~c.here /\ keyCalls' = keyCalls \ {c}
      /\ UNCHANGED <<userKeys, keyItems, keyFlags, pendingIds, createDialog, deletingItem, editingItem, keyUse>>
    BY DEF AnsweredInVain, keyDialogs
<1>2. KeyTypes'
    BY <1>1 DEF KeysInv, KeyTypes
<1>3. OneKeyCall'
    BY <1>1 DEF KeysInv, OneKeyCall
<1>4. PendingTold'
    BY <1>1 DEF KeysInv, PendingTold
<1> QED BY <1>2, <1>3, <1>4 DEF KeysInv

\* A card that is mounted has only its load.
LEMMA RemountInv ==
    ASSUME KeysInv, RemountKeys
    PROVE  KeysInv'
<1>1. PICK d : d = NewKeyCall("load", NoKey)
    OBVIOUS
<1>2. KeyCallOK(d) /\ d.key = NoKey /\ d.op = "load" /\ d.here
    BY <1>1, NewKeyCallOK DEF KeyOps
<1>3. /\ keyCalls' = {[c EXCEPT !.here = FALSE] : c \in keyCalls} \cup {d}
      /\ keyItems' = {} /\ keyFlags' = {"load"} /\ pendingIds' = {}
      /\ createDialog' = FALSE /\ deletingItem' = NoKey /\ editingItem' = NoKey /\ userKeys' = userKeys
      /\ keyUse' = keyUse - 1 /\ keyUse > 0
    BY <1>1 DEF RemountKeys
<1>4. KeyTypes'
    <2>1. keyUse' \in Nat
        BY <1>3 DEF KeysInv, KeyTypes
    <2> QED BY <1>3, <2>1 DEF KeysInv, KeyTypes
<1>5. \A x \in keyCalls' : KeyCallOK(x) /\ (x.here => x = d)
    <2>1. \A c \in keyCalls : KeyCallOK([c EXCEPT !.here = FALSE]) /\ ~[c EXCEPT !.here = FALSE].here
        BY DEF KeysInv, OneKeyCall, KeyCallOK, KeyCall
    <2> QED BY <1>2, <1>3, <2>1
<1>6. OneKeyCall'
    BY <1>5 DEF OneKeyCall, SameKeyCall
<1>7. PendingTold'
    <2>1. d \in keyCalls'
        BY <1>3
    <2> QED BY <1>2, <1>3, <1>5, <2>1, KeyAssumption DEF PendingTold
<1> QED BY <1>4, <1>6, <1>7 DEF KeysInv

\* The user asks for nothing.
LEMMA KeysSameCalls ==
    ASSUME KeysInv, KeyTypes', UNCHANGED <<keyCalls, keyFlags, pendingIds>>
    PROVE  KeysInv'
BY DEF KeysInv, OneKeyCall, PendingTold

LEMMA AskKeyInv ==
    ASSUME KeysInv, NEW op \in {"toggle", "delete", "edit"}, NEW k \in Keys, k \notin pendingIds, AskKey(op, k)
    PROVE  KeysInv'
<1>1. PICK d : d = NewKeyCall(op, k)
    OBVIOUS
<1>2. KeyCallOK(d) /\ d.key = k /\ d.op = op /\ d.here /\ k # NoKey
    BY <1>1, KeyAssumption, NewKeyCallOK DEF KeyOps
<1>3. /\ keyCalls' = keyCalls \cup {d} /\ pendingIds' = pendingIds \cup {k}
      /\ UNCHANGED <<keyFlags, userKeys, keyItems, createDialog, deletingItem, editingItem>>
      /\ keyUse' \in Nat
    BY <1>1 DEF AskKey, UseKeys, KeysInv, KeyTypes, keyDialogs
<1>4. KeyTypes'
    BY <1>3 DEF KeysInv, KeyTypes
<1>5. \A c \in keyCalls : ~(c.here /\ c.key = k)
    BY DEF KeysInv, PendingTold
<1>6. OneKeyCall'
    BY <1>2, <1>3, <1>5 DEF KeysInv, OneKeyCall, SameKeyCall
<1>7. PendingTold'
    BY <1>2, <1>3 DEF KeysInv, PendingTold
<1> QED BY <1>4, <1>6, <1>7 DEF KeysInv

LEMMA HandleCreateInv ==
    ASSUME KeysInv, HandleCreate
    PROVE  KeysInv'
<1>1. PICK d : d = NewKeyCall("create", NoKey)
    OBVIOUS
<1>2. KeyCallOK(d) /\ d.key = NoKey /\ d.op = "create" /\ d.here
    BY <1>1, NewKeyCallOK DEF KeyOps
<1>3. /\ keyCalls' = keyCalls \cup {d} /\ keyFlags' = keyFlags \cup {"create"} /\ "create" \notin keyFlags
      /\ UNCHANGED <<pendingIds, userKeys, keyItems, createDialog, deletingItem, editingItem>>
      /\ keyUse' \in Nat
    BY <1>1 DEF HandleCreate, UseKeys, KeysInv, KeyTypes, keyDialogs
<1>4. KeyTypes'
    BY <1>3 DEF KeysInv, KeyTypes
<1>5. \A c \in keyCalls : ~(c.here /\ c.op = "create")
    BY <1>3 DEF KeysInv, PendingTold
<1>6. OneKeyCall'
    BY <1>2, <1>3, <1>5 DEF KeysInv, OneKeyCall, SameKeyCall
<1>7. PendingTold'
    BY <1>2, <1>3, KeyAssumption DEF KeysInv, PendingTold
<1> QED BY <1>4, <1>6, <1>7 DEF KeysInv

LEMMA KeysNextInv == KeysInv /\ [UserKeysNext]_keyVars => KeysInv'
<1> SUFFICES ASSUME KeysInv, [UserKeysNext]_keyVars PROVE KeysInv'
    OBVIOUS
<1> USE DEF keyDialogs
<1>1. KeyTypes
    BY DEF KeysInv
<1>2. UseKeys => keyUse' \in Nat /\ UNCHANGED <<userKeys, keyItems>>
    BY <1>1 DEF UseKeys, KeyTypes
<1>3. CASE OpenCreateDialog \/ CloseKeyDialogs
    BY <1>1, <1>2, <1>3, KeysSameCalls DEF OpenCreateDialog, CloseKeyDialogs, KeyTypes
<1>4. ASSUME NEW k \in Keys, OpenDeleteDialog(k) \/ OpenEditKey(k)
      PROVE  KeysInv'
    BY <1>1, <1>2, <1>4, KeysSameCalls DEF OpenDeleteDialog, OpenEditKey, KeyTypes
<1>5. ASSUME NEW k \in Keys, HandleToggle(k)
      PROVE  KeysInv'
    BY <1>5, AskKeyInv DEF HandleToggle, RowEnabled
<1>6. CASE HandleDelete
    BY <1>1, <1>6, AskKeyInv DEF HandleDelete, KeyTypes
<1>7. CASE HandleEdit
    <2>1. CASE editingItem # NoKey /\ editingItem \notin pendingIds /\ AskKey("edit", editingItem)
        BY <1>1, <2>1, AskKeyInv DEF KeyTypes
    <2>2. CASE /\ UseKeys /\ editingItem' = NoKey
               /\ UNCHANGED <<keyFlags, pendingIds, createDialog, deletingItem, keyCalls>>
        BY <1>1, <1>2, <2>2, KeysSameCalls DEF KeyTypes
    <2> QED BY <1>7, <2>1, <2>2 DEF HandleEdit
<1>8. CASE UNCHANGED keyVars
    BY <1>1, <1>8, KeysSameCalls DEF keyVars, KeyTypes
<1> QED BY <1>3, <1>4, <1>5, <1>6, <1>7, <1>8, HandleCreateInv, KeyCallEndsInv, KeyAnsweredInv,
            AnsweredInVainInv, RemountInv
    DEF UserKeysNext, UserKeysUser, UserKeysGoOn, UserKeysServed, UserKeysAnswered

(***************************************************************************)
(* The libraries.                                                          *)
(***************************************************************************)
LibraryTypes ==
    /\ library \in {"prompts", "materials"} /\ {libraryStored, libraryItems} \subseteq SUBSET LibraryItems
    /\ formId \in ItemOrNone /\ formFilled \in BOOLEAN /\ libraryFlags \subseteq {"load", "save"}
    /\ libraryUse \in Nat
OneSave ==
    /\ \A c \in libraryCalls : c \in LibraryCall
    /\ \A c, d \in libraryCalls : c.op = d.op /\ c.op # "remove" => c = d
SavesTold == \A op \in {"load", "save"} : op \in libraryFlags <=> \E c \in libraryCalls : c.op = op

LibraryInv == LibraryTypes /\ OneSave /\ SavesTold

LEMMA LibraryInvTells == LibraryInv => LibraryTypeOK /\ SavesTell
<1> SUFFICES ASSUME LibraryInv PROVE LibraryTypeOK /\ SavesTell
    OBVIOUS
<1>1. LibraryTypeOK
    BY DEF LibraryInv, LibraryTypes, OneSave, LibraryTypeOK
<1>2. Cardinality({c \in libraryCalls : c.op = "save"}) =< 1
    <2>1. \A x, y \in {c \in libraryCalls : c.op = "save"} : x = y
        BY DEF LibraryInv, OneSave
    <2> QED BY <2>1, AtMostOne
<1> QED BY <1>1, <1>2 DEF SavesTell, SavesTold, LibraryInv

LEMMA NewLibraryCallOK ==
    ASSUME LibraryTypes, NEW op \in {"load", "save", "remove"}, NEW i \in ItemOrNone
    PROVE  NewLibraryCall(op, i) \in LibraryCall /\ NewLibraryCall(op, i).op = op
BY DEF LibraryTypes, NewLibraryCall, LibraryCall

LEMMA LibraryInitInv == LibraryInit => LibraryInv
<1> SUFFICES ASSUME LibraryInit PROVE LibraryInv
    OBVIOUS
<1>1. LibraryTypes
    BY LibraryAssumption DEF LibraryInit, LibraryTypes, ItemOrNone
<1>2. NewLibraryCall("load", NoItem) \in LibraryCall /\ NewLibraryCall("load", NoItem).op = "load"
    BY <1>1, NewLibraryCallOK DEF ItemOrNone
<1>3. OneSave /\ SavesTold
    BY <1>2 DEF LibraryInit, OneSave, SavesTold
<1> QED BY <1>1, <1>3 DEF LibraryInv

LEMMA LibraryCallEndsInv ==
    ASSUME LibraryInv, NEW c \in libraryCalls, LibraryCallEnds(c)
    PROVE  LibraryInv'
<1>1. PICK kept \in Kept(c) \cup {libraryStored}, result \in {"served", "failed"} :
        /\ libraryStored' = kept
        /\ libraryCalls' = (libraryCalls \ {c}) \cup {[c EXCEPT !.state = result, !.items = kept]}
    BY DEF LibraryCallEnds
<1>2. kept \in SUBSET LibraryItems /\ c \in LibraryCall
    BY <1>1 DEF Kept, LibraryInv, LibraryTypes, OneSave
<1>3. PICK d : d = [c EXCEPT !.state = result, !.items = kept]
    OBVIOUS
<1>4. d \in LibraryCall /\ d.op = c.op
    BY <1>2, <1>3 DEF LibraryCall
<1>5. libraryCalls' = (libraryCalls \ {c}) \cup {d}
    BY <1>1, <1>3
<1>6. UNCHANGED <<library, libraryItems, formId, formFilled, libraryFlags, libraryUse>>
    BY DEF LibraryCallEnds, itemForm
<1>7. LibraryTypes'
    BY <1>1, <1>2, <1>6 DEF LibraryInv, LibraryTypes
<1>8. OneSave'
    BY <1>4, <1>5 DEF LibraryInv, OneSave
<1>9. SavesTold'
    BY <1>4, <1>5, <1>6 DEF LibraryInv, SavesTold
<1> QED BY <1>7, <1>8, <1>9 DEF LibraryInv

LEMMA LibraryAnsweredInv ==
    ASSUME LibraryInv, NEW c \in libraryCalls, ItemsLoaded(c) \/ ItemSaved(c) \/ ItemRemoved(c)
    PROVE  LibraryInv'
<1> USE DEF itemForm
<1>1. c \in LibraryCall /\ c.items \in SUBSET LibraryItems
    BY DEF LibraryInv, OneSave, LibraryCall
<1>2. /\ libraryCalls' = libraryCalls \ {c} /\ libraryItems' \in SUBSET LibraryItems
      /\ UNCHANGED <<library, libraryStored, libraryUse>>
    BY <1>1 DEF ItemsLoaded, ItemSaved, ItemRemoved, LibraryAnswer, LibraryInv, LibraryTypes
<1>3. formId' \in ItemOrNone /\ formFilled' \in BOOLEAN
    BY DEF ItemsLoaded, ItemSaved, ItemRemoved, ResetForm, ItemOrNone, LibraryInv, LibraryTypes
<1>4. libraryFlags' = IF c.op = "remove" THEN libraryFlags ELSE libraryFlags \ {c.op}
    BY DEF ItemsLoaded, ItemSaved, ItemRemoved
<1>5. LibraryTypes'
    BY <1>2, <1>3, <1>4 DEF LibraryInv, LibraryTypes
<1>6. OneSave'
    BY <1>2 DEF LibraryInv, OneSave
<1>7. SavesTold'
    BY <1>2, <1>4 DEF LibraryInv, SavesTold, OneSave
<1> QED BY <1>5, <1>6, <1>7 DEF LibraryInv

LEMMA LibrarySameCalls ==
    ASSUME LibraryInv, LibraryTypes', UNCHANGED <<libraryCalls, libraryFlags>>
    PROVE  LibraryInv'
BY DEF LibraryInv, OneSave, SavesTold

LEMMA LibraryUserInv ==
    ASSUME LibraryInv, LibraryUser
    PROVE  LibraryInv'
<1> USE DEF itemForm
<1>1. LibraryTypes
    BY DEF LibraryInv
<1>2. UseLibrary => libraryUse' \in Nat /\ UNCHANGED <<library, libraryStored, libraryItems>>
    BY <1>1 DEF UseLibrary, LibraryTypes
<1>3. CASE FillPrompt \/ PickMaterial \/ CancelForm
    BY <1>1, <1>2, <1>3, LibrarySameCalls
    DEF FillPrompt, PickMaterial, CancelForm, ResetForm, LibraryTypes, ItemOrNone
<1>4. ASSUME NEW i \in LibraryItems, EditPrompt(i) \/ EditMaterial(i)
      PROVE  LibraryInv'
    BY <1>1, <1>2, <1>4, LibrarySameCalls DEF EditPrompt, EditMaterial, OpenItem, LibraryTypes, ItemOrNone
<1>5. ASSUME NEW op \in {"save", "remove"}, NEW i \in ItemOrNone, AskLibrary(op, i),
             op = "save" => "save" \notin libraryFlags /\ libraryFlags' = libraryFlags \cup {"save"},
             op = "remove" => UNCHANGED libraryFlags
      PROVE  LibraryInv'
    <2>1. PICK d : d = NewLibraryCall(op, i)
        OBVIOUS
    <2>2. d \in LibraryCall /\ d.op = op
        BY <1>1, <2>1, NewLibraryCallOK
    <2>3. libraryCalls' = libraryCalls \cup {d} /\ UNCHANGED <<formId, formFilled>> /\ UseLibrary
        BY <1>5, <2>1 DEF AskLibrary
    <2>4. LibraryTypes'
        BY <1>1, <1>2, <1>5, <2>3 DEF LibraryTypes
    <2>5. OneSave'
        BY <1>5, <2>2, <2>3 DEF LibraryInv, OneSave, SavesTold
    <2>6. SavesTold'
        BY <1>5, <2>2, <2>3 DEF LibraryInv, SavesTold
    <2> QED BY <2>4, <2>5, <2>6 DEF LibraryInv
<1>6. CASE SavePrompt \/ SaveMaterial
    <2>1. SaveItem
        BY <1>6 DEF SavePrompt, SaveMaterial
    <2> QED BY <1>1, <1>5, <2>1 DEF SaveItem, CanSave, LibraryTypes
<1>7. ASSUME NEW i \in LibraryItems, RemoveItem(i)
      PROVE  LibraryInv'
    BY <1>5, <1>7 DEF RemoveItem, ItemOrNone
<1> QED BY <1>3, <1>4, <1>6, <1>7 DEF LibraryUser

LEMMA LibraryNextInv == LibraryInv /\ [LibraryNext]_libraryVars => LibraryInv'
<1> SUFFICES ASSUME LibraryInv, [LibraryNext]_libraryVars PROVE LibraryInv'
    OBVIOUS
<1>1. CASE UNCHANGED libraryVars
    BY <1>1, LibrarySameCalls DEF libraryVars, itemForm, LibraryInv, LibraryTypes
<1> QED BY <1>1, LibraryUserInv, LibraryCallEndsInv, LibraryAnsweredInv
    DEF LibraryNext, LibraryGoesOn, LibraryServed, LibraryAnswered

(***************************************************************************)
(* The pages together.  A step of a part leaves the invariant of that part *)
(* alone, and says nothing of the others, whose behaviours are others.     *)
(***************************************************************************)
PagesInv ==
    /\ part \in Parts
    /\ AccountsPart => AccountsInv
    /\ ConnectionsPart => ConnInv
    /\ RegisterPart => RegisterInv
    /\ FormPart => HandlersInv
    /\ KeysPart => KeysInv
    /\ ListsPart => ListsInv
    /\ LibraryPart => LibraryInv
    /\ SessionPart => SessInv
    /\ SchedulerPart => SchedulerInv

LEMMA PagesInitInv == PagesInit => PagesInv
<1> SUFFICES ASSUME PagesInit PROVE PagesInv
    OBVIOUS
<1>1. /\ AccountsInit /\ ConnectionsInit /\ RegisterInit /\ FormInit /\ UserKeysInit
      /\ ListsInit /\ LibraryInit /\ SessionInit /\ SchedulerInit /\ part \in Parts
    BY DEF PagesInit
<1> QED BY <1>1, AccountsInitInv, ConnInitInv, InitEstablishes, HandlersInitInv, KeysInitInv, ListsInitInv, LibraryInitInv, SessInitInv, SchedulerInitInv DEF PagesInv

LEMMA PagesNextInv == PagesInv /\ [PagesNext]_pagesVars => PagesInv'
<1> SUFFICES ASSUME PagesInv, [PagesNext]_pagesVars PROVE PagesInv'
    OBVIOUS
<1> USE DEF AccountsPart, ConnectionsPart, RegisterPart, FormPart, KeysPart,
            ListsPart, LibraryPart, SessionPart, SchedulerPart
<1>1. CASE AccountsPart /\ AccountsNext /\ NotAccounts
    <2>1. AccountsInv' /\ part' = "accounts"
        BY <1>1, AccountsNextInv DEF PagesInv, NotAccounts
    <2> QED BY <2>1 DEF PagesInv, Parts
<1>2. CASE ConnectionsPart /\ ConnectionsNext /\ NotConnections
    <2>1. ConnInv' /\ part' = "connections"
        BY <1>2, ConnNextInv DEF PagesInv, NotConnections
    <2> QED BY <2>1 DEF PagesInv, Parts
<1>3. CASE RegisterPart /\ RegisterNext /\ NotRegister
    <2>1. RegisterInv' /\ part' = "register"
        BY <1>3, NextKeeps DEF PagesInv, NotRegister
    <2> QED BY <2>1 DEF PagesInv, Parts
<1>4. CASE FormPart /\ FormNext /\ NotForm
    <2>1. HandlersInv' /\ part' = "forms"
        BY <1>4, HandlersNextInv DEF PagesInv, NotForm
    <2> QED BY <2>1 DEF PagesInv, Parts
<1>5. CASE KeysPart /\ UserKeysNext /\ NotKeys
    <2>1. KeysInv' /\ part' = "keys"
        BY <1>5, KeysNextInv DEF PagesInv, NotKeys
    <2> QED BY <2>1 DEF PagesInv, Parts
<1>6. CASE ListsPart /\ ListsNext /\ NotLists
    <2>1. ListsInv' /\ part' = "lists"
        BY <1>6, ListsNextInv DEF PagesInv, NotLists
    <2> QED BY <2>1 DEF PagesInv, Parts
<1>7. CASE LibraryPart /\ LibraryNext /\ NotLibrary
    <2>1. LibraryInv' /\ part' = "library"
        BY <1>7, LibraryNextInv DEF PagesInv, NotLibrary
    <2> QED BY <2>1 DEF PagesInv, Parts
<1>8. CASE SessionPart /\ SessionNext /\ NotSession
    <2>1. SessInv' /\ part' = "session"
        BY <1>8, SessNextInv DEF PagesInv, NotSession
    <2> QED BY <2>1 DEF PagesInv, Parts
<1>9. CASE SchedulerPart /\ SchedulerNext /\ NotScheduler
    <2>1. SchedulerInv' /\ part' = "scheduler"
        BY <1>9, SchedulerNextInv DEF PagesInv, NotScheduler
    <2> QED BY <2>1 DEF PagesInv, Parts
<1>10. CASE UNCHANGED pagesVars
    <2>1. /\ UNCHANGED part
          /\ UNCHANGED accountVars /\ UNCHANGED connVars /\ UNCHANGED registerVars /\ UNCHANGED formVarsAll
          /\ UNCHANGED keyVars /\ UNCHANGED managedVars /\ UNCHANGED libraryVars /\ UNCHANGED sessionVars
          /\ UNCHANGED schedulerVars
        BY <1>10 DEF pagesVars
    <2> QED BY <2>1, AccountsNextInv, ConnNextInv, NextKeeps, HandlersNextInv, KeysNextInv,
               ListsNextInv, LibraryNextInv, SessNextInv, SchedulerNextInv
            DEF PagesInv
<1> QED BY <1>1, <1>2, <1>3, <1>4, <1>5, <1>6, <1>7, <1>8, <1>9, <1>10 DEF PagesNext

\* What the invariant says of the properties.
LEMMA PagesInvTells ==
    ASSUME PagesInv
    PROVE  PagesTypeOK /\ SelectionsAreListed /\ PageFlagsTell /\ AnswersKeepTheirOwner
<1>1. AccountsInv => AccountsTypeOK /\ SelectionIsListed /\ AccountFlagsTell /\ DialogCoherent
    BY OneRequestTells DEF AccountsInv
<1>2. ConnInv => ConnectionsTypeOK /\ ImportsOwnFiles
    BY ConnInvTells
<1>3. RegisterInv => RegisterTypeOK
    BY DEF RegisterInv
<1>4. HandlersInv => FormTypeOK /\ FormFlagsTell
    BY HandlersInvTells
<1>5. KeysInv => UserKeysTypeOK /\ PendingTells
    BY KeysInvTells
<1>6. ListsInv => ListsTypeOK /\ EntriesListed /\ DeletingTells
    BY OneDeletionTells DEF ListsInv
<1>7. LibraryInv => LibraryTypeOK /\ SavesTell
    BY LibraryInvTells
<1>8. SessInv => SessionTypeOK /\ SessionIsWhole
    BY SessInvTells
<1>9. SchedulerInv => SchedulerTypeOK /\ OnHasScheduler /\ CountsOwnResults /\ TargetKept
    BY SchedulerInvTells
<1> QED BY <1>1, <1>2, <1>3, <1>4, <1>5, <1>6, <1>7, <1>8, <1>9
    DEF PagesInv, PagesTypeOK, SelectionsAreListed, PageFlagsTell, AnswersKeepTheirOwner

\* The invariant of the pages.
THEOREM PagesInvariant == PagesSpec => []PagesInv
<1> QED BY PagesInitInv, PagesNextInv, PTL DEF PagesSpec

\* The variables of every page keep their types, whatever the user does and
\* whatever order requests are answered in.
THEOREM PagesTypes == PagesSpec => []PagesTypeOK
<1> QED BY PagesInvariant, PagesInvTells, PTL

\* What is selected is of the list that is shown, whichever of the loads that
\* overlap put it there (selectedIds and selectedPaths of accounts/page.tsx,
\* image-manager/page.tsx and logs/page.tsx).
THEOREM SelectionsAreAlwaysListed == PagesSpec => []SelectionsAreListed
<1> QED BY PagesInvariant, PagesInvTells, PTL

\* While the page or card that keeps a flag is mounted, the flag is up exactly
\* while a handler that raised it there is under way, none of which runs twice;
\* one that the store keeps, across tabs and pages. A register that is on has a
\* thread.
THEOREM PageFlagsAlwaysTell == PagesSpec => []PageFlagsTell
<1> QED BY PagesInvariant, PagesInvTells, PTL

\* An answer is used for what it was asked for: the dialogs of the accounts, the
\* files of a server, the key and the role of a session, the results of a run.
THEOREM AnswersAlwaysKeepTheirOwner == PagesSpec => []AnswersKeepTheirOwner
<1> QED BY PagesInvariant, PagesInvTells, PTL
=============================================================================
