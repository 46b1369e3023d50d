------------------------------ MODULE UserKeys ------------------------------
(***************************************************************************)
(* The card of the settings page that lists the keys of users, makes and   *)
(* deletes them, and changes them                                          *)
(* (web/src/app/settings/components/user-keys-card.tsx).                   *)
(*                                                                         *)
(* Every answer brings the whole list.  The buttons of a row are disabled  *)
(* while a request for its key is under way; those of other rows are not,  *)
(* and the answers come in any order.                                      *)
(*                                                                         *)
(* The card keeps its list, its flags and its dialogs itself.  When its    *)
(* tab or the page is left they are forgotten, and a card mounted again    *)
(* begins anew: requests that the card before it made go on, it waits for  *)
(* none of them, and it may make another for the same key.                 *)
(*                                                                         *)
(* Abstracted: a key is its number; its name, its secret and whether it is *)
(* enabled are left out.  A request that fails may have had its effect.    *)
(***************************************************************************)
EXTENDS Naturals, FiniteSets

CONSTANTS
    Keys, NoKey,
    FirstKeys,   \* the keys of the service at first
    KeyUses      \* bound: what the user does

ASSUME KeyAssumption ==
    NoKey \notin Keys /\ FirstKeys \subseteq Keys /\ KeyUses \in Nat

VARIABLES
    userKeys,     \* of the service
    keyItems,     \* the list shown
    keyFlags,     \* isLoading, isCreating
    pendingIds,
    createDialog, deletingItem, editingItem, \* the dialogs
    keyCalls,     \* requests without an answer
    keyUse

keyDialogs == <<createDialog, deletingItem, editingItem>>
keyVars == <<userKeys, keyItems, keyFlags, pendingIds, keyDialogs, keyCalls, keyUse>>

KeyOps == {"load", "create", "toggle", "delete", "edit"}
KeyCall == [op : KeyOps, here : BOOLEAN, key : Keys \cup {NoKey}, n : Nat, items : SUBSET Keys,
            state : {"sent", "served", "failed"}]
\* While here, the card that made it is mounted.
NewKeyCall(op, k) ==
    [op |-> op, here |-> TRUE, key |-> k, n |-> keyUse, items |-> {}, state |-> "sent"]

UserKeysInit ==
    /\ userKeys = FirstKeys /\ keyItems = {} /\ keyFlags = {"load"} /\ pendingIds = {}
    /\ createDialog = FALSE /\ deletingItem = NoKey /\ editingItem = NoKey
    /\ keyUse = KeyUses /\ keyCalls = {NewKeyCall("load", NoKey)}

KeysMade(c) ==
    CASE c.op = "create" -> {userKeys \cup {k} : k \in Keys \ userKeys} \cup {userKeys}
      [] c.op = "delete" -> {userKeys \ {c.key}}
      [] OTHER -> {userKeys}

KeyCallEnds(c) ==
    /\ c.state = "sent"
    /\ \E made \in KeysMade(c) \cup {userKeys}, result \in {"served", "failed"} :
        /\ result = "served" => made \in KeysMade(c)
        /\ c.op = "create" /\ result = "served" => made # userKeys
        /\ result = "served" /\ c.op \in {"toggle", "edit"} => c.key \in userKeys
        /\ userKeys' = made
        /\ keyCalls' = (keyCalls \ {c}) \cup {[c EXCEPT !.state = result, !.items = made]}
    /\ UNCHANGED <<keyItems, keyFlags, pendingIds, keyDialogs, keyUse>>

UseKeys == keyUse > 0 /\ keyUse' = keyUse - 1 /\ UNCHANGED <<userKeys, keyItems>>
KeyAnswer(c) ==
    /\ c.state # "sent" /\ c.here /\ keyCalls' = keyCalls \ {c}
    /\ keyItems' = IF c.state = "served" THEN c.items ELSE keyItems
    /\ UNCHANGED <<userKeys, keyUse>>
\* The answer to a card that is gone.
AnsweredInVain(c) ==
    /\ c.state # "sent" /\ ~c.here /\ keyCalls' = keyCalls \ {c}
    /\ UNCHANGED <<userKeys, keyItems, keyFlags, pendingIds, keyDialogs, keyUse>>

\* The tab, or the page, is left and opened again.
RemountKeys ==
    /\ keyUse > 0 /\ keyUse' = keyUse - 1
    /\ keyItems' = {} /\ keyFlags' = {"load"} /\ pendingIds' = {}
    /\ createDialog' = FALSE /\ deletingItem' = NoKey /\ editingItem' = NoKey
    /\ keyCalls' = {[c EXCEPT !.here = FALSE] : c \in keyCalls} \cup {NewKeyCall("load", NoKey)}
    /\ UNCHANGED userKeys

DialogShown == createDialog \/ deletingItem # NoKey \/ editingItem # NoKey

KeysLoaded(c) ==
    /\ c.op = "load" /\ KeyAnswer(c) /\ keyFlags' = keyFlags \ {"load"}
    /\ UNCHANGED <<pendingIds, keyDialogs>>

OpenCreateDialog ==
    /\ ~DialogShown /\ UseKeys /\ createDialog' = TRUE
    /\ UNCHANGED <<keyFlags, pendingIds, deletingItem, editingItem, keyCalls>>

HandleCreate ==
    /\ createDialog /\ "create" \notin keyFlags /\ UseKeys
    /\ keyFlags' = keyFlags \cup {"create"}
    /\ keyCalls' = keyCalls \cup {NewKeyCall("create", NoKey)}
    /\ UNCHANGED <<pendingIds, keyDialogs>>

KeyCreated(c) ==
    /\ c.op = "create" /\ KeyAnswer(c) /\ keyFlags' = keyFlags \ {"create"}
    /\ createDialog' = (createDialog /\ c.state = "failed")
    /\ UNCHANGED <<pendingIds, deletingItem, editingItem>>

\* The buttons of a row.  No dialog is in front of them.
RowEnabled(k) ==
    ~DialogShown /\ "load" \notin keyFlags /\ k \in keyItems /\ k \notin pendingIds

OpenDeleteDialog(k) ==
    /\ RowEnabled(k) /\ UseKeys /\ deletingItem' = k
    /\ UNCHANGED <<keyFlags, pendingIds, createDialog, editingItem, keyCalls>>

OpenEditKey(k) ==
    /\ RowEnabled(k) /\ UseKeys /\ editingItem' = k
    /\ UNCHANGED <<keyFlags, pendingIds, createDialog, deletingItem, keyCalls>>

\* By a button, or by Escape, which works while a request is under way.
CloseKeyDialogs ==
    /\ DialogShown /\ UseKeys
    /\ createDialog' = FALSE /\ deletingItem' = NoKey /\ editingItem' = NoKey
    /\ UNCHANGED <<keyFlags, pendingIds, keyCalls>>

AskKey(op, k) ==
    /\ UseKeys /\ pendingIds' = pendingIds \cup {k}
    /\ keyCalls' = keyCalls \cup {NewKeyCall(op, k)}
    /\ UNCHANGED <<keyFlags, keyDialogs>>

HandleToggle(k) == RowEnabled(k) /\ AskKey("toggle", k)

HandleDelete ==
    deletingItem # NoKey /\ deletingItem \notin pendingIds /\ AskKey("delete", deletingItem)

\* When nothing was changed the dialog is closed instead.
HandleEdit ==
    /\ editingItem # NoKey /\ editingItem \notin pendingIds
    /\ \/ AskKey("edit", editingItem)
       \/ /\ UseKeys /\ editingItem' = NoKey
          /\ UNCHANGED <<keyFlags, pendingIds, createDialog, deletingItem, keyCalls>>

\* setItemPending(id, false)
SetNotPending(k) == pendingIds' = pendingIds \ {k}

\* Any answer to a deletion or a change closes the dialog of its kind,
\* whichever key that is for by now.
KeyChanged(c) ==
    /\ c.op \in {"toggle", "delete", "edit"} /\ KeyAnswer(c) /\ SetNotPending(c.key)
    /\ deletingItem' = IF c.op = "delete" /\ c.state = "served" THEN NoKey ELSE deletingItem
    /\ editingItem' = IF c.op = "edit" /\ c.state = "served" THEN NoKey ELSE editingItem
    /\ UNCHANGED <<keyFlags, createDialog>>

UserKeysUser ==
    \/ RemountKeys
    \/ OpenCreateDialog \/ HandleCreate \/ CloseKeyDialogs \/ HandleDelete \/ HandleEdit
    \/ \E k \in Keys : OpenDeleteDialog(k) \/ OpenEditKey(k) \/ HandleToggle(k)

UserKeysServed == \E c \in keyCalls : KeyCallEnds(c)
UserKeysAnswered == \E c \in keyCalls : KeysLoaded(c) \/ KeyCreated(c) \/ KeyChanged(c) \/ AnsweredInVain(c)

UserKeysGoOn == UserKeysServed \/ UserKeysAnswered

UserKeysNext == UserKeysUser \/ UserKeysGoOn
UserKeysSpec == UserKeysInit /\ [][UserKeysNext]_keyVars

\* Requests are answered or fail.
FairUserKeysSpec == UserKeysSpec /\ WF_keyVars(UserKeysGoOn)

UserKeysTypeOK ==
    /\ userKeys \subseteq Keys /\ keyItems \subseteq Keys /\ pendingIds \subseteq Keys
    /\ keyFlags \subseteq {"load", "create"} /\ createDialog \in BOOLEAN
    /\ {deletingItem, editingItem} \subseteq Keys \cup {NoKey}
    /\ keyCalls \in SUBSET KeyCall /\ keyUse \in Nat

\* A key is pending exactly while one request of the mounted card for it is
\* under way, never two: not even when a dialog for it was closed and opened
\* again meanwhile.
PendingTells ==
    LET own == {c \in keyCalls : c.here}
    IN  /\ \A k \in Keys :
            /\ k \in pendingIds <=> \E c \in own : c.key = k
            /\ Cardinality({c \in own : c.key = k}) =< 1
        /\ \A op \in {"load", "create"} : op \in keyFlags <=> \E c \in own : c.op = op

\* When the user leaves off, every row and every button comes back.
UserKeysSettled == pendingIds = {} /\ keyFlags = {}
UserKeysSettle == <>[]UserKeysSettled
=============================================================================
