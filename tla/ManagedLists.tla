---------------------------- MODULE ManagedLists ----------------------------
(***************************************************************************)
(* The pages that list what the service keeps and delete it: the image     *)
(* manager (web/src/app/image-manager/page.tsx) and the logs               *)
(* (web/src/app/logs/page.tsx).  A behaviour is of one of the two.         *)
(*                                                                         *)
(* A change of the filter loads the list anew without waiting for a load   *)
(* under way, a deletion of several entries ends in a load, and the tags   *)
(* of the images are changed by requests of their own: the list and the    *)
(* selection are made from answers in any order.                           *)
(*                                                                         *)
(* A page that is left forgets all that, and one opened again begins anew: *)
(* a behaviour is of one mounted page.                                     *)
(*                                                                         *)
(* Abstracted: the dates and the type of the filter either narrow the list *)
(* to the entries in a fixed range or they do not.  Paging limits only     *)
(* what is seen.  Downloads, the lightbox and the statistics of the disk   *)
(* are only shown, except that a cleaning may delete any image.            *)
(***************************************************************************)
EXTENDS Naturals, FiniteSets

CONSTANTS
    Entries, InRange,
    Labels,     \* tags of images
    NoEntry,
    ListUses    \* bounds: pairs of what the user does and the requests that fail

ASSUME ListAssumption ==
    InRange \subseteq Entries /\ NoEntry \notin Entries /\ ListUses \subseteq Nat \X Nat

VARIABLES
    listPage,                 \* "images" or "logs"
    stored, storedTags,       \* of the service: its entries and their tags
    entries, entryTags,       \* items: the list shown
    allTags, selectedTags,
    narrowed,                 \* whether the filter has dates or a type
    selectedPaths,
    listFlags,                \* isLoading, isDeleting, isDownloading, storageLoading
    deleteMode, deleteTarget, \* the dialogs that ask before a deletion
    closings,                 \* timers that empty deleteTarget
    detailLog, detailOpen,    \* the details of a log
    listCalls,                \* requests without an answer
    listUse, listFault

storedVars == <<stored, storedTags>>
tagVars == <<entryTags, allTags, selectedTags>>
detailVars == <<detailLog, detailOpen>>
confirmVars == <<deleteMode, deleteTarget, closings, detailVars>>
managedVars == <<listPage, storedVars, entries, tagVars, narrowed, selectedPaths, listFlags,
                 confirmVars, listCalls, listUse, listFault>>

Tagging == [Entries -> SUBSET Labels]
Untagged == [e \in Entries |-> {}]
LabelsOf(tagging) == UNION {tagging[e] : e \in Entries}
Modes == {"none", "selected", "filtered", "byDate", "one", "logs"}
ListOps == {"load", "delete", "tags", "allTags", "deleteTag", "download", "clean",
            "storage"}
ListCall == [op : ListOps, n : Nat, mode : Modes, es : SUBSET Entries, labels : SUBSET Labels,
             narrow : BOOLEAN, detail : Entries \cup {NoEntry}, items : SUBSET Entries,
             tags : Tagging, state : {"sent", "served", "failed"}]

\* A load with a mode is the last step of a deletion.
NewListCall(op, mode, es, labels) ==
    [op |-> op, n |-> listUse, mode |-> mode, es |-> es, labels |-> labels,
     narrow |-> narrowed, detail |-> detailLog, items |-> {}, tags |-> Untagged,
     state |-> "sent"]

ListsInit ==
    /\ listPage \in {"images", "logs"}
    /\ stored = Entries /\ storedTags \in [Entries -> {Labels}]
    /\ entries = {} /\ entryTags = Untagged /\ allTags = {} /\ selectedTags = {}
    /\ narrowed = FALSE /\ selectedPaths = {} /\ listFlags = {"load"}
    /\ deleteMode = "none" /\ deleteTarget = {} /\ closings = 0
    /\ detailLog = NoEntry /\ detailOpen = FALSE
    /\ \E u \in ListUses : listUse = u[1] /\ listFault = u[2]
    /\ listCalls = {NewListCall("load", "none", {}, {})}

(***************************************************************************)
(* The service.                                                            *)
(***************************************************************************)
ListServiceOnly ==
    UNCHANGED <<listPage, entries, tagVars, narrowed, selectedPaths, listFlags, confirmVars, listUse>>

ListCallFails(c) ==
    /\ c.state = "sent" /\ listFault > 0 /\ listFault' = listFault - 1
    /\ listCalls' = (listCalls \ {c}) \cup {[c EXCEPT !.state = "failed"]}
    /\ ListServiceOnly /\ UNCHANGED storedVars

\* What a deletion names, or the dates it has match.
Doomed(c) == IF c.mode \in {"filtered", "byDate"} THEN InRange ELSE c.es

ListCallServed(c) ==
    /\ c.state = "sent"
    /\ \/ c.op = "delete" /\ stored' = stored \ Doomed(c)
       \/ c.op = "clean" /\ \E e \in stored : stored' \in {stored, stored \ {e}}
       \/ c.op \notin {"delete", "clean"} /\ UNCHANGED stored
    /\ storedTags' = [e \in Entries |->
            IF e \notin stored' THEN {}
            ELSE IF c.op = "tags" /\ e \in c.es THEN c.labels
            ELSE IF c.op = "deleteTag" THEN storedTags[e] \ c.labels
            ELSE storedTags[e]]
    /\ listCalls' = (listCalls \ {c}) \cup
            {[c EXCEPT !.state = "served", !.tags = storedTags',
                       !.items = IF c.narrow THEN stored' \cap InRange ELSE stored']}
    /\ ListServiceOnly /\ UNCHANGED listFault

(***************************************************************************)
(* The list, its filter and its selection.                                 *)
(***************************************************************************)
UseList == listUse > 0 /\ listUse' = listUse - 1 /\ UNCHANGED <<listPage, storedVars, listFault>>
ListAnswer(c, more) ==
    /\ c.state # "sent" /\ listCalls' = (listCalls \ {c}) \cup more
    /\ UNCHANGED <<listPage, storedVars, narrowed, listUse, listFault>>
Came(c) == c.state = "served"
Filtered == {e \in entries : selectedTags \subseteq entryTags[e]}

\* setItems, and setSelectedPaths without what is gone
ShowEntries(items) == entries' = items /\ selectedPaths' = selectedPaths \cap items

LoadImages ==
    /\ "load" \notin listFlags /\ UseList
    /\ listFlags' = listFlags \cup {"load"}
    /\ listCalls' = listCalls \cup {NewListCall("load", "none", {}, {})}
    /\ UNCHANGED <<entries, tagVars, narrowed, selectedPaths, confirmVars>>

\* The entries and the tags come together.  When the load ends a deletion, the
\* deletion ends too.
ImagesLoaded(c) ==
    /\ c.op = "load" /\ listPage = "images" /\ ListAnswer(c, {})
    /\ IF Came(c) THEN ShowEntries(c.items) /\ entryTags' = c.tags /\ allTags' = LabelsOf(c.tags)
       ELSE UNCHANGED <<entries, selectedPaths, entryTags, allTags>>
    /\ listFlags' = listFlags \ (IF c.mode = "none" THEN {"load"} ELSE {"load", "delete"})
    /\ UNCHANGED <<selectedTags, confirmVars>>

LogsLoaded(c) ==
    /\ c.op = "load" /\ listPage = "logs" /\ ListAnswer(c, {})
    /\ IF Came(c) THEN ShowEntries(c.items) ELSE UNCHANGED <<entries, selectedPaths>>
    /\ listFlags' = listFlags \ (IF c.mode = "none" THEN {"load"} ELSE {"load", "delete"})
    /\ UNCHANGED <<tagVars, confirmVars>>

\* A new filter loads the list, whatever load is under way.
SetListFilter ==
    /\ UseList /\ deleteMode = "none" /\ narrowed' = ~narrowed
    /\ listFlags' = listFlags \cup {"load"}
    /\ listCalls' = listCalls \cup {[NewListCall("load", "none", {}, {}) EXCEPT !.narrow = narrowed']}
    /\ selectedTags' \in IF narrowed THEN {selectedTags, {}} ELSE {selectedTags}
    /\ UNCHANGED <<entries, entryTags, allTags, selectedPaths, confirmVars>>

\* A row has a checkbox, and the list one for all of them.
Checkboxes == {{e} : e \in Filtered} \cup ({Filtered} \ {{}})

TogglePaths ==
    /\ UseList
    /\ \E es \in Checkboxes : selectedPaths' \in {selectedPaths \cup es, selectedPaths \ es}
    /\ UNCHANGED <<entries, tagVars, narrowed, listFlags, confirmVars, listCalls>>

ClearSelection ==
    /\ UseList /\ selectedPaths # {} /\ "delete" \notin listFlags /\ selectedPaths' = {}
    /\ UNCHANGED <<entries, tagVars, narrowed, listFlags, confirmVars, listCalls>>

(***************************************************************************)
(* Deletions.                                                              *)
(***************************************************************************)
OpenDelete(mode, target) ==
    /\ deleteMode = "none" /\ UseList
    /\ deleteMode' = mode /\ deleteTarget' = target
    /\ UNCHANGED <<entries, tagVars, narrowed, selectedPaths, listFlags, closings, detailVars, listCalls>>

\* The button on an image.
OpenOne(e) == e \in Filtered /\ OpenDelete("one", {e})

OpenImageDelete ==
    /\ listPage = "images"
    /\ \/ selectedPaths # {} /\ "delete" \notin listFlags /\ OpenDelete("selected", deleteTarget)
       \/ /\ entries # {} /\ narrowed /\ "delete" \notin listFlags
          /\ OpenDelete("filtered", deleteTarget)
       \/ OpenDelete("byDate", deleteTarget)
       \/ \E e \in Filtered : OpenOne(e)

OpenLogDelete ==
    /\ listPage = "logs"
    /\ \/ selectedPaths # {} /\ "delete" \notin listFlags
          /\ OpenDelete("logs", entries \cap selectedPaths)
       \/ \E e \in entries : OpenDelete("logs", {e})

\* closeDialog: what was to be deleted stays for the time of an animation.
CloseDialog ==
    /\ deleteMode' = IF deleteMode = "one" THEN "none" ELSE deleteMode
    /\ closings' = closings + 1 /\ UNCHANGED <<deleteTarget, detailVars>>

CloseDelete ==
    /\ deleteMode # "none" /\ UseList
    /\ IF deleteMode = "one" THEN CloseDialog
       ELSE /\ deleteMode' = "none"
            /\ deleteTarget' = IF listPage = "logs" THEN {} ELSE deleteTarget
            /\ UNCHANGED <<closings, detailVars>>
    /\ UNCHANGED <<entries, tagVars, narrowed, selectedPaths, listFlags, listCalls>>

\* The timer empties what is to be deleted, of a dialog opened since as well.
EmptyTarget ==
    /\ closings > 0 /\ closings' = closings - 1 /\ deleteTarget' = {}
    /\ UNCHANGED <<listPage, storedVars, entries, tagVars, narrowed, selectedPaths, listFlags,
                   deleteMode, detailVars, listCalls, listUse, listFault>>

MayConfirm == deleteMode # "none" /\ "delete" \notin listFlags

Confirm(es) ==
    /\ MayConfirm /\ UseList
    /\ listFlags' = listFlags \cup {"delete"}
    /\ listCalls' = listCalls \cup {NewListCall("delete", deleteMode, es, {})}
    /\ UNCHANGED <<entries, tagVars, narrowed, selectedPaths, confirmVars>>

HandleDelete1 == deleteMode = "one" /\ deleteTarget # {} /\ Confirm(deleteTarget)

ConfirmDelete ==
    \/ deleteMode = "selected" /\ selectedPaths # {} /\ Confirm(selectedPaths)
    \/ deleteMode = "filtered" /\ entries # {} /\ Confirm({})

DeleteByDate == deleteMode = "byDate" /\ Confirm({})

ConfirmLogs == deleteMode = "logs" /\ deleteTarget # {} /\ Confirm(deleteTarget)

ImageDeleted(c) ==
    /\ c.op = "delete" /\ c.mode = "one" /\ ListAnswer(c, {})
    /\ IF Came(c) THEN entries' = entries \ c.es /\ selectedPaths' = selectedPaths \ c.es
       ELSE UNCHANGED <<entries, selectedPaths>>
    /\ listFlags' = listFlags \ {"delete"}
    /\ CloseDialog /\ UNCHANGED tagVars

\* With the filter the handler saw when it was called.
Reload(c) == {[NewListCall("load", c.mode, {}, {}) EXCEPT !.n = c.n, !.narrow = c.narrow]}

SelectedDeleted(c) ==
    /\ c.op = "delete" /\ c.mode \in {"selected", "filtered"}
    /\ ListAnswer(c, IF Came(c) THEN Reload(c) ELSE {})
    /\ IF Came(c)
       THEN /\ deleteMode' = IF deleteMode = "one" THEN "one" ELSE "none"
            /\ selectedPaths' = {} /\ listFlags' = listFlags \cup {"load"}
       ELSE listFlags' = listFlags \ {"delete"} /\ UNCHANGED <<deleteMode, selectedPaths>>
    /\ UNCHANGED <<entries, tagVars, deleteTarget, closings, detailVars>>

\* The loads that follow are not waited for.
DatesDeleted(c) ==
    /\ c.op = "delete" /\ c.mode = "byDate"
    /\ ListAnswer(c, IF Came(c) THEN {[x EXCEPT !.mode = "none"] : x \in Reload(c)}
                                     \cup {[x EXCEPT !.op = "storage"] : x \in Reload(c)}
                     ELSE {})
    /\ listFlags' = (listFlags \ {"delete"}) \cup (IF Came(c) THEN {"load", "storage"} ELSE {})
    /\ deleteMode' = IF Came(c) /\ deleteMode # "one" THEN "none" ELSE deleteMode
    /\ UNCHANGED <<entries, tagVars, selectedPaths, deleteTarget, closings, detailVars>>

\* When the details as they were when the deletion began are of a log that was
\* deleted, those that are open by now are closed.
LogsDeleted(c) ==
    /\ c.op = "delete" /\ c.mode = "logs" /\ ListAnswer(c, IF Came(c) THEN Reload(c) ELSE {})
    /\ IF Came(c)
       THEN /\ deleteMode' = "none" /\ deleteTarget' = {}
            /\ selectedPaths' = selectedPaths \ c.es
            /\ IF c.detail \in c.es THEN detailLog' = NoEntry /\ detailOpen' = FALSE
               ELSE UNCHANGED detailVars
            /\ listFlags' = listFlags \cup {"load"}
       ELSE /\ listFlags' = listFlags \ {"delete"}
            /\ UNCHANGED <<deleteMode, deleteTarget, selectedPaths, detailVars>>
    /\ UNCHANGED <<entries, tagVars, closings>>

Details(open, log) ==
    /\ listPage = "logs" /\ deleteMode = "none" /\ UseList
    /\ detailOpen' = open /\ detailLog' = log
    /\ UNCHANGED <<entries, tagVars, narrowed, selectedPaths, listFlags, deleteMode,
                   deleteTarget, closings, listCalls>>

OpenLogDetail == ~detailOpen /\ \E e \in entries : Details(TRUE, e)

\* What they were of is kept.
CloseLogDetail == detailOpen /\ Details(FALSE, detailLog)

\* An image of a log is looked at with the details closed.
OpenLogImage == ~detailOpen /\ \E e \in entries : Details(FALSE, e)

(***************************************************************************)
(* Tags, the disk and downloads, of images.                                *)
(***************************************************************************)
AskImages(flag, call) ==
    /\ listPage = "images" /\ UseList
    /\ listFlags' = listFlags \cup flag /\ listCalls' = listCalls \cup {call}
    /\ UNCHANGED <<entries, entryTags, allTags, selectedTags, narrowed, selectedPaths, confirmVars>>

\* The tags sent are made from those shown.
ChangedTags(e, t) ==
    IF t \in entryTags[e] THEN entryTags[e] \ {t} ELSE entryTags[e] \cup {t}

SetTags(e, tags) == AskImages({}, NewListCall("tags", "none", {e}, tags))

\* The tags of an image, those of other images, and a new one are offered.
HandleSetTags == \E e \in Filtered, t \in Labels : SetTags(e, ChangedTags(e, t))

TagsSet(c) ==
    /\ c.op = "tags"
    /\ ListAnswer(c, IF Came(c) THEN {[c EXCEPT !.op = "allTags", !.state = "sent"]} ELSE {})
    /\ entryTags' = [e \in Entries |->
            IF Came(c) /\ e \in c.es \cap entries THEN c.labels ELSE entryTags[e]]
    /\ UNCHANGED <<entries, allTags, selectedTags, selectedPaths, listFlags, confirmVars>>

AllTagsLoaded(c) ==
    /\ c.op = "allTags" /\ ListAnswer(c, {})
    /\ allTags' = IF Came(c) THEN LabelsOf(c.tags) ELSE allTags
    /\ UNCHANGED <<entries, entryTags, selectedTags, selectedPaths, listFlags, confirmVars>>

\* A long press on a tag of the filter asks, in a dialog, to delete it.
HandleDeleteTag ==
    \E t \in allTags : AskImages({}, NewListCall("deleteTag", "none", {}, {t}))

TagDeleted(c) ==
    /\ c.op = "deleteTag" /\ ListAnswer(c, {})
    /\ IF Came(c)
       THEN /\ allTags' = allTags \ c.labels /\ selectedTags' = selectedTags \ c.labels
            /\ entryTags' = [e \in Entries |-> entryTags[e] \ c.labels]
       ELSE UNCHANGED tagVars
    /\ UNCHANGED <<entries, selectedPaths, listFlags, confirmVars>>

ToggleFilterTag ==
    /\ listPage = "images" /\ UseList
    /\ \/ \E t \in allTags :
            selectedTags' = IF t \in selectedTags THEN selectedTags \ {t} ELSE selectedTags \cup {t}
       \/ selectedTags # {} /\ selectedTags' = {}
    /\ UNCHANGED <<entries, entryTags, allTags, narrowed, selectedPaths, listFlags, confirmVars, listCalls>>

BatchDownload ==
    /\ selectedPaths # {} /\ listFlags \cap {"download", "delete"} = {}
    /\ AskImages({"download"}, NewListCall("download", "none", selectedPaths, {}))

\* The buttons of the panel that shows the disk: to clean or compress, which
\* do not wait for one another, and to load it.
StorageButtons ==
    \/ AskImages({}, NewListCall("clean", "none", {}, {}))
    \/ "storage" \notin listFlags /\ AskImages({"storage"}, NewListCall("storage", "none", {}, {}))

\* Which shows the disk anew, and not the images.
DiskChanged(c) ==
    /\ c.op = "clean"
    /\ ListAnswer(c, IF Came(c) THEN {[c EXCEPT !.op = "storage", !.state = "sent"]} ELSE {})
    /\ listFlags' = listFlags \cup (IF Came(c) THEN {"storage"} ELSE {})
    /\ UNCHANGED <<entries, tagVars, selectedPaths, confirmVars>>

ShownOnly(c) ==
    /\ c.op \in {"download", "storage"} /\ ListAnswer(c, {})
    /\ listFlags' = listFlags \ {c.op}
    /\ UNCHANGED <<entries, tagVars, selectedPaths, confirmVars>>

(***************************************************************************)
(* The specification.                                                      *)
(***************************************************************************)
ListsUser ==
    \/ LoadImages \/ SetListFilter \/ TogglePaths \/ ClearSelection
    \/ OpenImageDelete \/ OpenLogDelete \/ CloseDelete
    \/ HandleDelete1 \/ ConfirmDelete \/ DeleteByDate \/ ConfirmLogs \/ OpenLogDetail \/ CloseLogDetail \/ OpenLogImage
    \/ HandleSetTags \/ HandleDeleteTag \/ ToggleFilterTag \/ BatchDownload \/ StorageButtons

ListsServed == \E c \in listCalls : ListCallServed(c)

ListsAnswered ==
    \E c \in listCalls :
        \/ ImagesLoaded(c) \/ LogsLoaded(c) \/ ImageDeleted(c) \/ SelectedDeleted(c)
        \/ DatesDeleted(c) \/ LogsDeleted(c) \/ TagsSet(c) \/ AllTagsLoaded(c)
        \/ TagDeleted(c) \/ DiskChanged(c) \/ ShownOnly(c)

ListsGoOn == ListsServed \/ ListsAnswered

ListsNext == ListsUser \/ ListsGoOn \/ EmptyTarget \/ \E c \in listCalls : ListCallFails(c)
ListsSpec == ListsInit /\ [][ListsNext]_managedVars

\* A request is answered, and its handler goes on.
FairListsSpec == ListsSpec /\ WF_managedVars(ListsGoOn)

ListsTypeOK ==
    /\ listPage \in {"images", "logs"} /\ {stored, entries, selectedPaths} \subseteq SUBSET Entries
    /\ {storedTags, entryTags} \subseteq Tagging /\ {allTags, selectedTags} \subseteq SUBSET Labels
    /\ narrowed \in BOOLEAN /\ listFlags \subseteq ListOps
    /\ deleteMode \in Modes /\ deleteTarget \subseteq Entries /\ closings \in Nat /\ listFault \in Nat
    /\ detailLog \in Entries \cup {NoEntry} /\ detailOpen \in BOOLEAN
    /\ listCalls \in SUBSET ListCall /\ listUse \in Nat

\* Only what is listed is selected, whichever answer came last: the deletion
\* of "the selected" names nothing the user does not see in the list.
EntriesListed == selectedPaths \subseteq entries

\* One deletion is under way at a time, with the load that ends it, and only
\* while one is are the buttons that delete disabled; a page that shows that
\* it loads waits for some load.
DeletingTells ==
    /\ LET deletions == {c \in listCalls : c.op = "delete" \/ (c.op = "load" /\ c.mode # "none")}
       IN  Cardinality(deletions) =< 1 /\ ("delete" \in listFlags <=> deletions # {})
    /\ "load" \in listFlags => \E c \in listCalls : c.op = "load"

\* When the user leaves off, every button comes back.
ListsSettled == listFlags = {}
ListsSettle == <>[]ListsSettled
=============================================================================
