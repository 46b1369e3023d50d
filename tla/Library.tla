------------------------------ MODULE Library -------------------------------
(***************************************************************************)
(* The pages of the libraries the image page takes prompts and materials   *)
(* from (web/src/app/prompts/page.tsx, web/src/app/materials/page.tsx).    *)
(* They are one program twice; a behaviour is of one of them.              *)
(*                                                                         *)
(* One form makes a new item or changes the one it was opened for.  Every  *)
(* answer brings the whole list, and a save and deletions may be under way *)
(* together while the form goes on to another item.                        *)
(*                                                                         *)
(* A page that is left forgets all that, and one opened again begins anew: *)
(* a behaviour is of one mounted page.                                     *)
(*                                                                         *)
(* Abstracted: an item is its number; of the form there is the item it is  *)
(* of and whether it has what a new item needs, a text or a file.  The     *)
(* search and the filter only limit what is seen.                          *)
(***************************************************************************)
EXTENDS Naturals, FiniteSets

CONSTANTS
    LibraryItems, NoItem,
    FirstItems,   \* the items of the service at first
    LibraryUses   \* bound: what the user does

ASSUME LibraryAssumption ==
    NoItem \notin LibraryItems /\ FirstItems \subseteq LibraryItems /\ LibraryUses \in Nat

VARIABLES
    library,            \* "prompts" or "materials"
    libraryStored,      \* of the service
    libraryItems,       \* the list shown
    formId, formFilled, \* the form, and what it needs
    libraryFlags,       \* loading, saving
    libraryCalls,       \* requests without an answer
    libraryUse

itemForm == <<formId, formFilled>>
libraryVars == <<library, libraryStored, libraryItems, itemForm, libraryFlags, libraryCalls,
                 libraryUse>>

ItemOrNone == LibraryItems \cup {NoItem}
LibraryCall == [op : {"load", "save", "remove"}, id : ItemOrNone, form : ItemOrNone, n : Nat,
                items : SUBSET LibraryItems, state : {"sent", "served", "failed"}]

\* A handler keeps the form of the page it was called in.
NewLibraryCall(op, id) ==
    [op |-> op, id |-> id, form |-> formId, n |-> libraryUse, items |-> {}, state |-> "sent"]

LibraryInit ==
    /\ library \in {"prompts", "materials"}
    /\ libraryStored = FirstItems /\ libraryItems = {}
    /\ formId = NoItem /\ formFilled = FALSE /\ libraryFlags = {"load"}
    /\ libraryUse = LibraryUses /\ libraryCalls = {NewLibraryCall("load", NoItem)}

\* What the service keeps after a request it serves; it refuses a change of an
\* item it does not have.
Kept(c) ==
    CASE c.op = "save" /\ c.id = NoItem ->
            {libraryStored \cup {i} : i \in LibraryItems \ libraryStored}
      [] c.op = "save" /\ c.id \notin libraryStored -> {}
      [] c.op = "remove" -> IF c.id \in libraryStored THEN {libraryStored \ {c.id}} ELSE {}
      [] OTHER -> {libraryStored}

\* A request that fails may have had its effect.
LibraryCallEnds(c) ==
    /\ c.state = "sent"
    /\ \E kept \in Kept(c) \cup {libraryStored}, result \in {"served", "failed"} :
        /\ result = "served" => kept \in Kept(c)
        /\ libraryStored' = kept
        /\ libraryCalls' = (libraryCalls \ {c}) \cup {[c EXCEPT !.state = result, !.items = kept]}
    /\ UNCHANGED <<library, libraryItems, itemForm, libraryFlags, libraryUse>>

UseLibrary ==
    libraryUse > 0 /\ libraryUse' = libraryUse - 1
        /\ UNCHANGED <<library, libraryStored, libraryItems>>
ItemShown(i) == "load" \notin libraryFlags /\ i \in libraryItems
AskLibrary(op, id) ==
    UseLibrary /\ libraryCalls' = libraryCalls \cup {NewLibraryCall(op, id)} /\ UNCHANGED itemForm

ResetForm == formId' = NoItem /\ formFilled' = FALSE

\* The text of a prompt is typed or taken out.
FillPrompt ==
    /\ library = "prompts" /\ UseLibrary
    /\ formFilled' = ~formFilled /\ UNCHANGED <<formId, libraryFlags, libraryCalls>>

\* The file of a material is chosen or taken back; the one of an item that is
\* there stays what it is.
PickMaterial ==
    /\ library = "materials" /\ formId = NoItem /\ UseLibrary
    /\ formFilled' = ~formFilled /\ UNCHANGED <<formId, libraryFlags, libraryCalls>>

OpenItem(i) ==
    ItemShown(i) /\ UseLibrary /\ formId' = i /\ UNCHANGED <<libraryFlags, libraryCalls>>

\* The form has the text of the prompt.
EditPrompt(i) == library = "prompts" /\ OpenItem(i) /\ formFilled' = TRUE

\* A file chosen before stays chosen.
EditMaterial(i) == library = "materials" /\ OpenItem(i) /\ UNCHANGED formFilled

CancelForm == UseLibrary /\ ResetForm /\ UNCHANGED <<libraryFlags, libraryCalls>>

CanSave == "save" \notin libraryFlags

SaveItem == CanSave /\ AskLibrary("save", formId) /\ libraryFlags' = libraryFlags \cup {"save"}

SavePrompt == library = "prompts" /\ formFilled /\ SaveItem

\* Only a new material needs a file.
SaveMaterial == library = "materials" /\ (formFilled \/ formId # NoItem) /\ SaveItem

RemoveItem(i) == ItemShown(i) /\ AskLibrary("remove", i) /\ UNCHANGED libraryFlags

LibraryAnswer(c) ==
    /\ c.state # "sent" /\ libraryCalls' = libraryCalls \ {c}
    /\ libraryItems' = IF c.state = "served" THEN c.items ELSE libraryItems
    /\ UNCHANGED <<library, libraryStored, libraryUse>>

ItemsLoaded(c) ==
    /\ c.op = "load" /\ LibraryAnswer(c) /\ libraryFlags' = libraryFlags \ {"load"}
    /\ UNCHANGED itemForm

\* The form is emptied, whatever it is of by now.
ItemSaved(c) ==
    /\ c.op = "save" /\ LibraryAnswer(c) /\ libraryFlags' = libraryFlags \ {"save"}
    /\ IF c.state = "served" THEN ResetForm ELSE UNCHANGED itemForm

\* The form is emptied when it was of the item when the deletion was asked for.
ItemRemoved(c) ==
    /\ c.op = "remove" /\ LibraryAnswer(c) /\ UNCHANGED libraryFlags
    /\ IF c.state = "served" /\ c.form = c.id THEN ResetForm ELSE UNCHANGED itemForm

LibraryUser ==
    \/ FillPrompt \/ PickMaterial \/ CancelForm \/ SavePrompt \/ SaveMaterial
    \/ \E i \in LibraryItems : EditPrompt(i) \/ EditMaterial(i) \/ RemoveItem(i)

LibraryServed == \E c \in libraryCalls : LibraryCallEnds(c)
LibraryAnswered == \E c \in libraryCalls : ItemsLoaded(c) \/ ItemSaved(c) \/ ItemRemoved(c)

LibraryGoesOn == LibraryServed \/ LibraryAnswered

LibraryNext == LibraryUser \/ LibraryGoesOn
LibrarySpec == LibraryInit /\ [][LibraryNext]_libraryVars

\* Requests are answered or fail.
FairLibrarySpec == LibrarySpec /\ WF_libraryVars(LibraryGoesOn)

LibraryTypeOK ==
    /\ library \in {"prompts", "materials"} /\ {libraryStored, libraryItems} \subseteq SUBSET LibraryItems
    /\ formId \in ItemOrNone /\ formFilled \in BOOLEAN /\ libraryFlags \subseteq {"load", "save"}
    /\ libraryCalls \in SUBSET LibraryCall /\ libraryUse \in Nat

\* The page says that it saves exactly while one save is under way, though
\* deletions are answered and forms opened and emptied meanwhile: a form never
\* makes its item twice by two requests at once.
SavesTell ==
    /\ \A op \in {"load", "save"} : op \in libraryFlags <=> \E c \in libraryCalls : c.op = op
    /\ Cardinality({c \in libraryCalls : c.op = "save"}) =< 1

\* When the user leaves off, every button comes back.
LibrarySettled == libraryFlags = {}
LibrarySettles == <>[]LibrarySettled
=============================================================================
