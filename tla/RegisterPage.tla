---------------------------- MODULE RegisterPage ----------------------------
(***************************************************************************)
(* The registration page (web/src/app/register): the registers "main",    *)
(* "new" and "gptfree" of the service, what the page shows of each, and    *)
(* the form of their shared settings, which the settings store keeps       *)
(* (web/src/app/settings/store.ts).                                        *)
(*                                                                         *)
(* What a register does comes to the page twice: as the answers to its     *)
(* requests, in any order, and by a stream of events for each register,    *)
(* which are in order but may be behind the answers.                       *)
(*                                                                         *)
(* A behaviour is of one mounted page: the page is not left and opened     *)
(* again, which would load the registers and follow their events anew.     *)
(*                                                                         *)
(* Abstracted: the settings are numbered versions; an edit makes a new     *)
(* one.  Statistics and logs are left out: a change of theirs sends an     *)
(* event as well, which shows the settings and the state again.            *)
(***************************************************************************)
EXTENDS Naturals, FiniteSets

CONSTANTS
    RegisterUses,      \* bound: what the user does, and registers that stop
    FollowedRegisters  \* how it begins: the registers a behaviour has, how much
                       \* of the bound, and whether its registers run

ASSUME RegisterAssumption ==
    /\ RegisterUses \in Nat
    /\ FollowedRegisters \subseteq (SUBSET {"main", "new", "gptfree"}) \X (0..RegisterUses) \X BOOLEAN
    /\ \A f \in FollowedRegisters : "main" \in f[1]

VARIABLES
    followed,        \* the registers of this behaviour
    registers,       \* of the service: which of them run
    settings,        \* the version of the settings the service has
    hadSettings,     \* history: the versions it has had
    shownRegisters,  \* what the page shows of each
    shownSettings,   \* the version in the form
    isRegisterDirty, isLoadingRegister,
    savingRegisters, \* isSavingRegister, isSavingNew, isSavingGptFree
    streams,         \* per register, the event under way
    streamed,        \* and the one read before it
    registerCalls,   \* requests without an answer
    registerUse

formVars == <<shownSettings, isRegisterDirty>>
registerPageVars == <<shownRegisters, formVars, isLoadingRegister, savingRegisters>>
registerVars == <<followed, registers, settings, hadSettings, registerPageVars, streams, streamed,
                  registerCalls, registerUse>>

Registers == {"main", "new", "gptfree"}
Versions == 0..RegisterUses
NoEvent == [on |-> FALSE, settings |-> RegisterUses + 1]
Event == [on : BOOLEAN, settings : 0..(RegisterUses + 1)]
RegisterOps == {"load", "save", "start", "stop", "reset", "outlook"}
RegisterCall == [op : RegisterOps, register : Registers, n : Nat, settings : Versions,
                 state : {"sent", "served", "failed"}, on : BOOLEAN]

NewRegisterCall(op, r) ==
    [op |-> op, register |-> r, n |-> registerUse, settings |-> shownSettings,
     state |-> "sent", on |-> FALSE]
Snapshot(r) == [on |-> registers[r], settings |-> settings]

RegisterInit ==
    /\ \E f \in FollowedRegisters :
        /\ followed = f[1] /\ registerUse = f[2]
        /\ registers = [r \in Registers |-> f[3] /\ r \in followed]
    /\ settings = 0 /\ hadSettings = {0}
    /\ shownRegisters = [r \in Registers |-> "none"]
    /\ shownSettings = 0 /\ isRegisterDirty = FALSE /\ isLoadingRegister = TRUE
    /\ savingRegisters = {}
    /\ streams = [r \in Registers |-> NoEvent] /\ streamed = [r \in Registers |-> NoEvent]
    /\ registerCalls = {[op |-> "load", register |-> r, n |-> 0, settings |-> 0,
                         state |-> "sent", on |-> FALSE] : r \in followed}

UseRegister ==
    /\ registerUse > 0 /\ registerUse' = registerUse - 1
    /\ UNCHANGED <<followed, registers, settings, hadSettings, streams, streamed>>

(***************************************************************************)
(* The service.                                                            *)
(***************************************************************************)
RegisterServiceOnly == UNCHANGED <<followed, registerPageVars, registerUse>>

\* A start with settings saves them first.  An answer tells the state after.
RegisterServed(c) ==
    /\ c.state = "sent"
    /\ registers' = CASE c.op = "start" -> [registers EXCEPT ![c.register] = TRUE]
                      [] c.op = "stop" -> [registers EXCEPT ![c.register] = FALSE]
                      [] OTHER -> registers
    /\ settings' = IF c.op = "save" \/ (c.op = "start" /\ c.register # "new")
                   THEN c.settings ELSE settings
    /\ hadSettings' = hadSettings \cup {settings'}
    /\ \E result \in {"served", "failed"} :
        registerCalls' = (registerCalls \ {c}) \cup
            {[c EXCEPT !.state = result, !.on = registers'[c.register], !.settings = settings']}
    /\ RegisterServiceOnly /\ UNCHANGED <<streams, streamed>>

RegisterRefused(c) ==
    /\ c.state = "sent"
    /\ registerCalls' = (registerCalls \ {c}) \cup {[c EXCEPT !.state = "failed"]}
    /\ RegisterServiceOnly /\ UNCHANGED <<registers, settings, hadSettings, streams, streamed>>

\* A register reaches its target, or another user stops it.
RegisterStops(r) ==
    /\ registers[r] /\ registerUse > 0 /\ registerUse' = registerUse - 1
    /\ registers' = [registers EXCEPT ![r] = FALSE]
    /\ UNCHANGED <<followed, settings, hadSettings, registerPageVars, streams, streamed,
                   registerCalls>>

\* The stream of a register sends what has changed since it last looked.
StreamSends(r) ==
    /\ r \in followed /\ streams[r] = NoEvent /\ Snapshot(r) # streamed[r]
    /\ streams' = [streams EXCEPT ![r] = Snapshot(r)]
    /\ streamed' = [streamed EXCEPT ![r] = Snapshot(r)]
    /\ RegisterServiceOnly /\ UNCHANGED <<registers, settings, hadSettings, registerCalls>>

(***************************************************************************)
(* The page.                                                               *)
(***************************************************************************)
RegisterAnswered(c) ==
    /\ c.state # "sent" /\ registerCalls' = registerCalls \ {c}
    /\ UNCHANGED <<followed, registers, settings, hadSettings, streams, streamed, registerUse>>

Onward(on) == IF on THEN "on" ELSE "off"
ShowRegister(r, on) == shownRegisters' = [shownRegisters EXCEPT ![r] = Onward(on)]

\* An answer about the main register replaces the form, edited or not.
TakeRegister(c) ==
    IF c.state = "served"
    THEN /\ ShowRegister(c.register, c.on)
         /\ IF c.register = "main" THEN shownSettings' = c.settings /\ isRegisterDirty' = FALSE
            ELSE UNCHANGED formVars
    ELSE UNCHANGED <<shownRegisters, formVars>>

\* loadRegister, and the first look at the other registers
RegisterLoaded(c) ==
    /\ c.op = "load" /\ RegisterAnswered(c) /\ TakeRegister(c)
    /\ isLoadingRegister' = (c.register # "main" /\ isLoadingRegister)
    /\ UNCHANGED savingRegisters

\* Mutant: an event of a register that does not run replaces the form, but
\* the edits are still taken for unsaved, and the other way round.
SetRegisterConfigMarked(on, version) ==
    /\ shownRegisters' = [shownRegisters EXCEPT !["main"] = Onward(on)]
    /\ IF isRegisterDirty /\ on THEN isRegisterDirty' = FALSE /\ UNCHANGED shownSettings
       ELSE shownSettings' = version /\ UNCHANGED isRegisterDirty

\* setRegisterConfig: edits are kept from events, unless the register runs.
SetRegisterConfig(on, version) ==
    IF isRegisterDirty /\ ~on THEN UNCHANGED <<shownRegisters, formVars>>
    ELSE /\ ShowRegister("main", on)
         /\ shownSettings' = version /\ isRegisterDirty' = FALSE

EventOfMain ==
    /\ streams["main"] # NoEvent
    /\ SetRegisterConfig(streams["main"].on, streams["main"].settings)
    /\ streams' = [streams EXCEPT !["main"] = NoEvent]
    /\ isLoadingRegister' = FALSE
    /\ UNCHANGED <<followed, registers, settings, hadSettings, savingRegisters, streamed,
                   registerCalls, registerUse>>

EventOfOther(r) ==
    /\ r # "main" /\ streams[r] # NoEvent /\ ShowRegister(r, streams[r].on)
    /\ streams' = [streams EXCEPT ![r] = NoEvent]
    /\ UNCHANGED <<followed, registers, settings, hadSettings, formVars, isLoadingRegister,
                   savingRegisters, streamed, registerCalls, registerUse>>

\* The card is shown once the form is there.
CardShown == ~isLoadingRegister /\ shownRegisters["main"] # "none"

\* The fields of the form are disabled while the register runs.
Editable == CardShown /\ shownRegisters["main"] = "off"

\* The setters of the store.  The number of uses left makes a version that is
\* new; the mark is set whatever the field was before.
SetRegisterField ==
    /\ shownSettings' = RegisterUses + 1 - registerUse /\ isRegisterDirty' = TRUE
    /\ UNCHANGED <<shownRegisters, isLoadingRegister, savingRegisters, registerCalls>>

\* Its mode, the target of the mode, threads, proxy and interval
EditTask == Editable /\ UseRegister /\ SetRegisterField

\* The timeouts of mail, and a provider more
EditMail == Editable /\ UseRegister /\ SetRegisterField

\* A provider: whether it is used, its type, what its type asks for, and one less
EditProvider == Editable /\ UseRegister /\ SetRegisterField

\* The domains of a provider, and the levels below them
EditDomains == Editable /\ UseRegister /\ SetRegisterField

AskRegister(op, r) ==
    /\ UseRegister /\ savingRegisters' = savingRegisters \cup {r}
    /\ registerCalls' = registerCalls \cup {NewRegisterCall(op, r)}
    /\ UNCHANGED <<shownRegisters, formVars, isLoadingRegister>>

\* A panel offers its buttons while no request of them is on the way; the
\* reset only while its register is shown stopped.
MainPanel == CardShown /\ "main" \notin savingRegisters
NewPanel == CardShown /\ "new" \in followed /\ "new" \notin savingRegisters
GptFreePanel == CardShown /\ "gptfree" \in followed /\ "gptfree" \notin savingRegisters

Toggled(r) == IF shownRegisters[r] = "on" THEN "stop" ELSE "start"

SaveRegister == MainPanel /\ Editable /\ AskRegister("save", "main")

ToggleRegister == MainPanel /\ AskRegister(Toggled("main"), "main")

ResetRegister == MainPanel /\ Editable /\ AskRegister("reset", "main")

\* The buttons of the mailbox pool do not wait for the other requests.
ResetOutlookPool == Editable /\ AskRegister("outlook", "main")

ToggleNewRegister ==
    NewPanel /\ shownRegisters["new"] # "none" /\ AskRegister(Toggled("new"), "new")

ResetNewRegisterStats == NewPanel /\ shownRegisters["new"] # "on" /\ AskRegister("reset", "new")

\* Starting it sends the form, which the service saves.
ToggleGptFreeRegister ==
    GptFreePanel /\ shownRegisters["gptfree"] # "none" /\ AskRegister(Toggled("gptfree"), "gptfree")

ResetGptFreeRegisterStats ==
    GptFreePanel /\ shownRegisters["gptfree"] # "on" /\ AskRegister("reset", "gptfree")

RegisterSaved(c) ==
    /\ c.op # "load" /\ RegisterAnswered(c) /\ TakeRegister(c)
    /\ savingRegisters' = savingRegisters \ {c.register}
    /\ UNCHANGED isLoadingRegister

(***************************************************************************)
(* The specification.                                                      *)
(***************************************************************************)
RegisterUser ==
    \/ EditTask \/ EditMail \/ EditProvider \/ EditDomains
    \/ SaveRegister \/ ToggleRegister \/ ResetRegister \/ ResetOutlookPool
    \/ ToggleNewRegister \/ ResetNewRegisterStats
    \/ ToggleGptFreeRegister \/ ResetGptFreeRegisterStats

RegisterWorks ==
    \/ \E c \in registerCalls : RegisterServed(c) \/ RegisterLoaded(c) \/ RegisterSaved(c)
    \/ EventOfMain \/ \E r \in Registers : StreamSends(r) \/ EventOfOther(r)

RegisterNext ==
    \/ RegisterUser \/ RegisterWorks
    \/ \E c \in registerCalls : RegisterRefused(c)
    \/ \E r \in Registers : RegisterStops(r)

RegisterSpec == RegisterInit /\ [][RegisterNext]_registerVars
FairRegisterSpec == RegisterSpec /\ WF_registerVars(RegisterWorks)

RegisterTypeOK ==
    /\ followed \subseteq Registers
    /\ registers \in [Registers -> BOOLEAN] /\ settings \in Versions
    /\ hadSettings \subseteq Versions /\ shownSettings \in Versions
    /\ shownRegisters \in [Registers -> {"none", "off", "on"}]
    /\ isRegisterDirty \in BOOLEAN /\ isLoadingRegister \in BOOLEAN
    /\ savingRegisters \subseteq Registers
    /\ streams \in [Registers -> Event] /\ streamed \in [Registers -> Event]
    /\ registerCalls \in SUBSET RegisterCall /\ registerUse \in Nat

\* A form that is not marked as edited shows settings the service has had,
\* whatever order the answers and the events came in; and a button that is
\* disabled by a request waits for one.
UnsavedIsMarked ==
    /\ ~isRegisterDirty => shownSettings \in hadSettings
    /\ \A r \in savingRegisters : \E c \in registerCalls : c.register = r /\ c.op # "load"

\* When the user leaves off, every button comes back.
RegisterSettled == savingRegisters = {} /\ ~isLoadingRegister
RegisterSettles == <>[]RegisterSettled
=============================================================================
