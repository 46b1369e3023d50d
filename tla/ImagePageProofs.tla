-------------------------- MODULE ImagePageProofs ---------------------------
(***************************************************************************)
(* The image page keeps its types, its keys and its loops together, and    *)
(* what it stores, stops and deletes stays so: for any conversations,      *)
(* turns, images and loops, and any bounds.                                *)
(*                                                                         *)
(* The invariant says of every conversation that is held anywhere (in the  *)
(* store, the memory of a page, a load under way or the snapshot of a      *)
(* loop) that its ids were given out and that it is not stamped later than *)
(* the clock.  An id given out anew is then none of an image or turn that  *)
(* exists, and a change that is stamped now is newer than what it changes. *)
(***************************************************************************)
EXTENDS ImagePage, TLAPS

(***************************************************************************)
(* What is said of turns, conversations and memories: of what ids they     *)
(* are made, and up to when they are stamped.                              *)
(***************************************************************************)
TurnOK(turn, ids) ==
    /\ turn \in Turn
    /\ \A k \in Tasks : turn.images[k] # "none" => k \in ids

TurnsOK(turns, ids) ==
    /\ turns \in [Turns -> Turn \cup {NoTurn}]
    /\ \A t \in Turns : turns[t] # NoTurn => t \in ids /\ TurnOK(turns[t], ids)

ConvOK(c, conv, ids, now) ==
    /\ conv \in Conv /\ c \in ids /\ conv.at <= now
    /\ TurnsOK(conv.turns, ids)

MemOK(M, ids, now) ==
    /\ M \in Memory
    /\ \A c \in Convs : M[c] # NoConv => ConvOK(c, M[c], ids, now)

\* Images a user stopped are stopped in the next turn, or gone from it.
KeepsStopped(turn, next) ==
    \A k \in Tasks : turn.images[k] = "stopped" => next.images[k] \in {"stopped", "none", "deleted"}

(***************************************************************************)
(* The operators on turns.                                                 *)
(***************************************************************************)
LEMMA DerivedOK ==
    ASSUME NEW turn, NEW ids, TurnOK(turn, ids)
    PROVE  TurnOK(Derived(turn), ids) /\ Derived(turn).images = turn.images
BY DEF TurnOK, Derived, Turn

LEMMA NewTurnOK ==
    ASSUME NEW ids, NEW ks \in SUBSET Tasks, ks \subseteq ids
    PROVE  TurnOK(NewTurn(ks), ids)
<1>1. [k \in Tasks |-> IF k \in ks THEN "loading" ELSE "none"] \in [Tasks -> Images]
    BY DEF Images
<1> QED BY <1>1 DEF TurnOK, NewTurn, Turn

\* A turn given other images.
LEMMA OtherImages ==
    ASSUME NEW turn, NEW ids, TurnOK(turn, ids), NEW images \in [Tasks -> Images],
           \A k \in Tasks : images[k] # "none" => k \in ids
    PROVE  /\ TurnOK([turn EXCEPT !.images = images], ids)
           /\ [turn EXCEPT !.images = images].images = images
BY DEF TurnOK, Turn

LEMMA DerivedImages ==
    ASSUME NEW turn, NEW ids, TurnOK(turn, ids), NEW images \in [Tasks -> Images],
           \A k \in Tasks : images[k] # "none" => k \in ids,
           NEW next, next = Derived([turn EXCEPT !.images = images])
    PROVE  TurnOK(next, ids) /\ next.images = images
<1>1. PICK given : given = [turn EXCEPT !.images = images]
    OBVIOUS
<1>2. TurnOK(given, ids) /\ given.images = images
    BY <1>1, OtherImages
<1>3. next = Derived(given)
    BY <1>1
<1> QED BY <1>2, <1>3, DerivedOK

LEMMA AsImageOK ==
    ASSUME NEW answer \in Lifecycle!Phases, NEW image \in Images
    PROVE  AsImage(answer, image) \in Images
BY DEF AsImage, Images, Errors, Lifecycle!Phases, Lifecycle!Ended

LEMMA PolledOK ==
    ASSUME NEW turn, NEW ids, TurnOK(turn, ids), NEW got \in [Tasks -> Lifecycle!Phases]
    PROVE  TurnOK(Polled(turn, got), ids) /\ KeepsStopped(turn, Polled(turn, got))
<1> DEFINE images == [k \in Tasks |-> IF turn.images[k] \in {"none", "stopped"} THEN turn.images[k]
                                      ELSE AsImage(got[k], turn.images[k])]
<1>1. images \in [Tasks -> Images]
    BY AsImageOK DEF TurnOK, Turn
<1>2. \A k \in Tasks : images[k] # "none" => k \in ids
    BY DEF TurnOK
<1>3. \A k \in Tasks : turn.images[k] = "stopped" => images[k] = "stopped"
    OBVIOUS
<1>4. Polled(turn, got) = Derived([turn EXCEPT !.images = images])
    BY DEF Polled
<1> HIDE DEF images
<1>5. PICK next : next = Polled(turn, got)
    OBVIOUS
<1>6. TurnOK(next, ids) /\ next.images = images
    BY <1>1, <1>2, <1>4, <1>5, DerivedImages
<1>7. KeepsStopped(turn, next)
    BY <1>3, <1>6 DEF KeepsStopped
<1> QED BY <1>5, <1>6, <1>7

LEMMA StoppedTurnOK ==
    ASSUME NEW turn, NEW ids, TurnOK(turn, ids), NEW k \in Tasks
    PROVE  TurnOK(StoppedTurn(turn, k), ids) /\ KeepsStopped(turn, StoppedTurn(turn, k))
<1> DEFINE images == [turn.images EXCEPT ![k] = IF turn.images[k] = "none" THEN "none" ELSE "stopped"]
<1>1. images \in [Tasks -> Images] /\ \A x \in Tasks : images[x] # "none" => x \in ids
    BY DEF TurnOK, Turn, Images, Errors
<1>2. StoppedTurn(turn, k) = Derived([turn EXCEPT !.images = images])
    BY DEF StoppedTurn, TurnOK, Turn
<1>3. \A x \in Tasks : turn.images[x] = "stopped" => images[x] = "stopped"
    BY DEF TurnOK, Turn
<1> HIDE DEF images
<1>5. PICK next : next = StoppedTurn(turn, k)
    OBVIOUS
<1>6. TurnOK(next, ids) /\ next.images = images
    BY <1>1, <1>2, <1>5, DerivedImages
<1>7. KeepsStopped(turn, next)
    BY <1>3, <1>6 DEF KeepsStopped
<1> QED BY <1>5, <1>6, <1>7

LEMMA ContinuedTurnOK ==
    ASSUME NEW turn, NEW ids, TurnOK(turn, ids), NEW k \in Tasks
    PROVE  /\ TurnOK(ContinuedTurn(turn, k), ids)
           /\ \A x \in Tasks \ {k} : ContinuedTurn(turn, k).images[x] = turn.images[x]
BY DEF TurnOK, ContinuedTurn, Turn, Images, Errors

LEMMA RecoveredOK ==
    ASSUME NEW turn, NEW ids, TurnOK(turn, ids)
    PROVE  TurnOK(Recovered(turn), ids)
BY DerivedOK DEF Recovered

LEMMA SyncedOK ==
    ASSUME NEW turn, NEW ids, TurnOK(turn, ids), NEW got \in [Tasks -> Lifecycle!Phases]
    PROVE  TurnOK(Synced(turn, got), ids)
<1> DEFINE images == [k \in Tasks |-> IF turn.images[k] \in Unsettled THEN AsImage(got[k], turn.images[k])
                                      ELSE turn.images[k]]
           next == [turn EXCEPT !.images = images]
<1>1. images \in [Tasks -> Images]
    BY AsImageOK DEF TurnOK, Turn
<1>2. \A k \in Tasks : images[k] # "none" => k \in ids
    BY DEF TurnOK, Unsettled
<1>3. Synced(turn, got) = IF next.images = turn.images THEN turn ELSE Derived(next)
    BY DEF Synced
<1> HIDE DEF images
<1>4. TurnOK(next, ids)
    BY <1>1, <1>2, OtherImages
<1> HIDE DEF next
<1> QED BY <1>3, <1>4, DerivedOK

(***************************************************************************)
(* Conversations and memories.  More ids and a later clock only allow more.*)
(***************************************************************************)
LEMMA TurnsGrow ==
    ASSUME NEW turns, NEW ids, NEW ids2, ids \subseteq ids2, TurnsOK(turns, ids)
    PROVE  TurnsOK(turns, ids2)
BY DEF TurnsOK, TurnOK

LEMMA ConvGrows ==
    ASSUME NEW c, NEW conv, NEW ids, NEW ids2, ids \subseteq ids2,
           NEW now \in Nat, NEW now2 \in Nat, now <= now2, ConvOK(c, conv, ids, now)
    PROVE  ConvOK(c, conv, ids2, now2)
<1>1. TurnsOK(conv.turns, ids2)
    BY TurnsGrow DEF ConvOK
<1>2. conv.at \in Nat
    BY DEF ConvOK, Conv
<1> QED BY <1>1, <1>2 DEF ConvOK

LEMMA MemGrows ==
    ASSUME NEW M, NEW ids, NEW ids2, ids \subseteq ids2,
           NEW now \in Nat, NEW now2 \in Nat, now <= now2, MemOK(M, ids, now)
    PROVE  MemOK(M, ids2, now2)
BY ConvGrows DEF MemOK

LEMMA NothingOK ==
    ASSUME NEW ids, NEW now
    PROVE  MemOK(Nothing, ids, now)
BY DEF MemOK, Nothing, Memory

\* One conversation of a memory replaced, or removed.
LEMMA MemExcept ==
    ASSUME NEW M, NEW ids, NEW now, MemOK(M, ids, now), NEW c \in Convs, NEW conv,
           conv = NoConv \/ ConvOK(c, conv, ids, now)
    PROVE  MemOK([M EXCEPT ![c] = conv], ids, now)
BY DEF MemOK, Memory, ConvOK

\* One turn of a conversation replaced, or removed.
LEMMA TurnsExcept ==
    ASSUME NEW turns, NEW ids, TurnsOK(turns, ids), NEW t \in Turns, NEW turn,
           turn = NoTurn \/ (t \in ids /\ TurnOK(turn, ids))
    PROVE  TurnsOK([turns EXCEPT ![t] = turn], ids)
BY DEF TurnsOK, TurnOK

\* A conversation made of turns, stamped with at.
LEMMA ConvMade ==
    ASSUME NEW c, NEW turns, NEW ids, NEW at \in Nat, c \in ids, TurnsOK(turns, ids),
           NEW conv, conv = [turns |-> turns, at |-> at]
    PROVE  ConvOK(c, conv, ids, at) /\ conv.at = at /\ conv.turns = turns
BY DEF ConvOK, TurnsOK, Conv

\* A conversation is stamped as late as it is stamped.
LEMMA OwnStamp ==
    ASSUME NEW c, NEW conv, NEW ids, conv \in Conv, c \in ids, TurnsOK(conv.turns, ids)
    PROVE  ConvOK(c, conv, ids, conv.at)
<1>1. PICK at \in Nat : at = conv.at
    BY DEF Conv
<1>2. at <= at
    OBVIOUS
<1> QED BY <1>1, <1>2 DEF ConvOK

LEMMA NoTurns ==
    ASSUME NEW ids
    PROVE  TurnsOK([x \in Turns |-> NoTurn], ids)
BY DEF TurnsOK

LEMMA NowOK ==
    ASSUME clock \in Nat
    PROVE  Now \in Nat /\ clock <= Now
BY DEF Now

LEMMA RestampedOK ==
    ASSUME clock \in Nat, NEW c, NEW conv, NEW ids, ConvOK(c, conv, ids, clock),
           NEW turns, TurnsOK(turns, ids), NEW next, next = Restamped(conv, turns)
    PROVE  /\ ConvOK(c, next, ids, next.at) /\ next.at \in Nat
           /\ next.at = conv.at \/ next.at = Now
           /\ next.turns = turns
<1>1. PICK at : at = IF Refreshes(conv.turns, turns) THEN Now ELSE conv.at
    OBVIOUS
<1>2. at \in Nat /\ (at = conv.at \/ at = Now)
    BY <1>1, NowOK DEF ConvOK, Conv
<1>3. next = [turns |-> turns, at |-> at]
    BY <1>1 DEF Restamped
<1> QED BY <1>2, <1>3, ConvMade DEF ConvOK

(***************************************************************************)
(* The invariant.                                                          *)
(***************************************************************************)
Held ==
    /\ MemOK(store, used, clock)
    /\ \A m \in Mounts : /\ MemOK(mem[m], used, clock)
                         /\ load[m] # NoLoad => MemOK(load[m], used, clock)
    /\ \A l \in Loops : loops[l] # NoLoop => ConvOK(loops[l].c, loops[l].snapshot, used, clock)

\* Nothing is of a page that is yet to be shown.
MountsBegun ==
    /\ \A m \in Mounts : m > mount => mem[m] = Nothing /\ load[m] = NoLoad
    /\ \A l \in Loops : loops[l] # NoLoop => loops[l].m <= mount
    /\ \A a \in asks : a.m <= mount
    /\ \A x \in calls : x[1] <= mount

ImageInv == ImageTypeOK /\ Held /\ MountsBegun /\ KeysHaveLoops /\ OneLoopPerTurn

LEMMA SaveOK ==
    ASSUME NEW ids, NEW now, MemOK(store, ids, now), NEW items, MemOK(items, ids, now), Save(items)
    PROVE  MemOK(store', ids, now)
<1>1. ASSUME NEW c \in Convs
      PROVE  /\ store'[c] = NoConv \/ ConvOK(c, store'[c], ids, now)
             /\ store'[c] \in Conv \cup {NoConv}
    BY DEF Save, Latest, MemOK, Memory
<1>2. store' = [c \in Convs |-> store'[c]]
    BY DEF Save
<1> QED BY <1>1, <1>2 DEF MemOK, Memory

LEMMA SetMemoryOK ==
    ASSUME ImageTypeOK, NEW ids, NEW now, \A m \in Mounts : MemOK(mem[m], ids, now),
           NEW m \in Mounts, NEW M, MemOK(M, ids, now), SetMemory(m, M)
    PROVE  /\ mem' = [mem EXCEPT ![m] = M]
           /\ mem' \in [Mounts -> Memory]
           /\ \A x \in Mounts : MemOK(mem'[x], ids, now)
           /\ calls' \in SUBSET ({m} \X Turns)
<1>1. mem' = [mem EXCEPT ![m] = M]
    BY DEF SetMemory
<1>2. M \in Memory
    BY DEF MemOK
<1>3. calls' = IF Shown(m) THEN {m} \X Woken(M) ELSE {}
    BY DEF SetMemory
<1>4. Woken(M) \subseteq Turns
    BY DEF Woken
<1> QED BY <1>1, <1>2, <1>3, <1>4 DEF ImageTypeOK

LEMMA PutOK ==
    ASSUME ImageTypeOK, Held, NEW m \in Mounts, NEW c \in Convs, NEW conv,
           used \subseteq used', ConvOK(c, conv, used', conv.at), Put(m, c, conv)
    PROVE  /\ clock' \in Nat /\ clock <= clock' /\ conv.at <= clock'
           /\ store' \in Memory /\ MemOK(store', used', clock')
           /\ mem' = [mem EXCEPT ![m] = [mem[m] EXCEPT ![c] = conv]]
           /\ mem' \in [Mounts -> Memory]
           /\ \A x \in Mounts : MemOK(mem'[x], used', clock')
           /\ calls' \in SUBSET ({m} \X Turns)
           /\ store' = [store EXCEPT ![c] = Latest(store[c], conv)]
<1>1. conv \in Conv /\ conv.at \in Nat /\ conv # NoConv
    BY NothingAssumption DEF ConvOK, Conv
<1>2. clock \in Nat
    BY DEF ImageTypeOK
<1>3. clock' = IF conv.at > clock THEN conv.at ELSE clock
    BY DEF Put
<1>4. clock' \in Nat /\ clock <= clock' /\ conv.at <= clock'
    BY <1>1, <1>2, <1>3
<1>5. ConvOK(c, conv, used', clock')
    BY <1>1, <1>4, ConvGrows
<1>6. MemOK(store, used', clock') /\ \A x \in Mounts : MemOK(mem[x], used', clock')
    BY <1>2, <1>4, MemGrows DEF Held
<1>7. MemOK(One(c, conv), used', clock')
    BY <1>5, NothingOK, MemExcept DEF One
<1>8. Save(One(c, conv))
    BY DEF Put
<1>9. MemOK(store', used', clock')
    BY <1>6, <1>7, <1>8, SaveOK
<1>10. MemOK([mem[m] EXCEPT ![c] = conv], used', clock')
    BY <1>5, <1>6, MemExcept
<1>11. SetMemory(m, [mem[m] EXCEPT ![c] = conv])
    BY DEF Put
<1>12. store' = [store EXCEPT ![c] = Latest(store[c], conv)]
    BY <1>1, <1>8 DEF Save, One, Nothing, ImageTypeOK, Memory
<1>13. store' \in Memory
    BY <1>9 DEF MemOK
<1>14. PICK M : M = [mem[m] EXCEPT ![c] = conv]
    OBVIOUS
<1>15. /\ mem' = [mem EXCEPT ![m] = M] /\ mem' \in [Mounts -> Memory]
       /\ \A x \in Mounts : MemOK(mem'[x], used', clock')
       /\ calls' \in SUBSET ({m} \X Turns)
    BY <1>6, <1>10, <1>11, <1>14, SetMemoryOK
<1> QED BY <1>4, <1>9, <1>12, <1>13, <1>14, <1>15

(***************************************************************************)
(* A step that leaves the pages, their keys and their loads as they are.   *)
(***************************************************************************)
\* The page's memory and the store go on.
MemoryStays ==
    /\ clock' \in Nat /\ clock <= clock' /\ used \subseteq used'
    /\ store' \in Memory /\ MemOK(store', used', clock')
    /\ mem' \in [Mounts -> Memory]
    /\ \A x \in Mounts : MemOK(mem'[x], used', clock') /\ (x > mount => mem'[x] = mem[x])
    /\ calls' \subseteq Mounts \X Turns /\ \A x \in calls' : x[1] <= mount

\* Each loop goes on, for the turn and on the page it was started for.
LoopsStay ==
    /\ loops' \in [Loops -> LoopRecs \cup {NoLoop}]
    /\ \A l \in Loops :
        /\ loops'[l] = NoLoop <=> loops[l] = NoLoop
        /\ loops[l] # NoLoop => /\ loops'[l].m = loops[l].m /\ loops'[l].c = loops[l].c
                                /\ loops'[l].t = loops[l].t /\ loops'[l].snapshot = loops[l].snapshot

AskRecs == [op : {"stop", "continue"}, m : Mounts, c : Convs, t : Turns, k : Tasks]
AsksStay == asks' \subseteq AskRecs /\ \A a \in asks' : a.m <= mount

LEMMA PageStays ==
    ASSUME ImageInv, MemoryStays, LoopsStay, AsksStay,
           phase' \in [Tasks -> Lifecycle!Phases], ops' \in Nat,
           used' \subseteq Convs \cup Turns \cup Tasks,
           UNCHANGED <<mount, open, keys, load>>
    PROVE  ImageInv'
<1>1. ImageTypeOK'
    BY DEF ImageInv, ImageTypeOK, MemoryStays, LoopsStay, AsksStay, AskRecs
<1>2. clock \in Nat /\ clock' \in Nat /\ clock <= clock' /\ used \subseteq used'
    BY DEF ImageInv, ImageTypeOK, MemoryStays
<1>3. Held'
    <2>1. \A m \in Mounts : load[m] # NoLoad => MemOK(load[m], used', clock')
        BY <1>2, MemGrows DEF ImageInv, Held
    <2>2. \A l \in Loops : loops'[l] # NoLoop => ConvOK(loops'[l].c, loops'[l].snapshot, used', clock')
        <3> SUFFICES ASSUME NEW l \in Loops, loops'[l] # NoLoop
                     PROVE  ConvOK(loops'[l].c, loops'[l].snapshot, used', clock')
            OBVIOUS
        <3>1. ConvOK(loops[l].c, loops[l].snapshot, used, clock)
            BY DEF ImageInv, Held, LoopsStay
        <3>2. loops'[l].c = loops[l].c /\ loops'[l].snapshot = loops[l].snapshot
            BY DEF LoopsStay
        <3>3. ConvOK(loops[l].c, loops[l].snapshot, used', clock')
            BY <1>2, <3>1, ConvGrows
        <3> QED BY <3>2, <3>3
    <2> QED BY <2>1, <2>2 DEF Held, MemoryStays
<1>4. MountsBegun'
    BY DEF ImageInv, MountsBegun, MemoryStays, LoopsStay, AsksStay
<1>5. KeysHaveLoops'
    BY DEF ImageInv, KeysHaveLoops, LoopsStay
<1>6. OneLoopPerTurn'
    BY DEF ImageInv, OneLoopPerTurn, LoopsStay
<1> QED BY <1>1, <1>3, <1>4, <1>5, <1>6 DEF ImageInv

LEMMA PutStays ==
    ASSUME ImageInv, NEW m \in Mounts, m <= mount, NEW c \in Convs, NEW conv,
           used \subseteq used', ConvOK(c, conv, used', conv.at), Put(m, c, conv)
    PROVE  MemoryStays
<1>1. ImageTypeOK /\ Held
    BY DEF ImageInv
<1>2. /\ clock' \in Nat /\ clock <= clock'
      /\ store' \in Memory /\ MemOK(store', used', clock')
      /\ mem' = [mem EXCEPT ![m] = [mem[m] EXCEPT ![c] = conv]]
      /\ mem' \in [Mounts -> Memory]
      /\ \A x \in Mounts : MemOK(mem'[x], used', clock')
      /\ calls' \in SUBSET ({m} \X Turns)
    BY <1>1, PutOK
<1>3. \A x \in Mounts : x > mount => mem'[x] = mem[x]
    BY <1>1, <1>2 DEF ImageTypeOK, Mounts
<1>4. calls' \subseteq Mounts \X Turns /\ \A x \in calls' : x[1] <= mount
    BY <1>2
<1> QED BY <1>2, <1>3, <1>4 DEF MemoryStays

LEMMA StillStays ==
    ASSUME ImageInv, used \subseteq used', Still
    PROVE  MemoryStays
<1>1. MemOK(store, used', clock) /\ \A x \in Mounts : MemOK(mem[x], used', clock)
    BY MemGrows DEF ImageInv, Held, ImageTypeOK
<1> QED BY <1>1 DEF ImageInv, ImageTypeOK, MountsBegun, MemoryStays, Still

\* A conversation removed from the page that is shown.
LEMMA RemoveStays ==
    ASSUME ImageInv, NEW c \in Convs, Remove(c), used' = used
    PROVE  MemoryStays
<1>1. ImageTypeOK /\ Held /\ mount \in Mounts /\ clock \in Nat
    BY DEF ImageInv, ImageTypeOK
<1>2. PICK M : M = [mem[mount] EXCEPT ![c] = NoConv]
    OBVIOUS
<1>3. MemOK(M, used, clock)
    BY <1>1, <1>2, MemExcept DEF Held
<1>4. SetMemory(mount, M)
    BY <1>2 DEF Remove, M0
<1>5. /\ mem' = [mem EXCEPT ![mount] = M] /\ mem' \in [Mounts -> Memory]
      /\ \A x \in Mounts : MemOK(mem'[x], used, clock)
      /\ calls' \in SUBSET ({mount} \X Turns)
    BY <1>1, <1>3, <1>4, SetMemoryOK DEF Held
<1>6. MemOK(store', used, clock)
    BY <1>1, MemExcept DEF Remove, Held
<1>7. clock' = clock /\ used' = used
    BY DEF Remove
<1>8. \A x \in Mounts : x > mount => mem'[x] = mem[x]
    BY <1>1, <1>5 DEF ImageTypeOK, Mounts
<1>9. calls' \subseteq Mounts \X Turns /\ \A x \in calls' : x[1] <= mount
    BY <1>1, <1>5 DEF Mounts
<1> QED BY <1>1, <1>5, <1>6, <1>7, <1>8, <1>9 DEF MemoryStays, MemOK

LEMMA SameLoops ==
    ASSUME ImageInv, UNCHANGED loops
    PROVE  LoopsStay
BY DEF ImageInv, ImageTypeOK, LoopsStay

LEMMA SameAsks ==
    ASSUME ImageInv, UNCHANGED asks
    PROVE  AsksStay
BY DEF ImageInv, ImageTypeOK, MountsBegun, AsksStay, AskRecs

\* What is known of a turn that a memory has.
LEMMA HeldTurn ==
    ASSUME NEW M, NEW ids, NEW now, MemOK(M, ids, now), NEW c \in Convs, NEW t \in Turns, Has(M, c, t)
    PROVE  /\ ConvOK(c, M[c], ids, now) /\ TurnsOK(M[c].turns, ids) /\ c \in ids /\ t \in ids
           /\ TurnOK(M[c].turns[t], ids)
BY DEF Has, MemOK, ConvOK, TurnsOK

(***************************************************************************)
(* A step that puts a conversation in a page's memory and in the store: it *)
(* is there already, new, or that of a loop; it is stamped no earlier than *)
(* before, and the images its user stopped stay stopped but for those in   *)
(* free.                                                                   *)
(***************************************************************************)
Known(m, c) ==
    \/ mem[m][c] # NoConv \/ c \notin used
    \/ \E l \in Loops : loops[l] # NoLoop /\ loops[l].c = c

Follows(conv, next, free) ==
    /\ conv.at <= next.at
    /\ \A t \in Turns, k \in Tasks \ free :
        (/\ conv.turns[t] # NoTurn /\ next.turns[t] # NoTurn
         /\ conv.turns[t].images[k] = "stopped")
        => next.turns[t].images[k] \in {"stopped", "none", "deleted"}

\* The image a turn has stopped, in what replaces it.
StaysStopped(turn, next, free) ==
    \A k \in Tasks \ free :
        (turn # NoTurn /\ next # NoTurn /\ turn.images[k] = "stopped")
        => next.images[k] \in {"stopped", "none", "deleted"}

\* The turns of the conversation that is there, or of one to be put there.
IsOf(turns, m, c) == Known(m, c) /\ (mem[m][c] # NoConv => turns = mem[m][c].turns)

\* A conversation is stamped now, or as it was.
Stamped(next, m, c) == next.at = Now \/ (mem[m][c] # NoConv => next.at = mem[m][c].at)

Puts(m, free) == \E c \in Convs : \E next :
    /\ Put(m, c, next) /\ ConvOK(c, next, used', next.at) /\ used \subseteq used'
    /\ Known(m, c)
    /\ mem[m][c] # NoConv => Follows(mem[m][c], next, free)

LEMMA PutsStay ==
    ASSUME ImageInv, NEW m \in Mounts, m <= mount, NEW free, Puts(m, free)
    PROVE  MemoryStays
BY PutStays DEF Puts

\* One turn of a conversation is replaced, or goes.
LEMMA ConvPut ==
    ASSUME ImageInv, used \subseteq used', NEW m \in Mounts, NEW c \in Convs, NEW t \in Turns, NEW free,
           NEW turns, TurnsOK(turns, used'), IsOf(turns, m, c),
           NEW turn, StaysStopped(turns[t], turn, free),
           NEW next, ConvOK(c, next, used', next.at), next.turns = [turns EXCEPT ![t] = turn],
           Stamped(next, m, c), Put(m, c, next)
    PROVE  Puts(m, free)
<1>1. Now \in Nat /\ clock <= Now
    BY NowOK DEF ImageInv, ImageTypeOK
<1>2. ASSUME mem[m][c] # NoConv
      PROVE  Follows(mem[m][c], next, free)
    <2>1. turns = mem[m][c].turns /\ mem[m][c].at <= clock /\ mem[m][c].at \in Nat /\ clock \in Nat
        BY <1>2 DEF ImageInv, ImageTypeOK, Held, MemOK, ConvOK, Conv, IsOf
    <2>2. mem[m][c].at <= next.at
        BY <1>1, <1>2, <2>1 DEF Stamped
    <2>3. ASSUME NEW u \in Turns, NEW k \in Tasks \ free, turns[u] # NoTurn, next.turns[u] # NoTurn,
                 turns[u].images[k] = "stopped"
          PROVE  next.turns[u].images[k] \in {"stopped", "none", "deleted"}
        <3>1. next.turns[u] = IF u = t THEN turn ELSE turns[u]
            BY DEF TurnsOK
        <3> QED BY <2>3, <3>1 DEF StaysStopped
    <2> QED BY <2>1, <2>2, <2>3 DEF Follows
<1>3. Known(m, c)
    BY DEF IsOf
<1> QED BY <1>2, <1>3 DEF Puts

\* One turn of a conversation is replaced now.
LEMMA TurnPut ==
    ASSUME ImageInv, used \subseteq used', NEW m \in Mounts, NEW c \in Convs, NEW t \in Turns,
           NEW turns, TurnsOK(turns, used'), c \in used', IsOf(turns, m, c),
           NEW turn, turn = NoTurn \/ (t \in used' /\ TurnOK(turn, used')),
           turns[t] # NoTurn /\ turn # NoTurn => KeepsStopped(turns[t], turn),
           Put(m, c, [turns |-> [turns EXCEPT ![t] = turn], at |-> Now])
    PROVE  Puts(m, {})
<1>1. PICK nexts : nexts = [turns EXCEPT ![t] = turn]
    OBVIOUS
<1>2. TurnsOK(nexts, used')
    BY <1>1, TurnsExcept
<1>3. Now \in Nat
    BY NowOK DEF ImageInv, ImageTypeOK
<1>4. PICK next : next = [turns |-> nexts, at |-> Now]
    OBVIOUS
<1>5. ConvOK(c, next, used', next.at) /\ next.at = Now /\ next.turns = nexts
    BY <1>2, <1>3, <1>4, ConvMade
<1>6. Put(m, c, next)
    BY <1>1, <1>4
<1>7. PICK free : free = {}
    OBVIOUS
<1>8. StaysStopped(turns[t], turn, free)
    BY <1>7 DEF KeepsStopped, StaysStopped
<1>9. ConvOK(c, next, used', next.at) /\ next.turns = [turns EXCEPT ![t] = turn] /\ Stamped(next, m, c)
    BY <1>1, <1>5 DEF Stamped
<1>10. Puts(m, free)
    BY <1>6, <1>8, <1>9, ConvPut
<1> QED BY <1>7, <1>10

(***************************************************************************)
(* The user's operations.                                                  *)
(***************************************************************************)
LEMMA ShownMount ==
    ASSUME ImageInv
    PROVE  mount \in Mounts /\ mount <= mount /\ MemOK(M0, used, clock) /\ M0 = mem[mount]
BY DEF ImageInv, ImageTypeOK, Held, M0, Mounts

\* A turn that is added has an id that was not given out.
LEMMA AddTurnPuts ==
    ASSUME ImageInv, NEW c \in Convs, NEW conv,
           (M0[c] # NoConv /\ conv = M0[c]) \/ (c \notin used /\ TurnsOK(conv.turns, used)),
           NEW t \in Turns, t \notin used, NEW ks \in SUBSET Tasks, AddTurn(c, conv, t, ks)
    PROVE  Puts(mount, {})
<1>1. used' = used \cup {c, t} \cup ks /\ used \subseteq used'
    BY DEF AddTurn
<1>2. M0[c] # NoConv => TurnsOK(M0[c].turns, used) /\ c \in used
    BY ShownMount DEF MemOK, ConvOK
<1>3. TurnsOK(conv.turns, used) /\ TurnsOK(conv.turns, used')
    BY <1>1, <1>2, TurnsGrow
<1>4. conv.turns[t] = NoTurn
    BY <1>3 DEF TurnsOK
<1>5. TurnOK(NewTurn(ks), used')
    BY <1>1, NewTurnOK
<1>6. Put(mount, c, [turns |-> [conv.turns EXCEPT ![t] = NewTurn(ks)], at |-> Now])
    BY DEF AddTurn
<1>7. IsOf(conv.turns, mount, c)
    BY <1>2, ShownMount DEF Known, IsOf
<1>8. c \in used' /\ t \in used'
    BY <1>1
<1> QED BY <1>1, <1>3, <1>4, <1>5, <1>6, <1>7, <1>8, ShownMount, TurnPut

\* What a submission and a regeneration add.
Adds(c, conv, t, ks) ==
    /\ Counted /\ AddTurn(c, conv, t, ks) /\ t \notin used
    /\ (M0[c] # NoConv /\ conv = M0[c]) \/ (c \notin used /\ TurnsOK(conv.turns, used))

LEMMA SubmitAdds ==
    ASSUME ImageInv, Submit \/ \E c \in Convs, t \in Turns : Regenerate(c, t)
    PROVE  \E t \in Turns, ks \in SUBSET Tasks, c \in Convs : \E conv : Adds(c, conv, t, ks)
<1>1. PICK t : t = CHOOSE x \in Fresh(Turns) : TRUE
    OBVIOUS
<1>2. t \in Turns /\ t \notin used /\ Counted
    BY <1>1 DEF Submit, Regenerate, Fresh, ByUser
<1>3. ASSUME Submit
      PROVE  \E ks \in SUBSET Tasks, x \in Convs : \E y : Adds(x, y, t, ks)
    <2>1. PICK c : c = CHOOSE x \in Fresh(Convs) : TRUE
        OBVIOUS
    <2>2. PICK conv : conv = [turns |-> [x \in Turns |-> NoTurn], at |-> 0]
        OBVIOUS
    <2>3. PICK ks \in SUBSET Fresh(Tasks) :
            \/ \E x \in Convs : M0[x] # NoConv /\ AddTurn(x, M0[x], t, ks)
            \/ Fresh(Convs) # {} /\ AddTurn(c, conv, t, ks)
        BY <1>1, <1>3, <2>1, <2>2 DEF Submit
    <2>4. ks \in SUBSET Tasks
        BY DEF Fresh
    <2>5. Fresh(Convs) # {} => c \in Convs /\ c \notin used
        BY <2>1 DEF Fresh
    <2>6. TurnsOK(conv.turns, used)
        BY <2>2, NoTurns
    <2>7. ASSUME NEW x \in Convs, M0[x] # NoConv, AddTurn(x, M0[x], t, ks)
          PROVE  Adds(x, M0[x], t, ks)
        BY <1>2, <2>7 DEF Adds
    <2>8. ASSUME Fresh(Convs) # {}, AddTurn(c, conv, t, ks)
          PROVE  Adds(c, conv, t, ks) /\ c \in Convs
        BY <1>2, <2>5, <2>6, <2>8 DEF Adds
    <2>9. \E x \in Convs : \E y : Adds(x, y, t, ks)
        <3>1. CASE \E x \in Convs : M0[x] # NoConv /\ AddTurn(x, M0[x], t, ks)
            BY <2>7, <3>1
        <3>2. CASE Fresh(Convs) # {} /\ AddTurn(c, conv, t, ks)
            BY <2>8, <3>2
        <3> QED BY <2>3, <3>1, <3>2
    <2> QED BY <2>4, <2>9
<1>4. ASSUME NEW c \in Convs, NEW old \in Turns, Regenerate(c, old)
      PROVE  \E ks \in SUBSET Tasks, x \in Convs : \E y : Adds(x, y, t, ks)
    <2>1. PICK ks \in SUBSET Fresh(Tasks) : AddTurn(c, M0[c], t, ks)
        BY <1>1, <1>4 DEF Regenerate
    <2>2. ks \in SUBSET Tasks
        BY DEF Fresh
    <2>3. M0[c] # NoConv
        BY <1>4 DEF Regenerate, ResultsShown, Has
    <2>4. Adds(c, M0[c], t, ks)
        BY <1>2, <2>1, <2>3 DEF Adds
    <2> QED BY <2>2, <2>4
<1>5. \E ks \in SUBSET Tasks, x \in Convs : \E y : Adds(x, y, t, ks)
    <2>1. CASE Submit
        BY <1>3, <2>1
    <2>2. CASE \E c \in Convs, old \in Turns : Regenerate(c, old)
        <3>1. PICK c \in Convs, old \in Turns : Regenerate(c, old)
            BY <2>2
        <3> QED BY <1>4, <3>1
    <2> QED BY <2>1, <2>2
<1> QED BY <1>2, <1>5

LEMMA SubmitKeeps ==
    ASSUME ImageInv, Submit \/ \E c \in Convs, t \in Turns : Regenerate(c, t)
    PROVE  ImageInv'
<1>0. PICK t \in Turns, ks \in SUBSET Tasks, c \in Convs : \E conv : Adds(c, conv, t, ks)
    BY SubmitAdds
<1>7. PICK conv : Adds(c, conv, t, ks)
    BY <1>0
<1>1. /\ Counted /\ AddTurn(c, conv, t, ks) /\ t \notin used
      /\ (M0[c] # NoConv /\ conv = M0[c]) \/ (c \notin used /\ TurnsOK(conv.turns, used))
    BY <1>7 DEF Adds
<1>2. Puts(mount, {})
    BY <1>1, AddTurnPuts
<1>3. MemoryStays
    BY <1>2, PutsStay, ShownMount
<1>4. LoopsStay /\ AsksStay
    BY <1>1, SameLoops, SameAsks DEF AddTurn
<1>5. used' \subseteq Convs \cup Turns \cup Tasks
    BY <1>1 DEF AddTurn, ImageInv, ImageTypeOK
<1>6. phase' \in [Tasks -> Lifecycle!Phases] /\ ops' \in Nat /\ UNCHANGED <<mount, open, keys, load>>
    BY <1>1 DEF AddTurn, Counted, ImageInv, ImageTypeOK
<1> QED BY <1>3, <1>4, <1>5, <1>6, PageStays

\* What the operations on a turn that is there know of it.
LEMMA ShownTurn ==
    ASSUME ImageInv, NEW c \in Convs, NEW t \in Turns, Has(M0, c, t)
    PROVE  /\ ConvOK(c, M0[c], used, clock) /\ TurnsOK(M0[c].turns, used)
           /\ TurnOK(M0[c].turns[t], used) /\ c \in used /\ t \in used
           /\ IsOf(M0[c].turns, mount, c)
BY ShownMount, HeldTurn DEF Known, IsOf, Has

LEMMA RetryImagePuts ==
    ASSUME ImageInv, NEW c \in Convs, NEW t \in Turns, NEW k \in Tasks, RetryImage(c, t, k)
    PROVE  Puts(mount, {})
<1>1. PICK new : new = CHOOSE x \in Fresh(Tasks) : TRUE
    OBVIOUS
<1>2. new \in Tasks /\ new \notin used
    BY <1>1 DEF RetryImage, Fresh
<1>3. PICK turn : turn = M0[c].turns[t]
    OBVIOUS
<1>4. /\ ConvOK(c, M0[c], used, clock) /\ TurnsOK(M0[c].turns, used)
      /\ TurnOK(turn, used) /\ c \in used /\ t \in used /\ IsOf(M0[c].turns, mount, c)
    BY <1>3, ShownTurn DEF RetryImage, ImageShown, ResultsShown
<1>5. used' = used \cup {new} /\ used \subseteq used'
    BY <1>1 DEF RetryImage
<1>6. TurnsOK(M0[c].turns, used') /\ TurnOK(turn, used')
    BY <1>4, <1>5, TurnsGrow DEF TurnOK
<1>7. PICK next : next = IF turn.promptDeleted THEN turn
                         ELSE Derived([turn EXCEPT !.images[k] = "none", !.images[new] = "loading"])
    OBVIOUS
<1>8. Put(mount, c, [turns |-> [M0[c].turns EXCEPT ![t] = next], at |-> Now])
    BY <1>1, <1>3, <1>7 DEF RetryImage
<1>9. TurnOK(next, used') /\ KeepsStopped(turn, next)
    <2>1. PICK images : images = [[turn.images EXCEPT ![k] = "none"] EXCEPT ![new] = "loading"]
        OBVIOUS
    <2>2. images \in [Tasks -> Images] /\ \A x \in Tasks : images[x] # "none" => x \in used'
        BY <1>2, <1>4, <1>5, <2>1 DEF TurnOK, Turn, Images
    <2>3. [turn EXCEPT !.images[k] = "none", !.images[new] = "loading"] = [turn EXCEPT !.images = images]
        BY <1>4, <2>1 DEF TurnOK, Turn
    <2>4. turn.images[new] = "none"
        BY <1>2, <1>4 DEF TurnOK
    <2>5. \A x \in Tasks : turn.images[x] = "stopped" => images[x] \in {"stopped", "none"}
        BY <1>4, <2>1, <2>4 DEF TurnOK, Turn
    <2>6. CASE turn.promptDeleted
        BY <1>6, <1>7, <2>6 DEF KeepsStopped
    <2>7. CASE ~turn.promptDeleted
        <3>1. next = Derived([turn EXCEPT !.images = images])
            BY <1>7, <2>3, <2>7
        <3>2. TurnOK(next, used') /\ next.images = images
            BY <1>6, <2>2, <3>1, DerivedImages
        <3> QED BY <2>5, <3>2 DEF KeepsStopped
    <2> QED BY <2>6, <2>7
<1>10. t \in used' /\ c \in used' /\ mem[mount][c] = M0[c]
    BY <1>4, <1>5, ShownMount
<1> QED BY <1>3, <1>4, <1>5, <1>6, <1>8, <1>9, <1>10, ShownMount, TurnPut

LEMMA RetryImageKeeps ==
    ASSUME ImageInv, NEW c \in Convs, NEW t \in Turns, NEW k \in Tasks, RetryImage(c, t, k)
    PROVE  ImageInv'
<1>1. MemoryStays
    BY RetryImagePuts, PutsStay, ShownMount
<1>2. LoopsStay /\ AsksStay
    BY SameLoops, SameAsks DEF RetryImage
<1>3. used' \subseteq Convs \cup Turns \cup Tasks
    BY DEF RetryImage, Fresh, ImageInv, ImageTypeOK
<1>4. phase' \in [Tasks -> Lifecycle!Phases] /\ ops' \in Nat /\ UNCHANGED <<mount, open, keys, load>>
    BY DEF RetryImage, ByUser, Counted, ImageInv, ImageTypeOK
<1> QED BY <1>1, <1>2, <1>3, <1>4, PageStays

LEMMA DismissErrorsPuts ==
    ASSUME ImageInv, NEW c \in Convs, NEW t \in Turns, DismissErrors(c, t)
    PROVE  Puts(mount, {})
<1>1. PICK turn : turn = M0[c].turns[t]
    OBVIOUS
<1>2. /\ TurnsOK(M0[c].turns, used) /\ TurnOK(turn, used) /\ c \in used /\ t \in used /\ IsOf(M0[c].turns, mount, c)
    BY <1>1, ShownTurn DEF DismissErrors, ResultsShown
<1>3. used' = used
    BY DEF DismissErrors
<1>4. PICK left : left = [x \in Tasks |-> IF turn.images[x] \in Errors THEN "none" ELSE turn.images[x]]
    OBVIOUS
<1>5. PICK next : next = Derived([turn EXCEPT !.images = left])
    OBVIOUS
<1>6. Put(mount, c, [turns |-> [M0[c].turns EXCEPT ![t] = next], at |-> Now])
    BY <1>1, <1>4, <1>5 DEF DismissErrors
<1>7. left \in [Tasks -> Images] /\ \A x \in Tasks : left[x] # "none" => x \in used
    BY <1>2, <1>4 DEF TurnOK, Turn, Images
<1>8. TurnOK(next, used) /\ next.images = left
    BY <1>2, <1>5, <1>7, DerivedImages
<1>9. KeepsStopped(turn, next)
    BY <1>4, <1>8 DEF KeepsStopped, Errors
<1> QED BY <1>1, <1>2, <1>3, <1>6, <1>8, <1>9, ShownMount, TurnPut

LEMMA DismissErrorsKeeps ==
    ASSUME ImageInv, NEW c \in Convs, NEW t \in Turns, DismissErrors(c, t)
    PROVE  ImageInv'
<1>1. UNCHANGED <<phase, mount, open, keys, loops, asks, load, used>> /\ Counted
    BY DEF DismissErrors, ByUser
<1>2. MemoryStays
    BY DismissErrorsPuts, PutsStay, ShownMount
<1>3. LoopsStay /\ AsksStay
    BY <1>1, SameLoops, SameAsks
<1> QED BY <1>1, <1>2, <1>3, PageStays DEF Counted, ImageInv, ImageTypeOK

LEMMA AskStopKeeps ==
    ASSUME ImageInv, NEW c \in Convs, NEW t \in Turns, NEW k \in Tasks, AskStop(c, t, k)
    PROVE  ImageInv'
<1>1. /\ UNCHANGED <<store, mount, open, mem, keys, loops, calls, load, used, clock>>
      /\ asks' = asks \cup {[op |-> "stop", m |-> mount, c |-> c, t |-> t, k |-> k]} /\ Counted
    BY DEF AskStop, ByUser
<1>2. phase' \in [Tasks -> Lifecycle!Phases]
    BY DEF AskStop, StopTask, ImageInv, ImageTypeOK, Lifecycle!Phases, Lifecycle!Ended
<1>3. AsksStay
    BY <1>1, ShownMount DEF ImageInv, ImageTypeOK, MountsBegun, AsksStay, AskRecs
<1>4. MemoryStays /\ LoopsStay
    BY <1>1, StillStays, SameLoops DEF Still
<1> QED BY <1>1, <1>2, <1>3, <1>4, PageStays DEF Counted, ImageInv, ImageTypeOK

LEMMA AskContinueKeeps ==
    ASSUME ImageInv, NEW c \in Convs, NEW t \in Turns, NEW k \in Tasks, AskContinue(c, t, k)
    PROVE  ImageInv'
<1>1. /\ UNCHANGED <<store, mount, open, mem, keys, loops, calls, load, used, clock>> /\ Counted
      /\ \/ asks' = asks
         \/ asks' = asks \cup {[op |-> "continue", m |-> mount, c |-> c, t |-> t, k |-> k]}
    BY DEF AskContinue, ByUser
<1>2. phase' \in [Tasks -> Lifecycle!Phases]
    BY DEF AskContinue, ImageInv, ImageTypeOK, Lifecycle!Phases, Lifecycle!Ended
<1>3. AsksStay
    BY <1>1, ShownMount DEF ImageInv, ImageTypeOK, MountsBegun, AsksStay, AskRecs
<1>4. MemoryStays /\ LoopsStay
    BY <1>1, StillStays, SameLoops DEF Still
<1> QED BY <1>1, <1>2, <1>3, <1>4, PageStays DEF Counted, ImageInv, ImageTypeOK

LEMMA RenamedOK ==
    ASSUME NEW M, NEW ids, NEW now \in Nat, NEW at \in Nat, now <= at, MemOK(M, ids, now),
           NEW c \in Convs, M[c] # NoConv
    PROVE  MemOK([M EXCEPT ![c].at = at], ids, at)
<1>1. MemOK(M, ids, at)
    BY MemGrows
<1>2. PICK conv : conv = [M[c] EXCEPT !.at = at]
    OBVIOUS
<1>3. ConvOK(c, conv, ids, at)
    BY <1>1, <1>2 DEF MemOK, ConvOK, Conv
<1>4. [M EXCEPT ![c].at = at] = [M EXCEPT ![c] = conv]
    BY <1>2 DEF MemOK, Memory
<1> QED BY <1>1, <1>3, <1>4, MemExcept

LEMMA RenameKeeps ==
    ASSUME ImageInv, NEW c \in Convs, Rename(c)
    PROVE  ImageInv'
<1>1. /\ UNCHANGED <<phase, mount, open, keys, loops, asks, load, used>> /\ Counted
      /\ clock' = Now /\ M0[c] # NoConv /\ SetMemory(mount, [M0 EXCEPT ![c].at = Now])
      /\ store' = IF store[c] = NoConv THEN store ELSE [store EXCEPT ![c].at = Now]
    BY DEF Rename, ByUser
<1>2. /\ clock \in Nat /\ clock' \in Nat /\ clock <= clock' /\ ImageTypeOK /\ mount \in Mounts
      /\ MemOK(M0, used, clock) /\ MemOK(store, used, clock) /\ store \in Memory
      /\ \A x \in Mounts : MemOK(mem[x], used, clock)
    BY <1>1, NowOK DEF ImageInv, ImageTypeOK, Held, M0
<1>3. MemOK(store', used, clock')
    BY <1>1, <1>2, RenamedOK, MemGrows
<1>4. PICK M : M = [M0 EXCEPT ![c].at = Now]
    OBVIOUS
<1>5. MemOK(M, used, clock') /\ SetMemory(mount, M)
    BY <1>1, <1>2, <1>4, RenamedOK
<1>6. \A x \in Mounts : MemOK(mem[x], used, clock')
    BY <1>2, MemGrows
<1>7. /\ mem' = [mem EXCEPT ![mount] = M] /\ mem' \in [Mounts -> Memory]
      /\ \A x \in Mounts : MemOK(mem'[x], used, clock')
      /\ calls' \in SUBSET ({mount} \X Turns)
    BY <1>2, <1>5, <1>6, SetMemoryOK
<1>8. \A x \in Mounts : x > mount => mem'[x] = mem[x]
    BY <1>2, <1>7 DEF ImageTypeOK, Mounts
<1>9. calls' \subseteq Mounts \X Turns /\ \A x \in calls' : x[1] <= mount
    BY <1>2, <1>7 DEF Mounts
<1>10. MemoryStays
    BY <1>1, <1>2, <1>3, <1>7, <1>8, <1>9 DEF MemoryStays, MemOK
<1>11. LoopsStay /\ AsksStay
    BY <1>1, SameLoops, SameAsks
<1> QED BY <1>1, <1>10, <1>11, PageStays DEF Counted, ImageInv, ImageTypeOK

LEMMA DeleteConversationKeeps ==
    ASSUME ImageInv, NEW c \in Convs, DeleteConversation(c)
    PROVE  ImageInv'
<1>1. UNCHANGED <<phase, mount, open, keys, loops, asks, load, used>> /\ Counted /\ Remove(c)
    BY DEF DeleteConversation, ByUser
<1>2. MemoryStays /\ LoopsStay /\ AsksStay
    BY <1>1, RemoveStays, SameLoops, SameAsks
<1> QED BY <1>1, <1>2, PageStays DEF Counted, ImageInv, ImageTypeOK

\* The turns that deletion leaves.
PartDeleted(c, t, next) ==
    [M0[c].turns EXCEPT ![t] = IF next.promptDeleted /\ next.resultsDeleted THEN NoTurn ELSE next]
ResultsGone(turn, status) ==
    [turn EXCEPT !.resultsDeleted = TRUE, !.status = status,
                 !.images = [k \in Tasks |-> IF @[k] = "none" THEN "none" ELSE "deleted"]]

LEMMA ResultsGoneOK ==
    ASSUME NEW turn, NEW ids, TurnOK(turn, ids), NEW status \in {"active", "success", "error"}
    PROVE  TurnOK(ResultsGone(turn, status), ids) /\ KeepsStopped(turn, ResultsGone(turn, status))
<1> DEFINE images == [k \in Tasks |-> IF turn.images[k] = "none" THEN "none" ELSE "deleted"]
<1>1. images \in [Tasks -> Images] /\ \A k \in Tasks : images[k] # "none" => turn.images[k] # "none"
    BY DEF Images, Errors
<1>2. \A k \in Tasks : images[k] \in {"none", "deleted"}
    OBVIOUS
<1>3. ResultsGone(turn, status) =
        [turn EXCEPT !.resultsDeleted = TRUE, !.status = status, !.images = images]
    BY DEF ResultsGone, TurnOK, Turn
<1> HIDE DEF images
<1> QED BY <1>1, <1>2, <1>3 DEF TurnOK, Turn, KeepsStopped

LEMMA DeletedPart ==
    ASSUME ImageInv, NEW c \in Convs, NEW t \in Turns, NEW part, DeleteTurnPart(c, t, part)
    PROVE  /\ Has(M0, c, t) /\ Counted
           /\ UNCHANGED <<phase, mount, open, keys, loops, asks, load, used>>
           /\ \E next : /\ TurnOK(next, used) /\ KeepsStopped(M0[c].turns[t], next)
                        /\ \/ Remove(c)
                           \/ Put(mount, c, [turns |-> PartDeleted(c, t, next), at |-> Now])
<1>1. PICK turn : turn = M0[c].turns[t]
    OBVIOUS
<1>2. Has(M0, c, t) /\ TurnOK(turn, used)
    BY <1>1, ShownTurn DEF DeleteTurnPart
<1>3. CASE part = "prompt"
    <2>1. PICK next : next = [turn EXCEPT !.promptDeleted = TRUE]
        OBVIOUS
    <2>2. TurnOK(next, used) /\ KeepsStopped(turn, next)
        BY <1>2, <2>1 DEF TurnOK, Turn, KeepsStopped
    <2>3. Remove(c) \/ Put(mount, c, [turns |-> PartDeleted(c, t, next), at |-> Now])
        BY <1>1, <1>3, <2>1 DEF DeleteTurnPart, PartDeleted
    <2> QED BY <1>1, <1>2, <2>2, <2>3 DEF DeleteTurnPart, ByUser
<1>4. CASE part # "prompt"
    <2>1. PICK status \in IF turn.status = "active" THEN {"active", "error"} ELSE {turn.status} :
            \/ Remove(c)
            \/ Put(mount, c, [turns |-> PartDeleted(c, t, ResultsGone(turn, status)), at |-> Now])
        BY <1>1, <1>4 DEF DeleteTurnPart, PartDeleted, ResultsGone
    <2>2. status \in {"active", "success", "error"}
        BY <1>2 DEF TurnOK, Turn
    <2>3. TurnOK(ResultsGone(turn, status), used) /\ KeepsStopped(turn, ResultsGone(turn, status))
        BY <1>2, <2>2, ResultsGoneOK
    <2> QED BY <1>1, <1>2, <2>1, <2>3 DEF DeleteTurnPart, ByUser
<1> QED BY <1>3, <1>4

LEMMA DeleteTurnPartPuts ==
    ASSUME ImageInv, NEW c \in Convs, NEW t \in Turns, NEW part, DeleteTurnPart(c, t, part)
    PROVE  Remove(c) \/ Puts(mount, {})
<1>1. PICK next : /\ TurnOK(next, used) /\ KeepsStopped(M0[c].turns[t], next)
                  /\ Remove(c) \/ Put(mount, c, [turns |-> PartDeleted(c, t, next), at |-> Now])
    BY DeletedPart
<1>2. Has(M0, c, t) /\ used' = used
    BY DeletedPart
<1>3. TurnsOK(M0[c].turns, used) /\ c \in used /\ t \in used /\ IsOf(M0[c].turns, mount, c)
    BY <1>2, ShownTurn
<1>4. ASSUME Put(mount, c, [turns |-> PartDeleted(c, t, next), at |-> Now])
      PROVE  Puts(mount, {})
    <2>1. PICK turn : turn = IF next.promptDeleted /\ next.resultsDeleted THEN NoTurn ELSE next
        OBVIOUS
    <2>2. Put(mount, c, [turns |-> [M0[c].turns EXCEPT ![t] = turn], at |-> Now])
        BY <1>4, <2>1 DEF PartDeleted
    <2>3. turn = NoTurn \/ (TurnOK(turn, used) /\ KeepsStopped(M0[c].turns[t], turn))
        BY <1>1, <2>1
    <2> QED BY <1>2, <1>3, <2>2, <2>3, ShownMount, TurnPut
<1> QED BY <1>1, <1>4

LEMMA DeleteTurnPartKeeps ==
    ASSUME ImageInv, NEW c \in Convs, NEW t \in Turns, NEW part, DeleteTurnPart(c, t, part)
    PROVE  ImageInv'
<1>1. Counted /\ UNCHANGED <<phase, mount, open, keys, loops, asks, load, used>>
    BY DeletedPart
<1>2. MemoryStays
    BY <1>1, DeleteTurnPartPuts, RemoveStays, PutsStay, ShownMount
<1>3. LoopsStay /\ AsksStay
    BY <1>1, SameLoops, SameAsks
<1> QED BY <1>1, <1>2, <1>3, PageStays DEF Counted, ImageInv, ImageTypeOK

LEMMA ClearHistoryKeeps ==
    ASSUME ImageInv, ClearHistory
    PROVE  ImageInv'
<1>1. /\ UNCHANGED <<phase, mount, open, keys, loops, asks, load, used, clock>> /\ Counted
      /\ SetMemory(mount, Nothing) /\ store' = Nothing
    BY DEF ClearHistory, ByUser
<1>2. mount \in Mounts /\ clock \in Nat /\ ImageTypeOK /\ \A x \in Mounts : MemOK(mem[x], used, clock)
    BY DEF ImageInv, ImageTypeOK, Held
<1>3. /\ mem' = [mem EXCEPT ![mount] = Nothing] /\ mem' \in [Mounts -> Memory]
      /\ \A x \in Mounts : MemOK(mem'[x], used, clock)
      /\ calls' \in SUBSET ({mount} \X Turns)
    BY <1>1, <1>2, NothingOK, SetMemoryOK
<1>4. MemOK(store', used, clock)
    BY <1>1, NothingOK
<1>5. \A x \in Mounts : x > mount => mem'[x] = mem[x]
    BY <1>2, <1>3 DEF ImageTypeOK, Mounts
<1>6. calls' \subseteq Mounts \X Turns /\ \A x \in calls' : x[1] <= mount
    BY <1>2, <1>3 DEF Mounts
<1>7. MemoryStays
    BY <1>1, <1>2, <1>3, <1>4, <1>5, <1>6 DEF MemoryStays, MemOK
<1>8. LoopsStay /\ AsksStay
    BY <1>1, SameLoops, SameAsks
<1> QED BY <1>1, <1>7, <1>8, PageStays DEF Counted, ImageInv, ImageTypeOK

(***************************************************************************)
(* Loading: the conversations that are read are mapped turn by turn.       *)
(***************************************************************************)
LEMMA MappedOK ==
    ASSUME clock \in Nat, NEW M, NEW ids, MemOK(M, ids, clock),
           NEW next, \A c \in Convs : M[c] # NoConv => TurnsOK(next[c], ids),
           NEW items, items = [c \in Convs |-> IF M[c] = NoConv THEN NoConv ELSE Restamped(M[c], next[c])],
           Stamps(items)
    PROVE  /\ MemOK(items, ids, clock') /\ clock' \in Nat /\ clock <= clock'
           /\ \A c \in Convs : M[c] # NoConv => items[c] # NoConv /\ M[c].at <= items[c].at
<1>1. clock' = IF \E c \in Convs : items[c] # NoConv /\ items[c].at > clock THEN Now ELSE clock
    BY DEF Stamps
<1>2. clock' \in Nat /\ clock <= clock' /\ Now \in Nat /\ clock <= Now
    BY <1>1, NowOK
<1>3. ASSUME NEW c \in Convs, M[c] # NoConv
      PROVE  /\ ConvOK(c, items[c], ids, clock') /\ items[c] \in Conv
             /\ items[c] # NoConv /\ M[c].at <= items[c].at
    <2>1. items[c] = Restamped(M[c], next[c])
        BY <1>3
    <2>2. ConvOK(c, M[c], ids, clock) /\ M[c].at \in Nat /\ M[c].at <= clock
        BY <1>3 DEF MemOK, ConvOK, Conv
    <2>3. /\ ConvOK(c, items[c], ids, items[c].at) /\ items[c].at \in Nat
          /\ items[c].at = M[c].at \/ items[c].at = Now
        BY <1>3, <2>1, <2>2, RestampedOK
    <2>4. items[c] # NoConv
        BY <2>3, NothingAssumption DEF ConvOK
    <2>5. items[c].at <= clock'
        BY <1>1, <1>2, <2>2, <2>3, <2>4
    <2>6. M[c].at <= items[c].at
        BY <1>2, <2>2, <2>3
    <2>7. ConvOK(c, items[c], ids, clock') /\ items[c] \in Conv
        BY <2>3, <2>5 DEF ConvOK
    <2> QED BY <2>4, <2>6, <2>7
<1>4. \A c \in Convs : M[c] = NoConv => items[c] = NoConv
    OBVIOUS
<1>5. items \in Memory
    <2>1. \A c \in Convs : items[c] \in Conv \cup {NoConv}
        BY <1>3, <1>4
    <2> QED BY <2>1 DEF Memory
<1> QED BY <1>2, <1>3, <1>4, <1>5 DEF MemOK

LEMMA RecoveredItemsOK ==
    ASSUME ImageInv, Stamps(MapTurns(store, Recovered))
    PROVE  /\ MemOK(MapTurns(store, Recovered), used, clock') /\ clock' \in Nat /\ clock <= clock'
           /\ \A c \in Convs : store[c] = NoConv => MapTurns(store, Recovered)[c] = NoConv
           /\ \A c \in Convs : store[c] # NoConv =>
                /\ MapTurns(store, Recovered)[c] # NoConv
                /\ store[c].at <= MapTurns(store, Recovered)[c].at
<1>1. clock \in Nat /\ MemOK(store, used, clock)
    BY DEF ImageInv, ImageTypeOK, Held
<1>2. PICK next : next = [c \in Convs |-> [t \in Turns |-> IF store[c].turns[t] = NoTurn THEN NoTurn
                                                          ELSE Recovered(store[c].turns[t])]]
    OBVIOUS
<1>3. PICK items : items = MapTurns(store, Recovered)
    OBVIOUS
<1>4. items = [c \in Convs |-> IF store[c] = NoConv THEN NoConv ELSE Restamped(store[c], next[c])]
    BY <1>2, <1>3 DEF MapTurns
<1>5. ASSUME NEW c \in Convs, store[c] # NoConv
      PROVE  TurnsOK(next[c], used)
    <2>1. TurnsOK(store[c].turns, used)
        BY <1>1, <1>5 DEF MemOK, ConvOK
    <2>2. \A t \in Turns : store[c].turns[t] # NoTurn => TurnOK(Recovered(store[c].turns[t]), used)
        BY <2>1, RecoveredOK DEF TurnsOK
    <2> QED BY <1>2, <2>1, <2>2 DEF TurnsOK, TurnOK
<1>6. Stamps(items)
    BY <1>3
<1>7. /\ MemOK(items, used, clock') /\ clock' \in Nat /\ clock <= clock'
      /\ \A c \in Convs : store[c] # NoConv => items[c] # NoConv /\ store[c].at <= items[c].at
    BY <1>1, <1>4, <1>5, <1>6, MappedOK
<1>8. \A c \in Convs : store[c] = NoConv => items[c] = NoConv
    BY <1>4
<1> QED BY <1>3, <1>7, <1>8

\* The load of a page, which the store and the memories of pages follow.
LoadGoesOn(m) ==
    /\ clock' \in Nat /\ clock <= clock'
    /\ store' \in Memory /\ MemOK(store', used, clock')
    /\ mem' \in [Mounts -> Memory] /\ load' \in [Mounts -> Memory \cup {NoLoad}]
    /\ \A x \in Mounts : /\ MemOK(mem'[x], used, clock')
                         /\ load'[x] # NoLoad => MemOK(load'[x], used, clock')
                         /\ x # m => mem'[x] = mem[x] /\ load'[x] = load[x]
    /\ calls' \subseteq {m} \X Turns

LEMMA StartLoadOK ==
    ASSUME ImageInv, NEW m \in Mounts, StartLoad(m)
    PROVE  LoadGoesOn(m)
<1>1. PICK items : items = MapTurns(store, Recovered)
    OBVIOUS
<1>2. /\ Save(items) /\ Stamps(items)
      /\ load' = [load EXCEPT ![m] = IF ToSync(items) = {} THEN NoLoad ELSE items]
      /\ mem' = IF ToSync(items) = {} THEN [mem EXCEPT ![m] = items] ELSE mem
      /\ calls' = IF ToSync(items) = {} THEN {m} \X Woken(items) ELSE {}
    BY <1>1 DEF StartLoad
<1>3. MemOK(items, used, clock') /\ clock' \in Nat /\ clock <= clock' /\ items \in Memory
    BY <1>1, <1>2, RecoveredItemsOK DEF MemOK
<1>4. /\ clock \in Nat /\ mem \in [Mounts -> Memory] /\ load \in [Mounts -> Memory \cup {NoLoad}]
      /\ MemOK(store, used, clock)
      /\ \A x \in Mounts : MemOK(mem[x], used, clock) /\ (load[x] # NoLoad => MemOK(load[x], used, clock))
    BY DEF ImageInv, ImageTypeOK, Held
<1>5. /\ MemOK(store, used, clock')
      /\ \A x \in Mounts : MemOK(mem[x], used, clock') /\ (load[x] # NoLoad => MemOK(load[x], used, clock'))
    BY <1>3, <1>4, MemGrows
<1>6. MemOK(store', used, clock') /\ store' \in Memory
    BY <1>2, <1>3, <1>5, SaveOK DEF MemOK
<1>7. calls' \subseteq {m} \X Turns
    BY <1>2 DEF Woken
<1> QED BY <1>2, <1>3, <1>4, <1>5, <1>6, <1>7 DEF LoadGoesOn

\* A page that is shown, or was shown before, goes on with its load.
LEMMA LoadStays ==
    ASSUME ImageInv, NEW m \in Mounts, LoadGoesOn(m), mount' \in Mounts, mount <= mount', m <= mount',
           UNCHANGED <<phase, keys, loops, asks, used>>, open' \in BOOLEAN, ops' \in Nat,
           (open' = open /\ mount' = mount) \/ mount' # 1
    PROVE  ImageInv'
<1>1. ImageTypeOK'
    BY DEF ImageInv, ImageTypeOK, LoadGoesOn
<1>2. clock \in Nat /\ mount \in Nat /\ mount' \in Nat
    BY DEF ImageInv, ImageTypeOK, Mounts
<1>3. Held'
    BY <1>2, ConvGrows DEF ImageInv, Held, LoadGoesOn
<1>4. MountsBegun'
    BY <1>2 DEF ImageInv, MountsBegun, ImageTypeOK, LoadGoesOn, Mounts, LoopRecs
<1>5. KeysHaveLoops'
    BY DEF ImageInv, KeysHaveLoops
<1>6. OneLoopPerTurn'
    BY DEF ImageInv, OneLoopPerTurn
<1> QED BY <1>1, <1>3, <1>4, <1>5, <1>6 DEF ImageInv

LEMMA PageShowKeeps ==
    ASSUME ImageInv, PageShow
    PROVE  ImageInv'
<1>1. LoadGoesOn(mount) /\ mount \in Mounts
    BY StartLoadOK, ShownMount DEF PageShow
<1>2. UNCHANGED <<phase, mount, open, keys, loops, asks, used>> /\ Counted
    BY DEF PageShow, ByUser
<1> QED BY <1>1, <1>2, LoadStays DEF ImageInv, ImageTypeOK, Counted, Mounts

LEMMA NextMount ==
    ASSUME ImageInv, mount < MaxMounts
    PROVE  mount + 1 \in Mounts /\ mount \in Nat /\ mount + 1 # 1
BY BoundsAssumption DEF ImageInv, ImageTypeOK, Mounts

LEMMA ReturnKeeps ==
    ASSUME ImageInv, Return
    PROVE  ImageInv'
<1>1. /\ UNCHANGED <<phase, keys, loops, asks, used, ops>> /\ open' = TRUE
      /\ mount' = mount + 1 /\ StartLoad(mount + 1) /\ mount < MaxMounts
    BY DEF Return
<1>2. mount + 1 \in Mounts /\ mount \in Nat /\ mount + 1 # 1
    BY <1>1, NextMount
<1>3. LoadGoesOn(mount + 1)
    BY <1>1, <1>2, StartLoadOK
<1>4. /\ mount' \in Mounts /\ mount <= mount' /\ mount + 1 <= mount' /\ mount' # 1
      /\ open' \in BOOLEAN /\ ops' \in Nat
    BY <1>1, <1>2 DEF ImageInv, ImageTypeOK
<1> QED BY <1>1, <1>2, <1>3, <1>4, LoadStays

LEMMA ReloadKeeps ==
    ASSUME ImageInv, Reload
    PROVE  ImageInv'
<1>1. PICK items : items = MapTurns(store, Recovered)
    OBVIOUS
<1>2. /\ UNCHANGED <<phase, open, used>> /\ Counted /\ mount < MaxMounts
      /\ mount' = mount + 1 /\ Save(items) /\ Stamps(items)
      /\ load' = [m \in Mounts |-> IF m = mount + 1 /\ ToSync(items) # {} THEN items ELSE NoLoad]
      /\ mem' = [m \in Mounts |-> IF m = mount + 1 /\ ToSync(items) = {} THEN items ELSE Nothing]
      /\ calls' = IF ToSync(items) = {} THEN {mount + 1} \X {t \in Turns : Waiting(items, t)} ELSE {}
      /\ keys' = {} /\ asks' = {} /\ loops' = [l \in Loops |-> NoLoop]
    BY <1>1 DEF Reload, ByUser
<1>3. mount + 1 \in Mounts /\ mount \in Nat /\ mount + 1 # 1
    BY <1>2, NextMount
<1>4. MemOK(items, used, clock') /\ clock' \in Nat /\ clock <= clock' /\ items \in Memory
    BY <1>1, <1>2, RecoveredItemsOK DEF MemOK
<1>5. MemOK(Nothing, used, clock') /\ Nothing \in Memory
    BY NothingOK DEF MemOK
<1>6. clock \in Nat /\ MemOK(store, used, clock)
    BY DEF ImageInv, ImageTypeOK, Held
<1>12. MemOK(store, used, clock')
    BY <1>4, <1>6, MemGrows
<1>7. MemOK(store', used, clock') /\ store' \in Memory
    BY <1>2, <1>4, <1>12, SaveOK DEF MemOK
<1>8. ImageTypeOK'
    BY <1>2, <1>3, <1>4, <1>5, <1>7 DEF ImageInv, ImageTypeOK, Counted
<1>9. Held'
    BY <1>2, <1>4, <1>5, <1>7 DEF Held
<1>10. MountsBegun'
    BY <1>2, <1>3 DEF MountsBegun, Mounts
<1>11. KeysHaveLoops' /\ OneLoopPerTurn'
    BY <1>2, <1>3 DEF KeysHaveLoops, OneLoopPerTurn
<1> QED BY <1>8, <1>9, <1>10, <1>11 DEF ImageInv

LEMMA LeaveKeeps ==
    ASSUME ImageInv, Leave
    PROVE  ImageInv'
<1>1. /\ UNCHANGED <<phase, store, mount, mem, loops, calls, asks, load, used, clock>> /\ Counted
      /\ open' = FALSE /\ keys' = {}
    BY DEF Leave, ByUser
<1>2. ImageTypeOK'
    <2>1. open' \in BOOLEAN /\ keys' \subseteq Turns
        BY <1>1
    <2>2. ops' \in Nat
        BY <1>1 DEF ImageInv, ImageTypeOK, Counted
    <2>3. /\ phase' \in [Tasks -> Lifecycle!Phases] /\ store' \in Memory /\ mount' \in Mounts
          /\ mem' \in [Mounts -> Memory] /\ loops' \in [Loops -> LoopRecs \cup {NoLoop}]
          /\ calls' \subseteq Mounts \X Turns /\ load' \in [Mounts -> Memory \cup {NoLoad}]
          /\ asks' \subseteq [op : {"stop", "continue"}, m : Mounts, c : Convs, t : Turns, k : Tasks]
          /\ used' \subseteq Convs \cup Turns \cup Tasks /\ clock' \in Nat
        BY <1>1 DEF ImageInv, ImageTypeOK
    <2> QED BY <2>1, <2>2, <2>3 DEF ImageTypeOK
<1>3. Held' /\ MountsBegun'
    BY <1>1 DEF ImageInv, Held, MountsBegun
<1>4. KeysHaveLoops' /\ OneLoopPerTurn'
    BY <1>1 DEF KeysHaveLoops, OneLoopPerTurn
<1> QED BY <1>2, <1>3, <1>4 DEF ImageInv

LEMMA LoadedKeeps ==
    ASSUME ImageInv, NEW m \in Mounts, Loaded(m)
    PROVE  ImageInv'
<1>1. /\ UNCHANGED <<phase, mount, open, keys, loops, asks, used>> /\ load[m] # NoLoad
      /\ load' = [load EXCEPT ![m] = NoLoad]
    BY DEF Loaded
<1>2. /\ clock \in Nat /\ mem \in [Mounts -> Memory] /\ load \in [Mounts -> Memory \cup {NoLoad}]
      /\ phase \in [Tasks -> Lifecycle!Phases] /\ ops \in Nat
      /\ MemOK(store, used, clock) /\ store \in Memory /\ ImageTypeOK
      /\ \A x \in Mounts : MemOK(mem[x], used, clock) /\ (load[x] # NoLoad => MemOK(load[x], used, clock))
    BY DEF ImageInv, ImageTypeOK, Held
<1>3. m <= mount
    BY <1>1 DEF ImageInv, MountsBegun, ImageTypeOK, Mounts
<1>4. ASSUME NEW items, MemOK(items, used, clock'), clock' \in Nat, clock <= clock',
             IF Shown(m) THEN SetMemory(m, items) ELSE UNCHANGED <<mem, calls>>
      PROVE  /\ mem' \in [Mounts -> Memory]
             /\ \A x \in Mounts : MemOK(mem'[x], used, clock') /\ (x # m => mem'[x] = mem[x])
             /\ calls' \subseteq {m} \X Turns \/ calls' = calls
    <2>1. \A x \in Mounts : MemOK(mem[x], used, clock')
        BY <1>2, <1>4, MemGrows
    <2>2. CASE Shown(m)
        <3>1. /\ mem' = [mem EXCEPT ![m] = items] /\ mem' \in [Mounts -> Memory]
              /\ \A x \in Mounts : MemOK(mem'[x], used, clock')
              /\ calls' \in SUBSET ({m} \X Turns)
            BY <1>2, <1>4, <2>1, <2>2, SetMemoryOK
        <3> QED BY <1>2, <3>1
    <2>3. CASE ~Shown(m)
        BY <1>2, <1>4, <2>1, <2>3
    <2> QED BY <2>2, <2>3
<1>5. /\ clock' \in Nat /\ clock <= clock' /\ ops' \in Nat
      /\ store' \in Memory /\ MemOK(store', used, clock')
      /\ mem' \in [Mounts -> Memory]
      /\ \A x \in Mounts : MemOK(mem'[x], used, clock') /\ (x # m => mem'[x] = mem[x])
      /\ calls' \subseteq {m} \X Turns \/ calls' = calls
    <2> DEFINE got == [k \in Tasks |-> IF k \in ToSync(load[m]) THEN phase[k] ELSE "none"]
               mapped == [c \in Convs |-> [t \in Turns |->
                   IF load[m][c].turns[t] = NoTurn THEN NoTurn ELSE Synced(load[m][c].turns[t], got)]]
               items == [c \in Convs |-> IF load[m][c] = NoConv THEN NoConv
                                         ELSE Restamped(load[m][c], mapped[c])]
    <2>1. CASE /\ Save(items) /\ Stamps(items) /\ UNCHANGED ops
               /\ IF Shown(m) THEN SetMemory(m, items) ELSE UNCHANGED <<mem, calls>>
        <3>1. got \in [Tasks -> Lifecycle!Phases]
            BY <1>2 DEF Lifecycle!Phases
        <3> HIDE DEF got
        <3>2. ASSUME NEW c \in Convs, load[m][c] # NoConv
              PROVE  TurnsOK(mapped[c], used)
            <4>1. TurnsOK(load[m][c].turns, used)
                BY <1>1, <1>2, <3>2 DEF MemOK, ConvOK
            <4>2. \A t \in Turns : load[m][c].turns[t] # NoTurn
                                     => TurnOK(Synced(load[m][c].turns[t], got), used)
                BY <3>1, <4>1, SyncedOK DEF TurnsOK
            <4>3. \A t \in Turns : mapped[c][t] =
                     IF load[m][c].turns[t] = NoTurn THEN NoTurn ELSE Synced(load[m][c].turns[t], got)
                OBVIOUS
            <4>4. mapped[c] = [t \in Turns |-> mapped[c][t]]
                OBVIOUS
            <4> HIDE DEF mapped
            <4>5. mapped[c] \in [Turns -> Turn \cup {NoTurn}]
                BY <4>2, <4>3, <4>4 DEF TurnOK
            <4> QED BY <4>1, <4>2, <4>3, <4>5 DEF TurnsOK
        <3> HIDE DEF mapped
        <3>3. PICK taken : taken = items
            OBVIOUS
        <3>4. MemOK(taken, used, clock') /\ clock' \in Nat /\ clock <= clock'
            BY <1>1, <1>2, <2>1, <3>2, <3>3, MappedOK
        <3>5. MemOK(store, used, clock')
            BY <1>2, <3>4, MemGrows
        <3> HIDE DEF items
        <3>6. MemOK(store', used, clock') /\ store' \in Memory
            BY <2>1, <3>3, <3>4, <3>5, SaveOK DEF MemOK
        <3> QED BY <1>2, <1>4, <2>1, <3>3, <3>4, <3>6
    <2>2. CASE /\ Counted /\ UNCHANGED <<store, clock>>
               /\ IF Shown(m) THEN SetMemory(m, load[m]) ELSE UNCHANGED <<mem, calls>>
        <3>1. ops' \in Nat
            BY <1>2, <2>2 DEF Counted
        <3>2. MemOK(load[m], used, clock)
            BY <1>1, <1>2
        <3> QED BY <1>2, <1>4, <2>2, <3>1, <3>2
    <2> QED BY <2>1, <2>2 DEF Loaded, MapTurns
<1>6. load' \in [Mounts -> Memory \cup {NoLoad}] /\ \A x \in Mounts : load'[x] = IF x = m THEN NoLoad ELSE load[x]
    BY <1>1, <1>2
<1>7. ImageTypeOK'
    BY <1>1, <1>2, <1>5, <1>6 DEF ImageTypeOK
<1>8. Held'
    <2>1. \A x \in Mounts : load'[x] # NoLoad => MemOK(load'[x], used, clock')
        BY <1>2, <1>5, <1>6, MemGrows
    <2>2. \A l \in Loops : loops[l] # NoLoop => ConvOK(loops[l].c, loops[l].snapshot, used, clock')
        BY <1>2, <1>5, ConvGrows DEF ImageInv, Held
    <2> QED BY <1>1, <1>5, <2>1, <2>2 DEF Held
<1>9. MountsBegun'
    <2>1. \A x \in Mounts : x > mount => mem'[x] = Nothing /\ load'[x] = NoLoad
        BY <1>3, <1>5, <1>6 DEF ImageInv, MountsBegun, ImageTypeOK, Mounts
    <2>2. \A x \in calls' : x[1] <= mount
        BY <1>3, <1>5 DEF ImageInv, MountsBegun
    <2> QED BY <1>1, <2>1, <2>2 DEF ImageInv, MountsBegun
<1>10. KeysHaveLoops' /\ OneLoopPerTurn'
    BY <1>1 DEF ImageInv, KeysHaveLoops, OneLoopPerTurn
<1> QED BY <1>7, <1>8, <1>9, <1>10 DEF ImageInv

(***************************************************************************)
(* The queue loops.                                                        *)
(***************************************************************************)
LEMMA LoopFacts ==
    ASSUME ImageInv, NEW l \in Loops, loops[l] # NoLoop
    PROVE  /\ loops[l] \in LoopRecs /\ loops[l].m \in Mounts /\ loops[l].m <= mount
           /\ loops[l].c \in Convs /\ loops[l].t \in Turns
           /\ ConvOK(loops[l].c, Worked(l), used, clock)
           /\ TurnsOK(Worked(l).turns, used)
<1>1. /\ loops[l] \in LoopRecs /\ loops[l].m \in Mounts /\ loops[l].m <= mount
      /\ loops[l].c \in Convs /\ loops[l].t \in Turns
    BY DEF ImageInv, ImageTypeOK, MountsBegun, LoopRecs
<1>2. ConvOK(loops[l].c, Worked(l), used, clock)
    BY <1>1 DEF Worked, ImageInv, Held, MemOK
<1> QED BY <1>1, <1>2 DEF ConvOK

\* What a loop works on is the page's conversation, when the page has it.
LEMMA WorkedIsKnown ==
    ASSUME NEW l \in Loops, loops[l] # NoLoop
    PROVE  /\ IsOf(Worked(l).turns, loops[l].m, loops[l].c)
           /\ mem[loops[l].m][loops[l].c] # NoConv => Worked(l) = mem[loops[l].m][loops[l].c]
BY DEF Known, IsOf, Worked

LEMMA AppliedPuts ==
    ASSUME ImageInv, NEW l \in Loops, loops[l] # NoLoop, used' = used, ApplyTasks(l)
    PROVE  Puts(loops[l].m, {})
<1> DEFINE x == loops[l]
           conv == Worked(l)
           turn == conv.turns[x.t]
<1>1. /\ x \in LoopRecs /\ x.m \in Mounts /\ x.c \in Convs /\ x.t \in Turns
      /\ ConvOK(x.c, conv, used, clock) /\ TurnsOK(conv.turns, used)
    BY LoopFacts
<1>2. x.got \in [Tasks -> Lifecycle!Phases] /\ clock \in Nat
    BY <1>1 DEF LoopRecs, ImageInv, ImageTypeOK
<1>3. PICK next : next = IF turn = NoTurn THEN NoTurn ELSE Polled(turn, x.got)
    OBVIOUS
<1>4. PICK turns : turns = [conv.turns EXCEPT ![x.t] = next]
    OBVIOUS
<1>5. PICK new : new = Restamped(conv, turns)
    OBVIOUS
<1>6. Put(x.m, x.c, new)
    BY <1>3, <1>4, <1>5 DEF ApplyTasks
<1>7. IsOf(conv.turns, x.m, x.c) /\ (mem[x.m][x.c] # NoConv => conv = mem[x.m][x.c])
    BY WorkedIsKnown
<1> HIDE DEF x, turn, conv
<1>8. turn # NoTurn => x.t \in used /\ TurnOK(turn, used)
    BY <1>1 DEF TurnsOK, turn
<1>9. /\ next = NoTurn \/ (x.t \in used /\ TurnOK(next, used))
      /\ turn # NoTurn /\ next # NoTurn => KeepsStopped(turn, next)
    BY <1>2, <1>3, <1>8, PolledOK
<1>10. TurnsOK(turns, used)
    BY <1>1, <1>4, <1>9, TurnsExcept
<1>11. ConvOK(x.c, new, used, new.at) /\ new.turns = turns /\ (new.at = conv.at \/ new.at = Now)
    BY <1>1, <1>2, <1>5, <1>10, RestampedOK
<1>12. PICK free : free = {}
    OBVIOUS
<1>16. StaysStopped(conv.turns[x.t], next, free)
    BY <1>9, <1>12 DEF KeepsStopped, StaysStopped, turn
<1>13. new.turns = [conv.turns EXCEPT ![x.t] = next]
    BY <1>4, <1>11
<1>14. Stamped(new, x.m, x.c)
    BY <1>7, <1>11 DEF Stamped
<1>17. ConvOK(x.c, new, used', new.at) /\ TurnsOK(conv.turns, used') /\ used \subseteq used'
    BY <1>1, <1>11
<1>15. Puts(x.m, free)
    <2>1. PICK m \in Mounts, c \in Convs, t \in Turns : m = x.m /\ c = x.c /\ t = x.t
        BY <1>1
    <2>2. TurnsOK(conv.turns, used') /\ IsOf(conv.turns, m, c) /\ StaysStopped(conv.turns[t], next, free)
        BY <1>7, <1>16, <1>17, <2>1
    <2>3. /\ ConvOK(c, new, used', new.at) /\ new.turns = [conv.turns EXCEPT ![t] = next]
          /\ Stamped(new, m, c) /\ Put(m, c, new)
        BY <1>6, <1>13, <1>14, <1>17, <2>1
    <2>4. Puts(m, free)
        BY <1>17, <2>2, <2>3, ConvPut
    <2> QED BY <2>1, <2>4
<1> QED BY <1>12, <1>15 DEF x

LEMMA AppliedOK ==
    ASSUME ImageInv, NEW l \in Loops, loops[l] # NoLoop, used' = used, ApplyTasks(l)
    PROVE  MemoryStays
BY LoopFacts, AppliedPuts, PutsStay

FailedTurn(turn) ==
    [turn EXCEPT !.status = "error",
                 !.images = [k \in Tasks |-> IF @[k] = "loading" THEN "failed" ELSE @[k]]]

LEMMA FailedTurnOK ==
    ASSUME NEW turn, NEW ids, TurnOK(turn, ids)
    PROVE  TurnOK(FailedTurn(turn), ids) /\ KeepsStopped(turn, FailedTurn(turn))
<1> DEFINE images == [k \in Tasks |-> IF turn.images[k] = "loading" THEN "failed" ELSE turn.images[k]]
<1>1. images \in [Tasks -> Images] /\ \A k \in Tasks : images[k] # "none" => turn.images[k] # "none"
    BY DEF TurnOK, Turn, Images, Errors
<1>2. \A k \in Tasks : turn.images[k] = "stopped" => images[k] = "stopped"
    OBVIOUS
<1>3. FailedTurn(turn) = [turn EXCEPT !.status = "error", !.images = images]
    BY DEF FailedTurn, TurnOK, Turn
<1> HIDE DEF images
<1> QED BY <1>1, <1>2, <1>3 DEF TurnOK, Turn, KeepsStopped

LEMMA FailPuts ==
    ASSUME ImageInv, NEW l \in Loops, loops[l] # NoLoop, used' = used, Fail(l)
    PROVE  Puts(loops[l].m, {})
<1> DEFINE x == loops[l]
           conv == Worked(l)
           turn == conv.turns[x.t]
<1>1. /\ x.m \in Mounts /\ x.c \in Convs /\ x.t \in Turns
      /\ ConvOK(x.c, conv, used, clock) /\ TurnsOK(conv.turns, used)
    BY LoopFacts
<1>2. PICK next : next = IF turn = NoTurn THEN NoTurn ELSE FailedTurn(turn)
    OBVIOUS
<1>3. Put(x.m, x.c, [turns |-> [conv.turns EXCEPT ![x.t] = next], at |-> Now])
    BY <1>2 DEF Fail, FailedTurn
<1>4. IsOf(conv.turns, x.m, x.c)
    BY WorkedIsKnown
<1> HIDE DEF x, conv, turn
<1>5. turn # NoTurn => x.t \in used /\ TurnOK(turn, used)
    BY <1>1 DEF TurnsOK, turn
<1>6. /\ next = NoTurn \/ (x.t \in used /\ TurnOK(next, used))
      /\ conv.turns[x.t] # NoTurn /\ next # NoTurn => KeepsStopped(conv.turns[x.t], next)
    BY <1>2, <1>5, FailedTurnOK DEF turn
<1>7. x.c \in used
    BY <1>1 DEF ConvOK
<1>8. Puts(x.m, {})
    BY <1>1, <1>3, <1>4, <1>6, <1>7, TurnPut
<1> QED BY <1>8 DEF x

LEMMA FailOK ==
    ASSUME ImageInv, NEW l \in Loops, loops[l] # NoLoop, used' = used, Fail(l)
    PROVE  MemoryStays /\ LoopsStay
<1>1. MemoryStays
    BY LoopFacts, FailPuts, PutsStay
<1>2. loops[l] \in LoopRecs /\ loops' = [loops EXCEPT ![l].step = "done"]
    BY LoopFacts DEF Fail
<1>3. LoopsStay
    BY <1>2, NothingAssumption DEF LoopsStay, LoopRecs, LoopSteps, ImageInv, ImageTypeOK
<1> QED BY <1>1, <1>3

LEMMA LoopMoved ==
    ASSUME ImageInv, NEW l \in Loops, loops[l] # NoLoop, NEW next \in LoopRecs,
           next.m = loops[l].m, next.c = loops[l].c, next.t = loops[l].t,
           next.snapshot = loops[l].snapshot, loops' = [loops EXCEPT ![l] = next]
    PROVE  LoopsStay
<1>1. next # NoLoop
    BY NothingAssumption
<1> QED BY <1>1 DEF LoopsStay, ImageInv, ImageTypeOK

LEMMA LookOK ==
    ASSUME ImageInv, NEW l \in Loops, loops[l] # NoLoop, Look(l)
    PROVE  LoopsStay
<1>1. PICK ids : ids = LoadingOf(mem'[loops[l].m], l)
    OBVIOUS
<1>2. ids \in SUBSET Tasks
    BY <1>1 DEF LoadingOf, Loading
<1>3. loops' = [loops EXCEPT ![l].step = IF ids = {} THEN "done" ELSE "ask", ![l].ids = ids]
    BY <1>1 DEF Look
<1>4. loops[l] \in LoopRecs
    BY LoopFacts
<1>5. PICK next : next = [loops[l] EXCEPT !.step = IF ids = {} THEN "done" ELSE "ask", !.ids = ids]
    OBVIOUS
<1>6. loops' = [loops EXCEPT ![l] = next]
    BY <1>3, <1>5 DEF ImageInv, ImageTypeOK
<1>7. /\ next \in LoopRecs
      /\ next.m = loops[l].m /\ next.c = loops[l].c /\ next.t = loops[l].t
      /\ next.snapshot = loops[l].snapshot
    BY <1>2, <1>4, <1>5 DEF LoopRecs, LoopSteps
<1> QED BY <1>6, <1>7, LoopMoved

LEMMA PollErrorOK ==
    ASSUME ImageInv, NEW l \in Loops, loops[l] # NoLoop, used' = used, PollError(l)
    PROVE  MemoryStays /\ LoopsStay
<1>1. CASE Fail(l)
    BY <1>1, FailOK
<1>2. CASE ~Fail(l)
    <2>1. PICK ids : ids = LoadingOf(mem[loops[l].m], l)
        OBVIOUS
    <2>2. ids \in SUBSET Tasks
        BY <2>1 DEF LoadingOf, Loading
    <2>3. /\ Still
          /\ loops' = [loops EXCEPT ![l].step = IF ids = {} THEN "done" ELSE "ask", ![l].ids = ids,
                                    ![l].errors = loops[l].errors + 1]
        BY <1>2, <2>1 DEF PollError, ImageInv, ImageTypeOK
    <2>4. loops[l] \in LoopRecs /\ loops[l].errors + 1 \in Nat
        BY LoopFacts DEF LoopRecs
    <2>5. PICK next : next = [loops[l] EXCEPT !.step = IF ids = {} THEN "done" ELSE "ask", !.ids = ids,
                                              !.errors = loops[l].errors + 1]
        OBVIOUS
    <2>6. loops' = [loops EXCEPT ![l] = next]
        BY <2>3, <2>5 DEF ImageInv, ImageTypeOK
    <2>7. /\ next \in LoopRecs
          /\ next.m = loops[l].m /\ next.c = loops[l].c /\ next.t = loops[l].t
          /\ next.snapshot = loops[l].snapshot
        BY <2>2, <2>4, <2>5 DEF LoopRecs, LoopSteps
    <2> QED BY <2>3, <2>6, <2>7, StillStays, LoopMoved
<1> QED BY <1>1, <1>2

LEMMA AcceptedOK ==
    ASSUME ImageInv, NEW ks
    PROVE  Accepted(ks) \in [Tasks -> Lifecycle!Phases]
BY DEF Accepted, ImageInv, ImageTypeOK, Lifecycle!Phases

LEMMA ArrivesOK ==
    ASSUME ImageInv, NEW l \in Loops, SubmitArrives(l) \/ PollArrives(l)
    PROVE  /\ LoopsStay /\ phase' \in [Tasks -> Lifecycle!Phases]
           /\ Still /\ UNCHANGED <<LoopRest, ops>>
<1>1. loops[l] # NoLoop /\ Still /\ UNCHANGED <<LoopRest, ops>>
    BY DEF SubmitArrives, PollArrives, At
<1>2. phase' \in [Tasks -> Lifecycle!Phases] /\ phase \in [Tasks -> Lifecycle!Phases]
    BY AcceptedOK DEF SubmitArrives, PollArrives, ImageInv, ImageTypeOK
<1>3. PICK got \in [Tasks -> Lifecycle!Phases] :
        \/ loops' = [loops EXCEPT ![l].step = "accepted", ![l].got = got]
        \/ loops' = [loops EXCEPT ![l].step = "polled", ![l].errors = 0, ![l].got = got]
    <2>1. [k \in Tasks |-> IF k \in loops[l].ids THEN phase'[k] ELSE "none"] \in [Tasks -> Lifecycle!Phases]
        BY <1>2 DEF Lifecycle!Phases
    <2>2. [k \in Tasks |-> IF k \in loops[l].ids THEN phase[k] ELSE "none"] \in [Tasks -> Lifecycle!Phases]
        BY <1>2 DEF Lifecycle!Phases
    <2> QED BY <2>1, <2>2 DEF SubmitArrives, PollArrives
<1>4. loops[l] \in LoopRecs
    BY <1>1, LoopFacts
<1>5. LoopsStay
    BY <1>1, <1>3, <1>4, NothingAssumption DEF LoopsStay, LoopRecs, LoopSteps, ImageInv, ImageTypeOK
<1> QED BY <1>1, <1>2, <1>5

LEMMA ArrivesKeeps ==
    ASSUME ImageInv, NEW l \in Loops, SubmitArrives(l) \/ PollArrives(l)
    PROVE  ImageInv'
<1>1. LoopsStay /\ phase' \in [Tasks -> Lifecycle!Phases] /\ Still /\ UNCHANGED <<LoopRest, ops>>
    BY ArrivesOK
<1>6. MemoryStays /\ AsksStay
    BY <1>1, StillStays, SameAsks DEF LoopRest
<1>7. /\ UNCHANGED <<mount, open, keys, load>> /\ ops' \in Nat
      /\ used' \subseteq Convs \cup Turns \cup Tasks
    BY <1>1 DEF LoopRest, ImageInv, ImageTypeOK
<1> QED BY <1>1, <1>6, <1>7, PageStays

LEMMA LoopFails ==
    ASSUME ImageInv, NEW l \in Loops, SubmitFails(l) \/ PollFails(l)
    PROVE  loops[l] # NoLoop /\ UNCHANGED LoopRest /\ Counted /\ (Fail(l) \/ PollError(l))
BY DEF SubmitFails, PollFails, At

LEMMA LoopFailsKeeps ==
    ASSUME ImageInv, NEW l \in Loops, SubmitFails(l) \/ PollFails(l)
    PROVE  ImageInv'
<1>1. loops[l] # NoLoop /\ UNCHANGED LoopRest /\ Counted /\ (Fail(l) \/ PollError(l))
    BY LoopFails
<1>2. phase' \in [Tasks -> Lifecycle!Phases]
    BY AcceptedOK DEF SubmitFails, PollFails, ImageInv, ImageTypeOK
<1>3. UNCHANGED <<mount, open, keys, load, asks, used>>
    BY <1>1 DEF LoopRest
<1>4. MemoryStays /\ LoopsStay /\ AsksStay
    BY <1>1, <1>3, FailOK, PollErrorOK, SameAsks
<1>5. ops' \in Nat /\ used' \subseteq Convs \cup Turns \cup Tasks
    BY <1>1, <1>3 DEF Counted, ImageInv, ImageTypeOK
<1> QED BY <1>2, <1>3, <1>4, <1>5, PageStays

LEMMA LoopApplies ==
    ASSUME ImageInv, NEW l \in Loops, SubmitApplied(l) \/ PollApplied(l)
    PROVE  /\ loops[l] # NoLoop /\ UNCHANGED <<mount, open, keys, load, asks, used, phase, ops>>
           /\ ApplyTasks(l) \/ Still
           /\ LoopsStay
<1>1. loops[l] # NoLoop /\ UNCHANGED <<LoopRest, phase, ops>> /\ (ApplyTasks(l) \/ Still)
    BY DEF SubmitApplied, PollApplied, At
<1>2. CASE Look(l)
    BY <1>1, <1>2, LookOK DEF LoopRest
<1>3. CASE ~Look(l)
    <2>1. PICK missing \in SUBSET loops[l].ids :
            loops' = [loops EXCEPT ![l].step = "submit", ![l].again = TRUE, ![l].ids = missing]
        BY <1>3 DEF SubmitApplied, PollApplied
    <2>2. loops[l] \in LoopRecs
        BY <1>1, LoopFacts
    <2>3. missing \in SUBSET Tasks
        BY <2>2 DEF LoopRecs
    <2>4. PICK next : next = [loops[l] EXCEPT !.step = "submit", !.again = TRUE, !.ids = missing]
        OBVIOUS
    <2>5. loops' = [loops EXCEPT ![l] = next]
        BY <2>1, <2>4 DEF ImageInv, ImageTypeOK
    <2>6. /\ next \in LoopRecs
          /\ next.m = loops[l].m /\ next.c = loops[l].c /\ next.t = loops[l].t
          /\ next.snapshot = loops[l].snapshot
        BY <2>2, <2>3, <2>4 DEF LoopRecs, LoopSteps
    <2> QED BY <1>1, <2>5, <2>6, LoopMoved DEF LoopRest
<1> QED BY <1>2, <1>3

LEMMA LoopAppliesKeeps ==
    ASSUME ImageInv, NEW l \in Loops, SubmitApplied(l) \/ PollApplied(l)
    PROVE  ImageInv'
<1>1. /\ loops[l] # NoLoop /\ UNCHANGED <<mount, open, keys, load, asks, used, phase, ops>>
      /\ ApplyTasks(l) \/ Still
      /\ LoopsStay
    BY LoopApplies
<1>2. MemoryStays /\ AsksStay
    BY <1>1, AppliedOK, StillStays, SameAsks
<1> QED BY <1>1, <1>2, PageStays DEF ImageInv, ImageTypeOK

\* A loop that begins has the turn to itself, and a slot of its own.
LEMMA RunQueueKeeps ==
    ASSUME ImageInv, RunQueue
    PROVE  ImageInv'
<1>1. PICK x \in calls : x = CHOOSE y \in calls : TRUE
    BY DEF RunQueue, Quiet
<1>2. PICK m, t : m = x[1] /\ t = x[2]
    OBVIOUS
<1>3. m \in Mounts /\ t \in Turns /\ m <= mount
    BY <1>2 DEF ImageInv, ImageTypeOK, MountsBegun
<1>4. /\ calls' \subseteq calls
      /\ UNCHANGED <<phase, store, mount, open, mem, asks, load, used, clock, ops>>
    BY DEF RunQueue
<1>5. CASE Waiting(mem[m], t) /\ t \notin keys
    <2>1. PICK l : l = CHOOSE y \in Loops : loops[y] = NoLoop
        OBVIOUS
    <2>2. PICK c : c = ConvOf(mem[m], t)
        OBVIOUS
    <2>3. PICK new : new = [m |-> m, c |-> c, t |-> t, step |-> "submit", again |-> FALSE,
                            errors |-> 0, ids |-> Loading(mem[m][c].turns[t]), got |-> NoAnswer,
                            snapshot |-> mem[m][c]]
        OBVIOUS
    <2>4. /\ \E y \in Loops : loops[y] = NoLoop
          /\ keys' = keys \cup {t} /\ loops' = [loops EXCEPT ![l] = new]
        BY <1>1, <1>2, <1>5, <2>1, <2>2, <2>3 DEF RunQueue, TakeKey
    <2>5. l \in Loops /\ loops[l] = NoLoop
        BY <2>1, <2>4
    <2>6. c \in Convs /\ Has(mem[m], c, t)
        BY <1>5, <2>2 DEF Waiting, ConvOf
    <2>7. ConvOK(c, mem[m][c], used, clock)
        BY <1>3, <2>6, HeldTurn DEF ImageInv, Held
    <2>8. new \in LoopRecs /\ new # NoLoop
        <3>1. Loading(mem[m][c].turns[t]) \in SUBSET Tasks
            BY DEF Loading
        <3>2. NoAnswer \in [Tasks -> Lifecycle!Phases]
            BY DEF NoAnswer, Lifecycle!Phases
        <3>3. mem[m][c] \in Conv
            BY <2>7 DEF ConvOK
        <3>4. new \in LoopRecs
            BY <1>3, <2>3, <2>6, <3>1, <3>2, <3>3 DEF LoopRecs, LoopSteps
        <3> QED BY <3>4, NothingAssumption
    <2>9. new.m = m /\ new.t = t /\ new.c = c /\ new.snapshot = mem[m][c]
        BY <2>3
    <2>10. /\ \A y \in Loops : loops'[y] = IF y = l THEN new ELSE loops[y]
           /\ loops' \in [Loops -> LoopRecs \cup {NoLoop}]
        BY <2>4, <2>5, <2>8 DEF ImageInv, ImageTypeOK
    <2>11. ImageTypeOK'
        BY <1>3, <1>4, <2>4, <2>10 DEF ImageInv, ImageTypeOK
    <2>12. Held'
        BY <1>4, <2>7, <2>9, <2>10 DEF ImageInv, Held
    <2>13. MountsBegun'
        BY <1>3, <1>4, <2>9, <2>10 DEF ImageInv, MountsBegun
    <2>14. KeysHaveLoops'
        BY <2>4, <2>5, <2>8, <2>9, <2>10 DEF ImageInv, KeysHaveLoops
    <2>15. OneLoopPerTurn'
        <3> SUFFICES ASSUME mount = 1 /\ open, NEW y \in Loops, loops'[y] # NoLoop
                     PROVE  /\ loops'[y].t \in keys'
                            /\ \A z \in Loops \ {y} : loops'[z] # NoLoop => loops'[z].t # loops'[y].t
            BY <1>4 DEF OneLoopPerTurn
        <3>1. \A z \in Loops : loops[z] # NoLoop => loops[z].t \in keys /\ loops[z].t # t
            BY <1>5 DEF ImageInv, OneLoopPerTurn
        <3> QED BY <2>4, <2>9, <2>10, <3>1 DEF ImageInv, OneLoopPerTurn
    <2> QED BY <2>11, <2>12, <2>13, <2>14, <2>15 DEF ImageInv
<1>6. CASE ~(Waiting(mem[m], t) /\ t \notin keys)
    <2>1. UNCHANGED <<keys, loops>>
        BY <1>1, <1>2, <1>6 DEF RunQueue
    <2>2. ImageTypeOK'
        BY <1>4, <2>1 DEF ImageInv, ImageTypeOK
    <2>3. Held' /\ MountsBegun'
        BY <1>4, <2>1 DEF ImageInv, Held, MountsBegun
    <2>4. KeysHaveLoops' /\ OneLoopPerTurn'
        BY <1>4, <2>1 DEF ImageInv, KeysHaveLoops, OneLoopPerTurn
    <2> QED BY <2>2, <2>3, <2>4 DEF ImageInv
<1> QED BY <1>5, <1>6

LEMMA FinishKeeps ==
    ASSUME ImageInv, NEW l \in Loops, Finish(l)
    PROVE  ImageInv'
<1>1. /\ loops[l] # NoLoop /\ keys' = keys \ {loops[l].t} /\ loops' = [loops EXCEPT ![l] = NoLoop]
      /\ calls' = {loops[l].m} \X {t \in Turns \ keys' : Waiting(mem[loops[l].m], t)}
      /\ UNCHANGED <<phase, store, mount, open, mem, asks, load, used, clock, ops>>
    BY DEF Finish, At, ReleaseKey
<1>2. /\ \A y \in Loops : loops'[y] = IF y = l THEN NoLoop ELSE loops[y]
      /\ loops' \in [Loops -> LoopRecs \cup {NoLoop}]
    BY <1>1 DEF ImageInv, ImageTypeOK
<1>3. calls' \subseteq Mounts \X Turns /\ \A x \in calls' : x[1] <= mount
    BY <1>1, LoopFacts
<1>4. ImageTypeOK'
    BY <1>1, <1>2, <1>3 DEF ImageInv, ImageTypeOK
<1>5. Held' /\ MountsBegun'
    BY <1>1, <1>2, <1>3 DEF ImageInv, Held, MountsBegun
<1>6. KeysHaveLoops'
    BY <1>1, <1>2 DEF ImageInv, KeysHaveLoops
<1>7. OneLoopPerTurn'
    BY <1>1, <1>2 DEF ImageInv, OneLoopPerTurn
<1> QED BY <1>4, <1>5, <1>6, <1>7 DEF ImageInv

(***************************************************************************)
(* A handler whose request is answered.                                    *)
(***************************************************************************)
\* The conversation it puts in place of the one it finds.
AnsweredConv(a, conv, next) ==
    IF a.op = "stop" THEN Restamped(conv, [conv.turns EXCEPT ![a.t] = next])
    ELSE [conv EXCEPT !.turns = [conv.turns EXCEPT ![a.t] = next]]
AnsweredTurn(a, turn) ==
    IF turn = NoTurn THEN NoTurn
    ELSE IF a.op = "stop" THEN StoppedTurn(turn, a.k) ELSE ContinuedTurn(turn, a.k)

LEMMA AskFacts ==
    ASSUME ImageInv, NEW a \in asks
    PROVE  /\ a.op \in {"stop", "continue"} /\ a.m \in Mounts /\ a.m <= mount
           /\ a.c \in Convs /\ a.t \in Turns /\ a.k \in Tasks
<1>1. a \in [op : {"stop", "continue"}, m : Mounts, c : Convs, t : Turns, k : Tasks] /\ a.m <= mount
    BY DEF ImageInv, ImageTypeOK, MountsBegun
<1> QED BY <1>1

LEMMA AnsweredConvOK ==
    ASSUME ImageInv, NEW a \in asks, NEW conv, ConvOK(a.c, conv, used, clock),
           NEW next, next = AnsweredTurn(a, conv.turns[a.t]),
           NEW new, new = AnsweredConv(a, conv, next)
    PROVE  /\ ConvOK(a.c, new, used, new.at) /\ new.turns = [conv.turns EXCEPT ![a.t] = next]
           /\ new.at = conv.at \/ new.at = Now
<1>1. /\ a.op \in {"stop", "continue"} /\ a.m \in Mounts /\ a.c \in Convs /\ a.t \in Turns /\ a.k \in Tasks
    BY AskFacts
<1>2. TurnsOK(conv.turns, used) /\ clock \in Nat
    BY DEF ImageInv, ImageTypeOK, ConvOK
<1>3. conv.turns[a.t] # NoTurn => a.t \in used /\ TurnOK(conv.turns[a.t], used)
    BY <1>1, <1>2 DEF TurnsOK
<1>4. next = NoTurn \/ (a.t \in used /\ TurnOK(next, used))
    BY <1>1, <1>3, StoppedTurnOK, ContinuedTurnOK DEF AnsweredTurn
<1>5. PICK turns : turns = [conv.turns EXCEPT ![a.t] = next]
    OBVIOUS
<1>6. TurnsOK(turns, used)
    BY <1>1, <1>2, <1>4, <1>5, TurnsExcept
<1>7. CASE a.op = "stop"
    <2>1. new = Restamped(conv, turns)
        BY <1>5, <1>7 DEF AnsweredConv
    <2>2. ConvOK(a.c, new, used, new.at) /\ new.turns = turns /\ (new.at = conv.at \/ new.at = Now)
        BY <1>2, <1>6, <2>1, RestampedOK
    <2> QED BY <1>5, <2>2
<1>8. CASE a.op # "stop"
    <2>1. new = [conv EXCEPT !.turns = turns]
        BY <1>5, <1>8 DEF AnsweredConv
    <2>2. conv \in Conv /\ turns \in [Turns -> Turn \cup {NoTurn}]
        BY <1>2, <1>6 DEF ConvOK, TurnsOK
    <2>3. new \in Conv /\ new.turns = turns /\ new.at = conv.at /\ new.at \in Nat
        BY <2>1, <2>2 DEF Conv
    <2>4. a.c \in used
        BY <1>2 DEF ConvOK
    <2>5. TurnsOK(new.turns, used)
        BY <1>6, <2>3
    <2>6. ConvOK(a.c, new, used, new.at)
        BY <2>3, <2>4, <2>5, OwnStamp
    <2> QED BY <1>5, <2>3, <2>6
<1> QED BY <1>7, <1>8

\* Only the image that is asked for again does not stay stopped.
LEMMA AnsweredPuts ==
    ASSUME ImageInv, NEW a \in asks, used' = used, mem[a.m][a.c] # NoConv,
           Put(a.m, a.c, AnsweredConv(a, mem[a.m][a.c], AnsweredTurn(a, mem[a.m][a.c].turns[a.t])))
    PROVE  Puts(a.m, IF a.op = "continue" THEN {a.k} ELSE {})
<1>1. PICK conv : conv = mem[a.m][a.c]
    OBVIOUS
<1>2. PICK next : next = AnsweredTurn(a, conv.turns[a.t])
    OBVIOUS
<1>3. PICK new : new = AnsweredConv(a, conv, next)
    OBVIOUS
<1>4. PICK free : free = IF a.op = "continue" THEN {a.k} ELSE {}
    OBVIOUS
<1>11. ConvOK(a.c, conv, used, clock)
    BY <1>1, AskFacts DEF ImageInv, Held, MemOK
<1>5. /\ ConvOK(a.c, new, used, new.at) /\ new.turns = [conv.turns EXCEPT ![a.t] = next]
      /\ new.at = conv.at \/ new.at = Now
    BY <1>2, <1>3, <1>11, AnsweredConvOK
<1>6. Put(a.m, a.c, new) /\ IsOf(conv.turns, a.m, a.c) /\ Stamped(new, a.m, a.c)
    BY <1>1, <1>2, <1>3, <1>5 DEF Known, IsOf, Stamped
<1>7. /\ a.op \in {"stop", "continue"} /\ a.m \in Mounts /\ a.c \in Convs /\ a.t \in Turns /\ a.k \in Tasks
    BY AskFacts
<1>8. TurnsOK(conv.turns, used)
    BY <1>1, <1>7 DEF ImageInv, Held, MemOK, ConvOK
<1>9. ASSUME NEW k \in Tasks \ free, conv.turns[a.t] # NoTurn, next # NoTurn,
             conv.turns[a.t].images[k] = "stopped"
      PROVE  next.images[k] \in {"stopped", "none", "deleted"}
    <2>1. TurnOK(conv.turns[a.t], used)
        BY <1>7, <1>8, <1>9 DEF TurnsOK
    <2>2. CASE a.op = "stop"
        <3>1. next = StoppedTurn(conv.turns[a.t], a.k)
            BY <1>2, <1>9, <2>2 DEF AnsweredTurn
        <3> QED BY <1>7, <1>9, <2>1, <3>1, StoppedTurnOK DEF KeepsStopped
    <2>3. CASE a.op = "continue"
        <3>1. next = ContinuedTurn(conv.turns[a.t], a.k)
            BY <1>2, <1>9, <2>3 DEF AnsweredTurn
        <3>2. k \in Tasks \ {a.k}
            BY <1>4, <2>3
        <3> QED BY <1>7, <1>9, <2>1, <3>1, <3>2, ContinuedTurnOK
    <2> QED BY <1>7, <2>2, <2>3
<1>12. StaysStopped(conv.turns[a.t], next, free)
    BY <1>9 DEF StaysStopped
<1>13. ConvOK(a.c, new, used', new.at) /\ TurnsOK(conv.turns, used') /\ used \subseteq used'
    BY <1>5, <1>8
<1>10. Puts(a.m, free)
    <2>1. PICK m \in Mounts, c \in Convs, t \in Turns : m = a.m /\ c = a.c /\ t = a.t
        BY <1>7
    <2>2. TurnsOK(conv.turns, used') /\ IsOf(conv.turns, m, c) /\ StaysStopped(conv.turns[t], next, free)
        BY <1>6, <1>12, <1>13, <2>1
    <2>3. /\ ConvOK(c, new, used', new.at) /\ new.turns = [conv.turns EXCEPT ![t] = next]
          /\ Stamped(new, m, c) /\ Put(m, c, new)
        BY <1>5, <1>6, <1>13, <2>1
    <2>4. Puts(m, free)
        BY <1>13, <2>2, <2>3, ConvPut
    <2> QED BY <2>1, <2>4
<1> QED BY <1>4, <1>10

\* What an answer does: a change of a conversation, or the end of a page.
LEMMA AnsweredSteps ==
    ASSUME ImageInv, NEW a, Answered(a)
    PROVE  /\ a \in asks /\ asks' = asks \ {a} /\ UNCHANGED <<phase, mount, load, used, ops>>
           /\ \/ /\ mem[a.m][a.c] # NoConv /\ UNCHANGED <<open, keys, loops>>
                 /\ Put(a.m, a.c, AnsweredConv(a, mem[a.m][a.c], AnsweredTurn(a, mem[a.m][a.c].turns[a.t])))
              \/ UNCHANGED <<store, mem, clock, calls, open, keys, loops>>
              \/ /\ UNCHANGED <<store, mem, clock, calls>>
                 /\ open' = (open /\ ~Shown(a.m))
                 /\ keys' = IF Shown(a.m) THEN {} ELSE keys \ {loops[l].t : l \in LoopsOf(a.m)}
                 /\ loops' = [l \in Loops |-> IF l \in LoopsOf(a.m) THEN NoLoop ELSE loops[l]]
<1>1. a \in asks /\ asks' = asks \ {a} /\ UNCHANGED <<phase, mount, load, used, ops>>
    BY DEF Answered
<1>2. CASE mem[a.m][a.c] # NoConv
    BY <1>1, <1>2 DEF Answered, Current, AnsweredConv, AnsweredTurn
<1>3. CASE mem[a.m][a.c] = NoConv
    BY <1>1, <1>3 DEF Answered, Current
<1> QED BY <1>2, <1>3

LEMMA AnsweredKeeps ==
    ASSUME ImageInv, NEW a, Answered(a)
    PROVE  ImageInv'
<1>1. a \in asks /\ asks' = asks \ {a} /\ UNCHANGED <<phase, mount, load, used, ops>>
    BY AnsweredSteps
<1>2. /\ a.m \in Mounts /\ a.m <= mount /\ a.c \in Convs
    BY <1>1, AskFacts
<1>3. AsksStay
    BY <1>1 DEF ImageInv, ImageTypeOK, MountsBegun, AsksStay, AskRecs
<1>4. CASE UNCHANGED <<open, keys, loops>>
    <2>1. MemoryStays
        <3>1. CASE /\ mem[a.m][a.c] # NoConv
                   /\ Put(a.m, a.c, AnsweredConv(a, mem[a.m][a.c],
                                                 AnsweredTurn(a, mem[a.m][a.c].turns[a.t])))
            BY <1>1, <1>2, <3>1, AnsweredPuts, PutsStay
        <3>2. CASE UNCHANGED <<store, mem, clock, calls>>
            BY <1>1, <3>2, StillStays DEF Still
        <3> QED BY <3>1, <3>2, AnsweredSteps
    <2>2. LoopsStay
        BY <1>4, SameLoops
    <2> QED BY <1>1, <1>3, <1>4, <2>1, <2>2, PageStays DEF ImageInv, ImageTypeOK
<1>5. CASE /\ UNCHANGED <<store, mem, clock, calls>>
           /\ open' = (open /\ ~Shown(a.m))
           /\ keys' = IF Shown(a.m) THEN {} ELSE keys \ {loops[l].t : l \in LoopsOf(a.m)}
           /\ loops' = [l \in Loops |-> IF l \in LoopsOf(a.m) THEN NoLoop ELSE loops[l]]
    <2>1. /\ \A l \in Loops : loops'[l] = NoLoop \/ (loops'[l] = loops[l] /\ l \notin LoopsOf(a.m))
          /\ \A l \in Loops : l \notin LoopsOf(a.m) => loops'[l] = loops[l]
          /\ loops' \in [Loops -> LoopRecs \cup {NoLoop}]
        BY <1>5 DEF ImageInv, ImageTypeOK
    <2>2. open' \in BOOLEAN /\ keys' \subseteq keys
        BY <1>5 DEF ImageInv, ImageTypeOK
    <2>3. ImageTypeOK'
        BY <1>1, <1>5, <2>1, <2>2 DEF ImageInv, ImageTypeOK
    <2>4. Held' /\ MountsBegun'
        BY <1>1, <1>5, <2>1 DEF ImageInv, Held, MountsBegun
    <2>5. KeysHaveLoops'
        <3> SUFFICES ASSUME NEW t \in keys'
                     PROVE  \E l \in Loops : loops'[l] # NoLoop /\ loops'[l].t = t
            BY DEF KeysHaveLoops
        <3>1. ~Shown(a.m) /\ t \in keys /\ t \notin {loops[l].t : l \in LoopsOf(a.m)}
            BY <1>5
        <3>2. PICK l \in Loops : loops[l] # NoLoop /\ loops[l].t = t
            BY <3>1 DEF ImageInv, KeysHaveLoops
        <3>3. l \notin LoopsOf(a.m)
            BY <3>1, <3>2
        <3> QED BY <2>1, <3>2, <3>3
    <2>6. OneLoopPerTurn'
        <3> SUFFICES ASSUME mount = 1 /\ open', NEW l \in Loops, loops'[l] # NoLoop
                     PROVE  /\ loops'[l].t \in keys'
                            /\ \A y \in Loops \ {l} : loops'[y] # NoLoop => loops'[y].t # loops'[l].t
            BY <1>1 DEF OneLoopPerTurn
        <3>1. open /\ ~Shown(a.m)
            BY <1>5
        <3>2. keys' = keys \ {loops[y].t : y \in LoopsOf(a.m)}
            BY <1>5, <3>1
        <3>3. loops'[l] = loops[l] /\ l \notin LoopsOf(a.m) /\ loops[l] # NoLoop
            BY <2>1
        <3>4. loops[l].t \in keys /\ \A y \in Loops \ {l} : loops[y] # NoLoop => loops[y].t # loops[l].t
            BY <3>1, <3>3 DEF ImageInv, OneLoopPerTurn
        <3>5. \A y \in LoopsOf(a.m) : y \in Loops \ {l} /\ loops[y] # NoLoop
            BY <3>3 DEF LoopsOf
        <3>6. loops[l].t \notin {loops[y].t : y \in LoopsOf(a.m)}
            BY <3>4, <3>5
        <3>7. \A y \in Loops \ {l} : loops'[y] # NoLoop => loops'[y].t # loops[l].t
            BY <2>1, <3>4
        <3> QED BY <3>2, <3>3, <3>4, <3>6, <3>7
    <2> QED BY <2>3, <2>4, <2>5, <2>6 DEF ImageInv
<1> QED BY <1>4, <1>5, AnsweredSteps

(***************************************************************************)
(* The service, and the theorem.                                           *)
(***************************************************************************)
LEMMA ServiceKeeps ==
    ASSUME ImageInv, NEW k \in Tasks, TaskEnds(k) \/ TaskLost(k)
    PROVE  ImageInv'
<1>1. UNCHANGED <<store, mount, open, mem, keys, loops, calls, asks, load, used, clock>>
    BY DEF TaskEnds, TaskLost, ServiceRest
<1>2. phase' \in [Tasks -> Lifecycle!Phases]
    BY DEF TaskEnds, TaskLost, ImageInv, ImageTypeOK, Lifecycle!Phases, Lifecycle!Ended
<1>3. ops' \in Nat
    BY DEF TaskEnds, TaskLost, Counted, ImageInv, ImageTypeOK
<1>4. MemoryStays /\ LoopsStay /\ AsksStay
    BY <1>1, StillStays, SameLoops, SameAsks DEF Still
<1> QED BY <1>1, <1>2, <1>3, <1>4, PageStays DEF ImageInv, ImageTypeOK

LEMMA ImageInit == InitImage => ImageInv
<1> SUFFICES ASSUME InitImage PROVE ImageInv
    OBVIOUS
<1>1. Nothing \in Memory /\ \A ids, now : MemOK(Nothing, ids, now)
    BY NothingOK DEF MemOK
<1>2. ImageTypeOK
    BY <1>1, BoundsAssumption DEF InitImage, ImageTypeOK, Mounts, Lifecycle!Phases
<1>3. Held /\ MountsBegun
    BY <1>1 DEF InitImage, Held, MountsBegun
<1>4. KeysHaveLoops /\ OneLoopPerTurn
    BY DEF InitImage, KeysHaveLoops, OneLoopPerTurn
<1> QED BY <1>2, <1>3, <1>4 DEF ImageInv

LEMMA UserKeeps ==
    ASSUME ImageInv, UserStep
    PROVE  ImageInv'
<1>1. CASE Submit
    BY <1>1, SubmitKeeps
<1>2. ASSUME NEW c \in Convs, NEW t \in Turns,
             \/ Regenerate(c, t) \/ DismissErrors(c, t)
             \/ \E part \in {"prompt", "results"} : DeleteTurnPart(c, t, part)
             \/ \E k \in Tasks : RetryImage(c, t, k) \/ AskStop(c, t, k) \/ AskContinue(c, t, k)
      PROVE  ImageInv'
    BY <1>2, SubmitKeeps, DismissErrorsKeeps, DeleteTurnPartKeeps, RetryImageKeeps, AskStopKeeps,
       AskContinueKeeps
<1>3. ASSUME NEW c \in Convs, Rename(c) \/ DeleteConversation(c)
      PROVE  ImageInv'
    BY <1>3, RenameKeeps, DeleteConversationKeeps
<1>4. CASE ClearHistory \/ Leave \/ Return \/ Reload \/ PageShow
    BY <1>4, ClearHistoryKeeps, LeaveKeeps, ReturnKeeps, ReloadKeeps, PageShowKeeps
<1> QED BY <1>1, <1>2, <1>3, <1>4 DEF UserStep

LEMMA ImageNext == ImageInv /\ [NextImage]_imageVars => ImageInv'
<1> SUFFICES ASSUME ImageInv, [NextImage]_imageVars PROVE ImageInv'
    OBVIOUS
<1>1. CASE UserStep
    BY <1>1, UserKeeps
<1>2. CASE RunQueue
    BY <1>2, RunQueueKeeps
<1>3. ASSUME NEW a \in asks, Answered(a) PROVE ImageInv'
    BY <1>3, AnsweredKeeps
<1>4. ASSUME NEW m \in Mounts, Loaded(m) PROVE ImageInv'
    BY <1>4, LoadedKeeps
<1>5. ASSUME NEW l \in Loops, LoopStep(l) PROVE ImageInv'
    BY <1>5, ArrivesKeeps, LoopFailsKeeps, LoopAppliesKeeps, FinishKeeps DEF LoopStep
<1>6. CASE ServiceStep
    BY <1>6, ServiceKeeps DEF ServiceStep
<1>7. CASE UNCHANGED imageVars
    <2>1. UNCHANGED <<phase, store, mount, open, mem, keys, loops, calls, asks, load, used, clock, ops>>
        BY <1>7 DEF imageVars
    <2>2. MemoryStays /\ LoopsStay /\ AsksStay
        BY <2>1, StillStays, SameLoops, SameAsks DEF Still
    <2> QED BY <2>1, <2>2, PageStays DEF ImageInv, ImageTypeOK
<1> QED BY <1>1, <1>2, <1>3, <1>4, <1>5, <1>6, <1>7 DEF NextImage, PageStep

\* The invariant holds of the page, whatever it is shown, asked and answered.
THEOREM ImageInvariant == SpecImage => []ImageInv
BY ImageInit, ImageNext, PTL DEF SpecImage

\* The variables of the image page keep their types.
THEOREM ImageTypes == SpecImage => []ImageTypeOK
BY ImageInvariant, PTL DEF ImageInv

\* Until the page is left no turn is worked on by two loops, and every loop
\* runs under its key.
THEOREM OneLoopForATurn == SpecImage => []OneLoopPerTurn
BY ImageInvariant, PTL DEF ImageInv

\* Every key is that of a loop that runs.
THEOREM KeysAreOfLoops == SpecImage => []KeysHaveLoops
BY ImageInvariant, PTL DEF ImageInv

(***************************************************************************)
(* What a step may do to the conversations, and to the loops, which are of *)
(* conversations that a page or another loop has.                          *)
(***************************************************************************)
LoopsKnown ==
    \A l \in Loops : loops'[l] # NoLoop =>
        \/ \E y \in Loops : loops[y] # NoLoop /\ loops[y].c = loops'[l].c
        \/ \E m \in Mounts : mem[m][loops'[l].c] # NoConv

Goes == /\ UNCHANGED <<mount, load>> /\ used \subseteq used' /\ LoopsKnown
        /\ \/ UNCHANGED <<store, mem>>
           \/ \E m \in Mounts : m <= mount /\ Puts(m, {})
           \/ \E a \in asks : a.op = "continue" /\ Puts(a.m, {a.k})
           \/ \E c \in Convs : Remove(c)

Shows == Return \/ Reload \/ PageShow \/ \E m \in Mounts : Loaded(m)

StepKind == Goes \/ (\E c \in Convs : Rename(c)) \/ ClearHistory \/ Shows

LEMMA StayKnown ==
    ASSUME LoopsStay
    PROVE  LoopsKnown
BY DEF LoopsStay, LoopsKnown

LEMMA SameKnown ==
    ASSUME UNCHANGED loops
    PROVE  LoopsKnown
BY DEF LoopsKnown

LEMMA SubmitKind ==
    ASSUME ImageInv, Submit \/ \E c \in Convs, t \in Turns : Regenerate(c, t)
    PROVE  Goes
<1>1. PICK t \in Turns, ks \in SUBSET Tasks, c \in Convs : \E conv : Adds(c, conv, t, ks)
    BY SubmitAdds
<1>2. PICK conv : Adds(c, conv, t, ks)
    BY <1>1
<1>3. /\ AddTurn(c, conv, t, ks) /\ t \notin used
      /\ (M0[c] # NoConv /\ conv = M0[c]) \/ (c \notin used /\ TurnsOK(conv.turns, used))
    BY <1>2 DEF Adds
<1>4. Puts(mount, {}) /\ mount \in Mounts /\ mount <= mount
    BY <1>3, AddTurnPuts, ShownMount
<1>5. UNCHANGED <<mount, load, loops>> /\ used \subseteq used'
    BY <1>3 DEF AddTurn
<1> QED BY <1>4, <1>5, SameKnown DEF Goes

LEMMA TurnKind ==
    ASSUME ImageInv, NEW c \in Convs, NEW t \in Turns,
           \/ DismissErrors(c, t)
           \/ \E part \in {"prompt", "results"} : DeleteTurnPart(c, t, part)
           \/ \E k \in Tasks : RetryImage(c, t, k) \/ AskStop(c, t, k) \/ AskContinue(c, t, k)
    PROVE  Goes
<1>1. mount \in Mounts /\ mount <= mount
    BY ShownMount
<1>2. CASE DismissErrors(c, t)
    <2>1. UNCHANGED <<mount, load, loops, used>>
        BY <1>2 DEF DismissErrors
    <2> QED BY <1>1, <1>2, <2>1, DismissErrorsPuts, SameKnown DEF Goes
<1>3. ASSUME NEW part, DeleteTurnPart(c, t, part) PROVE Goes
    <2>1. UNCHANGED <<mount, load, loops, used>>
        BY <1>3 DEF DeleteTurnPart
    <2>2. Remove(c) \/ Puts(mount, {})
        BY <1>3, DeleteTurnPartPuts
    <2> QED BY <1>1, <2>1, <2>2, SameKnown DEF Goes
<1>4. ASSUME NEW k \in Tasks, RetryImage(c, t, k) PROVE Goes
    <2>1. UNCHANGED <<mount, load, loops>> /\ used \subseteq used'
        BY <1>4 DEF RetryImage
    <2> QED BY <1>1, <1>4, <2>1, RetryImagePuts, SameKnown DEF Goes
<1>5. ASSUME NEW k \in Tasks, AskStop(c, t, k) \/ AskContinue(c, t, k) PROVE Goes
    <2>1. UNCHANGED <<mount, load, loops, used, store, mem>>
        BY <1>5 DEF AskStop, AskContinue
    <2> QED BY <2>1, SameKnown DEF Goes
<1> QED BY <1>2, <1>3, <1>4, <1>5

LEMMA UserKind ==
    ASSUME ImageInv, UserStep
    PROVE  StepKind
<1>1. CASE Submit
    BY <1>1, SubmitKind DEF StepKind
<1>2. ASSUME NEW c \in Convs, NEW t \in Turns,
             \/ Regenerate(c, t) \/ DismissErrors(c, t)
             \/ \E part \in {"prompt", "results"} : DeleteTurnPart(c, t, part)
             \/ \E k \in Tasks : RetryImage(c, t, k) \/ AskStop(c, t, k) \/ AskContinue(c, t, k)
      PROVE  StepKind
    BY <1>2, SubmitKind, TurnKind DEF StepKind
<1>3. ASSUME NEW c \in Convs, Rename(c) \/ DeleteConversation(c)
      PROVE  StepKind
    <2>1. CASE Rename(c)
        BY <2>1 DEF StepKind
    <2>2. CASE DeleteConversation(c)
        <3>1. Remove(c) /\ UNCHANGED <<mount, load, loops, used>>
            BY <2>2 DEF DeleteConversation
        <3> QED BY <3>1, SameKnown DEF StepKind, Goes
    <2> QED BY <1>3, <2>1, <2>2
<1>4. CASE ClearHistory \/ Return \/ Reload \/ PageShow
    BY <1>4 DEF StepKind, Shows
<1>5. CASE Leave
    <2>1. UNCHANGED <<mount, load, loops, used, store, mem>>
        BY <1>5 DEF Leave
    <2> QED BY <2>1, SameKnown DEF StepKind, Goes
<1> QED BY <1>1, <1>2, <1>3, <1>4, <1>5 DEF UserStep

LEMMA LoopKind ==
    ASSUME ImageInv, NEW l \in Loops, LoopStep(l)
    PROVE  Goes
<1>1. CASE SubmitArrives(l) \/ PollArrives(l)
    <2>1. LoopsStay /\ UNCHANGED <<mount, load, used, store, mem>>
        BY <1>1, ArrivesOK DEF Still, LoopRest
    <2> QED BY <2>1, StayKnown DEF Goes
<1>2. CASE SubmitFails(l) \/ PollFails(l)
    <2>1. loops[l] # NoLoop /\ UNCHANGED <<mount, load, used>> /\ (Fail(l) \/ PollError(l))
        BY <1>2, LoopFails DEF LoopRest
    <2>2. LoopsStay
        BY <2>1, FailOK, PollErrorOK
    <2>3. Fail(l) \/ UNCHANGED <<store, mem>>
        BY <2>1 DEF PollError, Still
    <2>4. loops[l].m \in Mounts /\ loops[l].m <= mount /\ (Fail(l) => Puts(loops[l].m, {}))
        BY <2>1, LoopFacts, FailPuts
    <2> QED BY <2>1, <2>2, <2>3, <2>4, StayKnown DEF Goes
<1>3. CASE SubmitApplied(l) \/ PollApplied(l)
    <2>1. /\ loops[l] # NoLoop /\ UNCHANGED <<mount, load, used>>
          /\ ApplyTasks(l) \/ UNCHANGED <<store, mem>>
          /\ LoopsStay
        BY <1>3, LoopApplies DEF Still
    <2>2. loops[l].m \in Mounts /\ loops[l].m <= mount /\ (ApplyTasks(l) => Puts(loops[l].m, {}))
        BY <2>1, LoopFacts, AppliedPuts
    <2> QED BY <2>1, <2>2, StayKnown DEF Goes
<1>4. CASE Finish(l)
    <2>1. loops' = [loops EXCEPT ![l] = NoLoop] /\ UNCHANGED <<mount, load, used, store, mem>>
        BY <1>4 DEF Finish
    <2>2. LoopsKnown
        BY <2>1 DEF LoopsKnown, ImageInv, ImageTypeOK
    <2> QED BY <2>1, <2>2 DEF Goes
<1> QED BY <1>1, <1>2, <1>3, <1>4 DEF LoopStep

LEMMA RunQueueKind ==
    ASSUME ImageInv, RunQueue
    PROVE  Goes
<1>1. PICK x \in calls : x = CHOOSE y \in calls : TRUE
    BY DEF RunQueue, Quiet
<1>2. PICK m, t : m = x[1] /\ t = x[2]
    OBVIOUS
<1>3. m \in Mounts /\ t \in Turns
    BY <1>2 DEF ImageInv, ImageTypeOK
<1>4. UNCHANGED <<mount, load, used, store, mem>>
    BY DEF RunQueue
<1>5. CASE Waiting(mem[m], t) /\ t \notin keys
    <2>1. PICK l, c : l = (CHOOSE y \in Loops : loops[y] = NoLoop) /\ c = ConvOf(mem[m], t)
        OBVIOUS
    <2>2. PICK new : /\ new.c = c
                     /\ loops' = [loops EXCEPT ![l] = new]
        BY <1>1, <1>2, <1>5, <2>1 DEF RunQueue
    <2>3. mem[m][c] # NoConv
        BY <1>5, <2>1 DEF Waiting, ConvOf, Has
    <2>4. \A y \in Loops : loops'[y] = loops[y] \/ loops'[y] = new
        BY <2>2 DEF ImageInv, ImageTypeOK
    <2>5. LoopsKnown
        BY <1>3, <2>2, <2>3, <2>4 DEF LoopsKnown
    <2> QED BY <1>4, <2>5 DEF Goes
<1>6. CASE ~(Waiting(mem[m], t) /\ t \notin keys)
    <2>1. UNCHANGED loops
        BY <1>1, <1>2, <1>6 DEF RunQueue
    <2> QED BY <1>4, <2>1, SameKnown DEF Goes
<1> QED BY <1>5, <1>6

LEMMA AnsweredKind ==
    ASSUME ImageInv, NEW a, Answered(a)
    PROVE  Goes
<1>1. a \in asks /\ UNCHANGED <<mount, load, used>>
    BY AnsweredSteps
<1>2. a.m \in Mounts /\ a.m <= mount /\ a.op \in {"stop", "continue"}
    BY <1>1, AskFacts
<1>3. CASE /\ mem[a.m][a.c] # NoConv /\ UNCHANGED <<open, keys, loops>>
           /\ Put(a.m, a.c, AnsweredConv(a, mem[a.m][a.c], AnsweredTurn(a, mem[a.m][a.c].turns[a.t])))
    <2>1. Puts(a.m, IF a.op = "continue" THEN {a.k} ELSE {})
        BY <1>1, <1>3, AnsweredPuts
    <2>2. CASE a.op = "continue"
        BY <1>1, <1>3, <2>1, <2>2, SameKnown DEF Goes
    <2>3. CASE a.op # "continue"
        BY <1>1, <1>2, <1>3, <2>1, <2>3, SameKnown DEF Goes
    <2> QED BY <2>2, <2>3
<1>4. CASE UNCHANGED <<store, mem, clock, calls, open, keys, loops>>
    BY <1>1, <1>4, SameKnown DEF Goes
<1>5. CASE /\ UNCHANGED <<store, mem, clock, calls>>
           /\ loops' = [l \in Loops |-> IF l \in LoopsOf(a.m) THEN NoLoop ELSE loops[l]]
    <2>1. LoopsKnown
        BY <1>5 DEF LoopsKnown
    <2> QED BY <1>1, <1>5, <2>1 DEF Goes
<1> QED BY <1>3, <1>4, <1>5, AnsweredSteps

LEMMA NextKind ==
    ASSUME ImageInv, [NextImage]_imageVars
    PROVE  StepKind
<1>1. CASE UserStep
    BY <1>1, UserKind
<1>2. CASE RunQueue
    BY <1>2, RunQueueKind DEF StepKind
<1>3. ASSUME NEW a \in asks, Answered(a) PROVE StepKind
    BY <1>3, AnsweredKind DEF StepKind
<1>4. ASSUME NEW m \in Mounts, Loaded(m) PROVE StepKind
    BY <1>4 DEF StepKind, Shows
<1>5. ASSUME NEW l \in Loops, LoopStep(l) PROVE StepKind
    BY <1>5, LoopKind DEF StepKind
<1>6. CASE ServiceStep \/ UNCHANGED imageVars
    <2>1. UNCHANGED <<mount, load, loops, used, store, mem>>
        BY <1>6 DEF ServiceStep, TaskEnds, TaskLost, ServiceRest, imageVars
    <2> QED BY <2>1, SameKnown DEF StepKind, Goes
<1> QED BY <1>1, <1>2, <1>3, <1>4, <1>5, <1>6 DEF NextImage, PageStep

(***************************************************************************)
(* What the steps do to the store and the memories.                        *)
(***************************************************************************)
LEMMA PutsDo ==
    ASSUME ImageInv, NEW m \in Mounts, NEW free, Puts(m, free)
    PROVE  \E c \in Convs : \E next :
             /\ store' = [store EXCEPT ![c] = Latest(store[c], next)]
             /\ mem' = [mem EXCEPT ![m] = [mem[m] EXCEPT ![c] = next]]
             /\ next # NoConv /\ Known(m, c)
             /\ mem[m][c] # NoConv => Follows(mem[m][c], next, free)
<1>0. PICK c \in Convs : \E next : /\ Put(m, c, next) /\ ConvOK(c, next, used', next.at) /\ used \subseteq used'
                                   /\ Known(m, c)
                                   /\ mem[m][c] # NoConv => Follows(mem[m][c], next, free)
    BY DEF Puts
<1>1. PICK next : /\ Put(m, c, next) /\ ConvOK(c, next, used', next.at) /\ used \subseteq used'
                  /\ Known(m, c)
                  /\ mem[m][c] # NoConv => Follows(mem[m][c], next, free)
    BY <1>0
<1>2. ImageTypeOK /\ Held
    BY DEF ImageInv
<1>3. /\ store' = [store EXCEPT ![c] = Latest(store[c], next)]
      /\ mem' = [mem EXCEPT ![m] = [mem[m] EXCEPT ![c] = next]]
    BY <1>1, <1>2, PutOK
<1>4. next # NoConv
    BY <1>1, NothingAssumption DEF ConvOK
<1> QED BY <1>1, <1>3, <1>4

LEMMA RemoveDoes ==
    ASSUME ImageInv, NEW c \in Convs, Remove(c)
    PROVE  /\ store' = [store EXCEPT ![c] = NoConv]
           /\ mem' = [mem EXCEPT ![mount] = [mem[mount] EXCEPT ![c] = NoConv]]
BY DEF Remove, SetMemory, M0

LEMMA RenameDoes ==
    ASSUME ImageInv, NEW c \in Convs, Rename(c)
    PROVE  /\ store' = IF store[c] = NoConv THEN store ELSE [store EXCEPT ![c].at = Now]
           /\ mem' = [mem EXCEPT ![mount] = [mem[mount] EXCEPT ![c].at = Now]]
           /\ mem[mount][c] # NoConv /\ UNCHANGED <<mount, load, loops, used>>
BY DEF Rename, SetMemory, M0

LEMMA ClearDoes ==
    ASSUME ImageInv, ClearHistory
    PROVE  /\ store' = Nothing /\ mem' = [mem EXCEPT ![mount] = Nothing]
           /\ UNCHANGED <<mount, load, loops, used>>
BY DEF ClearHistory, SetMemory

\* What a page reads is what is then stored.
LEMMA ReadIsStored ==
    ASSUME ImageInv, NEW items, items = MapTurns(store, Recovered), Save(items), Stamps(items)
    PROVE  /\ store' = items /\ items \in Memory
           /\ \A c \in Convs : store[c] = NoConv => items[c] = NoConv
<1>1. MemOK(items, used, clock') /\ \A c \in Convs : store[c] = NoConv => items[c] = NoConv
    BY RecoveredItemsOK
<1>2. items \in Memory
    BY <1>1 DEF MemOK
<1>3. ASSUME NEW c \in Convs
      PROVE  store'[c] = items[c]
    <2>1. store'[c] = IF items[c] = NoConv THEN store[c] ELSE Latest(store[c], items[c])
        BY DEF Save
    <2>2. store[c] # NoConv => items[c] # NoConv /\ store[c].at <= items[c].at
        BY RecoveredItemsOK
    <2>3. store[c] # NoConv => store[c].at \in Nat /\ items[c].at \in Nat
        BY <1>2, <2>2 DEF ImageInv, ImageTypeOK, Memory, Conv
    <2>4. CASE store[c] = NoConv
        BY <1>1, <2>1, <2>4 DEF Latest
    <2>5. CASE store[c] # NoConv
        <3>1. items[c].at >= store[c].at
            BY <2>2, <2>3, <2>5
        <3> QED BY <2>1, <2>2, <2>5, <3>1 DEF Latest
    <2> QED BY <2>4, <2>5
<1>4. store' = [c \in Convs |-> store'[c]]
    BY DEF Save
<1> QED BY <1>1, <1>2, <1>3, <1>4 DEF Memory

LEMMA ReturnDoes ==
    ASSUME ImageInv, Return
    PROVE  /\ mount' = mount + 1 /\ mount \in Nat /\ mount + 1 \in Mounts /\ mem[mount + 1] = Nothing
           /\ UNCHANGED <<loops, used>>
           /\ \E items \in Memory :
                /\ store' = items /\ \A c \in Convs : store[c] = NoConv => items[c] = NoConv
                /\ mem' = mem \/ mem' = [mem EXCEPT ![mount + 1] = items]
                /\ load' = [load EXCEPT ![mount + 1] = NoLoad] \/ load' = [load EXCEPT ![mount + 1] = items]
<1>1. mount' = mount + 1 /\ mount < MaxMounts /\ StartLoad(mount + 1) /\ UNCHANGED <<loops, used>>
    BY DEF Return
<1>2. mount \in Nat /\ mount + 1 \in Mounts
    BY <1>1, NextMount
<1>3. mem[mount + 1] = Nothing
    BY <1>2 DEF ImageInv, MountsBegun
<1>4. PICK items : items = MapTurns(store, Recovered)
    OBVIOUS
<1>5. /\ Save(items) /\ Stamps(items)
      /\ mem' = mem \/ mem' = [mem EXCEPT ![mount + 1] = items]
      /\ load' = [load EXCEPT ![mount + 1] = NoLoad] \/ load' = [load EXCEPT ![mount + 1] = items]
    BY <1>1, <1>4 DEF StartLoad
<1>6. /\ store' = items /\ items \in Memory
      /\ \A c \in Convs : store[c] = NoConv => items[c] = NoConv
    BY <1>4, <1>5, ReadIsStored
<1> QED BY <1>1, <1>2, <1>3, <1>5, <1>6

LEMMA ReloadDoes ==
    ASSUME ImageInv, Reload
    PROVE  /\ mount' = mount + 1 /\ mount \in Nat /\ mount + 1 \in Mounts /\ mem[mount + 1] = Nothing
           /\ used' = used /\ loops' = [l \in Loops |-> NoLoop]
           /\ \E items \in Memory :
                /\ store' = items /\ \A c \in Convs : store[c] = NoConv => items[c] = NoConv
                /\ \A m \in Mounts : /\ mem'[m] = Nothing \/ (m = mount + 1 /\ mem'[m] = items)
                                     /\ load'[m] = NoLoad \/ load'[m] = items
<1>1. mount' = mount + 1 /\ mount < MaxMounts /\ used' = used /\ loops' = [l \in Loops |-> NoLoop]
    BY DEF Reload
<1>2. mount \in Nat /\ mount + 1 \in Mounts
    BY <1>1, NextMount
<1>3. mem[mount + 1] = Nothing
    BY <1>2 DEF ImageInv, MountsBegun
<1>4. PICK items : items = MapTurns(store, Recovered)
    OBVIOUS
<1>5. /\ Save(items) /\ Stamps(items)
      /\ \A m \in Mounts : /\ mem'[m] = Nothing \/ (m = mount + 1 /\ mem'[m] = items)
                           /\ load'[m] = NoLoad \/ load'[m] = items
    BY <1>4 DEF Reload
<1>6. /\ store' = items /\ items \in Memory
      /\ \A c \in Convs : store[c] = NoConv => items[c] = NoConv
    BY <1>4, <1>5, ReadIsStored
<1> QED BY <1>1, <1>2, <1>3, <1>5, <1>6

\* A load that has nothing to ask for leaves the page with what is stored.
LEMMA PageShowDoes ==
    ASSUME ImageInv, PageShow
    PROVE  /\ load[mount] = NoLoad /\ mount \in Mounts /\ UNCHANGED <<mount, loops, used>>
           /\ \E items \in Memory :
                /\ store' = items /\ \A c \in Convs : store[c] = NoConv => items[c] = NoConv
                /\ \/ mem' = mem /\ load' = [load EXCEPT ![mount] = items]
                   \/ mem' = [mem EXCEPT ![mount] = items] /\ load' = [load EXCEPT ![mount] = NoLoad]
<1>1. load[mount] = NoLoad /\ StartLoad(mount) /\ UNCHANGED <<mount, loops, used>>
    BY DEF PageShow
<1>2. PICK items : items = MapTurns(store, Recovered)
    OBVIOUS
<1>3. /\ Save(items) /\ Stamps(items)
      /\ \/ mem' = mem /\ load' = [load EXCEPT ![mount] = items]
         \/ mem' = [mem EXCEPT ![mount] = items] /\ load' = [load EXCEPT ![mount] = NoLoad]
    BY <1>1, <1>2 DEF StartLoad
<1>4. /\ store' = items /\ items \in Memory
      /\ \A c \in Convs : store[c] = NoConv => items[c] = NoConv
    BY <1>2, <1>3, ReadIsStored
<1> QED BY <1>1, <1>3, <1>4, ShownMount

LEMMA LoadedDoes ==
    ASSUME ImageInv, NEW m \in Mounts, Loaded(m)
    PROVE  /\ load[m] # NoLoad /\ load' = [load EXCEPT ![m] = NoLoad] /\ UNCHANGED <<mount, loops, used>>
           /\ \E items :
                /\ \A c \in Convs : load[m][c] = NoConv => items[c] = NoConv
                /\ Save(items) \/ store' = store
                /\ mem' = mem \/ mem' = [mem EXCEPT ![m] = items]
<1>1. load[m] # NoLoad /\ load' = [load EXCEPT ![m] = NoLoad] /\ UNCHANGED <<mount, loops, used>>
    BY DEF Loaded
<1>2. PICK items : /\ \A c \in Convs : load[m][c] = NoConv => items[c] = NoConv
                   /\ Save(items) \/ store' = store
                   /\ IF Shown(m) THEN SetMemory(m, items) ELSE UNCHANGED <<mem, calls>>
    BY DEF Loaded, MapTurns
<1>3. mem' = mem \/ mem' = [mem EXCEPT ![m] = items]
    BY <1>2 DEF SetMemory
<1> QED BY <1>1, <1>2, <1>3

(***************************************************************************)
(* Every change is stored.                                                 *)
(***************************************************************************)
LEMMA PutStored ==
    ASSUME ImageInv, NEW m \in Mounts, m <= mount, mount' = 1, UNCHANGED mount, Agree,
           NEW free, Puts(m, free)
    PROVE  Agree'
<1>1. m = 1
    BY DEF Mounts
<1>20. PICK c \in Convs : \E next : /\ store' = [store EXCEPT ![c] = Latest(store[c], next)]
                                    /\ mem' = [mem EXCEPT ![1] = [mem[1] EXCEPT ![c] = next]]
                                    /\ next # NoConv
                                    /\ mem[1][c] # NoConv => Follows(mem[1][c], next, free)
    BY <1>1, PutsDo
<1>2. PICK next : /\ store' = [store EXCEPT ![c] = Latest(store[c], next)]
                  /\ mem' = [mem EXCEPT ![1] = [mem[1] EXCEPT ![c] = next]]
                  /\ next # NoConv
                  /\ mem[1][c] # NoConv => Follows(mem[1][c], next, free)
    BY <1>20
<1>3. mem'[1] = [mem[1] EXCEPT ![c] = next]
    BY <1>1, <1>2 DEF ImageInv, ImageTypeOK
<1>4. Latest(store[c], next) = next
    <2>1. CASE store[c] = NoConv
        BY <2>1 DEF Latest
    <2>2. CASE store[c] # NoConv
        <3>1. store[c].at <= next.at
            BY <1>2, <2>2 DEF Agree, Follows
        <3>2. store[c].at \in Nat
            BY <2>2 DEF ImageInv, ImageTypeOK, Memory, Conv
        <3>3. mem' \in [Mounts -> Memory] /\ 1 \in Mounts
            BY <1>1, PutsStay DEF MemoryStays
        <3>4. mem'[1][c] = next
            BY <1>1, <1>3 DEF ImageInv, ImageTypeOK, Memory
        <3>5. next.at \in Nat
            BY <1>2, <3>3, <3>4 DEF Memory, Conv
        <3>6. next.at >= store[c].at
            BY <3>1, <3>2, <3>5
        <3> QED BY <1>2, <3>6 DEF Latest
    <2> QED BY <2>1, <2>2
<1> QED BY <1>2, <1>3, <1>4 DEF Agree

LEMMA ChangeStored ==
    ASSUME ImageInv, StepKind, Agree, mount' = 1, load' = load
    PROVE  Agree'
<1>1. 1 \in Mounts /\ mount \in Mounts /\ mem \in [Mounts -> Memory] /\ load \in [Mounts -> Memory \cup {NoLoad}]
    BY BoundsAssumption DEF ImageInv, ImageTypeOK, Mounts
<1>2. CASE Goes
    <2>1. mount = 1
        BY <1>2 DEF Goes
    <2>2. CASE UNCHANGED <<store, mem>>
        BY <2>2 DEF Agree
    <2>3. CASE \E m \in Mounts : m <= mount /\ Puts(m, {})
        BY <2>1, <2>3, PutStored
    <2>4. CASE \E a \in asks : a.op = "continue" /\ Puts(a.m, {a.k})
        BY <2>1, <2>4, AskFacts, PutStored
    <2>5. ASSUME NEW c \in Convs, Remove(c) PROVE Agree'
        BY <1>1, <2>1, <2>5, RemoveDoes DEF Agree
    <2> QED BY <1>2, <2>2, <2>3, <2>4, <2>5 DEF Goes
<1>3. ASSUME NEW c \in Convs, Rename(c) PROVE Agree'
    BY <1>1, <1>3, RenameDoes DEF Agree
<1>4. CASE ClearHistory
    BY <1>1, <1>4, ClearDoes DEF Agree
<1>5. CASE Shows
    <2>1. ~Return /\ ~Reload
        BY <1>1, ReturnDoes, ReloadDoes DEF Mounts
    <2>2. ASSUME NEW m \in Mounts, Loaded(m) PROVE FALSE
        BY <1>1, <2>2, LoadedDoes
    <2>3. CASE PageShow
        <3>1. mount = 1 /\ load[mount] = NoLoad
            BY <2>3, PageShowDoes
        <3>2. PICK items \in Memory :
                /\ store' = items
                /\ \/ mem' = mem /\ load' = [load EXCEPT ![mount] = items]
                   \/ mem' = [mem EXCEPT ![mount] = items] /\ load' = [load EXCEPT ![mount] = NoLoad]
            BY <2>3, PageShowDoes
        <3>3. items # NoLoad
            BY NothingAssumption
        <3>4. load' # [load EXCEPT ![mount] = items]
            BY <1>1, <3>1, <3>3
        <3> QED BY <1>1, <3>1, <3>2, <3>4 DEF Agree
    <2> QED BY <1>5, <2>1, <2>2, <2>3 DEF Shows
<1> QED BY <1>2, <1>3, <1>4, <1>5 DEF StepKind

(***************************************************************************)
(* Stopped images stay stopped.                                            *)
(***************************************************************************)
\* The image is stopped, and in the next state it is there and is not.
Restarts(m, c, t, k) ==
    /\ Has(mem[m], c, t) /\ Has(mem'[m], c, t)
    /\ mem[m][c].turns[t].images[k] = "stopped"
    /\ mem'[m][c].turns[t].images[k] \notin {"stopped", "none", "deleted"}

LEMMA PutStops ==
    ASSUME ImageInv, NEW x \in Mounts, NEW free, Puts(x, free),
           NEW m \in Mounts, NEW c \in Convs, NEW t \in Turns, NEW k \in Tasks, Restarts(m, c, t, k)
    PROVE  k \in free
<1>0. PICK y \in Convs : \E next : /\ mem' = [mem EXCEPT ![x] = [mem[x] EXCEPT ![y] = next]]
                                   /\ mem[x][y] # NoConv => Follows(mem[x][y], next, free)
    BY PutsDo
<1>1. PICK next : /\ mem' = [mem EXCEPT ![x] = [mem[x] EXCEPT ![y] = next]]
                  /\ mem[x][y] # NoConv => Follows(mem[x][y], next, free)
    BY <1>0
<1>2. mem \in [Mounts -> Memory]
    BY DEF ImageInv, ImageTypeOK
<1>3. mem[m] \in Memory /\ mem[x] \in Memory
    BY <1>2
<1>4. CASE m = x /\ c = y
    <2>1. mem'[m][c] = next
        BY <1>1, <1>2, <1>3, <1>4 DEF Memory
    <2>2. Follows(mem[m][c], next, free)
        BY <1>1, <1>4 DEF Restarts, Has
    <2> QED BY <2>1, <2>2 DEF Follows, Restarts, Has
<1>5. CASE ~(m = x /\ c = y)
    <2>1. mem'[m][c] = mem[m][c]
        BY <1>1, <1>2, <1>3, <1>5 DEF Memory
    <2> QED BY <2>1 DEF Restarts
<1> QED BY <1>4, <1>5

LEMMA StopsStay ==
    ASSUME ImageInv, StepKind, NEW m \in Mounts, NEW c \in Convs, NEW t \in Turns, NEW k \in Tasks,
           Restarts(m, c, t, k)
    PROVE  PageShow \/ load' # load \/ \E a \in asks : a.op = "continue" /\ a.k = k
<1>1. mount \in Mounts /\ mem \in [Mounts -> Memory] /\ load \in [Mounts -> Memory \cup {NoLoad}]
      /\ mem[m] \in Memory /\ mem[mount] \in Memory
    BY DEF ImageInv, ImageTypeOK
<1>2. CASE Goes
    <2>1. ~UNCHANGED <<store, mem>>
        BY DEF Restarts
    <2>2. ASSUME NEW x \in Mounts, Puts(x, {}) PROVE FALSE
        BY <2>2, PutStops
    <2>3. ASSUME NEW a \in asks, Puts(a.m, {a.k}) PROVE a.k = k
        BY <2>3, AskFacts, PutStops
    <2>4. ASSUME NEW x \in Convs, Remove(x) PROVE FALSE
        <3>1. mem' = [mem EXCEPT ![mount] = [mem[mount] EXCEPT ![x] = NoConv]]
            BY <2>4, RemoveDoes
        <3>2. mem'[m][c] = mem[m][c] \/ mem'[m][c] = NoConv
            BY <1>1, <3>1 DEF Memory
        <3> QED BY <3>2 DEF Restarts, Has
    <2> QED BY <1>2, <2>1, <2>2, <2>3, <2>4 DEF Goes
<1>3. ASSUME NEW x \in Convs, Rename(x) PROVE FALSE
    <2>1. PICK at : at = Now
        OBVIOUS
    <2>2. mem' = [mem EXCEPT ![mount] = [mem[mount] EXCEPT ![x].at = at]] /\ mem[mount][x] # NoConv
        BY <1>3, <2>1, RenameDoes
    <2>3. mem[mount][x] \in Conv
        BY <1>1, <2>2 DEF Memory
    <2>4. mem'[m][c].turns = mem[m][c].turns
        BY <1>1, <2>2, <2>3 DEF Memory, Conv
    <2> QED BY <2>4 DEF Restarts
<1>4. CASE ClearHistory
    <2>1. mem' = [mem EXCEPT ![mount] = Nothing]
        BY <1>4, ClearDoes
    <2>2. mem'[m] = mem[m] \/ mem'[m] = Nothing
        BY <1>1, <2>1
    <2> QED BY <2>2 DEF Restarts, Has, Nothing
<1>5. CASE Shows
    <2>1. CASE Return
        <3>1. PICK items : mem' = mem \/ mem' = [mem EXCEPT ![mount + 1] = items]
            BY <2>1, ReturnDoes
        <3>2. mem[mount + 1] = Nothing
            BY <2>1, ReturnDoes
        <3>3. mem'[m] = mem[m] \/ mem[m] = Nothing
            BY <1>1, <3>1, <3>2
        <3> QED BY <3>3 DEF Restarts, Has, Nothing
    <2>2. CASE Reload
        <3>1. mem'[m] = Nothing \/ m = mount + 1
            BY <2>2, ReloadDoes
        <3>2. mem[mount + 1] = Nothing
            BY <2>2, ReloadDoes
        <3> QED BY <3>1, <3>2 DEF Restarts, Has, Nothing
    <2>3. CASE PageShow
        BY <2>3
    <2>4. ASSUME NEW x \in Mounts, Loaded(x) PROVE load' # load
        BY <1>1, <2>4, LoadedDoes
    <2> QED BY <1>5, <2>1, <2>2, <2>3, <2>4 DEF Shows
<1> QED BY <1>2, <1>3, <1>4, <1>5 DEF StepKind

(***************************************************************************)
(* What is gone stays gone.                                                *)
(***************************************************************************)
LEMMA GoneIs ==
    ASSUME NEW c \in Convs, Gone(c)
    PROVE  /\ c \in used /\ store[c] = NoConv
           /\ \A m \in Mounts : mem[m][c] = NoConv /\ (load[m] = NoLoad \/ load[m][c] = NoConv)
           /\ \A l \in Loops : loops[l] # NoLoop => loops[l].c # c
           /\ LoopsKnown => \A l \in Loops : loops'[l] # NoLoop => loops'[l].c # c
BY DEF Gone, LoopsKnown

LEMMA PutGone ==
    ASSUME ImageInv, NEW c \in Convs, Gone(c), NEW x \in Mounts, NEW free, Puts(x, free)
    PROVE  store'[c] = NoConv /\ \A m \in Mounts : mem'[m][c] = NoConv
<1>0. PICK y \in Convs : \E next : /\ store' = [store EXCEPT ![y] = Latest(store[y], next)]
                                   /\ mem' = [mem EXCEPT ![x] = [mem[x] EXCEPT ![y] = next]]
                                   /\ Known(x, y)
    BY PutsDo
<1>1. PICK next, new : /\ store' = [store EXCEPT ![y] = new]
                       /\ mem' = [mem EXCEPT ![x] = [mem[x] EXCEPT ![y] = next]]
                       /\ Known(x, y)
    BY <1>0
<1>2. y # c
    BY <1>1, GoneIs DEF Known
<1>3. store \in Memory /\ mem \in [Mounts -> Memory] /\ \A m \in Mounts : mem[m] \in Memory
    BY DEF ImageInv, ImageTypeOK
<1>4. store'[c] = store[c]
    BY <1>1, <1>2, <1>3 DEF Memory
<1>5. \A m \in Mounts : mem'[m][c] = mem[m][c]
    BY <1>1, <1>2, <1>3 DEF Memory
<1> QED BY <1>4, <1>5, GoneIs

LEMMA GoneStays ==
    ASSUME ImageInv, StepKind, NEW c \in Convs, Gone(c)
    PROVE  Gone(c)'
<1>1. /\ c \in used /\ store[c] = NoConv
      /\ \A m \in Mounts : mem[m][c] = NoConv /\ (load[m] = NoLoad \/ load[m][c] = NoConv)
      /\ \A l \in Loops : loops[l] # NoLoop => loops[l].c # c
    BY GoneIs
<1>2. /\ store \in Memory /\ mem \in [Mounts -> Memory] /\ \A m \in Mounts : mem[m] \in Memory
      /\ mount \in Mounts /\ load \in [Mounts -> Memory \cup {NoLoad}]
    BY DEF ImageInv, ImageTypeOK
<1>3. ASSUME /\ c \in used' /\ store'[c] = NoConv
             /\ \A m \in Mounts : mem'[m][c] = NoConv /\ (load'[m] = NoLoad \/ load'[m][c] = NoConv)
             /\ \A l \in Loops : loops'[l] # NoLoop => loops'[l].c # c
      PROVE  Gone(c)'
    BY <1>3 DEF Gone
<1>4. CASE Goes
    <2>1. /\ c \in used' /\ load' = load
          /\ \A l \in Loops : loops'[l] # NoLoop => loops'[l].c # c
        BY <1>1, <1>4, GoneIs DEF Goes
    <2>2. store'[c] = NoConv /\ \A m \in Mounts : mem'[m][c] = NoConv
        <3>1. CASE UNCHANGED <<store, mem>>
            BY <1>1, <3>1
        <3>2. ASSUME NEW x \in Mounts, NEW free, Puts(x, free)
              PROVE  store'[c] = NoConv /\ \A m \in Mounts : mem'[m][c] = NoConv
            BY <3>2, PutGone
        <3>3. ASSUME NEW a \in asks, Puts(a.m, {a.k})
              PROVE  store'[c] = NoConv /\ \A m \in Mounts : mem'[m][c] = NoConv
            BY <3>2, <3>3, AskFacts
        <3>4. ASSUME NEW x \in Convs, Remove(x)
              PROVE  store'[c] = NoConv /\ \A m \in Mounts : mem'[m][c] = NoConv
            <4>1. /\ store' = [store EXCEPT ![x] = NoConv]
                  /\ mem' = [mem EXCEPT ![mount] = [mem[mount] EXCEPT ![x] = NoConv]]
                BY <3>4, RemoveDoes
            <4> QED BY <1>1, <1>2, <4>1 DEF Memory
        <3> QED BY <1>4, <3>1, <3>2, <3>3, <3>4 DEF Goes
    <2> QED BY <1>1, <1>3, <2>1, <2>2
<1>5. ASSUME NEW x \in Convs, Rename(x) PROVE Gone(c)'
    <2>1. PICK conv, new : /\ store' = store \/ store' = [store EXCEPT ![x] = conv]
                           /\ mem' = [mem EXCEPT ![mount] = [mem[mount] EXCEPT ![x] = new]]
                           /\ mem[mount][x] # NoConv /\ UNCHANGED <<mount, load, loops, used>>
        BY <1>5, RenameDoes
    <2>2. x # c
        BY <1>1, <1>2, <2>1
    <2>3. store'[c] = NoConv /\ \A m \in Mounts : mem'[m][c] = NoConv
        BY <1>1, <1>2, <2>1, <2>2 DEF Memory
    <2> QED BY <1>1, <1>3, <2>1, <2>3
<1>6. CASE ClearHistory
    <2>1. store'[c] = NoConv /\ \A m \in Mounts : mem'[m][c] = NoConv
        BY <1>1, <1>2, <1>6, ClearDoes DEF Nothing
    <2> QED BY <1>1, <1>3, <1>6, <2>1, ClearDoes
<1>7. CASE Shows
    <2>1. CASE Return
        <3>1. PICK items : /\ store' = items /\ items[c] = NoConv
                           /\ mem' = mem \/ mem' = [mem EXCEPT ![mount + 1] = items]
                           /\ load' = [load EXCEPT ![mount + 1] = NoLoad]
                              \/ load' = [load EXCEPT ![mount + 1] = items]
            BY <1>1, <2>1, ReturnDoes
        <3>2. \A m \in Mounts : mem'[m][c] = NoConv /\ (load'[m] = NoLoad \/ load'[m][c] = NoConv)
            BY <1>1, <1>2, <3>1
        <3> QED BY <1>1, <1>3, <2>1, <3>1, <3>2, ReturnDoes
    <2>2. CASE Reload
        <3>1. PICK items : /\ store' = items /\ items[c] = NoConv
                           /\ \A m \in Mounts : /\ mem'[m] = Nothing \/ mem'[m] = items
                                                /\ load'[m] = NoLoad \/ load'[m] = items
            BY <1>1, <2>2, ReloadDoes
        <3>2. Nothing[c] = NoConv
            BY DEF Nothing
        <3>3. used' = used /\ \A l \in Loops : loops'[l] = NoLoop
            BY <2>2, ReloadDoes
        <3> QED BY <1>1, <1>3, <3>1, <3>2, <3>3
    <2>3. CASE PageShow
        <3>1. PICK items : /\ store' = items /\ items[c] = NoConv
                           /\ mem' = mem \/ mem' = [mem EXCEPT ![mount] = items]
                           /\ load' = [load EXCEPT ![mount] = NoLoad] \/ load' = [load EXCEPT ![mount] = items]
            BY <1>1, <2>3, PageShowDoes
        <3>2. \A m \in Mounts : mem'[m][c] = NoConv /\ (load'[m] = NoLoad \/ load'[m][c] = NoConv)
            BY <1>1, <1>2, <3>1
        <3> QED BY <1>1, <1>3, <2>3, <3>1, <3>2, PageShowDoes
    <2>4. ASSUME NEW x \in Mounts, Loaded(x) PROVE Gone(c)'
        <3>1. /\ load[x] # NoLoad /\ load' = [load EXCEPT ![x] = NoLoad] /\ UNCHANGED <<loops, used>>
            BY <2>4, LoadedDoes
        <3>2. PICK items : /\ items[c] = NoConv
                           /\ Save(items) \/ store' = store
                           /\ mem' = mem \/ mem' = [mem EXCEPT ![x] = items]
            BY <1>1, <2>4, <3>1, LoadedDoes
        <3>3. store'[c] = NoConv
            BY <1>1, <3>2 DEF Save
        <3>4. \A m \in Mounts : mem'[m][c] = NoConv /\ (load'[m] = NoLoad \/ load'[m][c] = NoConv)
            BY <1>1, <1>2, <3>1, <3>2
        <3> QED BY <1>1, <1>3, <3>1, <3>3, <3>4
    <2> QED BY <1>7, <2>1, <2>2, <2>3, <2>4 DEF Shows
<1> QED BY <1>4, <1>5, <1>6, <1>7 DEF StepKind

\* While the first page is shown, what it has in memory is what the browser
\* has stored, as long as no load makes them differ: a change put by a
\* handler or a loop is never taken for the older of two.
THEOREM ChangesAreStored == SpecImage => EveryChangeIsStored
<1>1. ASSUME ImageInv, [NextImage]_imageVars
      PROVE  [(Agree /\ mount' = 1 /\ load' = load) => Agree']_imageVars
    BY <1>1, NextKind, ChangeStored
<1> QED BY <1>1, ImageInvariant, PTL DEF SpecImage, EveryChangeIsStored

\* No answer that arrives late makes a stopped image anything else.
THEOREM StopsAreKept == SpecImage => StoppedStaysStopped
<1>1. ASSUME ImageInv, [NextImage]_imageVars
      PROVE  [\A m \in Mounts, c \in Convs, t \in Turns, k \in Tasks :
                (/\ Has(mem[m], c, t) /\ Has(mem'[m], c, t)
                 /\ mem[m][c].turns[t].images[k] = "stopped"
                 /\ mem'[m][c].turns[t].images[k] \notin {"stopped", "none", "deleted"})
                => PageShow \/ load' # load \/ \E a \in asks : a.op = "continue" /\ a.k = k]_imageVars
    BY <1>1, NextKind, StopsStay DEF Restarts
<1> QED BY <1>1, ImageInvariant, PTL DEF SpecImage, StoppedStaysStopped

\* A conversation of which nothing is left is never made again.
THEOREM DeletionIsFinal == SpecImage => DeletedIsFinal
<1>1. ASSUME ImageInv, [NextImage]_imageVars
      PROVE  [\A c \in Convs : Gone(c) => Gone(c)']_imageVars
    BY <1>1, NextKind, GoneStays
<1> QED BY <1>1, ImageInvariant, PTL DEF SpecImage, DeletedIsFinal
=============================================================================
