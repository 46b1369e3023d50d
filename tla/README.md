# ChatGPT2API: a verification project

ChatGPT2API is a Python service (FastAPI, threads and locks, JSON files) that turns a
pool of ChatGPT accounts into an OpenAI-like API, with a web frontend in TypeScript (Next.js,
React, stores of its own) that makes images with it and administers it. This directory holds
TLA+ models of the concurrent parts of the service and of the pages of the frontend, the TLC runs that check them on small instances, and
TLAPS proofs that some of the results hold for every size of the instance.

Paths below are relative to `src/`. To run: `tlc -workers 2 -config X.cfg M` with the
module and the `.cfg` that `PROJECT.json` lists, `tlapm M.tla` for the modules named
`...Proofs`.

## 1. The system

`main.py` builds the application in `api/app.py`, whose start creates the account watcher
(`api/support.py`), the image clean-up and the backup scheduler. The routes of `api/` call the
services; each service is one object with a lock, shared by the threads of the requests
and by its own background threads.

| Part | State | Operations | What is hard | What makes it correct |
|---|---|---|---|---|
| Account pool, `services/account_service.py` | accounts by token, forwarding entries old token -> new token, slots in use per account | take and give back a slot, refresh a token (the account changes its key), check, remove, import, delete, edit, log in again | threads keep a token across network calls of minutes; a verdict and its execution are separate sections | slots are neither leaked nor freed twice; the limit per account holds; a thread always finds its account; every generation ends |
| Image worker, `services/protocol/conversation.py` | token, slot held, tokens tried | attempts, early release, retries, cancel | a dozen ways for an attempt to end | one release per slot |
| Image tasks, `services/image_task_service.py` | tasks, their file, worker threads, cancel events | submit, list, stop, continue after a timeout, recover | two threads and a request write one task; expiry against late results; restart | a task that ended stays as it ended; images are shown iff it succeeded; no task runs for ever |
| Chat cache, `services/protocol/chat_completion_cache.py` with `services/log_service.py` | cached answers, computations in flight, two kinds of locks | look up, join, compute, store, publish, replay | generators whose chunks run on different threads; failures and clients that leave | one computation per answer; only whole answers; waiters are told; bounded |
| API keys, `services/auth_service.py`; storage, `services/storage/` | keys in memory and in a file | load, create, update, delete, authenticate | a failed load read as an empty file; saving a stale list | no key is lost or revived |
| Registration, `services/register_service.py` | generation number, counters, futures | start, stop, reset, update | the old scheduler still runs after a restart | a run counts its own results, all of them, and keeps to its target; one that was replaced leaves the register alone; runs that were stopped end |
| Proxy clearance, `services/proxy_service.py` | one refresh in flight | refresh, wait, invalidate | waiters read a result that has gone stale | one refresh at a time; nobody gets an invalidated result |
| Backup, `services/backup_service.py` | thread, state file, archives | start, stop, run, rotate | an upload that fails after others were rotated | one backup at a time; the newest archives are kept |
| Log file, `services/log_service.py` | one file | add, delete | read-modify-write against append | no line is lost |
| Imports, `services/cpa_service.py`, `services/sub2api_service.py` | job records | start, update, append an error | lost updates of the progress | counts add up |
| OAuth login, `services/oauth_login_service.py` | sessions | start, finish, purge | two requests finish one session | a session is used once |
| Editable files, `services/editable_file_task_service.py` | tasks | submit, run, recover | as the image tasks, without stop and expiry | as the image tasks |
| Upstream client, protocol adapters, content filter, configuration, image files, routes | - | I/O and conversion | - | the environment of the models |
| Image page, `web/src/app/image/page.tsx`, `web/src/store/image-conversations.ts` | conversations in memory and in the browser's store, queue keys, loops | submit, regenerate, retry, stop, continue, rename, delete, load | loops that submit and poll for minutes; answers after a stop, a deletion, or after the page was left; whole conversations written from many places | one loop per turn; memory and store agree; what was stopped or deleted stays so; no turn loads for ever |
| Accounts page, `web/src/app/accounts/` | list, selection, filter, page, flags, the import dialog | refresh, log in again, delete, edit, import in five ways | overlapping handlers that each bring a whole list; jobs polled by intervals that do not wait | the selection is listed; buttons come back; a callback goes with its session |
| Import connections, `web/src/app/settings/components/` and `web/src/app/settings/store.ts` | servers, the dialog that browses one, poll timers | add, edit, delete, browse, select, import | two servers browsed at once; polls that stop | files are imported from where they are; jobs are followed |
| Register page, `web/src/app/register/` | three registers, one form | edit, save, start, stop, reset | answers and a stream of events for the same form | what is not saved is marked |
| Settings forms, `web/src/app/settings/store.ts` and the cards | the form, flags, backups | edit, save, test, back up | saves of several handlers overlap and fail | tests use what was saved; buttons come back; a backup is followed |
| Keys card, image manager, logs, libraries | a list, dialogs, sets of what is under way | load, filter, tag, delete, save | each answer brings a whole list, dialogs go on to other items | rows under way are marked; selections are listed |
| Session, `web/src/store/auth.ts`, `web/src/lib/` | two items in the browser, pages of several tabs | validate, log in, log out, 401 | two items written one after the other | the role is that of the key |

The parts meet in a few places. An image task's worker thread calls the image worker, which
takes a slot from the account pool and reports progress back to the task. The account
watcher, the accounts page and the registration call the checks of the same pool. Chat
requests go through the cache, which is run by the thread pool of the server.

The pages call the service by requests and keep what it answered. The image page submits
tasks and polls them as `TaskLifecycle` promises; the accounts page polls the progress of
the pool's refreshes; the others edit what a service keeps. Two pages meet only in the
service, in the session, and in the settings store, which outlives its pages.

`PROJECT.json` lists every part with its status, and under `hazards` what is hard to test
in them, each at its line, with the properties that would catch it.

## 2. What is modelled

Every action is one critical section of the code's lock, or what a thread does between two of
them; any other thread may run in between. Data is abstracted to what the properties tell
apart; control (guards, early returns, error paths, their order) is kept.

### TokenAliases and AccountPool

`TokenAliases` is the loop of `_resolve_access_token_locked`, stated as a least closed set
instead of by recursion, so that it can be reasoned about in proofs: `Visited` is what the
loop visits, `Resolve` where it stops; where the entries make a circle that is the token the
loop meets again first, as its `seen` guard has it.

`AccountPool` has the three tables of `AccountService` (`accounts`, `aliases`, `inflight`),
the owner of `_token_refresh_lock`, and for each thread its place (`pc`) and its local
variables (`tok`, `held`, `tried`, `attempted`, `call`, `act`, `verdict`). `lineage` is a
history variable: the import a token descends from by refreshes. A worker asks for a token
(`Ask`), takes a slot (`Acquire`), checks the account with the upstream (`BeginRefresh` to
`StoreInfo`, that is `fetch_remote_info` with its two refreshes), gives the slot back if that
failed (`GiveBack`), generates (`ReleaseEarly`, `Finish`), writes the result (`Settle`), and
after a refused token refreshes or removes it (`Returned`, `AuthRemove`). A checker runs one
check or one password login. The operator imports, deletes and edits at any time.

A refresh may bring a new token, the one it was asked with, or any earlier one of the same account: nothing
in `_apply_refreshed_tokens` asks whether a token was seen before, so the forwarding entries may make circles,
and no property says they do not. That the credentials of one account bring no token of another is assumed
(`Applied`): a token names its account.

Abstracted: a token string is a model value; a quota is unmetered, none or a small number; `invalid_count` has three
values, all the code tells apart; the score that orders candidates and the counters that
limit retries are choices (a worker may always be told to try again, or to give up). The retry after a
refused token that a forced refresh replaced has no counter in the code either.
The bound of `get_available_access_token` on its attempts (at least 20) is not reached with a
handful of tokens. An import of a token that is a key merges fields, which `Edit` covers. The
update that `remove_invalid_token` falls back to after an empty deletion changes nothing.
The text chat uses the same refresh and removal; how it chooses an account is left out.
So are persistence, logs, statistics and the progress records of the pages.

### TaskLifecycle and ImageTasks

`TaskLifecycle` is what a client is promised: the moves a task may make between the phases
`list_tasks` shows. `ImageTasks` is the service: the tasks and their file, the steps of a submit
and of the worker thread it starts (`created`, `registered`, `begin`, `check`, `handling`, one
of three deliveries, `finally`), the cancel events, the threads of `resume_poll`, the clock
(`overdue`), and a crash (`Restart`). `UpdateTask` is `_update_task` with its guard for ended
tasks, and every write goes through it, as in the code, but for the expiry, the stop and the
recovery. What the handler does is one step with an outcome, but for the copies that lose in a
redundant generation: they are told to stop and not waited for, and as long as one is at work
(`detached`, ended by `CopiesEnd`) its progress may reach the task, also after the worker ended.

### ChatCache

The entries, the computations in flight, the published results, and where each request is;
the threads of the pool, and who owns `_lock` and the conditions. A response keeps its thread to
the end; a stream gives its thread back with every chunk and gets any free one for the
next (`Dispatch`, `Yields`). A client that leaves makes the event loop close the generator
(`Abandon`, `AbandonReplay`). Locks are owned by threads, as `threading.RLock` is: `LeaveEntry`
and `LeaveCall` say what leaving a `with` on another thread does. `leaked` is a history
variable that records the locks nobody will release.

Abstracted: the text of the answers (`produced` tells nothing, part and whole), all settings
but `stream_cache`, the age of entries (`Expire` removes one at any time), and the order in
which entries are evicted. `clear()` is only called by tests. A stream may have no chunk.

### ImagePage

The page and the module `image-conversations.ts` together. `mem` is `conversationsRef` of each
mount of the page (a promise that outlives its page keeps working on that page's memory), `store`
the browser's store, `keys` `activeConversationQueueIds`, and `loops` the calls of
`runConversationQueue`, each with its place between two awaits (`submit`, `accepted`, `ask`,
`polled`, `done`), its counter of failed polls and its snapshot. `calls` are the calls the effect of
the page or a `finally` makes before anything else happens. A handler that awaits the service is a
request (`AskStop`, `AskContinue`) and its end (`Answered`); the rest happen in one step with their
write to the store, since the store answers before the next request, timer or click is served and
its writes are queued. `Leave`, `Return`, `Reload` and `PageShow` are the lives of a page. The
service is `TaskLifecycle`: tasks run, end, are forgotten or end with a restart, and the moves
are those the service is shown to keep to in `ImageTasks`.

An updater that finds its conversation deleted returns null where a conversation is
promised: the page dies when no other conversation is left (`Answered`), and that is modelled.

### AccountsPage, Connections, RegisterPage, SettingsForms, UserKeys, ManagedLists, Library, WebSession

One module per page, or per pair of pages that are one program twice. In each of them a
handler that awaits is a call in a set (`accountCalls`, `connCalls`, ...): made by an action named for
the handler, served or refused by the service, and answered on the page in any order. React's
state is a variable each, flags are members of a set, and conditions that disable a button are
the guards of the user's actions. Data is as small as the properties allow: a token with
its status, the version of a form, the number of a list's entry. Each module has in its
header what it leaves out.

- `AccountsPage`: `accounts`, `selectedIds`, `page`, `statusFilter`, the flags and the editing dialog;
  jobs of the service polled by intervals that do not wait (`flows`, `jobs`); and the import
  dialog with its methods (`importDialog`).
- `Connections`: `variant` says which of the two components a behaviour is of. They differ in
  where the list is kept, in what an answer writes, and in what stops the polls.
- `RegisterPage`: what the service has of three registers, what the page shows of them, the
  form with `isRegisterDirty`, and per register the event on its way. `setRegisterConfig` keeps
  edits from events unless the register runs.
- `SettingsForms`: one form that every card edits; a handler is a save, its answer and what it
  saved for (`SaveAnswered`, `GoesOn`); the backups with their polls. Only the card of the open tab is
  mounted: `SwitchTab` and `ReopenSettings` forget what a card keeps itself (`LocalOps`) while its handlers go on,
  and a page that is opened again runs `initialize` again, beside the first.
- `UserKeys`, `ManagedLists` (image manager or logs), `Library` (prompts or materials): lists with
  dialogs. The keys' card may be unmounted and mounted again (`RemountKeys`).
- `WebSession`: tabs, the two stored items read and written one after the other, and every
  validation, login, logout and 401 as a job of steps. Between two operations that one call makes
  without waiting only other tabs come in (`Midway`). The Enter key logs in again while a login is under way.

A behaviour of `AccountsPage`, `ManagedLists`, `Library` and `RegisterPage` is of one mounted page: what they keep is local, and
a page that is left and opened again begins anew, while what the one before asked for goes on with nobody to tell.

### RegisterScheduler

`services/register_service.py` behind one register of `RegisterPage`. `enabled`, `task` (mode, target and
threads) and `stats` are `_config`; `generation` is the number of starts; `runs` has the thread of every
start with its place in `_run` and `_run_loop` (`step`), its local counters, and its futures by what became
of them. A stop event belongs to a run, so it is a field of it. Every place where the thread lets
go of the lock and another request may change what it reads next is a step of its own: the look at
`_is_generation_active` and the target (`Dispatch`) and the registration it allows (`Submit`), the report, the look
at an empty set of futures, the wait. `WorkerSucceeds`, `WorkerFails` and `WorkerCancelled` are the ends of `worker`.
`LoopRaises` and `Supervise` are the exception that `_run` survives: the executor waits for what is in flight
and the results are dropped, so the next loop may make more accounts than were asked for; `TargetKept` and
`CountsOwnResults` except such runs (`faulted`) for that reason. `RestartProcess` ends every thread and
starts a register that was on.

### MC modules

`MCAccountPool`, `MCImageTasks` and `MCChatCache` extend the specifications with the symmetry sets
and the sets of quotas the `.cfg` files name. `MCWebImage` extends `ImagePage`. `WebPages` puts together
the eight modules of the other pages and `RegisterScheduler`: its variable `part` picks the one a behaviour is
of, and the others rest in one initial state; `MCWebPages` gives it the sets of an instance. The parts have no variable in common, so nothing is lost by looking at
one at a time; where they do meet, in the session and the settings store, the parties are in
one module (`WebSession`), or use parts of the store that no other module has.

## 3. What the runs check

| Run | Instance | Shows |
|---|---|---|
| `PoolSlots` | 2 workers, 2 tokens, limit 1, a quota of one or none kept, edits to "disabled", automatic removal, fairness | `SlotAccounting`: the in-flight count of an account is the number of workers holding a slot on it. `ConcurrencyRespected`, `GenerationEnds` |
| `PoolChecks` | 1 worker, 1 checker, 3 tokens | `TracksAccount`, `OneKeyPerAccount`, and the invariant of the proofs, with refreshes that bring earlier tokens back |
| `PoolReimport` (violation) | 1 worker, 2 tokens, re-import allowed | an idle pool with a slot taken |
| `PoolStaleVerdict` (violation) | 1 worker, 1 checker, 2 tokens | an account removed right after its repair |
| `TasksSafe` | 2 tasks, 2 pollers, stops once the worker has begun | refinement of `TaskLifecycle`; `ImagesIffSuccess`, `CancelledIsStopped`, `RegisteredIsAlive`; `WorkersImagesAreShown`, `ConversationIsKept` |
| `TasksEnd` | 2 tasks, 1 poller, stops at any time, fairness | `WorkerOwnsTask`, the invariant of the proofs, `EveryTaskEnds` |
| `TasksEarlyStop` (violation) | one stop before the worker's first step | a stopped task runs again |
| `TasksPollDiscarded` (violation) | one continued task | the images it waited for are dropped |
| `CacheMerges` | 3 requests, a response key and a stream key, 2 threads, 1 entry | `OneComputation`, `WholeAnswers`, `WaitersAreTold`, `RegisteredIsRunning`, `WithinBound`, and `ResponsesEnd` with `stream_cache` off |
| `CacheReplay` (violation) | 2 requests for one stream, 2 threads | a replay that ends with an error and keeps the lock |
| `WebImage` | 1 conversation, 2 turns, 2 images, 2 loops, the page shown twice, 3 operations or faults, fairness | `OneLoopPerTurn`, `KeysHaveLoops`, `EveryChangeIsStored`, `StoppedStaysStopped`, `DeletedIsFinal`, `TurnsSettle` |
| `WebPages` | each of the eight pages with 2 or 3 items and 3 to 6 uses, the scheduler with 2 or 3, fairness | `SelectionsAreListed`, `PageFlagsTell`, `AnswersKeepTheirOwner`, `UnsavedIsMarked`, `TestsFollowSaves`, `JobsAreFollowed`, `PagesSettle` |

Why these bounds are enough to be interesting: one slot and two workers make a worker wait,
and a token more than accounts lets a key change while both hold it; three tokens give
chains of two forwarding entries and circles of three, and with a checker two threads refresh one account; two
tasks let one request expire one and forget another; three requests let one own, one join
and one come after; one entry forces eviction between two keys. For the properties that
are proved the bounds do not matter.

In `WebImage` three operations or faults are enough for a submission, a stop and a late poll, a
submission, a deletion and an answer, or two submissions and a page that is left; two turns give two
loops and a key each; the clock stands still after two ticks, so that changes fall in one
millisecond; two failed polls end a loop (ten in the code), so that it gives up within the bound.
In `WebPages` a bound is a set of pairs where a page has two halves that do not touch (the
list and the dialog of the accounts page, uses and faults of the connections, the form
and the backups): each half is given most of the uses in one pair and both some in another;
of the forms it says as well which backups there are at first;
`MostFormUses` is what no pair of the forms exceeds, so that versions of the configuration have a type. Two
servers, three keys and two entries are enough for an answer about one to come while the page
shows the other; two tabs and two keys for one tab to come between the writes of the other.

In the scheduler three requests or faults are enough for a start, a stop and another start, or a start, an exception
and a reset, with one thread; a total that two threads reach at once, and a pool whose accounts count,
are checked with two. Instances of three with two threads and three tasks, four and a half million states, were run
by hand and hold as well.

Deadlock is checked except for the cache, where all requests may have ended, and the pages, whose user may
leave off. In the other models there is always somebody who may act: the operator, the clients or the clock.

Fairness. Pool: the sections of a thread are weakly fair (threads are scheduled, the upstream
answers or the request times out); nobody has to import, edit or cancel. `GenerationEnds` excludes one thing: a worker
that is told for ever to try again (`AsksAgain`), which the code's counters stop after most failures and nothing stops
after a refused token that a refresh replaced. Tasks:
threads run, their handlers and the copies they left end (the handlers have timeouts), time passes, and the page
lists its unfinished tasks every few seconds, which is what drives the expiry. Cache:
threads run and the loop hands out free threads; no client has to leave, no entry has to
expire. Image page: the event loop of an open tab runs what is due and requests are answered, with
a result or an error; tasks end, which is `EveryTaskEnds` of the service. Other pages: requests
are answered and callbacks run, intervals go off, jobs, imports and backups of the service end. Scheduler: its
threads run and a registration that does not fail comes to an end, each of its requests has a timeout.
No user has to do anything, and requests need not succeed.

### What the violations say

The findings of `PROJECT.json` quote the lines. In short: (1) importing a token that a refresh had
replaced makes `_resolve_access_token_locked` stop at the old string, so a release goes to the
wrong account and a slot leaks; (2) the verdict on a refused token is carried out after the lock was
released, and may hit the account a refresh has just repaired; (3) a stop before the worker's
first update is overwritten by it; (4) the list of the page may end a continued task under
its polling thread, whose images are then dropped; (5) a replayed stream keeps the lock
across its chunks and cannot release it on another thread.

A few more observations have no run of their own. A Sub2API import whose poll fails is shown as
running until the list is loaded anew, because the interval is cleared (`JobsAreFollowed` is
stated for the pools, whose interval goes on). And a stop that is answered after its
conversation was deleted ends the image page when no other conversation is left. An exception in
the loop of the register's scheduler drops the results of the registrations in flight, so that the
run makes more accounts than its total (`TargetKept` without its condition on `faulted`). And the image page
that is loaded while a conversation is renamed may be left with an older stamp than the browser's store has: the
store then turns down what the page writes without a stamp of its own, until the next change that has one
(`EveryChangeIsStored` asks for the stored conversations to be those in memory with their stamps for that reason).
A worker whose token is refused goes on for as long as refreshes bring new tokens that are refused (`conversation.py:1491`).
On the settings page a test whose flag its card keeps can be run twice at once, and two requests for one key can be under way, when
the tab is left and opened again between them: `PageFlagsTell` is about the card that is mounted. Two loads of the settings, when the page
is opened again, lower one `isLoadingConfig`, so that the page may show its form while the second is under way. And what a delete
dialog of the image manager or the logs is about, and the tags the list is narrowed to, may be gone from the list by a load answered meanwhile:
`SelectionsAreListed` is about what is selected only.

The constants `Reimport` and `EarlyStop` switch (1) and (3) on. The runs and theorems that need
them off say so, so that the rest of the behaviour can be checked beyond these two.

`ResponsesEnd` is stated for `stream_cache` off because with it on two things stop it: finding
(5), and that requests which wait for a stream keep their threads, so that with as many of them as
threads the stream itself finds none for its next chunk.

## 4. What is proved

| Module | Theorems | Assumption |
|---|---|---|
| `AccountPoolProofs` | `PoolInvariant`, `PoolTypes`, `SlotsAreAccounted`, `ConcurrencyIsRespected`, `AccountsAreTracked`, `KeysAreUnique` | no re-import of a replaced token |
| `ImageTasksProofs` | `TasksInvariant`, `TaskTypes`, `ImagesOnlyOfSuccess`, `WorkersOwnTheirTasks`, `RegisteredAreAlive`, `ImagesAreShown`, `ConversationsAreKept` | none |
| `ImageTasksProofs` | `CancelledAreStopped`, `ServiceKeepsPromise` (the refinement of `TaskLifecycle`) | a stop comes after the worker has begun |
| `ChatCacheProofs` | `CacheInvariant`, `RequestsAreMerged`, `AnswersAreWhole`, `OwnersTell`, `RegisteredRun`, `CacheIsBounded` | none |
| `ImagePageProofs` | `ImageInvariant`, `ImageTypes`, `OneLoopForATurn`, `KeysAreOfLoops`, `ChangesAreStored`, `StopsAreKept`, `DeletionIsFinal` | none |
| `RegisterProofs` | `RegisterInvariant`, `RegisterTypes`, `UnsavedIsAlwaysMarked`; `SchedulerInvariant`, `SchedulerKeepsTarget` | none |
| `SettingsFormsProofs` | `FormInvariant`, `TestsAlwaysFollowSaves`; `HandlersInvariant`, `FormFlagsAlwaysTell` | none |
| `WebPagesProofs` | `PagesInvariant`, `PagesTypes`, `SelectionsAreAlwaysListed`, `PageFlagsAlwaysTell`, `AnswersAlwaysKeepTheirOwner` | none |

The other assumptions are the `ASSUME`s of the modules, which TLC evaluates in the runs: the sets
are what they are called, workers and keys are finitely many, limits are positive.

*The pool.* `SlotAccounting` is not inductive: a step that changes the forwarding entries changes
where every token in use leads. `Inductive` counts the slots per lineage instead of
following the entries, and says that every token of a lineage leads to the key of its
account (`LineageLeadsHome`), also through a circle, that entries stay within a lineage, that no key that was replaced
has slots left (`ReplacedIdle`), that unseen tokens are unused, and what each thread knows at each place. `TokenAliasesProofs` has the
lemmas on the loop: where it ends, that it never leaves a lineage and goes further in a smaller pool, and what removing an account or changing its key does to it; its
induction principle is that any closed set holds what the loop visits. Each action has a
lemma of its own, most of them by two general ones, for steps that change one thread and for steps
that change one account.

*The tasks.* `KeyInv` speaks of one task, its worker and its pollers: a task that a worker is busy
with exists, has not succeeded and is not polled; an uncancelled worker's task is unfinished;
entries of `_workers` belong to threads; the file is the table. `PromptInv` is the part an
early stop breaks. `ImagesAreShown`, `ConversationsAreKept` and the refinement follow from it step by step.

*The cache.* A computation is registered under its key from beginning to end, results
only grow, and a waiting request joined a computation that will publish or has published.
The bound on the entries needs a separate lemma, with cardinalities.

*The image page.* `ImageInv` has the types and four parts. `Held`: what is held in memory, in the store, by a
loop or by a load under way is a conversation whose ids were all given out (`used`) and whose stamp is not later than
the clock; without it a loop or a load could bring back what a new submission takes for new. `MountsBegun`:
a page that was not shown yet has nothing. `KeysHaveLoops` and `OneLoopPerTurn` are kept together: a key is added with
its loop and dropped with it, and a loop is begun only for a turn without a key. The action properties do not need a
lemma for each action: `StepKind` says that a step puts one conversation (`Puts`), removes or renames one, clears all, shows
a page or what it loaded, or leaves conversations alone; and of a put that no stopped image runs again but the one
that is asked for anew (`Follows`). `StopsAreKept`, `DeletionIsFinal` and `ChangesAreStored` follow from the kind of the
step.

*The register page.* `UnsavedIsMarked` says nothing of what is on its way. `CarriesHad` adds that every
served answer and every event carries settings the service has had, and that those are never
taken back; the types add that an edit numbers its version within the bound.

*The scheduler.* `TargetKept` is broken by a step far from where it goes wrong, so `RunInv` says of every run, the last
one and the ones replaced, what it keeps to at each place: what is in flight fits its threads; when it goes to submit,
what it made and what is in work are together below the target it read (so that the submission
keeps the target even when a stop, an update or another start came in between); the last run has counted all it made
unless it is `faulted`, which is when an exception dropped results; and the target it read is one of those it was asked for.

*The settings page.* `FormInv` speaks of one request: a save that was served is of a version the
service has had, and so is what comes after it. Requests are records whose fields may hold anything, so
that the proof does not depend on the bounds. `HandlersInv` is for the buttons: which steps a handler has
(`StepsOf`), that there is one request of each handler of a mounted card or of the store. What switches tabs or opens the page again
keeps it because a handler whose card is gone counts no more (`WithoutCardKeeps`), and each of the
handlers that share a flag lowers it, so that it is never up with nobody to wait for.

*The other pages.* Each has an invariant of its own, of which `PagesInv` takes the one of the part that is looked at; that
a step of one part leaves the others alone is then all the composition needs. `AccountsInv`: a request of a kind
with a flag is alone of its kind, a flow of polls (`flows`) has at most one request of each kind and is under way exactly
when its flag is up, and the callback in the dialog goes with the session it was asked for; the handlers of `AccountsPage`
begin, move and end flows by three lemmas (`FlowBegun`, `FlowMoved`, `FlowEnded`). `ListsInv`: a deletion and the load it makes
are one handler, of which there is one. `ConnInv`: every request under way has files of its own server only, which is why
the dialog may be open for another one. `KeysInv`: one request of the mounted card for each key. `LibraryInv`: one save. `SessInv`: the
session a validation carries has the role of its key from the answer to both writes, and no step asks with no key.

Only model-checked: liveness (`GenerationEnds`, `EveryTaskEnds`, `ResponsesEnd`, `TurnsSettle`,
`JobsAreFollowed`, `PagesSettle`), which is beyond the prover. Every other property of the passing runs has a theorem.

## 5. Plan

1. Abstract specifications of parts that have none (a slot of the pool, a computation of the cache, a run of the
   scheduler), with the refinement proved as that of `TaskLifecycle` is.
2. `RedundantRun`: `_run_redundant_handler` of the image tasks, copies of one generation in
   threads of their own, refining the handler step of `ImageTasks` (the first success decides,
   losers are told to stop and left behind, at least one success is a success).
3. `AuthKeys` with `Storage`: loads that fail, saves of stale lists; crashes between writes.
4. `ImageGeneration`, `ProxyClearance`, `BackupScheduler`, `LogFile`, `ImportJobs`, `OAuthSessions` and the
   editable files: small modules that share runs.

## 6. Not modelled

- The chat and debug pages (`web/src/app/chat`, `web/src/app/debug`,
  `web/src/app/image/components/image-chat-panel.tsx`): each has one request at a time and shows its
  stream; nothing of them is read elsewhere.
- Components that draw or take input: the composer, the markup editor, the lightbox, the
  documentation card, `web/src/components/ui`. They keep what the pointer does.
- `web/src/lib/api.ts` beyond what the pages use of it: each function there is one request, which is the
  call of the module that makes it.
- `wirker.js` and `utils/sentinel_sdk_runner.js`: a minified script of a third party and the stub of a
  browser that runs it.
- The conversion of requests and answers, the content filter, image files, deployment scripts: no
  shared state, or only files named by their content and age.
- The parts of the service that the plan lists. Their hazards are in `PROJECT.json` with a note.
