---------------------------- MODULE AccountPool -----------------------------
(***************************************************************************)
(* The account pool: services/account_service.py, with the image workers   *)
(* of services/protocol/conversation.py (_generate_single_image) and the   *)
(* background checks (refresh_accounts, password re-login) that use it.    *)
(*                                                                         *)
(* Every action is one critical section of AccountService._lock (the       *)
(* condition _image_slot_condition shares that lock), or one answer of the *)
(* upstream between two of them.  Between the sections of one thread any   *)
(* other thread may run: that is what the model is about.                  *)
(*                                                                         *)
(* Left out: persistence, logging, counters kept for display, and the      *)
(* score that orders the candidates (any available candidate may be taken).*)
(* The retry counters of a worker are abstracted: a worker may always ask  *)
(* for another token, or give up.                                          *)
(***************************************************************************)
EXTENDS Integers, FiniteSets, TokenAliases

CONSTANTS
    Workers,            \* threads running _generate_single_image, once each
    Checkers,           \* threads running one fetch_remote_info or re-login
    NoThread,           \* owner of _token_refresh_lock when it is free
    NoAccount,          \* the token is no key of _accounts
    InitialTokens,      \* the accounts loaded at start
    MaxConcurrency,     \* config.image_account_concurrency
    Quotas,             \* the quotas the upstream reports or an import brings
    EditedStatuses,     \* the statuses the operator sets by hand
    LoadedRefusals,     \* the invalid_count of the accounts loaded at start
    AutoRemoveInvalid,  \* config.auto_remove_invalid_accounts
    AutoRemoveLimited,  \* config.auto_remove_rate_limited_accounts
    Reimport            \* may an import name a token the pool knew before?

Threads == Workers \cup Checkers

Unmetered == -1                     \* image_quota_unknown
Statuses == {"normal", "limited", "abnormal", "disabled"}

ASSUME PoolAssumption ==
    /\ Workers \cap Checkers = {}
    /\ IsFiniteSet(Workers)
    /\ NoThread \notin Threads
    /\ InitialTokens \subseteq Tokens
    /\ MaxConcurrency \in Nat \ {0}
    /\ Quotas \subseteq Nat \cup {Unmetered}
    /\ EditedStatuses \subseteq Statuses
    /\ LoadedRefusals \in 0..2
    /\ AutoRemoveInvalid \in BOOLEAN
    /\ AutoRemoveLimited \in BOOLEAN
    /\ Reimport \in BOOLEAN

VARIABLES
    accounts,     \* AccountService._accounts
    aliases,      \* AccountService._token_aliases
    inflight,     \* AccountService._image_inflight
    lineage,      \* history: the import each token descends from by refreshes
    refreshLock,  \* the thread in _token_refresh_lock
    pc,           \* where each thread is
    tok,          \* a worker's `token', or the token a check was started for
    held,         \* a worker's `slot_held'
    tried,        \* `attempted_tokens' of _generate_single_image
    attempted,    \* `attempted_tokens' of get_available_access_token
    call,         \* the token refresh_access_token was called with
    act,          \* `active_token' of fetch_remote_info / refresh_access_token
    verdict       \* how the generation of a worker ended

poolVars == <<accounts, aliases, inflight, lineage>>
fetchVars == <<refreshLock, call, act>>
workerVars == <<tok, held, tried, attempted, verdict>>
vars == <<accounts, aliases, inflight, lineage, refreshLock, pc, tok, held,
          tried, attempted, call, act, verdict>>
-----------------------------------------------------------------------------
(***************************************************************************)
(* Accounts                                                                *)
(***************************************************************************)

\* `invalid' is invalid_count; no test in the code tells 2 from more.
Account == [status : Statuses, quota : Nat \cup {Unmetered}, invalid : 0..2]

ASSUME NoAccountAssumption == NoAccount \notin Account

Live == {t \in Tokens : accounts[t] # NoAccount}
Home(t) == Resolve(Live, aliases, t)
Known == {t \in Tokens : lineage[t] # NoToken}

Available(a) == a.status = "normal" /\ a.quota # 0

Ready(excluded) == {t \in Live \ excluded : Available(accounts[t])}
Candidates(excluded) == {t \in Ready(excluded) : inflight[t] < MaxConcurrency}

\* `invalid' counts one more, as far as the code can tell.
OneMore(n) == IF n = 2 THEN 2 ELSE n + 1

\* update_account and mark_image_result store `a', or drop a rate-limited
\* account when the operator asked for it.
Store(t, a) ==
    IF a.status = "limited" /\ AutoRemoveLimited
    THEN [accounts EXCEPT ![t] = NoAccount]
    ELSE [accounts EXCEPT ![t] = a]

Discard(f, t) == [f EXCEPT ![t] = 0]
\* Mutant: the count is not kept at zero.
DecBelowZero(n) == n - 1
Dec(n) == IF n <= 1 THEN 0 ELSE n - 1

\* Mutant: the slot is given back on the key it was taken on.
ReleasedOnOldKey(t) == [inflight EXCEPT ![t] = Dec(@)]

\* release_image_slot: the slot is given back on the account the token leads
\* to now.
Released(t) == [inflight EXCEPT ![Home(t)] = Dec(@)]

\* delete_accounts([t]): the account, its slots, and every entry from or to it.
Deletion(t) ==
    LET target == Home(t)
    IN  /\ accounts' = [accounts EXCEPT ![target] = NoAccount]
        /\ inflight' = Discard(inflight, target)
        /\ aliases' = [u \in Tokens |-> IF u = target \/ aliases[u] = target
                                        THEN NoToken ELSE aliases[u]]
        /\ UNCHANGED lineage

\* update_account on an account that may have gone.
Update(t, a) ==
    /\ accounts' = IF Home(t) \in Live THEN Store(Home(t), a) ELSE accounts
    /\ UNCHANGED <<aliases, inflight, lineage>>

\* Mutants: the slots stay behind; no entry is written; the old key stays.
RotationLosesSlots(old, n) ==
    /\ accounts' = [accounts EXCEPT ![old] = NoAccount,
                                    ![n] = [accounts[old] EXCEPT !.invalid = 0]]
    /\ aliases' = [aliases EXCEPT ![old] = n]
    /\ lineage' = [lineage EXCEPT ![n] = lineage[old]]
    /\ UNCHANGED inflight

RotationForgetsOld(old, n) ==
    /\ accounts' = [accounts EXCEPT ![old] = NoAccount,
                                    ![n] = [accounts[old] EXCEPT !.invalid = 0]]
    /\ inflight' = [inflight EXCEPT ![old] = 0, ![n] = @ + inflight[old]]
    /\ lineage' = [lineage EXCEPT ![n] = lineage[old]]
    /\ UNCHANGED aliases

RotationCopies(old, n) ==
    /\ accounts' = [accounts EXCEPT ![n] = [accounts[old] EXCEPT !.invalid = 0]]
    /\ aliases' = [aliases EXCEPT ![old] = n]
    /\ inflight' = [inflight EXCEPT ![old] = 0, ![n] = @ + inflight[old]]
    /\ lineage' = [lineage EXCEPT ![n] = lineage[old]]

\* _apply_refreshed_tokens with another token string n: the account changes its
\* key, an entry leads from the old key to the new one, the slots move along.
\* An entry from n, which n has when it was a key before, stays; it is not
\* followed while n is a key.
Rotation(old, n) ==
    /\ accounts' = [accounts EXCEPT ![old] = NoAccount,
                                    ![n] = [accounts[old] EXCEPT !.invalid = 0]]
    /\ aliases' = [aliases EXCEPT ![old] = n]
    /\ inflight' = [inflight EXCEPT ![old] = 0, ![n] = @ + inflight[old]]
    /\ lineage' = [lineage EXCEPT ![n] = lineage[old]]

\* The upstream returned the token it had already issued.
Renewal(old) ==
    /\ accounts' = [accounts EXCEPT ![old].invalid = 0]
    /\ UNCHANGED <<aliases, inflight, lineage>>

\* _apply_refreshed_tokens(t) returned `result': the account t leads to now has
\* gone, or has its token renewed or replaced, by one nobody has seen or by an
\* earlier one of the same account.  A token names its account: the credentials
\* of one account bring no token of another.
Applied(t, result) ==
    LET target == Home(t)
    IN  \/ target \notin Live /\ result = target /\ UNCHANGED poolVars
        \/ target \in Live /\ result = target /\ Renewal(target)
        \/ /\ target \in Live /\ result # target
           /\ result \in Known => lineage[result] = lineage[target]
           /\ Rotation(target, result)
-----------------------------------------------------------------------------
Pcs == {"start", "ask", "acquire", "preflight", "preflightHttp", "info",
        "force", "forceHttp", "forcePlatform", "retry", "update", "invalid",
        "remove", "giveBack", "submit", "polling", "settle", "auth", "authHttp",
        "authPlatform", "authRemove", "login", "revive", "done"}

Verdicts == {"none", "ok", "fail", "again", "auth"}

TypeOK ==
    /\ accounts \in [Tokens -> Account \cup {NoAccount}]
    /\ aliases \in [Tokens -> Tokens \cup {NoToken}]
    /\ inflight \in [Tokens -> Nat]
    /\ lineage \in [Tokens -> Tokens \cup {NoToken}]
    /\ refreshLock \in Threads \cup {NoThread}
    /\ pc \in [Threads -> Pcs]
    /\ tok \in [Threads -> Tokens \cup {NoToken}]
    /\ held \in [Workers -> BOOLEAN]
    /\ tried \in [Workers -> SUBSET Tokens]
    /\ attempted \in [Workers -> SUBSET Tokens]
    /\ call \in [Threads -> Tokens \cup {NoToken}]
    /\ act \in [Threads -> Tokens \cup {NoToken}]
    /\ verdict \in [Workers -> Verdicts]

New(q) == [status |-> "normal", quota |-> q, invalid |-> 0]

Init ==
    /\ \E q \in Quotas :
          LET loaded == [New(q) EXCEPT !.invalid = LoadedRefusals]
          IN  accounts = [t \in Tokens |-> IF t \in InitialTokens THEN loaded
                                                                 ELSE NoAccount]
    /\ aliases = [t \in Tokens |-> NoToken]
    /\ inflight = [t \in Tokens |-> 0]
    /\ lineage = [t \in Tokens |-> IF t \in InitialTokens THEN t ELSE NoToken]
    /\ refreshLock = NoThread
    /\ pc = [th \in Threads |-> IF th \in Workers THEN "ask" ELSE "start"]
    /\ tok = [th \in Threads |-> NoToken]
    /\ held = [w \in Workers |-> FALSE]
    /\ tried = [w \in Workers |-> {}]
    /\ attempted = [w \in Workers |-> {}]
    /\ call = [th \in Threads |-> NoToken]
    /\ act = [th \in Threads |-> NoToken]
    /\ verdict = [w \in Workers |-> "none"]

Goto(th, label) == pc' = [pc EXCEPT ![th] = label]

\* fetch_remote_info raises, or finds no usable account: a worker gives its
\* slot back and tries another account, a check is over.
AfterFetch(th) == IF th \in Workers THEN "giveBack" ELSE "done"
-----------------------------------------------------------------------------
(***************************************************************************)
(* A worker takes a slot: get_available_access_token                       *)
(***************************************************************************)

\* The excluded tokens of the request are resolved when the call begins.  The set
\* is local to the call: it is emptied when the call returns.
Ask(w) ==
    /\ pc[w] = "ask"
    /\ attempted' = [attempted EXCEPT ![w] = {Home(t) : t \in tried[w]}]
    /\ Goto(w, "acquire")
    /\ UNCHANGED <<poolVars, fetchVars, tok, held, tried, verdict>>

\* _acquire_next_candidate_token finds an account with a free slot and not
\* tried before.  When every ready account is busy the thread waits on the
\* condition: no step is enabled.
Acquire(w) ==
    /\ pc[w] = "acquire"
    /\ \E t \in Candidates(attempted[w]) :
          /\ inflight' = [inflight EXCEPT ![t] = @ + 1]
          /\ tok' = [tok EXCEPT ![w] = t]
          /\ act' = [act EXCEPT ![w] = t]
          /\ attempted' = [attempted EXCEPT ![w] = @ \cup {t}]
    /\ held' = [held EXCEPT ![w] = TRUE]
    /\ Goto(w, "preflight")
    /\ UNCHANGED <<accounts, aliases, lineage, refreshLock, call, tried, verdict>>

\* It raises "no available image quota": the worker's request fails.
NoCandidate(w) ==
    /\ pc[w] = "acquire"
    /\ Ready(attempted[w]) = {}
    /\ attempted' = [attempted EXCEPT ![w] = {}]
    /\ Goto(w, "done")
    /\ UNCHANGED <<poolVars, fetchVars, tok, held, tried, verdict>>

\* Mutant: the slot is not given back.
GiveBackNothing(w) ==
    /\ pc[w] = "giveBack"
    /\ held' = [held EXCEPT ![w] = FALSE]
    /\ tok' = [tok EXCEPT ![w] = NoToken]
    /\ Goto(w, "acquire")
    /\ UNCHANGED <<poolVars, fetchVars, tried, attempted, verdict>>

\* fetch_remote_info raised, or its account cannot draw: release_image_slot
\* and try the next account.
GiveBack(w) ==
    /\ pc[w] = "giveBack"
    /\ inflight' = Released(tok[w])
    /\ held' = [held EXCEPT ![w] = FALSE]
    /\ tok' = [tok EXCEPT ![w] = NoToken]
    /\ Goto(w, "acquire")
    /\ UNCHANGED <<accounts, aliases, lineage, fetchVars, tried, attempted, verdict>>
-----------------------------------------------------------------------------
(***************************************************************************)
(* fetch_remote_info and refresh_access_token                              *)
(***************************************************************************)

\* A refresh_accounts worker, or the thread of a request that refreshes one
\* account, starts on a token listed a moment ago.
StartCheck(c) ==
    /\ pc[c] = "start"
    /\ \E t \in Live : /\ tok' = [tok EXCEPT ![c] = t]
                       /\ act' = [act EXCEPT ![c] = t]
    /\ Goto(c, "preflight")
    /\ UNCHANGED <<poolVars, refreshLock, held, tried, attempted, call, verdict>>

\* refresh_access_token(arg) returned `result' to its caller.
Returned(th, arg, result) ==
    /\ call' = [call EXCEPT ![th] = NoToken]
    /\ \/ /\ pc[th] \in {"preflight", "preflightHttp"}
          /\ act' = [act EXCEPT ![th] = result]
          /\ Goto(th, "info")
          /\ UNCHANGED workerVars
       \/ /\ pc[th] \in {"force", "forceHttp", "forcePlatform"}
          /\ act' = [act EXCEPT ![th] = result]
          /\ Goto(th, IF result # arg THEN "retry" ELSE "invalid")
          /\ UNCHANGED workerVars
       \/ /\ pc[th] \in {"auth", "authHttp", "authPlatform"}
          /\ act' = [act EXCEPT ![th] = NoToken]
          /\ IF result # arg
             THEN /\ tried' = [tried EXCEPT ![th] = @ \ {arg}]
                  /\ tok' = [tok EXCEPT ![th] = NoToken]
                  /\ Goto(th, "ask")
                  /\ UNCHANGED <<held, attempted, verdict>>
             ELSE Goto(th, "authRemove") /\ UNCHANGED workerVars

RefreshArgument(th) == IF pc[th] = "auth" THEN tok[th] ELSE act[th]

HttpOf(label) == CASE label = "preflight" -> "preflightHttp"
                   [] label = "force" -> "forceHttp"
                   [] label = "auth" -> "authHttp"

\* Under _token_refresh_lock: the account is gone, its token is still good
\* (never so when the refresh is forced), or a request goes out to the upstream
\* with the lock kept until the answer.
BeginRefresh(th) ==
    /\ pc[th] \in {"preflight", "force", "auth"}
    /\ refreshLock = NoThread
    /\ LET arg == RefreshArgument(th)
           target == Home(arg)
       IN  \/ /\ target \notin Live
              /\ Returned(th, arg, arg)
              /\ UNCHANGED refreshLock
           \/ /\ target \in Live
              /\ pc[th] = "preflight"
              /\ Returned(th, arg, target)
              /\ UNCHANGED refreshLock
           \/ /\ target \in Live
              /\ refreshLock' = th
              /\ call' = [call EXCEPT ![th] = arg]
              /\ act' = [act EXCEPT ![th] = target]
              /\ Goto(th, HttpOf(pc[th]))
              /\ UNCHANGED workerVars
    /\ UNCHANGED poolVars

\* The answer: a failure, recorded on the account, or tokens.
EndRefresh(th) ==
    /\ pc[th] \in {"preflightHttp", "forceHttp", "authHttp"}
    /\ refreshLock' = NoThread
    /\ \/ Returned(th, call[th], act[th]) /\ UNCHANGED poolVars
       \/ \E n \in Tokens : Applied(act[th], n) /\ Returned(th, call[th], n)

\* A forced refresh of an account with a cookie and a refresh_token makes two
\* requests.  The session brought the tokens ...
SessionRefreshed(th) ==
    /\ pc[th] \in {"forceHttp", "authHttp"}
    /\ \E n \in Tokens : Applied(act[th], n) /\ act' = [act EXCEPT ![th] = n]
    /\ Goto(th, IF pc[th] = "forceHttp" THEN "forcePlatform" ELSE "authPlatform")
    /\ UNCHANGED <<refreshLock, call, workerVars>>

\* ... and the refresh_token one for the platform, which is no key of the pool.
EndPlatform(th) ==
    /\ pc[th] \in {"forcePlatform", "authPlatform"}
    /\ refreshLock' = NoThread
    /\ \E n \in {act[th], Home(act[th])} : Returned(th, call[th], n)
    /\ UNCHANGED poolVars

\* What get_user_info can report: `status' is computed from the quota, and from
\* the plan when there is none.
Reports ==
    {r \in [status : {"normal", "limited"}, quota : Quotas] :
        r.quota # Unmetered => (r.status = "limited" <=> r.quota = 0)}

\* get_user_info answered: _record_refresh_success, in a section of its own.
InfoOk(th) ==
    /\ pc[th] \in {"info", "retry"}
    /\ accounts' = IF Home(act[th]) \in Live
                   THEN [accounts EXCEPT ![Home(act[th])].invalid = 0] ELSE accounts
    /\ Goto(th, "update")
    /\ UNCHANGED <<aliases, inflight, lineage, fetchVars, workerVars>>

\* Then update_account, and in get_available_access_token the test of the returned
\* copy.
StoreInfo(th) ==
    /\ pc[th] = "update"
    /\ \E report \in Reports :
          LET target == Home(act[th])
              found == target \in Live
              kept == found /\ ~(report.status = "limited" /\ AutoRemoveLimited)
          IN  /\ Update(act[th], [accounts[target] EXCEPT !.status = report.status,
                                                         !.quota = report.quota])
              /\ IF th \in Workers /\ kept /\ Available(report)
                 THEN /\ tok' = [tok EXCEPT ![th] = target]
                      /\ tried' = [tried EXCEPT ![th] = @ \cup {target}]
                      /\ attempted' = [attempted EXCEPT ![th] = {}]
                      /\ Goto(th, "submit")
                 ELSE /\ IF th \in Workers /\ kept
                         THEN attempted' = [attempted EXCEPT ![th] = @ \cup {target}]
                         ELSE UNCHANGED attempted
                      /\ UNCHANGED <<tok, tried>>
                      /\ Goto(th, AfterFetch(th))
    /\ act' = [act EXCEPT ![th] = NoToken]
    /\ UNCHANGED <<refreshLock, call, held, verdict>>

\* get_user_info failed for another reason than the token.
InfoFails(th) ==
    /\ pc[th] \in {"info", "retry"}
    /\ act' = [act EXCEPT ![th] = NoToken]
    /\ Goto(th, AfterFetch(th))
    /\ UNCHANGED <<poolVars, refreshLock, call, workerVars>>

\* The upstream refused the token: force a refresh, once.
InfoInvalid(th) ==
    /\ pc[th] \in {"info", "retry"}
    /\ Goto(th, IF pc[th] = "info" THEN "force" ELSE "invalid")
    /\ UNCHANGED <<poolVars, fetchVars, workerVars>>

\* _record_invalid_token_seen: removal is deferred while the account is new,
\* was refused at most once before, or was refused a moment ago.  Only the
\* refresh of the accounts page passes defer_invalid_removal=False.
RecordInvalid(th) ==
    /\ pc[th] = "invalid"
    /\ LET target == Home(act[th])
       IN  \/ /\ target \notin Live
              /\ Goto(th, "remove")
              /\ UNCHANGED <<accounts, act>>
           \/ /\ target \in Live
              /\ accounts' = [accounts EXCEPT ![target].invalid = OneMore(@)]
              /\ \/ /\ th \in Checkers \/ accounts[target].invalid = 2
                    /\ Goto(th, "remove")
                    /\ UNCHANGED act
                 \/ /\ Goto(th, AfterFetch(th))
                    /\ act' = [act EXCEPT ![th] = NoToken]
    /\ UNCHANGED <<aliases, inflight, lineage, refreshLock, call, workerVars>>

\* The image_quota_unknown flag survives an update of the quota.
Requota(q, new) == IF q = Unmetered THEN Unmetered ELSE new

\* remove_invalid_token(t): delete the account t leads to, or mark it.
RemoveInvalidToken(t) ==
    IF AutoRemoveInvalid
    THEN Deletion(t)
    ELSE Update(t, [accounts[Home(t)] EXCEPT !.status = "abnormal",
                                             !.quota = Requota(@, 0)])

RemoveInvalid(th) ==
    /\ pc[th] = "remove"
    /\ RemoveInvalidToken(act[th])
    /\ act' = [act EXCEPT ![th] = NoToken]
    /\ Goto(th, AfterFetch(th))
    /\ UNCHANGED <<refreshLock, call, workerVars>>
-----------------------------------------------------------------------------
(***************************************************************************)
(* A worker generates: one attempt of _generate_single_image               *)
(***************************************************************************)

\* The worker is between "slot taken" and "result marked".
Generating(w) == pc[w] \in {"submit", "polling"}

\* Mutant: slot_held is not cleared.
ReleaseEarlyKeepsFlag(w) ==
    /\ pc[w] = "submit"
    /\ inflight' = Released(tok[w])
    /\ Goto(w, "polling")
    /\ UNCHANGED <<accounts, aliases, lineage, fetchVars, workerVars>>

\* release_submission_slot when the upstream accepted the conversation: the
\* image is polled for minutes without a slot.
ReleaseEarly(w) ==
    /\ pc[w] = "submit"
    /\ inflight' = Released(tok[w])
    /\ held' = [held EXCEPT ![w] = FALSE]
    /\ Goto(w, "polling")
    /\ UNCHANGED <<accounts, aliases, lineage, fetchVars, tok, tried, attempted, verdict>>

\* The slot goes back if it is still held (release_slot=slot_held).
ReleaseIfHeld(w) ==
    /\ inflight' = IF held[w] THEN Released(tok[w]) ELSE inflight
    /\ held' = [held EXCEPT ![w] = FALSE]

\* The user cancelled: noticed before an account is asked for, right after one
\* was obtained, or in a progress callback; not while the thread waits for a slot.
Cancel(w) ==
    /\ pc[w] = "ask" \/ Generating(w)
    /\ ReleaseIfHeld(w)
    /\ tok' = [tok EXCEPT ![w] = NoToken]
    /\ Goto(w, "done")
    /\ UNCHANGED <<accounts, aliases, lineage, fetchVars, tried, attempted, verdict>>

\* The attempt ended: with an image, with an error that ends the request, with
\* one that is retried, or with a refused token.  mark_image_result first gives
\* the slot back, in a critical section of its own.
Finish(w) ==
    /\ Generating(w)
    /\ \E v \in Verdicts \ {"none"} : verdict' = [verdict EXCEPT ![w] = v]
    /\ ReleaseIfHeld(w)
    /\ Goto(w, "settle")
    /\ UNCHANGED <<accounts, aliases, lineage, fetchVars, tok, tried, attempted>>

\* What a success does to the account (mark_image_result).
Charged(a) ==
    LET q == Requota(a.quota, IF a.quota <= 0 THEN 0 ELSE a.quota - 1)
    IN  [a EXCEPT !.quota = q,
                  !.status = IF q = 0 THEN "limited"
                             ELSE IF a.status = "limited" THEN "normal" ELSE a.status]

\* A failure only counts; an account that is limited by now is dropped all the
\* same if the operator asked for that.
Marked(a, v) == IF v = "ok" THEN Charged(a) ELSE a

\* mark_image_result, second section; then the worker ends or goes on.
Settle(w) ==
    /\ pc[w] = "settle"
    /\ Update(tok[w], Marked(accounts[Home(tok[w])], verdict[w]))
    /\ verdict' = [verdict EXCEPT ![w] = "none"]
    /\ IF verdict[w] = "auth"
       THEN Goto(w, "auth") /\ UNCHANGED tok
       ELSE /\ Goto(w, IF verdict[w] = "again" THEN "ask" ELSE "done")
            /\ tok' = [tok EXCEPT ![w] = NoToken]
    /\ UNCHANGED <<fetchVars, held, tried, attempted>>

\* The forced refresh after a refused token brought no new token: the account
\* is removed or marked at once, and the worker tries another.
AuthRemove(w) ==
    /\ pc[w] = "authRemove"
    /\ RemoveInvalidToken(tok[w])
    /\ tok' = [tok EXCEPT ![w] = NoToken]
    /\ Goto(w, "ask")
    /\ UNCHANGED <<fetchVars, held, tried, attempted, verdict>>
-----------------------------------------------------------------------------
(***************************************************************************)
(* _password_re_login_thread                                               *)
(***************************************************************************)

StartLogin(c) ==
    /\ pc[c] = "start"
    /\ \E t \in Live : tok' = [tok EXCEPT ![c] = t]
    /\ Goto(c, "login")
    /\ UNCHANGED <<poolVars, fetchVars, held, tried, attempted, verdict>>

\* The login answered with tokens, applied like those of a refresh.
LoginOk(c) ==
    /\ pc[c] = "login"
    /\ \E n \in Tokens : Applied(tok[c], n) /\ act' = [act EXCEPT ![c] = n]
    /\ Goto(c, "revive")
    /\ UNCHANGED <<refreshLock, call, workerVars>>

\* Then, in a second section, the account is declared good.
Revive(c) ==
    /\ pc[c] = "revive"
    /\ Update(act[c], [accounts[Home(act[c])] EXCEPT !.status = "normal"])
    /\ act' = [act EXCEPT ![c] = NoToken]
    /\ Goto(c, "done")
    /\ UNCHANGED <<refreshLock, call, workerVars>>

\* The login answered that the account is deactivated.
LoginDeactivated(c) ==
    /\ pc[c] = "login"
    /\ Update(tok[c], [accounts[Home(tok[c])] EXCEPT !.status = "disabled",
                                                     !.quota = Requota(@, 0)])
    /\ Goto(c, "done")
    /\ UNCHANGED <<fetchVars, workerVars>>

\* Any other failure, a network error included, condemns the account.
LoginFails(c) ==
    /\ pc[c] = "login"
    /\ act' = [act EXCEPT ![c] = tok[c]]
    /\ Goto(c, "remove")
    /\ UNCHANGED <<poolVars, refreshLock, call, workerVars>>
-----------------------------------------------------------------------------
(***************************************************************************)
(* The operator and the importers                                          *)
(***************************************************************************)

\* _add_account_payloads on a token that is no key of the pool.  Nothing is done
\* about an entry of the alias table.
Import(t) ==
    /\ t \notin Live
    /\ t \in Known => Reimport
    /\ \E q \in Quotas : accounts' = [accounts EXCEPT ![t] = New(q)]
    /\ lineage' = [lineage EXCEPT ![t] = IF @ = NoToken THEN t ELSE @]
    /\ UNCHANGED <<aliases, inflight, refreshLock, pc, workerVars, call, act>>

\* delete_accounts from the accounts page: the page may show an old token.
Delete(t) ==
    /\ t \in Known
    /\ Deletion(t)
    /\ UNCHANGED <<refreshLock, pc, workerVars, call, act>>

\* POST /api/accounts/update.
Edit(t) ==
    /\ Home(t) \in Live
    /\ \E s \in EditedStatuses, q \in Quotas \ {Unmetered} :
          Update(t, [accounts[Home(t)] EXCEPT !.status = s, !.quota = Requota(@, q)])
    /\ UNCHANGED <<refreshLock, pc, workerVars, call, act>>
-----------------------------------------------------------------------------
Fetch(th) ==
    \/ BeginRefresh(th) \/ EndRefresh(th) \/ SessionRefreshed(th) \/ EndPlatform(th)
    \/ InfoOk(th) \/ StoreInfo(th) \/ InfoFails(th) \/ InfoInvalid(th)
    \/ RecordInvalid(th) \/ RemoveInvalid(th)

WorkerStep(w) ==
    \/ Ask(w) \/ Acquire(w) \/ NoCandidate(w) \/ GiveBack(w)
    \/ ReleaseEarly(w) \/ Finish(w) \/ Settle(w) \/ AuthRemove(w)

CheckerStep(c) ==
    \/ StartCheck(c) \/ StartLogin(c)
    \/ LoginOk(c) \/ Revive(c) \/ LoginDeactivated(c) \/ LoginFails(c)

Operator == \E t \in Tokens : Import(t) \/ Delete(t) \/ Edit(t)

Next ==
    \/ \E th \in Threads : Fetch(th)
    \/ \E w \in Workers : WorkerStep(w) \/ Cancel(w)
    \/ \E c \in Checkers : CheckerStep(c)
    \/ Operator

\* Threads run, the upstream answers or its request times out.  Nobody has to
\* import, delete, edit or cancel, and a check need not be started.
Fairness ==
    /\ \A th \in Threads : WF_vars(Fetch(th))
    /\ \A w \in Workers : WF_vars(WorkerStep(w))

Spec == Init /\ [][Next]_vars
FairSpec == Spec /\ Fairness
-----------------------------------------------------------------------------
(***************************************************************************)
(* Properties                                                              *)
(***************************************************************************)

\* The workers whose slot is on account t: their token leads there.
Holders(t) == {w \in Workers : held[w] /\ Home(tok[w]) = t}

\* The in-flight count of every account of the pool is the number of workers
\* that hold a slot on it: no refresh, removal, early release, failure or
\* cancellation leaks a slot (the account would silently drop out of the
\* scheduling) or frees the slot of another worker.  _image_inflight.
SlotAccounting == \A t \in Live : inflight[t] = Cardinality(Holders(t))

\* At most image_account_concurrency workers hold a slot on one account, also
\* when its key changes while they hold it.  _acquire_next_candidate_token.
ConcurrencyRespected == \A t \in Live : Cardinality(Holders(t)) <= MaxConcurrency

\* The tokens a thread works with.
TokensOf(th) == {tok[th], act[th], call[th]} \ {NoToken}

\* However often an account is refreshed while a thread works on it, the token
\* the thread holds leads to the account's current key, so that its results,
\* releases and marks land there.  _apply_refreshed_tokens, _token_aliases.
TracksAccount ==
    \A th \in Threads : \A t \in Live : \A u \in TokensOf(th) :
        lineage[t] = lineage[u] => Home(u) = t

\* The pool never holds one account under two keys: no stale copy of it is
\* written under a key that was replaced, and a refresh that brings an earlier
\* token back leaves no other.  update_account, _record_refresh_success,
\* mark_image_result, _apply_refreshed_tokens.
OneKeyPerAccount == \A t, u \in Live : lineage[t] = lineage[u] => t = u

\* When no worker runs, no account has a slot taken: what the docstring of
\* list_accounts calls a leaked slot does not happen.
IdlePoolHasNoSlotTaken ==
    (\A w \in Workers : pc[w] = "done") => \A t \in Live : inflight[t] = 0

\* A check that defers removals never removes an account, or marks it abnormal,
\* unless that account was refused again and again since its last refresh.
\* fetch_remote_info, _should_defer_invalid_token.
RemovalIsConfirmed ==
    [][\A w \in Workers :
          pc[w] = "remove" /\ pc'[w] # "remove" /\ Home(act[w]) \in Live
              => accounts[Home(act[w])].invalid = 2]_vars

\* An attempt ended in a way that is tried again, which the code counts and the
\* model does not; or its token was refused and a forced refresh brought another,
\* which the code does not count either.
AsksAgain(w) == pc[w] \in {"settle", "authHttp", "authPlatform"} /\ pc'[w] = "ask"

\* Every generation ends, unless one of them asks again for ever: no worker waits
\* for ever for a slot or for _token_refresh_lock.
\* _acquire_next_candidate_token, refresh_access_token.
GenerationEnds ==
    \/ \A w \in Workers : <>(pc[w] = "done")
    \/ \E w \in Workers : []<><<AsksAgain(w)>>_vars
-----------------------------------------------------------------------------
(***************************************************************************)
(* The inductive invariant behind SlotAccounting, ConcurrencyRespected,    *)
(* TracksAccount and OneKeyPerAccount (AccountPoolProofs).  It says of the *)
(* whole alias table what they say of the tokens in use, and counts slots  *)
(* per lineage instead of following the table.                             *)
(***************************************************************************)

\* A token nobody has seen yet is not in use.
FreshUnused ==
    \A t \in Tokens \ Known :
        /\ accounts[t] = NoAccount /\ inflight[t] = 0 /\ aliases[t] = NoToken
        /\ \A u \in Tokens : aliases[u] # t /\ lineage[u] # t

\* An entry stays within the lineage of an account.
EntriesKeepLineage ==
    \A u \in Tokens : aliases[u] # NoToken => lineage[aliases[u]] = lineage[u]

\* Every token of a lineage leads to the key of its account.
LineageLeadsHome ==
    \A t \in Live : \A u \in Tokens :
        lineage[u] = lineage[t] => t \in Visited(Live, aliases, u)

\* No slot is counted on a replaced key of an account of the pool, which a
\* refresh may bring back.
ReplacedIdle ==
    \A t \in Live : \A u \in Tokens :
        lineage[u] = lineage[t] /\ u # t => inflight[u] = 0

\* Where a thread has an `active_token', and a call of refresh_access_token
\* that waits for the upstream; and where a worker holds a slot.
NeedsActive == {"preflight", "preflightHttp", "info", "force", "forceHttp",
                "forcePlatform", "retry", "update", "invalid", "remove",
                "authHttp", "authPlatform", "revive"}
NeedsHttpCall == {"preflightHttp", "forceHttp", "forcePlatform", "authHttp",
                  "authPlatform"}
HoldingPcs == {"preflight", "preflightHttp", "info", "force", "forceHttp",
               "forcePlatform", "retry", "update", "invalid", "remove",
               "giveBack", "submit"}
WorkerPcs == Pcs \ {"start", "login", "revive"}

\* What a thread knows at each place.  Whatever it calls the account by, it is
\* the account it took.
KnowsTokens(th) ==
    /\ pc[th] \in {"start", "ask", "acquire"} => tok[th] = NoToken
    /\ pc[th] \notin {"start", "ask", "acquire", "done"} => tok[th] # NoToken
    /\ act[th] # NoToken <=> pc[th] \in NeedsActive
    /\ call[th] # NoToken <=> pc[th] \in NeedsHttpCall
    /\ \A u \in TokensOf(th) : u \in Known /\ lineage[u] = lineage[tok[th]]

ThreadsKnowTokens == \A th \in Threads : KnowsTokens(th)

WorkersHold ==
    \A w \in Workers : pc[w] \in WorkerPcs /\ (held[w] <=> pc[w] \in HoldingPcs)

ChecksStayOut ==
    \A c \in Checkers :
        pc[c] \notin {"ask", "acquire", "giveBack", "submit", "polling", "settle",
                      "auth", "authHttp", "authPlatform", "authRemove"}

\* The workers that hold a slot on the account of a lineage.
LineageHolders(l) == {w \in Workers : held[w] /\ lineage[tok[w]] = l}

SlotsByLineage ==
    \A t \in Live : /\ inflight[t] = Cardinality(LineageHolders(lineage[t]))
                    /\ inflight[t] <= MaxConcurrency

TableInv == /\ FreshUnused
            /\ OneKeyPerAccount
            /\ EntriesKeepLineage
            /\ LineageLeadsHome
            /\ ReplacedIdle

Inductive == /\ TypeOK
             /\ TableInv
             /\ ThreadsKnowTokens /\ WorkersHold /\ ChecksStayOut
             /\ SlotsByLineage
=============================================================================
