----------------------------- MODULE WebSession -----------------------------
(***************************************************************************)
(* Who the browser is logged in as: the two items the browser's storage    *)
(* keeps (web/src/store/auth.ts), the validation every page begins with    *)
(* (web/src/lib/auth-session.ts, use-auth-guard.ts, the bar at the top),   *)
(* the login page, the logout, and the answer 401 (web/src/lib/request.ts).*)
(*                                                                         *)
(* The key and the session, which has the key too, are items of their own. *)
(* A call that reads or writes both does so without waiting in between, so *)
(* that nothing else of its tab comes between the two; another tab may.    *)
(* Every page makes two validations, its own and that of the bar, and none *)
(* is stopped when the page is left: it only has no effect on the page.    *)
(*                                                                         *)
(* Abstracted: pages are those for admins, those for any role and the      *)
(* login page; of a session there are the key and the role.                *)
(***************************************************************************)
EXTENDS Naturals, FiniteSets

CONSTANTS
    Tabs,
    AuthKeys, NoAuthKey,
    RoleOf,       \* of a key, by the service
    FirstSessions \* how it begins: the key stored, NoAuthKey for none, the tabs that
                  \* show the login page, the others being closed, and a bound:
                  \* what users do, keys revoked, requests that fail

ASSUME SessionAssumption ==
    /\ NoAuthKey \notin AuthKeys /\ RoleOf \in [AuthKeys -> {"admin", "user"}]
    /\ FirstSessions \subseteq (AuthKeys \cup {NoAuthKey}) \X (SUBSET Tabs) \X Nat

VARIABLES
    keyItem, sessionItem, \* of the storage
    refused,              \* of the service: keys it takes no more
    tabPage,                 \* of a tab
    isCheckingAuth, session,
    navSession,           \* what the bar at the top shows
    sessionJobs,                 \* calls that are not over
    sessionUse

authItems == <<keyItem, sessionItem>>
tabVars == <<tabPage, isCheckingAuth, session, navSession>>
sessionVars == <<authItems, refused, tabVars, sessionJobs, sessionUse>>

Pages == {"closed", "login", "admin", "any"}
Sessions == [key : AuthKeys \cup {NoAuthKey}, role : {"admin", "user", "none"}]
NoSession == [key |-> NoAuthKey, role |-> "none"]
SessionOf(k) == IF k = NoAuthKey THEN NoSession ELSE [key |-> k, role |-> RoleOf[k]]
DefaultPage(s) == IF s.role = "admin" THEN "admin" ELSE "any"

Validations == {"guard", "redirect", "nav"}
Steps == {"readKey", "readSession", "repair", "ask", "writeKey", "writeSession", "clearKey",
          "clearSession"}
SessionJob == [tab : Tabs, who : Validations \cup {"login", "logout", "unauthorized"}, step : Steps,
        read : AuthKeys \cup {NoAuthKey}, session : Sessions, active : BOOLEAN]

\* Two calls of a tab that are at the same step go on as one: they do the same.
NewJob(t, who, step, k) ==
    [tab |-> t, who |-> who, step |-> step, read |-> NoAuthKey,
     session |-> [NoSession EXCEPT !.key = k], active |-> TRUE]

SessionInit ==
    /\ \E first \in FirstSessions :
        /\ keyItem = first[1] /\ sessionItem = SessionOf(first[1])
        /\ tabPage = [t \in Tabs |-> IF t \in first[2] THEN "login" ELSE "closed"]
        /\ sessionUse = first[3]
    /\ refused = {}
    /\ isCheckingAuth = [t \in Tabs |-> FALSE] /\ session = [t \in Tabs |-> NoSession]
    /\ navSession = [t \in Tabs |-> NoSession]
    /\ sessionJobs = {}

\* A call that has done the first of its two operations on the items.
Midway(j) == j.step \in {"readSession", "writeSession", "clearSession"}
Runs(j, step) ==
    j \in sessionJobs /\ j.step = step
        /\ \A o \in sessionJobs \ {j} : o.tab = j.tab => ~Midway(o)
Goes(j, new) == sessionJobs' = (sessionJobs \ {j}) \cup {new}

(***************************************************************************)
(* Pages.                                                                  *)
(***************************************************************************)
\* The effects of the page and of the bar.
Opened(t, p) ==
    IF p = "login" THEN {NewJob(t, "redirect", "readKey", NoAuthKey)}
    ELSE {NewJob(t, who, "readKey", NoAuthKey) : who \in {"guard", "nav"}}

\* router.replace, or a link: the calls of the page that is left go on.
Goto(t, p, js) ==
    /\ tabPage' = [tabPage EXCEPT ![t] = p]
    /\ isCheckingAuth' = [isCheckingAuth EXCEPT ![t] = TRUE]
    /\ session' = [session EXCEPT ![t] = NoSession]
    /\ navSession' = IF p = "login" THEN [navSession EXCEPT ![t] = NoSession] ELSE navSession
    /\ sessionJobs' = {IF j.tab = t THEN [j EXCEPT !.active = FALSE] ELSE j : j \in js} \cup Opened(t, p)

UseSession == sessionUse > 0 /\ sessionUse' = sessionUse - 1 /\ UNCHANGED authItems

OpenTab(t, p) ==
    /\ p \notin {tabPage[t], "closed"} /\ UseSession /\ Goto(t, p, sessionJobs) /\ UNCHANGED refused

\* By the button, or by the Enter key, which works while a login is under way.
HandleLogin(t, k) ==
    /\ tabPage[t] = "login" /\ ~isCheckingAuth[t] /\ UseSession
    /\ sessionJobs' = sessionJobs \cup {NewJob(t, "login", "ask", k)} /\ UNCHANGED <<refused, tabVars>>

HandleLogout(t) ==
    /\ tabPage[t] # "login" /\ navSession[t] # NoSession /\ UseSession
    /\ sessionJobs' = sessionJobs \cup {NewJob(t, "logout", "clearKey", NoAuthKey)}
    /\ UNCHANGED <<refused, tabVars>>

\* A request of a page that is open is answered 401.
Unauthorized(t) ==
    /\ tabPage[t] \notin {"closed", "login"} /\ UseSession
    /\ sessionJobs' = sessionJobs \cup {NewJob(t, "unauthorized", "clearKey", NoAuthKey)}
    /\ UNCHANGED <<refused, tabVars>>

Revoke(k) ==
    /\ k \notin refused /\ UseSession /\ refused' = refused \cup {k}
    /\ UNCHANGED <<tabVars, sessionJobs>>

(***************************************************************************)
(* What a call that is over, with session s, does to its tab: at once, as  *)
(* the storage's answer runs all that waits for it.                        *)
(***************************************************************************)
Ends(j) == sessionJobs' = sessionJobs \ {j}

\* The page was left: its validation has no effect on the tab.
LeftEnds(j) == j.who \in Validations /\ ~j.active /\ Ends(j) /\ UNCHANGED tabVars

NavEnds(j, s) ==
    /\ j.who = "nav" /\ j.active /\ Ends(j)
    /\ navSession' = [navSession EXCEPT ![j.tab] = s]
    /\ UNCHANGED <<tabPage, isCheckingAuth, session>>

\* The page stays when it is for the role.
GuardEnds(j, s) ==
    /\ j.who = "guard" /\ j.active
    /\ IF s = NoSession THEN Goto(j.tab, "login", sessionJobs \ {j})
       ELSE IF tabPage[j.tab] = "admin" /\ s.role # "admin"
       THEN Goto(j.tab, DefaultPage(s), sessionJobs \ {j})
       ELSE /\ isCheckingAuth' = [isCheckingAuth EXCEPT ![j.tab] = FALSE]
            /\ session' = [session EXCEPT ![j.tab] = s]
            /\ Ends(j) /\ UNCHANGED <<tabPage, navSession>>

RedirectEnds(j, s) ==
    /\ j.who = "redirect" /\ j.active
    /\ IF s # NoSession THEN Goto(j.tab, DefaultPage(s), sessionJobs \ {j})
       ELSE /\ isCheckingAuth' = [isCheckingAuth EXCEPT ![j.tab] = FALSE]
            /\ Ends(j) /\ UNCHANGED <<tabPage, session, navSession>>

\* Neither a login nor a logout asks whether its page was left.
GoesTo(j, p) ==
    IF tabPage[j.tab] = p THEN Ends(j) /\ UNCHANGED tabVars ELSE Goto(j.tab, p, sessionJobs \ {j})
LoginEnds(j, s) == j.who = "login" /\ GoesTo(j, DefaultPage(s))
LogoutEnds(j) == j.who = "logout" /\ GoesTo(j, "login")

\* window.location.replace loads the login page anew: no call of the tab goes
\* on.
UnauthorizedEnds(j) ==
    j.who = "unauthorized" /\ Goto(j.tab, "login", {o \in sessionJobs : o.tab # j.tab})

Finishes(j, s) ==
    \/ LeftEnds(j) \/ NavEnds(j, s) \/ GuardEnds(j, s) \/ RedirectEnds(j, s)
    \/ LoginEnds(j, s) \/ LogoutEnds(j) \/ UnauthorizedEnds(j)

(***************************************************************************)
(* getStoredAuthSession: the session's key wins.                           *)
(***************************************************************************)
Stays == UNCHANGED <<refused, tabVars, sessionUse>>

ReadKey(j) ==
    /\ Runs(j, "readKey") /\ Goes(j, [j EXCEPT !.step = "readSession", !.read = keyItem])
    /\ UNCHANGED authItems /\ Stays

ReadSession(j) ==
    /\ Runs(j, "readSession") /\ UNCHANGED <<authItems, refused, sessionUse>>
    /\ IF sessionItem = NoSession /\ j.read = NoAuthKey THEN Finishes(j, NoSession)
       ELSE /\ Goes(j, [j EXCEPT !.read = NoAuthKey, !.session = sessionItem,
                                 !.step = IF sessionItem = NoSession THEN "clearKey"
                                          ELSE IF j.read = sessionItem.key THEN "ask"
                                          ELSE "repair"])
            /\ UNCHANGED tabVars

RepairKey(j) ==
    /\ Runs(j, "repair") /\ Goes(j, [j EXCEPT !.step = "ask"])
    /\ keyItem' = j.session.key /\ UNCHANGED sessionItem /\ Stays

(***************************************************************************)
(* The validation, or the login: the service is asked for the role of the  *)
(* key.                                                                    *)
(***************************************************************************)
\* The key the request is made with: that of its own header.
Asked(j) == j.session.key

Accepted(j) ==
    /\ Runs(j, "ask") /\ Asked(j) \notin refused
    /\ Goes(j, [j EXCEPT !.step = "writeKey", !.session.role = RoleOf[Asked(j)]])
    /\ UNCHANGED authItems /\ Stays

\* Any error logs out, except on the login page.
AskFails(j) ==
    /\ Runs(j, "ask")
    /\ IF Asked(j) \in refused THEN UNCHANGED sessionUse
       ELSE sessionUse > 0 /\ sessionUse' = sessionUse - 1
    /\ IF j.who = "login" THEN sessionJobs' = sessionJobs \ {j}
       ELSE Goes(j, [j EXCEPT !.step = "clearKey", !.session = NoSession])
    /\ UNCHANGED <<authItems, refused, tabVars>>

WriteKey(j) ==
    /\ Runs(j, "writeKey") /\ Goes(j, [j EXCEPT !.step = "writeSession"])
    /\ keyItem' = j.session.key /\ UNCHANGED sessionItem /\ Stays

WriteSession(j) ==
    /\ Runs(j, "writeSession") /\ Finishes(j, j.session)
    /\ sessionItem' = j.session /\ UNCHANGED <<keyItem, refused, sessionUse>>

ClearKey(j) ==
    /\ Runs(j, "clearKey") /\ Goes(j, [j EXCEPT !.step = "clearSession"])
    /\ keyItem' = NoAuthKey /\ UNCHANGED sessionItem /\ Stays

ClearSession(j) ==
    /\ Runs(j, "clearSession") /\ Finishes(j, NoSession)
    /\ sessionItem' = NoSession /\ UNCHANGED <<keyItem, refused, sessionUse>>

SessionUser ==
    \/ \E t \in Tabs, p \in Pages : OpenTab(t, p)
    \/ \E t \in Tabs, k \in AuthKeys : HandleLogin(t, k)
    \/ \E t \in Tabs : HandleLogout(t) \/ Unauthorized(t)
    \/ \E k \in AuthKeys : Revoke(k)

JobSteps ==
    \E j \in sessionJobs :
        \/ ReadKey(j) \/ ReadSession(j) \/ RepairKey(j) \/ Accepted(j) \/ AskFails(j)
        \/ WriteKey(j) \/ WriteSession(j) \/ ClearKey(j) \/ ClearSession(j)

SessionNext == SessionUser \/ JobSteps
SessionSpec == SessionInit /\ [][SessionNext]_sessionVars

\* The storage and the service answer.
FairSessionSpec == SessionSpec /\ WF_sessionVars(JobSteps)

SessionTypeOK ==
    /\ keyItem \in AuthKeys \cup {NoAuthKey} /\ sessionItem \in Sessions /\ refused \subseteq AuthKeys
    /\ tabPage \in [Tabs -> Pages] /\ isCheckingAuth \in [Tabs -> BOOLEAN]
    /\ {session, navSession} \subseteq [Tabs -> Sessions]
    /\ sessionJobs \in SUBSET SessionJob /\ sessionUse \in Nat

\* Whatever validations, logins and logouts of several tabs overlap, nobody
\* has the role of another key: what is stored and what a page and the bar
\* show is a key with the role the service has for it.
SessionIsWhole ==
    \A s \in {sessionItem} \cup {session[t] : t \in Tabs} \cup {navSession[t] : t \in Tabs} :
        s = SessionOf(s.key)

\* While one tab only is open, every page comes to an end of its validation,
\* redirections included.  Two tabs can send each other from page to page for
\* ever, as one that reads between the two writes of the other clears both.
SessionSettled ==
    Cardinality({t \in Tabs : tabPage[t] # "closed"}) =< 1 => \A t \in Tabs : ~isCheckingAuth[t]
SessionSettles == <>[]SessionSettled
=============================================================================
