----------------------------- MODULE MCWebPages -----------------------------
(***************************************************************************)
(* WebPages for TLC: the sets of first states and of uses it starts from.  *)
(***************************************************************************)
EXTENDS WebPages, TLC

CONSTANTS s1, s2, k1, k2

TwoAccounts == {<<"abnormal", "normal">>}
TheAccountUses == {<<2, 0>>, <<1, 2>>, <<0, 6>>}
BothIdle == {[s \in {s1, s2} |-> "idle"]}
TheConnectionUses == {<<4, 0>>, <<3, 1>>}
TheRegisters ==
    {<<{"main"}, 3, TRUE>>, <<{"main"}, 3, FALSE>>, <<{"main", "new"}, 1, TRUE>>,
     <<{"main", "new"}, 1, FALSE>>, <<{"main", "gptfree"}, 1, TRUE>>,
     <<{"main", "gptfree"}, 1, FALSE>>}
TabsOfTests == [op \in {"testBackup", "testRuntime"} |-> IF op = "testBackup" THEN "backup" ELSE "proxy"]
TheFormUses == {<<2, 0, {}>>, <<1, 1, BackupKeys>>, <<0, 3, BackupKeys>>}
TheListUses == {<<3, 0>>, <<2, 1>>}
OneAdmin == [k \in {k1, k2} |-> IF k = k1 THEN "admin" ELSE "user"]
TheSessions == {<<k1, {1}, 2>>, <<k1, {}, 2>>, <<k2, {1}, 1>>}
TwoInTurn == [mode |-> "total", target |-> 2, threads |-> 1]
TwoAtOnce == [mode |-> "total", target |-> 2, threads |-> 2]
OnlyOne == [mode |-> "total", target |-> 1, threads |-> 1]
OneInPool == [mode |-> "available", target |-> 1, threads |-> 2]
TheSchedules == {<<{TwoInTurn}, 3>>, <<{TwoAtOnce, OnlyOne}, 2>>, <<{OnlyOne, OneInPool}, 2>>}
=============================================================================
