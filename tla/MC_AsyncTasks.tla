---------------------------- MODULE MC_AsyncTasks ----------------------------
(* Instances of AsyncTasks for TLC: a few handlers, two sessions, two tasks.  *)
EXTENDS AsyncTasks, TLC

CONSTANTS r1, r2, r3, s1, s2, t1, t2

TwoRequests == {r1, r2}
ThreeRequests == {r1, r2, r3}
TwoSessions == {s1, s2}
TwoTasks == {t1, t2}
BothRoutes == {"hinted", "meta"}

\* Nothing distinguishes one handler, session or task from another.
AllAlike == Permutations(ThreeRequests) \cup Permutations(TwoSessions) \cup Permutations(TwoTasks)
==============================================================================
