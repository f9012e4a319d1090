----------------------------- MODULE MCCronJobs -----------------------------
(* Small instances of CronJobs. *)
EXTENDS CronJobs, TLC
CONSTANTS p1, p2, j1, j2
MCCallers == {p1, p2}
OneJob == {j1}
TwoJobs == {j1, j2}
MCSchedules == {1, 2}
BothDeployments == {"system cron", "daemon"}
TheDaemon == {"daemon"}
Interchangeable == Permutations(Callers) \cup Permutations(Jobs)
=============================================================================
