--------------------------- MODULE MCSupportChat ---------------------------
(* Small instances of SupportChat. *)
EXTENDS SupportChat, TLC
CONSTANTS p1, p2, s1, u1, u2, u3, t1, t2, t3
MCProcs == {p1, p2}
MCChats == {s1}
MCUsers == {u1, u2, u3}
MCThreadIds == {t1, t2}
MCDeployments == {"bridge", "core"}
Interchangeable == Permutations(Procs) \cup Permutations(Users) \cup Permutations(ThreadIds)
=============================================================================
