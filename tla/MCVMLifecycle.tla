--------------------------- MODULE MCVMLifecycle ---------------------------
(* Small instances of VMLifecycle. *)
EXTENDS VMLifecycle
CONSTANTS p1, p2, v1, v2, c1, n1
MCProcs == {p1, p2}
MCVMs == {v1, v2}
MCCustomers == {c1}
MCNodes == {n1}
=============================================================================
