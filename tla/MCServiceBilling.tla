-------------------------- MODULE MCServiceBilling --------------------------
(* Small instances of ServiceBilling. *)
EXTENDS ServiceBilling, TLC
CONSTANTS p1, p2, s1, s2, c1
MCProcs == {p1, p2}
MCServices == {s1, s2}
MCCustomerOf == [s \in {s1, s2} |-> c1]
MCMonthsOf == (s1 :> 1) @@ (s2 :> 2)
=============================================================================
