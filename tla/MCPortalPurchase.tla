-------------------------- MODULE MCPortalPurchase --------------------------
(* Small instances of PortalPurchase: two submissions of one customer. *)
EXTENDS PortalPurchase
CONSTANTS c1, s1, s2, r1, r2, p1
MCCustomers == {c1}
OneSession == {s1}
TwoRequests == {r1, r2}
MCPlans == {p1}
MCAmounts == {1, 2}
MCCorrections == {-1, 2}
=============================================================================
