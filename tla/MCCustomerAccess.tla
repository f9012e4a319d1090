-------------------------- MODULE MCCustomerAccess --------------------------
EXTENDS CustomerAccess, TLC

CONSTANTS c1, c2, i1, i2, r1, o1, o2

\* What the form may send: no provisioning, a router only, both, another address.
MCEdits == {[router |-> None, ip |-> None, mac |-> FALSE],
            [router |-> r1, ip |-> None, mac |-> TRUE],
            [router |-> r1, ip |-> i1, mac |-> TRUE],
            [router |-> r1, ip |-> i2, mac |-> FALSE]}

MCSymmetry == Permutations({c1, c2}) \cup Permutations({o1, o2})
=============================================================================
