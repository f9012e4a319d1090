------------------------------- MODULE MCIptv -------------------------------
(* A small instance of Iptv. *)
EXTENDS Iptv, TLC
CONSTANTS p1, p2, b1, s1, s2, k1, k2, k3, g1, g2, c1, t1, t2, n1, n2, v1
TwoClerks == {p1, p2}
OneBox == {b1}
TwoSubs == {s1, s2}
ThreeKeys == {k1, k2, k3}
TwoPackages == {g1, g2}
OneChannel == {c1}
OneProvider == {v1}
TwoStacks == {t1, t2}
TwoNodes == {n1, n2}
Interchangeable == Permutations(TwoClerks) \cup Permutations(Subs) \cup Permutations(Keys)
    \cup Permutations(Packages) \cup Permutations(Stacks) \cup Permutations(Nodes)
=============================================================================
