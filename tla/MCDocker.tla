------------------------------ MODULE MCDocker ------------------------------
(***************************************************************************)
(* Two rows of one kind, which may share a name and a node, or an app      *)
(* beside a row of another kind, as its panic ends everybody's work.       *)
(***************************************************************************)
EXTENDS Docker, TLC

CONSTANTS p1, p2, d1, d2, k1, k2, v1, a1, a2, n1, m1, m2, w, x, y, A, B

MCBatches == {{d1, d2}, {k1, k2}, {a1, a2}, {v1, a1}, {v1, a2}}

\* The two rows of each kind change places together, and so do the two swarm
\* nodes, both managers, with the names of two apps.
Twins == d1 :> d2 @@ d2 :> d1 @@ k1 :> k2 @@ k2 :> k1 @@ a1 :> a2 @@ a2 :> a1
Places == m1 :> m2 @@ m2 :> m1 @@ x :> y @@ y :> x

MCSymmetry == Permutations({p1, p2}) \cup {Twins, Places}

\* Only an edit saves the status it has read; in another copy it does not matter.
WorkSeen(t) == IF t.op \in {"none", "edit"} THEN t ELSE [t EXCEPT !.row.status = "deploying"]

MCView ==
    <<listed, fresh, nodes, host, files, [p \in Requests |-> WorkSeen(work[p])],
      adrift, left, spent>>
=============================================================================
