------------------------------- MODULE Tables -------------------------------
(***************************************************************************)
(* A table is a function of the ids of its rows.                           *)
(***************************************************************************)

\* Save of gorm: the whole row replaces that of its id, or is inserted.
Put(f, id, x) == [i \in DOMAIN f \cup {id} |-> IF i = id THEN x ELSE f[i]]

\* Delete by id; nothing happens when there is no such row.
Drop(f, id) == [i \in DOMAIN f \ {id} |-> f[i]]
=============================================================================
