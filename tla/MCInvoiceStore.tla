--------------------------- MODULE MCInvoiceStore ---------------------------
(* Small instances of InvoiceStore. *)
EXTENDS InvoiceStore, TLC
CONSTANTS p1, p2, i1, i2, k1
TwoProcs == {p1, p2}
TwoInvoices == {i1, i2}
OneItem == {k1}
MixedRates == {[qty |-> 1, gross |-> 50, vat |-> 9, net |-> 0],
               [qty |-> 2, gross |-> -7, vat |-> 0, net |-> 0]}
Interchangeable == Permutations(Procs) \cup Permutations(ItemIds)
=============================================================================
