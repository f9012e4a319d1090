----------------------------- MODULE MCMailSync -----------------------------
(* A small instance of MailSync: one account with one mailbox, one         *)
(* conversation, known to be with a customer.                              *)
EXTENDS MailSync
CONSTANTS p1, p2, a1, inbox, hello, c1, c2, none
MCProcs == {p1}
TwoProcs == {p1, p2}
MCAccounts == {a1}
MCNames == {inbox}
MCSubjects == {hello}
MCSettings == {"old", "new"}
MCCustomers == {c1, c2}
MCCorrespondent == [s \in Subjects |-> c1]
=============================================================================
