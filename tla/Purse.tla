-------------------------------- MODULE Purse --------------------------------
(***************************************************************************)
(* What the prepaid balance promises a customer, without ledger or rows:   *)
(* a purse that never goes below zero, into which a card session pays at   *)
(* most once.                                                              *)
(***************************************************************************)
EXTENDS Integers

CONSTANTS Customers, Sessions, Amounts

VARIABLES
    money,      \* what each customer can spend
    credited,   \* the card sessions already paid in
    deposits    \* how many times a card paid in

purseVars == <<money, credited, deposits>>

PutIn(c, a) == money' = [money EXCEPT ![c] = @ + a]

PayIn(c, a, s) ==
    /\ s \notin credited
    /\ credited' = credited \cup {s}
    /\ deposits' = deposits + 1
    /\ PutIn(c, a)

Grant(c, a) == PutIn(c, a) /\ UNCHANGED <<credited, deposits>>

Spend(c, a) ==
    /\ money[c] >= a
    /\ money' = [money EXCEPT ![c] = @ - a]
    /\ UNCHANGED <<credited, deposits>>

Init == money = [c \in Customers |-> 0] /\ credited = {} /\ deposits = 0

Next ==
    \E c \in Customers, a \in Amounts :
        \/ \E s \in Sessions : PayIn(c, a, s)
        \/ Grant(c, a)
        \/ Spend(c, a)

Spec == Init /\ [][Next]_purseVars
==============================================================================
