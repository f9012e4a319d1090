--------------------------- MODULE PrepaidBalance ---------------------------
(***************************************************************************)
(* The prepaid balance of internal/modules/billing: a cached balance per   *)
(* customer beside an append-only ledger, in one SQLite database whose     *)
(* writer has a single connection (gormsqlite.WriteTX), so that Credit and *)
(* Deduct are each one atomic step.  The commands TopUpBalance,            *)
(* DeductBalance and AdjustBalance end in exactly one of the two.          *)
(***************************************************************************)
EXTENDS Integers, Sequences, FiniteSets, Functions

CONSTANTS
    Customers,      \* customers that may hold a balance
    Sessions,       \* Stripe checkout session ids
    NoSession,      \* the empty stripe_session_id of a manual entry
    Amounts         \* positive amounts, in cents, of top-ups and purchases

ASSUME SessionAssumption == NoSession \notin Sessions
ASSUME AmountAssumption == Amounts \subseteq Nat \ {0}

VARIABLES
    balance,        \* customer_balance: its domain is the customers with a row
    ledger          \* balance_ledger, oldest entry first

billingVars == <<balance, ledger>>

EntryTypes == {"topup", "vm_purchase", "refund", "adjustment"}

Entry == [customer: Customers, type: EntryTypes, amount: Int,
          session: Sessions \cup {NoSession}]

-----------------------------------------------------------------------------
(* Queries *)

\* A customer without a row has a balance of 0.
GetBalance(c) == IF c \in DOMAIN balance THEN balance[c] ELSE 0

\* Slip: a plain index in place of the unique one.
NoUniqueIndex(s) == TRUE

\* The unique index on stripe_session_id covers the non-empty ids.
SessionFree(s) ==
    s # NoSession => \A i \in DOMAIN ledger : ledger[i].session # s

CanDeduct(c, a) == c \in DOMAIN balance /\ balance[c] >= a

-----------------------------------------------------------------------------
(* The two write transactions *)

Upsert(c, b) ==
    [x \in DOMAIN balance \cup {c} |-> IF x = c THEN b ELSE balance[x]]

\* Slip: the upsert's conflict clause sets the balance to the amount.
CreditOverwrites(c, a, type, s) ==
    /\ SessionFree(s)
    /\ ledger' = Append(ledger, [customer |-> c, type |-> type,
                                 amount |-> a, session |-> s])
    /\ balance' = Upsert(c, a)

\* One WriteTX: the ledger row first, then the balance; a session already in
\* the ledger makes the insert fail and the transaction roll back.
Credit(c, a, type, s) ==
    /\ SessionFree(s)
    /\ ledger' = Append(ledger, [customer |-> c, type |-> type,
                                 amount |-> a, session |-> s])
    /\ balance' = Upsert(c, GetBalance(c) + a)

\* One WriteTX: the balance is read inside the transaction.
Deduct(c, a, type) ==
    /\ CanDeduct(c, a)
    /\ ledger' = Append(ledger, [customer |-> c, type |-> type,
                                 amount |-> -a, session |-> NoSession])
    /\ balance' = [balance EXCEPT ![c] = @ - a]

-----------------------------------------------------------------------------
(* Commands *)

TopUp(c, a, s) == Credit(c, a, "topup", s)

DeductForVM(c, a) == Deduct(c, a, "vm_purchase")

\* A positive or zero adjustment is a top-up without a session, a negative
\* one a deduction.
Adjust(c, d) ==
    \/ d >= 0 /\ TopUp(c, d, NoSession)
    \/ d < 0 /\ Deduct(c, -d, "adjustment")

Adjustments == {0} \cup Amounts \cup {-a : a \in Amounts}

Init ==
    /\ balance = [c \in {} |-> 0]
    /\ ledger = <<>>

Next ==
    \E c \in Customers :
        \/ \E a \in Amounts, s \in Sessions : TopUp(c, a, s)
        \/ \E a \in Amounts : DeductForVM(c, a)
        \/ \E d \in Adjustments : Adjust(c, d)

Spec == Init /\ [][Next]_billingVars

-----------------------------------------------------------------------------
(* Properties *)

\* Rows and entries have their types and a cached balance is never negative.
TypeOK ==
    /\ ledger \in Seq(Entry)
    /\ DOMAIN balance \subseteq Customers
    /\ balance \in [DOMAIN balance -> Nat]

\* The unique index on stripe_session_id: however often a checkout session is
\* delivered, by whichever customer, one ledger entry at most carries it.
SessionCreditedOnce ==
    \A i, j \in DOMAIN ledger :
        ledger[i].session = ledger[j].session =>
            i = j \/ ledger[i].session = NoSession

\* A customer has a balance row exactly when some entry of the ledger is his,
\* so that Deduct refuses a customer nobody ever credited.
RowIffLedger ==
    DOMAIN balance = {ledger[i].customer : i \in DOMAIN ledger}

\* What an entry means to a customer's balance, and what the first n entries
\* of the ledger add up to for him.
Effect(e, c) == IF e.customer = c THEN e.amount ELSE 0

LedgerTotal(c, n) ==
    SumFunctionOnSet([i \in DOMAIN ledger |-> Effect(ledger[i], c)], 1..n)

\* The cached balance is the sum of the customer's ledger entries, so the
\* ledger can be audited against it and neither transaction leaves one of its
\* two writes behind.
BalanceIsLedgerSum ==
    \A c \in Customers : GetBalance(c) = LedgerTotal(c, Len(ledger))

\* Every prefix of the ledger is solvent: no debit was ever recorded that the
\* entries before it do not cover.
EveryPrefixSolvent ==
    \A c \in Customers : \A n \in DOMAIN ledger : LedgerTotal(c, n) >= 0

\* The two tables tell one story: the cached balances are the sums of the
\* ledger, it never overdrew, and only customers it knows have a row.
BooksBalance == BalanceIsLedgerSum /\ EveryPrefixSolvent /\ RowIffLedger

-----------------------------------------------------------------------------
(* What the component promises: a purse per customer. *)

Purse == INSTANCE Purse WITH
    money <- [c \in Customers |-> GetBalance(c)],
    credited <- {ledger[i].session : i \in DOMAIN ledger} \ {NoSession},
    deposits <- Cardinality({i \in DOMAIN ledger : ledger[i].session # NoSession})

\* Every transaction is a step of the abstract purse: money comes in, at most
\* once per card session, and goes out only while there is enough of it.
ImplementsPurse == Purse!Spec
=============================================================================
