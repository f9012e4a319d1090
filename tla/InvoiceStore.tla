---------------------------- MODULE InvoiceStore ----------------------------
(***************************************************************************)
(* The invoices of internal/modules/invoice and everything that writes     *)
(* them: the editing commands, finalize, mark paid, void, the generation   *)
(* from services and the dunning run.  Each command reads an invoice in    *)
(* one transaction, changes its copy and saves the whole copy in another,  *)
(* with no version check, so commands of different processes interleave    *)
(* between their two transactions.                                         *)
(***************************************************************************)
EXTENDS InvoiceLine, FiniteSets, Functions

CONSTANTS
    Procs,          \* HTTP requests and cron runs that may be under way
    InvoiceIds, ItemIds,
    Lines,          \* line inputs, not priced yet
    MaxNew,         \* bound: lines of a created invoice
    Term,           \* payment term of a generated invoice, in ticks
    Interval,       \* minimum time between two reminders, in ticks
    MaxTime,        \* bound: the clock
    MaxCodes        \* bound: codes drawn

\* A line as entered, and its net price (unit_price) since Recalculate.
Line == [qty: Nat, gross: Int, vat: Int, net: Int]

\* A quantity of 0 is made 1 where it is entered.
ASSUME LinesAssumption == Lines \subseteq Line /\ \A l \in Lines : l.qty > 0
ASSUME IdsAssumption == InvoiceIds # {} /\ IsFiniteSet(ItemIds)
ASSUME TimeAssumption == {Term, Interval, MaxTime, MaxNew, MaxCodes} \subseteq Nat

VARIABLES
    rows,           \* invoices with their items, by id; absent ids have no row
    seq,            \* invoice_code_sequences.last_number
    pc,             \* what each process is about to do
    target,         \* the invoice it works on
    copy,           \* its in-memory copy of that invoice
    todo,           \* overdue invoices a dunning run has still to look at
    usedItems,      \* line item ids given out (uuids)
    now,            \* the clock
    mailed,         \* history: when the last reminder went out, per invoice
    stale,          \* history: <<p, i>> when the copy p holds of i is out of date
    undated         \* history: invoices whose last reminder left no date

procVars == <<pc, target, copy, todo>>
history == <<mailed, stale, undated>>
vars == <<rows, seq, procVars, usedItems, now, history>>

Never == -1
Times == 0..MaxTime
Statuses == {"draft", "finalized", "paid", "void"}

\* An invoice; its items are a function from the ids of the lines to the lines.
\* TotalsMatchItems says what sub, vat and total are.
Fields == {"code", "status", "items", "sub", "vat", "total", "due", "paidAt", "reminder"}

IsInvoice(inv) ==
    /\ DOMAIN inv = Fields
    /\ inv.code \in Nat /\ inv.status \in Statuses
    /\ DOMAIN inv.items \subseteq ItemIds
    /\ \A k \in DOMAIN inv.items : inv.items[k] \in Line
    /\ inv.due \in Nat /\ inv.paidAt \in BOOLEAN /\ inv.reminder \in {Never} \cup Nat

-----------------------------------------------------------------------------
(* The aggregate *)

SumItems(items, Amount(_)) ==
    SumFunctionOnSet([k \in DOMAIN items |-> Amount(items[k])], DOMAIN items)

Recalculate(inv) ==
    LET items == [k \in DOMAIN inv.items |-> Price(inv.items[k])] IN
    [inv EXCEPT !.items = items,
                !.sub = SumItems(items, TotalPrice),
                !.vat = SumItems(items, TotalVAT),
                !.total = SumItems(items, TotalGross)]

NewInvoice(code, items, due) ==
    Recalculate([code |-> code, status |-> "draft", items |-> items, sub |-> 0,
                 vat |-> 0, total |-> 0, due |-> due, paidAt |-> FALSE,
                 reminder |-> Never])

NoInvoice == NewInvoice(0, [k \in {} |-> CHOOSE l \in Lines : TRUE], 0)

\* The column vat_rate has the default 21, and the mapper writes the default of
\* a column in place of a zero when it inserts a row: save inserts every line.
\* The prices stored with it are those of the rate 0.
ColumnDefaults(l) == IF l.vat = 0 THEN [l EXCEPT !.vat = 21] ELSE l

Saved(inv) == [inv EXCEPT !.items = [k \in DOMAIN @ |-> ColumnDefaults(@[k])]]

NoTarget == CHOOSE i \in InvoiceIds : TRUE

IsOverdue(inv) == inv.status = "finalized" /\ now > inv.due

\* Slip: the last reminder is not looked at.
NeedsReminderAlways(inv) == IsOverdue(inv)

NeedsReminder(inv) ==
    IsOverdue(inv) /\ (inv.reminder = Never \/ now - inv.reminder >= Interval)

-----------------------------------------------------------------------------
(* Commands: read and change the copy in one step, save it in a later one *)

Work(p, i, inv) ==
    /\ pc' = [pc EXCEPT ![p] = "saving"]
    /\ target' = [target EXCEPT ![p] = i]
    /\ copy' = [copy EXCEPT ![p] = inv]
    /\ stale' = stale \ {<<p, i>>}
    /\ UNCHANGED <<mailed, undated>>

FreshItems == ItemIds \ usedItems

\* Slip: the code is taken from the number of invoices.
CreateByCount(p, i, items, due) ==
    /\ pc[p] = "idle" /\ seq < MaxCodes
    /\ i \notin DOMAIN rows /\ \A q \in Procs : pc[q] = "saving" => target[q] # i
    /\ seq' = seq + 1
    /\ usedItems' = usedItems \cup DOMAIN items
    /\ Work(p, i, NewInvoice(Cardinality(DOMAIN rows) + 1, items, due))
    /\ UNCHANGED <<rows, todo, now>>

\* NextCode commits the sequence in a transaction of its own before the new
\* invoice is saved: a save that fails leaves a gap.
Create(p, i, items, due) ==
    /\ pc[p] = "idle" /\ seq < MaxCodes
    /\ i \notin DOMAIN rows /\ \A q \in Procs : pc[q] = "saving" => target[q] # i
    /\ seq' = seq + 1
    /\ usedItems' = usedItems \cup DOMAIN items
    /\ Work(p, i, NewInvoice(seq + 1, items, due))
    /\ UNCHANGED <<rows, todo, now>>

\* The user picks the due date.
CreateInvoice(p, i) ==
    \E S \in SUBSET FreshItems : \E items \in [S -> Lines], due \in Times :
        Cardinality(S) <= MaxNew /\ Create(p, i, items, due)

\* One line of quantity 1 per service, all with one VAT rate, never 0.  With no
\* subscription the invoice is empty.
Generate(p, i) ==
    \E S \in SUBSET FreshItems : \E items \in [S -> {l \in Lines : l.qty = 1 /\ l.vat > 0}] :
        /\ Cardinality(S) <= MaxNew
        /\ \A x, y \in S : items[x].vat = items[y].vat
        /\ Create(p, i, items, now + Term)

\* A command on a stored invoice: inv is its changed copy.
Change(p, i, inv) ==
    /\ pc[p] = "idle"
    /\ Work(p, i, inv)
    /\ UNCHANGED <<rows, seq, todo, now>>

WithItems(inv, items) == Recalculate([inv EXCEPT !.items = items])

AddLineItem(p, i) ==
    \E k \in FreshItems, l \in Lines :
        /\ rows[i].status = "draft"
        /\ usedItems' = usedItems \cup {k}
        /\ Change(p, i, WithItems(rows[i],
              [x \in DOMAIN rows[i].items \cup {k} |->
                  IF x = k THEN l ELSE rows[i].items[x]]))

\* Slip: the totals are left as they were.
UpdateLineItemOnly(p, i) ==
    \E k \in DOMAIN rows[i].items, l \in Lines :
        /\ rows[i].status = "draft"
        /\ Change(p, i, [rows[i] EXCEPT !.items[k] = l])
        /\ UNCHANGED usedItems

UpdateLineItem(p, i) ==
    \E k \in DOMAIN rows[i].items, l \in Lines :
        /\ rows[i].status = "draft"
        /\ Change(p, i, WithItems(rows[i], [rows[i].items EXCEPT ![k] = l]))
        /\ UNCHANGED usedItems

RemoveLineItem(p, i) ==
    \E k \in DOMAIN rows[i].items :
        /\ rows[i].status = "draft"
        /\ Change(p, i, WithItems(rows[i],
                                  Restrict(rows[i].items, DOMAIN rows[i].items \ {k})))
        /\ UNCHANGED usedItems

\* Slip: an empty invoice can be finalized.
FinalizeEmpty(p, i) ==
    /\ rows[i].status = "draft"
    /\ Change(p, i, [Recalculate(rows[i]) EXCEPT !.status = "finalized"])
    /\ UNCHANGED usedItems

\* Slip: the amounts are taken as they are stored.
FinalizeAsStored(p, i) ==
    /\ rows[i].status = "draft" /\ DOMAIN rows[i].items # {}
    /\ Change(p, i, [rows[i] EXCEPT !.status = "finalized"])
    /\ UNCHANGED usedItems

Finalize(p, i) ==
    /\ rows[i].status = "draft" /\ DOMAIN rows[i].items # {}
    /\ Change(p, i, [Recalculate(rows[i]) EXCEPT !.status = "finalized"])
    /\ UNCHANGED usedItems

\* Also what the payment import does for each confirmed match.
MarkPaid(p, i) ==
    /\ rows[i].status = "finalized"
    /\ Change(p, i, [rows[i] EXCEPT !.status = "paid", !.paidAt = TRUE])
    /\ UNCHANGED usedItems

\* Slip: only an invoice already void is refused.
VoidAnytime(p, i) ==
    /\ rows[i].status # "void"
    /\ Change(p, i, [rows[i] EXCEPT !.status = "void"])
    /\ UNCHANGED usedItems

Void(p, i) ==
    /\ rows[i].status \in {"draft", "finalized"}
    /\ Change(p, i, [rows[i] EXCEPT !.status = "void"])
    /\ UNCHANGED usedItems

-----------------------------------------------------------------------------
(* The dunning run *)

ListOverdue == {i \in DOMAIN rows : rows[i].status = "finalized" /\ rows[i].due < now}

DunningStart(p) ==
    /\ pc[p] = "idle" /\ ListOverdue # {}
    /\ pc' = [pc EXCEPT ![p] = "dunning"]
    /\ todo' = [todo EXCEPT ![p] = Restrict(rows, ListOverdue)]
    /\ stale' = {s \in stale : s[1] # p}
    /\ UNCHANGED <<rows, seq, target, copy, usedItems, now, mailed, undated>>

Without(f, i) == Restrict(f, DOMAIN f \ {i})

Forget(p) ==
    /\ target' = [target EXCEPT ![p] = NoTarget]
    /\ copy' = [copy EXCEPT ![p] = NoInvoice]

AfterInvoice(p, i) ==
    /\ todo' = [todo EXCEPT ![p] = Without(@, i)]
    /\ pc' = [pc EXCEPT ![p] = IF DOMAIN todo[p] = {i} THEN "idle" ELSE "dunning"]

\* The listed copy needs no reminder any more, its customer has no address or
\* the mail is refused.
DunningSkip(p, i) ==
    /\ pc[p] = "dunning" /\ i \in DOMAIN todo[p]
    /\ AfterInvoice(p, i)
    /\ UNCHANGED <<rows, seq, target, copy, usedItems, now, history>>

DunningMail(p, i) ==
    /\ pc[p] = "dunning" /\ i \in DOMAIN todo[p]
    /\ NeedsReminder(todo[p][i])
    /\ mailed' = [mailed EXCEPT ![i] = now]
    /\ pc' = [pc EXCEPT ![p] = "mailed"]
    /\ target' = [target EXCEPT ![p] = i]
    /\ UNCHANGED <<rows, seq, copy, todo, usedItems, now, stale, undated>>

\* The other copies of an invoice are out of date once one has been saved.
Outdate(p, i) ==
    stale' = (stale \ {<<p, i>>}) \cup
             {<<q, i>> : q \in {r \in Procs \ {p} : i \in DOMAIN todo[r] \cup {target[r]}}}

\* MarkReminderSent and Save, both on the copy listed at the start.
DunningSave(p) ==
    LET i == target[p]
        inv == [todo[p][i] EXCEPT !.reminder = now]
    IN  /\ pc[p] = "mailed"
        /\ rows' = [rows EXCEPT ![i] = Saved(inv)]
        /\ AfterInvoice(p, i)
        /\ Forget(p)
        /\ Outdate(p, i)
        /\ undated' = undated \ {i}
        /\ UNCHANGED <<seq, usedItems, now, mailed>>

\* The reminder is out but saving fails: the run goes on with the next one.
DunningSaveFails(p) ==
    /\ pc[p] = "mailed"
    /\ AfterInvoice(p, target[p])
    /\ Forget(p)
    /\ undated' = undated \cup {target[p]}
    /\ UNCHANGED <<rows, seq, usedItems, now, mailed, stale>>

-----------------------------------------------------------------------------
(* Saving, giving up and time *)

\* The whole copy replaces the row and all its items; the unique index on the
\* code lets no other invoice have it.
Store(p) ==
    /\ pc[p] = "saving"
    /\ \A i \in DOMAIN rows : rows[i].code = copy[p].code => i = target[p]
    /\ rows' = [x \in DOMAIN rows \cup {target[p]} |->
                   IF x = target[p] THEN Saved(copy[p]) ELSE rows[x]]
    /\ pc' = [pc EXCEPT ![p] = "idle"]
    /\ Forget(p)
    /\ Outdate(p, target[p])
    /\ undated' = undated \cup {i \in {target[p]} : <<p, i>> \in stale}
    /\ UNCHANGED <<seq, todo, usedItems, now, mailed>>

\* The request is cancelled, the transaction fails or the process dies.
GiveUp(p) ==
    /\ pc[p] # "idle"
    /\ pc' = [pc EXCEPT ![p] = "idle"]
    /\ todo' = [todo EXCEPT ![p] = Restrict(@, {})]
    /\ Forget(p)
    /\ undated' = undated \cup {i \in {target[p]} : pc[p] = "mailed"}
    /\ UNCHANGED <<rows, seq, usedItems, now, mailed, stale>>

Tick ==
    /\ now < MaxTime
    /\ now' = now + 1
    /\ UNCHANGED <<rows, seq, procVars, usedItems, history>>

-----------------------------------------------------------------------------
Init ==
    /\ rows = [i \in {} |-> NoInvoice]
    /\ seq = 0
    /\ pc = [p \in Procs |-> "idle"]
    /\ target = [p \in Procs |-> NoTarget]
    /\ copy = [p \in Procs |-> NoInvoice]
    /\ todo = [p \in Procs |-> rows]
    /\ usedItems = {}
    /\ now = 0
    /\ mailed = [i \in InvoiceIds |-> Never]
    /\ stale = {} /\ undated = {}

Edit(p, i) == AddLineItem(p, i) \/ UpdateLineItem(p, i) \/ RemoveLineItem(p, i)

Transition(p, i) == Finalize(p, i) \/ MarkPaid(p, i) \/ Void(p, i)

Dunning(p) ==
    \/ DunningStart(p)
    \/ \E i \in InvoiceIds : DunningSkip(p, i) \/ DunningMail(p, i)
    \/ DunningSave(p)

Step(p) ==
    \/ \E i \in InvoiceIds : CreateInvoice(p, i) \/ Generate(p, i)
    \/ \E i \in DOMAIN rows : Edit(p, i) \/ Transition(p, i)
    \/ Dunning(p)
    \/ Store(p)

Next == Tick \/ \E p \in Procs : Step(p) \/ DunningSaveFails(p) \/ GiveUp(p)

Spec == Init /\ [][Next]_vars

-----------------------------------------------------------------------------
(* What holds whatever interleaves *)

\* Rows and copies are invoices.
TypeOK ==
    /\ DOMAIN rows \subseteq InvoiceIds
    /\ \A i \in DOMAIN rows : IsInvoice(rows[i])
    /\ seq \in Nat /\ now \in Nat
    /\ pc \in [Procs -> {"idle", "saving", "dunning", "mailed"}]
    /\ target \in [Procs -> InvoiceIds]
    /\ \A p \in Procs : IsInvoice(copy[p])
    /\ \A p \in Procs : DOMAIN todo[p] \subseteq DOMAIN rows
    /\ \A p \in Procs : \A i \in DOMAIN todo[p] : IsInvoice(todo[p][i])
    /\ \A p \in Procs : pc[p] = "mailed" => target[p] \in DOMAIN todo[p]

\* A stored invoice adds up: its amounts are those of the items stored with it,
\* at the prices stored with them, and net plus VAT is gross, though saves of
\* different commands replace each other.
TotalsMatchItems ==
    \A i \in DOMAIN rows :
        /\ rows[i].total = SumItems(rows[i].items, TotalGross)
        /\ rows[i].sub = SumItems(rows[i].items, TotalPrice)
        /\ rows[i].sub + rows[i].vat = rows[i].total

\* The net price of a line is its gross price less VAT at the line's rate, to
\* half a cent.
FitsRate(l) ==
    IF l.vat <= 0 THEN l.net = l.gross
    ELSE 2 * ((100 + l.vat) * l.net - 100 * l.gross) \in -(100 + l.vat)..(100 + l.vat)

\* Price and rate of a line entered without VAT, as its first save leaves them.
Defaulted(l) == l.vat = 21 /\ l.net = l.gross

\* The net price stored on a line fits the rate stored beside it, on every
\* invoice that went to a customer, whichever copy won.  On a draft, or one
\* voided as a draft, a line entered with 0 % has its gross price for net and
\* yet the rate 21; it is finalizing, which computes from the stored rates again
\* (invoice.go:164), that makes the two agree, at 21 %.
NetIsNearest ==
    \A i \in DOMAIN rows : \A k \in DOMAIN rows[i].items :
        LET l == rows[i].items[k]
        IN  FitsRate(l) \/ (rows[i].status \in {"draft", "void"} /\ Defaulted(l))

\* Codes are never given twice, neither to stored invoices nor to invoices
\* still on their way to the database.
CodesDistinct ==
    LET Pending == {p \in Procs : pc[p] = "saving"} IN
    /\ \A i, j \in DOMAIN rows : rows[i].code = rows[j].code => i = j
    /\ \A p \in Pending : \A i \in DOMAIN rows :
          rows[i].code = copy[p].code => i = target[p]
    /\ \A p, q \in Pending : copy[p].code = copy[q].code => target[p] = target[q]

\* What a customer is asked to pay has at least one line.
FinalizedHasItems ==
    \A i \in DOMAIN rows :
        rows[i].status \in {"finalized", "paid"} => DOMAIN rows[i].items # {}

\* The dates of an invoice fit its status, even when a stale copy replaced a
\* later state: it has a payment date exactly when it is paid (invoice.go:177),
\* and a draft has not been dunned, for a stale draft takes its dates along.
DatesFitStatus ==
    \A i \in DOMAIN rows :
        /\ rows[i].paidAt <=> rows[i].status = "paid"
        /\ rows[i].status = "draft" => rows[i].reminder = Never

\* Whichever copy won, no row is half of one state and half of another.
RowsInOrder == FinalizedHasItems /\ DatesFitStatus

-----------------------------------------------------------------------------
(* What only an out-of-date copy can break *)

Follows == {<<"draft", "finalized">>, <<"draft", "void">>,
            <<"finalized", "paid">>, <<"finalized", "void">>}

\* A row written from an up-to-date copy moves along the life cycle (paid and
\* void are final), and once it left the draft keeps its lines and its total.
Lifecycle ==
    [][\A p \in Procs, i \in DOMAIN rows :
          (Store(p) \/ DunningSave(p)) /\ target[p] = i /\ <<p, i>> \notin stale =>
              /\ \/ rows'[i].status = rows[i].status
                 \/ <<rows[i].status, rows'[i].status>> \in Follows
              /\ rows[i].status # "draft" =>
                    rows'[i].items = rows[i].items /\ rows'[i].total = rows[i].total]_vars

\* Two reminders for one invoice are at least the interval apart, unless the
\* first left no date, another run is about to save its date, or the run works
\* from a list that is out of date.
RemindersApart ==
    [][\A p \in Procs, i \in InvoiceIds :
          DunningMail(p, i) =>
              \/ mailed[i] = Never \/ now - mailed[i] >= Interval
              \/ i \in undated \/ <<p, i>> \in stale
              \/ \E q \in Procs : pc[q] = "mailed" /\ target[q] = i]_vars

=============================================================================
