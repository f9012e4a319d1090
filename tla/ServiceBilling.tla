--------------------------- MODULE ServiceBilling ---------------------------
(***************************************************************************)
(* Recurring services (internal/modules/service) and the cron action that  *)
(* bills them, generate-due-invoices (cmd/server/billing_actions.go).  The *)
(* action writes one invoice for all due services of a customer and then   *)
(* moves each of them on by a cycle, from the copy it listed, in separate  *)
(* transactions; the commands on a service also save the copy they read.   *)
(* Time is counted in months.  A service's next billing date is its start  *)
(* plus as many cycles as it was moved on: "period" counts them.           *)
(***************************************************************************)
EXTENDS Naturals, FiniteSets

CONSTANTS
    Procs,          \* runs of the action and commands that may be under way
    Services,       \* ids (uuids)
    CustomerOf,     \* the customer each service is assigned to
    MonthsOf,       \* the length of the billing cycle of its product
    MaxTime,        \* bound: the last month
    MaxEvents       \* bound: commands, failures and crashes

ASSUME ServicesAssumption ==
    DOMAIN CustomerOf = Services /\ MonthsOf \in [Services -> Nat \ {0}]
ASSUME BoundsAssumption == {MaxTime, MaxEvents} \subseteq Nat

VARIABLES
    now,            \* the month
    rows,           \* customer_services, by id
    task,           \* what each process is at
    billed,         \* history: the periods on an invoice, as <<service, period>>
    twice,          \* history: the periods on more than one
    exposed,        \* history: services that two runs were billing at a time,
                    \* that were saved from a copy out of date, or that were
                    \* not moved on after their invoice
    events          \* commands, failures and crashes so far

vars == <<now, rows, task, billed, twice, exposed, events>>

Customers == {CustomerOf[s] : s \in Services}
Statuses == {"active", "suspended", "cancelled"}

\* NextBillingDate is nil in a row older than the column: period is 0.
Row == [status: Statuses, start: 0..MaxTime, months: Nat \ {0}, period: Nat]

NextBillingDate(row) == row.start + row.period * row.months

Idle == [kind |-> "none"]
IsIdle(p) == task[p].kind = "none"
\* The bound on what may disturb the runs.
HasEvent == events < MaxEvents /\ events' = events + 1

Become(p, t) == task' = [task EXCEPT ![p] = t]

-----------------------------------------------------------------------------
(* The repository *)

Save(s, row) == rows' = [t \in DOMAIN rows \cup {s} |-> IF t = s THEN row ELSE rows[t]]

IsDue(row) ==
    /\ row.status = "active"
    /\ row.period # 0
    /\ NextBillingDate(row) <= now

\* Slip: a date in the past is not looked for.
ListDueToday == {s \in DOMAIN rows : IsDue(rows[s]) /\ NextBillingDate(rows[s]) = now}

ListDueForBilling == {s \in DOMAIN rows : IsDue(rows[s])}

-----------------------------------------------------------------------------
(* Services *)

NewService(s, start) ==
    [status |-> "active", start |-> start, months |-> MonthsOf[s], period |-> 1]

\* The start date is the operator's and may lie in the past.  One to come is as
\* good as an assignment then.
AssignService(s) ==
    /\ s \notin DOMAIN rows
    /\ \E start \in 0..now : Save(s, NewService(s, start))
    /\ UNCHANGED <<now, task, billed, twice, exposed, events>>

AdvanceNextBillingDate(row) ==
    IF row.period = 0 THEN row ELSE [row EXCEPT !.period = @ + 1]

\* Slip: a service is reactivated whatever its status.
MayReactivateAny(status) == status # "active"

\* What a command asks of the status, and what it makes of it.
MaySuspend(status) == status = "active"
MayReactivate(status) == status = "suspended"
MayCancel(status) == status # "cancelled"

\* The command has read the row and changed the copy.
Load(p, s, status) ==
    /\ IsIdle(p)
    /\ s \in DOMAIN rows
    /\ Become(p, [kind |-> "command", service |-> s, read |-> rows[s],
                  row |-> [rows[s] EXCEPT !.status = status]])
    /\ HasEvent
    /\ UNCHANGED <<now, rows, billed, twice, exposed>>

Suspend(p, s) == s \in DOMAIN rows /\ MaySuspend(rows[s].status) /\ Load(p, s, "suspended")
Reactivate(p, s) == s \in DOMAIN rows /\ MayReactivate(rows[s].status) /\ Load(p, s, "active")
Cancel(p, s) == s \in DOMAIN rows /\ MayCancel(rows[s].status) /\ Load(p, s, "cancelled")

SaveCommand(p) ==
    /\ task[p].kind = "command"
    /\ Save(task[p].service, task[p].row)
    /\ exposed' = IF rows[task[p].service] # task[p].read
                   THEN exposed \cup {task[p].service} ELSE exposed
    /\ Become(p, Idle)
    /\ UNCHANGED <<now, billed, twice, events>>

-----------------------------------------------------------------------------
(* The action *)

\* copies: the due services as listed; left: the customers still to come;
\* invoiced: the services of the customer's invoice still to be moved on.
Run(copies, left, invoiced) ==
    IF left = {} /\ invoiced = {} THEN Idle
    ELSE [kind |-> "run", copies |-> copies, left |-> left, invoiced |-> invoiced]

IsRun(p) == task[p].kind = "run"

\* The services the run has yet to invoice or to move on.
InHand(p) ==
    IF IsRun(p) THEN {s \in DOMAIN task[p].copies : CustomerOf[s] \in task[p].left}
                     \cup task[p].invoiced
    ELSE {}

StartRun(p) ==
    /\ IsIdle(p)
    /\ LET due == ListDueForBilling IN
          /\ due # {}
          /\ Become(p, Run([s \in due |-> rows[s]], {CustomerOf[s] : s \in due}, {}))
          /\ exposed' = exposed \cup (due \cap UNION {InHand(q) : q \in Procs})
    /\ UNCHANGED <<now, rows, billed, twice, events>>

Group(p, c) == {s \in DOMAIN task[p].copies : CustomerOf[s] = c}

\* Slip: the services are moved on although there is no invoice.
SkipInvoiceOnly(p) ==
    /\ IsRun(p) /\ task[p].invoiced = {}
    /\ HasEvent
    /\ \E c \in task[p].left :
          Become(p, Run(task[p].copies, task[p].left \ {c}, Group(p, c)))
    /\ UNCHANGED <<now, rows, billed, twice, exposed>>

\* The customer is not found, or the invoice is not saved: on to the next.
SkipCustomer(p) ==
    /\ IsRun(p) /\ task[p].invoiced = {}
    /\ HasEvent
    /\ \E c \in task[p].left : Become(p, Run(task[p].copies, task[p].left \ {c}, {}))
    /\ UNCHANGED <<now, rows, billed, twice, exposed>>

\* GenerateFromServices: an invoice with a line for each of the services.
GenerateInvoice(p) ==
    /\ IsRun(p) /\ task[p].invoiced = {}
    /\ \E c \in task[p].left :
          LET copies == task[p].copies
              lines == {<<s, copies[s].period>> : s \in Group(p, c)}
          IN  /\ billed' = billed \cup lines
              /\ twice' = twice \cup (billed \cap lines)
              /\ Become(p, Run(copies, task[p].left \ {c}, Group(p, c)))
    /\ UNCHANGED <<now, rows, exposed, events>>

\* The services of the invoice, in the order they were listed.
NextInvoiced(p) ==
    {s \in task[p].invoiced : \A t \in task[p].invoiced :
        NextBillingDate(task[p].copies[s]) <= NextBillingDate(task[p].copies[t])}

Done(p, s) == Become(p, Run(task[p].copies, task[p].left, task[p].invoiced \ {s}))

\* Slip: only the first service of the invoice is moved on.
MoveFirstOn(p) ==
    /\ IsRun(p)
    /\ \E s \in NextInvoiced(p) :
          /\ Save(s, AdvanceNextBillingDate(task[p].copies[s]))
          /\ exposed' = IF rows[s] # task[p].copies[s] THEN exposed \cup {s} ELSE exposed
          /\ Become(p, Run(task[p].copies, task[p].left, {}))
    /\ UNCHANGED <<now, billed, twice, events>>

MoveOn(p) ==
    /\ IsRun(p)
    /\ \E s \in NextInvoiced(p) :
          /\ Save(s, AdvanceNextBillingDate(task[p].copies[s]))
          /\ exposed' = IF rows[s] # task[p].copies[s] THEN exposed \cup {s} ELSE exposed
          /\ Done(p, s)
    /\ UNCHANGED <<now, billed, twice, events>>

\* A save that fails is only logged.
FailToMoveOn(p) ==
    /\ IsRun(p)
    /\ HasEvent
    /\ \E s \in NextInvoiced(p) : Done(p, s) /\ exposed' = exposed \cup {s}
    /\ UNCHANGED <<now, rows, billed, twice>>

\* The process stops; or the run's 30 seconds are over, and every call that is
\* left fails.
Abandon(p) ==
    /\ ~IsIdle(p)
    /\ HasEvent
    /\ exposed' = IF IsRun(p) THEN exposed \cup task[p].invoiced ELSE exposed
    /\ Become(p, Idle)
    /\ UNCHANGED <<now, rows, billed, twice>>

-----------------------------------------------------------------------------

\* Time goes by between runs as between steps of one.
Tick ==
    /\ now < MaxTime
    /\ now' = now + 1
    /\ UNCHANGED <<rows, task, billed, twice, exposed, events>>

\* The first rows are those from before the column, if any.
Init ==
    /\ now = 0
    /\ \E old \in SUBSET Services :
          rows = [s \in old |-> [NewService(s, 0) EXCEPT !.period = 0]]
    /\ task = [p \in Procs |-> Idle]
    /\ billed = {} /\ twice = {} /\ exposed = {}
    /\ events = 0

RunStep(p) == GenerateInvoice(p) \/ MoveOn(p)

Failure(p) == SkipCustomer(p) \/ FailToMoveOn(p) \/ Abandon(p)

Command(p) ==
    \/ \E s \in Services : Suspend(p, s) \/ Reactivate(p, s) \/ Cancel(p, s)
    \/ SaveCommand(p)

Next ==
    \/ \E s \in Services : AssignService(s)
    \/ \E p \in Procs : Command(p) \/ StartRun(p) \/ RunStep(p) \/ Failure(p)
    \/ Tick

Spec == Init /\ [][Next]_vars

\* The system's cron starts the action again and again, and a run or command
\* goes on to its end.
Fairness ==
    /\ WF_vars(\E p \in Procs : StartRun(p))
    /\ \A p \in Procs : WF_vars(RunStep(p)) /\ WF_vars(SaveCommand(p))

FairSpec == Spec /\ Fairness

-----------------------------------------------------------------------------
(* Properties *)

IsTask(t) ==
    \/ t = Idle
    \/ /\ t.kind = "command"
       /\ t.service \in DOMAIN rows
       /\ t.read \in Row /\ t.row \in Row
    \/ /\ t.kind = "run"
       /\ DOMAIN t.copies \subseteq DOMAIN rows
       /\ \A s \in DOMAIN t.copies : t.copies[s] \in Row /\ t.copies[s].status = "active"
       /\ t.left \subseteq Customers
       /\ t.invoiced \subseteq DOMAIN t.copies

\* The type invariant.
TypeOK ==
    /\ now \in 0..MaxTime
    /\ DOMAIN rows \subseteq Services
    /\ \A s \in DOMAIN rows : rows[s] \in Row
    /\ \A p \in Procs : IsTask(task[p])
    /\ billed \subseteq Services \X Nat
    /\ twice \subseteq billed
    /\ exposed \subseteq Services
    /\ events \in 0..MaxEvents

\* A service is past a period only when that period is on an invoice, however
\* runs and commands overlap and wherever one of them fails or stops
\* (billing_actions.go:72: the date is moved on after the invoice is saved).
NothingSkipped ==
    \A s \in DOMAIN rows : \A n \in 1..(rows[s].period - 1) : <<s, n>> \in billed

\* A period is on two invoices only when a run did not get to move the service
\* on, another run had the service in hand at the time, or somebody saved a copy
\* of it that was out of date; and it is on none before its date has come,
\* whatever has become of the row since (billing_actions.go:29, 75).
BilledOnceWhenDue ==
    /\ \A bill \in twice : bill[1] \in exposed
    /\ \A s \in DOMAIN rows : \A n \in 1..(MaxTime + 1) :
          <<s, n>> \in billed => rows[s].start + n * rows[s].months <= now

\* A cancelled service stays cancelled, and its billing date where it is, unless
\* a copy out of date is saved over it (service.go:103).
CancelledForGood ==
    [][\A s \in DOMAIN rows :
          rows[s].status = "cancelled" /\ s \notin exposed' => rows'[s] = rows[s]]_vars

Overdue(s) == s \in DOMAIN rows /\ IsDue(rows[s])

\* A service that is behind catches up, a cycle a run, unless it is suspended
\* or cancelled meanwhile (billing_actions.go:73).
CatchesUp == \A s \in Services : Overdue(s) ~> ~Overdue(s)
=============================================================================
