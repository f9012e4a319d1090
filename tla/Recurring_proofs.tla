--------------------------- MODULE Recurring_proofs ---------------------------
(***************************************************************************)
(* What recurs: the services that are billed, and the jobs that run, for    *)
(* any number of them and of runs and commands that overlap.                *)
(* ServiceBilling: NothingSkipped is not inductive, for a row is written    *)
(* from copies, so the copies must be covered too, and what a run is about  *)
(* to move on must be on an invoice already.  CronJobs: a job runs once a   *)
(* minute because what a run has in hand is the row, in no other run's      *)
(* hand, and no command that is not out of date would make it due again.    *)
(***************************************************************************)
EXTENDS ServiceBilling, CronJobs, TLAPS

\* All periods before the row's are on invoices.
Covered(s, row) == \A n \in 1..(row.period - 1) : <<s, n>> \in billed

CoveredTask(t) ==
    /\ t.kind = "command" => Covered(t.service, t.row)
    /\ t.kind = "run" => \A s \in DOMAIN t.copies : Covered(s, t.copies[s])
    /\ t.kind = "run" => \A s \in t.invoiced : <<s, t.copies[s].period>> \in billed

GoodTask(t) == IsTask(t) /\ CoveredTask(t)

RowsOK ==
    /\ DOMAIN rows \subseteq Services
    /\ \A s \in DOMAIN rows : rows[s] \in Row /\ Covered(s, rows[s])

TasksOK == DOMAIN task = Procs /\ \A p \in Procs : GoodTask(task[p])

HistoryOK ==
    /\ billed \subseteq Services \X Nat
    /\ twice \subseteq billed
    /\ exposed \subseteq Services

CountersOK == now \in 0..MaxTime /\ events \in 0..MaxEvents

\* The inductive invariant.
IInv == RowsOK /\ TasksOK /\ HistoryOK /\ CountersOK

\* What a step may do to the rows and the history without harming the tasks
\* it does not touch.
Grows == DOMAIN rows \subseteq DOMAIN rows' /\ billed \subseteq billed'

-----------------------------------------------------------------------------

\* A row that covers its past may be saved.
LEMMA SaveKeepsRows ==
    ASSUME IInv, NEW s \in Services, NEW row \in Row, Save(s, row),
           billed \subseteq billed', Covered(s, row)'
    PROVE  RowsOK' /\ Grows
<1>1. DOMAIN rows' = DOMAIN rows \cup {s}
    BY DEF Save
<1>2. ASSUME NEW t \in DOMAIN rows' PROVE rows'[t] \in Row /\ Covered(t, rows[t])'
    <2>1. CASE t = s
        BY <2>1, <1>1 DEF Save, Covered
    <2>2. CASE t # s
        BY <2>2, <1>1 DEF Save, Covered, IInv, RowsOK
    <2> QED BY <2>1, <2>2
<1> QED BY <1>1, <1>2 DEF IInv, RowsOK, Grows

\* A step that leaves the rows alone keeps them in order.
LEMMA SameRows ==
    ASSUME IInv, rows' = rows, billed \subseteq billed'
    PROVE  RowsOK' /\ Grows
BY DEF IInv, RowsOK, Covered, Grows

\* A task stays good while rows and history grow.
LEMMA GoodStays ==
    ASSUME NEW t, GoodTask(t), Grows
    PROVE  GoodTask(t)'
BY DEF GoodTask, IsTask, CoveredTask, Covered, Grows

\* The tasks after a step that gives one process a good one.
LEMMA OneTaskChanges ==
    ASSUME IInv, Grows, NEW p \in Procs, NEW t, Become(p, t), GoodTask(t)'
    PROVE  TasksOK'
<1>1. DOMAIN task' = Procs
    BY DEF IInv, TasksOK, Become
<1>2. ASSUME NEW q \in Procs PROVE GoodTask(task[q])'
    <2>1. PICK u : u = task'[q]
        OBVIOUS
    <2>2. CASE q = p
        BY <2>1, <2>2 DEF IInv, TasksOK, Become, GoodTask, IsTask, CoveredTask, Covered
    <2>3. CASE q # p
        <3>1. u = task[q]
            BY <2>1, <2>3 DEF IInv, TasksOK, Become
        <3>2. GoodTask(u)
            BY <3>1 DEF IInv, TasksOK
        <3>3. GoodTask(u)'
            BY <3>2, GoodStays
        <3> QED BY <3>3, <2>1 DEF GoodTask, IsTask, CoveredTask, Covered
    <2> QED BY <2>2, <2>3
<1> QED BY <1>1, <1>2 DEF TasksOK

\* The tasks after a step that gives none a new one.
LEMMA SameTasks ==
    ASSUME IInv, Grows, task' = task
    PROVE  TasksOK'
<1>1. ASSUME NEW q \in Procs PROVE GoodTask(task[q])'
    <2>1. PICK u : u = task[q]
        OBVIOUS
    <2>2. GoodTask(u)'
        BY <2>1, GoodStays DEF IInv, TasksOK
    <2> QED BY <2>1, <2>2 DEF GoodTask, IsTask, CoveredTask, Covered
<1> QED BY <1>1 DEF IInv, TasksOK

\* An idle process has nothing to answer for.
LEMMA IdleIsGood == GoodTask(Idle)'
BY DEF GoodTask, IsTask, CoveredTask, Idle
\* A run in order, as it is given to a process.
LEMMA RunIsGood ==
    ASSUME NEW copies, NEW left, NEW invoiced,
           DOMAIN copies \subseteq DOMAIN rows',
           \A s \in DOMAIN copies :
               copies[s] \in Row /\ copies[s].status = "active" /\ Covered(s, copies[s])',
           left \subseteq Customers,
           invoiced \subseteq DOMAIN copies,
           \A s \in invoiced : <<s, copies[s].period>> \in billed'
    PROVE  GoodTask(Run(copies, left, invoiced))'
BY DEF GoodTask, IsTask, CoveredTask, Covered, Run, Idle

\* What holds of the run a process is at.
LEMMA RunFacts ==
    ASSUME IInv, NEW p \in Procs, IsRun(p)
    PROVE  /\ DOMAIN task[p].copies \subseteq DOMAIN rows
           /\ \A s \in DOMAIN task[p].copies :
                 /\ task[p].copies[s] \in Row
                 /\ task[p].copies[s].status = "active"
                 /\ Covered(s, task[p].copies[s])
           /\ task[p].left \subseteq Customers
           /\ task[p].invoiced \subseteq DOMAIN task[p].copies
           /\ \A s \in task[p].invoiced : <<s, task[p].copies[s].period>> \in billed
BY DEF IInv, TasksOK, GoodTask, IsTask, CoveredTask, IsRun, Idle

\* The next customer of a run, or its next service: the run stays in order.
LEMMA RunGoesOn ==
    ASSUME IInv, NEW p \in Procs, IsRun(p), Grows,
           NEW left, left \subseteq task[p].left,
           NEW invoiced, invoiced \subseteq DOMAIN task[p].copies,
           \A s \in invoiced : <<s, task[p].copies[s].period>> \in billed',
           Become(p, Run(task[p].copies, left, invoiced))
    PROVE  TasksOK'
<1>1. PICK copies : copies = task[p].copies
    OBVIOUS
<1>2. PICK t : t = Run(copies, left, invoiced)
    OBVIOUS
<1>3. /\ DOMAIN copies \subseteq DOMAIN rows'
      /\ \A s \in DOMAIN copies :
            copies[s] \in Row /\ copies[s].status = "active" /\ Covered(s, copies[s])'
      /\ left \subseteq Customers
    BY <1>1, RunFacts DEF Grows, Covered
<1>4. GoodTask(Run(copies, left, invoiced))'
    BY <1>1, <1>3, RunIsGood
<1>5. GoodTask(t)'
    BY <1>2, <1>4 DEF GoodTask, IsTask, CoveredTask, Covered, Run
<1>6. Become(p, t)
    BY <1>1, <1>2
<1> QED BY <1>5, <1>6, OneTaskChanges

-----------------------------------------------------------------------------

LEMMA InitHolds == Init => IInv
<1> SUFFICES ASSUME Init PROVE IInv
    OBVIOUS
<1>1. RowsOK
    <2>1. PICK old \in SUBSET Services :
              rows = [s \in old |-> [NewService(s, 0) EXCEPT !.period = 0]]
        BY DEF Init
    <2>2. \A s \in old : rows[s] \in Row
        BY <2>1, BoundsAssumption, ServicesAssumption DEF NewService, Row, Statuses
    <2>3. \A s \in old : rows[s].period = 0
        BY <2>1 DEF NewService
    <2> QED BY <2>1, <2>2, <2>3 DEF RowsOK, Covered
<1>2. TasksOK
    BY DEF Init, TasksOK, GoodTask, IsTask, CoveredTask, Idle
<1>3. HistoryOK /\ CountersOK
    BY BoundsAssumption DEF Init, HistoryOK, CountersOK
<1> QED BY <1>1, <1>2, <1>3 DEF IInv

LEMMA AssignHolds ==
    ASSUME IInv, NEW s \in Services, AssignService(s)
    PROVE  IInv'
<1>1. PICK start \in 0..now : Save(s, NewService(s, start))
    BY DEF AssignService
<1>2. PICK row : row = NewService(s, start)
    OBVIOUS
<1>3. row \in Row /\ row.period = 1
    <2>1. start \in 0..MaxTime
        BY <1>1, BoundsAssumption DEF IInv, CountersOK
    <2> QED BY <1>2, <2>1, ServicesAssumption DEF NewService, Row, Statuses
<1>4. Covered(s, row)'
    BY <1>3 DEF Covered
<1>5. RowsOK' /\ Grows
    BY <1>1, <1>2, <1>3, <1>4, SaveKeepsRows DEF AssignService
<1>6. TasksOK'
    BY <1>5, SameTasks DEF AssignService
<1> QED BY <1>5, <1>6 DEF IInv, AssignService, HistoryOK, CountersOK

LEMMA EventIsCounted ==
    ASSUME IInv, HasEvent, now' = now
    PROVE  CountersOK'
BY BoundsAssumption DEF IInv, CountersOK, HasEvent

LEMMA LoadHolds ==
    ASSUME IInv, NEW p \in Procs, NEW s \in Services, NEW status \in Statuses,
           Load(p, s, status)
    PROVE  IInv'
<1>1. RowsOK' /\ Grows
    BY SameRows DEF Load
<1>2. rows[s] \in Row /\ Covered(s, rows[s]) /\ s \in DOMAIN rows
    BY DEF Load, IInv, RowsOK
<1>3. PICK t : t = [kind |-> "command", service |-> s, read |-> rows[s],
                    row |-> [rows[s] EXCEPT !.status = status]]
    OBVIOUS
<1>4. t.row \in Row /\ t.row.period = rows[s].period
    BY <1>2, <1>3 DEF Row
<1>5. GoodTask(t)'
    BY <1>1, <1>2, <1>3, <1>4 DEF GoodTask, IsTask, CoveredTask, Covered, Grows
<1>6. TasksOK'
    BY <1>1, <1>3, <1>5, OneTaskChanges DEF Load
<1>7. CountersOK'
    BY EventIsCounted DEF Load
<1> QED BY <1>1, <1>6, <1>7 DEF IInv, Load, HistoryOK

LEMMA SaveCommandHolds ==
    ASSUME IInv, NEW p \in Procs, SaveCommand(p)
    PROVE  IInv'
<1>1. PICK s, row : s = task[p].service /\ row = task[p].row
    OBVIOUS
<1>2. s \in DOMAIN rows /\ row \in Row /\ Covered(s, row)
    BY <1>1 DEF IInv, TasksOK, GoodTask, IsTask, CoveredTask, SaveCommand, Idle
<1>3. s \in Services
    BY <1>2 DEF IInv, RowsOK
<1>4. Covered(s, row)'
    BY <1>2 DEF Covered, SaveCommand
<1>5. RowsOK' /\ Grows
    BY <1>1, <1>2, <1>3, <1>4, SaveKeepsRows DEF SaveCommand
<1>6. TasksOK'
    BY <1>5, IdleIsGood, OneTaskChanges DEF SaveCommand
<1>7. exposed' \subseteq Services
    BY <1>1, <1>3 DEF SaveCommand, IInv, HistoryOK
<1> QED BY <1>5, <1>6, <1>7 DEF IInv, SaveCommand, HistoryOK, CountersOK

LEMMA StartRunHolds ==
    ASSUME IInv, NEW p \in Procs, StartRun(p)
    PROVE  IInv'
<1>1. PICK due : due = ListDueForBilling
    OBVIOUS
<1>2. PICK copies : copies = [s \in due |-> rows[s]]
    OBVIOUS
<1>3. PICK left : left = {CustomerOf[s] : s \in due}
    OBVIOUS
<1>4. PICK t : t = Run(copies, left, {})
    OBVIOUS
<1>5. due \subseteq DOMAIN rows /\ \A s \in due : rows[s].status = "active"
    BY <1>1 DEF ListDueForBilling, IsDue
<1>6. RowsOK' /\ Grows
    BY SameRows DEF StartRun
<1>7. left \subseteq Customers
    BY <1>3, <1>5 DEF Customers, IInv, RowsOK
<1>8. \A s \in DOMAIN copies :
          copies[s] \in Row /\ copies[s].status = "active" /\ Covered(s, copies[s])'
    BY <1>2, <1>5 DEF IInv, RowsOK, StartRun, Covered
<1>9. DOMAIN copies \subseteq DOMAIN rows'
    BY <1>2, <1>5, <1>6 DEF Grows
<1>10. GoodTask(t)'
    <2>1. GoodTask(Run(copies, left, {}))'
        BY <1>7, <1>8, <1>9, RunIsGood
    <2> QED BY <1>4, <2>1 DEF GoodTask, IsTask, CoveredTask, Covered, Run
<1>11. Become(p, t)
    BY <1>1, <1>2, <1>3, <1>4 DEF StartRun
<1>12. TasksOK'
    BY <1>6, <1>10, <1>11, OneTaskChanges
<1>13. exposed' \subseteq Services
    BY <1>1, <1>5 DEF StartRun, IInv, RowsOK, HistoryOK
<1> QED BY <1>6, <1>12, <1>13 DEF IInv, StartRun, HistoryOK, CountersOK

LEMMA SkipCustomerHolds ==
    ASSUME IInv, NEW p \in Procs, SkipCustomer(p)
    PROVE  IInv'
<1>1. RowsOK' /\ Grows
    BY SameRows DEF SkipCustomer
<1>2. PICK c \in task[p].left : Become(p, Run(task[p].copies, task[p].left \ {c}, {}))
    BY DEF SkipCustomer
<1>3. PICK left : left = task[p].left \ {c}
    OBVIOUS
<1>4. TasksOK'
    BY <1>1, <1>2, <1>3, RunGoesOn DEF SkipCustomer
<1>5. CountersOK'
    BY EventIsCounted DEF SkipCustomer
<1> QED BY <1>1, <1>4, <1>5 DEF IInv, SkipCustomer, HistoryOK

LEMMA GenerateInvoiceHolds ==
    ASSUME IInv, NEW p \in Procs, GenerateInvoice(p)
    PROVE  IInv'
<1>1. IsRun(p)
    BY DEF GenerateInvoice
<1>2. PICK c \in task[p].left :
         LET lines == {<<s, task[p].copies[s].period>> : s \in Group(p, c)}
         IN  /\ billed' = billed \cup lines
             /\ twice' = twice \cup (billed \cap lines)
             /\ Become(p, Run(task[p].copies, task[p].left \ {c}, Group(p, c)))
    BY DEF GenerateInvoice
<1>3. PICK left : left = task[p].left \ {c}
    OBVIOUS
<1>4. PICK group : group = Group(p, c)
    OBVIOUS
<1>5. group \subseteq DOMAIN task[p].copies
    BY <1>4 DEF Group
<1>6. \A s \in group : <<s, task[p].copies[s].period>> \in Services \X Nat
    BY <1>1, <1>5, RunFacts DEF IInv, RowsOK, Row
<1>7. RowsOK' /\ Grows
    BY <1>2, SameRows DEF GenerateInvoice
<1>8. TasksOK'
    BY <1>1, <1>2, <1>3, <1>4, <1>5, <1>7, RunGoesOn
<1>9. HistoryOK'
    BY <1>2, <1>4, <1>6 DEF GenerateInvoice, IInv, HistoryOK
<1> QED BY <1>7, <1>8, <1>9 DEF IInv, GenerateInvoice, CountersOK

LEMMA MoveOnHolds ==
    ASSUME IInv, NEW p \in Procs, MoveOn(p)
    PROVE  IInv'
<1>1. IsRun(p)
    BY DEF MoveOn
<1>2. PICK s \in NextInvoiced(p) :
          /\ Save(s, AdvanceNextBillingDate(task[p].copies[s]))
          /\ exposed' = IF rows[s] # task[p].copies[s] THEN exposed \cup {s} ELSE exposed
          /\ Done(p, s)
    BY DEF MoveOn
<1>3. PICK row : row = AdvanceNextBillingDate(task[p].copies[s])
    OBVIOUS
<1>4. PICK invoiced : invoiced = task[p].invoiced \ {s}
    OBVIOUS
<1>5. s \in task[p].invoiced /\ s \in DOMAIN task[p].copies /\ s \in Services
    BY <1>1, RunFacts DEF NextInvoiced, IInv, RowsOK
<1>6. /\ task[p].copies[s] \in Row
      /\ Covered(s, task[p].copies[s])
      /\ <<s, task[p].copies[s].period>> \in billed
    BY <1>1, <1>5, RunFacts
<1>7. row \in Row
    BY <1>3, <1>6 DEF AdvanceNextBillingDate, Row
<1>8. Covered(s, row)'
    <2>1. task[p].copies[s].period \in Nat
        BY <1>6 DEF Row
    <2>2. \/ row.period = task[p].copies[s].period
          \/ row.period = task[p].copies[s].period + 1
        BY <1>3, <1>6 DEF AdvanceNextBillingDate, Row
    <2>3. Covered(s, row)
        <3> SUFFICES ASSUME NEW n \in 1..(row.period - 1) PROVE <<s, n>> \in billed
            BY DEF Covered
        <3>1. n \in 1..(task[p].copies[s].period - 1) \/ n = task[p].copies[s].period
            BY <2>1, <2>2
        <3> QED BY <3>1, <1>6 DEF Covered
    <2> QED BY <2>3 DEF Covered, MoveOn
<1>9. RowsOK' /\ Grows
    BY <1>2, <1>3, <1>5, <1>7, <1>8, SaveKeepsRows DEF MoveOn
<1>10. TasksOK'
    <2>1. PICK left : left = task[p].left
        OBVIOUS
    <2>2. invoiced \subseteq DOMAIN task[p].copies
        BY <1>1, <1>4, RunFacts
    <2>3. \A t \in invoiced : <<t, task[p].copies[t].period>> \in billed'
        BY <1>1, <1>4, RunFacts DEF MoveOn
    <2>4. Become(p, Run(task[p].copies, left, invoiced))
        BY <1>2, <1>4, <2>1 DEF Done
    <2> QED BY <1>1, <1>9, <2>1, <2>2, <2>3, <2>4, RunGoesOn
<1>11. exposed' \subseteq Services
    BY <1>2, <1>5 DEF IInv, HistoryOK
<1> QED BY <1>9, <1>10, <1>11 DEF IInv, MoveOn, HistoryOK, CountersOK

LEMMA FailToMoveOnHolds ==
    ASSUME IInv, NEW p \in Procs, FailToMoveOn(p)
    PROVE  IInv'
<1>1. RowsOK' /\ Grows
    BY SameRows DEF FailToMoveOn
<1>2. PICK s \in NextInvoiced(p) : Done(p, s) /\ exposed' = exposed \cup {s}
    BY DEF FailToMoveOn
<1>3. IsRun(p)
    BY DEF FailToMoveOn
<1>4. PICK left : left = task[p].left
    OBVIOUS
<1>5. PICK invoiced : invoiced = task[p].invoiced \ {s}
    OBVIOUS
<1>6. /\ invoiced \subseteq DOMAIN task[p].copies
      /\ \A t \in invoiced : <<t, task[p].copies[t].period>> \in billed'
      /\ s \in Services
    BY <1>3, <1>5, RunFacts DEF FailToMoveOn, NextInvoiced, IInv, RowsOK
<1>7. TasksOK'
    <2>1. Become(p, Run(task[p].copies, left, invoiced))
        BY <1>2, <1>4, <1>5 DEF Done
    <2> QED BY <1>1, <1>3, <1>4, <1>6, <2>1, RunGoesOn
<1>8. CountersOK'
    BY EventIsCounted DEF FailToMoveOn
<1> QED BY <1>1, <1>2, <1>6, <1>7, <1>8 DEF IInv, FailToMoveOn, HistoryOK

LEMMA AbandonHolds ==
    ASSUME IInv, NEW p \in Procs, Abandon(p)
    PROVE  IInv'
<1>1. RowsOK' /\ Grows
    BY SameRows DEF Abandon
<1>2. TasksOK'
    BY <1>1, IdleIsGood, OneTaskChanges DEF Abandon
<1>3. CountersOK'
    BY EventIsCounted DEF Abandon
<1>4. exposed' \subseteq Services
    BY RunFacts DEF Abandon, IInv, HistoryOK, RowsOK
<1> QED BY <1>1, <1>2, <1>3, <1>4 DEF IInv, Abandon, HistoryOK

LEMMA TickHolds ==
    ASSUME IInv, Tick
    PROVE  IInv'
<1>1. RowsOK' /\ Grows
    BY SameRows DEF Tick
<1>2. TasksOK'
    BY <1>1, SameTasks DEF Tick
<1> QED BY <1>1, <1>2, BoundsAssumption DEF IInv, Tick, HistoryOK, CountersOK

LEMMA StutterHolds ==
    ASSUME IInv, UNCHANGED vars
    PROVE  IInv'
<1>1. RowsOK' /\ Grows
    BY SameRows DEF vars
<1>2. TasksOK'
    BY <1>1, SameTasks DEF vars
<1> QED BY <1>1, <1>2 DEF IInv, vars, HistoryOK, CountersOK

LEMMA NextHolds == IInv /\ [Next]_vars => IInv'
<1> SUFFICES ASSUME IInv, [Next]_vars PROVE IInv'
    OBVIOUS
<1>1. ASSUME NEW s \in Services, AssignService(s) PROVE IInv'
    BY <1>1, AssignHolds
<1>2. ASSUME NEW p \in Procs, Command(p) PROVE IInv'
    <2>1. ASSUME NEW s \in Services, Suspend(p, s) PROVE IInv'
        BY <2>1, LoadHolds DEF Suspend, Statuses
    <2>2. ASSUME NEW s \in Services, Reactivate(p, s) PROVE IInv'
        BY <2>2, LoadHolds DEF Reactivate, Statuses
    <2>3. ASSUME NEW s \in Services, Cancel(p, s) PROVE IInv'
        BY <2>3, LoadHolds DEF Cancel, Statuses
    <2>4. CASE SaveCommand(p)
        BY <2>4, SaveCommandHolds
    <2> QED BY <1>2, <2>1, <2>2, <2>3, <2>4 DEF Command
<1>3. ASSUME NEW p \in Procs, StartRun(p) PROVE IInv'
    BY <1>3, StartRunHolds
<1>4. ASSUME NEW p \in Procs, RunStep(p) PROVE IInv'
    BY <1>4, GenerateInvoiceHolds, MoveOnHolds DEF RunStep
<1>5. ASSUME NEW p \in Procs, Failure(p) PROVE IInv'
    BY <1>5, SkipCustomerHolds, FailToMoveOnHolds, AbandonHolds DEF Failure
<1>6. CASE Tick
    BY <1>6, TickHolds
<1>7. CASE UNCHANGED vars
    BY <1>7, StutterHolds
<1> QED BY <1>1, <1>2, <1>3, <1>4, <1>5, <1>6, <1>7 DEF Next

-----------------------------------------------------------------------------

\* Rows, copies and history keep to their types and to one another in every
\* run of the program (billing_actions.go, transitions.go).
THEOREM Invariant == Spec => []IInv
<1>1. Init => IInv
    BY InitHolds
<1>2. IInv /\ [Next]_vars => IInv'
    BY NextHolds
<1> QED BY <1>1, <1>2, PTL DEF Spec

\* The state of services and of the runs is well formed.
THEOREM TypeCorrect == Spec => []TypeOK
<1>1. IInv => TypeOK
    BY DEF IInv, TypeOK, RowsOK, TasksOK, GoodTask, HistoryOK, CountersOK
<1> QED BY <1>1, Invariant, PTL

\* No service is past a period that is on no invoice, whatever overlaps, fails
\* or stops (billing_actions.go:72).
THEOREM NoPeriodSkipped == Spec => []NothingSkipped
<1>1. IInv => NothingSkipped
    BY DEF IInv, RowsOK, Covered, NothingSkipped
<1> QED BY <1>1, Invariant, PTL

-----------------------------------------------------------------------------
(* Once, and when due.  Commands and runs have copies of a row; start and      *)
(* cycle are the same in all of them, and unless a service is exposed, the    *)
(* run that has it in hand has the period it is in.                            *)

SameTerms(s, row) == row.start = rows[s].start /\ row.months = rows[s].months

BillsKnown == \A bill \in billed : bill[1] \in DOMAIN rows

TermsOK ==
    \A p \in Procs :
        /\ task[p].kind = "command" =>
              SameTerms(task[p].service, task[p].row) /\ task[p].row.period = task[p].read.period
        /\ IsRun(p) => \A s \in DOMAIN task[p].copies :
              /\ SameTerms(s, task[p].copies[s]) /\ task[p].copies[s].period # 0
              /\ NextBillingDate(task[p].copies[s]) <= now

Timely ==
    \A s \in DOMAIN rows : \A n \in Nat :
        <<s, n>> \in billed => rows[s].start + n * rows[s].months <= now

HandsOK ==
    /\ \A p \in Procs : \A s \in InHand(p) \ exposed : task[p].copies[s].period = rows[s].period
    /\ \A p, q \in Procs : \A s \in (InHand(p) \cap InHand(q)) \ exposed : p = q

\* The period of a service is on an invoice only while a run is to move it on.
BilledOK ==
    \A s \in DOMAIN rows \ exposed : \A n \in Nat : <<s, n>> \in billed =>
        n < rows[s].period \/ (n = rows[s].period /\ \E p \in Procs : IsRun(p) /\ s \in task[p].invoiced)

TwiceOK == \A bill \in twice : bill[1] \in exposed

\* The services of a run's invoice are not those of a customer still to come.
Parted ==
    \A p \in Procs : IsRun(p) => \A s \in task[p].invoiced : CustomerOf[s] \notin task[p].left

TInv == BillsKnown /\ TermsOK /\ Timely /\ HandsOK /\ BilledOK /\ TwiceOK

LEMMA RowArithmetic ==
    ASSUME NEW row \in Row, NEW n \in Nat
    PROVE  row.start + n * row.months \in Nat /\ row.period \in Nat
<1>1. row.start \in Nat /\ row.months \in Nat /\ row.period \in Nat
      BY BoundsAssumption DEF Row
<1>2. n * row.months \in Nat
      BY <1>1
<1>. QED BY <1>1, <1>2

\* What a run becomes.
LEMMA RunIs ==
    ASSUME NEW copies, NEW left, NEW invoiced, NEW t, t = Run(copies, left, invoiced)
    PROVE  \/ t.kind = "none" /\ left = {} /\ invoiced = {}
           \/ /\ t.kind = "run" /\ t.copies = copies /\ t.left = left /\ t.invoiced = invoiced
BY DEF Run, Idle

\* Time goes by, and runs put services down: what they leave undone is on record.
LEMMA HandsShrink ==
    ASSUME IInv, TInv, UNCHANGED <<rows, billed, twice>>, exposed \subseteq exposed',
           now <= now', now' \in Nat,
           \A q \in Procs :
              \/ task'[q] = task[q]
              \/ task'[q].kind = "none" /\ (IsRun(q) => task[q].invoiced \subseteq exposed')
              \/ /\ task'[q].kind = "run" /\ IsRun(q) /\ task'[q].copies = task[q].copies
                 /\ task'[q].left \subseteq task[q].left /\ task'[q].invoiced \subseteq task[q].invoiced
                 /\ task[q].invoiced \ task'[q].invoiced \subseteq exposed'
    PROVE  TInv'
<1>1. BillsKnown' /\ TwiceOK'
      BY DEF TInv, BillsKnown, TwiceOK
<1>2. TermsOK'
  <2>. SUFFICES ASSUME NEW q \in Procs
                PROVE  /\ task'[q].kind = "command" =>
                             /\ SameTerms(task[q].service, task[q].row)'
                             /\ task'[q].row.period = task'[q].read.period
                       /\ task'[q].kind = "run" => \A s \in DOMAIN task'[q].copies :
                             /\ SameTerms(s, task[q].copies[s])' /\ task'[q].copies[s].period # 0
                             /\ NextBillingDate(task'[q].copies[s]) <= now'
       BY DEF TermsOK, IsRun
  <2>1. ASSUME task'[q].kind = "command"
        PROVE  /\ SameTerms(task[q].service, task[q].row)'
               /\ task'[q].row.period = task'[q].read.period
        BY <2>1 DEF TInv, TermsOK, SameTerms
  <2>2. ASSUME task'[q].kind = "run", NEW s \in DOMAIN task'[q].copies
        PROVE  /\ SameTerms(s, task[q].copies[s])' /\ task'[q].copies[s].period # 0
               /\ NextBillingDate(task'[q].copies[s]) <= now'
    <3>1. IsRun(q) /\ task'[q].copies = task[q].copies
          BY <2>2 DEF IsRun
    <3>2. /\ SameTerms(s, task[q].copies[s]) /\ task[q].copies[s].period # 0
          /\ NextBillingDate(task[q].copies[s]) <= now
          BY <2>2, <3>1 DEF TInv, TermsOK
    <3>3. NextBillingDate(task[q].copies[s]) \in Nat /\ now \in Nat
          BY <2>2, <3>1, RunFacts, RowArithmetic, BoundsAssumption DEF NextBillingDate, Row, IInv, CountersOK
    <3>. QED BY <3>1, <3>2, <3>3 DEF SameTerms
  <2>. QED BY <2>1, <2>2
<1>3. Timely'
  <2>. SUFFICES ASSUME NEW s \in DOMAIN rows, NEW n \in Nat, <<s, n>> \in billed
                PROVE  rows[s].start + n * rows[s].months <= now'
       BY DEF Timely
  <2>1. rows[s].start + n * rows[s].months \in Nat
        BY RowArithmetic DEF IInv, RowsOK
  <2>2. rows[s].start + n * rows[s].months <= now
        BY DEF TInv, Timely
  <2>3. now \in Nat
        BY BoundsAssumption DEF IInv, CountersOK
  <2>. QED BY <2>1, <2>2, <2>3
<1>4. ASSUME NEW q \in Procs
      PROVE  InHand(q)' \subseteq InHand(q) /\ (InHand(q)' # {} => task'[q].copies = task[q].copies)
      BY DEF InHand, IsRun
<1>5. HandsOK'
  <2>1. ASSUME NEW q \in Procs, NEW s \in InHand(q)' \ exposed'
        PROVE  task'[q].copies[s].period = rows'[s].period
        BY <1>4, <2>1 DEF TInv, HandsOK
  <2>2. ASSUME NEW q \in Procs, NEW r \in Procs, NEW s \in (InHand(q)' \cap InHand(r)') \ exposed'
        PROVE  q = r
        BY <1>4, <2>2 DEF TInv, HandsOK
  <2>. QED BY <2>1, <2>2 DEF HandsOK
<1>6. BilledOK'
  <2>. SUFFICES ASSUME NEW s \in DOMAIN rows \ exposed', NEW n \in Nat, <<s, n>> \in billed,
                       ~(n < rows[s].period)
                PROVE  n = rows[s].period /\ \E p \in Procs : task'[p].kind = "run" /\ s \in task'[p].invoiced
       BY DEF BilledOK, IsRun
  <2>1. PICK p \in Procs : n = rows[s].period /\ IsRun(p) /\ s \in task[p].invoiced
        BY DEF TInv, BilledOK
  <2>2. task'[p].kind = "run" /\ s \in task'[p].invoiced
        BY <2>1 DEF IsRun
  <2>. QED BY <2>1, <2>2
<1>. QED BY <1>1, <1>2, <1>3, <1>5, <1>6 DEF TInv

\* A step that leaves the runs and the bills alone, or gives one process a
\* command: the rows it writes are in the same period on the same terms.
LEMMA RowsRewritten ==
    ASSUME IInv, TInv, UNCHANGED <<now, billed, twice>>, exposed \subseteq exposed',
           DOMAIN rows \subseteq DOMAIN rows',
           \A s \in DOMAIN rows : SameTerms(s, rows'[s]) /\ (s \in exposed' \/ rows'[s].period = rows[s].period),
           \A q \in Procs :
              \/ task'[q] = task[q]
              \/ ~IsRun(q) /\ task'[q].kind = "none"
              \/ /\ ~IsRun(q) /\ task'[q].kind = "command" /\ task'[q].service \in DOMAIN rows
                 /\ SameTerms(task'[q].service, task'[q].row)
                 /\ task'[q].row.period = task'[q].read.period
    PROVE  TInv'
<1>1. BillsKnown' /\ TwiceOK'
      BY DEF TInv, BillsKnown, TwiceOK
<1>2. \A q \in Procs : \/ task'[q] = task[q]
                       \/ task'[q].kind \in {"none", "command"} /\ ~IsRun(q)
      OBVIOUS
<1>3. \A q \in Procs : IsRun(q) => DOMAIN task[q].copies \subseteq DOMAIN rows
      BY RunFacts
<1>4. \A q \in Procs : task[q].kind = "command" => task[q].service \in DOMAIN rows
      BY DEF IInv, TasksOK, GoodTask, IsTask, Idle
<1>5. TermsOK'
  <2>1. ASSUME NEW q \in Procs, task'[q].kind = "command"
        PROVE  /\ SameTerms(task[q].service, task[q].row)'
               /\ task'[q].row.period = task'[q].read.period
        BY <1>4, <2>1 DEF TInv, TermsOK, SameTerms, IsRun
  <2>2. ASSUME NEW q \in Procs, task'[q].kind = "run", NEW s \in DOMAIN task'[q].copies
        PROVE  /\ SameTerms(s, task[q].copies[s])' /\ task'[q].copies[s].period # 0
               /\ NextBillingDate(task'[q].copies[s]) <= now'
    <3>1. task'[q] = task[q] /\ IsRun(q) /\ s \in DOMAIN rows
          BY <1>2, <1>3, <2>2 DEF IsRun
    <3>. QED BY <2>2, <3>1 DEF TInv, TermsOK, SameTerms
  <2>. QED BY <2>1, <2>2 DEF TermsOK, IsRun
<1>6. Timely'
  <2>. SUFFICES ASSUME NEW s \in DOMAIN rows', NEW n \in Nat, <<s, n>> \in billed
                PROVE  rows'[s].start + n * rows'[s].months <= now
       BY DEF Timely
  <2>1. s \in DOMAIN rows
        BY DEF TInv, BillsKnown
  <2>. QED BY <2>1 DEF TInv, Timely, SameTerms
<1>7. \A q \in Procs : InHand(q)' = {} \/ (InHand(q)' = InHand(q) /\ task'[q] = task[q])
      BY <1>2 DEF InHand, IsRun
<1>8. \A q \in Procs : InHand(q) \subseteq DOMAIN rows
      BY RunFacts DEF InHand
<1>9. HandsOK'
  <2>1. ASSUME NEW q \in Procs, NEW s \in InHand(q)' \ exposed'
        PROVE  task'[q].copies[s].period = rows'[s].period
        BY <1>7, <1>8, <2>1 DEF TInv, HandsOK
  <2>2. ASSUME NEW q \in Procs, NEW r \in Procs, NEW s \in (InHand(q)' \cap InHand(r)') \ exposed'
        PROVE  q = r
        BY <1>7, <2>2 DEF TInv, HandsOK
  <2>. QED BY <2>1, <2>2 DEF HandsOK
<1>10. BilledOK'
  <2>. SUFFICES ASSUME NEW s \in DOMAIN rows' \ exposed', NEW n \in Nat, <<s, n>> \in billed,
                       ~(n < rows'[s].period)
                PROVE  n = rows'[s].period /\ \E p \in Procs : task'[p].kind = "run" /\ s \in task'[p].invoiced
       BY DEF BilledOK, IsRun
  <2>1. s \in DOMAIN rows
        BY DEF TInv, BillsKnown
  <2>2. PICK p \in Procs : n = rows[s].period /\ IsRun(p) /\ s \in task[p].invoiced
        BY <2>1 DEF TInv, BilledOK
  <2>3. task'[p].kind = "run" /\ s \in task'[p].invoiced
        BY <1>2, <2>2 DEF IsRun
  <2>. QED BY <2>1, <2>2, <2>3
<1>. QED BY <1>1, <1>5, <1>6, <1>9, <1>10 DEF TInv

LEMMA AssignOnce ==
    ASSUME IInv, TInv, NEW s \in Services, AssignService(s)
    PROVE  TInv'
<1>1. DOMAIN rows' = DOMAIN rows \cup {s} /\ \A t \in DOMAIN rows : rows'[t] = rows[t]
      BY DEF AssignService, Save
<1>. QED BY <1>1, RowsRewritten DEF AssignService, SameTerms

LEMMA OthersStay ==
    ASSUME IInv, NEW p \in Procs, NEW t, Become(p, t)
    PROVE  task'[p] = t /\ \A q \in Procs : q # p => task'[q] = task[q]
BY DEF IInv, TasksOK, Become

LEMMA LoadOnce ==
    ASSUME IInv, TInv, NEW p \in Procs, NEW s, NEW status, Load(p, s, status)
    PROVE  TInv'
<1>1. PICK t : t = [kind |-> "command", service |-> s, read |-> rows[s],
                    row |-> [rows[s] EXCEPT !.status = status]]
      OBVIOUS
<1>2. s \in DOMAIN rows /\ rows[s] \in Row /\ Become(p, t) /\ ~IsRun(p)
      BY <1>1 DEF Load, IInv, RowsOK, IsIdle, IsRun
<1>3. /\ t.row.start = rows[s].start /\ t.row.months = rows[s].months /\ t.row.period = rows[s].period
      /\ t.kind = "command" /\ t.service = s /\ t.read = rows[s]
      BY <1>1, <1>2 DEF Row
<1>4. task'[p] = t /\ \A q \in Procs : q # p => task'[q] = task[q]
      BY <1>2, OthersStay
<1>. QED BY <1>2, <1>3, <1>4, RowsRewritten DEF Load, SameTerms

LEMMA SaveCommandOnce ==
    ASSUME IInv, TInv, NEW p \in Procs, SaveCommand(p)
    PROVE  TInv'
<1>1. PICK s, row : s = task[p].service /\ row = task[p].row
      OBVIOUS
<1>2. s \in DOMAIN rows /\ SameTerms(s, row) /\ row.period = task[p].read.period
      BY <1>1 DEF IInv, TasksOK, GoodTask, IsTask, SaveCommand, Idle, TInv, TermsOK
<1>3. DOMAIN rows' = DOMAIN rows /\ rows'[s] = row /\ \A t \in DOMAIN rows : t # s => rows'[t] = rows[t]
      BY <1>1, <1>2 DEF SaveCommand, Save
<1>4. exposed \subseteq exposed' /\ (s \in exposed' \/ rows[s] = task[p].read)
      BY <1>1 DEF SaveCommand
<1>5. task'[p] = Idle /\ Idle.kind = "none" /\ \A q \in Procs : q # p => task'[q] = task[q]
      BY OthersStay DEF SaveCommand, Idle
<1>6. \A t \in DOMAIN rows : SameTerms(t, rows'[t]) /\ (t \in exposed' \/ rows'[t].period = rows[t].period)
      BY <1>2, <1>3, <1>4 DEF SameTerms
<1>. QED BY <1>3, <1>4, <1>5, <1>6, RowsRewritten DEF SaveCommand, IsRun

\* A run takes the due services up; those another run has are exposed.
LEMMA StartRunOnce ==
    ASSUME IInv, TInv, NEW p \in Procs, StartRun(p)
    PROVE  TInv'
<1>1. PICK due : due = ListDueForBilling
      OBVIOUS
<1>2. PICK copies : copies = [s \in due |-> rows[s]]
      OBVIOUS
<1>3. PICK t : t = Run(copies, {CustomerOf[s] : s \in due}, {})
      OBVIOUS
<1>4. due \subseteq DOMAIN rows /\ \A s \in due : IsDue(rows[s])
      BY <1>1 DEF ListDueForBilling
<1>5. /\ task'[p] = t /\ \A q \in Procs : q # p => task'[q] = task[q]
      /\ exposed' = exposed \cup (due \cap UNION {InHand(q) : q \in Procs})
      /\ UNCHANGED <<now, rows, billed, twice>> /\ ~IsRun(p)
      BY <1>1, <1>2, <1>3, OthersStay DEF StartRun, IsIdle, IsRun
<1>6. \/ t.kind = "none"
      \/ t.kind = "run" /\ t.copies = copies /\ t.invoiced = {}
      BY <1>3 DEF Run, Idle
<1>7. BillsKnown' /\ TwiceOK' /\ Timely'
      BY <1>5 DEF TInv, BillsKnown, TwiceOK, Timely
<1>8. TermsOK'
  <2>1. ASSUME NEW q \in Procs, task'[q].kind = "command"
        PROVE  /\ SameTerms(task[q].service, task[q].row)'
               /\ task'[q].row.period = task'[q].read.period
        BY <1>5, <1>6, <2>1 DEF TInv, TermsOK, SameTerms
  <2>2. ASSUME NEW q \in Procs, task'[q].kind = "run", NEW s \in DOMAIN task'[q].copies
        PROVE  /\ SameTerms(s, task[q].copies[s])' /\ task'[q].copies[s].period # 0
               /\ NextBillingDate(task'[q].copies[s]) <= now'
    <3>1. CASE q = p
          BY <1>2, <1>4, <1>5, <1>6, <2>2, <3>1 DEF SameTerms, IsDue, NextBillingDate
    <3>2. CASE q # p
          BY <1>5, <2>2, <3>2 DEF TInv, TermsOK, SameTerms, IsRun
    <3>. QED BY <3>1, <3>2
  <2>. QED BY <2>1, <2>2 DEF TermsOK, IsRun
<1>9. /\ InHand(p)' \subseteq due
      /\ \A q \in Procs : q # p => InHand(q)' = InHand(q)
      /\ \A s \in InHand(p)' : task'[p].copies[s].period = rows[s].period
      BY <1>2, <1>5, <1>6 DEF InHand, IsRun
<1>10. HandsOK'
  <2>1. ASSUME NEW q \in Procs, NEW s \in InHand(q)' \ exposed'
        PROVE  task'[q].copies[s].period = rows'[s].period
        BY <1>5, <1>9, <2>1 DEF TInv, HandsOK
  <2>2. ASSUME NEW q \in Procs, NEW r \in Procs, NEW s \in (InHand(q)' \cap InHand(r)') \ exposed'
        PROVE  q = r
    <3>1. ASSUME NEW o \in Procs, o # p, s \in InHand(o), s \in due
          PROVE  FALSE
          BY <1>5, <2>2, <3>1
    <3>. QED BY <1>5, <1>9, <2>2, <3>1 DEF TInv, HandsOK
  <2>. QED BY <2>1, <2>2 DEF HandsOK
<1>11. BilledOK'
  <2>. SUFFICES ASSUME NEW s \in DOMAIN rows \ exposed', NEW n \in Nat, <<s, n>> \in billed,
                       ~(n < rows[s].period)
                PROVE  n = rows[s].period /\ \E q \in Procs : task'[q].kind = "run" /\ s \in task'[q].invoiced
       BY <1>5 DEF BilledOK, IsRun
  <2>1. PICK q \in Procs : n = rows[s].period /\ IsRun(q) /\ s \in task[q].invoiced
        BY <1>5 DEF TInv, BilledOK
  <2>. QED BY <1>5, <2>1 DEF IsRun
<1>. QED BY <1>7, <1>8, <1>10, <1>11 DEF TInv

\* An invoice is written.
LEMMA GenerateInvoiceOnce ==
    ASSUME IInv, TInv, NEW p \in Procs, GenerateInvoice(p)
    PROVE  TInv'
<1>1. PICK c \in task[p].left :
         LET lines == {<<s, task[p].copies[s].period>> : s \in Group(p, c)}
         IN  /\ billed' = billed \cup lines
             /\ twice' = twice \cup (billed \cap lines)
             /\ Become(p, Run(task[p].copies, task[p].left \ {c}, Group(p, c)))
      BY DEF GenerateInvoice
<1>2. PICK group : group = Group(p, c)
      OBVIOUS
<1>3. PICK copies : copies = task[p].copies
      OBVIOUS
<1>4. PICK lines : lines = {<<s, copies[s].period>> : s \in group}
      OBVIOUS
<1>5. PICK t : t = Run(copies, task[p].left \ {c}, group)
      OBVIOUS
<1>6. /\ billed' = billed \cup lines /\ twice' = twice \cup (billed \cap lines)
      /\ task'[p] = t /\ \A q \in Procs : q # p => task'[q] = task[q]
      /\ UNCHANGED <<now, rows, exposed>> /\ IsRun(p) /\ task[p].invoiced = {}
  <2>1. Become(p, t)
        BY <1>1, <1>2, <1>3, <1>5
  <2>2. billed' = billed \cup lines /\ twice' = twice \cup (billed \cap lines)
        BY <1>1, <1>2, <1>3, <1>4
  <2>3. task'[p] = t /\ \A q \in Procs : q # p => task'[q] = task[q]
        BY <2>1, OthersStay
  <2>4. UNCHANGED <<now, rows, exposed>> /\ IsRun(p) /\ task[p].invoiced = {}
        BY DEF GenerateInvoice
  <2>. QED BY <2>2, <2>3, <2>4
<1>7. \/ t.kind = "none" /\ group = {}
      \/ t.kind = "run" /\ t.copies = copies /\ t.left = task[p].left \ {c} /\ t.invoiced = group
      BY <1>5 DEF Run, Idle
<1>8. group = {s \in DOMAIN copies : CustomerOf[s] = c} /\ group \subseteq InHand(p)
      BY <1>1, <1>2, <1>3, <1>6 DEF Group, InHand
<1>9. \A s \in DOMAIN copies :
         /\ s \in DOMAIN rows /\ SameTerms(s, copies[s]) /\ copies[s].period \in Nat
         /\ NextBillingDate(copies[s]) <= now
  <2>1. DOMAIN copies \subseteq DOMAIN rows /\ \A s \in DOMAIN copies : copies[s] \in Row
        BY <1>3, <1>6, RunFacts
  <2>2. \A s \in DOMAIN copies : SameTerms(s, copies[s]) /\ NextBillingDate(copies[s]) <= now
        BY <1>3, <1>6 DEF TInv, TermsOK
  <2>. QED BY <2>1, <2>2 DEF Row
<1>10. BillsKnown'
       BY <1>4, <1>6, <1>8, <1>9 DEF TInv, BillsKnown
<1>11. Timely'
  <2>. SUFFICES ASSUME NEW s \in DOMAIN rows, NEW n \in Nat, <<s, n>> \in billed \cup lines
                PROVE  rows[s].start + n * rows[s].months <= now
       BY <1>6 DEF Timely
  <2>1. CASE <<s, n>> \in billed
        BY <2>1 DEF TInv, Timely
  <2>2. CASE <<s, n>> \in lines
    <3>1. s \in DOMAIN copies /\ n = copies[s].period
          BY <1>4, <1>8, <2>2
    <3>. QED BY <1>9, <3>1 DEF SameTerms, NextBillingDate
  <2>. QED BY <2>1, <2>2
<1>12. TermsOK'
  <2>1. ASSUME NEW q \in Procs, task'[q].kind = "command"
        PROVE  /\ SameTerms(task[q].service, task[q].row)'
               /\ task'[q].row.period = task'[q].read.period
        BY <1>6, <1>7, <2>1 DEF TInv, TermsOK, SameTerms
  <2>2. ASSUME NEW q \in Procs, task'[q].kind = "run"
        PROVE  IsRun(q) /\ task'[q].copies = task[q].copies
        BY <1>3, <1>6, <1>7, <2>2 DEF IsRun
  <2>3. ASSUME NEW q \in Procs, task'[q].kind = "run", NEW s \in DOMAIN task'[q].copies
        PROVE  /\ SameTerms(s, task[q].copies[s])' /\ task'[q].copies[s].period # 0
               /\ NextBillingDate(task'[q].copies[s]) <= now'
        BY <1>6, <2>2, <2>3 DEF TInv, TermsOK, SameTerms
  <2>. QED BY <2>1, <2>3 DEF TermsOK, IsRun
<1>13. \A q \in Procs : InHand(q)' \subseteq InHand(q) /\ (InHand(q)' # {} => task'[q].copies = task[q].copies)
  <2>1. InHand(p)' \subseteq InHand(p) /\ (InHand(p)' # {} => task'[p].copies = task[p].copies)
    <3>1. CASE t.kind = "none"
          BY <1>6, <3>1 DEF InHand, IsRun
    <3>2. CASE t.kind = "run" /\ t.copies = copies /\ t.left = task[p].left \ {c} /\ t.invoiced = group
          BY <1>3, <1>6, <1>8, <3>2 DEF InHand, IsRun
    <3>. QED BY <1>7, <3>1, <3>2
  <2>. QED BY <1>6, <2>1 DEF InHand, IsRun
<1>14. HandsOK'
  <2>1. ASSUME NEW q \in Procs, NEW s \in InHand(q)' \ exposed'
        PROVE  task'[q].copies[s].period = rows'[s].period
        BY <1>6, <1>13, <2>1 DEF TInv, HandsOK
  <2>2. ASSUME NEW q \in Procs, NEW r \in Procs, NEW s \in (InHand(q)' \cap InHand(r)') \ exposed'
        PROVE  q = r
        BY <1>6, <1>13, <2>2 DEF TInv, HandsOK
  <2>. QED BY <2>1, <2>2 DEF HandsOK
\* The run that has a service in hand is the one it could be billed by.
<1>15. ASSUME NEW s \in group, s \notin exposed
       PROVE  <<s, copies[s].period>> \notin billed /\ copies[s].period = rows[s].period
  <2>1. copies[s].period = rows[s].period /\ copies[s].period \in Nat /\ s \in DOMAIN rows
        BY <1>3, <1>8, <1>9, <1>15 DEF TInv, HandsOK
  <2>2. ASSUME <<s, copies[s].period>> \in billed
        PROVE  FALSE
    <3>1. PICK q \in Procs : IsRun(q) /\ s \in task[q].invoiced
          BY <1>15, <2>1, <2>2 DEF TInv, BilledOK
    <3>2. s \in InHand(q) \cap InHand(p)
          BY <1>8, <1>15, <3>1 DEF InHand
    <3>. QED BY <1>6, <1>15, <3>1, <3>2 DEF TInv, HandsOK
  <2>. QED BY <2>1, <2>2
<1>16. TwiceOK'
  <2>. SUFFICES ASSUME NEW bill \in twice'
                PROVE  bill[1] \in exposed
       BY <1>6 DEF TwiceOK
  <2>1. CASE bill \in twice
        BY <2>1 DEF TInv, TwiceOK
  <2>2. CASE bill \in billed /\ bill \in lines
    <3>1. PICK s \in group : bill = <<s, copies[s].period>>
          BY <1>4, <2>2
    <3>. QED BY <1>15, <2>2, <3>1
  <2>. QED BY <1>6, <2>1, <2>2
<1>17. BilledOK'
  <2>. SUFFICES ASSUME NEW s \in DOMAIN rows \ exposed, NEW n \in Nat, <<s, n>> \in billed \cup lines,
                       ~(n < rows[s].period)
                PROVE  n = rows[s].period /\ \E q \in Procs : task'[q].kind = "run" /\ s \in task'[q].invoiced
       BY <1>6 DEF BilledOK, IsRun
  <2>1. CASE <<s, n>> \in billed
    <3>1. PICK q \in Procs : n = rows[s].period /\ IsRun(q) /\ s \in task[q].invoiced
          BY <2>1 DEF TInv, BilledOK
    <3>. QED BY <1>6, <3>1 DEF IsRun
  <2>2. CASE <<s, n>> \in lines
    <3>1. s \in group /\ n = copies[s].period
          BY <1>4, <2>2
    <3>. QED BY <1>6, <1>7, <1>15, <3>1
  <2>. QED BY <2>1, <2>2
<1>. QED BY <1>10, <1>11, <1>12, <1>14, <1>16, <1>17 DEF TInv

\* A service is moved on from its copy.
LEMMA MoveOnOnce ==
    ASSUME IInv, TInv, Parted, NEW p \in Procs, MoveOn(p)
    PROVE  TInv'
<1>1. PICK s \in NextInvoiced(p) :
          /\ Save(s, AdvanceNextBillingDate(task[p].copies[s]))
          /\ exposed' = IF rows[s] # task[p].copies[s] THEN exposed \cup {s} ELSE exposed
          /\ Done(p, s)
      BY DEF MoveOn
<1>2. PICK copies : copies = task[p].copies
      OBVIOUS
<1>3. PICK row : row = AdvanceNextBillingDate(copies[s])
      OBVIOUS
<1>4. PICK t : t = Run(copies, task[p].left, task[p].invoiced \ {s})
      OBVIOUS
<1>5. /\ task'[p] = t /\ \A q \in Procs : q # p => task'[q] = task[q]
      /\ UNCHANGED <<now, billed, twice>> /\ IsRun(p) /\ s \in task[p].invoiced
      /\ exposed \subseteq exposed' /\ (s \in exposed' \/ rows[s] = copies[s])
  <2>1. Become(p, t)
        BY <1>1, <1>2, <1>4 DEF Done
  <2>. QED BY <1>1, <1>2, <2>1, OthersStay DEF MoveOn, NextInvoiced
<1>6. /\ s \in DOMAIN copies /\ DOMAIN copies \subseteq DOMAIN rows /\ copies[s] \in Row
      /\ SameTerms(s, copies[s]) /\ copies[s].period # 0
  <2>1. s \in DOMAIN copies /\ DOMAIN copies \subseteq DOMAIN rows /\ copies[s] \in Row
        BY <1>2, <1>5, RunFacts
  <2>. QED BY <1>2, <1>5, <2>1 DEF TInv, TermsOK
<1>7. SameTerms(s, row) /\ row.period = copies[s].period + 1 /\ copies[s].period \in Nat
      BY <1>3, <1>6 DEF AdvanceNextBillingDate, SameTerms, Row
<1>8. DOMAIN rows' = DOMAIN rows /\ rows'[s] = row /\ \A r \in DOMAIN rows : r # s => rows'[r] = rows[r]
      BY <1>1, <1>2, <1>3, <1>6 DEF Save
<1>9. \/ t.kind = "none" /\ task[p].left = {} /\ task[p].invoiced \ {s} = {}
      \/ t.kind = "run" /\ t.copies = copies /\ t.left = task[p].left /\ t.invoiced = task[p].invoiced \ {s}
      BY <1>4 DEF Run, Idle
<1>10. \A r \in DOMAIN rows : rows'[r].start = rows[r].start /\ rows'[r].months = rows[r].months
       BY <1>7, <1>8 DEF SameTerms
<1>11. BillsKnown' /\ TwiceOK'
       BY <1>5, <1>8 DEF TInv, BillsKnown, TwiceOK
<1>12. Timely'
       BY <1>5, <1>8, <1>10 DEF TInv, Timely
<1>13. TermsOK'
  <2>1. ASSUME NEW q \in Procs, task'[q].kind = "command"
        PROVE  /\ SameTerms(task[q].service, task[q].row)'
               /\ task'[q].row.period = task'[q].read.period
    <3>1. task'[q] = task[q] /\ task[q].service \in DOMAIN rows
          BY <1>5, <1>9, <2>1 DEF IInv, TasksOK, GoodTask, IsTask, Idle
    <3>. QED BY <1>10, <2>1, <3>1 DEF TInv, TermsOK, SameTerms
  <2>2. ASSUME NEW q \in Procs, task'[q].kind = "run"
        PROVE  /\ IsRun(q) /\ task'[q].copies = task[q].copies
               /\ DOMAIN task[q].copies \subseteq DOMAIN rows
        BY <1>2, <1>5, <1>9, <2>2, RunFacts DEF IsRun
  <2>3. ASSUME NEW q \in Procs, task'[q].kind = "run", NEW r \in DOMAIN task'[q].copies
        PROVE  /\ SameTerms(r, task[q].copies[r])' /\ task'[q].copies[r].period # 0
               /\ NextBillingDate(task'[q].copies[r]) <= now'
        BY <1>5, <1>10, <2>2, <2>3 DEF TInv, TermsOK, SameTerms
  <2>. QED BY <2>1, <2>3 DEF TermsOK, IsRun
<1>14. \A q \in Procs : InHand(q)' \subseteq InHand(q) /\ (InHand(q)' # {} => task'[q].copies = task[q].copies)
  <2>1. InHand(p)' \subseteq InHand(p) /\ (InHand(p)' # {} => task'[p].copies = task[p].copies)
    <3>1. CASE t.kind = "none"
          BY <1>5, <3>1 DEF InHand, IsRun
    <3>2. CASE t.kind = "run" /\ t.copies = copies /\ t.left = task[p].left
                 /\ t.invoiced = task[p].invoiced \ {s}
          BY <1>2, <1>5, <3>2 DEF InHand, IsRun
    <3>. QED BY <1>9, <3>1, <3>2
  <2>. QED BY <1>5, <2>1 DEF InHand, IsRun
<1>15. \A q \in Procs : InHand(q) \subseteq DOMAIN rows
       BY RunFacts DEF InHand
<1>16. s \notin InHand(p)'
  <2>1. CASE t.kind = "none"
        BY <1>5, <2>1 DEF InHand, IsRun
  <2>2. CASE t.kind = "run" /\ t.copies = copies /\ t.left = task[p].left
               /\ t.invoiced = task[p].invoiced \ {s}
        BY <1>5, <2>2 DEF InHand, IsRun, Parted
  <2>. QED BY <1>9, <2>1, <2>2
\* No other run has the service in hand.
<1>17. ASSUME s \notin exposed', NEW q \in Procs PROVE s \notin InHand(q)'
  <2>1. ASSUME s \in InHand(q)' PROVE q = p
        BY <1>5, <1>14, <1>17, <2>1 DEF TInv, HandsOK, InHand
  <2>. QED BY <1>16, <2>1
<1>18. HandsOK'
  <2>1. ASSUME NEW q \in Procs, NEW r \in InHand(q)' \ exposed'
        PROVE  task'[q].copies[r].period = rows'[r].period
    <3>1. r # s /\ r \in DOMAIN rows /\ r \in InHand(q) \ exposed
          BY <1>5, <1>14, <1>15, <1>17, <2>1
    <3>2. task[q].copies[r].period = rows[r].period
          BY <3>1 DEF TInv, HandsOK
    <3>3. task'[q].copies = task[q].copies
          BY <1>14, <2>1
    <3>. QED BY <1>8, <3>1, <3>2, <3>3
  <2>2. ASSUME NEW q \in Procs, NEW o \in Procs, NEW r \in (InHand(q)' \cap InHand(o)') \ exposed'
        PROVE  q = o
        BY <1>5, <1>14, <2>2 DEF TInv, HandsOK
  <2>. QED BY <2>1, <2>2 DEF HandsOK
<1>19. BilledOK'
  <2>. SUFFICES ASSUME NEW r \in DOMAIN rows \ exposed', NEW n \in Nat, <<r, n>> \in billed,
                       ~(n < rows'[r].period)
                PROVE  n = rows'[r].period /\ \E q \in Procs : task'[q].kind = "run" /\ r \in task'[q].invoiced
       BY <1>5, <1>8 DEF BilledOK, IsRun
  <2>1. r \notin exposed
        BY <1>5
  <2>2. r # s
    <3>1. ASSUME r = s PROVE FALSE
      <4>1. rows[s].period = copies[s].period /\ rows'[s].period = copies[s].period + 1
            BY <1>5, <1>7, <1>8, <3>1
      <4>2. n < copies[s].period \/ n = copies[s].period
            BY <2>1, <3>1, <4>1 DEF TInv, BilledOK
      <4>. QED BY <1>7, <3>1, <4>1, <4>2
    <3>. QED BY <3>1
  <2>3. PICK q \in Procs : n = rows[r].period /\ IsRun(q) /\ r \in task[q].invoiced
        BY <1>8, <2>1, <2>2 DEF TInv, BilledOK
  <2>4. task'[q].kind = "run" /\ r \in task'[q].invoiced
        BY <1>5, <1>9, <2>2, <2>3 DEF IsRun
  <2>. QED BY <1>8, <2>2, <2>3, <2>4
<1>. QED BY <1>11, <1>12, <1>13, <1>18, <1>19 DEF TInv

LEMMA SkipCustomerOnce ==
    ASSUME IInv, TInv, NEW p \in Procs, SkipCustomer(p)
    PROVE  TInv'
<1>1. PICK c \in task[p].left : Become(p, Run(task[p].copies, task[p].left \ {c}, {}))
      BY DEF SkipCustomer
<1>2. PICK t : t = Run(task[p].copies, task[p].left \ {c}, {})
      OBVIOUS
<1>3. task'[p] = t /\ \A q \in Procs : q # p => task'[q] = task[q]
      BY <1>1, <1>2, OthersStay
<1>4. \/ t.kind = "none"
      \/ t.kind = "run" /\ t.copies = task[p].copies /\ t.left = task[p].left \ {c} /\ t.invoiced = {}
      BY <1>2 DEF Run, Idle
<1>5. UNCHANGED <<rows, billed, twice, exposed, now>> /\ IsRun(p) /\ task[p].invoiced = {}
      BY DEF SkipCustomer
<1>6. now <= now /\ now \in Nat
      BY BoundsAssumption DEF IInv, CountersOK
<1>7. \A q \in Procs :
         \/ task'[q] = task[q]
         \/ task'[q].kind = "none" /\ (IsRun(q) => task[q].invoiced \subseteq exposed')
         \/ /\ task'[q].kind = "run" /\ IsRun(q) /\ task'[q].copies = task[q].copies
            /\ task'[q].left \subseteq task[q].left /\ task'[q].invoiced \subseteq task[q].invoiced
            /\ task[q].invoiced \ task'[q].invoiced \subseteq exposed'
      BY <1>3, <1>4, <1>5
<1>. QED BY <1>5, <1>6, <1>7, HandsShrink

LEMMA FailToMoveOnOnce ==
    ASSUME IInv, TInv, NEW p \in Procs, FailToMoveOn(p)
    PROVE  TInv'
<1>1. PICK s \in NextInvoiced(p) : Done(p, s) /\ exposed' = exposed \cup {s}
      BY DEF FailToMoveOn
<1>2. PICK t : t = Run(task[p].copies, task[p].left, task[p].invoiced \ {s})
      OBVIOUS
<1>3. task'[p] = t /\ \A q \in Procs : q # p => task'[q] = task[q]
      BY <1>1, <1>2, OthersStay DEF Done
<1>4. \/ t.kind = "none" /\ task[p].invoiced \ {s} = {}
      \/ t.kind = "run" /\ t.copies = task[p].copies /\ t.left = task[p].left
         /\ t.invoiced = task[p].invoiced \ {s}
      BY <1>2, RunIs
<1>5. UNCHANGED <<rows, billed, twice, now>> /\ IsRun(p) /\ exposed \subseteq exposed' /\ s \in exposed'
      BY <1>1 DEF FailToMoveOn
<1>6. now <= now /\ now \in Nat
      BY BoundsAssumption DEF IInv, CountersOK
<1>7. \A q \in Procs :
         \/ task'[q] = task[q]
         \/ task'[q].kind = "none" /\ (IsRun(q) => task[q].invoiced \subseteq exposed')
         \/ /\ task'[q].kind = "run" /\ IsRun(q) /\ task'[q].copies = task[q].copies
            /\ task'[q].left \subseteq task[q].left /\ task'[q].invoiced \subseteq task[q].invoiced
            /\ task[q].invoiced \ task'[q].invoiced \subseteq exposed'
      BY <1>3, <1>4, <1>5
<1>. QED BY <1>5, <1>6, <1>7, HandsShrink

LEMMA AbandonOnce ==
    ASSUME IInv, TInv, NEW p \in Procs, Abandon(p)
    PROVE  TInv'
<1>1. task'[p] = Idle /\ Idle.kind = "none" /\ \A q \in Procs : q # p => task'[q] = task[q]
      BY OthersStay DEF Abandon, Idle
<1>2. /\ UNCHANGED <<rows, billed, twice, now>> /\ exposed \subseteq exposed'
      /\ IsRun(p) => task[p].invoiced \subseteq exposed'
      BY DEF Abandon
<1>3. now <= now /\ now \in Nat
      BY BoundsAssumption DEF IInv, CountersOK
<1>4. \A q \in Procs :
         \/ task'[q] = task[q]
         \/ task'[q].kind = "none" /\ (IsRun(q) => task[q].invoiced \subseteq exposed')
      BY <1>1, <1>2
<1>. QED BY <1>2, <1>3, <1>4, HandsShrink

LEMMA TickOnce ==
    ASSUME IInv, TInv, Tick
    PROVE  TInv'
<1>1. now <= now' /\ now' \in Nat
      BY BoundsAssumption DEF IInv, CountersOK, Tick
<1>. QED BY <1>1, HandsShrink DEF Tick

LEMMA StutterOnce ==
    ASSUME IInv, TInv, UNCHANGED vars
    PROVE  TInv'
<1>1. now <= now' /\ now' \in Nat
      BY BoundsAssumption DEF IInv, CountersOK, vars
<1>. QED BY <1>1, HandsShrink DEF vars

\* The services on a run's invoice and the customers to come stay apart.
LEMMA PartedByTask ==
    ASSUME IInv, Parted, NEW p \in Procs, NEW t, Become(p, t),
           t.kind = "run" => \A s \in t.invoiced : CustomerOf[s] \notin t.left
    PROVE  Parted'
BY OthersStay DEF Parted, IsRun

LEMMA PartedHolds ==
    ASSUME IInv, Parted, [Next]_vars
    PROVE  Parted'
<1>1. ASSUME task' = task PROVE Parted'
      BY <1>1 DEF Parted, IsRun
<1>2. ASSUME NEW p \in Procs, NEW s, NEW status, Load(p, s, status) PROVE Parted'
  <2>1. PICK t : t = [kind |-> "command", service |-> s, read |-> rows[s],
                      row |-> [rows[s] EXCEPT !.status = status]]
        OBVIOUS
  <2>2. Become(p, t) /\ t.kind = "command"
        BY <1>2, <2>1 DEF Load
  <2>. QED BY <2>2, PartedByTask
<1>3. ASSUME NEW p \in Procs, SaveCommand(p) \/ Abandon(p) PROVE Parted'
  <2>1. Become(p, Idle) /\ Idle.kind = "none"
        BY <1>3 DEF SaveCommand, Abandon, Idle
  <2>. QED BY <2>1, PartedByTask
<1>4. ASSUME NEW p \in Procs, NEW copies, NEW left, NEW invoiced, Become(p, Run(copies, left, invoiced)),
             \A s \in invoiced : CustomerOf[s] \notin left
      PROVE  Parted'
  <2>1. PICK t : t = Run(copies, left, invoiced)
        OBVIOUS
  <2>2. \/ t.kind = "none"
        \/ t.kind = "run" /\ t.left = left /\ t.invoiced = invoiced
        BY <2>1, RunIs
  <2>. QED BY <1>4, <2>1, <2>2, PartedByTask
<1>5. ASSUME NEW p \in Procs, StartRun(p) PROVE Parted'
  <2>1. PICK due, copies, left : /\ Become(p, Run(copies, left, {}))
        BY <1>5 DEF StartRun
  <2>. QED BY <2>1, <1>4
<1>6. ASSUME NEW p \in Procs, SkipCustomer(p) PROVE Parted'
  <2>1. PICK c \in task[p].left : Become(p, Run(task[p].copies, task[p].left \ {c}, {}))
        BY <1>6 DEF SkipCustomer
  <2>2. PICK copies, left : Become(p, Run(copies, left, {}))
        BY <2>1
  <2>. QED BY <2>2, <1>4
<1>7. ASSUME NEW p \in Procs, GenerateInvoice(p) PROVE Parted'
  <2>1. PICK c \in task[p].left : Become(p, Run(task[p].copies, task[p].left \ {c}, Group(p, c)))
        BY <1>7 DEF GenerateInvoice
  <2>2. PICK copies, left, invoiced : /\ copies = task[p].copies /\ left = task[p].left \ {c}
                                      /\ invoiced = Group(p, c)
        OBVIOUS
  <2>3. Become(p, Run(copies, left, invoiced))
        BY <2>1, <2>2
  <2>4. \A s \in invoiced : CustomerOf[s] \notin left
        BY <2>2 DEF Group
  <2>. QED BY <2>3, <2>4, <1>4
<1>8. ASSUME NEW p \in Procs, MoveOn(p) \/ FailToMoveOn(p) PROVE Parted'
  <2>1. PICK s \in NextInvoiced(p) : Done(p, s)
        BY <1>8 DEF MoveOn, FailToMoveOn
  <2>2. PICK copies, left, invoiced : /\ copies = task[p].copies /\ left = task[p].left
                                      /\ invoiced = task[p].invoiced \ {s}
        OBVIOUS
  <2>3. Become(p, Run(copies, left, invoiced))
        BY <2>1, <2>2 DEF Done
  <2>4. \A r \in invoiced : CustomerOf[r] \notin left
        BY <1>8, <2>2 DEF Parted, MoveOn, FailToMoveOn
  <2>. QED BY <2>3, <2>4, <1>4
<1>9. ASSUME NEW s \in Services, AssignService(s) PROVE Parted'
      BY <1>9, <1>1 DEF AssignService
<1>10. ASSUME NEW p \in Procs, Command(p) PROVE Parted'
       BY <1>2, <1>3, <1>10 DEF Command, Suspend, Reactivate, Cancel
<1>11. CASE Tick
       BY <1>1, <1>11 DEF Tick
<1>12. CASE UNCHANGED vars
       BY <1>1, <1>12 DEF vars
<1>. QED BY <1>3, <1>5, <1>6, <1>7, <1>8, <1>9, <1>10, <1>11, <1>12 DEF Next, RunStep, Failure

LEMMA NextOnce ==
    ASSUME IInv, TInv, Parted, [Next]_vars
    PROVE  TInv'
<1>1. ASSUME NEW s \in Services, AssignService(s) PROVE TInv'
      BY <1>1, AssignOnce
<1>2. ASSUME NEW p \in Procs, Command(p) PROVE TInv'
      BY <1>2, LoadOnce, SaveCommandOnce DEF Command, Suspend, Reactivate, Cancel
<1>3. ASSUME NEW p \in Procs, StartRun(p) PROVE TInv'
      BY <1>3, StartRunOnce
<1>4. ASSUME NEW p \in Procs, RunStep(p) PROVE TInv'
      BY <1>4, GenerateInvoiceOnce, MoveOnOnce DEF RunStep
<1>5. ASSUME NEW p \in Procs, Failure(p) PROVE TInv'
      BY <1>5, SkipCustomerOnce, FailToMoveOnOnce, AbandonOnce DEF Failure
<1>6. CASE Tick
      BY <1>6, TickOnce
<1>7. CASE UNCHANGED vars
      BY <1>7, StutterOnce
<1>. QED BY <1>1, <1>2, <1>3, <1>4, <1>5, <1>6, <1>7 DEF Next

LEMMA InitOnce ==
    ASSUME Init
    PROVE  TInv /\ Parted
<1>1. billed = {} /\ twice = {} /\ \A p \in Procs : task[p].kind = "none"
      BY DEF Init, Idle
<1>2. \A p \in Procs : InHand(p) = {} /\ ~IsRun(p)
      BY <1>1 DEF InHand, IsRun
<1>3. BillsKnown /\ Timely /\ BilledOK /\ TwiceOK
      BY <1>1 DEF BillsKnown, Timely, BilledOK, TwiceOK
<1>4. TermsOK
      BY <1>1, <1>2 DEF TermsOK
<1>5. HandsOK
      BY <1>2 DEF HandsOK
<1>. QED BY <1>2, <1>3, <1>4, <1>5 DEF TInv, Parted

\* A period is on two invoices only when a run did not get to move the service
\* on, another run had it in hand, or a copy out of date was saved; and it is on
\* none before its date (billing_actions.go:29, 75).
THEOREM BilledOnce == Spec => []BilledOnceWhenDue
<1>1. Init => IInv /\ TInv /\ Parted
      BY InitHolds, InitOnce
<1>2. IInv /\ TInv /\ Parted /\ [Next]_vars => (IInv /\ TInv /\ Parted)'
      BY NextHolds, NextOnce, PartedHolds
<1>3. IInv /\ TInv /\ Parted => BilledOnceWhenDue
  <2>. SUFFICES ASSUME TInv PROVE BilledOnceWhenDue
       OBVIOUS
  <2>1. 1..(MaxTime + 1) \subseteq Nat
        BY BoundsAssumption
  <2>. QED BY <2>1 DEF TInv, TwiceOK, Timely, BilledOnceWhenDue
<1>. QED BY <1>1, <1>2, <1>3, PTL DEF Spec

-----------------------------------------------------------------------------
(* For good.  Nobody lists a cancelled service or loads it, so the copy in a   *)
(* process's hand that is up to date is of another status.                    *)

\* A command's copy was not that of a cancelled service when it was read.
LoadedAlive == \A p \in Procs :
    task[p].kind = "command" => task[p].read.status # "cancelled"

\* A step that gives one process another task.
LEMMA AliveByTask ==
    ASSUME IInv, LoadedAlive, NEW p \in Procs, NEW t, Become(p, t),
           t.kind = "command" => t.read.status # "cancelled"
    PROVE  LoadedAlive'
BY DEF IInv, TasksOK, Become, LoadedAlive

LEMMA RunIsNoCommand ==
    ASSUME NEW copies, NEW left, NEW invoiced
    PROVE  Run(copies, left, invoiced).kind # "command"
BY DEF Run, Idle

LEMMA LoadAlive ==
    ASSUME IInv, LoadedAlive, NEW p \in Procs, NEW s, NEW status,
           Load(p, s, status), rows[s].status # "cancelled"
    PROVE  LoadedAlive'
<1>1. PICK t : t = [kind |-> "command", service |-> s, read |-> rows[s],
                    row |-> [rows[s] EXCEPT !.status = status]]
      OBVIOUS
<1>2. t.read.status # "cancelled"
      BY <1>1
<1>3. Become(p, t)
      BY <1>1 DEF Load
<1>. QED BY <1>2, <1>3, AliveByTask

LEMMA AliveHolds == IInv /\ LoadedAlive /\ [Next]_vars => LoadedAlive'
<1>. SUFFICES ASSUME IInv, LoadedAlive, [Next]_vars PROVE LoadedAlive'
     OBVIOUS
<1>1. ASSUME NEW p \in Procs, NEW copies, NEW left, NEW invoiced,
             Become(p, Run(copies, left, invoiced))
      PROVE  LoadedAlive'
  <2>1. PICK t : t = Run(copies, left, invoiced)
        OBVIOUS
  <2>2. t.kind # "command" /\ Become(p, t)
        BY <1>1, <2>1, RunIsNoCommand
  <2>. QED BY <2>2, AliveByTask
<1>2. ASSUME NEW p \in Procs, Become(p, Idle)
      PROVE  LoadedAlive'
  <2>1. PICK t : t = Idle
        OBVIOUS
  <2>2. t.kind # "command" /\ Become(p, t)
        BY <1>2, <2>1 DEF Idle
  <2>. QED BY <2>2, AliveByTask
<1>3. ASSUME NEW p \in Procs, Command(p)
      PROVE  LoadedAlive'
  <2>1. ASSUME NEW s \in Services, Suspend(p, s) \/ Reactivate(p, s) \/ Cancel(p, s)
        PROVE  LoadedAlive'
        BY <2>1, LoadAlive DEF Suspend, Reactivate, Cancel, MaySuspend, MayReactivate, MayCancel
  <2>2. CASE SaveCommand(p)
        BY <1>2, <2>2 DEF SaveCommand
  <2>. QED BY <1>3, <2>1, <2>2 DEF Command
<1>4. ASSUME NEW p \in Procs, StartRun(p) \/ RunStep(p)
      PROVE  LoadedAlive'
  <2>1. CASE StartRun(p)
        BY <1>1, <2>1 DEF StartRun
  <2>2. CASE GenerateInvoice(p)
        BY <1>1, <2>2 DEF GenerateInvoice
  <2>3. CASE MoveOn(p)
        BY <1>1, <2>3 DEF MoveOn, Done
  <2>. QED BY <1>4, <2>1, <2>2, <2>3 DEF RunStep
<1>5. ASSUME NEW p \in Procs, Failure(p)
      PROVE  LoadedAlive'
  <2>1. CASE SkipCustomer(p)
        BY <1>1, <2>1 DEF SkipCustomer
  <2>2. CASE FailToMoveOn(p)
        BY <1>1, <2>2 DEF FailToMoveOn, Done
  <2>3. CASE Abandon(p)
        BY <1>2, <2>3 DEF Abandon
  <2>. QED BY <1>5, <2>1, <2>2, <2>3 DEF Failure
<1>6. ASSUME task' = task
      PROVE  LoadedAlive'
      BY <1>6 DEF LoadedAlive
<1>. QED BY <1>3, <1>4, <1>5, <1>6 DEF Next, AssignService, Tick, vars

\* A row is only ever rewritten by a save.
LEMMA SavedAlone ==
    ASSUME IInv, NEW s, NEW row, Save(s, row), NEW t \in DOMAIN rows, t # s
    PROVE  rows'[t] = rows[t]
BY DEF Save

LEMMA MoveOnForGood ==
    ASSUME IInv, NEW p \in Procs, MoveOn(p), NEW s \in DOMAIN rows,
           rows[s].status = "cancelled", s \notin exposed'
    PROVE  rows'[s] = rows[s]
<1>1. PICK t \in NextInvoiced(p) :
         /\ Save(t, AdvanceNextBillingDate(task[p].copies[t]))
         /\ exposed' = IF rows[t] # task[p].copies[t] THEN exposed \cup {t} ELSE exposed
      BY DEF MoveOn
<1>2. t \in DOMAIN task[p].copies /\ task[p].copies[t].status = "active"
      BY <1>1, RunFacts DEF NextInvoiced, MoveOn
<1>3. s # t
      BY <1>1, <1>2
<1>. QED BY <1>1, <1>3, SavedAlone

LEMMA SaveForGood ==
    ASSUME IInv, LoadedAlive, NEW p \in Procs, SaveCommand(p), NEW s \in DOMAIN rows,
           rows[s].status = "cancelled", s \notin exposed'
    PROVE  rows'[s] = rows[s]
<1>1. task[p].kind = "command" /\ task[p].read.status # "cancelled"
      BY DEF SaveCommand, LoadedAlive
<1>2. s # task[p].service
      BY <1>1 DEF SaveCommand
<1>. QED BY <1>2, SavedAlone DEF SaveCommand

\* A cancelled service stays cancelled, and its billing date where it is, through
\* any number of commands and runs, unless a copy out of date is saved over it
\* (service.go:103).
THEOREM CancelledStays == Spec => CancelledForGood
<1>. DEFINE Stays == \A s \in DOMAIN rows :
               rows[s].status = "cancelled" /\ s \notin exposed' => rows'[s] = rows[s]
<1>1. Init => IInv /\ LoadedAlive
      BY InitHolds DEF Init, LoadedAlive, Idle
<1>2. IInv /\ LoadedAlive /\ [Next]_vars => (IInv /\ LoadedAlive)'
      BY NextHolds, AliveHolds
<1>3. IInv /\ LoadedAlive /\ [Next]_vars => [Stays]_vars
  <2>. SUFFICES ASSUME IInv, LoadedAlive, [Next]_vars, NEW s \in DOMAIN rows,
                       rows[s].status = "cancelled", s \notin exposed'
                PROVE  rows'[s] = rows[s]
       OBVIOUS
  <2>1. ASSUME NEW t \in Services, AssignService(t)
        PROVE  rows'[s] = rows[s]
        BY <2>1, SavedAlone DEF AssignService
  <2>2. ASSUME NEW p \in Procs, Command(p)
        PROVE  rows'[s] = rows[s]
        BY <2>2, SaveForGood DEF Command, Suspend, Reactivate, Cancel, Load
  <2>3. ASSUME NEW p \in Procs, StartRun(p) \/ RunStep(p) \/ Failure(p)
        PROVE  rows'[s] = rows[s]
        BY <2>3, MoveOnForGood DEF StartRun, RunStep, GenerateInvoice, Failure,
           SkipCustomer, FailToMoveOn, Abandon
  <2>. QED BY <2>1, <2>2, <2>3 DEF Next, Tick, vars
<1>. QED BY <1>1, <1>2, <1>3, PTL DEF Spec, CancelledForGood

-----------------------------------------------------------------------------
(* Scheduled jobs *)

\* Whether a run has the job in hand, or is at it.
Holds(p, id) == work[p].kind = "run" /\ id \in DOMAIN work[p].due
IsAt(p, id) == work[p].kind = "run" /\ id \in work[p].ran

\* Either deployment goes without the other's state.
Deployed ==
    /\ deployed = "system cron" => DOMAIN entries = {} /\ DOMAIN running = {}
    /\ deployed # "system cron" => \A p \in Callers : work[p].kind # "run"

\* The daemon does not start a job again in the minute it ran.
EntriesAhead ==
    \A id \in DOMAIN entries :
       id \in DOMAIN ranAt /\ ranAt[id] = clock => entries[id].at > clock

RanBefore ==
    /\ DOMAIN ranAt \subseteq DOMAIN jobs
    /\ \A id \in DOMAIN ranAt : ranAt[id] \in Nat /\ ranAt[id] <= clock

\* What a run has in hand is the row, and in no other run's hand.
InOneHand(id) ==
    /\ \A p \in Callers : Holds(p, id) =>
          work[p].due[id] = jobs[id] /\ jobs[id].nextRun <= clock
    /\ \A p, q \in Callers : Holds(p, id) /\ Holds(q, id) => p = q

\* A job that ran this minute, and was recorded, is not due again, nor would any
\* command make it so whose copy is not out of date.
NotDueAgain(id) ==
    id \in DOMAIN ranAt /\ ranAt[id] = clock /\ (\A p \in Callers : ~ IsAt(p, id)) =>
       /\ jobs[id].nextRun > clock
       /\ \A p \in CommandsOn(id) \ stale : work[p].job.nextRun > clock

Kept(id) == StandsAsEdited(id) /\ InOneHand(id) /\ NotDueAgain(id)

JobsKept == deployed = "system cron" => \A id \in DOMAIN jobs \ raced : Kept(id)

CronInv == Deployed /\ EntriesAhead /\ RanBefore /\ OncePerMinute /\ JobsKept

CronTypes == CronTypeOK /\ clock \in Nat /\ DOMAIN work = Callers

\* A multiple of the schedule comes after any time.
LEMMA NextTimeIsLater ==
    ASSUME NEW s \in Nat \ {0}, NEW t \in Nat
    PROVE  NextTime(s, t) \in Nat /\ NextTime(s, t) > t
<1>1. PICK q \in Nat, r \in 0..(s - 1) : t \div s = q /\ t = s * q + r
    <2>1. t = s * (t \div s) + (t % s) /\ t % s \in 0..(s - 1) /\ t \div s \in Nat
        BY Z3
    <2> QED BY <2>1
<1>2. NextTime(s, t) = s * q + s
    BY <1>1 DEF NextTime
<1>3. s * q \in Nat
    BY <1>1
<1> QED BY <1>1, <1>2, <1>3

LEMMA TakeIs ==
    ASSUME NEW p \in Callers, NEW t, DOMAIN work = Callers, Take(p, t)
    PROVE  /\ DOMAIN work' = Callers
           /\ work'[p] = t
           /\ \A q \in Callers \ {p} : work'[q] = work[q]
BY DEF Take

LEMMA RunOfIs ==
    ASSUME NEW due, NEW ran
    PROVE  \/ RunOf(due, ran) = Free /\ RunOf(due, ran).kind = "none" /\ DOMAIN due = {}
           \/ /\ RunOf(due, ran).kind = "run"
              /\ RunOf(due, ran).due = due /\ RunOf(due, ran).ran = ran
BY DEF RunOf, Free

\* What a command or a run makes of a job is a job.
LEMMA JobsStayJobs ==
    ASSUME NEW job \in Job, clock \in Nat
    PROVE  /\ AdvanceNextRun(job) \in Job
           /\ AdvanceNextRun(job).status = job.status
           /\ AdvanceNextRun(job).schedule = job.schedule
           /\ AdvanceNextRun(job).nextRun > clock
           /\ AdvanceNextRun(job).nextRun > job.nextRun
           /\ \A j \in Paused(job) \cup Resumed(job) \cup Updated(job) \cup Deleted(job) :
                 j \in Job /\ (j.nextRun = job.nextRun \/ j.nextRun > clock)
<1>1. job.schedule \in Nat \ {0} /\ job.nextRun \in Nat
    BY SchedulesAssumption DEF Job
<1>2. Later(job.nextRun, clock) \in Nat /\ Later(job.nextRun, clock) >= clock
      /\ Later(job.nextRun, clock) >= job.nextRun
    BY <1>1 DEF Later
<1>3. /\ NextTime(job.schedule, Later(job.nextRun, clock)) \in Nat
      /\ NextTime(job.schedule, Later(job.nextRun, clock)) > Later(job.nextRun, clock)
    BY <1>1, <1>2, NextTimeIsLater
<1>4. \A s \in Schedules : NextTime(s, clock) \in Nat /\ NextTime(s, clock) > clock
    BY SchedulesAssumption, NextTimeIsLater
<1>5. /\ AdvanceNextRun(job) \in Job
      /\ AdvanceNextRun(job).status = job.status
      /\ AdvanceNextRun(job).schedule = job.schedule
      /\ AdvanceNextRun(job).nextRun > clock
      /\ AdvanceNextRun(job).nextRun > job.nextRun
    BY <1>1, <1>2, <1>3 DEF AdvanceNextRun, Job
<1>6. ASSUME NEW j \in Paused(job) PROVE j \in Job /\ j.nextRun = job.nextRun
    BY <1>6 DEF Paused, Job
<1>7. ASSUME NEW j \in Deleted(job) PROVE j \in Job /\ j.nextRun = job.nextRun
    BY <1>7 DEF Deleted, Job
<1>8. ASSUME NEW j \in Resumed(job) PROVE j \in Job /\ j.nextRun > clock
    <2>1. job.schedule \in Schedules
        BY DEF Job
    <2> QED BY <1>8, <2>1, <1>4 DEF Resumed, Job
<1>9. ASSUME NEW j \in Updated(job) PROVE j \in Job /\ j.nextRun > clock
    BY <1>9, <1>4 DEF Updated, Job
<1> QED BY <1>5, <1>6, <1>7, <1>8, <1>9

\* A process that has nothing to do, or goes on with part of its list, is in order.
LEMMA WorkStays ==
    ASSUME NEW t, IsWork(t), DOMAIN jobs \subseteq DOMAIN jobs'
    PROVE  IsWork(t)'
BY DEF IsWork

LEMMA WorksStay ==
    ASSUME CronTypes, NEW p \in Callers, NEW t, Take(p, t), IsWork(t)',
           DOMAIN jobs \subseteq DOMAIN jobs'
    PROVE  DOMAIN work' = Callers /\ \A q \in Callers : IsWork(work[q])'
<1>1. /\ DOMAIN work' = Callers /\ work'[p] = t
      /\ \A q \in Callers \ {p} : work'[q] = work[q]
    BY TakeIs DEF CronTypes
<1>2. ASSUME NEW q \in Callers PROVE IsWork(work[q])'
    <2>1. CASE q = p
        BY <2>1, <1>1
    <2>2. CASE q # p
        <3>1. PICK u : u = work[q]
            OBVIOUS
        <3>2. IsWork(u)'
            BY <3>1, WorkStays DEF CronTypes, CronTypeOK
        <3> QED BY <2>2, <1>1, <3>1, <3>2
    <2> QED BY <2>1, <2>2
<1> QED BY <1>1, <1>2

LEMMA SameWork ==
    ASSUME CronTypes, work' = work, DOMAIN jobs \subseteq DOMAIN jobs'
    PROVE  DOMAIN work' = Callers /\ \A q \in Callers : IsWork(work[q])'
<1>1. ASSUME NEW q \in Callers PROVE IsWork(work[q])'
    <2>1. PICK u : u = work[q]
        OBVIOUS
    <2>2. IsWork(u)'
        BY <2>1, WorkStays DEF CronTypes, CronTypeOK
    <2> QED BY <2>1, <2>2
<1> QED BY <1>1 DEF CronTypes

LEMMA FreeIsWork == IsWork(Free)'
BY DEF IsWork, Free

LEMMA PutIs ==
    ASSUME NEW f, NEW id, NEW x
    PROVE  /\ DOMAIN Put(f, id, x) = DOMAIN f \cup {id}
           /\ Put(f, id, x)[id] = x
           /\ \A i \in DOMAIN f \ {id} : Put(f, id, x)[i] = f[i]
BY DEF Put

LEMMA DropIs ==
    ASSUME NEW f, NEW id
    PROVE  DOMAIN Drop(f, id) = DOMAIN f \ {id} /\ \A i \in DOMAIN f \ {id} : Drop(f, id)[i] = f[i]
BY DEF Drop

\* The jobs that runs have in hand.
LEMMA HeldIs ==
    ASSUME NEW id
    PROVE  id \in Held <=> id \in DOMAIN running \/ \E p \in Callers : Holds(p, id)
BY DEF Held, Holds

-----------------------------------------------------------------------------
(* Types *)

LEMMA CronInitTypes == CronInit => CronTypes
BY MinutesAssumption DEF CronInit, CronTypes, CronTypeOK, IsWork, Free

LEMMA AddJobTypes ==
    ASSUME CronTypes, NEW id \in Jobs, AddJob(id)
    PROVE  CronTypes'
<1> USE DEF CronTypes, CronTypeOK
<1>1. PICK s \in Schedules : jobs' = Put(jobs, id, NewJob(s)) /\ edited' = Put(edited, id, <<"active", s>>)
    BY DEF AddJob
<1>2. NewJob(s) \in Job
    <2>1. s \in Nat \ {0} /\ clock \in Nat
        BY SchedulesAssumption
    <2>2. NextTime(s, clock) \in Nat
        BY <2>1, NextTimeIsLater
    <2> QED BY <2>2 DEF NewJob, Job
<1>3. /\ DOMAIN jobs' = DOMAIN jobs \cup {id} /\ DOMAIN edited' = DOMAIN edited \cup {id}
      /\ \A i \in DOMAIN jobs' : jobs'[i] \in Job
    BY <1>1, <1>2 DEF Put
<1>4. DOMAIN work' = Callers /\ \A q \in Callers : IsWork(work[q])'
    BY <1>3, SameWork DEF AddJob
<1> QED BY <1>3, <1>4 DEF AddJob, daemon

LEMMA LoadJobTypes ==
    ASSUME CronTypes, NEW p \in Callers, NEW id \in Jobs, LoadJob(p, id)
    PROVE  CronTypes'
<1> USE DEF CronTypes, CronTypeOK
<1>1. PICK job \in Paused(jobs[id]) \cup Resumed(jobs[id]) \cup Updated(jobs[id]) \cup Deleted(jobs[id]) :
          Take(p, [kind |-> "command", id |-> id, job |-> job])
    BY DEF LoadJob
<1>2. job \in Job
    BY JobsStayJobs DEF LoadJob
<1>3. jobs' = jobs /\ IsWork([kind |-> "command", id |-> id, job |-> job])'
    BY <1>2 DEF LoadJob, IsWork
<1>4. DOMAIN work' = Callers /\ \A q \in Callers : IsWork(work[q])'
    BY <1>1, <1>3, WorksStay
<1> QED BY <1>3, <1>4, MinutesAssumption DEF LoadJob, HasTrouble, daemon, history

LEMMA SaveJobTypes ==
    ASSUME CronTypes, NEW p \in Callers, SaveJob(p)
    PROVE  CronTypes'
<1> USE DEF CronTypes, CronTypeOK
<1> DEFINE id == work[p].id
           job == work[p].job
<1>1. id \in DOMAIN jobs /\ job \in Job
    BY DEF SaveJob, IsWork, Free
<1>2. jobs' = Put(jobs, id, job) /\ edited' = Put(edited, id, <<job.status, job.schedule>>)
    BY DEF SaveJob
<1>3. /\ DOMAIN jobs' = DOMAIN jobs /\ DOMAIN edited' = DOMAIN edited
      /\ \A i \in DOMAIN jobs' : jobs'[i] \in Job
    BY <1>1, <1>2 DEF Put
<1>4. DOMAIN work' = Callers /\ \A q \in Callers : IsWork(work[q])'
    BY <1>3, WorksStay, FreeIsWork DEF SaveJob
<1> QED BY <1>3, <1>4 DEF SaveJob, daemon

\* What is left of a run's list is a run's list.
LEMMA RunIsWork ==
    ASSUME NEW due, NEW ran, NEW w, w = RunOf(due, ran), DOMAIN due \subseteq DOMAIN jobs',
           \A id \in DOMAIN due : due[id] \in Job /\ due[id].status = "active",
           ran \subseteq DOMAIN due, \A i, j \in ran : i = j
    PROVE  IsWork(w)'
<1>1. CASE w = Free
    BY <1>1, FreeIsWork
<1>2. CASE w.kind = "run" /\ w.due = due /\ w.ran = ran
    BY <1>2 DEF IsWork
<1> QED BY <1>1, <1>2, RunOfIs

\* A run's work.
LEMMA ListFacts ==
    ASSUME CronTypes, NEW p \in Callers, work[p].kind = "run"
    PROVE  /\ DOMAIN work[p].due \subseteq DOMAIN jobs
           /\ \A id \in DOMAIN work[p].due : work[p].due[id] \in Job /\ work[p].due[id].status = "active"
           /\ work[p].ran \subseteq DOMAIN work[p].due
           /\ \A i, j \in work[p].ran : i = j
BY DEF CronTypes, CronTypeOK, IsWork, Free

\* What is left of its list once a job is dealt with.
LEMMA LessIsWork ==
    ASSUME CronTypes, NEW p \in Callers, work[p].kind = "run", NEW id, DOMAIN jobs' = DOMAIN jobs
    PROVE  \E w : w = RunOf(Drop(work[p].due, id), {}) /\ IsWork(w)'
<1>1. PICK f : f = work[p].due
    OBVIOUS
<1>2. PICK due, w : due = Drop(f, id) /\ w = RunOf(due, {})
    OBVIOUS
<1>3. DOMAIN due \subseteq DOMAIN f /\ \A i \in DOMAIN due : due[i] = f[i]
    BY <1>2 DEF Drop
<1>4. DOMAIN f \subseteq DOMAIN jobs' /\ \A i \in DOMAIN f : f[i] \in Job /\ f[i].status = "active"
    <2>1. /\ DOMAIN work[p].due \subseteq DOMAIN jobs
          /\ \A i \in DOMAIN work[p].due : work[p].due[i] \in Job /\ work[p].due[i].status = "active"
        BY ListFacts
    <2> QED BY <1>1, <2>1
<1>5. /\ DOMAIN due \subseteq DOMAIN jobs'
      /\ \A i \in DOMAIN due : due[i] \in Job /\ due[i].status = "active"
    BY <1>3, <1>4
<1>6. {} \subseteq DOMAIN due /\ \A i, j \in {} : i = j
    OBVIOUS
<1>7. IsWork(w)'
    BY <1>2, <1>5, <1>6, RunIsWork
<1> QED BY <1>1, <1>2, <1>7

LEMMA RunDueJobsTypes ==
    ASSUME CronTypes, NEW p \in Callers, RunDueJobs(p)
    PROVE  CronTypes'
<1> USE DEF CronTypes, CronTypeOK
<1> DEFINE due == [id \in ListDue |-> jobs[id]]
<1>1. /\ DOMAIN due = ListDue /\ ListDue \subseteq DOMAIN jobs
      /\ \A id \in ListDue : due[id] \in Job /\ due[id].status = "active"
    BY DEF ListDue
<1>2. jobs' = jobs /\ Take(p, RunOf(due, {}))
    BY DEF RunDueJobs
<1> HIDE DEF due
<1>3. PICK d, w : d = due /\ w = RunOf(d, {})
    OBVIOUS
<1>4. {} \subseteq DOMAIN d /\ \A i, j \in {} : i = j
    OBVIOUS
<1>5. /\ DOMAIN d \subseteq DOMAIN jobs'
      /\ \A id \in DOMAIN d : d[id] \in Job /\ d[id].status = "active"
    BY <1>1, <1>2, <1>3
<1>6. IsWork(w)'
    BY <1>3, <1>4, <1>5, RunIsWork
<1>7. DOMAIN work' = Callers /\ \A q \in Callers : IsWork(work[q])'
    BY <1>2, <1>3, <1>6, WorksStay
<1> QED BY <1>2, <1>7 DEF RunDueJobs, daemon, history

LEMMA ExecuteTypes ==
    ASSUME CronTypes, NEW p \in Callers, Execute(p)
    PROVE  CronTypes'
<1> USE DEF CronTypes, CronTypeOK
<1>1. PICK id \in DOMAIN work[p].due : NoteRun(id) /\ Take(p, RunOf(work[p].due, {id}))
    BY DEF Execute
<1>2. jobs' = jobs /\ work[p].kind = "run"
    BY DEF Execute
<1>3. PICK d, w : d = work[p].due /\ w = RunOf(d, {id})
    OBVIOUS
<1>4. {id} \subseteq DOMAIN d /\ \A i, j \in {id} : i = j
    BY <1>3
<1>5. /\ DOMAIN d \subseteq DOMAIN jobs'
      /\ \A i \in DOMAIN d : d[i] \in Job /\ d[i].status = "active"
    BY <1>2, <1>3, ListFacts
<1>6. IsWork(w)'
    BY <1>3, <1>4, <1>5, RunIsWork
<1>7. DOMAIN work' = Callers /\ \A q \in Callers : IsWork(work[q])'
    BY <1>1, <1>2, <1>3, <1>6, WorksStay
<1> QED BY <1>2, <1>7 DEF Execute, daemon

LEMMA RecordRunTypes ==
    ASSUME CronTypes, NEW p \in Callers, RecordRun(p)
    PROVE  CronTypes'
<1> USE DEF CronTypes, CronTypeOK
<1>0. work[p].kind = "run"
    BY DEF RecordRun
<1>1. PICK id \in work[p].ran : /\ jobs' = Put(jobs, id, AdvanceNextRun(work[p].due[id]))
                                /\ Take(p, RunOf(Drop(work[p].due, id), {}))
    BY DEF RecordRun
<1>2. id \in DOMAIN jobs /\ AdvanceNextRun(work[p].due[id]) \in Job
    <2>1. id \in DOMAIN jobs /\ work[p].due[id] \in Job
        BY <1>0, ListFacts
    <2> QED BY <2>1, JobsStayJobs
<1>3. DOMAIN jobs' = DOMAIN jobs /\ \A i \in DOMAIN jobs' : jobs'[i] \in Job
    BY <1>1, <1>2 DEF Put
<1>4. PICK w : w = RunOf(Drop(work[p].due, id), {}) /\ IsWork(w)'
    BY <1>0, <1>3, LessIsWork
<1>5. DOMAIN work' = Callers /\ \A q \in Callers : IsWork(work[q])'
    BY <1>1, <1>3, <1>4, WorksStay
<1> QED BY <1>3, <1>5 DEF RecordRun, daemon, history

LEMMA LoseRecordTypes ==
    ASSUME CronTypes, NEW p \in Callers, LoseRecord(p)
    PROVE  CronTypes'
<1> USE DEF CronTypes, CronTypeOK
<1>0. work[p].kind = "run" /\ jobs' = jobs
    BY DEF LoseRecord
<1>1. PICK id \in work[p].ran : Take(p, RunOf(Drop(work[p].due, id), {})) \/ Take(p, Free)
    BY DEF LoseRecord
<1>2. PICK w : w = RunOf(Drop(work[p].due, id), {}) /\ IsWork(w)'
    BY <1>0, LessIsWork
<1>3. DOMAIN work' = Callers /\ \A q \in Callers : IsWork(work[q])'
    BY <1>0, <1>1, <1>2, WorksStay, FreeIsWork
<1> QED BY <1>0, <1>3, MinutesAssumption DEF LoseRecord, HasTrouble, daemon, history

LEMMA ReloadTypes ==
    ASSUME CronTypes, Reload
    PROVE  CronTypes'
<1> USE DEF CronTypes, CronTypeOK
<1>1. ASSUME NEW id \in Active
      PROVE  /\ jobs[id] \in Job /\ jobs[id].status = "active"
             /\ NextTime(jobs[id].schedule, clock) \in Nat
    <2>1. jobs[id] \in Job /\ jobs[id].status = "active"
        BY DEF Active
    <2>2. jobs[id].schedule \in Nat \ {0} /\ clock \in Nat
        BY <2>1, SchedulesAssumption DEF Job
    <2> QED BY <2>1, <2>2, NextTimeIsLater
<1>2. DOMAIN entries' = Active /\ Active \subseteq DOMAIN jobs
    BY DEF Reload, Active
<1>3. ASSUME NEW id \in DOMAIN entries'
      PROVE  entries'[id] \in [job : Job, at : Nat] /\ entries'[id].job.status = "active"
    <2>1. CASE id \in DOMAIN entries
        BY <1>2, <2>1 DEF Reload
    <2>2. CASE id \notin DOMAIN entries
        BY <1>1, <1>2, <2>2 DEF Reload
    <2> QED BY <2>1, <2>2
<1>4. DOMAIN work' = Callers /\ \A q \in Callers : IsWork(work[q])'
    BY SameWork DEF Reload
<1> QED BY <1>2, <1>3, <1>4 DEF Reload, history

LEMMA FireTypes ==
    ASSUME CronTypes, NEW id \in Jobs, Fire(id)
    PROVE  CronTypes'
<1> USE DEF CronTypes, CronTypeOK
<1>1. id \in DOMAIN entries /\ entries[id].job \in Job /\ clock \in Nat
    BY DEF Fire
<1>2. NextTime(entries[id].job.schedule, clock) \in Nat
    <2>1. entries[id].job.schedule \in Nat \ {0}
        BY <1>1, SchedulesAssumption DEF Job
    <2> QED BY <1>1, <2>1, NextTimeIsLater
<1>3. /\ DOMAIN entries' = DOMAIN entries
      /\ \A i \in DOMAIN entries' :
            entries'[i] \in [job : Job, at : Nat] /\ entries'[i].job = entries[i].job
    <2>1. PICK at : at = NextTime(entries[id].job.schedule, clock)
        OBVIOUS
    <2>2. entries' = [entries EXCEPT ![id] = [entries[id] EXCEPT !.at = at]]
        BY <2>1 DEF Fire
    <2>3. PICK e : e = [entries[id] EXCEPT !.at = at]
        OBVIOUS
    <2>4. e \in [job : Job, at : Nat] /\ e.job = entries[id].job
        BY <1>1, <1>2, <2>1, <2>3
    <2>5. DOMAIN entries' = DOMAIN entries /\ entries'[id] = e
          /\ \A i \in DOMAIN entries \ {id} : entries'[i] = entries[i]
        BY <1>1, <2>2, <2>3
    <2> QED BY <2>4, <2>5
<1>4. /\ DOMAIN running' = DOMAIN running \cup {id}
      /\ \A i \in DOMAIN running' : running'[i] \in Job /\ running'[i].status = "active"
    BY <1>1 DEF Fire, Put
<1>5. DOMAIN work' = Callers /\ \A q \in Callers : IsWork(work[q])'
    BY SameWork DEF Fire
<1> QED BY <1>1, <1>3, <1>4, <1>5 DEF Fire

LEMMA FinishFireTypes ==
    ASSUME CronTypes, NEW id \in Jobs, FinishFire(id)
    PROVE  CronTypes'
<1> USE DEF CronTypes, CronTypeOK
<1> DEFINE job == AdvanceNextRun(running[id])
<1>1. id \in DOMAIN running /\ jobs' = Put(jobs, id, job) /\ running' = Drop(running, id)
      /\ entries' = [i \in DOMAIN entries |->
                       IF i = id THEN [entries[i] EXCEPT !.job = job] ELSE entries[i]]
    BY DEF FinishFire
<1>2. job \in Job /\ job.status = "active" /\ id \in DOMAIN jobs
    BY <1>1, JobsStayJobs
<1>3. DOMAIN jobs' = DOMAIN jobs /\ \A i \in DOMAIN jobs' : jobs'[i] \in Job
    BY <1>1, <1>2 DEF Put
<1>4. DOMAIN running' \subseteq DOMAIN running /\ \A i \in DOMAIN running' : running'[i] \in Job /\ running'[i].status = "active"
    BY <1>1 DEF Drop
<1>5. DOMAIN work' = Callers /\ \A q \in Callers : IsWork(work[q])'
    BY <1>3, SameWork DEF FinishFire
<1> QED BY <1>1, <1>2, <1>3, <1>4, <1>5 DEF FinishFire, history

LEMMA RestartTypes ==
    ASSUME CronTypes, Restart
    PROVE  CronTypes'
<1> USE DEF CronTypes, CronTypeOK
<1>1. DOMAIN work' = Callers /\ \A q \in Callers : IsWork(work[q])'
    BY SameWork DEF Restart
<1> QED BY <1>1, MinutesAssumption DEF Restart, HasTrouble, history

LEMMA NextMinuteTypes ==
    ASSUME CronTypes, NextMinute
    PROVE  CronTypes'
<1> USE DEF CronTypes, CronTypeOK
<1>1. DOMAIN work' = Callers /\ \A q \in Callers : IsWork(work[q])'
    BY SameWork DEF NextMinute
<1> QED BY <1>1, MinutesAssumption DEF NextMinute, history

LEMMA CronStutterTypes ==
    ASSUME CronTypes, UNCHANGED cronVars
    PROVE  CronTypes'
<1> USE DEF CronTypes, CronTypeOK
<1>1. DOMAIN work' = Callers /\ \A q \in Callers : IsWork(work[q])'
    BY SameWork DEF cronVars
<1> QED BY <1>1 DEF cronVars

LEMMA CronNextTypes == CronTypes /\ [CronNext]_cronVars => CronTypes'
<1> SUFFICES ASSUME CronTypes, [CronNext]_cronVars PROVE CronTypes'
    OBVIOUS
<1>1. ASSUME NEW id \in Jobs, AddJob(id) PROVE CronTypes'
    BY <1>1, AddJobTypes
<1>2. ASSUME NEW id \in Jobs, Fire(id) PROVE CronTypes'
    BY <1>2, FireTypes
<1>3. ASSUME NEW id \in Jobs, FinishFire(id) PROVE CronTypes'
    BY <1>3, FinishFireTypes
<1>4. ASSUME NEW p \in Callers, NEW id \in Jobs, LoadJob(p, id) PROVE CronTypes'
    BY <1>4, LoadJobTypes
<1>5. ASSUME NEW p \in Callers, SaveJob(p) PROVE CronTypes'
    BY <1>5, SaveJobTypes
<1>6. ASSUME NEW p \in Callers, RunDueJobs(p) PROVE CronTypes'
    BY <1>6, RunDueJobsTypes
<1>7. ASSUME NEW p \in Callers, Execute(p) PROVE CronTypes'
    BY <1>7, ExecuteTypes
<1>8. ASSUME NEW p \in Callers, RecordRun(p) PROVE CronTypes'
    BY <1>8, RecordRunTypes
<1>9. ASSUME NEW p \in Callers, LoseRecord(p) PROVE CronTypes'
    BY <1>9, LoseRecordTypes
<1>10. CASE Reload
    BY <1>10, ReloadTypes
<1>11. CASE Restart
    BY <1>11, RestartTypes
<1>12. CASE NextMinute
    BY <1>12, NextMinuteTypes
<1>13. CASE UNCHANGED cronVars
    BY <1>13, CronStutterTypes
<1> QED BY <1>1, <1>2, <1>3, <1>4, <1>5, <1>6, <1>7, <1>8, <1>9, <1>10, <1>11, <1>12, <1>13 DEF CronNext

-----------------------------------------------------------------------------
(* A job nothing was out of date about *)

\* A step of one process that is not about the job.
LEMMA Untouched ==
    ASSUME CronTypes, NEW p \in Callers, NEW t, Take(p, t), NEW id, Kept(id),
           clock' = clock, jobs'[id] = jobs[id], edited'[id] = edited[id],
           id \in DOMAIN ranAt' => id \in DOMAIN ranAt /\ ranAt'[id] = ranAt[id],
           t.kind = "run" /\ id \in DOMAIN t.due => Holds(p, id) /\ t.due[id] = work[p].due[id],
           IsAt(p, id) => t.kind = "run" /\ id \in t.ran,
           ~ (t.kind = "command" /\ t.id = id),
           stale \subseteq stale' \cup {p}
    PROVE  Kept(id)'
<1>1. /\ work'[p] = t
      /\ \A q \in Callers \ {p} : work'[q] = work[q]
    BY TakeIs DEF CronTypes
<1>2. StandsAsEdited(id)'
    BY DEF Kept, StandsAsEdited
<1>3. ASSUME NEW q \in Callers, Holds(q, id)'
      PROVE  Holds(q, id) /\ work'[q].due[id] = work[q].due[id]
    <2>1. CASE q = p
        BY <1>1, <1>3, <2>1 DEF Holds
    <2>2. CASE q # p
        BY <1>1, <1>3, <2>2 DEF Holds
    <2> QED BY <2>1, <2>2
<1>4. InOneHand(id)'
    BY <1>3 DEF Kept, InOneHand
<1>5. ASSUME NEW q \in Callers, IsAt(q, id)
      PROVE  IsAt(q, id)'
    <2>1. CASE q = p
        BY <1>1, <1>5, <2>1 DEF IsAt
    <2>2. CASE q # p
        BY <1>1, <1>5, <2>2 DEF IsAt
    <2> QED BY <2>1, <2>2
<1>6. ASSUME NEW q \in CommandsOn(id)', q \notin stale'
      PROVE  q \in CommandsOn(id) \ stale /\ work'[q].job = work[q].job
    <2>1. q \in Callers /\ q # p
        BY <1>1, <1>6 DEF CommandsOn
    <2> QED BY <1>1, <1>6, <2>1 DEF CommandsOn
<1>7. NotDueAgain(id)'
    BY <1>5, <1>6 DEF Kept, NotDueAgain
<1> QED BY <1>2, <1>4, <1>7 DEF Kept

\* A step of no process that is not about the job.
LEMMA UntouchedByNone ==
    ASSUME CronTypes, work' = work, NEW id, Kept(id),
           clock' = clock, jobs'[id] = jobs[id], edited'[id] = edited[id],
           id \in DOMAIN ranAt' => id \in DOMAIN ranAt /\ ranAt'[id] = ranAt[id],
           stale \subseteq stale'
    PROVE  Kept(id)'
<1>1. StandsAsEdited(id)'
    BY DEF Kept, StandsAsEdited
<1>2. InOneHand(id)'
    BY DEF Kept, InOneHand, Holds
<1>3. NotDueAgain(id)'
    BY DEF Kept, NotDueAgain, IsAt, CommandsOn
<1> QED BY <1>1, <1>2, <1>3 DEF Kept

\* Who is at a job holds it.
LEMMA AtIsHeld ==
    ASSUME CronTypes, NEW p \in Callers, NEW id, IsAt(p, id)
    PROVE  Holds(p, id)
BY ListFacts DEF IsAt, Holds

LEMMA OnlyKnownHeld ==
    ASSUME CronTypes, NEW p \in Callers, NEW id, Holds(p, id)
    PROVE  id \in DOMAIN jobs
BY ListFacts DEF Holds

-----------------------------------------------------------------------------
(* The actions *)

LEMMA CronInitInv == CronInit => CronInv
<1> SUFFICES ASSUME CronInit PROVE CronInv
    OBVIOUS
<1>1. /\ DOMAIN jobs = {} /\ DOMAIN entries = {} /\ DOMAIN running = {} /\ DOMAIN ranAt = {}
      /\ again = {}
    BY DEF CronInit
<1>2. \A p \in Callers : work[p].kind # "run"
    BY DEF CronInit, Free
<1>3. Deployed /\ EntriesAhead /\ RanBefore /\ OncePerMinute
    BY <1>1, <1>2 DEF Deployed, EntriesAhead, RanBefore, OncePerMinute
<1>4. JobsKept
    BY <1>1 DEF JobsKept
<1> QED BY <1>3, <1>4 DEF CronInv

LEMMA AddJobInv ==
    ASSUME CronTypes, CronInv, NEW id \in Jobs, AddJob(id)
    PROVE  CronInv'
<1>1. PICK s \in Schedules : jobs' = Put(jobs, id, NewJob(s)) /\ edited' = Put(edited, id, <<"active", s>>)
    BY DEF AddJob
<1>2. /\ id \notin DOMAIN jobs /\ work' = work /\ clock' = clock /\ deployed' = deployed
      /\ entries' = entries /\ running' = running /\ ranAt' = ranAt /\ again' = again
      /\ stale' = stale /\ raced' = raced
    BY DEF AddJob, daemon
<1>3. /\ DOMAIN jobs' = DOMAIN jobs \cup {id}
      /\ jobs'[id] = NewJob(s) /\ edited'[id] = <<"active", s>>
      /\ \A i \in DOMAIN jobs : jobs'[i] = jobs[i] /\ edited'[i] = edited[i]
    BY <1>1, <1>2 DEF Put, CronTypes, CronTypeOK
<1>4. Deployed' /\ EntriesAhead' /\ RanBefore' /\ OncePerMinute'
    BY <1>2, <1>3 DEF CronInv, Deployed, EntriesAhead, RanBefore, OncePerMinute
<1>5. ASSUME deployed = "system cron", NEW i \in DOMAIN jobs', i \notin raced PROVE Kept(i)'
    <2>1. CASE i = id
        <3>1. \A p \in Callers : ~ Holds(p, id)'
            BY <1>2, OnlyKnownHeld DEF Holds
        <3>2. id \notin DOMAIN ranAt'
            BY <1>2 DEF CronInv, RanBefore
        <3>3. StandsAsEdited(id)'
            BY <1>3 DEF StandsAsEdited, NewJob
        <3> QED BY <2>1, <3>1, <3>2, <3>3 DEF Kept, InOneHand, NotDueAgain
    <2>2. CASE i # id
        <3>1. i \in DOMAIN jobs /\ Kept(i)
            BY <1>3, <1>5, <2>2 DEF CronInv, JobsKept
        <3> QED BY <1>2, <1>3, <3>1, UntouchedByNone
    <2> QED BY <2>1, <2>2
<1>6. JobsKept'
    BY <1>2, <1>5 DEF JobsKept
<1> QED BY <1>4, <1>6 DEF CronInv

LEMMA LoadJobInv ==
    ASSUME CronTypes, CronInv, NEW p \in Callers, NEW id \in Jobs, LoadJob(p, id)
    PROVE  CronInv'
<1>1. PICK job \in Paused(jobs[id]) \cup Resumed(jobs[id]) \cup Updated(jobs[id]) \cup Deleted(jobs[id]) :
          Take(p, [kind |-> "command", id |-> id, job |-> job])
    BY DEF LoadJob
<1>2. /\ jobs' = jobs /\ edited' = edited /\ clock' = clock /\ deployed' = deployed
      /\ entries' = entries /\ running' = running /\ ranAt' = ranAt /\ again' = again
      /\ stale' = stale /\ raced' = raced /\ id \in DOMAIN jobs /\ work[p].kind = "none"
    BY DEF LoadJob, daemon, history, IsFree
<1>3. PICK t : t = [kind |-> "command", id |-> id, job |-> job]
    OBVIOUS
<1>4. t.kind = "command" /\ t.id = id /\ t.job = job
    BY <1>3
<1>5. /\ Take(p, t) /\ work'[p] = t
      /\ \A q \in Callers \ {p} : work'[q] = work[q]
    BY <1>1, <1>3, TakeIs DEF CronTypes
<1>6. job.nextRun = jobs[id].nextRun \/ job.nextRun > clock
    BY <1>2, JobsStayJobs DEF CronTypes, CronTypeOK
<1>7. \A q \in Callers : work'[q].kind = "run" <=> work[q].kind = "run"
    BY <1>2, <1>4, <1>5
<1>8. Deployed' /\ EntriesAhead' /\ RanBefore' /\ OncePerMinute'
    BY <1>2, <1>7 DEF CronInv, Deployed, EntriesAhead, RanBefore, OncePerMinute
<1>9. ASSUME deployed = "system cron", NEW i \in DOMAIN jobs, i \notin raced PROVE Kept(i)'
    <2>0. Kept(i)
        BY <1>9 DEF CronInv, JobsKept
    <2>1. CASE i = id
        <3>1. \A q \in Callers : /\ Holds(q, id)' <=> Holds(q, id)
                                 /\ Holds(q, id) => work'[q] = work[q]
                                 /\ IsAt(q, id)' <=> IsAt(q, id)
            BY <1>2, <1>4, <1>5 DEF Holds, IsAt
        <3>2. StandsAsEdited(id)'
            BY <1>2, <2>0, <2>1 DEF StandsAsEdited, Kept
        <3>3. InOneHand(id)'
            BY <1>2, <2>0, <2>1, <3>1 DEF InOneHand, Kept
        <3>4. ASSUME id \in DOMAIN ranAt, ranAt[id] = clock, \A q \in Callers : ~ IsAt(q, id)
              PROVE  /\ jobs[id].nextRun > clock
                     /\ \A q \in CommandsOn(id)' \ stale' : work'[q].job.nextRun > clock
            <4>1. /\ jobs[id].nextRun > clock
                  /\ \A q \in CommandsOn(id) \ stale : work[q].job.nextRun > clock
                BY <2>0, <2>1, <3>4 DEF Kept, NotDueAgain
            <4>2. ASSUME NEW q \in CommandsOn(id)' \ stale' PROVE work'[q].job.nextRun > clock
                <5>1. CASE q = p
                    BY <1>4, <1>5, <1>6, <4>1, <5>1
                <5>2. CASE q # p
                    BY <1>2, <1>5, <4>1, <4>2, <5>2 DEF CommandsOn
                <5> QED BY <5>1, <5>2
            <4> QED BY <4>1, <4>2
        <3>5. NotDueAgain(id)'
            BY <1>2, <3>1, <3>4 DEF NotDueAgain
        <3> QED BY <2>1, <3>2, <3>3, <3>5 DEF Kept
    <2>2. CASE i # id
        BY <1>2, <1>4, <1>5, <2>0, <2>2, Untouched DEF IsAt
    <2> QED BY <2>1, <2>2
<1>10. JobsKept'
    BY <1>2, <1>9 DEF JobsKept
<1> QED BY <1>8, <1>10 DEF CronInv

LEMMA SaveJobInv ==
    ASSUME CronTypes, CronInv, NEW p \in Callers, SaveJob(p)
    PROVE  CronInv'
<1>1. PICK id, job : id = work[p].id /\ job = work[p].job
    OBVIOUS
<1>2. /\ clock' = clock /\ deployed' = deployed
      /\ entries' = entries /\ running' = running /\ ranAt' = ranAt /\ again' = again
      /\ work[p].kind = "command" /\ Take(p, Free)
    BY DEF SaveJob, daemon
<1>3. /\ jobs' = Put(jobs, id, job) /\ edited' = Put(edited, id, <<job.status, job.schedule>>)
      /\ raced' = IF p \in stale \/ id \in Held THEN raced \cup {id} ELSE raced
      /\ stale' = (stale \cup CommandsOn(id)) \ {p}
    BY <1>1 DEF SaveJob
<1>4. id \in DOMAIN jobs
    BY <1>1, <1>2 DEF CronTypes, CronTypeOK, IsWork, Free
<1>5. /\ DOMAIN jobs' = DOMAIN jobs
      /\ jobs'[id] = job /\ edited'[id] = <<job.status, job.schedule>>
      /\ \A i \in DOMAIN jobs \ {id} : jobs'[i] = jobs[i] /\ edited'[i] = edited[i]
    BY <1>3, <1>4 DEF Put, CronTypes, CronTypeOK
<1>6. /\ work'[p] = Free /\ Free.kind = "none"
      /\ \A q \in Callers \ {p} : work'[q] = work[q]
    BY <1>2, TakeIs DEF CronTypes, Free
<1>7. raced \subseteq raced'
    BY <1>3
<1>8. Deployed' /\ EntriesAhead' /\ RanBefore' /\ OncePerMinute'
    BY <1>2, <1>5, <1>6, <1>7 DEF CronInv, Deployed, EntriesAhead, RanBefore, OncePerMinute
<1>9. ASSUME deployed = "system cron", NEW i \in DOMAIN jobs, i \notin raced' PROVE Kept(i)'
    <2>0. Kept(i)
        BY <1>7, <1>9 DEF CronInv, JobsKept
    <2>1. CASE i = id
        <3>1. p \notin stale /\ \A q \in Callers : ~ Holds(q, id)
            BY <1>3, <1>9, <2>1, HeldIs
        <3>2. \A q \in Callers : ~ Holds(q, id)' /\ ~ IsAt(q, id)
            BY <1>6, <3>1, AtIsHeld DEF Holds
        <3>3. StandsAsEdited(id)'
            BY <1>5 DEF StandsAsEdited
        <3>4. InOneHand(id)'
            BY <3>2 DEF InOneHand
        <3>5. p \in CommandsOn(id)
            BY <1>1, <1>2 DEF CommandsOn
        <3>6. CommandsOn(id)' \subseteq stale'
            BY <1>3, <1>6 DEF CommandsOn
        <3>7. NotDueAgain(id)'
            BY <1>1, <1>2, <1>5, <2>0, <2>1, <3>1, <3>2, <3>5, <3>6 DEF NotDueAgain, Kept
        <3> QED BY <2>1, <3>3, <3>4, <3>7 DEF Kept
    <2>2. CASE i # id
        <3>1. PICK t : t = Free
            OBVIOUS
        <3>2. t.kind = "none" /\ Take(p, t) /\ ~ IsAt(p, i) /\ stale \subseteq stale' \cup {p}
            BY <1>2, <1>3, <1>6, <3>1 DEF IsAt
        <3> QED BY <1>2, <1>5, <2>0, <2>2, <3>2, Untouched
    <2> QED BY <2>1, <2>2
<1>10. JobsKept'
    BY <1>2, <1>5, <1>9 DEF JobsKept
<1> QED BY <1>8, <1>10 DEF CronInv

LEMMA RunDueJobsInv ==
    ASSUME CronTypes, CronInv, NEW p \in Callers, RunDueJobs(p)
    PROVE  CronInv'
<1>1. PICK due, t : due = [id \in ListDue |-> jobs[id]] /\ t = RunOf(due, {})
    OBVIOUS
<1>2. /\ jobs' = jobs /\ edited' = edited /\ clock' = clock /\ deployed' = deployed
      /\ entries' = entries /\ running' = running /\ ranAt' = ranAt /\ again' = again
      /\ stale' = stale /\ raced' = raced \cup (ListDue \cap Held)
      /\ deployed = "system cron" /\ work[p].kind = "none" /\ ListDue # {}
    BY DEF RunDueJobs, daemon, history, IsFree
<1>3. Take(p, t)
    BY <1>1 DEF RunDueJobs
<1>4. /\ DOMAIN due = ListDue /\ ListDue \subseteq DOMAIN jobs
      /\ \A i \in ListDue : due[i] = jobs[i] /\ jobs[i].nextRun <= clock
    BY <1>1 DEF ListDue
<1>5. t.kind = "run" /\ t.due = due /\ t.ran = {}
    <2>1. DOMAIN due # {}
        BY <1>2, <1>4
    <2> QED BY <1>1, <2>1 DEF RunOf
<1>6. /\ work'[p] = t
      /\ \A q \in Callers \ {p} : work'[q] = work[q]
    BY <1>3, TakeIs DEF CronTypes
<1>7. Deployed' /\ EntriesAhead' /\ RanBefore' /\ OncePerMinute'
    BY <1>2 DEF CronInv, Deployed, EntriesAhead, RanBefore, OncePerMinute
<1>8. ASSUME NEW i \in DOMAIN jobs, i \notin raced' PROVE Kept(i)'
    <2>0. Kept(i)
        BY <1>2, <1>8 DEF CronInv, JobsKept
    <2>1. CASE i \in ListDue
        <3>1. \A q \in Callers : ~ Holds(q, i)
            BY <1>2, <1>8, <2>1, HeldIs
        <3>2. \A q \in Callers : ~ IsAt(q, i) /\ ~ IsAt(q, i)'
            BY <1>5, <1>6, <3>1, AtIsHeld DEF IsAt
        <3>3. \A q \in Callers : Holds(q, i)' => q = p
            BY <1>6, <3>1 DEF Holds
        <3>4. InOneHand(i)'
            BY <1>2, <1>4, <1>5, <1>6, <2>1, <3>3 DEF InOneHand
        <3>5. StandsAsEdited(i)'
            BY <1>2, <2>0 DEF StandsAsEdited, Kept
        <3>6. CommandsOn(i)' \subseteq CommandsOn(i) /\ p \notin CommandsOn(i)'
            BY <1>5, <1>6 DEF CommandsOn
        <3>7. NotDueAgain(i)'
            BY <1>2, <1>6, <2>0, <3>2, <3>6 DEF NotDueAgain, Kept, CommandsOn
        <3> QED BY <3>4, <3>5, <3>7 DEF Kept
    <2>2. CASE i \notin ListDue
        <3>1. ~ IsAt(p, i) /\ ~ (t.kind = "run" /\ i \in DOMAIN t.due) /\ t.kind # "command"
            BY <1>2, <1>4, <1>5, <2>2 DEF IsAt
        <3> QED BY <1>2, <1>3, <2>0, <3>1, Untouched
    <2> QED BY <2>1, <2>2
<1>9. JobsKept'
    BY <1>2, <1>8 DEF JobsKept
<1> QED BY <1>7, <1>9 DEF CronInv

LEMMA ExecuteInv ==
    ASSUME CronTypes, CronInv, NEW p \in Callers, Execute(p)
    PROVE  CronInv'
<1>1. PICK id \in DOMAIN work[p].due : NoteRun(id) /\ Take(p, RunOf(work[p].due, {id}))
    BY DEF Execute
<1>2. /\ jobs' = jobs /\ edited' = edited /\ clock' = clock /\ deployed' = deployed
      /\ entries' = entries /\ running' = running
      /\ stale' = stale /\ raced' = raced /\ work[p].kind = "run" /\ work[p].ran = {}
    BY DEF Execute, daemon
<1>3. PICK due, t : due = work[p].due /\ t = RunOf(due, {id})
    OBVIOUS
<1>4. t.kind = "run" /\ t.due = due /\ t.ran = {id} /\ Take(p, t)
    BY <1>1, <1>3, RunOfIs
<1>5. /\ work'[p] = t
      /\ \A q \in Callers \ {p} : work'[q] = work[q]
    BY <1>4, TakeIs DEF CronTypes
<1>6. /\ id \in DOMAIN jobs /\ DOMAIN ranAt' = DOMAIN ranAt \cup {id} /\ ranAt'[id] = clock
      /\ \A i \in DOMAIN ranAt \ {id} : ranAt'[i] = ranAt[i]
    BY <1>1, <1>2, ListFacts DEF NoteRun, Put
<1>7. deployed = "system cron"
    BY <1>2 DEF CronInv, Deployed
<1>8. id \notin raced => ~ (id \in DOMAIN ranAt /\ ranAt[id] = clock)
    <2> SUFFICES ASSUME id \notin raced, id \in DOMAIN ranAt, ranAt[id] = clock PROVE FALSE
        OBVIOUS
    <2>1. Kept(id) /\ Holds(p, id)
        BY <1>1, <1>2, <1>6, <1>7 DEF CronInv, JobsKept, Holds
    <2>2. \A q \in Callers : ~ IsAt(q, id)
        BY <1>2, <2>1, AtIsHeld DEF IsAt, Kept, InOneHand
    <2>3. jobs[id].nextRun > clock /\ jobs[id].nextRun <= clock
        BY <2>1, <2>2 DEF Kept, NotDueAgain, InOneHand
    <2>4. jobs[id].nextRun \in Nat /\ clock \in Nat
        BY <1>6 DEF CronTypes, CronTypeOK, Job
    <2> QED BY <2>3, <2>4
<1>9. OncePerMinute'
    BY <1>1, <1>2, <1>8 DEF NoteRun, CronInv, OncePerMinute
<1>10. RanBefore'
    BY <1>2, <1>6 DEF CronInv, RanBefore, CronTypes
<1>11. Deployed' /\ EntriesAhead'
    BY <1>2, <1>7 DEF CronInv, Deployed, EntriesAhead
<1>12. ASSUME NEW i \in DOMAIN jobs, i \notin raced PROVE Kept(i)'
    <2>0. Kept(i)
        BY <1>7, <1>12 DEF CronInv, JobsKept
    <2>1. CASE i = id
        <3>1. IsAt(p, id)'
            BY <1>4, <1>5 DEF IsAt
        <3>2. NotDueAgain(id)'
            BY <3>1 DEF NotDueAgain
        <3>3. \A q \in Callers : Holds(q, id)' => Holds(q, id) /\ work'[q].due = work[q].due
            BY <1>2, <1>3, <1>4, <1>5 DEF Holds
        <3>4. InOneHand(id)'
            BY <1>2, <2>0, <2>1, <3>3 DEF InOneHand, Kept
        <3>5. StandsAsEdited(id)'
            BY <1>2, <2>0, <2>1 DEF StandsAsEdited, Kept
        <3> QED BY <2>1, <3>2, <3>4, <3>5 DEF Kept
    <2>2. CASE i # id
        <3>1. ~ IsAt(p, i) /\ t.kind # "command"
            BY <1>2, <1>4 DEF IsAt
        <3>2. i \in DOMAIN t.due => Holds(p, i) /\ t.due[i] = work[p].due[i]
            BY <1>2, <1>3, <1>4 DEF Holds
        <3>3. i \in DOMAIN ranAt' => i \in DOMAIN ranAt /\ ranAt'[i] = ranAt[i]
            BY <1>6, <2>2
        <3> QED BY <1>2, <1>4, <2>0, <3>1, <3>2, <3>3, Untouched
    <2> QED BY <2>1, <2>2
<1>13. JobsKept'
    BY <1>2, <1>12 DEF JobsKept
<1> QED BY <1>9, <1>10, <1>11, <1>13 DEF CronInv

LEMMA RecordRunInv ==
    ASSUME CronTypes, CronInv, NEW p \in Callers, RecordRun(p)
    PROVE  CronInv'
<1>1. PICK id \in work[p].ran : /\ jobs' = Put(jobs, id, AdvanceNextRun(work[p].due[id]))
                                /\ Take(p, RunOf(Drop(work[p].due, id), {}))
                                /\ stale' = stale \cup CommandsOn(id)
    BY DEF RecordRun
<1>2. /\ edited' = edited /\ clock' = clock /\ deployed' = deployed /\ ranAt' = ranAt /\ again' = again
      /\ entries' = entries /\ running' = running
      /\ raced' = raced /\ work[p].kind = "run"
    BY DEF RecordRun, daemon, history
<1>3. PICK due, t : due = Drop(work[p].due, id) /\ t = RunOf(due, {})
    OBVIOUS
<1>4. /\ DOMAIN due = DOMAIN work[p].due \ {id}
      /\ \A i \in DOMAIN due : due[i] = work[p].due[i]
    BY <1>3 DEF Drop
<1>5. /\ t.kind # "command"
      /\ t.kind = "run" => t.due = due /\ t.ran = {}
    BY <1>3, RunOfIs
<1>6. /\ Take(p, t) /\ work'[p] = t
      /\ \A q \in Callers \ {p} : work'[q] = work[q]
    BY <1>1, <1>3, TakeIs DEF CronTypes
<1>7. PICK job : job = work[p].due[id]
    OBVIOUS
<1>8. id \in DOMAIN jobs /\ id \in DOMAIN work[p].due /\ job \in Job /\ \A i \in work[p].ran : i = id
    BY <1>1, <1>2, <1>7, ListFacts
<1>9. /\ DOMAIN jobs' = DOMAIN jobs /\ jobs'[id] = AdvanceNextRun(job)
      /\ \A i \in DOMAIN jobs \ {id} : jobs'[i] = jobs[i]
    BY <1>1, <1>7, <1>8 DEF Put
<1>10. deployed = "system cron"
    BY <1>2 DEF CronInv, Deployed
<1>11. Deployed' /\ EntriesAhead' /\ RanBefore' /\ OncePerMinute'
    BY <1>2, <1>9, <1>10 DEF CronInv, Deployed, EntriesAhead, RanBefore, OncePerMinute
<1>12. ASSUME NEW i \in DOMAIN jobs, i \notin raced PROVE Kept(i)'
    <2>0. Kept(i)
        BY <1>10, <1>12 DEF CronInv, JobsKept
    <2>1. CASE i = id
        <3>1. Holds(p, id) /\ job = jobs[id]
            BY <1>2, <1>7, <1>8, <2>0, <2>1 DEF Holds, Kept, InOneHand
        <3>2. \A q \in Callers : ~ Holds(q, id)'
            <4>1. ~ Holds(p, id)'
                BY <1>4, <1>5, <1>6 DEF Holds
            <4>2. \A q \in Callers \ {p} : ~ Holds(q, id)
                BY <2>0, <2>1, <3>1 DEF Kept, InOneHand
            <4> QED BY <1>6, <4>1, <4>2 DEF Holds
        <3>3. InOneHand(id)'
            BY <3>2 DEF InOneHand
        <3>4. StandsAsEdited(id)'
            BY <1>2, <1>8, <1>9, <2>0, <2>1, <3>1, JobsStayJobs DEF StandsAsEdited, Kept, CronTypes
        <3>5. jobs'[id].nextRun > clock'
            BY <1>2, <1>8, <1>9, JobsStayJobs DEF CronTypes
        <3>6. CommandsOn(id)' \subseteq stale'
            BY <1>1, <1>5, <1>6 DEF CommandsOn
        <3>7. NotDueAgain(id)'
            BY <3>5, <3>6 DEF NotDueAgain
        <3> QED BY <2>1, <3>3, <3>4, <3>7 DEF Kept
    <2>2. CASE i # id
        <3>1. ~ IsAt(p, i)
            BY <1>8, <2>2 DEF IsAt
        <3>2. t.kind = "run" /\ i \in DOMAIN t.due => Holds(p, i) /\ t.due[i] = work[p].due[i]
            BY <1>2, <1>4, <1>5 DEF Holds
        <3>3. stale \subseteq stale' \cup {p} /\ jobs'[i] = jobs[i]
            BY <1>1, <1>9, <2>2
        <3> QED BY <1>2, <1>5, <1>6, <2>0, <3>1, <3>2, <3>3, Untouched
    <2> QED BY <2>1, <2>2
<1>13. JobsKept'
    BY <1>2, <1>9, <1>12 DEF JobsKept
<1> QED BY <1>11, <1>13 DEF CronInv

LEMMA LoseRecordInv ==
    ASSUME CronTypes, CronInv, NEW p \in Callers, LoseRecord(p)
    PROVE  CronInv'
<1>1. PICK id \in work[p].ran : /\ raced' = raced \cup {id}
                                /\ Take(p, RunOf(Drop(work[p].due, id), {})) \/ Take(p, Free)
    BY DEF LoseRecord
<1>2. /\ jobs' = jobs /\ edited' = edited /\ clock' = clock /\ deployed' = deployed
      /\ ranAt' = ranAt /\ again' = again /\ entries' = entries /\ running' = running
      /\ stale' = stale /\ work[p].kind = "run"
    BY DEF LoseRecord, daemon, history
<1>3. PICK due, t : due = Drop(work[p].due, id) /\ t \in {RunOf(due, {}), Free} /\ Take(p, t)
    BY <1>1
<1>4. /\ DOMAIN due = DOMAIN work[p].due \ {id}
      /\ \A i \in DOMAIN due : due[i] = work[p].due[i]
    BY <1>3 DEF Drop
<1>5. /\ t.kind # "command"
      /\ t.kind = "run" => t.due = due /\ t.ran = {}
    <2>1. CASE t = Free
        BY <2>1 DEF Free
    <2>2. CASE t = RunOf(due, {})
        BY <2>2, RunOfIs
    <2> QED BY <1>3, <2>1, <2>2
<1>6. \A i \in work[p].ran : i = id
    BY <1>1, <1>2, ListFacts
<1>7. deployed = "system cron"
    BY <1>2 DEF CronInv, Deployed
<1>8. Deployed' /\ EntriesAhead' /\ RanBefore' /\ OncePerMinute'
    BY <1>1, <1>2, <1>7 DEF CronInv, Deployed, EntriesAhead, RanBefore, OncePerMinute
<1>9. ASSUME NEW i \in DOMAIN jobs, i \notin raced' PROVE Kept(i)'
    <2>0. Kept(i) /\ i # id
        BY <1>1, <1>7, <1>9 DEF CronInv, JobsKept
    <2>1. ~ IsAt(p, i)
        BY <1>6, <2>0 DEF IsAt
    <2>2. t.kind = "run" /\ i \in DOMAIN t.due => Holds(p, i) /\ t.due[i] = work[p].due[i]
        BY <1>2, <1>4, <1>5 DEF Holds
    <2> QED BY <1>2, <1>3, <1>5, <2>0, <2>1, <2>2, Untouched
<1>10. JobsKept'
    BY <1>2, <1>9 DEF JobsKept
<1> QED BY <1>8, <1>10 DEF CronInv

\* The daemon's steps leave the system's cron alone.
LEMMA ReloadInv ==
    ASSUME CronTypes, CronInv, Reload
    PROVE  CronInv'
<1>1. /\ clock' = clock /\ deployed' = deployed /\ work' = work /\ jobs' = jobs
      /\ ranAt' = ranAt /\ again' = again /\ raced' = raced /\ deployed = "daemon"
    BY DEF Reload, history
<1>2. ASSUME NEW id \in DOMAIN entries', id \in DOMAIN ranAt, ranAt[id] = clock
      PROVE  entries'[id].at > clock
    <2>1. CASE id \in DOMAIN entries
        BY <1>2, <2>1 DEF Reload, CronInv, EntriesAhead
    <2>2. CASE id \notin DOMAIN entries
        <3>1. id \in DOMAIN jobs /\ entries'[id].at = NextTime(jobs[id].schedule, clock)
            BY <1>2, <2>2 DEF Reload, Active
        <3>2. jobs[id].schedule \in Nat \ {0} /\ clock \in Nat
            BY <3>1, SchedulesAssumption DEF CronTypes, CronTypeOK, Job
        <3> QED BY <3>1, <3>2, NextTimeIsLater
    <2> QED BY <2>1, <2>2
<1>3. EntriesAhead'
    BY <1>1, <1>2 DEF EntriesAhead
<1>4. Deployed' /\ RanBefore' /\ OncePerMinute' /\ JobsKept'
    BY <1>1 DEF CronInv, Deployed, RanBefore, OncePerMinute, JobsKept
<1> QED BY <1>3, <1>4 DEF CronInv

LEMMA FireInv ==
    ASSUME CronTypes, CronInv, NEW id \in Jobs, Fire(id)
    PROVE  CronInv'
<1>1. /\ clock' = clock /\ deployed' = deployed /\ work' = work /\ jobs' = jobs /\ raced' = raced
      /\ id \in DOMAIN entries /\ entries[id].at <= clock
      /\ entries' = [entries EXCEPT ![id].at = NextTime(entries[id].job.schedule, clock)]
      /\ NoteRun(id)
    BY DEF Fire
<1>2. deployed # "system cron"
    BY <1>1 DEF CronInv, Deployed
<1>3. entries[id].job.schedule \in Nat \ {0} /\ clock \in Nat /\ entries[id] \in [job : Job, at : Nat]
    BY <1>1, SchedulesAssumption DEF CronTypes, CronTypeOK, Job
<1>4. NextTime(entries[id].job.schedule, clock) > clock
    BY <1>3, NextTimeIsLater
<1>5. /\ DOMAIN entries' = DOMAIN entries
      /\ entries'[id].at > clock
      /\ \A i \in DOMAIN entries \ {id} : entries'[i] = entries[i]
    <2>1. PICK at : at = NextTime(entries[id].job.schedule, clock)
        OBVIOUS
    <2>2. PICK e : e = [entries[id] EXCEPT !.at = at]
        OBVIOUS
    <2>3. entries' = [entries EXCEPT ![id] = e]
        BY <1>1, <2>1, <2>2
    <2>4. e.at = at
        BY <1>3, <2>2
    <2> QED BY <1>1, <1>4, <2>1, <2>3, <2>4
<1>6. /\ DOMAIN ranAt' = DOMAIN ranAt \cup {id} /\ ranAt'[id] = clock
      /\ \A i \in DOMAIN ranAt \ {id} : ranAt'[i] = ranAt[i]
    BY <1>1 DEF NoteRun, Put
<1>7. ~ (id \in DOMAIN ranAt /\ ranAt[id] = clock)
    BY <1>1, <1>3 DEF CronInv, EntriesAhead
<1>8. OncePerMinute'
    BY <1>1, <1>7 DEF NoteRun, CronInv, OncePerMinute
<1>9. EntriesAhead'
    BY <1>1, <1>5, <1>6 DEF CronInv, EntriesAhead
<1>10. RanBefore'
    BY <1>1, <1>3, <1>6 DEF CronInv, RanBefore, CronTypes, CronTypeOK
<1>11. Deployed' /\ JobsKept'
    BY <1>1, <1>2 DEF CronInv, Deployed, JobsKept
<1> QED BY <1>8, <1>9, <1>10, <1>11 DEF CronInv

LEMMA FinishFireInv ==
    ASSUME CronTypes, CronInv, NEW id \in Jobs, FinishFire(id)
    PROVE  CronInv'
<1> DEFINE job == AdvanceNextRun(running[id])
<1>1. /\ clock' = clock /\ deployed' = deployed /\ work' = work /\ raced' = raced
      /\ ranAt' = ranAt /\ again' = again /\ id \in DOMAIN running /\ jobs' = Put(jobs, id, job)
      /\ entries' = [i \in DOMAIN entries |->
                       IF i = id THEN [entries[i] EXCEPT !.job = job] ELSE entries[i]]
    BY DEF FinishFire, history
<1>2. deployed # "system cron"
    BY <1>1 DEF CronInv, Deployed
<1>3. DOMAIN jobs \subseteq DOMAIN jobs'
    BY <1>1 DEF Put
<1>4. DOMAIN entries' = DOMAIN entries /\ \A i \in DOMAIN entries : entries'[i].at = entries[i].at
    <2> HIDE DEF job
    <2>1. ASSUME NEW i \in DOMAIN entries PROVE entries'[i].at = entries[i].at
        BY <1>1
    <2> QED BY <1>1, <2>1
<1>5. EntriesAhead'
    BY <1>1, <1>4 DEF CronInv, EntriesAhead
<1>6. Deployed' /\ RanBefore' /\ OncePerMinute' /\ JobsKept'
    BY <1>1, <1>2, <1>3 DEF CronInv, Deployed, RanBefore, OncePerMinute, JobsKept
<1> QED BY <1>5, <1>6 DEF CronInv

LEMMA CronRestartInv ==
    ASSUME CronTypes, CronInv, Restart
    PROVE  CronInv'
BY DEF Restart, history, CronInv, Deployed, EntriesAhead, RanBefore, OncePerMinute, JobsKept

LEMMA NextMinuteInv ==
    ASSUME CronTypes, CronInv, NextMinute
    PROVE  CronInv'
<1>1. /\ clock' = clock + 1 /\ deployed' = deployed /\ work' = work /\ jobs' = jobs
      /\ ranAt' = ranAt /\ again' = again /\ raced' = raced /\ edited' = edited
      /\ entries' = entries /\ running' = running /\ stale' = stale
    BY DEF NextMinute, history
<1>2. clock \in Nat /\ \A id \in DOMAIN jobs : jobs[id].nextRun \in Nat
    BY DEF CronTypes, CronTypeOK, Job
<1>3. \A id \in DOMAIN ranAt : ranAt[id] \in Nat /\ ranAt[id] <= clock
    BY DEF CronInv, RanBefore
<1>4. RanBefore'
    BY <1>1, <1>2 DEF CronInv, RanBefore
<1>5. EntriesAhead'
    BY <1>1, <1>2, <1>3 DEF EntriesAhead
<1>6. Deployed' /\ OncePerMinute'
    BY <1>1 DEF CronInv, Deployed, OncePerMinute
<1>7. ASSUME NEW id \in DOMAIN jobs, Kept(id) PROVE Kept(id)'
    <2>1. StandsAsEdited(id)'
        BY <1>1, <1>7 DEF Kept, StandsAsEdited
    <2>2. InOneHand(id)'
        BY <1>1, <1>2, <1>7 DEF Kept, InOneHand, Holds
    <2>3. NotDueAgain(id)'
        BY <1>1, <1>2, <1>3 DEF NotDueAgain
    <2> QED BY <2>1, <2>2, <2>3 DEF Kept
<1>8. JobsKept'
    BY <1>1, <1>7 DEF CronInv, JobsKept
<1> QED BY <1>4, <1>5, <1>6, <1>8 DEF CronInv

LEMMA CronStutterInv ==
    ASSUME CronTypes, CronInv, UNCHANGED cronVars
    PROVE  CronInv'
<1>1. \A id \in DOMAIN jobs : Kept(id) => Kept(id)'
    BY UntouchedByNone DEF cronVars
<1>2. JobsKept'
    BY <1>1 DEF cronVars, CronInv, JobsKept
<1>3. Deployed' /\ EntriesAhead' /\ RanBefore' /\ OncePerMinute'
    BY DEF cronVars, CronInv, Deployed, EntriesAhead, RanBefore, OncePerMinute
<1> QED BY <1>2, <1>3 DEF CronInv

LEMMA CronNextInv == CronTypes /\ CronInv /\ [CronNext]_cronVars => CronInv'
<1> SUFFICES ASSUME CronTypes, CronInv, [CronNext]_cronVars PROVE CronInv'
    OBVIOUS
<1>1. ASSUME NEW id \in Jobs, AddJob(id) PROVE CronInv'
    BY <1>1, AddJobInv
<1>2. ASSUME NEW id \in Jobs, Fire(id) PROVE CronInv'
    BY <1>2, FireInv
<1>3. ASSUME NEW id \in Jobs, FinishFire(id) PROVE CronInv'
    BY <1>3, FinishFireInv
<1>4. ASSUME NEW p \in Callers, NEW id \in Jobs, LoadJob(p, id) PROVE CronInv'
    BY <1>4, LoadJobInv
<1>5. ASSUME NEW p \in Callers, SaveJob(p) PROVE CronInv'
    BY <1>5, SaveJobInv
<1>6. ASSUME NEW p \in Callers, RunDueJobs(p) PROVE CronInv'
    BY <1>6, RunDueJobsInv
<1>7. ASSUME NEW p \in Callers, Execute(p) PROVE CronInv'
    BY <1>7, ExecuteInv
<1>8. ASSUME NEW p \in Callers, RecordRun(p) PROVE CronInv'
    BY <1>8, RecordRunInv
<1>9. ASSUME NEW p \in Callers, LoseRecord(p) PROVE CronInv'
    BY <1>9, LoseRecordInv
<1>10. CASE Reload
    BY <1>10, ReloadInv
<1>11. CASE Restart
    BY <1>11, CronRestartInv
<1>12. CASE NextMinute
    BY <1>12, NextMinuteInv
<1>13. CASE UNCHANGED cronVars
    BY <1>13, CronStutterInv
<1> QED BY <1>1, <1>2, <1>3, <1>4, <1>5, <1>6, <1>7, <1>8, <1>9, <1>10, <1>11, <1>12, <1>13 DEF CronNext

-----------------------------------------------------------------------------

LEMMA CronInvariant == CronSpec => [](CronTypes /\ CronInv)
<1>1. CronInit => CronTypes /\ CronInv
    BY CronInitTypes, CronInitInv
<1>2. CronTypes /\ CronInv /\ [CronNext]_cronVars => (CronTypes /\ CronInv)'
    BY CronNextTypes, CronNextInv
<1> QED BY <1>1, <1>2, PTL DEF CronSpec

\* Jobs, copies, the daemon's table and the clock keep to their types, and what
\* a run or the daemon has in hand was active when it was read (cron_runner.go).
THEOREM JobsTypeCorrect == CronSpec => []CronTypeOK
<1>1. CronTypes => CronTypeOK
    BY DEF CronTypes
<1> QED BY <1>1, CronInvariant, PTL

\* Under the system's cron what a command made of a job stands, unless a copy of
\* the job was out of date when it was saved or a run had it in hand
\* (cron_runner.go:71).
THEOREM EditsStand == CronSpec => []EditStands
<1>1. CronInv => EditStands
    BY DEF CronInv, JobsKept, Kept, EditStands
<1> QED BY <1>1, CronInvariant, PTL

\* A job runs at most once a minute, under the system's cron and under the
\* daemon, unless runs overlapped, an edit met a run or a run was not recorded
\* (job.go:79).
THEOREM RunsOnceAMinute == CronSpec => []OncePerMinute
<1>1. CronInv => OncePerMinute
    BY DEF CronInv
<1> QED BY <1>1, CronInvariant, PTL
=============================================================================
