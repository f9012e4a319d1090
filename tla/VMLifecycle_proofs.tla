-------------------------- MODULE VMLifecycle_proofs --------------------------
(***************************************************************************)
(* For any number of VMs, nodes, numbers, commands, crashes and failures:  *)
(* rows stay unique, their nodes exist, every guest has its row and a      *)
(* deletion destroys the guest of its own VM.  None of this is inductive.  *)
(* Rows are written and removed from copies, so every copy of a VM must    *)
(* name the same guest; a creation must be the only work on its VM until   *)
(* the row is there, and must find it there when it clones; a deletion     *)
(* about to remove the row must have left no guest.                        *)
(***************************************************************************)
EXTENDS VMLifecycle, TLAPS

SamePlace(r, s) == r.vmid = s.vmid /\ r.node = s.node

Busy(t) == t.stage \notin {"idle", "deleteNode"}

Kinds == {"create", "suspend", "resume", "restart", "delete", "assign"}

Work == [kind: Kinds, stage: Stages, vm: VMs, row: Row]

\* What holds of the work a process is at, whatever the others do.
GoodTask(t) ==
    /\ t.stage \in Stages
    /\ Busy(t) =>
          /\ t \in Work
          /\ t.vm \in usedIds
          /\ t.vm \in DOMAIN rows => SamePlace(rows[t.vm], t.row)
          /\ t.stage = "save" => t.vm \notin DOMAIN rows
          /\ t.stage = "clone" =>
                t.vm \in DOMAIN rows /\ \A i \in DOMAIN guest : guest[i].vm # t.vm
          /\ t.stage \in {"save", "clone"} => t.kind = "create"
          /\ t.stage \in {"stop", "destroy", "remove"} => t.kind = "delete"
          /\ t.stage = "remove" => \A i \in DOMAIN guest : guest[i].vm # t.vm
          /\ t.kind = "delete" => t.vm \in DOMAIN rows \cup twice

\* What holds of the work of two processes on one VM.
Compatible(t, u) ==
    Busy(t) /\ Busy(u) /\ t.vm = u.vm =>
        /\ SamePlace(t.row, u.row)
        /\ t.stage # "save" /\ u.stage # "save"
        /\ t.stage = "clone" => u.stage \notin {"clone", "remove"}
        /\ u.stage = "clone" => t.stage \notin {"clone", "remove"}
        /\ t.kind = "delete" /\ u.kind = "delete" => t.vm \in twice

RowsOK ==
    /\ nodes \subseteq Nodes
    /\ DOMAIN rows \subseteq usedIds /\ usedIds \subseteq VMs
    /\ \A v \in DOMAIN rows : rows[v] \in Row /\ rows[v].node \in nodes
    /\ \A v, w \in DOMAIN rows : SamePlace(rows[v], rows[w]) => v = w

GuestsOK ==
    /\ DOMAIN guest \subseteq Vmids
    /\ \A i \in DOMAIN guest :
          /\ guest[i] \in Guest
          /\ guest[i].vm \in DOMAIN rows
          /\ rows[guest[i].vm].vmid = i /\ rows[guest[i].vm].node = guest[i].node

TasksOK ==
    /\ DOMAIN task = Procs
    /\ \A p \in Procs : GoodTask(task[p])
    /\ \A p, q \in Procs : p # q => Compatible(task[p], task[q])

HistoryOK == resaved \subseteq VMs /\ twice \subseteq VMs /\ faults \in 0..MaxFaults

\* The inductive invariant.
IInv == RowsOK /\ GuestsOK /\ TasksOK /\ HistoryOK

\* What most steps do to the rows, the guests and the ids.
RowsAgree ==
    /\ DOMAIN rows' = DOMAIN rows
    /\ \A v \in DOMAIN rows : rows'[v] \in Row /\ SamePlace(rows'[v], rows[v])

GuestsAgree ==
    /\ DOMAIN guest' \subseteq DOMAIN guest
    /\ \A i \in DOMAIN guest' :
          /\ guest'[i] \in Guest
          /\ guest'[i].vm = guest[i].vm /\ guest'[i].node = guest[i].node

IdsGrow == usedIds \subseteq usedIds' /\ twice \subseteq twice'

-----------------------------------------------------------------------------

\* What is compatible stays so, for it depends on the history only.
LEMMA CompatibleStays ==
    ASSUME NEW t, NEW u, Compatible(t, u), twice \subseteq twice'
    PROVE  Compatible(t, u)'
BY DEF Compatible, SamePlace, Busy

\* The task of another process.
IsOther(u, p) == \E q \in Procs \ {p} : u = task[q]

\* The tasks after a step of one process, whatever it does to the rest, when
\* the others' tasks stay good.
LEMMA OneTaskChanges ==
    ASSUME IInv, twice \subseteq twice', NEW p \in Procs, NEW t, Become(p, t),
           GoodTask(t)',
           \A u : GoodTask(u) /\ Compatible(u, task[p]) => GoodTask(u)',
           \A u : IsOther(u, p) /\ GoodTask(u) /\ Compatible(u, task[p])
                     => Compatible(u, t)'
    PROVE  TasksOK'
<1>1. DOMAIN task' = Procs
    BY DEF IInv, TasksOK, Become
<1>2. ASSUME NEW q \in Procs PROVE task'[q] = IF q = p THEN t ELSE task[q]
    BY DEF IInv, TasksOK, Become
<1>3. ASSUME NEW q \in Procs, q # p
      PROVE  /\ GoodTask(task[q]) /\ Compatible(task[q], task[p])
             /\ IsOther(task[q], p) /\ task'[q] = task[q]
    BY <1>2, <1>3 DEF IInv, TasksOK, IsOther
<1>4. ASSUME NEW q \in Procs PROVE GoodTask(task[q])'
    <2>1. PICK u : u = task'[q]
        OBVIOUS
    <2>2. GoodTask(u)'
        <3>1. CASE q = p
            BY <2>1, <3>1, <1>2
        <3>2. CASE q # p
            BY <2>1, <3>2, <1>3
        <3> QED BY <3>1, <3>2
    <2> QED BY <2>1, <2>2 DEF GoodTask, Busy, SamePlace
<1>5. ASSUME NEW q \in Procs, NEW r \in Procs, q # r
      PROVE  Compatible(task[q], task[r])'
    <2>1. PICK u : u = task'[q]
        OBVIOUS
    <2>2. PICK w : w = task'[r]
        OBVIOUS
    <2>3. Compatible(u, w)'
        <3>1. CASE q = p
            <4>1. Compatible(w, t)'
                BY <3>1, <2>2, <1>3, <1>5
            <4>2. u = t
                BY <3>1, <2>1, <1>2
            <4> QED BY <4>1, <4>2 DEF Compatible, Busy, SamePlace
        <3>2. CASE r = p
            <4>1. Compatible(u, t)'
                BY <3>2, <2>1, <1>3, <1>5
            <4>2. w = t
                BY <3>2, <2>2, <1>2
            <4> QED BY <4>1, <4>2
        <3>3. CASE q # p /\ r # p
            <4>1. Compatible(u, w)
                BY <3>3, <2>1, <2>2, <1>3, <1>5 DEF IInv, TasksOK
            <4> QED BY <4>1, CompatibleStays
        <3> QED BY <3>1, <3>2, <3>3
    <2> QED BY <2>1, <2>2, <2>3 DEF Compatible, Busy, SamePlace
<1> QED BY <1>1, <1>4, <1>5 DEF TasksOK

\* The others' tasks stay good in a step that moves no row and adds no guest.
LEMMA GoodStays ==
    ASSUME NEW u, GoodTask(u), RowsAgree, GuestsAgree, IdsGrow
    PROVE  GoodTask(u)'
BY DEF GoodTask, Busy, SamePlace, RowsAgree, GuestsAgree, IdsGrow

\* A process goes on with its VM, or puts it down.
LEMMA GoesOn ==
    ASSUME IInv, RowsAgree, GuestsAgree, IdsGrow, NEW p \in Procs, NEW t,
           Become(p, t), Busy(task[p]), t \in Work,
           t.vm = task[p].vm, t.kind = task[p].kind, SamePlace(t.row, task[p].row),
           t.stage \notin {"save", "clone", "remove"},
           t.stage \in {"stop", "destroy"} => t.kind = "delete"
    PROVE  TasksOK'
<1>1. GoodTask(task[p])
    BY DEF IInv, TasksOK
<1>2. GoodTask(t)'
    BY <1>1 DEF GoodTask, Busy, SamePlace, RowsAgree, IdsGrow, Work
<1>3. ASSUME NEW u, GoodTask(u), Compatible(u, task[p]) PROVE Compatible(u, t)'
    BY <1>3 DEF Compatible, Busy, SamePlace, IdsGrow, Work
<1> QED BY <1>2, <1>3, GoodStays, OneTaskChanges DEF IdsGrow

LEMMA Rests ==
    ASSUME IInv, RowsAgree, GuestsAgree, IdsGrow, NEW p \in Procs, NEW t,
           Become(p, t), t.stage \in {"idle", "deleteNode"}
    PROVE  TasksOK'
<1>1. GoodTask(t)'
    BY DEF GoodTask, Busy, Stages
<1>2. ASSUME NEW u PROVE Compatible(u, t)'
    BY DEF Compatible, Busy
<1> QED BY <1>1, <1>2, GoodStays, OneTaskChanges DEF IdsGrow

\* A step that gives no process a new task.
LEMMA SameTasks ==
    ASSUME IInv, RowsAgree, GuestsAgree, IdsGrow, task' = task
    PROVE  TasksOK'
<1>1. ASSUME NEW q \in Procs PROVE GoodTask(task[q])'
    <2>1. PICK u : u = task[q]
        OBVIOUS
    <2>2. GoodTask(u)'
        BY <2>1, GoodStays DEF IInv, TasksOK
    <2> QED BY <2>1, <2>2 DEF GoodTask, Busy, SamePlace
<1>2. ASSUME NEW q \in Procs, NEW r \in Procs, q # r
      PROVE  Compatible(task[q], task[r])'
    <2>1. Compatible(task[q], task[r])
        BY <1>2 DEF IInv, TasksOK
    <2> QED BY <2>1 DEF Compatible, Busy, SamePlace, IdsGrow
<1> QED BY <1>1, <1>2 DEF IInv, TasksOK

\* Rows and guests stay in order when they keep their places.
LEMMA PlacesKept ==
    ASSUME IInv, RowsAgree, GuestsAgree, IdsGrow, nodes' = nodes, usedIds' \subseteq VMs
    PROVE  RowsOK' /\ GuestsOK'
<1>1. RowsOK'
    BY DEF IInv, RowsOK, RowsAgree, IdsGrow, SamePlace
<1>2. GuestsOK'
    BY DEF IInv, GuestsOK, RowsAgree, GuestsAgree, SamePlace
<1> QED BY <1>1, <1>2

LEMMA SameRows ==
    ASSUME IInv, rows' = rows
    PROVE  RowsAgree
BY DEF IInv, RowsOK, RowsAgree, SamePlace

LEMMA SameGuests ==
    ASSUME IInv, guest' = guest
    PROVE  GuestsAgree
BY DEF IInv, GuestsOK, GuestsAgree

LEMMA StatusWritten ==
    ASSUME IInv, NEW v, NEW status \in Statuses, UpdateStatus(v, status)
    PROVE  RowsAgree
<1>1. DOMAIN rows' = DOMAIN rows
    BY DEF UpdateStatus
<1>2. ASSUME NEW w \in DOMAIN rows PROVE rows'[w] \in Row /\ SamePlace(rows'[w], rows[w])
    <2>1. rows[w] \in Row
        BY DEF IInv, RowsOK
    <2>2. rows'[w] = IF w = v THEN [rows[w] EXCEPT !.status = status] ELSE rows[w]
        BY DEF UpdateStatus
    <2> QED BY <2>1, <2>2 DEF Row, SamePlace
<1> QED BY <1>1, <1>2 DEF RowsAgree

\* What a process is at, as far as its stage tells.
LEMMA TaskFacts ==
    ASSUME IInv, NEW p \in Procs, Busy(task[p])
    PROVE  /\ task[p] \in Work
           /\ task[p].vm \in usedIds
           /\ task[p].row \in Row
           /\ task[p].row.status \in Statuses
BY DEF IInv, TasksOK, GoodTask, Work, Row

\* The task of a process that has only its last write left.
LEMMA EndingFacts ==
    ASSUME IInv, NEW p \in Procs, Busy(task[p]), NEW status \in Statuses,
           NEW t, t = Ending(p, status)
    PROVE  /\ t \in Work /\ t.stage = "finish"
           /\ t.vm = task[p].vm /\ t.kind = task[p].kind
           /\ SamePlace(t.row, task[p].row)
<1>1. task[p] \in Work
    BY TaskFacts
<1>2. t = [kind |-> task[p].kind, stage |-> "finish", vm |-> task[p].vm,
           row |-> [vmid |-> task[p].row.vmid, node |-> task[p].row.node,
                    customer |-> task[p].row.customer, status |-> status]]
    BY <1>1 DEF Ending, Work, Row
<1> QED BY <1>1, <1>2 DEF Work, Row, Stages, SamePlace

\* The task of a process that takes its next stage.
LEMMA StageFacts ==
    ASSUME IInv, NEW p \in Procs, Busy(task[p]), NEW stage \in Stages,
           NEW t, t = [task[p] EXCEPT !.stage = stage]
    PROVE  /\ t \in Work /\ t.stage = stage
           /\ t.vm = task[p].vm /\ t.kind = task[p].kind
           /\ t.row = task[p].row /\ SamePlace(t.row, task[p].row)
BY TaskFacts DEF Work, SamePlace

\* Switching a guest on or off leaves it where it is.
LEMMA PoweredAgrees ==
    ASSUME IInv, NEW i \in DOMAIN guest, NEW power \in {"running", "paused", "stopped"},
           guest' = [guest EXCEPT ![i].power = power]
    PROVE  GuestsAgree
BY DEF IInv, GuestsOK, Guest, GuestsAgree

LEMMA PoweredTaskAgrees ==
    ASSUME IInv, NEW p \in Procs, NEW power \in {"running", "paused", "stopped"},
           guest' = Powered(p, power)
    PROVE  GuestsAgree
<1>1. DOMAIN guest' = DOMAIN guest
    BY DEF Powered
<1>2. ASSUME NEW i \in DOMAIN guest
      PROVE  /\ guest'[i] \in Guest
             /\ guest'[i].vm = guest[i].vm /\ guest'[i].node = guest[i].node
    <2>1. guest[i] \in Guest
        BY DEF IInv, GuestsOK
    <2>2. guest'[i] = IF i = task[p].row.vmid THEN [guest[i] EXCEPT !.power = power]
                      ELSE guest[i]
        BY DEF Powered
    <2> QED BY <2>1, <2>2 DEF Guest
<1> QED BY <1>1, <1>2 DEF GuestsAgree

LEMMA DestroyedAgrees ==
    ASSUME IInv, NEW p \in Procs, guest' = Destroyed(p)
    PROVE  GuestsAgree
BY DEF IInv, GuestsOK, Destroyed, Restrict, GuestsAgree

\* A guest in the place of a row is the guest of that row's VM.
LEMMA GuestOfRow ==
    ASSUME IInv, NEW v \in DOMAIN rows, NEW i \in DOMAIN guest,
           rows[v].vmid = i, rows[v].node = guest[i].node
    PROVE  guest[i].vm = v
BY DEF IInv, GuestsOK, RowsOK, SamePlace

-----------------------------------------------------------------------------

LEMMA InitHolds == Init => IInv
<1> SUFFICES ASSUME Init PROVE IInv
    OBVIOUS
<1>1. RowsOK
    BY DEF Init, RowsOK
<1>2. GuestsOK
    BY DEF Init, GuestsOK
<1>3. TasksOK
    BY DEF Init, TasksOK, GoodTask, Compatible, Busy, Stages, Idle
<1>4. HistoryOK
    BY BoundsAssumption DEF Init, HistoryOK
<1> QED BY <1>1, <1>2, <1>3, <1>4 DEF IInv

\* The new VM's id was never given out: nobody else knows of it.
LEMMA CreateVMHolds ==
    ASSUME IInv, NEW p \in Procs, CreateVM(p)
    PROVE  IInv'
<1>1. PICK n \in nodes, i \in NextVMID, v \in VMs \ usedIds, c \in Customers :
          /\ usedIds' = usedIds \cup {v}
          /\ Become(p, Task("create", "save", v,
                            [vmid |-> i, node |-> n, customer |-> c, status |-> "creating"]))
    BY DEF CreateVM
<1>2. PICK t : t = Task("create", "save", v,
                        [vmid |-> i, node |-> n, customer |-> c, status |-> "creating"])
    OBVIOUS
<1>3. RowsAgree /\ GuestsAgree /\ IdsGrow
    BY <1>1, SameRows, SameGuests DEF CreateVM, IdsGrow
<1>4. t \in Work /\ t.vm = v /\ t.stage = "save" /\ t.kind = "create"
    BY <1>2 DEF Task, Work, Row, Kinds, Stages, Statuses, NextVMID, IInv, RowsOK
<1>5. v \notin DOMAIN rows
    BY DEF IInv, RowsOK
<1>6. GoodTask(t)'
    BY <1>1, <1>4, <1>5, <1>3 DEF GoodTask, Busy, Stages, RowsAgree, CreateVM
<1>7. ASSUME NEW u, GoodTask(u) PROVE Compatible(u, t)'
    BY <1>4, <1>7 DEF GoodTask, Compatible, Busy
<1>8. TasksOK'
    BY <1>1, <1>2, <1>3, <1>6, <1>7, GoodStays, OneTaskChanges DEF IdsGrow
<1>9. RowsOK' /\ GuestsOK'
    <2>1. usedIds' \subseteq VMs
        BY <1>1 DEF IInv, RowsOK
    <2> QED BY <1>3, <2>1, PlacesKept DEF CreateVM
<1> QED BY <1>8, <1>9 DEF IInv, HistoryOK, CreateVM

\* The others do not have this VM in hand, since its row was not there.
LEMMA SaveNewHolds ==
    ASSUME IInv, NEW p \in Procs, SaveNew(p)
    PROVE  IInv'
<1>1. Busy(task[p]) /\ task[p].stage = "save"
    BY DEF SaveNew, At, Busy
<1>2. PICK v : v = task[p].vm
    OBVIOUS
<1>3. PICK row : row = task[p].row
    OBVIOUS
<1>4. v \in usedIds /\ v \notin DOMAIN rows /\ row \in Row /\ task[p].kind = "create"
    BY <1>1, <1>2, <1>3, TaskFacts DEF IInv, TasksOK, GoodTask
<1>5. HistoryOK'
    BY DEF IInv, HistoryOK, SaveNew
<1>6. GuestsAgree /\ IdsGrow
    BY SameGuests DEF SaveNew, IdsGrow
<1>7. CASE MaySave(v, row)
    <2>1. PICK t : t = [task[p] EXCEPT !.stage = "clone"]
        OBVIOUS
    <2>2. Become(p, t) /\ Save(v, row)
        BY <1>7, <1>2, <1>3, <2>1 DEF SaveNew
    <2>3. /\ t \in Work /\ t.stage = "clone" /\ t.vm = v /\ t.kind = "create"
          /\ t.row = row
        BY <2>1, <1>1, <1>2, <1>3, <1>4, StageFacts DEF Stages
    <2>4. /\ DOMAIN rows' = DOMAIN rows \cup {v}
          /\ rows'[v] = row
          /\ \A w \in DOMAIN rows : rows'[w] = rows[w]
        BY <2>2, <1>4 DEF Save
    <2>5. RowsOK'
        BY <2>4, <1>4, <1>7 DEF IInv, RowsOK, MaySave, SaveNew, SamePlace
    <2>6. GuestsOK'
        BY <2>4 DEF IInv, GuestsOK, SaveNew
    <2>7. GoodTask(t)'
        BY <2>3, <2>4, <1>4 DEF GoodTask, Busy, SamePlace, IInv, GuestsOK, SaveNew, Work
    <2>8. ASSUME NEW u, GoodTask(u), Compatible(u, task[p]) PROVE GoodTask(u)'
        <3>1. Busy(u) => u.vm # v
            BY <2>8, <1>1, <1>2 DEF Compatible
        <3> QED BY <2>8, <3>1, <2>4, <1>6 DEF GoodTask, Busy, SamePlace, SaveNew
    <2>9. ASSUME NEW u, GoodTask(u), Compatible(u, task[p]) PROVE Compatible(u, t)'
        BY <2>9, <2>3, <1>1, <1>2 DEF Compatible, Busy
    <2>10. TasksOK'
        BY <2>2, <2>7, <2>8, <2>9, <1>6, OneTaskChanges DEF IdsGrow
    <2> QED BY <2>5, <2>6, <2>10, <1>5 DEF IInv
<1>8. CASE ~MaySave(v, row)
    <2>1. RowsAgree
        BY <1>8, <1>2, <1>3, SameRows DEF SaveNew
    <2>2. Become(p, Idle)
        BY <1>8, <1>2, <1>3 DEF SaveNew
    <2>3. TasksOK'
        BY <2>1, <2>2, <1>6, Rests DEF Idle
    <2>4. RowsOK' /\ GuestsOK'
        BY <2>1, <1>6, PlacesKept DEF SaveNew, IInv, RowsOK
    <2> QED BY <2>3, <2>4, <1>5 DEF IInv
<1> QED BY <1>7, <1>8

\* Nobody else works on the VM as a creation or is about to remove its row.
LEMMA CloneHolds ==
    ASSUME IInv, NEW p \in Procs, Clone(p)
    PROVE  IInv'
<1>1. Busy(task[p]) /\ task[p].stage = "clone"
    BY DEF Clone, At, Busy
<1>2. PICK v : v = task[p].vm
    OBVIOUS
<1>3. PICK row : row = task[p].row
    OBVIOUS
<1>4. /\ v \in DOMAIN rows /\ row \in Row
      /\ SamePlace(rows[v], row)
      /\ \A i \in DOMAIN guest : guest[i].vm # v
    BY <1>1, <1>2, <1>3, TaskFacts DEF IInv, TasksOK, GoodTask
<1>5. HistoryOK'
    BY DEF IInv, HistoryOK, Clone
<1>6. RowsAgree /\ IdsGrow
    BY SameRows DEF Clone, IdsGrow
<1>7. PICK status \in {"running", "unknown"} : Become(p, Ending(p, status))
    BY DEF Clone, Call
<1>8. PICK t : t = Ending(p, status)
    OBVIOUS
<1>9. /\ t \in Work /\ t.stage = "finish" /\ t.vm = v
      /\ t.kind = task[p].kind /\ SamePlace(t.row, task[p].row)
    BY <1>8, <1>1, <1>2, EndingFacts DEF Statuses
<1>10. CASE guest' = guest
    <2>1. GuestsAgree
        BY <1>10, SameGuests
    <2>2. TasksOK'
        BY <2>1, <1>1, <1>2, <1>6, <1>7, <1>8, <1>9, GoesOn
    <2>3. RowsOK' /\ GuestsOK'
        BY <2>1, <1>6, PlacesKept DEF Clone, IInv, RowsOK
    <2> QED BY <2>2, <2>3, <1>5 DEF IInv
<1>11. CASE row.vmid \notin DOMAIN guest /\ guest' = Cloned(p)
    <2>1. /\ DOMAIN guest' = DOMAIN guest \cup {row.vmid}
          /\ guest'[row.vmid] = [vm |-> v, node |-> row.node, power |-> "stopped"]
          /\ \A i \in DOMAIN guest : guest'[i] = guest[i]
        BY <1>11, <1>2, <1>3 DEF Cloned
    <2>2. v \in VMs
        BY <1>4 DEF IInv, RowsOK
    <2>3. RowsOK'
        BY DEF IInv, RowsOK, Clone
    <2>4. GuestsOK'
        BY <2>1, <2>2, <1>4 DEF IInv, GuestsOK, Clone, Guest, Row, SamePlace
    <2>5. GoodTask(t)'
        <3>1. SamePlace(rows[v], t.row)
            BY <1>4, <1>3, <1>9 DEF SamePlace
        <3> QED BY <3>1, <1>9, <1>4, <2>2 DEF GoodTask, Busy, SamePlace, Clone, Work,
                                            IInv, RowsOK
    <2>6. ASSUME NEW u, GoodTask(u), Compatible(u, task[p]) PROVE GoodTask(u)'
        <3>1. Busy(u) /\ u.stage \in {"clone", "remove"} => u.vm # v
            BY <2>6, <1>1, <1>2 DEF Compatible
        <3> QED BY <2>6, <3>1, <2>1 DEF GoodTask, Busy, SamePlace, Clone
    <2>7. ASSUME NEW u, GoodTask(u), Compatible(u, task[p]) PROVE Compatible(u, t)'
        BY <2>7, <1>9, <1>1, <1>2, <1>6 DEF Compatible, Busy, SamePlace, IdsGrow
    <2>8. TasksOK'
        BY <1>7, <1>8, <1>6, <2>5, <2>6, <2>7, OneTaskChanges DEF IdsGrow
    <2> QED BY <2>3, <2>4, <2>8, <1>5 DEF IInv
<1> QED BY <1>10, <1>11, <1>3 DEF Clone, Call

\* A step that moves no row, adds no guest and lets its process go on or rest.
LEMMA QuietHolds ==
    ASSUME IInv, RowsAgree, GuestsAgree, IdsGrow, TasksOK',
           nodes' = nodes, usedIds' = usedIds,
           resaved' = resaved, twice' \subseteq VMs, faults' \in 0..MaxFaults
    PROVE  IInv'
<1>1. RowsOK' /\ GuestsOK'
    BY PlacesKept DEF IInv, RowsOK
<1> QED BY <1>1 DEF IInv, HistoryOK

\* A command that takes a row in hand.
LEMMA LoadHolds ==
    ASSUME IInv, NEW p \in Procs, NEW v \in DOMAIN rows,
           NEW kind \in Kinds, NEW stage \in {"mark", "call", "assign"},
           LoadVM(p, v, kind, stage), twice \subseteq twice', twice' \subseteq VMs,
           kind = "delete" /\ (\E q \in Procs : IsKind(q, {"delete"}) /\ task[q].vm = v)
              => v \in twice'
    PROVE  IInv'
<1>1. PICK t : t = Task(kind, stage, v, rows[v])
    OBVIOUS
<1>2. PICK row : row = rows[v]
    OBVIOUS
<1>3. RowsAgree /\ GuestsAgree /\ IdsGrow
    BY SameRows, SameGuests DEF LoadVM, IdsGrow
<1>4. v \in usedIds /\ v \in VMs /\ row \in Row
    BY <1>2 DEF IInv, RowsOK
<1>5. /\ t \in Work /\ t.vm = v /\ t.stage = stage /\ t.kind = kind /\ t.row = row
    BY <1>1, <1>2, <1>4 DEF Task, Work, Stages
<1>6. GoodTask(t)'
    BY <1>2, <1>4, <1>5 DEF GoodTask, Busy, SamePlace, LoadVM, Work
<1>7. ASSUME NEW u, IsOther(u, p), GoodTask(u) PROVE Compatible(u, t)'
    <2>1. Busy(u) /\ u.vm = v => SamePlace(u.row, row) /\ u.stage # "save"
        BY <1>7, <1>2 DEF GoodTask, SamePlace
    <2>2. u.kind = "delete" /\ u.vm = v /\ kind = "delete" => v \in twice'
        BY <1>7 DEF IsOther, IsKind
    <2> QED BY <2>1, <2>2, <1>5 DEF Compatible, Busy
<1>8. Become(p, t)
    BY <1>1 DEF LoadVM
<1>9. TasksOK'
    BY <1>3, <1>6, <1>7, <1>8, GoodStays, OneTaskChanges
<1> QED BY <1>3, <1>9, QuietHolds DEF LoadVM, IInv, HistoryOK

LEMMA MarkHolds ==
    ASSUME IInv, NEW p \in Procs, Mark(p)
    PROVE  IInv'
<1>1. Busy(task[p])
    BY DEF Mark, At, Busy
<1>2. PICK status \in Statuses : UpdateStatus(task[p].vm, status)
    BY DEF Mark, Goal, Statuses
<1>3. RowsAgree /\ GuestsAgree /\ IdsGrow
    BY <1>2, StatusWritten, SameGuests DEF Mark, IdsGrow
<1>4. PICK stage \in {"stop", "call"} :
          /\ stage = "stop" => task[p].kind = "delete"
          /\ Become(p, [task[p] EXCEPT !.stage = stage])
    BY DEF Mark, IsKind
<1>5. PICK t : t = [task[p] EXCEPT !.stage = stage]
    OBVIOUS
<1>6. TasksOK'
    BY <1>1, <1>3, <1>4, <1>5, StageFacts, GoesOn DEF Stages
<1> QED BY <1>3, <1>6, QuietHolds DEF Mark, IInv, HistoryOK

LEMMA RunAsyncOpHolds ==
    ASSUME IInv, NEW p \in Procs, RunAsyncOp(p)
    PROVE  IInv'
<1>1. Busy(task[p])
    BY DEF RunAsyncOp, At, Busy
<1>2. PICK status \in Statuses : Become(p, Ending(p, status))
    BY DEF RunAsyncOp, Call, Goal, Needs, Statuses
<1>3. GuestsAgree
    BY SameGuests, PoweredTaskAgrees DEF RunAsyncOp, Call, Goal
<1>4. RowsAgree /\ IdsGrow
    BY SameRows DEF RunAsyncOp, IdsGrow
<1>5. PICK t : t = Ending(p, status)
    OBVIOUS
<1>6. TasksOK'
    BY <1>1, <1>2, <1>3, <1>4, <1>5, EndingFacts, GoesOn
<1> QED BY <1>3, <1>4, <1>6, QuietHolds DEF RunAsyncOp, IInv, HistoryOK

LEMMA FinishHolds ==
    ASSUME IInv, NEW p \in Procs, Finish(p)
    PROVE  IInv'
<1>1. RowsAgree /\ GuestsAgree /\ IdsGrow
    BY StatusWritten, SameGuests, TaskFacts DEF Finish, At, Busy, IdsGrow
<1>2. TasksOK'
    BY <1>1, Rests DEF Finish, Idle
<1> QED BY <1>1, <1>2, QuietHolds DEF Finish, IInv, HistoryOK

LEMMA StopForDeleteHolds ==
    ASSUME IInv, NEW p \in Procs, StopForDelete(p)
    PROVE  IInv'
<1>1. Busy(task[p]) /\ task[p].kind = "delete" /\ task[p].row.status \in Statuses
    BY TaskFacts DEF StopForDelete, At, Busy, IInv, TasksOK, GoodTask
<1>2. GuestsAgree
    BY SameGuests, PoweredTaskAgrees DEF StopForDelete, Call
<1>3. RowsAgree /\ IdsGrow
    BY SameRows DEF StopForDelete, IdsGrow
<1>4. ASSUME Become(p, [task[p] EXCEPT !.stage = "destroy"]) PROVE TasksOK'
    <2>1. PICK t : t = [task[p] EXCEPT !.stage = "destroy"]
        OBVIOUS
    <2>2. Become(p, t)
        BY <1>4, <2>1
    <2>3. /\ t \in Work /\ t.stage = "destroy"
          /\ t.vm = task[p].vm /\ t.kind = task[p].kind /\ SamePlace(t.row, task[p].row)
        BY <1>1, <2>1, StageFacts DEF Stages
    <2> QED BY <1>1, <1>2, <1>3, <2>2, <2>3, GoesOn
<1>5. ASSUME Become(p, Ending(p, task[p].row.status)) PROVE TasksOK'
    <2>1. PICK t : t = Ending(p, task[p].row.status)
        OBVIOUS
    <2>2. Become(p, t)
        BY <1>5, <2>1
    <2>3. /\ t \in Work /\ t.stage = "finish"
          /\ t.vm = task[p].vm /\ t.kind = task[p].kind /\ SamePlace(t.row, task[p].row)
        BY <1>1, <2>1, EndingFacts
    <2> QED BY <1>1, <1>2, <1>3, <2>2, <2>3, GoesOn
<1>6. TasksOK'
    BY <1>4, <1>5 DEF StopForDelete, Call, Revert
<1> QED BY <1>2, <1>3, <1>6, QuietHolds DEF StopForDelete, IInv, HistoryOK

\* When the guest is destroyed no guest of the VM is left, and nobody is about
\* to clone one: a creation that has come so far has no guest yet.
LEMMA DestroyHolds ==
    ASSUME IInv, NEW p \in Procs, Destroy(p)
    PROVE  IInv'
<1>1. Busy(task[p]) /\ task[p].stage = "destroy"
    BY DEF Destroy, At, Busy
<1>2. /\ task[p].kind = "delete" /\ task[p].row.status \in Statuses
      /\ task[p] \in Work /\ GoodTask(task[p])
    BY <1>1, TaskFacts DEF IInv, TasksOK, GoodTask
<1>3. GuestsAgree
    BY SameGuests, DestroyedAgrees DEF Destroy, Call
<1>4. RowsAgree /\ IdsGrow
    BY SameRows DEF Destroy, IdsGrow
<1>5. CASE Become(p, Ending(p, task[p].row.status))
    <2>1. PICK t : t = Ending(p, task[p].row.status)
        OBVIOUS
    <2>2. TasksOK'
        BY <1>1, <1>2, <1>3, <1>4, <1>5, <2>1, EndingFacts, GoesOn
    <2> QED BY <1>3, <1>4, <2>2, QuietHolds DEF Destroy, IInv, HistoryOK
<1>6. CASE /\ Power(p) = "stopped" /\ guest' = Destroyed(p)
           /\ Become(p, [task[p] EXCEPT !.stage = "remove"])
    <2>1. PICK t : t = [task[p] EXCEPT !.stage = "remove"]
        OBVIOUS
    <2>2. /\ t \in Work /\ t.stage = "remove" /\ t.vm = task[p].vm
          /\ t.kind = "delete" /\ t.row = task[p].row
        BY <2>1, <1>1, <1>2, StageFacts DEF Stages
    <2>3. PICK i : i = task[p].row.vmid
        OBVIOUS
    <2>4. i \in DOMAIN guest /\ guest[i].node = task[p].row.node
        BY <1>6, <2>3 DEF Power, OnNode
    <2>5. t.vm \in DOMAIN rows => guest[i].vm = t.vm
        BY <2>2, <2>3, <2>4, <1>1, <1>2, GuestOfRow DEF GoodTask, SamePlace
    <2>6. \A j \in DOMAIN guest' : j \in DOMAIN guest /\ j # i /\ guest'[j] = guest[j]
        BY <1>6, <2>3 DEF Destroyed, Restrict
    <2>7. \A j \in DOMAIN guest' : guest'[j].vm # t.vm
        <3> SUFFICES ASSUME NEW j \in DOMAIN guest', guest'[j].vm = t.vm PROVE FALSE
            OBVIOUS
        <3>1. j \in DOMAIN guest /\ j # i /\ guest[j].vm = t.vm
            BY <2>6
        <3>2. t.vm \in DOMAIN rows /\ rows[t.vm].vmid = j
            BY <3>1 DEF IInv, GuestsOK
        <3>3. rows[t.vm].vmid = i
            BY <3>2, <2>2, <2>3, <1>1, <1>2 DEF GoodTask, SamePlace
        <3> QED BY <3>1, <3>2, <3>3
    <2>8. GoodTask(t)'
        BY <2>2, <2>7, <1>1, <1>2, <1>4 DEF GoodTask, Busy, SamePlace, Destroy, Work
    <2>9. ASSUME NEW u, GoodTask(u), Compatible(u, task[p]) PROVE Compatible(u, t)'
        <3>1. Busy(u) /\ u.vm = t.vm => u.stage # "clone"
            BY <2>9, <2>4, <2>5 DEF GoodTask
        <3> QED BY <3>1, <2>9, <2>2, <1>1, <1>2, <1>4 DEF Compatible, Busy, SamePlace, IdsGrow
    <2>10. TasksOK'
        BY <1>3, <1>4, <1>6, <2>1, <2>8, <2>9, GoodStays, OneTaskChanges DEF IdsGrow
    <2> QED BY <1>3, <1>4, <2>10, QuietHolds DEF Destroy, IInv, HistoryOK
<1> QED BY <1>5, <1>6 DEF Destroy, Call, Revert

\* No guest of the VM is left, and who else deletes it does so a second time.
LEMMA RemoveRowHolds ==
    ASSUME IInv, NEW p \in Procs, RemoveRow(p)
    PROVE  IInv'
<1>1. Busy(task[p]) /\ task[p].stage = "remove" /\ Become(p, Idle)
    BY DEF RemoveRow, At, Busy
<1>2. PICK v : v = task[p].vm
    OBVIOUS
<1>3. task[p].kind = "delete" /\ \A i \in DOMAIN guest : guest[i].vm # v
    BY <1>1, <1>2 DEF IInv, TasksOK, GoodTask
<1>4. /\ DOMAIN rows' = DOMAIN rows \ {v}
      /\ \A w \in DOMAIN rows' : rows'[w] = rows[w]
    BY <1>2 DEF RemoveRow, Restrict
<1>. nodes' = nodes /\ usedIds' = usedIds /\ guest' = guest
    BY DEF RemoveRow
<1>5. RowsOK'
    BY <1>4 DEF IInv, RowsOK, SamePlace
<1>6. GuestsOK'
    BY <1>3, <1>4 DEF IInv, GuestsOK
<1>7. GoodTask(Idle)'
    BY DEF GoodTask, Idle, Stages, Busy
<1>8. ASSUME NEW u, GoodTask(u), Compatible(u, task[p]) PROVE GoodTask(u)'
    <2>1. Busy(u) /\ u.vm = v =>
              u.stage \notin {"save", "clone"} /\ (u.kind = "delete" => v \in twice)
        BY <1>8, <1>1, <1>2, <1>3 DEF Compatible
    <2>2. u.stage \in Stages /\ twice' = twice /\ usedIds' = usedIds /\ guest' = guest
        BY <1>8 DEF GoodTask, RemoveRow
    <2>3. CASE Busy(u) /\ u.vm = v
        BY <2>1, <2>2, <2>3, <1>4, <1>8 DEF GoodTask, Busy, SamePlace
    <2>4. CASE Busy(u) /\ u.vm # v
        BY <2>2, <2>4, <1>4, <1>8 DEF GoodTask, Busy, SamePlace
    <2>5. CASE ~Busy(u)
        BY <2>2, <2>5 DEF GoodTask, Busy
    <2> QED BY <2>3, <2>4, <2>5
<1>9. ASSUME NEW u PROVE Compatible(u, Idle)'
    BY DEF Compatible, Busy, Idle
<1>10. TasksOK'
    <2>1. twice \subseteq twice'
        BY DEF RemoveRow
    <2>2. PICK t : t = Idle
        OBVIOUS
    <2>3. GoodTask(t)' /\ (\A u : Compatible(u, t)') /\ Become(p, t)
        BY <2>2, <1>1, <1>7, <1>9
    <2> QED BY <2>1, <2>3, <1>8, OneTaskChanges
<1> QED BY <1>5, <1>6, <1>10 DEF IInv, HistoryOK, RemoveRow

\* The copy names the place of the VM, whether its row is still there or not.
LEMMA SaveAssignedHolds ==
    ASSUME IInv, NEW p \in Procs, SaveAssigned(p)
    PROVE  IInv'
<1>1. Busy(task[p]) /\ task[p].stage = "assign" /\ Become(p, Idle)
    BY DEF SaveAssigned, At, Busy
<1>2. PICK c \in Customers :
          IF MaySave(task[p].vm, [task[p].row EXCEPT !.customer = c])
          THEN Save(task[p].vm, [task[p].row EXCEPT !.customer = c]) /\ NoteStale(p)
          ELSE UNCHANGED <<rows, resaved>>
    BY DEF SaveAssigned
<1>3. PICK v : v = task[p].vm
    OBVIOUS
<1>4. PICK row : row = [task[p].row EXCEPT !.customer = c]
    OBVIOUS
<1>5. /\ v \in usedIds /\ v \in VMs /\ row \in Row /\ SamePlace(row, task[p].row)
      /\ v \in DOMAIN rows => SamePlace(rows[v], row)
    BY <1>1, <1>3, <1>4, TaskFacts DEF IInv, TasksOK, GoodTask, Row, SamePlace, Work
<1>6. GuestsAgree /\ IdsGrow
    BY SameGuests DEF SaveAssigned, IdsGrow
<1>7. HistoryOK'
    BY <1>2, <1>3, <1>5 DEF IInv, HistoryOK, SaveAssigned, NoteStale
<1>8. CASE MaySave(v, row)
    <2>1. Save(v, row)
        BY <1>2, <1>3, <1>4, <1>8
    <2>2. /\ DOMAIN rows' = DOMAIN rows \cup {v}
          /\ rows'[v] = row
          /\ \A w \in DOMAIN rows \ {v} : rows'[w] = rows[w]
        BY <2>1 DEF Save
    <2>3. RowsOK'
        <3>1. DOMAIN rows' \subseteq usedIds' /\ usedIds' \subseteq VMs /\ nodes' \subseteq Nodes
            BY <2>2, <1>5 DEF IInv, RowsOK, SaveAssigned
        <3>2. \A w \in DOMAIN rows' : rows'[w] \in Row /\ rows'[w].node \in nodes'
            BY <2>2, <1>5, <1>8 DEF IInv, RowsOK, SaveAssigned, MaySave
        <3>3. \A w, x \in DOMAIN rows' : SamePlace(rows'[w], rows'[x]) => w = x
            BY <2>2, <1>8 DEF IInv, RowsOK, MaySave, SamePlace
        <3> QED BY <3>1, <3>2, <3>3 DEF RowsOK, SamePlace
    <2>4. GuestsOK'
        BY <2>2, <1>5 DEF IInv, GuestsOK, SaveAssigned, SamePlace
    <2>5. ASSUME NEW u, GoodTask(u), Compatible(u, task[p]) PROVE GoodTask(u)'
        <3>1. Busy(u) /\ u.vm = v => SamePlace(row, u.row) /\ u.stage # "save"
            BY <2>5, <1>1, <1>3, <1>5 DEF Compatible, SamePlace
        <3>2. u.stage \in Stages /\ twice' = twice /\ usedIds' = usedIds /\ guest' = guest
            BY <2>5 DEF GoodTask, SaveAssigned
        <3>3. CASE Busy(u) /\ u.vm = v
            BY <3>1, <3>2, <3>3, <2>2, <2>5 DEF GoodTask, Busy, SamePlace
        <3>4. CASE Busy(u) /\ u.vm # v
            BY <3>2, <3>4, <2>2, <2>5 DEF GoodTask, Busy, SamePlace
        <3>5. CASE ~Busy(u)
            BY <3>2, <3>5 DEF GoodTask, Busy
        <3> QED BY <3>3, <3>4, <3>5
    <2>6. PICK t : t = Idle
        OBVIOUS
    <2>7. GoodTask(t)' /\ Become(p, t)
        BY <2>6, <1>1 DEF GoodTask, Idle, Stages, Busy
    <2>8. ASSUME NEW u PROVE Compatible(u, t)'
        BY <2>6 DEF Compatible, Busy, Idle
    <2>9. TasksOK'
        BY <1>6, <2>5, <2>7, <2>8, OneTaskChanges DEF IdsGrow
    <2> QED BY <2>3, <2>4, <2>9, <1>7 DEF IInv
<1>9. CASE ~MaySave(v, row)
    <2>1. RowsAgree /\ resaved' = resaved
        BY <1>2, <1>3, <1>4, <1>9, SameRows
    <2>2. TasksOK'
        BY <1>1, <1>6, <2>1, Rests DEF Idle
    <2> QED BY <1>6, <2>1, <2>2, QuietHolds DEF SaveAssigned, IInv, HistoryOK
<1> QED BY <1>8, <1>9

LEMMA SaveNodeHolds ==
    ASSUME IInv, NEW n \in Nodes, SaveNode(n)
    PROVE  IInv'
<1>1. RowsAgree /\ GuestsAgree /\ IdsGrow
    BY SameRows, SameGuests DEF SaveNode, IdsGrow
<1>2. TasksOK'
    BY <1>1, SameTasks DEF SaveNode
<1>3. RowsOK'
    BY DEF IInv, RowsOK, SaveNode
<1>4. GuestsOK'
    BY DEF IInv, GuestsOK, SaveNode
<1> QED BY <1>2, <1>3, <1>4 DEF IInv, HistoryOK, SaveNode

LEMMA DeleteNodeHolds ==
    ASSUME IInv, NEW p \in Procs, NEW n \in nodes, DeleteNode(p, n)
    PROVE  IInv'
<1>1. RowsAgree /\ GuestsAgree /\ IdsGrow
    BY SameRows, SameGuests DEF DeleteNode, IdsGrow
<1>2. PICK t : t = [kind |-> "deleteNode", stage |-> "deleteNode", node |-> n]
    OBVIOUS
<1>3. TasksOK'
    BY <1>1, <1>2, Rests DEF DeleteNode
<1> QED BY <1>1, <1>3, QuietHolds DEF DeleteNode, IInv, HistoryOK

\* A node goes only when no row is on it.
LEMMA DropNodeHolds ==
    ASSUME IInv, NEW p \in Procs, DropNode(p)
    PROVE  IInv'
<1>1. RowsAgree /\ GuestsAgree /\ IdsGrow
    BY SameRows, SameGuests DEF DropNode, IdsGrow
<1>2. TasksOK'
    BY <1>1, Rests DEF DropNode, Idle
<1>3. RowsOK'
    BY DEF IInv, RowsOK, DropNode
<1>4. GuestsOK'
    BY DEF IInv, GuestsOK, DropNode
<1> QED BY <1>2, <1>3, <1>4 DEF IInv, HistoryOK, DropNode

LEMMA SwitchPowerHolds ==
    ASSUME IInv, NEW i \in Vmids, SwitchPower(i)
    PROVE  IInv'
<1>1. RowsAgree /\ GuestsAgree /\ IdsGrow
    BY SameRows, PoweredAgrees DEF SwitchPower, IdsGrow
<1>2. TasksOK'
    BY <1>1, SameTasks DEF SwitchPower
<1> QED BY <1>1, <1>2, QuietHolds DEF SwitchPower, IInv, HistoryOK

LEMMA LoseWriteHolds ==
    ASSUME IInv, NEW p \in Procs, LoseWrite(p)
    PROVE  IInv'
<1>1. RowsAgree /\ GuestsAgree /\ IdsGrow
    BY SameRows, SameGuests DEF LoseWrite, IdsGrow
<1>2. faults' \in 0..MaxFaults
    BY BoundsAssumption DEF IInv, HistoryOK, LoseWrite
<1>3. ASSUME At(p, "finish"), Become(p, Idle) PROVE TasksOK'
    BY <1>1, <1>3, Rests DEF Idle
<1>4. ASSUME At(p, "remove"), Become(p, Revert(p)) PROVE TasksOK'
    <2>1. Busy(task[p])
        BY <1>4 DEF At, Busy
    <2>2. PICK t : t = Ending(p, task[p].row.status)
        OBVIOUS
    <2>3. /\ t \in Work /\ t.stage = "finish"
          /\ t.vm = task[p].vm /\ t.kind = task[p].kind /\ SamePlace(t.row, task[p].row)
        BY <2>1, <2>2, TaskFacts, EndingFacts
    <2>4. Become(p, t)
        BY <1>4, <2>2 DEF Revert
    <2> QED BY <1>1, <2>1, <2>3, <2>4, GoesOn
<1>5. TasksOK'
    BY <1>3, <1>4 DEF LoseWrite
<1> QED BY <1>1, <1>2, <1>5, QuietHolds DEF LoseWrite, IInv, HistoryOK

LEMMA CrashHolds ==
    ASSUME IInv, Crash
    PROVE  IInv'
<1>1. RowsAgree /\ GuestsAgree /\ IdsGrow
    BY SameRows, SameGuests DEF Crash, IdsGrow
<1>2. faults' \in 0..MaxFaults
    BY BoundsAssumption DEF IInv, HistoryOK, Crash
<1>3. TasksOK'
    BY DEF Crash, TasksOK, GoodTask, Compatible, Busy, Stages, Idle
<1> QED BY <1>1, <1>2, <1>3, QuietHolds DEF Crash, IInv, HistoryOK

LEMMA StutterHolds ==
    ASSUME IInv, UNCHANGED vars
    PROVE  IInv'
<1>1. RowsAgree /\ GuestsAgree /\ IdsGrow
    BY SameRows, SameGuests DEF vars, IdsGrow
<1>2. TasksOK'
    BY <1>1, SameTasks DEF vars
<1> QED BY <1>1, <1>2, QuietHolds DEF vars, IInv, HistoryOK

LEMMA CommandHolds ==
    ASSUME IInv, NEW p \in Procs, Command(p)
    PROVE  IInv'
<1>1. CASE CreateVM(p)
    BY <1>1, CreateVMHolds
<1>2. ASSUME NEW v \in DOMAIN rows, SuspendVM(p, v) PROVE IInv'
    BY <1>2, LoadHolds DEF SuspendVM, Kinds, IInv, HistoryOK
<1>3. ASSUME NEW v \in DOMAIN rows, ResumeVM(p, v) PROVE IInv'
    BY <1>3, LoadHolds DEF ResumeVM, Kinds, IInv, HistoryOK
<1>4. ASSUME NEW v \in DOMAIN rows, RestartVM(p, v) PROVE IInv'
    BY <1>4, LoadHolds DEF RestartVM, Kinds, IInv, HistoryOK
<1>5. ASSUME NEW v \in DOMAIN rows, AssignCustomer(p, v) PROVE IInv'
    BY <1>5, LoadHolds DEF AssignCustomer, Kinds, IInv, HistoryOK
<1>6. ASSUME NEW v \in DOMAIN rows, DeleteVM(p, v) PROVE IInv'
    <2>1. v \in VMs
        BY DEF IInv, RowsOK
    <2>2. /\ twice \subseteq twice' /\ twice' \subseteq VMs
          /\ (\E q \in Procs : IsKind(q, {"delete"}) /\ task[q].vm = v) => v \in twice'
        BY <1>6, <2>1 DEF DeleteVM, IInv, HistoryOK
    <2> QED BY <1>6, <2>2, LoadHolds DEF DeleteVM, Kinds
<1>7. ASSUME NEW n \in nodes, DeleteNode(p, n) PROVE IInv'
    BY <1>7, DeleteNodeHolds
<1> QED BY <1>1, <1>2, <1>3, <1>4, <1>5, <1>6, <1>7 DEF Command

LEMMA NextHolds == IInv /\ [Next]_vars => IInv'
<1> SUFFICES ASSUME IInv, [Next]_vars PROVE IInv'
    OBVIOUS
<1>1. ASSUME NEW p \in Procs, Command(p) PROVE IInv'
    BY <1>1, CommandHolds
<1>2. ASSUME NEW p \in Procs, Write(p) PROVE IInv'
    BY <1>2, SaveNewHolds, MarkHolds, SaveAssignedHolds, DropNodeHolds DEF Write
<1>3. ASSUME NEW p \in Procs, Goroutine(p) PROVE IInv'
    BY <1>3, CloneHolds, RunAsyncOpHolds, StopForDeleteHolds, DestroyHolds,
       RemoveRowHolds, FinishHolds DEF Goroutine
<1>4. ASSUME NEW p \in Procs, LoseWrite(p) PROVE IInv'
    BY <1>4, LoseWriteHolds
<1>5. ASSUME NEW n \in Nodes, SaveNode(n) PROVE IInv'
    BY <1>5, SaveNodeHolds
<1>6. ASSUME NEW i \in Vmids, SwitchPower(i) PROVE IInv'
    BY <1>6, SwitchPowerHolds
<1>7. CASE Crash
    BY <1>7, CrashHolds
<1>8. CASE UNCHANGED vars
    BY <1>8, StutterHolds
<1> QED BY <1>1, <1>2, <1>3, <1>4, <1>5, <1>6, <1>7, <1>8 DEF Next

-----------------------------------------------------------------------------

\* Rows, guests and everything a command or goroutine has in hand fit together
\* in every run of the program (create_vm.go, vm_lifecycle.go).
THEOREM Invariant == Spec => []IInv
<1>1. Init => IInv
    BY InitHolds
<1>2. IInv /\ [Next]_vars => IInv'
    BY NextHolds
<1> QED BY <1>1, <1>2, PTL DEF Spec

\* The tables, the cluster and the tasks are well formed.
THEOREM TypeCorrect == Spec => []TypeOK
<1>1. IInv => TypeOK
    BY DEF IInv, TypeOK, RowsOK, GuestsOK, TasksOK, GoodTask, Busy, Work, HistoryOK
<1> QED BY <1>1, Invariant, PTL

\* Two rows never stand for one guest, since the unique index decides where the
\* number is not reserved (create_vm.go:56), and the node of every VM exists
\* (delete_node.go:38).
THEOREM RowsKept == Spec => []RowsStand
<1>1. IInv => RowsStand
    BY DEF IInv, RowsOK, SamePlace, RowsStand, OneRowPerGuest, NoOrphanVM
<1> QED BY <1>1, Invariant, PTL

\* No failure, crash or race leaves a guest without its row (vm_lifecycle.go:201).
THEOREM GuestsKept == Spec => []GuestHasRow
<1>1. IInv => GuestHasRow
    BY DEF IInv, GuestsOK, GuestHasRow
<1> QED BY <1>1, Invariant, PTL

\* A deletion destroys the guest of its own VM, unless the VM was deleted twice
\* at a time (vm_lifecycle.go:157).
THEOREM DeletesItsOwn == Spec => OwnGuestDestroyed
<1> DEFINE Own(p) ==
        Destroy(p) /\ OnNode(p) /\ guest' = Destroyed(p)
            => guest[task[p].row.vmid].vm = task[p].vm \/ task[p].vm \in twice
<1>1. ASSUME IInv, NEW p \in Procs PROVE Own(p)
    <2> SUFFICES ASSUME Destroy(p), OnNode(p), task[p].vm \notin twice
                 PROVE  guest[task[p].row.vmid].vm = task[p].vm
        OBVIOUS
    <2>1. Busy(task[p]) /\ GoodTask(task[p]) /\ task[p].kind = "delete"
        BY <1>1 DEF Destroy, At, Busy, IInv, TasksOK, GoodTask
    <2>2. task[p].vm \in DOMAIN rows /\ SamePlace(rows[task[p].vm], task[p].row)
        BY <2>1 DEF GoodTask
    <2> QED BY <1>1, <2>2, GuestOfRow DEF OnNode, SamePlace
<1>2. IInv /\ [Next]_vars => [\A p \in Procs : Own(p)]_vars
    BY <1>1
<1> QED BY <1>2, Invariant, PTL DEF Spec, OwnGuestDestroyed
=============================================================================
