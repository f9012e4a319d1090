---------------------------- MODULE VMLifecycle ----------------------------
(***************************************************************************)
(* Virtual machines on Proxmox (internal/modules/proxmox).  A command      *)
(* reads the VM's row, checks its status and writes a transitional one;    *)
(* a goroutine then talks to Proxmox and writes how it ended.  Commands on *)
(* one VM are not kept apart, and the goroutines of a process that stops   *)
(* are lost with it.  Guests are created by this program only; an operator *)
(* may switch them on and off.                                             *)
(***************************************************************************)
EXTENDS Naturals, FiniteSets, Functions

CONSTANTS
    Procs,          \* commands, each with its goroutine, that may be under way
    VMs,            \* row ids (uuids)
    Customers,
    Nodes,
    MaxVmid,        \* bound: vmids of the cluster are 1..MaxVmid
    MaxFaults       \* bound: crashes and lost writes

ASSUME BoundsAssumption == MaxVmid \in Nat /\ MaxFaults \in Nat

VARIABLES
    nodes,          \* proxmox_nodes
    rows,           \* proxmox_vms, by id
    guest,          \* the cluster: the guests, by vmid
    task,           \* each process: its command, stage and copy of the row
    usedIds,        \* row ids given out
    resaved,        \* history: VMs saved whole from a copy out of date
    twice,          \* history: VMs with two deletions at a time
    faults          \* crashes and lost writes so far

vars == <<nodes, rows, guest, task, usedIds, resaved, twice, faults>>

Vmids == 1..MaxVmid
Statuses == {"running", "stopped", "paused", "creating", "deleting", "unknown"}
Row == [vmid: Vmids, node: Nodes, customer: Customers, status: Statuses]

Guest == [vm: VMs, node: Nodes, power: {"running", "paused", "stopped"}]

Idle == [kind |-> "none", stage |-> "idle"]

\* vm is the row's id, row the copy read from it or made for it.
Task(kind, stage, v, row) == [kind |-> kind, stage |-> stage, vm |-> v, row |-> row]

Become(p, t) == task' = [task EXCEPT ![p] = t]
At(p, stage) == task[p].stage = stage
IsKind(p, kinds) == task[p].kind \in kinds

-----------------------------------------------------------------------------
(* The repository *)

\* Slip: the index on the vmid is not there.
NoVmidIndex(v, row) == row.node \in nodes

\* What the unique index on (vmid, node_id) and the foreign key let in.
MaySave(v, row) ==
    /\ row.node \in nodes
    /\ \A w \in DOMAIN rows \ {v} : <<rows[w].vmid, rows[w].node>> # <<row.vmid, row.node>>

\* The whole row, inserted when it is not there.
Save(v, row) == rows' = [w \in DOMAIN rows \cup {v} |-> IF w = v THEN row ELSE rows[w]]

\* Only the status, and nothing when the row is not there.
UpdateStatus(v, status) ==
    rows' = [w \in DOMAIN rows |->
                IF w = v THEN [rows[w] EXCEPT !.status = status] ELSE rows[w]]

\* The row is no longer what the process read.
IsStale(p) == task[p].vm \notin DOMAIN rows \/ rows[task[p].vm] # task[p].row

NoteStale(p) ==
    resaved' = IF IsStale(p) THEN resaved \cup {task[p].vm} ELSE resaved

-----------------------------------------------------------------------------
(* Creation *)

\* NextVMID: the lowest number without a guest.  It is not reserved.
NextVMID == {i \in Vmids \ DOMAIN guest : 1..(i - 1) \subseteq DOMAIN guest}

CreateVM(p) ==
    /\ At(p, "idle")
    /\ \E n \in nodes, i \in NextVMID, v \in VMs \ usedIds, c \in Customers :
          /\ usedIds' = usedIds \cup {v}
          /\ Become(p, Task("create", "save", v,
                            [vmid |-> i, node |-> n, customer |-> c, status |-> "creating"]))
    /\ UNCHANGED <<nodes, rows, guest, resaved, twice, faults>>

SaveNew(p) ==
    /\ At(p, "save")
    /\ IF MaySave(task[p].vm, task[p].row)
       THEN /\ Save(task[p].vm, task[p].row)
            /\ Become(p, [task[p] EXCEPT !.stage = "clone"])
       ELSE Become(p, Idle) /\ UNCHANGED rows
    /\ UNCHANGED <<nodes, guest, usedIds, resaved, twice, faults>>

\* How a call to Proxmox with its task ends: it takes effect and says so, or
\* it is refused, fails or is not waited for to the end.  In the last two cases
\* it may have had its effect all the same.
Call(p, can, after, ok, failed) ==
    \/ /\ can
       /\ guest' = after
       /\ Become(p, ok) \/ Become(p, failed)
    \/ Become(p, failed) /\ UNCHANGED guest

OnNode(p) ==
    LET i == task[p].row.vmid
    IN  i \in DOMAIN guest /\ guest[i].node = task[p].row.node

Power(p) == IF OnNode(p) THEN guest[task[p].row.vmid].power ELSE "absent"

\* The cluster once the process's guest has that power, or is gone.
Powered(p, power) ==
    [i \in DOMAIN guest |-> IF i = task[p].row.vmid
                            THEN [guest[i] EXCEPT !.power = power] ELSE guest[i]]

Destroyed(p) == Restrict(guest, DOMAIN guest \ {task[p].row.vmid})

Cloned(p) ==
    LET row == task[p].row IN
    [i \in DOMAIN guest \cup {row.vmid} |->
        IF i = row.vmid THEN [vm |-> task[p].vm, node |-> row.node, power |-> "stopped"]
                        ELSE guest[i]]

\* The status the goroutine writes at its end.
Ending(p, status) == [task[p] EXCEPT !.stage = "finish", !.row.status = status]

\* A clone is a stopped guest.
Clone(p) ==
    /\ At(p, "clone")
    /\ Call(p, task[p].row.vmid \notin DOMAIN guest, Cloned(p),
            Ending(p, "running"), Ending(p, "unknown"))
    /\ UNCHANGED <<nodes, rows, usedIds, resaved, twice, faults>>

-----------------------------------------------------------------------------
(* Suspend, resume, restart *)

\* The status a command needs, leaves at once and reverts to.
Needs(kind) == IF kind = "resume" THEN "paused" ELSE "running"

Goal(kind) == IF kind = "suspend" THEN "paused" ELSE "running"

LoadVM(p, v, kind, stage) ==
    /\ At(p, "idle")
    /\ Become(p, Task(kind, stage, v, rows[v]))
    /\ UNCHANGED <<nodes, rows, guest, usedIds, resaved, faults>>

SuspendVM(p, v) ==
    rows[v].status = Needs("suspend") /\ LoadVM(p, v, "suspend", "mark") /\ UNCHANGED twice

ResumeVM(p, v) ==
    rows[v].status = Needs("resume") /\ LoadVM(p, v, "resume", "mark") /\ UNCHANGED twice

\* The row stays "running" through a reboot.
RestartVM(p, v) ==
    rows[v].status = Needs("restart") /\ LoadVM(p, v, "restart", "call") /\ UNCHANGED twice

Mark(p) ==
    /\ At(p, "mark")
    /\ UpdateStatus(task[p].vm,
          IF IsKind(p, {"delete"}) THEN "deleting" ELSE Goal(task[p].kind))
    /\ Become(p, [task[p] EXCEPT !.stage = IF IsKind(p, {"delete"}) THEN "stop" ELSE "call"])
    /\ UNCHANGED <<nodes, guest, usedIds, resaved, twice, faults>>

RunAsyncOp(p) ==
    /\ At(p, "call")
    /\ LET kind == task[p].kind
       IN  Call(p, Power(p) \in (IF kind = "resume" THEN {"paused", "stopped"}
                                                   ELSE {"running"}),
                Powered(p, Goal(kind)), Ending(p, Goal(kind)), Ending(p, Needs(kind)))
    /\ UNCHANGED <<nodes, rows, usedIds, resaved, twice, faults>>

\* Slip: a deletion that failed leaves its mark.
FinishUnlessDelete(p) ==
    /\ At(p, "finish")
    /\ IF IsKind(p, {"delete"}) THEN UNCHANGED rows
       ELSE UpdateStatus(task[p].vm, task[p].row.status)
    /\ Become(p, Idle)
    /\ UNCHANGED <<nodes, guest, usedIds, resaved, twice, faults>>

Finish(p) ==
    /\ At(p, "finish")
    /\ UpdateStatus(task[p].vm, task[p].row.status)
    /\ Become(p, Idle)
    /\ UNCHANGED <<nodes, guest, usedIds, resaved, twice, faults>>

-----------------------------------------------------------------------------
(* Deletion *)

\* A VM whose status says it is being deleted is refused.
DeleteVM(p, v) ==
    /\ rows[v].status # "deleting"
    /\ LoadVM(p, v, "delete", "mark")
    /\ twice' = IF \E q \in Procs : IsKind(q, {"delete"}) /\ task[q].vm = v
                THEN twice \cup {v} ELSE twice

\* The failing branches write the status from before the deletion.
Revert(p) == Ending(p, task[p].row.status)

\* Only a VM whose row said running or paused is stopped first.
StopForDelete(p) ==
    /\ At(p, "stop")
    /\ IF task[p].row.status \in {"running", "paused"}
       THEN Call(p, OnNode(p), Powered(p, "stopped"),
                 [task[p] EXCEPT !.stage = "destroy"], Revert(p))
       ELSE Become(p, [task[p] EXCEPT !.stage = "destroy"]) /\ UNCHANGED guest
    /\ UNCHANGED <<nodes, rows, usedIds, resaved, twice, faults>>

\* Slip: the row goes although Proxmox refuses.
DestroyOrNot(p) ==
    /\ At(p, "destroy")
    /\ Call(p, Power(p) = "stopped", Destroyed(p),
            [task[p] EXCEPT !.stage = "remove"], [task[p] EXCEPT !.stage = "remove"])
    /\ UNCHANGED <<nodes, rows, usedIds, resaved, twice, faults>>

\* Proxmox destroys stopped guests only.
Destroy(p) ==
    /\ At(p, "destroy")
    /\ Call(p, Power(p) = "stopped", Destroyed(p),
            [task[p] EXCEPT !.stage = "remove"], Revert(p))
    /\ UNCHANGED <<nodes, rows, usedIds, resaved, twice, faults>>

RemoveRow(p) ==
    /\ At(p, "remove")
    /\ rows' = Restrict(rows, DOMAIN rows \ {task[p].vm})
    /\ Become(p, Idle)
    /\ UNCHANGED <<nodes, guest, usedIds, resaved, twice, faults>>

-----------------------------------------------------------------------------
(* Assignment and nodes *)

AssignCustomer(p, v) == LoadVM(p, v, "assign", "assign") /\ UNCHANGED twice

\* The whole copy is saved, its status too.
SaveAssigned(p) ==
    /\ At(p, "assign")
    /\ \E c \in Customers :
          LET row == [task[p].row EXCEPT !.customer = c]
          IN  IF MaySave(task[p].vm, row)
              THEN Save(task[p].vm, row) /\ NoteStale(p)
              ELSE UNCHANGED <<rows, resaved>>
    /\ Become(p, Idle)
    /\ UNCHANGED <<nodes, guest, usedIds, twice, faults>>

\* A node is created, or a node read earlier is saved with other credentials.
SaveNode(n) ==
    /\ nodes' = nodes \cup {n}
    /\ UNCHANGED <<rows, guest, task, usedIds, resaved, twice, faults>>

DeleteNode(p, n) ==
    /\ At(p, "idle")
    /\ \A v \in DOMAIN rows : rows[v].node # n
    /\ Become(p, [kind |-> "deleteNode", stage |-> "deleteNode", node |-> n])
    /\ UNCHANGED <<nodes, rows, guest, usedIds, resaved, twice, faults>>

\* Slip: no foreign key.
DropNodeAnyway(p) ==
    /\ At(p, "deleteNode")
    /\ nodes' = nodes \ {task[p].node}
    /\ Become(p, Idle)
    /\ UNCHANGED <<rows, guest, usedIds, resaved, twice, faults>>

\* VMs may have come since the check: the foreign key keeps their node.
DropNode(p) ==
    /\ At(p, "deleteNode")
    /\ nodes' = IF \E v \in DOMAIN rows : rows[v].node = task[p].node
                THEN nodes ELSE nodes \ {task[p].node}
    /\ Become(p, Idle)
    /\ UNCHANGED <<rows, guest, usedIds, resaved, twice, faults>>

-----------------------------------------------------------------------------
(* The outside *)

\* An operator starts, resumes or shuts down a guest in Proxmox.
SwitchPower(i) ==
    /\ i \in DOMAIN guest
    /\ \E power \in {"running", "stopped"} : guest' = [guest EXCEPT ![i].power = power]
    /\ UNCHANGED <<nodes, rows, task, usedIds, resaved, twice, faults>>

\* The last write of a goroutine fails: it is logged.  A row that cannot be
\* removed is reverted.
LoseWrite(p) ==
    /\ faults < MaxFaults
    /\ faults' = faults + 1
    /\ \/ At(p, "finish") /\ Become(p, Idle)
       \/ At(p, "remove") /\ Become(p, Revert(p))
    /\ UNCHANGED <<nodes, rows, guest, usedIds, resaved, twice>>

Crash ==
    /\ faults < MaxFaults
    /\ faults' = faults + 1
    /\ task' = [p \in Procs |-> Idle]
    /\ UNCHANGED <<nodes, rows, guest, usedIds, resaved, twice>>

-----------------------------------------------------------------------------
Init ==
    /\ nodes = Nodes
    /\ rows = [v \in {} |-> CHOOSE r \in Row : TRUE]
    /\ guest = [i \in {} |-> CHOOSE g \in Guest : TRUE]
    /\ task = [p \in Procs |-> Idle]
    /\ usedIds = {} /\ resaved = {} /\ twice = {}
    /\ faults = 0

Command(p) ==
    \/ CreateVM(p)
    \/ \E v \in DOMAIN rows :
          SuspendVM(p, v) \/ ResumeVM(p, v) \/ RestartVM(p, v)
          \/ DeleteVM(p, v) \/ AssignCustomer(p, v)
    \/ \E n \in nodes : DeleteNode(p, n)

Write(p) == SaveNew(p) \/ Mark(p) \/ SaveAssigned(p) \/ DropNode(p)

Goroutine(p) ==
    Clone(p) \/ RunAsyncOp(p) \/ StopForDelete(p) \/ Destroy(p) \/ RemoveRow(p) \/ Finish(p)

Next ==
    \/ \E p \in Procs : Command(p) \/ Write(p) \/ Goroutine(p) \/ LoseWrite(p)
    \/ \E n \in Nodes : SaveNode(n)
    \/ \E i \in Vmids : SwitchPower(i)
    \/ Crash

Spec == Init /\ [][Next]_vars

\* Every call of a goroutine is bounded by its context.
FairSpec == Spec /\ \A p \in Procs : WF_vars(Goroutine(p))

-----------------------------------------------------------------------------
(* Properties *)

Stages == {"idle", "save", "clone", "mark", "call", "stop", "destroy", "remove",
           "finish", "assign", "deleteNode"}

\* Rows, guests and copies have the shapes the mapper gives them; a goroutine
\* that writes or removes works on a row id that was given out.
TypeOK ==
    /\ nodes \subseteq Nodes
    /\ DOMAIN rows \subseteq usedIds /\ usedIds \subseteq VMs
    /\ \A v \in DOMAIN rows : rows[v] \in Row
    /\ DOMAIN guest \subseteq Vmids /\ \A i \in DOMAIN guest : guest[i] \in Guest
    /\ \A p \in Procs :
          /\ task[p].stage \in Stages
          /\ task[p].stage \notin {"idle", "deleteNode"} =>
                task[p].vm \in usedIds /\ task[p].row \in Row
    /\ resaved \cup twice \subseteq VMs /\ faults \in 0..MaxFaults

\* Two rows never stand for one guest, though two creations may be given the
\* same number by the cluster.
OneRowPerGuest ==
    \A v, w \in DOMAIN rows :
        <<rows[v].vmid, rows[v].node>> = <<rows[w].vmid, rows[w].node>> => v = w

\* The node of every VM exists, though nodes are checked for VMs in one
\* transaction and deleted in another.
NoOrphanVM == \A v \in DOMAIN rows : rows[v].node \in nodes

\* Every row stands for a guest place of its own on a node that exists.
RowsStand == OneRowPerGuest /\ NoOrphanVM

\* A guest that was cloned keeps its row: no failure, crash or race leaves a
\* guest running that nobody sees.
GuestHasRow == \A i \in DOMAIN guest : guest[i].vm \in DOMAIN rows

\* A deletion destroys the guest of its own VM: the number it works with was
\* not given to another VM since, unless the VM was deleted twice at a time.
OwnGuestDestroyed ==
    [][\A p \in Procs :
          Destroy(p) /\ OnNode(p) /\ guest' = Destroyed(p)
              => guest[task[p].row.vmid].vm = task[p].vm \/ task[p].vm \in twice]_vars

\* A deletion comes to an end: the row goes or has another status, unless the
\* process died, a write was lost or an assignment saved a stale copy.
DeletionEnds ==
    \A v \in VMs :
        (v \in DOMAIN rows /\ rows[v].status = "deleting")
            ~> (v \notin DOMAIN rows \/ rows[v].status # "deleting"
                \/ v \in resaved \/ faults > 0)
=============================================================================
