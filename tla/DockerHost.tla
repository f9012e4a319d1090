----------------------------- MODULE DockerHost -----------------------------
(***************************************************************************)
(* What services, swarm stacks, the project's own components and apps have *)
(* in common (internal/modules/docker): a row that says what is to run     *)
(* where, containers on a machine, and requests or goroutines that read    *)
(* the row, work on the containers for minutes and save the whole copy     *)
(* they read, an insert if the row is gone.  Nothing orders them, and the  *)
(* containers are found by the project's name, not by the row.             *)
(***************************************************************************)
EXTENDS Naturals, Tables

CONSTANTS
    Requests,       \* requests and goroutines that may be under way
    Services, Stacks, Components, Apps,     \* ids (uuids), by table
    DockerNodes,    \* docker_nodes: where services run
    SwarmNodes,     \* swarm_nodes: where stacks and components run
    ManagerNodes,   \* the swarm nodes that are managers
    Local,          \* the server's own Docker, where apps run
    Names,          \* names of compose projects
    AppNames,       \* names of the apps' containers
    Specs,          \* compose files and configurations
    Batches,        \* bound: the ids a behaviour may give out, one set of them
    MaxCommands,    \* bound: requests, and nodes removed
    MaxFaults       \* bound: failures, closed pages and restarts

Ids == Services \cup Stacks \cup Components \cup Apps

\* Each kind has a table of its own, and so has each kind of node.
ASSUME TablesAssumption ==
    /\ Services \cap (Stacks \cup Components \cup Apps) = {}
    /\ DockerNodes \cap SwarmNodes = {} /\ Local \notin DockerNodes \cup SwarmNodes
    /\ ManagerNodes \subseteq SwarmNodes
ASSUME BatchesAssumption == Batches \subseteq SUBSET Ids
ASSUME LimitsAssumption == {MaxCommands, MaxFaults} \subseteq Nat

VARIABLES
    listed,         \* docker_services, swarm_stacks, vvs_deployments, docker_apps
    fresh,          \* ids not given out yet
    nodes,          \* rows of docker_nodes and swarm_nodes
    host,           \* by node and project: whose files its containers are of
    files,          \* by project: the compose file on its node's disk
    work,           \* what each request or goroutine is at
    adrift,         \* history: rows whose status may not be what runs
    left,           \* history: projects whose containers may have no row
    commands, faults

spent == <<commands, faults>>
dockerVars == <<listed, fresh, nodes, host, files, work, adrift, left, spent>>

Hosts == DockerNodes \cup SwarmNodes \cup {Local}
AllNames == Names \cup AppNames \cup Components
Statuses == {"idle", "pending", "deploying", "updating", "building", "pushing", "running",
             "stopped", "removing", "error"}
Row == [name : AllNames, node : Hosts, spec : Specs, status : Statuses]
Containers == [specs : (SUBSET Specs) \ {{}}, up : BOOLEAN]

NewRow(name, n, spec, status) == [name |-> name, node |-> n, spec |-> spec, status |-> status]
Project(r) == <<r.node, r.name>>
On(prj) == {i \in DOMAIN listed : Project(listed[i]) = prj}

HasCommand == commands < MaxCommands /\ commands' = commands + 1 /\ UNCHANGED faults
HasFault == faults < MaxFaults /\ faults' = faults + 1 /\ UNCHANGED commands

-----------------------------------------------------------------------------
(* Tasks: what is done, with which copy of the row, how far it is, and     *)
(* whether what it goes by is out of date (somebody else changed the row   *)
(* or the project, or a failure was ignored)                               *)

Free == [op |-> "none"]
NewWork(op, i, r, at) == [op |-> op, id |-> i, row |-> r, at |-> at, stale |-> FALSE]
IsFree(p) == work[p].op = "none"
Doing(p, ops, at) == work[p].op \in ops /\ work[p].at = at
Of(p, table) == ~IsFree(p) /\ work[p].id \in table
Enter(p, t) == work' = [work EXCEPT ![p] = t]
GoTo(p, at) == Enter(p, [work[p] EXCEPT !.at = at])
GoOnRegardless(p, at) == Enter(p, [work[p] EXCEPT !.at = at, !.stale = TRUE])

Concerns(q, i, prj) == ~IsFree(q) /\ (work[q].id = i \/ Project(work[q].row) = prj)

\* p has changed row i or project prj, and goes on with t.
Precede(p, i, prj, t) ==
    work' = [q \in Requests |-> IF q = p THEN t
                             ELSE IF Concerns(q, i, prj) THEN [work[q] EXCEPT !.stale = TRUE]
                             ELSE work[q]]

\* A step of p on its own row or project.
Proceed(p, at) ==
    Precede(p, work[p].id, Project(work[p].row), [work[p] EXCEPT !.at = at])
Finish(p) == Precede(p, work[p].id, Project(work[p].row), Free)

\* A new row, and what is done for it.
Create(p, i, r, t) ==
    /\ HasCommand
    /\ IsFree(p)
    /\ i \in fresh
    /\ fresh' = fresh \ {i}
    /\ listed' = Put(listed, i, r)
    /\ Enter(p, t)
    /\ UNCHANGED <<nodes, host, files, adrift, left>>

\* FindByID; r is the copy, changed as the command says.
Read(p, op, i, r, at) ==
    /\ HasCommand
    /\ IsFree(p)
    /\ Enter(p, NewWork(op, i, r, at))
    /\ UNCHANGED <<listed, fresh, nodes, host, files, adrift, left>>

-----------------------------------------------------------------------------
(* Rows *)

\* The foreign key of docker_services.
CanSave(p) == Of(p, Services) => work[p].row.node \in nodes

\* Save is an upsert of the whole row.  Whoever saves another name leaves what
\* runs under the old one.
SaveRow(p, r) ==
    /\ CanSave(p)
    /\ listed' = Put(listed, work[p].id, r)
    /\ left' = left \cup ({Project(listed[j]) : j \in {work[p].id} \cap DOMAIN listed} \ {Project(r)})

\* A status saved on the way.
SaveStep(p, status, at) ==
    /\ SaveRow(p, [work[p].row EXCEPT !.status = status])
    /\ Proceed(p, at)
    /\ UNCHANGED <<fresh, nodes, host, files, adrift, spent>>

\* The same, where the error is ignored.
TrySaveStep(p, status, at) ==
    \/ SaveStep(p, status, at)
    \/ /\ HasFault \/ (~CanSave(p) /\ UNCHANGED spent)
       /\ GoTo(p, at)
       /\ UNCHANGED <<listed, fresh, nodes, host, files, adrift, left>>

Ends == {"up", "started", "hollow", "failed", "halted"}

Outcome(at) ==
    CASE at \in {"up", "started", "hollow"} -> "running"
      [] at = "failed" -> "error"
      [] at = "halted" -> "stopped"

\* The last save.  One that nothing overtook puts right what the row says.
SaveOutcome(p) ==
    /\ work[p].op \in {"deploy", "update", "redeploy", "start", "stop", "build"}
    /\ work[p].at \in Ends
    /\ LET i == work[p].id IN
          /\ SaveRow(p, [work[p].row EXCEPT !.status = Outcome(work[p].at)])
          /\ adrift' = IF work[p].stale \/ work[p].at = "hollow" THEN adrift \cup {i}
                       ELSE adrift \ {i}
    /\ Finish(p)
    /\ UNCHANGED <<fresh, nodes, host, files, spent>>

DeleteRow(p) ==
    /\ Doing(p, {"remove"}, "gone")
    /\ LET i == work[p].id
           now == {Project(listed[j]) : j \in {i} \cap DOMAIN listed}
       IN  /\ listed' = Drop(listed, i)
           /\ left' = IF work[p].stale THEN left \cup now \cup {Project(work[p].row)} ELSE left
           /\ adrift' = adrift \ {i}
    /\ Finish(p)
    /\ UNCHANGED <<fresh, nodes, host, files, spent>>

-----------------------------------------------------------------------------
(* Containers *)

\* Then the containers of prj are those of the files S.
Populate(prj, S, up) ==
    IF S = {} THEN Drop(host, prj) ELSE Put(host, prj, [specs |-> S, up |-> up])

\* Those of p's project; other rows of that name did not ask.
Replace(p, S, up, at) ==
    LET prj == Project(work[p].row) IN
    /\ host' = Populate(prj, S, up)
    /\ adrift' = adrift \cup (On(prj) \ {work[p].id})
    /\ Proceed(p, at)

SpecsAt(prj) == UNION {host[q].specs : q \in {prj} \cap DOMAIN host}

\* Client.Deploy leaves the containers of other files, but for those that have
\* the name of a new one.
Deployed(p) ==
    {S \cup {work[p].row.spec} : S \in SUBSET SpecsAt(Project(work[p].row))}

BringUp(p) ==
    /\ \E S \in Deployed(p) : Replace(p, S, TRUE, "up")
    /\ UNCHANGED <<listed, fresh, nodes, files, left, spent>>

\* Any container can fail: nothing has changed, or some are not up.
BringUpFails(p) ==
    /\ HasFault
    /\ \/ \E S \in Deployed(p) : Replace(p, S, FALSE, "failed")
       \/ GoTo(p, "failed") /\ UNCHANGED <<host, adrift>>
    /\ UNCHANGED <<listed, fresh, nodes, files, left>>

\* Something needed before that fails.
PrepareFails(p) ==
    /\ HasFault
    /\ GoTo(p, "failed")
    /\ UNCHANGED <<listed, fresh, nodes, host, files, adrift, left>>

\* The containers of a project go, whoever's they are, but those of the files S.
TakeDown(p, prj, S, at) ==
    /\ host' = Populate(prj, S, prj \in DOMAIN host /\ host[prj].up)
    /\ adrift' = adrift \cup (On(prj) \ {work[p].id})
    /\ left' = IF S = {} THEN left \ {prj} ELSE left
    /\ Precede(p, work[p].id, prj,
               [work[p] EXCEPT !.at = at, !.stale = @ \/ prj # Project(work[p].row)])
    /\ UNCHANGED <<listed, fresh, nodes, files>>

\* RemoveContainers goes by the project, whatever files they are of.
RemoveAll(p, at) == TakeDown(p, Project(work[p].row), {}, at) /\ UNCHANGED spent

\* None or not all of them go, or they are stopped and stay, and the failure is
\* ignored.
TakeDownFails(p, prj, at) ==
    /\ HasFault
    /\ \/ GoOnRegardless(p, at) /\ UNCHANGED <<host, adrift, left>>
       \/ \E S \in (SUBSET SpecsAt(prj)) \ {{}} :
             /\ host' = Populate(prj, S, FALSE)
             /\ adrift' = adrift \cup (On(prj) \ {work[p].id})
             /\ left' = left \cup {q \in {prj} : On(q) = {}}
             /\ Precede(p, work[p].id, prj, [work[p] EXCEPT !.at = at, !.stale = TRUE])
    /\ UNCHANGED <<listed, fresh, nodes, files>>

RemoveAllFails(p, at) == TakeDownFails(p, Project(work[p].row), at)

\* The running containers of the project are stopped.  A stop that fails after
\* some of them is this step and GiveUp: they are not all up, and nothing is saved.
Halt(p) ==
    /\ Doing(p, {"stop"}, "read")
    /\ LET prj == Project(work[p].row) IN
          IF prj \in DOMAIN host
          THEN Replace(p, host[prj].specs, FALSE, "halted")
          ELSE Proceed(p, "halted") /\ UNCHANGED <<host, adrift>>
    /\ UNCHANGED <<listed, fresh, nodes, files, left, spent>>

-----------------------------------------------------------------------------
(* Interruptions *)

Touched == Ends \cup {"cleared", "gone"}

\* The rows and projects of the tasks of T, which end here.
Forgotten(T) == {work[p].id : p \in {q \in T : ~IsFree(q) /\ work[q].at \in Touched}}
Orphaned(T) == {Project(work[p].row) : p \in {q \in T : ~IsFree(q) /\ work[q].stale}}

\* A goroutine ends early only where its last save fails.
InBackground(p) ==
    \/ Of(p, Components) /\ work[p].op # "remove"
    \/ work[p].op = "build"

\* A call or a save fails, or a closed page ends the request.
GiveUp(p) ==
    /\ HasFault
    /\ ~IsFree(p)
    /\ InBackground(p) => work[p].at \in Ends \cup {"read"}
    /\ Enter(p, Free)
    /\ adrift' = adrift \cup Forgotten({p})
    /\ left' = left \cup Orphaned({p})
    /\ UNCHANGED <<listed, fresh, nodes, host, files>>

\* The foreign key refuses the save: service and node are gone meanwhile.
SaveRefused(p) ==
    /\ Doing(p, {"update"}, "read") \/ (~IsFree(p) /\ work[p].at \in Ends)
    /\ ~CanSave(p)
    /\ Enter(p, Free)
    /\ left' = left \cup {Project(work[p].row)}
    /\ UNCHANGED <<listed, fresh, nodes, host, files, adrift, spent>>

\* The server's process ends, with all its goroutines.
StopAll ==
    /\ work' = [p \in Requests |-> Free]
    /\ adrift' = adrift \cup Forgotten(Requests)
    /\ left' = left \cup Orphaned(Requests)

Restart ==
    /\ HasFault
    /\ StopAll
    /\ UNCHANGED <<listed, fresh, nodes, host, files>>
=============================================================================
