---------------------------- MODULE SwarmCluster ----------------------------
(***************************************************************************)
(* One Docker Swarm cluster and its nodes (internal/modules/docker: the    *)
(* swarm node commands, the Hetzner commands, the buttons of the cluster's *)
(* page).  A row is read, something is done on a machine far away for      *)
(* seconds or minutes, and the row is saved whole.  Any step may be the    *)
(* last: a call fails, the browser goes away and with it the request's     *)
(* context, the process stops.                                             *)
(* A swarm is called by the node it was initialised on; so are its tokens. *)
(* Nodes are numbers in the order of their names, each with a machine of   *)
(* its own; a machine is entered or ordered once.                          *)
(***************************************************************************)
EXTENDS Naturals, FiniteSets, Tables

CONSTANTS
    Procs,          \* requests that may be under way
    Nodes,          \* numbers, in the order of the names
    NoNode,         \* no swarm, no tokens
    MaxEvents       \* bound: failures, and changes to the cluster by hand

ASSUME NodesAssumption == Nodes \subseteq Nat /\ NoNode \notin Nodes
ASSUME BoundAssumption == MaxEvents \in Nat

VARIABLES
    cluster,        \* the swarm_clusters row
    rows,           \* swarm_nodes, by node
    machine,        \* what the machine is: free, own, rented or given back
    member,         \* the swarm each machine is in
    task,           \* what each request is at
    stored,         \* history: the nodes whose tokens were stored
    crossed,        \* history: nodes whose row was saved from a copy out of
                    \* date, or outlived the node's leaving the swarm
    overwritten,    \* history: the tokens were saved from such a copy
    unsure,         \* history: two initialisations overlapped, or the manager
                    \* that was initialised is not known by its id
    stranded,       \* history: servers no row, or no key, can give back
    events

vars == <<cluster, rows, machine, member, task, stored, crossed, overwritten, unsure, stranded, events>>

outside == <<machine, member>>
history == <<stored, crossed, overwritten, unsure, stranded>>


Idle == [kind |-> "none"]
IsIdle(p) == task[p].kind = "none"
Become(p, t) == task' = [task EXCEPT ![p] = t]
Done(p) == Become(p, Idle)
At(p, kind) == task[p].kind = kind
HasEvent == events < MaxEvents /\ events' = events + 1
Busy(kinds, n) == \E p \in Procs : task[p].kind \in kinds /\ task[p].node = n

SwarmNode == [role : {"manager", "worker"}, server : BOOLEAN,
              vpn : BOOLEAN, active : BOOLEAN, known : BOOLEAN]
Cluster == [exists : BOOLEAN, tokens : Nodes \cup {NoNode}, hetzner : BOOLEAN]

\* Slip: the row of a server that was ordered does not have its number.
NewSwarmNodeAnon(role, server) ==
    [role |-> role, server |-> FALSE, vpn |-> FALSE, active |-> FALSE, known |-> FALSE]

\* server: the row has the server's number; vpn: the node has its address;
\* known: Docker's own id of the node is recorded.
NewSwarmNode(role, server) ==
    [role |-> role, server |-> server, vpn |-> FALSE, active |-> FALSE, known |-> FALSE]

Managers == {n \in DOMAIN rows : rows[n].role = "manager"}
First(S) == CHOOSE n \in S : \A i \in S : n <= i

-----------------------------------------------------------------------------
(* Saves are of the whole row and put back one that has been removed. *)

SaveNode(n, read, row) ==
    /\ rows' = Put(rows, n, row)
    /\ crossed' = IF n \in DOMAIN rows /\ rows[n] = read THEN crossed ELSE crossed \cup {n}

\* From a copy that was read as read.
SaveCluster(read, c) ==
    /\ cluster' = c
    /\ overwritten' =
          (overwritten \/ ~cluster.exists \/ (cluster.tokens # read.tokens /\ c.tokens = read.tokens))

-----------------------------------------------------------------------------
(* Nodes: entered by hand, then given their address in the private network *)

CreateSwarmNode(n) ==
    /\ machine[n] = "free" /\ ~Busy({"order"}, n)
    /\ \E role \in {"manager", "worker"} : rows' = Put(rows, n, NewSwarmNode(role, FALSE))
    /\ machine' = [machine EXCEPT ![n] = "own"]
    /\ UNCHANGED <<cluster, member, task, history, events>>

Provisioning(n, row, order) == [kind |-> "provision", node |-> n, row |-> row, order |-> order]

BeginProvision(p, n) ==
    /\ IsIdle(p)
    /\ n \in DOMAIN rows /\ ~rows[n].vpn
    /\ cluster.exists
    /\ Become(p, Provisioning(n, rows[n], FALSE))
    /\ UNCHANGED <<cluster, rows, outside, history, events>>

\* Docker and wgmesh are installed over SSH and the address appears in time.
ProvisionSwarmNode(p) ==
    /\ At(p, "provision")
    /\ machine[task[p].node] # "returned"
    /\ SaveNode(task[p].node, task[p].row, [task[p].row EXCEPT !.vpn = TRUE])
    /\ Become(p, IF task[p].order THEN [kind |-> "enlist", node |-> task[p].node] ELSE Idle)
    /\ UNCHANGED <<cluster, outside, stored, overwritten, unsure, stranded, events>>

-----------------------------------------------------------------------------
(* Initialising a swarm *)

\* The page offers it while no manager's id is known, on its first manager.
swarmCanInit ==
    /\ \E n \in Managers : rows[n].vpn
    /\ \A n \in Managers : ~rows[n].known

Initialising == {p \in Procs : task[p].kind \in {"init", "store", "activate"}
                                 /\ (task[p].kind = "activate" => task[p].founder)}

StartInit(p, n) ==
    /\ Become(p, [kind |-> "init", node |-> n, row |-> rows[n], cluster |-> cluster])
    /\ unsure' = (unsure \/ Initialising # {})

BeginInit(p) ==
    /\ IsIdle(p)
    /\ cluster.exists
    /\ swarmCanInit
    /\ StartInit(p, First({n \in Managers : rows[n].vpn}))
    /\ UNCHANGED <<cluster, rows, outside, stored, crossed, overwritten, stranded, events>>

\* Docker refuses a machine that is in a swarm.
SwarmInit(p) ==
    /\ At(p, "init")
    /\ LET n == task[p].node IN
          /\ machine[n] # "returned" /\ member[n] = NoNode
          /\ member' = [member EXCEPT ![n] = n]
    /\ Become(p, [task[p] EXCEPT !.kind = "store"])
    /\ UNCHANGED <<cluster, rows, machine, history, events>>

StoreTokens(p) ==
    /\ At(p, "store")
    /\ SaveCluster(task[p].cluster,
                   [task[p].cluster EXCEPT !.tokens = task[p].node])
    /\ stored' = stored \cup {task[p].node}
    /\ Become(p, [kind |-> "activate", node |-> task[p].node, row |-> task[p].row, founder |-> TRUE])
    /\ UNCHANGED <<rows, outside, crossed, unsure, stranded, events>>

-----------------------------------------------------------------------------
(* Joining one *)

StartJoin(p, n) ==
    Become(p, [kind |-> "join", node |-> n, row |-> rows[n], tokens |-> cluster.tokens])

CanJoin(n) == n \in DOMAIN rows /\ rows[n].vpn /\ cluster.exists /\ cluster.tokens # NoNode

BeginJoin(p, n) ==
    /\ IsIdle(p)
    /\ CanJoin(n) /\ ~rows[n].known
    /\ StartJoin(p, n)
    /\ UNCHANGED <<cluster, rows, outside, history, events>>

\* Slip: a join that is refused passes for one that worked.
SwarmJoinUnheard(p) ==
    /\ At(p, "join")
    /\ LET n == task[p].node IN
          /\ \/ member' = [member EXCEPT ![n] = task[p].tokens]
             \/ UNCHANGED member
          /\ Become(p, [kind |-> "activate", node |-> n, row |-> task[p].row, founder |-> FALSE])
    /\ UNCHANGED <<cluster, rows, machine, history, events>>

\* The tokens are presented to the node the swarm was initialised on.
SwarmJoin(p) ==
    /\ At(p, "join")
    /\ LET n == task[p].node
           s == task[p].tokens
       IN  /\ machine[n] # "returned" /\ member[n] = NoNode
           /\ member[s] = s
           /\ member' = [member EXCEPT ![n] = s]
           /\ Become(p, [kind |-> "activate", node |-> n, row |-> task[p].row, founder |-> FALSE])
    /\ UNCHANGED <<cluster, rows, machine, history, events>>

\* A new manager looks itself up; who joined is looked up by the first manager
\* whose id is known.  Nobody need be found.
Found(p) ==
    LET n == task[p].node
        known == {m \in Managers : rows[m].known}
    IN  IF task[p].founder THEN BOOLEAN
        ELSE {FALSE} \cup {k \in {TRUE} : known # {} /\ member[n] # NoNode
                                            /\ member[First(known)] = member[n]}

Activate(p) ==
    /\ At(p, "activate")
    /\ \E k \in Found(p) :
          /\ SaveNode(task[p].node, task[p].row,
                      [task[p].row EXCEPT !.active = TRUE, !.known = @ \/ k])
          /\ unsure' = (unsure \/ (task[p].founder /\ ~k))
    /\ Done(p)
    /\ UNCHANGED <<cluster, outside, stored, overwritten, stranded, events>>

-----------------------------------------------------------------------------
(* Ordering a server that becomes a node *)

BeginOrder(p, n) ==
    /\ IsIdle(p)
    /\ cluster.exists /\ cluster.hetzner
    /\ machine[n] = "free" /\ ~Busy({"order"}, n)
    /\ \E role \in {"manager", "worker"} : Become(p, [kind |-> "order", node |-> n, role |-> role])
    /\ UNCHANGED <<cluster, rows, outside, history, events>>

CreateServer(p) ==
    /\ At(p, "order")
    /\ machine' = [machine EXCEPT ![task[p].node] = "rented"]
    /\ \/ Become(p, [task[p] EXCEPT !.kind = "boot"]) /\ UNCHANGED <<stranded, events>>
       \* The server is made and the answer lost.
       \/ HasEvent /\ Done(p) /\ stranded' = stranded \cup {task[p].node}
    /\ UNCHANGED <<cluster, rows, member, stored, crossed, overwritten, unsure>>

\* The server runs and lets us in: its row is made, and read for provisioning.
CreateOrderedNode(p) ==
    /\ At(p, "boot")
    /\ LET n == task[p].node
           row == NewSwarmNode(task[p].role, TRUE)
       IN  /\ rows' = Put(rows, n, row)
           /\ Become(p, IF cluster.exists THEN Provisioning(n, row, TRUE) ELSE Idle)
    /\ UNCHANGED <<cluster, outside, history, events>>

\* Slip: what the cluster is by now is not asked.
NeedsInitAlways(n) == rows[n].role = "manager"

\* The first manager makes the swarm.
NeedsInit(n) == rows[n].role = "manager" /\ cluster.tokens = NoNode

\* The cluster is read again after the minutes this took.
Enlist(p) ==
    /\ At(p, "enlist")
    /\ LET n == task[p].node IN
          /\ cluster.exists /\ n \in DOMAIN rows /\ rows[n].vpn
          /\ \/ NeedsInit(n) /\ StartInit(p, n)
             \/ ~NeedsInit(n) /\ CanJoin(n) /\ StartJoin(p, n) /\ UNCHANGED unsure
    /\ UNCHANGED <<cluster, rows, outside, stored, crossed, overwritten, stranded, events>>

-----------------------------------------------------------------------------
(* Removing a node *)

BeginRemove(p, n) ==
    /\ IsIdle(p)
    /\ n \in DOMAIN rows
    /\ Become(p, [kind |-> "leave", node |-> n, row |-> rows[n]])
    /\ UNCHANGED <<cluster, rows, outside, history, events>>

\* A worker is made to leave, by itself or by a manager, if they can be
\* reached; a manager is not let go.
SwarmLeave(p) ==
    /\ At(p, "leave")
    /\ LET n == task[p].node IN
          \/ task[p].row.role = "worker" /\ member' = [member EXCEPT ![n] = NoNode]
          \/ UNCHANGED member
    /\ Become(p, [task[p] EXCEPT !.kind = "delete"])
    /\ UNCHANGED <<cluster, rows, machine, history, events>>

DeleteNode(p) ==
    /\ At(p, "delete")
    /\ LET n == task[p].node IN
          /\ rows' = Drop(rows, n)
          /\ unsure' = (unsure \/ n \in stored)
          /\ Become(p, IF task[p].row.server THEN [kind |-> "return", node |-> n] ELSE Idle)
    /\ UNCHANGED <<cluster, outside, stored, crossed, overwritten, stranded, events>>

\* It takes the cluster's key.
DeleteServer(p) ==
    /\ At(p, "return")
    /\ LET n == task[p].node IN
          \/ /\ cluster.exists /\ cluster.hetzner
             /\ machine' = [machine EXCEPT ![n] = "returned"]
             /\ member' = [member EXCEPT ![n] = NoNode]
             /\ UNCHANGED stranded
          \/ /\ ~(cluster.exists /\ cluster.hetzner)
             /\ stranded' = stranded \cup {n}
             /\ UNCHANGED outside
    /\ Done(p)
    /\ UNCHANGED <<cluster, rows, stored, crossed, overwritten, unsure, events>>

-----------------------------------------------------------------------------
(* The cluster *)

BeginConfig(p) ==
    /\ IsIdle(p)
    /\ cluster.exists
    /\ HasEvent
    /\ Become(p, [kind |-> "config", cluster |-> cluster])
    /\ UNCHANGED <<cluster, rows, outside, history>>

\* A key is set or taken away, or only the filters change, which are not modelled.
UpdateClusterHetznerConfig(p) ==
    /\ At(p, "config")
    /\ \E h \in BOOLEAN : SaveCluster(task[p].cluster, [task[p].cluster EXCEPT !.hetzner = h])
    /\ Done(p)
    /\ UNCHANGED <<rows, outside, stored, crossed, unsure, stranded, events>>

\* Its nodes stay where they are.
DeleteSwarmCluster ==
    /\ cluster.exists
    /\ HasEvent
    /\ cluster' = [exists |-> FALSE, tokens |-> NoNode, hetzner |-> FALSE]
    /\ UNCHANGED <<rows, outside, task, history>>

\* A request ends where it is.
Fail(p) ==
    /\ ~IsIdle(p)
    /\ HasEvent
    /\ Done(p)
    /\ LET here == IF At(p, "config") THEN {} ELSE {task[p].node} IN
          /\ stranded' = IF task[p].kind \in {"boot", "return"} THEN stranded \cup here ELSE stranded
          /\ crossed' = IF At(p, "delete") THEN crossed \cup here ELSE crossed
          /\ unsure' = (unsure \/ (At(p, "activate") /\ here \subseteq stored))
    /\ UNCHANGED <<cluster, rows, outside, stored, overwritten>>

-----------------------------------------------------------------------------

Init ==
    /\ cluster \in [exists : {TRUE}, tokens : {NoNode}, hetzner : BOOLEAN]
    /\ rows = [n \in {} |-> 0]
    /\ machine = [n \in Nodes |-> "free"]
    /\ member = [n \in Nodes |-> NoNode]
    /\ task = [p \in Procs |-> Idle]
    /\ stored = {} /\ crossed = {} /\ stranded = {}
    /\ overwritten = FALSE /\ unsure = FALSE
    /\ events = 0

Next ==
    \/ \E n \in Nodes : CreateSwarmNode(n)
    \/ \E p \in Procs, n \in Nodes :
          BeginProvision(p, n) \/ BeginJoin(p, n) \/ BeginOrder(p, n) \/ BeginRemove(p, n)
    \/ \E p \in Procs :
          \/ ProvisionSwarmNode(p)
          \/ BeginInit(p) \/ SwarmInit(p) \/ StoreTokens(p) \/ SwarmJoin(p) \/ Activate(p)
          \/ CreateServer(p) \/ CreateOrderedNode(p) \/ Enlist(p)
          \/ SwarmLeave(p) \/ DeleteNode(p) \/ DeleteServer(p)
          \/ BeginConfig(p) \/ UpdateClusterHetznerConfig(p)
          \/ Fail(p)
    \/ DeleteSwarmCluster

Spec == Init /\ [][Next]_vars

-----------------------------------------------------------------------------
(* Properties *)

Task ==
    {Idle}
      \cup [kind : {"config"}, cluster : Cluster]
      \cup [kind : {"enlist", "return"}, node : Nodes]
      \cup [kind : {"order", "boot"}, node : Nodes, role : {"manager", "worker"}]
      \cup [kind : {"provision"}, node : Nodes, row : SwarmNode, order : BOOLEAN]
      \cup [kind : {"init", "store"}, node : Nodes, row : SwarmNode, cluster : Cluster]
      \cup [kind : {"activate"}, node : Nodes, row : SwarmNode, founder : BOOLEAN]
      \cup [kind : {"join"}, node : Nodes, row : SwarmNode, tokens : Nodes]
      \cup [kind : {"leave", "delete"}, node : Nodes, row : SwarmNode]

\* The type invariant.
TypeOK ==
    /\ cluster \in Cluster
    /\ DOMAIN rows \subseteq Nodes
    /\ \A n \in DOMAIN rows : rows[n] \in SwarmNode
    /\ machine \in [Nodes -> {"free", "own", "rented", "returned"}]
    /\ member \in [Nodes -> Nodes \cup {NoNode}]
    /\ task \in [Procs -> Task]
    /\ {stored, crossed, stranded} \subseteq SUBSET Nodes
    /\ {overwritten, unsure} \subseteq BOOLEAN
    /\ events \in 0..MaxEvents

\* A node recorded as active is in the swarm whose tokens the cluster holds,
\* however joins, removals and configuration cross (swarm_node_commands.go:387,
\* 491, hetzner_commands.go:92): except a row saved from a copy out of date, one
\* being removed, tokens overwritten likewise, or a cluster initialised twice.
ActiveInSwarm ==
    cluster.exists /\ ~overwritten /\ Cardinality(stored) <= 1 =>
        \A n \in DOMAIN rows \ crossed :
            rows[n].active /\ ~Busy({"leave", "delete"}, n) => member[n] = cluster.tokens

\* A cluster is initialised once, whether from its page or by an order whose
\* minutes of waiting another initialisation fell in (hetzner_commands.go:266):
\* unless two were under way at once, tokens were overwritten, or the first
\* manager is gone or its id is not on record.
FoundedOnce ==
    Cardinality(stored) <= 1 \/ unsure \/ overwritten \/ stored \cap crossed # {}

\* A server that was ordered is rented exactly as long as its row is there, or
\* the order or removal is under way (hetzner_commands.go:220, 244,
\* swarm_node_commands.go:519): except those an order lost before their row was
\* made, a removal could not give back, or a row saved by an old copy.
ServerIffRow ==
    \A n \in Nodes \ (stranded \cup crossed) :
        machine[n] \in {"rented", "returned"} /\ ~Busy({"boot", "return"}, n) =>
            (machine[n] = "rented" <=> n \in DOMAIN rows)
=============================================================================
