---------------------------- MODULE Docker_proofs ----------------------------
(***************************************************************************)
(* Proofs about internal/modules/docker, for any nodes, rows, requests and *)
(* failures.                                                               *)
(* SwarmCluster first: the tokens, the members and the rows of a cluster   *)
(* agree however its requests overlap.  Then Docker: what a row says runs, *)
(* runs, and what runs can be found.  There nothing is locked and the rows *)
(* alone are not inductive, so the invariant says what a request that      *)
(* nothing has overtaken may rely on (UpToDate).                           *)
(***************************************************************************)
EXTENDS SwarmCluster, Docker, FiniteSetTheorems, WellFoundedInduction, TLAPS

-----------------------------------------------------------------------------
(* What each request is at *)

\* Of a task only the kind need be known to know its fields.
LEMMA TaskShapes ==
    ASSUME TypeOK, NEW p \in Procs
    PROVE  /\ task[p] \in Task
           /\ At(p, "config") => task[p] \in [kind : {"config"}, cluster : Cluster]
           /\ At(p, "enlist") \/ At(p, "return") => task[p] \in [kind : {"enlist", "return"}, node : Nodes]
           /\ At(p, "order") \/ At(p, "boot") =>
                 task[p] \in [kind : {"order", "boot"}, node : Nodes, role : {"manager", "worker"}]
           /\ At(p, "provision") =>
                 task[p] \in [kind : {"provision"}, node : Nodes, row : SwarmNode, order : BOOLEAN]
           /\ At(p, "init") \/ At(p, "store") =>
                 task[p] \in [kind : {"init", "store"}, node : Nodes, row : SwarmNode, cluster : Cluster]
           /\ At(p, "activate") =>
                 task[p] \in [kind : {"activate"}, node : Nodes, row : SwarmNode, founder : BOOLEAN]
           /\ At(p, "join") =>
                 task[p] \in [kind : {"join"}, node : Nodes, row : SwarmNode, tokens : Nodes]
           /\ At(p, "leave") \/ At(p, "delete") =>
                 task[p] \in [kind : {"leave", "delete"}, node : Nodes, row : SwarmNode]
           /\ ~IsIdle(p) /\ ~At(p, "config") => task[p].node \in Nodes
<1>1. task[p] \in Task
      BY DEF TypeOK
<1>. QED BY <1>1 DEF Task, At, IsIdle, Idle

\* Rows that may be saved.
LEMMA RowSaved ==
    ASSUME NEW row \in SwarmNode, NEW k \in BOOLEAN
    PROVE  /\ [row EXCEPT !.vpn = TRUE] \in SwarmNode
           /\ [row EXCEPT !.active = TRUE, !.known = @ \/ k] \in SwarmNode
<1>1. [row EXCEPT !.vpn = TRUE] \in SwarmNode
      BY DEF SwarmNode
<1>2. (row.known \/ k) \in BOOLEAN
      OBVIOUS
<1>3. [row EXCEPT !.active = TRUE, !.known = row.known \/ k] \in SwarmNode
      BY <1>2 DEF SwarmNode
<1>. QED BY <1>1, <1>3

LEMMA RowNew ==
    ASSUME NEW role \in {"manager", "worker"}, NEW server \in BOOLEAN
    PROVE  NewSwarmNode(role, server) \in SwarmNode
BY DEF SwarmNode, NewSwarmNode

-----------------------------------------------------------------------------
(* The type invariant *)

\* What is typed apart from the requests.
StoreOK ==
    /\ cluster \in Cluster
    /\ DOMAIN rows \subseteq Nodes
    /\ \A n \in DOMAIN rows : rows[n] \in SwarmNode
    /\ machine \in [Nodes -> {"free", "own", "rented", "returned"}]
    /\ member \in [Nodes -> Nodes \cup {NoNode}]
    /\ {stored, crossed, stranded} \subseteq SUBSET Nodes
    /\ {overwritten, unsure} \subseteq BOOLEAN
    /\ events \in 0..MaxEvents

\* One row of a table is written.
LEMMA RowPut ==
    ASSUME NEW n, NEW row, rows' = Put(rows, n, row)
    PROVE  /\ DOMAIN rows' = DOMAIN rows \cup {n} /\ rows'[n] = row
           /\ \A m \in DOMAIN rows : m # n => rows'[m] = rows[m]
BY DEF Put

\* A set of numbers that is not empty has a first.
LEMMA FirstOf ==
    ASSUME NEW S \in SUBSET Nat, S # {}
    PROVE  First(S) \in S
<1>1. IsWellFoundedOn({e \in Nat \X Nat : e[1] < e[2]}, Nat)
      BY NatLessThanWellFounded DEF OpToRel
<1>2. PICK n \in S : \A i \in S : <<i, n>> \notin {e \in Nat \X Nat : e[1] < e[2]}
      BY <1>1, WFMin
<1>3. ASSUME NEW i \in S, ~(n <= i)
      PROVE  FALSE
  <2>1. i \in Nat /\ n \in Nat /\ i < n
        BY <1>3
  <2>. QED BY <1>2, <2>1
<1>. QED BY <1>3 DEF First

LEMMA TypeStep ==
    ASSUME TypeOK, [Next]_vars
    PROVE  TypeOK'
<1>. USE BoundAssumption, NodesAssumption
<1>. DEFINE Typed == StoreOK' /\ task' \in [Procs -> Task]
<1>1. StoreOK /\ task \in [Procs -> Task]
      BY DEF TypeOK, StoreOK
<1>2. SUFFICES Typed
      BY DEF TypeOK, StoreOK
<1>3. ASSUME NEW n \in Nodes, NEW row \in SwarmNode, rows' = Put(rows, n, row)
      PROVE  DOMAIN rows' \subseteq Nodes /\ \A m \in DOMAIN rows' : rows'[m] \in SwarmNode
  <2>1. /\ DOMAIN rows' = DOMAIN rows \cup {n} /\ rows'[n] = row
        /\ \A m \in DOMAIN rows : m # n => rows'[m] = rows[m]
        BY <1>3, RowPut
  <2>. QED BY <1>1, <2>1 DEF StoreOK
<1>4. ASSUME NEW n \in Nodes, CreateSwarmNode(n)
      PROVE  Typed
  <2>1. PICK role \in {"manager", "worker"} : rows' = Put(rows, n, NewSwarmNode(role, FALSE))
        BY <1>4 DEF CreateSwarmNode
  <2>2. NewSwarmNode(role, FALSE) \in SwarmNode
        BY RowNew
  <2>3. DOMAIN rows' \subseteq Nodes /\ \A m \in DOMAIN rows' : rows'[m] \in SwarmNode
        BY <1>3, <2>1, <2>2
  <2>. QED BY <1>1, <1>4, <2>3 DEF CreateSwarmNode, StoreOK, history
<1>5. ASSUME NEW p \in Procs, NEW n \in Nodes, BeginProvision(p, n)
      PROVE  Typed
  <2>1. Provisioning(n, rows[n], FALSE) \in Task
        BY <1>1, <1>5 DEF BeginProvision, StoreOK, Provisioning, Task
  <2>. QED BY <1>1, <1>5, <2>1 DEF BeginProvision, Become, StoreOK, outside, history
<1>6. ASSUME NEW p \in Procs, ProvisionSwarmNode(p)
      PROVE  Typed
  <2>1. task[p].node \in Nodes /\ task[p].row \in SwarmNode
        BY <1>6, TaskShapes DEF ProvisionSwarmNode
  <2>2. PICK row \in SwarmNode : row = [task[p].row EXCEPT !.vpn = TRUE]
        BY <2>1, RowSaved
  <2>3. DOMAIN rows' \subseteq Nodes /\ \A m \in DOMAIN rows' : rows'[m] \in SwarmNode
        BY <1>3, <1>6, <2>1, <2>2 DEF ProvisionSwarmNode, SaveNode
  <2>4. crossed' \subseteq Nodes
        BY <1>1, <1>6, <2>1 DEF ProvisionSwarmNode, SaveNode, StoreOK
  <2>5. Idle \in Task /\ [kind |-> "enlist", node |-> task[p].node] \in Task
        BY <2>1 DEF Task
  <2>. QED BY <1>1, <1>6, <2>3, <2>4, <2>5 DEF ProvisionSwarmNode, Become, StoreOK, outside
<1>7. ASSUME NEW p \in Procs, NEW n \in Nodes, n \in DOMAIN rows, StartInit(p, n)
      PROVE  task' \in [Procs -> Task] /\ unsure' \in BOOLEAN
  <2>1. [kind |-> "init", node |-> n, row |-> rows[n], cluster |-> cluster] \in Task
        BY <1>1, <1>7 DEF StoreOK, Task
  <2>. QED BY <1>1, <1>7, <2>1 DEF StartInit, Become, StoreOK
<1>8. ASSUME NEW p \in Procs, BeginInit(p)
      PROVE  Typed
  <2>1. PICK n : n = First({m \in Managers : rows[m].vpn})
        OBVIOUS
  <2>2. n \in Nodes /\ n \in DOMAIN rows
        BY <1>1, <1>8, <2>1, FirstOf DEF BeginInit, swarmCanInit, Managers, StoreOK
  <2>3. StartInit(p, n)
        BY <1>8, <2>1 DEF BeginInit
  <2>. QED BY <1>1, <1>7, <1>8, <2>2, <2>3 DEF BeginInit, StoreOK, outside
<1>9. ASSUME NEW p \in Procs, SwarmInit(p)
      PROVE  Typed
  <2>1. task[p] \in [kind : {"init", "store"}, node : Nodes, row : SwarmNode, cluster : Cluster]
        BY <1>9, TaskShapes DEF SwarmInit
  <2>2. [task[p] EXCEPT !.kind = "store"] \in Task
        BY <2>1 DEF Task
  <2>. QED BY <1>1, <1>9, <2>1, <2>2 DEF SwarmInit, Become, StoreOK, history
<1>10. ASSUME NEW p \in Procs, StoreTokens(p)
       PROVE  Typed
  <2>1. task[p] \in [kind : {"init", "store"}, node : Nodes, row : SwarmNode, cluster : Cluster]
        BY <1>10, TaskShapes DEF StoreTokens
  <2>2. [kind |-> "activate", node |-> task[p].node, row |-> task[p].row, founder |-> TRUE] \in Task
        BY <2>1 DEF Task
  <2>3. [task[p].cluster EXCEPT !.tokens = task[p].node] \in Cluster
        BY <2>1 DEF Cluster
  <2>4. cluster' \in Cluster /\ overwritten' \in BOOLEAN
        BY <1>10, <2>3 DEF StoreTokens, SaveCluster
  <2>. QED BY <1>1, <1>10, <2>1, <2>2, <2>4 DEF StoreTokens, Become, StoreOK, outside
<1>11. ASSUME NEW p \in Procs, NEW n \in Nodes, CanJoin(n), StartJoin(p, n)
       PROVE  task' \in [Procs -> Task]
  <2>1. cluster.tokens \in Nodes /\ rows[n] \in SwarmNode
        BY <1>1, <1>11 DEF CanJoin, StoreOK, Cluster
  <2>2. [kind |-> "join", node |-> n, row |-> rows[n], tokens |-> cluster.tokens] \in Task
        BY <2>1 DEF Task
  <2>. QED BY <1>1, <1>11, <2>2 DEF StartJoin, Become
<1>12. ASSUME NEW p \in Procs, NEW n \in Nodes, BeginJoin(p, n)
       PROVE  Typed
       BY <1>1, <1>11, <1>12 DEF BeginJoin, StoreOK, outside, history
<1>13. ASSUME NEW p \in Procs, SwarmJoin(p)
       PROVE  Typed
  <2>1. task[p].node \in Nodes /\ task[p].row \in SwarmNode /\ task[p].tokens \in Nodes
        BY <1>13, TaskShapes DEF SwarmJoin
  <2>2. [kind |-> "activate", node |-> task[p].node, row |-> task[p].row, founder |-> FALSE] \in Task
        BY <2>1 DEF Task
  <2>. QED BY <1>1, <1>13, <2>1, <2>2 DEF SwarmJoin, Become, StoreOK, history
<1>14. ASSUME NEW p \in Procs, Activate(p)
       PROVE  Typed
  <2>1. task[p].node \in Nodes /\ task[p].row \in SwarmNode /\ task[p].founder \in BOOLEAN
        BY <1>14, TaskShapes DEF Activate
  <2>2. PICK k \in Found(p) :
           /\ SaveNode(task[p].node, task[p].row,
                       [task[p].row EXCEPT !.active = TRUE, !.known = @ \/ k])
           /\ unsure' = (unsure \/ (task[p].founder /\ ~k))
        BY <1>14 DEF Activate
  <2>3. k \in BOOLEAN
        BY <2>2 DEF Found
  <2>4. PICK row \in SwarmNode : row = [task[p].row EXCEPT !.active = TRUE, !.known = @ \/ k]
        BY <2>1, <2>3, RowSaved
  <2>5. DOMAIN rows' \subseteq Nodes /\ \A m \in DOMAIN rows' : rows'[m] \in SwarmNode
        BY <1>3, <2>1, <2>2, <2>4 DEF SaveNode
  <2>6. crossed' \subseteq Nodes
        BY <1>1, <2>1, <2>2 DEF SaveNode, StoreOK
  <2>7. unsure' \in BOOLEAN
        BY <1>1, <2>2 DEF StoreOK
  <2>8. Idle \in Task
        BY DEF Task
  <2>. QED BY <1>1, <1>14, <2>5, <2>6, <2>7, <2>8 DEF Activate, Done, Become, StoreOK, outside
<1>15. ASSUME NEW p \in Procs, NEW n \in Nodes, BeginOrder(p, n)
       PROVE  Typed
  <2>1. \A role \in {"manager", "worker"} : [kind |-> "order", node |-> n, role |-> role] \in Task
        BY DEF Task
  <2>. QED BY <1>1, <1>15, <2>1 DEF BeginOrder, Become, StoreOK, outside, history
<1>16. ASSUME NEW p \in Procs, CreateServer(p)
       PROVE  Typed
  <2>1. task[p] \in [kind : {"order", "boot"}, node : Nodes, role : {"manager", "worker"}]
        BY <1>16, TaskShapes DEF CreateServer
  <2>2. [task[p] EXCEPT !.kind = "boot"] \in Task /\ Idle \in Task
        BY <2>1 DEF Task
  <2>. QED BY <1>1, <1>16, <2>1, <2>2 DEF CreateServer, Done, Become, HasEvent, StoreOK
<1>17. ASSUME NEW p \in Procs, CreateOrderedNode(p)
       PROVE  Typed
  <2>1. task[p] \in [kind : {"order", "boot"}, node : Nodes, role : {"manager", "worker"}]
        BY <1>17, TaskShapes DEF CreateOrderedNode
  <2>2. PICK row \in SwarmNode : row = NewSwarmNode(task[p].role, TRUE)
        BY <2>1, RowNew
  <2>3. Provisioning(task[p].node, row, TRUE) \in Task /\ Idle \in Task
        BY <2>1 DEF Task, Provisioning
  <2>4. DOMAIN rows' \subseteq Nodes /\ \A m \in DOMAIN rows' : rows'[m] \in SwarmNode
        BY <1>3, <1>17, <2>1, <2>2 DEF CreateOrderedNode
  <2>. QED BY <1>1, <1>17, <2>2, <2>3, <2>4 DEF CreateOrderedNode, Become, StoreOK, outside, history
<1>18. ASSUME NEW p \in Procs, Enlist(p)
       PROVE  Typed
  <2>1. task[p].node \in Nodes /\ task[p].node \in DOMAIN rows
        BY <1>18, TaskShapes DEF Enlist
  <2>2. CASE StartInit(p, task[p].node)
        BY <1>1, <1>7, <1>18, <2>1, <2>2 DEF Enlist, StoreOK, outside
  <2>3. CASE CanJoin(task[p].node) /\ StartJoin(p, task[p].node) /\ UNCHANGED unsure
        BY <1>1, <1>11, <1>18, <2>1, <2>3 DEF Enlist, StoreOK, outside
  <2>. QED BY <1>18, <2>2, <2>3 DEF Enlist
<1>19. ASSUME NEW p \in Procs, NEW n \in Nodes, BeginRemove(p, n)
       PROVE  Typed
  <2>1. [kind |-> "leave", node |-> n, row |-> rows[n]] \in Task
        BY <1>1, <1>19 DEF BeginRemove, StoreOK, Task
  <2>. QED BY <1>1, <1>19, <2>1 DEF BeginRemove, Become, StoreOK, outside, history
<1>20. ASSUME NEW p \in Procs, SwarmLeave(p)
       PROVE  Typed
  <2>1. task[p] \in [kind : {"leave", "delete"}, node : Nodes, row : SwarmNode]
        BY <1>20, TaskShapes DEF SwarmLeave
  <2>2. [task[p] EXCEPT !.kind = "delete"] \in Task
        BY <2>1 DEF Task
  <2>. QED BY <1>1, <1>20, <2>1, <2>2 DEF SwarmLeave, Become, StoreOK, history
<1>21. ASSUME NEW p \in Procs, DeleteNode(p)
       PROVE  Typed
  <2>1. task[p].node \in Nodes
        BY <1>21, TaskShapes DEF DeleteNode
  <2>2. [kind |-> "return", node |-> task[p].node] \in Task /\ Idle \in Task
        BY <2>1 DEF Task
  <2>3. rows' = Drop(rows, task[p].node)
        BY <1>21 DEF DeleteNode
  <2>. QED BY <1>1, <1>21, <2>2, <2>3 DEF DeleteNode, Drop, Become, StoreOK, outside
<1>22. ASSUME NEW p \in Procs, DeleteServer(p)
       PROVE  Typed
  <2>1. task[p].node \in Nodes /\ Idle \in Task
        BY <1>22, TaskShapes DEF DeleteServer, Task
  <2>. QED BY <1>1, <1>22, <2>1 DEF DeleteServer, Done, Become, StoreOK, outside
<1>23. ASSUME NEW p \in Procs, BeginConfig(p)
       PROVE  Typed
  <2>1. [kind |-> "config", cluster |-> cluster] \in Task
        BY <1>1 DEF StoreOK, Task
  <2>. QED BY <1>1, <1>23, <2>1 DEF BeginConfig, HasEvent, Become, StoreOK, outside, history
<1>24. ASSUME NEW p \in Procs, UpdateClusterHetznerConfig(p)
       PROVE  Typed
  <2>1. task[p].cluster \in Cluster /\ Idle \in Task
        BY <1>24, TaskShapes DEF UpdateClusterHetznerConfig, Task
  <2>2. \A h \in BOOLEAN : [task[p].cluster EXCEPT !.hetzner = h] \in Cluster
        BY <2>1 DEF Cluster
  <2>3. cluster' \in Cluster /\ overwritten' \in BOOLEAN
        BY <1>24, <2>2 DEF UpdateClusterHetznerConfig, SaveCluster
  <2>. QED BY <1>1, <1>24, <2>1, <2>3 DEF UpdateClusterHetznerConfig, Done, Become, StoreOK, outside
<1>25. ASSUME DeleteSwarmCluster
       PROVE  Typed
       BY <1>1, <1>25 DEF DeleteSwarmCluster, HasEvent, StoreOK, outside, history, Cluster
<1>26. ASSUME NEW p \in Procs, Fail(p)
       PROVE  Typed
  <2>1. Idle \in Task
        BY DEF Task
  <2>2. PICK here : here = IF At(p, "config") THEN {} ELSE {task[p].node}
        OBVIOUS
  <2>3. here \subseteq Nodes
        BY <1>26, <2>2, TaskShapes DEF Fail
  <2>. QED BY <1>1, <1>26, <2>1, <2>2, <2>3 DEF Fail, Done, Become, HasEvent, StoreOK, outside
<1>27. CASE UNCHANGED vars
       BY <1>1, <1>27 DEF vars, StoreOK
<1>. QED
  BY <1>4, <1>5, <1>6, <1>8, <1>9, <1>10, <1>12, <1>13, <1>14, <1>15, <1>16, <1>17, <1>18,
     <1>19, <1>20, <1>21, <1>22, <1>23, <1>24, <1>25, <1>26, <1>27 DEF Next

-----------------------------------------------------------------------------
(* Servers and the rows of their nodes *)

WithRow == {"provision", "init", "store", "activate", "join", "leave", "delete"}
OfANode(p) == task[p].kind \notin {"none", "config"}

LEMMA TaskKinds ==
    ASSUME TypeOK, NEW p \in Procs
    PROVE  task[p].kind \in {"none", "config", "order", "boot", "return", "enlist"} \cup WithRow
<1>1. task[p] \in Task
      BY DEF TypeOK
<1>. QED BY <1>1 DEF Task, Idle, WithRow

\* A machine is ordered by one request, and not yet rented.
OrdersOK ==
    \A p \in Procs : At(p, "order") =>
        /\ machine[task[p].node] = "free"
        /\ \A q \in Procs : At(q, "order") /\ task[q].node = task[p].node => q = p

\* Of a server that boots no other request knows.
BootsOK ==
    \A p \in Procs : At(p, "boot") =>
        /\ machine[task[p].node] = "rented"
        /\ task[p].node \notin DOMAIN rows
        /\ \A q \in Procs : OfANode(q) /\ task[q].node = task[p].node => q = p

\* A row has a server's number if its machine was ordered, and so has every
\* copy of it.
RowsOK ==
    \A n \in DOMAIN rows : machine[n] # "free" /\ (rows[n].server <=> machine[n] # "own")

TasksOK ==
    \A p \in Procs :
        /\ task[p].kind \in {"enlist"} \cup WithRow => machine[task[p].node] # "free"
        /\ task[p].kind \in WithRow => (task[p].row.server <=> machine[task[p].node] # "own")
        /\ At(p, "return") => machine[task[p].node] \in {"rented", "returned"}

\* The row of a server that is given back is gone, unless an old copy put it back.
GoneOK ==
    \A n \in DOMAIN rows :
        machine[n] = "returned" \/ Busy({"return"}, n) => n \in crossed

RentedOK ==
    \A n \in Nodes : machine[n] = "rented" =>
        n \in DOMAIN rows \cup stranded \cup crossed \/ Busy({"boot", "return"}, n)

ServersOK == OrdersOK /\ BootsOK /\ RowsOK /\ TasksOK /\ GoneOK /\ RentedOK

\* A request moves on and the rows and machines stay as they are.
LEMMA MoveKeepsServers ==
    ASSUME TypeOK, ServersOK, NEW p \in Procs, NEW t, task' = [task EXCEPT ![p] = t],
           UNCHANGED <<machine, rows>>,
           crossed \subseteq crossed', stranded \subseteq stranded',
           task[p].kind \in {"boot", "return"} => task[p].node \in stranded',
           t.kind \notin {"order", "boot", "return"},
           t.kind \notin {"none", "config"} =>
               /\ machine[t.node] # "free"
               /\ \A q \in Procs : At(q, "boot") => task[q].node # t.node,
           t.kind \in WithRow => (t.row.server <=> machine[t.node] # "own")
    PROVE  ServersOK'
<1>1. task'[p] = t /\ \A q \in Procs : q # p => task'[q] = task[q]
      BY DEF TypeOK
<1>2. OrdersOK'
      BY <1>1 DEF ServersOK, OrdersOK, At
<1>3. BootsOK'
      BY <1>1 DEF ServersOK, BootsOK, OfANode, At
<1>4. RowsOK'
      BY DEF ServersOK, RowsOK
<1>5. TasksOK'
      BY <1>1 DEF ServersOK, TasksOK, At, WithRow
<1>6. GoneOK'
      BY <1>1 DEF ServersOK, GoneOK, Busy
<1>7. RentedOK'
      BY <1>1 DEF ServersOK, RentedOK, Busy
<1>. QED BY <1>2, <1>3, <1>4, <1>5, <1>6, <1>7 DEF ServersOK

\* The row a request read is saved; if it had been removed, that is on record.
LEMMA SaveKeepsServers ==
    ASSUME TypeOK, ServersOK, NEW p \in Procs, NEW n, n = task[p].node,
           task[p].kind \in {"provision", "activate"},
           NEW row, row.server = task[p].row.server,
           NEW t, task' = [task EXCEPT ![p] = t],
           t.kind \notin {"none", "config"} => t.kind = "enlist" /\ t.node = n,
           SaveNode(n, task[p].row, row), UNCHANGED <<machine, stranded>>
    PROVE  ServersOK'
<1>1. task'[p] = t /\ \A q \in Procs : q # p => task'[q] = task[q]
      BY DEF TypeOK
<1>2. /\ DOMAIN rows' = DOMAIN rows \cup {n} /\ rows'[n] = row
      /\ \A m \in DOMAIN rows : m # n => rows'[m] = rows[m]
      BY RowPut DEF SaveNode
<1>3. crossed \subseteq crossed' /\ (n \in DOMAIN rows \/ n \in crossed')
      BY DEF SaveNode
<1>4. machine[n] # "free" /\ (task[p].row.server <=> machine[n] # "own")
      BY DEF ServersOK, TasksOK, WithRow
<1>5. \A q \in Procs : At(q, "boot") => task[q].node # n
      BY DEF ServersOK, BootsOK, OfANode, At
<1>6. OrdersOK'
      BY <1>1 DEF ServersOK, OrdersOK, At
<1>7. BootsOK'
      BY <1>1, <1>2, <1>5 DEF ServersOK, BootsOK, OfANode, At
<1>8. RowsOK'
      BY <1>2, <1>4 DEF ServersOK, RowsOK
<1>9. TasksOK'
      BY <1>1, <1>4 DEF ServersOK, TasksOK, At, WithRow
<1>10. GoneOK'
      BY <1>1, <1>2, <1>3 DEF ServersOK, GoneOK, Busy
<1>11. RentedOK'
      BY <1>1, <1>2, <1>3 DEF ServersOK, RentedOK, Busy
<1>. QED BY <1>6, <1>7, <1>8, <1>9, <1>10, <1>11 DEF ServersOK

LEMMA ServersStep ==
    ASSUME TypeOK, ServersOK, [Next]_vars
    PROVE  ServersOK'
<1>1. ASSUME NEW n \in DOMAIN rows, NEW q \in Procs, At(q, "boot")
      PROVE  task[q].node # n
      BY <1>1 DEF ServersOK, BootsOK
<1>2. ASSUME NEW n \in DOMAIN rows
      PROVE  machine[n] # "free" /\ (rows[n].server <=> machine[n] # "own")
      BY DEF ServersOK, RowsOK
<1>3. ASSUME NEW p \in Procs, task[p].kind \in {"enlist"} \cup WithRow
      PROVE  /\ machine[task[p].node] # "free"
             /\ task[p].kind \in WithRow => (task[p].row.server <=> machine[task[p].node] # "own")
             /\ \A q \in Procs : At(q, "boot") => task[q].node # task[p].node
      BY <1>3 DEF ServersOK, TasksOK, BootsOK, OfANode, At, WithRow
<1>4. ASSUME NEW n \in Nodes, CreateSwarmNode(n)
      PROVE  ServersOK'
  <2>1. PICK row : rows' = Put(rows, n, row) /\ ~row.server
        BY <1>4 DEF CreateSwarmNode, NewSwarmNode
  <2>2. /\ DOMAIN rows' = DOMAIN rows \cup {n} /\ ~rows'[n].server
        /\ \A m \in DOMAIN rows : m # n => rows'[m] = rows[m]
    <3>. HIDE <1>4
    <3>. QED BY <2>1, RowPut
  <2>3. /\ machine[n] = "free" /\ machine'[n] = "own"
        /\ \A m \in Nodes : m # n => machine'[m] = machine[m]
        /\ \A p \in Procs : At(p, "order") => task[p].node # n
        /\ UNCHANGED <<task, crossed, stranded>>
        BY <1>4 DEF CreateSwarmNode, history, TypeOK, Busy, At
  <2>4. ASSUME NEW q \in Procs, OfANode(q)
        PROVE  task[q].node \in Nodes /\ task[q].node # n
    <3>1. task[q].node \in Nodes
          BY <2>4, TaskShapes DEF OfANode, At, IsIdle
    <3>2. task[q].kind \in {"order", "boot", "return", "enlist"} \cup WithRow
          BY <2>4, TaskKinds DEF OfANode
    <3>3. CASE task[q].kind \in {"enlist"} \cup WithRow
          BY <1>3, <2>3, <3>1, <3>3
    <3>4. CASE task[q].kind \in {"boot", "return"}
          BY <2>3, <3>1, <3>4 DEF ServersOK, BootsOK, TasksOK, At
    <3>. QED BY <2>3, <3>1, <3>2, <3>3, <3>4 DEF At
  <2>5. OrdersOK'
        BY <2>3, <2>4 DEF ServersOK, OrdersOK, OfANode, At
  <2>6. BootsOK'
        BY <2>2, <2>3, <2>4 DEF ServersOK, BootsOK, OfANode, At
  <2>7. RowsOK'
        BY <2>2, <2>3 DEF ServersOK, RowsOK, TypeOK
  <2>8. TasksOK'
        BY <2>3, <2>4 DEF ServersOK, TasksOK, OfANode, At, WithRow
  <2>9. GoneOK'
        BY <2>2, <2>3, <2>4 DEF ServersOK, GoneOK, OfANode, Busy, TypeOK
  <2>10. RentedOK'
        BY <2>2, <2>3 DEF ServersOK, RentedOK, Busy
  <2>. QED BY <2>5, <2>6, <2>7, <2>8, <2>9, <2>10 DEF ServersOK
<1>5. ASSUME NEW p \in Procs, NEW n \in Nodes, BeginProvision(p, n)
      PROVE  ServersOK'
  <2>1. PICK t : t = Provisioning(n, rows[n], FALSE)
        OBVIOUS
  <2>2. t.kind = "provision" /\ t.node = n /\ t.row = rows[n]
        BY <2>1 DEF Provisioning
  <2>3. task' = [task EXCEPT ![p] = t] /\ UNCHANGED <<machine, rows, crossed, stranded>>
        BY <1>5, <2>1 DEF BeginProvision, Become, outside, history
  <2>4. n \in DOMAIN rows /\ task[p].kind = "none"
        BY <1>5 DEF BeginProvision, IsIdle
  <2>. QED BY <1>1, <1>2, <2>2, <2>3, <2>4, MoveKeepsServers DEF WithRow
<1>6. ASSUME NEW p \in Procs, ProvisionSwarmNode(p)
      PROVE  ServersOK'
  <2>. DEFINE next == IF task[p].order THEN [kind |-> "enlist", node |-> task[p].node] ELSE Idle
  <2>1. PICK t : t = next
        OBVIOUS
  <2>5. task' = [task EXCEPT ![p] = t]
        BY <1>6, <2>1 DEF ProvisionSwarmNode, Become
  <2>6. t.kind \notin {"none", "config"} => t.kind = "enlist" /\ t.node = task[p].node
        BY <2>1 DEF Idle
  <2>2. PICK row : row = [task[p].row EXCEPT !.vpn = TRUE]
        OBVIOUS
  <2>3. row.server = task[p].row.server
        BY <1>6, <2>2, TaskShapes DEF ProvisionSwarmNode, SwarmNode
  <2>4. /\ SaveNode(task[p].node, task[p].row, row) /\ UNCHANGED <<machine, stranded>>
        /\ task[p].kind \in {"provision", "activate"}
        BY <1>6, <2>2 DEF ProvisionSwarmNode, outside, At
  <2>. QED BY <2>3, <2>4, <2>5, <2>6, SaveKeepsServers
<1>7. ASSUME NEW p \in Procs, NEW n \in DOMAIN rows, StartInit(p, n),
             UNCHANGED <<machine, rows, crossed, stranded>>, task[p].kind \in {"none", "enlist"}
      PROVE  ServersOK'
  <2>1. PICK t : t = [kind |-> "init", node |-> n, row |-> rows[n], cluster |-> cluster]
        OBVIOUS
  <2>2. t.kind = "init" /\ t.node = n /\ t.row = rows[n]
        BY <2>1
  <2>3. task' = [task EXCEPT ![p] = t]
        BY <1>7, <2>1 DEF StartInit, Become
  <2>. QED BY <1>1, <1>2, <1>7, <2>2, <2>3, MoveKeepsServers DEF WithRow
<1>8. ASSUME NEW p \in Procs, BeginInit(p)
      PROVE  ServersOK'
  <2>1. First({m \in Managers : rows[m].vpn}) \in DOMAIN rows
        BY <1>8, FirstOf, NodesAssumption DEF BeginInit, swarmCanInit, Managers, TypeOK
  <2>. QED BY <1>7, <1>8, <2>1 DEF BeginInit, IsIdle, outside
<1>9. ASSUME NEW p \in Procs, NEW n \in DOMAIN rows, StartJoin(p, n),
             UNCHANGED <<machine, rows, crossed, stranded>>, task[p].kind \in {"none", "enlist"}
      PROVE  ServersOK'
  <2>1. PICK t : t = [kind |-> "join", node |-> n, row |-> rows[n], tokens |-> cluster.tokens]
        OBVIOUS
  <2>2. t.kind = "join" /\ t.node = n /\ t.row = rows[n]
        BY <2>1
  <2>3. task' = [task EXCEPT ![p] = t]
        BY <1>9, <2>1 DEF StartJoin, Become
  <2>. QED BY <1>1, <1>2, <1>9, <2>2, <2>3, MoveKeepsServers DEF WithRow
<1>10. ASSUME NEW p \in Procs, NEW n \in Nodes, BeginJoin(p, n)
       PROVE  ServersOK'
       BY <1>9, <1>10 DEF BeginJoin, CanJoin, IsIdle, outside, history
\* The same row, further on.
<1>11. ASSUME NEW p \in Procs, task[p].kind \in WithRow, NEW t, task' = [task EXCEPT ![p] = t],
              t.kind \in WithRow, t.node = task[p].node, t.row = task[p].row,
              UNCHANGED <<machine, rows, crossed, stranded>>
       PROVE  ServersOK'
       BY <1>3, <1>11, MoveKeepsServers DEF WithRow
<1>12. ASSUME NEW p \in Procs, SwarmInit(p)
       PROVE  ServersOK'
  <2>1. PICK t : t = [task[p] EXCEPT !.kind = "store"]
        OBVIOUS
  <2>2. t.kind = "store" /\ t.node = task[p].node /\ t.row = task[p].row /\ At(p, "init")
        BY <1>12, <2>1, TaskShapes DEF SwarmInit
  <2>. QED BY <1>11, <1>12, <2>1, <2>2 DEF SwarmInit, Become, history, At, WithRow
<1>13. ASSUME NEW p \in Procs, StoreTokens(p)
       PROVE  ServersOK'
  <2>1. PICK t : t = [kind |-> "activate", node |-> task[p].node, row |-> task[p].row, founder |-> TRUE]
        OBVIOUS
  <2>2. t.kind = "activate" /\ t.node = task[p].node /\ t.row = task[p].row /\ At(p, "store")
        BY <1>13, <2>1 DEF StoreTokens
  <2>. QED BY <1>11, <1>13, <2>1, <2>2 DEF StoreTokens, Become, outside, At, WithRow
<1>14. ASSUME NEW p \in Procs, SwarmJoin(p)
       PROVE  ServersOK'
  <2>1. PICK t : t = [kind |-> "activate", node |-> task[p].node, row |-> task[p].row, founder |-> FALSE]
        OBVIOUS
  <2>2. t.kind = "activate" /\ t.node = task[p].node /\ t.row = task[p].row /\ At(p, "join")
        BY <1>14, <2>1 DEF SwarmJoin
  <2>. QED BY <1>11, <1>14, <2>1, <2>2 DEF SwarmJoin, Become, history, At, WithRow
<1>15. ASSUME NEW p \in Procs, Activate(p)
       PROVE  ServersOK'
  <2>1. PICK k \in Found(p) :
           SaveNode(task[p].node, task[p].row, [task[p].row EXCEPT !.active = TRUE, !.known = @ \/ k])
        BY <1>15 DEF Activate
  <2>2. PICK row : row = [task[p].row EXCEPT !.active = TRUE, !.known = @ \/ k]
        OBVIOUS
  <2>3. row.server = task[p].row.server
        BY <1>15, <2>2, TaskShapes DEF Activate, SwarmNode
  <2>4. /\ SaveNode(task[p].node, task[p].row, row) /\ UNCHANGED <<machine, stranded>>
        /\ task[p].kind \in {"provision", "activate"}
        BY <1>15, <2>1, <2>2 DEF Activate, outside, At
  <2>5. task' = [task EXCEPT ![p] = Idle] /\ Idle.kind = "none"
        BY <1>15 DEF Activate, Done, Become, Idle
  <2>. QED BY <2>3, <2>4, <2>5, SaveKeepsServers
<1>16. ASSUME NEW p \in Procs, NEW n \in Nodes, BeginOrder(p, n)
       PROVE  ServersOK'
  <2>1. /\ task'[p].kind = "order" /\ task'[p].node = n /\ machine[n] = "free"
        /\ \A q \in Procs : q # p => task'[q] = task[q]
        /\ \A q \in Procs : At(q, "order") => task[q].node # n
        /\ UNCHANGED <<machine, rows, crossed, stranded>> /\ task[p].kind = "none"
        BY <1>16 DEF BeginOrder, Become, IsIdle, Busy, At, TypeOK, outside, history
  <2>2. OrdersOK'
        BY <2>1 DEF ServersOK, OrdersOK, At
  <2>3. BootsOK'
        BY <2>1 DEF ServersOK, BootsOK, OfANode, At
  <2>4. RowsOK'
        BY <2>1 DEF ServersOK, RowsOK
  <2>5. TasksOK'
        BY <2>1 DEF ServersOK, TasksOK, WithRow, At
  <2>6. GoneOK'
        BY <2>1 DEF ServersOK, GoneOK, Busy
  <2>7. RentedOK'
        BY <2>1 DEF ServersOK, RentedOK, Busy
  <2>. QED BY <2>2, <2>3, <2>4, <2>5, <2>6, <2>7 DEF ServersOK
<1>17. ASSUME NEW p \in Procs, CreateServer(p)
       PROVE  ServersOK'
  <2>1. PICK n \in Nodes : n = task[p].node
        BY <1>17, TaskShapes DEF CreateServer
  <2>2. /\ machine[n] = "free" /\ machine'[n] = "rented"
        /\ \A m \in Nodes : m # n => machine'[m] = machine[m]
        /\ UNCHANGED <<rows, crossed>>
        BY <1>17, <2>1 DEF CreateServer, ServersOK, OrdersOK, TypeOK
  <2>3. /\ \A q \in Procs : q # p => task'[q] = task[q]
        /\ stranded \subseteq stranded'
        /\ \/ task'[p].kind = "boot" /\ task'[p].node = n
           \/ task'[p].kind = "none" /\ n \in stranded'
        BY <1>17, <2>1, TaskShapes DEF CreateServer, Done, Become, Idle, TypeOK
  <2>4. ASSUME NEW q \in Procs, q # p, OfANode(q)
        PROVE  task[q].node \in Nodes /\ task[q].node # n
    <3>1. task[q].node \in Nodes
          BY <2>4, TaskShapes DEF OfANode, At, IsIdle
    <3>2. task[q].kind \in {"order", "boot", "return", "enlist"} \cup WithRow
          BY <2>4, TaskKinds DEF OfANode
    <3>3. CASE task[q].kind \in {"enlist"} \cup WithRow
          BY <1>3, <2>2, <3>1, <3>3
    <3>4. CASE task[q].kind \in {"boot", "return"}
          BY <2>2, <3>1, <3>4 DEF ServersOK, BootsOK, TasksOK, At
    <3>5. CASE task[q].kind = "order"
          BY <1>17, <2>1, <2>4, <3>1, <3>5 DEF ServersOK, OrdersOK, CreateServer, At
    <3>. QED BY <3>1, <3>2, <3>3, <3>4, <3>5
  <2>5. n \notin DOMAIN rows
        BY <1>2, <2>2
  <2>6. OrdersOK'
        BY <2>2, <2>3, <2>4 DEF ServersOK, OrdersOK, OfANode, At
  <2>7. BootsOK'
        BY <2>2, <2>3, <2>4, <2>5 DEF ServersOK, BootsOK, OfANode, At
  <2>8. RowsOK'
        BY <2>2, <2>5 DEF ServersOK, RowsOK, TypeOK
  <2>9. TasksOK'
        BY <2>2, <2>3, <2>4 DEF ServersOK, TasksOK, OfANode, At, WithRow
  <2>10. GoneOK'
        BY <2>2, <2>3, <2>5 DEF ServersOK, GoneOK, Busy, TypeOK
  <2>11. RentedOK'
        BY <1>17, <2>2, <2>3 DEF ServersOK, RentedOK, Busy, CreateServer, At
  <2>. QED BY <2>6, <2>7, <2>8, <2>9, <2>10, <2>11 DEF ServersOK
<1>18. ASSUME NEW p \in Procs, CreateOrderedNode(p)
       PROVE  ServersOK'
  <2>1. PICK n \in Nodes : n = task[p].node
        BY <1>18, TaskShapes DEF CreateOrderedNode
  <2>2. PICK row : row = NewSwarmNode(task[p].role, TRUE)
        OBVIOUS
  <2>3. /\ DOMAIN rows' = DOMAIN rows \cup {n} /\ rows'[n] = row /\ row.server
        /\ \A m \in DOMAIN rows : m # n => rows'[m] = rows[m]
    <3>1. rows' = Put(rows, n, row) /\ row.server
          BY <1>18, <2>1, <2>2 DEF CreateOrderedNode, NewSwarmNode
    <3>. QED BY <3>1, RowPut
  <2>4. /\ machine[n] = "rented" /\ UNCHANGED <<machine, crossed, stranded>>
        /\ \A q \in Procs : OfANode(q) /\ task[q].node = n => q = p
        /\ task[p].kind = "boot"
        BY <1>18, <2>1 DEF CreateOrderedNode, ServersOK, BootsOK, outside, history, At
  <2>5. /\ \A q \in Procs : q # p => task'[q] = task[q]
        /\ \/ task'[p].kind = "provision" /\ task'[p].node = n /\ task'[p].row = row
           \/ task'[p].kind = "none"
        BY <1>18, <2>1, <2>2 DEF CreateOrderedNode, Become, Provisioning, Idle, TypeOK
  <2>6. OrdersOK'
        BY <2>4, <2>5 DEF ServersOK, OrdersOK, At
  <2>7. BootsOK'
        BY <2>3, <2>4, <2>5 DEF ServersOK, BootsOK, OfANode, At
  <2>8. RowsOK'
        BY <2>3, <2>4 DEF ServersOK, RowsOK
  <2>9. TasksOK'
        BY <2>3, <2>4, <2>5 DEF ServersOK, TasksOK, At, WithRow
  <2>10. GoneOK'
        BY <2>3, <2>4, <2>5 DEF ServersOK, GoneOK, Busy, OfANode
  <2>11. RentedOK'
        BY <2>1, <2>3, <2>4, <2>5 DEF ServersOK, RentedOK, Busy
  <2>. QED BY <2>6, <2>7, <2>8, <2>9, <2>10, <2>11 DEF ServersOK
<1>19. ASSUME NEW p \in Procs, Enlist(p)
       PROVE  ServersOK'
  <2>1. /\ task[p].node \in DOMAIN rows /\ task[p].kind = "enlist"
        /\ UNCHANGED <<machine, rows, crossed, stranded>>
        /\ StartInit(p, task[p].node) \/ StartJoin(p, task[p].node)
        BY <1>19 DEF Enlist, At, outside
  <2>. QED BY <1>7, <1>9, <2>1
<1>20. ASSUME NEW p \in Procs, NEW n \in Nodes, BeginRemove(p, n)
       PROVE  ServersOK'
  <2>1. PICK t : t = [kind |-> "leave", node |-> n, row |-> rows[n]]
        OBVIOUS
  <2>2. t.kind = "leave" /\ t.node = n /\ t.row = rows[n]
        BY <2>1
  <2>3. task' = [task EXCEPT ![p] = t] /\ UNCHANGED <<machine, rows, crossed, stranded>>
        BY <1>20, <2>1 DEF BeginRemove, Become, outside, history
  <2>4. n \in DOMAIN rows /\ task[p].kind = "none"
        BY <1>20 DEF BeginRemove, IsIdle
  <2>. QED BY <1>1, <1>2, <2>2, <2>3, <2>4, MoveKeepsServers DEF WithRow
<1>21. ASSUME NEW p \in Procs, SwarmLeave(p)
       PROVE  ServersOK'
  <2>1. PICK t : t = [task[p] EXCEPT !.kind = "delete"]
        OBVIOUS
  <2>2. t.kind = "delete" /\ t.node = task[p].node /\ t.row = task[p].row /\ At(p, "leave")
        BY <1>21, <2>1, TaskShapes DEF SwarmLeave
  <2>. QED BY <1>11, <1>21, <2>1, <2>2 DEF SwarmLeave, Become, history, At, WithRow
<1>22. ASSUME NEW p \in Procs, DeleteNode(p)
       PROVE  ServersOK'
  <2>1. PICK n \in Nodes : n = task[p].node
        BY <1>22, TaskShapes DEF DeleteNode
  <2>2. /\ DOMAIN rows' = DOMAIN rows \ {n}
        /\ \A m \in DOMAIN rows' : rows'[m] = rows[m]
        BY <1>22, <2>1 DEF DeleteNode, Drop
  <2>3. /\ task[p].kind = "delete" /\ UNCHANGED <<machine, crossed, stranded>>
        /\ \A q \in Procs : q # p => task'[q] = task[q]
        /\ machine[n] # "free" /\ (task[p].row.server <=> machine[n] # "own")
        /\ \A q \in Procs : At(q, "boot") => task[q].node # n
    <3>1. At(p, "delete") /\ task[p].kind \in WithRow
          BY <1>22 DEF DeleteNode, At, WithRow
    <3>. QED BY <1>3, <1>22, <2>1, <3>1 DEF DeleteNode, Become, At, TypeOK, outside
  <2>4. \/ task'[p].kind = "return" /\ task'[p].node = n /\ machine[n] \in {"rented", "returned"}
        \/ task'[p].kind = "none" /\ machine[n] = "own"
    <3>1. machine[n] \in {"free", "own", "rented", "returned"}
          BY DEF TypeOK
    <3>. QED BY <1>22, <2>1, <2>3, <3>1 DEF DeleteNode, Become, Idle, TypeOK
  <2>5. OrdersOK'
        BY <2>3, <2>4 DEF ServersOK, OrdersOK, At
  <2>6. BootsOK'
        BY <2>2, <2>3, <2>4 DEF ServersOK, BootsOK, OfANode, At
  <2>7. RowsOK'
        BY <2>2, <2>3 DEF ServersOK, RowsOK
  <2>8. TasksOK'
        BY <2>3, <2>4 DEF ServersOK, TasksOK, At, WithRow
  <2>9. GoneOK'
        BY <2>2, <2>3, <2>4 DEF ServersOK, GoneOK, Busy
  <2>10. RentedOK'
        BY <2>2, <2>3, <2>4 DEF ServersOK, RentedOK, Busy
  <2>. QED BY <2>5, <2>6, <2>7, <2>8, <2>9, <2>10 DEF ServersOK
<1>23. ASSUME NEW p \in Procs, DeleteServer(p)
       PROVE  ServersOK'
  <2>1. PICK n \in Nodes : n = task[p].node
        BY <1>23, TaskShapes DEF DeleteServer
  <2>2. /\ UNCHANGED <<rows, crossed>> /\ task[p].kind = "return"
        /\ task' = [task EXCEPT ![p] = Idle] /\ Idle.kind = "none"
        /\ \A q \in Procs : q # p => task'[q] = task[q]
        /\ task'[p] = Idle
        BY <1>23 DEF DeleteServer, Done, Become, Idle, At, TypeOK
  <2>3. CASE stranded' = stranded \cup {n} /\ UNCHANGED outside
    <3>1. task[p].node \in stranded' /\ stranded \subseteq stranded' /\ UNCHANGED <<machine, rows>>
          BY <2>1, <2>2, <2>3 DEF outside
    <3>2. crossed \subseteq crossed'
          BY <2>2
    <3>. QED BY <2>2, <3>1, <3>2, MoveKeepsServers DEF WithRow
  <2>4. CASE machine' = [machine EXCEPT ![n] = "returned"] /\ UNCHANGED stranded
    <3>1. machine'[n] = "returned" /\ \A m \in Nodes : m # n => machine'[m] = machine[m]
          BY <2>4 DEF TypeOK
    <3>2. /\ machine[n] \in {"rented", "returned"}
          /\ n \in DOMAIN rows => n \in crossed
          BY <2>1, <2>2 DEF ServersOK, TasksOK, GoneOK, Busy, At
    <3>3. \A q \in Procs : OfANode(q) => task[q].node \in Nodes
          BY TaskShapes DEF OfANode, At, IsIdle
    <3>4. \A q \in Procs : At(q, "boot") => task[q].node # n
          BY <2>1, <2>2 DEF ServersOK, BootsOK, OfANode, At
    <3>5. OrdersOK'
          BY <2>2, <3>1, <3>2, <3>3 DEF ServersOK, OrdersOK, OfANode, At
    <3>6. BootsOK'
          BY <2>2, <3>1, <3>3, <3>4 DEF ServersOK, BootsOK, OfANode, At
    <3>7. RowsOK'
          BY <2>2, <3>1, <3>2 DEF ServersOK, RowsOK, TypeOK
    <3>8. TasksOK'
          BY <2>2, <3>1, <3>2, <3>3 DEF ServersOK, TasksOK, OfANode, At, WithRow
    <3>9. GoneOK'
          BY <2>2, <3>1, <3>2 DEF ServersOK, GoneOK, Busy, TypeOK
    <3>10. RentedOK'
          BY <2>1, <2>2, <2>4, <3>1 DEF ServersOK, RentedOK, Busy
    <3>. QED BY <3>5, <3>6, <3>7, <3>8, <3>9, <3>10 DEF ServersOK
  <2>. QED BY <1>23, <2>1, <2>3, <2>4 DEF DeleteServer
<1>24. ASSUME NEW p \in Procs, BeginConfig(p)
       PROVE  ServersOK'
  <2>1. PICK t : t = [kind |-> "config", cluster |-> cluster]
        OBVIOUS
  <2>2. t.kind = "config"
        BY <2>1
  <2>3. /\ task' = [task EXCEPT ![p] = t] /\ UNCHANGED <<machine, rows, crossed, stranded>>
        /\ task[p].kind = "none"
        BY <1>24, <2>1 DEF BeginConfig, Become, IsIdle, outside, history
  <2>. QED BY <2>2, <2>3, MoveKeepsServers DEF WithRow
<1>25. ASSUME NEW p \in Procs, UpdateClusterHetznerConfig(p)
       PROVE  ServersOK'
  <2>1. /\ task' = [task EXCEPT ![p] = Idle] /\ UNCHANGED <<machine, rows, crossed, stranded>>
        /\ task[p].kind = "config" /\ Idle.kind = "none"
        BY <1>25 DEF UpdateClusterHetznerConfig, Done, Become, At, Idle, outside
  <2>. QED BY <2>1, MoveKeepsServers DEF WithRow
<1>26. ASSUME UNCHANGED <<task, machine, rows, crossed, stranded>>
       PROVE  ServersOK'
       BY <1>26 DEF ServersOK, OrdersOK, BootsOK, RowsOK, TasksOK, GoneOK, RentedOK, At, Busy, OfANode
<1>27. ASSUME NEW p \in Procs, Fail(p)
       PROVE  ServersOK'
  <2>1. /\ task' = [task EXCEPT ![p] = Idle] /\ UNCHANGED <<machine, rows>>
        /\ crossed \subseteq crossed' /\ stranded \subseteq stranded' /\ Idle.kind = "none"
        BY <1>27 DEF Fail, Done, Become, Idle, outside
  <2>2. task[p].kind \in {"boot", "return"} => task[p].node \in stranded'
        BY <1>27 DEF Fail, At
  <2>. QED BY <2>1, <2>2, MoveKeepsServers DEF WithRow
<1>28. ASSUME DeleteSwarmCluster \/ UNCHANGED vars
       PROVE  ServersOK'
       BY <1>26, <1>28 DEF DeleteSwarmCluster, vars, outside, history
<1>. QED
  BY <1>4, <1>5, <1>6, <1>8, <1>10, <1>12, <1>13, <1>14, <1>15, <1>16, <1>17, <1>18, <1>19,
     <1>20, <1>21, <1>22, <1>23, <1>24, <1>25, <1>27, <1>28 DEF Next
-----------------------------------------------------------------------------
(* The tokens, the members and the founder *)

Founding(p) ==
    \/ At(p, "init") \/ At(p, "store")
    \/ At(p, "activate") /\ task[p].founder

\* Tokens come from a swarm whose tokens were stored.
TokensOK ==
    /\ cluster.tokens \in stored \cup {NoNode}
    /\ \A p \in Procs :
          /\ task[p].kind \in {"config", "init", "store"} => task[p].cluster.tokens \in stored \cup {NoNode}
          /\ At(p, "join") => task[p].tokens \in stored
          /\ At(p, "activate") /\ task[p].founder => task[p].node \in stored
    /\ cluster.exists /\ ~overwritten /\ stored # {} => cluster.tokens \in stored

\* A node of the cluster is in a swarm whose tokens were stored, is about to be
\* removed, or its row comes from an old copy.
InSwarm(n) == member[n] \in stored \/ n \in crossed \/ Busy({"delete"}, n)

MembersOK ==
    /\ \A n \in DOMAIN rows : rows[n].active => InSwarm(n)
    /\ \A p \in Procs : task[p].kind \in {"store", "activate"} /\ task[p].node \in DOMAIN rows =>
          InSwarm(task[p].node) \/ (At(p, "store") /\ member[task[p].node] = task[p].node)

\* Nothing happened that the founder's record is lost by.
Sure == ~unsure /\ ~overwritten /\ stored \cap crossed = {}

OnRecord(n) == n \in DOMAIN rows /\ rows[n].role = "manager" /\ rows[n].known

\* One request founds a swarm, and none once there is one: it can be seen that
\* there is.
FoundingOK ==
    /\ \A p \in Procs : Founding(p) => task[p].row.role = "manager"
    /\ \A n \in stored : machine[n] # "free"
    /\ Sure =>
          /\ \A p, q \in Procs : Founding(p) /\ Founding(q) => p = q
          /\ \A p \in Procs : At(p, "init") \/ At(p, "store") => stored = {}
          /\ \A n \in stored : OnRecord(n) \/ \E p \in Procs : Founding(p)
          /\ \A m, n \in stored : m = n

Agreed == TokensOK /\ MembersOK /\ FoundingOK

\* What is on record stays so.
Grows ==
    /\ stored \subseteq stored' /\ crossed \subseteq crossed'
    /\ (unsure => unsure') /\ (overwritten => overwritten')

LEMMA MoveKeepsTokens ==
    ASSUME TypeOK, TokensOK, NEW p \in Procs, NEW t, task' = [task EXCEPT ![p] = t],
           stored \subseteq stored',
           cluster'.tokens \in stored' \cup {NoNode},
           cluster'.exists /\ ~overwritten' /\ stored' # {} => cluster'.tokens \in stored',
           t.kind \in {"config", "init", "store"} => t.cluster.tokens \in stored' \cup {NoNode},
           t.kind = "join" => t.tokens \in stored',
           t.kind = "activate" /\ t.founder => t.node \in stored'
    PROVE  TokensOK'
<1>1. task'[p] = t /\ \A q \in Procs : q # p => task'[q] = task[q]
      BY DEF TypeOK
<1>. QED BY <1>1 DEF TokensOK, At

LEMMA MoveKeepsMembers ==
    ASSUME TypeOK, MembersOK, NEW p \in Procs, NEW t, task' = [task EXCEPT ![p] = t],
           stored \subseteq stored', crossed \subseteq crossed',
           \A n \in Nodes : \/ member'[n] = member[n] \/ member[n] = NoNode
                            \/ n \notin DOMAIN rows' \/ n \in crossed'
                            \/ t.kind = "delete" /\ t.node = n,
           At(p, "delete") =>
               task[p].node \notin DOMAIN rows' \/ task[p].node \in crossed',
           \A n \in DOMAIN rows' : rows'[n].active =>
               \/ n \in DOMAIN rows /\ (rows[n].active \/ (At(p, "activate") /\ task[p].node = n))
               \/ n \in crossed',
           \A n \in DOMAIN rows' \ DOMAIN rows : n \in crossed' \/
               \A q \in Procs : task[q].kind \in {"store", "activate"} => task[q].node # n,
           DOMAIN rows' \subseteq Nodes,
           t.kind \in {"store", "activate"} /\ t.node \in DOMAIN rows' =>
               \/ t.kind = "store" /\ member'[t.node] = t.node
               \/ t.kind = "activate" /\ member'[t.node] \in stored'
               \/ /\ t.kind = "activate" /\ At(p, "store") /\ t.node \in stored'
                  /\ t.node = task[p].node /\ UNCHANGED member
    PROVE  MembersOK'
<1>1. task'[p] = t /\ \A q \in Procs : q # p => task'[q] = task[q]
      BY DEF TypeOK
<1>2. NoNode \notin stored /\ NoNode \notin Nodes
      BY NodesAssumption DEF TypeOK
<1>3. ASSUME NEW n \in DOMAIN rows', InSwarm(n)
      PROVE  InSwarm(n)'
  <2>1. n \in Nodes
        OBVIOUS
  <2>2. CASE member[n] \in stored
        BY <1>1, <1>2, <2>1, <2>2 DEF InSwarm, Busy
  <2>3. CASE n \in crossed
        BY <2>3 DEF InSwarm
  <2>4. CASE Busy({"delete"}, n)
        BY <1>1, <2>4 DEF InSwarm, Busy, At
  <2>. QED BY <1>3, <2>2, <2>3, <2>4 DEF InSwarm
<1>4. ASSUME NEW n \in DOMAIN rows', rows'[n].active
      PROVE  InSwarm(n)'
  <2>1. CASE n \in crossed'
        BY <2>1 DEF InSwarm
  <2>2. CASE n \in DOMAIN rows /\ rows[n].active
        BY <1>3, <2>2 DEF MembersOK
  <2>3. CASE n \in DOMAIN rows /\ At(p, "activate") /\ task[p].node = n
        BY <1>3, <2>3 DEF MembersOK, At
  <2>. QED BY <1>4, <2>1, <2>2, <2>3
<1>5. ASSUME NEW q \in Procs, task'[q].kind \in {"store", "activate"},
             NEW n \in DOMAIN rows', n = task'[q].node
      PROVE  InSwarm(n)' \/ (task'[q].kind = "store" /\ member'[n] = n)
  <2>1. n \in Nodes
        OBVIOUS
  <2>2. CASE q # p
    <3>1. task[q].node = n /\ task[q].kind = task'[q].kind
          BY <1>1, <1>5, <2>2
    <3>2. CASE n \in DOMAIN rows /\ InSwarm(n)
          BY <1>3, <1>5, <2>1, <3>2
    <3>3. CASE n \in DOMAIN rows /\ At(q, "store") /\ member[n] = n
      <4>1. member'[n] = n \/ n \in crossed' \/ (t.kind = "delete" /\ t.node = n)
            BY <1>2, <1>5, <2>1, <3>3
      <4>. QED BY <1>1, <2>1, <3>1, <3>3, <4>1 DEF InSwarm, Busy, At
    <3>4. CASE n \notin DOMAIN rows
          BY <1>5, <2>1, <3>1, <3>4 DEF InSwarm
    <3>. QED BY <1>5, <3>1, <3>2, <3>3, <3>4 DEF MembersOK
  <2>3. CASE q = p
    <3>1. t.kind \in {"store", "activate"} /\ t.node = n /\ n \in DOMAIN rows'
          BY <1>1, <1>5, <2>1, <2>3
    <3>2. CASE t.kind = "store" /\ member'[t.node] = t.node
          BY <1>1, <2>3, <3>1, <3>2
    <3>3. CASE t.kind = "activate" /\ member'[t.node] \in stored'
          BY <2>1, <3>1, <3>3 DEF InSwarm
    <3>4. CASE /\ t.kind = "activate" /\ At(p, "store") /\ t.node \in stored'
               /\ t.node = task[p].node /\ UNCHANGED member
      <4>1. CASE n \in DOMAIN rows /\ InSwarm(n)
            BY <1>3, <2>1, <3>1, <4>1
      <4>2. CASE n \in DOMAIN rows /\ member[n] = n
            BY <2>1, <3>1, <3>4, <4>2 DEF InSwarm
      <4>3. CASE n \notin DOMAIN rows
            BY <2>1, <3>1, <3>4, <4>3 DEF InSwarm, At
      <4>. QED BY <3>1, <3>4, <4>1, <4>2, <4>3 DEF MembersOK, At
    <3>. QED BY <3>1, <3>2, <3>3, <3>4
  <2>. QED BY <2>2, <2>3
<1>. QED BY <1>4, <1>5 DEF MembersOK, At

LEMMA MoveKeepsFounding ==
    ASSUME TypeOK, TokensOK, FoundingOK, NEW p \in Procs, NEW t, task' = [task EXCEPT ![p] = t], Grows,
           \A n \in stored' : machine'[n] # "free",
           \A n \in stored : OnRecord(n) => OnRecord(n)' \/ n \in crossed' \/ unsure',
           Founding(p)' => /\ t.row.role = "manager"
                           /\ Founding(p) \/ unsure' \/ \A q \in Procs : ~Founding(q),
           Sure' /\ Founding(p) /\ ~Founding(p)' => \A n \in stored : OnRecord(n)',
           Sure' /\ t.kind \in {"init", "store"} => At(p, "init") \/ stored = {},
           \/ stored' = stored
           \/ At(p, "store") /\ stored' = stored \cup {task[p].node} /\ Founding(p)'
              /\ t.kind = "activate"
    PROVE  FoundingOK'
<1>1. task'[p] = t /\ \A q \in Procs : q # p => task'[q] = task[q]
      BY DEF TypeOK
<1>2. ASSUME NEW q \in Procs, q # p
      PROVE  Founding(q)' <=> Founding(q)
      BY <1>1, <1>2 DEF Founding, At
<1>3. ASSUME NEW q \in Procs, Founding(q)'
      PROVE  task'[q].row.role = "manager"
      BY <1>1, <1>2, <1>3 DEF FoundingOK
<1>4. ASSUME Sure'
      PROVE  Sure
      BY <1>4 DEF Sure, Grows
<1>5. ASSUME Sure', NEW q \in Procs, NEW r \in Procs, Founding(q)', Founding(r)'
      PROVE  q = r
      BY <1>2, <1>4, <1>5 DEF FoundingOK, Sure
<1>6. ASSUME Sure', NEW q \in Procs, At(q, "init")' \/ At(q, "store")'
      PROVE  stored' = {}
  <2>1. CASE q = p
        BY <1>1, <1>4, <1>6, <2>1 DEF FoundingOK, At, Sure
  <2>2. CASE q # p
    <3>1. stored = {} /\ Founding(q)
          BY <1>1, <1>4, <1>6, <2>2 DEF FoundingOK, Founding, At
    <3>2. ~Founding(p)
          BY <1>4, <1>6, <2>2, <3>1 DEF FoundingOK
    <3>. QED BY <3>1, <3>2 DEF Founding
  <2>. QED BY <2>1, <2>2
<1>7. ASSUME Sure', NEW n \in stored'
      PROVE  OnRecord(n)' \/ \E q \in Procs : Founding(q)'
  <2>1. CASE Founding(p)'
        BY <2>1
  <2>2. CASE ~Founding(p)'
    <3>1. n \in stored /\ n \notin crossed' /\ ~unsure'
          BY <1>7, <2>2 DEF Sure
    <3>2. CASE OnRecord(n)
          BY <3>1, <3>2
    <3>3. CASE Founding(p)
          BY <1>7, <2>2, <3>1, <3>3
    <3>4. CASE \E q \in Procs : q # p /\ Founding(q)
          BY <1>2, <3>4
    <3>. QED BY <1>4, <1>7, <3>1, <3>2, <3>3, <3>4 DEF FoundingOK
  <2>. QED BY <2>1, <2>2
<1>8. ASSUME Sure', NEW m \in stored', NEW n \in stored'
      PROVE  m = n
  <2>1. CASE stored' = stored
        BY <1>4, <1>8, <2>1 DEF FoundingOK
  <2>2. CASE At(p, "store") /\ stored' = stored \cup {task[p].node}
        BY <1>4, <1>8, <2>2 DEF FoundingOK
  <2>. QED BY <2>1, <2>2
<1>. QED BY <1>3, <1>5, <1>6, <1>7, <1>8 DEF FoundingOK

\* Only the request moves on, and not to a swarm.
LEMMA QuietKeepsCluster ==
    ASSUME TypeOK, Agreed, NEW p \in Procs, NEW t, task' = [task EXCEPT ![p] = t],
           UNCHANGED <<cluster, rows, member, stored, overwritten>>,
           crossed \subseteq crossed', unsure => unsure',
           \A n \in stored : machine'[n] # "free",
           t.kind \notin {"init", "store", "activate"},
           t.kind = "config" => t.cluster = cluster,
           t.kind = "join" => t.tokens \in stored,
           Sure' /\ Founding(p) => stored = {},
           At(p, "delete") => task[p].node \in crossed'
    PROVE  Agreed'
<1>1. task'[p] = t
      BY DEF TypeOK
<1>2. TokensOK'
  <2>1. /\ stored \subseteq stored' /\ cluster'.tokens \in stored' \cup {NoNode}
        /\ (cluster'.exists /\ ~overwritten' /\ stored' # {} => cluster'.tokens \in stored')
        /\ (t.kind \in {"config", "init", "store"} => t.cluster.tokens \in stored' \cup {NoNode})
        /\ (t.kind = "join" => t.tokens \in stored')
        /\ (t.kind = "activate" /\ t.founder => t.node \in stored')
        BY DEF Agreed, TokensOK
  <2>. QED BY <2>1, MoveKeepsTokens DEF Agreed
<1>3. MembersOK'
  <2>1. DOMAIN rows' \subseteq Nodes /\ UNCHANGED <<member, rows>> /\ stored \subseteq stored'
        BY DEF TypeOK
  <2>. QED BY <2>1, MoveKeepsMembers DEF Agreed
<1>4. FoundingOK'
  <2>1. ~Founding(p)'
        BY <1>1 DEF Founding, At
  <2>2. Grows /\ stored' = stored /\ \A n \in stored : OnRecord(n) => OnRecord(n)'
        BY DEF Grows, OnRecord
  <2>. QED BY <2>1, <2>2, MoveKeepsFounding DEF Agreed
<1>. QED BY <1>2, <1>3, <1>4 DEF Agreed

\* A row of a request is saved.
LEMMA SaveKeepsMembers ==
    ASSUME TypeOK, MembersOK, NEW p \in Procs, NEW t, task' = [task EXCEPT ![p] = t],
           NEW n \in Nodes, n = task[p].node, NEW row, SaveNode(n, task[p].row, row),
           row.active = task[p].row.active \/ At(p, "activate"),
           ~At(p, "delete"), t.kind \notin {"store", "activate"},
           UNCHANGED <<member, stored>>
    PROVE  MembersOK'
<1>1. /\ DOMAIN rows' = DOMAIN rows \cup {n} /\ rows'[n] = row
      /\ \A m \in DOMAIN rows : m # n => rows'[m] = rows[m]
      BY RowPut DEF SaveNode
<1>2. crossed \subseteq crossed' /\ (n \in crossed' \/ (n \in DOMAIN rows /\ rows[n] = task[p].row))
      BY DEF SaveNode
<1>3. \A m \in DOMAIN rows' : rows'[m].active =>
         \/ m \in DOMAIN rows /\ (rows[m].active \/ (At(p, "activate") /\ task[p].node = m))
         \/ m \in crossed'
      BY <1>1, <1>2
<1>4. \A m \in DOMAIN rows' \ DOMAIN rows : m \in crossed' \/
         \A q \in Procs : task[q].kind \in {"store", "activate"} => task[q].node # m
      BY <1>1, <1>2
<1>5. DOMAIN rows' \subseteq Nodes /\ UNCHANGED member /\ stored \subseteq stored'
      BY <1>1 DEF TypeOK
<1>. QED BY <1>2, <1>3, <1>4, <1>5, MoveKeepsMembers

LEMMA StartInitKeeps ==
    ASSUME TypeOK, ServersOK, Agreed, NEW p \in Procs, NEW n \in DOMAIN rows, StartInit(p, n),
           rows[n].role = "manager", task[p].kind \in {"none", "enlist"},
           UNCHANGED <<cluster, rows, machine, member, stored, crossed, overwritten>>,
           Sure' => stored = {}
    PROVE  Agreed'
<1>1. PICK t : t = [kind |-> "init", node |-> n, row |-> rows[n], cluster |-> cluster]
      OBVIOUS
<1>2. t.kind = "init" /\ t.node = n /\ t.row = rows[n] /\ t.cluster = cluster
      BY <1>1
<1>3. task' = [task EXCEPT ![p] = t] /\ unsure' = (unsure \/ Initialising # {})
      BY <1>1 DEF StartInit, Become
<1>4. TokensOK'
  <2>1. /\ stored \subseteq stored' /\ cluster'.tokens \in stored' \cup {NoNode}
        /\ (cluster'.exists /\ ~overwritten' /\ stored' # {} => cluster'.tokens \in stored')
        /\ t.cluster.tokens \in stored' \cup {NoNode}
        BY <1>2 DEF Agreed, TokensOK
  <2>. QED BY <1>2, <1>3, <2>1, MoveKeepsTokens DEF Agreed
<1>5. MembersOK'
  <2>1. DOMAIN rows' \subseteq Nodes /\ UNCHANGED <<member, rows>> /\ stored \subseteq stored'
        /\ crossed \subseteq crossed' /\ ~At(p, "delete")
        BY DEF TypeOK, At
  <2>. QED BY <1>2, <1>3, <2>1, MoveKeepsMembers DEF Agreed
<1>6. FoundingOK'
  <2>1. Grows /\ stored' = stored /\ \A m \in stored : OnRecord(m) => OnRecord(m)'
        BY <1>3 DEF Grows, OnRecord
  <2>2. ~Founding(p) /\ (unsure' \/ \A q \in Procs : ~Founding(q))
        BY <1>3 DEF Founding, Initialising, At
  <2>3. \A m \in stored' : machine'[m] # "free"
        BY DEF Agreed, FoundingOK
  <2>. QED BY <1>2, <1>3, <2>1, <2>2, <2>3, MoveKeepsFounding DEF Agreed
<1>. QED BY <1>4, <1>5, <1>6 DEF Agreed

\* A new row is of a node no request knows.
LEMMA NewRowKeeps ==
    ASSUME TypeOK, Agreed, NEW n \in Nodes, n \notin DOMAIN rows, NEW row, rows' = Put(rows, n, row),
           ~row.active, \A q \in Procs : task[q].kind \in {"store", "activate"} => task[q].node # n
    PROVE  /\ \A m \in DOMAIN rows' : rows'[m].active => m \in DOMAIN rows /\ rows[m].active
           /\ \A m \in DOMAIN rows' \ DOMAIN rows :
                 \A q \in Procs : task[q].kind \in {"store", "activate"} => task[q].node # m
           /\ DOMAIN rows' \subseteq Nodes
           /\ \A m : OnRecord(m) => m \in DOMAIN rows' /\ rows'[m] = rows[m]
<1>1. /\ DOMAIN rows' = DOMAIN rows \cup {n} /\ rows'[n] = row
      /\ \A m \in DOMAIN rows : m # n => rows'[m] = rows[m]
      BY RowPut
<1>. QED BY <1>1 DEF TypeOK, OnRecord

LEMMA ClusterStep ==
    ASSUME TypeOK, ServersOK, Agreed, [Next]_vars
    PROVE  Agreed'
<1>1. NoNode \notin stored
      BY NodesAssumption DEF TypeOK
<1>2. \A n \in stored : machine[n] # "free"
      BY DEF Agreed, FoundingOK
<1>3. ASSUME NEW p \in Procs, NEW t, task' = [task EXCEPT ![p] = t],
             UNCHANGED <<cluster, rows, machine, member, stored, crossed, overwritten, unsure>>,
             ~Founding(p), ~At(p, "delete"),
             t.kind \notin {"init", "store", "activate"},
             t.kind = "config" => t.cluster = cluster,
             t.kind = "join" => t.tokens \in stored
      PROVE  Agreed'
  <2>1. crossed \subseteq crossed' /\ (unsure => unsure') /\ \A n \in stored : machine'[n] # "free"
        BY <1>2, <1>3
  <2>. QED BY <1>3, <2>1, QuietKeepsCluster
<1>4. ASSUME NEW n \in Nodes, CreateSwarmNode(n)
      PROVE  Agreed'
  <2>1. PICK row : rows' = Put(rows, n, row) /\ ~row.active
        BY <1>4 DEF CreateSwarmNode, NewSwarmNode
  <2>2. /\ UNCHANGED <<cluster, member, task, stored, crossed, overwritten, unsure>>
        /\ machine[n] = "free" /\ machine' = [machine EXCEPT ![n] = "own"]
        BY <1>4 DEF CreateSwarmNode, history
  <2>3. /\ \A q \in Procs : task[q].kind \in {"store", "activate"} => task[q].node # n
        /\ n \notin DOMAIN rows
        BY <2>2 DEF ServersOK, TasksOK, RowsOK, WithRow
  <2>4. /\ \A m \in DOMAIN rows' : rows'[m].active => m \in DOMAIN rows /\ rows[m].active
        /\ \A m \in DOMAIN rows' \ DOMAIN rows :
              \A q \in Procs : task[q].kind \in {"store", "activate"} => task[q].node # m
        /\ \A m : OnRecord(m) => m \in DOMAIN rows' /\ rows'[m] = rows[m]
        BY <2>1, <2>3, NewRowKeeps
  <2>5. TokensOK'
        BY <2>2 DEF Agreed, TokensOK, At
  <2>6. MembersOK'
        BY <2>2, <2>4 DEF Agreed, MembersOK, InSwarm, Busy, At
  <2>7. FoundingOK'
    <3>1. \A m \in stored' : machine'[m] # "free"
          BY <1>2, <2>2 DEF TypeOK
    <3>2. \A m : OnRecord(m) => OnRecord(m)'
          BY <2>4 DEF OnRecord
    <3>3. (Sure' <=> Sure) /\ \A q \in Procs : Founding(q)' <=> Founding(q)
          BY <2>2 DEF Sure, Founding, At
    <3>. QED BY <2>2, <3>1, <3>2, <3>3 DEF Agreed, FoundingOK, At
  <2>. QED BY <2>5, <2>6, <2>7 DEF Agreed
<1>5. ASSUME NEW p \in Procs, NEW n \in Nodes, BeginProvision(p, n)
      PROVE  Agreed'
  <2>1. PICK t : t = Provisioning(n, rows[n], FALSE)
        OBVIOUS
  <2>2. t.kind = "provision"
        BY <2>1 DEF Provisioning
  <2>3. task' = [task EXCEPT ![p] = t] /\ ~Founding(p) /\ ~At(p, "delete")
        BY <1>5, <2>1 DEF BeginProvision, Become, IsIdle, Founding, At
  <2>. QED BY <1>3, <1>5, <2>2, <2>3 DEF BeginProvision, outside, history
<1>6. ASSUME NEW p \in Procs, ProvisionSwarmNode(p)
      PROVE  Agreed'
  <2>. DEFINE next == IF task[p].order THEN [kind |-> "enlist", node |-> task[p].node] ELSE Idle
  <2>1. PICK t : t = next
        OBVIOUS
  <2>2. task' = [task EXCEPT ![p] = t]
        BY <1>6, <2>1 DEF ProvisionSwarmNode, Become
  <2>3. t.kind \in {"none", "enlist"} /\ At(p, "provision")
        BY <1>6, <2>1 DEF Idle, ProvisionSwarmNode
  <2>4. PICK row : row = [task[p].row EXCEPT !.vpn = TRUE]
        OBVIOUS
  <2>5. /\ row.active = task[p].row.active /\ row.role = task[p].row.role
        /\ row.known = task[p].row.known
        BY <2>3, <2>4, TaskShapes DEF SwarmNode
  <2>6. PICK n \in Nodes : n = task[p].node
        BY <2>3, TaskShapes
  <2>7. /\ SaveNode(n, task[p].row, row)
        /\ UNCHANGED <<cluster, machine, member, stored, overwritten, unsure>>
        BY <1>6, <2>4, <2>6 DEF ProvisionSwarmNode, outside
  <2>8. TokensOK'
    <3>1. /\ stored \subseteq stored' /\ cluster'.tokens \in stored' \cup {NoNode}
          /\ (cluster'.exists /\ ~overwritten' /\ stored' # {} => cluster'.tokens \in stored')
          BY <2>7 DEF Agreed, TokensOK
    <3>. QED BY <2>2, <2>3, <3>1, MoveKeepsTokens DEF Agreed
  <2>9. MembersOK'
    <3>1. ~At(p, "delete") /\ t.kind \notin {"store", "activate"} /\ MembersOK
          BY <2>3 DEF At, Agreed
    <3>. QED BY <2>2, <2>5, <2>6, <2>7, <3>1, SaveKeepsMembers
  <2>10. FoundingOK'
    <3>1. ~Founding(p) /\ ~Founding(p)'
          BY <2>2, <2>3 DEF Founding, At, TypeOK
    <3>2. Grows /\ stored' = stored
          BY <2>7 DEF Grows, SaveNode
    <3>3. \A m \in stored : OnRecord(m) => OnRecord(m)' \/ m \in crossed'
      <4>1. /\ rows' = Put(rows, n, row)
            /\ crossed' = IF n \in DOMAIN rows /\ rows[n] = task[p].row
                            THEN crossed ELSE crossed \cup {n}
            BY <2>7 DEF SaveNode
      <4>2. /\ DOMAIN rows' = DOMAIN rows \cup {n} /\ rows'[n] = row
            /\ \A m \in DOMAIN rows : m # n => rows'[m] = rows[m]
            BY <4>1, RowPut
      <4>3. ASSUME NEW m \in stored, OnRecord(m), m # n
            PROVE  OnRecord(m)'
            BY <4>2, <4>3 DEF OnRecord
      <4>4. ASSUME n \in stored, OnRecord(n), rows[n] = task[p].row
            PROVE  OnRecord(n)'
            BY <2>5, <4>2, <4>4 DEF OnRecord
      <4>5. ASSUME OnRecord(n), rows[n] # task[p].row
            PROVE  n \in crossed'
            BY <4>1, <4>5
      <4>. QED BY <4>3, <4>4, <4>5
    <3>4. \A m \in stored' : machine'[m] # "free"
          BY <1>2, <2>7
    <3>. QED BY <2>2, <2>3, <3>1, <3>2, <3>3, <3>4, MoveKeepsFounding DEF Agreed
  <2>. QED BY <2>8, <2>9, <2>10 DEF Agreed
<1>7. ASSUME NEW p \in Procs, BeginInit(p)
      PROVE  Agreed'
  <2>1. PICK n : n = First({m \in Managers : rows[m].vpn})
        OBVIOUS
  <2>2. n \in Managers
        BY <1>7, <2>1, FirstOf, NodesAssumption DEF BeginInit, swarmCanInit, Managers, TypeOK
  <2>3. /\ StartInit(p, n) /\ task[p].kind = "none" /\ \A m \in Managers : ~rows[m].known
        /\ UNCHANGED <<cluster, rows, machine, member, stored, crossed, overwritten>>
        BY <1>7, <2>1 DEF BeginInit, swarmCanInit, IsIdle, outside
  <2>4. ASSUME Sure'
        PROVE  stored = {}
    <3>1. Sure /\ Initialising = {}
          BY <2>3, <2>4 DEF Sure, StartInit
    <3>2. ~ \E q \in Procs : Founding(q)
          BY <3>1 DEF Founding, Initialising, At
    <3>. QED BY <2>3, <3>1, <3>2 DEF Agreed, FoundingOK, OnRecord, Managers
  <2>. QED BY <2>2, <2>3, <2>4, StartInitKeeps DEF Managers
<1>8. ASSUME NEW p \in Procs, SwarmInit(p)
      PROVE  Agreed'
  <2>1. PICK t : t = [task[p] EXCEPT !.kind = "store"]
        OBVIOUS
  <2>2. /\ t.kind = "store" /\ t.node = task[p].node /\ t.row = task[p].row
        /\ t.cluster = task[p].cluster /\ task[p].node \in Nodes /\ task[p].kind = "init"
        BY <1>8, <2>1, TaskShapes DEF SwarmInit, At
  <2>3. PICK n \in Nodes : n = task[p].node
        BY <2>2
  <2>4. /\ task' = [task EXCEPT ![p] = t]
        /\ UNCHANGED <<cluster, rows, machine, stored, crossed, overwritten, unsure>>
        /\ member[n] = NoNode /\ member' = [member EXCEPT ![n] = n]
        BY <1>8, <2>1, <2>3 DEF SwarmInit, Become, history
  <2>5. TokensOK'
    <3>1. /\ stored \subseteq stored' /\ cluster'.tokens \in stored' \cup {NoNode}
          /\ (cluster'.exists /\ ~overwritten' /\ stored' # {} => cluster'.tokens \in stored')
          /\ t.cluster.tokens \in stored' \cup {NoNode}
          BY <2>2, <2>4 DEF Agreed, TokensOK
    <3>. QED BY <2>2, <2>4, <3>1, MoveKeepsTokens DEF Agreed
  <2>6. MembersOK'
    <3>1. /\ member'[n] = n /\ \A m \in Nodes : member'[m] = member[m] \/ member[m] = NoNode
          /\ DOMAIN rows' \subseteq Nodes /\ UNCHANGED rows
          /\ stored \subseteq stored' /\ crossed \subseteq crossed' /\ ~At(p, "delete")
          BY <2>2, <2>4 DEF TypeOK, At
    <3>. QED BY <2>2, <2>3, <2>4, <3>1, MoveKeepsMembers DEF Agreed
  <2>7. FoundingOK'
    <3>1. /\ Grows /\ stored' = stored /\ \A m \in stored : OnRecord(m) => OnRecord(m)'
          /\ \A m \in stored' : machine'[m] # "free"
          BY <1>2, <2>4 DEF Grows, OnRecord
    <3>2. Founding(p) /\ Founding(p)' /\ t.row.role = "manager" /\ At(p, "init")
          BY <2>2, <2>4 DEF Founding, At, TypeOK, Agreed, FoundingOK
    <3>. QED BY <2>4, <3>1, <3>2, MoveKeepsFounding DEF Agreed
  <2>. QED BY <2>5, <2>6, <2>7 DEF Agreed
<1>9. ASSUME NEW p \in Procs, StoreTokens(p)
      PROVE  Agreed'
  <2>1. PICK t : t = [kind |-> "activate", node |-> task[p].node, row |-> task[p].row, founder |-> TRUE]
        OBVIOUS
  <2>2. PICK n \in Nodes : n = task[p].node
        BY <1>9, TaskShapes DEF StoreTokens
  <2>3. t.kind = "activate" /\ t.node = n /\ t.row = task[p].row /\ t.founder
        BY <2>1, <2>2
  <2>4. PICK c : c = [task[p].cluster EXCEPT !.tokens = n]
        OBVIOUS
  <2>5. c.tokens = n
        BY <1>9, <2>4, TaskShapes DEF StoreTokens, Cluster
  <2>6. /\ task' = [task EXCEPT ![p] = t] /\ At(p, "store")
        /\ UNCHANGED <<rows, machine, member, crossed, unsure>>
        /\ stored' = stored \cup {n} /\ cluster' = c /\ (overwritten => overwritten')
        BY <1>9, <2>1, <2>2, <2>4 DEF StoreTokens, SaveCluster, Become, outside
  <2>7. TokensOK'
    <3>1. /\ stored \subseteq stored' /\ cluster'.tokens \in stored' \cup {NoNode}
          /\ (cluster'.exists /\ ~overwritten' /\ stored' # {} => cluster'.tokens \in stored')
          /\ t.node \in stored'
          BY <2>3, <2>5, <2>6
    <3>. QED BY <2>3, <2>6, <3>1, MoveKeepsTokens DEF Agreed
  <2>8. MembersOK'
    <3>1. /\ DOMAIN rows' \subseteq Nodes /\ UNCHANGED <<rows, member>>
          /\ stored \subseteq stored' /\ crossed \subseteq crossed' /\ ~At(p, "delete")
          /\ t.node \in stored' /\ t.node = task[p].node
          BY <2>2, <2>3, <2>6 DEF TypeOK, At
    <3>. QED BY <2>3, <2>6, <3>1, MoveKeepsMembers DEF Agreed
  <2>9. FoundingOK'
    <3>1. Grows /\ \A m \in stored : OnRecord(m) => OnRecord(m)'
          BY <2>6 DEF Grows, OnRecord
    <3>2. \A m \in stored' : machine'[m] # "free"
          BY <1>2, <2>2, <2>6 DEF ServersOK, TasksOK, WithRow, At
    <3>3. Founding(p) /\ Founding(p)' /\ t.row.role = "manager"
          BY <2>3, <2>6 DEF Founding, At, TypeOK, Agreed, FoundingOK
    <3>. QED BY <2>2, <2>3, <2>6, <3>1, <3>2, <3>3, MoveKeepsFounding DEF Agreed
  <2>. QED BY <2>7, <2>8, <2>9 DEF Agreed
<1>10. ASSUME NEW p \in Procs, NEW n, CanJoin(n), StartJoin(p, n), task[p].kind \in {"none", "enlist"},
              UNCHANGED <<cluster, rows, machine, member, stored, crossed, overwritten, unsure>>
       PROVE  Agreed'
  <2>1. PICK t : t = [kind |-> "join", node |-> n, row |-> rows[n], tokens |-> cluster.tokens]
        OBVIOUS
  <2>2. t.kind = "join" /\ t.tokens \in stored
        BY <1>10, <2>1 DEF CanJoin, Agreed, TokensOK
  <2>3. task' = [task EXCEPT ![p] = t] /\ ~Founding(p) /\ ~At(p, "delete")
        BY <1>10, <2>1 DEF StartJoin, Become, Founding, At
  <2>. QED BY <1>3, <1>10, <2>2, <2>3
<1>11. ASSUME NEW p \in Procs, NEW n \in Nodes, BeginJoin(p, n)
       PROVE  Agreed'
       BY <1>10, <1>11 DEF BeginJoin, IsIdle, outside, history
<1>12. ASSUME NEW p \in Procs, SwarmJoin(p)
       PROVE  Agreed'
  <2>1. PICK t : t = [kind |-> "activate", node |-> task[p].node, row |-> task[p].row, founder |-> FALSE]
        OBVIOUS
  <2>2. PICK n \in Nodes : n = task[p].node
        BY <1>12, TaskShapes DEF SwarmJoin
  <2>3. t.kind = "activate" /\ t.node = n /\ ~t.founder
        BY <2>1, <2>2
  <2>4. PICK s \in stored : s = task[p].tokens
        BY <1>12 DEF SwarmJoin, Agreed, TokensOK
  <2>5. /\ task' = [task EXCEPT ![p] = t] /\ At(p, "join")
        /\ UNCHANGED <<cluster, rows, machine, stored, crossed, overwritten, unsure>>
        /\ member[n] = NoNode /\ member' = [member EXCEPT ![n] = s]
        BY <1>12, <2>1, <2>2, <2>4 DEF SwarmJoin, Become, history
  <2>6. TokensOK'
    <3>1. /\ stored \subseteq stored' /\ cluster'.tokens \in stored' \cup {NoNode}
          /\ (cluster'.exists /\ ~overwritten' /\ stored' # {} => cluster'.tokens \in stored')
          BY <2>5 DEF Agreed, TokensOK
    <3>. QED BY <2>3, <2>5, <3>1, MoveKeepsTokens DEF Agreed
  <2>7. MembersOK'
    <3>1. /\ member'[n] \in stored' /\ \A m \in Nodes : member'[m] = member[m] \/ member[m] = NoNode
          /\ DOMAIN rows' \subseteq Nodes /\ UNCHANGED rows
          /\ stored \subseteq stored' /\ crossed \subseteq crossed' /\ ~At(p, "delete")
          BY <2>4, <2>5 DEF TypeOK, At
    <3>. QED BY <2>3, <2>5, <3>1, MoveKeepsMembers DEF Agreed
  <2>8. FoundingOK'
    <3>1. /\ Grows /\ stored' = stored /\ \A m \in stored : OnRecord(m) => OnRecord(m)'
          /\ \A m \in stored' : machine'[m] # "free"
          BY <1>2, <2>5 DEF Grows, OnRecord
    <3>2. ~Founding(p) /\ ~Founding(p)'
          BY <2>3, <2>5 DEF Founding, At, TypeOK
    <3>. QED BY <2>3, <2>5, <3>1, <3>2, MoveKeepsFounding DEF Agreed
  <2>. QED BY <2>6, <2>7, <2>8 DEF Agreed
<1>13. ASSUME NEW p \in Procs, Activate(p)
       PROVE  Agreed'
  <2>1. PICK n \in Nodes : n = task[p].node
        BY <1>13, TaskShapes DEF Activate
  <2>2. PICK k \in Found(p) :
           /\ SaveNode(n, task[p].row, [task[p].row EXCEPT !.active = TRUE, !.known = @ \/ k])
           /\ unsure' = (unsure \/ (task[p].founder /\ ~k))
        BY <1>13, <2>1 DEF Activate
  <2>3. PICK row : row = [task[p].row EXCEPT !.active = TRUE, !.known = @ \/ k]
        OBVIOUS
  <2>4. row.role = task[p].row.role /\ (row.known <=> (task[p].row.known \/ k))
        BY <1>13, <2>3, TaskShapes DEF Activate, SwarmNode
  <2>5. /\ task' = [task EXCEPT ![p] = Idle] /\ At(p, "activate") /\ Idle.kind = "none"
        /\ UNCHANGED <<cluster, machine, member, stored, overwritten>>
        /\ SaveNode(n, task[p].row, row)
        BY <1>13, <2>2, <2>3 DEF Activate, Done, Become, Idle, outside
  <2>6. /\ DOMAIN rows' = DOMAIN rows \cup {n} /\ rows'[n] = row
        /\ \A m \in DOMAIN rows : m # n => rows'[m] = rows[m]
        /\ crossed \subseteq crossed'
        /\ n \in crossed' \/ (n \in DOMAIN rows /\ rows[n] = task[p].row)
        BY <2>5, RowPut DEF SaveNode
  <2>7. TokensOK'
    <3>1. /\ stored \subseteq stored' /\ cluster'.tokens \in stored' \cup {NoNode}
          /\ (cluster'.exists /\ ~overwritten' /\ stored' # {} => cluster'.tokens \in stored')
          BY <2>5 DEF Agreed, TokensOK
    <3>. QED BY <2>5, <3>1, MoveKeepsTokens DEF Agreed
  <2>8. MembersOK'
    <3>1. ~At(p, "delete") /\ UNCHANGED <<member, stored>> /\ MembersOK
          BY <2>5 DEF At, Agreed
    <3>. QED BY <2>1, <2>5, <3>1, SaveKeepsMembers
  <2>9. FoundingOK'
    <3>1. /\ Grows /\ stored' = stored
          /\ \A m \in stored' : machine'[m] # "free"
          BY <1>2, <2>2, <2>5, <2>6 DEF Grows
    <3>2. \A m \in stored : OnRecord(m) => OnRecord(m)' \/ m \in crossed'
          BY <2>4, <2>6 DEF OnRecord
    <3>3. ~Founding(p)'
          BY <2>5 DEF Founding, At, TypeOK
    <3>4. ASSUME Sure', Founding(p), NEW m \in stored
          PROVE  OnRecord(m)'
      <4>1. Sure /\ ~unsure'
            BY <3>1, <3>4 DEF Sure, Grows
      <4>2. task[p].founder /\ n \in stored
            BY <2>1, <2>5, <3>4 DEF Founding, At, Agreed, TokensOK
      <4>3. m = n
            BY <4>1, <4>2 DEF Agreed, FoundingOK
      <4>4. row.known
            BY <2>2, <2>4, <4>1, <4>2
      <4>5. row.role = "manager"
            BY <2>4, <3>4 DEF Agreed, FoundingOK
      <4>. QED BY <2>6, <4>3, <4>4, <4>5 DEF OnRecord
    <3>. QED BY <2>5, <3>1, <3>2, <3>3, <3>4, MoveKeepsFounding DEF Agreed
  <2>. QED BY <2>7, <2>8, <2>9 DEF Agreed
<1>14. ASSUME NEW p \in Procs, NEW n \in Nodes, BeginOrder(p, n)
       PROVE  Agreed'
  <2>1. PICK role \in {"manager", "worker"} : Become(p, [kind |-> "order", node |-> n, role |-> role])
        BY <1>14 DEF BeginOrder
  <2>2. PICK t : t = [kind |-> "order", node |-> n, role |-> role]
        OBVIOUS
  <2>3. t.kind = "order"
        BY <2>2
  <2>4. task' = [task EXCEPT ![p] = t] /\ ~Founding(p) /\ ~At(p, "delete")
        BY <1>14, <2>1, <2>2 DEF BeginOrder, Become, IsIdle, Founding, At
  <2>. QED BY <1>3, <1>14, <2>3, <2>4 DEF BeginOrder, outside, history
<1>15. ASSUME NEW p \in Procs, CreateServer(p)
       PROVE  Agreed'
  <2>1. PICK n \in Nodes : n = task[p].node
        BY <1>15, TaskShapes DEF CreateServer
  <2>2. PICK t : task' = [task EXCEPT ![p] = t] /\ t \in {[task[p] EXCEPT !.kind = "boot"], Idle}
        BY <1>15 DEF CreateServer, Done, Become
  <2>3. t.kind \in {"none", "boot"}
        BY <1>15, <2>2, TaskShapes DEF CreateServer, Idle
  <2>4. /\ UNCHANGED <<cluster, rows, member, stored, overwritten, crossed, unsure>>
        /\ machine' = [machine EXCEPT ![n] = "rented"] /\ ~Founding(p) /\ ~At(p, "delete")
        BY <1>15, <2>1 DEF CreateServer, Founding, At
  <2>5. \A m \in stored : machine'[m] # "free"
        BY <1>2, <2>4 DEF TypeOK
  <2>. QED BY <2>2, <2>3, <2>4, <2>5, QuietKeepsCluster
<1>16. ASSUME NEW p \in Procs, CreateOrderedNode(p)
       PROVE  Agreed'
  <2>1. PICK n \in Nodes : n = task[p].node
        BY <1>16, TaskShapes DEF CreateOrderedNode
  <2>2. PICK row : row = NewSwarmNode(task[p].role, TRUE)
        OBVIOUS
  <2>. DEFINE next == IF cluster.exists THEN Provisioning(n, row, TRUE) ELSE Idle
  <2>3. PICK t : t = next
        OBVIOUS
  <2>4. /\ task' = [task EXCEPT ![p] = t] /\ rows' = Put(rows, n, row) /\ task[p].kind = "boot"
        /\ UNCHANGED <<cluster, machine, member, stored, crossed, overwritten, unsure>>
        BY <1>16, <2>1, <2>2, <2>3 DEF CreateOrderedNode, Become, At, outside, history
  <2>5. t.kind \in {"none", "provision"} /\ ~row.active
        BY <2>2, <2>3 DEF Provisioning, Idle, NewSwarmNode
  <2>6. /\ n \notin DOMAIN rows
        /\ \A q \in Procs : task[q].kind \in {"store", "activate"} => task[q].node # n
        BY <2>1, <2>4 DEF ServersOK, BootsOK, OfANode, At
  <2>7. /\ \A m \in DOMAIN rows' : rows'[m].active => m \in DOMAIN rows /\ rows[m].active
        /\ \A m \in DOMAIN rows' \ DOMAIN rows :
              \A q \in Procs : task[q].kind \in {"store", "activate"} => task[q].node # m
        /\ DOMAIN rows' \subseteq Nodes
        /\ \A m : OnRecord(m) => m \in DOMAIN rows' /\ rows'[m] = rows[m]
        BY <2>4, <2>5, <2>6, NewRowKeeps
  <2>8. TokensOK'
    <3>1. /\ stored \subseteq stored' /\ cluster'.tokens \in stored' \cup {NoNode}
          /\ (cluster'.exists /\ ~overwritten' /\ stored' # {} => cluster'.tokens \in stored')
          BY <2>4 DEF Agreed, TokensOK
    <3>. QED BY <2>4, <2>5, <3>1, MoveKeepsTokens DEF Agreed
  <2>9. MembersOK'
    <3>1. ~At(p, "delete") /\ UNCHANGED member /\ stored \subseteq stored' /\ crossed \subseteq crossed'
          BY <2>4 DEF At
    <3>. QED BY <2>4, <2>5, <2>7, <3>1, MoveKeepsMembers DEF Agreed
  <2>10. FoundingOK'
    <3>1. /\ Grows /\ stored' = stored /\ \A m \in stored' : machine'[m] # "free"
          /\ \A m \in stored : OnRecord(m) => OnRecord(m)'
          BY <1>2, <2>4, <2>7 DEF Grows, OnRecord
    <3>2. ~Founding(p) /\ ~Founding(p)'
          BY <2>4, <2>5 DEF Founding, At, TypeOK
    <3>. QED BY <2>4, <2>5, <3>1, <3>2, MoveKeepsFounding DEF Agreed
  <2>. QED BY <2>8, <2>9, <2>10 DEF Agreed
<1>17. ASSUME NEW p \in Procs, Enlist(p)
       PROVE  Agreed'
  <2>1. PICK n : n = task[p].node
        OBVIOUS
  <2>2. /\ n \in DOMAIN rows /\ task[p].kind = "enlist" /\ cluster.exists
        /\ UNCHANGED <<cluster, rows, machine, member, stored, crossed, overwritten>>
        BY <1>17, <2>1 DEF Enlist, At, outside
  <2>3. CASE NeedsInit(n) /\ StartInit(p, n)
    <3>1. rows[n].role = "manager" /\ cluster.tokens = NoNode
          BY <2>3 DEF NeedsInit
    <3>2. Sure' => stored = {}
          BY <1>1, <2>2, <3>1 DEF Sure, Agreed, TokensOK
    <3>. QED BY <2>2, <2>3, <3>1, <3>2, StartInitKeeps
  <2>4. CASE CanJoin(n) /\ StartJoin(p, n) /\ UNCHANGED unsure
        BY <1>10, <2>2, <2>4
  <2>. QED BY <1>17, <2>1, <2>3, <2>4 DEF Enlist
<1>18. ASSUME NEW p \in Procs, NEW n \in Nodes, BeginRemove(p, n)
       PROVE  Agreed'
  <2>1. PICK t : t = [kind |-> "leave", node |-> n, row |-> rows[n]]
        OBVIOUS
  <2>2. t.kind = "leave"
        BY <2>1
  <2>3. task' = [task EXCEPT ![p] = t] /\ ~Founding(p) /\ ~At(p, "delete")
        BY <1>18, <2>1 DEF BeginRemove, Become, IsIdle, Founding, At
  <2>. QED BY <1>3, <1>18, <2>2, <2>3 DEF BeginRemove, outside, history
<1>19. ASSUME NEW p \in Procs, SwarmLeave(p)
       PROVE  Agreed'
  <2>1. PICK t : t = [task[p] EXCEPT !.kind = "delete"]
        OBVIOUS
  <2>2. PICK n \in Nodes : n = task[p].node
        BY <1>19, TaskShapes DEF SwarmLeave
  <2>3. t.kind = "delete" /\ t.node = n
        BY <1>19, <2>1, <2>2, TaskShapes DEF SwarmLeave
  <2>4. /\ task' = [task EXCEPT ![p] = t] /\ task[p].kind = "leave"
        /\ UNCHANGED <<cluster, rows, machine, stored, crossed, overwritten, unsure>>
        /\ \A m \in Nodes : m # n => member'[m] = member[m]
        BY <1>19, <2>1, <2>2 DEF SwarmLeave, Become, At, history, TypeOK
  <2>5. TokensOK'
    <3>1. /\ stored \subseteq stored' /\ cluster'.tokens \in stored' \cup {NoNode}
          /\ (cluster'.exists /\ ~overwritten' /\ stored' # {} => cluster'.tokens \in stored')
          BY <2>4 DEF Agreed, TokensOK
    <3>. QED BY <2>3, <2>4, <3>1, MoveKeepsTokens DEF Agreed
  <2>6. MembersOK'
    <3>1. /\ \A m \in Nodes : member'[m] = member[m] \/ (t.kind = "delete" /\ t.node = m)
          /\ DOMAIN rows' \subseteq Nodes /\ UNCHANGED rows
          /\ stored \subseteq stored' /\ crossed \subseteq crossed' /\ ~At(p, "delete")
          BY <2>3, <2>4 DEF TypeOK, At
    <3>. QED BY <2>3, <2>4, <3>1, MoveKeepsMembers DEF Agreed
  <2>7. FoundingOK'
    <3>1. /\ Grows /\ stored' = stored /\ \A m \in stored : OnRecord(m) => OnRecord(m)'
          /\ \A m \in stored' : machine'[m] # "free"
          BY <1>2, <2>4 DEF Grows, OnRecord
    <3>2. ~Founding(p) /\ ~Founding(p)'
          BY <2>3, <2>4 DEF Founding, At, TypeOK
    <3>. QED BY <2>3, <2>4, <3>1, <3>2, MoveKeepsFounding DEF Agreed
  <2>. QED BY <2>5, <2>6, <2>7 DEF Agreed
<1>20. ASSUME NEW p \in Procs, DeleteNode(p)
       PROVE  Agreed'
  <2>1. PICK n : n = task[p].node
        OBVIOUS
  <2>. DEFINE next == IF task[p].row.server THEN [kind |-> "return", node |-> n] ELSE Idle
  <2>2. PICK t : t = next
        OBVIOUS
  <2>3. t.kind \in {"none", "return"}
        BY <2>2 DEF Idle
  <2>4. /\ task' = [task EXCEPT ![p] = t] /\ task[p].kind = "delete"
        /\ UNCHANGED <<cluster, machine, member, stored, crossed, overwritten>>
        /\ rows' = Drop(rows, n) /\ unsure' = (unsure \/ n \in stored)
        BY <1>20, <2>1, <2>2 DEF DeleteNode, Become, At, outside
  <2>5. /\ DOMAIN rows' = DOMAIN rows \ {n}
        /\ \A m \in DOMAIN rows' : rows'[m] = rows[m]
        BY <2>4 DEF Drop
  <2>6. TokensOK'
    <3>1. /\ stored \subseteq stored' /\ cluster'.tokens \in stored' \cup {NoNode}
          /\ (cluster'.exists /\ ~overwritten' /\ stored' # {} => cluster'.tokens \in stored')
          BY <2>4 DEF Agreed, TokensOK
    <3>. QED BY <2>3, <2>4, <3>1, MoveKeepsTokens DEF Agreed
  <2>7. MembersOK'
    <3>1. /\ UNCHANGED member /\ stored \subseteq stored' /\ crossed \subseteq crossed'
          /\ task[p].node \notin DOMAIN rows'
          /\ \A m \in DOMAIN rows' : rows'[m].active => m \in DOMAIN rows /\ rows[m].active
          /\ DOMAIN rows' \ DOMAIN rows = {} /\ DOMAIN rows' \subseteq Nodes
          BY <2>1, <2>4, <2>5 DEF TypeOK
    <3>. QED BY <2>3, <2>4, <3>1, MoveKeepsMembers DEF Agreed
  <2>8. FoundingOK'
    <3>1. /\ Grows /\ stored' = stored /\ \A m \in stored' : machine'[m] # "free"
          BY <1>2, <2>4 DEF Grows
    <3>2. \A m \in stored : OnRecord(m) => OnRecord(m)' \/ unsure'
          BY <2>4, <2>5 DEF OnRecord
    <3>3. ~Founding(p) /\ ~Founding(p)'
          BY <2>3, <2>4 DEF Founding, At, TypeOK
    <3>. QED BY <2>3, <2>4, <3>1, <3>2, <3>3, MoveKeepsFounding DEF Agreed
  <2>. QED BY <2>6, <2>7, <2>8 DEF Agreed
<1>21. ASSUME NEW p \in Procs, DeleteServer(p)
       PROVE  Agreed'
  <2>1. PICK n \in Nodes : n = task[p].node
        BY <1>21, TaskShapes DEF DeleteServer
  <2>2. /\ task' = [task EXCEPT ![p] = Idle] /\ Idle.kind = "none" /\ task[p].kind = "return"
        /\ UNCHANGED <<cluster, rows, stored, crossed, overwritten, unsure>>
        BY <1>21 DEF DeleteServer, Done, Become, Idle, At
  <2>3. CASE UNCHANGED outside
        BY <1>3, <2>2, <2>3 DEF outside, Founding, At
  <2>4. CASE machine' = [machine EXCEPT ![n] = "returned"] /\ member' = [member EXCEPT ![n] = NoNode]
    <3>1. n \in DOMAIN rows => n \in crossed
          BY <2>1, <2>2 DEF ServersOK, GoneOK, Busy
    <3>2. TokensOK'
      <4>1. /\ stored \subseteq stored' /\ cluster'.tokens \in stored' \cup {NoNode}
            /\ (cluster'.exists /\ ~overwritten' /\ stored' # {} => cluster'.tokens \in stored')
            BY <2>2 DEF Agreed, TokensOK
      <4>. QED BY <2>2, <4>1, MoveKeepsTokens DEF Agreed
    <3>3. MembersOK'
      <4>1. \A m \in Nodes : member'[m] = member[m] \/ m \notin DOMAIN rows' \/ m \in crossed'
            BY <2>2, <2>4, <3>1 DEF TypeOK
      <4>2. /\ DOMAIN rows' \subseteq Nodes /\ UNCHANGED rows
            /\ stored \subseteq stored' /\ crossed \subseteq crossed' /\ ~At(p, "delete")
            BY <2>2 DEF TypeOK, At
      <4>. QED BY <2>2, <4>1, <4>2, MoveKeepsMembers DEF Agreed
    <3>4. FoundingOK'
      <4>1. /\ Grows /\ stored' = stored /\ \A m \in stored : OnRecord(m) => OnRecord(m)'
            BY <2>2 DEF Grows, OnRecord
      <4>2. \A m \in stored' : machine'[m] # "free"
            BY <1>2, <2>2, <2>4 DEF TypeOK
      <4>3. ~Founding(p) /\ ~Founding(p)'
            BY <2>2 DEF Founding, At, TypeOK
      <4>. QED BY <2>2, <4>1, <4>2, <4>3, MoveKeepsFounding DEF Agreed
    <3>. QED BY <3>2, <3>3, <3>4 DEF Agreed
  <2>. QED BY <1>21, <2>1, <2>3, <2>4 DEF DeleteServer
<1>22. ASSUME NEW p \in Procs, BeginConfig(p)
       PROVE  Agreed'
  <2>1. PICK t : t = [kind |-> "config", cluster |-> cluster]
        OBVIOUS
  <2>2. t.kind = "config" /\ t.cluster = cluster
        BY <2>1
  <2>3. task' = [task EXCEPT ![p] = t] /\ ~Founding(p) /\ ~At(p, "delete")
        BY <1>22, <2>1 DEF BeginConfig, Become, IsIdle, Founding, At
  <2>. QED BY <1>3, <1>22, <2>2, <2>3 DEF BeginConfig, outside, history
\* The cluster is written, or removed.
<1>23. ASSUME UNCHANGED <<rows, machine, member, stored, crossed, unsure>>,
              overwritten => overwritten',
              task' = task \/ \E p \in Procs : At(p, "config") /\ task' = [task EXCEPT ![p] = Idle],
              cluster'.tokens \in stored \cup {NoNode},
              cluster'.exists /\ ~overwritten' /\ stored # {} => cluster'.tokens \in stored
       PROVE  Agreed'
  <2>1. \A q \in Procs : task'[q] = task[q] \/ (At(q, "config") /\ task'[q].kind = "none")
        BY <1>23 DEF TypeOK, Idle
  <2>2. TokensOK'
        BY <1>23, <2>1 DEF Agreed, TokensOK, At
  <2>3. \A n : InSwarm(n) => InSwarm(n)'
        BY <1>23, <2>1 DEF InSwarm, Busy, At
  <2>4. MembersOK'
        BY <1>23, <2>1, <2>3 DEF Agreed, MembersOK, At
  <2>5. /\ Sure' => Sure
        /\ \A q \in Procs : Founding(q)' <=> Founding(q)
        /\ \A q \in Procs : Founding(q) => task'[q] = task[q]
        /\ \A n : OnRecord(n)' <=> OnRecord(n)
        BY <1>23, <2>1 DEF Sure, Founding, At, OnRecord
  <2>6. FoundingOK'
        BY <1>23, <2>1, <2>5 DEF Agreed, FoundingOK, At
  <2>. QED BY <2>2, <2>4, <2>6 DEF Agreed
<1>24. ASSUME NEW p \in Procs, UpdateClusterHetznerConfig(p)
       PROVE  Agreed'
  <2>. DEFINE old == task[p].cluster
  <2>1. PICK h \in BOOLEAN : SaveCluster(old, [old EXCEPT !.hetzner = h])
        BY <1>24 DEF UpdateClusterHetznerConfig
  <2>2. old \in Cluster /\ old.tokens \in stored \cup {NoNode}
        BY <1>24, TaskShapes DEF UpdateClusterHetznerConfig, Agreed, TokensOK, At
  <2>3. [old EXCEPT !.hetzner = h].tokens = old.tokens
        BY <2>2 DEF Cluster
  <2>4. /\ cluster'.tokens = old.tokens
        /\ overwritten' = (overwritten \/ ~cluster.exists \/ cluster.tokens # old.tokens)
        BY <2>1, <2>3 DEF SaveCluster
  <2>5. /\ UNCHANGED <<rows, machine, member, stored, crossed, unsure>>
        /\ At(p, "config") /\ task' = [task EXCEPT ![p] = Idle]
        BY <1>24 DEF UpdateClusterHetznerConfig, Done, Become, outside
  <2>6. cluster'.exists /\ ~overwritten' /\ stored # {} => cluster'.tokens \in stored
        BY <2>4 DEF Agreed, TokensOK
  <2>. QED BY <1>23, <2>2, <2>4, <2>5, <2>6
<1>25. ASSUME DeleteSwarmCluster
       PROVE  Agreed'
  <2>1. ~cluster'.exists /\ cluster'.tokens = NoNode
        BY <1>25 DEF DeleteSwarmCluster
  <2>. QED BY <1>23, <1>25, <2>1 DEF DeleteSwarmCluster, outside, history
<1>26. ASSUME NEW p \in Procs, Fail(p)
       PROVE  Agreed'
  <2>1. /\ task' = [task EXCEPT ![p] = Idle] /\ Idle.kind = "none"
        /\ UNCHANGED <<cluster, rows, machine, member, stored, overwritten>>
        /\ crossed \subseteq crossed' /\ (unsure => unsure')
        BY <1>26 DEF Fail, Done, Become, Idle, outside
  <2>2. At(p, "delete") => task[p].node \in crossed'
        BY <1>26 DEF Fail, At
  <2>3. ASSUME Sure', Founding(p)
        PROVE  stored = {}
    <3>1. Sure
          BY <2>1, <2>3 DEF Sure
    <3>2. ASSUME At(p, "activate"), task[p].founder
          PROVE  FALSE
      <4>1. task[p].node \in stored
            BY <3>2 DEF Agreed, TokensOK
      <4>2. unsure'
            BY <1>26, <3>2, <4>1 DEF Fail, At
      <4>. QED BY <2>3, <4>2 DEF Sure
    <3>. QED BY <2>3, <3>1, <3>2 DEF Founding, Agreed, FoundingOK
  <2>4. \A n \in stored : machine'[n] # "free"
        BY <1>2, <2>1
  <2>. QED BY <2>1, <2>2, <2>3, <2>4, QuietKeepsCluster
<1>27. CASE UNCHANGED vars
       BY <1>23, <1>27 DEF vars, Agreed, TokensOK
<1>. QED
  BY <1>4, <1>5, <1>6, <1>7, <1>8, <1>9, <1>11, <1>12, <1>13, <1>14, <1>15, <1>16, <1>17, <1>18,
     <1>19, <1>20, <1>21, <1>22, <1>24, <1>25, <1>26, <1>27 DEF Next

-----------------------------------------------------------------------------
(* What a cluster keeps *)

StoredFinite == IsFiniteSet(stored)

IInv == TypeOK /\ ServersOK /\ Agreed /\ StoredFinite

LEMMA InitEstablishes == Init => IInv
<1>. SUFFICES ASSUME Init PROVE IInv
     OBVIOUS
<1>. USE NodesAssumption, BoundAssumption
<1>1. /\ cluster \in Cluster /\ cluster.tokens = NoNode /\ DOMAIN rows = {}
      /\ machine = [n \in Nodes |-> "free"] /\ member = [n \in Nodes |-> NoNode]
      /\ task = [p \in Procs |-> Idle] /\ \A p \in Procs : task[p].kind = "none"
      /\ stored = {} /\ crossed = {} /\ stranded = {}
      /\ overwritten = FALSE /\ unsure = FALSE /\ events = 0
      BY DEF Init, Cluster, Idle
<1>2. Idle \in Task
      BY DEF Task
<1>3. TypeOK
  <2>1. /\ machine \in [Nodes -> {"free", "own", "rented", "returned"}]
        /\ member \in [Nodes -> Nodes \cup {NoNode}]
        /\ task \in [Procs -> Task]
        BY <1>1, <1>2
  <2>2. /\ DOMAIN rows \subseteq Nodes /\ \A n \in DOMAIN rows : rows[n] \in SwarmNode
        BY <1>1
  <2>3. {stored, crossed, stranded} \subseteq SUBSET Nodes
        BY <1>1
  <2>4. {overwritten, unsure} \subseteq BOOLEAN
        BY <1>1
  <2>5. events \in 0..MaxEvents
        BY <1>1
  <2>. QED BY <1>1, <2>1, <2>2, <2>3, <2>4, <2>5 DEF TypeOK
<1>4. ServersOK
      BY <1>1 DEF ServersOK, OrdersOK, BootsOK, RowsOK, TasksOK, GoneOK, RentedOK, At, OfANode, WithRow
<1>5. Agreed
      BY <1>1 DEF Agreed, TokensOK, MembersOK, FoundingOK, Founding, At
<1>6. StoredFinite
      BY <1>1, FS_EmptySet DEF StoredFinite
<1>. QED BY <1>3, <1>4, <1>5, <1>6 DEF IInv

LEMMA StoredStep ==
    ASSUME StoredFinite, [Next]_vars
    PROVE  StoredFinite'
<1>1. ASSUME NEW p \in Procs, StoreTokens(p)
      PROVE  StoredFinite'
  <2>1. stored' = stored \cup {task[p].node}
        BY <1>1 DEF StoreTokens
  <2>. QED BY <2>1, FS_AddElement DEF StoredFinite
<1>2. CASE \A p \in Procs : ~StoreTokens(p)
  <2>1. CASE \E n \in Nodes : CreateSwarmNode(n)
        BY <2>1 DEF CreateSwarmNode, history, StoredFinite
  <2>2. CASE \E p \in Procs, n \in Nodes :
                BeginProvision(p, n) \/ BeginJoin(p, n) \/ BeginOrder(p, n) \/ BeginRemove(p, n)
        BY <2>2 DEF BeginProvision, BeginJoin, BeginOrder, BeginRemove, history, StoredFinite
  <2>3. ASSUME NEW p \in Procs,
               \/ ProvisionSwarmNode(p) \/ BeginInit(p) \/ SwarmInit(p) \/ SwarmJoin(p)
               \/ Activate(p) \/ CreateServer(p) \/ CreateOrderedNode(p) \/ Enlist(p)
        PROVE  UNCHANGED stored
        BY <2>3 DEF ProvisionSwarmNode, BeginInit, SwarmInit, SwarmJoin, Activate, CreateServer,
                    CreateOrderedNode, Enlist, history
  <2>4. ASSUME NEW p \in Procs,
               \/ SwarmLeave(p) \/ DeleteNode(p) \/ DeleteServer(p) \/ BeginConfig(p)
               \/ UpdateClusterHetznerConfig(p) \/ Fail(p)
        PROVE  UNCHANGED stored
        BY <2>4 DEF SwarmLeave, DeleteNode, DeleteServer, BeginConfig, UpdateClusterHetznerConfig,
                    Fail, history
  <2>5. CASE DeleteSwarmCluster \/ UNCHANGED vars
        BY <2>5 DEF DeleteSwarmCluster, history, vars, StoredFinite
  <2>. QED BY <1>2, <2>1, <2>2, <2>3, <2>4, <2>5 DEF Next, StoredFinite
<1>. QED BY <1>1, <1>2

LEMMA Inductive == Spec => []IInv
<1>1. ASSUME IInv, [Next]_vars
      PROVE  IInv'
      BY <1>1, TypeStep, ServersStep, ClusterStep, StoredStep DEF IInv
<1>. QED BY <1>1, InitEstablishes, PTL DEF Spec

\* A finite set with one element at most.
LEMMA AtMostOne ==
    ASSUME NEW S
    PROVE  /\ IsFiniteSet(S) /\ Cardinality(S) <= 1 => \A i, j \in S : i = j
           /\ (\A i, j \in S : i = j) => Cardinality(S) <= 1
<1>1. ASSUME IsFiniteSet(S), Cardinality(S) <= 1, NEW i \in S, NEW j \in S, i # j
      PROVE  FALSE
  <2>1. Cardinality({i, j}) <= Cardinality(S)
        BY <1>1, FS_Subset
  <2>2. Cardinality({i, j}) = 2
    <3>1. IsFiniteSet({i}) /\ Cardinality({i}) = 1 /\ j \notin {i}
          BY <1>1, FS_Singleton
    <3>2. {i} \cup {j} = {i, j}
          OBVIOUS
    <3>. QED BY <3>1, <3>2, FS_AddElement
  <2>3. Cardinality(S) \in Nat
        BY <1>1, FS_CardinalityType
  <2>. QED BY <1>1, <2>1, <2>2, <2>3
<1>2. ASSUME \A i, j \in S : i = j
      PROVE  Cardinality(S) <= 1
  <2>1. CASE S = {}
        BY <2>1, FS_EmptySet
  <2>2. CASE \E x \in S : S = {x}
        BY <2>2, FS_Singleton
  <2>. QED BY <1>2, <2>1, <2>2
<1>. QED BY <1>1, <1>2

\* Every request, row and machine has its type.
THEOREM TypeCorrect == Spec => []TypeOK
<1>1. IInv => TypeOK
      BY DEF IInv
<1>. QED BY <1>1, Inductive, PTL

\* A node recorded as active is in the swarm whose tokens the cluster holds
\* (swarm_node_commands.go:387, 491).
THEOREM ActiveAreMembers == Spec => []ActiveInSwarm
<1>1. ASSUME IInv
      PROVE  ActiveInSwarm
  <2>1. SUFFICES ASSUME cluster.exists, ~overwritten, Cardinality(stored) <= 1,
                        NEW n \in DOMAIN rows \ crossed, rows[n].active, ~Busy({"leave", "delete"}, n)
                 PROVE  member[n] = cluster.tokens
        BY DEF ActiveInSwarm
  <2>2. member[n] \in stored
        BY <1>1, <2>1 DEF IInv, Agreed, MembersOK, InSwarm, Busy
  <2>3. cluster.tokens \in stored
        BY <1>1, <2>1, <2>2 DEF IInv, Agreed, TokensOK
  <2>4. \A i, j \in stored : i = j
        BY <1>1, <2>1, AtMostOne DEF IInv, StoredFinite
  <2>. QED BY <2>2, <2>3, <2>4
<1>. QED BY <1>1, Inductive, PTL

\* A cluster is initialised once (hetzner_commands.go:266).
THEOREM FoundedByOne == Spec => []FoundedOnce
<1>1. ASSUME IInv
      PROVE  FoundedOnce
  <2>1. SUFFICES ASSUME Sure
                 PROVE  Cardinality(stored) <= 1
        BY DEF FoundedOnce, Sure
  <2>2. \A i, j \in stored : i = j
        BY <1>1, <2>1 DEF IInv, Agreed, FoundingOK
  <2>. QED BY <2>2, AtMostOne
<1>. QED BY <1>1, Inductive, PTL

\* A server is rented as long as its row is there (hetzner_commands.go:220,
\* swarm_node_commands.go:519).
THEOREM RentedAsListed == Spec => []ServerIffRow
<1>1. ASSUME IInv
      PROVE  ServerIffRow
      BY <1>1 DEF IInv, ServersOK, GoneOK, RentedOK, ServerIffRow, Busy
<1>. QED BY <1>1, Inductive, PTL

-----------------------------------------------------------------------------
(* Docker: what every copy in a request's hand has in common with the tables *)

Acts(q) == ~IsFree(q)
Mine(q) == Project(work[q].row)

\* Ids are given out once.
GivenOut == \A q \in Requests : Acts(q) => work[q].id \notin fresh

\* Nothing moves to another node, and the nodes of services are those of the
\* foreign key.
NodesAgree ==
    /\ \A q \in Requests : Acts(q) /\ work[q].id \in DOMAIN listed =>
          work[q].row.node = listed[work[q].id].node
    /\ \A q, r \in Requests : Acts(q) /\ Acts(r) /\ work[q].id = work[r].id =>
          work[q].row.node = work[r].row.node
    /\ \A i \in DOMAIN listed \cap Services : listed[i].node \in nodes \cap DockerNodes
    /\ \A q \in Requests : Of(q, Services) => work[q].row.node \in DockerNodes
    /\ \A q \in Requests : work[q].op = "edit" => work[q].id \in Apps /\ work[q].at = "read"

\* What runs as the row r of id says.
Runs(i, r) ==
    /\ Project(r) \in DOMAIN host
    /\ host[Project(r)].up
    /\ i \notin Apps => host[Project(r)].specs = {r.spec}

\* What holds for one whom nothing has overtaken.
UpToDate(q) ==
    /\ work[q].id \in DOMAIN listed
    /\ work[q].op = "edit" => listed[work[q].id].status = work[q].row.status
    /\ work[q].op # "edit" => Project(listed[work[q].id]) = Mine(q)
    /\ work[q].at \in {"placed", "cleared"} => Mine(q) \notin DOMAIN host
    /\ work[q].at = "gone" => Mine(q) \notin DOMAIN host \/ Unnamed(Mine(q))
    /\ work[q].at = "written" => Mine(q) \in DOMAIN files /\ files[Mine(q)] = work[q].row.spec
    /\ work[q].at \in {"up", "started"} => Runs(work[q].id, work[q].row)

HandsOK == \A q \in Requests : Acts(q) /\ ~work[q].stale => UpToDate(q)

\* Nobody has worked on the containers of row i and not saved yet.
Untouched(i) == \A q \in Requests : Of(q, {i}) => work[q].at \notin Touched

RunningOK ==
    \A i \in DOMAIN listed \ adrift :
       listed[i].status = "running" /\ Untouched(i) => Runs(i, listed[i])

FoundOK ==
    \A prj \in DOMAIN host \ left :
       \/ On(prj) # {}
       \/ Unnamed(prj)
       \/ \E q \in Requests : Acts(q) /\ work[q].stale /\ Mine(q) = prj

HostInv == GivenOut /\ NodesAgree /\ HandsOK /\ RunningOK /\ FoundOK

-----------------------------------------------------------------------------
(* Types *)

AtWork == [op : {"deploy", "update", "redeploy", "start", "stop", "remove", "build", "edit"},
           id : Ids, row : Row, stale : BOOLEAN,
           at : Touched \cup {"read", "saved", "written", "placed", "building", "pushing"}]

LEMMA WorkShape ==
    ASSUME DockerTypeOK, NEW p \in Requests
    PROVE  /\ work[p] \in Tasks
           /\ Acts(p) <=> work[p] \in AtWork
           /\ ~Acts(p) => work[p] = Free
<1>1. work[p] \in Tasks
      BY DEF DockerTypeOK
<1>2. Tasks = [op : {"none"}] \cup AtWork
      BY DEF Tasks, AtWork
<1>. QED BY <1>1, <1>2 DEF Acts, IsFree, AtWork, Free

LEMMA FreeIsTask == Free \in Tasks
BY DEF Free, Tasks

LEMMA AtWorkIsTask == AtWork \subseteq Tasks
BY DEF AtWork, Tasks

-----------------------------------------------------------------------------
(* What a step of one leaves of the others *)

\* q goes on with the same copy, overtaken or not.
Goes(q) ==
    /\ work'[q].op = work[q].op
    /\ Acts(q) => /\ work'[q].id = work[q].id
                  /\ work'[q].row = work[q].row
                  /\ work'[q].at = work[q].at
                  /\ work[q].stale => work'[q].stale
    /\ work'[q].op = "none" => work'[q] = work[q]
    /\ work'[q] \in Tasks

LEMMA EnterGoes ==
    ASSUME DockerTypeOK, NEW p \in Requests, NEW t, t \in Tasks, Enter(p, t)
    PROVE  /\ work' \in [Requests -> Tasks]
           /\ work'[p] = t
           /\ \A q \in Requests \ {p} : Goes(q) /\ work'[q] = work[q]
<1>1. work \in [Requests -> Tasks]
      BY DEF DockerTypeOK
<1>. QED BY <1>1 DEF Enter, Goes

LEMMA PrecedeGoes ==
    ASSUME DockerTypeOK, NEW p \in Requests, NEW t, t \in Tasks, NEW i, NEW prj,
           Precede(p, i, prj, t)
    PROVE  /\ work' \in [Requests -> Tasks]
           /\ work'[p] = t
           /\ \A q \in Requests \ {p} : Goes(q)
           /\ \A q \in Requests \ {p} : Concerns(q, i, prj) => work'[q].stale
           /\ \A q \in Requests \ {p} : ~Concerns(q, i, prj) => work'[q] = work[q]
<1>1. ASSUME NEW q \in Requests \ {p}
      PROVE  /\ Goes(q)
             /\ Concerns(q, i, prj) => work'[q].stale
             /\ ~Concerns(q, i, prj) => work'[q] = work[q]
  <2>1. work'[q] = IF Concerns(q, i, prj) THEN [work[q] EXCEPT !.stale = TRUE] ELSE work[q]
        BY <1>1 DEF Precede
  <2>2. CASE Concerns(q, i, prj)
    <3>1. work[q] \in AtWork
          BY <2>2, WorkShape DEF Concerns, Acts
    <3>2. /\ work'[q] \in AtWork /\ work'[q].stale
          /\ work'[q].op = work[q].op /\ work'[q].id = work[q].id
          /\ work'[q].row = work[q].row /\ work'[q].at = work[q].at
          BY <2>1, <2>2, <3>1 DEF AtWork
    <3>. QED BY <2>2, <3>2, <3>1, AtWorkIsTask DEF Goes, AtWork
  <2>3. CASE ~Concerns(q, i, prj)
        BY <2>1, <2>3, WorkShape DEF Goes
  <2>. QED BY <2>2, <2>3
<1>2. work'[p] = t
      BY DEF Precede
<1>3. work' \in [Requests -> Tasks]
  <2>1. \A q \in Requests : work'[q] \in Tasks
        BY <1>1, <1>2 DEF Goes
  <2>2. work' = [q \in Requests |-> work'[q]]
        BY DEF Precede
  <2>. QED BY <2>1, <2>2
<1>. QED BY <1>1, <1>2, <1>3

-----------------------------------------------------------------------------
(* What the invariant needs of a step of p *)

SameRow(i) == i \in DOMAIN listed => i \in DOMAIN listed' /\ listed'[i] = listed[i]

SameHost(prj) ==
    /\ prj \in DOMAIN host' <=> prj \in DOMAIN host
    /\ prj \in DOMAIN host => host'[prj] = host[prj]
    /\ prj \in DOMAIN files' <=> prj \in DOMAIN files
    /\ prj \in DOMAIN files => files'[prj] = files[prj]

LEMMA UnnamedOn ==
    ASSUME NEW prj, SameHost(prj), prj \in DOMAIN host
    PROVE  Unnamed(prj)' <=> Unnamed(prj)
BY DEF Unnamed, SameHost

LEMMA RunsOn ==
    ASSUME NEW i, NEW r, SameHost(Project(r)), Runs(i, r)
    PROVE  Runs(i, r)'
BY DEF Runs, SameHost, Project

LEMMA GivenKept ==
    ASSUME GivenOut, NEW p \in Requests, \A q \in Requests \ {p} : Goes(q),
           fresh' \subseteq fresh, Acts(p)' => work'[p].id \notin fresh'
    PROVE  GivenOut'
BY DEF GivenOut, Goes, Acts, IsFree

LEMMA UpToDateOn ==
    ASSUME NEW q, UpToDate(q), work'[q].op = work[q].op, work'[q].id = work[q].id,
           work'[q].row = work[q].row, work'[q].at = work[q].at,
           SameRow(work[q].id), SameHost(Mine(q))
    PROVE  UpToDate(q)'
<1>1. PICK i, r, prj : i = work[q].id /\ r = work[q].row /\ prj = Mine(q)
      OBVIOUS
<1>2. Mine(q)' = prj /\ SameHost(prj) /\ prj = Project(r)
      BY <1>1 DEF Mine, Project
<1>3. Runs(i, r) => Runs(i, r)'
      BY <1>2, RunsOn
<1>4. Runs(i, r)' => Runs(work[q].id, work[q].row)'
      BY <1>1 DEF Runs, Project
<1>5. /\ prj \in DOMAIN host' <=> prj \in DOMAIN host
      /\ prj \in DOMAIN host => (Unnamed(prj)' <=> Unnamed(prj))
      BY <1>2, UnnamedOn DEF SameHost
<1>6. Unnamed(prj)' => Unnamed(Mine(q))'
      BY <1>2 DEF Unnamed
<1>7. /\ work'[q].at = "gone" => Mine(q)' \notin DOMAIN host' \/ Unnamed(Mine(q))'
      /\ work'[q].at \in {"placed", "cleared"} => Mine(q)' \notin DOMAIN host'
      BY <1>1, <1>2, <1>5, <1>6 DEF UpToDate
<1>8. work'[q].at = "written" => Mine(q)' \in DOMAIN files' /\ files'[Mine(q)'] = work'[q].row.spec
      BY <1>1, <1>2 DEF UpToDate, SameHost
<1>9. /\ work'[q].id \in DOMAIN listed'
      /\ work'[q].op = "edit" => listed'[work'[q].id].status = work'[q].row.status
      /\ work'[q].op # "edit" => Project(listed'[work'[q].id]) = Mine(q)'
      BY <1>1, <1>2 DEF UpToDate, SameRow, Project
<1>10. work'[q].at \in {"up", "started"} => Runs(work[q].id, work[q].row)'
      BY <1>1, <1>3, <1>4 DEF UpToDate
<1>. QED BY <1>7, <1>8, <1>9, <1>10 DEF UpToDate, Mine, Project

LEMMA HandsKept ==
    ASSUME HandsOK, NEW p \in Requests, \A q \in Requests \ {p} : Goes(q),
           \A q \in Requests \ {p} :
              Acts(q) /\ ~work'[q].stale => SameRow(work[q].id) /\ SameHost(Mine(q)),
           Acts(p)' /\ ~work'[p].stale => UpToDate(p)'
    PROVE  HandsOK'
<1>. SUFFICES ASSUME NEW q \in Requests \ {p}, Acts(q)', ~work'[q].stale PROVE UpToDate(q)'
     BY DEF HandsOK
<1>1. /\ Acts(q) /\ ~work[q].stale /\ work'[q].op = work[q].op
      /\ work'[q].id = work[q].id /\ work'[q].row = work[q].row /\ work'[q].at = work[q].at
      BY DEF Goes, Acts, IsFree
<1>2. UpToDate(q) /\ SameRow(work[q].id) /\ SameHost(Mine(q))
      BY <1>1 DEF HandsOK
<1>. QED BY <1>1, <1>2, UpToDateOn

LEMMA StillUntouched ==
    ASSUME NEW p \in Requests, \A q \in Requests \ {p} : Goes(q), NEW i, Untouched(i)',
           Of(p, {i}) => work[p].at \notin Touched
    PROVE  Untouched(i)
<1>. SUFFICES ASSUME NEW q \in Requests \ {p}, Of(q, {i}) PROVE work[q].at \notin Touched
     BY DEF Untouched
<1>1. Of(q, {i})' /\ work'[q].at = work[q].at
      BY DEF Of, IsFree, Goes, Acts
<1>. QED BY <1>1 DEF Untouched, Touched, Ends

\* Whom a step leaves running.
LEMMA RunningKept ==
    ASSUME RunningOK, NEW p \in Requests, \A q \in Requests \ {p} : Goes(q),
           NEW i \in DOMAIN listed \ adrift, listed[i].status = "running", Untouched(i)',
           Of(p, {i}) => work[p].at \notin Touched, SameRow(i), SameHost(Project(listed[i]))
    PROVE  Runs(i, listed[i])'
<1>1. Untouched(i)
      BY StillUntouched
<1>2. Runs(i, listed[i])
      BY <1>1 DEF RunningOK
<1>3. PICK r : r = listed[i]
      OBVIOUS
<1>4. Runs(i, r)'
      BY <1>2, <1>3, RunsOn
<1>. QED BY <1>3, <1>4 DEF SameRow, Runs, Project

\* p is there by whom the containers of prj can be found.
Knows(p, prj) == Acts(p) /\ work[p].stale /\ Mine(p) = prj

LEMMA FoundKept ==
    ASSUME FoundOK, NEW p \in Requests, \A q \in Requests \ {p} : Goes(q),
           \A prj \in DOMAIN host' \ left' :
              \/ On(prj)' # {}
              \/ Unnamed(prj)'
              \/ Knows(p, prj)'
              \/ /\ prj \in DOMAIN host \ left
                 /\ On(prj) = {}
                 /\ ~Unnamed(prj)
                 /\ ~Knows(p, prj)
    PROVE  FoundOK'
<1>. SUFFICES ASSUME NEW prj \in DOMAIN host' \ left'
              PROVE  \/ On(prj)' # {}
                     \/ Unnamed(prj)'
                     \/ \E q \in Requests : (Acts(q) /\ work[q].stale /\ Mine(q) = prj)'
     BY DEF FoundOK
<1>1. CASE On(prj)' # {} \/ Unnamed(prj)'
      BY <1>1
<1>2. CASE Knows(p, prj)'
      BY <1>2 DEF Knows
<1>3. CASE prj \in DOMAIN host \ left /\ On(prj) = {} /\ ~Unnamed(prj) /\ ~Knows(p, prj)
  <2>1. PICK q \in Requests : Acts(q) /\ work[q].stale /\ Mine(q) = prj
        BY <1>3 DEF FoundOK
  <2>2. q # p
        BY <2>1, <1>3 DEF Knows
  <2>. QED BY <2>1, <2>2 DEF Goes, Acts, IsFree, Mine, Project
<1>. QED BY <1>1, <1>2, <1>3

\* p goes on with the same copy, and not as an edit, or ends.
GoesOn(p) ==
    /\ Acts(p) /\ work[p].op # "edit"
    /\ work'[p] \in AtWork
    /\ work'[p].op = work[p].op /\ work'[p].id = work[p].id /\ work'[p].row = work[p].row
    /\ work[p].stale => work'[p].stale

Ended(p) == work'[p] = Free

LEMMA NodesKept ==
    ASSUME NodesAgree, NEW p \in Requests, \A q \in Requests \ {p} : Goes(q),
           \/ GoesOn(p) \/ Ended(p)
           \/ /\ ~IsFree(p)'
              /\ work'[p].id \in DOMAIN listed
              /\ work'[p].row.node = listed[work'[p].id].node
              /\ work'[p].op = "edit" => work'[p].id \in Apps /\ work'[p].at = "read"
              /\ listed' = listed,
           nodes' = nodes,
           \A i \in DOMAIN listed' :
              \/ i \in DOMAIN listed /\ listed'[i].node = listed[i].node
              \/ /\ Acts(p) /\ i = work[p].id /\ listed'[i].node = work[p].row.node
                 /\ i \in Services => work[p].row.node \in nodes
    PROVE  NodesAgree'
<1>1. ASSUME NEW q \in Requests \ {p}
      PROVE  /\ Acts(q)' <=> Acts(q)
             /\ work'[q].op = work[q].op
             /\ Acts(q) => /\ work'[q].id = work[q].id /\ work'[q].row = work[q].row
                           /\ work'[q].at = work[q].at
      BY DEF Goes, Acts, IsFree
<1>2. GoesOn(p) => /\ Acts(p) /\ work'[p].id = work[p].id /\ work'[p].row = work[p].row
                   /\ work'[p].op # "edit"
      BY DEF GoesOn
<1>3. Ended(p) => ~Acts(p)' /\ work'[p].op # "edit"
      BY DEF Ended, Acts, IsFree, Free
<1>4. ASSUME NEW q \in Requests, Acts(q)', work'[q].id \in DOMAIN listed'
      PROVE  work'[q].row.node = listed'[work'[q].id].node
      BY <1>1, <1>2, <1>3, <1>4 DEF NodesAgree
<1>5. ASSUME NEW q \in Requests, NEW r \in Requests, Acts(q)', Acts(r)', work'[q].id = work'[r].id
      PROVE  work'[q].row.node = work'[r].row.node
      BY <1>1, <1>2, <1>3, <1>5 DEF NodesAgree
<1>6. ASSUME NEW i \in DOMAIN listed' \cap Services
      PROVE  listed'[i].node \in nodes' \cap DockerNodes
      BY DEF NodesAgree, Of, Acts
<1>7. ASSUME NEW q \in Requests, Of(q, Services)'
      PROVE  work'[q].row.node \in DockerNodes
      BY <1>1, <1>2, <1>3, <1>7 DEF NodesAgree, Of, Acts
<1>8. ASSUME NEW q \in Requests, work'[q].op = "edit"
      PROVE  work'[q].id \in Apps /\ work'[q].at = "read"
  <2>1. CASE q = p
        BY <1>2, <1>3, <1>8, <2>1
  <2>2. CASE q # p
        BY <1>1, <1>8, <2>2 DEF NodesAgree, Acts, IsFree
  <2>. QED BY <2>1, <2>2
<1>. QED BY <1>4, <1>5, <1>6, <1>7, <1>8 DEF NodesAgree

-----------------------------------------------------------------------------
(* The kinds of steps *)

Elsewhere(p) == \A q \in Requests \ {p} : Goes(q)

\* p gets on, and no table and no container changes.
LEMMA QuietStep ==
    ASSUME DockerTypeOK, HostInv, NEW p \in Requests, Elsewhere(p), GoesOn(p),
           UNCHANGED <<listed, fresh, nodes, host, files, adrift, left>>,
           work[p].at \in Touched => work'[p].at \in Touched,
           work'[p].at \in {"placed", "cleared", "gone", "written"} => work'[p].stale,
           work'[p].at \notin {"up", "started"}
    PROVE  HostInv'
<1>. USE DEF HostInv, Elsewhere
<1>1. Acts(p) /\ Acts(p)' /\ work'[p].id = work[p].id /\ work'[p].row = work[p].row
      BY DEF GoesOn, Acts, IsFree, AtWork
<1>2. GivenOut'
      BY <1>1, GivenKept DEF GivenOut
<1>3. NodesAgree'
      BY <1>1, NodesKept
<1>4. HandsOK'
  <2>1. Acts(p)' /\ ~work'[p].stale => UpToDate(p)'
        BY <1>1 DEF GoesOn, HandsOK, UpToDate, Mine, Project
  <2>. QED BY <2>1, HandsKept DEF SameRow, SameHost
<1>5. RunningOK'
  <2>. SUFFICES ASSUME NEW i \in DOMAIN listed \ adrift, listed[i].status = "running", Untouched(i)'
                PROVE  Runs(i, listed[i])'
       BY DEF RunningOK
  <2>1. Of(p, {i}) => work[p].at \notin Touched
        BY <1>1 DEF Untouched, Of, Acts, IsFree, Touched, Ends
  <2>. QED BY <2>1, RunningKept DEF SameRow, SameHost
<1>6. FoundOK'
  <2>1. \A prj : Knows(p, prj) => Knows(p, prj)'
        BY <1>1 DEF Knows, GoesOn, Mine, Project
  <2>2. \A prj : On(prj)' = On(prj) /\ (Unnamed(prj)' <=> Unnamed(prj))
        BY DEF On, Unnamed
  <2>. QED BY <2>1, <2>2, FoundKept
<1>. QED BY <1>2, <1>3, <1>4, <1>5, <1>6

\* Whom p overtook when it changed its row.
Overtook(p) == \A q \in Requests \ {p} : Acts(q) /\ work[q].id = work[p].id => work'[q].stale

LEMMA SavedRow ==
    ASSUME DockerTypeOK, HostInv, NEW p \in Requests, Elsewhere(p), Overtook(p), Acts(p),
           NEW r \in Row, SaveRow(p, r), Project(r) = Mine(p), \/ GoesOn(p) \/ Ended(p),
           UNCHANGED <<fresh, nodes, host, files>>,
           Acts(p)' /\ ~work'[p].stale => UpToDate(p)'
    PROVE  /\ GivenOut' /\ NodesAgree' /\ HandsOK' /\ FoundOK'
           /\ \A i \in DOMAIN listed' \ {work[p].id} :
                 i \notin adrift /\ listed'[i].status = "running" /\ Untouched(i)'
                    => Runs(i, listed[i])'
           /\ work[p].id \in DOMAIN listed' /\ listed'[work[p].id] = r
<1>. USE DEF HostInv
<1>. DEFINE id == work[p].id
<1>1. id \in Ids /\ work[p].row \in Row
      BY WorkShape DEF AtWork
<1>2. listed' = Put(listed, id, r)
      BY DEF SaveRow
<1>3. /\ DOMAIN listed' = DOMAIN listed \cup {id}
      /\ listed'[id] = r
      /\ \A i \in DOMAIN listed \ {id} : listed'[i] = listed[i]
      BY <1>2 DEF Put
<1>4. r.node = work[p].row.node /\ r.name = work[p].row.name
      BY DEF Project, Mine
<1>5. GivenOut'
  <2>1. Acts(p)' => work'[p].id \notin fresh'
        BY DEF GoesOn, Ended, GivenOut, Acts, IsFree, Free
  <2>. QED BY <2>1, GivenKept DEF Elsewhere
<1>6. NodesAgree'
  <2>1. id \in Services => work[p].row.node \in nodes
        BY DEF SaveRow, CanSave, Of, Acts
  <2>2. \A i \in DOMAIN listed' :
              \/ i \in DOMAIN listed /\ listed'[i].node = listed[i].node
              \/ /\ Acts(p) /\ i = work[p].id /\ listed'[i].node = work[p].row.node
                 /\ i \in Services => work[p].row.node \in nodes
        BY <1>3, <1>4, <2>1
  <2>. QED BY <2>2, NodesKept DEF Elsewhere
<1>7. HandsOK'
  <2>1. \A q \in Requests \ {p} :
           Acts(q) /\ ~work'[q].stale => SameRow(work[q].id) /\ SameHost(Mine(q))
        BY <1>3 DEF Overtook, SameRow, SameHost
  <2>. QED BY <2>1, HandsKept DEF Elsewhere
<1>8. FoundOK'
  <2>1. ASSUME NEW prj \in DOMAIN host' \ left', On(prj)' = {}, ~Unnamed(prj)'
        PROVE  prj \in DOMAIN host \ left /\ On(prj) = {} /\ ~Unnamed(prj) /\ ~Knows(p, prj)
    <3>1. prj \in DOMAIN host \ left /\ ~Unnamed(prj)
          BY <2>1 DEF SaveRow, Unnamed
    <3>2. prj # Project(r)
          BY <1>3, <2>1 DEF On, Project
    <3>3. ~Knows(p, prj)
          BY <3>2 DEF Knows
    <3>4. ASSUME NEW j \in On(prj) PROVE FALSE
      <4>1. j \in DOMAIN listed /\ Project(listed[j]) = prj
            BY DEF On
      <4>2. CASE j = id
        <5>1. prj \in {Project(listed[k]) : k \in {id} \cap DOMAIN listed} \ {Project(r)}
              BY <4>1, <4>2, <3>2
        <5>. QED BY <5>1, <2>1 DEF SaveRow
      <4>3. CASE j # id
            BY <4>1, <4>3, <1>3, <2>1 DEF On, Project
      <4>. QED BY <4>2, <4>3
    <3>. QED BY <3>1, <3>3, <3>4
  <2>2. \A prj \in DOMAIN host' \ left' :
              \/ On(prj)' # {}
              \/ Unnamed(prj)'
              \/ Knows(p, prj)'
              \/ /\ prj \in DOMAIN host \ left
                 /\ On(prj) = {}
                 /\ ~Unnamed(prj)
                 /\ ~Knows(p, prj)
        BY <2>1
  <2>. QED BY <2>2, FoundKept DEF Elsewhere
<1>9. ASSUME NEW i \in DOMAIN listed' \ {id}, i \notin adrift, listed'[i].status = "running",
             Untouched(i)'
      PROVE  Runs(i, listed[i])'
  <2>1. i \in DOMAIN listed \ adrift /\ listed[i].status = "running" /\ SameRow(i)
        BY <1>3, <1>9 DEF SameRow
  <2>2. Of(p, {i}) => work[p].at \notin Touched
        BY <1>9 DEF Of
  <2>3. SameHost(Project(listed[i]))
        BY DEF SameHost
  <2>. QED BY <2>1, <2>2, <2>3, <1>9, RunningKept DEF Elsewhere
<1>. QED BY <1>3, <1>5, <1>6, <1>7, <1>8, <1>9

LEMMA ProjectIn ==
    ASSUME NEW r \in Row
    PROVE  Project(r) \in Hosts \X AllNames
BY DEF Project, Row

LEMMA SavedTypes ==
    ASSUME DockerTypeOK, HostInv, NEW p \in Requests, Acts(p), NEW r \in Row, SaveRow(p, r)
    PROVE  /\ DOMAIN listed' \subseteq Ids \ fresh
           /\ \A i \in DOMAIN listed' : listed'[i] \in Row
           /\ left' \subseteq Hosts \X AllNames
<1>1. work[p].id \in Ids \ fresh
      BY WorkShape DEF AtWork, HostInv, GivenOut
<1>2. \A j \in DOMAIN listed : Project(listed[j]) \in Hosts \X AllNames
      BY ProjectIn DEF DockerTypeOK
<1>3. DOMAIN listed' \subseteq Ids \ fresh /\ \A i \in DOMAIN listed' : listed'[i] \in Row
      BY <1>1 DEF SaveRow, Put, DockerTypeOK
<1>. QED BY <1>2, <1>3 DEF SaveRow, DockerTypeOK

\* p, at its own row and project, goes on to at.
LEMMA ProceedGoes ==
    ASSUME DockerTypeOK, NEW p \in Requests, Acts(p), work[p].op # "edit",
           NEW at \in Touched \cup {"read", "saved", "written", "placed", "building", "pushing"},
           Proceed(p, at)
    PROVE  /\ work' \in [Requests -> Tasks]
           /\ GoesOn(p) /\ work'[p].at = at /\ work'[p].stale = work[p].stale
           /\ Elsewhere(p) /\ Overtook(p)
           /\ \A q \in Requests \ {p} : Acts(q) /\ Mine(q) = Mine(p) => work'[q].stale
<1>1. work[p] \in AtWork
      BY WorkShape
<1>. DEFINE t == [work[p] EXCEPT !.at = at]
<1>2. /\ t \in AtWork /\ t.op = work[p].op /\ t.id = work[p].id /\ t.row = work[p].row
      /\ t.at = at /\ t.stale = work[p].stale
      BY <1>1 DEF AtWork
<1>3. t \in Tasks
      BY <1>2, AtWorkIsTask
<1>4. Precede(p, work[p].id, Mine(p), t)
      BY DEF Proceed, Mine
<1>. HIDE DEF t
<1>5. PICK i, prj : i = work[p].id /\ prj = Mine(p)
      OBVIOUS
<1>6. /\ work' \in [Requests -> Tasks]
      /\ work'[p] = t
      /\ \A q \in Requests \ {p} : Goes(q)
      /\ \A q \in Requests \ {p} : Concerns(q, i, prj) => work'[q].stale
      BY <1>3, <1>4, <1>5, PrecedeGoes
<1>. QED BY <1>2, <1>5, <1>6 DEF GoesOn, Elsewhere, Overtook, Concerns, Acts, Mine

\* ... or ends.
LEMMA FinishGoes ==
    ASSUME DockerTypeOK, NEW p \in Requests, Finish(p)
    PROVE  /\ work' \in [Requests -> Tasks]
           /\ Ended(p) /\ Elsewhere(p) /\ Overtook(p)
<1>1. PICK i, prj : i = work[p].id /\ prj = Project(work[p].row)
      OBVIOUS
<1>2. /\ work' \in [Requests -> Tasks]
      /\ work'[p] = Free
      /\ \A q \in Requests \ {p} : Goes(q)
      /\ \A q \in Requests \ {p} : Concerns(q, i, prj) => work'[q].stale
      BY <1>1, PrecedeGoes, FreeIsTask DEF Finish
<1>. QED BY <1>1, <1>2 DEF Ended, Elsewhere, Overtook, Concerns, Acts

LEMMA SaveStepKeeps ==
    ASSUME DockerTypeOK, HostInv, NEW p \in Requests, Acts(p), work[p].op # "edit",
           NEW status \in Statuses \ {"running"}, NEW at \in {"saved", "building", "pushing"},
           SaveStep(p, status, at)
    PROVE  DockerTypeOK' /\ HostInv'
<1>. DEFINE r == [work[p].row EXCEPT !.status = status]
<1>1. work[p].row \in Row
      BY WorkShape DEF AtWork
<1>2. r \in Row /\ r.name = work[p].row.name /\ r.node = work[p].row.node /\ r.status = status
      BY <1>1 DEF Row
<1>3. SaveRow(p, r) /\ Project(r) = Mine(p) /\ UNCHANGED <<fresh, nodes, host, files, adrift, spent>>
      BY <1>2 DEF SaveStep, Project, Mine
<1>. HIDE DEF r
<1>4. /\ work' \in [Requests -> Tasks]
      /\ GoesOn(p) /\ work'[p].at = at /\ work'[p].stale = work[p].stale
      /\ Elsewhere(p) /\ Overtook(p)
      BY ProceedGoes DEF SaveStep
<1>5. DockerTypeOK'
      BY <1>2, <1>3, <1>4, SavedTypes DEF DockerTypeOK, spent
<1>6. listed' = Put(listed, work[p].id, r)
      BY <1>3 DEF SaveRow
<1>7. Acts(p)' /\ ~work'[p].stale => UpToDate(p)'
  <2>1. work'[p].id = work[p].id /\ work'[p].row = work[p].row /\ work'[p].op # "edit"
        BY <1>4 DEF GoesOn
  <2>2. work[p].id \in DOMAIN listed' /\ listed'[work[p].id] = r
        BY <1>6 DEF Put
  <2>. QED BY <1>3, <1>4, <2>1, <2>2 DEF UpToDate, Mine, Project
<1>8. /\ GivenOut' /\ NodesAgree' /\ HandsOK' /\ FoundOK'
      /\ \A i \in DOMAIN listed' \ {work[p].id} :
            i \notin adrift /\ listed'[i].status = "running" /\ Untouched(i)' => Runs(i, listed[i])'
      /\ work[p].id \in DOMAIN listed' /\ listed'[work[p].id] = r
      BY <1>2, <1>3, <1>4, <1>7, SavedRow
<1>9. RunningOK'
      BY <1>2, <1>3, <1>8 DEF RunningOK
<1>. QED BY <1>5, <1>8, <1>9 DEF HostInv

LEMMA Spending ==
    ASSUME DockerTypeOK, HasCommand \/ HasFault \/ UNCHANGED spent
    PROVE  commands' \in 0 .. MaxCommands /\ faults' \in 0 .. MaxFaults
BY LimitsAssumption DEF DockerTypeOK, HasCommand, HasFault, spent

\* p goes on, with or without minding a failure; no containers come up or go.
LEMMA GoesQuietly ==
    ASSUME DockerTypeOK, HostInv, NEW p \in Requests, Acts(p), work[p].op # "edit",
           NEW at \in Touched \cup {"saved", "building", "pushing"},
           work[p].at \in Touched => at \in Touched, at \notin {"up", "started"},
           \/ GoOnRegardless(p, at)
           \/ at \notin {"cleared", "gone"} /\ (GoTo(p, at) \/ Proceed(p, at)),
           UNCHANGED <<listed, fresh, nodes, host, files, adrift, left>>,
           HasCommand \/ HasFault \/ UNCHANGED spent
    PROVE  DockerTypeOK' /\ HostInv'
<1>1. work[p] \in AtWork
      BY WorkShape
<1>2. /\ work' \in [Requests -> Tasks] /\ GoesOn(p) /\ Elsewhere(p) /\ work'[p].at = at
      /\ at \in {"cleared", "gone"} => work'[p].stale
  <2>1. ASSUME NEW t \in AtWork, Enter(p, t), t.op = work[p].op, t.id = work[p].id,
               t.row = work[p].row, t.at = at, work[p].stale => t.stale,
               at \in {"cleared", "gone"} => t.stale
        PROVE  <1>2
    <3>1. t \in Tasks
          BY AtWorkIsTask
    <3>. QED BY <2>1, <3>1, EnterGoes DEF GoesOn, Elsewhere
  <2>2. CASE GoTo(p, at) /\ at \notin {"cleared", "gone"}
    <3>. DEFINE t == [work[p] EXCEPT !.at = at]
    <3>1. /\ t \in AtWork /\ t.op = work[p].op /\ t.id = work[p].id /\ t.row = work[p].row
          /\ t.at = at /\ t.stale = work[p].stale
          BY <1>1 DEF AtWork
    <3>2. Enter(p, t)
          BY <2>2 DEF GoTo
    <3>. HIDE DEF t
    <3>. QED BY <2>1, <2>2, <3>1, <3>2
  <2>3. CASE GoOnRegardless(p, at)
    <3>. DEFINE t == [work[p] EXCEPT !.at = at, !.stale = TRUE]
    <3>1. /\ t \in AtWork /\ t.op = work[p].op /\ t.id = work[p].id /\ t.row = work[p].row
          /\ t.at = at /\ t.stale
          BY <1>1 DEF AtWork
    <3>2. Enter(p, t)
          BY <2>3 DEF GoOnRegardless
    <3>. HIDE DEF t
    <3>. QED BY <2>1, <3>1, <3>2
  <2>4. CASE Proceed(p, at) /\ at \notin {"cleared", "gone"}
        BY <2>4, ProceedGoes
  <2>. QED BY <2>2, <2>3, <2>4
<1>3. DockerTypeOK'
      BY <1>2, Spending DEF DockerTypeOK
<1>4. at \notin {"placed", "written"}
      BY DEF Touched, Ends
<1>5. HostInv'
      BY <1>2, <1>4, QuietStep
<1>. QED BY <1>3, <1>5

\* The containers of p's project become those of c.
LEMMA PopulatedHost ==
    ASSUME NEW prj, NEW S, NEW up, host' = Populate(prj, S, up)
    PROVE  /\ \A x : x # prj => /\ x \in DOMAIN host' <=> x \in DOMAIN host
                                /\ x \in DOMAIN host => host'[x] = host[x]
           /\ S = {} => DOMAIN host' = DOMAIN host \ {prj}
           /\ S # {} => /\ DOMAIN host' = DOMAIN host \cup {prj}
                        /\ host'[prj] = [specs |-> S, up |-> up]
<1>1. CASE S = {}
      BY <1>1 DEF Populate, Drop
<1>2. CASE S # {}
      BY <1>2 DEF Populate, Put
<1>. QED BY <1>1, <1>2

LEMMA PopulatedTypes ==
    ASSUME DockerTypeOK, NEW prj \in Hosts \X AllNames, NEW S \in SUBSET Specs, NEW up \in BOOLEAN,
           host' = Populate(prj, S, up)
    PROVE  DOMAIN host' \subseteq Hosts \X AllNames /\ \A x \in DOMAIN host' : host'[x] \in Containers
<1>1. PICK v : v = up
      OBVIOUS
<1>2. PICK c : c = [specs |-> S, up |-> v]
      OBVIOUS
<1>3. S # {} => c \in Containers
      BY <1>1, <1>2 DEF Containers
<1>4. host' = Populate(prj, S, v)
      BY <1>1
<1>5. ASSUME NEW x \in DOMAIN host' PROVE x \in Hosts \X AllNames /\ host'[x] \in Containers
  <2>1. CASE S = {}
        BY <1>4, <1>5, <2>1 DEF Populate, Drop, DockerTypeOK
  <2>2. CASE S # {}
    <3>1. host' = Put(host, prj, c)
          BY <1>2, <1>4, <2>2 DEF Populate
    <3>. QED BY <1>3, <1>5, <2>2, <3>1 DEF Put, DockerTypeOK
  <2>. QED BY <2>1, <2>2
<1>. QED BY <1>5

LEMMA SpecsThere ==
    ASSUME DockerTypeOK, NEW prj
    PROVE  /\ prj \in DOMAIN host => SpecsAt(prj) = host[prj].specs /\ SpecsAt(prj) # {}
           /\ prj \notin DOMAIN host => SpecsAt(prj) = {}
           /\ SpecsAt(prj) \subseteq Specs
<1>1. CASE prj \in DOMAIN host
  <2>1. {host[q].specs : q \in {prj} \cap DOMAIN host} = {host[prj].specs}
        BY <1>1
  <2>2. SpecsAt(prj) = host[prj].specs
        BY <2>1 DEF SpecsAt
  <2>. QED BY <1>1, <2>2 DEF DockerTypeOK, Containers
<1>2. CASE prj \notin DOMAIN host
  <2>1. {host[q].specs : q \in {prj} \cap DOMAIN host} = {}
        BY <1>2
  <2>2. SpecsAt(prj) = {}
        BY <2>1 DEF SpecsAt
  <2>. QED BY <1>2, <2>2
<1>. QED BY <1>1, <1>2

LEMMA ReplaceKeeps ==
    ASSUME DockerTypeOK, HostInv, NEW p \in Requests, Acts(p), work[p].op # "edit",
           NEW S \in SUBSET Specs, NEW up \in BOOLEAN, NEW at \in Ends, Replace(p, S, up, at),
           ~work[p].stale /\ at \in {"up", "started"} =>
              up /\ S # {} /\ (work[p].id \notin Apps => S = {work[p].row.spec}),
           UNCHANGED <<listed, fresh, nodes, files, left>>,
           HasCommand \/ HasFault \/ UNCHANGED spent
    PROVE  DockerTypeOK' /\ HostInv'
<1>. USE DEF HostInv
<1>1. work[p].row \in Row /\ work[p].id \in Ids
      BY WorkShape DEF AtWork
<1>2. Mine(p) \in Hosts \X AllNames
      BY <1>1, ProjectIn DEF Mine
<1>3. /\ host' = Populate(Mine(p), S, up)
      /\ adrift' = adrift \cup (On(Mine(p)) \ {work[p].id})
      /\ Proceed(p, at)
      BY DEF Replace, Mine
<1>4. at \in Touched /\ at \notin {"placed", "cleared", "gone", "written"}
      BY DEF Touched, Ends
<1>5. /\ work' \in [Requests -> Tasks]
      /\ GoesOn(p) /\ work'[p].at = at /\ work'[p].stale = work[p].stale
      /\ Elsewhere(p) /\ Overtook(p)
      /\ \A q \in Requests \ {p} : Acts(q) /\ Mine(q) = Mine(p) => work'[q].stale
      BY <1>3, <1>4, ProceedGoes
<1>6. Acts(p)' /\ work'[p].id = work[p].id /\ work'[p].row = work[p].row /\ Mine(p)' = Mine(p)
      BY <1>5 DEF GoesOn, Acts, IsFree, AtWork, Mine, Project
<1>7. /\ S # {} => /\ Mine(p) \in DOMAIN host'
                   /\ host'[Mine(p)] = [specs |-> S, up |-> up]
      /\ \A x \in DOMAIN host' : x = Mine(p) \/ x \in DOMAIN host
      /\ \A prj : prj # Mine(p) => SameHost(prj)
  <2>1. PICK prj : prj = Mine(p)
        OBVIOUS
  <2>2. host' = Populate(prj, S, up)
        BY <1>3, <2>1
  <2>3. /\ \A x : x # prj => /\ x \in DOMAIN host' <=> x \in DOMAIN host
                             /\ x \in DOMAIN host => host'[x] = host[x]
        /\ S # {} => /\ DOMAIN host' = DOMAIN host \cup {prj}
                     /\ host'[prj] = [specs |-> S, up |-> up]
        BY <2>2, PopulatedHost
  <2>. QED BY <2>1, <2>3 DEF SameHost
<1>8. DockerTypeOK'
  <2>1. adrift' \subseteq Ids
        BY <1>3 DEF DockerTypeOK, On
  <2>2. DOMAIN host' \subseteq Hosts \X AllNames /\ \A prj \in DOMAIN host' : host'[prj] \in Containers
        BY <1>2, <1>3, PopulatedTypes
  <2>. QED BY <1>5, <2>1, <2>2, Spending DEF DockerTypeOK
<1>9. GivenOut'
      BY <1>5, <1>6, GivenKept DEF GivenOut, Elsewhere
<1>10. NodesAgree'
      BY <1>5, NodesKept DEF Elsewhere
<1>11. HandsOK'
  <2>1. Acts(p)' /\ ~work'[p].stale => UpToDate(p)'
    <3>. SUFFICES ASSUME ~work'[p].stale PROVE UpToDate(p)'
         OBVIOUS
    <3>1. UpToDate(p) /\ ~work[p].stale
          BY <1>5 DEF HandsOK
    <3>2. at \in {"up", "started"} => Runs(work[p].id, work[p].row)'
          BY <1>6, <1>7, <3>1 DEF Runs, Mine, Project
    <3>. QED BY <1>4, <1>5, <1>6, <3>1, <3>2 DEF UpToDate, GoesOn, Mine, Project
  <2>2. \A q \in Requests \ {p} : Acts(q) /\ ~work'[q].stale => SameRow(work[q].id) /\ SameHost(Mine(q))
        BY <1>5, <1>7 DEF SameRow
  <2>. QED BY <1>5, <2>1, <2>2, HandsKept DEF Elsewhere
<1>12. RunningOK'
  <2>. SUFFICES ASSUME NEW i \in DOMAIN listed \ adrift', listed[i].status = "running", Untouched(i)'
                PROVE  Runs(i, listed[i])'
       BY DEF RunningOK
  <2>1. ~Of(p, {i})
        BY <1>4, <1>5, <1>6 DEF Untouched, Of, Acts, IsFree, Touched, Ends
  <2>2. i # work[p].id
        BY <2>1 DEF Of, Acts
  <2>3. i \notin On(Mine(p)) /\ i \in DOMAIN listed \ adrift
        BY <1>3, <2>2
  <2>4. Project(listed[i]) # Mine(p)
        BY <2>3 DEF On
  <2>5. SameRow(i) /\ SameHost(Project(listed[i]))
        BY <1>7, <2>4 DEF SameRow
  <2>. QED BY <1>5, <2>1, <2>3, <2>5, RunningKept DEF Elsewhere
<1>13. FoundOK'
  <2>1. \A prj : On(prj)' = On(prj)
        BY DEF On
  <2>2. \A prj : Knows(p, prj) => Knows(p, prj)'
        BY <1>5, <1>6 DEF Knows
  <2>3. On(Mine(p)) # {} \/ Knows(p, Mine(p))
        BY DEF HandsOK, UpToDate, On, Knows
  <2>4. ASSUME NEW prj \in DOMAIN host' \ left'
        PROVE  \/ On(prj)' # {}
               \/ Unnamed(prj)'
               \/ Knows(p, prj)'
               \/ prj \in DOMAIN host \ left /\ On(prj) = {} /\ ~Unnamed(prj) /\ ~Knows(p, prj)
    <3>1. CASE prj = Mine(p)
          BY <2>1, <2>2, <2>3, <3>1
    <3>2. CASE prj # Mine(p)
          BY <1>7, <2>1, <2>2, <2>4, <3>2, UnnamedOn
    <3>. QED BY <3>1, <3>2
  <2>. QED BY <1>5, <2>4, FoundKept DEF Elsewhere
<1>. QED BY <1>8, <1>9, <1>10, <1>11, <1>12, <1>13

\* The containers of prj go, but for those of the files S.  If prj is not p's
\* project, or S is not what it expects, p is overtaken by its own step.
LEMMA TakenDown ==
    ASSUME DockerTypeOK, HostInv, NEW p \in Requests, Acts(p), work[p].op # "edit",
           NEW prj \in Hosts \X AllNames, NEW S \in SUBSET SpecsAt(prj), NEW up \in BOOLEAN,
           host' = Populate(prj, S, up),
           On(prj) \ {work[p].id} \subseteq adrift', adrift \subseteq adrift', adrift' \subseteq Ids,
           left \ {prj} \subseteq left', left' \subseteq Hosts \X AllNames,
           \/ S = {}
           \/ left \subseteq left' /\ Unnamed(prj)'
           \/ left \subseteq left' /\ work'[p].stale /\ (On(prj) # {} \/ prj \in left'),
           work' \in [Requests -> Tasks], GoesOn(p), Elsewhere(p),
           work'[p].at \in {"cleared", "gone"}, prj = Mine(p) \/ work'[p].stale,
           S # {} /\ work'[p].at = "cleared" => work'[p].stale,
           \A q \in Requests \ {p} : Acts(q) /\ Mine(q) = prj => work'[q].stale,
           UNCHANGED <<listed, fresh, nodes, files>>,
           HasCommand \/ HasFault \/ UNCHANGED spent
    PROVE  DockerTypeOK' /\ HostInv'
<1>. USE DEF HostInv
<1>1. Acts(p)' /\ work'[p].id = work[p].id /\ work'[p].row = work[p].row /\ Mine(p)' = Mine(p)
      BY DEF GoesOn, Acts, IsFree, AtWork, Mine, Project
<1>2. /\ \A x : x # prj => /\ x \in DOMAIN host' <=> x \in DOMAIN host
                           /\ x \in DOMAIN host => host'[x] = host[x]
      /\ S = {} => DOMAIN host' = DOMAIN host \ {prj}
      /\ S # {} => prj \in DOMAIN host
      BY PopulatedHost, SpecsThere
<1>3. \A x : x # prj => SameHost(x)
      BY <1>2 DEF SameHost
<1>4. work'[p].at \in Touched /\ work'[p].at \notin {"up", "started", "written"}
      BY DEF Touched, Ends
<1>5. DockerTypeOK'
  <2>1. S \in SUBSET Specs
        BY SpecsThere
  <2>2. DOMAIN host' \subseteq Hosts \X AllNames /\ \A x \in DOMAIN host' : host'[x] \in Containers
        BY <2>1, PopulatedTypes
  <2>. QED BY <2>2, Spending DEF DockerTypeOK
<1>6. GivenOut'
      BY <1>1, GivenKept DEF GivenOut, Elsewhere
<1>7. NodesAgree'
      BY NodesKept DEF Elsewhere
<1>8. HandsOK'
  <2>1. Acts(p)' /\ ~work'[p].stale => UpToDate(p)'
    <3>. SUFFICES ASSUME ~work'[p].stale PROVE UpToDate(p)'
         OBVIOUS
    <3>1. UpToDate(p) /\ prj = Mine(p) /\ work'[p].op # "edit"
          BY DEF HandsOK, GoesOn
    <3>2. Mine(p)' = prj
          BY <1>1, <3>1
    <3>3. work'[p].at = "cleared" => prj \notin DOMAIN host'
          BY <1>2
    <3>4. Unnamed(prj)' => Unnamed(Mine(p))'
          BY <3>2 DEF Unnamed
    <3>5. prj \notin DOMAIN host' \/ Unnamed(Mine(p))'
          BY <1>2, <3>4
    <3>. QED BY <1>1, <1>4, <3>1, <3>2, <3>3, <3>5 DEF UpToDate, Mine, Project
  <2>2. \A q \in Requests \ {p} : Acts(q) /\ ~work'[q].stale => SameRow(work[q].id) /\ SameHost(Mine(q))
        BY <1>3 DEF SameRow
  <2>. QED BY <2>1, <2>2, HandsKept DEF Elsewhere
<1>9. RunningOK'
  <2>. SUFFICES ASSUME NEW i \in DOMAIN listed \ adrift', listed[i].status = "running", Untouched(i)'
                PROVE  Runs(i, listed[i])'
       BY DEF RunningOK
  <2>1. ~Of(p, {i}) /\ i # work[p].id
        BY <1>1, <1>4 DEF Untouched, Of, Acts, IsFree
  <2>2. i \notin On(prj) /\ i \in DOMAIN listed \ adrift
        BY <2>1
  <2>3. SameRow(i) /\ SameHost(Project(listed[i]))
        BY <1>3, <2>2 DEF SameRow, On
  <2>. QED BY <2>1, <2>2, <2>3, RunningKept DEF Elsewhere
<1>10. FoundOK'
  <2>1. \A x : On(x)' = On(x)
        BY DEF On
  <2>2. \A x : Knows(p, x) => Knows(p, x)'
        BY <1>1 DEF Knows, GoesOn
  <2>3. ASSUME NEW x \in DOMAIN host' \ left'
        PROVE  \/ On(x)' # {}
               \/ Unnamed(x)'
               \/ Knows(p, x)'
               \/ x \in DOMAIN host \ left /\ On(x) = {} /\ ~Unnamed(x) /\ ~Knows(p, x)
    <3>1. CASE x = prj
          BY <1>2, <2>1, <2>3, <3>1
    <3>2. CASE x # prj
          BY <1>2, <1>3, <2>1, <2>2, <2>3, <3>2, UnnamedOn
    <3>. QED BY <3>1, <3>2
  <2>. QED BY <2>3, FoundKept DEF Elsewhere
<1>. QED BY <1>5, <1>6, <1>7, <1>8, <1>9, <1>10

\* p has changed project prj, and goes on, overtaken or not.
LEMMA PrecedesOn ==
    ASSUME DockerTypeOK, NEW p \in Requests, Acts(p), work[p].op # "edit",
           NEW at \in {"cleared", "gone"}, NEW late \in BOOLEAN, work[p].stale => late, NEW prj,
           Precede(p, work[p].id, prj, [work[p] EXCEPT !.at = at, !.stale = late])
    PROVE  /\ work' \in [Requests -> Tasks] /\ GoesOn(p) /\ Elsewhere(p)
           /\ work'[p].at = at /\ work'[p].stale = late
           /\ \A q \in Requests \ {p} : Acts(q) /\ Mine(q) = prj => work'[q].stale
<1>1. PICK i, t : i = work[p].id /\ t = [work[p] EXCEPT !.at = at, !.stale = late]
      OBVIOUS
<1>2. work[p] \in AtWork
      BY WorkShape
<1>3. at \in Touched
      BY DEF Touched
<1>4. /\ t \in AtWork /\ t.op = work[p].op /\ t.id = work[p].id /\ t.row = work[p].row
      /\ t.at = at /\ t.stale = late
      BY <1>1, <1>2, <1>3 DEF AtWork
<1>5. t \in Tasks
      BY <1>4, AtWorkIsTask
<1>6. Precede(p, i, prj, t)
      BY <1>1
<1>7. /\ work' \in [Requests -> Tasks] /\ work'[p] = t
      /\ \A q \in Requests \ {p} : Goes(q)
      /\ \A q \in Requests \ {p} : Concerns(q, i, prj) => work'[q].stale
      BY <1>5, <1>6, PrecedeGoes
<1>. QED BY <1>4, <1>7 DEF GoesOn, Elsewhere, Concerns, Acts, Mine

\* What a removal leaves, if anything, its file does not name.
LEMMA TakeDownKeeps ==
    ASSUME DockerTypeOK, HostInv, NEW p \in Requests, Acts(p), work[p].op # "edit",
           NEW at \in {"cleared", "gone"}, NEW prj \in Hosts \X AllNames, NEW S \in SUBSET SpecsAt(prj),
           TakeDown(p, prj, S, at), HasFault \/ UNCHANGED spent,
           S = {} \/ (at = "gone" /\ Unnamed(prj)')
    PROVE  DockerTypeOK' /\ HostInv'
<1>1. PICK late : late = (work[p].stale \/ prj # Project(work[p].row))
      OBVIOUS
<1>2. work[p].stale \in BOOLEAN
      BY WorkShape DEF AtWork
<1>3. late \in BOOLEAN /\ (work[p].stale => late) /\ (prj = Mine(p) \/ late)
      BY <1>1, <1>2 DEF Mine
<1>4. PICK up : up = (prj \in DOMAIN host /\ host[prj].up)
      OBVIOUS
<1>5. up \in BOOLEAN
      BY <1>4 DEF DockerTypeOK, Containers
<1>6. /\ host' = Populate(prj, S, up)
      /\ adrift' = adrift \cup (On(prj) \ {work[p].id})
      /\ left' = IF S = {} THEN left \ {prj} ELSE left
      /\ UNCHANGED <<listed, fresh, nodes, files>>
      BY <1>4 DEF TakeDown
<1>7. Precede(p, work[p].id, prj, [work[p] EXCEPT !.at = at, !.stale = late])
      BY <1>1 DEF TakeDown
<1>8. /\ work' \in [Requests -> Tasks] /\ GoesOn(p) /\ Elsewhere(p)
      /\ work'[p].at = at /\ work'[p].stale = late
      /\ \A q \in Requests \ {p} : Acts(q) /\ Mine(q) = prj => work'[q].stale
      BY <1>3, <1>7, PrecedesOn
<1>9. adrift' \subseteq Ids /\ left' \subseteq Hosts \X AllNames
      BY <1>6 DEF DockerTypeOK, On
<1>10. /\ On(prj) \ {work[p].id} \subseteq adrift' /\ adrift \subseteq adrift'
       /\ left \ {prj} \subseteq left' /\ (S # {} => left \subseteq left')
       BY <1>6
<1>. QED BY <1>3, <1>5, <1>6, <1>8, <1>9, <1>10, TakenDown

LEMMA TakeDownFailsKeeps ==
    ASSUME DockerTypeOK, HostInv, NEW p \in Requests, Acts(p), work[p].op # "edit",
           NEW at \in {"cleared", "gone"}, NEW prj \in Hosts \X AllNames,
           TakeDownFails(p, prj, at), work[p].at \notin Touched
    PROVE  DockerTypeOK' /\ HostInv'
<1>1. at \in Touched /\ at \notin {"up", "started"}
      BY DEF Touched, Ends
<1>2. CASE GoOnRegardless(p, at) /\ UNCHANGED <<host, adrift, left>>
      BY <1>1, <1>2, GoesQuietly DEF TakeDownFails
<1>3. ASSUME NEW S \in (SUBSET SpecsAt(prj)) \ {{}},
             host' = Populate(prj, S, FALSE),
             adrift' = adrift \cup (On(prj) \ {work[p].id}),
             left' = left \cup {q \in {prj} : On(q) = {}},
             Precede(p, work[p].id, prj, [work[p] EXCEPT !.at = at, !.stale = TRUE])
      PROVE  DockerTypeOK' /\ HostInv'
  <2>1. /\ work' \in [Requests -> Tasks] /\ GoesOn(p) /\ Elsewhere(p)
        /\ work'[p].at = at /\ work'[p].stale
        /\ \A q \in Requests \ {p} : Acts(q) /\ Mine(q) = prj => work'[q].stale
        BY <1>3, PrecedesOn
  <2>2. adrift' \subseteq Ids /\ left' \subseteq Hosts \X AllNames
        BY <1>3 DEF DockerTypeOK, On
  <2>3. /\ On(prj) \ {work[p].id} \subseteq adrift' /\ adrift \subseteq adrift'
        /\ left \subseteq left' /\ (On(prj) # {} \/ prj \in left')
        BY <1>3
  <2>4. HasFault /\ UNCHANGED <<listed, fresh, nodes, files>>
        BY DEF TakeDownFails
  <2>. QED BY <1>3, <2>1, <2>2, <2>3, <2>4, TakenDown
<1>. QED BY <1>2, <1>3 DEF TakeDownFails

\* RemoveContainers, and its failure.
LEMMA RemoveAllKeeps ==
    ASSUME DockerTypeOK, HostInv, NEW p \in Requests, Acts(p), work[p].op # "edit",
           NEW at \in {"cleared", "gone"}, work[p].at \notin Touched,
           RemoveAll(p, at) \/ RemoveAllFails(p, at)
    PROVE  DockerTypeOK' /\ HostInv'
<1>1. PICK prj, S : prj = Project(work[p].row) /\ S = {}
      OBVIOUS
<1>2. prj \in Hosts \X AllNames /\ S \in SUBSET SpecsAt(prj)
      BY <1>1, WorkShape, ProjectIn DEF AtWork
<1>3. CASE RemoveAll(p, at)
      BY <1>1, <1>2, <1>3, TakeDownKeeps DEF RemoveAll
<1>4. CASE RemoveAllFails(p, at)
      BY <1>1, <1>2, <1>4, TakeDownFailsKeeps DEF RemoveAllFails
<1>. QED BY <1>3, <1>4

LEMMA ReadKeeps ==
    ASSUME DockerTypeOK, HostInv, NEW p \in Requests,
           NEW op \in {"deploy", "update", "redeploy", "start", "stop", "remove", "build", "edit"},
           NEW i \in DOMAIN listed, NEW r \in Row, NEW at \in {"read", "saved"},
           r.node = listed[i].node, r.status = listed[i].status,
           IF op = "edit" THEN i \in Apps /\ at = "read" ELSE r.name = listed[i].name,
           Read(p, op, i, r, at)
    PROVE  DockerTypeOK' /\ HostInv'
<1>. USE DEF HostInv
<1>. DEFINE t == NewWork(op, i, r, at)
<1>1. i \in Ids \ fresh
      BY DEF DockerTypeOK
<1>2. /\ t \in AtWork /\ t.op = op /\ t.id = i /\ t.row = r /\ t.at = at /\ ~t.stale
      BY <1>1 DEF NewWork, AtWork
<1>3. t \in Tasks
      BY <1>2, AtWorkIsTask
<1>4. ~Acts(p) /\ Enter(p, t) /\ UNCHANGED <<listed, fresh, nodes, host, files, adrift, left>>
      BY DEF Read, Acts
<1>. HIDE DEF t
<1>5. work' \in [Requests -> Tasks] /\ work'[p] = t /\ Elsewhere(p)
      BY <1>3, <1>4, EnterGoes DEF Elsewhere
<1>6. DockerTypeOK'
      BY <1>4, <1>5, Spending DEF DockerTypeOK, Read
<1>7. GivenOut'
      BY <1>1, <1>2, <1>4, <1>5, GivenKept DEF Elsewhere
<1>8. NodesAgree'
  <2>1. ~IsFree(p)' /\ work'[p].id \in DOMAIN listed /\ work'[p].row.node = listed[work'[p].id].node
        BY <1>2, <1>5 DEF IsFree
  <2>2. work'[p].op = "edit" => work'[p].id \in Apps /\ work'[p].at = "read"
        BY <1>2, <1>5
  <2>3. listed' = listed /\ nodes' = nodes
        BY <1>4
  <2>. QED BY <1>5, <2>1, <2>2, <2>3, NodesKept DEF Elsewhere
<1>9. HandsOK'
  <2>1. Project(r) = Project(listed[i]) \/ op = "edit"
        BY DEF Project
  <2>2. UpToDate(p)'
        BY <1>2, <1>4, <1>5, <2>1 DEF UpToDate, Mine, Project
  <2>. QED BY <1>4, <1>5, <2>2, HandsKept DEF Elsewhere, SameRow, SameHost
<1>10. RunningOK'
  <2>. SUFFICES ASSUME NEW j \in DOMAIN listed \ adrift, listed[j].status = "running", Untouched(j)'
                PROVE  Runs(j, listed[j])'
       BY <1>4 DEF RunningOK
  <2>1. ~Of(p, {j})
        BY <1>4 DEF Of, Acts
  <2>. QED BY <1>4, <1>5, <2>1, RunningKept DEF Elsewhere, SameRow, SameHost
<1>11. FoundOK'
  <2>1. \A prj : ~Knows(p, prj) /\ On(prj)' = On(prj)
        BY <1>4 DEF Knows, On
  <2>2. \A prj : Unnamed(prj)' <=> Unnamed(prj)
        BY <1>4 DEF Unnamed
  <2>. QED BY <1>4, <1>5, <2>1, <2>2, FoundKept DEF Elsewhere
<1>. QED BY <1>6, <1>7, <1>8, <1>9, <1>10, <1>11

LEMMA CreateKeeps ==
    ASSUME DockerTypeOK, HostInv, NEW p \in Requests, NEW i \in Ids, NEW r \in Row, NEW t \in Tasks,
           r.status # "running", i \in Services => r.node \in nodes \cap DockerNodes,
           \/ t = Free
           \/ /\ t \in AtWork /\ t.op = "deploy" /\ t.id = i /\ t.row = r
              /\ \/ t.at = "saved"
                 \/ t.at = "placed" /\ (t.stale \/ Project(r) \notin DOMAIN host),
           Create(p, i, r, t)
    PROVE  DockerTypeOK' /\ HostInv'
<1>. USE DEF HostInv
<1>1. ~Acts(p) /\ i \in fresh /\ fresh' = fresh \ {i} /\ Enter(p, t)
      BY DEF Create, Acts
<1>2. UNCHANGED <<nodes, host, files, adrift, left>> /\ i \notin DOMAIN listed
      BY <1>1 DEF Create, DockerTypeOK
<1>3. /\ DOMAIN listed' = DOMAIN listed \cup {i} /\ listed'[i] = r
      /\ \A j \in DOMAIN listed : listed'[j] = listed[j]
      BY <1>2 DEF Create, Put
<1>4. work' \in [Requests -> Tasks] /\ work'[p] = t /\ Elsewhere(p)
      BY <1>1, EnterGoes DEF Elsewhere
<1>5. \A q \in Requests \ {p} : Acts(q)' => Acts(q) /\ work'[q] = work[q]
      BY <1>1, EnterGoes DEF Acts, IsFree
<1>6. Acts(p)' => /\ work'[p].id = i /\ work'[p].row = r /\ work'[p].op = "deploy"
                  /\ \/ t.at = "saved"
                     \/ t.at = "placed" /\ (t.stale \/ Project(r) \notin DOMAIN host)
      BY <1>4 DEF Acts, IsFree, Free
<1>7. DockerTypeOK'
  <2>1. DOMAIN listed' \subseteq Ids \ fresh' /\ \A j \in DOMAIN listed' : listed'[j] \in Row
        BY <1>1, <1>3 DEF DockerTypeOK
  <2>2. HasCommand
        BY DEF Create
  <2>. QED BY <1>1, <1>2, <1>4, <2>1, <2>2, Spending DEF DockerTypeOK
<1>8. GivenOut'
      BY <1>1, <1>4, <1>6, GivenKept DEF Elsewhere
<1>9. NodesAgree'
  <2>1. \A q \in Requests \ {p} : Acts(q)' => work'[q].id # i
        BY <1>1, <1>5 DEF GivenOut
  <2>2. \A q \in Requests : Acts(q)' /\ work'[q].id \in DOMAIN listed' =>
           work'[q].row.node = listed'[work'[q].id].node
        BY <1>3, <1>5, <1>6, <2>1 DEF NodesAgree
  <2>3. \A q, q2 \in Requests : Acts(q)' /\ Acts(q2)' /\ work'[q].id = work'[q2].id =>
           work'[q].row.node = work'[q2].row.node
        BY <1>5, <1>6, <2>1 DEF NodesAgree
  <2>4. \A j \in DOMAIN listed' \cap Services : listed'[j].node \in nodes' \cap DockerNodes
        BY <1>2, <1>3 DEF NodesAgree
  <2>5. \A q \in Requests : Of(q, Services)' => work'[q].row.node \in DockerNodes
        BY <1>5, <1>6 DEF NodesAgree, Of, Acts
  <2>6. \A q \in Requests : work'[q].op = "edit" => work'[q].id \in Apps /\ work'[q].at = "read"
        BY <1>5, <1>6 DEF NodesAgree, Acts, IsFree
  <2>. QED BY <2>2, <2>3, <2>4, <2>5, <2>6 DEF NodesAgree
<1>10. HandsOK'
  <2>1. Acts(p)' /\ ~work'[p].stale => UpToDate(p)'
        BY <1>2, <1>3, <1>4, <1>6 DEF UpToDate, Mine, Project
  <2>. QED BY <1>2, <1>3, <1>4, <2>1, HandsKept DEF Elsewhere, SameRow, SameHost
<1>11. RunningOK'
  <2>. SUFFICES ASSUME NEW j \in DOMAIN listed' \ adrift, listed'[j].status = "running", Untouched(j)'
                PROVE  Runs(j, listed[j])'
       BY <1>2 DEF RunningOK
  <2>1. j \in DOMAIN listed /\ listed[j].status = "running" /\ SameRow(j)
        BY <1>3 DEF SameRow
  <2>2. ~Of(p, {j}) /\ SameHost(Project(listed[j]))
        BY <1>1, <1>2 DEF Of, Acts, SameHost
  <2>. QED BY <1>4, <2>1, <2>2, RunningKept DEF Elsewhere
<1>12. FoundOK'
  <2>1. \A prj : ~Knows(p, prj) /\ On(prj) \subseteq On(prj)'
        BY <1>1, <1>3 DEF Knows, On, Project
  <2>2. \A prj : Unnamed(prj)' <=> Unnamed(prj)
        BY <1>2 DEF Unnamed
  <2>. QED BY <1>2, <1>4, <2>1, <2>2, FoundKept DEF Elsewhere
<1>. QED BY <1>7, <1>8, <1>9, <1>10, <1>11, <1>12

LEMMA SaveOutcomeKeeps ==
    ASSUME DockerTypeOK, HostInv, NEW p \in Requests, SaveOutcome(p)
    PROVE  DockerTypeOK' /\ HostInv'
<1>0. PICK id, r : id = work[p].id /\ r = [work[p].row EXCEPT !.status = Outcome(work[p].at)]
      OBVIOUS
<1>1. Acts(p) /\ work[p].op # "edit" /\ work[p].at \in Ends
      BY DEF SaveOutcome, Acts, IsFree
<1>2. id \in Ids /\ work[p].row \in Row
      BY <1>0, <1>1, WorkShape DEF AtWork
<1>3. /\ Outcome(work[p].at) \in Statuses
      /\ Outcome(work[p].at) = "running" => work[p].at \in {"up", "started", "hollow"}
      BY <1>1, Zenon DEF Outcome, Ends, Statuses
<1>4. /\ r \in Row /\ r.name = work[p].row.name /\ r.node = work[p].row.node
      /\ r.spec = work[p].row.spec /\ r.status = Outcome(work[p].at)
      BY <1>0, <1>2, <1>3 DEF Row
<1>5. /\ SaveRow(p, r) /\ Project(r) = Mine(p) /\ UNCHANGED <<fresh, nodes, host, files, spent>>
      /\ adrift' = IF work[p].stale \/ work[p].at = "hollow" THEN adrift \cup {id} ELSE adrift \ {id}
      BY <1>0, <1>4 DEF SaveOutcome, Project, Mine
<1>6. /\ work' \in [Requests -> Tasks]
      /\ Ended(p) /\ Elsewhere(p) /\ Overtook(p)
      BY FinishGoes DEF SaveOutcome
<1>7. DockerTypeOK'
  <2>1. adrift' \subseteq Ids
        BY <1>2, <1>5 DEF DockerTypeOK
  <2>. QED BY <1>1, <1>4, <1>5, <1>6, <2>1, SavedTypes DEF DockerTypeOK, spent
<1>8. ~Acts(p)'
      BY <1>6 DEF Ended, Acts, IsFree, Free
<1>9. /\ GivenOut' /\ NodesAgree' /\ HandsOK' /\ FoundOK'
      /\ \A i \in DOMAIN listed' \ {id} :
            i \notin adrift /\ listed'[i].status = "running" /\ Untouched(i)' => Runs(i, listed[i])'
      /\ id \in DOMAIN listed' /\ listed'[id] = r
      BY <1>0, <1>1, <1>4, <1>5, <1>6, <1>8, SavedRow
<1>10. id \notin adrift' /\ r.status = "running" => Runs(id, listed[id])'
  <2>. SUFFICES ASSUME id \notin adrift', r.status = "running" PROVE Runs(id, listed[id])'
       OBVIOUS
  <2>1. ~work[p].stale /\ work[p].at \in {"up", "started"}
        BY <1>3, <1>4, <1>5
  <2>2. Runs(id, work[p].row)
        BY <1>0, <1>1, <2>1 DEF HostInv, HandsOK, UpToDate
  <2>. QED BY <1>4, <1>5, <1>9, <2>2 DEF Runs, Project
<1>11. RunningOK'
  <2>. SUFFICES ASSUME NEW i \in DOMAIN listed' \ adrift', listed'[i].status = "running", Untouched(i)'
                PROVE  Runs(i, listed[i])'
       BY DEF RunningOK
  <2>1. CASE i = id
        BY <1>9, <1>10, <2>1
  <2>2. CASE i # id
        BY <1>5, <1>9, <2>2
  <2>. QED BY <2>1, <2>2
<1>. QED BY <1>7, <1>9, <1>11 DEF HostInv

LEMMA SaveEditKeeps ==
    ASSUME DockerTypeOK, HostInv, NEW p \in Requests, SaveEdit(p)
    PROVE  DockerTypeOK' /\ HostInv'
<1>0. PICK id, r : id = work[p].id /\ r = work[p].row
      OBVIOUS
<1>1. Acts(p) /\ work[p].op = "edit" /\ work[p].at = "read"
      BY DEF SaveEdit, Doing, Acts, IsFree
<1>2. id \in Ids /\ r \in Row
      BY <1>0, <1>1, WorkShape DEF AtWork
<1>3. /\ SaveRow(p, r) /\ Project(r) = Mine(p) /\ UNCHANGED <<fresh, nodes, host, files, spent>>
      /\ adrift' = IF work[p].stale \/ (id \in DOMAIN listed /\ listed[id].name # r.name)
                   THEN adrift \cup {id} ELSE adrift
      BY <1>0 DEF SaveEdit, Mine
<1>4. /\ work' \in [Requests -> Tasks]
      /\ Ended(p) /\ Elsewhere(p) /\ Overtook(p)
      BY FinishGoes DEF SaveEdit
<1>5. DockerTypeOK'
  <2>1. adrift' \subseteq Ids
        BY <1>2, <1>3 DEF DockerTypeOK
  <2>. QED BY <1>1, <1>2, <1>3, <1>4, <2>1, SavedTypes DEF DockerTypeOK, spent
<1>6. ~Acts(p)'
      BY <1>4 DEF Ended, Acts, IsFree, Free
<1>7. /\ GivenOut' /\ NodesAgree' /\ HandsOK' /\ FoundOK'
      /\ \A i \in DOMAIN listed' \ {id} :
            i \notin adrift /\ listed'[i].status = "running" /\ Untouched(i)' => Runs(i, listed[i])'
      /\ id \in DOMAIN listed' /\ listed'[id] = r
      BY <1>0, <1>1, <1>2, <1>3, <1>4, <1>6, SavedRow
<1>8. id \notin adrift' /\ r.status = "running" /\ Untouched(id)' => Runs(id, listed[id])'
  <2>. SUFFICES ASSUME id \notin adrift', r.status = "running", Untouched(id)'
                PROVE  Runs(id, listed[id])'
       OBVIOUS
  <2>1. /\ ~work[p].stale /\ id \notin adrift /\ id \in Apps
        /\ id \in DOMAIN listed => listed[id].name = r.name
        BY <1>0, <1>1, <1>3 DEF HostInv, NodesAgree
  <2>2. id \in DOMAIN listed /\ listed[id].status = "running" /\ listed[id].node = r.node
        BY <1>0, <1>1, <2>1 DEF HostInv, HandsOK, UpToDate, NodesAgree
  <2>3. work[p].at \notin Touched
        BY <1>1 DEF Touched, Ends
  <2>4. Untouched(id)
        BY <1>4, <2>3, StillUntouched DEF Elsewhere
  <2>5. Runs(id, listed[id])
        BY <2>1, <2>2, <2>4 DEF HostInv, RunningOK
  <2>. QED BY <1>3, <1>7, <2>1, <2>2, <2>5 DEF Runs, Project
<1>9. RunningOK'
  <2>. SUFFICES ASSUME NEW i \in DOMAIN listed' \ adrift', listed'[i].status = "running", Untouched(i)'
                PROVE  Runs(i, listed[i])'
       BY DEF RunningOK
  <2>1. CASE i = id
        BY <1>7, <1>8, <2>1
  <2>2. CASE i # id
        BY <1>3, <1>7, <2>2
  <2>. QED BY <2>1, <2>2
<1>. QED BY <1>5, <1>7, <1>9 DEF HostInv

LEMMA DeleteRowKeeps ==
    ASSUME DockerTypeOK, HostInv, NEW p \in Requests, DeleteRow(p)
    PROVE  DockerTypeOK' /\ HostInv'
<1>. USE DEF HostInv
<1>. DEFINE id == work[p].id
            now == {Project(listed[j]) : j \in {id} \cap DOMAIN listed}
<1>1. Acts(p) /\ work[p].op # "edit" /\ work[p].at = "gone"
      BY DEF DeleteRow, Doing, Acts, IsFree
<1>2. id \in Ids /\ work[p].row \in Row
      BY <1>1, WorkShape DEF AtWork
<1>3. /\ listed' = Drop(listed, id)
      /\ left' = IF work[p].stale THEN left \cup now \cup {Mine(p)} ELSE left
      /\ adrift' = adrift \ {id}
      /\ UNCHANGED <<fresh, nodes, host, files, spent>>
      BY DEF DeleteRow, Mine
<1>4. /\ work' \in [Requests -> Tasks]
      /\ Ended(p) /\ Elsewhere(p) /\ Overtook(p)
      BY FinishGoes DEF DeleteRow
<1>5. /\ DOMAIN listed' = DOMAIN listed \ {id}
      /\ \A j \in DOMAIN listed' : listed'[j] = listed[j]
      BY <1>3 DEF Drop
<1>6. DockerTypeOK'
  <2>1. left' \subseteq Hosts \X AllNames
        BY <1>2, <1>3, ProjectIn DEF DockerTypeOK, Mine
  <2>2. /\ DOMAIN listed' \subseteq Ids \ fresh' /\ \A i \in DOMAIN listed' : listed'[i] \in Row
        /\ adrift' \subseteq Ids
        BY <1>3, <1>5 DEF DockerTypeOK
  <2>. QED BY <1>3, <1>4, <2>1, <2>2 DEF DockerTypeOK, spent
<1>7. ~Acts(p)'
      BY <1>4 DEF Ended, Acts, IsFree, Free
<1>8. GivenOut'
      BY <1>3, <1>4, <1>7, GivenKept DEF Elsewhere
<1>9. NodesAgree'
      BY <1>3, <1>4, <1>5, NodesKept DEF Elsewhere
<1>10. HandsOK'
  <2>1. \A q \in Requests \ {p} :
           Acts(q) /\ ~work'[q].stale => SameRow(work[q].id) /\ SameHost(Mine(q))
        BY <1>3, <1>4, <1>5 DEF Overtook, SameRow, SameHost
  <2>. QED BY <1>4, <1>7, <2>1, HandsKept DEF Elsewhere
<1>11. RunningOK'
  <2>. SUFFICES ASSUME NEW i \in DOMAIN listed' \ adrift', listed'[i].status = "running", Untouched(i)'
                PROVE  Runs(i, listed[i])'
       BY DEF RunningOK
  <2>1. /\ i \in DOMAIN listed \ adrift /\ i # id /\ listed[i].status = "running" /\ SameRow(i)
        /\ SameHost(Project(listed[i]))
        BY <1>3, <1>5 DEF SameRow, SameHost
  <2>2. ~Of(p, {i})
        BY <2>1 DEF Of
  <2>. QED BY <1>4, <2>1, <2>2, RunningKept DEF Elsewhere
<1>12. FoundOK'
  <2>1. ASSUME NEW prj \in DOMAIN host' \ left', On(prj)' = {}, ~Unnamed(prj)'
        PROVE  prj \in DOMAIN host \ left /\ On(prj) = {} /\ ~Unnamed(prj) /\ ~Knows(p, prj)
    <3>1. prj \in DOMAIN host \ left /\ ~Unnamed(prj)
          BY <1>3, <2>1 DEF Unnamed
    <3>2. ~Knows(p, prj)
          BY <1>3, <2>1 DEF Knows
    <3>3. ASSUME NEW j \in On(prj) PROVE FALSE
      <4>1. j = id /\ Project(listed[j]) = prj /\ j \in DOMAIN listed
            BY <1>5, <2>1 DEF On, Project
      <4>2. ~work[p].stale
            BY <1>3, <4>1
      <4>3. Mine(p) = prj /\ (Mine(p) \notin DOMAIN host \/ Unnamed(Mine(p)))
            BY <1>1, <4>1, <4>2 DEF HandsOK, UpToDate
      <4>. QED BY <3>1, <4>3
    <3>. QED BY <3>1, <3>2, <3>3
  <2>. QED BY <1>4, <2>1, FoundKept DEF Elsewhere
<1>. QED BY <1>6, <1>8, <1>9, <1>10, <1>11, <1>12

\* p ends, and says so of what it leaves.
LEMMA EndKeeps ==
    ASSUME DockerTypeOK, HostInv, NEW p \in Requests, Acts(p), Enter(p, Free),
           UNCHANGED <<listed, fresh, nodes, host, files>>,
           adrift \subseteq adrift', adrift' \subseteq Ids,
           left \subseteq left', left' \subseteq Hosts \X AllNames,
           work[p].stale => Mine(p) \in left',
           work[p].at \in Touched /\ work[p].id \in DOMAIN listed => work[p].id \in adrift',
           HasCommand \/ HasFault \/ UNCHANGED spent
    PROVE  DockerTypeOK' /\ HostInv'
<1>. USE DEF HostInv
<1>1. work' \in [Requests -> Tasks] /\ Ended(p) /\ Elsewhere(p)
      BY FreeIsTask, EnterGoes DEF Ended, Elsewhere
<1>2. ~Acts(p)'
      BY <1>1 DEF Ended, Acts, IsFree, Free
<1>3. DockerTypeOK'
      BY <1>1, Spending DEF DockerTypeOK
<1>4. GivenOut'
      BY <1>1, <1>2, GivenKept DEF Elsewhere
<1>5. NodesAgree'
      BY <1>1, NodesKept DEF Elsewhere
<1>6. HandsOK'
      BY <1>1, <1>2, HandsKept DEF Elsewhere, SameRow, SameHost
<1>7. RunningOK'
  <2>. SUFFICES ASSUME NEW i \in DOMAIN listed \ adrift', listed[i].status = "running", Untouched(i)'
                PROVE  Runs(i, listed[i])'
       BY DEF RunningOK
  <2>1. Of(p, {i}) => work[p].at \notin Touched
        BY DEF Of
  <2>2. i \in DOMAIN listed \ adrift /\ SameRow(i) /\ SameHost(Project(listed[i]))
        BY DEF SameRow, SameHost
  <2>. QED BY <1>1, <2>1, <2>2, RunningKept DEF Elsewhere
<1>8. FoundOK'
  <2>1. \A prj : On(prj)' = On(prj) /\ (Unnamed(prj)' <=> Unnamed(prj))
        BY DEF On, Unnamed
  <2>2. \A prj \in DOMAIN host' \ left' : prj \in DOMAIN host \ left /\ ~Knows(p, prj)
        BY DEF Knows
  <2>. QED BY <1>1, <2>1, <2>2, FoundKept DEF Elsewhere
<1>. QED BY <1>3, <1>4, <1>5, <1>6, <1>7, <1>8

LEMMA GiveUpKeeps ==
    ASSUME DockerTypeOK, HostInv, NEW p \in Requests, GiveUp(p)
    PROVE  DockerTypeOK' /\ HostInv'
<1>1. Acts(p) /\ Enter(p, Free) /\ HasFault /\ UNCHANGED <<listed, fresh, nodes, host, files>>
      BY DEF GiveUp, Acts
<1>2. work[p].id \in Ids /\ Mine(p) \in Hosts \X AllNames
      BY <1>1, WorkShape, ProjectIn DEF AtWork, Mine
<1>3. /\ adrift' = adrift \cup (IF work[p].at \in Touched THEN {work[p].id} ELSE {})
      /\ left' = left \cup (IF work[p].stale THEN {Mine(p)} ELSE {})
      BY <1>1 DEF GiveUp, Forgotten, Orphaned, Acts, Mine
<1>4. adrift' \subseteq Ids /\ left' \subseteq Hosts \X AllNames
      BY <1>2, <1>3 DEF DockerTypeOK
<1>5. /\ adrift \subseteq adrift' /\ left \subseteq left'
      /\ work[p].stale => Mine(p) \in left'
      /\ work[p].at \in Touched => work[p].id \in adrift'
      BY <1>3
<1>. QED BY <1>1, <1>4, <1>5, EndKeeps

LEMMA SaveRefusedKeeps ==
    ASSUME DockerTypeOK, HostInv, NEW p \in Requests, SaveRefused(p)
    PROVE  DockerTypeOK' /\ HostInv'
<1>1. Acts(p) /\ Of(p, Services) /\ work[p].row.node \notin nodes /\ work[p].id \in Services
      BY DEF SaveRefused, CanSave, Doing, Of, Acts, IsFree
<1>2. Mine(p) \in Hosts \X AllNames
      BY <1>1, WorkShape, ProjectIn DEF AtWork, Mine
<1>3. work[p].id \notin DOMAIN listed
      BY <1>1 DEF HostInv, NodesAgree
<1>4. /\ Enter(p, Free) /\ left' = left \cup {Mine(p)}
      /\ UNCHANGED <<listed, fresh, nodes, host, files, adrift, spent>>
      BY DEF SaveRefused, Mine
<1>5. adrift' \subseteq Ids /\ left' \subseteq Hosts \X AllNames
      BY <1>2, <1>4 DEF DockerTypeOK
<1>. QED BY <1>1, <1>3, <1>4, <1>5, EndKeeps

\* All end at once, and perhaps leave the containers of a project that has a row
\* or is in left.
LEMMA StopAllKeeps ==
    ASSUME DockerTypeOK, HostInv, StopAll, UNCHANGED <<listed, fresh, nodes, files>>,
           \/ host' = host
           \/ \E prj \in Hosts \X AllNames, c \in Containers :
                 /\ prj \notin DOMAIN host /\ host' = Put(host, prj, c)
                 /\ On(prj) # {} \/ prj \in left',
           HasCommand \/ HasFault \/ UNCHANGED spent
    PROVE  DockerTypeOK' /\ HostInv'
<1>. USE DEF HostInv
<1>1. \A p \in Requests : work'[p] = Free /\ ~Acts(p)' /\ work'[p].op = "none"
      BY DEF StopAll, Acts, IsFree, Free
<1>2. \A q \in Requests : Acts(q) => work[q].id \in Ids /\ Mine(q) \in Hosts \X AllNames
      BY WorkShape, ProjectIn DEF AtWork, Mine
<1>3. DockerTypeOK'
  <2>1. adrift' \subseteq Ids /\ left' \subseteq Hosts \X AllNames
        BY <1>2 DEF StopAll, Forgotten, Orphaned, DockerTypeOK, Acts, Mine
  <2>2. DOMAIN host' \subseteq Hosts \X AllNames /\ \A prj \in DOMAIN host' : host'[prj] \in Containers
    <3>1. CASE host' = host
          BY <3>1 DEF DockerTypeOK
    <3>2. CASE \E prj \in Hosts \X AllNames, c \in Containers : host' = Put(host, prj, c)
          BY <3>2 DEF Put, DockerTypeOK
    <3>. QED BY <3>1, <3>2
  <2>3. work' \in [Requests -> Tasks]
        BY FreeIsTask DEF StopAll
  <2>. QED BY <2>1, <2>2, <2>3, Spending DEF DockerTypeOK
<1>4. GivenOut' /\ HandsOK'
      BY <1>1 DEF GivenOut, HandsOK
<1>5. NodesAgree'
      BY <1>1 DEF NodesAgree, Of, Acts
<1>6. \A prj \in DOMAIN host : prj \in DOMAIN host' /\ host'[prj] = host[prj]
      BY DEF Put
<1>7. RunningOK'
  <2>. SUFFICES ASSUME NEW i \in DOMAIN listed \ adrift', listed[i].status = "running"
                PROVE  Runs(i, listed[i])'
       BY DEF RunningOK
  <2>1. i \notin adrift /\ Untouched(i)
        BY DEF StopAll, Forgotten, Untouched, Of
  <2>2. Runs(i, listed[i])
        BY <2>1 DEF RunningOK
  <2>. QED BY <1>6, <2>2 DEF Runs, Project
<1>8. FoundOK'
  <2>. SUFFICES ASSUME NEW prj \in DOMAIN host' \ left', On(prj) = {}, ~Unnamed(prj)' PROVE FALSE
       BY DEF FoundOK, On
  <2>1. prj \in DOMAIN host \ left
        BY DEF StopAll, Put
  <2>2. ~Unnamed(prj)
        BY <1>6, <2>1 DEF Unnamed
  <2>3. PICK q \in Requests : Acts(q) /\ work[q].stale /\ Mine(q) = prj
        BY <2>1, <2>2 DEF FoundOK
  <2>4. prj \in left'
        BY <2>3 DEF StopAll, Orphaned, Acts, Mine
  <2>. QED BY <2>4
<1>. QED BY <1>3, <1>4, <1>5, <1>7, <1>8

-----------------------------------------------------------------------------
(* The nodes *)

LEMMA DeleteDockerNodeKeeps ==
    ASSUME DockerTypeOK, HostInv, NEW n \in DockerNodes, DeleteDockerNode(n)
    PROVE  DockerTypeOK' /\ HostInv'
<1>1. /\ UNCHANGED <<listed, fresh, host, files, work, adrift, left>> /\ nodes' = nodes \ {n}
      /\ \A i \in DOMAIN listed \cap Services : listed[i].node # n
      /\ HasCommand
      BY DEF DeleteDockerNode
<1>2. DockerTypeOK'
      BY <1>1, Spending DEF DockerTypeOK
<1>3. NodesAgree'
      BY <1>1 DEF HostInv, NodesAgree, Of, Acts, IsFree
<1>4. GivenOut' /\ HandsOK' /\ RunningOK' /\ FoundOK'
      BY <1>1 DEF HostInv, GivenOut, HandsOK, UpToDate, RunningOK, Untouched, FoundOK, Runs, On, Of,
                  Unnamed, Acts, IsFree, Mine, Project
<1>. QED BY <1>2, <1>3, <1>4 DEF HostInv

LEMMA RemoveSwarmNodeKeeps ==
    ASSUME DockerTypeOK, HostInv, NEW n \in SwarmNodes, RemoveSwarmNode(n)
    PROVE  DockerTypeOK' /\ HostInv'
<1>. USE DEF HostInv
<1>1. UNCHANGED <<listed, fresh, left>> /\ nodes' = nodes \ {n} /\ HasCommand
      BY DEF RemoveSwarmNode
<1>2. /\ \A prj \in DOMAIN host' : prj \in DOMAIN host /\ host'[prj] = host[prj]
      /\ \A prj \in DOMAIN host \ DOMAIN host' : prj[1] = n
      /\ adrift \subseteq adrift' /\ adrift' \subseteq adrift \cup DOMAIN listed
      /\ host' = host \/ \A i \in DOMAIN listed : listed[i].node = n => i \in adrift'
      /\ \A prj : UNCHANGED <<host, files>> \/ prj[1] # n => SameHost(prj)
      /\ \A prj \in DOMAIN host' : SameHost(prj)
      BY DEF RemoveSwarmNode, SameHost
<1>3. ASSUME NEW q \in Requests
      PROVE  /\ work' \in [Requests -> Tasks] /\ Goes(q)
             /\ UNCHANGED <<host, files>> \/ ~(Acts(q) /\ work[q].row.node = n) \/ work'[q].stale
             /\ work'[q] = work[q] \/ work'[q].stale
  <2>1. CASE UNCHANGED <<host, files, adrift, work>>
        BY <2>1, <1>3, WorkShape DEF RemoveSwarmNode, Goes, DockerTypeOK, Acts, IsFree, AtWork
  <2>2. CASE work' = [p \in Requests |-> IF ~IsFree(p) /\ work[p].row.node = n
                                         THEN [work[p] EXCEPT !.stale = TRUE] ELSE work[p]]
    <3>1. ASSUME NEW p \in Requests
          PROVE  /\ work'[p] \in Tasks /\ Goes(p)
                 /\ ~(Acts(p) /\ work[p].row.node = n) \/ work'[p].stale
                 /\ work'[p] = work[p] \/ work'[p].stale
      <4>1. CASE Acts(p) /\ work[p].row.node = n
        <5>1. work[p] \in AtWork /\ work'[p] = [work[p] EXCEPT !.stale = TRUE]
              BY <2>2, <4>1, WorkShape DEF Acts
        <5>2. /\ work'[p] \in AtWork /\ work'[p].stale
              /\ work'[p].op = work[p].op /\ work'[p].id = work[p].id
              /\ work'[p].row = work[p].row /\ work'[p].at = work[p].at
              BY <5>1 DEF AtWork
        <5>. QED BY <5>1, <5>2, AtWorkIsTask DEF Goes, AtWork
      <4>2. CASE ~(Acts(p) /\ work[p].row.node = n)
            BY <2>2, <4>2, WorkShape DEF Goes, Acts
      <4>. QED BY <4>1, <4>2
    <3>2. work' = [p \in Requests |-> work'[p]]
          BY <2>2
    <3>. QED BY <3>1, <3>2
  <2>. QED BY <2>1, <2>2 DEF RemoveSwarmNode
<1>4. ASSUME NEW r \in Row, Project(r) \in DOMAIN host \ DOMAIN host' PROVE r.node = n
      BY <1>2, <1>4 DEF Project
<1>5. DockerTypeOK'
  <2>1. work' \in [Requests -> Tasks]
    <3>1. CASE Requests = {}
          BY <3>1 DEF RemoveSwarmNode, DockerTypeOK
    <3>2. CASE Requests # {}
          BY <3>2, <1>3
    <3>. QED BY <3>1, <3>2
  <2>2. DOMAIN host' \subseteq Hosts \X AllNames /\ \A prj \in DOMAIN host' : host'[prj] \in Containers
        BY <1>2 DEF DockerTypeOK
  <2>3. adrift' \subseteq Ids /\ nodes' \subseteq DockerNodes \cup SwarmNodes
        BY <1>1, <1>2 DEF DockerTypeOK
  <2>4. DOMAIN files' \subseteq Hosts \X AllNames /\ \A prj \in DOMAIN files' : files'[prj] \in Specs
    <3>1. CASE files' = files
          BY <3>1 DEF DockerTypeOK
    <3>2. CASE files' = [prj \in {q \in DOMAIN files : q[1] # n} |-> files[prj]]
          BY <3>2 DEF DockerTypeOK
    <3>. QED BY <3>1, <3>2 DEF RemoveSwarmNode
  <2>. QED BY <1>1, <2>1, <2>2, <2>3, <2>4, Spending DEF DockerTypeOK
<1>6. \A q \in Requests :
         /\ Acts(q)' <=> Acts(q)
         /\ work'[q].op = work[q].op
         /\ Acts(q) => /\ work'[q].id = work[q].id /\ work'[q].row = work[q].row
                       /\ work'[q].at = work[q].at /\ (work[q].stale => work'[q].stale)
      BY <1>3 DEF Goes, Acts, IsFree
<1>7. GivenOut'
      BY <1>1, <1>6 DEF GivenOut
<1>8. NodesAgree'
  <2>1. \A i \in DOMAIN listed \cap Services : listed[i].node # n
        BY TablesAssumption DEF NodesAgree
  <2>. QED BY <1>1, <1>6, <2>1 DEF NodesAgree, Of, Acts, IsFree
<1>9. HandsOK'
  <2>. SUFFICES ASSUME NEW q \in Requests, Acts(q)', ~work'[q].stale PROVE UpToDate(q)'
       BY DEF HandsOK
  <2>1. Acts(q) /\ work'[q] = work[q] /\ UpToDate(q)
        BY <1>3, <1>6 DEF HandsOK
  <2>2. SameHost(Mine(q))
        BY <1>2, <1>3, <2>1 DEF Mine, Project
  <2>. QED BY <1>1, <2>1, <2>2, UpToDateOn DEF SameRow
<1>10. RunningOK'
  <2>. SUFFICES ASSUME NEW i \in DOMAIN listed \ adrift', listed[i].status = "running", Untouched(i)'
                PROVE  Runs(i, listed[i])'
       BY <1>1 DEF RunningOK
  <2>1. Untouched(i) /\ i \notin adrift
        BY <1>2, <1>6 DEF Untouched, Of, Acts, Touched, Ends
  <2>2. Runs(i, listed[i]) /\ listed[i] \in Row
        BY <2>1 DEF RunningOK, DockerTypeOK
  <2>3. Project(listed[i]) \in DOMAIN host'
        BY <1>2, <1>4, <2>2 DEF Runs
  <2>. QED BY <1>1, <1>2, <2>2, <2>3 DEF Runs, Project
<1>11. FoundOK'
  <2>. SUFFICES ASSUME NEW prj \in DOMAIN host' \ left'
                PROVE  \/ On(prj)' # {}
                       \/ Unnamed(prj)'
                       \/ \E q \in Requests : (Acts(q) /\ work[q].stale /\ Mine(q) = prj)'
       BY DEF FoundOK
  <2>1. prj \in DOMAIN host \ left /\ On(prj)' = On(prj) /\ (Unnamed(prj) => Unnamed(prj)')
        BY <1>1, <1>2, UnnamedOn DEF On, Project
  <2>2. CASE \E q \in Requests : Acts(q) /\ work[q].stale /\ Mine(q) = prj
        BY <1>6, <2>2 DEF Mine, Project
  <2>. QED BY <2>1, <2>2 DEF FoundOK
<1>. QED BY <1>5, <1>7, <1>8, <1>9, <1>10, <1>11

-----------------------------------------------------------------------------
(* The actions *)

LEMMA PrepareFailsKeeps ==
    ASSUME DockerTypeOK, HostInv, NEW p \in Requests, Acts(p), work[p].op # "edit", PrepareFails(p)
    PROVE  DockerTypeOK' /\ HostInv'
<1>1. "failed" \in Touched
      BY DEF Touched, Ends
<1>2. GoTo(p, "failed") /\ HasFault /\ UNCHANGED <<listed, fresh, nodes, host, files, adrift, left>>
      BY DEF PrepareFails
<1>. QED BY <1>1, <1>2, GoesQuietly

LEMMA TrySaveKeeps ==
    ASSUME DockerTypeOK, HostInv, NEW p \in Requests, Acts(p), work[p].op # "edit",
           work[p].at \notin Touched,
           NEW status \in Statuses \ {"running"}, NEW at \in {"saved", "building", "pushing"},
           TrySaveStep(p, status, at)
    PROVE  DockerTypeOK' /\ HostInv'
<1>1. CASE SaveStep(p, status, at)
      BY <1>1, SaveStepKeeps
<1>2. CASE ~SaveStep(p, status, at)
  <2>1. GoTo(p, at) /\ UNCHANGED <<listed, fresh, nodes, host, files, adrift, left>>
        BY <1>2 DEF TrySaveStep
  <2>2. HasFault \/ UNCHANGED spent
        BY <1>2 DEF TrySaveStep
  <2>3. at \notin {"cleared", "gone"} /\ at \notin {"up", "started"}
        BY SMT
  <2>. QED BY <2>1, <2>2, <2>3, GoesQuietly
<1>. QED BY <1>1, <1>2

\* Containers come up, all of them or not.
LEMMA BringUpKeeps ==
    ASSUME DockerTypeOK, HostInv, NEW p \in Requests, Acts(p), work[p].op # "edit",
           work[p].at \in {"placed", "cleared"}, BringUp(p) \/ BringUpFails(p)
    PROVE  DockerTypeOK' /\ HostInv'
<1>1. work[p].row.spec \in Specs
      BY WorkShape DEF AtWork, Row
<1>2. PICK prj : prj = Project(work[p].row)
      OBVIOUS
<1>3. ~work[p].stale => SpecsAt(prj) = {}
      BY <1>2, SpecsThere DEF HostInv, HandsOK, UpToDate, Mine
<1>4. ASSUME NEW S \in Deployed(p)
      PROVE  S \in SUBSET Specs /\ S # {} /\ (~work[p].stale => S = {work[p].row.spec})
  <2>1. PICK T \in SUBSET SpecsAt(prj) : S = T \cup {work[p].row.spec}
        BY <1>2 DEF Deployed
  <2>. QED BY <1>1, <1>3, <2>1, SpecsThere
<1>5. "up" \in Ends /\ "failed" \in Ends /\ "failed" \in Touched
      BY DEF Ends, Touched
<1>6. CASE BringUp(p)
  <2>1. PICK S \in Deployed(p) : Replace(p, S, TRUE, "up")
        BY <1>6 DEF BringUp
  <2>. QED BY <1>4, <1>5, <1>6, <2>1, ReplaceKeeps DEF BringUp
<1>7. CASE BringUpFails(p)
  <2>1. HasFault /\ UNCHANGED <<listed, fresh, nodes, files, left>>
        BY <1>7 DEF BringUpFails
  <2>2. CASE \E S \in Deployed(p) : Replace(p, S, FALSE, "failed")
        BY <1>4, <1>5, <2>1, <2>2, ReplaceKeeps
  <2>3. CASE GoTo(p, "failed") /\ UNCHANGED <<host, adrift>>
        BY <1>5, <2>1, <2>3, GoesQuietly
  <2>. QED BY <1>7, <2>2, <2>3 DEF BringUpFails
<1>. QED BY <1>6, <1>7

\* The containers there are, if any, are stopped or started.
LEMMA ChangeKeeps ==
    ASSUME DockerTypeOK, HostInv, NEW p \in Requests, Acts(p), work[p].op # "edit",
           work[p].at = "read", NEW up \in BOOLEAN, NEW at \in Ends, NEW none \in Ends \ {"up", "started"},
           NEW prj, prj = Project(work[p].row),
           prj \in DOMAIN host =>
              /\ Replace(p, host[prj].specs, up, at)
              /\ at \in {"up", "started"} => up /\ host[prj].specs = {work[p].row.spec},
           prj \notin DOMAIN host => Proceed(p, none) /\ UNCHANGED <<host, adrift>>,
           UNCHANGED <<listed, fresh, nodes, files, left, spent>>
    PROVE  DockerTypeOK' /\ HostInv'
<1>1. CASE prj \in DOMAIN host
  <2>1. PICK S : S = host[prj].specs
        OBVIOUS
  <2>2. S \in SUBSET Specs /\ S # {}
        BY <1>1, <2>1 DEF DockerTypeOK, Containers
  <2>3. Replace(p, S, up, at)
        BY <1>1, <2>1
  <2>4. at \in {"up", "started"} => up /\ S = {work[p].row.spec}
        BY <1>1, <2>1
  <2>. QED BY <2>2, <2>3, <2>4, ReplaceKeeps
<1>2. CASE prj \notin DOMAIN host
  <2>1. Proceed(p, none) /\ UNCHANGED <<listed, fresh, nodes, host, files, adrift, left, spent>>
        BY <1>2
  <2>2. none \in Touched \ {"up", "started", "cleared", "gone"} /\ "read" \notin Touched
        BY DEF Touched, Ends
  <2>. QED BY <2>1, <2>2, GoesQuietly
<1>. QED BY <1>1, <1>2

LEMMA HaltKeeps ==
    ASSUME DockerTypeOK, HostInv, NEW p \in Requests, Halt(p)
    PROVE  DockerTypeOK' /\ HostInv'
<1>1. Acts(p) /\ work[p].op # "edit" /\ work[p].at = "read"
      BY DEF Halt, Doing, Acts, IsFree
<1>2. PICK prj : prj = Project(work[p].row)
      OBVIOUS
<1>3. PICK at \in Ends \ {"up", "started"} : at = "halted"
      BY DEF Ends
<1>4. PICK up \in BOOLEAN : up = FALSE
      OBVIOUS
<1>5. UNCHANGED <<listed, fresh, nodes, files, left, spent>>
      BY DEF Halt
<1>6. ASSUME prj \in DOMAIN host
      PROVE  /\ Replace(p, host[prj].specs, up, at)
             /\ at \in {"up", "started"} => up /\ host[prj].specs = {work[p].row.spec}
      BY <1>2, <1>3, <1>4, <1>6 DEF Halt
<1>7. ASSUME prj \notin DOMAIN host
      PROVE  Proceed(p, at) /\ UNCHANGED <<host, adrift>>
      BY <1>2, <1>3, <1>7 DEF Halt
<1>8. at \in Ends
      BY <1>3
<1>. QED BY <1>1, <1>2, <1>3, <1>5, <1>6, <1>7, <1>8, ChangeKeeps

LEMMA StartKeeps ==
    ASSUME DockerTypeOK, HostInv, NEW p \in Requests, StartContainers(p)
    PROVE  DockerTypeOK' /\ HostInv'
<1>1. Acts(p) /\ work[p].op # "edit" /\ work[p].at = "read"
      BY DEF StartContainers, Doing, Acts, IsFree
<1>2. PICK prj, at :
         /\ prj = Project(work[p].row)
         /\ at = IF host[prj].specs = {work[p].row.spec} THEN "started" ELSE "hollow"
      OBVIOUS
<1>3. PICK none \in Ends \ {"up", "started"} : none = "hollow"
      BY DEF Ends
<1>4. PICK up \in BOOLEAN : up = TRUE
      OBVIOUS
<1>5. UNCHANGED <<listed, fresh, nodes, files, left, spent>>
      BY DEF StartContainers
<1>6. ASSUME prj \in DOMAIN host
      PROVE  /\ Replace(p, host[prj].specs, up, at)
             /\ at \in {"up", "started"} => up /\ host[prj].specs = {work[p].row.spec}
  <2>1. Replace(p, host[prj].specs, TRUE, at)
        BY <1>2, <1>6 DEF StartContainers
  <2>2. at \in {"up", "started"} => host[prj].specs = {work[p].row.spec}
        BY <1>2
  <2>. QED BY <1>4, <2>1, <2>2
<1>7. ASSUME prj \notin DOMAIN host
      PROVE  Proceed(p, none) /\ UNCHANGED <<host, adrift>>
      BY <1>2, <1>3, <1>7 DEF StartContainers
<1>8. at \in Ends
      BY <1>2 DEF Ends
<1>. QED BY <1>1, <1>2, <1>3, <1>5, <1>6, <1>7, <1>8, ChangeKeeps

LEMMA ServiceKeeps ==
    ASSUME DockerTypeOK, HostInv, NEW p \in Requests, ServiceStep(p)
    PROVE  DockerTypeOK' /\ HostInv'
<1>. "read" \notin Touched /\ "saved" \notin Touched /\ "placed" \notin Touched
     BY DEF Touched, Ends
<1>1. ASSUME NEW i \in Services, NEW n \in DockerNodes, NEW name \in Names, NEW spec \in Specs,
             DeployService(p, i, n, name, spec)
      PROVE  DockerTypeOK' /\ HostInv'
  <2>1. PICK r, taken, t :
           /\ r = NewRow(name, n, spec, "deploying")
           /\ taken = (On(Project(r)) # {} \/ Project(r) \in DOMAIN host)
           /\ t = [NewWork("deploy", i, r, "placed") EXCEPT !.stale = taken]
        OBVIOUS
  <2>2. n \in nodes /\ Create(p, i, r, t)
        BY <1>1, <2>1 DEF DeployService
  <2>3. r \in Row /\ r.status # "running" /\ r.node = n /\ i \in Ids
        BY <2>1 DEF NewRow, Row, Hosts, AllNames, Statuses, Ids
  <2>4. /\ t \in AtWork /\ t.op = "deploy" /\ t.id = i /\ t.row = r /\ t.at = "placed"
        /\ t.stale = taken
        BY <2>1, <2>3 DEF NewWork, AtWork
  <2>5. t \in Tasks
        BY <2>4, AtWorkIsTask
  <2>. QED BY <2>1, <2>2, <2>3, <2>4, <2>5, CreateKeeps
<1>2. ASSUME NEW i \in DOMAIN listed \cap Services, NEW spec \in Specs, UpdateService(p, i, spec)
      PROVE  DockerTypeOK' /\ HostInv'
  <2>1. PICK r : r = [listed[i] EXCEPT !.spec = spec]
        OBVIOUS
  <2>2. /\ r \in Row /\ r.node = listed[i].node /\ r.status = listed[i].status
        /\ r.name = listed[i].name
        BY <2>1 DEF DockerTypeOK, Row
  <2>3. Read(p, "update", i, r, "read")
        BY <1>2, <2>1 DEF UpdateService
  <2>. QED BY <2>2, <2>3, ReadKeeps
<1>3. ASSUME NEW i \in DOMAIN listed \cap Services, NEW op \in {"stop", "start", "remove"},
             Read(p, op, i, listed[i], "read")
      PROVE  DockerTypeOK' /\ HostInv'
  <2>1. PICK r : r = listed[i]
        OBVIOUS
  <2>2. r \in Row /\ Read(p, op, i, r, "read")
        BY <1>3, <2>1 DEF DockerTypeOK
  <2>. QED BY <2>1, <2>2, ReadKeeps
<1>4. CASE SaveDeploying(p)
  <2>1. /\ Acts(p) /\ work[p].op # "edit" /\ SaveStep(p, "deploying", "saved")
        /\ "deploying" \in Statuses \ {"running"}
        BY <1>4 DEF SaveDeploying, Doing, Acts, IsFree, Statuses
  <2>. QED BY <2>1, SaveStepKeeps
<1>5. CASE ClearOld(p)
  <2>1. /\ Acts(p) /\ work[p].op # "edit" /\ work[p].at = "saved"
        /\ RemoveAll(p, "cleared") \/ RemoveAllFails(p, "cleared")
        BY <1>5 DEF ClearOld, Doing, Acts, IsFree
  <2>. QED BY <2>1, RemoveAllKeeps
<1>6. CASE DeployContainers(p)
  <2>1. /\ Acts(p) /\ work[p].op # "edit" /\ work[p].at \in {"placed", "cleared"}
        /\ BringUp(p) \/ BringUpFails(p)
        BY <1>6 DEF DeployContainers, Doing, Acts, IsFree
  <2>. QED BY <2>1, BringUpKeeps
<1>7. CASE NoClient(p)
  <2>1. Acts(p) /\ work[p].op # "edit" /\ PrepareFails(p)
        BY <1>7 DEF NoClient, Doing, Acts, IsFree
  <2>. QED BY <2>1, PrepareFailsKeeps
<1>8. CASE StartContainers(p)
      BY <1>8, StartKeeps
<1>9. CASE SaveRemoving(p)
  <2>1. /\ Acts(p) /\ work[p].op # "edit" /\ work[p].at = "read" /\ TrySaveStep(p, "removing", "saved")
        /\ "removing" \in Statuses \ {"running"}
        BY <1>9 DEF SaveRemoving, Doing, Acts, IsFree, Statuses
  <2>. QED BY <2>1, TrySaveKeeps
<1>10. CASE RemoveContainers(p)
  <2>1. /\ Acts(p) /\ work[p].op # "edit" /\ work[p].at = "saved"
        /\ RemoveAll(p, "gone") \/ RemoveAllFails(p, "gone")
        BY <1>10 DEF RemoveContainers, Doing, Acts, IsFree
  <2>. QED BY <2>1, RemoveAllKeeps
<1>. QED BY <1>1, <1>2, <1>3, <1>4, <1>5, <1>6, <1>7, <1>8, <1>9, <1>10 DEF ServiceStep

\* Another file is on the disk, or none.
LEMMA WrittenKeeps ==
    ASSUME DockerTypeOK, HostInv, NEW p \in Requests, Acts(p), work[p].op # "edit",
           work[p].at = "saved", NEW prj, prj = Mine(p), NEW at \in {"written", "failed"},
           \/ files' = Put(files, prj, work[p].row.spec)
           \/ at = "failed" /\ files' = Drop(files, prj),
           Proceed(p, at), UNCHANGED <<listed, fresh, nodes, host, adrift, left>>,
           HasFault \/ UNCHANGED spent
    PROVE  DockerTypeOK' /\ HostInv'
<1>. USE DEF HostInv
<1>1. work[p].row \in Row /\ prj \in Hosts \X AllNames
      BY WorkShape, ProjectIn DEF AtWork, Mine
<1>2. at \in Touched \cup {"written"} /\ work[p].at \notin Touched
      BY DEF Touched, Ends
<1>3. /\ work' \in [Requests -> Tasks]
      /\ GoesOn(p) /\ work'[p].at = at /\ work'[p].stale = work[p].stale
      /\ Elsewhere(p) /\ Overtook(p)
      /\ \A q \in Requests \ {p} : Acts(q) /\ Mine(q) = Mine(p) => work'[q].stale
      BY <1>2, ProceedGoes
<1>4. Acts(p)' /\ work'[p].id = work[p].id /\ work'[p].row = work[p].row /\ Mine(p)' = prj
      BY <1>3 DEF GoesOn, Acts, IsFree, AtWork, Mine, Project
<1>5. /\ \A x : x # prj => SameHost(x)
      /\ at = "written" => prj \in DOMAIN files' /\ files'[prj] = work[p].row.spec
      /\ DOMAIN files' \subseteq Hosts \X AllNames /\ \A x \in DOMAIN files' : files'[x] \in Specs
      BY <1>1 DEF Put, Drop, SameHost, DockerTypeOK, Row
<1>6. DockerTypeOK'
      BY <1>3, <1>5, Spending DEF DockerTypeOK
<1>7. GivenOut'
      BY <1>3, <1>4, GivenKept DEF GivenOut, Elsewhere
<1>8. NodesAgree'
      BY <1>3, NodesKept DEF Elsewhere
<1>9. HandsOK'
  <2>1. Acts(p)' /\ ~work'[p].stale => UpToDate(p)'
        BY <1>3, <1>4, <1>5 DEF HandsOK, UpToDate, GoesOn, Mine, Project
  <2>2. \A q \in Requests \ {p} : Acts(q) /\ ~work'[q].stale => SameRow(work[q].id) /\ SameHost(Mine(q))
        BY <1>3, <1>5 DEF SameRow
  <2>. QED BY <1>3, <2>1, <2>2, HandsKept DEF Elsewhere
<1>10. RunningOK'
  <2>. SUFFICES ASSUME NEW i \in DOMAIN listed \ adrift, listed[i].status = "running", Untouched(i)'
                PROVE  Runs(i, listed[i])'
       BY DEF RunningOK
  <2>1. Untouched(i)
        BY <1>2, <1>3, StillUntouched DEF Elsewhere
  <2>. QED BY <2>1 DEF RunningOK, Runs
<1>11. FoundOK'
  <2>1. \A x : On(x)' = On(x)
        BY DEF On
  <2>2. \A x : Knows(p, x) => Knows(p, x)'
        BY <1>3, <1>4 DEF Knows
  <2>3. On(prj) # {} \/ Knows(p, prj)
        BY DEF HandsOK, UpToDate, On, Knows
  <2>4. ASSUME NEW x \in DOMAIN host' \ left'
        PROVE  \/ On(x)' # {}
               \/ Unnamed(x)'
               \/ Knows(p, x)'
               \/ x \in DOMAIN host \ left /\ On(x) = {} /\ ~Unnamed(x) /\ ~Knows(p, x)
    <3>1. CASE x = prj
          BY <2>1, <2>2, <2>3, <3>1
    <3>2. CASE x # prj
          BY <1>5, <2>1, <2>2, <2>4, <3>2, UnnamedOn
    <3>. QED BY <3>1, <3>2
  <2>. QED BY <1>3, <2>4, FoundKept DEF Elsewhere
<1>. QED BY <1>6, <1>7, <1>8, <1>9, <1>10, <1>11

LEMMA ComposeUpKeeps ==
    ASSUME DockerTypeOK, HostInv, NEW p \in Requests, ComposeUp(p) \/ ComposeUpFails(p)
    PROVE  DockerTypeOK' /\ HostInv'
<1>1. /\ Acts(p) /\ work[p].op # "edit" /\ work[p].at = "written"
      /\ UNCHANGED <<listed, fresh, nodes, files, left>>
      BY DEF ComposeUp, ComposeUpFails, Doing, Acts, IsFree
<1>2. PICK prj, spec : prj = Project(work[p].row) /\ spec = files[prj]
      OBVIOUS
<1>3. /\ prj \in DOMAIN files => spec \in Specs
      /\ ~work[p].stale => spec = work[p].row.spec
      BY <1>1, <1>2 DEF DockerTypeOK, HostInv, HandsOK, UpToDate, Mine
<1>4. "up" \in Ends /\ "failed" \in Ends /\ "failed" \in Touched /\ "written" \notin Touched
      BY DEF Ends, Touched
<1>5. CASE ComposeUp(p)
  <2>1. prj \in DOMAIN files /\ Replace(p, {spec}, TRUE, "up") /\ UNCHANGED spent
        BY <1>2, <1>5 DEF ComposeUp
  <2>. QED BY <1>1, <1>3, <1>4, <2>1, ReplaceKeeps
<1>6. CASE ComposeUpFails(p)
  <2>1. CASE GoTo(p, "failed") /\ UNCHANGED <<host, adrift>> /\ (HasFault \/ UNCHANGED spent)
        BY <1>1, <1>4, <2>1, GoesQuietly
  <2>2. ASSUME HasFault, prj \in DOMAIN files, NEW S \in SUBSET (SpecsAt(prj) \cup {spec}),
               Replace(p, S, FALSE, "failed")
        PROVE  DockerTypeOK' /\ HostInv'
    <3>1. S \in SUBSET Specs
          BY <1>3, <2>2, SpecsThere
    <3>. QED BY <1>1, <1>4, <2>2, <3>1, ReplaceKeeps
  <2>. QED BY <1>2, <1>6, <2>1, <2>2 DEF ComposeUpFails
<1>. QED BY <1>5, <1>6

LEMMA ComposeDownKeeps ==
    ASSUME DockerTypeOK, HostInv, NEW p \in Requests, ComposeDown(p)
    PROVE  DockerTypeOK' /\ HostInv'
<1>1. /\ Acts(p) /\ work[p].op # "edit" /\ work[p].at \notin Touched
      /\ Of(p, Stacks \cup Components)
      BY DEF ComposeDown, Doing, Acts, IsFree, Touched, Ends
<1>2. "gone" \in Touched /\ "gone" \notin {"up", "started"}
      BY DEF Touched, Ends
<1>3. PICK name : name = work[p].row.name
      OBVIOUS
<1>4. PICK managers, found :
         /\ managers = IF Of(p, Stacks) THEN ManagerNodes \cap nodes ELSE {}
         /\ found = IF work[p].row.node \in nodes \cap SwarmNodes THEN {work[p].row.node} ELSE managers
      OBVIOUS
<1>5. name \in AllNames /\ managers \subseteq SwarmNodes /\ found \subseteq SwarmNodes
  <2>1. work[p].row \in Row
        BY <1>1, WorkShape DEF AtWork
  <2>. QED BY <1>3, <1>4, <2>1, TablesAssumption DEF Row
<1>6. ASSUME NEW n \in SwarmNodes, NEW prj, prj = <<n, name>>, NEW S \in Spared(prj),
             TakeDown(p, prj, S, "gone"), HasFault \/ UNCHANGED spent
      PROVE  DockerTypeOK' /\ HostInv'
  <2>1. prj \in Hosts \X AllNames /\ prj[1] = n
        BY <1>5, <1>6 DEF Hosts
  <2>2. S \in SUBSET SpecsAt(prj) /\ (prj \in DOMAIN files => files[prj] \notin S)
        BY <1>6 DEF Spared
  <2>3. S # {} => Unnamed(prj)'
    <3>1. host' = Populate(prj, S, prj \in DOMAIN host /\ host[prj].up) /\ files' = files
          BY <1>6 DEF TakeDown
    <3>2. S # {} => host'[prj].specs = S
          BY <3>1 DEF Populate, Put
    <3>. QED BY <2>1, <2>2, <3>1, <3>2 DEF Unnamed
  <2>. QED BY <1>1, <1>6, <2>1, <2>2, <2>3, TakeDownKeeps
<1>7. ASSUME NEW n \in SwarmNodes, TakeDownFails(p, <<n, name>>, "gone")
      PROVE  DockerTypeOK' /\ HostInv'
  <2>1. PICK prj : prj = <<n, name>>
        OBVIOUS
  <2>2. prj \in Hosts \X AllNames
        BY <1>5, <2>1 DEF Hosts
  <2>. QED BY <1>1, <1>7, <2>1, <2>2, TakeDownFailsKeeps
<1>8. CASE /\ GoOnRegardless(p, "gone")
           /\ UNCHANGED <<listed, fresh, nodes, host, files, adrift, left, spent>>
      BY <1>1, <1>2, <1>8, GoesQuietly
<1>9. \/ \E n \in found : \E S \in Spared(<<n, name>>) : TakeDown(p, <<n, name>>, S, "gone") /\ UNCHANGED spent
      \/ \E n \in managers : \E S \in Spared(<<n, name>>) : HasFault /\ TakeDown(p, <<n, name>>, S, "gone")
      \/ \E n \in found : TakeDownFails(p, <<n, name>>, "gone")
      \/ /\ GoOnRegardless(p, "gone")
         /\ UNCHANGED <<listed, fresh, nodes, host, files, adrift, left, spent>>
      BY <1>3, <1>4 DEF ComposeDown
<1>. QED BY <1>5, <1>6, <1>7, <1>8, <1>9

LEMMA StackKeeps ==
    ASSUME DockerTypeOK, HostInv, NEW p \in Requests, StackStep(p)
    PROVE  DockerTypeOK' /\ HostInv'
<1>1. ASSUME NEW i \in Stacks \cup Components, NEW n \in SwarmNodes, NEW name \in AllNames,
             NEW spec \in Specs, NEW status \in {"deploying", "pending"}, NEW r, NEW t,
             r = NewRow(name, n, spec, status), t = NewWork("deploy", i, r, "saved"),
             Create(p, i, r, t)
      PROVE  DockerTypeOK' /\ HostInv'
  <2>1. r \in Row /\ r.status # "running" /\ i \in Ids /\ i \notin Services
        BY <1>1, TablesAssumption DEF NewRow, Row, Hosts, Statuses, Ids
  <2>2. t \in AtWork /\ t.op = "deploy" /\ t.id = i /\ t.row = r /\ t.at = "saved"
        BY <1>1, <2>1 DEF NewWork, AtWork
  <2>3. t \in Tasks
        BY <2>2, AtWorkIsTask
  <2>. QED BY <1>1, <2>1, <2>2, <2>3, CreateKeeps
<1>2. ASSUME NEW i \in Stacks, NEW n \in SwarmNodes, NEW name \in Names, NEW spec \in Specs,
             DeployStack(p, i, n, name, spec)
      PROVE  DockerTypeOK' /\ HostInv'
      BY <1>1, <1>2 DEF DeployStack, AllNames
<1>3. ASSUME NEW i \in Components, NEW n \in SwarmNodes, NEW spec \in Specs,
             DeployComponent(p, i, n, spec)
      PROVE  DockerTypeOK' /\ HostInv'
      BY <1>1, <1>3 DEF DeployComponent, AllNames
<1>4. ASSUME NEW i \in DOMAIN listed \cap Stacks, NEW spec \in Specs, UpdateStack(p, i, spec)
      PROVE  DockerTypeOK' /\ HostInv'
  <2>1. PICK r : r = [listed[i] EXCEPT !.spec = spec]
        OBVIOUS
  <2>2. /\ r \in Row /\ r.node = listed[i].node /\ r.status = listed[i].status
        /\ r.name = listed[i].name
        BY <2>1 DEF DockerTypeOK, Row
  <2>3. Read(p, "update", i, r, "read")
        BY <1>4, <2>1 DEF UpdateStack
  <2>. QED BY <2>2, <2>3, ReadKeeps
<1>5. ASSUME NEW i \in DOMAIN listed, NEW op \in {"redeploy", "remove"}, NEW at \in {"read", "saved"},
             Read(p, op, i, listed[i], at)
      PROVE  DockerTypeOK' /\ HostInv'
  <2>1. PICK r : r = listed[i]
        OBVIOUS
  <2>2. r \in Row /\ Read(p, op, i, r, at)
        BY <1>5, <2>1 DEF DockerTypeOK
  <2>. QED BY <2>1, <2>2, ReadKeeps
<1>6. ASSUME NEW i \in DOMAIN listed \cap Components, RedeployComponent(p, i)
      PROVE  DockerTypeOK' /\ HostInv'
      BY <1>5, <1>6 DEF RedeployComponent
<1>7. CASE SaveUpdating(p)
  <2>1. /\ Acts(p) /\ work[p].op # "edit" /\ SaveStep(p, "updating", "saved")
        /\ "updating" \in Statuses \ {"running"}
        BY <1>7 DEF SaveUpdating, Doing, Acts, IsFree, Statuses
  <2>. QED BY <2>1, SaveStepKeeps
<1>8. CASE WriteFile(p) \/ WriteFails(p)
  <2>1. Acts(p) /\ work[p].op # "edit" /\ work[p].at = "saved"
        BY <1>8 DEF WriteFile, WriteFails, Doing, Acts, IsFree
  <2>2. PICK prj : prj = Mine(p)
        OBVIOUS
  <2>3. "failed" \in Touched
        BY DEF Touched, Ends
  <2>4. CASE WriteFile(p)
    <3>1. /\ files' = Put(files, prj, work[p].row.spec) /\ Proceed(p, "written")
          /\ UNCHANGED <<listed, fresh, nodes, host, adrift, left, spent>>
          BY <2>2, <2>4 DEF WriteFile, Mine
    <3>. QED BY <2>1, <2>2, <3>1, WrittenKeeps
  <2>5. CASE PrepareFails(p)
        BY <2>1, <2>5, PrepareFailsKeeps
  <2>6. CASE /\ HasFault /\ files' = Drop(files, Project(work[p].row)) /\ Proceed(p, "failed")
             /\ UNCHANGED <<listed, fresh, nodes, host, adrift, left>>
    <3>1. files' = Drop(files, prj)
          BY <2>2, <2>6 DEF Mine
    <3>. QED BY <2>1, <2>2, <2>6, <3>1, WrittenKeeps
  <2>7. CASE /\ GoTo(p, "failed")
             /\ UNCHANGED <<listed, fresh, nodes, host, files, adrift, left, spent>>
        BY <2>1, <2>3, <2>7, GoesQuietly
  <2>. QED BY <1>8, <2>4, <2>5, <2>6, <2>7 DEF WriteFails
<1>10. CASE ComposeUp(p) \/ ComposeUpFails(p)
       BY <1>10, ComposeUpKeeps
<1>9. CASE ComposeDown(p)
      BY <1>9, ComposeDownKeeps
<1>. QED BY <1>2, <1>3, <1>4, <1>5, <1>6, <1>7, <1>8, <1>9, <1>10 DEF StackStep

LEMMA PanicKeeps ==
    ASSUME DockerTypeOK, HostInv, NEW p \in Requests, PanicWithoutNetworks(p)
    PROVE  DockerTypeOK' /\ HostInv'
<1>1. Acts(p) /\ work[p].op # "edit"
      BY DEF PanicWithoutNetworks, Doing, Acts, IsFree
<1>2. work[p].row \in Row
      BY <1>1, WorkShape DEF AtWork
<1>3. PICK prj, c : prj = Mine(p) /\ c = [specs |-> {work[p].row.spec}, up |-> FALSE]
      OBVIOUS
<1>4. prj \in Hosts \X AllNames /\ c \in Containers
      BY <1>2, <1>3, ProjectIn DEF Mine, Containers, Row
<1>5. /\ prj \notin DOMAIN host /\ host' = Put(host, prj, c)
      /\ StopAll /\ UNCHANGED <<listed, fresh, nodes, files, spent>>
      BY <1>3 DEF PanicWithoutNetworks, Taken, Mine
<1>6. On(prj) # {} \/ prj \in left'
  <2>1. CASE work[p].stale
        BY <1>1, <1>3, <2>1 DEF PanicWithoutNetworks, StopAll, Orphaned, Acts, Mine
  <2>2. CASE ~work[p].stale
        BY <1>1, <1>3, <2>2 DEF HostInv, HandsOK, UpToDate, On
  <2>. QED BY <2>1, <2>2
<1>. QED BY <1>4, <1>5, <1>6, StopAllKeeps

LEMMA AppKeeps ==
    ASSUME DockerTypeOK, HostInv, NEW p \in Requests, AppStep(p)
    PROVE  DockerTypeOK' /\ HostInv'
<1>. "read" \notin Touched /\ "building" \notin Touched /\ "pushing" \notin Touched /\ "saved" \notin Touched
     BY DEF Touched, Ends
<1>1. ASSUME NEW i \in Apps, NEW name \in AppNames, NEW spec \in Specs, CreateApp(p, i, name, spec)
      PROVE  DockerTypeOK' /\ HostInv'
  <2>1. PICK r, t : r = NewRow(name, Local, spec, "idle") /\ t = Free
        OBVIOUS
  <2>2. r \in Row /\ r.status # "running" /\ i \in Ids /\ i \notin Services
        BY <2>1, TablesAssumption DEF NewRow, Row, Hosts, AllNames, Statuses, Ids
  <2>3. Create(p, i, r, t) /\ t \in Tasks
        BY <1>1, <2>1, FreeIsTask DEF CreateApp
  <2>. QED BY <2>1, <2>2, <2>3, CreateKeeps
<1>2. ASSUME NEW i \in DOMAIN listed \cap Apps, NEW name \in AppNames, NEW spec \in Specs,
             EditApp(p, i, name, spec)
      PROVE  DockerTypeOK' /\ HostInv'
  <2>1. PICK r : r = [listed[i] EXCEPT !.name = name, !.spec = spec]
        OBVIOUS
  <2>2. r \in Row /\ r.node = listed[i].node /\ r.status = listed[i].status
        BY <2>1 DEF DockerTypeOK, Row, AllNames
  <2>3. Read(p, "edit", i, r, "read")
        BY <1>2, <2>1 DEF EditApp
  <2>. QED BY <2>2, <2>3, ReadKeeps
<1>3. ASSUME NEW i \in DOMAIN listed \cap Apps, NEW op \in {"build", "stop", "remove"},
             Read(p, op, i, listed[i], "read")
      PROVE  DockerTypeOK' /\ HostInv'
  <2>1. PICK r : r = listed[i]
        OBVIOUS
  <2>2. r \in Row /\ Read(p, op, i, r, "read")
        BY <1>3, <2>1 DEF DockerTypeOK
  <2>. QED BY <2>1, <2>2, ReadKeeps
<1>4. CASE SaveEdit(p)
      BY <1>4, SaveEditKeeps
<1>5. CASE SaveBuilding(p)
  <2>1. /\ Acts(p) /\ work[p].op # "edit" /\ SaveStep(p, "building", "building")
        /\ "building" \in Statuses \ {"running"}
        BY <1>5 DEF SaveBuilding, Doing, Acts, IsFree, Statuses
  <2>. QED BY <2>1, SaveStepKeeps
<1>6. CASE SavePushing(p)
  <2>1. /\ Acts(p) /\ work[p].op # "edit" /\ work[p].at = "building"
        /\ TrySaveStep(p, "pushing", "pushing") /\ "pushing" \in Statuses \ {"running"}
        BY <1>6 DEF SavePushing, Doing, Acts, IsFree, Statuses
  <2>. QED BY <2>1, TrySaveKeeps
<1>7. CASE SaveDeployingApp(p)
  <2>1. /\ Acts(p) /\ work[p].op # "edit" /\ work[p].at = "pushing"
        /\ TrySaveStep(p, "deploying", "saved") /\ "deploying" \in Statuses \ {"running"}
        BY <1>7 DEF SaveDeployingApp, Doing, Acts, IsFree, Statuses
  <2>. QED BY <2>1, TrySaveKeeps
<1>8. CASE BuildFails(p)
  <2>1. Acts(p) /\ work[p].op # "edit" /\ PrepareFails(p)
        BY <1>8 DEF BuildFails, Doing, Acts, IsFree
  <2>. QED BY <2>1, PrepareFailsKeeps
<1>9. CASE ClearContainer(p)
  <2>1. /\ Acts(p) /\ work[p].op # "edit" /\ work[p].at = "saved"
        /\ RemoveAll(p, "cleared") \/ RemoveAllFails(p, "cleared")
        BY <1>9 DEF ClearContainer, Doing, Acts, IsFree
  <2>. QED BY <2>1, RemoveAllKeeps
<1>10. CASE CreateFails(p)
  <2>1. Acts(p) /\ work[p].op # "edit"
        BY <1>10 DEF CreateFails, Doing, Acts, IsFree
  <2>2. CASE PrepareFails(p)
        BY <2>1, <2>2, PrepareFailsKeeps
  <2>3. CASE GoTo(p, "failed") /\ UNCHANGED <<listed, fresh, nodes, host, files, adrift, left, spent>>
    <3>1. "failed" \in Touched
          BY DEF Touched, Ends
    <3>. QED BY <2>1, <2>3, <3>1, GoesQuietly
  <2>. QED BY <1>10, <2>2, <2>3 DEF CreateFails
<1>11. CASE RunContainer(p)
  <2>1. /\ Acts(p) /\ work[p].op # "edit" /\ work[p].at = "cleared"
        /\ BringUp(p) \/ BringUpFails(p)
        BY <1>11 DEF RunContainer, Doing, Acts, IsFree
  <2>. QED BY <2>1, BringUpKeeps
<1>12. CASE PanicWithoutNetworks(p)
      BY <1>12, PanicKeeps
<1>13. CASE StopIgnored(p)
  <2>1. /\ Acts(p) /\ work[p].op # "edit" /\ work[p].at = "read" /\ GoTo(p, "halted") /\ HasFault
        /\ UNCHANGED <<listed, fresh, nodes, host, files, adrift, left>>
        BY <1>13 DEF StopIgnored, Doing, Acts, IsFree
  <2>2. "halted" \in Touched
        BY DEF Touched, Ends
  <2>. QED BY <2>1, <2>2, GoesQuietly
<1>14. CASE RemoveAppContainer(p)
  <2>1. /\ Acts(p) /\ work[p].op # "edit" /\ work[p].at = "read"
        /\ RemoveAll(p, "gone") \/ RemoveAllFails(p, "gone")
        BY <1>14 DEF RemoveAppContainer, Doing, Acts, IsFree
  <2>. QED BY <2>1, RemoveAllKeeps
<1>. QED BY <1>1, <1>2, <1>3, <1>4, <1>5, <1>6, <1>7, <1>8, <1>9, <1>10, <1>11, <1>12, <1>13, <1>14
         DEF AppStep

-----------------------------------------------------------------------------
(* The invariant and the theorems *)

DockerInv == DockerTypeOK /\ HostInv

LEMMA DockerInvInit == DockerInit => DockerInv
<1>. SUFFICES ASSUME DockerInit PROVE DockerInv
     OBVIOUS
<1>1. \A q \in Requests : work[q] = Free /\ ~Acts(q) /\ work[q].op = "none"
      BY DEF DockerInit, Acts, IsFree, Free
<1>2. DockerTypeOK
      BY BatchesAssumption, LimitsAssumption, FreeIsTask DEF DockerInit, DockerTypeOK
<1>3. HostInv
      BY <1>1 DEF DockerInit, HostInv, GivenOut, NodesAgree, HandsOK, RunningOK, FoundOK, Of, Acts
<1>. QED BY <1>2, <1>3 DEF DockerInv

LEMMA DockerInvStep == DockerInv /\ [DockerNext]_dockerVars => DockerInv'
<1>. SUFFICES ASSUME DockerTypeOK, HostInv, [DockerNext]_dockerVars PROVE DockerTypeOK' /\ HostInv'
     BY DEF DockerInv
<1>1. ASSUME NEW p \in Requests,
             \/ ServiceStep(p) \/ StackStep(p) \/ AppStep(p)
             \/ Halt(p) \/ SaveOutcome(p) \/ DeleteRow(p)
             \/ GiveUp(p) \/ SaveRefused(p)
      PROVE  DockerTypeOK' /\ HostInv'
      BY <1>1, ServiceKeeps, StackKeeps, AppKeeps, HaltKeeps, SaveOutcomeKeeps, DeleteRowKeeps,
         GiveUpKeeps, SaveRefusedKeeps
<1>2. CASE \E n \in DockerNodes : DeleteDockerNode(n)
      BY <1>2, DeleteDockerNodeKeeps
<1>3. CASE \E n \in SwarmNodes : RemoveSwarmNode(n)
      BY <1>3, RemoveSwarmNodeKeeps
<1>4. CASE Restart
  <2>1. HasFault /\ StopAll /\ UNCHANGED <<listed, fresh, nodes, host, files>>
        BY <1>4 DEF Restart
  <2>. QED BY <2>1, StopAllKeeps
<1>5. CASE UNCHANGED dockerVars
  <2>1. UNCHANGED <<listed, fresh, nodes, host, files, work, adrift, left, commands, faults>>
        BY <1>5 DEF dockerVars, spent
  <2>2. DockerTypeOK'
        BY <2>1 DEF DockerTypeOK
  <2>3. HostInv'
        BY <2>1 DEF HostInv, GivenOut, NodesAgree, HandsOK, UpToDate, RunningOK, Untouched, FoundOK,
                    Runs, On, Of, Unnamed, Acts, IsFree, Mine, Project
  <2>. QED BY <2>2, <2>3
<1>. QED BY <1>1, <1>2, <1>3, <1>4, <1>5 DEF DockerNext

LEMMA DockerInvariant == DockerSpec => []DockerInv
BY DockerInvInit, DockerInvStep, PTL DEF DockerSpec

\* Rows, containers and the work under way keep to their types.
THEOREM DockerTypeCorrect == DockerSpec => []DockerTypeOK
<1>1. DockerInv => DockerTypeOK
      BY DEF DockerInv
<1>. QED BY <1>1, DockerInvariant, PTL

\* A row at rest that says "running" tells the truth, whatever deployments,
\* edits, removals, failures and restarts overlapped, but for the rows adrift
\* (service_commands.go, swarm_stack_commands.go, app_commands.go).
THEOREM RunningTellsTruth == DockerSpec => []RunningIsDeployed
<1>1. DockerInv => RunningIsDeployed
  <2>. SUFFICES ASSUME DockerInv, NEW i \in DOMAIN listed, listed[i].status = "running", AtRest(i)
                PROVE  Runs(i, listed[i])
       BY DEF RunningIsDeployed, Runs
  <2>1. i \notin adrift /\ Untouched(i)
        BY DEF AtRest, Untouched
  <2>. QED BY <2>1 DEF DockerInv, HostInv, RunningOK
<1>. QED BY <1>1, DockerInvariant, PTL

\* What runs can be found by a row or is being worked on, but for containers whose
\* compose file was overwritten by one that did not come up, and for what was left
\* when a removal failed or a row went before its deployment ended
\* (swarm_stack_commands.go:28, 66, 359; service_commands.go:293).
THEOREM NothingForgotten == DockerSpec => []NothingLeftBehind
<1>1. DockerInv => NothingLeftBehind
      BY DEF DockerInv, HostInv, FoundOK, NothingLeftBehind, Acts, Mine
<1>. QED BY <1>1, DockerInvariant, PTL
=============================================================================
