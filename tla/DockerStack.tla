----------------------------- MODULE DockerStack -----------------------------
(***************************************************************************)
(* docker compose over SSH on the nodes of a swarm: stacks                 *)
(* (swarm_stack_commands.go), and the project's own components             *)
(* (deploy_vvs_component.go), each of which has a directory of its own and *)
(* is deployed in the background.  A stack has a target node.              *)
(***************************************************************************)
EXTENDS DockerHost

DeployStack(p, i, n, name, spec) ==
    LET r == NewRow(name, n, spec, "deploying") IN
    n \in nodes /\ Create(p, i, r, NewWork("deploy", i, r, "saved"))

UpdateStack(p, i, spec) ==
    Read(p, "update", i, [listed[i] EXCEPT !.spec = spec], "read")

SaveUpdating(p) ==
    /\ Doing(p, {"update"}, "read") /\ Of(p, Stacks)
    /\ SaveStep(p, "updating", "saved")

DeployComponent(p, i, n, spec) ==
    LET r == NewRow(i, n, spec, "pending") IN
    n \in nodes /\ Create(p, i, r, NewWork("deploy", i, r, "saved"))

\* The status stays what it was until the end.
RedeployComponent(p, i) == Read(p, "redeploy", i, listed[i], "saved")

\* The new file goes over the old one on the node's disk.  Its node may have been
\* removed; for a component, the registry, the image and the build come before it.
WriteFile(p) ==
    /\ Doing(p, {"deploy", "update", "redeploy"}, "saved") /\ Of(p, Stacks \cup Components)
    /\ work[p].row.node \in nodes
    /\ files' = Put(files, Project(work[p].row), work[p].row.spec)
    /\ Proceed(p, "written")
    /\ UNCHANGED <<listed, fresh, nodes, host, adrift, left, spent>>

\* The connection may break while it is written: what is there is no compose file.
WriteFails(p) ==
    /\ Doing(p, {"deploy", "update", "redeploy"}, "saved") /\ Of(p, Stacks \cup Components)
    /\ \/ work[p].row.node \in nodes /\ PrepareFails(p)
       \/ /\ HasFault
          /\ work[p].row.node \in nodes
          /\ files' = Drop(files, Project(work[p].row))
          /\ Proceed(p, "failed")
          /\ UNCHANGED <<listed, fresh, nodes, host, adrift, left>>
       \/ /\ work[p].row.node \notin nodes
          /\ GoTo(p, "failed")
          /\ UNCHANGED <<listed, fresh, nodes, host, files, adrift, left, spent>>

\* `up --remove-orphans` goes by the file on the disk, whoever wrote it.
ComposeUp(p) ==
    /\ Doing(p, {"deploy", "update", "redeploy"}, "written")
    /\ LET prj == Project(work[p].row) IN
          prj \in DOMAIN files /\ Replace(p, {files[prj]}, TRUE, "up")
    /\ UNCHANGED <<listed, fresh, nodes, files, left, spent>>

\* The login to a stack's registry, or `up`, at any container, or there is no file.
ComposeUpFails(p) ==
    /\ Doing(p, {"deploy", "update", "redeploy"}, "written")
    /\ LET prj == Project(work[p].row) IN
          \/ HasFault /\ GoTo(p, "failed") /\ UNCHANGED <<host, adrift>>
          \/ prj \notin DOMAIN files /\ GoTo(p, "failed") /\ UNCHANGED <<host, adrift, spent>>
          \/ /\ HasFault
             /\ prj \in DOMAIN files
             /\ \E S \in SUBSET (SpecsAt(prj) \cup {files[prj]}) : Replace(p, S, FALSE, "failed")
    /\ UNCHANGED <<listed, fresh, nodes, files, left>>

\* `down` has no --remove-orphans: it takes away the services of the file on the
\* disk, and containers of another file where they have the name of one of them.
Spared(prj) ==
    IF prj \in DOMAIN files THEN SUBSET (SpecsAt(prj) \ {files[prj]}) ELSE {SpecsAt(prj)}

\* A stack whose node is not found, gone or not, is taken down on any manager
\* there is; its own containers stay then, as they do when there is none.
ComposeDown(p) ==
    /\ Doing(p, {"remove"}, "read") /\ Of(p, Stacks \cup Components)
    /\ LET r == work[p].row
           managers == IF Of(p, Stacks) THEN ManagerNodes \cap nodes ELSE {}
           found == IF r.node \in nodes \cap SwarmNodes THEN {r.node} ELSE managers
           Down(n) == \E S \in Spared(<<n, r.name>>) : TakeDown(p, <<n, r.name>>, S, "gone")
       IN  \/ \E n \in found : Down(n) /\ UNCHANGED spent
           \/ \E n \in managers : HasFault /\ Down(n)
           \/ \E n \in found : TakeDownFails(p, <<n, r.name>>, "gone")
           \/ /\ found = {}
              /\ GoOnRegardless(p, "gone")
              /\ UNCHANGED <<listed, fresh, nodes, host, files, adrift, left, spent>>

\* Whether stacks run there is not looked at; a rented server is given back with
\* all that runs on it.
RemoveSwarmNode(n) ==
    /\ HasCommand
    /\ n \in nodes \cap SwarmNodes
    /\ nodes' = nodes \ {n}
    /\ \/ UNCHANGED <<host, files, adrift, work>>
       \/ /\ host' = [prj \in {q \in DOMAIN host : q[1] # n} |-> host[prj]]
          /\ files' = [prj \in {q \in DOMAIN files : q[1] # n} |-> files[prj]]
          /\ adrift' = adrift \cup {i \in DOMAIN listed : listed[i].node = n}
          /\ work' = [p \in Requests |-> IF ~IsFree(p) /\ work[p].row.node = n
                                     THEN [work[p] EXCEPT !.stale = TRUE] ELSE work[p]]
    /\ UNCHANGED <<listed, fresh, left>>

StackStep(p) ==
    \/ \E n \in SwarmNodes, spec \in Specs :
          \/ \E i \in Stacks, name \in Names : DeployStack(p, i, n, name, spec)
          \/ \E i \in Components : DeployComponent(p, i, n, spec)
    \/ \E i \in DOMAIN listed \cap Stacks, spec \in Specs : UpdateStack(p, i, spec)
    \/ \E i \in DOMAIN listed \cap Components : RedeployComponent(p, i)
    \/ \E i \in DOMAIN listed \cap (Stacks \cup Components) : Read(p, "remove", i, listed[i], "read")
    \/ SaveUpdating(p) \/ WriteFile(p) \/ WriteFails(p) \/ ComposeUp(p) \/ ComposeUpFails(p)
    \/ ComposeDown(p)
=============================================================================
