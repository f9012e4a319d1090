---------------------------- MODULE DockerService ----------------------------
(***************************************************************************)
(* Compose projects on Docker nodes (service_commands.go), and deleting a  *)
(* node.  The request goes on while the containers are worked on.          *)
(***************************************************************************)
EXTENDS DockerHost

\* There may be containers of that name already, of which it knows nothing.
DeployService(p, i, n, name, spec) ==
    /\ n \in nodes
    /\ LET r == NewRow(name, n, spec, "deploying")
           taken == On(Project(r)) # {} \/ Project(r) \in DOMAIN host
       IN  Create(p, i, r, [NewWork("deploy", i, r, "placed") EXCEPT !.stale = taken])

UpdateService(p, i, spec) ==
    Read(p, "update", i, [listed[i] EXCEPT !.spec = spec], "read")

SaveDeploying(p) ==
    /\ Doing(p, {"update"}, "read") /\ Of(p, Services)
    /\ SaveStep(p, "deploying", "saved")

\* Slip: the containers of the old file are left where they are.
ClearOldNot(p) ==
    /\ Doing(p, {"update"}, "saved") /\ Of(p, Services)
    /\ GoTo(p, "cleared")
    /\ UNCHANGED <<listed, fresh, nodes, host, files, adrift, left, spent>>

\* RemoveContainers before the new file is deployed.
ClearOld(p) ==
    /\ Doing(p, {"update"}, "saved") /\ Of(p, Services)
    /\ RemoveAll(p, "cleared") \/ RemoveAllFails(p, "cleared")

DeployContainers(p) ==
    /\ Doing(p, {"deploy"}, "placed") \/ Doing(p, {"update"}, "cleared")
    /\ Of(p, Services)
    /\ BringUp(p) \/ BringUpFails(p)

\* The node's certificates do not make a client.
NoClient(p) ==
    /\ Doing(p, {"deploy"}, "placed") \/ Doing(p, {"update"}, "saved")
    /\ Of(p, Services)
    /\ PrepareFails(p)

\* The containers there are, if any, are started; whether they are those of the
\* row's file is not looked at.
StartContainers(p) ==
    /\ Doing(p, {"start"}, "read")
    /\ LET prj == Project(work[p].row) IN
          IF prj \in DOMAIN host
          THEN Replace(p, host[prj].specs, TRUE,
                       IF host[prj].specs = {work[p].row.spec} THEN "started" ELSE "hollow")
          ELSE Proceed(p, "hollow") /\ UNCHANGED <<host, adrift>>
    /\ UNCHANGED <<listed, fresh, nodes, files, left, spent>>

SaveRemoving(p) ==
    /\ Doing(p, {"remove"}, "read") /\ Of(p, Services)
    /\ TrySaveStep(p, "removing", "saved")

\* Slip: the row goes without its containers.
RemoveContainersNot(p) ==
    /\ Doing(p, {"remove"}, "saved") /\ Of(p, Services)
    /\ GoTo(p, "gone")
    /\ UNCHANGED <<listed, fresh, nodes, host, files, adrift, left, spent>>

RemoveContainers(p) ==
    /\ Doing(p, {"remove"}, "saved") /\ Of(p, Services)
    /\ RemoveAll(p, "gone") \/ RemoveAllFails(p, "gone")

\* Refused while the node has services, by the foreign key too.
DeleteDockerNode(n) ==
    /\ HasCommand
    /\ n \in nodes \cap DockerNodes
    /\ \A i \in DOMAIN listed \cap Services : listed[i].node # n
    /\ nodes' = nodes \ {n}
    /\ UNCHANGED <<listed, fresh, host, files, work, adrift, left>>

ServiceStep(p) ==
    \/ \E i \in Services, n \in DockerNodes, name \in Names, spec \in Specs :
          DeployService(p, i, n, name, spec)
    \/ \E i \in DOMAIN listed \cap Services :
          \/ \E spec \in Specs : UpdateService(p, i, spec)
          \/ \E op \in {"stop", "start", "remove"} : Read(p, op, i, listed[i], "read")
    \/ SaveDeploying(p) \/ ClearOld(p) \/ DeployContainers(p) \/ NoClient(p)
    \/ StartContainers(p)
    \/ SaveRemoving(p) \/ RemoveContainers(p)
=============================================================================
