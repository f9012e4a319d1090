------------------------------ MODULE DockerApp ------------------------------
(***************************************************************************)
(* Apps built from a repository and run, one container each, on the        *)
(* server's own Docker (app_commands.go, app_handlers.go).  A build runs   *)
(* in the background with the copy of the row it began with.               *)
(***************************************************************************)
EXTENDS DockerHost

CONSTANT Networked      \* the configurations that name a Docker network

ASSUME NetworkedAssumption == Networked \subseteq Specs

CreateApp(p, i, name, spec) == Create(p, i, NewRow(name, Local, spec, "idle"), Free)

EditApp(p, i, name, spec) ==
    Read(p, "edit", i, [listed[i] EXCEPT !.name = name, !.spec = spec], "read")

\* What runs is not touched, and goes on under the old name.
SaveEdit(p) ==
    /\ Doing(p, {"edit"}, "read")
    /\ LET i == work[p].id
           renamed == i \in DOMAIN listed /\ listed[i].name # work[p].row.name
       IN  /\ SaveRow(p, work[p].row)
           /\ adrift' = IF work[p].stale \/ renamed THEN adrift \cup {i} ELSE adrift
    /\ Finish(p)
    /\ UNCHANGED <<fresh, nodes, host, files, spent>>

\* By the button or by the repository's webhook.
SaveBuilding(p) ==
    /\ Doing(p, {"build"}, "read")
    /\ SaveStep(p, "building", "building")

SavePushing(p) ==
    /\ Doing(p, {"build"}, "building")
    /\ TrySaveStep(p, "pushing", "pushing")

SaveDeployingApp(p) ==
    /\ Doing(p, {"build"}, "pushing")
    /\ TrySaveStep(p, "deploying", "saved")

\* Clone and build, and then the push.
BuildFails(p) ==
    /\ Doing(p, {"build"}, "building") \/ Doing(p, {"build"}, "pushing")
    /\ PrepareFails(p)

\* deployContainer: the container of that name goes, whoever's it is.
ClearContainer(p) ==
    /\ Doing(p, {"build"}, "saved")
    /\ RemoveAll(p, "cleared") \/ RemoveAllFails(p, "cleared")

Taken(p) == Project(work[p].row) \in DOMAIN host

\* For one, because the name is taken.
CreateFails(p) ==
    /\ Doing(p, {"build"}, "cleared")
    /\ \/ PrepareFails(p)
       \/ Taken(p) /\ GoTo(p, "failed") /\ UNCHANGED <<listed, fresh, nodes, host, files, adrift, left, spent>>

RunContainer(p) ==
    /\ Doing(p, {"build"}, "cleared")
    /\ work[p].row.spec \in Networked /\ ~Taken(p)
    /\ BringUp(p) \/ BringUpFails(p)

\* Without a network, app.Networks[1:] panics between creating the container and
\* starting it, and in a goroutine a panic ends the process.
PanicWithoutNetworks(p) ==
    /\ Doing(p, {"build"}, "cleared")
    /\ work[p].row.spec \notin Networked /\ ~Taken(p)
    /\ host' = Put(host, Project(work[p].row), [specs |-> {work[p].row.spec}, up |-> FALSE])
    /\ StopAll
    /\ UNCHANGED <<listed, fresh, nodes, files, spent>>

StopIgnored(p) ==
    /\ HasFault
    /\ Doing(p, {"stop"}, "read") /\ Of(p, Apps)
    /\ GoTo(p, "halted")
    /\ UNCHANGED <<listed, fresh, nodes, host, files, adrift, left>>

RemoveAppContainer(p) ==
    /\ Doing(p, {"remove"}, "read") /\ Of(p, Apps)
    /\ RemoveAll(p, "gone") \/ RemoveAllFails(p, "gone")

AppStep(p) ==
    \/ \E name \in AppNames, spec \in Specs :
          \/ \E i \in Apps : CreateApp(p, i, name, spec)
          \/ \E i \in DOMAIN listed \cap Apps : EditApp(p, i, name, spec)
    \/ \E i \in DOMAIN listed \cap Apps, op \in {"build", "stop", "remove"} :
          Read(p, op, i, listed[i], "read")
    \/ SaveEdit(p)
    \/ SaveBuilding(p) \/ SavePushing(p) \/ SaveDeployingApp(p) \/ BuildFails(p)
    \/ ClearContainer(p) \/ CreateFails(p) \/ RunContainer(p) \/ PanicWithoutNetworks(p)
    \/ StopIgnored(p) \/ RemoveAppContainer(p)
=============================================================================
