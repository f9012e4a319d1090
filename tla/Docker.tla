------------------------------- MODULE Docker -------------------------------
(***************************************************************************)
(* Everything that is deployed with Docker, side by side: what the rows    *)
(* say runs, and what runs.                                                *)
(***************************************************************************)
EXTENDS DockerService, DockerStack, DockerApp

DockerInit ==
    /\ listed = [i \in {} |-> 0]
    /\ fresh \in Batches
    /\ nodes = DockerNodes \cup SwarmNodes
    /\ host = [prj \in {} |-> 0]
    /\ files = [prj \in {} |-> 0]
    /\ work = [p \in Requests |-> Free]
    /\ adrift = {}
    /\ left = {}
    /\ commands = 0
    /\ faults = 0

DockerNext ==
    \/ \E p \in Requests :
          \/ ServiceStep(p) \/ StackStep(p) \/ AppStep(p)
          \/ Halt(p) \/ SaveOutcome(p) \/ DeleteRow(p)
          \/ GiveUp(p) \/ SaveRefused(p)
    \/ \E n \in DockerNodes : DeleteDockerNode(n)
    \/ \E n \in SwarmNodes : RemoveSwarmNode(n)
    \/ Restart

DockerSpec == DockerInit /\ [][DockerNext]_dockerVars

-----------------------------------------------------------------------------
(* Properties *)

Tasks ==
    [op : {"none"}] \cup
    [op : {"deploy", "update", "redeploy", "start", "stop", "remove", "build", "edit"},
     id : Ids, row : Row, stale : BOOLEAN,
     at : Touched \cup {"read", "saved", "written", "placed", "building", "pushing"}]

\* The variables hold what they are meant to.
DockerTypeOK ==
    /\ DOMAIN listed \subseteq Ids \ fresh /\ \A i \in DOMAIN listed : listed[i] \in Row
    /\ fresh \subseteq Ids
    /\ nodes \subseteq DockerNodes \cup SwarmNodes
    /\ DOMAIN host \subseteq Hosts \X AllNames
    /\ \A prj \in DOMAIN host : host[prj] \in Containers
    /\ DOMAIN files \subseteq Hosts \X AllNames
    /\ \A prj \in DOMAIN files : files[prj] \in Specs
    /\ work \in [Requests -> Tasks]
    /\ adrift \subseteq Ids
    /\ left \subseteq Hosts \X AllNames
    /\ commands \in 0 .. MaxCommands
    /\ faults \in 0 .. MaxFaults

AtRest(i) == i \notin adrift /\ \A p \in Requests : ~Of(p, {i})

\* A row that says "running" tells the truth: its containers are there and up,
\* and, but for apps, which are edited without being deployed, those of its file
\* and no others.  Excused are rows with a request or goroutine at work and
\* those set adrift: the last one worked with what somebody else changed
\* meanwhile, ended before its save or ignored a failure, the project was
\* worked on for another row of its name, its rented node was given back, a
\* service was started that had no containers of its file, or an app got a new
\* name (service_commands.go:173, 237; app_commands.go:61).
RunningIsDeployed ==
    \A i \in DOMAIN listed :
       listed[i].status = "running" /\ AtRest(i) =>
          LET prj == Project(listed[i]) IN
          /\ prj \in DOMAIN host
          /\ host[prj].up
          /\ i \notin Apps => host[prj].specs = {listed[i].spec}

\* Containers that the compose file on their node's disk does not name: another
\* was written over it and has not come up, or not quite.
Unnamed(prj) ==
    /\ prj[1] \in SwarmNodes
    /\ prj \in DOMAIN files => ~(host[prj].specs \subseteq {files[prj]})

\* No containers without a row, or somebody at work, by which they can be found
\* and removed.  Excused are those whose file an update or deployment that
\* failed later has overwritten: `down` goes by the new one, and leaves them
\* (swarm_stack_commands.go:28, 66; deploy_vvs_component.go:271).  The others
\* are in left: a removal failed and the row was deleted all the same, a
\* deployment ended after its row was gone, an app got a new name, or the node
\* was not found (service_commands.go:293, swarm_stack_commands.go:344, 359).
NothingLeftBehind ==
    \A prj \in DOMAIN host \ left :
       \/ On(prj) # {}
       \/ Unnamed(prj)
       \/ \E p \in Requests : ~IsFree(p) /\ Project(work[p].row) = prj
=============================================================================
