------------------------------ MODULE IptvStack ------------------------------
(***************************************************************************)
(* Stacks: the streaming services of a set of channels, described by a     *)
(* compose file and started on a node over SSH.  A change of a stack saves *)
(* it as pending, "so user knows re-deploy is needed"; a deployment reads  *)
(* the stack and its channels, and saves the copy it read as deploying and *)
(* at the end as running or failed.  Nothing orders the requests.  Stacks  *)
(* are taken to have different names; networks and addresses are left out. *)
(***************************************************************************)
EXTENDS IptvCatalogue

CONSTANTS
    Operators,      \* requests on stacks that may be under way
    Nodes

VARIABLES
    stacks,         \* iptv_stacks: status and node, by id
    unborn,         \* ids (uuids) not given out yet
    files,          \* by node and stack: what the compose file on its disk streams
    host,           \* by node and stack: the channels it streams, with the
                    \* provider each comes from
    deed,           \* what each request is at
    adrift          \* history: stacks whose status was saved over a change it
                    \* did not see or not at all, that a change of the catalogue
                    \* did not mark, or whose last `up` failed on the way

stackVars == <<stacks, unborn, files, host, deed, adrift>>

NoDeed == [op |-> "none"]
IsFree(p) == deed[p].op = "none"
Do(p, d) == deed' = [deed EXCEPT ![p] = d]

At(q, s) == deed[q].op # "none" /\ deed[q].stack = s

\* p has written about s and goes on with d: what the others read is out of date.
Precede(p, s, d) ==
    deed' = [q \in Operators |->
                IF q = p THEN d
                ELSE IF At(q, s) THEN [deed[q] EXCEPT !.stale = TRUE]
                ELSE deed[q]]

\* A request on s that has read or done what its name says; row and list are what
\* it read of the stack and its channels.
Deed(op, s, row, list) ==
    [op |-> op, stack |-> s, row |-> row, list |-> list, node |-> row.node, stale |-> FALSE]

Pending(n) == [status |-> "pending", node |-> n]

-----------------------------------------------------------------------------
(* Commands that change a stack *)

CreateStack(s, n) ==
    /\ HasEvent
    /\ s \in unborn
    /\ unborn' = unborn \ {s}
    /\ stacks' = Put(stacks, s, Pending(n))
    /\ UNCHANGED <<catalogue, files, host, deed, adrift>>

UpdateStack(p, s, n) ==
    /\ HasEvent
    /\ IsFree(p)
    /\ s \in DOMAIN stacks
    /\ Do(p, Deed("update", s, Pending(n), {}))
    /\ UNCHANGED <<catalogue, stacks, unborn, files, host, adrift>>

\* A channel is assigned, or no longer; the stack is to be marked.
ChangeChannels(p, s, list) ==
    /\ HasEvent
    /\ IsFree(p)
    /\ assigned' = [assigned EXCEPT ![s] = list]
    /\ Precede(p, s, Deed("changed", s, stacks[s], {}))
    /\ UNCHANGED <<channels, lineup, providers, stacks, unborn, files, host, adrift>>

\* Nothing checks the provider: it may be none, of another channel, or deleted
\* since the page listed it.
AddChannelToStack(p, s) ==
    /\ s \in DOMAIN stacks
    /\ \E r \in Assignment :
          /\ r.channel \in channels
          /\ RowsOf(assigned[s], r.channel) = {}
          /\ ChangeChannels(p, s, assigned[s] \cup {r})

RemoveChannelFromStack(p, s) ==
    /\ s \in DOMAIN stacks
    /\ \E r \in assigned[s] : ChangeChannels(p, s, assigned[s] \ {r})

\* Slip: the stack keeps its status.
MarkedAsWas(row) == row

Marked(row) == Pending(row.node)

ReadToMark(p) ==
    /\ deed[p].op = "changed"
    /\ LET s == deed[p].stack IN
          Do(p, IF s \in DOMAIN stacks THEN Deed("mark", s, Marked(stacks[s]), {}) ELSE NoDeed)
    /\ UNCHANGED <<catalogue, stacks, unborn, files, host, adrift, events>>

SaveMark(p) ==
    /\ deed[p].op \in {"update", "mark"}
    /\ stacks' = Put(stacks, deed[p].stack, deed[p].row)
    /\ Precede(p, deed[p].stack, NoDeed)
    /\ UNCHANGED <<catalogue, unborn, files, host, adrift, events>>

\* A clone is saved, then given the channels the original has at that moment, one
\* by one; failures are ignored.
CloneStack(p, s, n) ==
    /\ HasEvent
    /\ IsFree(p)
    /\ \E new \in unborn :
          /\ unborn' = unborn \ {new}
          /\ stacks' = Put(stacks, new, Pending(n))
          /\ Do(p, Deed("clone", new, Pending(n), assigned[s]))
    /\ UNCHANGED <<catalogue, files, host, adrift>>

CloneChannel(p) ==
    /\ deed[p].op = "clone"
    /\ \E r \in deed[p].list :
          LET s == deed[p].stack
              rest == [deed[p] EXCEPT !.list = @ \ {r}]
          IN  IF s \in DOMAIN stacks /\ r.channel \in channels /\ RowsOf(assigned[s], r.channel) = {}
              THEN /\ assigned' = [assigned EXCEPT ![s] = @ \cup {r}]
                   /\ Precede(p, s, rest)
                   /\ adrift' = adrift \cup {s}
              ELSE Do(p, rest) /\ UNCHANGED <<assigned, adrift>>
    /\ UNCHANGED <<channels, lineup, providers, stacks, unborn, files, host, events>>

CloneDone(p) ==
    /\ deed[p].op = "clone" /\ deed[p].list = {}
    /\ Do(p, NoDeed)
    /\ UNCHANGED <<catalogue, stacks, unborn, files, host, adrift, events>>

\* Deleting: the channels, then the stack.  What runs on the node is left running.
DeleteStack(p, s) ==
    /\ HasEvent
    /\ IsFree(p)
    /\ s \in DOMAIN stacks
    /\ assigned' = [assigned EXCEPT ![s] = {}]
    /\ Precede(p, s, Deed("delete", s, stacks[s], {}))
    /\ UNCHANGED <<channels, lineup, providers, stacks, unborn, files, host, adrift>>

DeleteRow(p) ==
    /\ deed[p].op = "delete"
    /\ LET s == deed[p].stack IN
          /\ stacks' = Drop(stacks, s)
          /\ assigned' = [assigned EXCEPT ![s] = {}]
          /\ Precede(p, s, NoDeed)
    /\ UNCHANGED <<channels, lineup, providers, unborn, files, host, adrift, events>>

-----------------------------------------------------------------------------
(* Changes of the catalogue.  They mark no stack. *)

\* What is assigned to the stacks of S is no longer what they can stream, whatever
\* their status says; deployments of them may have read it before.
Unmarked(S) ==
    /\ adrift' = adrift \cup S
    /\ deed' = [p \in Operators |->
                   IF \E s \in S : At(p, s) THEN [deed[p] EXCEPT !.stale = TRUE] ELSE deed[p]]
    /\ UNCHANGED <<stacks, unborn, files, host>>

\* The stacks that have a channel from one of the providers V.
From(V) == {s \in Stacks : \E r \in assigned[s] : r.provider \in V}

\* A channel is deleted, with its providers.
DropChannel(c) ==
    /\ DeleteChannel(c)
    /\ Unmarked({s \in Stacks : RowsOf(assigned[s], c) # {}}
                \cup From({v \in DOMAIN providers : providers[v].channel = c}))

\* Creating and updating a provider of c save its row.  An update saves the row it
\* read, so one that crosses a deletion brings the provider back.
SaveProvider(v, c) ==
    /\ HasEvent
    /\ c \in channels
    /\ v \in DOMAIN providers => providers[v].channel = c
    /\ \E t \in {"internal", "external"} : providers' = Put(providers, v, [channel |-> c, type |-> t])
    /\ Unmarked(From({v}))
    /\ UNCHANGED <<channels, lineup, assigned>>

DeleteProvider(v) ==
    /\ HasEvent
    /\ v \in DOMAIN providers
    /\ providers' = Drop(providers, v)
    /\ Unmarked(From({v}))
    /\ UNCHANGED <<channels, lineup, assigned>>

-----------------------------------------------------------------------------
(* Deploying *)

\* The page looks up the node of the stack, then hands over to the command.
Deploy(p, s) ==
    /\ HasEvent
    /\ IsFree(p)
    /\ s \in DOMAIN stacks
    /\ Do(p, Deed("looked up", s, stacks[s], {}))
    /\ UNCHANGED <<catalogue, stacks, unborn, files, host, adrift>>

\* The command reads the stack again; it may have been given another node.
ReadStack(p) ==
    /\ deed[p].op = "looked up"
    /\ LET s == deed[p].stack IN
          Do(p, IF s \notin DOMAIN stacks THEN NoDeed
                ELSE [deed[p] EXCEPT !.op = "read", !.row = stacks[s],
                                     !.stale = stacks[s].node # deed[p].node])
    /\ UNCHANGED <<catalogue, stacks, unborn, files, host, adrift, events>>

ListChannels(p) ==
    /\ deed[p].op = "read"
    /\ Do(p, [deed[p] EXCEPT !.op = "listed", !.list = assigned[deed[p].stack]])
    /\ UNCHANGED <<catalogue, stacks, unborn, files, host, adrift, events>>

\* What the compose file streams of the rows: a channel that is gone, has no
\* provider or an unknown one is skipped, and an external provider gets no ffmpeg.
Playable(rows) ==
    {r \in rows :
        /\ r.channel \in channels
        /\ r.provider \in DOMAIN providers
        /\ providers[r.provider].type = "internal"}

\* Channels and providers are looked up row by row, after the rows were read; a
\* lookup that fails is taken for one that finds nothing.
LookUpProviders(p) ==
    /\ deed[p].op = "listed"
    /\ Do(p, [deed[p] EXCEPT !.op = "resolved", !.list = Playable(@)])
    /\ UNCHANGED <<catalogue, stacks, unborn, files, host, adrift, events>>

LookUpFails(p) ==
    /\ HasEvent
    /\ deed[p].op = "listed"
    /\ \E r \in deed[p].list :
          Do(p, [deed[p] EXCEPT !.op = "resolved", !.list = Playable(@ \ {r}), !.stale = TRUE])
    /\ UNCHANGED <<catalogue, stacks, unborn, files, host, adrift>>

SaveStatus(p, status, d) ==
    /\ stacks' = Put(stacks, deed[p].stack, [deed[p].row EXCEPT !.status = status])
    /\ Precede(p, deed[p].stack, d)

SaveDeploying(p) ==
    /\ deed[p].op = "resolved"
    /\ SaveStatus(p, "deploying", [deed[p] EXCEPT !.op = "deploying"])
    /\ UNCHANGED <<catalogue, unborn, files, host, adrift, events>>

Unsure(p) == IF deed[p].stale THEN {deed[p].stack} ELSE {}

\* The compose file is written on the node that was looked up, over the one there.
WriteFile(p) ==
    /\ deed[p].op = "deploying"
    /\ files' = [files EXCEPT ![deed[p].node] = Put(@, deed[p].stack, deed[p].list)]
    /\ Precede(p, deed[p].stack, [deed[p] EXCEPT !.op = "written"])
    /\ UNCHANGED <<catalogue, stacks, unborn, host, adrift, events>>

Run(p, rows) == host' = [host EXCEPT ![deed[p].node] = Put(@, deed[p].stack, rows)]

\* `up --remove-orphans` goes by the file on the disk, whoever wrote it.
ComposeUp(p) ==
    /\ deed[p].op = "written"
    /\ Run(p, files[deed[p].node][deed[p].stack])
    /\ Precede(p, deed[p].stack, [deed[p] EXCEPT !.op = "up"])
    /\ adrift' = adrift \cup Unsure(p)
    /\ UNCHANGED <<catalogue, stacks, unborn, files, events>>

\* One of the commands fails, before or after it had its effect.
ComposeFails(p) ==
    /\ HasEvent
    /\ deed[p].op \in {"deploying", "written", "up"}
    /\ Do(p, [deed[p] EXCEPT !.op = "failed"])
    /\ UNCHANGED <<catalogue, stacks, unborn, files, host, adrift>>

Streaming(n, s) == UNION {host[n][x] : x \in {s} \cap DOMAIN host[n]}

\* `up` fails at some container: others have been started or removed.
UpFails(p) ==
    /\ HasEvent
    /\ deed[p].op = "written"
    /\ LET s == deed[p].stack
           n == deed[p].node
       IN  /\ \E rows \in SUBSET (Streaming(n, s) \cup files[n][s]) : Run(p, rows)
           /\ Precede(p, s, [deed[p] EXCEPT !.op = "failed"])
           /\ adrift' = adrift \cup {s}
    /\ UNCHANGED <<catalogue, stacks, unborn, files>>

SaveRunning(p) ==
    /\ deed[p].op = "up"
    /\ SaveStatus(p, "running", NoDeed)
    /\ adrift' = (adrift \ {deed[p].stack}) \cup Unsure(p)
    /\ UNCHANGED <<catalogue, unborn, files, host, events>>

SaveError(p) ==
    /\ deed[p].op = "failed"
    /\ SaveStatus(p, "error", NoDeed)
    /\ UNCHANGED <<catalogue, unborn, files, host, adrift, events>>

\* The page is closed: the saves of a deployment fail, which it ignores.
SaveFails(p) ==
    /\ HasEvent
    /\ \/ deed[p].op = "resolved" /\ Do(p, [deed[p] EXCEPT !.op = "deploying"])
       \/ deed[p].op \in {"up", "failed"} /\ Do(p, NoDeed)
    /\ UNCHANGED <<catalogue, stacks, unborn, files, host, adrift>>

\* A step of another request fails or the process dies.
OperatorGivesUp(p) ==
    /\ HasEvent
    /\ ~IsFree(p)
    /\ adrift' = IF deed[p].op \in {"changed", "mark", "delete"} THEN adrift \cup {deed[p].stack}
                 ELSE adrift
    /\ Do(p, NoDeed)
    /\ UNCHANGED <<catalogue, stacks, unborn, files, host>>

-----------------------------------------------------------------------------
\* One stack is there, with any channels.
StackInit ==
    /\ \E s \in Stacks, n \in Nodes :
          /\ stacks = [x \in {s} |-> Pending(n)]
          /\ \A x \in Stacks \ {s} : assigned[x] = {}
          /\ unborn = Stacks \ {s}
    /\ files = [n \in Nodes |-> [s \in {} |-> {}]]
    /\ host = files
    /\ deed = [p \in Operators |-> NoDeed]
    /\ adrift = {}

Change(p, s) ==
    \/ AddChannelToStack(p, s) \/ RemoveChannelFromStack(p, s) \/ DeleteStack(p, s)
    \/ \E n \in Nodes : UpdateStack(p, s, n) \/ CloneStack(p, s, n)
    \/ Deploy(p, s)

DeployStep(p) ==
    \/ ReadStack(p) \/ ListChannels(p) \/ LookUpProviders(p) \/ LookUpFails(p) \/ SaveDeploying(p)
    \/ WriteFile(p) \/ ComposeUp(p) \/ ComposeFails(p) \/ UpFails(p) \/ SaveRunning(p) \/ SaveError(p) \/ SaveFails(p)

OperatorStep(p) ==
    \/ \E s \in DOMAIN stacks : Change(p, s)
    \/ ReadToMark(p) \/ SaveMark(p) \/ CloneChannel(p) \/ CloneDone(p) \/ DeleteRow(p)
    \/ DeployStep(p)
    \/ OperatorGivesUp(p)

StackNext ==
    \/ \E s \in Stacks, n \in Nodes : CreateStack(s, n)
    \/ \E c \in Channels : DropChannel(c) \/ \E v \in Providers : SaveProvider(v, c)
    \/ \E v \in Providers : DeleteProvider(v)
    \/ \E p \in Operators : OperatorStep(p)

-----------------------------------------------------------------------------

Stack == [status : {"pending", "deploying", "running", "error"}, node : Nodes]
Deeds ==
    [op : {"update", "changed", "mark", "clone", "delete",
           "looked up", "read", "listed", "resolved", "deploying", "written",
           "up", "failed"},
     stack : Stacks, row : Stack, list : SUBSET Assignment, node : Nodes, stale : BOOLEAN]

\* The type invariant of this half and of the catalogue.
StackTypeOK ==
    /\ channels \subseteq Channels
    /\ lineup \in [Packages -> SUBSET Channels]
    /\ DOMAIN providers \subseteq Providers /\ \A v \in DOMAIN providers : providers[v] \in Provider
    /\ assigned \in [Stacks -> SUBSET Assignment]
    /\ DOMAIN stacks \subseteq Stacks /\ \A s \in DOMAIN stacks : stacks[s] \in Stack
    /\ unborn \subseteq Stacks
    /\ DOMAIN files = Nodes /\ DOMAIN host = Nodes
    /\ \A n \in Nodes : DOMAIN files[n] \subseteq Stacks /\ DOMAIN host[n] \subseteq Stacks
    /\ deed \in [Operators -> {NoDeed} \cup Deeds]
    /\ adrift \subseteq Stacks

\* A stack shown as running streams from its node exactly those of the channels
\* assigned to it that have a known internal provider, the others having been left
\* out without a word: a channel assigned or removed while it is deployed or after
\* marks it pending, unless a deployment overtook the change, the mark was lost, a
\* lookup failed, the channel or provider itself was changed or deleted, which marks
\* nothing, or `up` failed on the way and that was not saved.
RunningIsAssigned ==
    \A s \in DOMAIN stacks \ adrift :
        LET at == stacks[s].node IN
        stacks[s].status = "running"
        /\ (\A p \in Operators : At(p, s) => deed[p].op \notin {"changed", "mark", "delete"})
        => s \in DOMAIN host[at] /\ host[at][s] = Playable(assigned[s])
=============================================================================
