--------------------------- MODULE CustomerAccess ---------------------------
(***************************************************************************)
(* Customers, the routers that let them onto the network and NetBox, which *)
(* hands out their addresses.  Commands change the customer's row and       *)
(* announce it; one worker listens, on three channels at once, and turns    *)
(* what it hears into calls to the customer's router.  Nothing compares     *)
(* rows and routers afterwards: what a lost, failed or late step left       *)
(* behind stays until the next announcement about that customer.            *)
(*                                                                          *)
(* The pieces: internal/modules/customer/app/commands, the ARP worker and    *)
(* SyncCustomerARP of internal/modules/network, customerARPBridge of         *)
(* internal/app/app.go, and the MikroTik and NetBox clients.                 *)
(***************************************************************************)
EXTENDS Naturals, Sequences, FiniteSets

CONSTANTS
  Customers,   \* customer ids
  Routers,     \* routers known to VVS
  IPs,         \* the addresses of the NetBox prefixes
  Requests,   \* request goroutines serving the UI, the API and the RPC server
  None,        \* no router, no address, no customer
  Edits,       \* what the customer form may send: [router, ip, mac]
  Buffer,      \* capacity of a subscription's channel (16 in the code)
  MaxOps       \* bound: operations the operators start

ASSUME NoneAssumption == None \notin Customers \cup Routers \cup IPs
ASSUME EditsAssumption ==
  Edits \subseteq [router : Routers \cup {None}, ip : IPs \cup {None}, mac : BOOLEAN]
ASSUME WorkerAssumption == "worker" \notin Requests
ASSUME BoundsAssumption == Buffer \in Nat \ {0} /\ MaxOps \in Nat

Worker == "worker"   \* the goroutine of ARPWorker.Run
Procs  == Requests \cup {Worker}
Topics == {"customer", "service", "arp"}
Acts   == {"enable", "disable"}

VARIABLES
  rows,       \* the customers table
  routers,    \* ids in the routers table
  arp,        \* what each router does with an address: up or not, for whom
  netbox,     \* NetBox: the customer whose code describes the address
  ipam,       \* NetBox is configured in this deployment
  chan,       \* the worker's three channels
  task,       \* what each goroutine is in the middle of
  ops,        \* operations started so far
  told,       \* history: the status last saved by a command ("" before, "gone" after)
  disturbed,  \* history: customers whose router nobody can vouch for
  muddled     \* history: customers for whom NetBox was asked twice at a time, or in vain

accessVars == <<rows, routers, arp, netbox, ipam, chan, task, ops, told, disturbed, muddled>>
dbVars   == <<rows, routers>>
farVars  == <<arp, netbox, ipam>>
pastVars == <<told, disturbed, muddled>>

Statuses == {"active", "suspended", "churned"}
NoRow == [status |-> "", router |-> None, ip |-> None, mac |-> FALSE]
Rows  == [status : Statuses, router : Routers \cup {None},
          ip : IPs \cup {None}, mac : BOOLEAN]

Resting == [do |-> "idle"]
Exists(c) == rows[c] # NoRow

(***************************************************************************)
(* Who is busy with a customer.                                             *)
(***************************************************************************)
Writes == {"save", "allocate", "resave", "delete", "publish"}
Commanding(c) == {p \in Procs : task[p].do \in Writes /\ task[p].who = c}
Syncing(c)    == {p \in Procs : task[p].do = "sync" /\ task[p].who = c}
Queued(c)     == \E t \in Topics : \E i \in DOMAIN chan[t] : chan[t][i].who = c
Settled(c)    == Commanding(c) = {} /\ Syncing(c) = {} /\ ~Queued(c)

\* Others who hold a copy of c's row they will save, or an event older than ours.
Clashing(p, c) == (Commanding(c) \ {p}) \cup {q \in Syncing(c) : task[q].at = "store"}

\* Goroutines that have asked, or are about to ask, NetBox for an address for c.
Asking(c) == {p \in Syncing(c) : task[p].at \in {"lookup", "claim"}}
             \cup {p \in Commanding(c) : task[p].do = "allocate"}

\* A command about a customer nothing else is going on for is a fresh start,
\* if it says the status anew or finds the row as the last one left it.
FreshStart(c, command) ==
  disturbed' = IF /\ Settled(c)
                  /\ command # "update" \/ rows[c].status = told[c]
               THEN disturbed \ {c} ELSE disturbed

(***************************************************************************)
(* Domain: the transitions of a customer (customer.go), as functions from    *)
(* a row to the rows a command may make of it.  Lead and prospect are never  *)
(* assigned to a customer, so Qualify and Convert always fail.               *)
(***************************************************************************)
Suspend(row)  == {[row EXCEPT !.status = "suspended"] : s \in {row.status} \ {"suspended"}}
Activate(row) == {[row EXCEPT !.status = "active"] : s \in {row.status} \ {"active", "churned"}}
Churn(row)    == {[row EXCEPT !.status = "churned"] : s \in {row.status} \ {"churned"}}
ChangeStatus(row) == Suspend(row) \cup Activate(row) \cup Churn(row)

\* Update and SetNetworkInfo: the form's router, address and MAC replace the row's.
\* Slip: the row is built anew from the form, with the status of a new customer.
UpdateAfresh(row) ==
  {[status |-> "active", router |-> f.router, ip |-> f.ip, mac |-> f.mac] : f \in Edits}

Update(row) ==
  {[status |-> row.status, router |-> f.router, ip |-> f.ip, mac |-> f.mac] : f \in Edits}

(***************************************************************************)
(* Events: core NATS publishes to the worker's channel, which drops what it  *)
(* has no room for.                                                         *)
(***************************************************************************)
Send(topic, event) ==
  \/ /\ Len(chan[topic]) < Buffer
     /\ chan' = [chan EXCEPT ![topic] = Append(@, event)]
     /\ UNCHANGED disturbed
  \/ /\ Len(chan[topic]) = Buffer
     /\ disturbed' = disturbed \cup {event.who}
     /\ UNCHANGED chan

About(c, row) == [who |-> c, status |-> row.status, router |-> row.router]

(***************************************************************************)
(* Customer commands.                                                       *)
(***************************************************************************)
Begin(p) == /\ task[p] = Resting
            /\ ops < MaxOps
            /\ ops' = ops + 1

\* ChangeCustomerStatusHandler and UpdateCustomerHandler: FindByID and the change
\* in memory ...
Find(p, c) ==
  /\ Begin(p)
  /\ Exists(c)
  /\ \E command \in {"status", "update"} :
       /\ FreshStart(c, command)
       /\ \E row \in IF command = "status" THEN ChangeStatus(rows[c]) ELSE Update(rows[c]) :
         task' = [task EXCEPT ![p] = [do |-> "save", who |-> c, row |-> row, by |-> command]]
  /\ UNCHANGED <<dbVars, farVars, chan, told, muddled>>

\* ... Save of the whole row, which brings a deleted one back ...
Save(p) ==
  LET c == task[p].who IN
  /\ task[p].do = "save"
  /\ \/ /\ rows' = [rows EXCEPT ![c] = task[p].row]
        /\ told' = [told EXCEPT ![c] = IF task[p].by = "status" THEN task[p].row.status ELSE @]
        /\ disturbed' = IF Clashing(p, c) = {} THEN disturbed ELSE disturbed \cup {c}
        /\ task' = [task EXCEPT ![p] = [do |-> "publish", who |-> c, row |-> task[p].row]]
     \/ /\ task' = [task EXCEPT ![p] = Resting]
        /\ disturbed' = disturbed \cup {c}
        /\ UNCHANGED <<rows, told>>
  /\ UNCHANGED <<routers, farVars, chan, ops, muddled>>

\* ... and Publish, the last step of every command.
Publish(p) ==
  /\ task[p].do = "publish"
  /\ Send("customer", About(task[p].who, task[p].row))
  /\ task' = [task EXCEPT ![p] = Resting]
  /\ UNCHANGED <<dbVars, farVars, ops, told, muddled>>

\* CreateCustomerHandler: the new customer is saved, and visible, before an
\* address is asked for ...
Create(p, c) ==
  LET row == [NoRow EXCEPT !.status = "active"] IN
  /\ Begin(p)
  /\ told[c] = ""
  /\ rows' = [rows EXCEPT ![c] = row]
  /\ told' = [told EXCEPT ![c] = "active"]
  /\ FreshStart(c, "status")
  /\ task' = [task EXCEPT ![p] = [do |-> IF ipam THEN "allocate" ELSE "publish", who |-> c, row |-> row]]
  /\ UNCHANGED <<routers, farVars, chan, muddled>>

(***************************************************************************)
(* AllocateIP: the next free address of the zone's prefixes, in order of      *)
(* priority, is recorded under the customer's code; an answer that is lost    *)
(* leaves its record behind and moves on to the next prefix.                  *)
(***************************************************************************)
Free == {i \in IPs : netbox[i] = None}

AllocateIP(c, ip) ==
  \/ /\ ip \in Free
     /\ netbox' = [netbox EXCEPT ![ip] = c]
     /\ UNCHANGED muddled
  \/ /\ ip \in Free \cup {None}
     /\ \E lost \in Free \ {ip} :
          netbox' = [i \in IPs |-> IF i \in {lost, ip} THEN c ELSE netbox[i]]
     /\ muddled' = muddled \cup {c}
  \/ ip = None /\ UNCHANGED <<netbox, muddled>>

\* ... AllocateIP, best effort ...
Allocate(p) ==
  LET c == task[p].who IN
  /\ task[p].do = "allocate"
  /\ \E ip \in IPs \cup {None} :
       /\ AllocateIP(c, ip)
       /\ task' = [task EXCEPT ![p] =
            IF ip = None THEN [do |-> "publish", who |-> c, row |-> task[p].row]
            ELSE [do |-> "resave", who |-> c,
                  row |-> [task[p].row EXCEPT !.router = None, !.ip = ip, !.mac = FALSE]]]
  /\ UNCHANGED <<dbVars, arp, ipam, chan, ops, told, disturbed>>

\* ... and a second Save of the row the handler built, failure only logged.
Resave(p) ==
  /\ task[p].do = "resave"
  /\ \/ rows' = [rows EXCEPT ![task[p].who] = task[p].row] /\ UNCHANGED disturbed
     \/ disturbed' = disturbed \cup {task[p].who} /\ UNCHANGED rows
  /\ task' = [task EXCEPT ![p].do = "publish"]
  /\ UNCHANGED <<routers, farVars, chan, ops, told, muddled>>

\* DeleteCustomerHandler: FindByID ...
FindToDelete(p, c) ==
  /\ Begin(p)
  /\ Exists(c)
  /\ FreshStart(c, "status")
  /\ task' = [task EXCEPT ![p] = [do |-> "delete", who |-> c]]
  /\ UNCHANGED <<dbVars, farVars, chan, told, muddled>>

\* ... and Delete.  Its event carries neither status nor router and the worker
\* leaves the router as it is.
Delete(p) ==
  LET c == task[p].who IN
  /\ task[p].do = "delete"
  /\ rows' = [rows EXCEPT ![c] = NoRow]
  /\ told' = [told EXCEPT ![c] = "gone"]
  /\ disturbed' = IF Clashing(p, c) = {} THEN disturbed ELSE disturbed \cup {c}
  /\ task' = [task EXCEPT ![p] = [do |-> "publish", who |-> c, row |-> NoRow]]
  /\ UNCHANGED <<routers, farVars, chan, ops, muddled>>

(***************************************************************************)
(* What else moves the worker.                                              *)
(***************************************************************************)
\* A service of the customer is suspended or cancelled, or active again.
ServiceChanges(p, c) ==
  /\ Begin(p)
  /\ Exists(c)
  /\ \E act \in Acts :
       LET event == [who |-> c, act |-> act] IN
       /\ chan' = [chan EXCEPT !["service"] = IF Len(@) < Buffer THEN Append(@, event) ELSE @]
  /\ disturbed' = disturbed \cup {c}
  /\ UNCHANGED <<dbVars, farVars, task, told, muddled>>

\* arpSSE: the buttons of the customer's page.
RequestARP(p, c) ==
  /\ Begin(p)
  /\ Exists(c)
  /\ \E act \in Acts :
       LET event == [who |-> c, act |-> act] IN
       /\ chan' = [chan EXCEPT !["arp"] = IF Len(@) < Buffer THEN Append(@, event) ELSE @]
  /\ disturbed' = disturbed \cup {c}
  /\ UNCHANGED <<dbVars, farVars, task, told, muddled>>

\* DeleteRouterHandler: nobody asks whether customers still use the router.
DeleteRouter(p, r) ==
  /\ Begin(p)
  /\ r \in routers
  /\ routers' = routers \ {r}
  /\ UNCHANGED <<rows, farVars, chan, task, pastVars>>

(***************************************************************************)
(* SyncCustomerARP, run by the worker for what it hears and by the API and    *)
(* the RPC server directly.                                                  *)
(***************************************************************************)
\* FindARPData: a customer without router is done with, one without address is
\* resolved first; without NetBox that is an error.
SyncStart(p, c, act) ==
  LET row == rows[c]
      at  == IF row.ip # None THEN "router" ELSE "lookup"
  IN IF row.router = None \/ (row.ip = None /\ ~ipam)
     THEN task' = [task EXCEPT ![p] = Resting] /\ UNCHANGED muddled
     ELSE /\ task' = [task EXCEPT ![p] =
               [do |-> "sync", at |-> at, who |-> c, act |-> act,
                router |-> row.router, ip |-> row.ip, mac |-> row.mac, row |-> NoRow]]
          /\ muddled' = IF at = "lookup" /\ Asking(c) # {} THEN muddled \cup {c} ELSE muddled

\* apiSyncCustomerARP and handleRouterSyncARP.
SyncDirectly(p, c) ==
  /\ Begin(p)
  /\ Exists(c)
  /\ \E act \in Acts : SyncStart(p, c, act)
  /\ disturbed' = disturbed \cup {c}
  /\ UNCHANGED <<dbVars, farVars, chan, told>>

\* ARPWorker.Run: select takes from any channel that has something.
Take(topic) ==
  /\ task[Worker] = Resting
  /\ chan[topic] # <<>>
  /\ chan' = [chan EXCEPT ![topic] = Tail(@)]

\* handleCustomerEvent decides by the status and the router in the event ...
\* Slip: churned customers are forgotten.
BarredWhenSuspended(status) == status = "suspended"

Barred(status) == status \in {"suspended", "churned"}

HearCustomer ==
  LET event == Head(chan["customer"]) IN
  /\ Take("customer")
  /\ IF event.router = None THEN UNCHANGED <<task, muddled>>
     ELSE SyncStart(Worker, event.who, IF Barred(event.status) THEN "disable" ELSE "enable")
  /\ UNCHANGED <<dbVars, farVars, ops, told, disturbed>>

\* ... handleServiceEvent and handleARPRequested do as the event says, whatever
\* the customer's status.
HearRequest(topic) ==
  LET event == Head(chan[topic]) IN
  /\ Take(topic)
  /\ SyncStart(Worker, event.who, event.act)
  /\ UNCHANGED <<dbVars, farVars, ops, told, disturbed>>

Leased(c) == {i \in IPs : netbox[i] = c}

\* Slip: the record of an earlier allocation is not looked for.
LookupNothing(p) ==
  /\ task[p].do = "sync" /\ task[p].at = "lookup"
  /\ task' = [task EXCEPT ![p].at = "claim"]
  /\ UNCHANGED <<dbVars, farVars, chan, ops, pastVars>>

\* GetIPByCustomerCode: one address recorded under the code, with the MAC of the
\* interface NetBox has it on, if any; every error counts as "none".
Lookup(p) ==
  LET c == task[p].who IN
  /\ task[p].do = "sync" /\ task[p].at = "lookup"
  /\ \/ \E ip \in Leased(c), mac \in BOOLEAN :
          /\ task' = [task EXCEPT ![p].at = "find", ![p].ip = ip, ![p].mac = mac]
          /\ UNCHANGED muddled
     \/ /\ task' = [task EXCEPT ![p].at = "claim"]
        /\ muddled' = IF Leased(c) = {} THEN muddled ELSE muddled \cup {c}
  /\ UNCHANGED <<dbVars, farVars, chan, ops, told, disturbed>>

\* No record found: AllocateIP.
Claim(p) ==
  LET c == task[p].who IN
  /\ task[p].do = "sync" /\ task[p].at = "claim"
  /\ \E ip \in IPs \cup {None} :
       /\ AllocateIP(c, ip)
       /\ IF ip = None THEN task' = [task EXCEPT ![p] = Resting] /\ disturbed' = disturbed \cup {c}
          ELSE /\ task' = [task EXCEPT ![p].at = "find", ![p].ip = ip, ![p].mac = FALSE]
               /\ UNCHANGED disturbed
  /\ UNCHANGED <<dbVars, arp, ipam, chan, ops, told>>

\* UpdateNetworkInfo of customerARPBridge: FindByID and SetNetworkInfo ...
FindToResolve(p) ==
  LET c == task[p].who IN
  /\ task[p].do = "sync" /\ task[p].at = "find"
  /\ \/ /\ Exists(c)
        /\ task' = [task EXCEPT ![p].at = "store", ![p].row =
             [rows[c] EXCEPT !.router = task[p].router, !.ip = task[p].ip, !.mac = task[p].mac]]
        /\ UNCHANGED disturbed
     \/ /\ task' = [task EXCEPT ![p].at = "router"]
        /\ disturbed' = disturbed \cup {c}
  /\ UNCHANGED <<dbVars, farVars, chan, ops, told, muddled>>

\* ... and Save of the whole row, with the router the sync set out with even if
\* the customer has been taken off it since; a failure is logged and the sync goes on.
StoreResolved(p) ==
  LET c == task[p].who IN
  /\ task[p].do = "sync" /\ task[p].at = "store"
  /\ \/ /\ rows' = [rows EXCEPT ![c] = task[p].row]
        /\ disturbed' = IF rows[c].router = task[p].router THEN disturbed ELSE disturbed \cup {c}
     \/ /\ disturbed' = disturbed \cup {c}
        /\ UNCHANGED rows
  /\ task' = [task EXCEPT ![p].at = "router", ![p].row = NoRow]
  /\ UNCHANGED <<routers, farVars, chan, ops, told, muddled>>

\* What the router does with the address after SetARPStatic or DisableARP.
Granted(c)       == [up |-> TRUE, who |-> c]
Withdrawn(entry) == [entry EXCEPT !.up = FALSE]

\* Load the router and call it; a call that fails may have had its effect.
CallRouter(p) ==
  LET c == task[p].who
      r == task[p].router
      i == task[p].ip
      done == [arp EXCEPT ![r][i] = IF task[p].act = "enable" THEN Granted(c) ELSE Withdrawn(@)]
      \* whose access this call may have changed besides c's, for good
      others == {d \in Customers \ {c} : rows[d].ip = i /\ Settled(d)}
  IN
  /\ task[p].do = "sync" /\ task[p].at = "router"
  /\ \/ /\ r \notin routers
        /\ disturbed' = disturbed \cup {c}
        /\ UNCHANGED arp
     \/ /\ r \in routers
        /\ task[p].act = "enable" /\ ~task[p].mac
        /\ UNCHANGED <<arp, disturbed>>
     \/ /\ r \in routers
        /\ task[p].act = "enable" => task[p].mac
        /\ arp' = done
        /\ disturbed' = disturbed \cup others
     \/ /\ r \in routers
        /\ task[p].act = "enable" => task[p].mac
        /\ arp' \in {arp, done}
        /\ disturbed' = disturbed \cup others \cup {c}
  /\ task' = [task EXCEPT ![p] = Resting]
  /\ UNCHANGED <<dbVars, netbox, ipam, chan, ops, told, muddled>>

-----------------------------------------------------------------------------
\* Customers without a row yet, and customers whose address NetBox knows and
\* whose router lets them in.
AccessInit ==
  /\ ipam \in BOOLEAN
  /\ netbox \in {f \in [IPs -> Customers \cup {None}] :
                  \A i, j \in IPs : i # j /\ f[i] = f[j] => f[i] = None}
  /\ routers = Routers
  /\ \E r \in Routers :
       /\ rows = [c \in Customers |->
            IF Leased(c) = {} THEN NoRow
            ELSE [status |-> "active", router |-> r, mac |-> TRUE,
                  ip |-> CHOOSE i \in IPs : netbox[i] = c]]
       /\ arp = [q \in Routers |-> [i \in IPs |->
            IF q = r /\ netbox[i] # None THEN [up |-> TRUE, who |-> netbox[i]]
            ELSE [up |-> FALSE, who |-> None]]]
  /\ chan = [t \in Topics |-> <<>>]
  /\ task = [p \in Procs |-> Resting]
  /\ ops = 0
  /\ told = [c \in Customers |-> rows[c].status]
  /\ disturbed = {}
  /\ muddled = {}

Operate(p) ==
  \/ \E c \in Customers :
       Create(p, c) \/ Find(p, c) \/ FindToDelete(p, c) \/ ServiceChanges(p, c)
         \/ RequestARP(p, c) \/ SyncDirectly(p, c)
  \/ \E r \in Routers : DeleteRouter(p, r)

Continue(p) ==
  \/ Save(p) \/ Publish(p) \/ Allocate(p) \/ Resave(p) \/ Delete(p)
  \/ Lookup(p) \/ Claim(p) \/ FindToResolve(p) \/ StoreResolved(p) \/ CallRouter(p)

Hear == HearCustomer \/ \E t \in {"service", "arp"} : HearRequest(t)

AccessNext == (\E p \in Requests : Operate(p)) \/ (\E p \in Procs : Continue(p)) \/ Hear

AccessSpec == AccessInit /\ [][AccessNext]_accessVars

-----------------------------------------------------------------------------
\* What a goroutine may be in the middle of.
Saving     == [do : {"save"}, who : Customers, row : Rows, by : {"status", "update"}]
Creating   == [do : {"allocate", "resave"}, who : Customers, row : Rows]
Publishing == [do : {"publish"}, who : Customers, row : Rows \cup {NoRow}]
Deleting   == [do : {"delete"}, who : Customers]
Resolving  == [do : {"sync"}, at : {"lookup", "claim"}, who : Customers, act : Acts,
               router : Routers, ip : {None}, mac : BOOLEAN, row : {NoRow}]
Calling    == [do : {"sync"}, at : {"find", "router"}, who : Customers, act : Acts,
               router : Routers, ip : IPs, mac : BOOLEAN, row : {NoRow}]
Storing    == [do : {"sync"}, at : {"store"}, who : Customers, act : Acts,
               router : Routers, ip : IPs, mac : BOOLEAN, row : Rows]
Tasks == {Resting} \cup Saving \cup Creating \cup Publishing \cup Deleting
         \cup Resolving \cup Calling \cup Storing

\* What waits on a channel.
Messages(topic) ==
  IF topic = "customer"
  THEN [who : Customers, status : Statuses \cup {""}, router : Routers \cup {None}]
  ELSE [who : Customers, act : Acts]

\* The types of the state.
AccessTypeOK ==
  /\ rows \in [Customers -> Rows \cup {NoRow}]
  /\ routers \subseteq Routers
  /\ arp \in [Routers -> [IPs -> [up : BOOLEAN, who : Customers \cup {None}]]]
  /\ netbox \in [IPs -> Customers \cup {None}]
  /\ ipam \in BOOLEAN
  /\ chan \in [Topics -> Seq(Messages("customer") \cup Messages("arp"))]
  /\ \A t \in Topics : chan[t] \in Seq(Messages(t)) /\ Len(chan[t]) <= Buffer
  /\ task \in [Procs -> Tasks]
  /\ ops \in 0..MaxOps
  /\ told \in [Customers -> Statuses \cup {"", "gone"}]
  /\ disturbed \subseteq Customers /\ muddled \subseteq Customers

\* The whole-row saves of commands, of the create handler and of the sync that
\* writes a resolved address back lose nobody's word: once everything about a
\* customer is done and no two writers crossed, the row says what the last
\* status command said, and a deleted customer has none.
LastWordStands ==
  \A c \in Customers : Settled(c) /\ c \notin disturbed =>
    rows[c].status = IF told[c] = "gone" THEN "" ELSE told[c]

\* Whatever the order in which events, syncs and later commands come: once
\* everything about a customer is done, nothing failed or was lost and only the
\* customer's own commands spoke, the router lets the customer in on the address
\* in the row when the last status command said active, and does not when it said
\* suspended or churned.
AccessSettles ==
  \A c \in Customers :
    LET row == rows[c] IN
    Settled(c) /\ c \notin disturbed /\ row.router # None /\ row.ip # None =>
      LET entry == arp[row.router][row.ip] IN
      /\ told[c] \in {"suspended", "churned"} => ~(entry.up /\ entry.who = c)
      /\ told[c] = "active" /\ row.mac => entry = [up |-> TRUE, who |-> c]

\* NetBox holds one address for a customer: the create handler, the worker and
\* the direct syncs find the record of an earlier one instead of asking for
\* another, unless two of them asked at once or NetBox's answer was lost.
LeaseOnce ==
  \A c \in Customers : c \notin muddled => Cardinality(Leased(c)) <= 1
=============================================================================
