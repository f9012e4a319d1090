-------------------------- MODULE IptvSubscription --------------------------
(***************************************************************************)
(* Subscriptions to TV packages, the keys that come with them, and the     *)
(* NATS bridge that answers set-top boxes.  A command reads a row, changes *)
(* its copy and saves the whole copy in another transaction; a new         *)
(* subscription and its key, and the keys of a reissue, are saved one by   *)
(* one.  All subscriptions belong to one customer.                         *)
(***************************************************************************)
EXTENDS IptvCatalogue

CONSTANTS
    Clerks,         \* requests on subscriptions that may be under way
    Boxes,          \* requests of set-top boxes that may be under way
    Subs, Keys      \* ids (uuids)

VARIABLES
    subs,           \* iptv_subscriptions, by id
    keys,           \* iptv_subscription_keys, by id
    clerk,          \* what each request on a subscription is at
    box,            \* what each request of a box is at
    off,            \* history: subscriptions cancelled
    crossed,        \* history: subscriptions saved from an out-of-date copy
    broken          \* history: subscriptions whose keys were left half done, or
                    \* done by two requests at once

subVars == <<subs, keys, clerk, box, off, crossed, broken>>

Idle == [op |-> "none"]
Become(p, t) == clerk' = [clerk EXCEPT ![p] = t]
IsIdle(p) == clerk[p].op = "none"

On(q, op, s) == clerk[q].op = op /\ clerk[q].sub = s

\* p has written: what other requests of its kind read of the subscription is
\* out of date.
Overtake(p, t) ==
    clerk' = [q \in Clerks |->
                 IF q = p THEN t
                 ELSE IF On(q, clerk[p].op, clerk[p].sub)
                 THEN [clerk[q] EXCEPT !.stale = TRUE]
                 ELSE clerk[q]]

KeysOf(s) == {k \in DOMAIN keys : keys[k].sub = s}
ActiveKeys(s) == {k \in KeysOf(s) : keys[k].active}

-----------------------------------------------------------------------------
(* Commands *)

\* Creating: the row, then its key.
CreateSubscription(p, s, k) ==
    /\ HasEvent
    /\ IsIdle(p)
    /\ s \notin DOMAIN subs
    /\ subs' = Put(subs, s, [status |-> "active", pkg |-> k])
    /\ Become(p, [op |-> "issue", sub |-> s, pkg |-> k, revoke |-> {}, stale |-> FALSE])
    /\ UNCHANGED <<catalogue, keys, box, off, crossed, broken>>

\* Slip: a suspended or a cancelled subscription is reactivated.
ReactivateAny(row) == row.status # "active"

CanReactivate(row) == row.status = "suspended"

\* What a command makes of the row: Suspend, Reactivate, Cancel, or another
\* package.
Changes(row) ==
    (IF row.status = "active" THEN {[row EXCEPT !.status = "suspended"]} ELSE {})
    \cup (IF CanReactivate(row) THEN {[row EXCEPT !.status = "active"]} ELSE {})
    \cup (IF row.status # "cancelled" THEN {[row EXCEPT !.status = "cancelled"]} ELSE {})
    \cup {[row EXCEPT !.pkg = k] : k \in Packages \ {row.pkg}}

FindSubscription(p, s) ==
    /\ HasEvent
    /\ IsIdle(p)
    /\ s \in DOMAIN subs
    /\ \E row \in Changes(subs[s]) :
          Become(p, [op |-> "change", sub |-> s, row |-> row, stale |-> FALSE])
    /\ UNCHANGED <<catalogue, subs, keys, box, off, crossed, broken>>

SaveSubscription(p) ==
    /\ clerk[p].op = "change"
    /\ LET s == clerk[p].sub
           row == clerk[p].row
       IN  /\ subs' = Put(subs, s, row)
           /\ Overtake(p, Idle)
           /\ off' = IF row.status = "cancelled" THEN off \cup {s} ELSE off
           /\ crossed' = IF clerk[p].stale THEN crossed \cup {s} ELSE crossed
    /\ UNCHANGED <<catalogue, keys, box, broken, events>>

\* A reissue lists the keys once, revokes those that are active and issues one
\* for the package the page shows.
ReissueKey(p, s) ==
    /\ HasEvent
    /\ IsIdle(p)
    /\ s \in DOMAIN subs
    /\ Become(p, [op |-> "issue", sub |-> s, pkg |-> subs[s].pkg,
                  revoke |-> ActiveKeys(s), stale |-> FALSE])
    /\ UNCHANGED <<catalogue, subs, keys, box, off, crossed, broken>>

RevokeKey(p) ==
    /\ clerk[p].op = "issue"
    /\ \E k \in clerk[p].revoke :
          /\ keys' = [keys EXCEPT ![k].active = FALSE]
          /\ Overtake(p, [clerk[p] EXCEPT !.revoke = @ \ {k}])
    /\ UNCHANGED <<catalogue, subs, box, off, crossed, broken, events>>

\* Slip: the new key is issued before the old ones are revoked, and ends it.
IssueKeyFirst(p) ==
    /\ clerk[p].op = "issue"
    /\ \E k \in Keys \ DOMAIN keys :
          keys' = Put(keys, k, [sub |-> clerk[p].sub, pkg |-> clerk[p].pkg, active |-> TRUE])
    /\ Overtake(p, Idle)
    /\ broken' = IF clerk[p].stale THEN broken \cup {clerk[p].sub} ELSE broken \ {clerk[p].sub}
    /\ UNCHANGED <<catalogue, subs, box, off, crossed, events>>

IssueKey(p) ==
    /\ clerk[p].op = "issue" /\ clerk[p].revoke = {}
    /\ \E k \in Keys \ DOMAIN keys :
          keys' = Put(keys, k, [sub |-> clerk[p].sub, pkg |-> clerk[p].pkg, active |-> TRUE])
    /\ Overtake(p, Idle)
    /\ broken' = IF clerk[p].stale THEN broken \cup {clerk[p].sub} ELSE broken \ {clerk[p].sub}
    /\ UNCHANGED <<catalogue, subs, box, off, crossed, events>>

\* A save fails, the page is closed or the process dies.
ClerkGivesUp(p) ==
    /\ HasEvent
    /\ ~IsIdle(p)
    /\ broken' = IF clerk[p].op = "issue" THEN broken \cup {clerk[p].sub} ELSE broken
    /\ Become(p, Idle)
    /\ UNCHANGED <<catalogue, subs, keys, box, off, crossed>>

-----------------------------------------------------------------------------
(* The bridge.  A box holds a key that was issued once, or has its MAC only. *)

IsWaiting(b) == box[b].stage \in {"idle", "answered"}

Answer(b, a) == box' = [box EXCEPT ![b] = [stage |-> "answered", answer |-> a, sub |-> box[b].sub,
                                           barred |-> box[b].barred]]

bridgeUnchanged == <<catalogue, subs, keys, clerk, off, crossed, broken, events>>

\* key.validate and config.get ask about a key, playlist.get for its channels and
\* channel.resolve for one of them.
BoxAsks(b) ==
    /\ HasEvent
    /\ IsWaiting(b)
    /\ \E k \in DOMAIN keys, wants \in {"state", "playlist", "channel"} :
          box' = [box EXCEPT ![b] = [stage |-> "asking", key |-> k, sub |-> keys[k].sub, wants |-> wants,
                                     barred |-> keys[k].sub \in off]]
    /\ UNCHANGED <<catalogue, subs, keys, clerk, off, crossed, broken>>

\* The first read of resolveKey.
FindByToken(b) ==
    /\ box[b].stage = "asking"
    /\ IF keys[box[b].key].active
       THEN box' = [box EXCEPT ![b].stage = "keyed"]
       ELSE Answer(b, "refused")
    /\ UNCHANGED bridgeUnchanged

Entitled(row) == row.status = "active"

\* The second: the subscription.  The channels are those of the key's package,
\* read after it.
FindSubOfKey(b) ==
    /\ box[b].stage = "keyed"
    /\ LET active == Entitled(subs[box[b].sub]) IN
          IF box[b].wants = "state" THEN Answer(b, IF active THEN "active" ELSE "inactive")
          ELSE IF active THEN box' = [box EXCEPT ![b].stage = "entitled"]
          ELSE Answer(b, "refused")
    /\ UNCHANGED bridgeUnchanged

\* The whole list, which may be empty, or one of it; one that is not there is
\* refused.
FindByPackage(b) ==
    /\ box[b].stage = "entitled"
    /\ \/ /\ box[b].wants = "playlist" \/ lineup[keys[box[b].key].pkg] # {}
          /\ Answer(b, "channels")
       \/ box[b].wants = "channel" /\ Answer(b, "refused")
    /\ UNCHANGED bridgeUnchanged

\* config.get with a MAC: an active subscription of the customer, then an active
\* key of it.
ConfigByMac(b) ==
    /\ HasEvent
    /\ IsWaiting(b)
    /\ \E s \in DOMAIN subs :
          /\ Entitled(subs[s])
          /\ box' = [box EXCEPT ![b] = [stage |-> "found", sub |-> s, barred |-> s \in off]]
    /\ UNCHANGED <<catalogue, subs, keys, clerk, off, crossed, broken>>

ConfigKey(b) ==
    /\ box[b].stage = "found"
    /\ Answer(b, IF ActiveKeys(box[b].sub) # {} THEN "active" ELSE "refused")
    /\ UNCHANGED bridgeUnchanged

-----------------------------------------------------------------------------
SubscriptionInit ==
    /\ \E s \in Subs, k \in Keys, pkg \in Packages :
          /\ subs = [x \in {s} |-> [status |-> "active", pkg |-> pkg]]
          /\ keys = [x \in {k} |-> [sub |-> s, pkg |-> pkg, active |-> TRUE]]
    /\ clerk = [p \in Clerks |-> Idle]
    /\ box = [b \in Boxes |-> [stage |-> "idle"]]
    /\ off = {} /\ crossed = {} /\ broken = {}

ClerkStep(p) ==
    \/ \E s \in Subs :
          \/ \E k \in Packages : CreateSubscription(p, s, k)
          \/ FindSubscription(p, s) \/ ReissueKey(p, s)
    \/ SaveSubscription(p) \/ RevokeKey(p) \/ IssueKey(p) \/ ClerkGivesUp(p)

BoxStep(b) ==
    \/ BoxAsks(b) \/ FindByToken(b) \/ FindSubOfKey(b) \/ FindByPackage(b)
    \/ ConfigByMac(b) \/ ConfigKey(b)

SubscriptionNext == (\E p \in Clerks : ClerkStep(p)) \/ (\E b \in Boxes : BoxStep(b))

-----------------------------------------------------------------------------

Subscription == [status : {"active", "suspended", "cancelled"}, pkg : Packages]
Key == [sub : Subs, pkg : Packages, active : BOOLEAN]
ClerkTask ==
    {Idle}
    \cup [op : {"change"}, sub : Subs, row : Subscription, stale : BOOLEAN]
    \cup [op : {"issue"}, sub : Subs, pkg : Packages, revoke : SUBSET Keys, stale : BOOLEAN]
BoxTask ==
    [stage : {"idle"}]
    \cup [stage : {"asking", "keyed", "entitled"}, key : Keys, sub : Subs,
            wants : {"state", "playlist", "channel"}, barred : BOOLEAN]
    \cup [stage : {"found"}, sub : Subs, barred : BOOLEAN]
    \cup [stage : {"answered"}, answer : {"active", "inactive", "channels", "refused"},
            sub : Subs, barred : BOOLEAN]

\* The type invariant of this half.
SubscriptionTypeOK ==
    /\ DOMAIN subs \subseteq Subs /\ \A s \in DOMAIN subs : subs[s] \in Subscription
    /\ DOMAIN keys \subseteq Keys /\ \A k \in DOMAIN keys : keys[k] \in Key
    /\ clerk \in [Clerks -> ClerkTask]
    /\ box \in [Boxes -> BoxTask]
    /\ {off, crossed, broken} \subseteq SUBSET Subs

\* A box whose subscription had been cancelled when it asked is not let in,
\* though cancelling leaves the key as it is and other commands save the same
\* row: only a save of an out-of-date copy takes a cancellation back.
CancelledIsOff ==
    \A b \in Boxes :
        box[b].stage = "answered" /\ box[b].barred /\ box[b].sub \notin crossed =>
            box[b].answer \notin {"active", "channels"}

\* A subscription has one valid key, once its creation or its reissue is over,
\* unless one of these was cut short or two went on at once.
OneKey ==
    \A s \in DOMAIN subs \ broken :
        (\A p \in Clerks : ~On(p, "issue", s)) => Cardinality(ActiveKeys(s)) = 1
=============================================================================
