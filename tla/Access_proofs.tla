---------------------------- MODULE Access_proofs ----------------------------
(***************************************************************************)
(* Who is let in.  For any number of subscriptions, keys, boxes, stacks    *)
(* and requests: a cancelled subscription lets no box in, a subscription   *)
(* has one key, and a running stack streams its channels, those that can   *)
(* be had.  For any number of customers, routers, addresses and requests:  *)
(* the row says the last command's word, the router does what the row      *)
(* says, and NetBox holds one address for each.  None of these is          *)
(* inductive: requests write from what they read, so the invariants say    *)
(* what a copy that nothing has overtaken still has in common with the     *)
(* tables.                                                                 *)
(***************************************************************************)
EXTENDS Iptv, CustomerAccess, FiniteSetTheorems, TLAPS

\* Tasks and keys are about subscriptions that exist.
RefersToRows ==
    /\ \A k \in DOMAIN keys : keys[k].sub \in DOMAIN subs
    /\ \A p \in Clerks : clerk[p].op # "none" => clerk[p].sub \in DOMAIN subs
    /\ \A p \in Clerks, s \in Subs : On(p, "issue", s) => clerk[p].revoke \subseteq KeysOf(s)

\* A cancelled row stays cancelled, and so does every copy not overtaken.
CancelledStays ==
    \A s \in off \ crossed :
        /\ s \in DOMAIN subs
        /\ subs[s].status = "cancelled"
        /\ \A p \in Clerks :
              On(p, "change", s) /\ ~clerk[p].stale => clerk[p].row.status = "cancelled"

\* What a box has been found to be entitled to was not cancelled when it asked.
BarredBoxes ==
    \A b \in Boxes :
        /\ box[b].stage \in {"asking", "keyed", "entitled"} =>
              box[b].key \in DOMAIN keys /\ keys[box[b].key].sub = box[b].sub
        /\ box[b].stage # "idle" /\ box[b].barred => box[b].sub \in off
        /\ box[b].stage \in {"entitled", "found"} /\ box[b].barred => box[b].sub \in crossed
        /\ box[b].stage = "answered" /\ box[b].barred /\ box[b].sub \notin crossed =>
              box[b].answer \notin {"active", "channels"}

\* A request that issues a key and was not overtaken has all others in hand.
RevokesAll ==
    \A p \in Clerks, s \in Subs :
        On(p, "issue", s) /\ ~clerk[p].stale => clerk[p].revoke = ActiveKeys(s)

OneKeyLeft ==
    \A s \in DOMAIN subs \ broken :
        (\A p \in Clerks : ~On(p, "issue", s)) => \E k \in Keys : ActiveKeys(s) = {k}

\* The inductive invariant of the subscriptions.
SubscriptionInv ==
    /\ SubscriptionTypeOK
    /\ RefersToRows /\ CancelledStays /\ BarredBoxes /\ RevokesAll /\ OneKeyLeft

-----------------------------------------------------------------------------
(* What a clerk's step does to the tasks. *)

LEMMA StaleTask ==
    ASSUME NEW u \in ClerkTask, u.op # "none", NEW v, v = [u EXCEPT !.stale = TRUE]
    PROVE  /\ v \in ClerkTask /\ v.stale
           /\ v.op = u.op /\ v.sub = u.sub
           /\ u.op = "change" => v.row = u.row
           /\ u.op = "issue" => v.revoke = u.revoke
<1>1. CASE u \in [op : {"change"}, sub : Subs, row : Subscription, stale : BOOLEAN]
    BY <1>1 DEF ClerkTask
<1>2. CASE u \in [op : {"issue"}, sub : Subs, pkg : Packages, revoke : SUBSET Keys, stale : BOOLEAN]
    <2>1. v \in [op : {"issue"}, sub : Subs, pkg : Packages, revoke : SUBSET Keys, stale : BOOLEAN]
        BY <1>2
    <2>2. v \in ClerkTask
        BY <2>1 DEF ClerkTask
    <2>3. v.stale /\ v.op = u.op /\ v.sub = u.sub /\ v.revoke = u.revoke
        BY <1>2
    <2>4. u.op # "change"
        BY <1>2
    <2> QED BY <2>2, <2>3, <2>4
<1>3. u # Idle
    BY DEF Idle
<1>4. \/ u \in [op : {"change"}, sub : Subs, row : Subscription, stale : BOOLEAN]
      \/ u \in [op : {"issue"}, sub : Subs, pkg : Packages, revoke : SUBSET Keys, stale : BOOLEAN]
    BY <1>3, Zenon DEF ClerkTask
<1> QED BY <1>1, <1>2, <1>4

\* The task of p becomes t; who read the same thing is overtaken, and of the
\* tasks of the others nothing else changes.
LEMMA OvertakeEffect ==
    ASSUME SubscriptionTypeOK, NEW p \in Clerks, NEW t \in ClerkTask, Overtake(p, t)
    PROVE  /\ clerk' \in [Clerks -> ClerkTask]
           /\ clerk'[p] = t
           /\ \A q \in Clerks \ {p} :
                 /\ clerk'[q].op = clerk[q].op
                 /\ clerk[q].op # "none" => clerk'[q].sub = clerk[q].sub
                 /\ clerk[q].op = "change" => clerk'[q].row = clerk[q].row
                 /\ clerk[q].op = "issue" => clerk'[q].revoke = clerk[q].revoke
                 /\ On(q, clerk[p].op, clerk[p].sub) /\ clerk[p].op # "none" => clerk'[q].stale
                 /\ clerk[q].op # "none" /\ ~clerk'[q].stale => ~clerk[q].stale
<1>1. clerk \in [Clerks -> ClerkTask]
    BY DEF SubscriptionTypeOK
<1>2. clerk'[p] = t
    BY <1>1 DEF Overtake
<1>3. ASSUME NEW q \in Clerks, q # p
      PROVE  /\ clerk'[q] \in ClerkTask
             /\ clerk'[q].op = clerk[q].op
             /\ clerk[q].op # "none" => clerk'[q].sub = clerk[q].sub
             /\ clerk[q].op = "change" => clerk'[q].row = clerk[q].row
             /\ clerk[q].op = "issue" => clerk'[q].revoke = clerk[q].revoke
             /\ On(q, clerk[p].op, clerk[p].sub) /\ clerk[p].op # "none" => clerk'[q].stale
             /\ clerk[q].op # "none" /\ ~clerk'[q].stale => ~clerk[q].stale
    <2>1. clerk[q] \in ClerkTask
        BY <1>1
    <2>2. CASE On(q, clerk[p].op, clerk[p].sub)
        <3>1. clerk'[q] = [clerk[q] EXCEPT !.stale = TRUE]
            BY <2>2, <1>3 DEF Overtake
        <3>2. CASE clerk[q].op = "none"
            <4>1. clerk[q] = Idle
                BY <3>2, <2>1 DEF ClerkTask, Idle
            <4>2. clerk'[q] = Idle
                BY <4>1, <3>1 DEF Idle
            <4> QED BY <4>1, <4>2, <2>1, <2>2, <3>2 DEF On
        <3>3. CASE clerk[q].op # "none"
            BY <2>1, <3>1, <3>3, StaleTask
        <3> QED BY <3>2, <3>3
    <2>3. CASE ~On(q, clerk[p].op, clerk[p].sub)
        <3>1. clerk'[q] = clerk[q]
            BY <2>3, <1>3 DEF Overtake
        <3> QED BY <2>1, <2>3, <3>1
    <2> QED BY <2>2, <2>3
<1>4. clerk' \in [Clerks -> ClerkTask]
    <2>1. clerk' = [q \in Clerks |-> clerk'[q]]
        BY DEF Overtake
    <2> QED BY <1>2, <1>3, <2>1
<1> QED BY <1>2, <1>3, <1>4

\* A request begins, goes on or ends and overtakes nobody.
LEMMA BecomeEffect ==
    ASSUME SubscriptionTypeOK, NEW p \in Clerks, NEW t \in ClerkTask, Become(p, t)
    PROVE  /\ clerk' \in [Clerks -> ClerkTask]
           /\ clerk'[p] = t
           /\ \A q \in Clerks \ {p} : clerk'[q] = clerk[q]
BY DEF SubscriptionTypeOK, Become

-----------------------------------------------------------------------------
(* What a clerk's step does to the keys. *)

LEMMA RevokeEffect ==
    ASSUME SubscriptionTypeOK, NEW k \in DOMAIN keys,
           keys' = [keys EXCEPT ![k].active = FALSE]
    PROVE  /\ DOMAIN keys' = DOMAIN keys
           /\ \A j \in DOMAIN keys : keys'[j] \in Key /\ keys'[j].sub = keys[j].sub
           /\ \A s \in Subs : KeysOf(s)' = KeysOf(s)
           /\ ActiveKeys(keys[k].sub)' = ActiveKeys(keys[k].sub) \ {k}
           /\ \A s \in Subs \ {keys[k].sub} : ActiveKeys(s)' = ActiveKeys(s)
<1>1. /\ DOMAIN keys' = DOMAIN keys
      /\ \A j \in DOMAIN keys : keys'[j] \in Key /\ keys'[j].sub = keys[j].sub
      /\ \A j \in DOMAIN keys \ {k} : keys'[j] = keys[j]
      /\ keys'[k].active = FALSE
    BY DEF SubscriptionTypeOK, Key
<1>2. \A s \in Subs : KeysOf(s)' = KeysOf(s)
    BY <1>1 DEF KeysOf
<1>3. ActiveKeys(keys[k].sub)' = ActiveKeys(keys[k].sub) \ {k}
    BY <1>1 DEF ActiveKeys, KeysOf
<1>4. \A s \in Subs \ {keys[k].sub} : ActiveKeys(s)' = ActiveKeys(s)
    BY <1>1 DEF ActiveKeys, KeysOf
<1> QED BY <1>1, <1>2, <1>3, <1>4

LEMMA IssueEffect ==
    ASSUME SubscriptionTypeOK, NEW k \in Keys \ DOMAIN keys, NEW s \in Subs,
           NEW row \in Key, row.sub = s, row.active, keys' = Put(keys, k, row)
    PROVE  /\ DOMAIN keys' = DOMAIN keys \cup {k} /\ DOMAIN keys' \subseteq Keys
           /\ \A j \in DOMAIN keys' : keys'[j] \in Key
           /\ keys'[k].sub = s
           /\ \A j \in DOMAIN keys : keys'[j] = keys[j]
           /\ \A r \in Subs : KeysOf(r) \subseteq KeysOf(r)'
           /\ ActiveKeys(s)' = ActiveKeys(s) \cup {k}
           /\ \A r \in Subs \ {s} : ActiveKeys(r)' = ActiveKeys(r)
<1>1. /\ DOMAIN keys' = DOMAIN keys \cup {k}
      /\ \A j \in DOMAIN keys : keys'[j] = keys[j]
      /\ keys'[k] = row
    BY DEF Put
<1>2. \A j \in DOMAIN keys' : keys'[j] \in Key
    BY <1>1 DEF SubscriptionTypeOK, Key
<1>3. \A r \in Subs : KeysOf(r) \subseteq KeysOf(r)'
    BY <1>1 DEF KeysOf
<1>4. ActiveKeys(s)' = ActiveKeys(s) \cup {k}
    BY <1>1 DEF ActiveKeys, KeysOf
<1>5. \A r \in Subs \ {s} : ActiveKeys(r)' = ActiveKeys(r)
    BY <1>1 DEF ActiveKeys, KeysOf
<1> QED BY <1>1, <1>2, <1>3, <1>4, <1>5 DEF SubscriptionTypeOK

-----------------------------------------------------------------------------
(* Requests on subscriptions keep the invariant. *)

LEMMA ClerkFacts ==
    ASSUME SubscriptionTypeOK, NEW p \in Clerks
    PROVE  /\ clerk[p] \in ClerkTask
           /\ clerk[p].op = "change" =>
                 clerk[p].sub \in Subs /\ clerk[p].row \in Subscription /\ clerk[p].stale \in BOOLEAN
           /\ clerk[p].op = "issue" =>
                 /\ clerk[p].sub \in Subs /\ clerk[p].pkg \in Packages /\ clerk[p].stale \in BOOLEAN
                 /\ clerk[p].revoke \subseteq Keys
<1>1. clerk[p] \in ClerkTask
    BY DEF SubscriptionTypeOK
<1>2. ASSUME NEW u \in ClerkTask, u.op = "change"
      PROVE  u.sub \in Subs /\ u.row \in Subscription /\ u.stale \in BOOLEAN
    BY <1>2 DEF ClerkTask, Idle
<1>3. ASSUME NEW u \in ClerkTask, u.op = "issue"
      PROVE  /\ u.sub \in Subs /\ u.pkg \in Packages /\ u.stale \in BOOLEAN
             /\ u.revoke \subseteq Keys
    BY <1>3 DEF ClerkTask, Idle
<1> QED BY <1>1, <1>2, <1>3

LEMMA IdleIsTask == Idle \in ClerkTask /\ Idle.op = "none"
BY DEF ClerkTask, Idle

LEMMA IssueIsTask ==
    ASSUME NEW s \in Subs, NEW g \in Packages, NEW r \in SUBSET Keys, NEW x \in BOOLEAN
    PROVE  [op |-> "issue", sub |-> s, pkg |-> g, revoke |-> r, stale |-> x] \in ClerkTask
<1>1. [op |-> "issue", sub |-> s, pkg |-> g, revoke |-> r, stale |-> x]
        \in [op : {"issue"}, sub : Subs, pkg : Packages, revoke : SUBSET Keys, stale : BOOLEAN]
    OBVIOUS
<1> QED BY <1>1, Zenon DEF ClerkTask

LEMMA ChangeIsTask ==
    ASSUME NEW s \in Subs, NEW row \in Subscription, NEW x \in BOOLEAN
    PROVE  [op |-> "change", sub |-> s, row |-> row, stale |-> x] \in ClerkTask
<1>1. [op |-> "change", sub |-> s, row |-> row, stale |-> x]
        \in [op : {"change"}, sub : Subs, row : Subscription, stale : BOOLEAN]
    OBVIOUS
<1> QED BY <1>1, Zenon DEF ClerkTask

\* Boxes look at keys and subscriptions, not at clerks.
LEMMA BoxesStay ==
    ASSUME SubscriptionInv, box' = box, off \subseteq off', crossed \subseteq crossed',
           DOMAIN keys \subseteq DOMAIN keys',
           \A k \in DOMAIN keys : keys'[k].sub = keys[k].sub
    PROVE  BarredBoxes'
BY DEF SubscriptionInv, BarredBoxes

LEMMA CreateSubscriptionKeeps ==
    ASSUME SubscriptionInv, NEW p \in Clerks, NEW s \in Subs, NEW g \in Packages,
           CreateSubscription(p, s, g)
    PROVE  SubscriptionInv'
<1> DEFINE t == [op |-> "issue", sub |-> s, pkg |-> g, revoke |-> {}, stale |-> FALSE]
<1>1. t \in ClerkTask
    BY IssueIsTask
<1>2. /\ clerk' \in [Clerks -> ClerkTask]
      /\ clerk'[p] = t
      /\ \A q \in Clerks \ {p} : clerk'[q] = clerk[q]
    BY <1>1, BecomeEffect DEF CreateSubscription, SubscriptionInv
<1>3. /\ s \notin DOMAIN subs
      /\ DOMAIN subs' = DOMAIN subs \cup {s}
      /\ \A x \in DOMAIN subs : subs'[x] = subs[x]
      /\ subs'[s] = [status |-> "active", pkg |-> g]
    BY DEF CreateSubscription, Put
<1>4. /\ keys' = keys /\ box' = box
      /\ off' = off /\ crossed' = crossed /\ broken' = broken
    BY DEF CreateSubscription
<1>5. \A x \in Subs : KeysOf(x)' = KeysOf(x) /\ ActiveKeys(x)' = ActiveKeys(x)
    BY <1>4 DEF ActiveKeys, KeysOf
<1>6. clerk[p].op = "none"
    BY DEF CreateSubscription, IsIdle
<1>7. SubscriptionTypeOK'
    BY <1>2, <1>3, <1>4 DEF SubscriptionInv, SubscriptionTypeOK, Subscription
<1>8. RefersToRows'
    <2>1. \A k \in DOMAIN keys' : keys'[k].sub \in DOMAIN subs'
        BY <1>3, <1>4 DEF SubscriptionInv, RefersToRows
    <2>2. ASSUME NEW q \in Clerks, clerk'[q].op # "none" PROVE clerk'[q].sub \in DOMAIN subs'
        BY <2>2, <1>2, <1>3 DEF SubscriptionInv, RefersToRows
    <2>3. ASSUME NEW q \in Clerks, NEW x \in Subs, On(q, "issue", x)'
          PROVE  clerk'[q].revoke \subseteq KeysOf(x)'
        BY <2>3, <1>2, <1>5 DEF On, SubscriptionInv, RefersToRows
    <2> QED BY <2>1, <2>2, <2>3 DEF RefersToRows
<1>9. CancelledStays'
    BY <1>2, <1>3, <1>4 DEF SubscriptionInv, CancelledStays, On
<1>10. BarredBoxes'
    BY <1>4, BoxesStay
<1>11. RevokesAll'
    <2>1. ActiveKeys(s) = {}
        BY <1>3 DEF SubscriptionInv, RefersToRows, ActiveKeys, KeysOf
    <2>2. ASSUME NEW q \in Clerks, NEW x \in Subs, On(q, "issue", x)', ~clerk'[q].stale
          PROVE  clerk'[q].revoke = ActiveKeys(x)'
        <3>1. CASE q = p
            BY <2>1, <2>2, <3>1, <1>2, <1>5 DEF On
        <3>2. CASE q # p
            BY <2>2, <3>2, <1>2, <1>5 DEF On, SubscriptionInv, RevokesAll
        <3> QED BY <3>1, <3>2
    <2> QED BY <2>2 DEF RevokesAll
<1>12. OneKeyLeft'
    <2>1. ASSUME NEW x \in DOMAIN subs' \ broken', \A q \in Clerks : ~On(q, "issue", x)'
          PROVE  \E k \in Keys : ActiveKeys(x)' = {k}
        <3>1. x # s
            BY <2>1, <1>2 DEF On
        <3>2. \A q \in Clerks : ~On(q, "issue", x)
            BY <2>1, <1>2, <1>6 DEF On
        <3> QED BY <2>1, <3>1, <3>2, <1>3, <1>4, <1>5 DEF SubscriptionInv, SubscriptionTypeOK, OneKeyLeft
    <2> QED BY <2>1 DEF OneKeyLeft
<1> QED BY <1>7, <1>8, <1>9, <1>10, <1>11, <1>12 DEF SubscriptionInv

LEMMA FindSubscriptionKeeps ==
    ASSUME SubscriptionInv, NEW p \in Clerks, NEW s \in Subs, FindSubscription(p, s)
    PROVE  SubscriptionInv'
<1>1. /\ s \in DOMAIN subs /\ clerk[p].op = "none"
      /\ subs' = subs /\ keys' = keys /\ box' = box
      /\ off' = off /\ crossed' = crossed /\ broken' = broken
    BY DEF FindSubscription, IsIdle
<1>2. PICK row \in Changes(subs[s]) :
         Become(p, [op |-> "change", sub |-> s, row |-> row, stale |-> FALSE])
    BY DEF FindSubscription
<1>3. subs[s] \in Subscription
    BY <1>1 DEF SubscriptionInv, SubscriptionTypeOK
<1>4. /\ row \in Subscription
      /\ subs[s].status = "cancelled" => row.status = "cancelled"
    BY <1>2, <1>3 DEF Changes, CanReactivate, Subscription
<1>5. [op |-> "change", sub |-> s, row |-> row, stale |-> FALSE] \in ClerkTask
    BY <1>4, ChangeIsTask
<1>6. /\ clerk' \in [Clerks -> ClerkTask]
      /\ clerk'[p] = [op |-> "change", sub |-> s, row |-> row, stale |-> FALSE]
      /\ \A q \in Clerks \ {p} : clerk'[q] = clerk[q]
    BY <1>2, <1>5, BecomeEffect DEF SubscriptionInv
<1>7. \A x \in Subs : KeysOf(x)' = KeysOf(x) /\ ActiveKeys(x)' = ActiveKeys(x)
    BY <1>1 DEF ActiveKeys, KeysOf
<1>8. \A q \in Clerks, x \in Subs :
         On(q, "issue", x)' <=> On(q, "issue", x)
    BY <1>1, <1>6 DEF On
<1>9. SubscriptionTypeOK'
    BY <1>1, <1>6 DEF SubscriptionInv, SubscriptionTypeOK
<1>10. RefersToRows'
    BY <1>1, <1>6, <1>7, <1>8 DEF SubscriptionInv, RefersToRows, On
<1>11. CancelledStays'
    <2>1. ASSUME NEW x \in off' \ crossed'
          PROVE  /\ x \in DOMAIN subs' /\ subs'[x].status = "cancelled"
                 /\ \A q \in Clerks : On(q, "change", x)' /\ ~clerk'[q].stale =>
                       clerk'[q].row.status = "cancelled"
        BY <1>1, <1>4, <1>6 DEF SubscriptionInv, CancelledStays, On
    <2> QED BY <2>1 DEF CancelledStays
<1>12. BarredBoxes'
    BY <1>1, BoxesStay
<1>13. RevokesAll'
    BY <1>6, <1>7, <1>8 DEF SubscriptionInv, RevokesAll, On
<1>14. OneKeyLeft'
    BY <1>1, <1>7, <1>8 DEF SubscriptionInv, SubscriptionTypeOK, OneKeyLeft
<1> QED BY <1>9, <1>10, <1>11, <1>12, <1>13, <1>14 DEF SubscriptionInv

LEMMA ReissueKeyKeeps ==
    ASSUME SubscriptionInv, NEW p \in Clerks, NEW s \in Subs, ReissueKey(p, s)
    PROVE  SubscriptionInv'
<1>1. /\ s \in DOMAIN subs /\ clerk[p].op = "none"
      /\ subs' = subs /\ keys' = keys /\ box' = box
      /\ off' = off /\ crossed' = crossed /\ broken' = broken
    BY DEF ReissueKey, IsIdle
<1>2. PICK t : t = [op |-> "issue", sub |-> s, pkg |-> subs[s].pkg,
                    revoke |-> ActiveKeys(s), stale |-> FALSE]
    OBVIOUS
<1>3. ActiveKeys(s) \subseteq KeysOf(s) /\ KeysOf(s) \subseteq Keys
    BY DEF ActiveKeys, KeysOf, SubscriptionInv, SubscriptionTypeOK
<1>4. subs[s].pkg \in Packages
    BY <1>1 DEF SubscriptionInv, SubscriptionTypeOK, Subscription
<1>5. t \in ClerkTask
    BY <1>2, <1>3, <1>4, IssueIsTask
<1>6. /\ clerk' \in [Clerks -> ClerkTask]
      /\ clerk'[p] = t
      /\ \A q \in Clerks \ {p} : clerk'[q] = clerk[q]
    BY <1>2, <1>5, BecomeEffect DEF ReissueKey, SubscriptionInv
<1>7. \A x \in Subs : KeysOf(x)' = KeysOf(x) /\ ActiveKeys(x)' = ActiveKeys(x)
    BY <1>1 DEF ActiveKeys, KeysOf
<1>8. t.op = "issue" /\ t.sub = s /\ t.revoke = ActiveKeys(s)
    BY <1>2
<1>9. SubscriptionTypeOK'
    BY <1>1, <1>6 DEF SubscriptionInv, SubscriptionTypeOK
<1>10. RefersToRows'
    <2>1. \A k \in DOMAIN keys' : keys'[k].sub \in DOMAIN subs'
        BY <1>1 DEF SubscriptionInv, RefersToRows
    <2>2. ASSUME NEW q \in Clerks, clerk'[q].op # "none" PROVE clerk'[q].sub \in DOMAIN subs'
        BY <2>2, <1>1, <1>6, <1>8 DEF SubscriptionInv, RefersToRows
    <2>3. ASSUME NEW q \in Clerks, NEW x \in Subs, On(q, "issue", x)'
          PROVE  clerk'[q].revoke \subseteq KeysOf(x)'
        BY <2>3, <1>3, <1>6, <1>7, <1>8 DEF On, SubscriptionInv, RefersToRows
    <2> QED BY <2>1, <2>2, <2>3 DEF RefersToRows
<1>11. CancelledStays'
    BY <1>1, <1>6, <1>8 DEF SubscriptionInv, CancelledStays, On
<1>12. BarredBoxes'
    BY <1>1, BoxesStay
<1>13. RevokesAll'
    <2>1. ASSUME NEW q \in Clerks, NEW x \in Subs, On(q, "issue", x)', ~clerk'[q].stale
          PROVE  clerk'[q].revoke = ActiveKeys(x)'
        BY <2>1, <1>6, <1>7, <1>8 DEF On, SubscriptionInv, RevokesAll
    <2> QED BY <2>1 DEF RevokesAll
<1>14. OneKeyLeft'
    <2>1. ASSUME NEW x \in DOMAIN subs' \ broken', \A q \in Clerks : ~On(q, "issue", x)'
          PROVE  \E k \in Keys : ActiveKeys(x)' = {k}
        <3>1. \A q \in Clerks : ~On(q, "issue", x)
            BY <2>1, <1>1, <1>6 DEF On
        <3> QED BY <2>1, <3>1, <1>1, <1>7 DEF SubscriptionInv, SubscriptionTypeOK, OneKeyLeft
    <2> QED BY <2>1 DEF OneKeyLeft
<1> QED BY <1>9, <1>10, <1>11, <1>12, <1>13, <1>14 DEF SubscriptionInv

\* The save of an overtaken copy may bring a cancelled subscription back: it is
\* crossed from then on.
LEMMA SaveSubscriptionKeeps ==
    ASSUME SubscriptionInv, NEW p \in Clerks, SaveSubscription(p)
    PROVE  SubscriptionInv'
<1>1. PICK s, row : s = clerk[p].sub /\ row = clerk[p].row
    OBVIOUS
<1>2. /\ clerk[p].op = "change" /\ s \in Subs /\ s \in DOMAIN subs
      /\ row \in Subscription /\ clerk[p].stale \in BOOLEAN
    BY <1>1, ClerkFacts DEF SaveSubscription, SubscriptionInv, RefersToRows
<1>3. /\ subs' = Put(subs, s, row)
      /\ Overtake(p, Idle)
      /\ off' = IF row.status = "cancelled" THEN off \cup {s} ELSE off
      /\ crossed' = IF clerk[p].stale THEN crossed \cup {s} ELSE crossed
      /\ keys' = keys /\ box' = box /\ broken' = broken
    BY <1>1 DEF SaveSubscription
<1>4. /\ DOMAIN subs' = DOMAIN subs
      /\ subs'[s] = row
      /\ \A x \in DOMAIN subs \ {s} : subs'[x] = subs[x]
    BY <1>2, <1>3 DEF Put
<1>5. /\ clerk' \in [Clerks -> ClerkTask]
      /\ clerk'[p].op = "none"
      /\ \A q \in Clerks \ {p} :
            /\ clerk'[q].op = clerk[q].op
            /\ clerk[q].op # "none" => clerk'[q].sub = clerk[q].sub
            /\ clerk[q].op = "change" => clerk'[q].row = clerk[q].row
            /\ clerk[q].op = "issue" => clerk'[q].revoke = clerk[q].revoke
            /\ On(q, "change", s) => clerk'[q].stale
            /\ clerk[q].op # "none" /\ ~clerk'[q].stale => ~clerk[q].stale
    BY <1>1, <1>2, <1>3, IdleIsTask, OvertakeEffect DEF SubscriptionInv
<1>6. \A x \in Subs : KeysOf(x)' = KeysOf(x) /\ ActiveKeys(x)' = ActiveKeys(x)
    BY <1>3 DEF ActiveKeys, KeysOf
<1>7. \A q \in Clerks, x \in Subs : On(q, "issue", x)' <=> On(q, "issue", x)
    BY <1>2, <1>5 DEF On
<1>8. SubscriptionTypeOK'
    BY <1>2, <1>3, <1>4, <1>5 DEF SubscriptionInv, SubscriptionTypeOK
<1>9. RefersToRows'
    <2>1. \A k \in DOMAIN keys' : keys'[k].sub \in DOMAIN subs'
        BY <1>3, <1>4 DEF SubscriptionInv, RefersToRows
    <2>2. ASSUME NEW q \in Clerks, clerk'[q].op # "none" PROVE clerk'[q].sub \in DOMAIN subs'
        BY <2>2, <1>4, <1>5 DEF SubscriptionInv, RefersToRows
    <2>3. ASSUME NEW q \in Clerks, NEW x \in Subs, On(q, "issue", x)'
          PROVE  clerk'[q].revoke \subseteq KeysOf(x)'
        BY <2>3, <1>5, <1>6, <1>7 DEF On, SubscriptionInv, RefersToRows
    <2> QED BY <2>1, <2>2, <2>3 DEF RefersToRows
<1>10. CancelledStays'
    <2>1. ASSUME NEW x \in off' \ crossed'
          PROVE  /\ x \in DOMAIN subs' /\ subs'[x].status = "cancelled"
                 /\ \A q \in Clerks : On(q, "change", x)' /\ ~clerk'[q].stale =>
                       clerk'[q].row.status = "cancelled"
        <3>1. CASE x = s
            <4>1. ~clerk[p].stale
                BY <2>1, <3>1, <1>3
            <4>2. row.status = "cancelled"
                BY <2>1, <3>1, <4>1, <1>1, <1>2, <1>3 DEF SubscriptionInv, CancelledStays, On
            <4>3. \A q \in Clerks : On(q, "change", x)' => clerk'[q].stale
                BY <3>1, <1>5 DEF On
            <4> QED BY <3>1, <4>2, <4>3, <1>2, <1>4
        <3>2. CASE x # s
            <4>1. x \in off \ crossed
                BY <2>1, <3>2, <1>3
            <4>2. x \in DOMAIN subs' /\ subs'[x].status = "cancelled"
                BY <4>1, <3>2, <1>4 DEF SubscriptionInv, CancelledStays
            <4>3. ASSUME NEW q \in Clerks, On(q, "change", x)', ~clerk'[q].stale
                  PROVE  clerk'[q].row.status = "cancelled"
                BY <4>1, <4>3, <1>5 DEF On, SubscriptionInv, CancelledStays
            <4> QED BY <4>2, <4>3
        <3> QED BY <3>1, <3>2
    <2> QED BY <2>1 DEF CancelledStays
<1>11. BarredBoxes'
    BY <1>3, BoxesStay
<1>12. RevokesAll'
    <2>1. ASSUME NEW q \in Clerks, NEW x \in Subs, On(q, "issue", x)', ~clerk'[q].stale
          PROVE  clerk'[q].revoke = ActiveKeys(x)'
        BY <2>1, <1>5, <1>6, <1>7 DEF On, SubscriptionInv, RevokesAll
    <2> QED BY <2>1 DEF RevokesAll
<1>13. OneKeyLeft'
    BY <1>3, <1>4, <1>6, <1>7 DEF SubscriptionInv, SubscriptionTypeOK, OneKeyLeft
<1> QED BY <1>8, <1>9, <1>10, <1>11, <1>12, <1>13 DEF SubscriptionInv

\* A request that writes keys of s: copies of s are not harmed, those who issue a
\* key for s as well are overtaken.
LEMMA KeyWriteKeeps ==
    ASSUME SubscriptionInv, NEW p \in Clerks, clerk[p].op = "issue",
           NEW t \in ClerkTask, Overtake(p, t),
           t.op = "none" \/ (t.op = "issue" /\ t.sub = clerk[p].sub),
           subs' = subs, off' = off, crossed' = crossed, box' = box,
           DOMAIN keys \subseteq DOMAIN keys',
           \A k \in DOMAIN keys : keys'[k].sub = keys[k].sub,
           \A k \in DOMAIN keys' \ DOMAIN keys : keys'[k].sub = clerk[p].sub,
           \A x \in Subs : KeysOf(x) \subseteq KeysOf(x)',
           t.op = "issue" => t.revoke \subseteq clerk[p].revoke
    PROVE  RefersToRows' /\ CancelledStays' /\ BarredBoxes'
<1>1. PICK s : s = clerk[p].sub
    OBVIOUS
<1>2. s \in Subs /\ s \in DOMAIN subs /\ clerk[p].revoke \subseteq KeysOf(s) /\ On(p, "issue", s)
    BY <1>1, ClerkFacts DEF SubscriptionInv, RefersToRows, On
<1>3. /\ clerk'[p] = t
      /\ \A q \in Clerks \ {p} :
            /\ clerk'[q].op = clerk[q].op
            /\ clerk[q].op # "none" => clerk'[q].sub = clerk[q].sub
            /\ clerk[q].op = "change" => clerk'[q].row = clerk[q].row
            /\ clerk[q].op = "issue" => clerk'[q].revoke = clerk[q].revoke
            /\ clerk[q].op # "none" /\ ~clerk'[q].stale => ~clerk[q].stale
    BY OvertakeEffect DEF SubscriptionInv
<1>4. RefersToRows'
    <2>1. ASSUME NEW k \in DOMAIN keys' PROVE keys'[k].sub \in DOMAIN subs'
        BY <2>1, <1>1, <1>2 DEF SubscriptionInv, RefersToRows
    <2>2. ASSUME NEW q \in Clerks, clerk'[q].op # "none" PROVE clerk'[q].sub \in DOMAIN subs'
        BY <2>2, <1>1, <1>2, <1>3 DEF SubscriptionInv, RefersToRows
    <2>3. ASSUME NEW q \in Clerks, NEW x \in Subs, On(q, "issue", x)'
          PROVE  clerk'[q].revoke \subseteq KeysOf(x)'
        <3>1. CASE q = p
            BY <2>3, <3>1, <1>1, <1>2, <1>3 DEF On
        <3>2. CASE q # p
            BY <2>3, <3>2, <1>3 DEF On, SubscriptionInv, RefersToRows
        <3> QED BY <3>1, <3>2
    <2> QED BY <2>1, <2>2, <2>3 DEF RefersToRows
<1>5. CancelledStays'
    <2>1. ASSUME NEW x \in off' \ crossed'
          PROVE  /\ x \in DOMAIN subs' /\ subs'[x].status = "cancelled"
                 /\ \A q \in Clerks : On(q, "change", x)' /\ ~clerk'[q].stale =>
                       clerk'[q].row.status = "cancelled"
        <3>1. x \in DOMAIN subs' /\ subs'[x].status = "cancelled"
            BY <2>1 DEF SubscriptionInv, CancelledStays
        <3>2. ASSUME NEW q \in Clerks, On(q, "change", x)', ~clerk'[q].stale
              PROVE  clerk'[q].row.status = "cancelled"
            BY <2>1, <3>2, <1>3 DEF On, SubscriptionInv, CancelledStays
        <3> QED BY <3>1, <3>2
    <2> QED BY <2>1 DEF CancelledStays
<1>6. BarredBoxes'
    BY BoxesStay
<1> QED BY <1>4, <1>5, <1>6

LEMMA RevokeKeyKeeps ==
    ASSUME SubscriptionInv, NEW p \in Clerks, RevokeKey(p)
    PROVE  SubscriptionInv'
<1>1. PICK s : s = clerk[p].sub
    OBVIOUS
<1>2. /\ clerk[p].op = "issue" /\ s \in Subs /\ clerk[p].revoke \subseteq KeysOf(s)
      /\ On(p, "issue", s) /\ clerk[p].pkg \in Packages /\ clerk[p].stale \in BOOLEAN
      /\ clerk[p].revoke \subseteq Keys
    BY <1>1, ClerkFacts DEF RevokeKey, SubscriptionInv, RefersToRows, On
<1>3. PICK k \in clerk[p].revoke :
         /\ keys' = [keys EXCEPT ![k].active = FALSE]
         /\ Overtake(p, [clerk[p] EXCEPT !.revoke = @ \ {k}])
    BY DEF RevokeKey
<1>4. PICK t : t = [clerk[p] EXCEPT !.revoke = @ \ {k}]
    OBVIOUS
<1>5. /\ t \in ClerkTask /\ t.op = "issue" /\ t.sub = s
      /\ t.revoke = clerk[p].revoke \ {k} /\ t.stale = clerk[p].stale
    <2>1. ASSUME NEW u \in ClerkTask, u.op = "issue", NEW v, v = [u EXCEPT !.revoke = @ \ {k}]
          PROVE  /\ v \in ClerkTask /\ v.op = "issue" /\ v.sub = u.sub
                 /\ v.revoke = u.revoke \ {k} /\ v.stale = u.stale
        <3>1. u \in [op : {"issue"}, sub : Subs, pkg : Packages, revoke : SUBSET Keys, stale : BOOLEAN]
            BY <2>1 DEF ClerkTask, Idle
        <3>2. v \in [op : {"issue"}, sub : Subs, pkg : Packages, revoke : SUBSET Keys, stale : BOOLEAN]
            BY <2>1, <3>1
        <3>3. v \in ClerkTask
            BY <3>2, Zenon DEF ClerkTask
        <3> QED BY <2>1, <3>1, <3>3
    <2> QED BY <2>1, <1>1, <1>2, <1>4, ClerkFacts DEF SubscriptionInv
<1>6. k \in DOMAIN keys /\ keys[k].sub = s
    BY <1>2, <1>3 DEF KeysOf
<1>7. /\ DOMAIN keys' = DOMAIN keys
      /\ \A j \in DOMAIN keys : keys'[j] \in Key /\ keys'[j].sub = keys[j].sub
      /\ \A x \in Subs : KeysOf(x)' = KeysOf(x)
      /\ ActiveKeys(s)' = ActiveKeys(s) \ {k}
      /\ \A x \in Subs \ {s} : ActiveKeys(x)' = ActiveKeys(x)
    BY <1>3, <1>6, RevokeEffect DEF SubscriptionInv
<1>8. /\ clerk' \in [Clerks -> ClerkTask]
      /\ clerk'[p] = t
      /\ \A q \in Clerks \ {p} :
            /\ clerk'[q].op = clerk[q].op
            /\ clerk[q].op # "none" => clerk'[q].sub = clerk[q].sub
            /\ clerk[q].op = "issue" => clerk'[q].revoke = clerk[q].revoke
            /\ On(q, "issue", s) => clerk'[q].stale
            /\ clerk[q].op # "none" /\ ~clerk'[q].stale => ~clerk[q].stale
    BY <1>1, <1>2, <1>3, <1>4, <1>5, OvertakeEffect DEF SubscriptionInv
<1>9. subs' = subs /\ off' = off /\ crossed' = crossed /\ broken' = broken /\ box' = box
    BY DEF RevokeKey
<1>10. SubscriptionTypeOK'
    BY <1>7, <1>8, <1>9 DEF SubscriptionInv, SubscriptionTypeOK
<1>11. RefersToRows' /\ CancelledStays' /\ BarredBoxes'
    BY <1>1, <1>2, <1>3, <1>4, <1>5, <1>7, <1>9, KeyWriteKeeps
<1>12. RevokesAll'
    <2>1. ASSUME NEW q \in Clerks, NEW x \in Subs, On(q, "issue", x)', ~clerk'[q].stale
          PROVE  clerk'[q].revoke = ActiveKeys(x)'
        <3>1. CASE q = p
            <4>1. x = s /\ ~clerk[p].stale
                BY <2>1, <3>1, <1>5, <1>8 DEF On
            <4>2. clerk[p].revoke = ActiveKeys(s)
                BY <4>1, <1>2 DEF SubscriptionInv, RevokesAll
            <4> QED BY <3>1, <4>1, <4>2, <1>5, <1>7, <1>8
        <3>2. CASE q # p
            <4>1. On(q, "issue", x) /\ ~clerk[q].stale
                BY <2>1, <3>2, <1>8 DEF On
            <4>2. x # s
                BY <2>1, <3>2, <4>1, <1>8
            <4> QED BY <3>2, <4>1, <4>2, <1>7, <1>8 DEF SubscriptionInv, RevokesAll, On
        <3> QED BY <3>1, <3>2
    <2> QED BY <2>1 DEF RevokesAll
<1>13. OneKeyLeft'
    <2>1. ASSUME NEW x \in DOMAIN subs' \ broken', \A q \in Clerks : ~On(q, "issue", x)'
          PROVE  \E j \in Keys : ActiveKeys(x)' = {j}
        <3>1. x # s
            BY <2>1, <1>5, <1>8 DEF On
        <3>2. \A q \in Clerks : ~On(q, "issue", x)
            BY <2>1, <3>1, <1>1, <1>8 DEF On
        <3> QED BY <2>1, <3>1, <3>2, <1>7, <1>9 DEF SubscriptionInv, SubscriptionTypeOK, OneKeyLeft
    <2> QED BY <2>1 DEF OneKeyLeft
<1> QED BY <1>10, <1>11, <1>12, <1>13 DEF SubscriptionInv

\* The one who ends has revoked every other key, or was overtaken and is
\* broken from then on.
LEMMA IssueKeyKeeps ==
    ASSUME SubscriptionInv, NEW p \in Clerks, IssueKey(p)
    PROVE  SubscriptionInv'
<1>1. PICK s : s = clerk[p].sub
    OBVIOUS
<1>2. /\ clerk[p].op = "issue" /\ clerk[p].revoke = {} /\ s \in Subs /\ s \in DOMAIN subs
      /\ On(p, "issue", s) /\ clerk[p].pkg \in Packages /\ clerk[p].stale \in BOOLEAN
    BY <1>1, ClerkFacts DEF IssueKey, SubscriptionInv, RefersToRows, On
<1>3. PICK k \in Keys \ DOMAIN keys :
         keys' = Put(keys, k, [sub |-> s, pkg |-> clerk[p].pkg, active |-> TRUE])
    BY <1>1 DEF IssueKey
<1>4. PICK row : row = [sub |-> s, pkg |-> clerk[p].pkg, active |-> TRUE]
    OBVIOUS
<1>5. row \in Key /\ row.sub = s /\ row.active
    BY <1>2, <1>4 DEF Key
<1>6. /\ DOMAIN keys' = DOMAIN keys \cup {k} /\ DOMAIN keys' \subseteq Keys
      /\ \A j \in DOMAIN keys' : keys'[j] \in Key
      /\ keys'[k].sub = s
      /\ \A j \in DOMAIN keys : keys'[j] = keys[j]
      /\ \A x \in Subs : KeysOf(x) \subseteq KeysOf(x)'
      /\ ActiveKeys(s)' = ActiveKeys(s) \cup {k}
      /\ \A x \in Subs \ {s} : ActiveKeys(x)' = ActiveKeys(x)
    BY <1>2, <1>3, <1>4, <1>5, IssueEffect DEF SubscriptionInv
<1>7. /\ clerk' \in [Clerks -> ClerkTask]
      /\ clerk'[p].op = "none"
      /\ \A q \in Clerks \ {p} :
            /\ clerk'[q].op = clerk[q].op
            /\ clerk[q].op # "none" => clerk'[q].sub = clerk[q].sub
            /\ clerk[q].op = "issue" => clerk'[q].revoke = clerk[q].revoke
            /\ On(q, "issue", s) => clerk'[q].stale
            /\ clerk[q].op # "none" /\ ~clerk'[q].stale => ~clerk[q].stale
    BY <1>1, <1>2, IdleIsTask, OvertakeEffect DEF IssueKey, SubscriptionInv
<1>8. /\ subs' = subs /\ off' = off /\ crossed' = crossed /\ box' = box
      /\ broken' = IF clerk[p].stale THEN broken \cup {s} ELSE broken \ {s}
    BY <1>1 DEF IssueKey
<1>9. SubscriptionTypeOK'
    BY <1>2, <1>6, <1>7, <1>8 DEF SubscriptionInv, SubscriptionTypeOK
<1>10. RefersToRows' /\ CancelledStays' /\ BarredBoxes'
    <2>1. Overtake(p, Idle)
        BY DEF IssueKey
    <2>2. \A j \in DOMAIN keys' \ DOMAIN keys : keys'[j].sub = clerk[p].sub
        BY <1>1, <1>6
    <2> QED BY <2>1, <2>2, <1>2, <1>6, <1>8, IdleIsTask, KeyWriteKeeps
<1>11. RevokesAll'
    <2>1. ASSUME NEW q \in Clerks, NEW x \in Subs, On(q, "issue", x)', ~clerk'[q].stale
          PROVE  clerk'[q].revoke = ActiveKeys(x)'
        <3>1. q # p
            BY <2>1, <1>7 DEF On
        <3>2. On(q, "issue", x) /\ ~clerk[q].stale
            BY <2>1, <3>1, <1>7 DEF On
        <3>3. x # s
            BY <2>1, <3>1, <3>2, <1>7
        <3> QED BY <3>1, <3>2, <3>3, <1>6, <1>7 DEF SubscriptionInv, RevokesAll, On
    <2> QED BY <2>1 DEF RevokesAll
<1>12. OneKeyLeft'
    <2>1. ASSUME NEW x \in DOMAIN subs' \ broken', \A q \in Clerks : ~On(q, "issue", x)'
          PROVE  \E j \in Keys : ActiveKeys(x)' = {j}
        <3>1. CASE x = s
            <4>1. ~clerk[p].stale
                BY <2>1, <3>1, <1>8
            <4>2. ActiveKeys(s) = {}
                BY <4>1, <1>2 DEF SubscriptionInv, RevokesAll
            <4> QED BY <3>1, <4>2, <1>3, <1>6
        <3>2. CASE x # s
            <4>1. \A q \in Clerks : ~On(q, "issue", x)
                BY <2>1, <3>2, <1>1, <1>7 DEF On
            <4>2. x \in DOMAIN subs \ broken
                BY <2>1, <3>2, <1>8
            <4> QED BY <3>2, <4>1, <4>2, <1>6 DEF SubscriptionInv, SubscriptionTypeOK, OneKeyLeft
        <3> QED BY <3>1, <3>2
    <2> QED BY <2>1 DEF OneKeyLeft
<1> QED BY <1>9, <1>10, <1>11, <1>12 DEF SubscriptionInv

LEMMA ClerkGivesUpKeeps ==
    ASSUME SubscriptionInv, NEW p \in Clerks, ClerkGivesUp(p)
    PROVE  SubscriptionInv'
<1>1. /\ subs' = subs /\ keys' = keys /\ box' = box /\ off' = off /\ crossed' = crossed
      /\ clerk[p].op # "none"
      /\ broken' = IF clerk[p].op = "issue" THEN broken \cup {clerk[p].sub} ELSE broken
    BY DEF ClerkGivesUp, IsIdle
<1>2. /\ clerk' \in [Clerks -> ClerkTask]
      /\ clerk'[p].op = "none"
      /\ \A q \in Clerks \ {p} : clerk'[q] = clerk[q]
    BY IdleIsTask, BecomeEffect DEF ClerkGivesUp, SubscriptionInv
<1>3. \A x \in Subs : KeysOf(x)' = KeysOf(x) /\ ActiveKeys(x)' = ActiveKeys(x)
    BY <1>1 DEF ActiveKeys, KeysOf
<1>4. SubscriptionTypeOK'
    BY <1>1, <1>2, ClerkFacts DEF SubscriptionInv, SubscriptionTypeOK
<1>5. RefersToRows'
    BY <1>1, <1>2, <1>3 DEF SubscriptionInv, RefersToRows, On
<1>6. CancelledStays'
    BY <1>1, <1>2 DEF SubscriptionInv, CancelledStays, On
<1>7. BarredBoxes'
    BY <1>1, BoxesStay
<1>8. RevokesAll'
    BY <1>2, <1>3 DEF SubscriptionInv, RevokesAll, On
<1>9. OneKeyLeft'
    <2>1. ASSUME NEW x \in DOMAIN subs' \ broken', \A q \in Clerks : ~On(q, "issue", x)'
          PROVE  \E j \in Keys : ActiveKeys(x)' = {j}
        <3>1. \A q \in Clerks : ~On(q, "issue", x)
            BY <2>1, <1>1, <1>2 DEF On
        <3>2. x \in DOMAIN subs \ broken
            BY <2>1, <1>1
        <3> QED BY <3>1, <3>2, <1>3 DEF SubscriptionInv, SubscriptionTypeOK, OneKeyLeft
    <2> QED BY <2>1 DEF OneKeyLeft
<1> QED BY <1>4, <1>5, <1>6, <1>7, <1>8, <1>9 DEF SubscriptionInv

-----------------------------------------------------------------------------
(* Boxes only read. *)

\* What BarredBoxes says of a box at v.
GoodBox(v) ==
    /\ v.stage \in {"asking", "keyed", "entitled"} =>
          v.key \in DOMAIN keys /\ keys[v.key].sub = v.sub
    /\ v.stage # "idle" /\ v.barred => v.sub \in off
    /\ v.stage \in {"entitled", "found"} /\ v.barred => v.sub \in crossed
    /\ v.stage = "answered" /\ v.barred /\ v.sub \notin crossed =>
          v.answer \notin {"active", "channels"}

LEMMA BoxMoves ==
    ASSUME SubscriptionInv, NEW b \in Boxes, NEW v \in BoxTask, GoodBox(v),
           box' = [box EXCEPT ![b] = v],
           subs' = subs, keys' = keys, clerk' = clerk,
           off' = off, crossed' = crossed, broken' = broken
    PROVE  SubscriptionInv'
<1>1. SubscriptionTypeOK'
    BY DEF SubscriptionInv, SubscriptionTypeOK
<1>2. RefersToRows' /\ CancelledStays' /\ RevokesAll' /\ OneKeyLeft'
    BY DEF SubscriptionInv, RefersToRows, CancelledStays, RevokesAll, OneKeyLeft, On, KeysOf, ActiveKeys
<1>3. BarredBoxes'
    <2>1. box'[b] = v /\ \A c \in Boxes \ {b} : box'[c] = box[c]
        BY DEF SubscriptionInv, SubscriptionTypeOK
    <2> QED BY <2>1 DEF SubscriptionInv, BarredBoxes, GoodBox
<1> QED BY <1>1, <1>2, <1>3 DEF SubscriptionInv

LEMMA BoxFacts ==
    ASSUME SubscriptionInv, NEW b \in Boxes
    PROVE  /\ GoodBox(box[b])
           /\ box[b].stage \in {"asking", "keyed", "entitled"} =>
                 /\ box[b] \in [stage : {"asking", "keyed", "entitled"}, key : Keys, sub : Subs,
                                  wants : {"state", "playlist", "channel"}, barred : BOOLEAN]
                 /\ box[b].key \in Keys /\ box[b].sub \in Subs /\ box[b].barred \in BOOLEAN
           /\ box[b].stage = "found" => box[b].sub \in Subs /\ box[b].barred \in BOOLEAN
<1>1. GoodBox(box[b])
    BY DEF SubscriptionInv, BarredBoxes, GoodBox
<1>2. ASSUME NEW v \in BoxTask, v.stage \in {"asking", "keyed", "entitled"}
      PROVE  v \in [stage : {"asking", "keyed", "entitled"}, key : Keys, sub : Subs,
                     wants : {"state", "playlist", "channel"}, barred : BOOLEAN]
    BY <1>2 DEF BoxTask
<1>3. ASSUME NEW v \in BoxTask, v.stage = "found" PROVE v.sub \in Subs /\ v.barred \in BOOLEAN
    BY <1>3 DEF BoxTask
<1>4. box[b] \in BoxTask
    BY DEF SubscriptionInv, SubscriptionTypeOK
<1> QED BY <1>1, <1>2, <1>3, <1>4

\* An answer for the subscription s.
LEMMA AnswerKeeps ==
    ASSUME SubscriptionInv, NEW b \in Boxes,
           NEW a \in {"active", "inactive", "channels", "refused"}, Answer(b, a),
           box[b].sub \in Subs, box[b].barred \in BOOLEAN,
           box[b].barred => box[b].sub \in off,
           box[b].barred /\ a \in {"active", "channels"} => box[b].sub \in crossed,
           subs' = subs, keys' = keys, clerk' = clerk,
           off' = off, crossed' = crossed, broken' = broken
    PROVE  SubscriptionInv'
<1>1. PICK s, x : s = box[b].sub /\ x = box[b].barred
    OBVIOUS
<1>2. PICK v : v = [stage |-> "answered", answer |-> a, sub |-> s, barred |-> x]
    OBVIOUS
<1>3. v \in [stage : {"answered"}, answer : {"active", "inactive", "channels", "refused"},
              sub : Subs, barred : BOOLEAN]
    BY <1>1, <1>2
<1>4. v \in BoxTask
    BY <1>3, Zenon DEF BoxTask
<1>5. v.stage = "answered" /\ v.answer = a /\ v.sub = s /\ (v.barred <=> x)
    BY <1>2
<1>6. GoodBox(v)
    BY <1>1, <1>5 DEF GoodBox
<1>7. box' = [box EXCEPT ![b] = v]
    BY <1>1, <1>2 DEF Answer
<1> QED BY <1>4, <1>6, <1>7, BoxMoves

LEMMA BoxStepKeeps ==
    ASSUME SubscriptionInv, NEW b \in Boxes, BoxStep(b)
    PROVE  SubscriptionInv'
<1>1. CASE BoxAsks(b)
  <2>1. PICK k \in DOMAIN keys, wants \in {"state", "playlist", "channel"} :
           box' = [box EXCEPT ![b] = [stage |-> "asking", key |-> k, sub |-> keys[k].sub,
                                      wants |-> wants, barred |-> keys[k].sub \in off]]
      BY <1>1 DEF BoxAsks
  <2>2. PICK s, x : s = keys[k].sub /\ x = (keys[k].sub \in off)
      OBVIOUS
  <2>3. s \in Subs /\ k \in Keys /\ x \in BOOLEAN
      BY <2>2 DEF SubscriptionInv, SubscriptionTypeOK, Key
  <2>4. PICK v : v = [stage |-> "asking", key |-> k, sub |-> s, wants |-> wants, barred |-> x]
      OBVIOUS
  <2>5. v \in [stage : {"asking", "keyed", "entitled"}, key : Keys, sub : Subs,
                wants : {"state", "playlist", "channel"}, barred : BOOLEAN]
      BY <2>3, <2>4
  <2>6. v \in BoxTask
      BY <2>5, Zenon DEF BoxTask
  <2>7. v.stage = "asking" /\ v.key = k /\ v.sub = s /\ (v.barred <=> x)
      BY <2>4
  <2>8. GoodBox(v)
      BY <2>2, <2>7 DEF GoodBox
  <2>9. box' = [box EXCEPT ![b] = v]
      BY <2>1, <2>2, <2>4
  <2> QED BY <1>1, <2>6, <2>8, <2>9, BoxMoves DEF BoxAsks
<1>2. CASE FindByToken(b)
  <2>1. box[b].stage = "asking"
      BY <1>2 DEF FindByToken
  <2>2. CASE keys[box[b].key].active
    <3>1. PICK u : u = box[b]
        OBVIOUS
    <3>2. PICK v : v = [u EXCEPT !.stage = "keyed"]
        OBVIOUS
    <3>3. u \in [stage : {"asking", "keyed", "entitled"}, key : Keys, sub : Subs,
                  wants : {"state", "playlist", "channel"}, barred : BOOLEAN]
        BY <2>1, <3>1, BoxFacts
    <3>4. v \in [stage : {"asking", "keyed", "entitled"}, key : Keys, sub : Subs,
                  wants : {"state", "playlist", "channel"}, barred : BOOLEAN]
        BY <3>2, <3>3
    <3>5. v \in BoxTask
        BY <3>4, Zenon DEF BoxTask
    <3>6. v.stage = "keyed" /\ v.key = u.key /\ v.sub = u.sub /\ (v.barred <=> u.barred)
        BY <3>2, <3>3
    <3>7. GoodBox(u) /\ u.stage = "asking"
        BY <2>1, <3>1, BoxFacts
    <3>8. GoodBox(v)
        BY <3>6, <3>7 DEF GoodBox
    <3>9. box' = [box EXCEPT ![b] = v]
        BY <1>2, <2>2, <3>1, <3>2 DEF FindByToken
    <3> QED BY <1>2, <3>5, <3>8, <3>9, BoxMoves DEF FindByToken, bridgeUnchanged
  <2>3. CASE ~keys[box[b].key].active
    <3>1. Answer(b, "refused")
        BY <1>2, <2>3 DEF FindByToken
    <3> QED BY <1>2, <2>1, <3>1, BoxFacts, AnswerKeeps DEF GoodBox, FindByToken, bridgeUnchanged
  <2> QED BY <2>2, <2>3
<1>3. CASE FindSubOfKey(b)
  <2>1. PICK s : s = box[b].sub
      OBVIOUS
  <2>2. box[b].stage = "keyed" /\ s \in Subs /\ box[b].barred \in BOOLEAN
      BY <1>3, <2>1, BoxFacts DEF FindSubOfKey
  <2>3. Entitled(subs[s]) /\ box[b].barred => s \in off /\ s \in crossed
      BY <2>1, <2>2, BoxFacts DEF GoodBox, Entitled, SubscriptionInv, CancelledStays
  <2>4. box[b].barred => s \in off
      BY <2>1, <2>2, BoxFacts DEF GoodBox
  <2>5. CASE box[b].wants = "state"
    <3>1. PICK a : a = IF Entitled(subs[s]) THEN "active" ELSE "inactive"
        OBVIOUS
    <3>2. Answer(b, a)
        BY <1>3, <2>1, <2>5, <3>1 DEF FindSubOfKey
    <3>3. a \in {"active", "inactive", "channels", "refused"}
        BY <3>1
    <3>4. box[b].barred /\ a \in {"active", "channels"} => s \in crossed
        BY <2>3, <3>1
    <3> QED BY <1>3, <2>1, <2>2, <2>4, <3>2, <3>3, <3>4, AnswerKeeps DEF FindSubOfKey, bridgeUnchanged
  <2>6. CASE box[b].wants # "state" /\ Entitled(subs[s])
    <3>1. PICK u : u = box[b]
        OBVIOUS
    <3>2. PICK v : v = [u EXCEPT !.stage = "entitled"]
        OBVIOUS
    <3>3. u \in [stage : {"asking", "keyed", "entitled"}, key : Keys, sub : Subs,
                  wants : {"state", "playlist", "channel"}, barred : BOOLEAN]
        BY <2>2, <3>1, BoxFacts
    <3>4. v \in [stage : {"asking", "keyed", "entitled"}, key : Keys, sub : Subs,
                  wants : {"state", "playlist", "channel"}, barred : BOOLEAN]
        BY <3>2, <3>3
    <3>5. v \in BoxTask
        BY <3>4, Zenon DEF BoxTask
    <3>6. v.stage = "entitled" /\ v.key = u.key /\ v.sub = u.sub /\ (v.barred <=> u.barred)
        BY <3>2, <3>3
    <3>7. GoodBox(u) /\ u.stage = "keyed" /\ (u.barred => u.sub \in crossed)
        BY <2>1, <2>2, <2>3, <2>6, <3>1, BoxFacts
    <3>8. GoodBox(v)
        BY <3>6, <3>7 DEF GoodBox
    <3>9. box' = [box EXCEPT ![b] = v]
        BY <1>3, <2>1, <2>6, <3>1, <3>2 DEF FindSubOfKey
    <3> QED BY <1>3, <3>5, <3>8, <3>9, BoxMoves DEF FindSubOfKey, bridgeUnchanged
  <2>7. CASE box[b].wants # "state" /\ ~Entitled(subs[s])
    <3>1. Answer(b, "refused")
        BY <1>3, <2>1, <2>7 DEF FindSubOfKey
    <3> QED BY <1>3, <2>1, <2>2, <2>4, <3>1, AnswerKeeps DEF FindSubOfKey, bridgeUnchanged
  <2> QED BY <2>5, <2>6, <2>7
<1>4. CASE FindByPackage(b)
  <2>1. box[b].stage = "entitled"
      BY <1>4 DEF FindByPackage
  <2>2. PICK a \in {"channels", "refused"} : Answer(b, a)
      BY <1>4 DEF FindByPackage
  <2>3. /\ box[b].sub \in Subs /\ box[b].barred \in BOOLEAN
        /\ box[b].barred => box[b].sub \in off /\ box[b].sub \in crossed
      BY <2>1, BoxFacts DEF GoodBox
  <2> QED BY <1>4, <2>2, <2>3, AnswerKeeps DEF FindByPackage, bridgeUnchanged
<1>5. CASE ConfigByMac(b)
  <2>1. PICK s \in DOMAIN subs :
           /\ Entitled(subs[s])
           /\ box' = [box EXCEPT ![b] = [stage |-> "found", sub |-> s, barred |-> s \in off]]
      BY <1>5 DEF ConfigByMac
  <2>2. PICK x : x = (s \in off)
      OBVIOUS
  <2>3. s \in Subs /\ x \in BOOLEAN
      BY <2>2 DEF SubscriptionInv, SubscriptionTypeOK
  <2>4. PICK v : v = [stage |-> "found", sub |-> s, barred |-> x]
      OBVIOUS
  <2>5. v \in [stage : {"found"}, sub : Subs, barred : BOOLEAN]
      BY <2>3, <2>4
  <2>6. v \in BoxTask
      BY <2>5, Zenon DEF BoxTask
  <2>7. v.stage = "found" /\ v.sub = s /\ (v.barred <=> x)
      BY <2>4
  <2>8. s \in off => s \in crossed
      BY <2>1 DEF Entitled, SubscriptionInv, CancelledStays
  <2>9. GoodBox(v)
      BY <2>2, <2>7, <2>8 DEF GoodBox
  <2>10. box' = [box EXCEPT ![b] = v]
      BY <2>1, <2>2, <2>4
  <2> QED BY <1>5, <2>6, <2>9, <2>10, BoxMoves DEF ConfigByMac
<1>6. CASE ConfigKey(b)
  <2>1. box[b].stage = "found"
      BY <1>6 DEF ConfigKey
  <2>2. PICK a \in {"active", "refused"} : Answer(b, a)
      BY <1>6 DEF ConfigKey
  <2>3. /\ box[b].sub \in Subs /\ box[b].barred \in BOOLEAN
        /\ box[b].barred => box[b].sub \in off /\ box[b].sub \in crossed
      BY <2>1, BoxFacts DEF GoodBox
  <2> QED BY <1>6, <2>2, <2>3, AnswerKeeps DEF ConfigKey, bridgeUnchanged
<1> QED BY <1>1, <1>2, <1>3, <1>4, <1>5, <1>6 DEF BoxStep

-----------------------------------------------------------------------------

\* What the other half does leaves subscriptions alone.
LEMMA OthersKeep ==
    ASSUME SubscriptionInv, UNCHANGED subVars
    PROVE  SubscriptionInv'
BY DEF SubscriptionInv, SubscriptionTypeOK, RefersToRows, CancelledStays, BarredBoxes, RevokesAll,
       OneKeyLeft, On, KeysOf, ActiveKeys, subVars

LEMMA SubscriptionInitInv == SubscriptionInit => SubscriptionInv
<1> SUFFICES ASSUME SubscriptionInit PROVE SubscriptionInv
    OBVIOUS
<1>1. PICK s \in Subs, k \in Keys, g \in Packages :
         /\ subs = [x \in {s} |-> [status |-> "active", pkg |-> g]]
         /\ keys = [x \in {k} |-> [sub |-> s, pkg |-> g, active |-> TRUE]]
    BY DEF SubscriptionInit
<1>2. /\ clerk = [p \in Clerks |-> Idle]
      /\ box = [b \in Boxes |-> [stage |-> "idle"]]
      /\ off = {} /\ crossed = {} /\ broken = {}
    BY DEF SubscriptionInit
<1>3. \A p \in Clerks : clerk[p] \in ClerkTask /\ clerk[p].op = "none"
    BY <1>2, IdleIsTask
<1>4. \A b \in Boxes : box[b] \in BoxTask /\ box[b].stage = "idle"
    <2>1. [stage |-> "idle"] \in [stage : {"idle"}]
        OBVIOUS
    <2>2. [stage |-> "idle"] \in BoxTask
        BY <2>1, Zenon DEF BoxTask
    <2> QED BY <1>2, <2>2
<1>5. keys[k].sub = s /\ keys[k].active /\ keys[k] \in Key /\ DOMAIN keys = {k}
    BY <1>1 DEF Key
<1>6. subs[s] \in Subscription /\ DOMAIN subs = {s}
    BY <1>1 DEF Subscription
<1>7. SubscriptionTypeOK
    BY <1>2, <1>3, <1>4, <1>5, <1>6 DEF SubscriptionTypeOK
<1>8. RefersToRows /\ CancelledStays /\ RevokesAll
    BY <1>2, <1>3, <1>5, <1>6 DEF RefersToRows, CancelledStays, RevokesAll, On
<1>9. BarredBoxes
    BY <1>4 DEF BarredBoxes
<1>10. ActiveKeys(s) = {k}
    BY <1>5 DEF ActiveKeys, KeysOf
<1>11. OneKeyLeft
    BY <1>6, <1>10 DEF OneKeyLeft
<1> QED BY <1>7, <1>8, <1>9, <1>11 DEF SubscriptionInv

\* The invariant of the subscriptions, with what their commands and the boxes'
\* bridge hold (subscription.go, subscription_key.go, stb_bridge.go).
THEOREM SubscriptionInvariant == Spec => []SubscriptionInv
<1>1. Init => SubscriptionInv
    BY SubscriptionInitInv DEF Init
<1>2. SubscriptionInv /\ [Next]_vars => SubscriptionInv'
  <2> SUFFICES ASSUME SubscriptionInv, [Next]_vars PROVE SubscriptionInv'
      OBVIOUS
  <2>1. CASE UNCHANGED subVars
      BY <2>1, OthersKeep
  <2>2. CASE SubscriptionNext
    <3>1. ASSUME NEW p \in Clerks, ClerkStep(p) PROVE SubscriptionInv'
        BY <3>1, CreateSubscriptionKeeps, FindSubscriptionKeeps, ReissueKeyKeeps,
           SaveSubscriptionKeeps, RevokeKeyKeeps, IssueKeyKeeps, ClerkGivesUpKeeps DEF ClerkStep
    <3>2. ASSUME NEW b \in Boxes, BoxStep(b) PROVE SubscriptionInv'
        BY <3>2, BoxStepKeeps
    <3> QED BY <2>2, <3>1, <3>2 DEF SubscriptionNext
  <2> QED BY <2>1, <2>2 DEF Next, vars
<1> QED BY <1>1, <1>2, PTL DEF Spec

-----------------------------------------------------------------------------
(* The stacks. *)

\* Playable, of any tables.
Fit(R, cs, vs) ==
    {r \in R : r.channel \in cs /\ r.provider \in DOMAIN vs /\ vs[r.provider].type = "internal"}

LEMMA PlayableFits ==
    \A R : Playable(R) = Fit(R, channels, providers) /\ Playable(R) \subseteq R
BY DEF Playable, Fit

\* A deployment that nothing has overtaken brings up what is assigned, on the
\* node it will save; once it is up, that is what the node streams.
GoodDeed(d) ==
    /\ d.op \in {"update", "mark"} => d.row.status = "pending"
    /\ d.op # "none" /\ ~d.stale =>
          /\ d.op \in {"read", "listed", "resolved", "deploying", "written", "up"} => d.row.node = d.node
          /\ d.op = "listed" => d.list = assigned[d.stack]
          /\ d.op \in {"resolved", "deploying", "written", "up"} =>
                 d.list = Fit(assigned[d.stack], channels, providers)
          /\ d.op = "written" => d.stack \in DOMAIN files[d.node] /\ files[d.node][d.stack] = d.list
          /\ d.op = "up" => d.stack \in DOMAIN host[d.node] /\ host[d.node][d.stack] = d.list

DeploysAssigned == \A p \in Operators : GoodDeed(deed[p])

\* Nobody is about to mark the stack or to delete it.
Quiet(s) == \A p \in Operators : At(p, s) => deed[p].op \notin {"changed", "mark", "delete"}

\* RunningIsAssigned, for one stack.
Streamed(s) ==
    stacks[s].status = "running" /\ Quiet(s) =>
        /\ s \in DOMAIN host[stacks[s].node]
        /\ host[stacks[s].node][s] = Fit(assigned[s], channels, providers)

AllStreamed == \A s \in DOMAIN stacks \ adrift : Streamed(s)

\* The inductive invariant of the stacks.
StackInv == StackTypeOK /\ DeploysAssigned /\ AllStreamed

\* What StackTypeOK says of the tables and of the nodes.
TablesOK ==
    /\ channels \subseteq Channels
    /\ lineup \in [Packages -> SUBSET Channels]
    /\ DOMAIN providers \subseteq Providers /\ \A v \in DOMAIN providers : providers[v] \in Provider
    /\ assigned \in [Stacks -> SUBSET Assignment]
    /\ DOMAIN stacks \subseteq Stacks /\ \A s \in DOMAIN stacks : stacks[s] \in Stack
    /\ unborn \subseteq Stacks
    /\ DOMAIN files = Nodes /\ DOMAIN host = Nodes
    /\ \A n \in Nodes : DOMAIN files[n] \subseteq Stacks /\ DOMAIN host[n] \subseteq Stacks
    /\ adrift \subseteq Stacks

LEMMA NoDeedIsGood == NoDeed.op = "none" /\ GoodDeed(NoDeed) /\ GoodDeed(NoDeed)'
BY DEF NoDeed, GoodDeed

LEMMA DeedFacts ==
    ASSUME StackTypeOK, NEW p \in Operators, deed[p].op # "none"
    PROVE  /\ deed[p] \in Deeds
           /\ deed[p].stack \in Stacks /\ deed[p].row \in Stack /\ deed[p].list \subseteq Assignment
           /\ deed[p].node \in Nodes /\ deed[p].stale \in BOOLEAN
<1>1. deed[p] \in {NoDeed} \cup Deeds
    BY DEF StackTypeOK
<1>2. deed[p] \in Deeds
    BY <1>1, NoDeedIsGood
<1>3. ASSUME NEW d \in Deeds
      PROVE  /\ d.stack \in Stacks /\ d.row \in Stack /\ d.list \subseteq Assignment
             /\ d.node \in Nodes /\ d.stale \in BOOLEAN
    BY <1>3 DEF Deeds
<1> QED BY <1>2, <1>3

\* What a request that overtakes others on s leaves of their tasks.
LEMMA PrecedeEffect ==
    ASSUME StackTypeOK, NEW p \in Operators, NEW s, NEW d \in {NoDeed} \cup Deeds, Precede(p, s, d)
    PROVE  /\ deed' \in [Operators -> {NoDeed} \cup Deeds]
           /\ deed'[p] = d
           /\ \A q \in Operators \ {p} :
                 /\ deed'[q].op = deed[q].op
                 /\ deed[q].op # "none" =>
                       /\ deed'[q].stack = deed[q].stack /\ deed'[q].row = deed[q].row
                       /\ deed'[q].list = deed[q].list /\ deed'[q].node = deed[q].node
                       /\ At(q, s) => deed'[q].stale
                       /\ ~deed'[q].stale => ~deed[q].stale
<1>1. deed' = [q \in Operators |-> deed'[q]]
    BY DEF Precede
<1>2. deed'[p] = d
    BY DEF Precede
<1>3. ASSUME NEW q \in Operators \ {p}
      PROVE  /\ deed'[q] \in {NoDeed} \cup Deeds
             /\ deed'[q].op = deed[q].op
             /\ deed[q].op # "none" =>
                   /\ deed'[q].stack = deed[q].stack /\ deed'[q].row = deed[q].row
                   /\ deed'[q].list = deed[q].list /\ deed'[q].node = deed[q].node
                   /\ At(q, s) => deed'[q].stale
                   /\ ~deed'[q].stale => ~deed[q].stale
    <2>1. CASE ~At(q, s)
        <3>1. deed'[q] = deed[q]
            BY <2>1 DEF Precede
        <3> QED BY <2>1, <3>1 DEF StackTypeOK
    <2>2. CASE At(q, s)
        <3>1. deed'[q] = [deed[q] EXCEPT !.stale = TRUE]
            BY <2>2 DEF Precede
        <3>2. deed[q] \in Deeds
            BY <2>2, DeedFacts DEF At
        <3>3. ASSUME NEW u \in Deeds, NEW v, v = [u EXCEPT !.stale = TRUE]
              PROVE  /\ v \in Deeds /\ v.op = u.op /\ v.stack = u.stack /\ v.row = u.row
                     /\ v.list = u.list /\ v.node = u.node /\ v.stale
            BY <3>3 DEF Deeds
        <3> QED BY <3>1, <3>2, <3>3
    <2> QED BY <2>1, <2>2
<1> QED BY <1>1, <1>2, <1>3

-----------------------------------------------------------------------------
(* The two kinds of steps. *)

\* A request reads, goes on or gives up: no row starts running or moves, and a
\* stack that is no longer to be marked is adrift or gone.
LEMMA DoKeeps ==
    ASSUME StackInv, NEW p \in Operators, NEW d \in {NoDeed} \cup Deeds, Do(p, d), GoodDeed(d),
           UNCHANGED <<channels, lineup, providers, assigned, files, host>>,
           unborn' \subseteq Stacks, adrift \subseteq adrift', adrift' \subseteq Stacks,
           DOMAIN stacks' \subseteq Stacks,
           \A s \in DOMAIN stacks' :
              /\ stacks'[s] \in Stack
              /\ (s \in DOMAIN stacks /\ stacks'[s] = stacks[s]) \/ stacks'[s].status # "running",
           deed[p].op \in {"changed", "mark", "delete"} =>
              \/ deed[p].stack \in adrift'
              \/ deed[p].stack \notin DOMAIN stacks
              \/ d.op \in {"changed", "mark", "delete"} /\ d.stack = deed[p].stack
    PROVE  StackInv'
<1>1. /\ deed' \in [Operators -> {NoDeed} \cup Deeds]
      /\ deed'[p] = d
      /\ \A q \in Operators \ {p} : deed'[q] = deed[q]
    BY DEF StackInv, StackTypeOK, Do
<1>2. StackTypeOK'
    BY <1>1 DEF StackInv, StackTypeOK
<1>3. DeploysAssigned'
    BY <1>1 DEF StackInv, DeploysAssigned, GoodDeed
<1>4. AllStreamed'
    <2>1. ASSUME NEW s \in DOMAIN stacks' \ adrift', stacks'[s].status = "running", Quiet(s)'
          PROVE  /\ s \in DOMAIN host'[stacks'[s].node]
                 /\ host'[stacks'[s].node][s] = Fit(assigned'[s], channels', providers')
        <3>1. s \in DOMAIN stacks \ adrift /\ stacks'[s] = stacks[s]
            BY <2>1
        <3>2. Quiet(s)
            BY <2>1, <3>1, <1>1, NoDeedIsGood DEF Quiet, At
        <3> QED BY <2>1, <3>1, <3>2 DEF StackInv, AllStreamed, Streamed
    <2> QED BY <2>1 DEF AllStreamed, Streamed
<1> QED BY <1>2, <1>3, <1>4 DEF StackInv

\* A request writes about s, and overtakes the others that are at s.
LEMMA PrecedeKeeps ==
    ASSUME StackInv, NEW p \in Operators, NEW s \in Stacks, NEW d \in {NoDeed} \cup Deeds,
           Precede(p, s, d), GoodDeed(d)',
           deed[p].op # "none" => deed[p].stack = s,
           TablesOK', UNCHANGED <<channels, providers>>,
           \A x \in Stacks \ {s} :
              /\ assigned'[x] = assigned[x]
              /\ x \in DOMAIN stacks' <=> x \in DOMAIN stacks
              /\ x \in DOMAIN stacks => stacks'[x] = stacks[x]
              /\ \A n \in Nodes : /\ x \in DOMAIN files'[n] <=> x \in DOMAIN files[n]
                                  /\ x \in DOMAIN files[n] => files'[n][x] = files[n][x]
                                  /\ x \in DOMAIN host'[n] <=> x \in DOMAIN host[n]
                                  /\ x \in DOMAIN host[n] => host'[n][x] = host[n][x]
              /\ x \in adrift' <=> x \in adrift,
           s \in DOMAIN stacks' \ adrift' => Streamed(s)'
    PROVE  StackInv'
<1>1. /\ deed' \in [Operators -> {NoDeed} \cup Deeds]
      /\ deed'[p] = d
      /\ \A q \in Operators \ {p} :
            /\ deed'[q].op = deed[q].op
            /\ deed[q].op # "none" =>
                  /\ deed'[q].stack = deed[q].stack /\ deed'[q].row = deed[q].row
                  /\ deed'[q].list = deed[q].list /\ deed'[q].node = deed[q].node
                  /\ At(q, s) => deed'[q].stale
                  /\ ~deed'[q].stale => ~deed[q].stale
    BY PrecedeEffect DEF StackInv
<1>2. StackTypeOK'
    BY <1>1 DEF TablesOK, StackTypeOK
<1>3. DeploysAssigned'
    <2>1. ASSUME NEW q \in Operators PROVE GoodDeed(deed[q])'
        <3>1. CASE q = p
            BY <3>1, <1>1 DEF GoodDeed
        <3>2. CASE q # p /\ deed[q].op = "none"
            BY <3>2, <1>1 DEF GoodDeed
        <3>3. CASE q # p /\ deed[q].op # "none"
            <4>1. GoodDeed(deed[q])
                BY DEF StackInv, DeploysAssigned
            <4>2. deed[q].stack \in Stacks /\ deed[q].node \in Nodes
                BY <3>3, DeedFacts DEF StackInv
            <4>3. ~deed'[q].stale => deed[q].stack # s
                BY <3>3, <1>1 DEF At
            <4>4. CASE deed'[q].stale
                BY <4>1, <4>4, <3>3, <1>1 DEF GoodDeed
            <4>5. CASE ~deed'[q].stale
                <5>1. ~deed[q].stale /\ deed[q].stack \in Stacks \ {s}
                    BY <4>2, <4>3, <4>5, <3>3, <1>1
                <5> QED BY <4>1, <4>2, <4>5, <5>1, <3>3, <1>1 DEF GoodDeed
            <4> QED BY <4>4, <4>5
        <3> QED BY <3>1, <3>2, <3>3
    <2> QED BY <2>1 DEF DeploysAssigned
<1>4. AllStreamed'
    <2>1. ASSUME NEW x \in DOMAIN stacks' \ adrift', x # s, stacks'[x].status = "running", Quiet(x)'
          PROVE  /\ x \in DOMAIN host'[stacks'[x].node]
                 /\ host'[stacks'[x].node][x] = Fit(assigned'[x], channels', providers')
        <3>1. x \in Stacks \ {s}
            BY <2>1, <1>2 DEF StackTypeOK
        <3>2. x \in DOMAIN stacks \ adrift /\ stacks'[x] = stacks[x] /\ stacks[x].node \in Nodes
            BY <2>1, <3>1 DEF StackInv, StackTypeOK, Stack
        <3>3. Quiet(x)
            BY <2>1, <1>1 DEF Quiet, At
        <3>4. /\ x \in DOMAIN host[stacks[x].node]
              /\ host[stacks[x].node][x] = Fit(assigned[x], channels, providers)
            BY <2>1, <3>2, <3>3 DEF StackInv, AllStreamed, Streamed
        <3> QED BY <3>1, <3>2, <3>4
    <2>2. ASSUME NEW x \in DOMAIN stacks' \ adrift' PROVE Streamed(x)'
        <3>1. CASE x = s
            BY <3>1, <2>2
        <3>2. CASE x # s
            BY <3>2, <2>1 DEF Streamed
        <3> QED BY <3>1, <3>2
    <2> QED BY <2>2 DEF AllStreamed
<1> QED BY <1>2, <1>3, <1>4 DEF StackInv

-----------------------------------------------------------------------------
(* The steps on stacks. *)

LEMMA PendingIsStack ==
    ASSUME NEW n \in Nodes
    PROVE  Pending(n) \in Stack /\ Pending(n).status = "pending"
BY DEF Pending, Stack

LEMMA StackFacts ==
    ASSUME StackTypeOK, NEW s \in DOMAIN stacks
    PROVE  /\ s \in Stacks /\ stacks[s] \in Stack /\ stacks[s].node \in Nodes
           /\ assigned[s] \subseteq Assignment
BY DEF StackTypeOK, Stack

LEMMA CreateStackKeeps ==
    ASSUME StackInv, NEW s \in Stacks, NEW n \in Nodes, CreateStack(s, n)
    PROVE  StackInv'
<1>1. /\ DOMAIN stacks' = DOMAIN stacks \cup {s}
      /\ stacks'[s] \in Stack /\ stacks'[s].status = "pending"
      /\ \A x \in DOMAIN stacks \ {s} : stacks'[x] = stacks[x]
    <2>1. stacks' = Put(stacks, s, Pending(n))
        BY DEF CreateStack
    <2>2. Pending(n) \in Stack /\ Pending(n).status = "pending"
        BY PendingIsStack
    <2> QED BY <2>1, <2>2 DEF Put
<1>2. /\ unborn' \subseteq unborn
      /\ UNCHANGED <<channels, lineup, providers, assigned, files, host, deed, adrift>>
    BY DEF CreateStack, catalogue
<1>3. StackTypeOK'
    BY <1>1, <1>2 DEF StackInv, StackTypeOK
<1>4. DeploysAssigned'
    BY <1>2 DEF StackInv, DeploysAssigned, GoodDeed
<1>5. AllStreamed'
    BY <1>1, <1>2 DEF StackInv, AllStreamed, Streamed, Quiet, At
<1> QED BY <1>3, <1>4, <1>5 DEF StackInv

LEMMA UpdateStackKeeps ==
    ASSUME StackInv, NEW p \in Operators, NEW s \in DOMAIN stacks, NEW n \in Nodes,
           UpdateStack(p, s, n)
    PROVE  StackInv'
<1>0. s \in Stacks
    BY StackFacts DEF StackInv
<1>1. PICK d \in Deeds : d.op = "update" /\ d.row.status = "pending" /\ Do(p, d)
    <2>1. Deed("update", s, Pending(n), {}) \in Deeds
          /\ Deed("update", s, Pending(n), {}).op = "update"
          /\ Deed("update", s, Pending(n), {}).row = Pending(n)
        BY <1>0, PendingIsStack DEF Deed, Deeds, Stack
    <2> QED BY <2>1, PendingIsStack DEF UpdateStack
<1>2. GoodDeed(d)
    BY <1>1 DEF GoodDeed
<1>3. UNCHANGED <<channels, lineup, providers, assigned, stacks, unborn, files, host, adrift>> /\ deed[p].op = "none"
    BY DEF UpdateStack, catalogue, IsFree
<1> QED BY <1>1, <1>2, <1>3, DoKeeps DEF StackInv, StackTypeOK

LEMMA ChangeChannelsKeeps ==
    ASSUME StackInv, NEW p \in Operators, NEW s \in DOMAIN stacks, NEW list \in SUBSET Assignment,
           ChangeChannels(p, s, list)
    PROVE  StackInv'
<1>1. PICK d \in Deeds : d.op = "changed" /\ d.stack = s /\ Precede(p, s, d)
    <2>1. s \in Stacks /\ stacks[s] \in Stack
        BY StackFacts DEF StackInv
    <2>2. /\ Deed("changed", s, stacks[s], {}) \in Deeds
          /\ Deed("changed", s, stacks[s], {}).op = "changed"
          /\ Deed("changed", s, stacks[s], {}).stack = s
        BY <2>1 DEF Deed, Deeds, Stack
    <2> QED BY <2>2 DEF ChangeChannels
<1>2. /\ assigned' = [assigned EXCEPT ![s] = list]
      /\ UNCHANGED <<channels, lineup, providers, stacks, unborn, files, host, adrift>> /\ deed[p].op = "none"
    BY DEF ChangeChannels, IsFree
<1>3. GoodDeed(d)'
    BY <1>1 DEF GoodDeed
<1>4. TablesOK'
    BY <1>2 DEF StackInv, StackTypeOK, TablesOK
<1>5. Streamed(s)'
    <2>1. deed'[p] = d
        BY <1>1 DEF Precede
    <2>2. ~Quiet(s)'
        BY <1>1, <2>1 DEF Quiet, At
    <2> QED BY <2>2 DEF Streamed
<1>6. /\ s \in Stacks
      /\ \A x \in Stacks \ {s} : assigned'[x] = assigned[x]
    BY <1>2, StackFacts DEF StackInv, StackTypeOK
<1> QED BY <1>1, <1>2, <1>3, <1>4, <1>5, <1>6, PrecedeKeeps

LEMMA ReadToMarkKeeps ==
    ASSUME StackInv, NEW p \in Operators, ReadToMark(p)
    PROVE  StackInv'
<1>1. deed[p].op = "changed"
      /\ UNCHANGED <<channels, lineup, providers, assigned, stacks, unborn, files, host, adrift>>
    BY DEF ReadToMark, catalogue
<1>2. PICK s \in Stacks : s = deed[p].stack
    BY <1>1, DeedFacts DEF StackInv
<1>3. CASE s \in DOMAIN stacks
    <2>1. Marked(stacks[s]) \in Stack /\ Marked(stacks[s]).status = "pending"
        BY <1>3, StackFacts, PendingIsStack DEF StackInv, Marked
    <2>2. PICK d \in Deeds : /\ d.op = "mark" /\ d.stack = s /\ d.row.status = "pending"
                             /\ Do(p, d)
        <3>1. /\ Deed("mark", s, Marked(stacks[s]), {}) \in Deeds
              /\ Deed("mark", s, Marked(stacks[s]), {}).op = "mark"
              /\ Deed("mark", s, Marked(stacks[s]), {}).stack = s
              /\ Deed("mark", s, Marked(stacks[s]), {}).row = Marked(stacks[s])
            BY <2>1 DEF Deed, Deeds, Stack
        <3>2. Do(p, Deed("mark", s, Marked(stacks[s]), {}))
            BY <1>2, <1>3 DEF ReadToMark
        <3> QED BY <2>1, <3>1, <3>2
    <2>3. GoodDeed(d)
        BY <2>2 DEF GoodDeed
    <2> QED BY <1>1, <1>2, <2>2, <2>3, DoKeeps DEF StackInv, StackTypeOK
<1>4. CASE s \notin DOMAIN stacks
    <2>1. Do(p, NoDeed)
        BY <1>2, <1>4 DEF ReadToMark
    <2> QED BY <1>1, <1>2, <1>4, <2>1, NoDeedIsGood, DoKeeps DEF StackInv, StackTypeOK
<1> QED BY <1>3, <1>4

LEMMA SaveMarkKeeps ==
    ASSUME StackInv, NEW p \in Operators, SaveMark(p)
    PROVE  StackInv'
<1>1. PICK s \in Stacks, row \in Stack : s = deed[p].stack /\ row = deed[p].row
    BY DeedFacts DEF StackInv, SaveMark
<1>2. row.status = "pending"
    BY <1>1 DEF StackInv, DeploysAssigned, GoodDeed, SaveMark
<1>3. /\ DOMAIN stacks' = DOMAIN stacks \cup {s}
      /\ stacks'[s] = row
      /\ \A x \in DOMAIN stacks \ {s} : stacks'[x] = stacks[x]
    BY <1>1 DEF SaveMark, Put
<1>4. Precede(p, s, NoDeed) /\ UNCHANGED <<channels, lineup, providers, assigned, unborn, files, host, adrift>>
    BY <1>1 DEF SaveMark, catalogue
<1>5. TablesOK'
    BY <1>3, <1>4 DEF StackInv, StackTypeOK, TablesOK
<1>6. Streamed(s)'
    BY <1>2, <1>3 DEF Streamed
<1> QED BY <1>1, <1>3, <1>4, <1>5, <1>6, NoDeedIsGood, PrecedeKeeps

LEMMA CloneStackKeeps ==
    ASSUME StackInv, NEW p \in Operators, NEW s \in DOMAIN stacks, NEW n \in Nodes,
           CloneStack(p, s, n)
    PROVE  StackInv'
<1>1. PICK new \in unborn : /\ unborn' = unborn \ {new}
                            /\ stacks' = Put(stacks, new, Pending(n))
                            /\ Do(p, Deed("clone", new, Pending(n), assigned[s]))
    BY DEF CloneStack
<1>2. new \in Stacks /\ assigned[s] \subseteq Assignment
    BY <1>1, StackFacts DEF StackInv, StackTypeOK
<1>3. PICK row \in Stack : row = Pending(n) /\ row.status = "pending"
    BY PendingIsStack
<1>4. PICK d \in Deeds : d.op = "clone" /\ Do(p, d)
    <2>1. /\ Deed("clone", new, row, assigned[s]) \in Deeds
          /\ Deed("clone", new, row, assigned[s]).op = "clone"
        BY <1>2 DEF Deed, Deeds, Stack
    <2> QED BY <1>1, <1>3, <2>1
<1>5. GoodDeed(d)
    BY <1>4 DEF GoodDeed
<1>6. /\ DOMAIN stacks' = DOMAIN stacks \cup {new}
      /\ stacks'[new] = row
      /\ \A x \in DOMAIN stacks \ {new} : stacks'[x] = stacks[x]
    BY <1>1, <1>3 DEF Put
<1>7. /\ UNCHANGED <<channels, lineup, providers, assigned, files, host, adrift>> /\ unborn' \subseteq unborn
      /\ deed[p].op = "none"
    BY <1>1 DEF CloneStack, catalogue, IsFree
<1> QED BY <1>2, <1>3, <1>4, <1>5, <1>6, <1>7, DoKeeps DEF StackInv, StackTypeOK

LEMMA CloneChannelKeeps ==
    ASSUME StackInv, NEW p \in Operators, CloneChannel(p)
    PROVE  StackInv'
<1>1. deed[p].op = "clone" /\ UNCHANGED <<channels, lineup, providers, stacks, unborn, files, host>>
    BY DEF CloneChannel
<1>2. PICK u \in Deeds, s \in Stacks :
         u = deed[p] /\ u.op = "clone" /\ s = u.stack /\ u.list \subseteq Assignment
    BY <1>1, DeedFacts DEF StackInv
<1>3. PICK r \in u.list :
         IF s \in DOMAIN stacks /\ r.channel \in channels /\ RowsOf(assigned[s], r.channel) = {}
         THEN /\ assigned' = [assigned EXCEPT ![s] = @ \cup {r}]
              /\ Precede(p, s, [u EXCEPT !.list = @ \ {r}])
              /\ adrift' = adrift \cup {s}
         ELSE Do(p, [u EXCEPT !.list = @ \ {r}]) /\ UNCHANGED <<assigned, adrift>>
    BY <1>2 DEF CloneChannel
<1>4. PICK d \in Deeds : d = [u EXCEPT !.list = @ \ {r}] /\ d.op = "clone"
    <2>1. u.list \ {r} \in SUBSET Assignment
        BY DEF Deeds
    <2>2. ASSUME NEW rest \in SUBSET Assignment, NEW v, v = [u EXCEPT !.list = rest]
          PROVE  v \in Deeds /\ v.op = u.op
        BY <2>2 DEF Deeds
    <2> QED BY <1>2, <2>1, <2>2
<1>5. GoodDeed(d) /\ GoodDeed(d)'
    BY <1>4 DEF GoodDeed
<1>6. CASE s \in DOMAIN stacks /\ r.channel \in channels /\ RowsOf(assigned[s], r.channel) = {}
    <2>1. /\ assigned' = [assigned EXCEPT ![s] = @ \cup {r}]
          /\ Precede(p, s, d) /\ adrift' = adrift \cup {s}
        BY <1>3, <1>4, <1>6
    <2>2. TablesOK'
        BY <1>1, <1>2, <1>6, <2>1 DEF StackInv, StackTypeOK, TablesOK
    <2>3. \A x \in Stacks \ {s} : assigned'[x] = assigned[x]
        BY <2>1 DEF StackInv, StackTypeOK
    <2> QED BY <1>1, <1>2, <1>5, <2>1, <2>2, <2>3, PrecedeKeeps
<1>7. CASE ~(s \in DOMAIN stacks /\ r.channel \in channels /\ RowsOf(assigned[s], r.channel) = {})
    <2>1. Do(p, d) /\ UNCHANGED <<assigned, adrift>>
        BY <1>3, <1>4, <1>7
    <2> QED BY <1>1, <1>5, <2>1, DoKeeps DEF StackInv, StackTypeOK
<1> QED BY <1>6, <1>7

LEMMA CloneDoneKeeps ==
    ASSUME StackInv, NEW p \in Operators, CloneDone(p)
    PROVE  StackInv'
<1>1. /\ deed[p].op = "clone" /\ Do(p, NoDeed)
      /\ UNCHANGED <<channels, lineup, providers, assigned, stacks, unborn, files, host, adrift>>
    BY DEF CloneDone, catalogue
<1> QED BY <1>1, NoDeedIsGood, DoKeeps DEF StackInv, StackTypeOK

LEMMA DeleteStackKeeps ==
    ASSUME StackInv, NEW p \in Operators, NEW s \in DOMAIN stacks, DeleteStack(p, s)
    PROVE  StackInv'
<1>1. s \in Stacks /\ stacks[s] \in Stack
    BY StackFacts DEF StackInv
<1>2. PICK d \in Deeds : d.op = "delete" /\ d.stack = s /\ Precede(p, s, d)
    <2>1. /\ Deed("delete", s, stacks[s], {}) \in Deeds
          /\ Deed("delete", s, stacks[s], {}).op = "delete"
          /\ Deed("delete", s, stacks[s], {}).stack = s
        BY <1>1 DEF Deed, Deeds, Stack
    <2> QED BY <2>1 DEF DeleteStack
<1>3. /\ assigned' = [assigned EXCEPT ![s] = {}]
      /\ UNCHANGED <<channels, lineup, providers, stacks, unborn, files, host, adrift>> /\ deed[p].op = "none"
    BY DEF DeleteStack, IsFree
<1>4. GoodDeed(d)'
    BY <1>2 DEF GoodDeed
<1>5. TablesOK'
    BY <1>3 DEF StackInv, StackTypeOK, TablesOK
<1>6. Streamed(s)'
    <2>1. deed'[p] = d
        BY <1>2 DEF Precede
    <2>2. ~Quiet(s)'
        BY <1>2, <2>1 DEF Quiet, At
    <2> QED BY <2>2 DEF Streamed
<1>7. \A x \in Stacks \ {s} : assigned'[x] = assigned[x]
    BY <1>3 DEF StackInv, StackTypeOK
<1> QED BY <1>1, <1>2, <1>3, <1>4, <1>5, <1>6, <1>7, PrecedeKeeps

LEMMA DeleteRowKeeps ==
    ASSUME StackInv, NEW p \in Operators, DeleteRow(p)
    PROVE  StackInv'
<1>1. PICK s \in Stacks : s = deed[p].stack
    BY DeedFacts DEF StackInv, DeleteRow
<1>2. /\ DOMAIN stacks' = DOMAIN stacks \ {s}
      /\ \A x \in DOMAIN stacks \ {s} : stacks'[x] = stacks[x]
    BY <1>1 DEF DeleteRow, Drop
<1>3. /\ assigned' = [assigned EXCEPT ![s] = {}]
      /\ Precede(p, s, NoDeed) /\ UNCHANGED <<channels, lineup, providers, unborn, files, host, adrift>>
    BY <1>1 DEF DeleteRow
<1>4. TablesOK'
    BY <1>2, <1>3 DEF StackInv, StackTypeOK, TablesOK
<1>5. \A x \in Stacks \ {s} : assigned'[x] = assigned[x]
    BY <1>3 DEF StackInv, StackTypeOK
<1> QED BY <1>1, <1>2, <1>3, <1>4, <1>5, NoDeedIsGood, PrecedeKeeps

-----------------------------------------------------------------------------
(* The steps of a deployment. *)

LEMMA DeedMoves ==
    ASSUME NEW u \in Deeds, NEW op \in {"read", "listed", "resolved", "deploying", "written", "up", "failed"},
           NEW v, v = [u EXCEPT !.op = op]
    PROVE  /\ v \in Deeds /\ v.op = op /\ v.stack = u.stack /\ v.row = u.row
           /\ v.list = u.list /\ v.node = u.node /\ v.stale = u.stale
BY DEF Deeds

\* What the deed of a deployment says of it.
LEMMA DeployFacts ==
    ASSUME StackInv, NEW p \in Operators, deed[p].op # "none"
    PROVE  /\ deed[p] \in Deeds /\ GoodDeed(deed[p])
           /\ deed[p].stack \in Stacks /\ deed[p].row \in Stack /\ deed[p].node \in Nodes
BY DeedFacts DEF StackInv, DeploysAssigned

LEMMA DeployKeeps ==
    ASSUME StackInv, NEW p \in Operators, NEW s \in DOMAIN stacks, Deploy(p, s)
    PROVE  StackInv'
<1>1. s \in Stacks /\ stacks[s] \in Stack
    BY StackFacts DEF StackInv
<1>2. PICK d \in Deeds : d.op = "looked up" /\ Do(p, d)
    <2>1. /\ Deed("looked up", s, stacks[s], {}) \in Deeds
          /\ Deed("looked up", s, stacks[s], {}).op = "looked up"
        BY <1>1 DEF Deed, Deeds, Stack
    <2> QED BY <2>1 DEF Deploy
<1>3. GoodDeed(d)
    BY <1>2 DEF GoodDeed
<1>4. /\ deed[p].op = "none"
      /\ UNCHANGED <<channels, lineup, providers, assigned, stacks, unborn, files, host, adrift>>
    BY DEF Deploy, IsFree, catalogue
<1> QED BY <1>2, <1>3, <1>4, DoKeeps DEF StackInv, StackTypeOK

LEMMA ReadStackKeeps ==
    ASSUME StackInv, NEW p \in Operators, ReadStack(p)
    PROVE  StackInv'
<1>1. /\ deed[p].op = "looked up"
      /\ UNCHANGED <<channels, lineup, providers, assigned, stacks, unborn, files, host, adrift>>
    BY DEF ReadStack, catalogue
<1>2. PICK u \in Deeds, s \in Stacks : u = deed[p] /\ s = u.stack
    BY <1>1, DeployFacts
<1>3. CASE s \notin DOMAIN stacks
    <2>1. Do(p, NoDeed)
        BY <1>2, <1>3 DEF ReadStack
    <2> QED BY <1>1, <2>1, NoDeedIsGood, DoKeeps DEF StackInv, StackTypeOK
<1>4. CASE s \in DOMAIN stacks
    <2>1. PICK d : d = [u EXCEPT !.op = "read", !.row = stacks[s],
                                 !.stale = stacks[s].node # u.node]
        OBVIOUS
    <2>2. Do(p, d)
        BY <1>2, <1>4, <2>1 DEF ReadStack
    <2>3. d \in Deeds /\ d.op = "read" /\ (~d.stale => d.row.node = d.node)
        <3>1. PICK row \in Stack : row = stacks[s]
            BY <1>4, StackFacts DEF StackInv
        <3>2. PICK b \in BOOLEAN : b <=> stacks[s].node # u.node
            OBVIOUS
        <3>3. (stacks[s].node # u.node) = b
            BY <3>2
        <3>4. d = [u EXCEPT !.op = "read", !.row = row, !.stale = b]
            BY <2>1, <3>1, <3>3, Zenon
        <3>5. d \in Deeds /\ d.op = "read" /\ d.row = row /\ d.stale = b /\ d.node = u.node
            BY <3>4 DEF Deeds
        <3> QED BY <3>1, <3>2, <3>5
    <2>4. GoodDeed(d)
        BY <2>3 DEF GoodDeed
    <2> QED BY <1>1, <2>2, <2>3, <2>4, DoKeeps DEF StackInv, StackTypeOK
<1> QED BY <1>3, <1>4

LEMMA ListChannelsKeeps ==
    ASSUME StackInv, NEW p \in Operators, ListChannels(p)
    PROVE  StackInv'
<1>1. /\ deed[p].op = "read"
      /\ UNCHANGED <<channels, lineup, providers, assigned, stacks, unborn, files, host, adrift>>
    BY DEF ListChannels, catalogue
<1>2. PICK u \in Deeds, s \in Stacks : u = deed[p] /\ s = u.stack
    BY <1>1, DeployFacts
<1>3. PICK list \in SUBSET Assignment : list = assigned[s]
    BY DEF StackInv, StackTypeOK
<1>4. PICK d : d = [u EXCEPT !.op = "listed", !.list = list]
    OBVIOUS
<1>5. Do(p, d)
    BY <1>2, <1>3, <1>4 DEF ListChannels
<1>6. /\ d \in Deeds /\ d.op = "listed" /\ d.list = list /\ d.stack = u.stack
      /\ d.row = u.row /\ d.node = u.node /\ d.stale = u.stale
    BY <1>4 DEF Deeds
<1>7. GoodDeed(d)
    BY <1>1, <1>2, <1>3, <1>6, DeployFacts DEF GoodDeed
<1> QED BY <1>1, <1>5, <1>6, <1>7, DoKeeps DEF StackInv, StackTypeOK

LEMMA LookUpProvidersKeeps ==
    ASSUME StackInv, NEW p \in Operators, LookUpProviders(p)
    PROVE  StackInv'
<1>1. /\ deed[p].op = "listed"
      /\ UNCHANGED <<channels, lineup, providers, assigned, stacks, unborn, files, host, adrift>>
    BY DEF LookUpProviders, catalogue
<1>2. PICK u \in Deeds : u = deed[p] /\ GoodDeed(u) /\ u.list \in SUBSET Assignment
    BY <1>1, DeployFacts, DeedFacts DEF StackInv
<1>3. PICK list \in SUBSET Assignment :
         list = Playable(u.list) /\ list = Fit(u.list, channels, providers)
    BY <1>2, PlayableFits
<1>4. PICK d : d = [u EXCEPT !.op = "resolved", !.list = list]
    OBVIOUS
<1>5. Do(p, d)
    BY <1>2, <1>3, <1>4 DEF LookUpProviders
<1>6. /\ d \in Deeds /\ d.op = "resolved" /\ d.list = list /\ d.stack = u.stack
      /\ d.row = u.row /\ d.node = u.node /\ d.stale = u.stale
    BY <1>4 DEF Deeds
<1>7. GoodDeed(d)
    BY <1>1, <1>2, <1>3, <1>6 DEF GoodDeed
<1> QED BY <1>1, <1>5, <1>6, <1>7, DoKeeps DEF StackInv, StackTypeOK

LEMMA LookUpFailsKeeps ==
    ASSUME StackInv, NEW p \in Operators, LookUpFails(p)
    PROVE  StackInv'
<1>1. /\ deed[p].op = "listed"
      /\ UNCHANGED <<channels, lineup, providers, assigned, stacks, unborn, files, host, adrift>>
    BY DEF LookUpFails, catalogue
<1>2. PICK u \in Deeds : u = deed[p] /\ u.list \in SUBSET Assignment
    BY <1>1, DeployFacts, DeedFacts DEF StackInv
<1>3. PICK r \in u.list :
         Do(p, [u EXCEPT !.op = "resolved", !.list = Playable(@ \ {r}), !.stale = TRUE])
    BY <1>2 DEF LookUpFails
<1>4. PICK list \in SUBSET Assignment : list = Playable(u.list \ {r})
    BY <1>2, PlayableFits
<1>5. PICK d : d = [u EXCEPT !.op = "resolved", !.list = list, !.stale = TRUE]
    OBVIOUS
<1>6. d \in Deeds /\ d.op = "resolved" /\ d.stale
    BY <1>5 DEF Deeds
<1>7. Do(p, d)
    BY <1>3, <1>4, <1>5
<1>8. GoodDeed(d)
    BY <1>6 DEF GoodDeed
<1> QED BY <1>1, <1>6, <1>7, <1>8, DoKeeps DEF StackInv, StackTypeOK

\* Saving the row a deployment read.
LEMMA SaveStatusEffect ==
    ASSUME StackInv, NEW p \in Operators, deed[p].op # "none",
           NEW status \in {"deploying", "running", "error"}, NEW d, SaveStatus(p, status, d)
    PROVE  /\ DOMAIN stacks' = DOMAIN stacks \cup {deed[p].stack}
           /\ stacks'[deed[p].stack] \in Stack
           /\ stacks'[deed[p].stack].status = status
           /\ stacks'[deed[p].stack].node = deed[p].row.node
           /\ \A x \in DOMAIN stacks \ {deed[p].stack} : stacks'[x] = stacks[x]
           /\ Precede(p, deed[p].stack, d)
<1>1. PICK s \in Stacks, row \in Stack : s = deed[p].stack /\ row = deed[p].row
    BY DeployFacts
<1>2. PICK new : new = [row EXCEPT !.status = status]
    OBVIOUS
<1>3. new \in Stack /\ new.status = status /\ new.node = row.node
    BY <1>2 DEF Stack
<1>4. stacks' = Put(stacks, s, new) /\ Precede(p, s, d)
    BY <1>1, <1>2 DEF SaveStatus
<1>5. /\ DOMAIN stacks' = DOMAIN stacks \cup {s}
      /\ stacks'[s] = new
      /\ \A x \in DOMAIN stacks \ {s} : stacks'[x] = stacks[x]
    BY <1>4 DEF Put
<1> QED BY <1>1, <1>3, <1>4, <1>5

LEMMA SaveDeployingKeeps ==
    ASSUME StackInv, NEW p \in Operators, SaveDeploying(p)
    PROVE  StackInv'
<1>1. /\ deed[p].op = "resolved"
      /\ UNCHANGED <<channels, lineup, providers, assigned, unborn, files, host, adrift>>
    BY DEF SaveDeploying, catalogue
<1>2. PICK u \in Deeds, s \in Stacks : u = deed[p] /\ s = u.stack
    BY <1>1, DeployFacts
<1>3. PICK d : d = [u EXCEPT !.op = "deploying"]
    OBVIOUS
<1>4. /\ d \in Deeds /\ d.op = "deploying" /\ d.stack = u.stack /\ d.row = u.row
      /\ d.list = u.list /\ d.node = u.node /\ d.stale = u.stale
    BY <1>3, DeedMoves
<1>5. SaveStatus(p, "deploying", d)
    BY <1>2, <1>3 DEF SaveDeploying
<1>6. /\ DOMAIN stacks' = DOMAIN stacks \cup {s}
      /\ stacks'[s] \in Stack /\ stacks'[s].status = "deploying"
      /\ \A x \in DOMAIN stacks \ {s} : stacks'[x] = stacks[x]
      /\ Precede(p, s, d)
    BY <1>1, <1>2, <1>5, SaveStatusEffect
<1>7. GoodDeed(d)'
    BY <1>1, <1>2, <1>4, DeployFacts DEF GoodDeed
<1>8. TablesOK'
    BY <1>1, <1>6 DEF StackInv, StackTypeOK, TablesOK
<1>9. Streamed(s)'
    BY <1>6 DEF Streamed
<1> QED BY <1>1, <1>2, <1>4, <1>6, <1>7, <1>8, <1>9, PrecedeKeeps

LEMMA WriteFileKeeps ==
    ASSUME StackInv, NEW p \in Operators, WriteFile(p)
    PROVE  StackInv'
<1>1. /\ deed[p].op = "deploying"
      /\ UNCHANGED <<channels, lineup, providers, assigned, stacks, unborn, host, adrift>>
    BY DEF WriteFile, catalogue
<1>2. PICK u \in Deeds, s \in Stacks, n \in Nodes : u = deed[p] /\ s = u.stack /\ n = u.node
    BY <1>1, DeployFacts
<1>3. PICK d : d = [u EXCEPT !.op = "written"]
    OBVIOUS
<1>4. /\ d \in Deeds /\ d.op = "written" /\ d.stack = u.stack /\ d.row = u.row
      /\ d.list = u.list /\ d.node = u.node /\ d.stale = u.stale
    BY <1>3, DeedMoves
<1>5. /\ files' = [files EXCEPT ![n] = Put(@, s, u.list)]
      /\ Precede(p, s, d)
    BY <1>2, <1>3 DEF WriteFile
<1>6. /\ DOMAIN files' = Nodes
      /\ \A m \in Nodes \ {n} : files'[m] = files[m]
      /\ DOMAIN files'[n] = DOMAIN files[n] \cup {s}
      /\ files'[n][s] = u.list
      /\ \A x \in DOMAIN files[n] \ {s} : files'[n][x] = files[n][x]
    BY <1>5 DEF StackInv, StackTypeOK, Put
<1>7. GoodDeed(d)'
    BY <1>1, <1>2, <1>4, <1>6, DeployFacts DEF GoodDeed
<1>8. TablesOK'
    BY <1>1, <1>2, <1>5, <1>6 DEF StackInv, StackTypeOK, TablesOK
<1>9. ASSUME s \in DOMAIN stacks' \ adrift' PROVE Streamed(s)'
    <2>1. Quiet(s)' => Quiet(s)
        BY <1>1, <1>2, <1>4, <1>5, PrecedeEffect DEF StackInv, Quiet, At
    <2>2. Streamed(s)
        BY <1>1, <1>9 DEF StackInv, AllStreamed
    <2> QED BY <1>1, <2>1, <2>2 DEF Streamed
<1> QED BY <1>1, <1>2, <1>4, <1>5, <1>6, <1>7, <1>8, <1>9, PrecedeKeeps

LEMMA ComposeUpKeeps ==
    ASSUME StackInv, NEW p \in Operators, ComposeUp(p)
    PROVE  StackInv'
<1>1. /\ deed[p].op = "written"
      /\ UNCHANGED <<channels, lineup, providers, assigned, stacks, unborn, files>>
    BY DEF ComposeUp, catalogue
<1>2. PICK u \in Deeds, s \in Stacks, n \in Nodes : u = deed[p] /\ s = u.stack /\ n = u.node
    BY <1>1, DeployFacts
<1>3. PICK d : d = [u EXCEPT !.op = "up"]
    OBVIOUS
<1>4. /\ d \in Deeds /\ d.op = "up" /\ d.stack = u.stack /\ d.row = u.row
      /\ d.list = u.list /\ d.node = u.node /\ d.stale = u.stale
    BY <1>3, DeedMoves
<1>5. /\ host' = [host EXCEPT ![n] = Put(@, s, files[n][s])]
      /\ Precede(p, s, d)
      /\ adrift' = adrift \cup IF u.stale THEN {s} ELSE {}
      /\ ~u.stale => files[n][s] = u.list
    BY <1>1, <1>2, <1>3, DeployFacts DEF ComposeUp, Run, Unsure, GoodDeed
<1>6. /\ DOMAIN host' = Nodes
      /\ \A m \in Nodes \ {n} : host'[m] = host[m]
      /\ DOMAIN host'[n] = DOMAIN host[n] \cup {s}
      /\ host'[n][s] = files[n][s]
      /\ \A x \in DOMAIN host[n] \ {s} : host'[n][x] = host[n][x]
    BY <1>5 DEF StackInv, StackTypeOK, Put
<1>7. GoodDeed(d)'
    BY <1>1, <1>2, <1>4, <1>5, <1>6, DeployFacts DEF GoodDeed
<1>8. TablesOK'
    BY <1>1, <1>2, <1>5, <1>6 DEF StackInv, StackTypeOK, TablesOK
<1>9. ASSUME s \in DOMAIN stacks' \ adrift' PROVE Streamed(s)'
    <2>1. ~u.stale /\ s \in DOMAIN stacks \ adrift
        BY <1>1, <1>5, <1>9
    <2>2. u.list = Fit(assigned[s], channels, providers)
        BY <1>1, <1>2, <2>1, DeployFacts DEF GoodDeed
    <2>3. Quiet(s)' => Quiet(s)
        BY <1>1, <1>2, <1>4, <1>5, PrecedeEffect DEF StackInv, Quiet, At
    <2>4. Streamed(s) /\ stacks[s].node \in Nodes
        BY <2>1, StackFacts DEF StackInv, AllStreamed
    <2>5. CASE stacks[s].node = n
        BY <1>1, <1>5, <1>6, <2>1, <2>2, <2>5 DEF Streamed
    <2>6. CASE stacks[s].node # n
        BY <1>1, <1>6, <2>3, <2>4, <2>6 DEF Streamed
    <2> QED BY <2>5, <2>6
<1>10. \A x \in Stacks \ {s} :
          /\ \A m \in Nodes : /\ x \in DOMAIN host'[m] <=> x \in DOMAIN host[m]
                              /\ x \in DOMAIN host[m] => host'[m][x] = host[m][x]
          /\ x \in adrift' <=> x \in adrift
    BY <1>5, <1>6
<1> QED BY <1>1, <1>2, <1>4, <1>5, <1>7, <1>8, <1>9, <1>10, PrecedeKeeps

LEMMA ComposeFailsKeeps ==
    ASSUME StackInv, NEW p \in Operators, ComposeFails(p)
    PROVE  StackInv'
<1>1. /\ deed[p].op \in {"deploying", "written", "up"}
      /\ UNCHANGED <<channels, lineup, providers, assigned, stacks, unborn, files, host, adrift>>
    BY DEF ComposeFails, catalogue
<1>2. PICK u \in Deeds : u = deed[p]
    BY <1>1, DeployFacts
<1>3. PICK d : d = [u EXCEPT !.op = "failed"]
    OBVIOUS
<1>4. d \in Deeds /\ d.op = "failed" /\ Do(p, d)
    BY <1>2, <1>3, DeedMoves DEF ComposeFails
<1>5. GoodDeed(d)
    BY <1>4 DEF GoodDeed
<1> QED BY <1>1, <1>4, <1>5, DoKeeps DEF StackInv, StackTypeOK

LEMMA UpFailsKeeps ==
    ASSUME StackInv, NEW p \in Operators, UpFails(p)
    PROVE  StackInv'
<1>1. /\ deed[p].op = "written"
      /\ UNCHANGED <<channels, lineup, providers, assigned, stacks, unborn, files>>
    BY DEF UpFails, catalogue
<1>2. PICK u \in Deeds, s \in Stacks, n \in Nodes : u = deed[p] /\ s = u.stack /\ n = u.node
    BY <1>1, DeployFacts
<1>3. PICK d : d = [u EXCEPT !.op = "failed"]
    OBVIOUS
<1>4. d \in Deeds /\ d.op = "failed" /\ d.stack = u.stack
    BY <1>3, DeedMoves
<1>5. PICK R : host' = [host EXCEPT ![n] = Put(@, s, R)]
    BY <1>2 DEF UpFails, Run
<1>6. Precede(p, s, d) /\ adrift' = adrift \cup {s}
    BY <1>2, <1>3 DEF UpFails
<1>7. /\ DOMAIN host' = Nodes
      /\ \A m \in Nodes \ {n} : host'[m] = host[m]
      /\ DOMAIN host'[n] = DOMAIN host[n] \cup {s}
      /\ \A x \in DOMAIN host[n] \ {s} : host'[n][x] = host[n][x]
    BY <1>5 DEF StackInv, StackTypeOK, Put
<1>8. GoodDeed(d)'
    BY <1>4 DEF GoodDeed
<1>9. TablesOK'
    BY <1>1, <1>6, <1>7 DEF StackInv, StackTypeOK, TablesOK
<1> QED BY <1>1, <1>2, <1>4, <1>6, <1>7, <1>8, <1>9, PrecedeKeeps

LEMMA SaveRunningKeeps ==
    ASSUME StackInv, NEW p \in Operators, SaveRunning(p)
    PROVE  StackInv'
<1>1. deed[p].op = "up" /\ UNCHANGED <<channels, lineup, providers, assigned, unborn, files, host>>
    BY DEF SaveRunning, catalogue
<1>2. PICK u \in Deeds, s \in Stacks : u = deed[p] /\ s = u.stack
    BY <1>1, DeployFacts
<1>3. /\ DOMAIN stacks' = DOMAIN stacks \cup {s}
      /\ stacks'[s] \in Stack /\ stacks'[s].node = u.row.node
      /\ \A x \in DOMAIN stacks \ {s} : stacks'[x] = stacks[x]
      /\ Precede(p, s, NoDeed)
    BY <1>1, <1>2, SaveStatusEffect DEF SaveRunning
<1>4. adrift' = (adrift \ {s}) \cup IF u.stale THEN {s} ELSE {}
    BY <1>2 DEF SaveRunning, Unsure
<1>5. TablesOK'
    BY <1>1, <1>3, <1>4 DEF StackInv, StackTypeOK, TablesOK
<1>6. ASSUME s \in DOMAIN stacks' \ adrift' PROVE Streamed(s)'
    <2>1. ~u.stale
        BY <1>4, <1>6
    <2>2. /\ u.row.node = u.node /\ u.list = Fit(assigned[s], channels, providers)
          /\ s \in DOMAIN host[u.node] /\ host[u.node][s] = u.list
        BY <1>1, <1>2, <2>1, DeployFacts DEF GoodDeed
    <2> QED BY <1>1, <1>3, <2>2 DEF Streamed
<1> QED BY <1>1, <1>2, <1>3, <1>4, <1>5, <1>6, NoDeedIsGood, PrecedeKeeps

LEMMA SaveErrorKeeps ==
    ASSUME StackInv, NEW p \in Operators, SaveError(p)
    PROVE  StackInv'
<1>1. deed[p].op = "failed" /\ UNCHANGED <<channels, lineup, providers, assigned, unborn, files, host, adrift>>
    BY DEF SaveError, catalogue
<1>2. PICK s \in Stacks : s = deed[p].stack
    BY <1>1, DeployFacts
<1>3. /\ DOMAIN stacks' = DOMAIN stacks \cup {s}
      /\ stacks'[s] \in Stack /\ stacks'[s].status = "error"
      /\ \A x \in DOMAIN stacks \ {s} : stacks'[x] = stacks[x]
      /\ Precede(p, s, NoDeed)
    BY <1>1, <1>2, SaveStatusEffect DEF SaveError
<1>4. TablesOK'
    BY <1>1, <1>3 DEF StackInv, StackTypeOK, TablesOK
<1>5. Streamed(s)'
    BY <1>3 DEF Streamed
<1> QED BY <1>1, <1>2, <1>3, <1>4, <1>5, NoDeedIsGood, PrecedeKeeps

LEMMA SaveFailsKeeps ==
    ASSUME StackInv, NEW p \in Operators, SaveFails(p)
    PROVE  StackInv'
<1>1. /\ deed[p].op \in {"resolved", "up", "failed"}
      /\ UNCHANGED <<channels, lineup, providers, assigned, stacks, unborn, files, host, adrift>>
    BY DEF SaveFails, catalogue
<1>2. CASE Do(p, NoDeed)
    BY <1>1, <1>2, NoDeedIsGood, DoKeeps DEF StackInv, StackTypeOK
<1>3. CASE deed[p].op = "resolved" /\ Do(p, [deed[p] EXCEPT !.op = "deploying"])
    <2>1. PICK u \in Deeds : u = deed[p] /\ GoodDeed(u)
        BY <1>1, DeployFacts
    <2>2. PICK d : d = [u EXCEPT !.op = "deploying"]
        OBVIOUS
    <2>3. /\ d \in Deeds /\ d.op = "deploying" /\ d.stack = u.stack /\ d.row = u.row
          /\ d.list = u.list /\ d.node = u.node /\ d.stale = u.stale
        BY <2>2, DeedMoves
    <2>4. Do(p, d)
        BY <1>3, <2>1, <2>2
    <2>5. GoodDeed(d)
        BY <1>3, <2>1, <2>3 DEF GoodDeed
    <2> QED BY <1>1, <2>3, <2>4, <2>5, DoKeeps DEF StackInv, StackTypeOK
<1> QED BY <1>2, <1>3 DEF SaveFails

LEMMA OperatorGivesUpKeeps ==
    ASSUME StackInv, NEW p \in Operators, OperatorGivesUp(p)
    PROVE  StackInv'
<1>1. /\ deed[p].op # "none" /\ Do(p, NoDeed)
      /\ UNCHANGED <<channels, lineup, providers, assigned, stacks, unborn, files, host>>
    BY DEF OperatorGivesUp, catalogue, IsFree
<1>2. /\ adrift \subseteq adrift' /\ adrift' \subseteq Stacks
      /\ deed[p].op \in {"changed", "mark", "delete"} => deed[p].stack \in adrift'
    BY <1>1, DeployFacts DEF OperatorGivesUp, StackInv, StackTypeOK
<1> QED BY <1>1, <1>2, NoDeedIsGood, DoKeeps DEF StackInv, StackTypeOK

-----------------------------------------------------------------------------
(* Changes of the catalogue. *)

\* A change that leaves the stacks outside S what they stream.
LEMMA UnmarkedKeeps ==
    ASSUME StackInv, NEW with \in SUBSET Stacks, Unmarked(with), TablesOK',
           \A s \in Stacks \ with :
              /\ assigned'[s] = assigned[s]
              /\ Fit(assigned'[s], channels', providers') = Fit(assigned[s], channels, providers)
    PROVE  StackInv'
<1>1. /\ adrift' = adrift \cup with
      /\ deed' = [p \in Operators |->
                     IF \E s \in with : At(p, s) THEN [deed[p] EXCEPT !.stale = TRUE]
                     ELSE deed[p]]
      /\ UNCHANGED <<stacks, unborn, files, host>>
    BY DEF Unmarked
<1>2. ASSUME NEW q \in Operators
      PROVE  /\ deed'[q] \in {NoDeed} \cup Deeds
             /\ GoodDeed(deed[q])'
             /\ deed'[q].op = deed[q].op
             /\ deed[q].op # "none" => deed'[q].stack = deed[q].stack
    <2>1. CASE \E s \in with : At(q, s)
        <3>1. PICK u \in Deeds : u = deed[q] /\ GoodDeed(u)
            BY <2>1, DeployFacts DEF At
        <3>2. PICK v : v = [u EXCEPT !.stale = TRUE]
            OBVIOUS
        <3>3. v \in Deeds /\ v.op = u.op /\ v.stack = u.stack /\ v.row = u.row /\ v.stale
            BY <3>2 DEF Deeds
        <3>4. deed'[q] = v
            BY <1>1, <2>1, <3>1, <3>2
        <3>5. GoodDeed(deed[q])'
            BY <3>1, <3>3, <3>4 DEF GoodDeed
        <3> QED BY <3>1, <3>3, <3>4, <3>5
    <2>2. CASE ~\E s \in with : At(q, s)
        <3>1. deed'[q] = deed[q]
            BY <1>1, <2>2
        <3>2. deed[q] \in {NoDeed} \cup Deeds /\ GoodDeed(deed[q])
            BY DEF StackInv, StackTypeOK, DeploysAssigned
        <3>3. deed[q].op # "none" => deed[q].stack \in Stacks \ with
            BY <2>2, DeployFacts DEF At
        <3>4. GoodDeed(deed[q])'
            BY <1>1, <3>1, <3>2, <3>3 DEF GoodDeed
        <3> QED BY <3>1, <3>2, <3>4
    <2> QED BY <2>1, <2>2
<1>3. StackTypeOK'
    <2>1. deed' = [q \in Operators |-> deed'[q]]
        BY <1>1
    <2>2. deed' \in [Operators -> {NoDeed} \cup Deeds]
        BY <1>2, <2>1
    <2> QED BY <2>2 DEF TablesOK, StackTypeOK
<1>4. DeploysAssigned'
    BY <1>2 DEF DeploysAssigned
<1>5. AllStreamed'
    <2>1. ASSUME NEW s \in DOMAIN stacks' \ adrift', Quiet(s)'
          PROVE  s \in DOMAIN stacks \ adrift /\ s \in Stacks \ with /\ Quiet(s)
        <3>1. s \in DOMAIN stacks \ adrift /\ s \in Stacks \ with
            BY <1>1, <2>1 DEF StackInv, StackTypeOK
        <3>2. Quiet(s)
            BY <1>2, <2>1 DEF Quiet, At
        <3> QED BY <3>1, <3>2
    <2> QED BY <1>1, <2>1 DEF StackInv, AllStreamed, Streamed
<1> QED BY <1>3, <1>4, <1>5 DEF StackInv

LEMMA DropChannelKeeps ==
    ASSUME StackInv, NEW c \in Channels, DropChannel(c)
    PROVE  StackInv'
<1>1. /\ channels' = channels \ {c}
      /\ lineup' = [k \in Packages |-> lineup[k] \ {c}]
      /\ providers' = [v \in {w \in DOMAIN providers : providers[w].channel # c} |-> providers[v]]
      /\ assigned' = [s \in Stacks |-> assigned[s] \ RowsOf(assigned[s], c)]
    BY DEF DropChannel, DeleteChannel
<1>2. PICK with \in SUBSET Stacks :
         /\ with = {s \in Stacks : RowsOf(assigned[s], c) # {}}
                      \cup From({v \in DOMAIN providers : providers[v].channel = c})
         /\ Unmarked(with)
    BY DEF DropChannel, From
<1>3. TablesOK'
    BY <1>1, <1>2 DEF Unmarked, StackInv, StackTypeOK, TablesOK
<1>4. ASSUME NEW s \in Stacks \ with
      PROVE  /\ assigned'[s] = assigned[s]
             /\ Fit(assigned'[s], channels', providers') = Fit(assigned[s], channels, providers)
    <2>1. \A r \in assigned[s] : r.channel # c
        BY <1>2 DEF RowsOf
    <2>2. \A r \in assigned[s] : r.provider \in DOMAIN providers => providers[r.provider].channel # c
        BY <1>2 DEF From
    <2>3. assigned'[s] = assigned[s]
        BY <1>1, <2>1 DEF RowsOf
    <2>4. \A r \in assigned[s] : /\ r.channel \in channels' <=> r.channel \in channels
                                 /\ r.provider \in DOMAIN providers' <=> r.provider \in DOMAIN providers
                                 /\ r.provider \in DOMAIN providers =>
                                       providers'[r.provider] = providers[r.provider]
        BY <1>1, <2>1, <2>2
    <2> QED BY <2>3, <2>4 DEF Fit
<1> QED BY <1>2, <1>3, <1>4, UnmarkedKeeps

\* A provider that is saved or deleted changes what its own stacks stream.
LEMMA ProviderKeeps ==
    ASSUME StackInv, NEW v \in Providers, Unmarked(From({v})),
           UNCHANGED <<channels, lineup, assigned>>, TablesOK',
           \A w \in Providers \ {v} : /\ w \in DOMAIN providers' <=> w \in DOMAIN providers
                                      /\ w \in DOMAIN providers => providers'[w] = providers[w]
    PROVE  StackInv'
<1>1. PICK with \in SUBSET Stacks : with = From({v})
    BY DEF From
<1>2. ASSUME NEW s \in Stacks \ with
      PROVE  Fit(assigned'[s], channels', providers') = Fit(assigned[s], channels, providers)
    <2>1. \A r \in assigned[s] : r.provider # v
        BY <1>1 DEF From
    <2>2. \A r \in assigned[s] : r.provider \in DOMAIN providers \/ r.provider \in DOMAIN providers' =>
                                     r.provider \in Providers
        BY DEF StackInv, StackTypeOK, TablesOK
    <2> QED BY <2>1, <2>2 DEF Fit
<1> QED BY <1>1, <1>2, UnmarkedKeeps

LEMMA SaveProviderKeeps ==
    ASSUME StackInv, NEW v \in Providers, NEW c \in Channels, SaveProvider(v, c)
    PROVE  StackInv'
<1>1. PICK row \in Provider : providers' = Put(providers, v, row)
    BY DEF SaveProvider, Provider
<1>2. Unmarked(From({v})) /\ UNCHANGED <<channels, lineup, assigned>>
    BY DEF SaveProvider
<1>3. /\ DOMAIN providers' = DOMAIN providers \cup {v} /\ providers'[v] = row
      /\ \A w \in DOMAIN providers \ {v} : providers'[w] = providers[w]
    BY <1>1 DEF Put
<1>4. TablesOK'
    BY <1>2, <1>3 DEF Unmarked, From, StackInv, StackTypeOK, TablesOK
<1> QED BY <1>2, <1>3, <1>4, ProviderKeeps

LEMMA DeleteProviderKeeps ==
    ASSUME StackInv, NEW v \in Providers, DeleteProvider(v)
    PROVE  StackInv'
<1>1. Unmarked(From({v})) /\ UNCHANGED <<channels, lineup, assigned>>
    BY DEF DeleteProvider
<1>2. /\ DOMAIN providers' = DOMAIN providers \ {v}
      /\ \A w \in DOMAIN providers \ {v} : providers'[w] = providers[w]
    BY DEF DeleteProvider, Drop
<1>3. TablesOK'
    BY <1>1, <1>2 DEF Unmarked, From, StackInv, StackTypeOK, TablesOK
<1> QED BY <1>1, <1>2, <1>3, ProviderKeeps

LEMMA CatalogueKeeps ==
    ASSUME StackInv, NEW k \in Packages, NEW c \in Channels, UNCHANGED stackVars,
           AddChannelToPackage(k, c) \/ RemoveChannelFromPackage(k, c)
    PROVE  StackInv'
<1>1. /\ UNCHANGED <<channels, providers, assigned, stacks, unborn, files, host, deed, adrift>>
      /\ lineup' \in [Packages -> SUBSET Channels]
    BY DEF AddChannelToPackage, RemoveChannelFromPackage, StackInv, StackTypeOK, stackVars
<1> QED BY <1>1 DEF StackInv, StackTypeOK, DeploysAssigned, GoodDeed, AllStreamed, Streamed,
                    Quiet, At

LEMMA StacksStay ==
    ASSUME StackInv, UNCHANGED <<catalogue, stackVars>>
    PROVE  StackInv'
BY DEF StackInv, StackTypeOK, DeploysAssigned, GoodDeed, AllStreamed, Streamed, Quiet, At,
       catalogue, stackVars

LEMMA StackInitInv == CatalogueInit /\ StackInit => StackInv
<1> SUFFICES ASSUME CatalogueInit, StackInit PROVE StackInv
    OBVIOUS
<1>1. PICK s \in Stacks, n \in Nodes :
         stacks = [x \in {s} |-> Pending(n)] /\ unborn = Stacks \ {s}
    BY DEF StackInit
<1>2. /\ files = [m \in Nodes |-> [x \in {} |-> {}]] /\ host = files
      /\ deed = [p \in Operators |-> NoDeed] /\ adrift = {}
    BY DEF StackInit
<1>3. /\ DOMAIN stacks = {s} /\ stacks[s] \in Stack /\ stacks[s].status = "pending"
    BY <1>1, PendingIsStack
<1>4. StackTypeOK
    BY <1>1, <1>2, <1>3 DEF CatalogueInit, StackTypeOK
<1>5. DeploysAssigned
    BY <1>2, NoDeedIsGood DEF DeploysAssigned
<1>6. AllStreamed
    BY <1>3 DEF AllStreamed, Streamed
<1> QED BY <1>4, <1>5, <1>6 DEF StackInv

LEMMA OperatorStepKeeps ==
    ASSUME StackInv, NEW p \in Operators, OperatorStep(p)
    PROVE  StackInv'
<1>1. ASSUME NEW s \in DOMAIN stacks, Change(p, s) PROVE StackInv'
    <2>1. CASE AddChannelToStack(p, s)
        <3>1. PICK r \in Assignment : ChangeChannels(p, s, assigned[s] \cup {r})
            BY <2>1 DEF AddChannelToStack
        <3>2. assigned[s] \cup {r} \in SUBSET Assignment
            BY StackFacts DEF StackInv
        <3> QED BY <3>1, <3>2, ChangeChannelsKeeps
    <2>2. CASE RemoveChannelFromStack(p, s)
        <3>1. PICK r \in assigned[s] : ChangeChannels(p, s, assigned[s] \ {r})
            BY <2>2 DEF RemoveChannelFromStack
        <3>2. assigned[s] \ {r} \in SUBSET Assignment
            BY StackFacts DEF StackInv
        <3> QED BY <3>1, <3>2, ChangeChannelsKeeps
    <2> QED BY <1>1, <2>1, <2>2, DeleteStackKeeps, UpdateStackKeeps, CloneStackKeeps, DeployKeeps
            DEF Change
<1>2. CASE DeployStep(p)
    BY <1>2, ReadStackKeeps, ListChannelsKeeps, LookUpProvidersKeeps, LookUpFailsKeeps,
       SaveDeployingKeeps, WriteFileKeeps, ComposeUpKeeps, ComposeFailsKeeps, UpFailsKeeps,
       SaveRunningKeeps, SaveErrorKeeps, SaveFailsKeeps DEF DeployStep
<1> QED BY <1>1, <1>2, ReadToMarkKeeps, SaveMarkKeeps, CloneChannelKeeps, CloneDoneKeeps,
           DeleteRowKeeps, OperatorGivesUpKeeps DEF OperatorStep

LEMMA SubscriptionsLeaveCatalogue == SubscriptionNext => UNCHANGED catalogue
<1>1. ASSUME NEW p \in Clerks, ClerkStep(p) PROVE UNCHANGED catalogue
    BY <1>1 DEF ClerkStep, CreateSubscription, FindSubscription, ReissueKey, SaveSubscription,
                RevokeKey, IssueKey, ClerkGivesUp
<1>2. ASSUME NEW b \in Boxes, BoxStep(b) PROVE UNCHANGED catalogue
    BY <1>2 DEF BoxStep, BoxAsks, FindByToken, FindSubOfKey, FindByPackage, ConfigByMac,
                ConfigKey, bridgeUnchanged
<1> QED BY <1>1, <1>2 DEF SubscriptionNext

\* The invariant of the stacks (IptvStack: iptv_stack.go).
THEOREM StackInvariant == Spec => []StackInv
<1>1. Init => StackInv
    BY StackInitInv DEF Init
<1>2. StackInv /\ [Next]_vars => StackInv'
  <2> SUFFICES ASSUME StackInv, [Next]_vars PROVE StackInv'
      OBVIOUS
  <2>1. CASE UNCHANGED vars
      BY <2>1, StacksStay DEF vars
  <2>2. CASE SubscriptionNext /\ UNCHANGED stackVars
      BY <2>2, SubscriptionsLeaveCatalogue, StacksStay
  <2>3. CASE StackNext
      BY <2>3, CreateStackKeeps, DropChannelKeeps, SaveProviderKeeps, DeleteProviderKeeps,
         OperatorStepKeeps DEF StackNext
  <2>4. ASSUME NEW k \in Packages, NEW c \in Channels, UNCHANGED stackVars,
               AddChannelToPackage(k, c) \/ RemoveChannelFromPackage(k, c)
        PROVE  StackInv'
      BY <2>4, CatalogueKeeps
  <2> QED BY <2>1, <2>2, <2>3, <2>4 DEF Next
<1> QED BY <1>1, <1>2, PTL DEF Spec

\* A stack shown as running streams those of the channels assigned to it that have a
\* known internal provider, and no others, for any tables and any requests, unless a
\* deployment overtook a change, a mark was lost, a lookup or `up` failed unseen, or
\* a channel or provider itself was changed or deleted (iptv_stack.go:305, 369).
THEOREM RunningStreams == Spec => []RunningIsAssigned
<1>1. StackInv => RunningIsAssigned
    BY PlayableFits DEF StackInv, AllStreamed, Streamed, Quiet, RunningIsAssigned
<1> QED BY <1>1, StackInvariant, PTL

\* Every table, node and request of the television part has the type declared for it.
THEOREM TypeCorrect == Spec => []TypeOK
<1>1. SubscriptionInv /\ StackInv => TypeOK
    BY DEF SubscriptionInv, StackInv, TypeOK
<1> QED BY <1>1, SubscriptionInvariant, StackInvariant, PTL

\* A set-top box whose subscription was cancelled before it asked is let in by
\* none of the bridge's answers, whatever requests cross (stb_bridge.go, resolveKey).
THEOREM CancelledLetsNobodyIn == Spec => []CancelledIsOff
<1>1. SubscriptionInv => CancelledIsOff
    BY DEF SubscriptionInv, BarredBoxes, CancelledIsOff
<1> QED BY <1>1, SubscriptionInvariant, PTL

\* Every subscription whose keys nobody is at has exactly one that is valid
\* (subscription.go, subscription_key.go).
THEOREM OneKeyEach == Spec => []OneKey
<1>1. SubscriptionInv => OneKey
    <2> SUFFICES ASSUME SubscriptionInv, NEW s \in DOMAIN subs \ broken,
                        \A p \in Clerks : ~On(p, "issue", s)
                 PROVE  Cardinality(ActiveKeys(s)) = 1
        BY DEF OneKey
    <2>1. PICK k \in Keys : ActiveKeys(s) = {k}
        BY DEF SubscriptionInv, OneKeyLeft
    <2> QED BY <2>1, FS_Singleton
<1> QED BY <1>1, SubscriptionInvariant, PTL

-----------------------------------------------------------------------------
(* CustomerAccess: what each goroutine is in the middle of *)

\* The first thing a goroutine does decides what it knows.
LEMMA TaskShapes ==
    ASSUME AccessTypeOK, NEW p \in Procs
    PROVE  /\ task[p] \in Tasks
           /\ task[p].do = "save" => task[p] \in Saving
           /\ task[p].do \in {"allocate", "resave"} => task[p] \in Creating
           /\ task[p].do = "publish" => task[p] \in Publishing
           /\ task[p].do = "delete" => task[p] \in Deleting
           /\ task[p].do = "sync" /\ task[p].at \in {"lookup", "claim"} => task[p] \in Resolving
           /\ task[p].do = "sync" /\ task[p].at \in {"find", "router"} => task[p] \in Calling
           /\ task[p].do = "sync" /\ task[p].at = "store" => task[p] \in Storing
           /\ task[p].do = "sync" => task[p] \in Resolving \cup Calling \cup Storing
           /\ task[p] # Resting => task[p].who \in Customers /\ task[p].do # "idle"
           /\ task[p] = Resting => task[p].do = "idle"
<1>1. task[p] \in Tasks
      BY DEF AccessTypeOK
<1>2. CASE task[p] = Resting
      BY <1>1, <1>2 DEF Resting
<1>3. CASE task[p] \in Saving \cup Creating \cup Publishing \cup Deleting
      BY <1>1, <1>3 DEF Saving, Creating, Publishing, Deleting, Resting
<1>4. CASE task[p] \in Resolving \cup Calling \cup Storing
      BY <1>1, <1>4 DEF Resolving, Calling, Storing, Resting
<1>. QED BY <1>1, <1>2, <1>3, <1>4 DEF Tasks

\* A row, or none.
LEMMA RowShapes ==
    ASSUME AccessTypeOK, NEW c \in Customers
    PROVE  /\ rows[c] \in Rows \cup {NoRow}
           /\ rows[c].status \in Statuses \cup {""}
           /\ rows[c].router \in Routers \cup {None}
           /\ rows[c].ip \in IPs \cup {None}
           /\ rows[c].mac \in BOOLEAN
           /\ Exists(c) <=> rows[c] \in Rows
           /\ rows[c].router # None => Exists(c)
<1>1. rows[c] \in Rows \cup {NoRow}
      BY DEF AccessTypeOK
<1>2. NoRow \notin Rows /\ NoRow.router = None /\ NoRow.status = "" /\ NoRow.ip = None /\ NoRow.mac = FALSE
      BY DEF NoRow, Rows, Statuses
<1>3. ASSUME rows[c] \in Rows
      PROVE  /\ rows[c].status \in Statuses /\ rows[c].router \in Routers \cup {None}
             /\ rows[c].ip \in IPs \cup {None} /\ rows[c].mac \in BOOLEAN
      BY <1>3 DEF Rows
<1>. QED BY <1>1, <1>2, <1>3 DEF Exists

\* p goes on with t, and nobody else does anything.
Goes(p, t) == task' = [task EXCEPT ![p] = t]

\* A step of one goroutine leaves the tasks of the others as they are.
LEMMA GoesKeepsType ==
    ASSUME AccessTypeOK, NEW p \in Procs, NEW t \in Tasks, Goes(p, t)
    PROVE  /\ task' \in [Procs -> Tasks]
           /\ task'[p] = t
           /\ \A q \in Procs : q # p => task'[q] = task[q]
BY DEF AccessTypeOK, Goes

\* How a sync begins.
LEMMA SyncBegins ==
    ASSUME AccessTypeOK, NEW p \in Procs, NEW c \in Customers, NEW act \in Acts,
           SyncStart(p, c, act)
    PROVE  \/ /\ Goes(p, Resting)
              /\ rows[c].router = None \/ rows[c].ip = None
              /\ UNCHANGED muddled
           \/ \E t \in Calling :
                 /\ Goes(p, t)
                 /\ t.at = "router" /\ t.who = c /\ t.act = act
                 /\ t.router = rows[c].router /\ t.ip = rows[c].ip /\ t.mac = rows[c].mac
                 /\ UNCHANGED muddled
           \/ \E t \in Resolving :
                 /\ Goes(p, t)
                 /\ t.at = "lookup" /\ t.who = c /\ t.act = act /\ t.router = rows[c].router
                 /\ muddled' = IF Asking(c) # {} THEN muddled \cup {c} ELSE muddled
<1>1. PICK r \in Rows \cup {NoRow} : r = rows[c]
      BY DEF AccessTypeOK
<1>2. /\ r.router \in Routers \cup {None} /\ r.ip \in IPs \cup {None} /\ r.mac \in BOOLEAN
      BY <1>1, RowShapes
<1>3. CASE r.router = None \/ (r.ip = None /\ ~ipam)
      BY <1>1, <1>3 DEF SyncStart, Goes
<1>4. CASE ~(r.router = None \/ (r.ip = None /\ ~ipam)) /\ r.ip # None
  <2>. DEFINE t == [do |-> "sync", at |-> "router", who |-> c, act |-> act,
                    router |-> r.router, ip |-> r.ip, mac |-> r.mac, row |-> NoRow]
  <2>1. t \in Calling
        BY <1>2, <1>4 DEF Calling
  <2>2. Goes(p, t) /\ UNCHANGED muddled
        BY <1>1, <1>4 DEF SyncStart, Goes
  <2>. QED BY <1>1, <2>1, <2>2
<1>5. CASE ~(r.router = None \/ (r.ip = None /\ ~ipam)) /\ r.ip = None
  <2>. DEFINE t == [do |-> "sync", at |-> "lookup", who |-> c, act |-> act,
                    router |-> r.router, ip |-> r.ip, mac |-> r.mac, row |-> NoRow]
  <2>1. t \in Resolving
        BY <1>2, <1>5 DEF Resolving
  <2>2. /\ Goes(p, t)
        /\ muddled' = IF Asking(c) # {} THEN muddled \cup {c} ELSE muddled
        BY <1>1, <1>5 DEF SyncStart, Goes
  <2>. QED BY <1>1, <2>1, <2>2
<1>. QED BY <1>3, <1>4, <1>5

\* How a sync goes on.
LEMMA SyncGoesOn ==
    ASSUME AccessTypeOK, NEW p \in Procs, task[p].do = "sync"
    PROVE  /\ task[p] \in Resolving \cup Calling \cup Storing /\ task[p].who \in Customers
           /\ Lookup(p) =>
                \/ \E t \in Calling :
                     /\ Goes(p, t) /\ t.at = "find" /\ t.ip \in Leased(t.who)
                     /\ t.who = task[p].who /\ t.act = task[p].act /\ t.router = task[p].router
                     /\ UNCHANGED muddled
                \/ \E t \in Resolving :
                     /\ Goes(p, t) /\ t.at = "claim"
                     /\ t.who = task[p].who /\ t.act = task[p].act /\ t.router = task[p].router
                     /\ muddled' = IF Leased(t.who) = {} THEN muddled ELSE muddled \cup {t.who}
           /\ Claim(p) =>
                \/ /\ Goes(p, Resting) /\ disturbed' = disturbed \cup {task[p].who}
                   /\ AllocateIP(task[p].who, None)
                \/ \E t \in Calling :
                     /\ Goes(p, t) /\ t.at = "find" /\ AllocateIP(t.who, t.ip)
                     /\ t.who = task[p].who /\ t.act = task[p].act /\ t.router = task[p].router
                     /\ UNCHANGED disturbed
           /\ FindToResolve(p) =>
                \/ \E t \in Storing :
                     /\ Goes(p, t) /\ Exists(t.who) /\ UNCHANGED disturbed
                     /\ t.who = task[p].who /\ t.act = task[p].act /\ t.router = task[p].router
                     /\ t.row.status = rows[t.who].status
                     /\ t.row.router = t.router /\ t.row.ip = t.ip /\ t.row.mac = t.mac
                \/ \E t \in Calling :
                     /\ Goes(p, t) /\ t.who = task[p].who /\ disturbed' = disturbed \cup {t.who}
           /\ StoreResolved(p) =>
                \E t \in Calling :
                   /\ Goes(p, t) /\ t.at = "router"
                   /\ t.who = task[p].who /\ t.act = task[p].act /\ t.router = task[p].router
                   /\ t.ip = task[p].ip /\ t.mac = task[p].mac
<1>1. task[p] \in Resolving \cup Calling \cup Storing /\ task[p].who \in Customers
      BY TaskShapes DEF Resting
<1>0. PICK u \in Resolving \cup Calling \cup Storing : u = task[p]
      BY <1>1
<1>. DEFINE Put1(t) == [task EXCEPT ![p] = t]
<1>2. p \in DOMAIN task
      BY DEF AccessTypeOK
<1>3. ASSUME Lookup(p)
      PROVE  \/ \E t \in Calling :
                     /\ Goes(p, t) /\ t.at = "find" /\ t.ip \in Leased(t.who)
                     /\ t.who = task[p].who /\ t.act = task[p].act /\ t.router = task[p].router
                     /\ UNCHANGED muddled
             \/ \E t \in Resolving :
                     /\ Goes(p, t) /\ t.at = "claim"
                     /\ t.who = task[p].who /\ t.act = task[p].act /\ t.router = task[p].router
                     /\ muddled' = IF Leased(t.who) = {} THEN muddled ELSE muddled \cup {t.who}
  <2>1. u \in Resolving
        BY <1>0, <1>3, TaskShapes DEF Lookup
  <2>2. ASSUME NEW ip \in Leased(u.who), NEW mac \in BOOLEAN,
               task' = [task EXCEPT ![p].at = "find", ![p].ip = ip, ![p].mac = mac], UNCHANGED muddled
        PROVE  \E t \in Calling :
                     /\ Goes(p, t) /\ t.at = "find" /\ t.ip \in Leased(t.who)
                     /\ t.who = u.who /\ t.act = u.act /\ t.router = u.router
                     /\ UNCHANGED muddled
    <3>. DEFINE t == [u EXCEPT !.at = "find", !.ip = ip, !.mac = mac]
    <3>1. t \in Calling /\ t.at = "find" /\ t.ip = ip /\ t.who = u.who /\ t.act = u.act /\ t.router = u.router
          BY <2>1, <2>2 DEF Resolving, Calling, Leased
    <3>2. Goes(p, t)
          BY <1>0, <1>2, <2>2 DEF Goes
    <3>. QED BY <2>2, <3>1, <3>2
  <2>3. ASSUME task' = [task EXCEPT ![p].at = "claim"],
               muddled' = IF Leased(u.who) = {} THEN muddled ELSE muddled \cup {u.who}
        PROVE  \E t \in Resolving :
                     /\ Goes(p, t) /\ t.at = "claim"
                     /\ t.who = u.who /\ t.act = u.act /\ t.router = u.router
                     /\ muddled' = IF Leased(t.who) = {} THEN muddled ELSE muddled \cup {t.who}
    <3>. DEFINE t == [u EXCEPT !.at = "claim"]
    <3>1. t \in Resolving /\ t.at = "claim" /\ t.who = u.who /\ t.act = u.act /\ t.router = u.router
          BY <2>1 DEF Resolving
    <3>2. Goes(p, t)
          BY <1>0, <1>2, <2>3 DEF Goes
    <3>. QED BY <2>3, <3>1, <3>2
  <2>. QED BY <1>0, <1>3, <2>2, <2>3 DEF Lookup
<1>4. ASSUME Claim(p)
      PROVE  \/ /\ Goes(p, Resting) /\ disturbed' = disturbed \cup {task[p].who}
                /\ AllocateIP(task[p].who, None)
             \/ \E t \in Calling :
                     /\ Goes(p, t) /\ t.at = "find" /\ AllocateIP(t.who, t.ip)
                     /\ t.who = task[p].who /\ t.act = task[p].act /\ t.router = task[p].router
                     /\ UNCHANGED disturbed
  <2>1. u \in Resolving
        BY <1>0, <1>4, TaskShapes DEF Claim
  <2>2. PICK ip \in IPs \cup {None} :
           /\ AllocateIP(u.who, ip)
           /\ IF ip = None THEN task' = [task EXCEPT ![p] = Resting] /\ disturbed' = disturbed \cup {u.who}
              ELSE /\ task' = [task EXCEPT ![p].at = "find", ![p].ip = ip, ![p].mac = FALSE]
                   /\ UNCHANGED disturbed
        BY <1>0, <1>4 DEF Claim
  <2>3. CASE ip = None
        BY <1>0, <2>2, <2>3 DEF Goes
  <2>4. CASE ip # None
    <3>. DEFINE t == [u EXCEPT !.at = "find", !.ip = ip, !.mac = FALSE]
    <3>1. t \in Calling /\ t.at = "find" /\ t.ip = ip /\ t.who = u.who /\ t.act = u.act /\ t.router = u.router
          BY <2>1, <2>4 DEF Resolving, Calling
    <3>2. Goes(p, t) /\ UNCHANGED disturbed
          BY <1>0, <1>2, <2>2, <2>4 DEF Goes
    <3>. QED BY <1>0, <2>2, <3>1, <3>2
  <2>. QED BY <2>3, <2>4
<1>5. ASSUME FindToResolve(p)
      PROVE  \/ \E t \in Storing :
                     /\ Goes(p, t) /\ Exists(t.who) /\ UNCHANGED disturbed
                     /\ t.who = task[p].who /\ t.act = task[p].act /\ t.router = task[p].router
                     /\ t.row.status = rows[t.who].status
                     /\ t.row.router = t.router /\ t.row.ip = t.ip /\ t.row.mac = t.mac
             \/ \E t \in Calling :
                     /\ Goes(p, t) /\ t.who = task[p].who /\ disturbed' = disturbed \cup {t.who}
  <2>1. u \in Calling
        BY <1>0, <1>5, TaskShapes DEF FindToResolve
  <2>2. PICK r \in Rows \cup {NoRow} : r = rows[u.who]
        BY <1>0, <1>1, RowShapes
  <2>3. ASSUME Exists(u.who), UNCHANGED disturbed,
               task' = [task EXCEPT ![p].at = "store", ![p].row =
                          [r EXCEPT !.router = u.router, !.ip = u.ip, !.mac = u.mac]]
        PROVE  \E t \in Storing :
                     /\ Goes(p, t) /\ Exists(t.who) /\ UNCHANGED disturbed
                     /\ t.who = u.who /\ t.act = u.act /\ t.router = u.router
                     /\ t.row.status = r.status
                     /\ t.row.router = t.router /\ t.row.ip = t.ip /\ t.row.mac = t.mac
    <3>. DEFINE s == [r EXCEPT !.router = u.router, !.ip = u.ip, !.mac = u.mac]
                t == [u EXCEPT !.at = "store", !.row = s]
    <3>1. r \in Rows
          BY <1>0, <1>1, <2>2, <2>3, RowShapes
    <3>2. s \in Rows /\ s.status = r.status /\ s.router = u.router /\ s.ip = u.ip /\ s.mac = u.mac
          BY <2>1, <3>1 DEF Calling, Rows
    <3>3. /\ t \in Storing /\ t.row = s /\ t.who = u.who /\ t.act = u.act
          /\ t.router = u.router /\ t.ip = u.ip /\ t.mac = u.mac
      <4>. HIDE DEF s
      <4>. QED BY <2>1, <3>2 DEF Calling, Storing
    <3>4. Goes(p, t)
          BY <1>0, <1>2, <2>3 DEF Goes
    <3>5. t.row.status = r.status /\ t.row.router = t.router /\ t.row.ip = t.ip /\ t.row.mac = t.mac
          BY <3>2, <3>3
    <3>. HIDE DEF t
    <3>. QED BY <2>3, <3>3, <3>4, <3>5
  <2>4. ASSUME task' = [task EXCEPT ![p].at = "router"], disturbed' = disturbed \cup {u.who}
        PROVE  \E t \in Calling :
                     /\ Goes(p, t) /\ t.who = u.who /\ disturbed' = disturbed \cup {t.who}
    <3>. DEFINE t == [u EXCEPT !.at = "router"]
    <3>1. t \in Calling /\ t.who = u.who
          BY <2>1 DEF Calling
    <3>2. Goes(p, t)
          BY <1>0, <1>2, <2>4 DEF Goes
    <3>. QED BY <2>4, <3>1, <3>2
  <2>. QED BY <1>0, <1>5, <2>2, <2>3, <2>4 DEF FindToResolve
<1>6. ASSUME StoreResolved(p)
      PROVE  \E t \in Calling :
                   /\ Goes(p, t) /\ t.at = "router"
                   /\ t.who = task[p].who /\ t.act = task[p].act /\ t.router = task[p].router
                   /\ t.ip = task[p].ip /\ t.mac = task[p].mac
  <2>1. u \in Storing
        BY <1>0, <1>6, TaskShapes DEF StoreResolved
  <2>. DEFINE t == [u EXCEPT !.at = "router", !.row = NoRow]
  <2>2. /\ t \in Calling /\ t.at = "router" /\ t.who = u.who /\ t.act = u.act
        /\ t.router = u.router /\ t.ip = u.ip /\ t.mac = u.mac
        BY <2>1 DEF Storing, Calling
  <2>3. Goes(p, t)
        BY <1>0, <1>2, <1>6 DEF Goes, StoreResolved
  <2>. QED BY <1>0, <2>2, <2>3
<1>. QED BY <1>1, <1>3, <1>4, <1>5, <1>6

NewCustomer == [NoRow EXCEPT !.status = "active"]

\* The row the create handler saves first.
LEMMA NewCustomerIs ==
    /\ NewCustomer \in Rows /\ NewCustomer.status = "active" /\ NewCustomer.router = None
    /\ NewCustomer.ip = None
BY DEF NewCustomer, NoRow, Rows, Statuses

\* What a command makes of the row it found.
LEMMA FindMakes ==
    ASSUME AccessTypeOK, NEW p \in Procs, NEW c \in Customers, Find(p, c)
    PROVE  \E t \in Saving :
              /\ Goes(p, t) /\ t.who = c /\ FreshStart(c, t.by)
              /\ t.by = "update" => t.row.status = rows[c].status
<1>1. PICK r \in Rows : r = rows[c]
      BY RowShapes DEF Find
<1>2. PICK command \in {"status", "update"} :
         /\ FreshStart(c, command)
         /\ \E row \in IF command = "status" THEN ChangeStatus(r) ELSE Update(r) :
              task' = [task EXCEPT ![p] = [do |-> "save", who |-> c, row |-> row, by |-> command]]
      BY <1>1 DEF Find
<1>3. PICK row \in IF command = "status" THEN ChangeStatus(r) ELSE Update(r) :
         task' = [task EXCEPT ![p] = [do |-> "save", who |-> c, row |-> row, by |-> command]]
      BY <1>2
<1>4. ChangeStatus(r) \subseteq Rows
      BY <1>1 DEF ChangeStatus, Suspend, Activate, Churn, Rows, Statuses
<1>5. \A s \in Update(r) : s \in Rows /\ s.status = r.status
  <2>1. SUFFICES ASSUME NEW f \in Edits
                 PROVE  LET s == [status |-> r.status, router |-> f.router, ip |-> f.ip, mac |-> f.mac]
                        IN  s \in Rows /\ s.status = r.status
        BY DEF Update
  <2>2. f \in [router : Routers \cup {None}, ip : IPs \cup {None}, mac : BOOLEAN]
        BY EditsAssumption
  <2>. QED BY <1>1, <2>2 DEF Rows
<1>. DEFINE t == [do |-> "save", who |-> c, row |-> row, by |-> command]
<1>6. row \in Rows /\ (command = "update" => row.status = r.status)
      BY <1>3, <1>4, <1>5
<1>7. /\ t \in Saving /\ t.who = c /\ t.by = command /\ t.row = row
      BY <1>6 DEF Saving
<1>8. Goes(p, t)
      BY <1>3 DEF Goes
<1>. HIDE DEF t
<1>. QED BY <1>1, <1>2, <1>6, <1>7, <1>8

\* How the creation of a customer goes on.
LEMMA CreateGoesOn ==
    ASSUME AccessTypeOK, NEW p \in Procs
    PROVE  /\ \A c \in Customers : Create(p, c) =>
                 /\ rows' = [rows EXCEPT ![c] = NewCustomer]
                 /\ \E t \in Creating \cup Publishing :
                       /\ Goes(p, t) /\ t.do \in {"allocate", "publish"} /\ t.who = c
                       /\ t.row = NewCustomer
           /\ Allocate(p) =>
                 /\ \E ip \in IPs \cup {None} : AllocateIP(task[p].who, ip)
                 /\ \E t \in Creating \cup Publishing :
                       /\ Goes(p, t) /\ t.do \in {"resave", "publish"} /\ t.who = task[p].who
                       /\ t.row.status = task[p].row.status
                       /\ t.row.router \in {None, task[p].row.router}
           /\ Resave(p) => \E t \in Publishing :
                 Goes(p, t) /\ t.who = task[p].who /\ t.row = task[p].row
<1>. DEFINE Goal(c) == \E t \in Creating \cup Publishing :
                       /\ Goes(p, t) /\ t.do \in {"allocate", "publish"} /\ t.who = c
                       /\ t.row = NewCustomer
<1>1. ASSUME NEW c \in Customers, Create(p, c)
      PROVE  rows' = [rows EXCEPT ![c] = NewCustomer] /\ Goal(c)
  <2>. DEFINE t(do) == [do |-> do, who |-> c, row |-> NewCustomer]
  <2>1. PICK do \in {"allocate", "publish"} : task' = [task EXCEPT ![p] = t(do)]
        BY <1>1 DEF Create, NewCustomer
  <2>2. /\ t(do) \in Creating \cup Publishing /\ t(do).do \in {"allocate", "publish"}
        /\ t(do).who = c /\ t(do).row = NewCustomer
        BY NewCustomerIs DEF Creating, Publishing
  <2>3. Goes(p, t(do))
        BY <2>1 DEF Goes
  <2>4. rows' = [rows EXCEPT ![c] = NewCustomer]
        BY <1>1 DEF Create, NewCustomer
  <2>. HIDE DEF t
  <2>. QED BY <2>2, <2>3, <2>4
<1>2. ASSUME Allocate(p)
      PROVE  /\ \E ip \in IPs \cup {None} : AllocateIP(task[p].who, ip)
             /\ \E t \in Creating \cup Publishing :
                       /\ Goes(p, t) /\ t.do \in {"resave", "publish"} /\ t.who = task[p].who
                       /\ t.row.status = task[p].row.status
                       /\ t.row.router \in {None, task[p].row.router}
  <2>1. PICK u \in Creating : u = task[p]
        BY <1>2, TaskShapes DEF Allocate
  <2>2. PICK ip \in IPs \cup {None} :
           /\ AllocateIP(u.who, ip)
           /\ task' = [task EXCEPT ![p] =
                IF ip = None THEN [do |-> "publish", who |-> u.who, row |-> u.row]
                ELSE [do |-> "resave", who |-> u.who,
                      row |-> [u.row EXCEPT !.router = None, !.ip = ip, !.mac = FALSE]]]
        BY <1>2, <2>1 DEF Allocate
  <2>3. u.row \in Rows /\ u.who \in Customers
        BY <2>1 DEF Creating
  <2>4. CASE ip = None
    <3>. DEFINE t == [do |-> "publish", who |-> u.who, row |-> u.row]
    <3>1. t \in Publishing /\ t.do = "publish" /\ t.who = u.who /\ t.row = u.row
          BY <2>3 DEF Publishing
    <3>2. Goes(p, t)
          BY <2>2, <2>4 DEF Goes
    <3>. HIDE DEF t
    <3>. QED BY <2>1, <2>2, <3>1, <3>2
  <2>5. CASE ip # None
    <3>. DEFINE r == [u.row EXCEPT !.router = None, !.ip = ip, !.mac = FALSE]
                t == [do |-> "resave", who |-> u.who, row |-> r]
    <3>1. r \in Rows /\ r.status = u.row.status /\ r.router = None
          BY <2>3, <2>5 DEF Rows
    <3>2. t \in Creating /\ t.do = "resave" /\ t.who = u.who /\ t.row = r
      <4>. HIDE DEF r
      <4>. QED BY <2>3, <3>1 DEF Creating
    <3>3. Goes(p, t)
          BY <2>2, <2>5 DEF Goes
    <3>. HIDE DEF r, t
    <3>. QED BY <2>1, <2>2, <3>1, <3>2, <3>3
  <2>. QED BY <2>4, <2>5
<1>3. ASSUME Resave(p)
      PROVE  \E t \in Publishing : Goes(p, t) /\ t.who = task[p].who /\ t.row = task[p].row
  <2>1. PICK u \in Creating : u = task[p]
        BY <1>3, TaskShapes DEF Resave
  <2>. DEFINE t == [u EXCEPT !.do = "publish"]
  <2>2. t \in Publishing /\ t.who = u.who /\ t.row = u.row
        BY <2>1 DEF Creating, Publishing
  <2>3. Goes(p, t)
        BY <1>3, <2>1 DEF Goes, Resave, AccessTypeOK
  <2>. QED BY <2>1, <2>2, <2>3
<1>. HIDE DEF Goal
<1>4. \A c \in Customers : Create(p, c) => rows' = [rows EXCEPT ![c] = NewCustomer] /\ Goal(c)
      BY <1>1
<1>. QED BY <1>2, <1>3, <1>4 DEF Goal

\* What asking NetBox for an address leaves there.
LEMMA Leases ==
    ASSUME AccessTypeOK, NEW c \in Customers, NEW ip \in IPs \cup {None}, AllocateIP(c, ip)
    PROVE  /\ netbox' \in [IPs -> Customers \cup {None}]
           /\ muddled' \in {muddled, muddled \cup {c}}
           /\ \A d \in Customers \ {c} : Leased(d)' = Leased(d)
           /\ c \notin muddled' => Leased(c)' \subseteq Leased(c) \cup {ip}
<1>1. netbox \in [IPs -> Customers \cup {None}] /\ None \notin Customers /\ None \notin IPs
      BY NoneAssumption DEF AccessTypeOK
<1>2. CASE ip \in Free /\ netbox' = [netbox EXCEPT ![ip] = c] /\ UNCHANGED muddled
      BY <1>1, <1>2 DEF Free, Leased
<1>3. ASSUME NEW lost \in Free \ {ip}, ip \in Free \cup {None},
             netbox' = [i \in IPs |-> IF i \in {lost, ip} THEN c ELSE netbox[i]],
             muddled' = muddled \cup {c}
      PROVE  /\ netbox' \in [IPs -> Customers \cup {None}]
             /\ \A d \in Customers \ {c} : Leased(d)' = Leased(d)
      BY <1>1, <1>3 DEF Free, Leased
<1>4. CASE ip = None /\ UNCHANGED <<netbox, muddled>>
      BY <1>1, <1>4 DEF Leased
<1>. QED BY <1>2, <1>3, <1>4 DEF AllocateIP

-----------------------------------------------------------------------------
(* The channels *)

ChanOK ==
    /\ chan \in [Topics -> Seq(Messages("customer") \cup Messages("arp"))]
    /\ \A t \in Topics : chan[t] \in Seq(Messages(t)) /\ Len(chan[t]) <= Buffer

\* A channel of one topic holds messages of that topic.
LEMMA ChanIs ==
    ASSUME AccessTypeOK
    PROVE  /\ chan = [t \in Topics |-> chan[t]]
           /\ \A t \in Topics : chan[t] \in Seq(Messages(t)) /\ Len(chan[t]) <= Buffer /\ Len(chan[t]) \in Nat
<1>1. \A t \in Topics : chan[t] \in Seq(Messages(t)) /\ Len(chan[t]) <= Buffer
      BY DEF AccessTypeOK
<1>2. \A t \in Topics : Len(chan[t]) \in Nat
      BY <1>1
<1>. QED BY <1>1, <1>2 DEF AccessTypeOK

\* Channels typed one by one are typed as the type invariant wants them.
LEMMA ChanTyped ==
    ASSUME NEW ch, ch = [t \in Topics |-> ch[t]],
           \A t \in Topics : ch[t] \in Seq(Messages(t))
    PROVE  ch \in [Topics -> Seq(Messages("customer") \cup Messages("arp"))]
<1>1. \A t \in Topics : Messages(t) \subseteq Messages("customer") \cup Messages("arp")
      BY DEF Topics, Messages
<1>2. ASSUME NEW t \in Topics PROVE ch[t] \in Seq(Messages("customer") \cup Messages("arp"))
  <2>. DEFINE S == Messages(t)
              T == Messages("customer") \cup Messages("arp")
  <2>1. PICK q \in Seq(S) : q = ch[t]
        OBVIOUS
  <2>2. S \subseteq T
        BY <1>1
  <2>3. q \in Seq(T)
    <3>. HIDE DEF S, T
    <3>. QED BY <2>1, <2>2
  <2>. QED BY <2>1, <2>3
<1>. QED BY <1>2

\* Sending an event, or dropping it, keeps the channels typed and within their bound.
LEMMA AppendTyped ==
    ASSUME AccessTypeOK, NEW topic \in Topics, NEW e \in Messages(topic),
           chan' = [chan EXCEPT ![topic] = IF Len(@) < Buffer THEN Append(@, e) ELSE @]
    PROVE  ChanOK'
<1>1. PICK q \in Seq(Messages(topic)) : q = chan[topic]
      BY ChanIs
<1>2. Len(q) < Buffer => Append(q, e) \in Seq(Messages(topic)) /\ Len(Append(q, e)) <= Buffer
      BY BoundsAssumption
<1>3. chan' = [t \in Topics |-> IF t = topic THEN IF Len(q) < Buffer THEN Append(q, e) ELSE q ELSE chan[t]]
      BY <1>1, ChanIs
<1>4. \A t \in Topics : chan'[t] \in Seq(Messages(t)) /\ Len(chan'[t]) <= Buffer
      BY <1>1, <1>2, <1>3, ChanIs
<1>. DEFINE ch == chan'
<1>5. ch = [t \in Topics |-> ch[t]] /\ \A t \in Topics : ch[t] \in Seq(Messages(t))
      BY <1>3, <1>4
<1>6. ch \in [Topics -> Seq(Messages("customer") \cup Messages("arp"))]
  <2>. HIDE DEF ch
  <2>. QED BY <1>5, ChanTyped
<1>. QED BY <1>4, <1>6 DEF ChanOK, Messages

\* So does taking one, which only a worker at rest does.
LEMMA TailTyped ==
    ASSUME AccessTypeOK, NEW topic \in Topics, Take(topic)
    PROVE  /\ ChanOK'
           /\ Head(chan[topic]) \in Messages(topic)
           /\ chan'[topic] = Tail(chan[topic])
           /\ \A t \in Topics \ {topic} : chan'[t] = chan[t]
           /\ chan[topic] \in Seq(Messages(topic)) /\ chan[topic] # <<>>
           /\ Worker \in Procs /\ task[Worker] = Resting
<1>1. chan' = [chan EXCEPT ![topic] = Tail(@)] /\ chan[topic] # <<>>
      BY DEF Take
<1>2. PICK q \in Seq(Messages(topic)) : q = chan[topic]
      BY ChanIs
<1>3. Head(q) \in Messages(topic) /\ Tail(q) \in Seq(Messages(topic)) /\ Len(Tail(q)) <= Len(q)
      BY <1>1, <1>2
<1>4. Buffer \in Nat /\ Len(q) <= Buffer /\ Len(Tail(q)) \in Nat /\ Len(q) \in Nat
      BY <1>2, <1>3, BoundsAssumption, ChanIs
<1>5. chan' = [t \in Topics |-> IF t = topic THEN Tail(q) ELSE chan[t]]
      BY <1>1, <1>2, ChanIs
<1>6. Len(Tail(q)) <= Buffer
      BY <1>3, <1>4
<1>7. \A t \in Topics : chan'[t] \in Seq(Messages(t)) /\ Len(chan'[t]) <= Buffer
      BY <1>3, <1>5, <1>6, ChanIs
<1>. DEFINE ch == chan'
<1>8. ch = [t \in Topics |-> ch[t]] /\ \A t \in Topics : ch[t] \in Seq(Messages(t))
      BY <1>5, <1>7
<1>9. ch \in [Topics -> Seq(Messages("customer") \cup Messages("arp"))]
  <2>. HIDE DEF ch
  <2>. QED BY <1>8, ChanTyped
<1>10. ChanOK'
      BY <1>7, <1>9 DEF ChanOK, Messages
<1>11. chan'[topic] = Tail(chan[topic]) /\ \A t \in Topics \ {topic} : chan'[t] = chan[t]
      BY <1>2, <1>5
<1>. QED BY <1>1, <1>2, <1>3, <1>10, <1>11 DEF Take, Procs

\* An event sent and not dropped leaves nothing disturbed.
LEMMA SendMeans ==
    ASSUME AccessTypeOK, NEW topic \in Topics, NEW e \in Messages(topic), Send(topic, e)
    PROVE  /\ chan' = [chan EXCEPT ![topic] = IF Len(@) < Buffer THEN Append(@, e) ELSE @]
           /\ disturbed' \in {disturbed, disturbed \cup {e.who}}
           /\ e.who \notin disturbed' =>
                 /\ chan'[topic] = Append(chan[topic], e)
                 /\ \A t \in Topics \ {topic} : chan'[t] = chan[t]
<1>1. chan = [t \in Topics |-> chan[t]] /\ Len(chan[topic]) \in Nat /\ Buffer \in Nat
      BY ChanIs, BoundsAssumption
<1>2. CASE Len(chan[topic]) < Buffer
      BY <1>1, <1>2 DEF Send
<1>3. CASE ~(Len(chan[topic]) < Buffer)
  <2>1. Len(chan[topic]) = Buffer /\ UNCHANGED chan /\ disturbed' = disturbed \cup {e.who}
        BY <1>1, <1>3 DEF Send
  <2>2. chan = [chan EXCEPT ![topic] = IF Len(@) < Buffer THEN Append(@, e) ELSE @]
        BY <1>1, <1>3
  <2>. QED BY <2>1, <2>2
<1>. QED BY <1>2, <1>3

-----------------------------------------------------------------------------
(* Types *)

\* The type invariant from its conjuncts.
LEMMA TypesFrom ==
    ASSUME AccessTypeOK,
           rows' \in [Customers -> Rows \cup {NoRow}], routers' \subseteq Routers,
           arp' \in [Routers -> [IPs -> [up : BOOLEAN, who : Customers \cup {None}]]],
           netbox' \in [IPs -> Customers \cup {None}], ipam' = ipam, ChanOK',
           task' \in [Procs -> Tasks], ops' \in 0..MaxOps,
           told' \in [Customers -> Statuses \cup {"", "gone"}],
           disturbed' \subseteq Customers, muddled' \subseteq Customers
    PROVE  AccessTypeOK'
BY DEF AccessTypeOK, ChanOK

\* A fresh start takes customers off the disturbed ones, and adds none.
LEMMA FreshStartTyped ==
    ASSUME AccessTypeOK, NEW c \in Customers, NEW command, FreshStart(c, command)
    PROVE  disturbed' \subseteq disturbed
BY DEF FreshStart

\* Who begins was at rest, and the operations stay within their bound.
LEMMA OpsTyped == ASSUME AccessTypeOK, NEW p \in Procs, Begin(p) PROVE ops' \in 0..MaxOps /\ task[p] = Resting
<1>1. ops \in 0..MaxOps /\ ops < MaxOps /\ ops' = ops + 1 /\ task[p] = Resting
      BY DEF AccessTypeOK, Begin
<1>. QED BY <1>1, BoundsAssumption

\* Types under the first steps of requests,
LEMMA OperateTyped ==
    ASSUME AccessTypeOK, NEW p \in Requests, Operate(p)
    PROVE  AccessTypeOK'
<1>. p \in Procs
     BY DEF Procs
<1>0. /\ rows \in [Customers -> Rows \cup {NoRow}] /\ routers \subseteq Routers
      /\ arp \in [Routers -> [IPs -> [up : BOOLEAN, who : Customers \cup {None}]]]
      /\ netbox \in [IPs -> Customers \cup {None}] /\ task \in [Procs -> Tasks]
      /\ told \in [Customers -> Statuses \cup {"", "gone"}]
      /\ disturbed \subseteq Customers /\ muddled \subseteq Customers /\ ChanOK
      BY DEF AccessTypeOK, ChanOK
<1>k. chan' = chan => ChanOK'
      BY <1>0 DEF ChanOK, Messages
<1>1. ASSUME NEW c \in Customers, Create(p, c) PROVE AccessTypeOK'
  <2>1. /\ rows' = [rows EXCEPT ![c] = NewCustomer]
        /\ \E t \in Creating \cup Publishing : Goes(p, t)
        BY <1>1, CreateGoesOn
  <2>2. task' \in [Procs -> Tasks]
        BY <2>1, GoesKeepsType DEF Tasks
  <2>3. told' = [told EXCEPT ![c] = "active"] /\ Begin(p) /\ UNCHANGED <<routers, farVars, chan, muddled>>
        BY <1>1 DEF Create
  <2>4. disturbed' \subseteq Customers
        BY <1>0, <1>1, FreshStartTyped DEF Create
  <2>. QED BY <1>0, <1>k, <2>1, <2>2, <2>3, <2>4, OpsTyped, NewCustomerIs, TypesFrom DEF farVars, Statuses
<1>2. ASSUME NEW c \in Customers, Find(p, c) PROVE AccessTypeOK'
  <2>1. task' \in [Procs -> Tasks] /\ disturbed' \subseteq Customers
    <3>1. PICK t \in Saving : Goes(p, t) /\ FreshStart(c, t.by)
          BY <1>2, FindMakes
    <3>2. disturbed' \subseteq disturbed
          BY <3>1, FreshStartTyped
    <3>. QED BY <1>0, <3>1, <3>2, GoesKeepsType DEF Tasks
  <2>2. Begin(p) /\ UNCHANGED <<dbVars, farVars, chan, told, muddled>>
        BY <1>2 DEF Find
  <2>. QED BY <1>0, <1>k, <2>1, <2>2, OpsTyped, TypesFrom DEF farVars, dbVars
<1>3. ASSUME NEW c \in Customers, FindToDelete(p, c) PROVE AccessTypeOK'
  <2>1. [do |-> "delete", who |-> c] \in Tasks
        BY DEF Tasks, Deleting
  <2>2. task' \in [Procs -> Tasks] /\ disturbed' \subseteq Customers
        BY <1>0, <1>3, <2>1, FreshStartTyped DEF FindToDelete
  <2>3. Begin(p) /\ UNCHANGED <<dbVars, farVars, chan, told, muddled>>
        BY <1>3 DEF FindToDelete
  <2>. QED BY <1>0, <1>k, <2>2, <2>3, OpsTyped, TypesFrom DEF farVars, dbVars
<1>4. ASSUME NEW c \in Customers, ServiceChanges(p, c) \/ RequestARP(p, c) PROVE AccessTypeOK'
  <2>1. PICK topic \in {"service", "arp"}, act \in Acts :
           LET event == [who |-> c, act |-> act] IN
           chan' = [chan EXCEPT ![topic] = IF Len(@) < Buffer THEN Append(@, event) ELSE @]
        BY <1>4 DEF ServiceChanges, RequestARP
  <2>2. [who |-> c, act |-> act] \in Messages(topic) /\ topic \in Topics
        BY DEF Messages, Topics
  <2>3. ChanOK'
        BY <2>1, <2>2, AppendTyped
  <2>4. Begin(p) /\ UNCHANGED <<dbVars, farVars, task, told, muddled>> /\ disturbed' = disturbed \cup {c}
        BY <1>4 DEF ServiceChanges, RequestARP
  <2>. QED BY <1>0, <2>3, <2>4, OpsTyped, TypesFrom DEF farVars, dbVars
<1>5. ASSUME NEW c \in Customers, SyncDirectly(p, c) PROVE AccessTypeOK'
  <2>1. PICK act \in Acts : SyncStart(p, c, act)
        BY <1>5 DEF SyncDirectly
  <2>2. Begin(p) /\ disturbed' = disturbed \cup {c} /\ UNCHANGED <<dbVars, farVars, chan, told>>
        BY <1>5 DEF SyncDirectly
  <2>3. /\ \E t \in Tasks : Goes(p, t)
        /\ muddled' \in {muddled, muddled \cup {c}}
        BY <2>1, SyncBegins DEF Tasks
  <2>4. task' \in [Procs -> Tasks]
        BY <2>3, GoesKeepsType
  <2>. QED BY <1>0, <1>k, <2>2, <2>3, <2>4, OpsTyped, TypesFrom DEF farVars, dbVars
<1>6. ASSUME NEW r \in Routers, DeleteRouter(p, r) PROVE AccessTypeOK'
  <2>1. Begin(p) /\ routers' = routers \ {r} /\ UNCHANGED <<rows, farVars, chan, task, pastVars>>
        BY <1>6 DEF DeleteRouter
  <2>. QED BY <1>0, <1>k, <2>1, OpsTyped, TypesFrom DEF farVars, pastVars
<1>. QED BY <1>1, <1>2, <1>3, <1>4, <1>5, <1>6 DEF Operate

\* under the steps of whoever is in the middle of something,
LEMMA ContinueTyped ==
    ASSUME AccessTypeOK, NEW p \in Procs, Continue(p)
    PROVE  AccessTypeOK'
<1>0. /\ rows \in [Customers -> Rows \cup {NoRow}] /\ routers \subseteq Routers
      /\ arp \in [Routers -> [IPs -> [up : BOOLEAN, who : Customers \cup {None}]]]
      /\ netbox \in [IPs -> Customers \cup {None}] /\ task \in [Procs -> Tasks]
      /\ told \in [Customers -> Statuses \cup {"", "gone"}] /\ ops \in 0..MaxOps
      /\ disturbed \subseteq Customers /\ muddled \subseteq Customers /\ ChanOK
      BY DEF AccessTypeOK, ChanOK
<1>k. chan' = chan => ChanOK'
      BY <1>0 DEF ChanOK, Messages
<1>1. CASE Save(p)
  <2>1. task[p] \in Saving
        BY <1>1, TaskShapes DEF Save
  <2>2. PICK t \in Saving : t = task[p]
        BY <2>1
  <2>3. t.who \in Customers /\ t.row \in Rows /\ t.row.status \in Statuses
        BY DEF Saving, Rows
  <2>4. [do |-> "publish", who |-> t.who, row |-> t.row] \in Tasks /\ Resting \in Tasks
        BY <2>3 DEF Tasks, Publishing
  <2>5. /\ task' = [task EXCEPT ![p] = Resting]
           \/ task' = [task EXCEPT ![p] = [do |-> "publish", who |-> t.who, row |-> t.row]]
        /\ rows' = rows \/ rows' = [rows EXCEPT ![t.who] = t.row]
        /\ told' = told \/ told' = [told EXCEPT ![t.who] = t.row.status]
        /\ disturbed' \in {disturbed, disturbed \cup {t.who}}
        /\ UNCHANGED <<routers, farVars, chan, ops, muddled>>
        BY <1>0, <1>1, <2>2 DEF Save
  <2>6. task' \in [Procs -> Tasks]
        BY <1>0, <2>4, <2>5
  <2>7. rows' \in [Customers -> Rows \cup {NoRow}] /\ told' \in [Customers -> Statuses \cup {"", "gone"}]
        BY <1>0, <2>3, <2>5
  <2>8. disturbed' \subseteq Customers
        BY <1>0, <2>3, <2>5
  <2>. QED BY <1>0, <1>k, <2>5, <2>6, <2>7, <2>8, TypesFrom DEF farVars
<1>2. CASE Publish(p)
  <2>1. PICK t \in Publishing : t = task[p]
        BY <1>2, TaskShapes DEF Publish
  <2>2. About(t.who, t.row) \in Messages("customer") /\ About(t.who, t.row).who = t.who /\ t.who \in Customers
    <3>1. t.who \in Customers /\ t.row \in Rows \cup {NoRow}
          BY DEF Publishing
    <3>2. t.row.status \in Statuses \cup {""} /\ t.row.router \in Routers \cup {None}
      <4>1. PICK r \in Rows \cup {NoRow} : r = t.row
            BY <3>1
      <4>2. r.status \in Statuses \cup {""} /\ r.router \in Routers \cup {None}
        <5>1. CASE r \in Rows
              BY <5>1 DEF Rows
        <5>2. CASE r = NoRow
              BY <5>2 DEF NoRow
        <5>. QED BY <5>1, <5>2
      <4>. QED BY <4>1, <4>2
    <3>. QED BY <3>1, <3>2 DEF Messages, About
  <2>3. /\ Send("customer", About(t.who, t.row)) /\ task' = [task EXCEPT ![p] = Resting]
        /\ UNCHANGED <<dbVars, farVars, ops, told, muddled>>
        BY <1>2, <2>1 DEF Publish
  <2>4. "customer" \in Topics
        BY DEF Topics
  <2>5. ChanOK'
        BY <2>2, <2>3, <2>4, SendMeans, AppendTyped
  <2>6. disturbed' \subseteq Customers
    <3>1. PICK e \in Messages("customer") : e = About(t.who, t.row)
          BY <2>2
    <3>2. disturbed' \in {disturbed, disturbed \cup {e.who}}
          BY <2>3, <2>4, <3>1, SendMeans
    <3>. QED BY <1>0, <2>2, <3>1, <3>2
  <2>7. task' \in [Procs -> Tasks]
        BY <1>0, <2>3 DEF Tasks
  <2>. QED BY <1>0, <2>3, <2>5, <2>6, <2>7, TypesFrom DEF farVars, dbVars
<1>3. CASE Allocate(p)
  <2>1. task[p].who \in Customers
        BY <1>3, TaskShapes DEF Allocate, Resting
  <2>2. task' \in [Procs -> Tasks]
        BY <1>3, CreateGoesOn, GoesKeepsType DEF Tasks
  <2>3. netbox' \in [IPs -> Customers \cup {None}] /\ muddled' \subseteq Customers
    <3>1. PICK c \in Customers, ip \in IPs \cup {None} : c = task[p].who /\ AllocateIP(c, ip)
          BY <1>3, <2>1, CreateGoesOn
    <3>2. netbox' \in [IPs -> Customers \cup {None}] /\ muddled' \in {muddled, muddled \cup {c}}
      <4>1. AllocateIP(c, ip)
            BY <3>1
      <4>. QED BY <4>1, Leases
    <3>. QED BY <1>0, <3>2
  <2>4. UNCHANGED <<dbVars, arp, ipam, chan, ops, told, disturbed>>
        BY <1>3 DEF Allocate
  <2>. QED BY <1>0, <1>k, <2>2, <2>3, <2>4, TypesFrom DEF dbVars
<1>4. CASE Resave(p)
  <2>1. PICK t \in Creating : t = task[p]
        BY <1>4, TaskShapes DEF Resave
  <2>2. t.who \in Customers /\ t.row \in Rows
        BY DEF Creating
  <2>3. task' \in [Procs -> Tasks]
        BY <1>4, CreateGoesOn, GoesKeepsType DEF Tasks
  <2>4. /\ rows' = [rows EXCEPT ![t.who] = t.row] \/ rows' = rows
        /\ disturbed' \in {disturbed, disturbed \cup {t.who}}
        /\ UNCHANGED <<routers, farVars, chan, ops, told, muddled>>
        BY <1>4, <2>1 DEF Resave
  <2>5. rows' \in [Customers -> Rows \cup {NoRow}] /\ disturbed' \subseteq Customers
        BY <1>0, <2>2, <2>4
  <2>. QED BY <1>0, <1>k, <2>3, <2>4, <2>5, TypesFrom DEF farVars
<1>5. CASE Delete(p)
  <2>1. PICK t \in Deleting : t = task[p]
        BY <1>5, TaskShapes DEF Delete
  <2>2. t.who \in Customers /\ [do |-> "publish", who |-> t.who, row |-> NoRow] \in Tasks
        BY DEF Deleting, Tasks, Publishing
  <2>3. /\ rows' = [rows EXCEPT ![t.who] = NoRow] /\ told' = [told EXCEPT ![t.who] = "gone"]
        /\ disturbed' \in {disturbed, disturbed \cup {t.who}}
        /\ task' = [task EXCEPT ![p] = [do |-> "publish", who |-> t.who, row |-> NoRow]]
        /\ UNCHANGED <<routers, farVars, chan, ops, muddled>>
        BY <1>5, <2>1 DEF Delete
  <2>. QED BY <1>0, <1>k, <2>2, <2>3, TypesFrom DEF farVars
<1>6. CASE Lookup(p)
  <2>1. task[p].do = "sync" /\ UNCHANGED <<dbVars, farVars, chan, ops, told, disturbed>>
        BY <1>6 DEF Lookup
  <2>2. task[p].who \in Customers /\ \E t \in Tasks : Goes(p, t)
        /\ muddled' \in {muddled, muddled \cup {task[p].who}}
        BY <1>6, <2>1, SyncGoesOn DEF Tasks
  <2>3. task' \in [Procs -> Tasks]
        BY <2>2, GoesKeepsType
  <2>. QED BY <1>0, <1>k, <2>1, <2>2, <2>3, TypesFrom DEF farVars, dbVars
<1>7. CASE Claim(p)
  <2>1. task[p].do = "sync" /\ UNCHANGED <<dbVars, arp, ipam, chan, ops, told>>
        BY <1>7 DEF Claim
  <2>2. /\ task[p].who \in Customers /\ \E t \in Tasks : Goes(p, t)
        /\ disturbed' \in {disturbed, disturbed \cup {task[p].who}}
        /\ \E ip \in IPs \cup {None} : AllocateIP(task[p].who, ip)
    <3>1. CASE \E t \in Calling : Goes(p, t) /\ AllocateIP(t.who, t.ip) /\ t.who = task[p].who /\ UNCHANGED disturbed
      <4>1. PICK t \in Calling : Goes(p, t) /\ AllocateIP(t.who, t.ip) /\ t.who = task[p].who /\ UNCHANGED disturbed
            BY <3>1
      <4>2. t.ip \in IPs /\ t.who \in Customers /\ t \in Tasks
            BY DEF Calling, Tasks
      <4>. QED BY <4>1, <4>2
    <3>2. CASE Goes(p, Resting) /\ disturbed' = disturbed \cup {task[p].who} /\ AllocateIP(task[p].who, None)
          BY <2>1, <3>2, SyncGoesOn DEF Tasks
    <3>. QED BY <1>7, <2>1, <3>1, <3>2, SyncGoesOn
  <2>3. netbox' \in [IPs -> Customers \cup {None}] /\ muddled' \subseteq Customers
    <3>1. PICK c \in Customers, ip \in IPs \cup {None} : c = task[p].who /\ AllocateIP(c, ip)
          BY <2>2
    <3>2. netbox' \in [IPs -> Customers \cup {None}] /\ muddled' \in {muddled, muddled \cup {c}}
      <4>1. AllocateIP(c, ip)
            BY <3>1
      <4>. QED BY <4>1, Leases
    <3>. QED BY <1>0, <3>2
  <2>4. task' \in [Procs -> Tasks] /\ disturbed' \subseteq Customers
        BY <1>0, <2>2, GoesKeepsType
  <2>. QED BY <1>0, <1>k, <2>1, <2>3, <2>4, TypesFrom DEF dbVars
<1>8. CASE FindToResolve(p)
  <2>1. task[p].do = "sync" /\ UNCHANGED <<dbVars, farVars, chan, ops, told, muddled>>
        BY <1>8 DEF FindToResolve
  <2>2. /\ task[p].who \in Customers /\ \E t \in Tasks : Goes(p, t)
        /\ disturbed' \in {disturbed, disturbed \cup {task[p].who}}
        BY <1>8, <2>1, SyncGoesOn DEF Tasks
  <2>3. task' \in [Procs -> Tasks] /\ disturbed' \subseteq Customers
        BY <1>0, <2>2, GoesKeepsType
  <2>. QED BY <1>0, <1>k, <2>1, <2>3, TypesFrom DEF farVars, dbVars
<1>9. CASE StoreResolved(p)
  <2>1. PICK t \in Storing : t = task[p]
        BY <1>9, TaskShapes DEF StoreResolved
  <2>2. t.who \in Customers /\ t.row \in Rows
        BY DEF Storing
  <2>3. /\ rows' = [rows EXCEPT ![t.who] = t.row] \/ rows' = rows
        /\ disturbed' \in {disturbed, disturbed \cup {t.who}}
        /\ UNCHANGED <<routers, farVars, chan, ops, told, muddled>> /\ task[p].do = "sync"
        BY <1>9, <2>1 DEF StoreResolved
  <2>4. task' \in [Procs -> Tasks]
        BY <1>9, <2>3, SyncGoesOn, GoesKeepsType DEF Tasks
  <2>5. rows' \in [Customers -> Rows \cup {NoRow}] /\ disturbed' \subseteq Customers
        BY <1>0, <2>2, <2>3
  <2>. QED BY <1>0, <1>k, <2>3, <2>4, <2>5, TypesFrom DEF farVars
<1>10. CASE CallRouter(p)
  <2>1. PICK t \in Calling : t = task[p]
        BY <1>10, TaskShapes DEF CallRouter
  <2>2. t.who \in Customers /\ t.ip \in IPs /\ t.router \in Routers
        BY DEF Calling
  <2>. DEFINE e == IF t.act = "enable" THEN Granted(t.who) ELSE Withdrawn(arp[t.router][t.ip])
  <2>3. e \in [up : BOOLEAN, who : Customers \cup {None}]
    <3>1. PICK f \in [IPs -> [up : BOOLEAN, who : Customers \cup {None}]] : f = arp[t.router]
          BY <1>0, <2>2
    <3>2. PICK x \in [up : BOOLEAN, who : Customers \cup {None}] : x = f[t.ip]
          BY <2>2
    <3>. QED BY <2>2, <3>1, <3>2 DEF Granted, Withdrawn
  <2>4. /\ arp' = arp \/ arp' = [arp EXCEPT ![t.router][t.ip] = e]
        /\ disturbed' \subseteq disturbed \cup Customers
        /\ task' = [task EXCEPT ![p] = Resting]
        /\ UNCHANGED <<dbVars, netbox, ipam, chan, ops, told, muddled>>
        BY <1>0, <1>10, <2>1, <2>2 DEF CallRouter
  <2>5. arp' \in [Routers -> [IPs -> [up : BOOLEAN, who : Customers \cup {None}]]]
    <3>1. PICK f \in [IPs -> [up : BOOLEAN, who : Customers \cup {None}]] : f = arp[t.router]
          BY <1>0, <2>2
    <3>. HIDE DEF e
    <3>2. [f EXCEPT ![t.ip] = e] \in [IPs -> [up : BOOLEAN, who : Customers \cup {None}]]
          BY <2>2, <2>3
    <3>3. arp' = arp \/ arp' = [arp EXCEPT ![t.router] = [f EXCEPT ![t.ip] = e]]
          BY <2>4, <3>1
    <3>. QED BY <1>0, <2>2, <3>2, <3>3
  <2>6. task' \in [Procs -> Tasks]
        BY <1>0, <2>4 DEF Tasks
  <2>. QED BY <1>0, <1>k, <2>4, <2>5, <2>6, TypesFrom DEF dbVars
<1>. QED BY <1>1, <1>2, <1>3, <1>4, <1>5, <1>6, <1>7, <1>8, <1>9, <1>10 DEF Continue

\* and under the worker's taking of an event.
LEMMA HearTyped ==
    ASSUME AccessTypeOK, Hear
    PROVE  AccessTypeOK'
<1>0. /\ rows \in [Customers -> Rows \cup {NoRow}] /\ routers \subseteq Routers
      /\ arp \in [Routers -> [IPs -> [up : BOOLEAN, who : Customers \cup {None}]]]
      /\ netbox \in [IPs -> Customers \cup {None}] /\ task \in [Procs -> Tasks]
      /\ told \in [Customers -> Statuses \cup {"", "gone"}] /\ ops \in 0..MaxOps
      /\ disturbed \subseteq Customers /\ muddled \subseteq Customers
      BY DEF AccessTypeOK
<1>1. \E topic \in Topics :
         /\ Take(topic) /\ UNCHANGED <<dbVars, farVars, ops, told, disturbed>>
         /\ \/ UNCHANGED <<task, muddled>>
            \/ \E act \in Acts : SyncStart(Worker, Head(chan[topic]).who, act)
  <2>1. CASE HearCustomer
    <3>1. "customer" \in Topics /\ "disable" \in Acts /\ "enable" \in Acts
          BY DEF Topics, Acts
    <3>. QED BY <2>1, <3>1 DEF HearCustomer
  <2>2. ASSUME NEW topic \in {"service", "arp"}, HearRequest(topic)
        PROVE  /\ topic \in Topics /\ Take(topic) /\ UNCHANGED <<dbVars, farVars, ops, told, disturbed>>
               /\ Head(chan[topic]).act \in Acts
               /\ SyncStart(Worker, Head(chan[topic]).who, Head(chan[topic]).act)
    <3>1. topic \in Topics /\ Take(topic)
          BY <2>2 DEF Topics, HearRequest
    <3>2. Head(chan[topic]) \in Messages(topic) /\ topic # "customer"
          BY <2>2, <3>1, TailTyped
    <3>3. Head(chan[topic]).act \in Acts
          BY <3>2 DEF Messages
    <3>. QED BY <2>2, <3>1, <3>3 DEF HearRequest
  <2>. QED BY <2>1, <2>2 DEF Hear
<1>2. PICK topic \in Topics :
         /\ Take(topic) /\ UNCHANGED <<dbVars, farVars, ops, told, disturbed>>
         /\ \/ UNCHANGED <<task, muddled>>
            \/ \E act \in Acts : SyncStart(Worker, Head(chan[topic]).who, act)
      BY <1>1
<1>3. ChanOK' /\ Worker \in Procs /\ Head(chan[topic]) \in Messages(topic)
      BY <1>2, TailTyped
<1>4. Head(chan[topic]).who \in Customers
      BY <1>3 DEF Messages
<1>5. task' \in [Procs -> Tasks] /\ muddled' \subseteq Customers
  <2>1. CASE UNCHANGED <<task, muddled>>
        BY <1>0, <2>1
  <2>2. ASSUME NEW act \in Acts, SyncStart(Worker, Head(chan[topic]).who, act)
        PROVE  task' \in [Procs -> Tasks] /\ muddled' \subseteq Customers
    <3>1. PICK c \in Customers : c = Head(chan[topic]).who
          BY <1>4
    <3>2. (\E t \in Tasks : Goes(Worker, t)) /\ muddled' \in {muddled, muddled \cup {c}}
          BY <1>3, <2>2, <3>1, SyncBegins DEF Tasks
    <3>. QED BY <1>0, <1>3, <3>2, GoesKeepsType
  <2>. QED BY <1>2, <2>1, <2>2
<1>. QED BY <1>0, <1>2, <1>3, <1>5, TypesFrom DEF farVars, dbVars

\* The type invariant is inductive.
LEMMA AccessTypesHold ==
    ASSUME AccessTypeOK, [AccessNext]_accessVars
    PROVE  AccessTypeOK'
<1>1. CASE UNCHANGED accessVars
      BY <1>1 DEF AccessTypeOK, accessVars, Messages
<1>. QED BY <1>1, OperateTyped, ContinueTyped, HearTyped DEF AccessNext

\* It holds at first.
LEMMA AccessInitTypes == AccessInit => AccessTypeOK
<1>. SUFFICES ASSUME AccessInit PROVE AccessTypeOK
     OBVIOUS
<1>1. netbox \in [IPs -> Customers \cup {None}] /\ ipam \in BOOLEAN /\ routers = Routers
      BY DEF AccessInit
<1>2. PICK r \in Routers :
         /\ rows = [c \in Customers |->
              IF Leased(c) = {} THEN NoRow
              ELSE [status |-> "active", router |-> r, mac |-> TRUE,
                    ip |-> CHOOSE i \in IPs : netbox[i] = c]]
         /\ arp = [q \in Routers |-> [i \in IPs |->
              IF q = r /\ netbox[i] # None THEN [up |-> TRUE, who |-> netbox[i]]
              ELSE [up |-> FALSE, who |-> None]]]
      BY DEF AccessInit
<1>3. rows \in [Customers -> Rows \cup {NoRow}]
  <2>1. ASSUME NEW c \in Customers, Leased(c) # {} PROVE (CHOOSE i \in IPs : netbox[i] = c) \in IPs
        BY <2>1 DEF Leased
  <2>. QED BY <1>2, <2>1 DEF Rows, Statuses
<1>4. arp \in [Routers -> [IPs -> [up : BOOLEAN, who : Customers \cup {None}]]]
      BY <1>1, <1>2
<1>5. /\ \A t \in Topics : chan[t] = <<>>
      /\ chan \in [Topics -> Seq(Messages("customer") \cup Messages("arp"))]
      BY DEF AccessInit
<1>6. \A t \in Topics : chan[t] \in Seq(Messages(t)) /\ Len(chan[t]) <= Buffer
      BY <1>5, BoundsAssumption
<1>7. task \in [Procs -> Tasks] /\ ops \in 0..MaxOps /\ disturbed = {} /\ muddled = {}
      BY BoundsAssumption DEF AccessInit, Tasks
<1>8. told \in [Customers -> Statuses \cup {"", "gone"}]
  <2>1. \A c \in Customers : rows[c].status \in Statuses \cup {""}
        BY <1>2 DEF NoRow, Statuses
  <2>. QED BY <2>1 DEF AccessInit
<1>. QED BY <1>1, <1>3, <1>4, <1>5, <1>6, <1>7, <1>8 DEF AccessTypeOK

\* Everything has its type in every reachable state (AccessTypeOK): no row,
\* message or task of another shape, no channel over its capacity.
THEOREM AccessTypeCorrect == AccessSpec => []AccessTypeOK
<1>1. AccessInit => AccessTypeOK
      BY AccessInitTypes
<1>2. AccessTypeOK /\ [AccessNext]_accessVars => AccessTypeOK'
      BY AccessTypesHold
<1>. QED BY <1>1, <1>2, PTL DEF AccessSpec

-----------------------------------------------------------------------------
(* Channels: what they say about a customer *)

Mentions(q, c) == \E i \in DOMAIN q : q[i].who = c
Same(r, s) == r.status = s.status /\ r.router = s.router

\* The last event about c says what row says.
LastSays(q, c, row) ==
    \A i \in DOMAIN q :
        q[i].who = c /\ (\A j \in DOMAIN q : j > i => q[j].who # c) => Same(q[i], row)

\* What an event at the end of a channel changes: nothing about other customers.
LEMMA AppendFacts ==
    ASSUME NEW S, NEW q \in Seq(S), NEW e \in S, NEW c, NEW row
    PROVE  /\ e.who # c => /\ Mentions(Append(q, e), c) <=> Mentions(q, c)
                           /\ LastSays(Append(q, e), c, row) <=> LastSays(q, c, row)
           /\ Mentions(Append(q, e), e.who)
           /\ e.who = c /\ Same(e, row) => LastSays(Append(q, e), c, row)
<1>. DEFINE a == Append(q, e)
            n == Len(q)
<1>1. /\ n \in Nat /\ DOMAIN q = 1..n /\ DOMAIN a = 1..(n + 1)
      /\ a[n + 1] = e /\ \A i \in 1..n : a[i] = q[i]
      OBVIOUS
<1>. HIDE DEF a, n
<1>2. e.who # c => (Mentions(a, c) <=> Mentions(q, c))
  <2>1. Mentions(q, c) => Mentions(a, c)
        BY <1>1 DEF Mentions
  <2>2. ASSUME e.who # c, NEW i \in DOMAIN a, a[i].who = c PROVE i \in DOMAIN q /\ q[i].who = c
    <3>1. i # n + 1
          BY <1>1, <2>2
    <3>. QED BY <1>1, <2>2, <3>1
  <2>. QED BY <2>1, <2>2 DEF Mentions
<1>3. ASSUME e.who # c PROVE LastSays(a, c, row) <=> LastSays(q, c, row)
  <2>1. ASSUME LastSays(a, c, row), NEW i \in DOMAIN q, q[i].who = c, \A j \in DOMAIN q : j > i => q[j].who # c
        PROVE  Same(q[i], row)
    <3>1. i \in DOMAIN a /\ a[i] = q[i]
          BY <1>1, <2>1
    <3>2. \A j \in DOMAIN a : j > i => a[j].who # c
      <4>1. SUFFICES ASSUME NEW j \in DOMAIN a, j > i PROVE a[j].who # c
            OBVIOUS
      <4>2. CASE j = n + 1
            BY <1>1, <1>3, <4>2
      <4>3. CASE j \in 1..n
            BY <1>1, <2>1, <4>1, <4>3
      <4>. QED BY <1>1, <4>2, <4>3
    <3>. QED BY <2>1, <3>1, <3>2 DEF LastSays
  <2>2. ASSUME LastSays(q, c, row), NEW i \in DOMAIN a, a[i].who = c, \A j \in DOMAIN a : j > i => a[j].who # c
        PROVE  Same(a[i], row)
    <3>1. i \in 1..n
          BY <1>1, <1>3, <2>2
    <3>2. \A j \in DOMAIN q : j > i => q[j].who # c
          BY <1>1, <2>2
    <3>. QED BY <1>1, <2>2, <3>1, <3>2 DEF LastSays
  <2>. QED BY <2>1, <2>2 DEF LastSays
<1>4. ASSUME e.who = c, Same(e, row) PROVE LastSays(a, c, row)
  <2>1. SUFFICES ASSUME NEW i \in DOMAIN a, a[i].who = c, \A j \in DOMAIN a : j > i => a[j].who # c
                 PROVE  Same(a[i], row)
        BY DEF LastSays
  <2>2. i = n + 1
    <3>1. n + 1 \in DOMAIN a /\ a[n + 1].who = c
          BY <1>1, <1>4
    <3>2. ~(n + 1 > i)
          BY <2>1, <3>1
    <3>. QED BY <1>1, <3>2
  <2>. QED BY <1>1, <1>4, <2>2
<1>5. Mentions(a, e.who)
  <2>1. n + 1 \in DOMAIN a
        BY <1>1
  <2>. QED BY <1>1, <2>1 DEF Mentions
<1>. QED BY <1>2, <1>3, <1>4, <1>5 DEF a

\* What taking the first event changes: the last one about a customer stays the last.
LEMMA TailFacts ==
    ASSUME NEW S, NEW q \in Seq(S), q # <<>>, NEW c, NEW row
    PROVE  /\ Mentions(Tail(q), c) => Mentions(q, c)
           /\ LastSays(q, c, row) => LastSays(Tail(q), c, row)
           /\ Head(q).who # c => /\ Mentions(Tail(q), c) <=> Mentions(q, c)
                                 /\ LastSays(q, c, row) <=> LastSays(Tail(q), c, row)
           /\ Mentions(q, Head(q).who)
           /\ Head(q).who = c /\ LastSays(q, c, row) /\ ~Mentions(Tail(q), c) => Same(Head(q), row)
<1>. DEFINE a == Tail(q)
            n == Len(q)
<1>1. /\ n \in Nat \ {0} /\ DOMAIN q = 1..n /\ DOMAIN a = 1..(n - 1)
      /\ q[1] = Head(q) /\ \A i \in 1..(n - 1) : a[i] = q[i + 1]
      OBVIOUS
<1>. HIDE DEF a, n
<1>a. \A i \in DOMAIN a : i \in Nat \ {0} /\ i + 1 \in DOMAIN q /\ a[i] = q[i + 1]
      BY <1>1
<1>b. \A i \in DOMAIN q : i \in Nat /\ (i = 1 \/ (i - 1 \in DOMAIN a /\ a[i - 1] = q[i]))
  <2>1. SUFFICES ASSUME NEW i \in 1..n, i # 1 PROVE i - 1 \in 1..(n - 1) /\ a[i - 1] = q[i]
        BY <1>1
  <2>2. i - 1 \in 1..(n - 1) /\ (i - 1) + 1 = i
        BY <1>1, <2>1
  <2>3. a[i - 1] = q[(i - 1) + 1]
        BY <1>1, <2>2
  <2>. QED BY <2>2, <2>3
<1>2. Mentions(a, c) => Mentions(q, c)
      BY <1>a DEF Mentions
<1>3. ASSUME LastSays(q, c, row) PROVE LastSays(a, c, row)
  <2>1. SUFFICES ASSUME NEW i \in DOMAIN a, a[i].who = c, \A j \in DOMAIN a : j > i => a[j].who # c
                 PROVE  Same(a[i], row)
        BY DEF LastSays
  <2>2. i + 1 \in DOMAIN q /\ q[i + 1].who = c /\ a[i] = q[i + 1]
        BY <1>a, <2>1
  <2>3. ASSUME NEW j \in DOMAIN q, j > i + 1 PROVE q[j].who # c
    <3>1. j # 1 /\ j - 1 > i
          BY <1>a, <1>b, <2>3
    <3>. QED BY <1>b, <2>1, <3>1
  <2>. QED BY <1>3, <2>2, <2>3 DEF LastSays
<1>4. ASSUME Head(q).who # c, Mentions(q, c) PROVE Mentions(a, c)
      BY <1>1, <1>b, <1>4 DEF Mentions
<1>5. ASSUME Head(q).who # c, LastSays(a, c, row) PROVE LastSays(q, c, row)
  <2>1. SUFFICES ASSUME NEW i \in DOMAIN q, q[i].who = c, \A j \in DOMAIN q : j > i => q[j].who # c
                 PROVE  Same(q[i], row)
        BY DEF LastSays
  <2>2. i - 1 \in DOMAIN a /\ a[i - 1] = q[i] /\ i \in Nat
        BY <1>1, <1>b, <1>5, <2>1
  <2>3. ASSUME NEW j \in DOMAIN a, j > i - 1 PROVE a[j].who # c
    <3>1. j + 1 > i
          BY <1>a, <2>2, <2>3
    <3>. QED BY <1>a, <2>1, <3>1
  <2>. QED BY <1>5, <2>1, <2>2, <2>3 DEF LastSays
<1>6. Mentions(q, Head(q).who)
      BY <1>1 DEF Mentions
<1>7. ASSUME Head(q).who = c, LastSays(q, c, row), ~Mentions(a, c) PROVE Same(Head(q), row)
  <2>1. 1 \in DOMAIN q /\ q[1].who = c
        BY <1>1, <1>7
  <2>2. ASSUME NEW j \in DOMAIN q, j > 1 PROVE q[j].who # c
        BY <1>b, <1>7, <2>2 DEF Mentions
  <2>. QED BY <1>1, <1>7, <2>1, <2>2 DEF LastSays
<1>. QED BY <1>2, <1>3, <1>4, <1>5, <1>6, <1>7 DEF a

-----------------------------------------------------------------------------
(* Steps about other customers *)

\* p is at work for c.
Touches(p, c) == task[p] # Resting /\ task[p].who = c

\* The step adds to a channel, or takes off it, nothing about c.
Passes(t, c) ==
    \/ chan'[t] = chan[t]
    \/ \E e \in Messages(t) : e.who # c /\ chan'[t] = Append(chan[t], e)
    \/ chan[t] # <<>> /\ Head(chan[t]).who # c /\ chan'[t] = Tail(chan[t])

\* The step leaves alone the entries that let c in, or c is disturbed by it.
EntryStays(c) ==
    c \notin disturbed' /\ Settled(c) /\ rows[c].ip # None =>
        \A r \in Routers : arp'[r][rows[c].ip] = arp[r][rows[c].ip]

\* What a step about another customer means for c.
Spared(c) ==
    /\ rows'[c] = rows[c] /\ told'[c] = told[c] /\ Leased(c)' = Leased(c)
    /\ \A q \in Procs : task'[q] = task[q] \/ (~Touches(q, c) /\ ~Touches(q, c)')
    /\ \A t \in Topics : Passes(t, c)
    /\ c \in disturbed => c \in disturbed'
    /\ c \in muddled' <=> c \in muddled
    /\ EntryStays(c)

\* A goroutine that has nothing to do with c, before and after, spares c's tasks.
LEMMA GoesSpares ==
    ASSUME AccessTypeOK, NEW p \in Procs, NEW c \in Customers, NEW t \in Tasks, Goes(p, t),
           ~Touches(p, c), t = Resting \/ t.who # c
    PROVE  \A q \in Procs : task'[q] = task[q] \/ (~Touches(q, c) /\ ~Touches(q, c)')
BY GoesKeepsType DEF Touches

\* A fresh start is one only for a customer about whom everything is done.
LEMMA FreshStartIs ==
    ASSUME NEW c, NEW command, FreshStart(c, command)
    PROVE  \/ disturbed' = disturbed
           \/ /\ disturbed' = disturbed \ {c} /\ Settled(c)
              /\ command # "update" \/ rows[c].status = told[c]
BY DEF FreshStart

\* The first step of a request about d spares everyone else;
LEMMA OperateSpares ==
    ASSUME AccessTypeOK, NEW p \in Requests, NEW d \in Customers, NEW c \in Customers \ {d},
           \/ Create(p, d) \/ Find(p, d) \/ FindToDelete(p, d) \/ ServiceChanges(p, d)
           \/ RequestARP(p, d) \/ SyncDirectly(p, d)
    PROVE  Spared(c)
<1>. p \in Procs
     BY DEF Procs
<1>0. /\ rows \in [Customers -> Rows \cup {NoRow}] /\ told \in [Customers -> Statuses \cup {"", "gone"}]
      /\ task \in [Procs -> Tasks] /\ disturbed \subseteq Customers
      BY DEF AccessTypeOK
<1>1. task[p] = Resting /\ UNCHANGED farVars
      BY DEF Create, Find, FindToDelete, ServiceChanges, RequestARP, SyncDirectly, Begin
<1>2. Leased(c)' = Leased(c) /\ EntryStays(c)
      BY <1>1 DEF farVars, Leased, EntryStays
<1>3. (UNCHANGED chan) => \A t \in Topics : Passes(t, c)
      BY DEF Passes
<1>4. (UNCHANGED task) => \A q \in Procs : task'[q] = task[q]
      OBVIOUS
<1>5. ASSUME NEW t \in Tasks, Goes(p, t), t = Resting \/ t.who = d
      PROVE  \A q \in Procs : task'[q] = task[q] \/ (~Touches(q, c) /\ ~Touches(q, c)')
  <2>1. ~Touches(p, c) /\ (t = Resting \/ t.who # c)
        BY <1>1, <1>5 DEF Touches
  <2>. QED BY <1>5, <2>1, GoesSpares
<1>6. CASE Create(p, d)
  <2>1. /\ rows' = [rows EXCEPT ![d] = NewCustomer]
        /\ \E t \in Creating \cup Publishing : Goes(p, t) /\ t.who = d
        BY <1>6, CreateGoesOn
  <2>2. told' = [told EXCEPT ![d] = "active"] /\ UNCHANGED <<chan, muddled>> /\ FreshStart(d, "status")
        BY <1>6 DEF Create
  <2>3. \A q \in Procs : task'[q] = task[q] \/ (~Touches(q, c) /\ ~Touches(q, c)')
        BY <1>5, <2>1 DEF Tasks
  <2>4. rows'[c] = rows[c] /\ told'[c] = told[c] /\ (c \in disturbed => c \in disturbed')
        BY <1>0, <2>1, <2>2, FreshStartIs
  <2>. QED BY <1>2, <1>3, <2>2, <2>3, <2>4 DEF Spared
<1>7. CASE Find(p, d)
  <2>1. PICK t \in Saving : Goes(p, t) /\ t.who = d /\ FreshStart(d, t.by)
        BY <1>7, FindMakes
  <2>2. UNCHANGED <<dbVars, chan, told, muddled>>
        BY <1>7 DEF Find
  <2>3. \A q \in Procs : task'[q] = task[q] \/ (~Touches(q, c) /\ ~Touches(q, c)')
        BY <1>5, <2>1 DEF Tasks
  <2>4. c \in disturbed => c \in disturbed'
        BY <2>1, FreshStartIs
  <2>. QED BY <1>2, <1>3, <2>2, <2>3, <2>4 DEF Spared, dbVars
<1>8. CASE FindToDelete(p, d)
  <2>. DEFINE t == [do |-> "delete", who |-> d]
  <2>1. t \in Tasks /\ t.who = d /\ Goes(p, t)
        BY <1>8 DEF FindToDelete, Tasks, Deleting, Goes
  <2>2. UNCHANGED <<dbVars, chan, told, muddled>> /\ FreshStart(d, "status")
        BY <1>8 DEF FindToDelete
  <2>3. \A q \in Procs : task'[q] = task[q] \/ (~Touches(q, c) /\ ~Touches(q, c)')
    <3>. HIDE DEF t
    <3>. QED BY <1>5, <2>1
  <2>4. c \in disturbed => c \in disturbed'
        BY <2>2, FreshStartIs
  <2>. QED BY <1>2, <1>3, <2>2, <2>3, <2>4 DEF Spared, dbVars
<1>9. CASE ServiceChanges(p, d) \/ RequestARP(p, d)
  <2>1. PICK topic \in {"service", "arp"}, act \in Acts :
           LET event == [who |-> d, act |-> act] IN
           chan' = [chan EXCEPT ![topic] = IF Len(@) < Buffer THEN Append(@, event) ELSE @]
        BY <1>9 DEF ServiceChanges, RequestARP
  <2>2. PICK e \in Messages(topic) : e = [who |-> d, act |-> act]
        BY DEF Messages
  <2>3. e.who = d /\ topic \in Topics
        BY <2>2 DEF Topics
  <2>4. chan' = [t \in Topics |->
          IF t = topic THEN IF Len(chan[t]) < Buffer THEN Append(chan[t], e) ELSE chan[t]
          ELSE chan[t]]
        BY <2>1, <2>2, ChanIs
  <2>5. \A t \in Topics : Passes(t, c)
        BY <2>3, <2>4 DEF Passes
  <2>6. UNCHANGED <<dbVars, task, told, muddled>> /\ disturbed' = disturbed \cup {d}
        BY <1>9 DEF ServiceChanges, RequestARP
  <2>. QED BY <1>2, <1>4, <2>5, <2>6 DEF Spared, dbVars
<1>10. CASE SyncDirectly(p, d)
  <2>1. PICK act \in Acts : SyncStart(p, d, act)
        BY <1>10 DEF SyncDirectly
  <2>2. /\ \E t \in Tasks : Goes(p, t) /\ (t = Resting \/ t.who = d)
        /\ muddled' \in {muddled, muddled \cup {d}}
        BY <2>1, SyncBegins DEF Tasks
  <2>3. UNCHANGED <<dbVars, chan, told>> /\ disturbed' = disturbed \cup {d}
        BY <1>10 DEF SyncDirectly
  <2>. QED BY <1>2, <1>3, <1>5, <2>2, <2>3 DEF Spared, dbVars
<1>. QED BY <1>6, <1>7, <1>8, <1>9, <1>10

\* deleting a router spares everyone, for it touches no row;
LEMMA DeleteRouterSpares ==
    ASSUME NEW p \in Requests, NEW r \in Routers, DeleteRouter(p, r), NEW c \in Customers
    PROVE  Spared(c)
BY DEF DeleteRouter, Spared, farVars, pastVars, Leased, EntryStays, Passes

\* hearing an event spares all but its customer;
LEMMA HearSpares ==
    ASSUME AccessTypeOK, NEW topic \in Topics, Take(topic),
           UNCHANGED <<dbVars, farVars, ops, told, disturbed>>,
           \/ UNCHANGED <<task, muddled>>
           \/ \E act \in Acts : SyncStart(Worker, Head(chan[topic]).who, act),
           NEW c \in Customers \ {Head(chan[topic]).who}
    PROVE  Spared(c)
<1>1. /\ chan'[topic] = Tail(chan[topic]) /\ \A t \in Topics \ {topic} : chan'[t] = chan[t]
      /\ chan[topic] # <<>> /\ Worker \in Procs /\ task[Worker] = Resting
      /\ Head(chan[topic]) \in Messages(topic)
      BY TailTyped
<1>2. PICK d \in Customers : d = Head(chan[topic]).who
      BY <1>1 DEF Messages
<1>3. \A t \in Topics : Passes(t, c)
      BY <1>1 DEF Passes
<1>4. rows'[c] = rows[c] /\ told'[c] = told[c] /\ Leased(c)' = Leased(c) /\ disturbed' = disturbed /\ EntryStays(c)
      BY DEF farVars, dbVars, Leased, EntryStays
<1>5. /\ \A q \in Procs : task'[q] = task[q] \/ (~Touches(q, c) /\ ~Touches(q, c)')
      /\ c \in muddled' <=> c \in muddled
  <2>1. CASE UNCHANGED <<task, muddled>>
        BY <2>1
  <2>2. CASE \E act \in Acts : SyncStart(Worker, d, act)
    <3>1. /\ \E t \in Tasks : Goes(Worker, t) /\ (t = Resting \/ t.who = d)
          /\ muddled' \in {muddled, muddled \cup {d}}
          BY <1>1, <2>2, SyncBegins DEF Tasks
    <3>2. ~Touches(Worker, c)
          BY <1>1 DEF Touches
    <3>. QED BY <1>1, <1>2, <3>1, <3>2, GoesSpares
  <2>. QED BY <1>2, <2>1, <2>2
<1>. QED BY <1>3, <1>4, <1>5 DEF Spared

\* The event a command ends with.
LEMMA AboutIs ==
    ASSUME NEW t \in Publishing
    PROVE  /\ About(t.who, t.row) \in Messages("customer")
           /\ About(t.who, t.row).who = t.who /\ Same(About(t.who, t.row), t.row)
           /\ t.who \in Customers /\ "customer" \in Topics
<1>1. t.who \in Customers /\ t.row \in Rows \cup {NoRow}
      BY DEF Publishing
<1>2. PICK r \in Rows \cup {NoRow} : r = t.row
      BY <1>1
<1>3. r.status \in Statuses \cup {""} /\ r.router \in Routers \cup {None}
  <2>1. CASE r \in Rows
        BY <2>1 DEF Rows
  <2>2. CASE r = NoRow
        BY <2>2 DEF NoRow
  <2>. QED BY <2>1, <2>2
<1>. QED BY <1>1, <1>2, <1>3 DEF Messages, About, Topics, Same

\* A call changes one entry, and the access of nobody settled on another
\* address.
LEMMA CallIs ==
    ASSUME AccessTypeOK, NEW p \in Procs, CallRouter(p)
    PROVE  /\ task[p] \in Calling /\ Goes(p, Resting)
           /\ UNCHANGED <<dbVars, netbox, ipam, chan, ops, told, muddled>>
           /\ disturbed \subseteq disturbed'
           /\ \A c \in Customers \ {task[p].who} : EntryStays(c)
           /\ task[p].who \notin disturbed' =>
                \/ task[p].act = "enable" /\ ~task[p].mac /\ UNCHANGED arp
                \/ /\ task[p].act = "enable" => task[p].mac
                   /\ arp'[task[p].router][task[p].ip] =
                        IF task[p].act = "enable" THEN Granted(task[p].who)
                        ELSE Withdrawn(arp[task[p].router][task[p].ip])
<1>1. PICK t \in Calling : t = task[p]
      BY TaskShapes DEF CallRouter
<1>2. t.who \in Customers /\ t.ip \in IPs /\ t.router \in Routers
      BY DEF Calling
<1>. DEFINE e == IF t.act = "enable" THEN Granted(t.who) ELSE Withdrawn(arp[t.router][t.ip])
            others == {d \in Customers \ {t.who} : rows[d].ip = t.ip /\ Settled(d)}
            done == [arp EXCEPT ![t.router][t.ip] = e]
<1>3. PICK f \in [IPs -> [up : BOOLEAN, who : Customers \cup {None}]] : f = arp[t.router]
      BY <1>2 DEF AccessTypeOK
<1>4. /\ done = [arp EXCEPT ![t.router] = [f EXCEPT ![t.ip] = e]]
      /\ arp \in [Routers -> [IPs -> [up : BOOLEAN, who : Customers \cup {None}]]]
      BY <1>3 DEF AccessTypeOK
<1>5. /\ done[t.router][t.ip] = e
      /\ \A r \in Routers, i \in IPs : i # t.ip => done[r][i] = arp[r][i]
  <2>. HIDE DEF e
  <2>1. done[t.router] = [f EXCEPT ![t.ip] = e] /\ \A r \in Routers : r # t.router => done[r] = arp[r]
        BY <1>2, <1>4
  <2>2. done[t.router][t.ip] = e /\ \A i \in IPs : i # t.ip => done[t.router][i] = arp[t.router][i]
        BY <1>2, <1>3, <2>1
  <2>. QED BY <2>1, <2>2
<1>6. /\ \/ UNCHANGED arp /\ disturbed' = disturbed \cup {t.who}
         \/ t.act = "enable" /\ ~t.mac /\ UNCHANGED <<arp, disturbed>>
         \/ (t.act = "enable" => t.mac) /\ arp' = done /\ disturbed' = disturbed \cup others
         \/ arp' \in {arp, done} /\ disturbed' = disturbed \cup others \cup {t.who}
      /\ task' = [task EXCEPT ![p] = Resting]
      /\ UNCHANGED <<dbVars, netbox, ipam, chan, ops, told, muddled>>
      BY <1>1 DEF CallRouter
<1>7. disturbed \subseteq disturbed' /\ (arp' = arp \/ (arp' = done /\ others \subseteq disturbed'))
  <2>. HIDE DEF others, done
  <2>. QED BY <1>6
<1>8. ASSUME NEW c \in Customers \ {t.who} PROVE EntryStays(c)
  <2>1. SUFFICES ASSUME c \notin disturbed', Settled(c), rows[c].ip # None, NEW r \in Routers
                 PROVE  arp'[r][rows[c].ip] = arp[r][rows[c].ip]
        BY DEF EntryStays
  <2>2. PICK i \in IPs : i = rows[c].ip
        BY <2>1, RowShapes
  <2>3. CASE arp' = done /\ others \subseteq disturbed'
    <3>1. c \notin others
          BY <2>1, <2>3
    <3>2. i # t.ip
          BY <2>1, <2>2, <3>1
    <3>. HIDE DEF done
    <3>. QED BY <1>5, <2>2, <2>3, <3>2
  <2>4. CASE arp' = arp
        BY <2>2, <2>4
  <2>. HIDE DEF done
  <2>. QED BY <1>7, <2>3, <2>4
<1>9. ASSUME t.who \notin disturbed'
      PROVE  \/ t.act = "enable" /\ ~t.mac /\ UNCHANGED arp
             \/ (t.act = "enable" => t.mac) /\ arp'[t.router][t.ip] = e
  <2>. HIDE DEF done, e, others
  <2>. QED BY <1>5, <1>6, <1>9
<1>. HIDE DEF others, done
<1>. QED BY <1>1, <1>6, <1>7, <1>8, <1>9 DEF Goes

\* and going on spares all but the customer the goroutine is about.
LEMMA ContinueSpares ==
    ASSUME AccessTypeOK, NEW p \in Procs, Continue(p), NEW c \in Customers \ {task[p].who}
    PROVE  Spared(c)
<1>0. /\ rows \in [Customers -> Rows \cup {NoRow}] /\ told \in [Customers -> Statuses \cup {"", "gone"}]
      /\ task \in [Procs -> Tasks]
      BY DEF AccessTypeOK
<1>1. task[p] # Resting /\ task[p].who \in Customers
  <2>1. task[p].do # "idle"
        BY DEF Continue, Save, Publish, Allocate, Resave, Delete, Lookup, Claim, FindToResolve,
               StoreResolved, CallRouter
  <2>. QED BY <2>1, TaskShapes DEF Resting
<1>2. PICK d \in Customers : d = task[p].who
      BY <1>1
<1>3. (UNCHANGED chan) => \A t \in Topics : Passes(t, c)
      BY DEF Passes
<1>4. (UNCHANGED netbox) => Leased(c)' = Leased(c)
      BY DEF Leased
<1>5. (UNCHANGED arp) => EntryStays(c)
      BY DEF EntryStays
<1>6. ASSUME NEW t \in Tasks, Goes(p, t), t = Resting \/ t.who = d
      PROVE  \A q \in Procs : task'[q] = task[q] \/ (~Touches(q, c) /\ ~Touches(q, c)')
  <2>1. ~Touches(p, c) /\ (t = Resting \/ t.who # c)
        BY <1>2, <1>6 DEF Touches
  <2>. QED BY <1>6, <2>1, GoesSpares
<1>7. CASE Save(p)
  <2>1. PICK t \in Saving : t = task[p]
        BY <1>7, TaskShapes DEF Save
  <2>2. t.who = d /\ t.row \in Rows
        BY <1>2, <2>1 DEF Saving
  <2>3. \E u \in {Resting, [do |-> "publish", who |-> d, row |-> t.row]} : Goes(p, u)
        BY <1>7, <2>1, <2>2 DEF Save, Goes
  <2>4. \A u \in {Resting, [do |-> "publish", who |-> d, row |-> t.row]} : u \in Tasks /\ (u = Resting \/ u.who = d)
        BY <2>2 DEF Tasks, Publishing
  <2>5. /\ rows' = rows \/ rows' = [rows EXCEPT ![d] = t.row]
        /\ told' = told \/ told' = [told EXCEPT ![d] = t.row.status]
        /\ disturbed' \in {disturbed, disturbed \cup {d}}
        /\ UNCHANGED <<farVars, chan, muddled>>
        BY <1>0, <1>7, <2>1, <2>2 DEF Save
  <2>6. rows'[c] = rows[c] /\ told'[c] = told[c] /\ (c \in disturbed => c \in disturbed')
        BY <1>0, <1>2, <2>5
  <2>. QED BY <1>3, <1>4, <1>5, <1>6, <2>3, <2>4, <2>5, <2>6 DEF Spared, farVars
<1>8. CASE Publish(p)
  <2>1. PICK t \in Publishing : t = task[p]
        BY <1>8, TaskShapes DEF Publish
  <2>2. PICK e \in Messages("customer") : e = About(t.who, t.row) /\ e.who = d
        BY <1>2, <2>1, AboutIs
  <2>3. "customer" \in Topics /\ Send("customer", e) /\ Goes(p, Resting)
        /\ UNCHANGED <<dbVars, farVars, told, muddled>>
        BY <1>8, <2>1, <2>2 DEF Publish, Topics, Goes
  <2>4. /\ chan' = [chan EXCEPT !["customer"] = IF Len(@) < Buffer THEN Append(@, e) ELSE @]
        /\ disturbed' \in {disturbed, disturbed \cup {d}}
        BY <2>2, <2>3, SendMeans
  <2>5. chan' = [t2 \in Topics |->
          IF t2 = "customer" THEN IF Len(chan[t2]) < Buffer THEN Append(chan[t2], e) ELSE chan[t2]
          ELSE chan[t2]]
        BY <2>4, ChanIs
  <2>6. \A t2 \in Topics : Passes(t2, c)
        BY <1>2, <2>2, <2>5 DEF Passes
  <2>7. Resting \in Tasks
        BY DEF Tasks
  <2>. QED BY <1>4, <1>5, <1>6, <2>3, <2>4, <2>6, <2>7 DEF Spared, farVars, dbVars
<1>9. CASE Allocate(p)
  <2>1. PICK ip \in IPs \cup {None} : AllocateIP(d, ip)
        BY <1>2, <1>9, CreateGoesOn
  <2>2. PICK t \in Creating \cup Publishing : Goes(p, t) /\ t.who = d
        BY <1>2, <1>9, CreateGoesOn
  <2>3. t \in Tasks
        BY DEF Tasks
  <2>4. UNCHANGED <<dbVars, arp, chan, told, disturbed>>
        BY <1>9 DEF Allocate
  <2>5. Leased(c)' = Leased(c) /\ (c \in muddled' <=> c \in muddled)
        BY <1>2, <2>1, Leases
  <2>. QED BY <1>3, <1>5, <1>6, <2>2, <2>3, <2>4, <2>5 DEF Spared, dbVars
<1>10. CASE Resave(p)
  <2>1. PICK t \in Publishing : Goes(p, t) /\ t.who = d
        BY <1>2, <1>10, CreateGoesOn
  <2>2. t \in Tasks
        BY DEF Tasks
  <2>3. /\ rows' = [rows EXCEPT ![d] = task[p].row] \/ rows' = rows
        /\ disturbed' \in {disturbed, disturbed \cup {d}}
        /\ UNCHANGED <<farVars, chan, told, muddled>>
        BY <1>2, <1>10 DEF Resave
  <2>4. rows'[c] = rows[c] /\ (c \in disturbed => c \in disturbed')
        BY <1>0, <1>2, <2>3
  <2>. QED BY <1>3, <1>4, <1>5, <1>6, <2>1, <2>2, <2>3, <2>4 DEF Spared, farVars
<1>11. CASE Delete(p)
  <2>1. [do |-> "publish", who |-> d, row |-> NoRow] \in Tasks
        BY DEF Tasks, Publishing
  <2>2. /\ Goes(p, [do |-> "publish", who |-> d, row |-> NoRow])
        /\ rows' = [rows EXCEPT ![d] = NoRow] /\ told' = [told EXCEPT ![d] = "gone"]
        /\ disturbed' \in {disturbed, disturbed \cup {d}}
        /\ UNCHANGED <<farVars, chan, muddled>>
        BY <1>2, <1>11 DEF Delete, Goes
  <2>3. rows'[c] = rows[c] /\ told'[c] = told[c] /\ (c \in disturbed => c \in disturbed')
        BY <1>0, <1>2, <2>2
  <2>. QED BY <1>3, <1>4, <1>5, <1>6, <2>1, <2>2, <2>3 DEF Spared, farVars
<1>12. CASE Lookup(p)
  <2>1. task[p].do = "sync" /\ UNCHANGED <<dbVars, farVars, chan, told, disturbed>>
        BY <1>12 DEF Lookup
  <2>2. /\ \E t \in Tasks : Goes(p, t) /\ t.who = d
        /\ muddled' \in {muddled, muddled \cup {d}}
        BY <1>2, <1>12, <2>1, SyncGoesOn DEF Tasks
  <2>3. c \in muddled' <=> c \in muddled
        BY <1>2, <2>2
  <2>. QED BY <1>3, <1>4, <1>5, <1>6, <2>1, <2>2, <2>3 DEF Spared, farVars, dbVars
<1>13. CASE Claim(p)
  <2>1. task[p].do = "sync" /\ UNCHANGED <<dbVars, arp, chan, told>>
        BY <1>13 DEF Claim
  <2>2. /\ \E t \in Tasks : Goes(p, t) /\ (t = Resting \/ t.who = d)
        /\ disturbed' \in {disturbed, disturbed \cup {d}}
        /\ \E ip \in IPs \cup {None} : AllocateIP(d, ip)
    <3>1. CASE Goes(p, Resting) /\ disturbed' = disturbed \cup {d} /\ AllocateIP(d, None)
          BY <3>1 DEF Tasks
    <3>2. ASSUME NEW t \in Calling, Goes(p, t), AllocateIP(t.who, t.ip), t.who = d, UNCHANGED disturbed
          PROVE  t \in Tasks /\ t.ip \in IPs
          BY DEF Tasks, Calling
    <3>3. CASE \E t \in Calling : Goes(p, t) /\ AllocateIP(t.who, t.ip) /\ t.who = d /\ UNCHANGED disturbed
      <4>1. PICK t \in Calling : Goes(p, t) /\ AllocateIP(t.who, t.ip) /\ t.who = d /\ UNCHANGED disturbed
            BY <3>3
      <4>. QED BY <4>1, <3>2
    <3>. QED BY <1>2, <1>13, <2>1, <3>1, <3>3, SyncGoesOn
  <2>3. PICK ip \in IPs \cup {None} : AllocateIP(d, ip)
        BY <2>2
  <2>4. Leased(c)' = Leased(c) /\ (c \in muddled' <=> c \in muddled)
        BY <1>2, <2>3, Leases
  <2>5. c \in disturbed => c \in disturbed'
        BY <2>2
  <2>. QED BY <1>3, <1>5, <1>6, <2>1, <2>2, <2>4, <2>5 DEF Spared, dbVars
<1>14. CASE FindToResolve(p)
  <2>1. task[p].do = "sync" /\ UNCHANGED <<dbVars, farVars, chan, told, muddled>>
        BY <1>14 DEF FindToResolve
  <2>2. /\ \E t \in Tasks : Goes(p, t) /\ t.who = d
        /\ disturbed' \in {disturbed, disturbed \cup {d}}
        BY <1>2, <1>14, <2>1, SyncGoesOn DEF Tasks
  <2>3. c \in disturbed => c \in disturbed'
        BY <2>2
  <2>. QED BY <1>3, <1>4, <1>5, <1>6, <2>1, <2>2, <2>3 DEF Spared, farVars, dbVars
<1>15. CASE StoreResolved(p)
  <2>1. /\ task[p].do = "sync" /\ UNCHANGED <<farVars, chan, told, muddled>>
        /\ rows' = [rows EXCEPT ![d] = task[p].row] \/ rows' = rows
        /\ disturbed' \in {disturbed, disturbed \cup {d}}
        BY <1>2, <1>15 DEF StoreResolved
  <2>2. \E t \in Tasks : Goes(p, t) /\ t.who = d
        BY <1>2, <1>15, <2>1, SyncGoesOn DEF Tasks
  <2>3. rows'[c] = rows[c] /\ (c \in disturbed => c \in disturbed')
        BY <1>0, <1>2, <2>1
  <2>. QED BY <1>3, <1>4, <1>5, <1>6, <2>1, <2>2, <2>3 DEF Spared, farVars
<1>16. CASE CallRouter(p)
  <2>1. /\ Goes(p, Resting) /\ UNCHANGED <<dbVars, netbox, ipam, chan, ops, told, muddled>>
        /\ disturbed \subseteq disturbed' /\ EntryStays(c)
        BY <1>16, CallIs
  <2>2. Resting \in Tasks
        BY DEF Tasks
  <2>. QED BY <1>3, <1>4, <1>6, <2>1, <2>2 DEF Spared, dbVars
<1>. QED BY <1>7, <1>8, <1>9, <1>10, <1>11, <1>12, <1>13, <1>14, <1>15, <1>16 DEF Continue

\* Whatever happens is about c, or spares it.
LEMMA WhoseStep ==
    ASSUME AccessTypeOK, AccessNext, NEW c \in Customers
    PROVE  \/ Spared(c)
           \/ \E p \in Requests :
                 \/ Create(p, c) \/ Find(p, c) \/ FindToDelete(p, c) \/ ServiceChanges(p, c)
                 \/ RequestARP(p, c) \/ SyncDirectly(p, c)
           \/ \E p \in Procs : Continue(p) /\ Touches(p, c)
           \/ HearCustomer /\ Head(chan["customer"]).who = c
           \/ \E t \in {"service", "arp"} : HearRequest(t) /\ Head(chan[t]).who = c
<1>1. ASSUME NEW p \in Requests, Operate(p), ~Spared(c)
      PROVE  \/ Create(p, c) \/ Find(p, c) \/ FindToDelete(p, c) \/ ServiceChanges(p, c)
             \/ RequestARP(p, c) \/ SyncDirectly(p, c)
  <2>1. \A r \in Routers : ~DeleteRouter(p, r)
        BY <1>1, DeleteRouterSpares
  <2>2. PICK d \in Customers :
           \/ Create(p, d) \/ Find(p, d) \/ FindToDelete(p, d) \/ ServiceChanges(p, d)
           \/ RequestARP(p, d) \/ SyncDirectly(p, d)
        BY <1>1, <2>1 DEF Operate
  <2>3. d = c
        BY <1>1, <2>2, OperateSpares
  <2>. QED BY <2>2, <2>3
<1>2. ASSUME NEW p \in Procs, Continue(p), ~Spared(c)
      PROVE  Touches(p, c)
  <2>1. task[p].who = c
        BY <1>2, ContinueSpares
  <2>2. task[p].do # "idle"
        BY <1>2 DEF Continue, Save, Publish, Allocate, Resave, Delete, Lookup, Claim, FindToResolve,
               StoreResolved, CallRouter
  <2>. QED BY <2>1, <2>2 DEF Touches, Resting
<1>3. ASSUME HearCustomer, ~Spared(c)
      PROVE  Head(chan["customer"]).who = c
  <2>1. "customer" \in Topics /\ "disable" \in Acts /\ "enable" \in Acts
        BY DEF Topics, Acts
  <2>2. /\ Take("customer") /\ UNCHANGED <<dbVars, farVars, ops, told, disturbed>>
        /\ \/ UNCHANGED <<task, muddled>>
           \/ \E act \in Acts : SyncStart(Worker, Head(chan["customer"]).who, act)
        BY <1>3, <2>1 DEF HearCustomer
  <2>. QED BY <1>3, <2>1, <2>2, HearSpares
<1>4. ASSUME NEW topic \in {"service", "arp"}, HearRequest(topic), ~Spared(c)
      PROVE  Head(chan[topic]).who = c
  <2>1. topic \in Topics /\ Take(topic)
        BY <1>4 DEF Topics, HearRequest
  <2>2. Head(chan[topic]) \in Messages(topic) /\ topic # "customer"
        BY <2>1, TailTyped
  <2>3. Head(chan[topic]).act \in Acts
        BY <2>2 DEF Messages
  <2>4. /\ UNCHANGED <<dbVars, farVars, ops, told, disturbed>>
        /\ \E act \in Acts : SyncStart(Worker, Head(chan[topic]).who, act)
        BY <1>4, <2>3 DEF HearRequest
  <2>. QED BY <1>4, <2>1, <2>4, HearSpares
<1>. QED BY <1>1, <1>2, <1>3, <1>4 DEF AccessNext, Hear

\* What waits for a customer who is spared is the same as before,
LEMMA SparedQueues ==
    ASSUME AccessTypeOK, NEW c \in Customers, Spared(c), NEW t \in Topics, NEW row
    PROVE  /\ Mentions(chan'[t], c) <=> Mentions(chan[t], c)
           /\ LastSays(chan'[t], c, row) <=> LastSays(chan[t], c, row)
<1>1. chan[t] \in Seq(Messages(t)) /\ Passes(t, c)
      BY ChanIs DEF Spared
<1>2. PICK q \in Seq(Messages(t)) : q = chan[t]
      BY <1>1
<1>3. CASE chan'[t] = q
      BY <1>2, <1>3
<1>4. ASSUME NEW e \in Messages(t), e.who # c, chan'[t] = Append(q, e)
      PROVE  /\ Mentions(chan'[t], c) <=> Mentions(q, c)
             /\ LastSays(chan'[t], c, row) <=> LastSays(q, c, row)
      BY <1>4, AppendFacts
<1>5. CASE q # <<>> /\ Head(q).who # c /\ chan'[t] = Tail(q)
  <2>. DEFINE S == Messages(t)
  <2>1. q \in Seq(S)
        OBVIOUS
  <2>2. /\ Mentions(Tail(q), c) <=> Mentions(q, c)
        /\ LastSays(q, c, row) <=> LastSays(Tail(q), c, row)
    <3>. HIDE DEF S
    <3>. QED BY <1>5, <2>1, TailFacts
  <2>. QED BY <1>2, <1>5, <2>2
<1>. QED BY <1>1, <1>2, <1>3, <1>4, <1>5 DEF Passes

\* and so is who is at work for it.
LEMMA SparedWork ==
    ASSUME AccessTypeOK, AccessTypeOK', NEW c \in Customers, Spared(c)
    PROVE  /\ Queued(c)' <=> Queued(c)
           /\ Commanding(c)' = Commanding(c) /\ Syncing(c)' = Syncing(c) /\ Asking(c)' = Asking(c)
           /\ Settled(c)' <=> Settled(c)
           /\ \A q \in Procs : Touches(q, c)' <=> Touches(q, c)
           /\ \A q \in Procs : Touches(q, c) => task'[q] = task[q]
<1>1. Queued(c)' <=> Queued(c)
  <2>1. \A t \in Topics : Mentions(chan'[t], c) <=> Mentions(chan[t], c)
        BY SparedQueues
  <2>. QED BY <2>1 DEF Queued, Mentions
<1>2. \A q \in Procs : task'[q] = task[q] \/ (~Touches(q, c) /\ ~Touches(q, c)')
      BY DEF Spared
<1>3. \A q \in Procs : Touches(q, c)' <=> Touches(q, c)
      BY <1>2 DEF Touches
<1>4. \A q \in Procs : Touches(q, c) => task'[q] = task[q]
      BY <1>2 DEF Touches
<1>5. /\ \A q \in Commanding(c) \cup Syncing(c) : Touches(q, c)
      /\ \A q \in Commanding(c)' \cup Syncing(c)' : Touches(q, c)'
      BY DEF Commanding, Syncing, Touches, Resting, Writes
<1>6. Commanding(c)' = Commanding(c) /\ Syncing(c)' = Syncing(c)
      BY <1>3, <1>4, <1>5 DEF Commanding, Syncing
<1>7. Asking(c)' = Asking(c)
  <2>1. \A q \in Syncing(c) \cup Commanding(c) : q \in Procs /\ task'[q] = task[q]
        BY <1>4, <1>5 DEF Syncing, Commanding
  <2>. QED BY <1>6, <2>1 DEF Asking
<1>8. Settled(c)' <=> Settled(c)
      BY <1>1, <1>6 DEF Settled
<1>. QED BY <1>1, <1>3, <1>4, <1>6, <1>7, <1>8

-----------------------------------------------------------------------------
(* One address *)

\* A customer nobody has created yet: no row, no address, nothing on its way.
Unknown(c) ==
    told[c] = "" =>
        /\ rows[c] = NoRow /\ Leased(c) = {} /\ ~Queued(c)
        /\ \A p \in Procs : ~Touches(p, c)

\* Nobody asks for a second address, and who asks alone still has none.
LeaseInv(c) ==
    c \notin muddled =>
        /\ \A i, j \in Leased(c) : i = j
        /\ \A p, q \in Asking(c) : p = q
        /\ \A p \in Asking(c) : ~(task[p].do = "sync" /\ task[p].at = "lookup") => Leased(c) = {}

\* A step about c is taken by somebody who knows c, or who creates it.
LEMMA KnownByThen ==
    ASSUME AccessTypeOK, NEW c \in Customers, Unknown(c), AccessNext, ~Spared(c)
    PROVE  told'[c] # ""
<1>0. told \in [Customers -> Statuses \cup {"", "gone"}]
      BY DEF AccessTypeOK
<1>1. CASE \E p \in Requests : Create(p, c)
      BY <1>0, <1>1 DEF Create
<1>2. ASSUME told[c] # "" PROVE told'[c] # ""
  <2>1. ASSUME NEW p \in Requests, Operate(p), \A d \in Customers : ~Create(p, d) PROVE told' = told
        BY <2>1 DEF Operate, Find, FindToDelete, ServiceChanges, RequestARP, SyncDirectly, DeleteRouter, pastVars
  <2>2. ASSUME NEW p \in Requests, NEW d \in Customers, Create(p, d) PROVE told'[c] # ""
        BY <1>0, <1>2, <2>2 DEF Create
  <2>3. ASSUME NEW p \in Procs, Continue(p) PROVE told'[c] # ""
    <3>1. CASE Save(p)
      <4>1. PICK t \in Saving : t = task[p]
            BY <3>1, TaskShapes DEF Save
      <4>2. t.row.status \in Statuses
            BY DEF Saving, Rows
      <4>3. told' = told \/ told' = [told EXCEPT ![t.who] = t.row.status]
            BY <1>0, <3>1, <4>1 DEF Save
      <4>. QED BY <1>0, <1>2, <4>2, <4>3 DEF Statuses
    <3>2. CASE Delete(p)
          BY <1>0, <1>2, <3>2 DEF Delete
    <3>3. CASE ~Save(p) /\ ~Delete(p)
          BY <1>2, <2>3, <3>3 DEF Continue, Publish, Allocate, Resave, Lookup, Claim, FindToResolve,
               StoreResolved, CallRouter, pastVars
    <3>. QED BY <3>1, <3>2, <3>3
  <2>4. Hear => told' = told
        BY DEF Hear, HearCustomer, HearRequest
  <2>. QED BY <1>2, <2>1, <2>2, <2>3, <2>4 DEF AccessNext
<1>3. ASSUME told[c] = "", \A p \in Requests : ~Create(p, c) PROVE FALSE
  <2>1. rows[c] = NoRow /\ ~Queued(c) /\ \A p \in Procs : ~Touches(p, c)
        BY <1>3 DEF Unknown
  <2>2. \A p \in Requests : ~(\/ Find(p, c) \/ FindToDelete(p, c) \/ ServiceChanges(p, c)
                              \/ RequestARP(p, c) \/ SyncDirectly(p, c))
        BY <2>1 DEF Find, FindToDelete, ServiceChanges, RequestARP, SyncDirectly, Exists
  <2>3. PICK topic \in Topics : Take(topic) /\ Head(chan[topic]).who = c
        BY <1>3, <2>1, <2>2, WhoseStep DEF HearCustomer, HearRequest, Topics
  <2>4. PICK q \in Seq(Messages(topic)) : q = chan[topic]
        BY ChanIs
  <2>5. Mentions(q, c)
    <3>1. q # <<>> /\ Head(q).who = c
          BY <2>3, <2>4 DEF Take
    <3>. DEFINE S == Messages(topic)
    <3>2. q \in Seq(S)
          OBVIOUS
    <3>. HIDE DEF S
    <3>. QED BY <3>1, <3>2, TailFacts
  <2>. QED BY <2>1, <2>4, <2>5 DEF Mentions, Queued
<1>. QED BY <1>1, <1>2, <1>3

\* Who has not been created yet is not known to anything.
LEMMA UnknownKept ==
    ASSUME AccessTypeOK, AccessTypeOK', NEW c \in Customers, Unknown(c), AccessNext
    PROVE  Unknown(c)'
<1>1. CASE Spared(c)
  <2>1. told'[c] = told[c] /\ rows'[c] = rows[c] /\ Leased(c)' = Leased(c)
        BY <1>1 DEF Spared
  <2>2. (Queued(c)' <=> Queued(c)) /\ \A q \in Procs : Touches(q, c)' <=> Touches(q, c)
        BY <1>1, SparedWork
  <2>. QED BY <2>1, <2>2 DEF Unknown
<1>2. CASE ~Spared(c)
  <2>1. told'[c] # ""
        BY <1>2, KnownByThen
  <2>. QED BY <2>1 DEF Unknown
<1>. QED BY <1>1, <1>2

Asks(t, c) == t.who = c /\ (t.do = "allocate" \/ (t.do = "sync" /\ t.at \in {"lookup", "claim"}))

\* Who asks NetBox for c, told by its task.
LEMMA AskingIs ==
    ASSUME NEW c
    PROVE  Asking(c) = {q \in Procs : Asks(task[q], c)}
BY DEF Asking, Syncing, Commanding, Writes, Asks

\* Only the goroutine that goes on may begin or stop to ask.
LEMMA AskingGoes ==
    ASSUME AccessTypeOK, NEW p \in Procs, NEW t \in Tasks, Goes(p, t), NEW c
    PROVE  Asking(c)' = (Asking(c) \ {p}) \cup {q \in {p} : Asks(t, c)}
<1>1. Asking(c)' = {q \in Procs : Asks(task'[q], c)}
      BY DEF Asking, Syncing, Commanding, Writes, Asks
<1>2. task'[p] = t /\ \A q \in Procs : q # p => task'[q] = task[q]
      BY GoesKeepsType
<1>. QED BY <1>1, <1>2, AskingIs

\* Who stops asking, or never did, changes nothing.
LEMMA LeaseFrame ==
    ASSUME AccessTypeOK, NEW c, LeaseInv(c), c \in muddled => c \in muddled',
           Leased(c)' \subseteq Leased(c),
           NEW p \in Procs, NEW t \in Tasks, Goes(p, t), ~Asks(t, c)
    PROVE  LeaseInv(c)'
<1>1. Asking(c)' = Asking(c) \ {p}
      BY AskingGoes
<1>2. \A q \in Asking(c)' : task'[q] = task[q]
  <2>1. Asking(c) \subseteq Procs
        BY AskingIs
  <2>. QED BY <1>1, <2>1, GoesKeepsType
<1>. QED BY <1>1, <1>2 DEF LeaseInv

\* c is asked for by nobody else, and gets at most ip.
LEMMA LeaseTaken ==
    ASSUME AccessTypeOK, NEW c \in Customers, LeaseInv(c), NEW p \in Procs, NEW t \in Tasks,
           Goes(p, t), ~Asks(t, c), Asks(task[p], c), ~(task[p].do = "sync" /\ task[p].at = "lookup"),
           NEW ip \in IPs \cup {None}, AllocateIP(c, ip)
    PROVE  LeaseInv(c)'
<1>. SUFFICES ASSUME c \notin muddled' PROVE LeaseInv(c)'
     BY DEF LeaseInv
<1>1. c \notin muddled /\ Leased(c)' \subseteq Leased(c) \cup {ip}
      BY Leases
<1>2. p \in Asking(c)
      BY AskingIs
<1>3. Leased(c) = {} /\ \A q \in Asking(c) : q = p
      BY <1>1, <1>2 DEF LeaseInv
<1>4. Asking(c)' = {}
      BY <1>3, AskingGoes
<1>. QED BY <1>1, <1>3, <1>4 DEF LeaseInv

\* Who sets out to look for an address is the only one, or c is muddled.
LEMMA LeaseSync ==
    ASSUME AccessTypeOK, NEW c \in Customers, LeaseInv(c), NEW p \in Procs, NEW act \in Acts,
           SyncStart(p, c, act), UNCHANGED netbox
    PROVE  LeaseInv(c)'
<1>0. Leased(c)' = Leased(c)
      BY DEF Leased
<1>1. CASE Goes(p, Resting) /\ UNCHANGED muddled
  <2>1. Resting \in Tasks /\ ~Asks(Resting, c)
        BY DEF Tasks, Resting, Asks
  <2>. QED BY <1>0, <1>1, <2>1, LeaseFrame
<1>2. ASSUME NEW t \in Calling, Goes(p, t), UNCHANGED muddled PROVE LeaseInv(c)'
  <2>1. t \in Tasks /\ ~Asks(t, c)
        BY DEF Tasks, Calling, Asks
  <2>. QED BY <1>0, <1>2, <2>1, LeaseFrame
<1>3. ASSUME NEW t \in Resolving, Goes(p, t), t.at = "lookup", t.who = c,
             muddled' = IF Asking(c) # {} THEN muddled \cup {c} ELSE muddled
      PROVE  LeaseInv(c)'
  <2>. SUFFICES ASSUME c \notin muddled' PROVE LeaseInv(c)'
       BY DEF LeaseInv
  <2>1. Asking(c) = {} /\ c \notin muddled
        BY <1>3
  <2>2. t \in Tasks /\ t.do = "sync"
        BY DEF Tasks, Resolving
  <2>3. Asking(c)' \subseteq {p} /\ task'[p] = t
        BY <1>3, <2>1, <2>2, AskingGoes, GoesKeepsType
  <2>4. \A q \in Asking(c)' : task'[q].do = "sync" /\ task'[q].at = "lookup"
        BY <1>3, <2>2, <2>3
  <2>. QED BY <1>0, <2>1, <2>3, <2>4 DEF LeaseInv
<1>. QED BY <1>1, <1>2, <1>3, SyncBegins

\* First steps keep the leases: a creation asks for a customer nobody knew of.
LEMMA LeaseOperate ==
    ASSUME AccessTypeOK, NEW c \in Customers, Unknown(c), LeaseInv(c), NEW p \in Requests,
           \/ Create(p, c) \/ Find(p, c) \/ FindToDelete(p, c) \/ ServiceChanges(p, c)
           \/ RequestARP(p, c) \/ SyncDirectly(p, c)
    PROVE  LeaseInv(c)'
<1>. p \in Procs
     BY DEF Procs
<1>1. UNCHANGED netbox /\ Leased(c)' = Leased(c)
      BY DEF Create, Find, FindToDelete, ServiceChanges, RequestARP, SyncDirectly, farVars, Leased
<1>2. CASE Create(p, c)
  <2>1. told[c] = "" /\ UNCHANGED muddled
        BY <1>2 DEF Create
  <2>2. Leased(c) = {} /\ \A q \in Procs : ~Touches(q, c)
        BY <2>1 DEF Unknown
  <2>3. PICK t \in Creating \cup Publishing : Goes(p, t) /\ t.do \in {"allocate", "publish"}
        BY <1>2, CreateGoesOn
  <2>4. t \in Tasks
        BY DEF Tasks
  <2>5. Asking(c) = {}
        BY <2>2, AskingIs DEF Asks, Touches, Resting
  <2>6. Asking(c)' \subseteq {p}
        BY <2>3, <2>4, <2>5, AskingGoes
  <2>. QED BY <1>1, <2>1, <2>2, <2>6 DEF LeaseInv
<1>3. CASE Find(p, c)
  <2>1. PICK t \in Saving : Goes(p, t)
        BY <1>3, FindMakes
  <2>2. t \in Tasks /\ ~Asks(t, c)
        BY DEF Tasks, Saving, Asks
  <2>3. UNCHANGED muddled
        BY <1>3 DEF Find
  <2>. QED BY <1>1, <2>1, <2>2, <2>3, LeaseFrame
<1>4. CASE FindToDelete(p, c)
  <2>. DEFINE t == [do |-> "delete", who |-> c]
  <2>1. t \in Tasks /\ ~Asks(t, c)
        BY DEF Tasks, Deleting, Asks
  <2>2. UNCHANGED muddled /\ Goes(p, t)
        BY <1>4 DEF FindToDelete, Goes
  <2>. HIDE DEF t
  <2>. QED BY <1>1, <2>1, <2>2, LeaseFrame
<1>5. CASE ServiceChanges(p, c) \/ RequestARP(p, c)
  <2>1. UNCHANGED <<task, muddled>>
        BY <1>5 DEF ServiceChanges, RequestARP
  <2>. QED BY <1>1, <2>1 DEF LeaseInv, Asking, Syncing, Commanding
<1>6. CASE SyncDirectly(p, c)
  <2>1. PICK act \in Acts : SyncStart(p, c, act)
        BY <1>6 DEF SyncDirectly
  <2>. QED BY <1>1, <2>1, LeaseSync
<1>. QED BY <1>2, <1>3, <1>4, <1>5, <1>6

\* Going on keeps them: who claims has found nothing leased.
LEMMA LeaseContinue ==
    ASSUME AccessTypeOK, NEW c \in Customers, LeaseInv(c), NEW p \in Procs, Continue(p), Touches(p, c)
    PROVE  LeaseInv(c)'
<1>0. task[p].who = c /\ Resting \in Tasks /\ ~Asks(Resting, c)
      BY DEF Touches, Tasks, Asks, Resting
<1>1. (UNCHANGED netbox) => Leased(c)' = Leased(c)
      BY DEF Leased
<1>2. CASE Save(p)
  <2>1. PICK t \in Saving : t = task[p]
        BY <1>2, TaskShapes DEF Save
  <2>. DEFINE u == [do |-> "publish", who |-> t.who, row |-> t.row]
  <2>2. u \in Tasks /\ ~Asks(u, c)
        BY DEF Tasks, Saving, Publishing, Asks
  <2>3. (Goes(p, u) \/ Goes(p, Resting)) /\ UNCHANGED <<farVars, muddled>>
        BY <1>2, <2>1 DEF Save, Goes
  <2>. HIDE DEF u
  <2>. QED BY <1>0, <1>1, <2>2, <2>3, LeaseFrame DEF farVars
<1>3. CASE Publish(p)
  <2>1. Goes(p, Resting) /\ UNCHANGED <<farVars, muddled>>
        BY <1>3 DEF Publish, Goes
  <2>. QED BY <1>0, <1>1, <2>1, LeaseFrame DEF farVars
<1>4. CASE Allocate(p)
  <2>1. PICK ip \in IPs \cup {None} : AllocateIP(c, ip)
        BY <1>0, <1>4, CreateGoesOn
  <2>2. PICK t \in Creating \cup Publishing : Goes(p, t) /\ t.do \in {"resave", "publish"}
        BY <1>4, CreateGoesOn
  <2>3. t \in Tasks /\ ~Asks(t, c)
        BY <2>2 DEF Tasks, Asks
  <2>4. Asks(task[p], c) /\ task[p].do # "sync"
        BY <1>0, <1>4 DEF Allocate, Asks
  <2>. QED BY <2>1, <2>2, <2>3, <2>4, LeaseTaken
<1>5. CASE Resave(p)
  <2>1. PICK t \in Publishing : Goes(p, t)
        BY <1>5, CreateGoesOn
  <2>2. t \in Tasks /\ ~Asks(t, c)
        BY DEF Tasks, Publishing, Asks
  <2>3. UNCHANGED <<farVars, muddled>>
        BY <1>5 DEF Resave
  <2>. QED BY <1>1, <2>1, <2>2, <2>3, LeaseFrame DEF farVars
<1>6. CASE Delete(p)
  <2>. DEFINE u == [do |-> "publish", who |-> task[p].who, row |-> NoRow]
  <2>1. u \in Tasks /\ ~Asks(u, c)
        BY <1>0 DEF Tasks, Publishing, Asks
  <2>2. Goes(p, u) /\ UNCHANGED <<farVars, muddled>>
        BY <1>6 DEF Delete, Goes
  <2>. HIDE DEF u
  <2>. QED BY <1>1, <2>1, <2>2, LeaseFrame DEF farVars
<1>7. CASE Lookup(p)
  <2>1. task[p].do = "sync" /\ task[p].at = "lookup" /\ UNCHANGED farVars
        BY <1>7 DEF Lookup
  <2>2. ASSUME NEW t \in Calling, Goes(p, t), UNCHANGED muddled PROVE LeaseInv(c)'
    <3>1. t \in Tasks /\ ~Asks(t, c)
          BY DEF Tasks, Calling, Asks
    <3>. QED BY <1>1, <2>1, <2>2, <3>1, LeaseFrame DEF farVars
  <2>3. ASSUME NEW t \in Resolving, Goes(p, t), t.who = c,
               muddled' = IF Leased(c) = {} THEN muddled ELSE muddled \cup {c}
        PROVE  LeaseInv(c)'
    <3>. SUFFICES ASSUME c \notin muddled' PROVE LeaseInv(c)'
         BY DEF LeaseInv
    <3>1. Leased(c) = {} /\ c \notin muddled /\ Leased(c)' = {}
          BY <1>1, <2>1, <2>3 DEF farVars
    <3>2. p \in Asking(c)
          BY <1>0, <2>1, AskingIs DEF Asks
    <3>3. \A q \in Asking(c) : q = p
          BY <3>1, <3>2 DEF LeaseInv
    <3>4. Asking(c)' \subseteq {p}
          BY <2>3, <3>3, AskingGoes DEF Tasks
    <3>. QED BY <3>1, <3>4 DEF LeaseInv
  <2>. QED BY <1>0, <1>7, <2>1, <2>2, <2>3, SyncGoesOn
<1>8. CASE Claim(p)
  <2>1. task[p].do = "sync" /\ task[p].at = "claim" /\ Asks(task[p], c)
        BY <1>0, <1>8 DEF Claim, Asks
  <2>2. CASE Goes(p, Resting) /\ AllocateIP(c, None)
        BY <1>0, <2>1, <2>2, LeaseTaken
  <2>3. ASSUME NEW t \in Calling, Goes(p, t), AllocateIP(t.who, t.ip), t.who = c
        PROVE  LeaseInv(c)'
    <3>1. t \in Tasks /\ ~Asks(t, c) /\ t.ip \in IPs
          BY DEF Tasks, Calling, Asks
    <3>2. PICK ip \in IPs \cup {None} : ip = t.ip
          BY <3>1
    <3>3. AllocateIP(c, ip)
          BY <2>3, <3>2
    <3>. QED BY <2>1, <2>3, <3>1, <3>3, LeaseTaken
  <2>. QED BY <1>0, <1>8, <2>1, <2>2, <2>3, SyncGoesOn
<1>9. CASE FindToResolve(p)
  <2>1. task[p].do = "sync" /\ UNCHANGED <<farVars, muddled>>
        BY <1>9 DEF FindToResolve
  <2>2. PICK t \in Storing \cup Calling : Goes(p, t)
        BY <1>9, <2>1, SyncGoesOn
  <2>3. t \in Tasks /\ ~Asks(t, c)
        BY DEF Tasks, Storing, Calling, Asks
  <2>. QED BY <1>1, <2>1, <2>2, <2>3, LeaseFrame DEF farVars
<1>10. CASE StoreResolved(p)
  <2>1. task[p].do = "sync" /\ UNCHANGED <<farVars, muddled>>
        BY <1>10 DEF StoreResolved
  <2>2. PICK t \in Calling : Goes(p, t)
        BY <1>10, <2>1, SyncGoesOn
  <2>3. t \in Tasks /\ ~Asks(t, c)
        BY DEF Tasks, Calling, Asks
  <2>. QED BY <1>1, <2>1, <2>2, <2>3, LeaseFrame DEF farVars
<1>11. CASE CallRouter(p)
  <2>1. Goes(p, Resting) /\ UNCHANGED <<netbox, muddled>>
        BY <1>11, CallIs
  <2>. QED BY <1>0, <1>1, <2>1, LeaseFrame
<1>. QED BY <1>2, <1>3, <1>4, <1>5, <1>6, <1>7, <1>8, <1>9, <1>10, <1>11 DEF Continue

\* What the worker makes of what it hears about c.
LEMMA HearIs ==
    ASSUME AccessTypeOK, NEW topic \in Topics,
           (topic = "customer" /\ HearCustomer) \/ (topic # "customer" /\ HearRequest(topic))
    PROVE  /\ Take(topic) /\ UNCHANGED <<dbVars, farVars, ops, told, disturbed>>
           /\ \/ UNCHANGED <<task, muddled>>
              \/ \E act \in Acts : SyncStart(Worker, Head(chan[topic]).who, act)
<1>1. CASE topic = "customer" /\ HearCustomer
  <2>1. "disable" \in Acts /\ "enable" \in Acts
        BY DEF Acts
  <2>. QED BY <1>1, <2>1 DEF HearCustomer
<1>2. CASE topic # "customer" /\ HearRequest(topic)
  <2>1. Take(topic)
        BY <1>2 DEF HearRequest
  <2>2. Head(chan[topic]) \in Messages(topic)
        BY <2>1, TailTyped
  <2>3. Head(chan[topic]).act \in Acts
        BY <1>2, <2>2 DEF Messages
  <2>. QED BY <1>2, <2>3 DEF HearRequest
<1>. QED BY <1>1, <1>2

\* Every step keeps them.
LEMMA LeaseKept ==
    ASSUME AccessTypeOK, AccessTypeOK', NEW c \in Customers, Unknown(c), LeaseInv(c), AccessNext
    PROVE  LeaseInv(c)'
<1>1. CASE Spared(c)
  <2>1. Leased(c)' = Leased(c) /\ (c \in muddled' <=> c \in muddled)
        BY <1>1 DEF Spared
  <2>2. Asking(c)' = Asking(c)
        BY <1>1, SparedWork
  <2>3. \A q \in Asking(c) : task'[q] = task[q]
    <3>1. \A q \in Asking(c) : q \in Procs /\ Touches(q, c)
          BY AskingIs DEF Asks, Touches, Resting
    <3>. QED BY <1>1, <3>1, SparedWork
  <2>. QED BY <2>1, <2>2, <2>3 DEF LeaseInv
<1>2. ASSUME NEW topic \in Topics, Head(chan[topic]).who = c,
             (topic = "customer" /\ HearCustomer) \/ (topic # "customer" /\ HearRequest(topic))
      PROVE  LeaseInv(c)'
  <2>1. /\ UNCHANGED netbox /\ Worker \in Procs
        /\ (UNCHANGED <<task, muddled>>) \/ \E act \in Acts : SyncStart(Worker, c, act)
        BY <1>2, HearIs DEF farVars, Procs
  <2>2. CASE UNCHANGED <<task, muddled>>
        BY <2>1, <2>2 DEF LeaseInv, Asking, Syncing, Commanding, Leased
  <2>. QED BY <2>1, <2>2, LeaseSync
<1>3. CASE \E t \in {"service", "arp"} : HearRequest(t) /\ Head(chan[t]).who = c
      BY <1>2, <1>3 DEF Topics
<1>4. CASE HearCustomer /\ Head(chan["customer"]).who = c
      BY <1>2, <1>4 DEF Topics
<1>. QED BY <1>1, <1>3, <1>4, WhoseStep, LeaseOperate, LeaseContinue

\* At first nothing is on its way, and a row has its address, leased and let in.
LEMMA InitFacts ==
    ASSUME AccessInit, NEW c \in Customers
    PROVE  /\ AccessTypeOK
           /\ Commanding(c) = {} /\ Syncing(c) = {} /\ Asking(c) = {} /\ ~Queued(c) /\ Settled(c)
           /\ \A p \in Procs : task[p] = Resting /\ task[p].do = "idle" /\ ~Touches(p, c)
           /\ \A t \in Topics : chan[t] = <<>>
           /\ \A i, j \in Leased(c) : i = j
           /\ told[c] = rows[c].status
           /\ \/ rows[c] = NoRow /\ Leased(c) = {}
              \/ /\ rows[c].status = "active" /\ rows[c].router \in Routers
                 /\ rows[c].ip \in Leased(c) /\ arp[rows[c].router][rows[c].ip] = [up |-> TRUE, who |-> c]
<1>1. AccessTypeOK
      BY AccessInitTypes
<1>2. \A p \in Procs : task[p] = Resting /\ task[p].do = "idle" /\ ~Touches(p, c)
      BY DEF AccessInit, Resting, Touches
<1>3. Commanding(c) = {} /\ Syncing(c) = {} /\ Asking(c) = {}
      BY <1>2 DEF Commanding, Syncing, Asking, Writes
<1>4. \A t \in Topics : chan[t] = <<>>
      BY DEF AccessInit
<1>5. ~Queued(c)
  <2>1. \A t \in Topics : DOMAIN chan[t] = {}
        BY <1>4
  <2>. QED BY <2>1 DEF Queued
<1>6. /\ netbox \in [IPs -> Customers \cup {None}] /\ c # None
      /\ \A i, j \in IPs : i # j /\ netbox[i] = netbox[j] => netbox[i] = None
      BY NoneAssumption DEF AccessInit
<1>7. \A i, j \in Leased(c) : i = j
      BY <1>6 DEF Leased
<1>8. told[c] = rows[c].status
      BY DEF AccessInit
<1>9. PICK r \in Routers :
         /\ rows = [x \in Customers |->
              IF Leased(x) = {} THEN NoRow
              ELSE [status |-> "active", router |-> r, mac |-> TRUE,
                    ip |-> CHOOSE i \in IPs : netbox[i] = x]]
         /\ arp = [q \in Routers |-> [i \in IPs |->
              IF q = r /\ netbox[i] # None THEN [up |-> TRUE, who |-> netbox[i]]
              ELSE [up |-> FALSE, who |-> None]]]
      BY DEF AccessInit
<1>10. CASE Leased(c) = {}
      BY <1>1, <1>2, <1>3, <1>4, <1>5, <1>7, <1>8, <1>9, <1>10 DEF Settled
<1>11. CASE Leased(c) # {}
  <2>1. PICK i \in IPs : i = CHOOSE j \in IPs : netbox[j] = c
        BY <1>11 DEF Leased
  <2>2. netbox[i] = c
        BY <1>11, <2>1 DEF Leased
  <2>3. rows[c] = [status |-> "active", router |-> r, mac |-> TRUE, ip |-> i]
        BY <1>9, <1>11, <2>1
  <2>4. rows[c].status = "active" /\ rows[c].router = r /\ rows[c].ip = i /\ i \in Leased(c)
        BY <2>2, <2>3 DEF Leased
  <2>5. arp[r][i] = [up |-> TRUE, who |-> c]
        BY <1>6, <1>9, <2>2
  <2>6. arp[rows[c].router][rows[c].ip] = [up |-> TRUE, who |-> c]
        BY <2>4, <2>5
  <2>. QED BY <1>1, <1>2, <1>3, <1>4, <1>5, <1>7, <1>8, <2>4, <2>6 DEF Settled
<1>. QED BY <1>10, <1>11

LeasesInv == AccessTypeOK /\ \A c \in Customers : Unknown(c) /\ LeaseInv(c)

\* NetBox holds one address for a customer (LeaseOnce): whoever asks for one
\* first looks for the record of an earlier one, and the create handler asks for
\* a customer nobody can know of yet.
THEOREM OneLease == AccessSpec => []LeaseOnce
<1>1. AccessInit => LeasesInv
      BY InitFacts, AccessInitTypes DEF LeasesInv, Unknown, LeaseInv
<1>2. LeasesInv /\ [AccessNext]_accessVars => LeasesInv'
  <2>. SUFFICES ASSUME LeasesInv, [AccessNext]_accessVars PROVE LeasesInv'
       OBVIOUS
  <2>1. AccessTypeOK /\ AccessTypeOK'
        BY AccessTypesHold DEF LeasesInv
  <2>2. SUFFICES ASSUME NEW c \in Customers PROVE Unknown(c)' /\ LeaseInv(c)'
        BY <2>1 DEF LeasesInv
  <2>3. Unknown(c) /\ LeaseInv(c)
        BY DEF LeasesInv
  <2>4. CASE AccessNext
        BY <2>1, <2>3, <2>4, UnknownKept, LeaseKept
  <2>5. CASE UNCHANGED accessVars
    <3>1. Unknown(c)'
          BY <2>3, <2>5 DEF accessVars, Unknown, Leased, Queued, Touches
    <3>2. LeaseInv(c)'
          BY <2>3, <2>5 DEF accessVars, LeaseInv, Leased, Asking, Syncing, Commanding
    <3>. QED BY <3>1, <3>2
  <2>. QED BY <2>4, <2>5
<1>3. LeasesInv => LeaseOnce
  <2>. SUFFICES ASSUME LeasesInv, NEW c \in Customers, c \notin muddled
                PROVE  Cardinality(Leased(c)) <= 1
       BY DEF LeaseOnce
  <2>1. \A i, j \in Leased(c) : i = j
        BY DEF LeasesInv, LeaseInv
  <2>2. CASE Leased(c) = {}
        BY <2>2, FS_EmptySet
  <2>3. ASSUME NEW i \in Leased(c) PROVE Cardinality(Leased(c)) <= 1
    <3>1. Leased(c) = {i}
          BY <2>1, <2>3
    <3>. QED BY <3>1, FS_Singleton
  <2>. QED BY <2>2, <2>3
<1>. QED BY <1>1, <1>2, <1>3, PTL DEF AccessSpec

-----------------------------------------------------------------------------
(* Rows, words and routers *)

Busy(p, dos, c) == task[p].do \in dos /\ task[p].who = c
LastWord(c) == IF told[c] = "gone" THEN "" ELSE told[c]

\* The row says the last word, unless whoever will set it is at work.
WordInv(c) ==
    \/ rows[c].status = LastWord(c)
    \/ \E p \in Procs : Busy(p, {"save"}, c) /\ task[p].by = "status"
    \/ \E p \in Procs : Busy(p, {"delete"}, c)

\* Only the customer's own commands speak, through the worker.
OwnOnly(c) ==
    /\ Syncing(c) \subseteq {Worker}
    /\ \A t \in {"service", "arp"} : ~Mentions(chan[t], c)

\* Copies of the row that will be saved, or announced, are not outdated in what
\* they are not meant to change.
CopiesInv(c) ==
    /\ \A p \in Procs : Busy(p, {"save"}, c) /\ task[p].by = "update" => task[p].row.status = rows[c].status
    /\ \A p \in Syncing(c) : task[p].at = "store" =>
          task[p].row.status = rows[c].status /\ task[p].row.router = task[p].router
    /\ \A p \in Procs : Busy(p, {"publish"}, c) => Same(task[p].row, rows[c])

\* While a customer is being created nothing about it is on its way.
CreatedInv(c) ==
    \A p \in Procs : Busy(p, {"allocate", "resave"}, c) =>
        /\ Same(task[p].row, rows[c])
        /\ task[p].row.status = "active" /\ task[p].row.router = None
        /\ Syncing(c) = {} /\ ~Queued(c)
        /\ \A q \in Procs \ {p} : ~Busy(q, {"allocate", "resave", "publish"}, c)

Act(c) == IF Barred(rows[c].status) THEN "disable" ELSE "enable"

\* The sync for the last announcement does what the row says.
SyncInv(c) ==
    ~Queued(c) => \A p \in Syncing(c) :
        /\ task[p].act = Act(c) /\ task[p].router = rows[c].router
        /\ task[p].at = "store" => task[p].row.ip = task[p].ip /\ task[p].row.mac = task[p].mac
        /\ task[p].at = "router" => rows[c].ip = task[p].ip /\ rows[c].mac = task[p].mac

\* The router does what the row says.
Lets(c) ==
    LET row   == rows[c]
        entry == arp[row.router][row.ip]
    IN row.router # None /\ row.ip # None =>
         /\ Barred(row.status) => ~(entry.up /\ entry.who = c)
         /\ row.status = "active" /\ row.mac => entry = Granted(c)

Stands(c) ==
    c \notin disturbed =>
        /\ WordInv(c) /\ OwnOnly(c) /\ CopiesInv(c) /\ CreatedInv(c)
        /\ Commanding(c) = {} => LastSays(chan["customer"], c, rows[c]) /\ SyncInv(c)
        /\ Settled(c) => Lets(c)

\* Who is at work for c after p has gone on with t.
LEMMA WorkGoes ==
    ASSUME AccessTypeOK, NEW p \in Procs, NEW t \in Tasks, Goes(p, t), NEW c
    PROVE  /\ task'[p] = t /\ \A q \in Procs \ {p} : task'[q] = task[q]
           /\ Commanding(c)' = (Commanding(c) \ {p}) \cup {q \in {p} : t.do \in Writes /\ t.who = c}
           /\ Syncing(c)' = (Syncing(c) \ {p}) \cup {q \in {p} : t.do = "sync" /\ t.who = c}
           /\ Commanding(c) \subseteq Procs /\ Syncing(c) \subseteq Procs
           /\ Commanding(c)' \subseteq Procs /\ Syncing(c)' \subseteq Procs
<1>1. task'[p] = t /\ \A q \in Procs : q # p => task'[q] = task[q]
      BY GoesKeepsType
<1>. QED BY <1>1 DEF Commanding, Syncing

\* Busy, in the terms of the model.
LEMMA BusyIs ==
    ASSUME NEW p \in Procs, NEW dos, NEW c
    PROVE  /\ Busy(p, dos, c) /\ dos \subseteq Writes => p \in Commanding(c)
           /\ p \in Commanding(c) <=> Busy(p, Writes, c)
           /\ p \in Syncing(c) <=> Busy(p, {"sync"}, c)
           /\ {"save"} \subseteq Writes /\ {"delete"} \subseteq Writes /\ {"publish"} \subseteq Writes
           /\ {"allocate", "resave"} \subseteq Writes /\ {"allocate", "resave", "publish"} \subseteq Writes
           /\ Busy(p, dos, c) /\ "idle" \notin dos => Touches(p, c)
BY DEF Busy, Commanding, Syncing, Writes, Touches, Resting

\* So is what is queued.
LEMMA QueuedIs ==
    ASSUME NEW c
    PROVE  /\ Queued(c) <=> \E t \in Topics : Mentions(chan[t], c)
           /\ Queued(c)' <=> \E t \in Topics : Mentions(chan'[t], c)
           /\ Topics = {"customer", "service", "arp"}
BY DEF Queued, Mentions, Topics

\* A step that spares c leaves it as it stands.
LEMMA StandsSpared ==
    ASSUME AccessTypeOK, AccessTypeOK', NEW c \in Customers, Stands(c), Spared(c)
    PROVE  Stands(c)'
<1>. SUFFICES ASSUME c \notin disturbed' PROVE Stands(c)'
     BY DEF Stands
<1>1. c \notin disturbed /\ rows'[c] = rows[c] /\ told'[c] = told[c]
      BY DEF Spared
<1>2. /\ Queued(c)' <=> Queued(c)
      /\ Commanding(c)' = Commanding(c) /\ Syncing(c)' = Syncing(c)
      /\ Settled(c)' <=> Settled(c)
      /\ \A q \in Procs : Touches(q, c)' <=> Touches(q, c)
      /\ \A q \in Procs : Touches(q, c) => task'[q] = task[q]
      BY SparedWork
<1>3. \A q \in Procs : (Touches(q, c)' \/ Touches(q, c)) => task'[q] = task[q]
      BY <1>2
<1>4. \A t \in Topics : /\ Mentions(chan'[t], c) <=> Mentions(chan[t], c)
                        /\ LastSays(chan'[t], c, rows[c]) <=> LastSays(chan[t], c, rows[c])
      BY SparedQueues
<1>5. ASSUME NEW dos, "idle" \notin dos, NEW q \in Procs
      PROVE  /\ Busy(q, dos, c)' <=> Busy(q, dos, c)
             /\ Busy(q, dos, c)' => task'[q] = task[q]
  <2>1. Busy(q, dos, c) => Touches(q, c)
        BY <1>5, BusyIs
  <2>2. Busy(q, dos, c)' => Touches(q, c)'
        BY <1>5 DEF Busy, Touches, Resting
  <2>. QED BY <1>3, <2>1, <2>2 DEF Busy
<1>6. \A q \in Syncing(c) : q \in Procs /\ task'[q] = task[q]
      BY <1>3 DEF Syncing, Touches, Resting
<1>7. /\ WordInv(c) /\ OwnOnly(c) /\ CopiesInv(c) /\ CreatedInv(c)
      /\ Commanding(c) = {} => LastSays(chan["customer"], c, rows[c]) /\ SyncInv(c)
      /\ Settled(c) => Lets(c)
      BY <1>1 DEF Stands
<1>8. WordInv(c)'
  <2>1. LastWord(c)' = LastWord(c)
        BY <1>1 DEF LastWord
  <2>2. \A q \in Procs : /\ Busy(q, {"save"}, c) => Busy(q, {"save"}, c)' /\ task'[q] = task[q]
                         /\ Busy(q, {"delete"}, c) => Busy(q, {"delete"}, c)'
        BY <1>5
  <2>. QED BY <1>1, <1>7, <2>1, <2>2 DEF WordInv
<1>9. OwnOnly(c)'
      BY <1>2, <1>4, <1>7, QueuedIs DEF OwnOnly
<1>10. CopiesInv(c)'
  <2>1. \A q \in Procs : /\ Busy(q, {"save"}, c)' => Busy(q, {"save"}, c) /\ task'[q] = task[q]
                         /\ Busy(q, {"publish"}, c)' => Busy(q, {"publish"}, c) /\ task'[q] = task[q]
        BY <1>5
  <2>. QED BY <1>1, <1>2, <1>6, <1>7, <2>1 DEF CopiesInv
<1>11. CreatedInv(c)'
  <2>1. \A q \in Procs : /\ Busy(q, {"allocate", "resave"}, c)' =>
                              Busy(q, {"allocate", "resave"}, c) /\ task'[q] = task[q]
                         /\ Busy(q, {"allocate", "resave", "publish"}, c)' =>
                              Busy(q, {"allocate", "resave", "publish"}, c)
        BY <1>5
  <2>. QED BY <1>1, <1>2, <1>7, <2>1 DEF CreatedInv
<1>12. Commanding(c)' = {} => LastSays(chan["customer"], c, rows[c])' /\ SyncInv(c)'
  <2>. SUFFICES ASSUME Commanding(c)' = {} PROVE LastSays(chan["customer"], c, rows[c])' /\ SyncInv(c)'
       OBVIOUS
  <2>1. LastSays(chan["customer"], c, rows[c]) /\ SyncInv(c)
        BY <1>2, <1>7
  <2>2. LastSays(chan["customer"], c, rows[c])'
        BY <1>1, <1>4, <2>1, QueuedIs
  <2>3. Act(c)' = Act(c)
        BY <1>1 DEF Act
  <2>. QED BY <1>1, <1>2, <1>6, <2>1, <2>2, <2>3 DEF SyncInv
<1>13. Settled(c)' => Lets(c)'
  <2>. SUFFICES ASSUME Settled(c)', rows[c].router # None, rows[c].ip # None PROVE Lets(c)'
       BY <1>1 DEF Lets
  <2>1. Settled(c) /\ Lets(c)
        BY <1>2, <1>7
  <2>2. PICK r \in Routers : r = rows[c].router
        BY RowShapes
  <2>3. arp'[r][rows[c].ip] = arp[r][rows[c].ip]
        BY <2>1, <2>2 DEF Spared, EntryStays
  <2>. QED BY <1>1, <2>1, <2>2, <2>3 DEF Lets, Granted
<1>. QED BY <1>8, <1>9, <1>10, <1>11, <1>12, <1>13 DEF Stands

\* A command sets out: whatever was said before, its own word counts, or it
\* found the row as the last word left it.
LEMMA CommandStands ==
    ASSUME AccessTypeOK, AccessTypeOK', NEW c \in Customers, Stands(c), NEW p \in Procs, NEW t \in Tasks,
           Goes(p, t), task[p] = Resting, t.who = c, t.do \in {"save", "delete"},
           UNCHANGED <<rows, told, chan>>,
           t.do = "save" => t.by \in {"status", "update"},
           t.do = "save" /\ t.by = "update" => t.row.status = rows[c].status,
           \/ disturbed' = disturbed
           \/ Settled(c) /\ (t.do = "save" /\ t.by = "update" => rows[c].status = told[c])
    PROVE  Stands(c)'
<1>. SUFFICES ASSUME c \notin disturbed' PROVE Stands(c)'
     BY DEF Stands
<1>1. /\ task'[p] = t /\ \A q \in Procs \ {p} : task'[q] = task[q]
      /\ Commanding(c)' = (Commanding(c) \ {p}) \cup {q \in {p} : t.do \in Writes /\ t.who = c}
      /\ Syncing(c)' = (Syncing(c) \ {p}) \cup {q \in {p} : t.do = "sync" /\ t.who = c}
      BY WorkGoes
<1>2. p \in Commanding(c)' /\ Syncing(c)' = Syncing(c)
  <2>1. t.do \in Writes /\ t.do # "sync"
        BY DEF Writes
  <2>2. p \notin Syncing(c)
        BY DEF Syncing, Resting
  <2>. QED BY <1>1, <2>1, <2>2
<1>3. ~Settled(c)'
      BY <1>2 DEF Settled
<1>4. Queued(c)' <=> Queued(c)
      BY DEF Queued
<1>5. task[p].do = "idle"
      BY DEF Resting
<1>6. Settled(c) => /\ \A q \in Procs : \A dos : dos \subseteq Writes => ~Busy(q, dos, c)
                    /\ Syncing(c) = {} /\ \A u \in Topics : ~Mentions(chan[u], c)
      BY BusyIs, QueuedIs DEF Settled
<1>7. WordInv(c)'
  <2>1. CASE t.do = "delete"
        BY <1>1, <2>1 DEF WordInv, Busy
  <2>2. CASE t.do = "save" /\ t.by = "status"
        BY <1>1, <2>2 DEF WordInv, Busy
  <2>3. CASE t.do = "save" /\ t.by = "update" /\ Settled(c)
    <3>1. \/ rows[c].status = told[c] /\ rows[c].status \in Statuses \cup {""}
          \/ disturbed' = disturbed
          BY <2>3, RowShapes
    <3>2. CASE rows[c].status = told[c] /\ rows[c].status \in Statuses \cup {""}
          BY <3>2 DEF WordInv, LastWord, Statuses
    <3>3. CASE disturbed' = disturbed
      <4>1. WordInv(c)
            BY <3>3 DEF Stands
      <4>2. rows[c].status = LastWord(c)
            BY <1>6, <2>3, <4>1, BusyIs DEF WordInv
      <4>. QED BY <4>2 DEF WordInv, LastWord
    <3>. QED BY <3>1, <3>2, <3>3
  <2>4. CASE disturbed' = disturbed
    <3>1. WordInv(c)
          BY <2>4 DEF Stands
    <3>2. \A q \in Procs : Busy(q, {"save"}, c) \/ Busy(q, {"delete"}, c) => task'[q] = task[q]
          BY <1>1, <1>5 DEF Busy
    <3>. QED BY <3>1, <3>2 DEF WordInv, Busy, LastWord
  <2>. QED BY <2>1, <2>2, <2>3, <2>4
<1>8. OwnOnly(c)'
  <2>1. CASE Settled(c)
        BY <1>2, <1>6, <2>1, QueuedIs DEF OwnOnly
  <2>2. CASE disturbed' = disturbed
        BY <1>2, <2>2 DEF OwnOnly, Stands, Mentions
  <2>. QED BY <2>1, <2>2
<1>9. CopiesInv(c)'
  <2>1. \A q \in Procs \ {p} : /\ Busy(q, {"save"}, c)' <=> Busy(q, {"save"}, c)
                               /\ Busy(q, {"publish"}, c)' <=> Busy(q, {"publish"}, c)
        BY <1>1 DEF Busy
  <2>2. /\ ~Busy(p, {"publish"}, c)'
        /\ task'[p].do = "save" /\ task'[p].by = "update" => task'[p].row.status = rows[c].status
        BY <1>1 DEF Busy
  <2>3. CASE Settled(c)
    <3>1. \A q \in Procs : ~Busy(q, {"save"}, c) /\ ~Busy(q, {"publish"}, c)
          BY <1>6, <2>3, BusyIs
    <3>. QED BY <1>2, <1>6, <2>1, <2>2, <2>3, <3>1 DEF CopiesInv, Busy
  <2>4. CASE disturbed' = disturbed
    <3>1. CopiesInv(c)
          BY <2>4 DEF Stands
    <3>2. \A q \in Syncing(c) : q # p /\ q \in Procs /\ task'[q] = task[q]
          BY <1>1, <1>5 DEF Syncing
    <3>. QED BY <1>1, <1>2, <2>1, <2>2, <3>1, <3>2 DEF CopiesInv, Busy
  <2>. QED BY <2>3, <2>4
<1>10. CreatedInv(c)'
  <2>1. \A q \in Procs \ {p} :
          /\ Busy(q, {"allocate", "resave"}, c)' <=> Busy(q, {"allocate", "resave"}, c)
          /\ Busy(q, {"allocate", "resave", "publish"}, c)' <=> Busy(q, {"allocate", "resave", "publish"}, c)
        BY <1>1 DEF Busy
  <2>2. ~Busy(p, {"allocate", "resave"}, c)' /\ ~Busy(p, {"allocate", "resave", "publish"}, c)'
        BY <1>1 DEF Busy
  <2>3. CASE Settled(c)
    <3>1. \A q \in Procs : ~Busy(q, {"allocate", "resave"}, c)
          BY <1>6, <2>3, BusyIs
    <3>. QED BY <2>1, <2>2, <3>1 DEF CreatedInv
  <2>4. CASE disturbed' = disturbed
    <3>1. CreatedInv(c)
          BY <2>4 DEF Stands
    <3>. QED BY <1>1, <1>2, <1>4, <2>1, <2>2, <3>1 DEF CreatedInv
  <2>. QED BY <2>3, <2>4
<1>. QED BY <1>2, <1>3, <1>7, <1>8, <1>9, <1>10 DEF Stands

\* A customer is created, and nothing could have been said about it.
LEMMA CreateStands ==
    ASSUME AccessTypeOK, AccessTypeOK', NEW c \in Customers, Unknown(c), NEW p \in Procs, Create(p, c)
    PROVE  Stands(c)'
<1>1. /\ told[c] = "" /\ told' = [told EXCEPT ![c] = "active"] /\ UNCHANGED chan
      /\ rows' = [rows EXCEPT ![c] = NewCustomer]
      BY DEF Create, NewCustomer
<1>2. ~Queued(c) /\ \A q \in Procs : ~Touches(q, c)
      BY <1>1 DEF Unknown
<1>3. PICK t \in Creating \cup Publishing :
         Goes(p, t) /\ t.do \in {"allocate", "publish"} /\ t.who = c /\ t.row = NewCustomer
      BY CreateGoesOn
<1>4. /\ task'[p] = t /\ \A q \in Procs \ {p} : task'[q] = task[q]
      /\ Commanding(c)' = (Commanding(c) \ {p}) \cup {q \in {p} : t.do \in Writes /\ t.who = c}
      /\ Syncing(c)' = (Syncing(c) \ {p}) \cup {q \in {p} : t.do = "sync" /\ t.who = c}
      BY <1>3, WorkGoes DEF Tasks
<1>5. p \in Commanding(c)' /\ Syncing(c)' = {}
  <2>1. t.do \in Writes /\ t.do # "sync"
        BY <1>3 DEF Writes
  <2>2. Syncing(c) = {}
        BY <1>2 DEF Syncing, Touches, Resting
  <2>. QED BY <1>3, <1>4, <2>1, <2>2
<1>6. \A q \in Procs \ {p} : \A dos : "idle" \notin dos => ~Busy(q, dos, c)'
  <2>1. \A q \in Procs \ {p} : task'[q] = Resting \/ task'[q].who # c
        BY <1>2, <1>4 DEF Touches
  <2>. QED BY <2>1 DEF Busy, Resting
<1>7. rows'[c] = NewCustomer /\ told'[c] = "active"
      BY <1>1 DEF AccessTypeOK
<1>8. WordInv(c)'
      BY <1>7, NewCustomerIs DEF WordInv, LastWord
<1>9. ~Queued(c)' /\ \A u \in Topics : ~Mentions(chan'[u], c)
      BY <1>1, <1>2, QueuedIs
<1>10. OwnOnly(c)'
      BY <1>5, <1>9, QueuedIs DEF OwnOnly
<1>11. CopiesInv(c)'
  <2>1. \A q \in Procs : ~Busy(q, {"save"}, c)'
        BY <1>3, <1>4, <1>6 DEF Busy
  <2>2. Same(task'[p].row, rows'[c])
        BY <1>3, <1>4, <1>7 DEF Same
  <2>3. \A q \in Procs : Busy(q, {"publish"}, c)' => q = p
        BY <1>6
  <2>. QED BY <1>5, <2>1, <2>2, <2>3 DEF CopiesInv
<1>12. CreatedInv(c)'
  <2>1. /\ Same(task'[p].row, rows'[c]) /\ task'[p].row.status = "active" /\ task'[p].row.router = None
        BY <1>3, <1>4, <1>7, NewCustomerIs DEF Same
  <2>2. \A q \in Procs \ {p} : ~Busy(q, {"allocate", "resave"}, c)' /\ ~Busy(q, {"allocate", "resave", "publish"}, c)'
        BY <1>6
  <2>. QED BY <1>5, <1>9, <2>1, <2>2 DEF CreatedInv
<1>. QED BY <1>5, <1>8, <1>10, <1>11, <1>12 DEF Stands, Settled

\* First steps: a command begins, or somebody else speaks and c is disturbed.
LEMMA OperateStands ==
    ASSUME AccessTypeOK, AccessTypeOK', NEW c \in Customers, Unknown(c), Stands(c), NEW p \in Requests,
           \/ Create(p, c) \/ Find(p, c) \/ FindToDelete(p, c) \/ ServiceChanges(p, c)
           \/ RequestARP(p, c) \/ SyncDirectly(p, c)
    PROVE  Stands(c)'
<1>. p \in Procs
     BY DEF Procs
<1>1. CASE Create(p, c)
      BY <1>1, CreateStands
<1>2. CASE Find(p, c)
  <2>1. PICK t \in Saving : /\ Goes(p, t) /\ t.who = c /\ FreshStart(c, t.by)
                            /\ t.by = "update" => t.row.status = rows[c].status
        BY <1>2, FindMakes
  <2>2. t \in Tasks /\ t.do = "save" /\ t.by \in {"status", "update"}
        BY DEF Tasks, Saving
  <2>3. task[p] = Resting /\ UNCHANGED <<rows, told, chan>>
        BY <1>2 DEF Find, Begin, dbVars
  <2>4. \/ disturbed' = disturbed
        \/ Settled(c) /\ (t.do = "save" /\ t.by = "update" => rows[c].status = told[c])
        BY <2>1, FreshStartIs
  <2>. QED BY <2>1, <2>2, <2>3, <2>4, CommandStands
<1>3. CASE FindToDelete(p, c)
  <2>. DEFINE t == [do |-> "delete", who |-> c]
  <2>1. t \in Tasks /\ t.do = "delete" /\ t.who = c
        BY DEF Tasks, Deleting
  <2>2. task[p] = Resting /\ UNCHANGED <<rows, told, chan>> /\ Goes(p, t) /\ FreshStart(c, "status")
        BY <1>3 DEF FindToDelete, Begin, dbVars, Goes
  <2>3. disturbed' = disturbed \/ Settled(c)
        BY <2>2, FreshStartIs
  <2>. HIDE DEF t
  <2>. QED BY <2>1, <2>2, <2>3, CommandStands
<1>4. CASE ServiceChanges(p, c) \/ RequestARP(p, c) \/ SyncDirectly(p, c)
  <2>1. c \in disturbed'
        BY <1>4 DEF ServiceChanges, RequestARP, SyncDirectly
  <2>. QED BY <2>1 DEF Stands
<1>. QED BY <1>1, <1>2, <1>3, <1>4

\* A goroutine that goes on changes what it is busy with and nobody else.
LEMMA BusyGoes ==
    ASSUME AccessTypeOK, NEW p \in Procs, NEW t \in Tasks, Goes(p, t), NEW c
    PROVE  /\ \A dos : \A q \in Procs \ {p} : Busy(q, dos, c)' <=> Busy(q, dos, c)
           /\ \A dos : Busy(p, dos, c)' <=> t.do \in dos /\ t.who = c
BY GoesKeepsType DEF Busy

\* The worker finds out the address, and nothing else moves.
LEMMA ResolvingStands ==
    ASSUME AccessTypeOK, AccessTypeOK', NEW c \in Customers, Stands(c), NEW p \in Procs, NEW t \in Tasks,
           Goes(p, t), task[p].do = "sync", task[p].who = c, t.do = "sync", t.who = c, t.at # "router",
           t.act = task[p].act, t.router = task[p].router,
           t.at = "store" => /\ t.row.status = rows[c].status /\ t.row.router = t.router
                             /\ t.row.ip = t.ip /\ t.row.mac = t.mac,
           UNCHANGED <<rows, told, chan>>, disturbed \subseteq disturbed'
    PROVE  Stands(c)'
<1>. SUFFICES ASSUME c \notin disturbed' PROVE Stands(c)'
     BY DEF Stands
<1>1. /\ WordInv(c) /\ OwnOnly(c) /\ CopiesInv(c) /\ CreatedInv(c)
      /\ Commanding(c) = {} => LastSays(chan["customer"], c, rows[c]) /\ SyncInv(c)
      BY DEF Stands
<1>2. /\ task'[p] = t /\ \A q \in Procs \ {p} : task'[q] = task[q]
      /\ Commanding(c)' = (Commanding(c) \ {p}) \cup {q \in {p} : t.do \in Writes /\ t.who = c}
      /\ Syncing(c)' = (Syncing(c) \ {p}) \cup {q \in {p} : t.do = "sync" /\ t.who = c}
      /\ Syncing(c) \subseteq Procs
      BY WorkGoes
<1>3. Commanding(c)' = Commanding(c) /\ Syncing(c)' = Syncing(c) /\ p \in Syncing(c)
  <2>1. p \in Syncing(c) /\ p \notin Commanding(c) /\ t.do \notin Writes
        BY DEF Syncing, Commanding, Writes
  <2>. QED BY <1>2, <2>1
<1>4. \A q \in Procs : \A dos : "sync" \notin dos =>
         (Busy(q, dos, c)' <=> Busy(q, dos, c)) /\ (Busy(q, dos, c) => q # p)
      BY BusyGoes DEF Busy
<1>5. WordInv(c)'
  <2>1. \A q \in Procs : /\ Busy(q, {"save"}, c) => Busy(q, {"save"}, c)' /\ task'[q] = task[q]
                         /\ Busy(q, {"delete"}, c) => Busy(q, {"delete"}, c)'
        BY <1>2, <1>4
  <2>2. LastWord(c)' = LastWord(c)
        BY DEF LastWord
  <2>. QED BY <1>1, <2>1, <2>2 DEF WordInv
<1>6. OwnOnly(c)'
      BY <1>1, <1>3 DEF OwnOnly, Mentions
<1>7. CopiesInv(c)'
  <2>1. \A q \in Procs : /\ Busy(q, {"save"}, c)' => Busy(q, {"save"}, c) /\ task'[q] = task[q]
                         /\ Busy(q, {"publish"}, c)' => Busy(q, {"publish"}, c) /\ task'[q] = task[q]
        BY <1>2, <1>4
  <2>2. \A q \in Syncing(c) : q = p \/ task'[q] = task[q]
        BY <1>2
  <2>. QED BY <1>1, <1>2, <1>3, <2>1, <2>2 DEF CopiesInv
<1>8. CreatedInv(c)'
  <2>1. \A q \in Procs : ~Busy(q, {"allocate", "resave"}, c)
        BY <1>1, <1>3 DEF CreatedInv
  <2>2. \A q \in Procs : ~Busy(q, {"allocate", "resave"}, c)'
        BY <1>4, <2>1
  <2>. QED BY <2>2 DEF CreatedInv
<1>9. Commanding(c)' = {} => LastSays(chan["customer"], c, rows[c])' /\ SyncInv(c)'
  <2>. SUFFICES ASSUME Commanding(c)' = {} PROVE LastSays(chan["customer"], c, rows[c])' /\ SyncInv(c)'
       OBVIOUS
  <2>1. LastSays(chan["customer"], c, rows[c]) /\ SyncInv(c)
        BY <1>1, <1>3
  <2>2. \A q \in Syncing(c) : q = p \/ task'[q] = task[q]
        BY <1>2
  <2>3. (Queued(c)' <=> Queued(c)) /\ Act(c)' = Act(c)
        BY DEF Queued, Act
  <2>4. LastSays(chan["customer"], c, rows[c])'
        BY <2>1
  <2>5. SyncInv(c)'
        BY <1>2, <1>3, <2>1, <2>2, <2>3 DEF SyncInv
  <2>. QED BY <2>4, <2>5
<1>10. ~Settled(c)'
      BY <1>3 DEF Settled
<1>. QED BY <1>5, <1>6, <1>7, <1>8, <1>9, <1>10 DEF Stands

\* Save: nobody else held a copy of the row.
LEMMA SaveStands ==
    ASSUME AccessTypeOK, AccessTypeOK', NEW c \in Customers, Stands(c), NEW p \in Procs, Save(p),
           task[p].who = c
    PROVE  Stands(c)'
<1>. SUFFICES ASSUME c \notin disturbed' PROVE Stands(c)'
     BY DEF Stands
<1>1. PICK t \in Saving : t = task[p]
      BY TaskShapes DEF Save
<1>2. t.who = c /\ t.row \in Rows /\ t.row.status \in Statuses /\ t.by \in {"status", "update"}
      BY <1>1 DEF Saving, Rows
<1>. DEFINE u == [do |-> "publish", who |-> c, row |-> t.row]
<1>3. /\ rows' = [rows EXCEPT ![c] = t.row]
      /\ told' = [told EXCEPT ![c] = IF t.by = "status" THEN t.row.status ELSE @]
      /\ Clashing(p, c) = {} /\ c \notin disturbed /\ Goes(p, u)
      /\ UNCHANGED chan
      BY <1>1, <1>2 DEF Save, Goes
<1>4. u \in Tasks /\ u.do = "publish" /\ u.who = c /\ u.row = t.row
      BY <1>2 DEF Tasks, Publishing
<1>. HIDE DEF u
<1>5. rows'[c] = t.row /\ told'[c] = IF t.by = "status" THEN t.row.status ELSE told[c]
      BY <1>3 DEF AccessTypeOK
<1>6. /\ task'[p] = u /\ \A q \in Procs \ {p} : task'[q] = task[q]
      /\ Commanding(c)' = (Commanding(c) \ {p}) \cup {q \in {p} : u.do \in Writes /\ u.who = c}
      /\ Syncing(c)' = (Syncing(c) \ {p}) \cup {q \in {p} : u.do = "sync" /\ u.who = c}
      /\ Syncing(c) \subseteq Procs
      BY <1>3, <1>4, WorkGoes
<1>7. p \in Commanding(c)' /\ Syncing(c)' \subseteq Syncing(c) \ {p}
      BY <1>4, <1>6 DEF Writes
<1>8. /\ Commanding(c) \subseteq {p}
      /\ \A q \in Syncing(c) : task[q].at # "store"
      BY <1>3 DEF Clashing
<1>9. \A q \in Procs \ {p} : \A dos : dos \subseteq Writes => ~Busy(q, dos, c)'
  <2>1. \A q \in Procs \ {p} : \A dos : dos \subseteq Writes => ~Busy(q, dos, c)
        BY <1>8, BusyIs
  <2>. QED BY <1>3, <1>4, <2>1, BusyGoes
<1>10. WordInv(c) /\ OwnOnly(c) /\ CopiesInv(c)
      BY <1>3 DEF Stands
<1>11. WordInv(c)'
  <2>1. CASE t.by = "status"
        BY <1>2, <1>5, <2>1 DEF WordInv, LastWord, Statuses
  <2>2. CASE t.by = "update"
    <3>1. Busy(p, {"save"}, c)
          BY <1>1, <1>2 DEF Busy, Saving
    <3>2. t.row.status = rows[c].status
          BY <1>1, <1>10, <2>2, <3>1 DEF CopiesInv
    <3>3. \A q \in Procs : ~(Busy(q, {"save"}, c) /\ task[q].by = "status") /\ ~Busy(q, {"delete"}, c)
      <4>1. \A q \in Procs \ {p} : ~Busy(q, {"save"}, c) /\ ~Busy(q, {"delete"}, c)
            BY <1>8, BusyIs
      <4>2. task[p].by # "status" /\ ~Busy(p, {"delete"}, c)
            BY <1>1, <2>2 DEF Busy, Saving
      <4>. QED BY <4>1, <4>2
    <3>4. rows[c].status = LastWord(c)
          BY <1>10, <3>3 DEF WordInv
    <3>. QED BY <1>5, <2>2, <3>2, <3>4 DEF WordInv, LastWord
  <2>. QED BY <1>2, <2>1, <2>2
<1>12. OwnOnly(c)'
      BY <1>3, <1>7, <1>10 DEF OwnOnly, Mentions
<1>13. CopiesInv(c)'
  <2>1. \A q \in Procs : Busy(q, {"save"}, c)' => FALSE
        BY <1>3, <1>4, <1>9, BusyGoes, BusyIs
  <2>2. \A q \in Syncing(c)' : task'[q].at # "store"
        BY <1>6, <1>7, <1>8
  <2>3. \A q \in Procs : Busy(q, {"publish"}, c)' => q = p
        BY <1>9, BusyIs
  <2>4. Same(task'[p].row, rows'[c])
        BY <1>4, <1>5, <1>6 DEF Same
  <2>. QED BY <2>1, <2>2, <2>3, <2>4 DEF CopiesInv
<1>14. CreatedInv(c)'
  <2>1. \A q \in Procs : ~Busy(q, {"allocate", "resave"}, c)'
        BY <1>3, <1>4, <1>9, BusyGoes, BusyIs
  <2>. QED BY <2>1 DEF CreatedInv
<1>. QED BY <1>7, <1>11, <1>12, <1>13, <1>14 DEF Stands, Settled

\* Delete: nobody who would bring the row back is at work.
LEMMA DeleteStands ==
    ASSUME AccessTypeOK, AccessTypeOK', NEW c \in Customers, Stands(c), NEW p \in Procs, Delete(p),
           task[p].who = c
    PROVE  Stands(c)'
<1>. SUFFICES ASSUME c \notin disturbed' PROVE Stands(c)'
     BY DEF Stands
<1>. DEFINE u == [do |-> "publish", who |-> c, row |-> NoRow]
<1>3. /\ rows' = [rows EXCEPT ![c] = NoRow] /\ told' = [told EXCEPT ![c] = "gone"]
      /\ Clashing(p, c) = {} /\ c \notin disturbed /\ Goes(p, u)
      /\ UNCHANGED chan
      BY DEF Delete, Goes
<1>4. u \in Tasks /\ u.do = "publish" /\ u.who = c /\ u.row = NoRow
      BY DEF Tasks, Publishing
<1>. HIDE DEF u
<1>5. rows'[c] = NoRow /\ told'[c] = "gone"
      BY <1>3 DEF AccessTypeOK
<1>6. /\ task'[p] = u /\ \A q \in Procs \ {p} : task'[q] = task[q]
      /\ Commanding(c)' = (Commanding(c) \ {p}) \cup {q \in {p} : u.do \in Writes /\ u.who = c}
      /\ Syncing(c)' = (Syncing(c) \ {p}) \cup {q \in {p} : u.do = "sync" /\ u.who = c}
      /\ Syncing(c) \subseteq Procs
      BY <1>3, <1>4, WorkGoes
<1>7. p \in Commanding(c)' /\ Syncing(c)' \subseteq Syncing(c) \ {p}
      BY <1>4, <1>6 DEF Writes
<1>8. /\ Commanding(c) \subseteq {p}
      /\ \A q \in Syncing(c) : task[q].at # "store"
      BY <1>3 DEF Clashing
<1>9. \A q \in Procs \ {p} : \A dos : dos \subseteq Writes => ~Busy(q, dos, c)'
  <2>1. \A q \in Procs \ {p} : \A dos : dos \subseteq Writes => ~Busy(q, dos, c)
        BY <1>8, BusyIs
  <2>. QED BY <1>3, <1>4, <2>1, BusyGoes
<1>11. WordInv(c)'
  <2>1. NoRow.status = ""
        BY DEF NoRow
  <2>2. LastWord(c)' = ""
        BY <1>5 DEF LastWord
  <2>. QED BY <1>5, <2>1, <2>2 DEF WordInv
<1>12. OwnOnly(c)'
      BY <1>3, <1>7 DEF OwnOnly, Mentions, Stands
<1>13. CopiesInv(c)'
  <2>1. \A q \in Procs : Busy(q, {"save"}, c)' => FALSE
        BY <1>3, <1>4, <1>9, BusyGoes, BusyIs
  <2>2. \A q \in Syncing(c)' : task'[q].at # "store"
        BY <1>6, <1>7, <1>8
  <2>3. \A q \in Procs : Busy(q, {"publish"}, c)' => q = p
        BY <1>9, BusyIs
  <2>4. Same(task'[p].row, rows'[c])
        BY <1>4, <1>5, <1>6 DEF Same
  <2>. QED BY <2>1, <2>2, <2>3, <2>4 DEF CopiesInv
<1>14. CreatedInv(c)'
  <2>1. \A q \in Procs : ~Busy(q, {"allocate", "resave"}, c)'
        BY <1>3, <1>4, <1>9, BusyGoes, BusyIs
  <2>. QED BY <2>1 DEF CreatedInv
<1>. QED BY <1>7, <1>11, <1>12, <1>13, <1>14 DEF Stands, Settled

\* An event sent last is the last about its customer.
LEMMA SentLast ==
    ASSUME AccessTypeOK, NEW c \in Customers, NEW e \in Messages("customer"), e.who = c,
           chan'["customer"] = Append(chan["customer"], e), NEW row, Same(e, row)
    PROVE  LastSays(chan'["customer"], c, row) /\ Mentions(chan'["customer"], c)
<1>1. PICK q \in Seq(Messages("customer")) : q = chan["customer"]
      BY ChanIs DEF Topics
<1>. DEFINE S == Messages("customer")
<1>2. q \in Seq(S) /\ e \in S
      OBVIOUS
<1>3. LastSays(Append(q, e), c, row) /\ Mentions(Append(q, e), c)
  <2>. HIDE DEF S
  <2>. QED BY <1>2, AppendFacts
<1>. QED BY <1>1, <1>3

\* Publish: what is sent agrees with the row, and is the last event about it.
LEMMA PublishStands ==
    ASSUME AccessTypeOK, AccessTypeOK', NEW c \in Customers, Stands(c), NEW p \in Procs, Publish(p),
           task[p].who = c
    PROVE  Stands(c)'
<1>. SUFFICES ASSUME c \notin disturbed' PROVE Stands(c)'
     BY DEF Stands
<1>1. PICK t \in Publishing : t = task[p]
      BY TaskShapes DEF Publish
<1>2. PICK e \in Messages("customer") : e = About(t.who, t.row)
      BY <1>1, AboutIs
<1>3. e.who = c /\ Same(e, t.row) /\ "customer" \in Topics
      BY <1>1, <1>2, AboutIs
<1>4. Send("customer", e) /\ Goes(p, Resting) /\ UNCHANGED <<rows, told>>
      BY <1>1, <1>2 DEF Publish, Goes, dbVars
<1>5. /\ chan'["customer"] = Append(chan["customer"], e)
      /\ \A u \in Topics \ {"customer"} : chan'[u] = chan[u]
      /\ c \notin disturbed
      BY <1>3, <1>4, SendMeans
<1>6. WordInv(c) /\ OwnOnly(c) /\ CopiesInv(c) /\ CreatedInv(c)
      BY <1>5 DEF Stands
<1>7. Busy(p, {"publish"}, c) /\ Resting \in Tasks /\ Resting.do = "idle"
      BY <1>1 DEF Busy, Publish, Tasks, Resting
<1>8. /\ task'[p] = Resting /\ \A q \in Procs \ {p} : task'[q] = task[q]
      /\ Syncing(c)' = Syncing(c) \ {p} /\ Syncing(c) \subseteq Procs
      BY <1>4, <1>7, WorkGoes
<1>9. /\ \A dos : \A q \in Procs \ {p} : Busy(q, dos, c)' <=> Busy(q, dos, c)
      /\ \A dos : "idle" \notin dos => ~Busy(p, dos, c)'
      BY <1>4, <1>7, BusyGoes
<1>10. Same(e, rows[c])
  <2>1. Same(t.row, rows[c])
        BY <1>1, <1>6, <1>7 DEF CopiesInv
  <2>. QED BY <1>3, <2>1 DEF Same
<1>11. LastSays(chan'["customer"], c, rows'[c]) /\ Queued(c)'
      BY <1>3, <1>4, <1>5, <1>10, SentLast, QueuedIs
<1>12. WordInv(c)'
  <2>1. \A q \in Procs : Busy(q, {"save"}, c) \/ Busy(q, {"delete"}, c) => q # p
        BY <1>7 DEF Busy
  <2>. QED BY <1>4, <1>6, <1>8, <1>9, <2>1 DEF WordInv, LastWord
<1>13. OwnOnly(c)'
      BY <1>5, <1>6, <1>8 DEF OwnOnly, Topics
<1>14. CopiesInv(c)'
      BY <1>4, <1>6, <1>8, <1>9 DEF CopiesInv
<1>15. CreatedInv(c)'
  <2>1. \A q \in Procs \ {p} : ~Busy(q, {"allocate", "resave"}, c)
    <3>1. Busy(p, {"allocate", "resave", "publish"}, c)
          BY <1>7 DEF Busy
    <3>. QED BY <1>6, <3>1 DEF CreatedInv
  <2>2. \A q \in Procs : ~Busy(q, {"allocate", "resave"}, c)'
        BY <1>9, <2>1
  <2>. QED BY <2>2 DEF CreatedInv
<1>16. SyncInv(c)' /\ ~Settled(c)'
      BY <1>11 DEF SyncInv, Settled
<1>. QED BY <1>11, <1>12, <1>13, <1>14, <1>15, <1>16 DEF Stands

\* Allocate and Resave: the row is the one just created, with an address.
LEMMA CreationStands ==
    ASSUME AccessTypeOK, AccessTypeOK', NEW c \in Customers, Stands(c), NEW p \in Procs,
           Allocate(p) \/ Resave(p), task[p].who = c
    PROVE  Stands(c)'
<1>. SUFFICES ASSUME c \notin disturbed' PROVE Stands(c)'
     BY DEF Stands
<1>1. PICK t \in Creating \cup Publishing :
         /\ Goes(p, t) /\ t.do \in {"resave", "publish"} /\ t.who = c
         /\ t.row.status = task[p].row.status /\ t.row.router \in {None, task[p].row.router}
  <2>1. CASE Allocate(p)
        BY <2>1, CreateGoesOn
  <2>2. CASE Resave(p)
    <3>1. PICK t \in Publishing : Goes(p, t) /\ t.who = c /\ t.row = task[p].row
          BY <2>2, CreateGoesOn
    <3>2. t.do = "publish"
          BY DEF Publishing
    <3>. QED BY <3>1, <3>2
  <2>. QED BY <2>1, <2>2
<1>2. t \in Tasks
      BY DEF Tasks
<1>3. UNCHANGED <<told, chan>> /\ c \notin disturbed
      BY DEF Allocate, Resave
<1>4. WordInv(c) /\ OwnOnly(c) /\ CopiesInv(c) /\ CreatedInv(c)
      BY <1>3 DEF Stands
<1>5. Busy(p, {"allocate", "resave"}, c)
      BY DEF Busy, Allocate, Resave
<1>6. /\ Same(task[p].row, rows[c]) /\ task[p].row.status = "active" /\ task[p].row.router = None
      /\ Syncing(c) = {} /\ ~Queued(c)
      /\ \A q \in Procs \ {p} : ~Busy(q, {"allocate", "resave", "publish"}, c)
      BY <1>4, <1>5 DEF CreatedInv
<1>7. /\ t.row.status = "active" /\ t.row.router = None /\ rows[c].status = "active"
      /\ rows[c].router = None
      BY <1>1, <1>6 DEF Same
<1>8. rows'[c].status = "active" /\ rows'[c].router = None
  <2>1. CASE Allocate(p)
        BY <1>7, <2>1 DEF Allocate, dbVars
  <2>2. CASE Resave(p)
    <3>1. rows' = [rows EXCEPT ![c] = task[p].row]
          BY <2>2 DEF Resave
    <3>2. rows'[c] = task[p].row
          BY <3>1 DEF AccessTypeOK
    <3>. QED BY <1>6, <3>2
  <2>. QED BY <2>1, <2>2
<1>9. /\ task'[p] = t /\ \A q \in Procs \ {p} : task'[q] = task[q]
      /\ Commanding(c)' = (Commanding(c) \ {p}) \cup {q \in {p} : t.do \in Writes /\ t.who = c}
      /\ Syncing(c)' = (Syncing(c) \ {p}) \cup {q \in {p} : t.do = "sync" /\ t.who = c}
      BY <1>1, <1>2, WorkGoes
<1>10. p \in Commanding(c)' /\ Syncing(c)' = {}
      BY <1>1, <1>6, <1>9 DEF Writes
<1>11. /\ \A dos : \A q \in Procs \ {p} : Busy(q, dos, c)' <=> Busy(q, dos, c)
       /\ \A dos : Busy(p, dos, c)' <=> t.do \in dos
      BY <1>1, <1>2, BusyGoes
<1>12. WordInv(c)'
  <2>1. \A q \in Procs : Busy(q, {"save"}, c) \/ Busy(q, {"delete"}, c) => q # p
        BY <1>5 DEF Busy
  <2>2. LastWord(c)' = LastWord(c) /\ rows'[c].status = rows[c].status
        BY <1>3, <1>7, <1>8 DEF LastWord
  <2>. QED BY <1>4, <1>9, <1>11, <2>1, <2>2 DEF WordInv
<1>13. Queued(c)' <=> Queued(c)
      BY <1>3 DEF Queued
<1>14. OwnOnly(c)'
      BY <1>3, <1>4, <1>10 DEF OwnOnly, Mentions
<1>15. Same(t.row, rows'[c])
      BY <1>7, <1>8 DEF Same
<1>16. CopiesInv(c)'
  <2>1. \A q \in Procs : Busy(q, {"save"}, c)' => q # p /\ Busy(q, {"save"}, c) /\ task'[q] = task[q]
        BY <1>1, <1>9, <1>11
  <2>2. \A q \in Procs : Busy(q, {"publish"}, c)' => q = p
    <3>1. \A q \in Procs \ {p} : ~Busy(q, {"publish"}, c)
          BY <1>6 DEF Busy
    <3>. QED BY <1>11, <3>1
  <2>. QED BY <1>4, <1>7, <1>8, <1>9, <1>10, <1>15, <2>1, <2>2 DEF CopiesInv
<1>17. CreatedInv(c)'
  <2>1. \A q \in Procs \ {p} : ~Busy(q, {"allocate", "resave", "publish"}, c)'
        BY <1>6, <1>11
  <2>2. \A q \in Procs \ {p} : ~Busy(q, {"allocate", "resave"}, c)'
        BY <2>1 DEF Busy
  <2>. QED BY <1>6, <1>7, <1>9, <1>10, <1>13, <1>15, <2>1, <2>2 DEF CreatedInv
<1>. QED BY <1>10, <1>12, <1>14, <1>16, <1>17 DEF Stands, Settled

\* The resolved address is stored: the rest of the row is as it was.
LEMMA StoreStands ==
    ASSUME AccessTypeOK, AccessTypeOK', NEW c \in Customers, Stands(c), NEW p \in Procs, StoreResolved(p),
           task[p].who = c
    PROVE  Stands(c)'
<1>. SUFFICES ASSUME c \notin disturbed' PROVE Stands(c)'
     BY DEF Stands
<1>1. /\ task[p].do = "sync" /\ task[p].at = "store"
      /\ rows' = [rows EXCEPT ![c] = task[p].row] /\ rows[c].router = task[p].router
      /\ c \notin disturbed /\ UNCHANGED <<told, chan>>
      BY DEF StoreResolved
<1>2. PICK t \in Calling : /\ Goes(p, t) /\ t.at = "router" /\ t.who = c
                           /\ t.act = task[p].act /\ t.router = task[p].router
                           /\ t.ip = task[p].ip /\ t.mac = task[p].mac
      BY <1>1, SyncGoesOn
<1>3. t \in Tasks /\ t.do = "sync"
      BY DEF Tasks, Calling
<1>4. /\ WordInv(c) /\ OwnOnly(c) /\ CopiesInv(c) /\ CreatedInv(c)
      /\ Commanding(c) = {} => LastSays(chan["customer"], c, rows[c]) /\ SyncInv(c)
      BY <1>1 DEF Stands
<1>5. p \in Syncing(c) /\ p \notin Commanding(c)
      BY <1>1 DEF Syncing, Commanding, Writes
<1>6. Syncing(c) = {p}
      BY <1>4, <1>5 DEF OwnOnly
<1>7. rows'[c] = task[p].row
      BY <1>1 DEF AccessTypeOK
<1>8. rows'[c].status = rows[c].status /\ rows'[c].router = rows[c].router
      BY <1>1, <1>4, <1>5, <1>7 DEF CopiesInv
<1>9. /\ task'[p] = t /\ \A q \in Procs \ {p} : task'[q] = task[q]
      /\ Commanding(c)' = Commanding(c) /\ Syncing(c)' = {p}
  <2>1. /\ task'[p] = t /\ \A q \in Procs \ {p} : task'[q] = task[q]
        /\ Commanding(c)' = (Commanding(c) \ {p}) \cup {q \in {p} : t.do \in Writes /\ t.who = c}
        /\ Syncing(c)' = (Syncing(c) \ {p}) \cup {q \in {p} : t.do = "sync" /\ t.who = c}
        BY <1>2, <1>3, WorkGoes
  <2>2. t.do \notin Writes
        BY <1>3 DEF Writes
  <2>. QED BY <1>2, <1>3, <1>5, <1>6, <2>1, <2>2
<1>10. \A q \in Procs : \A dos : "sync" \notin dos =>
          (Busy(q, dos, c)' <=> Busy(q, dos, c)) /\ (Busy(q, dos, c) => q # p)
      BY <1>1, <1>2, <1>3, BusyGoes DEF Busy
<1>11. WordInv(c)'
  <2>1. \A q \in Procs : /\ Busy(q, {"save"}, c) => Busy(q, {"save"}, c)' /\ task'[q] = task[q]
                         /\ Busy(q, {"delete"}, c) => Busy(q, {"delete"}, c)'
        BY <1>9, <1>10
  <2>2. LastWord(c)' = LastWord(c)
        BY <1>1 DEF LastWord
  <2>. QED BY <1>4, <1>8, <2>1, <2>2 DEF WordInv
<1>12. OwnOnly(c)'
      BY <1>1, <1>4, <1>6, <1>9 DEF OwnOnly, Mentions
<1>13. CopiesInv(c)'
  <2>1. \A q \in Procs : /\ Busy(q, {"save"}, c)' => Busy(q, {"save"}, c) /\ task'[q] = task[q]
                         /\ Busy(q, {"publish"}, c)' => Busy(q, {"publish"}, c) /\ task'[q] = task[q]
        BY <1>9, <1>10
  <2>2. \A q \in Procs : Same(task[q].row, rows[c]) => Same(task[q].row, rows'[c])
        BY <1>8 DEF Same
  <2>. QED BY <1>2, <1>4, <1>8, <1>9, <2>1, <2>2 DEF CopiesInv
<1>14. CreatedInv(c)'
  <2>1. \A q \in Procs : ~Busy(q, {"allocate", "resave"}, c)
        BY <1>4, <1>5 DEF CreatedInv
  <2>2. \A q \in Procs : ~Busy(q, {"allocate", "resave"}, c)'
        BY <1>10, <2>1
  <2>. QED BY <2>2 DEF CreatedInv
<1>15. Commanding(c)' = {} => LastSays(chan["customer"], c, rows[c])' /\ SyncInv(c)'
  <2>. SUFFICES ASSUME Commanding(c)' = {} PROVE LastSays(chan["customer"], c, rows[c])' /\ SyncInv(c)'
       OBVIOUS
  <2>1. LastSays(chan["customer"], c, rows[c]) /\ SyncInv(c)
        BY <1>4, <1>9
  <2>2. LastSays(chan["customer"], c, rows[c])'
        BY <1>1, <1>8, <2>1 DEF LastSays, Same
  <2>3. Act(c)' = Act(c) /\ (Queued(c)' <=> Queued(c))
        BY <1>1, <1>8 DEF Act, Queued
  <2>4. SyncInv(c)'
    <3>. SUFFICES ASSUME ~Queued(c)' PROVE SyncInv(c)'
         BY DEF SyncInv
    <3>1. /\ task[p].act = Act(c) /\ task[p].router = rows[c].router
          /\ task[p].row.ip = task[p].ip /\ task[p].row.mac = task[p].mac
          BY <1>1, <1>5, <2>1, <2>3 DEF SyncInv
    <3>. QED BY <1>2, <1>7, <1>8, <1>9, <2>3, <3>1 DEF SyncInv
  <2>. QED BY <2>2, <2>4
<1>16. ~Settled(c)'
      BY <1>9 DEF Settled
<1>. QED BY <1>11, <1>12, <1>13, <1>14, <1>15, <1>16 DEF Stands

\* The call to the router: what the row says is done.
LEMMA CallStands ==
    ASSUME AccessTypeOK, AccessTypeOK', NEW c \in Customers, Stands(c), NEW p \in Procs, CallRouter(p),
           task[p].who = c
    PROVE  Stands(c)'
<1>. SUFFICES ASSUME c \notin disturbed' PROVE Stands(c)'
     BY DEF Stands
<1>1. /\ Goes(p, Resting) /\ UNCHANGED <<rows, told, chan>> /\ disturbed \subseteq disturbed'
      /\ \/ task[p].act = "enable" /\ ~task[p].mac /\ UNCHANGED arp
         \/ /\ task[p].act = "enable" => task[p].mac
            /\ arp'[task[p].router][task[p].ip] =
                 IF task[p].act = "enable" THEN Granted(c) ELSE Withdrawn(arp[task[p].router][task[p].ip])
      BY CallIs DEF dbVars
<1>2. PICK t \in Calling : t = task[p]
      BY CallIs
<1>3. /\ t.do = "sync" /\ t.who = c /\ t.at = "router" /\ t.act \in Acts /\ t.router \in Routers
      /\ t.ip \in IPs /\ t.mac \in BOOLEAN /\ Resting \in Tasks /\ Resting.do = "idle"
      BY <1>2 DEF Calling, Tasks, Resting, CallRouter
<1>4. /\ WordInv(c) /\ OwnOnly(c) /\ CopiesInv(c) /\ CreatedInv(c)
      /\ Commanding(c) = {} => LastSays(chan["customer"], c, rows[c]) /\ SyncInv(c)
      BY <1>1 DEF Stands
<1>5. p \in Syncing(c) /\ p \notin Commanding(c)
      BY <1>2, <1>3 DEF Syncing, Commanding, Writes
<1>6. Syncing(c) = {p}
      BY <1>4, <1>5 DEF OwnOnly
<1>7. /\ task'[p] = Resting /\ \A q \in Procs \ {p} : task'[q] = task[q]
      /\ Commanding(c)' = Commanding(c) /\ Syncing(c)' = {}
  <2>1. /\ task'[p] = Resting /\ \A q \in Procs \ {p} : task'[q] = task[q]
        /\ Commanding(c)' = (Commanding(c) \ {p}) \cup {q \in {p} : Resting.do \in Writes /\ Resting.who = c}
        /\ Syncing(c)' = (Syncing(c) \ {p}) \cup {q \in {p} : Resting.do = "sync" /\ Resting.who = c}
        BY <1>1, <1>3, WorkGoes
  <2>2. Resting.do \notin Writes /\ Resting.do # "sync"
        BY <1>3 DEF Writes
  <2>. QED BY <1>5, <1>6, <2>1, <2>2
<1>8. \A q \in Procs : \A dos : "sync" \notin dos /\ "idle" \notin dos =>
         (Busy(q, dos, c)' <=> Busy(q, dos, c)) /\ (Busy(q, dos, c) => q # p)
      BY <1>1, <1>2, <1>3, BusyGoes DEF Busy
<1>9. WordInv(c)'
  <2>1. \A q \in Procs : /\ Busy(q, {"save"}, c) => Busy(q, {"save"}, c)' /\ task'[q] = task[q]
                         /\ Busy(q, {"delete"}, c) => Busy(q, {"delete"}, c)'
        BY <1>7, <1>8
  <2>2. LastWord(c)' = LastWord(c)
        BY <1>1 DEF LastWord
  <2>. QED BY <1>1, <1>4, <2>1, <2>2 DEF WordInv
<1>10. OwnOnly(c)'
      BY <1>1, <1>4, <1>7 DEF OwnOnly, Mentions
<1>11. CopiesInv(c)'
  <2>1. \A q \in Procs : /\ Busy(q, {"save"}, c)' => Busy(q, {"save"}, c) /\ task'[q] = task[q]
                         /\ Busy(q, {"publish"}, c)' => Busy(q, {"publish"}, c) /\ task'[q] = task[q]
        BY <1>7, <1>8
  <2>. QED BY <1>1, <1>4, <1>7, <2>1 DEF CopiesInv
<1>12. CreatedInv(c)'
  <2>1. \A q \in Procs : ~Busy(q, {"allocate", "resave"}, c)
        BY <1>4, <1>5 DEF CreatedInv
  <2>2. \A q \in Procs : ~Busy(q, {"allocate", "resave"}, c)'
        BY <1>8, <2>1
  <2>. QED BY <2>2 DEF CreatedInv
<1>13. Commanding(c)' = {} => LastSays(chan["customer"], c, rows[c])' /\ SyncInv(c)'
      BY <1>1, <1>4, <1>7 DEF SyncInv
<1>14. Settled(c)' => Lets(c)'
  <2>. SUFFICES ASSUME Settled(c)', rows[c].router # None, rows[c].ip # None PROVE Lets(c)'
       BY <1>1 DEF Lets
  <2>1. Commanding(c) = {} /\ ~Queued(c)
        BY <1>1, <1>7 DEF Settled, Queued
  <2>2. t.act = Act(c) /\ t.router = rows[c].router /\ rows[c].ip = t.ip /\ rows[c].mac = t.mac
        BY <1>2, <1>3, <1>4, <1>5, <2>1 DEF SyncInv
  <2>. DEFINE e == arp'[t.router][t.ip]
  <2>3. /\ Barred(rows[c].status) => ~e.up
        /\ rows[c].status = "active" /\ rows[c].mac => e = Granted(c)
    <3>1. CASE t.act = "enable" /\ ~t.mac
          BY <2>2, <3>1 DEF Act
    <3>2. CASE t.act = "enable" /\ t.mac
      <4>1. e = Granted(c)
            BY <1>1, <1>2, <3>2
      <4>. QED BY <2>2, <3>2, <4>1 DEF Act
    <3>3. CASE t.act # "enable"
      <4>1. e = Withdrawn(arp[t.router][t.ip])
            BY <1>1, <1>2, <3>3
      <4>2. PICK f \in [IPs -> [up : BOOLEAN, who : Customers \cup {None}]] : f = arp[t.router]
            BY <1>3 DEF AccessTypeOK
      <4>3. f[t.ip] \in [up : BOOLEAN, who : Customers \cup {None}]
            BY <1>3, <4>2
      <4>4. ~e.up
            BY <4>1, <4>2, <4>3 DEF Withdrawn
      <4>5. Barred(rows[c].status)
            BY <2>2, <3>3 DEF Act
      <4>6. rows[c].status # "active"
            BY <4>5 DEF Barred
      <4>. QED BY <4>4, <4>6
    <3>. QED BY <1>3, <3>1, <3>2, <3>3
  <2>. QED BY <1>1, <2>2, <2>3 DEF Lets, Granted
<1>. QED BY <1>9, <1>10, <1>11, <1>12, <1>13, <1>14 DEF Stands

\* The worker hears an announcement; if it is the last, it sets out to do what
\* the row says.
LEMMA HearStands ==
    ASSUME AccessTypeOK, AccessTypeOK', NEW c \in Customers, Stands(c), HearCustomer,
           Head(chan["customer"]).who = c
    PROVE  Stands(c)'
<1>. SUFFICES ASSUME c \notin disturbed' PROVE Stands(c)'
     BY DEF Stands
<1>. DEFINE event == Head(chan["customer"])
<1>0. "customer" \in Topics /\ "disable" \in Acts /\ "enable" \in Acts
      BY DEF Topics, Acts
<1>1. Take("customer") /\ UNCHANGED <<rows, told, disturbed>>
      BY DEF HearCustomer, dbVars
<1>2. /\ chan'["customer"] = Tail(chan["customer"])
      /\ \A t \in Topics \ {"customer"} : chan'[t] = chan[t]
      /\ chan["customer"] \in Seq(Messages("customer")) /\ chan["customer"] # <<>>
      /\ Worker \in Procs /\ task[Worker] = Resting
      BY <1>0, <1>1, TailTyped
<1>3. /\ WordInv(c) /\ OwnOnly(c) /\ CopiesInv(c) /\ CreatedInv(c)
      /\ Commanding(c) = {} => LastSays(chan["customer"], c, rows[c]) /\ SyncInv(c)
      BY <1>1 DEF Stands
<1>4. Resting.do = "idle" /\ Resting \in Tasks /\ Worker \notin Syncing(c) /\ Worker \notin Commanding(c)
      BY <1>2 DEF Resting, Tasks, Syncing, Commanding, Writes
<1>5. Syncing(c) = {}
      BY <1>3, <1>4 DEF OwnOnly
<1>6. PICK q \in Seq(Messages("customer")) : q = chan["customer"]
      BY <1>2
<1>. DEFINE S == Messages("customer")
<1>7. q \in Seq(S) /\ q # <<>>
      BY <1>2, <1>6
<1>8. /\ Mentions(q, c)
      /\ LastSays(q, c, rows[c]) => LastSays(Tail(q), c, rows[c])
      /\ LastSays(q, c, rows[c]) /\ ~Mentions(Tail(q), c) => Same(Head(q), rows[c])
  <2>1. Head(q).who = c
        BY <1>6
  <2>. HIDE DEF S
  <2>. QED BY <1>7, <2>1, TailFacts
<1>. HIDE DEF S
<1>9. Queued(c)
      BY <1>0, <1>6, <1>8, QueuedIs
\* What becomes of the worker.
<1>10. PICK t \in Tasks :
          /\ Goes(Worker, t)
          /\ \/ t = Resting /\ (event.router = None \/ rows[c].router = None \/ rows[c].ip = None)
             \/ /\ t.do = "sync" /\ t.who = c /\ t.at # "store"
                /\ t.act = (IF Barred(event.status) THEN "disable" ELSE "enable")
                /\ t.router = rows[c].router
                /\ t.at = "router" => t.ip = rows[c].ip /\ t.mac = rows[c].mac
  <2>1. CASE event.router = None
    <3>1. task' = task
          BY <2>1 DEF HearCustomer
    <3>2. Goes(Worker, Resting)
          BY <1>2, <3>1 DEF Goes, AccessTypeOK
    <3>. QED BY <1>4, <2>1, <3>2
  <2>2. CASE event.router # None
    <3>1. PICK act \in Acts : act = IF Barred(event.status) THEN "disable" ELSE "enable"
          BY <1>0
    <3>2. SyncStart(Worker, c, act)
          BY <2>2, <3>1 DEF HearCustomer
    <3>. HIDE DEF event
    <3>3. CASE Goes(Worker, Resting) /\ (rows[c].router = None \/ rows[c].ip = None)
          BY <1>4, <3>3
    <3>4. ASSUME NEW t \in Calling, Goes(Worker, t), t.at = "router", t.who = c, t.act = act,
                 t.router = rows[c].router, t.ip = rows[c].ip, t.mac = rows[c].mac
          PROVE  t \in Tasks /\ t.do = "sync"
          BY DEF Calling, Tasks
    <3>5. ASSUME NEW t \in Resolving, Goes(Worker, t), t.at = "lookup", t.who = c, t.act = act,
                 t.router = rows[c].router
          PROVE  t \in Tasks /\ t.do = "sync"
          BY DEF Resolving, Tasks
    <3>. QED BY <1>2, <3>1, <3>2, <3>3, <3>4, <3>5, SyncBegins
  <2>. QED BY <2>1, <2>2
<1>. HIDE DEF event
<1>11. /\ task'[Worker] = t /\ \A r \in Procs \ {Worker} : task'[r] = task[r]
       /\ Commanding(c)' = Commanding(c)
       /\ Syncing(c)' = {r \in {Worker} : t.do = "sync" /\ t.who = c}
  <2>1. /\ task'[Worker] = t /\ \A r \in Procs \ {Worker} : task'[r] = task[r]
        /\ Commanding(c)' = (Commanding(c) \ {Worker}) \cup {r \in {Worker} : t.do \in Writes /\ t.who = c}
        /\ Syncing(c)' = (Syncing(c) \ {Worker}) \cup {r \in {Worker} : t.do = "sync" /\ t.who = c}
        BY <1>2, <1>10, WorkGoes
  <2>2. t.do \notin Writes
        BY <1>4, <1>10 DEF Writes
  <2>. QED BY <1>4, <1>5, <2>1, <2>2
<1>12. \A r \in Procs : \A dos : "sync" \notin dos /\ "idle" \notin dos =>
          (Busy(r, dos, c)' <=> Busy(r, dos, c)) /\ (Busy(r, dos, c) => r # Worker)
  <2>1. /\ \A dos : \A r \in Procs \ {Worker} : Busy(r, dos, c)' <=> Busy(r, dos, c)
        /\ \A dos : Busy(Worker, dos, c)' <=> t.do \in dos /\ t.who = c
        BY <1>2, <1>10, BusyGoes
  <2>2. t.do \in {"idle", "sync"} /\ task[Worker].do = "idle"
        BY <1>2, <1>4, <1>10
  <2>3. \A dos : "sync" \notin dos /\ "idle" \notin dos => ~Busy(Worker, dos, c) /\ ~Busy(Worker, dos, c)'
        BY <2>1, <2>2 DEF Busy
  <2>. QED BY <2>1, <2>3
<1>13. WordInv(c)'
  <2>1. \A r \in Procs : /\ Busy(r, {"save"}, c) => Busy(r, {"save"}, c)' /\ task'[r] = task[r]
                         /\ Busy(r, {"delete"}, c) => Busy(r, {"delete"}, c)'
        BY <1>11, <1>12
  <2>2. LastWord(c)' = LastWord(c)
        BY <1>1 DEF LastWord
  <2>. QED BY <1>1, <1>3, <2>1, <2>2 DEF WordInv
<1>14. OwnOnly(c)'
      BY <1>2, <1>3, <1>11 DEF OwnOnly, Topics
<1>15. CopiesInv(c)'
  <2>1. \A r \in Procs : /\ Busy(r, {"save"}, c)' => Busy(r, {"save"}, c) /\ task'[r] = task[r]
                         /\ Busy(r, {"publish"}, c)' => Busy(r, {"publish"}, c) /\ task'[r] = task[r]
        BY <1>11, <1>12
  <2>2. \A r \in Syncing(c)' : task'[r].at # "store"
        BY <1>4, <1>10, <1>11
  <2>. QED BY <1>1, <1>3, <2>1, <2>2 DEF CopiesInv
<1>16. CreatedInv(c)'
  <2>1. \A r \in Procs : ~Busy(r, {"allocate", "resave"}, c)
        BY <1>3, <1>9 DEF CreatedInv
  <2>2. \A r \in Procs : ~Busy(r, {"allocate", "resave"}, c)'
        BY <1>12, <2>1
  <2>. QED BY <2>2 DEF CreatedInv
<1>17. ASSUME Commanding(c)' = {}
       PROVE  /\ LastSays(chan["customer"], c, rows[c])'
              /\ ~Queued(c)' => Same(event, rows[c])
  <2>1. LastSays(q, c, rows[c])
        BY <1>3, <1>6, <1>11, <1>17
  <2>2. chan'["customer"] = Tail(q) /\ event = Head(q)
        BY <1>2, <1>6 DEF event
  <2>3. ~Queued(c)' => ~Mentions(Tail(q), c)
        BY <1>0, <2>2, QueuedIs
  <2>. QED BY <1>1, <1>8, <2>1, <2>2, <2>3
<1>18. Commanding(c)' = {} => SyncInv(c)'
  <2>. SUFFICES ASSUME Commanding(c)' = {}, ~Queued(c)' PROVE SyncInv(c)'
       BY DEF SyncInv
  <2>1. event.status = rows[c].status
        BY <1>17 DEF Same
  <2>2. Act(c)' = IF Barred(event.status) THEN "disable" ELSE "enable"
        BY <1>1, <2>1 DEF Act
  <2>. QED BY <1>1, <1>4, <1>10, <1>11, <2>2 DEF SyncInv
<1>19. Settled(c)' => Lets(c)'
  <2>. SUFFICES ASSUME Settled(c)' PROVE rows[c].router = None \/ rows[c].ip = None
       BY <1>1 DEF Lets
  <2>1. Commanding(c)' = {} /\ Syncing(c)' = {} /\ ~Queued(c)'
        BY DEF Settled
  <2>2. t = Resting /\ (event.router = None \/ rows[c].router = None \/ rows[c].ip = None)
        BY <1>10, <1>11, <2>1
  <2>3. event.router = rows[c].router
        BY <1>17, <2>1 DEF Same
  <2>. QED BY <2>2, <2>3
<1>. QED BY <1>13, <1>14, <1>15, <1>16, <1>17, <1>18, <1>19 DEF Stands

\* Every further step keeps what stands.
LEMMA ContinueStands ==
    ASSUME AccessTypeOK, AccessTypeOK', NEW c \in Customers, Stands(c), NEW p \in Procs, Continue(p),
           Touches(p, c)
    PROVE  Stands(c)'
<1>1. task[p].who = c
      BY DEF Touches
<1>2. CASE Lookup(p)
  <2>1. task[p].do = "sync" /\ UNCHANGED <<rows, told, chan, disturbed>>
        BY <1>2 DEF Lookup, dbVars
  <2>2. PICK t \in Calling \cup Resolving :
           /\ Goes(p, t) /\ t.at \in {"find", "claim"}
           /\ t.who = task[p].who /\ t.act = task[p].act /\ t.router = task[p].router
        BY <1>2, <2>1, SyncGoesOn
  <2>3. t \in Tasks /\ t.do = "sync"
        BY DEF Tasks, Calling, Resolving
  <2>. QED BY <1>1, <2>1, <2>2, <2>3, ResolvingStands
<1>3. CASE Claim(p)
  <2>. SUFFICES ASSUME c \notin disturbed' PROVE Stands(c)'
       BY DEF Stands
  <2>1. task[p].do = "sync" /\ UNCHANGED <<rows, told, chan>>
        BY <1>3 DEF Claim, dbVars
  <2>2. PICK t \in Calling :
           /\ Goes(p, t) /\ t.at = "find" /\ UNCHANGED disturbed
           /\ t.who = task[p].who /\ t.act = task[p].act /\ t.router = task[p].router
        BY <1>1, <1>3, <2>1, SyncGoesOn
  <2>3. t \in Tasks /\ t.do = "sync"
        BY DEF Tasks, Calling
  <2>. QED BY <1>1, <2>1, <2>2, <2>3, ResolvingStands
<1>4. CASE FindToResolve(p)
  <2>. SUFFICES ASSUME c \notin disturbed' PROVE Stands(c)'
       BY DEF Stands
  <2>1. task[p].do = "sync" /\ UNCHANGED <<rows, told, chan>>
        BY <1>4 DEF FindToResolve, dbVars
  <2>2. PICK t \in Storing :
           /\ Goes(p, t) /\ UNCHANGED disturbed
           /\ t.who = task[p].who /\ t.act = task[p].act /\ t.router = task[p].router
           /\ t.row.status = rows[t.who].status
           /\ t.row.router = t.router /\ t.row.ip = t.ip /\ t.row.mac = t.mac
        BY <1>1, <1>4, <2>1, SyncGoesOn
  <2>3. t \in Tasks /\ t.do = "sync" /\ t.at = "store"
        BY DEF Tasks, Storing
  <2>. QED BY <1>1, <2>1, <2>2, <2>3, ResolvingStands
<1>. QED BY <1>1, <1>2, <1>3, <1>4, SaveStands, PublishStands, CreationStands, DeleteStands, StoreStands,
            CallStands DEF Continue

\* Every step does.
LEMMA StandsKept ==
    ASSUME AccessTypeOK, AccessTypeOK', NEW c \in Customers, Unknown(c), Stands(c), AccessNext
    PROVE  Stands(c)'
<1>1. ASSUME NEW topic \in {"service", "arp"}, HearRequest(topic), Head(chan[topic]).who = c
      PROVE  Stands(c)'
  <2>. SUFFICES ASSUME c \notin disturbed' PROVE FALSE
       BY DEF Stands
  <2>1. Take(topic) /\ UNCHANGED disturbed /\ topic \in Topics
        BY <1>1 DEF HearRequest, Topics
  <2>2. OwnOnly(c)
        BY <2>1 DEF Stands
  <2>3. PICK q \in Seq(Messages(topic)) : q = chan[topic]
        BY <2>1, TailTyped
  <2>4. q # <<>> /\ Head(q).who = c
        BY <1>1, <2>1, <2>3 DEF Take
  <2>. DEFINE S == Messages(topic)
  <2>5. q \in Seq(S)
        OBVIOUS
  <2>6. Mentions(q, c)
    <3>. HIDE DEF S
    <3>. QED BY <2>4, <2>5, TailFacts
  <2>. QED BY <2>2, <2>3, <2>6 DEF OwnOnly
<1>. QED BY <1>1, WhoseStep, StandsSpared, OperateStands, ContinueStands, HearStands

AccessInv == AccessTypeOK /\ \A c \in Customers : Unknown(c) /\ Stands(c)

\* The invariant holds at first,
LEMMA AccessInitInv == AccessInit => AccessInv
<1>. SUFFICES ASSUME AccessInit PROVE AccessInv
     OBVIOUS
<1>1. AccessTypeOK
      BY AccessInitTypes
<1>2. ASSUME NEW c \in Customers PROVE Unknown(c) /\ Stands(c)
  <2>1. /\ Commanding(c) = {} /\ Syncing(c) = {} /\ ~Queued(c)
        /\ \A p \in Procs : task[p].do = "idle" /\ ~Touches(p, c)
        /\ \A t \in Topics : chan[t] = <<>>
        /\ told[c] = rows[c].status
        /\ \/ rows[c] = NoRow /\ Leased(c) = {}
           \/ /\ rows[c].status = "active" /\ rows[c].router \in Routers
              /\ rows[c].ip \in Leased(c) /\ arp[rows[c].router][rows[c].ip] = [up |-> TRUE, who |-> c]
        BY InitFacts
  <2>2. Unknown(c)
        BY <2>1 DEF Unknown
  <2>3. \A p \in Procs : \A dos : "idle" \notin dos => ~Busy(p, dos, c)
        BY <2>1 DEF Busy
  <2>4. WordInv(c)
    <3>1. told[c] # "gone"
          BY <2>1, RowShapes, <1>1 DEF Statuses
    <3>. QED BY <2>1, <3>1 DEF WordInv, LastWord
  <2>5. OwnOnly(c) /\ SyncInv(c)
        BY <2>1, QueuedIs DEF OwnOnly, SyncInv
  <2>6. CopiesInv(c)
        BY <2>1, <2>3 DEF CopiesInv
  <2>7. CreatedInv(c)
        BY <2>3 DEF CreatedInv
  <2>8. LastSays(chan["customer"], c, rows[c])
    <3>1. DOMAIN chan["customer"] = {}
          BY <2>1 DEF Topics
    <3>. QED BY <3>1 DEF LastSays
  <2>9. Lets(c)
    <3>1. CASE rows[c] = NoRow
      <4>1. NoRow.router = None
            BY DEF NoRow
      <4>. QED BY <3>1, <4>1 DEF Lets
    <3>2. CASE rows[c] # NoRow
          BY <2>1, <3>2 DEF Lets, Granted, Barred
    <3>. QED BY <3>1, <3>2
  <2>. QED BY <2>2, <2>4, <2>5, <2>6, <2>7, <2>8, <2>9 DEF Stands
<1>. QED BY <1>1, <1>2 DEF AccessInv

\* and every step keeps it.
LEMMA AccessStepInv == AccessInv /\ [AccessNext]_accessVars => AccessInv'
<1>. SUFFICES ASSUME AccessInv, [AccessNext]_accessVars PROVE AccessInv'
     OBVIOUS
<1>1. AccessTypeOK /\ AccessTypeOK'
      BY AccessTypesHold DEF AccessInv
<1>2. SUFFICES ASSUME NEW c \in Customers PROVE Unknown(c)' /\ Stands(c)'
      BY <1>1 DEF AccessInv
<1>3. Unknown(c) /\ Stands(c)
      BY DEF AccessInv
<1>4. CASE AccessNext
      BY <1>1, <1>3, <1>4, UnknownKept, StandsKept
<1>5. CASE UNCHANGED accessVars
  <2>1. Unknown(c)'
        BY <1>3, <1>5 DEF accessVars, Unknown, Leased, Queued, Touches
  <2>2. Spared(c)
        BY <1>5 DEF accessVars, Spared, Leased, Passes, EntryStays
  <2>. QED BY <1>1, <1>3, <2>1, <2>2, StandsSpared
<1>. QED BY <1>4, <1>5

\* What is settled stands: the row says the last word, the router what the row says.
LEMMA SettledStands ==
    ASSUME AccessInv, NEW c \in Customers, Settled(c), c \notin disturbed
    PROVE  rows[c].status = LastWord(c) /\ Lets(c)
<1>1. WordInv(c) /\ Lets(c) /\ Commanding(c) = {}
      BY DEF AccessInv, Stands, Settled
<1>2. \A p \in Procs : ~Busy(p, {"save"}, c) /\ ~Busy(p, {"delete"}, c)
      BY <1>1, BusyIs
<1>. QED BY <1>1, <1>2 DEF WordInv

\* The row says what the last status command said (LastWordStands), whoever saved
\* the whole row in between.
THEOREM LastWordKept == AccessSpec => []LastWordStands
<1>1. AccessInv => LastWordStands
  <2>. SUFFICES ASSUME AccessInv, NEW c \in Customers, Settled(c), c \notin disturbed
                PROVE  rows[c].status = IF told[c] = "gone" THEN "" ELSE told[c]
       BY DEF LastWordStands
  <2>. QED BY SettledStands DEF LastWord
<1>. QED BY <1>1, AccessInitInv, AccessStepInv, PTL DEF AccessSpec

\* The router lets in whom the last word lets in, and nobody barred
\* (AccessSettles), in whatever order events, syncs and commands came.
THEOREM AccessFollows == AccessSpec => []AccessSettles
<1>1. AccessInv => AccessSettles
  <2>. SUFFICES ASSUME AccessInv, NEW c \in Customers, Settled(c), c \notin disturbed,
                       rows[c].router # None, rows[c].ip # None
                PROVE  LET entry == arp[rows[c].router][rows[c].ip] IN
                       /\ told[c] \in {"suspended", "churned"} => ~(entry.up /\ entry.who = c)
                       /\ told[c] = "active" /\ rows[c].mac => entry = [up |-> TRUE, who |-> c]
       BY DEF AccessSettles
  <2>1. rows[c].status = LastWord(c) /\ Lets(c)
        BY SettledStands
  <2>. QED BY <2>1 DEF Lets, LastWord, Barred, Granted
<1>. QED BY <1>1, AccessInitInv, AccessStepInv, PTL DEF AccessSpec
=============================================================================
