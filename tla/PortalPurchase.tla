--------------------------- MODULE PortalPurchase ---------------------------
(***************************************************************************)
(* Buying a VM and topping up in the customer portal.  Three parties act:  *)
(* the portal binary (HTTP handlers), Stripe (checkout sessions and        *)
(* webhooks) and the core binary (the NATS bridge), which owns the         *)
(* balance.  The portal reaches the core by request/reply with a 5 s       *)
(* deadline; each subject of the bridge is one subscription, so its        *)
(* messages are handled one at a time and in order.                        *)
(***************************************************************************)
EXTENDS PrepaidBalance

CONSTANTS
    Requests,       \* submissions of the checkout form
    Plans,          \* VM plans
    Prices,         \* prices a plan may have
    Corrections,    \* amounts an admin adjusts a balance by
    MaxDeliveries,  \* bound: webhook deliveries per session
    MaxCrashes,     \* bound: restarts of the core
    MaxEdits        \* bound: plan edits by an admin; a correction counts for all

ASSUME SetAssumption == IsFiniteSet(Requests) /\ Customers # {} /\ Plans # {}
ASSUME PriceAssumption == Prices \subseteq Amounts /\ Corrections \subseteq Adjustments
ASSUME BoundAssumption == {MaxDeliveries, MaxCrashes} \subseteq Nat /\ MaxEdits \in Nat \ {0}

VARIABLES
    plan,           \* vm_plans: price and enabled flag
    checkout,       \* portal side of each request
    session,        \* Stripe's checkout sessions
    deductQ,        \* requests pending on SubjectBalanceDeductVM, head in hand
    topupQ,         \* sessions pending on SubjectBalanceTopupComplete
    provisionQ,     \* sessions pending on SubjectVMProvision
    bridge,         \* handleBalanceDeductVM: its stage, price and context
    paid,           \* history: what the bridge deducted for each request
    refunded,       \* history: what it gave back
    adjusted,       \* history: what an admin added to each balance
    late,           \* history: requests whose 30 s context ran out
    outcome,        \* history: how the last CreateVM call for it ended
    crashes, edits  \* bounded counters

portalVars == <<checkout, session>>
queueVars == <<deductQ, topupQ, provisionQ>>
historyVars == <<paid, refunded, adjusted, late, outcome>>
boundVars == <<crashes, edits>>
vars == <<billingVars, plan, portalVars, queueVars, bridge, historyVars,
          boundVars>>

Stages == {"idle", "priced", "waiting", "redirected", "ok", "error"}
IdleBridge == [stage |-> "idle", price |-> 0, expired |-> FALSE]
NoName == "no name"

-----------------------------------------------------------------------------
(* Portal: the checkout form *)

\* ListVMPlans returns the enabled plans; a plan not among them ends the
\* request with an error page.  The price is remembered.
ReadPlans(r, c, p) ==
    /\ checkout[r].stage = "idle"
    /\ checkout' = [checkout EXCEPT ![r] =
          [stage |-> IF plan[p].enabled THEN "priced" ELSE "error",
           customer |-> c, plan |-> p, price |-> plan[p].price]]
    /\ UNCHANGED <<billingVars, plan, session, queueVars, bridge, historyVars,
                   boundVars>>

\* The balance read is >= the price read before: ask the core to deduct it.
\* A core that is away never gets the message.
BuyWithBalance(r) ==
    /\ checkout[r].stage = "priced"
    /\ GetBalance(checkout[r].customer) >= checkout[r].price
    /\ checkout' = [checkout EXCEPT ![r].stage = "waiting"]
    /\ deductQ' = Append(deductQ, r) \/ UNCHANGED deductQ
    /\ UNCHANGED <<billingVars, plan, session, topupQ, provisionQ, bridge,
                   historyVars, boundVars>>

OpenSession(s, kind, c, p, a) ==
    /\ session[s].kind = "none"
    /\ session' = [session EXCEPT ![s] =
          [kind |-> kind, customer |-> c, plan |-> p, amount |-> a,
           paid |-> FALSE, deliveries |-> 0]]

\* Too little balance, or the balance request failed and counts as 0: a
\* Stripe session for the price, unless Stripe refuses.
PayByCard(r) ==
    /\ checkout[r].stage = "priced"
    /\ \/ /\ checkout' = [checkout EXCEPT ![r].stage = "redirected"]
          /\ \E s \in Sessions :
                OpenSession(s, "vm_purchase", checkout[r].customer,
                            checkout[r].plan, checkout[r].price)
       \/ /\ checkout' = [checkout EXCEPT ![r].stage = "error"]
          /\ UNCHANGED session
    /\ UNCHANGED <<billingVars, plan, queueVars, bridge, historyVars, boundVars>>

\* The request's 5 s are over before the reply: an error page, whatever the
\* core still does with the message.
RpcTimeout(r) ==
    /\ checkout[r].stage = "waiting"
    /\ checkout' = [checkout EXCEPT ![r].stage = "error"]
    /\ UNCHANGED <<billingVars, plan, session, queueVars, bridge, historyVars,
                   boundVars>>

OpenTopup(s, c, a) ==
    /\ OpenSession(s, "balance_topup", c, CHOOSE p \in Plans : TRUE, a)
    /\ UNCHANGED <<billingVars, plan, checkout, queueVars, bridge, historyVars,
                   boundVars>>

-----------------------------------------------------------------------------
(* Stripe *)

Pay(s) ==
    /\ session[s].kind # "none" /\ ~session[s].paid
    /\ session' = [session EXCEPT ![s].paid = TRUE]
    /\ UNCHANGED <<billingVars, plan, checkout, queueVars, bridge, historyVars,
                   boundVars>>

\* Slip: every completed session taken for a top-up.
DeliverUnsorted(s) ==
    /\ session[s].paid /\ session[s].deliveries < MaxDeliveries
    /\ session' = [session EXCEPT ![s].deliveries = @ + 1]
    /\ topupQ' = Append(topupQ, s)
    /\ UNCHANGED <<billingVars, plan, checkout, deductQ, provisionQ, bridge,
                   historyVars, boundVars>>

\* checkout.session.completed, answered 200 whatever comes of it.  The
\* dispatch asks the core by the kind in the metadata; the request may be
\* lost.  Stripe delivers at least once, so an event may come again.
Deliver(s) ==
    /\ session[s].paid /\ session[s].deliveries < MaxDeliveries
    /\ session' = [session EXCEPT ![s].deliveries = @ + 1]
    /\ \/ /\ session[s].kind = "balance_topup"
          /\ topupQ' = Append(topupQ, s)
          /\ UNCHANGED provisionQ
       \/ /\ session[s].kind = "vm_purchase"
          /\ provisionQ' = Append(provisionQ, s)
          /\ UNCHANGED topupQ
       \/ UNCHANGED <<topupQ, provisionQ>>
    /\ UNCHANGED <<billingVars, plan, checkout, deductQ, bridge, historyVars,
                   boundVars>>

-----------------------------------------------------------------------------
(* Core: handleBalanceTopupComplete and handleVMProvision *)

\* A session credited before is refused by the index; the error goes to the
\* portal's log.
CompleteTopup ==
    /\ topupQ # <<>>
    /\ topupQ' = Tail(topupQ)
    /\ LET s == Head(topupQ)
       IN  IF SessionFree(s)
           THEN TopUp(session[s].customer, session[s].amount, s)
           ELSE UNCHANGED billingVars
    /\ UNCHANGED <<plan, portalVars, deductQ, provisionQ, bridge, historyVars,
                   boundVars>>

\* CreateVMHandler.Handle with this name: the node or the VMID lookup may
\* fail, then NewVirtualMachine rejects an empty name.
CreateVMOutcomes(name) ==
    {"lookupFailed", IF name = NoName THEN "nameRequired" ELSE "created"}

\* Both callers of the bridge leave the name empty.
PortalVMName == NoName

ProvisionForCard ==
    /\ provisionQ # <<>>
    /\ provisionQ' = Tail(provisionQ)
    /\ LET s == Head(provisionQ)
       IN  IF plan[session[s].plan].enabled
           THEN \E o \in CreateVMOutcomes(PortalVMName) :
                    outcome' = [outcome EXCEPT ![s] = o]
           ELSE UNCHANGED outcome
    /\ UNCHANGED <<billingVars, plan, portalVars, deductQ, topupQ, bridge, paid,
                   refunded, adjusted, late, boundVars>>

-----------------------------------------------------------------------------
(* Core: handleBalanceDeductVM, one request at a time *)

InHand == Head(deductQ)

\* The bridge replies and takes the next message.  A reply that comes after
\* the portal's deadline is dropped.
Reply(answer) ==
    /\ deductQ' = Tail(deductQ)
    /\ bridge' = IdleBridge
    /\ checkout' = [checkout EXCEPT ![InHand].stage =
          IF @ = "waiting" THEN answer ELSE @]

NoReply == UNCHANGED <<deductQ, checkout>>

\* Slip: a disabled plan is waited for.
BridgeReadPlanWaits ==
    /\ deductQ # <<>> /\ bridge.stage = "idle"
    /\ plan[checkout[InHand].plan].enabled
    /\ bridge' = [stage |-> "planned", price |-> plan[checkout[InHand].plan].price,
                  expired |-> FALSE]
    /\ NoReply
    /\ UNCHANGED <<billingVars, plan, session, topupQ, provisionQ, historyVars,
                   boundVars>>

\* The plan is read again: enabled then, at the price of that moment.
BridgeReadPlan ==
    /\ deductQ # <<>> /\ bridge.stage = "idle"
    /\ LET p == plan[checkout[InHand].plan]
       IN  IF p.enabled
           THEN /\ bridge' = [stage |-> "planned", price |-> p.price,
                              expired |-> FALSE]
                /\ NoReply
           ELSE Reply("error")
    /\ UNCHANGED <<billingVars, plan, session, topupQ, provisionQ, historyVars,
                   boundVars>>

BridgeDeduct ==
    /\ bridge.stage = "planned"
    /\ LET c == checkout[InHand].customer
       IN  IF CanDeduct(c, bridge.price) /\ ~bridge.expired
           THEN /\ DeductForVM(c, bridge.price)
                /\ paid' = [paid EXCEPT ![InHand] = @ + bridge.price]
                /\ bridge' = [bridge EXCEPT !.stage = "deducted"]
                /\ NoReply
           ELSE /\ Reply("error")
                /\ UNCHANGED <<billingVars, paid>>
    /\ UNCHANGED <<plan, session, topupQ, provisionQ, refunded, adjusted, late, outcome,
                   boundVars>>

\* Slip: the error is answered before the refund.
BridgeCreateVMNoRefund ==
    /\ bridge.stage = "deducted"
    /\ \E o \in CreateVMOutcomes(PortalVMName) :
          /\ outcome' = [outcome EXCEPT ![InHand] = o]
          /\ Reply(IF o = "created" THEN "ok" ELSE "error")
    /\ UNCHANGED <<billingVars, plan, session, topupQ, provisionQ, paid,
                   refunded, adjusted, late, boundVars>>

\* With an expired context the first lookup of CreateVM fails.
BridgeCreateVM ==
    /\ bridge.stage = "deducted"
    /\ \E o \in CreateVMOutcomes(PortalVMName) :
          /\ bridge.expired => o = "lookupFailed"
          /\ outcome' = [outcome EXCEPT ![InHand] = o]
          /\ IF o = "created"
             THEN Reply("ok")
             ELSE bridge' = [bridge EXCEPT !.stage = "refunding"] /\ NoReply
    /\ UNCHANGED <<billingVars, plan, session, topupQ, provisionQ, paid,
                   refunded, adjusted, late, boundVars>>

\* Best effort: a top-up without a session, on the same context.
BridgeRefund ==
    /\ bridge.stage = "refunding"
    /\ IF bridge.expired
       THEN UNCHANGED <<billingVars, refunded>>
       ELSE /\ TopUp(checkout[InHand].customer, bridge.price, NoSession)
            /\ refunded' = [refunded EXCEPT ![InHand] = @ + bridge.price]
    /\ Reply("error")
    /\ UNCHANGED <<plan, session, topupQ, provisionQ, paid, adjusted, late, outcome,
                   boundVars>>

\* The handler's 30 s are over.
ContextExpires ==
    /\ bridge.stage # "idle" /\ ~bridge.expired
    /\ bridge' = [bridge EXCEPT !.expired = TRUE]
    /\ late' = late \cup {InHand}
    /\ UNCHANGED <<billingVars, plan, portalVars, queueVars, paid, refunded,
                   adjusted, outcome, boundVars>>

\* The core stops and starts again: what its subscriptions held is gone.
CoreRestarts ==
    /\ crashes < MaxCrashes
    /\ crashes' = crashes + 1
    /\ deductQ' = <<>> /\ topupQ' = <<>> /\ provisionQ' = <<>>
    /\ bridge' = IdleBridge
    /\ UNCHANGED <<billingVars, plan, portalVars, historyVars, edits>>

EditPlan(p) ==
    /\ edits < MaxEdits
    /\ edits' = edits + 1
    /\ \E price \in Prices, on \in BOOLEAN :
          plan' = [plan EXCEPT ![p] = [price |-> price, enabled |-> on]]
    /\ UNCHANGED <<billingVars, portalVars, queueVars, bridge, historyVars,
                   crashes>>

\* An admin corrects a balance on the customer's page, while purchases are on
\* their way.  The bound lets a behaviour have edits or one correction.
AdjustBalance(c, d) ==
    /\ edits = 0 /\ edits' = MaxEdits
    /\ Adjust(c, d)
    /\ adjusted' = [adjusted EXCEPT ![c] = @ + d]
    /\ UNCHANGED <<plan, portalVars, queueVars, bridge, paid, refunded, late,
                   outcome, crashes>>

-----------------------------------------------------------------------------
NoCheckout == [stage |-> "idle", customer |-> CHOOSE c \in Customers : TRUE,
               plan |-> CHOOSE p \in Plans : TRUE, price |-> 0]
NoCard == [kind |-> "none", customer |-> CHOOSE c \in Customers : TRUE,
           plan |-> CHOOSE p \in Plans : TRUE, amount |-> 0,
           paid |-> FALSE, deliveries |-> 0]

PInit ==
    /\ Init
    /\ plan \in [Plans -> [price: Prices, enabled: {TRUE}]]
    /\ checkout = [r \in Requests |-> NoCheckout]
    /\ session = [s \in Sessions |-> NoCard]
    /\ deductQ = <<>> /\ topupQ = <<>> /\ provisionQ = <<>>
    /\ bridge = IdleBridge
    /\ paid = [r \in Requests |-> 0]
    /\ refunded = [r \in Requests |-> 0]
    /\ adjusted = [c \in Customers |-> 0]
    /\ late = {}
    /\ outcome = [x \in Requests \cup Sessions |-> "none"]
    /\ crashes = 0 /\ edits = 0

Portal ==
    \/ \E r \in Requests :
          \/ \E c \in Customers, p \in Plans : ReadPlans(r, c, p)
          \/ BuyWithBalance(r)
          \/ PayByCard(r)
          \/ RpcTimeout(r)
    \/ \E s \in Sessions, c \in Customers, a \in Amounts : OpenTopup(s, c, a)

Stripe == \E s \in Sessions : Pay(s) \/ Deliver(s)

BridgeStep == BridgeReadPlan \/ BridgeDeduct \/ BridgeCreateVM \/ BridgeRefund

Core == CompleteTopup \/ ProvisionForCard \/ BridgeStep

Environment ==
    \/ ContextExpires \/ CoreRestarts
    \/ \E p \in Plans : EditPlan(p)
    \/ \E c \in Customers, d \in Corrections : AdjustBalance(c, d)

PNext == Portal \/ Stripe \/ Core \/ Environment

PSpec == PInit /\ [][PNext]_vars

\* The NATS client calls a subscription's handler for every message it holds,
\* and a handler's calls are all bounded by its context.
FairPSpec == PSpec /\ WF_vars(BridgeStep)

-----------------------------------------------------------------------------
(* Properties *)

CardCredited(s) == \E i \in DOMAIN ledger : ledger[i].session = s

Checkout == [stage: Stages, customer: Customers, plan: Plans, price: Nat]
Card == [kind: {"none", "vm_purchase", "balance_topup"}, customer: Customers,
         plan: Plans, amount: Nat, paid: BOOLEAN, deliveries: Nat]

PortalShape ==
    /\ plan \in [Plans -> [price: Prices, enabled: BOOLEAN]]
    /\ checkout \in [Requests -> Checkout]
    /\ session \in [Sessions -> Card]

QueueShape ==
    deductQ \in Seq(Requests) /\ topupQ \in Seq(Sessions) /\ provisionQ \in Seq(Sessions)

BridgeShape ==
    /\ bridge \in [stage: {"idle", "planned", "deducted", "refunding"},
                   price: Nat, expired: BOOLEAN]
    /\ bridge.stage # "idle" => deductQ # <<>>

HistoryShape ==
    /\ paid \in [Requests -> Nat] /\ refunded \in [Requests -> Nat]
    /\ adjusted \in [Customers -> Int]
    /\ late \subseteq Requests
    /\ DOMAIN outcome = Requests \cup Sessions
    /\ crashes \in Nat /\ edits \in Nat

\* The variables have the shapes the handlers give them, and the bridge is at
\* work on a request only while it has one.
PTypeOK == TypeOK /\ PortalShape /\ QueueShape /\ BridgeShape /\ HistoryShape

\* What his card sessions brought a customer, and what his requests cost him.
Credited == {s \in Sessions : CardCredited(s)}

CardMoney(c) ==
    SumFunctionOnSet([s \in Sessions |-> IF session[s].customer = c
                                         THEN session[s].amount ELSE 0], Credited)

Spent(c) ==
    SumFunctionOnSet([r \in Requests |-> IF checkout[r].customer = c
                                         THEN paid[r] - refunded[r] ELSE 0], Requests)

\* No cent appears or vanishes: at every moment a customer's balance is his
\* credited card sessions and adjustments less what the bridge deducted and did not refund,
\* across duplicate webhooks, restarts, expired contexts and price edits.
MoneyConserved ==
    \A c \in Customers : GetBalance(c) = CardMoney(c) + adjusted[c] - Spent(c)

\* Only a card session somebody paid, and opened as a top-up, is credited,
\* to the customer and with the amount of its metadata.
OnlyPaidTopupsCredited ==
    \A i \in DOMAIN ledger :
        LET s == ledger[i].session IN
        s # NoSession =>
            /\ session[s].paid /\ session[s].kind = "balance_topup"
            /\ ledger[i].customer = session[s].customer
            /\ ledger[i].amount = session[s].amount

Queued(r) == \E i \in DOMAIN deductQ : deductQ[i] = r

\* A refund is what was deducted, and given once, though the plan's price may
\* change between the two; and a request the core is done with, with neither a
\* restart nor an expired context behind it, has its VM or has cost nothing.
DoneIsFair ==
    \A r \in Requests :
        /\ refunded[r] \in {0, paid[r]}
        /\ r \notin late /\ crashes = 0 /\ ~Queued(r)
               => paid[r] = refunded[r] \/ outcome[r] = "created"

\* A message the bridge holds leaves its queue: a failed plan lookup, an
\* uncovered price or an expired context never blocks the requests behind it.
QueueDrains == \A r \in Requests : Queued(r) ~> ~Queued(r)
=============================================================================
