-------------------------------- MODULE Iptv --------------------------------
(***************************************************************************)
(* The television part of the system: subscriptions and set-top boxes on   *)
(* one side, the stacks that stream on the other, and the catalogue of     *)
(* channels between them.                                                  *)
(***************************************************************************)
EXTENDS IptvSubscription, IptvStack

vars == <<catalogue, events, subVars, stackVars>>

Init == CatalogueInit /\ SubscriptionInit /\ StackInit

\* A channel that is dropped leaves packages and stacks at once.
Next ==
    \/ SubscriptionNext /\ UNCHANGED stackVars
    \/ StackNext /\ UNCHANGED subVars
    \/ /\ \E k \in Packages, c \in Channels :
             AddChannelToPackage(k, c) \/ RemoveChannelFromPackage(k, c)
       /\ UNCHANGED <<subVars, stackVars>>

Spec == Init /\ [][Next]_vars

\* The type invariant.
TypeOK == SubscriptionTypeOK /\ StackTypeOK
=============================================================================
