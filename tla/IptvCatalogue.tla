--------------------------- MODULE IptvCatalogue ---------------------------
(***************************************************************************)
(* The tables the two halves of internal/modules/iptv share: channels, the *)
(* channels of the packages customers subscribe to, the providers a        *)
(* channel can be had from, and the channels assigned to the stacks that   *)
(* stream them.  Of a provider only its type is kept; the fields of a      *)
(* channel are not modelled, and one that is switched off is one outside   *)
(* every package.                                                          *)
(***************************************************************************)
EXTENDS Naturals, FiniteSets, Tables

CONSTANTS
    Channels, Packages, Stacks, Providers,  \* ids
    NoProvider,                 \* the empty provider_id
    MaxEvents                   \* bound: requests, failures, catalogue changes

ASSUME EventsAssumption == MaxEvents \in Nat
ASSUME ProviderAssumption == NoProvider \notin Providers

VARIABLES
    channels,       \* iptv_channels
    lineup,         \* iptv_package_channels
    providers,      \* iptv_channel_providers, by id
    assigned,       \* iptv_stack_channels, by stack
    events

catalogue == <<channels, lineup, providers, assigned>>

HasEvent == events < MaxEvents /\ events' = events + 1

\* A stack has a channel once; the table does not ask that the provider exists.
Assignment == [channel : Channels, provider : Providers \cup {NoProvider}]
Provider == [channel : Channels, type : {"internal", "external"}]

\* The rows with channel c.
RowsOf(rows, c) == {r \in rows : r.channel = c}

\* Every package has every channel; providers and assignments are any.
CatalogueInit ==
    /\ channels = Channels
    /\ lineup = [k \in Packages |-> Channels]
    /\ \E V \in SUBSET Providers : providers \in [V -> Provider]
    /\ assigned \in [Stacks -> {rows \in SUBSET Assignment :
                                  \A r, q \in rows : r.channel = q.channel => r = q}]
    /\ events = 0

AddChannelToPackage(k, c) ==
    /\ HasEvent
    /\ c \in channels \ lineup[k]
    /\ lineup' = [lineup EXCEPT ![k] = @ \cup {c}]
    /\ UNCHANGED <<channels, providers, assigned>>

RemoveChannelFromPackage(k, c) ==
    /\ HasEvent
    /\ c \in lineup[k]
    /\ lineup' = [lineup EXCEPT ![k] = @ \ {c}]
    /\ UNCHANGED <<channels, providers, assigned>>

\* The database takes the channel out of packages and stacks, with its providers.
DeleteChannel(c) ==
    /\ HasEvent
    /\ c \in channels
    /\ channels' = channels \ {c}
    /\ lineup' = [k \in Packages |-> lineup[k] \ {c}]
    /\ providers' = [v \in {w \in DOMAIN providers : providers[w].channel # c} |-> providers[v]]
    /\ assigned' = [s \in Stacks |-> assigned[s] \ RowsOf(assigned[s], c)]
=============================================================================
