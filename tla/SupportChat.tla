---------------------------- MODULE SupportChat ----------------------------
(***************************************************************************)
(* The portal's chat bot (internal/infrastructure/bot, the bot handlers of *)
(* internal/modules/portal/adapters/nats/bridge.go and their twin inside   *)
(* the core, internal/app/app.go) and the staff's chat                     *)
(* (internal/infrastructure/chat, internal/infrastructure/http/chat.go),   *)
(* which meet when a customer asks for a person.                           *)
(* Sessions are kept in memory, threads and members in the database.  An   *)
(* exchange, a question and its answer, is a number.                       *)
(***************************************************************************)
EXTENDS Naturals, FiniteSets, Tables

CONSTANTS
    Procs,          \* requests that may be under way
    Chats,          \* session ids, kept by the customer's browser
    Users,          \* staff
    ThreadIds,      \* ids (uuids)
    Deployments,    \* who serves the portal: "bridge" or "core"
    MaxAsked,       \* bound: exchanges
    MaxEvents       \* bound: failures, restarts and added members

ASSUME UsersAssumption == IsFiniteSet(Users)
ASSUME BoundsAssumption == {MaxAsked, MaxEvents} \subseteq Nat

VARIABLES
    deployed,       \* who serves the portal
    sessions,       \* the customers' sessions, by id
    threads,        \* chat_threads: their types, by id
    members,        \* chat_thread_members
    tickets,        \* the exchanges told in the tickets opened for each session
    task,           \* what each request is at
    asked,          \* the number of exchanges begun
    answered,       \* history: the exchanges answered in each session
    untold,         \* history: exchanges of a session closed while they were
                    \* answered, or without a ticket
    opened,         \* history: the thread each pair was last sent to
    blurred,        \* history: pairs whose threads were made by two requests at
                    \* once, without a member, or got one more
    events

chatVars == <<deployed, sessions, threads, members, tickets, task, asked,
          answered, untold, opened, blurred, events>>

memory == <<sessions, task>>
history == <<answered, untold, opened, blurred>>

Nothing == [x \in {} |-> 0]

Pairs == {pair \in SUBSET Users : Cardinality(pair) = 2}

Idle == [kind |-> "none"]
IsIdle(p) == task[p].kind = "none"
Become(p, t) == task' = [task EXCEPT ![p] = t]
HasEvent == events < MaxEvents /\ events' = events + 1

\* What is under way for a session.
Closing(s) == {p \in Procs : task[p].kind = "close" /\ task[p].session = s}
Asking(s) == {p \in Procs : task[p].kind = "ask" /\ task[p].session = s}
InProgress(s) == {task[p].exchange : p \in Asking(s)}

-----------------------------------------------------------------------------
(* The bot.  A session belongs to the customer who began it; the requests of *)
(* others are refused before anything else and are left out.                 *)

NewSession == [state |-> "bot", history |-> {}]

GetOrCreate(s) == IF s \in DOMAIN sessions THEN sessions[s] ELSE NewSession

\* A question: a session that has ended says so, another looks for an answer.
Ask(p, s) ==
    /\ IsIdle(p)
    /\ asked < MaxAsked
    /\ asked' = asked + 1
    /\ sessions' = Put(sessions, s, GetOrCreate(s))
    /\ IF GetOrCreate(s).state = "closed"
       THEN UNCHANGED task
       ELSE Become(p, [kind |-> "ask", session |-> s, exchange |-> asked + 1])
    /\ UNCHANGED <<deployed, threads, members, tickets, history, events>>

\* Slip: the history is replaced by what was read before, with the exchange.
AppendMessagesAlone(s, n) ==
    IF s \in DOMAIN sessions THEN [sessions EXCEPT ![s].history = {n}] ELSE sessions

AppendMessages(s, n) ==
    IF s \in DOMAIN sessions THEN [sessions EXCEPT ![s].history = @ \cup {n}] ELSE sessions

\* The answer: of a rule, or of the model some seconds later.
Answer(p) ==
    /\ task[p].kind = "ask"
    /\ LET s == task[p].session
           n == task[p].exchange
       IN  /\ sessions' = AppendMessages(s, n)
           /\ answered' = answered \cup {<<s, n>>}
           /\ untold' = IF Closing(s) # {} THEN untold \cup {n} ELSE untold
    /\ Become(p, Idle)
    /\ UNCHANGED <<deployed, threads, members, tickets, asked, opened, blurred, events>>

\* The table's own check (002_add_threads.sql).
ThreadTypes == {"direct", "channel"}
CanInsert(type) == type \in ThreadTypes

\* "portal-<session>" in the code.
SupportThread(s) == <<"portal", s>>

Handoff(s) ==
    /\ s \in DOMAIN sessions
    /\ IF SupportThread(s) \in DOMAIN threads \/ CanInsert("portal-support")
       THEN /\ threads' = IF SupportThread(s) \in DOMAIN threads THEN threads
                          ELSE Put(threads, SupportThread(s), "portal-support")
            /\ sessions' = [sessions EXCEPT ![s].state = "handoff"]
       ELSE UNCHANGED <<threads, sessions>>
    /\ UNCHANGED <<deployed, members, tickets, task, asked, answered, untold, opened, blurred, events>>

TicketsOf(s) == IF s \in DOMAIN tickets THEN tickets[s] ELSE {}

\* Closing begins with the ticket, when one is wanted and can be opened, which
\* tells the history so far.
BeginClose(p, s) ==
    /\ IsIdle(p)
    /\ s \in DOMAIN sessions
    /\ \E createTicket \in BOOLEAN :
          /\ tickets' = IF createTicket THEN Put(tickets, s, TicketsOf(s) \cup sessions[s].history)
                        ELSE tickets
          /\ untold' = IF createTicket THEN untold ELSE untold \cup sessions[s].history
    /\ Become(p, [kind |-> "close", session |-> s])
    /\ UNCHANGED <<deployed, sessions, threads, members, asked,
                   answered, opened, blurred, events>>

\* The bridge forgets the session, the core keeps it closed.
EndClose(p) ==
    /\ task[p].kind = "close"
    /\ LET s == task[p].session IN
          /\ sessions' = IF deployed = "bridge" THEN Drop(sessions, s)
                         ELSE IF s \in DOMAIN sessions THEN [sessions EXCEPT ![s].state = "closed"]
                         ELSE sessions
          /\ untold' = untold \cup InProgress(s)
    /\ Become(p, Idle)
    /\ UNCHANGED <<deployed, threads, members, tickets, asked,
                   answered, opened, blurred, events>>

-----------------------------------------------------------------------------
(* The staff's threads for two.  What adds a member does not look at the type *)
(* of the thread.                                                             *)

Members(t) == {u \in Users : <<t, u>> \in members}

DirectThreads(pair) ==
    {t \in DOMAIN threads : threads[t] = "direct" /\ pair \subseteq Members(t)}

FindDirectThread(p, pair) ==
    /\ IsIdle(p)
    /\ IF DirectThreads(pair) = {}
       THEN /\ Become(p, [kind |-> "create", pair |-> pair])
            /\ blurred' = IF \E q \in Procs : task[q].kind \in {"create", "join"} /\ task[q].pair = pair
                          THEN blurred \cup {pair} ELSE blurred
            /\ UNCHANGED opened
       ELSE /\ \E t \in DirectThreads(pair) : opened' = Put(opened, pair, t)
            /\ UNCHANGED <<task, blurred>>
    /\ UNCHANGED <<deployed, sessions, threads, members, tickets, asked,
                   answered, untold, events>>

CreateDirect(p, t) ==
    /\ task[p].kind = "create"
    /\ t \in ThreadIds \ DOMAIN threads
    /\ threads' = Put(threads, t, "direct")
    /\ Become(p, [kind |-> "join", pair |-> task[p].pair, thread |-> t, left |-> task[p].pair])
    /\ UNCHANGED <<deployed, sessions, members, tickets, asked, history, events>>

\* Slip: only the one who asked becomes a member.
JoinOne(p) ==
    /\ task[p].kind = "join"
    /\ \E u \in task[p].left : members' = members \cup {<<task[p].thread, u>>}
    /\ opened' = Put(opened, task[p].pair, task[p].thread)
    /\ Become(p, Idle)
    /\ UNCHANGED <<deployed, sessions, threads, tickets, asked,
                   answered, untold, blurred, events>>

Join(p) ==
    /\ task[p].kind = "join"
    /\ task[p].left # {}
    /\ \E u \in task[p].left :
          /\ \/ members' = members \cup {<<task[p].thread, u>>} /\ UNCHANGED <<blurred, events>>
             \/ /\ HasEvent
                /\ blurred' = blurred \cup {task[p].pair}
                /\ UNCHANGED members
          /\ task' = [task EXCEPT ![p].left = @ \ {u}]
    /\ UNCHANGED <<deployed, sessions, threads, tickets, asked,
                   answered, untold, opened>>

Joined(p) ==
    /\ task[p].kind = "join" /\ task[p].left = {}
    /\ opened' = Put(opened, task[p].pair, task[p].thread)
    /\ Become(p, Idle)
    /\ UNCHANGED <<deployed, sessions, threads, members, tickets, asked,
                   answered, untold, blurred, events>>

AddMember(t, u) ==
    /\ t \in DOMAIN threads
    /\ Members(t) # {} /\ u \notin Members(t)
    /\ HasEvent
    /\ members' = members \cup {<<t, u>>}
    /\ LET all == Members(t) \cup {u} \cup
                    UNION {task[p].pair : p \in {q \in Procs : task[q].kind = "join" /\ task[q].thread = t}}
       IN  blurred' = blurred \cup {pair \in Pairs : pair \subseteq all}
    /\ UNCHANGED <<deployed, sessions, threads, tickets, task, asked,
                   answered, untold, opened>>

-----------------------------------------------------------------------------

\* The process stops: sessions are gone, what was under way stays half done.
Restart ==
    /\ HasEvent
    /\ sessions' = Nothing
    /\ task' = [p \in Procs |-> Idle]
    /\ untold' = untold \cup 1..asked
    /\ blurred' = blurred \cup {task[p].pair : p \in {q \in Procs : task[q].kind \in {"create", "join"}}}
    /\ UNCHANGED <<deployed, threads, members, tickets, asked, answered, opened>>

ChatInit ==
    /\ deployed \in Deployments
    /\ sessions = Nothing /\ threads = Nothing /\ tickets = Nothing /\ opened = Nothing
    /\ members = {}
    /\ task = [p \in Procs |-> Idle]
    /\ asked = 0
    /\ answered = {} /\ untold = {} /\ blurred = {}
    /\ events = 0

ChatNext ==
    \/ \E p \in Procs :
          \/ \E s \in Chats : Ask(p, s) \/ BeginClose(p, s)
          \/ \E pair \in Pairs : FindDirectThread(p, pair)
          \/ \E t \in ThreadIds : CreateDirect(p, t)
          \/ Answer(p) \/ EndClose(p) \/ Join(p) \/ Joined(p)
    \/ \E s \in Chats : Handoff(s)
    \/ \E t \in ThreadIds, u \in Users : AddMember(t, u)
    \/ Restart

ChatSpec == ChatInit /\ [][ChatNext]_chatVars

-----------------------------------------------------------------------------
(* Properties *)

\* What a customer was answered is in the session's history or in a ticket of
\* it, though answers take their time, the same session is asked and closed by
\* several requests and may begin again; but for what was answered while the
\* session was closed, closed without a ticket, or lost with the process
\* (bridge.go:527, bridge.go:717).
NothingSaidIsLost ==
    \A e \in answered :
       \/ e[2] \in TicketsOf(e[1]) \cup untold
       \/ e[1] \in DOMAIN sessions /\ e[2] \in sessions[e[1]].history

\* Two members of staff have one thread for the two of them, whichever of them
\* asks for it, and asking for it leads to a thread of exactly those two; unless
\* both asked at once, a member could not be added, or someone added a third
\* (http/chat.go:251).
OneThreadForTwo ==
    \A pair \in Pairs \ blurred :
       /\ Cardinality(DirectThreads(pair)) <= 1
       /\ pair \in DOMAIN opened => Members(opened[pair]) = pair
=============================================================================
