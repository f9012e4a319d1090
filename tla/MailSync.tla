------------------------------ MODULE MailSync ------------------------------
(***************************************************************************)
(* Mail accounts (internal/modules/email): the worker that fetches the new *)
(* messages of every active account into threads                           *)
(* (worker/sync_worker.go, adapters/imap/fetcher.go, threader.go), beside  *)
(* what staff do meanwhile: pause, resume, configure and delete an         *)
(* account, switch a folder on or off, read a thread, link it to a         *)
(* customer, answer it.  Accounts, folders and threads are saved whole     *)
(* from a copy read before.                                                *)
(* Outside the module: a mailbox's messages have the UIDs 1, 2, ...        *)
(***************************************************************************)
EXTENDS Naturals, Sequences, FiniteSets, FiniteSetsExt

CONSTANTS
    Procs,          \* requests of staff that may be under way
    Accounts,       \* ids (uuids)
    Names,          \* the names of an account's mailboxes
    Subjects,       \* conversations
    Settings,       \* what an account may be configured to
    Customers,
    Correspondent,  \* the customer whose address a conversation is with
    NoCustomer,
    MaxMessages,    \* bound: messages in a mailbox
    MaxEvents       \* bound: commands and failures

ASSUME CorrespondentAssumption ==
    Correspondent \in [Subjects -> Customers \cup {NoCustomer}] /\ NoCustomer \notin Customers
ASSUME BoundsAssumption == {MaxMessages, MaxEvents} \subseteq Nat

VARIABLES
    mailbox,        \* on the server: the messages of each box
    accounts,       \* email_accounts, by id
    folders,        \* email_account_folders, by box: its cursor and switch
    threads,        \* email_threads: by account and subject, the customer
    unread,         \* the threads that have the tag "unread"
    messages,       \* email_messages: what was fetched, by box and UID
    worker,         \* what the worker is at
    task,           \* what each request is at
    ordered,        \* history: what staff last made of each account
    linked,         \* history: the customer staff last linked a thread to
    fresh,          \* history: unseen messages stored since their thread was read
    failed,         \* history: messages that could not be stored
    raced,          \* history: accounts and threads that staff changed while
                    \* another request or the worker had a copy of them, and
                    \* accounts of which a failed lookup turned a folder on
    events

vars == <<mailbox, accounts, folders, threads, unread, messages, worker, task,
          ordered, linked, fresh, failed, raced, events>>

tables == <<accounts, folders, threads, unread, messages>>
history == <<ordered, linked, fresh, failed, raced>>

Boxes == Accounts \X Names
Threads == Accounts \X Subjects
Account == [status: {"active", "paused", "error"}, settings: Settings]
Folder == [lastUid: Nat, enabled: BOOLEAN]
Message == [subject: Subjects, seen: BOOLEAN]

Nothing == [x \in {} |-> 0]
Put(f, id, x) == [i \in DOMAIN f \cup {id} |-> IF i = id THEN x ELSE f[i]]
Drop(f, ids) == [i \in DOMAIN f \ ids |-> f[i]]

\* The bound on commands and failures.
HasEvent == events < MaxEvents /\ events' = events + 1

-----------------------------------------------------------------------------
(* The worker.  at: "idle"; "accounts", between two accounts; "folders", *)
(* between two folders of account id; "messages", between two messages   *)
(* of box; "store" and "tag", in the middle of message uid.              *)

Resting == [at |-> "idle", queue |-> Nothing, manual |-> FALSE]

\* The copies of accounts and folders the worker has in hand.
HasAccount(a) ==
    worker.at # "idle" /\ (a \in DOMAIN worker.queue \/ (worker.at # "accounts" /\ worker.id = a))
HasFolders(a) == worker.at \notin {"idle", "accounts"} /\ worker.id = a

NextAccount == [at |-> "accounts", queue |-> worker.queue, manual |-> worker.manual]
AtFolders(w, todo) ==
    [at |-> "folders", queue |-> w.queue, manual |-> w.manual,
     id |-> w.id, copy |-> w.copy, todo |-> todo]
AtMessages(box, folder, listed, left) ==
    [at |-> "messages", queue |-> worker.queue, manual |-> worker.manual,
     id |-> worker.id, copy |-> worker.copy, todo |-> Drop(worker.todo, {box}),
     box |-> box, folder |-> folder, listed |-> listed, left |-> left]
WithMessage(at) == [worker EXCEPT !.at = at]
MessageDone == [worker EXCEPT !.at = "messages", !.left = @ \ {Min(@)}]

SyncAll ==
    /\ worker.at = "idle"
    /\ LET active == {a \in DOMAIN accounts : accounts[a].status = "active"} IN
          worker' = [Resting EXCEPT !.at = "accounts", !.queue = [a \in active |-> accounts[a]]]
    /\ UNCHANGED <<mailbox, tables, task, history, events>>

\* Slip: paused accounts are synced on request.
SyncOneAny(a) ==
    /\ worker.at = "idle"
    /\ HasEvent
    /\ a \in DOMAIN accounts
    /\ worker' = [at |-> "accounts", queue |-> [i \in {a} |-> accounts[i]], manual |-> TRUE]
    /\ UNCHANGED <<mailbox, tables, task, history>>

SyncOne(a) ==
    /\ worker.at = "idle"
    /\ HasEvent
    /\ a \in DOMAIN accounts /\ accounts[a].status # "paused"
    /\ worker' = [at |-> "accounts", queue |-> [i \in {a} |-> accounts[i]], manual |-> TRUE]
    /\ UNCHANGED <<mailbox, tables, task, history>>

NewFolder == [lastUid |-> 0, enabled |-> TRUE]

\* The folders of a with these names that are not known are stored, unless the
\* account is gone.
DiscoverFolders(a, names) ==
    LET new == {<<a, n>> : n \in names} \ DOMAIN folders IN
    IF a \notin DOMAIN accounts THEN folders
    ELSE [box \in DOMAIN folders \cup new |-> IF box \in new THEN NewFolder ELSE folders[box]]

FoldersOf(f, a) == [box \in {b \in DOMAIN f : b[1] = a} |-> f[box]]
EnabledOf(f, a) == [box \in {b \in DOMAIN f : b[1] = a /\ f[b].enabled} |-> f[box]]


\* Folders are looked for on the server when the account has none; when that fails
\* the account's configured folder is taken.
Connect(a) ==
    /\ worker.at = "accounts"
    /\ a \in DOMAIN worker.queue
    /\ \E names \in {Names} \cup {{n} : n \in Names} :
       LET known == IF DOMAIN FoldersOf(folders, a) = {} THEN DiscoverFolders(a, names)
                    ELSE folders
       IN /\ folders' = known
          /\ worker' = [at |-> "folders", queue |-> Drop(worker.queue, {a}),
                        manual |-> worker.manual, id |-> a, copy |-> worker.queue[a],
                        todo |-> EnabledOf(known, a)]
    /\ UNCHANGED <<mailbox, accounts, threads, unread, messages, task, history, events>>

\* UID SEARCH lastUid+1:* : "*" is the last message, whatever the cursor.
Listed(lastUid, last) == IF last = 0 THEN {} ELSE (lastUid + 1)..last \cup {last}

Search(box) ==
    /\ worker.at = "folders"
    /\ box \in DOMAIN worker.todo
    /\ LET uids == Listed(worker.todo[box].lastUid, Len(mailbox[box])) IN
          worker' = AtMessages(box, worker.todo[box], uids, uids)
    /\ UNCHANGED <<mailbox, tables, task, history, events>>

\* The message in hand and the thread it belongs to: that of the messages it
\* refers to, or of its subject.
Uid == Min(worker.left)
InHand == <<worker.box, Uid>>
Arrived == mailbox[worker.box][Uid]
ThreadOf(box, uid) == <<box[1], mailbox[box][uid].subject>>
Thread == ThreadOf(worker.box, Uid)

\* Slip: a message that is stored already is gone through again.
AssignAgain ==
    /\ worker.at = "messages" /\ worker.left # {}
    /\ worker.id \in DOMAIN accounts
    /\ threads' = IF Thread \in DOMAIN threads THEN threads ELSE Put(threads, Thread, NoCustomer)
    /\ worker' = WithMessage("store")
    /\ UNCHANGED <<mailbox, accounts, folders, unread, messages, task, history, events>>

Assign ==
    /\ worker.at = "messages" /\ worker.left # {}
    /\ InHand \notin messages
    /\ worker.id \in DOMAIN accounts
    /\ threads' = IF Thread \in DOMAIN threads THEN threads ELSE Put(threads, Thread, NoCustomer)
    /\ worker' = WithMessage("store")
    /\ UNCHANGED <<mailbox, accounts, folders, unread, messages, task, history, events>>

SkipStored ==
    /\ worker.at = "messages" /\ worker.left # {}
    /\ InHand \in messages
    /\ worker' = MessageDone
    /\ UNCHANGED <<mailbox, tables, task, history, events>>

StoreMessage ==
    /\ worker.at = "store"
    /\ Thread \in DOMAIN threads
    /\ messages' = messages \cup {InHand}
    /\ fresh' = IF Arrived.seen \/ InHand \in messages THEN fresh ELSE fresh \cup {InHand}
    /\ worker' = WithMessage("tag")
    /\ UNCHANGED <<mailbox, accounts, folders, threads, unread, task,
                   ordered, linked, failed, raced, events>>

\* Nothing can be stored once the account has been deleted: the references of
\* the tables forbid it.  The loop goes on to the next message.
CannotStore ==
    /\ \/ worker.at = "messages" /\ worker.left # {} /\ InHand \notin messages
          /\ worker.id \notin DOMAIN accounts
       \/ worker.at = "store" /\ Thread \notin DOMAIN threads
    /\ failed' = failed \cup {InHand}
    /\ worker' = MessageDone
    /\ UNCHANGED <<mailbox, tables, task, ordered, linked, fresh, raced, events>>

TagUnread ==
    /\ worker.at = "tag"
    /\ unread' = IF Arrived.seen \/ Thread \notin DOMAIN threads THEN unread
                 ELSE unread \cup {Thread}
    /\ worker' = MessageDone
    /\ UNCHANGED <<mailbox, accounts, folders, threads, messages, task, history, events>>

\* A message that cannot be read or stored is logged, a tag that cannot be
\* applied is not even that; both go on to the next message.
MessageFails ==
    /\ worker.at = "store" \/ (worker.at = "messages" /\ worker.left # {} /\ InHand \notin messages)
    /\ HasEvent
    /\ failed' = failed \cup {InHand}
    /\ worker' = MessageDone
    /\ UNCHANGED <<mailbox, tables, task, ordered, linked, fresh, raced>>

TagFails ==
    /\ worker.at = "tag"
    /\ HasEvent
    /\ fresh' = fresh \ {InHand}
    /\ worker' = MessageDone
    /\ UNCHANGED <<mailbox, tables, task, ordered, linked, failed, raced>>

\* The connection breaks, in the search or in a batch: the folder's cursor is
\* not saved.
FolderFails ==
    /\ \/ /\ worker.at = "messages"
          /\ worker' = AtFolders(worker, worker.todo)
       \/ /\ worker.at = "folders"
          /\ \E box \in DOMAIN worker.todo : worker' = AtFolders(worker, Drop(worker.todo, {box}))
    /\ HasEvent
    /\ UNCHANGED <<mailbox, tables, task, history>>

SaveFolder(box, folder) ==
    folders' = IF box[1] \in DOMAIN accounts THEN Put(folders, box, folder) ELSE folders

\* Slip: the cursor moves to the newest message of the mailbox.
FinishFolderAtNewest ==
    /\ worker.at = "messages" /\ worker.left = {}
    /\ IF worker.listed # {} /\ Max(worker.listed) > worker.folder.lastUid
       THEN SaveFolder(worker.box, [worker.folder EXCEPT !.lastUid = Len(mailbox[worker.box])])
       ELSE UNCHANGED folders
    /\ worker' = AtFolders(worker, worker.todo)
    /\ UNCHANGED <<mailbox, accounts, threads, unread, messages, task, history, events>>

FinishFolder ==
    /\ worker.at = "messages" /\ worker.left = {}
    /\ IF worker.listed # {} /\ Max(worker.listed) > worker.folder.lastUid
       THEN SaveFolder(worker.box, [worker.folder EXCEPT !.lastUid = Max(worker.listed)])
       ELSE UNCHANGED folders
    /\ worker' = AtFolders(worker, worker.todo)
    /\ UNCHANGED <<mailbox, accounts, threads, unread, messages, task, history, events>>

FinishAccount ==
    /\ worker.at = "folders" /\ DOMAIN worker.todo = {}
    /\ accounts' = Put(accounts, worker.id, [worker.copy EXCEPT !.status = "active"])
    /\ worker' = NextAccount
    /\ UNCHANGED <<mailbox, folders, threads, unread, messages, task, history, events>>

\* The server does not let the worker in, or the account cannot be saved.
AccountFails ==
    /\ HasEvent
    /\ \/ \E a \in DOMAIN worker.queue :
             /\ worker.at = "accounts"
             /\ accounts' \in {Put(accounts, a, [worker.queue[a] EXCEPT !.status = "error"]), accounts}
             /\ worker' = [worker EXCEPT !.queue = Drop(@, {a})]
       \/ /\ worker.at = "folders" /\ DOMAIN worker.todo = {}
          /\ accounts' \in {Put(accounts, worker.id, [worker.copy EXCEPT !.status = "error"]), accounts}
          /\ worker' = NextAccount
    /\ UNCHANGED <<mailbox, folders, threads, unread, messages, task, history>>

\* Slip: threads that have a customer are linked as well.
AutoLinkAll ==
    [t \in DOMAIN threads |->
        IF Correspondent[t[2]] # NoCustomer THEN Correspondent[t[2]] ELSE threads[t]]

AutoLinkCustomers ==
    [t \in DOMAIN threads |-> IF threads[t] = NoCustomer THEN Correspondent[t[2]] ELSE threads[t]]

FinishSync ==
    /\ worker.at = "accounts" /\ DOMAIN worker.queue = {}
    /\ threads' = IF worker.manual THEN threads ELSE AutoLinkCustomers
    /\ worker' = Resting
    /\ UNCHANGED <<mailbox, accounts, folders, unread, messages, task, history, events>>

-----------------------------------------------------------------------------
(* What staff do.  A request that changes an account, a folder or a thread   *)
(* reads it, and saves its copy whole later.                                 *)

Idle == [kind |-> "none"]
IsIdle(p) == task[p].kind = "none"
Become(p, t) == task' = [task EXCEPT ![p] = t]

CreateAccount(a) ==
    /\ a \notin DOMAIN ordered
    /\ \E s \in Settings :
          /\ accounts' = Put(accounts, a, [status |-> "active", settings |-> s])
          /\ ordered' = Put(ordered, a, [deleted |-> FALSE, paused |-> FALSE,
                                            settings |-> s, off |-> {}])
    /\ UNCHANGED <<mailbox, folders, threads, unread, messages, worker, task,
                   linked, fresh, failed, raced, events>>

Paused(row) == [row EXCEPT !.status = "paused"]
Resumed(row) == [row EXCEPT !.status = "active"]
Configured(row, s) == [row EXCEPT !.settings = s]

LoadAccount(p, a) ==
    /\ IsIdle(p)
    /\ a \in DOMAIN accounts
    /\ HasEvent
    /\ LET row == accounts[a] IN
          \E new \in {Paused(row), Resumed(row)} \cup {Configured(row, s) : s \in Settings} :
             Become(p, [kind |-> "account", id |-> a, read |-> row, row |-> new])
    /\ UNCHANGED <<mailbox, tables, worker, history>>

Race(x, others) == raced' = IF others THEN raced \cup {x} ELSE raced

SaveAccount(p) ==
    /\ task[p].kind = "account"
    /\ LET a == task[p].id
           row == task[p].row
       IN  /\ accounts' = Put(accounts, a, row)
           /\ ordered' = [ordered EXCEPT ![a].paused = (row.status = "paused"),
                                         ![a].settings = row.settings]
           /\ Race(a, HasAccount(a) \/ a \notin DOMAIN accounts \/ accounts[a] # task[p].read)
    /\ Become(p, Idle)
    /\ UNCHANGED <<mailbox, folders, threads, unread, messages, worker,
                   linked, fresh, failed, events>>

\* The tables' references take the account's folders, threads and messages along.
DeleteAccount(a) ==
    /\ a \in DOMAIN accounts
    /\ HasEvent
    /\ accounts' = Drop(accounts, {a})
    /\ folders' = [box \in {b \in DOMAIN folders : b[1] # a} |-> folders[box]]
    /\ threads' = [t \in {u \in DOMAIN threads : u[1] # a} |-> threads[t]]
    /\ unread' = {t \in unread : t[1] # a}
    /\ messages' = {m \in messages : m[1][1] # a}
    /\ fresh' = {m \in fresh : m[1][1] # a}
    /\ ordered' = [ordered EXCEPT ![a].deleted = TRUE]
    /\ linked' = [t \in {u \in DOMAIN linked : u[1] # a} |-> linked[t]]
    /\ Race(a, HasAccount(a) \/ \E p \in Procs : task[p].kind = "account" /\ task[p].id = a)
    /\ UNCHANGED <<mailbox, worker, task, failed>>

LoadFolder(p, box) ==
    /\ IsIdle(p)
    /\ box \in DOMAIN folders
    /\ HasEvent
    /\ Become(p, [kind |-> "folder", id |-> box, read |-> folders[box],
                  row |-> [folders[box] EXCEPT !.enabled = ~@]])
    /\ UNCHANGED <<mailbox, tables, worker, history>>

\* The cursor goes back with the switch when the folder was fetched meanwhile.
ToggleFolder(p) ==
    /\ task[p].kind = "folder"
    /\ LET box == task[p].id
           a == box[1]
       IN  /\ SaveFolder(box, task[p].row)
           /\ ordered' = [ordered EXCEPT ![a].off =
                             IF task[p].row.enabled THEN @ \ {box[2]} ELSE @ \cup {box[2]}]
           /\ Race(a, HasFolders(a) \/ box \notin DOMAIN folders
                         \/ folders[box].enabled # task[p].read.enabled)
    /\ Become(p, Idle)
    /\ UNCHANGED <<mailbox, accounts, threads, unread, messages, worker,
                   linked, fresh, failed, events>>

MarkRead(t) ==
    /\ t \in unread
    /\ HasEvent
    /\ unread' = unread \ {t}
    /\ fresh' = {m \in fresh : ThreadOf(m[1], m[2]) # t \/ (worker.at = "tag" /\ m = InHand)}
    /\ UNCHANGED <<mailbox, accounts, folders, threads, messages, worker, task,
                   ordered, linked, failed, raced>>

\* A link to a customer, or to none; or an answer, which is sent between the
\* two and saves the thread it was for.
LoadThread(p, t) ==
    /\ IsIdle(p)
    /\ t \in DOMAIN threads
    /\ HasEvent
    /\ \/ \E c \in Customers \cup {NoCustomer} :
             Become(p, [kind |-> "link", id |-> t, read |-> threads[t], row |-> c])
       \/ Become(p, [kind |-> "reply", id |-> t, read |-> threads[t], row |-> threads[t]])
    /\ UNCHANGED <<mailbox, tables, worker, history>>

SaveThread(p) ==
    /\ task[p].kind \in {"link", "reply"}
    /\ LET t == task[p].id IN
          IF t[1] \in DOMAIN accounts
          THEN /\ threads' = Put(threads, t, task[p].row)
               /\ linked' = IF task[p].kind = "link" THEN Put(linked, t, task[p].row) ELSE linked
               /\ Race(t, t \notin DOMAIN threads \/ threads[t] # task[p].read)
          ELSE UNCHANGED <<threads, linked, raced>>
    /\ Become(p, Idle)
    /\ UNCHANGED <<mailbox, accounts, folders, unread, messages, worker,
                   ordered, fresh, failed, events>>

-----------------------------------------------------------------------------

\* Folders looked for on an account's page.
Discover(a) ==
    /\ a \in DOMAIN accounts
    /\ folders' = DiscoverFolders(a, Names)
    /\ folders' # folders
    /\ UNCHANGED <<mailbox, accounts, threads, unread, messages, worker, task, history, events>>

\* The lookup of a known folder fails meanwhile: it is stored over as a new one,
\* which fetches it again from the start, and turns it on if it was off.
LookupFails(a) ==
    /\ HasEvent
    /\ \E n \in Names :
          LET box == <<a, n>> IN
          /\ box \in DOMAIN folders
          /\ folders' = Put(DiscoverFolders(a, Names), box, NewFolder)
          /\ Race(a, ~folders[box].enabled)
    /\ UNCHANGED <<mailbox, accounts, threads, unread, messages, worker, task,
                   ordered, linked, fresh, failed>>

Arrive(box) ==
    /\ Len(mailbox[box]) < MaxMessages
    /\ \E m \in Message : mailbox' = [mailbox EXCEPT ![box] = Append(@, m)]
    /\ UNCHANGED <<tables, worker, task, history, events>>

\* The process stops, and starts again with nothing under way.
Restart ==
    /\ HasEvent
    /\ worker' = Resting
    /\ task' = [p \in Procs |-> Idle]
    /\ fresh' = IF worker.at = "tag" THEN fresh \ {InHand} ELSE fresh
    /\ UNCHANGED <<mailbox, tables, ordered, linked, failed, raced>>

Init ==
    /\ mailbox = [box \in Boxes |-> <<>>]
    /\ accounts = Nothing /\ folders = Nothing /\ threads = Nothing
    /\ unread = {} /\ messages = {}
    /\ worker = Resting
    /\ task = [p \in Procs |-> Idle]
    /\ ordered = Nothing /\ linked = Nothing
    /\ fresh = {} /\ failed = {} /\ raced = {}
    /\ events = 0

Work ==
    \/ \E a \in Accounts : Connect(a)
    \/ \E box \in Boxes : Search(box)
    \/ Assign \/ SkipStored \/ StoreMessage \/ CannotStore \/ TagUnread
    \/ FinishFolder \/ FinishAccount \/ FinishSync

Next ==
    \/ SyncAll \/ Work
    \/ \E a \in Accounts : SyncOne(a) \/ CreateAccount(a) \/ DeleteAccount(a)
                          \/ Discover(a) \/ LookupFails(a)
    \/ MessageFails \/ TagFails \/ FolderFails \/ AccountFails
    \/ \E p \in Procs :
          \/ \E a \in Accounts : LoadAccount(p, a)
          \/ \E box \in Boxes : LoadFolder(p, box)
          \/ \E t \in Threads : LoadThread(p, t)
          \/ SaveAccount(p) \/ ToggleFolder(p) \/ SaveThread(p)
    \/ \E t \in Threads : MarkRead(t)
    \/ \E box \in Boxes : Arrive(box)
    \/ Restart

\* The ticker and the worker's goroutine go on; nothing is asked of staff.
Fairness == WF_vars(SyncAll) /\ WF_vars(Work)

Spec == Init /\ [][Next]_vars /\ Fairness

-----------------------------------------------------------------------------
(* Properties *)

\* The type invariant, with what the references of the tables guarantee.
TypeOK ==
    /\ \A a \in DOMAIN accounts : a \in Accounts /\ accounts[a] \in Account
    /\ DOMAIN folders \subseteq (DOMAIN accounts) \X Names
    /\ \A box \in DOMAIN folders : folders[box] \in Folder
    /\ DOMAIN threads \subseteq (DOMAIN accounts) \X Subjects
    /\ \A t \in DOMAIN threads : threads[t] \in Customers \cup {NoCustomer}
    /\ unread \subseteq DOMAIN threads
    /\ \A m \in messages : ThreadOf(m[1], m[2]) \in DOMAIN threads
    /\ fresh \subseteq messages
    /\ events \in 0..MaxEvents

\* Every message a folder's cursor has passed is stored, though messages arrive
\* while it is fetched, connections break, the process stops and the folder is
\* switched on and off meanwhile; but for messages that could not be stored, and
\* an account changed or deleted in the middle (fetcher.go:237).
NothingPassedOver ==
    \A box \in DOMAIN folders :
       \A uid \in 1..folders[box].lastUid :
          \/ <<box, uid>> \in messages \cup failed
          \/ box[1] \in raced

\* What staff made of an account stands through any number of syncs: paused, it
\* is not made active again, its settings and switched-off folders stay as they
\* were put, and deleted it stays away; but for what was changed while a sync or
\* another request had a copy of it (fetcher.go:99, sync_worker.go:103), and a folder
\* whose lookup failed when folders were looked for (fetcher.go:279).
OrdersStand ==
    \A a \in DOMAIN ordered \ raced :
       IF ordered[a].deleted THEN a \notin DOMAIN accounts
       ELSE /\ accounts[a].settings = ordered[a].settings
            /\ ordered[a].paused => accounts[a].status = "paused"
            /\ \A n \in ordered[a].off : ~folders[<<a, n>>].enabled

\* A thread is unread exactly when an unseen message came after it was last
\* read: fetching messages anew, as after a cursor went back, does not mark it
\* again (fetcher.go:316), and storing a message in two steps does not lose the
\* mark but when the second fails or the process stops before it.  A thread that a
\* late request saved again after its account was deleted may keep the mark of a
\* message that went with the account.
UnreadMeansNew ==
    \A t \in DOMAIN threads \ raced :
       ~(worker.at = "tag" /\ Thread = t) =>
          (t \in unread <=> \E m \in fresh : ThreadOf(m[1], m[2]) = t)

\* A thread staff linked to a customer stays linked to that one, though every
\* sync links threads by address and answers save the thread whole; but for
\* requests that overlapped (gorm_repository.go:648).
LinkStands ==
    \A t \in DOMAIN linked \cap DOMAIN threads :
       linked[t] = NoCustomer \/ t \in raced \/ threads[t] = linked[t]

=============================================================================
