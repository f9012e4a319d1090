--------------------------- MODULE MailSync_proofs ---------------------------
(* Theorems of MailSync: what staff made of accounts, what the cursors of     *)
(* folders have passed, which threads are unread and whose they are, whatever *)
(* requests, syncs, failures and restarts overlap, for any number of them.    *)
EXTENDS MailSync, FiniteSetTheorems, WellFoundedInduction, TLAPS

-----------------------------------------------------------------------------
(* The types of what the model keeps *)

Order == [deleted: BOOLEAN, paused: BOOLEAN, settings: Settings, off: SUBSET Names]

Task ==
    {Idle}
    \cup [kind: {"account"}, id: Accounts, read: Account, row: Account]
    \cup [kind: {"folder"}, id: Boxes, read: Folder, row: Folder]
    \cup [kind: {"link", "reply"}, id: Threads,
          read: Customers \cup {NoCustomer}, row: Customers \cup {NoCustomer}]

\* Where the worker has an account, and a folder, in hand.
InAccount == {"folders", "messages", "store", "tag"}
InFolder == {"messages", "store", "tag"}

AccountsOK ==
    /\ DOMAIN accounts \subseteq DOMAIN ordered /\ DOMAIN ordered \subseteq Accounts
    /\ \A a \in DOMAIN accounts : accounts[a] \in Account
    /\ \A a \in DOMAIN ordered : ordered[a] \in Order

FoldersOK ==
    /\ DOMAIN folders \subseteq (DOMAIN accounts) \X Names
    /\ \A box \in DOMAIN folders : folders[box] \in Folder

ThreadsOK ==
    /\ DOMAIN threads \subseteq (DOMAIN accounts) \X Subjects
    /\ \A t \in DOMAIN threads : threads[t] \in Customers \cup {NoCustomer}
    /\ unread \subseteq DOMAIN threads

MailboxOK == mailbox \in [Boxes -> Seq(Message)]

MessagesOK ==
    /\ \A m \in messages : /\ m \in Boxes \X Nat /\ m[2] \in 1..Len(mailbox[m[1]])
                           /\ ThreadOf(m[1], m[2]) \in DOMAIN threads
    /\ fresh \subseteq messages

\* What a request has in hand was made before, and an answer changes nothing.
GoodTask(t) ==
    /\ t \in Task
    /\ t.kind = "account" => t.id \in DOMAIN ordered
    /\ t.kind = "folder" => t.id[1] \in DOMAIN ordered
    /\ t.kind = "reply" => t.row = t.read

TasksOK == DOMAIN task = Procs /\ \A p \in Procs : GoodTask(task[p])

\* The worker: a folder in hand is switched on in the copy, and the messages it
\* listed are all those past the cursor up to the last.
GoodQueue(w) ==
    /\ DOMAIN w.queue \subseteq DOMAIN ordered
    /\ \A a \in DOMAIN w.queue : w.queue[a] \in Account

GoodAccount(w) ==
    /\ w.id \in DOMAIN ordered /\ w.copy \in Account
    /\ DOMAIN w.todo \subseteq {w.id} \X Names
    /\ \A b \in DOMAIN w.todo : w.todo[b] \in Folder /\ w.todo[b].enabled

GoodFolder(w) ==
    /\ w = [at |-> w.at, queue |-> w.queue, manual |-> w.manual, id |-> w.id, copy |-> w.copy,
            todo |-> w.todo, box |-> w.box, folder |-> w.folder, listed |-> w.listed, left |-> w.left]
    /\ w.box \in {w.id} \X Names /\ w.folder \in Folder /\ w.folder.enabled
    /\ w.listed \subseteq 1..Len(mailbox[w.box]) /\ w.left \subseteq w.listed
    /\ \A x \in w.listed : \A u \in 1..x : u > w.folder.lastUid => u \in w.listed
    /\ w.listed # {} => \E x \in w.listed : \A y \in w.listed : y <= x

GoodWorker(w) ==
    /\ w.at \in {"idle", "accounts"} \cup InAccount
    /\ w.at \in {"idle", "accounts"} => w = [at |-> w.at, queue |-> w.queue, manual |-> w.manual]
    /\ w.at = "idle" => DOMAIN w.queue = {}
    /\ GoodQueue(w)
    /\ w.at \in InAccount => GoodAccount(w)
    /\ w.at \in InFolder => GoodFolder(w)
    /\ w.at \in {"store", "tag"} => w.left # {}

WorkerOK == GoodWorker(worker)

EventsOK == events \in 0..MaxEvents

\* The invariant of types.
Types ==
    /\ AccountsOK /\ FoldersOK /\ ThreadsOK /\ MailboxOK /\ MessagesOK
    /\ TasksOK /\ WorkerOK /\ EventsOK

-----------------------------------------------------------------------------
(* Helpers *)

\* A set of numbers that is not empty has a least.
LEMMA LeastOf ==
    ASSUME NEW S \in SUBSET Nat, S # {}
    PROVE  Min(S) \in S /\ \A i \in S : Min(S) <= i
<1>1. IsWellFoundedOn({e \in Nat \X Nat : e[1] < e[2]}, Nat)
      BY NatLessThanWellFounded DEF OpToRel
<1>2. PICK n \in S : \A i \in S : <<i, n>> \notin {e \in Nat \X Nat : e[1] < e[2]}
      BY <1>1, WFMin
<1>3. ASSUME NEW i \in S, ~(n <= i)
      PROVE  FALSE
  <2>1. i \in Nat /\ n \in Nat /\ i < n
        BY <1>3
  <2>. QED BY <1>2, <2>1
<1>. QED BY <1>3 DEF Min

LEMMA GreatestOf ==
    ASSUME NEW S, NEW x \in S, \A y \in S : y <= x, S \subseteq Nat
    PROVE  Max(S) \in S /\ \A i \in S : i <= Max(S)
<1>1. \A y \in S : x >= y
      OBVIOUS
<1>2. Max(S) \in S /\ \A y \in S : Max(S) >= y
      BY <1>1 DEF Max
<1>. QED BY <1>2

LEMMA PutIs ==
    ASSUME NEW f, NEW i, NEW x, NEW g, g = Put(f, i, x)
    PROVE  /\ DOMAIN g = DOMAIN f \cup {i} /\ g[i] = x
           /\ \A j \in DOMAIN f : j # i => g[j] = f[j]
BY DEF Put

LEMMA DropIs ==
    ASSUME NEW f, NEW ids, NEW g, g = Drop(f, ids)
    PROVE  DOMAIN g = DOMAIN f \ ids /\ \A j \in DOMAIN g : g[j] = f[j]
BY DEF Drop

\* The message in hand is one the worker listed.
LEMMA MessageInHand ==
    ASSUME Types, worker.at \in InFolder, worker.left # {}
    PROVE  /\ worker.box \in Boxes /\ worker.box[1] = worker.id /\ worker.id \in DOMAIN ordered
           /\ Uid \in worker.left /\ Uid \in worker.listed /\ Uid \in Nat
           /\ Uid \in 1..Len(mailbox[worker.box])
           /\ Arrived \in Message /\ InHand \in Boxes \X Nat
           /\ Thread = <<worker.id, Arrived.subject>> /\ Thread \in Threads
<1>1. GoodAccount(worker) /\ GoodFolder(worker)
      BY DEF Types, WorkerOK, GoodWorker, InAccount, InFolder
<1>2. worker.box \in Boxes /\ worker.box[1] = worker.id /\ worker.id \in DOMAIN ordered
      BY <1>1 DEF GoodAccount, GoodFolder, Boxes, Types, AccountsOK
<1>3. worker.left \subseteq worker.listed /\ worker.listed \subseteq 1..Len(mailbox[worker.box])
      BY <1>1 DEF GoodFolder
<1>4. worker.left \in SUBSET Nat
      BY <1>3
<1>5. Uid \in worker.left
      BY <1>4, LeastOf DEF Uid
<1>6. Uid \in worker.listed /\ Uid \in Nat /\ Uid \in 1..Len(mailbox[worker.box])
      BY <1>3, <1>5
<1>7. Arrived \in Message
      BY <1>2, <1>6 DEF Arrived, Types, MailboxOK
<1>8. Thread = <<worker.id, Arrived.subject>>
      BY <1>2 DEF Thread, ThreadOf, Arrived
<1>9. Thread \in Threads
      BY <1>2, <1>7, <1>8 DEF Threads, Message, Types, AccountsOK
<1>. QED BY <1>2, <1>5, <1>6, <1>7, <1>8, <1>9 DEF InHand

\* What the worker becomes between messages and within one.
LEMMA MessageDoneIs ==
    ASSUME Types, worker.at \in InFolder, NEW w, w = MessageDone
    PROVE  /\ w.at = "messages" /\ w.queue = worker.queue /\ w.manual = worker.manual
           /\ w.id = worker.id /\ w.copy = worker.copy /\ w.todo = worker.todo
           /\ w.box = worker.box /\ w.folder = worker.folder /\ w.listed = worker.listed
           /\ w.left = worker.left \ {Uid}
           /\ GoodWorker(w)
<1>1. GoodFolder(worker) /\ GoodAccount(worker) /\ GoodQueue(worker)
      BY DEF Types, WorkerOK, GoodWorker, InAccount, InFolder
<1>2. /\ w.at = "messages" /\ w.queue = worker.queue /\ w.manual = worker.manual
      /\ w.id = worker.id /\ w.copy = worker.copy /\ w.todo = worker.todo
      /\ w.box = worker.box /\ w.folder = worker.folder /\ w.listed = worker.listed
      /\ w.left = worker.left \ {Uid}
      /\ w = [at |-> w.at, queue |-> w.queue, manual |-> w.manual, id |-> w.id, copy |-> w.copy,
              todo |-> w.todo, box |-> w.box, folder |-> w.folder, listed |-> w.listed, left |-> w.left]
      BY <1>1 DEF MessageDone, GoodFolder, Uid
<1>3. GoodAccount(w) /\ GoodQueue(w)
      BY <1>1, <1>2 DEF GoodAccount, GoodQueue
<1>4. GoodFolder(w)
      BY <1>1, <1>2 DEF GoodFolder
<1>. QED BY <1>2, <1>3, <1>4 DEF GoodWorker, InAccount, InFolder

LEMMA WithMessageIs ==
    ASSUME Types, worker.at \in InFolder, worker.left # {}, NEW at \in {"store", "tag"},
           NEW w, w = WithMessage(at)
    PROVE  /\ w.at = at /\ w.queue = worker.queue /\ w.manual = worker.manual
           /\ w.id = worker.id /\ w.copy = worker.copy /\ w.todo = worker.todo
           /\ w.box = worker.box /\ w.folder = worker.folder /\ w.listed = worker.listed
           /\ w.left = worker.left
           /\ GoodWorker(w)
<1>1. GoodFolder(worker) /\ GoodAccount(worker) /\ GoodQueue(worker)
      BY DEF Types, WorkerOK, GoodWorker, InAccount, InFolder
<1>2. /\ w.at = at /\ w.queue = worker.queue /\ w.manual = worker.manual
      /\ w.id = worker.id /\ w.copy = worker.copy /\ w.todo = worker.todo
      /\ w.box = worker.box /\ w.folder = worker.folder /\ w.listed = worker.listed
      /\ w.left = worker.left
      /\ w = [at |-> w.at, queue |-> w.queue, manual |-> w.manual, id |-> w.id, copy |-> w.copy,
              todo |-> w.todo, box |-> w.box, folder |-> w.folder, listed |-> w.listed, left |-> w.left]
      BY <1>1 DEF WithMessage, GoodFolder
<1>3. GoodAccount(w) /\ GoodQueue(w)
      BY <1>1, <1>2 DEF GoodAccount, GoodQueue
<1>4. GoodFolder(w)
      BY <1>1, <1>2 DEF GoodFolder
<1>. QED BY <1>1, <1>2, <1>3, <1>4 DEF GoodWorker, InAccount, InFolder

\* Back between the folders of the account in hand.
LEMMA AtFoldersIs ==
    ASSUME Types, worker.at \in InAccount, NEW todo,
           DOMAIN todo \subseteq DOMAIN worker.todo,
           \A b \in DOMAIN todo : todo[b] = worker.todo[b],
           NEW w, w = AtFolders(worker, todo)
    PROVE  /\ w.at = "folders" /\ w.queue = worker.queue
           /\ w.id = worker.id /\ w.copy = worker.copy /\ w.todo = todo
           /\ GoodWorker(w)
<1>1. GoodAccount(worker) /\ GoodQueue(worker)
      BY DEF Types, WorkerOK, GoodWorker, InAccount
<1>2. /\ w.at = "folders" /\ w.queue = worker.queue /\ w.manual = worker.manual
      /\ w.id = worker.id /\ w.copy = worker.copy /\ w.todo = todo
      BY DEF AtFolders
<1>3. GoodAccount(w) /\ GoodQueue(w)
      BY <1>1, <1>2 DEF GoodAccount, GoodQueue
<1>. QED BY <1>2, <1>3 DEF GoodWorker, InAccount, InFolder

\* A folder in hand, with the messages past its cursor.
LEMMA SearchIs ==
    ASSUME Types, NEW box \in Boxes, Search(box), NEW w, w = worker'
    PROVE  /\ w.at = "messages" /\ w.queue = worker.queue
           /\ worker.at = "folders" /\ box \in DOMAIN worker.todo
           /\ w.id = worker.id /\ w.copy = worker.copy
           /\ DOMAIN w.todo = DOMAIN worker.todo \ {box}
           /\ \A b \in DOMAIN w.todo : w.todo[b] = worker.todo[b]
           /\ w.box = box /\ w.folder = worker.todo[box] /\ w.left = w.listed
           /\ GoodWorker(w)
<1>1. worker.at = "folders" /\ box \in DOMAIN worker.todo
      BY DEF Search
<1>2. PICK uids : uids = Listed(worker.todo[box].lastUid, Len(mailbox[box]))
      OBVIOUS
<1>3. w = AtMessages(box, worker.todo[box], uids, uids)
      BY <1>2 DEF Search
<1>4. PICK todo : todo = Drop(worker.todo, {box})
      OBVIOUS
<1>5. /\ w.at = "messages" /\ w.queue = worker.queue /\ w.manual = worker.manual
      /\ w.id = worker.id /\ w.copy = worker.copy /\ w.todo = todo
      /\ w.box = box /\ w.folder = worker.todo[box] /\ w.listed = uids /\ w.left = uids
      /\ w = [at |-> w.at, queue |-> w.queue, manual |-> w.manual, id |-> w.id, copy |-> w.copy,
              todo |-> w.todo, box |-> w.box, folder |-> w.folder, listed |-> w.listed, left |-> w.left]
      BY <1>3, <1>4 DEF AtMessages
<1>6. DOMAIN todo = DOMAIN worker.todo \ {box} /\ \A b \in DOMAIN todo : todo[b] = worker.todo[b]
      BY <1>4 DEF Drop
<1>7. GoodAccount(worker) /\ GoodQueue(worker)
      BY <1>1 DEF Types, WorkerOK, GoodWorker, InAccount
<1>8. GoodAccount(w) /\ GoodQueue(w)
      BY <1>5, <1>6, <1>7 DEF GoodAccount, GoodQueue
<1>9. Len(mailbox[box]) \in Nat /\ worker.todo[box].lastUid \in Nat
  <2>1. mailbox[box] \in Seq(Message)
        BY DEF Types, MailboxOK
  <2>2. worker.todo[box] \in Folder
        BY <1>1, <1>7 DEF GoodAccount
  <2>. QED BY <2>1, <2>2 DEF Folder
<1>10. /\ uids \subseteq 1..Len(mailbox[box])
       /\ \A x \in uids : \A u \in 1..x : u > worker.todo[box].lastUid => u \in uids
       /\ uids # {} => \E x \in uids : \A y \in uids : y <= x
  <2>1. PICK last, from : last = Len(mailbox[box]) /\ from = worker.todo[box].lastUid
        OBVIOUS
  <2>2. CASE last = 0
        BY <1>2, <2>1, <2>2 DEF Listed
  <2>3. CASE last # 0
    <3>1. uids = (from + 1)..last \cup {last}
          BY <1>2, <2>1, <2>3 DEF Listed
    <3>2. last \in uids /\ \A y \in uids : y <= last
          BY <1>9, <2>1, <2>3, <3>1
    <3>3. \A x \in uids : \A u \in 1..x : u > from => u \in uids
          BY <1>9, <2>1, <2>3, <3>1
    <3>4. uids \subseteq 1..last
          BY <1>9, <2>1, <2>3, <3>1
    <3>. QED BY <2>1, <3>2, <3>3, <3>4
  <2>. QED BY <2>2, <2>3
<1>11. GoodFolder(w)
  <2>1. w.box \in {w.id} \X Names /\ w.folder \in Folder /\ w.folder.enabled
        BY <1>1, <1>5, <1>7 DEF GoodAccount
  <2>. QED BY <1>5, <1>10, <2>1 DEF GoodFolder
<1>. QED BY <1>1, <1>5, <1>6, <1>8, <1>11 DEF GoodWorker, InAccount, InFolder

\* The folders of an account after they were looked for on the server.
Discovered(a, known) ==
    known = folders \/ \E names \in SUBSET Names : known = DiscoverFolders(a, names)

LEMMA NewFolderIs == NewFolder \in Folder /\ NewFolder.lastUid = 0 /\ NewFolder.enabled
BY DEF NewFolder, Folder

LEMMA DiscoverIs ==
    ASSUME Types, NEW a \in Accounts, NEW known, Discovered(a, known)
    PROVE  /\ DOMAIN folders \subseteq DOMAIN known
           /\ \A box \in DOMAIN folders : known[box] = folders[box]
           /\ \A box \in DOMAIN known : known[box] \in Folder
           /\ \A box \in DOMAIN known \ DOMAIN folders :
                 /\ box[1] = a /\ a \in DOMAIN accounts /\ box \in {a} \X Names
                 /\ known[box].lastUid = 0
<1>1. CASE known = folders
      BY <1>1 DEF Types, FoldersOK
<1>2. ASSUME NEW names \in SUBSET Names, known = DiscoverFolders(a, names), a \in DOMAIN accounts
      PROVE  /\ DOMAIN folders \subseteq DOMAIN known
             /\ \A box \in DOMAIN folders : known[box] = folders[box]
             /\ \A box \in DOMAIN known : known[box] \in Folder
             /\ \A box \in DOMAIN known \ DOMAIN folders :
                   box[1] = a /\ box \in {a} \X Names /\ known[box].lastUid = 0
  <2>1. PICK new : new = {<<a, n>> : n \in names} \ DOMAIN folders
        OBVIOUS
  <2>2. known = [box \in DOMAIN folders \cup new |->
                    IF box \in new THEN NewFolder ELSE folders[box]]
        BY <1>2, <2>1 DEF DiscoverFolders
  <2>3. DOMAIN known = DOMAIN folders \cup new
        BY <2>2
  <2>4. \A box \in new : known[box] = NewFolder
        BY <2>2
  <2>5. \A box \in DOMAIN folders : known[box] = folders[box]
        BY <2>1, <2>2
  <2>6. \A box \in new : known[box] \in Folder /\ known[box].lastUid = 0
        BY <2>4, NewFolderIs
  <2>7. \A box \in new : box[1] = a /\ box \in {a} \X Names
        BY <2>1
  <2>. QED BY <2>3, <2>5, <2>6, <2>7 DEF Types, FoldersOK
<1>3. ASSUME NEW names \in SUBSET Names, known = DiscoverFolders(a, names), a \notin DOMAIN accounts
      PROVE  known = folders
      BY <1>3 DEF DiscoverFolders
<1>. QED BY <1>1, <1>2, <1>3 DEF Discovered

\* One of them is stored over when its lookup failed.
LEMMA LookupFailsIs ==
    ASSUME Types, NEW a \in Accounts, LookupFails(a)
    PROVE  \E n, known :
              /\ n \in Names /\ Discovered(a, known) /\ <<a, n>> \in DOMAIN folders
              /\ DOMAIN folders' = DOMAIN known
              /\ folders'[<<a, n>>] = NewFolder
              /\ \A b \in DOMAIN known : b # <<a, n>> => folders'[b] = known[b]
              /\ ~folders[<<a, n>>].enabled => a \in raced'
<1>1. PICK n \in Names : /\ <<a, n>> \in DOMAIN folders
                        /\ folders' = Put(DiscoverFolders(a, Names), <<a, n>>, NewFolder)
                        /\ Race(a, ~folders[<<a, n>>].enabled)
      BY DEF LookupFails
<1>2. PICK known : known = DiscoverFolders(a, Names)
      OBVIOUS
<1>3. Discovered(a, known)
      BY <1>2 DEF Discovered
<1>4. <<a, n>> \in DOMAIN known
      BY <1>1, <1>3, DiscoverIs
<1>5. /\ DOMAIN folders' = DOMAIN known /\ folders'[<<a, n>>] = NewFolder
      /\ \A box \in DOMAIN known : box # <<a, n>> => folders'[box] = known[box]
      BY <1>1, <1>2, <1>4 DEF Put
<1>. QED BY <1>1, <1>3, <1>5 DEF Race

\* An account is taken from the queue, with those of its folders that are on.
LEMMA ConnectIs ==
    ASSUME Types, NEW a \in Accounts, Connect(a), NEW w, w = worker'
    PROVE  /\ worker.at = "accounts" /\ a \in DOMAIN worker.queue
           /\ w.at = "folders" /\ w.id = a /\ w.copy = worker.queue[a]
           /\ DOMAIN w.queue = DOMAIN worker.queue \ {a}
           /\ \A b \in DOMAIN w.queue : w.queue[b] = worker.queue[b]
           /\ DOMAIN w.todo = {b \in DOMAIN folders' : b[1] = a /\ folders'[b].enabled}
           /\ \A b \in DOMAIN w.todo : w.todo[b] = folders'[b]
           /\ Discovered(a, folders')
           /\ GoodWorker(w)
<1>1. /\ worker.at = "accounts" /\ a \in DOMAIN worker.queue
      /\ Discovered(a, folders')
      BY DEF Connect, Discovered
<1>2. PICK queue, todo : queue = Drop(worker.queue, {a}) /\ todo = EnabledOf(folders', a)
      OBVIOUS
<1>3. w = [at |-> "folders", queue |-> queue, manual |-> worker.manual, id |-> a,
           copy |-> worker.queue[a], todo |-> todo]
      BY <1>2 DEF Connect
<1>4. /\ w.at = "folders" /\ w.id = a /\ w.copy = worker.queue[a] /\ w.queue = queue /\ w.todo = todo
      BY <1>3
<1>5. /\ DOMAIN queue = DOMAIN worker.queue \ {a} /\ \A b \in DOMAIN queue : queue[b] = worker.queue[b]
      BY <1>2 DEF Drop
<1>6. /\ DOMAIN todo = {b \in DOMAIN folders' : b[1] = a /\ folders'[b].enabled}
      /\ \A b \in DOMAIN todo : todo[b] = folders'[b]
      BY <1>2 DEF EnabledOf
<1>7. GoodQueue(worker) /\ a \in DOMAIN ordered
      BY <1>1 DEF Types, WorkerOK, GoodWorker, GoodQueue
<1>8. \A b \in DOMAIN folders' : folders'[b] \in Folder /\ b \in Accounts \X Names
  <2>1. PICK known : known = folders'
        OBVIOUS
  <2>2. \A b \in DOMAIN known : known[b] \in Folder
        BY <1>1, <2>1, DiscoverIs
  <2>3. \A b \in DOMAIN known : b \in DOMAIN folders \/ b \in {a} \X Names
        BY <1>1, <2>1, DiscoverIs
  <2>. QED BY <2>1, <2>2, <2>3 DEF Types, FoldersOK, AccountsOK
<1>9. \A b \in DOMAIN todo : todo[b] \in Folder /\ todo[b].enabled /\ b \in {a} \X Names
      BY <1>6, <1>8
<1>10. GoodAccount(w) /\ GoodQueue(w)
       BY <1>1, <1>4, <1>5, <1>7, <1>9 DEF GoodAccount, GoodQueue
<1>. QED BY <1>1, <1>4, <1>5, <1>6, <1>10 DEF GoodWorker, InAccount, InFolder

\* Between accounts, with none, some or all of the queue left.
LEMMA BetweenAccounts ==
    ASSUME Types, NEW queue, NEW manual, NEW w,
           w = [at |-> "accounts", queue |-> queue, manual |-> manual],
           DOMAIN queue \subseteq DOMAIN ordered, \A a \in DOMAIN queue : queue[a] \in Account
    PROVE  w.at = "accounts" /\ w.queue = queue /\ GoodWorker(w)
<1>1. w.at = "accounts" /\ w.queue = queue /\ w.manual = manual
      OBVIOUS
<1>. QED BY <1>1 DEF GoodWorker, GoodQueue, InAccount, InFolder

LEMMA RestingIs ==
    /\ Resting.at = "idle" /\ DOMAIN Resting.queue = {}
    /\ GoodWorker(Resting)
<1>1. Resting = [at |-> "idle", queue |-> Nothing, manual |-> FALSE]
      BY DEF Resting
<1>2. Resting.at = "idle" /\ Resting.queue = Nothing /\ Resting.manual = FALSE
      BY <1>1
<1>3. DOMAIN Nothing = {}
      BY DEF Nothing
<1>. QED BY <1>1, <1>2, <1>3 DEF GoodWorker, GoodQueue, InAccount, InFolder

LEMMA NextAccountIs ==
    ASSUME Types, NEW w, w = NextAccount
    PROVE  w.at = "accounts" /\ w.queue = worker.queue /\ GoodWorker(w)
<1>1. GoodQueue(worker)
      BY DEF Types, WorkerOK, GoodWorker
<1>. QED BY <1>1, BetweenAccounts DEF NextAccount, GoodQueue

\* What is under way stays good while mailboxes and accounts grow in number.
Grows ==
    /\ DOMAIN ordered \subseteq DOMAIN ordered'
    /\ \A box \in Boxes : /\ Len(mailbox[box]) \in Nat /\ Len(mailbox'[box]) \in Nat
                          /\ Len(mailbox[box]) <= Len(mailbox'[box])
    /\ DOMAIN ordered \subseteq Accounts

LEMMA WorkerStaysGood ==
    ASSUME NEW w, GoodWorker(w), Grows
    PROVE  GoodWorker(w)'
<1>1. GoodQueue(w)'
      BY DEF GoodWorker, GoodQueue, Grows
<1>2. w.at \in InAccount => GoodAccount(w)'
      BY DEF GoodWorker, GoodAccount, Grows
<1>3. ASSUME w.at \in InFolder PROVE GoodFolder(w)'
  <2>1. GoodFolder(w) /\ GoodAccount(w)
        BY <1>3 DEF GoodWorker, InAccount, InFolder
  <2>2. w.box \in Boxes
        BY <2>1 DEF GoodFolder, GoodAccount, Grows, Boxes
  <2>3. 1..Len(mailbox[w.box]) \subseteq 1..Len(mailbox'[w.box])
        BY <2>2 DEF Grows
  <2>4. w.listed \subseteq 1..Len(mailbox'[w.box])
        BY <2>1, <2>3 DEF GoodFolder
  <2>. QED BY <2>1, <2>4 DEF GoodFolder
<1>. QED BY <1>1, <1>2, <1>3 DEF GoodWorker

LEMMA TaskStaysGood ==
    ASSUME NEW t, GoodTask(t), DOMAIN ordered \subseteq DOMAIN ordered'
    PROVE  GoodTask(t)'
BY DEF GoodTask

LEMMA IdleIsGood == GoodTask(Idle) /\ Idle.kind = "none"
BY DEF GoodTask, Idle, Task

LEMMA OthersStay ==
    ASSUME TasksOK, NEW p \in Procs, NEW t, Become(p, t)
    PROVE  /\ DOMAIN task' = Procs /\ task'[p] = t
           /\ \A q \in Procs : q # p => task'[q] = task[q]
BY DEF TasksOK, Become

-----------------------------------------------------------------------------
(* Who writes what *)

\* Accounts are saved by syncs and by staff; an order is given by staff.
LEMMA AccountWriters ==
    ASSUME [Next]_vars
    PROVE  \/ UNCHANGED <<accounts, ordered>>
           \/ FinishAccount \/ AccountFails
           \/ \E a \in Accounts : CreateAccount(a) \/ DeleteAccount(a)
           \/ \E p \in Procs : SaveAccount(p) \/ ToggleFolder(p)
<1>1. /\ SyncAll => UNCHANGED <<accounts, ordered>>
      BY DEF tables, history, SyncAll
<1>2. /\ \A a \in Accounts : Connect(a) => UNCHANGED <<accounts, ordered>>
      /\ \A box \in Boxes : Search(box) => UNCHANGED <<accounts, ordered>>
      BY DEF tables, history, Connect, Search
<1>3. /\ Assign => UNCHANGED <<accounts, ordered>>
      /\ SkipStored => UNCHANGED <<accounts, ordered>>
      /\ StoreMessage => UNCHANGED <<accounts, ordered>>
      /\ CannotStore => UNCHANGED <<accounts, ordered>>
      /\ TagUnread => UNCHANGED <<accounts, ordered>>
      BY DEF tables, history, Assign, SkipStored, StoreMessage, CannotStore, TagUnread
<1>4. /\ FinishFolder => UNCHANGED <<accounts, ordered>>
      /\ FinishSync => UNCHANGED <<accounts, ordered>>
      BY DEF tables, history, FinishFolder, FinishSync
<1>5. /\ \A a \in Accounts : SyncOne(a) => UNCHANGED <<accounts, ordered>>
      /\ \A a \in Accounts : Discover(a) => UNCHANGED <<accounts, ordered>>
      /\ \A a \in Accounts : LookupFails(a) => UNCHANGED <<accounts, ordered>>
      BY DEF tables, history, SyncOne, Discover, LookupFails
<1>6. /\ MessageFails => UNCHANGED <<accounts, ordered>>
      /\ TagFails => UNCHANGED <<accounts, ordered>>
      /\ FolderFails => UNCHANGED <<accounts, ordered>>
      BY DEF tables, history, MessageFails, TagFails, FolderFails
<1>7. /\ \A p \in Procs, a \in Accounts : LoadAccount(p, a) => UNCHANGED <<accounts, ordered>>
      /\ \A p \in Procs, box \in Boxes : LoadFolder(p, box) => UNCHANGED <<accounts, ordered>>
      /\ \A p \in Procs, t \in Threads : LoadThread(p, t) => UNCHANGED <<accounts, ordered>>
      BY DEF tables, history, LoadAccount, LoadFolder, LoadThread
<1>8. /\ \A p \in Procs : SaveThread(p) => UNCHANGED <<accounts, ordered>>
      BY DEF tables, history, SaveThread
<1>9. /\ \A t \in Threads : MarkRead(t) => UNCHANGED <<accounts, ordered>>
      /\ \A box \in Boxes : Arrive(box) => UNCHANGED <<accounts, ordered>>
      /\ Restart => UNCHANGED <<accounts, ordered>>
      BY DEF tables, history, MarkRead, Arrive, Restart
<1>. QED BY <1>1, <1>2, <1>3, <1>4, <1>5, <1>6, <1>7, <1>8, <1>9 DEF Next, Work, vars

\* Folders are found, fetched, switched and deleted.
LEMMA FolderWriters ==
    ASSUME [Next]_vars
    PROVE  \/ UNCHANGED <<folders>>
           \/ FinishFolder
           \/ \E a \in Accounts : Connect(a) \/ Discover(a) \/ LookupFails(a) \/ DeleteAccount(a)
           \/ \E p \in Procs : ToggleFolder(p)
<1>1. /\ SyncAll => UNCHANGED <<folders>>
      BY DEF tables, history, SyncAll
<1>2. /\ \A box \in Boxes : Search(box) => UNCHANGED <<folders>>
      BY DEF tables, history, Search
<1>3. /\ Assign => UNCHANGED <<folders>>
      /\ SkipStored => UNCHANGED <<folders>>
      /\ StoreMessage => UNCHANGED <<folders>>
      /\ CannotStore => UNCHANGED <<folders>>
      /\ TagUnread => UNCHANGED <<folders>>
      BY DEF tables, history, Assign, SkipStored, StoreMessage, CannotStore, TagUnread
<1>4. /\ FinishAccount => UNCHANGED <<folders>>
      /\ FinishSync => UNCHANGED <<folders>>
      BY DEF tables, history, FinishAccount, FinishSync
<1>5. /\ \A a \in Accounts : SyncOne(a) => UNCHANGED <<folders>>
      /\ \A a \in Accounts : CreateAccount(a) => UNCHANGED <<folders>>
      BY DEF tables, history, SyncOne, CreateAccount
<1>6. /\ MessageFails => UNCHANGED <<folders>>
      /\ TagFails => UNCHANGED <<folders>>
      /\ FolderFails => UNCHANGED <<folders>>
      /\ AccountFails => UNCHANGED <<folders>>
      BY DEF tables, history, MessageFails, TagFails, FolderFails, AccountFails
<1>7. /\ \A p \in Procs, a \in Accounts : LoadAccount(p, a) => UNCHANGED <<folders>>
      /\ \A p \in Procs, box \in Boxes : LoadFolder(p, box) => UNCHANGED <<folders>>
      /\ \A p \in Procs, t \in Threads : LoadThread(p, t) => UNCHANGED <<folders>>
      BY DEF tables, history, LoadAccount, LoadFolder, LoadThread
<1>8. /\ \A p \in Procs : SaveAccount(p) => UNCHANGED <<folders>>
      /\ \A p \in Procs : SaveThread(p) => UNCHANGED <<folders>>
      BY DEF tables, history, SaveAccount, SaveThread
<1>9. /\ \A t \in Threads : MarkRead(t) => UNCHANGED <<folders>>
      /\ \A box \in Boxes : Arrive(box) => UNCHANGED <<folders>>
      /\ Restart => UNCHANGED <<folders>>
      BY DEF tables, history, MarkRead, Arrive, Restart
<1>. QED BY <1>1, <1>2, <1>3, <1>4, <1>5, <1>6, <1>7, <1>8, <1>9 DEF Next, Work, vars

\* Threads are opened, marked, linked and deleted.
LEMMA ThreadWriters ==
    ASSUME [Next]_vars
    PROVE  \/ UNCHANGED <<threads, unread>>
           \/ Assign \/ TagUnread \/ FinishSync
           \/ \E a \in Accounts : DeleteAccount(a)
           \/ \E t \in Threads : MarkRead(t)
           \/ \E p \in Procs : SaveThread(p)
<1>1. /\ SyncAll => UNCHANGED <<threads, unread>>
      BY DEF tables, history, SyncAll
<1>2. /\ \A a \in Accounts : Connect(a) => UNCHANGED <<threads, unread>>
      /\ \A box \in Boxes : Search(box) => UNCHANGED <<threads, unread>>
      BY DEF tables, history, Connect, Search
<1>3. /\ SkipStored => UNCHANGED <<threads, unread>>
      /\ StoreMessage => UNCHANGED <<threads, unread>>
      /\ CannotStore => UNCHANGED <<threads, unread>>
      BY DEF tables, history, SkipStored, StoreMessage, CannotStore
<1>4. /\ FinishFolder => UNCHANGED <<threads, unread>>
      /\ FinishAccount => UNCHANGED <<threads, unread>>
      BY DEF tables, history, FinishFolder, FinishAccount
<1>5. /\ \A a \in Accounts : SyncOne(a) => UNCHANGED <<threads, unread>>
      /\ \A a \in Accounts : CreateAccount(a) => UNCHANGED <<threads, unread>>
      /\ \A a \in Accounts : Discover(a) => UNCHANGED <<threads, unread>>
      /\ \A a \in Accounts : LookupFails(a) => UNCHANGED <<threads, unread>>
      BY DEF tables, history, SyncOne, CreateAccount, Discover, LookupFails
<1>6. /\ MessageFails => UNCHANGED <<threads, unread>>
      /\ TagFails => UNCHANGED <<threads, unread>>
      /\ FolderFails => UNCHANGED <<threads, unread>>
      /\ AccountFails => UNCHANGED <<threads, unread>>
      BY DEF tables, history, MessageFails, TagFails, FolderFails, AccountFails
<1>7. /\ \A p \in Procs, a \in Accounts : LoadAccount(p, a) => UNCHANGED <<threads, unread>>
      /\ \A p \in Procs, box \in Boxes : LoadFolder(p, box) => UNCHANGED <<threads, unread>>
      /\ \A p \in Procs, t \in Threads : LoadThread(p, t) => UNCHANGED <<threads, unread>>
      BY DEF tables, history, LoadAccount, LoadFolder, LoadThread
<1>8. /\ \A p \in Procs : SaveAccount(p) => UNCHANGED <<threads, unread>>
      /\ \A p \in Procs : ToggleFolder(p) => UNCHANGED <<threads, unread>>
      BY DEF tables, history, SaveAccount, ToggleFolder
<1>9. /\ \A box \in Boxes : Arrive(box) => UNCHANGED <<threads, unread>>
      /\ Restart => UNCHANGED <<threads, unread>>
      BY DEF tables, history, Arrive, Restart
<1>. QED BY <1>1, <1>2, <1>3, <1>4, <1>5, <1>6, <1>7, <1>8, <1>9 DEF Next, Work, vars

\* Messages are stored and deleted, and noted as unread or not.
LEMMA MessageWriters ==
    ASSUME [Next]_vars
    PROVE  \/ UNCHANGED <<messages, fresh>>
           \/ StoreMessage \/ TagFails \/ Restart
           \/ \E a \in Accounts : DeleteAccount(a)
           \/ \E t \in Threads : MarkRead(t)
<1>1. /\ SyncAll => UNCHANGED <<messages, fresh>>
      BY DEF tables, history, SyncAll
<1>2. /\ \A a \in Accounts : Connect(a) => UNCHANGED <<messages, fresh>>
      /\ \A box \in Boxes : Search(box) => UNCHANGED <<messages, fresh>>
      BY DEF tables, history, Connect, Search
<1>3. /\ Assign => UNCHANGED <<messages, fresh>>
      /\ SkipStored => UNCHANGED <<messages, fresh>>
      /\ CannotStore => UNCHANGED <<messages, fresh>>
      /\ TagUnread => UNCHANGED <<messages, fresh>>
      BY DEF tables, history, Assign, SkipStored, CannotStore, TagUnread
<1>4. /\ FinishFolder => UNCHANGED <<messages, fresh>>
      /\ FinishAccount => UNCHANGED <<messages, fresh>>
      /\ FinishSync => UNCHANGED <<messages, fresh>>
      BY DEF tables, history, FinishFolder, FinishAccount, FinishSync
<1>5. /\ \A a \in Accounts : SyncOne(a) => UNCHANGED <<messages, fresh>>
      /\ \A a \in Accounts : CreateAccount(a) => UNCHANGED <<messages, fresh>>
      /\ \A a \in Accounts : Discover(a) => UNCHANGED <<messages, fresh>>
      /\ \A a \in Accounts : LookupFails(a) => UNCHANGED <<messages, fresh>>
      BY DEF tables, history, SyncOne, CreateAccount, Discover, LookupFails
<1>6. /\ MessageFails => UNCHANGED <<messages, fresh>>
      /\ FolderFails => UNCHANGED <<messages, fresh>>
      /\ AccountFails => UNCHANGED <<messages, fresh>>
      BY DEF tables, history, MessageFails, FolderFails, AccountFails
<1>7. /\ \A p \in Procs, a \in Accounts : LoadAccount(p, a) => UNCHANGED <<messages, fresh>>
      /\ \A p \in Procs, box \in Boxes : LoadFolder(p, box) => UNCHANGED <<messages, fresh>>
      /\ \A p \in Procs, t \in Threads : LoadThread(p, t) => UNCHANGED <<messages, fresh>>
      BY DEF tables, history, LoadAccount, LoadFolder, LoadThread
<1>8. /\ \A p \in Procs : SaveAccount(p) => UNCHANGED <<messages, fresh>>
      /\ \A p \in Procs : ToggleFolder(p) => UNCHANGED <<messages, fresh>>
      /\ \A p \in Procs : SaveThread(p) => UNCHANGED <<messages, fresh>>
      BY DEF tables, history, SaveAccount, ToggleFolder, SaveThread
<1>9. /\ \A box \in Boxes : Arrive(box) => UNCHANGED <<messages, fresh>>
      BY DEF tables, history, Arrive
<1>. QED BY <1>1, <1>2, <1>3, <1>4, <1>5, <1>6, <1>7, <1>8, <1>9 DEF Next, Work, vars

\* The worker moves in its own steps, and stops with the process.
LEMMA WorkerWriters ==
    ASSUME [Next]_vars
    PROVE  \/ UNCHANGED <<worker>>
           \/ SyncAll \/ Assign \/ SkipStored \/ StoreMessage \/ CannotStore \/ TagUnread \/ FinishFolder
           \/ FinishAccount \/ FinishSync \/ MessageFails \/ TagFails \/ FolderFails \/ AccountFails \/ Restart
           \/ \E a \in Accounts : SyncOne(a) \/ Connect(a)
           \/ \E box \in Boxes : Search(box)
<1>1. /\ \A a \in Accounts : CreateAccount(a) => UNCHANGED <<worker>>
      /\ \A a \in Accounts : DeleteAccount(a) => UNCHANGED <<worker>>
      /\ \A a \in Accounts : Discover(a) => UNCHANGED <<worker>>
      /\ \A a \in Accounts : LookupFails(a) => UNCHANGED <<worker>>
      BY DEF tables, history, CreateAccount, DeleteAccount, Discover, LookupFails
<1>2. /\ \A p \in Procs, a \in Accounts : LoadAccount(p, a) => UNCHANGED <<worker>>
      /\ \A p \in Procs, box \in Boxes : LoadFolder(p, box) => UNCHANGED <<worker>>
      /\ \A p \in Procs, t \in Threads : LoadThread(p, t) => UNCHANGED <<worker>>
      BY DEF tables, history, LoadAccount, LoadFolder, LoadThread
<1>3. /\ \A p \in Procs : SaveAccount(p) => UNCHANGED <<worker>>
      /\ \A p \in Procs : ToggleFolder(p) => UNCHANGED <<worker>>
      /\ \A p \in Procs : SaveThread(p) => UNCHANGED <<worker>>
      BY DEF tables, history, SaveAccount, ToggleFolder, SaveThread
<1>4. /\ \A t \in Threads : MarkRead(t) => UNCHANGED <<worker>>
      /\ \A box \in Boxes : Arrive(box) => UNCHANGED <<worker>>
      BY DEF tables, history, MarkRead, Arrive
<1>. QED BY <1>1, <1>2, <1>3, <1>4 DEF Next, Work, vars

\* Requests move in their own steps, and stop with the process.
LEMMA TaskWriters ==
    ASSUME [Next]_vars
    PROVE  \/ UNCHANGED <<task>>
           \/ Restart
           \/ \E p \in Procs : SaveAccount(p) \/ ToggleFolder(p) \/ SaveThread(p)
           \/ \E p \in Procs, a \in Accounts : LoadAccount(p, a)
           \/ \E p \in Procs, box \in Boxes : LoadFolder(p, box)
           \/ \E p \in Procs, t \in Threads : LoadThread(p, t)
<1>1. /\ SyncAll => UNCHANGED <<task>>
      BY DEF tables, history, SyncAll
<1>2. /\ \A a \in Accounts : Connect(a) => UNCHANGED <<task>>
      /\ \A box \in Boxes : Search(box) => UNCHANGED <<task>>
      BY DEF tables, history, Connect, Search
<1>3. /\ Assign => UNCHANGED <<task>>
      /\ SkipStored => UNCHANGED <<task>>
      /\ StoreMessage => UNCHANGED <<task>>
      /\ CannotStore => UNCHANGED <<task>>
      /\ TagUnread => UNCHANGED <<task>>
      BY DEF tables, history, Assign, SkipStored, StoreMessage, CannotStore, TagUnread
<1>4. /\ FinishFolder => UNCHANGED <<task>>
      /\ FinishAccount => UNCHANGED <<task>>
      /\ FinishSync => UNCHANGED <<task>>
      BY DEF tables, history, FinishFolder, FinishAccount, FinishSync
<1>5. /\ \A a \in Accounts : SyncOne(a) => UNCHANGED <<task>>
      /\ \A a \in Accounts : CreateAccount(a) => UNCHANGED <<task>>
      /\ \A a \in Accounts : DeleteAccount(a) => UNCHANGED <<task>>
      /\ \A a \in Accounts : Discover(a) => UNCHANGED <<task>>
      /\ \A a \in Accounts : LookupFails(a) => UNCHANGED <<task>>
      BY DEF tables, history, SyncOne, CreateAccount, DeleteAccount, Discover, LookupFails
<1>6. /\ MessageFails => UNCHANGED <<task>>
      /\ TagFails => UNCHANGED <<task>>
      /\ FolderFails => UNCHANGED <<task>>
      /\ AccountFails => UNCHANGED <<task>>
      BY DEF tables, history, MessageFails, TagFails, FolderFails, AccountFails
<1>7. /\ \A t \in Threads : MarkRead(t) => UNCHANGED <<task>>
      /\ \A box \in Boxes : Arrive(box) => UNCHANGED <<task>>
      BY DEF tables, history, MarkRead, Arrive
<1>. QED BY <1>1, <1>2, <1>3, <1>4, <1>5, <1>6, <1>7 DEF Next, Work, vars

-----------------------------------------------------------------------------
(* Types *)

\* Saving an account.
LEMMA AccountSaved ==
    ASSUME AccountsOK, NEW a \in DOMAIN ordered, NEW row \in Account,
           accounts' = Put(accounts, a, row), ordered' = ordered
    PROVE  AccountsOK' /\ DOMAIN accounts \subseteq DOMAIN accounts'
BY DEF AccountsOK, Put

LEMMA OrderGiven ==
    ASSUME Types, NEW p \in Procs, SaveAccount(p)
    PROVE  /\ task[p].kind = "account" /\ task[p].id \in DOMAIN ordered /\ task[p].row \in Account
           /\ accounts' = Put(accounts, task[p].id, task[p].row)
           /\ DOMAIN ordered' = DOMAIN ordered
           /\ \A b \in DOMAIN ordered : b # task[p].id => ordered'[b] = ordered[b]
           /\ ordered'[task[p].id] \in Order
           /\ ordered'[task[p].id].deleted = ordered[task[p].id].deleted
           /\ ordered'[task[p].id].paused = (task[p].row.status = "paused")
           /\ ordered'[task[p].id].settings = task[p].row.settings
           /\ ordered'[task[p].id].off = ordered[task[p].id].off
<1>1. task[p].kind = "account" /\ task[p].id \in DOMAIN ordered /\ task[p].row \in Account
      BY DEF SaveAccount, Types, TasksOK, GoodTask, Task, Idle
<1>2. PICK a, row : a = task[p].id /\ row = task[p].row
      OBVIOUS
<1>3. /\ accounts' = Put(accounts, a, row)
      /\ ordered' = [ordered EXCEPT ![a].paused = (row.status = "paused"), ![a].settings = row.settings]
      BY <1>2 DEF SaveAccount
<1>4. ordered[a] \in Order
      BY <1>1, <1>2 DEF Types, AccountsOK
<1>5. PICK o : o = [[ordered[a] EXCEPT !.paused = (row.status = "paused")] EXCEPT !.settings = row.settings]
      OBVIOUS
<1>6. /\ o.deleted = ordered[a].deleted /\ o.paused = (row.status = "paused")
      /\ o.settings = row.settings /\ o.off = ordered[a].off /\ o \in Order
      BY <1>1, <1>2, <1>4, <1>5 DEF Order, Account
<1>7. /\ DOMAIN ordered' = DOMAIN ordered /\ ordered'[a] = o
      /\ \A b \in DOMAIN ordered : b # a => ordered'[b] = ordered[b]
      BY <1>1, <1>2, <1>3, <1>5
<1>. QED BY <1>1, <1>2, <1>3, <1>6, <1>7

LEMMA SwitchOrdered ==
    ASSUME Types, NEW p \in Procs, ToggleFolder(p)
    PROVE  /\ task[p].kind = "folder" /\ task[p].id \in Boxes /\ task[p].row \in Folder
           /\ task[p].id[1] \in DOMAIN ordered
           /\ SaveFolder(task[p].id, task[p].row)
           /\ DOMAIN ordered' = DOMAIN ordered
           /\ \A b \in DOMAIN ordered : b # task[p].id[1] => ordered'[b] = ordered[b]
           /\ ordered'[task[p].id[1]] \in Order
           /\ ordered'[task[p].id[1]].deleted = ordered[task[p].id[1]].deleted
           /\ ordered'[task[p].id[1]].paused = ordered[task[p].id[1]].paused
           /\ ordered'[task[p].id[1]].settings = ordered[task[p].id[1]].settings
           /\ ordered'[task[p].id[1]].off =
                 IF task[p].row.enabled THEN ordered[task[p].id[1]].off \ {task[p].id[2]}
                 ELSE ordered[task[p].id[1]].off \cup {task[p].id[2]}
<1>1. /\ task[p].kind = "folder" /\ task[p].id \in Boxes /\ task[p].row \in Folder
      /\ task[p].id[1] \in DOMAIN ordered
      BY DEF ToggleFolder, Types, TasksOK, GoodTask, Task, Idle
<1>2. PICK a, n, row : a = task[p].id[1] /\ n = task[p].id[2] /\ row = task[p].row
      OBVIOUS
<1>3. /\ SaveFolder(task[p].id, row)
      /\ ordered' = [ordered EXCEPT ![a].off = IF row.enabled THEN @ \ {n} ELSE @ \cup {n}]
      BY <1>2 DEF ToggleFolder
<1>4. ordered[a] \in Order /\ n \in Names
      BY <1>1, <1>2 DEF Types, AccountsOK, Boxes
<1>5. PICK off : off = IF row.enabled THEN ordered[a].off \ {n} ELSE ordered[a].off \cup {n}
      OBVIOUS
<1>6. PICK o : o = [ordered[a] EXCEPT !.off = off]
      OBVIOUS
<1>7. off \in SUBSET Names
      BY <1>4, <1>5 DEF Order
<1>8. /\ o.deleted = ordered[a].deleted /\ o.paused = ordered[a].paused
      /\ o.settings = ordered[a].settings /\ o.off = off /\ o \in Order
      BY <1>4, <1>6, <1>7 DEF Order
<1>9. /\ DOMAIN ordered' = DOMAIN ordered /\ ordered'[a] = o
      /\ \A b \in DOMAIN ordered : b # a => ordered'[b] = ordered[b]
      BY <1>1, <1>2, <1>3, <1>5, <1>6
<1>. QED BY <1>1, <1>2, <1>3, <1>5, <1>8, <1>9

LEMMA AccountMade ==
    ASSUME Types, NEW a \in Accounts, CreateAccount(a)
    PROVE  /\ AccountsOK' /\ DOMAIN ordered' = DOMAIN ordered \cup {a} /\ a \notin DOMAIN ordered
           /\ DOMAIN accounts' = DOMAIN accounts \cup {a}
           /\ \A b \in DOMAIN ordered : ordered'[b] = ordered[b]
           /\ \A b \in DOMAIN accounts : accounts'[b] = accounts[b]
           /\ ~ordered'[a].deleted /\ ~ordered'[a].paused /\ ordered'[a].off = {}
           /\ ordered'[a].settings = accounts'[a].settings
<1>1. PICK s \in Settings :
          /\ accounts' = Put(accounts, a, [status |-> "active", settings |-> s])
          /\ ordered' = Put(ordered, a, [deleted |-> FALSE, paused |-> FALSE, settings |-> s, off |-> {}])
      BY DEF CreateAccount
<1>2. PICK row, o : /\ row = [status |-> "active", settings |-> s]
                    /\ o = [deleted |-> FALSE, paused |-> FALSE, settings |-> s, off |-> {}]
      OBVIOUS
<1>3. row \in Account /\ o \in Order /\ row.settings = s
      BY <1>2 DEF Account, Order
<1>4. ~o.deleted /\ ~o.paused /\ o.off = {} /\ o.settings = s
      BY <1>2
<1>5. DOMAIN accounts' = DOMAIN accounts \cup {a} /\ accounts'[a] = row
      BY <1>1, <1>2 DEF Put
<1>6. DOMAIN ordered' = DOMAIN ordered \cup {a} /\ ordered'[a] = o
      BY <1>1, <1>2 DEF Put
<1>7. a \notin DOMAIN ordered /\ a \notin DOMAIN accounts
      BY DEF CreateAccount, Types, AccountsOK
<1>8. \A b \in DOMAIN accounts : accounts'[b] = accounts[b]
      BY <1>1, <1>7 DEF Put
<1>9. \A b \in DOMAIN ordered : ordered'[b] = ordered[b]
      BY <1>1, <1>7 DEF Put
<1>10. AccountsOK'
       BY <1>3, <1>5, <1>6, <1>8, <1>9 DEF Types, AccountsOK
<1>. QED BY <1>3, <1>4, <1>5, <1>6, <1>7, <1>8, <1>9, <1>10

LEMMA AccountGone ==
    ASSUME Types, NEW a \in Accounts, DeleteAccount(a)
    PROVE  /\ AccountsOK' /\ DOMAIN ordered' = DOMAIN ordered /\ a \in DOMAIN ordered
           /\ DOMAIN accounts' = DOMAIN accounts \ {a}
           /\ \A b \in DOMAIN accounts' : accounts'[b] = accounts[b]
           /\ \A b \in DOMAIN ordered : b # a => ordered'[b] = ordered[b]
           /\ ordered'[a].deleted
<1>1. accounts' = Drop(accounts, {a}) /\ ordered' = [ordered EXCEPT ![a].deleted = TRUE]
      BY DEF DeleteAccount
<1>2. a \in DOMAIN ordered /\ ordered[a] \in Order
      BY DEF DeleteAccount, Types, AccountsOK
<1>3. DOMAIN accounts' = DOMAIN accounts \ {a} /\ \A b \in DOMAIN accounts' : accounts'[b] = accounts[b]
      BY <1>1 DEF Drop
<1>4. PICK o : o = [ordered[a] EXCEPT !.deleted = TRUE]
      OBVIOUS
<1>5. o \in Order /\ o.deleted
      BY <1>2, <1>4 DEF Order
<1>6. DOMAIN ordered' = DOMAIN ordered /\ ordered'[a] = o
      BY <1>1, <1>2, <1>4
<1>7. \A b \in DOMAIN ordered : b # a => ordered'[b] = ordered[b]
      BY <1>1
<1>8. AccountsOK'
      BY <1>2, <1>3, <1>5, <1>6, <1>7 DEF Types, AccountsOK
<1>. QED BY <1>2, <1>3, <1>5, <1>6, <1>7, <1>8

\* A sync saves its copy of an account, with the outcome.
LEMMA SyncSaves ==
    ASSUME Types, FinishAccount \/ AccountFails
    PROVE  /\ ordered' = ordered
           /\ \/ accounts' = accounts
              \/ \E a \in DOMAIN ordered : \E copy \in Account : \E status \in {"active", "error"} :
                    /\ \/ worker.at = "folders" /\ worker.id = a /\ copy = worker.copy
                       \/ worker.at = "accounts" /\ a \in DOMAIN worker.queue /\ copy = worker.queue[a]
                    /\ accounts' = Put(accounts, a, [copy EXCEPT !.status = status])
<1>1. CASE FinishAccount
  <2>1. worker.at = "folders" /\ ordered' = ordered
        BY <1>1 DEF FinishAccount, history
  <2>2. worker.id \in DOMAIN ordered /\ worker.copy \in Account
        BY <2>1 DEF Types, WorkerOK, GoodWorker, GoodAccount, InAccount
  <2>3. accounts' = Put(accounts, worker.id, [worker.copy EXCEPT !.status = "active"])
        BY <1>1 DEF FinishAccount
  <2>. QED BY <2>1, <2>2, <2>3
<1>2. CASE AccountFails
  <2>1. ordered' = ordered
        BY <1>2 DEF AccountFails, history
  <2>2. ASSUME NEW a \in DOMAIN worker.queue, worker.at = "accounts",
               accounts' \in {Put(accounts, a, [worker.queue[a] EXCEPT !.status = "error"]), accounts}
        PROVE  \/ accounts' = accounts
               \/ \E b \in DOMAIN ordered : \E copy \in Account :
                     /\ worker.at = "accounts" /\ b \in DOMAIN worker.queue /\ copy = worker.queue[b]
                     /\ accounts' = Put(accounts, b, [copy EXCEPT !.status = "error"])
    <3>1. a \in DOMAIN ordered /\ worker.queue[a] \in Account
          BY <2>2 DEF Types, WorkerOK, GoodWorker, GoodQueue
    <3>. QED BY <2>2, <3>1
  <2>3. ASSUME worker.at = "folders",
               accounts' \in {Put(accounts, worker.id, [worker.copy EXCEPT !.status = "error"]), accounts}
        PROVE  \/ accounts' = accounts
               \/ \E b \in DOMAIN ordered : \E copy \in Account :
                     /\ worker.at = "folders" /\ worker.id = b /\ copy = worker.copy
                     /\ accounts' = Put(accounts, b, [copy EXCEPT !.status = "error"])
    <3>1. worker.id \in DOMAIN ordered /\ worker.copy \in Account
          BY <2>3 DEF Types, WorkerOK, GoodWorker, GoodAccount, InAccount
    <3>. QED BY <2>3, <3>1
  <2>4. \/ \E a \in DOMAIN worker.queue :
             /\ worker.at = "accounts"
             /\ accounts' \in {Put(accounts, a, [worker.queue[a] EXCEPT !.status = "error"]), accounts}
        \/ /\ worker.at = "folders"
           /\ accounts' \in {Put(accounts, worker.id, [worker.copy EXCEPT !.status = "error"]), accounts}
        BY <1>2 DEF AccountFails
  <2>5. CASE \E a \in DOMAIN worker.queue :
                /\ worker.at = "accounts"
                /\ accounts' \in {Put(accounts, a, [worker.queue[a] EXCEPT !.status = "error"]), accounts}
        BY <2>1, <2>2, <2>5
  <2>6. CASE /\ worker.at = "folders"
             /\ accounts' \in {Put(accounts, worker.id, [worker.copy EXCEPT !.status = "error"]), accounts}
        BY <2>1, <2>3, <2>6
  <2>. QED BY <2>4, <2>5, <2>6
<1>. QED BY <1>1, <1>2

LEMMA AccountsHold ==
    ASSUME Types, [Next]_vars
    PROVE  AccountsOK' /\ DOMAIN ordered \subseteq DOMAIN ordered'
<1>1. CASE UNCHANGED <<accounts, ordered>>
      BY <1>1 DEF Types, AccountsOK
<1>2. CASE FinishAccount \/ AccountFails
  <2>1. ASSUME NEW a \in DOMAIN ordered, NEW copy \in Account, NEW status \in {"active", "error"},
               accounts' = Put(accounts, a, [copy EXCEPT !.status = status])
        PROVE  AccountsOK'
    <3>1. [copy EXCEPT !.status = status] \in Account
          BY DEF Account
    <3>. QED BY <1>2, <2>1, <3>1, SyncSaves, AccountSaved DEF Types
  <2>2. ASSUME accounts' = accounts PROVE AccountsOK'
        BY <1>2, <2>2, SyncSaves DEF Types, AccountsOK
  <2>. QED BY <1>2, <2>1, <2>2, SyncSaves
<1>3. ASSUME NEW a \in Accounts, CreateAccount(a) \/ DeleteAccount(a)
      PROVE  AccountsOK' /\ DOMAIN ordered \subseteq DOMAIN ordered'
      BY <1>3, AccountMade, AccountGone
<1>4. ASSUME NEW p \in Procs, SaveAccount(p)
      PROVE  AccountsOK' /\ DOMAIN ordered \subseteq DOMAIN ordered'
  <2>1. PICK a, row : a = task[p].id /\ row = task[p].row
        OBVIOUS
  <2>2. /\ a \in DOMAIN ordered /\ row \in Account /\ accounts' = Put(accounts, a, row)
        /\ DOMAIN ordered' = DOMAIN ordered /\ ordered'[a] \in Order
        /\ \A b \in DOMAIN ordered : b # a => ordered'[b] = ordered[b]
        BY <1>4, <2>1, OrderGiven
  <2>3. DOMAIN accounts' = DOMAIN accounts \cup {a} /\ accounts'[a] = row
        BY <2>2 DEF Put
  <2>4. \A b \in DOMAIN accounts : b # a => accounts'[b] = accounts[b]
        BY <2>2 DEF Put
  <2>. QED BY <2>2, <2>3, <2>4 DEF Types, AccountsOK
<1>5. ASSUME NEW p \in Procs, ToggleFolder(p)
      PROVE  AccountsOK' /\ DOMAIN ordered \subseteq DOMAIN ordered'
  <2>1. accounts' = accounts
        BY <1>5 DEF ToggleFolder
  <2>2. PICK a : a = task[p].id[1]
        OBVIOUS
  <2>3. /\ DOMAIN ordered' = DOMAIN ordered /\ ordered'[a] \in Order
        /\ \A b \in DOMAIN ordered : b # a => ordered'[b] = ordered[b]
        BY <1>5, <2>2, SwitchOrdered
  <2>. QED BY <2>1, <2>3 DEF Types, AccountsOK
<1>. QED BY <1>1, <1>2, <1>3, <1>4, <1>5, AccountWriters, SyncSaves


\* Messages arrive at the server.
LEMMA MailboxWriters ==
    ASSUME [Next]_vars
    PROVE  \/ UNCHANGED <<mailbox>>
           \/ \E box \in Boxes : Arrive(box)
<1>1. /\ SyncAll => UNCHANGED <<mailbox>>
      BY DEF tables, history, SyncAll
<1>2. /\ \A a \in Accounts : Connect(a) => UNCHANGED <<mailbox>>
      /\ \A box \in Boxes : Search(box) => UNCHANGED <<mailbox>>
      BY DEF tables, history, Connect, Search
<1>3. /\ Assign => UNCHANGED <<mailbox>>
      /\ SkipStored => UNCHANGED <<mailbox>>
      /\ StoreMessage => UNCHANGED <<mailbox>>
      /\ CannotStore => UNCHANGED <<mailbox>>
      /\ TagUnread => UNCHANGED <<mailbox>>
      BY DEF tables, history, Assign, SkipStored, StoreMessage, CannotStore, TagUnread
<1>4. /\ FinishFolder => UNCHANGED <<mailbox>>
      /\ FinishAccount => UNCHANGED <<mailbox>>
      /\ FinishSync => UNCHANGED <<mailbox>>
      BY DEF tables, history, FinishFolder, FinishAccount, FinishSync
<1>5. /\ \A a \in Accounts : SyncOne(a) => UNCHANGED <<mailbox>>
      /\ \A a \in Accounts : CreateAccount(a) => UNCHANGED <<mailbox>>
      /\ \A a \in Accounts : DeleteAccount(a) => UNCHANGED <<mailbox>>
      /\ \A a \in Accounts : Discover(a) => UNCHANGED <<mailbox>>
      /\ \A a \in Accounts : LookupFails(a) => UNCHANGED <<mailbox>>
      BY DEF tables, history, SyncOne, CreateAccount, DeleteAccount, Discover, LookupFails
<1>6. /\ MessageFails => UNCHANGED <<mailbox>>
      /\ TagFails => UNCHANGED <<mailbox>>
      /\ FolderFails => UNCHANGED <<mailbox>>
      /\ AccountFails => UNCHANGED <<mailbox>>
      BY DEF tables, history, MessageFails, TagFails, FolderFails, AccountFails
<1>7. /\ \A p \in Procs, a \in Accounts : LoadAccount(p, a) => UNCHANGED <<mailbox>>
      /\ \A p \in Procs, box \in Boxes : LoadFolder(p, box) => UNCHANGED <<mailbox>>
      /\ \A p \in Procs, t \in Threads : LoadThread(p, t) => UNCHANGED <<mailbox>>
      BY DEF tables, history, LoadAccount, LoadFolder, LoadThread
<1>8. /\ \A p \in Procs : SaveAccount(p) => UNCHANGED <<mailbox>>
      /\ \A p \in Procs : ToggleFolder(p) => UNCHANGED <<mailbox>>
      /\ \A p \in Procs : SaveThread(p) => UNCHANGED <<mailbox>>
      BY DEF tables, history, SaveAccount, ToggleFolder, SaveThread
<1>9. /\ \A t \in Threads : MarkRead(t) => UNCHANGED <<mailbox>>
      /\ Restart => UNCHANGED <<mailbox>>
      BY DEF tables, history, MarkRead, Restart
<1>. QED BY <1>1, <1>2, <1>3, <1>4, <1>5, <1>6, <1>7, <1>8, <1>9 DEF Next, Work, vars

\* Accounts go away only when they are deleted.
LEMMA AccountsStay ==
    ASSUME Types, [Next]_vars
    PROVE  DOMAIN accounts \subseteq DOMAIN accounts' \/ \E a \in Accounts : DeleteAccount(a)
<1>1. CASE UNCHANGED <<accounts, ordered>>
      BY <1>1
<1>2. CASE FinishAccount \/ AccountFails
  <2>1. ASSUME NEW a, NEW row, accounts' = Put(accounts, a, row)
        PROVE  DOMAIN accounts \subseteq DOMAIN accounts'
        BY <2>1 DEF Put
  <2>. QED BY <1>2, <2>1, SyncSaves
<1>3. ASSUME NEW a \in Accounts, CreateAccount(a) PROVE DOMAIN accounts \subseteq DOMAIN accounts'
      BY <1>3, AccountMade
<1>4. ASSUME NEW p \in Procs, SaveAccount(p) PROVE DOMAIN accounts \subseteq DOMAIN accounts'
      BY <1>4 DEF SaveAccount, Put
<1>5. ASSUME NEW p \in Procs, ToggleFolder(p) PROVE DOMAIN accounts \subseteq DOMAIN accounts'
      BY <1>5 DEF ToggleFolder
<1>. QED BY <1>1, <1>2, <1>3, <1>4, <1>5, AccountWriters

\* A mailbox only gets longer.
LEMMA MailboxHolds ==
    ASSUME Types, [Next]_vars
    PROVE  /\ MailboxOK'
           /\ \A box \in Boxes : /\ Len(mailbox[box]) \in Nat /\ Len(mailbox'[box]) \in Nat
                                 /\ Len(mailbox[box]) <= Len(mailbox'[box])
                                 /\ \A uid \in 1..Len(mailbox[box]) : mailbox'[box][uid] = mailbox[box][uid]
<1>1. \A box \in Boxes : mailbox[box] \in Seq(Message)
      BY DEF Types, MailboxOK
<1>2. CASE mailbox' = mailbox
      BY <1>1, <1>2 DEF Types, MailboxOK
<1>3. ASSUME NEW box \in Boxes, Arrive(box)
      PROVE  /\ MailboxOK'
             /\ \A b \in Boxes : /\ Len(mailbox[b]) \in Nat /\ Len(mailbox'[b]) \in Nat
                                 /\ Len(mailbox[b]) <= Len(mailbox'[b])
                                 /\ \A uid \in 1..Len(mailbox[b]) : mailbox'[b][uid] = mailbox[b][uid]
  <2>1. PICK m \in Message : mailbox' = [mailbox EXCEPT ![box] = Append(@, m)]
        BY <1>3 DEF Arrive
  <2>2. PICK s : s = Append(mailbox[box], m)
        OBVIOUS
  <2>3. /\ s \in Seq(Message) /\ Len(s) = Len(mailbox[box]) + 1
        /\ \A uid \in 1..Len(mailbox[box]) : s[uid] = mailbox[box][uid]
        BY <1>1, <2>2
  <2>4. mailbox'[box] = s /\ \A b \in Boxes : b # box => mailbox'[b] = mailbox[b]
        BY <2>1, <2>2 DEF Types, MailboxOK
  <2>5. MailboxOK'
        BY <2>1, <2>2, <2>3 DEF Types, MailboxOK
  <2>6. \A b \in Boxes : Len(mailbox[b]) \in Nat
        BY <1>1
  <2>7. ASSUME NEW b \in Boxes
        PROVE  /\ Len(mailbox'[b]) \in Nat /\ Len(mailbox[b]) <= Len(mailbox'[b])
               /\ \A uid \in 1..Len(mailbox[b]) : mailbox'[b][uid] = mailbox[b][uid]
    <3>1. CASE b = box
          BY <2>3, <2>4, <2>6, <3>1
    <3>2. CASE b # box
          BY <2>4, <2>6, <3>2
    <3>. QED BY <3>1, <3>2
  <2>. QED BY <2>5, <2>6, <2>7
<1>4. mailbox' = mailbox \/ \E box \in Boxes : Arrive(box)
      BY MailboxWriters
<1>. QED BY <1>2, <1>3, <1>4

LEMMA StepGrows ==
    ASSUME Types, [Next]_vars
    PROVE  Grows
BY MailboxHolds, AccountsHold DEF Grows, Types, AccountsOK

\* The conversation of a message that has come is settled.
LEMMA ThreadStays ==
    ASSUME Types, [Next]_vars, NEW box \in Boxes, NEW uid \in 1..Len(mailbox[box])
    PROVE  /\ ThreadOf(box, uid)' = ThreadOf(box, uid) /\ mailbox'[box][uid] = mailbox[box][uid]
           /\ ThreadOf(box, uid) \in Accounts \X Subjects /\ ThreadOf(box, uid)[1] = box[1]
<1>1. mailbox'[box][uid] = mailbox[box][uid]
      BY MailboxHolds
<1>2. mailbox[box] \in Seq(Message)
      BY DEF Types, MailboxOK
<1>3. mailbox[box][uid] \in Message
      BY <1>2
<1>4. mailbox[box][uid].subject \in Subjects /\ box[1] \in Accounts
      BY <1>3 DEF Message, Boxes
<1>. QED BY <1>1, <1>4 DEF ThreadOf

\* Saving a folder: the account is there, or nothing is saved.
LEMMA FolderSaved ==
    ASSUME Types, NEW box \in Accounts \X Names, NEW row \in Folder, SaveFolder(box, row),
           accounts' = accounts
    PROVE  FoldersOK'
<1>1. CASE box[1] \in DOMAIN accounts
  <2>1. DOMAIN folders' = DOMAIN folders \cup {box} /\ folders'[box] = row
        BY <1>1 DEF SaveFolder, Put
  <2>2. \A b \in DOMAIN folders : b # box => folders'[b] = folders[b]
        BY <1>1 DEF SaveFolder, Put
  <2>3. box \in (DOMAIN accounts) \X Names
        BY <1>1
  <2>. QED BY <2>1, <2>2, <2>3 DEF Types, FoldersOK
<1>2. CASE box[1] \notin DOMAIN accounts
      BY <1>2 DEF SaveFolder, Types, FoldersOK
<1>. QED BY <1>1, <1>2

\* What is left of a folder's cursor when the folder is done with.
LEMMA FinishFolderIs ==
    ASSUME Types, FinishFolder
    PROVE  /\ worker.at = "messages" /\ worker.left = {} /\ accounts' = accounts
           /\ worker.box \in Accounts \X Names /\ worker.box[1] = worker.id
           /\ \/ folders' = folders
              \/ \E row \in Folder :
                    /\ SaveFolder(worker.box, row)
                    /\ row.enabled /\ row.lastUid \in worker.listed
                    /\ \A uid \in 1..row.lastUid :
                          uid <= worker.folder.lastUid \/ uid \in worker.listed
<1>1. worker.at = "messages" /\ worker.left = {} /\ accounts' = accounts
      BY DEF FinishFolder
<1>2. GoodFolder(worker) /\ GoodAccount(worker)
      BY <1>1 DEF Types, WorkerOK, GoodWorker, InAccount, InFolder
<1>3. worker.box \in Accounts \X Names /\ worker.box[1] = worker.id
      BY <1>2 DEF GoodFolder, GoodAccount, Types, AccountsOK
<1>4. CASE worker.listed # {} /\ Max(worker.listed) > worker.folder.lastUid
  <2>1. PICK row : row = [worker.folder EXCEPT !.lastUid = Max(worker.listed)]
        OBVIOUS
  <2>2. SaveFolder(worker.box, row)
        BY <1>4, <2>1 DEF FinishFolder
  <2>3. worker.listed \subseteq Nat
        BY <1>2 DEF GoodFolder
  <2>4. PICK x \in worker.listed : \A y \in worker.listed : y <= x
        BY <1>2, <1>4 DEF GoodFolder
  <2>5. Max(worker.listed) \in worker.listed
        BY <2>3, <2>4, GreatestOf
  <2>6. PICK last : last = Max(worker.listed)
        OBVIOUS
  <2>7. last \in worker.listed /\ last \in Nat
        BY <2>3, <2>5, <2>6
  <2>8. worker.folder \in Folder /\ worker.folder.enabled
        BY <1>2 DEF GoodFolder
  <2>9. row \in Folder /\ row.lastUid = last /\ row.enabled
        BY <2>1, <2>6, <2>7, <2>8 DEF Folder
  <2>10. ASSUME NEW uid \in 1..last
         PROVE  uid <= worker.folder.lastUid \/ uid \in worker.listed
    <3>1. uid \in Nat /\ worker.folder.lastUid \in Nat
          BY <2>7, <2>8 DEF Folder
    <3>2. uid > worker.folder.lastUid => uid \in worker.listed
          BY <1>2, <2>7 DEF GoodFolder
    <3>. QED BY <3>1, <3>2
  <2>. QED BY <1>1, <1>3, <2>2, <2>7, <2>9, <2>10
<1>5. CASE ~(worker.listed # {} /\ Max(worker.listed) > worker.folder.lastUid)
      BY <1>1, <1>3, <1>5 DEF FinishFolder
<1>. QED BY <1>4, <1>5

LEMMA FoldersHold ==
    ASSUME Types, [Next]_vars
    PROVE  FoldersOK'
<1>1. ASSUME NEW a \in Accounts, DeleteAccount(a) PROVE FoldersOK'
  <2>1. DOMAIN accounts' = DOMAIN accounts \ {a}
        BY <1>1, AccountGone
  <2>2. /\ DOMAIN folders' = {b \in DOMAIN folders : b[1] # a}
        /\ \A b \in DOMAIN folders' : folders'[b] = folders[b]
        BY <1>1 DEF DeleteAccount
  <2>3. \A b \in DOMAIN folders' : b \in (DOMAIN accounts) \X Names /\ b[1] # a
        BY <2>2 DEF Types, FoldersOK
  <2>4. \A b \in DOMAIN folders' : b \in (DOMAIN accounts') \X Names
        BY <2>1, <2>3
  <2>. QED BY <2>2, <2>4 DEF Types, FoldersOK
<1>2. CASE UNCHANGED folders /\ DOMAIN accounts \subseteq DOMAIN accounts'
      BY <1>2 DEF Types, FoldersOK
<1>3. CASE FinishFolder
      BY <1>3, FinishFolderIs, FolderSaved DEF Types, FoldersOK
<1>4. ASSUME NEW a \in Accounts, Connect(a) \/ Discover(a) PROVE FoldersOK'
  <2>1. /\ accounts' = accounts
        /\ Discovered(a, folders')
        BY <1>4 DEF Connect, Discover, Discovered
  <2>2. PICK known : known = folders'
        OBVIOUS
  <2>3. /\ \A b \in DOMAIN known : known[b] \in Folder
        /\ \A b \in DOMAIN known \ DOMAIN folders : a \in DOMAIN accounts /\ b \in {a} \X Names
        BY <2>1, <2>2, DiscoverIs
  <2>4. \A b \in DOMAIN known : b \in (DOMAIN accounts) \X Names
        BY <2>3 DEF Types, FoldersOK
  <2>. QED BY <2>1, <2>2, <2>3, <2>4 DEF FoldersOK
<1>5. ASSUME NEW p \in Procs, ToggleFolder(p) PROVE FoldersOK'
  <2>1. accounts' = accounts
        BY <1>5 DEF ToggleFolder
  <2>2. PICK box, row : box = task[p].id /\ row = task[p].row
        OBVIOUS
  <2>3. box \in Accounts \X Names /\ row \in Folder /\ SaveFolder(box, row)
        BY <1>5, <2>2, SwitchOrdered DEF Boxes
  <2>. QED BY <2>1, <2>3, FolderSaved
<1>6. ASSUME NEW a \in Accounts, LookupFails(a) PROVE FoldersOK'
  <2>1. accounts' = accounts
        BY <1>6 DEF LookupFails
  <2>2. PICK n, known :
           /\ n \in Names /\ Discovered(a, known)
           /\ DOMAIN folders' = DOMAIN known
           /\ folders'[<<a, n>>] = NewFolder
           /\ \A box \in DOMAIN known : box # <<a, n>> => folders'[box] = known[box]
        BY <1>6, LookupFailsIs
  <2>3. /\ \A b \in DOMAIN known : known[b] \in Folder
        /\ \A b \in DOMAIN known \ DOMAIN folders : a \in DOMAIN accounts /\ b \in {a} \X Names
        BY <2>2, DiscoverIs
  <2>4. \A b \in DOMAIN known : b \in (DOMAIN accounts) \X Names
        BY <2>3 DEF Types, FoldersOK
  <2>5. \A b \in DOMAIN folders' : folders'[b] \in Folder
        BY <2>2, <2>3, NewFolderIs
  <2>. QED BY <2>1, <2>2, <2>4, <2>5 DEF FoldersOK
<1>. QED BY <1>1, <1>2, <1>3, <1>4, <1>5, <1>6, FolderWriters, AccountsStay


\* Opening the thread of the message in hand.
LEMMA AssignIs ==
    ASSUME Types, Assign
    PROVE  /\ worker.at = "messages" /\ worker.left # {} /\ InHand \notin messages
           /\ worker' = WithMessage("store") /\ worker.id \in DOMAIN accounts
           /\ Thread \in (DOMAIN accounts) \X Subjects
           /\ DOMAIN threads' = DOMAIN threads \cup {Thread}
           /\ \A t \in DOMAIN threads : threads'[t] = threads[t]
           /\ Thread \in DOMAIN threads \/ threads'[Thread] = NoCustomer
<1>1. /\ worker.at = "messages" /\ worker.left # {} /\ InHand \notin messages
      /\ worker.id \in DOMAIN accounts /\ worker' = WithMessage("store")
      BY DEF Assign
<1>2. worker.at \in InFolder
      BY <1>1 DEF InFolder
<1>3. Thread = <<worker.id, Arrived.subject>> /\ Arrived \in Message
      BY <1>1, <1>2, MessageInHand
<1>4. PICK t : t = Thread
      OBVIOUS
<1>5. t \in (DOMAIN accounts) \X Subjects
      BY <1>1, <1>3, <1>4 DEF Message
<1>6. threads' = IF t \in DOMAIN threads THEN threads ELSE Put(threads, t, NoCustomer)
      BY <1>4 DEF Assign
<1>7. /\ DOMAIN threads' = DOMAIN threads \cup {t}
      /\ \A u \in DOMAIN threads : threads'[u] = threads[u]
      /\ t \in DOMAIN threads \/ threads'[t] = NoCustomer
      BY <1>6 DEF Put
<1>. QED BY <1>1, <1>4, <1>5, <1>7

LEMMA LinkedByAddress ==
    ASSUME Types, FinishSync
    PROVE  /\ DOMAIN threads' = DOMAIN threads
           /\ \A t \in DOMAIN threads :
                 /\ threads[t] # NoCustomer => threads'[t] = threads[t]
                 /\ threads'[t] \in Customers \cup {NoCustomer}
<1>1. threads' = threads \/ threads' = AutoLinkCustomers
      BY DEF FinishSync
<1>2. ASSUME NEW t \in DOMAIN threads
      PROVE  Correspondent[t[2]] \in Customers \cup {NoCustomer} /\ threads[t] \in Customers \cup {NoCustomer}
  <2>1. t[2] \in Subjects /\ threads[t] \in Customers \cup {NoCustomer}
        BY DEF Types, ThreadsOK
  <2>. QED BY <2>1, CorrespondentAssumption
<1>3. CASE threads' = threads
      BY <1>2, <1>3
<1>4. CASE threads' = AutoLinkCustomers
      BY <1>2, <1>4 DEF AutoLinkCustomers
<1>. QED BY <1>1, <1>3, <1>4

LEMMA ThreadSaved ==
    ASSUME Types, NEW p \in Procs, SaveThread(p)
    PROVE  /\ task[p].kind \in {"link", "reply"} /\ task[p].id \in Threads
           /\ task[p].row \in Customers \cup {NoCustomer}
           /\ task[p].kind = "reply" => task[p].row = task[p].read
           /\ \/ UNCHANGED <<threads, linked, raced>>
              \/ /\ task[p].id \in (DOMAIN accounts) \X Subjects
                 /\ DOMAIN threads' = DOMAIN threads \cup {task[p].id}
                 /\ threads'[task[p].id] = task[p].row
                 /\ \A t \in DOMAIN threads : t # task[p].id => threads'[t] = threads[t]
                 /\ linked' = IF task[p].kind = "link" THEN Put(linked, task[p].id, task[p].row) ELSE linked
                 /\ raced' = IF task[p].id \notin DOMAIN threads \/ threads[task[p].id] # task[p].read
                             THEN raced \cup {task[p].id} ELSE raced
<1>1. /\ task[p].kind \in {"link", "reply"} /\ task[p].id \in Threads
      /\ task[p].row \in Customers \cup {NoCustomer}
      /\ task[p].kind = "reply" => task[p].row = task[p].read
      BY DEF SaveThread, Types, TasksOK, GoodTask, Task, Idle
<1>2. PICK t, row : t = task[p].id /\ row = task[p].row
      OBVIOUS
<1>3. CASE t[1] \in DOMAIN accounts
  <2>1. /\ threads' = Put(threads, t, row)
        /\ linked' = IF task[p].kind = "link" THEN Put(linked, t, row) ELSE linked
        /\ raced' = IF t \notin DOMAIN threads \/ threads[t] # task[p].read
                    THEN raced \cup {t} ELSE raced
        BY <1>2, <1>3 DEF SaveThread, Race
  <2>2. /\ DOMAIN threads' = DOMAIN threads \cup {t} /\ threads'[t] = row
        /\ \A u \in DOMAIN threads : u # t => threads'[u] = threads[u]
        BY <2>1 DEF Put
  <2>3. t \in (DOMAIN accounts) \X Subjects
        BY <1>1, <1>2, <1>3 DEF Threads
  <2>. QED BY <1>1, <1>2, <2>1, <2>2, <2>3
<1>4. CASE t[1] \notin DOMAIN accounts
      BY <1>1, <1>2, <1>4 DEF SaveThread
<1>. QED BY <1>3, <1>4

LEMMA ThreadsGone ==
    ASSUME Types, NEW a \in Accounts, DeleteAccount(a)
    PROVE  /\ DOMAIN threads' = {t \in DOMAIN threads : t[1] # a}
           /\ \A t \in DOMAIN threads' : threads'[t] = threads[t]
           /\ unread' = {t \in unread : t[1] # a}
           /\ messages' = {m \in messages : m[1][1] # a}
           /\ fresh' = {m \in fresh : m[1][1] # a}
           /\ DOMAIN linked' = {t \in DOMAIN linked : t[1] # a}
           /\ \A t \in DOMAIN linked' : linked'[t] = linked[t]
BY DEF DeleteAccount

LEMMA ThreadsHold ==
    ASSUME Types, [Next]_vars
    PROVE  /\ ThreadsOK'
           /\ DOMAIN threads \subseteq DOMAIN threads' \/ \E a \in Accounts : DeleteAccount(a)
<1>1. ASSUME NEW a \in Accounts, DeleteAccount(a) PROVE ThreadsOK'
  <2>1. DOMAIN accounts' = DOMAIN accounts \ {a}
        BY <1>1, AccountGone
  <2>2. /\ DOMAIN threads' = {t \in DOMAIN threads : t[1] # a}
        /\ \A t \in DOMAIN threads' : threads'[t] = threads[t]
        /\ unread' = {t \in unread : t[1] # a}
        BY <1>1, ThreadsGone
  <2>3. \A t \in DOMAIN threads' : t \in (DOMAIN accounts) \X Subjects /\ t[1] # a
        BY <2>2 DEF Types, ThreadsOK
  <2>4. \A t \in DOMAIN threads' : t \in (DOMAIN accounts') \X Subjects
        BY <2>1, <2>3
  <2>. QED BY <2>2, <2>4 DEF Types, ThreadsOK
<1>2. ASSUME DOMAIN accounts \subseteq DOMAIN accounts', UNCHANGED threads, unread' \subseteq DOMAIN threads
      PROVE  ThreadsOK'
      BY <1>2 DEF Types, ThreadsOK
<1>3. ASSUME Assign PROVE ThreadsOK' /\ DOMAIN threads \subseteq DOMAIN threads'
  <2>1. accounts' = accounts /\ unread' = unread
        BY <1>3 DEF Assign
  <2>2. PICK t : t = Thread
        OBVIOUS
  <2>3. /\ t \in (DOMAIN accounts) \X Subjects /\ DOMAIN threads' = DOMAIN threads \cup {t}
        /\ \A u \in DOMAIN threads : threads'[u] = threads[u]
        /\ t \in DOMAIN threads \/ threads'[t] = NoCustomer
        BY <1>3, <2>2, AssignIs
  <2>. QED BY <2>1, <2>3 DEF Types, ThreadsOK
<1>4. ASSUME FinishSync PROVE ThreadsOK' /\ DOMAIN threads \subseteq DOMAIN threads'
  <2>1. accounts' = accounts /\ unread' = unread
        BY <1>4 DEF FinishSync
  <2>. QED BY <1>4, <2>1, LinkedByAddress DEF Types, ThreadsOK
<1>5. ASSUME NEW p \in Procs, SaveThread(p) PROVE ThreadsOK' /\ DOMAIN threads \subseteq DOMAIN threads'
  <2>1. accounts' = accounts /\ unread' = unread
        BY <1>5 DEF SaveThread
  <2>2. PICK t, row : t = task[p].id /\ row = task[p].row
        OBVIOUS
  <2>3. /\ row \in Customers \cup {NoCustomer}
        /\ \/ threads' = threads
           \/ /\ t \in (DOMAIN accounts) \X Subjects /\ DOMAIN threads' = DOMAIN threads \cup {t}
              /\ threads'[t] = row /\ \A u \in DOMAIN threads : u # t => threads'[u] = threads[u]
        BY <1>5, <2>2, ThreadSaved
  <2>. QED BY <2>1, <2>3 DEF Types, ThreadsOK
<1>6. ASSUME TagUnread \/ \E t \in Threads : MarkRead(t)
      PROVE  threads' = threads /\ unread' \subseteq DOMAIN threads
  <2>1. CASE TagUnread
        BY <2>1 DEF TagUnread, Types, ThreadsOK
  <2>2. CASE \E t \in Threads : MarkRead(t)
        BY <2>2 DEF MarkRead, Types, ThreadsOK
  <2>. QED BY <1>6, <2>1, <2>2
<1>7. CASE UNCHANGED <<threads, unread>>
  <2>1. threads' = threads /\ unread' \subseteq DOMAIN threads
        BY <1>7 DEF Types, ThreadsOK
  <2>. QED BY <1>1, <1>2, <2>1, AccountsStay
<1>8. CASE TagUnread \/ \E t \in Threads : MarkRead(t)
      BY <1>1, <1>2, <1>6, <1>8, AccountsStay
<1>. QED BY <1>1, <1>3, <1>4, <1>5, <1>7, <1>8, ThreadWriters

\* Storing the message in hand.
LEMMA StoreIs ==
    ASSUME Types, StoreMessage
    PROVE  /\ worker.at = "store" /\ worker.left # {} /\ Thread \in DOMAIN threads
           /\ messages' = messages \cup {InHand} /\ InHand \in Boxes \X Nat
           /\ fresh' = IF Arrived.seen \/ InHand \in messages THEN fresh ELSE fresh \cup {InHand}
           /\ worker' = WithMessage("tag") /\ threads' = threads /\ mailbox' = mailbox
           /\ InHand[2] \in 1..Len(mailbox[InHand[1]])
           /\ ThreadOf(InHand[1], InHand[2]) = Thread
<1>1. worker.at = "store" /\ worker.left # {} /\ worker.at \in InFolder
      BY DEF StoreMessage, Types, WorkerOK, GoodWorker, InFolder
<1>2. InHand \in Boxes \X Nat /\ Uid \in 1..Len(mailbox[worker.box])
      BY <1>1, MessageInHand
<1>3. InHand[1] = worker.box /\ InHand[2] = Uid
      BY DEF InHand
<1>. QED BY <1>1, <1>2, <1>3 DEF StoreMessage, Thread

\* Whatever else is written, messages stay with their threads.
LEMMA MessagesKept ==
    ASSUME Types, [Next]_vars, DOMAIN threads \subseteq DOMAIN threads',
           messages' \subseteq messages, fresh' \subseteq messages'
    PROVE  MessagesOK'
<1>1. ASSUME NEW m \in messages'
      PROVE  /\ m \in Boxes \X Nat /\ m[2] \in 1..Len(mailbox'[m[1]])
             /\ ThreadOf(m[1], m[2])' \in DOMAIN threads'
  <2>1. m \in Boxes \X Nat /\ m[2] \in 1..Len(mailbox[m[1]]) /\ ThreadOf(m[1], m[2]) \in DOMAIN threads
        BY DEF Types, MessagesOK
  <2>2. PICK box \in Boxes, uid \in Nat : box = m[1] /\ uid = m[2]
        BY <2>1
  <2>3. uid \in 1..Len(mailbox[box])
        BY <2>1, <2>2
  <2>4. uid \in 1..Len(mailbox'[box])
        BY <2>3, MailboxHolds
  <2>5. ThreadOf(box, uid)' = ThreadOf(box, uid)
        BY <2>3, ThreadStays
  <2>. QED BY <2>1, <2>2, <2>4, <2>5
<1>. QED BY <1>1 DEF MessagesOK

LEMMA MessagesHold ==
    ASSUME Types, [Next]_vars
    PROVE  MessagesOK'
<1>1. ASSUME NEW a \in Accounts, DeleteAccount(a) PROVE MessagesOK'
  <2>1. mailbox' = mailbox
        BY <1>1 DEF DeleteAccount
  <2>2. /\ DOMAIN threads' = {t \in DOMAIN threads : t[1] # a}
        /\ messages' = {m \in messages : m[1][1] # a} /\ fresh' = {m \in fresh : m[1][1] # a}
        BY <1>1, ThreadsGone
  <2>3. ASSUME NEW m \in messages'
        PROVE  /\ m \in Boxes \X Nat /\ m[2] \in 1..Len(mailbox'[m[1]])
               /\ ThreadOf(m[1], m[2])' \in DOMAIN threads'
    <3>1. /\ m \in Boxes \X Nat /\ m[2] \in 1..Len(mailbox[m[1]])
          /\ ThreadOf(m[1], m[2]) \in DOMAIN threads /\ m[1][1] # a
          BY <2>2 DEF Types, MessagesOK
    <3>2. ThreadOf(m[1], m[2])[1] = m[1][1]
          BY DEF ThreadOf
    <3>3. ThreadOf(m[1], m[2]) \in DOMAIN threads'
          BY <2>2, <3>1, <3>2
    <3>4. ThreadOf(m[1], m[2])' = ThreadOf(m[1], m[2])
          BY <2>1 DEF ThreadOf
    <3>. QED BY <2>1, <3>1, <3>3, <3>4
  <2>4. fresh' \subseteq messages'
        BY <2>2 DEF Types, MessagesOK
  <2>. QED BY <2>3, <2>4 DEF MessagesOK
<1>2. CASE StoreMessage
  <2>1. /\ messages' = messages \cup {InHand} /\ InHand \in Boxes \X Nat
        /\ fresh' \subseteq fresh \cup {InHand} /\ threads' = threads /\ mailbox' = mailbox
        /\ InHand[2] \in 1..Len(mailbox[InHand[1]])
        /\ ThreadOf(InHand[1], InHand[2]) \in DOMAIN threads
        BY <1>2, StoreIs
  <2>2. \A m : ThreadOf(m[1], m[2])' = ThreadOf(m[1], m[2])
        BY <2>1 DEF ThreadOf
  <2>. QED BY <2>1, <2>2 DEF Types, MessagesOK
<1>3. CASE UNCHANGED <<messages, fresh>>
  <2>1. messages' \subseteq messages /\ fresh' \subseteq messages'
        BY <1>3 DEF Types, MessagesOK
  <2>. QED BY <1>1, <2>1, MessagesKept, ThreadsHold
<1>4. CASE TagFails \/ Restart \/ \E t \in Threads : MarkRead(t)
  <2>1. messages' = messages /\ fresh' \subseteq fresh
    <3>1. CASE TagFails
          BY <3>1 DEF TagFails, tables
    <3>2. CASE Restart
          BY <3>2 DEF Restart, tables
    <3>3. CASE \E t \in Threads : MarkRead(t)
          BY <3>3 DEF MarkRead
    <3>. QED BY <1>4, <3>1, <3>2, <3>3
  <2>2. messages' \subseteq messages /\ fresh' \subseteq messages'
        BY <2>1 DEF Types, MessagesOK
  <2>. QED BY <1>1, <2>2, MessagesKept, ThreadsHold
<1>. QED BY <1>1, <1>2, <1>3, <1>4, MessageWriters


\* Commands and failures are counted.
LEMMA EventWriters ==
    ASSUME [Next]_vars
    PROVE  events' = events \/ HasEvent
<1>1. /\ SyncAll => UNCHANGED <<events>>
      BY DEF tables, history, SyncAll
<1>2. /\ \A a \in Accounts : Connect(a) => UNCHANGED <<events>>
      /\ \A box \in Boxes : Search(box) => UNCHANGED <<events>>
      BY DEF tables, history, Connect, Search
<1>3. /\ Assign => UNCHANGED <<events>>
      /\ SkipStored => UNCHANGED <<events>>
      /\ StoreMessage => UNCHANGED <<events>>
      /\ CannotStore => UNCHANGED <<events>>
      /\ TagUnread => UNCHANGED <<events>>
      BY DEF tables, history, Assign, SkipStored, StoreMessage, CannotStore, TagUnread
<1>4. /\ FinishFolder => UNCHANGED <<events>>
      /\ FinishAccount => UNCHANGED <<events>>
      /\ FinishSync => UNCHANGED <<events>>
      BY DEF tables, history, FinishFolder, FinishAccount, FinishSync
<1>5. /\ \A a \in Accounts : CreateAccount(a) => UNCHANGED <<events>>
      /\ \A a \in Accounts : Discover(a) => UNCHANGED <<events>>
      BY DEF tables, history, CreateAccount, Discover, LookupFails
<1>6. /\ \A p \in Procs : SaveAccount(p) => UNCHANGED <<events>>
      /\ \A p \in Procs : ToggleFolder(p) => UNCHANGED <<events>>
      /\ \A p \in Procs : SaveThread(p) => UNCHANGED <<events>>
      BY DEF tables, history, SaveAccount, ToggleFolder, SaveThread
<1>7. /\ \A box \in Boxes : Arrive(box) => UNCHANGED <<events>>
      BY DEF tables, history, Arrive
<1>8. /\ \A a \in Accounts : SyncOne(a) => HasEvent
      /\ MessageFails => HasEvent
      /\ TagFails => HasEvent
      /\ FolderFails => HasEvent
      /\ AccountFails => HasEvent
      /\ Restart => HasEvent
      /\ \A a \in Accounts : DeleteAccount(a) => HasEvent
      /\ \A a \in Accounts : LookupFails(a) => HasEvent
      /\ \A p \in Procs, a \in Accounts : LoadAccount(p, a) => HasEvent
      /\ \A p \in Procs, box \in Boxes : LoadFolder(p, box) => HasEvent
      /\ \A p \in Procs, t \in Threads : LoadThread(p, t) => HasEvent
      /\ \A t \in Threads : MarkRead(t) => HasEvent
      BY DEF SyncOne, MessageFails, TagFails, FolderFails, AccountFails, Restart, DeleteAccount,
             LookupFails, LoadAccount, LoadFolder, LoadThread, MarkRead
<1>. QED BY <1>1, <1>2, <1>3, <1>4, <1>5, <1>6, <1>7, <1>8 DEF Next, Work, vars

\* A request has read an account, a folder or a thread, and made its copy.
LEMMA AccountLoaded ==
    ASSUME Types, NEW p \in Procs, NEW a \in Accounts, LoadAccount(p, a)
    PROVE  /\ \A q \in Procs : q # p => task'[q] = task[q]
           /\ DOMAIN task' = Procs /\ task'[p].kind = "account" /\ task'[p].id = a
           /\ a \in DOMAIN accounts /\ GoodTask(task[p])'
<1>1. PICK new \in {Paused(accounts[a]), Resumed(accounts[a])} \cup {Configured(accounts[a], s) : s \in Settings} :
         Become(p, [kind |-> "account", id |-> a, read |-> accounts[a], row |-> new])
      BY DEF LoadAccount
<1>2. PICK read : read = accounts[a]
      OBVIOUS
<1>3. PICK t : t = [kind |-> "account", id |-> a, read |-> read, row |-> new]
      OBVIOUS
<1>4. a \in DOMAIN accounts /\ a \in DOMAIN ordered /\ read \in Account
      BY <1>2 DEF LoadAccount, Types, AccountsOK
<1>5. new \in Account
      BY <1>1, <1>2, <1>4 DEF Paused, Resumed, Configured, Account
<1>6. t.kind = "account" /\ t.id = a /\ t \in Task
      BY <1>3, <1>4, <1>5 DEF Task
<1>7. DOMAIN task' = Procs /\ task'[p] = t /\ \A q \in Procs : q # p => task'[q] = task[q]
      BY <1>1, <1>2, <1>3, OthersStay DEF Types
<1>8. ordered' = ordered
      BY DEF LoadAccount, history
<1>. QED BY <1>4, <1>6, <1>7, <1>8 DEF GoodTask

LEMMA FolderLoaded ==
    ASSUME Types, NEW p \in Procs, NEW box \in Boxes, LoadFolder(p, box)
    PROVE  /\ \A q \in Procs : q # p => task'[q] = task[q]
           /\ DOMAIN task' = Procs /\ task'[p].kind = "folder" /\ task'[p].id = box
           /\ box \in DOMAIN folders /\ task'[p].row.lastUid = folders[box].lastUid
           /\ GoodTask(task[p])'
<1>1. PICK read, row : read = folders[box] /\ row = [folders[box] EXCEPT !.enabled = ~@]
      OBVIOUS
<1>2. PICK t : t = [kind |-> "folder", id |-> box, read |-> read, row |-> row]
      OBVIOUS
<1>3. box \in DOMAIN folders /\ read \in Folder /\ box[1] \in DOMAIN ordered
      BY <1>1 DEF LoadFolder, Types, FoldersOK, AccountsOK
<1>4. row \in Folder /\ row.lastUid = read.lastUid
      BY <1>1, <1>3 DEF Folder
<1>5. t.kind = "folder" /\ t.id = box /\ t.row = row /\ t \in Task
      BY <1>2, <1>3, <1>4 DEF Task
<1>6. Become(p, t)
      BY <1>1, <1>2 DEF LoadFolder
<1>7. DOMAIN task' = Procs /\ task'[p] = t /\ \A q \in Procs : q # p => task'[q] = task[q]
      BY <1>6, OthersStay DEF Types
<1>8. ordered' = ordered
      BY DEF LoadFolder, history
<1>. QED BY <1>1, <1>3, <1>4, <1>5, <1>7, <1>8 DEF GoodTask

LEMMA ThreadLoaded ==
    ASSUME Types, NEW p \in Procs, NEW t \in Threads, LoadThread(p, t)
    PROVE  /\ \A q \in Procs : q # p => task'[q] = task[q]
           /\ DOMAIN task' = Procs /\ task'[p].kind \in {"link", "reply"}
           /\ GoodTask(task[p])'
<1>1. PICK read : read = threads[t] /\ read \in Customers \cup {NoCustomer}
      BY DEF LoadThread, Types, ThreadsOK
<1>2. \/ \E c \in Customers \cup {NoCustomer} :
            Become(p, [kind |-> "link", id |-> t, read |-> read, row |-> c])
      \/ Become(p, [kind |-> "reply", id |-> t, read |-> read, row |-> read])
      BY <1>1 DEF LoadThread
<1>3. PICK new \in Task : /\ Become(p, new) /\ new.kind \in {"link", "reply"}
                          /\ new.kind = "reply" => new.row = new.read
  <2>1. ASSUME NEW c \in Customers \cup {NoCustomer}, NEW kind \in {"link", "reply"},
               NEW new, new = [kind |-> kind, id |-> t, read |-> read, row |-> c]
        PROVE  new \in Task /\ new.kind = kind /\ new.row = c /\ new.read = read
        BY <1>1, <2>1 DEF Task
  <2>2. ASSUME NEW c \in Customers \cup {NoCustomer},
               Become(p, [kind |-> "link", id |-> t, read |-> read, row |-> c])
        PROVE  \E new \in Task : /\ Become(p, new) /\ new.kind \in {"link", "reply"}
                                 /\ new.kind = "reply" => new.row = new.read
    <3>1. PICK new : new = [kind |-> "link", id |-> t, read |-> read, row |-> c]
          OBVIOUS
    <3>2. new \in Task /\ new.kind = "link"
          BY <2>1, <3>1
    <3>. QED BY <2>2, <3>1, <3>2
  <2>3. ASSUME Become(p, [kind |-> "reply", id |-> t, read |-> read, row |-> read])
        PROVE  \E new \in Task : /\ Become(p, new) /\ new.kind \in {"link", "reply"}
                                 /\ new.kind = "reply" => new.row = new.read
    <3>1. PICK new : new = [kind |-> "reply", id |-> t, read |-> read, row |-> read]
          OBVIOUS
    <3>2. new \in Task /\ new.kind = "reply" /\ new.row = read /\ new.read = read
          BY <1>1, <2>1, <3>1
    <3>. QED BY <2>3, <3>1, <3>2
  <2>. QED BY <1>2, <2>2, <2>3
<1>4. DOMAIN task' = Procs /\ task'[p] = new /\ \A q \in Procs : q # p => task'[q] = task[q]
      BY <1>3, OthersStay DEF Types
<1>. QED BY <1>3, <1>4 DEF GoodTask

LEMMA TasksHold ==
    ASSUME Types, [Next]_vars
    PROVE  TasksOK'
<1>1. \A q \in Procs : GoodTask(task[q]) /\ DOMAIN ordered \subseteq DOMAIN ordered'
      BY AccountsHold DEF Types, TasksOK
<1>2. ASSUME NEW q \in Procs, task'[q] = task[q] PROVE GoodTask(task[q])'
  <2>1. PICK t : t = task[q]
        OBVIOUS
  <2>2. GoodTask(t)'
        BY <1>1, <2>1, TaskStaysGood
  <2>. QED BY <1>2, <2>1, <2>2
<1>3. GoodTask(Idle)'
      BY DEF GoodTask, Idle, Task
<1>4. CASE task' = task
      BY <1>2, <1>4 DEF Types, TasksOK
<1>5. ASSUME NEW p \in Procs, DOMAIN task' = Procs, \A q \in Procs : q # p => task'[q] = task[q],
             GoodTask(task[p])'
      PROVE  TasksOK'
      BY <1>2, <1>5 DEF TasksOK
<1>6. ASSUME NEW p \in Procs, SaveAccount(p) \/ ToggleFolder(p) \/ SaveThread(p) PROVE TasksOK'
  <2>1. Become(p, Idle)
        BY <1>6 DEF SaveAccount, ToggleFolder, SaveThread
  <2>2. DOMAIN task' = Procs /\ task'[p] = Idle /\ \A q \in Procs : q # p => task'[q] = task[q]
        BY <2>1, OthersStay DEF Types
  <2>3. GoodTask(task[p])'
        BY <1>3, <2>2
  <2>. QED BY <1>5, <2>2, <2>3
<1>7. CASE Restart
  <2>1. DOMAIN task' = Procs /\ \A q \in Procs : task'[q] = Idle
        BY <1>7 DEF Restart
  <2>. QED BY <1>3, <2>1 DEF TasksOK
<1>8. ASSUME NEW p \in Procs, NEW a \in Accounts, LoadAccount(p, a) PROVE TasksOK'
      BY <1>5, <1>8, AccountLoaded
<1>9. ASSUME NEW p \in Procs, NEW box \in Boxes, LoadFolder(p, box) PROVE TasksOK'
      BY <1>5, <1>9, FolderLoaded
<1>10. ASSUME NEW p \in Procs, NEW t \in Threads, LoadThread(p, t) PROVE TasksOK'
       BY <1>5, <1>10, ThreadLoaded
<1>. QED BY <1>4, <1>6, <1>7, <1>8, <1>9, <1>10, TaskWriters

\* The worker is done with a message, stored or not.
PutsDown == worker' = MessageDone /\ worker.left # {} /\ worker.at \in InFolder

LEMMA MessageSteps ==
    ASSUME Types
    PROVE  /\ SkipStored => PutsDown /\ worker.at = "messages" /\ InHand \in messages
           /\ CannotStore => PutsDown /\ worker.at \in {"messages", "store"} /\ failed' = failed \cup {InHand}
           /\ MessageFails => PutsDown /\ worker.at \in {"messages", "store"} /\ failed' = failed \cup {InHand}
           /\ TagUnread => PutsDown /\ worker.at = "tag"
           /\ TagFails => PutsDown /\ worker.at = "tag"
<1>1. worker.at \in {"store", "tag"} => worker.left # {}
      BY DEF Types, WorkerOK, GoodWorker
<1>2. SkipStored => PutsDown /\ worker.at = "messages" /\ InHand \in messages
      BY DEF SkipStored, PutsDown, InFolder
<1>3. CannotStore => PutsDown /\ worker.at \in {"messages", "store"} /\ failed' = failed \cup {InHand}
      BY <1>1 DEF CannotStore, PutsDown, InFolder
<1>4. MessageFails => PutsDown /\ worker.at \in {"messages", "store"} /\ failed' = failed \cup {InHand}
      BY <1>1 DEF MessageFails, PutsDown, InFolder
<1>5. TagUnread => PutsDown /\ worker.at = "tag"
      BY <1>1 DEF TagUnread, PutsDown, InFolder
<1>6. TagFails => PutsDown /\ worker.at = "tag"
      BY <1>1 DEF TagFails, PutsDown, InFolder
<1>. QED BY <1>2, <1>3, <1>4, <1>5, <1>6

\* The folder in hand is done with, or the connection to the server broke.
LEMMA FolderLeft ==
    ASSUME Types, FinishFolder \/ FolderFails, NEW w, w = worker'
    PROVE  /\ worker.at \in {"messages", "folders"} /\ w.at = "folders" /\ w.queue = worker.queue
           /\ w.id = worker.id /\ w.copy = worker.copy
           /\ DOMAIN w.todo \subseteq DOMAIN worker.todo
           /\ \A b \in DOMAIN w.todo : w.todo[b] = worker.todo[b]
           /\ GoodWorker(w)
<1>1. ASSUME worker.at \in {"messages", "folders"}, NEW todo, w = AtFolders(worker, todo),
             DOMAIN todo \subseteq DOMAIN worker.todo, \A b \in DOMAIN todo : todo[b] = worker.todo[b]
      PROVE  /\ w.at = "folders" /\ w.queue = worker.queue
             /\ w.id = worker.id /\ w.copy = worker.copy /\ w.todo = todo
             /\ GoodWorker(w)
  <2>1. worker.at \in InAccount
        BY <1>1 DEF InAccount
  <2>. QED BY <1>1, <2>1, AtFoldersIs
<1>2. \/ worker.at = "messages" /\ w = AtFolders(worker, worker.todo)
      \/ worker.at = "folders" /\ \E box \in DOMAIN worker.todo : w = AtFolders(worker, Drop(worker.todo, {box}))
      BY DEF FinishFolder, FolderFails
<1>3. CASE worker.at = "messages" /\ w = AtFolders(worker, worker.todo)
      BY <1>1, <1>3
<1>4. ASSUME worker.at = "folders", NEW box \in DOMAIN worker.todo,
             w = AtFolders(worker, Drop(worker.todo, {box}))
      PROVE  /\ w.at = "folders" /\ w.queue = worker.queue
             /\ w.id = worker.id /\ w.copy = worker.copy
             /\ DOMAIN w.todo \subseteq DOMAIN worker.todo
             /\ \A b \in DOMAIN w.todo : w.todo[b] = worker.todo[b]
             /\ GoodWorker(w)
  <2>1. PICK todo : todo = Drop(worker.todo, {box})
        OBVIOUS
  <2>2. DOMAIN todo \subseteq DOMAIN worker.todo /\ \A b \in DOMAIN todo : todo[b] = worker.todo[b]
        BY <2>1 DEF Drop
  <2>3. w = AtFolders(worker, todo)
        BY <1>4, <2>1
  <2>4. /\ w.at = "folders" /\ w.queue = worker.queue
        /\ w.id = worker.id /\ w.copy = worker.copy /\ w.todo = todo
        /\ GoodWorker(w)
        BY <1>1, <1>4, <2>2, <2>3
  <2>. QED BY <2>2, <2>4
<1>. QED BY <1>2, <1>3, <1>4

\* The account in hand is done with: the worker is between accounts again.
LEMMA AccountLeft ==
    ASSUME Types, FinishAccount \/ AccountFails, NEW w, w = worker'
    PROVE  /\ w.at = "accounts" /\ GoodWorker(w)
           /\ DOMAIN w.queue \subseteq DOMAIN worker.queue
           /\ \A a \in DOMAIN w.queue : w.queue[a] = worker.queue[a]
           /\ worker.at = "folders" \/ worker.at = "accounts"
<1>1. \/ worker.at = "folders" /\ w = NextAccount
      \/ worker.at = "accounts" /\ \E a \in DOMAIN worker.queue : w = [worker EXCEPT !.queue = Drop(@, {a})]
      BY DEF FinishAccount, AccountFails
<1>2. CASE worker.at = "folders" /\ w = NextAccount
  <2>1. w.at = "accounts" /\ w.queue = worker.queue /\ GoodWorker(w)
        BY <1>2, NextAccountIs
  <2>. QED BY <1>2, <2>1
<1>3. ASSUME worker.at = "accounts", NEW a \in DOMAIN worker.queue, w = [worker EXCEPT !.queue = Drop(@, {a})]
      PROVE  /\ w.at = "accounts" /\ GoodWorker(w)
             /\ DOMAIN w.queue \subseteq DOMAIN worker.queue
             /\ \A b \in DOMAIN w.queue : w.queue[b] = worker.queue[b]
  <2>1. PICK queue : queue = Drop(worker.queue, {a})
        OBVIOUS
  <2>2. DOMAIN queue \subseteq DOMAIN worker.queue /\ \A b \in DOMAIN queue : queue[b] = worker.queue[b]
        BY <2>1 DEF Drop
  <2>3. worker = [at |-> worker.at, queue |-> worker.queue, manual |-> worker.manual] /\ GoodQueue(worker)
        BY <1>3 DEF Types, WorkerOK, GoodWorker
  <2>4. w = [at |-> "accounts", queue |-> queue, manual |-> worker.manual]
        BY <1>3, <2>1, <2>3
  <2>5. DOMAIN queue \subseteq DOMAIN ordered /\ \A b \in DOMAIN queue : queue[b] \in Account
        BY <2>2, <2>3 DEF GoodQueue
  <2>6. w.at = "accounts" /\ w.queue = queue /\ GoodWorker(w)
        BY <2>4, <2>5, BetweenAccounts
  <2>. QED BY <2>2, <2>6
<1>. QED BY <1>1, <1>2, <1>3

\* A sync starts, of every active account or of one that staff asked for.
LEMMA SyncStarts ==
    ASSUME Types, SyncAll \/ \E a \in Accounts : SyncOne(a), NEW w, w = worker'
    PROVE  /\ worker.at = "idle" /\ w.at = "accounts" /\ GoodWorker(w)
           /\ \A a \in DOMAIN w.queue : /\ a \in DOMAIN accounts /\ w.queue[a] = accounts[a]
                                        /\ accounts[a].status # "paused"
<1>1. \A a \in DOMAIN accounts : a \in DOMAIN ordered /\ accounts[a] \in Account
      BY DEF Types, AccountsOK
<1>2. ASSUME NEW S \in SUBSET DOMAIN accounts, NEW manual, \A a \in S : accounts[a].status # "paused",
             w = [at |-> "accounts", queue |-> [a \in S |-> accounts[a]], manual |-> manual]
      PROVE  /\ w.at = "accounts" /\ GoodWorker(w)
             /\ \A a \in DOMAIN w.queue : /\ a \in DOMAIN accounts /\ w.queue[a] = accounts[a]
                                          /\ accounts[a].status # "paused"
  <2>1. PICK queue : queue = [a \in S |-> accounts[a]]
        OBVIOUS
  <2>2. DOMAIN queue = S /\ \A a \in S : queue[a] = accounts[a]
        BY <2>1
  <2>3. w = [at |-> "accounts", queue |-> queue, manual |-> manual]
        BY <1>2, <2>1
  <2>4. DOMAIN queue \subseteq DOMAIN ordered /\ \A b \in DOMAIN queue : queue[b] \in Account
        BY <1>1, <2>2
  <2>5. w.at = "accounts" /\ w.queue = queue /\ GoodWorker(w)
        BY <2>3, <2>4, BetweenAccounts
  <2>. QED BY <1>2, <2>2, <2>5
<1>3. CASE SyncAll
  <2>1. PICK active : active = {a \in DOMAIN accounts : accounts[a].status = "active"}
        OBVIOUS
  <2>2. worker.at = "idle" /\ w = [Resting EXCEPT !.at = "accounts", !.queue = [a \in active |-> accounts[a]]]
        BY <1>3, <2>1 DEF SyncAll
  <2>3. w = [at |-> "accounts", queue |-> [a \in active |-> accounts[a]], manual |-> FALSE]
        BY <2>2 DEF Resting
  <2>4. active \in SUBSET DOMAIN accounts /\ \A a \in active : accounts[a].status # "paused"
        BY <2>1
  <2>. QED BY <1>2, <2>2, <2>3, <2>4
<1>4. ASSUME NEW a \in Accounts, SyncOne(a)
      PROVE  /\ worker.at = "idle" /\ w.at = "accounts" /\ GoodWorker(w)
             /\ \A b \in DOMAIN w.queue : /\ b \in DOMAIN accounts /\ w.queue[b] = accounts[b]
                                          /\ accounts[b].status # "paused"
  <2>1. PICK S : S = {a}
        OBVIOUS
  <2>2. /\ worker.at = "idle" /\ a \in DOMAIN accounts /\ accounts[a].status # "paused"
        /\ w = [at |-> "accounts", queue |-> [i \in S |-> accounts[i]], manual |-> TRUE]
        BY <1>4, <2>1 DEF SyncOne
  <2>3. S \in SUBSET DOMAIN accounts /\ \A b \in S : accounts[b].status # "paused"
        BY <2>1, <2>2
  <2>. QED BY <1>2, <2>2, <2>3
<1>. QED BY <1>3, <1>4

LEMMA WorkerHolds ==
    ASSUME Types, [Next]_vars
    PROVE  WorkerOK'
<1>1. PICK w : w = worker'
      OBVIOUS
<1>2. ASSUME GoodWorker(w) PROVE WorkerOK'
  <2>1. GoodWorker(w)'
        BY <1>2, StepGrows, WorkerStaysGood
  <2>. QED BY <1>1, <2>1 DEF WorkerOK
<1>3. CASE worker' = worker
      BY <1>1, <1>2, <1>3 DEF Types, WorkerOK
<1>4. CASE SyncAll \/ \E a \in Accounts : SyncOne(a)
      BY <1>1, <1>2, <1>4, SyncStarts
<1>5. CASE SkipStored \/ CannotStore \/ MessageFails \/ TagUnread \/ TagFails
  <2>1. worker' = MessageDone /\ worker.at \in InFolder
        BY <1>5, MessageSteps DEF PutsDown
  <2>. QED BY <1>1, <1>2, <2>1, MessageDoneIs
<1>6. CASE Assign \/ StoreMessage
  <2>1. PICK at \in {"store", "tag"} : worker' = WithMessage(at)
        BY <1>6 DEF Assign, StoreMessage
  <2>2. worker.at \in InFolder /\ worker.left # {}
        BY <1>6, AssignIs, StoreIs DEF InFolder
  <2>. QED BY <1>1, <1>2, <2>1, <2>2, WithMessageIs
<1>7. CASE FinishFolder \/ FolderFails
      BY <1>1, <1>2, <1>7, FolderLeft
<1>8. CASE FinishAccount \/ AccountFails
      BY <1>1, <1>2, <1>8, AccountLeft
<1>9. CASE FinishSync \/ Restart
  <2>1. worker' = Resting
        BY <1>9 DEF FinishSync, Restart
  <2>. QED BY <1>1, <1>2, <2>1, RestingIs
<1>10. ASSUME NEW a \in Accounts, Connect(a) PROVE WorkerOK'
       BY <1>1, <1>2, <1>10, ConnectIs
<1>11. ASSUME NEW box \in Boxes, Search(box) PROVE WorkerOK'
       BY <1>1, <1>2, <1>11, SearchIs
<1>. QED BY <1>3, <1>4, <1>5, <1>6, <1>7, <1>8, <1>9, <1>10, <1>11, WorkerWriters

LEMMA EventsHold ==
    ASSUME Types, [Next]_vars
    PROVE  EventsOK'
<1>1. events' = events \/ HasEvent
      BY EventWriters
<1>2. MaxEvents \in Nat
      BY BoundsAssumption
<1>. QED BY <1>1, <1>2 DEF HasEvent, Types, EventsOK

LEMMA TypesHold == Types /\ [Next]_vars => Types'
BY AccountsHold, FoldersHold, ThreadsHold, MailboxHolds, MessagesHold, TasksHold, WorkerHolds, EventsHold
   DEF Types

LEMMA InitTypes == Init => Types
<1>. SUFFICES ASSUME Init PROVE Types
     OBVIOUS
<1>1. /\ DOMAIN accounts = {} /\ DOMAIN folders = {} /\ DOMAIN threads = {} /\ DOMAIN ordered = {}
      /\ unread = {} /\ messages = {} /\ fresh = {} /\ events = 0
      BY DEF Init, Nothing
<1>2. AccountsOK /\ FoldersOK /\ ThreadsOK /\ MessagesOK
      BY <1>1 DEF AccountsOK, FoldersOK, ThreadsOK, MessagesOK
<1>3. MailboxOK
      BY DEF Init, MailboxOK
<1>4. TasksOK
      BY IdleIsGood DEF Init, TasksOK
<1>5. WorkerOK
      BY RestingIs DEF Init, WorkerOK
<1>6. EventsOK
      BY <1>1, BoundsAssumption DEF EventsOK
<1>. QED BY <1>2, <1>3, <1>4, <1>5, <1>6 DEF Types

\* Accounts, folders, threads and messages refer to what there is
\* (migrations of internal/modules/email; gorm_repository.go).
THEOREM TypeCorrect == Spec => []TypeOK
<1>1. Types => TypeOK
      BY DEF Types, AccountsOK, FoldersOK, ThreadsOK, MessagesOK, EventsOK, TypeOK
<1>. QED BY <1>1, InitTypes, TypesHold, PTL DEF Spec


-----------------------------------------------------------------------------
(* Who writes the history *)

\* Staff link threads.
LEMMA LinkedWriters ==
    ASSUME [Next]_vars
    PROVE  \/ UNCHANGED <<linked>>
           \/ \E a \in Accounts : DeleteAccount(a)
           \/ \E p \in Procs : SaveThread(p)
<1>1. /\ SyncAll => UNCHANGED <<linked>>
      BY DEF tables, history, SyncAll
<1>2. /\ \A a \in Accounts : Connect(a) => UNCHANGED <<linked>>
      /\ \A box \in Boxes : Search(box) => UNCHANGED <<linked>>
      BY DEF tables, history, Connect, Search
<1>3. /\ Assign => UNCHANGED <<linked>>
      /\ SkipStored => UNCHANGED <<linked>>
      /\ StoreMessage => UNCHANGED <<linked>>
      /\ CannotStore => UNCHANGED <<linked>>
      /\ TagUnread => UNCHANGED <<linked>>
      BY DEF tables, history, Assign, SkipStored, StoreMessage, CannotStore, TagUnread
<1>4. /\ FinishFolder => UNCHANGED <<linked>>
      /\ FinishAccount => UNCHANGED <<linked>>
      /\ FinishSync => UNCHANGED <<linked>>
      BY DEF tables, history, FinishFolder, FinishAccount, FinishSync
<1>5. /\ \A a \in Accounts : SyncOne(a) => UNCHANGED <<linked>>
      /\ \A a \in Accounts : CreateAccount(a) => UNCHANGED <<linked>>
      /\ \A a \in Accounts : Discover(a) => UNCHANGED <<linked>>
      /\ \A a \in Accounts : LookupFails(a) => UNCHANGED <<linked>>
      BY DEF tables, history, SyncOne, CreateAccount, Discover, LookupFails
<1>6. /\ MessageFails => UNCHANGED <<linked>>
      /\ TagFails => UNCHANGED <<linked>>
      /\ FolderFails => UNCHANGED <<linked>>
      /\ AccountFails => UNCHANGED <<linked>>
      BY DEF tables, history, MessageFails, TagFails, FolderFails, AccountFails
<1>7. /\ \A p \in Procs, a \in Accounts : LoadAccount(p, a) => UNCHANGED <<linked>>
      /\ \A p \in Procs, box \in Boxes : LoadFolder(p, box) => UNCHANGED <<linked>>
      /\ \A p \in Procs, t \in Threads : LoadThread(p, t) => UNCHANGED <<linked>>
      BY DEF tables, history, LoadAccount, LoadFolder, LoadThread
<1>8. /\ \A p \in Procs : SaveAccount(p) => UNCHANGED <<linked>>
      /\ \A p \in Procs : ToggleFolder(p) => UNCHANGED <<linked>>
      BY DEF tables, history, SaveAccount, ToggleFolder
<1>9. /\ \A t \in Threads : MarkRead(t) => UNCHANGED <<linked>>
      /\ \A box \in Boxes : Arrive(box) => UNCHANGED <<linked>>
      /\ Restart => UNCHANGED <<linked>>
      BY DEF tables, history, MarkRead, Arrive, Restart
<1>. QED BY <1>1, <1>2, <1>3, <1>4, <1>5, <1>6, <1>7, <1>8, <1>9 DEF Next, Work, vars

\* What staff did while another had a copy is noted.
LEMMA RacedWriters ==
    ASSUME [Next]_vars
    PROVE  \/ UNCHANGED <<raced>>
           \/ \E a \in Accounts : DeleteAccount(a) \/ LookupFails(a)
           \/ \E p \in Procs : SaveThread(p) \/ SaveAccount(p) \/ ToggleFolder(p)
<1>1. /\ SyncAll => UNCHANGED <<raced>>
      BY DEF tables, history, SyncAll
<1>2. /\ \A a \in Accounts : Connect(a) => UNCHANGED <<raced>>
      /\ \A box \in Boxes : Search(box) => UNCHANGED <<raced>>
      BY DEF tables, history, Connect, Search
<1>3. /\ Assign => UNCHANGED <<raced>>
      /\ SkipStored => UNCHANGED <<raced>>
      /\ StoreMessage => UNCHANGED <<raced>>
      /\ CannotStore => UNCHANGED <<raced>>
      /\ TagUnread => UNCHANGED <<raced>>
      BY DEF tables, history, Assign, SkipStored, StoreMessage, CannotStore, TagUnread
<1>4. /\ FinishFolder => UNCHANGED <<raced>>
      /\ FinishAccount => UNCHANGED <<raced>>
      /\ FinishSync => UNCHANGED <<raced>>
      BY DEF tables, history, FinishFolder, FinishAccount, FinishSync
<1>5. /\ \A a \in Accounts : SyncOne(a) => UNCHANGED <<raced>>
      /\ \A a \in Accounts : CreateAccount(a) => UNCHANGED <<raced>>
      /\ \A a \in Accounts : Discover(a) => UNCHANGED <<raced>>
      BY DEF tables, history, SyncOne, CreateAccount, Discover, LookupFails
<1>6. /\ MessageFails => UNCHANGED <<raced>>
      /\ TagFails => UNCHANGED <<raced>>
      /\ FolderFails => UNCHANGED <<raced>>
      /\ AccountFails => UNCHANGED <<raced>>
      BY DEF tables, history, MessageFails, TagFails, FolderFails, AccountFails
<1>7. /\ \A p \in Procs, a \in Accounts : LoadAccount(p, a) => UNCHANGED <<raced>>
      /\ \A p \in Procs, box \in Boxes : LoadFolder(p, box) => UNCHANGED <<raced>>
      /\ \A p \in Procs, t \in Threads : LoadThread(p, t) => UNCHANGED <<raced>>
      BY DEF tables, history, LoadAccount, LoadFolder, LoadThread
<1>8. /\ \A t \in Threads : MarkRead(t) => UNCHANGED <<raced>>
      /\ \A box \in Boxes : Arrive(box) => UNCHANGED <<raced>>
      /\ Restart => UNCHANGED <<raced>>
      BY DEF tables, history, MarkRead, Arrive, Restart
<1>. QED BY <1>1, <1>2, <1>3, <1>4, <1>5, <1>6, <1>7, <1>8 DEF Next, Work, vars

\* Messages that are not stored are noted.
LEMMA FailedWriters ==
    ASSUME [Next]_vars
    PROVE  \/ UNCHANGED <<failed>>
           \/ MessageFails \/ CannotStore
<1>1. /\ SyncAll => UNCHANGED <<failed>>
      BY DEF tables, history, SyncAll
<1>2. /\ \A a \in Accounts : Connect(a) => UNCHANGED <<failed>>
      /\ \A box \in Boxes : Search(box) => UNCHANGED <<failed>>
      BY DEF tables, history, Connect, Search
<1>3. /\ Assign => UNCHANGED <<failed>>
      /\ SkipStored => UNCHANGED <<failed>>
      /\ StoreMessage => UNCHANGED <<failed>>
      /\ TagUnread => UNCHANGED <<failed>>
      BY DEF tables, history, Assign, SkipStored, StoreMessage, TagUnread
<1>4. /\ FinishFolder => UNCHANGED <<failed>>
      /\ FinishAccount => UNCHANGED <<failed>>
      /\ FinishSync => UNCHANGED <<failed>>
      BY DEF tables, history, FinishFolder, FinishAccount, FinishSync
<1>5. /\ \A a \in Accounts : SyncOne(a) => UNCHANGED <<failed>>
      /\ \A a \in Accounts : CreateAccount(a) => UNCHANGED <<failed>>
      /\ \A a \in Accounts : DeleteAccount(a) => UNCHANGED <<failed>>
      /\ \A a \in Accounts : Discover(a) => UNCHANGED <<failed>>
      /\ \A a \in Accounts : LookupFails(a) => UNCHANGED <<failed>>
      BY DEF tables, history, SyncOne, CreateAccount, DeleteAccount, Discover, LookupFails
<1>6. /\ TagFails => UNCHANGED <<failed>>
      /\ FolderFails => UNCHANGED <<failed>>
      /\ AccountFails => UNCHANGED <<failed>>
      BY DEF tables, history, TagFails, FolderFails, AccountFails
<1>7. /\ \A p \in Procs, a \in Accounts : LoadAccount(p, a) => UNCHANGED <<failed>>
      /\ \A p \in Procs, box \in Boxes : LoadFolder(p, box) => UNCHANGED <<failed>>
      /\ \A p \in Procs, t \in Threads : LoadThread(p, t) => UNCHANGED <<failed>>
      BY DEF tables, history, LoadAccount, LoadFolder, LoadThread
<1>8. /\ \A p \in Procs : SaveAccount(p) => UNCHANGED <<failed>>
      /\ \A p \in Procs : ToggleFolder(p) => UNCHANGED <<failed>>
      /\ \A p \in Procs : SaveThread(p) => UNCHANGED <<failed>>
      BY DEF tables, history, SaveAccount, ToggleFolder, SaveThread
<1>9. /\ \A t \in Threads : MarkRead(t) => UNCHANGED <<failed>>
      /\ \A box \in Boxes : Arrive(box) => UNCHANGED <<failed>>
      /\ Restart => UNCHANGED <<failed>>
      BY DEF tables, history, MarkRead, Arrive, Restart
<1>. QED BY <1>1, <1>2, <1>3, <1>4, <1>5, <1>6, <1>7, <1>8, <1>9 DEF Next, Work, vars

LEMMA RacedGrows ==
    ASSUME [Next]_vars
    PROVE  raced \subseteq raced'
<1>1. \A a \in Accounts : DeleteAccount(a) \/ LookupFails(a) => raced \subseteq raced'
      BY DEF DeleteAccount, LookupFails, Race
<1>2. \A p \in Procs : SaveAccount(p) => raced \subseteq raced'
      BY DEF SaveAccount, Race
<1>3. \A p \in Procs : ToggleFolder(p) => raced \subseteq raced'
      BY DEF ToggleFolder, Race
<1>4. \A p \in Procs : SaveThread(p) => raced \subseteq raced'
      BY DEF SaveThread, Race
<1>. QED BY <1>1, <1>2, <1>3, <1>4, RacedWriters

-----------------------------------------------------------------------------
(* Links *)

\* A thread that staff linked is there, and linked so unless requests overlapped.
LinkInv ==
    /\ DOMAIN linked \subseteq DOMAIN threads
    /\ \A t \in DOMAIN linked : linked[t] = NoCustomer \/ t \in raced \/ threads[t] = linked[t]

LEMMA LinkHolds ==
    ASSUME Types, LinkInv, [Next]_vars
    PROVE  LinkInv'
<1>1. ASSUME NEW a \in Accounts, DeleteAccount(a) PROVE LinkInv'
  <2>1. /\ DOMAIN threads' = {t \in DOMAIN threads : t[1] # a}
        /\ \A t \in DOMAIN threads' : threads'[t] = threads[t]
        /\ DOMAIN linked' = {t \in DOMAIN linked : t[1] # a}
        /\ \A t \in DOMAIN linked' : linked'[t] = linked[t]
        BY <1>1, ThreadsGone
  <2>2. DOMAIN linked' \subseteq DOMAIN threads'
        BY <2>1 DEF LinkInv
  <2>3. ASSUME NEW t \in DOMAIN linked'
        PROVE  linked'[t] = NoCustomer \/ t \in raced' \/ threads'[t] = linked'[t]
    <3>1. linked'[t] = linked[t] /\ threads'[t] = threads[t] /\ t \in DOMAIN linked
          BY <2>1, <2>2
    <3>. QED BY <3>1, RacedGrows DEF LinkInv
  <2>. QED BY <2>2, <2>3 DEF LinkInv
<1>2. ASSUME NEW p \in Procs, SaveThread(p) PROVE LinkInv'
  <2>1. PICK t, row, read : t = task[p].id /\ row = task[p].row /\ read = task[p].read
        OBVIOUS
  <2>2. task[p].kind \in {"link", "reply"} /\ (task[p].kind = "reply" => row = read)
        BY <1>2, <2>1, ThreadSaved
  <2>3. CASE UNCHANGED <<threads, linked, raced>>
        BY <2>3 DEF LinkInv
  <2>4. CASE /\ DOMAIN threads' = DOMAIN threads \cup {t} /\ threads'[t] = row
             /\ \A u \in DOMAIN threads : u # t => threads'[u] = threads[u]
             /\ linked' = IF task[p].kind = "link" THEN Put(linked, t, row) ELSE linked
             /\ raced' = IF t \notin DOMAIN threads \/ threads[t] # read THEN raced \cup {t} ELSE raced
    <3>1. CASE task[p].kind = "link"
      <4>1. /\ DOMAIN linked' = DOMAIN linked \cup {t} /\ linked'[t] = row
            /\ \A u \in DOMAIN linked : u # t => linked'[u] = linked[u]
            BY <2>4, <3>1 DEF Put
      <4>. QED BY <2>4, <4>1 DEF LinkInv
    <3>2. CASE task[p].kind = "reply"
      <4>1. linked' = linked /\ row = read
            BY <2>2, <2>4, <3>2
      <4>2. t \in raced' \/ (t \in DOMAIN threads /\ threads[t] = threads'[t])
            BY <2>4, <4>1
      <4>3. raced \subseteq raced'
            BY <2>4
      <4>. QED BY <2>4, <4>1, <4>2, <4>3 DEF LinkInv
    <3>. QED BY <2>2, <3>1, <3>2
  <2>. QED BY <1>2, <2>1, <2>3, <2>4, ThreadSaved
<1>3. CASE linked' = linked
  <2>1. ASSUME threads' = threads PROVE LinkInv'
        BY <1>3, <2>1, RacedGrows DEF LinkInv
  <2>2. CASE Assign
        BY <1>3, <2>2, AssignIs, RacedGrows DEF LinkInv
  <2>3. CASE FinishSync
        BY <1>3, <2>3, LinkedByAddress, RacedGrows DEF LinkInv
  <2>4. CASE TagUnread \/ \E t \in Threads : MarkRead(t)
        BY <2>1, <2>4 DEF TagUnread, MarkRead
  <2>. QED BY <1>1, <1>2, <2>1, <2>2, <2>3, <2>4, ThreadWriters
<1>. QED BY <1>1, <1>2, <1>3, LinkedWriters

\* A thread linked to a customer stays with that customer, though every sync
\* links by address and answers save the thread whole (gorm_repository.go:648).
THEOREM LinksStand == Spec => []LinkStands
<1>1. Init => LinkInv
      BY DEF Init, Nothing, LinkInv
<1>2. Types /\ LinkInv /\ [Next]_vars => (Types /\ LinkInv)'
      BY TypesHold, LinkHolds
<1>3. LinkInv => LinkStands
      BY DEF LinkInv, LinkStands
<1>. QED BY <1>1, <1>2, <1>3, InitTypes, PTL DEF Spec


-----------------------------------------------------------------------------
(* What staff ordered *)

AccountStands(a) ==
    /\ a \in DOMAIN accounts
    /\ accounts[a].settings = ordered[a].settings
    /\ ordered[a].paused => accounts[a].status = "paused"

FoldersStand(a) ==
    \A n \in ordered[a].off : <<a, n>> \in DOMAIN folders /\ ~folders[<<a, n>>].enabled

\* What the worker has in hand of an account would be saved as staff want it.
CopiesStand(a) ==
    /\ a \in DOMAIN worker.queue =>
          worker.queue[a].settings = ordered[a].settings /\ ~ordered[a].paused
    /\ worker.at \in InAccount /\ worker.id = a =>
          /\ worker.copy.settings = ordered[a].settings /\ ~ordered[a].paused
          /\ \A n \in ordered[a].off : <<a, n>> \notin DOMAIN worker.todo
    /\ worker.at \in InFolder /\ worker.id = a => worker.box[2] \notin ordered[a].off

\* Nobody has a copy of an account that was deleted.
Gone(a) ==
    /\ a \notin DOMAIN accounts /\ ~HasAccount(a)
    /\ \A p \in Procs : ~(task[p].kind = "account" /\ task[p].id = a)

OrdersInv ==
    \A a \in DOMAIN ordered \ raced :
       IF ordered[a].deleted THEN Gone(a)
       ELSE AccountStands(a) /\ FoldersStand(a) /\ CopiesStand(a)

\* The order of an account stays, or staff give it with nobody in between.
OrderStays(a) == ordered'[a] = ordered[a] /\ ~DeleteAccount(a)

LEMMA OrderCases ==
    ASSUME Types, [Next]_vars, NEW a \in DOMAIN ordered, a \notin raced'
    PROVE  /\ a \notin raced
           /\ \/ OrderStays(a)
              \/ DeleteAccount(a)
              \/ \E p \in Procs : SaveAccount(p) /\ task[p].id = a
              \/ \E p \in Procs : ToggleFolder(p) /\ task[p].id[1] = a
<1>1. a \notin raced
      BY RacedGrows
<1>2. ASSUME NEW b \in Accounts, CreateAccount(b) \/ DeleteAccount(b)
      PROVE  ordered'[a] = ordered[a] \/ DeleteAccount(a)
  <2>1. CASE CreateAccount(b)
        BY <2>1, AccountMade
  <2>2. CASE DeleteAccount(b)
        BY <2>2, AccountGone
  <2>. QED BY <1>2, <2>1, <2>2
<1>3. ASSUME NEW p \in Procs, SaveAccount(p), task[p].id # a
      PROVE  ordered'[a] = ordered[a]
      BY <1>3, OrderGiven
<1>4. ASSUME NEW p \in Procs, ToggleFolder(p), task[p].id[1] # a
      PROVE  ordered'[a] = ordered[a]
      BY <1>4, SwitchOrdered
<1>5. ASSUME FinishAccount \/ AccountFails
      PROVE  ordered'[a] = ordered[a]
      BY <1>5, SyncSaves
<1>. QED BY <1>1, <1>2, <1>3, <1>4, <1>5, AccountWriters DEF OrderStays

\* Staff give an order without anyone having a copy, but for the folders of the
\* account when it is one on the account itself.
LEMMA NobodyElse ==
    ASSUME Types, NEW a \in DOMAIN ordered, a \notin raced'
    PROVE  /\ DeleteAccount(a) =>
                 /\ worker' = worker /\ task' = task /\ ~HasAccount(a)
                 /\ \A p \in Procs : ~(task[p].kind = "account" /\ task[p].id = a)
           /\ \A p \in Procs : SaveAccount(p) /\ task[p].id = a =>
                 worker' = worker /\ folders' = folders /\ ~HasAccount(a) /\ a \in DOMAIN accounts
           /\ \A p \in Procs : ToggleFolder(p) /\ task[p].id[1] = a =>
                 /\ worker' = worker /\ accounts' = accounts
                 /\ ~HasFolders(a) /\ task[p].id \in DOMAIN folders
<1>1. DeleteAccount(a) =>
         /\ worker' = worker /\ task' = task /\ ~HasAccount(a)
         /\ \A p \in Procs : ~(task[p].kind = "account" /\ task[p].id = a)
      BY DEF DeleteAccount, Race
<1>2. ASSUME NEW p \in Procs, SaveAccount(p), task[p].id = a
      PROVE  worker' = worker /\ folders' = folders /\ ~HasAccount(a) /\ a \in DOMAIN accounts
      BY <1>2 DEF SaveAccount, Race
<1>3. ASSUME NEW p \in Procs, ToggleFolder(p), task[p].id[1] = a
      PROVE  /\ worker' = worker /\ accounts' = accounts
             /\ ~HasFolders(a) /\ task[p].id \in DOMAIN folders
      BY <1>3 DEF ToggleFolder, Race
<1>. QED BY <1>1, <1>2, <1>3

LEMMA HandsEmpty ==
    ASSUME Types, NEW a
    PROVE  /\ ~HasAccount(a) => a \notin DOMAIN worker.queue /\ ~(worker.at \in InAccount /\ worker.id = a)
           /\ ~HasFolders(a) => ~(worker.at \in InAccount /\ worker.id = a)
<1>1. worker.at = "idle" => DOMAIN worker.queue = {}
      BY DEF Types, WorkerOK, GoodWorker
<1>2. ~HasAccount(a) => a \notin DOMAIN worker.queue
      BY <1>1 DEF HasAccount
<1>3. ~HasAccount(a) => ~(worker.at \in InAccount /\ worker.id = a)
      BY DEF HasAccount, InAccount
<1>4. ~HasFolders(a) => ~(worker.at \in InAccount /\ worker.id = a)
      BY DEF HasFolders, InAccount
<1>. QED BY <1>2, <1>3, <1>4

LEMMA AccountKeepsStanding ==
    ASSUME Types, [Next]_vars, NEW a \in DOMAIN ordered, a \notin raced',
           AccountStands(a), CopiesStand(a), ~ordered'[a].deleted
    PROVE  AccountStands(a)'
<1>1. ~DeleteAccount(a)
  <2>1. a \in Accounts
        BY DEF Types, AccountsOK
  <2>. QED BY <2>1, AccountGone
<1>2. ASSUME NEW p \in Procs, SaveAccount(p), task[p].id = a PROVE AccountStands(a)'
  <2>1. PICK row : row = task[p].row
        OBVIOUS
  <2>2. /\ accounts' = Put(accounts, a, row)
        /\ ordered'[a].paused = (row.status = "paused") /\ ordered'[a].settings = row.settings
        BY <1>2, <2>1, OrderGiven
  <2>3. a \in DOMAIN accounts' /\ accounts'[a] = row
        BY <2>2 DEF Put
  <2>. QED BY <2>2, <2>3 DEF AccountStands
<1>3. ASSUME NEW p \in Procs, ToggleFolder(p), task[p].id[1] = a PROVE AccountStands(a)'
  <2>1. accounts' = accounts
        BY <1>3 DEF ToggleFolder
  <2>2. ordered'[a].paused = ordered[a].paused /\ ordered'[a].settings = ordered[a].settings
        BY <1>3, SwitchOrdered
  <2>. QED BY <2>1, <2>2 DEF AccountStands
<1>4. ASSUME OrderStays(a) PROVE AccountStands(a)'
  <2>1. ordered'[a] = ordered[a]
        BY <1>4 DEF OrderStays
  <2>2. ASSUME a \in DOMAIN accounts', accounts'[a] = accounts[a] PROVE AccountStands(a)'
        BY <2>1, <2>2 DEF AccountStands
  <2>3. CASE FinishAccount \/ AccountFails
    <3>1. ASSUME NEW b \in DOMAIN ordered, NEW copy \in Account, NEW status \in {"active", "error"},
                 \/ worker.at = "folders" /\ worker.id = b /\ copy = worker.copy
                 \/ worker.at = "accounts" /\ b \in DOMAIN worker.queue /\ copy = worker.queue[b],
                 accounts' = Put(accounts, b, [copy EXCEPT !.status = status])
          PROVE  AccountStands(a)'
      <4>1. CASE a # b
        <5>1. a \in DOMAIN accounts' /\ accounts'[a] = accounts[a]
              BY <3>1, <4>1 DEF Put, AccountStands
        <5>. QED BY <2>2, <5>1
      <4>2. CASE a = b
        <5>1. copy.settings = ordered[a].settings /\ ~ordered[a].paused
              BY <3>1, <4>2 DEF CopiesStand, InAccount
        <5>2. PICK row : row = [copy EXCEPT !.status = status]
              OBVIOUS
        <5>3. row.settings = copy.settings
              BY <5>2 DEF Account
        <5>4. a \in DOMAIN accounts' /\ accounts'[a] = row
              BY <3>1, <4>2, <5>2 DEF Put
        <5>. QED BY <2>1, <5>1, <5>3, <5>4 DEF AccountStands
      <4>. QED BY <4>1, <4>2
    <3>2. ASSUME accounts' = accounts PROVE AccountStands(a)'
          BY <2>2, <3>2 DEF AccountStands
    <3>. QED BY <2>3, <3>1, <3>2, SyncSaves
  <2>4. ASSUME NEW b \in Accounts, CreateAccount(b) \/ DeleteAccount(b) PROVE AccountStands(a)'
    <3>1. CASE CreateAccount(b)
          BY <2>2, <3>1, AccountMade DEF AccountStands
    <3>2. CASE DeleteAccount(b)
      <4>1. b # a
            BY <1>1, <3>2
      <4>. QED BY <2>2, <3>2, <4>1, AccountGone DEF AccountStands
    <3>. QED BY <2>4, <3>1, <3>2
  <2>5. ASSUME NEW p \in Procs, SaveAccount(p) \/ ToggleFolder(p) PROVE AccountStands(a)'
    <3>1. CASE SaveAccount(p) /\ task[p].id # a
      <4>1. accounts' = Put(accounts, task[p].id, task[p].row)
            BY <3>1, OrderGiven
      <4>2. a \in DOMAIN accounts' /\ accounts'[a] = accounts[a]
            BY <3>1, <4>1 DEF Put, AccountStands
      <4>. QED BY <2>2, <4>2
    <3>2. CASE SaveAccount(p) /\ task[p].id = a
          BY <1>2, <3>2
    <3>3. CASE ToggleFolder(p)
          BY <2>2, <3>3 DEF ToggleFolder, AccountStands
    <3>. QED BY <2>5, <3>1, <3>2, <3>3
  <2>6. CASE UNCHANGED <<accounts, ordered>>
        BY <2>6 DEF AccountStands
  <2>. QED BY <2>3, <2>4, <2>5, <2>6, AccountWriters
<1>. QED BY <1>1, <1>2, <1>3, <1>4, OrderCases

LEMMA FoldersKeepStanding ==
    ASSUME Types, [Next]_vars, NEW a \in DOMAIN ordered, a \notin raced',
           AccountStands(a), FoldersStand(a), CopiesStand(a), ~ordered'[a].deleted
    PROVE  FoldersStand(a)'
<1>1. ~DeleteAccount(a)
  <2>1. a \in Accounts
        BY DEF Types, AccountsOK
  <2>. QED BY <2>1, AccountGone
<1>2. ASSUME NEW p \in Procs, SaveAccount(p), task[p].id = a PROVE FoldersStand(a)'
  <2>1. ordered'[a].off = ordered[a].off
        BY <1>2, OrderGiven
  <2>2. folders' = folders
        BY <1>2 DEF SaveAccount
  <2>. QED BY <2>1, <2>2 DEF FoldersStand
<1>3. ASSUME NEW p \in Procs, ToggleFolder(p), task[p].id[1] = a PROVE FoldersStand(a)'
  <2>1. PICK m, row : m = task[p].id[2] /\ row = task[p].row
        OBVIOUS
  <2>2. task[p].id = <<a, m>>
    <3>1. PICK box : box = task[p].id
          OBVIOUS
    <3>2. box \in Accounts \X Names
          BY <1>3, <3>1, SwitchOrdered DEF Boxes
    <3>. QED BY <1>3, <2>1, <3>1, <3>2
  <2>3. /\ SaveFolder(<<a, m>>, row)
        /\ ordered'[a].off = IF row.enabled THEN ordered[a].off \ {m} ELSE ordered[a].off \cup {m}
        BY <1>3, <2>1, <2>2, SwitchOrdered
  <2>4. folders' = Put(folders, <<a, m>>, row)
        BY <2>3 DEF SaveFolder, AccountStands
  <2>5. /\ DOMAIN folders' = DOMAIN folders \cup {<<a, m>>} /\ folders'[<<a, m>>] = row
        /\ \A box \in DOMAIN folders : box # <<a, m>> => folders'[box] = folders[box]
        BY <2>4 DEF Put
  <2>6. ASSUME NEW n \in ordered'[a].off
        PROVE  <<a, n>> \in DOMAIN folders' /\ ~folders'[<<a, n>>].enabled
    <3>1. CASE n = m
          BY <2>3, <2>5, <2>6, <3>1
    <3>2. CASE n # m
      <4>1. n \in ordered[a].off /\ <<a, n>> # <<a, m>>
            BY <2>3, <2>6, <3>2
      <4>. QED BY <2>5, <4>1 DEF FoldersStand
    <3>. QED BY <3>1, <3>2
  <2>. QED BY <2>6 DEF FoldersStand
<1>4. ASSUME OrderStays(a) PROVE FoldersStand(a)'
  <2>1. ordered'[a] = ordered[a]
        BY <1>4 DEF OrderStays
  <2>2. ASSUME \A n \in ordered[a].off : <<a, n>> \in DOMAIN folders => <<a, n>> \in DOMAIN folders' /\ folders'[<<a, n>>] = folders[<<a, n>>]
        PROVE  FoldersStand(a)'
        BY <2>1, <2>2 DEF FoldersStand
  <2>3. CASE FinishFolder
    <3>1. worker.at = "messages" /\ worker.box \in Accounts \X Names /\ worker.box[1] = worker.id
          BY <2>3, FinishFolderIs
    <3>2. ASSUME NEW row \in Folder, SaveFolder(worker.box, row) PROVE FoldersStand(a)'
      <4>1. \A box \in DOMAIN folders : box # worker.box => box \in DOMAIN folders' /\ folders'[box] = folders[box]
            BY <3>2 DEF SaveFolder, Put
      <4>2. ASSUME NEW n \in ordered[a].off PROVE <<a, n>> # worker.box
            BY <3>1, <4>2 DEF CopiesStand, InFolder
      <4>. QED BY <2>2, <4>1, <4>2
    <3>3. ASSUME folders' = folders PROVE FoldersStand(a)'
          BY <2>2, <3>3
    <3>. QED BY <2>3, <3>2, <3>3, FinishFolderIs
  <2>4. ASSUME NEW b \in Accounts, Connect(b) \/ Discover(b) PROVE FoldersStand(a)'
    <3>1. Discovered(b, folders')
          BY <2>4 DEF Connect, Discover, Discovered
    <3>2. PICK known : known = folders'
          OBVIOUS
    <3>3. DOMAIN folders \subseteq DOMAIN known /\ \A box \in DOMAIN folders : known[box] = folders[box]
          BY <3>1, <3>2, DiscoverIs
    <3>. QED BY <2>2, <3>2, <3>3
  <2>5. ASSUME NEW b \in Accounts, DeleteAccount(b) PROVE FoldersStand(a)'
    <3>1. b # a
          BY <1>1, <2>5
    <3>2. folders' = [box \in {c \in DOMAIN folders : c[1] # b} |-> folders[box]]
          BY <2>5 DEF DeleteAccount
    <3>. QED BY <2>2, <3>1, <3>2
  <2>6. ASSUME NEW p \in Procs, ToggleFolder(p) PROVE FoldersStand(a)'
    <3>1. CASE task[p].id[1] = a
          BY <1>3, <2>6, <3>1
    <3>2. CASE task[p].id[1] # a
      <4>1. PICK box, row : box = task[p].id /\ row = task[p].row
            OBVIOUS
      <4>2. SaveFolder(box, row)
            BY <2>6, <4>1, SwitchOrdered
      <4>3. \A c \in DOMAIN folders : c # box => c \in DOMAIN folders' /\ folders'[c] = folders[c]
            BY <4>2 DEF SaveFolder, Put
      <4>4. \A n : <<a, n>> # box
            BY <3>2, <4>1
      <4>. QED BY <2>2, <4>3, <4>4
    <3>. QED BY <3>1, <3>2
  <2>7. CASE folders' = folders
        BY <2>2, <2>7
  <2>8. ASSUME NEW b \in Accounts, LookupFails(b) PROVE FoldersStand(a)'
    <3>1. PICK m, known :
             /\ m \in Names /\ Discovered(b, known) /\ <<b, m>> \in DOMAIN folders
             /\ DOMAIN folders' = DOMAIN known
             /\ \A box \in DOMAIN known : box # <<b, m>> => folders'[box] = known[box]
             /\ ~folders[<<b, m>>].enabled => b \in raced'
          BY <2>8, LookupFailsIs
    <3>2. DOMAIN folders \subseteq DOMAIN known /\ \A box \in DOMAIN folders : known[box] = folders[box]
          BY <3>1, DiscoverIs
    <3>3. ASSUME NEW n \in ordered[a].off, <<a, n>> \in DOMAIN folders PROVE <<a, n>> # <<b, m>>
          BY <3>1, <3>3 DEF FoldersStand
    <3>. QED BY <2>2, <3>1, <3>2, <3>3
  <2>. QED BY <2>3, <2>4, <2>5, <2>6, <2>7, <2>8, FolderWriters
<1>. QED BY <1>1, <1>2, <1>3, <1>4, OrderCases


LEMMA CopiesKeepStanding ==
    ASSUME Types, [Next]_vars, NEW a \in DOMAIN ordered, a \notin raced',
           AccountStands(a), FoldersStand(a), CopiesStand(a), ~ordered'[a].deleted
    PROVE  CopiesStand(a)'
<1>1. ~DeleteAccount(a)
  <2>1. a \in Accounts
        BY DEF Types, AccountsOK
  <2>. QED BY <2>1, AccountGone
<1>2. ASSUME NEW p \in Procs, SaveAccount(p), task[p].id = a PROVE CopiesStand(a)'
  <2>1. worker' = worker /\ a \notin DOMAIN worker.queue /\ ~(worker.at \in InAccount /\ worker.id = a)
        BY <1>2, NobodyElse, HandsEmpty
  <2>. QED BY <2>1 DEF CopiesStand, InAccount, InFolder
<1>3. ASSUME NEW p \in Procs, ToggleFolder(p), task[p].id[1] = a PROVE CopiesStand(a)'
  <2>1. worker' = worker /\ ~(worker.at \in InAccount /\ worker.id = a)
        BY <1>3, NobodyElse, HandsEmpty
  <2>2. ordered'[a].paused = ordered[a].paused /\ ordered'[a].settings = ordered[a].settings
        BY <1>3, SwitchOrdered
  <2>. QED BY <2>1, <2>2 DEF CopiesStand, InAccount, InFolder
<1>4. ASSUME OrderStays(a) PROVE CopiesStand(a)'
  <2>1. ordered'[a] = ordered[a]
        BY <1>4 DEF OrderStays
  <2>2. PICK w : w = worker'
        OBVIOUS
  <2>3. ASSUME /\ a \in DOMAIN w.queue => w.queue[a].settings = ordered[a].settings /\ ~ordered[a].paused
               /\ w.at \in InAccount /\ w.id = a =>
                     /\ w.copy.settings = ordered[a].settings /\ ~ordered[a].paused
                     /\ \A n \in ordered[a].off : <<a, n>> \notin DOMAIN w.todo
               /\ w.at \in InFolder /\ w.id = a => w.box[2] \notin ordered[a].off
        PROVE  CopiesStand(a)'
        BY <2>1, <2>2, <2>3 DEF CopiesStand
  <2>4. CASE worker' = worker
        BY <2>1, <2>4 DEF CopiesStand
  <2>5. CASE SyncAll \/ \E b \in Accounts : SyncOne(b)
    <3>1. /\ w.at = "accounts"
          /\ \A b \in DOMAIN w.queue : w.queue[b] = accounts[b] /\ accounts[b].status # "paused"
          BY <2>2, <2>5, SyncStarts
    <3>2. w.at \notin InAccount /\ w.at \notin InFolder
          BY <3>1 DEF InAccount, InFolder
    <3>. QED BY <2>3, <3>1, <3>2 DEF AccountStands
  <2>6. CASE SkipStored \/ CannotStore \/ MessageFails \/ TagUnread \/ TagFails
    <3>1. worker.at \in InFolder /\ worker' = MessageDone
          BY <2>6, MessageSteps DEF PutsDown
    <3>2. /\ w.queue = worker.queue /\ w.id = worker.id /\ w.copy = worker.copy /\ w.todo = worker.todo
          /\ w.box = worker.box
          BY <2>2, <3>1, MessageDoneIs
    <3>3. worker.at \in InAccount
          BY <3>1 DEF InAccount, InFolder
    <3>. QED BY <2>3, <3>1, <3>2, <3>3 DEF CopiesStand
  <2>7. CASE Assign \/ StoreMessage
    <3>1. PICK at \in {"store", "tag"} : worker' = WithMessage(at)
          BY <2>7 DEF Assign, StoreMessage
    <3>2. worker.at \in InFolder /\ worker.left # {}
          BY <2>7, AssignIs, StoreIs DEF InFolder
    <3>3. /\ w.queue = worker.queue /\ w.id = worker.id /\ w.copy = worker.copy /\ w.todo = worker.todo
          /\ w.box = worker.box
          BY <2>2, <3>1, <3>2, WithMessageIs
    <3>4. worker.at \in InAccount
          BY <3>2 DEF InAccount, InFolder
    <3>. QED BY <2>3, <3>2, <3>3, <3>4 DEF CopiesStand
  <2>8. CASE FinishFolder \/ FolderFails
    <3>1. /\ worker.at \in {"messages", "folders"} /\ w.at = "folders" /\ w.queue = worker.queue
          /\ w.id = worker.id /\ w.copy = worker.copy /\ DOMAIN w.todo \subseteq DOMAIN worker.todo
          BY <2>2, <2>8, FolderLeft
    <3>2. worker.at \in InAccount /\ w.at \notin InFolder
          BY <3>1 DEF InAccount, InFolder
    <3>. QED BY <2>3, <3>1, <3>2 DEF CopiesStand
  <2>9. CASE FinishAccount \/ AccountFails
    <3>1. /\ w.at = "accounts" /\ DOMAIN w.queue \subseteq DOMAIN worker.queue
          /\ \A b \in DOMAIN w.queue : w.queue[b] = worker.queue[b]
          BY <2>2, <2>9, AccountLeft
    <3>2. w.at \notin InAccount /\ w.at \notin InFolder
          BY <3>1 DEF InAccount, InFolder
    <3>. QED BY <2>3, <3>1, <3>2 DEF CopiesStand
  <2>10. CASE FinishSync \/ Restart
    <3>1. w = Resting
          BY <2>2, <2>10 DEF FinishSync, Restart
    <3>2. w.at = "idle" /\ DOMAIN w.queue = {}
          BY <3>1, RestingIs
    <3>3. w.at \notin InAccount /\ w.at \notin InFolder
          BY <3>2 DEF InAccount, InFolder
    <3>. QED BY <2>3, <3>2, <3>3
  <2>11. ASSUME NEW b \in Accounts, Connect(b) PROVE CopiesStand(a)'
    <3>1. /\ b \in DOMAIN worker.queue /\ w.at = "folders" /\ w.id = b /\ w.copy = worker.queue[b]
          /\ DOMAIN w.queue = DOMAIN worker.queue \ {b}
          /\ \A c \in DOMAIN w.queue : w.queue[c] = worker.queue[c]
          BY <2>2, <2>11, ConnectIs
    <3>2. DOMAIN w.todo = {c \in DOMAIN folders' : c[1] = b /\ folders'[c].enabled}
          BY <2>2, <2>11, ConnectIs
    <3>3. FoldersStand(a)'
          BY FoldersKeepStanding
    <3>4. \A n \in ordered[a].off : <<a, n>> \notin DOMAIN w.todo
          BY <2>1, <3>2, <3>3 DEF FoldersStand
    <3>5. w.at \notin InFolder
          BY <3>1 DEF InFolder
    <3>. QED BY <2>3, <3>1, <3>4, <3>5 DEF CopiesStand
  <2>12. ASSUME NEW box \in Boxes, Search(box) PROVE CopiesStand(a)'
    <3>1. /\ worker.at = "folders" /\ box \in DOMAIN worker.todo
          /\ w.queue = worker.queue /\ w.id = worker.id /\ w.copy = worker.copy
          /\ DOMAIN w.todo = DOMAIN worker.todo \ {box} /\ w.box = box
          BY <2>2, <2>12, SearchIs
    <3>2. worker.at \in InAccount
          BY <3>1 DEF InAccount
    <3>3. box \in {worker.id} \X Names
          BY <3>1, <3>2 DEF Types, WorkerOK, GoodWorker, GoodAccount
    <3>4. box = <<worker.id, box[2]>>
          BY <3>3
    <3>. QED BY <2>3, <3>1, <3>2, <3>4 DEF CopiesStand
  <2>. QED BY <2>4, <2>5, <2>6, <2>7, <2>8, <2>9, <2>10, <2>11, <2>12, WorkerWriters
<1>. QED BY <1>1, <1>2, <1>3, <1>4, OrderCases

\* Nobody takes up an account that is not there.
LEMMA HandsTakeUp ==
    ASSUME Types, [Next]_vars, NEW a \in DOMAIN ordered, a \notin DOMAIN accounts
    PROVE  /\ HasAccount(a)' => HasAccount(a)
           /\ \A p \in Procs : task'[p].kind = "account" /\ task'[p].id = a =>
                 task[p].kind = "account" /\ task[p].id = a
<1>1. PICK w : w = worker'
      OBVIOUS
<1>2. HasAccount(a)' <=> w.at # "idle" /\ (a \in DOMAIN w.queue \/ (w.at # "accounts" /\ w.id = a))
      BY <1>1 DEF HasAccount
<1>3. HasAccount(a)' => HasAccount(a)
  <2>1. CASE worker' = worker
        BY <2>1 DEF HasAccount
  <2>2. CASE SyncAll \/ \E b \in Accounts : SyncOne(b)
        BY <1>1, <1>2, <2>2, SyncStarts
  <2>3. CASE SkipStored \/ CannotStore \/ MessageFails \/ TagUnread \/ TagFails
    <3>1. worker.at \in InFolder /\ worker' = MessageDone
          BY <2>3, MessageSteps DEF PutsDown
    <3>2. w.queue = worker.queue /\ w.id = worker.id
          BY <1>1, <3>1, MessageDoneIs
    <3>. QED BY <1>2, <3>1, <3>2 DEF HasAccount, InFolder
  <2>4. CASE Assign \/ StoreMessage
    <3>1. PICK at \in {"store", "tag"} : worker' = WithMessage(at)
          BY <2>4 DEF Assign, StoreMessage
    <3>2. worker.at \in InFolder /\ worker.left # {}
          BY <2>4, AssignIs, StoreIs DEF InFolder
    <3>3. w.queue = worker.queue /\ w.id = worker.id
          BY <1>1, <3>1, <3>2, WithMessageIs
    <3>. QED BY <1>2, <3>2, <3>3 DEF HasAccount, InFolder
  <2>5. CASE FinishFolder \/ FolderFails
    <3>1. worker.at \in {"messages", "folders"} /\ w.queue = worker.queue /\ w.id = worker.id
          BY <1>1, <2>5, FolderLeft
    <3>. QED BY <1>2, <3>1 DEF HasAccount
  <2>6. CASE FinishAccount \/ AccountFails
    <3>1. /\ w.at = "accounts" /\ DOMAIN w.queue \subseteq DOMAIN worker.queue
          /\ worker.at = "folders" \/ worker.at = "accounts"
          BY <1>1, <2>6, AccountLeft
    <3>. QED BY <1>2, <3>1 DEF HasAccount
  <2>7. CASE FinishSync \/ Restart
    <3>1. w = Resting
          BY <1>1, <2>7 DEF FinishSync, Restart
    <3>. QED BY <1>2, <3>1, RestingIs
  <2>8. ASSUME NEW b \in Accounts, Connect(b) PROVE HasAccount(a)' => HasAccount(a)
    <3>1. /\ worker.at = "accounts" /\ b \in DOMAIN worker.queue /\ w.id = b
          /\ DOMAIN w.queue = DOMAIN worker.queue \ {b}
          BY <1>1, <2>8, ConnectIs
    <3>. QED BY <1>2, <3>1 DEF HasAccount
  <2>9. ASSUME NEW box \in Boxes, Search(box) PROVE HasAccount(a)' => HasAccount(a)
    <3>1. worker.at = "folders" /\ w.queue = worker.queue /\ w.id = worker.id
          BY <1>1, <2>9, SearchIs
    <3>. QED BY <1>2, <3>1 DEF HasAccount
  <2>. QED BY <2>1, <2>2, <2>3, <2>4, <2>5, <2>6, <2>7, <2>8, <2>9, WorkerWriters
<1>4. ASSUME NEW p \in Procs, task'[p].kind = "account", task'[p].id = a
      PROVE  task[p].kind = "account" /\ task[p].id = a
  <2>1. CASE task'[p] = task[p]
        BY <1>4, <2>1
  <2>2. ASSUME NEW q \in Procs, SaveAccount(q) \/ ToggleFolder(q) \/ SaveThread(q), q = p PROVE FALSE
    <3>1. Become(p, Idle)
          BY <2>2 DEF SaveAccount, ToggleFolder, SaveThread
    <3>2. task'[p] = Idle
          BY <3>1, OthersStay DEF Types
    <3>. QED BY <1>4, <3>2, IdleIsGood
  <2>3. ASSUME NEW q \in Procs, SaveAccount(q) \/ ToggleFolder(q) \/ SaveThread(q) PROVE task'[p] = task[p]
    <3>1. Become(q, Idle)
          BY <2>3 DEF SaveAccount, ToggleFolder, SaveThread
    <3>. QED BY <2>2, <2>3, <3>1, OthersStay DEF Types
  <2>4. Restart => task'[p] = Idle
        BY DEF Restart
  <2>5. ASSUME NEW q \in Procs, NEW b \in Accounts, LoadAccount(q, b) PROVE task'[p] = task[p]
        BY <1>4, <2>5, AccountLoaded
  <2>6. ASSUME NEW q \in Procs, NEW box \in Boxes, LoadFolder(q, box) PROVE task'[p] = task[p]
        BY <1>4, <2>6, FolderLoaded
  <2>7. ASSUME NEW q \in Procs, NEW t \in Threads, LoadThread(q, t) PROVE task'[p] = task[p]
        BY <1>4, <2>7, ThreadLoaded
  <2>. QED BY <1>4, <2>1, <2>3, <2>4, <2>5, <2>6, <2>7, IdleIsGood, TaskWriters
<1>. QED BY <1>3, <1>4

LEMMA StaysGone ==
    ASSUME Types, [Next]_vars, NEW a \in DOMAIN ordered, a \notin raced', Gone(a)
    PROVE  Gone(a)' /\ ordered'[a].deleted = ordered[a].deleted
<1>1. a \notin DOMAIN accounts /\ ~HasAccount(a) /\ a \in Accounts
      BY DEF Gone, Types, AccountsOK
<1>2. ~HasAccount(a)' /\ \A p \in Procs : ~(task'[p].kind = "account" /\ task'[p].id = a)
      BY <1>1, HandsTakeUp DEF Gone
<1>3. ~DeleteAccount(a)
      BY <1>1 DEF DeleteAccount
<1>4. ASSUME NEW p \in Procs, SaveAccount(p) PROVE task[p].id # a
      BY <1>4 DEF Gone, SaveAccount
<1>5. ordered'[a].deleted = ordered[a].deleted
      BY <1>3, <1>4, OrderCases, SwitchOrdered DEF OrderStays
<1>6. a \notin DOMAIN accounts'
  <2>1. CASE UNCHANGED <<accounts, ordered>>
        BY <1>1, <2>1
  <2>2. CASE FinishAccount \/ AccountFails
    <3>1. ASSUME NEW b \in DOMAIN ordered, NEW row,
                 \/ worker.at = "folders" /\ worker.id = b
                 \/ worker.at = "accounts" /\ b \in DOMAIN worker.queue,
                 accounts' = Put(accounts, b, row)
          PROVE  a \notin DOMAIN accounts'
      <4>1. b # a
            BY <1>1, <3>1 DEF HasAccount
      <4>. QED BY <1>1, <3>1, <4>1 DEF Put
    <3>. QED BY <1>1, <2>2, <3>1, SyncSaves
  <2>3. ASSUME NEW b \in Accounts, CreateAccount(b) PROVE a \notin DOMAIN accounts'
        BY <1>1, <2>3, AccountMade
  <2>4. ASSUME NEW b \in Accounts, DeleteAccount(b) PROVE a \notin DOMAIN accounts'
        BY <1>1, <2>4, AccountGone
  <2>5. ASSUME NEW p \in Procs, SaveAccount(p) PROVE a \notin DOMAIN accounts'
    <3>1. accounts' = Put(accounts, task[p].id, task[p].row) /\ task[p].id # a
          BY <1>4, <2>5, OrderGiven
    <3>. QED BY <1>1, <3>1 DEF Put
  <2>6. ASSUME NEW p \in Procs, ToggleFolder(p) PROVE a \notin DOMAIN accounts'
        BY <1>1, <2>6 DEF ToggleFolder
  <2>. QED BY <2>1, <2>2, <2>3, <2>4, <2>5, <2>6, AccountWriters
<1>. QED BY <1>2, <1>5, <1>6 DEF Gone

LEMMA OrdersHold ==
    ASSUME Types, OrdersInv, [Next]_vars
    PROVE  OrdersInv'
<1>. SUFFICES ASSUME NEW a \in DOMAIN ordered', a \notin raced'
              PROVE  IF ordered'[a].deleted THEN Gone(a)'
                     ELSE AccountStands(a)' /\ FoldersStand(a)' /\ CopiesStand(a)'
     BY DEF OrdersInv
<1>1. a \notin raced
      BY RacedGrows
<1>2. CASE a \notin DOMAIN ordered
  <2>1. CreateAccount(a)
    <3>1. ASSUME NEW b \in Accounts, CreateAccount(b) PROVE a = b
          BY <1>2, <3>1, AccountMade
    <3>2. ASSUME NEW b \in Accounts, DeleteAccount(b) PROVE FALSE
          BY <1>2, <3>2, AccountGone
    <3>3. ASSUME NEW p \in Procs, SaveAccount(p) \/ ToggleFolder(p) PROVE FALSE
          BY <1>2, <3>3, OrderGiven, SwitchOrdered
    <3>. QED BY <1>2, <3>1, <3>2, <3>3, AccountWriters, SyncSaves
  <2>2. a \in Accounts
        BY AccountsHold DEF AccountsOK
  <2>3. /\ ~ordered'[a].deleted /\ ~ordered'[a].paused /\ ordered'[a].off = {}
        /\ ordered'[a].settings = accounts'[a].settings /\ a \in DOMAIN accounts'
        BY <2>1, <2>2, AccountMade
  <2>4. worker' = worker
        BY <2>1 DEF CreateAccount
  <2>5. a \notin DOMAIN worker.queue /\ ~(worker.at \in InAccount /\ worker.id = a)
        BY <1>2 DEF Types, WorkerOK, GoodWorker, GoodQueue, GoodAccount
  <2>. QED BY <2>3, <2>4, <2>5 DEF AccountStands, FoldersStand, CopiesStand, InAccount, InFolder
<1>3. CASE a \in DOMAIN ordered
  <2>1. CASE ordered[a].deleted
    <3>1. Gone(a)
          BY <1>1, <1>3, <2>1 DEF OrdersInv
    <3>. QED BY <1>3, <2>1, <3>1, StaysGone
  <2>2. CASE ~ordered[a].deleted /\ ~ordered'[a].deleted
    <3>1. AccountStands(a) /\ FoldersStand(a) /\ CopiesStand(a)
          BY <1>1, <1>3, <2>2 DEF OrdersInv
    <3>. QED BY <1>3, <2>2, <3>1, AccountKeepsStanding, FoldersKeepStanding, CopiesKeepStanding
  <2>3. CASE ~ordered[a].deleted /\ ordered'[a].deleted
    <3>1. DeleteAccount(a)
          BY <1>3, <2>3, OrderCases, OrderGiven, SwitchOrdered DEF OrderStays
    <3>2. a \in Accounts
          BY <1>3 DEF Types, AccountsOK
    <3>3. a \notin DOMAIN accounts'
          BY <3>1, <3>2, AccountGone
    <3>4. /\ worker' = worker /\ task' = task /\ ~HasAccount(a)
          /\ \A p \in Procs : ~(task[p].kind = "account" /\ task[p].id = a)
          BY <1>3, <3>1, NobodyElse
    <3>. QED BY <2>3, <3>3, <3>4 DEF Gone, HasAccount
  <2>. QED BY <2>1, <2>2, <2>3
<1>. QED BY <1>2, <1>3

\* What staff made of an account stands through any number of syncs, unless it
\* was changed while a sync or another request had a copy (fetcher.go:99,
\* sync_worker.go:103).
THEOREM OrdersHonoured == Spec => []OrdersStand
<1>1. Init => OrdersInv
      BY DEF Init, Nothing, OrdersInv
<1>2. Types /\ OrdersInv /\ [Next]_vars => (Types /\ OrdersInv)'
      BY TypesHold, OrdersHold
<1>3. OrdersInv => OrdersStand
      BY DEF OrdersInv, OrdersStand, Gone, AccountStands, FoldersStand
<1>. QED BY <1>1, <1>2, <1>3, InitTypes, PTL DEF Spec


-----------------------------------------------------------------------------
(* What the cursors have passed *)

Settled(box, uid) == <<box, uid>> \in messages \cup failed
Passed(box, last) == \A uid \in 1..last : Settled(box, uid)

FoldersPassed ==
    \A box \in DOMAIN folders : box[1] \in raced \/ Passed(box, folders[box].lastUid)

\* A request may hold the folder of an account that has been deleted since.
TasksPassed ==
    \A p \in Procs : task[p].kind = "folder" =>
        \/ task[p].id[1] \in raced \/ task[p].id[1] \notin DOMAIN accounts
        \/ Passed(task[p].id, task[p].row.lastUid)

HandPassed(w) ==
    /\ w.at \in InAccount => \A b \in DOMAIN w.todo : Passed(b, w.todo[b].lastUid)
    /\ w.at \in InFolder =>
          /\ Passed(w.box, w.folder.lastUid)
          /\ \A u \in w.listed \ w.left : Settled(w.box, u)
    /\ w.at = "tag" => <<w.box, Min(w.left)>> \in messages

WorkerPassed == worker.at \in InAccount /\ worker.id \notin raced => HandPassed(worker)

CursorInv == FoldersPassed /\ TasksPassed /\ WorkerPassed

\* A message that is stored, or could not be, stays so until its account goes.
LEMMA StaysSettled ==
    ASSUME Types, [Next]_vars, NEW box \in Boxes, ~DeleteAccount(box[1])
    PROVE  /\ \A uid : Settled(box, uid) => Settled(box, uid)'
           /\ \A last : Passed(box, last) => Passed(box, last)'
           /\ \A uid : <<box, uid>> \in messages => <<box, uid>> \in messages'
<1>1. failed \subseteq failed'
      BY FailedWriters DEF MessageFails, CannotStore
<1>2. \A uid : <<box, uid>> \in messages => <<box, uid>> \in messages'
  <2>1. CASE StoreMessage
        BY <2>1 DEF StoreMessage
  <2>2. CASE TagFails \/ Restart
        BY <2>2 DEF TagFails, Restart, tables
  <2>3. CASE \E t \in Threads : MarkRead(t)
        BY <2>3 DEF MarkRead
  <2>4. ASSUME NEW a \in Accounts, DeleteAccount(a), NEW uid, <<box, uid>> \in messages
        PROVE  <<box, uid>> \in messages'
    <3>1. a # box[1]
          BY <2>4
    <3>2. messages' = {m \in messages : m[1][1] # a}
          BY <2>4, ThreadsGone
    <3>. QED BY <2>4, <3>1, <3>2
  <2>. QED BY <2>1, <2>2, <2>3, <2>4, MessageWriters
<1>3. \A uid : Settled(box, uid) => Settled(box, uid)'
      BY <1>1, <1>2 DEF Settled
<1>. QED BY <1>2, <1>3 DEF Passed

LEMMA FolderKeepsPassed ==
    ASSUME Types, CursorInv, [Next]_vars
    PROVE  FoldersPassed'
<1>. SUFFICES ASSUME NEW box \in DOMAIN folders', box[1] \notin raced',
                     NEW last, last = folders'[box].lastUid
              PROVE  Passed(box, last)'
     BY DEF FoldersPassed, Passed
<1>1. box \in Boxes /\ box[1] \notin raced
  <2>1. box \in (DOMAIN accounts') \X Names /\ DOMAIN accounts' \subseteq Accounts
        BY FoldersHold, AccountsHold DEF FoldersOK, AccountsOK
  <2>. QED BY <2>1, RacedGrows DEF Boxes
<1>2. ~DeleteAccount(box[1])
  <2>1. DeleteAccount(box[1]) => box \notin DOMAIN folders'
        BY DEF DeleteAccount
  <2>. QED BY <2>1
<1>3. Passed(box, last) => Passed(box, last)'
      BY <1>1, <1>2, StaysSettled
<1>4. ASSUME box \in DOMAIN folders, folders'[box] = folders[box]
      PROVE  Passed(box, last)'
  <2>1. Passed(box, folders[box].lastUid)
        BY <1>1, <1>4 DEF CursorInv, FoldersPassed
  <2>. QED BY <1>3, <1>4, <2>1
<1>5. CASE folders' = folders
      BY <1>4, <1>5
<1>6. CASE FinishFolder
  <2>1. /\ worker.at = "messages" /\ worker.left = {} /\ worker.box[1] = worker.id
        BY <1>6, FinishFolderIs
  <2>2. CASE folders' = folders
        BY <1>4, <2>2
  <2>3. ASSUME NEW row \in Folder, SaveFolder(worker.box, row),
               row.lastUid \in worker.listed,
               \A uid \in 1..row.lastUid : uid <= worker.folder.lastUid \/ uid \in worker.listed
        PROVE  Passed(box, last)'
    <3>1. CASE box # worker.box \/ worker.id \notin DOMAIN accounts
          BY <1>4, <2>1, <2>3, <3>1 DEF SaveFolder, Put
    <3>2. CASE box = worker.box /\ worker.id \in DOMAIN accounts
      <4>1. folders'[box] = row
            BY <2>1, <2>3, <3>2 DEF SaveFolder, Put
      <4>2. HandPassed(worker)
            BY <1>1, <2>1, <3>2 DEF CursorInv, WorkerPassed, InAccount
      <4>3. Passed(box, worker.folder.lastUid) /\ \A u \in worker.listed : Settled(box, u)
            BY <2>1, <3>2, <4>2 DEF HandPassed, InFolder
      <4>4. worker.folder.lastUid \in Nat /\ row.lastUid \in Nat
            BY <2>1, <2>3 DEF Types, WorkerOK, GoodWorker, GoodFolder, Folder, InFolder
      <4>5. Passed(box, row.lastUid)
            BY <2>3, <4>3, <4>4 DEF Passed
      <4>. QED BY <1>3, <4>1, <4>5
    <3>. QED BY <3>1, <3>2
  <2>. QED BY <1>6, <2>2, <2>3, FinishFolderIs
<1>7. ASSUME NEW a \in Accounts, Connect(a) \/ Discover(a)
      PROVE  Passed(box, last)'
  <2>1. Discovered(a, folders')
        BY <1>7 DEF Connect, Discover, Discovered
  <2>2. PICK known : known = folders'
        OBVIOUS
  <2>3. /\ \A b \in DOMAIN folders : known[b] = folders[b]
        /\ \A b \in DOMAIN known \ DOMAIN folders : known[b].lastUid = 0
        BY <2>1, <2>2, DiscoverIs
  <2>4. CASE box \in DOMAIN folders
        BY <1>4, <2>2, <2>3, <2>4
  <2>5. CASE box \notin DOMAIN folders
    <3>1. folders'[box].lastUid = 0
          BY <2>2, <2>3, <2>5
    <3>2. Passed(box, 0)
          BY DEF Passed
    <3>. QED BY <1>3, <3>1, <3>2
  <2>. QED BY <2>4, <2>5
<1>8. ASSUME NEW a \in Accounts, DeleteAccount(a)
      PROVE  Passed(box, last)'
  <2>1. folders' = [b \in {c \in DOMAIN folders : c[1] # a} |-> folders[b]]
        BY <1>8 DEF DeleteAccount
  <2>. QED BY <1>4, <2>1
<1>9. ASSUME NEW p \in Procs, ToggleFolder(p)
      PROVE  Passed(box, last)'
  <2>1. PICK b, row : b = task[p].id /\ row = task[p].row
        OBVIOUS
  <2>2. SaveFolder(b, row) /\ task[p].kind = "folder"
        BY <1>9, <2>1, SwitchOrdered
  <2>3. CASE box # b \/ b[1] \notin DOMAIN accounts
        BY <1>4, <2>2, <2>3 DEF SaveFolder, Put
  <2>4. CASE box = b /\ b[1] \in DOMAIN accounts
    <3>1. folders'[box] = row
          BY <2>2, <2>4 DEF SaveFolder, Put
    <3>2. Passed(box, row.lastUid)
          BY <1>1, <2>1, <2>2, <2>4 DEF CursorInv, TasksPassed
    <3>. QED BY <1>3, <3>1, <3>2
  <2>. QED BY <2>3, <2>4
<1>10. ASSUME NEW a \in Accounts, LookupFails(a)
       PROVE  Passed(box, last)'
  <2>1. PICK n, known :
           /\ n \in Names /\ Discovered(a, known) /\ <<a, n>> \in DOMAIN folders
           /\ DOMAIN folders' = DOMAIN known
           /\ folders'[<<a, n>>] = NewFolder
           /\ \A b \in DOMAIN known : b # <<a, n>> => folders'[b] = known[b]
           /\ ~folders[<<a, n>>].enabled => a \in raced'
        BY <1>10, LookupFailsIs
  <2>2. /\ \A b \in DOMAIN folders : known[b] = folders[b]
        /\ \A b \in DOMAIN known \ DOMAIN folders : known[b].lastUid = 0
        BY <2>1, DiscoverIs
  <2>3. CASE box \in DOMAIN folders /\ box # <<a, n>>
        BY <1>4, <2>1, <2>2, <2>3
  <2>4. CASE box \notin DOMAIN folders \/ box = <<a, n>>
    <3>1. folders'[box].lastUid = 0
          BY <2>1, <2>2, <2>4, NewFolderIs
    <3>2. Passed(box, 0)
          BY DEF Passed
    <3>. QED BY <1>3, <3>1, <3>2
  <2>. QED BY <2>3, <2>4
<1>. QED BY <1>5, <1>6, <1>7, <1>8, <1>9, <1>10, FolderWriters

\* An account that is not there comes back only when a request or the worker
\* had a copy of it as it was deleted.
LEMMA ComesBackRaced ==
    ASSUME Types, OrdersInv, [Next]_vars, NEW a \in DOMAIN ordered,
           a \notin raced', a \in DOMAIN accounts'
    PROVE  a \in DOMAIN accounts /\ ~DeleteAccount(a)
<1>1. a \notin raced /\ a \in Accounts
      BY RacedGrows DEF Types, AccountsOK
<1>2. ~DeleteAccount(a)
      BY <1>1, AccountGone
<1>3. ASSUME a \notin DOMAIN accounts PROVE FALSE
  <2>1. Gone(a)
        BY <1>1, <1>3 DEF OrdersInv, AccountStands
  <2>2. Gone(a)'
        BY <2>1, StaysGone
  <2>. QED BY <2>2 DEF Gone
<1>. QED BY <1>2, <1>3

LEMMA TaskKeepsPassed ==
    ASSUME Types, OrdersInv, CursorInv, [Next]_vars
    PROVE  TasksPassed'
<1>. SUFFICES ASSUME NEW p \in Procs, task'[p].kind = "folder",
                     task'[p].id[1] \notin raced', task'[p].id[1] \in DOMAIN accounts',
                     NEW box, NEW last, box = task'[p].id, last = task'[p].row.lastUid
              PROVE  Passed(box, last)'
     BY DEF TasksPassed, Passed
<1>1. box = task'[p].id /\ last = task'[p].row.lastUid
      OBVIOUS
<1>2. CASE task'[p] = task[p]
  <2>1. task[p].kind = "folder" /\ box = task[p].id /\ last = task[p].row.lastUid
        BY <1>1, <1>2
  <2>2. box \in Boxes /\ box[1] \in DOMAIN ordered
        BY <2>1 DEF Types, TasksOK, GoodTask, Task, Idle
  <2>3. box[1] \in DOMAIN accounts /\ ~DeleteAccount(box[1]) /\ box[1] \notin raced
        BY <1>1, <2>2, ComesBackRaced, RacedGrows
  <2>4. Passed(box, last)
        BY <2>1, <2>3 DEF CursorInv, TasksPassed
  <2>5. Passed(box, last)'
        BY <2>2, <2>3, <2>4, StaysSettled
  <2>. QED BY <2>5
<1>3. ASSUME NEW b \in Boxes, LoadFolder(p, b) PROVE Passed(box, last)'
  <2>1. b = box /\ b \in DOMAIN folders /\ last = folders[b].lastUid
        BY <1>1, <1>3, FolderLoaded
  <2>2. b[1] \in DOMAIN ordered
        BY <2>1 DEF Types, FoldersOK, AccountsOK
  <2>3. ~DeleteAccount(b[1]) /\ b[1] \notin raced
        BY <1>1, <2>1, <2>2, ComesBackRaced, RacedGrows
  <2>4. Passed(b, last)
        BY <2>1, <2>3 DEF CursorInv, FoldersPassed
  <2>5. Passed(b, last)'
        BY <2>3, <2>4, StaysSettled
  <2>. QED BY <2>1, <2>5
<1>4. ASSUME NEW q \in Procs, SaveAccount(q) \/ ToggleFolder(q) \/ SaveThread(q) PROVE task'[p] = task[p]
  <2>1. Become(q, Idle)
        BY <1>4 DEF SaveAccount, ToggleFolder, SaveThread
  <2>2. task'[q] = Idle /\ \A r \in Procs : r # q => task'[r] = task[r]
        BY <2>1, OthersStay DEF Types
  <2>. QED BY <2>2, IdleIsGood
<1>5. ASSUME Restart PROVE FALSE
  <2>1. task'[p] = Idle
        BY <1>5 DEF Restart
  <2>. QED BY <2>1, IdleIsGood
<1>6. ASSUME NEW q \in Procs, NEW a \in Accounts, LoadAccount(q, a) PROVE task'[p] = task[p]
      BY <1>6, AccountLoaded
<1>7. ASSUME NEW q \in Procs, NEW t \in Threads, LoadThread(q, t) PROVE task'[p] = task[p]
      BY <1>7, ThreadLoaded
<1>8. ASSUME NEW q \in Procs, NEW b \in Boxes, LoadFolder(q, b), q # p PROVE task'[p] = task[p]
      BY <1>8, FolderLoaded
<1>. QED BY <1>2, <1>3, <1>4, <1>5, <1>6, <1>7, <1>8, TaskWriters

\* What the worker has passed stays so while its account is not deleted.
LEMMA HandStaysPassed ==
    ASSUME Types, [Next]_vars, NEW w, GoodWorker(w), w.at \in InAccount, HandPassed(w),
           ~DeleteAccount(w.id)
    PROVE  HandPassed(w)'
<1>1. w.id \in Accounts /\ DOMAIN w.todo \subseteq {w.id} \X Names
      BY DEF GoodWorker, GoodAccount, Types, AccountsOK
<1>2. \A b \in DOMAIN w.todo : b \in Boxes /\ b[1] = w.id
      BY <1>1 DEF Boxes
<1>3. \A b \in DOMAIN w.todo : Passed(b, w.todo[b].lastUid)'
  <2>. SUFFICES ASSUME NEW b \in DOMAIN w.todo PROVE Passed(b, w.todo[b].lastUid)'
       OBVIOUS
  <2>1. PICK last : last = w.todo[b].lastUid
        OBVIOUS
  <2>2. Passed(b, last)
        BY <2>1 DEF HandPassed
  <2>3. Passed(b, last)'
        BY <1>2, <2>2, StaysSettled
  <2>. QED BY <2>1, <2>3 DEF Passed
<1>4. ASSUME w.at \in InFolder
      PROVE  /\ Passed(w.box, w.folder.lastUid)' /\ \A u \in w.listed \ w.left : Settled(w.box, u)'
             /\ w.at = "tag" => <<w.box, Min(w.left)>> \in messages'
  <2>1. PICK box, last : box = w.box /\ last = w.folder.lastUid
        OBVIOUS
  <2>2. box \in {w.id} \X Names
        BY <1>4, <2>1 DEF GoodWorker, GoodFolder
  <2>3. box \in Boxes /\ box[1] = w.id
        BY <1>1, <2>2 DEF Boxes
  <2>4. Passed(box, last) /\ \A u \in w.listed \ w.left : Settled(box, u)
        BY <1>4, <2>1 DEF HandPassed
  <2>5. Passed(box, last)' /\ \A u \in w.listed \ w.left : Settled(box, u)'
        BY <2>3, <2>4, StaysSettled
  <2>6. w.at = "tag" => <<box, Min(w.left)>> \in messages'
        BY <2>1, <2>3, StaysSettled DEF HandPassed
  <2>. QED BY <2>1, <2>5, <2>6 DEF Passed, Settled
<1>5. w.at = "tag" => w.at \in InFolder
      BY DEF InFolder
<1>. QED BY <1>3, <1>4, <1>5 DEF HandPassed

LEMMA WorkerKeepsPassed ==
    ASSUME Types, CursorInv, [Next]_vars
    PROVE  WorkerPassed'
<1>. SUFFICES ASSUME NEW w, w = worker', w.at \in InAccount, w.id \notin raced'
              PROVE  HandPassed(w)'
     BY DEF WorkerPassed, HandPassed
<1>1. PICK v : v = worker
      OBVIOUS
<1>2. GoodWorker(v)
      BY <1>1 DEF Types, WorkerOK
\* In every step but for the next account, the worker goes on from a state in
\* which it had this account in hand already.
<1>3. ASSUME v.at \in InAccount, v.id = w.id
      PROVE  HandPassed(v) /\ HandPassed(v)'
  <2>1. HandPassed(v)
        BY <1>1, <1>3, RacedGrows DEF CursorInv, WorkerPassed
  <2>2. HasAccount(v.id)
        BY <1>1, <1>3 DEF HasAccount, InAccount
  <2>3. ~DeleteAccount(v.id)
        BY <1>3, <2>2 DEF DeleteAccount, Race
  <2>. QED BY <1>2, <1>3, <2>1, <2>3, HandStaysPassed
<1>4. ASSUME v.at \in InAccount, v.id = w.id, DOMAIN w.todo \subseteq DOMAIN v.todo,
             \A b \in DOMAIN w.todo : w.todo[b] = v.todo[b]
      PROVE  \A b \in DOMAIN w.todo : Passed(b, w.todo[b].lastUid)'
      BY <1>3, <1>4 DEF HandPassed, Passed, Settled
<1>5. CASE UNCHANGED worker
      BY <1>1, <1>3, <1>5
<1>6. CASE SyncAll \/ FinishAccount \/ AccountFails \/ \E a \in Accounts : SyncOne(a)
      BY <1>6, SyncStarts, AccountLeft DEF InAccount
<1>7. CASE FinishSync \/ Restart
      BY <1>7, RestingIs DEF FinishSync, Restart, InAccount
<1>8. ASSUME NEW a \in Accounts, Connect(a) PROVE HandPassed(w)'
  <2>1. /\ w.at = "folders" /\ w.id = a
        /\ DOMAIN w.todo = {b \in DOMAIN folders' : b[1] = a /\ folders'[b].enabled}
        /\ \A b \in DOMAIN w.todo : w.todo[b] = folders'[b]
        BY <1>8, ConnectIs
  <2>2. \A b \in DOMAIN folders' : b[1] = a =>
           \A uid \in 1..folders'[b].lastUid : <<b, uid>> \in messages' \cup failed'
        BY <2>1, FolderKeepsPassed DEF FoldersPassed, Passed, Settled
  <2>3. \A b \in DOMAIN w.todo :
           \A uid \in 1..w.todo[b].lastUid : <<b, uid>> \in messages' \cup failed'
        BY <2>1, <2>2
  <2>. QED BY <2>1, <2>3 DEF HandPassed, Passed, Settled, InFolder
<1>9. ASSUME NEW box \in Boxes, Search(box) PROVE HandPassed(w)'
  <2>1. /\ w.at = "messages" /\ v.at = "folders" /\ box \in DOMAIN v.todo
        /\ w.id = v.id /\ DOMAIN w.todo = DOMAIN v.todo \ {box}
        /\ \A b \in DOMAIN w.todo : w.todo[b] = v.todo[b]
        /\ w.box = box /\ w.folder = v.todo[box] /\ w.left = w.listed
        BY <1>1, <1>9, SearchIs
  <2>2. v.at \in InAccount
        BY <2>1 DEF InAccount
  <2>3. \A b \in DOMAIN w.todo : Passed(b, w.todo[b].lastUid)'
        BY <1>4, <2>1, <2>2
  <2>4. Passed(w.box, w.folder.lastUid)'
        BY <1>3, <2>1, <2>2 DEF HandPassed, Passed, Settled
  <2>. QED BY <2>1, <2>3, <2>4 DEF HandPassed, InFolder
<1>10. CASE FinishFolder \/ FolderFails
  <2>1. /\ v.at \in {"messages", "folders"} /\ w.at = "folders" /\ w.id = v.id
        /\ DOMAIN w.todo \subseteq DOMAIN v.todo /\ \A b \in DOMAIN w.todo : w.todo[b] = v.todo[b]
        BY <1>1, <1>10, FolderLeft
  <2>2. v.at \in InAccount
        BY <2>1 DEF InAccount
  <2>3. \A b \in DOMAIN w.todo : Passed(b, w.todo[b].lastUid)'
        BY <1>4, <2>1, <2>2
  <2>. QED BY <2>1, <2>3 DEF HandPassed, InFolder
\* Within a folder: the message in hand is put down, or goes on.
<1>11. ASSUME v.at \in InFolder, v.left # {}, w.at \in InFolder, w.id = v.id, w.todo = v.todo,
              w.box = v.box, w.folder = v.folder, w.listed = v.listed,
              \A u \in w.listed \ w.left : u \in v.listed \ v.left \/ Settled(v.box, u)',
              w.at = "tag" => <<v.box, Min(w.left)>> \in messages'
       PROVE  HandPassed(w)'
  <2>1. HandPassed(v)'
        BY <1>3, <1>11 DEF InFolder, InAccount
  <2>2. \A b \in DOMAIN w.todo : Passed(b, w.todo[b].lastUid)'
        BY <1>4, <1>11 DEF InFolder, InAccount
  <2>3. Passed(w.box, w.folder.lastUid)' /\ \A u \in w.listed \ w.left : Settled(w.box, u)'
        BY <1>11, <2>1 DEF HandPassed, Passed, Settled
  <2>. QED BY <1>11, <2>2, <2>3 DEF HandPassed
<1>12. ASSUME PutsDown, worker.at \in InFolder, InHand \in messages' \cup failed' PROVE HandPassed(w)'
  <2>1. /\ w.at = "messages" /\ w.id = v.id /\ w.todo = v.todo /\ w.box = v.box /\ v.left # {}
        /\ w.folder = v.folder /\ w.listed = v.listed /\ w.left = v.left \ {Uid}
        BY <1>1, <1>12, MessageDoneIs DEF PutsDown
  <2>2. PICK uid : uid = Uid
        OBVIOUS
  <2>3. Settled(v.box, uid)'
        BY <1>1, <1>12, <2>2 DEF InHand, Settled
  <2>4. \A u \in w.listed \ w.left : u \in v.listed \ v.left \/ Settled(v.box, u)'
        BY <2>1, <2>2, <2>3
  <2>. QED BY <1>1, <1>11, <1>12, <2>1, <2>4 DEF InFolder
<1>13. ASSUME worker.at \in InFolder, worker.left # {}, NEW at \in {"store", "tag"},
              worker' = WithMessage(at), at = "tag" => InHand \in messages'
       PROVE  HandPassed(w)'
  <2>1. /\ w.at = at /\ w.id = v.id /\ w.todo = v.todo /\ w.box = v.box
        /\ w.folder = v.folder /\ w.listed = v.listed /\ w.left = v.left
        BY <1>1, <1>13, WithMessageIs
  <2>2. InHand = <<v.box, Min(w.left)>>
        BY <1>1, <2>1 DEF InHand, Uid
  <2>. QED BY <1>1, <1>11, <1>13, <2>1, <2>2 DEF InFolder
<1>14. CASE Assign
       BY <1>13, <1>14, AssignIs DEF InFolder
<1>15. CASE StoreMessage
       BY <1>13, <1>15, StoreIs DEF InFolder
<1>16. CASE SkipStored
  <2>1. messages' = messages
        BY <1>16 DEF SkipStored, tables
  <2>. QED BY <1>12, <1>16, <2>1, MessageSteps DEF InFolder
<1>17. CASE CannotStore \/ MessageFails
       BY <1>12, <1>17, MessageSteps DEF InFolder
<1>18. CASE TagUnread \/ TagFails
  <2>1. worker.at = "tag" /\ PutsDown
        BY <1>18, MessageSteps
  <2>2. w.id = v.id
        BY <1>1, <2>1, MessageDoneIs DEF PutsDown, InFolder
  <2>3. HandPassed(v)
        BY <1>1, <1>3, <2>1, <2>2 DEF InAccount
  <2>4. InHand \in messages
        BY <1>1, <2>1, <2>3 DEF HandPassed, InHand, Uid
  <2>5. messages' = messages
        BY <1>18 DEF TagUnread, TagFails, tables
  <2>. QED BY <1>12, <2>1, <2>4, <2>5 DEF InFolder
<1>. QED BY <1>5, <1>6, <1>7, <1>8, <1>9, <1>10, <1>14, <1>15, <1>16, <1>17, <1>18, WorkerWriters

\* Every message a folder's cursor has passed is stored, or could not be, unless
\* the account was changed while others had a copy of it, through any number of
\* fetches, broken connections and restarts (fetcher.go:237).
THEOREM NothingIsPassedOver == Spec => []NothingPassedOver
<1>1. Init => CursorInv
  <2>. SUFFICES ASSUME Init PROVE CursorInv
       OBVIOUS
  <2>1. DOMAIN folders = {} /\ \A p \in Procs : task[p] = Idle
        BY DEF Init, Nothing
  <2>2. worker = Resting
        BY DEF Init
  <2>. QED BY <2>1, <2>2, IdleIsGood, RestingIs
           DEF CursorInv, FoldersPassed, TasksPassed, WorkerPassed, InAccount
<1>2. /\ Init => Types /\ OrdersInv /\ CursorInv
      /\ Types /\ OrdersInv /\ CursorInv /\ [Next]_vars => (Types /\ OrdersInv /\ CursorInv)'
      BY <1>1, InitTypes, TypesHold, OrdersHold, FolderKeepsPassed, TaskKeepsPassed,
         WorkerKeepsPassed DEF CursorInv, Init, Nothing, OrdersInv
<1>3. CursorInv => NothingPassedOver
      BY DEF CursorInv, FoldersPassed, Passed, Settled, NothingPassedOver
<1>. QED BY <1>2, <1>3, PTL DEF Spec


-----------------------------------------------------------------------------
(* Which threads are unread *)

\* The unseen messages whose thread should have the tag by now.
Noted == IF worker.at = "tag" THEN fresh \ {InHand} ELSE fresh

MarksNew ==
    \A t \in DOMAIN threads \ raced :
       t \in unread <=> \E m \in Noted : ThreadOf(m[1], m[2]) = t
StoredOnce == worker.at = "store" => InHand \notin messages
HandIsNew ==
    worker.at = "tag" /\ Thread \in DOMAIN threads \ raced =>
       (InHand \in fresh <=> ~Arrived.seen)

UnreadInv == MarksNew /\ StoredOnce /\ HandIsNew

\* A thread that a late request makes anew counts as raced; the worker makes
\* the others.
LEMMA ThreadsShrink ==
    ASSUME Types, [Next]_vars, ~Assign
    PROVE  DOMAIN threads' \ raced' \subseteq DOMAIN threads \ raced
<1>1. raced \subseteq raced'
      BY RacedGrows
<1>2. CASE DOMAIN threads' \subseteq DOMAIN threads
      BY <1>1, <1>2
<1>3. CASE TagUnread \/ FinishSync
      BY <1>2, <1>3, LinkedByAddress DEF TagUnread
<1>4. ASSUME NEW a \in Accounts, DeleteAccount(a)
      PROVE  DOMAIN threads' \subseteq DOMAIN threads
      BY <1>4, ThreadsGone
<1>5. ASSUME NEW t \in Threads, MarkRead(t)
      PROVE  DOMAIN threads' \subseteq DOMAIN threads
      BY <1>5 DEF MarkRead
<1>6. ASSUME NEW p \in Procs, SaveThread(p)
      PROVE  DOMAIN threads' \ raced' \subseteq DOMAIN threads \ raced
      BY <1>1, <1>6, ThreadSaved
<1>. QED BY <1>2, <1>3, <1>4, <1>5, <1>6, ThreadWriters

LEMMA NotedIs ==
    ASSUME Types, StoredOnce, [Next]_vars
    PROVE  /\ TagUnread => Noted' = fresh
           /\ \A a \in Accounts : DeleteAccount(a) => Noted' = {m \in Noted : m[1][1] # a}
           /\ \A t \in Threads : MarkRead(t) => Noted' = {m \in Noted : ThreadOf(m[1], m[2]) # t}
           /\ \/ TagUnread
              \/ \E a \in Accounts : DeleteAccount(a)
              \/ \E t \in Threads : MarkRead(t)
              \/ Noted' = Noted /\ unread' = unread
<1>1. worker' = worker => InHand' = InHand
      BY DEF InHand, Uid
<1>2. PutsDown => worker'.at = "messages"
      BY MessageDoneIs DEF PutsDown
<1>3. TagUnread => Noted' = fresh
  <2>. SUFFICES ASSUME TagUnread PROVE Noted' = fresh
       OBVIOUS
  <2>1. worker'.at = "messages" /\ fresh' = fresh
        BY <1>2, MessageSteps DEF TagUnread, history
  <2>. QED BY <2>1 DEF Noted
<1>4. \A a \in Accounts : DeleteAccount(a) => Noted' = {m \in Noted : m[1][1] # a}
      BY <1>1, ThreadsGone DEF DeleteAccount, Noted
<1>5. \A t \in Threads : MarkRead(t) => Noted' = {m \in Noted : ThreadOf(m[1], m[2]) # t}
      BY <1>1 DEF MarkRead, Noted
<1>6. worker' = worker /\ fresh' = fresh => Noted' = Noted
      BY <1>1 DEF Noted
<1>7. worker.at # "tag" /\ worker'.at # "tag" /\ fresh' = fresh => Noted' = Noted
      BY DEF Noted
<1>8. ASSUME SkipStored \/ CannotStore \/ MessageFails
      PROVE  worker.at # "tag" /\ worker'.at # "tag" /\ fresh' = fresh
      BY <1>2, <1>8, MessageSteps DEF SkipStored, CannotStore, MessageFails, history
<1>9. ASSUME SyncAll \/ \E a \in Accounts : SyncOne(a)
      PROVE  worker.at # "tag" /\ worker'.at # "tag" /\ fresh' = fresh
  <2>1. fresh' = fresh
        BY <1>9 DEF SyncAll, SyncOne, history
  <2>. QED BY <1>9, <2>1, SyncStarts
<1>10. ASSUME FinishFolder \/ FolderFails
       PROVE  worker.at # "tag" /\ worker'.at # "tag" /\ fresh' = fresh
  <2>1. fresh' = fresh
        BY <1>10 DEF FinishFolder, FolderFails, history
  <2>2. worker.at \in {"messages", "folders"} /\ worker'.at = "folders"
        BY <1>10, FolderLeft
  <2>. QED BY <2>1, <2>2
<1>11. ASSUME FinishAccount \/ AccountFails
       PROVE  worker.at # "tag" /\ worker'.at # "tag" /\ fresh' = fresh
  <2>1. fresh' = fresh
        BY <1>11 DEF FinishAccount, AccountFails, history
  <2>2. worker'.at = "accounts" /\ (worker.at = "folders" \/ worker.at = "accounts")
        BY <1>11, AccountLeft
  <2>. QED BY <2>1, <2>2
<1>12. ASSUME FinishSync PROVE worker.at # "tag" /\ worker'.at # "tag" /\ fresh' = fresh
       BY <1>12, RestingIs DEF FinishSync, history
<1>13. ASSUME NEW a \in Accounts, Connect(a)
       PROVE  worker.at # "tag" /\ worker'.at # "tag" /\ fresh' = fresh
  <2>1. fresh' = fresh
        BY <1>13 DEF Connect, history
  <2>. QED BY <1>13, <2>1, ConnectIs
<1>14. ASSUME NEW box \in Boxes, Search(box)
       PROVE  worker.at # "tag" /\ worker'.at # "tag" /\ fresh' = fresh
  <2>1. fresh' = fresh
        BY <1>14 DEF Search, history
  <2>2. worker.at = "folders" /\ worker'.at = "messages"
        BY <1>14, SearchIs
  <2>. QED BY <2>1, <2>2
<1>15. ASSUME Assign PROVE worker.at # "tag" /\ worker'.at # "tag" /\ fresh' = fresh
  <2>1. fresh' = fresh
        BY <1>15 DEF Assign, history
  <2>2. worker.at = "messages" /\ worker'.at = "store"
        BY <1>15, AssignIs, WithMessageIs DEF InFolder
  <2>. QED BY <2>1, <2>2
<1>16. ASSUME StoreMessage PROVE Noted' = Noted
  <2>1. /\ worker.at = "store" /\ worker.left # {} /\ worker' = WithMessage("tag")
        /\ fresh' \ {InHand} = fresh \ {InHand}
        BY <1>16, StoreIs
  <2>2. worker'.at = "tag" /\ worker'.box = worker.box /\ worker'.left = worker.left
        BY <2>1, WithMessageIs DEF InFolder
  <2>3. InHand' = InHand
        BY <2>2 DEF InHand, Uid
  <2>4. InHand \notin fresh
        BY <2>1 DEF StoredOnce, Types, MessagesOK
  <2>. QED BY <2>1, <2>2, <2>3, <2>4 DEF Noted
<1>17. ASSUME TagFails PROVE Noted' = Noted
  <2>1. worker.at = "tag" /\ worker'.at = "messages" /\ fresh' = fresh \ {InHand}
        BY <1>2, <1>17, MessageSteps DEF TagFails
  <2>. QED BY <2>1 DEF Noted
<1>18. ASSUME Restart PROVE Noted' = Noted
  <2>1. worker'.at = "idle"
        BY <1>18, RestingIs DEF Restart
  <2>2. fresh' = Noted
        BY <1>18 DEF Restart, Noted
  <2>. QED BY <2>1, <2>2 DEF Noted
<1>19. \/ TagUnread
       \/ \E a \in Accounts : DeleteAccount(a)
       \/ \E t \in Threads : MarkRead(t)
       \/ Noted' = Noted
       BY <1>6, <1>7, <1>8, <1>9, <1>10, <1>11, <1>12, <1>13, <1>14, <1>15, <1>16, <1>17, <1>18,
          WorkerWriters, MessageWriters
<1>20. \/ TagUnread
       \/ \E a \in Accounts : DeleteAccount(a)
       \/ \E t \in Threads : MarkRead(t)
       \/ unread' = unread
       BY ThreadWriters DEF Assign, FinishSync, SaveThread
<1>. QED BY <1>3, <1>4, <1>5, <1>19, <1>20


LEMMA MarksHold ==
    ASSUME Types, UnreadInv, [Next]_vars
    PROVE  MarksNew'
<1>. SUFFICES ASSUME NEW t \in DOMAIN threads', t \notin raced'
              PROVE  t \in unread' <=> \E m \in Noted' : ThreadOf(m[1], m[2])' = t
     BY DEF MarksNew
<1>1. Noted \subseteq fresh /\ fresh \subseteq messages
      BY DEF Noted, Types, MessagesOK
<1>2. \A m \in fresh : /\ ThreadOf(m[1], m[2])' = ThreadOf(m[1], m[2])
                       /\ ThreadOf(m[1], m[2])[1] = m[1][1]
                       /\ ThreadOf(m[1], m[2]) \in DOMAIN threads
  <2>. SUFFICES ASSUME NEW m \in fresh
                PROVE  /\ ThreadOf(m[1], m[2])' = ThreadOf(m[1], m[2])
                       /\ ThreadOf(m[1], m[2])[1] = m[1][1]
                       /\ ThreadOf(m[1], m[2]) \in DOMAIN threads
       OBVIOUS
  <2>1. m \in messages
        BY <1>1
  <2>2. m[1] \in Boxes /\ m[2] \in 1..Len(mailbox[m[1]]) /\ ThreadOf(m[1], m[2]) \in DOMAIN threads
        BY <2>1 DEF Types, MessagesOK
  <2>. QED BY <2>2, ThreadStays
<1>3. StoredOnce
      BY DEF UnreadInv
<1>4. CASE Assign
  <2>1. unread' = unread
        BY <1>4 DEF Assign
  <2>2. Noted' = Noted
    <3>1. worker.at = "messages" /\ worker'.at = "store"
          BY <1>4, AssignIs, WithMessageIs DEF InFolder
    <3>2. fresh' = fresh
          BY <1>4 DEF Assign, history
    <3>. QED BY <3>1, <3>2 DEF Noted
  <2>3. t \notin raced
        BY RacedGrows
  <2>4. CASE t \in DOMAIN threads
        BY <1>1, <1>2, <2>1, <2>2, <2>3, <2>4 DEF UnreadInv, MarksNew
  <2>5. CASE t \notin DOMAIN threads
        BY <1>1, <1>2, <2>1, <2>2, <2>5 DEF Types, ThreadsOK
  <2>. QED BY <2>4, <2>5
<1>5. CASE ~Assign
  <2>1. t \in DOMAIN threads /\ t \notin raced
        BY <1>5, ThreadsShrink
  <2>2. t \in unread <=> \E m \in Noted : ThreadOf(m[1], m[2]) = t
        BY <2>1 DEF UnreadInv, MarksNew
  <2>3. CASE Noted' = Noted /\ unread' = unread
        BY <1>1, <1>2, <2>2, <2>3
  <2>4. CASE TagUnread
    <3>1. /\ Noted' = fresh /\ worker.at = "tag" /\ worker.left # {}
          /\ unread' = IF Arrived.seen \/ Thread \notin DOMAIN threads THEN unread
                       ELSE unread \cup {Thread}
          BY <1>3, <2>4, NotedIs, MessageSteps DEF TagUnread, PutsDown
    <3>2. ThreadOf(InHand[1], InHand[2]) = Thread
          BY DEF InHand, Thread
    <3>3. Noted = fresh \ {InHand}
          BY <3>1 DEF Noted
    <3>4. CASE t # Thread
          BY <1>2, <2>2, <3>1, <3>2, <3>3, <3>4
    <3>5. CASE t = Thread
      <4>1. InHand \in fresh <=> ~Arrived.seen
            BY <2>1, <3>1, <3>5 DEF UnreadInv, HandIsNew
      <4>2. t \in unread' <=> t \in unread \/ ~Arrived.seen
            BY <2>1, <3>1, <3>5
      <4>. QED BY <1>2, <2>2, <3>1, <3>2, <3>3, <3>5, <4>1, <4>2
    <3>. QED BY <3>4, <3>5
  <2>5. ASSUME NEW a \in Accounts, DeleteAccount(a)
        PROVE  t \in unread' <=> \E m \in Noted' : ThreadOf(m[1], m[2])' = t
    <3>1. Noted' = {m \in Noted : m[1][1] # a}
          BY <1>3, <2>5, NotedIs
    <3>2. unread' = {u \in unread : u[1] # a} /\ DOMAIN threads' = {u \in DOMAIN threads : u[1] # a}
          BY <2>5, ThreadsGone
    <3>. QED BY <1>1, <1>2, <2>2, <3>1, <3>2
  <2>6. ASSUME NEW u \in Threads, MarkRead(u)
        PROVE  t \in unread' <=> \E m \in Noted' : ThreadOf(m[1], m[2])' = t
    <3>1. Noted' = {m \in Noted : ThreadOf(m[1], m[2]) # u}
          BY <1>3, <2>6, NotedIs
    <3>2. unread' = unread \ {u}
          BY <2>6 DEF MarkRead
    <3>. QED BY <1>1, <1>2, <2>2, <3>1, <3>2
  <2>. QED BY <1>3, <2>3, <2>4, <2>5, <2>6, NotedIs
<1>. QED BY <1>4, <1>5

\* While a message is in hand, nobody else stores it.
LEMMA HandsHold ==
    ASSUME Types, UnreadInv, [Next]_vars
    PROVE  StoredOnce' /\ HandIsNew'
<1>1. worker' = worker => InHand' = InHand /\ Uid' = Uid
      BY DEF InHand, Uid
<1>2. CASE worker' = worker
  <2>1. ~Assign
        BY <1>2, AssignIs, WithMessageIs DEF InFolder
  <2>2. worker.at = "store" => messages' \subseteq messages
    <3>1. ASSUME worker.at = "store", StoreMessage PROVE FALSE
      <4>1. worker'.at = "tag"
            BY <3>1, StoreIs, WithMessageIs DEF InFolder
      <4>. QED BY <1>2, <3>1, <4>1
    <3>2. TagFails \/ Restart \/ (\E t \in Threads : MarkRead(t)) => messages' = messages
          BY DEF TagFails, Restart, MarkRead, tables
    <3>3. (\E a \in Accounts : DeleteAccount(a)) => messages' \subseteq messages
          BY ThreadsGone
    <3>. QED BY <3>1, <3>2, <3>3, MessageWriters
  <2>3. StoredOnce'
        BY <1>1, <1>2, <2>2 DEF UnreadInv, StoredOnce
  <2>4. ASSUME worker.at = "tag", Thread' \in DOMAIN threads' \ raced'
        PROVE  InHand \in fresh' <=> ~Arrived.seen'
    <3>1. worker.left # {}
          BY <2>4 DEF Types, WorkerOK, GoodWorker
    <3>2. /\ worker.box \in Boxes /\ Uid \in 1..Len(mailbox[worker.box])
          /\ worker.box[1] = worker.id /\ Thread[1] = worker.id
          BY <2>4, <3>1, MessageInHand DEF InFolder
    <3>3. PICK box, uid : box = worker.box /\ uid = Uid
          OBVIOUS
    <3>4. ThreadOf(box, uid)' = ThreadOf(box, uid) /\ mailbox'[box][uid] = mailbox[box][uid]
          BY <3>2, <3>3, ThreadStays
    <3>5. Thread = ThreadOf(box, uid) /\ Thread' = ThreadOf(box, uid)'
          BY <1>1, <1>2, <3>3 DEF Thread, ThreadOf
    <3>6. Arrived' = Arrived
          BY <1>1, <1>2, <3>3, <3>4 DEF Arrived
    <3>7. Thread \in DOMAIN threads \ raced
          BY <2>1, <2>4, <3>4, <3>5, ThreadsShrink
    <3>8. InHand \in fresh <=> ~Arrived.seen
          BY <2>4, <3>7 DEF UnreadInv, HandIsNew
    <3>9. InHand \in fresh' <=> InHand \in fresh
      <4>1. CASE fresh' = fresh
            BY <4>1
      <4>2. ~StoreMessage
            BY <2>4 DEF StoreMessage
      <4>3. ASSUME TagFails \/ Restart PROVE FALSE
        <5>1. TagFails => worker'.at = "messages"
              BY MessageSteps, MessageDoneIs DEF PutsDown
        <5>2. Restart => worker'.at = "idle"
              BY RestingIs DEF Restart
        <5>. QED BY <1>2, <2>4, <4>3, <5>1, <5>2
      <4>4. ASSUME NEW a \in Accounts, DeleteAccount(a) PROVE InHand \in fresh' <=> InHand \in fresh
        <5>1. fresh' = {m \in fresh : m[1][1] # a} /\ DOMAIN threads' = {t \in DOMAIN threads : t[1] # a}
              BY <4>4, ThreadsGone
        <5>2. worker.id # a
              BY <2>4, <3>2, <3>4, <3>5, <5>1
        <5>3. InHand[1][1] = worker.id
              BY <3>2 DEF InHand
        <5>. QED BY <5>1, <5>2, <5>3
      <4>5. ASSUME NEW t \in Threads, MarkRead(t) PROVE InHand \in fresh' <=> InHand \in fresh
            BY <2>4, <4>5 DEF MarkRead
      <4>. QED BY <4>1, <4>2, <4>3, <4>4, <4>5, MessageWriters
    <3>. QED BY <3>6, <3>8, <3>9
  <2>. QED BY <1>1, <1>2, <2>3, <2>4 DEF HandIsNew
<1>3. CASE Assign
  <2>1. worker'.at = "store" /\ InHand' = InHand /\ InHand \notin messages
        BY <1>3, AssignIs, WithMessageIs DEF InFolder, InHand, Uid
  <2>2. messages' = messages
        BY <1>3 DEF Assign
  <2>. QED BY <2>1, <2>2 DEF StoredOnce, HandIsNew
<1>4. CASE StoreMessage
  <2>1. worker.at = "store" /\ worker.left # {} /\ worker' = WithMessage("tag") /\ mailbox' = mailbox
        BY <1>4, StoreIs
  <2>2. worker'.at = "tag" /\ worker'.box = worker.box /\ worker'.left = worker.left
        BY <2>1, WithMessageIs DEF InFolder
  <2>3. InHand' = InHand /\ Arrived' = Arrived
        BY <2>1, <2>2 DEF InHand, Arrived, Uid
  <2>4. InHand \notin messages /\ InHand \notin fresh
        BY <2>1 DEF UnreadInv, StoredOnce, Types, MessagesOK
  <2>5. InHand \in fresh' <=> ~Arrived.seen
        BY <1>4, <2>4, StoreIs
  <2>. QED BY <2>2, <2>3, <2>5 DEF StoredOnce, HandIsNew
<1>5. CASE worker'.at \notin {"store", "tag"}
      BY <1>5 DEF StoredOnce, HandIsNew
<1>6. ASSUME SyncAll \/ FinishFolder \/ FinishAccount \/ FolderFails \/ AccountFails
             \/ \E a \in Accounts : SyncOne(a)
      PROVE  worker'.at \notin {"store", "tag"}
      BY <1>6, SyncStarts, FolderLeft, AccountLeft
<1>7. ASSUME FinishSync \/ Restart PROVE worker'.at \notin {"store", "tag"}
      BY <1>7, RestingIs DEF FinishSync, Restart
<1>8. ASSUME SkipStored \/ CannotStore \/ MessageFails \/ TagUnread \/ TagFails
      PROVE  worker'.at \notin {"store", "tag"}
      BY <1>8, MessageSteps, MessageDoneIs DEF PutsDown
<1>9. ASSUME NEW a \in Accounts, Connect(a) PROVE worker'.at \notin {"store", "tag"}
      BY <1>9, ConnectIs
<1>10. ASSUME NEW box \in Boxes, Search(box) PROVE worker'.at \notin {"store", "tag"}
      BY <1>10, SearchIs
<1>. QED BY <1>2, <1>3, <1>4, <1>5, <1>6, <1>7, <1>8, <1>9, <1>10, WorkerWriters

\* A thread is unread exactly when an unseen message was stored since it was
\* last read: fetching messages anew does not mark it again, storing a message
\* and marking its thread in two steps loses no mark (fetcher.go:316).
THEOREM UnreadIsNew == Spec => []UnreadMeansNew
<1>1. Init => UnreadInv
  <2>. SUFFICES ASSUME Init PROVE UnreadInv
       OBVIOUS
  <2>1. DOMAIN threads = {} /\ worker.at = "idle"
        BY RestingIs DEF Init, Nothing
  <2>. QED BY <2>1 DEF UnreadInv, MarksNew, StoredOnce, HandIsNew
<1>2. Types /\ UnreadInv /\ [Next]_vars => (Types /\ UnreadInv)'
      BY TypesHold, MarksHold, HandsHold DEF UnreadInv
<1>3. UnreadInv => UnreadMeansNew
  <2>. SUFFICES ASSUME UnreadInv, NEW t \in DOMAIN threads \ raced, ~(worker.at = "tag" /\ Thread = t)
                PROVE  t \in unread <=> \E m \in fresh : ThreadOf(m[1], m[2]) = t
       BY DEF UnreadMeansNew
  <2>1. t \in unread <=> \E m \in Noted : ThreadOf(m[1], m[2]) = t
        BY DEF UnreadInv, MarksNew
  <2>2. ThreadOf(InHand[1], InHand[2]) = Thread
        BY DEF InHand, Thread
  <2>3. CASE worker.at # "tag"
        BY <2>1, <2>3 DEF Noted
  <2>4. CASE worker.at = "tag"
    <3>1. Noted = fresh \ {InHand} /\ Thread # t
          BY <2>4 DEF Noted
    <3>. QED BY <2>1, <2>2, <3>1
  <2>. QED BY <2>3, <2>4
<1>. QED BY <1>1, <1>2, <1>3, InitTypes, PTL DEF Spec

=============================================================================
