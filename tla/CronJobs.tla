------------------------------ MODULE CronJobs ------------------------------
(***************************************************************************)
(* Scheduled jobs (internal/modules/cron) and the two ways of running      *)
(* them: "cron run", which the system's cron starts every minute and which *)
(* runs what is due one job after the other (cmd/server/cron_runner.go),   *)
(* or the daemon, which keeps a table of scheduled jobs of its own         *)
(* (cmd/server/cron_daemon.go).  Both save the job they ran whole, from    *)
(* the copy they read before; so do the commands on a job.                 *)
(* Time is counted in minutes.  A schedule is a number of minutes: the job *)
(* is to run at its multiples.                                             *)
(***************************************************************************)
EXTENDS Naturals, Tables

CONSTANTS
    Callers,        \* "cron run"s and commands that may be under way
    Jobs,           \* ids (uuids)
    Schedules,
    Deployments,    \* how jobs are run: "system cron", "daemon"
    LastMinute,     \* bound: the last minute
    MaxTroubles     \* bound: commands, lost saves and crashes

ASSUME SchedulesAssumption == Schedules \subseteq Nat \ {0}
ASSUME MinutesAssumption == {LastMinute, MaxTroubles} \subseteq Nat

VARIABLES
    clock,          \* the minute
    jobs,           \* cron_jobs, by id
    work,           \* what each process is at
    deployed,       \* how jobs are run
    entries,        \* the daemon's table: by id, its copy and its next start
    running,        \* the daemon's runs under way: by id, their copy
    reloaded,       \* the daemon has reloaded its table this minute
    edited,         \* history: what commands last made of each job
    ranAt,          \* history: the minute of each job's last run
    again,          \* history: jobs run twice in a minute
    stale,          \* history: commands whose job was saved since they read it
    raced,          \* history: jobs whose copies were out of date when saved,
                    \* or whose run was not recorded
    troubles        \* commands, lost saves and crashes so far

cronVars == <<clock, jobs, work, deployed, entries, running, reloaded,
             edited, ranAt, again, stale, raced, troubles>>

daemon == <<entries, running, reloaded>>
history == <<edited, ranAt, again>>

Job == [status: {"active", "paused", "deleted"}, schedule: Schedules, nextRun: Nat]

Free == [kind |-> "none"]
IsFree(p) == work[p].kind = "none"
Take(p, t) == work' = [work EXCEPT ![p] = t]

\* The bound on what may disturb the runs.
HasTrouble == troubles < MaxTroubles /\ troubles' = troubles + 1

-----------------------------------------------------------------------------
(* Jobs *)

\* The first time on the schedule after t.
NextTime(schedule, t) == ((t \div schedule) + 1) * schedule

\* The larger of two times.
Later(a, b) == IF a > b THEN a ELSE b

\* Slips: a job that is behind is moved on by one of its times only; a job is
\* paused once it has run.
AdvanceByOne(job) == [job EXCEPT !.nextRun = NextTime(job.schedule, @)]
AdvanceAndPause(job) ==
    [job EXCEPT !.nextRun = NextTime(job.schedule, Later(@, clock)), !.status = "paused"]

AdvanceNextRun(job) == [job EXCEPT !.nextRun = NextTime(job.schedule, Later(@, clock))]

NewJob(schedule) ==
    [status |-> "active", schedule |-> schedule, nextRun |-> NextTime(schedule, clock)]

\* What a command may make of a job: nothing when it is not the time for it.
Paused(job) ==
    {j \in {[job EXCEPT !.status = "paused"]} : job.status = "active"}
Resumed(job) ==
    {j \in {[job EXCEPT !.status = "active",
                        !.nextRun = NextTime(job.schedule, clock)]} : job.status = "paused"}
Updated(job) ==
    {[job EXCEPT !.schedule = s, !.nextRun = NextTime(s, clock)] : s \in Schedules}
Deleted(job) ==
    {j \in {[job EXCEPT !.status = "deleted"]} : job.status # "deleted"}

-----------------------------------------------------------------------------
(* The commands *)

AddJob(id) ==
    /\ id \notin DOMAIN jobs
    /\ \E s \in Schedules :
          /\ jobs' = Put(jobs, id, NewJob(s))
          /\ edited' = Put(edited, id, <<"active", s>>)
    /\ UNCHANGED <<clock, work, deployed, daemon, ranAt, again, stale, raced, troubles>>

LoadJob(p, id) ==
    /\ IsFree(p)
    /\ id \in DOMAIN jobs
    /\ HasTrouble
    /\ \E job \in Paused(jobs[id]) \cup Resumed(jobs[id]) \cup Updated(jobs[id]) \cup Deleted(jobs[id]) :
          Take(p, [kind |-> "command", id |-> id, job |-> job])
    /\ UNCHANGED <<clock, jobs, deployed, daemon, history, stale, raced>>

\* The commands that a save of a job overtakes.
CommandsOn(id) == {p \in Callers : work[p].kind = "command" /\ work[p].id = id}

\* The jobs that runs have in hand, read and not yet saved.
Held ==
    DOMAIN running \cup
    UNION {IF work[p].kind = "run" THEN DOMAIN work[p].due ELSE {} : p \in Callers}

SaveJob(p) ==
    /\ work[p].kind = "command"
    /\ LET id == work[p].id
           job == work[p].job
       IN  /\ jobs' = Put(jobs, id, job)
           /\ edited' = Put(edited, id, <<job.status, job.schedule>>)
           /\ raced' = IF p \in stale \/ id \in Held THEN raced \cup {id} ELSE raced
           /\ stale' = (stale \cup CommandsOn(id)) \ {p}
    /\ Take(p, Free)
    /\ UNCHANGED <<clock, deployed, daemon, ranAt, again, troubles>>

-----------------------------------------------------------------------------
(* cron run *)

ListDue == {id \in DOMAIN jobs : jobs[id].status = "active" /\ jobs[id].nextRun <= clock}

\* due: the copies still to be dealt with; ran: the first of them has been run.
RunOf(due, ran) ==
    IF DOMAIN due = {} THEN Free ELSE [kind |-> "run", due |-> due, ran |-> ran]

RunDueJobs(p) ==
    /\ deployed = "system cron"
    /\ IsFree(p)
    /\ ListDue # {}
    /\ Take(p, RunOf([id \in ListDue |-> jobs[id]], {}))
    /\ raced' = raced \cup (ListDue \cap Held)
    /\ UNCHANGED <<clock, jobs, deployed, daemon, history, stale, troubles>>

NoteRun(id) ==
    /\ again' = IF id \in DOMAIN ranAt /\ ranAt[id] = clock THEN again \cup {id} ELSE again
    /\ ranAt' = Put(ranAt, id, clock)

\* Due jobs come in the order of their times.
IsNext(p, id) == \A i \in DOMAIN work[p].due : work[p].due[id].nextRun <= work[p].due[i].nextRun

\* The job's own work: it may fail, which is only noted in the job.
Execute(p) ==
    /\ work[p].kind = "run" /\ work[p].ran = {}
    /\ \E id \in DOMAIN work[p].due :
          /\ IsNext(p, id)
          /\ NoteRun(id)
          /\ Take(p, RunOf(work[p].due, {id}))
    /\ UNCHANGED <<clock, jobs, deployed, daemon, edited, stale, raced, troubles>>

RecordRun(p) ==
    /\ work[p].kind = "run"
    /\ \E id \in work[p].ran :
          /\ jobs' = Put(jobs, id, AdvanceNextRun(work[p].due[id]))
          /\ Take(p, RunOf(Drop(work[p].due, id), {}))
          /\ stale' = stale \cup CommandsOn(id)
    /\ UNCHANGED <<clock, deployed, daemon, history, raced, troubles>>

\* A save that fails is only logged; a process that stops saves nothing more.
LoseRecord(p) ==
    /\ work[p].kind = "run"
    /\ HasTrouble
    /\ \E id \in work[p].ran :
          /\ raced' = raced \cup {id}
          /\ Take(p, RunOf(Drop(work[p].due, id), {})) \/ Take(p, Free)
    /\ UNCHANGED <<clock, jobs, deployed, daemon, history, stale>>

-----------------------------------------------------------------------------
(* The daemon *)

Active == {id \in DOMAIN jobs : jobs[id].status = "active"}

\* A job that is in the table already stays there as it is.
Reload ==
    /\ deployed = "daemon"
    /\ ~reloaded
    /\ reloaded' = TRUE
    /\ entries' = [id \in Active |->
                     IF id \in DOMAIN entries THEN entries[id]
                     ELSE [job |-> jobs[id], at |-> NextTime(jobs[id].schedule, clock)]]
    /\ UNCHANGED <<clock, jobs, work, deployed, running, history, stale, raced, troubles>>

\* The entry's time has come: a goroutine runs its copy of the job.
Fire(id) ==
    /\ id \in DOMAIN entries
    /\ entries[id].at <= clock
    /\ entries' = [entries EXCEPT ![id].at = NextTime(entries[id].job.schedule, clock)]
    /\ running' = Put(running, id, entries[id].job)
    /\ NoteRun(id)
    /\ UNCHANGED <<clock, jobs, work, deployed, reloaded, edited, stale, raced, troubles>>

\* The copy is the entry's own, so the entry changes with it.
FinishFire(id) ==
    /\ id \in DOMAIN running
    /\ LET job == AdvanceNextRun(running[id]) IN
          /\ jobs' = Put(jobs, id, job)
          /\ entries' = [i \in DOMAIN entries |->
                            IF i = id THEN [entries[i] EXCEPT !.job = job] ELSE entries[i]]
    /\ running' = Drop(running, id)
    /\ stale' = stale \cup CommandsOn(id)
    /\ UNCHANGED <<clock, work, deployed, reloaded, history, raced, troubles>>

\* The daemon stops and starts again with an empty table.
Restart ==
    /\ deployed = "daemon"
    /\ HasTrouble
    /\ entries' = [id \in {} |-> 0]
    /\ running' = [id \in {} |-> 0]
    /\ reloaded' = FALSE
    /\ raced' = raced \cup DOMAIN running
    /\ UNCHANGED <<clock, jobs, work, deployed, history, stale>>

-----------------------------------------------------------------------------

\* The daemon keeps up with the clock: a run has 30 seconds.  A "cron run" may
\* take longer than a minute, as it runs one job after the other.
NextMinute ==
    /\ clock < LastMinute
    /\ deployed = "daemon" =>
          /\ reloaded
          /\ DOMAIN running = {}
          /\ \A id \in DOMAIN entries : entries[id].at > clock
    /\ clock' = clock + 1
    /\ reloaded' = FALSE
    /\ UNCHANGED <<jobs, work, deployed, entries, running, history, stale, raced, troubles>>

CronInit ==
    /\ clock = 0
    /\ jobs = [id \in {} |-> 0]
    /\ work = [p \in Callers |-> Free]
    /\ deployed \in Deployments
    /\ entries = [id \in {} |-> 0]
    /\ running = [id \in {} |-> 0]
    /\ reloaded = FALSE
    /\ edited = [id \in {} |-> 0]
    /\ ranAt = [id \in {} |-> 0]
    /\ again = {}
    /\ stale = {}
    /\ raced = {}
    /\ troubles = 0

CronNext ==
    \/ \E id \in Jobs : AddJob(id) \/ Fire(id) \/ FinishFire(id)
    \/ \E p \in Callers :
          \/ \E id \in Jobs : LoadJob(p, id)
          \/ SaveJob(p) \/ RunDueJobs(p) \/ Execute(p) \/ RecordRun(p) \/ LoseRecord(p)
    \/ Reload \/ Restart
    \/ NextMinute

CronSpec == CronInit /\ [][CronNext]_cronVars

-----------------------------------------------------------------------------
(* Properties *)

IsWork(t) ==
    \/ t = Free
    \/ t.kind = "command" /\ t.id \in DOMAIN jobs /\ t.job \in Job
    \/ /\ t.kind = "run"
       /\ DOMAIN t.due \subseteq DOMAIN jobs
       /\ \A id \in DOMAIN t.due : t.due[id] \in Job /\ t.due[id].status = "active"
       /\ t.ran \subseteq DOMAIN t.due /\ \A i, j \in t.ran : i = j

\* The type invariant.  What is in the daemon's table, or runs, was active when it got there.
CronTypeOK ==
    /\ clock \in 0..LastMinute
    /\ DOMAIN jobs \subseteq Jobs
    /\ \A id \in DOMAIN jobs : jobs[id] \in Job
    /\ \A p \in Callers : IsWork(work[p])
    /\ DOMAIN entries \cup DOMAIN running \subseteq DOMAIN jobs
    /\ \A id \in DOMAIN entries :
          entries[id] \in [job : Job, at : Nat] /\ entries[id].job.status = "active"
    /\ \A id \in DOMAIN running : running[id] \in Job /\ running[id].status = "active"
    /\ DOMAIN edited = DOMAIN jobs
    /\ troubles \in 0..MaxTroubles

StandsAsEdited(id) == <<jobs[id].status, jobs[id].schedule>> = edited[id]

\* Under the system's cron what a command made of a job stands, though runs save
\* the whole job, unless a run had the job in hand (cron_runner.go:71).
EditStands ==
    deployed = "system cron" => \A id \in DOMAIN jobs \ raced : StandsAsEdited(id)

\* cron_daemon.go:53 "reload diffs DB state against currently scheduled entries
\* and reconciles": what a command made of a job that is not running stands.
DaemonReconciles == \A id \in DOMAIN jobs \ raced : StandsAsEdited(id)

\* A job does not run twice in a minute, even when it is behind or has just been
\* resumed, unless runs overlapped, an edit met a run or a run was not recorded
\* (job.go:79).
OncePerMinute == again \subseteq raced
=============================================================================
