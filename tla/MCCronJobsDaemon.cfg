\* One job under the daemon.
SPECIFICATION CronSpec
CONSTANTS
    p1 = p1
    p2 = p2
    j1 = j1
    j2 = j2
    Callers <- MCCallers
    Jobs <- OneJob
    Schedules <- MCSchedules
    Deployments <- TheDaemon
    LastMinute = 2
    MaxTroubles = 2
INVARIANTS
    DaemonReconciles
CHECK_DEADLOCK FALSE
