\* Two jobs, two overlapping runs or commands; either deployment.
SPECIFICATION CronSpec
CONSTANTS
    p1 = p1
    p2 = p2
    j1 = j1
    j2 = j2
    Callers <- MCCallers
    Jobs <- TwoJobs
    Schedules <- MCSchedules
    Deployments <- BothDeployments
    LastMinute = 2
    MaxTroubles = 3
INVARIANTS
    EditStands
    OncePerMinute
SYMMETRY Interchangeable
CHECK_DEADLOCK FALSE
