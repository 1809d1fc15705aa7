\* Overlapping sweeps over the leads of two members while a coach works them.
SPECIFICATION FairSpec
CONSTANTS
    k1 = k1
    k2 = k2
    r1 = r1
    s1 = s1
    s2 = s2
    None = None
    Coaches = {k1, k2}
    Leads = {1, 2}
    By <- TwoMembers
    Requests = {r1}
    Sweeps = {s1, s2}
    Operations = {"claim", "schedule", "missed", "block", "active", "sweep"}
    MaxActs = 1
    MaxTurns = 1
    MaxCrashes = 1
INVARIANTS
    ToldOncePerArming
PROPERTIES
    ReminderComes
CHECK_DEADLOCK FALSE
