SPECIFICATION BackgroundSpec
CONSTANTS
    \* VersionedEdits
    User = {u1, u2}
    Object = {d1}
    NoObject = none
    Dashboard = {d1}
    MaxEdits = 3
    \* ResultPages
    Cell = {1, 2}
    None = NoCell
    MaxRows = 3
    MaxPageSize = 2
    BlockSize = {1, 2}
    InitialRows = 3
    MaxBlocks = 2
    \* ScheduleTime
    Minutes = 2
    Ticks = 2
    Schedule <- MCSchedule
    GiveUp = 3
    Horizon = 64
    \* Alerts
    Alert = {1, 2}
    Check = {c1, c2}
    Outcome <- MCOutcome
    \* Digest
    Subscription = {d}
    Dispatch = {w1}
    WeekDays = 2
    Hours = 2
    HourTicks = 3
    Patience = 2
    LastTick = 14
    \* LastActive
    Member = {m1, m2}
    MaxTime = 3
    \* Membership
    Person = {p1}
    Group = {g0, g1, g2}
    AdminGroup = g0
    DefaultGroup = g1
    Request = {r1, r2}
    MaxChanges = 2
    \* Grants
    Grantor = {a1, a2}
    Grantee = {e1}
    GrantCall = {k1, k2}
    MaxGrants = 4
    \* Explain
    Asker = {a}
    Explanation = {e1, e2}
    Limit = 1
    HourLength = 2
    CounterLife = 4
    Delay = 1
    CacheLife = 1
    Ending = 3
    MaxAsked = 3
    \* SchemaCache
    Getter = {h1, h2}
    MaxCatalogue = 2
    \* PeriodicJobs
    Periodic = {"j1", "j2", "j3"}
    Starter = {s1, s2}
    Release <- MCRelease
    MaxStarts = 3
INVARIANTS
    BackgroundTypeOK
    EveryRowShownOnce
    RunsAfterItsSlots
    KeepsItsWeekday
    NewsIsTold
    StatesAreVerdicts
    LastRequestIsKept
    MembershipIsAsAsked
    AccessIsAsAsked
    PermissionsAreAsConfirmed
    LimitHolds
    CountersExpire
    RefreshTakesEffect
    DeletedLeavesNothing
    ReleaseIsScheduled
PROPERTIES
    NoEditLost
    KeepsEditPromise
    LateDigestIsDueAgain
CHECK_DEADLOCK FALSE
