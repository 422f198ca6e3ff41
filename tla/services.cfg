SPECIFICATION Spec
CONSTANTS
 MaxFaults = 1
 Nobody = Nobody
 Jobs = {1, 2}
 Inline = {1, 2}
 Ticks = {t1, t2}
 Elsewhere = Elsewhere
 JobLimit = 2
 MaxInlineSubmits = 1
 MaxFailures = 1
 Runs = {r1, r2}
 Backfills = {b1, b2}
 MaxBytes = 2
 MaxInlineTries = 3
 OddAnswers = {}
 ToolAsks <- MCAsks
 NoGivenKey = NoGivenKey
 OpenArgs = {"open"}
 Blocked = {"blocked"}
 ToolLimit = 1
 MaxToolCalls = 2
 MaxTime = 4
 MaxTrouble = 1
 Customers = {c1}
 Subs = {s1, s2}
 MaxAsks = 2
 MaxTurns = 1
 LossyRoutes = FALSE
 StaleSessions = FALSE
 BookedEnds = FALSE
 Accounts = {a, b}
 MaxSessionCalls = 1
 MaxEpoch = 2
 SilentSwitch = FALSE
 Prompts = {p1}
 Rows = {1, 2}
 Held = {}
 PageSize = 1
 MaxCalls = 2
 MaxKeys = 2
 MaxLoads = 1
INVARIANTS
 SlotsAreHeld
 StoredSafely
 
 CallsAreHonest
 
 
 
 OneChargePerAnswer
 PendingIsPolled

 
CHECK_DEADLOCK FALSE
