SPECIFICATION Spec
CONSTANTS
 Pictures = {1, 2}
 MaxLibrary = 3
 MaxHistory = 1
 MaxActs = 5
 MaxOpens = 2
 MaxRevision = 2
 MaxClicks = 8
 MaxAsked = 1
 FailingApplies = FALSE
 Width = 32
 Height = 16
 Xs = {0, 20}
 Ys = {4, 16}
 Handles = {{"n"}, {"s", "e"}}
 MaxDabs = 2
 MaxGestures = 3
 TinyBoxes = FALSE
 Borrowers = {t1, t2}
 Lives = {1, 2, 3}
 Manifest = {m1, m2}
 Leftovers = {old}
 CacheBudget = 2
 NoLive = NoLive
 MaxRuns = 2
INVARIANTS
 CleanIsStored SessionsFollowWork
  
PROPERTY
 UnsavedIsKept
CHECK_DEADLOCK FALSE
