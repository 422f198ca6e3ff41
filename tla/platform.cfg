SPECIFICATION Spec
CONSTANTS
 k1 = k1
 k2 = k2
 k3 = k3
 NoKey = NoKey
 TrendRatios = {"1:1", "3:4"}
 MaxBatch = 2
 MaxDurations = 2
 Submitters = {h1, h2}
 Keys = {k1, k2, k3}
 RetryKeys = {k3}
 PlanGrant = 3
 PackGrant = 4
 MaxPendingVideos = 1
 MaxRequests = 3
 MaxGens = 4
 MaxUpsets = 1
 Handlers = {h1}
 Workers = {w1}
 Rows = {g1}
 Uploads = {u1, u2}
 Earlier = {u2}
 Personas = {p1}
 Slots = {s1, s2}
 Limit = 2
 PersonaCap = 1
 MaxFaults = 1
 Users = {u1}
 Clients = {c1}
 AuthRequests = {1, 2}
 Grants = {1, 2}
 Codes = {1, 2}
 Tokens = {1, 2, 3, 4}
 Verifiers = {v1, v2}
 MaxRecent = 1
 Nobody = Nobody
 Messages = {1, 2}
 Devices = {x, y}
 Drainers = {d1, d2}
 Lease = 2
 LeaseBudget = 0
 GiveUpAfter = 2
INVARIANTS
 ListedIsKept 
 OncePerKey BucketsBalance NothingUnmoderated RetryRepeatsRequest
  GoneMeansGone
 GrantIsSound
 SentMeansDelivered
CHECK_DEADLOCK FALSE
