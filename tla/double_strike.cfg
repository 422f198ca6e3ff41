SPECIFICATION Spec
CONSTANTS
 k1=k1 k2=k2 k3=k3 NoKey=NoKey
 Handlers={h1,h2}
 Keys={k1,k2,k3}
 RetryKeys={k3}
 Menus<-FoulMenu
 Things<-MCThings
 Fickle<-MCFickle Flagged<-MCFlagged
 Library<-MCLibrary
 PlanGrant=3 PackGrant=4 MaxPendingVideos=1
 MaxRequests=3 MaxGens=4 MaxUpsets=0
INVARIANT StrikesOncePerRequest
CHECK_DEADLOCK FALSE
