--------------------------- MODULE ClientLibrary ---------------------------
(***************************************************************************)
(* The library of the web client, for one signed-in account: the store of  *)
(* generations, the poller that follows the pending ones, and the actions  *)
(* of the workspace.  Every request has three steps: it is sent, the       *)
(* server serves it, and its answer arrives or is lost, so that answers    *)
(* come in any order and a served request may look like a failed one.      *)
(*                                                                         *)
(* The list is a function from rows to the status shown; its order and the *)
(* data of a row are left out.  Rows are numbered as the server makes them.*)
(***************************************************************************)
EXTENDS Naturals, FiniteSets, FiniteSetsExt

CONSTANTS
    Prompts,     \* requests the customer may compose
    Rows,        \* 1..n
    Held,        \* the rows the account has when the page opens
    PageSize,
    MaxCalls,    \* requests in flight
    MaxKeys,     \* idempotency keys drawn
    MaxLoads     \* openings of the workspace page

ConstantsFit == Rows \subseteq Nat

VARIABLES
    server,      \* generations: the status of each row, or Absent
    keyed,       \* the idempotency key each row was reserved under
    shown,       \* GenerationStore.items
    cursor,      \* the oldest row paged in; 0 when there is no more
    pageEpoch, loadingMore,
    submissionKeys,  \* fingerprint -> the key its retries reuse, or NoKey
    inflight,    \* fingerprints being sent
    nextKey,
    drawn,       \* <<fingerprint, key>>: what each key was drawn for
    busy,        \* busyIds
    timer,       \* the poller's timer is set
    ticking,     \* a tick waits for its answer
    calls,       \* requests under way
    refreshing,  \* the page waits for its first loads
    mine,        \* rows a submission listed, and only the poller wrote since
    accepted     \* submissions answered, per fingerprint

libraryVars == <<server, keyed, shown, cursor, pageEpoch, loadingMore, submissionKeys, inflight,
                 nextKey, drawn, busy, timer, ticking, calls, refreshing, mine, accepted>>

Absent == "absent"
NoKey == 0
Unread == [r \in {} |-> Absent]

(* The fingerprint of a request; an upscale is one of its row.             *)
Fingerprints == Prompts \cup {<<"upscale", r>> : r \in Rows}

Init ==
    /\ server \in [Rows -> {Absent, "pending", "done"}]
    /\ \A r \in Rows : server[r] # Absent <=> r \in Held
    /\ keyed = [r \in Rows |-> NoKey]
    /\ shown = [r \in Rows |-> Absent]
    /\ cursor = 0 /\ pageEpoch = 0 /\ loadingMore = FALSE
    /\ submissionKeys = [f \in Fingerprints |-> NoKey]
    /\ inflight = {} /\ nextKey = 1 /\ drawn = {} /\ busy = {}
    /\ timer = FALSE /\ ticking = FALSE /\ calls = {} /\ refreshing = FALSE
    /\ mine = {} /\ accepted = [f \in Fingerprints |-> 0]

----------------------------------------------------------------------------
(* The server.                                                             *)

Present == {r \in Rows : server[r] # Absent}

(* GET /generations: the newest rows below the cursor.                     *)
Page(below) ==
    {r \in Present : r < below /\ Cardinality({q \in Present : r < q /\ q < below}) < PageSize}

Read(rows) == [r \in rows |-> server[r]]

nextCursor(read) ==
    IF DOMAIN read # {} /\ \E r \in Present : r < Min(DOMAIN read) THEN Min(DOMAIN read) ELSE 0

(* fn_reserve_generation: a repeat under a key reserves nothing.  It is    *)
(* answered with the key's row, or with none once that was deleted.        *)
Reserved(key) == {r \in Rows : keyed[r] = key}

Free == {r \in Rows : server[r] = Absent /\ keyed[r] = NoKey /\ r \notin Held}

----------------------------------------------------------------------------
(* Requests.                                                               *)

Call(kind) == [kind |-> kind, row |-> 0, key |-> NoKey, prints |-> {}, epoch |-> 0,
               busy |-> {}, ids |-> {}, served |-> FALSE, read |-> Unread]

MayCall == Cardinality(calls) < MaxCalls

Send(call) == MayCall /\ calls' = calls \cup {call}

pollerVars == <<timer, ticking>>
submitVars == <<submissionKeys, inflight, nextKey, drawn, accepted, mine>>
listVars == <<shown, cursor, pageEpoch, loadingMore>>
serverVars == <<server, keyed>>

pendingIds == {r \in Rows : shown[r] = "pending"}

(* JobPoller.watch                                                         *)
watch == timer' = TRUE

(* WorkspacePage opens: it loads the library, then watches.                *)
refresh ==
    /\ ~refreshing /\ pageEpoch < MaxLoads
    /\ Send([Call("load") EXCEPT !.epoch = pageEpoch + 1])
    /\ pageEpoch' = pageEpoch + 1
    /\ refreshing' = TRUE
    /\ UNCHANGED <<serverVars, shown, cursor, loadingMore, submitVars, busy, pollerVars>>

loadMore ==
    /\ cursor # 0 /\ ~loadingMore
    /\ Send([Call("more") EXCEPT !.epoch = pageEpoch, !.row = cursor])
    /\ loadingMore' = TRUE
    /\ UNCHANGED <<serverVars, shown, cursor, pageEpoch, submitVars, busy, pollerVars,
                   refreshing>>

(* A grid row has only a thumbnail: opening it fetches the rest.           *)
fetchById ==
    /\ \E r \in Rows :
        /\ shown[r] # Absent
        /\ Send([Call("fetch") EXCEPT !.row = r])
    /\ UNCHANGED <<serverVars, listVars, submitVars, busy, pollerVars, refreshing>>

(* A key drawn for every attempt.                                          *)
KeyPerAttempt(f) == IF f \in inflight THEN submissionKeys[f] ELSE nextKey

(* The key belongs to the request: an attempt that failed keeps it.        *)
keyFor(f) == IF submissionKeys[f] # NoKey THEN submissionKeys[f] ELSE nextKey

(* A second press joins the request that is under way.                     *)
Submit(f, row) ==
    /\ f \notin inflight
    /\ keyFor(f) <= MaxKeys
    /\ Send([Call("create") EXCEPT !.key = keyFor(f), !.prints = {f}, !.busy = row])
    /\ submissionKeys' = [submissionKeys EXCEPT ![f] = keyFor(f)]
    /\ nextKey' = IF keyFor(f) = nextKey THEN nextKey + 1 ELSE nextKey
    /\ drawn' = drawn \cup {<<f, keyFor(f)>>}
    /\ inflight' = inflight \cup {f}

create ==
    /\ \E f \in Prompts : Submit(f, {})
    /\ UNCHANGED <<serverVars, listVars, accepted, mine, busy, pollerVars, refreshing>>

withBusy(r) == r \notin busy /\ busy' = busy \cup {r}

upscale ==
    /\ \E r \in Rows : shown[r] = "done" /\ withBusy(r) /\ Submit(<<"upscale", r>>, {r})
    /\ UNCHANGED <<serverVars, listVars, accepted, mine, pollerVars, refreshing>>

(* A retry or a variation draws a key of its own each time.                *)
rerun ==
    /\ nextKey <= MaxKeys
    /\ \E r \in Rows :
        /\ shown[r] \in {"done", "failed"} /\ withBusy(r)
        /\ Send([Call("rerun") EXCEPT !.row = r, !.key = nextKey, !.busy = {r}])
    /\ nextKey' = nextKey + 1
    /\ UNCHANGED <<serverVars, listVars, submissionKeys, inflight, drawn, accepted, mine, pollerVars,
                   refreshing>>

remove ==
    /\ \E r \in Rows :
        /\ shown[r] \in {"done", "failed"} /\ withBusy(r)
        /\ Send([Call("remove") EXCEPT !.row = r, !.busy = {r}])
    /\ UNCHANGED <<serverVars, listVars, submitVars, pollerVars, refreshing>>

(* The list does not wait for a cancellation: the row stays pending until  *)
(* the poller reports what came of it, which may be that the render won.   *)
cancel ==
    /\ \E r \in pendingIds :
        /\ server[r] = "pending"
        /\ server' = [server EXCEPT ![r] = "failed"]
    /\ UNCHANGED <<keyed, listVars, submitVars, busy, pollerVars, calls, refreshing>>

----------------------------------------------------------------------------
(* The server serves a request, or settles a job.                          *)

Answering(c, read) == calls' = (calls \ {c}) \cup {[c EXCEPT !.served = TRUE, !.read = read]}

ServeRead(c) ==
    /\ Answering(c, Read(CASE c.kind = "load" -> Page(Max(Rows) + 1)
                           [] c.kind = "more" -> Page(c.row)
                           [] c.kind = "fetch" -> {c.row} \cap Present
                           [] c.kind = "jobs" -> c.ids \cap Present))
    /\ UNCHANGED serverVars

ServeSubmission(c) ==
    \/ /\ Reserved(c.key) # {}
       /\ Answering(c, Read(Reserved(c.key) \cap Present))
       /\ UNCHANGED serverVars
    \/ /\ Reserved(c.key) = {} /\ Free # {}
       /\ LET r == Min(Free)
          IN  /\ server' = [server EXCEPT ![r] = "pending"]
              /\ keyed' = [keyed EXCEPT ![r] = c.key]
              /\ Answering(c, [q \in {r} |-> "pending"])

ServeRemove(c) ==
    /\ server' = [server EXCEPT ![c.row] = Absent]
    /\ Answering(c, Unread)
    /\ UNCHANGED keyed

Serve ==
    /\ \E c \in calls :
        /\ ~c.served
        /\ \/ c.kind \in {"load", "more", "fetch", "jobs"} /\ ServeRead(c)
           \/ c.kind \in {"create", "rerun"} /\ ServeSubmission(c)
           \/ c.kind = "remove" /\ ServeRemove(c)
    /\ UNCHANGED <<listVars, submitVars, busy, pollerVars, refreshing>>

Settle ==
    /\ \E r \in Rows, end \in {"done", "failed"} :
        /\ server[r] = "pending"
        /\ server' = [server EXCEPT ![r] = end]
    /\ UNCHANGED <<keyed, listVars, submitVars, busy, pollerVars, calls, refreshing>>

----------------------------------------------------------------------------
(* Answers.                                                                *)

With(rows, read) == [r \in Rows |-> IF r \in rows THEN read[r] ELSE shown[r]]

Done(c) == calls' = calls \ {c} /\ busy' = busy \ c.busy

loaded(c) == DOMAIN c.read

(* A refresh that a newer one overtook changes nothing.  Whatever came of  *)
(* the loads, the page watches then.                                       *)
LoadAnswered(c) ==
    /\ IF c.epoch = pageEpoch
       THEN /\ shown' = [r \in Rows |-> IF r \in loaded(c) THEN c.read[r] ELSE Absent]
            /\ cursor' = nextCursor(c.read)
            /\ mine' = {}
       ELSE UNCHANGED <<shown, cursor, mine>>
    /\ refreshing' = FALSE
    /\ watch
    /\ UNCHANGED <<pageEpoch, loadingMore, submissionKeys, inflight, nextKey, drawn, accepted,
                   ticking>>

MoreAnswered(c) ==
    /\ IF c.epoch = pageEpoch
       THEN /\ shown' = With({r \in loaded(c) : shown[r] = Absent}, c.read)
            /\ cursor' = nextCursor(c.read)
       ELSE UNCHANGED <<shown, cursor>>
    /\ loadingMore' = FALSE
    /\ UNCHANGED <<pageEpoch, submitVars, pollerVars, refreshing>>

(* replaceOrAppend                                                         *)
FetchAnswered(c) ==
    /\ shown' = With(loaded(c), c.read)
    /\ mine' = mine \ loaded(c)
    /\ UNCHANGED <<cursor, pageEpoch, loadingMore, submissionKeys, inflight, nextKey, drawn,
                   accepted, pollerVars, refreshing>>

(* Accepted: the key has done its job, and the page watches.               *)
CreateAnswered(c) ==
    /\ shown' = With(loaded(c), c.read)
    /\ submissionKeys' = [f \in Fingerprints |-> IF f \in c.prints THEN NoKey ELSE submissionKeys[f]]
    /\ inflight' = inflight \ c.prints
    /\ accepted' = [f \in Fingerprints |-> IF f \in c.prints THEN accepted[f] + 1 ELSE accepted[f]]
    /\ mine' = mine \cup loaded(c)
    /\ watch
    /\ UNCHANGED <<nextKey, drawn, cursor, pageEpoch, loadingMore, ticking, refreshing>>

RerunAnswered(c) ==
    /\ shown' = With(loaded(c), c.read)
    /\ mine' = mine \cup loaded(c)
    /\ watch
    /\ UNCHANGED <<submissionKeys, inflight, nextKey, drawn, accepted, cursor, pageEpoch, loadingMore,
                   ticking, refreshing>>

RemoveAnswered(c) ==
    /\ shown' = [shown EXCEPT ![c.row] = Absent]
    /\ mine' = mine \ {c.row}
    /\ UNCHANGED <<cursor, pageEpoch, loadingMore, submissionKeys, inflight, nextKey, drawn,
                   accepted, pollerVars, refreshing>>

(* A poller that stops after its tick.                                     *)
StopAfterTick(list) == timer' = FALSE

(* The tick's end sets the timer again while rows are pending.             *)
reschedule(list) == timer' = (\E r \in Rows : list[r] = "pending")

(* applyJobUpdates changes the rows still listed.                          *)
JobsAnswered(c) ==
    /\ shown' = With({r \in loaded(c) : shown[r] # Absent}, c.read)
    /\ ticking' = FALSE
    /\ reschedule(shown')
    /\ UNCHANGED <<cursor, pageEpoch, loadingMore, submitVars, refreshing>>

Answer ==
    /\ \E c \in calls :
        /\ c.served /\ Done(c)
        /\ \/ c.kind = "load" /\ LoadAnswered(c)
           \/ c.kind = "more" /\ MoreAnswered(c)
           \/ c.kind = "fetch" /\ FetchAnswered(c)
           \/ c.kind = "create" /\ CreateAnswered(c)
           \/ c.kind = "rerun" /\ RerunAnswered(c)
           \/ c.kind = "remove" /\ RemoveAnswered(c)
           \/ c.kind = "jobs" /\ JobsAnswered(c)
    /\ UNCHANGED serverVars

(* No answer in time, or a refusal: the caller is told, and that is all.   *)
Fail ==
    /\ \E c \in calls :
        /\ Done(c)
        /\ inflight' = inflight \ c.prints
        /\ loadingMore' = (loadingMore /\ c.kind # "more")
        /\ refreshing' = (refreshing /\ c.kind # "load")
        /\ ticking' = (ticking /\ c.kind # "jobs")
        /\ IF c.kind = "load" THEN watch
           ELSE IF c.kind = "jobs" THEN reschedule(shown) ELSE UNCHANGED timer
    /\ UNCHANGED <<serverVars, shown, cursor, pageEpoch, submissionKeys, nextKey, drawn,
                   accepted, mine>>

----------------------------------------------------------------------------
(* The poller.                                                             *)

(* The timer fires; while its tick is under way it still counts as set.    *)
tick ==
    /\ timer /\ ~ticking
    /\ IF pendingIds = {}
       THEN timer' = FALSE /\ UNCHANGED <<ticking, calls>>
       ELSE /\ Send([Call("jobs") EXCEPT !.ids = pendingIds])
            /\ ticking' = TRUE
            /\ UNCHANGED timer
    /\ UNCHANGED <<serverVars, listVars, submitVars, busy, refreshing>>

Next ==
    \/ refresh \/ loadMore \/ fetchById
    \/ create \/ upscale \/ rerun \/ remove \/ cancel
    \/ Serve \/ Settle \/ Answer \/ Fail
    \/ tick

Spec == Init /\ [][Next]_libraryVars

----------------------------------------------------------------------------
ReservedFor(f) == {k \in 1..MaxKeys : Reserved(k) # {} /\ <<f, k>> \in drawn}

(* One press is charged once: the rows reserved for a request are at most  *)
(* one more than the submissions of it that were answered, however often   *)
(* it was pressed again after an answer was lost.                          *)
OneChargePerAnswer == \A f \in Fingerprints : Cardinality(ReservedFor(f)) <= accepted[f] + 1

(* A row a submission put in the list is polled for as long as it is       *)
(* pending there, however ticks, submissions and failures fall.  (A row    *)
(* that a load or a fetch wrote may not be: see SettledStays.)             *)
PendingIsPolled == \A r \in mine : shown[r] = "pending" => timer

(* A row that has settled is never pending again.                          *)
SettledStays ==
    [][\A r \in Rows : shown[r] \in {"done", "failed"} => shown'[r] # "pending"]_libraryVars
=============================================================================
