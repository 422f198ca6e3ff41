---------------------------- MODULE ProviderCalls ----------------------------
(***************************************************************************)
(* One run's way to its provider (_shared/jobs/payload.ts, and the         *)
(* adapters of _shared/providers): the inputs the stored payload names are *)
(* looked up again and signed, one after another, the adapter reads the    *)
(* ones it carries itself, sends the request, and from then on asks after  *)
(* it or asks to stop it.  Meanwhile the customer deletes inputs and the   *)
(* provider works.                                                         *)
(*                                                                         *)
(* JobDispatch takes the outcomes this module finds as given, and adds     *)
(* leases, crashes and other workers.  Left out: the prompt, the settings, *)
(* and how a request is spelled.                                           *)
(***************************************************************************)
EXTENDS Naturals, Sequences, FiniteSets, SequencesExt

CONSTANTS
    MaxInlineSubmits,
    OddAnswers   \* of "no_queue_urls", "poll_denied" and "stop_ignored",
                 \* those the providers give

VARIABLES
    request,   \* the adapter, and the inputs the stored payload names
    asset,     \* what the customer has made of each input
    step,
    ctx,       \* the inputs resolved
    body,      \* the inputs the request carries
    attempts,  \* submit_attempts
    job,       \* the provider's side of it
    renders,   \* how often the provider rendered
    wanted,    \* cancel_requested_at is set
    verdict    \* what dispatch makes of it

callVars == <<request, asset, step, ctx, body, attempts, job, renders, wanted, verdict>>

(* What the families of an adapter may be asked, the inputs in the order   *)
(* resolvePayload looks them up.  "parent" and "clip" are the media of an  *)
(* earlier generation, the others uploads.                                 *)
Requests ==
    [adapter : {"openai"}, inputs : {<<>>, <<"upload">>, <<"parent">>, <<"parent", "mask">>}]
    \union [adapter : {"google"}, inputs : {<<>>, <<"upload">>, <<"front", "left">>}]
    \union [adapter : {"fal"}, inputs : {<<>>, <<"parent">>, <<"parent", "mask">>, <<"first", "last">>}]
    \union [adapter : {"runway"}, inputs : {<<>>, <<"first">>}]
    \union [adapter : {"veo"}, inputs : {<<>>, <<"first", "last">>, <<"clip">>}]
    \union [adapter : {"omni"}, inputs : {<<>>, <<"first">>, <<"clip">>}]

Named == ToSet(request.inputs)
Parents == {"parent", "clip"}
Photos == {"front", "left"}

answersInline == request.adapter \in {"openai", "google"}

Init ==
    /\ request \in Requests
    /\ asset = [i \in Named |-> "ready"]
    /\ step = "resolve" /\ ctx = <<>> /\ body = <<>> /\ attempts = 0
    /\ job = "none" /\ renders = 0 /\ wanted = FALSE /\ verdict = "open"

(* A deleted input loses its row at once - a generation whose own job is   *)
(* not over keeps it for a while, only marked - and its bytes later.       *)
Delete(i) ==
    /\ \/ asset[i] = "ready" /\ i \in Parents /\ asset' = [asset EXCEPT ![i] = "marked"]
       \/ asset[i] \in {"ready", "marked"} /\ asset' = [asset EXCEPT ![i] = "rowless"]
       \/ asset[i] = "rowless" /\ asset' = [asset EXCEPT ![i] = "gone"]
    /\ UNCHANGED <<request, step, ctx, body, attempts, job, renders, wanted, verdict>>

Settle(outcome) == step' = "over" /\ verdict' = outcome

RetryableStatuses == {429, 503}

(* For a mutant: busy taken for an answer.                                 *)
BusyIsTerminal(status) == IF status \in 400 .. 499 THEN "terminal" ELSE "retryable"

classifyStatus(status) ==
    IF status \in RetryableStatuses \/ status \notin 400 .. 499 THEN "retryable" ELSE "terminal"

(* 0 stands for an error without a status: the transport's, or a plain     *)
(* message of an adapter.  Only the answer's text tells a 429 "slow down"  *)
(* from an account without money.                                          *)
classifyProviderError(status, broke) ==
    IF broke THEN "terminal" ELSE IF status = 0 THEN "retryable" ELSE classifyStatus(status)

answered(status, byProvider) == byProvider /\ status # 0

(* The catch of submitJob.  byProvider: the status is the provider's own,  *)
(* not that of an input's link.                                            *)
afterFailedSubmit(status, broke, byProvider) ==
    LET again == answersInline /\ answered(status, byProvider) /\ attempts + 1 < MaxInlineSubmits IN
    \/ /\ classifyProviderError(status, broke) = "terminal"
       /\ Settle("refunded") /\ UNCHANGED <<ctx, body, attempts>>
    \/ /\ classifyProviderError(status, broke) # "terminal"
       /\ IF again THEN /\ step' = "resolve" /\ attempts' = attempts + 1
                        /\ ctx' = <<>> /\ body' = <<>> /\ UNCHANGED verdict
          ELSE /\ Settle(IF answersInline THEN "refunded" ELSE "held")
               /\ UNCHANGED <<ctx, body, attempts>>

(* Whether the row says the input may be used: ownedGeneration does not    *)
(* ask whether the customer deleted the generation.                        *)
Usable(i) == asset[i] \in {"ready", "marked"}

(* One input looked up and signed.  Whatever goes wrong, nothing was sent. *)
resolvePayload ==
    /\ step = "resolve"
    /\ IF Len(ctx) = Len(request.inputs) THEN step' = "build" /\ UNCHANGED <<ctx, verdict>>
       ELSE LET i == request.inputs[Len(ctx) + 1] IN
            \/ Usable(i) /\ ctx' = Append(ctx, i) /\ UNCHANGED <<step, verdict>>
            \/ Settle("refunded") /\ UNCHANGED ctx
    /\ UNCHANGED <<request, asset, body, attempts, job, renders, wanted>>

(* The inputs an adapter reads itself; the others go as links, or, the     *)
(* mask, as the bytes resolvePayload read.                                 *)
Carried(i) == request.adapter = "veo" \/ (answersInline /\ i # "mask")

(* The read of one input failed, with that status.                         *)
unread(i, status) ==
    \/ /\ request.adapter = "google" /\ i \notin Photos
       /\ body' = Append(body, "dropped") /\ UNCHANGED <<step, ctx, attempts, verdict>>
    \/ /\ request.adapter = "google" /\ i \in Photos
       /\ Settle("refunded") /\ UNCHANGED <<ctx, body, attempts>>
    \/ request.adapter # "google" /\ afterFailedSubmit(status, FALSE, FALSE)

build ==
    /\ step = "build"
    /\ IF Len(body) = Len(ctx) THEN step' = "send" /\ UNCHANGED <<ctx, body, attempts, verdict>>
       ELSE LET i == ctx[Len(body) + 1] IN
            \/ /\ Carried(i) => asset[i] # "gone"
               /\ body' = Append(body, i) /\ UNCHANGED <<step, ctx, attempts, verdict>>
            \/ Carried(i) /\ asset[i] = "gone" /\ unread(i, 404)
            \/ Carried(i) /\ \E status \in {0, 503} : unread(i, status)
    /\ UNCHANGED <<request, asset, job, renders, wanted>>

(* submit of an adapter that holds the connection: the image comes back on *)
(* it, or an answer without one, or nothing does.                          *)
submitInline ==
    /\ step = "send" /\ answersInline
    /\ \/ /\ job' = "rendered" /\ renders' = renders + 1
          /\ Settle("stored") /\ UNCHANGED <<ctx, body, attempts>>
       \/ /\ job' = "blocked" /\ UNCHANGED renders
          /\ Settle("refunded") /\ UNCHANGED <<ctx, body, attempts>>
       \/ \E status \in {400, 429, 503}, broke \in BOOLEAN :
            /\ afterFailedSubmit(status, broke, TRUE) /\ UNCHANGED <<job, renders>>
       \/ /\ afterFailedSubmit(0, FALSE, TRUE)
          /\ \/ UNCHANGED <<job, renders>>
             \/ job' = "rendered" /\ renders' = renders + 1
    /\ UNCHANGED <<request, asset, wanted>>

(* Where an accepted request goes on.  An answer that names nothing is an  *)
(* error to all adapters but fal's, which stores what it got.              *)
Accepted ==
    {"waiting"} \union (IF request.adapter = "fal" /\ "no_queue_urls" \in OddAnswers
                        THEN {"unnamed"} ELSE {})

(* submit of the others: the provider takes the request and names it.      *)
submitQueued ==
    /\ step = "send" /\ ~answersInline
    /\ \/ job' = "queued" /\ step' \in Accepted /\ UNCHANGED <<ctx, body, attempts, verdict>>
       \/ job' = "queued" /\ afterFailedSubmit(0, FALSE, TRUE)
       \/ \E status \in {400, 429, 503}, broke \in BOOLEAN :
            afterFailedSubmit(status, broke, TRUE) /\ UNCHANGED job
       \/ afterFailedSubmit(0, FALSE, TRUE) /\ UNCHANGED job
    /\ UNCHANGED <<request, asset, renders, wanted>>

(* The provider's queue.                                                   *)
Work ==
    /\ \/ job = "queued" /\ job' = "rendering" /\ UNCHANGED renders
       \/ job = "rendering" /\ job' = "rendered" /\ renders' = renders + 1
       \/ job = "rendering" /\ job' \in {"blocked", "failed"} /\ UNCHANGED renders
    /\ UNCHANGED <<request, asset, step, ctx, body, attempts, wanted, verdict>>

Cancel ==
    /\ verdict = "open" /\ ~wanted /\ wanted' = TRUE
    /\ UNCHANGED <<request, asset, step, ctx, body, attempts, job, renders, verdict>>

(* pollJob: a wanted stop is tried first.                                  *)
pollJob ==
    /\ step = "waiting"
    /\ step' = CASE wanted /\ request.adapter = "fal" -> "asking"
                 [] wanted /\ request.adapter = "runway" -> "stopping"
                 [] OTHER -> "checking"
    /\ UNCHANGED <<request, asset, ctx, body, attempts, job, renders, wanted, verdict>>

(* fal is asked first whether the request still queues; an answer that     *)
(* fails, or any other state, leaves it to the check.                      *)
askFirst ==
    /\ step = "asking"
    /\ \/ step' = IF job = "queued" THEN "stopping" ELSE "checking"
       \/ step' = "checking"
    /\ UNCHANGED <<request, asset, ctx, body, attempts, job, renders, wanted, verdict>>

(* What each provider can still stop, and what it says it stopped.         *)
Stoppable == {"queued"} \union (IF request.adapter = "runway" THEN {"rendering"} ELSE {})
Confirmed == Stoppable \union (IF "stop_ignored" \in OddAnswers THEN {"rendering"} ELSE {})
AfterStop == IF job \in Stoppable THEN "stopped" ELSE job

(* An answer that says it stopped earns the refund.  Without an answer the *)
(* provider may have stopped all the same.                                 *)
cancel ==
    /\ step = "stopping"
    /\ \/ job \in Confirmed /\ job' = AfterStop /\ Settle("refunded")
       \/ job' \in {job, AfterStop} /\ step' = "checking" /\ UNCHANGED verdict
    /\ UNCHANGED <<request, asset, ctx, body, attempts, renders, wanted>>

PollStatuses == RetryableStatuses \union (IF "poll_denied" \in OddAnswers THEN {403} ELSE {})

(* The rule shared by falHttpFailure, runwayHttpFailure and, through what  *)
(* Veo and Omni throw, afterFailedPoll.                                    *)
httpFailure(status) ==
    IF classifyStatus(status) = "terminal" THEN Settle("refunded")
    ELSE step' = "waiting" /\ UNCHANGED verdict

(* check: still at it, done - with media, or, refunded, without - or over. *)
(* A reference without the queue's URLs cannot be asked after.             *)
check ==
    /\ step \in {"checking", "unnamed"}
    /\ \/ step = "checking" /\ job \in {"queued", "rendering"} /\ step' = "waiting" /\ UNCHANGED verdict
       \/ step = "checking" /\ \E status \in PollStatuses : httpFailure(status)
       \/ job = "rendered" /\ \E outcome \in {"stored", "refunded"} : Settle(outcome)
       \/ /\ job \in {"blocked", "failed", "stopped"} \/ step = "unnamed"
          /\ Settle("refunded")
    /\ UNCHANGED <<request, asset, ctx, body, attempts, job, renders, wanted>>

Next ==
    \/ \E i \in Named : Delete(i)
    \/ resolvePayload \/ build \/ submitInline \/ submitQueued \/ Work \/ Cancel
    \/ pollJob \/ askFirst \/ cancel \/ check

Spec == Init /\ [][Next]_callVars

-----------------------------------------------------------------------------
(* What a provider worked on is what the payload names: an input deleted   *)
(* while the job queued, or unreadable when the adapter came to it, stops  *)
(* the run before the call.  A plain reference Google's adapter cannot     *)
(* read is left out instead, and the run goes on without it.               *)
InputsAreSent ==
    job # "none" =>
        \A n \in DOMAIN request.inputs :
            \/ body[n] = request.inputs[n]
            \/ request.adapter = "google" /\ request.inputs[n] \notin Photos

(* No refund while the provider's queue still holds the work: it would be  *)
(* billed to us, and its result would come for a generation given up.      *)
RefundIsFinal ==
    verdict = "refunded" => job \notin {"queued", "rendering"}

(* A request sent again is one the provider answered without rendering.    *)
OneRender == renders <= 1

(* The three of them: what a caller of the adapters takes for granted.     *)
ProviderIsHeard == InputsAreSent /\ RefundIsFinal /\ OneRender
=============================================================================
