----------------------------- MODULE Submission -----------------------------
(***************************************************************************)
(* POST /generations, /generations/:id/retry and /:id/variation: from a    *)
(* request to a charged, pending generation with its job                   *)
(* (api/services/submit-generation.ts, submission-replay.ts,               *)
(* video-prep.ts, retry.ts, replay.ts, masks.ts, moderation-gate.ts,       *)
(* fn_reserve_generation and fn_charge_and_generate).                      *)
(*                                                                         *)
(* One customer.  A handler is one request being served by an isolate; a   *)
(* step is one call that leaves it, with the code up to the next call, so  *)
(* two requests, twins under one key included, interleave between calls.   *)
(* The database transaction that reserves is one step under the            *)
(* customer's money lock.                                                  *)
(*                                                                         *)
(* A body is reduced to what the route tells apart; its hash is the body   *)
(* itself.  The classifier's verdict is a property of the prompt or upload *)
(* it reads, except that it may be unavailable.  Amounts are small         *)
(* numbers.  Left out: the owner plan, which is never short of credits,    *)
(* and signed URLs.  The pack bought and the cycle granted meanwhile are   *)
(* BillingFulfillment.                                                     *)
(***************************************************************************)
EXTENDS Integers, Sequences, FiniteSets, SequencesExt, FiniteSetsExt, TLC

CONSTANTS
    Handlers,        \* requests served at once
    Keys,            \* idempotency keys the client uses
    NoKey,           \* a request without a usable key
    Menus,           \* sets of [key, body]: what the client sends, again and again
    RetryKeys,       \* the keys it sends with a retry or a variation
    Things,          \* uploads, masks and personas of the customer
    Fickle,          \* models, uploads and kinds of generation that may go
    Flagged,         \* prompts and uploads the classifier blocks
    Library,         \* the generations there are at the start
    PlanGrant, PackGrant,
    MaxPendingVideos,
    MaxRequests,     \* requests the client makes
    MaxGens,         \* generations the account may have when it asks for another take
    MaxUpsets        \* failed calls, isolates that die, and changes of plan,
                     \* catalogue and uploads meanwhile

None == "none"

VARIABLES
    submissions,     \* key -> its row, the body and what came of it, once there is one
    gens,            \* the generations, in order of creation
    plan, pack,      \* the two buckets of the balance
    tier,            \* the plan the account is on
    strikes,         \* profiles.strikes
    enabled,         \* models.enabled
    live,            \* uploads, masks and personas that still exist
    run,             \* what each handler is doing
    menu,            \* the set it sends from in this behaviour
    requests, upsets,
    promptStrikes,   \* strikes per key for its prompt
    imageStrikes,    \* strikes per key for an image
    unsure           \* keys whose strike was counted, but reported as failed

vars == <<submissions, gens, plan, pack, tier, strikes, enabled, live, run,
          menu, requests, upsets, promptStrikes, imageStrikes, unsure>>

books == <<submissions, gens, plan, pack>>
account == <<tier, strikes, enabled, live>>
ghosts == <<promptStrikes, imageStrikes, unsure>>
counters == <<menu, requests, upsets>>

-----------------------------------------------------------------------------
(* The models, by what the route asks of them.                             *)

Images == {"nano-banana", "flux"}
Videos == {"veo", "kling"}
Tools == {"edit-fill", "edit-bg"}
Models == Images \cup Videos \cup Tools \cup {"upscaler", "persona"}

imageInput(family) == family # "flux"
needsMask(tool) == tool = "edit-fill"
KindOf(family) == IF family \in Videos THEN "video" ELSE "image"
minPlan(family) == IF family \in Videos THEN "pro" ELSE "studio"
Entitled(onTier, family) == ~(minPlan(family) = "pro" /\ onTier = "studio")
Price(family, hasReference) ==
    IF family \in Videos THEN 2
    ELSE IF family = "nano-banana" /\ hasReference THEN 2 ELSE 1

referenceRule ==
    [t2v |-> [counts |-> {0}, needsParent |-> FALSE],
     i2v |-> [counts |-> {1}, needsParent |-> FALSE],
     ref2v |-> [counts |-> 1..3, needsParent |-> FALSE],
     keyframes |-> [counts |-> {2}, needsParent |-> FALSE],
     extend |-> [counts |-> {0}, needsParent |-> TRUE],
     edit |-> [counts |-> {0}, needsParent |-> TRUE]]

supports(family) ==
    IF family = "veo" THEN {"t2v", "i2v", "ref2v", "keyframes", "extend"}
    ELSE {"t2v", "i2v", "keyframes"}

(* The model a request is gated on, charged as and stored under.           *)
FamilyOf(body) ==
    CASE body.op = "upscale" -> "upscaler"
      [] body.persona # None -> "persona"
      [] OTHER -> body.family

ModeOf(body) == IF body.mode = None THEN "t2v" ELSE body.mode
IsVideo(body) == KindOf(FamilyOf(body)) = "video"

-----------------------------------------------------------------------------
(* The snapshot of a request, and the request rebuilt from it.             *)

(* A persona run renders on Nano Banana and is recorded as that.           *)
captureSnapshot(body, mask) ==
    [op |-> body.op,
     family |-> IF body.persona # None /\ body.op # "upscale"
                  THEN "nano-banana" ELSE FamilyOf(body),
     prompt |-> body.prompt,
     uploads |-> IF IsVideo(body) THEN body.refs
                 ELSE IF body.ref # None THEN <<body.ref>> ELSE <<>>,
     mask |-> mask,
     persona |-> body.persona,
     mode |-> IF IsVideo(body) THEN ModeOf(body) ELSE None,
     parent |-> body.parent]

RequestOf(snapshot, uploads) ==
    [op |-> snapshot.op, family |-> snapshot.family, prompt |-> snapshot.prompt,
     batch |-> 1, mode |-> snapshot.mode,
     refs |-> IF snapshot.mode # None THEN uploads ELSE <<>>,
     ref |-> IF snapshot.mode = None /\ uploads # <<>> THEN uploads[1] ELSE None,
     mask |-> snapshot.mask, persona |-> snapshot.persona,
     parent |-> snapshot.parent]

(* Mutant of bodyOf: the references come back in another order.            *)
ReversedBody(snapshot) == RequestOf(snapshot, Reverse(snapshot.uploads))

bodyOf(snapshot) == RequestOf(snapshot, snapshot.uploads)

(* What a retry is decided from.  A persona run is gated by the persona    *)
(* switch, not by that of the model it renders on.                         *)
retryContextOf(snapshot) ==
    LET gate == IF snapshot.persona # None THEN "persona" ELSE snapshot.family
    IN  [familyEnabled |-> gate \in enabled,
         entitled |-> Entitled(tier, gate),
         personaUnavailable |-> snapshot.persona \notin live \cup {None},
         liveUploads |-> (ToSet(snapshot.uploads) \cup {snapshot.mask}) \cap live]

(* precheck, with the order of its reasons left out.                       *)
precheck(snapshot, ctx) ==
    /\ ctx.familyEnabled /\ ctx.entitled /\ ~ctx.personaUnavailable
    /\ ToSet(snapshot.uploads) \cup ({snapshot.mask} \ {None}) \subseteq ctx.liveUploads

Retryable(snapshot) == precheck(snapshot, retryContextOf(snapshot))

Variable(snapshot) ==
    snapshot.op = "generate" /\ snapshot.persona = None /\ snapshot.mode = None

-----------------------------------------------------------------------------
Idle == [pc |-> "idle"]

Init ==
    /\ submissions = << >>
    /\ gens = Library
    /\ plan = PlanGrant /\ pack = PackGrant
    /\ tier = "pro" /\ strikes = 0
    /\ enabled = Models /\ live = Things
    /\ run = [h \in Handlers |-> Idle]
    /\ menu \in Menus /\ requests = 0 /\ upsets = 0
    /\ promptStrikes = [k \in Keys |-> 0]
    /\ imageStrikes = [k \in Keys |-> 0]
    /\ unsure = {}

Goto(h, pc) == run' = [run EXCEPT ![h].pc = pc]
Answer(h) == run' = [run EXCEPT ![h] = Idle]

(* The environment's budget of trouble.                                    *)
Upset == upsets < MaxUpsets /\ upsets' = upsets + 1

Body(h) == run[h].body
Keyed(h) == run[h].key # NoKey
HasRow(h) == run[h].key \in DOMAIN submissions
RowOf(h) == submissions[run[h].key]
With(h, refused) ==
    [k \in DOMAIN submissions \cup {run[h].key} |->
        IF k = run[h].key THEN [body |-> Body(h), refused |-> refused] ELSE submissions[k]]
Parents == {g \in DOMAIN gens : ~gens[g].deleted}

-----------------------------------------------------------------------------
(* A request arrives.                                                      *)

(* The checks that read nothing but the body.                              *)
Malformed(body) ==
    \/ body.prompt = None
    \/ body.batch \notin 1..4
    \/ body.op \in {"edit", "upscale"} /\ body.parent = 0

Enter(h, key, body, of) ==
    run' = [run EXCEPT ![h] =
              IF Malformed(body) THEN Idle
              ELSE [pc |-> IF key = NoKey THEN "admit" ELSE "prior",
                    key |-> key, body |-> body, of |-> of, prior |-> FALSE,
                    tier |-> None, checked |-> 0]]

Receive(h) ==
    /\ run[h].pc = "idle" /\ requests < MaxRequests
    /\ requests' = requests + 1
    /\ \E ask \in menu : Enter(h, ask.key, ask.body, 0)
    /\ UNCHANGED <<books, account, menu, upsets, ghosts>>

(* A retry is a new submission, under a key of its own.                    *)
Retry(h) ==
    /\ run[h].pc = "idle" /\ requests < MaxRequests /\ Len(gens) < MaxGens
    /\ requests' = requests + 1
    /\ \E g \in Parents, k \in RetryKeys :
         /\ gens[g].recorded
         /\ IF Retryable(gens[g].snapshot)
              THEN Enter(h, k, bodyOf(gens[g].snapshot), g)
              ELSE UNCHANGED run
    /\ UNCHANGED <<books, account, menu, upsets, ghosts>>

(* Another take hangs off the original, its new parent.                    *)
Vary(h) ==
    /\ run[h].pc = "idle" /\ requests < MaxRequests /\ Len(gens) < MaxGens
    /\ requests' = requests + 1
    /\ \E g \in Parents, k \in RetryKeys :
         /\ gens[g].recorded
         /\ IF Variable(gens[g].snapshot) /\ Retryable(gens[g].snapshot)
              THEN Enter(h, k, [bodyOf(gens[g].snapshot) EXCEPT !.parent = g], 0)
              ELSE UNCHANGED run
    /\ UNCHANGED <<books, account, menu, upsets, ghosts>>

(* The key's first outcome: another body conflicts, a refusal is repeated. *)
PriorSubmission(h) ==
    /\ run[h].pc = "prior"
    /\ IF ~HasRow(h) THEN Goto(h, "admit")
       ELSE IF RowOf(h).body # Body(h) \/ RowOf(h).refused THEN Answer(h)
       ELSE run' = [run EXCEPT ![h].pc = "admit", ![h].prior = TRUE]
    /\ UNCHANGED <<books, account, counters, ghosts>>

isSuspended == strikes >= 2

(* Suspension, then the subscription.                                      *)
Admit(h) ==
    /\ run[h].pc = "admit"
    /\ IF isSuspended \/ tier = None THEN Answer(h)
       ELSE run' = [run EXCEPT ![h].pc = "choose", ![h].tier = tier]
    /\ UNCHANGED <<books, account, counters, ghosts>>

(* What the request cannot be: personas, tools and videos each have rules. *)
Misfit(body, onTier) ==
    \/ /\ body.persona # None
       /\ \/ body.op # "generate" \/ body.parent # 0 \/ body.ref # None
          \/ body.persona \notin live
    \/ FamilyOf(body) \in Tools
       /\ (body.op # "edit" \/ (needsMask(body.family) /\ body.mask = None))
    \/ IsVideo(body)
       /\ (body.op \notin {"generate", "variation"} \/ onTier = "studio")
    \/ ~Entitled(onTier, FamilyOf(body))
    \/ FamilyOf(body) \notin Models

(* The ladder of refusals, then the kill switch and the plan floor.        *)
Choose(h) ==
    /\ run[h].pc = "choose"
    /\ IF Misfit(Body(h), run[h].tier) \/ FamilyOf(Body(h)) \notin enabled
         THEN Answer(h)
         ELSE Goto(h, IF run[h].prior THEN "video" ELSE "moderate")
    /\ UNCHANGED <<books, account, counters, ghosts>>

-----------------------------------------------------------------------------
(* Moderation of the prompt.                                               *)

(* The classifier's decision.  It fails closed: no key, no answer and an   *)
(* answer that is not understood are all "unavailable".                    *)
moderate(input) == {IF input \in Flagged THEN "blocked" ELSE "allowed", "unavailable"}

(* The classifier is unavailable: 503, and nothing was charged.            *)
ModerationFailure(h) == Answer(h) /\ Upset

Moderate(h) ==
    /\ run[h].pc = "moderate"
    /\ \E decision \in moderate(Body(h).prompt) :
         \/ decision = "allowed" /\ Goto(h, "video") /\ UNCHANGED upsets
         \/ /\ decision = "blocked"
            /\ Goto(h, IF Keyed(h) THEN "claim" ELSE "event") /\ UNCHANGED upsets
         \/ decision = "unavailable" /\ ModerationFailure(h)
    /\ UNCHANGED <<books, account, menu, requests, ghosts>>

(* The refusal is recorded under the key; the one that records it strikes. *)
ClaimRefusal(h) ==
    /\ run[h].pc = "claim"
    /\ IF HasRow(h)
         THEN Answer(h) /\ UNCHANGED submissions
         ELSE Goto(h, "event") /\ submissions' = With(h, TRUE)
    /\ UNCHANGED <<gens, plan, pack, account, counters, ghosts>>

(* The insert of the evidence; it may fail, and then nothing is counted.   *)
RecordEvent(h) ==
    /\ run[h].pc = "event"
    /\ \/ Goto(h, "strike") /\ UNCHANGED upsets
       \/ (IF Keyed(h) THEN Goto(h, "release") ELSE Answer(h)) /\ Upset
    /\ UNCHANGED <<books, account, menu, requests, ghosts>>

Counted(strikesOf, h) ==
    IF Keyed(h) THEN [strikesOf EXCEPT ![run[h].key] = @ + 1] ELSE strikesOf

(* fn_increment_strike: done, failed, or done and reported as failed.      *)
IncrementStrike(h) ==
    /\ run[h].pc = "strike"
    /\ \/ /\ Answer(h)
          /\ strikes' = strikes + 1
          /\ promptStrikes' = Counted(promptStrikes, h)
          /\ UNCHANGED <<upsets, unsure>>
       \/ /\ Upset
          /\ IF Keyed(h) THEN Goto(h, "release") ELSE Answer(h)
          /\ \/ UNCHANGED <<strikes, promptStrikes, unsure>>
             \/ /\ strikes' = strikes + 1
                /\ promptStrikes' = Counted(promptStrikes, h)
                /\ unsure' = unsure \cup {run[h].key}
    /\ UNCHANGED <<books, tier, enabled, live, menu, requests, imageStrikes>>

(* A claim whose strike failed is undone, whatever row is under the key.   *)
ReleaseRefusal(h) ==
    /\ run[h].pc = "release"
    /\ Answer(h)
    /\ \/ /\ submissions' = Restrict(submissions, DOMAIN submissions \ {run[h].key})
          /\ UNCHANGED upsets
       \/ Upset /\ UNCHANGED submissions
    /\ UNCHANGED <<gens, plan, pack, account, menu, requests, ghosts>>

-----------------------------------------------------------------------------
(* References.                                                             *)

(* A finished clip of the customer; Veo continues only its own.            *)
UsableVideo(body) ==
    /\ body.parent \in Parents
    /\ gens[body.parent].kind = "video" /\ gens[body.parent].status = "done"
    /\ body.family = "veo" => gens[body.parent].family = "veo"

(* The mode, the number of references, their owner, the parent clip.       *)
PrepareVideo(h) ==
    LET body == Body(h)
        rule == referenceRule[ModeOf(body)]
    IN
    /\ run[h].pc = "video"
    /\ IF ~IsVideo(body) THEN Goto(h, "reference")
       ELSE IF /\ ModeOf(body) \in supports(body.family)
               /\ Len(body.refs) \in rule.counts
               /\ ToSet(body.refs) \subseteq live
               /\ rule.needsParent => UsableVideo(body)
              THEN Goto(h, "look")
              ELSE Answer(h)
    /\ UNCHANGED <<books, account, counters, ghosts>>

(* Mutant of LookAtReference: the loop ends after the first reference.      *)
LookAtFirst(h) ==
    /\ run[h].pc = "look"
    /\ IF Body(h).refs # <<>> /\ Body(h).refs[1] \in Flagged
         THEN Goto(h, "image") ELSE Goto(h, "reference")
    /\ UNCHANGED <<books, account, counters, ghosts>>

(* Each reference of a video is looked at again, one after another.        *)
LookAtReference(h) ==
    LET body == Body(h)
        next == run[h].checked + 1
    IN
    /\ run[h].pc = "look"
    /\ IF next > Len(body.refs) THEN Goto(h, "reference") /\ UNCHANGED upsets
       ELSE IF body.refs[next] \notin live THEN Answer(h) /\ UNCHANGED upsets
       ELSE \E decision \in moderate(body.refs[next]) :
              \/ /\ decision = "allowed"
                 /\ run' = [run EXCEPT ![h].checked = next] /\ UNCHANGED upsets
              \/ decision = "blocked" /\ Goto(h, "image") /\ UNCHANGED upsets
              \/ decision = "unavailable" /\ ModerationFailure(h)
    /\ UNCHANGED <<books, account, menu, requests, ghosts>>

(* A blocked one strikes the account; no refusal is kept under the key.    *)
StrikeImage(h) ==
    /\ run[h].pc = "image"
    /\ Answer(h)
    /\ \/ /\ strikes' = strikes + 1
          /\ imageStrikes' = Counted(imageStrikes, h)
          /\ UNCHANGED upsets
       \/ Upset /\ UNCHANGED <<strikes, imageStrikes>>
    /\ UNCHANGED <<books, tier, enabled, live, menu, requests, promptStrikes, unsure>>

OwnedUpload(path) == path \in live

ImageParent(g) ==
    g \in Parents /\ gens[g].kind = "image" /\ gens[g].status = "done"

(* One reference at most: an image of the library that is done, or an      *)
(* upload that still exists and that the model takes.                      *)
UsableReference(body) ==
    /\ ~(IsVideo(body) /\ body.ref # None)
    /\ ~(body.parent # 0 /\ body.ref # None)
    /\ body.ref # None =>
          /\ FamilyOf(body) \in Images /\ imageInput(FamilyOf(body))
          /\ OwnedUpload(body.ref)
    /\ (body.parent # 0 /\ ~IsVideo(body)) => ImageParent(body.parent)

ResolveReference(h) ==
    /\ run[h].pc = "reference"
    /\ IF UsableReference(Body(h)) THEN Goto(h, "mask") ELSE Answer(h)
    /\ UNCHANGED <<books, account, counters, ghosts>>

(* A mask sent as bytes is stored and becomes an upload of its own; one    *)
(* that a retry names must still be there.                                 *)
existingMask(body) == body.mask \in live \cup {None}

MaskOf(h) == IF Body(h).mask = "bytes" THEN run[h].key ELSE Body(h).mask

StoreMask(h) ==
    /\ run[h].pc = "mask"
    /\ \/ /\ UNCHANGED upsets
          /\ \/ /\ existingMask(Body(h))
                /\ Goto(h, "reserve") /\ UNCHANGED live
             \/ /\ Body(h).mask = "bytes"
                /\ live' = live \cup {MaskOf(h)}
                /\ Goto(h, "reserve")
             \/ /\ ~existingMask(Body(h)) /\ Body(h).mask # "bytes"
                /\ Answer(h) /\ UNCHANGED live
       \/ Body(h).mask = "bytes" /\ Answer(h) /\ Upset /\ UNCHANGED live
    /\ UNCHANGED <<books, tier, strikes, enabled, menu, requests, ghosts>>

-----------------------------------------------------------------------------
(* The reservation: one transaction under the money lock.                  *)

Batch(body) == IF IsVideo(body) THEN 1 ELSE body.batch
UnitPrice(body) ==
    Price(FamilyOf(body), body.ref # None \/ (body.parent # 0 /\ ~IsVideo(body)))

PendingVideos ==
    Cardinality({g \in DOMAIN gens : gens[g].kind = "video" /\ gens[g].status = "pending"})

CapReached(body) ==
    IsVideo(body) /\ PendingVideos + Batch(body) > MaxPendingVideos

(* The plan bucket pays first, the pack the rest.                          *)
FromPlan(total) == Min({Max({plan, 0}), total})

(* Mutant of PlanShare: each item takes from the plan as if it were first. *)
PlanShareAlone(i, unit, total) == Min({unit, FromPlan(total)})

(* What item i of the batch takes from the plan bucket: what the items     *)
(* before it left of it, up to its price.                                  *)
PlanShare(i, unit, total) ==
    Max({0, Min({unit, FromPlan(total) - (i - 1) * unit})})

Reserved(h) ==
    LET body == Body(h)
        unit == UnitPrice(body)
        total == unit * Batch(body)
    IN  [i \in 1..Batch(body) |->
          [key |-> run[h].key, of |-> run[h].of, kind |-> KindOf(FamilyOf(body)),
           family |-> FamilyOf(body), status |-> "pending", deleted |-> FALSE,
           fromPlan |-> PlanShare(i, unit, total),
           fromPack |-> unit - PlanShare(i, unit, total),
           recorded |-> TRUE,
           snapshot |-> captureSnapshot(body, MaskOf(h))]]

Charge(h) ==
    LET total == UnitPrice(Body(h)) * Batch(Body(h))
    IN  /\ plan + pack >= total
        /\ plan' = plan - FromPlan(total)
        /\ pack' = pack - (total - FromPlan(total))
        /\ gens' = gens \o Reserved(h)
        /\ submissions' = IF Keyed(h) THEN With(h, FALSE) ELSE submissions

(* Mutant of Known: the replay is not looked for again under the lock.     *)
KnownNever(h) == FALSE

(* The key is taken: its conflict or its first result, before any cap.     *)
Known(h) == Keyed(h) /\ HasRow(h)

(* The first result again, or a conflict, a cap, the daily spend of all    *)
(* customers, too few credits: nothing is written.                         *)
ReservationFailure == UNCHANGED books

Reserve(h) ==
    /\ run[h].pc = "reserve"
    /\ \/ ~Known(h) /\ ~CapReached(Body(h)) /\ Charge(h)
       \/ ReservationFailure
    /\ Answer(h)
    /\ UNCHANGED <<account, counters, ghosts>>

Die(h) ==
    /\ run[h].pc # "idle"
    /\ Answer(h) /\ Upset
    /\ UNCHANGED <<books, account, menu, requests, ghosts>>

Step(h) ==
    \/ PriorSubmission(h) \/ Admit(h) \/ Choose(h)
    \/ Moderate(h) \/ ClaimRefusal(h) \/ RecordEvent(h) \/ IncrementStrike(h)
    \/ ReleaseRefusal(h)
    \/ PrepareVideo(h) \/ LookAtReference(h) \/ StrikeImage(h)
    \/ ResolveReference(h) \/ StoreMask(h) \/ Reserve(h)

-----------------------------------------------------------------------------
(* The rest of the system.                                                 *)

(* A settlement: done, or failed with a refund into each bucket.           *)
Settle(g) ==
    /\ gens[g].status = "pending"
    /\ \/ /\ gens' = [gens EXCEPT ![g].status = "done"]
          /\ UNCHANGED <<plan, pack>>
       \/ /\ gens' = [gens EXCEPT ![g].status = "failed"]
          /\ plan' = plan + gens[g].fromPlan
          /\ pack' = pack + gens[g].fromPack
    /\ UNCHANGED <<submissions, account, run, counters, ghosts>>

Change ==
    /\ Upset
    /\ \/ /\ tier' \in {None, "studio"} \ {tier}
          /\ UNCHANGED <<enabled, live, gens>>
       \/ /\ \E family \in enabled \cap Fickle : enabled' = enabled \ {family}
          /\ UNCHANGED <<tier, live, gens>>
       \/ /\ \E thing \in live \cap Fickle : live' = live \ {thing}
          /\ UNCHANGED <<tier, enabled, gens>>
       \/ /\ \E g \in Parents :
               /\ gens[g].status # "pending" /\ gens[g].kind \in Fickle
               /\ gens' = [gens EXCEPT ![g].deleted = TRUE]
          /\ UNCHANGED <<tier, enabled, live>>
    /\ UNCHANGED <<submissions, plan, pack, strikes, run, menu, requests, ghosts>>

Next ==
    \/ \E h \in Handlers : Receive(h) \/ Retry(h) \/ Vary(h) \/ Step(h) \/ Die(h)
    \/ \E g \in DOMAIN gens : Settle(g)
    \/ Change

Spec == Init /\ [][Next]_vars

-----------------------------------------------------------------------------
(* Properties.                                                             *)

Of(key) == {g \in DOMAIN gens : gens[g].key = key}

(* A key is charged once: the generations under it are the batch of the    *)
(* one body accepted under it, however often it is sent and whatever       *)
(* another request does meanwhile.                                         *)
ChargedOnce ==
    \A k \in Keys :
        Cardinality(Of(k)) =
            IF k \in DOMAIN submissions /\ ~submissions[k].refused
              THEN Batch(submissions[k].body) ELSE 0

Taken(share(_)) ==
    FoldFunctionOnSet(+, 0, [g \in DOMAIN gens |-> share(gens[g])],
                      {g \in DOMAIN gens : gens[g].status # "failed"})

(* No bucket is overdrawn, and each holds its grant less what generations  *)
(* that did not fail took from it: a batch split between the buckets is    *)
(* refunded, item by item, to where it came from.                          *)
BucketsBalance ==
    /\ plan >= 0 /\ plan + Taken(LAMBDA g : g.fromPlan) = PlanGrant
    /\ pack >= 0 /\ pack + Taken(LAMBDA g : g.fromPack) = PackGrant

(* A flagged prompt strikes once per key, over retries, twins and crashes. *)
(* A strike counted and reported as failed is not known to have happened.  *)
StruckOnce == \A k \in Keys : promptStrikes[k] > 1 => k \in unsure

(* Whatever is sent again under a key costs and strikes once.              *)
OncePerKey == ChargedOnce /\ StruckOnce

(* Nothing blocked is ever charged and rendered: no key, replay, retry or  *)
(* change of body carries a prompt or a video's reference past moderation. *)
NothingUnmoderated ==
    \A g \in DOMAIN gens :
        gens[g].recorded =>
            /\ gens[g].snapshot.prompt \notin Flagged
            /\ gens[g].kind = "video" =>
                  ToSet(gens[g].snapshot.uploads) \cap Flagged = {}

(* A retry asks for what the original asked for: its snapshot, taken from  *)
(* the body rebuilt from the original's snapshot, is the same one.         *)
RetryRepeatsRequest ==
    \A g \in DOMAIN gens :
        gens[g].of # 0 => gens[g].snapshot = gens[gens[g].of].snapshot

(* submit-generation.ts:156-160: a refused request gets the same refusal,  *)
(* never a second strike.                                                  *)
StrikesOncePerRequest ==
    \A k \in Keys : promptStrikes[k] + imageStrikes[k] > 1 => k \in unsure
=============================================================================
