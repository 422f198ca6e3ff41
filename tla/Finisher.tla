------------------------------- MODULE Finisher -------------------------------
(***************************************************************************)
(* From the provider's file to a library tile (jobs/store.ts, thumbnail.ts, *)
(* thumbnail_backfill.ts, migration 0022): a bounded download, an object   *)
(* that is registered before it is written, a settlement, a thumbnail, and *)
(* the backfill of the thumbnails of older images.                         *)
(*                                                                         *)
(* Runs are attempts at one generation, each under a lease of its own; a   *)
(* lease lapses when it likes.  What a refused settlement means for the    *)
(* job is JobDispatch's.  Sizes are counted in chunks; a body is what the  *)
(* provider says of its file and what it then sends.                       *)
(***************************************************************************)
EXTENDS Integers, FiniteSets

CONSTANTS
    Runs, Nobody,
    Backfills,   \* runs of the backfill script
    MaxBytes,    \* the budget of the generation's kind
    MaxFaults    \* calls that fail

(* What is asked of them: "older" is the image of before the migration.    *)
ConstantsFit == MaxBytes \in Nat /\ "older" \notin Runs

VARIABLES
    gen,       \* kind, status, media_path, thumb_state, thumb_path
    lease,     \* the run whose lease on the job is live
    saver,     \* jobs.save_lease_token
    runs,      \* per run: where it is, the body, what it holds in memory
    backfills, \* per run of the script: where it is
    registry,  \* per object: none, staged, live, queued
    stored,    \* per object: the file written there, or {}
    faults

finisherVars == <<gen, lease, saver, runs, backfills, registry, stored, faults>>

Objects == {"media", "thumb"} \X (Runs \cup {"older"})
(* A picture of any length, declared truly, wrongly or not at all; a file  *)
(* that cannot be decoded, or is of the wrong kind.                        *)
Bodies == [type : {"picture"}, declared : 0..MaxBytes + 1, size : 0..MaxBytes + 1]
            \cup [type : {"undecodable", "other"}, declared : {1}, size : {1}]
Idle == [at |-> "idle", inline |-> FALSE, body |-> {}, read |-> 0, allocated |-> 0,
         file |-> {}]

(* Either a job at work, or an image from before migration 0022.           *)
Fresh(kind) == [kind |-> kind, status |-> "pending", media |-> Nobody,
                thumb |-> "none", thumbOf |-> Nobody]
Older == [kind |-> "image", status |-> "done", media |-> "older",
          thumb |-> "pending", thumbOf |-> Nobody]

Init ==
    /\ gen \in {Fresh("image"), Fresh("video"), Older}
    /\ lease = Nobody /\ saver = Nobody
    /\ runs = [t \in Runs |-> Idle]
    /\ backfills = [b \in Backfills |-> "idle"]
    /\ LET old == <<"media", "older">> IN
       /\ registry = [o \in Objects |-> IF o = old /\ gen = Older THEN "live" ELSE "none"]
       /\ stored = [o \in Objects |-> IF o = old /\ gen = Older THEN {"whole"} ELSE {}]
    /\ faults = 0

Fault == faults < MaxFaults /\ faults' = faults + 1
Works == UNCHANGED faults

At(t, step) == runs[t].at = step
Goes(t, state) == runs' = [runs EXCEPT ![t] = state]
Go(t, step) == Goes(t, [runs[t] EXCEPT !.at = step])
Free(t) == Goes(t, [Idle EXCEPT !.at = "over"])

(* What was read is refused: a link is asked again, the bytes are not.     *)
Refuse(t) == Goes(t, [Idle EXCEPT !.at = IF runs[t].inline THEN "fail" ELSE "retry"])

(* The file in memory, and whether it is all of the provider's.            *)
Got(t, type, whole, allocated) ==
    Goes(t, [Idle EXCEPT !.at = "register", !.inline = runs[t].inline,
                         !.allocated = allocated, !.file = {[type |-> type, whole |-> whole]}])

job == <<lease, saver>>
objects == <<registry, stored>>
script == backfills

-----------------------------------------------------------------------------
(* Reading the result.                                                     *)

(* A run starts with the provider's answer: bytes, or a link to them.      *)
finishJob(t, inline) ==
    /\ At(t, "idle") /\ lease = Nobody /\ gen.status = "pending"
    /\ lease' = t
    /\ Goes(t, [Idle EXCEPT !.at = IF inline THEN "inline" ELSE "claim", !.inline = inline])
    /\ UNCHANGED <<gen, saver, objects, script, faults>>

(* storeUrlResult: one run downloads.  An unreadable kind ends the attempt.*)
claimSave(t) ==
    /\ At(t, "claim")
    /\ \/ lease = t /\ saver # t /\ saver' = t /\ Go(t, "fetch") /\ Works
       \/ lease # t /\ Free(t) /\ UNCHANGED saver /\ Works
       \/ Fault /\ Free(t) /\ saver' \in {saver, IF lease = t THEN t ELSE saver}
    /\ UNCHANGED <<gen, lease, objects, script>>

(* The budget's types: no file of the wrong kind is kept.                  *)
Allowed(type) == type # "other"

rejectPayload(body) == ~Allowed(body.type) \/ body.size = 0 \/ body.size > MaxBytes

storeInlineResult(t, body) ==
    /\ At(t, "inline")
    /\ \/ Fault /\ Free(t)
       \/ /\ Works
          /\ IF rejectPayload(body) THEN Refuse(t) ELSE Got(t, body.type, TRUE, body.size)
    /\ UNCHANGED <<gen, job, objects, script>>

(* readBounded holds the chunks and then their copy: half the budget.      *)
Ceiling == MaxBytes \div 2

(* downloadBounded: nothing is read before what it says it is was checked. *)
downloadBounded(t, body) ==
    /\ At(t, "fetch")
    /\ \/ Fault /\ Refuse(t)
       \/ /\ Works
          /\ IF ~Allowed(body.type) \/ body.declared > MaxBytes THEN Refuse(t)
             ELSE Goes(t, [runs[t] EXCEPT !.at = "read", !.body = {body},
                                          !.allocated = body.declared])
    /\ UNCHANGED <<gen, job, objects, script>>

(* What it says, and what it sends.                                        *)
Body(t) == CHOOSE body \in runs[t].body : TRUE
Exact(t) == Body(t).declared > 0

Chunk(t, n) ==
    LET read == runs[t].read + n
        tooMuch == IF Exact(t) THEN read > Body(t).declared ELSE read > Ceiling IN
    /\ At(t, "read") /\ n > 0 /\ read <= Body(t).size
    /\ IF tooMuch THEN Refuse(t)
       ELSE Goes(t, [runs[t] EXCEPT !.read = read,
                        !.allocated = IF Exact(t) THEN @ ELSE read])
    /\ UNCHANGED <<gen, job, objects, script, faults>>

(* Mutant of Complete: what came is taken for the file.                    *)
AnythingComplete(t) == runs[t].read > 0

(* readExact: the file fills the length it declared.                       *)
Complete(t) == runs[t].read > 0 /\ (Exact(t) => runs[t].read = Body(t).declared)

(* The connection ends, early or not.                                      *)
BodyEnds(t) ==
    /\ At(t, "read")
    /\ IF Complete(t)
         THEN Got(t, Body(t).type, Exact(t) => runs[t].read = Body(t).declared,
                  runs[t].allocated + IF Exact(t) THEN 0 ELSE runs[t].read)
         ELSE Refuse(t)
    /\ UNCHANGED <<gen, job, objects, script, faults>>

-----------------------------------------------------------------------------
(* Keeping it.                                                             *)

Media(t) == <<"media", t>>
Thumb(t) == <<"thumb", t>>

Registered(o) == [registry EXCEPT ![o] = IF @ = "none" THEN "staged" ELSE @]
MarkedLive(o) == [registry EXCEPT ![o] = IF @ = "staged" THEN "live" ELSE @]

trackObject(t) ==
    /\ At(t, "register")
    /\ \/ registry' = Registered(Media(t)) /\ Go(t, "put") /\ Works
       \/ Fault /\ Refuse(t) /\ registry' \in {registry, Registered(Media(t))}
    /\ UNCHANGED <<gen, job, stored, script>>

File(t) == CHOOSE file \in runs[t].file : TRUE
Whole(t) == IF File(t).whole THEN "whole" ELSE "cut"

(* A write whose answer is lost may have landed.                           *)
putObject(t) ==
    /\ At(t, "put")
    /\ \/ stored' = [stored EXCEPT ![Media(t)] = {Whole(t)}] /\ Go(t, "live") /\ Works
       \/ Fault /\ Refuse(t) /\ stored' \in {stored, [stored EXCEPT ![Media(t)] = {Whole(t)}]}
    /\ UNCHANGED <<gen, job, registry, script>>

(* markObjectLive may fail: a staged object is tracked too.                *)
markMedia(t) ==
    /\ At(t, "live")
    /\ \/ registry' = MarkedLive(Media(t)) /\ Works
       \/ Fault /\ UNCHANGED registry
    /\ Go(t, "settle")
    /\ UNCHANGED <<gen, job, stored, script>>

(* settleStored: won, lost, or unknown.                                    *)
settleStored(t) ==
    LET wins == lease = t /\ gen.status = "pending"
        won == [gen EXCEPT !.status = "done", !.media = t] IN
    /\ At(t, "settle")
    /\ \/ wins /\ gen' = won /\ Go(t, "thumb") /\ Works
       \/ ~wins /\ UNCHANGED gen /\ Go(t, "drop") /\ Works
       \/ Fault /\ gen' \in {gen, IF wins THEN won ELSE gen}
          /\ Go(t, IF runs[t].inline THEN "over" ELSE "release")
    /\ lease' = IF gen'.status = "done" /\ lease = t THEN Nobody ELSE lease
    /\ UNCHANGED <<saver, objects, script>>

dropLostObject(t) ==
    /\ At(t, "drop")
    /\ \/ registry' = (IF gen.media = t THEN registry ELSE [registry EXCEPT ![Media(t)] = "queued"])
          /\ Works
       \/ Fault /\ UNCHANGED registry
    /\ Free(t)
    /\ UNCHANGED <<gen, job, stored, script>>

(* failJob, and retryOrFail once the attempts are spent.                   *)
failJob(t) ==
    /\ At(t, "fail") \/ At(t, "retry")
    /\ \/ lease = t /\ gen.status = "pending" /\ gen' = [gen EXCEPT !.status = "failed"] /\ Works
       \/ (lease # t \/ gen.status # "pending") /\ UNCHANGED gen /\ Works
       \/ Fault /\ UNCHANGED gen
    /\ Free(t)
    /\ UNCHANGED <<job, objects, script>>

releaseClaim(t) ==
    /\ At(t, "retry") \/ At(t, "release")
    /\ \/ saver' = (IF lease = t THEN Nobody ELSE saver) /\ Works
       \/ Fault /\ UNCHANGED saver
    /\ Free(t)
    /\ UNCHANGED <<gen, lease, objects, script>>

(* Mutant of ThumbStep: the row is told before the thumbnail is there.     *)
ThumbToldFirst(t, step, next) ==
    /\ At(t, step) /\ Go(t, next)
    /\ gen' = IF step = "thumb" THEN [gen EXCEPT !.thumb = "ready", !.thumbOf = t] ELSE gen

ThumbStep(t, step, next) == At(t, step) /\ Go(t, next) /\ UNCHANGED gen

setThumbState(t, state) ==
    /\ gen' = [gen EXCEPT !.thumb = state, !.thumbOf = IF state = "ready" THEN t ELSE @]
    /\ Free(t)

(* storeThumbnail: never a reason to fail what was paid for.               *)
storeThumbnail(t) ==
    \/ /\ At(t, "thumb")
       /\ \/ gen.kind = "video" /\ Free(t) /\ UNCHANGED gen
          \/ /\ gen.kind = "image" /\ File(t).type = "undecodable"
             /\ setThumbState(t, "unsupported")
       /\ UNCHANGED <<objects, faults>>
    \/ /\ ThumbStep(t, "thumb", "thumbPut") /\ registry' = Registered(Thumb(t))
       /\ gen.kind = "image" /\ File(t).type = "picture"
       /\ UNCHANGED <<stored, faults>>
    \/ /\ ThumbStep(t, "thumbPut", "thumbLive")
       /\ stored' = [stored EXCEPT ![Thumb(t)] = {"whole"}]
       /\ UNCHANGED <<registry, faults>>
    \/ /\ ThumbStep(t, "thumbLive", "thumbRow")
       /\ \/ registry' = MarkedLive(Thumb(t)) /\ Works
          \/ Fault /\ UNCHANGED registry
       /\ UNCHANGED stored
    \/ /\ At(t, "thumbRow") /\ setThumbState(t, "ready") /\ UNCHANGED <<objects, faults>>
    \/ /\ At(t, "thumb") \/ At(t, "thumbPut")
       /\ Fault /\ setThumbState(t, "failed") /\ UNCHANGED objects

ThumbWritten(t) == storeThumbnail(t) /\ UNCHANGED <<job, script>>

LeaseLapses ==
    /\ lease # Nobody /\ lease' = Nobody
    /\ UNCHANGED <<gen, saver, runs, objects, script, faults>>

(* A cancel or a sweep settles first; the isolate of a run dies.           *)
SettledElsewhere ==
    /\ gen.status = "pending" /\ Fault
    /\ gen' = [gen EXCEPT !.status = "failed"]
    /\ UNCHANGED <<job, runs, objects, script>>

RunDies(t) ==
    /\ runs[t].at \notin {"idle", "over"} /\ Fault /\ Free(t)
    /\ UNCHANGED <<gen, job, objects, script>>

-----------------------------------------------------------------------------
(* The backfill.                                                           *)

older == "older"
BAt(b, step) == backfills[b] = step
BGo(b, step) == backfills' = [backfills EXCEPT ![b] = step]

(* fn_set_thumbnail: a row that is not claimed is left alone.              *)
fn_set_thumbnail(state) ==
    gen' = IF gen.thumb # "claimed" THEN gen
           ELSE [gen EXCEPT !.thumb = state, !.thumbOf = IF state = "ready" THEN older ELSE @]

(* A claim older than an hour is released first, whoever still works on it.*)
fn_claim_thumbnails(b) ==
    /\ BAt(b, "idle")
    /\ gen.status = "done" /\ gen.kind = "image"
    /\ \/ gen.thumb = "pending" /\ Works
       \/ gen.thumb = "claimed" /\ IF \E c \in Backfills : ~BAt(c, "idle") THEN Fault ELSE Works
    /\ gen' = [gen EXCEPT !.thumb = "claimed"]
    /\ BGo(b, "put")
    /\ UNCHANGED <<job, runs, objects>>

backfillOne(b) ==
    \/ /\ BAt(b, "put") /\ BGo(b, "record")
       /\ stored' = [stored EXCEPT ![Thumb(older)] = {"whole"}]
       /\ UNCHANGED <<gen, registry, faults>>
    \/ /\ BAt(b, "record") /\ BGo(b, "idle")
       /\ registry' = [registry EXCEPT ![Thumb(older)] = "live"]
       /\ fn_set_thumbnail("ready")
       /\ UNCHANGED <<stored, faults>>
    \/ /\ BAt(b, "put") /\ BGo(b, "idle")
       /\ \E state \in {"failed", "unsupported"} : fn_set_thumbnail(state)
       /\ Fault /\ UNCHANGED objects
    \/ /\ BAt(b, "record") /\ BGo(b, "idle")
       /\ fn_set_thumbnail("failed")
       /\ Fault /\ UNCHANGED objects
    \/ /\ ~BAt(b, "idle") /\ BGo(b, "idle")
       /\ Fault /\ UNCHANGED <<gen, objects>>

runBackfill(b) == backfillOne(b) /\ UNCHANGED <<job, runs>>

Next ==
    \/ \E t \in Runs :
         \/ \E inline \in BOOLEAN : finishJob(t, inline)
         \/ \E body \in Bodies : storeInlineResult(t, body) \/ downloadBounded(t, body)
         \/ \E n \in 1..MaxBytes + 1 : Chunk(t, n)
         \/ claimSave(t) \/ BodyEnds(t) \/ trackObject(t) \/ putObject(t) \/ markMedia(t)
         \/ settleStored(t) \/ dropLostObject(t) \/ failJob(t) \/ releaseClaim(t)
         \/ ThumbWritten(t) \/ RunDies(t)
    \/ LeaseLapses \/ SettledElsewhere
    \/ \E b \in Backfills : fn_claim_thumbnails(b) \/ runBackfill(b)

Spec == Init /\ [][Next]_finisherVars

-----------------------------------------------------------------------------
Shown == (IF gen.status = "done" THEN {Media(gen.media)} ELSE {})
           \cup (IF gen.thumb = "ready" THEN {Thumb(gen.thumbOf)} ELSE {})

(* What the library shows was all there when it was stored, is on record,  *)
(* and is not about to be deleted: whichever attempt won, wherever the     *)
(* others were cut off, and whatever length the provider declared.  A body *)
(* that declares none and stops early cannot be told from a whole one, here*)
(* or in the code; Whole counts it as whole.                               *)
ShownIsWhole ==
    \A o \in Shown : stored[o] = {"whole"} /\ registry[o] \in {"staged", "live"}

(* A worker run holds no more than its budget, declared or not.            *)
PeakWithinBudget == \A t \in Runs : runs[t].allocated <= MaxBytes

(* A result is kept whole or not at all, in bounded memory.                *)
StoredSafely == ShownIsWhole /\ PeakWithinBudget
=============================================================================
