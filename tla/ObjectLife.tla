----------------------------- MODULE ObjectLife -----------------------------
(***************************************************************************)
(* The life of stored objects: the registry and the deletion outbox (0021),*)
(* the routes that write objects of their own (saved edits, imports,       *)
(* uploads, video posters), the evidence kept of a blocked image, persona  *)
(* photos, the cleanup worker, and the closure of one account.             *)
(*                                                                         *)
(* A statement or stored function of the database is one step; a call to   *)
(* storage is another.  A handler or a worker may die between two of them, *)
(* and MaxFaults bounds the deaths and failed calls of a behaviour.        *)
(***************************************************************************)
EXTENDS Integers, FiniteSets, FiniteSetsExt

CONSTANTS
    Handlers,   \* requests in flight, one operation each
    Workers,    \* ticks of the cleanup worker that may overlap
    Rows,       \* library rows
    Uploads,    \* upload paths
    Earlier,    \* the uploads that earlier requests stored and had allowed
    Personas, Slots,
    Nobody,     \* model value: no worker, no row, no upload
    Limit,      \* deletions one tick claims
    PersonaCap, \* personas the plan allows
    MaxFaults

VARIABLES
    registry,   \* storage_objects: state of each object
    bytes,      \* the objects the buckets hold
    outbox,     \* deletion_outbox: state of each object's row, or its leaseholder
    rows,       \* generations
    uploads,    \* uploads.moderation
    personas,
    account,    \* profiles, account_deletions and the auth user
    evidence,   \* moderation_events.quarantine_path
    handlers, workers, faults

stored == <<registry, bytes, outbox>>
content == <<rows, uploads, personas>>
objectVars == <<registry, bytes, outbox, rows, uploads, personas, account,
                evidence, handlers, workers, faults>>

Objects == ({"media", "thumb"} \X Rows) \cup ({"upload"} \X Uploads)
           \cup ({"scratch", "quarantine"} \X Handlers)

NoRow == [state |-> "none", hidden |-> FALSE, media |-> FALSE, thumb |-> FALSE,
          video |-> FALSE, busy |-> FALSE]
NoPersona == [state |-> "none", photos |-> [s \in Slots |-> Nobody]]
Ready == [pc |-> "idle", op |-> "none", row |-> Nobody, upload |-> Nobody]
Resting == [pc |-> "idle", batch |-> {}, object |-> Nobody, thrown |-> FALSE,
            verdict |-> "none"]

Init ==
    /\ registry = [o \in Objects |-> IF o \in {"upload"} \X Earlier THEN "live" ELSE "none"]
    /\ bytes = {"upload"} \X Earlier
    /\ outbox = [o \in Objects |-> "none"]
    /\ rows = [g \in Rows |-> NoRow]
    /\ uploads = [u \in Uploads |-> IF u \in Earlier THEN "allowed" ELSE "none"]
    /\ personas = [p \in Personas |-> NoPersona]
    /\ account = [closing |-> FALSE, status |-> "none", profile |-> TRUE, auth |-> TRUE]
    /\ evidence = {}
    /\ handlers = [h \in Handlers |-> Ready]
    /\ workers = [w \in Workers |-> Resting]
    /\ faults = 0

(* A call that may fail, or a process that may die: ok is its outcome.     *)
Attempt(ok) == IF ok THEN UNCHANGED faults ELSE faults < MaxFaults /\ faults' = faults + 1

-----------------------------------------------------------------------------
(* The registry and the outbox.                                            *)

(* fn_register_object keeps the state of a known locator.  Its user must   *)
(* still have a profile, which the foreign key demands.                    *)
registerObject(reg, o) == IF reg[o] = "none" THEN [reg EXCEPT ![o] = "staged"] ELSE reg

markObjectLive(reg, o) ==
    IF reg[o] \in {"staged", "live"} THEN [reg EXCEPT ![o] = "live"] ELSE reg

(* Hold an object; the row that would delete it on schedule leaves with it.*)
holdObject(o) ==
    /\ registry' = [registry EXCEPT ![o] = IF @ = "gone" THEN @ ELSE "held"]
    /\ outbox' = [outbox EXCEPT ![o] = IF @ = "done" THEN @ ELSE "none"]

(* The objects a request to delete really queues: held and gone ones are   *)
(* skipped, a completed row is never reopened.                             *)
Deletable(reg, S) == {o \in S : reg[o] \notin {"gone", "held"} /\ outbox[o] # "done"}

(* Register every locator of S and queue it, as one transaction.           *)
enqueueDeletions(S) ==
    LET known == [o \in Objects |-> registerObject(registry, o)[o]]
        seen == [o \in Objects |-> IF o \in S THEN known[o] ELSE registry[o]]
        due == Deletable(seen, S)
    IN  /\ registry' = [o \in Objects |-> IF o \in due THEN "delete_pending" ELSE seen[o]]
        /\ outbox' = [o \in Objects |->
                        IF o \in due /\ outbox[o] = "none" THEN "queued" ELSE outbox[o]]

(* Delete now; when storage refuses, queue it; when that fails too, log.   *)
removeTracked(o) ==
    \/ Attempt(TRUE) /\ bytes' = bytes \ {o} /\ UNCHANGED <<registry, outbox>>
    \/ /\ account.profile
       /\ Attempt(FALSE) /\ enqueueDeletions({o}) /\ UNCHANGED bytes
    \/ /\ faults + 2 <= MaxFaults /\ faults' = faults + 2
       /\ UNCHANGED stored

-----------------------------------------------------------------------------
(* The handlers' shared steps.                                             *)

At(h, pc) == handlers[h].pc = pc
Go(h, pc) == handlers' = [handlers EXCEPT ![h].pc = pc]
Own(h) == handlers[h].row
Media(g) == <<"media", g>>
Thumb(g) == <<"thumb", g>>

(* The object a handler stores for good, and the one it has moderated.     *)
Target(h) ==
    CASE handlers[h].op = "save" -> Media(Own(h))
      [] handlers[h].op = "thumb" -> Thumb(Own(h))
      [] OTHER -> <<"upload", handlers[h].upload>>
Checked(h) ==
    IF handlers[h].op = "upload" THEN Target(h) ELSE <<"scratch", h>>

BeginSave(h) ==
    /\ At(h, "idle")
    /\ handlers' = [handlers EXCEPT ![h] = [Ready EXCEPT !.op = "save", !.pc = "stage"]]
    /\ UNCHANGED <<stored, content, account, evidence, workers, faults>>

(* An edit has a visible parent, an import none; the rest they share.      *)
SaveEdit(h) == (\E g \in Rows : rows[g].state = "done" /\ ~rows[g].hidden) /\ BeginSave(h)
Import(h) == BeginSave(h)

Upload(h, u) ==
    /\ At(h, "idle")
    /\ uploads[u] = "none" /\ registry[<<"upload", u>>] = "none"
    /\ \A other \in Handlers : handlers[other].upload # u
    /\ handlers' = [handlers EXCEPT ![h] =
                      [Ready EXCEPT !.op = "upload", !.upload = u, !.pc = "register"]]
    /\ UNCHANGED <<stored, content, account, evidence, workers, faults>>

(* The poster route reads the finished, visible video once, at its start.  *)
Poster(h, g) ==
    /\ At(h, "idle")
    /\ rows[g].state = "done" /\ rows[g].video /\ ~rows[g].hidden
    /\ handlers' = [handlers EXCEPT ![h] =
                      [Ready EXCEPT !.op = "thumb", !.row = g, !.pc = "stage"]]
    /\ UNCHANGED <<stored, content, account, evidence, workers, faults>>

(* A failed write leaves the registered locator, and the request ends.     *)
writeScratch(h) ==
    LET o == <<"scratch", h>> IN
    /\ At(h, "stage")
    /\ \/ /\ account.profile /\ Attempt(TRUE)
          /\ registry' = registerObject(registry, o) /\ bytes' = bytes \cup {o}
          /\ Go(h, "moderate")
       \/ /\ account.profile /\ Attempt(FALSE)
          /\ registry' = registerObject(registry, o) /\ UNCHANGED bytes
          /\ Go(h, "answered")
       \/ /\ (IF account.profile THEN Attempt(FALSE) ELSE Attempt(TRUE))
          /\ UNCHANGED <<registry, bytes>> /\ Go(h, "answered")
    /\ UNCHANGED <<outbox, content, account, evidence, workers>>

AfterCheck(h, passed) ==
    IF handlers[h].op = "upload" THEN IF passed THEN "allow" ELSE "block"
    ELSE IF passed THEN "sweep" ELSE "sweep_refused"

(* The image passes, is refused, or could not be looked at; in the last    *)
(* case its bytes are removed, with nothing to fall back on.               *)
moderateStoredImage(h) ==
    /\ At(h, "moderate")
    /\ \/ Go(h, AfterCheck(h, TRUE)) /\ UNCHANGED <<bytes, faults>>
       \/ Go(h, "quarantine") /\ UNCHANGED <<bytes, faults>>
       \/ /\ Attempt(FALSE)
          /\ bytes' \in {bytes, bytes \ {Checked(h)}}
          /\ Go(h, AfterCheck(h, FALSE))
    /\ UNCHANGED <<registry, outbox, content, account, evidence, workers>>

(* The evidence copy: registered, copied, then held.  A failure of the     *)
(* first two steps is an outage; the third may fail unseen.                *)
Copied(h, held) ==
    LET q == <<"quarantine", h>> IN
    /\ bytes' = bytes \cup (IF Checked(h) \in bytes THEN {q} ELSE {})
    /\ IF held THEN registry' = [registry EXCEPT ![q] = "held"]
       ELSE registry' = registerObject(registry, q)

quarantine(h) ==
    /\ At(h, "quarantine")
    /\ \E held \in BOOLEAN :
          /\ Checked(h) \in bytes /\ account.profile
          /\ Attempt(held) /\ Copied(h, held) /\ Go(h, "strike")
    /\ UNCHANGED <<outbox, content, account, evidence, workers>>

quarantineFails(h) ==
    /\ At(h, "quarantine")
    /\ IF account.profile THEN Attempt(FALSE) ELSE Attempt(TRUE)
    /\ \/ account.profile /\ registry' = registerObject(registry, <<"quarantine", h>>)
       \/ UNCHANGED registry
    /\ Go(h, AfterCheck(h, FALSE))
    /\ UNCHANGED <<bytes, outbox, content, account, evidence, workers>>

(* recordStrike names the copy, if the user still has a profile.           *)
recordEvidence(h) ==
    /\ At(h, "strike")
    /\ evidence' = IF account.profile THEN evidence \cup {<<"quarantine", h>>} ELSE evidence
    /\ Go(h, "discard")
    /\ UNCHANGED <<stored, content, account, workers, faults>>

refuseBlockedImage(h) ==
    /\ At(h, "discard")
    /\ removeTracked(Checked(h))
    /\ Go(h, AfterCheck(h, FALSE))
    /\ UNCHANGED <<content, account, evidence, workers>>

(* The finally block removes the scratch object whatever was decided.      *)
sweepScratch(h) ==
    /\ handlers[h].pc \in {"sweep", "sweep_refused"}
    /\ removeTracked(<<"scratch", h>>)
    /\ Go(h, IF At(h, "sweep_refused") THEN "answered"
             ELSE IF handlers[h].op = "save" THEN "insert" ELSE "register")
    /\ UNCHANGED <<content, account, evidence, workers>>

(* A request that dies leaves everything as it is.                         *)
Die(h) ==
    /\ handlers[h].pc \notin {"idle", "answered"}
    /\ Attempt(FALSE)
    /\ Go(h, "answered")
    /\ UNCHANGED <<stored, content, account, evidence, workers>>

-----------------------------------------------------------------------------
(* Registering and writing the object itself.                              *)

(* Nothing new is created for an account that has asked to be closed.      *)
Open == account.profile /\ ~account.closing

(* A mutant: the row is done before its bytes are stored.                  *)
InsertDone(h) ==
    /\ At(h, "insert")
    /\ \E g \in Rows :
          /\ Open /\ rows[g].state = "none"
          /\ rows' = [rows EXCEPT ![g] = [NoRow EXCEPT !.state = "done", !.media = TRUE]]
          /\ handlers' = [handlers EXCEPT ![h].row = g, ![h].pc = "register"]
    /\ UNCHANGED <<stored, uploads, personas, account, evidence, workers, faults>>

insertRow(h) ==
    /\ At(h, "insert")
    /\ \/ \E g \in Rows :
             /\ Open /\ rows[g].state = "none" /\ Attempt(TRUE)
             /\ rows' = [rows EXCEPT ![g] = [NoRow EXCEPT !.state = "pending"]]
             /\ handlers' = [handlers EXCEPT ![h].row = g, ![h].pc = "register"]
       \/ /\ IF Open THEN Attempt(FALSE) ELSE Attempt(TRUE)
          /\ Go(h, "answered") /\ UNCHANGED rows
    /\ UNCHANGED <<stored, uploads, personas, account, evidence, workers>>

(* A locator that cannot be recorded refuses the request.                  *)
RefusedPc(h) == IF handlers[h].op = "save" THEN "drop_row" ELSE "answered"

registerTarget(h) ==
    /\ At(h, "register")
    /\ \/ /\ account.profile /\ Attempt(TRUE)
          /\ registry' = registerObject(registry, Target(h)) /\ Go(h, "put")
       \/ /\ IF account.profile THEN Attempt(FALSE) ELSE Attempt(TRUE)
          /\ UNCHANGED registry /\ Go(h, RefusedPc(h))
    /\ UNCHANGED <<bytes, outbox, content, account, evidence, workers>>

(* The write, and the mark that it landed, which may be lost.              *)
putTarget(h) ==
    /\ At(h, "put")
    /\ \/ /\ Attempt(TRUE) /\ bytes' = bytes \cup {Target(h)}
          /\ registry' = markObjectLive(registry, Target(h))
          /\ Go(h, "record")
       \/ /\ Attempt(FALSE)
          /\ \/ bytes' = bytes \cup {Target(h)} /\ Go(h, "record")
             \/ UNCHANGED bytes /\ Go(h, RefusedPc(h))
          /\ UNCHANGED registry
    /\ UNCHANGED <<outbox, content, account, evidence, workers>>

(* The row is done only now that its bytes are stored; a row that is no    *)
(* longer there, or an update that fails, takes the object back.           *)
recordSave(h) ==
    LET g == Own(h) IN
    /\ At(h, "record") /\ handlers[h].op = "save"
    /\ \/ /\ rows[g].state # "gone" /\ Attempt(TRUE)
          /\ rows' = [rows EXCEPT ![g].state = "done", ![g].media = TRUE]
          /\ Go(h, "answered")
       \/ /\ IF rows[g].state = "gone" THEN Attempt(TRUE) ELSE Attempt(FALSE)
          /\ Go(h, "drop_object") /\ UNCHANGED rows
    /\ UNCHANGED <<stored, uploads, personas, account, evidence, workers>>

dropStagedObject(h) ==
    /\ At(h, "drop_object")
    /\ \/ Attempt(TRUE) /\ bytes' = bytes \ {Target(h)}
       \/ Attempt(FALSE) /\ UNCHANGED bytes
    /\ Go(h, "drop_row")
    /\ UNCHANGED <<registry, outbox, content, account, evidence, workers>>

dropStagedRow(h) ==
    /\ At(h, "drop_row")
    /\ \/ Attempt(TRUE) /\ rows' = [rows EXCEPT ![Own(h)] = [NoRow EXCEPT !.state = "gone"]]
       \/ Attempt(FALSE) /\ UNCHANGED rows
    /\ Go(h, "answered")
    /\ UNCHANGED <<stored, uploads, personas, account, evidence, workers>>

(* The poster's path is written on the row, hidden by now or not; a row    *)
(* that is gone is no error.                                               *)
recordThumb(h) ==
    LET g == Own(h) IN
    /\ At(h, "record") /\ handlers[h].op = "thumb"
    /\ \/ /\ Attempt(TRUE)
          /\ rows' = IF rows[g].state = "gone" THEN rows ELSE [rows EXCEPT ![g].thumb = TRUE]
       \/ Attempt(FALSE) /\ UNCHANGED rows
    /\ Go(h, "answered")
    /\ UNCHANGED <<stored, uploads, personas, account, evidence, workers>>

recordUpload(h) ==
    LET u == handlers[h].upload IN
    /\ At(h, "record") /\ handlers[h].op = "upload"
    /\ \/ /\ Open /\ Attempt(TRUE)
          /\ uploads' = [uploads EXCEPT ![u] = "pending"] /\ Go(h, "moderate")
          /\ UNCHANGED bytes
       \/ /\ IF Open THEN Attempt(FALSE) ELSE Attempt(TRUE)
          /\ bytes' \in {bytes, bytes \ {Target(h)}}
          /\ Go(h, "answered") /\ UNCHANGED uploads
    /\ UNCHANGED <<registry, outbox, rows, personas, account, evidence, workers>>

(* The verdict is written last, and the write may be lost.                 *)
recordVerdict(h) ==
    LET u == handlers[h].upload
        verdict == IF At(h, "allow") THEN "allowed" ELSE "blocked" IN
    /\ handlers[h].pc \in {"allow", "block"}
    /\ \/ /\ Attempt(TRUE)
          /\ uploads' = IF uploads[u] = "none" THEN uploads
                        ELSE [uploads EXCEPT ![u] = verdict]
       \/ Attempt(FALSE) /\ UNCHANGED uploads
    /\ Go(h, "answered")
    /\ UNCHANGED <<stored, rows, personas, account, evidence, workers>>

-----------------------------------------------------------------------------
(* Generations and personas, deleted and reaped.                           *)

(* A paid generation: reserved with its job, settled later by the worker   *)
(* that runs it, hidden by then or not.                                    *)
Submit(g, video) ==
    /\ Open /\ rows[g].state = "none"
    /\ rows' = [rows EXCEPT ![g] = [NoRow EXCEPT !.state = "pending", !.video = video,
                                                !.busy = TRUE]]
    /\ UNCHANGED <<stored, uploads, personas, account, evidence, handlers, workers, faults>>

SettleJob(g, delivered) ==
    /\ rows[g].busy
    /\ rows' = [rows EXCEPT ![g].busy = FALSE, ![g].media = delivered,
                            ![g].state = IF delivered THEN "done" ELSE "failed"]
    /\ IF delivered
       THEN /\ registry' = markObjectLive(registerObject(registry, Media(g)), Media(g))
            /\ bytes' = bytes \cup {Media(g)}
       ELSE UNCHANGED <<registry, bytes>>
    /\ UNCHANGED <<outbox, uploads, personas, account, evidence, handlers, workers, faults>>

(* The locators a row names, which is all a reap can know of.              *)
trackGenerationObjects(g) ==
    (IF rows[g].media THEN {Media(g)} ELSE {}) \cup (IF rows[g].thumb THEN {Thumb(g)} ELSE {})

Photos(p) == {personas[p].photos[s] : s \in Slots} \ {Nobody}
trackPersonaObjects(p) == {"upload"} \X Photos(p)

(* A running job is the one thing that keeps a hidden row.                 *)
Reapable(g) == ~rows[g].busy

fn_delete_generation(g) ==
    /\ rows[g].state \notin {"none", "gone"}
    /\ IF Reapable(g)
       THEN /\ enqueueDeletions(trackGenerationObjects(g))
            /\ rows' = [rows EXCEPT ![g] = [NoRow EXCEPT !.state = "gone"]]
       ELSE /\ rows' = [rows EXCEPT ![g].hidden = TRUE]
            /\ UNCHANGED <<registry, outbox>>
    /\ UNCHANGED <<bytes, uploads, personas, account, evidence, handlers, workers, faults>>

Hidden == {g \in Rows : rows[g].hidden /\ Reapable(g)}

fn_reap_deleted ==
    /\ Hidden # {}
    /\ enqueueDeletions(UNION {trackGenerationObjects(g) : g \in Hidden})
    /\ rows' = [g \in Rows |-> IF g \in Hidden THEN [NoRow EXCEPT !.state = "gone"] ELSE rows[g]]
    /\ UNCHANGED <<bytes, uploads, personas, account, evidence, handlers, workers, faults>>

Living == {p \in Personas : personas[p].state \in {"draft", "ready"}}

fn_reserve_persona(p) ==
    /\ Open /\ personas[p].state = "none"
    /\ Cardinality(Living) < PersonaCap
    /\ personas' = [personas EXCEPT ![p].state = "draft"]
    /\ UNCHANGED <<stored, rows, uploads, account, evidence, handlers, workers, faults>>

(* An owned, allowed photo, still stored, that no other persona holds.     *)
Usable(p, u) ==
    /\ uploads[u] = "allowed"
    /\ registry[<<"upload", u>>] \in {"staged", "live"}
    /\ \A other \in Personas \ {p} : u \notin Photos(other)

(* The replaced photo goes, unless another slot still holds it.            *)
Replaced(p, s, u) ==
    LET photos == [personas[p].photos EXCEPT ![s] = u]
    IN  {personas[p].photos[s]} \ ({Nobody} \cup {photos[t] : t \in Slots})

fn_set_persona_photo(p, s, u) ==
    /\ p \in Living /\ Usable(p, u)
    /\ LET photos == [personas[p].photos EXCEPT ![s] = u]
           status == IF \E t \in Slots : photos[t] = Nobody THEN "draft" ELSE "ready"
       IN  personas' = [personas EXCEPT ![p] = [state |-> status, photos |-> photos]]
    /\ enqueueDeletions({"upload"} \X Replaced(p, s, u))
    /\ UNCHANGED <<bytes, rows, uploads, account, evidence, handlers, workers, faults>>

fn_delete_persona(p) ==
    /\ p \in Living
    /\ enqueueDeletions(trackPersonaObjects(p))
    /\ personas' = [personas EXCEPT ![p] = [NoPersona EXCEPT !.state = "gone"]]
    /\ UNCHANGED <<bytes, rows, uploads, account, evidence, handlers, workers, faults>>

-----------------------------------------------------------------------------
(* The cleanup worker.                                                     *)

Due == {o \in Objects : outbox[o] = "queued"}

claimDeletions(w) ==
    /\ workers[w].pc = "idle" /\ Due # {}
    /\ \E batch \in kSubset(IF Cardinality(Due) < Limit THEN Cardinality(Due) ELSE Limit, Due) :
          /\ outbox' = [o \in Objects |-> IF o \in batch THEN w ELSE outbox[o]]
          /\ workers' = [workers EXCEPT ![w].batch = batch, ![w].pc = "delete"]
    /\ UNCHANGED <<registry, bytes, content, account, evidence, handlers, faults>>

LeaseEnds(o) ==
    /\ outbox[o] \in Workers
    /\ Attempt(FALSE)
    /\ outbox' = [outbox EXCEPT ![o] = "queued"]
    /\ UNCHANGED <<registry, bytes, content, account, evidence, handlers, workers>>

(* A delete that threw may have landed, one that did not may have missed.  *)
deleteObject(w) ==
    /\ workers[w].pc = "delete"
    /\ \E o \in workers[w].batch, thrown, landed \in BOOLEAN :
          /\ Attempt(~thrown /\ landed)
          /\ bytes' = IF landed THEN bytes \ {o} ELSE bytes
          /\ workers' = [workers EXCEPT ![w].object = o, ![w].thrown = thrown,
                                        ![w].batch = @ \ {o}, ![w].pc = "look"]
    /\ UNCHANGED <<registry, outbox, content, account, evidence, handlers>>

(* A mutant: a delete that did not throw is taken at its word.             *)
DeleteTrusted(thrown, answer) == IF ~thrown \/ answer = "absent" THEN "gone" ELSE "failed"

(* Only an answer that the object is absent counts, thrown or not.         *)
removeAndVerify(thrown, answer) == IF answer = "absent" THEN "gone" ELSE "failed"

objectExists(w) ==
    LET there == IF workers[w].object \in bytes THEN "present" ELSE "absent" IN
    /\ workers[w].pc = "look"
    /\ \E answer \in {there, "none"} :
          /\ Attempt(answer # "none")
          /\ workers' = [workers EXCEPT ![w].verdict = removeAndVerify(workers[w].thrown, answer),
                                        ![w].pc = "acknowledge"]
    /\ UNCHANGED <<stored, content, account, evidence, handlers>>

(* fn_complete_deletion: a lease that is over acknowledges nothing.        *)
completeDeletion(w, o) ==
    IF outbox[o] # w THEN UNCHANGED <<registry, outbox>>
    ELSE IF workers[w].verdict = "gone"
    THEN /\ registry' = [registry EXCEPT ![o] = "gone"]
         /\ outbox' = [outbox EXCEPT ![o] = "done"]
    ELSE outbox' = [outbox EXCEPT ![o] = "queued"] /\ UNCHANGED registry

acknowledge(w) ==
    /\ workers[w].pc = "acknowledge"
    /\ \/ Attempt(TRUE) /\ completeDeletion(w, workers[w].object)
       \/ Attempt(FALSE) /\ UNCHANGED <<registry, outbox>>
    /\ workers' = [workers EXCEPT ![w] =
                     IF @.batch = {} THEN Resting
                     ELSE [Resting EXCEPT !.batch = workers[w].batch, !.pc = "delete"]]
    /\ UNCHANGED <<bytes, content, account, evidence, handlers>>

WorkerDies(w) ==
    /\ workers[w].pc # "idle"
    /\ Attempt(FALSE)
    /\ workers' = [workers EXCEPT ![w] = Resting]
    /\ UNCHANGED <<stored, content, account, evidence, handlers>>

-----------------------------------------------------------------------------
(* Account closure.                                                        *)

(* What a closure can reap now, and what stays for a job to finish.        *)
Reaped == {g \in Rows : rows[g].state \notin {"none", "gone"} /\ Reapable(g)}
Kept == {g \in Rows : rows[g].state \notin {"none", "gone"} /\ ~Reapable(g)}
ClosureObjects ==
    (UNION {trackGenerationObjects(g) : g \in Reaped})
    \cup (UNION {trackPersonaObjects(p) : p \in Living})

(* fn_advance_account_deletion, in one transaction: reap, and finalise the *)
(* data once no row is left.  The profile takes its uploads' rows along;   *)
(* evidence is held; the locators lose their owner and stay.               *)
advance ==
    LET final == Kept = {} IN
    /\ rows' = [g \in Rows |->
                  IF g \in Reaped THEN [NoRow EXCEPT !.state = "gone"]
                  ELSE IF g \in Kept THEN [rows[g] EXCEPT !.hidden = TRUE] ELSE rows[g]]
    /\ personas' = [p \in Personas |->
                      IF p \in Living THEN [NoPersona EXCEPT !.state = "gone"] ELSE personas[p]]
    /\ LET due == Deletable(registry, ClosureObjects)
           marked == [o \in Objects |-> IF o \in due THEN "delete_pending" ELSE registry[o]]
       IN  /\ outbox' = [o \in Objects |->
                          IF o \in due /\ outbox[o] = "none" THEN "queued" ELSE outbox[o]]
           /\ registry' = [o \in Objects |->
                IF final /\ o \in evidence /\ marked[o] # "gone" THEN "held" ELSE marked[o]]
    /\ uploads' = IF final THEN [u \in Uploads |-> "none"] ELSE uploads
    /\ account' = [account EXCEPT !.closing = TRUE, !.profile = ~final,
                                  !.status = IF final THEN "finalized" ELSE "processing"]
    /\ UNCHANGED <<bytes, evidence, handlers, workers, faults>>

deleteAccount == account.status = "none" /\ advance
advanceClosure == account.status = "processing" /\ advance

(* The gateway, then the worker on every tick, removes the sign-in record; *)
(* a user already absent counts as removed.                                *)
deleteAuthUser ==
    /\ account.status = "finalized"
    /\ account' = [account EXCEPT !.auth = FALSE]
    /\ UNCHANGED <<stored, content, evidence, handlers, workers, faults>>

finishOne ==
    /\ account.status = "finalized" /\ ~account.auth
    /\ account' = [account EXCEPT !.status = "completed"]
    /\ UNCHANGED <<stored, content, evidence, handlers, workers, faults>>

Next ==
    \/ \E h \in Handlers :
          \/ SaveEdit(h) \/ Import(h) \/ writeScratch(h) \/ moderateStoredImage(h)
          \/ quarantine(h) \/ quarantineFails(h) \/ recordEvidence(h)
          \/ refuseBlockedImage(h) \/ sweepScratch(h) \/ Die(h)
          \/ insertRow(h) \/ registerTarget(h) \/ putTarget(h)
          \/ recordSave(h) \/ dropStagedObject(h) \/ dropStagedRow(h)
          \/ recordThumb(h) \/ recordUpload(h) \/ recordVerdict(h)
          \/ \E u \in Uploads : Upload(h, u)
          \/ \E g \in Rows : Poster(h, g)
    \/ \E g \in Rows, yes \in BOOLEAN : Submit(g, yes) \/ SettleJob(g, yes)
    \/ \E g \in Rows : fn_delete_generation(g)
    \/ fn_reap_deleted
    \/ \E p \in Personas : fn_reserve_persona(p) \/ fn_delete_persona(p)
    \/ \E p \in Personas, s \in Slots, u \in Uploads : fn_set_persona_photo(p, s, u)
    \/ \E w \in Workers :
          claimDeletions(w) \/ deleteObject(w) \/ objectExists(w) \/ acknowledge(w)
          \/ WorkerDies(w)
    \/ \E o \in Objects : LeaseEnds(o)
    \/ deleteAccount \/ advanceClosure \/ deleteAuthUser \/ finishOne

Spec == Init /\ [][Next]_objectVars

-----------------------------------------------------------------------------
(* A moderation event that names an evidence copy names one that is there, *)
(* for the whole of its hold: through the removal of the original, the     *)
(* cleanup worker's ticks and the closure of the account.                  *)
EvidenceKept == evidence \subseteq bytes

(* A library row the customer can see as done has its bytes, and nothing   *)
(* has queued them for deletion, whatever requests and purges overlap.     *)
VisibleHasBytes ==
    \A g \in Rows :
        rows[g].state = "done" /\ ~rows[g].hidden =>
            Media(g) \in bytes /\ registry[Media(g)] \in {"staged", "live"}

(* An object recorded as gone is gone: no worker that timed out, lost its  *)
(* lease or got no answer may write off bytes that are still stored.       *)
(* Posters are left out: their path is the one a later request may write   *)
(* again (see the README).                                                 *)
GoneMeansGone ==
    \A o \in Objects : registry[o] = "gone" /\ o[1] # "thumb" => o \notin bytes

(* A photo in a living persona's slot is stored and not queued, whichever  *)
(* slots and personas shared or replaced it before.                        *)
PhotosKept ==
    \A p \in Living : \A u \in Photos(p) :
        <<"upload", u>> \in bytes /\ registry[<<"upload", u>>] \in {"staged", "live"}

(* Whatever a customer can see or has given a persona keeps its bytes.     *)
UsedHasBytes == VisibleHasBytes /\ PhotosKept

(* What moderation, the library and the personas refer to is all there.    *)
ReferredHasBytes == EvidenceKept /\ UsedHasBytes

(* deleteAccount "queues every locator": once the data of a closed account *)
(* is final, every byte still stored is queued for deletion or evidence.   *)
EveryLocatorQueued ==
    account.status \in {"finalized", "completed"} =>
        \A o \in bytes : outbox[o] # "none" \/ o \in evidence
=============================================================================
