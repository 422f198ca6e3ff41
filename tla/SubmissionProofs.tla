-------------------------- MODULE SubmissionProofs --------------------------
(***************************************************************************)
(* A key is charged once and strikes once, nothing blocked is charged, a   *)
(* retry repeats its original and no bucket is overdrawn: for any keys,    *)
(* bodies, requests at once and trouble.                                   *)
(*                                                                         *)
(* OncePerKey is not inductive.  Between the claim of a refusal and its    *)
(* strike or release the row is the claimant's alone (RowsInv); a strike   *)
(* that was counted keeps its refusal, so that it is never claimed again   *)
(* (StrikeInv); a taken key stays taken (PriorSeen), which is why a        *)
(* request that skips the moderation reserves nothing (Moderated).         *)
(***************************************************************************)
EXTENDS Submission, SequenceTheorems, FiniteSetTheorems, TLAPS

IsSeq(s) == s \in Seq(ToSet(s))

(* What is asked of the constants.  A key is not the mark of a mask sent   *)
(* as bytes, references come in a list, and what the library holds at the  *)
(* start was made before snapshots, under no key the client still uses.    *)
ConstantsFit ==
    /\ NoKey \notin Keys /\ RetryKeys \subseteq Keys \cup {NoKey}
    /\ "bytes" \notin Keys \cup {NoKey}
    /\ \A m \in Menus : \A ask \in m :
          ask.key \in Keys \cup {NoKey} /\ IsSeq(ask.body.refs)
    /\ PlanGrant \in Nat /\ PackGrant \in Nat
    /\ IsSeq(Library)
    /\ \A g \in DOMAIN Library :
          /\ {"key", "of", "kind", "status", "deleted", "recorded", "fromPlan", "fromPack"}
                \subseteq DOMAIN Library[g]
          /\ Library[g].key \notin Keys /\ ~Library[g].recorded /\ Library[g].of = 0
          /\ Library[g].fromPlan \in Nat /\ Library[g].fromPack \in Nat

-----------------------------------------------------------------------------
(* Sequences and records                                                   *)

LEMMA Joined ==
    ASSUME NEW s, NEW t, IsSeq(s), IsSeq(t)
    PROVE  /\ IsSeq(s \o t)
           /\ DOMAIN s = 1..Len(s) /\ DOMAIN t = 1..Len(t) /\ Len(s) \in Nat /\ Len(t) \in Nat
           /\ DOMAIN (s \o t) = 1..(Len(s) + Len(t))
           /\ \A i \in 1..Len(s) : (s \o t)[i] = s[i]
           /\ \A i \in 1..Len(t) : (s \o t)[Len(s) + i] = t[i]
<1> DEFINE S == ToSet(s) \cup ToSet(t)
<1>1. s \in Seq(S) /\ t \in Seq(S)
  BY DEF IsSeq
<1>2. /\ DOMAIN s = 1..Len(s) /\ DOMAIN t = 1..Len(t) /\ Len(s) \in Nat /\ Len(t) \in Nat
      /\ s \o t \in Seq(S) /\ Len(s \o t) = Len(s) + Len(t)
      /\ DOMAIN (s \o t) = 1..(Len(s) + Len(t))
  <2> HIDE DEF S
  <2> QED BY <1>1
<1>3. \A i \in 1..Len(s) : (s \o t)[i] = s[i]
  <2> HIDE DEF S
  <2> QED BY <1>1, <1>2
<1>4. \A i \in 1..Len(t) : (s \o t)[Len(s) + i] = t[i]
  <2> HIDE DEF S
  <2> QED BY <1>1, <1>2
<1>5. IsSeq(s \o t)
  <2> DEFINE q == s \o t
  <2>1. q \in [1..Len(q) -> S] /\ Len(q) \in Nat
    BY <1>2, LenProperties
  <2>2. q \in [1..Len(q) -> ToSet(q)]
    BY <2>1 DEF ToSet
  <2> HIDE DEF q
  <2>3. q \in Seq(ToSet(q))
    BY <2>1, <2>2, SeqDef
  <2> QED BY <2>3 DEF IsSeq, q
<1> QED
  BY <1>2, <1>3, <1>4, <1>5


LEMMA SeqLength == ASSUME NEW s, IsSeq(s) PROVE Len(s) \in Nat /\ DOMAIN s = 1..Len(s)
  BY DEF IsSeq

LEMMA ShortSeqs == ASSUME NEW x PROVE IsSeq(<<>>) /\ IsSeq(<<x>>)
<1>1. ToSet(<<x>>) = {x}
  BY DEF ToSet
<1> QED
  BY <1>1 DEF IsSeq

-----------------------------------------------------------------------------
(* The invariant.                                                          *)

(* Rebuilding a request from its snapshot and taking the snapshot again    *)
(* gives the same one: a mask that was sent as bytes is by then an upload. *)
Rebuilds(snapshot) ==
    /\ IsSeq(snapshot.uploads) /\ snapshot.mask # "bytes"
    /\ captureSnapshot(bodyOf(snapshot), snapshot.mask) = snapshot

Clean(g) ==
    /\ gens[g].snapshot.prompt \notin Flagged
    /\ gens[g].kind = "video" => ToSet(gens[g].snapshot.uploads) \cap Flagged = {}

Fields == {"key", "of", "kind", "status", "deleted", "recorded"}

GenOk(g) ==
    /\ Fields \subseteq DOMAIN gens[g]
    /\ gens[g].recorded =>
          /\ "snapshot" \in DOMAIN gens[g]
          /\ Rebuilds(gens[g].snapshot) /\ Clean(g)
    /\ gens[g].of # 0 =>
          /\ gens[g].of \in DOMAIN gens
          /\ gens[g].recorded /\ gens[gens[g].of].recorded
          /\ gens[g].snapshot = gens[gens[g].of].snapshot

GensInv == IsSeq(gens) /\ \A g \in DOMAIN gens : GenOk(g)

(* What a request is while it is served.                                   *)
Serving(r) ==
    /\ DOMAIN r = {"pc", "key", "body", "of", "prior", "tier", "checked"}
    /\ r.key \in Keys \cup {NoKey} /\ r.prior \in BOOLEAN /\ r.checked \in Nat
    /\ IsSeq(r.body.refs) /\ r.body.batch \in 1..4
    /\ r.pc = "claim" => r.key # NoKey

(* It is past the prompt's moderation only if the prompt is clean or the   *)
(* key is taken, and past its references only if they are.                 *)
Moderated(r) ==
    /\ \A i \in 1..Len(r.body.refs) : i <= r.checked => r.body.refs[i] \notin Flagged
    /\ ~r.prior /\ r.pc \in {"video", "look", "reference", "mask", "reserve"} =>
          r.body.prompt \notin Flagged
    /\ r.pc \in {"reference", "mask", "reserve"} /\ IsVideo(r.body) =>
          \A i \in 1..Len(r.body.refs) : r.body.refs[i] \notin Flagged

(* A key seen taken stays taken.                                           *)
PriorSeen(r) == r.prior => r.key \in DOMAIN submissions /\ ~submissions[r.key].refused

(* A retry asks for what its original's snapshot says.                     *)
Repeats(r) ==
    r.of # 0 =>
        /\ r.of \in DOMAIN gens /\ gens[r.of].recorded
        /\ r.body = bodyOf(gens[r.of].snapshot)

RunOk(r) == r = Idle \/ (Serving(r) /\ Moderated(r) /\ PriorSeen(r) /\ Repeats(r))

RunsInv == DOMAIN run = Handlers /\ \A h \in Handlers : RunOk(run[h])

(* A request that has claimed the refusal under its key, not done with it. *)
Claims(r) == r.pc \in {"event", "strike", "release"} /\ r.key # NoKey

RefusedRow(k) == k \in DOMAIN submissions /\ submissions[k].refused

RowsInv ==
    /\ DOMAIN submissions \subseteq Keys
    /\ \A k \in DOMAIN submissions : submissions[k].refused \in BOOLEAN
    /\ \A h \in Handlers : Claims(run[h]) => RefusedRow(run[h].key)
    /\ \A h, i \in Handlers : Claims(run[h]) /\ Claims(run[i]) /\ run[h].key = run[i].key => h = i

(* A strike that was counted leaves the refusal, and nobody claims it.     *)
StrikeInv ==
    /\ promptStrikes \in [Keys -> Nat]
    /\ \A k \in Keys :
          \/ k \in unsure
          \/ promptStrikes[k] = 0
          \/ /\ promptStrikes[k] = 1 /\ RefusedRow(k)
             /\ \A h \in Handlers : Claims(run[h]) => run[h].key # k

KeyInv == GensInv /\ RunsInv /\ RowsInv /\ StrikeInv /\ ChargedOnce

-----------------------------------------------------------------------------
(* A step of one request that leaves the books alone.                      *)

LEMMA RunKeeps ==
    ASSUME KeyInv, NEW h \in Handlers, NEW r, RunOk(r), run' = [run EXCEPT ![h] = r],
           Claims(r) => Claims(run[h]) /\ r.key = run[h].key,
           UNCHANGED <<submissions, gens, promptStrikes, unsure>>
    PROVE  KeyInv'
<1>1. /\ DOMAIN run' = Handlers /\ run'[h] = r
      /\ \A i \in Handlers : i # h => run'[i] = run[i]
  BY DEF KeyInv, RunsInv
<1>2. GensInv' /\ ChargedOnce'
  BY DEF KeyInv, GensInv, GenOk, Clean, ChargedOnce, Of
<1>3. \A q : RunOk(q)' <=> RunOk(q)
  BY DEF RunOk, PriorSeen, Repeats
<1>4. RunsInv'
  BY <1>1, <1>3 DEF KeyInv, RunsInv, RunOk, PriorSeen, Repeats
<1>5. RowsInv'
  BY <1>1 DEF KeyInv, RowsInv, RefusedRow
<1>6. StrikeInv'
  BY <1>1 DEF KeyInv, StrikeInv, RefusedRow
<1> QED
  BY <1>2, <1>4, <1>5, <1>6 DEF KeyInv

LEMMA AnswerKeeps ==
    ASSUME KeyInv, NEW h \in Handlers, Answer(h),
           UNCHANGED <<submissions, gens, promptStrikes, unsure>>
    PROVE  KeyInv'
<1>1. RunOk(Idle) /\ ~Claims(Idle)
  BY DEF RunOk, Claims, Idle
<1> QED
  BY <1>1, RunKeeps DEF Answer

(* A request being served goes on to another step.                         *)
LEMMA GotoKeeps ==
    ASSUME KeyInv, NEW h \in Handlers, NEW pc, Goto(h, pc), run[h] # Idle,
           UNCHANGED <<submissions, gens, promptStrikes, unsure>>,
           ~run[h].prior /\ pc \in {"video", "look", "reference", "mask", "reserve"} =>
              run[h].body.prompt \notin Flagged,
           pc \in {"reference", "mask", "reserve"} /\ IsVideo(run[h].body) =>
              \A i \in 1..Len(run[h].body.refs) : run[h].body.refs[i] \notin Flagged,
           pc \in {"event", "strike", "release"} /\ run[h].key # NoKey => Claims(run[h]),
           pc = "claim" => run[h].key # NoKey
    PROVE  KeyInv'
<1> DEFINE r == [run[h] EXCEPT !.pc = pc]
<1>1. Serving(run[h]) /\ Moderated(run[h]) /\ PriorSeen(run[h]) /\ Repeats(run[h])
  BY DEF KeyInv, RunsInv, RunOk
<1>2. /\ DOMAIN r = DOMAIN run[h] /\ r.pc = pc /\ r.key = run[h].key /\ r.body = run[h].body
      /\ r.of = run[h].of /\ r.prior = run[h].prior /\ r.checked = run[h].checked
  BY <1>1 DEF Serving
<1>3. run' = [run EXCEPT ![h] = r]
  BY DEF Goto
<1> HIDE DEF r
<1>4. RunOk(r)
  BY <1>1, <1>2 DEF RunOk, Serving, Moderated, PriorSeen, Repeats
<1>5. Claims(r) => Claims(run[h]) /\ r.key = run[h].key
  BY <1>2 DEF Claims
<1> QED
  BY <1>3, <1>4, <1>5, RunKeeps

-----------------------------------------------------------------------------
(* Snapshots.                                                              *)

LEMMA SnapshotRebuilds ==
    ASSUME NEW body, NEW mask, IsSeq(body.refs), mask # "bytes"
    PROVE  Rebuilds(captureSnapshot(body, mask))
<1> DEFINE shot == captureSnapshot(body, mask)
           again == bodyOf(shot)
<1>1. /\ shot.op = body.op /\ shot.prompt = body.prompt /\ shot.mask = mask
      /\ shot.persona = body.persona /\ shot.parent = body.parent
      /\ shot.family = IF body.persona # None /\ body.op # "upscale"
                         THEN "nano-banana" ELSE FamilyOf(body)
      /\ shot.uploads = IF IsVideo(body) THEN body.refs
                        ELSE IF body.ref # None THEN <<body.ref>> ELSE <<>>
      /\ shot.mode = IF IsVideo(body) THEN ModeOf(body) ELSE None
  BY DEF captureSnapshot
<1>2. /\ again.op = shot.op /\ again.family = shot.family /\ again.prompt = shot.prompt
      /\ again.mode = shot.mode /\ again.persona = shot.persona /\ again.parent = shot.parent
      /\ again.refs = IF shot.mode # None THEN shot.uploads ELSE <<>>
      /\ again.ref = IF shot.mode = None /\ shot.uploads # <<>> THEN shot.uploads[1] ELSE None
  BY DEF bodyOf, RequestOf
<1>3. IsSeq(shot.uploads)
  <2>1. CASE IsVideo(body)
    BY <1>1, <2>1
  <2>2. CASE ~IsVideo(body)
    BY <1>1, <2>2, ShortSeqs
  <2> QED
    BY <2>1, <2>2
<1>4. IsVideo(body) => ModeOf(body) # None
  BY DEF ModeOf, None
<1> HIDE DEF again, shot
<1>5. FamilyOf(again) =
        IF body.persona # None /\ body.op # "upscale" THEN "persona" ELSE FamilyOf(body)
  BY <1>1, <1>2 DEF FamilyOf
<1>6. IsVideo(again) <=> IsVideo(body)
  BY <1>5 DEF IsVideo, KindOf, FamilyOf, Videos
<1>7. /\ (IF again.persona # None /\ again.op # "upscale" THEN "nano-banana" ELSE FamilyOf(again))
         = shot.family
      /\ (IF IsVideo(again) THEN ModeOf(again) ELSE None) = shot.mode
  BY <1>1, <1>2, <1>4, <1>5, <1>6 DEF ModeOf
<1>8. (IF IsVideo(again) THEN again.refs
       ELSE IF again.ref # None THEN <<again.ref>> ELSE <<>>) = shot.uploads
  <2>1. CASE IsVideo(body)
    BY <1>1, <1>2, <1>4, <1>6, <2>1
  <2>2. CASE ~IsVideo(body) /\ body.ref # None
    BY <1>1, <1>2, <1>6, <2>2
  <2>3. CASE ~IsVideo(body) /\ body.ref = None
    BY <1>1, <1>2, <1>6, <2>3
  <2> QED
    BY <2>1, <2>2, <2>3
<1>9. captureSnapshot(again, shot.mask) = shot
  BY <1>1, <1>2, <1>7, <1>8 DEF captureSnapshot, shot
<1> QED
  BY <1>1, <1>3, <1>9 DEF Rebuilds, again, shot

-----------------------------------------------------------------------------
(* A request arrives.                                                      *)

LEMMA EnterKeeps ==
    ASSUME KeyInv, ConstantsFit, NEW h \in Handlers, NEW key \in Keys \cup {NoKey}, NEW body,
           NEW of, Enter(h, key, body, of), IsSeq(body.refs),
           of # 0 => of \in DOMAIN gens /\ gens[of].recorded /\ body = bodyOf(gens[of].snapshot),
           UNCHANGED <<submissions, gens, promptStrikes, unsure>>
    PROVE  KeyInv'
<1>1. CASE Malformed(body)
  BY <1>1, AnswerKeeps DEF Enter, Answer
<1>2. CASE ~Malformed(body)
  <2> DEFINE r == [pc |-> IF key = NoKey THEN "admit" ELSE "prior",
                   key |-> key, body |-> body, of |-> of, prior |-> FALSE,
                   tier |-> None, checked |-> 0]
  <2>1. run' = [run EXCEPT ![h] = r]
    BY <1>2 DEF Enter
  <2>2. /\ DOMAIN r = {"pc", "key", "body", "of", "prior", "tier", "checked"}
        /\ r.pc \in {"admit", "prior"} /\ r.key = key /\ r.body = body /\ r.of = of
        /\ r.prior = FALSE /\ r.checked = 0
    OBVIOUS
  <2>3. body.batch \in 1..4
    BY <1>2 DEF Malformed
  <2> HIDE DEF r
  <2>4. Len(body.refs) \in Nat
    BY SeqLength
  <2>5. Serving(r)
    <3>1. r.key \in Keys \cup {NoKey} /\ IsSeq(r.body.refs) /\ r.body.batch \in 1..4
      BY <2>2, <2>3
    <3>2. r.checked \in Nat
      BY <2>2
    <3>3. r.prior \in BOOLEAN
      BY <2>2
    <3> QED
      BY <2>2, <3>1, <3>2, <3>3 DEF Serving
  <2>8. PriorSeen(r)
    BY <2>2 DEF PriorSeen
  <2>9. Repeats(r)
    BY <2>2 DEF Repeats
  <2>6. Moderated(r)
    BY <2>2, <2>4 DEF Moderated
  <2>7. RunOk(r) /\ ~Claims(r)
    BY <2>2, <2>5, <2>6, <2>8, <2>9 DEF RunOk, Claims
  <2> QED
    BY <2>1, <2>7, RunKeeps
<1> QED
  BY <1>1, <1>2

LEMMA ArrivalKeeps ==
    ASSUME KeyInv, ConstantsFit, menu \in Menus, NEW h \in Handlers,
           Receive(h) \/ Retry(h) \/ Vary(h)
    PROVE  KeyInv'
<1>0. UNCHANGED <<submissions, gens, promptStrikes, unsure>>
  BY DEF Receive, Retry, Vary, books, ghosts
<1>1. CASE Receive(h)
  <2>1. PICK ask \in menu : Enter(h, ask.key, ask.body, 0)
    BY <1>1 DEF Receive
  <2>2. ask.key \in Keys \cup {NoKey} /\ IsSeq(ask.body.refs)
    BY DEF ConstantsFit
  <2> QED
    BY <1>0, <2>1, <2>2, EnterKeeps
<1>2. ASSUME NEW g \in DOMAIN gens, gens[g].recorded
      PROVE  IsSeq(bodyOf(gens[g].snapshot).refs)
  <2>1. IsSeq(gens[g].snapshot.uploads)
    BY <1>2 DEF KeyInv, GensInv, GenOk, Rebuilds
  <2>2. IsSeq(<<>>)
    BY DEF IsSeq, ToSet
  <2> QED
    BY <2>1, <2>2 DEF bodyOf, RequestOf
<1>3. run' = run => KeyInv'
  BY <1>0 DEF KeyInv, GensInv, GenOk, Clean, RunsInv, RunOk, PriorSeen, Repeats, RowsInv, StrikeInv,
     RefusedRow, ChargedOnce, Of
<1>4. CASE Retry(h)
  <2>1. PICK g \in Parents, k \in RetryKeys :
          /\ gens[g].recorded
          /\ IF Retryable(gens[g].snapshot)
               THEN Enter(h, k, bodyOf(gens[g].snapshot), g)
               ELSE UNCHANGED run
    BY <1>4 DEF Retry
  <2>2. g \in DOMAIN gens /\ k \in Keys \cup {NoKey}
    BY DEF Parents, ConstantsFit
  <2> QED
    BY <1>0, <1>2, <1>3, <2>1, <2>2, EnterKeeps
<1>5. CASE Vary(h)
  <2>1. PICK g \in Parents, k \in RetryKeys :
          /\ gens[g].recorded
          /\ IF Variable(gens[g].snapshot) /\ Retryable(gens[g].snapshot)
               THEN Enter(h, k, [bodyOf(gens[g].snapshot) EXCEPT !.parent = g], 0)
               ELSE UNCHANGED run
    BY <1>5 DEF Vary
  <2>2. g \in DOMAIN gens /\ k \in Keys \cup {NoKey}
    BY DEF Parents, ConstantsFit
  <2>3. [bodyOf(gens[g].snapshot) EXCEPT !.parent = g].refs = bodyOf(gens[g].snapshot).refs
    BY DEF bodyOf, RequestOf
  <2> QED
    BY <1>0, <1>2, <1>3, <2>1, <2>2, <2>3, EnterKeeps
<1> QED
  BY <1>1, <1>4, <1>5

-----------------------------------------------------------------------------
(* The steps of a request that leave the books alone.                      *)

LEMMA Served ==
    ASSUME KeyInv, NEW h \in Handlers, run[h].pc # "idle"
    PROVE  /\ run[h] # Idle
           /\ Serving(run[h]) /\ Moderated(run[h]) /\ PriorSeen(run[h]) /\ Repeats(run[h])
  BY DEF KeyInv, RunsInv, RunOk, Idle

LEMMA PriorKeeps ==
    ASSUME KeyInv, NEW h \in Handlers, PriorSubmission(h) PROVE KeyInv'
<1>0. run[h].pc = "prior" /\ UNCHANGED <<submissions, gens, promptStrikes, unsure>>
  BY DEF PriorSubmission, books, ghosts
<1>1. CASE Goto(h, "admit")
  BY <1>0, <1>1, Served, GotoKeeps
<1>2. CASE Answer(h)
  BY <1>0, <1>2, AnswerKeeps
<1>3. CASE /\ HasRow(h) /\ ~RowOf(h).refused
           /\ run' = [run EXCEPT ![h].pc = "admit", ![h].prior = TRUE]
  <2> DEFINE r == [run[h] EXCEPT !.pc = "admit", !.prior = TRUE]
  <2>1. /\ run[h] # Idle
        /\ Serving(run[h]) /\ Moderated(run[h]) /\ PriorSeen(run[h]) /\ Repeats(run[h])
    BY <1>0, Served
  <2>2. run' = [run EXCEPT ![h] = r]
    BY <1>3
  <2>3. /\ DOMAIN r = DOMAIN run[h] /\ r.pc = "admit" /\ r.key = run[h].key
        /\ r.body = run[h].body /\ r.of = run[h].of /\ r.checked = run[h].checked
    BY <2>1 DEF Serving
  <2>4. r.prior = TRUE
    BY <2>1 DEF Serving
  <2> HIDE DEF r
  <2>5. r.prior \in BOOLEAN
    BY <2>4
  <2>6. Serving(r)
    BY <2>1, <2>3, <2>5 DEF Serving
  <2>7. Moderated(r)
    BY <2>1, <2>3 DEF Moderated
  <2>8. PriorSeen(r)
    BY <1>3, <2>3 DEF PriorSeen, HasRow, RowOf
  <2>9. Repeats(r)
    BY <2>1, <2>3 DEF Repeats
  <2>10. RunOk(r) /\ ~Claims(r)
    BY <2>3, <2>6, <2>7, <2>8, <2>9 DEF RunOk, Claims
  <2> QED
    BY <1>0, <2>2, <2>10, RunKeeps
<1> QED
  BY <1>1, <1>2, <1>3 DEF PriorSubmission

LEMMA AdmitKeeps ==
    ASSUME KeyInv, NEW h \in Handlers, Admit(h) PROVE KeyInv'
<1>0. run[h].pc = "admit" /\ UNCHANGED <<submissions, gens, promptStrikes, unsure>>
  BY DEF Admit, books, ghosts
<1>1. CASE Answer(h)
  BY <1>0, <1>1, AnswerKeeps
<1>2. CASE run' = [run EXCEPT ![h].pc = "choose", ![h].tier = tier]
  <2> DEFINE r == [run[h] EXCEPT !.pc = "choose", !.tier = tier]
  <2>1. /\ run[h] # Idle
        /\ Serving(run[h]) /\ Moderated(run[h]) /\ PriorSeen(run[h]) /\ Repeats(run[h])
    BY <1>0, Served
  <2>2. run' = [run EXCEPT ![h] = r]
    BY <1>2
  <2>3. /\ DOMAIN r = DOMAIN run[h] /\ r.pc = "choose" /\ r.key = run[h].key
        /\ r.body = run[h].body /\ r.of = run[h].of /\ r.checked = run[h].checked
        /\ r.prior = run[h].prior
    BY <2>1 DEF Serving
  <2> HIDE DEF r
  <2>4. RunOk(r) /\ ~Claims(r)
    BY <2>1, <2>3 DEF RunOk, Serving, Moderated, PriorSeen, Repeats, Claims
  <2> QED
    BY <1>0, <2>2, <2>4, RunKeeps
<1> QED
  BY <1>1, <1>2 DEF Admit

LEMMA ModerationKeeps ==
    ASSUME KeyInv, NEW h \in Handlers, Choose(h) \/ Moderate(h) \/ RecordEvent(h)
    PROVE  KeyInv'
<1>0. run[h].pc # "idle" /\ UNCHANGED <<submissions, gens, promptStrikes, unsure>>
  BY DEF Choose, Moderate, RecordEvent, books, ghosts
<1>1. run[h] # Idle
  BY <1>0, Served
<1>2. CASE Answer(h)
  BY <1>0, <1>2, AnswerKeeps
<1>3. CASE Choose(h) /\ ~Answer(h)
  <2>1. CASE run[h].prior /\ Goto(h, "video")
    BY <1>0, <1>1, <2>1, GotoKeeps
  <2>2. CASE Goto(h, "moderate")
    BY <1>0, <1>1, <2>2, GotoKeeps
  <2> QED
    BY <1>3, <2>1, <2>2 DEF Choose
<1>4. CASE Moderate(h) /\ ~Answer(h)
  <2>1. CASE run[h].body.prompt \notin Flagged /\ Goto(h, "video")
    BY <1>0, <1>1, <2>1, GotoKeeps
  <2>2. CASE Keyed(h) /\ Goto(h, "claim")
    BY <1>0, <1>1, <2>2, GotoKeeps DEF Keyed
  <2>3. CASE ~Keyed(h) /\ Goto(h, "event")
    BY <1>0, <1>1, <2>3, GotoKeeps DEF Keyed
  <2> QED
    BY <1>4, <2>1, <2>2, <2>3 DEF Moderate, moderate, ModerationFailure, Body
<1>5. CASE RecordEvent(h) /\ ~Answer(h)
  <2>1. PICK pc \in {"strike", "release"} : Goto(h, pc)
    BY <1>5 DEF RecordEvent
  <2>2. run[h].key # NoKey => Claims(run[h])
    BY <1>5 DEF RecordEvent, Claims
  <2> QED
    BY <1>0, <1>1, <2>1, <2>2, GotoKeeps
<1> QED
  BY <1>2, <1>3, <1>4, <1>5

LEMMA LookKeeps ==
    ASSUME KeyInv, NEW h \in Handlers, LookAtReference(h) PROVE KeyInv'
<1>0. run[h].pc = "look" /\ UNCHANGED <<submissions, gens, promptStrikes, unsure>>
  BY DEF LookAtReference, books, ghosts
<1>1. /\ run[h] # Idle
      /\ Serving(run[h]) /\ Moderated(run[h]) /\ PriorSeen(run[h]) /\ Repeats(run[h])
  BY <1>0, Served
<1>2. Len(run[h].body.refs) \in Nat /\ run[h].checked \in Nat
  BY <1>1, SeqLength DEF Serving
<1>3. CASE Answer(h)
  BY <1>0, <1>3, AnswerKeeps
<1>4. CASE run[h].checked + 1 > Len(run[h].body.refs) /\ Goto(h, "reference")
  <2>1. \A i \in 1..Len(run[h].body.refs) : run[h].body.refs[i] \notin Flagged
    BY <1>1, <1>2, <1>4 DEF Moderated
  <2>2. ~run[h].prior => run[h].body.prompt \notin Flagged
    BY <1>0, <1>1 DEF Moderated
  <2> QED
    BY <1>0, <1>1, <1>4, <2>1, <2>2, GotoKeeps
<1>5. CASE Goto(h, "image")
  BY <1>0, <1>1, <1>5, GotoKeeps
<1>6. CASE /\ run[h].body.refs[run[h].checked + 1] \notin Flagged
           /\ run' = [run EXCEPT ![h].checked = run[h].checked + 1]
  <2> DEFINE r == [run[h] EXCEPT !.checked = run[h].checked + 1]
  <2>1. run' = [run EXCEPT ![h] = r]
    BY <1>6
  <2>2. /\ DOMAIN r = DOMAIN run[h] /\ r.pc = "look" /\ r.key = run[h].key
        /\ r.body = run[h].body /\ r.of = run[h].of /\ r.checked = run[h].checked + 1
        /\ r.prior = run[h].prior
    BY <1>0, <1>1 DEF Serving
  <2> HIDE DEF r
  <2>3. Serving(r)
    BY <1>1, <1>2, <2>2 DEF Serving
  <2>4. \A i \in 1..Len(r.body.refs) : i <= r.checked => r.body.refs[i] \notin Flagged
    <3> SUFFICES ASSUME NEW i \in 1..Len(run[h].body.refs), i <= run[h].checked + 1
                 PROVE  run[h].body.refs[i] \notin Flagged
      BY <2>2
    <3>1. i <= run[h].checked \/ i = run[h].checked + 1
      BY <1>2
    <3> QED
      BY <1>1, <1>6, <3>1 DEF Moderated
  <2>5. Moderated(r)
    BY <1>0, <1>1, <2>2, <2>4 DEF Moderated
  <2>6. RunOk(r) /\ ~Claims(r)
    BY <1>1, <2>2, <2>3, <2>5 DEF RunOk, PriorSeen, Repeats, Claims
  <2> QED
    BY <1>0, <2>1, <2>6, RunKeeps
<1> QED
  BY <1>3, <1>4, <1>5, <1>6 DEF LookAtReference, moderate, ModerationFailure, Body

LEMMA ReferencesKeep ==
    ASSUME KeyInv, NEW h \in Handlers,
           PrepareVideo(h) \/ StrikeImage(h) \/ ResolveReference(h) \/ StoreMask(h)
    PROVE  KeyInv'
<1>0. /\ run[h].pc \in {"video", "image", "reference", "mask"}
      /\ UNCHANGED <<submissions, gens, promptStrikes, unsure>>
  BY DEF PrepareVideo, StrikeImage, ResolveReference, StoreMask, books, ghosts
<1>1. run[h] # Idle /\ Serving(run[h]) /\ Moderated(run[h])
  BY <1>0, Served
<1>2. CASE Answer(h)
  BY <1>0, <1>2, AnswerKeeps
<1>3. CASE run[h].pc = "video" /\ Goto(h, "reference") /\ ~IsVideo(run[h].body)
  BY <1>0, <1>1, <1>3, GotoKeeps DEF Moderated
<1>4. CASE run[h].pc = "video" /\ Goto(h, "look")
  BY <1>0, <1>1, <1>4, GotoKeeps DEF Moderated
<1>5. CASE run[h].pc = "reference" /\ Goto(h, "mask")
  BY <1>0, <1>1, <1>5, GotoKeeps DEF Moderated
<1>6. CASE run[h].pc = "mask" /\ Goto(h, "reserve")
  BY <1>0, <1>1, <1>6, GotoKeeps DEF Moderated
<1> QED
  BY <1>2, <1>3, <1>4, <1>5, <1>6
     DEF PrepareVideo, StrikeImage, ResolveReference, StoreMask, Body

-----------------------------------------------------------------------------
(* The refusal under a key and its strike.                                 *)

LEMMA ClaimKeeps ==
    ASSUME KeyInv, ConstantsFit, NEW h \in Handlers, ClaimRefusal(h) PROVE KeyInv'
<1>0. run[h].pc = "claim" /\ UNCHANGED <<gens, promptStrikes, unsure>>
  BY DEF ClaimRefusal, ghosts
<1>1. /\ run[h] # Idle
      /\ Serving(run[h]) /\ Moderated(run[h]) /\ PriorSeen(run[h]) /\ Repeats(run[h])
  BY <1>0, Served
<1>2. CASE Answer(h) /\ UNCHANGED submissions
  BY <1>0, <1>2, AnswerKeeps
<1>3. CASE ~HasRow(h) /\ Goto(h, "event") /\ submissions' = With(h, TRUE)
  <2> DEFINE k == run[h].key
             r == [run[h] EXCEPT !.pc = "event"]
  <2>1. k \in Keys /\ k \notin DOMAIN submissions
    BY <1>0, <1>1, <1>3 DEF Serving, HasRow
  <2>2. /\ DOMAIN run' = Handlers /\ run'[h] = r
        /\ \A i \in Handlers : i # h => run'[i] = run[i]
    BY <1>3 DEF KeyInv, RunsInv, Goto
  <2>3. /\ DOMAIN r = DOMAIN run[h] /\ r.pc = "event" /\ r.key = k
        /\ r.body = run[h].body /\ r.of = run[h].of /\ r.checked = run[h].checked
        /\ r.prior = run[h].prior
    BY <1>1 DEF Serving
  <2>4. /\ DOMAIN submissions' = DOMAIN submissions \cup {k}
        /\ submissions'[k].refused = TRUE
        /\ \A x \in DOMAIN submissions : submissions'[x] = submissions[x]
    BY <1>3, <2>1 DEF With
  <2> HIDE DEF r, k
  <2>5. \A q : RunOk(q) => RunOk(q)'
    BY <1>0, <2>4 DEF RunOk, PriorSeen, Repeats
  <2>6. RunOk(r)
    BY <1>1, <2>3 DEF RunOk, Serving, Moderated, PriorSeen, Repeats, k
  <2>7. RunsInv'
    BY <2>2, <2>5, <2>6 DEF KeyInv, RunsInv
  <2>8. \A i \in Handlers : i # h /\ Claims(run[i]) => run[i].key # k
    BY <2>1 DEF KeyInv, RowsInv, RefusedRow
  <2>9. \A x \in DOMAIN submissions' : submissions'[x].refused \in BOOLEAN
    <3>1. submissions'[k].refused \in BOOLEAN
      BY <2>4
    <3> QED
      BY <2>4, <3>1 DEF KeyInv, RowsInv
  <2>10. \A x : x = k \/ RefusedRow(x) => RefusedRow(x)'
    BY <2>4 DEF RefusedRow
  <2>11. RowsInv'
    BY <2>1, <2>2, <2>3, <2>4, <2>8, <2>9, <2>10 DEF KeyInv, RowsInv, Claims, RefusedRow
  <2>12. promptStrikes[k] = 0 \/ k \in unsure
    BY <2>1 DEF KeyInv, StrikeInv, RefusedRow
  <2>13. StrikeInv'
    <3> SUFFICES ASSUME NEW x \in Keys
                 PROVE  \/ x \in unsure
                        \/ promptStrikes[x] = 0
                        \/ /\ promptStrikes[x] = 1 /\ RefusedRow(x)'
                           /\ \A i \in Handlers : Claims(run[i])' => run'[i].key # x
      BY <1>0 DEF KeyInv, StrikeInv, Claims
    <3>1. CASE x = k
      BY <2>12, <3>1
    <3>2. CASE x # k
      BY <2>2, <2>3, <2>10, <3>2 DEF KeyInv, StrikeInv, Claims
    <3> QED
      BY <3>1, <3>2
  <2>14. GensInv'
    BY <1>0 DEF KeyInv, GensInv, GenOk, Clean
  <2>15. ChargedOnce'
    <3> SUFFICES ASSUME NEW x \in Keys
                 PROVE  Cardinality(Of(x)) =
                          IF x \in DOMAIN submissions' /\ ~submissions'[x].refused
                            THEN Batch(submissions'[x].body) ELSE 0
      BY <1>0 DEF ChargedOnce, Of
    <3>1. Cardinality(Of(x)) = IF x \in DOMAIN submissions /\ ~submissions[x].refused
                                 THEN Batch(submissions[x].body) ELSE 0
      BY DEF KeyInv, ChargedOnce
    <3>2. CASE x = k
      BY <2>1, <2>4, <3>1, <3>2
    <3>3. CASE x # k
      BY <2>4, <3>1, <3>3
    <3> QED
      BY <3>2, <3>3
  <2> QED
    BY <2>7, <2>11, <2>13, <2>14, <2>15 DEF KeyInv
<1> QED
  BY <1>2, <1>3 DEF ClaimRefusal

LEMMA StrikeKeeps ==
    ASSUME KeyInv, ConstantsFit, NEW h \in Handlers, IncrementStrike(h) PROVE KeyInv'
<1>0. run[h].pc = "strike" /\ UNCHANGED <<submissions, gens>>
  BY DEF IncrementStrike, books
<1>1. run[h] # Idle /\ Serving(run[h])
  BY <1>0, Served
<1>2. run[h].key # NoKey => Claims(run[h]) /\ run[h].key \in Keys
  BY <1>0, <1>1 DEF Claims, Serving
<1>3. CASE UNCHANGED <<promptStrikes, unsure>>
  <2>1. CASE Answer(h)
    BY <1>0, <1>3, <2>1, AnswerKeeps
  <2>2. CASE Keyed(h) /\ Goto(h, "release")
    BY <1>0, <1>1, <1>2, <1>3, <2>2, GotoKeeps
  <2> QED
    BY <1>3, <2>1, <2>2 DEF IncrementStrike
<1>4. CASE ~Keyed(h)
  <2>1. Answer(h) /\ promptStrikes' = promptStrikes /\ unsure \subseteq unsure'
    BY <1>4 DEF IncrementStrike, Counted
  <2>2. /\ DOMAIN run' = Handlers /\ run'[h] = Idle
        /\ \A i \in Handlers : i # h => run'[i] = run[i]
    BY <2>1 DEF KeyInv, RunsInv, Answer
  <2>3. RunOk(Idle) /\ ~Claims(Idle)
    BY DEF RunOk, Claims, Idle
  <2>4. RunsInv'
    BY <1>0, <2>2, <2>3 DEF KeyInv, RunsInv, RunOk, PriorSeen, Repeats
  <2>5. RowsInv' /\ StrikeInv'
    BY <1>0, <2>1, <2>2, <2>3 DEF KeyInv, RowsInv, StrikeInv, RefusedRow
  <2> QED
    BY <1>0, <2>4, <2>5 DEF KeyInv, GensInv, GenOk, Clean, ChargedOnce, Of
<1>5. CASE Keyed(h) /\ Answer(h) /\ promptStrikes' = Counted(promptStrikes, h) /\ UNCHANGED unsure
  <2> DEFINE k == run[h].key
  <2>1. /\ DOMAIN run' = Handlers /\ run'[h] = Idle
        /\ \A i \in Handlers : i # h => run'[i] = run[i]
    BY <1>5 DEF KeyInv, RunsInv, Answer
  <2>2. RunOk(Idle) /\ ~Claims(Idle)
    BY DEF RunOk, Claims, Idle
  <2>3. RunsInv'
    BY <1>0, <2>1, <2>2 DEF KeyInv, RunsInv, RunOk, PriorSeen, Repeats
  <2>4. k \in Keys /\ Claims(run[h]) /\ RefusedRow(k)
    BY <1>2, <1>5 DEF Keyed, KeyInv, RowsInv
  <2>5. \A i \in Handlers : i # h /\ Claims(run[i]) => run[i].key # k
    BY <2>4 DEF KeyInv, RowsInv
  <2>6. promptStrikes[k] = 0 \/ k \in unsure
    BY <2>4 DEF KeyInv, StrikeInv
  <2>7. promptStrikes' = [promptStrikes EXCEPT ![k] = promptStrikes[k] + 1]
    BY <1>5 DEF Counted
  <2>8. RowsInv'
    BY <1>0, <2>1, <2>2 DEF KeyInv, RowsInv, RefusedRow
  <2>9. StrikeInv'
    <3>1. promptStrikes' \in [Keys -> Nat]
      BY <2>4, <2>7 DEF KeyInv, StrikeInv
    <3>2. \A x \in Keys : x # k => promptStrikes'[x] = promptStrikes[x]
      BY <2>7 DEF KeyInv, StrikeInv
    <3>3. promptStrikes'[k] = promptStrikes[k] + 1
      BY <2>4, <2>7 DEF KeyInv, StrikeInv
    <3>4. \A i \in Handlers : Claims(run[i])' => Claims(run[i]) /\ i # h
      BY <2>1, <2>2 DEF Claims
    <3> HIDE DEF k
    <3>5. ASSUME NEW x \in Keys
          PROVE  \/ x \in unsure'
                 \/ promptStrikes'[x] = 0
                 \/ /\ promptStrikes'[x] = 1 /\ RefusedRow(x)'
                    /\ \A i \in Handlers : Claims(run[i])' => run'[i].key # x
      <4>1. CASE x = k
        BY <1>0, <1>5, <2>1, <2>4, <2>5, <2>6, <3>3, <3>4, <4>1 DEF RefusedRow
      <4>2. CASE x # k
        BY <1>0, <1>5, <2>1, <3>2, <3>4, <4>2 DEF KeyInv, StrikeInv, RefusedRow
      <4> QED
        BY <4>1, <4>2
    <3> QED
      BY <3>1, <3>5 DEF StrikeInv, Claims
  <2> QED
    BY <1>0, <2>3, <2>8, <2>9 DEF KeyInv, GensInv, GenOk, Clean, ChargedOnce, Of
<1>6. CASE /\ Keyed(h) /\ Goto(h, "release") /\ promptStrikes' = Counted(promptStrikes, h)
           /\ unsure' = unsure \cup {run[h].key}
  <2> DEFINE k == run[h].key
             r == [run[h] EXCEPT !.pc = "release"]
  <2>1. /\ DOMAIN run' = Handlers /\ run'[h] = r
        /\ \A i \in Handlers : i # h => run'[i] = run[i]
    BY <1>6 DEF KeyInv, RunsInv, Goto
  <2>2. /\ DOMAIN r = DOMAIN run[h] /\ r.pc = "release" /\ r.key = k
        /\ r.body = run[h].body /\ r.of = run[h].of /\ r.checked = run[h].checked
        /\ r.prior = run[h].prior
    BY <1>1 DEF Serving
  <2>3. k \in Keys /\ Claims(run[h])
    BY <1>2, <1>6 DEF Keyed
  <2>4. promptStrikes' = [promptStrikes EXCEPT ![k] = promptStrikes[k] + 1]
    BY <1>6 DEF Counted
  <2>5. Moderated(run[h]) /\ PriorSeen(run[h]) /\ Repeats(run[h])
    BY <1>0, Served
  <2> HIDE DEF r
  <2>6. RunOk(r)
    BY <1>1, <2>2, <2>5 DEF RunOk, Serving, Moderated, PriorSeen, Repeats
  <2>7. RunsInv'
    BY <1>0, <2>1, <2>6 DEF KeyInv, RunsInv, RunOk, PriorSeen, Repeats
  <2>8. \A i \in Handlers : Claims(run[i])' => Claims(run[i]) /\ run'[i].key = run[i].key
    BY <2>1, <2>2, <2>3 DEF Claims
  <2>9. RowsInv'
    BY <1>0, <2>8 DEF KeyInv, RowsInv, RefusedRow, Claims
  <2>10. StrikeInv'
    <3>1. promptStrikes' \in [Keys -> Nat]
      BY <2>3, <2>4 DEF KeyInv, StrikeInv
    <3>2. \A x \in Keys : x # k => promptStrikes'[x] = promptStrikes[x]
      BY <2>4 DEF KeyInv, StrikeInv
    <3> HIDE DEF k
    <3>3. ASSUME NEW x \in Keys
          PROVE  \/ x \in unsure'
                 \/ promptStrikes'[x] = 0
                 \/ /\ promptStrikes'[x] = 1 /\ RefusedRow(x)'
                    /\ \A i \in Handlers : Claims(run[i])' => run'[i].key # x
      <4>1. CASE x = k
        BY <1>6, <4>1 DEF k
      <4>2. CASE x # k
        BY <1>0, <1>6, <2>8, <3>2, <4>2 DEF KeyInv, StrikeInv, RefusedRow
      <4> QED
        BY <4>1, <4>2
    <3> QED
      BY <3>1, <3>3 DEF StrikeInv, Claims
  <2> QED
    BY <1>0, <2>7, <2>9, <2>10 DEF KeyInv, GensInv, GenOk, Clean, ChargedOnce, Of
<1> QED
  BY <1>3, <1>4, <1>5, <1>6 DEF IncrementStrike

LEMMA ReleaseKeeps ==
    ASSUME KeyInv, ConstantsFit, NEW h \in Handlers, ReleaseRefusal(h) PROVE KeyInv'
<1>0. run[h].pc = "release" /\ Answer(h) /\ UNCHANGED <<gens, promptStrikes, unsure>>
  BY DEF ReleaseRefusal, ghosts
<1>1. CASE UNCHANGED submissions
  BY <1>0, <1>1, AnswerKeeps
<1>2. CASE submissions' = Restrict(submissions, DOMAIN submissions \ {run[h].key})
  <2> DEFINE k == run[h].key
  <2>1. /\ DOMAIN run' = Handlers /\ run'[h] = Idle
        /\ \A i \in Handlers : i # h => run'[i] = run[i]
    BY <1>0 DEF KeyInv, RunsInv, Answer
  <2>2. RunOk(Idle) /\ ~Claims(Idle)
    BY DEF RunOk, Claims, Idle
  <2>3. /\ DOMAIN submissions' = DOMAIN submissions \ {k}
        /\ \A x \in DOMAIN submissions : x # k => submissions'[x] = submissions[x]
    BY <1>2 DEF Restrict
  <2>4. k \in DOMAIN submissions => RefusedRow(k) /\ Claims(run[h])
    BY <1>0 DEF Claims, KeyInv, RowsInv, ConstantsFit
  <2>5. \A i \in Handlers : i # h /\ Claims(run[i]) => run[i].key # k \/ k \notin DOMAIN submissions
    BY <2>4 DEF KeyInv, RowsInv
  <2> HIDE DEF k
  <2>6. \A q : RunOk(q) => RunOk(q)'
    BY <1>0, <2>3, <2>4 DEF RunOk, PriorSeen, Repeats, RefusedRow
  <2>7. RunsInv'
    BY <2>1, <2>2, <2>6 DEF KeyInv, RunsInv
  <2>8. RowsInv'
    BY <2>1, <2>2, <2>3, <2>5 DEF KeyInv, RowsInv, RefusedRow
  <2>9. k \in Keys => k \in unsure \/ promptStrikes[k] = 0 \/ k \notin DOMAIN submissions
    BY <2>4 DEF KeyInv, StrikeInv, k
  <2>10. \A i \in Handlers : Claims(run[i])' => Claims(run[i]) /\ run'[i].key = run[i].key
    BY <2>1, <2>2 DEF Claims
  <2>11. ASSUME NEW x \in Keys
         PROVE  \/ x \in unsure
                \/ promptStrikes[x] = 0
                \/ /\ promptStrikes[x] = 1 /\ RefusedRow(x)'
                   /\ \A i \in Handlers : Claims(run[i])' => run'[i].key # x
    <3>1. CASE x = k
      BY <2>9, <3>1 DEF KeyInv, StrikeInv, RefusedRow
    <3>2. CASE x # k
      BY <2>3, <2>10, <3>2 DEF KeyInv, StrikeInv, RefusedRow
    <3> QED
      BY <3>1, <3>2
  <2>12. StrikeInv'
    BY <1>0, <2>11 DEF KeyInv, StrikeInv, Claims
  <2>13. ChargedOnce'
    BY <1>0, <2>3, <2>4 DEF KeyInv, ChargedOnce, Of, RefusedRow
  <2> QED
    BY <1>0, <2>7, <2>8, <2>12, <2>13 DEF KeyInv, GensInv, GenOk, Clean
<1> QED
  BY <1>1, <1>2 DEF ReleaseRefusal

-----------------------------------------------------------------------------
(* The reservation.                                                        *)

LEMMA ReservedAre ==
    ASSUME KeyInv, NEW h \in Handlers, run[h].pc # "idle"
    PROVE  /\ IsSeq(Reserved(h)) /\ Len(Reserved(h)) = Batch(Body(h)) /\ Batch(Body(h)) \in 1..4
           /\ \A i \in 1..Batch(Body(h)) :
                /\ Fields \cup {"snapshot"} \subseteq DOMAIN Reserved(h)[i]
                /\ Reserved(h)[i].key = run[h].key /\ Reserved(h)[i].of = run[h].of
                /\ Reserved(h)[i].kind = KindOf(FamilyOf(Body(h))) /\ Reserved(h)[i].recorded
                /\ Reserved(h)[i].snapshot = captureSnapshot(Body(h), MaskOf(h))
<1> DEFINE n == Batch(Body(h))
           new == Reserved(h)
<1>1. n \in 1..4 /\ n \in Nat
  BY Served DEF Serving, Batch, Body
<1>2. /\ DOMAIN new = 1..n /\ new = [i \in 1..n |-> new[i]]
      /\ \A i \in 1..n :
           /\ Fields \cup {"snapshot"} \subseteq DOMAIN new[i]
           /\ new[i].key = run[h].key /\ new[i].of = run[h].of
           /\ new[i].kind = KindOf(FamilyOf(Body(h))) /\ new[i].recorded
           /\ new[i].snapshot = captureSnapshot(Body(h), MaskOf(h))
  BY DEF Reserved, Fields
<1> HIDE DEF new, n
<1>3. new \in [1..n -> ToSet(new)]
  BY <1>2 DEF ToSet
<1>4. new \in Seq(ToSet(new))
  BY <1>1, <1>3, SeqDef
<1>5. Len(new) = n
  BY <1>1, <1>2, <1>4, LenProperties
<1> QED
  BY <1>1, <1>2, <1>4, <1>5 DEF IsSeq, n, new

LEMMA ReservedAreOk ==
    ASSUME KeyInv, ConstantsFit, NEW h \in Handlers, run[h].pc = "reserve", ~Known(h)
    PROVE  LET shot == captureSnapshot(Body(h), MaskOf(h))
           IN  /\ Rebuilds(shot) /\ shot.prompt \notin Flagged
               /\ KindOf(FamilyOf(Body(h))) = "video" => ToSet(shot.uploads) \cap Flagged = {}
               /\ run[h].of # 0 =>
                     /\ run[h].of \in DOMAIN gens /\ gens[run[h].of].recorded
                     /\ shot = gens[run[h].of].snapshot
<1> DEFINE shot == captureSnapshot(Body(h), MaskOf(h))
<1>1. Serving(run[h]) /\ Moderated(run[h]) /\ PriorSeen(run[h]) /\ Repeats(run[h])
  BY Served
<1>2. ~run[h].prior
  BY <1>1 DEF PriorSeen, Known, Keyed, HasRow, KeyInv, RowsInv, ConstantsFit
<1>3. IsSeq(Body(h).refs) /\ MaskOf(h) # "bytes"
  BY <1>1 DEF Serving, Body, MaskOf, ConstantsFit
<1>4. Rebuilds(shot)
  BY <1>3, SnapshotRebuilds
<1>5. shot.prompt \notin Flagged
  BY <1>1, <1>2 DEF captureSnapshot, Moderated, Body
<1>6. ASSUME KindOf(FamilyOf(Body(h))) = "video" PROVE ToSet(shot.uploads) \cap Flagged = {}
  <2>1. IsVideo(Body(h)) /\ shot.uploads = Body(h).refs
    BY <1>6 DEF IsVideo, captureSnapshot
  <2>2. DOMAIN Body(h).refs = 1..Len(Body(h).refs)
    BY <1>3, SeqLength
  <2> QED
    BY <1>1, <2>1, <2>2 DEF Moderated, Body, ToSet
<1>7. ASSUME run[h].of # 0
      PROVE  /\ run[h].of \in DOMAIN gens /\ gens[run[h].of].recorded
             /\ shot = gens[run[h].of].snapshot
  <2> DEFINE original == gens[run[h].of].snapshot
  <2>1. /\ run[h].of \in DOMAIN gens /\ gens[run[h].of].recorded /\ Body(h) = bodyOf(original)
    BY <1>1, <1>7 DEF Repeats, Body
  <2>2. Rebuilds(original)
    BY <2>1 DEF KeyInv, GensInv, GenOk
  <2>3. Body(h).mask = original.mask
    BY <2>1 DEF bodyOf, RequestOf
  <2> QED
    BY <2>1, <2>2, <2>3 DEF Rebuilds, MaskOf
<1> QED
  BY <1>4, <1>5, <1>6, <1>7

(* What a reservation appends, and what of the generations it leaves.      *)
LEMMA Appended ==
    ASSUME KeyInv, NEW h \in Handlers, run[h].pc # "idle", gens' = gens \o Reserved(h)
    PROVE  /\ IsSeq(gens') /\ Len(gens) \in Nat /\ DOMAIN gens = 1..Len(gens)
           /\ DOMAIN gens' = 1..(Len(gens) + Batch(Body(h)))
           /\ \A g \in DOMAIN gens : g \in DOMAIN gens' /\ gens'[g] = gens[g]
           /\ \A g \in DOMAIN gens' \ DOMAIN gens :
                 \E i \in 1..Batch(Body(h)) : gens'[g] = Reserved(h)[i]
<1> DEFINE n == Batch(Body(h))
           new == Reserved(h)
<1>1. IsSeq(gens) /\ IsSeq(new) /\ Len(new) = n /\ n \in 1..4
  BY ReservedAre DEF KeyInv, GensInv
<1> HIDE DEF new, n
<1>2. /\ IsSeq(gens \o new)
      /\ DOMAIN gens = 1..Len(gens) /\ Len(gens) \in Nat
      /\ DOMAIN (gens \o new) = 1..(Len(gens) + n)
      /\ \A i \in 1..Len(gens) : (gens \o new)[i] = gens[i]
      /\ \A i \in 1..n : (gens \o new)[Len(gens) + i] = new[i]
  BY <1>1, Joined
<1>3. gens' = gens \o new
  BY DEF new
<1>4. ASSUME NEW g \in DOMAIN gens' \ DOMAIN gens PROVE \E i \in 1..n : gens'[g] = new[i]
  <2>1. g - Len(gens) \in 1..n /\ g = Len(gens) + (g - Len(gens))
    BY <1>1, <1>2, <1>3
  <2> QED
    BY <1>2, <1>3, <2>1
<1> QED
  BY <1>1, <1>2, <1>3, <1>4 DEF n, new

LEMMA ChargeKeeps ==
    ASSUME KeyInv, ConstantsFit, NEW h \in Handlers, run[h].pc = "reserve", ~Known(h), Charge(h),
           Answer(h), UNCHANGED ghosts
    PROVE  KeyInv'
<1> DEFINE k == run[h].key
           n == Batch(Body(h))
           new == Reserved(h)
           shot == captureSnapshot(Body(h), MaskOf(h))
<1>1. /\ run[h] # Idle
      /\ Serving(run[h]) /\ Moderated(run[h]) /\ PriorSeen(run[h]) /\ Repeats(run[h])
  BY Served
<1>2. gens' = gens \o new /\ submissions' = IF Keyed(h) THEN With(h, FALSE) ELSE submissions
  BY DEF Charge
<1>3. /\ IsSeq(gens') /\ Len(gens) \in Nat /\ DOMAIN gens = 1..Len(gens)
      /\ DOMAIN gens' = 1..(Len(gens) + n)
      /\ \A g \in DOMAIN gens : g \in DOMAIN gens' /\ gens'[g] = gens[g]
      /\ \A g \in DOMAIN gens' \ DOMAIN gens : \E i \in 1..n : gens'[g] = new[i]
  BY <1>2, Appended
<1>4. /\ n \in 1..4
      /\ \A i \in 1..n :
           /\ Fields \cup {"snapshot"} \subseteq DOMAIN new[i]
           /\ new[i].key = k /\ new[i].of = run[h].of
           /\ new[i].kind = KindOf(FamilyOf(Body(h))) /\ new[i].recorded /\ new[i].snapshot = shot
  BY ReservedAre
<1>5. /\ Rebuilds(shot) /\ shot.prompt \notin Flagged
      /\ KindOf(FamilyOf(Body(h))) = "video" => ToSet(shot.uploads) \cap Flagged = {}
      /\ run[h].of # 0 =>
            /\ run[h].of \in DOMAIN gens /\ gens[run[h].of].recorded
            /\ shot = gens[run[h].of].snapshot
  BY ReservedAreOk
<1> HIDE DEF new, shot
<1>6. \A g \in DOMAIN gens' \ DOMAIN gens :
         /\ Fields \cup {"snapshot"} \subseteq DOMAIN gens'[g]
         /\ gens'[g].key = k /\ gens'[g].of = run[h].of
         /\ gens'[g].kind = KindOf(FamilyOf(Body(h))) /\ gens'[g].recorded
         /\ gens'[g].snapshot = shot
  BY <1>3, <1>4
<1>7. GensInv'
  <2>1. ASSUME NEW g \in DOMAIN gens PROVE GenOk(g)'
    BY <1>3, <2>1 DEF KeyInv, GensInv, GenOk, Clean
  <2>2. ASSUME NEW g \in DOMAIN gens' \ DOMAIN gens PROVE GenOk(g)'
    <3>1. Fields \subseteq DOMAIN gens'[g] /\ "snapshot" \in DOMAIN gens'[g]
      BY <1>6
    <3>2. Rebuilds(gens'[g].snapshot)
      BY <1>5, <1>6
    <3>3. Clean(g)'
      BY <1>5, <1>6 DEF Clean
    <3>4. gens'[g].of # 0 =>
             /\ gens'[g].of \in DOMAIN gens' /\ gens'[g].recorded /\ gens'[gens'[g].of].recorded
             /\ gens'[g].snapshot = gens'[gens'[g].of].snapshot
      BY <1>3, <1>5, <1>6
    <3> QED
      BY <3>1, <3>2, <3>3, <3>4 DEF GenOk
  <2> QED
    BY <1>3, <2>1, <2>2 DEF GensInv
<1>8. /\ DOMAIN run' = Handlers /\ run'[h] = Idle
      /\ \A i \in Handlers : i # h => run'[i] = run[i]
  BY DEF KeyInv, RunsInv, Answer
<1>9. RunOk(Idle) /\ ~Claims(Idle)
  BY DEF RunOk, Claims, Idle
<1>10. \A x \in DOMAIN submissions : x \in DOMAIN submissions' /\ submissions'[x] = submissions[x]
  BY <1>2 DEF With, Known, HasRow
<1>11. \A q : RunOk(q) => RunOk(q)'
  BY <1>3, <1>10 DEF RunOk, PriorSeen, Repeats
<1>12. RunsInv'
  BY <1>8, <1>9, <1>11 DEF KeyInv, RunsInv
<1>13. \A x : RefusedRow(x) => RefusedRow(x)'
  BY <1>10 DEF RefusedRow
<1>14. /\ ~Keyed(h) => submissions' = submissions /\ k = NoKey
       /\ Keyed(h) =>
            /\ k \in Keys /\ k \notin DOMAIN submissions
            /\ DOMAIN submissions' = DOMAIN submissions \cup {k}
            /\ submissions'[k].refused = FALSE /\ submissions'[k].body = Body(h)
  BY <1>1, <1>2 DEF Keyed, With, Known, HasRow, Serving
<1>15. \A x \in DOMAIN submissions' : submissions'[x].refused \in BOOLEAN
  <2>1. FALSE \in BOOLEAN
    OBVIOUS
  <2> QED
    BY <1>10, <1>14, <2>1 DEF KeyInv, RowsInv
<1>16. RowsInv'
  <2>1. DOMAIN submissions' \subseteq Keys
    BY <1>14 DEF KeyInv, RowsInv
  <2> QED
    BY <1>8, <1>9, <1>13, <1>15, <2>1 DEF KeyInv, RowsInv
<1>17. StrikeInv'
  BY <1>8, <1>9, <1>13 DEF KeyInv, StrikeInv, ghosts
<1>18. ASSUME NEW x \in Keys
       PROVE  Cardinality(Of(x)') = IF x \in DOMAIN submissions' /\ ~submissions'[x].refused
                                      THEN Batch(submissions'[x].body) ELSE 0
  <2>1. Cardinality(Of(x)) = IF x \in DOMAIN submissions /\ ~submissions[x].refused
                               THEN Batch(submissions[x].body) ELSE 0
    BY DEF KeyInv, ChargedOnce
  <2>2. CASE x = k
    <3>1. Keyed(h)
      BY <2>2 DEF Keyed, ConstantsFit
    <3>2. Cardinality(Of(x)) = 0
      BY <1>14, <2>1, <2>2, <3>1
    <3>3. IsFiniteSet(Of(x))
      <4>1. IsFiniteSet(1..Len(gens))
        BY <1>3, FS_Interval
      <4>2. Of(x) \in SUBSET (1..Len(gens))
        BY <1>3 DEF Of
      <4> QED
        BY <4>1, <4>2, FS_Subset
    <3>4. Of(x) = {}
      BY <3>2, <3>3, FS_EmptySet
    <3>5. Of(x)' = (Len(gens) + 1)..(Len(gens) + n)
      <4> HIDE DEF k, n
      <4>1. \A g \in DOMAIN gens : gens'[g].key # x
        BY <1>3, <3>4 DEF Of
      <4>2. \A g \in DOMAIN gens' \ DOMAIN gens : gens'[g].key = x
        BY <1>6, <2>2
      <4>3. DOMAIN gens' \ DOMAIN gens = (Len(gens) + 1)..(Len(gens) + n)
        BY <1>3, <1>4
      <4>4. Of(x)' = DOMAIN gens' \ DOMAIN gens
        BY <1>3, <4>1, <4>2 DEF Of
      <4> QED
        BY <4>3, <4>4
    <3>6. Cardinality(Of(x)') = n
      <4> HIDE DEF k, n
      <4>1. n \in Nat /\ n >= 1 /\ Len(gens) + 1 \in Int /\ Len(gens) + n \in Int
        BY <1>3, <1>4
      <4>2. Cardinality((Len(gens) + 1)..(Len(gens) + n))
              = IF Len(gens) + 1 > Len(gens) + n THEN 0 ELSE (Len(gens) + n) - (Len(gens) + 1) + 1
        BY <4>1, FS_Interval
      <4> QED
        BY <1>3, <3>5, <4>1, <4>2
    <3> QED
      BY <1>14, <2>2, <3>1, <3>6
  <2>3. CASE x # k
    <3> HIDE DEF k, n
    <3>1. Of(x)' = Of(x)
      BY <1>3, <1>6, <2>3 DEF Of
    <3>2. /\ x \in DOMAIN submissions' <=> x \in DOMAIN submissions
          /\ x \in DOMAIN submissions => submissions'[x] = submissions[x]
      BY <1>10, <1>14, <2>3
    <3> QED
      BY <2>1, <3>1, <3>2
  <2> QED
    BY <2>2, <2>3
<1>19. ChargedOnce'
  BY <1>18 DEF ChargedOnce
<1> QED
  BY <1>7, <1>12, <1>16, <1>17, <1>19 DEF KeyInv

LEMMA ReserveKeeps ==
    ASSUME KeyInv, ConstantsFit, NEW h \in Handlers, Reserve(h) PROVE KeyInv'
<1>1. run[h].pc = "reserve" /\ Answer(h) /\ UNCHANGED ghosts
  BY DEF Reserve
<1>2. CASE ~Known(h) /\ Charge(h)
  BY <1>1, <1>2, ChargeKeeps
<1>3. CASE UNCHANGED books
  BY <1>1, <1>3, AnswerKeeps DEF books, ghosts
<1> QED
  BY <1>2, <1>3 DEF Reserve, ReservationFailure

-----------------------------------------------------------------------------
(* The rest of the system.                                                 *)

(* A generation settles or is deleted: one field changes.                  *)
LEMMA FieldKeeps ==
    ASSUME KeyInv, NEW g \in DOMAIN gens, NEW value,
           \/ gens' = [gens EXCEPT ![g].status = value]
           \/ gens' = [gens EXCEPT ![g].deleted = value],
           UNCHANGED <<submissions, run, promptStrikes, unsure>>
    PROVE  KeyInv'
<1>1. Len(gens) \in Nat /\ DOMAIN gens = 1..Len(gens) /\ Fields \subseteq DOMAIN gens[g]
  BY SeqLength DEF KeyInv, GensInv, GenOk
<1>2. /\ DOMAIN gens' = DOMAIN gens /\ DOMAIN gens'[g] = DOMAIN gens[g]
      /\ \A i \in DOMAIN gens : i # g => gens'[i] = gens[i]
      /\ \A field \in DOMAIN gens[g] \ {"status", "deleted"} : gens'[g][field] = gens[g][field]
  <2>1. CASE gens' = [gens EXCEPT ![g].status = value]
    BY <2>1
  <2>2. CASE gens' = [gens EXCEPT ![g].deleted = value]
    BY <2>2
  <2> QED
    BY <2>1, <2>2
<1>3. IsSeq(gens')
  <2>1. gens' \in [1..Len(gens) -> ToSet(gens')]
    <3>1. gens' = [i \in 1..Len(gens) |-> gens'[i]]
      BY <1>1, <1>2
    <3> QED
      BY <1>1, <1>2, <3>1 DEF ToSet
  <2> QED
    BY <1>1, <2>1, SeqDef DEF IsSeq
<1>4. \A i \in DOMAIN gens :
         /\ DOMAIN gens'[i] = DOMAIN gens[i]
         /\ gens'[i].key = gens[i].key /\ gens'[i].of = gens[i].of
         /\ gens'[i].kind = gens[i].kind /\ gens'[i].recorded = gens[i].recorded
         /\ "snapshot" \in DOMAIN gens[i] => gens'[i].snapshot = gens[i].snapshot
  BY <1>1, <1>2 DEF Fields
<1>5. \A i \in DOMAIN gens : gens[i].recorded => gens'[i].snapshot = gens[i].snapshot
  BY <1>4 DEF KeyInv, GensInv, GenOk
<1>6. \A i \in DOMAIN gens : GenOk(i)'
  BY <1>2, <1>4, <1>5 DEF KeyInv, GensInv, GenOk, Clean
<1>7. GensInv'
  BY <1>2, <1>3, <1>6 DEF GensInv
<1>8. RunsInv'
  BY <1>2, <1>4, <1>5 DEF KeyInv, RunsInv, RunOk, PriorSeen, Repeats
<1>9. \A k \in Keys : Of(k)' = Of(k)
  BY <1>2, <1>4 DEF Of
<1>10. ChargedOnce'
  BY <1>9 DEF KeyInv, ChargedOnce
<1>11. RowsInv' /\ StrikeInv'
  BY DEF KeyInv, RowsInv, StrikeInv, RefusedRow, Claims
<1> QED
  BY <1>7, <1>8, <1>10, <1>11 DEF KeyInv

LEMMA StutterKeeps ==
    ASSUME KeyInv, UNCHANGED <<submissions, gens, run, promptStrikes, unsure>>
    PROVE  KeyInv'
  BY DEF KeyInv, GensInv, GenOk, Clean, RunsInv, RunOk, PriorSeen, Repeats, RowsInv, StrikeInv,
     RefusedRow, Claims, ChargedOnce, Of

LEMMA KeyInvariant == ASSUME ConstantsFit PROVE Spec => [](KeyInv /\ menu \in Menus)
<1>1. ASSUME Init PROVE KeyInv /\ menu \in Menus
  <2>1. GensInv
    BY <1>1 DEF ConstantsFit, Init, GensInv, GenOk, Fields
  <2>2. RunsInv
    BY <1>1 DEF Init, RunsInv, RunOk
  <2>3. DOMAIN submissions = {}
    BY <1>1 DEF Init
  <2>4. \A h \in Handlers : ~Claims(run[h])
    BY <1>1 DEF Init, Idle, Claims
  <2>5. RowsInv /\ StrikeInv
    BY <1>1, <2>3, <2>4 DEF Init, RowsInv, StrikeInv
  <2>6. \A k \in Keys : Of(k) = {}
    BY <1>1 DEF ConstantsFit, Init, Of
  <2>7. ChargedOnce
    BY <2>3, <2>6, FS_EmptySet DEF ChargedOnce
  <2> QED
    BY <1>1, <2>1, <2>2, <2>5, <2>7 DEF KeyInv, Init
<1>2. ASSUME KeyInv, menu \in Menus, [Next]_vars PROVE KeyInv' /\ menu' \in Menus
  <2>1. menu' = menu
    BY <1>2 DEF Next, vars, Receive, Retry, Vary, Step, Die, PriorSubmission, Admit, Choose,
       Moderate, ClaimRefusal, RecordEvent, IncrementStrike, ReleaseRefusal, PrepareVideo,
       LookAtReference, StrikeImage, ResolveReference, StoreMask, Reserve, Settle, Change, counters
  <2>2. ASSUME NEW h \in Handlers, Receive(h) \/ Retry(h) \/ Vary(h) PROVE KeyInv'
    BY <1>2, <2>2, ArrivalKeeps
  <2>3. ASSUME NEW h \in Handlers, Step(h) PROVE KeyInv'
    BY <1>2, <2>3, PriorKeeps, AdmitKeeps, ModerationKeeps, ClaimKeeps, StrikeKeeps, ReleaseKeeps,
       LookKeeps, ReferencesKeep, ReserveKeeps DEF Step
  <2>4. ASSUME NEW h \in Handlers, Die(h) PROVE KeyInv'
    BY <1>2, <2>4, AnswerKeeps DEF Die, books, ghosts
  <2>5. ASSUME NEW g \in DOMAIN gens, Settle(g) PROVE KeyInv'
    <3>1. PICK value : gens' = [gens EXCEPT ![g].status = value]
      BY <2>5 DEF Settle
    <3> QED
      BY <1>2, <2>5, <3>1, FieldKeeps DEF Settle, ghosts
  <2>6. ASSUME Change PROVE KeyInv'
    <3>1. ASSUME UNCHANGED gens PROVE KeyInv'
      BY <1>2, <2>6, <3>1, StutterKeeps DEF Change, ghosts
    <3>2. ASSUME NEW g \in Parents, gens' = [gens EXCEPT ![g].deleted = TRUE] PROVE KeyInv'
      <4>1. g \in DOMAIN gens
        BY DEF Parents
      <4> QED
        BY <1>2, <2>6, <3>2, <4>1, FieldKeeps DEF Change, ghosts
    <3>3. UNCHANGED gens \/ \E g \in Parents : gens' = [gens EXCEPT ![g].deleted = TRUE]
      BY <2>6 DEF Change
    <3> QED
      BY <3>1, <3>2, <3>3
  <2>7. CASE UNCHANGED vars
    BY <1>2, <2>7, StutterKeeps DEF vars
  <2> QED
    BY <1>2, <2>1, <2>2, <2>3, <2>4, <2>5, <2>6, <2>7 DEF Next
<1>3. KeyInv /\ menu \in Menus /\ [Next]_vars => (KeyInv /\ menu \in Menus)'
  BY <1>2
<1> QED
  BY <1>1, <1>3, PTL DEF Spec

(* A key is charged once and strikes once, for any numbers of requests,    *)
(* twins, keys and generations, and whatever is sent under it: nothing is  *)
(* charged under a taken key, a taken key is freed only by the request     *)
(* that refused it, and a counted strike leaves its refusal.               *)
THEOREM ChargedAndStruckOnce == ASSUME ConstantsFit PROVE Spec => []OncePerKey
<1>1. KeyInv => OncePerKey
  <2> SUFFICES ASSUME KeyInv PROVE OncePerKey
    OBVIOUS
  <2>1. StruckOnce
    BY DEF KeyInv, StrikeInv, StruckOnce
  <2> QED
    BY <2>1 DEF KeyInv, OncePerKey
<1> QED
  BY <1>1, KeyInvariant, PTL

(* Nothing blocked is charged and rendered, over replays, retries, twins   *)
(* and changes of body: past the moderation a request is clean or its key  *)
(* is taken, and then it reserves nothing.                                 *)
THEOREM OnlyModeratedCharged == ASSUME ConstantsFit PROVE Spec => []NothingUnmoderated
<1>1. KeyInv => NothingUnmoderated
  BY DEF KeyInv, GensInv, GenOk, Clean, NothingUnmoderated
<1> QED
  BY <1>1, KeyInvariant, PTL

(* A retry is recorded with the snapshot of what it retries, for any body: *)
(* taking a snapshot of what is rebuilt from one gives it back.            *)
THEOREM RetriesRepeat == ASSUME ConstantsFit PROVE Spec => []RetryRepeatsRequest
<1>1. KeyInv => RetryRepeatsRequest
  BY DEF KeyInv, GensInv, GenOk, RetryRepeatsRequest
<1> QED
  BY <1>1, KeyInvariant, PTL

-----------------------------------------------------------------------------
(* The balance.                                                            *)

LEMMA LeastGreatest ==
    ASSUME NEW a \in Int, NEW b \in Int
    PROVE  /\ Min({a, b}) \in {a, b} /\ Min({a, b}) <= a /\ Min({a, b}) <= b
           /\ Max({a, b}) \in {a, b} /\ Max({a, b}) >= a /\ Max({a, b}) >= b
<1>1. \E x \in {a, b} : \A y \in {a, b} : x <= y
  OBVIOUS
<1>2. \E x \in {a, b} : \A y \in {a, b} : x >= y
  OBVIOUS
<1> QED
  BY <1>1, <1>2 DEF Min, Max

BooksInv ==
    /\ plan \in Nat /\ pack \in Nat
    /\ \A g \in DOMAIN gens :
          /\ {"status", "deleted", "fromPlan", "fromPack"} \subseteq DOMAIN gens[g]
          /\ gens[g].fromPlan \in Nat /\ gens[g].fromPack \in Nat

(* What a request costs is split between the buckets, item by item.        *)
LEMMA Shares ==
    ASSUME plan \in Nat, NEW unit \in {1, 2}, NEW n \in 1..4
    PROVE  /\ unit * n \in Nat
           /\ FromPlan(unit * n) \in Nat
           /\ FromPlan(unit * n) <= plan /\ FromPlan(unit * n) <= unit * n
           /\ FromPlan(unit * n) \in {plan, unit * n}
           /\ \A i \in 1..n : PlanShare(i, unit, unit * n) \in 0..unit
<1> DEFINE total == unit * n
<1>1. total \in Nat
  <2>1. CASE unit = 1
    BY <2>1
  <2>2. CASE unit = 2
    BY <2>2
  <2> QED
    BY <2>1, <2>2
<1> HIDE DEF total
<1>2. Max({plan, 0}) = plan
  <2>1. plan \in Int /\ 0 \in Int /\ plan >= 0
    OBVIOUS
  <2>2. Max({plan, 0}) \in {plan, 0} /\ Max({plan, 0}) >= plan /\ Max({plan, 0}) >= 0
    BY <2>1, LeastGreatest
  <2> QED
    BY <2>1, <2>2
<1>3. /\ FromPlan(total) \in Nat /\ FromPlan(total) <= plan /\ FromPlan(total) <= total
      /\ FromPlan(total) \in {plan, total}
  <2>1. FromPlan(total) = Min({plan, total})
    BY <1>2 DEF FromPlan
  <2>2. /\ Min({plan, total}) \in {plan, total}
        /\ Min({plan, total}) <= plan /\ Min({plan, total}) <= total
    BY <1>1, LeastGreatest
  <2> QED
    BY <1>1, <2>1, <2>2
<1>4. ASSUME NEW i \in 1..n PROVE PlanShare(i, unit, total) \in 0..unit
  <2> DEFINE rest == FromPlan(total) - (i - 1) * unit
             share == Min({unit, rest})
  <2>1. rest \in Int
    <3>1. (i - 1) * unit \in Int
      <4>1. CASE unit = 1
        BY <4>1
      <4>2. CASE unit = 2
        BY <4>2
      <4> QED
        BY <4>1, <4>2
    <3> QED
      BY <1>3, <3>1
  <2> HIDE DEF rest
  <2>2. share \in Int /\ share <= unit
    BY <2>1, LeastGreatest
  <2> HIDE DEF share
  <2>3. /\ Max({0, share}) \in {0, share} /\ Max({0, share}) >= 0 /\ Max({0, share}) >= share
    BY <2>2, LeastGreatest
  <2>4. PlanShare(i, unit, total) = Max({0, share})
    BY DEF PlanShare, share, rest
  <2> QED
    BY <2>2, <2>3, <2>4
<1> QED
  BY <1>1, <1>3, <1>4 DEF total

LEMMA ChargeBalances ==
    ASSUME KeyInv, BooksInv, NEW h \in Handlers, run[h].pc = "reserve", Charge(h)
    PROVE  BooksInv'
<1> DEFINE unit == UnitPrice(Body(h))
           n == Batch(Body(h))
<1>1. unit \in {1, 2}
  BY DEF UnitPrice, Price
<1>2. n \in 1..4
  BY ReservedAre
<1>3. /\ plan + pack >= unit * n
      /\ plan' = plan - FromPlan(unit * n) /\ pack' = pack - (unit * n - FromPlan(unit * n))
      /\ gens' = gens \o Reserved(h)
  BY DEF Charge
<1>4. \A i \in 1..n :
         /\ {"status", "deleted", "fromPlan", "fromPack"} \subseteq DOMAIN Reserved(h)[i]
         /\ Reserved(h)[i].fromPlan = PlanShare(i, unit, unit * n)
         /\ Reserved(h)[i].fromPack = unit - PlanShare(i, unit, unit * n)
  BY DEF Reserved
<1>5. /\ \A g \in DOMAIN gens : g \in DOMAIN gens' /\ gens'[g] = gens[g]
      /\ \A g \in DOMAIN gens' \ DOMAIN gens : \E i \in 1..n : gens'[g] = Reserved(h)[i]
  BY <1>3, Appended
<1> HIDE DEF unit, n
<1>6. /\ unit * n \in Nat
      /\ FromPlan(unit * n) \in Nat
      /\ FromPlan(unit * n) <= plan /\ FromPlan(unit * n) <= unit * n
      /\ FromPlan(unit * n) \in {plan, unit * n}
      /\ \A i \in 1..n : PlanShare(i, unit, unit * n) \in 0..unit
  BY <1>1, <1>2, Shares DEF BooksInv
<1>7. plan' \in Nat /\ pack' \in Nat
  BY <1>3, <1>6 DEF BooksInv
<1>8. \A i \in 1..n : Reserved(h)[i].fromPlan \in Nat /\ Reserved(h)[i].fromPack \in Nat
  BY <1>1, <1>4, <1>6
<1>9. ASSUME NEW g \in DOMAIN gens'
      PROVE  /\ {"status", "deleted", "fromPlan", "fromPack"} \subseteq DOMAIN gens'[g]
             /\ gens'[g].fromPlan \in Nat /\ gens'[g].fromPack \in Nat
  <2>1. CASE g \in DOMAIN gens
    BY <1>5, <2>1 DEF BooksInv
  <2>2. CASE g \notin DOMAIN gens
    <3>1. PICK i \in 1..n : gens'[g] = Reserved(h)[i]
      BY <1>5, <2>2
    <3> QED
      BY <1>4, <1>8, <3>1
  <2> QED
    BY <2>1, <2>2
<1> QED
  BY <1>7, <1>9 DEF BooksInv

LEMMA FieldBalances ==
    ASSUME KeyInv, BooksInv, NEW g \in DOMAIN gens, NEW value,
           \/ gens' = [gens EXCEPT ![g].status = value]
           \/ gens' = [gens EXCEPT ![g].deleted = value],
           plan' \in Nat, pack' \in Nat
    PROVE  BooksInv'
<1>1. /\ DOMAIN gens' = DOMAIN gens /\ DOMAIN gens'[g] = DOMAIN gens[g]
      /\ \A i \in DOMAIN gens : i # g => gens'[i] = gens[i]
      /\ \A field \in DOMAIN gens[g] \ {"status", "deleted"} : gens'[g][field] = gens[g][field]
  <2>1. CASE gens' = [gens EXCEPT ![g].status = value]
    BY <2>1
  <2>2. CASE gens' = [gens EXCEPT ![g].deleted = value]
    BY <2>2
  <2> QED
    BY <2>1, <2>2
<1>2. gens'[g].fromPlan = gens[g].fromPlan /\ gens'[g].fromPack = gens[g].fromPack
  BY <1>1 DEF BooksInv
<1> QED
  BY <1>1, <1>2 DEF BooksInv

(* No bucket is ever overdrawn, however requests and settlements overlap.  *)
THEOREM NeverOverdrawn ==
    ASSUME ConstantsFit
    PROVE  Spec => [](plan \in Nat /\ pack \in Nat)
<1>1. Init => BooksInv
  BY DEF Init, BooksInv, ConstantsFit
<1>2. KeyInv /\ BooksInv /\ [Next]_vars => BooksInv'
  <2> SUFFICES ASSUME KeyInv, BooksInv, [Next]_vars PROVE BooksInv'
    OBVIOUS
  <2>1. CASE UNCHANGED <<gens, plan, pack>>
    BY <2>1 DEF BooksInv
  <2>2. ASSUME NEW h \in Handlers, Reserve(h), ~UNCHANGED <<gens, plan, pack>> PROVE BooksInv'
    BY <2>2, ChargeBalances DEF Reserve, ReservationFailure, books
  <2>3. ASSUME NEW g \in DOMAIN gens, Settle(g) PROVE BooksInv'
    <3>1. PICK value : gens' = [gens EXCEPT ![g].status = value]
      BY <2>3 DEF Settle
    <3>2. plan' \in Nat /\ pack' \in Nat
      BY <2>3 DEF Settle, BooksInv
    <3> QED
      BY <3>1, <3>2, FieldBalances
  <2>4. ASSUME NEW g \in Parents, gens' = [gens EXCEPT ![g].deleted = TRUE],
               UNCHANGED <<plan, pack>>
        PROVE  BooksInv'
    <3>1. g \in DOMAIN gens
      BY DEF Parents
    <3>2. plan' \in Nat /\ pack' \in Nat
      BY <2>4 DEF BooksInv
    <3> QED
      BY <2>4, <3>1, <3>2, FieldBalances
  <2>5. CASE Change
    <3>1. UNCHANGED <<plan, pack>>
      BY <2>5 DEF Change
    <3>2. UNCHANGED gens \/ \E g \in Parents : gens' = [gens EXCEPT ![g].deleted = TRUE]
      BY <2>5 DEF Change
    <3> QED
      BY <2>1, <2>4, <3>1, <3>2
  <2>6. ASSUME NEW h \in Handlers, Receive(h) \/ Retry(h) \/ Vary(h) \/ Die(h)
        PROVE  UNCHANGED <<gens, plan, pack>>
    BY <2>6 DEF Receive, Retry, Vary, Die, books
  <2>7. ASSUME NEW h \in Handlers, Step(h) PROVE Reserve(h) \/ UNCHANGED <<gens, plan, pack>>
    BY <2>7 DEF Step, PriorSubmission, Admit, Choose, Moderate, ClaimRefusal, RecordEvent,
       IncrementStrike, ReleaseRefusal, PrepareVideo, LookAtReference, StrikeImage,
       ResolveReference, StoreMask, books
  <2>8. CASE UNCHANGED vars
    BY <2>1, <2>8 DEF vars
  <2> QED
    BY <2>1, <2>2, <2>3, <2>5, <2>6, <2>7, <2>8 DEF Next
<1>3. BooksInv => plan \in Nat /\ pack \in Nat
  BY DEF BooksInv
<1> QED
  BY <1>1, <1>2, <1>3, KeyInvariant, PTL DEF Spec
=============================================================================
