--------------------------- MODULE ServicesProofs ---------------------------
(***************************************************************************)
(* What the services run (MCServices) checks of the worker, the finisher,  *)
(* the calls of a provider and of an assistant, the page and its library,  *)
(* proved for every behaviour.  First each component alone, for every      *)
(* behaviour of its own specification: the inline slots of a worker        *)
(* (SlotInv), a stored result (StoredInv), the calls of a provider         *)
(* (CallsInv) and of an assistant (McpInv), the gate (GateInv), the page   *)
(* (ForeignInv), the library (LibraryInv) and the plan a customer pays     *)
(* for (BillsInv, and on top of it PendingInv).  Then side by side: each   *)
(* component keeps variables of its own, so a step of Next is a step of    *)
(* the component or leaves it alone, and a behaviour of Spec is one of     *)
(* Tick!Spec, Finish!Spec and so on.                                       *)
(***************************************************************************)
EXTENDS MCServices, Sequences, FiniteSetTheorems, TLAPS

-----------------------------------------------------------------------------
(* The worker's inline slots                                               *)

TickStates ==
    [at : {"idle", "admit", "defer", "run"},
     todo : SUBSET Jobs, admitted : SUBSET Jobs, slotted : SUBSET Jobs]

(* A slot belongs to a job that was admitted once, and that has yet to run *)
(* or is running: so it is given back, and only once.                      *)
SlotInv ==
    /\ ticks \in [Ticks -> TickStates]
    /\ tickRuns \in [Ticks -> SUBSET Jobs]
    /\ inlineInFlight \in Nat
    /\ \A t \in Ticks :
         /\ ticks[t].todo \cap ticks[t].admitted = {}
         /\ ticks[t].slotted \subseteq ticks[t].admitted
         /\ ticks[t].at = "idle" => ticks[t].slotted = {}
         /\ ticks[t].at = "run" => ticks[t].slotted \subseteq tickRuns[t]
         /\ ticks[t].at # "run" => tickRuns[t] = {}
    /\ Tick!SlotsAreHeld

LEMMA TickFinite == \A S : Tick!IsFiniteSet(S) <=> IsFiniteSet(S)
BY DEF Tick!IsFiniteSet, IsFiniteSet

LEMMA TickCardinality == \A S : Tick!Cardinality(S) = Cardinality(S)
BY DEF Tick!Cardinality, Cardinality

LEMMA TickConstants ==
    /\ IsFiniteSet(Jobs) /\ Jobs \subseteq Nat
    /\ IsFiniteSet(Ticks)
    /\ MaxInlineSubmits \in Nat
BY TickFit, TickFinite DEF Tick!ConstantsFit

LEMMA SlottedFinite == IsFiniteSet(Tick!Slotted) /\ Cardinality(Tick!Slotted) \in Nat
<1>1. IsFiniteSet(Ticks \X Jobs)
  BY TickConstants, FS_Product
<1>2. Tick!Slotted \subseteq Ticks \X Jobs
  BY DEF Tick!Slotted
<1> QED
  BY <1>1, <1>2, FS_Subset, FS_CardinalityType

LEMMA SlotsSame ==
    ASSUME Tick!SlotsAreHeld, inlineInFlight' = inlineInFlight,
           \A t \in Ticks : ticks'[t].slotted = ticks[t].slotted
    PROVE  Tick!SlotsAreHeld'
<1>1. Tick!Slotted' = Tick!Slotted
  BY DEF Tick!Slotted
<1> QED
  BY <1>1 DEF Tick!SlotsAreHeld

LEMMA SlotTaken ==
    ASSUME SlotInv, NEW t \in Ticks, NEW j \in Jobs, j \notin ticks[t].slotted,
           ticks'[t].slotted = ticks[t].slotted \cup {j},
           \A s \in Ticks : s # t => ticks'[s] = ticks[s],
           inlineInFlight < MaxInlineSubmits, inlineInFlight' = inlineInFlight + 1
    PROVE  Tick!SlotsAreHeld'
<1>1. Tick!Slotted' = Tick!Slotted \cup {<<t, j>>}
  BY DEF Tick!Slotted
<1>2. <<t, j>> \notin Tick!Slotted
  BY DEF Tick!Slotted
<1>3. Cardinality(Tick!Slotted') = Cardinality(Tick!Slotted) + 1
  BY <1>1, <1>2, SlottedFinite, FS_AddElement
<1> QED
  BY <1>3, SlottedFinite, TickConstants, TickCardinality DEF SlotInv, Tick!SlotsAreHeld

LEMMA SlotGiven ==
    ASSUME SlotInv, NEW t \in Ticks, NEW j \in Jobs, j \in ticks[t].slotted,
           ticks'[t].slotted = ticks[t].slotted \ {j},
           \A s \in Ticks : s # t => ticks'[s] = ticks[s],
           inlineInFlight' = inlineInFlight - 1
    PROVE  Tick!SlotsAreHeld' /\ inlineInFlight' \in Nat
<1>1. Tick!Slotted' = Tick!Slotted \ {<<t, j>>}
  BY DEF Tick!Slotted
<1>2. <<t, j>> \in Tick!Slotted
  BY DEF Tick!Slotted
<1>3. /\ Cardinality(Tick!Slotted') = Cardinality(Tick!Slotted) - 1
      /\ Cardinality(Tick!Slotted') \in Nat
  BY <1>1, <1>2, SlottedFinite, FS_RemoveElement, FS_CardinalityType
<1> QED
  BY <1>3, SlottedFinite, TickConstants, TickCardinality DEF SlotInv, Tick!SlotsAreHeld

TickSound(state, running) ==
    /\ state.todo \cap state.admitted = {}
    /\ state.slotted \subseteq state.admitted
    /\ state.at = "idle" => state.slotted = {}
    /\ state.at = "run" => state.slotted \subseteq running
    /\ state.at # "run" => running = {}

LEMMA TickMoves ==
    ASSUME SlotInv, NEW t \in Ticks, NEW state \in TickStates, NEW running \in SUBSET Jobs,
           TickSound(state, running), ticks' = [ticks EXCEPT ![t] = state],
           tickRuns' = [tickRuns EXCEPT ![t] = running],
           inlineInFlight' \in Nat, Tick!SlotsAreHeld'
    PROVE  SlotInv'
BY DEF SlotInv, TickSound

LEMMA TickKept ==
    ASSUME SlotInv, ticks' = ticks, tickRuns' = tickRuns, inlineInFlight' = inlineInFlight
    PROVE  SlotInv'
<1>1. Tick!SlotsAreHeld'
  BY SlotsSame DEF SlotInv
<1> QED
  BY <1>1 DEF SlotInv

LEMMA AdmitKeeps == ASSUME SlotInv, NEW t \in Ticks, NEW j \in Jobs, Tick!Admit(t, j) PROVE SlotInv'
<1> DEFINE me == ticks[t]
           plain == [me EXCEPT !.todo = @ \ {j}, !.admitted = @ \cup {j}]
           inline == [me EXCEPT !.todo = @ \ {j}, !.admitted = @ \cup {j},
                                !.slotted = @ \cup {j}]
           full == [me EXCEPT !.at = "defer"]
<1>1. /\ me \in TickStates /\ me.at = "admit" /\ TickSound(me, tickRuns[t])
      /\ j \in me.todo /\ j \notin me.admitted /\ j \notin me.slotted
      /\ tickRuns[t] = {} /\ tickRuns' = [tickRuns EXCEPT ![t] = {}]
  BY DEF SlotInv, Tick!Admit, Tick!At, Tick!IsNext, TickSound
<1>2. CASE inlineInFlight' = inlineInFlight /\ ticks' = [ticks EXCEPT ![t] = plain]
  <2>1. plain \in TickStates /\ TickSound(plain, {})
    BY <1>1 DEF TickStates, TickSound
  <2>2. \A s \in Ticks : ticks'[s].slotted = ticks[s].slotted
    BY <1>1, <1>2 DEF SlotInv, TickStates
  <2> QED
    BY <1>1, <1>2, <2>1, <2>2, SlotsSame, TickMoves DEF SlotInv
<1>3. CASE inlineInFlight' = inlineInFlight /\ ticks' = [ticks EXCEPT ![t] = full]
  <2>1. full \in TickStates /\ TickSound(full, {})
    BY <1>1 DEF TickStates, TickSound
  <2>2. \A s \in Ticks : ticks'[s].slotted = ticks[s].slotted
    BY <1>1, <1>3 DEF SlotInv, TickStates
  <2> QED
    BY <1>1, <1>3, <2>1, <2>2, SlotsSame, TickMoves DEF SlotInv
<1>4. CASE /\ inlineInFlight < MaxInlineSubmits /\ inlineInFlight' = inlineInFlight + 1
           /\ ticks' = [ticks EXCEPT ![t] = inline]
  <2>1. inline \in TickStates /\ TickSound(inline, {})
    BY <1>1 DEF TickStates, TickSound
  <2>2. /\ ticks'[t].slotted = ticks[t].slotted \cup {j}
        /\ \A s \in Ticks : s # t => ticks'[s] = ticks[s]
    BY <1>1, <1>4 DEF SlotInv, TickStates
  <2>3. Tick!SlotsAreHeld'
    BY <1>1, <1>4, <2>2, SlotTaken
  <2>4. inlineInFlight' \in Nat
    BY <1>4 DEF SlotInv
  <2> QED
    BY <1>1, <1>4, <2>1, <2>3, <2>4, TickMoves
<1> QED
  BY <1>2, <1>3, <1>4 DEF Tick!Admit, Tick!Goes, Tick!Room

LEMMA DeferKeeps == ASSUME SlotInv, NEW t \in Ticks, NEW j \in Jobs, Tick!Defer(t, j) PROVE SlotInv'
<1> DEFINE state == [ticks[t] EXCEPT !.at = "admit", !.todo = @ \ {j}]
<1>1. /\ ticks[t] \in TickStates /\ ticks[t].at = "defer" /\ TickSound(ticks[t], tickRuns[t])
      /\ tickRuns[t] = {} /\ tickRuns' = [tickRuns EXCEPT ![t] = {}]
      /\ inlineInFlight' = inlineInFlight /\ ticks' = [ticks EXCEPT ![t] = state]
  BY DEF SlotInv, Tick!Defer, Tick!At, TickSound, Tick!Goes
<1>2. state \in TickStates /\ TickSound(state, {})
  BY <1>1 DEF TickStates, TickSound
<1>3. \A s \in Ticks : ticks'[s].slotted = ticks[s].slotted
  BY <1>1 DEF SlotInv, TickStates
<1> QED
  BY <1>1, <1>2, <1>3, SlotsSame, TickMoves DEF SlotInv

LEMMA ClaimKeeps == ASSUME SlotInv, NEW t \in Ticks, Tick!claimJobs(t) PROVE SlotInv'
<1> DEFINE state == [at |-> "admit", todo |-> Tick!Batch, admitted |-> {}, slotted |-> {}]
<1>1. /\ ticks[t] \in TickStates /\ ticks[t].slotted = {} /\ tickRuns[t] = {}
      /\ tickRuns' = tickRuns /\ inlineInFlight' = inlineInFlight
  BY DEF SlotInv, Tick!claimJobs, Tick!At
<1>2. CASE ticks' = ticks
  BY <1>1, <1>2, TickKept
<1>3. CASE ticks' = [ticks EXCEPT ![t] = state]
  <2>1. state \in TickStates /\ TickSound(state, {})
    BY DEF TickStates, TickSound, Tick!Batch, Tick!Due
  <2>2. \A s \in Ticks : ticks'[s].slotted = ticks[s].slotted
    BY <1>1, <1>3 DEF SlotInv
  <2>3. tickRuns' = [tickRuns EXCEPT ![t] = {}]
    BY <1>1 DEF SlotInv
  <2> QED
    BY <1>1, <1>3, <2>1, <2>2, <2>3, SlotsSame, TickMoves DEF SlotInv
<1> QED
  BY <1>2, <1>3 DEF Tick!claimJobs, Tick!Goes, Tick!NoTick

LEMMA StartKeeps == ASSUME SlotInv, NEW t \in Ticks, Tick!StartRuns(t) PROVE SlotInv'
<1> DEFINE state == [ticks[t] EXCEPT !.at = "run"]
<1>1. /\ ticks[t] \in TickStates /\ TickSound(ticks[t], tickRuns[t])
      /\ tickRuns' = [tickRuns EXCEPT ![t] = ticks[t].admitted]
      /\ inlineInFlight' = inlineInFlight /\ ticks' = [ticks EXCEPT ![t] = state]
  BY DEF SlotInv, Tick!StartRuns, TickSound, Tick!Goes
<1>2. /\ state \in TickStates /\ TickSound(state, ticks[t].admitted)
      /\ ticks[t].admitted \in SUBSET Jobs
  BY <1>1 DEF TickStates, TickSound
<1>3. \A s \in Ticks : ticks'[s].slotted = ticks[s].slotted
  BY <1>1 DEF SlotInv, TickStates
<1> QED
  BY <1>1, <1>2, <1>3, SlotsSame, TickMoves DEF SlotInv

LEMMA RunKeeps ==
    ASSUME SlotInv, NEW t \in Ticks, NEW j \in Jobs, NEW state, NEW threw \in BOOLEAN,
           Tick!RunEnds(t, j, state, threw)
    PROVE  SlotInv'
<1> DEFINE after == [ticks[t] EXCEPT !.slotted = @ \ {j}]
<1>1. /\ ticks[t] \in TickStates /\ TickSound(ticks[t], tickRuns[t]) /\ j \in tickRuns[t]
      /\ tickRuns' = [tickRuns EXCEPT ![t] = tickRuns[t] \ {j}]
      /\ tickRuns[t] \ {j} \in SUBSET Jobs
      /\ ticks' = [ticks EXCEPT ![t] = after]
  BY DEF SlotInv, Tick!RunEnds, TickSound, Tick!Goes
<1>2. after \in TickStates /\ TickSound(after, tickRuns[t] \ {j})
  BY <1>1 DEF TickStates, TickSound
<1>3. /\ ticks'[t].slotted = ticks[t].slotted \ {j}
      /\ \A s \in Ticks : s # t => ticks'[s] = ticks[s]
  BY <1>1 DEF SlotInv, TickStates
<1>4. CASE j \in ticks[t].slotted
  <2>1. inlineInFlight' = inlineInFlight - 1
    BY <1>4 DEF Tick!RunEnds, Tick!SlotsBack
  <2> QED
    BY <1>1, <1>2, <1>3, <1>4, <2>1, SlotGiven, TickMoves
<1>5. CASE j \notin ticks[t].slotted
  <2>1. inlineInFlight' = inlineInFlight
    BY <1>5 DEF Tick!RunEnds, Tick!SlotsBack, SlotInv
  <2>2. \A s \in Ticks : ticks'[s].slotted = ticks[s].slotted
    BY <1>3, <1>5
  <2> QED
    BY <1>1, <1>2, <2>1, <2>2, SlotsSame, TickMoves DEF SlotInv
<1> QED
  BY <1>4, <1>5

LEMMA DrainKeeps == ASSUME SlotInv, NEW t \in Ticks, Tick!Drain(t) PROVE SlotInv'
<1>1. /\ ticks[t].slotted = {} /\ tickRuns[t] = {}
      /\ tickRuns' = [tickRuns EXCEPT ![t] = {}]
      /\ inlineInFlight' = inlineInFlight /\ ticks' = [ticks EXCEPT ![t] = Tick!NoTick]
  BY DEF SlotInv, Tick!Drain, Tick!At, Tick!Goes
<1>2. Tick!NoTick \in TickStates /\ TickSound(Tick!NoTick, {}) /\ Tick!NoTick.slotted = {}
  BY DEF TickStates, TickSound, Tick!NoTick
<1>3. \A s \in Ticks : ticks'[s].slotted = ticks[s].slotted
  BY <1>1, <1>2 DEF SlotInv
<1> QED
  BY <1>1, <1>2, <1>3, SlotsSame, TickMoves DEF SlotInv

LEMMA NoSlots ==
    ASSUME ticks = [t \in Ticks |-> Tick!NoTick], tickRuns = [t \in Ticks |-> {}],
           inlineInFlight = 0
    PROVE  SlotInv
<1>1. Tick!Slotted = {}
  BY DEF Tick!Slotted, Tick!NoTick
<1>2. Tick!SlotsAreHeld
  BY <1>1, FS_EmptySet, TickCardinality, TickConstants DEF Tick!SlotsAreHeld
<1>3. Tick!NoTick \in TickStates
  BY DEF Tick!NoTick, TickStates
<1> QED
  BY <1>2, <1>3 DEF SlotInv, Tick!NoTick

LEMMA IsolateKeeps == ASSUME Tick!IsolateDies PROVE SlotInv'
<1>1. /\ ticks' = [t \in Ticks |-> Tick!NoTick] /\ tickRuns' = [t \in Ticks |-> {}]
      /\ inlineInFlight' = 0
  BY DEF Tick!IsolateDies
<1>2. Tick!Slotted' = {}
  BY <1>1 DEF Tick!Slotted, Tick!NoTick
<1>3. Tick!SlotsAreHeld'
  BY <1>1, <1>2, FS_EmptySet, TickCardinality, TickConstants DEF Tick!SlotsAreHeld
<1>4. Tick!NoTick \in TickStates
  BY DEF Tick!NoTick, TickStates
<1> QED
  BY <1>1, <1>3, <1>4 DEF SlotInv, Tick!NoTick

LEMMA SlotInvariant == Tick!Spec => []SlotInv
<1>1. Tick!Init => SlotInv
  BY NoSlots DEF Tick!Init
<1>2. SlotInv /\ [Tick!Next]_(Tick!workerVars) => SlotInv'
  <2> SUFFICES ASSUME SlotInv, [Tick!Next]_(Tick!workerVars) PROVE SlotInv'
    OBVIOUS
  <2>1. CASE \E j \in Jobs : Tick!LeaseLapses(j) \/ Tick!ClaimedElsewhere(j)
    BY <2>1, TickKept DEF Tick!LeaseLapses, Tick!ClaimedElsewhere
  <2>2. CASE \E j \in Jobs, state \in {"ready", "submitted", "done"} :
                Tick!ReleasedElsewhere(j, state)
    BY <2>2, TickKept DEF Tick!ReleasedElsewhere
  <2>3. CASE UNCHANGED Tick!workerVars
    BY <2>3, TickKept DEF Tick!workerVars
  <2> QED
    BY <2>1, <2>2, <2>3, ClaimKeeps, StartKeeps, DrainKeeps, AdmitKeeps, DeferKeeps, RunKeeps,
       IsolateKeeps DEF Tick!Next
<1> QED
  BY <1>1, <1>2, PTL DEF Tick!Spec

(* An isolate never admits more inline submits than its cap, and each slot *)
(* it counts is still some run's to give back.                             *)
THEOREM TickHoldsSlots == Tick!Spec => []Tick!SlotsAreHeld
<1>1. SlotInv => Tick!SlotsAreHeld
  BY DEF SlotInv
<1> QED
  BY <1>1, SlotInvariant, PTL
-----------------------------------------------------------------------------
(* The results that are kept                                               *)

Made == Runs \cup {"older"}
Gens == [kind : {"image", "video"}, status : {"pending", "done", "failed"},
         media : Made \cup {Nobody},
         thumb : {"none", "pending", "claimed", "ready", "failed", "unsupported"},
         thumbOf : Made \cup {Nobody}]
Types == {"picture", "undecodable", "other"}
Steps == {"idle", "inline", "claim", "fetch", "read", "register", "put", "live", "settle",
          "drop", "thumb", "thumbPut", "thumbLive", "thumbRow", "release", "retry", "fail",
          "over"}
Files == [type : Types, whole : BOOLEAN]
Attempts == [at : Steps, inline : BOOLEAN, body : SUBSET Finish!Bodies, read : Nat,
             allocated : Nat, file : SUBSET Files]

Unregistered == {"idle", "inline", "claim", "fetch", "read", "register"}
Written == {"live", "settle", "drop", "thumb", "thumbPut", "thumbLive", "thumbRow"}

(* What a run holds: while it reads, what it was told and has got so far;  *)
(* then the whole file.                                                    *)
HoldsEnough(attempt) ==
    /\ attempt.allocated <= MaxBytes
    /\ attempt.at \in {"claim", "fetch"} => attempt.read = 0
    /\ attempt.at = "read" =>
         \E sent \in Finish!Bodies :
            /\ attempt.body = {sent}
            /\ IF sent.declared > 0 THEN attempt.allocated = sent.declared
               ELSE attempt.allocated = attempt.read /\ attempt.read <= Finish!Ceiling
    /\ attempt.at \in {"register", "put"} \cup Written =>
         \E file \in Files : attempt.file = {file} /\ file.whole

(* What has become of its object by then: its record, and what is there.   *)
MediaFollows(attempt, record, there) ==
    /\ attempt.at \in Unregistered => record = "none"
    /\ attempt.at \in {"put"} \cup Written => record \in {"staged", "live"}
    /\ attempt.at \in Written => there = {"whole"}

ThumbFollows(attempt, record, there) ==
    /\ record # "queued"
    /\ attempt.at \in {"thumbPut", "thumbLive", "thumbRow"} => record # "none"
    /\ attempt.at \in {"thumbLive", "thumbRow"} => there = {"whole"}

Follows(t) ==
    /\ MediaFollows(finishRuns[t], finishRegistry[Finish!Media(t)], stored[Finish!Media(t)])
    /\ ThumbFollows(finishRuns[t], finishRegistry[Finish!Thumb(t)], stored[Finish!Thumb(t)])

ObjectsTyped ==
    /\ finishRegistry \in [Finish!Objects -> {"none", "staged", "live", "queued"}]
    /\ stored \in [Finish!Objects -> {{}, {"whole"}}]

ShownIsMade ==
    /\ gen \in Gens
    /\ gen.status = "done" => gen.media \in Made
    /\ gen.thumb = "ready" => gen.thumbOf \in Made

StoredInv ==
    /\ finishRuns \in [Runs -> Attempts]
    /\ ObjectsTyped
    /\ ShownIsMade
    /\ \A t \in Runs : HoldsEnough(finishRuns[t]) /\ Follows(t)
    /\ \A b \in Backfills : backfills[b] = "record" => stored[Finish!Thumb("older")] = {"whole"}
    /\ backfills \in [Backfills -> {"idle", "put", "record"}]
    /\ Finish!ShownIsWhole

LEMMA ObjectsDiffer ==
    /\ \A t, s \in Made : Finish!Media(t) # Finish!Thumb(s)
    /\ \A t, s \in Made : t # s => Finish!Media(t) # Finish!Media(s) /\ Finish!Thumb(t) # Finish!Thumb(s)
    /\ \A t \in Made : Finish!Media(t) \in Finish!Objects /\ Finish!Thumb(t) \in Finish!Objects
    /\ "older" \notin Runs /\ MaxBytes \in Nat
BY FinishFit DEF Finish!Media, Finish!Thumb, Finish!Objects, Made, Finish!ConstantsFit

LEMMA RunStores ==
    ASSUME StoredInv, NEW t \in Runs, NEW attempt \in Attempts,
           finishRuns' = [finishRuns EXCEPT ![t] = attempt], HoldsEnough(attempt),
           MediaFollows(attempt, finishRegistry'[Finish!Media(t)], stored'[Finish!Media(t)]),
           ThumbFollows(attempt, finishRegistry'[Finish!Thumb(t)], stored'[Finish!Thumb(t)]),
           ObjectsTyped', backfills' = backfills,
           \A o \in Finish!Objects : o \notin {Finish!Media(t), Finish!Thumb(t)} =>
                finishRegistry'[o] = finishRegistry[o] /\ stored'[o] = stored[o],
           ShownIsMade', Finish!ShownIsWhole'
    PROVE  StoredInv'
<1>1. finishRuns' \in [Runs -> Attempts]
  BY DEF StoredInv
<1>2. ASSUME NEW s \in Runs PROVE (HoldsEnough(finishRuns[s]) /\ Follows(s))'
  <2>1. CASE s = t
    <3>1. finishRuns'[s] = attempt
      BY <2>1 DEF StoredInv
    <3> QED
      BY <2>1, <3>1 DEF Follows, HoldsEnough, MediaFollows, ThumbFollows, Finish!Media,
         Finish!Thumb,
           Finish!Ceiling
  <2>2. CASE s # t
    <3>1. finishRuns'[s] = finishRuns[s]
      BY <2>2 DEF StoredInv
    <3>2. /\ finishRegistry'[Finish!Media(s)] = finishRegistry[Finish!Media(s)]
          /\ stored'[Finish!Media(s)] = stored[Finish!Media(s)]
          /\ finishRegistry'[Finish!Thumb(s)] = finishRegistry[Finish!Thumb(s)]
          /\ stored'[Finish!Thumb(s)] = stored[Finish!Thumb(s)]
      BY <2>2, ObjectsDiffer DEF Made
    <3>3. HoldsEnough(finishRuns[s]) /\ Follows(s)
      BY DEF StoredInv
    <3> QED
      BY <3>1, <3>2, <3>3 DEF Follows, HoldsEnough, MediaFollows, ThumbFollows, Finish!Media,
         Finish!Thumb,
           Finish!Ceiling
  <2> QED
    BY <2>1, <2>2
<1>3. stored'[Finish!Thumb("older")] = stored[Finish!Thumb("older")]
  BY ObjectsDiffer DEF Made
<1> QED
  BY <1>1, <1>2, <1>3 DEF StoredInv, Finish!Thumb

LEMMA RunOnly ==
    ASSUME StoredInv, NEW t \in Runs, NEW attempt \in Attempts,
           finishRuns' = [finishRuns EXCEPT ![t] = attempt], HoldsEnough(attempt),
           MediaFollows(attempt, finishRegistry[Finish!Media(t)], stored[Finish!Media(t)]),
           ThumbFollows(attempt, finishRegistry[Finish!Thumb(t)], stored[Finish!Thumb(t)]),
           finishRegistry' = finishRegistry, stored' = stored, backfills' = backfills,
           ShownIsMade', Finish!ShownIsWhole'
    PROVE  StoredInv'
<1>1. ObjectsTyped'
  BY DEF StoredInv, ObjectsTyped, Finish!Objects
<1> QED
  BY <1>1, RunStores

LEMMA ShownKept ==
    ASSUME StoredInv, gen' = gen, finishRegistry' = finishRegistry, stored' = stored
    PROVE  ShownIsMade' /\ Finish!ShownIsWhole'
BY DEF StoredInv, ShownIsMade, Finish!ShownIsWhole, Finish!Shown, Finish!Media, Finish!Thumb

(* Steps that leave a run with nothing in hand.                            *)
LEMMA RunRests ==
    ASSUME StoredInv, NEW t \in Runs, NEW attempt \in Attempts,
           attempt.allocated = 0, attempt.read = 0,
           \/ attempt.at \in {"over", "fail", "retry"}
           \/ attempt.at \in {"inline", "claim"} /\ finishRuns[t].at = "idle",
           finishRuns' = [finishRuns EXCEPT ![t] = attempt],
           finishRegistry' = finishRegistry, stored' = stored, backfills' = backfills,
           ShownIsMade', Finish!ShownIsWhole'
    PROVE  StoredInv'
<1>1. Follows(t)
  BY DEF StoredInv
<1>2. HoldsEnough(attempt)
  BY ObjectsDiffer DEF HoldsEnough, Written
<1>3. MediaFollows(attempt, finishRegistry[Finish!Media(t)], stored[Finish!Media(t)])
  BY <1>1 DEF Follows, MediaFollows, Unregistered, Written
<1>4. ThumbFollows(attempt, finishRegistry[Finish!Thumb(t)], stored[Finish!Thumb(t)])
  BY <1>1 DEF Follows, ThumbFollows
<1> QED
  BY <1>2, <1>3, <1>4, RunOnly

LEMMA Resting ==
    ASSUME NEW place \in {"over", "fail", "retry"}
    PROVE  LET attempt == [Finish!Idle EXCEPT !.at = place] IN
           /\ attempt \in Attempts /\ attempt.at = place /\ attempt.allocated = 0 /\ attempt.read = 0
           /\ HoldsEnough(attempt)
<1> DEFINE attempt == [Finish!Idle EXCEPT !.at = place]
<1>1. attempt \in Attempts /\ attempt.at = place /\ attempt.allocated = 0 /\ attempt.read = 0
  BY DEF Attempts, Steps, Finish!Idle
<1>2. HoldsEnough(attempt)
  BY <1>1, ObjectsDiffer DEF HoldsEnough, Written
<1> QED
  BY <1>1, <1>2

LEMMA Rests ==
    ASSUME NEW t \in Runs, Finish!Free(t) \/ Finish!Refuse(t)
    PROVE  \E place \in {"over", "fail", "retry"} :
              finishRuns' = [finishRuns EXCEPT ![t] = [Finish!Idle EXCEPT !.at = place]]
<1>1. CASE Finish!Free(t)
  BY <1>1 DEF Finish!Free, Finish!Goes
<1>2. CASE Finish!Refuse(t)
  <2>1. CASE finishRuns[t].inline
    BY <1>2, <2>1 DEF Finish!Refuse, Finish!Goes
  <2>2. CASE ~finishRuns[t].inline
    BY <1>2, <2>2 DEF Finish!Refuse, Finish!Goes
  <2> QED
    BY <2>1, <2>2
<1> QED
  BY <1>1, <1>2

LEMMA Freed ==
    ASSUME StoredInv, NEW t \in Runs, Finish!Free(t) \/ Finish!Refuse(t),
           finishRegistry' = finishRegistry, stored' = stored, backfills' = backfills,
           ShownIsMade', Finish!ShownIsWhole'
    PROVE  StoredInv'
<1>1. PICK place \in {"over", "fail", "retry"} :
         finishRuns' = [finishRuns EXCEPT ![t] = [Finish!Idle EXCEPT !.at = place]]
  BY Rests
<1> DEFINE attempt == [Finish!Idle EXCEPT !.at = place]
<1>2. attempt \in Attempts /\ attempt.at = place /\ attempt.allocated = 0 /\ attempt.read = 0
  BY Resting
<1> HIDE DEF attempt
<1> QED
  BY <1>1, <1>2, RunRests DEF attempt

(* A run goes on with what it has.                                         *)
LEMMA RunGoes ==
    ASSUME StoredInv, NEW t \in Runs, NEW place \in Steps, Finish!Go(t, place),
           \/ finishRuns[t].at = "claim" /\ place = "fetch"
           \/ finishRuns[t].at \in Written /\ place \in Written \ {"thumbPut", "thumbLive", "thumbRow"}
           \/ place \in {"over", "release"},
           finishRegistry' = finishRegistry, stored' = stored, backfills' = backfills,
           ShownIsMade', Finish!ShownIsWhole'
    PROVE  StoredInv'
<1> DEFINE attempt == [finishRuns[t] EXCEPT !.at = place]
<1>1. /\ finishRuns[t] \in Attempts /\ HoldsEnough(finishRuns[t]) /\ Follows(t)
      /\ finishRuns' = [finishRuns EXCEPT ![t] = attempt]
  BY DEF StoredInv, Finish!Go, Finish!Goes
<1>2. /\ attempt \in Attempts /\ attempt.at = place
      /\ attempt.allocated = finishRuns[t].allocated /\ attempt.file = finishRuns[t].file
      /\ attempt.read = finishRuns[t].read
  BY <1>1 DEF Attempts
<1>3. HoldsEnough(attempt)
  BY <1>1, <1>2 DEF HoldsEnough, Unregistered, Written
<1>4. MediaFollows(attempt, finishRegistry[Finish!Media(t)], stored[Finish!Media(t)])
  BY <1>1, <1>2 DEF Follows, MediaFollows, Unregistered, Written
<1>5. ThumbFollows(attempt, finishRegistry[Finish!Thumb(t)], stored[Finish!Thumb(t)])
  BY <1>1, <1>2 DEF Follows, ThumbFollows, Unregistered, Written
<1> HIDE DEF attempt
<1> QED
  BY <1>1, <1>2, <1>3, <1>4, <1>5, RunOnly

(* What a run reads stays within the budget, and what it keeps is whole.   *)
LEMMA ReadKeeps ==
    ASSUME StoredInv, NEW t \in Runs, NEW attempt \in Attempts, attempt.at \in {"read", "register"},
           finishRuns[t].at \in Unregistered, HoldsEnough(attempt),
           finishRuns' = [finishRuns EXCEPT ![t] = attempt],
           finishRegistry' = finishRegistry, stored' = stored, backfills' = backfills, gen' = gen
    PROVE  StoredInv'
<1>1. Follows(t)
  BY DEF StoredInv
<1>2. MediaFollows(attempt, finishRegistry[Finish!Media(t)], stored[Finish!Media(t)])
  BY <1>1 DEF Follows, MediaFollows, Unregistered, Written
<1>3. ThumbFollows(attempt, finishRegistry[Finish!Thumb(t)], stored[Finish!Thumb(t)])
  BY <1>1 DEF Follows, ThumbFollows
<1> QED
  BY <1>2, <1>3, RunOnly, ShownKept

LEMMA BodiesTyped ==
    \A sent \in Finish!Bodies : /\ sent.type \in Types /\ sent.declared \in Nat /\ sent.size \in Nat
<1> SUFFICES ASSUME NEW sent \in Finish!Bodies
             PROVE  sent.type \in Types /\ sent.declared \in Nat /\ sent.size \in Nat
  OBVIOUS
<1>1. CASE sent \in [type : {"picture"}, declared : 0..MaxBytes + 1, size : 0..MaxBytes + 1]
  BY <1>1, ObjectsDiffer DEF Types
<1>2. CASE sent \in [type : {"undecodable", "other"}, declared : {1}, size : {1}]
  BY <1>2 DEF Types
<1> QED
  BY <1>1, <1>2 DEF Finish!Bodies

LEMMA GotKeeps ==
    ASSUME StoredInv, NEW t \in Runs, NEW type \in Types, NEW whole, whole = TRUE,
           NEW allocated \in Nat, allocated <= MaxBytes, finishRuns[t].at \in Unregistered,
           Finish!Got(t, type, whole, allocated),
           finishRegistry' = finishRegistry, stored' = stored, backfills' = backfills, gen' = gen
    PROVE  StoredInv'
<1> DEFINE file == [type |-> type, whole |-> TRUE]
           attempt == [Finish!Idle EXCEPT !.at = "register", !.inline = finishRuns[t].inline,
                                      !.allocated = allocated, !.file = {file}]
<1>1. finishRuns' = [finishRuns EXCEPT ![t] = attempt]
  BY DEF Finish!Got, Finish!Goes
<1>2. finishRuns[t].inline \in BOOLEAN
  BY DEF StoredInv, Attempts
<1>3. file \in Files /\ file.whole
  BY DEF Files
<1> HIDE DEF file
<1>4. /\ attempt \in Attempts /\ attempt.at = "register" /\ attempt.allocated = allocated
      /\ attempt.file = {file}
  BY <1>2, <1>3 DEF Attempts, Steps, Finish!Idle
<1> HIDE DEF attempt
<1>5. HoldsEnough(attempt)
  BY <1>3, <1>4 DEF HoldsEnough
<1> QED
  BY <1>1, <1>4, <1>5, ReadKeeps

LEMMA InlineKeeps ==
    ASSUME StoredInv, NEW t \in Runs, NEW sent \in Finish!Bodies, Finish!storeInlineResult(t, sent)
    PROVE  StoredInv'
<1>1. /\ finishRegistry' = finishRegistry /\ stored' = stored /\ backfills' = backfills /\ gen' = gen
      /\ finishRuns[t].at \in Unregistered
  BY DEF Finish!storeInlineResult, Finish!objects, Finish!script, Finish!At, Unregistered
<1>2. CASE Finish!Free(t) \/ Finish!Refuse(t)
  BY <1>1, <1>2, Freed, ShownKept
<1>3. CASE ~Finish!rejectPayload(sent) /\ Finish!Got(t, sent.type, TRUE, sent.size)
  <2>1. sent.type \in Types /\ sent.size \in Nat /\ sent.size <= MaxBytes
    BY <1>3, BodiesTyped, ObjectsDiffer DEF Finish!rejectPayload
  <2> QED
    BY <1>1, <1>3, <2>1, GotKeeps
<1> QED
  BY <1>2, <1>3 DEF Finish!storeInlineResult

LEMMA DownloadKeeps ==
    ASSUME StoredInv, NEW t \in Runs, NEW sent \in Finish!Bodies, Finish!downloadBounded(t, sent)
    PROVE  StoredInv'
<1> DEFINE attempt == [finishRuns[t] EXCEPT !.at = "read", !.body = {sent}, !.allocated = sent.declared]
<1>1. /\ finishRegistry' = finishRegistry /\ stored' = stored /\ backfills' = backfills /\ gen' = gen
      /\ finishRuns[t].at = "fetch"
  BY DEF Finish!downloadBounded, Finish!objects, Finish!script, Finish!At
<1>2. CASE Finish!Refuse(t)
  BY <1>1, <1>2, Freed, ShownKept
<1>3. CASE /\ sent.declared <= MaxBytes
           /\ finishRuns' = [finishRuns EXCEPT ![t] = attempt]
  <2>1. /\ attempt \in Attempts /\ attempt.at = "read" /\ attempt.body = {sent}
        /\ attempt.allocated = sent.declared /\ attempt.read = finishRuns[t].read
    <3>1. finishRuns[t] \in Attempts /\ {sent} \in SUBSET Finish!Bodies /\ sent.declared \in Nat
      BY BodiesTyped DEF StoredInv
    <3> QED
      BY <3>1 DEF Attempts, Steps
  <2>2. finishRuns[t].read = 0
    BY <1>1 DEF StoredInv, HoldsEnough
  <2>3. HoldsEnough(attempt)
    BY <1>3, <2>1, <2>2, BodiesTyped, ObjectsDiffer DEF HoldsEnough, Written, Finish!Ceiling
  <2> HIDE DEF attempt
  <2> QED
    BY <1>1, <1>3, <2>1, <2>3, ReadKeeps DEF Unregistered
<1> QED
  BY <1>2, <1>3, BodiesTyped, ObjectsDiffer DEF Finish!downloadBounded, Finish!Goes

LEMMA ChunkKeeps ==
    ASSUME StoredInv, NEW t \in Runs, NEW n \in 1..MaxBytes + 1, Finish!Chunk(t, n)
    PROVE  StoredInv'
<1>1. /\ finishRegistry' = finishRegistry /\ stored' = stored /\ backfills' = backfills /\ gen' = gen
      /\ finishRuns[t].at = "read"
  BY DEF Finish!Chunk, Finish!objects, Finish!script, Finish!At
<1>2. CASE Finish!Refuse(t)
  BY <1>1, <1>2, Freed, ShownKept
<1>3. CASE ~Finish!Refuse(t)
  <2>1. PICK sent \in Finish!Bodies : 
            /\ finishRuns[t].body = {sent}
            /\ IF sent.declared > 0 THEN finishRuns[t].allocated = sent.declared
               ELSE finishRuns[t].allocated = finishRuns[t].read /\ finishRuns[t].read <= Finish!Ceiling
    BY <1>1 DEF StoredInv, HoldsEnough
  <2>2. Finish!Body(t) = sent
    BY <2>1 DEF Finish!Body
  <2> DEFINE read == finishRuns[t].read + n
             attempt == [finishRuns[t] EXCEPT !.read = read,
                        !.allocated = IF sent.declared > 0 THEN @ ELSE read]
  <2>3. finishRuns[t] \in Attempts /\ HoldsEnough(finishRuns[t]) /\ read \in Nat
    BY ObjectsDiffer DEF StoredInv, Attempts
  <2>4. /\ finishRuns' = [finishRuns EXCEPT ![t] = attempt]
        /\ sent.declared > 0 \/ read <= Finish!Ceiling
    BY <1>3, <2>2, <2>3, ObjectsDiffer DEF Finish!Ceiling, Finish!Chunk, Finish!Goes, Finish!Exact
  <2>5. /\ attempt \in Attempts /\ attempt.at = "read" /\ attempt.body = {sent} /\ attempt.read = read
        /\ attempt.allocated = IF sent.declared > 0 THEN finishRuns[t].allocated ELSE read
    BY <1>1, <2>1, <2>3 DEF Attempts, Steps
  <2> HIDE DEF attempt
  <2>6. HoldsEnough(attempt)
    BY <2>1, <2>3, <2>4, <2>5, ObjectsDiffer DEF HoldsEnough, Written, Finish!Ceiling
  <2> QED
    BY <1>1, <2>4, <2>5, <2>6, ReadKeeps DEF Unregistered
<1> QED
  BY <1>2, <1>3

LEMMA EndKeeps == ASSUME StoredInv, NEW t \in Runs, Finish!BodyEnds(t) PROVE StoredInv'
<1>1. /\ finishRegistry' = finishRegistry /\ stored' = stored /\ backfills' = backfills /\ gen' = gen
      /\ finishRuns[t].at = "read"
  BY DEF Finish!BodyEnds, Finish!objects, Finish!script, Finish!At
<1>2. CASE Finish!Refuse(t)
  BY <1>1, <1>2, Freed, ShownKept
<1>3. CASE ~Finish!Refuse(t)
  <2>1. PICK sent \in Finish!Bodies : 
            /\ finishRuns[t].body = {sent}
            /\ IF sent.declared > 0 THEN finishRuns[t].allocated = sent.declared
               ELSE finishRuns[t].allocated = finishRuns[t].read /\ finishRuns[t].read <= Finish!Ceiling
    BY <1>1 DEF StoredInv, HoldsEnough
  <2>2. Finish!Body(t) = sent
    BY <2>1 DEF Finish!Body
  <2> DEFINE whole == sent.declared > 0 => finishRuns[t].read = sent.declared
             allocated == finishRuns[t].allocated + IF sent.declared > 0 THEN 0 ELSE finishRuns[t].read
  <2>3. Finish!Got(t, sent.type, whole, allocated) /\ whole = TRUE
    BY <1>3, <2>2 DEF Finish!BodyEnds, Finish!Exact, Finish!Complete
  <2>4. allocated \in Nat /\ allocated <= MaxBytes
    BY <2>1, ObjectsDiffer DEF StoredInv, Attempts, HoldsEnough, Finish!Ceiling
  <2> HIDE DEF whole, allocated
  <2> QED
    BY <1>1, <2>3, <2>4, GotKeeps, BodiesTyped DEF Unregistered
<1> QED
  BY <1>2, <1>3

LEMMA FinishKeeps ==
    ASSUME StoredInv, NEW t \in Runs, NEW inline \in BOOLEAN, Finish!finishJob(t, inline)
    PROVE  StoredInv'
<1> DEFINE place == IF inline THEN "inline" ELSE "claim"
           attempt == [Finish!Idle EXCEPT !.at = place, !.inline = inline]
<1>1. /\ finishRegistry' = finishRegistry /\ stored' = stored /\ backfills' = backfills /\ gen' = gen
      /\ finishRuns[t].at = "idle" /\ finishRuns' = [finishRuns EXCEPT ![t] = attempt]
  BY DEF Finish!finishJob, Finish!objects, Finish!script, Finish!At, Finish!Goes
<1>2. place \in {"inline", "claim"}
  OBVIOUS
<1> HIDE DEF place
<1>3. attempt \in Attempts /\ attempt.at = place /\ attempt.allocated = 0 /\ attempt.read = 0
  BY <1>2 DEF Attempts, Steps, Finish!Idle
<1> HIDE DEF attempt
<1> QED
  BY <1>1, <1>2, <1>3, RunRests, ShownKept

LEMMA ClaimSaveKeeps == ASSUME StoredInv, NEW t \in Runs, Finish!claimSave(t) PROVE StoredInv'
<1>1. /\ finishRegistry' = finishRegistry /\ stored' = stored /\ backfills' = backfills /\ gen' = gen
      /\ finishRuns[t].at = "claim"
      /\ Finish!Go(t, "fetch") \/ Finish!Free(t)
  BY DEF Finish!claimSave, Finish!objects, Finish!script, Finish!At
<1> QED
  BY <1>1, RunGoes, Freed, ShownKept DEF Steps

(* What the library may show once it is registered or written again.       *)
ObjectStays(o) ==
    /\ \/ finishRegistry'[o] = finishRegistry[o]
       \/ finishRegistry'[o] \in {"staged", "live"}
       \/ finishRegistry'[o] = "queued" /\ o \notin Finish!Shown
    /\ stored'[o] = stored[o] \/ stored'[o] = {"whole"}

LEMMA ShownStays ==
    ASSUME StoredInv, gen' = gen, \A o \in Finish!Objects : ObjectStays(o)
    PROVE  ShownIsMade' /\ Finish!ShownIsWhole'
<1>1. Finish!Shown' = Finish!Shown /\ ShownIsMade'
  BY DEF StoredInv, Finish!Shown, ShownIsMade, Finish!Media, Finish!Thumb
<1>2. Finish!Shown \subseteq Finish!Objects
  BY ObjectsDiffer DEF StoredInv, Finish!Shown, ShownIsMade
<1> QED
  BY <1>1, <1>2 DEF StoredInv, Finish!ShownIsWhole, ObjectStays

(* The object of a run, and its thumbnail: what one step may do to each.   *)
LEMMA MediaMoves ==
    ASSUME StoredInv, NEW t \in Runs, NEW attempt \in Attempts, HoldsEnough(attempt),
           finishRuns' = [finishRuns EXCEPT ![t] = attempt],
           attempt.at \notin {"thumbPut", "thumbLive", "thumbRow"},
           NEW r \in {"none", "staged", "live", "queued"}, NEW f \in {{}, {"whole"}},
           finishRegistry' = [finishRegistry EXCEPT ![Finish!Media(t)] = r],
           stored' = [stored EXCEPT ![Finish!Media(t)] = f],
           f = stored[Finish!Media(t)] \/ f = {"whole"},
           \/ r = finishRegistry[Finish!Media(t)] \/ r \in {"staged", "live"}
           \/ r = "queued" /\ gen.media # t,
           MediaFollows(attempt, r, f), gen' = gen, backfills' = backfills
    PROVE  StoredInv'
<1> DEFINE m == Finish!Media(t)
<1>1. /\ m \in Finish!Objects /\ Finish!Thumb(t) \in Finish!Objects /\ Finish!Thumb(t) # m
  BY ObjectsDiffer DEF Made
<1>2. ObjectsTyped
  BY DEF StoredInv
<1>3. /\ ObjectsTyped' /\ finishRegistry'[m] = r /\ stored'[m] = f
      /\ \A o \in Finish!Objects : o # m =>
            finishRegistry'[o] = finishRegistry[o] /\ stored'[o] = stored[o]
  BY <1>1, <1>2 DEF ObjectsTyped, Finish!Objects
<1>4. gen.media # t => m \notin Finish!Shown
  BY ObjectsDiffer DEF StoredInv, ShownIsMade, Finish!Shown, Made
<1>5. \A o \in Finish!Objects : ObjectStays(o)
  <2>1. ASSUME NEW o \in Finish!Objects, o # m PROVE ObjectStays(o)
    BY <1>3, <2>1 DEF ObjectStays
  <2>2. ObjectStays(m)
    BY <1>3, <1>4 DEF ObjectStays
  <2> QED
    BY <2>1, <2>2
<1>6. ShownIsMade' /\ Finish!ShownIsWhole'
  BY <1>5, ShownStays
<1>7. ThumbFollows(attempt, finishRegistry'[Finish!Thumb(t)], stored'[Finish!Thumb(t)])
  BY <1>1, <1>3 DEF StoredInv, Follows, ThumbFollows
<1> QED
  BY <1>3, <1>6, <1>7, RunStores

LEMMA ThumbMoves ==
    ASSUME StoredInv, NEW t \in Runs, NEW attempt \in Attempts, HoldsEnough(attempt),
           finishRuns' = [finishRuns EXCEPT ![t] = attempt],
           finishRuns[t].at \in Written, attempt.at \in Written \cup {"over"},
           NEW r \in {"none", "staged", "live"}, NEW f \in {{}, {"whole"}},
           finishRegistry' = [finishRegistry EXCEPT ![Finish!Thumb(t)] = r],
           stored' = [stored EXCEPT ![Finish!Thumb(t)] = f],
           f = stored[Finish!Thumb(t)] \/ f = {"whole"},
           r = finishRegistry[Finish!Thumb(t)] \/ r \in {"staged", "live"},
           ThumbFollows(attempt, r, f), gen' = gen, backfills' = backfills
    PROVE  StoredInv'
<1> DEFINE m == Finish!Thumb(t)
<1>1. /\ m \in Finish!Objects /\ Finish!Media(t) \in Finish!Objects /\ Finish!Media(t) # m
  BY ObjectsDiffer DEF Made
<1>2. ObjectsTyped
  BY DEF StoredInv
<1>3. /\ ObjectsTyped' /\ finishRegistry'[m] = r /\ stored'[m] = f
      /\ \A o \in Finish!Objects : o # m =>
            finishRegistry'[o] = finishRegistry[o] /\ stored'[o] = stored[o]
  BY <1>1, <1>2 DEF ObjectsTyped, Finish!Objects
<1>4. \A o \in Finish!Objects : ObjectStays(o)
  <2>1. ASSUME NEW o \in Finish!Objects, o # m PROVE ObjectStays(o)
    BY <1>3, <2>1 DEF ObjectStays
  <2>2. ObjectStays(m)
    BY <1>3 DEF ObjectStays
  <2> QED
    BY <2>1, <2>2
<1>5. ShownIsMade' /\ Finish!ShownIsWhole'
  BY <1>4, ShownStays
<1>6. MediaFollows(attempt, finishRegistry'[Finish!Media(t)], stored'[Finish!Media(t)])
  BY <1>1, <1>3 DEF StoredInv, Follows, MediaFollows, Written, Unregistered
<1> QED
  BY <1>3, <1>5, <1>6, RunStores

LEMMA TrackKeeps == ASSUME StoredInv, NEW t \in Runs, Finish!trackObject(t) PROVE StoredInv'
<1> DEFINE m == Finish!Media(t)
<1>1. /\ stored' = stored /\ backfills' = backfills /\ gen' = gen
      /\ finishRuns[t].at = "register" /\ finishRegistry[m] = "none" /\ m \in Finish!Objects
      /\ ObjectsTyped /\ finishRuns[t] \in Attempts /\ HoldsEnough(finishRuns[t])
  BY ObjectsDiffer DEF StoredInv, Follows, MediaFollows, Unregistered, Finish!trackObject,
     Finish!script,
     Finish!At, Made
<1>2. Finish!Registered(m) = [finishRegistry EXCEPT ![m] = "staged"]
  BY <1>1 DEF Finish!Registered
<1>3. CASE finishRegistry' = finishRegistry /\ Finish!Refuse(t)
  BY <1>1, <1>3, Freed, ShownKept
<1>4. CASE finishRegistry' = Finish!Registered(m)
  <2>1. /\ stored' = [stored EXCEPT ![m] = stored[m]] /\ stored[m] \in {{}, {"whole"}}
        /\ finishRegistry' = [finishRegistry EXCEPT ![m] = "staged"]
    BY <1>1, <1>2, <1>4 DEF ObjectsTyped
  <2>2. \A attempt : attempt.at \in {"put", "over", "fail", "retry"} => MediaFollows(attempt, "staged", stored[m])
    BY DEF MediaFollows, Unregistered, Written
  <2>3. CASE Finish!Refuse(t)
    <3>1. PICK place \in {"over", "fail", "retry"} :
             finishRuns' = [finishRuns EXCEPT ![t] = [Finish!Idle EXCEPT !.at = place]]
      BY <2>3, Rests
    <3> DEFINE attempt == [Finish!Idle EXCEPT !.at = place]
    <3>2. /\ attempt \in Attempts /\ attempt.at = place /\ HoldsEnough(attempt)
          /\ finishRuns' = [finishRuns EXCEPT ![t] = attempt]
      BY <3>1, Resting
    <3> HIDE DEF attempt
    <3>3. MediaFollows(attempt, "staged", stored[m])
      BY <2>2, <3>2
    <3> QED
      BY <1>1, <2>1, <3>2, <3>3, MediaMoves
  <2>4. CASE Finish!Go(t, "put")
    <3> DEFINE attempt == [finishRuns[t] EXCEPT !.at = "put"]
    <3>1. /\ attempt \in Attempts /\ attempt.at = "put" /\ attempt.allocated = finishRuns[t].allocated
          /\ attempt.file = finishRuns[t].file /\ finishRuns' = [finishRuns EXCEPT ![t] = attempt]
      BY <1>1, <2>4 DEF Attempts, Steps, Finish!Go, Finish!Goes
    <3> HIDE DEF attempt
    <3>2. HoldsEnough(attempt)
      BY <1>1, <3>1 DEF HoldsEnough
    <3>3. MediaFollows(attempt, "staged", stored[m])
      BY <2>2, <3>1
    <3> QED
      BY <1>1, <2>1, <3>1, <3>2, <3>3, MediaMoves
  <2> QED
    BY <2>3, <2>4 DEF Finish!trackObject
<1> QED
  BY <1>3, <1>4 DEF Finish!trackObject

LEMMA PutKeeps == ASSUME StoredInv, NEW t \in Runs, Finish!putObject(t) PROVE StoredInv'
<1> DEFINE m == Finish!Media(t)
<1>1. /\ finishRegistry' = finishRegistry /\ backfills' = backfills /\ gen' = gen
      /\ finishRuns[t].at = "put" /\ finishRegistry[m] \in {"staged", "live"} /\ m \in Finish!Objects
      /\ ObjectsTyped /\ finishRuns[t] \in Attempts /\ HoldsEnough(finishRuns[t])
  BY ObjectsDiffer DEF StoredInv, Follows, MediaFollows, Finish!putObject, Finish!script,
     Finish!At, Made
<1>2. Finish!Whole(t) = "whole"
  BY <1>1 DEF HoldsEnough, Finish!Whole, Finish!File
<1>3. CASE stored' = stored /\ Finish!Refuse(t)
  BY <1>1, <1>3, Freed, ShownKept
<1>4. CASE stored' = [stored EXCEPT ![m] = {"whole"}]
  <2>1. finishRegistry' = [finishRegistry EXCEPT ![m] = finishRegistry[m]]
    BY <1>1 DEF ObjectsTyped
  <2>2. \A attempt : attempt.at \in {"live", "over", "fail", "retry"} =>
           MediaFollows(attempt, finishRegistry[m], {"whole"})
    BY <1>1 DEF MediaFollows, Unregistered
  <2>3. CASE Finish!Refuse(t)
    <3>1. PICK place \in {"over", "fail", "retry"} :
             finishRuns' = [finishRuns EXCEPT ![t] = [Finish!Idle EXCEPT !.at = place]]
      BY <2>3, Rests
    <3> DEFINE attempt == [Finish!Idle EXCEPT !.at = place]
    <3>2. /\ attempt \in Attempts /\ attempt.at = place /\ HoldsEnough(attempt)
          /\ finishRuns' = [finishRuns EXCEPT ![t] = attempt]
      BY <3>1, Resting
    <3> HIDE DEF attempt
    <3>3. MediaFollows(attempt, finishRegistry[m], {"whole"})
      BY <2>2, <3>2
    <3> QED
      BY <1>1, <1>4, <2>1, <3>2, <3>3, MediaMoves
  <2>4. CASE Finish!Go(t, "live")
    <3> DEFINE attempt == [finishRuns[t] EXCEPT !.at = "live"]
    <3>1. /\ attempt \in Attempts /\ attempt.at = "live" /\ attempt.allocated = finishRuns[t].allocated
          /\ attempt.file = finishRuns[t].file /\ finishRuns' = [finishRuns EXCEPT ![t] = attempt]
      BY <1>1, <2>4 DEF Attempts, Steps, Finish!Go, Finish!Goes
    <3> HIDE DEF attempt
    <3>2. HoldsEnough(attempt)
      BY <1>1, <3>1 DEF HoldsEnough
    <3>3. MediaFollows(attempt, finishRegistry[m], {"whole"})
      BY <2>2, <3>1
    <3> QED
      BY <1>1, <1>4, <2>1, <3>1, <3>2, <3>3, MediaMoves
  <2> QED
    BY <2>3, <2>4 DEF Finish!putObject
<1> QED
  BY <1>2, <1>3, <1>4 DEF Finish!putObject

LEMMA MarkKeeps == ASSUME StoredInv, NEW t \in Runs, Finish!markMedia(t) PROVE StoredInv'
<1> DEFINE m == Finish!Media(t)
           attempt == [finishRuns[t] EXCEPT !.at = "settle"]
<1>1. /\ stored' = stored /\ backfills' = backfills /\ gen' = gen
      /\ finishRuns[t].at = "live" /\ finishRegistry[m] \in {"staged", "live"} /\ stored[m] = {"whole"}
      /\ ObjectsTyped /\ finishRuns[t] \in Attempts /\ HoldsEnough(finishRuns[t])
      /\ m \in Finish!Objects /\ finishRuns' = [finishRuns EXCEPT ![t] = attempt]
  BY ObjectsDiffer DEF StoredInv, Follows, MediaFollows, Written, Finish!markMedia,
     Finish!script, Finish!At,
     Made, Finish!Go, Finish!Goes
<1>2. \E r \in {"staged", "live"} : finishRegistry' = [finishRegistry EXCEPT ![m] = r]
  <2>1. CASE finishRegistry' = finishRegistry
    BY <1>1, <2>1 DEF ObjectsTyped
  <2>2. CASE finishRegistry' = Finish!MarkedLive(m)
    BY <1>1, <2>2 DEF ObjectsTyped, Finish!MarkedLive
  <2> QED
    BY <2>1, <2>2 DEF Finish!markMedia
<1>3. stored' = [stored EXCEPT ![m] = {"whole"}]
  BY <1>1 DEF ObjectsTyped
<1>4. /\ attempt \in Attempts /\ attempt.at = "settle" /\ attempt.allocated = finishRuns[t].allocated
      /\ attempt.file = finishRuns[t].file
  BY <1>1 DEF Attempts, Steps
<1> HIDE DEF attempt
<1>5. HoldsEnough(attempt)
  BY <1>1, <1>4 DEF HoldsEnough, Written
<1>6. \A r \in {"staged", "live"} : MediaFollows(attempt, r, {"whole"})
  BY <1>4 DEF MediaFollows, Unregistered
<1> QED
  BY <1>1, <1>2, <1>3, <1>4, <1>5, <1>6, MediaMoves

LEMMA DropKeeps == ASSUME StoredInv, NEW t \in Runs, Finish!dropLostObject(t) PROVE StoredInv'
<1> DEFINE m == Finish!Media(t)
<1>1. /\ stored' = stored /\ backfills' = backfills /\ gen' = gen
      /\ Finish!Free(t) /\ ObjectsTyped /\ m \in Finish!Objects
  BY ObjectsDiffer DEF StoredInv, Finish!dropLostObject, Finish!script, Made
<1>2. CASE finishRegistry' = finishRegistry
  BY <1>1, <1>2, Freed, ShownKept
<1>3. CASE gen.media # t /\ finishRegistry' = [finishRegistry EXCEPT ![m] = "queued"]
  <2>1. PICK place \in {"over", "fail", "retry"} :
           finishRuns' = [finishRuns EXCEPT ![t] = [Finish!Idle EXCEPT !.at = place]]
    BY <1>1, Rests
  <2> DEFINE attempt == [Finish!Idle EXCEPT !.at = place]
  <2>2. attempt \in Attempts /\ attempt.at = place /\ HoldsEnough(attempt)
    BY Resting
  <2> HIDE DEF attempt
  <2>3. stored' = [stored EXCEPT ![m] = stored[m]] /\ stored[m] \in {{}, {"whole"}}
    BY <1>1 DEF ObjectsTyped
  <2>4. MediaFollows(attempt, "queued", stored[m])
    BY <2>2 DEF MediaFollows, Unregistered, Written
  <2> QED
    BY <1>1, <1>3, <2>1, <2>2, <2>3, <2>4, MediaMoves DEF attempt
<1> QED
  BY <1>2, <1>3 DEF Finish!dropLostObject

LEMMA SettleKeeps == ASSUME StoredInv, NEW t \in Runs, Finish!settleStored(t) PROVE StoredInv'
<1> DEFINE won == [gen EXCEPT !.status = "done", !.media = t]
<1>1. /\ finishRegistry' = finishRegistry /\ stored' = stored /\ backfills' = backfills
      /\ finishRuns[t].at = "settle" /\ gen' \in {gen, won}
      /\ \/ Finish!Go(t, "thumb") \/ Finish!Go(t, "drop") \/ Finish!Go(t, "over")
         \/ Finish!Go(t, "release")
  BY DEF Finish!settleStored, Finish!objects, Finish!script, Finish!At
<1>2. CASE gen' = gen
  <2>1. ShownIsMade' /\ Finish!ShownIsWhole'
    BY <1>1, <1>2, ShownKept
  <2> QED
    BY <1>1, <2>1, RunGoes DEF Written, Steps
<1>3. CASE gen' = won
  <2>1. gen \in Gens /\ t \in Made /\ finishRegistry[Finish!Media(t)] \in {"staged", "live"}
        /\ stored[Finish!Media(t)] = {"whole"}
    BY <1>1 DEF StoredInv, ShownIsMade, Follows, MediaFollows, Written, Made
  <2>2. /\ gen' \in Gens /\ gen'.status = "done" /\ gen'.media = t
        /\ gen'.thumb = gen.thumb /\ gen'.thumbOf = gen.thumbOf
    BY <1>3, <2>1 DEF Gens
  <2>3. ShownIsMade'
    BY <2>1, <2>2 DEF StoredInv, ShownIsMade
  <2>4. Finish!Shown' \subseteq Finish!Shown \cup {Finish!Media(t)}
    BY <2>2 DEF Finish!Shown, Finish!Media, Finish!Thumb
  <2>5. Finish!ShownIsWhole'
    BY <1>1, <2>1, <2>4 DEF StoredInv, Finish!ShownIsWhole
  <2> QED
    BY <1>1, <2>3, <2>5, RunGoes DEF Written, Steps
<1> QED
  BY <1>1, <1>2, <1>3

(* A row that fails, or whose thumbnail does, shows no more than it did.   *)
LEMMA ShownLess ==
    ASSUME StoredInv, gen' \in Gens,
           gen'.status = "done" => gen.status = "done" /\ gen'.media = gen.media,
           gen'.thumb = "ready" => gen.thumb = "ready" /\ gen'.thumbOf = gen.thumbOf,
           finishRegistry' = finishRegistry, stored' = stored
    PROVE  ShownIsMade' /\ Finish!ShownIsWhole'
<1>1. ShownIsMade'
  BY DEF StoredInv, ShownIsMade
<1>2. Finish!Shown' \subseteq Finish!Shown
  BY DEF Finish!Shown, Finish!Media, Finish!Thumb
<1> QED
  BY <1>1, <1>2 DEF StoredInv, Finish!ShownIsWhole

LEMMA FailKeeps == ASSUME StoredInv, NEW t \in Runs, Finish!failJob(t) PROVE StoredInv'
<1>1. /\ finishRegistry' = finishRegistry /\ stored' = stored /\ backfills' = backfills
      /\ Finish!Free(t) /\ gen' \in {gen, [gen EXCEPT !.status = "failed"]} /\ gen \in Gens
  BY DEF StoredInv, ShownIsMade, Finish!failJob, Finish!objects, Finish!script
<1>2. ShownIsMade' /\ Finish!ShownIsWhole'
  BY <1>1, ShownLess DEF Gens
<1> QED
  BY <1>1, <1>2, Freed

LEMMA ReleaseKeeps ==
    ASSUME StoredInv, NEW t \in Runs, Finish!releaseClaim(t) \/ Finish!RunDies(t)
    PROVE  StoredInv'
<1>1. /\ finishRegistry' = finishRegistry /\ stored' = stored /\ backfills' = backfills /\ gen' = gen
      /\ Finish!Free(t)
  BY DEF Finish!releaseClaim, Finish!RunDies, Finish!objects, Finish!script
<1> QED
  BY <1>1, ShownKept, Freed

(* The last word on a thumbnail: it is there, or there is none to show.    *)
LEMMA StateSet ==
    ASSUME StoredInv, NEW t \in Runs, NEW state \in {"ready", "failed", "unsupported"},
           Finish!setThumbState(t, state), state = "ready" => finishRuns[t].at = "thumbRow",
           finishRegistry' = finishRegistry, stored' = stored, backfills' = backfills
    PROVE  StoredInv'
<1>1. gen \in Gens /\ t \in Made /\ Finish!Free(t)
  BY DEF StoredInv, ShownIsMade, Made, Finish!setThumbState
<1>2. /\ gen' \in Gens /\ gen'.status = gen.status /\ gen'.media = gen.media
      /\ gen'.thumb = state
      /\ state = "ready" => gen'.thumbOf = t
  BY <1>1 DEF Gens, Finish!setThumbState
<1>3. CASE state # "ready"
  BY <1>1, <1>2, <1>3, ShownLess, Freed
<1>4. CASE state = "ready"
  <2>1. /\ finishRegistry[Finish!Thumb(t)] \in {"staged", "live"}
        /\ stored[Finish!Thumb(t)] = {"whole"}
    BY <1>4, ObjectsDiffer DEF StoredInv, ObjectsTyped, Follows, ThumbFollows, Made
  <2>2. ShownIsMade'
    BY <1>1, <1>2 DEF StoredInv, ShownIsMade
  <2>3. Finish!Shown' \subseteq Finish!Shown \cup {Finish!Thumb(t)}
    BY <1>2, <1>4 DEF Finish!Shown, Finish!Media, Finish!Thumb
  <2>4. Finish!ShownIsWhole'
    BY <2>1, <2>3 DEF StoredInv, Finish!ShownIsWhole
  <2> QED
    BY <1>1, <2>2, <2>4, Freed
<1> QED
  BY <1>3, <1>4

LEMMA ThumbGoes ==
    ASSUME StoredInv, NEW t \in Runs, NEW next \in {"thumbPut", "thumbLive", "thumbRow"},
           finishRuns[t].at \in Written, Finish!Go(t, next),
           NEW r \in {"staged", "live"}, NEW f \in {{}, {"whole"}},
           finishRegistry' = [finishRegistry EXCEPT ![Finish!Thumb(t)] = r],
           stored' = [stored EXCEPT ![Finish!Thumb(t)] = f],
           f = stored[Finish!Thumb(t)] \/ f = {"whole"},
           next # "thumbPut" => f = {"whole"}, gen' = gen, backfills' = backfills
    PROVE  StoredInv'
<1> DEFINE attempt == [finishRuns[t] EXCEPT !.at = next]
<1>1. finishRuns[t] \in Attempts /\ HoldsEnough(finishRuns[t])
  BY DEF StoredInv
<1>2. /\ attempt \in Attempts /\ attempt.at = next /\ attempt.allocated = finishRuns[t].allocated
      /\ attempt.file = finishRuns[t].file /\ finishRuns' = [finishRuns EXCEPT ![t] = attempt]
  BY <1>1 DEF Attempts, Steps, Finish!Go, Finish!Goes
<1> HIDE DEF attempt
<1>3. HoldsEnough(attempt)
  BY <1>1, <1>2 DEF HoldsEnough, Written
<1>4. ThumbFollows(attempt, r, f) /\ attempt.at \in Written
  BY <1>2 DEF ThumbFollows, Written
<1> QED
  BY <1>2, <1>3, <1>4, ThumbMoves

LEMMA ThumbKeeps == ASSUME StoredInv, NEW t \in Runs, Finish!ThumbWritten(t) PROVE StoredInv'
<1> DEFINE m == Finish!Thumb(t)
<1>1. /\ backfills' = backfills /\ Finish!storeThumbnail(t) /\ ObjectsTyped
      /\ m \in Finish!Objects /\ ThumbFollows(finishRuns[t], finishRegistry[m], stored[m])
      /\ finishRegistry[m] \in {"none", "staged", "live"} /\ stored[m] \in {{}, {"whole"}}
  BY ObjectsDiffer DEF StoredInv, ObjectsTyped, Follows, ThumbFollows, Finish!ThumbWritten,
     Finish!script, Made
<1>2. finishRegistry' = finishRegistry => finishRegistry' = [finishRegistry EXCEPT ![m] = finishRegistry[m]]
  BY <1>1 DEF ObjectsTyped
<1>3. stored' = stored => stored' = [stored EXCEPT ![m] = stored[m]]
  BY <1>1 DEF ObjectsTyped
<1>4. CASE Finish!Free(t) /\ gen' = gen /\ finishRegistry' = finishRegistry /\ stored' = stored
  BY <1>1, <1>4, Freed, ShownKept
<1>5. CASE /\ finishRegistry' = finishRegistry /\ stored' = stored
           /\ \E state \in {"failed", "unsupported"} : Finish!setThumbState(t, state)
  BY <1>1, <1>5, StateSet
<1>6. CASE /\ finishRuns[t].at = "thumbRow" /\ Finish!setThumbState(t, "ready")
           /\ finishRegistry' = finishRegistry /\ stored' = stored
  BY <1>1, <1>6, StateSet
<1>7. CASE /\ finishRuns[t].at = "thumb" /\ Finish!Go(t, "thumbPut") /\ gen' = gen
           /\ finishRegistry' = Finish!Registered(m) /\ stored' = stored
  <2>1. \E r \in {"staged", "live"} : finishRegistry' = [finishRegistry EXCEPT ![m] = r]
    <3>1. CASE finishRegistry[m] = "none"
      BY <1>1, <1>7, <3>1 DEF ObjectsTyped, Finish!Registered
    <3>2. CASE finishRegistry[m] # "none"
      BY <1>1, <1>7, <3>2 DEF ObjectsTyped, Finish!Registered
    <3> QED
      BY <3>1, <3>2
  <2> QED
    BY <1>1, <1>3, <1>7, <2>1, ThumbGoes DEF Written
<1>8. CASE /\ finishRuns[t].at = "thumbPut" /\ Finish!Go(t, "thumbLive") /\ gen' = gen
           /\ finishRegistry' = finishRegistry /\ stored' = [stored EXCEPT ![m] = {"whole"}]
  <2>1. finishRegistry[m] \in {"staged", "live"}
    BY <1>1, <1>8 DEF ThumbFollows
  <2> QED
    BY <1>1, <1>2, <1>8, <2>1, ThumbGoes DEF Written
<1>9. CASE /\ finishRuns[t].at = "thumbLive" /\ Finish!Go(t, "thumbRow") /\ gen' = gen
           /\ finishRegistry' \in {finishRegistry, Finish!MarkedLive(m)} /\ stored' = stored
  <2>1. finishRegistry[m] \in {"staged", "live"} /\ stored[m] = {"whole"}
    BY <1>1, <1>9 DEF ThumbFollows
  <2>2. \E r \in {"staged", "live"} : finishRegistry' = [finishRegistry EXCEPT ![m] = r]
    <3>1. CASE finishRegistry' = finishRegistry
      BY <1>2, <2>1, <3>1
    <3>2. CASE finishRegistry' = Finish!MarkedLive(m)
      BY <1>1, <2>1, <3>2 DEF ObjectsTyped, Finish!MarkedLive
    <3> QED
      BY <1>9, <3>1, <3>2
  <2> QED
    BY <1>1, <1>3, <1>9, <2>1, <2>2, ThumbGoes DEF Written
<1> QED
  BY <1>1, <1>4, <1>5, <1>6, <1>7, <1>8, <1>9
     DEF Finish!storeThumbnail, Finish!ThumbStep, Finish!At, Finish!objects

-----------------------------------------------------------------------------
(* The backfill, and what goes on around the runs                          *)

LEMMA RunsUntouched ==
    ASSUME StoredInv, finishRuns' = finishRuns,
           \A t \in Runs : /\ finishRegistry'[Finish!Media(t)] = finishRegistry[Finish!Media(t)]
                           /\ stored'[Finish!Media(t)] = stored[Finish!Media(t)]
                           /\ finishRegistry'[Finish!Thumb(t)] = finishRegistry[Finish!Thumb(t)]
                           /\ stored'[Finish!Thumb(t)] = stored[Finish!Thumb(t)],
           ObjectsTyped', ShownIsMade', Finish!ShownIsWhole',
           backfills' \in [Backfills -> {"idle", "put", "record"}],
           \A b \in Backfills : backfills'[b] = "record" => stored'[Finish!Thumb("older")] = {"whole"}
    PROVE  StoredInv'
<1>1. ASSUME NEW t \in Runs PROVE (HoldsEnough(finishRuns[t]) /\ Follows(t))'
  <2>1. HoldsEnough(finishRuns[t]) /\ Follows(t)
    BY DEF StoredInv
  <2> QED
    BY <2>1 DEF Follows, HoldsEnough, MediaFollows, ThumbFollows, Finish!Media, Finish!Thumb,
         Finish!Ceiling
<1> QED
  BY <1>1 DEF StoredInv, Finish!Thumb

LEMMA ObjectsUntouched ==
    ASSUME StoredInv, finishRuns' = finishRuns, finishRegistry' = finishRegistry, stored' = stored,
           ShownIsMade', Finish!ShownIsWhole',
           backfills' \in [Backfills -> {"idle", "put", "record"}],
           \A b \in Backfills : backfills'[b] = "record" => stored[Finish!Thumb("older")] = {"whole"}
    PROVE  StoredInv'
<1>1. ObjectsTyped'
  BY DEF StoredInv, ObjectsTyped, Finish!Objects
<1> QED
  BY <1>1, RunsUntouched

LEMMA ElsewhereKeeps ==
    ASSUME StoredInv, Finish!LeaseLapses \/ Finish!SettledElsewhere
    PROVE  StoredInv'
<1>1. /\ finishRuns' = finishRuns /\ finishRegistry' = finishRegistry /\ stored' = stored
      /\ backfills' = backfills /\ gen' \in {gen, [gen EXCEPT !.status = "failed"]} /\ gen \in Gens
  BY DEF StoredInv, ShownIsMade, Finish!LeaseLapses, Finish!SettledElsewhere, Finish!objects,
     Finish!script
<1>2. ShownIsMade' /\ Finish!ShownIsWhole'
  BY <1>1, ShownLess DEF Gens
<1> QED
  BY <1>1, <1>2, ObjectsUntouched DEF StoredInv

LEMMA ClaimThumbKeeps ==
    ASSUME StoredInv, NEW b \in Backfills, Finish!fn_claim_thumbnails(b)
    PROVE  StoredInv'
<1>1. /\ finishRuns' = finishRuns /\ finishRegistry' = finishRegistry /\ stored' = stored
      /\ backfills' = [backfills EXCEPT ![b] = "put"]
      /\ gen' = [gen EXCEPT !.thumb = "claimed"] /\ gen \in Gens
  BY DEF StoredInv, ShownIsMade, Finish!fn_claim_thumbnails, Finish!objects, Finish!BGo
<1>2. ShownIsMade' /\ Finish!ShownIsWhole'
  BY <1>1, ShownLess DEF Gens
<1> QED
  BY <1>1, <1>2, ObjectsUntouched DEF StoredInv

LEMMA ThumbStateSet ==
    ASSUME StoredInv, NEW state \in {"ready", "failed", "unsupported"},
           Finish!fn_set_thumbnail(state)
    PROVE  /\ gen' \in Gens /\ gen'.status = gen.status /\ gen'.media = gen.media
           /\ \/ gen'.thumb = gen.thumb /\ gen'.thumbOf = gen.thumbOf
              \/ gen'.thumb = state /\ (state = "ready" => gen'.thumbOf = "older")
<1>1. gen \in Gens /\ "older" \in Made
  BY DEF StoredInv, ShownIsMade, Made
<1> QED
  BY <1>1 DEF Gens, Finish!fn_set_thumbnail, Finish!older

LEMMA BackfillKeeps ==
    ASSUME StoredInv, NEW b \in Backfills, Finish!runBackfill(b)
    PROVE  StoredInv'
<1> DEFINE m == Finish!Thumb("older")
<1>1. /\ finishRuns' = finishRuns /\ backfills \in [Backfills -> {"idle", "put", "record"}]
      /\ ObjectsTyped /\ m \in Finish!Objects
      /\ \A c \in Backfills : backfills[c] = "record" => stored[m] = {"whole"}
      /\ \A t \in Runs : m # Finish!Media(t) /\ m # Finish!Thumb(t)
      /\ \A t \in Runs : Finish!Media(t) \in Finish!Objects /\ Finish!Thumb(t) \in Finish!Objects
  BY ObjectsDiffer DEF StoredInv, Finish!runBackfill, Made
<1>2. CASE /\ backfills' = [backfills EXCEPT ![b] = "record"] /\ gen' = gen
           /\ stored' = [stored EXCEPT ![m] = {"whole"}] /\ finishRegistry' = finishRegistry
  <2>1. /\ ObjectsTyped' /\ stored'[m] = {"whole"}
        /\ \A o \in Finish!Objects : o # m => stored'[o] = stored[o]
    BY <1>1, <1>2 DEF ObjectsTyped, Finish!Objects
  <2>2. \A o \in Finish!Objects : ObjectStays(o)
    BY <1>2, <2>1 DEF ObjectStays
  <2>3. ShownIsMade' /\ Finish!ShownIsWhole'
    BY <1>2, <2>2, ShownStays
  <2> HIDE DEF m
  <2> QED
    BY <1>1, <1>2, <2>1, <2>3, RunsUntouched DEF m
<1>3. CASE /\ backfills[b] = "record" /\ backfills' = [backfills EXCEPT ![b] = "idle"]
           /\ finishRegistry' = [finishRegistry EXCEPT ![m] = "live"] /\ stored' = stored
           /\ Finish!fn_set_thumbnail("ready")
  <2>1. /\ ObjectsTyped' /\ finishRegistry'[m] = "live" /\ stored[m] = {"whole"}
        /\ \A o \in Finish!Objects : o # m => finishRegistry'[o] = finishRegistry[o]
    BY <1>1, <1>3 DEF ObjectsTyped, Finish!Objects
  <2>2. /\ gen' \in Gens /\ gen'.status = gen.status /\ gen'.media = gen.media
        /\ \/ gen'.thumb = gen.thumb /\ gen'.thumbOf = gen.thumbOf
           \/ gen'.thumb = "ready" /\ gen'.thumbOf = "older"
    BY <1>3, ThumbStateSet
  <2>3. ShownIsMade'
    BY <2>2 DEF StoredInv, ShownIsMade, Made
  <2>4. Finish!Shown' \subseteq Finish!Shown \cup {m}
    BY <2>2 DEF Finish!Shown, Finish!Media, Finish!Thumb
  <2>5. Finish!Shown \subseteq Finish!Objects
    BY ObjectsDiffer DEF StoredInv, Finish!Shown, ShownIsMade
  <2>6. \A o \in Finish!Shown : stored[o] = {"whole"} /\ finishRegistry[o] \in {"staged", "live"}
    BY DEF StoredInv, Finish!ShownIsWhole
  <2> HIDE DEF m
  <2>7. Finish!ShownIsWhole'
    BY <1>3, <2>1, <2>4, <2>5, <2>6 DEF Finish!ShownIsWhole
  <2> QED
    BY <1>1, <1>3, <2>1, <2>3, <2>7, RunsUntouched DEF m
<1>4. CASE /\ backfills' = [backfills EXCEPT ![b] = "idle"]
           /\ gen' = gen \/ \E state \in {"failed", "unsupported"} : Finish!fn_set_thumbnail(state)
           /\ finishRegistry' = finishRegistry /\ stored' = stored
  <2>1. /\ gen' \in Gens /\ gen'.status = gen.status /\ gen'.media = gen.media
        /\ \/ gen'.thumb = gen.thumb /\ gen'.thumbOf = gen.thumbOf
           \/ gen'.thumb \in {"failed", "unsupported"}
    BY <1>4, ThumbStateSet DEF StoredInv, ShownIsMade
  <2>2. ShownIsMade' /\ Finish!ShownIsWhole'
    BY <1>4, <2>1, ShownLess
  <2> QED
    BY <1>1, <1>4, <2>2, ObjectsUntouched
<1> QED
  BY <1>2, <1>3, <1>4 DEF Finish!runBackfill, Finish!backfillOne, Finish!BAt, Finish!BGo,
     Finish!objects,
     Finish!older

LEMMA StoredInvariant == Finish!Spec => []StoredInv
<1>1. Finish!Init => StoredInv
  <2> SUFFICES ASSUME Finish!Init PROVE StoredInv
    OBVIOUS
  <2>1. gen \in Gens /\ gen \in {Finish!Fresh("image"), Finish!Fresh("video"), Finish!Older}
    BY DEF Finish!Init, Finish!Fresh, Finish!Older, Gens, Made
  <2>2. /\ finishRuns = [t \in Runs |-> Finish!Idle]
        /\ backfills = [b \in Backfills |-> "idle"]
    BY DEF Finish!Init
  <2>3. /\ ObjectsTyped
        /\ \A t \in Runs : /\ finishRegistry[Finish!Media(t)] = "none"
                           /\ finishRegistry[Finish!Thumb(t)] = "none"
        /\ gen = Finish!Older => /\ finishRegistry[Finish!Media("older")] = "live"
                                 /\ stored[Finish!Media("older")] = {"whole"}
    BY ObjectsDiffer DEF Finish!Init, ObjectsTyped, Finish!Media, Finish!Thumb, Made
  <2>4. Finish!Idle \in Attempts /\ Finish!Idle.at = "idle" /\ Finish!Idle.allocated = 0
    BY DEF Finish!Idle, Attempts, Steps
  <2>5. ASSUME NEW t \in Runs PROVE HoldsEnough(finishRuns[t]) /\ Follows(t)
    BY <2>2, <2>3, <2>4, ObjectsDiffer DEF HoldsEnough, Follows, MediaFollows, ThumbFollows,
       Written, Unregistered
  <2>6. ShownIsMade /\ Finish!ShownIsWhole
    BY <2>1, <2>3 DEF ShownIsMade, Finish!ShownIsWhole, Finish!Shown, Finish!Fresh, Finish!Older,
       Made
  <2> QED
    BY <2>2, <2>3, <2>4, <2>5, <2>6 DEF StoredInv
<1>2. StoredInv /\ [Finish!Next]_(Finish!finisherVars) => StoredInv'
  <2> SUFFICES ASSUME StoredInv, [Finish!Next]_(Finish!finisherVars) PROVE StoredInv'
    OBVIOUS
  <2>1. CASE UNCHANGED Finish!finisherVars
    BY <2>1, ShownKept, ObjectsUntouched DEF Finish!finisherVars, StoredInv
  <2> QED
    BY <2>1, FinishKeeps, ClaimSaveKeeps, InlineKeeps, DownloadKeeps, ChunkKeeps, EndKeeps,
       TrackKeeps,
       PutKeeps, MarkKeeps, SettleKeeps, DropKeeps, FailKeeps, ReleaseKeeps, ThumbKeeps,
       ElsewhereKeeps, ClaimThumbKeeps, BackfillKeeps DEF Finish!Next
<1> QED
  BY <1>1, <1>2, PTL DEF Finish!Spec

(* The media and the thumbnail the library shows are whole and registered, *)
(* whatever attempts overlap, and no run holds more than its byte budget.  *)
THEOREM FinisherStores == Finish!Spec => []Finish!StoredSafely
<1>1. StoredInv => Finish!StoredSafely
  BY DEF StoredInv, HoldsEnough, Finish!StoredSafely, Finish!PeakWithinBudget
<1> QED
  BY <1>1, StoredInvariant, PTL
-----------------------------------------------------------------------------
(* What a run asks of its provider                                         *)

(* Where a run stands: before the provider took anything, at a request the *)
(* provider queues, or over.                                               *)
Before == {"resolve", "build", "send"}
Asking == {"waiting", "asking", "stopping", "checking", "unnamed"}

InputNames == {"upload", "parent", "clip", "mask", "front", "left", "first", "last", "dropped"}

CallTypes ==
    /\ request \in Calls!Requests
    /\ step \in Before \union Asking \union {"over"}
    /\ job \in {"none", "queued", "rendering", "rendered", "blocked", "failed", "stopped"}
    /\ renders \in Nat
    /\ ctx \in Seq(InputNames) /\ body \in Seq(InputNames)

(* The provider works only on a request it was sent, an inline one at once,*)
(* and renders it when it is done with it.                                 *)
JobOk ==
    /\ step \in Before => job = "none"
    /\ step \in Asking => ~Calls!answersInline
    /\ step = "unnamed" => "no_queue_urls" \in OddAnswers
    /\ Calls!answersInline => job \notin {"queued", "rendering"}
    /\ renders = IF job = "rendered" THEN 1 ELSE 0

(* What is looked up, and what the request carries, follow the payload.    *)
Resolved ==
    /\ Len(ctx) <= Len(request.inputs)
    /\ \A n \in 1..Len(ctx) : ctx[n] = request.inputs[n]
    /\ step \in {"build", "send"} => Len(ctx) = Len(request.inputs)

Carries(n) ==
    \/ body[n] = request.inputs[n]
    \/ request.adapter = "google" /\ request.inputs[n] \notin Calls!Photos

Built ==
    /\ Len(body) <= Len(request.inputs)
    /\ step = "resolve" => body = <<>>
    /\ \A n \in 1..Len(body) : Carries(n)
    /\ step = "send" \/ job # "none" => Len(body) = Len(request.inputs)

CallsInv ==
    /\ CallTypes /\ JobOk /\ Resolved /\ Built
    /\ step # "over" => verdict = "open"
    /\ Calls!RefundIsFinal

LEMMA ShortSeqs ==
    ASSUME NEW S
    PROVE /\ <<>> \in Seq(S)
          /\ \A a \in S : <<a>> \in Seq(S)
          /\ \A a, b \in S : <<a, b>> \in Seq(S)
<1>1. <<>> \in Seq(S)
  OBVIOUS
<1>2. \A a \in S : <<a>> \in Seq(S)
  OBVIOUS
<1>3. \A a, b \in S : <<a, b>> \in Seq(S)
  OBVIOUS
<1> QED
  BY <1>1, <1>2, <1>3

LEMMA InputsAreNamed ==
    ASSUME request \in Calls!Requests
    PROVE  /\ request.inputs \in Seq(InputNames)
           /\ \A n \in 1..Len(request.inputs) : request.inputs[n] # "dropped"
<1>1. \/ request.inputs = <<>>
      \/ \E a \in InputNames \ {"dropped"} : request.inputs = <<a>>
      \/ \E a, b \in InputNames \ {"dropped"} : request.inputs = <<a, b>>
  BY DEF Calls!Requests, InputNames
<1>2. request.inputs \in Seq(InputNames)
  BY <1>1, ShortSeqs
<1> QED
  BY <1>1, <1>2

LEMMA Adapters ==
    ASSUME request \in Calls!Requests
    PROVE  request.adapter \in {"openai", "google", "fal", "runway", "veo", "omni"}
BY DEF Calls!Requests

LEMMA CallsStart == Calls!Init => CallsInv
BY
   DEF Calls!Init, CallsInv, CallTypes, JobOk, Resolved, Built, Calls!RefundIsFinal, Before, Asking, Calls!answersInline, Calls!Requests

(* What a failed submit makes of a run the provider has not taken.         *)
Dropped == step' = "over" /\ verdict' \in {"refunded", "held"} /\ UNCHANGED <<ctx, body>>
Again == step' = "resolve" /\ ctx' = <<>> /\ body' = <<>> /\ UNCHANGED verdict

LEMMA FailedSubmit ==
    ASSUME NEW status, NEW broke, NEW byProvider,
           Calls!afterFailedSubmit(status, broke, byProvider)
    PROVE  \/ Dropped /\ (~Calls!answersInline /\ status = 0 /\ ~broke => verdict' = "held")
           \/ Again /\ Calls!answersInline /\ status # 0
BY
   DEF Calls!afterFailedSubmit, Calls!Settle, Calls!answered, Calls!classifyProviderError, Dropped, Again

(* A run that is dropped, or starts again, before anything was sent.       *)
LEMMA NotSent ==
    ASSUME CallsInv, step \in Before, Dropped \/ Again,
           UNCHANGED <<request, job, renders>>
    PROVE  CallsInv'
<1>1. CallTypes' /\ JobOk'
  BY ShortSeqs DEF CallsInv, CallTypes, JobOk, Before, Asking, Dropped, Again, Calls!answersInline
<1>2. Resolved' /\ Built'
  BY InputsAreNamed DEF CallsInv, CallTypes, JobOk, Resolved, Built, Carries, Before, Dropped, Again
<1>3. (step' # "over" => verdict' = "open") /\ Calls!RefundIsFinal'
  BY DEF CallsInv, JobOk, Before, Dropped, Again, Calls!RefundIsFinal
<1> QED
  BY <1>1, <1>2, <1>3 DEF CallsInv

LEMMA ResolveKeeps ==
    ASSUME CallsInv, Calls!resolvePayload
    PROVE  CallsInv'
<1> USE DEF CallsInv, Calls!resolvePayload
<1>1. CASE Len(ctx) = Len(request.inputs)
  <2>1. step' = "build" /\ UNCHANGED <<request, ctx, body, job, renders, verdict>>
    BY <1>1
  <2> QED
    BY <1>1, <2>1
       DEF CallTypes, JobOk, Resolved, Built, Carries, Before, Asking, Calls!answersInline, Calls!RefundIsFinal
<1>2. CASE Len(ctx) # Len(request.inputs)
  <2> DEFINE i == request.inputs[Len(ctx) + 1]
  <2>1. CASE Calls!Usable(i) /\ ctx' = Append(ctx, i) /\ UNCHANGED <<step, verdict>>
    <3>1. i \in InputNames /\ Len(ctx) + 1 <= Len(request.inputs)
      BY <1>2, InputsAreNamed DEF CallTypes, Resolved
    <3>2. /\ ctx' \in Seq(InputNames) /\ Len(ctx') = Len(ctx) + 1
          /\ \A n \in 1..Len(ctx) : ctx'[n] = ctx[n]
          /\ ctx'[Len(ctx) + 1] = i
      BY <2>1, <3>1 DEF CallTypes
    <3> HIDE DEF i
    <3>3. Resolved'
      BY <2>1, <3>1, <3>2 DEF Resolved, CallTypes, i
    <3> QED
      BY <2>1, <3>2, <3>3
         DEF CallTypes, JobOk, Built, Carries, Calls!answersInline, Calls!RefundIsFinal
  <2>2. CASE Calls!Settle("refunded") /\ UNCHANGED ctx
    BY <2>2, NotSent DEF Calls!Settle, Dropped, Before
  <2> QED
    BY <1>2, <2>1, <2>2
<1> QED
  BY <1>1, <1>2

LEMMA BuildBodyKeeps ==
    ASSUME CallsInv, Calls!build
    PROVE  CallsInv'
<1>0. step = "build" /\ job = "none" /\ UNCHANGED <<request, job, renders>>
      /\ Len(ctx) = Len(request.inputs)
  BY DEF Calls!build, CallsInv, JobOk, Resolved, Before
<1>1. CASE Len(body) = Len(ctx)
  <2>1. step' = "send" /\ UNCHANGED <<ctx, body, verdict>>
    BY <1>1 DEF Calls!build
  <2> QED
    BY <1>0, <1>1, <2>1
       DEF CallsInv, CallTypes, JobOk, Resolved, Built, Carries, Before, Asking,
          Calls!answersInline, Calls!RefundIsFinal
<1>2. ASSUME NEW x \in InputNames, body' = Append(body, x), UNCHANGED <<step, ctx, verdict>>,
             Len(body) # Len(ctx),
             \/ x = request.inputs[Len(body) + 1]
             \/ request.adapter = "google" /\ request.inputs[Len(body) + 1] \notin Calls!Photos
      PROVE  CallsInv'
  <2>1. /\ body' \in Seq(InputNames) /\ Len(body') = Len(body) + 1
        /\ \A n \in 1..Len(body) : body'[n] = body[n]
        /\ body'[Len(body) + 1] = x
    BY <1>2 DEF CallsInv, CallTypes
  <2>2. Len(body) + 1 <= Len(request.inputs)
    BY <1>0, <1>2, InputsAreNamed DEF CallsInv, CallTypes, Built
  <2>3. \A n \in 1..Len(body') : Carries(n)'
    BY <1>0, <1>2, <2>1 DEF CallsInv, CallTypes, Built, Carries
  <2>4. Built'
    BY <1>0, <1>2, <2>1, <2>2, <2>3 DEF Built
  <2> QED
    BY <1>0, <1>2, <2>1, <2>4
       DEF CallsInv, CallTypes, JobOk, Resolved, Calls!answersInline, Calls!RefundIsFinal
<1>3. CASE Len(body) # Len(ctx)
  <2> DEFINE i == ctx[Len(body) + 1]
  <2>1. i = request.inputs[Len(body) + 1] /\ i \in InputNames
    BY <1>0, <1>3, InputsAreNamed DEF CallsInv, CallTypes, Resolved, Built
  <2>2. ASSUME NEW status, Calls!unread(i, status)
        PROVE  CallsInv'
    <3>1. CASE request.adapter = "google" /\ i \notin Calls!Photos
               /\ body' = Append(body, "dropped") /\ UNCHANGED <<step, ctx, attempts, verdict>>
      BY <1>2, <1>3, <2>1, <3>1 DEF InputNames
    <3>2. CASE Calls!Settle("refunded") /\ UNCHANGED <<ctx, body, attempts>>
      BY <1>0, <3>2, NotSent DEF Calls!Settle, Dropped, Before
    <3>3. CASE Calls!afterFailedSubmit(status, FALSE, FALSE)
      BY <1>0, <3>3, FailedSubmit, NotSent DEF Before
    <3> QED
      BY <2>2, <3>1, <3>2, <3>3 DEF Calls!unread
  <2>3. CASE body' = Append(body, i) /\ UNCHANGED <<step, ctx, attempts, verdict>>
    BY <1>2, <1>3, <2>1, <2>3
  <2> QED
    BY <1>3, <2>2, <2>3 DEF Calls!build
<1> QED
  BY <1>1, <1>3

(* A request sent carries all its inputs, and the provider has it.         *)
LEMMA SentKeeps ==
    ASSUME CallsInv, step = "send", UNCHANGED <<request, ctx, body>>,
           step' \in Asking \union {"over"}, step' # "over" => verdict' = "open",
           step' \in Asking => ~Calls!answersInline,
           step' = "unnamed" => "no_queue_urls" \in OddAnswers,
           job' \in {"none", "queued", "rendered", "blocked"},
           job' = "queued" => ~Calls!answersInline /\ verdict' # "refunded",
           renders' = IF job' = "rendered" THEN 1 ELSE 0
    PROVE  CallsInv'
<1>1. CallTypes' /\ JobOk'
  BY DEF CallsInv, CallTypes, JobOk, Before, Asking, Calls!answersInline
<1>2. Resolved' /\ Built'
  BY DEF CallsInv, Resolved, Built, Carries, Asking
<1> QED
  BY <1>1, <1>2 DEF CallsInv, Calls!RefundIsFinal, Asking

LEMMA SubmitInlineKeeps ==
    ASSUME CallsInv, Calls!submitInline
    PROVE  CallsInv'
<1>0. step = "send" /\ Calls!answersInline /\ job = "none" /\ renders = 0 /\ UNCHANGED request
      /\ verdict = "open"
  BY DEF Calls!submitInline, CallsInv, JobOk, Before
<1>1. CASE /\ job' = "rendered" /\ renders' = renders + 1
           /\ Calls!Settle("stored") /\ UNCHANGED <<ctx, body, attempts>>
  BY <1>0, <1>1, SentKeeps DEF Calls!Settle, Asking
<1>2. CASE /\ job' = "blocked" /\ UNCHANGED renders
           /\ Calls!Settle("refunded") /\ UNCHANGED <<ctx, body, attempts>>
  BY <1>0, <1>2, SentKeeps DEF Calls!Settle, Asking
<1>3. ASSUME NEW status, NEW broke,
             Calls!afterFailedSubmit(status, broke, TRUE), UNCHANGED <<job, renders>>
      PROVE  CallsInv'
  BY <1>0, <1>3, FailedSubmit, NotSent DEF Before
<1>4. CASE Calls!afterFailedSubmit(0, FALSE, TRUE) /\ job' = "rendered" /\ renders' = renders + 1
  <2>1. Dropped
    BY <1>4, FailedSubmit
  <2> QED
    BY <1>0, <1>4, <2>1, SentKeeps DEF Dropped, Asking
<1> QED
  BY <1>1, <1>2, <1>3, <1>4 DEF Calls!submitInline

LEMMA QueuedKeeps ==
    ASSUME CallsInv, Calls!submitQueued
    PROVE  CallsInv'
<1>0. step = "send" /\ ~Calls!answersInline /\ job = "none" /\ renders = 0
      /\ UNCHANGED <<request, renders>> /\ verdict = "open"
  BY DEF Calls!submitQueued, CallsInv, JobOk, Before
<1>1. CASE job' = "queued" /\ step' \in Calls!Accepted /\ UNCHANGED <<ctx, body, attempts, verdict>>
  <2>1. /\ step' \in Asking /\ step' # "over"
        /\ step' = "unnamed" => "no_queue_urls" \in OddAnswers
    BY <1>1 DEF Calls!Accepted, Asking
  <2> QED
    BY <1>0, <1>1, <2>1, SentKeeps
<1>2. CASE job' = "queued" /\ Calls!afterFailedSubmit(0, FALSE, TRUE)
  <2>1. Dropped /\ verdict' = "held"
    BY <1>0, <1>2, FailedSubmit
  <2> QED
    BY <1>0, <1>2, <2>1, SentKeeps DEF Dropped
<1>3. ASSUME NEW status, NEW broke,
             Calls!afterFailedSubmit(status, broke, TRUE), UNCHANGED job
      PROVE  CallsInv'
  BY <1>0, <1>3, FailedSubmit, NotSent DEF Before
<1> QED
  BY <1>1, <1>2, <1>3 DEF Calls!submitQueued

(* The provider's queue and the run that asks after it.                    *)
LEMMA AskingKeeps ==
    ASSUME CallsInv, step \in Asking, UNCHANGED <<request, ctx, body, renders>>,
           step' \in (Asking \ {"unnamed"}) \union {"over"}, step' # "over" => verdict' = "open",
           \/ UNCHANGED job
           \/ job \in {"queued", "rendering"} /\ job' = "stopped",
           verdict' = "refunded" => job' \notin {"queued", "rendering"}
    PROVE  CallsInv'
<1>1. CallTypes' /\ JobOk'
  BY DEF CallsInv, CallTypes, JobOk, Before, Asking, Calls!answersInline
<1>2. Resolved' /\ Built'
  BY DEF CallsInv, Resolved, Built, Carries, Asking
<1> QED
  BY <1>1, <1>2 DEF CallsInv, Calls!RefundIsFinal, Asking

LEMMA WorkKeeps ==
    ASSUME CallsInv, Calls!Work
    PROVE  CallsInv'
<1>1. job \in {"queued", "rendering"} /\ ~Calls!answersInline /\ renders = 0 /\ job' # "none"
      /\ UNCHANGED <<request, step, ctx, body, verdict>>
  BY DEF Calls!Work, CallsInv, JobOk
<1>2. CallTypes' /\ JobOk'
  BY <1>1 DEF Calls!Work, CallsInv, CallTypes, JobOk, Before, Calls!answersInline
<1>3. Resolved' /\ Built'
  BY <1>1 DEF CallsInv, Resolved, Built, Carries
<1> QED
  BY <1>1, <1>2, <1>3 DEF CallsInv, Calls!RefundIsFinal

LEMMA CancelKeeps ==
    ASSUME CallsInv, OddAnswers = {}, Calls!cancel
    PROVE  CallsInv'
<1>0. step = "stopping" /\ step \in Asking /\ UNCHANGED <<request, ctx, body, renders>>
      /\ verdict = "open"
  BY DEF Calls!cancel, CallsInv, Asking
<1>1. CASE job \in Calls!Confirmed /\ job' = Calls!AfterStop /\ Calls!Settle("refunded")
  <2>1. job \in {"queued", "rendering"} /\ job' = "stopped"
    BY <1>1 DEF Calls!Confirmed, Calls!Stoppable, Calls!AfterStop
  <2> QED
    BY <1>0, <1>1, <2>1, AskingKeeps DEF Calls!Settle
<1>2. CASE job' \in {job, Calls!AfterStop} /\ step' = "checking" /\ UNCHANGED verdict
  <2>1. UNCHANGED job \/ (job \in {"queued", "rendering"} /\ job' = "stopped")
    BY <1>2 DEF Calls!AfterStop, Calls!Stoppable
  <2> QED
    BY <1>0, <1>2, <2>1, AskingKeeps DEF Asking
<1> QED
  BY <1>1, <1>2 DEF Calls!cancel

LEMMA CheckKeeps ==
    ASSUME CallsInv, OddAnswers = {}, Calls!check
    PROVE  CallsInv'
<1>0. /\ step \in Asking /\ step # "unnamed" /\ verdict = "open"
      /\ UNCHANGED <<request, ctx, body, renders, job>>
  BY DEF Calls!check, CallsInv, JobOk, Asking
<1>1. CASE step' = "waiting" /\ UNCHANGED verdict
  BY <1>0, <1>1, AskingKeeps DEF Asking
<1>2. ASSUME NEW status \in Calls!PollStatuses, Calls!httpFailure(status)
      PROVE  step' = "waiting" /\ UNCHANGED verdict
  BY <1>2 DEF Calls!PollStatuses, Calls!httpFailure, Calls!classifyStatus, Calls!RetryableStatuses
<1>3. ASSUME NEW outcome, Calls!Settle(outcome), job \notin {"queued", "rendering"}
      PROVE  CallsInv'
  BY <1>0, <1>3, AskingKeeps DEF Calls!Settle
<1> QED
  BY <1>0, <1>1, <1>2, <1>3 DEF Calls!check
LEMMA CallsMove ==
    ASSUME OddAnswers = {}
    PROVE  CallsInv /\ [Calls!Next]_(Calls!callVars) => CallsInv'
<1> SUFFICES ASSUME CallsInv, [Calls!Next]_(Calls!callVars) PROVE CallsInv'
  OBVIOUS
<1>1. CASE UNCHANGED <<request, step, ctx, body, job, renders, verdict>>
  BY <1>1
     DEF CallsInv, CallTypes, JobOk, Resolved, Built, Carries, Calls!answersInline, Calls!RefundIsFinal
<1>2. ASSUME NEW i \in Calls!Named, Calls!Delete(i) PROVE CallsInv'
  BY <1>1, <1>2 DEF Calls!Delete
<1>3. CASE Calls!Cancel
  BY <1>1, <1>3 DEF Calls!Cancel
<1>4. CASE Calls!pollJob
  <2>1. step' \in {"asking", "stopping", "checking"}
    BY <1>4 DEF Calls!pollJob
  <2> QED
    BY <1>4, <2>1, AskingKeeps DEF Calls!pollJob, CallsInv, Asking
<1>5. CASE Calls!askFirst
  <2>1. step' \in {"stopping", "checking"}
    BY <1>5 DEF Calls!askFirst
  <2> QED
    BY <1>5, <2>1, AskingKeeps DEF Calls!askFirst, CallsInv, Asking
<1>6. CASE Calls!callVars' = Calls!callVars
  BY <1>1, <1>6 DEF Calls!callVars
<1> QED
  BY <1>2, <1>3, <1>4, <1>5, <1>6, ResolveKeeps, BuildBodyKeeps, SubmitInlineKeeps, QueuedKeeps,
     WorkKeeps, CancelKeeps, CheckKeeps DEF Calls!Next

LEMMA HeardFollows == CallsInv => Calls!ProviderIsHeard
<1> SUFFICES ASSUME CallsInv PROVE Calls!ProviderIsHeard
  OBVIOUS
<1>1. Calls!InputsAreSent
  <2>1. DOMAIN request.inputs = 1..Len(request.inputs)
    BY InputsAreNamed DEF CallsInv, CallTypes
  <2> QED
    BY <2>1 DEF CallsInv, Built, Carries, Calls!InputsAreSent
<1>2. Calls!OneRender
  BY DEF CallsInv, JobOk, Calls!OneRender
<1> QED
  BY <1>1, <1>2 DEF CallsInv, Calls!ProviderIsHeard

(* What the provider worked on is what the payload names, a refund is      *)
(* final, and a job is rendered once, for any inputs the customer deletes  *)
(* meanwhile and any answers, the odd ones of the findings set aside.      *)
THEOREM ProviderHears == ASSUME OddAnswers = {} PROVE Calls!Spec => []Calls!ProviderIsHeard
BY CallsStart, CallsMove, HeardFollows, PTL DEF Calls!Spec
-----------------------------------------------------------------------------
(* What an assistant is charged, and told                                  *)

(* What a call may hold; the arguments and the keys are the assistant's.   *)
Bodies == {Mcp!Nothing} \union {<<a.args, m>> : a \in ToolAsks, m \in Nat}
GivenKeys == {<<"key", a.given>> : a \in ToolAsks}
DerivedKeys == {Mcp!derivedKey(a, b) : a \in ToolAsks, b \in Int}
CallRecords ==
    [pc : {"prepare", "slot", "look", "submit", "wait", "over"}, ask : ToolAsks,
     body : Bodies, key : {Mcp!Nothing} \union GivenKeys \union DerivedKeys,
     replay : BOOLEAN, looked : Nat, read : BOOLEAN, known : SUBSET Nat,
     charged : BOOLEAN,
     answer : {Mcp!Nothing, "charged", "nothing_new", "internal", "refused", "limited",
               "conflict", "policy"}]

McpTypes ==
    /\ mcpCalls \in Seq(CallRecords)
    /\ now \in Nat /\ firstModel \in Nat
    /\ \A k \in DOMAIN mcpSubmissions : mcpSubmissions[k] \in [body : Bodies, refused : BOOLEAN]

(* Somebody was charged for what n's key and body ask for.                 *)
Backed(k, b) ==
    \E m \in Mcp!Charged : Mcp!Call(m).key = k /\ Mcp!Call(m).body = b

(* What n's look at the keys saw: not one of them under which m had been   *)
(* charged by then.                                                        *)
SawNone(n) ==
    \A m \in Mcp!Call(n).known :
        /\ m \in Mcp!Charged
        /\ Mcp!Call(m).looked <= Mcp!Call(n).looked
        /\ /\ Mcp!Call(m).ask = Mcp!Call(n).ask /\ Mcp!Call(n).ask.given = NoGivenKey
           /\ Mcp!Call(n).read /\ ~Mcp!Call(n).replay
           => Mcp!Bucket(Mcp!Call(m).looked) \notin {Mcp!Bucket(Mcp!Call(n).looked), Mcp!Bucket(Mcp!Call(n).looked) - 1}

KeyOk(n) ==
    LET c == Mcp!Call(n) IN
    /\ c.replay => c.key \in DOMAIN mcpSubmissions
    /\ ~c.replay /\ c.ask.given # NoGivenKey => c.key = <<"key", c.ask.given>>
    /\ ~c.replay /\ c.ask.given = NoGivenKey => c.key = Mcp!derivedKey(c.ask, Mcp!Bucket(c.looked))

CallOk(n) ==
    LET c == Mcp!Call(n) IN
    /\ c.looked <= now
    /\ c.pc \in {"prepare", "slot", "look"} => ~c.charged /\ c.known = {}
    /\ c.pc # "over" => c.answer = Mcp!Nothing
    /\ c.pc = "submit" \/ c.charged => KeyOk(n)
    /\ c.charged => ~c.replay /\ c.pc \in {"wait", "over"} /\ c.key \in DOMAIN mcpSubmissions
    /\ c.charged => c.answer \in {Mcp!Nothing, "charged", "internal"}
    /\ c.pc = "wait" \/ c.answer \in {"charged", "nothing_new"} => Backed(c.key, c.body)
    /\ SawNone(n)

ChargedApart ==
    \A m, n \in Mcp!Charged : m # n => Mcp!Call(m).key # Mcp!Call(n).key

RowsBacked ==
    \A k \in DOMAIN mcpSubmissions : ~mcpSubmissions[k].refused => Backed(k, mcpSubmissions[k].body)

McpInv ==
    /\ McpTypes
    /\ \A n \in DOMAIN mcpCalls : CallOk(n)
    /\ ChargedApart /\ RowsBacked

LEMMA CallFields ==
    ASSUME McpTypes, NEW n \in DOMAIN mcpCalls
    PROVE  /\ n \in Nat /\ mcpCalls[n] \in CallRecords
           /\ Mcp!Call(n).ask \in ToolAsks /\ Mcp!Call(n).looked \in Nat
           /\ Mcp!Call(n).replay \in BOOLEAN /\ Mcp!Call(n).charged \in BOOLEAN
           /\ Mcp!Call(n).body \in Bodies
<1>1. n \in Nat /\ mcpCalls[n] \in CallRecords
  BY DEF McpTypes
<1> QED
  BY <1>1 DEF CallRecords, Mcp!Call

LEMMA McpStart == Mcp!Init => McpInv
<1> SUFFICES ASSUME Mcp!Init PROVE McpInv
  OBVIOUS
<1>1. mcpCalls \in Seq(CallRecords) /\ DOMAIN mcpCalls = {} /\ DOMAIN mcpSubmissions = {}
  BY DEF Mcp!Init
<1>2. McpTypes
  BY <1>1 DEF McpTypes, Mcp!Init
<1> QED
  BY <1>1, <1>2 DEF McpInv, ChargedApart, RowsBacked, Mcp!Charged

(* What no step takes back.                                                *)
Kept ==
    /\ \A m \in DOMAIN mcpCalls : m \in DOMAIN mcpCalls'
    /\ \A m \in Mcp!Charged :
         /\ m \in Mcp!Charged' /\ Mcp!Call(m)'.ask = Mcp!Call(m).ask /\ Mcp!Call(m)'.key = Mcp!Call(m).key
         /\ Mcp!Call(m)'.body = Mcp!Call(m).body /\ Mcp!Call(m)'.looked = Mcp!Call(m).looked
    /\ \A k \in DOMAIN mcpSubmissions : k \in DOMAIN mcpSubmissions'
    /\ now \in Nat /\ now' \in Nat /\ now <= now'

LEMMA BackedStays ==
    ASSUME Kept, NEW k, NEW b, Backed(k, b)
    PROVE  Backed(k, b)'
BY DEF Kept, Backed

LEMMA OthersStay ==
    ASSUME Kept, McpTypes, NEW n \in DOMAIN mcpCalls, CallOk(n), Mcp!Call(n)' = Mcp!Call(n)
    PROVE  CallOk(n)'
<1> DEFINE c == Mcp!Call(n)
<1>0. c.looked \in Nat /\ now \in Nat
  BY CallFields DEF McpTypes
<1>1. c.looked <= now'
  BY <1>0 DEF Kept, CallOk
<1>2. KeyOk(n) => KeyOk(n)'
  BY DEF Kept, KeyOk
<1>3. c.charged => c.key \in DOMAIN mcpSubmissions'
  BY DEF Kept, CallOk
<1>4. SawNone(n)'
  BY DEF Kept, CallOk, SawNone
<1>5. Backed(c.key, c.body) => Backed(c.key, c.body)'
  BY BackedStays
<1>6. (c.pc = "wait" \/ c.answer \in {"charged", "nothing_new"}) => Backed(c.key, c.body)'
  BY <1>5 DEF CallOk
<1> QED
  BY <1>1, <1>2, <1>3, <1>4, <1>6 DEF CallOk

(* A step of one call that charges nobody: at most a refusal is kept.      *)
LEMMA OneCall ==
    ASSUME McpInv, NEW n \in DOMAIN mcpCalls, NEW r \in CallRecords,
           mcpCalls' = [mcpCalls EXCEPT ![n] = r],
           r.charged <=> Mcp!Call(n).charged,
           r.charged => /\ r.key = Mcp!Call(n).key /\ r.body = Mcp!Call(n).body
                        /\ r.ask = Mcp!Call(n).ask /\ r.looked = Mcp!Call(n).looked,
           UNCHANGED mcpSubmissions \/ (~Mcp!HasRow(n) /\ mcpSubmissions' = Mcp!With(n, TRUE)),
           UNCHANGED <<firstModel, now>>,
           Kept => CallOk(n)'
    PROVE  McpInv'
<1>1. /\ DOMAIN mcpCalls' = DOMAIN mcpCalls /\ mcpCalls'[n] = r
      /\ \A m \in DOMAIN mcpCalls : m # n => mcpCalls'[m] = mcpCalls[m]
      /\ mcpCalls' \in Seq(CallRecords)
  BY DEF McpInv, McpTypes
<1>a. /\ \A k \in DOMAIN mcpSubmissions : k \in DOMAIN mcpSubmissions' /\ mcpSubmissions'[k] = mcpSubmissions[k]
      /\ \A k \in DOMAIN mcpSubmissions' : \/ k \in DOMAIN mcpSubmissions
                                       \/ mcpSubmissions'[k] = [body |-> Mcp!Call(n).body, refused |-> TRUE]
  <2>1. CASE UNCHANGED mcpSubmissions
    BY <2>1
  <2>2. CASE ~Mcp!HasRow(n) /\ mcpSubmissions' = Mcp!With(n, TRUE)
    BY <2>2 DEF Mcp!With, Mcp!HasRow
  <2> QED
    BY <2>1, <2>2
<1>2. McpTypes'
  <2>1. Mcp!Call(n).body \in Bodies
    BY CallFields DEF McpInv
  <2>2. [body |-> Mcp!Call(n).body, refused |-> TRUE] \in [body : Bodies, refused : BOOLEAN]
    BY <2>1
  <2>3. \A k \in DOMAIN mcpSubmissions' : mcpSubmissions'[k] \in [body : Bodies, refused : BOOLEAN]
    BY <1>a, <2>2 DEF McpInv, McpTypes
  <2> QED
    BY <1>1, <2>3 DEF McpInv, McpTypes
<1>3. Mcp!Charged' = Mcp!Charged
  BY <1>1 DEF Mcp!Charged, Mcp!Call
<1>4. Kept
  <2>1. \A m \in Mcp!Charged : /\ Mcp!Call(m)'.ask = Mcp!Call(m).ask /\ Mcp!Call(m)'.key = Mcp!Call(m).key
                           /\ Mcp!Call(m)'.body = Mcp!Call(m).body /\ Mcp!Call(m)'.looked = Mcp!Call(m).looked
    BY <1>1 DEF Mcp!Charged, Mcp!Call
  <2> QED
    BY <1>1, <1>a, <1>3, <2>1 DEF Kept, McpInv, McpTypes
<1>5. ASSUME NEW m \in DOMAIN mcpCalls' PROVE CallOk(m)'
  <2>1. CASE m = n
    BY <1>4, <2>1
  <2>2. CASE m # n
    BY <1>1, <1>4, <2>2, OthersStay DEF McpInv, Mcp!Call
  <2> QED
    BY <2>1, <2>2
<1>6. ChargedApart'
  BY <1>3, <1>4 DEF McpInv, ChargedApart, Kept
<1>7. RowsBacked'
  BY <1>4, <1>a, BackedStays DEF McpInv, RowsBacked
<1> QED
  BY <1>2, <1>5, <1>6, <1>7 DEF McpInv

LEMMA ArriveKeeps ==
    ASSUME McpInv, Mcp!Arrive
    PROVE  McpInv'
<1>1. PICK a \in ToolAsks : mcpCalls' = Append(mcpCalls, Mcp!New(a))
  BY DEF Mcp!Arrive
<1> DEFINE r == Mcp!New(a)
           N == Len(mcpCalls) + 1
<1>2. r \in CallRecords
  BY DEF Mcp!New, CallRecords, Bodies
<1>3. /\ r.pc = "prepare" /\ r.looked = 0 /\ r.charged = FALSE /\ r.known = {} /\ r.answer = Mcp!Nothing
  BY DEF Mcp!New
<1> HIDE DEF r
<1>4. /\ mcpCalls' \in Seq(CallRecords) /\ DOMAIN mcpCalls' = DOMAIN mcpCalls \union {N} /\ mcpCalls'[N] = r
      /\ N \notin DOMAIN mcpCalls
      /\ \A m \in DOMAIN mcpCalls : mcpCalls'[m] = mcpCalls[m]
  BY <1>1, <1>2 DEF McpInv, McpTypes, r
<1>5. McpTypes' /\ Mcp!Charged' = Mcp!Charged
  BY <1>3, <1>4 DEF McpInv, McpTypes, Mcp!Arrive, Mcp!Charged, Mcp!Call
<1>6. Kept
  BY <1>4, <1>5 DEF Kept, Mcp!Arrive, McpInv, McpTypes, Mcp!Charged, Mcp!Call
<1>7. ASSUME NEW m \in DOMAIN mcpCalls' PROVE CallOk(m)'
  <2>1. CASE m = N
    <3>1. Mcp!Call(m)' = r /\ now' \in Nat
      BY <1>4, <1>6, <2>1 DEF Mcp!Call, Kept
    <3>2. SawNone(m)'
      BY <1>3, <3>1 DEF SawNone
    <3> QED
      BY <1>3, <3>1, <3>2 DEF CallOk, Mcp!Nothing
  <2>2. CASE m # N
    BY <1>4, <1>6, <2>2, OthersStay DEF McpInv, Mcp!Call
  <2> QED
    BY <2>1, <2>2
<1>8. ChargedApart'
  BY <1>5, <1>6 DEF McpInv, ChargedApart, Kept
<1>9. RowsBacked'
  BY <1>6, BackedStays DEF McpInv, RowsBacked, Mcp!Arrive
<1> QED
  BY <1>5, <1>7, <1>8, <1>9 DEF McpInv

(* A call turned down holds nothing, and was charged for nothing.          *)
LEMMA TurnDownKeeps ==
    ASSUME McpInv, NEW n \in DOMAIN mcpCalls, ~Mcp!Call(n).charged,
           NEW answer \in {"internal", "refused", "limited", "conflict", "policy"},
           Mcp!TurnDown(n, answer),
           UNCHANGED mcpSubmissions \/ (~Mcp!HasRow(n) /\ mcpSubmissions' = Mcp!With(n, TRUE)),
           UNCHANGED <<firstModel, now>>
    PROVE  McpInv'
<1> DEFINE r == [Mcp!New(Mcp!Call(n).ask) EXCEPT !.pc = "over", !.answer = answer]
<1>1. r \in CallRecords
  <2>1. Mcp!Call(n).ask \in ToolAsks
    BY CallFields DEF McpInv
  <2> DEFINE x == Mcp!New(Mcp!Call(n).ask)
  <2>2. x \in CallRecords
    BY <2>1 DEF Mcp!New, CallRecords, Bodies
  <2> HIDE DEF x
  <2>3. [x EXCEPT !.pc = "over", !.answer = answer] \in CallRecords
    BY <2>2 DEF CallRecords
  <2> QED
    BY <2>3 DEF x
<1>2. /\ r.pc = "over" /\ r.charged = FALSE /\ r.looked = 0 /\ r.known = {} /\ r.answer = answer
  BY DEF Mcp!New
<1>3. mcpCalls' = [mcpCalls EXCEPT ![n] = r]
  BY DEF Mcp!TurnDown, Mcp!Call
<1>4. mcpCalls'[n] = r
  BY <1>3
<1> HIDE DEF r
<1>5. Kept => CallOk(n)'
  BY <1>2, <1>4 DEF CallOk, SawNone, Mcp!Call, Kept, Mcp!Nothing
<1> QED
  BY <1>1, <1>2, <1>3, <1>5, OneCall DEF McpInv, McpTypes

(* A call that only moves on keeps what it holds.                          *)
LEMMA GotoKeeps ==
    ASSUME McpInv, NEW n \in DOMAIN mcpCalls, NEW pc \in {"look", "wait"}, Mcp!Goto(n, pc),
           UNCHANGED <<mcpSubmissions, firstModel, now>>,
           pc = "look" => Mcp!Call(n).pc = "slot",
           pc = "wait" => ~Mcp!Call(n).charged /\ Mcp!Call(n).pc = "submit" /\ Backed(Mcp!Call(n).key, Mcp!Call(n).body)
    PROVE  McpInv'
<1>0. mcpCalls[n] \in CallRecords /\ CallOk(n)
  BY CallFields DEF McpInv
<1>r. [mcpCalls[n] EXCEPT !.pc = pc] \in CallRecords
  BY <1>0 DEF CallRecords
<1>1. PICK r \in CallRecords : r = [mcpCalls[n] EXCEPT !.pc = pc]
  BY <1>r
<1>2. /\ r.ask = Mcp!Call(n).ask /\ r.body = Mcp!Call(n).body /\ r.key = Mcp!Call(n).key
      /\ r.replay = Mcp!Call(n).replay /\ r.looked = Mcp!Call(n).looked /\ r.read = Mcp!Call(n).read
      /\ r.known = Mcp!Call(n).known /\ r.charged = Mcp!Call(n).charged /\ r.answer = Mcp!Call(n).answer
      /\ r.pc = pc
  BY <1>0, <1>1 DEF Mcp!Call, CallRecords
<1>3. mcpCalls' = [mcpCalls EXCEPT ![n] = r]
  BY <1>1 DEF Mcp!Goto
<1>4. mcpCalls'[n] = r
  BY <1>3
<1>5. pc = "look" => ~r.charged /\ r.known = {} /\ r.answer = Mcp!Nothing
  BY <1>0, <1>2 DEF CallOk
<1>6. Kept => CallOk(n)'
  <2> SUFFICES ASSUME Kept PROVE CallOk(n)'
    OBVIOUS
  <2>1. Mcp!Call(n)' = r /\ now' = now
    BY <1>4 DEF Mcp!Call
  <2>2. Mcp!Charged' = Mcp!Charged /\ \A m \in Mcp!Charged : Mcp!Call(m)'.looked = Mcp!Call(m).looked /\ Mcp!Call(m)'.ask = Mcp!Call(m).ask
    BY <1>1, <1>2, <1>3 DEF Mcp!Charged, Mcp!Call, Kept
  <2>3. SawNone(n)'
    <3>1. SawNone(n)
      BY <1>0 DEF CallOk
    <3> QED
      BY <1>2, <2>1, <2>2, <3>1 DEF SawNone
  <2>4. pc = "wait" => Backed(r.key, r.body)'
    BY <1>2, BackedStays
  <2>6. r.answer \in {"charged", "nothing_new"} => Backed(r.key, r.body)'
    BY <1>0, <1>2, BackedStays DEF CallOk
  <2> QED
    BY <1>0, <1>1, <1>2, <1>5, <2>1, <2>3, <2>4, <2>6 DEF CallOk, Mcp!Nothing
<1> QED
  BY <1>1, <1>2, <1>3, <1>6, OneCall

LEMMA PrepareKeeps ==
    ASSUME McpInv, NEW n \in Nat, Mcp!Prepare(n)
    PROVE  McpInv'
<1>0. n \in DOMAIN mcpCalls /\ Mcp!Call(n).pc = "prepare"
  BY DEF Mcp!Prepare, Mcp!At, Mcp!Call
<1>1. /\ mcpCalls[n] \in CallRecords /\ CallOk(n)
  BY <1>0, CallFields DEF McpInv
<1>2. ~Mcp!Call(n).charged /\ Mcp!Call(n).known = {} /\ Mcp!Call(n).answer = Mcp!Nothing
  BY <1>0, <1>1 DEF CallOk
<1>3. CASE Mcp!TurnDown(n, "refused")
  BY <1>0, <1>2, <1>3, TurnDownKeeps DEF Mcp!Prepare
<1>4. CASE mcpCalls' = [mcpCalls EXCEPT ![n].pc = "slot",
              ![n].body = <<Mcp!Call(n).ask.args, IF Mcp!Call(n).ask.args \in OpenArgs THEN firstModel ELSE 0>>]
  <2> DEFINE text == <<Mcp!Call(n).ask.args, IF Mcp!Call(n).ask.args \in OpenArgs THEN firstModel ELSE 0>>
             r == [mcpCalls[n] EXCEPT !.pc = "slot", !.body = text]
  <2>1. text \in Bodies
    BY <1>0, CallFields DEF Bodies, McpInv, McpTypes
  <2> HIDE DEF text
  <2>2. r \in CallRecords
    BY <1>1, <2>1 DEF CallRecords
  <2>3. /\ r.pc = "slot" /\ r.charged = FALSE /\ r.known = {} /\ r.answer = Mcp!Nothing
        /\ r.looked = Mcp!Call(n).looked /\ r.looked <= now
    BY <1>1, <1>2 DEF Mcp!Call, CallRecords, CallOk
  <2>4. mcpCalls' = [mcpCalls EXCEPT ![n] = r]
    BY <1>4 DEF text
  <2>5. Mcp!Call(n)' = r
    BY <1>0, <2>4 DEF Mcp!Call
  <2> HIDE DEF r
  <2>6. ASSUME Kept PROVE CallOk(n)'
    <3>1. SawNone(n)'
      BY <2>3, <2>5 DEF SawNone
    <3> QED
      BY <2>3, <2>5, <2>6, <3>1 DEF CallOk, Mcp!Nothing, Mcp!Prepare
  <2> QED
    BY <1>0, <1>2, <2>2, <2>3, <2>4, <2>6, OneCall DEF Mcp!Prepare
<1> QED
  BY <1>3, <1>4 DEF Mcp!Prepare

LEMMA TakeSlotKeeps ==
    ASSUME McpInv, NEW n \in Nat, Mcp!TakeSlot(n)
    PROVE  McpInv'
<1>0. /\ n \in DOMAIN mcpCalls /\ Mcp!Call(n).pc = "slot" /\ ~Mcp!Call(n).charged
      /\ UNCHANGED <<mcpSubmissions, firstModel, now>>
  <2>1. n \in DOMAIN mcpCalls /\ Mcp!Call(n).pc = "slot"
    BY DEF Mcp!TakeSlot, Mcp!At, Mcp!Call
  <2> QED
    BY <2>1 DEF Mcp!TakeSlot, McpInv, CallOk
<1>1. ASSUME NEW a \in {"limited", "refused"}, Mcp!TurnDown(n, a) PROVE McpInv'
  BY <1>0, <1>1, TurnDownKeeps
<1>2. CASE Mcp!Goto(n, "look")
  BY <1>0, <1>2, GotoKeeps
<1> QED
  BY <1>1, <1>2 DEF Mcp!TakeSlot
LEMMA LeastOfTwo ==
    ASSUME NEW P, P \subseteq 1..2, P # {}
    PROVE  Mcp!Min(P) \in P
<1>1. \E x \in P : \A y \in P : x <= y
  <2>1. CASE 1 \in P
    BY <2>1
  <2>2. CASE 1 \notin P
    <3>1. \A y \in P : y = 2
      BY <2>2
    <3>2. PICK p \in P : TRUE
      OBVIOUS
    <3>3. \A y \in P : p <= y
      BY <3>1
    <3> QED
      BY <3>3
  <2> QED
    BY <2>1, <2>2
<1> QED
  BY <1>1 DEF Mcp!Min

(* The key a call takes is one of its candidates: one there is a row for,  *)
(* or, if there is none, the first.                                        *)
LEMMA KeyTaken ==
    ASSUME McpTypes, NEW n \in DOMAIN mcpCalls, NEW P, NEW keys, keys = Mcp!CandidateKeys(Mcp!Call(n).ask),
           P = Mcp!submittedKey(keys) \/ P = {}
    PROVE  /\ keys[IF P = {} THEN 1 ELSE Mcp!Min(P)] \in GivenKeys \union DerivedKeys
           /\ P # {} => keys[Mcp!Min(P)] \in DOMAIN mcpSubmissions
           /\ Mcp!Call(n).ask.given # NoGivenKey => keys[1] = <<"key", Mcp!Call(n).ask.given>>
           /\ Mcp!Call(n).ask.given = NoGivenKey => keys[1] = Mcp!derivedKey(Mcp!Call(n).ask, Mcp!Bucket(now))
           /\ Mcp!submittedKey(keys) = {} /\ Mcp!Call(n).ask.given = NoGivenKey =>
                /\ Mcp!derivedKey(Mcp!Call(n).ask, Mcp!Bucket(now)) \notin DOMAIN mcpSubmissions
                /\ Mcp!derivedKey(Mcp!Call(n).ask, Mcp!Bucket(now) - 1) \notin DOMAIN mcpSubmissions
<1> DEFINE a == Mcp!Call(n).ask
<1>0. a \in ToolAsks /\ Mcp!Bucket(now) \in Int /\ Mcp!Bucket(now) - 1 \in Int
  BY CallFields DEF McpTypes, Mcp!Bucket, Mcp!RETRY_WINDOW
<1>1. /\ <<"key", a.given>> \in GivenKeys
      /\ Mcp!derivedKey(a, Mcp!Bucket(now)) \in DerivedKeys /\ Mcp!derivedKey(a, Mcp!Bucket(now) - 1) \in DerivedKeys
  BY <1>0 DEF GivenKeys, DerivedKeys
<1>2. CASE a.given # NoGivenKey
  <2>1. keys = <<<<"key", a.given>>>> /\ DOMAIN keys = {1}
    BY <1>2 DEF Mcp!CandidateKeys
  <2>2. P \subseteq 1..2 /\ (P # {} => P = {1} /\ keys[1] \in DOMAIN mcpSubmissions)
    BY <2>1 DEF Mcp!submittedKey
  <2>3. P # {} => Mcp!Min(P) = 1
    BY <2>2, LeastOfTwo
  <2> QED
    BY <1>1, <1>2, <2>1, <2>2, <2>3
<1>3. CASE a.given = NoGivenKey
  <2>1. /\ DOMAIN keys = 1..2
        /\ keys[1] = Mcp!derivedKey(a, Mcp!Bucket(now)) /\ keys[2] = Mcp!derivedKey(a, Mcp!Bucket(now) - 1)
    BY <1>3 DEF Mcp!CandidateKeys
  <2>2. P \subseteq 1..2 /\ \A i \in P : keys[i] \in DOMAIN mcpSubmissions
    BY <2>1 DEF Mcp!submittedKey
  <2>3. P # {} => Mcp!Min(P) \in P
    BY <2>2, LeastOfTwo
  <2>4. P # {} => Mcp!Min(P) = 1 \/ Mcp!Min(P) = 2
    BY <2>2, <2>3, 1..2 = {1, 2}
  <2>5. Mcp!submittedKey(keys) = {} => keys[1] \notin DOMAIN mcpSubmissions /\ keys[2] \notin DOMAIN mcpSubmissions
    BY <2>1 DEF Mcp!submittedKey
  <2> QED
    BY <1>1, <1>3, <2>1, <2>2, <2>3, <2>4, <2>5
<1> QED
  BY <1>2, <1>3

LEMMA DerivedApart ==
    ASSUME NEW a, NEW b, NEW c, Mcp!derivedKey(a, b) = Mcp!derivedKey(a, c)
    PROVE  b = c
BY DEF Mcp!derivedKey

LEMMA LookKeeps ==
    ASSUME McpInv, NEW n \in Nat, Mcp!toolIdempotencyKey(n)
    PROVE  McpInv'
<1>0. /\ n \in DOMAIN mcpCalls /\ Mcp!Call(n).pc = "look"
      /\ UNCHANGED <<mcpSubmissions, firstModel, now>>
  BY DEF Mcp!toolIdempotencyKey, Mcp!At, Mcp!Call
<1>1. PICK keys : keys = Mcp!CandidateKeys(Mcp!Call(n).ask)
  OBVIOUS
<1> DEFINE Takes(P, read) ==
             mcpCalls' = [mcpCalls EXCEPT ![n].pc = "submit", ![n].looked = now,
                ![n].read = read, ![n].known = Mcp!Charged,
                ![n].replay = P # {},
                ![n].key = keys[IF P = {} THEN 1 ELSE Mcp!Min(P)]]
<1>t. Takes(Mcp!submittedKey(keys), TRUE) \/ Takes({}, FALSE)
  BY <1>1 DEF Mcp!toolIdempotencyKey
<1> HIDE DEF Takes
<1>2. PICK P, read :
        /\ (P = Mcp!submittedKey(keys) /\ read = TRUE) \/ (P = {} /\ read = FALSE)
        /\ Takes(P, read)
  BY <1>t, Zenon
<1>3. PICK key : key = keys[IF P = {} THEN 1 ELSE Mcp!Min(P)]
  OBVIOUS
<1>4. PICK known, replay : known = Mcp!Charged /\ replay = (P # {}) /\ replay \in BOOLEAN
  OBVIOUS
<1>5. mcpCalls[n] \in CallRecords /\ CallOk(n) /\ McpTypes /\ ~Mcp!Call(n).charged /\ Mcp!Call(n).answer = Mcp!Nothing
  BY <1>0, CallFields DEF McpInv, CallOk
<1>6. /\ key \in GivenKeys \union DerivedKeys
      /\ replay => key \in DOMAIN mcpSubmissions
      /\ ~replay /\ Mcp!Call(n).ask.given # NoGivenKey => key = <<"key", Mcp!Call(n).ask.given>>
      /\ ~replay /\ Mcp!Call(n).ask.given = NoGivenKey => key = Mcp!derivedKey(Mcp!Call(n).ask, Mcp!Bucket(now))
  BY <1>0, <1>1, <1>2, <1>3, <1>4, <1>5, KeyTaken
<1>r. [mcpCalls[n] EXCEPT !.pc = "submit", !.looked = now, !.read = read, !.known = known,
                       !.replay = replay, !.key = key] \in CallRecords
  <2>1. now \in Nat /\ known \in SUBSET Nat
    BY <1>4, <1>5 DEF McpTypes, Mcp!Charged
  <2> QED
    BY <1>2, <1>4, <1>5, <1>6, <2>1 DEF CallRecords
<1>7. PICK r \in CallRecords :
        r = [mcpCalls[n] EXCEPT !.pc = "submit", !.looked = now, !.read = read, !.known = known,
                             !.replay = replay, !.key = key]
  BY <1>r
<1>8. /\ r.ask = Mcp!Call(n).ask /\ r.body = Mcp!Call(n).body /\ r.charged = FALSE /\ r.answer = Mcp!Nothing
      /\ r.pc = "submit" /\ r.looked = now /\ r.read = read /\ r.known = known
      /\ r.replay = replay /\ r.key = key
  BY <1>5, <1>7 DEF CallRecords, Mcp!Call
<1>9. mcpCalls' = [mcpCalls EXCEPT ![n] = r]
  BY <1>2, <1>3, <1>4, <1>7 DEF Takes
<1>10. Mcp!Call(n)' = r /\ \A m \in DOMAIN mcpCalls : m # n => Mcp!Call(m)' = Mcp!Call(m)
  BY <1>0, <1>9 DEF Mcp!Call
<1>11. ASSUME Kept PROVE CallOk(n)'
  <2>1. KeyOk(n)'
    BY <1>0, <1>6, <1>8, <1>10 DEF KeyOk
  <2>2. ASSUME NEW m \in Mcp!Charged
        PROVE  /\ m \in Mcp!Charged' /\ Mcp!Call(m)' = Mcp!Call(m) /\ Mcp!Call(m).looked <= now
               /\ Mcp!Call(m).ask = Mcp!Call(n).ask /\ Mcp!Call(n).ask.given = NoGivenKey /\ read /\ ~replay
                  => Mcp!Bucket(Mcp!Call(m).looked) \notin {Mcp!Bucket(now), Mcp!Bucket(now) - 1}
    <3>1. m \in DOMAIN mcpCalls /\ m # n /\ CallOk(m) /\ Mcp!Call(m).charged
      BY <1>5, <2>2 DEF Mcp!Charged, McpInv, Mcp!Call
    <3>2. m \in Mcp!Charged' /\ Mcp!Call(m)' = Mcp!Call(m) /\ Mcp!Call(m).looked <= now
      BY <1>10, <1>11, <2>2, <3>1 DEF Kept, CallOk
    <3>3. ASSUME Mcp!Call(m).ask = Mcp!Call(n).ask, Mcp!Call(n).ask.given = NoGivenKey, read, ~replay
          PROVE  Mcp!Bucket(Mcp!Call(m).looked) \notin {Mcp!Bucket(now), Mcp!Bucket(now) - 1}
      <4>1. Mcp!Call(m).key \in DOMAIN mcpSubmissions /\ Mcp!Call(m).key = Mcp!derivedKey(Mcp!Call(n).ask, Mcp!Bucket(Mcp!Call(m).looked))
        BY <3>1, <3>3 DEF CallOk, KeyOk
      <4>2. Mcp!submittedKey(keys) = {}
        BY <1>2, <1>4, <3>3
      <4>3. /\ Mcp!derivedKey(Mcp!Call(n).ask, Mcp!Bucket(now)) \notin DOMAIN mcpSubmissions
            /\ Mcp!derivedKey(Mcp!Call(n).ask, Mcp!Bucket(now) - 1) \notin DOMAIN mcpSubmissions
        BY <1>0, <1>1, <1>5, <3>3, <4>2, KeyTaken
      <4> QED
        BY <4>1, <4>3
    <3> QED
      BY <3>2, <3>3
  <2>3. SawNone(n)'
    BY <1>0, <1>4, <1>8, <1>10, <2>2 DEF SawNone
  <2>4. now \in Nat
    BY <1>5 DEF McpTypes
  <2> QED
    BY <1>0, <1>8, <1>10, <2>1, <2>3, <2>4 DEF CallOk, Mcp!Nothing
<1> QED
  BY <1>0, <1>5, <1>8, <1>9, <1>11, OneCall
(* The charge: the first call to find its key without a row.               *)
Charges(n) ==
    /\ mcpCalls' = [mcpCalls EXCEPT ![n].pc = "wait", ![n].charged = TRUE]
    /\ mcpSubmissions' = Mcp!With(n, FALSE)

LEMMA ChargeKeeps ==
    ASSUME McpInv, NEW n \in DOMAIN mcpCalls, Mcp!Call(n).pc = "submit", ~Mcp!HasRow(n),
           Charges(n), UNCHANGED <<firstModel, now>>
    PROVE  McpInv'
<1>0. /\ mcpCalls[n] \in CallRecords /\ CallOk(n) /\ KeyOk(n) /\ ~Mcp!Call(n).charged /\ ~Mcp!Call(n).replay
      /\ Mcp!Call(n).answer = Mcp!Nothing /\ McpTypes
  <2>1. mcpCalls[n] \in CallRecords /\ CallOk(n) /\ McpTypes
    BY CallFields DEF McpInv
  <2> QED
    BY <2>1 DEF CallOk, KeyOk, Mcp!HasRow
<1>r. [mcpCalls[n] EXCEPT !.pc = "wait", !.charged = TRUE] \in CallRecords
  BY <1>0 DEF CallRecords
<1>1. PICK r \in CallRecords : r = [mcpCalls[n] EXCEPT !.pc = "wait", !.charged = TRUE]
  BY <1>r
<1>2. /\ r.ask = Mcp!Call(n).ask /\ r.body = Mcp!Call(n).body /\ r.key = Mcp!Call(n).key
      /\ r.replay = Mcp!Call(n).replay /\ r.looked = Mcp!Call(n).looked /\ r.read = Mcp!Call(n).read
      /\ r.known = Mcp!Call(n).known /\ r.charged = TRUE /\ r.answer = Mcp!Call(n).answer
      /\ r.pc = "wait"
  BY <1>0, <1>1 DEF Mcp!Call, CallRecords
<1>3. mcpCalls' = [mcpCalls EXCEPT ![n] = r]
  BY <1>1 DEF Charges
<1>4. /\ DOMAIN mcpCalls' = DOMAIN mcpCalls /\ mcpCalls' \in Seq(CallRecords)
      /\ Mcp!Call(n)' = r /\ \A m \in DOMAIN mcpCalls : m # n => Mcp!Call(m)' = Mcp!Call(m)
  <2>1. mcpCalls \in Seq(CallRecords)
    BY <1>0 DEF McpTypes
  <2>2. DOMAIN mcpCalls' = DOMAIN mcpCalls /\ mcpCalls' \in Seq(CallRecords)
    <3>1. r \in CallRecords
      BY <1>1
    <3> QED
      BY <1>3, <2>1, <3>1
  <2> QED
    BY <1>3, <2>1, <2>2 DEF Mcp!Call
<1>5. /\ DOMAIN mcpSubmissions' = DOMAIN mcpSubmissions \union {r.key}
      /\ mcpSubmissions'[r.key] = [body |-> r.body, refused |-> FALSE]
      /\ \A k \in DOMAIN mcpSubmissions : mcpSubmissions'[k] = mcpSubmissions[k]
  BY <1>2 DEF Mcp!With, Mcp!HasRow, Charges
<1>6. McpTypes'
  <2>1. [body |-> r.body, refused |-> FALSE] \in [body : Bodies, refused : BOOLEAN]
    BY <1>1 DEF CallRecords
  <2>2. \A k \in DOMAIN mcpSubmissions' : mcpSubmissions'[k] \in [body : Bodies, refused : BOOLEAN]
    BY <1>0, <1>5, <2>1 DEF McpTypes
  <2> QED
    BY <1>0, <1>4, <2>2 DEF McpTypes
<1>7. Mcp!Charged' = Mcp!Charged \union {n} /\ n \notin Mcp!Charged
  BY <1>0, <1>2, <1>4 DEF Mcp!Charged, Mcp!Call
<1>8. Kept
  <2>1. \A m \in Mcp!Charged : Mcp!Call(m)' = Mcp!Call(m)
    BY <1>4, <1>7 DEF Mcp!Charged
  <2>2. \A k \in DOMAIN mcpSubmissions : k \in DOMAIN mcpSubmissions'
    BY <1>5
  <2>3. now \in Nat /\ now' \in Nat /\ now <= now'
    BY <1>0 DEF McpTypes
  <2> QED
    BY <1>4, <1>7, <2>1, <2>2, <2>3 DEF Kept
<1>9. CallOk(n)'
  <2>1. KeyOk(n)'
    BY <1>0, <1>2, <1>4 DEF KeyOk
  <2>2. SawNone(n)'
    <3>1. SawNone(n)
      BY <1>0 DEF CallOk
    <3>2. \A m \in Mcp!Charged : Mcp!Call(m)' = Mcp!Call(m)
      BY <1>4, <1>7 DEF Mcp!Charged
    <3> QED
      BY <1>2, <1>4, <1>7, <3>1, <3>2 DEF SawNone
  <2>3. Backed(r.key, r.body)'
    BY <1>4, <1>7 DEF Backed
  <2>4. r.looked <= now' /\ r.key \in DOMAIN mcpSubmissions'
    BY <1>0, <1>2, <1>5 DEF CallOk
  <2> QED
    BY <1>0, <1>2, <1>4, <2>1, <2>2, <2>3, <2>4 DEF CallOk, Mcp!Nothing
<1>10. ASSUME NEW m \in DOMAIN mcpCalls' PROVE CallOk(m)'
  <2>1. CASE m = n
    BY <1>9, <2>1
  <2>2. CASE m # n
    BY <1>4, <1>8, <2>2, OthersStay DEF McpInv
  <2> QED
    BY <2>1, <2>2
<1>11. ChargedApart'
  <2>1. \A m \in Mcp!Charged : Mcp!Call(m).key \in DOMAIN mcpSubmissions /\ m # n
    BY <1>7 DEF McpInv, CallOk, Mcp!Charged, Mcp!Call
  <2>2. \A m \in Mcp!Charged : Mcp!Call(m)'.key = Mcp!Call(m).key /\ Mcp!Call(m).key # r.key
    BY <1>2, <1>8, <2>1 DEF Kept, Mcp!HasRow
  <2> QED
    BY <1>4, <1>7, <2>2 DEF ChargedApart, McpInv
<1>12. RowsBacked'
  <2>1. Backed(r.key, r.body)'
    BY <1>4, <1>7 DEF Backed
  <2>2. ASSUME NEW k \in DOMAIN mcpSubmissions, NEW b, b = mcpSubmissions[k].body, ~mcpSubmissions[k].refused
        PROVE  Backed(k, b)'
    BY <1>8, <2>2, BackedStays DEF McpInv, RowsBacked
  <2>3. ASSUME NEW k \in DOMAIN mcpSubmissions', ~mcpSubmissions'[k].refused, NEW b, b = mcpSubmissions'[k].body
        PROVE  Backed(k, b)'
    <3>1. CASE k = r.key
      <4>1. b = r.body
        <5>1. mcpSubmissions'[k] = [body |-> r.body, refused |-> FALSE]
          BY <1>5, <3>1
        <5> QED
          BY <2>3, <5>1
      <4> QED
        BY <2>1, <3>1, <4>1
    <3>2. CASE k # r.key
      <4>1. k \in DOMAIN mcpSubmissions /\ mcpSubmissions'[k] = mcpSubmissions[k]
        BY <1>5, <3>2
      <4> QED
        BY <2>2, <2>3, <4>1
    <3> QED
      BY <3>1, <3>2
  <2> QED
    BY <2>3 DEF RowsBacked
<1> QED
  BY <1>6, <1>10, <1>11, <1>12 DEF McpInv

LEMMA ToolSubmitKeeps ==
    ASSUME McpInv, NEW n \in Nat, Mcp!Submit(n)
    PROVE  McpInv'
<1>0. /\ n \in DOMAIN mcpCalls /\ Mcp!Call(n).pc = "submit" /\ ~Mcp!Call(n).charged
      /\ UNCHANGED <<firstModel, now>>
  <2>1. n \in DOMAIN mcpCalls /\ Mcp!Call(n).pc = "submit"
    BY DEF Mcp!Submit, Mcp!At, Mcp!Call
  <2> QED
    BY <2>1 DEF Mcp!Submit, McpInv, CallOk
<1>1. ASSUME NEW answer \in {"conflict", "policy", "refused"}, Mcp!TurnDown(n, answer),
             UNCHANGED mcpSubmissions
      PROVE  McpInv'
  BY <1>0, <1>1, TurnDownKeeps
<1>2. CASE Mcp!Replay(n)
  <2>1. CASE Mcp!RowOf(n).body # Mcp!Call(n).body
    BY <1>1, <1>2, <2>1 DEF Mcp!Replay
  <2>2. CASE Mcp!RowOf(n).body = Mcp!Call(n).body /\ Mcp!RowOf(n).refused
    BY <1>1, <1>2, <2>2 DEF Mcp!Replay
  <2>3. CASE Mcp!RowOf(n).body = Mcp!Call(n).body /\ ~Mcp!RowOf(n).refused
    <3>1. Mcp!Goto(n, "wait") /\ UNCHANGED mcpSubmissions
      BY <1>2, <2>3 DEF Mcp!Replay
    <3>2. Backed(Mcp!Call(n).key, Mcp!Call(n).body)
      BY <1>2, <2>3 DEF Mcp!Replay, McpInv, RowsBacked, Mcp!RowOf, Mcp!HasRow
    <3> QED
      BY <1>0, <3>1, <3>2, GotoKeeps
  <2> QED
    BY <2>1, <2>2, <2>3
<1>3. CASE Mcp!Accept(n)
  <2>1. CASE Mcp!TurnDown(n, "policy") /\ mcpSubmissions' = Mcp!With(n, TRUE)
    BY <1>0, <1>3, <2>1, TurnDownKeeps DEF Mcp!Accept
  <2>2. CASE /\ mcpCalls' = [mcpCalls EXCEPT ![n].pc = "wait", ![n].charged = TRUE]
             /\ mcpSubmissions' = Mcp!With(n, FALSE)
    BY <1>0, <1>3, <2>2, ChargeKeeps DEF Mcp!Accept, Charges
  <2> QED
    BY <1>3, <2>1, <2>2 DEF Mcp!Accept
<1>4. CASE Mcp!Refuse(n)
  BY <1>1, <1>4 DEF Mcp!Refuse
<1> QED
  BY <1>2, <1>3, <1>4 DEF Mcp!Submit

(* The answer a call gets.                                                 *)
LEMMA AnswerKeeps ==
    ASSUME McpInv, NEW n \in DOMAIN mcpCalls, NEW answer \in {"charged", "nothing_new", "internal"},
           Mcp!Answer(n, answer), UNCHANGED <<mcpSubmissions, firstModel, now>>,
           Mcp!Call(n).pc \in {"submit", "wait"} \/ Mcp!Call(n).charged,
           answer # "internal" => Backed(Mcp!Call(n).key, Mcp!Call(n).body),
           Mcp!Call(n).charged => answer # "nothing_new"
    PROVE  McpInv'
<1>0. mcpCalls[n] \in CallRecords /\ CallOk(n)
  BY CallFields DEF McpInv
<1>r. [mcpCalls[n] EXCEPT !.pc = "over", !.answer = answer] \in CallRecords
  BY <1>0 DEF CallRecords
<1>1. PICK r \in CallRecords : r = [mcpCalls[n] EXCEPT !.pc = "over", !.answer = answer]
  BY <1>r
<1>2. /\ r.ask = Mcp!Call(n).ask /\ r.body = Mcp!Call(n).body /\ r.key = Mcp!Call(n).key
      /\ r.replay = Mcp!Call(n).replay /\ r.looked = Mcp!Call(n).looked /\ r.read = Mcp!Call(n).read
      /\ r.known = Mcp!Call(n).known /\ r.charged = Mcp!Call(n).charged /\ r.answer = answer
      /\ r.pc = "over"
  BY <1>0, <1>1 DEF Mcp!Call, CallRecords
<1>3. mcpCalls' = [mcpCalls EXCEPT ![n] = r]
  BY <1>1 DEF Mcp!Answer
<1>4. Mcp!Call(n)' = r /\ now' = now
  BY <1>3 DEF Mcp!Call
<1>5. ASSUME Kept PROVE CallOk(n)'
  <2>1. \A m \in Mcp!Charged : m \in Mcp!Charged' /\ Mcp!Call(m)'.looked = Mcp!Call(m).looked /\ Mcp!Call(m)'.ask = Mcp!Call(m).ask
    BY <1>5 DEF Kept
  <2>2. SawNone(n)'
    <3>1. SawNone(n)
      BY <1>0 DEF CallOk
    <3> QED
      BY <1>2, <1>4, <2>1, <3>1 DEF SawNone
  <2>3. r.charged => KeyOk(n)' /\ r.key \in DOMAIN mcpSubmissions'
    BY <1>0, <1>2, <1>4 DEF CallOk, KeyOk
  <2>4. answer # "internal" => Backed(r.key, r.body)'
    BY <1>2, <1>5, BackedStays
  <2> QED
    BY <1>0, <1>2, <1>4, <2>2, <2>3, <2>4 DEF CallOk
<1> QED
  BY <1>1, <1>2, <1>3, <1>5, OneCall

LEMMA OutcomeKeeps ==
    ASSUME McpInv, NEW n \in Nat, Mcp!generationOutcome(n)
    PROVE  McpInv'
<1>1. n \in DOMAIN mcpCalls /\ Mcp!Call(n).pc = "wait"
  BY DEF Mcp!generationOutcome, Mcp!At, Mcp!Call
<1>2. CallOk(n)
  BY <1>1 DEF McpInv
<1>3. Backed(Mcp!Call(n).key, Mcp!Call(n).body) /\ (Mcp!Call(n).charged => ~Mcp!Call(n).replay)
  BY <1>1, <1>2 DEF CallOk
<1>4. PICK answer \in {"charged", "nothing_new"} :
         Mcp!Answer(n, answer) /\ (Mcp!Call(n).charged => answer # "nothing_new")
  BY <1>3 DEF Mcp!generationOutcome
<1> QED
  BY <1>1, <1>3, <1>4, AnswerKeeps DEF Mcp!generationOutcome

LEMMA CallFailKeeps ==
    ASSUME McpInv, NEW n \in Nat, Mcp!Fail(n)
    PROVE  McpInv'
<1>1. CASE Mcp!Call(n).charged
  BY <1>1, AnswerKeeps DEF Mcp!Fail
<1>2. CASE ~Mcp!Call(n).charged
  BY <1>2, TurnDownKeeps DEF Mcp!Fail
<1> QED
  BY <1>1, <1>2

(* What happens around the mcpCalls leaves them alone.                        *)
LEMMA AroundKeeps ==
    ASSUME McpInv, UNCHANGED <<mcpCalls, mcpSubmissions>>, firstModel' \in Nat,
           now' \in Nat, now <= now'
    PROVE  McpInv'
<1>1. McpTypes' /\ Mcp!Charged' = Mcp!Charged /\ \A m : Mcp!Call(m)' = Mcp!Call(m)
  BY DEF McpInv, McpTypes, Mcp!Charged, Mcp!Call
<1>2. Kept
  BY <1>1 DEF Kept, McpInv, McpTypes
<1>3. ASSUME NEW m \in DOMAIN mcpCalls' PROVE CallOk(m)'
  BY <1>1, <1>2, OthersStay DEF McpInv
<1>4. ChargedApart' /\ RowsBacked'
  <2>1. ChargedApart'
    BY <1>1 DEF McpInv, ChargedApart
  <2> QED
    BY <1>2, <2>1, BackedStays DEF McpInv, RowsBacked
<1> QED
  BY <1>1, <1>3, <1>4 DEF McpInv

LEMMA McpMoves == McpInv /\ [Mcp!Next]_(Mcp!vars) => McpInv'
<1> SUFFICES ASSUME McpInv, [Mcp!Next]_(Mcp!vars) PROVE McpInv'
  OBVIOUS
<1>0. now \in Nat /\ firstModel \in Nat
  BY DEF McpInv, McpTypes
<1>1. CASE Mcp!Arrive
  BY <1>1, ArriveKeeps
<1>2. ASSUME NEW n \in 1..MaxToolCalls, Mcp!Prepare(n) \/ Mcp!TakeSlot(n) \/ Mcp!toolIdempotencyKey(n)
                 \/ Mcp!Submit(n) \/ Mcp!generationOutcome(n) \/ Mcp!Fail(n)
      PROVE  McpInv'
  <2>1. n \in Nat
    OBVIOUS
  <2> QED
    BY <1>2, <2>1, PrepareKeeps, TakeSlotKeeps, LookKeeps, ToolSubmitKeeps, OutcomeKeeps,
       CallFailKeeps
<1>3. CASE Mcp!SwitchOff
  BY <1>0, <1>3, AroundKeeps DEF Mcp!SwitchOff
<1>4. CASE Mcp!Minute
  BY <1>0, <1>4, AroundKeeps DEF Mcp!Minute
<1>5. CASE UNCHANGED Mcp!vars
  BY <1>0, <1>5, AroundKeeps DEF Mcp!vars
<1> QED
  BY <1>1, <1>2, <1>3, <1>4, <1>5 DEF Mcp!Next

(* What two buckets apart are in minutes.                                  *)
LEMMA BucketsApart ==
    ASSUME NEW i \in Nat, NEW j \in Nat, i <= j,
           Mcp!Bucket(i) \notin {Mcp!Bucket(j), Mcp!Bucket(j) - 1}
    PROVE  j - i > Mcp!RETRY_WINDOW
BY DEF Mcp!Bucket, Mcp!RETRY_WINDOW

LEMMA HonestFollows == McpInv => Mcp!CallsAreHonest
<1> SUFFICES ASSUME McpInv PROVE Mcp!CallsAreHonest
  OBVIOUS
<1>1. \A n \in Mcp!Charged : n \in DOMAIN mcpCalls /\ CallOk(n) /\ KeyOk(n) /\ ~Mcp!Call(n).replay
  BY DEF McpInv, CallOk, Mcp!Charged, Mcp!Call
<1>2. Mcp!RetryIsFree
  <2> SUFFICES ASSUME NEW m \in Mcp!Charged, NEW n \in Mcp!Charged, m # n, Mcp!Call(m).ask = Mcp!Call(n).ask
               PROVE  /\ Mcp!Call(n).ask.given = NoGivenKey
                      /\ Mcp!Bucket(Mcp!Call(m).looked) # Mcp!Bucket(Mcp!Call(n).looked)
                      /\ m \in Mcp!Call(n).known /\ Mcp!Call(n).read =>
                            Mcp!Call(n).looked - Mcp!Call(m).looked > Mcp!RETRY_WINDOW
    BY DEF Mcp!RetryIsFree
  <2>1. Mcp!Call(m).key # Mcp!Call(n).key
    BY DEF McpInv, ChargedApart
  <2>2. Mcp!Call(n).ask.given = NoGivenKey
    BY <1>1, <2>1 DEF KeyOk
  <2>3. Mcp!Bucket(Mcp!Call(m).looked) # Mcp!Bucket(Mcp!Call(n).looked)
    BY <1>1, <2>1, <2>2 DEF KeyOk
  <2>4. ASSUME m \in Mcp!Call(n).known, Mcp!Call(n).read
        PROVE  Mcp!Call(n).looked - Mcp!Call(m).looked > Mcp!RETRY_WINDOW
    <3>1. SawNone(n)
      BY <1>1 DEF CallOk
    <3>2. /\ Mcp!Call(m).looked <= Mcp!Call(n).looked
          /\ Mcp!Bucket(Mcp!Call(m).looked) \notin {Mcp!Bucket(Mcp!Call(n).looked), Mcp!Bucket(Mcp!Call(n).looked) - 1}
      BY <1>1, <2>2, <2>4, <3>1 DEF SawNone
    <3>3. Mcp!Call(m).looked \in Nat /\ Mcp!Call(n).looked \in Nat
      BY <1>1, CallFields DEF McpInv
    <3> QED
      BY <3>2, <3>3, BucketsApart
  <2> QED
    BY <2>2, <2>3, <2>4
<1>3. Mcp!SaysWhatItCharged
  <2>1. \A n \in Mcp!Charged : Mcp!Call(n).answer \in {Mcp!Nothing, "charged", "internal"}
    BY <1>1 DEF CallOk, Mcp!Charged, Mcp!Call
  <2>2. \A n \in DOMAIN mcpCalls : Mcp!Call(n).answer \in {"charged", "nothing_new"} =>
                                 Backed(Mcp!Call(n).key, Mcp!Call(n).body)
    BY DEF McpInv, CallOk
  <2> QED
    BY <2>1, <2>2 DEF Mcp!SaysWhatItCharged, Backed
<1> QED
  BY <1>2, <1>3 DEF Mcp!CallsAreHonest

(* A call made again is charged once, and every answer says what was       *)
(* charged, for any calls in flight, failed reads and dead isolates.       *)
THEOREM ToolsAreHonest == Mcp!Spec => []Mcp!CallsAreHonest
BY McpStart, McpMoves, HonestFollows, PTL DEF Mcp!Spec
-----------------------------------------------------------------------------
(* The page and who is signed in                                           *)

(* A call of the present epoch is the present user's: so is what it brings.*)
PageCalls ==
    [kind : {"profile", "generations", "ledger", "personas", "create", "jobs", "age", "delete"},
     user : Accounts, epoch : Nat, gate : BOOLEAN]

OwnCalls(c) ==
    /\ c \in PageCalls /\ c.epoch <= epoch
    /\ c.epoch = epoch => c.user = session

(* A profile that counts as confirmed is the present user's, and they are. *)
GateInv ==
    /\ session \in Accounts \cup {Nobody} /\ epoch \in Nat
    /\ \A c \in sessionCalls : OwnCalls(c)
    /\ profile.of \in {session, Nobody}
    /\ profile.of # Nobody /\ profile.confirmed => profile.of \in confirmed

LEMMA GateMoves ==
    ASSUME GateInv, [Session!Next]_(Session!sessionVars)
    PROVE  GateInv' /\ (page' = "app" /\ page # "app" => session \in confirmed)
<1>0. Session!NoProfile.of = Nobody /\ Session!NoProfile.confirmed = FALSE
  BY DEF Session!NoProfile
<1>1. ASSUME NEW user \in Accounts \cup {Nobody}, NEW route \in {"landing", "reset"},
             Session!OpenAs(user, route), UNCHANGED confirmed
      PROVE  GateInv' /\ page' # "app"
  BY <1>0, <1>1 DEF GateInv, OwnCalls, Session!OpenAs
<1>2. ASSUME Session!Unload PROVE GateInv' /\ page' # "app"
  BY <1>0, <1>2 DEF GateInv, OwnCalls, Session!Unload
<1>3. ASSUME NEW user \in Accounts \cup {Nobody}, Session!onIdentityChange(user),
             sessionCalls' \subseteq sessionCalls
      PROVE  GateInv'
  BY <1>0, <1>3 DEF GateInv, OwnCalls, PageCalls, Session!onIdentityChange, Session!resetAll
<1>4. ASSUME UNCHANGED <<session, epoch, profile>>, confirmed \subseteq confirmed',
             \A c \in sessionCalls' : OwnCalls(c)
      PROVE  GateInv'
  BY <1>4 DEF GateInv, OwnCalls
<1>5. ASSUME NEW kind \in {"profile", "generations", "ledger", "personas", "create", "jobs", "age",
                           "delete"},
             NEW gate \in BOOLEAN, Session!Send(kind, gate), Session!MayCall
      PROVE  \A c \in sessionCalls' : OwnCalls(c)
  <2> DEFINE call == [kind |-> kind, user |-> session, epoch |-> epoch, gate |-> gate]
  <2>1. session \in Accounts /\ epoch \in Nat
    BY <1>5 DEF GateInv, Session!MayCall, Session!isAuthed
  <2>2. call \in PageCalls /\ call.epoch = epoch /\ call.user = session
    BY <2>1 DEF PageCalls
  <2>3. sessionCalls' = sessionCalls \cup {call}
    BY <1>5 DEF Session!Send
  <2> HIDE DEF call
  <2> QED
    BY <2>1, <2>2, <2>3 DEF GateInv, OwnCalls
<1>6. CASE Session!Open \/ Session!OpenResetLink
  BY <1>1, <1>6 DEF GateInv, Session!Open, Session!OpenResetLink, Session!stored
<1>7. CASE Session!Close \/ Session!decide
  BY <1>2, <1>7 DEF Session!Close, Session!decide
<1>8. CASE Session!signOut \/ Session!SignInElsewhere \/ Session!signInEmail
  BY <1>3, <1>8 DEF Session!signOut, Session!SignInElsewhere, Session!signInEmail
<1>9. CASE Session!signInGoogle
  BY <1>0, <1>9 DEF GateInv, OwnCalls, Session!signInGoogle, Session!stored
<1>10. CASE Session!TeardownEnds \/ Session!restore
  BY <1>4, <1>10 DEF GateInv, Session!TeardownEnds, Session!restore, Session!stored
<1>11. CASE Session!guestGuard \/ Session!authGuard \/ Session!consentReturnGuard
            \/ Session!openConsent
  BY <1>4, <1>11 DEF GateInv, Session!guestGuard, Session!authGuard, Session!consentReturnGuard,
     Session!openConsent, Session!GoTo
<1>12. CASE Session!ageGuard
  <2>1. Session!ageConfirmed => session \in confirmed
    BY DEF GateInv, Session!ageConfirmed
  <2>2. GateInv'
    BY <1>4, <1>5, <1>12 DEF GateInv, Session!ageGuard, Session!GoTo
  <2> QED
    BY <1>12, <2>1, <2>2 DEF Session!ageGuard, Session!GoTo
<1>13. CASE Session!load \/ Session!create \/ Session!tick \/ Session!sendBirthDate
            \/ Session!deleteAccount
  BY <1>4, <1>5, <1>13 DEF Session!LoadKinds, Session!load, Session!create, Session!tick,
     Session!sendBirthDate,
     Session!deleteAccount, Session!GoTo, Session!stored
<1>14. ASSUME NEW c \in sessionCalls, Session!Answer(c)
       PROVE  GateInv' /\ (page' = "app" /\ page # "app" => session \in confirmed)
  <2>1. /\ sessionCalls' = sessionCalls \ {c} /\ UNCHANGED <<session, epoch>> /\ c.user = session
        /\ session # Nobody
    BY <1>14, SessionFit DEF GateInv, OwnCalls, PageCalls, Session!ConstantsFit, Session!Answer,
       Session!Answered, Session!isCurrent
  <2>2. CASE Session!applyProfile(c)
    BY <2>1, <2>2 DEF GateInv, OwnCalls, Session!applyProfile
  <2>3. CASE Session!applyList(c) \/ Session!applyCreated(c) \/ Session!applyJobUpdates(c)
    BY <1>4, <2>1, <2>3 DEF GateInv, Session!applyList, Session!applyCreated,
       Session!applyJobUpdates,
       Session!stored
  <2> QED
    BY <1>14, <2>2, <2>3 DEF Session!Answer
<1>15. ASSUME NEW c \in sessionCalls, Session!AgeConfirmed(c) PROVE GateInv' /\ page' = page
  <2> DEFINE next == [c EXCEPT !.kind = "profile"]
  <2>0. c \in PageCalls /\ OwnCalls(c)
    BY DEF GateInv, OwnCalls
  <2>1. next \in PageCalls /\ next.epoch = c.epoch /\ next.user = c.user
    BY <2>0 DEF PageCalls
  <2>2. sessionCalls' = (sessionCalls \ {c}) \cup {next}
    BY <1>15 DEF Session!AgeConfirmed
  <2> HIDE DEF next
  <2>3. \A d \in sessionCalls' : OwnCalls(d)
    BY <2>0, <2>1, <2>2 DEF GateInv, OwnCalls
  <2> QED
    BY <1>4, <1>15, <2>3 DEF Session!AgeConfirmed
<1>16. ASSUME NEW c \in sessionCalls, Session!AccountEnds(c) PROVE GateInv' /\ page' # "app"
  BY <1>3, <1>16 DEF Session!AccountEnds
<1>17. ASSUME NEW c \in sessionCalls, Session!Dropped(c)
       PROVE  GateInv' /\ page' \in {page, "landing"}
  BY <1>4, <1>17 DEF GateInv, Session!Dropped, Session!Answered, Session!stored
<1>18. CASE Session!persist \/ Session!updatePreferences \/ Session!RecoveryExpires
            \/ Session!completePasswordReset
  BY <1>4, <1>18 DEF GateInv, Session!persist, Session!updatePreferences, Session!RecoveryExpires,
     Session!completePasswordReset, Session!stored
<1>19. CASE UNCHANGED Session!sessionVars
  BY <1>4, <1>19 DEF GateInv, Session!sessionVars
<1> QED
  BY <1>6, <1>7, <1>8, <1>9, <1>10, <1>11, <1>12, <1>13, <1>14, <1>15, <1>16, <1>17, <1>18, <1>19
     DEF Session!Next

LEMMA GateInvariant == Session!Spec => []GateInv
<1>1. Session!Init => GateInv
  BY DEF Session!Init, GateInv, Session!NoProfile
<1> QED
  BY <1>1, GateMoves, PTL DEF Session!Spec

(* Nobody enters the workspace on the age another account confirmed.       *)
THEOREM SessionGate == Session!Spec => Session!GateIsTheirs
<1>1. GateInv /\ [Session!Next]_(Session!sessionVars) =>
        [page' = "app" /\ page # "app" => session \in confirmed]_(Session!sessionVars)
  BY GateMoves
<1> QED
  BY <1>1, GateInvariant, PTL DEF Session!Spec, Session!GateIsTheirs

(* What the browser keeps that the present user may come to see.           *)
KeptOf(user) ==
    snapshots[<<"generations", user>>] \cup snapshots[<<"notifications", user>>]
      \cup snapshots[<<"preferences", Nobody>>]

NothingKept == \A user \in Accounts : KeptOf(user) = {}

NothingHeld == \A s \in Session!Stores : held[s] = {}

(* While a user is signed in the page and their snapshots are theirs; while*)
(* nobody is, nothing is left, but for the stores still being torn down.   *)
(* A login page that finds itself signed in has not called or kept a thing:*)
(* signInGoogle may leave it for another account without a word.           *)
ForeignInv ==
    /\ GateInv
    /\ held \in [Session!Stores -> SUBSET Accounts]
    /\ snapshots \in [Session!SnapshotSlots -> SUBSET Accounts]
    /\ historyOf \in Accounts \cup {Nobody}
    /\ recovery \in {session, Nobody}
    /\ session # Nobody =>
         /\ \A s \in Session!Stores : held[s] \subseteq {session}
         /\ KeptOf(session) \subseteq {session}
    /\ session = Nobody =>
         /\ held["ledger"] = {} /\ held["preferences"] = {}
         /\ ~tearing => NothingHeld
         /\ NothingKept
    /\ session # Nobody /\ page = "login" =>
         /\ NothingHeld /\ NothingKept
         /\ \A c \in sessionCalls : c.epoch # epoch

LEMMA SlotsAre ==
    /\ <<"preferences", Nobody>> \in Session!SnapshotSlots
    /\ \A name \in {"generations", "notifications", "profile"}, user \in Accounts \cup {Nobody} :
          <<name, user>> \in Session!SnapshotSlots
    /\ Session!Stores = {"generations", "ledger", "personas", "notifications", "preferences"}
    /\ Nobody \notin Accounts
BY SessionFit DEF Session!SnapshotSlots, Session!Names, Session!Stores, Session!ConstantsFit

(* A new page of the same account, or the first of one.                    *)
LEMMA OpenForeign ==
    ASSUME ForeignInv, NEW user \in Accounts \cup {Nobody}, NEW route \in {"landing", "reset"},
           session \in {user, Nobody}, Session!OpenAs(user, route), recovery' \in {user, Nobody},
           UNCHANGED <<snapshots, confirmed>>, GateInv'
    PROVE  ForeignInv'
<1>1. Session!restoreCache = snapshots[<<"preferences", Nobody>>]
  BY SlotsAre DEF Session!restoreCache, Session!Empty
<1>2. /\ held' = [s \in Session!Stores |->
                     IF s = "preferences" THEN snapshots[<<"preferences", Nobody>>] ELSE {}]
      /\ session' = user /\ historyOf' = Nobody /\ page' # "login"
  BY <1>1, SlotsAre DEF Session!OpenAs, Session!Empty
<1>3. snapshots[<<"preferences", Nobody>>] \in SUBSET Accounts
  BY SlotsAre DEF ForeignInv
<1>4. user # Nobody => KeptOf(user) \subseteq {user}
  BY <1>2, SlotsAre DEF ForeignInv, NothingKept
<1>5. user = Nobody => NothingKept /\ session = Nobody
  BY DEF ForeignInv
<1>6. user = Nobody => snapshots[<<"preferences", Nobody>>] = {}
  BY <1>5, SlotsAre DEF ForeignInv, KeptOf, NothingKept
<1>7. user # Nobody => snapshots[<<"preferences", Nobody>>] \subseteq {user}
  BY <1>4 DEF KeptOf
<1>8. held' \in [Session!Stores -> SUBSET Accounts]
  BY <1>2, <1>3
<1>9. KeptOf(user)' = KeptOf(user) /\ (NothingKept => NothingKept')
  BY DEF KeptOf, NothingKept
<1>10. user = Nobody => NothingHeld' /\ held'["ledger"] = {} /\ held'["preferences"] = {}
  BY <1>2, <1>6, SlotsAre DEF NothingHeld
<1> QED
  BY <1>2, <1>4, <1>5, <1>7, <1>8, <1>9, <1>10 DEF ForeignInv, KeptOf

(* The identity changes: from nobody, or to nobody.                        *)
LEMMA IdentityForeign ==
    ASSUME ForeignInv, NEW user \in Accounts \cup {Nobody}, Session!onIdentityChange(user),
           user = Nobody \/ (~tearing /\ (session = Nobody \/ page = "login")),
           sessionCalls' \subseteq sessionCalls, GateInv'
    PROVE  ForeignInv'
<1>1. /\ session' = user /\ epoch' = epoch + 1 /\ historyOf' = historyOf /\ tearing' = TRUE
      /\ recovery' \in {user, Nobody}
      /\ held' = [s \in Session!Stores |-> IF s \in {"ledger", "preferences"} THEN {} ELSE held[s]]
      /\ snapshots' = [Session!clearAllCaches EXCEPT ![<<"preferences", Nobody>>] = {}]
  BY DEF Session!onIdentityChange, Session!onRecoveryEvent, Session!resetAll, Session!Hold
<1>2. /\ \A name \in {"generations", "notifications"}, u \in Accounts : snapshots'[<<name, u>>] = {}
      /\ snapshots'[<<"preferences", Nobody>>] = {}
      /\ snapshots' \in [Session!SnapshotSlots -> SUBSET Accounts]
  BY <1>1, SlotsAre DEF Session!clearAllCaches, Session!SnapshotSlots, ForeignInv
<1>3. NothingKept'
  BY <1>2 DEF NothingKept, KeptOf
<1>4. held' \in [Session!Stores -> SUBSET Accounts] /\ held'["ledger"] = {} /\ held'["preferences"] = {}
  BY <1>1, SlotsAre DEF ForeignInv
<1>5. CASE user = Nobody
  BY <1>1, <1>2, <1>3, <1>4, <1>5 DEF ForeignInv
<1>6. CASE user # Nobody
  <2>1. NothingHeld'
    BY <1>1, <1>4, <1>6 DEF ForeignInv, NothingHeld
  <2>2. \A c \in sessionCalls' : c.epoch # epoch'
    BY <1>1 DEF ForeignInv, GateInv, OwnCalls, PageCalls
  <2>3. \A s \in Session!Stores : held'[s] \subseteq {user}
    BY <2>1 DEF NothingHeld, Session!Stores
  <2>4. KeptOf(user)' \subseteq {user}
    BY <1>2, <1>6 DEF KeptOf
  <2> QED
    BY <1>1, <1>2, <1>3, <1>4, <1>6, <2>1, <2>2, <2>3, <2>4 DEF ForeignInv, KeptOf
<1> QED
  BY <1>5, <1>6

(* signInGoogle comes back to a new page, whoever was there.               *)
LEMMA GoogleForeign ==
    ASSUME ForeignInv, Session!signInGoogle, GateInv'
    PROVE  ForeignInv'
<1>1. NothingKept
  BY DEF ForeignInv, Session!signInGoogle
<1>2. /\ session' \in Accounts /\ historyOf' = Nobody /\ recovery' = Nobody /\ sessionCalls' = {}
      /\ page' = "signed-in" /\ snapshots' = snapshots
      /\ held' = [s \in Session!Stores |->
                     IF s = "preferences" THEN snapshots[<<"preferences", Nobody>>] ELSE {}]
  BY SlotsAre DEF Session!signInGoogle, Session!stored, Session!restoreCache, Session!Empty
<1>3. snapshots[<<"preferences", Nobody>>] = {} /\ KeptOf(session') = {}
  BY <1>1, <1>2 DEF NothingKept, KeptOf
<1>4. /\ held' \in [Session!Stores -> SUBSET Accounts]
      /\ \A s \in Session!Stores : held'[s] \subseteq {session'}
  BY <1>2, <1>3
<1>5. KeptOf(session)' \subseteq {session'}
  BY <1>2, <1>3 DEF KeptOf
<1> QED
  BY <1>2, <1>4, <1>5, SlotsAre DEF ForeignInv

(* Nothing the page holds or the browser keeps changes.                    *)
LEMMA QuietForeign ==
    ASSUME ForeignInv, UNCHANGED <<session, epoch, tearing, held, snapshots, historyOf>>,
           recovery' \in {recovery, Nobody},
           page' = "login" /\ session # Nobody => page = "login" /\ sessionCalls' \subseteq sessionCalls,
           GateInv'
    PROVE  ForeignInv'
<1>1. NothingHeld' = NothingHeld /\ NothingKept' = NothingKept
  BY DEF NothingHeld, NothingKept, KeptOf, Session!Stores
<1>2. \A user : KeptOf(user)' = KeptOf(user)
  BY DEF KeptOf
<1> QED
  BY <1>1, <1>2 DEF ForeignInv, KeptOf, Session!Stores, Session!SnapshotSlots, Session!Names

(* Someone is signed in, and what is written is theirs.                    *)
LEMMA OwnForeign ==
    ASSUME ForeignInv, session # Nobody, UNCHANGED <<session, recovery>>,
           held' \in [Session!Stores -> SUBSET Accounts],
           \A s \in Session!Stores : held'[s] \subseteq {session},
           snapshots' \in [Session!SnapshotSlots -> SUBSET Accounts],
           KeptOf(session)' \subseteq {session}, historyOf' \in Accounts \cup {Nobody},
           page' # "login", GateInv'
    PROVE  ForeignInv'
BY DEF ForeignInv, KeptOf, Session!Stores, Session!SnapshotSlots, Session!Names

LEMMA UnloadForeign == ASSUME ForeignInv, Session!Unload, GateInv' PROVE ForeignInv'
<1>1. /\ UNCHANGED <<session, snapshots>> /\ historyOf' = Nobody /\ recovery' = Nobody
      /\ page' = "closed" /\ held' = [s \in Session!Stores |-> {}]
  BY DEF Session!Unload, Session!Empty
<1>2. NothingHeld' /\ held'["ledger"] = {} /\ held'["preferences"] = {}
      /\ held' \in [Session!Stores -> SUBSET Accounts]
  BY <1>1, SlotsAre DEF NothingHeld
<1>3. NothingKept' = NothingKept /\ KeptOf(session)' = KeptOf(session)
  BY <1>1 DEF NothingKept, KeptOf
<1>4. \A s \in Session!Stores : held'[s] \subseteq {session}
  BY <1>1
<1> QED
  BY <1>1, <1>2, <1>3, <1>4 DEF ForeignInv, Session!Stores, Session!SnapshotSlots, Session!Names

LEMMA TeardownForeign == ASSUME ForeignInv, Session!TeardownEnds, GateInv' PROVE ForeignInv'
<1>1. /\ UNCHANGED <<session, page, epoch, snapshots, historyOf, recovery, sessionCalls>>
      /\ held' = [s \in Session!Stores |->
                    IF s \in {"notifications", "generations", "personas"} THEN {} ELSE held[s]]
  BY DEF Session!TeardownEnds, Session!Hold, Session!stored
<1>2. /\ held' \in [Session!Stores -> SUBSET Accounts]
      /\ \A s \in Session!Stores : held'[s] \subseteq held[s]
      /\ held'["ledger"] = held["ledger"] /\ held'["preferences"] = held["preferences"]
  BY <1>1, SlotsAre DEF ForeignInv
<1>3. session = Nobody => NothingHeld'
  BY <1>1, SlotsAre DEF ForeignInv, NothingHeld
<1>4. NothingHeld => NothingHeld'
  BY <1>2 DEF NothingHeld, Session!Stores
<1>5. NothingKept' = NothingKept /\ KeptOf(session)' = KeptOf(session)
  BY <1>1 DEF NothingKept, KeptOf
<1> QED
  BY <1>1, <1>2, <1>3, <1>4, <1>5 DEF ForeignInv, Session!Stores, Session!SnapshotSlots,
     Session!Names

(* persist writes under the user it finds, be it nobody.                   *)
LEMMA PersistForeign == ASSUME ForeignInv, Session!persist, GateInv' PROVE ForeignInv'
<1> DEFINE slot == <<"generations", session>>
<1>1. /\ UNCHANGED <<session, page, epoch, tearing, held, historyOf, sessionCalls, recovery>>
      /\ snapshots' = [snapshots EXCEPT ![slot] = held["generations"]]
      /\ session \in Accounts \cup {Nobody} /\ slot \in Session!SnapshotSlots
      /\ held["generations"] \in SUBSET Accounts
  BY SlotsAre DEF ForeignInv, GateInv, Session!persist, Session!WithSnapshot
<1>2. /\ snapshots' \in [Session!SnapshotSlots -> SUBSET Accounts]
      /\ \A s \in Session!SnapshotSlots : s # slot => snapshots'[s] = snapshots[s]
      /\ snapshots'[slot] = held["generations"]
  BY <1>1 DEF ForeignInv
<1>3. \A user \in Accounts : KeptOf(user)' \subseteq KeptOf(user) \cup (IF user = session THEN held["generations"] ELSE {})
  BY <1>2, SlotsAre DEF KeptOf
<1>4. NothingHeld' = NothingHeld
  BY <1>1 DEF NothingHeld, Session!Stores
<1>5. CASE session = Nobody
  <2>1. NothingKept'
    BY <1>3, <1>5, SlotsAre DEF ForeignInv, NothingKept
  <2> QED
    BY <1>1, <1>2, <1>4, <1>5, <2>1 DEF ForeignInv, Session!Stores, Session!SnapshotSlots,
       Session!Names
<1>6. CASE session # Nobody
  <2>1. held["generations"] \subseteq {session} /\ session \in Accounts
    BY <1>1, <1>6, SlotsAre DEF ForeignInv
  <2>2. KeptOf(session)' \subseteq {session}
    BY <1>1, <1>3, <1>6, <2>1 DEF ForeignInv, KeptOf
  <2>3. page = "login" => NothingKept'
    BY <1>3, <1>6, SlotsAre DEF ForeignInv, NothingKept, NothingHeld
  <2> QED
    BY <1>1, <1>2, <1>4, <1>6, <2>2, <2>3 DEF ForeignInv, KeptOf, Session!Stores,
       Session!SnapshotSlots, Session!Names
<1> QED
  BY <1>5, <1>6

(* The present user's page: what they hold, and what is kept for them.     *)
LEMMA OwnPage ==
    ASSUME ForeignInv, session # Nobody
    PROVE  /\ session \in Accounts /\ held \in [Session!Stores -> SUBSET Accounts]
           /\ snapshots \in [Session!SnapshotSlots -> SUBSET Accounts]
           /\ \A s \in Session!Stores : held[s] \subseteq {session}
           /\ snapshots[<<"generations", session>>] \subseteq {session}
           /\ snapshots[<<"notifications", session>>] \subseteq {session}
           /\ snapshots[<<"preferences", Nobody>>] \subseteq {session}
BY DEF ForeignInv, GateInv, KeptOf

LEMMA RestoreForeign == ASSUME ForeignInv, Session!restore, GateInv' PROVE ForeignInv'
<1>1. /\ session # Nobody /\ historyOf' = session /\ page' = "app"
      /\ UNCHANGED <<session, recovery, snapshots>>
      /\ \/ held' = held
         \/ held' = [s \in Session!Stores |-> IF s \in {"notifications"}
                        THEN snapshots[<<"notifications", session>>] ELSE held[s]]
  BY DEF Session!restore, Session!isAuthed, Session!Hold, Session!readCache, Session!stored
<1>2. held' \in [Session!Stores -> SUBSET Accounts] /\ \A s \in Session!Stores : held'[s] \subseteq {session}
  BY <1>1, OwnPage
<1>3. KeptOf(session)' = KeptOf(session)
  BY <1>1 DEF KeptOf
<1> QED
  BY <1>1, <1>2, <1>3, OwnPage, OwnForeign DEF ForeignInv

LEMMA LoadForeign == ASSUME ForeignInv, Session!load, GateInv' PROVE ForeignInv'
<1>1. /\ session # Nobody /\ historyOf' = historyOf /\ page' = "app"
      /\ UNCHANGED <<session, recovery, snapshots>>
      /\ \/ held' = held
         \/ held' = [s \in Session!Stores |-> IF s \in {"generations"}
                        THEN snapshots[<<"generations", session>>] ELSE held[s]]
  BY DEF Session!load, Session!MayCall, Session!isAuthed, Session!Hold, Session!readCache,
     Session!stored,
     Session!FromSnapshot
<1>2. held' \in [Session!Stores -> SUBSET Accounts] /\ \A s \in Session!Stores : held'[s] \subseteq {session}
  BY <1>1, OwnPage
<1>3. KeptOf(session)' = KeptOf(session)
  BY <1>1 DEF KeptOf
<1> QED
  BY <1>1, <1>2, <1>3, OwnPage, OwnForeign DEF ForeignInv

LEMMA PreferForeign == ASSUME ForeignInv, Session!updatePreferences, GateInv' PROVE ForeignInv'
<1> DEFINE slot == <<"preferences", Nobody>>
<1>1. /\ session # Nobody /\ historyOf' = historyOf /\ page' = "app" /\ UNCHANGED <<session, recovery>>
      /\ held' = [held EXCEPT !["preferences"] = @ \cup {session}]
      /\ snapshots' = [snapshots EXCEPT ![slot] = held'["preferences"]]
  BY DEF Session!updatePreferences, Session!isAuthed, Session!WithSnapshot
<1>2. held' \in [Session!Stores -> SUBSET Accounts] /\ \A s \in Session!Stores : held'[s] \subseteq {session}
  BY <1>1, OwnPage, SlotsAre
<1>3. /\ snapshots' \in [Session!SnapshotSlots -> SUBSET Accounts]
      /\ KeptOf(session)' \subseteq KeptOf(session) \cup {session}
  BY <1>1, <1>2, OwnPage, SlotsAre DEF KeptOf
<1>4. KeptOf(session)' \subseteq {session}
  BY <1>1, <1>3, OwnPage DEF KeptOf
<1> QED
  BY <1>1, <1>2, <1>3, <1>4, OwnForeign DEF ForeignInv

LEMMA AnswerForeign ==
    ASSUME ForeignInv, NEW c \in sessionCalls, Session!Answer(c), GateInv'
    PROVE  ForeignInv'
<1>1. /\ c.user = session /\ session # Nobody /\ UNCHANGED <<session, recovery>> /\ page # "login"
  BY SlotsAre DEF ForeignInv, GateInv, OwnCalls, PageCalls, Session!Answer, Session!Answered,
     Session!isCurrent
<1>2. CASE Session!applyProfile(c)
  <2> DEFINE first == <<"profile", session>>
             second == <<"preferences", Nobody>>
  <2>1. /\ held' = [s \in Session!Stores |-> IF s \in {"ledger", "preferences"} THEN {session} ELSE held[s]]
        /\ snapshots' = [snapshots EXCEPT ![first] = {session}, ![second] = {session}]
        /\ page' # "login" /\ historyOf' = historyOf
    BY <1>1, <1>2 DEF Session!applyProfile, Session!Hold
  <2>2. held' \in [Session!Stores -> SUBSET Accounts] /\ \A s \in Session!Stores : held'[s] \subseteq {session}
    BY <1>1, <2>1, OwnPage
  <2>3. /\ snapshots' \in [Session!SnapshotSlots -> SUBSET Accounts]
        /\ KeptOf(session)' \subseteq KeptOf(session) \cup {session}
    BY <1>1, <2>1, OwnPage, SlotsAre DEF KeptOf
  <2>4. KeptOf(session)' \subseteq {session}
    BY <1>1, <2>3, OwnPage DEF KeptOf
  <2> QED
    BY <1>1, <2>1, <2>2, <2>3, <2>4, OwnForeign DEF ForeignInv
<1>3. CASE Session!applyList(c) /\ c.kind \in {"generations", "ledger", "personas"}
  <2>1. /\ held' = [s \in Session!Stores |-> IF s \in {c.kind} THEN {session} ELSE held[s]]
        /\ UNCHANGED <<page, historyOf, snapshots>>
    BY <1>1, <1>3 DEF Session!applyList, Session!Hold, Session!stored
  <2>2. held' \in [Session!Stores -> SUBSET Accounts] /\ \A s \in Session!Stores : held'[s] \subseteq {session}
    BY <1>1, <2>1, OwnPage
  <2>3. KeptOf(session)' = KeptOf(session)
    BY <1>1, <2>1 DEF KeptOf
  <2> QED
    BY <1>1, <2>1, <2>2, <2>3, OwnPage, OwnForeign DEF ForeignInv
<1>4. CASE Session!applyCreated(c)
  <2> DEFINE mid == [s \in Session!Stores |-> IF s \in {"ledger"} THEN {session} ELSE held[s]]
  <2>1. /\ held' = [mid EXCEPT !["generations"] = @ \cup {session}]
        /\ UNCHANGED <<page, historyOf, snapshots>>
    BY <1>1, <1>4 DEF Session!applyCreated, Session!Hold, Session!stored
  <2>2. mid \in [Session!Stores -> SUBSET Accounts] /\ \A s \in Session!Stores : mid[s] \subseteq {session}
    BY <1>1, OwnPage
  <2> HIDE DEF mid
  <2>3. held' \in [Session!Stores -> SUBSET Accounts] /\ \A s \in Session!Stores : held'[s] \subseteq {session}
    BY <1>1, <2>1, <2>2, OwnPage, SlotsAre
  <2>4. KeptOf(session)' = KeptOf(session)
    BY <1>1, <2>1 DEF KeptOf
  <2> QED
    BY <1>1, <2>1, <2>3, <2>4, OwnPage, OwnForeign DEF ForeignInv
<1>5. CASE Session!applyJobUpdates(c)
  <2> DEFINE slot == <<"notifications", historyOf>>
  <2>1. /\ held' = [held EXCEPT !["notifications"] = @ \cup {session}]
        /\ UNCHANGED <<page, historyOf>>
        /\ \/ snapshots' = snapshots
           \/ snapshots' = [snapshots EXCEPT ![slot] = held'["notifications"]]
    BY <1>1, <1>5 DEF Session!applyJobUpdates, Session!WithSnapshot
  <2>2. held' \in [Session!Stores -> SUBSET Accounts] /\ \A s \in Session!Stores : held'[s] \subseteq {session}
    BY <1>1, <2>1, OwnPage, SlotsAre
  <2>3. historyOf \in Accounts \cup {Nobody} /\ slot \in Session!SnapshotSlots
    BY SlotsAre DEF ForeignInv
  <2>4. /\ snapshots' \in [Session!SnapshotSlots -> SUBSET Accounts]
        /\ KeptOf(session)' \subseteq KeptOf(session) \cup {session}
    BY <1>1, <2>1, <2>2, <2>3, OwnPage, SlotsAre DEF KeptOf
  <2>5. KeptOf(session)' \subseteq {session}
    BY <1>1, <2>4, OwnPage DEF KeptOf
  <2> QED
    BY <1>1, <2>1, <2>2, <2>3, <2>4, <2>5, OwnForeign
<1> QED
  BY <1>2, <1>3, <1>4, <1>5 DEF Session!Answer

LEMMA ForeignMoves ==
    ASSUME ForeignInv, ~SilentSwitch, [Session!Next]_(Session!sessionVars)
    PROVE  ForeignInv'
<1>0. GateInv'
  BY GateMoves DEF ForeignInv
<1>1. CASE Session!Open \/ Session!OpenResetLink
  <2>1. session \in Accounts \cup {Nobody}
    BY DEF ForeignInv, GateInv
  <2> QED
    BY <1>0, <1>1, <2>1, OpenForeign DEF Session!Open, Session!OpenResetLink, Session!stored
<1>2. CASE Session!Close \/ Session!decide
  BY <1>0, <1>2, UnloadForeign DEF Session!Close, Session!decide
<1>3. CASE Session!signOut \/ Session!SignInElsewhere \/ Session!signInEmail
  <2>1. CASE Session!signOut
    <3>1. Session!onIdentityChange(Nobody) /\ sessionCalls' \subseteq sessionCalls
      BY <2>1 DEF Session!signOut
    <3> QED
      BY <1>0, <3>1, IdentityForeign
  <2>2. CASE Session!SignInElsewhere \/ Session!signInEmail
    <3>1. ~tearing /\ (session = Nobody \/ page = "login") /\ sessionCalls' \subseteq sessionCalls
      BY <2>2 DEF Session!SignInElsewhere, Session!signInEmail, Session!isAuthed
    <3>2. PICK user \in Accounts : Session!onIdentityChange(user)
      BY <2>2 DEF Session!SignInElsewhere, Session!signInEmail
    <3> QED
      BY <1>0, <3>1, <3>2, IdentityForeign
  <2> QED
    BY <1>3, <2>1, <2>2
<1>4. CASE Session!guestGuard \/ Session!authGuard \/ Session!consentReturnGuard
           \/ Session!openConsent
             \/ Session!ageGuard
  BY <1>0, <1>4, QuietForeign DEF Session!guestGuard, Session!authGuard, Session!consentReturnGuard,
     Session!openConsent, Session!ageGuard, Session!GoTo, Session!Leave, Session!isAuthed
<1>5. CASE Session!create \/ Session!tick \/ Session!deleteAccount \/ Session!sendBirthDate
  BY <1>0, <1>5, QuietForeign DEF Session!create, Session!tick, Session!deleteAccount,
     Session!sendBirthDate, Session!GoTo, Session!stored
<1>6. ASSUME NEW c \in sessionCalls, Session!AgeConfirmed(c) PROVE ForeignInv'
  <2>1. c.epoch = epoch /\ session # Nobody /\ UNCHANGED page
    BY <1>6, SlotsAre DEF ForeignInv, GateInv, OwnCalls, PageCalls, Session!AgeConfirmed,
       Session!isCurrent
  <2>2. page # "login"
    BY <2>1 DEF ForeignInv
  <2> QED
    BY <1>0, <1>6, <2>1, <2>2, QuietForeign DEF Session!AgeConfirmed
<1>7. ASSUME NEW c \in sessionCalls, Session!AccountEnds(c) PROVE ForeignInv'
  <2>1. Session!onIdentityChange(Nobody) /\ sessionCalls' \subseteq sessionCalls
    BY <1>7 DEF Session!AccountEnds
  <2> QED
    BY <1>0, <2>1, IdentityForeign
<1>8. ASSUME NEW c \in sessionCalls, Session!Dropped(c) PROVE ForeignInv'
  BY <1>0, <1>8, QuietForeign DEF Session!Dropped, Session!Answered, Session!stored
<1>9. CASE Session!RecoveryExpires \/ Session!completePasswordReset
  BY <1>0, <1>9, QuietForeign DEF Session!RecoveryExpires, Session!completePasswordReset,
     Session!stored
<1>10. CASE UNCHANGED Session!sessionVars
  BY <1>0, <1>10, QuietForeign DEF Session!sessionVars
<1> QED
  BY <1>0, <1>1, <1>2, <1>3, <1>4, <1>5, <1>6, <1>7, <1>8, <1>9, <1>10, GoogleForeign,
     TeardownForeign,
     RestoreForeign, LoadForeign, AnswerForeign, PersistForeign, PreferForeign DEF Session!Next

LEMMA ForeignStarts == Session!Init => ForeignInv
<1> SUFFICES ASSUME Session!Init PROVE ForeignInv
  OBVIOUS
<1>1. GateInv
  BY DEF Session!Init, GateInv, Session!NoProfile
<1>2. /\ held = [s \in Session!Stores |-> {}] /\ snapshots = [s \in Session!SnapshotSlots |-> {}]
      /\ session = Nobody /\ recovery = Nobody /\ historyOf = Nobody
  BY DEF Session!Init, Session!Empty
<1>3. NothingKept /\ NothingHeld /\ held["ledger"] = {} /\ held["preferences"] = {}
  BY <1>2, SlotsAre DEF NothingKept, KeptOf, NothingHeld
<1> QED
  BY <1>1, <1>2, <1>3 DEF ForeignInv

(* Where the identity does not change while no page is open, a page holds  *)
(* nothing of an account that has left.                                    *)
THEOREM SessionPage == ASSUME ~SilentSwitch PROVE Session!Spec => []Session!NothingForeign
<1>1. ForeignInv /\ [Session!Next]_(Session!sessionVars) => ForeignInv'
  BY ForeignMoves
<1>2. ForeignInv => Session!NothingForeign
  BY DEF ForeignInv, GateInv, Session!NothingForeign, Session!isAuthed
<1> QED
  BY <1>1, <1>2, ForeignStarts, PTL DEF Session!Spec

-----------------------------------------------------------------------------
(* What the library charges, and what it polls                             *)

RowStatus == {"pending", "done", "failed"}
Listing == [Rows -> RowStatus \cup {Library!Absent}]

LibraryCalls ==
    [kind : {"load", "more", "fetch", "create", "rerun", "remove", "jobs"},
     row : Nat, key : Nat, prints : SUBSET Library!Fingerprints, epoch : Nat,
     busy : SUBSET Rows, ids : SUBSET Rows, served : BOOLEAN,
     read : UNION {[S -> RowStatus] : S \in SUBSET Rows}]

LibraryTypes ==
    /\ server \in Listing /\ libraryShown \in Listing
    /\ cursor \in Nat /\ pageEpoch \in Nat /\ nextKey \in Nat
    /\ submissionKeys \in [Library!Fingerprints -> Nat]
    /\ accepted \in [Library!Fingerprints -> Nat]
    /\ inflight \subseteq Library!Fingerprints
    /\ mine \subseteq Rows
    /\ calls \subseteq LibraryCalls

DrawnFor(f) == {k \in Nat : <<f, k>> \in drawn}

(* A request has drawn a key for each of its answers, and one more while   *)
(* it holds one; and it is sent at most once at a time.                    *)
KeysOf(f) ==
    /\ \A k \in DrawnFor(f) : k < nextKey
    /\ Cardinality(DrawnFor(f)) =
         accepted[f] + (IF submissionKeys[f] = Library!NoKey THEN 0 ELSE 1)
    /\ submissionKeys[f] # Library!NoKey => submissionKeys[f] \in DrawnFor(f)
    /\ f \in inflight => submissionKeys[f] # Library!NoKey

PrintsInv ==
    \A c \in calls :
        /\ c.prints \subseteq inflight
        /\ c.kind = "create" => \E f \in Library!Fingerprints : c.prints = {f}
        /\ \A d \in calls : c # d => c.prints \cap d.prints = {}

(* What a submission listed is still listed, and polled while pending.     *)
PolledInv ==
    \A r \in mine :
        /\ libraryShown[r] # Library!Absent
        /\ libraryShown[r] = "pending" => timer

LibraryInv ==
    /\ LibraryTypes
    /\ nextKey # Library!NoKey
    /\ \A f \in Library!Fingerprints : KeysOf(f)
    /\ PrintsInv
    /\ PolledInv

LEMMA LibraryRows == Rows \subseteq Nat
BY LibraryFit DEF Library!ConstantsFit

LEMMA LibraryCardinality == \A S : Library!Cardinality(S) = Cardinality(S)
BY DEF Library!Cardinality, Cardinality

(* A set of numbers has a least one: the one with the smallest segment.    *)
LEMMA MinIsIn == ASSUME NEW S \in SUBSET Nat, S # {} PROVE Library!Min(S) \in S
<1> DEFINE Segments == {0..(x - 1) : x \in S}
<1>1. Segments \subseteq FiniteSubsetsOf(Nat)
  <2> SUFFICES ASSUME NEW x \in S PROVE 0..(x - 1) \in FiniteSubsetsOf(Nat)
    OBVIOUS
  <2>1. IsFiniteSet(0..(x - 1)) /\ 0..(x - 1) \in SUBSET Nat
    BY FS_Interval
  <2> QED
    BY <2>1 DEF FiniteSubsetsOf
<1>2. Segments # {}
  OBVIOUS
<1>3. PICK T \in Segments : \A U \in Segments : ~ (<<U, T>> \in StrictSubsetOrdering(Nat))
  <2> HIDE DEF Segments
  <2> QED
    BY <1>1, <1>2, WFMin, FS_StrictSubsetOrderingWellFounded
<1>4. PICK x \in S : T = 0..(x - 1)
  BY <1>3
<1>5. ASSUME NEW y \in S PROVE x <= y
  <2> SUFFICES ASSUME y < x PROVE FALSE
    OBVIOUS
  <2>1. 0..(y - 1) \in Segments /\ 0..(y - 1) \subseteq T /\ 0..(y - 1) \in SUBSET Nat
    BY <1>4
  <2>2. T \in SUBSET Nat /\ y \in T /\ y \notin 0..(y - 1)
    BY <1>4
  <2> QED
    BY <1>3, <2>1, <2>2 DEF StrictSubsetOrdering
<1> QED
  BY <1>5 DEF Library!Min

(* The fields a step reads of a call.                                      *)
LEMMA LibraryFields ==
    ASSUME LibraryTypes, NEW c \in calls
    PROVE  /\ c \in LibraryCalls
           /\ c.row \in Nat /\ c.prints \subseteq Library!Fingerprints
           /\ DOMAIN c.read \subseteq Rows
           /\ \A r \in DOMAIN c.read : c.read[r] \in RowStatus
BY DEF LibraryTypes, LibraryCalls

(* Requests                                                                *)

LEMMA SentCall ==
    ASSUME LibraryTypes, NEW call \in LibraryCalls, Library!Send(call)
    PROVE  calls' \subseteq LibraryCalls
BY DEF LibraryTypes, Library!Send

LEMMA BlankCall ==
    ASSUME NEW kind \in {"load", "more", "fetch", "create", "rerun", "remove", "jobs"}
    PROVE  /\ Library!Call(kind) \in LibraryCalls
           /\ Library!Call(kind).kind = kind /\ Library!Call(kind).prints = {}
<1>1. Library!Unread \in UNION {[S -> RowStatus] : S \in SUBSET Rows}
  BY DEF Library!Unread
<1> QED
  BY <1>1 DEF Library!Call, LibraryCalls, Library!NoKey

LEMMA ServedCall ==
    ASSUME LibraryTypes, NEW c \in calls, NEW S \in SUBSET Rows, NEW read \in [S -> RowStatus]
    PROVE  LET d == [c EXCEPT !.served = TRUE, !.read = read]
           IN  d \in LibraryCalls /\ d.prints = c.prints /\ d.kind = c.kind
<1>1. c \in LibraryCalls /\ read \in UNION {[T -> RowStatus] : T \in SUBSET Rows}
  BY LibraryFields
<1> QED
  BY <1>1 DEF LibraryCalls

LEMMA PrintsSent ==
    ASSUME LibraryInv, NEW call, Library!Send(call), call.prints = {}, call.kind # "create",
           UNCHANGED inflight
    PROVE  PrintsInv'
BY DEF LibraryInv, PrintsInv, Library!Send

LEMMA PrintsServed ==
    ASSUME LibraryInv, NEW c \in calls, NEW S \in SUBSET Rows, NEW read \in [S -> RowStatus],
           Library!Answering(c, read), UNCHANGED inflight
    PROVE  PrintsInv' /\ calls' \subseteq LibraryCalls
<1> DEFINE d == [c EXCEPT !.served = TRUE, !.read = read]
<1>1. d \in LibraryCalls /\ d.prints = c.prints /\ d.kind = c.kind
  BY ServedCall DEF LibraryInv
<1>2. calls' = (calls \ {c}) \cup {d}
  BY DEF Library!Answering
<1> HIDE DEF d
<1> QED
  BY <1>1, <1>2 DEF LibraryInv, LibraryTypes, PrintsInv

LEMMA PrintsAnswered ==
    ASSUME LibraryInv, NEW c \in calls, Library!Done(c),
           inflight \ c.prints \subseteq inflight'
    PROVE  PrintsInv' /\ calls' \subseteq LibraryCalls
BY DEF LibraryInv, LibraryTypes, PrintsInv, Library!Done

(* A step that draws no key and takes no answer of a submission.           *)
LEMMA KeysStay ==
    ASSUME LibraryInv, UNCHANGED <<submissionKeys, drawn, accepted>>,
           nextKey' \in Nat, nextKey <= nextKey', inflight' \subseteq inflight
    PROVE  /\ nextKey' # Library!NoKey
           /\ \A f \in Library!Fingerprints : KeysOf(f)'
           /\ submissionKeys' \in [Library!Fingerprints -> Nat]
           /\ accepted' \in [Library!Fingerprints -> Nat]
           /\ inflight' \subseteq Library!Fingerprints
<1>1. ASSUME NEW f \in Library!Fingerprints PROVE KeysOf(f)'
  <2>1. DrawnFor(f)' = DrawnFor(f) /\ DrawnFor(f) \subseteq Nat
    BY DEF DrawnFor
  <2>2. KeysOf(f) /\ nextKey \in Nat
    BY DEF LibraryInv, LibraryTypes
  <2> QED
    BY <2>1, <2>2 DEF KeysOf
<1> QED
  BY <1>1 DEF LibraryInv, LibraryTypes, Library!NoKey

(* What a step may do to the list: the rows a submission listed stay       *)
(* listed, or are no longer counted, and are polled while pending.         *)
LEMMA LibraryStep ==
    ASSUME LibraryInv, PrintsInv', PolledInv', calls' \subseteq LibraryCalls,
           UNCHANGED <<submissionKeys, drawn, accepted>>,
           nextKey' \in Nat, nextKey <= nextKey', inflight' \subseteq inflight,
           server' \in Listing, libraryShown' \in Listing, cursor' \in Nat, pageEpoch' \in Nat,
           mine' \subseteq Rows
    PROVE  LibraryInv'
BY KeysStay DEF LibraryInv, LibraryTypes

LEMMA PolledStay ==
    ASSUME LibraryInv, UNCHANGED <<libraryShown, mine, timer>>
    PROVE  PolledInv'
BY DEF LibraryInv, PolledInv


(* A request that submits nothing.                                         *)
LEMMA SendKeeps ==
    ASSUME LibraryInv, NEW call \in LibraryCalls, Library!Send(call),
           call.prints = {}, call.kind # "create",
           UNCHANGED <<submissionKeys, drawn, accepted, inflight, server, libraryShown, cursor,
                       mine, timer>>,
           nextKey' \in Nat, nextKey <= nextKey', pageEpoch' \in Nat
    PROVE  LibraryInv'
<1>1. PrintsInv' /\ PolledInv' /\ calls' \subseteq LibraryCalls
  BY PrintsSent, PolledStay, SentCall DEF LibraryInv
<1> QED
  BY <1>1, LibraryStep DEF LibraryInv, LibraryTypes

LEMMA RequestKeeps ==
    ASSUME LibraryInv,
           Library!refresh \/ Library!loadMore \/ Library!fetchById \/ Library!rerun
             \/ Library!remove
    PROVE  LibraryInv'
<1>0. LibraryTypes /\ pageEpoch \in Nat /\ cursor \in Nat /\ nextKey \in Nat
  BY DEF LibraryInv, LibraryTypes
<1>1. CASE Library!refresh
  <2> DEFINE call == [Library!Call("load") EXCEPT !.epoch = pageEpoch + 1]
  <2>1. call \in LibraryCalls /\ call.prints = {} /\ call.kind # "create"
    BY <1>0, BlankCall DEF LibraryCalls
  <2>2. Library!Send(call)
    BY <1>1 DEF Library!refresh
  <2> HIDE DEF call
  <2> QED
    BY <1>0, <1>1, <2>1, <2>2, SendKeeps DEF Library!refresh, Library!submitVars, Library!pollerVars,
       Library!serverVars
<1>2. CASE Library!loadMore
  <2> DEFINE call == [Library!Call("more") EXCEPT !.epoch = pageEpoch, !.row = cursor]
  <2>1. call \in LibraryCalls /\ call.prints = {} /\ call.kind # "create"
    BY <1>0, BlankCall DEF LibraryCalls
  <2>2. Library!Send(call)
    BY <1>2 DEF Library!loadMore
  <2> HIDE DEF call
  <2> QED
    BY <1>0, <1>2, <2>1, <2>2, SendKeeps DEF Library!loadMore, Library!submitVars,
       Library!pollerVars, Library!serverVars
<1>3. CASE Library!fetchById
  <2>1. PICK r \in Rows : Library!Send([Library!Call("fetch") EXCEPT !.row = r])
    BY <1>3 DEF Library!fetchById
  <2> DEFINE call == [Library!Call("fetch") EXCEPT !.row = r]
  <2>2. call \in LibraryCalls /\ call.prints = {} /\ call.kind # "create"
    BY LibraryRows, BlankCall DEF LibraryCalls
  <2>3. Library!Send(call)
    BY <2>1
  <2> HIDE DEF call
  <2> QED
    BY <1>0, <1>3, <2>2, <2>3, SendKeeps DEF Library!fetchById, Library!submitVars,
       Library!pollerVars, Library!serverVars, Library!listVars
<1>4. CASE Library!rerun
  <2>1. PICK r \in Rows :
          Library!Send([Library!Call("rerun") EXCEPT !.row = r, !.key = nextKey, !.busy = {r}])
    BY <1>4 DEF Library!rerun
  <2> DEFINE call == [Library!Call("rerun") EXCEPT !.row = r, !.key = nextKey, !.busy = {r}]
  <2>2. call \in LibraryCalls /\ call.prints = {} /\ call.kind # "create"
    BY <1>0, LibraryRows, BlankCall DEF LibraryCalls
  <2>3. Library!Send(call)
    BY <2>1
  <2>4. /\ UNCHANGED <<submissionKeys, drawn, accepted, inflight, server, libraryShown, cursor,
                        mine, timer, pageEpoch>>
        /\ nextKey' = nextKey + 1
    BY <1>4 DEF Library!rerun, Library!pollerVars, Library!serverVars, Library!listVars
  <2> HIDE DEF call
  <2> QED
    BY <1>0, <2>2, <2>3, <2>4, SendKeeps
<1>5. CASE Library!remove
  <2>1. PICK r \in Rows : Library!Send([Library!Call("remove") EXCEPT !.row = r, !.busy = {r}])
    BY <1>5 DEF Library!remove
  <2> DEFINE call == [Library!Call("remove") EXCEPT !.row = r, !.busy = {r}]
  <2>2. call \in LibraryCalls /\ call.prints = {} /\ call.kind # "create"
    BY LibraryRows, BlankCall DEF LibraryCalls
  <2>3. Library!Send(call)
    BY <2>1
  <2>4. UNCHANGED <<submissionKeys, drawn, accepted, inflight, nextKey, server, libraryShown,
                     cursor, mine, timer, pageEpoch>>
    BY <1>5 DEF Library!remove, Library!submitVars, Library!pollerVars, Library!serverVars,
       Library!listVars
  <2> HIDE DEF call
  <2> QED
    BY <1>0, <2>2, <2>3, <2>4, SendKeeps
<1> QED
  BY <1>1, <1>2, <1>3, <1>4, <1>5

(* A press draws a key, unless an attempt before it kept one.              *)
LEMMA DrawKeeps ==
    ASSUME LibraryInv, NEW f \in Library!Fingerprints, NEW marked, Library!Submit(f, marked),
           UNCHANGED accepted
    PROVE  /\ \A g \in Library!Fingerprints : KeysOf(g)'
           /\ nextKey' \in Nat /\ nextKey' # Library!NoKey
           /\ submissionKeys' \in [Library!Fingerprints -> Nat]
           /\ Library!keyFor(f) \in Nat /\ f \notin inflight
<1> DEFINE k == Library!keyFor(f)
<1>0. /\ nextKey \in Nat /\ nextKey # Library!NoKey /\ submissionKeys \in [Library!Fingerprints -> Nat]
      /\ accepted \in [Library!Fingerprints -> Nat] /\ KeysOf(f) /\ f \notin inflight
  BY DEF LibraryInv, LibraryTypes, Library!Submit
<1>1. /\ submissionKeys' = [submissionKeys EXCEPT ![f] = k]
      /\ nextKey' = IF k = nextKey THEN nextKey + 1 ELSE nextKey
      /\ drawn' = drawn \cup {<<f, k>>}
      /\ inflight' = inflight \cup {f}
  BY DEF Library!Submit
<1>2. k \in Nat /\ k # Library!NoKey /\ k <= nextKey
  BY <1>0 DEF Library!keyFor, KeysOf, DrawnFor
<1>3. nextKey' \in Nat /\ k < nextKey' /\ nextKey <= nextKey' /\ nextKey' # Library!NoKey
  <2> HIDE DEF k
  <2> QED
    BY <1>0, <1>1, <1>2 DEF Library!NoKey
<1>4. ASSUME NEW g \in Library!Fingerprints, g # f PROVE KeysOf(g)'
  <2>1. DrawnFor(g)' = DrawnFor(g)
    BY <1>1, <1>4 DEF DrawnFor
  <2>2. KeysOf(g) /\ DrawnFor(g) \subseteq Nat
    BY DEF LibraryInv, DrawnFor
  <2>3. submissionKeys'[g] = submissionKeys[g] /\ (g \in inflight' => g \in inflight)
    BY <1>0, <1>1, <1>4
  <2> QED
    BY <1>0, <1>3, <2>1, <2>2, <2>3 DEF KeysOf
<1>5. KeysOf(f)'
  <2>1. DrawnFor(f)' = DrawnFor(f) \cup {k}
    BY <1>1, <1>2 DEF DrawnFor
  <2>2. submissionKeys'[f] = k
    BY <1>0, <1>1
  <2>3. DrawnFor(f) \subseteq Nat /\ \A n \in DrawnFor(f) : n <= nextKey
    BY <1>0 DEF DrawnFor, KeysOf
  <2>4. IsFiniteSet(DrawnFor(f))
    BY <1>0, <2>3, FS_BoundedSetOfNaturals
  <2>5. Cardinality(DrawnFor(f) \cup {k}) =
          IF k \in DrawnFor(f) THEN Cardinality(DrawnFor(f)) ELSE Cardinality(DrawnFor(f)) + 1
    BY <2>4, FS_AddElement
  <2>6. IF submissionKeys[f] = Library!NoKey THEN k \notin DrawnFor(f) ELSE k \in DrawnFor(f)
    BY <1>0, <2>3 DEF Library!keyFor, KeysOf
  <2>7. Cardinality(DrawnFor(f)) \in Nat /\ accepted[f] \in Nat
    BY <1>0, <2>4, FS_CardinalityType
  <2>8. Cardinality(DrawnFor(f) \cup {k}) = accepted[f] + 1
    BY <1>0, <2>5, <2>6, <2>7 DEF KeysOf
  <2>9. \A n \in DrawnFor(f) \cup {k} : n < nextKey'
    BY <1>0, <1>2, <1>3, <2>3 DEF KeysOf
  <2> HIDE DEF k
  <2> QED
    BY <1>2, <2>1, <2>2, <2>8, <2>9 DEF KeysOf
<1> QED
  <2> HIDE DEF k
  <2>1. Library!keyFor(f) \in Nat
    BY <1>2 DEF k
  <2> QED
    BY <1>0, <1>1, <1>2, <1>3, <1>4, <1>5, <2>1

LEMMA SubmitKeeps ==
    ASSUME LibraryInv, NEW f \in Library!Fingerprints, NEW marked \in SUBSET Rows,
           Library!Submit(f, marked),
           UNCHANGED <<accepted, server, libraryShown, cursor, pageEpoch, mine, timer>>
    PROVE  LibraryInv'
<1> DEFINE call ==
      [Library!Call("create") EXCEPT !.key = Library!keyFor(f), !.prints = {f}, !.busy = marked]
<1>1. call \in LibraryCalls /\ call.prints = {f}
  BY DrawKeeps, BlankCall DEF LibraryCalls
<1>2. Library!Send(call) /\ inflight' = inflight \cup {f}
  BY DEF Library!Submit
<1>3. LibraryTypes /\ f \notin inflight /\ PrintsInv
  BY DrawKeeps DEF LibraryInv
<1> HIDE DEF call
<1>4. calls' \subseteq LibraryCalls
  BY <1>1, <1>2, <1>3, SentCall
<1>5. PrintsInv'
  BY <1>1, <1>2, <1>3 DEF PrintsInv, Library!Send
<1> QED
  BY <1>2, <1>3, <1>4, <1>5, DrawKeeps, PolledStay DEF LibraryInv, LibraryTypes

LEMMA PressKeeps == ASSUME LibraryInv, Library!create \/ Library!upscale PROVE LibraryInv'
<1>1. CASE Library!create
  <2>1. PICK f \in Prompts : Library!Submit(f, {})
    BY <1>1 DEF Library!create
  <2>2. f \in Library!Fingerprints /\ {} \in SUBSET Rows
    BY DEF Library!Fingerprints
  <2> QED
    BY <1>1, <2>1, <2>2, SubmitKeeps DEF Library!create, Library!serverVars, Library!listVars,
       Library!pollerVars
<1>2. CASE Library!upscale
  <2>1. PICK r \in Rows : Library!Submit(<<"upscale", r>>, {r})
    BY <1>2 DEF Library!upscale
  <2>2. <<"upscale", r>> \in Library!Fingerprints /\ {r} \in SUBSET Rows
    BY DEF Library!Fingerprints
  <2> QED
    BY <1>2, <2>1, <2>2, SubmitKeeps DEF Library!upscale, Library!serverVars, Library!listVars,
       Library!pollerVars
<1> QED
  BY <1>1, <1>2


(* The server                                                              *)

LEMMA Readable ==
    ASSUME LibraryTypes, NEW S, S \subseteq Library!Present
    PROVE  S \in SUBSET Rows /\ Library!Read(S) \in [S -> RowStatus]
BY DEF LibraryTypes, Listing, Library!Present, Library!Read

(* A request served: only its answer, and what the server keeps, change.   *)
LEMMA AnswerReady ==
    ASSUME LibraryInv, NEW c \in calls, NEW S \in SUBSET Rows, NEW read \in [S -> RowStatus],
           Library!Answering(c, read), server' \in Listing,
           UNCHANGED <<Library!submitVars, Library!pollerVars, Library!listVars>>
    PROVE  LibraryInv'
<1>1. UNCHANGED <<submissionKeys, inflight, nextKey, drawn, accepted, mine, timer, libraryShown,
                  cursor, pageEpoch>>
  BY DEF Library!submitVars, Library!pollerVars, Library!listVars
<1>2. PrintsInv' /\ calls' \subseteq LibraryCalls /\ PolledInv'
  BY <1>1, PrintsServed, PolledStay
<1> QED
  BY <1>1, <1>2, LibraryStep DEF LibraryInv, LibraryTypes

LEMMA ServeKeeps == ASSUME LibraryInv, Library!Serve PROVE LibraryInv'
<1>0. LibraryTypes /\ server \in Listing
  BY DEF LibraryInv, LibraryTypes
<1>1. PICK c \in calls :
        \/ c.kind \in {"load", "more", "fetch", "jobs"} /\ Library!ServeRead(c)
        \/ c.kind \in {"create", "rerun"} /\ Library!ServeSubmission(c)
        \/ c.kind = "remove" /\ Library!ServeRemove(c)
  BY DEF Library!Serve
<1>2. UNCHANGED <<Library!submitVars, Library!pollerVars, Library!listVars>>
  BY DEF Library!Serve
<1>3. CASE c.kind \in {"load", "more", "fetch", "jobs"} /\ Library!ServeRead(c)
  <2>1. \A n : Library!Page(n) \subseteq Library!Present
    BY DEF Library!Page
  <2>2. PICK S : S \subseteq Library!Present /\ Library!Answering(c, Library!Read(S))
    BY <1>3, <2>1 DEF Library!ServeRead
  <2>3. server' = server
    BY <1>3 DEF Library!ServeRead, Library!serverVars
  <2> QED
    BY <1>0, <1>2, <2>2, <2>3, Readable, AnswerReady
<1>4. CASE Library!ServeSubmission(c)
  <2>1. CASE /\ Library!Answering(c, Library!Read(Library!Reserved(c.key) \cap Library!Present))
             /\ server' = server
    <3>1. Library!Reserved(c.key) \cap Library!Present \subseteq Library!Present
      OBVIOUS
    <3> QED
      BY <1>0, <1>2, <2>1, <3>1, Readable, AnswerReady
  <2>2. CASE /\ Library!Free # {}
             /\ server' = [server EXCEPT ![Library!Min(Library!Free)] = "pending"]
             /\ Library!Answering(c, [q \in {Library!Min(Library!Free)} |-> "pending"])
    <3>1. Library!Min(Library!Free) \in Rows
      BY <2>2, LibraryRows, MinIsIn DEF Library!Free
    <3>2. PICK r \in Rows : r = Library!Min(Library!Free)
      BY <3>1
    <3>3. {r} \in SUBSET Rows /\ [q \in {r} |-> "pending"] \in [{r} -> RowStatus]
      BY DEF RowStatus
    <3>4. server' \in Listing
      BY <1>0, <2>2, <3>2 DEF Listing, RowStatus
    <3> QED
      BY <1>2, <2>2, <3>2, <3>3, <3>4, AnswerReady
  <2> QED
    BY <1>4, <2>1, <2>2 DEF Library!ServeSubmission, Library!serverVars
<1>5. CASE Library!ServeRemove(c)
  <2>1. {} \in SUBSET Rows /\ Library!Unread \in [{} -> RowStatus]
    BY DEF Library!Unread
  <2>2. server' \in Listing
    BY <1>0, <1>5 DEF Library!ServeRemove, Listing
  <2> QED
    BY <1>2, <1>5, <2>1, <2>2, AnswerReady DEF Library!ServeRemove
<1> QED
  BY <1>1, <1>3, <1>4, <1>5

(* A job settles, a cancellation lands, or a tick finds nothing to ask.    *)
LEMMA QuietLibrary ==
    ASSUME LibraryInv, server' \in Listing, PolledInv',
           UNCHANGED <<Library!submitVars, Library!listVars, calls>>
    PROVE  LibraryInv'
<1>1. UNCHANGED <<submissionKeys, inflight, nextKey, drawn, accepted, mine, libraryShown, cursor,
                  pageEpoch, calls>>
  BY DEF Library!submitVars, Library!listVars
<1>2. PrintsInv' /\ calls' \subseteq LibraryCalls
  BY <1>1 DEF LibraryInv, LibraryTypes, PrintsInv
<1> QED
  BY <1>1, <1>2, LibraryStep DEF LibraryInv, LibraryTypes

LEMMA SettlingKeeps == ASSUME LibraryInv, Library!cancel \/ Library!Settle PROVE LibraryInv'
<1>1. PICK r \in Rows, end \in {"done", "failed"} : server' = [server EXCEPT ![r] = end]
  BY DEF Library!cancel, Library!Settle, Library!pendingIds
<1>2. server' \in Listing
  BY <1>1 DEF LibraryInv, LibraryTypes, Listing, RowStatus
<1>3. UNCHANGED <<Library!submitVars, Library!listVars, calls, libraryShown, mine, timer>>
  BY DEF Library!cancel, Library!Settle, Library!submitVars, Library!listVars, Library!pollerVars
<1> QED
  BY <1>2, <1>3, PolledStay, QuietLibrary

LEMMA LibraryTickKeeps == ASSUME LibraryInv, Library!tick PROVE LibraryInv'
<1>0. /\ server' = server /\ server \in Listing
      /\ UNCHANGED <<Library!submitVars, Library!listVars, libraryShown, mine>>
      /\ UNCHANGED <<submissionKeys, drawn, accepted, inflight, nextKey, cursor, pageEpoch>>
      /\ nextKey \in Nat /\ pageEpoch \in Nat
  BY DEF Library!tick, Library!serverVars, Library!submitVars, Library!listVars, LibraryInv,
     LibraryTypes
<1>1. CASE Library!pendingIds = {}
  <2>1. \A r \in Rows : libraryShown[r] # "pending"
    BY <1>1 DEF Library!pendingIds
  <2>2. PolledInv'
    BY <1>0, <2>1 DEF PolledInv, LibraryInv, LibraryTypes
  <2> QED
    BY <1>0, <1>1, <2>2, QuietLibrary DEF Library!tick
<1>2. CASE Library!pendingIds # {}
  <2> DEFINE call == [Library!Call("jobs") EXCEPT !.ids = Library!pendingIds]
  <2>1. call \in LibraryCalls /\ call.prints = {} /\ call.kind # "create"
    BY BlankCall DEF LibraryCalls, Library!pendingIds
  <2>2. Library!Send(call) /\ timer' = timer
    BY <1>2 DEF Library!tick
  <2> HIDE DEF call
  <2> QED
    BY <1>0, <2>1, <2>2, SendKeeps
<1> QED
  BY <1>1, <1>2


(* Answers                                                                 *)

LEMMA CursorTyped ==
    ASSUME LibraryTypes, NEW c \in calls
    PROVE  Library!nextCursor(c.read) \in Nat
<1>1. DOMAIN c.read \in SUBSET Nat
  BY LibraryFields, LibraryRows
<1>2. DOMAIN c.read # {} => Library!Min(DOMAIN c.read) \in Nat
  BY <1>1, MinIsIn
<1> QED
  BY <1>2 DEF Library!nextCursor

LEMMA WithTyped ==
    ASSUME LibraryTypes, NEW c \in calls, NEW S, S \subseteq DOMAIN c.read
    PROVE  /\ Library!With(S, c.read) \in Listing
           /\ \A r \in S : Library!With(S, c.read)[r] \in RowStatus
           /\ \A r \in Rows \ S : Library!With(S, c.read)[r] = libraryShown[r]
BY LibraryFields DEF LibraryTypes, Listing, Library!With

(* An answer that is not of a submission of the composer.                  *)
LEMMA AnswerStep ==
    ASSUME LibraryInv, NEW c \in calls, Library!Done(c), PolledInv',
           UNCHANGED <<server, submissionKeys, drawn, accepted, nextKey, pageEpoch>>,
           inflight \ c.prints \subseteq inflight', inflight' \subseteq inflight,
           libraryShown' \in Listing, cursor' \in Nat, mine' \subseteq Rows
    PROVE  LibraryInv'
<1>1. PrintsInv' /\ calls' \subseteq LibraryCalls
  BY PrintsAnswered
<1> QED
  BY <1>1, LibraryStep DEF LibraryInv, LibraryTypes

LEMMA ReadsKeep ==
    ASSUME LibraryInv, NEW c \in calls, Library!Done(c), server' = server,
           \/ Library!LoadAnswered(c)
           \/ Library!MoreAnswered(c)
           \/ Library!FetchAnswered(c)
           \/ Library!JobsAnswered(c)
    PROVE  LibraryInv'
<1>0. /\ LibraryTypes /\ PolledInv /\ libraryShown \in Listing /\ cursor \in Nat /\ mine \subseteq Rows
      /\ Library!loaded(c) = DOMAIN c.read
  BY DEF LibraryInv, LibraryTypes, Library!loaded
<1>1. CASE Library!LoadAnswered(c)
  <2>1. libraryShown' \in Listing /\ cursor' \in Nat /\ mine' \subseteq Rows
    BY <1>0, <1>1, LibraryFields, CursorTyped DEF Library!LoadAnswered, Listing, Library!watch
  <2>2. PolledInv'
    BY <1>0, <1>1 DEF Library!LoadAnswered, PolledInv, Library!watch
  <2> QED
    BY <1>1, <2>1, <2>2, AnswerStep DEF Library!LoadAnswered
<1>2. CASE Library!MoreAnswered(c)
  <2> DEFINE S == {r \in DOMAIN c.read : libraryShown[r] = Library!Absent}
  <2>1. \/ libraryShown' = Library!With(S, c.read) /\ cursor' = Library!nextCursor(c.read)
        \/ libraryShown' = libraryShown /\ cursor' = cursor
    BY <1>0, <1>2 DEF Library!MoreAnswered
  <2>2. mine' = mine /\ timer' = timer
    BY <1>2 DEF Library!MoreAnswered, Library!submitVars, Library!pollerVars
  <2>3. \A r \in mine : libraryShown'[r] = libraryShown[r]
    <3> TAKE r \in mine
    <3>1. r \in Rows \ S /\ S \subseteq DOMAIN c.read
      BY <1>0 DEF PolledInv
    <3>2. Library!With(S, c.read)[r] = libraryShown[r]
      BY <1>0, <3>1, WithTyped
    <3> QED
      BY <2>1, <3>2
  <2>4. PolledInv'
    BY <1>0, <2>2, <2>3 DEF PolledInv
  <2>5. libraryShown' \in Listing /\ cursor' \in Nat
    BY <1>0, <2>1, WithTyped, CursorTyped
  <2> QED
    BY <1>0, <1>2, <2>2, <2>4, <2>5, AnswerStep DEF Library!MoreAnswered, Library!submitVars
<1>3. CASE Library!FetchAnswered(c)
  <2>1. libraryShown' = Library!With(DOMAIN c.read, c.read) /\ mine' = mine \ DOMAIN c.read
        /\ timer' = timer /\ cursor' = cursor
    BY <1>0, <1>3 DEF Library!FetchAnswered, Library!pollerVars
  <2>2. libraryShown' \in Listing /\ \A r \in mine' : libraryShown'[r] = libraryShown[r]
    BY <1>0, <2>1, WithTyped
  <2>3. PolledInv'
    BY <1>0, <2>1, <2>2 DEF PolledInv
  <2> QED
    BY <1>0, <1>3, <2>1, <2>2, <2>3, AnswerStep DEF Library!FetchAnswered
<1>4. CASE Library!JobsAnswered(c)
  <2> DEFINE S == {r \in DOMAIN c.read : libraryShown[r] # Library!Absent}
  <2>1. /\ libraryShown' = Library!With(S, c.read) /\ cursor' = cursor /\ mine' = mine
        /\ timer' = (\E r \in Rows : libraryShown'[r] = "pending")
    BY <1>0, <1>4 DEF Library!JobsAnswered, Library!reschedule, Library!submitVars
  <2>2. libraryShown' \in Listing
    BY <1>0, <2>1, WithTyped
  <2>3. \A r \in mine : libraryShown'[r] # Library!Absent
    <3> TAKE r \in mine
    <3>1. r \in S => libraryShown'[r] \in RowStatus
      BY <1>0, <2>1, WithTyped
    <3>2. r \notin S => libraryShown'[r] = libraryShown[r]
      BY <1>0, <2>1, WithTyped
    <3> QED
      BY <1>0, <3>1, <3>2 DEF PolledInv, RowStatus, Library!Absent
  <2>4. PolledInv'
    BY <1>0, <2>1, <2>3 DEF PolledInv
  <2> QED
    BY <1>0, <1>4, <2>1, <2>2, <2>4, AnswerStep DEF Library!JobsAnswered, Library!submitVars
<1> QED
  BY <1>1, <1>2, <1>3, <1>4

(* An accepted submission lists its rows, and the poller is set.           *)
LEMMA ListedPolled ==
    ASSUME LibraryInv, NEW c \in calls, timer' = TRUE, mine' = mine \cup DOMAIN c.read,
           libraryShown' = Library!With(DOMAIN c.read, c.read)
    PROVE  PolledInv' /\ libraryShown' \in Listing /\ mine' \subseteq Rows
<1>0. LibraryTypes /\ PolledInv /\ mine \subseteq Rows /\ DOMAIN c.read \subseteq Rows
  BY LibraryFields DEF LibraryInv, LibraryTypes
<1>1. \A r \in DOMAIN c.read : libraryShown'[r] \in RowStatus
  BY <1>0, WithTyped
<1>2. \A r \in Rows \ DOMAIN c.read : libraryShown'[r] = libraryShown[r]
  BY <1>0, WithTyped
<1>3. \A r \in mine' : libraryShown'[r] # Library!Absent
  BY <1>0, <1>1, <1>2 DEF PolledInv, RowStatus, Library!Absent
<1> QED
  BY <1>0, <1>3, WithTyped DEF PolledInv

LEMMA WritesKeep ==
    ASSUME LibraryInv, NEW c \in calls, Library!Done(c), server' = server,
           Library!RerunAnswered(c) \/ Library!RemoveAnswered(c)
    PROVE  LibraryInv'
<1>0. /\ LibraryTypes /\ PolledInv /\ libraryShown \in Listing /\ cursor \in Nat /\ mine \subseteq Rows
      /\ Library!loaded(c) = DOMAIN c.read
  BY DEF LibraryInv, LibraryTypes, Library!loaded
<1>1. CASE Library!RerunAnswered(c)
  <2>1. PolledInv' /\ libraryShown' \in Listing /\ mine' \subseteq Rows
    BY <1>0, <1>1, ListedPolled DEF Library!RerunAnswered, Library!watch
  <2> QED
    BY <1>0, <1>1, <2>1, AnswerStep DEF Library!RerunAnswered
<1>2. CASE Library!RemoveAnswered(c)
  <2>1. libraryShown' = [libraryShown EXCEPT ![c.row] = Library!Absent] /\ mine' = mine \ {c.row}
        /\ timer' = timer /\ cursor' = cursor
    BY <1>2 DEF Library!RemoveAnswered, Library!pollerVars
  <2>2. libraryShown' \in Listing /\ PolledInv'
    BY <1>0, <2>1 DEF Listing, PolledInv
  <2> QED
    BY <1>0, <1>2, <2>1, <2>2, AnswerStep DEF Library!RemoveAnswered
<1> QED
  BY <1>1, <1>2

(* An answer spends the key of its request: what was drawn for it and what *)
(* was answered agree again.                                               *)
LEMMA CreateAnsweredKeeps ==
    ASSUME LibraryInv, NEW c \in calls, Library!Done(c), server' = server, c.kind = "create",
           Library!CreateAnswered(c)
    PROVE  LibraryInv'
<1>0. /\ LibraryTypes /\ PrintsInv /\ inflight \subseteq Library!Fingerprints
      /\ submissionKeys \in [Library!Fingerprints -> Nat]
      /\ accepted \in [Library!Fingerprints -> Nat]
      /\ Library!loaded(c) = DOMAIN c.read
  BY DEF LibraryInv, LibraryTypes, Library!loaded
<1>1. PICK f \in Library!Fingerprints : c.prints = {f} /\ f \in inflight
  BY <1>0 DEF PrintsInv
<1>2. /\ submissionKeys' =
           [g \in Library!Fingerprints |-> IF g = f THEN Library!NoKey ELSE submissionKeys[g]]
      /\ accepted' =
           [g \in Library!Fingerprints |-> IF g = f THEN accepted[g] + 1 ELSE accepted[g]]
      /\ inflight' = inflight \ {f}
      /\ UNCHANGED <<nextKey, drawn, cursor, pageEpoch>>
  BY <1>1 DEF Library!CreateAnswered
<1>3. ASSUME NEW g \in Library!Fingerprints PROVE KeysOf(g)'
  <2>1. DrawnFor(g)' = DrawnFor(g) /\ KeysOf(g) /\ KeysOf(f)
    BY <1>2 DEF DrawnFor, LibraryInv
  <2>2. CASE g = f
    <3>1. submissionKeys'[g] = Library!NoKey /\ accepted'[g] = accepted[g] + 1 /\ g \notin inflight'
      BY <1>2, <2>2
    <3>2. Cardinality(DrawnFor(g)) = accepted[g] + 1
      BY <1>1, <2>1, <2>2 DEF KeysOf
    <3> QED
      BY <1>0, <1>2, <2>1, <3>1, <3>2 DEF KeysOf
  <2>3. CASE g # f
    <3>1. submissionKeys'[g] = submissionKeys[g] /\ accepted'[g] = accepted[g]
          /\ (g \in inflight' => g \in inflight)
      BY <1>2, <2>3
    <3> QED
      BY <1>2, <2>1, <3>1 DEF KeysOf
  <2> QED
    BY <2>2, <2>3
<1>4. /\ submissionKeys' \in [Library!Fingerprints -> Nat]
      /\ accepted' \in [Library!Fingerprints -> Nat]
  BY <1>0, <1>2 DEF Library!NoKey
<1>5. PolledInv' /\ libraryShown' \in Listing /\ mine' \subseteq Rows
  BY <1>0, ListedPolled DEF Library!CreateAnswered, Library!watch
<1>6. PrintsInv' /\ calls' \subseteq LibraryCalls
  BY <1>1, <1>2, PrintsAnswered
<1> QED
  BY <1>0, <1>2, <1>3, <1>4, <1>5, <1>6 DEF LibraryInv, LibraryTypes

LEMMA LibraryFailKeeps == ASSUME LibraryInv, Library!Fail PROVE LibraryInv'
<1>0. LibraryTypes /\ PolledInv /\ mine \subseteq Rows
  BY DEF LibraryInv, LibraryTypes
<1>1. PICK c \in calls :
        /\ Library!Done(c) /\ inflight' = inflight \ c.prints
        /\ \/ timer' = TRUE
           \/ timer' = (\E r \in Rows : libraryShown[r] = "pending")
           \/ timer' = timer
  BY DEF Library!Fail, Library!watch, Library!reschedule
<1>2. UNCHANGED <<server, libraryShown, cursor, pageEpoch, submissionKeys, nextKey, drawn, accepted,
                  mine>>
  BY DEF Library!Fail, Library!serverVars
<1>3. ASSUME NEW r \in mine, libraryShown[r] = "pending" PROVE timer'
  <2>1. timer /\ r \in Rows
    BY <1>0, <1>3 DEF PolledInv
  <2> QED
    BY <1>1, <1>3, <2>1
<1>4. PolledInv'
  BY <1>0, <1>2, <1>3 DEF PolledInv
<1> QED
  BY <1>0, <1>1, <1>2, <1>4, AnswerStep DEF LibraryTypes, LibraryInv

LEMMA LibraryAnswerKeeps == ASSUME LibraryInv, Library!Answer PROVE LibraryInv'
<1>1. PICK c \in calls :
        /\ Library!Done(c)
        /\ \/ Library!LoadAnswered(c)
           \/ Library!MoreAnswered(c)
           \/ Library!FetchAnswered(c)
           \/ c.kind = "create" /\ Library!CreateAnswered(c)
           \/ Library!RerunAnswered(c)
           \/ Library!RemoveAnswered(c)
           \/ Library!JobsAnswered(c)
  BY DEF Library!Answer
<1>2. server' = server
  BY DEF Library!Answer, Library!serverVars
<1> QED
  BY <1>1, <1>2, ReadsKeep, WritesKeep, CreateAnsweredKeeps

LEMMA LibraryMoves ==
    ASSUME LibraryInv, [Library!Next]_(Library!libraryVars)
    PROVE  LibraryInv'
<1>1. CASE UNCHANGED Library!libraryVars
  <2>1. UNCHANGED <<Library!submitVars, Library!listVars, calls, server, libraryShown, mine, timer>>
    BY <1>1 DEF Library!libraryVars, Library!submitVars, Library!listVars
  <2> QED
    BY <2>1, PolledStay, QuietLibrary DEF LibraryInv, LibraryTypes
<1> QED
  BY <1>1, RequestKeeps, PressKeeps, SettlingKeeps, ServeKeeps, LibraryAnswerKeeps,
     LibraryFailKeeps, LibraryTickKeeps DEF Library!Next

LEMMA LibraryStarts == Library!Init => LibraryInv
<1> SUFFICES ASSUME Library!Init PROVE LibraryInv
  OBVIOUS
<1>1. LibraryTypes
  <2>1. server \in Listing
    BY DEF Library!Init, Listing, RowStatus, Library!Absent
  <2>2. libraryShown \in Listing
    BY DEF Library!Init, Listing
  <2> QED
    BY <2>1, <2>2 DEF Library!Init, LibraryTypes, Library!NoKey
<1>2. ASSUME NEW f \in Library!Fingerprints PROVE KeysOf(f)
  <2>1. DrawnFor(f) = {} /\ submissionKeys[f] = Library!NoKey /\ accepted[f] = 0 /\ f \notin inflight
    BY DEF DrawnFor, Library!Init
  <2> QED
    BY <2>1, FS_EmptySet DEF KeysOf
<1> QED
  BY <1>1, <1>2 DEF Library!Init, LibraryInv, PrintsInv, PolledInv, Library!NoKey

LEMMA LibraryInvariant == Library!Spec => []LibraryInv
<1>1. LibraryInv /\ [Library!Next]_(Library!libraryVars) => LibraryInv'
  BY LibraryMoves
<1> QED
  BY <1>1, LibraryStarts, PTL DEF Library!Spec

(* A press repeated after a lost answer is charged once: at most one row   *)
(* more is reserved for a request than submissions of it were answered.    *)
THEOREM LibraryChargesOnce == Library!Spec => []Library!OneChargePerAnswer
<1>1. LibraryInv => Library!OneChargePerAnswer
  <2> SUFFICES ASSUME LibraryInv, NEW f \in Library!Fingerprints
               PROVE  Cardinality(Library!ReservedFor(f)) <= accepted[f] + 1
    BY LibraryCardinality DEF Library!OneChargePerAnswer
  <2>1. KeysOf(f) /\ nextKey \in Nat /\ accepted[f] \in Nat /\ DrawnFor(f) \subseteq Nat
    BY DEF LibraryInv, LibraryTypes, DrawnFor
  <2>2. IsFiniteSet(DrawnFor(f))
    <3>1. \A k \in DrawnFor(f) : k <= nextKey
      BY <2>1 DEF KeysOf
    <3> QED
      BY <2>1, <3>1, FS_BoundedSetOfNaturals
  <2>3. Library!ReservedFor(f) \subseteq DrawnFor(f)
    BY DEF Library!ReservedFor, DrawnFor
  <2>4. /\ Cardinality(Library!ReservedFor(f)) <= Cardinality(DrawnFor(f))
        /\ Cardinality(Library!ReservedFor(f)) \in Nat
    BY <2>2, <2>3, FS_Subset, FS_CardinalityType
  <2> QED
    BY <2>1, <2>4 DEF KeysOf
<1> QED
  BY <1>1, LibraryInvariant, PTL

(* A row a submission listed is polled for as long as it is pending there. *)
THEOREM LibraryPolls == Library!Spec => []Library!PendingIsPolled
<1>1. LibraryInv => Library!PendingIsPolled
  BY DEF LibraryInv, PolledInv, Library!PendingIsPolled
<1> QED
  BY <1>1, LibraryInvariant, PTL

-----------------------------------------------------------------------------
(* The plan a customer pays for                                            *)

(* What the state consists of.                                             *)
Statuses == {"none", "active", "past_due", "unpaid", "ended"}
Subscriptions ==
    [of : Customers \cup {Nobody}, plan : Plan!Plans, status : Statuses,
     ending : BOOLEAN, booked : Plan!Plans \cup {"none"}]
PlanRows ==
    [plan : Plan!Plans \cup {"none"},
     status : {"none", "active", "canceled", "expired"},
     stripe : Subs \cup {Nobody}, apple : BOOLEAN, pending : Plan!Plans \cup {"none"}]
Events == [sub : Subs, type : {"changed", "paid", "checkout"}]
Tabs ==
    [at : {"idle", "list", "release", "update", "mirror", "book", "phases",
           "promise", "end", "record"},
     kind : {"none", "subscribe", "change", "cancel", "resume", "close"},
     plan : Plan!Plans \cup {"none"}, when : {"none", "now", "period_end"},
     customer : Customers \cup {Nobody}, sub : Subs \cup {Nobody}, left : SUBSET Subs]
Hooks ==
    [at : {"idle", "read", "write"}, sub : Subs \cup {Nobody},
     type : {"none", "changed", "paid", "checkout"}, saw : Subscriptions, clear : BOOLEAN]

PlanTypes ==
    /\ customer \in Customers \cup {Nobody}
    /\ subs \in [Subs -> Subscriptions]
    /\ sessions \subseteq [of : Customers, plan : Plan!Plans, coupon : BOOLEAN]
    /\ row \in PlanRows
    /\ paying \subseteq [rail : {"stripe", "apple"}, end : Nat, last : BOOLEAN]
    /\ due \subseteq Events
    /\ tab \in Tabs
    /\ hook \in Hooks
    /\ hook.at # "idle" => [sub |-> hook.sub, type |-> hook.type] \in Events
    /\ coupons \in {0, 1}
    /\ closed \in BOOLEAN
    /\ turns \in Nat

Bills(s) == Plan!Live(subs[s]) \/ subs[s].status = "unpaid"

(* Everything that bills or may bill is this customer's.                   *)
OwnersFit ==
    /\ \A s \in Subs : subs[s].of \in {customer, Nobody}
    /\ \A s \in Subs : subs[s].of = Nobody <=> subs[s].status = "none"
    /\ \A open \in sessions : open.of = customer

Routed == {"release", "update", "mirror", "book", "phases", "promise"}

(* What a request carries at each of its steps.                            *)
TabFits ==
    /\ tab.at # "idle" => ~closed
    /\ tab.at = "list" => tab.customer = customer /\ customer # Nobody
    /\ tab.at = "list" /\ tab.kind \in {"subscribe", "change"} => tab.plan \in Plan!Plans
    /\ tab.at \in Routed => /\ tab.sub \in Subs
                            /\ tab.kind \in {"change", "cancel", "resume"}
                            /\ tab.kind = "change" => tab.plan \in Plan!Plans
                            /\ \A s \in Subs : Bills(s) => s = tab.sub
    /\ tab.at = "release" => tab.kind # "resume"
    /\ tab.at \in {"book", "phases", "promise"} => tab.kind = "change"
    /\ tab.at \in {"end", "record"} => tab.kind = "close"

(* Who is billed: one subscription, of an account that is open, and none   *)
(* where a checkout is.                                                    *)
OneBills ==
    /\ \A s, t \in Subs : Bills(s) /\ Bills(t) => s = t
    /\ sessions # {} => \A s \in Subs : ~Bills(s)
    /\ closed => sessions = {} /\ \A s \in Subs : ~Bills(s)
    /\ tab.at = "end" => \A s \in Subs : Bills(s) => s \in tab.left
    /\ tab.at = "end" => \A s, t \in tab.left : s = t
    /\ tab.at = "end" => \A s \in tab.left : subs[s].of # Nobody
    /\ tab.at = "record" => \A s \in Subs : ~Bills(s)

(* The launch offer is given with the first subscription.                  *)
OfferFits ==
    /\ (\A s \in Subs : subs[s].of = Nobody) => coupons = 0
    /\ \A open \in sessions : open.coupon => \A s \in Subs : subs[s].of = Nobody

(* A schedule is of a subscription that renews.                            *)
BookingFits ==
    \A s \in Subs : subs[s].booked # "none" => Plan!Live(subs[s]) /\ ~subs[s].ending

Awaited(s) == \E e \in due : e.sub = s

(* Between two answers the webhook either has what Stripe shows or another *)
(* event to read.                                                          *)
NewsIsOfTheLive ==
    \A s \in Subs : Plan!Live(subs[s]) =>
        /\ \A e \in due : e.sub = s
        /\ hook.at # "idle" =>
             /\ hook.sub = s
             /\ Awaited(s) \/ (Plan!Live(hook.saw) /\ hook.saw.ending = subs[s].ending)

RowShows(s) ==
    /\ row.plan \in Plan!Plans
    /\ row.status \in {"active", "canceled"}
    /\ row.stripe # Nobody
    /\ ~Plan!managedInAppStore => (row.status = "canceled" <=> subs[s].ending)

RowIsTrue ==
    \A s \in Subs : Plan!Live(subs[s]) /\ hook.at = "idle" /\ ~Awaited(s) => RowShows(s)

MirrorFits ==
    tab.at = "mirror" /\ Plan!Live(subs[tab.sub]) =>
        (tab.kind = "cancel" <=> subs[tab.sub].ending)

GrantsFit == \A g \in paying : g.end <= turns

BillsInv ==
    /\ PlanTypes /\ OwnersFit /\ TabFits /\ OneBills /\ OfferFits /\ BookingFits
    /\ NewsIsOfTheLive /\ RowIsTrue /\ MirrorFits /\ GrantsFit

Booked(s) == subs[s].booked = row.pending /\ ~(tab.at = "phases" /\ tab.sub = s)

Arriving(s) ==
    /\ subs[s].plan = row.pending
    /\ \/ [sub |-> s, type |-> "changed"] \in due
       \/ /\ hook.at = "read" \/ (hook.at = "write" /\ hook.clear)
          /\ hook.sub = s /\ hook.type = "changed" /\ hook.saw.plan = row.pending

BeingDropped ==
    /\ tab.kind \in {"change", "cancel"}
    /\ \/ tab.at = "mirror"
       \/ tab.at = "update" /\ Plan!Live(subs[tab.sub]) /\ ~subs[tab.sub].ending

Closing == closed \/ tab.at \in {"end", "record"}

PendingKept ==
    row.pending # "none" =>
        /\ row.status # "none"
        /\ (\E s \in Subs : Booked(s) \/ Arriving(s)) \/ BeingDropped \/ Closing

(* What is booked is what was announced, once the request has said so.     *)
BookedIsPending ==
    \A s \in Subs : subs[s].booked # "none" /\ tab.at \notin {"phases", "promise"} =>
        row.pending \in {"none", subs[s].booked}

(* What a request has already booked or released with Stripe.              *)
StepsBooked ==
    /\ tab.at = "update" => subs[tab.sub].booked = "none"
    /\ tab.at = "phases" => Plan!Live(subs[tab.sub]) /\ subs[tab.sub].booked # "none"
    /\ tab.at = "promise" => subs[tab.sub].booked = tab.plan

PendingInv == PendingKept /\ BookedIsPending /\ StepsBooked


-----------------------------------------------------------------------------
(* What the steps have in common.                                          *)

LEMMA PlanNobody == Nobody \notin Customers /\ Nobody \notin Subs
BY PlanFit DEF Plan!ConstantsFit

LEMMA NoneTyped == Plan!None \in Subscriptions
BY DEF Plan!None, Subscriptions, Plan!Plans, Statuses

LEMMA NoTabTyped == Plan!NoTab \in Tabs /\ Plan!NoTab.at = "idle"
BY DEF Plan!NoTab, Tabs

LEMMA NoHookTyped == Plan!NoHook \in Hooks /\ Plan!NoHook.at = "idle"
BY NoneTyped DEF Plan!NoHook, Hooks

(* Which rail pays is read off the row and the grants alone.               *)
LEMMA RailSame ==
    ASSUME row' = row, paying' = paying
    PROVE Plan!managedInAppStore' = Plan!managedInAppStore
BY DEF Plan!managedInAppStore, Plan!subscriptionSource, Plan!railOf,
       Plan!currentGrantRail, Plan!Latest

LEMMA RowShowsSame ==
    ASSUME NEW s \in Subs, row' = row, paying' = paying,
           subs'[s].ending = subs[s].ending, RowShows(s)
    PROVE RowShows(s)'
BY RailSame DEF RowShows

(* A change of a subscription that does not begin to bill: it is announced *)
(* and so the row may lag.                                                 *)
LEMMA SubBecomes ==
    ASSUME BillsInv, NEW s \in Subs, NEW sub \in Subscriptions,
           NEW types \in SUBSET {"changed", "paid"}, types # {},
           Plan!Becomes(s, sub, types),
           sub.of = subs[s].of, subs[s].status # "none", sub.status # "none",
           Plan!Live(sub) => Plan!Live(subs[s]),
           sub.status = "unpaid" => Bills(s),
           \A t \in Subs : Plan!Live(subs[t]) => t = s,
           sub.booked # "none" => Plan!Live(sub) /\ ~sub.ending,
           customer' = customer, sessions' = sessions, row' = row, paying' = paying,
           hook' = hook, coupons' = coupons, turns' \in {turns, turns + 1}
    PROVE /\ subs' \in [Subs -> Subscriptions] /\ due' \subseteq Events
          /\ OwnersFit' /\ OfferFits' /\ BookingFits' /\ NewsIsOfTheLive'
          /\ RowIsTrue' /\ GrantsFit' /\ turns' \in Nat
          /\ \A t \in Subs : Bills(t)' => Bills(t)
          /\ \A t \in Subs : Plan!Live(subs'[t]) => Plan!Live(subs[t])
          /\ \A t \in Subs : subs'[t].of = subs[t].of
<1> USE DEF BillsInv
<1>1. /\ subs' = [subs EXCEPT ![s] = sub]
      /\ due' = due \cup {[sub |-> s, type |-> type] : type \in types}
  BY DEF Plan!Becomes
<1>2. subs \in [Subs -> Subscriptions]
  BY DEF PlanTypes
<1>3. subs' \in [Subs -> Subscriptions] /\ \A t \in Subs : subs'[t] = IF t = s THEN sub ELSE subs[t]
  BY <1>1, <1>2
<1>4. due' \subseteq Events
  BY <1>1 DEF PlanTypes, Events
<1>5. \A t \in Subs : Plan!Live(subs'[t]) => t = s /\ Plan!Live(subs[t])
  BY <1>3
<1>6. \A t \in Subs : Bills(t)' => Bills(t)
  BY <1>3, <1>5 DEF Bills
<1>7. OwnersFit'
  BY <1>3 DEF OwnersFit
<1>8. OfferFits'
  <2>1. \A t \in Subs : subs'[t].of = subs[t].of
    BY <1>3
  <2> QED
    BY <2>1 DEF OfferFits
<1>9. BookingFits'
  BY <1>3 DEF BookingFits
<1>14. \A t \in Subs : subs'[t].of = subs[t].of
  BY <1>3
<1>10. Awaited(s)'
  <2>1. PICK type \in types : TRUE
    OBVIOUS
  <2>2. [sub |-> s, type |-> type] \in due'
    BY <1>1, <2>1
  <2> QED
    BY <2>2 DEF Awaited
<1>11. NewsIsOfTheLive'
  <2> SUFFICES ASSUME NEW t \in Subs, Plan!Live(subs'[t])
               PROVE /\ \A e \in due' : e.sub = t
                     /\ hook'.at # "idle" => hook'.sub = t /\ Awaited(t)'
    BY DEF NewsIsOfTheLive
  <2>1. t = s /\ Plan!Live(subs[s])
    BY <1>5
  <2>2. \A e \in due : e.sub = s
    BY <2>1 DEF NewsIsOfTheLive
  <2>3. \A e \in due' : e.sub = s
    BY <1>1, <2>2
  <2> QED
    BY <2>1, <2>3, <1>10 DEF NewsIsOfTheLive
<1>12. RowIsTrue'
  BY <1>5, <1>10 DEF RowIsTrue
<1>13. GrantsFit' /\ turns' \in Nat
  BY DEF GrantsFit, PlanTypes
<1> QED
  BY <1>3, <1>4, <1>5, <1>6, <1>7, <1>8, <1>9, <1>11, <1>12, <1>13, <1>14

(* Where Stripe and the webhook stand still, so does what they relate.     *)
LEMMA StripeStays ==
    ASSUME BillsInv, subs' = subs, due' = due, row' = row, paying' = paying,
           hook' = hook, turns' = turns
    PROVE /\ BookingFits' /\ NewsIsOfTheLive' /\ RowIsTrue' /\ GrantsFit'
          /\ \A t \in Subs : Bills(t)' => Bills(t)
<1> USE DEF BillsInv
<1>1. BookingFits' /\ NewsIsOfTheLive' /\ GrantsFit' /\ \A t \in Subs : Bills(t)' => Bills(t)
  BY DEF BookingFits, NewsIsOfTheLive, GrantsFit, Bills, Awaited
<1>2. RowIsTrue'
  BY RowShowsSame DEF RowIsTrue, Awaited
<1> QED
  BY <1>1, <1>2

LEMMA OwnersStay ==
    ASSUME BillsInv, subs' = subs, sessions' = sessions, customer' = customer,
           coupons' = coupons
    PROVE OwnersFit' /\ OfferFits'
BY DEF BillsInv, OwnersFit, OfferFits

(* A step the request has no part in.                                      *)
LEMMA TabStays ==
    ASSUME BillsInv, tab' = tab, closed' = closed, customer' = customer,
           sessions' = sessions, \A t \in Subs : Bills(t)' => Bills(t),
           \A t \in Subs : subs'[t].of = subs[t].of
    PROVE TabFits' /\ OneBills'
<1>1. TabFits'
  BY DEF BillsInv, TabFits
<1>2. OneBills'
  <2>1. tab.left \subseteq Subs
    BY DEF BillsInv, PlanTypes, Tabs
  <2> QED
    BY <2>1 DEF BillsInv, OneBills
<1> QED
  BY <1>1, <1>2

(* The request is answered.                                                *)
LEMMA TabAnswered ==
    ASSUME BillsInv, tab' = Plan!NoTab, closed' = closed,
           sessions' = sessions, \A t \in Subs : Bills(t)' => Bills(t)
    PROVE tab' \in Tabs /\ TabFits' /\ OneBills' /\ MirrorFits'
<1>1. tab'.at = "idle" /\ tab' \in Tabs
  BY NoTabTyped
<1>2. TabFits'
  BY <1>1 DEF TabFits, Routed
<1>3. OneBills'
  BY <1>1 DEF BillsInv, OneBills
<1>4. MirrorFits'
  BY <1>1 DEF MirrorFits
<1> QED
  BY <1>1, <1>2, <1>3, <1>4

(* A request that goes on to a step at Stripe.                             *)
LEMMA TabGoesOn ==
    ASSUME BillsInv, tab.at \in Routed, ~closed, NEW at \in Routed,
           tab' = [tab EXCEPT !.at = at],
           at = "release" => tab.kind # "resume",
           at \in {"book", "phases", "promise"} => tab.kind = "change",
           closed' = closed, sessions' = sessions,
           \A t \in Subs : Bills(t)' => Bills(t)
    PROVE tab' \in Tabs /\ TabFits' /\ OneBills'
<1> USE DEF BillsInv
<1>1. tab \in Tabs
  BY DEF PlanTypes
<1>2. /\ tab' \in Tabs /\ tab'.at = at /\ tab'.sub = tab.sub /\ tab'.kind = tab.kind
      /\ tab'.plan = tab.plan
  BY <1>1 DEF Tabs, Routed
<1>3. TabFits'
  <2>1. /\ tab.sub \in Subs /\ tab.kind \in {"change", "cancel", "resume"}
        /\ tab.kind = "change" => tab.plan \in Plan!Plans
        /\ \A s \in Subs : Bills(s) => s = tab.sub
    BY DEF TabFits
  <2>2. at \notin {"list", "end", "record"}
    BY DEF Routed
  <2> QED
    BY <1>2, <2>1, <2>2 DEF TabFits
<1>4. OneBills'
  BY <1>2 DEF OneBills, Routed
<1> QED
  BY <1>2, <1>3, <1>4

-----------------------------------------------------------------------------
(* BillsInv, action by action.                                             *)

LEMMA BillsInit == Plan!Init => BillsInv
<1> SUFFICES ASSUME Plan!Init PROVE BillsInv
  OBVIOUS
<1> DEFINE fresh == [plan |-> "none", status |-> IF apple = "lapsed" THEN "expired" ELSE "none",
                     stripe |-> Nobody, apple |-> apple = "lapsed", pending |-> "none"]
<1>0. fresh \in PlanRows
  BY DEF PlanRows, Plan!Plans
<1> HIDE DEF fresh
<1>1. /\ sessions = {} /\ due = {} /\ tab = Plan!NoTab /\ hook = Plan!NoHook
      /\ closed = FALSE /\ turns = 0
  BY DEF Plan!Init
<1>2. tab \in Tabs /\ tab.at = "idle" /\ hook \in Hooks /\ hook.at = "idle"
  BY <1>1, NoTabTyped, NoHookTyped
<1>3. CASE /\ customer = Nobody /\ row = fresh /\ paying = {} /\ coupons = 0
           /\ subs = [s \in Subs |-> Plan!None]
  <2>1. PlanTypes
    BY <1>0, <1>1, <1>2, <1>3, NoneTyped DEF PlanTypes
  <2>2. \A s \in Subs : subs[s].of = Nobody /\ subs[s].status = "none" /\ subs[s].booked = "none"
    BY <1>3 DEF Plan!None
  <2>3. \A s \in Subs : ~Bills(s) /\ ~Plan!Live(subs[s])
    BY <2>2 DEF Bills, Plan!Live
  <2>4. OwnersFit /\ OneBills /\ OfferFits /\ BookingFits /\ NewsIsOfTheLive /\ RowIsTrue
    BY <1>1, <1>2, <1>3, <2>2, <2>3
    DEF OwnersFit, OneBills, OfferFits, BookingFits, NewsIsOfTheLive, RowIsTrue
  <2>5. TabFits /\ MirrorFits /\ GrantsFit
    BY <1>2, <1>3 DEF TabFits, Routed, MirrorFits, GrantsFit
  <2> QED
    BY <2>1, <2>4, <2>5 DEF BillsInv
<1>4. ASSUME NEW c \in Customers, NEW s \in Subs, NEW bought \in Plan!Plans,
             customer = c,
             row = [fresh EXCEPT !.plan = bought, !.status = "active", !.stripe = s],
             paying = {[rail |-> "stripe", end |-> 0, last |-> TRUE]},
             coupons = IF apple = "lapsed" THEN 0 ELSE 1,
             subs = [[new \in Subs |-> Plan!None] EXCEPT ![s] =
                       [Plan!None EXCEPT !.of = c, !.plan = bought, !.status = "active"]]
      PROVE BillsInv
  <2> DEFINE sub == [Plan!None EXCEPT !.of = c, !.plan = bought, !.status = "active"]
  <2>1. /\ sub \in Subscriptions
        /\ sub.of = c /\ sub.status = "active" /\ sub.ending = FALSE /\ sub.booked = "none"
    <3>1. sub \in Subscriptions
      BY NoneTyped DEF Subscriptions, Statuses
    <3>2. sub.of = c /\ sub.status = "active" /\ sub.ending = FALSE /\ sub.booked = "none"
      BY DEF Plan!None
    <3> QED
      BY <3>1, <3>2
  <2> HIDE DEF sub
  <2>2. row \in PlanRows /\ row.plan = bought /\ row.status = "active" /\ row.stripe = s
    BY <1>0, <1>4 DEF PlanRows
  <2>3. subs \in [Subs -> Subscriptions]
    BY <1>4, <2>1, NoneTyped DEF sub
  <2>4. /\ subs[s] = sub
        /\ \A t \in Subs : t # s => subs[t] = Plan!None
    BY <1>4 DEF sub
  <2>5. PlanTypes
    <3>1. paying \subseteq [rail : {"stripe", "apple"}, end : Nat, last : BOOLEAN]
      BY <1>4
    <3>2. coupons \in {0, 1} /\ customer \in Customers \cup {Nobody}
      BY <1>4
    <3>3. sessions = {} /\ due = {} /\ closed \in BOOLEAN /\ turns \in Nat
      BY <1>1
    <3> QED
      BY <1>2, <2>2, <2>3, <3>1, <3>2, <3>3 DEF PlanTypes
  <2>6. \A t \in Subs : t # s =>
          subs[t].of = Nobody /\ subs[t].status = "none" /\ subs[t].booked = "none"
    BY <2>4 DEF Plan!None
  <2>7. \A t \in Subs : Bills(t) \/ Plan!Live(subs[t]) => t = s
    BY <2>6 DEF Bills, Plan!Live
  <2>8. subs[s].of = c /\ subs[s].status = "active" /\ ~subs[s].ending /\ subs[s].booked = "none"
    BY <2>1, <2>4
  <2>9. OwnersFit /\ OfferFits
    BY <1>1, <1>4, <2>6, <2>8, PlanNobody DEF OwnersFit, OfferFits
  <2>10. OneBills /\ BookingFits
    BY <1>1, <1>2, <2>6, <2>7, <2>8 DEF OneBills, BookingFits
  <2>11. NewsIsOfTheLive
    BY <1>1, <1>2 DEF NewsIsOfTheLive
  <2>12. RowShows(s)
    BY <2>2, <2>8, <1>4, PlanNobody DEF RowShows
  <2>13. RowIsTrue
    BY <2>7, <2>12 DEF RowIsTrue
  <2>14. TabFits /\ MirrorFits /\ GrantsFit
    BY <1>1, <1>2, <1>4 DEF TabFits, Routed, MirrorFits, GrantsFit
  <2> QED
    BY <2>5, <2>9, <2>10, <2>11, <2>13, <2>14 DEF BillsInv
<1>5. CASE \E c \in Customers, s \in Subs, bought \in Plan!Plans :
            /\ s = CHOOSE new \in Subs : TRUE
            /\ customer = c
            /\ row = [fresh EXCEPT !.plan = bought, !.status = "active", !.stripe = s]
            /\ paying = {[rail |-> "stripe", end |-> 0, last |-> TRUE]}
            /\ coupons = IF apple = "lapsed" THEN 0 ELSE 1
            /\ subs = [[new \in Subs |-> Plan!None] EXCEPT ![s] =
                         [Plan!None EXCEPT !.of = c, !.plan = bought, !.status = "active"]]
  <2>1. PICK c \in Customers, s \in Subs, bought \in Plan!Plans :
          /\ s = CHOOSE new \in Subs : TRUE
          /\ customer = c
          /\ row = [fresh EXCEPT !.plan = bought, !.status = "active", !.stripe = s]
          /\ paying = {[rail |-> "stripe", end |-> 0, last |-> TRUE]}
          /\ coupons = IF apple = "lapsed" THEN 0 ELSE 1
          /\ subs = [[new \in Subs |-> Plan!None] EXCEPT ![s] =
                       [Plan!None EXCEPT !.of = c, !.plan = bought, !.status = "active"]]
    BY <1>5, Zenon
  <2> QED
    BY <2>1, <1>4, Zenon
<1> QED
  <2>1. Plan!Init
    OBVIOUS
  <2> QED
    BY <1>3, <1>5, <2>1, Zenon DEF Plan!Init, fresh

(* The request is read, and what Stripe lists for it.                      *)
LEMMA AskKeeps ==
    ASSUME BillsInv, ~LossyRoutes, NEW kind \in {"subscribe", "change", "cancel", "resume", "close"},
           NEW to \in Plan!Plans \cup {"none"}, NEW when \in {"none", "now", "period_end"},
           kind \in {"subscribe", "change"} => to \in Plan!Plans,
           Plan!Ask(kind, to, when)
    PROVE BillsInv'
<1> USE DEF BillsInv
<1> DEFINE t == [Plan!NoTab EXCEPT !.kind = kind, !.plan = to, !.when = when]
<1>0. t \in Tabs /\ t.kind = kind /\ t.plan = to
  <2>1. t.kind = kind /\ t.plan = to
    BY DEF Plan!NoTab
  <2>2. t \in Tabs
    BY NoTabTyped DEF Tabs
  <2> QED
    BY <2>1, <2>2
<1>1. /\ tab.at = "idle" /\ ~closed /\ Plan!stripeCustomerFor(t)
      /\ subs' = subs /\ due' = due /\ sessions' = sessions /\ row' = row
      /\ paying' = paying /\ turns' = turns /\ hook' = hook /\ coupons' = coupons
      /\ closed' = closed
  BY DEF Plan!Ask, Plan!stripeVars, Plan!env
<1> HIDE DEF t
<1>2. /\ BookingFits' /\ NewsIsOfTheLive' /\ RowIsTrue' /\ GrantsFit'
      /\ \A s \in Subs : Bills(s)' => Bills(s)
  BY <1>1, StripeStays
<1>3. CASE customer # Nobody
  <2>1. tab' = [t EXCEPT !.at = "list", !.customer = customer] /\ customer' = customer
    BY <1>1, <1>3 DEF Plan!stripeCustomerFor, Plan!Goes
  <2>2. /\ tab' \in Tabs /\ tab'.at = "list" /\ tab'.customer = customer'
        /\ tab'.kind = kind /\ tab'.plan = to
    BY <2>1, <1>0 DEF Tabs, PlanTypes
  <2>3. TabFits'
    BY <1>1, <1>3, <2>1, <2>2 DEF TabFits, Routed
  <2>4. OneBills'
    BY <1>1, <1>2, <2>2 DEF OneBills
  <2>5. MirrorFits'
    BY <2>2 DEF MirrorFits
  <2>6. OwnersFit' /\ OfferFits'
    BY <1>1, <2>1, OwnersStay
  <2>7. PlanTypes'
    BY <1>1, <2>1, <2>2 DEF PlanTypes
  <2> QED
    BY <1>2, <2>3, <2>4, <2>5, <2>6, <2>7
<1>4. CASE customer = Nobody
  <2>1. \A s \in Subs : subs[s].of = Nobody /\ subs[s].status = "none"
    BY <1>4 DEF OwnersFit
  <2>2. \A s \in Subs : ~Bills(s)
    BY <2>1 DEF Bills, Plan!Live
  <2>3. CASE kind = "close"
    <3>1. tab' = [t EXCEPT !.at = "record"] /\ customer' = customer
      BY <1>0, <1>1, <1>4, <2>3 DEF Plan!stripeCustomerFor, Plan!Goes
    <3>2. tab' \in Tabs /\ tab'.at = "record" /\ tab'.kind = "close"
      BY <3>1, <1>0, <2>3 DEF Tabs
    <3>3. TabFits'
      BY <1>1, <3>2 DEF TabFits, Routed
    <3>4. OneBills'
      BY <1>1, <1>2, <2>2, <3>2 DEF OneBills
    <3>5. MirrorFits'
      BY <3>2 DEF MirrorFits
    <3>6. OwnersFit' /\ OfferFits'
      BY <1>1, <3>1, OwnersStay
    <3>7. PlanTypes'
      BY <1>1, <3>1, <3>2 DEF PlanTypes
    <3> QED
      BY <1>2, <3>3, <3>4, <3>5, <3>6, <3>7
  <2>4. CASE kind # "close"
    <3>1. PICK new \in Customers :
            /\ tab' = [t EXCEPT !.at = "list", !.customer = new]
            /\ customer' = new
      BY <1>0, <1>1, <1>4, <2>4 DEF Plan!stripeCustomerFor, Plan!Goes
    <3>2. /\ tab' \in Tabs /\ tab'.at = "list" /\ tab'.customer = new
          /\ tab'.kind = kind /\ tab'.plan = to
      BY <3>1, <1>0 DEF Tabs
    <3>3. TabFits'
      BY <1>1, <3>1, <3>2, PlanNobody DEF TabFits, Routed
    <3>4. OneBills'
      BY <1>1, <1>2, <3>2 DEF OneBills
    <3>5. MirrorFits'
      BY <3>2 DEF MirrorFits
    <3>6. sessions = {}
      <4> SUFFICES ASSUME NEW open \in sessions PROVE FALSE
        OBVIOUS
      <4> QED
        BY <1>4, PlanNobody DEF OwnersFit, PlanTypes
    <3>7. OwnersFit' /\ OfferFits'
      BY <1>1, <2>1, <3>6 DEF OwnersFit, OfferFits
    <3>8. PlanTypes'
      BY <1>1, <3>1, <3>2 DEF PlanTypes
    <3> QED
      BY <1>2, <3>3, <3>4, <3>5, <3>7, <3>8
  <2> QED
    BY <2>3, <2>4
<1> QED
  BY <1>3, <1>4

LEMMA AnsweredKeeps ==
    ASSUME BillsInv, Plan!Answered,
           UNCHANGED <<customer, subs, due, sessions, row, paying, turns, hook, coupons, closed>>
    PROVE BillsInv'
<1>1. tab' = Plan!NoTab
  BY DEF Plan!Answered, Plan!Goes
<1>2. /\ BookingFits' /\ NewsIsOfTheLive' /\ RowIsTrue' /\ GrantsFit'
      /\ \A s \in Subs : Bills(s)' => Bills(s)
  BY StripeStays
<1>3. tab' \in Tabs /\ TabFits' /\ OneBills' /\ MirrorFits'
  BY <1>1, <1>2, TabAnswered
<1>4. OwnersFit' /\ OfferFits'
  BY OwnersStay
<1>5. PlanTypes'
  BY <1>3 DEF BillsInv, PlanTypes
<1> QED
  BY <1>2, <1>3, <1>4, <1>5 DEF BillsInv

LEMMA SubscribeKeeps == ASSUME BillsInv, Plan!subscribe, turns' = turns PROVE BillsInv'
<1> USE DEF BillsInv
<1>1. /\ tab.at = "list" /\ tab.kind = "subscribe" /\ Plan!Answered
      /\ customer' = customer /\ subs' = subs /\ due' = due /\ row' = row
      /\ paying' = paying /\ hook' = hook /\ coupons' = coupons /\ closed' = closed
  BY DEF Plan!subscribe, Plan!stripeVars, Plan!env
<1>2. CASE sessions' = sessions
  BY <1>1, <1>2, AnsweredKeeps
<1>3. CASE sessions' # sessions
  <2> DEFINE open == [of |-> tab.customer, plan |-> tab.plan, coupon |-> Plan!FirstTime]
  <2>1. Plan!Billing(tab.customer) = {} /\ sessions' = sessions \cup {open}
    BY <1>3 DEF Plan!subscribe
  <2>2. /\ tab.customer = customer /\ customer \in Customers /\ tab.plan \in Plan!Plans
        /\ ~closed
    BY <1>1 DEF TabFits, PlanTypes
  <2>3. Plan!FirstTime \in BOOLEAN
    BY DEF Plan!FirstTime
  <2>4. /\ open \in [of : Customers, plan : Plan!Plans, coupon : BOOLEAN]
        /\ open.of = customer /\ open.coupon = Plan!FirstTime
    BY <2>2, <2>3
  <2>5. \A s \in Subs : ~Bills(s)
    BY <2>1, <2>2, PlanNobody DEF Plan!Billing, Plan!Of, OwnersFit, Bills, Plan!Live
  <2>6. Plan!FirstTime => \A s \in Subs : subs[s].of = Nobody
    BY <2>2 DEF Plan!FirstTime, Plan!Of, OwnersFit
  <2> HIDE DEF open
  <2>7. /\ BookingFits' /\ NewsIsOfTheLive' /\ RowIsTrue' /\ GrantsFit'
        /\ \A s \in Subs : Bills(s)' => Bills(s)
    BY <1>1, StripeStays
  <2>8. tab'.at = "idle" /\ tab' \in Tabs
    BY <1>1, NoTabTyped DEF Plan!Answered, Plan!Goes
  <2>9. TabFits' /\ MirrorFits'
    BY <2>8 DEF TabFits, Routed, MirrorFits
  <2>10. OneBills'
    BY <1>1, <2>2, <2>5, <2>7, <2>8 DEF OneBills
  <2>11. OwnersFit'
    BY <1>1, <2>1, <2>4 DEF OwnersFit
  <2>12. OfferFits'
    BY <1>1, <2>1, <2>4, <2>6 DEF OfferFits
  <2>13. PlanTypes'
    <3>1. sessions' \subseteq [of : Customers, plan : Plan!Plans, coupon : BOOLEAN]
      BY <2>1, <2>4 DEF PlanTypes
    <3> QED
      BY <1>1, <2>8, <3>1 DEF PlanTypes
  <2> QED
    BY <2>7, <2>9, <2>10, <2>11, <2>12, <2>13
<1> QED
  BY <1>2, <1>3

(* The one live subscription that the list shows is the one taken.         *)
LEMMA TakeKeeps ==
    ASSUME BillsInv, tab.at = "list", tab.kind \in {"change", "cancel", "resume"},
           NEW s \in Plan!live, NEW at \in Routed, Plan!Take(s, at),
           at = "release" => tab.kind # "resume",
           at \in {"book", "phases", "promise"} => tab.kind = "change",
           at = "mirror" => tab.kind = "resume" /\ ~subs[s].ending,
           UNCHANGED <<customer, subs, due, sessions, row, paying, turns, hook, coupons, closed>>
    PROVE /\ BillsInv' /\ s \in Subs /\ Plan!Live(subs[s])
          /\ tab'.at = at /\ tab'.sub = s /\ tab'.kind = tab.kind
<1> USE DEF BillsInv
<1>1. s \in Subs /\ Plan!Live(subs[s]) /\ \A t \in Subs : Bills(t) => t = s
  BY DEF Plan!live, Plan!Of, OneBills, Bills
<1>2. /\ tab' \in Tabs /\ tab'.at = at /\ tab'.sub = s /\ tab'.kind = tab.kind
      /\ tab'.plan = tab.plan
  BY <1>1 DEF Plan!Take, Plan!Goes, PlanTypes, Tabs, Routed
<1>3. /\ BookingFits' /\ NewsIsOfTheLive' /\ RowIsTrue' /\ GrantsFit'
      /\ \A t \in Subs : Bills(t)' => Bills(t)
  BY StripeStays
<1>4. OwnersFit' /\ OfferFits'
  BY OwnersStay
<1>5. TabFits'
  BY <1>1, <1>2, <1>3 DEF TabFits, Routed
<1>6. OneBills'
  BY <1>2, <1>3 DEF OneBills, Routed
<1>7. MirrorFits'
  BY <1>2 DEF MirrorFits
<1>8. PlanTypes'
  BY <1>2 DEF PlanTypes
<1> QED
  BY <1>1, <1>2, <1>3, <1>4, <1>5, <1>6, <1>7, <1>8

LEMMA ListedKeeps ==
    ASSUME BillsInv, Plan!change_plan \/ Plan!cancel \/ Plan!resume, turns' = turns
    PROVE BillsInv'
<1> DEFINE Rest == UNCHANGED <<customer, subs, due, sessions, row, paying, turns, hook,
                               coupons, closed>>
<1>1. CASE Plan!change_plan
  <2>1. tab.at = "list" /\ tab.kind = "change" /\ Rest
    BY <1>1 DEF Plan!change_plan, Plan!Listed, Plan!stripeVars, Plan!env
  <2>2. CASE Plan!Answered
    BY <2>1, <2>2, AnsweredKeeps
  <2>3. CASE \E s \in Plan!live, at \in {"book", "release", "update"} : Plan!Take(s, at)
    BY <2>1, <2>3, TakeKeeps DEF Routed
  <2> QED
    BY <1>1, <2>2, <2>3 DEF Plan!change_plan, Plan!ReleaseFirst
<1>2. CASE Plan!cancel
  <2>1. tab.at = "list" /\ tab.kind = "cancel" /\ Rest
    BY <1>2 DEF Plan!cancel, Plan!Listed, Plan!stripeVars, Plan!env
  <2>2. CASE Plan!Answered
    BY <2>1, <2>2, AnsweredKeeps
  <2>3. CASE \E s \in Plan!live, at \in {"release", "update"} : Plan!Take(s, at)
    BY <2>1, <2>3, TakeKeeps DEF Routed
  <2> QED
    BY <1>2, <2>2, <2>3 DEF Plan!cancel, Plan!ReleaseFirst
<1>3. CASE Plan!resume
  <2>1. tab.at = "list" /\ tab.kind = "resume" /\ Rest
    BY <1>3 DEF Plan!resume, Plan!Listed, Plan!stripeVars, Plan!env
  <2>2. CASE Plan!Answered
    BY <2>1, <2>2, AnsweredKeeps
  <2>3. ASSUME NEW s \in Plan!live, Plan!Take(s, "update") PROVE BillsInv'
    BY <2>1, <2>3, TakeKeeps DEF Routed
  <2>4. ASSUME NEW s \in Plan!live, ~subs[s].ending, Plan!Take(s, "mirror") PROVE BillsInv'
    BY <2>1, <2>4, TakeKeeps DEF Routed
  <2> QED
    BY <1>3, <2>2, <2>3, <2>4 DEF Plan!resume
<1> QED
  BY <1>1, <1>2, <1>3

LEMMA CallFailsKeeps == ASSUME BillsInv, Plan!CallFails, turns' = turns PROVE BillsInv'
BY AnsweredKeeps DEF Plan!CallFails, Plan!stripeVars, Plan!env

(* A step of the request that changes its subscription and goes on.        *)
LEMMA RoutedKeeps ==
    ASSUME BillsInv, tab.at \in Routed, NEW at \in Routed, Plan!Go(at),
           at = "release" => tab.kind # "resume",
           at \in {"book", "phases", "promise"} => tab.kind = "change",
           NEW sub \in Subscriptions, NEW types \in SUBSET {"changed", "paid"}, types # {},
           Plan!Becomes(tab.sub, sub, types),
           sub.of = subs[tab.sub].of, sub.status = subs[tab.sub].status,
           subs[tab.sub].status # "none",
           sub.booked # "none" => Plan!Live(sub) /\ ~sub.ending,
           at = "mirror" => (tab.kind = "cancel" <=> sub.ending),
           UNCHANGED <<customer, sessions, row, paying, turns, hook, coupons, closed>>
    PROVE BillsInv'
<1> USE DEF BillsInv
<1>1. /\ tab.sub \in Subs /\ ~closed
      /\ \A t \in Subs : Bills(t) => t = tab.sub
  BY DEF TabFits, Routed
<1>2. \A t \in Subs : Plan!Live(subs[t]) => t = tab.sub
  BY <1>1 DEF Bills
<1>3. /\ Plan!Live(sub) => Plan!Live(subs[tab.sub])
      /\ sub.status = "unpaid" => Bills(tab.sub)
      /\ sub.status # "none"
  BY DEF Plan!Live, Bills
<1>4. /\ subs' \in [Subs -> Subscriptions] /\ due' \subseteq Events
      /\ OwnersFit' /\ OfferFits' /\ BookingFits' /\ NewsIsOfTheLive'
      /\ RowIsTrue' /\ GrantsFit' /\ turns' \in Nat
      /\ \A t \in Subs : Bills(t)' => Bills(t)
  BY <1>1, <1>2, <1>3, SubBecomes
<1>5. tab' = [tab EXCEPT !.at = at]
  BY DEF Plan!Go, Plan!Goes
<1>6. tab' \in Tabs /\ TabFits' /\ OneBills'
  BY <1>1, <1>4, <1>5, TabGoesOn
<1>7. MirrorFits'
  <2>1. tab'.at = at /\ tab'.sub = tab.sub /\ tab'.kind = tab.kind
    BY <1>5 DEF PlanTypes, Tabs
  <2>2. subs'[tab.sub] = sub
    BY <1>1 DEF Plan!Becomes, PlanTypes
  <2> QED
    BY <2>1, <2>2 DEF MirrorFits
<1>8. PlanTypes'
  BY <1>4, <1>6 DEF PlanTypes
<1> QED
  BY <1>4, <1>6, <1>7, <1>8

LEMMA SubTyped ==
    ASSUME BillsInv, NEW s \in Subs
    PROVE subs[s] \in Subscriptions
BY DEF BillsInv, PlanTypes

LEMMA LiveIsNotNone == \A s \in Subs : Plan!Live(subs[s]) => subs[s].status # "none"
BY DEF Plan!Live

LEMMA ReleasePlanKeeps == ASSUME BillsInv, Plan!release, turns' = turns PROVE BillsInv'
<1>1. /\ tab.at = "release"
      /\ UNCHANGED <<customer, sessions, row, paying, hook, coupons, closed>>
  BY DEF Plan!release, Plan!env
<1>2. CASE subs[tab.sub].booked = "none"
  <2>1. Plan!Answered /\ UNCHANGED <<subs, due>>
    BY <1>2 DEF Plan!release, Plan!stripeVars
  <2> QED
    BY <1>1, <2>1, AnsweredKeeps
<1>3. CASE subs[tab.sub].booked # "none"
  <2> DEFINE sub == [subs[tab.sub] EXCEPT !.booked = "none"]
  <2>1. Plan!Becomes(tab.sub, sub, {"changed"}) /\ Plan!Go("update")
    BY <1>3 DEF Plan!release
  <2>2. tab.sub \in Subs /\ subs[tab.sub] \in Subscriptions
    BY <1>1, SubTyped DEF BillsInv, TabFits, Routed
  <2>3. subs[tab.sub].status # "none"
    BY <1>3, <2>2, LiveIsNotNone DEF BillsInv, BookingFits
  <2>4. /\ sub \in Subscriptions /\ sub.of = subs[tab.sub].of
        /\ sub.status = subs[tab.sub].status /\ sub.booked = "none"
    BY <2>2 DEF Subscriptions
  <2> HIDE DEF sub
  <2> QED
    BY <1>1, <2>1, <2>3, <2>4, RoutedKeeps DEF Routed
<1> QED
  BY <1>2, <1>3

LEMMA UpdateKeeps == ASSUME BillsInv, Plan!update, turns' = turns PROVE BillsInv'
<1>1. /\ tab.at = "update"
      /\ UNCHANGED <<customer, sessions, row, paying, hook, coupons, closed>>
  BY DEF Plan!update, Plan!env
<1>2. CASE subs[tab.sub].booked # "none" \/ ~Plan!Live(subs[tab.sub])
  <2>1. Plan!Answered /\ UNCHANGED <<subs, due>>
    BY <1>2 DEF Plan!update, Plan!stripeVars
  <2> QED
    BY <1>1, <2>1, AnsweredKeeps
<1>3. CASE ~(subs[tab.sub].booked # "none" \/ ~Plan!Live(subs[tab.sub]))
  <2>1. /\ tab.sub \in Subs /\ subs[tab.sub] \in Subscriptions
        /\ tab.kind \in {"change", "cancel", "resume"}
        /\ tab.kind = "change" => tab.plan \in Plan!Plans
    BY <1>1, SubTyped DEF BillsInv, TabFits, Routed
  <2>2. subs[tab.sub].status # "none"
    BY <1>3, <2>1, LiveIsNotNone
  <2> DEFINE sub == CASE tab.kind = "change" ->
                           [subs[tab.sub] EXCEPT !.plan = tab.plan, !.ending = FALSE]
                      [] tab.kind = "cancel" -> [subs[tab.sub] EXCEPT !.ending = TRUE]
                      [] tab.kind = "resume" -> [subs[tab.sub] EXCEPT !.ending = FALSE]
             types == IF tab.kind = "change" THEN {"changed", "paid"} ELSE {"changed"}
  <2>3. Plan!Becomes(tab.sub, sub, types) /\ Plan!Go("mirror")
    BY <1>3 DEF Plan!update
  <2>4. types \in SUBSET {"changed", "paid"} /\ types # {}
    OBVIOUS
  <2>5. /\ sub \in Subscriptions /\ sub.of = subs[tab.sub].of
        /\ sub.status = subs[tab.sub].status /\ sub.booked = "none"
        /\ tab.kind = "cancel" <=> sub.ending
    <3>1. CASE tab.kind = "change"
      <4>1. sub = [subs[tab.sub] EXCEPT !.plan = tab.plan, !.ending = FALSE]
        BY <3>1
      <4> QED
        BY <1>3, <2>1, <3>1, <4>1 DEF Subscriptions
    <3>2. CASE tab.kind = "cancel"
      <4>1. sub = [subs[tab.sub] EXCEPT !.ending = TRUE]
        BY <3>2
      <4> QED
        BY <1>3, <2>1, <3>2, <4>1 DEF Subscriptions
    <3>3. CASE tab.kind = "resume"
      <4>1. sub = [subs[tab.sub] EXCEPT !.ending = FALSE]
        BY <3>3
      <4> QED
        BY <1>3, <2>1, <3>3, <4>1 DEF Subscriptions
    <3> QED
      BY <2>1, <3>1, <3>2, <3>3
  <2> HIDE DEF sub, types
  <2> QED
    BY <1>1, <2>2, <2>3, <2>4, <2>5, RoutedKeeps DEF Routed
<1> QED
  BY <1>2, <1>3

LEMMA BookKeeps == ASSUME BillsInv, Plan!book \/ Plan!phases, turns' = turns PROVE BillsInv'
<1>1. /\ tab.at \in {"book", "phases"}
      /\ UNCHANGED <<customer, sessions, row, paying, hook, coupons, closed>>
  BY DEF Plan!book, Plan!phases, Plan!env
<1>2. CASE Plan!Answered /\ UNCHANGED <<subs, due>>
  BY <1>1, <1>2, AnsweredKeeps
<1>3. ASSUME NEW to \in Plan!Plans, Plan!Live(subs[tab.sub]), ~subs[tab.sub].ending,
             NEW at \in {"phases", "promise"}, Plan!Go(at),
             Plan!Becomes(tab.sub, [subs[tab.sub] EXCEPT !.booked = to], {"changed"})
      PROVE BillsInv'
  <2> DEFINE sub == [subs[tab.sub] EXCEPT !.booked = to]
  <2>1. /\ tab.sub \in Subs /\ subs[tab.sub] \in Subscriptions /\ tab.kind = "change"
    BY <1>1, SubTyped DEF BillsInv, TabFits, Routed
  <2>2. subs[tab.sub].status # "none"
    BY <1>3, <2>1, LiveIsNotNone
  <2>3. /\ sub \in Subscriptions /\ sub.of = subs[tab.sub].of
        /\ sub.status = subs[tab.sub].status /\ sub.ending = subs[tab.sub].ending
    BY <2>1 DEF Subscriptions
  <2>4. Plan!Live(sub) /\ ~sub.ending
    BY <1>3, <2>3 DEF Plan!Live
  <2>5. Plan!Becomes(tab.sub, sub, {"changed"})
    BY <1>3
  <2> HIDE DEF sub
  <2> QED
    BY <1>1, <1>3, <2>1, <2>2, <2>3, <2>4, <2>5, RoutedKeeps DEF Routed
<1>4. tab.sub \in Subs /\ tab.plan \in Plan!Plans /\ subs[tab.sub] \in Subscriptions
  BY <1>1, SubTyped DEF BillsInv, TabFits, Routed
<1>5. subs[tab.sub].plan \in Plan!Plans
  BY <1>4 DEF Subscriptions
<1>6. CASE Plan!book
  BY <1>2, <1>3, <1>5, <1>6 DEF Plan!book, Plan!Bookable, Plan!stripeVars
<1>7. CASE Plan!phases
  BY <1>2, <1>3, <1>4, <1>7 DEF Plan!phases, Plan!stripeVars, BillsInv, BookingFits
<1> QED
  BY <1>6, <1>7

(* The routes that write the row themselves.                               *)
LEMMA MirrorKeeps == ASSUME BillsInv, Plan!mirror, turns' = turns PROVE BillsInv'
<1> USE DEF BillsInv
<1>1. /\ tab.at = "mirror" /\ Plan!Answered
      /\ UNCHANGED <<customer, subs, due, sessions, paying, hook, coupons, closed>>
  BY DEF Plan!mirror, Plan!env, Plan!stripeVars
<1>2. /\ tab.sub \in Subs /\ tab.kind \in {"change", "cancel", "resume"}
      /\ tab.kind = "change" => tab.plan \in Plan!Plans
      /\ \A s \in Subs : Bills(s) => s = tab.sub
  BY <1>1 DEF TabFits, Routed
<1>3. row \in PlanRows
  BY DEF PlanTypes
<1>4. CASE row.status = "none"
  <2>1. row' = row
    BY <1>4 DEF Plan!mirror
  <2> QED
    BY <1>1, <2>1, AnsweredKeeps
<1>5. CASE row.status # "none"
  <2>1. row' = [row EXCEPT !.plan = IF tab.kind = "change" THEN tab.plan ELSE @,
                           !.status = IF tab.kind = "cancel" THEN "canceled" ELSE "active",
                           !.stripe = IF tab.kind = "change" THEN tab.sub ELSE @,
                           !.pending = IF Plan!ForgetsBooking THEN "none" ELSE @]
    BY <1>5 DEF Plan!mirror
  <2>2. /\ row' \in PlanRows
        /\ row'.plan = (IF tab.kind = "change" THEN tab.plan ELSE row.plan)
        /\ row'.status = (IF tab.kind = "cancel" THEN "canceled" ELSE "active")
        /\ row'.stripe = (IF tab.kind = "change" THEN tab.sub ELSE row.stripe)
        /\ row'.apple = row.apple
    BY <1>2, <1>3, <2>1 DEF PlanRows
  <2>3. /\ BookingFits' /\ NewsIsOfTheLive' /\ GrantsFit'
        /\ \A s \in Subs : Bills(s)' => Bills(s)
    BY <1>1 DEF BookingFits, NewsIsOfTheLive, GrantsFit, Bills, Awaited
  <2>4. RowIsTrue'
    <3> SUFFICES ASSUME NEW s \in Subs, Plan!Live(subs[s]), hook.at = "idle", ~Awaited(s)
                 PROVE RowShows(s)'
      BY <1>1 DEF RowIsTrue, Awaited
    <3>1. s = tab.sub
      BY <1>2 DEF Bills
    <3>2. RowShows(s)
      BY DEF RowIsTrue
    <3>3. tab.kind = "cancel" <=> subs[s].ending
      BY <1>1, <3>1 DEF MirrorFits
    <3>4. row'.plan \in Plan!Plans /\ row'.status \in {"active", "canceled"}
      BY <1>2, <2>2, <3>2 DEF RowShows
    <3>5. row'.stripe # Nobody
      BY <1>2, <2>2, <3>2, PlanNobody DEF RowShows
    <3>6. row'.status = "canceled" <=> subs'[s].ending
      BY <1>1, <2>2, <3>3
    <3> QED
      BY <3>4, <3>5, <3>6 DEF RowShows
  <2>5. OwnersFit' /\ OfferFits'
    BY <1>1, OwnersStay
  <2>6. tab' \in Tabs /\ TabFits' /\ OneBills' /\ MirrorFits'
    BY <1>1, <2>3, TabAnswered DEF Plan!Answered, Plan!Goes
  <2>7. PlanTypes'
    BY <1>1, <2>2, <2>6 DEF PlanTypes
  <2> QED
    BY <2>3, <2>4, <2>5, <2>6, <2>7
<1> QED
  BY <1>4, <1>5

LEMMA PromiseKeeps == ASSUME BillsInv, Plan!promise, turns' = turns PROVE BillsInv'
<1> USE DEF BillsInv
<1>1. /\ tab.at = "promise" /\ Plan!Answered
      /\ UNCHANGED <<customer, subs, due, sessions, paying, hook, coupons, closed>>
  BY DEF Plan!promise, Plan!env, Plan!stripeVars
<1>2. CASE row.status = "none"
  <2>1. row' = row
    BY <1>2 DEF Plan!promise
  <2> QED
    BY <1>1, <2>1, AnsweredKeeps
<1>3. CASE row.status # "none"
  <2>1. row' = [row EXCEPT !.pending = tab.plan]
    BY <1>3 DEF Plan!promise
  <2>2. /\ row' \in PlanRows /\ row'.plan = row.plan /\ row'.status = row.status
        /\ row'.stripe = row.stripe /\ row'.apple = row.apple
    BY <2>1 DEF PlanTypes, PlanRows, Tabs
  <2>3. /\ BookingFits' /\ NewsIsOfTheLive' /\ GrantsFit'
        /\ \A s \in Subs : Bills(s)' => Bills(s)
    BY <1>1 DEF BookingFits, NewsIsOfTheLive, GrantsFit, Bills, Awaited
  <2>4. Plan!managedInAppStore' = Plan!managedInAppStore
    BY <1>1, <2>2 DEF Plan!managedInAppStore, Plan!subscriptionSource, Plan!railOf,
                      Plan!currentGrantRail, Plan!Latest
  <2>5. RowIsTrue'
    BY <1>1, <2>2, <2>4 DEF RowIsTrue, RowShows, Awaited
  <2>6. OwnersFit' /\ OfferFits'
    BY <1>1, OwnersStay
  <2>7. tab' \in Tabs /\ TabFits' /\ OneBills' /\ MirrorFits'
    BY <1>1, <2>3, TabAnswered DEF Plan!Answered, Plan!Goes
  <2>8. PlanTypes'
    BY <1>1, <2>2, <2>7 DEF PlanTypes
  <2> QED
    BY <2>3, <2>5, <2>6, <2>7, <2>8
<1> QED
  BY <1>2, <1>3

(* A closure ends what it listed, one after another.                       *)
LEMMA ReconcileKeeps ==
    ASSUME BillsInv, Plan!reconcileStripeSubscriptions, turns' = turns PROVE BillsInv'
<1> USE DEF BillsInv
<1>1. /\ tab.kind = "close"
      /\ UNCHANGED <<customer, sessions, row, paying, hook, coupons, closed>>
  BY DEF Plan!reconcileStripeSubscriptions, Plan!env
<1>2. ASSUME tab.at = "list", UNCHANGED <<subs, due>>,
             tab' = [tab EXCEPT !.at = "end", !.customer = Nobody,
                                !.left = Plan!Billing(tab.customer)]
      PROVE BillsInv'
  <2>1. /\ BookingFits' /\ NewsIsOfTheLive' /\ RowIsTrue' /\ GrantsFit'
        /\ \A s \in Subs : Bills(s)' => Bills(s)
    BY <1>1, <1>2, StripeStays
  <2>2. tab.customer = customer /\ customer # Nobody /\ ~closed
    BY <1>2 DEF TabFits
  <2>3. Plan!Billing(tab.customer) = {s \in Subs : Bills(s)}
    BY <2>2 DEF Plan!Billing, Plan!Of, OwnersFit, Bills, Plan!Live
  <2>4. /\ tab' \in Tabs /\ tab'.at = "end" /\ tab'.kind = "close"
        /\ tab'.left = {s \in Subs : Bills(s)}
    BY <1>1, <1>2, <2>3 DEF PlanTypes, Tabs
  <2>10. \A s \in Subs : Bills(s) => subs[s].of # Nobody
    BY DEF OwnersFit, Bills, Plan!Live
  <2>5. TabFits'
    BY <1>1, <2>2, <2>4 DEF TabFits, Routed
  <2>6. OneBills'
    BY <1>1, <1>2, <2>1, <2>4, <2>10 DEF OneBills
  <2>7. MirrorFits'
    BY <2>4 DEF MirrorFits
  <2>8. OwnersFit' /\ OfferFits'
    BY <1>1, <1>2, OwnersStay
  <2>9. PlanTypes'
    BY <1>1, <1>2, <2>4 DEF PlanTypes
  <2> QED
    BY <2>1, <2>5, <2>6, <2>7, <2>8, <2>9
<1>3. ASSUME tab.at = "end", tab.left = {}, Plan!Go("record"), UNCHANGED <<subs, due>>
      PROVE BillsInv'
  <2>1. /\ BookingFits' /\ NewsIsOfTheLive' /\ RowIsTrue' /\ GrantsFit'
        /\ \A s \in Subs : Bills(s)' => Bills(s)
    BY <1>1, <1>3, StripeStays
  <2>2. tab' \in Tabs /\ tab'.at = "record" /\ tab'.kind = "close" /\ ~closed
    BY <1>1, <1>3 DEF PlanTypes, Tabs, Plan!Go, Plan!Goes, TabFits
  <2>3. TabFits'
    BY <1>1, <2>2 DEF TabFits, Routed
  <2>4. OneBills'
    BY <1>1, <1>3, <2>1, <2>2 DEF OneBills
  <2>5. MirrorFits'
    BY <2>2 DEF MirrorFits
  <2>6. OwnersFit' /\ OfferFits'
    BY <1>1, <1>3, OwnersStay
  <2>7. PlanTypes'
    BY <1>1, <1>3, <2>2 DEF PlanTypes
  <2> QED
    BY <2>1, <2>3, <2>4, <2>5, <2>6, <2>7
<1>4. ASSUME tab.at = "end", NEW s \in tab.left,
             Plan!Becomes(s, [subs[s] EXCEPT !.status = "ended", !.booked = "none"], {"changed"}),
             tab' = [tab EXCEPT !.left = @ \ {s}]
      PROVE BillsInv'
  <2> DEFINE sub == [subs[s] EXCEPT !.status = "ended", !.booked = "none"]
  <2>1. s \in Subs /\ subs[s] \in Subscriptions
    BY SubTyped DEF PlanTypes, Tabs
  <2>2. /\ sub \in Subscriptions /\ sub.of = subs[s].of /\ sub.status = "ended"
        /\ sub.booked = "none"
    BY <2>1 DEF Subscriptions, Statuses
  <2>3. Plan!Becomes(s, sub, {"changed"})
    BY <1>4
  <2> HIDE DEF sub
  <2>4. ~Plan!Live(sub)
    BY <2>2 DEF Plan!Live
  <2>5. \A t \in Subs : Plan!Live(subs[t]) => t = s
    BY <1>4 DEF OneBills, Bills
  <2>6. subs[s].status # "none" => BillsInv'
    <3> SUFFICES ASSUME subs[s].status # "none" PROVE BillsInv'
      OBVIOUS
    <3>1. /\ subs' \in [Subs -> Subscriptions] /\ due' \subseteq Events
          /\ OwnersFit' /\ OfferFits' /\ BookingFits' /\ NewsIsOfTheLive'
          /\ RowIsTrue' /\ GrantsFit' /\ turns' \in Nat
          /\ \A t \in Subs : Bills(t)' => Bills(t)
          /\ \A t \in Subs : subs'[t].of = subs[t].of
      BY <1>1, <2>1, <2>2, <2>3, <2>4, <2>5, SubBecomes
    <3>2. /\ tab' \in Tabs /\ tab'.at = "end" /\ tab'.kind = "close"
          /\ tab'.left = tab.left \ {s} /\ tab.left \subseteq Subs /\ ~closed
      BY <1>1, <1>4 DEF PlanTypes, Tabs, TabFits
    <3>3. subs'[s] = sub
      BY <2>1, <2>3 DEF Plan!Becomes, PlanTypes
    <3>4. ~Bills(s)'
      BY <3>3, <2>2, <2>4 DEF Bills
    <3>5. OneBills'
      BY <1>1, <1>4, <3>1, <3>2, <3>4 DEF OneBills
    <3>6. TabFits' /\ MirrorFits'
      BY <1>1, <3>2 DEF TabFits, Routed, MirrorFits
    <3>7. PlanTypes'
      BY <1>1, <3>1, <3>2 DEF PlanTypes
    <3> QED
      BY <3>1, <3>5, <3>6, <3>7
  <2>7. subs[s].status # "none"
    BY <1>4, <2>1 DEF OneBills, OwnersFit
  <2> QED
    BY <2>6, <2>7
<1> QED
  BY <1>2, <1>3, <1>4 DEF Plan!reconcileStripeSubscriptions, Plan!Goes, Plan!stripeVars

LEMMA DeleteKeeps ==
    ASSUME BillsInv, ~StaleSessions, Plan!deleteAccount PROVE BillsInv'
<1> USE DEF BillsInv
<1>1. /\ tab.at = "record" /\ closed' = TRUE /\ tab' = Plan!NoTab /\ sessions' = {}
      /\ UNCHANGED <<customer, subs, due, row, paying, turns, hook, coupons>>
  BY DEF Plan!deleteAccount, Plan!env, Plan!stripeVars, Plan!Answered, Plan!Goes
<1>2. /\ BookingFits' /\ NewsIsOfTheLive' /\ RowIsTrue' /\ GrantsFit'
      /\ \A s \in Subs : Bills(s)' => Bills(s)
  BY <1>1, StripeStays
<1>3. tab' \in Tabs /\ tab'.at = "idle"
  BY <1>1, NoTabTyped
<1>4. TabFits' /\ MirrorFits'
  BY <1>3 DEF TabFits, Routed, MirrorFits
<1>5. OneBills'
  BY <1>1, <1>2, <1>3 DEF OneBills
<1>6. OwnersFit' /\ OfferFits'
  BY <1>1 DEF OwnersFit, OfferFits
<1>7. PlanTypes'
  BY <1>1, <1>3 DEF PlanTypes
<1> QED
  BY <1>2, <1>4, <1>5, <1>6, <1>7

(* The checkout that is paid makes the one subscription that bills.        *)
LEMMA PayKeeps ==
    ASSUME BillsInv, ~StaleSessions, NEW open \in sessions, NEW s \in Subs,
           Plan!PaySession(open, s)
    PROVE BillsInv'
<1> USE DEF BillsInv
<1> DEFINE sub == [Plan!None EXCEPT !.of = open.of, !.plan = open.plan, !.status = "active"]
<1>1. /\ subs[s].status = "none" /\ tab.at = "idle" /\ hook.at = "idle" /\ due = {}
      /\ sessions' = {} /\ Plan!Becomes(s, sub, {"checkout", "paid"})
      /\ coupons' = coupons + IF open.coupon THEN 1 ELSE 0
      /\ UNCHANGED <<customer, row, paying, turns, tab, hook, closed>>
  BY DEF Plan!PaySession, Plan!env
<1>2. open.of = customer /\ customer \in Customers /\ open.plan \in Plan!Plans
      /\ open.coupon \in BOOLEAN
  BY DEF OwnersFit, PlanTypes
<1>3. sub \in Subscriptions
  BY <1>2, NoneTyped DEF Subscriptions, Statuses
<1>4. sub.of = customer /\ sub.status = "active" /\ sub.ending = FALSE /\ sub.booked = "none"
  BY <1>2 DEF Plan!None
<1> HIDE DEF sub
<1>5. /\ subs' \in [Subs -> Subscriptions] /\ subs'[s] = sub
      /\ \A t \in Subs : t # s => subs'[t] = subs[t]
  BY <1>1, <1>3 DEF Plan!Becomes, PlanTypes
<1>6. \A t \in Subs : ~Bills(t) /\ ~Plan!Live(subs[t])
  BY DEF OneBills, Bills
<1>7. \A t \in Subs : Bills(t)' \/ Plan!Live(subs'[t]) => t = s
  BY <1>5, <1>6 DEF Bills
<1>8. due' = {[sub |-> s, type |-> type] : type \in {"checkout", "paid"}}
  BY <1>1 DEF Plan!Becomes
<1>9. /\ due' \subseteq Events /\ Awaited(s)' /\ \A e \in due' : e.sub = s
  <2>1. [sub |-> s, type |-> "paid"] \in due'
    BY <1>8
  <2>2. \A e \in due' : e.sub = s
    BY <1>8
  <2>3. Awaited(s)'
    BY <2>1, <2>2 DEF Awaited
  <2>4. due' \subseteq Events
    BY <1>8 DEF Events
  <2> QED
    BY <2>2, <2>3, <2>4
<1>10. ~closed
  BY DEF OneBills
<1>11. OneBills'
  BY <1>1, <1>7, <1>10 DEF OneBills
<1>12. OwnersFit'
  BY <1>1, <1>2, <1>4, <1>5, PlanNobody DEF OwnersFit
<1>13. OfferFits' /\ coupons' \in {0, 1}
  <2>1. subs'[s].of # Nobody
    BY <1>2, <1>4, <1>5, PlanNobody
  <2>2. open.coupon => coupons = 0
    BY DEF OfferFits
  <2> QED
    BY <1>1, <1>2, <2>1, <2>2 DEF OfferFits, PlanTypes
<1>14. BookingFits'
  BY <1>4, <1>5, <1>6 DEF BookingFits
<1>15. NewsIsOfTheLive' /\ RowIsTrue'
  BY <1>1, <1>7, <1>9 DEF NewsIsOfTheLive, RowIsTrue
<1>16. TabFits' /\ MirrorFits'
  BY <1>1 DEF TabFits, Routed, MirrorFits
<1>17. GrantsFit'
  BY <1>1 DEF GrantsFit
<1>18. PlanTypes'
  BY <1>1, <1>5, <1>9, <1>13 DEF PlanTypes
<1> QED
  BY <1>11, <1>12, <1>13, <1>14, <1>15, <1>16, <1>17, <1>18

(* Stripe's own changes.                                                   *)
LEMMA RenewsKeeps ==
    ASSUME BillsInv, NEW s \in Subs, Plan!Renews(s) \/ Plan!PaymentFails(s)
    PROVE BillsInv'
<1> USE DEF BillsInv
<1>1. /\ UNCHANGED <<customer, sessions, row, paying, tab, hook, coupons, closed>>
      /\ turns' \in {turns, turns + 1}
  BY DEF Plan!Renews, Plan!PaymentFails
<1>2. subs[s] \in Subscriptions
  BY SubTyped
<1>3. ASSUME NEW sub \in Subscriptions, NEW types \in SUBSET {"changed", "paid"}, types # {},
             Plan!Becomes(s, sub, types), sub.of = subs[s].of, sub.status # "none",
             sub.ending = subs[s].ending, Plan!Live(subs[s]),
             sub.booked # "none" => Plan!Live(sub) /\ ~sub.ending
      PROVE BillsInv'
  <2>1. /\ subs[s].status # "none" /\ Bills(s)
        /\ \A t \in Subs : Plan!Live(subs[t]) => t = s
    BY <1>3, LiveIsNotNone DEF OneBills, Bills
  <2>2. /\ subs' \in [Subs -> Subscriptions] /\ due' \subseteq Events
        /\ OwnersFit' /\ OfferFits' /\ BookingFits' /\ NewsIsOfTheLive'
        /\ RowIsTrue' /\ GrantsFit' /\ turns' \in Nat
        /\ \A t \in Subs : Bills(t)' => Bills(t)
        /\ \A t \in Subs : Plan!Live(subs'[t]) => Plan!Live(subs[t])
        /\ \A t \in Subs : subs'[t].of = subs[t].of
    BY <1>1, <1>3, <2>1, SubBecomes
  <2>3. TabFits' /\ OneBills'
    BY <1>1, <2>2, TabStays
  <2>4. subs' = [subs EXCEPT ![s] = sub]
    BY <1>3 DEF Plan!Becomes
  <2>5. \A t \in Subs : subs'[t].ending = subs[t].ending
    BY <1>3, <2>4 DEF PlanTypes
  <2>6. tab.at = "mirror" => tab.sub \in Subs
    BY DEF TabFits, Routed
  <2>7. MirrorFits'
    BY <1>1, <2>2, <2>5, <2>6 DEF MirrorFits
  <2>8. PlanTypes'
    BY <1>1, <2>2 DEF PlanTypes
  <2> QED
    BY <2>2, <2>3, <2>7, <2>8
<1>4. subs[s].booked # "none" => Plan!Live(subs[s]) /\ ~subs[s].ending
  BY DEF BookingFits
<1>5. CASE Plan!Renews(s)
  <2>1. Plan!Live(subs[s])
    BY <1>5 DEF Plan!Renews
  <2>2. CASE subs[s].ending
    <3> DEFINE sub == [subs[s] EXCEPT !.status = "ended"]
    <3>1. Plan!Becomes(s, sub, {"changed"})
      BY <1>5, <2>2 DEF Plan!Renews
    <3>2. /\ sub \in Subscriptions /\ sub.of = subs[s].of /\ sub.status = "ended"
          /\ sub.ending = subs[s].ending /\ sub.booked = subs[s].booked
      BY <1>2 DEF Subscriptions, Statuses
    <3> HIDE DEF sub
    <3> QED
      BY <1>3, <1>4, <2>1, <2>2, <3>1, <3>2
  <2>3. CASE ~subs[s].ending
    <3> DEFINE sub == [subs[s] EXCEPT !.plan = IF subs[s].booked = "none" THEN @ ELSE subs[s].booked,
                                      !.booked = "none", !.status = "active"]
    <3>1. Plan!Becomes(s, sub, {"changed", "paid"})
      BY <1>5, <2>3 DEF Plan!Renews
    <3>2. /\ sub \in Subscriptions /\ sub.of = subs[s].of /\ sub.status = "active"
          /\ sub.ending = subs[s].ending /\ sub.booked = "none"
      BY <1>2 DEF Subscriptions, Statuses
    <3> HIDE DEF sub
    <3> QED
      BY <1>3, <2>1, <3>1, <3>2
  <2> QED
    BY <2>2, <2>3
<1>6. CASE Plan!PaymentFails(s)
  <2>1. Plan!Live(subs[s])
    BY <1>6 DEF Plan!PaymentFails, Plan!Live
  <2>2. CASE Plan!Becomes(s, [subs[s] EXCEPT !.status = "past_due"], {"changed"})
    <3> DEFINE sub == [subs[s] EXCEPT !.status = "past_due"]
    <3>1. Plan!Becomes(s, sub, {"changed"})
      BY <2>2
    <3>2. /\ sub \in Subscriptions /\ sub.of = subs[s].of /\ sub.status = "past_due"
          /\ sub.ending = subs[s].ending /\ sub.booked = subs[s].booked
      BY <1>2 DEF Subscriptions, Statuses
    <3>3. Plan!Live(sub)
      BY <3>2 DEF Plan!Live
    <3> HIDE DEF sub
    <3> QED
      BY <1>3, <1>4, <2>1, <3>1, <3>2, <3>3
  <2>3. ASSUME NEW status \in {"unpaid", "ended"},
               Plan!Becomes(s, [subs[s] EXCEPT !.status = status, !.booked = "none"], {"changed"})
        PROVE BillsInv'
    <3> DEFINE sub == [subs[s] EXCEPT !.status = status, !.booked = "none"]
    <3>1. Plan!Becomes(s, sub, {"changed"})
      BY <2>3
    <3>2. /\ sub \in Subscriptions /\ sub.of = subs[s].of /\ sub.status = status
          /\ sub.ending = subs[s].ending /\ sub.booked = "none"
      BY <1>2 DEF Subscriptions, Statuses
    <3> HIDE DEF sub
    <3> QED
      BY <1>3, <2>1, <3>1, <3>2
  <2> QED
    BY <1>6, <2>2, <2>3 DEF Plan!PaymentFails
<1> QED
  BY <1>5, <1>6

(* The grant just applied is the last of the latest period.                *)
LEMMA AppliedPays ==
    ASSUME BillsInv, NEW rail \in {"stripe", "apple"}, Plan!Applied(rail),
           turns' = turns
    PROVE /\ Plan!currentGrantRail' = rail /\ GrantsFit'
          /\ paying' \subseteq [rail : {"stripe", "apple"}, end : Nat, last : BOOLEAN]
<1> DEFINE new == [rail |-> rail, end |-> turns, last |-> TRUE]
           rest == {[g EXCEPT !.last = FALSE] : g \in {h \in paying : h.rail # rail}}
           Grants == [rail : {"stripe", "apple"}, end : Nat, last : BOOLEAN]
<1>1. paying' = rest \cup {new} /\ turns \in Nat /\ paying \subseteq Grants
  BY DEF Plan!Applied, BillsInv, PlanTypes
<1>2. new \in Grants /\ new.rail = rail /\ new.end = turns /\ new.last = TRUE
  BY <1>1
<1>3. ASSUME NEW g \in rest PROVE g \in Grants /\ g.last = FALSE /\ g.end <= turns
  <2>1. PICK h \in paying : g = [h EXCEPT !.last = FALSE]
    OBVIOUS
  <2>2. h \in Grants /\ h.end <= turns
    BY <1>1 DEF BillsInv, GrantsFit
  <2> QED
    BY <2>1, <2>2
<1> HIDE DEF new, rest, Grants
<1>4. paying' \subseteq Grants /\ \A g \in paying' : g.end <= turns /\ (g = new \/ g.last = FALSE)
  <2> SUFFICES ASSUME NEW g \in paying'
               PROVE g \in Grants /\ g.end <= turns /\ (g = new \/ g.last = FALSE)
    BY DEF Plan!Applied
  <2>1. CASE g \in rest
    BY <1>3, <2>1
  <2>2. CASE g = new
    <3>1. new.end <= turns
      BY <1>1, <1>2
    <3> QED
      BY <1>2, <2>2, <3>1
  <2> QED
    BY <1>1, <2>1, <2>2
<1>5. new \in paying' /\ new \in Plan!Latest'
  <2>1. new \in paying'
    BY <1>1
  <2> QED
    BY <1>2, <1>4, <2>1 DEF Plan!Latest
<1>6. \A g \in Plan!Latest' : g.last => g = new
  BY <1>4 DEF Plan!Latest
<1>7. (CHOOSE g \in Plan!Latest' : g.last \/ \A h \in Plan!Latest' : ~h.last) = new
  BY <1>2, <1>5, <1>6
<1>8. Plan!currentGrantRail' = new.rail
  BY <1>5, <1>7 DEF Plan!currentGrantRail
<1> QED
  BY <1>2, <1>4, <1>8 DEF GrantsFit, Grants

LEMMA AppStoreKeeps == ASSUME BillsInv, Plan!AppStoreBuys PROVE BillsInv'
<1> USE DEF BillsInv
<1>1. /\ Plan!Applied("apple")
      /\ row' = [row EXCEPT !.plan = "studio", !.status = "active", !.apple = TRUE]
      /\ UNCHANGED <<customer, subs, due, sessions, tab, hook, coupons, closed, turns>>
  BY DEF Plan!AppStoreBuys, Plan!stripeVars
<1>2. /\ Plan!currentGrantRail' = "apple" /\ GrantsFit'
      /\ paying' \subseteq [rail : {"stripe", "apple"}, end : Nat, last : BOOLEAN]
  BY <1>1, AppliedPays
<1>3. /\ row' \in PlanRows /\ row'.plan = "studio" /\ row'.status = "active"
      /\ row'.apple = TRUE /\ row'.stripe = row.stripe
  BY <1>1 DEF PlanTypes, PlanRows, Plan!Plans
<1>4. Plan!managedInAppStore'
  BY <1>2, <1>3 DEF Plan!managedInAppStore, Plan!subscriptionSource, Plan!railOf
<1>5. /\ BookingFits' /\ NewsIsOfTheLive' /\ MirrorFits'
      /\ \A s \in Subs : Bills(s)' => Bills(s)
  BY <1>1 DEF BookingFits, NewsIsOfTheLive, MirrorFits, Bills, Awaited
<1>6. RowIsTrue'
  BY <1>1, <1>3, <1>4 DEF RowIsTrue, RowShows, Awaited, Plan!Plans
<1>7. OwnersFit' /\ OfferFits'
  BY <1>1, OwnersStay
<1>8. TabFits' /\ OneBills'
  BY <1>1, <1>5, TabStays
<1>9. PlanTypes'
  BY <1>1, <1>2, <1>3 DEF PlanTypes
<1> QED
  BY <1>2, <1>5, <1>6, <1>7, <1>8, <1>9

(* The webhook.                                                            *)
LEMMA HookRest ==
    ASSUME BillsInv,
           UNCHANGED <<customer, subs, sessions, tab, coupons, closed, turns>>
    PROVE /\ BookingFits' /\ MirrorFits' /\ OwnersFit' /\ OfferFits' /\ TabFits' /\ OneBills'
<1>1. BookingFits' /\ MirrorFits' /\ \A s \in Subs : Bills(s)' => Bills(s)
  BY DEF BillsInv, BookingFits, MirrorFits, Bills
<1> QED
  BY <1>1, OwnersStay, TabStays

LEMMA DeliverKeeps ==
    ASSUME BillsInv, NEW event \in due, Plan!Deliver(event) PROVE BillsInv'
<1> USE DEF BillsInv
<1>1. /\ hook.at = "idle" /\ due' = due \ {event}
      /\ UNCHANGED <<customer, subs, sessions, row, paying, turns, tab, coupons, closed>>
  BY DEF Plan!Deliver, Plan!env
<1>2. event.sub \in Subs /\ event.type \in {"changed", "paid", "checkout"}
  BY DEF PlanTypes, Events
<1>3. subs[event.sub] \in Subscriptions
  BY <1>2, SubTyped
<1>4. BookingFits' /\ MirrorFits' /\ OwnersFit' /\ OfferFits' /\ TabFits' /\ OneBills'
  BY <1>1, HookRest
<1>5. GrantsFit'
  BY <1>1 DEF GrantsFit
<1>6. \A s \in Subs : Plan!Live(subs[s]) => event.sub = s /\ \A e \in due' : e.sub = s
  BY <1>1 DEF NewsIsOfTheLive
<1>7. CASE event.type = "paid" /\ ~Plan!Live(subs[event.sub])
  <2>1. hook' = Plan!NoHook
    BY <1>7 DEF Plan!Deliver
  <2>2. hook' \in Hooks /\ hook'.at = "idle"
    BY <2>1, NoHookTyped
  <2>3. \A s \in Subs : ~Plan!Live(subs[s])
    BY <1>6, <1>7
  <2>4. NewsIsOfTheLive' /\ RowIsTrue'
    BY <1>1, <2>3 DEF NewsIsOfTheLive, RowIsTrue
  <2>5. PlanTypes'
    BY <1>1, <2>2 DEF PlanTypes
  <2> QED
    BY <1>4, <1>5, <2>4, <2>5
<1>8. CASE ~(event.type = "paid" /\ ~Plan!Live(subs[event.sub]))
  <2>1. hook' = [at |-> "read", sub |-> event.sub, type |-> event.type,
                 saw |-> subs[event.sub], clear |-> FALSE]
    BY <1>8 DEF Plan!Deliver
  <2>2. hook' \in Hooks /\ hook'.at = "read" /\ hook'.sub = event.sub
        /\ hook'.saw = subs[event.sub]
        /\ [sub |-> hook'.sub, type |-> hook'.type] \in Events
    BY <1>2, <1>3, <2>1 DEF Hooks, Events
  <2>3. NewsIsOfTheLive'
    BY <1>1, <1>6, <2>2 DEF NewsIsOfTheLive
  <2>4. RowIsTrue'
    BY <2>2 DEF RowIsTrue
  <2>5. PlanTypes'
    BY <1>1, <2>2 DEF PlanTypes
  <2> QED
    BY <1>4, <1>5, <2>3, <2>4, <2>5
<1> QED
  BY <1>7, <1>8

LEMMA PendingDoneKeeps == ASSUME BillsInv, Plan!pendingDone PROVE BillsInv'
<1> USE DEF BillsInv
<1> DEFINE done == ~Plan!handleCheckout /\ row.pending = hook.saw.plan
<1>1. /\ hook.at = "read" /\ hook' = [hook EXCEPT !.at = "write", !.clear = done]
      /\ UNCHANGED <<customer, subs, due, sessions, row, paying, turns, tab, coupons, closed>>
  BY DEF Plan!pendingDone, Plan!env, Plan!stripeVars
<1>2. done \in BOOLEAN
  BY DEF Plan!handleCheckout
<1> HIDE DEF done
<1>3. /\ hook' \in Hooks /\ hook'.at = "write" /\ hook'.sub = hook.sub /\ hook'.saw = hook.saw
      /\ hook'.type = hook.type
  BY <1>1, <1>2 DEF PlanTypes, Hooks
<1>4. BookingFits' /\ MirrorFits' /\ OwnersFit' /\ OfferFits' /\ TabFits' /\ OneBills'
  BY <1>1, HookRest
<1>5. NewsIsOfTheLive' /\ RowIsTrue' /\ GrantsFit'
  BY <1>1, <1>3 DEF NewsIsOfTheLive, RowIsTrue, GrantsFit, Awaited
<1>6. PlanTypes'
  BY <1>1, <1>3 DEF PlanTypes
<1> QED
  BY <1>4, <1>5, <1>6

LEMMA HookMirrorKeeps == ASSUME BillsInv, Plan!Mirror PROVE BillsInv'
<1> USE DEF BillsInv
<1>1. /\ hook.at = "write" /\ hook' = Plan!NoHook
      /\ row' = [row EXCEPT !.plan = hook.saw.plan, !.status = Plan!stripeEntitlement(hook.saw),
                            !.stripe = hook.sub,
                            !.pending = IF hook.clear THEN "none" ELSE @]
      /\ UNCHANGED <<customer, subs, due, sessions, turns, tab, coupons, closed>>
  BY DEF Plan!Mirror, Plan!stripeVars
<1>2. /\ hook.sub \in Subs \cup {Nobody} /\ hook.saw \in Subscriptions
      /\ row \in PlanRows
  BY DEF PlanTypes, Hooks
<1>3. /\ row' \in PlanRows /\ row'.plan = hook.saw.plan /\ row'.plan \in Plan!Plans
      /\ row'.status = Plan!stripeEntitlement(hook.saw) /\ row'.stripe = hook.sub
  <2>1. Plan!stripeEntitlement(hook.saw) \in {"expired", "canceled", "active"}
    BY DEF Plan!stripeEntitlement
  <2> QED
    BY <1>1, <1>2, <2>1 DEF PlanRows, Subscriptions
<1>4. hook' \in Hooks /\ hook'.at = "idle"
  BY <1>1, NoHookTyped
<1>5. GrantsFit' /\ paying' \subseteq [rail : {"stripe", "apple"}, end : Nat, last : BOOLEAN]
  <2>1. CASE hook.type = "paid"
    BY <1>1, <2>1, AppliedPays DEF Plan!Mirror
  <2>2. CASE hook.type # "paid"
    BY <1>1, <2>2 DEF Plan!Mirror, GrantsFit, PlanTypes
  <2> QED
    BY <2>1, <2>2
<1>6. BookingFits' /\ MirrorFits' /\ OwnersFit' /\ OfferFits' /\ TabFits' /\ OneBills'
  BY <1>1, HookRest
<1>7. NewsIsOfTheLive'
  BY <1>1, <1>4 DEF NewsIsOfTheLive
<1>8. RowIsTrue'
  <2> SUFFICES ASSUME NEW s \in Subs, Plan!Live(subs[s]), ~Awaited(s) PROVE RowShows(s)'
    BY <1>1 DEF RowIsTrue, Awaited
  <2>1. hook.sub = s /\ Plan!Live(hook.saw) /\ hook.saw.ending = subs[s].ending
    BY <1>1 DEF NewsIsOfTheLive
  <2>2. row'.status = IF subs[s].ending THEN "canceled" ELSE "active"
    BY <1>3, <2>1 DEF Plan!stripeEntitlement
  <2>3. row'.stripe # Nobody
    BY <1>3, <2>1, PlanNobody
  <2>4. row'.status \in {"active", "canceled"} /\ (row'.status = "canceled" <=> subs'[s].ending)
    BY <1>1, <2>2
  <2> QED
    BY <1>3, <2>3, <2>4 DEF RowShows
<1>9. PlanTypes'
  BY <1>1, <1>3, <1>4, <1>5 DEF PlanTypes
<1> QED
  BY <1>5, <1>6, <1>7, <1>8, <1>9

LEMMA HookFailsKeeps == ASSUME BillsInv, Plan!HookFails PROVE BillsInv'
<1> USE DEF BillsInv
<1> DEFINE event == [sub |-> hook.sub, type |-> hook.type]
<1>1. /\ hook.at # "idle" /\ hook' = Plan!NoHook /\ due' = due \cup {event}
      /\ UNCHANGED <<customer, subs, sessions, row, paying, turns, tab, coupons, closed>>
  BY DEF Plan!HookFails, Plan!env
<1>2. hook' \in Hooks /\ hook'.at = "idle"
  BY <1>1, NoHookTyped
<1>3. event \in Events
  BY <1>1 DEF PlanTypes
<1>4. event.sub = hook.sub
  OBVIOUS
<1> HIDE DEF event
<1>5. BookingFits' /\ MirrorFits' /\ OwnersFit' /\ OfferFits' /\ TabFits' /\ OneBills'
  BY <1>1, HookRest
<1>6. \A s \in Subs : Plan!Live(subs[s]) => Awaited(s)' /\ \A e \in due' : e.sub = s
  BY <1>1, <1>4 DEF NewsIsOfTheLive, Awaited
<1>7. NewsIsOfTheLive' /\ RowIsTrue' /\ GrantsFit'
  BY <1>1, <1>2, <1>6 DEF NewsIsOfTheLive, RowIsTrue, GrantsFit
<1>8. PlanTypes'
  BY <1>1, <1>2, <1>3 DEF PlanTypes
<1> QED
  BY <1>5, <1>7, <1>8

LEMMA BillsStay == ASSUME BillsInv, UNCHANGED Plan!planVars PROVE BillsInv'
<1>1. UNCHANGED <<customer, subs, due, sessions, row, paying, turns, hook, coupons, closed, tab>>
  BY DEF Plan!planVars
<1>2. /\ BookingFits' /\ NewsIsOfTheLive' /\ RowIsTrue' /\ GrantsFit'
      /\ \A s \in Subs : Bills(s)' => Bills(s)
  BY <1>1, StripeStays
<1>3. OwnersFit' /\ OfferFits'
  BY <1>1, OwnersStay
<1>4. TabFits' /\ OneBills'
  BY <1>1, <1>2, TabStays
<1>5. MirrorFits' /\ PlanTypes'
  BY <1>1 DEF BillsInv, MirrorFits, PlanTypes
<1> QED
  BY <1>2, <1>3, <1>4, <1>5 DEF BillsInv

Routes == Plan!subscribe \/ Plan!change_plan \/ Plan!cancel \/ Plan!resume \/ Plan!release
            \/ Plan!update \/ Plan!mirror \/ Plan!book \/ Plan!phases \/ Plan!promise
            \/ Plan!CallFails \/ Plan!reconcileStripeSubscriptions

(* A step of the component, as the lemmas below take them apart.           *)
PlanSteps ==
    \/ \E kind \in {"subscribe", "change", "cancel", "resume", "close"},
          to \in Plan!Plans \cup {"none"}, when \in {"none", "now", "period_end"} :
         (kind \in {"subscribe", "change"} => to \in Plan!Plans) /\ Plan!Ask(kind, to, when)
    \/ Routes /\ turns' = turns
    \/ Plan!deleteAccount
    \/ \E s \in Subs, open \in sessions : Plan!PaySession(open, s)
    \/ \E s \in Subs : Plan!Renews(s) \/ Plan!PaymentFails(s)
    \/ Plan!AppStoreBuys
    \/ \E event \in due : Plan!Deliver(event)
    \/ Plan!pendingDone \/ Plan!Mirror \/ Plan!HookFails

LEMMA PlanTakenApart == Plan!Next => PlanSteps
<1> SUFFICES ASSUME Plan!Next PROVE PlanSteps
  OBVIOUS
<1>1. ASSUME NEW to \in Plan!Plans, Plan!Ask("subscribe", to, "none") PROVE PlanSteps
  BY <1>1 DEF PlanSteps
<1>2. ASSUME NEW to \in Plan!Plans, NEW when \in {"now", "period_end"},
             Plan!Ask("change", to, when)
      PROVE PlanSteps
  BY <1>2 DEF PlanSteps
<1>3. ASSUME NEW kind \in {"cancel", "resume", "close"}, Plan!Ask(kind, "none", "none")
      PROVE PlanSteps
  BY <1>3 DEF PlanSteps
<1>4. CASE Routes /\ turns' = turns
  BY <1>4 DEF PlanSteps
<1>5. CASE \/ Plan!deleteAccount
           \/ \E s \in Subs :
                \/ \E open \in sessions : Plan!PaySession(open, s)
                \/ Plan!Renews(s) \/ Plan!PaymentFails(s)
           \/ Plan!AppStoreBuys
           \/ \E event \in due : Plan!Deliver(event)
           \/ Plan!pendingDone \/ Plan!Mirror \/ Plan!HookFails
  BY <1>5, Zenon DEF PlanSteps
<1> QED
  BY <1>1, <1>2, <1>3, <1>4, <1>5, Zenon DEF Plan!Next, Routes

LEMMA BillsStep ==
    ASSUME ~LossyRoutes, ~StaleSessions, BillsInv, [Plan!Next]_(Plan!planVars)
    PROVE BillsInv'
<1>1. ASSUME NEW kind \in {"subscribe", "change", "cancel", "resume", "close"},
             NEW to \in Plan!Plans \cup {"none"}, NEW when \in {"none", "now", "period_end"},
             kind \in {"subscribe", "change"} => to \in Plan!Plans, Plan!Ask(kind, to, when)
      PROVE BillsInv'
  BY <1>1, AskKeeps
<1>2. ASSUME Routes, turns' = turns PROVE BillsInv'
  BY <1>2, SubscribeKeeps, ListedKeeps, ReleasePlanKeeps, UpdateKeeps, MirrorKeeps, BookKeeps,
     PromiseKeeps, CallFailsKeeps, ReconcileKeeps, Zenon DEF Routes
<1>3. ASSUME NEW s \in Subs, NEW open \in sessions, Plan!PaySession(open, s) PROVE BillsInv'
  BY <1>3, PayKeeps
<1>4. ASSUME NEW s \in Subs, Plan!Renews(s) \/ Plan!PaymentFails(s) PROVE BillsInv'
  BY <1>4, RenewsKeeps
<1>5. ASSUME NEW event \in due, Plan!Deliver(event) PROVE BillsInv'
  BY <1>5, DeliverKeeps
<1>6. CASE Plan!deleteAccount \/ Plan!AppStoreBuys \/ Plan!pendingDone \/ Plan!Mirror
             \/ Plan!HookFails
  BY <1>6, DeleteKeeps, AppStoreKeeps, PendingDoneKeeps, HookMirrorKeeps, HookFailsKeeps
<1>7. PlanSteps => BillsInv'
  BY <1>1, <1>2, <1>3, <1>4, <1>5, <1>6, Zenon DEF PlanSteps
<1> QED
  BY <1>7, PlanTakenApart, BillsStay

LEMMA PlanCardinality == \A S : Plan!Cardinality(S) = Cardinality(S)
BY DEF Plan!Cardinality, Cardinality

LEMMA BillsSuffice == BillsInv => Plan!BillsAreOurs
<1> SUFFICES ASSUME BillsInv PROVE Plan!BillsAreOurs
  OBVIOUS
<1> USE DEF BillsInv
<1> DEFINE B == {s \in Subs : Plan!Live(subs[s]) \/ subs[s].status = "unpaid"}
<1>1. \A s \in B : s \in Subs /\ Bills(s)
  BY DEF Bills
<1>2. Plan!BilledOnce
  <2>1. coupons <= 1
    BY DEF PlanTypes
  <2>2. CASE B = {}
    BY <2>1, <2>2, PlanCardinality, FS_EmptySet DEF Plan!BilledOnce
  <2>3. CASE B # {}
    <3>1. PICK s \in B : TRUE
      BY <2>3
    <3>2. B = {s}
      BY <1>1, <3>1 DEF OneBills
    <3>3. ~closed
      BY <1>1, <3>1 DEF OneBills
    <3>4. Cardinality(B) = 1
      BY <3>2, FS_Singleton
    <3> QED
      BY <2>1, <3>3, <3>4, PlanCardinality DEF Plan!BilledOnce
  <2> QED
    BY <2>2, <2>3
<1>3. Plan!BilledIsCancellable
  <2> SUFFICES ASSUME Plan!AtRest, NEW s \in Subs, Plan!Live(subs[s])
               PROVE /\ Plan!plan # "none" /\ Plan!stripeControls
                     /\ Plan!stripeEnding <=> subs[s].ending
    BY DEF Plan!BilledIsCancellable
  <2>1. RowShows(s)
    BY DEF RowIsTrue, Plan!AtRest, Awaited
  <2>2. Plan!plan # "none"
    BY <2>1 DEF RowShows, Plan!plan, Plan!isEntitled, Plan!Plans
  <2>3. s \in Plan!Of(customer)
    <3>1. subs[s].of = customer
      BY DEF OwnersFit, Plan!Live
    <3> QED
      BY <3>1 DEF Plan!Of
  <2>4. ~Plan!EmptyOverview
    BY <2>1 DEF RowShows, Plan!EmptyOverview, Plan!appStoreOnly
  <2>5. Plan!stripeLive
    BY <2>3, <2>4 DEF Plan!stripeLive
  <2>6. \A t \in Plan!Of(customer) : Plan!Live(subs[t]) => t = s
    BY DEF Plan!Of, OneBills, Bills
  <2>7. Plan!overviewEnding <=> subs[s].ending
    BY <2>3, <2>5, <2>6 DEF Plan!overviewEnding
  <2>8. Plan!stripeEnding <=> subs[s].ending
    <3>1. CASE Plan!managedInAppStore
      BY <2>5, <2>7, <3>1 DEF Plan!stripeEnding, Plan!twoSubscriptions
    <3>2. CASE ~Plan!managedInAppStore
      <4>1. row.status = "canceled" <=> subs[s].ending
        BY <2>1, <3>2 DEF RowShows
      <4>2. Plan!stripeEnding = Plan!canceledPending
        BY <3>2 DEF Plan!stripeEnding, Plan!twoSubscriptions
      <4>3. Plan!canceledPending <=> row.status = "canceled"
        BY <2>2 DEF Plan!canceledPending
      <4> QED
        BY <4>1, <4>2, <4>3
    <3> QED
      BY <3>1, <3>2
  <2> QED
    BY <2>2, <2>5, <2>8 DEF Plan!stripeControls
<1> QED
  BY <1>2, <1>3 DEF Plan!BillsAreOurs

(* One subscription at a time bills the customer and none bills a closed   *)
(* account, the launch offer is given once, and whoever Stripe bills is    *)
(* offered to cancel or resume it: where no checkout is left open and no   *)
(* route fails unnoticed, for any number of subscriptions, requests and    *)
(* periods, whatever order webhooks, dunning and the App Store come in.    *)
THEOREM BillsAreTheirs ==
    ASSUME ~LossyRoutes, ~StaleSessions PROVE Plan!Spec => []Plan!BillsAreOurs
<1>1. Plan!Init => BillsInv
  BY BillsInit
<1>2. BillsInv /\ [Plan!Next]_(Plan!planVars) => BillsInv'
  BY BillsStep
<1>3. BillsInv => Plan!BillsAreOurs
  BY BillsSuffice
<1> QED
  BY <1>1, <1>2, <1>3, PTL DEF Plan!Spec

-----------------------------------------------------------------------------
(* What was announced for the renewal: PendingInv, action by action.       *)

LEMMA PendingInit == Plan!Init => PendingInv
<1> SUFFICES ASSUME Plan!Init PROVE PendingInv
  OBVIOUS
<1> DEFINE fresh == [plan |-> "none", status |-> IF apple = "lapsed" THEN "expired" ELSE "none",
                     stripe |-> Nobody, apple |-> apple = "lapsed", pending |-> "none"]
<1>0. /\ fresh.pending = "none"
      /\ \A bought, s : [fresh EXCEPT !.plan = bought, !.status = "active",
                                      !.stripe = s].pending = "none"
  OBVIOUS
<1> HIDE DEF fresh
<1>1. row.pending = "none"
  <2>1. \/ row = fresh
        \/ \E bought, s : row = [fresh EXCEPT !.plan = bought, !.status = "active", !.stripe = s]
    BY DEF Plan!Init, fresh
  <2> QED
    BY <1>0, <2>1
<1>2. tab.at = "idle"
  BY NoTabTyped DEF Plan!Init
<1> QED
  BY <1>1, <1>2 DEF PendingInv, PendingKept, BookedIsPending, StepsBooked

(* Steps of the request that say nothing to Stripe nor to the row.         *)
LEMMA PendingCalm ==
    ASSUME PendingInv, UNCHANGED <<subs, due, row, hook>>, closed => closed',
           tab.at \notin {"mirror", "phases", "promise"},
           tab.at = "update" => ~Plan!Live(subs[tab.sub]),
           tab.at \in {"end", "record"} => closed' \/ tab'.at \in {"end", "record"},
           tab'.at \notin {"phases", "promise"},
           tab'.at = "update" => subs[tab'.sub].booked = "none"
    PROVE PendingInv'
<1> USE DEF PendingInv
<1>1. PendingKept'
  <2> SUFFICES ASSUME row.pending # "none"
               PROVE /\ row.status # "none"
                     /\ (\E s \in Subs : Booked(s)' \/ Arriving(s)') \/ Closing'
    BY DEF PendingKept
  <2>1. row.status # "none" /\ ((\E s \in Subs : Booked(s) \/ Arriving(s)) \/ BeingDropped \/ Closing)
    BY DEF PendingKept
  <2>2. \A s \in Subs : (Booked(s) => Booked(s)') /\ (Arriving(s) => Arriving(s)')
    BY DEF Booked, Arriving
  <2>3. ~BeingDropped
    BY DEF BeingDropped
  <2>4. Closing => Closing'
    BY DEF Closing
  <2> QED
    BY <2>1, <2>2, <2>3, <2>4
<1>2. BookedIsPending'
  BY DEF BookedIsPending
<1>3. StepsBooked'
  BY DEF StepsBooked
<1> QED
  BY <1>1, <1>2, <1>3

LEMMA NoTabIdle == Plan!Answered => tab'.at = "idle"
BY NoTabTyped DEF Plan!Answered, Plan!Goes

LEMMA AskPends ==
    ASSUME BillsInv, PendingInv, NEW kind, NEW to, NEW when, Plan!Ask(kind, to, when)
    PROVE PendingInv'
<1>1. /\ tab.at = "idle" /\ UNCHANGED <<subs, due, row, hook, closed>>
      /\ Plan!stripeCustomerFor([Plan!NoTab EXCEPT !.kind = kind, !.plan = to, !.when = when])
  BY DEF Plan!Ask, Plan!stripeVars
<1>3. tab'.at \in {"list", "record"}
  <2> DEFINE t == [Plan!NoTab EXCEPT !.kind = kind, !.plan = to, !.when = when]
  <2>1. /\ \A c : [t EXCEPT !.at = "list", !.customer = c].at = "list"
        /\ [t EXCEPT !.at = "record"].at = "record"
    BY DEF Plan!NoTab
  <2> HIDE DEF t
  <2>2. Plan!stripeCustomerFor(t)
    BY <1>1 DEF t
  <2> QED
    BY <2>1, <2>2 DEF Plan!stripeCustomerFor, Plan!Goes
<1> QED
  BY <1>1, <1>3, PendingCalm

LEMMA ListPends ==
    ASSUME BillsInv, PendingInv, ~LossyRoutes,
           \/ Plan!subscribe \/ Plan!change_plan \/ Plan!cancel \/ Plan!resume \/ Plan!CallFails
    PROVE PendingInv'
<1>1. /\ tab.at \in {"list", "book"}
      /\ UNCHANGED <<subs, due, row, hook, closed>>
  BY DEF Plan!subscribe, Plan!change_plan, Plan!cancel, Plan!resume, Plan!CallFails,
         Plan!Listed, Plan!stripeVars
<1>2. CASE Plan!Answered
  BY <1>1, <1>2, NoTabIdle, PendingCalm
<1>3. ASSUME NEW s \in Plan!live, NEW at \in {"book", "release", "update", "mirror"},
             Plan!Take(s, at), at = "update" => subs[s].booked = "none"
      PROVE PendingInv'
  <2>1. tab'.at = at /\ tab'.sub = s
    BY <1>3 DEF Plan!Take, Plan!Goes, BillsInv, PlanTypes, Tabs
  <2> QED
    BY <1>1, <1>3, <2>1, PendingCalm
<1>4. CASE Plan!subscribe \/ Plan!CallFails
  BY <1>2, <1>4 DEF Plan!subscribe, Plan!CallFails
<1>5. CASE Plan!change_plan \/ Plan!cancel
  BY <1>2, <1>3, <1>5 DEF Plan!change_plan, Plan!cancel, Plan!ReleaseFirst
<1>6. CASE Plan!resume
  <2>1. ASSUME NEW s \in Plan!live, subs[s].ending PROVE subs[s].booked = "none"
    BY <2>1 DEF Plan!live, Plan!Of, BillsInv, BookingFits
  <2> QED
    BY <1>2, <1>3, <1>6, <2>1 DEF Plan!resume
<1> QED
  BY <1>4, <1>5, <1>6

(* A step of the request at Stripe.                                        *)
LEMMA BecomesThere ==
    ASSUME BillsInv, NEW s \in Subs, NEW sub \in Subscriptions, NEW types,
           Plan!Becomes(s, sub, types), "changed" \in types
    PROVE /\ subs'[s] = sub /\ \A t \in Subs : t # s => subs'[t] = subs[t]
          /\ due \subseteq due' /\ [sub |-> s, type |-> "changed"] \in due'
<1>1. subs' = [subs EXCEPT ![s] = sub]
  BY DEF Plan!Becomes
<1>2. due' = due \cup {[sub |-> s, type |-> type] : type \in types}
  BY DEF Plan!Becomes
<1> QED
  BY <1>1, <1>2 DEF BillsInv, PlanTypes

LEMMA GoesThere ==
    ASSUME BillsInv, NEW at, Plan!Go(at)
    PROVE tab'.at = at /\ tab'.sub = tab.sub /\ tab'.kind = tab.kind /\ tab'.plan = tab.plan
BY DEF BillsInv, PlanTypes, Tabs, Plan!Go, Plan!Goes

LEMMA ReleasePends == ASSUME BillsInv, PendingInv, Plan!release PROVE PendingInv'
<1> USE DEF PendingInv
<1>1. tab.at = "release" /\ UNCHANGED <<row, hook, closed>>
  BY DEF Plan!release
<1>2. CASE subs[tab.sub].booked = "none"
  <2>1. Plan!Answered /\ UNCHANGED <<subs, due>>
    BY <1>2 DEF Plan!release, Plan!stripeVars
  <2> QED
    BY <1>1, <2>1, NoTabIdle, PendingCalm
<1>3. CASE subs[tab.sub].booked # "none"
  <2> DEFINE sub == [subs[tab.sub] EXCEPT !.booked = "none"]
  <2>1. Plan!Becomes(tab.sub, sub, {"changed"}) /\ Plan!Go("update")
    BY <1>3 DEF Plan!release
  <2>2. /\ tab.sub \in Subs /\ tab.kind \in {"change", "cancel"}
        /\ subs[tab.sub] \in Subscriptions
    BY <1>1, SubTyped DEF BillsInv, TabFits, Routed
  <2>3. /\ sub \in Subscriptions /\ sub.status = subs[tab.sub].status
        /\ sub.ending = subs[tab.sub].ending /\ sub.booked = "none"
    BY <2>2 DEF Subscriptions
  <2> HIDE DEF sub
  <2>4. /\ subs'[tab.sub] = sub /\ \A t \in Subs : t # tab.sub => subs'[t] = subs[t]
        /\ tab'.at = "update" /\ tab'.sub = tab.sub /\ tab'.kind = tab.kind
    BY <2>1, <2>2, <2>3, BecomesThere, GoesThere
  <2>5. BeingDropped'
    BY <1>3, <2>2, <2>3, <2>4 DEF BillsInv, BookingFits, BeingDropped, Plan!Live
  <2>6. PendingKept'
    BY <1>1, <2>5 DEF PendingKept
  <2>7. BookedIsPending' /\ StepsBooked'
    BY <1>1, <2>3, <2>4 DEF BookedIsPending, StepsBooked
  <2> QED
    BY <2>6, <2>7
<1> QED
  BY <1>2, <1>3

LEMMA UpdatePends == ASSUME BillsInv, PendingInv, Plan!update PROVE PendingInv'
<1> USE DEF PendingInv
<1>1. tab.at = "update" /\ UNCHANGED <<row, hook, closed>>
  BY DEF Plan!update
<1>2. subs[tab.sub].booked = "none"
  BY <1>1 DEF StepsBooked
<1>3. CASE ~Plan!Live(subs[tab.sub])
  <2>1. Plan!Answered /\ UNCHANGED <<subs, due>>
    BY <1>3 DEF Plan!update, Plan!stripeVars
  <2> QED
    BY <1>1, <1>3, <2>1, NoTabIdle, PendingCalm
<1>4. CASE Plan!Live(subs[tab.sub])
  <2>1. /\ tab.sub \in Subs /\ subs[tab.sub] \in Subscriptions /\ ~closed
        /\ tab.kind \in {"change", "cancel", "resume"}
        /\ tab.kind = "change" => tab.plan \in Plan!Plans
    BY <1>1, SubTyped DEF BillsInv, TabFits, Routed
  <2>2. Plan!Go("mirror")
    BY <1>2, <1>4 DEF Plan!update
  <2>3. tab'.at = "mirror" /\ tab'.sub = tab.sub /\ tab'.kind = tab.kind
    BY <2>2, GoesThere
  <2>4. PICK sub \in Subscriptions, types \in SUBSET {"changed", "paid"} :
          /\ Plan!Becomes(tab.sub, sub, types) /\ "changed" \in types
          /\ sub.booked = "none"
          /\ tab.kind = "resume" => sub.plan = subs[tab.sub].plan
    <3>1. CASE tab.kind = "change"
      <4> DEFINE new == [subs[tab.sub] EXCEPT !.plan = tab.plan, !.ending = FALSE]
      <4>1. Plan!Becomes(tab.sub, new, {"changed", "paid"})
        BY <1>2, <1>4, <3>1 DEF Plan!update
      <4>2. new \in Subscriptions /\ new.booked = "none"
        BY <1>2, <2>1, <3>1 DEF Subscriptions
      <4> HIDE DEF new
      <4> QED
        BY <3>1, <4>1, <4>2
    <3>2. CASE tab.kind \in {"cancel", "resume"}
      <4> DEFINE new == [subs[tab.sub] EXCEPT !.ending = (tab.kind = "cancel")]
      <4>1. Plan!Becomes(tab.sub, new, {"changed"})
        <5>1. CASE tab.kind = "cancel"
          <6>1. new = [subs[tab.sub] EXCEPT !.ending = TRUE]
            BY <5>1
          <6> QED
            BY <1>2, <1>4, <5>1, <6>1 DEF Plan!update
        <5>2. CASE tab.kind = "resume"
          <6>1. new = [subs[tab.sub] EXCEPT !.ending = FALSE]
            BY <5>2
          <6> QED
            BY <1>2, <1>4, <5>2, <6>1 DEF Plan!update
        <5> QED
          BY <3>2, <5>1, <5>2
      <4>2. new \in Subscriptions /\ new.booked = "none" /\ new.plan = subs[tab.sub].plan
        BY <1>2, <2>1 DEF Subscriptions
      <4> HIDE DEF new
      <4> QED
        BY <4>1, <4>2
    <3> QED
      BY <2>1, <3>1, <3>2
  <2>5. /\ subs'[tab.sub] = sub /\ \A t \in Subs : t # tab.sub => subs'[t] = subs[t]
        /\ due \subseteq due'
    BY <2>1, <2>4, BecomesThere
  <2>6. PendingKept'
    <3> SUFFICES ASSUME row.pending # "none"
                 PROVE /\ row.status # "none"
                       /\ (\E s \in Subs : Booked(s)' \/ Arriving(s)') \/ BeingDropped'
      BY <1>1 DEF PendingKept
    <3>1. /\ row.status # "none"
          /\ (\E s \in Subs : Booked(s) \/ Arriving(s)) \/ BeingDropped \/ Closing
      BY DEF PendingKept
    <3>2. CASE tab.kind \in {"change", "cancel"}
      BY <2>3, <3>1, <3>2 DEF BeingDropped
    <3>3. CASE tab.kind = "resume"
      <4>1. ~BeingDropped /\ ~Closing
        BY <1>1, <2>1, <3>3 DEF BeingDropped, Closing
      <4>2. ASSUME NEW s \in Subs, Booked(s) PROVE Booked(s)'
        BY <1>1, <1>2, <2>3, <2>5, <4>2 DEF Booked
      <4>3. ASSUME NEW s \in Subs, Arriving(s) PROVE Arriving(s)'
        <5>1. subs'[s].plan = subs[s].plan
          BY <2>4, <2>5, <3>3
        <5> QED
          BY <1>1, <2>5, <4>3, <5>1 DEF Arriving
      <4> QED
        BY <3>1, <4>1, <4>2, <4>3
    <3> QED
      BY <2>1, <3>2, <3>3
  <2>7. BookedIsPending' /\ StepsBooked'
    BY <1>1, <2>3, <2>4, <2>5 DEF BookedIsPending, StepsBooked
  <2> QED
    BY <2>6, <2>7
<1> QED
  BY <1>3, <1>4

LEMMA MirrorPends == ASSUME BillsInv, PendingInv, Plan!mirror PROVE PendingInv'
<1> USE DEF PendingInv
<1>1. /\ tab.at = "mirror" /\ Plan!Answered /\ UNCHANGED <<subs, due, hook, closed>>
  BY DEF Plan!mirror, Plan!stripeVars
<1>2. tab'.at = "idle" /\ ~closed
  BY <1>1, NoTabIdle DEF BillsInv, TabFits
<1>3. row \in PlanRows /\ tab.kind \in {"change", "cancel", "resume"}
  BY <1>1 DEF BillsInv, PlanTypes, TabFits, Routed
<1>4. StepsBooked'
  BY <1>2 DEF StepsBooked
<1>5. /\ row'.pending \in {"none", row.pending}
      /\ tab.kind \in {"change", "cancel"} => row'.pending = "none"
      /\ row.status # "none" => row'.status # "none"
  <2>1. CASE row.status = "none"
    BY <2>1 DEF Plan!mirror, PendingKept
  <2>2. CASE row.status # "none"
    <3> DEFINE shown == IF tab.kind = "change" THEN tab.plan ELSE row.plan
               status == IF tab.kind = "cancel" THEN "canceled" ELSE "active"
               stripe == IF tab.kind = "change" THEN tab.sub ELSE row.stripe
               pending == IF Plan!ForgetsBooking THEN "none" ELSE row.pending
    <3>1. row' = [row EXCEPT !.plan = shown, !.status = status, !.stripe = stripe,
                             !.pending = pending]
      BY <2>2 DEF Plan!mirror
    <3>2. status # "none" /\ pending \in {"none", row.pending}
      OBVIOUS
    <3>3. tab.kind \in {"change", "cancel"} => pending = "none"
      BY DEF Plan!ForgetsBooking
    <3> HIDE DEF shown, status, stripe, pending
    <3>4. row'.pending = pending /\ row'.status = status
      BY <1>3, <3>1 DEF PlanRows
    <3> QED
      BY <3>2, <3>3, <3>4
  <2> QED
    BY <2>1, <2>2
<1>6. BookedIsPending'
  BY <1>1, <1>5 DEF BookedIsPending
<1>7. PendingKept'
  <2> SUFFICES ASSUME row'.pending # "none"
               PROVE row'.status # "none" /\ \E s \in Subs : Booked(s)' \/ Arriving(s)'
    BY DEF PendingKept
  <2>1. row'.pending = row.pending /\ tab.kind = "resume"
    BY <1>3, <1>5
  <2>2. row.status # "none" /\ (\E s \in Subs : Booked(s) \/ Arriving(s))
    BY <1>1, <1>2, <2>1 DEF PendingKept, BeingDropped, Closing
  <2>3. \A s \in Subs : (Booked(s) => Booked(s)') /\ (Arriving(s) => Arriving(s)')
    BY <1>1, <1>2, <2>1 DEF Booked, Arriving
  <2> QED
    BY <1>5, <2>2, <2>3
<1> QED
  BY <1>4, <1>6, <1>7

LEMMA BookPends == ASSUME BillsInv, PendingInv, Plan!book \/ Plan!phases PROVE PendingInv'
<1> USE DEF PendingInv
<1>1. tab.at \in {"book", "phases"} /\ UNCHANGED <<row, hook, closed>>
  BY DEF Plan!book, Plan!phases
<1>2. /\ tab.sub \in Subs /\ subs[tab.sub] \in Subscriptions /\ ~closed
      /\ tab.plan \in Plan!Plans /\ subs[tab.sub].plan \in Plan!Plans
  BY <1>1, SubTyped DEF BillsInv, TabFits, Routed, Subscriptions
<1>3. ASSUME NEW to \in Plan!Plans, NEW at, at = IF tab.at = "book" THEN "phases" ELSE "promise",
             Plan!Go(at), at = "promise" => to = tab.plan,
             tab.at = "book" => subs[tab.sub].booked = "none",
             Plan!Live(subs[tab.sub]),
             Plan!Becomes(tab.sub, [subs[tab.sub] EXCEPT !.booked = to], {"changed"})
      PROVE PendingInv'
  <2> DEFINE sub == [subs[tab.sub] EXCEPT !.booked = to]
  <2>1. /\ sub \in Subscriptions /\ sub.status = subs[tab.sub].status
        /\ sub.plan = subs[tab.sub].plan /\ sub.booked = to
    BY <1>2 DEF Subscriptions
  <2>2. Plan!Becomes(tab.sub, sub, {"changed"})
    BY <1>3
  <2> HIDE DEF sub
  <2>3. /\ subs'[tab.sub] = sub /\ \A t \in Subs : t # tab.sub => subs'[t] = subs[t]
        /\ due \subseteq due'
        /\ tab'.at = at /\ tab'.sub = tab.sub /\ tab'.plan = tab.plan
    BY <1>2, <1>3, <2>1, <2>2, BecomesThere, GoesThere
  <2>4. to # "none"
    BY DEF Plan!Plans
  <2>5. Plan!Live(sub)
    BY <1>3, <2>1 DEF Plan!Live
  <2>6. StepsBooked'
    BY <1>1, <1>3, <2>1, <2>3, <2>4, <2>5 DEF StepsBooked
  <2>7. BookedIsPending'
    BY <1>1, <1>3, <2>3 DEF BookedIsPending
  <2>8. PendingKept'
    <3> SUFFICES ASSUME row.pending # "none"
                 PROVE row.status # "none" /\ \E s \in Subs : Booked(s)' \/ Arriving(s)'
      BY <1>1 DEF PendingKept
    <3>1. row.status # "none" /\ (\E s \in Subs : Booked(s) \/ Arriving(s))
      BY <1>1, <1>2 DEF PendingKept, BeingDropped, Closing
    <3>2. ASSUME NEW s \in Subs, Booked(s) PROVE Booked(s)'
      <4>1. s # tab.sub
        BY <1>1, <1>3, <3>2 DEF Booked
      <4> QED
        BY <1>1, <2>3, <3>2, <4>1 DEF Booked
    <3>3. ASSUME NEW s \in Subs, Arriving(s) PROVE Arriving(s)'
      <4>1. subs'[s].plan = subs[s].plan
        BY <2>1, <2>3
      <4> QED
        BY <1>1, <2>3, <3>3, <4>1 DEF Arriving
    <3> QED
      BY <3>1, <3>2, <3>3
  <2> QED
    BY <2>6, <2>7, <2>8
<1>4. CASE Plan!book
  <2>1. CASE Plan!Bookable(subs[tab.sub])
    BY <1>2, <1>3, <1>4, <2>1 DEF Plan!book, Plan!Bookable
  <2>2. CASE ~Plan!Bookable(subs[tab.sub])
    <3>1. tab.at = "book" /\ Plan!Answered /\ UNCHANGED <<subs, due>>
      BY <1>4, <2>2 DEF Plan!book, Plan!stripeVars
    <3> QED
      BY <1>1, <3>1, NoTabIdle, PendingCalm
  <2> QED
    BY <2>1, <2>2
<1>5. CASE Plan!phases
  <2>1. tab.at = "phases" /\ Plan!Live(subs[tab.sub]) /\ subs[tab.sub].booked # "none"
    BY <1>5 DEF Plan!phases, StepsBooked
  <2> QED
    BY <1>2, <1>3, <1>5, <2>1 DEF Plan!phases
<1> QED
  BY <1>4, <1>5

LEMMA PromisePends == ASSUME BillsInv, PendingInv, Plan!promise PROVE PendingInv'
<1> USE DEF PendingInv
<1>1. /\ tab.at = "promise" /\ Plan!Answered /\ UNCHANGED <<subs, due, hook, closed>>
  BY DEF Plan!promise, Plan!stripeVars
<1>2. tab'.at = "idle"
  BY <1>1, NoTabIdle
<1>3. /\ row \in PlanRows /\ tab.sub \in Subs /\ \A s \in Subs : Bills(s) => s = tab.sub
      /\ subs[tab.sub].booked = tab.plan
  BY <1>1 DEF BillsInv, PlanTypes, TabFits, Routed, StepsBooked
<1>4. StepsBooked'
  BY <1>2 DEF StepsBooked
<1>5. CASE row.status = "none"
  <2>1. row' = row /\ row.pending = "none"
    BY <1>5 DEF Plan!promise, PendingKept
  <2> QED
    BY <1>4, <2>1 DEF PendingKept, BookedIsPending
<1>6. CASE row.status # "none"
  <2>0. row' = [row EXCEPT !.pending = tab.plan]
    BY <1>6 DEF Plan!promise
  <2>1. row'.pending = tab.plan /\ row'.status # "none"
    BY <1>3, <1>6, <2>0 DEF PlanRows
  <2>2. \E s \in Subs : Booked(s)'
    <3>1. PICK s \in Subs : s = tab.sub
      BY <1>3
    <3> QED
      BY <1>1, <1>2, <1>3, <2>1, <3>1 DEF Booked
  <2>3. PendingKept'
    BY <1>3, <2>1, <2>2 DEF PendingKept
  <2>4. BookedIsPending'
    <3>1. \A s \in Subs : subs[s].booked # "none" => s = tab.sub
      BY <1>3 DEF BillsInv, BookingFits, Bills
    <3> QED
      BY <1>1, <1>3, <2>1, <3>1 DEF BookedIsPending
  <2> QED
    BY <1>4, <2>3, <2>4
<1> QED
  BY <1>5, <1>6

LEMMA ClosePends ==
    ASSUME BillsInv, PendingInv, Plan!reconcileStripeSubscriptions \/ Plan!deleteAccount
    PROVE PendingInv'
<1> USE DEF PendingInv
<1>1. UNCHANGED <<row, hook>>
  BY DEF Plan!reconcileStripeSubscriptions, Plan!deleteAccount
<1>2. ASSUME tab.at \in {"list", "end", "record"}, UNCHANGED <<subs, due>>, closed => closed',
             closed' \/ tab'.at \in {"end", "record"},
             tab'.at \in {"idle", "end", "record"}
      PROVE PendingInv'
  BY <1>1, <1>2, PendingCalm
<1>3. CASE Plan!deleteAccount
  <2>1. tab.at = "record" /\ closed' = TRUE /\ UNCHANGED <<subs, due>> /\ Plan!Answered
    BY <1>3 DEF Plan!deleteAccount, Plan!stripeVars
  <2> QED
    BY <1>2, <2>1, NoTabIdle
<1>4. CASE Plan!reconcileStripeSubscriptions
  <2>1. tab.kind = "close" /\ closed' = closed /\ tab \in Tabs
    BY <1>4 DEF Plan!reconcileStripeSubscriptions, BillsInv, PlanTypes
  <2>2. ASSUME tab.at = "list", UNCHANGED <<subs, due>>,
               tab' = [tab EXCEPT !.at = "end", !.customer = Nobody,
                                  !.left = Plan!Billing(tab.customer)]
        PROVE PendingInv'
    <3>1. tab'.at = "end"
      BY <2>1, <2>2 DEF Tabs
    <3> QED
      BY <1>2, <2>1, <2>2, <3>1
  <2>3. ASSUME tab.at = "end", Plan!Go("record"), UNCHANGED <<subs, due>> PROVE PendingInv'
    BY <1>2, <2>1, <2>3, GoesThere
  <2>4. ASSUME tab.at = "end", NEW s \in tab.left,
               Plan!Becomes(s, [subs[s] EXCEPT !.status = "ended", !.booked = "none"], {"changed"}),
               tab' = [tab EXCEPT !.left = @ \ {s}]
        PROVE PendingInv'
    <3> DEFINE sub == [subs[s] EXCEPT !.status = "ended", !.booked = "none"]
    <3>1. s \in Subs /\ subs[s] \in Subscriptions /\ tab'.at = "end"
      BY <2>1, <2>4, SubTyped DEF Tabs
    <3>2. sub \in Subscriptions /\ sub.booked = "none"
      BY <3>1 DEF Subscriptions, Statuses
    <3>3. Plan!Becomes(s, sub, {"changed"})
      BY <2>4
    <3> HIDE DEF sub
    <3>4. subs'[s] = sub /\ \A t \in Subs : t # s => subs'[t] = subs[t]
      BY <3>1, <3>2, <3>3, BecomesThere
    <3>5. PendingKept'
      BY <1>1, <2>1, <3>1 DEF PendingKept, Closing
    <3>6. BookedIsPending' /\ StepsBooked'
      BY <1>1, <2>4, <3>1, <3>2, <3>4 DEF BookedIsPending, StepsBooked
    <3> QED
      BY <3>5, <3>6
  <2> QED
    BY <1>4, <2>2, <2>3, <2>4
    DEF Plan!reconcileStripeSubscriptions, Plan!Goes, Plan!stripeVars
<1> QED
  BY <1>3, <1>4

LEMMA PayPends ==
    ASSUME BillsInv, PendingInv, ~StaleSessions, NEW open \in sessions, NEW s \in Subs,
           Plan!PaySession(open, s)
    PROVE PendingInv'
<1> USE DEF PendingInv
<1>1. /\ tab.at = "idle" /\ hook.at = "idle" /\ due = {} /\ UNCHANGED <<row, tab>>
  BY DEF Plan!PaySession
<1>2. ~closed /\ \A t \in Subs : ~Plan!Live(subs[t])
  BY DEF BillsInv, OneBills, Bills
<1>3. \A t \in Subs : subs[t].booked = "none"
  BY <1>2 DEF BillsInv, BookingFits
<1>4. row.pending = "none"
  BY <1>1, <1>2, <1>3 DEF PendingKept, Booked, Arriving, BeingDropped, Closing
<1> QED
  BY <1>1, <1>4 DEF PendingKept, BookedIsPending, StepsBooked

LEMMA RenewsPends ==
    ASSUME BillsInv, PendingInv, ~LossyRoutes, NEW s \in Subs, Plan!Renews(s)
    PROVE PendingInv'
<1> USE DEF PendingInv
<1>1. /\ Plan!Live(subs[s]) /\ tab.at \notin {"phases", "promise"}
      /\ UNCHANGED <<row, tab, hook, closed>>
  BY DEF Plan!Renews
<1>2. subs[s] \in Subscriptions
  BY SubTyped
<1>3. tab.at = "update" => tab.sub \in Subs
  BY DEF BillsInv, TabFits, Routed
<1>4. PICK sub \in Subscriptions, types \in SUBSET {"changed", "paid"} :
        /\ Plan!Becomes(s, sub, types) /\ "changed" \in types
        /\ sub.booked = "none" /\ sub.ending = subs[s].ending
        /\ ~subs[s].ending => sub.status = "active"
        /\ sub.plan = IF subs[s].booked = "none" THEN subs[s].plan ELSE subs[s].booked
  <2>1. CASE subs[s].ending
    <3> DEFINE new == [subs[s] EXCEPT !.status = "ended"]
    <3>1. Plan!Becomes(s, new, {"changed"})
      BY <2>1 DEF Plan!Renews
    <3>2. subs[s].booked = "none"
      BY <2>1 DEF BillsInv, BookingFits
    <3>3. /\ new \in Subscriptions /\ new.booked = "none" /\ new.ending = subs[s].ending
          /\ new.plan = subs[s].plan
      BY <1>2, <3>2 DEF Subscriptions, Statuses
    <3> HIDE DEF new
    <3> QED
      BY <2>1, <3>1, <3>2, <3>3
  <2>2. CASE ~subs[s].ending
    <3> DEFINE to == IF subs[s].booked = "none" THEN subs[s].plan ELSE subs[s].booked
               new == [subs[s] EXCEPT !.plan = to, !.booked = "none", !.status = "active"]
    <3>1. Plan!Becomes(s, new, {"changed", "paid"})
      BY <2>2 DEF Plan!Renews
    <3>2. to \in Plan!Plans
      BY <1>2 DEF Subscriptions
    <3> HIDE DEF to
    <3>3. /\ new \in Subscriptions /\ new.booked = "none" /\ new.ending = subs[s].ending
          /\ new.plan = to /\ new.status = "active"
      BY <1>2, <3>2 DEF Subscriptions, Statuses
    <3> HIDE DEF new
    <3> QED
      BY <2>2, <3>1, <3>3 DEF to
  <2> QED
    BY <2>1, <2>2
<1>5. /\ subs'[s] = sub /\ \A t \in Subs : t # s => subs'[t] = subs[t]
      /\ due \subseteq due' /\ [sub |-> s, type |-> "changed"] \in due'
  BY <1>4, BecomesThere
<1>6. PendingKept'
  <2> SUFFICES ASSUME row.pending # "none"
               PROVE /\ row.status # "none"
                     /\ (\E t \in Subs : Booked(t)' \/ Arriving(t)') \/ BeingDropped' \/ Closing'
    BY <1>1 DEF PendingKept
  <2>1. row.status # "none" /\ ((\E t \in Subs : Booked(t) \/ Arriving(t)) \/ BeingDropped \/ Closing)
    BY DEF PendingKept
  <2>2. ASSUME NEW t \in Subs, t # s PROVE (Booked(t) => Booked(t)') /\ (Arriving(t) => Arriving(t)')
    BY <1>1, <1>5, <2>2 DEF Booked, Arriving
  <2>3. ASSUME Booked(s) \/ Arriving(s) PROVE Arriving(s)'
    <3>1. sub.plan = row.pending
      <4>1. CASE subs[s].booked = "none"
        BY <1>4, <2>3, <4>1 DEF Booked, Arriving
      <4>2. CASE subs[s].booked # "none"
        BY <1>1, <1>4, <4>2 DEF BookedIsPending
      <4> QED
        BY <4>1, <4>2
    <3> QED
      BY <1>1, <1>5, <3>1 DEF Arriving
  <2>4. BeingDropped => BeingDropped'
    <3>1. CASE tab.at = "update" /\ tab.sub = s
      BY <1>1, <1>4, <1>5, <3>1 DEF BeingDropped, Plan!Live
    <3>2. CASE ~(tab.at = "update" /\ tab.sub = s)
      BY <1>1, <1>3, <1>5, <3>2 DEF BeingDropped, Plan!Live
    <3> QED
      BY <3>1, <3>2
  <2>5. Closing => Closing'
    BY <1>1 DEF Closing
  <2> QED
    BY <2>1, <2>2, <2>3, <2>4, <2>5
<1>7. BookedIsPending'
  BY <1>1, <1>4, <1>5 DEF BookedIsPending
<1>8. StepsBooked'
  BY <1>1, <1>3, <1>4, <1>5 DEF StepsBooked
<1> QED
  BY <1>6, <1>7, <1>8

LEMMA DunningPends ==
    ASSUME BillsInv, PendingInv, ~BookedEnds, NEW s \in Subs, Plan!PaymentFails(s)
    PROVE PendingInv'
<1> USE DEF PendingInv
<1>1. UNCHANGED <<row, tab, hook, closed>>
  BY DEF Plan!PaymentFails
<1>2. subs[s] \in Subscriptions
  BY SubTyped
<1>3. tab.at \in {"update", "phases", "promise"} => tab.sub \in Subs
  BY DEF BillsInv, TabFits, Routed
<1>4. PICK sub \in Subscriptions :
        /\ Plan!Becomes(s, sub, {"changed"})
        /\ sub.booked = subs[s].booked /\ sub.plan = subs[s].plan /\ sub.ending = subs[s].ending
        /\ Plan!Live(sub) \/ (sub.booked = "none" /\ tab.at # "update")
  <2>1. CASE Plan!Becomes(s, [subs[s] EXCEPT !.status = "past_due"], {"changed"})
    <3> DEFINE new == [subs[s] EXCEPT !.status = "past_due"]
    <3>1. Plan!Becomes(s, new, {"changed"})
      BY <2>1
    <3>2. /\ new \in Subscriptions /\ new.status = "past_due" /\ new.booked = subs[s].booked
          /\ new.plan = subs[s].plan /\ new.ending = subs[s].ending
      BY <1>2 DEF Subscriptions, Statuses
    <3> HIDE DEF new
    <3> QED
      BY <3>1, <3>2 DEF Plan!Live
  <2>2. ASSUME subs[s].booked = "none", tab.at # "update", NEW status \in {"unpaid", "ended"},
               Plan!Becomes(s, [subs[s] EXCEPT !.status = status, !.booked = "none"], {"changed"})
        PROVE \E sub \in Subscriptions :
                /\ Plan!Becomes(s, sub, {"changed"})
                /\ sub.booked = subs[s].booked /\ sub.plan = subs[s].plan
                /\ sub.ending = subs[s].ending
                /\ Plan!Live(sub) \/ (sub.booked = "none" /\ tab.at # "update")
    <3> DEFINE new == [subs[s] EXCEPT !.status = status, !.booked = "none"]
    <3>1. Plan!Becomes(s, new, {"changed"})
      BY <2>2
    <3>2. /\ new \in Subscriptions /\ new.booked = subs[s].booked
          /\ new.plan = subs[s].plan /\ new.ending = subs[s].ending
      BY <1>2, <2>2 DEF Subscriptions, Statuses
    <3> HIDE DEF new
    <3> QED
      BY <2>2, <3>1, <3>2
  <2> QED
    BY <2>1, <2>2 DEF Plan!PaymentFails
<1>5. /\ subs'[s] = sub /\ \A t \in Subs : t # s => subs'[t] = subs[t]
      /\ due \subseteq due'
  BY <1>4, BecomesThere
<1>6. \A t \in Subs : subs'[t].booked = subs[t].booked /\ subs'[t].plan = subs[t].plan
                        /\ subs'[t].ending = subs[t].ending
  BY <1>4, <1>5
<1>7. \A t \in Subs : Plan!Live(subs[t]) /\ (tab.at = "update" \/ subs[t].booked # "none")
        => Plan!Live(subs'[t])
  BY <1>4, <1>5
<1>8. PendingKept'
  <2>1. \A t \in Subs : (Booked(t) => Booked(t)') /\ (Arriving(t) => Arriving(t)')
    BY <1>1, <1>5, <1>6 DEF Booked, Arriving
  <2>2. BeingDropped => BeingDropped'
    BY <1>1, <1>3, <1>6, <1>7 DEF BeingDropped
  <2>3. Closing => Closing'
    BY <1>1 DEF Closing
  <2> QED
    BY <1>1, <2>1, <2>2, <2>3 DEF PendingKept
<1>9. BookedIsPending'
  BY <1>1, <1>6 DEF BookedIsPending
<1>10. StepsBooked'
  BY <1>1, <1>3, <1>6, <1>7 DEF StepsBooked
<1> QED
  BY <1>8, <1>9, <1>10

LEMMA AppStorePends == ASSUME BillsInv, PendingInv, Plan!AppStoreBuys PROVE PendingInv'
<1> USE DEF PendingInv
<1>1. /\ row' = [row EXCEPT !.plan = "studio", !.status = "active", !.apple = TRUE]
      /\ UNCHANGED <<subs, due, tab, hook, closed>>
  BY DEF Plan!AppStoreBuys, Plan!stripeVars
<1>2. row'.pending = row.pending /\ row'.status # "none"
  BY <1>1 DEF BillsInv, PlanTypes, PlanRows
<1>3. PendingKept'
  <2>1. \A t \in Subs : (Booked(t) => Booked(t)') /\ (Arriving(t) => Arriving(t)')
    BY <1>1, <1>2 DEF Booked, Arriving
  <2>2. (BeingDropped => BeingDropped') /\ (Closing => Closing')
    BY <1>1 DEF BeingDropped, Closing
  <2> QED
    BY <1>2, <2>1, <2>2 DEF PendingKept
<1>4. BookedIsPending' /\ StepsBooked'
  BY <1>1, <1>2 DEF BookedIsPending, StepsBooked
<1> QED
  BY <1>3, <1>4

(* The webhook: what arrives is in an event, then in what it read.         *)
LEMMA HookPends ==
    ASSUME PendingInv, UNCHANGED <<subs, tab, closed>>,
           row'.pending = row.pending, row.status # "none" => row'.status # "none",
           \A s \in Subs : Arriving(s) => Arriving(s)'
    PROVE PendingInv'
<1> USE DEF PendingInv
<1>1. \A s \in Subs : Booked(s) => Booked(s)'
  BY DEF Booked
<1>2. (BeingDropped => BeingDropped') /\ (Closing => Closing')
  BY DEF BeingDropped, Closing
<1>3. PendingKept'
  BY <1>1, <1>2 DEF PendingKept
<1>4. BookedIsPending' /\ StepsBooked'
  BY DEF BookedIsPending, StepsBooked
<1> QED
  BY <1>3, <1>4

LEMMA DeliverPends ==
    ASSUME BillsInv, PendingInv, NEW event \in due, Plan!Deliver(event) PROVE PendingInv'
<1>1. /\ hook.at = "idle" /\ due' = due \ {event} /\ UNCHANGED <<row, subs, tab, closed>>
  BY DEF Plan!Deliver
<1>2. ASSUME NEW s \in Subs, Arriving(s) PROVE Arriving(s)'
  <2>1. [sub |-> s, type |-> "changed"] \in due /\ subs[s].plan = row.pending
    BY <1>1, <1>2 DEF Arriving
  <2>2. CASE event # [sub |-> s, type |-> "changed"]
    BY <1>1, <2>1, <2>2 DEF Arriving
  <2>3. CASE event = [sub |-> s, type |-> "changed"]
    <3>1. event.sub = s /\ event.type = "changed"
      BY <2>3
    <3>2. hook' = [at |-> "read", sub |-> event.sub, type |-> event.type,
                   saw |-> subs[event.sub], clear |-> FALSE]
      BY <3>1 DEF Plan!Deliver
    <3>3. /\ hook'.at = "read" /\ hook'.sub = s /\ hook'.type = "changed"
          /\ hook'.saw = subs[s]
      BY <3>1, <3>2
    <3> QED
      BY <1>1, <2>1, <3>3 DEF Arriving
  <2> QED
    BY <2>2, <2>3
<1> QED
  BY <1>1, <1>2, HookPends

LEMMA PendingDonePends == ASSUME BillsInv, PendingInv, Plan!pendingDone PROVE PendingInv'
<1> DEFINE done == ~Plan!handleCheckout /\ row.pending = hook.saw.plan
<1>1. /\ hook.at = "read" /\ hook' = [hook EXCEPT !.at = "write", !.clear = done]
      /\ UNCHANGED <<row, subs, due, tab, closed>>
  BY DEF Plan!pendingDone, Plan!stripeVars
<1>2. ASSUME NEW s \in Subs, Arriving(s) PROVE Arriving(s)'
  <2>1. CASE [sub |-> s, type |-> "changed"] \in due
    BY <1>1, <1>2, <2>1 DEF Arriving
  <2>2. CASE [sub |-> s, type |-> "changed"] \notin due
    <3>1. hook.sub = s /\ hook.type = "changed" /\ hook.saw.plan = row.pending
      BY <1>1, <1>2, <2>2 DEF Arriving
    <3>2. done
      BY <3>1 DEF Plan!handleCheckout
    <3> HIDE DEF done
    <3>3. /\ hook'.at = "write" /\ hook'.sub = hook.sub /\ hook'.type = hook.type
          /\ hook'.saw = hook.saw /\ hook'.clear = done
      BY <1>1 DEF BillsInv, PlanTypes, Hooks
    <3>4. hook'.clear
      BY <3>2, <3>3
    <3> QED
      BY <1>1, <1>2, <3>1, <3>3, <3>4 DEF Arriving
  <2> QED
    BY <2>1, <2>2
<1> QED
  BY <1>1, <1>2, HookPends

LEMMA HookMirrorPends == ASSUME BillsInv, PendingInv, Plan!Mirror PROVE PendingInv'
<1>1. /\ hook.at = "write"
      /\ row' = [row EXCEPT !.plan = hook.saw.plan, !.status = Plan!stripeEntitlement(hook.saw),
                            !.stripe = hook.sub,
                            !.pending = IF hook.clear THEN "none" ELSE @]
      /\ UNCHANGED <<subs, due, tab, closed>>
  BY DEF Plan!Mirror, Plan!stripeVars
<1>2. /\ row'.pending = (IF hook.clear THEN "none" ELSE row.pending)
      /\ row'.status = Plan!stripeEntitlement(hook.saw)
  BY <1>1 DEF BillsInv, PlanTypes, PlanRows
<1>3. row'.status # "none"
  BY <1>2 DEF Plan!stripeEntitlement
<1>4. CASE hook.clear
  <2>1. row'.pending = "none"
    BY <1>2, <1>4
  <2> QED
    BY <1>1, <2>1 DEF PendingInv, PendingKept, BookedIsPending, StepsBooked
<1>5. CASE ~hook.clear
  <2>1. row'.pending = row.pending
    BY <1>2, <1>5
  <2>2. \A s \in Subs : Arriving(s) => Arriving(s)'
    BY <1>1, <1>5, <2>1 DEF Arriving
  <2> QED
    BY <1>1, <1>3, <2>1, <2>2, HookPends
<1> QED
  BY <1>4, <1>5

LEMMA HookFailsPends == ASSUME BillsInv, PendingInv, Plan!HookFails PROVE PendingInv'
<1>1. /\ due' = due \cup {[sub |-> hook.sub, type |-> hook.type]}
      /\ UNCHANGED <<row, subs, tab, closed>>
  BY DEF Plan!HookFails
<1>2. \A s \in Subs : Arriving(s) => Arriving(s)'
  BY <1>1 DEF Arriving
<1> QED
  BY <1>1, <1>2, HookPends

LEMMA PendingStay == ASSUME PendingInv, UNCHANGED Plan!planVars PROVE PendingInv'
<1>1. UNCHANGED <<subs, due, row, hook, closed, tab>>
  BY DEF Plan!planVars
<1>2. \A s \in Subs : Arriving(s) => Arriving(s)'
  BY <1>1 DEF Arriving
<1> QED
  BY <1>1, <1>2, HookPends

LEMMA PendingStep ==
    ASSUME ~LossyRoutes, ~StaleSessions, ~BookedEnds, BillsInv, PendingInv,
           [Plan!Next]_(Plan!planVars)
    PROVE PendingInv'
<1>1. ASSUME NEW kind, NEW to, NEW when, Plan!Ask(kind, to, when) PROVE PendingInv'
  BY <1>1, AskPends
<1>2. ASSUME Routes PROVE PendingInv'
  BY <1>2, ListPends, ReleasePends, UpdatePends, MirrorPends, BookPends, PromisePends,
     ClosePends, Zenon DEF Routes
<1>3. ASSUME NEW s \in Subs, NEW open \in sessions, Plan!PaySession(open, s) PROVE PendingInv'
  BY <1>3, PayPends
<1>4. ASSUME NEW s \in Subs, Plan!Renews(s) \/ Plan!PaymentFails(s) PROVE PendingInv'
  BY <1>4, RenewsPends, DunningPends
<1>5. ASSUME NEW event \in due, Plan!Deliver(event) PROVE PendingInv'
  BY <1>5, DeliverPends
<1>6. CASE Plan!deleteAccount \/ Plan!AppStoreBuys \/ Plan!pendingDone \/ Plan!Mirror
             \/ Plan!HookFails
  BY <1>6, ClosePends, AppStorePends, PendingDonePends, HookMirrorPends, HookFailsPends
<1>7. PlanSteps => PendingInv'
  BY <1>1, <1>2, <1>3, <1>4, <1>5, <1>6, Zenon DEF PlanSteps
<1> QED
  BY <1>7, PlanTakenApart, PendingStay

LEMMA PendingSuffices == PendingInv => Plan!PendingIsScheduled
<1> SUFFICES ASSUME PendingInv, Plan!AtRest, ~closed, row.pending # "none"
             PROVE \E s \in Subs : subs[s].booked = row.pending
  BY DEF Plan!PendingIsScheduled
<1>1. (\E s \in Subs : Booked(s) \/ Arriving(s)) \/ BeingDropped \/ Closing
  BY DEF PendingInv, PendingKept
<1> QED
  BY <1>1 DEF Plan!AtRest, Booked, Arriving, BeingDropped, Closing

(* A change announced for the renewal is booked with Stripe: where no      *)
(* checkout is left open, no route fails unnoticed and no booked           *)
(* subscription is ended by dunning.                                       *)
THEOREM PendingIsBooked ==
    ASSUME ~LossyRoutes, ~StaleSessions, ~BookedEnds
    PROVE Plan!Spec => []Plan!PendingIsScheduled
<1>1. Plan!Init => BillsInv /\ PendingInv
  BY BillsInit, PendingInit
<1>2. BillsInv /\ PendingInv /\ [Plan!Next]_(Plan!planVars) => (BillsInv /\ PendingInv)'
  BY BillsStep, PendingStep
<1>3. BillsInv /\ PendingInv => Plan!PendingIsScheduled
  BY PendingSuffices
<1> QED
  BY <1>1, <1>2, <1>3, PTL DEF Plan!Spec

-----------------------------------------------------------------------------
(* The services, side by side                                              *)

(* Everything the services' state consists of.                             *)
ServicesVars ==
    <<part, TickVars, FinishVars, CallsVars, McpVars, PlanVars, SessionVars,
      LibraryVars>>

LEMMA TickSpec == Spec => Tick!Spec
<1>1. Init => Tick!Init
  BY DEF Init
<1>2. [Next]_ServicesVars => [Tick!Next]_(Tick!workerVars)
  BY DEF Next, ServicesVars, Tick!workerVars, TickVars
<1> QED
  BY <1>1, <1>2, PTL DEF Spec, Tick!Spec, ServicesVars

LEMMA FinishSpec == Spec => Finish!Spec
<1>1. Init => Finish!Init
  BY DEF Init
<1>2. [Next]_ServicesVars => [Finish!Next]_(Finish!finisherVars)
  BY DEF Next, ServicesVars, Finish!finisherVars, FinishVars
<1> QED
  BY <1>1, <1>2, PTL DEF Spec, Finish!Spec, ServicesVars

LEMMA CallsSpec == Spec => Calls!Spec
<1>1. Init => Calls!Init
  BY DEF Init
<1>2. [Next]_ServicesVars => [Calls!Next]_(Calls!callVars)
  BY DEF Next, ServicesVars, Calls!callVars, CallsVars
<1> QED
  BY <1>1, <1>2, PTL DEF Spec, Calls!Spec, ServicesVars

LEMMA McpSpec == Spec => Mcp!Spec
<1>1. Init => Mcp!Init
  BY DEF Init
<1>2. [Next]_ServicesVars => [Mcp!Next]_(Mcp!vars)
  BY DEF Next, ServicesVars, Mcp!vars, McpVars
<1> QED
  BY <1>1, <1>2, PTL DEF Spec, Mcp!Spec, ServicesVars

(* An isolate never admits more inline submits than its cap, and each slot *)
(* it counts is still some run's to give back.                             *)
THEOREM ServicesHoldSlots == Spec => []SlotsAreHeld
<1>1. Tick!Spec => []Tick!SlotsAreHeld
  BY TickHoldsSlots
<1>2. Tick!SlotsAreHeld => SlotsAreHeld
  BY DEF SlotsAreHeld
<1> QED
  BY <1>1, <1>2, TickSpec, PTL

(* The media and the thumbnail the library shows are whole and registered, *)
(* whatever attempts overlap, and no run holds more than its byte budget.  *)
THEOREM ServicesStoreSafely == Spec => []StoredSafely
<1>1. Finish!Spec => []Finish!StoredSafely
  BY FinisherStores
<1>2. Finish!StoredSafely => StoredSafely
  BY DEF StoredSafely
<1> QED
  BY <1>1, <1>2, FinishSpec, PTL

(* A provider works on what the payload names, a refund is final and a     *)
(* render single, where no provider gives the odd answers of the findings. *)
THEOREM ServicesHearProvider == ASSUME OddAnswers = {} PROVE Spec => []ProviderIsHeard
<1>1. Calls!Spec => []Calls!ProviderIsHeard
  BY ProviderHears
<1>2. Calls!ProviderIsHeard => ProviderIsHeard
  BY DEF ProviderIsHeard
<1> QED
  BY <1>1, <1>2, CallsSpec, PTL

(* A repeated tool call is free, and no answer misstates the charge.       *)
THEOREM ServicesAreHonest == Spec => []CallsAreHonest
<1>1. Mcp!Spec => []Mcp!CallsAreHonest
  BY ToolsAreHonest
<1>2. Mcp!CallsAreHonest => CallsAreHonest
  BY DEF CallsAreHonest
<1> QED
  BY <1>1, <1>2, McpSpec, PTL

-----------------------------------------------------------------------------
(* The page and who is signed in                                           *)

LEMMA SessionSpec == Spec => Session!Spec
<1>1. Init => Session!Init
  BY DEF Init
<1>2. [Next]_ServicesVars => [Session!Next]_(Session!sessionVars)
  BY DEF Next, ServicesVars, Session!sessionVars, SessionVars
<1> QED
  BY <1>1, <1>2, PTL DEF Spec, Session!Spec, ServicesVars

(* Nobody enters the workspace on the age another account confirmed.       *)
THEOREM ServicesKeepGate == Spec => GateIsTheirs
BY SessionSpec, SessionGate, PTL DEF GateIsTheirs

(* Where the identity does not change while no page is open, a page holds  *)
(* nothing of an account that has left.                                    *)
THEOREM ServicesKeepPage == ASSUME ~SilentSwitch PROVE Spec => []NothingForeign
<1>1. Session!Spec => []Session!NothingForeign
  BY SessionPage
<1>2. Session!NothingForeign => NothingForeign
  BY DEF NothingForeign
<1> QED
  BY <1>1, <1>2, SessionSpec, PTL

-----------------------------------------------------------------------------
(* The page's library                                                      *)

LEMMA LibrarySpec == Spec => Library!Spec
<1>1. Init => Library!Init
  BY DEF Init
<1>2. [Next]_ServicesVars => [Library!Next]_(Library!libraryVars)
  BY DEF Next, ServicesVars, Library!libraryVars, LibraryVars
<1> QED
  BY <1>1, <1>2, PTL DEF Spec, Library!Spec, ServicesVars

(* A press repeated after a lost answer is charged once.                   *)
THEOREM ServicesChargeOnce == Spec => []OneChargePerAnswer
<1>1. Library!Spec => []Library!OneChargePerAnswer
  BY LibraryChargesOnce
<1>2. Library!OneChargePerAnswer => OneChargePerAnswer
  BY DEF OneChargePerAnswer
<1> QED
  BY <1>1, <1>2, LibrarySpec, PTL

(* A row a submission listed is polled for as long as it is pending.       *)
THEOREM ServicesPoll == Spec => []PendingIsPolled
<1>1. Library!Spec => []Library!PendingIsPolled
  BY LibraryPolls
<1>2. Library!PendingIsPolled => PendingIsPolled
  BY DEF PendingIsPolled
<1> QED
  BY <1>1, <1>2, LibrarySpec, PTL

-----------------------------------------------------------------------------
(* The plan a customer pays for, among the others                          *)

LEMMA PlanSpec == Spec => Plan!Spec
<1>1. Init => Plan!Init
  BY DEF Init
<1>2. [Next]_ServicesVars => [Plan!Next]_(Plan!planVars)
  BY DEF Next, ServicesVars, Plan!planVars, PlanVars
<1> QED
  BY <1>1, <1>2, PTL DEF Spec, Plan!Spec, ServicesVars

(* Where no checkout is left open and no route fails unnoticed, Stripe     *)
(* bills a customer for one subscription at most, and it is one they can   *)
(* see and end.                                                            *)
THEOREM ServicesBillOnce ==
    ASSUME ~LossyRoutes, ~StaleSessions PROVE Spec => []BillsAreOurs
<1>1. Plan!Spec => []Plan!BillsAreOurs
  BY BillsAreTheirs
<1>2. Plan!BillsAreOurs => BillsAreOurs
  BY DEF BillsAreOurs
<1> QED
  BY <1>1, <1>2, PlanSpec, PTL

(* Where, besides, no booked subscription is ended by dunning, a change    *)
(* announced for the renewal is booked with Stripe for that renewal.       *)
THEOREM ServicesKeepPromise ==
    ASSUME ~LossyRoutes, ~StaleSessions, ~BookedEnds
    PROVE Spec => []PendingIsScheduled
<1>1. Plan!Spec => []Plan!PendingIsScheduled
  BY PendingIsBooked
<1>2. Plan!PendingIsScheduled => PendingIsScheduled
  BY DEF PendingIsScheduled
<1> QED
  BY <1>1, <1>2, PlanSpec, PTL
=============================================================================
