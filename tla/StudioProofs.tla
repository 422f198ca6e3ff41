---------------------------- MODULE StudioProofs ----------------------------
(***************************************************************************)
(* What the studio run (MCStudio) checks of its components, proved for     *)
(* every behaviour.  First each component alone, for every behaviour of    *)
(* its own specification: the editor's session (EditInv), the strip of the *)
(* active tool (ToolsInv) and the models in the browser (SharesInv).  Then *)
(* side by side: each component keeps variables of its own, so a step of   *)
(* Next is a step of the component or leaves it alone, and a behaviour of  *)
(* Spec is one of each component's Spec.                                   *)
(***************************************************************************)
EXTENDS MCStudio, Sequences, FiniteSetTheorems, TLAPS

-----------------------------------------------------------------------------
(* The editor's session                                                    *)

Pixels == Seq(Nat)
Snapshots == Pixels \ {<<>>}
Items == [px : Snapshots, parent : Nat, ai : BOOLEAN]
Engines == [past : Seq(Snapshots), present : Pixels, future : Seq(Snapshots), truncated : BOOLEAN]
EditTasks ==
    [kind : {"apply", "engine", "heal", "stroke", "commit", "preview"}, edit : Nat,
     base : Pixels, live : BOOLEAN, runs : BOOLEAN]
EditSaves == [px : Snapshots, parent : Nat, ai : BOOLEAN, ours : BOOLEAN, current : BOOLEAN]

EditTypes ==
    /\ library \in Seq(Items)
    /\ item \in Nat
    /\ engine \in Engines
    /\ openings \subseteq [id : DOMAIN library, latest : BOOLEAN]
    /\ dirty \in BOOLEAN
    /\ editorPreview \in Pixels
    /\ editorQueue \in Seq(EditTasks)
    /\ saves \subseteq EditSaves
    /\ entering \subseteq DOMAIN library
    /\ asking.what = "open" => asking.id \in DOMAIN library
    /\ acts \in Nat

(* An image is open exactly when nothing is being opened, and all that can *)
(* be unsaved or waiting is of that image.                                 *)
OpenFits ==
    /\ engine = Editor!Closed \/ engine.present # Editor!NoPixels
    /\ dirty \/ editorQueue # <<>> => Editor!Open
    /\ \A o \in openings : o.latest => ~Editor!Open
    /\ \A o, p \in openings : o.latest /\ p.latest => o = p
    /\ Len(engine.past) + Len(engine.future) <= MaxHistory

(* The first pixels of the history that is left.                           *)
Bottom == IF engine.past = <<>> THEN engine.present ELSE engine.past[1]

(* What the session was opened on is in the library, what counts as clean  *)
(* is, and what a save would make clean is what it stores.                 *)
StoredFits ==
    /\ Editor!Open /\ ~engine.truncated => Bottom \in Editor!Kept
    /\ Editor!CleanIsStored
    /\ \A s \in saves : s.ours /\ s.current => Editor!Open /\ s.px = engine.present

EditInv == EditTypes /\ OpenFits /\ StoredFits

LEMMA HistoryHolds == MaxHistory \in Nat /\ MaxHistory >= 1
BY EditorFit DEF Editor!ConstantsFit

LEMMA EditCardinality == Cardinality(Pictures) \in Nat /\ Editor!Cardinality(Pictures) = Cardinality(Pictures)
<1>1. Editor!Cardinality(Pictures) = Cardinality(Pictures)
  BY DEF Editor!Cardinality, Cardinality
<1>2. IsFiniteSet(Pictures)
  BY EditorFit DEF Editor!ConstantsFit, Editor!IsFiniteSet, IsFiniteSet
<1> QED
  BY <1>1, <1>2, FS_CardinalityType

LEMMA ClosedTyped ==
    /\ Editor!Closed \in Engines /\ Editor!Closed.present = Editor!NoPixels
    /\ Len(Editor!Closed.past) + Len(Editor!Closed.future) = 0
    /\ Editor!NoPixels \in Pixels
<1>1. <<>> \in Seq(Snapshots) /\ <<>> \in Pixels /\ Len(<<>>) = 0
  BY DEF Pixels, Snapshots
<1> QED
  BY <1>1 DEF Editor!Closed, Editor!NoPixels, Engines

(* What an engine's history is once one snapshot was added to it.          *)
LEMMA TrimFits ==
    ASSUME NEW e \in Engines, Len(e.past) + Len(e.future) <= MaxHistory + 1,
           NEW t, t = Editor!trim(e)
    PROVE  /\ t \in Engines /\ t.present = e.present
           /\ Len(t.past) + Len(t.future) <= MaxHistory
           /\ Len(e.past) + Len(e.future) <= MaxHistory => t = e
           /\ t.truncated = FALSE => t = e
           /\ ~(Len(e.past) + Len(e.future) <= MaxHistory) /\ Len(e.past) >= Len(e.future) =>
                t.past = Tail(e.past) /\ Len(e.past) >= 1
<1>0. PICK P \in Seq(Snapshots), F \in Seq(Snapshots) : e.past = P /\ e.future = F
  BY DEF Engines
<1>6. Len(P) + Len(F) <= MaxHistory + 1
  BY <1>0, Zenon
<1>1. Len(P) \in Nat /\ Len(F) \in Nat
  OBVIOUS
<1>3. CASE Len(P) + Len(F) <= MaxHistory
  <2>1. t = e
    BY <1>0, <1>3 DEF Editor!trim
  <2> QED
    BY <1>0, <1>3, <2>1, Zenon
<1>4. CASE ~(Len(P) + Len(F) <= MaxHistory) /\ Len(P) >= Len(F)
  <2>7. t = [e EXCEPT !.past = Tail(P), !.truncated = TRUE]
    BY <1>0, <1>4 DEF Editor!trim
  <2>2. Len(P) >= 1
    BY <1>1, <1>4, HistoryHolds
  <2>3. Tail(P) \in Seq(Snapshots) /\ Len(Tail(P)) = Len(P) - 1
    BY <2>2
  <2>4. Len(Tail(P)) + Len(F) <= MaxHistory
    BY <1>1, <1>6, <2>3, HistoryHolds
  <2>5. t \in Engines
    BY <2>3, <2>7 DEF Engines
  <2>6. t.present = e.present /\ t.past = Tail(P) /\ t.future = F /\ t.truncated = TRUE
    BY <1>0, <2>7 DEF Engines
  <2> QED
    BY <1>0, <1>4, <2>2, <2>4, <2>5, <2>6, Zenon
<1>5. CASE ~(Len(P) + Len(F) <= MaxHistory) /\ ~(Len(P) >= Len(F))
  <2>7. t = [e EXCEPT !.future = Tail(F), !.truncated = TRUE]
    BY <1>0, <1>5 DEF Editor!trim
  <2>2. Len(F) >= 1
    BY <1>1, <1>5
  <2>3. Tail(F) \in Seq(Snapshots) /\ Len(Tail(F)) = Len(F) - 1
    BY <2>2
  <2>4. Len(P) + Len(Tail(F)) <= MaxHistory
    BY <1>1, <1>6, <2>3, HistoryHolds
  <2>5. t \in Engines
    BY <2>3, <2>7 DEF Engines
  <2>6. t.present = e.present /\ t.past = P /\ t.future = Tail(F) /\ t.truncated = TRUE
    BY <1>0, <2>7 DEF Engines
  <2> QED
    BY <1>0, <1>5, <2>4, <2>5, <2>6, Zenon
<1> QED
  BY <1>3, <1>4, <1>5

LEMMA EngineParts ==
    ASSUME EditTypes
    PROVE  /\ engine.past \in Seq(Snapshots) /\ engine.future \in Seq(Snapshots)
           /\ engine.present \in Pixels /\ engine.truncated \in BOOLEAN
           /\ engine \in Engines
BY DEF EditTypes, Engines

(* What is open has pixels.                                                *)
LEMMA OpenHasPixels == ASSUME EditTypes, OpenFits, Editor!Open PROVE engine.present \in Snapshots
BY EngineParts DEF OpenFits, Editor!Open, Editor!NoPixels, Snapshots

(* An edit goes on top of the history, over what was shown.                *)
LEMMA PushParts ==
    ASSUME NEW P \in Seq(Snapshots), NEW F \in Seq(Snapshots), Len(P) + Len(F) <= MaxHistory,
           NEW x \in Snapshots
    PROVE  /\ Append(P, x) \in Seq(Snapshots) /\ <<>> \in Seq(Snapshots)
           /\ Len(Append(P, x)) + Len(<<>>) <= MaxHistory + 1
           /\ Len(Append(P, x)) >= Len(<<>>)
           /\ x \in Editor!Range(Append(P, x))
           /\ Len(P) >= 1 => x \in Editor!Range(Tail(Append(P, x)))
           /\ Append(P, x) # <<>> /\ Append(P, x)[1] = (IF P = <<>> THEN x ELSE P[1])
           /\ ~(Len(Append(P, x)) + Len(<<>>) <= MaxHistory) => Len(P) >= 1
<1>1. Len(P) \in Nat /\ Len(F) \in Nat /\ Len(Append(P, x)) = Len(P) + 1 /\ Len(<<>>) = 0
      /\ Append(P, x) \in Seq(Snapshots) /\ <<>> \in Seq(Snapshots)
  OBVIOUS
<1>2. Len(P) <= MaxHistory
  BY <1>1, HistoryHolds
<1>3. x \in Editor!Range(Append(P, x))
  <2>1. Len(P) + 1 \in DOMAIN Append(P, x) /\ Append(P, x)[Len(P) + 1] = x
    BY <1>1
  <2> QED
    BY <2>1 DEF Editor!Range
<1>4. ASSUME Len(P) >= 1 PROVE x \in Editor!Range(Tail(Append(P, x)))
  <2>1. Len(P) \in DOMAIN Tail(Append(P, x)) /\ Tail(Append(P, x))[Len(P)] = x
    BY <1>1, <1>4
  <2> QED
    BY <2>1 DEF Editor!Range
<1>5. Append(P, x) # <<>> /\ Append(P, x)[1] = (IF P = <<>> THEN x ELSE P[1])
  BY <1>1
<1>6. Len(Append(P, x)) + Len(<<>>) <= MaxHistory + 1 /\ Len(Append(P, x)) >= Len(<<>>)
  BY <1>1, <1>2, HistoryHolds
<1>7. ~(Len(Append(P, x)) + Len(<<>>) <= MaxHistory) => Len(P) >= 1
  BY <1>1, HistoryHolds
<1> QED
  BY <1>1, <1>3, <1>4, <1>5, <1>6, <1>7

LEMMA PushFits ==
    ASSUME EditTypes, OpenFits, Editor!Open, NEW px \in Snapshots, Editor!push(px)
    PROVE  /\ engine' \in Engines /\ engine'.present = px
           /\ Len(engine'.past) + Len(engine'.future) <= MaxHistory
           /\ engine.present \in Editor!Range(engine'.past)
           /\ engine'.truncated = FALSE => engine.truncated = FALSE /\ Bottom' = Bottom
<1> DEFINE P == engine.past
           longer == Append(P, engine.present)
<1>1. /\ P \in Seq(Snapshots) /\ engine.future \in Seq(Snapshots) /\ engine.present \in Snapshots
      /\ engine.truncated \in BOOLEAN /\ Len(P) + Len(engine.future) <= MaxHistory
  BY EngineParts, OpenHasPixels DEF OpenFits
<1>2. PICK e : /\ e = [engine EXCEPT !.past = Append(@, engine.present), !.present = px,
                                     !.future = <<>>]
               /\ engine' = Editor!trim(e)
  BY DEF Editor!push
<1>3. /\ longer \in Seq(Snapshots) /\ <<>> \in Seq(Snapshots)
      /\ Len(longer) + Len(<<>>) <= MaxHistory + 1 /\ Len(longer) >= Len(<<>>)
      /\ engine.present \in Editor!Range(longer)
      /\ Len(P) >= 1 => engine.present \in Editor!Range(Tail(longer))
      /\ longer # <<>> /\ longer[1] = (IF P = <<>> THEN engine.present ELSE P[1])
      /\ ~(Len(longer) + Len(<<>>) <= MaxHistory) => Len(P) >= 1
  BY <1>1, PushParts
<1>4. /\ e \in Engines /\ e.past = longer /\ e.present = px /\ e.future = <<>>
      /\ e.truncated = engine.truncated
  BY <1>1, <1>2, <1>3, EngineParts DEF Engines, Snapshots
<1>5. /\ engine' \in Engines /\ engine'.present = px
      /\ Len(engine'.past) + Len(engine'.future) <= MaxHistory
      /\ Len(longer) + Len(<<>>) <= MaxHistory => engine' = e
      /\ engine'.truncated = FALSE => engine' = e
      /\ ~(Len(longer) + Len(<<>>) <= MaxHistory) /\ Len(longer) >= Len(<<>>) =>
           engine'.past = Tail(longer)
  <2>1. PICK t : t = engine'
    OBVIOUS
  <2>2. t = Editor!trim(e)
    BY <1>2, <2>1
  <2> HIDE DEF longer
  <2>3. /\ t \in Engines /\ t.present = e.present
        /\ Len(t.past) + Len(t.future) <= MaxHistory
        /\ Len(longer) + Len(<<>>) <= MaxHistory => t = e
        /\ t.truncated = FALSE => t = e
        /\ ~(Len(longer) + Len(<<>>) <= MaxHistory) /\ Len(longer) >= Len(<<>>) =>
             t.past = Tail(longer) /\ Len(longer) >= 1
    <3>1. Len(e.past) + Len(e.future) <= MaxHistory + 1
      BY <1>3, <1>4, Zenon
    <3> QED
      BY <1>4, <2>2, <3>1, TrimFits, Zenon
  <2> QED
    BY <1>4, <2>1, <2>3
<1> HIDE DEF longer
<1>6. engine.present \in Editor!Range(engine'.past)
  <2>1. CASE Len(longer) + Len(<<>>) <= MaxHistory
    BY <2>1, <1>3, <1>4, <1>5
  <2>2. CASE ~(Len(longer) + Len(<<>>) <= MaxHistory)
    BY <2>2, <1>3, <1>5
  <2> QED
    BY <2>1, <2>2
<1>7. ASSUME engine'.truncated = FALSE PROVE engine.truncated = FALSE /\ Bottom' = Bottom
  <2>1. engine' = e
    BY <1>5, <1>7
  <2> QED
    BY <2>1, <1>3, <1>4, <1>7 DEF Bottom
<1> QED
  BY <1>5, <1>6, <1>7

LEMMA FrontParts ==
    ASSUME NEW P \in Seq(Snapshots), NEW F \in Seq(Snapshots), Len(P) + Len(F) <= MaxHistory,
           P # <<>>, NEW x \in Snapshots
    PROVE  /\ Editor!Front(P) \in Seq(Snapshots) /\ Append(F, x) \in Seq(Snapshots)
           /\ Editor!Last(P) \in Snapshots
           /\ Len(Editor!Front(P)) + Len(Append(F, x)) <= MaxHistory
           /\ Len(Append(F, x)) + Len(Editor!Front(P)) <= MaxHistory
           /\ x \in Editor!Range(Append(F, x))
           /\ (IF Editor!Front(P) = <<>> THEN Editor!Last(P) ELSE Editor!Front(P)[1]) = P[1]
           /\ Append(F, x) # <<>> /\ Append(F, x)[1] = (IF F = <<>> THEN x ELSE F[1])
<1>1. /\ Len(P) \in Nat /\ Len(F) \in Nat /\ Len(Append(F, x)) = Len(F) + 1 /\ Len(P) >= 1
      /\ Append(F, x) \in Seq(Snapshots)
  OBVIOUS
<1>2. Editor!Front(P) = [i \in 1..(Len(P) - 1) |-> P[i]]
  BY DEF Editor!Front
<1>3. Editor!Front(P) \in Seq(Snapshots) /\ Len(Editor!Front(P)) = Len(P) - 1
  BY <1>1, <1>2
<1>4. Editor!Last(P) = P[Len(P)] /\ P[Len(P)] \in Snapshots
  BY <1>1 DEF Editor!Last
<1>5. x \in Editor!Range(Append(F, x))
  <2>1. Len(F) + 1 \in DOMAIN Append(F, x) /\ Append(F, x)[Len(F) + 1] = x
    BY <1>1
  <2> QED
    BY <2>1 DEF Editor!Range
<1>6. (IF Editor!Front(P) = <<>> THEN Editor!Last(P) ELSE Editor!Front(P)[1]) = P[1]
  <2>1. CASE Len(P) = 1
    BY <2>1, <1>3, <1>4
  <2>2. CASE Len(P) # 1
    <3>4. PICK n \in Nat : n = Len(P)
      BY <1>1
    <3>5. n - 1 \in Nat /\ 1 \in 1..(n - 1)
      BY <3>4, <2>2, <1>1
    <3>1. 1 \in 1..(Len(P) - 1)
      BY <3>4, <3>5, Zenon
    <3>2. Editor!Front(P)[1] = P[1]
      BY <3>1, <1>2
    <3>3. Editor!Front(P) # <<>>
      BY <3>1, <1>1, <1>3
    <3> QED
      BY <3>2, <3>3
  <2> QED
    BY <2>1, <2>2
<1>7. /\ Len(Editor!Front(P)) + Len(Append(F, x)) <= MaxHistory
      /\ Len(Append(F, x)) + Len(Editor!Front(P)) <= MaxHistory
  BY <1>1, <1>3, HistoryHolds
<1>8. Append(F, x) # <<>> /\ Append(F, x)[1] = (IF F = <<>> THEN x ELSE F[1])
  BY <1>1
<1> QED
  BY <1>1, <1>3, <1>4, <1>5, <1>6, <1>7, <1>8

(* Undo and redo move a snapshot from one end to the other, and keep all.  *)
LEMMA UndoFits ==
    ASSUME EditTypes, OpenFits, Editor!Open, Editor!undo
    PROVE  /\ engine' \in Engines /\ engine'.present \in Snapshots
           /\ Len(engine'.past) + Len(engine'.future) <= MaxHistory
           /\ engine.present \in Editor!Range(engine'.future)
           /\ engine'.truncated = engine.truncated /\ Bottom' = Bottom
<1> DEFINE P == engine.past  F == engine.future
           shorter == Editor!Front(P)  longer == Append(F, engine.present)
<1>1. /\ P \in Seq(Snapshots) /\ F \in Seq(Snapshots) /\ engine.present \in Snapshots
      /\ P # <<>> /\ Len(P) + Len(F) <= MaxHistory
  BY EngineParts, OpenHasPixels DEF OpenFits, Editor!undo, Editor!canUndo
<1>2. PICK e : /\ e = [engine EXCEPT !.past = Editor!Front(@), !.present = Editor!Last(engine.past),
                                     !.future = Append(@, engine.present)]
               /\ engine' = Editor!trim(e)
  BY DEF Editor!undo
<1>3. /\ shorter \in Seq(Snapshots) /\ longer \in Seq(Snapshots)
      /\ Editor!Last(P) \in Snapshots
      /\ Len(shorter) + Len(longer) <= MaxHistory
      /\ engine.present \in Editor!Range(longer)
      /\ (IF shorter = <<>> THEN Editor!Last(P) ELSE shorter[1]) = P[1]
  BY <1>1, FrontParts
<1>4. /\ e \in Engines /\ e.past = shorter /\ e.present = Editor!Last(P) /\ e.future = longer
      /\ e.truncated = engine.truncated
  BY <1>1, <1>2, <1>3, EngineParts DEF Engines, Snapshots
<1>5. engine' = e
  <2>1. Len(e.past) + Len(e.future) <= MaxHistory
    BY <1>3, <1>4, Zenon
  <2> QED
    BY <1>2, <2>1 DEF Editor!trim
<1> HIDE DEF shorter, longer
<1>6. Bottom' = Bottom
  BY <1>1, <1>3, <1>4, <1>5 DEF Bottom
<1> QED
  BY <1>3, <1>4, <1>5, <1>6, Zenon

LEMMA RedoFits ==
    ASSUME EditTypes, OpenFits, Editor!Open, Editor!redo
    PROVE  /\ engine' \in Engines /\ engine'.present \in Snapshots
           /\ Len(engine'.past) + Len(engine'.future) <= MaxHistory
           /\ engine.present \in Editor!Range(engine'.past)
           /\ engine'.truncated = engine.truncated /\ Bottom' = Bottom
<1> DEFINE P == engine.past  F == engine.future
           shorter == Editor!Front(F)  longer == Append(P, engine.present)
<1>1. /\ P \in Seq(Snapshots) /\ F \in Seq(Snapshots) /\ engine.present \in Snapshots
      /\ F # <<>> /\ Len(F) + Len(P) <= MaxHistory
  <2>1. Len(P) + Len(F) <= MaxHistory /\ P \in Seq(Snapshots) /\ F \in Seq(Snapshots)
    BY EngineParts DEF OpenFits
  <2>2. PICK p \in Seq(Snapshots), f \in Seq(Snapshots) : p = P /\ f = F
    BY <2>1
  <2>3. Len(p) + Len(f) = Len(f) + Len(p)
    OBVIOUS
  <2>4. Len(F) + Len(P) <= MaxHistory
    BY <2>1, <2>2, <2>3, Zenon
  <2> QED
    BY <2>1, <2>4, OpenHasPixels DEF Editor!redo, Editor!canRedo
<1>2. PICK e : /\ e = [engine EXCEPT !.future = Editor!Front(@), !.present = Editor!Last(engine.future),
                                     !.past = Append(@, engine.present)]
               /\ engine' = Editor!trim(e)
  BY DEF Editor!redo
<1>3. /\ shorter \in Seq(Snapshots) /\ longer \in Seq(Snapshots)
      /\ Editor!Last(F) \in Snapshots
      /\ Len(longer) + Len(shorter) <= MaxHistory
      /\ engine.present \in Editor!Range(longer)
      /\ longer # <<>> /\ longer[1] = (IF P = <<>> THEN engine.present ELSE P[1])
  <2>1. PICK p \in Seq(Snapshots), f \in Seq(Snapshots), x \in Snapshots :
            p = P /\ f = F /\ x = engine.present
    BY <1>1
  <2>2. f # <<>> /\ Len(f) + Len(p) <= MaxHistory
    BY <1>1, <2>1, Zenon
  <2>3. /\ Editor!Front(f) \in Seq(Snapshots) /\ Append(p, x) \in Seq(Snapshots)
        /\ Editor!Last(f) \in Snapshots
        /\ Len(Append(p, x)) + Len(Editor!Front(f)) <= MaxHistory
        /\ x \in Editor!Range(Append(p, x))
        /\ Append(p, x) # <<>> /\ Append(p, x)[1] = (IF p = <<>> THEN x ELSE p[1])
    BY <2>2, FrontParts
  <2> QED
    BY <2>1, <2>3, Zenon
<1>4. /\ e \in Engines /\ e.past = longer /\ e.present = Editor!Last(F) /\ e.future = shorter
      /\ e.truncated = engine.truncated
  BY <1>1, <1>2, <1>3, EngineParts DEF Engines, Snapshots
<1>5. engine' = e
  <2>1. Len(e.past) + Len(e.future) <= MaxHistory
    BY <1>3, <1>4, Zenon
  <2> QED
    BY <1>2, <2>1 DEF Editor!trim
<1> HIDE DEF shorter, longer
<1>6. Bottom' = Bottom
  BY <1>3, <1>4, <1>5 DEF Bottom
<1> QED
  BY <1>3, <1>4, <1>5, <1>6, Zenon

LEMMA OutdatedTyped ==
    ASSUME NEW q \in Seq(EditTasks)
    PROVE  Editor!Outdated(q) \in Seq(EditTasks) /\ (Editor!Outdated(q) # <<>> => q # <<>>)
<1>1. Len(q) \in Nat /\ DOMAIN q = 1..Len(q) /\ \A i \in 1..Len(q) : q[i] \in EditTasks
  OBVIOUS
<1>2. \A i \in 1..Len(q) : [q[i] EXCEPT !.live = FALSE] \in EditTasks
  BY <1>1 DEF EditTasks
<1>3. Editor!Outdated(q) \in [1..Len(q) -> EditTasks]
  BY <1>1, <1>2 DEF Editor!Outdated
<1>4. Editor!Outdated(q) \in Seq(EditTasks) /\ Len(Editor!Outdated(q)) = Len(q)
  BY <1>1, <1>3
<1> QED
  BY <1>1, <1>4

(* The pixels, the library and what counts as clean stay as they are.      *)
LEMMA EditQuiet ==
    ASSUME EditInv, UNCHANGED <<library, engine, dirty>>,
           item' \in Nat, acts' \in Nat, openings' \subseteq openings,
           editorPreview' \in Pixels, editorQueue' \in Seq(EditTasks),
           editorQueue' # <<>> => Editor!Open,
           saves' \subseteq EditSaves,
           \A s \in saves' : s.ours /\ s.current => Editor!Open /\ s.px = engine.present,
           entering' \subseteq DOMAIN library,
           asking'.what = "open" => asking'.id \in DOMAIN library
    PROVE  EditInv'
<1>1. EditTypes'
  BY DEF EditInv, EditTypes
<1>2. Editor!Open' <=> Editor!Open
  BY DEF Editor!Open, Editor!Closed
<1>3. OpenFits'
  BY <1>2 DEF EditInv, OpenFits
<1>4. Bottom' = Bottom /\ Editor!Kept' = Editor!Kept
  BY DEF Bottom, Editor!Kept
<1>5. StoredFits'
  BY <1>2, <1>4 DEF EditInv, StoredFits, Editor!CleanIsStored
<1> QED
  BY <1>1, <1>3, <1>5 DEF EditInv

(* The pixels changed, and the session knows.                              *)
LEMMA EditChanges ==
    ASSUME EditInv, Editor!Open, UNCHANGED <<library, item, openings, entering, asking>>,
           acts' \in Nat,
           engine' \in Engines, engine'.present \in Snapshots,
           Len(engine'.past) + Len(engine'.future) <= MaxHistory,
           engine'.truncated = FALSE => engine.truncated = FALSE /\ Bottom' = Bottom,
           NEW d \in BOOLEAN, NEW waiting \in Seq(EditTasks),
           d = FALSE => engine'.past = <<>>,
           Editor!afterChange(d, waiting)
    PROVE  EditInv'
<1>1. /\ editorQueue' = Editor!Outdated(waiting) /\ dirty' = d
      /\ saves' = {[s EXCEPT !.current = FALSE] : s \in saves}
      /\ editorPreview' \in {engine'.present, Editor!NoPixels}
  BY DEF Editor!afterChange
<1>2. editorPreview' \in Pixels
  BY <1>1, ClosedTyped DEF Engines
<1>3. \A s \in saves' : s \in EditSaves /\ s.current = FALSE
  BY <1>1 DEF EditInv, EditTypes, EditSaves
<1>4. EditTypes'
  BY <1>1, <1>2, <1>3, OutdatedTyped DEF EditInv, EditTypes
<1>5. Editor!Open' /\ engine'.present # Editor!NoPixels
  BY ClosedTyped DEF Editor!Open, Editor!NoPixels, Snapshots
<1>6. OpenFits'
  BY <1>5 DEF EditInv, OpenFits
<1>7. Editor!Kept' = Editor!Kept
  BY DEF Editor!Kept
<1>8. engine'.truncated \in BOOLEAN
  BY DEF Engines
<1>9. engine'.truncated = FALSE => Bottom' \in Editor!Kept'
  BY <1>7 DEF EditInv, StoredFits
<1>10. Editor!CleanIsStored'
  <2> SUFFICES ASSUME dirty' = FALSE, engine'.truncated = FALSE
               PROVE engine'.present \in Editor!Kept'
    BY <1>1, <1>8 DEF Editor!CleanIsStored
  <2>1. Bottom' = engine'.present
    BY <1>1 DEF Bottom
  <2> QED
    BY <1>9, <2>1
<1>11. StoredFits'
  BY <1>3, <1>8, <1>9, <1>10 DEF StoredFits
<1> QED
  BY <1>4, <1>6, <1>11 DEF EditInv

LEMMA StaleTyped ==
    ASSUME EditTypes
    PROVE  /\ Editor!Stale \subseteq [id : DOMAIN library, latest : BOOLEAN]
           /\ \A o \in Editor!Stale : o.latest = FALSE
BY DEF EditTypes, Editor!Stale

(* The session is closed, for another image to be opened or for none.      *)
LEMMA EditCloses ==
    ASSUME EditInv, Editor!close, UNCHANGED <<library>>, acts' \in Nat,
           openings' = Editor!Stale
           \/ \E id \in DOMAIN library : openings' = Editor!Stale \cup {[id |-> id, latest |-> TRUE]},
           entering' \subseteq DOMAIN library,
           asking'.what = "open" => asking'.id \in DOMAIN library
    PROVE  EditInv'
<1>1. /\ editorPreview' = Editor!NoPixels /\ editorQueue' = <<>> /\ engine' = Editor!Closed
      /\ item' = Editor!Nothing /\ dirty' = FALSE
      /\ saves' = {[s EXCEPT !.ours = FALSE] : s \in saves}
  BY DEF Editor!close
<1>2. \A s \in saves' : s \in EditSaves /\ s.ours = FALSE
  BY <1>1 DEF EditInv, EditTypes, EditSaves
<1>3. item' \in Nat /\ <<>> \in Seq(EditTasks)
  BY <1>1 DEF Editor!Nothing
<1>4. /\ openings' \subseteq [id : DOMAIN library, latest : BOOLEAN]
      /\ \A o, p \in openings' : o.latest /\ p.latest => o = p
  <2>1. /\ Editor!Stale \subseteq [id : DOMAIN library, latest : BOOLEAN]
        /\ \A o \in Editor!Stale : o.latest = FALSE
    BY StaleTyped DEF EditInv
  <2>2. CASE openings' = Editor!Stale
    BY <2>1, <2>2
  <2>3. ASSUME NEW id \in DOMAIN library, NEW new, new = [id |-> id, latest |-> TRUE],
               openings' = Editor!Stale \cup {new}
        PROVE <1>4!1 /\ <1>4!2
    <3>1. new \in [id : DOMAIN library, latest : BOOLEAN]
      BY <2>3
    <3>2. \A o \in openings' : o.latest => o = new
      BY <2>1, <2>3
    <3> QED
      BY <2>1, <2>3, <3>1, <3>2
  <2> QED
    BY <2>2, <2>3
<1>5. EditTypes'
  BY <1>1, <1>2, <1>3, <1>4, ClosedTyped DEF EditInv, EditTypes
<1>6. ~Editor!Open'
  BY <1>1 DEF Editor!Open, Editor!Closed
<1>7. Len(engine'.past) + Len(engine'.future) <= MaxHistory
  <2>1. Len(engine'.past) + Len(engine'.future) = 0
    BY <1>1, ClosedTyped
  <2>2. 0 <= MaxHistory
    BY HistoryHolds
  <2> QED
    BY <2>1, <2>2, Zenon
<1>8. engine' = Editor!Closed' /\ editorQueue' = <<>> /\ dirty' = FALSE
  BY <1>1 DEF Editor!Closed
<1>9. OpenFits'
  BY <1>4, <1>6, <1>7, <1>8 DEF OpenFits
<1>10. StoredFits'
  BY <1>2, <1>6 DEF StoredFits, Editor!CleanIsStored
<1> QED
  BY <1>5, <1>9, <1>10 DEF EditInv

LEMMA EditParts ==
    ASSUME EditInv
    PROVE  /\ EditTypes /\ OpenFits /\ StoredFits
           /\ item \in Nat /\ acts \in Nat /\ editorPreview \in Pixels
           /\ editorQueue \in Seq(EditTasks) /\ saves \subseteq EditSaves
           /\ editorQueue # <<>> => Editor!Open
           /\ dirty => Editor!Open
           /\ dirty \in BOOLEAN
           /\ \A s \in saves : s.ours /\ s.current => Editor!Open /\ s.px = engine.present
           /\ entering \subseteq DOMAIN library
           /\ asking.what = "open" => asking.id \in DOMAIN library
BY DEF EditInv, EditTypes, OpenFits, StoredFits

(* What a step may leave alone.                                            *)
EditSame == UNCHANGED <<library, engine, dirty, item, saves, entering, asking>> /\ openings' \subseteq openings

LEMMA EditIdles ==
    ASSUME EditInv, EditSame, acts' \in Nat,
           editorPreview' \in Pixels, editorQueue' \in Seq(EditTasks),
           editorQueue' # <<>> => Editor!Open
    PROVE  EditInv'
BY EditParts, EditQuiet DEF EditSame

LEMMA TaskQueued ==
    ASSUME EditInv, NEW task \in EditTasks
    PROVE  Append(editorQueue, task) \in Seq(EditTasks) /\ Append(Editor!Outdated(editorQueue), task) \in Seq(EditTasks)
BY EditParts, OutdatedTyped

LEMMA EnqueueKeeps ==
    ASSUME EditInv, Editor!Open, NEW kind \in {"apply", "engine", "heal", "stroke"},
           NEW base \in Pixels, Editor!Enqueue(kind, base)
    PROVE  EditInv'
<1>1. acts' = acts + 1 /\ acts' \in Nat
  BY EditParts DEF Editor!Enqueue, Editor!Act
<1>2. Editor!Task(kind, base) \in EditTasks
  BY <1>1 DEF Editor!Task, EditTasks
<1>3. EditSame /\ editorQueue' = Append(editorQueue, Editor!Task(kind, base)) /\ editorPreview' = editorPreview
  BY DEF Editor!Enqueue, Editor!page, Editor!session, EditSame
<1> QED
  BY <1>1, <1>2, <1>3, EditParts, EditIdles, TaskQueued

LEMMA AppliesKeep ==
    ASSUME EditInv, Editor!apply \/ Editor!applyEngine \/ Editor!applyHeal \/ Editor!strokeOp
    PROVE  EditInv'
<1>1. engine.present \in Pixels /\ Editor!NoPixels \in Pixels
  BY EditParts, EngineParts, ClosedTyped
<1>2. CASE Editor!apply
  BY <1>1, <1>2, EnqueueKeeps DEF Editor!apply
<1>3. CASE Editor!applyEngine
  BY <1>1, <1>3, EnqueueKeeps DEF Editor!applyEngine
<1>4. CASE Editor!applyHeal
  BY <1>1, <1>4, EnqueueKeeps DEF Editor!applyHeal
<1>5. CASE Editor!strokeOp
  BY <1>1, <1>5, EnqueueKeeps DEF Editor!strokeOp
<1> QED
  BY <1>2, <1>3, <1>4, <1>5

LEMMA CommitStrokeKeeps == ASSUME EditInv, Editor!commitStroke PROVE EditInv'
<1> DEFINE task == [kind |-> "commit", edit |-> 0, base |-> Editor!NoPixels, live |-> TRUE, runs |-> FALSE]
<1>1. task \in EditTasks
  BY ClosedTyped DEF EditTasks
<1>2. /\ EditSame /\ editorQueue' = Append(editorQueue, task) /\ editorPreview' = editorPreview
      /\ Editor!Open /\ acts' = acts
  BY DEF Editor!commitStroke, Editor!page, Editor!session, EditSame
<1> HIDE DEF task
<1> QED
  BY <1>1, <1>2, EditParts, EditIdles, TaskQueued

LEMMA PreviewOpKeeps == ASSUME EditInv, Editor!previewOp PROVE EditInv'
<1> DEFINE task == [kind |-> "preview", edit |-> Editor!Previewed, live |-> TRUE,
                    base |-> engine.present, runs |-> FALSE]
<1>1. task \in EditTasks
  BY EditParts, EngineParts DEF EditTasks, Editor!Previewed
<1>2. /\ EditSame /\ editorQueue' = Append(Editor!Outdated(editorQueue), task)
      /\ editorPreview' = editorPreview /\ Editor!Open /\ acts' = acts + 1
  BY DEF Editor!previewOp, Editor!page, Editor!session, EditSame, Editor!Act
<1> HIDE DEF task
<1>3. acts' \in Nat
  BY <1>2, EditParts
<1> QED
  BY <1>1, <1>2, <1>3, EditParts, EditIdles, TaskQueued

LEMMA ResetPreviewKeeps == ASSUME EditInv, Editor!resetPreview PROVE EditInv'
<1>1. /\ EditSame /\ editorQueue' = Editor!Outdated(editorQueue)
      /\ editorPreview' = Editor!NoPixels /\ Editor!Open /\ acts' = acts
  BY DEF Editor!resetPreview, Editor!page, Editor!session, EditSame
<1> QED
  BY <1>1, EditParts, EditIdles, OutdatedTyped, ClosedTyped

(* The first task is taken off, or goes on with another base.              *)
LEMMA HeadTyped ==
    ASSUME EditInv, editorQueue # <<>>
    PROVE  /\ Head(editorQueue) \in EditTasks /\ Tail(editorQueue) \in Seq(EditTasks)
           /\ Head(editorQueue) = editorQueue[1] /\ 1 \in DOMAIN editorQueue
           /\ Editor!Open
BY EditParts

LEMMA BaseTyped ==
    ASSUME EditInv, NEW task \in EditTasks PROVE Editor!BaseOf(task) \in Pixels
<1>1. engine.present \in Pixels /\ editorPreview \in Pixels /\ task.base \in Pixels
  BY EditParts, EngineParts DEF EditTasks
<1> QED
  BY <1>1 DEF Editor!BaseOf

LEMMA StartKeeps == ASSUME EditInv, Editor!Start PROVE EditInv'
<1> DEFINE task == Head(editorQueue)
           begun == [task EXCEPT !.runs = TRUE, !.base = Editor!BaseOf(task)]
<1>1. editorQueue # <<>> /\ EditSame /\ editorPreview' = editorPreview /\ acts' = acts
  BY DEF Editor!Start, Editor!page, Editor!session, EditSame
<1>2. task \in EditTasks /\ Editor!BaseOf(task) \in Pixels
  BY <1>1, HeadTyped, BaseTyped
<1>3. begun \in EditTasks
  BY <1>2 DEF EditTasks
<1>4. editorQueue' = [editorQueue EXCEPT ![1] = begun]
  BY <1>1, HeadTyped DEF Editor!Start
<1>5. editorQueue' \in Seq(EditTasks)
  <2> HIDE DEF begun
  <2> QED
    BY <1>1, <1>3, <1>4, EditParts, HeadTyped
<1> QED
  BY <1>1, <1>5, EditParts, EditIdles, HeadTyped

(* An operation that is over.                                              *)
LEMMA CommitKeeps ==
    ASSUME EditInv, editorQueue # <<>>, NEW px \in Snapshots, Editor!Commit(px),
           UNCHANGED <<library, item, openings, entering, asking, acts>>
    PROVE  EditInv' /\ engine.present \in Editor!Range(engine'.past)
<1>1. Editor!push(px) /\ Editor!afterChange(TRUE, Tail(editorQueue))
  BY DEF Editor!Commit
<1>2. /\ engine' \in Engines /\ engine'.present = px
      /\ Len(engine'.past) + Len(engine'.future) <= MaxHistory
      /\ engine.present \in Editor!Range(engine'.past)
      /\ engine'.truncated = FALSE => engine.truncated = FALSE /\ Bottom' = Bottom
  BY <1>1, EditParts, HeadTyped, PushFits
<1>3. Tail(editorQueue) \in Seq(EditTasks) /\ Editor!Open /\ acts' \in Nat
  BY EditParts, HeadTyped
<1> QED
  BY <1>1, <1>2, <1>3, EditChanges

LEMMA EndedPixels ==
    ASSUME NEW task \in EditTasks PROVE Append(task.base, task.edit) \in Snapshots
BY DEF EditTasks, Pixels, Snapshots

LEMMA OperationEndsKeeps ==
    ASSUME EditInv, Editor!OperationEnds
    PROVE  /\ EditInv'
           /\ engine'.present = engine.present \/ engine.present \in Editor!Range(engine'.past)
<1> DEFINE task == Head(editorQueue)
<1>1. /\ editorQueue # <<>> /\ UNCHANGED <<library, item, openings, entering, asking, acts>>
      /\ UNCHANGED openings
  BY DEF Editor!OperationEnds, Editor!page
<1>2. task \in EditTasks /\ Append(task.base, task.edit) \in Snapshots
  BY <1>1, HeadTyped, EndedPixels
<1>3. CASE task.kind \in {"apply", "engine", "heal"}
  <2>1. Editor!Commit(Append(task.base, task.edit))
    BY <1>3 DEF Editor!OperationEnds
  <2> QED
    BY <1>1, <1>2, <2>1, CommitKeeps
<1>4. CASE task.kind \notin {"apply", "engine", "heal"}
  <2>1. /\ editorQueue' = Tail(editorQueue) /\ UNCHANGED <<engine, dirty, saves>>
        /\ editorPreview' = IF task.live THEN Append(task.base, task.edit) ELSE editorPreview
    BY <1>4 DEF Editor!OperationEnds
  <2>2. editorPreview' \in Pixels
    BY <2>1, <1>2, EditParts DEF Snapshots
  <2>3. EditSame /\ acts' \in Nat
    BY <1>1, <2>1, EditParts DEF EditSame
  <2> QED
    BY <1>1, <2>1, <2>2, <2>3, EditIdles, HeadTyped
<1> QED
  BY <1>3, <1>4

LEMMA OperationFailsKeeps == ASSUME EditInv, Editor!OperationFails PROVE EditInv'
<1> DEFINE task == Head(editorQueue)
           again == [task EXCEPT !.kind = "apply", !.runs = FALSE, !.base = engine.present]
<1>1. editorQueue # <<>> /\ EditSame /\ editorPreview' = editorPreview /\ acts' = acts
  BY DEF Editor!OperationFails, Editor!page, Editor!session, EditSame
<1>2. task \in EditTasks /\ Tail(editorQueue) \in Seq(EditTasks) /\ Editor!Open
      /\ engine.present \in Pixels
  BY <1>1, HeadTyped, EditParts, EngineParts
<1>3. again \in EditTasks
  BY <1>2 DEF EditTasks
<1>4. editorQueue' \in {Tail(editorQueue), Append(Tail(editorQueue), again)}
  BY DEF Editor!OperationFails
<1>5. editorQueue' \in Seq(EditTasks)
  <2> HIDE DEF again
  <2> QED
    BY <1>2, <1>3, <1>4
<1> QED
  BY <1>1, <1>2, <1>5, EditParts, EditIdles

LEMMA StrokeCommittedKeeps ==
    ASSUME EditInv, Editor!StrokeCommitted
    PROVE  /\ EditInv'
           /\ engine'.present = engine.present \/ engine.present \in Editor!Range(engine'.past)
<1>1. editorQueue # <<>> /\ UNCHANGED <<library, item, openings, entering, asking, acts>>
  BY DEF Editor!StrokeCommitted, Editor!page
<1>2. CASE editorPreview = Editor!NoPixels
  <2>1. /\ editorQueue' = Tail(editorQueue) /\ UNCHANGED <<engine, dirty, saves, editorPreview>>
    BY <1>2 DEF Editor!StrokeCommitted
  <2>2. EditSame
    BY <1>1, <2>1 DEF EditSame
  <2> QED
    BY <1>1, <2>1, <2>2, EditParts, EditIdles, HeadTyped
<1>3. CASE editorPreview # Editor!NoPixels
  <2>1. Editor!Commit(editorPreview)
    BY <1>3 DEF Editor!StrokeCommitted
  <2>2. editorPreview \in Snapshots
    BY <1>3, EditParts DEF Snapshots, Editor!NoPixels
  <2> QED
    BY <1>1, <2>1, <2>2, CommitKeeps
<1> QED
  BY <1>2, <1>3

LEMMA UndoKeeps ==
    ASSUME EditInv, Editor!undo
    PROVE  EditInv' /\ engine.present \in Editor!Range(engine'.future)
<1>1. /\ Editor!Open /\ UNCHANGED <<library, item, openings, entering, asking>>
      /\ acts' = acts + 1 /\ Editor!afterChange(Editor!canUndo(engine'), editorQueue)
  BY DEF Editor!undo, Editor!page, Editor!Act
<1>2. /\ engine' \in Engines /\ engine'.present \in Snapshots
      /\ Len(engine'.past) + Len(engine'.future) <= MaxHistory
      /\ engine.present \in Editor!Range(engine'.future)
      /\ engine'.truncated = engine.truncated /\ Bottom' = Bottom
  BY <1>1, EditParts, UndoFits
<1>3. PICK d \in BOOLEAN : d = Editor!canUndo(engine')
  BY DEF Editor!canUndo
<1>4. d = FALSE => engine'.past = <<>>
  BY <1>3 DEF Editor!canUndo
<1>5. acts' \in Nat /\ editorQueue \in Seq(EditTasks)
  BY <1>1, EditParts
<1>6. Editor!afterChange(d, editorQueue)
  BY <1>1, <1>3
<1> QED
  BY <1>1, <1>2, <1>4, <1>5, <1>6, EditChanges

LEMMA RedoKeeps ==
    ASSUME EditInv, Editor!redo
    PROVE  EditInv' /\ engine.present \in Editor!Range(engine'.past)
<1>1. /\ Editor!Open /\ UNCHANGED <<library, item, openings, entering, asking>>
      /\ acts' = acts + 1 /\ Editor!afterChange(TRUE, editorQueue)
  BY DEF Editor!redo, Editor!page, Editor!Act
<1>2. /\ engine' \in Engines /\ engine'.present \in Snapshots
      /\ Len(engine'.past) + Len(engine'.future) <= MaxHistory
      /\ engine.present \in Editor!Range(engine'.past)
      /\ engine'.truncated = engine.truncated /\ Bottom' = Bottom
  BY <1>1, EditParts, RedoFits
<1>5. acts' \in Nat /\ editorQueue \in Seq(EditTasks)
  BY <1>1, EditParts
<1> QED
  BY <1>1, <1>2, <1>5, EditChanges

(* Opening: only the latest decode is installed, over nothing.             *)
LEMMA DecodedKeeps ==
    ASSUME EditInv, NEW o \in openings, Editor!Decoded(o)
    PROVE  EditInv' /\ (dirty => engine' = engine)
<1>1. /\ openings' = openings \ {o} /\ Editor!completeOpen(o)
      /\ UNCHANGED <<library, entering, saves, editorPreview, editorQueue, asking, acts>>
  BY DEF Editor!Decoded, Editor!page
<1>2. CASE ~o.latest
  <2>1. UNCHANGED <<engine, item, dirty>>
    BY <1>1, <1>2 DEF Editor!completeOpen
  <2>2. EditSame
    BY <1>1, <2>1 DEF EditSame
  <2> QED
    BY <1>1, <2>1, <2>2, EditParts, EditIdles
<1>3. CASE o.latest
  <2>1. /\ engine' = [Editor!Closed EXCEPT !.present = library[o.id].px]
        /\ item' = o.id /\ dirty' = FALSE
    BY <1>1, <1>3 DEF Editor!completeOpen, Editor!Install
  <2>2. o.id \in DOMAIN library /\ o \in [id : DOMAIN library, latest : BOOLEAN]
    BY EditParts DEF EditTypes
  <2>3. library \in Seq(Items) /\ library[o.id] \in Items /\ o.id \in Nat
    BY <2>2, EditParts DEF EditTypes
  <2>4. library[o.id].px \in Snapshots
    BY <2>3 DEF Items
  <2>5. /\ engine' \in Engines /\ engine'.past = <<>> /\ engine'.future = <<>>
        /\ engine'.present = library[o.id].px
    BY <2>1, <2>4, ClosedTyped DEF Engines, Snapshots, Editor!Closed
  <2>6. ~Editor!Open
    BY <1>3, EditParts DEF OpenFits
  <2>7. dirty = FALSE /\ editorQueue = <<>> /\ \A s \in saves : ~(s.ours /\ s.current)
    BY <2>6, EditParts
  <2>8. EditTypes'
    BY <1>1, <2>1, <2>3, <2>5, EditParts DEF EditTypes
  <2>9. engine'.present # Editor!NoPixels /\ Editor!NoPixels' = Editor!NoPixels
    BY <2>4, <2>5 DEF Editor!NoPixels, Snapshots
  <2>10. Len(engine'.past) + Len(engine'.future) <= MaxHistory
    <3>1. Len(<<>>) + Len(<<>>) = 0
      OBVIOUS
    <3>2. 0 <= MaxHistory
      BY HistoryHolds
    <3>3. Len(<<>>) + Len(<<>>) <= MaxHistory
      BY <3>1, <3>2, Zenon
    <3>4. engine'.past = <<>> /\ engine'.future = <<>>
      BY <2>5
    <3> QED
      BY <3>3, <3>4, Zenon
  <2>11. \A p \in openings' : ~p.latest
    BY <1>1, <1>3, EditParts DEF OpenFits
  <2>12. OpenFits'
    BY <1>1, <2>1, <2>7, <2>9, <2>10, <2>11 DEF OpenFits
  <2>13. library[o.id].px \in Editor!Kept /\ Editor!Kept' = Editor!Kept
    BY <1>1, <2>2 DEF Editor!Kept
  <2>14. engine'.present \in Editor!Kept' /\ Bottom' \in Editor!Kept'
    BY <2>5, <2>13 DEF Bottom
  <2>15. StoredFits'
    BY <1>1, <2>7, <2>14 DEF StoredFits, Editor!CleanIsStored
  <2> QED
    BY <2>7, <2>8, <2>12, <2>15 DEF EditInv
<1> QED
  BY <1>2, <1>3

LEMMA DecodeFailsKeeps ==
    ASSUME EditInv, NEW o \in openings, Editor!DecodeFails(o) PROVE EditInv'
<1>1. /\ EditSame /\ UNCHANGED <<editorPreview, editorQueue, acts>>
  BY DEF Editor!DecodeFails, Editor!page, Editor!rest, EditSame
<1> QED
  BY <1>1, EditParts, EditIdles

LEMMA ResetKeeps == ASSUME EditInv, Editor!reset PROVE EditInv'
<1>1. /\ Editor!close /\ UNCHANGED <<library, entering>> /\ openings' = Editor!Stale
      /\ acts' = acts + 1 /\ asking' = Editor!Silence
  BY DEF Editor!reset, Editor!page
<1>2. acts' \in Nat /\ asking'.what # "open"
  BY <1>1, EditParts DEF Editor!Silence
<1> QED
  BY <1>1, <1>2, EditParts, EditCloses

LEMMA LeaveKeeps ==
    ASSUME EditInv, Editor!Leave, UNCHANGED <<library, entering>>, acts' \in Nat,
           asking'.what # "open"
    PROVE EditInv'
<1>1. Editor!close /\ openings' = Editor!Stale
  BY DEF Editor!Leave
<1> QED
  BY <1>1, EditParts, EditCloses

LEMMA BeginKeeps ==
    ASSUME EditInv, NEW id \in DOMAIN library, Editor!beginOpen(id), UNCHANGED <<library>>,
           entering' \subseteq entering, acts' \in Nat,
           asking'.what = "open" => asking'.id \in DOMAIN library
    PROVE EditInv'
<1>1. Editor!close /\ openings' = Editor!Stale \cup {[id |-> id, latest |-> TRUE]}
  BY DEF Editor!beginOpen
<1> QED
  BY <1>1, EditParts, EditCloses

(* Saves, and what the library gets.                                       *)
LEMMA SaveKeeps ==
    ASSUME EditInv, NEW px \in Snapshots, NEW ai \in BOOLEAN, NEW adopts \in BOOLEAN,
           adopts = TRUE => px = engine.present, Editor!Save(px, ai, adopts)
    PROVE  EditInv'
<1> DEFINE save == [px |-> px, parent |-> item, ai |-> ai, ours |-> adopts, current |-> TRUE]
<1>1. /\ saves' = saves \cup {save} /\ acts' = acts + 1 /\ Editor!Open
      /\ UNCHANGED <<library, engine, dirty, item, entering, openings, editorPreview, editorQueue, asking>>
  BY DEF Editor!Save, Editor!Act, Editor!page, Editor!rest
<1>2. save \in EditSaves /\ save.px = px /\ save.ours = adopts
  BY EditParts DEF EditSaves
<1>3. save.ours = TRUE => save.px = engine.present
  <2>1. CASE adopts = TRUE
    BY <1>2, <2>1
  <2>2. CASE adopts = FALSE
    BY <1>2, <2>2
  <2>3. adopts = TRUE \/ adopts = FALSE
    OBVIOUS
  <2> HIDE DEF save
  <2> QED
    BY <2>1, <2>2, <2>3, Zenon
<1>4. saves' \subseteq EditSaves /\ acts' \in Nat
  <2>1. saves \subseteq EditSaves /\ acts \in Nat
    BY EditParts
  <2> HIDE DEF save
  <2> QED
    BY <1>1, <1>2, <2>1
<1>5. \A s \in saves' : s.ours /\ s.current => Editor!Open /\ s.px = engine.present
  <2> HIDE DEF save
  <2>1. save.ours \in BOOLEAN
    BY <1>2 DEF EditSaves
  <2>2. save.ours => save.px = engine.present
    BY <1>3, <2>1
  <2> QED
    BY <1>1, <2>2, EditParts
<1> QED
  BY <1>1, <1>4, <1>5, EditParts, EditQuiet

LEMMA OpenSnapshot == ASSUME EditInv, Editor!Open PROVE engine.present \in Snapshots
BY EditParts, OpenHasPixels

LEMMA SaveEditKeeps == ASSUME EditInv, Editor!saveEdit PROVE EditInv'
<1>1. Editor!Open /\ Editor!Save(engine.present, FALSE, TRUE)
  BY DEF Editor!saveEdit, Editor!Save
<1> QED
  BY <1>1, OpenSnapshot, SaveKeeps

LEMMA RunExpandKeeps == ASSUME EditInv, Editor!runExpand PROVE EditInv'
<1>1. Editor!Open /\ Editor!Save(Append(engine.present, Editor!Padded), TRUE, FALSE)
  BY DEF Editor!runExpand, Editor!Save
<1>2. Append(engine.present, Editor!Padded) \in Snapshots
  BY <1>1, OpenSnapshot DEF Snapshots, Pixels, Editor!Padded
<1> QED
  BY <1>1, <1>2, SaveKeeps

LEMMA AiToolKeeps == ASSUME EditInv, Editor!aiTool PROVE EditInv'
<1>1. CASE dirty
  <2>1. Editor!Open /\ Editor!Save(engine.present, TRUE, TRUE)
    BY <1>1 DEF Editor!aiTool, Editor!Save
  <2> QED
    BY <2>1, OpenSnapshot, SaveKeeps
<1>2. CASE ~dirty
  <2>1. /\ EditSame /\ UNCHANGED <<editorPreview, editorQueue>> /\ acts' = acts + 1
    BY <1>2 DEF Editor!aiTool, Editor!Act, Editor!session, Editor!rest, EditSame
  <2>2. acts' \in Nat
    BY <2>1, EditParts
  <2> QED
    BY <2>1, <2>2, EditParts, EditIdles
<1> QED
  BY <1>1, <1>2

LEMMA SaveFailsKeeps == ASSUME EditInv, NEW s \in saves, Editor!SaveFails(s) PROVE EditInv'
<1>1. /\ saves' \subseteq saves
      /\ UNCHANGED <<library, engine, dirty, item, entering, openings, editorPreview, editorQueue,
                     asking, acts>>
  BY DEF Editor!SaveFails, Editor!page, Editor!rest
<1> QED
  BY <1>1, EditParts, EditQuiet

LEMMA LibraryGrows ==
    ASSUME EditInv, NEW new \in Items, library' = Append(library, new)
    PROVE  /\ library' \in Seq(Items) /\ DOMAIN library \subseteq DOMAIN library'
           /\ Editor!Kept \subseteq Editor!Kept' /\ new.px \in Editor!Kept'
           /\ Len(library) + 1 \in Nat
<1>1. library \in Seq(Items) /\ Len(library) \in Nat
  BY EditParts DEF EditTypes
<1>2. /\ library' \in Seq(Items) /\ DOMAIN library \subseteq DOMAIN library'
      /\ \A i \in DOMAIN library : library'[i] = library[i]
      /\ Len(library) + 1 \in DOMAIN library' /\ library'[Len(library) + 1] = new
  BY <1>1
<1>3. new.px \in Editor!Kept'
  BY <1>2 DEF Editor!Kept
<1>4. Editor!Kept \subseteq Editor!Kept'
  BY <1>2 DEF Editor!Kept
<1> QED
  BY <1>1, <1>2, <1>3, <1>4

(* The library grew, and what was saved may count as clean.                *)
LEMMA EditStored ==
    ASSUME EditInv, NEW new \in Items, library' = Append(library, new),
           UNCHANGED <<engine, openings, editorPreview, editorQueue, entering, asking, acts>>,
           saves' \subseteq saves, item' \in Nat, dirty' \in BOOLEAN,
           dirty' = dirty \/ (dirty' = FALSE /\ new.px = engine.present)
    PROVE  EditInv'
<1>1. /\ library' \in Seq(Items) /\ DOMAIN library \subseteq DOMAIN library'
      /\ Editor!Kept \subseteq Editor!Kept' /\ new.px \in Editor!Kept'
  BY LibraryGrows
<1>2. openings' \subseteq [id : DOMAIN library', latest : BOOLEAN]
  <2>1. \A o \in openings : o \in [id : DOMAIN library, latest : BOOLEAN]
    BY EditParts DEF EditTypes
  <2> QED
    BY <1>1, <2>1
<1>3. EditTypes'
  BY <1>1, <1>2, EditParts DEF EditTypes
<1>4. (Editor!Open' <=> Editor!Open) /\ Bottom' = Bottom
  BY DEF Editor!Open, Editor!Closed, Bottom
<1>5. dirty' => dirty
  OBVIOUS
<1>6. OpenFits'
  BY <1>4, <1>5 DEF EditInv, OpenFits
<1>7. Editor!Open /\ ~engine.truncated => Bottom \in Editor!Kept
  BY DEF EditInv, StoredFits
<1>8. Editor!CleanIsStored'
  BY <1>1, <1>4 DEF EditInv, StoredFits, Editor!CleanIsStored
<1>9. StoredFits'
  BY <1>1, <1>4, <1>7, <1>8 DEF EditInv, StoredFits
<1> QED
  BY <1>3, <1>6, <1>9 DEF EditInv

LEMMA SaveAnsweredKeeps ==
    ASSUME EditInv, NEW s \in saves, Editor!SaveAnswered(s) PROVE EditInv'
<1> DEFINE new == Editor!Item(s.px, s.parent, FALSE)
<1>1. s \in EditSaves
  BY EditParts
<1>2. new \in Items /\ new.px = s.px
  BY <1>1 DEF EditSaves, Items, Editor!Item
<1>3. /\ library' = Append(library, new) /\ saves' \subseteq saves
      /\ UNCHANGED <<engine, openings, editorPreview, editorQueue, entering, asking, acts>>
      /\ Editor!adoptItem(s, Len(library) + 1)
  BY DEF Editor!SaveAnswered, Editor!rest
<1> HIDE DEF new
<1>4. Len(library) + 1 \in Nat
  BY <1>2, <1>3, LibraryGrows
<1>5. CASE s.ours /\ s.current
  <2>1. item' = Len(library) + 1 /\ dirty' = FALSE /\ s.px = engine.present
    BY <1>3, <1>5, EditParts DEF Editor!adoptItem
  <2> QED
    BY <1>2, <1>3, <1>4, <2>1, EditStored
<1>6. CASE ~(s.ours /\ s.current)
  <2>1. UNCHANGED <<item, dirty>>
    BY <1>3, <1>6 DEF Editor!adoptItem
  <2> QED
    BY <1>2, <1>3, <2>1, EditParts, EditStored
<1> QED
  BY <1>5, <1>6

LEMMA ResultReadyKeeps == ASSUME EditInv, rendering \in Seq(Nat), Editor!ResultReady PROVE EditInv'
<1> DEFINE new == Editor!Item(<<Len(library) + 1>>, Head(rendering), TRUE)
<1>1. Head(rendering) \in Nat
  BY DEF Editor!ResultReady
<1>2. Len(library) \in Nat
  BY EditParts DEF EditTypes
<1>3. <<Len(library) + 1>> \in Snapshots
  BY <1>2 DEF Snapshots, Pixels
<1>4. new \in Items
  BY <1>1, <1>3 DEF Items, Editor!Item
<1>5. /\ library' = Append(library, new)
      /\ UNCHANGED <<engine, openings, editorPreview, editorQueue, entering, asking, acts, saves, item, dirty>>
  BY DEF Editor!ResultReady, Editor!session, Editor!rest
<1> HIDE DEF new
<1> QED
  BY <1>4, <1>5, EditParts, EditStored

(* The page: entering, leaving, questions and results that open alone.     *)
LEMMA EnterEditKeeps ==
    ASSUME EditInv, NEW id \in DOMAIN library, Editor!enterEdit(id) PROVE EditInv'
<1>1. /\ entering' = {id} /\ acts' = acts + 1
      /\ UNCHANGED <<library, engine, dirty, item, openings, editorPreview, editorQueue, saves,
                     asking>>
  BY DEF Editor!enterEdit, Editor!Enter, Editor!Act, Editor!session, Editor!rest
<1>2. acts' \in Nat /\ entering' \subseteq DOMAIN library
  BY <1>1, EditParts
<1> QED
  BY <1>1, <1>2, EditParts, EditQuiet

(* The newest of some results is one of them.                              *)
LEMMA MaxIsIn ==
    ASSUME NEW n \in Nat, NEW S \in SUBSET (1..n), S # {} PROVE Editor!Max(S) \in S
<1> DEFINE Segments == {x..n : x \in S}
<1>1. Segments \subseteq FiniteSubsetsOf(Nat)
  <2> SUFFICES ASSUME NEW x \in S PROVE x..n \in FiniteSubsetsOf(Nat)
    OBVIOUS
  <2>1. IsFiniteSet(x..n) /\ x..n \in SUBSET Nat
    BY FS_Interval
  <2> QED
    BY <2>1 DEF FiniteSubsetsOf
<1>2. Segments # {}
  OBVIOUS
<1>3. PICK T \in Segments : \A U \in Segments : ~ (<<U, T>> \in StrictSubsetOrdering(Nat))
  <2> HIDE DEF Segments
  <2> QED
    BY <1>1, <1>2, WFMin, FS_StrictSubsetOrderingWellFounded
<1>4. PICK x \in S : T = x..n
  BY <1>3
<1>5. ASSUME NEW y \in S PROVE x >= y
  <2> SUFFICES ASSUME x < y PROVE FALSE
    OBVIOUS
  <2>1. y..n \in Segments /\ y..n \subseteq T /\ y..n \in SUBSET Nat
    BY <1>4
  <2>2. T \in SUBSET Nat /\ x \in T /\ x \notin y..n
    BY <1>4
  <2> QED
    BY <1>3, <2>1, <2>2 DEF StrictSubsetOrdering
<1> QED
  BY <1>5 DEF Editor!Max

LEMMA AutoOpenKeeps == ASSUME EditInv, Editor!AutoOpen PROVE EditInv'
<1>1. /\ Editor!ReadyResults # {} /\ entering' \in {entering, {Editor!Max(Editor!ReadyResults)}}
      /\ UNCHANGED <<library, engine, dirty, item, openings, editorPreview, editorQueue, saves,
                     asking, acts>>
  BY DEF Editor!AutoOpen, Editor!Enter, Editor!session, Editor!rest
<1>2. Len(library) \in Nat /\ Editor!ReadyResults \in SUBSET (1..Len(library))
      /\ DOMAIN library = 1..Len(library)
  BY EditParts DEF EditTypes, Editor!ReadyResults
<1>3. Editor!Max(Editor!ReadyResults) \in DOMAIN library
  BY <1>1, <1>2, MaxIsIn
<1>4. entering' \subseteq DOMAIN library
  BY <1>1, <1>3, EditParts
<1> QED
  BY <1>1, <1>4, EditParts, EditQuiet

(* The page asks its question.                                             *)
LEMMA AskKeeps ==
    ASSUME EditInv, NEW what, NEW id, Editor!ask(what, id), what = "open" => id \in DOMAIN library,
           UNCHANGED library, entering' \subseteq entering, acts' \in Nat
    PROVE  EditInv'
<1>1. /\ asking'.what = what /\ asking'.id = id
      /\ UNCHANGED <<engine, dirty, item, openings, editorPreview, editorQueue, saves>>
  BY DEF Editor!ask, Editor!session
<1> QED
  BY <1>1, EditParts, EditQuiet

LEMMA ConfirmKeeps ==
    ASSUME EditInv, NEW id \in entering, Editor!confirmDiscard(id)
    PROVE  EditInv' /\ (dirty => engine' = engine)
<1>1. id \in DOMAIN library /\ acts \in Nat
      /\ (asking.what = "open" => asking.id \in DOMAIN library)
  BY EditParts
<1>2. UNCHANGED library /\ entering' \subseteq entering /\ acts' = acts
  BY DEF Editor!confirmDiscard
<1>3. CASE dirty
  <2>1. Editor!ask("open", id)
    BY <1>3 DEF Editor!confirmDiscard
  <2>2. engine' = engine
    BY <2>1 DEF Editor!ask, Editor!session
  <2> QED
    BY <1>1, <1>2, <2>1, <2>2, AskKeeps
<1>4. CASE ~dirty
  <2>1. Editor!beginOpen(id) /\ asking' = asking
    BY <1>4 DEF Editor!confirmDiscard
  <2> QED
    BY <1>1, <1>2, <1>4, <2>1, BeginKeeps
<1> QED
  BY <1>3, <1>4

LEMMA ExitKeeps == ASSUME EditInv, Editor!exitEdit PROVE EditInv' /\ (dirty => engine' = engine)
<1>1. /\ UNCHANGED <<library, entering>> /\ acts' = acts + 1 /\ Editor!Idle
  BY DEF Editor!exitEdit, Editor!page, Editor!Act
<1>2. acts' \in Nat
  BY <1>1, EditParts
<1>3. CASE dirty
  <2>1. Editor!ask("exit", Editor!Nothing)
    BY <1>3 DEF Editor!exitEdit
  <2>2. engine' = engine
    BY <2>1 DEF Editor!ask, Editor!session
  <2> QED
    BY <1>1, <1>2, <2>1, <2>2, AskKeeps
<1>4. CASE ~dirty
  <2>1. Editor!Leave /\ asking' = asking
    BY <1>4 DEF Editor!exitEdit
  <2>2. asking'.what # "open"
    BY <1>1, <2>1 DEF Editor!Idle, Editor!Silence
  <2> QED
    BY <1>1, <1>2, <1>4, <2>1, <2>2, LeaveKeeps
<1> QED
  BY <1>3, <1>4

LEMMA AgreeKeeps == ASSUME EditInv, Editor!Agree PROVE EditInv' /\ ~Editor!Idle
<1>1. /\ UNCHANGED <<library, entering, acts>> /\ asking' = Editor!Silence
      /\ asking'.what # "open" /\ acts \in Nat
  BY EditParts DEF Editor!Agree, Editor!page, Editor!Silence
<1>2. CASE asking.what = "open" /\ Editor!beginOpen(asking.id)
  <2>1. asking.id \in DOMAIN library
    BY <1>2, EditParts
  <2> QED
    BY <1>1, <1>2, <2>1, BeginKeeps DEF Editor!Idle, Editor!Silence
<1>3. CASE asking.what = "exit" /\ Editor!Leave
  BY <1>1, <1>3, LeaveKeeps DEF Editor!Idle, Editor!Silence
<1> QED
  BY <1>2, <1>3 DEF Editor!Agree

LEMMA DeclineKeeps == ASSUME EditInv, Editor!Decline PROVE EditInv'
<1>1. /\ asking'.what # "open"
      /\ UNCHANGED <<library, engine, dirty, item, openings, editorPreview, editorQueue, saves,
                     entering, acts>>
  BY DEF Editor!Decline, Editor!page, Editor!session, Editor!Silence
<1> QED
  BY <1>1, EditParts, EditQuiet

(* The parents of the AI edits under way are items, or Nothing.            *)
LEMMA RenderingKeeps ==
    ASSUME EditInv, rendering \in Seq(Nat), [Editor!Next]_(Editor!editVars)
    PROVE  rendering' \in Seq(Nat)
<1>1. item \in Nat /\ Len(library) + 1 \in Nat
  BY EditParts DEF EditTypes
<1>2. \/ rendering' = rendering
      \/ rendering' \in {Append(rendering, item), Append(rendering, Len(library) + 1)}
      \/ rendering # <<>> /\ rendering' = Tail(rendering)
  BY DEF Editor!Next, Editor!Step, Editor!editVars, Editor!page, Editor!Decoded,
         Editor!DecodeFails, Editor!reset, Editor!apply, Editor!applyEngine, Editor!applyHeal,
         Editor!Enqueue, Editor!previewOp, Editor!strokeOp, Editor!commitStroke,
         Editor!resetPreview, Editor!undo, Editor!redo, Editor!Start, Editor!OperationEnds,
         Editor!OperationFails, Editor!StrokeCommitted, Editor!saveEdit, Editor!aiTool,
         Editor!runExpand, Editor!Save, Editor!SaveAnswered, Editor!SaveFails,
         Editor!ResultReady, Editor!enterEdit, Editor!confirmDiscard, Editor!exitEdit,
         Editor!Agree, Editor!Decline, Editor!AutoOpen
<1>3. \A n \in Nat : Append(rendering, n) \in Seq(Nat)
  OBVIOUS
<1>4. rendering # <<>> => Tail(rendering) \in Seq(Nat)
  OBVIOUS
<1>5. CASE rendering' = rendering
  BY <1>5
<1>6. CASE rendering' \in {Append(rendering, item), Append(rendering, Len(library) + 1)}
  BY <1>1, <1>3, <1>6
<1>7. CASE rendering # <<>> /\ rendering' = Tail(rendering)
  BY <1>4, <1>7
<1> QED
  BY <1>2, <1>5, <1>6, <1>7

(* What was on the canvas is still there: shown, or in the history.        *)
StillThere ==
    engine.present \in {engine'.present} \cup Editor!Range(engine'.past)
                         \cup Editor!Range(engine'.future)

(* One step of the editor: what holds of the session goes on holding, and  *)
(* unsaved pixels stay unless the customer agreed or is told.              *)
LEMMA EditStepKeeps ==
    ASSUME EditInv, rendering \in Seq(Nat), Editor!Step
    PROVE  EditInv' /\ (dirty => \/ ~Editor!Idle \/ discarded' \/ StillThere)
<1>0. engine' = engine => StillThere
  BY DEF StillThere
<1>1. CASE \E o \in openings : Editor!Decoded(o)
  BY <1>0, <1>1, DecodedKeeps
<1>2. CASE \E o \in openings : Editor!DecodeFails(o)
  <2>1. engine' = engine
    BY <1>2 DEF Editor!DecodeFails
  <2> QED
    BY <1>0, <1>2, <2>1, DecodeFailsKeeps
<1>3. CASE Editor!reset
  <2>1. discarded' = dirty
    BY <1>3 DEF Editor!reset
  <2> QED
    BY <1>3, <2>1, ResetKeeps
<1>4. CASE Editor!apply \/ Editor!applyEngine \/ Editor!applyHeal \/ Editor!strokeOp
  <2>1. engine' = engine
    BY <1>4 DEF Editor!apply, Editor!applyEngine, Editor!applyHeal, Editor!strokeOp,
                Editor!Enqueue, Editor!session
  <2> QED
    BY <1>0, <1>4, <2>1, AppliesKeep
<1>5. CASE Editor!commitStroke \/ Editor!previewOp \/ Editor!resetPreview
  <2>1. engine' = engine
    BY <1>5 DEF Editor!commitStroke, Editor!previewOp, Editor!resetPreview, Editor!session
  <2> QED
    BY <1>0, <1>5, <2>1, CommitStrokeKeeps, PreviewOpKeeps, ResetPreviewKeeps
<1>6. CASE Editor!undo \/ Editor!redo
  BY <1>6, UndoKeeps, RedoKeeps DEF StillThere
<1>7. CASE Editor!Start \/ Editor!OperationFails
  <2>1. engine' = engine
    BY <1>7 DEF Editor!Start, Editor!OperationFails, Editor!session
  <2> QED
    BY <1>0, <1>7, <2>1, StartKeeps, OperationFailsKeeps
<1>8. CASE Editor!OperationEnds \/ Editor!StrokeCommitted
  BY <1>8, OperationEndsKeeps, StrokeCommittedKeeps DEF StillThere
<1>9. CASE Editor!saveEdit \/ Editor!aiTool \/ Editor!runExpand
  <2>1. engine' = engine
    BY <1>9 DEF Editor!saveEdit, Editor!aiTool, Editor!runExpand, Editor!Save, Editor!session
  <2> QED
    BY <1>0, <1>9, <2>1, SaveEditKeeps, AiToolKeeps, RunExpandKeeps
<1>10. CASE \E s \in saves : Editor!SaveAnswered(s) \/ Editor!SaveFails(s)
  <2>1. engine' = engine
    BY <1>10 DEF Editor!SaveAnswered, Editor!SaveFails
  <2> QED
    BY <1>0, <1>10, <2>1, SaveAnsweredKeeps, SaveFailsKeeps
<1>11. CASE Editor!ResultReady \/ Editor!Decline
  <2>1. engine' = engine
    BY <1>11 DEF Editor!ResultReady, Editor!Decline, Editor!session
  <2> QED
    BY <1>0, <1>11, <2>1, ResultReadyKeeps, DeclineKeeps
<1>12. CASE \E id \in DOMAIN library : Editor!enterEdit(id)
  <2>1. engine' = engine
    BY <1>12 DEF Editor!enterEdit, Editor!session
  <2> QED
    BY <1>0, <1>12, <2>1, EnterEditKeeps
<1>13. CASE \E id \in entering : Editor!confirmDiscard(id)
  BY <1>0, <1>13, ConfirmKeeps
<1>14. CASE Editor!exitEdit \/ Editor!Agree
  BY <1>0, <1>14, ExitKeeps, AgreeKeeps
<1> QED
  BY <1>1, <1>2, <1>3, <1>4, <1>5, <1>6, <1>7, <1>8, <1>9, <1>10, <1>11, <1>12, <1>13, <1>14
     DEF Editor!Step

LEMMA EditMoves ==
    ASSUME EditInv, rendering \in Seq(Nat), [Editor!Next]_(Editor!editVars)
    PROVE  /\ EditInv' /\ rendering' \in Seq(Nat)
           /\ dirty => \/ ~Editor!Idle \/ discarded' \/ StillThere
<1>1. rendering' \in Seq(Nat)
  BY RenderingKeeps
<1>2. CASE Editor!Step
  BY <1>1, <1>2, EditStepKeeps
<1>3. CASE Editor!AutoOpen
  <2>1. engine' = engine
    BY <1>3 DEF Editor!AutoOpen, Editor!session
  <2> QED
    BY <1>1, <1>3, <2>1, AutoOpenKeeps DEF StillThere
<1>4. CASE UNCHANGED Editor!editVars
  <2>1. UNCHANGED <<library, engine, dirty, item, openings, editorPreview, editorQueue, saves,
                    entering, asking, acts>>
    BY <1>4 DEF Editor!editVars
  <2> QED
    BY <1>1, <2>1, EditParts, EditQuiet DEF StillThere
<1> QED
  BY <1>2, <1>3, <1>4 DEF Editor!Next

LEMMA EditStarts == Editor!Init => EditInv /\ rendering \in Seq(Nat)
<1> SUFFICES ASSUME Editor!Init PROVE EditInv /\ rendering \in Seq(Nat)
  OBVIOUS
<1>1. PICK n \in Nat : n = Cardinality(Pictures)
  BY EditCardinality
<1>2. /\ library = [i \in 1..n |-> Editor!Item(<<i>>, Editor!Nothing, FALSE)]
      /\ item = 0 /\ engine = Editor!Closed /\ openings = {} /\ dirty = FALSE
      /\ editorPreview = Editor!NoPixels /\ editorQueue = <<>> /\ saves = {} /\ entering = {}
      /\ asking = Editor!Silence /\ acts = 0 /\ rendering = <<>>
  BY <1>1, EditCardinality DEF Editor!Init, Editor!Nothing
<1>3. \A i \in 1..n : Editor!Item(<<i>>, Editor!Nothing, FALSE) \in Items
  BY DEF Editor!Item, Items, Snapshots, Pixels, Editor!Nothing
<1>4. library \in Seq(Items)
  <2>1. library \in [1..n -> Items]
    BY <1>2, <1>3
  <2> QED
    BY <1>1, <2>1
<1>5. asking.what # "open"
  BY <1>2 DEF Editor!Silence
<1>6. EditTypes
  <2>1. engine \in Engines /\ editorPreview \in Pixels /\ editorQueue \in Seq(EditTasks)
    BY <1>2, ClosedTyped
  <2> QED
    BY <1>2, <1>4, <1>5, <2>1, Zenon DEF EditTypes
<1>7. ~Editor!Open /\ dirty = FALSE /\ editorQueue = <<>>
  BY <1>2 DEF Editor!Open
<1>8. Len(engine.past) + Len(engine.future) <= MaxHistory
  <2>1. Len(engine.past) + Len(engine.future) = 0
    BY <1>2, ClosedTyped
  <2>2. 0 <= MaxHistory
    BY HistoryHolds
  <2> QED
    BY <2>1, <2>2, Zenon
<1>9. OpenFits
  BY <1>2, <1>7, <1>8 DEF OpenFits
<1>10. StoredFits
  BY <1>2, <1>7 DEF StoredFits, Editor!CleanIsStored
<1> QED
  BY <1>2, <1>6, <1>9, <1>10 DEF EditInv

-----------------------------------------------------------------------------
(* The strip of the active tool                                            *)

Px == Nat \X Nat
Images == [past : Seq(Px), present : Px \cup {<<>>}, future : Seq(Px)]
Schedulers == [frame : BOOLEAN, active : BOOLEAN, pending : BOOLEAN, stale : BOOLEAN]
PreviewRuns == [by : {"crop", "enhance"}, value : Nat, of : Px, live : BOOLEAN]
Stamps == Nat \X Nat \X Nat
Asks ==
    [kind : {"bokeh", "select", "erase", "ai"}, stamp : Stamps, of : Px, ours : BOOLEAN]

MaskTypes ==
    /\ asked \subseteq Asks
    /\ selection = Tools!Unselected \/ selection.stamp \in Stamps

ToolTypes ==
    /\ image \in Images /\ openToken \in Nat /\ revision \in Nat
    /\ slider \in Nat
    /\ scheds \in [{"ops", "bokeh"} -> Schedulers]
    /\ IsFiniteSet(previews) /\ previews \subseteq PreviewRuns
    /\ MaskTypes
    /\ image = Tools!Closed \/ image.present # <<>>
    /\ applying = {} \/ Tools!Open

(* A mask's stamp is not of the future, and one of now is of these pixels. *)
Fits(stamp, of) ==
    /\ stamp[1] <= openToken
    /\ stamp[1] = openToken =>
         Tools!Open /\ stamp[2] <= revision /\ (stamp[2] = revision => of = image.present)

MasksFit ==
    /\ \A a \in asked : Fits(a.stamp, a.of)
    /\ selection # Tools!Unselected => Fits(selection.stamp, selection.of)

(* The preview that will be shown once the worker is done with it.         *)
Coming == {p \in previews : p.live = TRUE}
Ops == scheds["ops"]

RunsFit ==
    /\ Ops.frame => ~Ops.active
    /\ \A p, q \in Coming : p = q
    /\ \A p \in Coming :
         /\ Ops.active /\ Tools!mounted /\ Tools!Open
         /\ activeTool = p.by /\ p.of = image.present
         /\ p.value = slider \/ Ops.pending \/ applying # {}

ShownFits ==
    toolsShown.by \in Tools!OpTools =>
        /\ Tools!mounted /\ Tools!Open /\ activeTool = toolsShown.by
        /\ toolsShown.of = image.present
        /\ \/ toolsShown.value = slider \/ Ops.frame \/ Ops.pending
           \/ applying # {} \/ Coming # {}

(* No image is open but in the editor. *)
OpenEdits == Tools!Open => editing

ToolsInv == ToolTypes /\ MasksFit /\ RunsFit /\ ShownFits

-----------------------------------------------------------------------------
LEMMA ToolParts ==
    ASSUME ToolsInv
    PROVE  /\ ToolTypes /\ MasksFit /\ RunsFit /\ ShownFits
           /\ image \in Images /\ openToken \in Nat /\ revision \in Nat /\ slider \in Nat
           /\ scheds \in [{"ops", "bokeh"} -> Schedulers] /\ Ops \in Schedulers
           /\ IsFiniteSet(previews) /\ previews \subseteq PreviewRuns
BY DEF ToolsInv, ToolTypes, Ops

(* What the scheduler does with its flags.                                 *)
LEMMA SchedulerFlags ==
    ASSUME NEW s \in Schedulers
    PROVE  /\ Tools!Scheduled(s) \in Schedulers /\ Tools!Cancelled(s) \in Schedulers
           /\ Tools!Started(s) \in Schedulers /\ Tools!Finished(s) \in Schedulers
           /\ Tools!Quiet \in Schedulers
           /\ s.active => Tools!Scheduled(s).pending /\ Tools!Scheduled(s).active /\ Tools!Scheduled(s).frame = s.frame
           /\ ~s.active => Tools!Scheduled(s).frame /\ ~Tools!Scheduled(s).active
           /\ ~Tools!Cancelled(s).frame /\ Tools!Cancelled(s).active = s.active
           /\ Tools!Started(s).active /\ ~Tools!Started(s).frame /\ Tools!Started(s).pending = s.pending
           /\ ~Tools!Finished(s).active
           /\ s.pending => Tools!Finished(s).frame \/ Tools!Finished(s).pending
           /\ s.frame => Tools!Finished(s).frame
           /\ ~Tools!Quiet.frame /\ ~Tools!Quiet.active
BY DEF Schedulers, Tools!Scheduled, Tools!Cancelled, Tools!Started, Tools!Finished, Tools!Quiet

(* The image stays, or a token or a revision tells the new one from it.    *)
ImageMoves ==
    \/ UNCHANGED <<image, openToken, revision>>
    \/ openToken' = openToken + 1
    \/ ~Tools!Open /\ openToken' = openToken
    \/ Tools!Open' /\ openToken' = openToken /\ revision' = revision + 1

LEMMA FitsKept ==
    ASSUME ToolsInv, ImageMoves, NEW stamp \in Stamps, NEW of, Fits(stamp, of)
    PROVE  Fits(stamp, of)'
<1>1. stamp[1] \in Nat /\ stamp[2] \in Nat /\ openToken \in Nat /\ revision \in Nat
  BY ToolParts DEF Stamps
<1>2. CASE UNCHANGED <<image, openToken, revision>>
  BY <1>2 DEF Fits, Tools!Open, Tools!Closed
<1>3. CASE openToken' = openToken + 1
  BY <1>1, <1>3 DEF Fits
<1>4. CASE ~Tools!Open /\ openToken' = openToken
  BY <1>1, <1>4 DEF Fits
<1>5. CASE Tools!Open' /\ openToken' = openToken /\ revision' = revision + 1
  BY <1>1, <1>5 DEF Fits
<1> QED
  BY <1>2, <1>3, <1>4, <1>5 DEF ImageMoves

(* What a model was asked for is stamped with the image that is there.     *)
AskedNow(a) ==
    /\ UNCHANGED <<image, openToken, revision>> /\ Tools!Open
    /\ a.stamp = Tools!stamp /\ a.of = image.present

LEMMA StampTyped == ASSUME ToolsInv, Tools!Open PROVE Tools!stamp \in Stamps
<1>1. image.present \in Px
  BY ToolParts DEF ToolTypes, Images, Tools!Open
<1>2. image.present[2] % 2 \in Nat
  BY <1>1 DEF Px
<1> QED
  BY <1>2, ToolParts DEF Tools!stamp, Stamps, Tools!Size

LEMMA MasksKept ==
    ASSUME ToolsInv, ImageMoves,
           \A a \in asked' : a \in Asks /\ (AskedNow(a) \/ \E b \in asked : a.stamp = b.stamp /\ a.of = b.of),
           \/ selection' \in {selection, Tools!Unselected}
           \/ \E b \in asked : selection' = [stamp |-> b.stamp, of |-> b.of]
    PROVE  MasksFit' /\ MaskTypes'
<1>1. \A b \in asked : b.stamp \in Stamps /\ Fits(b.stamp, b.of)
  BY DEF ToolsInv, ToolTypes, MaskTypes, Asks, MasksFit
<1>2. ASSUME NEW a \in asked' PROVE a.stamp \in Stamps /\ Fits(a.stamp, a.of)'
  <2>1. CASE \E b \in asked : a.stamp = b.stamp /\ a.of = b.of
    <3>1. PICK b \in asked : a.stamp = b.stamp /\ a.of = b.of
      BY <2>1
    <3>2. Fits(b.stamp, b.of)'
      BY <1>1, FitsKept
    <3> QED
      BY <1>1, <3>1, <3>2
  <2>2. CASE AskedNow(a)
    <3>1. a.stamp = Tools!stamp /\ a.of = image.present /\ Tools!Open
          /\ UNCHANGED <<image, openToken, revision>>
      BY <2>2 DEF AskedNow
    <3>2. a.stamp \in Stamps
      BY <3>1, StampTyped
    <3>3. a.stamp[1] = openToken /\ a.stamp[2] = revision
      BY <3>1 DEF Tools!stamp
    <3>4. Tools!Open' <=> Tools!Open
      BY <3>1 DEF Tools!Open, Tools!Closed
    <3>5. openToken \in Nat /\ revision \in Nat
      BY ToolParts
    <3> QED
      BY <3>1, <3>2, <3>3, <3>4, <3>5 DEF Fits
  <2> QED
    BY <1>2, <2>1, <2>2
<1>3. (selection # Tools!Unselected => selection.stamp \in Stamps /\ Fits(selection.stamp, selection.of))'
  <2>1. CASE selection' = selection
    <3>1. PICK s : s = selection
      OBVIOUS
    <3>0. Tools!Unselected' = Tools!Unselected
      BY DEF Tools!Unselected
    <3>2. s # Tools!Unselected => s.stamp \in Stamps /\ Fits(s.stamp, s.of)
      BY <3>1 DEF ToolsInv, ToolTypes, MaskTypes, MasksFit
    <3>3. s # Tools!Unselected => Fits(s.stamp, s.of)'
      BY <3>2, FitsKept
    <3> QED
      BY <2>1, <3>0, <3>1, <3>2, <3>3 DEF Fits
  <2>2. CASE selection' = Tools!Unselected
    BY <2>2 DEF Tools!Unselected
  <2>3. ASSUME NEW b \in asked, selection' = [stamp |-> b.stamp, of |-> b.of]
        PROVE (selection.stamp \in Stamps /\ Fits(selection.stamp, selection.of))'
    <3>1. selection'.stamp = b.stamp /\ selection'.of = b.of
      BY <2>3
    <3>2. Fits(b.stamp, b.of)'
      BY <1>1, FitsKept
    <3> QED
      BY <1>1, <3>1, <3>2 DEF Fits
  <2> QED
    BY <2>1, <2>2, <2>3
<1>4. Tools!Unselected' = Tools!Unselected
  BY DEF Tools!Unselected
<1>5. MasksFit'
  BY <1>2, <1>3, <1>4 DEF MasksFit
<1> QED
  BY <1>2, <1>3, <1>4, <1>5 DEF MaskTypes

LEMMA ToolsTogether ==
    ASSUME image' \in Images, image' = Tools!Closed \/ image'.present # <<>>,
           openToken' \in Nat, revision' \in Nat, slider' \in Nat,
           scheds' \in [{"ops", "bokeh"} -> Schedulers],
           IsFiniteSet(previews'), previews' \subseteq PreviewRuns,
           MaskTypes', MasksFit', RunsFit', ShownFits', applying' = {} \/ Tools!Open'
    PROVE  ToolsInv'
<1>1. Tools!Closed' = Tools!Closed
  BY DEF Tools!Closed
<1> QED
  BY <1>1 DEF ToolsInv, ToolTypes

LEMMA ImageSame ==
    ASSUME ToolsInv, UNCHANGED <<image, openToken, revision>>
    PROVE  /\ image' \in Images /\ (image' = Tools!Closed \/ image'.present # <<>>)
           /\ openToken' \in Nat /\ revision' \in Nat /\ ImageMoves
           /\ (Tools!Open' <=> Tools!Open)
BY ToolParts DEF ToolTypes, ImageMoves, Tools!Open, Tools!Closed

(* What the worker still does for an outdated preview shows nothing.       *)
LEMMA OutdatedShowsNothing ==
    ASSUME ToolsInv
    PROVE  /\ IsFiniteSet(Tools!Outdated) /\ Tools!Outdated \subseteq PreviewRuns
           /\ \A p \in Tools!Outdated : p.live = FALSE
<1> DEFINE f == [p \in previews |-> [p EXCEPT !.live = FALSE]]
<1>1. f \in Surjection(previews, Tools!Outdated)
  BY DEF Surjection, Tools!Outdated
<1>2. IsFiniteSet(Tools!Outdated)
  <2> HIDE DEF f
  <2> QED
    BY <1>1, ToolParts, FS_Surjection
<1>3. \A p \in previews : [p EXCEPT !.live = FALSE] \in PreviewRuns /\ [p EXCEPT !.live = FALSE].live = FALSE
  BY ToolParts DEF PreviewRuns
<1> QED
  BY <1>2, <1>3 DEF Tools!Outdated

(* Nothing is shown, and nothing is coming.                                *)
LEMMA RunsCleared ==
    ASSUME \A p \in previews' : p.live = FALSE, toolsShown'.by \notin Tools!OpTools,
           scheds'["ops"].frame => ~scheds'["ops"].active
    PROVE  RunsFit' /\ ShownFits'
<1>1. Coming' = {}
  BY DEF Coming
<1>2. Ops' = scheds'["ops"]
  BY DEF Ops
<1>3. Tools!OpTools' = Tools!OpTools
  BY DEF Tools!OpTools
<1> QED
  BY <1>1, <1>2, <1>3 DEF RunsFit, ShownFits

LEMMA PreviewReset ==
    ASSUME ToolsInv, Tools!resetPreview, scheds'["ops"].frame => ~scheds'["ops"].active
    PROVE  /\ RunsFit' /\ ShownFits' /\ IsFiniteSet(previews') /\ previews' \subseteq PreviewRuns
<1>1. previews' = Tools!Outdated /\ toolsShown'.by = "none"
  BY DEF Tools!resetPreview, Tools!NoPreview, Tools!Unused
<1>2. toolsShown'.by \notin Tools!OpTools
  BY <1>1 DEF Tools!OpTools
<1> QED
  BY <1>1, <1>2, RunsCleared, OutdatedShowsNothing

(* A buffer of another tool is shown.                                      *)
LEMMA BufferShown ==
    ASSUME ToolsInv, NEW by \in {"bokeh", "select"}, Tools!showPreviewBuffer(by),
           scheds'["ops"].frame => ~scheds'["ops"].active
    PROVE  /\ RunsFit' /\ ShownFits' /\ IsFiniteSet(previews') /\ previews' \subseteq PreviewRuns
<1>1. previews' = Tools!Outdated /\ toolsShown'.by = by
  BY DEF Tools!showPreviewBuffer
<1>2. toolsShown'.by \notin Tools!OpTools
  BY <1>1 DEF Tools!OpTools
<1> QED
  BY <1>1, <1>2, RunsCleared, OutdatedShowsNothing

(* What is shown and what comes stays, though the slider may move.         *)
LEMMA RunsStay ==
    ASSUME ToolsInv, UNCHANGED <<previews, toolsShown, editing, activeTool, image>>,
           applying \subseteq applying',
           Ops'.frame => ~Ops'.active,
           Ops.active => Ops'.active,
           Ops.pending => Ops'.pending \/ applying' # {},
           Ops.frame => Ops'.frame \/ Ops'.pending \/ applying' # {},
           slider' = slider \/ Ops'.pending \/ (Ops'.frame /\ ~Ops.active)
    PROVE  RunsFit' /\ ShownFits'
<1>1. /\ Coming' = Coming /\ (Tools!mounted' <=> Tools!mounted) /\ (Tools!Open' <=> Tools!Open)
      /\ Tools!OpTools' = Tools!OpTools
  BY DEF Coming, Tools!mounted, Tools!Open, Tools!Closed, Tools!OpTools, Tools!Unused
<1>2. RunsFit /\ ShownFits
  BY ToolParts
<1>3. RunsFit'
  BY <1>1, <1>2 DEF RunsFit
<1>4. ShownFits'
  BY <1>1, <1>2 DEF ShownFits
<1> QED
  BY <1>3, <1>4

(* One of the strip's schedulers changes.                                  *)
LEMMA SchedulerSet ==
    ASSUME ToolsInv, NEW w \in {"ops", "bokeh"}, NEW s \in Schedulers,
           scheds' = [scheds EXCEPT ![w] = s]
    PROVE  /\ scheds' \in [{"ops", "bokeh"} -> Schedulers]
           /\ Ops' = (IF w = "ops" THEN s ELSE Ops)
           /\ scheds'["ops"] = (IF w = "ops" THEN s ELSE Ops)
BY ToolParts DEF Ops

LEMMA MasksSame ==
    ASSUME ToolsInv, ImageMoves, asked' \subseteq asked,
           selection' \in {selection, Tools!Unselected}
    PROVE  MasksFit' /\ MaskTypes'
<1>1. \A a \in asked' : a \in Asks /\ a \in asked
  BY ToolParts DEF ToolTypes, MaskTypes
<1> QED
  BY <1>1, MasksKept

-----------------------------------------------------------------------------
(* Mounting and closing tools.                                             *)

LEMMA NewStripTyped ==
    /\ Tools!NewStrip \in [{"ops", "bokeh"} -> Schedulers]
    /\ ~Tools!NewStrip["ops"].frame
BY DEF Tools!NewStrip, Tools!Quiet, Schedulers

LEMMA ResetTyped ==
    ASSUME NEW s \in [{"ops", "bokeh"} -> Schedulers], NEW to, NEW r, r = Tools!Reset(s, to)
    PROVE  r \in [{"ops", "bokeh"} -> Schedulers] /\ (r["ops"].frame => ~r["ops"].active)
<1> DEFINE off == [w \in {"ops", "bokeh"} |-> Tools!Cancelled(s[w])]
<1>1. s["ops"] \in Schedulers /\ s["bokeh"] \in Schedulers
  OBVIOUS
<1>2. /\ off \in [{"ops", "bokeh"} -> Schedulers] /\ ~off["ops"].frame /\ off["ops"] \in Schedulers
  BY <1>1, SchedulerFlags
<1>3. r = IF to = "enhance" THEN [off EXCEPT !["ops"] = Tools!Scheduled(off["ops"])] ELSE off
  BY DEF Tools!Reset
<1> HIDE DEF off
<1>4. CASE to = "enhance"
  <2>1. r = [off EXCEPT !["ops"] = Tools!Scheduled(off["ops"])]
    BY <1>3, <1>4
  <2>2. Tools!Scheduled(off["ops"]) \in Schedulers
    BY <1>2, SchedulerFlags
  <2>3. r \in [{"ops", "bokeh"} -> Schedulers] /\ r["ops"] = Tools!Scheduled(off["ops"])
    BY <1>2, <2>1, <2>2
  <2>4. off["ops"].active => ~Tools!Scheduled(off["ops"]).frame
    BY <1>2, SchedulerFlags
  <2>5. ~off["ops"].active => ~Tools!Scheduled(off["ops"]).active
    BY <1>2, SchedulerFlags
  <2> QED
    BY <2>3, <2>4, <2>5
<1>5. CASE to # "enhance"
  BY <1>2, <1>3, <1>5
<1> QED
  BY <1>4, <1>5

LEMMA OrphansAreAsked ==
    ASSUME ToolsInv, NEW a \in Tools!Orphaned
    PROVE  a \in Asks /\ \E b \in asked : a.stamp = b.stamp /\ a.of = b.of
<1>1. PICK b \in asked : a = [b EXCEPT !.ours = FALSE]
  BY DEF Tools!Orphaned
<1>2. b \in Asks
  BY <1>1, ToolParts DEF ToolTypes, MaskTypes
<1> QED
  BY <1>1, <1>2 DEF Asks

(* A strip that goes, or that starts over.                                 *)
LEMMA StripGoes ==
    ASSUME ToolsInv, ImageMoves, Tools!unmount
    PROVE  /\ MasksFit' /\ MaskTypes' /\ scheds' \in [{"ops", "bokeh"} -> Schedulers]
           /\ (scheds'["ops"].frame => ~scheds'["ops"].active) /\ slider' \in Nat
<1>1. /\ scheds' = Tools!NewStrip /\ slider' = 0 /\ selection' = Tools!Unselected
      /\ asked' = Tools!Orphaned
  BY DEF Tools!unmount
<1>2. MasksFit' /\ MaskTypes'
  BY <1>1, OrphansAreAsked, MasksKept
<1> QED
  BY <1>1, <1>2, NewStripTyped

LEMMA StripStartsOver ==
    ASSUME ToolsInv, ImageMoves, NEW s \in {scheds, Tools!NewStrip}, NEW to,
           Tools!resetPending(s, to), asked' = asked
    PROVE  /\ MasksFit' /\ MaskTypes' /\ scheds' \in [{"ops", "bokeh"} -> Schedulers]
           /\ (scheds'["ops"].frame => ~scheds'["ops"].active) /\ slider' \in Nat
<1>1. /\ scheds' = Tools!Reset(s, to) /\ slider' = 0 /\ selection' = Tools!Unselected
  BY DEF Tools!resetPending
<1>2. s \in [{"ops", "bokeh"} -> Schedulers]
  BY ToolParts, NewStripTyped
<1>3. MasksFit' /\ MaskTypes'
  BY <1>1, MasksSame
<1> QED
  BY <1>1, <1>2, <1>3, ResetTyped

LEMMA SelectToolKeeps == ASSUME ToolsInv, NEW t, Tools!selectTool(t) PROVE ToolsInv'
<1>1. /\ Tools!resetPreview /\ UNCHANGED <<image, openToken, revision, applying>>
      /\ \/ Tools!unmount
         \/ /\ \E s \in {scheds, Tools!NewStrip}, to \in {t} : Tools!resetPending(s, to)
            /\ asked' = asked
  BY DEF Tools!selectTool, Tools!session
<1>2. /\ MasksFit' /\ MaskTypes' /\ scheds' \in [{"ops", "bokeh"} -> Schedulers]
      /\ (scheds'["ops"].frame => ~scheds'["ops"].active) /\ slider' \in Nat
  BY <1>1, ImageSame, StripGoes, StripStartsOver
<1>3. applying' = {} \/ Tools!Open'
  BY <1>1, ImageSame, ToolParts DEF ToolTypes
<1> QED
  BY <1>1, <1>2, <1>3, ImageSame, PreviewReset, ToolsTogether

LEMMA ClosedImage ==
    /\ Tools!Closed \in Images /\ Tools!Closed' = Tools!Closed
BY DEF Tools!Closed, Images

LEMMA CloseClears ==
    ASSUME ToolsInv, Tools!close, scheds'["ops"].frame => ~scheds'["ops"].active
    PROVE  /\ RunsFit' /\ ShownFits' /\ IsFiniteSet(previews') /\ previews' \subseteq PreviewRuns
           /\ image' \in Images /\ image' = Tools!Closed /\ applying' = {}
<1>1. applying' = {} /\ previews' = {} /\ toolsShown'.by = "none" /\ image' = Tools!Closed
  BY DEF Tools!close, Tools!NoPreview, Tools!Unused
<1>2. toolsShown'.by \notin Tools!OpTools
  BY <1>1 DEF Tools!OpTools
<1> QED
  BY <1>1, <1>2, ClosedImage, RunsCleared, FS_EmptySet

LEMMA BeginOpenKeeps == ASSUME ToolsInv, Tools!beginOpen PROVE ToolsInv'
<1>1. Tools!close /\ openToken' = openToken + 1 /\ UNCHANGED <<revision, asked>>
      /\ \/ Tools!resetPending(Tools!NewStrip, activeTool)
         \/ scheds' = Tools!Aborted /\ UNCHANGED <<slider, selection>>
  BY DEF Tools!beginOpen
<1>2. ImageMoves /\ openToken' \in Nat /\ revision' \in Nat
  BY <1>1, ToolParts DEF ImageMoves
<1>3. CASE Tools!resetPending(Tools!NewStrip, activeTool)
  BY <1>1, <1>2, <1>3, StripStartsOver, CloseClears, ToolsTogether
<1>4. CASE scheds' = Tools!Aborted /\ UNCHANGED <<slider, selection>>
  <2>1. Ops \in Schedulers /\ scheds \in [{"ops", "bokeh"} -> Schedulers]
        /\ (Ops.frame => ~Ops.active) /\ slider \in Nat
    BY ToolParts DEF RunsFit
  <2>2. PICK s \in Schedulers : /\ scheds' = [scheds EXCEPT !["ops"] = s]
                                /\ s = IF Ops.active THEN Tools!Finished(Ops) ELSE Ops
    BY <1>4, <2>1, SchedulerFlags DEF Tools!Aborted, Ops
  <2>3. s.frame => ~s.active
    BY <2>1, <2>2, SchedulerFlags
  <2>4. scheds' \in [{"ops", "bokeh"} -> Schedulers] /\ scheds'["ops"] = s
    BY <2>2, SchedulerSet
  <2>5. MasksFit' /\ MaskTypes'
    BY <1>1, <1>2, <1>4, MasksSame
  <2> QED
    BY <1>1, <1>2, <1>4, <2>1, <2>3, <2>4, <2>5, CloseClears, ToolsTogether
<1> QED
  BY <1>1, <1>3, <1>4

LEMMA ExitEditKeeps == ASSUME ToolsInv, Tools!exitEdit PROVE ToolsInv'
<1>1. Tools!close /\ openToken' = openToken + 1 /\ UNCHANGED <<revision>>
      /\ (Tools!unmount \/ UNCHANGED <<scheds, slider, selection, asked>>)
  BY DEF Tools!exitEdit
<1>2. ImageMoves /\ openToken' \in Nat /\ revision' \in Nat
  BY <1>1, ToolParts DEF ImageMoves
<1>3. CASE Tools!unmount
  BY <1>1, <1>2, <1>3, StripGoes, CloseClears, ToolsTogether
<1>4. CASE UNCHANGED <<scheds, slider, selection, asked>>
  <2>1. scheds' \in [{"ops", "bokeh"} -> Schedulers] /\ slider' \in Nat
        /\ (scheds'["ops"].frame => ~scheds'["ops"].active)
    BY <1>4, ToolParts DEF RunsFit, Ops
  <2>2. MasksFit' /\ MaskTypes'
    BY <1>2, <1>4, MasksSame
  <2> QED
    BY <1>1, <1>2, <2>1, <2>2, CloseClears, ToolsTogether
<1> QED
  BY <1>1, <1>3, <1>4

(* Pixels on the screen are a pair, which an empty strip's are not.        *)
LEMMA PxNotEmpty == ASSUME NEW a, NEW b PROVE <<a, b>> # <<>>
<1>1. DOMAIN <<a, b>> = 1..2 /\ DOMAIN <<>> = {}
  BY ONLY TRUE
<1> QED
  BY ONLY <1>1

LEMMA CompleteOpenKeeps == ASSUME ToolsInv, Tools!completeOpen PROVE ToolsInv'
<1>1. /\ ~Tools!Open /\ revision' = 0 /\ image' = [Tools!Closed EXCEPT !.present = <<openToken, 0>>]
      /\ UNCHANGED <<openToken, slider, scheds, selection, asked, previews, toolsShown>>
  BY DEF Tools!completeOpen, Tools!strip
<1>2. image' \in Images /\ image'.present # <<>>
  <2>1. <<openToken, 0>> \in Px
    BY ToolParts DEF Px
  <2>2. image'.present = <<openToken, 0>> /\ image' \in Images
    BY <1>1, <2>1, ClosedImage DEF Images, Tools!Closed
  <2> QED
    BY ONLY <2>2, PxNotEmpty
<1>3. ImageMoves /\ MasksFit' /\ MaskTypes'
  BY <1>1, MasksSame DEF ImageMoves
<1>4. /\ \A p \in previews' : p.live = FALSE
      /\ toolsShown'.by \notin Tools!OpTools
      /\ scheds'["ops"].frame => ~scheds'["ops"].active
  <2>1. \A p \in previews : p.live \in BOOLEAN
    BY ToolParts DEF PreviewRuns
  <2>2. \A p \in Coming : Tools!Open
    BY ToolParts DEF RunsFit
  <2>3. Ops.frame => ~Ops.active
    BY ToolParts DEF RunsFit
  <2>4. toolsShown.by \in Tools!OpTools => Tools!Open
    BY ToolParts DEF ShownFits
  <2>5. ~Tools!Open /\ scheds' = scheds /\ previews' = previews /\ toolsShown' = toolsShown
    BY <1>1
  <2>6. \A p \in previews : p.live = FALSE
    BY <2>1, <2>2, <2>5 DEF Coming
  <2>7. toolsShown.by \notin Tools!OpTools
    BY <2>4, <2>5
  <2>8. scheds["ops"].frame => ~scheds["ops"].active
    BY <2>3 DEF Ops
  <2>9. \A p \in previews' : p.live = FALSE
    BY ONLY <2>5, <2>6
  <2>10. toolsShown'.by \notin Tools!OpTools
    BY ONLY <2>5, <2>7
  <2>11. scheds'["ops"].frame => ~scheds'["ops"].active
    BY ONLY <2>5, <2>8
  <2> QED
    BY ONLY <2>9, <2>10, <2>11
<1>5. Tools!Open'
  BY <1>2, ClosedImage DEF Tools!Open, Tools!Closed
<1> QED
  BY <1>1, <1>2, <1>3, <1>4, <1>5, ToolParts, RunsCleared, ToolsTogether

-----------------------------------------------------------------------------
(* Commits, undo and redo.                                                 *)

LEMMA OpenImage ==
    ASSUME ToolsInv, Tools!Open
    PROVE  image.past \in Seq(Px) /\ image.future \in Seq(Px) /\ image.present \in Px
BY ToolParts DEF ToolTypes, Images, Tools!Open

(* Pixels were there before, or are new: what was shown of them goes.      *)
LEMMA ImageChanges ==
    ASSUME ToolsInv, Tools!Open, NEW P \in Seq(Px), NEW x \in Px, NEW F \in Seq(Px),
           image' = [past |-> P, present |-> x, future |-> F],
           revision' = revision + 1, Tools!resetPreview,
           UNCHANGED <<openToken, selection, asked, scheds>>, slider' \in Nat
    PROVE  ToolsInv'
<1>1. image' \in Images /\ image'.present # <<>>
  <2>1. x = <<x[1], x[2]>>
    BY DEF Px
  <2>2. x # <<>>
    BY ONLY <2>1, PxNotEmpty
  <2>3. image' \in Images
    BY DEF Images
  <2> QED
    BY <2>2, <2>3
<1>2. Tools!Open'
  BY <1>1 DEF Tools!Open, Tools!Closed
<1>3. ImageMoves /\ MasksFit' /\ MaskTypes'
  BY <1>2, MasksSame DEF ImageMoves
<1>4. scheds' \in [{"ops", "bokeh"} -> Schedulers] /\ (scheds'["ops"].frame => ~scheds'["ops"].active)
      /\ openToken' \in Nat /\ revision' \in Nat
  BY ToolParts DEF RunsFit, Ops
<1> QED
  BY <1>1, <1>2, <1>3, <1>4, PreviewReset, ToolsTogether

LEMMA HistoryParts ==
    ASSUME NEW P \in Seq(Px), P # <<>>
    PROVE  Tools!Front(P) \in Seq(Px) /\ Tools!Last(P) \in Px
<1>1. Len(P) \in Nat /\ Len(P) >= 1 /\ DOMAIN P = 1..Len(P)
  OBVIOUS
<1>2. Tools!Last(P) \in Px
  BY <1>1 DEF Tools!Last
<1>3. Tools!Front(P) \in Seq(Px)
  BY <1>1 DEF Tools!Front
<1> QED
  BY <1>2, <1>3

LEMMA UndoRedoKeep == ASSUME ToolsInv, Tools!undo \/ Tools!redo PROVE ToolsInv'
<1>1. CASE Tools!undo
  <2>1. /\ Tools!Open /\ image["past"] # <<>> /\ revision' = revision + 1 /\ Tools!resetPreview
        /\ UNCHANGED <<openToken, selection, asked, scheds, slider>>
        /\ image' = [past |-> Tools!Front(image.past), present |-> Tools!Last(image.past),
                     future |-> Append(image.future, image.present)]
    BY <1>1 DEF Tools!undo, Tools!Restore, Tools!strip
  <2>2. image.past # <<>>
    BY <2>1
  <2>4. Tools!Front(image.past) \in Seq(Px) /\ Tools!Last(image.past) \in Px
    BY <2>1, <2>2, OpenImage, HistoryParts
  <2>5. Append(image.future, image.present) \in Seq(Px)
    BY <2>1, OpenImage
  <2>3. PICK P \in Seq(Px), x \in Px, F \in Seq(Px) : image' = [past |-> P, present |-> x, future |-> F]
    BY <2>1, <2>4, <2>5, Zenon
  <2> QED
    BY <2>1, <2>3, ToolParts, ImageChanges
<1>2. CASE Tools!redo
  <2>1. /\ Tools!Open /\ image["future"] # <<>> /\ revision' = revision + 1 /\ Tools!resetPreview
        /\ UNCHANGED <<openToken, selection, asked, scheds, slider>>
        /\ image' = [past |-> Append(image.past, image.present), present |-> Tools!Last(image.future),
                     future |-> Tools!Front(image.future)]
    BY <1>2 DEF Tools!redo, Tools!Restore, Tools!strip
  <2>2. image.future # <<>>
    BY <2>1
  <2>4. Tools!Front(image.future) \in Seq(Px) /\ Tools!Last(image.future) \in Px
    BY <2>1, <2>2, OpenImage, HistoryParts
  <2>5. Append(image.past, image.present) \in Seq(Px)
    BY <2>1, OpenImage
  <2>3. PICK P \in Seq(Px), x \in Px, F \in Seq(Px) : image' = [past |-> P, present |-> x, future |-> F]
    BY <2>1, <2>4, <2>5, Zenon
  <2> QED
    BY <2>1, <2>3, ToolParts, ImageChanges
<1> QED
  BY <1>1, <1>2

LEMMA ApplyEndsKeeps ==
    ASSUME ToolsInv, ~FailingApplies, NEW a \in applying, NEW ok \in BOOLEAN,
           Tools!ApplyEnds(a, ok)
    PROVE  ToolsInv'
<1>1. Tools!Commit /\ slider' \in {slider, 0} /\ UNCHANGED <<openToken, selection, asked, scheds>>
  BY DEF Tools!ApplyEnds
<1>2. Tools!Open
  BY ToolParts DEF ToolTypes
<1>3. <<openToken, revision + 1>> \in Px
  BY ToolParts DEF Px
<1>4. Append(image.past, image.present) \in Seq(Px) /\ <<>> \in Seq(Px)
  BY <1>2, OpenImage
<1>5. image' = [past |-> Append(image.past, image.present), future |-> <<>>,
                present |-> <<openToken, revision + 1>>]
      /\ revision' = revision + 1 /\ Tools!resetPreview
  BY <1>1 DEF Tools!Commit
<1>6. PICK P \in Seq(Px), x \in Px, F \in Seq(Px) : image' = [past |-> P, present |-> x, future |-> F]
  BY <1>3, <1>4, <1>5
<1>7. slider' \in Nat
  BY <1>1, ToolParts
<1> QED
  BY <1>1, <1>2, <1>5, <1>6, <1>7, ImageChanges

-----------------------------------------------------------------------------
(* Previews.                                                               *)

(* What leaves the image and the masks alone.                              *)
LEMMA OnlyPreviews ==
    ASSUME ToolsInv, UNCHANGED <<image, openToken, revision, selection, asked>>,
           applying' = applying \/ Tools!Open,
           slider' \in Nat, scheds' \in [{"ops", "bokeh"} -> Schedulers],
           IsFiniteSet(previews'), previews' \subseteq PreviewRuns, RunsFit', ShownFits'
    PROVE  ToolsInv'
<1>1. MasksFit' /\ MaskTypes'
  BY ImageSame, MasksSame
<1>2. applying' = {} \/ Tools!Open'
  BY ImageSame, ToolParts DEF ToolTypes
<1> QED
  BY <1>1, <1>2, ImageSame, ToolsTogether

LEMMA MoveSliderKeeps ==
    ASSUME ToolsInv, NEW value \in Nat, Tools!MoveSlider(value) PROVE ToolsInv'
<1>1. /\ slider' = value /\ scheds' = [scheds EXCEPT !["ops"] = Tools!Scheduled(Ops)]
      /\ UNCHANGED <<editing, image, openToken, revision, activeTool, selection, asked, previews,
                     toolsShown, applying>>
  BY DEF Tools!MoveSlider, Tools!schedule, Tools!session, Ops
<1>2. Ops \in Schedulers /\ (Ops.frame => ~Ops.active)
  BY ToolParts DEF RunsFit
<1>3. PICK s \in Schedulers : s = Tools!Scheduled(Ops)
  BY <1>2, SchedulerFlags
<1>4. scheds' \in [{"ops", "bokeh"} -> Schedulers] /\ Ops' = s
  BY <1>1, <1>3, SchedulerSet
<1>5. /\ Ops.active => s.pending /\ s.active /\ s.frame = Ops.frame
      /\ ~Ops.active => s.frame /\ ~s.active
  BY <1>2, <1>3, SchedulerFlags
<1>6. ~Ops.active => s.pending = Ops.pending
  BY <1>2, <1>3 DEF Tools!Scheduled, Schedulers
<1>7. RunsFit' /\ ShownFits'
  <2>1. s.frame => ~s.active
    BY <1>2, <1>5
  <2>2. (Ops.active => s.active) /\ (Ops.pending => s.pending) /\ (Ops.frame => s.frame \/ s.pending)
    BY <1>5, <1>6
  <2>3. s.pending \/ (s.frame /\ ~Ops.active)
    BY <1>5
  <2> QED
    BY <1>1, <1>4, <2>1, <2>2, <2>3, RunsStay
<1> QED
  BY <1>1, <1>4, <1>7, ToolParts, OnlyPreviews

LEMMA RunPreviewKeeps == ASSUME ToolsInv, OpenEdits, Tools!runPreview PROVE ToolsInv'
<1>1. /\ Ops.frame /\ Ops \in Schedulers /\ ~Ops.active
      /\ UNCHANGED <<editing, image, openToken, revision, activeTool, slider, selection, asked, applying>>
  BY ToolParts DEF Tools!runPreview, Tools!session, Tools!strip, RunsFit, Ops
<1>2. Coming = {}
  BY <1>1, ToolParts DEF RunsFit
<1>3. slider' \in Nat
  BY <1>1, ToolParts
<1>4. CASE ~Tools!Open \/ activeTool \notin Tools!OpTools
  <2>1. scheds' = [scheds EXCEPT !["ops"] = Tools!Finished(Tools!Started(Ops))]
        /\ UNCHANGED <<previews, toolsShown>>
    BY <1>4 DEF Tools!runPreview, Ops
  <2>2. PICK s \in Schedulers : s = Tools!Finished(Tools!Started(Ops)) /\ ~s.active
    BY <1>1, SchedulerFlags
  <2>3. scheds' \in [{"ops", "bokeh"} -> Schedulers] /\ scheds'["ops"] = s
    BY <2>1, <2>2, SchedulerSet
  <2>4. toolsShown.by \notin Tools!OpTools
    BY <1>4, ToolParts DEF ShownFits
  <2>5. \A p \in previews : p.live = FALSE
    BY <1>2, ToolParts DEF Coming, PreviewRuns
  <2>6. RunsFit' /\ ShownFits'
    BY <2>1, <2>2, <2>3, <2>4, <2>5, RunsCleared
  <2> QED
    BY <1>1, <1>3, <2>1, <2>3, <2>6, ToolParts, OnlyPreviews
<1>5. CASE Tools!Open /\ activeTool \in Tools!OpTools /\ activeTool = "crop" /\ slider = 0
  <2>1. scheds' = [scheds EXCEPT !["ops"] = Tools!Finished(Tools!Started(Ops))]
        /\ Tools!resetPreview
    BY <1>5 DEF Tools!runPreview, Ops
  <2>2. PICK s \in Schedulers : s = Tools!Finished(Tools!Started(Ops)) /\ ~s.active
    BY <1>1, SchedulerFlags
  <2>3. scheds' \in [{"ops", "bokeh"} -> Schedulers] /\ scheds'["ops"] = s
    BY <2>1, <2>2, SchedulerSet
  <2> QED
    BY <1>1, <1>3, <2>1, <2>2, <2>3, PreviewReset, OnlyPreviews
<1>6. CASE Tools!Open /\ activeTool \in Tools!OpTools /\ ~(activeTool = "crop" /\ slider = 0)
  <2> DEFINE run == [by |-> activeTool, value |-> slider, of |-> image.present, live |-> TRUE]
  <2>1. scheds' = [scheds EXCEPT !["ops"] = Tools!Started(Ops)] /\ UNCHANGED toolsShown
        /\ previews' = Tools!Outdated \cup {run}
    BY <1>6 DEF Tools!runPreview, Ops
  <2>2. PICK s \in Schedulers : s = Tools!Started(Ops) /\ s.active /\ ~s.frame
    BY <1>1, SchedulerFlags
  <2>3. scheds' \in [{"ops", "bokeh"} -> Schedulers] /\ Ops' = s
    BY <2>1, <2>2, SchedulerSet
  <2>4. run \in PreviewRuns
    BY <1>6, OpenImage, ToolParts DEF PreviewRuns, Tools!OpTools
  <2>5. run.live = TRUE /\ run.by = activeTool /\ run.of = image.present /\ run.value = slider
    OBVIOUS
  <2> HIDE DEF run
  <2>6. IsFiniteSet(previews') /\ previews' \subseteq PreviewRuns /\ Coming' = {run}
    <3>1. IsFiniteSet(previews') /\ previews' \subseteq PreviewRuns
      BY <2>1, <2>4, OutdatedShowsNothing, FS_AddElement
    <3>2. \A p \in previews' : p = run \/ p.live = FALSE
      BY <2>1, OutdatedShowsNothing
    <3>3. Coming' = {p \in previews' : p.live = TRUE}
      BY DEF Coming
    <3>4. run \in previews'
      BY <2>1
    <3>5. \A p \in previews' : p.live = TRUE <=> p = run
      <4>1. run.live = TRUE
        BY <2>5
      <4> QED
        BY <3>2, <4>1, Zenon
    <3>6. Coming' = {run}
      BY <3>3, <3>4, <3>5, Zenon
    <3> QED
      BY <3>1, <3>6
  <2>7. Tools!mounted' /\ Tools!Open' /\ Tools!mounted
    BY <1>1, <1>6, ImageSame DEF OpenEdits, Tools!mounted, Tools!OpTools, Tools!Unused
  <2>8. RunsFit'
    BY <1>1, <2>2, <2>3, <2>5, <2>6, <2>7 DEF RunsFit
  <2>9. toolsShown.by \in Tools!OpTools => activeTool = toolsShown.by /\ toolsShown.of = image.present
    BY ToolParts DEF ShownFits
  <2>10. ShownFits'
    BY <1>1, <2>1, <2>6, <2>7, <2>9 DEF ShownFits, Tools!OpTools
  <2> QED
    BY <1>1, <1>3, <2>3, <2>6, <2>8, <2>10, OnlyPreviews
<1> QED
  BY <1>4, <1>5, <1>6

LEMMA ToolCardinality ==
    ASSUME NEW S, IsFiniteSet(S), Tools!Cardinality(S) = 1, NEW x \in S, NEW y \in S PROVE x = y
<1>1. Cardinality(S) = 1
  BY DEF Tools!Cardinality, Cardinality
<1> QED
  BY <1>1, FS_Singleton

LEMMA PreviewEndsKeeps ==
    ASSUME ToolsInv, NEW p \in previews, Tools!PreviewEnds(p) PROVE ToolsInv'
<1> DEFINE ends == Ops.active /\ (p.live \/ Tools!Cardinality(previews) = 1)
<1>1. /\ previews' = previews \ {p}
      /\ toolsShown' = (IF p.live THEN [by |-> p.by, value |-> p.value, of |-> p.of] ELSE toolsShown)
      /\ ends => scheds' = [scheds EXCEPT !["ops"] = Tools!Finished(Ops)]
      /\ ~ends => scheds' = scheds
      /\ UNCHANGED <<editing, image, openToken, revision, activeTool, slider, selection, asked, applying>>
  BY DEF Tools!PreviewEnds, Tools!session, Tools!strip, Ops
<1>2. /\ Ops \in Schedulers /\ (Ops.frame => ~Ops.active) /\ p \in PreviewRuns /\ p.live \in BOOLEAN
      /\ scheds \in [{"ops", "bokeh"} -> Schedulers]
  BY ToolParts DEF RunsFit, PreviewRuns
<1>3. IsFiniteSet(previews') /\ previews' \subseteq PreviewRuns /\ slider' \in Nat
  BY <1>1, ToolParts, FS_RemoveElement
<1>4. PICK s \in Schedulers : /\ scheds' \in [{"ops", "bokeh"} -> Schedulers] /\ Ops' = s
                              /\ s = IF ends THEN Tools!Finished(Ops) ELSE Ops
  <2>1. CASE ends
    BY <1>1, <1>2, <2>1, SchedulerFlags, SchedulerSet
  <2>2. CASE ~ends
    BY <1>1, <1>2, <2>2 DEF Ops
  <2> QED
    BY <2>1, <2>2
<1>5. (ends => ~s.active /\ (Ops.pending => s.frame \/ s.pending)) /\ (~ends => s = Ops)
  BY <1>2, <1>4, SchedulerFlags
<1>6. Coming' = Coming \ {p}
  BY <1>1 DEF Coming
<1>7. (Tools!mounted' <=> Tools!mounted) /\ (Tools!Open' <=> Tools!Open) /\ Tools!OpTools' = Tools!OpTools
  BY <1>1, ImageSame DEF Tools!mounted, Tools!OpTools, Tools!Unused
<1>8. p.live = TRUE => p \in Coming /\ ends
  BY ToolParts DEF Coming, RunsFit
<1>9. ends => Coming' = {}
  <2> SUFFICES ASSUME ends, NEW q \in Coming, q # p PROVE FALSE
    BY <1>6
  <2>1. CASE p.live = TRUE
    BY <1>8, <2>1, ToolParts DEF RunsFit
  <2>2. CASE p.live = FALSE
    <3>1. Tools!Cardinality(previews) = 1 /\ q \in previews
      BY <2>2 DEF Coming
    <3> QED
      BY <3>1, ToolParts, ToolCardinality
  <2> QED
    BY <1>2, <2>1, <2>2
<1> HIDE DEF ends
<1>10. RunsFit'
  <2>1. CASE ends
    <3>1. Coming' = {} /\ ~s.active /\ Ops' = s
      BY <1>4, <1>5, <1>9, <2>1
    <3> QED
      BY <3>1 DEF RunsFit
  <2>2. CASE ~ends
    <3>1. Ops' = Ops /\ Coming' \subseteq Coming
      BY <1>4, <1>5, <1>6, <2>2
    <3> QED
      BY <1>1, <1>7, <3>1, ToolParts DEF RunsFit
  <2> QED
    BY <2>1, <2>2
<1>11. ShownFits'
  <2>1. CASE p.live = TRUE
    <3>1. toolsShown' = [by |-> p.by, value |-> p.value, of |-> p.of] /\ p \in Coming /\ ends
      BY <1>1, <1>8, <2>1
    <3>2. /\ Tools!mounted /\ Tools!Open /\ activeTool = p.by /\ p.of = image.present
          /\ p.value = slider \/ Ops.pending \/ applying # {}
      BY <3>1, ToolParts DEF RunsFit
    <3>3. Ops.pending => Ops'.frame \/ Ops'.pending
      BY <1>4, <1>5, <3>1
    <3> QED
      BY <1>1, <1>7, <3>1, <3>2, <3>3 DEF ShownFits
  <2>2. CASE p.live = FALSE
    <3>1. toolsShown' = toolsShown
      BY <1>1, <2>2
    <3>2. Coming' = Coming
      BY <1>6, <2>2 DEF Coming
    <3>3. CASE ends
      <4>1. Coming = {} /\ ~Ops.frame /\ (Ops.pending => Ops'.frame \/ Ops'.pending)
        BY <1>2, <1>4, <1>5, <1>9, <3>2, <3>3 DEF ends
      <4> QED
        BY <1>1, <1>7, <3>1, <4>1, ToolParts DEF ShownFits
    <3>4. CASE ~ends
      <4>1. Ops' = Ops
        BY <1>4, <1>5, <3>4
      <4> QED
        BY <1>1, <1>7, <3>1, <3>2, <4>1, ToolParts DEF ShownFits
    <3> QED
      BY <3>3, <3>4
  <2> QED
    BY <1>2, <2>1, <2>2
<1> QED
  BY <1>1, <1>3, <1>4, <1>10, <1>11, OnlyPreviews

-----------------------------------------------------------------------------
(* Models, and what the strip does with a mask.                            *)

(* What leaves the image alone.                                            *)
LEMMA OnlyStrip ==
    ASSUME ToolsInv, UNCHANGED <<image, openToken, revision>>, MasksFit', MaskTypes',
           applying' = applying \/ Tools!Open,
           slider' \in Nat, scheds' \in [{"ops", "bokeh"} -> Schedulers],
           IsFiniteSet(previews'), previews' \subseteq PreviewRuns, RunsFit', ShownFits'
    PROVE  ToolsInv'
<1>1. applying' = {} \/ Tools!Open'
  BY ImageSame, ToolParts DEF ToolTypes
<1> QED
  BY <1>1, ImageSame, ToolsTogether

(* The worker's side stays as it is.                                       *)
LEMMA RunsSame ==
    ASSUME ToolsInv, UNCHANGED <<previews, toolsShown, editing, activeTool, image, slider>>,
           Ops' = Ops, applying \subseteq applying'
    PROVE  RunsFit' /\ ShownFits' /\ IsFiniteSet(previews') /\ previews' \subseteq PreviewRuns
<1>1. Ops.frame => ~Ops.active
  BY ToolParts DEF RunsFit
<1>2. RunsFit' /\ ShownFits'
  BY <1>1, RunsStay
<1> QED
  BY <1>2, ToolParts

LEMMA ModelAskKeeps ==
    ASSUME ToolsInv, Tools!Open, NEW kind \in {"bokeh", "select", "erase", "ai"}, Tools!Ask(kind),
           UNCHANGED <<image, openToken, revision, selection>>
    PROVE  MasksFit' /\ MaskTypes'
<1> DEFINE ask == [kind |-> kind, stamp |-> Tools!stamp, of |-> image.present, ours |-> TRUE]
<1>1. asked' = asked \cup {ask}
  BY DEF Tools!Ask
<1>2. ask \in Asks
  BY StampTyped, OpenImage DEF Asks
<1>3. ask.stamp = Tools!stamp /\ ask.of = image.present
  OBVIOUS
<1> HIDE DEF ask
<1>4. AskedNow(ask)
  BY <1>3 DEF AskedNow
<1>5. \A a \in asked : a \in Asks
  BY ToolParts DEF ToolTypes, MaskTypes
<1>6. ASSUME NEW a \in asked'
      PROVE  a \in Asks /\ (AskedNow(a) \/ \E b \in asked : a.stamp = b.stamp /\ a.of = b.of)
  BY <1>1, <1>2, <1>4, <1>5
<1> QED
  BY <1>6, ImageSame, MasksKept

LEMMA ApplyStartsKeeps == ASSUME ToolsInv, Tools!applyOp \/ Tools!applyEngine PROVE ToolsInv'
<1>1. /\ UNCHANGED <<editing, image, openToken, revision, activeTool, slider, selection, asked,
                     previews, toolsShown>>
      /\ Tools!Open /\ applying = {} /\ applying' # {}
      /\ \/ scheds' = scheds
         \/ scheds' = [scheds EXCEPT !["ops"] = Tools!Cancelled(Ops)]
         \/ scheds' = [scheds EXCEPT !["bokeh"] = Tools!Cancelled(scheds["bokeh"])]
  BY DEF Tools!applyOp, Tools!applyEngine, Tools!session, Tools!strip, Tools!cancel, Ops
<1>2. Ops \in Schedulers /\ scheds["bokeh"] \in Schedulers /\ (Ops.frame => ~Ops.active)
  BY ToolParts DEF RunsFit
<1>3. scheds' \in [{"ops", "bokeh"} -> Schedulers]
      /\ (Ops'.frame => ~Ops'.active) /\ (Ops.active => Ops'.active)
  <2>1. CASE scheds' = scheds
    BY <1>2, <2>1, ToolParts DEF Ops
  <2>2. CASE scheds' = [scheds EXCEPT !["ops"] = Tools!Cancelled(Ops)]
    <3>1. PICK s \in Schedulers : s = Tools!Cancelled(Ops) /\ ~s.frame /\ s.active = Ops.active
      BY <1>2, SchedulerFlags
    <3> QED
      BY <2>2, <3>1, SchedulerSet
  <2>3. CASE scheds' = [scheds EXCEPT !["bokeh"] = Tools!Cancelled(scheds["bokeh"])]
    <3>1. PICK s \in Schedulers : s = Tools!Cancelled(scheds["bokeh"])
      BY <1>2, SchedulerFlags
    <3> QED
      BY <1>2, <2>3, <3>1, SchedulerSet
  <2> QED
    BY <1>1, <2>1, <2>2, <2>3
<1>4. RunsFit' /\ ShownFits'
  BY <1>1, <1>3, RunsStay
<1>5. slider' \in Nat /\ IsFiniteSet(previews') /\ previews' \subseteq PreviewRuns
  BY <1>1, ToolParts
<1> QED
  BY <1>1, <1>3, <1>4, <1>5, OnlyPreviews

LEMMA PickKeeps == ASSUME ToolsInv, Tools!Pick PROVE ToolsInv'
<1>1. /\ UNCHANGED <<editing, image, openToken, revision, activeTool, selection, previews,
                     toolsShown, applying>>
      /\ Tools!Open
  BY DEF Tools!Pick, Tools!session
<1>2. CASE activeTool = "bokeh" /\ slider' = 1 /\ Tools!schedule("bokeh") /\ UNCHANGED asked
  <2>1. scheds["bokeh"] \in Schedulers /\ (Ops.frame => ~Ops.active)
    BY ToolParts DEF RunsFit
  <2>2. PICK s \in Schedulers : s = Tools!Scheduled(scheds["bokeh"])
    BY <2>1, SchedulerFlags
  <2>3. scheds' = [scheds EXCEPT !["bokeh"] = s]
    BY <1>2, <2>2 DEF Tools!schedule
  <2>4. scheds' \in [{"ops", "bokeh"} -> Schedulers] /\ scheds'["ops"] = Ops
    BY <2>3, SchedulerSet
  <2>5. toolsShown'.by \notin Tools!OpTools
    BY <1>1, <1>2, ToolParts DEF ShownFits, Tools!OpTools
  <2>6. \A p \in previews : p.live = FALSE
    <3>1. ASSUME NEW p \in Coming PROVE FALSE
      <4>1. activeTool = p.by /\ p \in PreviewRuns
        BY <3>1, ToolParts DEF RunsFit, Coming
      <4> QED
        BY <1>2, <4>1 DEF PreviewRuns
    <3> QED
      BY <3>1, ToolParts DEF Coming, PreviewRuns
  <2>7. RunsFit' /\ ShownFits'
    BY <1>1, <2>1, <2>4, <2>5, <2>6, RunsCleared
  <2>8. slider' \in Nat
    BY <1>2
  <2> QED
    BY <1>1, <1>2, <2>4, <2>7, <2>8, ToolParts, OnlyPreviews
<1>3. CASE /\ Tools!Ask("select") \/ Tools!Ask("erase")
           /\ UNCHANGED <<slider, scheds>>
  <2>1. MasksFit' /\ MaskTypes'
    BY <1>1, <1>3, ModelAskKeeps
  <2>2. Ops' = Ops /\ slider' \in Nat /\ scheds' \in [{"ops", "bokeh"} -> Schedulers]
    BY <1>3, ToolParts DEF Ops
  <2> QED
    BY <1>1, <1>3, <2>1, <2>2, RunsSame, OnlyStrip
<1> QED
  BY <1>2, <1>3 DEF Tools!Pick

LEMMA RunBokehKeeps == ASSUME ToolsInv, Tools!runBokehPreview PROVE ToolsInv'
<1>1. /\ UNCHANGED <<editing, image, openToken, revision, activeTool, slider, selection, previews,
                     toolsShown, applying>>
      /\ \/ /\ Tools!Open /\ Tools!Ask("bokeh")
            /\ scheds' = [scheds EXCEPT !["bokeh"] = Tools!Started(scheds["bokeh"])]
         \/ /\ asked' = asked
            /\ scheds' = [scheds EXCEPT !["bokeh"] = Tools!Finished(Tools!Started(scheds["bokeh"]))]
  BY DEF Tools!runBokehPreview, Tools!session, Tools!strip
<1>2. MasksFit' /\ MaskTypes'
  BY <1>1, ModelAskKeeps, MasksSame, ImageSame
<1>3. PICK s \in Schedulers : scheds' = [scheds EXCEPT !["bokeh"] = s]
  <2>1. scheds["bokeh"] \in Schedulers
    BY ToolParts
  <2>2. Tools!Started(scheds["bokeh"]) \in Schedulers
    BY <2>1, SchedulerFlags
  <2>3. Tools!Finished(Tools!Started(scheds["bokeh"])) \in Schedulers
    BY <2>2, SchedulerFlags
  <2> QED
    BY <1>1, <2>2, <2>3
<1>4. scheds' \in [{"ops", "bokeh"} -> Schedulers] /\ Ops' = Ops /\ slider' \in Nat
  BY <1>1, <1>3, SchedulerSet, ToolParts
<1> QED
  BY <1>1, <1>2, <1>4, RunsSame, OnlyStrip

(* What a model answers is taken away from what is asked.                  *)
LEMMA BokehAnswersKeep ==
    ASSUME ToolsInv, NEW a \in asked, NEW ok, Tools!BokehAnswers(a, ok) PROVE ToolsInv'
<1>1. /\ UNCHANGED <<editing, image, openToken, revision, activeTool, slider, selection, applying>>
      /\ asked' \subseteq asked
      /\ \/ scheds' = scheds
         \/ scheds' = [scheds EXCEPT !["bokeh"] = Tools!Finished(scheds["bokeh"])]
      /\ Tools!showPreviewBuffer("bokeh") \/ UNCHANGED <<previews, toolsShown>>
  BY DEF Tools!BokehAnswers, Tools!Answered, Tools!session, Tools!strip
<1>2. scheds' \in [{"ops", "bokeh"} -> Schedulers] /\ Ops' = Ops /\ scheds'["ops"] = Ops
  <2>1. PICK s \in Schedulers : s = Tools!Finished(scheds["bokeh"])
    BY SchedulerFlags, ToolParts
  <2>2. CASE scheds' = scheds
    BY <2>2, ToolParts DEF Ops
  <2>3. CASE scheds' = [scheds EXCEPT !["bokeh"] = s]
    BY <2>3, SchedulerSet
  <2> QED
    BY <1>1, <2>1, <2>2, <2>3
<1>3. Ops.frame => ~Ops.active
  BY ToolParts DEF RunsFit
<1>4. RunsFit' /\ ShownFits' /\ IsFiniteSet(previews') /\ previews' \subseteq PreviewRuns
  <2>1. CASE Tools!showPreviewBuffer("bokeh")
    BY <1>2, <1>3, <2>1, BufferShown
  <2>2. CASE UNCHANGED <<previews, toolsShown>>
    BY <1>1, <1>2, <2>2, RunsSame
  <2> QED
    BY <1>1, <2>1, <2>2
<1>5. MasksFit' /\ MaskTypes' /\ slider' \in Nat
  BY <1>1, MasksSame, ImageSame, ToolParts
<1> QED
  BY <1>1, <1>2, <1>4, <1>5, OnlyStrip

LEMMA SelectAnswersKeep ==
    ASSUME ToolsInv, NEW a \in asked, NEW ok, Tools!SelectAnswers(a, ok) PROVE ToolsInv'
<1>1. /\ UNCHANGED <<editing, image, openToken, revision, activeTool, slider, scheds, applying>>
      /\ asked' \subseteq asked
      /\ selection' \in {selection, Tools!Unselected} \/ selection' = [stamp |-> a.stamp, of |-> a.of]
      /\ Tools!showPreviewBuffer("select") \/ UNCHANGED <<previews, toolsShown>>
  BY DEF Tools!SelectAnswers, Tools!Answered, Tools!session
<1>2. scheds' \in [{"ops", "bokeh"} -> Schedulers] /\ Ops' = Ops /\ scheds'["ops"] = Ops
  BY <1>1, ToolParts DEF Ops
<1>3. Ops.frame => ~Ops.active
  BY ToolParts DEF RunsFit
<1>4. RunsFit' /\ ShownFits' /\ IsFiniteSet(previews') /\ previews' \subseteq PreviewRuns
  <2>1. CASE Tools!showPreviewBuffer("select")
    BY <1>2, <1>3, <2>1, BufferShown
  <2>2. CASE UNCHANGED <<previews, toolsShown>>
    BY <1>1, <1>2, <2>2, RunsSame
  <2> QED
    BY <1>1, <2>1, <2>2
<1>5. MasksFit' /\ MaskTypes'
  <2>1. \A b \in asked' : b \in Asks /\ b \in asked
    BY <1>1, ToolParts DEF ToolTypes, MaskTypes
  <2> QED
    BY <1>1, <2>1, ImageSame, MasksKept
<1>6. slider' \in Nat
  BY <1>1, ToolParts
<1> QED
  BY <1>1, <1>2, <1>4, <1>5, <1>6, OnlyStrip

LEMMA EraseAnswersKeep ==
    ASSUME ToolsInv, NEW a \in asked, NEW ok, Tools!EraseAnswers(a, ok) PROVE ToolsInv'
<1>1. /\ UNCHANGED <<editing, image, openToken, revision, activeTool, slider, selection, scheds,
                     previews, toolsShown>>
      /\ asked' \subseteq asked
      /\ applying \subseteq applying' /\ (applying' = applying \/ Tools!Open)
  BY DEF Tools!EraseAnswers, Tools!Answered, Tools!session, Tools!strip, Tools!applyHeal,
         Tools!stampMatches
<1>2. scheds' \in [{"ops", "bokeh"} -> Schedulers] /\ Ops' = Ops /\ slider' \in Nat
  BY <1>1, ToolParts DEF Ops
<1>3. MasksFit' /\ MaskTypes'
  BY <1>1, MasksSame, ImageSame
<1> QED
  BY <1>1, <1>2, <1>3, RunsSame, OnlyStrip

LEMMA MaskPngKeeps ==
    ASSUME ToolsInv, NEW a \in asked, Tools!selectionMaskPng(a) PROVE ToolsInv'
<1>1. /\ UNCHANGED <<editing, image, openToken, revision, activeTool, slider, scheds, applying>>
      /\ asked' \subseteq asked /\ Tools!resetPreview
      /\ selection' \in {selection, Tools!Unselected}
  BY DEF Tools!selectionMaskPng, Tools!Answered, Tools!session
<1>2. scheds' \in [{"ops", "bokeh"} -> Schedulers] /\ scheds'["ops"] = Ops /\ slider' \in Nat
  BY <1>1, ToolParts DEF Ops
<1>3. Ops.frame => ~Ops.active
  BY ToolParts DEF RunsFit
<1>4. MasksFit' /\ MaskTypes'
  BY <1>1, MasksSame, ImageSame
<1> QED
  BY <1>1, <1>2, <1>3, <1>4, PreviewReset, OnlyStrip

LEMMA UseSelectionKeeps == ASSUME ToolsInv, Tools!UseSelection PROVE ToolsInv'
<1>1. /\ UNCHANGED <<editing, image, openToken, revision, activeTool, slider, scheds>>
      /\ \/ /\ Tools!Open /\ applying \subseteq applying' /\ asked' = asked
            /\ selection' = Tools!Unselected /\ Tools!resetPreview
         \/ /\ Tools!Open /\ Tools!Ask("ai")
            /\ UNCHANGED <<selection, previews, toolsShown, applying>>
         \/ /\ selection' = Tools!Unselected /\ Tools!resetPreview /\ UNCHANGED <<asked, applying>>
  BY DEF Tools!UseSelection, Tools!selectClear, Tools!session, Tools!usableSelection,
         Tools!stampMatches, Tools!applyHeal
<1>2. scheds' \in [{"ops", "bokeh"} -> Schedulers] /\ scheds'["ops"] = Ops /\ Ops' = Ops
      /\ slider' \in Nat
  BY <1>1, ToolParts DEF Ops
<1>3. Ops.frame => ~Ops.active
  BY ToolParts DEF RunsFit
<1>4. CASE /\ selection' = Tools!Unselected /\ Tools!resetPreview /\ asked' = asked
           /\ applying' = applying \/ Tools!Open
  <2>1. MasksFit' /\ MaskTypes'
    BY <1>1, <1>4, MasksSame, ImageSame
  <2> QED
    BY <1>1, <1>2, <1>3, <1>4, <2>1, PreviewReset, OnlyStrip
<1>5. CASE /\ Tools!Open /\ Tools!Ask("ai")
           /\ UNCHANGED <<selection, previews, toolsShown, applying>>
  <2>1. MasksFit' /\ MaskTypes'
    BY <1>1, <1>5, ModelAskKeeps
  <2> QED
    BY <1>1, <1>2, <1>5, <2>1, RunsSame, OnlyStrip
<1> QED
  BY <1>1, <1>4, <1>5

-----------------------------------------------------------------------------
(* Every step.                                                             *)

LEMMA ClickKeeps == ASSUME ToolsInv, Tools!Click PROVE ToolsInv'
<1>1. CASE Tools!undo \/ Tools!redo
  BY <1>1, UndoRedoKeep
<1>2. CASE \E t \in Tools!StudioTool : Tools!selectTool(t)
  BY <1>2, SelectToolKeeps
<1>3. CASE \E v \in {0, 1} : Tools!MoveSlider(v)
  BY <1>3, MoveSliderKeeps
<1>4. CASE Tools!beginOpen \/ Tools!exitEdit
  BY <1>4, BeginOpenKeeps, ExitEditKeeps
<1>5. CASE Tools!applyOp \/ Tools!applyEngine
  BY <1>5, ApplyStartsKeeps
<1>6. CASE Tools!Pick \/ Tools!UseSelection
  BY <1>6, PickKeeps, UseSelectionKeeps
<1> QED
  BY <1>1, <1>2, <1>3, <1>4, <1>5, <1>6 DEF Tools!Click

LEMMA AnswerKeeps == ASSUME ToolsInv, OpenEdits, ~FailingApplies, Tools!Answer PROVE ToolsInv'
<1>1. CASE Tools!completeOpen \/ Tools!runPreview \/ Tools!runBokehPreview
  BY <1>1, CompleteOpenKeeps, RunPreviewKeeps, RunBokehKeeps
<1>2. CASE \E p \in previews : Tools!PreviewEnds(p)
  BY <1>2, PreviewEndsKeeps
<1>3. CASE \E a \in applying, ok \in BOOLEAN : Tools!ApplyEnds(a, ok)
  BY <1>3, ApplyEndsKeeps
<1>4. CASE \E a \in asked, ok \in BOOLEAN :
             Tools!BokehAnswers(a, ok) \/ Tools!SelectAnswers(a, ok) \/ Tools!EraseAnswers(a, ok)
  BY <1>4, BokehAnswersKeep, SelectAnswersKeep, EraseAnswersKeep
<1>5. CASE \E a \in asked : Tools!selectionMaskPng(a)
  BY <1>5, MaskPngKeeps
<1> QED
  BY <1>1, <1>2, <1>3, <1>4, <1>5 DEF Tools!Answer

LEMMA OpenEditsKept ==
    ASSUME ToolsInv, OpenEdits, [Tools!Next]_(Tools!toolVars) PROVE OpenEdits'
<1>1. CASE UNCHANGED <<image, editing>>
  BY <1>1 DEF OpenEdits, Tools!Open, Tools!Closed
<1>2. CASE image' = Tools!Closed
  BY <1>2 DEF OpenEdits, Tools!Open, Tools!Closed
<1>3. CASE Tools!Open /\ editing' = editing
  BY <1>3 DEF OpenEdits
<1>4. CASE Tools!completeOpen
  BY <1>4 DEF Tools!completeOpen, OpenEdits
<1>5. ASSUME Tools!Click \/ Tools!Answer
      PROVE  \/ UNCHANGED <<image, editing>> \/ image' = Tools!Closed
             \/ (Tools!Open /\ editing' = editing) \/ Tools!completeOpen
  <2>1. CASE Tools!beginOpen \/ Tools!exitEdit
    BY <2>1 DEF Tools!beginOpen, Tools!exitEdit, Tools!close
  <2>2. CASE Tools!undo \/ Tools!redo
    BY <2>2 DEF Tools!undo, Tools!redo, Tools!Restore
  <2>3. CASE \E t \in Tools!StudioTool : Tools!selectTool(t)
    BY <2>3 DEF Tools!selectTool, Tools!session
  <2>4. CASE \E v \in {0, 1} : Tools!MoveSlider(v)
    BY <2>4 DEF Tools!MoveSlider, Tools!session
  <2>5. CASE Tools!applyOp \/ Tools!applyEngine
    BY <2>5 DEF Tools!applyOp, Tools!applyEngine, Tools!session
  <2>6. CASE Tools!Pick \/ Tools!UseSelection
    BY <2>6 DEF Tools!Pick, Tools!UseSelection, Tools!session
  <2>7. CASE Tools!runPreview \/ Tools!runBokehPreview
    BY <2>7 DEF Tools!runPreview, Tools!runBokehPreview, Tools!session
  <2>8. CASE \E p \in previews : Tools!PreviewEnds(p)
    BY <2>8 DEF Tools!PreviewEnds, Tools!session
  <2>9. CASE \E a \in applying, ok \in BOOLEAN : Tools!ApplyEnds(a, ok)
    <3>1. applying # {} /\ editing' = editing
      BY <2>9 DEF Tools!ApplyEnds
    <3> QED
      BY <3>1, ToolParts DEF ToolTypes
  <2>10. CASE \E a \in asked, ok \in BOOLEAN :
                Tools!BokehAnswers(a, ok) \/ Tools!SelectAnswers(a, ok) \/ Tools!EraseAnswers(a, ok)
    BY <2>10 DEF Tools!BokehAnswers, Tools!SelectAnswers, Tools!EraseAnswers, Tools!Answered,
                 Tools!session
  <2>11. CASE \E a \in asked : Tools!selectionMaskPng(a)
    BY <2>11 DEF Tools!selectionMaskPng, Tools!Answered, Tools!session
  <2> QED
    BY <1>5, <2>1, <2>2, <2>3, <2>4, <2>5, <2>6, <2>7, <2>8, <2>9, <2>10, <2>11
       DEF Tools!Click, Tools!Answer
<1>6. CASE UNCHANGED Tools!toolVars
  BY <1>1, <1>6 DEF Tools!toolVars
<1> QED
  BY <1>1, <1>2, <1>3, <1>4, <1>5, <1>6 DEF Tools!Next

LEMMA ToolsMove ==
    ASSUME ToolsInv, OpenEdits, ~FailingApplies, [Tools!Next]_(Tools!toolVars)
    PROVE  ToolsInv' /\ OpenEdits'
<1>1. ASSUME Tools!Click PROVE ToolsInv'
  BY <1>1, ClickKeeps
<1>2. ASSUME Tools!Answer PROVE ToolsInv'
  BY <1>2, AnswerKeeps
<1>3. ASSUME UNCHANGED Tools!toolVars PROVE ToolsInv'
  <2>1. UNCHANGED <<editing, image, openToken, revision, activeTool, slider, scheds, previews,
                    toolsShown, selection, asked, applying>>
    BY <1>3 DEF Tools!toolVars
  <2>2. Ops' = Ops /\ slider' \in Nat /\ scheds' \in [{"ops", "bokeh"} -> Schedulers]
    BY <2>1, ToolParts DEF Ops
  <2>3. MasksFit' /\ MaskTypes'
    BY <2>1, MasksSame, ImageSame
  <2>4. RunsFit' /\ ShownFits' /\ IsFiniteSet(previews') /\ previews' \subseteq PreviewRuns
    BY <2>1, <2>2, RunsSame
  <2> QED
    BY <2>1, <2>2, <2>3, <2>4, OnlyStrip
<1> QED
  BY <1>1, <1>2, <1>3, OpenEditsKept DEF Tools!Next

LEMMA ToolsStart == ASSUME Tools!Init PROVE ToolsInv /\ OpenEdits
<1>1. /\ image = Tools!Closed /\ openToken = 0 /\ revision = 0 /\ slider = 0
      /\ scheds = Tools!NewStrip /\ previews = {} /\ toolsShown = Tools!NoPreview
      /\ selection = Tools!Unselected /\ asked = {} /\ applying = {}
  BY DEF Tools!Init
<1>2. ToolTypes
  BY <1>1, ClosedImage, NewStripTyped, FS_EmptySet DEF ToolTypes, MaskTypes
<1>3. MasksFit
  BY <1>1 DEF MasksFit
<1>4. Coming = {} /\ ~Ops.frame
  BY <1>1, NewStripTyped DEF Coming, Ops
<1>5. toolsShown.by \notin Tools!OpTools
  BY <1>1 DEF Tools!NoPreview, Tools!Unused, Tools!OpTools
<1>6. RunsFit
  BY <1>4 DEF RunsFit
<1>7. ShownFits
  BY <1>5 DEF ShownFits
<1> QED
  BY <1>1, <1>2, <1>3, <1>6, <1>7 DEF ToolsInv, OpenEdits, Tools!Open

LEMMA StripFits == ASSUME ToolsInv PROVE Tools!StripFitsImage
<1>1. ASSUME Tools!usableSelection PROVE selection.of = image.present
  <2>1. Fits(selection.stamp, selection.of) /\ selection.stamp = Tools!stamp
    BY <1>1, ToolParts DEF MasksFit, Tools!usableSelection, Tools!stampMatches
  <2>2. selection.stamp[1] = openToken /\ selection.stamp[2] = revision
    BY <2>1 DEF Tools!stamp
  <2> QED
    BY <2>1, <2>2 DEF Fits
<1>2. ASSUME toolsShown.by \in Tools!OpTools
      PROVE  /\ Tools!mounted /\ activeTool = toolsShown.by
             /\ toolsShown.of = image.present
             /\ \/ toolsShown.value = slider
                \/ Ops.frame \/ Ops.active \/ Ops.pending
                \/ applying # {}
  <2>1. Coming # {} => Ops.active
    BY ToolParts DEF RunsFit
  <2> QED
    BY <1>2, <2>1, ToolParts DEF ShownFits
<1> QED
  BY <1>1, <1>2 DEF Tools!StripFitsImage, Tools!MaskFitsPixels, Tools!PreviewIsOwned, Ops

-----------------------------------------------------------------------------
(* The models the editor runs                                              *)

SessFit == Lives \subseteq Nat /\ IsFiniteSet(Lives) /\ NoLive \notin Lives

Stages == {"free", "match", "fetch", "evict", "put", "create", "ready", "failed"}
LifeFields == {"key", "owners", "at", "bytes", "evict", "saw"}
Holders == Borrowers \X Sessions!Strands
Leases == [at : {"none", "waits", "held", "failed", "over"}, live : Lives \cup {NoLive}]
Jobs ==
    [job : {"none", "model", "select", "abandoned"}, at : {"idle", "works", "falls", "swapped"},
     lease : [Sessions!Strands -> Leases]]

LifeOk(r) ==
    /\ DOMAIN r = LifeFields /\ r.owners \in Nat /\ r.at \in Stages
    /\ r.at # "free" => r.key \in Sessions!Keys
    /\ r.at = "free" <=> r.owners = 0
    /\ r.at \in {"put", "evict", "create", "ready"} => r.bytes = "good"

(* The leases on a session.                                                *)
On(H, l) == {h \in H : h[2] = l}

(* A session is found under its key from its first owner to the last, or   *)
(* until its loading failed; it has as many owners as leases are on it.    *)
Shared(of, lv, H) ==
    /\ of \in [Sessions!Keys -> Lives \cup {NoLive}]
    /\ DOMAIN lv = Lives /\ \A l \in Lives : LifeOk(lv[l])
    /\ IsFiniteSet(H) /\ H \subseteq Holders \X Lives
    /\ \A l \in Lives : lv[l].at \notin {"free", "failed"} => of[lv[l].key] = l
    /\ \A k \in Sessions!Keys : of[k] # NoLive => lv[of[k]].key = k /\ lv[of[k]].at # "free"
    /\ \A l \in Lives : lv[l].owners = Cardinality(On(H, l))

Leased(tl) == {h \in Holders \X Lives : tl[h[1][1]].lease[h[1][2]].live = h[2]}

(* What the leases of a tool say of what it is at.                         *)
JobOk(j) ==
    /\ j \in Jobs
    /\ \A s \in Sessions!Strands : j.lease[s].live # NoLive <=> j.lease[s].at \in {"waits", "held"}
    /\ j.job = "none" => j = Sessions!Idle
    /\ j.job = "model" /\ j.at # "falls" => j.lease["second"].live = NoLive
    /\ j.at = "falls" => j.lease["first"].at = "held" /\ j.job = "model"
    /\ j.job = "abandoned" => "failed" \in {j.lease["first"].at, j.lease["second"].at}

HeldAreReady(lv, tl) ==
    \A t \in Borrowers, s \in Sessions!Strands :
        tl[t].lease[s].at = "held" => lv[tl[t].lease[s].live].at = "ready"

PinsAreReady(lv, pins) == \A m \in pins : \E l \in Lives : lv[l].at = "ready" /\ lv[l].key[1] = m

SharesInv ==
    /\ Shared(sessions, lives, Leased(tools))
    /\ tools \in [Borrowers -> Jobs] /\ \A t \in Borrowers : JobOk(tools[t])
    /\ HeldAreReady(lives, tools)
    /\ PinsAreReady(lives, pinned)

-----------------------------------------------------------------------------
(* Sessions and their owners.                                              *)

LEMMA SessCardinality == ASSUME NEW S PROVE Sessions!Cardinality(S) = Cardinality(S)
BY DEF Sessions!Cardinality, Cardinality

(* A set of numbers has a least one: the one with the smallest segment.    *)
LEMMA LeastLife == ASSUME NEW S \in SUBSET Nat, S # {} PROVE Sessions!Min(S) \in S
<1> DEFINE Segments == {0..(x - 1) : x \in S}
<1>1. Segments \subseteq FiniteSubsetsOf(Nat)
  <2> SUFFICES ASSUME NEW x \in S PROVE 0..(x - 1) \in FiniteSubsetsOf(Nat)
    OBVIOUS
  <2>1. IsFiniteSet(0..(x - 1)) /\ 0..(x - 1) \in SUBSET Nat
    BY FS_Interval
  <2> QED
    BY <2>1 DEF FiniteSubsetsOf
<1>2. Segments # {}
  OBVIOUS
<1>3. PICK T \in Segments : \A U \in Segments : ~ (<<U, T>> \in StrictSubsetOrdering(Nat))
  <2> HIDE DEF Segments
  <2> QED
    BY <1>1, <1>2, WFMin, FS_StrictSubsetOrderingWellFounded
<1>4. PICK x \in S : T = 0..(x - 1)
  BY <1>3
<1>5. ASSUME NEW y \in S PROVE x <= y
  <2> SUFFICES ASSUME y < x PROVE FALSE
    OBVIOUS
  <2>1. 0..(y - 1) \in Segments /\ 0..(y - 1) \subseteq T /\ 0..(y - 1) \in SUBSET Nat
    BY <1>4
  <2>2. T \in SUBSET Nat /\ y \in T /\ y \notin 0..(y - 1)
    BY <1>4
  <2> QED
    BY <1>3, <2>1, <2>2 DEF StrictSubsetOrdering
<1> QED
  BY <1>5 DEF Sessions!Min

(* One life changes, with the key it is found under and its leases.        *)
LifeChanges(of, lv, H, of2, lv2, H2, l) ==
    /\ DOMAIN lv2 = Lives /\ LifeOk(lv2[l]) /\ \A m \in Lives \ {l} : lv2[m] = lv[m]
    /\ of2 \in [Sessions!Keys -> Lives \cup {NoLive}]
    /\ IsFiniteSet(H2) /\ H2 \subseteq Holders \X Lives
    /\ lv2[l].at \notin {"free", "failed"} => of2[lv2[l].key] = l
    /\ \A m \in Lives \ {l} : lv[m].at \notin {"free", "failed"} => of2[lv[m].key] = m
    /\ \A k \in Sessions!Keys : of2[k] # NoLive =>
           \/ of2[k] = l /\ lv2[l].key = k /\ lv2[l].at # "free"
           \/ of2[k] # l /\ of2[k] = of[k]
    /\ lv2[l].owners = Cardinality(On(H2, l))
    /\ \A m \in Lives \ {l} : On(H2, m) = On(H, m)

LEMMA OneLife ==
    ASSUME NEW of, NEW lv, NEW H, Shared(of, lv, H), NEW l \in Lives,
           NEW of2, NEW lv2, NEW H2, LifeChanges(of, lv, H, of2, lv2, H2, l)
    PROVE  Shared(of2, lv2, H2)
<1>1. DOMAIN lv2 = Lives /\ \A m \in Lives \ {l} : lv2[m] = lv[m]
  BY DEF LifeChanges
<1>2. \A m \in Lives : LifeOk(lv2[m])
  BY <1>1 DEF Shared, LifeChanges
<1>3. \A m \in Lives : lv2[m].at \notin {"free", "failed"} => of2[lv2[m].key] = m
  BY <1>1 DEF LifeChanges
<1>4. ASSUME NEW k \in Sessions!Keys, of2[k] # NoLive
      PROVE  lv2[of2[k]].key = k /\ lv2[of2[k]].at # "free"
  <2>1. CASE of2[k] = l
    BY <1>1, <1>4, <2>1 DEF LifeChanges
  <2>2. CASE of2[k] # l
    <3>1. of2[k] = of[k] /\ of2[k] \in Lives \ {l}
      BY <1>4, <2>2 DEF LifeChanges
    <3> QED
      BY <1>1, <1>4, <3>1 DEF Shared
  <2> QED
    BY <2>1, <2>2
<1>5. \A m \in Lives : lv2[m].owners = Cardinality(On(H2, m))
  <2>1. ASSUME NEW m \in Lives \ {l} PROVE lv2[m].owners = Cardinality(On(H2, m))
    <3>1. lv[m].owners = Cardinality(On(H, m))
      BY DEF Shared
    <3>2. On(H2, m) = On(H, m)
      BY DEF LifeChanges
    <3> QED
      BY <1>1, <3>1, <3>2
  <2>2. lv2[l].owners = Cardinality(On(H2, l))
    BY DEF LifeChanges
  <2> QED
    BY <2>1, <2>2
<1> QED
  BY <1>1, <1>2, <1>3, <1>4, <1>5 DEF Shared, LifeChanges

(* Who holds a lease is counted once.                                      *)
LEMMA OneMore ==
    ASSUME NEW H, IsFiniteSet(H), H \subseteq Holders \X Lives, NEW x \in Holders, NEW l \in Lives,
           <<x, l>> \notin H
    PROVE  /\ IsFiniteSet(H \cup {<<x, l>>}) /\ H \cup {<<x, l>>} \subseteq Holders \X Lives
           /\ Cardinality(On(H \cup {<<x, l>>}, l)) = Cardinality(On(H, l)) + 1
           /\ \A m \in Lives \ {l} : On(H \cup {<<x, l>>}, m) = On(H, m)
<1> DEFINE e == <<x, l>>
<1>1. On(H \cup {e}, l) = On(H, l) \cup {e} /\ e \notin On(H, l)
  BY DEF On
<1>2. IsFiniteSet(On(H, l))
  BY FS_Subset DEF On
<1>3. \A m \in Lives \ {l} : On(H \cup {e}, m) = On(H, m)
  BY DEF On
<1>4. IsFiniteSet(H \cup {e}) /\ H \cup {e} \subseteq Holders \X Lives
  BY FS_AddElement
<1> HIDE DEF e
<1>5. Cardinality(On(H, l) \cup {e}) = Cardinality(On(H, l)) + 1
  BY <1>1, <1>2, FS_AddElement
<1> QED
  BY <1>1, <1>3, <1>4, <1>5 DEF e

LEMMA OneLess ==
    ASSUME NEW H, IsFiniteSet(H), H \subseteq Holders \X Lives, NEW x \in Holders, NEW l \in Lives,
           <<x, l>> \in H
    PROVE  /\ IsFiniteSet(H \ {<<x, l>>}) /\ H \ {<<x, l>>} \subseteq Holders \X Lives
           /\ Cardinality(On(H, l)) = Cardinality(On(H \ {<<x, l>>}, l)) + 1
           /\ Cardinality(On(H \ {<<x, l>>}, l)) \in Nat
           /\ \A m \in Lives \ {l} : On(H \ {<<x, l>>}, m) = On(H, m)
<1>1. PICK G : G = H \ {<<x, l>>}
  OBVIOUS
<1>2. IsFiniteSet(G) /\ G \subseteq Holders \X Lives /\ <<x, l>> \notin G /\ H = G \cup {<<x, l>>}
  BY <1>1, FS_RemoveElement
<1>3. IsFiniteSet(On(G, l))
  BY <1>2, FS_Subset DEF On
<1>4. Cardinality(On(G, l)) \in Nat
  BY <1>3, FS_CardinalityType
<1>5. /\ Cardinality(On(G \cup {<<x, l>>}, l)) = Cardinality(On(G, l)) + 1
      /\ \A m \in Lives \ {l} : On(G \cup {<<x, l>>}, m) = On(G, m)
  BY <1>2, OneMore
<1> QED
  BY <1>1, <1>2, <1>4, <1>5

(* A leased session is loading or loaded.                                  *)
LEMMA LeasedLives ==
    ASSUME NEW of, NEW lv, NEW H, Shared(of, lv, H), NEW x \in Holders, NEW l \in Lives, <<x, l>> \in H
    PROVE  lv[l].at # "free" /\ lv[l].owners \in Nat \ {0} /\ lv[l].key \in Sessions!Keys
<1>1. lv[l].owners = Cardinality(On(H, l)) /\ LifeOk(lv[l])
      /\ IsFiniteSet(H) /\ H \subseteq Holders \X Lives
  BY DEF Shared
<1>2. Cardinality(On(H, l)) = Cardinality(On(H \ {<<x, l>>}, l)) + 1
      /\ Cardinality(On(H \ {<<x, l>>}, l)) \in Nat
  BY <1>1, OneLess
<1>3. lv[l].owners # 0
  BY <1>1, <1>2
<1> QED
  BY <1>1, <1>3 DEF LifeOk

LEMMA LifeKinds ==
    /\ LifeOk(Sessions!Free) /\ Sessions!Free.owners = 0 /\ Sessions!Free.at = "free"
    /\ \A k \in Sessions!Keys :
         /\ LifeOk(Sessions!Begun(k)) /\ Sessions!Begun(k).owners = 1
         /\ Sessions!Begun(k).key = k /\ Sessions!Begun(k).at = "match"
BY DEF LifeOk, LifeFields, Stages, Sessions!Free, Sessions!Begun

LEMMA OwnersChange ==
    ASSUME NEW r, LifeOk(r), r.at # "free", NEW n \in Nat \ {0}, NEW q, q = [r EXCEPT !.owners = n]
    PROVE  LifeOk(q) /\ q.owners = n /\ q.key = r.key /\ q.at = r.at
BY DEF LifeOk, LifeFields

(* A call acquires a session, and owns it.                                 *)
AcquiredBy(of, lv, H, k, x, st) ==
    /\ st.of[k] \in Lives /\ Shared(st.of, st.lives, H \cup {<<x, st.of[k]>>})
    /\ \A l \in Lives : lv[l].at # "free" => st.lives[l].at = lv[l].at /\ st.lives[l].key = lv[l].key
    /\ \A l \in Lives : l # st.of[k] => st.lives[l] = lv[l]

LEMMA Acquires ==
    ASSUME SessFit, NEW of, NEW lv, NEW H, Shared(of, lv, H), NEW k \in Sessions!Keys,
           NEW x \in Holders, \A l \in Lives : <<x, l>> \notin H,
           \E l \in Lives : lv[l].at = "free",
           NEW st, st = Sessions!AcquiredIn([of |-> of, lives |-> lv], k)
    PROVE  AcquiredBy(of, lv, H, k, x, st)
<1> DEFINE Unused == {y \in Lives : lv[y].at = "free"}
           l == IF of[k] # NoLive THEN of[k] ELSE Sessions!Min(Unused)
           r == IF of[k] = NoLive THEN Sessions!Begun(k)
                ELSE [lv[l] EXCEPT !.owners = lv[l].owners + 1]
<1>1. of \in [Sessions!Keys -> Lives \cup {NoLive}] /\ DOMAIN lv = Lives
      /\ IsFiniteSet(H) /\ H \subseteq Holders \X Lives
  BY DEF Shared
<1>2. l \in Lives /\ (of[k] = NoLive => lv[l].at = "free") /\ (of[k] # NoLive => l = of[k])
  <2>1. Unused \in SUBSET Nat /\ Unused # {}
    BY DEF SessFit
  <2>2. Sessions!Min(Unused) \in Unused
    <3> HIDE DEF Unused
    <3> QED
      BY <2>1, LeastLife
  <2> QED
    BY <1>1, <2>2
<1>3. PICK of2, lv2 : /\ st = [of |-> of2, lives |-> lv2]
                     /\ of2 = [of EXCEPT ![k] = l] /\ lv2 = [lv EXCEPT ![l] = r]
  BY DEF Sessions!AcquiredIn
<1> HIDE DEF l
<1>4. LifeOk(lv[l])
  BY <1>2 DEF Shared
<1>5. LifeOk(r) /\ r.owners = lv[l].owners + 1 /\ r.key = k /\ r.at # "free"
      /\ (lv[l].at # "free" => r.at = lv[l].at /\ r.key = lv[l].key /\ of[k] = l)
  <2>1. CASE of[k] = NoLive
    <3>1. r = Sessions!Begun(k)
      BY <2>1
    <3>2. lv[l].owners = 0 /\ lv[l].at = "free"
      BY <1>2, <1>4, <2>1 DEF LifeOk
    <3> HIDE DEF r
    <3> QED
      BY <3>1, <3>2, LifeKinds
  <2>2. CASE of[k] # NoLive
    <3>1. r = [lv[l] EXCEPT !.owners = lv[l].owners + 1]
      BY <2>2
    <3>2. lv[l].key = k /\ lv[l].at # "free" /\ of[k] = l
      BY <1>2, <2>2 DEF Shared
    <3>3. lv[l].owners + 1 \in Nat \ {0}
      BY <1>4 DEF LifeOk
    <3> HIDE DEF r
    <3> QED
      BY <1>4, <3>1, <3>2, <3>3, OwnersChange
  <2> QED
    BY <2>1, <2>2
<1> HIDE DEF r
<1>6. st.of = of2 /\ st.lives = lv2 /\ of2[k] = l /\ of2 = [of EXCEPT ![k] = l]
      /\ lv2 = [lv EXCEPT ![l] = r]
  <2>1. of2 = [of EXCEPT ![k] = l] /\ lv2 = [lv EXCEPT ![l] = r]
    BY <1>3, Zenon
  <2>0. st = [of |-> of2, lives |-> lv2]
    BY <1>3, Zenon
  <2>2. st.of = of2 /\ st.lives = lv2
    BY ONLY <2>0
  <2> QED
    BY <1>1, <2>1, <2>2
<1>7. \A m \in Lives : m # l => lv2[m] = lv[m]
  BY <1>1, <1>6
<1>8. lv2[l] = r
  BY <1>1, <1>2, <1>6
<1>9. Shared(of2, lv2, H \cup {<<x, l>>})
  <2> DEFINE H2 == H \cup {<<x, l>>}
  <2>0. <<x, l>> \notin H
    BY <1>2
  <2>1. IsFiniteSet(H2) /\ H2 \subseteq Holders \X Lives
        /\ Cardinality(On(H2, l)) = Cardinality(On(H, l)) + 1
        /\ \A m \in Lives \ {l} : On(H2, m) = On(H, m)
    BY <1>1, <1>2, <2>0, OneMore
  <2> HIDE DEF H2
  <2>2. r.owners = Cardinality(On(H2, l))
    BY <1>2, <1>5, <2>1 DEF Shared
  <2>3. of2 \in [Sessions!Keys -> Lives \cup {NoLive}]
    BY <1>1, <1>2, <1>6
  <2>4. \A m \in Lives \ {l} : lv[m].at \notin {"free", "failed"} => of2[lv[m].key] = m
    <3> SUFFICES ASSUME NEW m \in Lives \ {l}, lv[m].at \notin {"free", "failed"}
                 PROVE  of2[lv[m].key] = m
      OBVIOUS
    <3>1. of[lv[m].key] = m /\ lv[m].key \in Sessions!Keys
      BY DEF Shared, LifeOk
    <3>2. CASE of[k] = NoLive
      <4>1. lv[m].key # k
        BY <3>1, <3>2 DEF SessFit
      <4> QED
        BY <1>1, <1>6, <3>1, <4>1
    <3>3. CASE of[k] # NoLive
      <4>1. lv[m].key # k
        BY <1>2, <3>1, <3>3
      <4> QED
        BY <1>1, <1>6, <3>1, <4>1
    <3> QED
      BY <3>2, <3>3
  <2>5. \A j \in Sessions!Keys : of2[j] # NoLive =>
            \/ of2[j] = l /\ r.key = j /\ r.at # "free"
            \/ of2[j] # l /\ of2[j] = of[j]
    <3> SUFFICES ASSUME NEW j \in Sessions!Keys, of2[j] # NoLive
                 PROVE  \/ of2[j] = l /\ r.key = j /\ r.at # "free"
                        \/ of2[j] # l /\ of2[j] = of[j]
      OBVIOUS
    <3>1. CASE j = k
      BY <1>5, <1>6, <3>1
    <3>2. CASE j # k
      <4>1. of2[j] = of[j]
        BY <1>1, <1>6, <3>2
      <4>2. of[j] # l
        <5> SUFFICES ASSUME of[j] = l PROVE FALSE
          OBVIOUS
        <5>1. lv[l].key = j /\ lv[l].at # "free"
          BY <4>1 DEF Shared
        <5> QED
          BY <1>5, <3>2, <5>1
      <4> QED
        BY <4>1, <4>2
    <3> QED
      BY <3>1, <3>2
  <2>6. r.at \notin {"free", "failed"} => of2[r.key] = l
    BY <1>5, <1>6
  <2>7. Shared(of2, lv2, H2)
    <3>1. l \in Lives /\ LifeOk(lv2[l]) /\ DOMAIN lv2 = Lives /\ \A m \in Lives \ {l} : lv2[m] = lv[m]
      BY <1>1, <1>2, <1>5, <1>6, <1>7, <1>8
    <3>2. lv2[l].owners = Cardinality(On(H2, l))
      BY <1>8, <2>2
    <3>3. \A j \in Sessions!Keys : of2[j] # NoLive =>
            \/ of2[j] = l /\ lv2[l].key = j /\ lv2[l].at # "free"
            \/ of2[j] # l /\ of2[j] = of[j]
      BY <1>8, <2>5
    <3>4. lv2[l].at \notin {"free", "failed"} => of2[lv2[l].key] = l
      BY <1>8, <2>6
    <3>5. LifeChanges(of, lv, H, of2, lv2, H2, l)
      BY <2>1, <2>3, <2>4, <3>1, <3>2, <3>3, <3>4 DEF LifeChanges
    <3> QED
      BY <1>2, <3>5, OneLife
  <2> QED
    BY <2>7 DEF H2
<1>10. of2[k] \in Lives /\ Shared(of2, lv2, H \cup {<<x, of2[k]>>})
  BY <1>2, <1>6, <1>9
<1>11. ASSUME NEW m \in Lives, lv[m].at # "free"
       PROVE  lv2[m].at = lv[m].at /\ lv2[m].key = lv[m].key
  <2>1. CASE m = l
    BY <1>5, <1>8, <1>11, <2>1
  <2>2. CASE m # l
    BY <1>7, <2>2
  <2> QED
    BY <2>1, <2>2
<1> QED
  BY <1>6, <1>7, <1>10, <1>11 DEF AcquiredBy

(* A call lets go of its session: the last owner disposes it, and it can   *)
(* be found no more; nor can one whose loading failed.                     *)
LessOwned(lv, l, r) ==
    /\ lv[l].owners = 1 => r = Sessions!Free
    /\ lv[l].owners # 1 => r = [lv[l] EXCEPT !.owners = lv[l].owners - 1]

LetGo(of, lv, of2, lv2, l) ==
    /\ \E r : LessOwned(lv, l, r) /\ lv2 = [lv EXCEPT ![l] = r]
    /\ \/ of2 = of /\ lv[l].owners # 1
       \/ /\ of2 = [k \in Sessions!Keys |-> IF of[k] = l THEN NoLive ELSE of[k]]
          /\ lv[l].owners = 1 \/ lv[l].at = "failed"

OneOwnerLess(lv, lv2, l) ==
    /\ lv2[l].at \in {lv[l].at, "free"} /\ (lv2[l].at = "free" <=> lv[l].owners = 1)
    /\ lv2[l].at # "free" => lv2[l].key = lv[l].key
    /\ \A m \in Lives \ {l} : lv2[m] = lv[m]

LEMMA LetsGo ==
    ASSUME SessFit, NEW of, NEW lv, NEW H, Shared(of, lv, H), NEW x \in Holders, NEW l \in Lives,
           <<x, l>> \in H, NEW of2, NEW lv2, LetGo(of, lv, of2, lv2, l)
    PROVE  Shared(of2, lv2, H \ {<<x, l>>}) /\ OneOwnerLess(lv, lv2, l)
<1> PICK r : LessOwned(lv, l, r) /\ lv2 = [lv EXCEPT ![l] = r]
  BY DEF LetGo
<1> USE DEF LessOwned, LetGo
<1>1. lv[l].at # "free" /\ lv[l].owners \in Nat \ {0} /\ LifeOk(lv[l])
  BY LeasedLives DEF Shared
<1>2. DOMAIN lv = Lives /\ of \in [Sessions!Keys -> Lives \cup {NoLive}]
      /\ IsFiniteSet(H) /\ H \subseteq Holders \X Lives
  BY DEF Shared
<1>3. DOMAIN lv2 = Lives /\ lv2[l] = r /\ \A m \in Lives \ {l} : lv2[m] = lv[m]
  BY <1>2
<1>4. LifeOk(r) /\ r.owners + 1 = lv[l].owners
      /\ (lv[l].owners = 1 => r.at = "free")
      /\ (lv[l].owners # 1 => r.at = lv[l].at /\ r.key = lv[l].key)
  <2>1. CASE lv[l].owners = 1
    BY <2>1, LifeKinds
  <2>2. CASE lv[l].owners # 1
    <3>1. PICK n \in Nat \ {0} : n = lv[l].owners - 1
      BY <1>1, <2>2
    <3>2. r = [lv[l] EXCEPT !.owners = n]
      BY <2>2, <3>1
    <3>3. LifeOk(r) /\ r.owners = n /\ r.key = lv[l].key /\ r.at = lv[l].at
      BY <1>1, <3>2, OwnersChange
    <3> QED
      BY <1>1, <2>2, <3>1, <3>3
  <2> QED
    BY <2>1, <2>2
<1>5. PICK G : G = H \ {<<x, l>>}
  OBVIOUS
<1>6. IsFiniteSet(G) /\ G \subseteq Holders \X Lives
      /\ Cardinality(On(H, l)) = Cardinality(On(G, l)) + 1 /\ Cardinality(On(G, l)) \in Nat
      /\ \A m \in Lives \ {l} : On(G, m) = On(H, m)
  BY <1>2, <1>5, OneLess
<1>7. lv2[l].owners = Cardinality(On(G, l))
  <2>1. lv[l].owners = Cardinality(On(H, l)) /\ r.owners \in Nat
    BY <1>4 DEF Shared, LifeOk
  <2> QED
    BY <1>3, <1>4, <1>6, <2>1
<1>8. of2 \in [Sessions!Keys -> Lives \cup {NoLive}]
  BY <1>2
<1>9. r.at \notin {"free", "failed"} => of2[r.key] = l
  <2> SUFFICES ASSUME r.at \notin {"free", "failed"} PROVE of2[r.key] = l
    OBVIOUS
  <2>1. of2 = of /\ r.key = lv[l].key /\ lv[l].at \notin {"free", "failed"}
    BY <1>4
  <2> QED
    BY <2>1 DEF Shared
<1>10. \A m \in Lives \ {l} : lv[m].at \notin {"free", "failed"} => of2[lv[m].key] = m
  <2> SUFFICES ASSUME NEW m \in Lives \ {l}, lv[m].at \notin {"free", "failed"}
               PROVE  of2[lv[m].key] = m
    OBVIOUS
  <2>1. of[lv[m].key] = m /\ lv[m].key \in Sessions!Keys
    BY DEF Shared, LifeOk
  <2> QED
    BY <2>1
<1>11. \A k \in Sessions!Keys : of2[k] # NoLive =>
         \/ of2[k] = l /\ lv2[l].key = k /\ lv2[l].at # "free"
         \/ of2[k] # l /\ of2[k] = of[k]
  <2> SUFFICES ASSUME NEW k \in Sessions!Keys, of2[k] # NoLive, of2[k] = l
               PROVE  lv2[l].key = k /\ lv2[l].at # "free"
    BY <1>2
  <2>1. of2 = of /\ lv[l].owners # 1
    BY DEF SessFit
  <2>2. lv[l].key = k
    BY <2>1 DEF Shared
  <2> QED
    BY <1>1, <1>3, <1>4, <2>1, <2>2
<1>12. Shared(of2, lv2, G)
  <2>1. lv2[l].at \notin {"free", "failed"} => of2[lv2[l].key] = l
    BY <1>3, <1>9
  <2>2. LifeOk(lv2[l]) /\ DOMAIN lv2 = Lives /\ \A m \in Lives \ {l} : lv2[m] = lv[m]
    BY <1>3, <1>4
  <2>3. LifeChanges(of, lv, H, of2, lv2, G, l)
    BY <1>6, <1>7, <1>8, <1>10, <1>11, <2>1, <2>2 DEF LifeChanges
  <2> QED
    BY <2>3, OneLife
<1>13. (lv2[l].at = "free" <=> lv[l].owners = 1)
  BY <1>1, <1>3, <1>4
<1> QED
  BY <1>3, <1>4, <1>5, <1>12, <1>13 DEF OneOwnerLess

(* Its loading goes on.                                                    *)
LifeGoesOn(lv, lv2, l) ==
    /\ lv[l].at \notin {"free", "failed"} /\ DOMAIN lv2 = DOMAIN lv /\ LifeOk(lv2[l])
    /\ lv2[l].key = lv[l].key /\ lv2[l].owners = lv[l].owners
    /\ \A m \in Lives \ {l} : lv2[m] = lv[m]

LEMMA GoesOn ==
    ASSUME NEW of, NEW lv, NEW H, Shared(of, lv, H), NEW l \in Lives, NEW lv2, LifeGoesOn(lv, lv2, l)
    PROVE  Shared(of, lv2, H)
<1> USE DEF LifeGoesOn
<1>1. DOMAIN lv = Lives /\ of \in [Sessions!Keys -> Lives \cup {NoLive}]
      /\ IsFiniteSet(H) /\ H \subseteq Holders \X Lives
      /\ lv[l].owners = Cardinality(On(H, l)) /\ LifeOk(lv[l]) /\ of[lv[l].key] = l
  BY DEF Shared
<1> PICK r : r = lv2[l]
  OBVIOUS
<1>2. DOMAIN lv2 = Lives /\ lv2[l] = r /\ LifeOk(r) /\ r.key = lv[l].key /\ r.owners = lv[l].owners
      /\ \A m \in Lives \ {l} : lv2[m] = lv[m]
  BY <1>1
<1>3. r.at # "free"
  BY <1>1, <1>2 DEF LifeOk
<1>4. \A m \in Lives \ {l} : lv[m].at \notin {"free", "failed"} => of[lv[m].key] = m
  BY DEF Shared
<1>5. \A k \in Sessions!Keys : of[k] # NoLive =>
        \/ of[k] = l /\ lv2[l].key = k /\ lv2[l].at # "free"
        \/ of[k] # l /\ of[k] = of[k]
  <2> SUFFICES ASSUME NEW k \in Sessions!Keys, of[k] # NoLive, of[k] = l
               PROVE  lv2[l].key = k /\ lv2[l].at # "free"
    OBVIOUS
  <2> QED
    BY <1>2, <1>3 DEF Shared
<1>6. LifeOk(lv2[l]) /\ lv2[l].owners = Cardinality(On(H, l)) /\ of[lv2[l].key] = l
  BY <1>1, <1>2
<1>7. LifeChanges(of, lv, H, of, lv2, H, l)
  BY <1>1, <1>2, <1>4, <1>5, <1>6 DEF LifeChanges
<1> QED
  BY <1>2, <1>7, OneLife

(* A lease goes from one strand of a tool to the other.                    *)
LEMMA HandsOver ==
    ASSUME NEW of, NEW lv, NEW H, Shared(of, lv, H), NEW x \in Holders, NEW y \in Holders,
           NEW l \in Lives, <<x, l>> \in H, \A m \in Lives : <<y, m>> \notin H
    PROVE  Shared(of, lv, (H \ {<<x, l>>}) \cup {<<y, l>>})
<1>1. IsFiniteSet(H) /\ H \subseteq Holders \X Lives
  BY DEF Shared
<1>2. PICK G : G = H \ {<<x, l>>}
  OBVIOUS
<1>3. IsFiniteSet(G) /\ G \subseteq Holders \X Lives
      /\ Cardinality(On(H, l)) = Cardinality(On(G, l)) + 1
      /\ \A m \in Lives \ {l} : On(G, m) = On(H, m)
  BY <1>1, <1>2, OneLess
<1>4. <<y, l>> \notin G
  BY <1>2
<1>5. PICK F : F = G \cup {<<y, l>>}
  OBVIOUS
<1>6. IsFiniteSet(F) /\ F \subseteq Holders \X Lives
      /\ Cardinality(On(F, l)) = Cardinality(On(G, l)) + 1
      /\ \A m \in Lives \ {l} : On(F, m) = On(G, m)
  <2>1. IsFiniteSet(G \cup {<<y, l>>}) /\ G \cup {<<y, l>>} \subseteq Holders \X Lives
        /\ Cardinality(On(G \cup {<<y, l>>}, l)) = Cardinality(On(G, l)) + 1
        /\ \A m \in Lives \ {l} : On(G \cup {<<y, l>>}, m) = On(G, m)
    <3>1. IsFiniteSet(G) /\ G \subseteq Holders \X Lives /\ <<y, l>> \notin G
      BY <1>3, <1>4
    <3>2. y \in Holders /\ l \in Lives
      OBVIOUS
    <3> QED
      BY ONLY <3>1, <3>2, OneMore
  <2> QED
    BY <1>5, <2>1
<1>7. \A m \in Lives : lv[m].owners = Cardinality(On(F, m))
  <2>1. lv[l].owners = Cardinality(On(F, l))
    BY <1>3, <1>6 DEF Shared
  <2>2. ASSUME NEW m \in Lives \ {l} PROVE lv[m].owners = Cardinality(On(F, m))
    <3>1. On(F, m) = On(H, m)
      BY <1>3, <1>6
    <3> QED
      BY <3>1 DEF Shared
  <2> QED
    BY <2>1, <2>2
<1>8. Shared(of, lv, F)
  BY <1>6, <1>7 DEF Shared
<1> QED
  BY <1>2, <1>5, <1>8

-----------------------------------------------------------------------------
(* Tools and their leases.                                                 *)

LEMMA JobShape ==
    ASSUME NEW j, JobOk(j), NEW s \in Sessions!Strands
    PROVE  /\ j \in Jobs /\ j.lease \in [Sessions!Strands -> Leases] /\ j.lease[s] \in Leases
           /\ j.lease[s].live \in Lives \cup {NoLive}
           /\ j.lease[s].live # NoLive <=> j.lease[s].at \in {"waits", "held"}
BY DEF JobOk, Jobs, Leases

LEMMA SharesParts ==
    ASSUME SharesInv
    PROVE  /\ Shared(sessions, lives, Leased(tools)) /\ tools \in [Borrowers -> Jobs]
           /\ \A t \in Borrowers : JobOk(tools[t])
           /\ HeldAreReady(lives, tools) /\ PinsAreReady(lives, pinned)
           /\ sessions \in [Sessions!Keys -> Lives \cup {NoLive}]
           /\ DOMAIN lives = Lives /\ \A l \in Lives : LifeOk(lives[l])
BY DEF SharesInv, Shared

LEMMA LeaseOf ==
    ASSUME NEW t \in Borrowers, NEW s \in Sessions!Strands, NEW l \in Lives, NEW tl
    PROVE  <<t, s>> \in Holders /\ (<<<<t, s>>, l>> \in Leased(tl) <=> tl[t].lease[s].live = l)
BY DEF Leased, Holders

(* A step of one tool.                                                     *)
ToolGoes(t, j) == tools' = [tools EXCEPT ![t] = j]

LEMMA OneTool ==
    ASSUME tools \in [Borrowers -> Jobs], NEW t \in Borrowers, NEW j, ToolGoes(t, j)
    PROVE  /\ tools'[t] = j /\ \A u \in Borrowers : u # t => tools'[u] = tools[u]
           /\ j \in Jobs => tools' \in [Borrowers -> Jobs]
BY DEF ToolGoes

(* What it does to the leases.                                             *)
LEMMA LeasesMove ==
    ASSUME tools \in [Borrowers -> Jobs], NEW t \in Borrowers, NEW j,
           ToolGoes(t, j), NEW s \in Sessions!Strands, NEW l \in Lives,
           \A q \in Sessions!Strands : q # s => j.lease[q].live = tools[t].lease[q].live
    PROVE  /\ j.lease[s].live = tools[t].lease[s].live => Leased(tools') = Leased(tools)
           /\ tools[t].lease[s].live = l /\ j.lease[s].live \notin Lives =>
                Leased(tools') = Leased(tools) \ {<<<<t, s>>, l>>}
           /\ tools[t].lease[s].live \notin Lives /\ j.lease[s].live = l =>
                Leased(tools') = Leased(tools) \cup {<<<<t, s>>, l>>}
<1>1. tools'[t] = j /\ \A u \in Borrowers : u # t => tools'[u] = tools[u]
  BY OneTool
<1>2. ASSUME NEW u \in Borrowers, NEW q \in Sessions!Strands, u # t \/ q # s
      PROVE  tools'[u].lease[q].live = tools[u].lease[q].live
  BY <1>1, <1>2
<1>3. \A h \in Holders \X Lives :
        \E u \in Borrowers, q \in Sessions!Strands, m \in Lives : h = <<<<u, q>>, m>>
  BY DEF Holders
<1>4. ASSUME NEW u \in Borrowers, NEW q \in Sessions!Strands, NEW m \in Lives
      PROVE  /\ <<<<u, q>>, m>> \in Leased(tools) <=> tools[u].lease[q].live = m
             /\ <<<<u, q>>, m>> \in Leased(tools') <=> tools'[u].lease[q].live = m
             /\ <<<<u, q>>, m>> = <<<<t, s>>, l>> <=> u = t /\ q = s /\ m = l
  BY LeaseOf
<1>5. Leased(tools) \subseteq Holders \X Lives /\ Leased(tools') \subseteq Holders \X Lives
  BY DEF Leased
<1>6. CASE j.lease[s].live = tools[t].lease[s].live
  <2>1. \A u \in Borrowers, q \in Sessions!Strands :
          tools'[u].lease[q].live = tools[u].lease[q].live
    BY <1>1, <1>2, <1>6
  <2>2. \A h \in Holders \X Lives : h \in Leased(tools') <=> h \in Leased(tools)
    <3>1. ASSUME NEW u \in Borrowers, NEW q \in Sessions!Strands, NEW m \in Lives
          PROVE  <<<<u, q>>, m>> \in Leased(tools') <=> <<<<u, q>>, m>> \in Leased(tools)
      BY <1>4, <2>1
    <3>2. ASSUME NEW h \in Holders \X Lives PROVE h \in Leased(tools') <=> h \in Leased(tools)
      <4>1. PICK u \in Borrowers, q \in Sessions!Strands, m \in Lives : h = <<<<u, q>>, m>>
        BY <1>3
      <4> QED
        BY <3>1, <4>1
    <3> QED
      BY <3>2
  <2>3. Leased(tools') = Leased(tools)
    BY <1>5, <2>2
  <2> QED
    BY <1>6, <2>3
<1>7. ASSUME tools[t].lease[s].live = l, j.lease[s].live \notin Lives
      PROVE  Leased(tools') = Leased(tools) \ {<<<<t, s>>, l>>}
  <2>1. ASSUME NEW u \in Borrowers, NEW q \in Sessions!Strands, NEW m \in Lives
        PROVE  <<<<u, q>>, m>> \in Leased(tools')
                 <=> <<<<u, q>>, m>> \in Leased(tools) /\ <<<<u, q>>, m>> # <<<<t, s>>, l>>
    <3>1. CASE u = t /\ q = s
      BY <1>1, <1>4, <1>7, <3>1
    <3>2. CASE u # t \/ q # s
      BY <1>2, <1>4, <3>2
    <3> QED
      BY <3>1, <3>2
  <2>2. \A h \in Holders \X Lives :
          h \in Leased(tools') <=> h \in Leased(tools) /\ h # <<<<t, s>>, l>>
    <3>1. ASSUME NEW h \in Holders \X Lives
          PROVE  h \in Leased(tools') <=> h \in Leased(tools) /\ h # <<<<t, s>>, l>>
      <4>1. PICK u \in Borrowers, q \in Sessions!Strands, m \in Lives : h = <<<<u, q>>, m>>
        BY <1>3
      <4> QED
        BY <2>1, <4>1
    <3> QED
      BY <3>1
  <2> QED
    BY <1>5, <2>2
<1>8. ASSUME tools[t].lease[s].live \notin Lives, j.lease[s].live = l
      PROVE  Leased(tools') = Leased(tools) \cup {<<<<t, s>>, l>>}
  <2>1. ASSUME NEW u \in Borrowers, NEW q \in Sessions!Strands, NEW m \in Lives
        PROVE  <<<<u, q>>, m>> \in Leased(tools')
                 <=> <<<<u, q>>, m>> \in Leased(tools) \/ <<<<u, q>>, m>> = <<<<t, s>>, l>>
    <3>1. CASE u = t /\ q = s
      BY <1>1, <1>4, <1>8, <3>1
    <3>2. CASE u # t \/ q # s
      BY <1>2, <1>4, <3>2
    <3> QED
      BY <3>1, <3>2
  <2>2. \A h \in Holders \X Lives :
          h \in Leased(tools') <=> h \in Leased(tools) \/ h = <<<<t, s>>, l>>
    <3>1. ASSUME NEW h \in Holders \X Lives
          PROVE  h \in Leased(tools') <=> h \in Leased(tools) \/ h = <<<<t, s>>, l>>
      <4>1. PICK u \in Borrowers, q \in Sessions!Strands, m \in Lives : h = <<<<u, q>>, m>>
        BY <1>3
      <4> QED
        BY <2>1, <4>1
    <3> QED
      BY <3>1
  <2>3. <<<<t, s>>, l>> \in Holders \X Lives
    BY DEF Holders
  <2> QED
    BY <1>5, <2>2, <2>3
<1> QED
  BY <1>6, <1>7, <1>8

(* A tool's step that follows the leases keeps the invariant.              *)
LEMMA ToolSteps ==
    ASSUME SharesInv, NEW t \in Borrowers, NEW j, JobOk(j), ToolGoes(t, j),
           Shared(sessions', lives', Leased(tools')), PinsAreReady(lives', pinned'),
           \A l \in Lives : lives[l].at = "ready" => lives'[l].at \in {"ready", "free"},
           \A s \in Sessions!Strands :
               j.lease[s].at = "held" => lives[j.lease[s].live].at = "ready"
    PROVE  SharesInv'
<1>1. tools' \in [Borrowers -> Jobs] /\ \A u \in Borrowers : JobOk(tools'[u])
  BY SharesParts, OneTool DEF JobOk
<1>2. ASSUME NEW u \in Borrowers, NEW s \in Sessions!Strands, tools'[u].lease[s].at = "held"
      PROVE  lives'[tools'[u].lease[s].live].at = "ready"
  <2>1. PICK l \in Lives : l = tools'[u].lease[s].live
    BY <1>1, <1>2, JobShape
  <2>2. lives[l].at = "ready"
    <3>1. CASE u = t
      BY <1>2, <2>1, <3>1, SharesParts, OneTool
    <3>2. CASE u # t
      <4>1. tools'[u] = tools[u]
        BY <3>2, SharesParts, OneTool
      <4> QED
        BY <1>2, <2>1, <4>1, SharesParts DEF HeldAreReady
    <3> QED
      BY <3>1, <3>2
  <2>3. lives'[l].at # "free"
    <3>0. <<u, s>> \in Holders /\ (<<<<u, s>>, l>> \in Leased(tools') <=> tools'[u].lease[s].live = l)
      BY LeaseOf
    <3>1. <<u, s>> \in Holders /\ <<<<u, s>>, l>> \in Leased(tools')
      BY <2>1, <3>0
    <3> QED
      BY <3>1, LeasedLives
  <2> QED
    BY <2>1, <2>2, <2>3
<1>3. HeldAreReady(lives', tools')
  BY <1>2 DEF HeldAreReady
<1> QED
  BY <1>1, <1>3 DEF SharesInv

-----------------------------------------------------------------------------
(* Acquiring and letting go.                                               *)

LEMMA TwoFree ==
    ASSUME SessFit, Sessions!Roomy
    PROVE  \E a, b \in Lives : a # b /\ lives[a].at = "free" /\ lives[b].at = "free"
<1>1. PICK S : S = {l \in Lives : lives[l].at = "free"}
  OBVIOUS
<1>2. IsFiniteSet(S) /\ Cardinality(S) >= 2
  BY <1>1, FS_Subset, SessCardinality DEF SessFit, Sessions!Roomy
<1>3. S # {}
  BY <1>2, FS_EmptySet
<1>4. PICK a : a \in S
  BY <1>3
<1>5. S # {a}
  <2> SUFFICES ASSUME S = {a} PROVE FALSE
    OBVIOUS
  <2>1. Cardinality({a}) = 1
    BY FS_Singleton
  <2> QED
    BY <1>2, <2>1
<1> QED
  BY <1>1, <1>4, <1>5

ReadyStay(lv, lv2) ==
    \A l \in Lives : lv[l].at = "ready" => lv2[l].at = "ready" /\ lv2[l].key = lv[l].key

LEMMA PinsKept ==
    ASSUME NEW lv, NEW lv2, NEW pins, PinsAreReady(lv, pins), ReadyStay(lv, lv2)
    PROVE  PinsAreReady(lv2, pins)
BY DEF PinsAreReady, ReadyStay

AcquiredNow(t, s, st, k) ==
    /\ st.of[k] \in Lives
    /\ Shared(st.of, st.lives, Leased(tools) \cup {<<<<t, s>>, st.of[k]>>})
    /\ PinsAreReady(st.lives, pinned)
    /\ \A l \in Lives : lives[l].at = "ready" => st.lives[l].at = "ready"
    /\ \E l \in Lives : st.lives[l].at = "free"

LEMMA AcquiresNow ==
    ASSUME SessFit, SharesInv, NEW k \in Sessions!Keys, NEW t \in Borrowers,
           NEW s \in Sessions!Strands, tools[t].lease[s].live \notin Lives, Sessions!Roomy,
           NEW st, st = Sessions!AcquiredIn(Sessions!Now, k)
    PROVE  AcquiredNow(t, s, st, k)
<1>1. <<t, s>> \in Holders /\ \A l \in Lives : <<<<t, s>>, l>> \notin Leased(tools)
  <2>1. ASSUME NEW l \in Lives PROVE <<<<t, s>>, l>> \notin Leased(tools)
    <3>1. <<<<t, s>>, l>> \in Leased(tools) <=> tools[t].lease[s].live = l
      BY LeaseOf
    <3> QED
      BY <3>1
  <2>2. <<t, s>> \in Holders
    BY DEF Holders
  <2> QED
    BY <2>1, <2>2
<1>2. PICK a \in Lives, b \in Lives : a # b /\ lives[a].at = "free" /\ lives[b].at = "free"
  BY TwoFree
<1>3. st = Sessions!AcquiredIn([of |-> sessions, lives |-> lives], k)
  BY DEF Sessions!Now
<1>4. /\ st.of[k] \in Lives /\ Shared(st.of, st.lives, Leased(tools) \cup {<<<<t, s>>, st.of[k]>>})
      /\ \A l \in Lives : lives[l].at # "free" =>
           st.lives[l].at = lives[l].at /\ st.lives[l].key = lives[l].key
      /\ \A l \in Lives : l # st.of[k] => st.lives[l] = lives[l]
  <2>1. PICK x, of, lv, H : x = <<t, s>> /\ of = sessions /\ lv = lives /\ H = Leased(tools)
    OBVIOUS
  <2>2. SessFit /\ Shared(of, lv, H) /\ k \in Sessions!Keys /\ x \in Holders
        /\ (\A l \in Lives : <<x, l>> \notin H) /\ \E l \in Lives : lv[l].at = "free"
    BY <1>1, <1>2, <2>1, SharesParts
  <2>3. st = Sessions!AcquiredIn([of |-> of, lives |-> lv], k)
    BY <1>3, <2>1
  <2>4. AcquiredBy(of, lv, H, k, x, st)
    BY ONLY <2>2, <2>3, Acquires
  <2> QED
    BY <2>1, <2>4 DEF AcquiredBy
<1>5. \E l \in Lives : st.lives[l].at = "free"
  BY <1>2, <1>4
<1>6. PinsAreReady(st.lives, pinned)
  <2>1. PinsAreReady(lives, pinned)
    BY SharesParts
  <2>2. PICK lv : lv = st.lives
    OBVIOUS
  <2>3. ReadyStay(lives, lv)
    BY <1>4, <2>2 DEF ReadyStay
  <2>4. PinsAreReady(lv, pinned)
    BY <2>1, <2>3, PinsKept
  <2> QED
    BY <2>2, <2>4
<1> QED
  BY <1>4, <1>5, <1>6 DEF AcquiredNow

LEMMA Releases ==
    ASSUME SessFit, SharesInv, NEW t \in Borrowers, NEW s \in Sessions!Strands, NEW l \in Lives,
           tools[t].lease[s].live = l, lives[l].at = "ready", Sessions!Released(l)
    PROVE  /\ Shared(sessions', lives', Leased(tools) \ {<<<<t, s>>, l>>})
           /\ PinsAreReady(lives', pinned')
           /\ \A m \in Lives : lives[m].at = "ready" => lives'[m].at \in {"ready", "free"}
<1>1. <<t, s>> \in Holders /\ <<<<t, s>>, l>> \in Leased(tools)
  BY LeaseOf
<1>2. Shared(sessions, lives, Leased(tools)) /\ DOMAIN lives = Lives
  BY SharesParts
<1>3. PICK r : /\ lives[l].owners = 1 => r = Sessions!Free
               /\ lives[l].owners # 1 => r = [lives[l] EXCEPT !.owners = lives[l].owners - 1]
  <2>1. CASE lives[l].owners = 1
    BY <2>1
  <2>2. CASE lives[l].owners # 1
    BY <2>2
  <2> QED
    BY <2>1, <2>2
<1>4. PICK lv2, of2, p2 : lv2 = lives' /\ of2 = sessions' /\ p2 = pinned'
  OBVIOUS
<1>5. /\ lv2 = [lives EXCEPT ![l] = r]
      /\ \/ of2 = sessions /\ lives[l].owners # 1
         \/ /\ of2 = [k \in Sessions!Keys |-> IF sessions[k] = l THEN NoLive ELSE sessions[k]]
            /\ lives[l].owners = 1 \/ lives[l].at = "failed"
      /\ p2 = IF lives[l].owners = 1 THEN pinned \ {lives[l].key[1]} ELSE pinned
  <2>1. CASE lives[l].owners = 1
    BY <1>3, <1>4, <2>1 DEF Sessions!Released, Sessions!LastOwner, Sessions!Forget
  <2>2. CASE lives[l].owners # 1
    BY <1>3, <1>4, <2>2 DEF Sessions!Released, Sessions!LastOwner
  <2> QED
    BY <2>1, <2>2
<1>6. /\ Shared(of2, lv2, Leased(tools) \ {<<<<t, s>>, l>>})
      /\ lv2[l].at \in {lives[l].at, "free"} /\ (lv2[l].at = "free" <=> lives[l].owners = 1)
      /\ lv2[l].at # "free" => lv2[l].key = lives[l].key
      /\ \A m \in Lives \ {l} : lv2[m] = lives[m]
  <2>1. PICK x, H, of, lv : x = <<t, s>> /\ H = Leased(tools) /\ of = sessions /\ lv = lives
    OBVIOUS
  <2>2. LessOwned(lives, l, r)
    BY <1>3 DEF LessOwned
  <2>3. LetGo(of, lv, of2, lv2, l)
    BY <1>5, <2>1, <2>2 DEF LetGo
  <2>5. Shared(of, lv, H) /\ x \in Holders /\ <<x, l>> \in H /\ SessFit /\ l \in Lives
    BY <1>1, <1>2, <2>1
  <2>6. Shared(of2, lv2, H \ {<<x, l>>}) /\ OneOwnerLess(lv, lv2, l)
    BY ONLY <2>3, <2>5, LetsGo
  <2> QED
    BY <2>1, <2>6 DEF OneOwnerLess
<1>7. PinsAreReady(lv2, p2)
  <2> SUFFICES ASSUME NEW m \in p2 PROVE \E n \in Lives : lv2[n].at = "ready" /\ lv2[n].key[1] = m
    BY DEF PinsAreReady
  <2>1. m \in pinned
    BY <1>5
  <2>2. PICK n \in Lives : lives[n].at = "ready" /\ lives[n].key[1] = m
    BY <2>1, SharesParts DEF PinsAreReady
  <2>3. CASE n # l
    BY <1>6, <2>2, <2>3
  <2>4. CASE n = l
    <3>1. lives[l].owners # 1
      BY <1>5, <2>2, <2>4
    <3> QED
      BY <1>6, <2>2, <2>4, <3>1
  <2> QED
    BY <2>3, <2>4
<1>8. \A m \in Lives : lives[m].at = "ready" => lv2[m].at \in {"ready", "free"}
  BY <1>6
<1> QED
  BY <1>4, <1>6, <1>7, <1>8

-----------------------------------------------------------------------------
(* Loading.                                                                *)

(* A session that loads changes, and nothing else that is shared.          *)
LEMMA LoadsOn ==
    ASSUME SharesInv, NEW l \in Lives, lives[l].at # "ready", LifeGoesOn(lives, lives', l),
           UNCHANGED <<sessions, pinned, tools>>
    PROVE  SharesInv'
<1>1. PICK lv, lv2 : lv = lives /\ lv2 = lives'
  OBVIOUS
<1>2. Shared(sessions, lv, Leased(tools)) /\ LifeGoesOn(lv, lv2, l) /\ PinsAreReady(lv, pinned)
      /\ HeldAreReady(lv, tools)
  BY <1>1, SharesParts
<1>3. Shared(sessions, lv2, Leased(tools))
  BY <1>2, GoesOn
<1>4. ReadyStay(lv, lv2)
  BY <1>1, <1>2 DEF ReadyStay, LifeGoesOn
<1>5. PinsAreReady(lv2, pinned)
  BY <1>2, <1>4, PinsKept
<1>6. HeldAreReady(lv2, tools)
  <2> SUFFICES ASSUME NEW t \in Borrowers, NEW s \in Sessions!Strands, tools[t].lease[s].at = "held"
               PROVE  lv2[tools[t].lease[s].live].at = "ready"
    BY DEF HeldAreReady
  <2>1. JobOk(tools[t]) /\ lv[tools[t].lease[s].live].at = "ready"
    BY <1>2, SharesParts DEF HeldAreReady
  <2>2. tools[t].lease[s].live \in Lives
    <3>1. tools[t].lease[s].live \in Lives \cup {NoLive} /\ tools[t].lease[s].live # NoLive
      BY <2>1, JobShape
    <3> QED
      BY <3>1
  <2> QED
    BY <1>4, <2>1, <2>2 DEF ReadyStay
<1>7. tools \in [Borrowers -> Jobs] /\ \A t \in Borrowers : JobOk(tools[t])
  BY SharesParts
<1>8. sessions' = sessions /\ pinned' = pinned /\ tools' = tools
  OBVIOUS
<1> QED
  BY <1>1, <1>3, <1>5, <1>6, <1>7, <1>8 DEF SharesInv

LEMMA StageTo ==
    ASSUME SharesInv, NEW l \in Lives, lives[l].at \notin {"free", "failed", "ready"},
           NEW a \in Stages \ {"free"}, a \in {"put", "evict", "create", "ready"} => lives[l].bytes = "good",
           Sessions!To(l, a), UNCHANGED <<sessions, pinned, tools>>
    PROVE  SharesInv'
<1>1. PICK r : r = [lives[l] EXCEPT !.at = a]
  OBVIOUS
<1>2. LifeOk(lives[l]) /\ DOMAIN lives = Lives
  BY SharesParts
<1>3. LifeOk(r) /\ r.key = lives[l].key /\ r.owners = lives[l].owners
  BY <1>1, <1>2 DEF LifeOk, LifeFields
<1>4. PICK lv2 : lv2 = [lives EXCEPT ![l] = r]
  OBVIOUS
<1>5. lives' = lv2
  BY <1>1, <1>4 DEF Sessions!To
<1>6. DOMAIN lv2 = Lives /\ lv2[l] = r /\ \A m \in Lives \ {l} : lv2[m] = lives[m]
  BY <1>2, <1>4
<1>7. LifeGoesOn(lives, lives', l)
  BY <1>2, <1>3, <1>5, <1>6 DEF LifeGoesOn
<1> QED
  BY <1>7, LoadsOn

LEMMA SharesMatch == ASSUME SharesInv, NEW l \in Lives, Sessions!Match(l) PROVE SharesInv'
<1>1. lives[l].at = "match" /\ UNCHANGED <<sessions, pinned, tools>>
  BY DEF Sessions!Match, Sessions!Loads, Sessions!loading
<1>2. CASE Sessions!To(l, "fetch")
  BY <1>1, <1>2, StageTo DEF Stages
<1>3. ASSUME NEW hit, hit = "good", lives' = [lives EXCEPT ![l].at = "create", ![l].bytes = hit]
      PROVE  SharesInv'
  <2>1. PICK r : r = [lives[l] EXCEPT !.at = "create", !.bytes = hit]
    OBVIOUS
  <2>2. LifeOk(lives[l]) /\ DOMAIN lives = Lives
    BY SharesParts
  <2>3. LifeOk(r) /\ r.key = lives[l].key /\ r.owners = lives[l].owners
    BY <1>1, <1>3, <2>1, <2>2 DEF LifeOk, LifeFields, Stages
  <2>4. PICK lv2 : lv2 = [lives EXCEPT ![l] = r]
    OBVIOUS
  <2>5. lives' = lv2
    BY <1>3, <2>1, <2>2, <2>4
  <2>6. DOMAIN lv2 = Lives /\ lv2[l] = r /\ \A m \in Lives \ {l} : lv2[m] = lives[m]
    BY <2>2, <2>4
  <2>7. LifeGoesOn(lives, lives', l)
    BY <1>1, <2>2, <2>3, <2>5, <2>6 DEF LifeGoesOn
  <2> QED
    BY <1>1, <2>7, LoadsOn
<1> QED
  BY <1>2, <1>3 DEF Sessions!Match, Sessions!verify

LEMMA SharesDownload == ASSUME SharesInv, NEW l \in Lives, Sessions!download(l) PROVE SharesInv'
<1>1. lives[l].at = "fetch" /\ UNCHANGED <<sessions, pinned, tools>>
  BY DEF Sessions!download, Sessions!Loads, Sessions!loading
<1>2. CASE Sessions!To(l, "failed")
  BY <1>1, <1>2, StageTo DEF Stages
<1>3. ASSUME NEW bytes, bytes = "good", Sessions!reserveBudget(l, bytes) PROVE SharesInv'
  <2>1. PICK live : live = [lives[l] EXCEPT !.bytes = bytes]
    OBVIOUS
  <2>2. LifeOk(lives[l]) /\ DOMAIN lives = Lives
    BY SharesParts
  <2>3. PICK r : /\ lives' = [lives EXCEPT ![l] = r]
                 /\ \/ r = [live EXCEPT !.at = "put"]
                    \/ \E e, w : r = [live EXCEPT !.at = "evict", !.saw = w, !.evict = e]
    BY <1>3, <2>1 DEF Sessions!reserveBudget
  <2>4. DOMAIN live = LifeFields /\ live.bytes = "good" /\ live.key = lives[l].key
        /\ live.owners = lives[l].owners /\ live.at = "fetch"
    BY <1>1, <1>3, <2>1, <2>2 DEF LifeOk, LifeFields
  <2>5. LifeOk(r) /\ r.key = lives[l].key /\ r.owners = lives[l].owners
    <3>1. lives[l].owners \in Nat /\ lives[l].owners # 0 /\ lives[l].key \in Sessions!Keys
      BY <1>1, <2>2 DEF LifeOk
    <3>2. CASE r = [live EXCEPT !.at = "put"]
      BY <2>4, <3>1, <3>2 DEF LifeOk, LifeFields, Stages
    <3>3. ASSUME NEW e, NEW w, r = [live EXCEPT !.at = "evict", !.saw = w, !.evict = e]
          PROVE  LifeOk(r) /\ r.key = lives[l].key /\ r.owners = lives[l].owners
      BY <2>4, <3>1, <3>3 DEF LifeOk, LifeFields, Stages
    <3> QED
      BY <2>3, <3>2, <3>3
  <2>6. PICK lv2 : lv2 = [lives EXCEPT ![l] = r]
    OBVIOUS
  <2>7. DOMAIN lv2 = Lives /\ lv2[l] = r /\ \A m \in Lives \ {l} : lv2[m] = lives[m]
    BY <2>2, <2>6
  <2>8. LifeGoesOn(lives, lives', l)
    BY <1>1, <2>2, <2>3, <2>5, <2>6, <2>7 DEF LifeGoesOn
  <2> QED
    BY <1>1, <2>8, LoadsOn
<1> QED
  BY <1>2, <1>3 DEF Sessions!download, Sessions!verify

LEMMA SharesDrop == ASSUME SharesInv, NEW l \in Lives, Sessions!dropFromCache(l) PROVE SharesInv'
<1>1. lives[l].at = "evict" /\ UNCHANGED <<sessions, pinned, tools>>
  BY DEF Sessions!dropFromCache, Sessions!Loads, Sessions!loading
<1>2. PICK a \in {"put", "create"} :
        lives' = [lives EXCEPT ![l].at = a, ![l].evict = {}, ![l].saw = <<>>]
  <2>1. PICK b : lives' = [lives EXCEPT ![l].at = IF b THEN "put" ELSE "create",
                                        ![l].evict = {}, ![l].saw = <<>>]
    BY DEF Sessions!dropFromCache
  <2>2. PICK a : a = IF b THEN "put" ELSE "create"
    OBVIOUS
  <2>3. a \in {"put", "create"} /\ lives' = [lives EXCEPT ![l].at = a, ![l].evict = {}, ![l].saw = <<>>]
    BY <2>1, <2>2
  <2> QED
    BY <2>3
<1>3. PICK r : r = [lives[l] EXCEPT !.at = a, !.evict = {}, !.saw = <<>>]
  OBVIOUS
<1>4. LifeOk(lives[l]) /\ DOMAIN lives = Lives
  BY SharesParts
<1>5. LifeOk(r) /\ r.key = lives[l].key /\ r.owners = lives[l].owners
  BY <1>1, <1>3, <1>4 DEF LifeOk, LifeFields, Stages
<1>6. PICK lv2 : lv2 = [lives EXCEPT ![l] = r]
  OBVIOUS
<1>7. lives' = lv2
  BY <1>2, <1>3, <1>4, <1>6
<1>8. DOMAIN lv2 = Lives /\ lv2[l] = r /\ \A m \in Lives \ {l} : lv2[m] = lives[m]
  BY <1>4, <1>6
<1>9. LifeGoesOn(lives, lives', l)
  BY <1>1, <1>4, <1>5, <1>7, <1>8 DEF LifeGoesOn
<1> QED
  BY <1>1, <1>9, LoadsOn

LEMMA SharesPut == ASSUME SharesInv, NEW l \in Lives, Sessions!Put(l) PROVE SharesInv'
<1>1. lives[l].at = "put" /\ Sessions!To(l, "create") /\ UNCHANGED <<sessions, pinned, tools>>
  BY DEF Sessions!Put, Sessions!Loads, Sessions!loading
<1>2. lives[l].bytes = "good"
  BY <1>1, SharesParts DEF LifeOk
<1> QED
  BY <1>1, <1>2, StageTo DEF Stages

LEMMA SharesCreate == ASSUME SharesInv, NEW l \in Lives, Sessions!createSession(l) PROVE SharesInv'
<1>1. lives[l].at = "create" /\ UNCHANGED <<sessions, pinned, tools>>
  BY DEF Sessions!createSession, Sessions!Loads, Sessions!loading
<1>2. lives[l].bytes = "good"
  BY <1>1, SharesParts DEF LifeOk
<1>3. PICK a \in {"ready", "failed"} : Sessions!To(l, a)
  BY DEF Sessions!createSession
<1> QED
  BY <1>1, <1>2, <1>3, StageTo DEF Stages

-----------------------------------------------------------------------------
(* The tools.                                                              *)

LeaseFits(L) == L \in Leases /\ (L.live # NoLive <=> L.at \in {"waits", "held"})

(* A lease of a tool at work turns into another.                           *)
Turns(j, s, L, q) ==
    /\ j.job # "none" /\ LeaseFits(L)
    /\ j.job = "model" /\ s = "second" /\ j.at # "falls" => L.live = NoLive
    /\ s = "first" /\ j.at = "falls" => L.at = "held"
    /\ j.job = "abandoned" /\ j.lease[s].at = "failed" => L.at = "failed"
    /\ q = [j EXCEPT !.lease = [j.lease EXCEPT ![s] = L]]

Turned(j, s, L, q) ==
    /\ q.lease[s] = L /\ \A u \in Sessions!Strands \ {s} : q.lease[u] = j.lease[u]
    /\ q.job = j.job /\ q.at = j.at

LEMMA LeaseTurns ==
    ASSUME NEW j, JobOk(j), NEW s \in Sessions!Strands, NEW L, NEW q, Turns(j, s, L, q)
    PROVE  JobOk(q) /\ Turned(j, s, L, q)
<1> USE DEF Turns, Turned
<1>1. j \in Jobs /\ j.lease \in [Sessions!Strands -> Leases]
  BY DEF JobOk, Jobs
<1>2. PICK f : f = [j.lease EXCEPT ![s] = L]
  OBVIOUS
<1>3. f \in [Sessions!Strands -> Leases] /\ f[s] = L
      /\ \A u \in Sessions!Strands \ {s} : f[u] = j.lease[u]
  BY <1>1, <1>2 DEF LeaseFits
<1>4. q.lease = f /\ q.job = j.job /\ q.at = j.at /\ q \in Jobs
  BY <1>1, <1>2, <1>3 DEF Jobs
<1>5. "first" \in Sessions!Strands /\ "second" \in Sessions!Strands
      /\ \A u \in Sessions!Strands : u = "first" \/ u = "second"
  BY DEF Sessions!Strands
<1>6. \A u \in Sessions!Strands : f[u].live # NoLive <=> f[u].at \in {"waits", "held"}
  BY <1>3 DEF JobOk, LeaseFits
<1>7. JobOk(q)
  <2>1. q.job = "model" /\ q.at # "falls" => f["second"].live = NoLive
    BY <1>3, <1>4, <1>5 DEF JobOk
  <2>2. q.at = "falls" => f["first"].at = "held" /\ q.job = "model"
    BY <1>3, <1>4, <1>5 DEF JobOk
  <2>3. q.job = "abandoned" => "failed" \in {f["first"].at, f["second"].at}
    BY <1>3, <1>4, <1>5 DEF JobOk
  <2> QED
    BY <1>4, <1>6, <2>1, <2>2, <2>3 DEF JobOk
<1> QED
  BY <1>3, <1>4, <1>7

LEMMA IdleOk ==
    /\ JobOk(Sessions!Idle)
    /\ \A s \in Sessions!Strands : Sessions!Idle.lease[s].live = NoLive
                                   /\ Sessions!Idle.lease[s].at = "none"
BY DEF JobOk, Jobs, Leases, Sessions!Idle, Sessions!NoLease, Sessions!Strands

LEMMA SharesAcquire ==
    ASSUME SessFit, SharesInv, NEW t \in Borrowers, NEW s \in Sessions!Strands,
           Sessions!acquireOrtSession(t, s)
    PROVE  SharesInv'
<1>1. PICK l : l = tools[t].lease[s].live
  OBVIOUS
<1>2. tools[t].lease[s].at = "waits" /\ JobOk(tools[t]) /\ tools[t] \in Jobs
  BY SharesParts, JobShape DEF Sessions!acquireOrtSession
<1>3. l \in Lives
  BY <1>1, <1>2, JobShape
<1>4. tools[t].job # "none"
  BY <1>2, IdleOk DEF JobOk
<1>5. ~ (s = "first" /\ tools[t].at = "falls")
  BY <1>2 DEF JobOk
<1>6. ~ (tools[t].job = "model" /\ s = "second" /\ tools[t].at # "falls")
  BY <1>2 DEF JobOk, Sessions!Strands
<1>7. <<t, s>> \in Holders /\ <<<<t, s>>, l>> \in Leased(tools)
  BY <1>1, <1>3, LeaseOf
<1>8. Shared(sessions, lives, Leased(tools)) /\ DOMAIN lives = Lives /\ PinsAreReady(lives, pinned)
      /\ tools \in [Borrowers -> Jobs]
  BY SharesParts
<1>9. CASE /\ lives[l].at = "ready" /\ pinned' = pinned \cup {lives[l].key[1]}
           /\ tools' = [tools EXCEPT ![t].lease[s].at = "held"] /\ UNCHANGED <<sessions, lives>>
  <2>1. PICK L : L = [tools[t].lease[s] EXCEPT !.at = "held"]
    OBVIOUS
  <2>2. PICK f : f = [tools[t].lease EXCEPT ![s] = L]
    OBVIOUS
  <2>3. PICK q : q = [tools[t] EXCEPT !.lease = f]
    OBVIOUS
  <2>4. LeaseFits(L) /\ L.at = "held" /\ L.live = l
    <3>1. tools[t].lease[s] \in Leases
      BY <1>2, JobShape
    <3>2. L \in Leases /\ L.live = l /\ L.at = "held"
      BY <1>1, <2>1, <3>1 DEF Leases
    <3> QED
      BY <1>3, <3>2 DEF LeaseFits, SessFit
  <2>5. JobOk(q) /\ q.lease[s] = L /\ \A u \in Sessions!Strands \ {s} : q.lease[u] = tools[t].lease[u]
    <3>1. PICK j : j = tools[t]
      OBVIOUS
    <3>2. Turns(j, s, L, q) /\ JobOk(j)
      BY <1>2, <1>4, <1>5, <1>6, <2>2, <2>3, <2>4, <3>1 DEF Turns
    <3>3. JobOk(q) /\ Turned(j, s, L, q)
      BY <3>2, LeaseTurns
    <3> QED
      BY <3>1, <3>3 DEF Turned
  <2>6. ToolGoes(t, q)
    BY <1>9, <2>1, <2>2, <2>3 DEF ToolGoes
  <2>7. Leased(tools') = Leased(tools)
    BY <1>1, <1>3, <1>8, <2>4, <2>5, <2>6, LeasesMove
  <2>8. PinsAreReady(lives', pinned')
    BY <1>3, <1>8, <1>9 DEF PinsAreReady
  <2>9. \A u \in Sessions!Strands : q.lease[u].at = "held" => lives[q.lease[u].live].at = "ready"
    BY <1>9, <2>4, <2>5, SharesParts DEF HeldAreReady
  <2>10. Shared(sessions', lives', Leased(tools'))
         /\ \A m \in Lives : lives[m].at = "ready" => lives'[m].at \in {"ready", "free"}
    BY <1>8, <1>9, <2>7
  <2> QED
    BY <2>5, <2>6, <2>8, <2>9, <2>10, ToolSteps
<1>10. CASE /\ lives[l].at = "failed"
            /\ lives' = [lives EXCEPT ![l] = IF Sessions!LastOwner(l) THEN Sessions!Free
                                             ELSE [lives[l] EXCEPT !.owners = lives[l].owners - 1]]
            /\ sessions' = Sessions!Forget(l)
            /\ tools' = [tools EXCEPT ![t].lease[s] = [Sessions!NoLease EXCEPT !.at = "failed"]]
            /\ UNCHANGED pinned
  <2>1. PICK L : L = [Sessions!NoLease EXCEPT !.at = "failed"]
    OBVIOUS
  <2>2. PICK f : f = [tools[t].lease EXCEPT ![s] = L]
    OBVIOUS
  <2>3. PICK q : q = [tools[t] EXCEPT !.lease = f]
    OBVIOUS
  <2>4. LeaseFits(L) /\ L.at = "failed" /\ L.live = NoLive
    BY <2>1 DEF LeaseFits, Leases, Sessions!NoLease
  <2>5. JobOk(q) /\ q.lease[s] = L /\ \A u \in Sessions!Strands \ {s} : q.lease[u] = tools[t].lease[u]
    <3>1. PICK j : j = tools[t]
      OBVIOUS
    <3>2. Turns(j, s, L, q) /\ JobOk(j)
      BY <1>2, <1>4, <1>5, <1>6, <2>2, <2>3, <2>4, <3>1 DEF Turns
    <3>3. JobOk(q) /\ Turned(j, s, L, q)
      BY <3>2, LeaseTurns
    <3> QED
      BY <3>1, <3>3 DEF Turned
  <2>6. ToolGoes(t, q)
    BY <1>10, <2>1, <2>2, <2>3 DEF ToolGoes
  <2>7. Leased(tools') = Leased(tools) \ {<<<<t, s>>, l>>}
    BY <1>1, <1>3, <1>8, <2>4, <2>5, <2>6, LeasesMove DEF SessFit
  <2>8. PICK x, H, of, lv, of2, lv2 : x = <<t, s>> /\ H = Leased(tools) /\ of = sessions /\ lv = lives
                                      /\ of2 = sessions' /\ lv2 = lives'
    OBVIOUS
  <2>9. LetGo(of, lv, of2, lv2, l)
    <3>1. PICK r : r = IF lives[l].owners = 1 THEN Sessions!Free
                       ELSE [lives[l] EXCEPT !.owners = lives[l].owners - 1]
      OBVIOUS
    <3>2. LessOwned(lives, l, r)
      BY <3>1 DEF LessOwned
    <3>3. lives' = [lives EXCEPT ![l] = r]
      BY <1>10, <3>1 DEF Sessions!LastOwner
    <3>4. of2 = [k \in Sessions!Keys |-> IF of[k] = l THEN NoLive ELSE of[k]]
      BY <1>10, <2>8 DEF Sessions!Forget
    <3> QED
      BY <1>10, <2>8, <3>2, <3>3, <3>4 DEF LetGo
  <2>10. Shared(of, lv, H) /\ x \in Holders /\ <<x, l>> \in H /\ SessFit /\ l \in Lives
    BY <1>3, <1>7, <1>8, <2>8
  <2>11. Shared(of2, lv2, H \ {<<x, l>>}) /\ OneOwnerLess(lv, lv2, l)
    BY ONLY <2>9, <2>10, LetsGo
  <2>12. Shared(sessions', lives', Leased(tools'))
    BY <2>7, <2>8, <2>11
  <2>13. ReadyStay(lv, lv2)
    BY <1>10, <2>8, <2>11 DEF ReadyStay, OneOwnerLess
  <2>14. PinsAreReady(lv2, pinned)
    BY <1>8, <2>8, <2>13, PinsKept
  <2>15. \A u \in Sessions!Strands : q.lease[u].at = "held" => lives[q.lease[u].live].at = "ready"
    BY <2>4, <2>5, SharesParts DEF HeldAreReady
  <2>16. PinsAreReady(lives', pinned')
         /\ \A m \in Lives : lives[m].at = "ready" => lives'[m].at \in {"ready", "free"}
    BY <1>10, <2>8, <2>13, <2>14 DEF ReadyStay
  <2> QED
    BY <2>5, <2>6, <2>12, <2>15, <2>16, ToolSteps
<1> QED
  BY <1>1, <1>9, <1>10 DEF Sessions!acquireOrtSession

(* A tool that lets one of its sessions go and keeps its other lease.      *)
LetsOne(t, s, j) ==
    /\ JobOk(j) /\ ToolGoes(t, j) /\ j.lease[s].live = NoLive
    /\ \A u \in Sessions!Strands \ {s} : j.lease[u].live = tools[t].lease[u].live
    /\ \A u \in Sessions!Strands : j.lease[u].at = "held" => lives[j.lease[u].live].at = "ready"

LEMMA LetsOneGo ==
    ASSUME SessFit, SharesInv, NEW t \in Borrowers, NEW s \in Sessions!Strands,
           tools[t].lease[s].at = "held", Sessions!Released(tools[t].lease[s].live),
           NEW j, LetsOne(t, s, j)
    PROVE  SharesInv'
<1>1. PICK l : l = tools[t].lease[s].live
  OBVIOUS
<1>2. l \in Lives /\ lives[l].at = "ready"
  <2>1. JobOk(tools[t]) /\ HeldAreReady(lives, tools)
    BY SharesParts
  <2>2. l \in Lives \cup {NoLive} /\ l # NoLive
    BY <1>1, <2>1, JobShape
  <2> QED
    BY <1>1, <2>1, <2>2 DEF HeldAreReady
<1>3. /\ Shared(sessions', lives', Leased(tools) \ {<<<<t, s>>, l>>})
      /\ PinsAreReady(lives', pinned')
      /\ \A m \in Lives : lives[m].at = "ready" => lives'[m].at \in {"ready", "free"}
  BY <1>1, <1>2, Releases
<1>4. Leased(tools') = Leased(tools) \ {<<<<t, s>>, l>>}
  <2>1. tools \in [Borrowers -> Jobs] /\ ToolGoes(t, j) /\ j.lease[s].live \notin Lives
        /\ \A q \in Sessions!Strands : q # s => j.lease[q].live = tools[t].lease[q].live
    BY SharesParts DEF LetsOne, SessFit
  <2> QED
    BY <1>1, <1>2, <2>1, LeasesMove
<1>5. JobOk(j) /\ ToolGoes(t, j)
      /\ \A u \in Sessions!Strands : j.lease[u].at = "held" => lives[j.lease[u].live].at = "ready"
  BY DEF LetsOne
<1>6. Shared(sessions', lives', Leased(tools'))
  BY <1>3, <1>4
<1> QED
  BY <1>3, <1>5, <1>6, ToolSteps

LEMMA SharesDone == ASSUME SessFit, SharesInv, NEW t \in Borrowers, Sessions!Done(t) PROVE SharesInv'
<1>1. JobOk(tools[t]) /\ tools[t].lease["second"] = Sessions!NoLease
      /\ Sessions!Idle.lease["second"].live = NoLive
  BY SharesParts, IdleOk DEF Sessions!Done, Sessions!Strands
<1>2. ToolGoes(t, Sessions!Idle)
  BY DEF Sessions!Done, Sessions!Over, ToolGoes
<1>3. \A u \in Sessions!Strands : u = "first" \/ u = "second"
  BY DEF Sessions!Strands
<1>4. "first" \in Sessions!Strands
  BY DEF Sessions!Strands
<1>5. CASE tools[t].lease["first"].at = "held" /\ Sessions!Released(tools[t].lease["first"].live)
  <2>1. LetsOne(t, "first", Sessions!Idle)
    BY <1>1, <1>2, <1>3, <1>4, IdleOk DEF LetsOne, Sessions!NoLease
  <2> QED
    BY <1>4, <1>5, <2>1, LetsOneGo
<1>6. CASE tools[t].lease["first"].at = "failed" /\ UNCHANGED <<sessions, lives, pinned>>
  <2>1. tools[t].lease["first"].live = NoLive /\ tools[t].lease["second"].live = NoLive
    BY <1>1, <1>4, <1>6, JobShape DEF Sessions!NoLease
  <2>2. tools' = [tools EXCEPT ![t] = Sessions!Idle] /\ tools \in [Borrowers -> Jobs]
    BY <1>2, SharesParts DEF ToolGoes
  <2>3. Leased(tools') = Leased(tools)
    BY <1>3, <2>1, <2>2, IdleOk DEF Leased, Holders
  <2>4. Shared(sessions', lives', Leased(tools')) /\ PinsAreReady(lives', pinned')
        /\ \A m \in Lives : lives[m].at = "ready" => lives'[m].at \in {"ready", "free"}
    BY <1>6, <2>3, SharesParts
  <2> QED
    BY <1>2, <2>4, IdleOk, ToolSteps
<1> QED
  BY <1>5, <1>6 DEF Sessions!Done

LEMMA SharesOrphaned ==
    ASSUME SessFit, SharesInv, NEW t \in Borrowers, Sessions!Orphaned(t) PROVE SharesInv'
<1>1. JobOk(tools[t]) /\ tools[t].lease["first"].at = "held" /\ tools[t].job = "abandoned"
      /\ Sessions!Released(tools[t].lease["first"].live)
  BY SharesParts DEF Sessions!Orphaned
<1>2. ToolGoes(t, Sessions!Idle)
  BY DEF Sessions!Orphaned, Sessions!Over, ToolGoes
<1>3. "first" \in Sessions!Strands /\ "second" \in Sessions!Strands
      /\ \A u \in Sessions!Strands : u = "first" \/ u = "second"
  BY DEF Sessions!Strands
<1>4. tools[t].lease["second"].at = "failed"
  BY <1>1 DEF JobOk
<1>5. tools[t].lease["second"].live = NoLive
  BY <1>1, <1>3, <1>4, JobShape
<1>6. LetsOne(t, "first", Sessions!Idle)
  BY <1>2, <1>3, <1>5, IdleOk DEF LetsOne
<1> QED
  BY <1>1, <1>3, <1>6, LetsOneGo

LEMMA SharesEncoder ==
    ASSUME SessFit, SharesInv, NEW t \in Borrowers, Sessions!runEncoder(t) PROVE SharesInv'
<1>1. JobOk(tools[t]) /\ tools[t].lease["first"].at = "held" /\ tools[t].job = "select"
      /\ Sessions!Released(tools[t].lease["first"].live)
  BY SharesParts DEF Sessions!runEncoder
<1>2. PICK at \in {"over", "failed"} :
        tools' = [tools EXCEPT ![t].lease["first"] = [Sessions!NoLease EXCEPT !.at = at]]
  BY DEF Sessions!runEncoder
<1>3. PICK L : L = [Sessions!NoLease EXCEPT !.at = at]
  OBVIOUS
<1>4. PICK f : f = [tools[t].lease EXCEPT !["first"] = L]
  OBVIOUS
<1>5. PICK q, j : q = [tools[t] EXCEPT !.lease = f] /\ j = tools[t]
  OBVIOUS
<1>6. "first" \in Sessions!Strands /\ tools[t].at # "falls"
  BY <1>1 DEF Sessions!Strands, JobOk
<1>7. LeaseFits(L) /\ L.live = NoLive /\ L.at \in {"over", "failed"}
  BY <1>3 DEF LeaseFits, Leases, Sessions!NoLease
<1>8. Turns(j, "first", L, q) /\ JobOk(j)
  BY <1>1, <1>4, <1>5, <1>6, <1>7 DEF Turns
<1>9. JobOk(q) /\ Turned(j, "first", L, q)
  BY <1>6, <1>8, LeaseTurns
<1>10. ToolGoes(t, q)
  BY <1>2, <1>3, <1>4, <1>5 DEF ToolGoes
<1>11. LetsOne(t, "first", q)
  BY <1>5, <1>7, <1>9, <1>10, SharesParts DEF LetsOne, Turned, HeldAreReady
<1> QED
  BY <1>1, <1>6, <1>11, LetsOneGo

LEMMA SharesJoin == ASSUME SessFit, SharesInv, NEW t \in Borrowers, Sessions!Join(t) PROVE SharesInv'
<1>1. JobOk(tools[t]) /\ tools[t].job = "select" /\ tools \in [Borrowers -> Jobs]
  BY SharesParts DEF Sessions!Join
<1>2. "first" \in Sessions!Strands /\ "second" \in Sessions!Strands
      /\ \A u \in Sessions!Strands : u = "first" \/ u = "second"
  BY DEF Sessions!Strands
<1>3. CASE /\ tools[t].lease["first"].at = "over" /\ tools[t].lease["second"].at = "held"
           /\ Sessions!Released(tools[t].lease["second"].live) /\ Sessions!Over(t)
  <2>1. tools[t].lease["first"].live = NoLive
    BY <1>1, <1>2, <1>3, JobShape
  <2>2. LetsOne(t, "second", Sessions!Idle)
    BY <1>2, <1>3, <2>1, IdleOk DEF LetsOne, ToolGoes, Sessions!Over
  <2> QED
    BY <1>2, <1>3, <2>2, LetsOneGo
<1>4. ASSUME "failed" \in {tools[t].lease["first"].at, tools[t].lease["second"].at},
             UNCHANGED <<sessions, lives, pinned>>,
             NEW j, JobOk(j), ToolGoes(t, j),
             \A u \in Sessions!Strands : j.lease[u].live = tools[t].lease[u].live,
             \A u \in Sessions!Strands : j.lease[u].at = "held" => tools[t].lease[u].at = "held"
      PROVE  SharesInv'
  <2>1. \A u \in Borrowers : u # t => tools'[u] = tools[u]
    BY <1>1, <1>4, OneTool
  <2>2. tools'[t] = j
    BY <1>1, <1>4, OneTool
  <2>3. Leased(tools') = Leased(tools)
    BY <1>4, <2>1, <2>2 DEF Leased, Holders
  <2>4. Shared(sessions', lives', Leased(tools')) /\ PinsAreReady(lives', pinned')
        /\ \A m \in Lives : lives[m].at = "ready" => lives'[m].at \in {"ready", "free"}
    BY <1>4, <2>3, SharesParts
  <2>5. \A u \in Sessions!Strands : j.lease[u].at = "held" => lives[j.lease[u].live].at = "ready"
    BY <1>4, SharesParts DEF HeldAreReady
  <2> QED
    BY <1>4, <2>4, <2>5, ToolSteps
<1>5. CASE /\ tools[t].lease["first"].at \in {"over", "failed"} /\ tools[t].lease["second"].at = "failed"
           /\ Sessions!Over(t) /\ UNCHANGED <<sessions, lives, pinned>>
  <2>1. tools[t].lease["first"].live = NoLive /\ tools[t].lease["second"].live = NoLive
    BY <1>1, <1>2, <1>5, JobShape
  <2>2. ToolGoes(t, Sessions!Idle)
    BY <1>5 DEF ToolGoes, Sessions!Over
  <2>3. /\ \A u \in Sessions!Strands : Sessions!Idle.lease[u].live = tools[t].lease[u].live
        /\ \A u \in Sessions!Strands : Sessions!Idle.lease[u].at # "held"
    BY <1>2, <2>1, IdleOk
  <2> QED
    BY <1>4, <1>5, <2>2, <2>3, IdleOk
<1>6. CASE /\ "failed" \in {tools[t].lease["first"].at, tools[t].lease["second"].at}
           /\ tools' = [tools EXCEPT ![t].job = "abandoned"] /\ UNCHANGED <<sessions, lives, pinned>>
  <2>1. PICK j : j = [tools[t] EXCEPT !.job = "abandoned"]
    OBVIOUS
  <2>2. ToolGoes(t, j)
    BY <1>6, <2>1 DEF ToolGoes
  <2>3. j \in Jobs /\ j.lease = tools[t].lease /\ j.job = "abandoned" /\ j.at = tools[t].at
    BY <1>1, <2>1 DEF Jobs, JobOk
  <2>4. JobOk(j)
    BY <1>1, <1>6, <2>3 DEF JobOk
  <2> QED
    BY <1>4, <1>6, <2>2, <2>3, <2>4
<1> QED
  BY <1>3, <1>5, <1>6 DEF Sessions!Join

(* A tool that acquires a session for a strand without one.                *)
TakesOne(t, s, l, j) ==
    /\ JobOk(j) /\ ToolGoes(t, j) /\ j.lease[s].live = l /\ j.lease[s].at = "waits"
    /\ \A u \in Sessions!Strands \ {s} :
         j.lease[u].live = tools[t].lease[u].live
         /\ (j.lease[u].at = "held" => tools[t].lease[u].at = "held")

LEMMA TakesOneMore ==
    ASSUME SessFit, SharesInv, NEW k \in Sessions!Keys, NEW t \in Borrowers,
           NEW s \in Sessions!Strands, tools[t].lease[s].live = NoLive, Sessions!Roomy,
           NEW st, st = Sessions!AcquiredIn(Sessions!Now, k), Sessions!Become(st), UNCHANGED pinned,
           NEW j, TakesOne(t, s, st.of[k], j)
    PROVE  SharesInv'
<1>1. tools[t].lease[s].live \notin Lives
  BY DEF SessFit
<1>2. /\ st.of[k] \in Lives
      /\ Shared(st.of, st.lives, Leased(tools) \cup {<<<<t, s>>, st.of[k]>>})
      /\ PinsAreReady(st.lives, pinned)
      /\ \A l \in Lives : lives[l].at = "ready" => st.lives[l].at = "ready"
  <2>1. AcquiredNow(t, s, st, k)
    BY <1>1, AcquiresNow
  <2> QED
    BY <2>1 DEF AcquiredNow
<1>3. PICK l : l = st.of[k]
  OBVIOUS
<1>4. Leased(tools') = Leased(tools) \cup {<<<<t, s>>, l>>}
  <2>1. tools \in [Borrowers -> Jobs] /\ ToolGoes(t, j) /\ j.lease[s].live = l /\ l \in Lives
        /\ \A q \in Sessions!Strands : q # s => j.lease[q].live = tools[t].lease[q].live
    BY <1>2, <1>3, SharesParts DEF TakesOne
  <2> QED
    BY <1>1, <2>1, LeasesMove
<1>5. sessions' = st.of /\ lives' = st.lives /\ pinned' = pinned
  BY DEF Sessions!Become
<1>6. Shared(sessions', lives', Leased(tools')) /\ PinsAreReady(lives', pinned')
      /\ \A m \in Lives : lives[m].at = "ready" => lives'[m].at \in {"ready", "free"}
  BY <1>2, <1>3, <1>4, <1>5
<1>7. JobOk(j) /\ ToolGoes(t, j)
      /\ \A u \in Sessions!Strands : j.lease[u].at = "held" => lives[j.lease[u].live].at = "ready"
  BY SharesParts DEF TakesOne, HeldAreReady
<1> QED
  BY <1>6, <1>7, ToolSteps

(* The session the acquired one is waited for under.                       *)
LEMMA WaitsFits ==
    ASSUME SessFit, NEW st, NEW k, st.of[k] \in Lives
    PROVE  /\ Sessions!Waits(st, k) \in Leases /\ Sessions!Waits(st, k).at = "waits"
           /\ Sessions!Waits(st, k).live = st.of[k] /\ st.of[k] # NoLive
BY DEF Sessions!Waits, Leases, SessFit

LEMMA StrandsTwo ==
    /\ "first" \in Sessions!Strands /\ "second" \in Sessions!Strands
    /\ \A u \in Sessions!Strands : u = "first" \/ u = "second"
BY DEF Sessions!Strands

LEMMA AcquiresLive ==
    ASSUME SessFit, SharesInv, NEW k \in Sessions!Keys, NEW t \in Borrowers,
           NEW s \in Sessions!Strands, tools[t].lease[s].live = NoLive, Sessions!Roomy,
           NEW st, st = Sessions!AcquiredIn(Sessions!Now, k)
    PROVE  st.of[k] \in Lives
<1>1. tools[t].lease[s].live \notin Lives
  BY DEF SessFit
<1>2. AcquiredNow(t, s, st, k)
  BY <1>1, AcquiresNow
<1> QED
  BY <1>2 DEF AcquiredNow

LEMMA SharesBorrow ==
    ASSUME SessFit, SharesInv, NEW t \in Borrowers, NEW m \in Manifest, Sessions!Borrow(t, m)
    PROVE  SharesInv'
<1>1. PICK k : k = <<m, "auto">>
  OBVIOUS
<1>2. PICK st : st = Sessions!AcquiredIn(Sessions!Now, k)
  OBVIOUS
<1>3. k \in Sessions!Keys
  BY <1>1 DEF Sessions!Keys
<1>4. tools[t] = Sessions!Idle /\ Sessions!Roomy /\ Sessions!Become(st) /\ UNCHANGED pinned
      /\ tools' = [tools EXCEPT ![t] = [Sessions!Idle EXCEPT !.job = "model", !.at = "works",
                                              !.lease["first"] = Sessions!Waits(st, k)]]
  BY <1>1, <1>2 DEF Sessions!Borrow
<1>5. tools[t].lease["first"].live = NoLive
  BY <1>4, IdleOk, StrandsTwo
<1>6. st.of[k] \in Lives
  BY <1>2, <1>3, <1>4, <1>5, StrandsTwo, AcquiresLive
<1>7. PICK L : L = Sessions!Waits(st, k)
  OBVIOUS
<1>8. L \in Leases /\ L.at = "waits" /\ L.live = st.of[k] /\ L.live # NoLive
  BY <1>6, <1>7, WaitsFits
<1>9. PICK j : j = [Sessions!Idle EXCEPT !.job = "model", !.at = "works", !.lease["first"] = L]
  OBVIOUS
<1>10. j.job = "model" /\ j.at = "works" /\ j.lease["first"] = L
       /\ j.lease["second"] = Sessions!NoLease /\ j \in Jobs
  BY <1>8, <1>9 DEF Sessions!Idle, Sessions!Strands, Sessions!NoLease, Jobs, Leases
<1>11. JobOk(j)
  BY <1>8, <1>10, StrandsTwo DEF JobOk, Sessions!NoLease
<1>12. ToolGoes(t, j)
  BY <1>4, <1>7, <1>9 DEF ToolGoes
<1>13. TakesOne(t, "first", st.of[k], j)
  BY <1>4, <1>8, <1>10, <1>11, <1>12, StrandsTwo DEF TakesOne, Sessions!Idle
<1> QED
  BY <1>2, <1>3, <1>4, <1>5, <1>13, StrandsTwo, TakesOneMore

LEMMA SharesFallback ==
    ASSUME SessFit, SharesInv, NEW t \in Borrowers, Sessions!Fallback(t) PROVE SharesInv'
<1>1. PICK l, k : l = tools[t].lease["first"].live /\ k = <<lives[l].key[1], "wasm">>
  OBVIOUS
<1>2. PICK st : st = Sessions!AcquiredIn(Sessions!Now, k)
  OBVIOUS
<1>3. JobOk(tools[t]) /\ HeldAreReady(lives, tools) /\ \A n \in Lives : LifeOk(lives[n])
  BY SharesParts
<1>4. tools[t].job = "model" /\ tools[t].at = "works" /\ tools[t].lease["first"].at = "held"
      /\ Sessions!Roomy /\ Sessions!Become(st) /\ UNCHANGED pinned
      /\ tools' = [tools EXCEPT ![t].at = "falls", ![t].lease["second"] = Sessions!Waits(st, k)]
  BY <1>1, <1>2 DEF Sessions!Fallback
<1>5. l \in Lives /\ lives[l].at = "ready"
  <2>1. l \in Lives \cup {NoLive} /\ l # NoLive
    BY <1>1, <1>3, <1>4, StrandsTwo, JobShape
  <2> QED
    BY <1>1, <1>3, <1>4, <2>1, StrandsTwo DEF HeldAreReady
<1>6. k \in Sessions!Keys
  BY <1>1, <1>3, <1>5 DEF LifeOk, Sessions!Keys
<1>7. tools[t].lease["second"].live = NoLive
  BY <1>3, <1>4 DEF JobOk
<1>8. st.of[k] \in Lives
  BY <1>2, <1>4, <1>6, <1>7, StrandsTwo, AcquiresLive
<1>9. PICK L : L = Sessions!Waits(st, k)
  OBVIOUS
<1>10. L \in Leases /\ L.at = "waits" /\ L.live = st.of[k] /\ L.live # NoLive
  BY <1>8, <1>9, WaitsFits
<1>11. PICK f : f = [tools[t].lease EXCEPT !["second"] = L]
  OBVIOUS
<1>12. PICK j : j = [tools[t] EXCEPT !.at = "falls", !.lease = f]
  OBVIOUS
<1>13. f \in [Sessions!Strands -> Leases] /\ f["second"] = L
       /\ f["first"] = tools[t].lease["first"]
  BY <1>3, <1>10, <1>11, StrandsTwo, JobShape
<1>14. j.job = "model" /\ j.at = "falls" /\ j.lease = f /\ j \in Jobs
  BY <1>3, <1>4, <1>12, <1>13 DEF Jobs, JobOk
<1>15. \A u \in Sessions!Strands : f[u].live # NoLive <=> f[u].at \in {"waits", "held"}
  BY <1>3, <1>10, <1>13, StrandsTwo, JobShape
<1>16. JobOk(j)
  BY <1>4, <1>13, <1>14, <1>15 DEF JobOk
<1>17. ToolGoes(t, j)
  BY <1>4, <1>9, <1>11, <1>12 DEF ToolGoes
<1>18. TakesOne(t, "second", st.of[k], j)
  BY <1>10, <1>13, <1>14, <1>16, <1>17, StrandsTwo DEF TakesOne
<1> QED
  BY <1>2, <1>4, <1>6, <1>7, <1>18, StrandsTwo, TakesOneMore

LEMMA SameLeases ==
    ASSUME NEW tl, NEW G, G \subseteq Holders \X Lives,
           \A u \in Borrowers, q \in Sessions!Strands, m \in Lives :
               <<<<u, q>>, m>> \in G <=> tl[u].lease[q].live = m
    PROVE  Leased(tl) = G
<1>1. ASSUME NEW h \in Holders \X Lives PROVE h \in Leased(tl) <=> h \in G
  <2>1. PICK u \in Borrowers, q \in Sessions!Strands, m \in Lives : h = <<<<u, q>>, m>>
    BY DEF Holders
  <2>2. <<<<u, q>>, m>> \in Leased(tl) <=> tl[u].lease[q].live = m
    BY LeaseOf
  <2> QED
    BY <2>1, <2>2
<1>2. Leased(tl) \subseteq Holders \X Lives
  BY DEF Leased
<1> QED
  BY <1>1, <1>2

LEMMA SharesSwap == ASSUME SessFit, SharesInv, NEW t \in Borrowers, Sessions!Swap(t) PROVE SharesInv'
<1>1. PICK l1, l2 : l1 = tools[t].lease["first"].live /\ l2 = tools[t].lease["second"].live
  OBVIOUS
<1>2. JobOk(tools[t]) /\ HeldAreReady(lives, tools) /\ tools \in [Borrowers -> Jobs]
  BY SharesParts
<1>3. tools[t].lease["first"].at = "held" /\ tools[t].job = "model" /\ Sessions!Released(l1)
      /\ tools[t].lease["second"].at \in {"held", "failed"}
  BY <1>1, <1>2 DEF Sessions!Swap, JobOk
<1>4. CASE tools[t].lease["second"].at = "failed"
  <2>1. tools[t].lease["second"].live = NoLive
    BY <1>2, <1>4, StrandsTwo, JobShape
  <2>2. LetsOne(t, "first", Sessions!Idle)
    BY <1>4, <2>1, IdleOk, StrandsTwo DEF LetsOne, ToolGoes, Sessions!Swap, Sessions!Over
  <2> QED
    BY <1>1, <1>3, <2>2, StrandsTwo, LetsOneGo
<1>5. CASE tools[t].lease["second"].at = "held"
  <2>1. l1 \in Lives /\ l2 \in Lives /\ lives[l1].at = "ready" /\ lives[l2].at = "ready"
    <3>1. l1 \in Lives \cup {NoLive} /\ l2 \in Lives \cup {NoLive} /\ l1 # NoLive /\ l2 # NoLive
      BY <1>1, <1>2, <1>3, <1>5, StrandsTwo, JobShape
    <3> QED
      BY <1>1, <1>2, <1>3, <1>5, <3>1, StrandsTwo DEF HeldAreReady
  <2>2. PICK x, y, H : x = <<t, "second">> /\ y = <<t, "first">> /\ H = Leased(tools) \ {<<y, l1>>}
    OBVIOUS
  <2>3. /\ Shared(sessions', lives', H) /\ PinsAreReady(lives', pinned')
        /\ \A m \in Lives : lives[m].at = "ready" => lives'[m].at \in {"ready", "free"}
    BY <1>1, <1>3, <2>1, <2>2, StrandsTwo, Releases
  <2>4. x \in Holders /\ y \in Holders /\ x # y
    BY <2>2, StrandsTwo DEF Holders
  <2>5. /\ \A m \in Lives : <<x, m>> \in Leased(tools) <=> l2 = m
        /\ \A m \in Lives : <<y, m>> \in Leased(tools) <=> l1 = m
    <3>1. ASSUME NEW m \in Lives
          PROVE  /\ <<x, m>> \in Leased(tools) <=> l2 = m
                 /\ <<y, m>> \in Leased(tools) <=> l1 = m
      <4>1. /\ <<<<t, "second">>, m>> \in Leased(tools) <=> tools[t].lease["second"].live = m
            /\ <<<<t, "first">>, m>> \in Leased(tools) <=> tools[t].lease["first"].live = m
        BY StrandsTwo, LeaseOf
      <4> QED
        BY <1>1, <2>2, <4>1
    <3> QED
      BY <3>1
  <2>6. <<x, l2>> \in H /\ \A m \in Lives : <<y, m>> \notin H
    BY <2>1, <2>2, <2>4, <2>5
  <2>7. PICK G : G = (H \ {<<x, l2>>}) \cup {<<y, l2>>}
    OBVIOUS
  <2>8. Shared(sessions', lives', G)
    <3>1. PICK of, lv : of = sessions' /\ lv = lives'
      OBVIOUS
    <3>2. Shared(of, lv, (H \ {<<x, l2>>}) \cup {<<y, l2>>})
      <4>1. Shared(of, lv, H) /\ x \in Holders /\ y \in Holders /\ l2 \in Lives /\ <<x, l2>> \in H
            /\ \A m \in Lives : <<y, m>> \notin H
        BY <2>1, <2>3, <2>4, <2>6, <3>1
      <4> QED
        BY ONLY <4>1, HandsOver
    <3> QED
      BY <2>7, <3>1, <3>2
  <2>9. PICK f : f = [s \in Sessions!Strands |-> IF s = "first" THEN tools[t].lease["second"]
                                                 ELSE Sessions!NoLease]
    OBVIOUS
  <2>10. PICK j : j = [tools[t] EXCEPT !.at = "swapped", !.lease = f]
    OBVIOUS
  <2>11. f["first"] = tools[t].lease["second"] /\ f["second"] = Sessions!NoLease
         /\ Sessions!NoLease \in Leases /\ Sessions!NoLease.live = NoLive
         /\ Sessions!NoLease.at = "none"
    BY <2>9, StrandsTwo DEF Leases, Sessions!NoLease
  <2>12. f \in [Sessions!Strands -> Leases]
    BY <1>2, <2>9, <2>11, StrandsTwo, JobShape
  <2>13. j.job = "model" /\ j.at = "swapped" /\ j.lease = f /\ j \in Jobs
    BY <1>2, <1>3, <2>10, <2>12 DEF Jobs, JobOk
  <2>14. \A u \in Sessions!Strands : f[u].live # NoLive <=> f[u].at \in {"waits", "held"}
    BY <1>2, <2>11, StrandsTwo, JobShape
  <2>15. JobOk(j)
    BY <2>11, <2>13, <2>14 DEF JobOk
  <2>16. ToolGoes(t, j)
    BY <1>5, <2>9, <2>10 DEF ToolGoes, Sessions!Swap
  <2>17. tools'[t] = j /\ \A u \in Borrowers : u # t => tools'[u] = tools[u]
    BY <1>2, <2>16, OneTool
  <2>18. Leased(tools') = G
    <3>1. G \subseteq Holders \X Lives
      BY <2>8 DEF Shared
    <3>2. PICK tl : tl = tools'
      OBVIOUS
    <3>3. ASSUME NEW u \in Borrowers, NEW q \in Sessions!Strands, NEW m \in Lives
          PROVE  <<<<u, q>>, m>> \in G <=> tl[u].lease[q].live = m
      <4>1. <<<<u, q>>, m>> \in Leased(tools) <=> tools[u].lease[q].live = m
        BY LeaseOf
      <4>2. CASE u # t
        BY <2>2, <2>7, <2>17, <3>2, <4>1, <4>2
      <4>3. CASE u = t /\ q = "first"
        BY <1>1, <2>1, <2>2, <2>6, <2>7, <2>11, <2>13, <2>17, <3>2, <4>3
      <4>4. CASE u = t /\ q = "second"
        BY <2>2, <2>4, <2>5, <2>7, <2>11, <2>13, <2>17, <3>2, <4>4 DEF SessFit
      <4> QED
        BY <4>2, <4>3, <4>4, StrandsTwo
    <3> QED
      BY <3>1, <3>2, <3>3, SameLeases
  <2>19. \A u \in Sessions!Strands : j.lease[u].at = "held" => lives[j.lease[u].live].at = "ready"
    BY <1>1, <2>1, <2>11, <2>13, StrandsTwo
  <2>20. Shared(sessions', lives', Leased(tools'))
    BY <2>8, <2>18
  <2> QED
    BY <2>3, <2>15, <2>16, <2>19, <2>20, ToolSteps
<1> QED
  BY <1>3, <1>4, <1>5

(* The picture is embedded: the decoder alone.                             *)
LEMMA SharesDecoder ==
    ASSUME SessFit, SharesInv, NEW t \in Borrowers, NEW e \in Manifest, NEW d \in Manifest,
           Sessions!smartSelect(t, e, d, TRUE)
    PROVE  SharesInv'
<1>1. PICK k : k = <<d, "wasm">>
  OBVIOUS
<1>2. PICK st : st = Sessions!AcquiredIn(Sessions!Now, k)
  OBVIOUS
<1>3. k \in Sessions!Keys
  BY <1>1 DEF Sessions!Keys
<1>4. PICK f, j : /\ f = [s \in Sessions!Strands |-> IF s = "second" THEN Sessions!Waits(st, k)
                                                     ELSE [Sessions!NoLease EXCEPT !.at = "over"]]
                  /\ j = [job |-> "select", at |-> "works", lease |-> f]
  OBVIOUS
<1>5. tools[t] = Sessions!Idle /\ Sessions!Roomy /\ Sessions!Become(st) /\ UNCHANGED pinned
      /\ ToolGoes(t, j)
  BY <1>1, <1>2, <1>4 DEF Sessions!smartSelect, ToolGoes
<1>6. \A u \in Sessions!Strands : tools[t].lease[u].live = NoLive
  BY <1>5, IdleOk
<1>7. st.of[k] \in Lives
  BY <1>2, <1>3, <1>5, <1>6, StrandsTwo, AcquiresLive
<1>8. PICK L, W : L = Sessions!Waits(st, k) /\ W = [Sessions!NoLease EXCEPT !.at = "over"]
  OBVIOUS
<1>9. L \in Leases /\ L.at = "waits" /\ L.live = st.of[k] /\ L.live # NoLive
  BY <1>7, <1>8, WaitsFits
<1>10. W \in Leases /\ W.at = "over" /\ W.live = NoLive
  BY <1>8 DEF Leases, Sessions!NoLease
<1>11. f \in [Sessions!Strands -> Leases] /\ f["first"] = W /\ f["second"] = L
  BY <1>4, <1>8, <1>9, <1>10, StrandsTwo
<1>12. JobOk(j)
  <2>1. j.job = "select" /\ j.at = "works" /\ j.lease = f /\ j \in Jobs
    BY <1>4, <1>11 DEF Jobs
  <2>2. \A u \in Sessions!Strands : f[u].live # NoLive <=> f[u].at \in {"waits", "held"}
    BY <1>9, <1>10, <1>11, StrandsTwo
  <2> QED
    BY <2>1, <2>2 DEF JobOk
<1>13. TakesOne(t, "second", st.of[k], j)
  BY <1>4, <1>5, <1>6, <1>9, <1>10, <1>11, <1>12, StrandsTwo DEF TakesOne
<1> QED
  BY <1>2, <1>3, <1>5, <1>6, <1>13, StrandsTwo, TakesOneMore

(* It is not: two sessions, one after the other.                           *)
LEMMA SharesBoth ==
    ASSUME SessFit, SharesInv, NEW t \in Borrowers, NEW e \in Manifest, NEW d \in Manifest,
           Sessions!smartSelect(t, e, d, FALSE)
    PROVE  SharesInv'
<1>1. PICK k1, k2 : k1 = <<e, "wasm">> /\ k2 = <<d, "wasm">>
  OBVIOUS
<1>2. k1 \in Sessions!Keys /\ k2 \in Sessions!Keys
  BY <1>1 DEF Sessions!Keys
<1>3. PICK one : one = Sessions!AcquiredIn(Sessions!Now, k1)
  OBVIOUS
<1>4. PICK both : both = Sessions!AcquiredIn(one, k2)
  OBVIOUS
<1>5. PICK f, j : /\ f = [s \in Sessions!Strands |-> IF s = "second" THEN Sessions!Waits(both, k2)
                                                     ELSE Sessions!Waits(both, k1)]
                  /\ j = [job |-> "select", at |-> "works", lease |-> f]
  OBVIOUS
<1>6. tools[t] = Sessions!Idle /\ Sessions!Roomy /\ Sessions!Become(both) /\ UNCHANGED pinned
      /\ ToolGoes(t, j) /\ e # d
  BY <1>1, <1>3, <1>4, <1>5 DEF Sessions!smartSelect, ToolGoes
<1>7. \A u \in Sessions!Strands : tools[t].lease[u].live = NoLive /\ NoLive \notin Lives
  BY <1>6, IdleOk DEF SessFit
<1>8. AcquiredNow(t, "first", one, k1)
  BY <1>2, <1>3, <1>6, <1>7, StrandsTwo, AcquiresNow
<1>9. PICK of, lv, H, l1 : of = one.of /\ lv = one.lives /\ l1 = of[k1]
                           /\ H = Leased(tools) \cup {<<<<t, "first">>, l1>>}
  OBVIOUS
<1>10. /\ l1 \in Lives /\ Shared(of, lv, H) /\ PinsAreReady(lv, pinned)
       /\ \A l \in Lives : lives[l].at = "ready" => lv[l].at = "ready"
       /\ \E l \in Lives : lv[l].at = "free"
  BY <1>8, <1>9 DEF AcquiredNow
<1>11. PICK x : x = <<t, "second">>
  OBVIOUS
<1>12. x \in Holders /\ \A l \in Lives : <<x, l>> \notin H
  <2>1. x \in Holders
    BY <1>11, StrandsTwo DEF Holders
  <2>2. ASSUME NEW l \in Lives PROVE <<x, l>> \notin H
    <3>1. <<<<t, "second">>, l>> \in Leased(tools) <=> tools[t].lease["second"].live = l
      BY StrandsTwo, LeaseOf
    <3>2. <<x, l>> \notin Leased(tools)
      BY <1>7, <1>11, <3>1, StrandsTwo
    <3> QED
      BY <1>9, <1>11, <3>2
  <2> QED
    BY <2>1, <2>2
<1>13. PICK o2, v2, l2 : o2 = both.of /\ v2 = both.lives /\ l2 = o2[k2]
  OBVIOUS
<1>14. one = [of |-> of, lives |-> lv]
  BY <1>3, <1>9 DEF Sessions!AcquiredIn
<1>15. /\ l2 \in Lives /\ Shared(o2, v2, H \cup {<<x, l2>>})
       /\ \A l \in Lives : lv[l].at # "free" => v2[l].at = lv[l].at /\ v2[l].key = lv[l].key
       /\ o2[k1] = l1
  <2>1. both = Sessions!AcquiredIn([of |-> of, lives |-> lv], k2)
    BY <1>4, <1>14
  <2>2. SessFit /\ Shared(of, lv, H) /\ k2 \in Sessions!Keys /\ x \in Holders
        /\ (\A l \in Lives : <<x, l>> \notin H) /\ \E l \in Lives : lv[l].at = "free"
    BY <1>2, <1>10, <1>12
  <2>3. AcquiredBy(of, lv, H, k2, x, both)
    BY ONLY <2>1, <2>2, Acquires
  <2>4. k1 # k2
    BY <1>1, <1>6
  <2>5. o2[k1] = of[k1]
    BY <1>2, <1>4, <1>9, <1>10, <1>13, <2>4 DEF Sessions!AcquiredIn, Shared
  <2> QED
    BY <1>9, <1>13, <2>3, <2>5 DEF AcquiredBy
<1>16. PICK L1, L2 : L1 = Sessions!Waits(both, k1) /\ L2 = Sessions!Waits(both, k2)
  OBVIOUS
<1>17. L1 \in Leases /\ L1.at = "waits" /\ L1.live = l1 /\ L1.live # NoLive
  BY <1>10, <1>13, <1>15, <1>16, WaitsFits
<1>18. L2 \in Leases /\ L2.at = "waits" /\ L2.live = l2 /\ L2.live # NoLive
  BY <1>13, <1>15, <1>16, WaitsFits
<1>19. f \in [Sessions!Strands -> Leases] /\ f["first"] = L1 /\ f["second"] = L2
  BY <1>5, <1>16, <1>17, <1>18, StrandsTwo
<1>20. j.job = "select" /\ j.at = "works" /\ j.lease = f /\ j \in Jobs
  BY <1>5, <1>19 DEF Jobs
<1>21. JobOk(j)
  <2>1. \A u \in Sessions!Strands : f[u].live # NoLive <=> f[u].at \in {"waits", "held"}
    BY <1>17, <1>18, <1>19, StrandsTwo
  <2> QED
    BY <1>20, <2>1 DEF JobOk
<1>22. tools'[t] = j /\ \A u \in Borrowers : u # t => tools'[u] = tools[u]
  BY <1>6, SharesParts, OneTool
<1>23. Leased(tools') = H \cup {<<x, l2>>}
  <2>1. PICK G, tl : G = H \cup {<<x, l2>>} /\ tl = tools'
    OBVIOUS
  <2>2. G \subseteq Holders \X Lives
    BY <1>15, <2>1 DEF Shared
  <2>3. ASSUME NEW u \in Borrowers, NEW q \in Sessions!Strands, NEW m \in Lives
        PROVE  <<<<u, q>>, m>> \in G <=> tl[u].lease[q].live = m
    <3>1. <<<<u, q>>, m>> \in Leased(tools) <=> tools[u].lease[q].live = m
      BY LeaseOf
    <3>2. CASE u # t
      BY <1>9, <1>11, <1>22, <2>1, <3>1, <3>2
    <3>3. CASE u = t
      <4>1. <<<<u, q>>, m>> \notin Leased(tools)
        BY <1>7, <3>1, <3>3
      <4>2. tl[u].lease = f
        BY <1>20, <1>22, <2>1, <3>3
      <4>3. CASE q = "first"
        BY <1>9, <1>11, <1>17, <1>19, <2>1, <3>3, <4>1, <4>2, <4>3
      <4>4. CASE q = "second"
        BY <1>9, <1>11, <1>18, <1>19, <2>1, <3>3, <4>1, <4>2, <4>4
      <4> QED
        BY <4>3, <4>4, StrandsTwo
    <3> QED
      BY <3>2, <3>3
  <2> QED
    BY <2>1, <2>2, <2>3, SameLeases
<1>24. Shared(sessions', lives', Leased(tools')) /\ lives' = v2 /\ pinned' = pinned
  BY <1>6, <1>13, <1>15, <1>23 DEF Sessions!Become
<1>25. ReadyStay(lv, v2)
  BY <1>15 DEF ReadyStay
<1>26. PinsAreReady(v2, pinned)
  BY <1>10, <1>25, PinsKept
<1>27. PinsAreReady(lives', pinned')
       /\ \A m \in Lives : lives[m].at = "ready" => lives'[m].at \in {"ready", "free"}
  BY <1>10, <1>24, <1>25, <1>26 DEF ReadyStay
<1>28. \A u \in Sessions!Strands : j.lease[u].at # "held"
  BY <1>17, <1>18, <1>19, <1>20, StrandsTwo
<1> QED
  BY <1>6, <1>21, <1>24, <1>27, <1>28, ToolSteps

-----------------------------------------------------------------------------
(* The whole.                                                              *)

LEMMA SharesInit == ASSUME SessFit, Sessions!Init PROVE SharesInv
<1>1. PICK of, lv, tl : of = sessions /\ lv = lives /\ tl = tools
  OBVIOUS
<1>2. /\ of = [k \in Sessions!Keys |-> NoLive] /\ lv = [l \in Lives |-> Sessions!Free]
      /\ tl = [t \in Borrowers |-> Sessions!Idle] /\ pinned = {}
  BY <1>1 DEF Sessions!Init
<1>3. \A t \in Borrowers, s \in Sessions!Strands :
        tl[t].lease[s].live \notin Lives /\ tl[t].lease[s].at # "held"
  BY <1>2, IdleOk DEF SessFit
<1>4. Leased(tl) = {}
  BY <1>3 DEF Leased, Holders
<1>5. \A l \in Lives : LifeOk(lv[l]) /\ lv[l].owners = 0 /\ lv[l].at = "free"
  BY <1>2, LifeKinds
<1>6. IsFiniteSet({}) /\ Cardinality({}) = 0 /\ \A l \in Lives : On({}, l) = {}
  BY FS_EmptySet DEF On
<1>7. Shared(of, lv, Leased(tl))
  <2>1. Shared(of, lv, {})
    BY <1>2, <1>5, <1>6 DEF Shared
  <2> QED
    BY <1>4, <2>1
<1>8. tl \in [Borrowers -> Jobs] /\ \A t \in Borrowers : JobOk(tl[t])
  BY <1>2, IdleOk DEF JobOk
<1>9. HeldAreReady(lv, tl) /\ PinsAreReady(lv, pinned)
  BY <1>2, <1>3 DEF HeldAreReady, PinsAreReady
<1> QED
  BY <1>1, <1>7, <1>8, <1>9 DEF SharesInv

LEMMA SharesStep == ASSUME SessFit, SharesInv, Sessions!Next PROVE SharesInv'
<1>1. ASSUME NEW t \in Borrowers, NEW m \in Manifest, Sessions!Borrow(t, m) PROVE SharesInv'
  BY <1>1, SharesBorrow
<1>2. ASSUME NEW t \in Borrowers, Sessions!Done(t) PROVE SharesInv'
  BY <1>2, SharesDone
<1>3. ASSUME NEW t \in Borrowers, Sessions!Fallback(t) PROVE SharesInv'
  BY <1>3, SharesFallback
<1>4. ASSUME NEW t \in Borrowers, Sessions!Swap(t) PROVE SharesInv'
  BY <1>4, SharesSwap
<1>5. ASSUME NEW t \in Borrowers, NEW e \in Manifest, NEW d \in Manifest,
             Sessions!smartSelect(t, e, d, TRUE) PROVE SharesInv'
  BY <1>5, SharesDecoder
<1>6. ASSUME NEW t \in Borrowers, NEW e \in Manifest, NEW d \in Manifest,
             Sessions!smartSelect(t, e, d, FALSE) PROVE SharesInv'
  BY <1>6, SharesBoth
<1>7. ASSUME NEW t \in Borrowers, Sessions!runEncoder(t) PROVE SharesInv'
  BY <1>7, SharesEncoder
<1>8. ASSUME NEW t \in Borrowers, Sessions!Join(t) PROVE SharesInv'
  BY <1>8, SharesJoin
<1>9. ASSUME NEW t \in Borrowers, Sessions!Orphaned(t) PROVE SharesInv'
  BY <1>9, SharesOrphaned
<1>10. ASSUME NEW t \in Borrowers, NEW s \in Sessions!Strands, Sessions!acquireOrtSession(t, s)
       PROVE  SharesInv'
  BY <1>10, SharesAcquire
<1>11. ASSUME NEW l \in Lives, \/ Sessions!Match(l) \/ Sessions!download(l) \/ Sessions!dropFromCache(l)
                               \/ Sessions!Put(l) \/ Sessions!createSession(l)
       PROVE  SharesInv'
  BY <1>11, SharesMatch, SharesDownload, SharesDrop, SharesPut, SharesCreate
<1> QED
  BY <1>1, <1>2, <1>3, <1>4, <1>5, <1>6, <1>7, <1>8, <1>9, <1>10, <1>11 DEF Sessions!Next

LEMMA SharesShow == ASSUME SessFit, SharesInv PROVE Sessions!SessionsFollowWork
<1>1. Shared(sessions, lives, Leased(tools)) /\ HeldAreReady(lives, tools) /\ PinsAreReady(lives, pinned)
  BY SharesParts
<1>2. ASSUME NEW l \in Lives, lives[l].at # "free" PROVE Sessions!Borrowed(l)
  <2>1. LifeOk(lives[l]) /\ lives[l].owners = Cardinality(On(Leased(tools), l))
    BY <1>1 DEF Shared
  <2>2. lives[l].owners # 0
    BY <1>2, <2>1 DEF LifeOk
  <2>3. On(Leased(tools), l) # {}
    BY <2>1, <2>2, FS_EmptySet
  <2>4. PICK h \in On(Leased(tools), l) : TRUE
    BY <2>3
  <2>5. h \in Holders \X Lives /\ tools[h[1][1]].lease[h[1][2]].live = l
    BY <2>4 DEF On, Leased
  <2> QED
    BY <2>5 DEF Holders, Sessions!Borrowed
<1>3. \A l \in Lives : lives[l].at = "ready" => lives[l].bytes = "good"
  BY <1>1 DEF Shared, LifeOk
<1>4. \A k \in Sessions!Keys : sessions[k] # NoLive => lives[sessions[k]].key = k
  BY <1>1 DEF Shared
<1>5. \A m \in pinned : \E l \in Lives : Sessions!Borrowed(l) /\ Sessions!Model(l) = m
  BY <1>1, <1>2 DEF PinsAreReady, Sessions!Model
<1>6. \A t \in Borrowers, s \in Sessions!Strands : tools[t].lease[s].at = "held" =>
           lives[tools[t].lease[s].live].at = "ready"
  BY <1>1 DEF HeldAreReady
<1> QED
  BY <1>2, <1>3, <1>4, <1>5, <1>6 DEF Sessions!SessionsFollowWork

LEMMA SharesStill == ASSUME SharesInv, UNCHANGED Sessions!modelVars PROVE SharesInv'
<1>1. sessions' = sessions /\ lives' = lives /\ tools' = tools /\ pinned' = pinned
  BY DEF Sessions!modelVars
<1>2. Leased(tools') = Leased(tools)
  BY <1>1
<1>3. HeldAreReady(lives', tools') /\ PinsAreReady(lives', pinned')
      /\ Shared(sessions', lives', Leased(tools'))
  BY <1>1, <1>2, SharesParts
<1> QED
  BY <1>1, <1>3, SharesParts DEF SharesInv

-----------------------------------------------------------------------------
(* Side by side                                                            *)

(* Everything the studio's state consists of.                              *)
StudioVars == <<part, EditorVars, ToolsVars, CanvasVars, SessionsVars>>

LEMMA EditorSpec == Spec => Editor!Spec
<1>1. Init => Editor!Init
  BY DEF Init
<1>2. [Next]_StudioVars => [Editor!Next]_(Editor!editVars)
  BY DEF Next, StudioVars, EditorVars, Editor!editVars
<1> QED
  BY <1>1, <1>2, PTL DEF Spec, Editor!Spec, StudioVars

LEMMA EditInvariant == Editor!Spec => [](EditInv /\ rendering \in Seq(Nat))
<1>1. EditInv /\ rendering \in Seq(Nat) /\ [Editor!Next]_(Editor!editVars)
        => (EditInv /\ rendering \in Seq(Nat))'
  BY EditMoves
<1> QED
  BY EditStarts, <1>1, PTL DEF Editor!Spec

(* A canvas that counts as clean shows pixels the library holds, for any   *)
(* library and any length of history: leaving it loses nothing.            *)
THEOREM StudioCleanIsStored == Spec => []CleanIsStored
<1>1. EditInv => CleanIsStored
  BY DEF EditInv, StoredFits, CleanIsStored
<1> QED
  BY EditInvariant, EditorSpec, <1>1, PTL

(* What is unsaved stays on the canvas, in the history or in the library   *)
(* at every step, unless the customer agreed to lose it or is told.        *)
THEOREM StudioUnsavedIsKept == Spec => UnsavedIsKept
<1>1. EditInv /\ rendering \in Seq(Nat) /\ [Editor!Next]_(Editor!editVars)
        => [dirty => \/ ~Editor!Idle \/ discarded'
                     \/ engine.present \in {engine'.present} \cup Editor!Range(engine'.past)
                          \cup Editor!Range(engine'.future) \cup Editor!Kept']_(Editor!editVars)
  BY EditMoves DEF StillThere
<1> QED
  BY EditInvariant, EditorSpec, <1>1, PTL DEF UnsavedIsKept, Editor!UnsavedIsKept, Editor!Spec

-----------------------------------------------------------------------------
LEMMA ToolsSpec == Spec => Tools!Spec
<1>1. Init => Tools!Init
  BY DEF Init
<1>2. [Next]_StudioVars => [Tools!Next]_(Tools!toolVars)
  BY DEF Next, StudioVars, ToolsVars, Tools!toolVars
<1> QED
  BY <1>1, <1>2, PTL DEF Spec, Tools!Spec, StudioVars

(* The strip acts on, and shows, the image that is there, however many     *)
(* images are opened and models asked, where no operation that would       *)
(* commit fails: one that does leaves an old preview.                      *)
THEOREM StudioStripFits == ASSUME ~FailingApplies PROVE Spec => []StripFitsImage
<1>1. ToolsInv /\ OpenEdits /\ [Tools!Next]_(Tools!toolVars) => (ToolsInv /\ OpenEdits)'
  BY ToolsMove
<1>2. ToolsInv => StripFitsImage
  BY StripFits DEF StripFitsImage
<1>3. Tools!Spec => []ToolsInv
  BY ToolsStart, <1>1, PTL DEF Tools!Spec
<1> QED
  BY ToolsSpec, <1>2, <1>3, PTL

-----------------------------------------------------------------------------
LEMMA SessionsSpec == Spec => Sessions!Spec
<1>1. Init => Sessions!Init
  BY DEF Init
<1>2. [Next]_StudioVars => [Sessions!Next]_(Sessions!modelVars)
  BY DEF Next, StudioVars, SessionsVars, Sessions!modelVars
<1> QED
  BY <1>1, <1>2, PTL DEF Spec, Sessions!Spec, StudioVars

(* A model in the browser lives as long as a call has borrowed it, for any *)
(* number of operations, models and sessions: nothing runs a session that  *)
(* was disposed, none is left when its borrowers are done, no pin outlives *)
(* the work, and all of them run the bytes of the manifest.                *)
THEOREM StudioSessionsFollow == Spec => []SessionsFollowWork
<1>1. SessFit
  BY SessionsFit DEF Sessions!ConstantsFit, Sessions!IsFiniteSet, IsFiniteSet, SessFit
<1>2. Sessions!Init => SharesInv
  BY <1>1, SharesInit
<1>3. SharesInv /\ [Sessions!Next]_(Sessions!modelVars) => SharesInv'
  BY <1>1, SharesStep, SharesStill
<1>4. SharesInv => SessionsFollowWork
  BY <1>1, SharesShow DEF SessionsFollowWork
<1>5. Sessions!Spec => []SharesInv
  BY <1>2, <1>3, PTL DEF Sessions!Spec
<1> QED
  BY SessionsSpec, <1>4, <1>5, PTL
=============================================================================
