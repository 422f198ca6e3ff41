---------------------------- MODULE EditSession ----------------------------
(***************************************************************************)
(* The image editor of the web client: one session over a library image    *)
(* (core/editing/edit-session.ts, its queue and its engine), and what the  *)
(* workspace page does with it: entering, leaving, saving, AI tools and    *)
(* the results it opens by itself.                                         *)
(*                                                                         *)
(* Pixels are the image they come from and the edits made, in order.  One  *)
(* operation runs at a time; a step is one task of the queue starting or   *)
(* ending, one answer, or one thing the customer does in between.  While   *)
(* the page asks a question the customer does nothing else.                *)
(*                                                                         *)
(* Left out: what an edit does to the pixels, the size refusals, and the   *)
(* guard of another route, which asks the same question.                   *)
(***************************************************************************)
EXTENDS Naturals, Sequences, FiniteSets, SequencesExt

CONSTANTS
    Pictures,    \* 1..n: the images in the library at the start
    MaxLibrary,  \* items the library may come to hold
    MaxHistory,  \* snapshots that fit in maxHistoryBytes
    MaxActs      \* things the customer does, but for answering questions

VARIABLES
    library,     \* the items: pixels, parent, and whether an AI tool made it
    rendering,   \* parents of AI edits under way
    item,        \* EditSession.item: the item shown, or Nothing
    engine,      \* EditEngine: past, present and future, or Closed
    openings,    \* images being decoded, and whether openToken is still theirs
    dirty, busy,
    preview,     \* the uncommitted pixels shown, or NoPixels
    queue,       \* the operations, in order; the first may be running
    saves,       \* saves under way, and whether openToken and revision still are
    entering,    \* images the page fetches in order to open them
    asking,      \* the question the page asks
    discarded,   \* discardedOnSignOut
    aiOpened,    \* the last AI result the page opened by itself
    acts,        \* things the customer did
    selfOpened,  \* the AI results aiOpened has named
    moved        \* what the page's effect reads changed since it last ran

(* What the code's own constants satisfy: the history holds a snapshot.    *)
ConstantsFit == IsFiniteSet(Pictures) /\ MaxHistory \in Nat \ {0}

editVars == <<library, rendering, item, engine, openings, dirty, busy, preview, queue,
              saves, entering, asking, discarded, aiOpened, acts, selfOpened,
              moved>>

Nothing == 0
NoPixels == <<>>
Closed == [past |-> <<>>, present |-> NoPixels, future |-> <<>>, truncated |-> FALSE]
Silence == [what |-> "nothing", id |-> Nothing]

Previewed == 99    \* what a preview adds to the pixels
Padded == 98       \* the border Expand adds

Item(px, parent, ai) == [px |-> px, parent |-> parent, ai |-> ai]

Init ==
    /\ library = [i \in 1..Cardinality(Pictures) |-> Item(<<i>>, Nothing, FALSE)]
    /\ rendering = <<>> /\ item = Nothing /\ engine = Closed
    /\ openings = {} /\ dirty = FALSE /\ busy = FALSE
    /\ preview = NoPixels /\ queue = <<>> /\ saves = {}
    /\ entering = {} /\ asking = Silence /\ discarded = FALSE /\ aiOpened = Nothing
    /\ acts = 0 /\ selfOpened = {} /\ moved = FALSE

page == <<library, rendering, entering, aiOpened, selfOpened>>
session == <<item, engine, openings, dirty, saves>>
rest == <<queue, preview, asking, discarded>>

Open == engine # Closed
Idle == asking = Silence

(* The customer does one thing more, no question being open.               *)
Act == Idle /\ acts < MaxActs /\ acts' = acts + 1

-----------------------------------------------------------------------------
(* EditEngine: snapshots before and after the present one.                 *)

(* The oldest undo and the furthest redo give ground, the longer end first,*)
(* until the rest fits: at once, as a change adds one snapshot to history. *)
trim(e) ==
    IF Len(e.past) + Len(e.future) <= MaxHistory THEN e
    ELSE IF Len(e.past) >= Len(e.future)
      THEN [e EXCEPT !.past = Tail(@), !.truncated = TRUE]
      ELSE [e EXCEPT !.future = Tail(@), !.truncated = TRUE]

push(px) ==
    engine' = trim([engine EXCEPT !.past = Append(@, engine.present), !.present = px,
                                  !.future = <<>>])

canUndo(e) == e.past # <<>>
canRedo == engine.future # <<>>

(* An edit that turns or crops changes the size of the image.             *)
Turns(edit) == edit % 2 = 0
SameSize(a, b) == (\E i \in DOMAIN a : i > 1 /\ Turns(a[i]))
                    <=> (\E i \in DOMAIN b : i > 1 /\ Turns(b[i]))

(* previewToken moves on: what the previews asked for and the stroke under *)
(* way would show is out of date.  A stroke reads the token when it starts.*)
Outdated(q) == [i \in DOMAIN q |-> IF q[i].kind = "preview" \/ q[i].runs
                                     THEN [q[i] EXCEPT !.live = FALSE] ELSE q[i]]

afterChange(isDirty, waiting) ==
    /\ queue' = Outdated(waiting)
    /\ preview' = IF preview # NoPixels /\ SameSize(preview, engine'.present)
                    THEN engine'.present ELSE NoPixels
    /\ dirty' = isDirty
    /\ saves' = {[s EXCEPT !.current = FALSE] : s \in saves}

Commit(px) == push(px) /\ afterChange(TRUE, Tail(queue))

-----------------------------------------------------------------------------
(* Opening and closing.                                                    *)

(* The worker is terminated, and all that waited settles as aborted.       *)
close ==
    /\ preview' = NoPixels /\ queue' = <<>> /\ engine' = Closed /\ item' = Nothing
    /\ dirty' = FALSE
    /\ saves' = {[s EXCEPT !.ours = FALSE] : s \in saves}

Stale == {[o EXCEPT !.latest = FALSE] : o \in openings}

beginOpen(id) ==
    /\ close
    /\ busy' = TRUE
    /\ openings' = Stale \cup {[id |-> id, latest |-> TRUE]}
    /\ UNCHANGED discarded

Install(o) ==
    /\ engine' = [Closed EXCEPT !.present = library[o.id].px]
    /\ item' = o.id /\ dirty' = FALSE /\ discarded' = FALSE /\ busy' = FALSE

(* Mutant of completeOpen: the last decode to finish is installed.         *)
CompleteAnyOpen(o) == Install(o)

completeOpen(o) ==
    IF o.latest THEN Install(o) ELSE UNCHANGED <<engine, item, dirty, discarded, busy>>

Decoded(o) ==
    /\ openings' = openings \ {o}
    /\ completeOpen(o)
    /\ UNCHANGED <<page, saves, preview, queue, asking, acts>>

DecodeFails(o) ==
    /\ openings' = openings \ {o}
    /\ busy' = IF o.latest THEN FALSE ELSE busy
    /\ UNCHANGED <<page, item, engine, dirty, saves, rest, acts>>

(* The account changed: its pixels go, and the page says so if any are lost.*)
reset ==
    /\ Open /\ acts < MaxActs /\ acts' = acts + 1
    /\ close
    /\ openings' = Stale
    /\ busy' = FALSE /\ discarded' = dirty /\ asking' = Silence
    /\ UNCHANGED page

-----------------------------------------------------------------------------
(* Operations.  A task keeps what its call captured.                       *)

Task(kind, base) ==
    [kind |-> kind, edit |-> acts', base |-> base, live |-> TRUE, runs |-> FALSE]

Enqueue(kind, base) ==
    /\ Act
    /\ queue' = Append(queue, Task(kind, base))
    /\ UNCHANGED <<page, session, preview, asking, discarded>>

(* The pixels an apply works on are those of its call.                     *)
apply == Open /\ Enqueue("apply", engine.present) /\ busy' = TRUE

(* applyEngine and applyHeal read the pixels when their turn comes.        *)
applyEngine == Open /\ Enqueue("engine", NoPixels) /\ busy' = TRUE

applyHeal == Open /\ Enqueue("heal", NoPixels) /\ busy' = TRUE

strokeOp == Open /\ Enqueue("stroke", NoPixels) /\ UNCHANGED busy

(* Pointer up: the steps queued so far land first.                         *)
commitStroke ==
    /\ Idle /\ Open /\ queue # <<>> /\ Last(queue).kind = "stroke"
    /\ queue' = Append(queue, [kind |-> "commit", edit |-> 0, base |-> NoPixels,
                               live |-> TRUE, runs |-> FALSE])
    /\ UNCHANGED <<page, session, busy, preview, asking, discarded, acts>>

previewOp ==
    /\ Act /\ Open
    /\ queue' = Append(Outdated(queue), [kind |-> "preview", edit |-> Previewed, live |-> TRUE,
                                   base |-> engine.present, runs |-> FALSE])
    /\ UNCHANGED <<page, session, busy, preview, asking, discarded>>

(* Another tool, or none: nothing uncommitted stays.                       *)
resetPreview ==
    /\ Idle /\ Open
    /\ queue' = Outdated(queue) /\ preview' = NoPixels
    /\ UNCHANGED <<page, session, busy, asking, discarded, acts>>

(* What an operation has to work on once its turn has come.                *)
BaseOf(task) ==
    CASE task.kind = "stroke" -> IF preview # NoPixels THEN preview ELSE engine.present
      [] task.kind \in {"engine", "heal"} -> engine.present
      [] OTHER -> task.base

Start ==
    /\ queue # <<>> /\ ~Head(queue).runs /\ Head(queue).kind # "commit"
    /\ queue' = [queue EXCEPT ![1].runs = TRUE, ![1].base = BaseOf(Head(queue))]
    /\ UNCHANGED <<page, session, busy, preview, asking, discarded, acts>>

OperationEnds ==
    LET task == Head(queue) IN
    /\ queue # <<>> /\ task.runs
    /\ IF task.kind \in {"apply", "engine", "heal"}
         THEN Commit(Append(task.base, task.edit)) /\ busy' = FALSE
         ELSE /\ queue' = Tail(queue)
              /\ preview' = IF task.live THEN Append(task.base, task.edit) ELSE preview
              /\ UNCHANGED <<engine, dirty, saves, busy>>
    /\ UNCHANGED <<page, item, openings, asking, discarded, acts>>

(* A heal whose model fails is queued once more, for the worker, on the    *)
(* pixels of that moment.                                                  *)
OperationFails ==
    LET task == Head(queue) IN
    /\ queue # <<>> /\ task.runs
    /\ \/ /\ task.kind = "heal"
          /\ queue' = Append(Tail(queue), [task EXCEPT !.kind = "apply", !.runs = FALSE,
                                                       !.base = engine.present])
          /\ UNCHANGED busy
       \/ /\ task.kind # "heal"
          /\ queue' = Tail(queue)
          /\ busy' = IF task.kind \in {"apply", "engine"} THEN FALSE ELSE busy
    /\ UNCHANGED <<page, session, preview, asking, discarded, acts>>

StrokeCommitted ==
    /\ queue # <<>> /\ Head(queue).kind = "commit"
    /\ IF preview = NoPixels
         THEN queue' = Tail(queue) /\ UNCHANGED <<engine, dirty, saves, preview>>
         ELSE Commit(preview)
    /\ UNCHANGED <<page, item, openings, busy, asking, discarded, acts>>

undo ==
    /\ Act /\ Open /\ canUndo(engine)
    /\ engine' = trim([engine EXCEPT !.past = Front(@), !.present = Last(engine.past),
                                     !.future = Append(@, engine.present)])
    /\ afterChange(canUndo(engine'), queue)
    /\ UNCHANGED <<page, item, openings, busy, asking, discarded>>

redo ==
    /\ Act /\ Open /\ canRedo
    /\ engine' = trim([engine EXCEPT !.future = Front(@), !.present = Last(engine.future),
                                     !.past = Append(@, engine.present)])
    /\ afterChange(TRUE, queue)
    /\ UNCHANGED <<page, item, openings, busy, asking, discarded>>

-----------------------------------------------------------------------------
(* The workspace page.                                                     *)

Save(px, ai, adopts) ==
    /\ Act /\ Open
    /\ saves' = saves \cup {[px |-> px, parent |-> item, ai |-> ai, ours |-> adopts,
                             current |-> TRUE]}
    /\ UNCHANGED <<page, item, engine, openings, dirty, busy, rest>>

saveEdit == dirty /\ Save(engine.present, FALSE, TRUE)

Room == Len(library) + Len(rendering) < MaxLibrary

(* An AI tool works on what the library holds, and saves what it does not. *)
aiTool ==
    IF dirty THEN Save(engine.present, TRUE, TRUE)
    ELSE /\ Act /\ Open /\ Room
         /\ rendering' = Append(rendering, item)
         /\ UNCHANGED <<library, entering, aiOpened, selfOpened, session, busy, rest>>

(* Expand saves a padded copy, and stays with the image it has open.       *)
runExpand == Save(Append(engine.present, Padded), TRUE, FALSE)

(* Mutant of adoptItem: an edit made during the save is forgotten.         *)
AdoptOpenItem(save, id) ==
    IF save.ours THEN item' = id /\ dirty' = FALSE ELSE UNCHANGED <<item, dirty>>

adoptItem(save, id) ==
    IF save.ours /\ save.current THEN item' = id /\ dirty' = FALSE
    ELSE UNCHANGED <<item, dirty>>

SaveAnswered(save) ==
    LET id == Len(library) + 1 IN
    /\ saves' = saves \ {save}
    /\ Len(library) + Len(rendering) + (IF save.ai THEN 1 ELSE 0) < MaxLibrary
    /\ library' = Append(library, Item(save.px, save.parent, FALSE))
    /\ adoptItem(save, id)
    /\ rendering' = IF save.ai THEN Append(rendering, id) ELSE rendering
    /\ UNCHANGED <<entering, aiOpened, selfOpened, engine, openings, busy, rest, acts>>

SaveFails(save) ==
    /\ saves' = saves \ {save}
    /\ UNCHANGED <<page, item, engine, openings, dirty, busy, rest, acts>>

(* An AI edit is done: what it made of its parent, under a number of its own.*)
ResultReady ==
    /\ rendering # <<>>
    /\ rendering' = Tail(rendering)
    /\ library' = Append(library, Item(<<Len(library) + 1>>, Head(rendering), TRUE))
    /\ UNCHANGED <<entering, aiOpened, selfOpened, session, busy, rest, acts>>

Enter(id) == entering = {} /\ entering' = {id}

enterEdit(id) ==
    /\ Act /\ Enter(id)
    /\ UNCHANGED <<library, rendering, aiOpened, selfOpened, session, busy, rest>>

(* A done AI edit of the open image, or of its parent, unless it is the    *)
(* last one opened this way.                                               *)
ReadyResults ==
    {i \in DOMAIN library :
        /\ library[i].ai /\ library[i].parent \in {item, library[item].parent}
        /\ i # item /\ i # aiOpened}

(* An effect: it runs when the library, the session's item or dirty moved. *)
(* The library lists the newest first.                                     *)
AutoOpen ==
    /\ moved /\ item # Nothing /\ ReadyResults # {}
    /\ moved' = FALSE
    /\ LET ready == Max(ReadyResults) IN
         /\ aiOpened' = ready
         /\ selfOpened' = selfOpened \cup {ready}
         /\ IF dirty THEN UNCHANGED entering ELSE Enter(ready)
    /\ UNCHANGED <<library, rendering, session, busy, rest, acts>>

ask(what, id) ==
    /\ asking' = [what |-> what, id |-> id]
    /\ UNCHANGED <<session, busy, queue, preview, discarded>>

(* The image was fetched: what is open goes only if there is nothing to    *)
(* lose, or the customer agrees.                                           *)
confirmDiscard(id) ==
    /\ entering' = entering \ {id}
    /\ IF dirty THEN ask("open", id) ELSE beginOpen(id) /\ UNCHANGED asking
    /\ UNCHANGED <<library, rendering, aiOpened, selfOpened, acts>>

Leave == close /\ busy' = FALSE /\ openings' = Stale /\ UNCHANGED discarded

exitEdit ==
    /\ Act /\ (Open \/ openings # {})
    /\ IF dirty THEN ask("exit", Nothing) ELSE Leave /\ UNCHANGED asking
    /\ UNCHANGED page

Agree ==
    /\ asking' = Silence
    /\ \/ asking.what = "open" /\ beginOpen(asking.id)
       \/ asking.what = "exit" /\ Leave
    /\ UNCHANGED <<page, acts>>

Decline ==
    /\ ~Idle
    /\ asking' = Silence
    /\ UNCHANGED <<page, session, busy, queue, preview, discarded, acts>>

Step ==
    \/ \E o \in openings : Decoded(o) \/ DecodeFails(o)
    \/ reset
    \/ apply \/ applyEngine \/ applyHeal \/ previewOp \/ strokeOp \/ commitStroke
    \/ resetPreview \/ undo \/ redo
    \/ Start \/ OperationEnds \/ OperationFails \/ StrokeCommitted
    \/ saveEdit \/ aiTool \/ runExpand
    \/ \E s \in saves : SaveAnswered(s) \/ SaveFails(s)
    \/ ResultReady
    \/ \E id \in DOMAIN library : enterEdit(id)
    \/ \E id \in entering : confirmDiscard(id)
    \/ exitEdit \/ Agree \/ Decline

Next ==
    \/ Step /\ moved' = (moved \/ <<library, item, dirty>>' # <<library, item, dirty>>)
    \/ AutoOpen

Spec == Init /\ [][Next]_editVars

-----------------------------------------------------------------------------
Kept == {library[i].px : i \in DOMAIN library}

(* A canvas that counts as clean shows pixels the library holds, whatever  *)
(* was edited, undone or opened while a save was under way: leaving it, an *)
(* AI tool and an automatic opening ask nothing.  Undo to the end of a     *)
(* history that was cut short is left out (see the README).                *)
CleanIsStored == Open /\ ~dirty /\ ~engine.truncated => engine.present \in Kept

(* Pixels on the canvas do not vanish: after any step they are shown, in   *)
(* the history or in the library, unless the customer agreed to lose them  *)
(* or is told so, in whatever order images are fetched, decoded and saved. *)
UnsavedIsKept ==
    [][dirty => \/ ~Idle \/ discarded'
                \/ engine.present \in {engine'.present} \cup Range(engine'.past)
                                        \cup Range(engine'.future) \cup Kept']_editVars

(* workspace-page.ts:251: the effect fires once per result.                *)
OpenedOncePerResult == [][aiOpened' # aiOpened => aiOpened' \notin selfOpened]_editVars
=============================================================================
