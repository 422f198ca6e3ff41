----------------------------- MODULE CanvasGestures -----------------------------
(***************************************************************************)
(* Pointers on the canvas of the editor (canvas-viewport.ts,               *)
(* crop-geometry.ts, brush-strokes.ts): the crop box, drawn, moved and     *)
(* resized under a locked or a free ratio, and the strokes of the brushes, *)
(* whose dabs the worker lays down one by one while the pointer moves on.  *)
(*                                                                         *)
(* "brush" stands for liquify, clone and retouch, which post dabs as they  *)
(* go; heal paints its mask only when the pointer is up and is an edit as  *)
(* any other, for which a quarter turn stands.  Lengths are in Units of a  *)
(* pixel, fine enough for the halvings of a few drags under a ratio.       *)
(***************************************************************************)
EXTENDS Integers, Sequences, SequencesExt, FiniteSetsExt

CONSTANTS
    Width, Height,  \* of the image opened, in pixels
    Xs, Ys,         \* where the pointer goes, in pixels
    Handles,        \* which corners and edges are dragged, as sets of sides
    Ratios,         \* the presets: width to height, or Free
    MaxDabs,        \* dabs one movement of the pointer posts
    MaxGestures,    \* drags, strokes, edits and undos in all
    TinyBoxes       \* whether a box below the smallest one is resized

VARIABLES
    tool, aspect,
    past, present,  \* EditEngine: pixels by their size, the dabs on them and the edit
    encoding,       \* the picture of the present pixels is not shown yet
    rect,           \* CropGesture: the box and the pixels it was made for
    drag,
    pressed,        \* the pointer is down
    painting,       \* BrushStrokes: a stroke is being dragged,
    stroked,        \* and posted something
    queue,          \* dispatchQueue and what waits for its tail
    preview,        \* dabs on the uncommitted preview, or Nothing
    strokes,        \* strokes begun
    gestures

gestureVars == <<tool, aspect, past, present, encoding, rect, drag, pressed, painting, stroked,
                 queue, preview, strokes, gestures>>

Unit == 64
MinCrop == 8 * Unit
Free == <<0, 0>>
Nothing == <<>>
Idle == [kind |-> "idle"]

Clamp(v, lo, hi) == Min({Max({v, lo}), hi})
Abs(v) == Max({v, -v})

Wide(h, a) == (h * a[1]) \div a[2]
High(w, a) == (w * a[2]) \div a[1]
Box(x, y, w, h) == [x |-> x, y |-> y, w |-> w, h |-> h]

-----------------------------------------------------------------------------
(* crop-geometry.ts.                                                       *)

initialCropRect(b, a) ==
    LET h == IF a = Free THEN b.h ELSE Min({b.h, High(b.w, a)})
        w == IF a = Free THEN b.w ELSE Wide(h, a) IN
    Box((b.w - w) \div 2, (b.h - h) \div 2, w, h)

(* A fresh box from the point s; under a ratio the longer side wins and is *)
(* cut to what the image leaves.                                           *)
Drawn(s, p, b, a) ==
    LET room == [w |-> IF p.x >= s.x THEN b.w - s.x ELSE s.x,
                 h |-> IF p.y >= s.y THEN b.h - s.y ELSE s.y]
        h == IF a = Free THEN Abs(p.y - s.y)
             ELSE Min({Max({High(Abs(p.x - s.x), a), Abs(p.y - s.y)}), High(room.w, a), room.h})
        w == IF a = Free THEN Abs(p.x - s.x) ELSE Wide(h, a) IN
    Box(IF p.x >= s.x THEN s.x ELSE s.x - w, IF p.y >= s.y THEN s.y ELSE s.y - h, w, h)

Moved(s, dx, dy, b) ==
    [s EXCEPT !.x = Clamp(@ + dx, 0, b.w - s.w), !.y = Clamp(@ + dy, 0, b.h - s.h)]

(* One axis of a resize: what is left of the side [from, to].              *)
Side(low, high, from, to, d, bound) ==
    LET start == IF low THEN Clamp(from + d, 0, to - MinCrop) ELSE from IN
    <<start, IF high THEN Clamp(to + d, start + MinCrop, bound) ELSE to>>

(* The touched sides follow the pointer.  A locked ratio then drives the   *)
(* other axis: from the middle for an edge, from the far corner otherwise. *)
Resized(s, m, dx, dy, b, a) ==
    LET across == Side("w" \in m, "e" \in m, s.x, s.x + s.w, dx, b.w)
        down == Side("n" \in m, "s" \in m, s.y, s.y + s.h, dy, b.h)
        wide == across[2] - across[1]
        high == down[2] - down[1]
        cx == s.x + s.w \div 2
        cy == s.y + s.h \div 2
        room == [w |-> IF "w" \in m THEN s.x + s.w ELSE b.w - s.x,
                 h |-> IF "n" \in m THEN s.y + s.h ELSE b.h - s.y]
        h == IF m \subseteq {"e", "w"} THEN Min({High(wide, a), 2 * Min({cy, b.h - cy})})
             ELSE IF m \subseteq {"n", "s"} THEN Min({high, High(2 * Min({cx, b.w - cx}), a)})
             ELSE Min({High(wide, a), High(room.w, a), room.h})
        w == Wide(h, a) IN
    IF a = Free THEN Box(across[1], down[1], wide, high)
    ELSE Box(IF "w" \in m THEN s.x + s.w - w ELSE IF "e" \in m THEN s.x ELSE cx - w \div 2,
             IF "n" \in m THEN s.y + s.h - h ELSE IF "s" \in m THEN s.y ELSE cy - h \div 2, w, h)

resolveCropDrag(g, p, b, a) ==
    LET dx == p.x - g.startPt.x
        dy == p.y - g.startPt.y IN
    CASE g.mode = {"new"} -> Drawn(g.startPt, p, b, a)
      [] g.mode = {} -> Moved(g.startRect, dx, dy, b)
      [] OTHER -> Resized(g.startRect, g.mode, dx, dy, b, a)

(* What the operation cuts out of the pixels, from a box rounded to them.  *)
Rounded(v) == ((v + Unit \div 2) \div Unit) * Unit
Cropped(b, r) ==
    [b EXCEPT !.w = Min({b.w - Max({0, Rounded(r.x)}), Rounded(r.w)}),
              !.h = Min({b.h - Max({0, Rounded(r.y)}), Rounded(r.h)})]

Small(r) == r.w < MinCrop \/ r.h < MinCrop
Made(r, of) == [box |-> r, of |-> of]

-----------------------------------------------------------------------------
Init ==
    /\ tool = "none" /\ aspect = Free
    /\ past = <<>>
    /\ present = [w |-> Width * Unit, h |-> Height * Unit, dabs |-> {}, edit |-> 0,
                  by |-> "open"]
    /\ encoding = FALSE /\ rect = Nothing /\ drag = Idle
    /\ pressed = FALSE /\ painting = FALSE /\ stroked = FALSE /\ queue = <<>> /\ preview = Nothing
    /\ strokes = 0 /\ gestures = 0

pixels == <<past, present, encoding>>
brush == <<pressed, painting, stroked>>
bounds == <<strokes, gestures>>
Gesture == gestures < MaxGestures /\ gestures' = gestures + 1

(* Points of the picture: outside it, the nearest one inside.              *)
Points == {[x |-> Clamp(a * Unit, 0, present.w), y |-> Clamp(b * Unit, 0, present.h)] :
              a \in Xs, b \in Ys}

(* The veil of a running edit hides handles and buttons, yet a press on it *)
(* reaches the canvas below.                                               *)
veiled == \E i \in DOMAIN queue : queue[i].kind \in {"turn", "crop"}

(* The box an effect of the viewport shows for a tool, a ratio and pixels. *)
initBox(t, a, px) ==
    rect' = IF t = "crop" THEN Made(initialCropRect(px, a), px) ELSE Nothing

Stale(q) == IF q # <<>> /\ q[1].kind = "dab" THEN [q EXCEPT ![1].live = FALSE] ELSE q

(* The strip resets the preview, the viewport its box.                     *)
selectTool(t) ==
    /\ ~pressed /\ t # tool /\ tool' = t
    /\ preview' = Nothing /\ queue' = Stale(queue)
    /\ initBox(t, aspect, present)
    /\ UNCHANGED <<aspect, pixels, drag, brush, bounds>>

chooseAspect(a) ==
    /\ ~pressed /\ tool = "crop" /\ a # aspect /\ aspect' = a
    /\ initBox(tool, a, present)
    /\ UNCHANGED <<tool, pixels, drag, brush, queue, preview, bounds>>

-----------------------------------------------------------------------------
(* The crop box.                                                           *)

BeginDrag(mode, p) ==
    /\ tool = "crop" /\ ~pressed /\ pressed' = TRUE /\ Gesture
    /\ IF mode = {"new"}
         THEN rect' = Made(Box(p.x, p.y, 0, 0), present)
         ELSE /\ rect # Nothing /\ ~veiled /\ UNCHANGED rect
              /\ TinyBoxes \/ mode = {} \/ ~Small(rect.box)
    /\ drag' = [kind |-> "drag", mode |-> mode, startPt |-> p, startRect |-> rect'.box,
                of |-> rect'.of]
    /\ UNCHANGED <<tool, aspect, pixels, painting, stroked, queue, preview, strokes>>

DragTo(p) ==
    /\ drag # Idle
    /\ rect' = Made(resolveCropDrag(drag, p, present, aspect),
                    IF drag.of = present THEN present ELSE Nothing)
    /\ UNCHANGED <<tool, aspect, pixels, drag, brush, queue, preview, bounds>>

(* A stray click leaves a box too small to mean anything.                  *)
EndDrag ==
    IF rect # Nothing /\ drag # Idle /\ drag.mode = {"new"} /\ Small(rect.box)
    THEN rect' = Made(initialCropRect(present, aspect), present)
    ELSE UNCHANGED rect

Later(item) == queue' = Append(queue, item)

(* An operation takes the pixels of when it was asked for.                 *)
Ask(kind) ==
    /\ Gesture
    /\ Later([kind |-> kind, of |-> present, rect |-> IF kind = "crop" THEN rect ELSE Nothing])
    /\ UNCHANGED <<tool, aspect, pixels, rect, drag, brush, preview, strokes>>

applyCrop == ~pressed /\ ~veiled /\ rect # Nothing /\ ~Small(rect.box) /\ Ask("crop")
rotate90 == ~pressed /\ tool = "crop" /\ Ask("turn")

cancelCrop ==
    /\ ~pressed /\ ~veiled /\ tool = "crop" /\ initBox(tool, aspect, present)
    /\ UNCHANGED <<tool, aspect, pixels, drag, brush, queue, preview, bounds>>

-----------------------------------------------------------------------------
(* Strokes.                                                                *)

Dabs(k) == [i \in 1..k |-> [kind |-> "dab", stroke |-> strokes', live |-> TRUE, begun |-> FALSE,
                            base |-> Nothing]]
pending == Len(SelectSeq(queue, LAMBDA i : i.kind = "dab"))

(* Every brush but liquify's push acts on the click.                       *)
BeginStroke(k) ==
    /\ tool = "brush" /\ ~pressed /\ pressed' = TRUE /\ Gesture /\ strokes' = strokes + 1
    /\ painting' = TRUE /\ stroked' = (stroked \/ k > 0)
    /\ queue' = queue \o Dabs(k)
    /\ UNCHANGED <<tool, aspect, pixels, rect, drag, preview>>

(* A worker that is behind is not given more: the way moved accumulates.   *)
DragStroke(k) ==
    /\ painting /\ pending <= 2
    /\ stroked' = TRUE /\ UNCHANGED strokes
    /\ queue' = queue \o Dabs(k)
    /\ UNCHANGED <<tool, aspect, pixels, rect, drag, pressed, painting, preview, gestures>>

(* Whatever was begun meanwhile is over as well.                           *)
resetAll == painting' = FALSE /\ drag' = Idle /\ EndDrag

onPointerUp ==
    /\ pressed /\ pressed' = FALSE
    /\ IF tool = "brush" /\ stroked
         THEN /\ stroked' = FALSE /\ painting' = FALSE
              /\ Later([kind |-> "commit"]) /\ UNCHANGED <<rect, drag>>
         ELSE resetAll /\ UNCHANGED <<stroked, queue>>
    /\ UNCHANGED <<tool, aspect, pixels, preview, bounds>>

(* Mutant of commitStroke: what is still queued is not waited for.         *)
CommitAtOnce == \E i \in DOMAIN queue : queue[i].kind = "commit" /\ queue' = RemoveAt(queue, i)

(* commitStroke awaits the tail of the queue.                              *)
commitStroke == queue # <<>> /\ queue[1].kind = "commit" /\ queue' = Tail(queue)

(* One entry of history, and the preview the viewport keeps over it while  *)
(* the picture below is made.                                              *)
Push(px) ==
    /\ past' = Append(past, present) /\ present' = px /\ encoding' = TRUE
    /\ preview' = IF preview # Nothing /\ present.w = px.w /\ present.h = px.h
                  THEN <<px.dabs>> ELSE Nothing

StrokeLands ==
    /\ commitStroke
    /\ IF preview = Nothing THEN UNCHANGED <<pixels, preview>>
       ELSE Push([present EXCEPT !.dabs = preview[1], !.edit = Len(past) + 1, !.by = "stroke"])
    /\ resetAll
    /\ UNCHANGED <<tool, aspect, pressed, stroked, bounds>>

-----------------------------------------------------------------------------
(* The worker, one operation at a time.                                    *)

(* strokeOp reads what it is applied to when its turn comes.               *)
DabStarts ==
    /\ queue # <<>> /\ queue[1].kind = "dab" /\ ~queue[1].begun
    /\ queue' = [queue EXCEPT ![1].begun = TRUE,
                              ![1].base = IF preview = Nothing THEN <<present.dabs>> ELSE preview]
    /\ UNCHANGED <<tool, aspect, pixels, rect, drag, brush, preview, bounds>>

DabLands ==
    /\ queue # <<>> /\ queue[1].kind = "dab" /\ queue[1].begun
    /\ queue' = Tail(queue)
    /\ preview' = IF queue[1].live THEN <<queue[1].base[1] \cup {queue[1].stroke}>> ELSE preview
    /\ UNCHANGED <<tool, aspect, pixels, rect, drag, brush, bounds>>

Turned(b) == [b EXCEPT !.w = b.h, !.h = b.w]

(* A cut that leaves nothing is refused by the worker.                     *)
EditLands ==
    /\ queue # <<>> /\ queue[1].kind \in {"turn", "crop"}
    /\ queue' = Tail(queue)
    /\ LET op == queue[1]
           px == IF op.kind = "turn" THEN Turned(op.of) ELSE Cropped(op.of, op.rect.box) IN
       IF px.w > 0 /\ px.h > 0
       THEN /\ Push([px EXCEPT !.edit = Len(past) + 1, !.by = op.kind])
            /\ rect' = IF op.kind = "crop" THEN Nothing ELSE rect
       ELSE UNCHANGED <<pixels, preview, rect>>
    /\ UNCHANGED <<tool, aspect, drag, brush, bounds>>

undo ==
    /\ ~pressed /\ past # <<>> /\ Gesture
    /\ past' = Front(past) /\ present' = Last(past) /\ encoding' = TRUE
    /\ preview' = IF preview # Nothing /\ present.w = present'.w /\ present.h = present'.h
                  THEN <<present'.dabs>> ELSE Nothing
    /\ queue' = Stale(queue)
    /\ UNCHANGED <<tool, aspect, rect, drag, brush, strokes>>

(* The picture is there: the box is fitted anew, a drag goes on.           *)
Encoded ==
    /\ encoding /\ encoding' = FALSE
    /\ initBox(tool, aspect, present)
    /\ UNCHANGED <<tool, aspect, past, present, drag, brush, queue, preview, bounds>>

Next ==
    \/ \E t \in {"none", "crop", "brush"} : selectTool(t)
    \/ \E a \in Ratios : chooseAspect(a)
    \/ \E mode \in Handles \cup {{"new"}, {}}, p \in Points : BeginDrag(mode, p)
    \/ \E p \in Points : DragTo(p)
    \/ applyCrop \/ rotate90 \/ cancelCrop \/ undo \/ onPointerUp
    \/ \E k \in 0..1 : BeginStroke(k)
    \/ \E k \in 1..MaxDabs : DragStroke(k)
    \/ StrokeLands \/ DabStarts \/ DabLands \/ EditLands \/ Encoded

Spec == Init /\ [][Next]_gestureVars

-----------------------------------------------------------------------------
(* A box made for the pixels that are there lies within them and keeps the *)
(* ratio that was chosen, by whatever drags it came to be; and once it is  *)
(* let go, one that no ratio shrank is large enough to be applied.  What   *)
(* happens to a box whose pixels change under it, or below the smallest    *)
(* size, is in the README.                                                 *)
CropFits ==
    rect # Nothing /\ rect.of = present /\ ~Small(present) =>
        LET r == rect.box IN
        /\ r.x >= 0 /\ r.y >= 0 /\ r.x + r.w <= present.w /\ r.y + r.h <= present.h
        /\ aspect # Free => r.w = Wide(r.h, aspect)
        /\ aspect = Free /\ drag = Idle => ~Small(r)

(* What a stroke adds to the history are the dabs of that one stroke: one  *)
(* undo takes back one stroke, however far behind the pointer the worker   *)
(* was.  An edit asked for before an undo lands with the pixels it was     *)
(* asked for, whatever strokes those had.                                  *)
StrokeIsOneEntry ==
    LET all == Append(past, present) IN
    \A i \in 1..Len(past) : all[i + 1].by = "stroke" =>
        \A s, t \in all[i + 1].dabs \ all[i].dabs : s = t

(* What the pointer did is what the image gets.                            *)
GesturesLand == CropFits /\ StrokeIsOneEntry
=============================================================================
