------------------------------ MODULE StudioTools ------------------------------
(***************************************************************************)
(* The strip of the active editing tool (right-panel.ts, tool-options*.ts, *)
(* preview-scheduler.ts, selection-stamp.ts): sliders previewed by the     *)
(* worker, one run at a time; a depth pass previewed by a model; clicks    *)
(* turned into a mask by another; and what is applied from either.         *)
(*                                                                         *)
(* Of the editing session there is what the strip reads and calls: the     *)
(* pixels, by the opening and the number of the edit that made them, and   *)
(* the uncommitted preview.  A commit takes effect whenever its operation  *)
(* ends; their order and what they do to the pixels is EditSession's.      *)
(*                                                                         *)
(* "crop" stands for the tools whose slider has a neutral position and is  *)
(* reset once applied, "enhance" for those that preview when they open.    *)
(***************************************************************************)
EXTENDS Naturals, Sequences, FiniteSets, SequencesExt

CONSTANTS
    MaxOpens,     \* images opened
    MaxRevision,  \* changes to the image of an opening
    MaxClicks,  \* what the customer does in all
    MaxAsked,     \* models at work for the strip at once
    FailingApplies \* whether an operation that would commit may fail

VARIABLES
    editing,     \* the workspace is in edit mode
    image,       \* EditEngine: past, present and future pixels, or Closed
    openToken, revision,
    activeTool,
    slider,      \* the value of the tool's sliders: neutral is 0
    scheds,      \* the two PreviewSchedulers of the strip
    previews,    \* worker operations under way for a preview
    shown,       \* previewBufSig: what made it and from what, or NoPreview
    selection,   \* the mask of the clicked object and its stamp, or Unselected
    points,      \* whether anything was clicked
    asked,       \* models at work
    applying,    \* operations that will commit
    clicks     \* how often the customer did something

toolVars == <<editing, image, openToken, revision, activeTool, slider, scheds, previews,
              shown, selection, points, asked, applying, clicks>>

OpTools == {"crop", "enhance"}
PickTools == {"bokeh", "select", "erase"}
StudioTool == OpTools \cup PickTools
Unused == "none"
Closed == [past |-> <<>>, present |-> <<>>, future |-> <<>>]
NoPreview == [by |-> Unused, value |-> 0, of |-> <<>>]
Unselected == [stamp |-> <<>>, of |-> <<>>]
Quiet == [frame |-> FALSE, active |-> FALSE, pending |-> FALSE, stale |-> FALSE]
NewStrip == [s \in {"ops", "bokeh"} |-> Quiet]

Init ==
    /\ editing = FALSE /\ image = Closed /\ openToken = 0 /\ revision = 0
    /\ activeTool = Unused /\ slider = 0 /\ scheds = NewStrip
    /\ previews = {} /\ shown = NoPreview
    /\ selection = Unselected /\ points = FALSE
    /\ asked = {} /\ applying = {} /\ clicks = 0

Open == image # Closed
mounted == editing /\ activeTool # Unused

-----------------------------------------------------------------------------
(* PreviewScheduler.                                                       *)

Scheduled(s) == IF s.active THEN [s EXCEPT !.pending = TRUE] ELSE [s EXCEPT !.frame = TRUE]

Cancelled(s) == [s EXCEPT !.frame = FALSE, !.pending = FALSE, !.stale = s.active]

Started(s) == [s EXCEPT !.frame = FALSE, !.active = TRUE, !.stale = FALSE]

(* A run that was cancelled leaves what was asked for since where it is.   *)
Finished(s) ==
    IF s.stale \/ ~s.pending THEN [s EXCEPT !.active = FALSE, !.stale = FALSE]
    ELSE [Quiet EXCEPT !.frame = TRUE]

schedule(which) == scheds' = [scheds EXCEPT ![which] = Scheduled(@)]
cancel(which) == scheds' = [scheds EXCEPT ![which] = Cancelled(@)]

-----------------------------------------------------------------------------
(* The session's side.                                                     *)

Outdated == {[p EXCEPT !.live = FALSE] : p \in previews}
resetPreview == previews' = Outdated /\ shown' = NoPreview
showPreviewBuffer(by) ==
    previews' = Outdated /\ shown' = [by |-> by, value |-> 0, of |-> image.present]

session == <<editing, image, openToken, revision>>
strip == <<activeTool, slider, selection, points>>

(* Every other edit turns or crops the image.                              *)
Size(px) == px[2] % 2

(* A commit, and what afterChange does with the preview.                   *)
Commit ==
    /\ revision < MaxRevision /\ revision' = revision + 1
    /\ image' = [past |-> Append(image.past, image.present), future |-> <<>>,
                 present |-> <<openToken, revision + 1>>]
    /\ resetPreview

Restore(from, to, e) ==
    /\ Open /\ image[from] # <<>>
    /\ revision < MaxRevision /\ revision' = revision + 1
    /\ image' = e /\ resetPreview
    /\ UNCHANGED <<editing, openToken, strip, scheds, asked, applying>>

undo ==
    Restore("past", "future",
            [past |-> Front(image.past), present |-> Last(image.past),
             future |-> Append(image.future, image.present)])
redo ==
    Restore("future", "past",
            [past |-> Append(image.past, image.present), present |-> Last(image.future),
             future |-> Front(image.future)])

(* Whatever the worker was at settles as aborted, and its run is over.     *)
Aborted == [scheds EXCEPT !["ops"] = IF @.active THEN Finished(@) ELSE @]

close == image' = Closed /\ previews' = {} /\ shown' = NoPreview /\ applying' = {}

-----------------------------------------------------------------------------
(* Mounting, switching and closing tools.                                  *)

(* Sliders and selection go back to their defaults; what previews at once  *)
(* is asked to.                                                            *)
Reset(s, tool) ==
    LET off == [w \in DOMAIN s |-> Cancelled(s[w])] IN
    IF tool = "enhance" THEN [off EXCEPT !["ops"] = Scheduled(@)] ELSE off

resetPending(s, tool) ==
    /\ scheds' = Reset(s, tool)
    /\ slider' = 0 /\ selection' = Unselected /\ points' = FALSE

(* What a strip that is gone has asked for still comes, and finds the tool *)
(* it was for selected: its input was never told otherwise.                *)
Orphaned == {[a EXCEPT !.ours = FALSE] : a \in {b \in asked : b.kind \in {activeTool, "erase", "ai"}}}

unmount ==
    /\ scheds' = NewStrip /\ slider' = 0
    /\ selection' = Unselected /\ points' = FALSE
    /\ asked' = Orphaned

selectTool(t) ==
    LET to == IF activeTool = t THEN Unused ELSE t IN
    /\ editing /\ activeTool' = to
    /\ resetPreview
    /\ IF to = Unused THEN unmount
       ELSE resetPending(IF mounted THEN scheds ELSE NewStrip, to) /\ UNCHANGED asked
    /\ UNCHANGED <<session, applying>>

(* An image is opened for editing, in the place of another or not.         *)
beginOpen ==
    /\ openToken < MaxOpens /\ openToken' = openToken + 1
    /\ close
    /\ editing' = TRUE
    /\ IF ~editing /\ activeTool # Unused
         THEN resetPending(NewStrip, activeTool)
         ELSE scheds' = Aborted /\ UNCHANGED <<slider, selection, points>>
    /\ UNCHANGED <<revision, activeTool, asked>>

completeOpen ==
    /\ editing /\ ~Open
    /\ image' = [Closed EXCEPT !.present = <<openToken, 0>>] /\ revision' = 0
    /\ UNCHANGED <<editing, openToken, strip, scheds, previews, shown, asked, applying>>

exitEdit ==
    /\ editing /\ editing' = FALSE
    /\ close /\ openToken' = openToken + 1
    /\ openToken < MaxOpens
    /\ IF mounted THEN unmount ELSE UNCHANGED <<scheds, slider, selection, points, asked>>
    /\ UNCHANGED <<revision, activeTool>>

-----------------------------------------------------------------------------
(* PreviewOpsController.                                                   *)

MoveSlider(value) ==
    /\ mounted /\ activeTool \in OpTools /\ value # slider
    /\ slider' = value /\ schedule("ops")
    /\ UNCHANGED <<session, activeTool, selection, points, previews, shown, asked, applying>>

(* Another tool's run is over at once; a slider in its neutral position is *)
(* no preview.                                                             *)
runPreview ==
    /\ scheds["ops"].frame
    /\ IF ~Open \/ activeTool \notin OpTools
         THEN /\ scheds' = [scheds EXCEPT !["ops"] = Finished(Started(@))]
              /\ UNCHANGED <<previews, shown>>
         ELSE IF activeTool = "crop" /\ slider = 0
         THEN /\ scheds' = [scheds EXCEPT !["ops"] = Finished(Started(@))]
              /\ resetPreview
         ELSE /\ scheds' = [scheds EXCEPT !["ops"] = Started(@)]
              /\ previews' = Outdated \cup {[by |-> activeTool, value |-> slider,
                                             of |-> image.present, live |-> TRUE]}
              /\ UNCHANGED shown
    /\ UNCHANGED <<session, strip, asked, applying>>

(* The scheduler waits for one run at a time: what the worker still does   *)
(* for a strip that is gone was outdated when it went.                     *)
PreviewEnds(p) ==
    /\ p \in previews /\ previews' = previews \ {p}
    /\ shown' = IF p.live THEN [by |-> p.by, value |-> p.value, of |-> p.of] ELSE shown
    /\ scheds' = IF scheds["ops"].active /\ (p.live \/ Cardinality(previews) = 1)
                 THEN [scheds EXCEPT !["ops"] = Finished(@)] ELSE scheds
    /\ UNCHANGED <<session, strip, asked, applying>>

Work(kind, of) == [kind |-> kind, token |-> openToken, of |-> of]

applyOp ==
    /\ mounted /\ Open /\ activeTool \in OpTools
    /\ IF activeTool = "crop" /\ slider = 0
         THEN UNCHANGED scheds   \* a turn or a flip leaves the preview alone
         ELSE cancel("ops")
    /\ applying = {} /\ applying' = {Work(activeTool, image.present)}
    /\ UNCHANGED <<session, strip, previews, shown, asked>>

(* runCutout, runUpscale, runAiSharpen; applyBokeh.                        *)
applyEngine ==
    /\ mounted /\ Open /\ activeTool = "bokeh"
    /\ cancel("bokeh")
    /\ applying = {} /\ applying' = {Work("engine", image.present)}
    /\ UNCHANGED <<session, strip, previews, shown, asked>>

ApplyEnds(a, ok) ==
    /\ a \in applying /\ applying' = applying \ {a}
    /\ ok \/ FailingApplies
    /\ IF ok THEN Commit ELSE UNCHANGED <<image, revision, previews, shown>>
    /\ slider' = IF ok /\ a.kind = "crop" /\ activeTool = "crop" THEN 0 ELSE slider
    /\ UNCHANGED <<editing, openToken, activeTool, selection, points, scheds, asked>>

-----------------------------------------------------------------------------
(* EngineToolsController.                                                  *)

(* Mutant of stamp: two images both start at revision zero.                *)
StampOfRevision == <<0, revision, Size(image.present)>>

stamp == <<openToken, revision, Size(image.present)>>

stampMatches(s) == Open /\ s = stamp

Ask(kind) ==
    /\ Cardinality(asked) < MaxAsked
    /\ asked' = asked \cup {[kind |-> kind, stamp |-> stamp, of |-> image.present, ours |-> TRUE]}

(* A click on the canvas: the focus of the depth pass, an object to        *)
(* select, or one to erase.                                                *)
Pick ==
    /\ mounted /\ Open /\ applying = {}
    /\ \/ /\ activeTool = "bokeh" /\ slider' = 1 /\ schedule("bokeh")
          /\ UNCHANGED <<points, asked>>
       \/ /\ activeTool = "select" /\ points' = TRUE /\ Ask("select")
          /\ UNCHANGED <<slider, scheds>>
       \/ /\ activeTool = "erase" /\ Ask("erase")
          /\ UNCHANGED <<slider, points, scheds>>
    /\ UNCHANGED <<session, activeTool, selection, previews, shown, applying>>

runBokehPreview ==
    /\ scheds["bokeh"].frame
    /\ IF Open /\ Cardinality(asked) < MaxAsked
         THEN Ask("bokeh") /\ scheds' = [scheds EXCEPT !["bokeh"] = Started(@)]
         ELSE /\ scheds' = [scheds EXCEPT !["bokeh"] = Finished(Started(@))]
              /\ UNCHANGED asked
    /\ UNCHANGED <<session, strip, previews, shown, applying>>

Answered(a) == a \in asked /\ asked' = asked \ {a} /\ UNCHANGED session

BokehAnswers(a, ok) ==
    /\ a.kind = "bokeh" /\ Answered(a)
    /\ scheds' = IF a.ours THEN [scheds EXCEPT !["bokeh"] = Finished(@)] ELSE scheds
    /\ IF ok /\ (a.ours => activeTool = "bokeh") /\ Open
         THEN showPreviewBuffer("bokeh") ELSE UNCHANGED <<previews, shown>>
    /\ UNCHANGED <<strip, applying>>

SelectAnswers(a, ok) ==
    /\ a.kind = "select" /\ Answered(a)
    /\ IF ok /\ (a.ours => activeTool = "select") /\ stampMatches(a.stamp)
         THEN /\ selection' = IF a.ours THEN [stamp |-> a.stamp, of |-> a.of] ELSE selection
              /\ showPreviewBuffer("select")
         ELSE UNCHANGED <<selection, previews, shown>>
    /\ UNCHANGED <<activeTool, slider, points, scheds, applying>>

applyHeal(of) == applying' = applying \cup {Work("heal", of)}

EraseAnswers(a, ok) ==
    /\ a.kind = "erase" /\ Answered(a)
    /\ IF ok /\ stampMatches(a.stamp) THEN applyHeal(a.of) ELSE UNCHANGED applying
    /\ UNCHANGED <<strip, scheds, previews, shown>>

usableSelection == selection # Unselected /\ stampMatches(selection.stamp)

selectClear == selection' = Unselected /\ points' = FALSE /\ resetPreview

(* Remove, Cut out, AI Remove and AI Fill, or Clear; a mask that describes *)
(* other pixels is dropped, and the customer told so.                      *)
UseSelection ==
    /\ mounted /\ activeTool = "select" /\ selection # Unselected
    /\ \/ /\ usableSelection
          /\ selectClear /\ applyHeal(selection.of) /\ UNCHANGED asked
       \/ /\ usableSelection
          /\ Ask("ai") /\ UNCHANGED <<selection, points, previews, shown, applying>>
       \/ selectClear /\ UNCHANGED <<asked, applying>>
    /\ UNCHANGED <<session, activeTool, slider, scheds>>

(* The mask was made into a picture: the workspace is asked for the edit.  *)
selectionMaskPng(a) ==
    /\ a.kind = "ai" /\ Answered(a)
    /\ resetPreview
    /\ IF a.ours THEN selection' = Unselected /\ points' = FALSE
                 ELSE UNCHANGED <<selection, points>>
    /\ UNCHANGED <<activeTool, slider, scheds, applying>>

Click ==
    \/ beginOpen \/ exitEdit \/ undo \/ redo
    \/ \E t \in StudioTool : selectTool(t)
    \/ \E v \in {0, 1} : MoveSlider(v)
    \/ applyOp \/ applyEngine \/ Pick \/ UseSelection

Answer ==
    \/ completeOpen \/ runPreview \/ runBokehPreview
    \/ \E p \in previews : PreviewEnds(p)
    \/ \E a \in applying, ok \in BOOLEAN : ApplyEnds(a, ok)
    \/ \E a \in asked, ok \in BOOLEAN :
         BokehAnswers(a, ok) \/ SelectAnswers(a, ok) \/ EraseAnswers(a, ok)
    \/ \E a \in asked : selectionMaskPng(a)

Next ==
    \/ clicks < MaxClicks /\ clicks' = clicks + 1 /\ Click
    \/ Answer /\ UNCHANGED clicks

Spec == Init /\ [][Next]_toolVars

-----------------------------------------------------------------------------
(* A mask the strip lets the customer use was made from the very pixels    *)
(* that are shown, whatever was undone, redone, committed or opened since  *)
(* the click, and whenever its model answered.                             *)
MaskFitsPixels == usableSelection => selection.of = image.present

(* A slider's preview is of the tool that is open, of the pixels that are  *)
(* committed and, unless a run or a commit is still owed, of where the     *)
(* slider is.  An apply that fails leaves an old preview: see the README.  *)
PreviewIsOwned ==
    shown.by \in OpTools =>
        /\ mounted /\ activeTool = shown.by
        /\ shown.of = image.present
        /\ \/ shown.value = slider
           \/ scheds["ops"].frame \/ scheds["ops"].active \/ scheds["ops"].pending
           \/ applying # {}

(* The strip acts on, and shows, the image that is there.                  *)
StripFitsImage == MaskFitsPixels /\ PreviewIsOwned
=============================================================================
