------------------------------ MODULE MCStudio ------------------------------
(***************************************************************************)
(* The components of the studio, where images are edited, side by side:    *)
(* one run checks them all, and a behaviour is of one of them.             *)
(***************************************************************************)
EXTENDS Integers

CONSTANTS
    Pictures, MaxLibrary, MaxHistory, MaxActs,
    MaxOpens, MaxRevision, MaxClicks, MaxAsked, FailingApplies, Width,
    Height, Xs, Ys, Handles, MaxDabs, MaxGestures, TinyBoxes, Borrowers,
    Lives, Manifest, Leftovers, CacheBudget, NoLive, MaxRuns

MCRatios == {<<0, 0>>, <<2, 1>>}   \* free, and two to one

VARIABLES
    part,    \* the component this behaviour is of
    library, rendering, item, engine, openings, dirty, editorBusy,
    editorPreview, editorQueue, saves, entering, asking, discarded, aiOpened,
    acts, selfOpened, moved,
    editing, image, openToken, revision, activeTool, slider, scheds,
    previews, toolsShown, selection, points, asked, applying, clicks,
    tool, aspect, past, present, encoding, rect, drag, pressed, painting,
    stroked, canvasQueue, canvasPreview, strokes, gestures,
    sessions, lives, cache, usage, pinned, tools, runs

EditorVars == <<library, rendering, item, engine, openings, dirty,
                editorBusy, editorPreview, editorQueue, saves, entering,
                asking, discarded, aiOpened, acts, selfOpened, moved>>
ToolsVars == <<editing, image, openToken, revision, activeTool, slider,
               scheds, previews, toolsShown, selection, points, asked,
               applying, clicks>>
CanvasVars == <<tool, aspect, past, present, encoding, rect, drag, pressed,
                painting, stroked, canvasQueue, canvasPreview, strokes,
                gestures>>
SessionsVars == <<sessions, lives, cache, usage, pinned, tools, runs>>

Editor == INSTANCE EditSession
    WITH busy <- editorBusy, preview <- editorPreview,
        queue <- editorQueue
Tools == INSTANCE StudioTools
    WITH shown <- toolsShown
Canvas == INSTANCE CanvasGestures
    WITH queue <- canvasQueue, preview <- canvasPreview,
        Ratios <- MCRatios
Sessions == INSTANCE ModelSessions

(* What the code's own constants satisfy, for the components proved so.    *)
ASSUME EditorFit == Editor!ConstantsFit
ASSUME SessionsFit == Sessions!ConstantsFit

Init ==
    /\ part \in {"editor", "tools", "canvas", "models"}
    /\ Editor!Init
    /\ Tools!Init
    /\ Canvas!Init
    /\ Sessions!Init
    /\ part # "models" => \A m \in Manifest : cache[m] = "none"

Next ==
    /\ UNCHANGED part
    /\ \/ part = "editor"
          /\ UNCHANGED <<ToolsVars, CanvasVars, SessionsVars>>
          /\ Editor!Next
       \/ part = "tools"
          /\ UNCHANGED <<EditorVars, CanvasVars, SessionsVars>>
          /\ Tools!Next
       \/ part = "canvas"
          /\ UNCHANGED <<EditorVars, ToolsVars, SessionsVars>>
          /\ Canvas!Next
       \/ part = "models"
          /\ UNCHANGED <<EditorVars, ToolsVars, CanvasVars>>
          /\ Sessions!Next

Spec == Init /\ [][Next]_<<part, EditorVars, ToolsVars, CanvasVars, SessionsVars>>

-----------------------------------------------------------------------------
(* What each component promises, stated and explained in its own module.   *)

(* A clean canvas shows pixels the library holds (edit-session.ts).       *)
CleanIsStored == part = "editor" => Editor!CleanIsStored

(* Unsaved pixels do not vanish without a word (edit-session.ts).         *)
UnsavedIsKept == Editor!UnsavedIsKept

(* The strip acts on the image that is there (tool-options).              *)
StripFitsImage == part = "tools" => Tools!StripFitsImage

(* Crop box and strokes reach the image as drawn (canvas-viewport).       *)
GesturesLand == part = "canvas" => Canvas!GesturesLand

(* A model lives as long as it is borrowed (model-loader.ts).             *)
SessionsFollowWork == part = "models" => Sessions!SessionsFollowWork
=============================================================================
