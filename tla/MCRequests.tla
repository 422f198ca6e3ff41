----------------------------- MODULE MCRequests -----------------------------
(* Bounds for TLC: what one customer asks of the submission routes, and may *)
(* ask again, and the library they start with.                             *)
EXTENDS Integers

CONSTANTS k1, k2, k3, NoKey

Request(op, family) ==
    [op |-> op, family |-> family, prompt |-> "plain", batch |-> 1, mode |-> "none",
     refs |-> <<>>, ref |-> "none", mask |-> "none", persona |-> "none", parent |-> 0]

TwoImages == [Request("generate", "nano-banana") EXCEPT !.batch = 2, !.ref = "photo"]
Forbidden == [Request("generate", "flux") EXCEPT !.prompt = "foul"]
Morph == [Request("generate", "veo") EXCEPT !.mode = "keyframes",
                                            !.refs = <<"photo", "sketch">>]
FoulMorph == [Morph EXCEPT !.refs = <<"photo", "nude">>]
Fill == [Request("edit", "edit-fill") EXCEPT !.mask = "bytes", !.parent = 1]
Likeness == [Request("generate", "nano-banana") EXCEPT !.persona = "self"]
Longer == [Request("generate", "veo") EXCEPT !.mode = "extend", !.parent = 2]

MCThings == {"photo", "sketch", "nude", "self"}
MCFickle == {"flux", "photo", "image"}
MCFlagged == {"foul", "nude"}

AskFor(key, body) == [key |-> key, body |-> body]
MCMenus ==
    {{AskFor(k1, TwoImages), AskFor(k1, Forbidden)},
     {AskFor(k2, Morph), AskFor(NoKey, FoulMorph), AskFor(NoKey, Longer)},
     {AskFor(k1, Fill), AskFor(k2, Likeness)}}

(* The flagged reference, sent under one key again.                        *)
FoulMenu == {{AskFor(k1, FoulMorph)}}

Old(kind, family) ==
    [key |-> NoKey, of |-> 0, kind |-> kind, family |-> family, status |-> "done",
     deleted |-> FALSE, fromPlan |-> 0, fromPack |-> 0, recorded |-> FALSE]

MCLibrary == <<Old("image", "flux"), Old("video", "veo")>>
=============================================================================
