----------------------------- MODULE RailPanel -----------------------------
(***************************************************************************)
(* The workspace's left panel (left-panel.ts, reference-drop.ts): the      *)
(* settings and images of the next request, one action per handler, and    *)
(* uploads whose answers come while the customer goes on choosing.  What   *)
(* generate would send is held against the gateway's checks and price.     *)
(*                                                                         *)
(* Left out: the prompt's text and which trend wrote it, the balance, and  *)
(* the availability of models, which only disables buttons.                *)
(***************************************************************************)
EXTENDS Catalogue

CONSTANTS
    Families,     \* the families the run offers
    TrendRatios,  \* the aspect ratios of the trend presets
    MaxBatch,     \* BATCH_MAX
    MaxDurations  \* of a family, that are tried

VARIABLES
    pro,          \* profileStore.proActive
    familyId, settings, videoMode, batch, persona,
    reference,    \* where the reference image comes from, or Unset
    uploading,    \* a reference upload is under way
    refSlots,     \* the video's reference slots: filled or not, by position
    drops,        \* slots an upload of ReferenceDrop is under way for
    videoParent   \* the family of the clip to continue, or Unset

panelVars == <<pro, familyId, settings, videoMode, batch, persona, reference, uploading,
               refSlots, drops, videoParent>>

family == familyById(familyId)
kind == family.kind
OfKind(k) == {f \in Families : f.kind = k}

(* The first of the registry's order is its first here too.                *)
Order == <<"nano-banana", "gpt-image", "flux", "seedream",
           "veo", "omni", "kling", "runway", "seedance">>
FirstOf(families) ==
    familyById(Order[Min({i \in DOMAIN Order : \E f \in families : f.id = Order[i]})])
firstFamilyOf(k) == FirstOf(OfKind(k))

videoFamilySupports(f, mode) == mode \in f.modes

Start(f) == [settings |-> defaultSettings(f),
             mode |-> IF f.kind = "video" THEN "t2v" ELSE Unset]

(* The customer's preferences decide where the panel starts.               *)
Init ==
    /\ pro \in BOOLEAN
    /\ \E f \in OfKind(IF pro THEN "video" ELSE "image") \cup OfKind("image"),
          ratio \in ToSet(AR_IMAGE) :
         /\ familyId = f.id
         /\ settings = [Start(f).settings EXCEPT
                !.aspectRatio = IF ratio \in ToSet(f.aspectRatios) THEN ratio ELSE @]
         /\ videoMode = Start(f).mode
    /\ batch = 1
    /\ persona \in BOOLEAN
    /\ reference = Unset /\ uploading = FALSE
    /\ refSlots = <<>> /\ drops = {} /\ videoParent = Unset

-----------------------------------------------------------------------------
(* What is shown.                                                          *)

personaActive == kind = "image" /\ persona
refRule == IF kind = "video" THEN referenceRule(videoMode) ELSE referenceRule("t2v")
showReferences == refRule.max > 0
resolutionOptions == resolutionsFor(family, settings.aspectRatio, settings.version)
hideAspect == kind = "video" /\ videoMode \in {"i2v", "keyframes"}

Filled(slots) == {i \in DOMAIN slots : slots[i]}

videoInputsReady ==
    \/ kind = "image"
    \/ /\ refRule.needsParent
       /\ videoParent # Unset
    \/ /\ ~refRule.needsParent
       /\ Cardinality(Filled(refSlots)) \in refRule.min..refRule.max
       /\ Filled(refSlots) = 1..Cardinality(Filled(refSlots))

unitCredits ==
    IF personaActive THEN personaGenCreditCost
    ELSE creditCost(family, settings, IF reference = Unset THEN 0 ELSE 1)

priceCredits == unitCredits * (IF kind = "video" THEN 1 ELSE batch)

(* A component that is no longer shown is destroyed: its upload's answer   *)
(* goes nowhere.                                                           *)
Mounted == drops' = IF showReferences' THEN drops ELSE {}

-----------------------------------------------------------------------------
(* Handlers.                                                               *)

others == <<pro, persona, batch, uploading>>

selectFamily(f) ==
    /\ familyId' = f.id
    /\ settings' = defaultSettings(f)
    /\ videoMode' = Start(f).mode
    /\ refSlots' = <<>> /\ videoParent' = Unset /\ drops' = {}
    /\ reference' = IF f.imageInput THEN reference ELSE Unset
    /\ batch' = 1
    /\ UNCHANGED <<pro, persona, uploading>>

PickFamily(f) == ~personaActive /\ f.kind = kind /\ selectFamily(f)

(* Changing mode applies the preferred video mode, if the family has it.   *)
setMode(k, preferred) ==
    /\ k = "video" => pro
    /\ LET f == firstFamilyOf(k) IN
         IF k = "video" /\ videoFamilySupports(f, preferred)
           THEN /\ familyId' = f.id /\ settings' = defaultSettings(f)
                /\ videoMode' = preferred
                /\ refSlots' = <<>> /\ videoParent' = Unset /\ drops' = {} /\ batch' = 1
                /\ UNCHANGED <<reference, pro, persona, uploading>>
           ELSE selectFamily(f)

setVideoMode(mode) ==
    /\ videoFamilySupports(family, mode) /\ mode # videoMode
    /\ videoMode' = mode /\ refSlots' = <<>> /\ videoParent' = Unset
    /\ UNCHANGED <<others, familyId, settings, reference>>
    /\ Mounted

(* From a clip's detail view: a family that can continue or edit it, its   *)
(* own first; only its own can extend it.                                  *)
startVideoFollowUp(clip, mode) ==
    LET able == {f \in OfKind("video") : videoFamilySupports(f, mode)}
        target == IF clip \in able THEN clip ELSE FirstOf(able)
    IN  /\ pro /\ able # {}
        /\ mode = "extend" => clip \in able
        /\ familyId' = target.id /\ settings' = defaultSettings(target)
        /\ videoMode' = mode /\ videoParent' = clip.id
        /\ refSlots' = <<>> /\ drops' = {} /\ batch' = 1
        /\ UNCHANGED <<pro, persona, uploading, reference>>

Largest(S, options) == options[Max({i \in DOMAIN options : options[i] \in S})]

(* The largest size and quality still on offer replace what was withdrawn. *)
clampSettings(s) ==
    LET sizes == resolutionsFor(family, s.aspectRatio, s.version)
        steps == qualitiesFor(family, s.version)
    IN  [s EXCEPT
            !.resolution = IF family.resolutions # <<>> /\ @ \notin sizes
                             THEN Largest(sizes, family.resolutions) ELSE @,
            !.quality = IF family.qualities # <<>> /\ @ \notin steps
                          THEN Largest(steps, family.qualities) ELSE @,
            !.audio = IF family.audio # "selectable" THEN Unset
                      ELSE IF @ = Unset THEN "off" ELSE @]

Chosen(s) == settings' = s /\ UNCHANGED <<others, familyId, videoMode, reference, refSlots,
                                          drops, videoParent>>

(* Mutant of setAxis: only a new ratio can withdraw a size.                *)
SetAxisClampRatio(axis, value) ==
    Chosen(IF axis = "aspectRatio" THEN clampSettings([settings EXCEPT ![axis] = value])
           ELSE [settings EXCEPT ![axis] = value])

setAxis(axis, value) ==
    Chosen(IF axis \in {"version", "aspectRatio"}
             THEN clampSettings([settings EXCEPT ![axis] = value])
             ELSE [settings EXCEPT ![axis] = value])

setVersion(v) == ~personaActive /\ v \in ToSet(family.versions) /\ setAxis("version", v)
setAspect(a) == ~hideAspect /\ a \in ToSet(family.aspectRatios) /\ setAxis("aspectRatio", a)

(* The slider skips the sizes the version or the ratio cannot run.         *)
setResolution(r) ==
    ~personaActive /\ r \in resolutionOptions /\ setAxis("resolution", r)
setQuality(q) ==
    ~personaActive /\ q \in qualitiesFor(family, settings.version) /\ setAxis("quality", q)
setDuration(d) == d \in ToSet(family.durations) /\ Chosen([settings EXCEPT !.durationS = d])
setAudio(a) == family.audio = "selectable" /\ Chosen([settings EXCEPT !.audio = a])

chosen == <<pro, familyId, settings, videoMode>>
inputs == <<refSlots, drops, videoParent>>

stepBatch(delta) ==
    /\ kind = "image" /\ batch + delta \in 1..MaxBatch
    /\ batch' = batch + delta
    /\ UNCHANGED <<chosen, persona, reference, uploading, inputs>>

(* A trend brings its ratio, and leaves the size as it was.                *)
applyTrend(ratio) ==
    /\ kind = "image" /\ ratio \in ToSet(family.aspectRatios)
    /\ Chosen([settings EXCEPT !.aspectRatio = ratio])

setPersona(on) ==
    /\ kind = "image" /\ on # persona
    /\ personaActive \/ reference = Unset
    /\ persona' = on /\ reference' = IF on THEN Unset ELSE reference
    /\ UNCHANGED <<chosen, batch, uploading, inputs>>

(* The remembered persona turns out to be gone or unfinished.              *)
PersonaGone ==
    /\ persona /\ persona' = FALSE
    /\ UNCHANGED <<chosen, batch, reference, uploading, inputs>>

referenceTiles == kind = "image" /\ family.imageInput /\ ~personaActive /\ reference = Unset

setReference(source) ==
    /\ \/ source = "library" /\ referenceTiles
       \/ source = Unset /\ kind = "image" /\ ~personaActive /\ reference # Unset
    /\ reference' = source
    /\ UNCHANGED <<chosen, batch, persona, uploading, inputs>>

onFilePicked ==
    /\ referenceTiles /\ ~uploading
    /\ uploading' = TRUE
    /\ UNCHANGED <<chosen, batch, persona, reference, inputs>>

FileAnswered(ok) ==
    /\ uploading
    /\ uploading' = FALSE
    /\ reference' = IF ok THEN "upload" ELSE reference
    /\ UNCHANGED <<chosen, batch, persona, inputs>>

-----------------------------------------------------------------------------
(* ReferenceDrop: slots are positions, not a list.                         *)

Slot(i) == i \in DOMAIN refSlots /\ refSlots[i]

visible ==
    1..(IF videoMode = "keyframes" THEN refRule.max
        ELSE Min({Cardinality(Filled(refSlots)) + 1, refRule.max}))

(* The slots grown to the mode's width, and to the index written.          *)
Placed(index, filled) ==
    [i \in 1..Max({Len(refSlots), refRule.max, index}) |-> IF i = index THEN filled ELSE Slot(i)]

addFile(index) ==
    /\ showReferences /\ index \in visible /\ ~Slot(index)
    /\ drops' = drops \cup {index}
    /\ UNCHANGED <<chosen, batch, persona, reference, uploading, refSlots, videoParent>>

place(index, ok) ==
    /\ drops' = drops \ {index}
    /\ refSlots' = IF ok THEN Placed(index, TRUE) ELSE refSlots
    /\ UNCHANGED <<chosen, batch, persona, reference, uploading, videoParent>>

clear(index) ==
    /\ showReferences /\ index \in visible /\ Slot(index)
    /\ refSlots' = Placed(index, FALSE)
    /\ UNCHANGED <<chosen, batch, persona, reference, uploading, drops, videoParent>>

(* The picker offers Omni only its own clips, and every other family all.  *)
setVideoParent(clip) ==
    /\ kind = "video" /\ refRule.needsParent
    /\ familyId = "omni" => clip.id = "omni"
    /\ videoParent' = clip.id
    /\ UNCHANGED <<chosen, batch, persona, reference, uploading, refSlots, drops>>

(* The reference is let go once the request was accepted.                  *)
generate ==
    /\ videoInputsReady
    /\ refSlots' = <<>>
    /\ reference' \in {reference, Unset}
    /\ UNCHANGED <<chosen, batch, persona, uploading, drops, videoParent>>

ProfileLoaded ==
    /\ pro' = ~pro
    /\ UNCHANGED <<familyId, settings, videoMode, batch, persona, reference, uploading, inputs>>

Next ==
    \/ \E f \in Families : PickFamily(f)
    \/ \E m \in {"t2v", "i2v"} : setMode("video", m) \/ setMode("image", m)
    \/ \E m \in {"t2v", "i2v", "ref2v", "keyframes", "extend", "edit"} : setVideoMode(m)
    \/ \E f \in OfKind("video"), m \in {"extend", "edit"} : startVideoFollowUp(f, m)
    \/ \E v \in ToSet(family.versions) : setVersion(v)
    \/ \E a \in ToSet(family.aspectRatios) : setAspect(a)
    \/ \E r \in ToSet(family.resolutions) : setResolution(r)
    \/ \E q \in ToSet(family.qualities) : setQuality(q)
    \/ \E i \in 1..Min({Len(family.durations), MaxDurations}) : setDuration(family.durations[i])
    \/ \E a \in ToSet(AUDIO_OPTIONS) : setAudio(a)
    \/ \E d \in {1, -1} : stepBatch(d)
    \/ \E r \in TrendRatios : applyTrend(r)
    \/ \E on \in BOOLEAN : setPersona(on)
    \/ PersonaGone
    \/ \E r \in {"library", Unset} : setReference(r)
    \/ onFilePicked
    \/ \E ok \in BOOLEAN : FileAnswered(ok)
    \/ \E i \in 1..3 : addFile(i) \/ clear(i)
    \/ \E i \in drops, ok \in BOOLEAN : place(i, ok)
    \/ \E f \in OfKind("video") : setVideoParent(f)
    \/ generate \/ ProfileLoaded

Spec == Init /\ [][Next]_panelVars

-----------------------------------------------------------------------------
(* The gateway's answer to what generate sends.  Images: submitGeneration; *)
(* videos: prepareVideo.                                                   *)

Sent == IF personaActive THEN personaSettings(settings.aspectRatio) ELSE settings
SentFamily == IF personaActive THEN NANO_BANANA ELSE family
SentReference == IF kind = "image" /\ ~personaActive THEN reference ELSE Unset

SettingsTaken == validateSettings(SentFamily, Sent) /\ ~Unrenderable(SentFamily, Sent)
ReferenceTaken == SentReference = "upload" => family.imageInput
ParentTaken ==
    refRule.needsParent =>
        videoParent # Unset /\ (familyId = "veo" => videoParent = "veo")
SlotsTaken ==
    kind = "video" =>
        /\ videoFamilySupports(family, videoMode)
        /\ Cardinality(Filled(refSlots)) \in refRule.min..refRule.max

Charge ==
    IF personaActive THEN personaGenCreditCost * batch
    ELSE quote(family, settings, SentReference # Unset) * (IF kind = "video" THEN 1 ELSE batch)

(* Three ways to a refusal are known (see the README): a trend whose ratio *)
(* withdraws the chosen size, an upload that answers after the switch to a *)
(* family that takes none, and a clip Veo did not make.                    *)
Withdrawn == <<settings.aspectRatio, settings.resolution>> \in family.resolutionExclusions
LateUpload == SentReference = "upload" /\ ~family.imageInput
ForeignClip == familyId = "veo" /\ videoParent \notin {"veo", Unset}

(* Whatever was clicked, dropped or answered before, in any order: when    *)
(* the Generate button is live the gateway takes the request, for the      *)
(* price on the button.  The panel and the gateway derive both on their    *)
(* own.                                                                    *)
RailMatchesGateway ==
    videoInputsReady /\ ~Withdrawn /\ ~LateUpload /\ ~ForeignClip =>
        /\ SettingsTaken /\ ReferenceTaken /\ ParentTaken /\ SlotsTaken
        /\ Charge = priceCredits

(* left-panel.ts:223-224: "so the chips on offer and the requests accepted   *)
(* cannot drift apart".                                                    *)
ChipsAreAccepted == kind = "image" => SettingsTaken
=============================================================================
