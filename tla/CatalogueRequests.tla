------------------------- MODULE CatalogueRequests -------------------------
(***************************************************************************)
(* Every request's settings, one behaviour each, held against what         *)
(* GET /catalog lists (src/supabase/functions/_shared, api/services).      *)
(***************************************************************************)
EXTENDS Catalogue

(* The requests a client can send: any field may be left out, and may name *)
(* something unknown, a value another family offers being one.             *)

VARIABLE ask

NoAsk == [family |-> Unset]

SomeValue(options) == ToSet(options) \cup {Unset, Unknown}

AskSettings(family) ==
    [version : SomeValue(family.versions),
     aspectRatio : ToSet(AR_IMAGE) \cup {Unknown},
     resolution : SomeValue(family.resolutions),
     quality : SomeValue(family.qualities),
     durationS : ToSet(family.durations) \cup {0, 7},
     audio : ToSet(AUDIO_OPTIONS) \cup {Unset}]

Init == ask = NoAsk

Ask(family) ==
    /\ ask = NoAsk
    /\ \E s \in AskSettings(family) : ask' = [family |-> family.id, settings |-> s]

Next == \E family \in MODEL_FAMILIES : Ask(family)

Spec == Init /\ [][Next]_ask

-----------------------------------------------------------------------------
(* The options an assistant gives generate_image (api/mcp/options.ts).     *)

Options(family, axis) ==
    CASE axis = "version" -> family.versions
      [] axis = "aspectRatio" -> family.aspectRatios
      [] axis = "resolution" -> family.resolutions
      [] axis = "quality" -> family.qualities
      [] axis = "durationS" -> family.durations
      [] axis = "audio" -> IF family.audio = "selectable" THEN AUDIO_OPTIONS ELSE <<>>

AxisIds == <<"version", "aspectRatio", "resolution", "quality", "durationS", "audio">>

axesOf(family) == SelectSeq(AxisIds, LAMBDA axis : Options(family, axis) # <<>>)

Asked(given) ==
    {axis \in ToSet(AxisIds) :
        given[axis] # IF axis = "durationS" THEN 0 ELSE Unset}

(* The value an axis takes among the combinations left: the one asked for, *)
(* or nothing; else the default, or the first of the list that still fits. *)
ChosenOn(family, given, axis, candidates) ==
    LET allowed == {c[axis] : c \in candidates}
        default == defaultSettings(family)[axis]
    IN  IF axis \in Asked(given) THEN {given[axis]} \cap allowed
        ELSE IF default \in allowed THEN {default}
        ELSE {SelectSeq(Options(family, axis), LAMBDA v : v \in allowed)[1]}

(* Axis by axis, narrowing the combinations: one is left, or none.         *)
resolveSettings(family, given) ==
    LET narrow(candidates, axis) ==
            IF candidates = {} THEN {}
            ELSE {c \in candidates :
                     c[axis] \in ChosenOn(family, given, axis, candidates)}
    IN  IF Asked(given) \subseteq ToSet(axesOf(family))
          THEN FoldLeft(narrow, settingsOf(family), axesOf(family))
          ELSE {}

-----------------------------------------------------------------------------
(* Properties.                                                             *)

(* What each provider renders (flux.ts:10-15, seedream.ts:12-17, and the   *)
(* sizes OpenAI publishes: edges by 16, at most 3840, 3:1, 0.66 to 8.29    *)
(* million pixels).                                                        *)
Area(size) == size[1] * size[2]

SeedreamWindow ==
    [v \in seedreamModels |->
        CASE v = "4" -> 960 * 960 .. 4096 * 4096
          [] v = "4.5" -> 3686400 .. 16777216
          [] v = "5-lite" -> 3686400 .. 9437184
          [] v = "5-pro" -> 1048576 .. 4194304]

Renders(family, s) ==
    LET size == SentSize(family, s)
    IN  CASE family.id = "flux" ->
                /\ \A e \in {size[1], size[2]} : e % 16 = 0 /\ e \in 256..2560
                /\ Area(size) <= FLUX_MP(s) * 1048576
          [] family.id = "seedream" -> Area(size) \in SeedreamWindow[s.version]
          [] family.id = "gpt-image" ->
                /\ \A e \in {size[1], size[2]} : e % 16 = 0 /\ e <= 3840
                /\ Area(size) \in 655360..8294400
          [] OTHER -> TRUE

(* Every axis the family has is filled in, and no other.                   *)
Complete(family, s) ==
    /\ (s.version = Unset) = (family.versions = <<>>)
    /\ (s.resolution = Unset) = (family.resolutions = <<>>)
    /\ (s.quality = Unset) = (family.qualities = <<>>)
    /\ (s.durationS = 0) = (family.durations = <<>>)
    /\ (s.audio = Unset) = (family.audio # "selectable")

(* GET /catalog and the gateway agree: a complete request is accepted      *)
(* exactly when the catalogue lists it, and what is listed has a provider  *)
(* model and a size that model renders.  The tables live in six files.     *)
ListedIsRendered ==
    ask # NoAsk =>
      LET family == familyById(ask.family)
          s == ask.settings
      IN  /\ s \in settingsOf(family)
                <=> validateSettings(family, s) /\ Complete(family, s)
          /\ s \in settingsOf(family) =>
                ~Unrenderable(family, s) /\ Renders(family, s)
          /\ defaultSettings(family) \in settingsOf(family)

(* A credit covers 0.6 cents of a provider's bill; none is sold for less.  *)
FlatPricesCover ==
    /\ \A ratio \in personaAspectRatios :
          personaGenCreditCost * 600000
            >= providerCostWithInput(NANO_BANANA, personaSettings(ratio), PERSONA_PHOTOS)
    /\ upscaleCreditCost * 600000 >= Cents(4)
    /\ \A tool \in EDIT_TOOLS : tool.creditCost * 600000 >= tool.providerCost
    /\ \A plan \in {"studio", "pro"} :
          /\ PLAN_PRICE_USD[plan] * 1000 >= PLAN_CREDITS[plan] * 6
          /\ \A pack \in CREDIT_PACKS : pack[1] * 1000 >= packCredits(pack[1], plan) * 6

(* The price on the button is the price charged, whatever the number of    *)
(* references the gateway counts as one, and it covers the provider's bill *)
(* at the margin, to within a credit.                                      *)
ListedPriceIsCharged ==
    /\ ask = NoAsk => FlatPricesCover
    /\ ask # NoAsk =>
      LET family == familyById(ask.family)
          s == ask.settings
      IN  s \in settingsOf(family) =>
            \A n \in 0..maxReferencesOf(family) :
                LET price == comboCredits(family, s)[n]
                    cost == providerCostWithInput(family, s, n)
                IN  /\ price = quote(family, s, n > 0)
                    /\ price * 600000 >= cost
                    /\ (price - 1) * 600000 < cost

(* An assistant gets a listed combination with every option it asked for,  *)
(* and is refused only when none is listed: no default that was filled in  *)
(* along the way stands in the way of an option asked for.                 *)
OptionsAreServed ==
    ask # NoAsk =>
      LET family == familyById(ask.family)
          given == ask.settings
          served == resolveSettings(family, given)
          wanted == {s \in settingsOf(family) :
                        \A axis \in Asked(given) : s[axis] = given[axis]}
      IN  family.kind = "image" =>
            /\ served \subseteq wanted
            /\ Cardinality(served) = IF wanted = {} THEN 0 ELSE 1

(* What GET /catalog lists is what the gateway accepts, has rendered and   *)
(* charges, and what an assistant is served.                               *)
ListedIsKept == ListedIsRendered /\ ListedPriceIsCharged /\ OptionsAreServed
=============================================================================
