------------------------------ MODULE Catalogue ------------------------------
(***************************************************************************)
(* The model catalogue and its prices (supabase/functions/_shared), the    *)
(* check the gateway makes of a request's settings and the price it        *)
(* charges: pure functions of the settings.                                *)
(*                                                                         *)
(* Money is counted in units of 10^-8 dollars, fine enough for every rate  *)
(* of the tables and for the last bit of a floating-point product.         *)
(***************************************************************************)
EXTENDS Integers, Sequences, FiniteSets, SequencesExt, FiniteSetsExt

Unset == "unset"
Unknown == "unknown"   \* a well-formed value that no family offers

Settings(version, ratio, resolution, quality, seconds, audio) ==
    [version |-> version, aspectRatio |-> ratio, resolution |-> resolution,
     quality |-> quality, durationS |-> seconds, audio |-> audio]

(* A field the request left out, read with the code's ?? operator.         *)
Or(value, default) == IF value = Unset THEN default ELSE value

AR_IMAGE == <<"1:1", "3:4", "4:3", "16:9", "9:16">>
AR_VIDEO == <<"16:9", "9:16", "1:1">>
AUDIO_OPTIONS == <<"off", "on", "voice">>

(* The size tables list a portrait size as the landscape one turned.       *)
Portrait(ratio) == ratio \in {"3:4", "9:16"}
Landscape(ratio) ==
    CASE ratio = "3:4" -> "4:3" [] ratio = "9:16" -> "16:9" [] OTHER -> ratio

(* The row of a table keyed by ratio and resolution, or no row at all.     *)
RowsOf(table, ratio, resolution) ==
    {row \in table : row[1] = Landscape(ratio) /\ row[2] = resolution}

SizeIn(table, ratio, resolution, default) ==
    LET found == RowsOf(table, ratio, resolution)
        row == CHOOSE r \in found : TRUE
    IN  IF found = {} THEN default
        ELSE IF Portrait(ratio) THEN <<row[4], row[3]>> ELSE <<row[3], row[4]>>

-----------------------------------------------------------------------------
(* The families: what each one offers.  versionResolutions and             *)
(* resolutionExclusions are sets of pairs; a version that heads no pair is *)
(* unrestricted.                                                           *)

ImageFamily(id, versions, resolutions) ==
    [id |-> id, kind |-> "image", versions |-> versions,
     aspectRatios |-> AR_IMAGE, resolutions |-> resolutions,
     resolutionExclusions |-> {}, versionResolutions |-> {}, qualities |-> <<>>,
     durations |-> <<>>, audio |-> Unset, modes |-> {},
     isDefault |-> Unset, imageInput |-> TRUE, maskInput |-> FALSE]

VideoFamily(id, resolutions, durations, audio, modes) ==
    [id |-> id, kind |-> "video", versions |-> <<>>,
     aspectRatios |-> AR_VIDEO, resolutions |-> resolutions,
     resolutionExclusions |-> {}, versionResolutions |-> {}, qualities |-> <<>>,
     durations |-> durations, audio |-> audio, modes |-> modes,
     isDefault |-> Unset, imageInput |-> TRUE, maskInput |-> FALSE]

NANO_BANANA ==
    [ImageFamily("nano-banana", <<"fast", "standard", "pro">>, <<"1K", "2K", "4K">>)
        EXCEPT !.isDefault = "standard",
               !.versionResolutions = {<<"fast", "1K">>}]

GPT_IMAGE ==
    [ImageFamily("gpt-image", <<"2.5-flare", "2.5-sunburst">>, <<"1K", "2K", "4K">>)
        EXCEPT !.isDefault = "2.5-flare", !.maskInput = TRUE,
               !.qualities = <<"low", "medium", "high", "xhigh", "max">>]

FLUX ==
    [ImageFamily("flux", <<"pro", "flex", "max">>, <<"1MP", "2MP", "4MP">>)
        EXCEPT !.isDefault = "pro", !.imageInput = FALSE,
               !.resolutionExclusions = {"4:3", "3:4", "16:9", "9:16"} \X {"4MP"}]

SEEDREAM ==
    [ImageFamily("seedream", <<"4", "4.5", "5-lite", "5-pro">>, <<"1K", "2K", "4K">>)
        EXCEPT !.isDefault = "4",
               !.versionResolutions = {<<"4.5", "2K">>, <<"4.5", "4K">>,
                   <<"5-lite", "2K">>, <<"5-pro", "1K">>, <<"5-pro", "2K">>}]

VEO ==
    [VideoFamily("veo", <<"720p", "1080p", "4K">>, <<4, 6, 8>>, "included",
                 {"t2v", "i2v", "ref2v", "keyframes", "extend"})
        EXCEPT !.versions = <<"standard", "fast", "lite">>, !.isDefault = "standard",
               !.versionResolutions = {"fast", "lite"} \X {"720p", "1080p"}]

OMNI == VideoFamily("omni", <<"360p", "720p", "1080p", "4K">>, <<4, 6, 8, 10>>,
            "included", {"t2v", "i2v", "ref2v", "keyframes", "extend", "edit"})

KLING == VideoFamily("kling", <<>>, <<5, 10, 15>>, "selectable",
                     {"t2v", "i2v", "keyframes"})

RUNWAY == VideoFamily("runway", <<"720p", "1080p">>, <<5, 10>>, "none", {"t2v", "i2v"})

SEEDANCE == VideoFamily("seedance", <<"480p", "720p">>, <<5, 10, 15>>, "included",
                        {"t2v", "i2v", "ref2v"})

MODEL_FAMILIES == {NANO_BANANA, GPT_IMAGE, FLUX, SEEDREAM,
                   VEO, OMNI, KLING, RUNWAY, SEEDANCE}

familyById(id) == CHOOSE f \in MODEL_FAMILIES : f.id = id

-----------------------------------------------------------------------------
(* What a family really offers once its per-ratio and per-version limits   *)
(* are applied.                                                            *)

resolutionsFor(family, ratio, version) ==
    LET allowed == {p \in family.versionResolutions : p[1] = version}
    IN  {r \in ToSet(family.resolutions) :
            /\ <<ratio, r>> \notin family.resolutionExclusions
            /\ allowed # {} => <<version, r>> \in allowed}

(* No family limits qualities by version: versionQualities has no entry.   *)
qualitiesFor(family, version) == ToSet(family.qualities)

First(options) == IF options = <<>> THEN Unset ELSE options[1]

(* The version marked default; Veo has no such mark, and takes the one     *)
(* tagged Latest, recorded in the same field here.                         *)
defaultSettings(family) ==
    Settings(family.isDefault, family.aspectRatios[1], First(family.resolutions),
             IF family.qualities = <<>> THEN Unset ELSE "medium",
             IF family.durations = <<>> THEN 0 ELSE family.durations[1],
             IF family.audio = "selectable" THEN "off" ELSE Unset)

-----------------------------------------------------------------------------
(* Sizes sent to the provider.                                             *)

FLUX_DIMS ==
    {<<"1:1", "1MP", 1024, 1024>>, <<"4:3", "1MP", 1152, 864>>,
     <<"16:9", "1MP", 1344, 752>>, <<"1:1", "2MP", 1440, 1440>>,
     <<"4:3", "2MP", 1632, 1216>>, <<"16:9", "2MP", 1888, 1056>>,
     <<"1:1", "4MP", 2048, 2048>>, <<"4:3", "4MP", 2048, 1536>>,
     <<"16:9", "4MP", 2048, 1152>>}

fluxDims(s) ==
    SizeIn(FLUX_DIMS, s.aspectRatio, Or(s.resolution, "1MP"), <<1024, 1024>>)

SEEDREAM_DIMS ==
    {<<"1:1", "1K", 1024, 1024>>, <<"4:3", "1K", 1152, 864>>,
     <<"16:9", "1K", 1344, 756>>, <<"1:1", "2K", 2048, 2048>>,
     <<"4:3", "2K", 2304, 1728>>, <<"16:9", "2K", 2688, 1512>>,
     <<"1:1", "4K", 4096, 4096>>, <<"4:3", "4K", 4096, 3072>>,
     <<"16:9", "4K", 4096, 2304>>}

SEEDREAM_PRO_1K_DIMS ==
    {<<"1:1", "1K", 1024, 1024>>, <<"4:3", "1K", 1216, 912>>,
     <<"16:9", "1K", 1408, 800>>}

seedreamDims(s) ==
    LET resolution == Or(s.resolution, "1K")
        table == IF s.version = "5-pro" /\ resolution = "1K"
                   THEN SEEDREAM_PRO_1K_DIMS ELSE SEEDREAM_DIMS
    IN  SizeIn(table, s.aspectRatio, resolution, <<1024, 1024>>)

gptSizes ==
    {<<"1:1", "1K", 1024, 1024>>, <<"4:3", "1K", 1024, 768>>,
     <<"16:9", "1K", 1280, 720>>, <<"1:1", "2K", 2048, 2048>>,
     <<"4:3", "2K", 2048, 1536>>, <<"16:9", "2K", 2048, 1152>>,
     <<"1:1", "4K", 2160, 2160>>, <<"4:3", "4K", 2880, 2160>>,
     <<"16:9", "4K", 3840, 2160>>}

-----------------------------------------------------------------------------
(* Provider costs.                                                         *)

Cents(n) == n * 1000000
Mills(n) == n * 100000        \* thousandths of a dollar

FLUX_MP(s) ==
    CASE s.resolution = "2MP" -> 2 [] s.resolution = "4MP" -> 4 [] OTHER -> 1

fluxProviderCost(s) ==
    CASE s.version = "flex" -> Cents(5) * FLUX_MP(s)
      [] s.version = "max" -> Cents(7) + Cents(3) * (FLUX_MP(s) - 1)
      [] OTHER -> Cents(3) + Mills(15) * (FLUX_MP(s) - 1)

(* Output tokens per ratio, resolution and quality step.                   *)
GPT_TOKENS ==
    {<<"1:1", "1K", <<196, 439, 1756, 3122, 7024>>>>,
     <<"4:3", "1K", <<134, 301, 1204, 2140, 4815>>>>,
     <<"16:9", "1K", <<106, 246, 947, 1683, 3787>>>>,
     <<"1:1", "2K", <<397, 892, 3568, 6343, 14272>>>>,
     <<"4:3", "2K", <<247, 556, 2223, 3952, 8892>>>>,
     <<"16:9", "2K", <<157, 367, 1413, 2511, 5650>>>>,
     <<"1:1", "4K", <<427, 960, 3840, 6826, 15358>>>>,
     <<"4:3", "4K", <<395, 888, 3552, 6314, 14206>>>>,
     <<"16:9", "4K", <<371, 865, 3336, 5930, 13342>>>>}

(* An unknown quality pays the dearest step, an unknown size the 1:1 1K.   *)
gptProviderCost(s) ==
    LET found == RowsOf(GPT_TOKENS, s.aspectRatio, Or(s.resolution, "1K"))
        row == IF found = {} THEN <<"1:1", "1K", <<196, 439, 1756, 3122, 7024>>>>
               ELSE CHOOSE r \in found : TRUE
        quality == Or(s.quality, "medium")
        steps == {i \in 1..5 : GPT_IMAGE.qualities[i] = quality}
        step == IF steps = {} THEN 5 ELSE CHOOSE i \in steps : TRUE
    IN  row[3][step] * 3000

PROMPT_TOKEN_ALLOWANCE == 800

(* references: how many images ride along.                                 *)
gptInputCost(references) ==
    PROMPT_TOKEN_ALLOWANCE * 500 + references * 7100 * 800

nanoInputCost(references, s) ==
    LET rate == CASE s.version = "fast" -> 25 [] s.version = "pro" -> 200
                  [] OTHER -> 50
    IN  (PROMPT_TOKEN_ALLOWANCE + references * 560) * rate

nanoProviderCost(s) ==
    CASE s.version = "fast" -> 3360000
      [] s.version = "pro" ->
            (IF s.resolution = "4K" THEN Cents(24) ELSE Mills(134)) + 2000 * 1200
      [] s.resolution = "2K" -> Mills(101)
      [] s.resolution = "4K" -> Mills(151)
      [] OTHER -> Mills(67)

seedreamProviderCost(s) ==
    CASE s.version = "4.5" -> Cents(4)
      [] s.version = "5-lite" -> Mills(35)
      [] s.version = "5-pro" ->
            IF seedreamDims(s)[1] * seedreamDims(s)[2] <= 1536 * 1536
              THEN 6750000 ELSE 13500000
      [] OTHER -> Cents(3)

(* A rate per second times the seconds, as a double: the products below    *)
(* are the ones of the tables that come out above the decimal product and  *)
(* so push the ceiling of the credit formula up by one.                    *)
RoundedUp == {<<Cents(5), 6>>, <<Cents(10), 6>>, <<Cents(40), 6>>, <<Mills(196), 15>>}

PerSecond(rate, seconds) ==
    rate * seconds + (IF <<rate, seconds>> \in RoundedUp THEN 1 ELSE 0)

SecondsOr(s, default) == IF s.durationS = 0 THEN default ELSE s.durationS

veoRate(s) ==
    CASE s.version = "lite" -> IF s.resolution = "1080p" THEN Cents(8) ELSE Cents(5)
      [] s.version = "fast" ->
            (CASE s.resolution = "4K" -> Cents(30)
               [] s.resolution = "1080p" -> Cents(12)
               [] OTHER -> Cents(10))
      [] s.resolution = "4K" -> Cents(60)
      [] OTHER -> Cents(40)

omniRate(s) ==
    CASE s.resolution = "360p" -> Cents(3) [] s.resolution = "1080p" -> Cents(15)
      [] s.resolution = "4K" -> Cents(30) [] OTHER -> Cents(10)

klingRate(s) ==
    CASE s.audio = "voice" -> Mills(196) [] s.audio = "on" -> Mills(168)
      [] OTHER -> Mills(112)

seedanceRate(s) == IF s.resolution = "480p" THEN 22050000 ELSE 47300000

providerCost(family, s) ==
    CASE family.id = "nano-banana" -> nanoProviderCost(s)
      [] family.id = "gpt-image" -> gptProviderCost(s)
      [] family.id = "flux" -> fluxProviderCost(s)
      [] family.id = "seedream" -> seedreamProviderCost(s)
      [] family.id = "veo" -> PerSecond(veoRate(s), SecondsOr(s, 8))
      [] family.id = "omni" -> PerSecond(omniRate(s), SecondsOr(s, 8))
      [] family.id = "kling" -> PerSecond(klingRate(s), SecondsOr(s, 5))
      [] family.id = "runway" -> PerSecond(Cents(12), SecondsOr(s, 5))
      [] family.id = "seedance" -> PerSecond(seedanceRate(s), SecondsOr(s, 5))

inputCost(family, s, references) ==
    CASE family.id = "nano-banana" -> nanoInputCost(references, s)
      [] family.id = "gpt-image" -> gptInputCost(references)
      [] OTHER -> 0

providerCostWithInput(family, s, references) ==
    providerCost(family, s) + inputCost(family, s, references)

(* ceil(cost / (1 - 0.4) x 100), in credits.                               *)
Credits(cost) == (cost + 599999) \div 600000

creditCost(family, s, references) ==
    Credits(providerCostWithInput(family, s, references))

upscaleCreditCost == Credits(Cents(4))

PERSONA_PHOTOS == 5

personaSettings(ratio) == Settings("pro", ratio, "4K", Unset, 0, Unset)

personaProviderCost ==
    providerCostWithInput(NANO_BANANA, personaSettings("1:1"), PERSONA_PHOTOS)

personaGenCreditCost == Credits(personaProviderCost)

personaAspectRatios ==
    {ratio \in ToSet(AR_IMAGE) : "4K" \in resolutionsFor(NANO_BANANA, ratio, "pro")}

EDIT_TOOLS ==
    {[id |-> "edit-remove", creditCost |-> 10, providerCost |-> Cents(5), needsMask |-> TRUE],
     [id |-> "edit-fill", creditCost |-> 10, providerCost |-> Cents(5), needsMask |-> TRUE],
     [id |-> "edit-expand", creditCost |-> 10, providerCost |-> Cents(5), needsMask |-> FALSE],
     [id |-> "edit-bg", creditCost |-> 5, providerCost |-> 200000, needsMask |-> FALSE]}

-----------------------------------------------------------------------------
(* The gateway's check and price.                                          *)

Offered(value, options) == value = Unset \/ value \in options

(* validateSettings: no field of the request names something the family    *)
(* does not offer.  A field left out is not looked at.                     *)
validateSettings(family, s) ==
    /\ Offered(s.version, ToSet(family.versions))
    /\ s.aspectRatio \in ToSet(family.aspectRatios)
    /\ Offered(s.resolution, resolutionsFor(family, s.aspectRatio, s.version))
    /\ Offered(s.quality, qualitiesFor(family, s.version))
    /\ s.durationS = 0 \/ s.durationS \in ToSet(family.durations)
    /\ s.audio = Unset \/ family.audio = "selectable"

nanoModels == {"fast", "standard", "pro"}
gptModels == {"2.5-flare", "2.5-sunburst"}
fluxModels == {"pro", "flex", "max"}
seedreamModels == {"4", "4.5", "5-lite", "5-pro"}

(* normalizeGenerationRequest throws: the version has no provider model,   *)
(* or (GPT Image) the ratio and resolution have no size.                   *)
Unrenderable(family, s) ==
    CASE family.id = "nano-banana" -> Or(s.version, "standard") \notin nanoModels
      [] family.id = "gpt-image" ->
            \/ Or(s.version, "2.5-flare") \notin gptModels
            \/ RowsOf(gptSizes, s.aspectRatio, Or(s.resolution, "1K")) = {}
      [] family.id = "flux" -> Or(s.version, "pro") \notin fluxModels
      [] family.id = "seedream" -> Or(s.version, "4") \notin seedreamModels
      [] OTHER -> FALSE

(* The pixel size the adapter will transmit, for the families that send    *)
(* one.                                                                    *)
SentSize(family, s) ==
    CASE family.id = "gpt-image" ->
            SizeIn(gptSizes, s.aspectRatio, Or(s.resolution, "1K"), <<0, 0>>)
      [] family.id = "flux" -> fluxDims(s)
      [] family.id = "seedream" -> seedreamDims(s)

(* Mutant of quote: the reference is not priced.                            *)
QuoteOutput(family, s, hasReference) == creditCost(family, s, 0)

(* quote: priced with one reference or none, whatever their number.        *)
quote(family, s, hasReference) ==
    creditCost(family, s, IF hasReference THEN 1 ELSE 0)

-----------------------------------------------------------------------------
(* GET /catalog: every combination it lists, with its prices.              *)

referenceRule(mode) ==
    CASE mode = "i2v" -> [min |-> 1, max |-> 1, needsParent |-> FALSE]
      [] mode = "ref2v" -> [min |-> 1, max |-> 3, needsParent |-> FALSE]
      [] mode = "keyframes" -> [min |-> 2, max |-> 2, needsParent |-> FALSE]
      [] mode = "t2v" -> [min |-> 0, max |-> 0, needsParent |-> FALSE]
      [] OTHER -> [min |-> 0, max |-> 0, needsParent |-> TRUE]

maxReferencesOf(family) ==
    IF family.kind = "image" THEN IF family.imageInput THEN 1 ELSE 0
    ELSE Max({referenceRule(mode).max : mode \in family.modes})

(* The values of an axis, or the one absent value of an axis the family    *)
(* does not have.                                                          *)
AxisValues(options, absent) == IF options = <<>> THEN {absent} ELSE ToSet(options)

settingsOf(family) ==
    {s \in [version : AxisValues(family.versions, Unset),
            aspectRatio : ToSet(family.aspectRatios),
            resolution : AxisValues(family.resolutions, Unset),
            quality : AxisValues(family.qualities, Unset),
            durationS : AxisValues(family.durations, 0),
            audio : IF family.audio = "selectable" THEN ToSet(AUDIO_OPTIONS)
                    ELSE {Unset}] :
        /\ s.resolution # Unset =>
              s.resolution \in resolutionsFor(family, s.aspectRatio, s.version)
        /\ s.quality # Unset => s.quality \in qualitiesFor(family, s.version)}

(* combosOf: credits[n] is the price of one output with n references.      *)
comboCredits(family, s) ==
    [n \in 0..maxReferencesOf(family) |-> creditCost(family, s, n)]

-----------------------------------------------------------------------------
(* Plans and packs.                                                        *)

PLAN_CREDITS == [studio |-> 1500, pro |-> 3750]
PLAN_PRICE_USD == [studio |-> 15, pro |-> 30]
CREDIT_PACKS == {<<10, 0>>, <<25, 5>>, <<50, 8>>, <<100, 10>>}

packCredits(usd, plan) ==
    LET found == {p \in CREDIT_PACKS : p[1] = usd}
        bonus == (CHOOSE p \in found : TRUE)[2]
        rate == IF plan = "pro" THEN 125 ELSE 100
    IN  IF found = {} THEN 0 ELSE (usd * rate * (100 + bonus)) \div 100
=============================================================================
