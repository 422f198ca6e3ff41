----------------------------- MODULE MCPlatform -----------------------------
(***************************************************************************)
(* The components of the platform whose state is the database's, and the   *)
(* panel a customer composes a request in, which share nothing a step of   *)
(* another reads, side by side: one run checks them all, and a behaviour   *)
(* is of one of them.                                                      *)
(***************************************************************************)
EXTENDS MCRequests

CONSTANTS
    Nobody, MaxFaults,
    TrendRatios, MaxBatch, MaxDurations,
    Submitters, Keys, RetryKeys, PlanGrant, PackGrant, MaxPendingVideos,
    MaxRequests, MaxGens, MaxUpsets, Handlers, Workers, Rows, Uploads,
    Earlier, Personas, Slots, Limit, PersonaCap, Users, Clients,
    AuthRequests, Grants, Codes, Tokens, Verifiers, MaxRecent,
    Messages, Devices, Drainers, Lease, LeaseBudget, GiveUpAfter

Web == [absolute |-> TRUE, scheme |-> "https", host |-> "app", fragment |-> FALSE,
        credentials |-> FALSE]
MCRedirectUris == {Web, [Web EXCEPT !.scheme = "http"]}

VARIABLES
    part,    \* the component this behaviour is of
    ask,
    pro, familyId, settings, videoMode, batch, persona, reference, uploading,
    refSlots, drops, videoParent,
    submitSubmissions, gens, plan, pack, tier, strikes, enabled, live, run,
    menu, submitRequests, submitUpsets, promptStrikes, imageStrikes, unsure,
    objectsRegistry, bytes, objectsOutbox, rows, uploads, personas, account,
    evidence, handlers, workers, objectsFaults,
    clients, recent, grantRequests, pages, grants, codes, tokens,
    outboxOutbox, left, drainers, devices, gone, received, owed, outboxUpsets

PricesVars == <<ask>>
PanelVars == <<pro, familyId, settings, videoMode, batch, persona, reference,
               uploading, refSlots, drops, videoParent>>
SubmitVars == <<submitSubmissions, gens, plan, pack, tier, strikes, enabled,
                live, run, menu, submitRequests, submitUpsets, promptStrikes,
                imageStrikes, unsure>>
ObjectsVars == <<objectsRegistry, bytes, objectsOutbox, rows, uploads,
                 personas, account, evidence, handlers, workers, objectsFaults>>
GrantVars == <<clients, recent, grantRequests, pages, grants, codes, tokens>>
OutboxVars == <<outboxOutbox, left, drainers, devices, gone, received, owed,
                outboxUpsets>>

Prices == INSTANCE CatalogueRequests

(* The families the panel offers: two of each kind, with every rule it     *)
(* has: versions, sizes a ratio withdraws, audio, keyframes and a clip to  *)
(* continue.                                                               *)
MCFamilies == {Prices!FLUX, Prices!GPT_IMAGE, Prices!VEO, Prices!KLING}

Panel == INSTANCE RailPanel
    WITH Families <- MCFamilies
Submit == INSTANCE SubmissionProofs
    WITH submissions <- submitSubmissions, requests <- submitRequests,
        upsets <- submitUpsets, Handlers <- Submitters, Menus <- MCMenus,
        Things <- MCThings, Fickle <- MCFickle, Flagged <- MCFlagged,
        Library <- MCLibrary
Objects == INSTANCE ObjectLifeProofs
    WITH registry <- objectsRegistry, outbox <- objectsOutbox,
        faults <- objectsFaults
Grant == INSTANCE OAuthGrants
    WITH requests <- grantRequests, Requests <- AuthRequests,
        RedirectUris <- MCRedirectUris
Outbox == INSTANCE NotificationOutboxProofs
    WITH outbox <- outboxOutbox, upsets <- outboxUpsets, Rows <- Messages

(* What the code's own constants satisfy, for the components proved so.    *)
ASSUME SubmitFit == Submit!ConstantsFit
ASSUME ObjectsFit == Objects!ConstantsFit
ASSUME GrantFit == Grant!ConstantsFit
ASSUME OutboxFit == Outbox!ConstantsFit

Init ==
    /\ part \in {"catalogue", "panel", "submission", "objects", "oauth", "outbox"}
    /\ Prices!Init
    /\ Panel!Init
    /\ Submit!Init
    /\ Objects!Init
    /\ Grant!Init
    /\ Outbox!Init
    /\ part # "panel" => pro /\ persona /\ familyId = "flux" /\ settings.aspectRatio = "1:1"
    /\ part # "submission" => menu = CHOOSE m \in MCMenus : TRUE
    /\ part # "outbox" => devices = {}

Next ==
    /\ UNCHANGED part
    /\ \/ part = "catalogue"
          /\ UNCHANGED <<PanelVars, SubmitVars, ObjectsVars, GrantVars, OutboxVars>>
          /\ Prices!Next
       \/ part = "panel"
          /\ UNCHANGED <<PricesVars, SubmitVars, ObjectsVars, GrantVars, OutboxVars>>
          /\ Panel!Next
       \/ part = "submission"
          /\ UNCHANGED <<PricesVars, PanelVars, ObjectsVars, GrantVars, OutboxVars>>
          /\ Submit!Next
       \/ part = "objects"
          /\ UNCHANGED <<PricesVars, PanelVars, SubmitVars, GrantVars, OutboxVars>>
          /\ Objects!Next
       \/ part = "oauth"
          /\ UNCHANGED <<PricesVars, PanelVars, SubmitVars, ObjectsVars, OutboxVars>>
          /\ Grant!Next
       \/ part = "outbox"
          /\ UNCHANGED <<PricesVars, PanelVars, SubmitVars, ObjectsVars, GrantVars>>
          /\ Outbox!Next

Spec == Init /\ [][Next]_<<part, PricesVars, PanelVars, SubmitVars, ObjectsVars, GrantVars,
                           OutboxVars>>

-----------------------------------------------------------------------------
(* What each component promises, stated and explained in its own module.   *)

(* The gateway renders and charges what GET /catalog lists.               *)
ListedIsKept == part = "catalogue" => Prices!ListedIsKept

(* What Generate sends is taken, for the price on the button.             *)
RailMatchesGateway == part = "panel" => Panel!RailMatchesGateway

(* A key is charged once and strikes once (submission-replay.ts).         *)
OncePerKey == part = "submission" => Submit!OncePerKey

(* No bucket is overdrawn; a failed item gives back what it took.         *)
BucketsBalance == part = "submission" => Submit!BucketsBalance

(* Nothing blocked is ever charged (submit-generation.ts).                *)
NothingUnmoderated == part = "submission" => Submit!NothingUnmoderated

(* A retry asks for what the original asked for (retry.ts).               *)
RetryRepeatsRequest == part = "submission" => Submit!RetryRepeatsRequest

(* What a row, persona or evidence refers to is stored (0021).            *)
ReferredHasBytes == part = "objects" => Objects!ReferredHasBytes

(* No object recorded as gone is still stored (cleanup-worker).           *)
GoneMeansGone == part = "objects" => Objects!GoneMeansGone

(* What an approval gave is held once and ends with it (0036).            *)
GrantIsSound == part = "oauth" => Grant!GrantIsSound

(* A sent row reached each device it was for (notifications.ts).          *)
SentMeansDelivered == part = "outbox" => Outbox!SentMeansDelivered
=============================================================================
