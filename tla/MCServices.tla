----------------------------- MODULE MCServices -----------------------------
(***************************************************************************)
(* The components that act on the database and the providers from outside, *)
(* side by side: the worker's ticks, the finisher, the calls of a          *)
(* provider, the calls of an assistant, the changes of a plan, the page    *)
(* that is signed in, and its library.  One run checks them all, and a     *)
(* behaviour is of one of them.                                            *)
(***************************************************************************)
EXTENDS Integers

CONSTANTS
    Nobody, MaxFaults,
    Jobs, Inline, Ticks, Elsewhere, JobLimit, MaxInlineSubmits, MaxFailures,
    Runs, Backfills, MaxBytes, MaxInlineTries, OddAnswers, ToolAsks,
    NoGivenKey, OpenArgs, Blocked, ToolLimit, MaxToolCalls, MaxTime,
    MaxTrouble, Customers, Subs, MaxAsks, MaxTurns, LossyRoutes,
    StaleSessions, BookedEnds, Accounts, MaxSessionCalls, MaxEpoch,
    SilentSwitch,
    Prompts, Rows, Held, PageSize, MaxCalls, MaxKeys, MaxLoads

(* A call that leaves the model open and derives its key, and two requests *)
(* under one given key.                                                    *)
MCAsks == {[rpc |-> 1, args |-> "open", given |-> NoGivenKey],
           [rpc |-> 2, args |-> "open", given |-> "k"],
           [rpc |-> 2, args |-> "blocked", given |-> "k"]}

VARIABLES
    part,    \* the component this behaviour is of
    jobs, ticks, tickRuns, inlineInFlight, failures,
    gen, lease, saver, finishRuns, backfills, finishRegistry, stored,
    finishFaults,
    request, asset, step, ctx, body, attempts, job, renders, wanted, verdict,
    mcpCalls, mcpSubmissions, slots, firstModel, now, trouble,
    customer, subs, sessions, row, paying, apple, due, tab, hook, coupons,
    closed, planRequests, turns,
    session, page, epoch, tearing, held, profile, historyOf, sessionCalls,
    persists, snapshots, recovery, stash, confirmed,
    server, keyed, libraryShown, cursor, pageEpoch, loadingMore,
    submissionKeys, inflight, nextKey, drawn, libraryBusy, timer, ticking,
    calls, refreshing, mine, accepted

TickVars == <<jobs, ticks, tickRuns, inlineInFlight, failures>>
FinishVars == <<gen, lease, saver, finishRuns, backfills, finishRegistry,
                stored, finishFaults>>
CallsVars == <<request, asset, step, ctx, body, attempts, job, renders,
               wanted, verdict>>
McpVars == <<mcpCalls, mcpSubmissions, slots, firstModel, now, trouble>>
PlanVars == <<customer, subs, sessions, row, paying, apple, due, tab, hook,
              coupons, closed, planRequests, turns>>
SessionVars == <<session, page, epoch, tearing, held, profile, historyOf,
                 sessionCalls, persists, snapshots, recovery, stash, confirmed>>
LibraryVars == <<server, keyed, libraryShown, cursor, pageEpoch, loadingMore,
                 submissionKeys, inflight, nextKey, drawn, libraryBusy,
                 timer, ticking, calls, refreshing, mine, accepted>>

Tick == INSTANCE WorkerTick
    WITH runs <- tickRuns
Finish == INSTANCE Finisher
    WITH runs <- finishRuns, registry <- finishRegistry,
        faults <- finishFaults
Calls == INSTANCE ProviderCalls
    WITH MaxInlineSubmits <- MaxInlineTries
Mcp == INSTANCE McpCalls
    WITH calls <- mcpCalls, submissions <- mcpSubmissions, Asks <- ToolAsks,
        NoKey <- NoGivenKey, MaxCalls <- MaxToolCalls
Plan == INSTANCE PlanChanges
    WITH requests <- planRequests
Session == INSTANCE ClientSession
    WITH calls <- sessionCalls, Users <- Accounts,
        MaxCalls <- MaxSessionCalls
Library == INSTANCE ClientLibrary
    WITH shown <- libraryShown, busy <- libraryBusy

(* What the code's own constants satisfy, for the components proved so.    *)
ASSUME TickFit == Tick!ConstantsFit
ASSUME FinishFit == Finish!ConstantsFit
ASSUME PlanFit == Plan!ConstantsFit
ASSUME SessionFit == Session!ConstantsFit
ASSUME LibraryFit == Library!ConstantsFit

Init ==
    /\ part \in {"tick", "finisher", "calls", "mcp",
                "plans", "session", "library"}
    /\ Tick!Init
    /\ Finish!Init
    /\ Calls!Init
    /\ Mcp!Init
    /\ Plan!Init
    /\ Session!Init
    /\ Library!Init
    /\ part # "tick" => \A j \in Jobs : jobs[j].state = "ready"
    /\ part # "finisher" => gen = Finish!Older
    /\ part # "plans" => customer = Nobody /\ apple = "never"
    /\ part # "session" => confirmed = {}
    /\ part = "session" => confirmed = {CHOOSE a \in Accounts : TRUE}
    /\ part # "calls" => request = [adapter |-> "fal", inputs |-> <<>>]

Next ==
    /\ UNCHANGED part
    /\ \/ part = "tick"
          /\ UNCHANGED <<FinishVars, CallsVars, McpVars, PlanVars,
                         SessionVars, LibraryVars>>
          /\ Tick!Next
       \/ part = "finisher"
          /\ UNCHANGED <<TickVars, CallsVars, McpVars, PlanVars,
                         SessionVars, LibraryVars>>
          /\ Finish!Next
       \/ part = "calls"
          /\ UNCHANGED <<TickVars, FinishVars, McpVars, PlanVars,
                         SessionVars, LibraryVars>>
          /\ Calls!Next
       \/ part = "mcp"
          /\ UNCHANGED <<TickVars, FinishVars, CallsVars, PlanVars,
                         SessionVars, LibraryVars>>
          /\ Mcp!Next
       \/ part = "plans"
          /\ UNCHANGED <<TickVars, FinishVars, CallsVars, McpVars,
                         SessionVars, LibraryVars>>
          /\ Plan!Next
       \/ part = "session"
          /\ UNCHANGED <<TickVars, FinishVars, CallsVars, McpVars, PlanVars,
                         LibraryVars>>
          /\ Session!Next
       \/ part = "library"
          /\ UNCHANGED <<TickVars, FinishVars, CallsVars, McpVars, PlanVars,
                         SessionVars>>
          /\ Library!Next

Spec == Init /\ [][Next]_<<part, TickVars, FinishVars, CallsVars, McpVars, PlanVars, SessionVars, LibraryVars>>

-----------------------------------------------------------------------------
(* What each component promises, stated and explained in its own module.   *)

(* Ticks neither leak an inline slot nor exceed the cap (handler.ts).     *)
SlotsAreHeld == part = "tick" => Tick!SlotsAreHeld

(* A result is kept whole or not at all, within budget (store.ts).        *)
StoredSafely == part = "finisher" => Finish!StoredSafely

(* A refund is final, a render single, its inputs complete.               *)
ProviderIsHeard == part = "calls" => Calls!ProviderIsHeard

(* A repeated tool call is free and told the truth (api/mcp).             *)
CallsAreHonest == part = "mcp" => Mcp!CallsAreHonest

(* Stripe bills a customer once, for what they can end.                   *)
BillsAreOurs == part = "plans" => Plan!BillsAreOurs

(* A change announced for the renewal is booked with Stripe.              *)
PendingIsScheduled == part = "plans" => Plan!PendingIsScheduled

(* A page holds nothing of an account that has left (core/auth).          *)
NothingForeign == part = "session" => Session!NothingForeign

(* Nobody enters on the age another account confirmed (age gate).         *)
GateIsTheirs == Session!GateIsTheirs

(* A press repeated after a lost answer is charged once.                  *)
OneChargePerAnswer == part = "library" => Library!OneChargePerAnswer

(* A row a submission listed is polled while pending (job-poller).        *)
PendingIsPolled == part = "library" => Library!PendingIsPolled
=============================================================================
