------------------------------- MODULE McpCalls -------------------------------
(***************************************************************************)
(* The tools an assistant calls over POST /mcp that spend credits          *)
(* (api/mcp): generate_image, upscale_image and vary_image, their budget   *)
(* of requests, the idempotency key a call is given or derives, and what   *)
(* the answer says was charged.                                            *)
(*                                                                         *)
(* One customer, one client.  A call is served in steps, one for each      *)
(* thing it awaits, and calls interleave.  The gateway's submission is one *)
(* step here, the transaction that decides it; Submission has the rest.    *)
(* Time is counted in minutes.  Left out: which images and links an answer *)
(* carries, the tools that only read, and a refusal the gateway takes back *)
(* because its strike failed.                                              *)
(***************************************************************************)
EXTENDS Integers, Sequences, FiniteSets, FiniteSetsExt

CONSTANTS
    Asks,         \* what the assistant calls with: [rpc, args, given]
    NoKey,        \* a call without an idempotency_key
    OpenArgs,     \* arguments that leave the model to the server
    Blocked,      \* arguments the classifier blocks
    ToolLimit,    \* fn_take_request_slot, bucket mcp: 10
    MaxCalls, MaxTime,
    MaxTrouble    \* failed reads and calls, isolates that die, models switched off

RETRY_WINDOW == 2   \* minutes
SlotWindow == 1
Nothing == "nothing"

VARIABLES
    calls,         \* in the order they arrived
    submissions,   \* key -> its row, once there is one
    slots,         \* request_rate_limits, bucket mcp
    firstModel,    \* the first image model that is on
    now, trouble

vars == <<calls, submissions, slots, firstModel, now, trouble>>

Init ==
    /\ calls = <<>>
    /\ submissions = << >>
    /\ slots = [started |-> 0 - SlotWindow, attempts |-> 0]
    /\ firstModel = 1 /\ now = 0 /\ trouble = 0

Trouble == trouble < MaxTrouble /\ trouble' = trouble + 1

Call(n) == calls[n]
At(n, pc) == n \in DOMAIN calls /\ calls[n].pc = pc
Goto(n, pc) == calls' = [calls EXCEPT ![n].pc = pc]
New(ask) ==
    [pc |-> "prepare", ask |-> ask, body |-> Nothing, key |-> Nothing,
     replay |-> FALSE, looked |-> 0, read |-> TRUE, known |-> {},
     charged |-> FALSE, answer |-> Nothing]

Answer(n, answer) ==
    calls' = [calls EXCEPT ![n].pc = "over", ![n].answer = answer]
(* The call ends having charged nothing: what it looked up is forgotten.   *)
TurnDown(n, answer) ==
    calls' = [calls EXCEPT ![n] =
                [New(@.ask) EXCEPT !.pc = "over", !.answer = answer]]
Charged == {n \in DOMAIN calls : calls[n].charged}

-----------------------------------------------------------------------------
(* A call arrives: the same request may be made any number of times.       *)

Arrive ==
    /\ Len(calls) < MaxCalls
    /\ \E ask \in Asks : calls' = Append(calls, New(ask))
    /\ UNCHANGED <<submissions, slots, firstModel, now, trouble>>

(* The age gate, then the tool's own checks: the model and its options     *)
(* against the live catalogue, or the parent image.  A refusal costs no    *)
(* slot.  A call that names no model gets the first that is on.            *)
Prepare(n) ==
    /\ At(n, "prepare")
    /\ \/ LET args == Call(n).ask.args
          IN  calls' = [calls EXCEPT ![n].pc = "slot",
                 ![n].body = <<args, IF args \in OpenArgs THEN firstModel ELSE 0>>]
       \/ TurnDown(n, "refused")
    /\ UNCHANGED <<submissions, slots, firstModel, now, trouble>>

(* fn_take_request_slot: a window that starts with its first attempt.      *)
Expired == slots.started <= now - SlotWindow

Taken == [started |-> IF Expired THEN now ELSE slots.started,
          attempts |-> IF Expired THEN 1 ELSE Min({slots.attempts + 1, ToolLimit + 1})]

TakeSlot(n) ==
    /\ At(n, "slot")
    /\ \/ /\ slots' = Taken
          /\ IF Taken.attempts <= ToolLimit THEN Goto(n, "look") ELSE TurnDown(n, "limited")
          /\ UNCHANGED trouble
       \/ slots' \in {slots, Taken} /\ TurnDown(n, "refused") /\ Trouble
    /\ UNCHANGED <<submissions, firstModel, now>>

-----------------------------------------------------------------------------
(* The key.                                                                *)

Bucket(minute) == minute \div RETRY_WINDOW

derivedKey(ask, bucket) == <<"rpc", ask.rpc, ask.args, bucket>>

(* The keys the call may be a retry under, the one a new call takes first. *)
CandidateKeys(ask) ==
    IF ask.given # NoKey THEN <<<<"key", ask.given>>>>
    ELSE <<derivedKey(ask, Bucket(now)), derivedKey(ask, Bucket(now) - 1)>>

(* Mutant of submittedKey: the previous bucket is not looked at.           *)
CurrentOnly(keys) == IF keys[1] \in DOMAIN submissions THEN {1} ELSE {}

(* The places of the keys that have a submission already.                  *)
submittedKey(keys) == {i \in DOMAIN keys : keys[i] \in DOMAIN submissions}

(* A read that fails finds nothing.                                        *)
toolIdempotencyKey(n) ==
    LET keys == CandidateKeys(Call(n).ask)
        Found(places, read) ==
            calls' = [calls EXCEPT ![n].pc = "submit", ![n].looked = now,
                ![n].read = read, ![n].known = Charged,
                ![n].replay = places # {},
                ![n].key = keys[IF places = {} THEN 1 ELSE Min(places)]]
    IN
    /\ At(n, "look")
    /\ \/ Found(submittedKey(keys), TRUE) /\ UNCHANGED trouble
       \/ Found({}, FALSE) /\ Trouble
    /\ UNCHANGED <<submissions, slots, firstModel, now>>

-----------------------------------------------------------------------------
(* The gateway.                                                            *)

HasRow(n) == Call(n).key \in DOMAIN submissions
RowOf(n) == submissions[Call(n).key]
With(n, refused) ==
    [k \in DOMAIN submissions \union {Call(n).key} |->
        IF k = Call(n).key THEN [body |-> Call(n).body, refused |-> refused] ELSE submissions[k]]

(* What the key got before: its conflict, its refusal, or its generations. *)
Replay(n) ==
    /\ HasRow(n)
    /\ CASE RowOf(n).body # Call(n).body -> TurnDown(n, "conflict")
         [] RowOf(n).refused -> TurnDown(n, "policy")
         [] OTHER -> Goto(n, "wait")
    /\ UNCHANGED submissions

(* A new key: the classifier's refusal is kept under it, a charge is kept  *)
(* with its generations.                                                   *)
Accept(n) ==
    /\ ~HasRow(n)
    /\ IF Call(n).ask.args \in Blocked
         THEN TurnDown(n, "policy") /\ submissions' = With(n, TRUE)
         ELSE /\ calls' = [calls EXCEPT ![n].pc = "wait", ![n].charged = TRUE]
              /\ submissions' = With(n, FALSE)

(* The gates the gateway has besides, credits among them.                  *)
Refuse(n) ==
    /\ HasRow(n) => RowOf(n).body = Call(n).body /\ ~RowOf(n).refused
    /\ TurnDown(n, "refused")
    /\ UNCHANGED submissions

Submit(n) ==
    /\ At(n, "submit")
    /\ Replay(n) \/ Accept(n) \/ Refuse(n)
    /\ UNCHANGED <<slots, firstModel, now, trouble>>

(* The wait for the worker ends: the items settled, 25 seconds went by, or *)
(* a read failed.  The closing sentence follows the key, not the charge.   *)
generationOutcome(n) ==
    /\ At(n, "wait")
    /\ Answer(n, IF Call(n).replay THEN "nothing_new" ELSE "charged")
    /\ UNCHANGED <<submissions, slots, firstModel, now, trouble>>

(* Something throws, or the isolate dies: "internal", or no answer at all. *)
Fail(n) ==
    /\ n \in DOMAIN calls /\ Call(n).pc # "over"
    /\ IF Call(n).charged THEN Answer(n, "internal") ELSE TurnDown(n, "internal")
    /\ Trouble
    /\ UNCHANGED <<submissions, slots, firstModel, now>>

-----------------------------------------------------------------------------
(* Around the calls.                                                       *)

(* The first model is switched off: the next one is what others get.       *)
SwitchOff ==
    /\ Trouble /\ firstModel' = firstModel + 1
    /\ UNCHANGED <<calls, submissions, slots, now>>

Minute ==
    /\ now < MaxTime /\ now' = now + 1
    /\ UNCHANGED <<calls, submissions, slots, firstModel, trouble>>

Next ==
    \/ Arrive
    \/ \E n \in 1..MaxCalls :
         \/ Prepare(n) \/ TakeSlot(n) \/ toolIdempotencyKey(n)
         \/ Submit(n) \/ generationOutcome(n) \/ Fail(n)
    \/ SwitchOff \/ Minute

Spec == Init /\ [][Next]_vars

-----------------------------------------------------------------------------
(* Properties.                                                             *)

(* A call made again is charged once.  Under a key the caller gave, always *)
(* (generate.ts:45-46).  Under a derived key, if both calls looked for it  *)
(* in one bucket; and if the first was charged by the time the second      *)
(* looked, for the whole retry window, whichever buckets they fall in      *)
(* (idempotency.ts:45-50), unless its read of submissions failed.          *)
RetryIsFree ==
    \A m, n \in Charged :
        m # n /\ Call(m).ask = Call(n).ask =>
            /\ Call(n).ask.given = NoKey
            /\ Bucket(Call(m).looked) # Bucket(Call(n).looked)
            /\ m \in Call(n).known /\ Call(n).read =>
                  Call(n).looked - Call(m).looked > RETRY_WINDOW

(* The answer says what was charged: a call told that nothing was, or was  *)
(* new, charged nothing, and is about the generations another call was     *)
(* charged for; one told of a charge has one under its key.  Twins in      *)
(* flight at once may both be told of the same one.                        *)
SaysWhatItCharged ==
    \A n \in DOMAIN calls :
        /\ n \in Charged => Call(n).answer \in {Nothing, "charged", "internal"}
        /\ Call(n).answer \in {"charged", "nothing_new"} =>
              \E m \in Charged : Call(m).key = Call(n).key /\ Call(m).body = Call(n).body

(* A repeat costs nothing, and no answer misstates the charge.             *)
CallsAreHonest == RetryIsFree /\ SaysWhatItCharged
=============================================================================
