--------------------------- MODULE ClientSession ---------------------------
(***************************************************************************)
(* The identity of the web client: who is signed in, what the stores of    *)
(* the page and the snapshots of the browser hold of whom, and what still  *)
(* arrives for an account that has left.                                   *)
(*                                                                         *)
(* SessionLifecycle hears of every change of identity and resets the       *)
(* stores; ApiService drops an answer to a request of an earlier epoch.    *)
(* A store's content is the set of users whose data is in it: rows and     *)
(* amounts are not modelled here (see ClientLibrary).                      *)
(*                                                                         *)
(* Between an answer of the auth client and the code that awaited it there *)
(* are only microtasks: those are one step.  Nobody signs in before the    *)
(* teardown of the last sign-out has finished: a sign-in needs the network,*)
(* the teardown waits for one deletion on the device.                      *)
(***************************************************************************)
EXTENDS Naturals, FiniteSets

CONSTANTS
    Users,
    Nobody,         \* model value: no user, no snapshot owner
    MaxCalls,       \* requests in flight
    MaxEpoch,       \* changes of identity in a page
    SilentSwitch    \* may the identity change with no page open

ConstantsFit == Nobody \notin Users /\ SilentSwitch \in BOOLEAN

Stores == {"generations", "ledger", "personas", "notifications", "preferences"}

VARIABLES
    session,     \* the auth client's session, which outlives the page
    page,        \* the route shown
    epoch,       \* SessionLifecycle.epoch
    tearing,     \* resetAll waits for the media cache's deletion
    held,        \* whose data each store of the page holds
    profile,     \* ProfileStore: the profile held, and whether its age is confirmed
    historyOf,   \* NotificationStore.uid
    calls,       \* requests in flight
    persists,    \* snapshots of the library about to be written
    snapshots,   \* localStorage: <<name, uid>> -> whose data
    recovery,    \* AuthService.recovery
    stash,       \* the consent page to return to: a returnUrl, or its copy in storage
    confirmed    \* profiles.age_confirmed_at, on the server

sessionVars == <<session, page, epoch, tearing, held, profile, historyOf, calls,
                 persists, snapshots, recovery, stash, confirmed>>

stored == <<snapshots, confirmed, stash>>

----------------------------------------------------------------------------
(* What the page holds.                                                    *)

NoProfile == [of |-> Nobody, confirmed |-> FALSE]

Names == {"generations", "notifications", "profile"}
SnapshotSlots == (Names \X (Users \cup {Nobody})) \cup {<<"preferences", Nobody>>}

Empty == [s \in Stores |-> {}]

Hold(stores, content) ==
    [s \in Stores |-> IF s \in stores THEN content ELSE held[s]]

readCache(name, uid) == snapshots[<<name, uid>>]

WithSnapshot(slot, content) == [snapshots EXCEPT ![slot] = content]

clearAllCaches == [s \in SnapshotSlots |-> IF s[1] = "preferences" THEN snapshots[s] ELSE {}]

isAuthed == session # Nobody

ageConfirmed == profile.of # Nobody /\ profile.confirmed

Init ==
    /\ session = Nobody /\ page = "closed" /\ epoch = 0 /\ tearing = FALSE
    /\ held = Empty /\ profile = NoProfile /\ historyOf = Nobody
    /\ calls = {} /\ persists = 0 /\ recovery = Nobody /\ stash = FALSE
    /\ snapshots = [s \in SnapshotSlots |-> {}]
    /\ confirmed \in SUBSET Users

----------------------------------------------------------------------------
(* The page opens.  The first identity observed is not a change of it.     *)

(* PreferencesService boots from its snapshot, whoever wrote it.           *)
restoreCache == Empty["preferences"] \cup snapshots[<<"preferences", Nobody>>]

OpenAs(user, route) ==
    /\ page = "closed"
    /\ session' = user
    /\ page' = route
    /\ held' = [Empty EXCEPT !["preferences"] = restoreCache]
    /\ epoch' = 0 /\ tearing' = FALSE /\ profile' = NoProfile
    /\ historyOf' = Nobody /\ calls' = {} /\ persists' = 0

Open ==
    \E user \in IF SilentSwitch THEN {session, Nobody} ELSE {session} :
        /\ OpenAs(user, "landing")
        /\ recovery' = Nobody
        /\ UNCHANGED stored

(* A mailed link signs its account in, whoever was signed in before.       *)
OpenResetLink ==
    \E user \in Users :
        /\ SilentSwitch \/ session \in {user, Nobody}
        /\ OpenAs(user, "reset")
        /\ recovery' = user
        /\ UNCHANGED stored

(* A closed tab forgets what was in memory and its sessionStorage.         *)
Unload ==
    /\ page' = "closed" /\ stash' = FALSE
    /\ held' = Empty /\ profile' = NoProfile /\ historyOf' = Nobody
    /\ calls' = {} /\ persists' = 0 /\ tearing' = FALSE /\ epoch' = 0
    /\ recovery' = Nobody
    /\ UNCHANGED <<session, snapshots, confirmed>>

Close == page # "closed" /\ Unload

----------------------------------------------------------------------------
(* The identity changes while the page is open.                            *)

onRecoveryEvent(user) == IF recovery = user THEN recovery ELSE Nobody

(* A reset that forgets the profile.                                       *)
ResetKeepsProfile ==
    /\ snapshots' = [clearAllCaches EXCEPT ![<<"preferences", Nobody>>] = {}]
    /\ held' = Hold({"ledger", "preferences"}, {})
    /\ profile' = profile
    /\ tearing' = TRUE

(* The targets are reset in the order they registered: the library and the *)
(* notifications come after the media cache, whose reset waits.            *)
resetAll ==
    /\ snapshots' = [clearAllCaches EXCEPT ![<<"preferences", Nobody>>] = {}]
    /\ held' = Hold({"ledger", "preferences"}, {})
    /\ profile' = NoProfile
    /\ tearing' = TRUE

onIdentityChange(user) ==
    /\ epoch < MaxEpoch
    /\ session' = user
    /\ recovery' = onRecoveryEvent(user)
    /\ epoch' = epoch + 1
    /\ resetAll
    /\ UNCHANGED <<historyOf, persists, confirmed>>

TeardownEnds ==
    /\ tearing
    /\ tearing' = FALSE
    /\ held' = Hold({"notifications", "generations", "personas"}, {})
    /\ UNCHANGED <<session, page, epoch, profile, historyOf, calls, persists,
                   recovery, stored>>

(* By the button, by expiry or in another tab.                             *)
signOut ==
    /\ page # "closed" /\ isAuthed
    /\ onIdentityChange(Nobody)
    /\ page' \in {page, "landing"}
    /\ UNCHANGED <<calls, stash>>

SignInElsewhere ==
    /\ page # "closed" /\ ~isAuthed /\ ~tearing
    /\ \E user \in Users : onIdentityChange(user)
    /\ UNCHANGED <<page, calls, stash>>

signInEmail ==
    /\ page = "login" /\ ~tearing
    /\ \E user \in Users : onIdentityChange(user)
    /\ page' = IF stash THEN "consent" ELSE "signed-in"
    /\ stash' = FALSE
    /\ UNCHANGED calls

(* Google and Apple leave the page and come back to a new one, in the tab. *)
signInGoogle ==
    /\ page = "login" /\ ~tearing
    /\ \E user \in Users :
        /\ session' = user
        /\ held' = [Empty EXCEPT !["preferences"] = restoreCache]
    /\ page' = "signed-in"
    /\ epoch' = 0 /\ profile' = NoProfile /\ historyOf' = Nobody
    /\ calls' = {} /\ persists' = 0 /\ recovery' = Nobody
    /\ UNCHANGED <<tearing, stored>>

----------------------------------------------------------------------------
(* Routes and their guards.                                                *)

Send(kind, gate) ==
    calls' = calls \cup {[kind |-> kind, user |-> session, epoch |-> epoch, gate |-> gate]}

MayCall == isAuthed /\ Cardinality(calls) < MaxCalls

Routing == {"landing", "login", "signed-in", "onboarding", "app", "consent", "reset"}

GoTo(route) ==
    /\ page \in Routing
    /\ page' = route
    /\ UNCHANGED <<session, epoch, tearing, held, profile, historyOf, persists, snapshots,
                   confirmed>>

guestGuard == ~isAuthed /\ GoTo("login") /\ UNCHANGED <<calls, recovery, stash>>

(* Leaving the reset page ends the recovery.                               *)
Leave == recovery' = IF page = "reset" THEN Nobody ELSE recovery

authGuard == ~isAuthed /\ page # "login" /\ GoTo("login") /\ Leave /\ UNCHANGED <<calls, stash>>

(* A stored consent return wins, once.                                     *)
consentReturnGuard ==
    /\ isAuthed /\ stash
    /\ GoTo("consent") /\ stash' = FALSE
    /\ Leave /\ UNCHANGED calls

(* A profile that is loaded and confirmed needs no request.                *)
ageGuard ==
    /\ isAuthed /\ ~stash /\ page # "app"
    /\ \/ ageConfirmed /\ GoTo("app") /\ UNCHANGED calls
       \/ ~ageConfirmed /\ MayCall /\ GoTo("opening") /\ Send("profile", TRUE)
    /\ Leave /\ UNCHANGED stash

(* The workspace creates the notification store, which restores the        *)
(* history of the user it finds, once.                                     *)
restore ==
    /\ page = "app" /\ isAuthed /\ historyOf = Nobody
    /\ historyOf' = session
    /\ held' = IF held["notifications"] = {}
               THEN Hold({"notifications"}, readCache("notifications", session))
               ELSE held
    /\ UNCHANGED <<session, page, epoch, tearing, profile, calls, persists, recovery, stored>>

(* The consent page sends a visitor to sign in and keeps the way back; a   *)
(* decision leaves the app.                                                *)
openConsent ==
    /\ page = "landing"
    /\ IF isAuthed THEN GoTo("consent") /\ UNCHANGED stash
                   ELSE GoTo("login") /\ stash' = TRUE
    /\ UNCHANGED <<calls, recovery>>

decide == page = "consent" /\ isAuthed /\ Unload

----------------------------------------------------------------------------
(* Requests and what their answers write.                                  *)

(* ProfileStore.load and GenerationStore.load show the snapshot first.     *)
LoadKinds == {"profile", "generations", "ledger", "personas"}

FromSnapshot(kind) ==
    IF kind = "generations" /\ held[kind] = {}
    THEN held' = Hold({kind}, readCache(kind, session)) ELSE UNCHANGED held

load ==
    /\ page = "app" /\ MayCall
    /\ \E kind \in LoadKinds : Send(kind, FALSE) /\ FromSnapshot(kind)
    /\ UNCHANGED <<session, page, epoch, tearing, profile, historyOf, persists, recovery, stored>>

create ==
    /\ page = "app" /\ MayCall
    /\ Send("create", FALSE)
    /\ UNCHANGED <<session, page, epoch, tearing, held, profile, historyOf, persists,
                   recovery, stored>>

tick ==
    /\ page = "app" /\ MayCall /\ held["generations"] # {}
    /\ Send("jobs", FALSE)
    /\ UNCHANGED <<session, page, epoch, tearing, held, profile, historyOf, persists,
                   recovery, stored>>

sendBirthDate ==
    /\ page = "onboarding" /\ MayCall
    /\ Send("age", TRUE)
    /\ GoTo("opening")
    /\ UNCHANGED <<recovery, stash>>

deleteAccount ==
    /\ page = "app" /\ MayCall
    /\ Send("delete", FALSE)
    /\ UNCHANGED <<session, page, epoch, tearing, held, profile, historyOf, persists,
                   recovery, stored>>

Answered(c) ==
    /\ c \in calls
    /\ calls' = calls \ {c}
    /\ UNCHANGED <<session, epoch, tearing, recovery>>

AlwaysCurrent(c) == c \in calls

isCurrent(c) == c.epoch = epoch

(* ProfileStore.apply writes the balance and the preferences too.          *)
applyProfile(c) ==
    /\ profile' = [of |-> c.user, confirmed |-> c.user \in confirmed]
    /\ held' = Hold({"ledger", "preferences"}, {c.user})
    /\ snapshots' = [snapshots EXCEPT ![<<"profile", c.user>>] = {c.user},
                                      ![<<"preferences", Nobody>>] = {c.user}]
    /\ page' = IF ~c.gate THEN page
               ELSE IF c.user \in confirmed THEN "app" ELSE "onboarding"
    /\ UNCHANGED <<historyOf, persists, confirmed, stash>>

applyList(c) ==
    /\ held' = Hold({c.kind}, {c.user})
    /\ persists' = IF c.kind = "generations" THEN 1 ELSE persists
    /\ UNCHANGED <<page, profile, historyOf, stored>>

applyCreated(c) ==
    /\ held' = [Hold({"ledger"}, {c.user}) EXCEPT !["generations"] = @ \cup {c.user}]
    /\ persists' = 1
    /\ UNCHANGED <<page, profile, historyOf, stored>>

(* A render that ended is news: the history is written under the user the  *)
(* store was created for.                                                  *)
applyJobUpdates(c) ==
    /\ held' = [held EXCEPT !["notifications"] = @ \cup {c.user}]
    /\ snapshots' = IF historyOf = Nobody THEN snapshots
                    ELSE WithSnapshot(<<"notifications", historyOf>>, held'["notifications"])
    /\ persists' = 1
    /\ UNCHANGED <<page, profile, historyOf, confirmed, stash>>

Answer(c) ==
    /\ Answered(c) /\ isCurrent(c)
    /\ \/ c.kind = "profile" /\ applyProfile(c)
       \/ c.kind \in {"generations", "ledger", "personas"} /\ applyList(c)
       \/ c.kind = "create" /\ applyCreated(c)
       \/ c.kind = "jobs" /\ applyJobUpdates(c)

(* The server took the date of birth: the page loads the profile again.    *)
AgeConfirmed(c) ==
    /\ c \in calls /\ isCurrent(c) /\ c.kind = "age"
    /\ confirmed' = confirmed \cup {c.user}
    /\ calls' = (calls \ {c}) \cup {[c EXCEPT !.kind = "profile"]}
    /\ UNCHANGED <<session, page, epoch, tearing, held, profile, historyOf, persists,
                   snapshots, recovery, stash>>

(* The account is refused for its age, or deleted: the page signs out.     *)
AccountEnds(c) ==
    /\ c \in calls /\ isCurrent(c) /\ c.kind \in {"age", "delete"}
    /\ isAuthed
    /\ onIdentityChange(Nobody)
    /\ calls' = calls \ {c}
    /\ page' = "landing"
    /\ UNCHANGED stash

(* The answer of another epoch, or none: the caller gets an error, and a   *)
(* navigation that waited for it goes nowhere.                             *)
Dropped(c) ==
    /\ Answered(c)
    /\ page' = IF c.gate /\ page = "opening" THEN "landing" ELSE page
    /\ UNCHANGED <<held, profile, historyOf, persists, stored>>

(* GenerationStore.persist asks the auth client for the user, then writes  *)
(* what the library holds by then.                                         *)
persist ==
    /\ persists = 1
    /\ persists' = 0
    /\ snapshots' = WithSnapshot(<<"generations", session>>, held["generations"])
    /\ UNCHANGED <<session, page, epoch, tearing, held, profile, historyOf, calls, recovery,
                   confirmed, stash>>

(* PreferencesService.update keeps what it had and adds the change.        *)
updatePreferences ==
    /\ page = "app" /\ isAuthed
    /\ held' = [held EXCEPT !["preferences"] = @ \cup {session}]
    /\ snapshots' = WithSnapshot(<<"preferences", Nobody>>, held'["preferences"])
    /\ UNCHANGED <<session, page, epoch, tearing, profile, historyOf, calls, persists,
                   recovery, confirmed, stash>>

----------------------------------------------------------------------------
(* The password recovery.                                                  *)

RecoveryExpires ==
    /\ recovery # Nobody
    /\ recovery' = Nobody
    /\ UNCHANGED <<session, page, epoch, tearing, held, profile, historyOf, calls, persists,
                   stored>>

completePasswordReset ==
    /\ page = "reset" /\ recovery # Nobody /\ session = recovery
    /\ recovery' = Nobody
    /\ page' = "signed-in"
    /\ UNCHANGED <<session, epoch, tearing, held, profile, historyOf, calls, persists, stored>>

Next ==
    \/ Open \/ OpenResetLink \/ Close
    \/ signOut \/ SignInElsewhere \/ signInEmail \/ signInGoogle \/ TeardownEnds
    \/ guestGuard \/ authGuard \/ consentReturnGuard \/ ageGuard \/ restore
    \/ openConsent \/ decide
    \/ load \/ create \/ tick \/ sendBirthDate \/ deleteAccount
    \/ \E c \in calls : Answer(c) \/ AgeConfirmed(c) \/ AccountEnds(c) \/ Dropped(c)
    \/ persist \/ updatePreferences
    \/ RecoveryExpires \/ completePasswordReset

Spec == Init /\ [][Next]_sessionVars

----------------------------------------------------------------------------
(* Once the teardown is over the page holds nothing of an account that has *)
(* left: no store, no profile and no recovery, whatever answers were still *)
(* in flight when the identity changed.                                    *)
NothingForeign ==
    isAuthed /\ ~tearing =>
        /\ \A s \in Stores : held[s] \subseteq {session}
        /\ profile.of \in {session, Nobody}
        /\ recovery \in {session, Nobody}

(* Nobody reaches the workspace on the age another account confirmed.      *)
GateIsTheirs == [][page' = "app" /\ page # "app" => session \in confirmed]_sessionVars

(* The history of notifications kept under a user's name is that user's.   *)
HistoryIsTheirs ==
    \A user \in Users : snapshots[<<"notifications", user>>] \subseteq {user}
=============================================================================
