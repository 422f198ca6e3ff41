----------------------------- MODULE ModelSessions -----------------------------
(***************************************************************************)
(* The models the editor runs in the browser: sessions shared by owners    *)
(* and freed by the last one, their bytes from Cache Storage or the        *)
(* network, verified either way, and the budget of the cache               *)
(* (engines/model-loader.ts, model-budget.ts, model-consent.ts,            *)
(* model-manifest.ts), used by a tool that borrows one model (Cut Out,     *)
(* Bokeh), falls back from the GPU (Upscale, AI Sharpen) or borrows two at *)
(* once (Smart Select).                                                    *)
(*                                                                         *)
(* A step is the code between two awaits.  Usage is kept in order of last  *)
(* use, the bytes of every model count one.                                *)
(***************************************************************************)
EXTENDS Naturals, Sequences, FiniteSets, SequencesExt, FiniteSetsExt

CONSTANTS
    Borrowers,   \* operations that can be under way at once
    Lives,       \* sessions, loading or loaded, that can exist at once (numbers)
    Manifest,    \* the models of the manifest
    Leftovers,   \* models of an earlier manifest, still in the cache
    CacheBudget,
    NoLive,
    MaxRuns      \* operations the customer starts

VARIABLES
    sessions,  \* model and providers -> the live session, if any
    lives,     \* every session: its owners and how far its loading is
    cache,     \* Cache Storage: none, good or poison
    usage,     \* localStorage: the models recorded, least recently used first
    pinned,
    tools,     \* every operation, and the leases it holds
    runs

(* What the code's own constants satisfy: sessions can be told apart.      *)
ConstantsFit == Lives \subseteq Nat /\ IsFiniteSet(Lives) /\ NoLive \notin Lives

modelVars == <<sessions, lives, cache, usage, pinned, tools, runs>>

Models == Manifest \cup Leftovers
Keys == Manifest \X {"auto", "wasm"}
Strands == {"first", "second"}
NoLease == [at |-> "none", live |-> NoLive]
Free == [key |-> <<NoLive, "auto">>, owners |-> 0, at |-> "free", bytes |-> "none",
         evict |-> {}, saw |-> <<>>]
Idle == [job |-> "none", at |-> "idle", lease |-> [s \in Strands |-> NoLease]]

Init ==
    /\ sessions = [k \in Keys |-> NoLive]
    /\ lives = [l \in Lives |-> Free]
    /\ cache \in {c \in [Models -> {"none", "good", "poison"}] :
                    \A m \in Leftovers : c[m] = "good"}
    /\ usage = SetToSeq({m \in Models : cache[m] # "none"})
    /\ pinned = {} /\ runs = 0
    /\ tools = [t \in Borrowers |-> Idle]

-----------------------------------------------------------------------------
(* Acquire and release.                                                    *)

Begun(k) == [Free EXCEPT !.key = k, !.owners = 1, !.at = "match"]

(* The session of the key is shared, or a new one begins to load.          *)
AcquiredIn(st, k) ==
    LET l == IF st.of[k] # NoLive THEN st.of[k]
             ELSE Min({x \in Lives : st.lives[x].at = "free"}) IN
    [of |-> [st.of EXCEPT ![k] = l],
     lives |-> [st.lives EXCEPT ![l] = IF st.of[k] = NoLive THEN Begun(k)
                                       ELSE [st.lives[l] EXCEPT !.owners = @ + 1]]]
Now == [of |-> sessions, lives |-> lives]
Roomy == Cardinality({l \in Lives : lives[l].at = "free"}) >= 2
Become(st) == sessions' = st.of /\ lives' = st.lives
Waits(st, k) == [at |-> "waits", live |-> st.of[k]]

Forget(l) == [k \in Keys |-> IF sessions[k] = l THEN NoLive ELSE sessions[k]]

(* Mutant of LastOwner: whoever lets go disposes.                          *)
AnyOwner(l) == lives[l].owners >= 1

LastOwner(l) == lives[l].owners = 1

Released(l) ==
    IF LastOwner(l)
      THEN /\ lives' = [lives EXCEPT ![l] = Free]
           /\ sessions' = Forget(l)
           /\ pinned' = pinned \ {lives[l].key[1]}
      ELSE lives' = [lives EXCEPT ![l].owners = @ - 1] /\ UNCHANGED <<sessions, pinned>>

(* The promise settled: an owner goes on with the session, or forgets it.  *)
acquireOrtSession(t, s) ==
    LET l == tools[t].lease[s].live IN
    /\ tools[t].lease[s].at = "waits"
    /\ \/ /\ lives[l].at = "ready"
          /\ pinned' = pinned \cup {lives[l].key[1]}
          /\ tools' = [tools EXCEPT ![t].lease[s].at = "held"]
          /\ UNCHANGED <<sessions, lives>>
       \/ /\ lives[l].at = "failed"
          /\ lives' = [lives EXCEPT ![l] = IF LastOwner(l) THEN Free
                                           ELSE [lives[l] EXCEPT !.owners = @ - 1]]
          /\ sessions' = Forget(l)
          /\ tools' = [tools EXCEPT ![t].lease[s] = [NoLease EXCEPT !.at = "failed"]]
          /\ UNCHANGED pinned
    /\ UNCHANGED <<cache, usage, runs>>

-----------------------------------------------------------------------------
(* Loading (createSession, loadModelBytes).                                *)

Loads(l, at) == lives[l].at = at
Model(l) == lives[l].key[1]
To(l, at) == lives' = [lives EXCEPT ![l].at = at]
Touched(m) == Append(SelectSeq(usage, LAMBDA x : x # m), m)
loading == <<sessions, pinned, tools, runs>>

verify(bytes) == bytes = "good"

Match(l) ==
    LET hit == cache[Model(l)] IN
    /\ Loads(l, "match")
    /\ IF hit # "none" /\ verify(hit)
         THEN /\ usage' = Touched(Model(l))
              /\ lives' = [lives EXCEPT ![l].at = "create", ![l].bytes = hit]
              /\ UNCHANGED cache
         ELSE /\ cache' = [cache EXCEPT ![Model(l)] = "none"]
              /\ To(l, "fetch") /\ UNCHANGED usage
    /\ UNCHANGED loading

(* Room is made from what was recorded, least recently used first, but for *)
(* what is pinned.                                                         *)
Room(n) == n + 1 <= CacheBudget
Excess(seq) == IF Room(Len(seq)) THEN 0 ELSE Len(seq) + 1 - CacheBudget

reserveBudget(l, bytes) ==
    LET unpinned == SelectSeq(usage, LAMBDA m : m \notin pinned)
        n == Excess(usage)
        live == [lives[l] EXCEPT !.bytes = bytes] IN
    lives' = [lives EXCEPT ![l] =
        IF n = 0 THEN [live EXCEPT !.at = "put"]
        ELSE [live EXCEPT !.at = "evict", !.saw = usage, !.evict =
                ToSet(SubSeq(unpinned, 1, IF n < Len(unpinned) THEN n ELSE Len(unpinned)))]]

(* The customer agrees, or not; a wrong size is refused on the header or   *)
(* in mid-body, a wrong hash after.                                        *)
download(l) ==
    /\ Loads(l, "fetch")
    /\ \E bytes \in {"good", "poison", "none"} :
         IF bytes # "none" /\ verify(bytes) THEN reserveBudget(l, bytes) ELSE To(l, "failed")
    /\ UNCHANGED <<loading, cache, usage>>

(* The record is written from the one read before: a use recorded in       *)
(* between is lost.                                                        *)
dropFromCache(l) ==
    LET left == SelectSeq(lives[l].saw, LAMBDA m : m \notin lives[l].evict) IN
    /\ Loads(l, "evict")
    /\ cache' = [m \in Models |-> IF m \in lives[l].evict THEN "none" ELSE cache[m]]
    /\ usage' = left
    /\ lives' = [lives EXCEPT ![l].at = IF Room(Len(left)) THEN "put" ELSE "create",
                              ![l].evict = {}, ![l].saw = <<>>]
    /\ UNCHANGED loading

(* A quota that is full costs a download next time.                        *)
Put(l) ==
    /\ Loads(l, "put") /\ To(l, "create")
    /\ \/ cache' = [cache EXCEPT ![Model(l)] = lives[l].bytes] /\ usage' = Touched(Model(l))
       \/ UNCHANGED <<cache, usage>>
    /\ UNCHANGED loading

createSession(l) ==
    /\ Loads(l, "create")
    /\ To(l, "ready") \/ To(l, "failed")
    /\ UNCHANGED <<loading, cache, usage>>

-----------------------------------------------------------------------------
(* The tools.                                                              *)

kept == <<cache, usage>>

(* removeBackground, depthMap; upscale2x, deblur.                          *)
Borrow(t, m) ==
    LET k == <<m, "auto">>  st == AcquiredIn(Now, k) IN
    /\ tools[t] = Idle /\ runs < MaxRuns /\ runs' = runs + 1
    /\ Roomy /\ Become(st)
    /\ tools' = [tools EXCEPT ![t] = [Idle EXCEPT !.job = "model", !.at = "works",
                                                 !.lease["first"] = Waits(st, k)]]
    /\ UNCHANGED <<kept, pinned>>

Over(t) == tools' = [tools EXCEPT ![t] = Idle]

Done(t) ==
    /\ tools[t].job = "model" /\ tools[t].lease["second"] = NoLease
    /\ LET first == tools[t].lease["first"] IN
       \/ first.at = "failed" /\ Over(t) /\ UNCHANGED <<sessions, lives, pinned>>
       \/ first.at = "held" /\ Released(first.live) /\ Over(t)
    /\ UNCHANGED <<kept, runs>>

(* The first tile came back wrong: a session on the CPU, then the other is *)
(* let go.                                                                 *)
Fallback(t) ==
    /\ tools[t].job = "model" /\ tools[t].at = "works"
    /\ tools[t].lease["first"].at = "held"
    /\ Roomy
    /\ LET k == <<lives[tools[t].lease["first"].live].key[1], "wasm">>
           st == AcquiredIn(Now, k) IN
       /\ Become(st)
       /\ tools' = [tools EXCEPT ![t].at = "falls", ![t].lease["second"] = Waits(st, k)]
    /\ UNCHANGED <<kept, pinned, runs>>

Swap(t) ==
    LET second == tools[t].lease["second"] IN
    /\ tools[t].at = "falls" /\ second.at \in {"held", "failed"}
    /\ Released(tools[t].lease["first"].live)
    /\ IF second.at = "failed" THEN Over(t)
       ELSE tools' = [tools EXCEPT ![t].at = "swapped",
                         ![t].lease = [s \in Strands |-> IF s = "first" THEN second ELSE NoLease]]
    /\ UNCHANGED <<kept, runs>>

(* The encoder and the decoder are borrowed together; of a picture that was*)
(* encoded before, or is being encoded, the decoder alone.                 *)
smartSelect(t, encoder, decoder, embedded) ==
    LET one == IF embedded THEN Now ELSE AcquiredIn(Now, <<encoder, "wasm">>)
        both == AcquiredIn(one, <<decoder, "wasm">>) IN
    /\ tools[t] = Idle /\ runs < MaxRuns /\ runs' = runs + 1
    /\ encoder # decoder /\ Roomy /\ Become(both)
    /\ tools' = [tools EXCEPT ![t] = [job |-> "select", at |-> "works", lease |->
           [s \in Strands |-> IF s = "second" THEN Waits(both, <<decoder, "wasm">>)
                              ELSE IF embedded THEN [NoLease EXCEPT !.at = "over"]
                              ELSE Waits(both, <<encoder, "wasm">>)]]]
    /\ UNCHANGED <<kept, pinned>>

(* runEncoder lets its session go before the join, whatever came of it.    *)
runEncoder(t) ==
    /\ tools[t].job = "select" /\ tools[t].lease["first"].at = "held"
    /\ Released(tools[t].lease["first"].live)
    /\ \E at \in {"over", "failed"} :
         tools' = [tools EXCEPT ![t].lease["first"] = [NoLease EXCEPT !.at = at]]
    /\ UNCHANGED <<kept, runs>>

(* Promise.all: a failure of either side ends the call, and what the other *)
(* still brings is brought to nobody.                                      *)
Join(t) ==
    LET first == tools[t].lease["first"]  second == tools[t].lease["second"] IN
    /\ tools[t].job = "select"
    /\ \/ /\ first.at = "over" /\ second.at = "held"
          /\ Released(second.live) /\ Over(t)
       \/ /\ "failed" \in {first.at, second.at}
          /\ IF first.at \in {"over", "failed"} /\ second.at = "failed" THEN Over(t)
             ELSE tools' = [tools EXCEPT ![t].job = "abandoned"]
          /\ UNCHANGED <<sessions, lives, pinned>>
    /\ UNCHANGED <<kept, runs>>

(* An encoding nobody waits for any more still ends by itself.             *)
Orphaned(t) ==
    /\ tools[t].job = "abandoned" /\ tools[t].lease["first"].at = "held"
    /\ Released(tools[t].lease["first"].live) /\ Over(t)
    /\ UNCHANGED <<kept, runs>>

Next ==
    \/ \E t \in Borrowers :
         \/ \E m \in Manifest : Borrow(t, m)
         \/ Done(t) \/ Fallback(t) \/ Swap(t)
         \/ \E encoder, decoder \in Manifest : smartSelect(t, encoder, decoder, TRUE)
                                            \/ smartSelect(t, encoder, decoder, FALSE)
         \/ runEncoder(t) \/ Join(t) \/ Orphaned(t)
         \/ \E s \in Strands : acquireOrtSession(t, s)
    \/ \E l \in Lives :
         Match(l) \/ download(l) \/ dropFromCache(l) \/ Put(l) \/ createSession(l)

Spec == Init /\ [][Next]_modelVars

-----------------------------------------------------------------------------
Borrowed(l) == \E t \in Borrowers, s \in Strands : tools[t].lease[s].live = l

(* A session lives exactly as long as some call has borrowed it: nobody    *)
(* runs one that was disposed, none is left once its borrowers are done,   *)
(* and no pin outlives the work and keeps its file from being evicted.     *)
(* What it runs are the bytes of the manifest, wherever they came from.    *)
(* (A call that Select abandons borrows for ever: see the README.)         *)
SessionsFollowWork ==
    /\ \A t \in Borrowers, s \in Strands : tools[t].lease[s].at = "held" =>
           lives[tools[t].lease[s].live].at = "ready"
    /\ \A l \in Lives : lives[l].at = "ready" => lives[l].bytes = "good"
    /\ \A l \in Lives : lives[l].at # "free" => Borrowed(l)
    /\ \A k \in Keys : sessions[k] # NoLive => lives[sessions[k]].key = k
    /\ \A m \in pinned : \E l \in Lives : Borrowed(l) /\ Model(l) = m
=============================================================================
