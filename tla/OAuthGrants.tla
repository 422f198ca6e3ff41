----------------------------- MODULE OAuthGrants -----------------------------
(***************************************************************************)
(* The authorization server for assistants (api/oauth/*, 0036): dynamic    *)
(* registration, the pending request, the consent page, codes, and access  *)
(* and refresh tokens with strict rotation.                                *)
(*                                                                         *)
(* Each stored function is one step.  Whoever was ever given a code or a   *)
(* token may present it again at any time, with any other parameters: that *)
(* is how a lost answer, a retry, two refreshes at once and a token that   *)
(* fell into other hands all look to the server.                           *)
(***************************************************************************)
EXTENDS Integers, FiniteSets

CONSTANTS
    Users, Clients,
    Requests, Grants, Codes, Tokens,   \* sets of numbers, used up in order
    RedirectUris,    \* records: the redirect addresses a client may send
    Verifiers,       \* PKCE verifiers; the challenge of one is the verifier
    Nobody,          \* model value
    MaxRecent        \* registrations accepted in one hour

VARIABLES
    clients,   \* oauth_clients: the redirect URIs, {} when not registered
    recent,    \* clients registered within the hour
    requests,  \* oauth_requests
    pages,     \* each user's consent page: the request, and what was read of it
    grants,    \* oauth_grants
    codes,     \* oauth_codes
    tokens     \* oauth_tokens

oauthVars == <<clients, recent, requests, pages, grants, codes, tokens>>

(* What the code's own constants satisfy: rows are numbered as they come.  *)
ConstantsFit ==
    /\ Grants \subseteq Nat /\ Codes \subseteq Nat /\ Tokens \subseteq Nat
    /\ Nobody \notin Grants \cup Codes

NoRequest == [client |-> Nobody, uri |-> Nobody, challenge |-> Nobody, status |-> "none"]
NoGrant == [user |-> Nobody, client |-> Nobody, approved |-> {}, status |-> "none"]
NoCode == [grant |-> Nobody, uri |-> Nobody, challenge |-> Nobody,
           status |-> "none", expired |-> FALSE]
NoToken == [grant |-> Nobody, kind |-> "none", code |-> Nobody,
            replaced |-> FALSE, revoked |-> FALSE, expired |-> FALSE]
NoPage == [request |-> Nobody, granted |-> FALSE]

Init ==
    /\ clients = [c \in Clients |-> {}]
    /\ recent = {}
    /\ requests = [r \in Requests |-> NoRequest]
    /\ pages = [u \in Users |-> NoPage]
    /\ grants = [g \in Grants |-> NoGrant]
    /\ codes = [k \in Codes |-> NoCode]
    /\ tokens = [t \in Tokens |-> NoToken]

-----------------------------------------------------------------------------
(* Registration.                                                           *)

Loopback == {"127.0.0.1", "localhost", "[::1]"}
BannedSchemes == {"javascript", "data", "file", "vbscript", "about", "blob"}

(* The addresses that may be registered; the string is kept as it was sent.*)
Registrable(uri) ==
    /\ uri.absolute /\ ~uri.fragment /\ ~uri.credentials
    /\ uri.scheme \notin BannedSchemes
    /\ uri.scheme = "http" => uri.host \in Loopback

(* What a person is shown of an address before they allow it.              *)
redirectHost(uri) == IF uri.host = "" THEN uri.scheme ELSE uri.host

(* A public client with one to five addresses, while the hour's budget     *)
(* lasts; the counts are taken under one lock.                             *)
handleRegister(c, uris) ==
    /\ clients[c] = {}
    /\ uris # {} /\ Cardinality(uris) <= 5
    /\ \A uri \in uris : Registrable(uri)
    /\ Cardinality(recent) < MaxRecent
    /\ clients' = [clients EXCEPT ![c] = uris]
    /\ recent' = recent \cup {c}
    /\ UNCHANGED <<requests, pages, grants, codes, tokens>>

HourPasses ==
    /\ recent # {} /\ recent' = {}
    /\ UNCHANGED <<clients, requests, pages, grants, codes, tokens>>

-----------------------------------------------------------------------------
(* GET /oauth/authorize stores a request for an address the client has     *)
(* registered, exactly.                                                    *)
handleAuthorize(r, c, uri, challenge) ==
    /\ requests[r].status = "none" /\ \A q \in Requests : q < r => requests[q].status # "none"
    /\ uri \in clients[c]
    /\ requests' = [requests EXCEPT ![r] =
         [client |-> c, uri |-> uri, challenge |-> challenge, status |-> "live"]]
    /\ UNCHANGED <<clients, recent, pages, grants, codes, tokens>>

ExpireRequest(r) ==
    /\ requests[r].status = "live"
    /\ requests' = [requests EXCEPT ![r].status = "expired"]
    /\ UNCHANGED <<clients, recent, pages, grants, codes, tokens>>

Active(g) == grants[g].status = "active"

(* The grant of this user and client that is active, as a set.             *)
ActiveGrant(u, c) == {g \in Grants : Active(g) /\ grants[g].user = u /\ grants[g].client = c}

isApproved(u, c, uri) == \E g \in ActiveGrant(u, c) : uri \in grants[g].approved

(* The consent page reads the request, and whether this very address was   *)
(* already approved, in which case it goes on to allow by itself.          *)
getRequest(u, r) ==
    /\ requests[r].status = "live" /\ pages[u] = NoPage
    /\ pages' = [pages EXCEPT ![u] =
         [request |-> r, granted |-> isApproved(u, requests[r].client, requests[r].uri)]]
    /\ UNCHANGED <<clients, recent, requests, grants, codes, tokens>>

(* fn_oauth_approve takes the request away, creates the grant or reuses    *)
(* the active one, and issues the code.                                    *)
Approved(u, r, g) ==
    IF Active(g) THEN [grants EXCEPT ![g].approved = @ \cup {requests[r].uri}]
    ELSE [grants EXCEPT ![g] = [user |-> u, client |-> requests[r].client,
                                approved |-> {requests[r].uri}, status |-> "active"]]

GrantFor(u, c) ==
    IF ActiveGrant(u, c) # {} THEN ActiveGrant(u, c)
    ELSE {g \in Grants : /\ grants[g].status = "none"
                         /\ \A h \in Grants : h < g => grants[h].status # "none"}

approveRequest(u, r, g, k) ==
    /\ pages[u].request = r
    /\ requests[r].status = "live"
    /\ g \in GrantFor(u, requests[r].client)
    /\ codes[k].status = "none" /\ \A j \in Codes : j < k => codes[j].status # "none"
    /\ grants' = Approved(u, r, g)
    /\ codes' = [codes EXCEPT ![k] = [NoCode EXCEPT
         !.grant = g, !.uri = requests[r].uri, !.challenge = requests[r].challenge,
         !.status = "fresh"]]
    /\ requests' = [requests EXCEPT ![r].status = "answered"]
    /\ pages' = [pages EXCEPT ![u] = NoPage]
    /\ UNCHANGED <<clients, recent, tokens>>

(* Deny takes the request away too, and an expired one is only not found.  *)
deny(r) == [requests EXCEPT ![r].status = IF @ = "none" THEN @ ELSE "answered"]

denyRequest(u, r) ==
    /\ pages[u].request = r
    /\ requests' = deny(r)
    /\ pages' = [pages EXCEPT ![u] = NoPage]
    /\ UNCHANGED <<clients, recent, grants, codes, tokens>>

-----------------------------------------------------------------------------
(* Tokens.                                                                 *)

(* Ending a grant: the grant, its tokens and its unused codes.             *)
RevokeGrant(g) ==
    /\ grants' = [grants EXCEPT ![g].status = "revoked"]
    /\ tokens' = [t \in Tokens |-> IF tokens[t].grant = g
                                   THEN [tokens[t] EXCEPT !.revoked = TRUE] ELSE tokens[t]]
    /\ codes' = [k \in Codes |-> IF codes[k].grant = g
                                 THEN [codes[k] EXCEPT !.status = "used"] ELSE codes[k]]

(* A new access token a and a new refresh token f of a grant.              *)
Issue(current, a, f, g, k) ==
    [current EXCEPT ![a] = [NoToken EXCEPT !.grant = g, !.kind = "access", !.code = k],
                    ![f] = [NoToken EXCEPT !.grant = g, !.kind = "refresh", !.code = k]]

Unissued(a, f) ==
    /\ tokens[a].kind = "none" /\ tokens[f].kind = "none" /\ a < f
    /\ \A t \in Tokens : t < f /\ t # a => tokens[t].kind # "none"

(* A second use of a code ends its whole grant.                            *)
codeReused(k) ==
    /\ codes[k].status = "used"
    /\ RevokeGrant(codes[k].grant)
    /\ UNCHANGED <<clients, recent, requests, pages>>

Redeemable(k) == codes[k].status = "fresh" /\ ~codes[k].expired /\ Active(codes[k].grant)

redeemCode(k, c, uri, verifier, a, f) ==
    /\ Redeemable(k)
    /\ grants[codes[k].grant].client = c /\ codes[k].uri = uri /\ codes[k].challenge = verifier
    /\ Unissued(a, f)
    /\ codes' = [codes EXCEPT ![k].status = "used"]
    /\ tokens' = Issue(tokens, a, f, codes[k].grant, k)
    /\ UNCHANGED <<clients, recent, requests, pages, grants>>

(* A refresh token that was rotated and is presented again ends the grant. *)
refreshReused(t) ==
    /\ tokens[t].kind = "refresh" /\ tokens[t].replaced
    /\ RevokeGrant(tokens[t].grant)
    /\ UNCHANGED <<clients, recent, requests, pages>>

Live(t) == ~tokens[t].revoked /\ ~tokens[t].expired /\ Active(tokens[t].grant)

Rotatable(t) == tokens[t].kind = "refresh" /\ ~tokens[t].replaced /\ Live(t)

(* A mutant: the rotated token is left as it was.                          *)
IssueBeside(t, c, a, f) ==
    /\ Rotatable(t) /\ grants[tokens[t].grant].client = c
    /\ Unissued(a, f)
    /\ tokens' = Issue(tokens, a, f, tokens[t].grant, tokens[t].code)
    /\ UNCHANGED <<clients, recent, requests, pages, grants, codes>>

rotateRefresh(t, c, a, f) ==
    /\ Rotatable(t)
    /\ grants[tokens[t].grant].client = c
    /\ Unissued(a, f)
    /\ tokens' = Issue([tokens EXCEPT ![t].replaced = TRUE], a, f,
                       tokens[t].grant, tokens[t].code)
    /\ UNCHANGED <<clients, recent, requests, pages, grants, codes>>

(* POST /oauth/revoke: a refresh token ends the grant, an access token     *)
(* itself; another client's token is left alone.                           *)
ClientMay(t, c) == c \in {Nobody, grants[tokens[t].grant].client}

handleRevoke(t, c) ==
    /\ tokens[t].kind # "none" /\ ClientMay(t, c)
    /\ IF tokens[t].kind = "refresh" THEN RevokeGrant(tokens[t].grant)
       ELSE tokens' = [tokens EXCEPT ![t].revoked = TRUE] /\ UNCHANGED <<grants, codes>>
    /\ UNCHANGED <<clients, recent, requests, pages>>

(* Connected assistants, Disconnect.                                       *)
revokeUserGrant(u, c) ==
    /\ \E g \in ActiveGrant(u, c) : RevokeGrant(g)
    /\ UNCHANGED <<clients, recent, requests, pages>>

(* The purge removes a revoked grant with everything that hangs on it; its *)
(* tokens and codes can be presented no more, like expired ones, and the   *)
(* model keeps their rows revoked.                                         *)
ExpireCode(k) ==
    /\ codes[k].status = "fresh" /\ ~codes[k].expired
    /\ codes' = [codes EXCEPT ![k].expired = TRUE]
    /\ UNCHANGED <<clients, recent, requests, pages, grants, tokens>>

ExpireToken(t) ==
    /\ tokens[t].kind # "none" /\ ~tokens[t].expired
    /\ tokens' = [tokens EXCEPT ![t].expired = TRUE]
    /\ UNCHANGED <<clients, recent, requests, pages, grants, codes>>

(* What /mcp accepts.                                                      *)
authenticateMcp(t) == tokens[t].kind = "access" /\ Live(t)

Next ==
    \/ \E c \in Clients, uris \in SUBSET RedirectUris : handleRegister(c, uris)
    \/ HourPasses
    \/ \E r \in Requests, c \in Clients, uri \in RedirectUris, v \in Verifiers :
          handleAuthorize(r, c, uri, v)
    \/ \E u \in Users, r \in Requests : getRequest(u, r) \/ denyRequest(u, r)
    \/ \E r \in Requests : ExpireRequest(r)
    \/ \E u \in Users, r \in Requests, g \in Grants, k \in Codes : approveRequest(u, r, g, k)
    \/ \E k \in Codes : codeReused(k) \/ ExpireCode(k)
    \/ \E k \in Codes, c \in Clients, uri \in RedirectUris, v \in Verifiers,
          a \in Tokens, f \in Tokens : redeemCode(k, c, uri, v, a, f)
    \/ \E t \in Tokens : refreshReused(t) \/ ExpireToken(t)
    \/ \E t \in Tokens, c \in Clients, a \in Tokens, f \in Tokens : rotateRefresh(t, c, a, f)
    \/ \E t \in Tokens, c \in Clients \cup {Nobody} : handleRevoke(t, c)
    \/ \E u \in Users, c \in Clients : revokeUserGrant(u, c)

Spec == Init /\ [][Next]_oauthVars

-----------------------------------------------------------------------------
(* A disconnected grant is dead for good: nothing issued under it opens    *)
(* /mcp, can be rotated or redeemed, and a later approval of the same      *)
(* assistant, or a redemption that raced the disconnect, revives nothing.  *)
RevokedIsDead ==
    /\ \A t \in Tokens : tokens[t].kind # "none" /\ ~tokens[t].revoked =>
          grants[tokens[t].grant].status = "active"
    /\ \A k \in Codes : codes[k].status = "fresh" => grants[codes[k].grant].status = "active"

(* However often a code or a refresh token is presented, and by whom, one  *)
(* approval never has two refresh tokens that both work.                   *)
ChainsAreLinear ==
    \A s, t \in Tokens : Rotatable(s) /\ Rotatable(t) /\ tokens[s].code = tokens[t].code => s = t

(* What one approval gave is held once and ends with it.                   *)
GrantIsSound == RevokedIsDead /\ ChainsAreLinear
=============================================================================
