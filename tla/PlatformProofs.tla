--------------------------- MODULE PlatformProofs ---------------------------
(***************************************************************************)
(* What the platform run (MCPlatform) checks of its components, proved for *)
(* every behaviour of the platform.                                        *)
(*                                                                         *)
(* Each component keeps variables of its own, so a step of the platform is *)
(* a step of the component or leaves it alone: a behaviour of Spec is one  *)
(* of Grant!Spec, Outbox!Spec and so on.  What an approval gives is proved *)
(* here; what is proved of another component is carried over from the      *)
(* module its theorems are in: NotificationOutboxProofs, ObjectLifeProofs  *)
(* and SubmissionProofs.                                                   *)
(***************************************************************************)
EXTENDS MCPlatform, TLAPS

(* Everything the platform's state consists of.                           *)
PlatformVars ==
    <<part, PricesVars, PanelVars, SubmitVars, ObjectsVars, GrantVars, OutboxVars>>

LEMMA GrantSpec == Spec => Grant!Spec
<1>1. Init => Grant!Init
  BY DEF Init
<1>2. [Next]_PlatformVars => [Grant!Next]_(Grant!oauthVars)
  BY DEF Next, PlatformVars, Grant!oauthVars, GrantVars
<1> QED
  BY <1>1, <1>2, PTL DEF Spec, Grant!Spec, PlatformVars

LEMMA OutboxSpec == Spec => Outbox!Spec
<1>1. Init => Outbox!Init
  BY DEF Init
<1>2. [Next]_PlatformVars => [Outbox!Next]_(Outbox!outboxVars)
  BY DEF Next, PlatformVars, Outbox!outboxVars, OutboxVars
<1> QED
  BY <1>1, <1>2, PTL DEF Spec, Outbox!Spec, PlatformVars

-----------------------------------------------------------------------------
(* The assistants' grants                                                  *)
(*                                                                         *)
(* GrantIsSound is not inductive.  That a redemption starts a new chain    *)
(* needs that no token came of a code before it was used (CodesComeFirst), *)
(* and that a later approval revives nothing needs that what was issued    *)
(* hangs on a grant (GrantTypes, GrantsHang).                              *)

GrantType ==
    [user : Users \cup {Nobody}, client : Clients \cup {Nobody},
     approved : SUBSET (MCRedirectUris \cup {Nobody}), status : {"none", "active", "revoked"}]

CodeType ==
    [grant : Grants \cup {Nobody}, uri : MCRedirectUris \cup {Nobody},
     challenge : Verifiers \cup {Nobody}, status : {"none", "fresh", "used"},
     expired : BOOLEAN]

TokenType ==
    [grant : Grants \cup {Nobody}, kind : {"none", "access", "refresh"},
     code : Codes \cup {Nobody}, replaced : BOOLEAN, revoked : BOOLEAN, expired : BOOLEAN]

RequestType ==
    [client : Clients \cup {Nobody}, uri : MCRedirectUris \cup {Nobody},
     challenge : Verifiers \cup {Nobody}, status : {"none", "live", "expired", "answered"}]

GrantTypes ==
    /\ clients \in [Clients -> SUBSET MCRedirectUris]
    /\ recent \in SUBSET Clients
    /\ grantRequests \in [AuthRequests -> RequestType]
    /\ pages \in [Users -> [request : AuthRequests \cup {Nobody}, granted : BOOLEAN]]
    /\ grants \in [Grants -> GrantType]
    /\ codes \in [Codes -> CodeType]
    /\ tokens \in [Tokens -> TokenType]

(* What was issued hangs on a grant, and a token on the code it came of.   *)
GrantsHang ==
    /\ \A k \in Codes : codes[k].status # "none" => codes[k].grant \in Grants
    /\ \A t \in Tokens : tokens[t].kind # "none" =>
          tokens[t].grant \in Grants /\ tokens[t].code \in Codes

(* No token came of a code that was not used yet.                          *)
CodesComeFirst ==
    \A t \in Tokens : tokens[t].kind # "none" => codes[tokens[t].code].status = "used"

GrantSound == GrantsHang /\ CodesComeFirst /\ Grant!RevokedIsDead /\ Grant!ChainsAreLinear

GrantInv == GrantTypes /\ GrantSound

-----------------------------------------------------------------------------
(* The steps that touch grants, codes or tokens.                           *)

Touching ==
    \/ \E u \in Users, r \in AuthRequests, g \in Grants, k \in Codes : Grant!approveRequest(u, r, g, k)
    \/ \E k \in Codes : Grant!ExpireCode(k)
    \/ \E g \in Grants : Grant!RevokeGrant(g) /\ UNCHANGED <<clients, recent, grantRequests, pages>>
    \/ \E k \in Codes, c \in Clients, uri \in MCRedirectUris, v \in Verifiers,
          a \in Tokens, f \in Tokens : Grant!redeemCode(k, c, uri, v, a, f)
    \/ \E t \in Tokens : Grant!ExpireToken(t)
    \/ \E t \in Tokens, c \in Clients, a \in Tokens, f \in Tokens : Grant!rotateRefresh(t, c, a, f)
    \/ \E t \in Tokens : /\ tokens' = [tokens EXCEPT ![t].revoked = TRUE]
                         /\ UNCHANGED <<clients, recent, grantRequests, pages, grants, codes>>

(* A second use of a code or of a refresh token, a revocation and a        *)
(* disconnect end a grant the same way.                                    *)
LEMMA EndsTouch ==
    ASSUME GrantTypes, GrantsHang,
           \/ \E k \in Codes : Grant!codeReused(k)
           \/ \E t \in Tokens : Grant!refreshReused(t)
           \/ \E t \in Tokens, c \in Clients \cup {Nobody} : Grant!handleRevoke(t, c)
           \/ \E u \in Users, c \in Clients : Grant!revokeUserGrant(u, c)
    PROVE  Touching
<1>1. ASSUME NEW k \in Codes, Grant!codeReused(k) PROVE Touching
  <2>1. codes[k].grant \in Grants BY <1>1 DEF Grant!codeReused, GrantsHang
  <2> QED BY <1>1, <2>1 DEF Grant!codeReused, Touching
<1>2. ASSUME NEW t \in Tokens, Grant!refreshReused(t) PROVE Touching
  <2>1. tokens[t].grant \in Grants BY <1>2 DEF Grant!refreshReused, GrantsHang
  <2> QED BY <1>2, <2>1 DEF Grant!refreshReused, Touching
<1>3. ASSUME NEW t \in Tokens, NEW c \in Clients \cup {Nobody}, Grant!handleRevoke(t, c) PROVE Touching
  <2>1. tokens[t].grant \in Grants BY <1>3 DEF Grant!handleRevoke, GrantsHang
  <2>2. CASE tokens[t].kind = "refresh" BY <1>3, <2>1, <2>2 DEF Grant!handleRevoke, Touching
  <2>3. CASE tokens[t].kind # "refresh" BY <1>3, <2>3 DEF Grant!handleRevoke, Touching
  <2> QED BY <2>2, <2>3
<1>4. ASSUME NEW u \in Users, NEW c \in Clients, Grant!revokeUserGrant(u, c) PROVE Touching
  BY <1>4 DEF Grant!revokeUserGrant, Grant!ActiveGrant, Touching
<1> QED BY <1>1, <1>2, <1>3, <1>4

(* Every other step leaves them alone.                                     *)
LEMMA StepsTouch ==
    ASSUME GrantTypes, GrantsHang, [Grant!Next]_(Grant!oauthVars)
    PROVE  Touching \/ UNCHANGED <<grants, codes, tokens>>
<1>1. CASE UNCHANGED Grant!oauthVars
  BY <1>1 DEF Grant!oauthVars
<1>2. CASE \E c \in Clients, uris \in SUBSET MCRedirectUris : Grant!handleRegister(c, uris)
  BY <1>2 DEF Grant!handleRegister
<1>3. CASE Grant!HourPasses
  BY <1>3 DEF Grant!HourPasses
<1>4. CASE \E r \in AuthRequests, c \in Clients, uri \in MCRedirectUris, v \in Verifiers :
              Grant!handleAuthorize(r, c, uri, v)
  BY <1>4 DEF Grant!handleAuthorize
<1>5. CASE \E u \in Users, r \in AuthRequests : Grant!getRequest(u, r) \/ Grant!denyRequest(u, r)
  BY <1>5 DEF Grant!getRequest, Grant!denyRequest
<1>6. CASE \E r \in AuthRequests : Grant!ExpireRequest(r)
  BY <1>6 DEF Grant!ExpireRequest
<1>7. CASE \E u \in Users, r \in AuthRequests, g \in Grants, k \in Codes : Grant!approveRequest(u, r, g, k)
  BY <1>7 DEF Touching
<1>8. CASE \E k \in Codes : Grant!codeReused(k) \/ Grant!ExpireCode(k)
  BY <1>8, EndsTouch DEF Touching
<1>9. CASE \E k \in Codes, c \in Clients, uri \in MCRedirectUris, v \in Verifiers,
              a \in Tokens, f \in Tokens : Grant!redeemCode(k, c, uri, v, a, f)
  BY <1>9 DEF Touching
<1>10. CASE \E t \in Tokens : Grant!refreshReused(t) \/ Grant!ExpireToken(t)
  BY <1>10, EndsTouch DEF Touching
<1>11. CASE \E t \in Tokens, c \in Clients, a \in Tokens, f \in Tokens : Grant!rotateRefresh(t, c, a, f)
  BY <1>11 DEF Touching
<1>12. CASE \E t \in Tokens, c \in Clients \cup {Nobody} : Grant!handleRevoke(t, c)
  BY <1>12, EndsTouch
<1>13. CASE \E u \in Users, c \in Clients : Grant!revokeUserGrant(u, c)
  BY <1>13, EndsTouch
<1> QED
  BY <1>1, <1>2, <1>3, <1>4, <1>5, <1>6, <1>7, <1>8, <1>9, <1>10, <1>11, <1>12, <1>13 DEF Grant!Next

-----------------------------------------------------------------------------
(* Typing.                                                                 *)

LEMMA GrantInitType == Grant!Init => GrantTypes
BY DEF Grant!Init, GrantTypes, Grant!NoRequest, Grant!NoGrant, Grant!NoCode, Grant!NoToken, Grant!NoPage,
       RequestType, GrantType, CodeType, TokenType

LEMMA RevokedType ==
    ASSUME GrantTypes, NEW g \in Grants, Grant!RevokeGrant(g)
    PROVE  /\ grants' \in [Grants -> GrantType] /\ codes' \in [Codes -> CodeType]
           /\ tokens' \in [Tokens -> TokenType]
<1>1. grants' \in [Grants -> GrantType]
  BY DEF GrantTypes, Grant!RevokeGrant, GrantType
<1>2. ASSUME NEW k \in Codes
      PROVE  (IF codes[k].grant = g THEN [codes[k] EXCEPT !.status = "used"] ELSE codes[k])
                \in CodeType
  BY DEF GrantTypes, CodeType
<1>3. codes' \in [Codes -> CodeType]
  BY <1>2 DEF Grant!RevokeGrant
<1>4. ASSUME NEW t \in Tokens
      PROVE  (IF tokens[t].grant = g THEN [tokens[t] EXCEPT !.revoked = TRUE] ELSE tokens[t])
                \in TokenType
  BY DEF GrantTypes, TokenType
<1>5. tokens' \in [Tokens -> TokenType]
  BY <1>4 DEF Grant!RevokeGrant
<1> QED BY <1>1, <1>3, <1>5

LEMMA IssueType ==
    ASSUME NEW current \in [Tokens -> TokenType], NEW a \in Tokens, NEW f \in Tokens,
           NEW g \in Grants, NEW k \in Codes \cup {Nobody}
    PROVE  Grant!Issue(current, a, f, g, k) \in [Tokens -> TokenType]
BY DEF Grant!Issue, Grant!NoToken, TokenType

LEMMA ApprovedType ==
    ASSUME GrantTypes, NEW u \in Users, NEW r \in AuthRequests, NEW g \in Grants
    PROVE  Grant!Approved(u, r, g) \in [Grants -> GrantType]
<1>1. grantRequests[r] \in RequestType /\ grants[g] \in GrantType
  BY DEF GrantTypes
<1>2. grants[g].approved \cup {grantRequests[r].uri} \in SUBSET (MCRedirectUris \cup {Nobody})
  BY <1>1 DEF RequestType, GrantType
<1>3. CASE Grant!Active(g)
  BY <1>1, <1>2, <1>3 DEF GrantTypes, Grant!Approved, GrantType
<1>4. CASE ~Grant!Active(g)
  BY <1>1, <1>4 DEF GrantTypes, Grant!Approved, GrantType, RequestType
<1> QED BY <1>3, <1>4

LEMMA TouchingType == ASSUME GrantTypes, GrantsHang, Touching PROVE GrantTypes'
<1>1. ASSUME NEW u \in Users, NEW r \in AuthRequests, NEW g \in Grants, NEW k \in Codes,
             Grant!approveRequest(u, r, g, k)
      PROVE  GrantTypes'
  <2>1. grants' \in [Grants -> GrantType]
    BY <1>1, ApprovedType DEF Grant!approveRequest
  <2>2. grantRequests[r] \in RequestType BY DEF GrantTypes
  <2>3. codes' \in [Codes -> CodeType]
    BY <1>1, <2>2 DEF Grant!approveRequest, GrantTypes, CodeType, RequestType, Grant!NoCode
  <2>4. grantRequests' \in [AuthRequests -> RequestType] /\ pages' \in [Users -> [request : AuthRequests \cup {Nobody}, granted : BOOLEAN]]
    BY <1>1, <2>2 DEF Grant!approveRequest, GrantTypes, RequestType, Grant!NoPage
  <2> QED BY <1>1, <2>1, <2>3, <2>4 DEF Grant!approveRequest, GrantTypes
<1>2. ASSUME NEW k \in Codes, Grant!ExpireCode(k) PROVE GrantTypes'
  BY <1>2 DEF Grant!ExpireCode, GrantTypes, CodeType
<1>3. ASSUME NEW g \in Grants, Grant!RevokeGrant(g), UNCHANGED <<clients, recent, grantRequests, pages>>
      PROVE  GrantTypes'
  BY <1>3, RevokedType DEF GrantTypes
<1>4. ASSUME NEW k \in Codes, NEW c \in Clients, NEW uri \in MCRedirectUris, NEW v \in Verifiers,
             NEW a \in Tokens, NEW f \in Tokens, Grant!redeemCode(k, c, uri, v, a, f)
      PROVE  GrantTypes'
  <2>1. codes[k].grant \in Grants BY <1>4 DEF Grant!redeemCode, Grant!Redeemable, GrantsHang
  <2>2. tokens' \in [Tokens -> TokenType] BY <1>4, <2>1, IssueType DEF Grant!redeemCode, GrantTypes
  <2>3. codes' \in [Codes -> CodeType] BY <1>4 DEF Grant!redeemCode, GrantTypes, CodeType
  <2> QED BY <1>4, <2>2, <2>3 DEF Grant!redeemCode, GrantTypes
<1>5. ASSUME NEW t \in Tokens, Grant!ExpireToken(t) PROVE GrantTypes'
  BY <1>5 DEF Grant!ExpireToken, GrantTypes, TokenType
<1>6. ASSUME NEW t \in Tokens, NEW c \in Clients, NEW a \in Tokens, NEW f \in Tokens,
             Grant!rotateRefresh(t, c, a, f)
      PROVE  GrantTypes'
  <2> DEFINE after == [tokens EXCEPT ![t].replaced = TRUE]
  <2>1. tokens[t].grant \in Grants /\ tokens[t].code \in Codes
    BY <1>6 DEF Grant!rotateRefresh, Grant!Rotatable, GrantsHang
  <2>2. after \in [Tokens -> TokenType] BY DEF GrantTypes, TokenType
  <2>3. tokens' \in [Tokens -> TokenType]
    BY <1>6, <2>1, <2>2, IssueType DEF Grant!rotateRefresh
  <2> QED BY <1>6, <2>3 DEF Grant!rotateRefresh, GrantTypes
<1>7. ASSUME NEW t \in Tokens, tokens' = [tokens EXCEPT ![t].revoked = TRUE],
             UNCHANGED <<clients, recent, grantRequests, pages, grants, codes>>
      PROVE  GrantTypes'
  BY <1>7 DEF GrantTypes, TokenType
<1> QED BY <1>1, <1>2, <1>3, <1>4, <1>5, <1>6, <1>7 DEF Touching

LEMMA GrantTypeStep == ASSUME GrantTypes, GrantsHang, [Grant!Next]_(Grant!oauthVars) PROVE GrantTypes'
<1>1. CASE UNCHANGED Grant!oauthVars
  BY <1>1 DEF Grant!oauthVars, GrantTypes
<1>2. CASE \E c \in Clients, uris \in SUBSET MCRedirectUris : Grant!handleRegister(c, uris)
  BY <1>2 DEF Grant!handleRegister, GrantTypes
<1>3. CASE Grant!HourPasses
  BY <1>3 DEF Grant!HourPasses, GrantTypes
<1>4. CASE \E r \in AuthRequests, c \in Clients, uri \in MCRedirectUris, v \in Verifiers :
              Grant!handleAuthorize(r, c, uri, v)
  BY <1>4 DEF Grant!handleAuthorize, GrantTypes, RequestType
<1>5. CASE \E u \in Users, r \in AuthRequests : Grant!getRequest(u, r) \/ Grant!denyRequest(u, r)
  <2>1. ASSUME NEW u \in Users, NEW r \in AuthRequests, Grant!getRequest(u, r) PROVE GrantTypes'
    <3>1. Grant!isApproved(u, grantRequests[r].client, grantRequests[r].uri) \in BOOLEAN BY DEF Grant!isApproved
    <3> QED BY <2>1, <3>1 DEF Grant!getRequest, GrantTypes
  <2>2. ASSUME NEW u \in Users, NEW r \in AuthRequests, Grant!denyRequest(u, r) PROVE GrantTypes'
    <3>1. grantRequests[r] \in RequestType BY DEF GrantTypes
    <3> DEFINE status == IF grantRequests[r].status = "none" THEN grantRequests[r].status ELSE "answered"
    <3>2. status \in {"none", "live", "expired", "answered"}
      BY <3>1 DEF RequestType
    <3>3. [grantRequests[r] EXCEPT !.status = status] \in RequestType
      BY <3>1, <3>2 DEF RequestType
    <3>4. grantRequests' = [grantRequests EXCEPT ![r] = [grantRequests[r] EXCEPT !.status = status]]
      BY <2>2 DEF Grant!denyRequest, Grant!deny
    <3> HIDE DEF status
    <3>5. grantRequests' \in [AuthRequests -> RequestType]
      BY <3>3, <3>4 DEF GrantTypes
    <3>6. pages' \in [Users -> [request : AuthRequests \cup {Nobody}, granted : BOOLEAN]]
      BY <2>2 DEF Grant!denyRequest, GrantTypes, Grant!NoPage
    <3> QED BY <2>2, <3>5, <3>6 DEF Grant!denyRequest, GrantTypes
  <2> QED BY <1>5, <2>1, <2>2
<1>6. CASE \E r \in AuthRequests : Grant!ExpireRequest(r)
  <2>1. PICK r \in AuthRequests : Grant!ExpireRequest(r) BY <1>6
  <2>2. [grantRequests[r] EXCEPT !.status = "expired"] \in RequestType
    BY DEF GrantTypes, RequestType
  <2>3. grantRequests' \in [AuthRequests -> RequestType]
    BY <2>1, <2>2 DEF Grant!ExpireRequest, GrantTypes
  <2> QED BY <2>1, <2>3 DEF Grant!ExpireRequest, GrantTypes
<1>7. CASE Touching
  BY <1>7, TouchingType
<1>8. CASE \E u \in Users, r \in AuthRequests, g \in Grants, k \in Codes : Grant!approveRequest(u, r, g, k)
  BY <1>7, <1>8 DEF Touching
<1>9. CASE \E k \in Codes : Grant!codeReused(k) \/ Grant!ExpireCode(k)
  BY <1>7, <1>9, EndsTouch DEF Touching
<1>10. CASE \E k \in Codes, c \in Clients, uri \in MCRedirectUris, v \in Verifiers,
              a \in Tokens, f \in Tokens : Grant!redeemCode(k, c, uri, v, a, f)
  BY <1>7, <1>10 DEF Touching
<1>11. CASE \E t \in Tokens : Grant!refreshReused(t) \/ Grant!ExpireToken(t)
  BY <1>7, <1>11, EndsTouch DEF Touching
<1>12. CASE \E t \in Tokens, c \in Clients, a \in Tokens, f \in Tokens : Grant!rotateRefresh(t, c, a, f)
  BY <1>7, <1>12 DEF Touching
<1>13. CASE \E t \in Tokens, c \in Clients \cup {Nobody} : Grant!handleRevoke(t, c)
  BY <1>7, <1>13, EndsTouch
<1>14. CASE \E u \in Users, c \in Clients : Grant!revokeUserGrant(u, c)
  BY <1>7, <1>14, EndsTouch
<1> QED
  BY <1>1, <1>2, <1>3, <1>4, <1>5, <1>6, <1>7, <1>8, <1>9, <1>10, <1>11, <1>12, <1>13, <1>14 DEF Grant!Next

-----------------------------------------------------------------------------
(* Soundness, one step at a time.                                          *)

(* A token that is not revoked has an active grant, so nothing becomes     *)
(* rotatable without being issued.                                         *)
LEMMA NothingRevives ==
    ASSUME GrantInv, NEW t \in Tokens, tokens'[t] = tokens[t], Grant!Rotatable(t)'
    PROVE  Grant!Rotatable(t)
BY DEF GrantInv, GrantSound, Grant!RevokedIsDead, Grant!Rotatable, Grant!Live, Grant!Active

LEMMA ApproveKeeps ==
    ASSUME GrantInv, NEW u \in Users, NEW r \in AuthRequests, NEW g \in Grants, NEW k \in Codes,
           Grant!approveRequest(u, r, g, k)
    PROVE  GrantSound'
<1>1. /\ codes[k].status = "none" /\ codes'[k].status = "fresh" /\ codes'[k].grant = g
      /\ \A j \in Codes \ {k} : codes'[j] = codes[j]
      /\ tokens' = tokens
  BY DEF Grant!approveRequest, GrantInv, GrantTypes, Grant!NoCode
<1>2. grants'[g].status = "active" /\ \A h \in Grants \ {g} : grants'[h] = grants[h]
  BY DEF Grant!approveRequest, Grant!Approved, Grant!Active, GrantInv, GrantTypes, GrantType
<1>3. GrantsHang'
  BY <1>1 DEF GrantsHang, GrantInv, GrantSound
<1>4. CodesComeFirst'
  BY <1>1 DEF CodesComeFirst, GrantsHang, GrantInv, GrantSound
<1>5. Grant!RevokedIsDead'
  <2>1. ASSUME NEW t \in Tokens, tokens'[t].kind # "none", ~tokens'[t].revoked
        PROVE  grants'[tokens'[t].grant].status = "active"
    BY <1>1, <1>2, <2>1 DEF Grant!RevokedIsDead, GrantsHang, GrantInv, GrantSound
  <2>2. ASSUME NEW j \in Codes, codes'[j].status = "fresh"
        PROVE  grants'[codes'[j].grant].status = "active"
    BY <1>1, <1>2, <2>2 DEF Grant!RevokedIsDead, GrantsHang, GrantInv, GrantSound
  <2> QED BY <2>1, <2>2 DEF Grant!RevokedIsDead
<1>6. Grant!ChainsAreLinear'
  BY <1>1, NothingRevives DEF Grant!ChainsAreLinear, GrantInv, GrantSound
<1> QED BY <1>3, <1>4, <1>5, <1>6 DEF GrantSound

LEMMA RevokeKeeps == ASSUME GrantInv, NEW g \in Grants, Grant!RevokeGrant(g) PROVE GrantSound'
<1>1. \A h \in Grants \ {g} : grants'[h] = grants[h]
  BY DEF Grant!RevokeGrant, GrantInv, GrantTypes
<1>2. ASSUME NEW t \in Tokens
      PROVE  /\ tokens'[t].grant = tokens[t].grant /\ tokens'[t].kind = tokens[t].kind
             /\ tokens'[t].code = tokens[t].code
             /\ tokens[t].grant = g => tokens'[t].revoked
             /\ tokens[t].grant # g => tokens'[t] = tokens[t]
  <2>1. tokens[t] \in TokenType BY DEF GrantInv, GrantTypes
  <2>2. tokens'[t] = IF tokens[t].grant = g THEN [tokens[t] EXCEPT !.revoked = TRUE] ELSE tokens[t]
    BY DEF Grant!RevokeGrant
  <2> QED BY <2>1, <2>2 DEF TokenType
<1>3. ASSUME NEW k \in Codes
      PROVE  /\ codes'[k].grant = codes[k].grant
             /\ codes[k].grant = g => codes'[k].status = "used"
             /\ codes[k].grant # g => codes'[k] = codes[k]
  <2>1. codes[k] \in CodeType BY DEF GrantInv, GrantTypes
  <2>2. codes'[k] = IF codes[k].grant = g THEN [codes[k] EXCEPT !.status = "used"] ELSE codes[k]
    BY DEF Grant!RevokeGrant
  <2> QED BY <2>1, <2>2 DEF CodeType
<1>4. GrantsHang'
  <2>1. ASSUME NEW k \in Codes, codes'[k].status # "none" PROVE codes'[k].grant \in Grants
    BY <1>3, <2>1 DEF GrantsHang, GrantInv, GrantSound
  <2>2. ASSUME NEW t \in Tokens, tokens'[t].kind # "none"
        PROVE  tokens'[t].grant \in Grants /\ tokens'[t].code \in Codes
    BY <1>2, <2>2 DEF GrantsHang, GrantInv, GrantSound
  <2> QED BY <2>1, <2>2 DEF GrantsHang
<1>5. CodesComeFirst'
  <2>1. ASSUME NEW t \in Tokens, tokens'[t].kind # "none"
        PROVE  codes'[tokens'[t].code].status = "used"
    <3>1. tokens[t].code \in Codes /\ codes[tokens[t].code].status = "used"
      BY <1>2, <2>1 DEF CodesComeFirst, GrantsHang, GrantInv, GrantSound
    <3> QED BY <1>2, <1>3, <3>1
  <2> QED BY <2>1 DEF CodesComeFirst
<1>6. Grant!RevokedIsDead'
  <2>1. ASSUME NEW t \in Tokens, tokens'[t].kind # "none", ~tokens'[t].revoked
        PROVE  grants'[tokens'[t].grant].status = "active"
    <3>1. tokens[t].grant # g /\ tokens'[t] = tokens[t] BY <1>2, <2>1
    <3> QED BY <1>1, <2>1, <3>1 DEF Grant!RevokedIsDead, GrantsHang, GrantInv, GrantSound
  <2>2. ASSUME NEW k \in Codes, codes'[k].status = "fresh"
        PROVE  grants'[codes'[k].grant].status = "active"
    <3>1. codes[k].grant # g /\ codes'[k] = codes[k] BY <1>3, <2>2
    <3> QED BY <1>1, <2>2, <3>1 DEF Grant!RevokedIsDead, GrantsHang, GrantInv, GrantSound
  <2> QED BY <2>1, <2>2 DEF Grant!RevokedIsDead
<1>7. Grant!ChainsAreLinear'
  <2>1. ASSUME NEW t \in Tokens, Grant!Rotatable(t)' PROVE Grant!Rotatable(t)
    <3>1. tokens'[t] = tokens[t] BY <1>2, <2>1 DEF Grant!Rotatable, Grant!Live
    <3> QED BY <2>1, <3>1, NothingRevives
  <2> QED BY <1>2, <2>1 DEF Grant!ChainsAreLinear, GrantInv, GrantSound
<1> QED BY <1>4, <1>5, <1>6, <1>7 DEF GrantSound

LEMMA ExpireCodeKeeps == ASSUME GrantInv, NEW k \in Codes, Grant!ExpireCode(k) PROVE GrantSound'
<1>1. /\ \A j \in Codes : codes'[j].status = codes[j].status /\ codes'[j].grant = codes[j].grant
      /\ tokens' = tokens /\ grants' = grants
  BY DEF Grant!ExpireCode, GrantInv, GrantTypes, CodeType
<1>2. GrantsHang' /\ CodesComeFirst' /\ Grant!RevokedIsDead'
  BY <1>1 DEF GrantsHang, CodesComeFirst, Grant!RevokedIsDead, GrantInv, GrantSound
<1>3. Grant!ChainsAreLinear'
  BY <1>1, NothingRevives DEF Grant!ChainsAreLinear, GrantInv, GrantSound
<1> QED BY <1>2, <1>3 DEF GrantSound

(* An expiry, and the revocation of one access token, take from a token    *)
(* and give it nothing.                                                    *)
LEMMA LosingKeeps ==
    ASSUME GrantInv, NEW t \in Tokens, NEW n \in TokenType,
           n.grant = tokens[t].grant, n.kind = tokens[t].kind, n.code = tokens[t].code,
           n.replaced = tokens[t].replaced,
           tokens[t].revoked => n.revoked, tokens[t].expired => n.expired,
           tokens' = [tokens EXCEPT ![t] = n], UNCHANGED <<grants, codes>>
    PROVE  GrantSound'
<1>1. ASSUME NEW s \in Tokens
      PROVE  /\ tokens'[s].grant = tokens[s].grant /\ tokens'[s].kind = tokens[s].kind
             /\ tokens'[s].code = tokens[s].code /\ tokens'[s].replaced = tokens[s].replaced
             /\ tokens[s].revoked => tokens'[s].revoked
             /\ tokens[s].expired => tokens'[s].expired
  BY DEF GrantInv, GrantTypes
<1>2. GrantsHang' /\ CodesComeFirst' /\ Grant!RevokedIsDead'
  BY <1>1 DEF GrantsHang, CodesComeFirst, Grant!RevokedIsDead, GrantInv, GrantSound
<1>3. \A s \in Tokens : Grant!Rotatable(s)' => Grant!Rotatable(s)
  BY <1>1 DEF Grant!Rotatable, Grant!Live, Grant!Active
<1>4. Grant!ChainsAreLinear'
  BY <1>1, <1>3 DEF Grant!ChainsAreLinear, GrantInv, GrantSound
<1> QED BY <1>2, <1>4 DEF GrantSound

(* A redemption issues under an active grant, and is the first of its code;*)
(* a rotation issues beside a token that works no more.                    *)
LEMMA IssueKeeps ==
    ASSUME GrantInv, NEW current \in [Tokens -> TokenType], NEW a \in Tokens, NEW f \in Tokens,
           NEW g \in Grants, NEW k \in Codes, a # f,
           Grant!Active(g), UNCHANGED grants, codes'[k].status = "used",
           \A j \in Codes : /\ codes'[j].grant = codes[j].grant
                            /\ codes'[j].status \in {codes[j].status, "used"}
                            /\ codes[j].status = "none" => codes'[j].status = "none",
           \A t \in Tokens : /\ current[t].grant = tokens[t].grant
                             /\ current[t].kind = tokens[t].kind
                             /\ current[t].code = tokens[t].code
                             /\ current[t].revoked = tokens[t].revoked
                             /\ current[t].expired = tokens[t].expired
                             /\ tokens[t].replaced => current[t].replaced,
           \A t \in Tokens \ {a, f} : Grant!Rotatable(t) /\ tokens[t].code = k => current[t].replaced,
           tokens' = Grant!Issue(current, a, f, g, k)
    PROVE  GrantSound'
<1>1. /\ tokens'[a].grant = g /\ tokens'[a].kind = "access" /\ tokens'[a].code = k
      /\ tokens'[f].grant = g /\ tokens'[f].kind = "refresh" /\ tokens'[f].code = k
      /\ \A t \in Tokens \ {a, f} : tokens'[t] = current[t]
  <2>1. /\ tokens'[a] = [Grant!NoToken EXCEPT !.grant = g, !.kind = "access", !.code = k]
        /\ tokens'[f] = [Grant!NoToken EXCEPT !.grant = g, !.kind = "refresh", !.code = k]
        /\ \A t \in Tokens \ {a, f} : tokens'[t] = current[t]
    BY DEF Grant!Issue
  <2> QED BY <2>1 DEF Grant!NoToken
<1>2. GrantsHang'
  <2>1. ASSUME NEW j \in Codes, codes'[j].status # "none" PROVE codes'[j].grant \in Grants
    BY <2>1 DEF GrantsHang, GrantInv, GrantSound
  <2>2. ASSUME NEW t \in Tokens, tokens'[t].kind # "none"
        PROVE  tokens'[t].grant \in Grants /\ tokens'[t].code \in Codes
    BY <1>1, <2>2 DEF GrantsHang, GrantInv, GrantSound
  <2> QED BY <2>1, <2>2 DEF GrantsHang
<1>3. CodesComeFirst'
  <2>1. ASSUME NEW t \in Tokens, tokens'[t].kind # "none"
        PROVE  codes'[tokens'[t].code].status = "used"
    <3>1. CASE t \in {a, f} BY <1>1, <3>1
    <3>2. CASE t \notin {a, f} BY <1>1, <2>1, <3>2 DEF CodesComeFirst, GrantsHang, GrantInv, GrantSound
    <3> QED BY <3>1, <3>2
  <2> QED BY <2>1 DEF CodesComeFirst
<1>4. Grant!RevokedIsDead'
  <2>1. ASSUME NEW t \in Tokens, tokens'[t].kind # "none", ~tokens'[t].revoked
        PROVE  grants'[tokens'[t].grant].status = "active"
    <3>1. CASE t \in {a, f} BY <1>1, <3>1 DEF Grant!Active
    <3>2. CASE t \notin {a, f} BY <1>1, <2>1, <3>2 DEF Grant!RevokedIsDead, GrantInv, GrantSound
    <3> QED BY <3>1, <3>2
  <2>2. ASSUME NEW j \in Codes, codes'[j].status = "fresh"
        PROVE  grants'[codes'[j].grant].status = "active"
    BY <2>2 DEF Grant!RevokedIsDead, GrantInv, GrantSound
  <2> QED BY <2>1, <2>2 DEF Grant!RevokedIsDead
<1>5. ASSUME NEW t \in Tokens, Grant!Rotatable(t)', t # f
      PROVE  t # a /\ Grant!Rotatable(t) /\ tokens'[t].code = tokens[t].code /\ tokens[t].code # k
  <2>1. t # a BY <1>1, <1>5 DEF Grant!Rotatable
  <2>2. tokens'[t] = current[t] BY <1>1, <1>5, <2>1
  <2>3. Grant!Rotatable(t) BY <1>5, <2>2 DEF Grant!Rotatable, Grant!Live, Grant!Active
  <2>4. ~current[t].replaced BY <1>5, <2>2 DEF Grant!Rotatable
  <2> QED BY <1>5, <2>1, <2>2, <2>3, <2>4
<1>6. Grant!ChainsAreLinear'
  <2>1. ASSUME NEW s \in Tokens, NEW t \in Tokens, Grant!Rotatable(s)', Grant!Rotatable(t)',
               tokens'[s].code = tokens'[t].code
        PROVE  s = t
    <3>1. CASE s = f /\ t # f BY <1>1, <1>5, <2>1, <3>1
    <3>2. CASE s # f /\ t = f BY <1>1, <1>5, <2>1, <3>2
    <3>3. CASE s # f /\ t # f BY <1>5, <2>1, <3>3 DEF Grant!ChainsAreLinear, GrantInv, GrantSound
    <3> QED BY <3>1, <3>2, <3>3
  <2> QED BY <2>1 DEF Grant!ChainsAreLinear
<1> QED BY <1>2, <1>3, <1>4, <1>6 DEF GrantSound

LEMMA RedeemKeeps ==
    ASSUME GrantInv, Grant!ConstantsFit, NEW k \in Codes, NEW c \in Clients, NEW uri \in MCRedirectUris,
           NEW v \in Verifiers, NEW a \in Tokens, NEW f \in Tokens,
           Grant!redeemCode(k, c, uri, v, a, f)
    PROVE  GrantSound'
<1>1. a # f BY DEF Grant!redeemCode, Grant!Unissued, Grant!ConstantsFit
<1>2. codes[k].status = "fresh" /\ codes[k].grant \in Grants /\ Grant!Active(codes[k].grant)
  BY DEF Grant!redeemCode, Grant!Redeemable, GrantsHang, GrantInv, GrantSound
<1>3. /\ codes'[k].status = "used"
      /\ \A j \in Codes : codes'[j].grant = codes[j].grant /\ codes'[j].status \in {codes[j].status, "used"}
      /\ \A j \in Codes : codes[j].status = "none" => codes'[j].status = "none"
  BY <1>2 DEF Grant!redeemCode, GrantInv, GrantTypes, CodeType
<1>4. \A t \in Tokens : ~(Grant!Rotatable(t) /\ tokens[t].code = k)
  BY <1>2 DEF Grant!Rotatable, CodesComeFirst, GrantInv, GrantSound
<1>5. tokens \in [Tokens -> TokenType] BY DEF GrantInv, GrantTypes
<1>6. UNCHANGED grants /\ tokens' = Grant!Issue(tokens, a, f, codes[k].grant, k) BY DEF Grant!redeemCode
<1> QED BY <1>1, <1>2, <1>3, <1>4, <1>5, <1>6, IssueKeeps

LEMMA RotateKeeps ==
    ASSUME GrantInv, Grant!ConstantsFit, NEW t \in Tokens, NEW c \in Clients, NEW a \in Tokens,
           NEW f \in Tokens, Grant!rotateRefresh(t, c, a, f)
    PROVE  GrantSound'
<1> DEFINE current == [tokens EXCEPT ![t].replaced = TRUE]
<1>1. a # f BY DEF Grant!rotateRefresh, Grant!Unissued, Grant!ConstantsFit
<1>2. Grant!Rotatable(t) BY DEF Grant!rotateRefresh
<1>3. /\ tokens[t].grant \in Grants /\ tokens[t].code \in Codes /\ Grant!Active(tokens[t].grant)
      /\ codes[tokens[t].code].status = "used"
  BY <1>2 DEF Grant!Rotatable, Grant!Live, GrantsHang, CodesComeFirst, GrantInv, GrantSound
<1>4. current \in [Tokens -> TokenType] BY DEF GrantInv, GrantTypes, TokenType
<1>5. \A s \in Tokens : /\ current[s].grant = tokens[s].grant /\ current[s].kind = tokens[s].kind
                        /\ current[s].code = tokens[s].code /\ current[s].revoked = tokens[s].revoked
                        /\ current[s].expired = tokens[s].expired
                        /\ tokens[s].replaced => current[s].replaced
  BY DEF GrantInv, GrantTypes, TokenType
<1>6. \A s \in Tokens : Grant!Rotatable(s) /\ tokens[s].code = tokens[t].code => current[s].replaced
  <2>1. current[t].replaced BY DEF GrantInv, GrantTypes, TokenType
  <2> QED BY <1>2, <2>1 DEF Grant!ChainsAreLinear, GrantInv, GrantSound
<1>7. /\ UNCHANGED <<grants, codes>>
      /\ tokens' = Grant!Issue(current, a, f, tokens[t].grant, tokens[t].code)
  BY DEF Grant!rotateRefresh
<1> HIDE DEF current
<1> QED BY <1>1, <1>3, <1>4, <1>5, <1>6, <1>7, IssueKeeps

LEMMA GrantSoundStep == ASSUME GrantInv, Grant!ConstantsFit, [Grant!Next]_(Grant!oauthVars) PROVE GrantSound'
<1>1. CASE UNCHANGED <<grants, codes, tokens>>
  BY <1>1 DEF GrantInv, GrantSound, GrantsHang, CodesComeFirst, Grant!RevokedIsDead, Grant!ChainsAreLinear,
              Grant!Rotatable, Grant!Live, Grant!Active
<1>2. ASSUME NEW u \in Users, NEW r \in AuthRequests, NEW g \in Grants, NEW k \in Codes,
             Grant!approveRequest(u, r, g, k)
      PROVE  GrantSound'
  BY <1>2, ApproveKeeps
<1>3. ASSUME NEW k \in Codes, Grant!ExpireCode(k) PROVE GrantSound'
  BY <1>3, ExpireCodeKeeps
<1>4. ASSUME NEW g \in Grants, Grant!RevokeGrant(g) PROVE GrantSound'
  BY <1>4, RevokeKeeps
<1>5. ASSUME NEW k \in Codes, NEW c \in Clients, NEW uri \in MCRedirectUris, NEW v \in Verifiers,
             NEW a \in Tokens, NEW f \in Tokens, Grant!redeemCode(k, c, uri, v, a, f)
      PROVE  GrantSound'
  BY <1>5, RedeemKeeps
<1>6. ASSUME NEW t \in Tokens, Grant!ExpireToken(t) PROVE GrantSound'
  <2> DEFINE n == [tokens[t] EXCEPT !.expired = TRUE]
  <2>1. tokens[t] \in TokenType BY DEF GrantInv, GrantTypes
  <2>2. /\ n \in TokenType /\ n.grant = tokens[t].grant /\ n.kind = tokens[t].kind
        /\ n.code = tokens[t].code /\ n.replaced = tokens[t].replaced
        /\ n.revoked = tokens[t].revoked /\ n.expired
    BY <2>1 DEF TokenType
  <2>3. tokens' = [tokens EXCEPT ![t] = n] /\ UNCHANGED <<grants, codes>>
    BY <1>6 DEF Grant!ExpireToken
  <2> HIDE DEF n
  <2> QED BY <2>2, <2>3, LosingKeeps
<1>7. ASSUME NEW t \in Tokens, NEW c \in Clients, NEW a \in Tokens, NEW f \in Tokens,
             Grant!rotateRefresh(t, c, a, f)
      PROVE  GrantSound'
  BY <1>7, RotateKeeps
<1>8. ASSUME NEW t \in Tokens, tokens' = [tokens EXCEPT ![t].revoked = TRUE],
             UNCHANGED <<clients, recent, grantRequests, pages, grants, codes>>
      PROVE  GrantSound'
  <2> DEFINE n == [tokens[t] EXCEPT !.revoked = TRUE]
  <2>1. tokens[t] \in TokenType BY DEF GrantInv, GrantTypes
  <2>2. /\ n \in TokenType /\ n.grant = tokens[t].grant /\ n.kind = tokens[t].kind
        /\ n.code = tokens[t].code /\ n.replaced = tokens[t].replaced
        /\ n.revoked /\ n.expired = tokens[t].expired
    BY <2>1 DEF TokenType
  <2>3. tokens' = [tokens EXCEPT ![t] = n] /\ UNCHANGED <<grants, codes>>
    BY <1>8
  <2> HIDE DEF n
  <2> QED BY <2>2, <2>3, LosingKeeps
<1>9. CASE Touching
  BY <1>2, <1>3, <1>4, <1>5, <1>6, <1>7, <1>8, <1>9 DEF Touching
<1> QED BY <1>1, <1>9, StepsTouch DEF GrantInv, GrantSound

LEMMA GrantInitSound == Grant!Init => GrantInv
<1> SUFFICES ASSUME Grant!Init PROVE GrantInv
  OBVIOUS
<1>1. GrantTypes BY GrantInitType
<1>2. /\ \A t \in Tokens : tokens[t].kind = "none"
      /\ \A k \in Codes : codes[k].status = "none"
  BY DEF Grant!Init, Grant!NoToken, Grant!NoCode
<1>3. GrantSound
  BY <1>2 DEF GrantSound, GrantsHang, CodesComeFirst, Grant!RevokedIsDead, Grant!ChainsAreLinear, Grant!Rotatable
<1> QED BY <1>1, <1>3 DEF GrantInv

-----------------------------------------------------------------------------
LEMMA GrantSteps == GrantInv /\ [Grant!Next]_(Grant!oauthVars) => GrantInv'
BY GrantTypeStep, GrantSoundStep, GrantFit DEF GrantInv, GrantSound

(* What an approval gave is held once and ends with it: a disconnected     *)
(* grant opens nothing any more, and one approval never has two refresh    *)
(* tokens that both work, whatever is presented, by whom and when.         *)
THEOREM PlatformGrants == Spec => []GrantIsSound
<1>1. GrantInv => GrantIsSound
  BY DEF GrantInv, GrantSound, GrantIsSound, Grant!GrantIsSound
<1> QED
  BY GrantInitSound, GrantSteps, <1>1, GrantSpec, PTL DEF Grant!Spec

(* Every row of the authorization server keeps its shape, and what was     *)
(* issued always hangs on a stored grant and a stored code.                *)
THEOREM PlatformGrantRows == Spec => [](GrantTypes /\ GrantsHang)
<1>1. GrantInv => GrantTypes /\ GrantsHang
  BY DEF GrantInv, GrantSound
<1> QED
  BY GrantInitSound, GrantSteps, <1>1, GrantSpec, PTL DEF Grant!Spec

-----------------------------------------------------------------------------
(* The notifications                                                       *)

(* A notification counts as sent only if every device it was for got it or *)
(* is gone, whichever drainer's acknowledgement came late.                 *)
THEOREM PlatformSends == Spec => []SentMeansDelivered
<1>1. Outbox!Spec => []Outbox!SentMeansDelivered
  BY Outbox!SentIsDelivered, OutboxFit
<1>2. Outbox!SentMeansDelivered => SentMeansDelivered
  BY DEF SentMeansDelivered
<1> QED
  BY <1>1, <1>2, OutboxSpec, PTL

-----------------------------------------------------------------------------
(* The stored objects                                                      *)

LEMMA ObjectsSpec == Spec => Objects!Spec
<1>1. Init => Objects!Init
  BY DEF Init
<1>2. [Next]_PlatformVars => [Objects!Next]_(Objects!objectVars)
  BY DEF Next, PlatformVars, ObjectsVars, Objects!objectVars
<1> QED
  BY <1>1, <1>2, PTL DEF Spec, Objects!Spec, PlatformVars

(* What a row, a persona or a moderation event refers to is stored, for    *)
(* any requests, cleanup ticks and closures that overlap.                  *)
THEOREM PlatformKeepsReferred == Spec => []ReferredHasBytes
<1>1. Objects!Spec => []Objects!ReferredHasBytes
  BY Objects!ReferredIsKept, ObjectsFit
<1>2. Objects!ReferredHasBytes => ReferredHasBytes
  BY DEF ReferredHasBytes
<1> QED
  BY <1>1, <1>2, ObjectsSpec, PTL

(* No object recorded as gone is still stored, posters aside.              *)
THEOREM PlatformGoneIsGone == Spec => []GoneMeansGone
<1>1. Objects!Spec => []Objects!GoneMeansGone
  BY Objects!GoneIsGone, ObjectsFit
<1>2. Objects!GoneMeansGone => GoneMeansGone
  BY DEF GoneMeansGone
<1> QED
  BY <1>1, <1>2, ObjectsSpec, PTL
-----------------------------------------------------------------------------
(* The requests: what is charged, what is refused, what is repeated        *)

LEMMA SubmitSpec == Spec => Submit!Spec
<1>1. Init => Submit!Init
  BY DEF Init
<1>2. [Next]_PlatformVars => [Submit!Next]_(Submit!vars)
  BY DEF Next, PlatformVars, SubmitVars, Submit!vars
<1> QED
  BY <1>1, <1>2, PTL DEF Spec, Submit!Spec, PlatformVars

(* A key is charged once and strikes once, for any requests, twins and     *)
(* keys; a settlement that runs between does not free it.                  *)
THEOREM PlatformChargesOnce == Spec => []OncePerKey
<1>1. Submit!Spec => []Submit!OncePerKey
  BY Submit!ChargedAndStruckOnce, SubmitFit
<1>2. Submit!OncePerKey => OncePerKey
  BY DEF OncePerKey
<1> QED
  BY <1>1, <1>2, SubmitSpec, PTL

(* Nothing the moderation flags is charged and rendered, over replays,     *)
(* retries, twins and changes of body under a key.                         *)
THEOREM PlatformModerates == Spec => []NothingUnmoderated
<1>1. Submit!Spec => []Submit!NothingUnmoderated
  BY Submit!OnlyModeratedCharged, SubmitFit
<1>2. Submit!NothingUnmoderated => NothingUnmoderated
  BY DEF NothingUnmoderated
<1> QED
  BY <1>1, <1>2, SubmitSpec, PTL

(* A retry asks for what the generation it retries asked for.              *)
THEOREM PlatformRetries == Spec => []RetryRepeatsRequest
<1>1. Submit!Spec => []Submit!RetryRepeatsRequest
  BY Submit!RetriesRepeat, SubmitFit
<1>2. Submit!RetryRepeatsRequest => RetryRepeatsRequest
  BY DEF RetryRepeatsRequest
<1> QED
  BY <1>1, <1>2, SubmitSpec, PTL
=============================================================================
