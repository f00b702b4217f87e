--------------------------- MODULE PortalSession ---------------------------
(***************************************************************************)
(* The portal's sessions: one browser, its cookie jar and its tabs, the    *)
(* portal's own route handlers under app/api, the middleware and the       *)
(* layouts that render a page, the API client's 401-refresh-once           *)
(* middleware, and the backend sessions and impersonations they rest on.   *)
(*                                                                         *)
(* Three areas (platform, tenant, member) keep one refresh cookie each and *)
(* share one tenant slug cookie; an impersonation puts a tenant session of *)
(* a platform operator into the tenant cookie and marks it with a cookie   *)
(* of its own.  Tabs of one browser share the jar and nothing else: the    *)
(* access token, the slug and the banner of a tab are what its layout gave *)
(* it when it was rendered.                                                *)
(***************************************************************************)
EXTENDS Naturals, FiniteSets

CONSTANTS
    Areas,            \* the areas in use, of "platform", "tenant" and "member"
    Tabs,             \* tabs of one browser
    Requests,         \* API calls of a page that may be under way together
    Tenants,          \* tenant slugs
    Addresses,        \* the tenants whose address the user opens
    Impersonations,   \* approved impersonations
    ImpTenant,        \* the tenant each of them is for
    NONE,
    AccessTtl, ImpTtl, PlatformTtl, TenantTtl,   \* lifetimes, in clock ticks
    PortalServesApi,  \* TRUE: one origin answers for the portal and the API
    MaxTime,          \* bound on the clock
    MaxSessions       \* bound on backend sessions

ASSUME SessionAssumption ==
    /\ {"platform", "tenant"} \subseteq Areas
    /\ Areas \subseteq {"platform", "tenant", "member"}
    /\ Addresses \subseteq Tenants
    /\ NONE \notin Tenants \cup Impersonations
    /\ ImpTenant \in [Impersonations -> Tenants]
    /\ {AccessTtl, ImpTtl, PlatformTtl, TenantTtl} \subseteq Nat \ {0}
    /\ PortalServesApi \in BOOLEAN
    /\ MaxTime \in Nat
    /\ MaxSessions \in Nat

SlugAreas == {"tenant", "member"}
SessionIds == 1..MaxSessions

VARIABLES
    now,       \* the clock
    sessions,  \* backend session rows, by id; NONE when not created yet
    imps,      \* each impersonation: open, or ended (or revoked); when it expires;
               \* its shadow user, and whether it is linked to it; whether a close
               \* of it is under way, and overlapped a mint
    mints,     \* the mint-tenant-token call under way for each of them
    jar,       \* the browser's cookies
    tabs       \* what each tab holds

vars == <<now, sessions, imps, mints, jar, tabs>>

-----------------------------------------------------------------------------
(* The backend: session rows, and what it makes of a token. *)

\* REFRESH_MAX_AGE of an area is also the life the API gives the session row.
RefreshMaxAge(area) == IF area = "platform" THEN PlatformTtl ELSE TenantTtl

\* A session row that is not revoked and not expired.
SessionLive(sid) ==
    /\ sid # NONE
    /\ ~sessions[sid].revoked
    /\ now < sessions[sid].expires

\* refresh: the row is live and the token's audience is "tenant:<slug>" of the
\* tenant the X-Tenant-Slug header names (the platform has an audience of its own).
BackendRefresh(area, sid, slug) ==
    /\ SessionLive(sid)
    /\ sessions[sid].area = area
    /\ area \in SlugAreas => sessions[sid].tenant = slug

\* The user behind a session is active: only a close makes one inactive here, the
\* shadow user of its impersonation.
UserActive(sid) ==
    sessions[sid].imp # NONE => imps[sessions[sid].imp].shadow = "active"

\* Mutant: the audience of the token is not compared with the tenant.
BackendAcceptsAnyTenant(token, slug) ==
    /\ token # NONE
    /\ now < token.expires
    /\ ~sessions[token.sid].revoked
    /\ UserActive(token.sid)

\* An API call: the access token has not expired, its session is not revoked, its
\* user is active and its audience is the tenant of the header.
BackendAccepts(token, slug) ==
    /\ token # NONE
    /\ now < token.expires
    /\ ~sessions[token.sid].revoked
    /\ UserActive(token.sid)
    /\ sessions[token.sid].area \in SlugAreas => sessions[token.sid].tenant = slug

AccessToken(sid) == [sid |-> sid, expires |-> now + AccessTtl]

FreeSessions == {s \in SessionIds : sessions[s] = NONE}
NextSession == CHOOSE s \in FreeSessions : TRUE

\* SessionService.create: the next row.
NewSession(area, tenant, imp) ==
    [area |-> area, tenant |-> tenant, imp |-> imp, revoked |-> FALSE,
     expires |-> now + RefreshMaxAge(area)]

-----------------------------------------------------------------------------
(* The cookie jar. *)

Cookie(sid, area) == [sid |-> sid, expires |-> now + RefreshMaxAge(area)]

\* What the refresh routes leave: the API answers a refresh without a refresh
\* token, and the route writes that answer into the cookie.
BlankCookie(area) == Cookie(NONE, area)

\* readRefreshCookie: the refresh token of an area, or null; a blank cookie counts
\* as none.
ReadRefreshCookie(area) ==
    IF jar.refresh[area] = NONE THEN NONE ELSE jar.refresh[area].sid

\* The browser drops the cookies whose max-age has passed.
Aged(j, t) ==
    [j EXCEPT !.refresh = [a \in Areas |->
                             IF j.refresh[a] # NONE /\ j.refresh[a].expires <= t
                             THEN NONE ELSE j.refresh[a]],
              !.marker = IF j.marker # NONE /\ j.marker.expires <= t THEN NONE
                         ELSE j.marker]

\* resolveTenantSlug: a subdomain or a ?tenant= of the address, else the cookie.
ResolveTenantSlug(hint) == IF hint # NONE THEN hint ELSE jar.slug

\* The middleware persists a slug it resolved when no slug cookie exists yet.
PersistSlug(area, hint) ==
    IF jar.slug = NONE /\ area # "platform" THEN ResolveTenantSlug(hint) ELSE jar.slug

-----------------------------------------------------------------------------
(* A tab: the page it shows and the stores of that page. *)

NoCalls == [r \in Requests |-> "idle"]

\* A login page: no AuthProvider, nothing in flight.
LoginPage(area) ==
    [page |-> "login", area |-> area, slug |-> NONE, token |-> NONE,
     banner |-> NONE, refresh |-> "none", result |-> NONE, calls |-> NoCalls,
     entering |-> NONE, ending |-> FALSE, strayed |-> FALSE]

\* A page under an area's layout: AuthProvider hydrates the stores with the
\* token and the slug the layout resolved; the tenant layout reads the marker.
AuthedPage(area, slug, token) ==
    [page |-> "authed", area |-> area,
     slug |-> IF area = "platform" THEN NONE ELSE slug, token |-> token,
     banner |-> IF area = "tenant" /\ jar.marker # NONE THEN jar.marker.imp ELSE NONE,
     refresh |-> "none", result |-> NONE, calls |-> NoCalls,
     entering |-> NONE, ending |-> FALSE, strayed |-> FALSE]

\* getServerAccessToken for a page that resolved the slug: the server-to-server
\* refresh with the cookie's token.
ServerAccessToken(area, slug) ==
    LET sid == ReadRefreshCookie(area) IN
    IF sid # NONE /\ (area \in SlugAreas => slug # NONE) /\ BackendRefresh(area, sid, slug)
    THEN AccessToken(sid) ELSE NONE

\* What a document request shows: the layout redirects without a slug or an access
\* token, or when /me refuses the token, else the page is rendered.
Rendered(area, slug) ==
    LET token == ServerAccessToken(area, slug) IN
    IF BackendAccepts(token, slug) THEN AuthedPage(area, slug, token) ELSE LoginPage(area)

\* A document request: the middleware redirects without a refresh cookie (a blank
\* one passes) and persists the slug otherwise.
LoadPage(t, area, hint) ==
    LET passed == jar.refresh[area] # NONE
    IN /\ tabs' = [tabs EXCEPT ![t] = Rendered(area, ResolveTenantSlug(hint))]
       /\ jar' = [jar EXCEPT !.slug = IF passed THEN PersistSlug(area, hint) ELSE jar.slug]
       /\ UNCHANGED <<now, sessions, imps, mints>>

\* A public page of an area: rendered without a session, the slug is persisted.
OpenLogin(t, area, hint) ==
    /\ tabs' = [tabs EXCEPT ![t] = LoginPage(area)]
    /\ jar' = [jar EXCEPT !.slug = PersistSlug(area, hint)]
    /\ UNCHANGED <<now, sessions, imps, mints>>

\* Mutant: the tokens are issued and the session row is lost.
LoginWithoutRow(t, area) ==
    /\ tabs[t].page = "login"
    /\ tabs[t].area = area
    /\ area \in SlugAreas => jar.slug # NONE
    /\ FreeSessions # {}
    /\ LET sid == NextSession IN
         /\ jar' = [jar EXCEPT !.refresh[area] = Cookie(sid, area)]
         /\ tabs' = [tabs EXCEPT ![t] = AuthedPage(area, jar.slug, AccessToken(sid))]
    /\ UNCHANGED <<now, sessions, imps, mints>>

\* The login routes: a tenant or member login needs the slug cookie (no header
\* reaches /api), the API creates a session, the refresh cookie and the slug
\* cookie are set, the form fills the stores and navigates to the area.
Login(t, area) ==
    /\ tabs[t].page = "login"
    /\ tabs[t].area = area
    /\ area \in SlugAreas => jar.slug # NONE
    /\ FreeSessions # {}
    /\ LET sid == NextSession
           tenant == IF area = "platform" THEN NONE ELSE jar.slug
       IN /\ sessions' = [sessions EXCEPT ![sid] = NewSession(area, tenant, NONE)]
          /\ jar' = [jar EXCEPT !.refresh[area] = Cookie(sid, area)]
          /\ tabs' = [tabs EXCEPT ![t] = AuthedPage(area, tenant, AccessToken(sid))]
    /\ UNCHANGED <<now, imps, mints>>

\* onSignOut and the logout routes: the refresh cookie of the area is cleared.
\* The request carries no Authorization header, so the API is not told.
SignOut(t) ==
    /\ tabs[t].page = "authed"
    /\ jar' = [jar EXCEPT !.refresh[tabs[t].area] = NONE]
    /\ tabs' = [tabs EXCEPT ![t] = LoginPage(tabs[t].area)]
    /\ UNCHANGED <<now, sessions, imps, mints>>

-----------------------------------------------------------------------------
(* An API call of a page: 401, one refresh per page, one retry. *)

\* Whether a call of the page was carried out in another tenant than it shows.
Strays(tab) ==
    /\ BackendAccepts(tab.token, tab.slug)
    /\ sessions[tab.token.sid].tenant # tab.slug

\* A page issues a call with the token and the slug of its stores: answered, or a
\* 401 is on its way.
Call(t, r) ==
    LET tab == tabs[t] IN
    /\ tab.page = "authed"
    /\ tab.calls[r] = "idle"
    /\ tabs' = [tabs EXCEPT
         ![t].calls[r] = IF BackendAccepts(tab.token, tab.slug) THEN "idle" ELSE "refused",
         ![t].strayed = @ \/ Strays(tab)]
    /\ UNCHANGED <<now, sessions, imps, mints, jar>>

\* The 401 arrives: the call awaits refreshOnce, which is the page's refresh if one
\* is out already, else a new one.
Meets401(t, r) ==
    /\ tabs[t].calls[r] = "refused"
    /\ tabs' = [tabs EXCEPT ![t].calls[r] = "waiting",
                            ![t].refresh = IF @ = "none" THEN "out" ELSE @]
    /\ UNCHANGED <<now, sessions, imps, mints, jar>>

\* The refresh routes: 401 without a refresh token or a slug cookie or when the API
\* refuses; otherwise a token.  The client prefixes the path with the API's base
\* URL, so the portal answers only when it shares that origin.
RefreshRoute(t) ==
    LET area == tabs[t].area
        sid == ReadRefreshCookie(area)
        ok == /\ PortalServesApi
              /\ sid # NONE
              /\ area \in SlugAreas => jar.slug # NONE
              /\ BackendRefresh(area, sid, jar.slug)
    IN /\ tabs[t].refresh = "out"
       /\ tabs' = [tabs EXCEPT ![t].refresh = "back",
                               ![t].result = IF ok THEN AccessToken(sid) ELSE NONE]
       /\ UNCHANGED <<now, sessions, imps, mints, jar>>

\* Mutant: a refused refresh leaves the calls that await it waiting.
RefreshReturnsSilently(t) ==
    LET tab == tabs[t] IN
    /\ tab.refresh = "back"
    /\ jar' = IF tab.result = NONE THEN jar
              ELSE [jar EXCEPT !.refresh[tab.area] = BlankCookie(tab.area)]
    /\ tabs' = [tabs EXCEPT
         ![t].refresh = "none",
         ![t].result = NONE,
         ![t].token = IF tab.result = NONE THEN @ ELSE tab.result,
         ![t].calls = [r \in Requests |->
                         IF tab.calls[r] = "waiting" /\ tab.result # NONE
                         THEN "retrying" ELSE tab.calls[r]]]
    /\ UNCHANGED <<now, sessions, imps, mints>>

\* The response arrives: its Set-Cookie writes the refresh token the API answered
\* with, which is null, over the cookie; the store gets the access token, and every
\* waiting call goes on to its retry or fails.
RefreshReturns(t) ==
    LET tab == tabs[t] IN
    /\ tab.refresh = "back"
    /\ jar' = IF tab.result = NONE THEN jar
              ELSE [jar EXCEPT !.refresh[tab.area] = BlankCookie(tab.area)]
    /\ tabs' = [tabs EXCEPT
         ![t].refresh = "none",
         ![t].result = NONE,
         ![t].token = IF tab.result = NONE THEN @ ELSE tab.result,
         ![t].calls = [r \in Requests |->
                         IF tab.calls[r] # "waiting" THEN tab.calls[r]
                         ELSE IF tab.result = NONE THEN "idle" ELSE "retrying"]]
    /\ UNCHANGED <<now, sessions, imps, mints>>

\* The retry: carried out, or a second 401 and UnauthorizedError.
Retry(t, r) ==
    /\ tabs[t].calls[r] = "retrying"
    /\ tabs' = [tabs EXCEPT ![t].calls[r] = "idle",
                            ![t].strayed = @ \/ Strays(tabs[t])]
    /\ UNCHANGED <<now, sessions, imps, mints, jar>>

-----------------------------------------------------------------------------
(* Impersonation. *)

ImpOpen(i) == imps[i].state = "open"

\* The executor of an approved request opens the impersonation.
ApproveImpersonation(i) ==
    /\ imps[i].state = "requested"
    /\ imps' = [imps EXCEPT ![i].state = "open", ![i].expires = now + ImpTtl]
    /\ UNCHANGED <<now, sessions, mints, jar, tabs>>

\* Mutant: the marker lasts as long as the impersonation was approved for.
MarkerOfImpersonation(i) == [imp |-> i, expires |-> imps[i].expires]

\* setImpersonationCookie: the marker has the max-age of the tenant cookie.
Marker(i) == [imp |-> i, expires |-> now + RefreshMaxAge("tenant")]

NotMinting == [step |-> "none", sid |-> NONE, saw |-> "none"]

\* Mutant: a closed impersonation can be entered until it expires.
MayMintUntilExpiry(i) == imps[i].state # "requested" /\ now < imps[i].expires

\* mint_tenant_token: ImpersonationGone unless the row is open and has not expired.
MayMint(i) == ImpOpen(i) /\ now < imps[i].expires

\* POST /api/impersonation/activate: a platform access token from the cookie, and
\* the call of mint_tenant_token, which reads that the impersonation is open.
Activate(t, i) ==
    /\ tabs[t].page = "authed"
    /\ tabs[t].area = "platform"
    /\ tabs[t].entering = NONE
    /\ ServerAccessToken("platform", NONE) # NONE
    /\ MayMint(i)
    /\ mints[i] = NotMinting
    /\ FreeSessions # {}
    /\ mints' = [mints EXCEPT ![i].step = "read", ![i].saw = imps[i].shadow]
    /\ imps' = [imps EXCEPT ![i].raced = @ \/ imps[i].closing]
    /\ tabs' = [tabs EXCEPT ![t].entering = i]
    /\ UNCHANGED <<now, sessions, jar>>

\* mint_tenant_token, the transaction in the tenant's schema: the shadow user is
\* made, or made active again if it was read inactive, and gets a session.  It may
\* have been read before a close that committed meanwhile.
MintSession(i) ==
    /\ mints[i].step = "read"
    /\ FreeSessions # {}
    /\ LET sid == NextSession IN
         /\ sessions' = [sessions EXCEPT ![sid] = NewSession("tenant", ImpTenant[i], i)]
         /\ mints' = [mints EXCEPT ![i].step = "stored", ![i].sid = sid]
         /\ \E read \in {mints[i].saw, imps[i].shadow} :
              imps' = [imps EXCEPT ![i].shadow = IF read = "active" THEN @ ELSE "active"]
    /\ UNCHANGED <<now, jar, tabs>>

\* mint_tenant_token, the end of the platform transaction: the impersonation is
\* linked to its shadow user.  If the page still waits, the activate route's
\* answer sets the tenant refresh cookie, the slug cookie and the marker, and
\* the tenant area is loaded.
MintLinks(i) ==
    /\ mints[i].step = "stored"
    /\ imps' = [imps EXCEPT ![i].linked = TRUE]
    /\ mints' = [mints EXCEPT ![i] = NotMinting]
    /\ LET waiting == {t \in Tabs : tabs[t].entering = i}
           sid == mints[i].sid
           tenant == ImpTenant[i]
       IN /\ tabs' = [t \in Tabs |->
                        IF t \notin waiting THEN tabs[t]
                        ELSE [AuthedPage("tenant", tenant, AccessToken(sid)) EXCEPT !.banner = i]]
          /\ jar' = IF waiting = {} THEN jar
                    ELSE [jar EXCEPT !.refresh["tenant"] = Cookie(sid, "tenant"),
                                     !.slug = tenant,
                                     !.marker = Marker(i)]
    /\ UNCHANGED <<now, sessions>>

\* SessionService.revoke_all_for_user, for the shadow user of an impersonation.
RevokeSessions(i) ==
    sessions' = [s \in SessionIds |->
                   IF sessions[s] # NONE /\ sessions[s].imp = i
                   THEN [sessions[s] EXCEPT !.revoked = TRUE] ELSE sessions[s]]

\* ImpersonationService.end and revoke, asked for by the banner's button or by an
\* administrator elsewhere, for a row that is open.  If the row is linked to its
\* shadow user, a transaction of its own in the tenant's schema makes that user
\* inactive and revokes its sessions.
CloseBegins(i) ==
    /\ ImpOpen(i)
    /\ \/ /\ imps[i].linked
          /\ RevokeSessions(i)
          /\ imps' = [imps EXCEPT ![i].closing = TRUE, ![i].shadow = "inactive",
                                  ![i].raced = mints[i] # NotMinting]
       \/ /\ ~imps[i].linked
          /\ imps' = [imps EXCEPT ![i].closing = TRUE, ![i].raced = mints[i] # NotMinting]
          /\ UNCHANGED sessions
    /\ UNCHANGED <<now, mints, jar, tabs>>

\* The platform transaction of that call commits, and the row is closed.  (If the
\* server dies first, this step is never taken.)
CloseCommits(i) ==
    /\ imps[i].closing
    /\ imps' = [imps EXCEPT ![i].state = "ended", ![i].closing = FALSE]
    /\ UNCHANGED <<now, sessions, mints, jar, tabs>>

\* The banner's button: the end route, which asks for a platform access token and
\* then the API to close the impersonation.  Without a platform session it returns
\* at once, and the platform tenant page is loaded as it is whatever the route answers.
EndImpersonation(t) ==
    /\ tabs[t].banner # NONE
    /\ ~tabs[t].ending
    /\ tabs' = [tabs EXCEPT ![t] = IF ServerAccessToken("platform", NONE) # NONE
                                   THEN [@ EXCEPT !.ending = TRUE]
                                   ELSE Rendered("platform", NONE)]
    /\ UNCHANGED <<now, sessions, imps, mints, jar>>

\* The end route's answer: whether the API closed the impersonation, had it closed
\* already or refused, the tenant, slug and marker cookies go, whosever they are.
EndReturns(t) ==
    /\ tabs[t].ending
    /\ jar' = [jar EXCEPT !.refresh["tenant"] = NONE, !.slug = NONE, !.marker = NONE]
    /\ tabs' = [tabs EXCEPT ![t] = Rendered("platform", NONE)]
    /\ UNCHANGED <<now, sessions, imps, mints>>

-----------------------------------------------------------------------------
(* The clock moves while no response is on its way back: a round trip is short
   against every lifetime. *)
Tick ==
    /\ now < MaxTime
    /\ \A t \in Tabs : tabs[t].refresh = "none"
    /\ \A i \in Impersonations : mints[i] = NotMinting
    /\ now' = now + 1
    /\ jar' = Aged(jar, now + 1)
    /\ UNCHANGED <<sessions, imps, mints, tabs>>

Init ==
    /\ now = 0
    /\ sessions = [s \in SessionIds |-> NONE]
    /\ imps = [i \in Impersonations |-> [state |-> "requested", expires |-> 0,
                                       shadow |-> "none", linked |-> FALSE,
                                       closing |-> FALSE, raced |-> FALSE]]
    /\ mints = [i \in Impersonations |-> NotMinting]
    /\ jar = [refresh |-> [a \in Areas |-> NONE], slug |-> NONE, marker |-> NONE]
    /\ tabs = [t \in Tabs |-> LoginPage("platform")]

Next ==
    \/ \E t \in Tabs, area \in Areas, hint \in Addresses \cup {NONE} :
         /\ area = "platform" => hint = NONE    \* no platform page uses the slug
         /\ LoadPage(t, area, hint) \/ OpenLogin(t, area, hint)
    \/ \E t \in Tabs, area \in Areas : Login(t, area)
    \/ \E t \in Tabs :
         \/ SignOut(t) \/ RefreshRoute(t) \/ RefreshReturns(t)
         \/ EndImpersonation(t) \/ EndReturns(t)
    \/ \E t \in Tabs, r \in Requests : Call(t, r) \/ Meets401(t, r) \/ Retry(t, r)
    \/ \E t \in Tabs, i \in Impersonations : Activate(t, i)
    \/ \E i \in Impersonations :
         \/ ApproveImpersonation(i) \/ MintSession(i) \/ MintLinks(i)
         \/ CloseBegins(i) \/ CloseCommits(i)
    \/ Tick

Spec == Init /\ [][Next]_vars

-----------------------------------------------------------------------------
(* Properties. *)

SessionRow == [area : Areas, tenant : Tenants \cup {NONE},
               imp : Impersonations \cup {NONE}, revoked : BOOLEAN, expires : Nat]
MarkerSet == [imp : Impersonations, expires : Nat]
ASSUME NoRowAssumption == NONE \notin SessionRow
ASSUME NoMarkerAssumption == NONE \notin MarkerSet
Shadow == {"none", "active", "inactive"}
TokenSet == [sid : SessionIds, expires : Nat]
CookieSet == [sid : SessionIds \cup {NONE}, expires : Nat]
JarSet == [refresh : [Areas -> CookieSet \cup {NONE}], slug : Tenants \cup {NONE},
           marker : MarkerSet \cup {NONE}]
TabSet == [page : {"login", "authed"}, area : Areas, slug : Tenants \cup {NONE},
           token : TokenSet \cup {NONE}, banner : Impersonations \cup {NONE},
           refresh : {"none", "out", "back"}, result : TokenSet \cup {NONE},
           calls : [Requests -> {"idle", "refused", "waiting", "retrying"}],
           entering : Impersonations \cup {NONE}, ending : BOOLEAN, strayed : BOOLEAN]

\* Every variable keeps its shape, and a token or a cookie names a session row
\* that the API created.
TypeOK ==
    /\ now \in Nat
    /\ sessions \in [SessionIds -> SessionRow \cup {NONE}]
    /\ imps \in [Impersonations -> [state : {"requested", "open", "ended"}, expires : Nat,
                                    shadow : Shadow, linked : BOOLEAN,
                                    closing : BOOLEAN, raced : BOOLEAN]]
    /\ mints \in [Impersonations -> [step : {"none", "read", "stored"},
                                     sid : SessionIds \cup {NONE}, saw : Shadow]]
    /\ jar \in JarSet
    /\ \A a \in Areas : ReadRefreshCookie(a) # NONE => sessions[ReadRefreshCookie(a)] # NONE
    /\ tabs \in [Tabs -> TabSet]
    /\ \A t \in Tabs : tabs[t].token # NONE => sessions[tabs[t].token.sid] # NONE

\* A tenant refresh cookie that still opens an impersonated session is never
\* without the marker cookie the layout's banner rests on, and the marker names
\* that impersonation: they are set together and last as long as each other, and
\* neither a refresh under way nor an end, a sign-out or a login of another tab
\* takes the one and leaves the other.
LiveImpersonationIsMarked ==
    LET sid == ReadRefreshCookie("tenant") IN
    sid # NONE /\ SessionLive(sid) /\ sessions[sid].imp # NONE =>
        jar.marker # NONE /\ jar.marker.imp = sessions[sid].imp

\* What the comment on the marker cookie says, "the operator is inside an
\* impersonated tenant session": a page that shows the banner holds a token of the
\* impersonation it names.
BannerIsTrue ==
    \A t \in Tabs : LET tab == tabs[t] IN
        tab.banner # NONE /\ tab.token # NONE => sessions[tab.token.sid].imp = tab.banner

\* A call a page makes is carried out in the tenant whose slug the page shows, by
\* a session of the page's area, although the token it carries may have come from
\* a cookie that another tab has replaced by another tenant's.
CallsStayInTenant ==
    \A t \in Tabs : LET tab == tabs[t] IN
        /\ ~tab.strayed
        /\ tab.token # NONE => sessions[tab.token.sid].area = tab.area

\* Once an impersonation is ended or revoked all the sessions minted for it are
\* revoked, however often and from whichever tab it was entered, unless the close
\* overlapped a mint: the revocation then comes before the session is stored, or
\* before the shadow user is linked.  (An inactive user does not suffice: refresh
\* looks at the session alone.)
EndedImpersonationIsDead ==
    \A s \in SessionIds :
        sessions[s] # NONE /\ sessions[s].imp # NONE /\ ~sessions[s].revoked =>
            imps[sessions[s].imp].state = "open" \/ imps[sessions[s].imp].raced

\* A session of an impersonation with which the API accepts calls.
OfUse(s) ==
    sessions[s] # NONE /\ sessions[s].imp # NONE /\ ~sessions[s].revoked /\ UserActive(s)

\* What the docstrings of end and revoke say: the shadow user is deactivated and
\* all its sessions are revoked "in the same cross-schema transaction", so that no
\* session of a closed impersonation is of use.
CloseRevokesAll ==
    \A s \in SessionIds : OfUse(s) => imps[sessions[s].imp].state = "open"

\* A call that met a 401 waits only while its page's one refresh is out, or its
\* answer on the way: of several calls that await the same refresh none is left
\* waiting when it returns, whatever it brings.
NoCallIsStranded ==
    \A t \in Tabs, r \in Requests :
        tabs[t].calls[r] = "waiting" => tabs[t].refresh \in {"out", "back"}

\* What the comment of refreshMiddleware says of calls that 401 together, "only one
\* refresh call goes out": a page has a refresh out only for a token of no use, not
\* for one that a refresh has just brought.
OneRefreshPerToken ==
    \A t \in Tabs :
        tabs[t].refresh = "out" => ~BackendAccepts(tabs[t].token, tabs[t].slug)

\* What the header of server-helpers.ts and the docstring of refresh say, "the same
\* session stays active": a page with a token of a live session that has not been
\* signed out finds that session's refresh token, or a later one, in its cookie.
SessionStaysActive ==
    \A t \in Tabs : LET tab == tabs[t] IN
        tab.token # NONE /\ SessionLive(tab.token.sid) /\ jar.refresh[tab.area] # NONE
            => ReadRefreshCookie(tab.area) # NONE

\* What the comment of refreshMiddleware says of the cookie-backed path: the refresh
\* cookie attaches to the refresh call.  A refresh is then refused only where
\* reloading the page would be.
RefreshCarriesCookie ==
    \A t \in Tabs : LET tab == tabs[t] IN
        tab.refresh = "back" /\ tab.result = NONE
            => ServerAccessToken(tab.area, jar.slug) = NONE

=============================================================================
