------------------------- MODULE PortalSessionProofs -------------------------
(***************************************************************************)
(* Proofs about PortalSession: type correctness, that the calls of a page  *)
(* stay in its tenant and none of them is stranded, that an impersonation  *)
(* is marked while a cookie opens it, and dead once it is closed unless    *)
(* the close overlapped a mint.                                            *)
(***************************************************************************)
EXTENDS PortalSession, TLAPS

\* The row that SessionService.create fills was free.
LEMMA NextSessionIsFree ==
    ASSUME FreeSessions # {}
    PROVE  NextSession \in SessionIds /\ sessions[NextSession] = NONE
  BY DEF FreeSessions, NextSession

\* A row that SessionService.create writes is a row, and not NONE.
LEMMA NewSessionIsRow ==
    ASSUME NEW area \in Areas, NEW tenant \in Tenants \cup {NONE},
           NEW imp \in Impersonations \cup {NONE}, now \in Nat
    PROVE  /\ NewSession(area, tenant, imp) \in SessionRow
           /\ NewSession(area, tenant, imp) # NONE
           /\ NewSession(area, tenant, imp).area = area
           /\ NewSession(area, tenant, imp).tenant = tenant
           /\ NewSession(area, tenant, imp).imp = imp
  <1>1. RefreshMaxAge(area) \in Nat
    BY SessionAssumption DEF RefreshMaxAge
  <1>2. NewSession(area, tenant, imp) \in SessionRow
    BY <1>1 DEF NewSession, SessionRow
  <1> QED BY <1>2, NoRowAssumption DEF NewSession

\* What tabs, jar and mints hold are tokens of session rows of their own area,
\* and nothing of the platform names a tenant.  S stands for the session rows.
Names(S, token, area) ==
    token # NONE => /\ token.sid \in SessionIds
                    /\ S[token.sid] # NONE
                    /\ S[token.sid].area = area

TabOK(S, tab) ==
    /\ tab \in TabSet
    /\ Names(S, tab.token, tab.area)
    /\ Names(S, tab.result, tab.area)
    /\ tab.area = "platform" => tab.slug = NONE
    /\ ~tab.strayed
    /\ \A r \in Requests : tab.calls[r] = "waiting" => tab.refresh # "none"

\* A cookie may also be blank.
CookieNames(S, c, area) ==
    c # NONE /\ c.sid # NONE => /\ c.sid \in SessionIds
                               /\ S[c.sid] # NONE
                               /\ S[c.sid].area = area

JarOK(S, j) ==
    /\ j \in JarSet
    /\ \A a \in Areas : CookieNames(S, j.refresh[a], a)

RowsOK(S) ==
    /\ S \in [SessionIds -> SessionRow \cup {NONE}]
    /\ \A s \in SessionIds : S[s] # NONE =>
         (S[s].area = "platform" => S[s].tenant = NONE)

MintOK(S, i, m) ==
    m.step = "stored" => /\ m.sid \in SessionIds
                         /\ S[m.sid] # NONE
                         /\ S[m.sid].area = "tenant"
                         /\ S[m.sid].imp = i

ImpSet == [state : {"requested", "open", "ended"}, expires : Nat, shadow : Shadow,
           linked : BOOLEAN, closing : BOOLEAN, raced : BOOLEAN]
MintSet == [step : {"none", "read", "stored"}, sid : SessionIds \cup {NONE}, saw : Shadow]

TypeInv ==
    /\ now \in Nat
    /\ RowsOK(sessions)
    /\ imps \in [Impersonations -> ImpSet]
    /\ mints \in [Impersonations -> MintSet]
    /\ \A i \in Impersonations : MintOK(sessions, i, mints[i])
    /\ JarOK(sessions, jar)
    /\ tabs \in [Tabs -> TabSet]
    /\ \A t \in Tabs : TabOK(sessions, tabs[t])

\* A mint under way found the impersonation open and not being closed; a close
\* begun since then has noted it.
MintsAreNoted ==
    \A i \in Impersonations : mints[i].step # "none" =>
        (imps[i].state = "open" /\ ~imps[i].closing) \/ imps[i].raced

\* The sessions of an impersonation are those of its shadow user: end and revoke
\* find them once the two are linked, which the mint that stored the first one
\* sees to.
SessionsAreLinked ==
    \A s \in SessionIds : sessions[s] # NONE /\ sessions[s].imp # NONE =>
        imps[sessions[s].imp].linked \/ mints[sessions[s].imp].step = "stored"

\* A close that has begun has left no session behind, and its commit, which comes
\* later, finds none.
BegunIsDead ==
    \A s \in SessionIds :
        sessions[s] # NONE /\ sessions[s].imp # NONE /\ ~sessions[s].revoked =>
            \/ imps[sessions[s].imp].state = "open" /\ ~imps[sessions[s].imp].closing
            \/ imps[sessions[s].imp].raced

DeadInv == MintsAreNoted /\ SessionsAreLinked /\ BegunIsDead

-----------------------------------------------------------------------------
(* A closed impersonation is dead. *)

LEMMA DeadInvSuffices ==
    ASSUME DeadInv
    PROVE  EndedImpersonationIsDead
  BY DEF DeadInv, BegunIsDead, EndedImpersonationIsDead

\* Nothing that leaves the rows of sessions, impersonations and mints alone can
\* bring one back.
LEMMA DeadFrame ==
    ASSUME DeadInv, UNCHANGED <<sessions, imps, mints>>
    PROVE  DeadInv'
  BY DEF DeadInv, MintsAreNoted, SessionsAreLinked, BegunIsDead

\* The rows name impersonations.
LEMMA RowsName ==
    ASSUME TypeOK
    PROVE  \A s \in SessionIds : sessions[s] # NONE =>
             sessions[s] \in SessionRow /\ sessions[s].imp \in Impersonations \cup {NONE}
  BY DEF TypeOK, SessionRow

\* The close begins: a session survives only where a mint is under way.
LEMMA DeadCloseBegins ==
    ASSUME TypeOK, DeadInv, NEW i \in Impersonations, CloseBegins(i)
    PROVE  DeadInv'
  <1>1. /\ mints' = mints
        /\ \A j \in Impersonations :
             /\ imps'[j].linked = imps[j].linked
             /\ j # i => imps'[j] = imps[j]
             /\ j = i => imps'[j].raced = (mints[i] # NotMinting)
    BY DEF CloseBegins, TypeOK
  <1>2. mints[i].step # "none" => mints[i] # NotMinting
    BY DEF NotMinting
  <1>3. \A s \in SessionIds : sessions'[s] # NONE =>
          /\ sessions[s] # NONE
          /\ sessions'[s].imp = sessions[s].imp
          /\ sessions[s].revoked => sessions'[s].revoked
          /\ sessions[s].imp = i /\ imps[i].linked => sessions'[s].revoked
    <2>1. CASE imps[i].linked
      <3>1. sessions' = [s \in SessionIds |->
                          IF sessions[s] # NONE /\ sessions[s].imp = i
                          THEN [sessions[s] EXCEPT !.revoked = TRUE] ELSE sessions[s]]
        BY <2>1 DEF CloseBegins, RevokeSessions
      <3> QED BY <3>1, RowsName DEF SessionRow
    <2>2. CASE ~imps[i].linked
      BY <2>2 DEF CloseBegins
    <2> QED BY <2>1, <2>2
  <1>4. MintsAreNoted'
    BY <1>1, <1>2 DEF DeadInv, MintsAreNoted
  <1>5. SessionsAreLinked'
    BY <1>1, <1>3, RowsName DEF DeadInv, SessionsAreLinked
  <1>6. BegunIsDead'
    <2> SUFFICES ASSUME NEW s \in SessionIds, sessions'[s] # NONE, sessions'[s].imp # NONE,
                        ~sessions'[s].revoked
                 PROVE  LET k == imps'[sessions'[s].imp] IN
                        (k.state = "open" /\ ~k.closing) \/ k.raced
      BY DEF BegunIsDead
    <2>1. CASE sessions[s].imp = i
      BY <2>1, <1>1, <1>2, <1>3 DEF DeadInv, SessionsAreLinked
    <2>2. CASE sessions[s].imp # i
      BY <2>2, <1>1, <1>3, RowsName DEF DeadInv, BegunIsDead
    <2> QED BY <2>1, <2>2
  <1> QED BY <1>4, <1>5, <1>6 DEF DeadInv

\* What changes in the row of an impersonation alone, and how.
LEMMA DeadRow ==
    ASSUME TypeOK, DeadInv, UNCHANGED <<sessions, mints>>,
           \A j \in Impersonations :
             /\ imps'[j].linked = imps[j].linked
             /\ imps'[j].raced = imps[j].raced
             /\ imps[j].state = "open" /\ ~imps[j].closing =>
                  imps'[j].state = "open" /\ ~imps'[j].closing
    PROVE  DeadInv'
  <1>1. MintsAreNoted'
    BY DEF DeadInv, MintsAreNoted
  <1>2. SessionsAreLinked'
    BY RowsName DEF DeadInv, SessionsAreLinked
  <1>3. BegunIsDead'
    BY RowsName DEF DeadInv, BegunIsDead
  <1> QED BY <1>1, <1>2, <1>3 DEF DeadInv

\* The approval that opens an impersonation, and the commit that closes it.
LEMMA DeadApprove ==
    ASSUME TypeOK, DeadInv, NEW i \in Impersonations,
           ApproveImpersonation(i) \/ CloseCommits(i)
    PROVE  DeadInv'
  <1>1. UNCHANGED <<sessions, mints>>
    BY DEF ApproveImpersonation, CloseCommits
  <1>2. \A j \in Impersonations :
          /\ imps'[j].linked = imps[j].linked
          /\ imps'[j].raced = imps[j].raced
          /\ imps[j].state = "open" /\ ~imps[j].closing =>
               imps'[j].state = "open" /\ ~imps'[j].closing
    <2>1. CASE ApproveImpersonation(i)
      <3>1. imps' = [imps EXCEPT ![i].state = "open", ![i].expires = now + ImpTtl]
        BY <2>1 DEF ApproveImpersonation
      <3> QED BY <3>1 DEF TypeOK
    <2>2. CASE CloseCommits(i)
      <3>1. /\ imps[i].closing
            /\ imps' = [imps EXCEPT ![i].state = "ended", ![i].closing = FALSE]
        BY <2>2 DEF CloseCommits
      <3> QED BY <3>1 DEF TypeOK
    <2> QED BY <2>1, <2>2
  <1> QED BY <1>1, <1>2, DeadRow

\* A mint that was begun under an open impersonation, and noted if it is closing.
LEMMA DeadActivate ==
    ASSUME TypeOK, DeadInv, NEW t \in Tabs, NEW i \in Impersonations, Activate(t, i)
    PROVE  DeadInv'
  <1>1. /\ imps[i].state = "open"
        /\ mints[i].step = "none"
        /\ mints' = [mints EXCEPT ![i].step = "read", ![i].saw = imps[i].shadow]
        /\ imps' = [imps EXCEPT ![i].raced = imps[i].raced \/ imps[i].closing]
        /\ sessions' = sessions
    BY DEF Activate, MayMint, ImpOpen, NotMinting, TypeOK
  <1>2. \A j \in Impersonations : j # i => mints'[j] = mints[j]
    BY <1>1 DEF TypeOK
  <1>3. \A j \in Impersonations :
          /\ imps'[j].linked = imps[j].linked
          /\ imps'[j].state = imps[j].state
          /\ imps'[j].closing = imps[j].closing
          /\ imps[j].raced => imps'[j].raced
    BY <1>1 DEF TypeOK
  <1>4. imps'[i].closing => imps'[i].raced
    BY <1>1 DEF TypeOK
  <1>5. MintsAreNoted'
    BY <1>1, <1>2, <1>3, <1>4 DEF DeadInv, MintsAreNoted
  <1>6. SessionsAreLinked'
    <2> SUFFICES ASSUME NEW s \in SessionIds, sessions[s] # NONE, sessions[s].imp # NONE
                 PROVE  imps'[sessions[s].imp].linked \/ mints'[sessions[s].imp].step = "stored"
      BY <1>1 DEF SessionsAreLinked
    <2> DEFINE k == sessions[s].imp
    <2>1. k \in Impersonations /\ (imps[k].linked \/ mints[k].step = "stored")
      BY RowsName DEF DeadInv, SessionsAreLinked
    <2> HIDE DEF k
    <2>2. CASE k = i
      BY <2>1, <2>2, <1>1, <1>3 DEF k
    <2>3. CASE k # i
      BY <2>1, <2>3, <1>2, <1>3 DEF k
    <2> QED BY <2>2, <2>3
  <1>7. BegunIsDead'
    BY <1>1, <1>3, RowsName DEF DeadInv, BegunIsDead
  <1> QED BY <1>5, <1>6, <1>7 DEF DeadInv

\* The session it stores, perhaps after the close.
LEMMA DeadMintSession ==
    ASSUME TypeOK, DeadInv, NEW i \in Impersonations, MintSession(i)
    PROVE  DeadInv'
  <1> DEFINE row == NewSession("tenant", ImpTenant[i], i)
  <1>1. /\ mints[i].step = "read"
        /\ sessions' = [sessions EXCEPT ![NextSession] = row]
        /\ mints' = [mints EXCEPT ![i].step = "stored", ![i].sid = NextSession]
    BY DEF MintSession
  <1>2. PICK x : imps' = [imps EXCEPT ![i].shadow = x]
    BY DEF MintSession
  <1>3. row.imp = i
    BY DEF NewSession
  <1> HIDE DEF row
  <1>4. \A s \in SessionIds : sessions'[s] = sessions[s] \/ sessions'[s] = row
    BY <1>1 DEF TypeOK
  <1>5. \A j \in Impersonations : IF j = i THEN mints'[j].step = "stored"
                                  ELSE mints'[j] = mints[j]
    BY <1>1 DEF TypeOK
  <1>6. \A j \in Impersonations :
          /\ imps'[j].linked = imps[j].linked
          /\ imps'[j].state = imps[j].state
          /\ imps'[j].closing = imps[j].closing
          /\ imps'[j].raced = imps[j].raced
    BY <1>2 DEF TypeOK
  <1>7. MintsAreNoted'
    BY <1>1, <1>5, <1>6 DEF DeadInv, MintsAreNoted
  <1>8. SessionsAreLinked'
    BY <1>3, <1>4, <1>5, <1>6, RowsName DEF DeadInv, SessionsAreLinked
  <1>9. BegunIsDead'
    BY <1>1, <1>3, <1>4, <1>6, RowsName DEF DeadInv, MintsAreNoted, BegunIsDead
  <1> QED BY <1>7, <1>8, <1>9 DEF DeadInv

\* The link it makes.
LEMMA DeadMintLinks ==
    ASSUME TypeOK, DeadInv, NEW i \in Impersonations, MintLinks(i)
    PROVE  DeadInv'
  <1>1. /\ imps' = [imps EXCEPT ![i].linked = TRUE]
        /\ mints' = [mints EXCEPT ![i] = NotMinting]
        /\ sessions' = sessions
    BY DEF MintLinks
  <1>2. \A j \in Impersonations :
          /\ imps'[j].state = imps[j].state
          /\ imps'[j].closing = imps[j].closing
          /\ imps'[j].raced = imps[j].raced
          /\ IF j = i THEN imps'[j].linked ELSE imps'[j].linked = imps[j].linked
    BY <1>1 DEF TypeOK
  <1>3. \A j \in Impersonations : IF j = i THEN mints'[j].step = "none"
                                  ELSE mints'[j] = mints[j]
    BY <1>1 DEF TypeOK, NotMinting
  <1>6. MintsAreNoted'
    BY <1>2, <1>3 DEF DeadInv, MintsAreNoted
  <1>7. SessionsAreLinked'
    BY <1>1, <1>2, <1>3, RowsName DEF DeadInv, SessionsAreLinked
  <1>8. BegunIsDead'
    BY <1>1, <1>2, RowsName DEF DeadInv, BegunIsDead
  <1> QED BY <1>6, <1>7, <1>8 DEF DeadInv

\* A login makes a session of no impersonation.
LEMMA DeadLogin ==
    ASSUME TypeOK, DeadInv, NEW t \in Tabs, NEW area \in Areas, Login(t, area)
    PROVE  DeadInv'
  <1> DEFINE row == NewSession(area, IF area = "platform" THEN NONE ELSE jar.slug, NONE)
  <1>1. /\ sessions' = [sessions EXCEPT ![NextSession] = row]
        /\ imps' = imps /\ mints' = mints
    BY DEF Login
  <1>2. row.imp = NONE
    BY DEF NewSession
  <1> HIDE DEF row
  <1>3. \A s \in SessionIds : sessions'[s] = sessions[s] \/ sessions'[s] = row
    BY <1>1 DEF TypeOK
  <1> QED BY <1>1, <1>2, <1>3
          DEF DeadInv, MintsAreNoted, SessionsAreLinked, BegunIsDead

\* Every step keeps closed impersonations dead.
LEMMA DeadStep ==
    ASSUME TypeOK, DeadInv, [Next]_vars
    PROVE  DeadInv'
  <1>1. CASE UNCHANGED vars
    BY <1>1, DeadFrame DEF vars
  <1>2. ASSUME NEW t \in Tabs, NEW area \in Areas, NEW hint \in Addresses \cup {NONE},
               LoadPage(t, area, hint) \/ OpenLogin(t, area, hint)
        PROVE  DeadInv'
    BY <1>2, DeadFrame DEF LoadPage, OpenLogin
  <1>3. ASSUME NEW t \in Tabs, NEW area \in Areas, Login(t, area)
        PROVE  DeadInv'
    BY <1>3, DeadLogin
  <1>4. ASSUME NEW t \in Tabs,
               \/ SignOut(t) \/ RefreshRoute(t) \/ RefreshReturns(t)
               \/ EndImpersonation(t) \/ EndReturns(t)
        PROVE  DeadInv'
    BY <1>4, DeadFrame DEF SignOut, RefreshRoute, RefreshReturns, EndImpersonation, EndReturns
  <1>6. ASSUME NEW t \in Tabs, NEW r \in Requests,
               Call(t, r) \/ Meets401(t, r) \/ Retry(t, r)
        PROVE  DeadInv'
    BY <1>6, DeadFrame DEF Call, Meets401, Retry
  <1>7. ASSUME NEW t \in Tabs, NEW i \in Impersonations, Activate(t, i)
        PROVE  DeadInv'
    BY <1>7, DeadActivate
  <1>8. ASSUME NEW i \in Impersonations,
               \/ ApproveImpersonation(i) \/ MintSession(i) \/ MintLinks(i)
               \/ CloseBegins(i) \/ CloseCommits(i)
        PROVE  DeadInv'
    BY <1>8, DeadApprove, DeadMintSession, DeadMintLinks, DeadCloseBegins
  <1>10. CASE Tick
    BY <1>10, DeadFrame DEF Tick
  <1> QED BY <1>1, <1>2, <1>3, <1>4, <1>6, <1>7, <1>8, <1>10 DEF Next

-----------------------------------------------------------------------------
(* Types, and calls that stay in their tenant. *)

\* The invariant says what the two properties say.
LEMMA TypeInvSuffices ==
    ASSUME TypeInv
    PROVE  TypeOK /\ CallsStayInTenant /\ NoCallIsStranded
  <1>1. TypeOK
    BY DEF TypeInv, TypeOK, RowsOK, ImpSet, MintSet, JarOK, TabOK, Names, CookieNames,
           ReadRefreshCookie
  <1>2. CallsStayInTenant
    BY DEF TypeInv, CallsStayInTenant, TabOK, Names
  <1>3. NoCallIsStranded
    BY DEF TypeInv, NoCallIsStranded, TabOK, TabSet
  <1> QED BY <1>1, <1>2, <1>3

\* Rows are never deleted and never change their area or their impersonation: what
\* named one still does.
Grows(S, T) ==
    \A s \in SessionIds : S[s] # NONE =>
        T[s] # NONE /\ T[s].area = S[s].area /\ T[s].imp = S[s].imp

LEMMA GrowthKeeps ==
    ASSUME NEW S, NEW T, Grows(S, T)
    PROVE  /\ \A tab : TabOK(S, tab) => TabOK(T, tab)
           /\ \A j : JarOK(S, j) => JarOK(T, j)
           /\ \A i, m : MintOK(S, i, m) => MintOK(T, i, m)
  <1>1. \A token, area : Names(S, token, area) => Names(T, token, area)
    BY DEF Grows, Names
  <1>2. \A tab : TabOK(S, tab) => TabOK(T, tab)
    BY <1>1 DEF TabOK
  <1>3. \A j : JarOK(S, j) => JarOK(T, j)
    BY DEF Grows, JarOK, CookieNames
  <1>4. \A i, m : MintOK(S, i, m) => MintOK(T, i, m)
    BY DEF Grows, MintOK
  <1> QED BY <1>2, <1>3, <1>4

\* A row put where there was none.
LEMMA StoredRow ==
    ASSUME TypeInv, FreeSessions # {}, NEW row \in SessionRow,
           row.area = "platform" => row.tenant = NONE,
           sessions' = [sessions EXCEPT ![NextSession] = row]
    PROVE  /\ RowsOK(sessions')
           /\ Grows(sessions, sessions')
           /\ NextSession \in SessionIds
           /\ sessions'[NextSession] # NONE
           /\ sessions'[NextSession].area = row.area
           /\ sessions'[NextSession].imp = row.imp
  <1>1. NextSession \in SessionIds /\ sessions[NextSession] = NONE
    BY NextSessionIsFree
  <1>2. sessions \in [SessionIds -> SessionRow \cup {NONE}]
    BY DEF TypeInv, RowsOK
  <1>3. sessions' \in [SessionIds -> SessionRow \cup {NONE}]
    BY <1>1, <1>2
  <1>4. sessions'[NextSession] = row /\ row # NONE
    BY <1>1, <1>2, NoRowAssumption
  <1>5. \A s \in SessionIds : s # NextSession => sessions'[s] = sessions[s]
    BY <1>1, <1>2
  <1>6. RowsOK(sessions')
    BY <1>3, <1>4, <1>5 DEF TypeInv, RowsOK
  <1>7. Grows(sessions, sessions')
    BY <1>1, <1>5 DEF Grows
  <1> QED BY <1>1, <1>4, <1>6, <1>7

\* Pages.
LEMMA LoginPageOK ==
    ASSUME NEW S, NEW area \in Areas
    PROVE  TabOK(S, LoginPage(area))
  BY DEF TabOK, Names, LoginPage, TabSet, NoCalls

LEMMA AuthedPageOK ==
    ASSUME NEW S, TypeInv, NEW area \in Areas, NEW slug \in Tenants \cup {NONE},
           NEW token \in TokenSet \cup {NONE}, Names(S, token, area)
    PROVE  TabOK(S, AuthedPage(area, slug, token))
  <1>1. jar.marker # NONE => jar.marker.imp \in Impersonations
    BY DEF TypeInv, JarOK, JarSet, MarkerSet
  <1>2. AuthedPage(area, slug, token) \in TabSet
    BY <1>1 DEF AuthedPage, TabSet, NoCalls
  <1>3. \A r \in Requests : AuthedPage(area, slug, token).calls[r] # "waiting"
    BY DEF AuthedPage, NoCalls
  <1>4. /\ AuthedPage(area, slug, token).token = token
        /\ AuthedPage(area, slug, token).result = NONE
        /\ AuthedPage(area, slug, token).area = area
        /\ area = "platform" => AuthedPage(area, slug, token).slug = NONE
        /\ ~AuthedPage(area, slug, token).strayed
    BY DEF AuthedPage
  <1> QED BY <1>2, <1>3, <1>4 DEF TabOK, Names

\* Tokens.
LEMMA AccessTokenOK ==
    ASSUME now \in Nat, NEW sid \in SessionIds
    PROVE  AccessToken(sid) \in TokenSet /\ AccessToken(sid).sid = sid
  BY SessionAssumption DEF AccessToken, TokenSet

LEMMA CookieOK ==
    ASSUME now \in Nat, NEW sid \in SessionIds \cup {NONE}, NEW area
    PROVE  Cookie(sid, area) \in CookieSet /\ Cookie(sid, area).sid = sid
  <1>1. RefreshMaxAge(area) \in Nat
    BY SessionAssumption DEF RefreshMaxAge
  <1> QED BY <1>1 DEF Cookie, CookieSet

LEMMA CookieNamesRow ==
    ASSUME TypeInv, NEW area \in Areas, ReadRefreshCookie(area) # NONE
    PROVE  /\ ReadRefreshCookie(area) \in SessionIds
           /\ sessions[ReadRefreshCookie(area)] # NONE
           /\ sessions[ReadRefreshCookie(area)].area = area
  BY DEF TypeInv, JarOK, CookieNames, ReadRefreshCookie

LEMMA ServerTokenOK ==
    ASSUME TypeInv, NEW area \in Areas, NEW slug
    PROVE  /\ ServerAccessToken(area, slug) \in TokenSet \cup {NONE}
           /\ Names(sessions, ServerAccessToken(area, slug), area)
  <1> DEFINE sid == ReadRefreshCookie(area)
  <1>1. CASE ServerAccessToken(area, slug) = NONE
    BY <1>1 DEF Names
  <1>2. CASE ServerAccessToken(area, slug) # NONE
    <2>1. sid # NONE /\ ServerAccessToken(area, slug) = AccessToken(sid)
      BY <1>2 DEF ServerAccessToken
    <2>2. AccessToken(sid) \in TokenSet /\ AccessToken(sid).sid = sid
      BY <2>1, CookieNamesRow, AccessTokenOK DEF TypeInv
    <2> QED BY <2>1, <2>2, CookieNamesRow DEF Names
  <1> QED BY <1>1, <1>2

\* What a document request shows.
LEMMA RenderedOK ==
    ASSUME TypeInv, NEW area \in Areas, NEW slug \in Tenants \cup {NONE}
    PROVE  TabOK(sessions, Rendered(area, slug))
  BY ServerTokenOK, AuthedPageOK, LoginPageOK DEF Rendered

\* No call of a page strays: the audience is compared with the header, and what
\* is the platform's has no tenant on either side.
LEMMA NoStray ==
    ASSUME TypeInv, NEW t \in Tabs
    PROVE  ~Strays(tabs[t])
  <1> SUFFICES ASSUME Strays(tabs[t]) PROVE FALSE
    OBVIOUS
  <1>1. /\ TabOK(sessions, tabs[t])
        /\ RowsOK(sessions)
    BY DEF TypeInv
  <1>2. /\ tabs[t].token # NONE
        /\ sessions[tabs[t].token.sid].area \in SlugAreas =>
             sessions[tabs[t].token.sid].tenant = tabs[t].slug
        /\ sessions[tabs[t].token.sid].tenant # tabs[t].slug
    BY DEF Strays, BackendAccepts
  <1>3. /\ tabs[t].token.sid \in SessionIds
        /\ sessions[tabs[t].token.sid] # NONE
        /\ sessions[tabs[t].token.sid].area = tabs[t].area
    BY <1>1, <1>2 DEF TabOK, Names
  <1>4. tabs[t].area \in {"platform", "tenant", "member"}
    BY <1>1, SessionAssumption DEF TabOK, TabSet
  <1>5. tabs[t].area = "platform"
    BY <1>2, <1>3, <1>4 DEF SlugAreas
  <1> QED BY <1>1, <1>2, <1>3, <1>5 DEF TabOK, RowsOK

\* A step that gives one tab a new page and leaves the backend alone.
LEMMA OneTab ==
    ASSUME TypeInv, NEW t \in Tabs, NEW tab, TabOK(sessions, tab),
           tabs' = [tabs EXCEPT ![t] = tab],
           JarOK(sessions, jar'),
           UNCHANGED <<now, sessions, imps, mints>>
    PROVE  TypeInv'
  <1>1. tabs' \in [Tabs -> TabSet] /\ \A u \in Tabs : TabOK(sessions, tabs'[u])
    BY DEF TypeInv, TabOK
  <1> QED BY <1>1 DEF TypeInv

\* The slug cookie is set, cleared or kept.
LEMMA SlugOK ==
    ASSUME NEW S, NEW j, JarOK(S, j), NEW slug \in Tenants \cup {NONE}
    PROVE  JarOK(S, [j EXCEPT !.slug = slug])
  BY DEF JarOK, JarSet

\* A refresh cookie is set, or cleared.
LEMMA RefreshCookieOK ==
    ASSUME NEW S, NEW j, JarOK(S, j), NEW area \in Areas, NEW c \in CookieSet \cup {NONE},
           CookieNames(S, c, area)
    PROVE  JarOK(S, [j EXCEPT !.refresh[area] = c])
  <1> DEFINE k == [j EXCEPT !.refresh[area] = c]
  <1>1. j.refresh \in [Areas -> CookieSet \cup {NONE}] /\ j \in JarSet
    BY DEF JarOK, JarSet
  <1>2. k \in JarSet /\ k.refresh = [j.refresh EXCEPT ![area] = c]
    BY <1>1 DEF JarSet
  <1>3. \A a \in Areas : k.refresh[a] = IF a = area THEN c ELSE j.refresh[a]
    BY <1>1, <1>2
  <1> HIDE DEF k
  <1>4. JarOK(S, k)
    BY <1>2, <1>3 DEF JarOK
  <1> QED BY <1>4 DEF k

LEMMA TypeLoadPage ==
    ASSUME TypeInv, NEW t \in Tabs, NEW area \in Areas, NEW hint \in Addresses \cup {NONE},
           LoadPage(t, area, hint) \/ OpenLogin(t, area, hint)
    PROVE  TypeInv'
  <1>1. /\ jar.slug \in Tenants \cup {NONE}
        /\ JarOK(sessions, jar)
    BY DEF TypeInv, JarOK, JarSet
  <1>2. /\ ResolveTenantSlug(hint) \in Tenants \cup {NONE}
        /\ PersistSlug(area, hint) \in Tenants \cup {NONE}
    BY <1>1, SessionAssumption DEF ResolveTenantSlug, PersistSlug
  <1>3. JarOK(sessions, jar')
    BY <1>1, <1>2, SlugOK DEF LoadPage, OpenLogin
  <1>4. /\ TabOK(sessions, LoginPage(area))
        /\ TabOK(sessions, Rendered(area, ResolveTenantSlug(hint)))
    BY <1>2, LoginPageOK, RenderedOK
  <1>5. /\ \/ tabs' = [tabs EXCEPT ![t] = LoginPage(area)]
           \/ tabs' = [tabs EXCEPT ![t] = Rendered(area, ResolveTenantSlug(hint))]
        /\ UNCHANGED <<now, sessions, imps, mints>>
    BY DEF LoadPage, OpenLogin
  <1> QED BY <1>3, <1>4, <1>5, OneTab

\* What a new row asks of the rest: the other tabs, cookies and mints stay.
LEMMA TypeLogin ==
    ASSUME TypeInv, NEW t \in Tabs, NEW area \in Areas, Login(t, area)
    PROVE  TypeInv'
  <1> DEFINE tenant == IF area = "platform" THEN NONE ELSE jar.slug
             row == NewSession(area, tenant, NONE)
             sid == NextSession
             tab == AuthedPage(area, tenant, AccessToken(sid))
             cookie == Cookie(sid, area)
  <1>1. /\ FreeSessions # {}
        /\ sessions' = [sessions EXCEPT ![NextSession] = row]
        /\ jar' = [jar EXCEPT !.refresh[area] = cookie]
        /\ tabs' = [tabs EXCEPT ![t] = tab]
        /\ UNCHANGED <<now, imps, mints>>
    BY DEF Login
  <1>2. tenant \in Tenants \cup {NONE} /\ now \in Nat
    BY DEF TypeInv, JarOK, JarSet
  <1>3. /\ row \in SessionRow
        /\ row.area = area
        /\ row.area = "platform" => row.tenant = NONE
    BY <1>2, NewSessionIsRow
  <1> HIDE DEF row
  <1>4. /\ RowsOK(sessions')
        /\ Grows(sessions, sessions')
        /\ sid \in SessionIds
        /\ sessions'[sid] # NONE
        /\ sessions'[sid].area = area
    BY <1>1, <1>3, StoredRow
  <1>5. /\ AccessToken(sid) \in TokenSet /\ Names(sessions', AccessToken(sid), area)
        /\ cookie \in CookieSet /\ CookieNames(sessions', cookie, area)
    BY <1>2, <1>4, AccessTokenOK, CookieOK DEF Names, CookieNames
  <1>6. TabOK(sessions', tab)
    BY <1>2, <1>5, AuthedPageOK
  <1>7. /\ \A u \in Tabs : TabOK(sessions', tabs[u])
        /\ JarOK(sessions', jar)
        /\ \A i \in Impersonations : MintOK(sessions', i, mints[i])
    BY <1>4, GrowthKeeps DEF TypeInv
  <1> HIDE DEF tab, cookie, sid, tenant
  <1>8. JarOK(sessions', jar')
    BY <1>1, <1>5, <1>7, RefreshCookieOK
  <1>9. tabs' \in [Tabs -> TabSet] /\ \A u \in Tabs : TabOK(sessions', tabs'[u])
    BY <1>1, <1>6, <1>7 DEF TypeInv, TabOK
  <1> QED BY <1>1, <1>4, <1>7, <1>8, <1>9 DEF TypeInv

LEMMA TypeSignOut ==
    ASSUME TypeInv, NEW t \in Tabs, SignOut(t)
    PROVE  TypeInv'
  <1>1. tabs[t].area \in Areas /\ JarOK(sessions, jar)
    BY DEF TypeInv, TabSet
  <1>2. JarOK(sessions, jar')
    BY <1>1, RefreshCookieOK DEF SignOut, CookieNames
  <1>3. TabOK(sessions, LoginPage(tabs[t].area))
    BY <1>1, LoginPageOK
  <1> QED BY <1>2, <1>3, OneTab DEF SignOut

\* A step of a page that leaves its tokens alone.
LEMMA TypeTab ==
    ASSUME TypeInv, NEW t \in Tabs, NEW new \in TabSet,
           tabs' = [tabs EXCEPT ![t] = new],
           UNCHANGED <<now, sessions, imps, mints, jar>>,
           new.token = tabs[t].token, new.result = tabs[t].result,
           new.area = tabs[t].area, new.slug = tabs[t].slug, ~new.strayed,
           \A r \in Requests : new.calls[r] = "waiting" => new.refresh # "none"
    PROVE  TypeInv'
  <1>1. TabOK(sessions, new)
    BY DEF TypeInv, TabOK
  <1>2. JarOK(sessions, jar')
    BY DEF TypeInv
  <1> QED BY <1>1, <1>2, OneTab

\* The calls of a page.
LEMMA TypeCall ==
    ASSUME TypeInv, NEW t \in Tabs, NEW r \in Requests,
           Call(t, r) \/ Meets401(t, r) \/ Retry(t, r)
    PROVE  TypeInv'
  <1> DEFINE tab == tabs[t]
  <1>1. ~Strays(tab)
    BY NoStray
  <1>2. TabOK(sessions, tab) /\ tabs \in [Tabs -> TabSet]
    BY DEF TypeInv
  <1>3. tab \in TabSet /\ ~tab.strayed
    BY <1>2 DEF TabOK
  <1>4. ASSUME NEW x \in {"idle", "refused", "waiting", "retrying"}, NEW y \in {"none", "out", "back"},
               x = "waiting" => y # "none",
               y = tab.refresh \/ y = "out",
               tabs' = [tabs EXCEPT ![t] = [tab EXCEPT !.calls[r] = x, !.strayed = FALSE, !.refresh = y]],
               UNCHANGED <<now, sessions, imps, mints, jar>>
        PROVE  TypeInv'
    <2> DEFINE mid == [tab EXCEPT !.calls[r] = x]
               new == [mid EXCEPT !.strayed = FALSE, !.refresh = y]
    <2>1. /\ mid \in TabSet
          /\ mid.token = tab.token /\ mid.result = tab.result
          /\ mid.area = tab.area /\ mid.slug = tab.slug
          /\ \A q \in Requests : mid.calls[q] = "waiting" => (x = "waiting" /\ q = r) \/ tab.calls[q] = "waiting"
      BY <1>3 DEF TabSet
    <2>2. tabs' = [tabs EXCEPT ![t] = new]
      BY <1>4
    <2> HIDE DEF mid
    <2>3. /\ new \in TabSet
          /\ new.token = mid.token /\ new.result = mid.result
          /\ new.area = mid.area /\ new.slug = mid.slug
          /\ ~new.strayed
          /\ new.calls = mid.calls /\ new.refresh = y
      BY <2>1 DEF TabSet
    <2> HIDE DEF new
    <2>4. \A q \in Requests : new.calls[q] = "waiting" => new.refresh # "none"
      BY <1>2, <1>4, <2>1, <2>3 DEF TabOK
    <2>5. UNCHANGED <<now, sessions, imps, mints, jar>>
      BY <1>4
    <2>6. /\ new.token = tabs[t].token /\ new.result = tabs[t].result
          /\ new.area = tabs[t].area /\ new.slug = tabs[t].slug
      BY <2>1, <2>3
    <2>7. new \in TabSet /\ ~new.strayed
      BY <2>3
    <2> QED BY <2>2, <2>4, <2>5, <2>6, <2>7, TypeTab
  <1>5. tab.refresh \in {"none", "out", "back"}
    BY <1>3 DEF TabSet
  <1>6. CASE Call(t, r)
    <2> DEFINE x == IF BackendAccepts(tab.token, tab.slug) THEN "idle" ELSE "refused"
               y == tab.strayed \/ Strays(tab)
    <2>1. /\ tabs' = [tabs EXCEPT ![t].calls[r] = x, ![t].strayed = y]
          /\ UNCHANGED <<now, sessions, imps, mints, jar>>
      BY <1>6, <1>2 DEF Call
    <2>2. y = FALSE
      BY <1>1, <1>3 DEF TabSet
    <2>3. x \in {"idle", "refused", "waiting", "retrying"} /\ x # "waiting"
      OBVIOUS
    <2> HIDE DEF x, y
    <2>4. tabs' = [tabs EXCEPT ![t] = [tab EXCEPT !.calls[r] = x, !.strayed = FALSE, !.refresh = tab.refresh]]
      BY <2>1, <2>2, <1>2, <1>3 DEF TabSet
    <2> QED BY <2>1, <2>3, <2>4, <1>4, <1>5
  <1>7. CASE Meets401(t, r)
    <2> DEFINE y == IF tab.refresh = "none" THEN "out" ELSE tab.refresh
    <2>1. /\ tabs' = [tabs EXCEPT ![t].calls[r] = "waiting", ![t].refresh = y]
          /\ UNCHANGED <<now, sessions, imps, mints, jar>>
      BY <1>7, <1>2 DEF Meets401
    <2>2. /\ y \in {"none", "out", "back"} /\ y # "none"
          /\ y = tab.refresh \/ y = "out"
      BY <1>5
    <2> HIDE DEF y
    <2>4. tabs' = [tabs EXCEPT ![t] = [tab EXCEPT !.calls[r] = "waiting", !.strayed = FALSE, !.refresh = y]]
      BY <2>1, <1>2, <1>3 DEF TabSet
    <2> QED BY <2>1, <2>2, <2>4, <1>4
  <1>8. CASE Retry(t, r)
    <2> DEFINE y == tab.strayed \/ Strays(tab)
    <2>1. /\ tabs' = [tabs EXCEPT ![t].calls[r] = "idle", ![t].strayed = y]
          /\ UNCHANGED <<now, sessions, imps, mints, jar>>
      BY <1>8, <1>2 DEF Retry
    <2>2. y = FALSE
      BY <1>1, <1>3 DEF TabSet
    <2> HIDE DEF y
    <2>4. tabs' = [tabs EXCEPT ![t] = [tab EXCEPT !.calls[r] = "idle", !.strayed = FALSE, !.refresh = tab.refresh]]
      BY <2>1, <2>2, <1>2, <1>3 DEF TabSet
    <2> QED BY <2>1, <2>4, <1>4, <1>5
  <1> QED BY <1>6, <1>7, <1>8

\* The refresh routes give a token of the session in the area's cookie.
LEMMA TypeRefreshRoute ==
    ASSUME TypeInv, NEW t \in Tabs, RefreshRoute(t)
    PROVE  TypeInv'
  <1> DEFINE tab == tabs[t]
             result == tabs'[t].result
             sid == ReadRefreshCookie(tab.area)
  <1>1. tab \in TabSet /\ TabOK(sessions, tab) /\ tabs \in [Tabs -> TabSet] /\ tab.area \in Areas
    BY DEF TypeInv, TabSet
  <1>2. PICK x : /\ tabs' = [tabs EXCEPT ![t].refresh = "back", ![t].result = x]
                 /\ x = NONE \/ (x = AccessToken(sid) /\ sid # NONE)
    BY DEF RefreshRoute
  <1>3. x \in TokenSet \cup {NONE} /\ Names(sessions, x, tab.area)
    <2>1. CASE x = NONE
      BY <2>1 DEF Names
    <2>2. CASE x = AccessToken(sid) /\ sid # NONE
      BY <2>2, <1>1, CookieNamesRow, AccessTokenOK DEF TypeInv, Names
    <2> QED BY <1>2, <2>1, <2>2
  <1> DEFINE new == [tab EXCEPT !.refresh = "back", !.result = x]
  <1>4. tabs' = [tabs EXCEPT ![t] = new]
    BY <1>1, <1>2
  <1>5. TabOK(sessions, new)
    BY <1>1, <1>3 DEF TabOK, TabSet
  <1>6. JarOK(sessions, jar') /\ UNCHANGED <<now, sessions, imps, mints>>
    BY DEF RefreshRoute, TypeInv
  <1> HIDE DEF new
  <1> QED BY <1>4, <1>5, <1>6, OneTab

\* Its answer blanks the cookie and fills the store.
LEMMA TypeRefreshReturns ==
    ASSUME TypeInv, NEW t \in Tabs, RefreshReturns(t)
    PROVE  TypeInv'
  <1> DEFINE tab == tabs[t]
             token == IF tab.result = NONE THEN tab.token ELSE tab.result
             calls == [r \in Requests |->
                         IF tab.calls[r] # "waiting" THEN tab.calls[r]
                         ELSE IF tab.result = NONE THEN "idle" ELSE "retrying"]
             new == [tab EXCEPT !.refresh = "none", !.result = NONE,
                                !.token = token, !.calls = calls]
  <1>1. tab \in TabSet /\ TabOK(sessions, tab) /\ tabs \in [Tabs -> TabSet]
    BY DEF TypeInv
  <1>2. tabs' = [tabs EXCEPT ![t] = new]
    BY <1>1 DEF RefreshReturns
  <1>3. /\ token \in TokenSet \cup {NONE}
        /\ Names(sessions, token, tab.area)
        /\ calls \in [Requests -> {"idle", "refused", "waiting", "retrying"}]
        /\ \A r \in Requests : calls[r] # "waiting"
    BY <1>1 DEF TabOK, TabSet
  <1> HIDE DEF token, calls
  <1>4. TabOK(sessions, new)
    BY <1>1, <1>3 DEF TabOK, TabSet, Names
  <1>5. JarOK(sessions, jar')
    <2>1. CASE tab.result = NONE
      BY <2>1 DEF RefreshReturns, TypeInv
    <2>2. CASE tab.result # NONE
      <3>1. tab.area \in Areas
        BY <1>1 DEF TabSet
      <3>2. /\ BlankCookie(tab.area) \in CookieSet
            /\ CookieNames(sessions, BlankCookie(tab.area), tab.area)
        BY CookieOK DEF TypeInv, BlankCookie, CookieNames
      <3>3. jar' = [jar EXCEPT !.refresh[tab.area] = BlankCookie(tab.area)]
        BY <2>2 DEF RefreshReturns
      <3> QED BY <3>1, <3>2, <3>3, RefreshCookieOK DEF TypeInv
    <2> QED BY <2>1, <2>2
  <1>6. UNCHANGED <<now, sessions, imps, mints>>
    BY DEF RefreshReturns
  <1> HIDE DEF new
  <1> QED BY <1>2, <1>4, <1>5, <1>6, OneTab

\* Impersonation: the mint.
LEMMA TypeActivate ==
    ASSUME TypeInv, NEW t \in Tabs, NEW i \in Impersonations, Activate(t, i)
    PROVE  TypeInv'
  <1>1. /\ mints' = [mints EXCEPT ![i].step = "read", ![i].saw = imps[i].shadow]
        /\ tabs' = [tabs EXCEPT ![t].entering = i]
        /\ UNCHANGED <<now, sessions, jar>>
    BY DEF Activate
  <1>0. imps' \in [Impersonations -> ImpSet]
    BY DEF Activate, TypeInv, ImpSet
  <1>2. /\ mints' \in [Impersonations -> MintSet]
        /\ \A j \in Impersonations : mints'[j].step = "stored" => mints'[j] = mints[j]
    BY <1>1 DEF TypeInv, MintSet, ImpSet
  <1>3. /\ tabs' \in [Tabs -> TabSet]
        /\ \A u \in Tabs : /\ tabs'[u].token = tabs[u].token
                           /\ tabs'[u].result = tabs[u].result
                           /\ tabs'[u].area = tabs[u].area
                           /\ tabs'[u].slug = tabs[u].slug
                           /\ tabs'[u].strayed = tabs[u].strayed
                           /\ tabs'[u].calls = tabs[u].calls
                           /\ tabs'[u].refresh = tabs[u].refresh
    <2> DEFINE new == [tabs[t] EXCEPT !.entering = i]
    <2>1. tabs \in [Tabs -> TabSet] /\ tabs' = [tabs EXCEPT ![t] = new]
      BY <1>1 DEF TypeInv
    <2>2. /\ new \in TabSet
          /\ new.token = tabs[t].token /\ new.result = tabs[t].result
          /\ new.area = tabs[t].area /\ new.slug = tabs[t].slug
          /\ new.strayed = tabs[t].strayed
          /\ new.calls = tabs[t].calls /\ new.refresh = tabs[t].refresh
      BY <2>1 DEF TabSet
    <2> HIDE DEF new
    <2> QED BY <2>1, <2>2
  <1>4. \A u \in Tabs : TabOK(sessions, tabs'[u])
    BY <1>3 DEF TypeInv, TabOK
  <1>5. \A j \in Impersonations : MintOK(sessions, j, mints'[j])
    BY <1>2 DEF TypeInv, MintOK
  <1> QED BY <1>0, <1>1, <1>2, <1>3, <1>4, <1>5 DEF TypeInv

LEMMA TypeMintSession ==
    ASSUME TypeInv, NEW i \in Impersonations, MintSession(i)
    PROVE  TypeInv'
  <1> DEFINE row == NewSession("tenant", ImpTenant[i], i)
  <1>1. /\ FreeSessions # {}
        /\ sessions' = [sessions EXCEPT ![NextSession] = row]
        /\ mints' = [mints EXCEPT ![i].step = "stored", ![i].sid = NextSession]
        /\ UNCHANGED <<now, jar, tabs>>
    BY DEF MintSession
  <1>0. imps' \in [Impersonations -> ImpSet]
    <2>1. PICK x \in Shadow : imps' = [imps EXCEPT ![i].shadow = x]
      <3>1. imps[i].shadow \in Shadow /\ "active" \in Shadow
        BY DEF TypeInv, ImpSet, Shadow
      <3> QED BY <3>1 DEF MintSession
    <2> QED BY <2>1 DEF TypeInv, ImpSet
  <1>2. row \in SessionRow /\ row.area = "tenant" /\ row.imp = i
    BY NewSessionIsRow, SessionAssumption DEF TypeInv
  <1> HIDE DEF row
  <1>3. /\ RowsOK(sessions')
        /\ Grows(sessions, sessions')
        /\ NextSession \in SessionIds
        /\ sessions'[NextSession] # NONE
        /\ sessions'[NextSession].area = "tenant"
        /\ sessions'[NextSession].imp = i
    BY <1>1, <1>2, StoredRow
  <1>4. /\ \A u \in Tabs : TabOK(sessions', tabs[u])
        /\ JarOK(sessions', jar)
        /\ \A j \in Impersonations : MintOK(sessions', j, mints[j])
    BY <1>3, GrowthKeeps DEF TypeInv
  <1>5. /\ mints' \in [Impersonations -> MintSet]
        /\ \A j \in Impersonations : IF j = i THEN mints'[j].sid = NextSession
                                      ELSE mints'[j] = mints[j]
    BY <1>1, <1>3 DEF TypeInv, MintSet
  <1>6. \A j \in Impersonations : MintOK(sessions', j, mints'[j])
    BY <1>3, <1>4, <1>5 DEF MintOK
  <1> QED BY <1>0, <1>1, <1>3, <1>4, <1>5, <1>6 DEF TypeInv

LEMMA TypeMintLinks ==
    ASSUME TypeInv, NEW i \in Impersonations, MintLinks(i)
    PROVE  TypeInv'
  <1> DEFINE sid == mints[i].sid
             tenant == ImpTenant[i]
             base == AuthedPage("tenant", tenant, AccessToken(sid))
             new == [base EXCEPT !.banner = i]
             cookie == Cookie(sid, "tenant")
             marker == Marker(i)
  <1>1. /\ mints[i].step = "stored"
        /\ imps' = [imps EXCEPT ![i].linked = TRUE]
        /\ mints' = [mints EXCEPT ![i] = NotMinting]
        /\ UNCHANGED <<now, sessions>>
        /\ \A u \in Tabs : tabs'[u] = tabs[u] \/ tabs'[u] = new
        /\ tabs' = [u \in Tabs |-> tabs'[u]]
        /\ \/ jar' = jar
           \/ jar' = [jar EXCEPT !.refresh["tenant"] = cookie, !.slug = tenant, !.marker = marker]
    BY DEF MintLinks
  <1>2. /\ sid \in SessionIds
        /\ sessions[sid] # NONE
        /\ sessions[sid].area = "tenant"
        /\ now \in Nat
        /\ tenant \in Tenants
        /\ "tenant" \in Areas
    BY <1>1, SessionAssumption DEF TypeInv, MintOK
  <1>3. /\ AccessToken(sid) \in TokenSet /\ Names(sessions, AccessToken(sid), "tenant")
        /\ cookie \in CookieSet /\ CookieNames(sessions, cookie, "tenant")
    BY <1>2, AccessTokenOK, CookieOK DEF Names, CookieNames
  <1>4. TabOK(sessions, base)
    BY <1>2, <1>3, AuthedPageOK
  <1>5. marker \in MarkerSet
    BY <1>2, SessionAssumption DEF Marker, MarkerSet, RefreshMaxAge
  <1> HIDE DEF base, cookie, marker, tenant
  <1>6. TabOK(sessions, new)
    BY <1>4 DEF TabOK, TabSet
  <1> HIDE DEF new
  <1>7. tabs' \in [Tabs -> TabSet] /\ \A u \in Tabs : TabOK(sessions, tabs'[u])
    BY <1>1, <1>6 DEF TypeInv, TabOK
  <1>8. JarOK(sessions, jar')
    <2>1. CASE jar' = jar
      BY <2>1 DEF TypeInv
    <2>2. CASE jar' = [jar EXCEPT !.refresh["tenant"] = cookie, !.slug = tenant, !.marker = marker]
      <3> DEFINE j == [jar EXCEPT !.refresh["tenant"] = cookie]
      <3>1. JarOK(sessions, j)
        BY <1>2, <1>3, RefreshCookieOK DEF TypeInv
      <3>2. jar' = [j EXCEPT !.slug = tenant, !.marker = marker]
        BY <2>2 DEF TypeInv, JarOK, JarSet
      <3> HIDE DEF j
      <3> QED BY <3>1, <3>2, <1>2, <1>5 DEF JarOK, JarSet
    <2> QED BY <1>1, <2>1, <2>2
  <1>9. imps' \in [Impersonations -> ImpSet]
    BY <1>1 DEF TypeInv, ImpSet
  <1>10. /\ mints' \in [Impersonations -> MintSet]
         /\ \A j \in Impersonations : mints'[j].step = "stored" => mints'[j] = mints[j]
    BY <1>1 DEF TypeInv, MintSet, NotMinting, Shadow
  <1>11. \A j \in Impersonations : MintOK(sessions, j, mints'[j])
    BY <1>10 DEF TypeInv, MintOK
  <1> QED BY <1>1, <1>7, <1>8, <1>9, <1>10, <1>11 DEF TypeInv

\* Impersonation: end and revoke.
LEMMA CloseKeepsRows ==
    ASSUME TypeInv, NEW i \in Impersonations, CloseBegins(i)
    PROVE  RowsOK(sessions') /\ Grows(sessions, sessions')
  <1>1. CASE ~imps[i].linked
    BY <1>1 DEF CloseBegins, TypeInv, Grows
  <1>2. CASE imps[i].linked
    <2>1. sessions' = [s \in SessionIds |->
                        IF sessions[s] # NONE /\ sessions[s].imp = i
                        THEN [sessions[s] EXCEPT !.revoked = TRUE] ELSE sessions[s]]
      BY <1>2 DEF CloseBegins, RevokeSessions
    <2>2. \A s \in SessionIds : sessions[s] # NONE =>
            LET row == [sessions[s] EXCEPT !.revoked = TRUE] IN
            /\ row \in SessionRow
            /\ row.area = sessions[s].area
            /\ row.tenant = sessions[s].tenant
            /\ row.imp = sessions[s].imp
      BY DEF TypeInv, RowsOK, SessionRow
    <2>3. \A s \in SessionIds :
            \/ sessions'[s] = sessions[s]
            \/ /\ sessions[s] # NONE
               /\ sessions'[s] \in SessionRow
               /\ sessions'[s].area = sessions[s].area
               /\ sessions'[s].tenant = sessions[s].tenant
               /\ sessions'[s].imp = sessions[s].imp
      BY <2>1, <2>2
    <2>4. sessions' \in [SessionIds -> SessionRow \cup {NONE}]
      BY <2>1, <2>3 DEF TypeInv, RowsOK
    <2>5. RowsOK(sessions')
      BY <2>3, <2>4 DEF TypeInv, RowsOK
    <2>6. Grows(sessions, sessions')
      BY <2>3, NoRowAssumption DEF Grows
    <2> QED BY <2>5, <2>6
  <1> QED BY <1>1, <1>2

LEMMA TypeClose ==
    ASSUME TypeInv, NEW i \in Impersonations, CloseBegins(i) \/ CloseCommits(i)
    PROVE  TypeInv'
  <1>1. UNCHANGED <<now, mints, jar, tabs>>
    BY DEF CloseBegins, CloseCommits
  <1>2. imps' \in [Impersonations -> ImpSet]
    <2>1. CASE CloseCommits(i)
      BY <2>1 DEF CloseCommits, TypeInv, ImpSet
    <2>2. CASE CloseBegins(i)
      <3> DEFINE x == mints[i] # NotMinting
      <3>1. \/ imps' = [imps EXCEPT ![i].closing = TRUE, ![i].shadow = "inactive", ![i].raced = x]
            \/ imps' = [imps EXCEPT ![i].closing = TRUE, ![i].raced = x]
        BY <2>2 DEF CloseBegins
      <3>2. x \in BOOLEAN
        OBVIOUS
      <3> HIDE DEF x
      <3> DEFINE one == [imps[i] EXCEPT !.closing = TRUE, !.shadow = "inactive", !.raced = x]
                 two == [imps[i] EXCEPT !.closing = TRUE, !.raced = x]
      <3>3. imps \in [Impersonations -> ImpSet]
        BY DEF TypeInv
      <3>4. one \in ImpSet
        BY <3>2, <3>3 DEF ImpSet, Shadow
      <3>5. two \in ImpSet
        BY <3>2, <3>3 DEF ImpSet
      <3>6. imps' = [imps EXCEPT ![i] = one] \/ imps' = [imps EXCEPT ![i] = two]
        BY <3>1, <3>3
      <3> HIDE DEF one, two
      <3> QED BY <3>3, <3>4, <3>5, <3>6
    <2> QED BY <2>1, <2>2
  <1>3. RowsOK(sessions') /\ Grows(sessions, sessions')
    BY CloseKeepsRows DEF CloseCommits, TypeInv, Grows
  <1>4. /\ \A u \in Tabs : TabOK(sessions', tabs[u])
        /\ JarOK(sessions', jar)
        /\ \A k \in Impersonations : MintOK(sessions', k, mints[k])
    BY <1>3, GrowthKeeps DEF TypeInv
  <1> QED BY <1>1, <1>2, <1>3, <1>4 DEF TypeInv

LEMMA TypeEnd ==
    ASSUME TypeInv, NEW t \in Tabs, EndImpersonation(t) \/ EndReturns(t)
    PROVE  TypeInv'
  <1> DEFINE waits == [tabs[t] EXCEPT !.ending = TRUE]
             page == Rendered("platform", NONE)
  <1>0. "platform" \in Areas /\ "tenant" \in Areas
    BY SessionAssumption
  <1>1. TabOK(sessions, page)
    BY <1>0, RenderedOK
  <1>2. TabOK(sessions, waits)
    BY DEF TypeInv, TabOK, TabSet
  <1>3. JarOK(sessions, jar')
    <2>1. CASE EndImpersonation(t)
      BY <2>1 DEF EndImpersonation, TypeInv
    <2>2. CASE EndReturns(t)
      <3> DEFINE j == [jar EXCEPT !.refresh["tenant"] = NONE]
      <3>1. JarOK(sessions, j)
        BY <1>0, RefreshCookieOK DEF TypeInv, CookieNames
      <3>2. jar' = [j EXCEPT !.slug = NONE, !.marker = NONE]
        BY <2>2 DEF EndReturns, TypeInv, JarOK, JarSet
      <3> HIDE DEF j
      <3> QED BY <3>1, <3>2 DEF JarOK, JarSet
    <2> QED BY <2>1, <2>2
  <1> HIDE DEF waits, page
  <1>4. /\ tabs' = [tabs EXCEPT ![t] = waits] \/ tabs' = [tabs EXCEPT ![t] = page]
        /\ UNCHANGED <<now, sessions, imps, mints>>
    BY DEF EndImpersonation, EndReturns, waits, page
  <1> QED BY <1>1, <1>2, <1>3, <1>4, OneTab

LEMMA TypeApprove ==
    ASSUME TypeInv, NEW i \in Impersonations, ApproveImpersonation(i)
    PROVE  TypeInv'
  <1>1. /\ imps' = [imps EXCEPT ![i].state = "open", ![i].expires = now + ImpTtl]
        /\ UNCHANGED <<now, sessions, mints, jar, tabs>>
    BY DEF ApproveImpersonation
  <1>2. now + ImpTtl \in Nat
    BY SessionAssumption DEF TypeInv
  <1>3. imps' \in [Impersonations -> ImpSet]
    BY <1>1, <1>2 DEF TypeInv, ImpSet
  <1> QED BY <1>1, <1>3 DEF TypeInv

\* The clock: cookies are dropped, never made.
LEMMA TypeTick ==
    ASSUME TypeInv, Tick
    PROVE  TypeInv'
  <1>1. /\ now' = now + 1
        /\ jar' = Aged(jar, now + 1)
        /\ UNCHANGED <<sessions, imps, mints, tabs>>
    BY DEF Tick
  <1> DEFINE keep == [a \in Areas |->
                        IF jar.refresh[a] # NONE /\ jar.refresh[a].expires <= now + 1
                        THEN NONE ELSE jar.refresh[a]]
             mark == IF jar.marker # NONE /\ jar.marker.expires <= now + 1 THEN NONE
                     ELSE jar.marker
  <1>2. jar' = [jar EXCEPT !.refresh = keep, !.marker = mark]
    BY <1>1 DEF Aged
  <1>3. /\ \A a \in Areas : keep[a] = NONE \/ keep[a] = jar.refresh[a]
        /\ keep = [a \in Areas |-> keep[a]]
        /\ mark = NONE \/ mark = jar.marker
    OBVIOUS
  <1> HIDE DEF keep, mark
  <1>4. jar \in JarSet /\ \A a \in Areas : CookieNames(sessions, jar.refresh[a], a)
    BY DEF TypeInv, JarOK
  <1>5. keep \in [Areas -> CookieSet \cup {NONE}]
    BY <1>3, <1>4 DEF JarSet
  <1>6. jar' \in JarSet /\ jar'.refresh = keep
    BY <1>2, <1>3, <1>4, <1>5 DEF JarSet
  <1>7. JarOK(sessions, jar')
    BY <1>3, <1>4, <1>6 DEF JarOK, CookieNames
  <1>8. now' \in Nat
    BY <1>1 DEF TypeInv
  <1> QED BY <1>1, <1>7, <1>8 DEF TypeInv

\* Every step keeps the invariant.
LEMMA TypeStep ==
    ASSUME TypeInv, [Next]_vars
    PROVE  TypeInv'
  <1>1. CASE UNCHANGED vars
    BY <1>1 DEF vars, TypeInv
  <1>2. CASE Next
    BY <1>2, TypeLoadPage, TypeLogin, TypeSignOut, TypeCall, TypeRefreshRoute,
       TypeRefreshReturns, TypeActivate, TypeMintSession, TypeMintLinks,
       TypeEnd, TypeClose, TypeApprove, TypeTick DEF Next
  <1> QED BY <1>1, <1>2

-----------------------------------------------------------------------------
(* The marker. *)

\* A tenant cookie of an impersonated session has the marker of that impersonation
\* beside it, which lasts as long as it.
MarkedCookie(S, c, m) ==
    c # NONE /\ c.sid # NONE /\ S[c.sid].imp # NONE =>
        m # NONE /\ m.imp = S[c.sid].imp /\ c.expires <= m.expires

MarkInv == MarkedCookie(sessions, jar.refresh["tenant"], jar.marker)

LEMMA MarkInvSuffices ==
    ASSUME MarkInv
    PROVE  LiveImpersonationIsMarked
  BY DEF MarkInv, MarkedCookie, LiveImpersonationIsMarked, ReadRefreshCookie

\* Steps that leave the marker, and leave the tenant cookie, clear or blank it.
LEMMA MarkFrame ==
    ASSUME TypeInv, MarkInv, Grows(sessions, sessions'), jar'.marker = jar.marker,
           \/ jar'.refresh["tenant"] = jar.refresh["tenant"]
           \/ jar'.refresh["tenant"] = NONE
           \/ jar'.refresh["tenant"].sid = NONE
    PROVE  MarkInv'
  <1>1. CookieNames(sessions, jar.refresh["tenant"], "tenant")
    BY SessionAssumption DEF TypeInv, JarOK
  <1> QED BY <1>1 DEF MarkInv, MarkedCookie, CookieNames, Grows

LEMMA MarkUnchanged ==
    ASSUME TypeInv, MarkInv, UNCHANGED <<sessions, jar>>
    PROVE  MarkInv'
  BY DEF MarkInv, MarkedCookie

LEMMA MarkPages ==
    ASSUME TypeInv, MarkInv, NEW t \in Tabs, NEW area \in Areas, NEW hint,
           LoadPage(t, area, hint) \/ OpenLogin(t, area, hint)
    PROVE  MarkInv'
  <1>1. Grows(sessions, sessions')
    BY DEF LoadPage, OpenLogin, Grows
  <1>2. jar'.marker = jar.marker /\ jar'.refresh = jar.refresh
    BY DEF LoadPage, OpenLogin, TypeInv, JarOK, JarSet
  <1> QED BY <1>1, <1>2, MarkFrame

LEMMA MarkSignOut ==
    ASSUME TypeInv, MarkInv, NEW t \in Tabs, SignOut(t)
    PROVE  MarkInv'
  <1>1. Grows(sessions, sessions')
    BY DEF SignOut, Grows
  <1>2. jar' = [jar EXCEPT !.refresh[tabs[t].area] = NONE] /\ jar \in JarSet
    BY DEF SignOut, TypeInv, JarOK
  <1>3. /\ jar'.marker = jar.marker
        /\ jar'.refresh["tenant"] = NONE \/ jar'.refresh["tenant"] = jar.refresh["tenant"]
    BY <1>2, SessionAssumption DEF JarSet
  <1> QED BY <1>1, <1>3, MarkFrame

\* A refresh that returns blanks the cookie: it never puts a session back.
LEMMA MarkRefreshReturns ==
    ASSUME TypeInv, MarkInv, NEW t \in Tabs, RefreshReturns(t)
    PROVE  MarkInv'
  <1> DEFINE area == tabs[t].area
  <1>1. Grows(sessions, sessions') /\ jar \in JarSet
    BY DEF RefreshReturns, Grows, TypeInv, JarOK
  <1>2. CASE jar' = jar
    BY <1>1, <1>2, MarkFrame
  <1>3. CASE jar' = [jar EXCEPT !.refresh[area] = BlankCookie(area)]
    <2>1. /\ jar'.marker = jar.marker
          /\ \/ jar'.refresh["tenant"] = jar.refresh["tenant"]
             \/ jar'.refresh["tenant"] = BlankCookie(area)
      BY <1>1, <1>3, SessionAssumption DEF JarSet
    <2>2. BlankCookie(area).sid = NONE
      BY DEF BlankCookie, Cookie
    <2> QED BY <1>1, <2>1, <2>2, MarkFrame
  <1> QED BY <1>2, <1>3 DEF RefreshReturns

LEMMA MarkLogin ==
    ASSUME TypeInv, MarkInv, NEW t \in Tabs, NEW area \in Areas, Login(t, area)
    PROVE  MarkInv'
  <1> DEFINE row == NewSession(area, IF area = "platform" THEN NONE ELSE jar.slug, NONE)
             cookie == Cookie(NextSession, area)
  <1>1. /\ FreeSessions # {}
        /\ sessions' = [sessions EXCEPT ![NextSession] = row]
        /\ jar' = [jar EXCEPT !.refresh[area] = cookie]
    BY DEF Login
  <1>2. row \in SessionRow /\ row.imp = NONE /\ (row.area = "platform" => row.tenant = NONE)
    <2> DEFINE tenant == IF area = "platform" THEN NONE ELSE jar.slug
    <2>1. tenant \in Tenants \cup {NONE} /\ now \in Nat
      BY DEF TypeInv, JarOK, JarSet
    <2> QED BY <2>1, NewSessionIsRow
  <1>3. cookie.sid = NextSession
    BY DEF Cookie
  <1> HIDE DEF row, cookie
  <1>4. Grows(sessions, sessions') /\ sessions'[NextSession].imp = NONE
    BY <1>1, <1>2, StoredRow
  <1>5. /\ jar'.marker = jar.marker
        /\ jar'.refresh["tenant"] = cookie \/ jar'.refresh["tenant"] = jar.refresh["tenant"]
    BY <1>1, SessionAssumption DEF TypeInv, JarOK, JarSet
  <1>6. CASE jar'.refresh["tenant"] = jar.refresh["tenant"]
    BY <1>4, <1>5, <1>6, MarkFrame
  <1>7. CASE jar'.refresh["tenant"] = cookie
    BY <1>3, <1>4, <1>7 DEF MarkInv, MarkedCookie
  <1> QED BY <1>5, <1>6, <1>7

LEMMA MarkMintSession ==
    ASSUME TypeInv, MarkInv, NEW i \in Impersonations, MintSession(i)
    PROVE  MarkInv'
  <1> DEFINE row == NewSession("tenant", ImpTenant[i], i)
  <1>1. /\ FreeSessions # {}
        /\ sessions' = [sessions EXCEPT ![NextSession] = row]
        /\ UNCHANGED jar
    BY DEF MintSession
  <1>2. row \in SessionRow /\ row.area = "tenant"
    BY NewSessionIsRow, SessionAssumption DEF TypeInv
  <1> HIDE DEF row
  <1>3. Grows(sessions, sessions')
    BY <1>1, <1>2, StoredRow
  <1> QED BY <1>1, <1>3, MarkFrame

\* The mint's answer: cookie and marker are set together, for as long.
LEMMA MarkMintLinks ==
    ASSUME TypeInv, MarkInv, NEW i \in Impersonations, MintLinks(i)
    PROVE  MarkInv'
  <1> DEFINE cookie == Cookie(mints[i].sid, "tenant")
             marker == Marker(i)
  <1>1. /\ mints[i].step = "stored"
        /\ sessions' = sessions
        /\ \/ jar' = jar
           \/ jar' = [jar EXCEPT !.refresh["tenant"] = cookie, !.slug = ImpTenant[i],
                                 !.marker = marker]
    BY DEF MintLinks
  <1>2. sessions[mints[i].sid].imp = i
    BY <1>1 DEF TypeInv, MintOK
  <1>3. /\ cookie.sid = mints[i].sid
        /\ cookie.expires = now + TenantTtl
        /\ marker.imp = i
        /\ marker.expires = now + TenantTtl
        /\ marker \in MarkerSet
        /\ now + TenantTtl \in Nat
    BY SessionAssumption DEF TypeInv, Cookie, Marker, MarkerSet, RefreshMaxAge
  <1> HIDE DEF cookie, marker
  <1>4. CASE jar' = jar
    BY <1>1, <1>4, MarkUnchanged
  <1>5. CASE jar' = [jar EXCEPT !.refresh["tenant"] = cookie, !.slug = ImpTenant[i],
                                !.marker = marker]
    <2>1. jar'.marker = marker /\ jar'.refresh["tenant"] = cookie
      BY <1>5, SessionAssumption DEF TypeInv, JarOK, JarSet
    <2>2. marker # NONE
      BY <1>3, NoMarkerAssumption
    <2>3. MarkedCookie(sessions, cookie, marker)
      BY <1>2, <1>3, <2>2 DEF MarkedCookie
    <2> QED BY <1>1, <2>1, <2>3 DEF MarkInv
  <1> QED BY <1>1, <1>4, <1>5

LEMMA MarkEndReturns ==
    ASSUME TypeInv, MarkInv, NEW t \in Tabs, EndReturns(t)
    PROVE  MarkInv'
  <1>1. jar'.refresh["tenant"] = NONE
    BY SessionAssumption DEF EndReturns, TypeInv, JarOK, JarSet
  <1> QED BY <1>1 DEF MarkInv, MarkedCookie

\* The clock: the browser drops the cookie no later than the marker.
LEMMA MarkTick ==
    ASSUME TypeInv, MarkInv, Tick
    PROVE  MarkInv'
  <1> DEFINE c == jar.refresh["tenant"]
             m == jar.marker
  <1>1. /\ jar' = Aged(jar, now + 1)
        /\ sessions' = sessions
    BY DEF Tick
  <1>2. jar \in JarSet /\ now \in Nat /\ "tenant" \in Areas
    BY SessionAssumption DEF TypeInv, JarOK
  <1>3. jar'.refresh["tenant"] = IF c # NONE /\ c.expires <= now + 1 THEN NONE ELSE c
    BY <1>1, <1>2 DEF Aged, JarSet
  <1>4. jar'.marker = IF m # NONE /\ m.expires <= now + 1 THEN NONE ELSE m
    BY <1>1, <1>2 DEF Aged, JarSet
  <1>5. /\ c # NONE => c.expires \in Nat
        /\ m # NONE => m.expires \in Nat
    BY <1>2 DEF JarSet, MarkerSet, CookieSet
  <1> QED BY <1>1, <1>2, <1>3, <1>4, <1>5 DEF MarkInv, MarkedCookie

\* Every step keeps the marker beside its cookie.
LEMMA MarkStep ==
    ASSUME TypeInv, MarkInv, [Next]_vars
    PROVE  MarkInv'
  <1>1. CASE UNCHANGED vars
    BY <1>1, MarkUnchanged DEF vars
  <1>2. ASSUME NEW t \in Tabs, RefreshRoute(t) \/ EndImpersonation(t)
        PROVE  MarkInv'
    BY <1>2, MarkUnchanged DEF RefreshRoute, EndImpersonation
  <1>3. ASSUME NEW t \in Tabs, NEW r \in Requests,
               Call(t, r) \/ Meets401(t, r) \/ Retry(t, r)
        PROVE  MarkInv'
    BY <1>3, MarkUnchanged DEF Call, Meets401, Retry
  <1>4. ASSUME NEW t \in Tabs, NEW i \in Impersonations, Activate(t, i)
        PROVE  MarkInv'
    BY <1>4, MarkUnchanged DEF Activate
  <1>5. ASSUME NEW i \in Impersonations, ApproveImpersonation(i) \/ CloseCommits(i)
        PROVE  MarkInv'
    BY <1>5, MarkUnchanged DEF ApproveImpersonation, CloseCommits
  <1>6. ASSUME NEW i \in Impersonations, CloseBegins(i)
        PROVE  MarkInv'
    <2>1. Grows(sessions, sessions')
      BY <1>6, CloseKeepsRows
    <2>2. jar' = jar
      BY <1>6 DEF CloseBegins
    <2> QED BY <2>1, <2>2, MarkFrame
  <1>7. CASE Next
    BY <1>2, <1>3, <1>4, <1>5, <1>6, <1>7, MarkPages, MarkSignOut, MarkRefreshReturns,
       MarkLogin, MarkMintSession, MarkMintLinks, MarkEndReturns, MarkTick DEF Next
  <1> QED BY <1>1, <1>7

\* And it holds at first.
LEMMA InitHolds ==
    ASSUME Init
    PROVE  TypeInv /\ DeadInv /\ MarkInv
  <1>1. "platform" \in Areas
    BY SessionAssumption
  <1>2. RowsOK(sessions)
    BY DEF Init, RowsOK
  <1>3. /\ imps \in [Impersonations -> ImpSet]
        /\ mints \in [Impersonations -> MintSet]
        /\ \A i \in Impersonations : mints[i].step = "none"
    BY DEF Init, ImpSet, MintSet, NotMinting, Shadow
  <1>4. JarOK(sessions, jar)
    BY DEF Init, JarOK, JarSet, CookieNames
  <1>5. \A t \in Tabs : TabOK(sessions, tabs[t])
    BY <1>1, LoginPageOK DEF Init
  <1>6. tabs \in [Tabs -> TabSet]
    BY <1>5 DEF Init, TabOK
  <1>7. TypeInv
    BY <1>2, <1>3, <1>4, <1>5, <1>6 DEF Init, TypeInv, MintOK
  <1>8. DeadInv
    BY <1>3 DEF Init, DeadInv, MintsAreNoted, SessionsAreLinked, BegunIsDead
  <1>10. MarkInv
    BY SessionAssumption DEF Init, MarkInv, MarkedCookie
  <1> QED BY <1>7, <1>8, <1>10

\* The three invariants together.
LEMMA InvariantHolds == Spec => [](TypeInv /\ DeadInv /\ MarkInv)
  <1>1. Init => TypeInv /\ DeadInv /\ MarkInv
    BY InitHolds
  <1>2. TypeInv /\ DeadInv /\ MarkInv /\ [Next]_vars => (TypeInv /\ DeadInv /\ MarkInv)'
    BY TypeInvSuffices, TypeStep, DeadStep, MarkStep
  <1> QED BY <1>1, <1>2, PTL DEF Spec

\* Every variable keeps its shape, and every token and cookie names a session row
\* that the API created: for any number of tabs, tenants and impersonations.
THEOREM SessionTypes == Spec => []TypeOK
  <1>1. TypeInv /\ DeadInv /\ MarkInv => TypeOK
    BY TypeInvSuffices
  <1> QED BY <1>1, InvariantHolds, PTL

\* A page's calls are carried out in the tenant it shows and by a session of its
\* area, whichever cookies the other tabs have set meanwhile.
THEOREM PagesStayInTenant == Spec => []CallsStayInTenant
  <1>1. TypeInv /\ DeadInv /\ MarkInv => CallsStayInTenant
    BY TypeInvSuffices
  <1> QED BY <1>1, InvariantHolds, PTL

\* end and revoke, which commit in the tenant's schema first and in the platform's
\* later, leave no session of the impersonation unrevoked, except when a
\* mint_tenant_token was under way as they began or was begun before they committed.
THEOREM EndedIsDead == Spec => []EndedImpersonationIsDead
  <1>1. TypeInv /\ DeadInv /\ MarkInv => EndedImpersonationIsDead
    BY DeadInvSuffices
  <1> QED BY <1>1, InvariantHolds, PTL

\* While the tenant cookie opens an impersonated session the marker of that very
\* impersonation is beside it: neither the clock nor any tab's refresh, login,
\* sign-out or end takes the one and leaves the other.
THEOREM ImpersonationIsMarked == Spec => []LiveImpersonationIsMarked
  <1>1. TypeInv /\ DeadInv /\ MarkInv => LiveImpersonationIsMarked
    BY MarkInvSuffices
  <1> QED BY <1>1, InvariantHolds, PTL

\* However many calls of a page await its refresh, each of them goes on when it
\* returns: none waits for a refresh that is not under way.
THEOREM NobodyStranded == Spec => []NoCallIsStranded
  <1>1. TypeInv /\ DeadInv /\ MarkInv => NoCallIsStranded
    BY TypeInvSuffices
  <1> QED BY <1>1, InvariantHolds, PTL

==============================================================================
