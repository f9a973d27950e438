------------------------------ MODULE Sessions ------------------------------
(***************************************************************************)
(* A browser's session: the cookies of lib/cookies.ts, the token pair of   *)
(* lib/jwt.ts, login, renewal and logout (auth/rauthy.ts, auth/refresh.ts, *)
(* auth/logout.ts), and the page's client (frontend/src/lib/api.ts).       *)
(*                                                                         *)
(* The application stores nothing.  The access token asserts what the      *)
(* authority said when it was minted; the session envelope carries the     *)
(* authority's refresh token, which it may rotate on use and does not      *)
(* honour before `nbf`.  Responses to requests of several loaders and tabs *)
(* reach the one cookie jar in any order, late, or not at all.             *)
(*                                                                         *)
(* Time is a count of ticks, far longer than what a handler computes       *)
(* without waiting for the authority; the minute between `nbf` and the end *)
(* of the authority's token is below a tick.                               *)
(***************************************************************************)
EXTENDS Integers, FiniteSets

CONSTANTS
    Loaders,      \* calls of the page that may run at once
    Users,
    None,         \* no cookie, no token, never
    CookieAge,    \* ACCESS_TOKEN_MAX_AGE, in ticks
    OwnTtl,       \* DEFAULT_ACCESS_TTL_SECONDS, in ticks
    SessionAge,   \* SESSION_TTL_SECONDS, in ticks
    Lifetime,     \* access_token_lifetime of the authority, in ticks
    Layouts,      \* in which tab each loader may run
    MaxTime,      \* bound on ticks
    MaxTokens,    \* bound on refresh tokens issued
    MaxFaults     \* bound on refusals for no reason and lost responses

VARIABLES
    authority,  \* whether it rotates refresh tokens, and gives them at all
    tab,        \* the tab each loader runs in
    now,
    jar,        \* the browser's cookies
    tokens,     \* refresh tokens the authority honours
    issued,     \* how many it has issued
    ends,       \* per user, when the role and the account were taken away, or None
    req,        \* per loader, where its request is and what it carries
    faults

vars == <<authority, tab, now, jar, tokens, issued, ends, req, faults>>

setting == <<authority, tab>>

EmptyJar == [access |-> None, session |-> None, hint |-> None, tx |-> None,
             csrf |-> None]

Idle == [pc |-> "idle", session |-> None, user |-> None, cookies |-> EmptyJar]

Init ==
    /\ authority \in [rotates : BOOLEAN, offline : BOOLEAN]
    /\ tab \in Layouts
    /\ now = 0 /\ jar = EmptyJar
    /\ tokens = {} /\ issued = 0
    /\ ends = [u \in Users |-> [role |-> None, account |-> None]]
    /\ req = [l \in Loaders |-> Idle]
    /\ faults = 0

Goto(l, pc) == req' = [req EXCEPT ![l].pc = pc]

Fault == faults < MaxFaults /\ faults' = faults + 1

-----------------------------------------------------------------------------
(* Cookies and tokens. *)

(* The auth handler: the cookie is there and its token has not expired. *)
Authenticated == jar.access # None

(* Variant: a session keeps the role it began with. *)
RoleCarried(user) == ends[user].role = None \/ jar.session # None

RoleHeld(user) == ends[user].role = None

Ttl == Lifetime

(* issueTokenPair and setAuthCookies: what the authority says now; the access
   cookie's age counts from its arrival. *)
Pair(user, token) ==
    [EmptyJar EXCEPT
        !.access = [user |-> user, admin |-> RoleHeld(user), exp |-> now + Ttl,
                    till |-> None],
        !.session = [user |-> user, token |-> token, exp |-> now + SessionAge]]

(* A refresh token of the authority, which gives one only for offline access. *)
NewToken(user) ==
    /\ issued < MaxTokens /\ issued' = issued + 1
    /\ tokens' = tokens \cup {[id |-> issued + 1, user |-> user,
                               nbf |-> now + Lifetime]}

-----------------------------------------------------------------------------
(* Renewal. *)

(* The page's call is answered 401; it asks for a renewal unless its tab is
   having one, whose outcome it then shares. *)
Challenged(l) ==
    /\ req[l].pc = "idle" /\ ~Authenticated
    /\ Goto(l, "renew")
    /\ UNCHANGED <<setting, now, jar, tokens, issued, ends, faults>>

Renewing(l) == req[l].pc \in {"grant", "userinfo", "minted", "denied"}

Shared(l) == \E k \in Loaders : tab[k] = tab[l] /\ Renewing(k)

Share(l) ==
    /\ req[l].pc = "renew" /\ Shared(l)
    /\ req' = [req EXCEPT ![l] = Idle]
    /\ UNCHANGED <<setting, now, jar, tokens, issued, ends, faults>>

(* POST /auth/refresh: the envelope presented, if it is there and verifies. *)
Refresh(l) ==
    /\ req[l].pc = "renew" /\ ~Shared(l)
    /\ req' = [req EXCEPT ![l] =
                 IF jar.session # None
                 THEN [Idle EXCEPT !.pc = "grant", !.session = jar.session]
                 ELSE [Idle EXCEPT !.pc = "denied"]]
    /\ UNCHANGED <<setting, now, jar, tokens, issued, ends, faults>>

Deny(l) == req' = [req EXCEPT ![l] = [Idle EXCEPT !.pc = "denied"]]

(* The authority's answer to a refresh token. *)
Honoured(k, session) ==
    k.id = session.token /\ k.nbf <= now /\ ends[k.user].account = None

(* refreshTokenGrant: the next envelope holds the new token, if there is one. *)
Grant(l) ==
    /\ req[l].pc = "grant"
    /\ \/ \E k \in tokens :
             /\ Honoured(k, req[l].session)
             /\ req' = [req EXCEPT ![l].pc = "userinfo",
                          ![l].session.token = IF authority.rotates
                                               THEN issued + 1 ELSE @]
             /\ IF authority.rotates
                THEN /\ issued < MaxTokens /\ issued' = issued + 1
                     /\ tokens' = (tokens \ {k})
                          \cup {[k EXCEPT !.id = issued + 1,
                                          !.nbf = now + Lifetime]}
                ELSE UNCHANGED <<tokens, issued>>
             /\ UNCHANGED faults
       \/ /\ \A k \in tokens : ~Honoured(k, req[l].session)
          /\ Deny(l) /\ UNCHANGED <<tokens, issued, faults>>
       \/ Fault /\ Deny(l) /\ UNCHANGED <<tokens, issued>>
    /\ UNCHANGED <<setting, now, jar, ends>>

(* fetchUserInfo about the pinned subject: the claims of today, or a refusal
   after the token was spent. *)
Userinfo(l) ==
    /\ req[l].pc = "userinfo"
    /\ LET s == req[l].session
       IN  \/ /\ ends[s.user].account = None
              /\ req' = [req EXCEPT ![l] =
                   [Idle EXCEPT !.pc = "minted", !.cookies = Pair(s.user, s.token)]]
              /\ UNCHANGED faults
           \/ ends[s.user].account # None /\ Deny(l) /\ UNCHANGED faults
           \/ Fault /\ Deny(l)
    /\ UNCHANGED <<setting, now, jar, tokens, issued, ends>>

(* A token that expired on the way is of no use. *)
Live(token) == IF token.exp <= now THEN None ELSE token

(* The access cookie is kept from the moment the browser has it. *)
Kept(access) == Live([access EXCEPT !.till = now + CookieAge])

(* The answer of a renewal sets both cookies; that of a denial clears all. *)
Renewed(l) ==
    /\ req[l].pc \in {"minted", "denied"}
    /\ jar' = IF req[l].pc = "denied" THEN [EmptyJar EXCEPT !.tx = jar.tx]
              ELSE [jar EXCEPT !.access = Kept(req[l].cookies.access),
                               !.session = Live(req[l].cookies.session)]
    /\ req' = [req EXCEPT ![l] = Idle]
    /\ UNCHANGED <<setting, now, tokens, issued, ends, faults>>

(* A response never reaches the browser; the call fails. *)
Lost(l) ==
    /\ req[l].pc \in {"minted", "denied", "welcome", "bye"}
    /\ Fault
    /\ req' = [req EXCEPT ![l] = Idle]
    /\ UNCHANGED <<setting, now, jar, tokens, issued, ends>>

-----------------------------------------------------------------------------
(* Login, from a page that shows nobody signed in: the browser goes to the
   authority with one transaction for all its tabs. *)

Login(l, user) ==
    /\ req[l].pc = "idle" /\ ~Authenticated /\ ends[user].account = None
    /\ jar' = [jar EXCEPT !.tx = l]
    /\ req' = [req EXCEPT ![l] = [Idle EXCEPT !.pc = "login", !.user = user]]
    /\ UNCHANGED <<setting, now, tokens, issued, ends, faults>>

(* The cookies of a login, on their way. *)
Welcome(l, user, token) ==
    req' = [req EXCEPT ![l] =
        [Idle EXCEPT !.pc = "welcome",
                     !.cookies = [Pair(user, token) EXCEPT !.hint = user]]]

(* The callback: without this login's transaction it is an error. *)
Callback(l) ==
    /\ req[l].pc = "login"
    /\ LET user == req[l].user
       IN  IF jar.tx = l /\ ends[user].account = None
           THEN IF authority.offline
                THEN Welcome(l, user, issued + 1) /\ NewToken(user)
                ELSE Welcome(l, user, None) /\ UNCHANGED <<tokens, issued>>
           ELSE req' = [req EXCEPT ![l] = Idle] /\ UNCHANGED <<tokens, issued>>
    /\ UNCHANGED <<setting, now, jar, ends, faults>>

Welcomed(l) ==
    /\ req[l].pc = "welcome"
    /\ jar' = [req[l].cookies EXCEPT !.access = Kept(@), !.session = Live(@),
                                      !.csrf = jar.csrf]
    /\ req' = [req EXCEPT ![l] = Idle]
    /\ UNCHANGED <<setting, now, tokens, issued, ends, faults>>

-----------------------------------------------------------------------------
(* Logout: a CSRF token is fetched, the call is made with it, and the browser
   is sent to the authority with the hint. *)

FetchCsrf(l) ==
    /\ req[l].pc = "idle" /\ Authenticated
    /\ jar' = [jar EXCEPT !.csrf = l]
    /\ Goto(l, "csrf")
    /\ UNCHANGED <<setting, now, tokens, issued, ends, faults>>

(* logout, with the token it fetched: one that has been used matches no other
   call's header, and leaves the jar here. *)
Logout(l) ==
    /\ req[l].pc = "csrf"
    /\ req' = [req EXCEPT ![l] =
                 IF Authenticated /\ jar.csrf = l
                 THEN [Idle EXCEPT !.pc = "bye", !.user = jar.hint] ELSE Idle]
    /\ jar' = IF jar.csrf = l THEN [jar EXCEPT !.csrf = None] ELSE jar
    /\ UNCHANGED <<setting, now, tokens, issued, ends, faults>>

(* The cookies are cleared; what the authority does with its tokens when the
   browser arrives is its own affair. *)
LoggedOut(l) ==
    /\ req[l].pc = "bye"
    /\ jar' = [EmptyJar EXCEPT !.tx = jar.tx]
    /\ \/ UNCHANGED tokens
       \/ tokens' = {k \in tokens : k.user # req[l].user}
    /\ req' = [req EXCEPT ![l] = Idle]
    /\ UNCHANGED <<setting, now, issued, ends, faults>>

-----------------------------------------------------------------------------
(* An administrator takes the role or the account away. *)
Demote(user) ==
    /\ ends[user].role = None
    /\ ends' = [ends EXCEPT ![user].role = now]
    /\ UNCHANGED <<setting, now, jar, tokens, issued, req, faults>>

Revoke(user) ==
    /\ ends[user].account = None
    /\ ends' = [ends EXCEPT ![user].account = now]
    /\ tokens' = {k \in tokens : k.user # user}
    /\ UNCHANGED <<setting, now, jar, issued, req, faults>>

(* The browser forgets a cookie that has expired, and the application takes
   no notice of one whose token has. *)
Tick ==
    /\ now < MaxTime
    /\ now' = now + 1
    /\ jar' = [jar EXCEPT
          !.access = IF @ # None /\ (@.till <= now + 1 \/ @.exp <= now + 1) THEN None ELSE @,
          !.session = IF @ # None /\ @.exp <= now + 1 THEN None ELSE @]
    /\ UNCHANGED <<setting, tokens, issued, ends, req, faults>>

Next ==
    \/ \E l \in Loaders :
          \/ Challenged(l) \/ Share(l) \/ Refresh(l) \/ Grant(l) \/ Userinfo(l)
          \/ Renewed(l) \/ Lost(l)
          \/ \E u \in Users : Login(l, u)
          \/ Callback(l) \/ Welcomed(l) \/ FetchCsrf(l) \/ Logout(l) \/ LoggedOut(l)
    \/ \E u \in Users : Demote(u) \/ Revoke(u)
    \/ Tick

Spec == Init /\ [][Next]_vars

-----------------------------------------------------------------------------
(***************************************************************************)
(* "a role removed at the IdP takes effect within one access-token         *)
(* lifetime" (refresh.ts:14), and so does an account: whatever renewals    *)
(* were under way, in whatever order their answers arrive, the browser is  *)
(* not admitted for either any longer than that.                           *)
(***************************************************************************)
WithinOneLifetime ==
    Authenticated =>
        LET end == ends[jar.access.user]
        IN  /\ jar.access.admin /\ end.role # None =>
                  now < end.role + Lifetime
            /\ end.account # None => now < end.account + Lifetime

(* The browser has a session the authority still knows, and no access token. *)
Renewable ==
    {k \in tokens : /\ jar.session # None /\ k.id = jar.session.token
                    /\ ~Authenticated}

(***************************************************************************)
(* "Following the authority's clock is what keeps the two in step"         *)
(* (jwt.ts:47): when the browser has lost its access token, the authority  *)
(* honours its refresh token.                                              *)
(***************************************************************************)
RenewedInStep == \A k \in Renewable : k.nbf <= now
=============================================================================
