------------------------------ MODULE Sessions ------------------------------
(***************************************************************************)
(* The sessions of one user: session.go and handler_session.go over the    *)
(* session table, the signed cookie cache, and the admin plugin's bans and *)
(* impersonation.  Requests sign in, resolve sessions and revoke them,     *)
(* administrators ban and impersonate; one database call is one step and a *)
(* request may stop between any two.                                       *)
(*                                                                         *)
(* A tick of the clock is longer than the second of tolerance of           *)
(* sessionRefreshable, and expiresAt and createdAt of a new session are    *)
(* read within one tick.  The clock starts at 1: 0 is the zero time.  A    *)
(* client may present any token and any cache cookie it was ever given.    *)
(***************************************************************************)
EXTENDS Naturals, FiniteSets

CONSTANTS
  Requests,               \* concurrently running requests
  Tokens,                 \* session tokens that may be generated
  Configs,                \* configurations: subsets of {"guards", "cache", "stale"}
  ExpiresIn, UpdateAge,   \* Session.ExpiresIn, Session.UpdateAge
  ImpersonationSessionDuration,
  CacheMaxAge,            \* Session.CookieCache.MaxAge
  BanDurations,           \* durations of bans; 0 is a ban without an expiry
  MaxLatency,             \* how many ticks a request may run for
  MaxTime                 \* bound on the clock

ASSUME SessionsAssumption ==
  /\ Configs \subseteq SUBSET {"guards", "cache", "stale"}
  /\ ExpiresIn \in Nat /\ UpdateAge \in Nat /\ UpdateAge < ExpiresIn
  /\ ImpersonationSessionDuration \in 1 .. ExpiresIn - 1
  /\ CacheMaxAge \in Nat \ {0} /\ BanDurations \subseteq Nat
  /\ MaxLatency \in Nat /\ MaxTime \in Nat \ {0}

VARIABLES
  conf,         \* session guards registered, cache enabled, AcceptStaleAuthorization
  user,         \* the user row: does it exist, banned, banExpires
  sessions,     \* the user's rows of the session table
  minted,       \* tokens generated so far
  cookies,      \* cache cookies handed to clients, still before their deadline
  pc, loc,      \* the next step of each request, and its locals
  now,          \* the clock
  gone,         \* history: when a session's row was deleted (0: it was not)
  userGone,     \* history: when the user was deleted (0: not)
  bannedSince,  \* history: when the ban in force was imposed (0: none is)
  shadowed      \* history: requests begun under the ban in force

vars == <<conf, user, sessions, minted, cookies, pc, loc, now,
          gone, userGone, bannedSince, shadowed>>
banHistory == <<bannedSince, shadowed>>

Time == 0 .. MaxTime
Row == [tok : Tokens, createdAt : Nat, expiresAt : Nat, short : BOOLEAN]
User == [exists : BOOLEAN, banned : BOOLEAN, banExpires : Nat]
Cookie == [row : Row, deadline : Nat]

\* A request's locals: when it began, the clock and the rows it has read,
\* whether they came from the cache, and the rows it is about to delete.
NoRow == [tok |-> "none", createdAt |-> 0, expiresAt |-> 0, short |-> FALSE]
NoUser == [exists |-> FALSE, banned |-> FALSE, banExpires |-> 0]
NoLocals == [began |-> 0, at |-> 0, row |-> NoRow, user |-> NoUser,
             fromCache |-> FALSE, targets |-> {}]

PCs == {"idle", "guard", "create", "impersonate", "stamp", "findUser", "expired",
        "refresh", "check", "served", "revoke", "revokeOthers", "banRevoke"}

TypeOK ==
  /\ conf \in Configs
  /\ user \in User
  /\ sessions \subseteq Row
  /\ \A a, b \in sessions : a.tok = b.tok => a = b
  /\ {row.tok : row \in sessions} \subseteq minted /\ minted \subseteq Tokens
  /\ cookies \subseteq Cookie /\ ("cache" \notin conf => cookies = {})
  /\ pc \in [Requests -> PCs]
  /\ \A r \in Requests :
       /\ loc[r].row \in Row \cup {NoRow}
       /\ loc[r].user \in User
       /\ loc[r].targets \subseteq Tokens
       /\ {loc[r].began, loc[r].at} \subseteq Time
       /\ loc[r].fromCache \in BOOLEAN
  /\ now \in Time
  /\ gone \in [Tokens -> Time] /\ userGone \in Time
  /\ bannedSince \in Time /\ shadowed \subseteq Requests

Init ==
  /\ conf \in Configs
  /\ user = [exists |-> TRUE, banned |-> FALSE, banExpires |-> 0]
  /\ sessions = {} /\ minted = {} /\ cookies = {}
  /\ pc = [r \in Requests |-> "idle"]
  /\ loc = [r \in Requests |-> NoLocals]
  /\ now = 1
  /\ gone = [t \in Tokens |-> 0] /\ userGone = 0
  /\ bannedSince = 0 /\ shadowed = {}

Goto(r, label) == pc' = [pc EXCEPT ![r] = label]
Return(r) == Goto(r, "idle") /\ loc' = [loc EXCEPT ![r] = NoLocals]

\* A ban written as (banned, banExpires) still applies at instant t.
InForce(u, t) == u.banned /\ (u.banExpires = 0 \/ u.banExpires >= t)

\* A request begins: it is noted whether that is under the ban in force.
Begin(r) ==
  /\ pc[r] = "idle"
  /\ shadowed' = IF InForce(user, now) THEN shadowed \cup {r} ELSE shadowed \ {r}

\* The history of a write that leaves the user row as u.
UserWritten(u) ==
  /\ user' = u
  /\ bannedSince' = IF ~InForce(u, now) THEN 0
                    ELSE IF InForce(user, now) THEN bannedSince ELSE now
  /\ shadowed' = IF InForce(u, now) THEN shadowed ELSE {}

Delete(toks) ==
  /\ sessions' = {row \in sessions : row.tok \notin toks}
  /\ gone' = [t \in Tokens |->
                IF t \in toks /\ \E row \in sessions : row.tok = t THEN now ELSE gone[t]]

AllTokens == {row.tok : row \in sessions}

-----------------------------------------------------------------------------
(* Guards *)

\* isBanned on the user row a request has read (bans exist only where the
\* admin plugin, the guard, is registered): a ban in force ends the request,
\* one that has run out is lifted by a write to the row as it is now.
Guarded(r, next) ==
  LET u == loc[r].user
      lifted == [user EXCEPT !.banned = FALSE, !.banExpires = 0] IN
  \/ /\ InForce(u, now)
     /\ Return(r)
     /\ UNCHANGED <<user, banHistory>>
  \/ /\ ~u.banned
     /\ Goto(r, next) /\ loc' = [loc EXCEPT ![r].user = NoUser, ![r].at = 0]
     /\ UNCHANGED <<user, banHistory>>
  \/ /\ u.banned /\ ~InForce(u, now)
     /\ UserWritten(IF user.exists THEN lifted ELSE user)
     /\ Goto(r, next) /\ loc' = [loc EXCEPT ![r].user = NoUser, ![r].at = 0]

\* Mutant: the cache is consulted although a guard is registered.
CacheConsultedBlind == "cache" \in conf

\* The cookie cache is only consulted when no plugin can revoke access per
\* request, or when the application accepts stale authorization.
CacheConsulted == "cache" \in conf /\ ("guards" \notin conf \/ "stale" \in conf)

-----------------------------------------------------------------------------
(* Signing in *)

\* A sign-in path has verified its credential and read the user.
SignInUser(r) ==
  /\ pc[r] = "idle"
  /\ user.exists
  /\ Goto(r, "guard")
  /\ loc' = [loc EXCEPT ![r] = [NoLocals EXCEPT !.began = now, !.user = user]]
  /\ UNCHANGED <<conf, user, sessions, minted, cookies, now, gone, userGone, banHistory>>

\* Mutant: a sign-in path that does not run the guards.
BeforeSignInSkipped(r) ==
  /\ pc[r] = "guard"
  /\ Goto(r, "create") /\ loc' = [loc EXCEPT ![r].user = NoUser]
  /\ UNCHANGED <<conf, user, sessions, minted, cookies, now, gone, userGone, banHistory>>

BeforeSignIn(r) ==
  /\ pc[r] = "guard"
  /\ Guarded(r, "create")
  /\ UNCHANGED <<conf, sessions, minted, cookies, now, gone, userGone>>

\* handleImpersonate reads the target and runs no sign-in guard.
Impersonate(r) ==
  /\ pc[r] = "idle"
  /\ "guards" \in conf
  /\ user.exists
  /\ Goto(r, "impersonate")
  /\ loc' = [loc EXCEPT ![r] = [NoLocals EXCEPT !.began = now]]
  /\ UNCHANGED <<conf, user, sessions, minted, cookies, now, gone, userGone, banHistory>>

\* createSessionWithDuration up to the insert.  Whether the insert fails when
\* the user was deleted in between depends on the adapter (Abandon).
CreateSession(r) ==
  LET short == pc[r] = "impersonate"
      duration == IF short THEN ImpersonationSessionDuration ELSE ExpiresIn IN
  /\ pc[r] \in {"create", "impersonate"}
  /\ \E t \in Tokens \ minted :
       LET row == [tok |-> t, createdAt |-> now, expiresAt |-> now + duration,
                   short |-> short] IN
       /\ sessions' = sessions \cup {row}
       /\ minted' = minted \cup {t}
       /\ loc' = [loc EXCEPT ![r].row = row]
  /\ Goto(r, "stamp")
  /\ UNCHANGED <<conf, user, cookies, now, gone, userGone, banHistory>>

\* Mutant: the deadline is renewed from cached data.
SetCookieCacheAlways(r) ==
  /\ pc[r] \in {"stamp", "served"}
  /\ cookies' = IF "cache" \in conf
                THEN cookies \cup {[row |-> loc[r].row, deadline |-> now + CacheMaxAge]}
                ELSE cookies
  /\ Return(r)
  /\ UNCHANGED <<conf, user, sessions, minted, now, gone, userGone, banHistory>>

\* Mutant: the cookie is written although the cache is disabled.
SetCookieCacheUnasked(r) ==
  /\ pc[r] \in {"stamp", "served"}
  /\ cookies' = cookies \cup {[row |-> loc[r].row, deadline |-> now + CacheMaxAge]}
  /\ Return(r)
  /\ UNCHANGED <<conf, user, sessions, minted, now, gone, userGone, banHistory>>

\* setCookieCache, at the end of createSessionWithDuration and of
\* handleGetSession: only database-backed data gets a new deadline.
SetCookieCache(r) ==
  /\ pc[r] \in {"stamp", "served"}
  /\ cookies' = IF "cache" \in conf /\ ~loc[r].fromCache
                THEN cookies \cup {[row |-> loc[r].row, deadline |-> now + CacheMaxAge]}
                ELSE cookies
  /\ Return(r)
  /\ UNCHANGED <<conf, user, sessions, minted, now, gone, userGone, banHistory>>

-----------------------------------------------------------------------------
(* Resolving a session *)

\* GetSession served from the cookie.  The guards run on the cached user,
\* which has no ban columns (they are not among the core columns), and pass.
GetSessionCached(r) ==
  /\ CacheConsulted
  /\ Begin(r)
  /\ \E c \in cookies :
       /\ now < c.deadline
       /\ c.row.expiresAt > now
       /\ loc' = [loc EXCEPT ![r] = [NoLocals EXCEPT !.began = now, !.row = c.row,
                                                     !.fromCache = TRUE]]
  /\ Goto(r, "served")
  /\ UNCHANGED <<conf, user, sessions, minted, cookies, now, gone, userGone,
                 bannedSince>>

\* GetSessionFromToken, first call: an expired row is deleted next.
FindSessionByToken(r) ==
  /\ Begin(r)
  /\ \E row \in sessions :
       /\ Goto(r, IF row.expiresAt > now THEN "findUser" ELSE "expired")
       /\ loc' = [loc EXCEPT ![r] = [NoLocals EXCEPT !.began = now, !.at = now, !.row = row]]
  /\ UNCHANGED <<conf, user, sessions, minted, cookies, now, gone, userGone,
                 bannedSince>>

DeleteExpired(r) ==
  /\ pc[r] = "expired"
  /\ Delete({loc[r].row.tok})
  /\ Return(r)
  /\ UNCHANGED <<conf, user, minted, cookies, now, userGone, banHistory>>

\* Mutant: overdue is computed as if every session had the default lifetime.
SessionRefreshableAlways(row) == TRUE

\* Sessions created with a shorter lifetime keep their expiry.
SessionRefreshable(row) == row.expiresAt >= row.createdAt + ExpiresIn

RefreshDue(r) ==
  LET row == loc[r].row IN
  SessionRefreshable(row) /\ loc[r].at + ExpiresIn > row.expiresAt + UpdateAge

FindUserByID(r) ==
  /\ pc[r] = "findUser"
  /\ \/ ~user.exists /\ Return(r)
     \/ /\ user.exists
        /\ Goto(r, IF RefreshDue(r) THEN "refresh" ELSE "check")
        /\ loc' = [loc EXCEPT ![r].user = user]
  /\ UNCHANGED <<conf, user, sessions, minted, cookies, now, gone, userGone, banHistory>>

\* Sliding expiration.  When the row is gone or the write fails the request
\* goes on with the row it read.
UpdateSession(r) ==
  /\ pc[r] = "refresh"
  /\ Goto(r, "check")
  /\ \/ \E row \in sessions :
          LET updated == [row EXCEPT !.expiresAt = loc[r].at + ExpiresIn] IN
          /\ row.tok = loc[r].row.tok
          /\ sessions' = (sessions \ {row}) \cup {updated}
          /\ loc' = [loc EXCEPT ![r].row = updated]
     \/ UNCHANGED <<sessions, loc>>
  /\ UNCHANGED <<conf, user, minted, cookies, now, gone, userGone, banHistory>>

CheckSession(r) ==
  /\ pc[r] = "check"
  /\ Guarded(r, "served")
  /\ UNCHANGED <<conf, sessions, minted, cookies, now, gone, userGone>>

-----------------------------------------------------------------------------
(* Revoking *)

\* handleSignOut deletes the row of the token it is given, whether or not the
\* session resolved.
SignOut(r) ==
  /\ pc[r] \in {"idle", "served"}
  /\ \E t \in minted : /\ pc[r] = "served" => t = loc[r].row.tok
                       /\ Delete({t})
  /\ Return(r)
  /\ UNCHANGED <<conf, user, minted, cookies, now, userGone, banHistory>>

\* handleRevokeSession: find the target, then delete it.
FindTarget(r) ==
  /\ pc[r] = "served"
  /\ \E row \in sessions : loc' = [loc EXCEPT ![r].targets = {row.tok}]
  /\ Goto(r, "revoke")
  /\ UNCHANGED <<conf, user, sessions, minted, cookies, now, gone, userGone, banHistory>>

RevokeSession(r) ==
  /\ pc[r] = "revoke"
  /\ Delete(loc[r].targets)
  /\ Return(r)
  /\ UNCHANGED <<conf, user, minted, cookies, now, userGone, banHistory>>

RevokeSessions(r) ==
  /\ pc[r] = "served"
  /\ Delete(AllTokens)
  /\ Return(r)
  /\ UNCHANGED <<conf, user, minted, cookies, now, userGone, banHistory>>

\* handleRevokeOtherSessions (and revokeOtherSessions of a password change):
\* list, then delete one by one; a delete that fails is passed over.
ListOtherSessions(r) ==
  /\ pc[r] = "served"
  /\ loc' = [loc EXCEPT ![r].targets = AllTokens \ {loc[r].row.tok}]
  /\ Goto(r, "revokeOthers")
  /\ UNCHANGED <<conf, user, sessions, minted, cookies, now, gone, userGone, banHistory>>

RevokeOtherSession(r) ==
  /\ pc[r] = "revokeOthers"
  /\ \E t \in loc[r].targets :
       /\ loc' = [loc EXCEPT ![r].targets = @ \ {t}]
       /\ Delete({t}) \/ UNCHANGED <<sessions, gone>>
  /\ UNCHANGED <<conf, user, minted, cookies, pc, now, userGone, banHistory>>

\* handleStopImpersonating: the session it hands the administrator is not
\* one of this user's.
StopImpersonating(r) ==
  /\ pc[r] = "served"
  /\ loc[r].row.short
  /\ Delete({loc[r].row.tok})
  /\ Return(r)
  /\ UNCHANGED <<conf, user, minted, cookies, now, userGone, banHistory>>

-----------------------------------------------------------------------------
(* Administrators, housekeeping, time *)

\* handleBanUser: a ban without an expiry leaves the banExpires column alone.
BanUser(r, d) ==
  LET expires == IF d > 0 THEN now + d ELSE user.banExpires IN
  /\ pc[r] = "idle"
  /\ "guards" \in conf
  /\ user.exists
  /\ UserWritten([user EXCEPT !.banned = TRUE, !.banExpires = expires])
  /\ Goto(r, "banRevoke")
  /\ loc' = [loc EXCEPT ![r].began = now]
  /\ UNCHANGED <<conf, sessions, minted, cookies, now, gone, userGone>>

BanRevoke(r) ==
  /\ pc[r] = "banRevoke"
  /\ Delete(AllTokens)
  /\ Return(r)
  /\ UNCHANGED <<conf, user, minted, cookies, now, userGone, banHistory>>

UnbanUser ==
  /\ "guards" \in conf
  /\ user.exists
  /\ UserWritten([user EXCEPT !.banned = FALSE, !.banExpires = 0])
  /\ UNCHANGED <<conf, sessions, minted, cookies, pc, loc, now, gone, userGone>>

\* handleRevokeUserSession and handleRevokeUserSessions.
AdminRevoke ==
  /\ "guards" \in conf
  /\ \/ \E t \in minted : Delete({t})
     \/ Delete(AllTokens)
  /\ UNCHANGED <<conf, user, minted, cookies, pc, loc, now, userGone, banHistory>>

\* DeleteUser, one transaction, at the user's request or an administrator's.
DeleteUser ==
  /\ user.exists
  /\ UserWritten(NoUser)
  /\ Delete(AllTokens)
  /\ userGone' = now
  /\ UNCHANGED <<conf, minted, cookies, pc, loc, now>>

\* handleRemoveUser of the admin plugin.
RemoveUser == "guards" \in conf /\ DeleteUser

\* The session half of CleanupExpired.
CleanupExpired ==
  /\ \E row \in sessions : row.expiresAt <= now
  /\ Delete({row.tok : row \in {x \in sessions : x.expiresAt <= now}})
  /\ UNCHANGED <<conf, user, minted, cookies, pc, loc, now, userGone, banHistory>>

\* Any other handler ends, a call fails or the process dies between two calls.
Abandon(r) ==
  /\ pc[r] # "idle"
  /\ Return(r)
  /\ UNCHANGED <<conf, user, sessions, minted, cookies, now, gone, userGone, banHistory>>

\* Requests run for at most MaxLatency ticks.  A cookie past its deadline is
\* never accepted again and is forgotten.
Tick ==
  /\ now < MaxTime
  /\ \A r \in Requests : pc[r] # "idle" => now < loc[r].began + MaxLatency
  /\ now' = now + 1
  /\ cookies' = {c \in cookies : c.deadline > now + 1}
  /\ bannedSince' = IF InForce(user, now + 1) THEN bannedSince ELSE 0
  /\ shadowed' = IF InForce(user, now + 1) THEN shadowed ELSE {}
  /\ UNCHANGED <<conf, user, sessions, minted, pc, loc, gone, userGone>>

SignIn(r) ==
  SignInUser(r) \/ BeforeSignIn(r) \/ Impersonate(r) \/ CreateSession(r) \/ SetCookieCache(r)

Resolve(r) ==
  \/ GetSessionCached(r) \/ FindSessionByToken(r) \/ DeleteExpired(r)
  \/ FindUserByID(r) \/ UpdateSession(r) \/ CheckSession(r)

Revoke(r) ==
  \/ SignOut(r) \/ FindTarget(r) \/ RevokeSession(r) \/ RevokeSessions(r)
  \/ ListOtherSessions(r) \/ RevokeOtherSession(r) \/ StopImpersonating(r)
  \/ BanRevoke(r) \/ \E d \in BanDurations : BanUser(r, d)

Next ==
  \/ \E r \in Requests : SignIn(r) \/ Resolve(r) \/ Revoke(r) \/ Abandon(r)
  \/ UnbanUser \/ AdminRevoke \/ RemoveUser \/ DeleteUser
  \/ CleanupExpired
  \/ Tick

Spec == Init /\ [][Next]_vars

-----------------------------------------------------------------------------
(* Properties *)

\* The step in which a request is told its session is valid.
Accepted(r) == pc[r] # "served" /\ pc'[r] = "served"

\* The cache deadline "is never extended on a cache hit": a session that was
\* deleted, or whose user was, is served for less than CacheMaxAge after the
\* last request that read it before, however often the client polls; and a
\* request begun after the deletion is served by the cookie or not at all,
\* although refreshes of the same row were under way.
RevocationBounded ==
  [][\A r \in Requests : Accepted(r) =>
       LET t == loc'[r].row.tok
           Bounded(deleted) ==
             deleted # 0 => /\ now < deleted + MaxLatency + CacheMaxAge
                            /\ loc'[r].began > deleted => loc'[r].fromCache
       IN  Bounded(gone[t]) /\ Bounded(userGone)]_vars

\* A session minted for a custom, shorter duration is fixed-expiry: however
\* it is polled, refreshed and cached, nobody is served under an impersonation
\* once its duration (and the request that saw its last instant) is over.
ImpersonationBounded ==
  [][\A r \in Requests : Accepted(r) /\ loc'[r].row.short =>
       now < loc'[r].row.createdAt + ImpersonationSessionDuration + MaxLatency]_vars

\* Banning "takes effect on the next request": a request begun under a ban in
\* the user row that stays there is not served, also when its session was
\* created by a sign-in that passed its guard before the ban, or refreshed.
BanEffective ==
  [][\A r \in Requests : Accepted(r) /\ "stale" \notin conf => r \notin shadowed']_vars

\* With AcceptStaleAuthorization bans "take up to MaxAge to take effect": past
\* that (and the requests under way at the ban) no session the user signed in
\* to is served.
StaleBanBounded ==
  [][\A r \in Requests :
       Accepted(r) /\ ~loc'[r].row.short /\ bannedSince' # 0 =>
         now < bannedSince' + MaxLatency + CacheMaxAge]_vars
=============================================================================
