---------------------------- MODULE SessionsProofs ----------------------------
(***************************************************************************)
(* Proofs about Sessions, for any number of requests and tokens, any       *)
(* configurations, durations and latency: type correctness,                *)
(* RevocationBounded, ImpersonationBounded, BanEffective and               *)
(* StaleBanBounded.                                                        *)
(***************************************************************************)
EXTENDS Sessions, TLAPS

Locals == [began : Time, at : Time, row : Row \cup {NoRow}, user : User,
           fromCache : BOOLEAN, targets : SUBSET Tokens]

\* What history records lies in the past.
Inv_Clock ==
  /\ now >= 1
  /\ \A t \in Tokens : gone[t] <= now
  /\ userGone <= now /\ bannedSince <= now

\* An impersonation keeps the expiry it was created with.
FixedExpiry(row) == row.short => row.expiresAt = row.createdAt + ImpersonationSessionDuration

\* A token is used once: a row that is there was never deleted.
Inv_Rows ==
  /\ \A row \in sessions : gone[row.tok] = 0 /\ FixedExpiry(row)
  /\ \A t \in Tokens \ minted : gone[t] = 0

\* The history agrees with the user row.
Inv_User ==
  /\ user.exists <=> userGone = 0
  /\ ~user.exists => ~user.banned
  /\ bannedSince # 0 <=> InForce(user, now)
  /\ shadowed # {} => InForce(user, now)
  /\ "guards" \notin conf => ~user.banned

\* A cookie outlives what it certifies, which ended then, by a request and
\* the age of the cache at most.
Outlives(deadline, ended) == ended # 0 => deadline <= ended + MaxLatency + CacheMaxAge

Inv_Cookies ==
  \A c \in cookies :
    /\ c.deadline <= now + CacheMaxAge
    /\ FixedExpiry(c.row)
    /\ Outlives(c.deadline, gone[c.row.tok])
    /\ Outlives(c.deadline, userGone)
    /\ ~c.row.short => Outlives(c.deadline, bannedSince)

\* Request r saw something that has not ended since, or not before r began.
Saw(r, ended) == ended = 0 \/ loc[r].began <= ended

\* The requests that hold a row of the table, the user's row, or the fact that
\* no ban was in force.
HoldsRow(r) == pc[r] \in {"stamp", "findUser", "refresh", "check"}
               \/ (pc[r] = "served" /\ ~loc[r].fromCache)
HoldsUser(r) == pc[r] \in {"guard", "create", "impersonate", "stamp", "refresh", "check"}
                \/ (pc[r] = "served" /\ ~loc[r].fromCache)
HoldsNoBan(r) ==
  \/ pc[r] \in {"guard", "refresh", "check"} /\ ~loc[r].user.banned
  \/ pc[r] = "create"
  \/ /\ pc[r] = "stamp" \/ (pc[r] = "served" /\ ~loc[r].fromCache)
     /\ ~loc[r].row.short

RequestOK(r) ==
  /\ pc[r] # "idle" => loc[r].began <= now /\ now <= loc[r].began + MaxLatency
  /\ loc[r].fromCache => pc[r] \in {"served", "revoke", "revokeOthers"}
  /\ HoldsRow(r) => loc[r].row \in Row /\ Saw(r, gone[loc[r].row.tok]) /\ FixedExpiry(loc[r].row)
  /\ HoldsUser(r) => Saw(r, userGone)
  /\ HoldsNoBan(r) => Saw(r, bannedSince)
  /\ pc[r] \in {"refresh", "check"} /\ r \in shadowed => loc[r].user.banned
  /\ pc[r] \in {"findUser", "refresh", "check"} /\ loc[r].row.short =>
       loc[r].began < loc[r].row.expiresAt
  /\ pc[r] \in {"findUser", "refresh"} =>
       /\ loc[r].row.tok \in minted
       /\ \A row \in sessions : row.tok = loc[r].row.tok => row.short = loc[r].row.short
  /\ pc[r] = "refresh" => ~loc[r].row.short
  /\ pc[r] = "served" => loc[r].row \in Row

Inv_Requests == \A r \in Requests : RequestOK(r)

\* The inductive invariant.
IInv ==
  /\ TypeOK /\ loc \in [Requests -> Locals]
  /\ Inv_Clock /\ Inv_Rows /\ Inv_User /\ Inv_Cookies /\ Inv_Requests

\* What the assumption says of each constant.
LEMMA Constants ==
  /\ ExpiresIn \in Nat /\ UpdateAge \in Nat
  /\ ImpersonationSessionDuration \in Nat /\ ImpersonationSessionDuration >= 1
  /\ ImpersonationSessionDuration < ExpiresIn
  /\ CacheMaxAge \in Nat /\ CacheMaxAge >= 1
  /\ MaxLatency \in Nat /\ MaxTime \in Nat /\ MaxTime >= 1
  /\ BanDurations \subseteq Nat
BY SessionsAssumption DEF SessionsAssumption

LEMMA Numbers ==
  ASSUME IInv
  PROVE  /\ now \in Nat /\ now \in Time /\ now >= 1
         /\ userGone \in Nat /\ userGone <= now
         /\ bannedSince \in Nat /\ bannedSince <= now
         /\ \A t \in Tokens : gone[t] \in Nat /\ gone[t] <= now
         /\ \A r \in Requests : loc[r] \in Locals /\ loc[r].began \in Nat
         /\ \A c \in cookies : /\ c.row \in Row /\ c.row.tok \in Tokens /\ c.deadline \in Nat
                               /\ c.row.createdAt \in Nat /\ c.row.expiresAt \in Nat
         /\ \A row \in sessions : /\ row \in Row /\ row.tok \in minted /\ row.tok \in Tokens
                                  /\ row.createdAt \in Nat /\ row.expiresAt \in Nat
BY Constants DEF IInv, TypeOK, Inv_Clock, Locals, Time, Cookie, Row

LEMMA NoLocalsType ==
  NoLocals \in Locals /\ NoLocals.fromCache = FALSE /\ NoUser \in User
BY Constants DEF NoLocals, Locals, NoUser, NoRow, User, Time

\* Request r goes on at label with these locals, the others stay.
Moves(r, label, locals) ==
  pc' = [pc EXCEPT ![r] = label] /\ loc' = [loc EXCEPT ![r] = locals]

LEMMA MovesType ==
  ASSUME NEW r \in Requests, NEW label \in PCs, NEW locals \in Locals,
         pc \in [Requests -> PCs], loc \in [Requests -> Locals], Moves(r, label, locals)
  PROVE  /\ pc' \in [Requests -> PCs] /\ loc' \in [Requests -> Locals]
         /\ pc'[r] = label /\ loc'[r] = locals
         /\ \A q \in Requests \ {r} : pc'[q] = pc[q] /\ loc'[q] = loc[q]
<1> HIDE DEF Locals
<1> QED
  BY DEF Moves

\* The conjuncts of TypeOK that are not about the requests.
TablesOK ==
  /\ conf \in Configs /\ user \in User
  /\ sessions \subseteq Row
  /\ \A a, b \in sessions : a.tok = b.tok => a = b
  /\ {row.tok : row \in sessions} \subseteq minted /\ minted \subseteq Tokens
  /\ cookies \subseteq Cookie /\ ("cache" \notin conf => cookies = {})
  /\ now \in Time /\ gone \in [Tokens -> Time] /\ userGone \in Time
  /\ bannedSince \in Time /\ shadowed \subseteq Requests

LEMMA Tables == ASSUME IInv PROVE TablesOK
BY DEF IInv, TypeOK, TablesOK

\* How the tables and the history may change while a request is under way:
\* what ends now ended after it began, and a row it has read keeps its kind.
Evolves ==
  /\ now <= now'
  /\ \A t \in Tokens : gone'[t] = gone[t] \/ gone'[t] = now
  /\ userGone' = userGone \/ userGone' = now
  /\ bannedSince' = 0 \/ bannedSince' = bannedSince \/ bannedSince' = now
  /\ minted \subseteq minted'
  /\ \A row \in sessions' : row.tok \in minted =>
       \E old \in sessions : old.tok = row.tok /\ old.short = row.short

\* What a request has seen, it has seen still.
LEMMA Kept ==
  ASSUME IInv, Evolves, TablesOK', NEW q \in Requests, pc'[q] = pc[q], loc'[q] = loc[q],
         pc[q] # "idle" => now' <= loc[q].began + MaxLatency,
         q \in shadowed' => q \in shadowed
  PROVE  RequestOK(q)'
<1>1. RequestOK(q) /\ loc[q].began \in Nat /\ now' \in Nat
  BY Numbers, Constants DEF IInv, Inv_Requests, TablesOK, Time
<1>2. pc[q] # "idle" => loc[q].began <= now /\ loc[q].began <= now'
  BY <1>1, Numbers DEF RequestOK, Evolves
<1>3. HoldsRow(q)' => /\ loc[q].row \in Row /\ Saw(q, gone[loc[q].row.tok])'
                      /\ FixedExpiry(loc[q].row)
  <2> SUFFICES ASSUME HoldsRow(q)'
               PROVE  /\ loc[q].row \in Row /\ Saw(q, gone[loc[q].row.tok])'
                      /\ FixedExpiry(loc[q].row)
    OBVIOUS
  <2>1. pc[q] # "idle" /\ HoldsRow(q)
    BY DEF HoldsRow
  <2>2. /\ loc[q].row \in Row /\ Saw(q, gone[loc[q].row.tok]) /\ FixedExpiry(loc[q].row)
        /\ loc[q].row.tok \in Tokens
    BY <1>1, <2>1 DEF RequestOK, Row
  <2> QED
    BY <1>1, <1>2, <2>1, <2>2 DEF Saw, Evolves
<1>4. HoldsUser(q)' => Saw(q, userGone)'
  BY <1>1, <1>2 DEF RequestOK, HoldsUser, Saw, Evolves
<1>5. HoldsNoBan(q)' => Saw(q, bannedSince)'
  BY <1>1, <1>2 DEF RequestOK, HoldsNoBan, Saw, Evolves
<1>6. pc[q] \in {"findUser", "refresh"} =>
        /\ loc[q].row.tok \in minted'
        /\ \A row \in sessions' : row.tok = loc[q].row.tok => row.short = loc[q].row.short
  BY <1>1 DEF RequestOK, Evolves
<1> QED
  BY <1>1, <1>2, <1>3, <1>4, <1>5, <1>6 DEF RequestOK, FixedExpiry

\* A cookie outlives its session, and its user, no longer than before.
LEMMA CookiesKept ==
  ASSUME IInv, Evolves, TablesOK', cookies' \subseteq cookies
  PROVE  Inv_Cookies'
<1> SUFFICES ASSUME NEW c \in cookies
             PROVE  /\ c.deadline <= now' + CacheMaxAge
                    /\ FixedExpiry(c.row)
                    /\ Outlives(c.deadline, gone'[c.row.tok])
                    /\ Outlives(c.deadline, userGone')
                    /\ ~c.row.short => Outlives(c.deadline, bannedSince')
  BY DEF Inv_Cookies, FixedExpiry, Outlives
<1>1. /\ c.deadline \in Nat /\ c.row.tok \in Tokens /\ now \in Nat /\ now' \in Nat /\ now <= now'
      /\ c.deadline <= now + CacheMaxAge
      /\ FixedExpiry(c.row)
      /\ Outlives(c.deadline, gone[c.row.tok])
      /\ Outlives(c.deadline, userGone)
      /\ ~c.row.short => Outlives(c.deadline, bannedSince)
  BY Numbers, Constants DEF IInv, Inv_Cookies, TablesOK, Time, Evolves
<1>2. Outlives(c.deadline, now) /\ Outlives(c.deadline, 0)
  BY <1>1, Constants DEF Outlives
<1>3. c.deadline <= now' + CacheMaxAge
  BY <1>1, Constants
<1>4. Outlives(c.deadline, gone'[c.row.tok])
  BY <1>1, <1>2 DEF Evolves
<1>5. Outlives(c.deadline, userGone')
  BY <1>1, <1>2 DEF Evolves
<1>6. ~c.row.short => Outlives(c.deadline, bannedSince')
  BY <1>1, <1>2 DEF Evolves
<1> QED
  BY <1>1, <1>3, <1>4, <1>5, <1>6

\* The parts put together.
LEMMA Assemble ==
  ASSUME pc' \in [Requests -> PCs], loc' \in [Requests -> Locals], TablesOK',
         Inv_Clock', Inv_Rows', Inv_User', Inv_Cookies', Inv_Requests'
  PROVE  IInv'
<1>1. \A r \in Requests :
        /\ loc'[r].row \in Row \cup {NoRow}
        /\ loc'[r].user \in User
        /\ loc'[r].targets \subseteq Tokens
        /\ {loc'[r].began, loc'[r].at} \subseteq Time
        /\ loc'[r].fromCache \in BOOLEAN
  <2> SUFFICES ASSUME NEW r \in Requests
               PROVE  /\ loc'[r].row \in Row \cup {NoRow}
                      /\ loc'[r].user \in User
                      /\ loc'[r].targets \subseteq Tokens
                      /\ {loc'[r].began, loc'[r].at} \subseteq Time
                      /\ loc'[r].fromCache \in BOOLEAN
    OBVIOUS
  <2>1. loc'[r] \in Locals
    OBVIOUS
  <2> QED
    BY <2>1 DEF Locals
<1>2. TypeOK'
  BY <1>1 DEF TypeOK, TablesOK
<1> QED
  BY <1>2 DEF IInv

\* A step of request r.
LEMMA Step ==
  ASSUME IInv, NEW r \in Requests, NEW label \in PCs, NEW locals \in Locals,
         Moves(r, label, locals), Evolves, now' = now, shadowed' \subseteq shadowed \cup {r},
         TablesOK', Inv_Clock', Inv_Rows', Inv_User', Inv_Cookies', RequestOK(r)'
  PROVE  IInv'
<1>1. /\ pc' \in [Requests -> PCs] /\ loc' \in [Requests -> Locals]
      /\ \A q \in Requests \ {r} : pc'[q] = pc[q] /\ loc'[q] = loc[q]
  BY MovesType DEF IInv, TypeOK
<1>2. \A q \in Requests : pc[q] # "idle" => now' <= loc[q].began + MaxLatency
  BY DEF IInv, Inv_Requests, RequestOK
<1>3. ASSUME NEW q \in Requests, q # r PROVE RequestOK(q)'
  BY <1>1, <1>2, <1>3, Kept
<1>4. Inv_Requests'
  BY <1>3 DEF Inv_Requests
<1> QED
  BY <1>1, <1>4, Assemble

\* A step of no request.
LEMMA StillStep ==
  ASSUME IInv, UNCHANGED <<pc, loc>>, Evolves, shadowed' \subseteq shadowed,
         \A q \in Requests : pc[q] # "idle" => now' <= loc[q].began + MaxLatency,
         cookies' \subseteq cookies,
         TablesOK', Inv_Clock', Inv_Rows', Inv_User'
  PROVE  IInv'
<1>1. ASSUME NEW q \in Requests PROVE RequestOK(q)'
  BY Kept
<1>2. Inv_Requests'
  BY <1>1 DEF Inv_Requests
<1>3. pc' \in [Requests -> PCs] /\ loc' \in [Requests -> Locals]
  BY DEF IInv, TypeOK
<1> QED
  BY <1>2, <1>3, CookiesKept, Assemble

LEMMA InitInv == Init => IInv
<1> SUFFICES ASSUME Init PROVE IInv
  OBVIOUS
<1>1. loc \in [Requests -> Locals] /\ \A r \in Requests : pc[r] = "idle" /\ loc[r].fromCache = FALSE
  BY NoLocalsType DEF Init
<1>2. TypeOK
  BY NoLocalsType, Constants, <1>1 DEF Init, TypeOK, PCs, Time, User, Locals
<1>3. Inv_Clock /\ Inv_Rows /\ Inv_User /\ Inv_Cookies
  BY Constants DEF Init, Inv_Clock, Inv_Rows, Inv_User, InForce, Inv_Cookies
<1>4. Inv_Requests
  BY <1>1 DEF Inv_Requests, RequestOK, HoldsRow, HoldsUser, HoldsNoBan
<1> QED
  BY <1>1, <1>2, <1>3, <1>4 DEF IInv

-----------------------------------------------------------------------------
(* Kinds of steps *)

\* A request that has ended.
LEMMA IdleOK ==
  ASSUME NEW r \in Requests, pc'[r] = "idle", loc'[r] = NoLocals
  PROVE  RequestOK(r)'
BY NoLocalsType DEF RequestOK, HoldsRow, HoldsUser, HoldsNoBan

LEMMA ReturnMoves ==
  ASSUME IInv, NEW r \in Requests, Return(r)
  PROVE  /\ Moves(r, "idle", NoLocals) /\ NoLocals \in Locals /\ "idle" \in PCs
         /\ pc'[r] = "idle" /\ loc'[r] = NoLocals /\ RequestOK(r)'
<1>1. Moves(r, "idle", NoLocals) /\ NoLocals \in Locals /\ "idle" \in PCs
  BY NoLocalsType DEF Return, Goto, Moves, PCs
<1>2. pc'[r] = "idle" /\ loc'[r] = NoLocals
  BY <1>1, MovesType DEF IInv, TypeOK
<1> QED
  BY <1>1, <1>2, IdleOK

\* The labels of the requests and their locals after a step of r.
LEMMA Moved ==
  ASSUME IInv, NEW r \in Requests, NEW label \in PCs, NEW locals \in Locals,
         Moves(r, label, locals)
  PROVE  pc'[r] = label /\ loc'[r] = locals
BY MovesType DEF IInv, TypeOK

\* A request that writes nothing but maybe the note that it began under a ban.
LEMMA ReadStep ==
  ASSUME IInv, NEW r \in Requests, NEW label \in PCs, NEW locals \in Locals,
         Moves(r, label, locals),
         UNCHANGED <<conf, user, sessions, minted, cookies, now, gone, userGone, bannedSince>>,
         shadowed' \subseteq shadowed \cup {r}, shadowed' # {} => InForce(user, now),
         RequestOK(r)'
  PROVE  IInv'
<1>1. TablesOK'
  BY Tables DEF TablesOK
<1>2. Evolves
  BY Numbers DEF Evolves
<1>3. Inv_Clock' /\ Inv_Rows' /\ Inv_User'
  BY DEF IInv, Inv_Clock, Inv_Rows, Inv_User
<1>4. Inv_Cookies'
  BY <1>1, <1>2, CookiesKept
<1> QED
  BY <1>1, <1>2, <1>3, <1>4, Step

\* What Begin notes.
LEMMA Begins ==
  ASSUME IInv, NEW r \in Requests, Begin(r)
  PROVE  shadowed' \subseteq shadowed \cup {r} /\ (shadowed' # {} => InForce(user, now))
BY DEF Begin, IInv, Inv_User

\* Deleted rows are deleted now, and for good.
LEMMA DeleteOK ==
  ASSUME IInv, NEW toks, Delete(toks), UNCHANGED <<minted, now>>
  PROVE  /\ sessions' \subseteq sessions
         /\ gone' \in [Tokens -> Time]
         /\ \A t \in Tokens : gone'[t] = gone[t] \/ gone'[t] = now
         /\ \A t \in Tokens : gone'[t] <= now
         /\ Inv_Rows'
<1>1. sessions' \subseteq sessions
  BY DEF Delete
<1>2. /\ gone' \in [Tokens -> Time]
      /\ \A t \in Tokens : gone'[t] = gone[t] \/ gone'[t] = now
      /\ \A t \in Tokens : gone'[t] = gone[t] \/ (t \in toks /\ \E row \in sessions : row.tok = t)
  BY Numbers DEF Delete, IInv, TypeOK
<1>3. \A row \in sessions' : gone'[row.tok] = 0 /\ FixedExpiry(row)
  BY <1>1, <1>2, Numbers DEF Delete, IInv, Inv_Rows
<1>4. \A t \in Tokens \ minted : gone'[t] = 0
  BY <1>2, Numbers DEF IInv, Inv_Rows
<1>5. \A t \in Tokens : gone'[t] <= now
  BY <1>2, Numbers
<1> QED
  BY <1>1, <1>2, <1>3, <1>4, <1>5 DEF Inv_Rows

LEMMA DeleteStep ==
  ASSUME IInv, NEW r \in Requests, NEW label \in PCs, NEW locals \in Locals,
         Moves(r, label, locals), NEW toks, Delete(toks),
         UNCHANGED <<conf, user, minted, cookies, now, userGone, banHistory>>,
         RequestOK(r)'
  PROVE  IInv'
<1>1. /\ sessions' \subseteq sessions
      /\ gone' \in [Tokens -> Time]
      /\ \A t \in Tokens : gone'[t] = gone[t] \/ gone'[t] = now
      /\ \A t \in Tokens : gone'[t] <= now
      /\ Inv_Rows'
  BY DeleteOK
<1>2. TablesOK'
  BY <1>1, Tables DEF TablesOK, banHistory
<1>3. Evolves
  BY <1>1, Numbers DEF Evolves, banHistory
<1>4. Inv_Clock' /\ Inv_User'
  BY <1>1 DEF IInv, Inv_Clock, Inv_User, banHistory
<1>5. Inv_Cookies'
  BY <1>2, <1>3, CookiesKept
<1> QED
  BY <1>1, <1>2, <1>3, <1>4, <1>5, Step DEF banHistory

\* A write to the user row starts a ban now, ends one, or changes neither.
LEMMA UserWrittenOK ==
  ASSUME IInv, NEW u \in User, UserWritten(u), UNCHANGED <<conf, now>>,
         ~u.exists => ~u.banned, "guards" \notin conf => ~u.banned
  PROVE  /\ user' = u /\ shadowed' \subseteq shadowed
         /\ bannedSince' = 0 \/ bannedSince' = bannedSince \/ bannedSince' = now
         /\ bannedSince' \in Time /\ bannedSince' <= now
         /\ ~u.banned => bannedSince' = 0
         /\ (u.exists <=> userGone' = 0) => Inv_User'
<1>1. /\ user' = u /\ shadowed' \subseteq shadowed
      /\ bannedSince' = 0 \/ bannedSince' = bannedSince \/ bannedSince' = now
      /\ ~InForce(u, now) => shadowed' = {} /\ bannedSince' = 0
      /\ InForce(u, now) => bannedSince' # 0
  BY Numbers DEF UserWritten, IInv, Inv_User
<1>2. bannedSince' \in Time /\ bannedSince' <= now
  BY <1>1, Numbers, Constants DEF IInv, TypeOK, Time
<1> QED
  BY <1>1, <1>2 DEF Inv_User, InForce

LEMMA UserStep ==
  ASSUME IInv, NEW r \in Requests, NEW label \in PCs, NEW locals \in Locals,
         Moves(r, label, locals), NEW u \in User, UserWritten(u),
         UNCHANGED <<conf, sessions, minted, cookies, now, gone, userGone>>,
         u.exists = user.exists, ~u.exists => ~u.banned, "guards" \notin conf => ~u.banned,
         RequestOK(r)'
  PROVE  IInv'
<1>1. /\ user' = u /\ shadowed' \subseteq shadowed
      /\ bannedSince' = 0 \/ bannedSince' = bannedSince \/ bannedSince' = now
      /\ bannedSince' \in Time /\ bannedSince' <= now
      /\ (u.exists <=> userGone' = 0) => Inv_User'
  BY UserWrittenOK
<1>2. Inv_User'
  BY <1>1 DEF IInv, Inv_User
<1>3. TablesOK'
  BY <1>1, Tables DEF TablesOK
<1>4. Evolves
  BY <1>1, Numbers DEF Evolves
<1>5. Inv_Clock' /\ Inv_Rows'
  BY <1>1 DEF IInv, Inv_Clock, Inv_Rows
<1>6. Inv_Cookies'
  BY <1>3, <1>4, CookiesKept
<1> QED
  BY <1>1, <1>2, <1>3, <1>4, <1>5, <1>6, Step

-----------------------------------------------------------------------------
(* Guards and signing in *)

\* A guard passes a request only when the user it has read was not banned, or
\* it lifts the ban that the row has now.
LEMMA GuardedStep ==
  ASSUME IInv, NEW r \in Requests, NEW next,
         (pc[r] = "guard" /\ next = "create") \/ (pc[r] = "check" /\ next = "served"),
         Guarded(r, next), UNCHANGED <<conf, sessions, minted, cookies, now, gone, userGone>>
  PROVE  IInv'
<1> DEFINE locals == [loc[r] EXCEPT !.user = NoUser, !.at = 0]
           lifted == [user EXCEPT !.banned = FALSE, !.banExpires = 0]
           left == IF user.exists THEN lifted ELSE user
<1>1. CASE Return(r) /\ UNCHANGED <<user, banHistory>>
  BY <1>1, ReturnMoves, ReadStep DEF banHistory, IInv, Inv_User
<1>2. next \in PCs /\ RequestOK(r) /\ loc[r] \in Locals
  BY DEF PCs, IInv, Inv_Requests
<1>3. /\ locals \in Locals /\ locals.row = loc[r].row /\ locals.began = loc[r].began
      /\ locals.fromCache = loc[r].fromCache
  <2>1. NoUser \in User /\ 0 \in Time
    BY NoLocalsType, Constants DEF Time
  <2> QED
    BY <1>2, <2>1 DEF Locals
<1>4. ASSUME Moves(r, next, locals), UNCHANGED <<gone, userGone, now, minted, sessions>>,
             (~loc[r].user.banned /\ bannedSince' = bannedSince) \/ bannedSince' = 0
      PROVE  RequestOK(r)'
  <2> HIDE DEF locals
  <2>1. pc'[r] = next /\ loc'[r] = locals
    BY <1>2, <1>3, <1>4, Moved
  <2>2. ~loc[r].user.banned => Saw(r, bannedSince)
    BY <1>2 DEF RequestOK, HoldsNoBan
  <2>3. Saw(r, bannedSince)'
    BY <1>3, <1>4, <2>1, <2>2 DEF Saw
  <2>4. Saw(r, userGone)'
    BY <1>2, <1>3, <1>4, <2>1 DEF RequestOK, HoldsUser, Saw
  <2>5. HoldsRow(r)' => HoldsRow(r)
    BY <2>1 DEF HoldsRow
  <2>6. HoldsRow(r)' => /\ loc'[r].row \in Row /\ Saw(r, gone[loc[r].row.tok])'
                        /\ FixedExpiry(loc'[r].row)
    BY <1>2, <1>3, <1>4, <2>1, <2>5 DEF RequestOK, Saw
  <2> QED
    BY <1>2, <1>3, <1>4, <2>1, <2>3, <2>4, <2>6 DEF RequestOK, HoldsRow, HoldsNoBan, FixedExpiry
<1>5. CASE ~loc[r].user.banned /\ Moves(r, next, locals) /\ UNCHANGED <<user, banHistory>>
  <2>1. RequestOK(r)'
    BY <1>4, <1>5 DEF banHistory
  <2> HIDE DEF locals
  <2> QED
    BY <1>2, <1>3, <1>5, <2>1, ReadStep DEF banHistory, IInv, Inv_User
<1>6. CASE Moves(r, next, locals) /\ UserWritten(left)
  <2>1. left \in User /\ left.exists = user.exists /\ ~left.banned
    BY DEF IInv, TypeOK, User, Inv_User
  <2> HIDE DEF locals, left
  <2>2. bannedSince' = 0
    BY <1>6, <2>1, UserWrittenOK
  <2>3. RequestOK(r)'
    BY <1>4, <1>6, <2>2
  <2> QED
    BY <1>2, <1>3, <1>6, <2>1, <2>3, UserStep
<1>7. \/ Return(r) /\ UNCHANGED <<user, banHistory>>
      \/ ~loc[r].user.banned /\ Moves(r, next, locals) /\ UNCHANGED <<user, banHistory>>
      \/ Moves(r, next, locals) /\ UserWritten(left)
  BY DEF Guarded, Goto, Moves, IInv
<1> QED
  BY <1>1, <1>5, <1>6, <1>7

LEMMA BeforeSignInInv ==
  ASSUME IInv, NEW r \in Requests, BeforeSignIn(r)
  PROVE  IInv'
BY GuardedStep DEF BeforeSignIn

LEMMA CheckSessionInv ==
  ASSUME IInv, NEW r \in Requests, CheckSession(r)
  PROVE  IInv'
BY GuardedStep DEF CheckSession

LEMMA SignInUserInv ==
  ASSUME IInv, NEW r \in Requests, SignInUser(r)
  PROVE  IInv'
<1> DEFINE locals == [NoLocals EXCEPT !.began = now, !.user = user]
<1>1. /\ Moves(r, "guard", locals) /\ "guard" \in PCs /\ user.exists
      /\ UNCHANGED <<conf, user, sessions, minted, cookies, now, gone, userGone, banHistory>>
  BY DEF SignInUser, Goto, Moves, PCs
<1>2. /\ locals \in Locals /\ locals.began = now /\ locals.user = user
      /\ locals.fromCache = FALSE
  BY Numbers, NoLocalsType DEF NoLocals, Locals, IInv, TypeOK
<1> HIDE DEF locals
<1>3. pc'[r] = "guard" /\ loc'[r] = locals
  BY <1>1, <1>2, Moved
<1>4. userGone = 0 /\ (~user.banned => bannedSince = 0)
  BY <1>1 DEF IInv, Inv_User, InForce
<1>5. RequestOK(r)'
  BY <1>1, <1>2, <1>3, <1>4, Numbers, Constants
     DEF RequestOK, HoldsRow, HoldsUser, HoldsNoBan, Saw, banHistory
<1> QED
  BY <1>1, <1>2, <1>5, ReadStep DEF banHistory, IInv, Inv_User

LEMMA ImpersonateInv ==
  ASSUME IInv, NEW r \in Requests, Impersonate(r)
  PROVE  IInv'
<1> DEFINE locals == [NoLocals EXCEPT !.began = now]
<1>1. /\ Moves(r, "impersonate", locals) /\ "impersonate" \in PCs /\ user.exists
      /\ UNCHANGED <<conf, user, sessions, minted, cookies, now, gone, userGone, banHistory>>
  BY DEF Impersonate, Goto, Moves, PCs
<1>2. locals \in Locals /\ locals.began = now /\ locals.fromCache = FALSE
  BY Numbers, NoLocalsType DEF NoLocals, Locals
<1> HIDE DEF locals
<1>3. pc'[r] = "impersonate" /\ loc'[r] = locals
  BY <1>1, <1>2, Moved
<1>4. RequestOK(r)'
  BY <1>1, <1>2, <1>3, Numbers, Constants
     DEF RequestOK, HoldsRow, HoldsUser, HoldsNoBan, Saw, IInv, Inv_User
<1> QED
  BY <1>1, <1>2, <1>4, ReadStep DEF banHistory, IInv, Inv_User

\* A fresh token: no row and no history of it.
LEMMA CreateSessionInv ==
  ASSUME IInv, NEW r \in Requests, CreateSession(r)
  PROVE  IInv'
<1> DEFINE short == pc[r] = "impersonate"
           duration == IF short THEN ImpersonationSessionDuration ELSE ExpiresIn
<1>1. PICK t \in Tokens \ minted :
        LET row == [tok |-> t, createdAt |-> now, expiresAt |-> now + duration, short |-> short] IN
        /\ sessions' = sessions \cup {row}
        /\ minted' = minted \cup {t}
        /\ loc' = [loc EXCEPT ![r].row = row]
  BY DEF CreateSession
<1> DEFINE row == [tok |-> t, createdAt |-> now, expiresAt |-> now + duration, short |-> short]
           locals == [loc[r] EXCEPT !.row = row]
<1>2. /\ pc[r] \in {"create", "impersonate"} /\ Moves(r, "stamp", locals) /\ "stamp" \in PCs
      /\ sessions' = sessions \cup {row} /\ minted' = minted \cup {t}
      /\ UNCHANGED <<conf, user, cookies, now, gone, userGone, banHistory>>
  BY <1>1 DEF CreateSession, Goto, Moves, PCs, IInv
<1>3. /\ row \in Row /\ row.tok = t /\ FixedExpiry(row) /\ (row.short <=> short)
  <2>1. short \in BOOLEAN /\ now + duration \in Nat /\ now \in Nat
    BY Numbers, Constants
  <2> QED
    BY <2>1 DEF Row, FixedExpiry
<1>4. RequestOK(r) /\ loc[r] \in Locals
  BY DEF IInv, Inv_Requests
<1> HIDE DEF row
<1>5. /\ locals \in Locals /\ locals.began = loc[r].began /\ locals.row = row
      /\ locals.fromCache = loc[r].fromCache
  BY <1>3, <1>4 DEF Locals
<1> HIDE DEF locals
<1>6. pc'[r] = "stamp" /\ loc'[r] = locals
  BY <1>2, <1>5, Moved
<1>7. gone[t] = 0 /\ \A old \in sessions : old.tok # t
  BY Numbers DEF IInv, Inv_Rows
<1>8. RequestOK(r)'
  <2>1. Saw(r, userGone) /\ (~short => Saw(r, bannedSince)) /\ ~loc[r].fromCache
    BY <1>2, <1>4 DEF RequestOK, HoldsUser, HoldsNoBan
  <2>2. Saw(r, userGone)' /\ (~short => Saw(r, bannedSince)') /\ Saw(r, gone[loc[r].row.tok])'
    BY <1>2, <1>3, <1>5, <1>6, <1>7, <2>1 DEF Saw, banHistory
  <2> QED
    BY <1>2, <1>3, <1>4, <1>5, <1>6, <2>1, <2>2 DEF RequestOK, HoldsNoBan, FixedExpiry
<1>9. TablesOK'
  <2>1. sessions' \subseteq Row /\ \A a, b \in sessions' : a.tok = b.tok => a = b
    BY <1>2, <1>3, <1>7, Tables DEF TablesOK
  <2>2. {x.tok : x \in sessions'} \subseteq minted'
    BY <1>2, <1>3, Tables DEF TablesOK
  <2> QED
    BY <1>2, <2>1, <2>2, Tables DEF TablesOK, banHistory
<1>10. Evolves
  BY <1>2, <1>3, Numbers DEF Evolves, banHistory
<1>11. Inv_Rows'
  BY <1>2, <1>3, <1>7 DEF IInv, Inv_Rows
<1>12. Inv_Clock' /\ Inv_User'
  BY <1>2 DEF IInv, Inv_Clock, Inv_User, banHistory
<1>13. Inv_Cookies'
  BY <1>2, <1>9, <1>10, CookiesKept
<1> QED
  BY <1>2, <1>5, <1>8, <1>9, <1>10, <1>11, <1>12, <1>13, Step DEF banHistory

\* A cookie gets a deadline from a row that was read while this request ran.
LEMMA SetCookieCacheInv ==
  ASSUME IInv, NEW r \in Requests, SetCookieCache(r)
  PROVE  IInv'
<1> DEFINE new == [row |-> loc[r].row, deadline |-> now + CacheMaxAge]
<1>1. /\ pc[r] \in {"stamp", "served"} /\ Return(r)
      /\ UNCHANGED <<conf, user, sessions, minted, now, gone, userGone, banHistory>>
      /\ cookies' = cookies \/ ("cache" \in conf /\ ~loc[r].fromCache /\ cookies' = cookies \cup {new})
  BY DEF SetCookieCache
<1>2. RequestOK(r) /\ loc[r].began \in Nat
  BY Numbers DEF IInv, Inv_Requests
<1>3. Evolves
  BY <1>1, Numbers DEF Evolves, banHistory
<1>4. Inv_Clock' /\ Inv_Rows' /\ Inv_User'
  BY <1>1 DEF IInv, Inv_Clock, Inv_Rows, Inv_User, banHistory
<1>5. CASE cookies' = cookies
  <2>1. TablesOK'
    BY <1>1, <1>5, Tables DEF TablesOK, banHistory
  <2>2. Inv_Cookies'
    BY <1>3, <1>5, <2>1, CookiesKept
  <2> QED
    BY <1>1, <1>3, <1>4, <2>1, <2>2, ReturnMoves, Step DEF banHistory
<1>6. CASE "cache" \in conf /\ ~loc[r].fromCache /\ cookies' = cookies \cup {new}
  <2>1. /\ loc[r].row \in Row /\ FixedExpiry(loc[r].row)
        /\ Saw(r, gone[loc[r].row.tok]) /\ Saw(r, userGone)
        /\ ~loc[r].row.short => Saw(r, bannedSince)
        /\ now <= loc[r].began + MaxLatency
    BY <1>1, <1>2, <1>6 DEF RequestOK, HoldsRow, HoldsUser, HoldsNoBan
  <2>2. /\ new \in Cookie /\ new.row = loc[r].row /\ new.deadline = now + CacheMaxAge
        /\ loc[r].row.tok \in Tokens
    BY <2>1, Numbers, Constants DEF Cookie, Row
  <2>3. \A ended \in Nat : Saw(r, ended) => Outlives(now + CacheMaxAge, ended)
    BY <1>2, <2>1, Numbers, Constants DEF Saw, Outlives
  <2>4. /\ Outlives(now + CacheMaxAge, gone[loc[r].row.tok])
        /\ Outlives(now + CacheMaxAge, userGone)
        /\ ~loc[r].row.short => Outlives(now + CacheMaxAge, bannedSince)
    BY <2>1, <2>2, <2>3, Numbers
  <2> HIDE DEF new
  <2>5. TablesOK'
    BY <1>1, <1>6, <2>2, Tables DEF TablesOK, banHistory
  <2>6. now + CacheMaxAge <= now + CacheMaxAge
    BY Numbers, Constants
  <2>7. Inv_Cookies'
    BY <1>1, <1>6, <2>1, <2>2, <2>4, <2>6 DEF IInv, Inv_Cookies, banHistory, Outlives, FixedExpiry
  <2> QED
    BY <1>1, <1>3, <1>4, <2>5, <2>7, ReturnMoves, Step DEF banHistory
<1> QED
  BY <1>1, <1>5, <1>6

-----------------------------------------------------------------------------
(* Resolving a session *)

LEMMA GetSessionCachedInv ==
  ASSUME IInv, NEW r \in Requests, GetSessionCached(r)
  PROVE  IInv'
<1>1. PICK c \in cookies :
        /\ now < c.deadline
        /\ c.row.expiresAt > now
        /\ loc' = [loc EXCEPT ![r] = [NoLocals EXCEPT !.began = now, !.row = c.row,
                                                      !.fromCache = TRUE]]
  BY DEF GetSessionCached
<1> DEFINE locals == [NoLocals EXCEPT !.began = now, !.row = c.row, !.fromCache = TRUE]
<1>2. /\ Moves(r, "served", locals) /\ "served" \in PCs /\ Begin(r)
      /\ UNCHANGED <<conf, user, sessions, minted, cookies, now, gone, userGone, bannedSince>>
  BY <1>1 DEF GetSessionCached, Goto, Moves, PCs
<1>3. /\ locals \in Locals /\ locals.began = now /\ locals.row = c.row /\ locals.fromCache = TRUE
      /\ c.row \in Row
  BY Numbers, NoLocalsType DEF NoLocals, Locals
<1> HIDE DEF locals
<1>4. pc'[r] = "served" /\ loc'[r] = locals
  BY <1>2, <1>3, Moved
<1>5. RequestOK(r)'
  BY <1>2, <1>3, <1>4, Numbers, Constants DEF RequestOK, HoldsRow, HoldsUser, HoldsNoBan
<1> QED
  BY <1>2, <1>3, <1>5, Begins, ReadStep

LEMMA FindSessionByTokenInv ==
  ASSUME IInv, NEW r \in Requests, FindSessionByToken(r)
  PROVE  IInv'
<1>1. PICK row \in sessions :
        /\ Goto(r, IF row.expiresAt > now THEN "findUser" ELSE "expired")
        /\ loc' = [loc EXCEPT ![r] = [NoLocals EXCEPT !.began = now, !.at = now, !.row = row]]
  BY DEF FindSessionByToken
<1> DEFINE locals == [NoLocals EXCEPT !.began = now, !.at = now, !.row = row]
           label == IF row.expiresAt > now THEN "findUser" ELSE "expired"
<1>2. /\ Moves(r, label, locals) /\ label \in PCs /\ Begin(r)
      /\ UNCHANGED <<conf, user, sessions, minted, cookies, now, gone, userGone, bannedSince>>
  BY <1>1 DEF FindSessionByToken, Goto, Moves, PCs
<1>3. /\ locals \in Locals /\ locals.began = now /\ locals.row = row /\ locals.fromCache = FALSE
      /\ row \in Row /\ row.tok \in minted
  BY Numbers, NoLocalsType DEF NoLocals, Locals
<1> HIDE DEF locals
<1>4. pc'[r] = label /\ loc'[r] = locals
  BY <1>2, <1>3, Moved
<1>5. gone[row.tok] = 0 /\ FixedExpiry(row)
  BY DEF IInv, Inv_Rows
<1>6. \A other \in sessions : other.tok = row.tok => other.short = row.short
  BY DEF IInv, TypeOK
<1>7. RequestOK(r)'
  BY <1>2, <1>3, <1>4, <1>5, <1>6, Numbers, Constants
     DEF RequestOK, HoldsRow, HoldsUser, HoldsNoBan, Saw, FixedExpiry
<1> QED
  BY <1>2, <1>3, <1>7, Begins, ReadStep

\* The user is read: he exists, and is not banned if no ban is in force.
LEMMA FindUserByIDInv ==
  ASSUME IInv, NEW r \in Requests, FindUserByID(r)
  PROVE  IInv'
<1> DEFINE locals == [loc[r] EXCEPT !.user = user]
           label == IF RefreshDue(r) THEN "refresh" ELSE "check"
<1>1. /\ pc[r] = "findUser"
      /\ UNCHANGED <<conf, user, sessions, minted, cookies, now, gone, userGone, banHistory>>
      /\ \/ Return(r)
         \/ user.exists /\ Moves(r, label, locals)
  BY DEF FindUserByID, Moves, Goto, IInv
<1>2. CASE Return(r)
  BY <1>1, <1>2, ReturnMoves, ReadStep DEF banHistory, IInv, Inv_User
<1>3. CASE user.exists /\ Moves(r, label, locals)
  <2>1. RequestOK(r) /\ loc[r] \in Locals /\ user \in User
    BY DEF IInv, Inv_Requests, TypeOK
  <2>2. /\ locals \in Locals /\ locals.began = loc[r].began /\ locals.row = loc[r].row
        /\ locals.fromCache = loc[r].fromCache /\ locals.user = user
    BY <2>1 DEF Locals
  <2>3. label \in PCs /\ label \in {"refresh", "check"}
    BY DEF PCs
  <2>4. label = "refresh" => ~loc[r].row.short
    <3>1. /\ loc[r].row \in Row /\ FixedExpiry(loc[r].row)
      BY <1>1, <2>1 DEF RequestOK, HoldsRow
    <3> QED
      BY <3>1, Constants DEF RefreshDue, SessionRefreshable, FixedExpiry, Row
  <2> HIDE DEF locals, label
  <2>5. pc'[r] = label /\ loc'[r] = locals
    BY <1>3, <2>2, <2>3, Moved
  <2>6. /\ userGone = 0 /\ (~user.banned => bannedSince = 0)
        /\ r \in shadowed => user.banned
    BY <1>3 DEF IInv, Inv_User, InForce
  <2>7. RequestOK(r)'
    <3>1. HoldsRow(r)' => /\ loc'[r].row \in Row /\ Saw(r, gone[loc[r].row.tok])'
                          /\ FixedExpiry(loc'[r].row)
      BY <1>1, <2>1, <2>2, <2>5 DEF RequestOK, HoldsRow, Saw
    <3>2. HoldsUser(r)' => Saw(r, userGone)'
      BY <1>1, <2>6 DEF Saw
    <3>3. HoldsNoBan(r)' => Saw(r, bannedSince)'
      BY <1>1, <2>2, <2>3, <2>5, <2>6 DEF HoldsNoBan, Saw, banHistory
    <3> QED
      BY <1>1, <2>1, <2>2, <2>3, <2>4, <2>5, <2>6, <3>1, <3>2, <3>3
         DEF RequestOK, FixedExpiry, banHistory
  <2> QED
    BY <1>1, <1>3, <2>2, <2>3, <2>7, ReadStep DEF banHistory, IInv, Inv_User
<1> QED
  BY <1>1, <1>2, <1>3

\* Only a session of the default lifetime is refreshed.
LEMMA UpdateSessionInv ==
  ASSUME IInv, NEW r \in Requests, UpdateSession(r)
  PROVE  IInv'
<1>1. /\ pc[r] = "refresh" /\ "check" \in PCs
      /\ UNCHANGED <<conf, user, minted, cookies, now, gone, userGone, banHistory>>
      /\ RequestOK(r) /\ loc[r] \in Locals
  BY DEF UpdateSession, PCs, IInv, Inv_Requests
<1>2. CASE Moves(r, "check", loc[r]) /\ UNCHANGED sessions
  <2>1. pc'[r] = "check" /\ loc'[r] = loc[r]
    BY <1>1, <1>2, Moved
  <2>2. RequestOK(r)'
    BY <1>1, <1>2, <2>1
       DEF RequestOK, HoldsRow, HoldsUser, HoldsNoBan, Saw, FixedExpiry, banHistory
  <2> QED
    BY <1>1, <1>2, <2>2, ReadStep DEF banHistory, IInv, Inv_User
<1>3. ASSUME NEW row \in sessions, row.tok = loc[r].row.tok,
             sessions' = (sessions \ {row}) \cup {[row EXCEPT !.expiresAt = loc[r].at + ExpiresIn]},
             Moves(r, "check", [loc[r] EXCEPT !.row = [row EXCEPT !.expiresAt = loc[r].at + ExpiresIn]])
      PROVE  IInv'
  <2> DEFINE updated == [row EXCEPT !.expiresAt = loc[r].at + ExpiresIn]
             locals == [loc[r] EXCEPT !.row = updated]
  <2>1. loc[r].at + ExpiresIn \in Nat
    BY <1>1, Constants DEF Locals, Time
  <2>2. /\ updated \in Row /\ updated.tok = row.tok /\ updated.short = row.short
        /\ row.tok \in Tokens /\ row.tok \in minted
    BY <2>1, Numbers DEF Row
  <2>3. ~updated.short
    BY <1>1, <1>3, <2>2 DEF RequestOK
  <2> HIDE DEF updated
  <2>4. /\ locals \in Locals /\ locals.began = loc[r].began /\ locals.row = updated
        /\ locals.fromCache = loc[r].fromCache /\ locals.user = loc[r].user
    BY <1>1, <2>2 DEF Locals
  <2>5. Moves(r, "check", locals) /\ sessions' = (sessions \ {row}) \cup {updated}
    BY <1>3 DEF updated
  <2> HIDE DEF locals
  <2>6. pc'[r] = "check" /\ loc'[r] = locals
    BY <1>1, <2>4, <2>5, Moved
  <2>7. FixedExpiry(updated) /\ gone[updated.tok] = 0
    BY <2>2, <2>3 DEF FixedExpiry, IInv, Inv_Rows
  <2>8. RequestOK(r)'
    BY <1>1, <2>2, <2>3, <2>4, <2>6, <2>7
       DEF RequestOK, HoldsRow, HoldsUser, HoldsNoBan, Saw, FixedExpiry, banHistory
  <2>9. TablesOK'
    <3>1. sessions' \subseteq Row /\ {x.tok : x \in sessions'} \subseteq minted'
      BY <1>1, <2>2, <2>5, Tables DEF TablesOK
    <3>2. \A a, b \in sessions' : a.tok = b.tok => a = b
      BY <2>2, <2>5, Tables DEF TablesOK
    <3> QED
      BY <1>1, <3>1, <3>2, Tables DEF TablesOK, banHistory
  <2>10. Evolves
    BY <1>1, <2>2, <2>5, Numbers DEF Evolves, banHistory
  <2>11. Inv_Rows'
    BY <1>1, <2>5, <2>7 DEF IInv, Inv_Rows
  <2>12. Inv_Clock' /\ Inv_User'
    BY <1>1 DEF IInv, Inv_Clock, Inv_User, banHistory
  <2>13. Inv_Cookies'
    BY <1>1, <2>9, <2>10, CookiesKept
  <2> QED
    BY <1>1, <2>4, <2>5, <2>8, <2>9, <2>10, <2>11, <2>12, <2>13, Step DEF banHistory
<1>4. \/ Moves(r, "check", loc[r]) /\ UNCHANGED sessions
      \/ \E row \in sessions :
           LET updated == [row EXCEPT !.expiresAt = loc[r].at + ExpiresIn] IN
           /\ row.tok = loc[r].row.tok
           /\ sessions' = (sessions \ {row}) \cup {updated}
           /\ Moves(r, "check", [loc[r] EXCEPT !.row = updated])
  BY DEF UpdateSession, Goto, Moves, IInv
<1> QED
  BY <1>2, <1>3, <1>4

-----------------------------------------------------------------------------
(* Revoking *)

\* A request that deletes rows and ends.
LEMMA DeleteReturn ==
  ASSUME IInv, NEW r \in Requests, NEW toks, Delete(toks), Return(r),
         UNCHANGED <<conf, user, minted, cookies, now, userGone, banHistory>>
  PROVE  IInv'
BY ReturnMoves, DeleteStep

LEMMA DeleteExpiredInv ==
  ASSUME IInv, NEW r \in Requests, DeleteExpired(r)
  PROVE  IInv'
BY DeleteReturn DEF DeleteExpired

LEMMA SignOutInv ==
  ASSUME IInv, NEW r \in Requests, SignOut(r)
  PROVE  IInv'
BY DeleteReturn DEF SignOut

LEMMA RevokeSessionInv ==
  ASSUME IInv, NEW r \in Requests, RevokeSession(r)
  PROVE  IInv'
BY DeleteReturn DEF RevokeSession

LEMMA RevokeSessionsInv ==
  ASSUME IInv, NEW r \in Requests, RevokeSessions(r)
  PROVE  IInv'
BY DeleteReturn DEF RevokeSessions

LEMMA StopImpersonatingInv ==
  ASSUME IInv, NEW r \in Requests, StopImpersonating(r)
  PROVE  IInv'
BY DeleteReturn DEF StopImpersonating

LEMMA BanRevokeInv ==
  ASSUME IInv, NEW r \in Requests, BanRevoke(r)
  PROVE  IInv'
BY DeleteReturn DEF BanRevoke

\* The locals of a request that goes on with some targets.
LEMMA TargetsType ==
  ASSUME IInv, NEW r \in Requests, NEW targets \in SUBSET Tokens
  PROVE  /\ [loc[r] EXCEPT !.targets = targets] \in Locals
         /\ [loc[r] EXCEPT !.targets = targets].began = loc[r].began
         /\ [loc[r] EXCEPT !.targets = targets].fromCache = loc[r].fromCache
<1>1. loc[r] \in Locals
  BY DEF IInv
<1> QED
  BY <1>1 DEF Locals

\* A request that has chosen its targets holds nothing else.
LEMMA TargetsOK ==
  ASSUME IInv, NEW r \in Requests, pc[r] # "idle", pc'[r] \in {"revoke", "revokeOthers"},
         loc'[r].began = loc[r].began, now' = now
  PROVE  RequestOK(r)'
BY DEF IInv, Inv_Requests, RequestOK, HoldsRow, HoldsUser, HoldsNoBan

LEMMA FindTargetInv ==
  ASSUME IInv, NEW r \in Requests, FindTarget(r)
  PROVE  IInv'
<1>1. PICK row \in sessions : loc' = [loc EXCEPT ![r].targets = {row.tok}]
  BY DEF FindTarget
<1> DEFINE locals == [loc[r] EXCEPT !.targets = {row.tok}]
<1>2. /\ pc[r] = "served" /\ Moves(r, "revoke", locals) /\ "revoke" \in PCs
      /\ UNCHANGED <<conf, user, sessions, minted, cookies, now, gone, userGone, banHistory>>
  BY <1>1 DEF FindTarget, Goto, Moves, PCs, IInv
<1>3. {row.tok} \in SUBSET Tokens
  BY Numbers
<1>4. locals \in Locals /\ locals.began = loc[r].began
  BY <1>3, TargetsType
<1> HIDE DEF locals
<1>5. RequestOK(r)'
  BY <1>2, <1>4, Moved, TargetsOK
<1> QED
  BY <1>2, <1>4, <1>5, ReadStep DEF banHistory, IInv, Inv_User

LEMMA ListOtherSessionsInv ==
  ASSUME IInv, NEW r \in Requests, ListOtherSessions(r)
  PROVE  IInv'
<1> DEFINE others == AllTokens \ {loc[r].row.tok}
           locals == [loc[r] EXCEPT !.targets = others]
<1>1. /\ pc[r] = "served" /\ Moves(r, "revokeOthers", locals) /\ "revokeOthers" \in PCs
      /\ UNCHANGED <<conf, user, sessions, minted, cookies, now, gone, userGone, banHistory>>
  BY DEF ListOtherSessions, Goto, Moves, PCs, IInv
<1>2. others \in SUBSET Tokens
  BY Numbers DEF AllTokens
<1> HIDE DEF others
<1>3. locals \in Locals /\ locals.began = loc[r].began
  BY <1>2, TargetsType
<1> HIDE DEF locals
<1>4. RequestOK(r)'
  BY <1>1, <1>3, Moved, TargetsOK
<1> QED
  BY <1>1, <1>3, <1>4, ReadStep DEF banHistory, IInv, Inv_User

LEMMA RevokeOtherSessionInv ==
  ASSUME IInv, NEW r \in Requests, RevokeOtherSession(r)
  PROVE  IInv'
<1>1. PICK t \in loc[r].targets :
        /\ loc' = [loc EXCEPT ![r].targets = @ \ {t}]
        /\ Delete({t}) \/ UNCHANGED <<sessions, gone>>
  BY DEF RevokeOtherSession
<1> DEFINE others == loc[r].targets \ {t}
           locals == [loc[r] EXCEPT !.targets = others]
<1>2. /\ pc[r] = "revokeOthers" /\ Moves(r, "revokeOthers", locals) /\ "revokeOthers" \in PCs
      /\ UNCHANGED <<conf, user, minted, cookies, now, userGone, banHistory>>
  BY <1>1 DEF RevokeOtherSession, Moves, PCs, IInv, TypeOK
<1>3. others \in SUBSET Tokens
  BY DEF IInv, TypeOK
<1> HIDE DEF others
<1>4. locals \in Locals /\ locals.began = loc[r].began
  BY <1>3, TargetsType
<1> HIDE DEF locals
<1>5. RequestOK(r)'
  BY <1>2, <1>4, Moved, TargetsOK
<1>6. CASE Delete({t})
  BY <1>2, <1>4, <1>5, <1>6, DeleteStep
<1>7. CASE UNCHANGED <<sessions, gone>>
  BY <1>2, <1>4, <1>5, <1>7, ReadStep DEF banHistory, IInv, Inv_User
<1> QED
  BY <1>1, <1>6, <1>7

LEMMA AbandonInv ==
  ASSUME IInv, NEW r \in Requests, Abandon(r)
  PROVE  IInv'
BY ReturnMoves, ReadStep DEF Abandon, banHistory, IInv, Inv_User

-----------------------------------------------------------------------------
(* Administrators, housekeeping, time *)

LEMMA BanUserInv ==
  ASSUME IInv, NEW r \in Requests, NEW d \in BanDurations, BanUser(r, d)
  PROVE  IInv'
<1> DEFINE expires == IF d > 0 THEN now + d ELSE user.banExpires
           banned == [user EXCEPT !.banned = TRUE, !.banExpires = expires]
           locals == [loc[r] EXCEPT !.began = now]
<1>1. /\ pc[r] = "idle" /\ "guards" \in conf /\ user.exists /\ UserWritten(banned)
      /\ Moves(r, "banRevoke", locals) /\ "banRevoke" \in PCs
      /\ UNCHANGED <<conf, sessions, minted, cookies, now, gone, userGone>>
  BY DEF BanUser, Goto, Moves, PCs, IInv
<1>2. user \in User /\ expires \in Nat
  BY Numbers, Constants DEF IInv, TypeOK, User
<1> HIDE DEF expires
<1>3. banned \in User /\ banned.exists = user.exists
  BY <1>2 DEF User
<1>4. loc[r] \in Locals /\ now \in Time
  BY Numbers
<1>5. locals \in Locals /\ locals.began = now /\ locals.fromCache = loc[r].fromCache
  BY <1>4 DEF Locals
<1> HIDE DEF locals, banned
<1>6. pc'[r] = "banRevoke" /\ loc'[r] = locals
  BY <1>1, <1>5, Moved
<1>7. ~loc[r].fromCache
  BY <1>1 DEF IInv, Inv_Requests, RequestOK
<1>8. RequestOK(r)'
  BY <1>1, <1>5, <1>6, <1>7, Numbers, Constants DEF RequestOK, HoldsRow, HoldsUser, HoldsNoBan
<1> QED
  BY <1>1, <1>3, <1>5, <1>8, UserStep

\* A step of no request that leaves the clock alone and deletes rows.
LEMMA StillDelete ==
  ASSUME IInv, NEW toks, Delete(toks),
         UNCHANGED <<conf, user, minted, cookies, pc, loc, now, userGone, banHistory>>
  PROVE  IInv'
<1>1. /\ sessions' \subseteq sessions
      /\ gone' \in [Tokens -> Time]
      /\ \A t \in Tokens : gone'[t] = gone[t] \/ gone'[t] = now
      /\ \A t \in Tokens : gone'[t] <= now
      /\ Inv_Rows'
  BY DeleteOK
<1>2. TablesOK'
  BY <1>1, Tables DEF TablesOK, banHistory
<1>3. Evolves
  BY <1>1, Numbers DEF Evolves, banHistory
<1>4. Inv_Clock' /\ Inv_User'
  BY <1>1 DEF IInv, Inv_Clock, Inv_User, banHistory
<1>5. \A q \in Requests : pc[q] # "idle" => now' <= loc[q].began + MaxLatency
  BY DEF IInv, Inv_Requests, RequestOK
<1> QED
  BY <1>1, <1>2, <1>3, <1>4, <1>5, StillStep DEF banHistory

LEMMA AdminRevokeInv == ASSUME IInv, AdminRevoke PROVE IInv'
BY StillDelete DEF AdminRevoke

LEMMA CleanupExpiredInv == ASSUME IInv, CleanupExpired PROVE IInv'
BY StillDelete DEF CleanupExpired

LEMMA UnbanUserInv == ASSUME IInv, UnbanUser PROVE IInv'
<1> DEFINE lifted == [user EXCEPT !.banned = FALSE, !.banExpires = 0]
<1>1. /\ UserWritten(lifted) /\ user.exists
      /\ UNCHANGED <<conf, sessions, minted, cookies, pc, loc, now, gone, userGone>>
  BY DEF UnbanUser
<1>2. lifted \in User /\ lifted.exists = user.exists /\ ~lifted.banned
  BY DEF IInv, TypeOK, User
<1> HIDE DEF lifted
<1>3. /\ user' = lifted /\ shadowed' \subseteq shadowed
      /\ bannedSince' = 0 \/ bannedSince' = bannedSince \/ bannedSince' = now
      /\ bannedSince' \in Time /\ bannedSince' <= now
      /\ (lifted.exists <=> userGone' = 0) => Inv_User'
  BY <1>1, <1>2, UserWrittenOK
<1>4. Inv_User'
  BY <1>1, <1>2, <1>3 DEF IInv, Inv_User
<1>5. TablesOK'
  BY <1>1, <1>2, <1>3, Tables DEF TablesOK
<1>6. Evolves
  BY <1>1, <1>3, Numbers DEF Evolves
<1>7. Inv_Clock' /\ Inv_Rows'
  BY <1>1, <1>3 DEF IInv, Inv_Clock, Inv_Rows
<1>8. \A q \in Requests : pc[q] # "idle" => now' <= loc[q].began + MaxLatency
  BY <1>1 DEF IInv, Inv_Requests, RequestOK
<1> QED
  BY <1>1, <1>3, <1>4, <1>5, <1>6, <1>7, <1>8, StillStep

LEMMA DeleteUserInv == ASSUME IInv, DeleteUser PROVE IInv'
<1>1. /\ UserWritten(NoUser) /\ user.exists /\ Delete(AllTokens) /\ userGone' = now
      /\ UNCHANGED <<conf, minted, cookies, pc, loc, now>>
  BY DEF DeleteUser
<1>2. NoUser \in User /\ ~NoUser.exists /\ ~NoUser.banned
  BY NoLocalsType DEF NoUser
<1> HIDE DEF NoUser
<1>3. /\ user' = NoUser /\ shadowed' \subseteq shadowed
      /\ bannedSince' = 0 \/ bannedSince' = bannedSince \/ bannedSince' = now
      /\ bannedSince' \in Time /\ bannedSince' <= now
      /\ (NoUser.exists <=> userGone' = 0) => Inv_User'
  BY <1>1, <1>2, UserWrittenOK
<1>4. Inv_User'
  BY <1>1, <1>2, <1>3, Numbers
<1>5. /\ sessions' \subseteq sessions
      /\ gone' \in [Tokens -> Time]
      /\ \A t \in Tokens : gone'[t] = gone[t] \/ gone'[t] = now
      /\ \A t \in Tokens : gone'[t] <= now
      /\ Inv_Rows'
  BY <1>1, DeleteOK
<1>6. TablesOK'
  BY <1>1, <1>2, <1>3, <1>5, Numbers, Tables DEF TablesOK
<1>7. Evolves
  BY <1>1, <1>3, <1>5, Numbers DEF Evolves
<1>8. Inv_Clock'
  BY <1>1, <1>3, <1>5, Numbers DEF Inv_Clock
<1>9. \A q \in Requests : pc[q] # "idle" => now' <= loc[q].began + MaxLatency
  BY <1>1 DEF IInv, Inv_Requests, RequestOK
<1> QED
  BY <1>1, <1>3, <1>4, <1>5, <1>6, <1>7, <1>8, <1>9, StillStep

\* A ban may run out with the tick, none begins.
LEMMA TickInv == ASSUME IInv, Tick PROVE IInv'
<1>1. /\ now' = now + 1 /\ now' \in Time /\ now' \in Nat /\ cookies' \subseteq cookies
      /\ UNCHANGED <<conf, user, sessions, minted, pc, loc, gone, userGone>>
  BY Numbers, Constants DEF Tick, Time
<1>2. user \in User /\ (InForce(user, now + 1) => InForce(user, now))
  BY Numbers DEF InForce, IInv, TypeOK, User
<1>3. /\ shadowed' \subseteq shadowed /\ bannedSince' \in Time /\ bannedSince' <= now
      /\ bannedSince' = 0 \/ bannedSince' = bannedSince
      /\ bannedSince' # 0 <=> InForce(user, now + 1)
      /\ shadowed' # {} => InForce(user, now + 1)
  BY <1>2, Numbers, Constants DEF Tick, Time, IInv, TypeOK, Inv_User
<1>4. \A q \in Requests : pc[q] # "idle" => now' <= loc[q].began + MaxLatency
  BY <1>1, Numbers, Constants DEF Tick
<1>5. TablesOK'
  BY <1>1, <1>3, Tables DEF TablesOK
<1>6. Evolves
  BY <1>1, <1>3, Numbers DEF Evolves
<1>7. Inv_Clock'
  <2>1. now' >= 1 /\ bannedSince' <= now'
    BY <1>1, <1>3, Numbers, Constants DEF Time
  <2>2. userGone' <= now' /\ \A t \in Tokens : gone'[t] <= now'
    BY <1>1, Numbers
  <2> QED
    BY <2>1, <2>2 DEF Inv_Clock
<1>8. Inv_Rows' /\ Inv_User'
  BY <1>1, <1>3 DEF IInv, Inv_Rows, Inv_User
<1> QED
  BY <1>1, <1>3, <1>4, <1>5, <1>6, <1>7, <1>8, StillStep

-----------------------------------------------------------------------------

\* Every step keeps the invariant.
LEMMA NextInv == IInv /\ [Next]_vars => IInv'
<1> SUFFICES ASSUME IInv, [Next]_vars PROVE IInv'
  OBVIOUS
<1>1. ASSUME NEW r \in Requests, SignIn(r) PROVE IInv'
  BY <1>1, SignInUserInv, BeforeSignInInv, ImpersonateInv, CreateSessionInv, SetCookieCacheInv
     DEF SignIn
<1>2. ASSUME NEW r \in Requests, Resolve(r) PROVE IInv'
  BY <1>2, GetSessionCachedInv, FindSessionByTokenInv, DeleteExpiredInv, FindUserByIDInv,
     UpdateSessionInv, CheckSessionInv DEF Resolve
<1>3. ASSUME NEW r \in Requests, Revoke(r) PROVE IInv'
  BY <1>3, SignOutInv, FindTargetInv, RevokeSessionInv, RevokeSessionsInv, ListOtherSessionsInv,
     RevokeOtherSessionInv, StopImpersonatingInv, BanRevokeInv, BanUserInv DEF Revoke
<1>4. CASE UNCHANGED vars
  BY <1>4 DEF vars, banHistory, IInv, TypeOK, Inv_Clock, Inv_Rows, Inv_User, Inv_Cookies,
     Inv_Requests, RequestOK, HoldsRow, HoldsUser, HoldsNoBan, Saw
<1> QED
  BY <1>1, <1>2, <1>3, <1>4, AbandonInv, UnbanUserInv, AdminRevokeInv, DeleteUserInv,
     CleanupExpiredInv, TickInv DEF Next, RemoveUser

-----------------------------------------------------------------------------
(* The theorems *)

\* Every reachable state has the types TypeOK states: a token has one row at
\* most, and no cookie is handed out while the cache is disabled.
THEOREM TypeCorrect == Spec => []TypeOK
<1>1. IInv => TypeOK
  BY DEF IInv
<1> QED
  BY <1>1, InitInv, NextInv, PTL DEF Spec

\* A request is told that its session is valid by the cookie or at the end of
\* the checks of what it read from the database.
LEMMA AcceptedSteps ==
  ASSUME IInv, [Next]_vars, NEW r \in Requests, Accepted(r)
  PROVE  \/ GetSessionCached(r)
         \/ CheckSession(r) /\ ~Return(r)
<1>1. pc \in [Requests -> PCs] /\ pc[r] # "served" /\ pc'[r] = "served"
  BY DEF IInv, TypeOK, Accepted
<1>2. ASSUME NEW q \in Requests, Return(q) PROVE FALSE
  BY <1>1, <1>2 DEF Return, Goto
<1>3. ASSUME NEW q \in Requests, SignIn(q) PROVE FALSE
  <2>1. pc' = pc \/ \E label \in PCs \ {"served"} : pc' = [pc EXCEPT ![q] = label]
    BY <1>2, <1>3 DEF SignIn, SignInUser, BeforeSignIn, Guarded, Impersonate, CreateSession,
       SetCookieCache, Goto, PCs
  <2> QED
    BY <1>1, <2>1
<1>4. ASSUME NEW q \in Requests, Revoke(q) PROVE FALSE
  <2>1. pc' = pc \/ \E label \in PCs \ {"served"} : pc' = [pc EXCEPT ![q] = label]
    BY <1>2, <1>4 DEF Revoke, SignOut, FindTarget, RevokeSession, RevokeSessions,
       ListOtherSessions, RevokeOtherSession, StopImpersonating, BanRevoke, BanUser, Goto, PCs
  <2> QED
    BY <1>1, <2>1
<1>5. ASSUME NEW q \in Requests, Resolve(q) PROVE (GetSessionCached(q) \/ CheckSession(q)) /\ q = r
  <2>1. ASSUME FindSessionByToken(q) \/ DeleteExpired(q) \/ FindUserByID(q) \/ UpdateSession(q)
        PROVE  FALSE
    <3>1. pc' = pc \/ \E label \in PCs \ {"served"} : pc' = [pc EXCEPT ![q] = label]
      BY <1>2, <2>1 DEF FindSessionByToken, DeleteExpired, FindUserByID, UpdateSession, Goto, PCs
    <3> QED
      BY <1>1, <3>1
  <2>2. GetSessionCached(q) \/ CheckSession(q)
    BY <1>5, <2>1 DEF Resolve
  <2>3. pc' = [pc EXCEPT ![q] = "served"]
    BY <1>2, <2>2 DEF GetSessionCached, CheckSession, Guarded, Goto
  <2> QED
    BY <1>1, <2>2, <2>3
<1>6. Next
  BY <1>1 DEF vars
<1>7. ~(UnbanUser \/ AdminRevoke \/ RemoveUser \/ DeleteUser \/ CleanupExpired \/ Tick)
  BY <1>1 DEF UnbanUser, AdminRevoke, RemoveUser, DeleteUser, CleanupExpired, Tick
<1> QED
  BY <1>2, <1>3, <1>4, <1>5, <1>6, <1>7 DEF Next, Abandon

\* What the cookie that is accepted says.
LEMMA AcceptedFromCache ==
  ASSUME IInv, NEW r \in Requests, GetSessionCached(r)
  PROVE  /\ "cache" \in conf /\ ("stale" \notin conf => "guards" \notin conf)
         /\ loc'[r].fromCache /\ UNCHANGED <<user, bannedSince>> /\ Begin(r)
         /\ \E c \in cookies : /\ loc'[r].row = c.row
                               /\ now < c.deadline /\ now < c.row.expiresAt
<1>1. PICK c \in cookies :
        /\ now < c.deadline
        /\ c.row.expiresAt > now
        /\ loc' = [loc EXCEPT ![r] = [NoLocals EXCEPT !.began = now, !.row = c.row,
                                                      !.fromCache = TRUE]]
  BY DEF GetSessionCached
<1>2. loc'[r].row = c.row /\ loc'[r].fromCache
  BY <1>1 DEF NoLocals, IInv
<1> QED
  BY <1>1, <1>2, Numbers DEF GetSessionCached, CacheConsulted

\* What a request that passed its checks has read.
LEMMA AcceptedFromTable ==
  ASSUME IInv, NEW r \in Requests, CheckSession(r), ~Return(r)
  PROVE  /\ pc[r] = "check" /\ RequestOK(r) /\ ~loc[r].fromCache
         /\ loc[r].row \in Row /\ loc[r].row.tok \in Tokens
         /\ loc'[r].row = loc[r].row /\ loc'[r].began = loc[r].began
         /\ \/ ~loc[r].user.banned /\ UNCHANGED banHistory
            \/ shadowed' = {} /\ bannedSince' = 0
<1>1. pc[r] = "check" /\ RequestOK(r) /\ loc[r] \in Locals
  BY DEF CheckSession, IInv, Inv_Requests
<1>2. loc' = [loc EXCEPT ![r] = [loc[r] EXCEPT !.user = NoUser, !.at = 0]]
  BY DEF CheckSession, Guarded, IInv
<1>3. loc'[r].row = loc[r].row /\ loc'[r].began = loc[r].began
  BY <1>1, <1>2 DEF Locals, IInv
<1>4. loc[r].row \in Row /\ loc[r].row.tok \in Tokens /\ ~loc[r].fromCache
  BY <1>1 DEF RequestOK, HoldsRow, Row
<1>5. CASE UserWritten(IF user.exists THEN [user EXCEPT !.banned = FALSE, !.banExpires = 0] ELSE user)
  <2> DEFINE left == IF user.exists THEN [user EXCEPT !.banned = FALSE, !.banExpires = 0] ELSE user
  <2>1. ~left.banned
    BY DEF IInv, TypeOK, User, Inv_User
  <2>2. UserWritten(left)
    BY <1>5
  <2> HIDE DEF left
  <2>3. shadowed' = {} /\ bannedSince' = 0
    BY <2>1, <2>2 DEF UserWritten, InForce
  <2> QED
    BY <1>1, <1>3, <1>4, <2>3
<1>6. CASE ~loc[r].user.banned /\ UNCHANGED banHistory
  BY <1>1, <1>3, <1>4, <1>6
<1> QED
  BY <1>5, <1>6 DEF CheckSession, Guarded

\* A session that was deleted, or whose user was, is not served for longer
\* than the cache and one request allow, and by the cookie only.
THEOREM RevocationsAreBounded == Spec => RevocationBounded
<1> DEFINE A == \A r \in Requests : Accepted(r) =>
                  LET t == loc'[r].row.tok
                      Bounded(deleted) ==
                        deleted # 0 => /\ now < deleted + MaxLatency + CacheMaxAge
                                       /\ loc'[r].began > deleted => loc'[r].fromCache
                  IN  Bounded(gone[t]) /\ Bounded(userGone)
<1>1. IInv /\ [Next]_vars => [A]_vars
  <2> SUFFICES ASSUME IInv, [Next]_vars, NEW r \in Requests, Accepted(r),
                      NEW deleted \in {gone[loc'[r].row.tok], userGone}, deleted # 0
               PROVE  /\ now < deleted + MaxLatency + CacheMaxAge
                      /\ loc'[r].began > deleted => loc'[r].fromCache
    OBVIOUS
  <2>1. CASE GetSessionCached(r)
    <3>1. PICK c \in cookies : loc'[r].row = c.row /\ now < c.deadline
      BY <2>1, AcceptedFromCache
    <3>2. Outlives(c.deadline, deleted) /\ deleted \in Nat /\ c.deadline \in Nat
      BY <3>1, Numbers DEF IInv, Inv_Cookies
    <3> QED
      BY <2>1, <3>1, <3>2, AcceptedFromCache, Numbers, Constants DEF Outlives
  <2>2. CASE CheckSession(r) /\ ~Return(r)
    <3>1. /\ pc[r] = "check" /\ RequestOK(r) /\ loc[r].row.tok \in Tokens
          /\ loc'[r].row = loc[r].row /\ loc'[r].began = loc[r].began
      BY <2>2, AcceptedFromTable
    <3>2. Saw(r, deleted) /\ now <= loc[r].began + MaxLatency /\ deleted \in Nat
      BY <3>1, Numbers DEF RequestOK, HoldsRow, HoldsUser
    <3> QED
      BY <3>1, <3>2, Numbers, Constants DEF Saw
  <2> QED
    BY <2>1, <2>2, AcceptedSteps
<1> QED
  BY <1>1, InitInv, NextInv, PTL DEF Spec, RevocationBounded

\* Nobody is served under an impersonation once its duration is over.
THEOREM ImpersonationsAreBounded == Spec => ImpersonationBounded
<1> DEFINE A == \A r \in Requests : Accepted(r) /\ loc'[r].row.short =>
                  now < loc'[r].row.createdAt + ImpersonationSessionDuration + MaxLatency
<1>1. IInv /\ [Next]_vars => [A]_vars
  <2> SUFFICES ASSUME IInv, [Next]_vars, NEW r \in Requests, Accepted(r), loc'[r].row.short
               PROVE  now < loc'[r].row.createdAt + ImpersonationSessionDuration + MaxLatency
    OBVIOUS
  <2>1. CASE GetSessionCached(r)
    <3>1. PICK c \in cookies : loc'[r].row = c.row /\ now < c.row.expiresAt
      BY <2>1, AcceptedFromCache
    <3>2. c.row.expiresAt = c.row.createdAt + ImpersonationSessionDuration
      BY <3>1 DEF IInv, Inv_Cookies, FixedExpiry
    <3> QED
      BY <3>1, <3>2, Numbers, Constants
  <2>2. CASE CheckSession(r) /\ ~Return(r)
    <3>1. /\ pc[r] = "check" /\ RequestOK(r) /\ loc[r].row \in Row /\ loc'[r].row = loc[r].row
      BY <2>2, AcceptedFromTable
    <3>2. /\ loc[r].row.expiresAt = loc[r].row.createdAt + ImpersonationSessionDuration
          /\ loc[r].began < loc[r].row.expiresAt /\ now <= loc[r].began + MaxLatency
          /\ loc[r].row.createdAt \in Nat
      BY <3>1 DEF RequestOK, HoldsRow, FixedExpiry, Row
    <3> QED
      BY <3>1, <3>2, Numbers, Constants
  <2> QED
    BY <2>1, <2>2, AcceptedSteps
<1> QED
  BY <1>1, InitInv, NextInv, PTL DEF Spec, ImpersonationBounded

\* A request begun under a ban that is still in force is not served, unless
\* the application accepts stale authorization.
THEOREM BansAreEffective == Spec => BanEffective
<1> DEFINE A == \A r \in Requests : Accepted(r) /\ "stale" \notin conf => r \notin shadowed'
<1>1. IInv /\ [Next]_vars => [A]_vars
  <2> SUFFICES ASSUME IInv, [Next]_vars, NEW r \in Requests, Accepted(r), "stale" \notin conf
               PROVE  r \notin shadowed'
    OBVIOUS
  <2>1. CASE GetSessionCached(r)
    <3>1. "guards" \notin conf /\ Begin(r)
      BY <2>1, AcceptedFromCache
    <3>2. ~InForce(user, now)
      BY <3>1 DEF IInv, Inv_User, InForce
    <3> QED
      BY <3>1, <3>2 DEF Begin
  <2>2. CASE CheckSession(r) /\ ~Return(r)
    BY <2>2, AcceptedFromTable DEF RequestOK, banHistory
  <2> QED
    BY <2>1, <2>2, AcceptedSteps
<1> QED
  BY <1>1, InitInv, NextInv, PTL DEF Spec, BanEffective

\* Where stale authorization is accepted, a ban takes effect on the sessions
\* the user signed in to once the cache, and one request, have run out.
THEOREM StaleBansAreBounded == Spec => StaleBanBounded
<1> DEFINE A == \A r \in Requests :
                  Accepted(r) /\ ~loc'[r].row.short /\ bannedSince' # 0 =>
                    now < bannedSince' + MaxLatency + CacheMaxAge
<1>1. IInv /\ [Next]_vars => [A]_vars
  <2> SUFFICES ASSUME IInv, [Next]_vars, NEW r \in Requests, Accepted(r),
                      ~loc'[r].row.short, bannedSince' # 0
               PROVE  now < bannedSince' + MaxLatency + CacheMaxAge
    OBVIOUS
  <2>1. CASE GetSessionCached(r)
    <3>1. PICK c \in cookies : loc'[r].row = c.row /\ now < c.deadline
      BY <2>1, AcceptedFromCache
    <3>2. Outlives(c.deadline, bannedSince) /\ c.deadline \in Nat
      BY <3>1, Numbers DEF IInv, Inv_Cookies
    <3> QED
      BY <2>1, <3>1, <3>2, AcceptedFromCache, Numbers, Constants DEF Outlives
  <2>2. CASE CheckSession(r) /\ ~Return(r)
    <3>1. /\ pc[r] = "check" /\ RequestOK(r) /\ ~loc[r].user.banned /\ bannedSince' = bannedSince
      BY <2>2, AcceptedFromTable DEF banHistory
    <3>2. Saw(r, bannedSince) /\ now <= loc[r].began + MaxLatency
      BY <3>1 DEF RequestOK, HoldsNoBan
    <3> QED
      BY <3>1, <3>2, Numbers, Constants DEF Saw
  <2> QED
    BY <2>1, <2>2, AcceptedSteps
<1> QED
  BY <1>1, InitInv, NextInv, PTL DEF Spec, StaleBanBounded
=============================================================================
