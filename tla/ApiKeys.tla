------------------------------- MODULE ApiKeys -------------------------------
(***************************************************************************)
(* API keys: their quota, their request budget and the number a user may   *)
(* have.  A request that carries a key has passed the router's origin check*)
(* and its own rate limit (serveHTTP); the plugin's hook then reads the    *)
(* key, spends a unit of quota by compare-and-set, checks the user's guards*)
(* and the key's scopes, and asks the limiter, an in-memory fixed-window   *)
(* counter.  Steps are the database calls that write, with the reads that  *)
(* precede them, and one critical section of the limiter.                  *)
(*                                                                         *)
(* Time is kept as ages: the limiter compares nothing else.  One tick is   *)
(* the resolution at which a window's end is told apart; a hit reads the   *)
(* clock and takes the lock within a tick.  Expired keys are refused like  *)
(* disabled ones; requestCount and lastRequest decide nothing and are left *)
(* out.                                                                    *)
(***************************************************************************)
EXTENDS Integers, FiniteSets

CONSTANTS
  Requests,             \* concurrently running requests
  MaximumKeysPerUser,   \* Options
  RateLimitMax, RateLimitWindow,   \* Options; the window in ticks
  GCInterval,           \* ticks between collections of old windows, a minute in the code
  GCFactor,             \* windows a counter outlives its own, 10 in the code
  Attempts,             \* compare-and-sets that spendQuota tries, 5 in the code
  MaxQuota, MaxKeys     \* bounds: the largest quota granted, keys ever created

ASSUME ApiKeysAssumption ==
  /\ {MaximumKeysPerUser, RateLimitMax, RateLimitWindow, Attempts, GCFactor} \subseteq Nat \ {0}
  /\ {GCInterval, MaxQuota, MaxKeys} \subseteq Nat

VARIABLES
  keys,       \* the apiKey table: [id, enabled, remaining]
  drawn,      \* keys created so far
  windows,    \* the limiter's map: key -> [age, count], or NoWindow
  sinceGC,    \* age of lastGC
  pc, loc,    \* next step of each request, and what it has read
  balance,    \* history: units of quota granted to each key and not yet used
  recent      \* history: requests let through per key, by age in ticks

vars == <<keys, drawn, windows, sinceGC, pc, loc, balance, recent>>

KeyId == 1 .. MaxKeys
Unlimited == -1
Quota == 0 .. MaxQuota
OldAge == GCFactor * RateLimitWindow + 1      \* ages beyond make no difference
NoWindow == [age |-> 0, count |-> 0]
Window == [age : 0 .. OldAge, count : 0 .. RateLimitMax + 1]
Ages == 0 .. RateLimitWindow - 1
PCs == {"idle", "create", "spend", "reread", "serve"}
NoLocals == [key |-> 0, remaining |-> Unlimited, attempt |-> 0, hook |-> FALSE]

TypeOK ==
  /\ keys \subseteq [id : KeyId, enabled : BOOLEAN, remaining : Quota \cup {Unlimited}]
  /\ \A a, b \in keys : a.id = b.id => a = b
  /\ drawn \in 0 .. MaxKeys
  /\ windows \in [KeyId -> Window]
  /\ sinceGC \in 0 .. GCInterval + 1
  /\ pc \in [Requests -> PCs]
  /\ loc \in [Requests -> [key : KeyId \cup {0}, remaining : Quota \cup {Unlimited},
                           attempt : 0 .. Attempts - 1, hook : BOOLEAN]]
  /\ recent \in [KeyId -> [Ages -> Nat]]

Init ==
  /\ keys = {} /\ drawn = 0
  /\ windows = [k \in KeyId |-> NoWindow] /\ sinceGC = 0
  /\ pc = [r \in Requests |-> "idle"] /\ loc = [r \in Requests |-> NoLocals]
  /\ balance = [k \in KeyId |-> Unlimited]
  /\ recent = [k \in KeyId |-> [a \in Ages |-> 0]]

Goto(r, label, locals) ==
  /\ pc' = [pc EXCEPT ![r] = label]
  /\ loc' = [loc EXCEPT ![r] = locals]
Return(r) == Goto(r, "idle", NoLocals)

Limiter == <<windows, sinceGC, recent>>

-----------------------------------------------------------------------------
(* Key management by the owner *)

\* handleCreate counts the user's keys before it creates one.
HandleCreate(r) ==
  /\ pc[r] = "idle"
  /\ Cardinality(keys) < MaximumKeysPerUser
  /\ Goto(r, "create", NoLocals)
  /\ UNCHANGED <<keys, drawn, balance, Limiter>>

CreateKey(r, quota) ==
  /\ pc[r] = "create"
  /\ drawn < MaxKeys
  /\ drawn' = drawn + 1
  /\ keys' = keys \cup {[id |-> drawn', enabled |-> TRUE, remaining |-> quota]}
  /\ balance' = [balance EXCEPT ![drawn'] = quota]
  /\ Return(r)
  /\ UNCHANGED Limiter

\* handleUpdate: the columns in the body are written, whatever they are by now.
SetEnabled(k, enabled) ==
  /\ keys' = (keys \ {k}) \cup {[k EXCEPT !.enabled = enabled]}
  /\ UNCHANGED <<drawn, pc, loc, balance, Limiter>>

SetRemaining(k, quota) ==
  /\ keys' = (keys \ {k}) \cup {[k EXCEPT !.remaining = quota]}
  /\ balance' = [balance EXCEPT ![k.id] = quota]
  /\ UNCHANGED <<drawn, pc, loc, Limiter>>

DeleteKey(k) ==
  /\ keys' = keys \ {k}
  /\ UNCHANGED <<drawn, pc, loc, balance, Limiter>>

-----------------------------------------------------------------------------
(* verifyKey *)

\* The key is read and enabled.
VerifyKey(r, k, hook) ==
  /\ pc[r] = "idle"
  /\ k.enabled
  /\ k.remaining # 0
  /\ Goto(r, IF k.remaining = Unlimited THEN "serve" ELSE "spend",
          [key |-> k.id, remaining |-> k.remaining, attempt |-> 0, hook |-> hook])
  /\ UNCHANGED <<keys, drawn, balance, Limiter>>

\* The request came with the key in its header, or to have it checked.
BeforeRequest(r, k) == VerifyKey(r, k, TRUE)
HandleVerify(r, k) == VerifyKey(r, k, FALSE)

Stored(id) == {k \in keys : k.id = id}

\* Mutant: a plain read-modify-write.
SpendQuotaBlind(r) ==
  /\ pc[r] = "spend"
  /\ \E k \in Stored(loc[r].key) :
       keys' = (keys \ {k}) \cup {[k EXCEPT !.remaining = loc[r].remaining - 1]}
  /\ balance' = [balance EXCEPT ![loc[r].key] = @ - 1]
  /\ Goto(r, "serve", loc[r])
  /\ UNCHANGED <<drawn, Limiter>>

\* The compare-and-set finds the value that was read.
SpendQuota(r) ==
  /\ pc[r] = "spend"
  /\ \E k \in Stored(loc[r].key) :
       /\ k.remaining = loc[r].remaining
       /\ keys' = (keys \ {k}) \cup {[k EXCEPT !.remaining = @ - 1]}
  /\ balance' = [balance EXCEPT ![loc[r].key] = @ - 1]
  /\ Goto(r, "serve", loc[r])
  /\ UNCHANGED <<drawn, Limiter>>

\* It does not: the row is read again.
SpendContended(r) ==
  /\ pc[r] = "spend"
  /\ \A k \in Stored(loc[r].key) : k.remaining # loc[r].remaining
  /\ Goto(r, "reread", loc[r])
  /\ UNCHANGED <<keys, drawn, balance, Limiter>>

\* Mutant: the attempts are not counted.
RereadForever(r) ==
  /\ pc[r] = "reread"
  /\ \E k \in Stored(loc[r].key) :
       \/ k.remaining = Unlimited /\ Goto(r, "serve", loc[r])
       \/ /\ k.remaining > 0
          /\ Goto(r, "spend", [loc[r] EXCEPT !.remaining = k.remaining, !.attempt = @ + 1])
  /\ UNCHANGED <<keys, drawn, balance, Limiter>>

\* A quota removed meanwhile means unlimited; one used up, or the last attempt
\* spent, ends the request (Refuse).
Reread(r) ==
  /\ pc[r] = "reread"
  /\ \E k \in Stored(loc[r].key) :
       \/ k.remaining = Unlimited /\ Goto(r, "serve", loc[r])
       \/ /\ k.remaining > 0 /\ loc[r].attempt + 1 < Attempts
          /\ Goto(r, "spend", [loc[r] EXCEPT !.remaining = k.remaining, !.attempt = @ + 1])
  /\ UNCHANGED <<keys, drawn, balance, Limiter>>

\* No key, no quota, a guard that refuses, a call that fails: the request goes
\* on without the key, its unit of quota spent or not.
Refuse(r) ==
  /\ pc[r] # "idle"
  /\ Return(r)
  /\ UNCHANGED <<keys, drawn, balance, Limiter>>

\* keyPermitsPath says no: the unit is spent, the limiter is not asked.
OutOfScope(r) ==
  /\ pc[r] = "serve" /\ loc[r].hook
  /\ Return(r)
  /\ UNCHANGED <<keys, drawn, balance, Limiter>>

\* handleVerify answers "valid"; it asks no limiter.
AnswerValid(r) ==
  /\ pc[r] = "serve" /\ ~loc[r].hook
  /\ Return(r)
  /\ UNCHANGED <<keys, drawn, balance, Limiter>>

-----------------------------------------------------------------------------
(* The limiter *)

\* Hit, first half: counters ten windows old are dropped once a minute.
Collected ==
  IF sinceGC > GCInterval
  THEN [k \in KeyId |-> IF windows[k].age > GCFactor * RateLimitWindow THEN NoWindow
                        ELSE windows[k]]
  ELSE windows

\* Mutant: a window ends one tick early.
HitResultEarly(id) ==
  LET w == Collected[id] IN
  IF w = NoWindow \/ w.age >= RateLimitWindow - 1 THEN [age |-> 0, count |-> 1]
  ELSE [w EXCEPT !.count = IF @ > RateLimitMax THEN @ ELSE @ + 1]

\* Hit, second half: the key's window after the hit.  The count stops at
\* RateLimitMax + 1, beyond which Allow does not tell counts apart.
HitResult(id) ==
  LET w == Collected[id] IN
  IF w = NoWindow \/ w.age >= RateLimitWindow THEN [age |-> 0, count |-> 1]
  ELSE [w EXCEPT !.count = IF @ > RateLimitMax THEN @ ELSE @ + 1]

\* BeforeRequest asks the limiter and serves the request or refuses it.
Serve(r) ==
  LET id == loc[r].key
      hit == HitResult(id) IN
  /\ pc[r] = "serve" /\ loc[r].hook
  /\ windows' = [Collected EXCEPT ![id] = hit]
  /\ sinceGC' = IF sinceGC > GCInterval THEN 0 ELSE sinceGC
  /\ recent' = IF hit.count <= RateLimitMax THEN [recent EXCEPT ![id][0] = @ + 1] ELSE recent
  /\ Return(r)
  /\ UNCHANGED <<keys, drawn, balance>>

Older(age, cap) == IF age < cap THEN age + 1 ELSE cap

Tick ==
  /\ windows' = [k \in KeyId |-> IF windows[k] = NoWindow THEN NoWindow
                                 ELSE [windows[k] EXCEPT !.age = Older(@, OldAge)]]
  /\ sinceGC' = Older(sinceGC, GCInterval + 1)
  /\ recent' = [k \in KeyId |-> [a \in Ages |-> IF a = 0 THEN 0 ELSE recent[k][a - 1]]]
  /\ UNCHANGED <<keys, drawn, pc, loc, balance>>

-----------------------------------------------------------------------------
Next ==
  \/ Tick
  \/ \E k \in keys :
       \/ \E enabled \in BOOLEAN : SetEnabled(k, enabled)
       \/ \E quota \in Quota \cup {Unlimited} : SetRemaining(k, quota)
       \/ DeleteKey(k)
       \/ \E r \in Requests : BeforeRequest(r, k) \/ HandleVerify(r, k)
  \/ \E r \in Requests :
       \/ HandleCreate(r) \/ \E quota \in Quota \cup {Unlimited} : CreateKey(r, quota)
       \/ SpendQuota(r) \/ SpendContended(r) \/ Reread(r) \/ Refuse(r)
       \/ OutOfScope(r) \/ AnswerValid(r) \/ Serve(r)

Spec == Init /\ [][Next]_vars

-----------------------------------------------------------------------------
(* Properties *)

\* How many requests were let through in the last ticks: n + 1 of them, or all.
Sums(counts) == LET S[n \in Ages] == IF n = 0 THEN counts[0] ELSE S[n - 1] + counts[n]
                IN  S
Total(counts) == Sums(counts)[RateLimitWindow - 1]

\* verifyKey "spends exactly one unit" of the quota: whatever verifications,
\* re-reads and updates by the owner race, what is left is what the owner last
\* granted less one unit for each verification since.
QuotaKept == \A k \in keys : k.remaining = balance[k.id]

\* The fixed window: as a window starts with its first hit, no key gets through
\* twice the maximum in a stretch of one window's length, wherever the windows'
\* boundaries fall and whenever old counters are collected.
KeyRateBounded == \A k \in KeyId : Total(recent[k]) < 2 * RateLimitMax
=============================================================================
