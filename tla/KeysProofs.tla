------------------------------ MODULE KeysProofs ------------------------------
(***************************************************************************)
(* Proofs about keys.                                                      *)
(*                                                                         *)
(* ApiKeys: type correctness, QuotaKept and KeyRateBounded, for any number *)
(* of requests, keys, attempts, any quota, any budget and any length of the*)
(* limiter's window.                                                       *)
(*                                                                         *)
(* SecretRotation: type correctness, NothingStranded and NeverReverted, for*)
(* any fleet, table, size of the pages, number of writes and of failures.  *)
(***************************************************************************)
EXTENDS ApiKeys, SecretRotation, FiniteSetTheorems, WellFoundedInduction, TLAPS

-----------------------------------------------------------------------------
(* Induction, as a fact about sets *)

\* A set of naturals that is not empty has a least element.
LEMMA Least ==
  ASSUME NEW S, S \subseteq Nat, S # {}
  PROVE  \E m \in S : \A n \in S : m <= n
<1> DEFINE R == {ss \in Nat \X Nat : ss[1] < ss[2]}
<1>1. R = OpToRel(<, Nat)
  BY Zenon DEF OpToRel
<1>2. IsWellFoundedOn(R, Nat)
  BY <1>1, NatLessThanWellFounded, Zenon
<1>3. PICK m \in S : \A n \in S : ~ (<<n, m>> \in R)
  <2> HIDE DEF R
  <2> QED
    BY <1>2, WFMin
<1>4. ASSUME NEW n \in S PROVE m <= n
  <2>1. m \in Nat /\ n \in Nat /\ ~ (n < m)
    BY <1>3
  <2> QED
    BY <2>1
<1> QED
  BY <1>4

\* A set of naturals with a bound has a greatest element.
LEMMA Greatest ==
  ASSUME NEW N \in Nat, NEW S, S \subseteq 0 .. N, S # {}
  PROVE  \E m \in S : \A n \in S : n <= m
<1> DEFINE T == {k \in 0 .. N : N - k \in S}
<1>1. T # {}
  <2>1. PICK n \in S : TRUE
    OBVIOUS
  <2>2. N - n \in 0 .. N /\ N - (N - n) = n
    OBVIOUS
  <2> QED
    BY <2>1, <2>2
<1>2. T \subseteq Nat
  OBVIOUS
<1> HIDE DEF T
<1>3. PICK k \in T : \A l \in T : k <= l
  BY <1>1, <1>2, Least
<1>4. k \in 0 .. N /\ N - k \in S
  BY DEF T
<1>5. ASSUME NEW n \in S PROVE n <= N - k
  <2>1. N - n \in 0 .. N /\ N - (N - n) = n
    OBVIOUS
  <2>2. k <= N - n
    BY <1>3, <2>1 DEF T
  <2> QED
    BY <1>4, <2>2
<1> QED
  BY <1>4, <1>5

\* A set with 0 that is closed under successors holds every natural up to a bound.
LEMMA Induction ==
  ASSUME NEW N \in Nat, NEW T, 0 \in T,
         \A n \in 0 .. N : n \in T /\ n + 1 \in 0 .. N => n + 1 \in T
  PROVE  0 .. N \subseteq T
<1> DEFINE S == (0 .. N) \ T
<1> SUFFICES ASSUME S # {} PROVE FALSE
  OBVIOUS
<1>1. PICK m \in S : \A n \in S : m <= n
  <2>1. S \subseteq Nat
    OBVIOUS
  <2> HIDE DEF S
  <2> QED
    BY <2>1, Least
<1>2. m - 1 \in 0 .. N /\ m - 1 \notin S
  BY <1>1
<1> QED
  BY <1>1, <1>2

-----------------------------------------------------------------------------
(* ApiKeys: sums over ages *)

\* What the assumption says of each constant.
LEMMA Constants ==
  /\ RateLimitMax \in Nat /\ RateLimitMax > 0
  /\ RateLimitWindow \in Nat /\ RateLimitWindow > 0
  /\ Attempts \in Nat /\ Attempts > 0
  /\ GCFactor \in Nat /\ GCFactor > 0
  /\ GCInterval \in Nat /\ MaxQuota \in Nat /\ MaxKeys \in Nat
  /\ OldAge \in Nat
BY ApiKeysAssumption, SMTT(30) DEF ApiKeysAssumption, OldAge

Counts == [Ages -> Nat]

\* What the first n + 1 terms of a sum are, as a function of n.
SumsTo(n, counts, sums) ==
  /\ sums \in [0 .. n -> Nat]
  /\ sums[0] = counts[0]
  /\ \A a \in 1 .. n : sums[a] = sums[a - 1] + counts[a]

\* Sums, which is defined recursively, satisfies its equation.
LEMMA SumsDef ==
  ASSUME NEW counts \in Counts
  PROVE  /\ Sums(counts) \in Counts
         /\ Sums(counts)[0] = counts[0]
         /\ \A a \in Ages : a # 0 => Sums(counts)[a] = Sums(counts)[a - 1] + counts[a]
<1> DEFINE N == RateLimitWindow - 1
           T == {n \in 0 .. N : \E sums : SumsTo(n, counts, sums)}
           Eq(S) == S = [n \in Ages |-> IF n = 0 THEN counts[0] ELSE S[n - 1] + counts[n]]
           S == CHOOSE S : Eq(S)
<1>0. N \in Nat /\ Ages = 0 .. N /\ 0 \in Ages
  BY Constants DEF Ages
<1>1. 0 \in T
  <2>1. SumsTo(0, counts, [n \in {0} |-> counts[0]])
    BY <1>0 DEF SumsTo, Counts
  <2> QED
    BY <1>0, <2>1
<1>2. ASSUME NEW n \in 0 .. N, n \in T, n + 1 \in 0 .. N
      PROVE  n + 1 \in T
  <2>1. PICK sums : SumsTo(n, counts, sums)
    BY <1>2
  <2> DEFINE more == [a \in 0 .. n + 1 |-> IF a = n + 1 THEN sums[n] + counts[n + 1] ELSE sums[a]]
  <2>2. more \in [0 .. n + 1 -> Nat]
    <3> SUFFICES ASSUME NEW a \in 0 .. n + 1
                 PROVE  (IF a = n + 1 THEN sums[n] + counts[n + 1] ELSE sums[a]) \in Nat
      OBVIOUS
    <3>1. counts[n + 1] \in Nat /\ sums[n] \in Nat /\ (a # n + 1 => sums[a] \in Nat)
      BY <1>0, <1>2, <2>1 DEF SumsTo, Counts
    <3> QED
      BY <3>1
  <2>3. more[0] = counts[0]
    BY <1>2, <2>1 DEF SumsTo
  <2>4. \A a \in 1 .. n + 1 : more[a] = more[a - 1] + counts[a]
    BY <1>2, <2>1 DEF SumsTo
  <2> HIDE DEF more
  <2>5. SumsTo(n + 1, counts, more)
    BY <2>2, <2>3, <2>4 DEF SumsTo
  <2> QED
    BY <1>2, <2>5
<1>3. N \in T
  <2> HIDE DEF N, T
  <2>1. 0 .. N \subseteq T
    BY <1>0, <1>1, <1>2, Induction
  <2> QED
    BY <1>0, <2>1
<1>4. PICK sums : SumsTo(N, counts, sums)
  BY <1>3
<1>5. sums = [n \in Ages |-> IF n = 0 THEN counts[0] ELSE sums[n - 1] + counts[n]]
  BY <1>0, <1>4 DEF SumsTo
<1>6. Eq(S)
  BY <1>5
<1>7. Sums(counts) = S
  BY DEF Sums
<1> HIDE DEF S
<1>8. S[0] = counts[0] /\ \A a \in Ages : a # 0 => S[a] = S[a - 1] + counts[a]
  BY <1>0, <1>6
<1>9. S \in [Ages -> Nat]
  <2> DEFINE U == {n \in 0 .. N : S[n] \in Nat}
  <2>1. 0 \in U
    BY <1>0, <1>8 DEF Counts
  <2>2. ASSUME NEW n \in 0 .. N, n \in U, n + 1 \in 0 .. N PROVE n + 1 \in U
    <3>1. n + 1 \in Ages /\ n + 1 # 0 /\ (n + 1) - 1 = n /\ counts[n + 1] \in Nat /\ S[n] \in Nat
      BY <1>0, <2>2 DEF Counts
    <3>2. S[n + 1] = S[n] + counts[n + 1]
      BY <1>8, <3>1
    <3> QED
      BY <2>2, <3>1, <3>2
  <2>3. 0 .. N \subseteq U
    <3> HIDE DEF N, U
    <3> QED
      BY <1>0, <2>1, <2>2, Induction
  <2> QED
    BY <1>0, <1>6, <2>3
<1> QED
  BY <1>7, <1>8, <1>9 DEF Counts

\* The terms of a sum bound it from below, and it grows with the number of terms.
LEMMA SumsGrow ==
  ASSUME NEW counts \in Counts, NEW m \in Ages, NEW n \in Ages, m <= n
  PROVE  /\ Sums(counts)[m] \in Nat /\ Sums(counts)[n] \in Nat
         /\ Sums(counts)[m] <= Sums(counts)[n]
         /\ counts[n] <= Sums(counts)[n]
<1> DEFINE S == Sums(counts)
           N == RateLimitWindow - 1
           T == {a \in 0 .. N : m <= a => S[m] <= S[a]}
<1>1. /\ \A a \in Ages : S[a] \in Nat /\ counts[a] \in Nat
      /\ S[0] = counts[0]
      /\ \A a \in Ages : a # 0 => S[a] = S[a - 1] + counts[a]
  BY SumsDef DEF Counts
<1> HIDE DEF S
<1>2. N \in Nat /\ Ages = 0 .. N /\ m \in Nat /\ n \in Nat
  BY Constants DEF Ages
<1>3. 0 \in T
  BY <1>1, <1>2
<1>4. ASSUME NEW a \in 0 .. N, a \in T, a + 1 \in 0 .. N
      PROVE  a + 1 \in T
  <2>1. S[a + 1] = S[a] + counts[a + 1] /\ S[a] \in Nat /\ counts[a + 1] \in Nat /\ S[m] \in Nat
    BY <1>1, <1>2, <1>4
  <2>2. CASE m = a + 1
    BY <1>4, <2>1, <2>2
  <2>3. CASE m # a + 1
    BY <1>2, <1>4, <2>1, <2>3
  <2> QED
    BY <2>2, <2>3
<1>5. 0 .. N \subseteq T
  <2> HIDE DEF N, T
  <2> QED
    BY <1>2, <1>3, <1>4, Induction
<1>6. S[m] <= S[n]
  BY <1>2, <1>5
<1>7. counts[n] <= S[n]
  <2>1. CASE n = 0
    BY <1>1, <1>2, <2>1
  <2>2. CASE n # 0
    <3>1. n - 1 \in Ages
      BY <1>2, <2>2
    <3> QED
      BY <1>1, <2>2, <3>1
  <2> QED
    BY <2>1, <2>2
<1> QED
  BY <1>1, <1>6, <1>7 DEF S

\* One more request now is one more in every stretch that ends now.
LEMMA SumsAdd ==
  ASSUME NEW counts \in Counts
  PROVE  LET more == [counts EXCEPT ![0] = @ + 1] IN
         more \in Counts /\ \A n \in Ages : Sums(more)[n] = Sums(counts)[n] + 1
<1> DEFINE more == [counts EXCEPT ![0] = @ + 1]
           S == Sums(counts)
           M == Sums(more)
           N == RateLimitWindow - 1
           T == {n \in 0 .. N : M[n] = S[n] + 1}
<1>0. N \in Nat /\ Ages = 0 .. N /\ 0 \in Ages
  BY Constants DEF Ages
<1>1. /\ more \in Counts /\ more[0] = counts[0] + 1
      /\ \A n \in Ages : n # 0 => more[n] = counts[n]
  BY <1>0 DEF Counts
<1>2. /\ \A a \in Ages : S[a] \in Nat /\ counts[a] \in Nat
      /\ S[0] = counts[0]
      /\ \A a \in Ages : a # 0 => S[a] = S[a - 1] + counts[a]
  BY SumsDef DEF Counts
<1>3. M[0] = counts[0] + 1 /\ \A a \in Ages : a # 0 => M[a] = M[a - 1] + counts[a]
  <2> HIDE DEF more
  <2>1. M[0] = more[0] /\ \A a \in Ages : a # 0 => M[a] = M[a - 1] + more[a]
    BY <1>1, SumsDef
  <2> QED
    BY <1>1, <2>1
<1> HIDE DEF S, M
<1>4. 0 \in T
  BY <1>0, <1>2, <1>3
<1>5. ASSUME NEW n \in 0 .. N, n \in T, n + 1 \in 0 .. N
      PROVE  n + 1 \in T
  <2>1. M[n + 1] = M[n] + counts[n + 1] /\ S[n + 1] = S[n] + counts[n + 1] /\ M[n] = S[n] + 1
    BY <1>0, <1>2, <1>3, <1>5
  <2>2. S[n] \in Nat /\ counts[n + 1] \in Nat
    BY <1>0, <1>2, <1>5
  <2> QED
    BY <1>5, <2>1, <2>2
<1>6. 0 .. N \subseteq T
  <2> HIDE DEF N, T
  <2> QED
    BY <1>0, <1>4, <1>5, Induction
<1> QED
  BY <1>0, <1>1, <1>6 DEF S, M

\* A tick moves every request one age up: the sums move with them.
LEMMA SumsShift ==
  ASSUME NEW counts \in Counts
  PROVE  LET later == [a \in Ages |-> IF a = 0 THEN 0 ELSE counts[a - 1]] IN
         /\ later \in Counts
         /\ Sums(later)[0] = 0
         /\ \A n \in Ages : n + 1 \in Ages => Sums(later)[n + 1] = Sums(counts)[n]
<1> DEFINE later == [a \in Ages |-> IF a = 0 THEN 0 ELSE counts[a - 1]]
           S == Sums(counts)
           L == Sums(later)
           N == RateLimitWindow - 1
           T == {n \in 0 .. N : n + 1 \in Ages => L[n + 1] = S[n]}
<1>0. N \in Nat /\ Ages = 0 .. N /\ 0 \in Ages
  BY Constants DEF Ages
<1>1. /\ later \in Counts /\ later[0] = 0
      /\ \A n \in Ages : n + 1 \in Ages => later[n + 1] = counts[n]
  BY <1>0 DEF Counts
<1>2. /\ \A a \in Ages : S[a] \in Nat /\ counts[a] \in Nat
      /\ S[0] = counts[0]
      /\ \A a \in Ages : a # 0 => S[a] = S[a - 1] + counts[a]
  BY SumsDef DEF Counts
<1>3. /\ L[0] = 0
      /\ \A n \in Ages : n + 1 \in Ages => L[n + 1] = L[n] + counts[n]
  <2> HIDE DEF later
  <2>1. L[0] = later[0] /\ \A a \in Ages : a # 0 => L[a] = L[a - 1] + later[a]
    BY <1>1, SumsDef
  <2>2. \A n \in Ages : n + 1 # 0 /\ (n + 1) - 1 = n
    BY <1>0
  <2> QED
    BY <1>1, <2>1, <2>2
<1> HIDE DEF S, L
<1>4. 0 \in T
  BY <1>0, <1>2, <1>3
<1>5. ASSUME NEW n \in 0 .. N, n \in T, n + 1 \in 0 .. N
      PROVE  n + 1 \in T
  <2> SUFFICES ASSUME n + 2 \in Ages PROVE L[n + 2] = S[n + 1]
    BY <1>5
  <2>1. L[n + 2] = L[n + 1] + counts[n + 1]
    BY <1>0, <1>3, <1>5
  <2>2. S[n + 1] = S[n] + counts[n + 1] /\ L[n + 1] = S[n]
    BY <1>0, <1>2, <1>5
  <2> QED
    BY <2>1, <2>2
<1>6. 0 .. N \subseteq T
  <2> HIDE DEF N, T
  <2> QED
    BY <1>0, <1>4, <1>5, Induction
<1> QED
  BY <1>0, <1>1, <1>3, <1>6 DEF S, L

-----------------------------------------------------------------------------
(* ApiKeys: the inductive invariant *)

\* A request past verifyKey's first read names a key that has been created,
\* and one that is about to spend has read a quota that is not used up.
Inv_Locals ==
  \A r \in Requests :
    /\ pc[r] \in {"spend", "reread", "serve"} => loc[r].key \in KeyId
    /\ pc[r] = "spend" => loc[r].remaining \in Nat \ {0}

\* Keys in the table were drawn, so the next one starts with a fresh balance.
Inv_Drawn == \A k \in keys : k.id <= drawn

\* A key's window w beside the requests let through.  A window that is over, or
\* dropped, leaves room for a whole new one: what is left of it in the last
\* RateLimitWindow ticks is short of the maximum by its first hit, which has
\* fallen out.  In a window still running, the hit that began it is as old as
\* the window, the hits since then are counted, and those before it belonged to
\* windows that are over.
OverOK(counts) ==
  counts[0] = 0 /\ Total(counts) < RateLimitMax
RunningOK(w, counts) ==
  /\ w.count >= 1 /\ counts[w.age] >= 1
  /\ Sums(counts)[w.age] <= w.count /\ Sums(counts)[w.age] <= RateLimitMax
  /\ Total(counts) < Sums(counts)[w.age] + RateLimitMax
Over(w) == w = NoWindow \/ w.age >= RateLimitWindow
RateOK(w, counts) ==
  IF Over(w) THEN OverOK(counts) ELSE RunningOK(w, counts)
Inv_Rate == \A k \in KeyId : RateOK(windows[k], recent[k])

\* The inductive invariant.
IInv ==
  /\ TypeOK
  /\ balance \in [KeyId -> Int]
  /\ Inv_Locals
  /\ Inv_Drawn
  /\ QuotaKept
  /\ Inv_Rate

KeyRow == [id : KeyId, enabled : BOOLEAN, remaining : Quota \cup {Unlimited}]
Locals == [key : KeyId \cup {0}, remaining : Quota \cup {Unlimited},
           attempt : 0 .. Attempts - 1, hook : BOOLEAN]

\* Goto keeps the request variables in their types.
LEMMA GotoType ==
  ASSUME NEW r \in Requests, NEW label \in PCs, NEW locals \in Locals,
         pc \in [Requests -> PCs], loc \in [Requests -> Locals],
         Goto(r, label, locals)
  PROVE  /\ pc' \in [Requests -> PCs] /\ loc' \in [Requests -> Locals]
         /\ pc'[r] = label /\ loc'[r] = locals
         /\ \A q \in Requests \ {r} : pc'[q] = pc[q] /\ loc'[q] = loc[q]
BY DEF Goto

LEMMA NoLocalsType == NoLocals \in Locals
BY Constants DEF NoLocals, Locals, Unlimited

\* Replacing a row by one of the same id keeps the table a table.
LEMMA Replace ==
  ASSUME NEW k \in keys, NEW row \in KeyRow, row.id = k.id,
         keys \subseteq KeyRow, \A a, b \in keys : a.id = b.id => a = b,
         keys' = (keys \ {k}) \cup {row}
  PROVE  /\ keys' \subseteq KeyRow
         /\ \A a, b \in keys' : a.id = b.id => a = b
OBVIOUS

\* The limiter's answer for a key is a window.
LEMMA HitType ==
  ASSUME windows \in [KeyId -> Window], NEW id \in KeyId
  PROVE  Collected \in [KeyId -> Window] /\ HitResult(id) \in Window
<1>1. NoWindow \in Window
  BY Constants DEF NoWindow, Window
<1>2. Collected \in [KeyId -> Window]
  BY <1>1 DEF Collected
<1>3. PICK w \in Window : w = Collected[id]
  BY <1>2
<1>4. [age |-> 0, count |-> 1] \in Window
  BY Constants DEF Window
<1>5. [w EXCEPT !.count = IF @ > RateLimitMax THEN @ ELSE @ + 1] \in Window
  BY Constants DEF Window
<1> QED
  BY <1>2, <1>3, <1>4, <1>5 DEF HitResult

\* A tick keeps a window and its requests in step.
LEMMA RateTick ==
  ASSUME NEW w \in Window, NEW counts \in Counts, RateOK(w, counts)
  PROVE  RateOK(IF w = NoWindow THEN NoWindow ELSE [w EXCEPT !.age = Older(@, OldAge)],
                [a \in Ages |-> IF a = 0 THEN 0 ELSE counts[a - 1]])
<1> DEFINE later == [a \in Ages |-> IF a = 0 THEN 0 ELSE counts[a - 1]]
           N == RateLimitWindow - 1
           older == [w EXCEPT !.age = Older(@, OldAge)]
<1>0. N \in Nat /\ Ages = 0 .. N /\ 0 \in Ages /\ N \in Ages /\ RateLimitWindow = N + 1
  BY Constants DEF Ages
<1>1. /\ later \in Counts /\ later[0] = 0
      /\ \A n \in Ages : n + 1 \in Ages => later[n + 1] = counts[n]
  BY <1>0 DEF Counts
<1>2. /\ Sums(later)[0] = 0
      /\ \A n \in Ages : n + 1 \in Ages => Sums(later)[n + 1] = Sums(counts)[n]
  BY SumsShift
<1>3. Sums(counts) \in Counts
  BY SumsDef
<1>4. Total(later) = IF N = 0 THEN 0 ELSE Sums(counts)[N - 1]
  <2>1. Total(later) = Sums(later)[N]
    BY DEF Total
  <2>2. N # 0 => N - 1 \in Ages /\ (N - 1) + 1 = N
    BY <1>0
  <2> HIDE DEF later, N
  <2> QED
    BY <1>0, <1>2, <2>1, <2>2
<1>5. Total(later) \in Nat /\ Total(counts) \in Nat /\ Total(later) <= Total(counts)
  <2>1. Total(counts) = Sums(counts)[N] /\ Sums(counts)[N] \in Nat
    BY <1>0, <1>3 DEF Total, Counts
  <2>2. N # 0 => /\ N - 1 \in Ages /\ Sums(counts)[N - 1] \in Nat
                 /\ Sums(counts)[N - 1] <= Sums(counts)[N]
    <3> SUFFICES ASSUME N # 0 PROVE N - 1 \in Ages /\ N - 1 <= N
      BY <1>0, SumsGrow
    <3> QED
      BY <1>0
  <2> HIDE DEF later, N
  <2> QED
    BY <1>4, <2>1, <2>2
<1>6. w.age \in Nat /\ w.count \in Nat /\ OldAge > RateLimitWindow
  BY Constants, SMTT(30) DEF Window, OldAge
<1>7. older.age = Older(w.age, OldAge) /\ older.count = w.count
  BY DEF Window
<1>8. CASE w = NoWindow
  BY <1>1, <1>5, <1>8, Constants DEF RateOK, Over, OverOK
<1>9. CASE w # NoWindow /\ w.age >= RateLimitWindow
  <2>1. older.age >= RateLimitWindow
    BY <1>6, <1>7, <1>9, Constants DEF Older
  <2> HIDE DEF later
  <2>2. OverOK(later)
    BY <1>1, <1>5, <1>9, Constants DEF RateOK, Over, OverOK
  <2> HIDE DEF older
  <2> QED
    BY <1>9, <2>1, <2>2 DEF RateOK, Over, older, later
<1>10. CASE w # NoWindow /\ ~ (w.age >= RateLimitWindow)
  <2> DEFINE a == w.age
  <2>1. /\ w.count >= 1 /\ counts[a] >= 1
        /\ Sums(counts)[a] <= w.count /\ Sums(counts)[a] <= RateLimitMax
        /\ Total(counts) < Sums(counts)[a] + RateLimitMax
    BY <1>10 DEF RateOK, Over, RunningOK
  <2>2. a \in Ages /\ older.age = a + 1 /\ counts[a] \in Nat /\ Sums(counts)[a] \in Nat
    <3>1. a \in Ages
      BY <1>0, <1>6, <1>10, Constants
    <3>2. older.age = a + 1
      BY <1>6, <1>7, <1>10, Constants DEF Older
    <3> QED
      BY <1>3, <3>1, <3>2 DEF Counts
  <2>3. older # NoWindow
    BY <1>7, <2>1 DEF NoWindow
  <2>4. CASE a = N
    <3>1. Total(counts) = Sums(counts)[a]
      BY <2>4 DEF Total
    <3>2. Total(later) < RateLimitMax
      <4>1. CASE N = 0
        BY <1>4, <4>1, Constants
      <4>2. CASE N # 0
        <5>1. Sums(counts)[N] = Sums(counts)[N - 1] + counts[N] /\ N - 1 \in Ages
          BY <1>0, <4>2, SumsDef
        <5>2. Sums(counts)[N - 1] \in Nat
          BY <1>3, <5>1 DEF Counts
        <5> HIDE DEF later, N
        <5> QED
          BY <1>4, <2>1, <2>2, <2>4, <4>2, <5>1, <5>2, Constants
      <4> QED
        BY <4>1, <4>2
    <3>3. OverOK(later)
      BY <1>1, <3>2 DEF OverOK
    <3>4. Over(older)
      BY <1>0, <2>2, <2>4 DEF Over
    <3> HIDE DEF later, older
    <3> QED
      BY <1>10, <3>3, <3>4 DEF RateOK, older, later
  <2>5. CASE a # N
    <3>1. a + 1 \in Ages /\ ~ (a + 1 >= RateLimitWindow)
      BY <1>0, <2>2, <2>5
    <3>2. Sums(later)[a + 1] = Sums(counts)[a] /\ later[a + 1] = counts[a]
      BY <1>1, <1>2, <2>2, <3>1
    <3>3. ~Over(older)
      BY <2>2, <2>3, <3>1 DEF Over
    <3> HIDE DEF later, older
    <3>4. Total(later) < Sums(later)[older.age] + RateLimitMax
      BY <1>5, <2>1, <2>2, <3>2, Constants
    <3>5. RunningOK(older, later)
      BY <1>7, <2>1, <2>2, <3>2, <3>4 DEF RunningOK
    <3> QED
      BY <1>10, <3>3, <3>5 DEF RateOK, older, later
  <2> QED
    BY <2>4, <2>5
<1> QED
  BY <1>8, <1>9, <1>10

\* A hit keeps a window and its requests in step: the one that opens a window
\* finds less than the maximum behind it, a later one is let through up to the
\* maximum and is counted.
LEMMA RateHit ==
  ASSUME NEW w \in Window, NEW counts \in Counts, RateOK(w, counts),
         NEW hit, hit = IF Over(w) THEN [age |-> 0, count |-> 1]
                        ELSE [w EXCEPT !.count = IF @ > RateLimitMax THEN @ ELSE @ + 1]
  PROVE  RateOK(hit, IF hit.count <= RateLimitMax THEN [counts EXCEPT ![0] = @ + 1] ELSE counts)
<1> DEFINE more == [counts EXCEPT ![0] = @ + 1]
           N == RateLimitWindow - 1
<1>0. N \in Nat /\ Ages = 0 .. N /\ 0 \in Ages /\ N \in Ages
  BY Constants DEF Ages
<1>1. /\ more \in Counts /\ more[0] = counts[0] + 1
      /\ \A n \in Ages : n # 0 => more[n] = counts[n]
      /\ \A n \in Ages : counts[n] \in Nat
  BY <1>0 DEF Counts
<1>2. \A n \in Ages : Sums(more)[n] = Sums(counts)[n] + 1
  BY SumsAdd
<1>3. \A n \in Ages : Sums(counts)[n] \in Nat
  BY SumsDef DEF Counts
<1> HIDE DEF more
<1>4. Total(more) = Total(counts) + 1 /\ Total(counts) \in Nat
  BY <1>0, <1>2, <1>3 DEF Total
<1>5. CASE Over(w)
  <2>1. hit.age = 0 /\ hit.count = 1 /\ ~Over(hit)
    BY <1>5, Constants DEF Over, NoWindow
  <2>2. OverOK(counts)
    BY <1>5 DEF RateOK
  <2>3. Sums(more)[0] = 1 /\ more[0] = 1
    BY <1>0, <1>1, <1>2, <2>2, SumsDef DEF OverOK
  <2>4. RunningOK(hit, more)
    BY <1>4, <2>1, <2>2, <2>3, Constants DEF RunningOK, OverOK
  <2> QED
    BY <2>1, <2>4, Constants DEF RateOK, more
<1>6. CASE ~Over(w)
  <2>0. w.age \in Ages /\ w.count \in Nat
    BY <1>6, Constants DEF Over, Window, Ages
  <2>1. /\ hit.age = w.age
        /\ hit.count = IF w.count > RateLimitMax THEN w.count ELSE w.count + 1
    BY <1>6 DEF Window
  <2>2. RunningOK(w, counts)
    BY <1>6 DEF RateOK
  <2>3. ~Over(hit)
    BY <1>6, <2>0, <2>1, <2>2 DEF Over, NoWindow, RunningOK
  <2>4. CASE hit.count <= RateLimitMax
    <3>1. hit.count = w.count + 1
      BY <2>0, <2>1, <2>4, Constants
    <3>2. more[hit.age] >= 1
      BY <1>0, <1>1, <2>0, <2>1, <2>2 DEF RunningOK
    <3>3. Sums(more)[hit.age] = Sums(counts)[w.age] + 1 /\ Sums(counts)[w.age] \in Nat
      BY <1>2, <1>3, <2>0, <2>1
    <3>4. RunningOK(hit, more)
      BY <1>4, <2>0, <2>2, <2>4, <3>1, <3>2, <3>3, Constants DEF RunningOK
    <3> QED
      BY <2>3, <2>4, <3>4 DEF RateOK, more
  <2>5. CASE ~ (hit.count <= RateLimitMax)
    <3>1. RunningOK(hit, counts)
      BY <1>3, <2>0, <2>1, <2>2, Constants DEF RunningOK
    <3> QED
      BY <2>3, <2>5, <3>1 DEF RateOK
  <2> QED
    BY <2>4, <2>5
<1> QED
  BY <1>5, <1>6

\* Collecting drops only windows that are over.
LEMMA RateCollected ==
  ASSUME windows \in [KeyId -> Window], NEW k \in KeyId, NEW counts,
         RateOK(windows[k], counts)
  PROVE  RateOK(Collected[k], counts)
<1>1. PICK longest \in Nat : longest = GCFactor * RateLimitWindow /\ longest >= RateLimitWindow
  BY Constants, SMTT(30)
<1>2. windows[k].age \in Nat
  BY Constants DEF Window
<1>3. \/ Collected[k] = windows[k]
      \/ Collected[k] = NoWindow /\ windows[k].age >= RateLimitWindow
  <2>1. \/ Collected[k] = windows[k]
        \/ Collected[k] = NoWindow /\ windows[k].age > longest
    BY <1>1 DEF Collected
  <2> QED
    BY <1>1, <1>2, <2>1, Constants
<1> QED
  BY <1>3 DEF RateOK, Over

\* Initially there are no keys and no requests.
LEMMA InitInv == Init => IInv
<1> SUFFICES ASSUME Init PROVE IInv
  OBVIOUS
<1>1. NoWindow \in Window
  BY Constants DEF NoWindow, Window
<1>2. TypeOK
  BY <1>1, NoLocalsType, Constants DEF Init, TypeOK, PCs, Locals
<1>3. balance \in [KeyId -> Int] /\ Inv_Locals /\ Inv_Drawn /\ QuotaKept
  BY DEF Init, Unlimited, Inv_Locals, Inv_Drawn, QuotaKept
<1>4. Inv_Rate
  <2> SUFFICES ASSUME NEW k \in KeyId PROVE OverOK(recent[k])
    BY DEF Init, Inv_Rate, RateOK, Over
  <2> DEFINE none == [a \in Ages |-> 0]
             N == RateLimitWindow - 1
             T == {n \in 0 .. N : Sums(none)[n] = 0}
  <2>0. N \in Nat /\ Ages = 0 .. N
    BY Constants DEF Ages
  <2>1. none \in Counts /\ recent[k] = none
    BY DEF Init, Counts
  <2>2. 0 \in T /\ \A n \in 0 .. N : n \in T /\ n + 1 \in 0 .. N => n + 1 \in T
    BY <2>0, <2>1, SumsDef
  <2>3. 0 .. N \subseteq T
    <3> HIDE DEF N, T
    <3> QED
      BY <2>0, <2>2, Induction
  <2>4. Total(none) = 0
    BY <2>0, <2>3 DEF Total
  <2> QED
    BY <2>0, <2>1, <2>4, Constants DEF OverOK
<1> QED
  BY <1>2, <1>3, <1>4 DEF IInv

\* Steps that touch neither keys nor limiter: only the request moves.
LEMMA RequestStep ==
  ASSUME IInv, NEW r \in Requests, NEW label \in PCs, NEW locals \in Locals,
         Goto(r, label, locals),
         UNCHANGED <<keys, drawn, balance, Limiter>>,
         label \in {"spend", "reread", "serve"} => locals.key \in KeyId,
         label = "spend" => locals.remaining \in Nat \ {0}
  PROVE  IInv'
<1>1. /\ pc' \in [Requests -> PCs] /\ loc' \in [Requests -> Locals]
      /\ pc'[r] = label /\ loc'[r] = locals
      /\ \A q \in Requests \ {r} : pc'[q] = pc[q] /\ loc'[q] = loc[q]
  BY GotoType DEF IInv, TypeOK, Locals
<1>2. TypeOK'
  BY <1>1 DEF IInv, TypeOK, Locals, Limiter
<1>3. Inv_Locals'
  BY <1>1 DEF IInv, Inv_Locals
<1> QED
  BY <1>2, <1>3 DEF IInv, Inv_Drawn, QuotaKept, Inv_Rate, Limiter

\* Steps that rewrite one row in place, without moving its id.
LEMMA RowStep ==
  ASSUME IInv, NEW k \in keys, NEW row \in KeyRow, row.id = k.id,
         keys' = (keys \ {k}) \cup {row},
         NEW b \in Int, row.remaining = b,
         balance' = [balance EXCEPT ![k.id] = b],
         UNCHANGED <<drawn, Limiter>>
  PROVE  /\ keys' \subseteq KeyRow /\ \A x, y \in keys' : x.id = y.id => x = y
         /\ balance' \in [KeyId -> Int]
         /\ Inv_Drawn' /\ QuotaKept'
<1>1. k.id \in KeyId
  BY DEF IInv, TypeOK, KeyRow
<1>2. keys' \subseteq KeyRow /\ \A x, y \in keys' : x.id = y.id => x = y
  BY Replace DEF IInv, TypeOK, KeyRow
<1>3. balance' \in [KeyId -> Int]
  BY DEF IInv
<1>4. Inv_Drawn'
  BY DEF IInv, Inv_Drawn
<1>5. QuotaKept'
  <2> SUFFICES ASSUME NEW x \in keys' PROVE x.remaining = balance'[x.id]
    BY DEF QuotaKept
  <2>1. CASE x = row
    BY <1>1, <2>1 DEF IInv
  <2>2. CASE x # row
    <3>1. x \in keys /\ x # k
      BY <2>2
    <3>2. x.id # k.id /\ x.id \in KeyId
      BY <3>1 DEF IInv, TypeOK
    <3> QED
      BY <3>1, <3>2, <1>1 DEF IInv, QuotaKept
  <2> QED
    BY <2>1, <2>2
<1> QED
  BY <1>2, <1>3, <1>4, <1>5

\* Every step keeps the invariant.
LEMMA NextInv == IInv /\ [Next]_vars => IInv'
<1> SUFFICES ASSUME IInv, [Next]_vars PROVE IInv'
  OBVIOUS
<1> USE DEF Locals
<1>0. loc \in [Requests -> Locals] /\ pc \in [Requests -> PCs] /\ keys \subseteq KeyRow
  BY DEF IInv, TypeOK, KeyRow
<1>1. CASE Tick
  <2>1. windows' \in [KeyId -> Window]
    <3> SUFFICES ASSUME NEW k \in KeyId
                 PROVE (IF windows[k] = NoWindow THEN NoWindow
                        ELSE [windows[k] EXCEPT !.age = Older(@, OldAge)]) \in Window
      BY <1>1 DEF Tick
    <3>1. PICK w \in Window : w = windows[k]
      BY DEF IInv, TypeOK
    <3>2. Older(w.age, OldAge) \in 0 .. OldAge
      BY Constants DEF Window, Older
    <3>3. NoWindow \in Window
      BY Constants DEF NoWindow, Window
    <3> QED
      BY <3>1, <3>2, <3>3 DEF Window
  <2>2. sinceGC' \in 0 .. GCInterval + 1
    BY <1>1, Constants DEF Tick, Older, IInv, TypeOK
  <2>3. recent' \in [KeyId -> [Ages -> Nat]]
    <3>1. 0 \in Ages /\ \A a \in Ages : a \in Nat /\ (a # 0 => a - 1 \in Ages)
      BY Constants DEF Ages
    <3>2. \A k \in KeyId, a \in Ages : recent[k][a] \in Nat
      BY DEF IInv, TypeOK
    <3>3. recent' = [k \in KeyId |-> [a \in Ages |-> IF a = 0 THEN 0 ELSE recent[k][a - 1]]]
      BY <1>1 DEF Tick
    <3> QED
      BY <3>1, <3>2, <3>3
  <2>4. Inv_Rate'
    <3> SUFFICES ASSUME NEW k \in KeyId PROVE RateOK(windows'[k], recent'[k])
      BY DEF Inv_Rate
    <3>1. windows[k] \in Window /\ recent[k] \in Counts /\ RateOK(windows[k], recent[k])
      BY DEF IInv, TypeOK, Inv_Rate, Counts
    <3>2. /\ windows'[k] = IF windows[k] = NoWindow THEN NoWindow
                           ELSE [windows[k] EXCEPT !.age = Older(@, OldAge)]
          /\ recent'[k] = [a \in Ages |-> IF a = 0 THEN 0 ELSE recent[k][a - 1]]
      BY <1>1 DEF Tick
    <3> QED
      BY <3>1, <3>2, RateTick
  <2> QED
    BY <1>1, <2>1, <2>2, <2>3, <2>4 DEF Tick, IInv, TypeOK, Inv_Locals, Inv_Drawn, QuotaKept
<1>2. ASSUME NEW k \in keys, NEW enabled \in BOOLEAN, SetEnabled(k, enabled)
      PROVE  IInv'
  <2> DEFINE row == [k EXCEPT !.enabled = enabled]
  <2>1. row \in KeyRow /\ row.id = k.id /\ row.remaining = k.remaining /\ k.id \in KeyId
    BY <1>0, <1>2 DEF KeyRow
  <2>2. k.remaining \in Int /\ balance' = [balance EXCEPT ![k.id] = k.remaining]
    BY <1>0, <1>2 DEF SetEnabled, IInv, QuotaKept, KeyRow, Quota, Unlimited
  <2>3. keys' = (keys \ {k}) \cup {row} /\ UNCHANGED <<drawn, Limiter>>
    BY <1>2 DEF SetEnabled
  <2> HIDE DEF row
  <2>4. keys' \subseteq KeyRow /\ (\A x, y \in keys' : x.id = y.id => x = y)
        /\ balance' \in [KeyId -> Int] /\ Inv_Drawn' /\ QuotaKept'
    BY <2>1, <2>2, <2>3, RowStep
  <2> QED
    BY <1>2, <2>4 DEF SetEnabled, IInv, TypeOK, KeyRow, Limiter, Inv_Locals, Inv_Rate
<1>3. ASSUME NEW k \in keys, NEW quota \in Quota \cup {Unlimited}, SetRemaining(k, quota)
      PROVE  IInv'
  <2> DEFINE row == [k EXCEPT !.remaining = quota]
  <2>1. row \in KeyRow /\ row.id = k.id /\ row.remaining = quota /\ quota \in Int
    BY <1>0, <1>3 DEF KeyRow, Quota, Unlimited
  <2>2. keys' \subseteq KeyRow /\ (\A x, y \in keys' : x.id = y.id => x = y)
        /\ balance' \in [KeyId -> Int] /\ Inv_Drawn' /\ QuotaKept'
    BY <1>3, <2>1, RowStep DEF SetRemaining
  <2> QED
    BY <1>3, <2>2 DEF SetRemaining, IInv, TypeOK, KeyRow, Limiter, Inv_Locals, Inv_Rate
<1>4. ASSUME NEW k \in keys, DeleteKey(k)
      PROVE  IInv'
  BY <1>4 DEF DeleteKey, IInv, TypeOK, Limiter, Inv_Locals, Inv_Drawn, QuotaKept, Inv_Rate
<1>5. ASSUME NEW k \in keys, NEW r \in Requests, NEW hook \in BOOLEAN, VerifyKey(r, k, hook)
      PROVE  IInv'
  <2> DEFINE label == IF k.remaining = Unlimited THEN "serve" ELSE "spend"
             read == [key |-> k.id, remaining |-> k.remaining, attempt |-> 0, hook |-> hook]
  <2>1. k.id \in KeyId /\ k.remaining \in Quota \cup {Unlimited} /\ k.remaining # 0
    BY <1>0, <1>5 DEF VerifyKey, KeyRow
  <2>2. read \in Locals /\ read.key = k.id /\ read.remaining = k.remaining
    BY <2>1, <1>5, Constants
  <2>3. label \in PCs /\ (label = "spend" => k.remaining \in Nat \ {0})
    BY <2>1 DEF PCs, Quota
  <2>4. Goto(r, label, read) /\ UNCHANGED <<keys, drawn, balance, Limiter>>
    BY <1>5 DEF VerifyKey
  <2> HIDE DEF label, read
  <2> QED
    BY <1>5, <2>1, <2>2, <2>3, <2>4, RequestStep
<1>6. ASSUME NEW r \in Requests, HandleCreate(r)
      PROVE  IInv'
  BY <1>6, RequestStep, NoLocalsType DEF HandleCreate, PCs
<1>7. ASSUME NEW r \in Requests, NEW quota \in Quota \cup {Unlimited}, CreateKey(r, quota)
      PROVE  IInv'
  <2> DEFINE row == [id |-> drawn + 1, enabled |-> TRUE, remaining |-> quota]
  <2>1. drawn + 1 \in KeyId /\ drawn' = drawn + 1 /\ drawn' \in 0 .. MaxKeys
    BY <1>7, Constants DEF CreateKey, IInv, TypeOK, KeyId
  <2>2. row \in KeyRow /\ row.id = drawn + 1 /\ row.remaining = quota
    BY <2>1, <1>7 DEF KeyRow
  <2>3. keys' = keys \cup {row} /\ balance' = [balance EXCEPT ![drawn + 1] = quota]
    BY <1>7, <2>1 DEF CreateKey
  <2>4. \A x \in keys : x.id \in KeyId /\ x.id # drawn + 1 /\ x.id <= drawn
    BY <2>1 DEF IInv, TypeOK, Inv_Drawn, KeyId
  <2>5. quota \in Int
    BY <1>7 DEF Quota, Unlimited
  <2> HIDE DEF row
  <2>6. keys' \subseteq KeyRow /\ \A x, y \in keys' : x.id = y.id => x = y
    BY <1>0, <2>2, <2>3, <2>4 DEF IInv, TypeOK
  <2>7. balance' \in [KeyId -> Int]
    BY <2>3, <2>5 DEF IInv
  <2>8. Inv_Drawn'
    BY <2>1, <2>2, <2>3, <2>4 DEF Inv_Drawn, IInv, TypeOK, KeyId
  <2>9. QuotaKept'
    BY <2>1, <2>2, <2>3, <2>4 DEF QuotaKept, IInv
  <2>10. /\ pc' \in [Requests -> PCs] /\ loc' \in [Requests -> Locals]
         /\ pc'[r] = "idle"
         /\ \A q \in Requests \ {r} : pc'[q] = pc[q] /\ loc'[q] = loc[q]
    BY <1>0, <1>7, GotoType, NoLocalsType DEF CreateKey, Return, PCs
  <2>11. Inv_Locals'
    BY <2>10 DEF IInv, Inv_Locals
  <2> QED
    BY <1>7, <2>1, <2>6, <2>7, <2>8, <2>9, <2>10, <2>11
       DEF CreateKey, IInv, TypeOK, KeyRow, Limiter, Inv_Rate
<1>8. ASSUME NEW r \in Requests, SpendQuota(r)
      PROVE  IInv'
  <2>1. PICK k \in keys : /\ k.id = loc[r].key /\ k.remaining = loc[r].remaining
                          /\ keys' = (keys \ {k}) \cup {[k EXCEPT !.remaining = @ - 1]}
    BY <1>8 DEF SpendQuota, Stored
  <2> DEFINE row == [k EXCEPT !.remaining = @ - 1]
  <2>2. k \in KeyRow /\ k.remaining \in Nat \ {0}
    BY <1>0, <1>8, <2>1 DEF SpendQuota, IInv, Inv_Locals
  <2>3. k.remaining - 1 \in Quota
    BY <2>2, Constants DEF KeyRow, Quota, Unlimited
  <2>4. row \in KeyRow /\ row.id = k.id /\ row.remaining = k.remaining - 1 /\ k.id \in KeyId
    BY <2>2, <2>3 DEF KeyRow
  <2>5. balance[k.id] = k.remaining
    BY DEF IInv, QuotaKept
  <2>6. balance' = [balance EXCEPT ![k.id] = k.remaining - 1] /\ k.remaining - 1 \in Int
    BY <1>8, <2>1, <2>2, <2>4, <2>5 DEF SpendQuota, IInv
  <2>7. UNCHANGED <<drawn, Limiter>> /\ keys' = (keys \ {k}) \cup {row}
    BY <1>8, <2>1 DEF SpendQuota
  <2> HIDE DEF row
  <2>8. keys' \subseteq KeyRow /\ (\A x, y \in keys' : x.id = y.id => x = y)
        /\ balance' \in [KeyId -> Int] /\ Inv_Drawn' /\ QuotaKept'
    BY <2>4, <2>6, <2>7, RowStep
  <2>9. /\ pc' \in [Requests -> PCs] /\ loc' \in [Requests -> Locals]
        /\ pc'[r] = "serve" /\ loc'[r] = loc[r]
        /\ \A q \in Requests \ {r} : pc'[q] = pc[q] /\ loc'[q] = loc[q]
    BY <1>0, <1>8, GotoType DEF SpendQuota, PCs
  <2>10. loc[r].key \in KeyId
    BY <1>8 DEF SpendQuota, IInv, Inv_Locals
  <2>11. Inv_Locals'
    BY <2>9, <2>10 DEF IInv, Inv_Locals
  <2> QED
    BY <2>7, <2>8, <2>9, <2>11 DEF IInv, TypeOK, KeyRow, Limiter, Inv_Rate
<1>9. ASSUME NEW r \in Requests, SpendContended(r)
      PROVE  IInv'
  <2>1. loc[r] \in Locals /\ loc[r].key \in KeyId
    BY <1>0, <1>9 DEF SpendContended, IInv, Inv_Locals
  <2> QED
    BY <1>9, <2>1, RequestStep DEF SpendContended, PCs
<1>10. ASSUME NEW r \in Requests, Reread(r)
       PROVE  IInv'
  <2>1. loc[r] \in Locals /\ loc[r].key \in KeyId
    BY <1>0, <1>10 DEF Reread, IInv, Inv_Locals
  <2>2. UNCHANGED <<keys, drawn, balance, Limiter>>
    BY <1>10 DEF Reread
  <2>3. CASE Goto(r, "serve", loc[r])
    BY <2>1, <2>2, <2>3, RequestStep DEF PCs
  <2>4. ASSUME NEW k \in keys, k.remaining > 0, loc[r].attempt + 1 < Attempts,
               Goto(r, "spend", [loc[r] EXCEPT !.remaining = k.remaining, !.attempt = @ + 1])
        PROVE  IInv'
    <3> DEFINE read == [loc[r] EXCEPT !.remaining = k.remaining, !.attempt = @ + 1]
    <3>1. k.remaining \in Quota /\ k.remaining \in Nat \ {0}
      BY <1>0, <2>4 DEF KeyRow, Quota, Unlimited
    <3>2. loc[r].attempt + 1 \in 0 .. Attempts - 1
      BY <2>1, <2>4, Constants
    <3>3. read \in Locals /\ read.key = loc[r].key /\ read.remaining = k.remaining
      BY <2>1, <3>1, <3>2
    <3>4. Goto(r, "spend", read)
      BY <2>4
    <3> HIDE DEF read
    <3> QED
      BY <2>1, <2>2, <3>1, <3>3, <3>4, RequestStep DEF PCs
  <2> QED
    BY <1>10, <2>3, <2>4 DEF Reread, Stored
<1>11. ASSUME NEW r \in Requests, Return(r), UNCHANGED <<keys, drawn, balance, Limiter>>
       PROVE  IInv'
  BY <1>11, RequestStep, NoLocalsType DEF Return, PCs
<1>12. ASSUME NEW r \in Requests, Serve(r)
       PROVE  IInv'
  <2>1. loc[r].key \in KeyId
    BY <1>12 DEF Serve, IInv, Inv_Locals
  <2>2. Collected \in [KeyId -> Window] /\ HitResult(loc[r].key) \in Window
    BY <2>1, HitType DEF IInv, TypeOK
  <2>3. windows' \in [KeyId -> Window]
    BY <1>12, <2>2 DEF Serve
  <2>4. sinceGC' \in 0 .. GCInterval + 1
    BY <1>12, Constants DEF Serve, IInv, TypeOK
  <2>5. recent' \in [KeyId -> [Ages -> Nat]]
    <3>1. recent \in [KeyId -> [Ages -> Nat]] /\ 0 \in Ages
      BY Constants DEF IInv, TypeOK, Ages
    <3>2. [recent EXCEPT ![loc[r].key][0] = @ + 1] \in [KeyId -> [Ages -> Nat]]
      BY <2>1, <3>1
    <3> QED
      BY <1>12, <3>1, <3>2 DEF Serve
  <2>6. /\ pc' \in [Requests -> PCs] /\ loc' \in [Requests -> Locals]
        /\ pc'[r] = "idle"
        /\ \A q \in Requests \ {r} : pc'[q] = pc[q] /\ loc'[q] = loc[q]
    BY <1>0, <1>12, GotoType, NoLocalsType DEF Serve, Return, PCs
  <2>7. Inv_Locals'
    BY <2>6 DEF IInv, Inv_Locals
  <2>8. Inv_Rate'
    <3> DEFINE id == loc[r].key
               hit == HitResult(id)
    <3> SUFFICES ASSUME NEW k \in KeyId PROVE RateOK(windows'[k], recent'[k])
      BY DEF Inv_Rate
    <3>1. RateOK(Collected[k], recent[k]) /\ Collected[k] \in Window /\ recent[k] \in Counts
      BY <2>2, RateCollected DEF IInv, TypeOK, Inv_Rate, Counts
    <3>2. CASE k = id
      <4>1. /\ windows'[k] = hit
            /\ recent'[k] = IF hit.count <= RateLimitMax THEN [recent[k] EXCEPT ![0] = @ + 1]
                            ELSE recent[k]
        BY <1>12, <2>1, <2>2, <3>2 DEF Serve, IInv, TypeOK
      <4>2. hit = IF Over(Collected[k]) THEN [age |-> 0, count |-> 1]
                  ELSE [Collected[k] EXCEPT !.count = IF @ > RateLimitMax THEN @ ELSE @ + 1]
        BY <3>2 DEF HitResult, Over
      <4> HIDE DEF hit, id
      <4> QED
        BY <3>1, <4>1, <4>2, RateHit
    <3>3. CASE k # id
      BY <1>12, <2>1, <2>2, <3>1, <3>3 DEF Serve, IInv, TypeOK
    <3> QED
      BY <3>2, <3>3
  <2> QED
    BY <1>12, <2>3, <2>4, <2>5, <2>6, <2>7, <2>8 DEF Serve, IInv, TypeOK, Inv_Drawn, QuotaKept
<1>13. CASE UNCHANGED vars
  BY <1>13 DEF vars, IInv, TypeOK, Inv_Locals, Inv_Drawn, QuotaKept, Inv_Rate
<1>14. CASE \E k \in keys :
              \/ \E enabled \in BOOLEAN : SetEnabled(k, enabled)
              \/ \E quota \in Quota \cup {Unlimited} : SetRemaining(k, quota)
              \/ DeleteKey(k)
              \/ \E r \in Requests : BeforeRequest(r, k) \/ HandleVerify(r, k)
  BY <1>2, <1>3, <1>4, <1>5, <1>14 DEF BeforeRequest, HandleVerify
<1>15. CASE \E r \in Requests :
              \/ HandleCreate(r) \/ \E quota \in Quota \cup {Unlimited} : CreateKey(r, quota)
              \/ SpendQuota(r) \/ SpendContended(r) \/ Reread(r) \/ Refuse(r)
              \/ OutOfScope(r) \/ AnswerValid(r) \/ Serve(r)
  BY <1>6, <1>7, <1>8, <1>9, <1>10, <1>11, <1>12, <1>15 DEF Refuse, OutOfScope, AnswerValid
<1> QED
  BY <1>1, <1>13, <1>14, <1>15 DEF Next

\* Rows, windows and locals of the API key plugin always have their types; the
\* attempts of spendQuota, in particular, stay below their maximum.
THEOREM TypeCorrect == Spec => []TypeOK
<1>1. IInv => TypeOK
  BY DEF IInv
<1> QED
  BY <1>1, InitInv, NextInv, PTL DEF Spec

\* Each verification spends one unit of a key's quota, however many requests
\* race with each other and with the owner's updates.
THEOREM QuotaHolds == Spec => []QuotaKept
<1>1. IInv => QuotaKept
  BY DEF IInv
<1> QED
  BY <1>1, InitInv, NextInv, PTL DEF Spec

\* No key gets through twice the maximum in any stretch of a window's length:
\* a window holds at most the maximum, and when one starts, the first hit of the
\* one before it is at least a window old.
THEOREM RateHolds == Spec => []KeyRateBounded
<1>1. IInv => KeyRateBounded
  <2> SUFFICES ASSUME IInv, NEW k \in KeyId PROVE Total(recent[k]) < 2 * RateLimitMax
    BY DEF KeyRateBounded
  <2>1. recent[k] \in Counts /\ windows[k] \in Window /\ RateOK(windows[k], recent[k])
    BY DEF IInv, TypeOK, Inv_Rate, Counts
  <2>2. Sums(recent[k]) \in [Ages -> Nat] /\ Total(recent[k]) \in Nat
    BY <2>1, SumsDef, Constants DEF Counts, Total, Ages
  <2>3. CASE Over(windows[k])
    BY <2>1, <2>2, <2>3, Constants DEF RateOK, OverOK
  <2>4. CASE ~Over(windows[k])
    <3>1. windows[k].age \in Ages
      BY <2>1, <2>4, Constants DEF Over, Window, Ages
    <3> QED
      BY <2>1, <2>2, <2>4, <3>1, Constants DEF RateOK, RunningOK
  <2> QED
    BY <2>3, <2>4
<1> QED
  BY <1>1, InitInv, NextInv, PTL DEF Spec

-----------------------------------------------------------------------------
(* SecretRotation: pages *)

Rest == {i \in Ids : i > pass.cursor /\ table[i] # NoRow}
Before(i) == {j \in Rest : j < i}

\* What the assumption says of each constant.
LEMMA RotationConstants ==
  Rows \in Nat /\ BatchSize \in Nat /\ BatchSize > 0 /\ MaxWrites \in Nat /\ MaxFailures \in Nat
BY SecretRotationAssumption DEF SecretRotationAssumption

LEMMA BeforeFinite ==
  ASSUME NEW i \in Ids
  PROVE  IsFiniteSet(Rest) /\ IsFiniteSet(Before(i)) /\ Cardinality(Before(i)) \in Nat
<1>1. IsFiniteSet(Ids)
  BY FS_Interval, RotationConstants DEF Ids
<1>2. IsFiniteSet(Rest)
  BY <1>1, FS_Subset DEF Rest
<1>3. IsFiniteSet(Before(i))
  BY <1>2, FS_Subset DEF Before
<1> QED
  BY <1>2, <1>3, FS_CardinalityType

\* A page is an initial piece of the rows after the cursor.
LEMMA PageInitial ==
  /\ Page \subseteq Rest
  /\ \A m \in Page, i \in Rest : i <= m => i \in Page
<1>1. Page = {i \in Rest : Cardinality(Before(i)) < BatchSize}
  BY DEF Page, Rest, Before
<1>2. ASSUME NEW m \in Page, NEW i \in Rest, i <= m
      PROVE  i \in Page
  <2>1. m \in Rest /\ Cardinality(Before(m)) < BatchSize
    BY <1>1
  <2>2. m \in Ids /\ i \in Ids
    BY <2>1 DEF Rest
  <2>3. Before(i) \subseteq Before(m)
    <3>1. \A j \in Rest : j < i => j < m
      BY <1>2, <2>2, RotationConstants DEF Rest, Ids
    <3> QED
      BY <3>1 DEF Before
  <2>4. Cardinality(Before(i)) <= Cardinality(Before(m))
    BY <2>2, <2>3, BeforeFinite, FS_Subset
  <2> QED
    BY <1>1, <2>1, <2>2, <2>4, BeforeFinite, RotationConstants
<1> QED
  BY <1>1, <1>2

\* A page that is not full is the last one.
LEMMA PageLast == Cardinality(Page) # BatchSize => Page = Rest
<1> SUFFICES ASSUME Page # Rest PROVE Cardinality(Page) = BatchSize
  OBVIOUS
<1>1. Page = {i \in Rest : Cardinality(Before(i)) < BatchSize}
  BY DEF Page, Rest, Before
<1>2. PICK m \in Rest \ Page : \A n \in Rest \ Page : m <= n
  <2>1. Rest \ Page # {} /\ Rest \ Page \subseteq Nat
    BY <1>1, RotationConstants DEF Rest, Ids
  <2> QED
    BY <2>1, Least
<1>3. Rest \subseteq Nat /\ Rest \subseteq 0 .. Rows /\ Rest \subseteq Ids
  BY RotationConstants DEF Rest, Ids
<1>4. Page = Before(m)
  <2>1. \A j \in Rest : j < m => j \in Page
    BY <1>2, <1>3
  <2>2. \A j \in Page : j \in Rest /\ j < m
    BY <1>2, <1>3, PageInitial
  <2> QED
    BY <2>1, <2>2 DEF Before
<1>5. Cardinality(Page) >= BatchSize /\ Cardinality(Page) \in Nat /\ IsFiniteSet(Page)
  <2>1. IsFiniteSet(Before(m)) /\ Cardinality(Before(m)) \in Nat
    BY <1>2, <1>3, BeforeFinite
  <2>2. ~ (Cardinality(Before(m)) < BatchSize)
    BY <1>1, <1>2
  <2> QED
    BY <1>4, <2>1, <2>2, RotationConstants
<1>6. Page # {}
  BY <1>5, FS_EmptySet, RotationConstants
<1>7. PICK last \in Page : \A n \in Page : n <= last
  <2>1. Page \subseteq 0 .. Rows
    BY <1>3, PageInitial
  <2> QED
    BY <1>6, <2>1, Greatest, RotationConstants
<1>8. Page \ {last} = Before(last)
  <2>1. \A j \in Rest : j < last => j \in Page /\ j # last
    BY <1>3, <1>7, PageInitial
  <2>2. \A j \in Page \ {last} : j \in Rest /\ j < last
    BY <1>3, <1>7, PageInitial
  <2> QED
    BY <2>1, <2>2 DEF Before
<1>9. Cardinality(Before(last)) = Cardinality(Page) - 1
  BY <1>5, <1>7, <1>8, FS_RemoveElement
<1>10. Cardinality(Before(last)) < BatchSize
  BY <1>1, <1>7
<1> QED
  BY <1>5, <1>9, <1>10, RotationConstants

\* The cell of pass.read whose turn it is exists.
LEMMA TurnRead ==
  ASSUME pass.read # {}, \A c \in pass.read : c.place \in Place
  PROVE  Turn \in pass.read
<1> DEFINE S == {c.place[1] : c \in pass.read}
<1>1. S # {} /\ S \subseteq Nat
  BY RotationConstants DEF Place, Ids
<1> HIDE DEF S
<1>2. PICK i \in S : \A j \in S : i <= j
  BY <1>1, Least
<1>3. PICK c \in pass.read : i = c.place[1]
  BY <1>2 DEF S
<1>4. \A d \in pass.read : c.place[1] <= d.place[1]
  BY <1>2, <1>3 DEF S
<1> QED
  BY <1>4 DEF Turn

-----------------------------------------------------------------------------
(* SecretRotation: the inductive invariant *)

Cell == [place : Place, value : Ciphertext]
PassType == [on : BOOLEAN, cursor : 0 .. Rows, read : SUBSET Cell, full : BOOLEAN, clean : BOOLEAN]
HasRow(p) == table[p[1]] # NoRow
UpToDate(c) == c.key = "new" /\ c.format = 2

Inv_Types ==
  /\ RotationTypeOK
  /\ table \in [Ids -> [Fields -> Ciphertext] \cup {NoRow}]
  /\ pass \in PassType

\* The deploys, the pass and done: an instance drops the old secret only when a
\* pass was Done, and a pass runs only while the whole fleet reads both secrets.
Inv_Stages ==
  /\ \A m, n \in Instances : stage[m] <= stage[n] + 1
  /\ \A n \in Instances : stage[n] = 2 => done
  /\ done => ~pass.on /\ \A n \in Instances : stage[n] >= 1
  /\ pass.on => \A n \in Instances : stage[n] = 1
  /\ pass.read # {} => pass.on

\* Done is the truth, and stays it.
Inv_Done == done => \A p \in Place : HasRow(p) => UpToDate(CellAt(p))

\* What a pass has to say of a cell that is not up to date: while nothing has kept
\* it from being Done, the cell is still ahead of it, behind the cursor only if it
\* is on the page in hand; nothing is ahead of a page that was not full; and the
\* page in hand does not show the cell as up to date.
Inv_Pass ==
  pass.on => \A p \in Place : HasRow(p) /\ ~UpToDate(CellAt(p)) =>
    /\ pass.clean => p[1] > pass.cursor \/ \E c \in pass.read : c.place = p
    /\ ~pass.full => p[1] <= pass.cursor
    /\ \A c \in pass.read : c.place = p => ~UpToDate(c.value)

RotationIInv == Inv_Types /\ Inv_Stages /\ Inv_Done /\ Inv_Pass

\* Cells of rows are ciphertexts, bound to their own place when they are bound.
LEMMA CellType ==
  ASSUME Inv_Types, NEW p \in Place
  PROVE  /\ p[1] \in Ids /\ p[2] \in Fields
         /\ HasRow(p) => /\ CellAt(p) \in Ciphertext
                         /\ CellAt(p).place = IF CellAt(p).format = 2 THEN p ELSE NoPlace
         /\ ~HasRow(p) => CellAt(p) = NoCell
<1>1. p[1] \in Ids /\ p[2] \in Fields
  BY DEF Place
<1>2. table[p[1]] \in [Fields -> Ciphertext] \/ table[p[1]] = NoRow
  BY <1>1 DEF Inv_Types
<1>3. HasRow(p) => CellAt(p) \in Ciphertext
  BY <1>1, <1>2 DEF HasRow, CellAt
<1>4. HasRow(p) => CellAt(p).place = IF CellAt(p).format = 2 THEN p ELSE NoPlace
  BY DEF Inv_Types, RotationTypeOK, HasRow, CellAt
<1>5. ~HasRow(p) => CellAt(p) = NoCell
  BY <1>1 DEF HasRow, CellAt, NoRow
<1> QED
  BY <1>1, <1>3, <1>4, <1>5

\* What Encrypt makes from stage 1 on is up to date.
LEMMA EncryptType ==
  ASSUME NEW s \in 0 .. 2, NEW p \in Place, NEW plain \in 0 .. MaxWrites
  PROVE  LET c == Encrypt(s, p, plain) IN
         /\ c \in Ciphertext /\ c.place = p /\ c.format = 2 /\ c.plain = plain
         /\ s >= 1 => UpToDate(c)
BY DEF Encrypt, Current, Ciphertext, UpToDate

\* Initially every value is under the old secret and there is no pass.
LEMMA RotationInitInv == RotationInit => RotationIInv
<1> SUFFICES ASSUME RotationInit PROVE RotationIInv
  OBVIOUS
<1>1. PICK formats \in [Fields -> 0 .. 2] :
        table = [i \in Ids |-> [f \in Fields |->
                  [key |-> "old", format |-> formats[f], plain |-> 0,
                   place |-> IF formats[f] = 2 THEN <<i, f>> ELSE NoPlace]]]
  BY DEF RotationInit
<1>2. ASSUME NEW i \in Ids PROVE table[i] \in [Fields -> Ciphertext]
  BY <1>1, RotationConstants DEF Ciphertext, Place
<1>3. ASSUME NEW p \in Place
      PROVE  table[p[1]][p[2]].place = IF table[p[1]][p[2]].format = 2 THEN p ELSE NoPlace
  BY <1>1 DEF Place
<1>4. pass = NoPass /\ NoPass \in PassType
  BY RotationConstants DEF RotationInit, NoPass, PassType
<1>5. table \in [Ids -> [Fields -> Ciphertext] \cup {NoRow}]
  BY <1>1, <1>2
<1>6. /\ stage \in [Instances -> 0 .. 2] /\ writes \in 0 .. MaxWrites /\ failures \in 0 .. MaxFailures
      /\ pass.cursor \in 0 .. Rows
  BY <1>4, RotationConstants DEF RotationInit, NoPass
<1>7. pass.on \in BOOLEAN /\ pass.full \in BOOLEAN /\ pass.clean \in BOOLEAN
  BY <1>4 DEF PassType
<1>8. done \in BOOLEAN
  BY DEF RotationInit
<1>9. Inv_Types
  BY <1>2, <1>3, <1>4, <1>5, <1>6, <1>7, <1>8 DEF Inv_Types, RotationTypeOK
<1> QED
  BY <1>4, <1>9 DEF RotationInit, RotationIInv, Inv_Stages, Inv_Done, Inv_Pass, NoPass

\* A step that rewrites one cell with what an instance encrypts: types stay, and a
\* cell that was up to date stays so unless the instance is at stage 0.
LEMMA OneCell ==
  ASSUME Inv_Types, NEW p \in Place, HasRow(p),
         NEW s \in 0 .. 2, NEW plain \in 0 .. MaxWrites,
         table' = [table EXCEPT ![p[1]][p[2]] = Encrypt(s, p, plain)]
  PROVE  /\ table' \in [Ids -> [Fields -> Ciphertext] \cup {NoRow}]
         /\ \A i \in Ids : table'[i] = NoRow \/ table'[i] \in [Fields -> Ciphertext]
         /\ \A q \in Place : HasRow(q)' =>
              CellAt(q)'.place = IF CellAt(q)'.format = 2 THEN q ELSE NoPlace
         /\ \A q \in Place : HasRow(q)' => HasRow(q)
         /\ \A q \in Place : HasRow(q)' /\ q # p => CellAt(q)' = CellAt(q)
         /\ CellAt(p)' = Encrypt(s, p, plain)
<1> DEFINE c == Encrypt(s, p, plain)
           row == [table[p[1]] EXCEPT ![p[2]] = c]
<1>1. c \in Ciphertext /\ c.place = p /\ c.format = 2
  BY EncryptType
<1>2. p[1] \in Ids /\ p[2] \in Fields /\ table[p[1]] \in [Fields -> Ciphertext]
  BY CellType DEF Inv_Types, HasRow
<1> HIDE DEF c
<1>3. row \in [Fields -> Ciphertext]
  BY <1>1, <1>2
<1>4. table' = [table EXCEPT ![p[1]] = row]
  BY DEF c
<1>5. DOMAIN table = Ids /\ \A i \in Ids : table[i] = NoRow \/ table[i] \in [Fields -> Ciphertext]
  BY DEF Inv_Types, RotationTypeOK
<1>6. table'[p[1]] = row /\ \A i \in Ids : i # p[1] => table'[i] = table[i]
  BY <1>2, <1>4, <1>5
<1>7. row[p[2]] = c /\ \A f \in Fields : f # p[2] => row[f] = table[p[1]][f]
  BY <1>2
<1> HIDE DEF row
<1>8. table' \in [Ids -> [Fields -> Ciphertext] \cup {NoRow}]
  BY <1>3, <1>4 DEF Inv_Types
<1>9. \A i \in Ids : table'[i] = NoRow \/ table'[i] \in [Fields -> Ciphertext]
  BY <1>3, <1>5, <1>6
<1>10. CellAt(p)' = c
  BY <1>6, <1>7 DEF CellAt
<1>11. ASSUME NEW q \in Place, q # p, HasRow(q)'
       PROVE  CellAt(q)' = CellAt(q)
  <2>1. q[1] \in Ids /\ q[2] \in Fields /\ (q[1] # p[1] \/ q[2] # p[2])
    BY <1>11 DEF Place
  <2> QED
    BY <1>6, <1>7, <2>1 DEF CellAt
<1>12. ASSUME NEW q \in Place, HasRow(q)' PROVE HasRow(q)
  <2>1. q[1] \in Ids
    BY DEF Place
  <2> QED
    BY <1>6, <1>12, <2>1 DEF HasRow
<1>13. ASSUME NEW q \in Place, HasRow(q)'
       PROVE  CellAt(q)'.place = IF CellAt(q)'.format = 2 THEN q ELSE NoPlace
  <2>1. CASE q = p
    BY <1>1, <1>10, <2>1
  <2>2. CASE q # p
    BY <1>11, <1>12, <1>13, <2>2, CellType
  <2> QED
    BY <2>1, <2>2
<1> QED
  BY <1>8, <1>9, <1>10, <1>11, <1>12, <1>13 DEF c

\* A step of the requests or the pass that leaves stages and done alone, and after
\* which a cell is new and up to date or what it was before, keeps the invariant
\* if the pass is as it was or has found something not to be Done about.
LEMMA CellsStep ==
  ASSUME RotationIInv, Inv_Types', UNCHANGED <<stage, done>>,
         \A q \in Place : HasRow(q)' =>
           \/ HasRow(q) /\ CellAt(q)' = CellAt(q)
           \/ (\A n \in Instances : stage[n] >= 1) => UpToDate(CellAt(q)'),
         \/ UNCHANGED pass
         \/ /\ pass'.on = pass.on /\ pass'.cursor = pass.cursor /\ pass'.full = pass.full
            /\ pass'.read \subseteq pass.read /\ ~pass'.clean
  PROVE  RotationIInv'
<1>1. Inv_Stages'
  BY DEF RotationIInv, Inv_Stages
<1>2. Inv_Done'
  <2> SUFFICES ASSUME done, NEW q \in Place, HasRow(q)' PROVE UpToDate(CellAt(q)')
    BY DEF Inv_Done, UpToDate
  <2>1. \A n \in Instances : stage[n] >= 1
    BY DEF RotationIInv, Inv_Stages
  <2> QED
    BY <2>1 DEF RotationIInv, Inv_Done
<1>3. Inv_Pass'
  <2> SUFFICES ASSUME pass'.on, NEW q \in Place, HasRow(q)', ~UpToDate(CellAt(q)')
               PROVE  /\ pass'.clean => q[1] > pass'.cursor \/ \E c \in pass'.read : c.place = q
                      /\ ~pass'.full => q[1] <= pass'.cursor
                      /\ \A c \in pass'.read : c.place = q => ~UpToDate(c.value)
    BY DEF Inv_Pass, UpToDate
  <2>1. pass.on
    OBVIOUS
  <2>2. \A n \in Instances : stage[n] >= 1
    BY <2>1 DEF RotationIInv, Inv_Stages
  <2>3. HasRow(q) /\ ~UpToDate(CellAt(q))
    BY <2>2
  <2>4. /\ pass.clean => q[1] > pass.cursor \/ \E c \in pass.read : c.place = q
        /\ ~pass.full => q[1] <= pass.cursor
        /\ \A c \in pass.read : c.place = q => ~UpToDate(c.value)
    BY <2>1, <2>3 DEF RotationIInv, Inv_Pass
  <2> QED
    BY <2>4
<1> QED
  BY <1>1, <1>2, <1>3 DEF RotationIInv

\* Types after a step, put together.
LEMMA TypesStep ==
  ASSUME stage' \in [Instances -> 0 .. 2], done' \in BOOLEAN, pass' \in PassType,
         writes' \in 0 .. MaxWrites, failures' \in 0 .. MaxFailures,
         table' \in [Ids -> [Fields -> Ciphertext] \cup {NoRow}],
         \A q \in Place : HasRow(q)' =>
           CellAt(q)'.place = IF CellAt(q)'.format = 2 THEN q ELSE NoPlace
  PROVE  Inv_Types'
<1>1. pass'.cursor \in 0 .. Rows
  BY DEF PassType
<1>2. pass'.on \in BOOLEAN /\ pass'.full \in BOOLEAN /\ pass'.clean \in BOOLEAN
  BY DEF PassType
<1>3. \A i \in Ids : table'[i] = NoRow \/ table'[i] \in [Fields -> Ciphertext]
  OBVIOUS
<1>4. RotationTypeOK'
  BY <1>1, <1>2, <1>3 DEF RotationTypeOK, HasRow, CellAt
<1> QED
  BY <1>4 DEF Inv_Types

\* The parts of the types that steps leave alone.
LEMMA Typed ==
  ASSUME Inv_Types
  PROVE  /\ stage \in [Instances -> 0 .. 2] /\ done \in BOOLEAN /\ pass \in PassType
         /\ writes \in 0 .. MaxWrites /\ failures \in 0 .. MaxFailures
         /\ table \in [Ids -> [Fields -> Ciphertext] \cup {NoRow}]
         /\ \A q \in Place : HasRow(q) =>
              CellAt(q).place = IF CellAt(q).format = 2 THEN q ELSE NoPlace
<1>1. done \in BOOLEAN
  BY DEF Inv_Types, RotationTypeOK
<1> QED
  BY <1>1, CellType DEF Inv_Types, RotationTypeOK

LEMMA NoPassType == NoPass \in PassType /\ [NoPass EXCEPT !.on = TRUE] \in PassType
<1>1. NoPass \in PassType
  BY RotationConstants DEF NoPass, PassType
<1> QED
  BY <1>1 DEF PassType

\* A request writes a cell.
LEMMA WriteCellInv ==
  ASSUME RotationIInv, NEW n \in Instances, NEW p \in Place, WriteCell(n, p)
  PROVE  RotationIInv'
<1>0. Inv_Types
  BY DEF RotationIInv
<1>1. writes' \in 0 .. MaxWrites /\ stage[n] \in 0 .. 2 /\ HasRow(p)
  BY <1>0, Typed, RotationConstants DEF WriteCell, HasRow
<1>2. table' = [table EXCEPT ![p[1]][p[2]] = Encrypt(stage[n], p, writes')]
      /\ UNCHANGED <<stage, failures, pass, done>>
  BY DEF WriteCell
<1>3. PICK s \in 0 .. 2, plain \in 0 .. MaxWrites :
        s = stage[n] /\ table' = [table EXCEPT ![p[1]][p[2]] = Encrypt(s, p, plain)]
  BY <1>1, <1>2
<1>4. /\ table' \in [Ids -> [Fields -> Ciphertext] \cup {NoRow}]
      /\ \A q \in Place : HasRow(q)' =>
           CellAt(q)'.place = IF CellAt(q)'.format = 2 THEN q ELSE NoPlace
      /\ \A q \in Place : HasRow(q)' => HasRow(q)
      /\ \A q \in Place : HasRow(q)' /\ q # p => CellAt(q)' = CellAt(q)
      /\ CellAt(p)' = Encrypt(s, p, plain)
  BY <1>0, <1>1, <1>3, OneCell
<1>5. Inv_Types'
  BY <1>0, <1>1, <1>2, <1>4, Typed, TypesStep
<1>6. ASSUME NEW q \in Place, HasRow(q)'
      PROVE  \/ HasRow(q) /\ CellAt(q)' = CellAt(q)
             \/ (\A m \in Instances : stage[m] >= 1) => UpToDate(CellAt(q)')
  <2>1. s >= 1 => UpToDate(Encrypt(s, p, plain))
    BY EncryptType
  <2> QED
    BY <1>3, <1>4, <1>6, <2>1
<1> QED
  BY <1>2, <1>5, <1>6, CellsStep

\* A row is created.
LEMMA InsertRowInv ==
  ASSUME RotationIInv, NEW n \in Instances, NEW i \in Ids, InsertRow(n, i)
  PROVE  RotationIInv'
<1>0. Inv_Types
  BY DEF RotationIInv
<1>1. writes' \in 0 .. MaxWrites /\ stage[n] \in 0 .. 2
  BY <1>0, Typed, RotationConstants DEF InsertRow
<1> DEFINE row == [f \in Fields |-> Encrypt(stage[n], <<i, f>>, writes')]
<1>2. /\ table' = [table EXCEPT ![i] = row]
      /\ UNCHANGED <<stage, failures, pass, done>>
  BY DEF InsertRow
<1>3. \A f \in Fields :
        LET c == row[f] IN
        /\ c \in Ciphertext /\ c.place = <<i, f>> /\ c.format = 2
        /\ stage[n] >= 1 => UpToDate(c)
  <2> SUFFICES ASSUME NEW f \in Fields
               PROVE  LET c == Encrypt(stage[n], <<i, f>>, writes') IN
                      /\ c \in Ciphertext /\ c.place = <<i, f>> /\ c.format = 2
                      /\ stage[n] >= 1 => UpToDate(c)
    OBVIOUS
  <2>1. <<i, f>> \in Place
    BY DEF Place
  <2> QED
    BY <1>1, <2>1, EncryptType
<1>4. row \in [Fields -> Ciphertext]
  BY <1>3
<1> HIDE DEF row
<1>5. table' \in [Ids -> [Fields -> Ciphertext] \cup {NoRow}] /\ DOMAIN table = Ids
  BY <1>0, <1>2, <1>4, Typed
<1>6. table'[i] = row /\ \A j \in Ids : j # i => table'[j] = table[j]
  BY <1>2, <1>5
<1>7. ASSUME NEW q \in Place, HasRow(q)', q[1] # i
      PROVE  HasRow(q) /\ CellAt(q)' = CellAt(q)
  BY <1>6, <1>7, CellType, <1>0 DEF HasRow, CellAt
<1>8. ASSUME NEW q \in Place, q[1] = i
      PROVE  /\ CellAt(q)'.place = q /\ CellAt(q)'.format = 2
             /\ stage[n] >= 1 => UpToDate(CellAt(q)')
  <2>1. q = <<i, q[2]>> /\ q[2] \in Fields
    BY <1>8 DEF Place
  <2>2. CellAt(q)' = row[q[2]]
    BY <1>6, <1>8 DEF CellAt
  <2> QED
    BY <1>3, <2>1, <2>2
<1>9. Inv_Types'
  BY <1>0, <1>1, <1>2, <1>5, <1>7, <1>8, Typed, TypesStep
<1>10. ASSUME NEW q \in Place, HasRow(q)'
       PROVE  \/ HasRow(q) /\ CellAt(q)' = CellAt(q)
              \/ (\A m \in Instances : stage[m] >= 1) => UpToDate(CellAt(q)')
  BY <1>7, <1>8, <1>10
<1> QED
  BY <1>2, <1>9, <1>10, CellsStep

\* A row is deleted.
LEMMA DeleteRowInv ==
  ASSUME RotationIInv, NEW i \in Ids, DeleteRow(i)
  PROVE  RotationIInv'
<1>0. Inv_Types
  BY DEF RotationIInv
<1>1. writes' \in 0 .. MaxWrites
  BY <1>0, Typed, RotationConstants DEF DeleteRow
<1>2. table' = [table EXCEPT ![i] = NoRow] /\ UNCHANGED <<stage, failures, pass, done>>
  BY DEF DeleteRow
<1>3. table' \in [Ids -> [Fields -> Ciphertext] \cup {NoRow}] /\ DOMAIN table = Ids
  BY <1>0, <1>2, Typed
<1>4. table'[i] = NoRow /\ \A j \in Ids : j # i => table'[j] = table[j]
  BY <1>2, <1>3
<1>5. ASSUME NEW q \in Place, HasRow(q)'
      PROVE  HasRow(q) /\ CellAt(q)' = CellAt(q)
  <2>1. q[1] \in Ids
    BY DEF Place
  <2> QED
    BY <1>4, <1>5, <2>1 DEF HasRow, CellAt
<1>6. Inv_Types'
  BY <1>0, <1>1, <1>2, <1>3, <1>5, Typed, TypesStep
<1> QED
  BY <1>2, <1>5, <1>6, CellsStep

\* A step that leaves the table alone keeps its part of the types.
LEMMA SameTable ==
  ASSUME Inv_Types, UNCHANGED <<table, writes>>,
         stage' \in [Instances -> 0 .. 2], done' \in BOOLEAN, pass' \in PassType,
         failures' \in 0 .. MaxFailures
  PROVE  Inv_Types'
<1>1. \A q \in Place : (HasRow(q)' <=> HasRow(q)) /\ CellAt(q)' = CellAt(q)
  BY DEF HasRow, CellAt
<1> QED
  BY <1>1, Typed, TypesStep

\* The operator deploys: stage 2 comes after a pass that was Done.
LEMMA DeployInv ==
  ASSUME RotationIInv, NEW n \in Instances, Deploy(n)
  PROVE  RotationIInv'
<1>0. Inv_Types /\ stage \in [Instances -> 0 .. 2] /\ pass \in PassType
  BY Typed DEF RotationIInv
<1>1. /\ stage' = [stage EXCEPT ![n] = stage[n] + 1] /\ stage[n] < 2 /\ stage[n] \in 0 .. 2
      /\ \A m \in Instances : stage[m] >= stage[n]
      /\ stage[n] = 1 => done
      /\ ~pass.on
      /\ UNCHANGED <<table, writes, failures, pass, done>>
  BY <1>0 DEF Deploy
<1>2. stage' \in [Instances -> 0 .. 2]
  BY <1>0, <1>1
<1>3. Inv_Types'
  BY <1>0, <1>1, <1>2, Typed, SameTable
<1>4. /\ stage'[n] = stage[n] + 1 /\ \A m \in Instances : m # n => stage'[m] = stage[m]
      /\ \A m \in Instances : stage[m] \in 0 .. 2
  BY <1>0, <1>1
<1>5. Inv_Stages'
  BY <1>1, <1>4 DEF RotationIInv, Inv_Stages
<1>6. Inv_Done' /\ Inv_Pass'
  BY <1>1 DEF RotationIInv, Inv_Done, Inv_Pass, HasRow, CellAt, UpToDate
<1> QED
  BY <1>3, <1>5, <1>6 DEF RotationIInv

\* A pass starts before the first row.
LEMMA StartPassInv == RotationIInv /\ StartPass => RotationIInv'
<1> SUFFICES ASSUME RotationIInv, StartPass PROVE RotationIInv'
  OBVIOUS
<1>0. Inv_Types
  BY DEF RotationIInv
<1>1. /\ \A n \in Instances : stage[n] = 1
      /\ ~done
      /\ pass' = [NoPass EXCEPT !.on = TRUE]
      /\ UNCHANGED <<stage, table, writes, failures, done>>
  BY DEF StartPass
<1>2. pass'.on /\ pass'.cursor = 0 /\ pass'.read = {} /\ pass'.full
  BY <1>1 DEF NoPass
<1>3. Inv_Types'
  BY <1>0, <1>1, NoPassType, Typed, SameTable
<1>4. Inv_Stages'
  BY <1>1, <1>2 DEF RotationIInv, Inv_Stages
<1>5. Inv_Pass'
  <2>1. \A p \in Place : p[1] > 0
    BY RotationConstants DEF Place, Ids
  <2> QED
    BY <1>2, <2>1 DEF Inv_Pass
<1> QED
  BY <1>1, <1>3, <1>4, <1>5 DEF RotationIInv, Inv_Done

\* The pass ends with an error or a crash: nothing is claimed.
LEMMA AbortInv ==
  ASSUME RotationIInv, pass' = NoPass, failures' \in 0 .. MaxFailures,
         UNCHANGED <<stage, table, writes, done>>
  PROVE  RotationIInv'
<1>0. Inv_Types
  BY DEF RotationIInv
<1>1. ~pass'.on /\ pass'.read = {}
  BY DEF NoPass
<1>2. Inv_Types'
  BY <1>0, NoPassType, Typed, SameTable
<1>3. Inv_Stages'
  BY <1>1 DEF RotationIInv, Inv_Stages
<1>4. Inv_Done' /\ Inv_Pass'
  BY <1>1 DEF RotationIInv, Inv_Done, Inv_Pass, HasRow, CellAt, UpToDate
<1> QED
  BY <1>2, <1>3, <1>4 DEF RotationIInv

\* The last page is worked off: Done is what has been checked of every row.
LEMMA EndPassInv == RotationIInv /\ EndPass => RotationIInv'
<1> SUFFICES ASSUME RotationIInv, EndPass PROVE RotationIInv'
  OBVIOUS
<1>0. Inv_Types
  BY DEF RotationIInv
<1>1. /\ pass.on /\ pass.read = {} /\ ~pass.full
      /\ done' = pass.clean /\ pass' = NoPass
      /\ UNCHANGED <<stage, table, writes, failures>>
  BY DEF EndPass
<1>2. ~pass'.on /\ pass'.read = {}
  BY <1>1 DEF NoPass
<1>3. pass.cursor \in 0 .. Rows /\ pass.clean \in BOOLEAN
  <2>1. pass \in PassType
    BY <1>0, Typed
  <2> QED
    BY <2>1 DEF PassType
<1>4. Inv_Types'
  BY <1>0, <1>1, <1>3, NoPassType, Typed, SameTable
<1>5. Inv_Stages'
  BY <1>1, <1>2 DEF RotationIInv, Inv_Stages
<1>6. Inv_Done'
  <2> SUFFICES ASSUME pass.clean, NEW p \in Place, HasRow(p), ~UpToDate(CellAt(p)) PROVE FALSE
    BY <1>1 DEF Inv_Done, HasRow, CellAt, UpToDate
  <2>1. p[1] > pass.cursor /\ p[1] <= pass.cursor
    BY <1>1 DEF RotationIInv, Inv_Pass
  <2>2. p[1] \in Nat
    BY RotationConstants DEF Place, Ids
  <2> QED
    BY <1>3, <2>1, <2>2
<1>7. Inv_Pass'
  BY <1>2 DEF Inv_Pass
<1> QED
  BY <1>4, <1>5, <1>6, <1>7 DEF RotationIInv

\* The next page is read: what was ahead of the pass is on the page or still ahead,
\* and nothing is if the page is not full.
LEMMA ReadPageInv == RotationIInv /\ ReadPage => RotationIInv'
<1> SUFFICES ASSUME RotationIInv, ReadPage PROVE RotationIInv'
  OBVIOUS
<1> DEFINE cells == {[place |-> p, value |-> table[p[1]][p[2]]] : p \in Page \X Fields}
           cursor == IF Page = {} THEN pass.cursor ELSE CHOOSE i \in Page : \A j \in Page : j <= i
<1>0. Inv_Types /\ pass \in PassType /\ pass.cursor \in 0 .. Rows
  <2>1. Inv_Types /\ pass \in PassType
    BY Typed DEF RotationIInv
  <2> QED
    BY <2>1 DEF PassType
<1>1. /\ pass.on /\ pass.read = {} /\ pass.full
      /\ pass' = [pass EXCEPT !.read = cells, !.full = Cardinality(Page) = BatchSize, !.cursor = cursor]
      /\ UNCHANGED <<stage, table, writes, failures, done>>
  BY DEF ReadPage
<1>2. Rest \subseteq Ids /\ Page \subseteq Rest /\ \A i \in Rest : table[i] # NoRow /\ i > pass.cursor
  BY PageInitial DEF Rest
<1>3. /\ Page # {} => cursor \in Page /\ \A j \in Page : j <= cursor
      /\ cursor \in 0 .. Rows
  <2>1. CASE Page = {}
    BY <1>0, <2>1
  <2>2. CASE Page # {}
    <3>1. Page \subseteq 0 .. Rows
      BY <1>2, RotationConstants DEF Ids
    <3>2. \E i \in Page : \A j \in Page : j <= i
      BY <2>2, <3>1, Greatest, RotationConstants
    <3> QED
      BY <2>2, <3>1, <3>2
  <2> QED
    BY <2>1, <2>2
<1>4. cells \subseteq Cell
  <2> SUFFICES ASSUME NEW p \in Page \X Fields
               PROVE  [place |-> p, value |-> table[p[1]][p[2]]] \in Cell
    OBVIOUS
  <2>1. p \in Place /\ HasRow(p)
    BY <1>2 DEF Place, HasRow
  <2>2. table[p[1]][p[2]] \in Ciphertext
    BY <1>0, <2>1, CellType DEF CellAt
  <2> QED
    BY <2>1, <2>2 DEF Cell
<1>5. \A c \in cells : c.value = CellAt(c.place)
  BY DEF CellAt
<1>6. \A p \in Place : p[1] \in Page => \E c \in cells : c.place = p
  <2> SUFFICES ASSUME NEW p \in Place, p[1] \in Page
               PROVE  \E c \in cells : c.place = p
    OBVIOUS
  <2>1. p \in Page \X Fields
    BY DEF Place
  <2> DEFINE c == [place |-> p, value |-> table[p[1]][p[2]]]
  <2>2. c \in cells /\ c.place = p
    BY <2>1
  <2> QED
    BY <2>2
<1> HIDE DEF cells, cursor
<1>7. (Cardinality(Page) = BatchSize) \in BOOLEAN
  OBVIOUS
<1>8. /\ pass' \in PassType /\ pass'.on = pass.on /\ pass'.read = cells
      /\ pass'.cursor = cursor /\ pass'.full = (Cardinality(Page) = BatchSize)
  BY <1>0, <1>1, <1>3, <1>4, <1>7 DEF PassType
<1>9. Inv_Types'
  BY <1>0, <1>1, <1>8, Typed, SameTable
<1>10. Inv_Stages'
  BY <1>1, <1>8 DEF RotationIInv, Inv_Stages
<1>11. Inv_Done'
  BY <1>1 DEF RotationIInv, Inv_Done, HasRow, CellAt, UpToDate
<1>12. Inv_Pass'
  <2> SUFFICES ASSUME NEW p \in Place, HasRow(p), ~UpToDate(CellAt(p))
               PROVE  /\ pass'.clean => p[1] > cursor \/ \E c \in cells : c.place = p
                      /\ ~pass'.full => p[1] <= cursor
                      /\ \A c \in cells : c.place = p => ~UpToDate(c.value)
    BY <1>1, <1>8 DEF Inv_Pass, HasRow, CellAt, UpToDate
  <2>1. p[1] \in Ids /\ p[1] \in Nat
    BY RotationConstants DEF Place, Ids
  <2>2. pass.clean => p[1] > pass.cursor
    BY <1>1 DEF RotationIInv, Inv_Pass
  <2>3. pass'.clean = pass.clean
    BY <1>0, <1>1 DEF PassType
  <2>4. p[1] > pass.cursor => p[1] \in Rest
    BY <2>1 DEF Rest, HasRow
  <2>5. pass'.clean => p[1] > cursor \/ \E c \in cells : c.place = p
    <3> SUFFICES ASSUME pass.clean, ~ (p[1] > cursor) PROVE \E c \in cells : c.place = p
      BY <2>3
    <3>1. p[1] \in Rest /\ p[1] > pass.cursor
      BY <2>2, <2>4
    <3>2. Page # {}
      BY <3>1 DEF cursor
    <3>3. p[1] \in Page
      BY <1>3, <2>1, <3>1, <3>2, PageInitial
    <3> QED
      BY <1>6, <3>3
  <2>6. ~pass'.full => p[1] <= cursor
    <3> SUFFICES ASSUME Cardinality(Page) # BatchSize PROVE p[1] <= cursor
      BY <1>8
    <3>1. Page = Rest
      BY PageLast
    <3>2. CASE p[1] \in Rest
      BY <1>3, <3>1, <3>2
    <3>3. CASE p[1] \notin Rest
      <4>1. p[1] <= pass.cursor
        BY <1>0, <2>1, <2>4, <3>3
      <4>2. pass.cursor <= cursor
        <5>1. CASE Page = {}
          BY <1>0, <5>1 DEF cursor
        <5>2. CASE Page # {}
          BY <1>0, <1>2, <1>3, <5>2
        <5> QED
          BY <5>1, <5>2
      <4> QED
        BY <1>0, <1>3, <2>1, <4>1, <4>2
    <3> QED
      BY <3>2, <3>3
  <2>7. \A c \in cells : c.place = p => ~UpToDate(c.value)
    BY <1>5
  <2> QED
    BY <2>5, <2>6, <2>7
<1> QED
  BY <1>9, <1>10, <1>11, <1>12 DEF RotationIInv

\* The cell whose turn it is, what is read of it, and what working it off leaves.
LEMMA TurnStep ==
  ASSUME RotationIInv, pass.read # {}, NEW clean \in BOOLEAN, Processed(clean)
  PROVE  /\ Turn \in Cell /\ Turn \in pass.read /\ pass.on
         /\ pass' \in PassType
         /\ pass'.on = pass.on /\ pass'.cursor = pass.cursor /\ pass'.full = pass.full
         /\ pass'.read = pass.read \ {Turn} /\ pass'.clean = (pass.clean /\ clean)
<1>1. pass \in PassType
  BY Typed DEF RotationIInv
<1>2. pass.read \subseteq Cell /\ pass.clean \in BOOLEAN
  BY <1>1 DEF PassType
<1>3. Turn \in pass.read
  BY <1>2, TurnRead DEF Cell
<1>4. pass' = [pass EXCEPT !.read = pass.read \ {Turn}, !.clean = pass.clean /\ clean]
  BY <1>1 DEF Processed, PassType
<1>5. pass.read \ {Turn} \in SUBSET Cell /\ (pass.clean /\ clean) \in BOOLEAN
  BY <1>2
<1>6. pass.on
  BY DEF RotationIInv, Inv_Stages
<1> QED
  BY <1>1, <1>2, <1>3, <1>4, <1>5, <1>6 DEF PassType

\* A cell that was read as up to date is left: it still is.
LEMMA LeaveFieldInv == RotationIInv /\ LeaveField => RotationIInv'
<1> SUFFICES ASSUME RotationIInv, LeaveField PROVE RotationIInv'
  OBVIOUS
<1>0. Inv_Types
  BY DEF RotationIInv
<1>1. /\ pass.read # {} /\ ~NeedsReencryption(1, Turn.value) /\ Processed(TRUE)
      /\ UNCHANGED <<stage, table, writes, failures, done>>
  BY DEF LeaveField
<1>2. /\ Turn \in pass.read /\ pass.on
      /\ pass' \in PassType
      /\ pass'.on = pass.on /\ pass'.cursor = pass.cursor /\ pass'.full = pass.full
      /\ pass'.read = pass.read \ {Turn} /\ pass'.clean = (pass.clean /\ TRUE)
  BY <1>1, TurnStep
<1>3. UpToDate(Turn.value)
  BY <1>1 DEF NeedsReencryption, Current, UpToDate
<1>4. Inv_Types'
  BY <1>0, <1>1, <1>2, Typed, SameTable
<1>5. Inv_Stages'
  BY <1>1, <1>2 DEF RotationIInv, Inv_Stages
<1>6. Inv_Done'
  BY <1>1 DEF RotationIInv, Inv_Done, HasRow, CellAt, UpToDate
<1>7. Inv_Pass'
  <2> SUFFICES ASSUME NEW p \in Place, HasRow(p), ~UpToDate(CellAt(p))
               PROVE  /\ pass'.clean => p[1] > pass'.cursor \/ \E c \in pass'.read : c.place = p
                      /\ ~pass'.full => p[1] <= pass'.cursor
                      /\ \A c \in pass'.read : c.place = p => ~UpToDate(c.value)
    BY <1>1 DEF Inv_Pass, HasRow, CellAt, UpToDate
  <2>1. /\ pass.clean => p[1] > pass.cursor \/ \E c \in pass.read : c.place = p
        /\ ~pass.full => p[1] <= pass.cursor
        /\ \A c \in pass.read : c.place = p => ~UpToDate(c.value)
    BY <1>2 DEF RotationIInv, Inv_Pass
  <2>2. Turn.place # p
    BY <1>2, <1>3, <2>1
  <2> QED
    BY <1>2, <2>1, <2>2
<1> QED
  BY <1>4, <1>5, <1>6, <1>7 DEF RotationIInv

\* A cell that was read as out of date: it is rewritten if it is still what was read,
\* and the pass is not Done in any case.
LEMMA ReencryptFieldInv == RotationIInv /\ ReencryptField => RotationIInv'
<1> SUFFICES ASSUME RotationIInv, ReencryptField PROVE RotationIInv'
  OBVIOUS
<1>0. Inv_Types
  BY DEF RotationIInv
<1>1. /\ pass.read # {} /\ Processed(FALSE)
      /\ table' = IF Decryptable(1, Turn.place, Turn.value) /\ CellAt(Turn.place) = Turn.value
                  THEN [table EXCEPT ![Turn.place[1]][Turn.place[2]] =
                          Encrypt(1, Turn.place, Turn.value.plain)]
                  ELSE table
      /\ UNCHANGED <<stage, writes, failures, done>>
  BY DEF ReencryptField
<1>2. /\ Turn \in Cell
      /\ pass' \in PassType
      /\ pass'.on = pass.on /\ pass'.cursor = pass.cursor /\ pass'.full = pass.full
      /\ pass'.read = pass.read \ {Turn} /\ pass'.clean = (pass.clean /\ FALSE)
  BY <1>1, TurnStep
<1>3. PICK p \in Place, value \in Ciphertext : p = Turn.place /\ value = Turn.value
  BY <1>2 DEF Cell
<1>4. CASE Decryptable(1, p, value) /\ CellAt(p) = value
  <2>1. HasRow(p)
    <3>1. NoCell \notin Ciphertext
      BY DEF NoCell, Ciphertext
    <3> QED
      BY <1>0, <1>4, <3>1, CellType
  <2>2. table' = [table EXCEPT ![p[1]][p[2]] = Encrypt(1, p, value.plain)]
    BY <1>1, <1>3, <1>4
  <2>3. PICK s \in 0 .. 2, plain \in 0 .. MaxWrites :
          s = 1 /\ table' = [table EXCEPT ![p[1]][p[2]] = Encrypt(s, p, plain)]
    <3>1. 1 \in 0 .. 2 /\ value.plain \in 0 .. MaxWrites
      BY DEF Ciphertext
    <3> QED
      BY <2>2, <3>1
  <2>4. /\ table' \in [Ids -> [Fields -> Ciphertext] \cup {NoRow}]
        /\ \A q \in Place : HasRow(q)' =>
             CellAt(q)'.place = IF CellAt(q)'.format = 2 THEN q ELSE NoPlace
        /\ \A q \in Place : HasRow(q)' => HasRow(q)
        /\ \A q \in Place : HasRow(q)' /\ q # p => CellAt(q)' = CellAt(q)
        /\ CellAt(p)' = Encrypt(s, p, plain)
    BY <1>0, <2>1, <2>3, OneCell
  <2>5. UpToDate(Encrypt(s, p, plain))
    BY <2>3, EncryptType
  <2>6. Inv_Types'
    BY <1>0, <1>1, <1>2, <2>4, Typed, TypesStep
  <2>7. ASSUME NEW q \in Place, HasRow(q)'
        PROVE  \/ HasRow(q) /\ CellAt(q)' = CellAt(q)
               \/ (\A n \in Instances : stage[n] >= 1) => UpToDate(CellAt(q)')
    BY <2>4, <2>5, <2>7
  <2> QED
    BY <1>1, <1>2, <2>6, <2>7, CellsStep
<1>5. CASE ~ (Decryptable(1, p, value) /\ CellAt(p) = value)
  <2>1. table' = table
    BY <1>1, <1>3, <1>5
  <2>2. Inv_Types'
    BY <1>0, <1>1, <1>2, <2>1, Typed, SameTable
  <2>3. \A q \in Place : HasRow(q)' => HasRow(q) /\ CellAt(q)' = CellAt(q)
    BY <2>1 DEF HasRow, CellAt
  <2> QED
    BY <1>1, <1>2, <2>2, <2>3, CellsStep
<1> QED
  BY <1>4, <1>5

\* The write back fails.
LEMMA ReencryptFieldFailsInv == RotationIInv /\ ReencryptFieldFails => RotationIInv'
<1> SUFFICES ASSUME RotationIInv, ReencryptFieldFails PROVE RotationIInv'
  OBVIOUS
<1>0. Inv_Types
  BY DEF RotationIInv
<1>1. /\ pass.read # {} /\ Processed(FALSE) /\ failures' = failures + 1 /\ failures < MaxFailures
      /\ UNCHANGED <<stage, table, writes, done>>
  BY DEF ReencryptFieldFails
<1>2. failures' \in 0 .. MaxFailures
  BY <1>0, <1>1, Typed, RotationConstants
<1>3. /\ pass' \in PassType
      /\ pass'.on = pass.on /\ pass'.cursor = pass.cursor /\ pass'.full = pass.full
      /\ pass'.read = pass.read \ {Turn} /\ pass'.clean = (pass.clean /\ FALSE)
  BY <1>1, TurnStep
<1>4. Inv_Types'
  BY <1>0, <1>1, <1>2, <1>3, Typed, SameTable
<1>5. \A q \in Place : HasRow(q)' => HasRow(q) /\ CellAt(q)' = CellAt(q)
  BY <1>1 DEF HasRow, CellAt
<1> QED
  BY <1>1, <1>3, <1>4, <1>5, CellsStep

\* Every step keeps the invariant.
LEMMA RotationNextInv == RotationIInv /\ [RotationNext]_rotationVars => RotationIInv'
<1> SUFFICES ASSUME RotationIInv, [RotationNext]_rotationVars PROVE RotationIInv'
  OBVIOUS
<1>1. ASSUME NEW n \in Instances, NEW p \in Place, WriteCell(n, p) \/ RefreshToken(n, p)
      PROVE  RotationIInv'
  BY <1>1, WriteCellInv DEF RefreshToken
<1>2. ASSUME CrashPass \/ ReadPageFails PROVE RotationIInv'
  <2>1. failures \in 0 .. MaxFailures
    BY Typed DEF RotationIInv
  <2>2. /\ pass' = NoPass /\ failures' \in 0 .. MaxFailures
        /\ UNCHANGED <<stage, table, writes, done>>
    BY <1>2, <2>1, RotationConstants DEF CrashPass, ReadPageFails
  <2> QED
    BY <2>2, AbortInv
<1>3. CASE UNCHANGED rotationVars
  BY <1>3 DEF rotationVars, RotationIInv, Inv_Types, RotationTypeOK, Inv_Stages, Inv_Done, Inv_Pass,
              HasRow, CellAt, UpToDate
<1> QED
  BY <1>1, <1>2, <1>3, InsertRowInv, DeleteRowInv, DeployInv, StartPassInv, ReadPageInv, LeaveFieldInv,
     ReencryptFieldInv, EndPassInv, ReencryptFieldFailsInv DEF RotationNext, Pass

\* Stages, rows, ciphertexts and the state of a pass have their types; a bound
\* ciphertext, in particular, is never found outside the place it is bound to.
THEOREM RotationTypeCorrect == RotationSpec => []RotationTypeOK
<1>1. RotationIInv => RotationTypeOK
  BY DEF RotationIInv, Inv_Types
<1> QED
  BY <1>1, RotationInitInv, RotationNextInv, PTL DEF RotationSpec

\* At any point of the deploys, of the passes, their crashes and failing calls, and
\* of the writes beside them, instances that have left stage 0 read every value.
THEOREM NothingIsStranded == RotationSpec => []NothingStranded
<1>1. RotationIInv => NothingStranded
  <2> SUFFICES ASSUME RotationIInv, NEW n \in Instances, NEW p \in Place,
                      stage[n] >= 1, HasRow(p)
               PROVE  Decryptable(stage[n], p, CellAt(p))
    BY DEF NothingStranded, maybeDecrypt, CellAt, HasRow
  <2>1. /\ CellAt(p) \in Ciphertext
        /\ CellAt(p).place = IF CellAt(p).format = 2 THEN p ELSE NoPlace
        /\ stage[n] \in 0 .. 2
    BY CellType, Typed DEF RotationIInv
  <2>2. CASE stage[n] = 1
    BY <2>1, <2>2 DEF Decryptable, Keyring, AcceptsUnbound, Ciphertext
  <2>3. CASE stage[n] = 2
    <3>1. UpToDate(CellAt(p))
      BY <2>3 DEF RotationIInv, Inv_Stages, Inv_Done
    <3> QED
      BY <2>1, <2>3, <3>1 DEF UpToDate, Decryptable, Keyring, Current
  <2> QED
    BY <2>1, <2>2, <2>3
<1> QED
  BY <1>1, RotationInitInv, RotationNextInv, PTL DEF RotationSpec

\* Nothing the operator or the pass does changes what a column says, whatever a
\* request writes between the read of a page and the write back of a field.
THEOREM NothingIsReverted == RotationSpec => NeverReverted
<1> DEFINE Kept ==
      writes' = writes => \A p \in Place :
        CellAt(p) # NoCell /\ CellAt(p)' # NoCell => CellAt(p)'.plain = CellAt(p).plain
<1>1. RotationIInv /\ [RotationNext]_rotationVars => [Kept]_rotationVars
  <2> SUFFICES ASSUME RotationIInv, [RotationNext]_rotationVars, writes' = writes,
                      NEW p \in Place, CellAt(p) # NoCell
               PROVE  CellAt(p)'.plain = CellAt(p).plain
    OBVIOUS
  <2>1. writes \in Nat /\ writes' # writes + 1
    <3>1. writes \in 0 .. MaxWrites
      BY Typed DEF RotationIInv
    <3> QED
      BY <3>1, RotationConstants
  <2>2. CASE table' = table
    BY <2>2 DEF CellAt
  <2>3. CASE ReencryptField
    <3> DEFINE c == Turn
               hit == Decryptable(1, c.place, c.value) /\ CellAt(c.place) = c.value
    <3>1. /\ pass.read # {} /\ Processed(FALSE)
          /\ table' = IF hit
                      THEN [table EXCEPT ![c.place[1]][c.place[2]] = Encrypt(1, c.place, c.value.plain)]
                      ELSE table
      BY <2>3 DEF ReencryptField
    <3>2. c.place \in Place
      BY <3>1, TurnStep DEF Cell
    <3>3. CASE ~hit
      BY <3>1, <3>3 DEF CellAt
    <3>4. CASE hit
      <4> DEFINE e == Encrypt(1, c.place, c.value.plain)
      <4>1. e.plain = CellAt(c.place).plain
        BY <3>4 DEF Encrypt
      <4>2. /\ p[1] \in Ids /\ c.place[1] \in Ids /\ table \in [Ids -> [Fields -> Ciphertext] \cup {NoRow}]
            /\ DOMAIN table[p[1]] = Fields /\ p[2] \in Fields
        BY <3>2, Typed DEF Place, RotationIInv, NoRow
      <4>3. table' = [table EXCEPT ![c.place[1]][c.place[2]] = e]
        BY <3>1, <3>4
      <4>4. p # c.place => p[1] # c.place[1] \/ p[2] # c.place[2]
        BY <3>2 DEF Place
      <4> HIDE DEF c, e
      <4>5. CellAt(p)' = IF p = c.place THEN e ELSE CellAt(p)
        BY <4>2, <4>3, <4>4 DEF CellAt
      <4> QED
        BY <4>1, <4>5
    <3> QED
      BY <3>3, <3>4
  <2> QED
    BY <2>1, <2>2, <2>3 DEF RotationNext, WriteCell, RefreshToken, InsertRow, DeleteRow, Deploy,
       StartPass, CrashPass, Pass, ReadPage, LeaveField, EndPass, ReadPageFails, ReencryptFieldFails,
       rotationVars
<1> QED
  BY <1>1, RotationInitInv, RotationNextInv, PTL DEF RotationSpec, NeverReverted
=============================================================================
