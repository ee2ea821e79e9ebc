--------------------------- MODULE ServerProofs -----------------------------
(***************************************************************************)
(* Proofs about components of the server, the rate limiter (RateLimiter),  *)
(* the delay detector (DelayDetector), the morning briefing (Briefing),    *)
(* the arrivals with their cancellations (Transformer) and the transfer    *)
(* engine (TransferEngine), for any intervals, limits, clients, trips,     *)
(* subscriptions and networks; and about their sum (MCServer).             *)
(***************************************************************************)
EXTENDS MCServer, StatefulClientProofs, FiniteSetTheorems, SequenceTheorems, WellFoundedInduction, TLAPS

-----------------------------------------------------------------------------
(***************************************************************************)
(* Whole intervals, and least and last elements.                           *)
(***************************************************************************)

(* What \div and % are.                                                    *)
LEMMA DivMod ==
    ASSUME NEW a \in Int, NEW d \in Nat \ {0}
    PROVE  /\ a \div d \in Int
           /\ a % d \in 0 .. d - 1
           /\ a = (a \div d) * d + (a % d)
OBVIOUS

(* They are the only numbers that are so.                                  *)
LEMMA DivUnique ==
    ASSUME NEW a \in Int, NEW d \in Nat \ {0}, NEW q \in Int, q * d <= a, a < q * d + d
    PROVE  a \div d = q /\ a % d = a - q * d
<1> DEFINE n == a \div d
           r == a % d
<1>1. n \in Int /\ r \in 0 .. d - 1 /\ a = n * d + r
  BY DivMod
<1> HIDE DEF n, r
<1>2. ASSUME n < q PROVE FALSE
  <2>1. (n + 1) * d <= q * d
    BY <1>1, <1>2
  <2>2. (n + 1) * d = n * d + d
    BY <1>1
  <2>3. n * d \in Int /\ q * d \in Int
    BY <1>1
  <2> QED BY <1>1, <2>1, <2>2, <2>3
<1>3. ASSUME q < n PROVE FALSE
  <2>1. (q + 1) * d <= n * d
    BY <1>1, <1>3
  <2>2. (q + 1) * d = q * d + d
    OBVIOUS
  <2>3. n * d \in Int /\ q * d \in Int
    BY <1>1
  <2> QED BY <1>1, <2>1, <2>2, <2>3
<1>4. QED BY <1>1, <1>2, <1>3 DEF n, r

(* Whole intervals come off in full.                                       *)
LEMMA DivShift ==
    ASSUME NEW a \in Int, NEW d \in Nat \ {0}, NEW n \in Int, NEW b \in Int, a + n * d <= b
    PROVE  a \div d + n <= b \div d
<1> DEFINE l == a \div d
           m == b \div d
<1>1. /\ l \in Int /\ m \in Int /\ l * d \in Int /\ m * d \in Int
      /\ l * d <= a /\ b < m * d + d
  BY DivMod
<1> HIDE DEF l, m
<1>2. ASSUME m < l + n PROVE FALSE
  <2>1. (m + 1) * d <= (l + n) * d
    BY <1>1, <1>2
  <2>2. (m + 1) * d = m * d + d /\ (l + n) * d = l * d + n * d /\ n * d \in Int
    BY <1>1
  <2> QED BY <1>1, <2>1, <2>2
<1>3. QED BY <1>1, <1>2 DEF l, m

(* And no more than those.                                                 *)
LEMMA DivShiftDown ==
    ASSUME NEW a \in Int, NEW d \in Nat \ {0}, NEW n \in Int, NEW b \in Int, b <= a + n * d
    PROVE  b \div d <= a \div d + n
<1> DEFINE l == a \div d
           m == b \div d
<1>1. /\ l \in Int /\ m \in Int /\ l * d \in Int /\ m * d \in Int
      /\ a < l * d + d /\ m * d <= b
  BY DivMod
<1> HIDE DEF l, m
<1>2. ASSUME l + n < m PROVE FALSE
  <2>1. (l + n + 1) * d <= m * d
    BY <1>1, <1>2
  <2>2. (l + n + 1) * d = l * d + n * d + d /\ n * d \in Int
    BY <1>1
  <2> QED BY <1>1, <2>1, <2>2
<1>3. QED BY <1>1, <1>2 DEF l, m

LEMMA DivMonotone ==
    ASSUME NEW a \in Int, NEW b \in Int, NEW d \in Nat \ {0}, a <= b
    PROVE  a \div d <= b \div d
<1>1. 0 * d = 0 /\ a \div d \in Int
  BY DivMod
<1>2. a \div d + 0 <= b \div d
  BY <1>1, DivShift
<1> QED BY <1>1, <1>2

LEMMA DivPositive ==
    ASSUME NEW a \in Nat, NEW d \in Nat \ {0}
    PROVE  a \div d \in Nat
<1>1. 0 \div d = 0
  OBVIOUS
<1>2. 0 \div d <= a \div d
  BY DivMonotone
<1> QED BY <1>1, <1>2, DivMod

(* A set of numbers that is not empty has a least one.                     *)
LEMMA LeastOf ==
    ASSUME NEW T \in SUBSET Nat, T # {}
    PROVE  \E n \in T : \A m \in T : n <= m
<1> DEFINE R == OpToRel(<, Nat)
<1>1. PICK n \in T : \A m \in T : ~(<<m, n>> \in R)
  BY WFMin, NatLessThanWellFounded
<1>2. ASSUME NEW m \in T PROVE n <= m
  <2> DEFINE p == <<m, n>>
  <2>1. p \in Nat \X Nat /\ p[1] = m /\ p[2] = n /\ p \notin R
    BY <1>1
  <2> HIDE DEF p
  <2>2. ~(p[1] < p[2])
    BY <2>1 DEF OpToRel
  <2>3. ~(m < n) /\ m \in Nat /\ n \in Nat
    BY <2>1, <2>2
  <2> QED BY <2>3
<1> QED BY <1>2

-----------------------------------------------------------------------------
(***************************************************************************)
(* The rate limiter.                                                       *)
(*                                                                         *)
(* The argument: for every client with a bucket, and every moment, the     *)
(* requests admitted since then and the tokens left are bounded from above *)
(* by a full bucket and the refills, and from below by what the bucket had *)
(* gained; a bucket is dropped only when the first bound is met without    *)
(* it.                                                                     *)
(***************************************************************************)

(* Upper bound and lower bound of what was admitted since a moment (n) and *)
(* what is left (k) of a bucket last refilled at L.                        *)
Upper(n, k, L, from) ==
    n + k <= MaxTokens + (IF from <= L THEN (L - from) \div RefillInterval + 1 ELSE 0)
Lower(n, k, L, from) == n + k >= MaxTokens \/ (n + k) * RefillInterval > L - from

Accounted(b, since) ==
    /\ b \in [tokens : 0 .. MaxTokens, lastRefill : 0 .. clock]
    /\ \A from \in 0 .. clock :
         /\ Upper(since[from], b.tokens, b.lastRefill, from)
         /\ Lower(since[from], b.tokens, b.lastRefill, from)
         /\ from >= b.lastRefill + RefillInterval => since[from] = 0
    /\ since[0] + b.tokens >= MaxTokens

(* Without a bucket, so few that a full one is within the limit.           *)
Free(since) ==
    \A from \in 0 .. clock : since[from] <= (clock - from) \div RefillInterval + 1

Kept(b, since) == IF b = NoBucket THEN Free(since) ELSE Accounted(b, since)

(* No request is admitted ahead of its time.                               *)
NoneAhead == \A c \in Clients, t \in clock + 1 .. LastMillisecond : admitted[c][t] = 0

Refilled(b) == clock - b.lastRefill < RefillInterval

RefusedEmpty ==
    \A c \in refused : /\ buckets[c] # NoBucket
                       /\ buckets[c].tokens = 0
                       /\ Refilled(buckets[c])

LimiterInv ==
    /\ LimiterTypeOK /\ NoneAhead /\ RefusedEmpty
    /\ \A c \in Clients : Kept(buckets[c], admitted[c])

Counts == [0 .. LastMillisecond -> Nat]

-----------------------------------------------------------------------------

(* A refill changes neither bound.                                         *)
LEMMA RefillAccounted ==
    ASSUME NEW b, NEW since \in Counts, clock \in 0 .. LastMillisecond, Accounted(b, since)
    PROVE  Accounted(refillBucket(b), since) /\ Refilled(refillBucket(b))
<1> DEFINE R == RefillInterval
           k == b.tokens
           L == b.lastRefill
           n == (clock - L) \div R
           L2 == clock - ((clock - L) % R)
           k2 == AtMost(k + n)
<1>1. /\ R \in Nat \ {0} /\ MaxTokens \in Nat \ {0} /\ clock \in Nat /\ LastMillisecond \in Nat
      /\ k \in 0 .. MaxTokens /\ L \in 0 .. clock
  BY LimiterAssumption DEF Accounted
<1>2. /\ n \in Nat /\ n * R \in Int /\ clock - L2 \in 0 .. R - 1
      /\ L2 \in Int /\ L2 = L + n * R
  <2> DEFINE e == clock - L
             r == e % R
  <2>1. e \in Nat /\ e \in Int /\ e = clock - L
    BY <1>1
  <2>2. n = e \div R /\ L2 = clock - r
    OBVIOUS
  <2> HIDE DEF e, n, L, L2
  <2>3. n \in Nat /\ r \in 0 .. R - 1 /\ e = n * R + r
    <3>1. e \div R \in Nat
      BY <1>1, <2>1, DivPositive
    <3>2. e % R \in 0 .. R - 1 /\ e = (e \div R) * R + (e % R)
      BY <1>1, <2>1, DivMod
    <3> QED BY <2>2, <3>1, <3>2
  <2> HIDE DEF r
  <2>5. n * R \in Int
    BY <1>1, <2>3
  <2> QED BY <1>1, <2>1, <2>2, <2>3, <2>5
<1>3. n \in Nat
  BY <1>2
<1>4. CASE n = 0
  <2>1. refillBucket(b) = b
    BY <1>4 DEF refillBucket
  <2> QED BY <1>1, <1>2, <1>4, <2>1 DEF Refilled
<1>5. CASE n > 0
  <2>1. refillBucket(b) = [tokens |-> k2, lastRefill |-> L2]
    BY <1>5 DEF refillBucket
  <2> HIDE DEF k, L, n, L2
  <2>2. n * R >= R /\ L2 >= L + R /\ L2 \in 0 .. clock
    <3>1. n * R = (n - 1) * R + R /\ (n - 1) * R >= 0
      BY <1>1, <1>3, <1>5
    <3> QED BY <1>1, <1>2, <3>1
  <2>3. /\ k2 \in 0 .. MaxTokens /\ k2 <= k + n /\ k2 >= k
        /\ k2 = MaxTokens \/ k2 = k + n
    BY <1>1, <1>3 DEF AtMost
  <2> HIDE DEF k2
  <2>4. ASSUME NEW from \in 0 .. clock
        PROVE  /\ Upper(since[from], k2, L2, from) /\ Lower(since[from], k2, L2, from)
               /\ from >= L2 + R => since[from] = 0
    <3> DEFINE a == since[from]
    <3>1. a \in Nat /\ from \in Nat
      BY <1>1 DEF Counts
    <3>2. /\ Upper(a, k, L, from) /\ Lower(a, k, L, from)
          /\ from >= L + R => a = 0
      BY DEF Accounted, k, L
    <3> HIDE DEF a
    <3>3. from >= L2 + R => a = 0
      BY <1>1, <1>2, <2>2, <3>1, <3>2
    <3>4. Lower(a, k2, L2, from)
      <4>1. CASE a + k >= MaxTokens
        BY <1>1, <2>3, <3>1, <4>1 DEF Lower
      <4>2. CASE (a + k) * R > L - from /\ k2 = k + n
        <5>1. (a + k2) * R = (a + k) * R + n * R
          BY <1>1, <1>3, <3>1, <4>2
        <5>2. (a + k) * R \in Int
          BY <1>1, <3>1
        <5>3. (a + k2) * R > L2 - from
          BY <1>1, <1>2, <3>1, <4>2, <5>1, <5>2
        <5> QED BY <5>3 DEF Lower
      <4>3. CASE k2 = MaxTokens
        BY <1>1, <3>1, <4>3 DEF Lower
      <4> QED BY <2>3, <3>2, <4>1, <4>2, <4>3 DEF Lower
    <3>5. Upper(a, k2, L2, from)
      <4>1. CASE from <= L
        <5>1. (L2 - from) \div R = (L - from) \div R + n
          <6> DEFINE e == L - from
          <6>1. e \in Int /\ n \in Int /\ L2 - from = e + n * R
            BY <1>1, <1>2
          <6>2. R \in Nat \ {0}
            BY <1>1
          <6> HIDE DEF e
          <6>3. L2 - from \in Int /\ L2 - from <= e + n * R /\ e + n * R <= L2 - from
            BY <1>2, <6>1
          <6>4. (L2 - from) \div R \in Int /\ e \div R \in Int
            BY <6>1, <6>2, <6>3, DivMod
          <6>5. (L2 - from) \div R <= e \div R + n /\ e \div R + n <= (L2 - from) \div R
            BY <6>1, <6>2, <6>3, DivShift, DivShiftDown
          <6>6. (L2 - from) \div R = e \div R + n
            BY <6>1, <6>4, <6>5
          <6> QED BY <6>6 DEF e
        <5>2. (L - from) \div R \in Int
          BY <1>1, DivMod
        <5>3. a + k <= MaxTokens + (L - from) \div R + 1
          BY <1>1, <3>2, <4>1, <5>2 DEF Upper
        <5>4. a + k2 <= MaxTokens + (L2 - from) \div R + 1
          BY <1>1, <1>3, <2>3, <3>1, <5>1, <5>2, <5>3
        <5> QED BY <1>1, <1>2, <2>2, <4>1, <5>4 DEF Upper
      <4>2. CASE L < from /\ from < L + R
        <5>1. a + k <= MaxTokens
          BY <1>1, <3>1, <3>2, <4>2 DEF Upper
        <5>2. n - 1 <= (L2 - from) \div R
          <6>1. (n - 1) * R = n * R - R
            BY <1>1, <1>3
          <6>2. /\ 0 \in Int /\ n - 1 \in Int /\ L2 - from \in Int
                /\ 0 + (n - 1) * R <= L2 - from
            BY <1>1, <1>2, <4>2, <6>1
          <6>3. 0 \div R + (n - 1) <= (L2 - from) \div R
            BY <1>1, <6>2, DivShift
          <6>4. 0 \div R = 0
            BY <1>1
          <6> QED BY <1>3, <6>3, <6>4
        <5>3. (L2 - from) \div R \in Int
          BY <1>1, <1>2, DivMod
        <5>4. a + k2 <= MaxTokens + (L2 - from) \div R + 1
          BY <1>1, <1>3, <2>3, <3>1, <5>1, <5>2, <5>3
        <5> QED BY <1>1, <1>2, <2>2, <4>2, <5>4 DEF Upper
      <4>3. CASE L + R <= from
        <5>1. a = 0
          BY <3>2, <4>3
        <5>2. from <= L2 => (L2 - from) \div R >= 0
          <6>1. 0 \div R = 0
            BY <1>1
          <6> QED BY <1>1, <1>2, <6>1, DivMonotone
        <5>3. (L2 - from) \div R \in Int
          BY <1>1, <1>2, DivMod
        <5> QED BY <1>1, <2>3, <5>1, <5>2, <5>3 DEF Upper
      <4> QED BY <1>1, <3>1, <4>1, <4>2, <4>3
    <3> QED BY <3>3, <3>4, <3>5 DEF a
  <2>5. since[0] + k2 >= MaxTokens
    <3>1. since[0] \in Nat /\ since[0] + k >= MaxTokens
      BY <1>1 DEF Accounted, Counts, k
    <3> QED BY <1>1, <2>3, <3>1
  <2> QED BY <1>1, <1>2, <2>1, <2>2, <2>3, <2>4, <2>5 DEF Accounted, Refilled
<1>6. QED BY <1>3, <1>4, <1>5

LEMMA NewAccounted ==
    ASSUME NEW since \in Counts, clock \in 0 .. LastMillisecond, Free(since)
    PROVE  Accounted(Bucket0(clock), since)
<1>1. /\ RefillInterval \in Nat \ {0} /\ MaxTokens \in Nat \ {0} /\ LastMillisecond \in Nat
  BY LimiterAssumption
<1>2. ASSUME NEW from \in 0 .. clock
      PROVE  /\ Upper(since[from], MaxTokens, clock, from) /\ Lower(since[from], MaxTokens, clock, from)
             /\ from >= clock + RefillInterval => since[from] = 0
  <2>1. /\ since[from] \in Nat /\ clock - from \in Int
        /\ (clock - from) \div RefillInterval \in Int
        /\ since[from] <= (clock - from) \div RefillInterval + 1
    BY <1>1, DivMod DEF Counts, Free
  <2> QED BY <1>1, <2>1 DEF Upper, Lower
<1>3. since[0] \in Nat
  BY <1>1 DEF Counts
<1> QED BY <1>1, <1>2, <1>3 DEF Accounted, Bucket0

(* A bucket is dropped when it would be full by now.                       *)
LEMMA IdleFree ==
    ASSUME NEW b, NEW since \in Counts, clock \in 0 .. LastMillisecond, Accounted(b, since), Idle(b)
    PROVE  Free(since)
<1> DEFINE R == RefillInterval
           k == b.tokens
           L == b.lastRefill
           M == MaxTokens
<1>1. /\ R \in Nat \ {0} /\ M \in Nat \ {0} /\ clock \in Nat /\ LastMillisecond \in Nat
      /\ k \in 0 .. M /\ L \in 0 .. clock /\ M * R \in Int /\ clock - L > M * R + M * R
  BY LimiterAssumption DEF Accounted, Idle
<1>2. M * R >= R
  <2>1. M * R = (M - 1) * R + R /\ (M - 1) * R >= 0
    BY <1>1
  <2> QED BY <1>1, <2>1
<1>3. ASSUME NEW from \in 0 .. clock PROVE since[from] <= (clock - from) \div R + 1
  <2> DEFINE a == since[from]
  <2>1. /\ a \in Nat /\ Upper(a, k, L, from)
        /\ from >= L + R => a = 0
    BY <1>1 DEF Counts, Accounted
  <2> HIDE DEF a, k, L
  <2>2. (clock - from) \div R \in Int /\ (L - from) \div R \in Int
    BY <1>1, DivMod
  <2>3. CASE from < L + R
    <3> DEFINE e == IF from <= L THEN L - from ELSE 0
    <3>1. e \in Nat /\ e \div R \in Int /\ a + k <= M + e \div R + 1
      <4>1. 0 \div R = 0
        BY <1>1
      <4> QED BY <1>1, <2>1, <2>2, <4>1 DEF Upper
    <3>2. e + M * R <= clock - from /\ e + M * R \in Int
      BY <1>1, <1>2, <2>3
    <3> HIDE DEF e
    <3>3. clock - from \in Int /\ e \in Int /\ M \in Int
      BY <1>1, <3>1
    <3>4. R \in Nat \ {0} /\ e + M * R <= clock - from
      BY <1>1, <3>2
    <3>5. e \div R + M <= (clock - from) \div R
      BY <3>3, <3>4, DivShift
    <3>6. a <= (clock - from) \div R + 1
      BY <1>1, <2>1, <2>2, <3>1, <3>5
    <3> QED BY <3>6 DEF a
  <2>4. CASE from >= L + R
    <3>1. 0 \div R = 0
      BY <1>1
    <3>2. (clock - from) \div R >= 0
      BY <1>1, <3>1, DivMonotone
    <3> QED BY <2>1, <2>2, <2>4, <3>2 DEF a
  <2> QED BY <1>1, <2>3, <2>4
<1> QED BY <1>3 DEF Free

(* The counts after one more request.                                      *)
OneMore(since) == [t \in 0 .. LastMillisecond |-> IF t <= clock THEN since[t] + 1 ELSE 0]

LEMMA SpendAccounted ==
    ASSUME NEW b, NEW since \in Counts, clock \in 0 .. LastMillisecond,
           Accounted(b, since), Refilled(b), b.tokens > 0
    PROVE  Accounted([b EXCEPT !.tokens = @ - 1], OneMore(since))
<1> DEFINE b2 == [b EXCEPT !.tokens = @ - 1]
<1>1. /\ RefillInterval \in Nat \ {0} /\ MaxTokens \in Nat \ {0} /\ LastMillisecond \in Nat
      /\ b \in [tokens : 0 .. MaxTokens, lastRefill : 0 .. clock] /\ clock \in Nat
  BY LimiterAssumption DEF Accounted
<1>2. /\ b2 \in [tokens : 0 .. MaxTokens, lastRefill : 0 .. clock]
      /\ b2.tokens = b.tokens - 1 /\ b2.lastRefill = b.lastRefill
  BY <1>1
<1>3. ASSUME NEW from \in 0 .. clock
      PROVE  /\ OneMore(since)[from] = since[from] + 1 /\ since[from] \in Nat
             /\ OneMore(since)[from] + b2.tokens = since[from] + b.tokens
  BY <1>1, <1>2 DEF OneMore, Counts
<1>4. ASSUME NEW from \in 0 .. clock
      PROVE  /\ Upper(OneMore(since)[from], b2.tokens, b2.lastRefill, from)
             /\ Lower(OneMore(since)[from], b2.tokens, b2.lastRefill, from)
             /\ ~(from >= b2.lastRefill + RefillInterval)
  <2>1. Upper(since[from], b.tokens, b.lastRefill, from) /\ Lower(since[from], b.tokens, b.lastRefill, from)
    BY DEF Accounted
  <2>2. ~(from >= b.lastRefill + RefillInterval)
    BY <1>1 DEF Refilled
  <2> QED BY <1>2, <1>3, <2>1, <2>2 DEF Upper, Lower
<1>5. OneMore(since)[0] + b2.tokens >= MaxTokens
  BY <1>1, <1>3 DEF Accounted
<1> QED BY <1>2, <1>4, <1>5 DEF Accounted

(* Time passes.                                                            *)
LEMMA AccountedLater ==
    ASSUME NEW b, NEW since \in Counts, clock \in Nat, clock' = clock + 1, clock' \in 0 .. LastMillisecond,
           since[clock'] = 0, Accounted(b, since)
    PROVE  Accounted(b, since)'
<1>1. /\ RefillInterval \in Nat \ {0} /\ MaxTokens \in Nat \ {0} /\ LastMillisecond \in Nat
      /\ b \in [tokens : 0 .. MaxTokens, lastRefill : 0 .. clock]
  BY LimiterAssumption DEF Accounted
<1>2. ASSUME NEW from \in 0 .. clock'
      PROVE  /\ Upper(since[from], b.tokens, b.lastRefill, from)
             /\ Lower(since[from], b.tokens, b.lastRefill, from)
             /\ from >= b.lastRefill + RefillInterval => since[from] = 0
  <2>1. CASE from \in 0 .. clock
    BY <2>1 DEF Accounted
  <2>2. CASE from = clock'
    <3>1. b.tokens \in 0 .. MaxTokens /\ b.lastRefill < from /\ b.lastRefill \in Int /\ from \in Int
      BY <1>1, <2>2
    <3>2. b.tokens * RefillInterval >= 0
      BY <1>1, <3>1
    <3> QED BY <1>1, <2>2, <3>1, <3>2 DEF Upper, Lower
  <2> QED BY <2>1, <2>2
<1>3. b \in [tokens : 0 .. MaxTokens, lastRefill : 0 .. clock']
  BY <1>1
<1>4. since[0] + b.tokens >= MaxTokens
  BY DEF Accounted
<1> QED BY <1>2, <1>3, <1>4 DEF Accounted, Upper, Lower

LEMMA FreeLater ==
    ASSUME NEW since \in Counts, clock \in Nat, clock' = clock + 1, clock' \in 0 .. LastMillisecond,
           since[clock'] = 0, Free(since)
    PROVE  Free(since)'
<1> SUFFICES ASSUME NEW from \in 0 .. clock'
             PROVE  since[from] <= (clock' - from) \div RefillInterval + 1
  BY DEF Free
<1>1. RefillInterval \in Nat \ {0} /\ clock' - from \in Nat /\ clock' - from \in Int
  BY LimiterAssumption
<1>2. (clock' - from) \div RefillInterval \in Nat
  BY <1>1, DivPositive
<1>3. CASE from \in 0 .. clock
  <2>1. clock - from \in Int /\ clock - from <= clock' - from /\ since[from] \in Nat
    BY <1>3, LimiterAssumption DEF Counts
  <2>2. (clock - from) \div RefillInterval <= (clock' - from) \div RefillInterval
    BY <1>1, <2>1, DivMonotone
  <2>3. (clock - from) \div RefillInterval \in Int
    BY <1>1, <2>1, DivMod
  <2>4. since[from] <= (clock - from) \div RefillInterval + 1
    BY <1>3 DEF Free
  <2> QED BY <1>2, <2>1, <2>2, <2>3, <2>4
<1>4. CASE from = clock'
  BY <1>2, <1>4
<1> QED BY <1>3, <1>4

-----------------------------------------------------------------------------
LEMMA LimiterInitInv == LimiterInit => LimiterInv
<1> SUFFICES ASSUME LimiterInit PROVE LimiterInv
  OBVIOUS
<1>1. \A c \in Clients : buckets[c] = NoBucket /\ Free(admitted[c])
  <2> SUFFICES ASSUME NEW c \in Clients PROVE Free(admitted[c])
    BY DEF LimiterInit
  <2>1. admitted[c][0] = 0 /\ clock = 0
    BY LimiterAssumption DEF LimiterInit
  <2>2. 0 \div RefillInterval = 0
    BY LimiterAssumption
  <2> QED BY <2>1, <2>2 DEF Free
<1>2. LimiterTypeOK /\ NoneAhead /\ RefusedEmpty
  BY LimiterAssumption DEF LimiterInit, LimiterTypeOK, NoneAhead, RefusedEmpty
<1> QED BY <1>1, <1>2 DEF LimiterInv, Kept

LEMMA LimiterTypes ==
    ASSUME LimiterInv
    PROVE  /\ clock \in 0 .. LastMillisecond /\ clock \in Nat /\ LastMillisecond \in Nat
           /\ \A c \in Clients : admitted[c] \in Counts
BY LimiterAssumption DEF LimiterInv, LimiterTypeOK, Counts

LEMMA KeptSame ==
    ASSUME clock' = clock, NEW c \in Clients, Kept(buckets'[c], admitted'[c])
    PROVE  Kept(buckets[c], admitted[c])'
BY DEF Kept, Free, Accounted, Upper, Lower

(* Pruning leaves every bucket, or the place of one, in order.             *)
LEMMA PrunedInv ==
    ASSUME LimiterInv, NEW c \in Clients
    PROVE  /\ Kept(Pruned[c], admitted[c])
           /\ c \in refused => Pruned[c] = buckets[c]
<1>1. Kept(buckets[c], admitted[c])
  BY DEF LimiterInv
<1>2. Pruned[c] = IF Pruning /\ Idle(buckets[c]) THEN NoBucket ELSE buckets[c]
  BY DEF Pruned
<1>3. buckets[c] # NoBucket /\ Idle(buckets[c]) => Free(admitted[c])
  BY <1>1, IdleFree, LimiterTypes DEF Kept
<1>4. c \in refused => ~Idle(buckets[c])
  <2> SUFFICES ASSUME c \in refused, Idle(buckets[c]) PROVE FALSE
    OBVIOUS
  <2> DEFINE e == clock - buckets[c].lastRefill
  <2>1. buckets[c] # NoBucket /\ e < RefillInterval
    BY DEF LimiterInv, RefusedEmpty, Refilled
  <2>2. e \in Int
    BY <1>1, <2>1, LimiterTypes DEF Accounted, Kept
  <2>3. MaxTokens * RefillInterval >= RefillInterval /\ MaxTokens * RefillInterval \in Nat
    <3>1. MaxTokens * RefillInterval = (MaxTokens - 1) * RefillInterval + RefillInterval
          /\ (MaxTokens - 1) * RefillInterval >= 0
      BY LimiterAssumption
    <3> QED BY <3>1, LimiterAssumption
  <2>4. e > MaxTokens * RefillInterval * 2
    BY DEF Idle
  <2> QED BY <2>1, <2>2, <2>3, <2>4, LimiterAssumption
<1> QED BY <1>1, <1>2, <1>3, <1>4 DEF Kept

LEMMA AccountedIsBucket ==
    ASSUME NEW b, NEW since, Accounted(b, since), clock \in Nat
    PROVE  b # NoBucket /\ b \in [tokens : 0 .. MaxTokens, lastRefill : 0 .. clock]
BY DEF Accounted, NoBucket

LEMMA PrunedType ==
    ASSUME LimiterInv
    PROVE  Pruned \in [Clients -> [tokens : 0 .. MaxTokens, lastRefill : 0 .. clock] \cup {NoBucket}]
BY DEF LimiterInv, LimiterTypeOK, Pruned

LEMMA RequestInv == ASSUME LimiterInv, NEW c \in Clients, rateLimiter(c) PROVE LimiterInv'
<1> DEFINE found == IF Pruned[c] = NoBucket THEN Bucket0(clock) ELSE Pruned[c]
           b == refillBucket(found)
           spent == [b EXCEPT !.tokens = @ - 1]
<1>1. clock' = clock /\ clock \in 0 .. LastMillisecond /\ clock \in Nat /\ admitted[c] \in Counts
  BY LimiterTypes DEF rateLimiter
<1>2. Accounted(found, admitted[c])
  BY <1>1, PrunedInv, NewAccounted DEF Kept
<1> HIDE DEF found
<1>3. Accounted(b, admitted[c]) /\ Refilled(b)
  BY <1>1, <1>2, RefillAccounted
<1>4. /\ lastPrune' = (IF Pruning THEN clock ELSE lastPrune)
      /\ \/ /\ b.tokens <= 0
            /\ buckets' = [Pruned EXCEPT ![c] = b]
            /\ refused' = refused \cup {c}
            /\ admitted' = admitted
         \/ /\ b.tokens > 0
            /\ buckets' = [Pruned EXCEPT ![c] = spent]
            /\ admitted' = [admitted EXCEPT ![c] = OneMore(admitted[c])]
            /\ refused' = refused
  <2>1. b.tokens \in Int
    BY <1>3 DEF Accounted
  <2> QED BY <2>1 DEF rateLimiter, found, OneMore
<1>5. \/ buckets'[c] = b /\ admitted'[c] = admitted[c]
      \/ buckets'[c] = spent /\ admitted'[c] = OneMore(admitted[c]) /\ b.tokens > 0
  BY <1>4, PrunedType, LimiterTypes DEF LimiterInv, LimiterTypeOK
<1>6. Accounted(buckets'[c], admitted'[c])
  <2> HIDE DEF b
  <2>1. b.tokens > 0 => Accounted(spent, OneMore(admitted[c]))
    BY <1>1, <1>3, SpendAccounted
  <2> HIDE DEF spent
  <2> QED BY <1>3, <1>5, <2>1
<1>7. \A d \in Clients \ {c} : buckets'[d] = Pruned[d] /\ admitted'[d] = admitted[d]
  BY <1>4, PrunedType DEF LimiterInv, LimiterTypeOK
<1>8. \A d \in Clients : Kept(buckets'[d], admitted'[d])
  BY <1>6, <1>7, PrunedInv, AccountedIsBucket, <1>1 DEF Kept
<1>9. \A d \in Clients : Kept(buckets[d], admitted[d])'
  BY <1>1, <1>8, KeptSame
<1>10. LimiterTypeOK'
  <2>1. buckets'[c] \in [tokens : 0 .. MaxTokens, lastRefill : 0 .. clock] /\ admitted'[c] \in Counts
    <3>1. OneMore(admitted[c]) \in Counts
      BY <1>1, LimiterAssumption DEF Counts, OneMore
    <3>2. buckets'[c] \in [tokens : 0 .. MaxTokens, lastRefill : 0 .. clock]
      BY <1>6 DEF Accounted
    <3> QED BY <1>1, <1>5, <3>1, <3>2
  <2>2. buckets' \in [Clients -> [tokens : 0 .. MaxTokens, lastRefill : 0 .. clock] \cup {NoBucket}]
    BY <1>4, <1>5, <2>1, PrunedType
  <2>3. admitted' \in [Clients -> [0 .. LastMillisecond -> Nat]] /\ refused' \subseteq Clients
    BY <1>4, <1>5, <2>1 DEF LimiterInv, LimiterTypeOK, Counts
  <2>4. lastPrune' \in 0 .. clock
    BY <1>1, <1>4 DEF LimiterInv, LimiterTypeOK
  <2> QED BY <1>1, <2>2, <2>3, <2>4 DEF LimiterTypeOK
<1>11. NoneAhead'
  BY <1>1, <1>4, <1>5, <1>7, LimiterAssumption DEF LimiterInv, NoneAhead, OneMore
<1>12. RefusedEmpty'
  <2>1. \A d \in refused : buckets[d] # NoBucket /\ buckets[d].tokens = 0 /\ Refilled(buckets[d])
    BY DEF LimiterInv, RefusedEmpty
  <2>2. \A d \in refused \ {c} : buckets'[d] = buckets[d]
    BY <1>7, PrunedInv DEF LimiterInv, LimiterTypeOK
  <2>3. c \in refused => b = buckets[c]
    <3> SUFFICES ASSUME c \in refused PROVE b = buckets[c]
      OBVIOUS
    <3> DEFINE e == clock - buckets[c].lastRefill
    <3>1. found = buckets[c] /\ Refilled(buckets[c])
      BY <2>1, PrunedInv DEF found
    <3>2. e \in 0 .. RefillInterval - 1
      <4>1. found \in [tokens : 0 .. MaxTokens, lastRefill : 0 .. clock]
        BY <1>2 DEF Accounted
      <4> QED BY <1>1, <3>1, <4>1, LimiterAssumption DEF Refilled
    <3>3. e \div RefillInterval = 0
      BY <3>2, LimiterAssumption
    <3> QED BY <3>1, <3>3 DEF refillBucket
  <2>4. CASE b.tokens <= 0
    <3>1. b.tokens = 0 /\ b # NoBucket
      BY <1>3, <2>4, AccountedIsBucket, <1>1
    <3>2. buckets'[c] = b /\ refused' = refused \cup {c}
      <4>1. ~(b.tokens > 0)
        BY <3>1
      <4> QED BY <1>4, <1>5, <4>1
    <3> QED BY <1>1, <1>3, <2>1, <2>2, <3>1, <3>2 DEF RefusedEmpty, Refilled
  <2>5. CASE b.tokens > 0
    <3>1. c \notin refused /\ refused' = refused
      <4>1. ~(b.tokens <= 0) /\ b.tokens # 0
        BY <1>3, <2>5 DEF Accounted
      <4> HIDE DEF b
      <4> QED BY <1>4, <2>1, <2>3, <4>1
    <3> QED BY <1>1, <2>1, <2>2, <3>1 DEF RefusedEmpty, Refilled
  <2>6. b.tokens \in Int
    BY <1>3 DEF Accounted
  <2> HIDE DEF b
  <2> QED BY <2>4, <2>5, <2>6
<1> QED BY <1>9, <1>10, <1>11, <1>12 DEF LimiterInv

LEMMA OtherClientInv == ASSUME LimiterInv, OtherClient PROVE LimiterInv'
<1>1. clock' = clock /\ admitted' = admitted /\ refused' = refused /\ buckets' = Pruned /\ lastPrune' = clock
  BY DEF OtherClient
<1>2. \A c \in Clients : Kept(buckets[c], admitted[c])'
  BY <1>1, PrunedInv, KeptSame
<1>3. LimiterTypeOK'
  BY <1>1, PrunedType, LimiterTypes DEF LimiterInv, LimiterTypeOK
<1>4. NoneAhead' /\ RefusedEmpty'
  <2>1. \A c \in refused : buckets'[c] = buckets[c]
    BY <1>1, PrunedInv DEF LimiterInv, LimiterTypeOK
  <2> QED BY <1>1, <2>1 DEF LimiterInv, NoneAhead, RefusedEmpty, Refilled
<1> QED BY <1>2, <1>3, <1>4 DEF LimiterInv

LEMMA MillisecondInv == ASSUME LimiterInv, MillisecondPasses PROVE LimiterInv'
<1>1. /\ clock' = clock + 1 /\ clock < LastMillisecond /\ admitted' = admitted /\ refused' = {}
      /\ buckets' = buckets /\ lastPrune' = lastPrune
  BY DEF MillisecondPasses
<1>2. clock \in Nat /\ clock' \in 0 .. LastMillisecond /\ clock' \in clock + 1 .. LastMillisecond
  BY <1>1, LimiterTypes
<1>3. ASSUME NEW c \in Clients PROVE Kept(buckets[c], admitted[c])'
  <2>1. admitted[c] \in Counts /\ admitted[c][clock'] = 0 /\ Kept(buckets[c], admitted[c])
    BY <1>2, LimiterTypes DEF LimiterInv, NoneAhead
  <2>2. CASE buckets[c] = NoBucket
    <3>1. Free(admitted[c])
      BY <2>1, <2>2 DEF Kept
    <3>2. clock' = clock + 1
      BY <1>1
    <3>3. \A s \in Counts : s[clock'] = 0 /\ Free(s) =>
            \A from \in 0 .. clock' : s[from] <= (clock' - from) \div RefillInterval + 1
      <4> SUFFICES ASSUME NEW s \in Counts, s[clock'] = 0, Free(s)
                   PROVE  \A from \in 0 .. clock' : s[from] <= (clock' - from) \div RefillInterval + 1
        OBVIOUS
      <4>1. Free(s)'
        BY <1>2, <3>2, FreeLater
      <4> QED BY <4>1 DEF Free
    <3>4. Free(admitted[c])'
      BY <1>1, <2>1, <3>1, <3>3 DEF Free
    <3> QED BY <1>1, <2>2, <3>4 DEF Kept, NoBucket
  <2>3. CASE buckets[c] # NoBucket
    <3>1. Accounted(buckets[c], admitted[c])
      BY <2>1, <2>3 DEF Kept
    <3> DEFINE b == buckets[c]
               s == admitted[c]
    <3>2. b' = b /\ s' = s
      BY <1>1
    <3>3. clock' = clock + 1
      BY <1>1
    <3>4. \A x : \A t \in Counts : t[clock'] = 0 /\ Accounted(x, t) => 
             /\ x \in [tokens : 0 .. MaxTokens, lastRefill : 0 .. clock']
             /\ \A from \in 0 .. clock' :
                  /\ Upper(t[from], x.tokens, x.lastRefill, from)
                  /\ Lower(t[from], x.tokens, x.lastRefill, from)
                  /\ from >= x.lastRefill + RefillInterval => t[from] = 0
             /\ t[0] + x.tokens >= MaxTokens
      <4> SUFFICES ASSUME NEW x, NEW t \in Counts, t[clock'] = 0, Accounted(x, t)
                   PROVE  /\ x \in [tokens : 0 .. MaxTokens, lastRefill : 0 .. clock']
                          /\ \A from \in 0 .. clock' :
                               /\ Upper(t[from], x.tokens, x.lastRefill, from)
                               /\ Lower(t[from], x.tokens, x.lastRefill, from)
                               /\ from >= x.lastRefill + RefillInterval => t[from] = 0
                          /\ t[0] + x.tokens >= MaxTokens
        OBVIOUS
      <4>1. Accounted(x, t)'
        BY <1>2, <3>3, AccountedLater
      <4> QED BY <4>1 DEF Accounted, Upper, Lower
    <3>5. Accounted(b, s)'
      BY <2>1, <3>1, <3>2, <3>4 DEF Accounted, Upper, Lower
    <3> QED BY <2>3, <3>2, <3>5 DEF Kept, NoBucket
  <2> QED BY <2>2, <2>3
<1>4. LimiterTypeOK'
  BY <1>1, <1>2, LimiterTypes DEF LimiterInv, LimiterTypeOK
<1>5. NoneAhead' /\ RefusedEmpty'
  BY <1>1, <1>2, LimiterTypes DEF LimiterInv, NoneAhead, RefusedEmpty
<1> QED BY <1>3, <1>4, <1>5 DEF LimiterInv

LEMMA LimiterStep == LimiterInv /\ [LimiterNext]_limiterVars => LimiterInv'
<1>1. ASSUME LimiterInv, UNCHANGED limiterVars PROVE LimiterInv'
  BY <1>1 DEF limiterVars, LimiterInv, LimiterTypeOK, NoneAhead, RefusedEmpty, Refilled, Kept, Free,
              Accounted, Upper, Lower
<1> QED BY <1>1, MillisecondInv, OtherClientInv, RequestInv DEF LimiterNext

(* The inductive invariant holds in every state.                           *)
LEMMA LimiterInvariance == LimiterSpec => []LimiterInv
<1> QED BY LimiterInitInv, LimiterStep, PTL DEF LimiterSpec

(* The tokens of a bucket stay between nothing and the maximum, and its    *)
(* last refill is never in the future.                                     *)
THEOREM LimiterTypeCorrect == LimiterSpec => []LimiterTypeOK
<1>1. LimiterInv => LimiterTypeOK
  BY DEF LimiterInv
<1> QED BY <1>1, LimiterInvariance, PTL

LEMMA LimiterInvRate == LimiterInv => RateExact
<1> SUFFICES ASSUME LimiterInv, NEW c \in Clients
             PROVE  /\ \A from \in 0 .. clock :
                         admitted[c][from] <= MaxTokens + (clock - from) \div RefillInterval + 1
                    /\ c \in refused =>
                         LET span == MaxTokens * RefillInterval IN
                         admitted[c][IF clock < span THEN 0 ELSE clock - span + 1] >= MaxTokens
  BY DEF RateExact
<1> DEFINE R == RefillInterval
           M == MaxTokens
           a == admitted[c]
           k == buckets[c].tokens
           L == buckets[c].lastRefill
<1>1. /\ R \in Nat \ {0} /\ M \in Nat \ {0} /\ clock \in Nat /\ clock \in 0 .. LastMillisecond
      /\ LastMillisecond \in Nat /\ a \in Counts /\ Kept(buckets[c], a)
  BY LimiterTypes, LimiterAssumption DEF LimiterInv
<1>2. ASSUME NEW from \in 0 .. clock PROVE a[from] <= M + (clock - from) \div R + 1
  <2>1. /\ a[from] \in Nat /\ from \in Nat /\ clock - from \in Nat
    BY <1>1 DEF Counts
  <2>2. (clock - from) \div R \in Nat
    BY <1>1, <2>1, DivPositive
  <2>3. CASE buckets[c] = NoBucket
    <3>1. a[from] <= (clock - from) \div R + 1
      BY <1>1, <2>3 DEF Kept, Free
    <3> QED BY <1>1, <2>1, <2>2, <3>1
  <2>4. CASE buckets[c] # NoBucket
    <3>1. Accounted(buckets[c], a)
      BY <1>1, <2>4 DEF Kept
    <3>2. k \in 0 .. M /\ L \in 0 .. clock /\ Upper(a[from], k, L, from)
      BY <3>1 DEF Accounted
    <3> HIDE DEF k, L, a
    <3>3. CASE from > L
      BY <1>1, <2>1, <2>2, <3>2, <3>3 DEF Upper
    <3>4. CASE from <= L
      <4>1. L - from \in Int /\ clock - from \in Int /\ L - from <= clock - from
        BY <1>1, <2>1, <3>2
      <4>2. (L - from) \div R <= (clock - from) \div R /\ (L - from) \div R \in Int
        BY <1>1, <4>1, DivMonotone, DivMod
      <4>3. a[from] + k <= M + (L - from) \div R + 1
        BY <3>2, <3>4, <1>1, <4>2 DEF Upper
      <4> QED BY <1>1, <2>1, <2>2, <3>2, <4>2, <4>3
    <3> QED BY <1>1, <2>1, <3>2, <3>3, <3>4
  <2> QED BY <2>3, <2>4
<1>3. ASSUME c \in refused, NEW from \in Nat, from = (IF clock < M * R THEN 0 ELSE clock - M * R + 1)
      PROVE a[from] >= M
  <2>1. /\ buckets[c] # NoBucket /\ k = 0 /\ clock - L < R
    BY <1>3 DEF LimiterInv, RefusedEmpty, Refilled
  <2>2. /\ Accounted(buckets[c], a)
    BY <1>1, <2>1 DEF Kept
  <2>3. M * R \in Nat /\ M * R = (M - 1) * R + R /\ (M - 1) * R \in Nat
    <3>1. M - 1 \in Nat
      BY <1>1
    <3> QED BY <1>1, <3>1
  <2>4. CASE from = 0
    <3>1. a[0] + k >= M /\ a[0] \in Nat
      BY <1>1, <2>2 DEF Accounted, Counts
    <3> QED BY <1>1, <2>1, <2>4, <3>1
  <2>5. CASE from = clock - M * R + 1 /\ ~(clock < M * R)
    <3>1. from \in 0 .. clock /\ L \in 0 .. clock /\ Lower(a[from], k, L, from) /\ a[from] \in Nat
      <4>1. from \in 0 .. clock
        BY <1>1, <2>3, <2>5
      <4> QED BY <1>1, <2>2, <4>1 DEF Accounted, Counts
    <3> DEFINE n == a[from]
    <3>2. n \in Nat /\ (n >= M \/ n * R > L - from)
      BY <2>1, <3>1 DEF Lower
    <3> HIDE DEF n, L, k, a
    <3>3. CASE n * R > L - from /\ n < M
      <4>1. n * R <= (M - 1) * R
        BY <1>1, <3>2, <3>3
      <4>2. L - from >= (M - 1) * R
        BY <1>1, <2>1, <2>3, <2>5, <3>1
      <4>3. n * R \in Int /\ L - from \in Int
        BY <1>1, <3>1, <3>2
      <4> QED BY <2>3, <3>3, <4>1, <4>2, <4>3
    <3> QED BY <1>1, <3>2, <3>3 DEF n
  <2> QED BY <1>3, <2>4, <2>5
<1>4. (IF clock < M * R THEN 0 ELSE clock - M * R + 1) \in Nat
  <2>1. M * R \in Nat
    BY <1>1
  <2> QED BY <1>1, <2>1
<1> QED BY <1>2, <1>3, <1>4

(* In no span of time does a client get more through than a bucket and its *)
(* refills, whenever its bucket was dropped, and nobody is refused who did *)
(* not use up a bucket in the time it takes to fill one.                   *)
THEOREM RateIsExact == LimiterSpec => []RateExact
<1> QED BY LimiterInvRate, LimiterInvariance, PTL

-----------------------------------------------------------------------------
(***************************************************************************)
(* The delay detector.                                                     *)
(*                                                                         *)
(* The argument: an alert whose id is of the present interval started in   *)
(* it, and is younger than the age at which it would be dropped; so what   *)
(* listeners were told of in this interval is still there, and not         *)
(* announced again.                                                        *)
(***************************************************************************)

(* An alert starts in the interval of its id.                              *)
AlertsInTime == \A a \in alerts : a.start \div Bucket = a.id.bucket

(* An alert that listeners were told of in this interval is still there.   *)
Standing(ids) ==
    \A id \in ids : /\ id.bucket <= now \div Bucket
                    /\ id.bucket = now \div Bucket => \E a \in alerts : a.id = id

DetectorInv == DetectorTypeOK /\ AlertsInTime /\ Standing(told) /\ Standing(news) /\ ToldOnce

LEMMA DetectorInitInv == DetectorInit => DetectorInv
<1> SUFFICES ASSUME DetectorInit PROVE DetectorInv
  OBVIOUS
<1>1. Tracked = {}
  BY DEF DetectorInit, Tracked
<1>2. Cardinality(Tracked) <= MaxTracked
  BY <1>1, FS_EmptySet, DetectorAssumption
<1> QED BY <1>2 DEF DetectorInit, DetectorInv, DetectorTypeOK, AlertsInTime, Standing, ToldOnce

LEMMA Interval ==
    ASSUME now \in Nat
    PROVE  /\ now \div Bucket \in Nat
           /\ (now + 1) \div Bucket \in Nat
           /\ now \div Bucket <= (now + 1) \div Bucket
BY DetectorAssumption, DivMonotone, DivPositive

(* An alert of the present interval is too young to be dropped.            *)
LEMMA YoungKept ==
    ASSUME now \in Nat, NEW as, NEW a \in as, a.start \in 0 .. now,
           a.start \div Bucket = now \div Bucket
    PROVE  a \in pruneStaleAlerts(as)
<1> DEFINE start == a.start
           m == now \div Bucket
           n == start \div Bucket
<1>1. /\ Bucket \in Nat \ {0} /\ start \in Int /\ now \in Int /\ AlertMaxAge \in Nat /\ Bucket <= AlertMaxAge
  BY DetectorAssumption
<1>2. m = n
  OBVIOUS
<1>3. /\ (now % Bucket) \in 0 .. Bucket - 1 /\ now = m * Bucket + (now % Bucket) /\ m \in Int
      /\ (start % Bucket) \in 0 .. Bucket - 1 /\ start = n * Bucket + (start % Bucket) /\ n \in Int
  BY <1>1, DivMod
<1> HIDE DEF m, n, start
<1>4. now - start <= AlertMaxAge
  <2> DEFINE x == now % Bucket
             y == start % Bucket
  <2>1. x \in 0 .. Bucket - 1 /\ y \in 0 .. Bucket - 1 /\ now = m * Bucket + x /\ start = m * Bucket + y
    BY <1>2, <1>3
  <2> HIDE DEF x, y
  <2> QED BY <1>1, <1>3, <2>1
<1> QED BY <1>4 DEF pruneStaleAlerts, start

LEMMA GenerateInv ==
    ASSUME DetectorInv, NEW id \in AlertIds, id.bucket = now \div Bucket, generateAlerts(id),
           now' = now, told' = told \cup news
    PROVE  /\ \A a \in alerts' : a.id \in AlertIds /\ a.start \in 0 .. now
           /\ AlertsInTime' /\ Standing(told)' /\ Standing(news)' /\ ToldOnce'
           /\ news' \subseteq AlertIds
<1>1. now \in Nat
  BY DEF DetectorInv, DetectorTypeOK
<1>2. /\ alerts' = pruneStaleAlerts(Raised(id)) /\ alerts' \subseteq Raised(id)
      /\ news' = {id} \ {a.id : a \in alerts}
  BY DEF generateAlerts, pruneStaleAlerts
<1>3. \A a \in Raised(id) : a \in alerts \/ a = [id |-> id, start |-> now]
  BY DEF Raised
<1>4. \A a \in Raised(id) : /\ a.id \in AlertIds /\ a.start \in 0 .. now
                            /\ a.start \div Bucket = a.id.bucket
  BY <1>1, <1>3 DEF DetectorInv, DetectorTypeOK, AlertsInTime
<1>5. \E a \in Raised(id) : a.id = id
  <2> DEFINE old == {a \in alerts : a.id = id}
             one == [id |-> id, start |-> now]
  <2>1. one.id = id
    OBVIOUS
  <2>2. CASE old # {} /\ id.of # {}
    BY <2>2 DEF Raised
  <2>3. CASE ~(old # {} /\ id.of # {})
    <3>1. Raised(id) = (alerts \ old) \cup {one}
      BY <2>3 DEF Raised
    <3> HIDE DEF one
    <3> QED BY <2>1, <3>1
  <2> QED BY <2>2, <2>3
<1>6. \A a \in alerts : a.id # id => a \in Raised(id)
  BY DEF Raised
<1>7. ASSUME NEW i, i.bucket = now \div Bucket, i = id \/ \E a \in alerts : a.id = i
      PROVE \E a \in alerts' : a.id = i
  <2>1. PICK a \in Raised(id) : a.id = i
    BY <1>5, <1>6, <1>7
  <2>2. a \in pruneStaleAlerts(Raised(id))
    BY <1>1, <1>4, <1>7, <2>1, YoungKept
  <2> QED BY <1>2, <2>1, <2>2
<1>8. Standing(told \cup news)
  BY DEF DetectorInv, Standing
<1>9. Standing(told)'
  BY <1>7, <1>8 DEF Standing
<1>10. Standing(news)'
  BY <1>1, <1>2, <1>7, Interval DEF Standing
<1>11. ToldOnce'
  BY <1>2, <1>8 DEF ToldOnce, Standing
<1> QED BY <1>2, <1>4, <1>9, <1>10, <1>11 DEF AlertsInTime

LEMMA ObservedTypes ==
    ASSUME DetectorInv, NEW t \in Trips, NEW pos \in Positions
    PROVE  /\ FirstObserved(pos) \in Track
           /\ track[t] \in Track => Observed(t, pos) \in Track
           /\ Untracked \notin Track
<1>1. pos.station \in StopNumbers /\ pos.at \in Int /\ now \in Nat
  BY DetectorAssumption DEF Positions, DetectorInv, DetectorTypeOK
<1>2. FlagAfter(t, pos) \in BOOLEAN
  BY DEF FlagAfter, Delayed, Moved, Slow
<1> QED BY <1>1, <1>2 DEF FirstObserved, Observed, Track, Untracked, StopNumbers

(* However many trips are new, the cap holds.                              *)
LEMMA RoomForAll ==
    ASSUME DetectorInv, NEW batch, DOMAIN batch \subseteq Trips, NEW fresh \in TakenUp(batch)
    PROVE  /\ fresh \subseteq DOMAIN batch \ Retained
           /\ Cardinality(fresh \cup Retained) <= MaxTracked
<1> DEFINE new == DOMAIN batch \ Retained
           room == MaxTracked - Cardinality(Retained)
<1>1. /\ IsFiniteSet(Tracked) /\ IsFiniteSet(Retained) /\ IsFiniteSet(new)
      /\ Retained \subseteq Tracked
  BY DetectorAssumption, FS_Subset DEF Retained, Tracked
<1>2. /\ fresh \subseteq new
      /\ Cardinality(fresh) = IF Cardinality(new) <= room THEN Cardinality(new) ELSE room
  BY DEF TakenUp
<1>3. IsFiniteSet(fresh)
  BY <1>1, <1>2, FS_Subset
<1>4. /\ Cardinality(Retained) \in Nat /\ Cardinality(new) \in Nat /\ Cardinality(fresh) \in Nat
      /\ Cardinality(Retained) <= Cardinality(Tracked) /\ Cardinality(Tracked) \in Nat
  BY <1>1, <1>3, FS_CardinalityType, FS_Subset
<1>5. Cardinality(fresh) <= room
  BY <1>2, <1>4, DetectorAssumption
<1>6. Cardinality(fresh \cup Retained) <= Cardinality(fresh) + Cardinality(Retained)
  <2>1. /\ Cardinality(fresh \cup Retained) =
             Cardinality(fresh) + Cardinality(Retained) - Cardinality(fresh \cap Retained)
    BY <1>1, <1>3, FS_Union
  <2>2. Cardinality(fresh \cap Retained) \in Nat
    BY <1>1, <1>3, FS_Intersection, FS_CardinalityType
  <2> QED BY <1>4, <2>1, <2>2
<1>7. Cardinality(fresh \cup Retained) \in Nat
  BY <1>1, <1>3, FS_Union, FS_CardinalityType
<1> QED BY <1>2, <1>4, <1>5, <1>6, <1>7, DetectorAssumption

LEMMA PollInv == ASSUME DetectorInv, Poll PROVE DetectorInv'
<1>1. PICK S \in SUBSET Trips : \E batch \in [S -> Positions] : processVehicleUpdates(batch)
  BY DEF Poll
<1>0. PICK batch \in [S -> Positions] : processVehicleUpdates(batch)
  BY <1>1
<1>2. DOMAIN batch = S /\ now' = now /\ told' = told \cup news /\ now \in Nat
  BY <1>0 DEF processVehicleUpdates, DetectorInv, DetectorTypeOK
<1>3. PICK fresh \in TakenUp(batch) :
         track' = [t \in Trips |->
                     IF t \in fresh THEN FirstObserved(batch[t])
                     ELSE IF t \notin Retained THEN Untracked
                     ELSE IF t \in DOMAIN batch THEN Observed(t, batch[t])
                     ELSE track[t]]
  BY <1>0 DEF processVehicleUpdates
<1>4. fresh \subseteq DOMAIN batch \ Retained /\ Cardinality(fresh \cup Retained) <= MaxTracked
  BY <1>2, <1>3, RoomForAll
<1>5. ASSUME NEW t \in Trips
      PROVE  /\ track'[t] \in Track \cup {Untracked}
             /\ track'[t] # Untracked => t \in fresh \cup Retained
  <2>1. CASE t \in fresh
    BY <1>0, <1>2, <1>3, <1>4, <2>1, ObservedTypes
  <2>2. CASE t \notin fresh /\ t \in Retained
    <3>1. track[t] \in Track
      BY <2>2 DEF Retained, Tracked, DetectorInv, DetectorTypeOK
    <3> QED BY <1>0, <1>2, <1>3, <2>2, <3>1, ObservedTypes
  <2>3. CASE t \notin fresh /\ t \notin Retained
    BY <1>3, <2>3
  <2> QED BY <2>1, <2>2, <2>3
<1>6. Cardinality(Tracked') <= MaxTracked
  <2>1. Tracked' \subseteq fresh \cup Retained
    BY <1>5 DEF Tracked
  <2>2. IsFiniteSet(fresh \cup Retained)
    <3>1. fresh \cup Retained \subseteq Trips
      BY <1>2, <1>4 DEF Retained, Tracked
    <3> QED BY <3>1, FS_Subset, DetectorAssumption
  <2>3. Cardinality(Tracked') <= Cardinality(fresh \cup Retained)
        /\ Cardinality(Tracked') \in Nat /\ Cardinality(fresh \cup Retained) \in Nat
    BY <2>1, <2>2, FS_Subset, FS_CardinalityType
  <2> QED BY <1>4, <2>3, DetectorAssumption
<1>7. track' \in [Trips -> Track \cup {Untracked}] /\ told' \subseteq AlertIds
  BY <1>0, <1>2, <1>3, <1>5 DEF processVehicleUpdates, DetectorInv, DetectorTypeOK
<1>8. /\ \A a \in alerts' : a.id \in AlertIds /\ a.start \in 0 .. now
      /\ AlertsInTime' /\ Standing(told)' /\ Standing(news)' /\ ToldOnce'
      /\ news' \subseteq AlertIds
  <2>1. CASE Reported(batch) = {}
    <3>1. alerts' = alerts /\ news' = {}
      BY <1>0, <2>1 DEF processVehicleUpdates
    <3> QED BY <1>2, <3>1 DEF DetectorInv, DetectorTypeOK, AlertsInTime, Standing, ToldOnce
  <2>2. CASE Reported(batch) # {}
    <3>1. PICK id \in AlertIdsFor(Reported(batch), batch) : generateAlerts(id)
      BY <1>0, <2>2 DEF processVehicleUpdates
    <3>2. Reported(batch) \subseteq Trips
      BY DEF Reported, Retained, Tracked
    <3>3. id \in AlertIds /\ id.bucket = now \div Bucket
      BY <1>2, <3>1, <3>2, Interval DEF AlertIdsFor, AlertIds
    <3> QED BY <1>2, <3>1, <3>3, GenerateInv
  <2> QED BY <2>1, <2>2
<1> QED BY <1>2, <1>6, <1>7, <1>8 DEF DetectorInv, DetectorTypeOK

LEMMA TickInv == ASSUME DetectorInv, Tick PROVE DetectorInv'
<1>1. now' = now + 1 /\ UNCHANGED <<track, alerts, told, news>> /\ now \in Nat
  BY DEF Tick, DetectorInv, DetectorTypeOK
<1>2. DetectorTypeOK'
  BY <1>1 DEF DetectorInv, DetectorTypeOK, Tracked
<1>3. ASSUME NEW ids \in {told, news}, Standing(ids), NEW id \in ids
      PROVE  /\ id.bucket <= now' \div Bucket
             /\ id.bucket = now' \div Bucket => \E a \in alerts : a.id = id
  <2>1. id.bucket \in Nat
    BY DEF DetectorInv, DetectorTypeOK, AlertIds
  <2> QED BY <1>1, <1>3, <2>1, Interval DEF Standing
<1>4. Standing(told)' /\ Standing(news)'
  BY <1>1, <1>3 DEF DetectorInv, Standing
<1>5. AlertsInTime' /\ ToldOnce'
  BY <1>1 DEF DetectorInv, AlertsInTime, ToldOnce
<1> QED BY <1>2, <1>4, <1>5 DEF DetectorInv

LEMMA DetectorStep == DetectorInv /\ [DetectorNext]_detectorVars => DetectorInv'
<1>1. ASSUME DetectorInv, UNCHANGED detectorVars PROVE DetectorInv'
  BY <1>1 DEF detectorVars, DetectorInv, DetectorTypeOK, Tracked, AlertsInTime, Standing, ToldOnce
<1> QED BY <1>1, PollInv, TickInv DEF DetectorNext

(* The inductive invariant holds in every state.                           *)
LEMMA DetectorInvariance == DetectorSpec => []DetectorInv
<1> QED BY DetectorInitInv, DetectorStep, PTL DEF DetectorSpec

(* No more trips are tracked than the cap allows, and no alert starts in   *)
(* the future.                                                             *)
THEOREM DetectorTypeCorrect == DetectorSpec => []DetectorTypeOK
<1>1. DetectorInv => DetectorTypeOK
  BY DEF DetectorInv
<1> QED BY <1>1, DetectorInvariance, PTL

(* Listeners are told of an alert once: it is not pruned while the         *)
(* interval of its id lasts, for any intervals and ages of which the       *)
(* latter are the longer.                                                  *)
THEOREM AnnouncedOnce == DetectorSpec => []ToldOnce
<1>1. DetectorInv => ToldOnce
  BY DEF DetectorInv
<1> QED BY <1>1, DetectorInvariance, PTL

-----------------------------------------------------------------------------
(***************************************************************************)
(* The morning briefing.                                                   *)
(*                                                                         *)
(* The argument: the hours that ticks put down are those of minutes gone   *)
(* by, no two minutes that start an hour put down the same one, and what   *)
(* was sent belongs to an hour that is not waiting for its rows any more.  *)
(***************************************************************************)

(* The hour, of a day, that is put down at a minute.                       *)
MomentOf(m) == [day |-> DayOf(m + DayLength), hour |-> HourOf(m + DayLength)]

(* The moments a tick may have put down by now.                            *)
Ticked == {MomentOf(m) : m \in {n \in 0 .. lastTick : (n + DayLength) % MinutesPerHour = 0}}

BriefingInv ==
    /\ BriefingTypeOK /\ lastTick <= minute
    /\ reading \subseteq Ticked
    /\ \A b \in sent : b.at \in Ticked \ reading
    /\ repeated = {}

LEMMA DayIsHours ==
    /\ DayLength \in Nat \ {0}
    /\ DayLength = HoursPerDay * MinutesPerHour
BY BriefingAssumption DEF DayLength

LEMMA HoursOf ==
    ASSUME NEW t \in Nat
    PROVE  /\ DayOf(t) \in Nat /\ HourOf(t) \in Hours
           /\ t \div MinutesPerHour = DayOf(t) * HoursPerDay + HourOf(t)
<1> DEFINE M == MinutesPerHour
           H == HoursPerDay
           q == t \div M
           r == t % M
           d == q \div H
           h == q % H
<1>1. /\ M \in Nat \ {0} /\ H \in Nat \ {0} /\ DayLength \in Nat \ {0} /\ DayLength = H * M
  BY BriefingAssumption, DayIsHours
<1>2. q \in Nat /\ r \in 0 .. M - 1 /\ t = q * M + r
  <2> HIDE DEF M
  <2>1. t \in Int /\ M \in Nat \ {0}
    BY <1>1
  <2>2. q \in Nat
    BY <2>1, DivPositive
  <2>3. (t % M) \in 0 .. M - 1 /\ t = (t \div M) * M + (t % M)
    BY <2>1, DivMod
  <2> QED BY <2>2, <2>3
<1>3. d \in Nat /\ h \in 0 .. H - 1 /\ q = d * H + h
  <2>1. q \in Nat /\ q \in Int /\ H \in Nat \ {0}
    BY <1>1, <1>2
  <2> HIDE DEF q, H
  <2>2. d \in Nat
    BY <2>1, DivPositive
  <2>3. (q % H) \in 0 .. H - 1 /\ q = (q \div H) * H + (q % H)
    BY <2>1, DivMod
  <2> QED BY <2>2, <2>3
<1>4. HourOf(t) = h /\ DayOf(t) = t \div DayLength
  BY DEF HourOf, DayOf
<1> HIDE DEF M, H, q, r, d, h
<1>5. d * DayLength <= t /\ t < d * DayLength + DayLength
  <2>1. q * M = (d * H) * M + h * M
    BY <1>1, <1>2, <1>3
  <2>2. (d * H) * M = d * DayLength
    BY <1>1, <1>3
  <2>3. h * M <= (H - 1) * M /\ (H - 1) * M = H * M - M /\ h * M >= 0
    BY <1>1, <1>3
  <2>4. d * DayLength \in Int /\ h * M \in Int /\ H * M \in Int /\ q * M \in Int
    BY <1>1, <1>2, <1>3
  <2> QED BY <1>1, <1>2, <2>1, <2>2, <2>3, <2>4
<1>6. t \div DayLength = d
  BY <1>1, <1>3, <1>5, DivUnique
<1> QED BY <1>1, <1>3, <1>4, <1>6 DEF Hours, M, H, q

(* A moment is that of one due minute.                                     *)
LEMMA OneMinute ==
    ASSUME NEW m \in Nat, NEW n \in Nat, MomentOf(m) = MomentOf(n),
           (m + DayLength) % MinutesPerHour = 0, (n + DayLength) % MinutesPerHour = 0
    PROVE  m = n
<1> DEFINE x == m + DayLength
           y == n + DayLength
           p == x \div MinutesPerHour
           q == y \div MinutesPerHour
<1>1. x \in Nat /\ y \in Nat /\ DayLength \in Nat
  BY DayIsHours
<1>2. DayOf(x) = DayOf(y) /\ HourOf(x) = HourOf(y)
  BY DEF MomentOf
<1>3. (x % MinutesPerHour) = 0 /\ (y % MinutesPerHour) = 0
  OBVIOUS
<1> HIDE DEF x, y
<1>4. p = q
  BY <1>1, <1>2, HoursOf
<1>5. p \in Int /\ x = p * MinutesPerHour + (x % MinutesPerHour) /\ y = q * MinutesPerHour + (y % MinutesPerHour)
  BY <1>1, BriefingAssumption, DivMod
<1> HIDE DEF p, q
<1>6. x = y
  BY <1>3, <1>4, <1>5
<1> QED BY <1>1, <1>6 DEF x, y

LEMMA TimeTypes ==
    ASSUME minute \in 0 .. LastMinute
    PROVE  /\ minute \in Nat /\ localTime \in Nat /\ utcTime \in Nat
           /\ DayOf(localTime) \in Days /\ DayOf(utcTime) \in Days
           /\ HourOf(localTime) \in Hours
<1> DEFINE D == DayLength
           off == Offset * MinutesPerHour
<1>1. /\ D \in Nat \ {0} /\ minute \in Nat /\ LastMinute \in Nat /\ Offset \in Nat
      /\ off \in Nat
  BY BriefingAssumption, DayIsHours
<1>2. off <= D
  <2>1. Offset * MinutesPerHour <= HoursPerDay * MinutesPerHour
    BY BriefingAssumption
  <2> QED BY <2>1, DayIsHours
<1>3. localTime = minute + D /\ utcTime = minute + D + off
  BY DEF localTime, utcTime
<1> HIDE DEF D, off
<1>4. localTime \in Nat /\ utcTime \in Nat
  BY <1>1, <1>3
<1>5. DayOf(localTime) \in Nat /\ DayOf(utcTime) \in Nat /\ HourOf(localTime) \in Hours
  BY <1>4, HoursOf
<1>6. /\ LastMinute \in Int /\ localTime \in Int /\ utcTime \in Int /\ 2 \in Int
      /\ localTime <= LastMinute + 2 * D /\ utcTime <= LastMinute + 2 * D
  BY <1>1, <1>2, <1>3
<1>7. localTime \div D <= LastMinute \div D + 2 /\ utcTime \div D <= LastMinute \div D + 2
  BY <1>1, <1>6, DivShiftDown
<1>8. LastMinute \div D \in Nat
  BY <1>1, DivPositive
<1> QED BY <1>1, <1>4, <1>5, <1>7, <1>8 DEF Days, DayOf, D

LEMMA BriefingInitInv == BriefingInit => BriefingInv
<1> SUFFICES ASSUME BriefingInit PROVE BriefingInv
  OBVIOUS
<1>1. LastMinute \in Nat /\ LastMinute \div DayLength \in Nat
  BY BriefingAssumption, DayIsHours, DivPositive
<1>2. 0 \in Days
  BY <1>1 DEF Days
<1> QED BY <1>1, <1>2 DEF BriefingInit, BriefingInv, BriefingTypeOK

LEMMA TickedKept ==
    ASSUME lastTick \in Nat, lastTick' \in Nat, lastTick <= lastTick'
    PROVE  Ticked \subseteq Ticked'
BY DEF Ticked, MomentOf, DayOf, HourOf

LEMMA BriefingTickInv == ASSUME BriefingInv, BriefingTick PROVE BriefingInv'
<1> DEFINE at == [day |-> DayOf(localTime), hour |-> HourOf(localTime)]
<1>1. /\ lastTick \in Nat /\ minute \in 0 .. LastMinute /\ minute \in Nat
      /\ minute > lastTick /\ lastTick' = minute /\ minute' = minute
      /\ sentToday' \subseteq Subs /\ lastCheckDate' = DayOf(utcTime)
      /\ reading' = IF DueMinute THEN reading \cup {at} ELSE reading
      /\ UNCHANGED <<briefingHour, quietHours, sending, sent, repeated>>
  BY BriefingAssumption DEF BriefingInv, BriefingTypeOK, BriefingTick
<1>2. Ticked \subseteq Ticked'
  BY <1>1, TickedKept
<1>3. at = MomentOf(minute) /\ at \in Moments /\ DayOf(utcTime) \in Days
  BY <1>1, TimeTypes DEF MomentOf, localTime, Moments
<1> HIDE DEF at
<1>4. ASSUME DueMinute PROVE at \in Ticked' /\ at \notin Ticked
  <2>1. (minute + DayLength) % MinutesPerHour = 0
    BY <1>4 DEF DueMinute, localTime
  <2>2. at \in Ticked'
    BY <1>1, <1>3, <2>1 DEF Ticked, MomentOf, DayOf, HourOf
  <2>3. ASSUME at \in Ticked PROVE FALSE
    <3>1. PICK m \in 0 .. lastTick : (m + DayLength) % MinutesPerHour = 0 /\ at = MomentOf(m)
      BY <2>3 DEF Ticked
    <3>0. m \in Nat /\ minute \in Nat /\ MomentOf(m) = MomentOf(minute)
      BY <1>1, <1>3, <3>1
    <3>2. m = minute
      BY <2>1, <3>0, <3>1, OneMinute
    <3> QED BY <1>1, <3>2
  <2> QED BY <2>2, <2>3
<1>5. reading' \subseteq Ticked' /\ \A b \in sent : b.at \in Ticked' \ reading'
  BY <1>1, <1>2, <1>4 DEF BriefingInv
<1>6. BriefingTypeOK'
  BY <1>1, <1>3 DEF BriefingInv, BriefingTypeOK
<1> QED BY <1>1, <1>5, <1>6 DEF BriefingInv

LEMMA RowsReadInv == ASSUME BriefingInv, NEW at \in reading, RowsRead(at) PROVE BriefingInv'
<1>1. PICK S \in SUBSET {s \in Subs : Due(s, at)} :
         LET new == {[sub |-> s, at |-> at] : s \in S} IN
         /\ sending' = sending \cup new
         /\ sent' = sent \cup new
         /\ repeated' = repeated \cup (new \cap sent)
  BY DEF RowsRead
<1> DEFINE new == {[sub |-> s, at |-> at] : s \in S}
<1>2. /\ sending' = sending \cup new /\ sent' = sent \cup new /\ repeated' = repeated \cup (new \cap sent)
      /\ reading' = reading \ {at}
      /\ UNCHANGED <<minute, lastTick, sentToday, lastCheckDate, briefingHour, quietHours>>
  BY <1>1 DEF RowsRead
<1>3. \A b \in new : b \in Briefings /\ b.at = at
  BY DEF Briefings, BriefingInv, BriefingTypeOK
<1> HIDE DEF new
<1>4. Ticked' = Ticked
  BY <1>2 DEF Ticked, MomentOf, DayOf, HourOf
<1>5. \A b \in sent : b.at # at
  BY DEF BriefingInv
<1>6. repeated' = {}
  BY <1>2, <1>3, <1>5 DEF BriefingInv
<1>7. BriefingTypeOK'
  BY <1>2, <1>3, <1>6 DEF BriefingInv, BriefingTypeOK
<1>8. \A b \in sent' : b.at \in Ticked' \ reading'
  BY <1>2, <1>3, <1>4 DEF BriefingInv
<1> QED BY <1>2, <1>4, <1>6, <1>7, <1>8 DEF BriefingInv

LEMMA BriefingStep == BriefingInv /\ [BriefingNext]_briefingVars => BriefingInv'
<1> SUFFICES ASSUME BriefingInv, [BriefingNext]_briefingVars PROVE BriefingInv'
  OBVIOUS
<1>1. CASE UNCHANGED briefingVars
  BY <1>1 DEF briefingVars, BriefingInv, BriefingTypeOK, Ticked, MomentOf, DayOf, HourOf
<1>2. CASE BriefingRestart
  <2>1. /\ lastTick \in Nat /\ minute \in Nat /\ lastTick <= minute /\ lastTick' = minute
    BY <1>2, BriefingAssumption DEF BriefingRestart, BriefingInv, BriefingTypeOK
  <2>2. Ticked \subseteq Ticked'
    BY <2>1, TickedKept
  <2>3. 0 \in Days
    BY BriefingAssumption, DayIsHours, DivPositive DEF Days
  <2> QED BY <1>2, <2>1, <2>2, <2>3 DEF BriefingRestart, BriefingInv, BriefingTypeOK
<1>3. CASE MinutePasses
  <2>1. Ticked' = Ticked
    BY <1>3 DEF MinutePasses, Ticked, MomentOf, DayOf, HourOf
  <2> QED BY <1>3, <2>1, BriefingAssumption DEF MinutePasses, BriefingInv, BriefingTypeOK
<1>4. ASSUME NEW b \in sending, BriefingSettled(b) PROVE BriefingInv'
  <2>1. Ticked' = Ticked
    BY <1>4 DEF BriefingSettled, Ticked, MomentOf, DayOf, HourOf
  <2> QED BY <1>4, <2>1 DEF BriefingSettled, BriefingInv, BriefingTypeOK, Briefings
<1>5. ASSUME NEW s \in Subs, Resubscribe(s) PROVE BriefingInv'
  <2>1. Ticked' = Ticked
    BY <1>5 DEF Resubscribe, Ticked, MomentOf, DayOf, HourOf
  <2>2. \A start, end \in Hours : Window(start, end) \subseteq Hours
    BY DEF Window
  <2>3. briefingHour' \in [Subs -> Hours] /\ quietHours' \in [Subs -> SUBSET Hours]
    BY <1>5, <2>2 DEF Resubscribe, BriefingInv, BriefingTypeOK
  <2> QED BY <1>5, <2>1, <2>3 DEF Resubscribe, BriefingInv, BriefingTypeOK
<1> QED BY <1>1, <1>2, <1>3, <1>4, <1>5, BriefingTickInv, RowsReadInv DEF BriefingNext

(* The inductive invariant holds in every state.                           *)
LEMMA BriefingInvariance == BriefingSpec => []BriefingInv
<1> QED BY BriefingInitInv, BriefingStep, PTL DEF BriefingSpec

(* What is being sent was handed to the push service, and every variable   *)
(* of the briefing keeps its type.                                         *)
THEOREM BriefingTypeCorrect == BriefingSpec => []BriefingTypeOK
<1>1. BriefingInv => BriefingTypeOK
  BY DEF BriefingInv
<1> QED BY <1>1, BriefingInvariance, PTL

(* A subscription has its briefing of a day and an hour at most once, for  *)
(* any length of the hours and of the day, however slow the rows are and   *)
(* whenever the server restarts.  A subscription that changes its hour may *)
(* have another one that day, of the other hour.                           *)
THEOREM OneBriefing == BriefingSpec => []NoRepeatedBriefing
<1>1. BriefingInv => NoRepeatedBriefing
  BY DEF BriefingInv, NoRepeatedBriefing
<1> QED BY <1>1, BriefingInvariance, PTL

-----------------------------------------------------------------------------
(***************************************************************************)
(* The transformer.                                                        *)
(*                                                                         *)
(* The argument: what is remembered of a trip was shown as running, and    *)
(* what was shown as running is remembered, unless its trip was in two     *)
(* feeds.                                                                  *)
(***************************************************************************)

(* Of some feeds one is the last.                                          *)
LEMMA LastOf ==
    ASSUME NEW T \in SUBSET SubwayFeeds, T # {}
    PROVE  \E f \in T : \A g \in T : g <= f
<1> DEFINE U == {LastFeed - f : f \in T}
<1>1. LastFeed \in Nat /\ U \in SUBSET Nat /\ U # {}
  <2>1. \A f \in T : f \in 1 .. LastFeed /\ LastFeed - f \in Nat
    BY TransformerAssumption DEF SubwayFeeds
  <2> QED BY <2>1, TransformerAssumption
<1> HIDE DEF U
<1>2. PICK n \in U : \A m \in U : n <= m
  BY <1>1, LeastOf
<1> USE DEF U
<1>3. PICK f \in T : n = LastFeed - f
  OBVIOUS
<1>4. \A g \in T : LastFeed - f <= LastFeed - g
  BY <1>2, <1>3
<1>5. ASSUME NEW g \in T PROVE g <= f
  <2>1. LastFeed - f <= LastFeed - g /\ f \in Int /\ g \in Int /\ LastFeed \in Int
    BY <1>1, <1>4 DEF SubwayFeeds
  <2> QED BY <2>1
<1> QED BY <1>5

-----------------------------------------------------------------------------
(* What is remembered of a trip was shown as running.                      *)
RememberedShown ==
    \A t \in FeedTrips, s \in TripStops :
      prevTripStops[t].stops[s] # NoTime =>
        Arrival(t, s, prevTripStops[t].stops[s], prevTripStops[t].feed, FALSE) \in shown

(* ... by no feed later than the one it is remembered for.                 *)
RememberedLast ==
    \A t \in FeedTrips, a \in shown :
      (/\ \E s \in TripStops : prevTripStops[t].stops[s] # NoTime
       /\ ~a.isCancelled /\ a.trip = t) => a.feed <= prevTripStops[t].feed

(* What was shown as running, by no later feed as well, is remembered.     *)
ShownRemembered ==
    \A a \in shown : ~a.isCancelled /\ ~ShownLater(a) =>
      prevTripStops[a.trip].feed = a.feed /\ prevTripStops[a.trip].stops[a.stop] = a.at

TransformerInv ==
    /\ TransformerTypeOK
    /\ parsedFeeds \in [SubwayFeeds -> Messages \cup {NoMessage}]
    /\ prevTripStops \in [FeedTrips -> [feed : 0 .. LastFeed, stops : StopTimes]]
    /\ RememberedShown /\ RememberedLast /\ ShownRemembered

LEMMA TransformerInitInv == TransformerInit => TransformerInv
<1> SUFFICES ASSUME TransformerInit PROVE TransformerInv
  OBVIOUS
<1>1. NoStops \in [feed : 0 .. LastFeed, stops : StopTimes] /\ NoStops.stops = [s \in TripStops |-> NoTime]
  BY TransformerAssumption DEF NoStops, StopTimes
<1>2. RememberedShown /\ RememberedLast /\ ShownRemembered
  BY <1>1 DEF TransformerInit, RememberedShown, RememberedLast, ShownRemembered
<1> QED BY <1>1, <1>2, TransformerAssumption
            DEF TransformerInit, TransformerInv, TransformerTypeOK, NoMessage

(* A trip's times, in a message that lists it.                             *)
LEMMA ListedTimes ==
    ASSUME TransformerInv, NEW f \in SubwayFeeds, NEW t \in DOMAIN parsedFeeds[f].trips
    PROVE  t \in FeedTrips /\ parsedFeeds[f].trips[t] \in StopTimes
<1>1. parsedFeeds[f] \in Messages \/ parsedFeeds[f] = NoMessage
  BY DEF TransformerInv
<1>2. CASE parsedFeeds[f] \in Messages
  <2>1. PICK S \in SUBSET FeedTrips : parsedFeeds[f].trips \in [S -> StopTimes]
    BY <1>2 DEF Messages
  <2> QED BY <2>1
<1>3. CASE parsedFeeds[f] = NoMessage
  BY <1>3 DEF NoMessage
<1> QED BY <1>1, <1>2, <1>3

LEMMA RunningIs ==
    /\ \A f \in SubwayFeeds, t \in FeedTrips, s \in TripStops :
         t \in DOMAIN parsedFeeds[f].trips /\ Ahead(parsedFeeds[f].trips[t][s]) =>
           Arrival(t, s, parsedFeeds[f].trips[t][s], f, FALSE) \in Running
    /\ \A a \in Running :
         \E f \in SubwayFeeds, t \in FeedTrips, s \in TripStops :
           /\ t \in DOMAIN parsedFeeds[f].trips /\ Ahead(parsedFeeds[f].trips[t][s])
           /\ a = Arrival(t, s, parsedFeeds[f].trips[t][s], f, FALSE)
<1>1. ASSUME NEW f \in SubwayFeeds, NEW t \in FeedTrips, NEW s \in TripStops,
             t \in DOMAIN parsedFeeds[f].trips, Ahead(parsedFeeds[f].trips[t][s])
      PROVE  Arrival(t, s, parsedFeeds[f].trips[t][s], f, FALSE) \in Running
  <2> DEFINE p == <<f, t, s>>
  <2>1. p \in SubwayFeeds \X FeedTrips \X TripStops /\ p[1] = f /\ p[2] = t /\ p[3] = s
    OBVIOUS
  <2> HIDE DEF p
  <2> QED BY <1>1, <2>1 DEF Running
<1>2. ASSUME NEW a \in Running
      PROVE  \E f \in SubwayFeeds, t \in FeedTrips, s \in TripStops :
               /\ t \in DOMAIN parsedFeeds[f].trips /\ Ahead(parsedFeeds[f].trips[t][s])
               /\ a = Arrival(t, s, parsedFeeds[f].trips[t][s], f, FALSE)
  <2>1. PICK p \in SubwayFeeds \X FeedTrips \X TripStops :
           /\ p[2] \in DOMAIN parsedFeeds[p[1]].trips
           /\ Ahead(parsedFeeds[p[1]].trips[p[2]][p[3]])
           /\ a = Arrival(p[2], p[3], parsedFeeds[p[1]].trips[p[2]][p[3]], p[1], FALSE)
    BY DEF Running
  <2>2. p[1] \in SubwayFeeds /\ p[2] \in FeedTrips /\ p[3] \in TripStops
    BY <2>1
  <2> QED BY <2>1, <2>2
<1> QED BY <1>1, <1>2

LEMMA CancelledIs ==
    /\ \A t \in FeedTrips \ currentTripIds, s \in TripStops :
         LET prev == prevTripStops[t] IN
         prev # NoStops /\ Ahead(prev.stops[s]) /\ WithinWindow(prev.feed, t, prev.stops[s]) =>
           Arrival(t, s, prev.stops[s], prev.feed, TRUE) \in Cancelled
    /\ \A a \in Cancelled :
         \E t \in FeedTrips \ currentTripIds, s \in TripStops :
           /\ prevTripStops[t] # NoStops /\ Ahead(prevTripStops[t].stops[s])
           /\ WithinWindow(prevTripStops[t].feed, t, prevTripStops[t].stops[s])
           /\ a = Arrival(t, s, prevTripStops[t].stops[s], prevTripStops[t].feed, TRUE)
<1>1. ASSUME NEW t \in FeedTrips \ currentTripIds, NEW s \in TripStops,
             prevTripStops[t] # NoStops, Ahead(prevTripStops[t].stops[s]),
             WithinWindow(prevTripStops[t].feed, t, prevTripStops[t].stops[s])
      PROVE  Arrival(t, s, prevTripStops[t].stops[s], prevTripStops[t].feed, TRUE) \in Cancelled
  <2> DEFINE p == <<t, s>>
  <2>1. p \in (FeedTrips \ currentTripIds) \X TripStops /\ p[1] = t /\ p[2] = s
    OBVIOUS
  <2> HIDE DEF p
  <2> QED BY <1>1, <2>1 DEF Cancelled
<1>2. ASSUME NEW a \in Cancelled
      PROVE  \E t \in FeedTrips \ currentTripIds, s \in TripStops :
               /\ prevTripStops[t] # NoStops /\ Ahead(prevTripStops[t].stops[s])
               /\ WithinWindow(prevTripStops[t].feed, t, prevTripStops[t].stops[s])
               /\ a = Arrival(t, s, prevTripStops[t].stops[s], prevTripStops[t].feed, TRUE)
  <2>1. PICK p \in (FeedTrips \ currentTripIds) \X TripStops :
           /\ prevTripStops[p[1]] # NoStops /\ Ahead(prevTripStops[p[1]].stops[p[2]])
           /\ WithinWindow(prevTripStops[p[1]].feed, p[1], prevTripStops[p[1]].stops[p[2]])
           /\ a = Arrival(p[1], p[2], prevTripStops[p[1]].stops[p[2]], prevTripStops[p[1]].feed, TRUE)
    BY DEF Cancelled
  <2>2. p[1] \in FeedTrips \ currentTripIds /\ p[2] \in TripStops
    BY <2>1
  <2> QED BY <2>1, <2>2
<1> QED BY <1>1, <1>2

LEMMA AheadIsTime ==
    ASSUME NEW times \in StopTimes, NEW s \in TripStops, Ahead(times[s])
    PROVE  times[s] \in ArrivalTimes /\ times[s] # NoTime
BY DEF StopTimes, Ahead

(* The stops remembered of a trip are those of the last feed showing it.   *)
LEMMA StopsOfTrip ==
    ASSUME TransformerInv, NEW t \in FeedTrips
    PROVE  LET feeds == {f \in SubwayFeeds : \E a \in Running : a.trip = t /\ a.feed = f} IN
           /\ StopsOf(t) \in [feed : 0 .. LastFeed, stops : StopTimes]
           /\ feeds = {} => StopsOf(t) = NoStops
           /\ feeds # {} =>
                \E last \in feeds :
                  /\ StopsOf(t).feed = last /\ t \in DOMAIN parsedFeeds[last].trips
                  /\ \A g \in feeds : g <= last
                  /\ \A s \in TripStops :
                       StopsOf(t).stops[s] = IF Ahead(parsedFeeds[last].trips[t][s])
                                             THEN parsedFeeds[last].trips[t][s] ELSE NoTime
<1> DEFINE feeds == {f \in SubwayFeeds : \E a \in Running : a.trip = t /\ a.feed = f}
           last == CHOOSE f \in feeds : \A g \in feeds : g <= f
           kept == [s \in TripStops |-> IF Ahead(parsedFeeds[last].trips[t][s])
                                        THEN parsedFeeds[last].trips[t][s] ELSE NoTime]
<1>1. CASE feeds = {}
  <2>1. StopsOf(t) = NoStops
    BY <1>1 DEF StopsOf
  <2>2. NoStops \in [feed : 0 .. LastFeed, stops : StopTimes]
    BY TransformerAssumption DEF NoStops, StopTimes
  <2> QED BY <1>1, <2>1, <2>2
<1>2. CASE feeds # {}
  <2>1. StopsOf(t) = [feed |-> last, stops |-> kept]
    BY <1>2 DEF StopsOf
  <2>2. last \in feeds /\ \A g \in feeds : g <= last
    <3>1. feeds \in SUBSET SubwayFeeds
      OBVIOUS
    <3> HIDE DEF feeds
    <3>2. \E f \in feeds : \A g \in feeds : g <= f
      BY <1>2, <3>1, LastOf
    <3> QED BY <3>2
  <2> HIDE DEF last
  <2>3. t \in DOMAIN parsedFeeds[last].trips /\ last \in SubwayFeeds
    <3>1. PICK a \in Running : a.trip = t /\ a.feed = last
      BY <2>2
    <3>2. PICK f \in SubwayFeeds, u \in FeedTrips, s \in TripStops :
           /\ u \in DOMAIN parsedFeeds[f].trips
           /\ a = Arrival(u, s, parsedFeeds[f].trips[u][s], f, FALSE)
      BY RunningIs
    <3>3. u = t /\ f = last
      BY <3>1, <3>2 DEF Arrival
    <3> QED BY <3>2, <3>3
  <2>4. parsedFeeds[last].trips[t] \in StopTimes
    BY <2>3, ListedTimes
  <2>5. kept \in StopTimes
    BY <2>4, AheadIsTime DEF StopTimes
  <2>6. StopsOf(t) \in [feed : 0 .. LastFeed, stops : StopTimes]
    BY <2>1, <2>3, <2>5, TransformerAssumption DEF SubwayFeeds
  <2>7. /\ StopsOf(t).feed = last
        /\ \A s \in TripStops :
             StopsOf(t).stops[s] = IF Ahead(parsedFeeds[last].trips[t][s])
                                   THEN parsedFeeds[last].trips[t][s] ELSE NoTime
    BY <2>1
  <2> HIDE DEF feeds
  <2> QED BY <1>2, <2>2, <2>3, <2>6, <2>7 DEF feeds
<1> QED BY <1>1, <1>2

LEMMA Relabelled ==
    ASSUME NEW a \in Arrivals, NEW b \in BOOLEAN
    PROVE  /\ [a EXCEPT !.isCancelled = b] = Arrival(a.trip, a.stop, a.at, a.feed, b)
           /\ [a EXCEPT !.isCancelled = b] \in Arrivals
<1>1. a = [trip |-> a.trip, stop |-> a.stop, at |-> a.at, feed |-> a.feed, isCancelled |-> a.isCancelled]
  BY DEF Arrivals
<1>2. [a EXCEPT !.isCancelled = b] = Arrival(a.trip, a.stop, a.at, a.feed, b)
  BY <1>1 DEF Arrival
<1> QED BY <1>2 DEF Arrival, Arrivals

LEMMA TransformStep ==
    ASSUME TransformerInv, transformFeeds
    PROVE  /\ TransformerInv'
           /\ {a \in shown' : a.isCancelled} =
                {[a EXCEPT !.isCancelled = TRUE] : a \in {b \in shown : Vanished(b)}}
<1>1. /\ shown' = Cancelled \cup Running /\ prevTripStops' = [t \in FeedTrips |-> StopsOf(t)]
      /\ nowSeconds' = nowSeconds /\ parsedFeeds' = parsedFeeds
  BY DEF transformFeeds
<1>2. \A a \in Running :
        /\ ~a.isCancelled /\ a \in Arrivals
        /\ a.feed \in SubwayFeeds /\ a.trip \in FeedTrips /\ a.stop \in TripStops
        /\ a.trip \in DOMAIN parsedFeeds[a.feed].trips
        /\ a.at = parsedFeeds[a.feed].trips[a.trip][a.stop] /\ Ahead(a.at)
  <2> SUFFICES ASSUME NEW f \in SubwayFeeds, NEW t \in FeedTrips, NEW s \in TripStops,
                      t \in DOMAIN parsedFeeds[f].trips, Ahead(parsedFeeds[f].trips[t][s])
               PROVE  Arrival(t, s, parsedFeeds[f].trips[t][s], f, FALSE) \in Arrivals
    BY RunningIs DEF Arrival
  <2>1. parsedFeeds[f].trips[t][s] \in ArrivalTimes
    BY ListedTimes, AheadIsTime
  <2> QED BY <2>1 DEF Arrival, Arrivals
<1>3. ASSUME NEW a \in Cancelled
      PROVE  /\ a \in Arrivals /\ a.isCancelled
             /\ \E b \in shown : Vanished(b) /\ a = [b EXCEPT !.isCancelled = TRUE]
  <2>1. PICK t \in FeedTrips \ currentTripIds, s \in TripStops :
           /\ prevTripStops[t] # NoStops /\ Ahead(prevTripStops[t].stops[s])
           /\ WithinWindow(prevTripStops[t].feed, t, prevTripStops[t].stops[s])
           /\ a = Arrival(t, s, prevTripStops[t].stops[s], prevTripStops[t].feed, TRUE)
    BY CancelledIs
  <2>2. prevTripStops[t].stops[s] # NoTime
    BY <2>1 DEF Ahead
  <2> DEFINE b == Arrival(t, s, prevTripStops[t].stops[s], prevTripStops[t].feed, FALSE)
  <2>3. Arrival(t, s, prevTripStops[t].stops[s], prevTripStops[t].feed, FALSE) \in shown
    BY <2>2 DEF TransformerInv, RememberedShown
  <2>4. Arrival(t, s, prevTripStops[t].stops[s], prevTripStops[t].feed, FALSE) \in Arrivals
    BY <2>3 DEF TransformerInv, TransformerTypeOK
  <2>5. /\ b.trip = t /\ b.stop = s /\ b.at = prevTripStops[t].stops[s]
        /\ b.feed = prevTripStops[t].feed /\ ~b.isCancelled
    BY DEF Arrival
  <2>6. a \in Arrivals /\ a.isCancelled
    BY <2>1, <2>4 DEF Arrival, Arrivals
  <2>7. ~InMessages(t)
    BY <2>1 DEF currentTripIds, Lists, InMessages
  <2>8. b \in shown /\ b \in Arrivals
    BY <2>3, <2>4
  <2> HIDE DEF b
  <2>9. ASSUME NEW q \in shown, ~q.isCancelled, q.trip = t PROVE ~(q.feed > b.feed)
    <3>1. q.feed \in Int /\ b.feed \in Int
      BY <2>8 DEF TransformerInv, TransformerTypeOK, Arrivals, SubwayFeeds
    <3>2. q.feed <= b.feed
      BY <2>2, <2>5, <2>9 DEF TransformerInv, RememberedLast
    <3> QED BY <3>1, <3>2
  <2>10. Vanished(b)
    BY <2>1, <2>5, <2>7, <2>9 DEF Vanished, ShownLater
  <2>11. a = [b EXCEPT !.isCancelled = TRUE]
    BY <2>1, <2>5, <2>8, Relabelled
  <2> QED BY <2>6, <2>8, <2>10, <2>11
<1>4. ASSUME NEW a \in shown, Vanished(a)
      PROVE  [a EXCEPT !.isCancelled = TRUE] \in Cancelled
  <2> DEFINE t == a.trip
             s == a.stop
             prev == prevTripStops[t]
  <2>1. a \in Arrivals /\ a.isCancelled = FALSE
    BY <1>4 DEF TransformerInv, TransformerTypeOK, Vanished, Arrivals
  <2>2. t \in FeedTrips /\ s \in TripStops /\ a.feed \in SubwayFeeds
    BY <2>1 DEF Arrivals
  <2>3. prev.feed = a.feed /\ prev.stops[s] = a.at
    BY <1>4 DEF Vanished, TransformerInv, ShownRemembered
  <2>4. prev # NoStops
    BY <2>2, <2>3 DEF NoStops, SubwayFeeds
  <2>5. t \in FeedTrips \ currentTripIds
    BY <1>4, <2>2 DEF Vanished, InMessages, currentTripIds, Lists
  <2>6. Ahead(prev.stops[s]) /\ WithinWindow(prev.feed, t, prev.stops[s])
    BY <1>4, <2>3 DEF Vanished
  <2> HIDE DEF prev
  <2>7. Arrival(t, s, prev.stops[s], prev.feed, TRUE) \in Cancelled
    BY <2>2, <2>4, <2>5, <2>6, CancelledIs DEF prev
  <2>8. [a EXCEPT !.isCancelled = TRUE] = Arrival(t, s, prev.stops[s], prev.feed, TRUE)
    BY <2>1, <2>3, Relabelled DEF prev
  <2> QED BY <2>7, <2>8
<1>5. prevTripStops' \in [FeedTrips -> [feed : 0 .. LastFeed, stops : StopTimes]]
  BY <1>1, StopsOfTrip
<1>6. RememberedShown'
  <2> SUFFICES ASSUME NEW t \in FeedTrips, NEW s \in TripStops, StopsOf(t).stops[s] # NoTime
               PROVE  Arrival(t, s, StopsOf(t).stops[s], StopsOf(t).feed, FALSE) \in Running
    BY <1>1 DEF RememberedShown, Arrival
  <2>1. StopsOf(t) # NoStops
    BY DEF NoStops
  <2>2. PICK last \in SubwayFeeds :
           /\ StopsOf(t).feed = last /\ t \in DOMAIN parsedFeeds[last].trips
           /\ StopsOf(t).stops[s] = IF Ahead(parsedFeeds[last].trips[t][s])
                                    THEN parsedFeeds[last].trips[t][s] ELSE NoTime
    BY <2>1, StopsOfTrip
  <2> QED BY <2>2, RunningIs
<1>7. ASSUME NEW a \in Running
      PROVE  LET feeds == {f \in SubwayFeeds : \E b \in Running : b.trip = a.trip /\ b.feed = f} IN
             /\ StopsOf(a.trip).feed \in feeds /\ a.feed <= StopsOf(a.trip).feed
             /\ StopsOf(a.trip).feed = a.feed => StopsOf(a.trip).stops[a.stop] = a.at
  <2> DEFINE t == a.trip
             feeds == {f \in SubwayFeeds : \E b \in Running : b.trip = t /\ b.feed = f}
  <2>1. a.feed \in feeds /\ t \in FeedTrips /\ a.stop \in TripStops
    BY <1>2
  <2>2. PICK last \in feeds :
           /\ StopsOf(t).feed = last /\ \A g \in feeds : g <= last
           /\ StopsOf(t).stops[a.stop] = IF Ahead(parsedFeeds[last].trips[t][a.stop])
                                         THEN parsedFeeds[last].trips[t][a.stop] ELSE NoTime
    BY <2>1, StopsOfTrip
  <2>3. a.at = parsedFeeds[a.feed].trips[t][a.stop] /\ Ahead(a.at)
    BY <1>2
  <2>4. StopsOf(t).feed = a.feed => StopsOf(t).stops[a.stop] = a.at
    BY <2>2, <2>3
  <2>5. StopsOf(t).feed \in feeds /\ a.feed <= StopsOf(t).feed
    BY <2>1, <2>2
  <2> HIDE DEF feeds
  <2> QED BY <2>4, <2>5 DEF feeds
<1>8. RememberedLast'
  <2> SUFFICES ASSUME NEW a \in Running
               PROVE  a.feed <= StopsOf(a.trip).feed
    BY <1>1, <1>2, <1>3 DEF RememberedLast
  <2> QED BY <1>7
<1>9. ShownRemembered'
  <2> SUFFICES ASSUME NEW a \in Running, ~ShownLater(a)'
               PROVE  StopsOf(a.trip).feed = a.feed /\ StopsOf(a.trip).stops[a.stop] = a.at
    BY <1>1, <1>2, <1>3 DEF ShownRemembered
  <2>1. PICK b \in Running : b.trip = a.trip /\ b.feed = StopsOf(a.trip).feed
    BY <1>7
  <2>2. a.feed <= b.feed /\ a.feed \in Int /\ b.feed \in Int
    BY <1>2, <1>7, <2>1 DEF SubwayFeeds
  <2>3. ~(b.feed > a.feed)
    BY <1>1, <1>2, <2>1 DEF ShownLater
  <2>4. b.feed = a.feed
    BY <2>2, <2>3
  <2> QED BY <1>7, <2>1, <2>4
<1>10. {a \in shown' : a.isCancelled} =
         {[a EXCEPT !.isCancelled = TRUE] : a \in {b \in shown : Vanished(b)}}
  <2>1. {a \in shown' : a.isCancelled} = Cancelled
    BY <1>1, <1>2, <1>3
  <2> QED BY <1>3, <1>4, <2>1
<1>11. TransformerTypeOK'
  BY <1>1, <1>2, <1>3, <1>5 DEF TransformerInv, TransformerTypeOK
<1> QED BY <1>1, <1>5, <1>6, <1>8, <1>9, <1>10, <1>11 DEF TransformerInv

LEMMA FeedParsedInv == ASSUME TransformerInv, NEW f \in SubwayFeeds, FeedParsed(f) PROVE TransformerInv'
<1>1. PICK m \in Messages : parsedFeeds' = [parsedFeeds EXCEPT ![f] = m]
  BY DEF FeedParsed
<1>2. UNCHANGED <<nowSeconds, prevTripStops, shown>>
  BY DEF FeedParsed
<1>3. DOMAIN m.trips \subseteq FeedTrips
  BY DEF Messages
<1>4. parsedFeeds' \in [SubwayFeeds -> Messages \cup {NoMessage}]
  BY <1>1 DEF TransformerInv
<1>5. \A g \in SubwayFeeds : parsedFeeds'[g].parsed => DOMAIN parsedFeeds'[g].trips \subseteq FeedTrips
  BY <1>1, <1>3 DEF TransformerInv, TransformerTypeOK
<1> QED BY <1>2, <1>4, <1>5
            DEF TransformerInv, TransformerTypeOK, RememberedShown, RememberedLast,
                ShownRemembered, ShownLater

LEMMA SecondInv == ASSUME TransformerInv, SecondPasses PROVE TransformerInv'
<1>1. nowSeconds' \in 0 .. LastSecond /\ UNCHANGED <<parsedFeeds, prevTripStops, shown>>
  BY TransformerAssumption DEF SecondPasses, TransformerInv, TransformerTypeOK
<1> QED BY <1>1 DEF TransformerInv, TransformerTypeOK, RememberedShown, RememberedLast,
                ShownRemembered, ShownLater

LEMMA TransformerStep == TransformerInv /\ [TransformerNext]_transformerVars => TransformerInv'
<1>1. ASSUME TransformerInv, UNCHANGED transformerVars PROVE TransformerInv'
  BY <1>1 DEF transformerVars, TransformerInv, TransformerTypeOK, RememberedShown, RememberedLast,
              ShownRemembered, ShownLater
<1> QED BY <1>1, TransformStep, FeedParsedInv, SecondInv DEF TransformerNext

(* The inductive invariant holds in every state.                           *)
LEMMA TransformerInvariance == TransformerSpec => []TransformerInv
<1> QED BY TransformerInitInv, TransformerStep, PTL DEF TransformerSpec

(* What is remembered of a trip and what is shown keep their types.        *)
THEOREM TransformerTypeCorrect == TransformerSpec => []TransformerTypeOK
<1>1. TransformerInv => TransformerTypeOK
  BY DEF TransformerInv
<1> QED BY <1>1, TransformerInvariance, PTL

(* The arrivals shown as cancelled are exactly those that were shown as    *)
(* running, by no later feed as well, that are ahead and within a window   *)
(* of their feed, and whose trip left every feed: for any feeds, trips,    *)
(* stops and windows.                                                      *)
THEOREM CancelledExactly == TransformerSpec => CancellationsExact
<1>1. TransformerInv => CancelsExactly
  BY TransformStep DEF CancelsExactly
<1>2. TransformerSpec => [][CancelsExactly]_transformerVars
  BY <1>1, TransformerInvariance, PTL
<1> QED BY <1>2 DEF CancellationsExact

-----------------------------------------------------------------------------
(***************************************************************************)
(* The transfer engine.                                                    *)
(*                                                                         *)
(* The argument: the chains of stations and the legs of a chain are        *)
(* functions defined by their first value and the step to the next, so     *)
(* they satisfy the equations that define them; then, from leg to leg,     *)
(* what was spent since the first train runs ahead of the arrivals by a    *)
(* slack at most.                                                          *)
(***************************************************************************)

(* g is the function from first to last that begins with x0 and goes on    *)
(* with F.                                                                 *)
Follows(g, X, x0, first, last, F) ==
    /\ g \in [first .. last -> X]
    /\ g = [i \in first .. last |-> IF i = first THEN x0 ELSE F[<<i, g[i - 1]>>]]

(* A function can be defined by its first value and the step to the next.  *)
LEMMA Recursion ==
    ASSUME NEW X, NEW x0 \in X, NEW first \in Nat, NEW last \in Nat,
           NEW F \in [(first .. last) \X X -> X]
    PROVE  \E g : Follows(g, X, x0, first, last, F)
<1> DEFINE Upto(n, g) ==
             g = [i \in first .. n |-> IF i = first THEN x0 ELSE F[<<i, g[i - 1]>>]]
           Fails == {n \in Nat : n <= last /\ ~\E g \in [first .. n -> X] : Upto(n, g)}
<1> HIDE DEF Upto
<1>1. CASE Fails = {}
  <2>1. last \notin Fails
    BY <1>1
  <2>2. \E g \in [first .. last -> X] : Upto(last, g)
    BY <2>1
  <2> QED BY <2>2 DEF Upto, Follows
<1>2. CASE Fails # {}
  <2>1. Fails \in SUBSET Nat
    OBVIOUS
  <2> HIDE DEF Fails
  <2>2. PICK n \in Fails : \A m \in Fails : n <= m
    BY <1>2, <2>1, LeastOf
  <2> USE DEF Fails
  <2>3. n \in Nat /\ n <= last /\ ~\E g \in [first .. n -> X] : Upto(n, g)
    BY <2>2
  <2>4. CASE n <= first
    <3> DEFINE g == [i \in first .. n |-> x0]
    <3>1. g \in [first .. n -> X]
      OBVIOUS
    <3>2. g = [i \in first .. n |-> IF i = first THEN x0 ELSE F[<<i, g[i - 1]>>]]
      <4>1. \A i \in first .. n : i = first
        BY <2>3, <2>4
      <4> QED BY <4>1
    <3> HIDE DEF g
    <3> QED BY <2>3, <3>1, <3>2 DEF Upto
  <2>5. CASE first < n
    <3>1. n - 1 \in Nat /\ n - 1 <= last /\ n - 1 \notin Fails
      BY <2>2, <2>3, <2>5
    <3>2. PICK h \in [first .. n - 1 -> X] : Upto(n - 1, h)
      BY <3>1
    <3> DEFINE new == F[<<n, h[n - 1]>>]
               g == [i \in first .. n |-> IF i = n THEN new ELSE h[i]]
    <3>3. h[n - 1] \in X /\ n \in first .. last
      BY <2>3, <2>5, <3>2
    <3>4. new \in X
      BY <3>3
    <3> HIDE DEF new
    <3>5. g \in [first .. n -> X]
      BY <2>3, <3>2, <3>4
    <3>6. ASSUME NEW i \in first .. n
          PROVE  g[i] = IF i = first THEN x0 ELSE F[<<i, g[i - 1]>>]
      <4>1. CASE i = n
        <5>1. n - 1 \in first .. n /\ n - 1 # n /\ n # first
          BY <2>3, <2>5
        <5>2. g[n] = new /\ g[n - 1] = h[n - 1]
          BY <5>1
        <5>3. new = F[<<n, g[n - 1]>>]
          BY <5>2 DEF new
        <5> HIDE DEF g
        <5> QED BY <4>1, <5>1, <5>2, <5>3
      <4>2. CASE i # n /\ i # first
        <5>1. i \in first .. n - 1 /\ i - 1 \in first .. n - 1
          BY <2>3, <4>2
        <5>2. g[i] = h[i] /\ g[i - 1] = h[i - 1]
          BY <2>3, <4>2, <5>1
        <5>3. h[i] = F[<<i, h[i - 1]>>]
          BY <3>2, <4>2, <5>1 DEF Upto
        <5> QED BY <4>2, <5>2, <5>3
      <4>3. CASE i # n /\ i = first
        <5>1. i \in first .. n - 1 /\ g[i] = h[i]
          BY <2>3, <4>3
        <5>2. h[i] = x0
          BY <3>2, <4>3, <5>1 DEF Upto
        <5> QED BY <4>3, <5>1, <5>2
      <4> QED BY <4>1, <4>2, <4>3
    <3>7. g = [i \in first .. n |-> IF i = first THEN x0 ELSE F[<<i, g[i - 1]>>]]
      BY <3>6
    <3> HIDE DEF g
    <3> QED BY <2>3, <3>5, <3>7 DEF Upto
  <2> QED BY <2>3, <2>4, <2>5
<1> QED BY <1>1, <1>2

(* Chains of stations: the walks and the lines go with the stations, and   *)
(* the first station is not walked to.                                     *)
GoodChains ==
    {c \in [stations : Seq(Stations), lines : Seq(Lines), walks : Seq(Nat)] :
       /\ Len(c.stations) = Len(c.lines) + 1 /\ Len(c.walks) = Len(c.lines) + 1
       /\ c.walks[1] = 0}

(* A chain with one more station is one.                                   *)
LEMMA ExtendedGood ==
    ASSUME NEW c \in GoodChains, NEW s \in Stations, NEW l \in Lines, NEW w \in Nat
    PROVE  Extended(c, s, l, w) \in GoodChains /\ Len(Extended(c, s, l, w).lines) >= 1
<1> DEFINE d == Extended(c, s, l, w)
<1>1. /\ d.stations = Append(c.stations, s) /\ d.lines = Append(c.lines, l) /\ d.walks = Append(c.walks, w)
      /\ d = [stations |-> d.stations, lines |-> d.lines, walks |-> d.walks]
  BY DEF Extended
<1>2. /\ c.stations \in Seq(Stations) /\ c.lines \in Seq(Lines) /\ c.walks \in Seq(Nat)
      /\ Len(c.stations) = Len(c.lines) + 1 /\ Len(c.walks) = Len(c.lines) + 1 /\ c.walks[1] = 0
      /\ Len(c.lines) \in Nat
  BY DEF GoodChains
<1> HIDE DEF d
<1>3. d.stations \in Seq(Stations) /\ d.lines \in Seq(Lines) /\ d.walks \in Seq(Nat)
  BY <1>1, <1>2
<1>4. /\ Len(d.stations) = Len(d.lines) + 1 /\ Len(d.walks) = Len(d.lines) + 1 /\ d.walks[1] = 0
      /\ Len(d.lines) >= 1
  <2>1. /\ Len(Append(c.stations, s)) = Len(c.stations) + 1 /\ Len(Append(c.lines, l)) = Len(c.lines) + 1
        /\ Len(Append(c.walks, w)) = Len(c.walks) + 1
    BY <1>2, AppendProperties
  <2>2. 1 \in 1 .. Len(c.walks)
    BY <1>2
  <2>3. Append(c.walks, w)[1] = c.walks[1]
    BY <1>2, <2>2, AppendProperties
  <2> QED BY <1>1, <1>2, <2>1, <2>3
<1>5. d \in [stations : Seq(Stations), lines : Seq(Lines), walks : Seq(Nat)]
  BY <1>1, <1>3
<1> QED BY <1>4, <1>5 DEF GoodChains, d

(* A walk takes a whole time, listed or not.                               *)
LEMMA WalkType == ASSUME NEW a, NEW b PROVE Walk(a, b) \in Nat
<1>1. ListedWalks(a, b) \in SUBSET Nat /\ ComplexWalk \in Nat
  BY EngineAssumption DEF ListedWalks
<1>2. CASE ListedWalks(a, b) # {}
  <2>1. \E n \in ListedWalks(a, b) : \A m \in ListedWalks(a, b) : n <= m
    BY <1>1, <1>2, LeastOf
  <2>2. Min(ListedWalks(a, b)) \in ListedWalks(a, b)
    BY <2>1 DEF Min
  <2> QED BY <1>1, <1>2, <2>2 DEF Walk
<1> QED BY <1>1, <1>2 DEF Walk

(* The lines that go on are lines.                                         *)
LEMMA OnwardType ==
    ASSUME NEW c, NEW s \in Stations PROVE OnwardLines(c, s) \subseteq Lines
BY EngineAssumption DEF OnwardLines

(* Extending a chain makes chains.                                         *)
LEMMA ExtensionsGood ==
    ASSUME NEW c \in GoodChains PROVE Extensions(c) \subseteq GoodChains
<1> SUFFICES ASSUME NEW d \in Extensions(c) PROVE d \in GoodChains
  OBVIOUS
<1>0. PICK s \in TransferStops(c) :
        \E l \in OnwardLines(c, s) : d = Extended(c, s, l, Walk(Last(c.stations), s))
  BY DEF Extensions
<1>1. PICK l \in OnwardLines(c, s) : d = Extended(c, s, l, Walk(Last(c.stations), s))
  BY <1>0
<1>2. s \in Stations /\ l \in Lines
  BY <1>1, OnwardType DEF TransferStops
<1>3. Walk(Last(c.stations), s) \in Nat
  BY WalkType
<1> QED BY <1>1, <1>2, <1>3, ExtendedGood

(* The chain of the origin alone is one.                                   *)
LEMMA StartGood == Start \in GoodChains
<1> DEFINE st == <<Origin>>
           no == <<>>
           w == <<0>>
<1>1. st \in Seq(Stations) /\ Len(st) = 1
  BY EngineAssumption
<1>2. no \in Seq(Lines) /\ Len(no) = 0
  OBVIOUS
<1>3. w \in Seq(Nat) /\ Len(w) = 1 /\ w[1] = 0
  OBVIOUS
<1>4. Start = [stations |-> st, lines |-> no, walks |-> w]
  BY DEF Start
<1> HIDE DEF st, no, w
<1>5. Start \in [stations : Seq(Stations), lines : Seq(Lines), walks : Seq(Nat)]
  BY <1>1, <1>2, <1>3, <1>4
<1>6. Start.stations = st /\ Start.lines = no /\ Start.walks = w
  BY <1>4
<1>7. /\ Len(Start.stations) = Len(Start.lines) + 1 /\ Len(Start.walks) = Len(Start.lines) + 1
      /\ Start.walks[1] = 0
  BY <1>1, <1>2, <1>3, <1>6
<1> QED BY <1>5, <1>7 DEF GoodChains

(* chains satisfies the equation that defines it.                          *)
LEMMA ChainsAre ==
    chains = [n \in 0 .. MaxTransfers |->
                IF n = 0 THEN {Start} ELSE UNION {Extensions(c) : c \in chains[n - 1]}]
<1> DEFINE X == SUBSET GoodChains
           F == [p \in (0 .. MaxTransfers) \X X |-> UNION {Extensions(c) : c \in p[2]}]
<1>1. {Start} \in X
  BY StartGood
<1>2. F \in [(0 .. MaxTransfers) \X X -> X]
  BY ExtensionsGood
<1>3. MaxTransfers \in Nat
  BY EngineAssumption
<1> HIDE DEF F, X
<1>4. PICK g \in [0 .. MaxTransfers -> X] :
        g = [i \in 0 .. MaxTransfers |-> IF i = 0 THEN {Start} ELSE F[<<i, g[i - 1]>>]]
  <2> DEFINE zero == 0
             S == {Start}
  <2>1. zero \in Nat /\ S \in X /\ F \in [(zero .. MaxTransfers) \X X -> X]
    BY <1>1, <1>2
  <2> HIDE DEF zero, S
  <2>2. \E g : Follows(g, X, S, zero, MaxTransfers, F)
    BY <1>3, <2>1, Recursion
  <2> QED BY <2>2 DEF zero, S, Follows
<1>5. ASSUME NEW i \in 0 .. MaxTransfers
      PROVE  g[i] = IF i = 0 THEN {Start} ELSE UNION {Extensions(c) : c \in g[i - 1]}
  <2>1. CASE i = 0
    BY <1>4, <2>1
  <2>2. CASE i # 0
    <3>1. i - 1 \in 0 .. MaxTransfers
      BY <1>3, <2>2
    <3>2. g[i - 1] \in X
      BY <1>4, <3>1
    <3> DEFINE p == <<i, g[i - 1]>>
    <3>3. p \in (0 .. MaxTransfers) \X X /\ p[2] = g[i - 1]
      BY <3>2
    <3>4. g[i] = F[p]
      BY <1>4, <2>2
    <3> HIDE DEF p
    <3>5. F[p] = UNION {Extensions(c) : c \in p[2]}
      BY <3>3 DEF F
    <3> QED BY <2>2, <3>3, <3>4, <3>5
  <2> QED BY <2>1, <2>2
<1>6. g = [i \in 0 .. MaxTransfers |->
             IF i = 0 THEN {Start} ELSE UNION {Extensions(c) : c \in g[i - 1]}]
  <2>1. DOMAIN g = 0 .. MaxTransfers /\ g = [i \in 0 .. MaxTransfers |-> g[i]]
    BY <1>4
  <2> QED BY <1>5, <2>1
<1> QED BY <1>6 DEF chains

(* Everything that is reached is a chain.                                  *)
LEMMA ChainsGood == \A n \in 0 .. MaxTransfers : chains[n] \subseteq GoodChains
<1> DEFINE Bad == {n \in Nat : n <= MaxTransfers /\ ~(chains[n] \subseteq GoodChains)}
<1>1. ASSUME Bad # {} PROVE FALSE
  <2>1. Bad \in SUBSET Nat
    OBVIOUS
  <2> HIDE DEF Bad
  <2>2. PICK n \in Bad : \A m \in Bad : n <= m
    BY <1>1, <2>1, LeastOf
  <2> USE DEF Bad
  <2>3. n \in 0 .. MaxTransfers /\ n \in Nat /\ MaxTransfers \in Nat
    BY <2>2, EngineAssumption
  <2>4. n # 0
    <3>1. chains[0] = {Start}
      BY <2>3, ChainsAre
    <3> QED BY <2>2, <3>1, StartGood
  <2>5. n - 1 \in Nat /\ n - 1 \notin Bad
    BY <2>2, <2>3, <2>4
  <2>6. chains[n - 1] \subseteq GoodChains
    BY <2>3, <2>5
  <2>7. chains[n] = UNION {Extensions(c) : c \in chains[n - 1]}
    BY <2>3, <2>4, ChainsAre
  <2> QED BY <2>2, <2>6, <2>7, ExtensionsGood
<1> QED BY <1>1, EngineAssumption

(* An itinerary is a chain of one line or more.                            *)
LEMMA ItinerariesGood ==
    \A c \in Itineraries : c \in GoodChains /\ Len(c.lines) >= 1
<1> SUFFICES ASSUME NEW c \in Itineraries PROVE c \in GoodChains /\ Len(c.lines) >= 1
  OBVIOUS
<1>1. PICK n \in 1 .. MaxTransfers : \E d \in chains[n] : \E l \in OnwardLines(d, Destination) :
        c = Extended(d, Destination, l, 0)
  BY DEF Itineraries
<1>2. PICK d \in chains[n] : \E l \in OnwardLines(d, Destination) : c = Extended(d, Destination, l, 0)
  BY <1>1
<1>6. PICK l \in OnwardLines(d, Destination) : c = Extended(d, Destination, l, 0)
  BY <1>2
<1>3. n \in 0 .. MaxTransfers
  BY EngineAssumption
<1>4. Destination \in Stations
  BY EngineAssumption
<1>5. d \in GoodChains /\ l \in Lines
  BY <1>2, <1>6, <1>3, <1>4, ChainsGood, OnwardType
<1> QED BY <1>6, <1>4, <1>5, ExtendedGood

(* The trains that are listed, and the legs that are ridden.               *)
Train == [direction : Directions, at : Nat]
Leg == [line : Lines, board : Stations, alight : Stations, train : Train, arrival : Int, spent : Int]

(* Of some trains one is listed first.                                     *)
LEMMA FirstIs ==
    ASSUME NEW T \in SUBSET Train, T # {} PROVE First(T) \in T
<1> DEFINE Before(t, u) == \/ t.direction = "N" /\ u.direction = "S"
                           \/ t.direction = u.direction /\ t.at <= u.at
           Of(d) == {t \in T : t.direction = d}
           Times(d) == {t.at : t \in Of(d)}
<1>1. ASSUME NEW d \in Directions, Of(d) # {}
      PROVE  \E t \in Of(d) : \A u \in Of(d) : t.at <= u.at
  <2>1. Times(d) \in SUBSET Nat /\ Times(d) # {}
    BY <1>1 DEF Train
  <2> HIDE DEF Times
  <2>2. PICK n \in Times(d) : \A m \in Times(d) : n <= m
    BY <2>1, LeastOf
  <2> USE DEF Times
  <2>3. PICK t \in Of(d) : t.at = n
    BY <2>2
  <2> QED BY <2>2, <2>3
<1>2. \A t \in T : t.direction \in {"N", "S"}
  BY DEF Train, Directions
<1>3. \E t \in T : \A u \in T : Before(t, u)
  <2>1. CASE Of("N") # {}
    <3>1. PICK t \in Of("N") : \A u \in Of("N") : t.at <= u.at
      BY <1>1, <2>1 DEF Directions
    <3> QED BY <1>2, <3>1
  <2>2. CASE Of("N") = {}
    <3>1. Of("S") # {} /\ \A u \in T : u \in Of("S")
      BY <1>2, <2>2
    <3>2. PICK t \in Of("S") : \A u \in Of("S") : t.at <= u.at
      BY <1>1, <3>1 DEF Directions
    <3> QED BY <3>1, <3>2
  <2> QED BY <2>1, <2>2
<1> QED BY <1>3 DEF First

(* The trains of a line at a station are trains.                           *)
LEMMA TrainsType ==
    ASSUME arrivals \in Timetables, NEW s \in Stations, NEW l \in Lines
    PROVE  Trains(s, l) \in SUBSET Train
<1>1. \A d \in Directions : arrivals[s][l][d] \in SUBSET Nat
  BY EngineAssumption
<1>2. buffer(l) \in Nat
  BY EngineAssumption DEF buffer
<1>3. ASSUME NEW t \in Trains(s, l) PROVE t \in Train
  <2>1. PICK d \in Directions : \E time \in arrivals[s][l][d] : t = [direction |-> d, at |-> time + buffer(l)]
    BY <1>3 DEF Trains
  <2>2. PICK time \in arrivals[s][l][d] : t = [direction |-> d, at |-> time + buffer(l)]
    BY <2>1
  <2>3. time + buffer(l) \in Nat
    BY <1>1, <1>2, <2>2
  <2> QED BY <2>2, <2>3 DEF Train
<1> QED BY <1>3

(* A travel time is a number.                                              *)
LEMMA TravelTimeType ==
    ASSUME NEW l \in Lines, NEW a \in Stations, NEW b \in Stations
    PROVE  TravelTime(l, a, b) \in Int
<1>1. Stops[l] \in Seq(Stations) /\ HopTime[l] \in Nat /\ Len(Stops[l]) \in Nat
      /\ DOMAIN Stops[l] \subseteq Int
  BY EngineAssumption
<1>2. ASSUME NEW s, OnRoute(l, s) PROVE StopIndex(l, s) \in Int
  <2>1. \E i \in DOMAIN Stops[l] : Stops[l][i] = s
    BY <1>2 DEF OnRoute, ToSet
  <2> QED BY <1>1, <2>1 DEF StopIndex
<1> DEFINE d == StopIndex(l, b) - StopIndex(l, a)
           e == IF d < 0 THEN -d ELSE d
<1>3. CASE OnRoute(l, a) /\ OnRoute(l, b)
  <2>1. d \in Int
    BY <1>2, <1>3
  <2>2. e \in Int
    BY <2>1
  <2>3. TravelTime(l, a, b) = HopTime[l] * e
    BY <1>3 DEF TravelTime
  <2> HIDE DEF e
  <2> QED BY <1>1, <2>2, <2>3
<1>4. CASE ~(OnRoute(l, a) /\ OnRoute(l, b))
  BY <1>1, <1>4 DEF TravelTime
<1> QED BY <1>3, <1>4

(* What boarding yields: a leg by a train that is not earlier than it      *)
(* could be boarded, but for the slack of a connection.                    *)
IsBoarded(b, c, i, from, spent) ==
    LET ride == TravelTime(c.lines[i], c.stations[i], c.stations[i + 1])
        wait == IF i = 1 THEN 0 ELSE Waited(from, b.train) IN
    /\ b \in Leg /\ ride \in Int
    /\ b.train.at >= from - Slack
    /\ b.arrival = b.train.at + ride
    /\ b.spent = spent + ride + c.walks[i] + wait

(* Boarding, unless it is missed, yields such a leg.                       *)
LEMMA BoardedIs ==
    ASSUME arrivals \in Timetables, NEW c \in GoodChains, NEW i \in 1 .. Len(c.lines),
           NEW from \in Int, NEW spent \in Int, Boarded(c, i, from, spent) # Missed
    PROVE  IsBoarded(Boarded(c, i, from, spent), c, i, from, spent)
<1> DEFINE viable == {t \in Trains(c.stations[i], c.lines[i]) : t.at >= from - Slack}
           train == First(viable)
           wait == IF i = 1 THEN 0 ELSE Waited(from, train)
           ride == TravelTime(c.lines[i], c.stations[i], c.stations[i + 1])
           b == [line |-> c.lines[i], board |-> c.stations[i], alight |-> c.stations[i + 1],
                 train |-> train, arrival |-> train.at + ride,
                 spent |-> spent + ride + c.walks[i] + wait]
<1>1. /\ c.lines[i] \in Lines /\ c.stations[i] \in Stations /\ c.stations[i + 1] \in Stations
      /\ c.walks[i] \in Nat
  <2>1. /\ c.stations \in Seq(Stations) /\ c.lines \in Seq(Lines) /\ c.walks \in Seq(Nat)
        /\ Len(c.stations) = Len(c.lines) + 1 /\ Len(c.walks) = Len(c.lines) + 1
        /\ Len(c.lines) \in Nat
    BY DEF GoodChains
  <2>2. i \in 1 .. Len(c.stations) /\ i + 1 \in 1 .. Len(c.stations) /\ i \in 1 .. Len(c.walks)
    BY <2>1
  <2> QED BY <2>1, <2>2, ElementOfSeq
<1>2. Boarded(c, i, from, spent) = b /\ viable # {}
  <2>1. Boarded(c, i, from, spent) = IF viable = {} \/ wait > MaxWait THEN Missed ELSE b
    BY DEF Boarded
  <2> HIDE DEF viable, wait, b
  <2> QED BY <2>1
<1>3. viable \in SUBSET Train
  BY <1>1, TrainsType
<1> HIDE DEF viable
<1>4. train \in viable /\ train \in Train
  BY <1>2, <1>3, FirstIs
<1>5. train.at >= from - Slack /\ train.at \in Nat
  BY <1>4 DEF viable, Train
<1> HIDE DEF train
<1>6. ride \in Int
  BY <1>1, TravelTimeType
<1> HIDE DEF ride
<1>7. wait \in Int
  BY <1>5 DEF Waited
<1> HIDE DEF wait
<1>8. train.at + ride \in Int /\ spent + ride + c.walks[i] + wait \in Int
  BY <1>1, <1>5, <1>6, <1>7
<1>9. b \in Leg
  BY <1>1, <1>4, <1>8 DEF Leg
<1>10. b.train = train /\ b.arrival = train.at + ride /\ b.spent = spent + ride + c.walks[i] + wait
  OBVIOUS
<1> HIDE DEF b
<1>11. IsBoarded(b, c, i, from, spent)
  BY <1>5, <1>6, <1>9, <1>10 DEF IsBoarded, wait, ride
<1> QED BY <1>2, <1>11

(* The legs of a chain are ridden one after the other.                     *)
MaybeLeg == {Missed} \cup Leg

(* The leg after the last, as Legs has it.                                 *)
NextLeg(c, i, last) ==
    IF last = Missed THEN Missed
    ELSE Boarded(c, i, EarliestBoarding(last.arrival, c.walks[i]), last.spent)

(* A chain has a number of lines.                                          *)
LEMMA LinesLength ==
    ASSUME NEW c \in GoodChains PROVE Len(c.lines) \in Nat
<1>1. c.lines \in Seq(Lines)
  BY DEF GoodChains
<1> QED BY <1>1

(* The next leg is missed or a leg.                                        *)
LEMMA NextLegType ==
    ASSUME arrivals \in Timetables, NEW c \in GoodChains, NEW i \in 1 .. Len(c.lines),
           NEW last \in MaybeLeg
    PROVE  NextLeg(c, i, last) \in MaybeLeg
<1>1. CASE last = Missed
  BY <1>1 DEF NextLeg, MaybeLeg
<1>2. CASE last # Missed
  <2>1. last \in Leg /\ last.arrival \in Int /\ last.spent \in Int
    BY <1>2 DEF MaybeLeg, Leg
  <2>2. c.walks[i] \in Nat
    <3>1. c.walks \in Seq(Nat) /\ i \in 1 .. Len(c.walks)
      BY DEF GoodChains
    <3> QED BY <3>1, ElementOfSeq
  <2> DEFINE from == EarliestBoarding(last.arrival, c.walks[i])
  <2>3. from \in Int
    BY <2>1, <2>2 DEF EarliestBoarding
  <2>4. NextLeg(c, i, last) = Boarded(c, i, from, last.spent)
    BY <1>2 DEF NextLeg
  <2> HIDE DEF from
  <2>5. CASE Boarded(c, i, from, last.spent) = Missed
    BY <2>4, <2>5 DEF MaybeLeg
  <2>6. CASE Boarded(c, i, from, last.spent) # Missed
    <3>1. Boarded(c, i, from, last.spent) \in Leg
      BY <2>1, <2>3, <2>6, BoardedIs DEF IsBoarded
    <3> QED BY <2>4, <3>1 DEF MaybeLeg
  <2> QED BY <2>5, <2>6
<1> QED BY <1>1, <1>2

(* The first leg is missed or a leg.                                       *)
LEMMA FirstLegType ==
    ASSUME arrivals \in Timetables, NEW c \in GoodChains, Len(c.lines) >= 1
    PROVE  Boarded(c, 1, -Never, 0) \in MaybeLeg
<1> DEFINE from == -Never
<1>1. from \in Int /\ 0 \in Int
  BY EngineAssumption DEF Never
<1>2. 1 \in 1 .. Len(c.lines)
  BY DEF GoodChains
<1> HIDE DEF from
<1>3. CASE Boarded(c, 1, from, 0) = Missed
  BY <1>3 DEF MaybeLeg, from
<1>4. CASE Boarded(c, 1, from, 0) # Missed
  <2>1. Boarded(c, 1, from, 0) \in Leg
    BY <1>1, <1>2, <1>4, BoardedIs DEF IsBoarded
  <2> QED BY <2>1 DEF MaybeLeg, from
<1> QED BY <1>3, <1>4

(* Legs satisfies the equation that defines it.                            *)
LEMMA LegsAre ==
    ASSUME arrivals \in Timetables, NEW c \in GoodChains, Len(c.lines) >= 1
    PROVE  /\ Legs(c) \in [1 .. Len(c.lines) -> MaybeLeg]
           /\ Legs(c)[1] = Boarded(c, 1, -Never, 0)
           /\ \A i \in 2 .. Len(c.lines) : Legs(c)[i] = NextLeg(c, i, Legs(c)[i - 1])
<1> DEFINE n == Len(c.lines)
           one == 1
           x0 == Boarded(c, 1, -Never, 0)
           F == [p \in (one .. n) \X MaybeLeg |-> NextLeg(c, p[1], p[2])]
           equation(g) == g = [i \in 1 .. n |-> IF i = 1 THEN x0 ELSE NextLeg(c, i, g[i - 1])]
<1>1. n \in Nat /\ one \in Nat /\ x0 \in MaybeLeg
  BY FirstLegType DEF GoodChains
<1>2. F \in [(one .. n) \X MaybeLeg -> MaybeLeg]
  BY NextLegType
<1> HIDE DEF one, x0, F
<1>3. PICK g : Follows(g, MaybeLeg, x0, one, n, F)
  BY <1>1, <1>2, Recursion
<1>4. g \in [1 .. n -> MaybeLeg]
  BY <1>3 DEF Follows, one
<1>5. ASSUME NEW i \in 1 .. n PROVE g[i] = IF i = 1 THEN x0 ELSE NextLeg(c, i, g[i - 1])
  <2>1. CASE i = 1
    BY <1>3, <2>1 DEF Follows, one
  <2>2. CASE i # 1
    <3>1. i - 1 \in 1 .. n
      BY <1>1, <2>2
    <3>2. g[i - 1] \in MaybeLeg
      BY <1>4, <3>1
    <3> DEFINE p == <<i, g[i - 1]>>
    <3>3. p \in (one .. n) \X MaybeLeg /\ p[1] = i /\ p[2] = g[i - 1]
      BY <3>2 DEF one
    <3>4. g[i] = F[p]
      BY <1>3, <2>2 DEF Follows, one
    <3> HIDE DEF p
    <3>5. F[p] = NextLeg(c, p[1], p[2])
      BY <3>3 DEF F
    <3> QED BY <2>2, <3>3, <3>4, <3>5
  <2> QED BY <2>1, <2>2
<1>6. equation(g)
  <2>1. g = [i \in 1 .. n |-> g[i]]
    BY <1>4
  <2> QED BY <1>5, <2>1
<1>7. Legs(c) = CHOOSE h : equation(h)
  BY DEF Legs, NextLeg, x0
<1> HIDE DEF equation
<1>8. equation(Legs(c))
  BY <1>6, <1>7
<1> USE DEF equation
<1>9. Legs(c) = [i \in 1 .. n |-> IF i = 1 THEN x0 ELSE NextLeg(c, i, Legs(c)[i - 1])]
  BY <1>8
<1> DEFINE L == Legs(c)
           Bad == {i \in Nat : i \in 1 .. n /\ L[i] \notin MaybeLeg}
<1> HIDE DEF n, equation
<1>10. DOMAIN L = 1 .. n /\ \A i \in 1 .. n : L[i] = IF i = 1 THEN x0 ELSE NextLeg(c, i, L[i - 1])
  BY <1>9
<1>11. L = [i \in 1 .. n |-> L[i]]
  BY <1>9
<1> HIDE DEF L
<1>12. ASSUME Bad # {} PROVE FALSE
  <2>1. Bad \in SUBSET Nat
    OBVIOUS
  <2> HIDE DEF Bad
  <2>2. PICK k \in Bad : \A m \in Bad : k <= m
    BY <1>12, <2>1, LeastOf
  <2> USE DEF Bad
  <2>3. k \in 1 .. n /\ L[k] \notin MaybeLeg
    BY <2>2
  <2>4. k # 1
    BY <1>1, <1>10, <2>3
  <2>5. k - 1 \in Nat /\ k - 1 \in 1 .. n /\ k - 1 \notin Bad
    BY <1>1, <2>2, <2>3, <2>4
  <2>6. L[k - 1] \in MaybeLeg
    BY <2>5
  <2>7. NextLeg(c, k, L[k - 1]) \in MaybeLeg
    BY <2>3, <2>6, NextLegType DEF n
  <2> QED BY <1>10, <2>3, <2>4, <2>7
<1>13. L \in [1 .. n -> MaybeLeg]
  BY <1>1, <1>11, <1>12
<1>14. L[1] = x0 /\ \A i \in 2 .. n : L[i] = NextLeg(c, i, L[i - 1])
  <2>1. 1 \in 1 .. n /\ \A i \in 2 .. n : i \in 1 .. n /\ i # 1
    BY <1>1 DEF n
  <2> QED BY <1>10, <2>1
<1> QED BY <1>13, <1>14 DEF L, n, x0

(* Up to every leg the time it arrives is the time that was spent since    *)
(* the first train, but for one slack for every change.                    *)
LEMMA LegsAddUp ==
    ASSUME arrivals \in Timetables, NEW c \in GoodChains, Len(c.lines) >= 1,
           Missed \notin ToSet(Legs(c))
    PROVE  \A i \in 1 .. Len(c.lines) :
              /\ Legs(c)[i] \in Leg
              /\ Legs(c)[i].arrival - (Legs(c)[1].train.at + Legs(c)[i].spent) \in -(Slack * (i - 1)) .. 0
<1> DEFINE n == Len(c.lines)
           L == Legs(c)
           behind(i) == L[i].arrival - (L[1].train.at + L[i].spent)
           Bad == {i \in Nat : i \in 1 .. n /\ behind(i) \notin -(Slack * (i - 1)) .. 0}
<1>1. L \in [1 .. n -> MaybeLeg] /\ n \in Nat /\ Slack \in Nat /\ -Never \in Int
  <2>1. n \in Nat /\ Slack \in Nat /\ -Never \in Int
    BY LinesLength, EngineAssumption DEF Never
  <2>2. L \in [1 .. n -> MaybeLeg]
    BY LegsAre
  <2> QED BY <2>1, <2>2
<1>2. ASSUME NEW i \in 1 .. n
      PROVE  /\ L[i] # Missed /\ L[i] \in Leg /\ L[i].arrival \in Int /\ L[i].spent \in Int
             /\ L[i].train.at \in Int
  <2>1. L[i] # Missed
    BY <1>1 DEF ToSet
  <2>2. L[i] \in Leg
    BY <1>1, <2>1 DEF MaybeLeg
  <2> HIDE DEF L
  <2> QED BY <2>1, <2>2 DEF Leg, Train
<1>3. behind(1) = 0
  <2>1. 1 \in 1 .. Len(c.lines) /\ L[1] = Boarded(c, 1, -Never, 0) /\ L[1] # Missed
    BY <1>2, LegsAre
  <2> DEFINE from == -Never
             ride == TravelTime(c.lines[1], c.stations[1], c.stations[2])
  <2>2. L[1] = Boarded(c, 1, from, 0) /\ from \in Int /\ 0 \in Int
    BY <1>1, <2>1
  <2> HIDE DEF from, L
  <2>3. ride \in Int /\ L[1].arrival = L[1].train.at + ride /\ L[1].spent = 0 + ride + c.walks[1] + 0
    BY <2>1, <2>2, BoardedIs DEF IsBoarded
  <2>4. c.walks[1] = 0
    BY DEF GoodChains
  <2> HIDE DEF ride
  <2>5. L[1].train.at \in Int
    BY <1>2, <2>1
  <2> QED BY <2>3, <2>4, <2>5
<1>4. ASSUME NEW i \in 2 .. n, behind(i - 1) \in -(Slack * (i - 2)) .. 0
      PROVE  behind(i) \in -(Slack * (i - 1)) .. 0
  <2>1. i \in 1 .. n /\ i - 1 \in 1 .. n /\ i # 1 /\ i \in Int
    BY <1>1
  <2> DEFINE from == EarliestBoarding(L[i - 1].arrival, c.walks[i])
             ride == TravelTime(c.lines[i], c.stations[i], c.stations[i + 1])
             wait == Waited(from, L[i].train)
             before == L[i - 1].spent
             reached == L[i - 1].arrival
             walk == c.walks[i]
             at == L[i].train.at
  <2>2. walk \in Nat
    <3>1. c.walks \in Seq(Nat) /\ i \in 1 .. Len(c.walks)
      BY <2>1 DEF GoodChains
    <3> QED BY <3>1, ElementOfSeq
  <2>3. L[i] = Boarded(c, i, from, before)
    BY <1>2, <2>1, LegsAre DEF NextLeg
  <2> HIDE DEF L
  <2>4. /\ from \in Int /\ from = reached + walk
        /\ before \in Int /\ reached \in Int
    BY <1>2, <2>1, <2>2 DEF EarliestBoarding
  <2> HIDE DEF from, before, behind
  <2>5. /\ ride \in Int /\ at >= from - Slack /\ L[i].arrival = at + ride
        /\ L[i].spent = before + ride + walk + wait
    <3>1. L[i] # Missed /\ i \in 1 .. Len(c.lines)
      BY <1>2, <2>1
    <3> DEFINE b == Boarded(c, i, from, before)
    <3>2. b # Missed
      BY <2>3, <3>1
    <3> HIDE DEF n
    <3>6. IsBoarded(b, c, i, from, before)
      BY <2>4, <3>1, <3>2, BoardedIs
    <3> HIDE DEF b
    <3>3. /\ ride \in Int /\ b.train.at >= from - Slack /\ b.arrival = b.train.at + ride
          /\ b.spent = before + ride + walk + (IF i = 1 THEN 0 ELSE Waited(from, b.train))
      BY <3>6 DEF IsBoarded
    <3>4. b = L[i]
      BY <2>3 DEF b
    <3> QED BY <2>1, <3>3, <3>4
  <2> HIDE DEF ride
  <2>6. at \in Int /\ L[1].train.at \in Int
    <3>1. 1 \in 1 .. n
      BY <1>1
    <3> QED BY <1>2, <2>1, <3>1
  <2>7. wait = IF at > from THEN at - from ELSE 0
    BY DEF Waited
  <2> HIDE DEF wait, at, reached, walk
  <2>8. wait \in Int /\ at - wait - from <= 0 /\ at - wait - from >= -Slack
    <3>1. at \in Int /\ from \in Int /\ Slack \in Nat /\ at >= from - Slack
      BY <1>1, <2>4, <2>5, <2>6
    <3>2. CASE at > from
      BY <2>7, <3>1, <3>2
    <3>3. CASE ~(at > from)
      BY <2>7, <3>1, <3>3
    <3> QED BY <3>2, <3>3
  <2>9. behind(i) = behind(i - 1) + (at - wait - from)
    <3>1. behind(i) = (at + ride) - (L[1].train.at + (before + ride + walk + wait))
      BY <2>5 DEF behind
    <3>2. behind(i - 1) = reached - (L[1].train.at + before)
      BY DEF behind, reached, before
    <3> QED BY <2>2, <2>4, <2>5, <2>6, <2>8, <3>1, <3>2
  <2>10. behind(i - 1) \in Int
    BY <2>4, <2>6 DEF behind, reached, before
  <2> DEFINE y == at - wait - from
             m == Slack * (i - 2)
  <2>11. m \in Int /\ Slack * (i - 1) = m + Slack
    BY <1>1, <2>1
  <2>12. /\ y \in Int /\ y <= 0 /\ y >= -Slack /\ behind(i - 1) \in -m .. 0
         /\ behind(i) = behind(i - 1) + y
    BY <1>4, <2>4, <2>6, <2>8, <2>9
  <2> HIDE DEF y, m, behind
  <2>13. behind(i) \in -(m + Slack) .. 0
    BY <1>1, <2>10, <2>11, <2>12
  <2> QED BY <2>11, <2>13
<1>5. ASSUME Bad # {} PROVE FALSE
  <2>1. Bad \in SUBSET Nat
    OBVIOUS
  <2> HIDE DEF Bad
  <2>2. PICK k \in Bad : \A m \in Bad : k <= m
    BY <1>5, <2>1, LeastOf
  <2> USE DEF Bad
  <2> HIDE DEF behind
  <2>3. k \in 1 .. n /\ behind(k) \notin -(Slack * (k - 1)) .. 0
    BY <2>2
  <2>4. k # 1
    <3>1. Slack * (1 - 1) = 0
      BY <1>1
    <3>2. 0 \in -(Slack * (1 - 1)) .. 0
      BY <3>1
    <3> QED BY <1>3, <2>3, <3>2
  <2>5. k - 1 \in Nat /\ k - 1 \in 1 .. n /\ k - 1 \notin Bad /\ k \in 2 .. n
    BY <1>1, <2>2, <2>3, <2>4
  <2>6. behind(k - 1) \in -(Slack * ((k - 1) - 1)) .. 0
    BY <2>5
  <2>7. (k - 1) - 1 = k - 2
    BY <2>5
  <2> QED BY <1>4, <2>3, <2>5, <2>6, <2>7
<1> HIDE DEF L, behind
<1>6. \A i \in 1 .. n : behind(i) \in -(Slack * (i - 1)) .. 0
  BY <1>1, <1>5
<1> QED BY <1>2, <1>6 DEF L, behind

(* The timetable does not change, and the times of what was answered       *)
(* agree.                                                                  *)
EngineInv == arrivals \in Timetables /\ TransferTimesAddUp

(* A transfer route is made from the legs of an itinerary.                 *)
LEMMA RouteAddsUp ==
    ASSUME arrivals \in Timetables, NEW best, NEW r \in TransferRoutes(best)
    PROVE  r.arrival \in r.total - Slack * (Len(r.legs) - 1) .. r.total
<1>1. PICK c \in Itineraries : r = TransferRoute(Legs(c)) /\ Missed \notin ToSet(Legs(c))
  BY DEF TransferRoutes
<1>2. c \in GoodChains /\ Len(c.lines) >= 1
  BY ItinerariesGood
<1> DEFINE n == Len(c.lines)
           L == Legs(c)
<1>3. n \in Nat /\ n >= 1 /\ L \in [1 .. n -> MaybeLeg] /\ Slack \in Nat
  <2>1. n \in Nat /\ n >= 1 /\ Slack \in Nat
    BY <1>2, LinesLength, EngineAssumption
  <2>2. L \in [1 .. n -> MaybeLeg]
    BY <1>2, LegsAre
  <2> QED BY <2>1, <2>2
<1>4. /\ L[n] \in Leg /\ L[1] \in Leg
      /\ L[n].arrival - (L[1].train.at + L[n].spent) \in -(Slack * (n - 1)) .. 0
  <2>1. n \in 1 .. n /\ 1 \in 1 .. n
    BY <1>3
  <2> QED BY <1>1, <1>2, <2>1, LegsAddUp
<1> HIDE DEF L, n
<1>5. Len(L) = n
  <2>1. L \in Seq(MaybeLeg)
    BY <1>3
  <2>2. Len(L) \in Nat /\ 1 .. Len(L) = 1 .. n
    BY <1>3, <2>1
  <2> QED BY <1>3, <2>2
<1>6. r = [legs |-> L, arrival |-> L[n].arrival, total |-> L[1].train.at + L[n].spent]
  BY <1>1, <1>5 DEF TransferRoute, L
<1>7. L[n].arrival \in Int /\ L[n].spent \in Int /\ L[1].train.at \in Int
  BY <1>4 DEF Leg, Train
<1> DEFINE m == Slack * (n - 1)
           a == L[n].arrival
           s == L[1].train.at + L[n].spent
<1>8. m \in Int /\ a \in Int /\ s \in Int /\ a - s \in -m .. 0
  BY <1>3, <1>4, <1>7
<1>9. r.arrival = a /\ r.total = s /\ Slack * (Len(r.legs) - 1) = m
  BY <1>5, <1>6
<1> HIDE DEF m, a, s
<1>10. a \in s - m .. s
  BY <1>8
<1> QED BY <1>9, <1>10

(* The arrival of a transfer route is its total less at most one slack for *)
(* every change, for any network, timetable, preferences and limits.       *)
THEOREM TimesAddUp == EngineSpec => []TransferTimesAddUp
<1>1. EngineInit => EngineInv
  BY DEF EngineInit, EngineInv, TransferTimesAddUp, Analyzed
<1>2. EngineInv /\ [EngineNext]_engineVars => EngineInv'
  <2> SUFFICES ASSUME EngineInv, [EngineNext]_engineVars PROVE EngineInv'
    OBVIOUS
  <2>1. CASE UNCHANGED engineVars
    BY <2>1 DEF EngineInv, TransferTimesAddUp, Analyzed, engineVars
  <2>2. CASE analyzeCommute
    <3>1. arrivals \in Timetables /\ arrivals' = arrivals
      BY <2>2 DEF EngineInv, analyzeCommute
    <3>2. \E best : analysis'.transfers = TransferRoutes(best)
      BY <2>2 DEF analyzeCommute
    <3> QED BY <3>1, <3>2, RouteAddsUp DEF EngineInv, TransferTimesAddUp
  <2> QED BY <2>1, <2>2 DEF EngineNext
<1> QED BY <1>1, <1>2, PTL DEF EngineSpec, EngineInv

-----------------------------------------------------------------------------
(***************************************************************************)
(* The sum.                                                                *)
(***************************************************************************)

(* Whichever component is explored, the others stay as they are: the sum   *)
(* implements the specification of each of these.                          *)
THEOREM ServerComponents ==
    Spec => DetectorSpec /\ BriefingSpec /\ TransformerSpec /\ LimiterSpec /\ ClientSpec
<1>1. Init => DetectorInit /\ BriefingInit /\ TransformerInit /\ LimiterInit /\ ClientInit
  BY DEF Init
<1>2. [Next]_serverVars =>
        /\ [DetectorNext]_detectorVars /\ [BriefingNext]_briefingVars
        /\ [TransformerNext]_transformerVars /\ [LimiterNext]_limiterVars
        /\ [ClientNext]_clientVars
  BY DEF Next, serverVars
<1> QED BY <1>1, <1>2, PTL
           DEF Spec, DetectorSpec, BriefingSpec, TransformerSpec, LimiterSpec, ClientSpec

(* Every variable of these components keeps its type.                      *)
THEOREM ServerTypeCorrect == Spec => []TypeOK
<1>1. DetectorTypeOK /\ BriefingTypeOK /\ TransformerTypeOK /\ LimiterTypeOK /\ ClientTypeOK => TypeOK
  BY DEF TypeOK
<1> QED BY <1>1, ServerComponents, DetectorTypeCorrect, BriefingTypeCorrect,
           TransformerTypeCorrect, LimiterTypeCorrect, ClientTypeCorrect, PTL
=============================================================================
