---------------------------- MODULE RateLimiter ----------------------------
(***************************************************************************)
(* The token buckets that limit the requests of a client                   *)
(* (packages/server/src/middleware/rate-limiter.ts).  Tokens are added one *)
(* per RefillInterval, whenever a request asks for them; a bucket that was *)
(* not asked for long is dropped.                                          *)
(***************************************************************************)
EXTENDS Integers

CONSTANTS
    Clients,         \* those observed; others are there too
    MaxTokens,
    RefillInterval,
    PruneInterval,
    LastMillisecond  \* length of a run (bound)

ASSUME LimiterAssumption ==
    /\ MaxTokens \in Nat \ {0} /\ RefillInterval \in Nat \ {0}
    /\ PruneInterval \in Nat /\ LastMillisecond \in Nat

VARIABLES
    clock,
    buckets, lastPrune,
    admitted, \* history: how many requests of a client were admitted since when
    refused   \* history: the clients refused at the present moment

limiterVars == <<clock, buckets, lastPrune, admitted, refused>>

NoBucket == [tokens |-> -1, lastRefill |-> -1]
Bucket0(at) == [tokens |-> MaxTokens, lastRefill |-> at]

LimiterTypeOK ==
    /\ clock \in 0 .. LastMillisecond /\ lastPrune \in 0 .. clock
    /\ buckets \in [Clients -> [tokens : 0 .. MaxTokens, lastRefill : 0 .. clock] \cup {NoBucket}]
    /\ admitted \in [Clients -> [0 .. LastMillisecond -> Nat]] /\ refused \subseteq Clients

LimiterInit ==
    /\ clock = 0 /\ lastPrune = 0
    /\ buckets = [c \in Clients |-> NoBucket]
    /\ admitted = [c \in Clients |-> [t \in 0 .. LastMillisecond |-> 0]] /\ refused = {}

-----------------------------------------------------------------------------
(* Mutant of Idle: a bucket that could be refilled is dropped.             *)
MutIdle(b) == clock - b.lastRefill > RefillInterval

(* A bucket this old has been full for as long as it takes to fill it.     *)
Idle(b) == clock - b.lastRefill > MaxTokens * RefillInterval * 2

(* Any request prunes the buckets of all clients, once in an interval.     *)
Pruning == clock - lastPrune > PruneInterval

Pruned == [c \in Clients |-> IF Pruning /\ Idle(buckets[c]) THEN NoBucket ELSE buckets[c]]

AtMost(tokens) == IF tokens < MaxTokens THEN tokens ELSE MaxTokens

(* What is left of an interval counts for the next token.                  *)
refillBucket(b) ==
    LET elapsed == clock - b.lastRefill
        tokensToAdd == elapsed \div RefillInterval IN
    IF tokensToAdd = 0 THEN b
    ELSE [tokens |-> AtMost(b.tokens + tokensToAdd),
          lastRefill |-> clock - (elapsed % RefillInterval)]

rateLimiter(c) ==
    LET found == IF Pruned[c] = NoBucket THEN Bucket0(clock) ELSE Pruned[c]
        bucket == refillBucket(found) IN
    /\ lastPrune' = IF Pruning THEN clock ELSE lastPrune
    /\ IF bucket.tokens <= 0
       THEN /\ buckets' = [Pruned EXCEPT ![c] = bucket]
            /\ refused' = refused \cup {c}
            /\ UNCHANGED admitted
       ELSE /\ buckets' = [Pruned EXCEPT ![c] = [bucket EXCEPT !.tokens = @ - 1]]
            /\ admitted' = [admitted EXCEPT ![c] = [t \in 0 .. LastMillisecond |->
                                                     IF t <= clock THEN @[t] + 1 ELSE 0]]
            /\ UNCHANGED refused
    /\ UNCHANGED clock

(* A request of another client matters to these by its pruning.            *)
OtherClient ==
    /\ Pruning /\ lastPrune' = clock /\ buckets' = Pruned
    /\ UNCHANGED <<clock, admitted, refused>>

MillisecondPasses ==
    /\ clock < LastMillisecond /\ clock' = clock + 1
    /\ refused' = {}
    /\ UNCHANGED <<buckets, lastPrune, admitted>>

LimiterNext == MillisecondPasses \/ OtherClient \/ \E c \in Clients : rateLimiter(c)
LimiterSpec == LimiterInit /\ [][LimiterNext]_limiterVars

-----------------------------------------------------------------------------
(* Properties *)

(* In no span of time, wherever it begins, does a client get more requests *)
(* through than the full bucket and the refills of the span, although its  *)
(* bucket may have been dropped and made anew; and a client is refused     *)
(* only if it had a full bucket's worth during the time a bucket takes to  *)
(* fill, so that no fraction of an interval is lost.  The bound is what    *)
(* the code enforces; it is about twice the limit the code is said to have *)
(* (RateAsDocumented).                                                     *)
RateExact ==
    \A c \in Clients :
      /\ \A from \in 0 .. clock :
           admitted[c][from] <= MaxTokens + (clock - from) \div RefillInterval + 1
      /\ c \in refused =>
           LET span == MaxTokens * RefillInterval IN
           admitted[c][IF clock < span THEN 0 ELSE clock - span + 1] >= MaxTokens

(* What rate-limiter.ts:4 and docs/security.md:26 say: of a client, not    *)
(* more requests get through in a minute than a bucket holds, a minute     *)
(* being the time that it takes to fill.  A bucket that begins full and    *)
(* fills again while it is used lets nearly twice as many through.         *)
RateAsDocumented ==
    \A c \in Clients : \A from \in 0 .. clock :
       clock - from < MaxTokens * RefillInterval => admitted[c][from] <= MaxTokens
=============================================================================
