------------------------------ MODULE Buckets ------------------------------
(***************************************************************************)
(* radioserver/buckets.go: the token bucket in front of a listener's        *)
(* searches.  Time is in seconds and tokens in seconds' worth of refill, so *)
(* that a token is RefillPer and every amount is whole.  allow runs under   *)
(* the mutex, the clock included: concurrent searches are its calls one     *)
(* after the other, at the same second or later.                            *)
(***************************************************************************)
EXTENDS Naturals, Sequences

CONSTANTS Searchers,       \* signed-in users
          BucketCapacity,  \* tokens of a full bucket
          RefillPer,       \* seconds a token takes
          MaxSeconds,      \* bound on time
          MaxSearches      \* bound on searches granted to one user

ASSUME BucketsAssumption ==
    /\ BucketCapacity \in Nat \ {0} /\ RefillPer \in Nat \ {0}
    /\ MaxSeconds \in Nat /\ MaxSearches \in Nat

\* A user the map does not hold yet.
NoBucket == [known |-> FALSE, tokens |-> 0, last |-> 0]

VARIABLES second, buckets,
          granted,  \* history: when searches of a user were granted
          answer    \* history: the last answer of allow

bucketVars == <<second, buckets, granted, answer>>

NoAnswer == [asked |-> FALSE, user |-> CHOOSE u \in Searchers : TRUE, ok |-> FALSE]

BucketsInit ==
    /\ second = 0
    /\ buckets = [u \in Searchers |-> NoBucket]
    /\ granted = [u \in Searchers |-> <<>>]
    /\ answer = NoAnswer

AtMostFull(tokens) ==
    IF tokens > BucketCapacity * RefillPer THEN BucketCapacity * RefillPer ELSE tokens

\* The bucket when allow has refilled it.
Refilled(u) ==
    IF buckets[u].known THEN AtMostFull(buckets[u].tokens + (second - buckets[u].last))
    ELSE BucketCapacity * RefillPer

AllowBug(u) ==
    LET tokens == Refilled(u)
        ok == tokens >= RefillPer
    IN  /\ ok => Len(granted[u]) < MaxSearches
        /\ buckets' = [buckets EXCEPT ![u] =
              [known |-> TRUE, tokens |-> IF ok THEN tokens - RefillPer ELSE tokens,
               last |-> IF ok THEN second ELSE @.last]]
        /\ granted' = IF ok THEN [granted EXCEPT ![u] = Append(@, second)] ELSE granted
        /\ answer' = [asked |-> TRUE, user |-> u, ok |-> ok]
        /\ UNCHANGED second

\* allow: a refused call moves `last` too, and keeps what was refilled.
Allow(u) ==
    LET tokens == Refilled(u)
        ok == tokens >= RefillPer
    IN  /\ ok => Len(granted[u]) < MaxSearches
        /\ buckets' = [buckets EXCEPT ![u] =
              [known |-> TRUE, tokens |-> IF ok THEN tokens - RefillPer ELSE tokens,
               last |-> second]]
        /\ granted' = IF ok THEN [granted EXCEPT ![u] = Append(@, second)] ELSE granted
        /\ answer' = [asked |-> TRUE, user |-> u, ok |-> ok]
        /\ UNCHANGED second

SecondPasses ==
    /\ second < MaxSeconds /\ second' = second + 1
    /\ answer' = NoAnswer
    /\ UNCHANGED <<buckets, granted>>

\* The map is lost with its process.
BucketsRestart ==
    /\ buckets' = [u \in Searchers |-> NoBucket]
    /\ granted' = [u \in Searchers |-> <<>>]
    /\ answer' = NoAnswer
    /\ UNCHANGED second

BucketsNext == (\E u \in Searchers : Allow(u)) \/ SecondPasses \/ BucketsRestart

BucketsSpec == BucketsInit /\ [][BucketsNext]_bucketVars

-----------------------------------------------------------------------------
(* Properties.                                                              *)

\* Types.
BucketsTypeOK ==
    /\ second \in 0..MaxSeconds
    /\ buckets \in [Searchers -> [known : BOOLEAN, tokens : 0..(BucketCapacity * RefillPer),
                                  last : 0..MaxSeconds]]
    /\ granted \in [Searchers -> Seq(0..MaxSeconds)]
    /\ answer \in [asked : BOOLEAN, user : Searchers, ok : BOOLEAN]

\* In any window of s seconds a user is granted at most the capacity and a token
\* per RefillPer, and a search is refused only where granting it would pass that:
\* an impatient user, whose calls are refused in between, gets neither more
\* searches nor fewer than a patient one.
WithinRate(times) ==
    \A i, j \in DOMAIN times :
        i <= j => j - i < BucketCapacity + (times[j] - times[i]) \div RefillPer
BucketRate ==
    /\ \A u \in Searchers : WithinRate(granted[u])
    /\ answer.asked /\ ~answer.ok => ~WithinRate(Append(granted[answer.user], second))
=============================================================================
