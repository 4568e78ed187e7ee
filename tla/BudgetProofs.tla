---------------------------- MODULE BudgetProofs ----------------------------
(***************************************************************************)
(* The two limits on what the station spends, in one module each, for every *)
(* setting: the daily budget (BudgetBound) for every budget, cost of a call, *)
(* number of days, lost ledger lines and bench calls; the rate of searches   *)
(* (BucketRate) for every capacity, refill and pattern of calls.            *)
(*                                                                         *)
(* BudgetBound is not inductive: a spender past its gate bills up to three   *)
(* or, the programmer, six times more without asking.  Room counts what each *)
(* may still bill to each day on top of what it was billed; a decision takes *)
(* the room of all its calls when the ledger shows the budget not spent, and *)
(* every call takes its own back, whether it is answered, answered with an    *)
(* error or not at all.                                                      *)
(***************************************************************************)
EXTENDS Budget, Buckets, TLAPS, SequenceTheorems

\* How often a spender may still be billed: for each call to come as often as it is
\* made, one less when the call at hand is a retry.
Chances(p, s) ==
    IF s.call = 0 THEN 0 ELSE Tries(p) * (4 - s.call) - (IF s.retried THEN 1 ELSE 0)

Owing(n) == n * CallCost

\* What it may still be billed, and of that what may be booked on day d: all of it
\* today, and on a day before only the call that started then.
Outstanding(p, s, d, today) ==
    IF d = today THEN Owing(Chances(p, s))
    ELSE IF s.since = d THEN CallCost
    ELSE 0

Due(p, d) == Outstanding(p, spenders[p], d, day)

\* A call in flight is one of a decision's, and started today or before; only the
\* programmer retries one.
Sound(p, s, today) ==
    /\ s.since # 0 => s.call # 0
    /\ s.since <= today
    /\ s.retried => s.call # 0 /\ p = "programmer"

Flights == \A p \in Spenders : Sound(p, spenders[p], day)

\* The ledger knows what the two were billed, but for what it lost.
Booked == \A d \in Day : billed[d] <= ledger[d] + lost[d]

\* Nothing is billed ahead of its day.
NotAhead == \A d \in Day : d > day => billed[d] = 0 /\ lost[d] = 0

Within(d) ==
    billed[d] + Due("director", d) + Due("programmer", d)
        < BudgetUSD + 9 * CallCost + lost[d]
Room == \A d \in Day : Within(d)

SpendingInv ==
    /\ BudgetTypeOK
    /\ Flights
    /\ Booked
    /\ NotAhead
    /\ Room

-----------------------------------------------------------------------------
(* What may be due.                                                         *)

LEMMA Multiples ==
  ASSUME NEW m \in 0..6, NEW n \in 0..6
  PROVE  /\ Owing(n) \in Nat /\ Owing(0) = 0
         /\ m <= n => Owing(m) <= Owing(n)
         /\ m < n => Owing(m) + CallCost <= Owing(n)
<1>1. CallCost \in Nat \ {0}
  BY BudgetAssumption
<1>2. \A k \in 0..6 : \/ k = 0 /\ Owing(k) = 0
                      \/ k = 1 /\ Owing(k) = CallCost
                      \/ k = 2 /\ Owing(k) = 2 * CallCost
                      \/ k = 3 /\ Owing(k) = 3 * CallCost
                      \/ k = 4 /\ Owing(k) = 4 * CallCost
                      \/ k = 5 /\ Owing(k) = 5 * CallCost
                      \/ k = 6 /\ Owing(k) = 6 * CallCost
  BY <1>1 DEF Owing
<1>3. \/ m = 0 /\ Owing(m) = 0
      \/ m \in 1..6 /\ Owing(m) \in Nat
  BY <1>1, <1>2
<1>4. Owing(0) = 0 /\ Owing(m) \in Nat /\ Owing(n) \in Nat
  BY <1>1, <1>2
<1>5. m <= n => Owing(m) <= Owing(n)
  BY <1>1, <1>2
<1>6. m < n => Owing(m) + CallCost <= Owing(n)
  BY <1>1, <1>2
<1> QED
  BY <1>4, <1>5, <1>6

LEMMA ChancesLeft ==
  ASSUME NEW p \in Spenders, NEW s \in Spender, NEW today \in Day, Sound(p, s, today)
  PROVE  /\ Chances(p, s) \in 0..6
         /\ p = "director" => Chances(p, s) \in 0..3
         /\ s.call # 0 => Chances(p, s) # 0
<1>1. s.call \in 0..3 /\ s.retried \in BOOLEAN
  BY DEF Spender, MaxCalls
<1>2. CASE p = "director"
  <2>1. Tries(p) = 1 /\ ~s.retried
    BY <1>2 DEF Tries, Sound
  <2> QED
    BY <1>1, <1>2, <2>1 DEF Chances
<1>3. CASE p = "programmer"
  <2>1. Tries(p) = 2
    BY <1>3 DEF Tries
  <2> QED
    BY <1>1, <1>3, <2>1 DEF Chances
<1> QED
  BY <1>2, <1>3 DEF Spenders

LEMMA OutstandingBounds ==
  ASSUME NEW p \in Spenders, NEW s \in Spender, NEW today \in Day, NEW d \in Day,
         Sound(p, s, today)
  PROVE  /\ Outstanding(p, s, d, today) \in Nat
         /\ Outstanding(p, s, d, today) <= IF p = "director" THEN Owing(3) ELSE Owing(6)
<1>1. /\ Chances(p, s) \in 0..6
      /\ p = "director" => Chances(p, s) \in 0..3
  BY ChancesLeft
<1>2. /\ CallCost \in Nat /\ Owing(3) \in Nat /\ Owing(6) \in Nat
      /\ CallCost <= Owing(3) /\ CallCost <= Owing(6)
  BY BudgetAssumption DEF Owing
<1>3. \A n \in 0..6 : /\ Owing(n) \in Nat /\ Owing(n) <= Owing(6)
                      /\ n \in 0..3 => Owing(n) <= Owing(3)
  BY Multiples
<1> QED
  BY <1>1, <1>2, <1>3 DEF Outstanding

\* What is due of the two, now and after a step.
LEMMA DueIsNat ==
  ASSUME BudgetTypeOK, Flights, NEW d \in Day
  PROVE  /\ \A p \in Spenders : Due(p, d) \in Nat
         /\ Due("director", d) <= 3 * CallCost /\ Due("programmer", d) <= 6 * CallCost
<1>1. \A p \in Spenders : /\ spenders[p] \in Spender /\ Sound(p, spenders[p], day)
                          /\ day \in Day
  BY DEF BudgetTypeOK, Flights
<1>2. \A p \in Spenders :
        /\ Due(p, d) \in Nat
        /\ Due(p, d) <= IF p = "director" THEN Owing(3) ELSE Owing(6)
  BY <1>1, OutstandingBounds DEF Due
<1> QED
  BY <1>2 DEF Spenders, Owing

LEMMA DueIsNatNext ==
  ASSUME BudgetTypeOK', Flights', NEW d \in Day
  PROVE  /\ \A p \in Spenders : Due(p, d)' \in Nat
         /\ Due("director", d)' <= 3 * CallCost /\ Due("programmer", d)' <= 6 * CallCost
<1>1. \A p \in Spenders : /\ spenders'[p] \in Spender /\ Sound(p, spenders'[p], day')
                          /\ day' \in Day
  BY DEF BudgetTypeOK, Flights
<1>2. \A p \in Spenders :
        /\ Due(p, d)' \in Nat
        /\ Due(p, d)' <= IF p = "director" THEN Owing(3) ELSE Owing(6)
  BY <1>1, OutstandingBounds DEF Due
<1> QED
  BY <1>2 DEF Spenders, Owing

\* Within stays true of a day when one spender's room pays for what is billed.
LEMMA WithinKept ==
  ASSUME BudgetTypeOK, BudgetTypeOK', Flights, Flights', NEW d \in Day, Within(d),
         NEW p \in Spenders,
         \A q \in Spenders \ {p} : Due(q, d)' = Due(q, d),
         billed'[d] + Due(p, d)' + lost[d] <= billed[d] + Due(p, d) + lost'[d]
  PROVE  Within(d)'
<1>1. /\ billed[d] \in Int /\ lost[d] \in Int
      /\ billed'[d] \in Int /\ lost'[d] \in Int
  BY DEF BudgetTypeOK
<1>2. \A q \in Spenders : Due(q, d) \in Int /\ Due(q, d)' \in Int
  BY DueIsNat, DueIsNatNext
<1>3. CASE p = "director"
  <2>1. Due("programmer", d)' = Due("programmer", d)
    BY <1>3 DEF Spenders
  <2> QED
    BY <1>1, <1>2, <1>3, <2>1, BudgetAssumption DEF Within, Spenders
<1>4. CASE p = "programmer"
  <2>1. Due("director", d)' = Due("director", d)
    BY <1>4 DEF Spenders
  <2> QED
    BY <1>1, <1>2, <1>4, <2>1, BudgetAssumption DEF Within, Spenders
<1> QED
  BY <1>3, <1>4 DEF Spenders

LEMMA Bounded == SpendingInv => BudgetBound
<1> SUFFICES ASSUME SpendingInv, NEW d \in Day
             PROVE  billed[d] < BudgetUSD + PaidCalls * CallCost + lost[d]
  BY DEF BudgetBound
<1>1. Within(d) /\ billed[d] \in Int /\ lost[d] \in Int
  BY DEF SpendingInv, Room, BudgetTypeOK
<1>2. Due("director", d) \in Nat /\ Due("programmer", d) \in Nat
  BY DueIsNat DEF SpendingInv, Spenders
<1>3. PaidCalls = 9
  BY DEF PaidCalls, MaxCalls, Tries
<1> QED
  BY <1>1, <1>2, <1>3, BudgetAssumption DEF Within

LEMMA BudgetStarts == BudgetInit => SpendingInv
<1> SUFFICES ASSUME BudgetInit PROVE SpendingInv
  OBVIOUS
<1>1. BudgetTypeOK
  BY BudgetAssumption DEF BudgetInit, BudgetTypeOK, Spender, AtRest, Day, MaxCalls
<1>2. Flights /\ Booked /\ NotAhead
  BY BudgetAssumption DEF BudgetInit, Flights, Sound, Booked, NotAhead, AtRest
<1>3. Room
  <2>1. \A p \in Spenders, d \in Day : Due(p, d) = 0
    BY Multiples DEF BudgetInit, Due, Outstanding, Chances, AtRest, Day
  <2> QED
    BY <2>1, BudgetAssumption DEF BudgetInit, Room, Within, Spenders, Day
<1> QED
  BY <1>1, <1>2, <1>3 DEF SpendingInv

-----------------------------------------------------------------------------
(* The actions.                                                             *)

\* The gate: the ledger, and so what was billed but for its losses, is under the
\* budget, and that leaves room for a decision of each.
LEMMA DecidesKeeps ==
  ASSUME SpendingInv, NEW p \in Spenders, Decides(p)
  PROVE  SpendingInv'
<1>0. BudgetTypeOK /\ Flights /\ Booked /\ NotAhead /\ Room
  BY DEF SpendingInv
<1>1. PICK k \in {1, 3} : spenders' = [spenders EXCEPT ![p].call = k]
  BY DEF Decides, FirstCalls
<1>2. /\ spenders[p].call = 0
      /\ ledger[day] < BudgetUSD
      /\ UNCHANGED <<day, ledger, billed, lost, losses, benched>>
  BY DEF Decides, UnderBudget, SpentToday
<1>3. /\ \A q \in Spenders \ {p} : spenders'[q] = spenders[q]
      /\ spenders'[p] = [spenders[p] EXCEPT !.call = k]
  BY <1>0, <1>1 DEF BudgetTypeOK
<1>4. BudgetTypeOK'
  <2>1. spenders' \in [Spenders -> Spender]
    BY <1>0, <1>1 DEF BudgetTypeOK, Spender, MaxCalls
  <2> QED
    BY <2>1, <1>0, <1>2 DEF BudgetTypeOK
<1>5. Flights' /\ Booked' /\ NotAhead'
  <2>1. \A q \in Spenders : Sound(q, spenders'[q], day)
    <3>1. spenders[p] \in Spender /\ Sound(p, spenders[p], day)
      BY <1>0 DEF BudgetTypeOK, Flights
    <3>2. Sound(p, spenders'[p], day)
      BY <1>2, <1>3, <3>1 DEF Sound, Spender
    <3> QED
      BY <1>0, <1>3, <3>2 DEF Flights
  <2> QED
    BY <2>1, <1>0, <1>2 DEF Flights, Booked, NotAhead
<1>6. Room'
  <2> SUFFICES ASSUME NEW d \in Day PROVE Within(d)'
    BY DEF Room
  <2>1. CASE d # day
    <3>1. \A q \in Spenders : Due(q, d)' = Due(q, d)
      BY <1>0, <1>2, <1>3, <2>1 DEF Due, Outstanding, BudgetTypeOK, Spender
    <3> QED
      BY <3>1, <1>0, <1>2 DEF Room, Within, Spenders
  <2>2. CASE d = day
    <3>1. /\ Due("director", d)' \in Nat /\ Due("director", d)' <= 3 * CallCost
          /\ Due("programmer", d)' \in Nat /\ Due("programmer", d)' <= 6 * CallCost
      BY <1>4, <1>5, DueIsNatNext DEF Spenders
    <3>2. billed[d] < BudgetUSD + lost[d] /\ billed[d] \in Int /\ lost[d] \in Int
      BY <1>0, <1>2, <2>2, BudgetAssumption DEF Booked, BudgetTypeOK
    <3> QED
      BY <3>1, <3>2, <1>2, BudgetAssumption DEF Within
  <2> QED
    BY <2>1, <2>2
<1> QED
  BY <1>4, <1>5, <1>6 DEF SpendingInv

\* A call starts today: its room does not change.
LEMMA StartsKeeps ==
  ASSUME SpendingInv, NEW p \in Spenders, CallStarts(p)
  PROVE  SpendingInv'
<1>0. BudgetTypeOK /\ Flights /\ Booked /\ NotAhead /\ Room
  BY DEF SpendingInv
<1>1. /\ spenders[p].call # 0 /\ spenders[p].since = 0
      /\ spenders' = [spenders EXCEPT ![p].since = day]
      /\ UNCHANGED <<day, ledger, billed, lost, losses, benched>>
  BY DEF CallStarts
<1>2. /\ \A q \in Spenders \ {p} : spenders'[q] = spenders[q]
      /\ spenders'[p] = [spenders[p] EXCEPT !.since = day]
  BY <1>0, <1>1 DEF BudgetTypeOK
<1>3. BudgetTypeOK'
  <2>1. spenders' \in [Spenders -> Spender]
    BY <1>0, <1>1 DEF BudgetTypeOK, Spender
  <2> QED
    BY <2>1, <1>0, <1>1 DEF BudgetTypeOK
<1>4. Flights' /\ Booked' /\ NotAhead'
  <2>1. \A q \in Spenders : Sound(q, spenders'[q], day)
    <3>1. /\ spenders[p] \in Spender /\ Sound(p, spenders[p], day)
          /\ day <= day
      BY <1>0 DEF BudgetTypeOK, Flights, Day
    <3>2. Sound(p, spenders'[p], day)
      BY <1>1, <1>2, <3>1 DEF Sound, Spender
    <3> QED
      BY <1>0, <1>2, <3>2 DEF Flights
  <2> QED
    BY <2>1, <1>0, <1>1 DEF Flights, Booked, NotAhead
<1>5. \A d \in Day, q \in Spenders : Due(q, d)' = Due(q, d)
  <2>1. 0 \notin Day
    BY DEF Day
  <2> QED
    BY <2>1, <1>0, <1>1, <1>2 DEF Due, Outstanding, Chances, BudgetTypeOK, Spender
<1>6. Room'
  BY <1>5, <1>0, <1>1 DEF Room, Within, Spenders
<1> QED
  BY <1>3, <1>4, <1>6 DEF SpendingInv

-----------------------------------------------------------------------------
(* A call that ends, the next one of the decision not begun.                *)

\* Where a call is booked, and what its spender has left.
LEMMA AfterCall ==
  ASSUME SpendingInv, NEW p \in Spenders, spenders[p].since # 0, Goes(p), day' = day
  PROVE  /\ BookedOn(p) \in Day /\ BookedOn(p) <= day
         /\ \A q \in Spenders \ {p} : spenders'[q] = spenders[q]
         /\ spenders' \in [Spenders -> Spender] /\ Flights'
         /\ spenders'[p].since = 0
         /\ Chances(p, spenders'[p]) < Chances(p, spenders[p])
<1> DEFINE s == spenders[p]
           t == spenders'[p]
<1>0. BudgetTypeOK /\ Flights
  BY DEF SpendingInv
<1>1. /\ s \in Spender /\ day \in Day
      /\ s.since \in Day /\ s.since <= day
      /\ s.call \in 1..3 /\ s.retried \in BOOLEAN
      /\ s.retried => p = "programmer"
  BY <1>0 DEF BudgetTypeOK, Spender, Flights, Sound, MaxCalls
<1>2. BookedOn(p) \in Day /\ BookedOn(p) <= day
  BY <1>1, BudgetAssumption DEF BookedOn, Day
<1>3. /\ spenders' = [spenders EXCEPT ![p] = t]
      /\ t \in Spender /\ t.since = 0
      /\ \/ t.call \in 0..3 /\ ~t.retried /\ (t.call = 0 \/ t.call > s.call)
         \/ p = "programmer" /\ t.call = s.call /\ t.retried /\ ~s.retried
  <2>1. CASE \E k \in NextCalls(p, s.call) : spenders' = After(p, k)
    <3>1. PICK k \in NextCalls(p, s.call) : spenders' = After(p, k)
      BY <2>1
    <3>2. k \in 0..3 /\ (k = 0 \/ k > s.call)
      BY <1>1 DEF NextCalls
    <3> QED
      BY <1>0, <3>1, <3>2 DEF After, AtRest, Spender, MaxCalls, BudgetTypeOK
  <2>2. CASE spenders' = AfterFailure(p)
    <3>1. CASE Tries(p) = 2 /\ ~s.retried
      <4>1. spenders' = [spenders EXCEPT ![p] = [s EXCEPT !.since = 0, !.retried = TRUE]]
        BY <1>0, <2>2, <3>1 DEF AfterFailure, BudgetTypeOK
      <4>2. p = "programmer"
        BY <3>1 DEF Tries
      <4> QED
        BY <1>0, <1>1, <3>1, <4>1, <4>2 DEF BudgetTypeOK, Spender
    <3>2. CASE ~(Tries(p) = 2 /\ ~s.retried)
      <4>1. spenders' = After(p, 0)
        BY <2>2, <3>2 DEF AfterFailure
      <4>2. PICK k \in 0..3 : k = 0 /\ spenders' = After(p, k)
        BY <4>1
      <4> QED
        BY <1>0, <4>2 DEF After, AtRest, Spender, MaxCalls, BudgetTypeOK
    <3> QED
      BY <3>1, <3>2
  <2> QED
    BY <2>1, <2>2 DEF Goes
<1>4. /\ \A q \in Spenders \ {p} : spenders'[q] = spenders[q]
      /\ spenders' \in [Spenders -> Spender]
  BY <1>0, <1>3 DEF BudgetTypeOK
<1>5. Flights'
  <2>1. Sound(p, t, day)
    BY <1>1, <1>3 DEF Sound, Day
  <2> QED
    BY <2>1, <1>0, <1>4 DEF Flights
<1>6. Chances(p, t) < Chances(p, s)
  <2>1. /\ p = "programmer" => Tries(p) = 2
        /\ p # "programmer" => Tries(p) = 1
    BY DEF Tries
  <2> HIDE DEF s, t
  <2> QED
    BY <2>1, <1>1, <1>3 DEF Chances
<1> QED
  BY <1>2, <1>3, <1>4, <1>5, <1>6

\* The room of a call pays for its bill, on whichever day it is booked.
LEMMA BillPaid ==
  ASSUME SpendingInv, NEW p \in Spenders, spenders[p].since # 0, Goes(p), day' = day,
         NEW d \in Day
  PROVE  /\ \A q \in Spenders \ {p} : Due(q, d)' = Due(q, d)
         /\ Due(p, d)' + (IF d = BookedOn(p) THEN CallCost ELSE 0) <= Due(p, d)
<1>0. BudgetTypeOK /\ Flights
  BY DEF SpendingInv
<1>1. /\ \A q \in Spenders \ {p} : spenders'[q] = spenders[q]
      /\ spenders' \in [Spenders -> Spender] /\ Flights'
      /\ spenders'[p].since = 0
      /\ Chances(p, spenders'[p]) < Chances(p, spenders[p])
  BY AfterCall
<1>2. \A q \in Spenders \ {p} : Due(q, d)' = Due(q, d)
  BY <1>1 DEF Due
<1>3. /\ Chances(p, spenders[p]) \in 0..6 /\ Chances(p, spenders'[p]) \in 0..6
      /\ 0 \notin Day
  BY <1>0, <1>1, ChancesLeft DEF BudgetTypeOK, Flights, Day
<1>4. CASE d = day
  <2>1. /\ Owing(Chances(p, spenders'[p])) + CallCost <= Owing(Chances(p, spenders[p]))
        /\ Owing(Chances(p, spenders'[p])) \in Nat
        /\ Owing(Chances(p, spenders[p])) \in Nat /\ CallCost \in Nat
    BY <1>1, <1>3, Multiples, BudgetAssumption
  <2>2. /\ Due(p, d) = Owing(Chances(p, spenders[p]))
        /\ Due(p, d)' = Owing(Chances(p, spenders'[p]))
    BY <1>4 DEF Due, Outstanding
  <2> QED
    BY <2>1, <2>2, <1>2
<1>5. CASE d # day
  <2>1. Due(p, d)' = 0
    BY <1>1, <1>3, <1>5 DEF Due, Outstanding
  <2>2. d = BookedOn(p) => d = spenders[p].since
    BY <1>5 DEF BookedOn
  <2>3. Due(p, d) = IF d = spenders[p].since THEN CallCost ELSE 0
    BY <1>5 DEF Due, Outstanding
  <2> QED
    BY <2>1, <2>2, <2>3, <1>2, BudgetAssumption
<1> QED
  BY <1>4, <1>5

\* A call is billed and booked.
LEMMA ReturnsKeeps ==
  ASSUME SpendingInv, NEW p \in Spenders, CallReturns(p)
  PROVE  SpendingInv'
<1>0. BudgetTypeOK /\ Flights /\ Booked /\ NotAhead /\ Room
  BY DEF SpendingInv
<1> DEFINE b == BookedOn(p)
<1>1. PICK cost \in 1..CallCost :
        /\ billed' = [billed EXCEPT ![b] = @ + cost]
        /\ ledger' = [ledger EXCEPT ![b] = @ + cost]
  BY DEF CallReturns
<1>2. Goes(p)
  BY DEF CallReturns
<1>3. spenders[p].since # 0 /\ UNCHANGED <<day, lost, losses, benched>>
  BY DEF CallReturns
<1>4. b \in Day /\ b <= day
  BY <1>2, <1>3, AfterCall
<1> HIDE DEF b
<1>5. cost \in Nat /\ cost <= CallCost
  BY BudgetAssumption
<1>6. \A d \in Day : /\ billed'[d] = billed[d] + (IF d = b THEN cost ELSE 0)
                     /\ ledger'[d] = ledger[d] + (IF d = b THEN cost ELSE 0)
  BY <1>0, <1>1, <1>4, <1>5 DEF BudgetTypeOK
<1>7. BudgetTypeOK'
  <2>1. billed' \in [Day -> Nat] /\ ledger' \in [Day -> Nat]
    BY <1>0, <1>1, <1>4, <1>5 DEF BudgetTypeOK
  <2> QED
    BY <2>1, <1>0, <1>2, <1>3, AfterCall DEF BudgetTypeOK
<1>8. Flights'
  BY <1>2, <1>3, AfterCall
<1>9. Booked' /\ NotAhead'
  <2>1. day \in Nat /\ b \in Nat /\ \A d \in Day : d \in Nat
    BY <1>0, <1>4 DEF BudgetTypeOK, Day
  <2>2. \A d \in Day : billed[d] \in Nat /\ ledger[d] \in Nat /\ lost[d] \in Nat
    BY <1>0 DEF BudgetTypeOK
  <2>3. Booked'
    BY <2>2, <1>0, <1>3, <1>5, <1>6 DEF Booked
  <2>4. NotAhead'
    BY <2>1, <2>2, <1>0, <1>3, <1>4, <1>6 DEF NotAhead
  <2> QED
    BY <2>3, <2>4
<1>10. Room'
  <2> SUFFICES ASSUME NEW d \in Day PROVE Within(d)'
    BY DEF Room
  <2>1. /\ \A q \in Spenders \ {p} : Due(q, d)' = Due(q, d)
        /\ Due(p, d)' + (IF d = b THEN CallCost ELSE 0) <= Due(p, d)
    BY <1>2, <1>3, BillPaid DEF b
  <2>2. Due(p, d) \in Nat /\ Due(p, d)' \in Nat
    BY <1>0, <1>7, <1>8, DueIsNat, DueIsNatNext
  <2>3. billed[d] \in Nat /\ lost[d] \in Nat /\ lost'[d] = lost[d]
    BY <1>0, <1>3 DEF BudgetTypeOK
  <2>4. billed'[d] + Due(p, d)' + lost[d] <= billed[d] + Due(p, d) + lost'[d]
    BY <2>1, <2>2, <2>3, <1>5, <1>6, BudgetAssumption
  <2> QED
    BY <2>1, <2>4, <1>0, <1>7, <1>8, WithinKept DEF Room
<1> QED
  BY <1>7, <1>8, <1>9, <1>10 DEF SpendingInv

\* A call is billed, and the ledger never hears of it.
LEMMA LossKeeps ==
  ASSUME SpendingInv, NEW p \in Spenders, BookingFails(p)
  PROVE  SpendingInv'
<1>0. BudgetTypeOK /\ Flights /\ Booked /\ NotAhead /\ Room
  BY DEF SpendingInv
<1> DEFINE b == BookedOn(p)
<1>1. PICK cost \in 1..CallCost :
        /\ billed' = [billed EXCEPT ![b] = @ + cost]
        /\ lost' = [lost EXCEPT ![b] = @ + cost]
  BY DEF BookingFails
<1>2. Goes(p)
  BY DEF BookingFails
<1>3. /\ spenders[p].since # 0
      /\ losses < MaxLosses /\ losses' = losses + 1
      /\ UNCHANGED <<day, ledger, benched>>
  BY DEF BookingFails
<1>4. b \in Day /\ b <= day
  BY <1>2, <1>3, AfterCall
<1> HIDE DEF b
<1>5. cost \in Nat /\ cost <= CallCost
  BY BudgetAssumption
<1>6. \A d \in Day : /\ billed'[d] = billed[d] + (IF d = b THEN cost ELSE 0)
                     /\ lost'[d] = lost[d] + (IF d = b THEN cost ELSE 0)
  BY <1>0, <1>1, <1>4, <1>5 DEF BudgetTypeOK
<1>7. BudgetTypeOK'
  <2>1. billed' \in [Day -> Nat] /\ lost' \in [Day -> Nat]
    BY <1>0, <1>1, <1>4, <1>5 DEF BudgetTypeOK
  <2>2. losses' \in 0..MaxLosses
    BY <1>0, <1>3, BudgetAssumption DEF BudgetTypeOK
  <2>3. spenders' \in [Spenders -> Spender]
    BY <1>2, <1>3, AfterCall
  <2> QED
    BY <2>1, <2>2, <2>3, <1>0, <1>3 DEF BudgetTypeOK
<1>8. Flights'
  BY <1>2, <1>3, AfterCall
<1>9. Booked' /\ NotAhead'
  <2>1. day \in Nat /\ b \in Nat /\ \A d \in Day : d \in Nat
    BY <1>0, <1>4 DEF BudgetTypeOK, Day
  <2>2. \A d \in Day : billed[d] \in Nat /\ ledger[d] \in Nat /\ lost[d] \in Nat
    BY <1>0 DEF BudgetTypeOK
  <2>3. Booked'
    BY <2>2, <1>0, <1>3, <1>5, <1>6 DEF Booked
  <2>4. NotAhead'
    BY <2>1, <2>2, <1>0, <1>3, <1>4, <1>6 DEF NotAhead
  <2> QED
    BY <2>3, <2>4
<1>10. Room'
  <2> SUFFICES ASSUME NEW d \in Day PROVE Within(d)'
    BY DEF Room
  <2>1. /\ \A q \in Spenders \ {p} : Due(q, d)' = Due(q, d)
        /\ Due(p, d)' + (IF d = b THEN CallCost ELSE 0) <= Due(p, d)
    BY <1>2, <1>3, BillPaid DEF b
  <2>2. Due(p, d) \in Nat /\ Due(p, d)' \in Nat
    BY <1>0, <1>7, <1>8, DueIsNat, DueIsNatNext
  <2>3. billed[d] \in Nat /\ lost[d] \in Nat
    BY <1>0 DEF BudgetTypeOK
  <2>4. billed'[d] + Due(p, d)' + lost[d] <= billed[d] + Due(p, d) + lost'[d]
    BY <2>1, <2>2, <2>3, <1>5, <1>6, BudgetAssumption
  <2> QED
    BY <2>1, <2>4, <1>0, <1>7, <1>8, WithinKept DEF Room
<1> QED
  BY <1>7, <1>8, <1>9, <1>10 DEF SpendingInv

\* A failed call is not billed, and what comes after it has the room of a billed one.
LEMMA FailsKeeps ==
  ASSUME SpendingInv, NEW p \in Spenders, CallFails(p)
  PROVE  SpendingInv'
<1>0. BudgetTypeOK /\ Flights /\ Booked /\ NotAhead /\ Room
  BY DEF SpendingInv
<1>1. /\ spenders[p].since # 0 /\ Goes(p)
      /\ UNCHANGED <<day, ledger, billed, lost, losses, benched>>
  BY DEF CallFails, Goes
<1>2. spenders' \in [Spenders -> Spender] /\ Flights'
  BY <1>1, AfterCall
<1>3. BudgetTypeOK'
  BY <1>0, <1>1, <1>2 DEF BudgetTypeOK
<1>4. Booked' /\ NotAhead'
  BY <1>0, <1>1 DEF Booked, NotAhead
<1>5. Room'
  <2> SUFFICES ASSUME NEW d \in Day PROVE Within(d)'
    BY DEF Room
  <2>1. /\ \A q \in Spenders \ {p} : Due(q, d)' = Due(q, d)
        /\ Due(p, d)' + (IF d = BookedOn(p) THEN CallCost ELSE 0) <= Due(p, d)
    BY <1>1, BillPaid
  <2>2. Due(p, d) \in Nat /\ Due(p, d)' \in Nat
    BY <1>0, <1>2, <1>3, DueIsNat, DueIsNatNext
  <2>3. billed[d] \in Nat /\ lost[d] \in Nat /\ lost'[d] = lost[d] /\ billed'[d] = billed[d]
    BY <1>0, <1>1 DEF BudgetTypeOK
  <2>4. billed'[d] + Due(p, d)' + lost[d] <= billed[d] + Due(p, d) + lost'[d]
    BY <2>1, <2>2, <2>3, BudgetAssumption
  <2> QED
    BY <2>1, <2>4, <1>0, <1>2, <1>3, WithinKept DEF Room
<1> QED
  BY <1>2, <1>3, <1>4, <1>5 DEF SpendingInv

-----------------------------------------------------------------------------
(* The bench, a kill and midnight.                                          *)

\* The bench only adds to the ledger.
LEMMA BenchKeeps ==
  ASSUME SpendingInv, BenchSpends
  PROVE  SpendingInv'
<1>0. BudgetTypeOK /\ Flights /\ Booked /\ NotAhead /\ Room
  BY DEF SpendingInv
<1>1. PICK cost \in 1..CallCost : ledger' = [ledger EXCEPT ![day] = @ + cost]
  BY DEF BenchSpends
<1>2. /\ benched < MaxBench /\ benched' = benched + 1
      /\ UNCHANGED <<day, spenders, billed, lost, losses>>
  BY DEF BenchSpends
<1>3. cost \in Nat
  BY BudgetAssumption
<1>4. BudgetTypeOK'
  <2>1. ledger' \in [Day -> Nat]
    BY <1>0, <1>1, <1>3 DEF BudgetTypeOK
  <2>2. benched' \in 0..MaxBench
    BY <1>0, <1>2, BudgetAssumption DEF BudgetTypeOK
  <2> QED
    BY <2>1, <2>2, <1>0, <1>2 DEF BudgetTypeOK
<1>5. \A d \in Day : ledger[d] <= ledger'[d] /\ ledger[d] \in Nat /\ ledger'[d] \in Nat
                     /\ billed[d] \in Nat /\ lost[d] \in Nat
  BY <1>0, <1>1, <1>3, <1>4 DEF BudgetTypeOK
<1>6. Flights' /\ NotAhead'
  BY <1>0, <1>2 DEF Flights, NotAhead
<1>7. Booked'
  BY <1>0, <1>2, <1>5 DEF Booked
<1>8. Room'
  BY <1>0, <1>2 DEF Room, Within, Due, Outstanding
<1> QED
  BY <1>4, <1>6, <1>7, <1>8 DEF SpendingInv

\* Whoever was in flight is billed, and nothing of it is booked.
LEMMA KilledKeeps ==
  ASSUME SpendingInv, BudgetKilled
  PROVE  SpendingInv'
<1>0. BudgetTypeOK /\ Flights /\ Booked /\ NotAhead /\ Room
  BY DEF SpendingInv
<1>1. PICK cost \in [Spenders -> 0..CallCost] :
        LET due(d) == (IF spenders["director"].since = d THEN cost["director"] ELSE 0)
                      + (IF spenders["programmer"].since = d THEN cost["programmer"] ELSE 0)
        IN  /\ billed' = [d \in Day |-> billed[d] + due(d)]
            /\ lost' = [d \in Day |-> lost[d] + due(d)]
  BY DEF BudgetKilled
<1>2. /\ losses < MaxLosses /\ losses' = losses + 1
      /\ spenders' = [p \in Spenders |-> AtRest]
      /\ UNCHANGED <<day, ledger, benched>>
  BY DEF BudgetKilled
<1>3. cost["director"] \in Nat /\ cost["programmer"] \in Nat
  BY BudgetAssumption DEF Spenders
<1> DEFINE due(d) == (IF spenders["director"].since = d THEN cost["director"] ELSE 0)
                     + (IF spenders["programmer"].since = d THEN cost["programmer"] ELSE 0)
<1>4. /\ \A d \in Day : due(d) \in Nat
      /\ \A d \in Day : d > day => due(d) = 0
  <2>1. \A p \in Spenders : spenders[p].since <= day /\ spenders[p].since \in Nat
    BY <1>0 DEF Flights, Sound, BudgetTypeOK, Spender, Day
  <2>2. day \in Nat /\ \A d \in Day : d \in Nat
    BY <1>0 DEF BudgetTypeOK, Day
  <2> QED
    BY <2>1, <2>2, <1>3 DEF Spenders
<1>5. /\ billed' = [d \in Day |-> billed[d] + due(d)]
      /\ lost' = [d \in Day |-> lost[d] + due(d)]
  BY <1>1
<1> HIDE DEF due
<1>6. BudgetTypeOK'
  <2>1. billed' \in [Day -> Nat] /\ lost' \in [Day -> Nat]
    BY <1>0, <1>4, <1>5 DEF BudgetTypeOK
  <2>2. losses' \in 0..MaxLosses
    BY <1>0, <1>2, BudgetAssumption DEF BudgetTypeOK
  <2>3. spenders' \in [Spenders -> Spender]
    BY <1>2 DEF AtRest, Spender, MaxCalls
  <2> QED
    BY <2>1, <2>2, <2>3, <1>0, <1>2 DEF BudgetTypeOK
<1>7. Flights'
  <2>1. day \in Nat
    BY <1>0 DEF BudgetTypeOK, Day
  <2> QED
    BY <2>1, <1>2 DEF Flights, Sound, AtRest
<1>8. Booked' /\ NotAhead'
  BY <1>0, <1>2, <1>4, <1>5 DEF Booked, NotAhead, BudgetTypeOK
<1>9. Room'
  <2> SUFFICES ASSUME NEW d \in Day PROVE Within(d)'
    BY DEF Room
  <2>1. Due("director", d)' = 0 /\ Due("programmer", d)' = 0
    <3>1. d # 0
      BY DEF Day
    <3>2. \A p \in Spenders : Chances(p, spenders'[p]) = 0 /\ spenders'[p].since = 0
      BY <1>2 DEF Chances, AtRest
    <3>3. Owing(0) = 0
      BY Multiples
    <3> QED
      BY <3>1, <3>2, <3>3 DEF Due, Outstanding, Spenders
  <2>2. Due("director", d) \in Nat /\ Due("programmer", d) \in Nat
    <3>1. "director" \in Spenders /\ "programmer" \in Spenders
      BY DEF Spenders
    <3> QED
      BY <3>1, <1>0, DueIsNat
  <2>3. /\ billed[d] \in Nat /\ lost[d] \in Nat /\ due(d) \in Nat
        /\ billed'[d] = billed[d] + due(d) /\ lost'[d] = lost[d] + due(d)
    BY <1>0, <1>4, <1>5 DEF BudgetTypeOK
  <2>4. Within(d)
    BY <1>0 DEF Room
  <2> QED
    BY <2>1, <2>2, <2>3, <2>4, BudgetAssumption DEF Within
<1> QED
  BY <1>6, <1>7, <1>8, <1>9 DEF SpendingInv

\* A new day has nothing billed, and room for what both may still do.
LEMMA MidnightKeeps ==
  ASSUME SpendingInv, Midnight
  PROVE  SpendingInv'
<1>0. BudgetTypeOK /\ Flights /\ Booked /\ NotAhead /\ Room
  BY DEF SpendingInv
<1>1. /\ day < MaxDays /\ day' = day + 1
      /\ UNCHANGED <<ledger, spenders, billed, lost, losses, benched>>
  BY DEF Midnight
<1>2. BudgetTypeOK'
  <2>1. day' \in Day
    BY <1>0, <1>1, BudgetAssumption DEF BudgetTypeOK, Day
  <2> QED
    BY <2>1, <1>0, <1>1 DEF BudgetTypeOK
<1>3. day \in Nat /\ \A d \in Day : d \in Nat
  BY <1>0 DEF BudgetTypeOK, Day
<1>4. Flights' /\ Booked' /\ NotAhead'
  <2>1. \A p \in Spenders : spenders[p].since \in Nat
    BY <1>0 DEF BudgetTypeOK, Spender, Day
  <2> QED
    BY <2>1, <1>0, <1>1, <1>3 DEF Flights, Sound, Booked, NotAhead
<1>5. Room'
  <2> SUFFICES ASSUME NEW d \in Day PROVE Within(d)'
    BY DEF Room
  <2>1. "director" \in Spenders /\ "programmer" \in Spenders
    BY DEF Spenders
  <2>2. /\ \A p \in Spenders : Due(p, d) \in Nat /\ Due(p, d)' \in Nat
        /\ Due("director", d)' <= 3 * CallCost /\ Due("programmer", d)' <= 6 * CallCost
    BY <1>0, <1>2, <1>4, DueIsNat, DueIsNatNext
  <2>3. billed[d] \in Nat /\ lost[d] \in Nat
    BY <1>0 DEF BudgetTypeOK
  <2>4. CASE d = day'
    <3>1. billed[d] = 0 /\ lost[d] = 0
      BY <2>4, <1>0, <1>1, <1>3 DEF NotAhead
    <3> QED
      BY <3>1, <2>1, <2>2, <1>1, BudgetAssumption DEF Within
  <2>5. CASE d # day'
    <3>1. \A p \in Spenders : Due(p, d)' <= Due(p, d)
      <4> SUFFICES ASSUME NEW p \in Spenders PROVE Due(p, d)' <= Due(p, d)
        OBVIOUS
      <4> DEFINE n == Chances(p, spenders[p])
      <4>1. n \in 0..6 /\ (spenders[p].since # 0 => n # 0)
        BY <1>0, ChancesLeft DEF BudgetTypeOK, Flights, Sound
      <4> HIDE DEF n
      <4>2. /\ Owing(n) \in Nat /\ d # 0 /\ CallCost \in Nat
            /\ n # 0 => CallCost <= Owing(n)
        <5>1. n # 0 => Owing(0) + CallCost <= Owing(n)
          BY <4>1, Multiples
        <5> QED
          BY <5>1, <4>1, Multiples, BudgetAssumption DEF Day
      <4>3. /\ Due(p, d) = IF d = day THEN Owing(n)
                            ELSE IF spenders[p].since = d THEN CallCost ELSE 0
            /\ Due(p, d)' = IF spenders[p].since = d THEN CallCost ELSE 0
        BY <2>5, <1>1 DEF Due, Outstanding, n
      <4> QED
        BY <4>1, <4>2, <4>3
    <3>2. Within(d)
      BY <1>0 DEF Room
    <3> QED
      BY <3>1, <3>2, <2>1, <2>2, <2>3, <1>1, BudgetAssumption DEF Within
  <2> QED
    BY <2>4, <2>5
<1> QED
  BY <1>2, <1>4, <1>5 DEF SpendingInv

-----------------------------------------------------------------------------
(* The theorems.                                                            *)

LEMMA BudgetKeeps ==
  ASSUME SpendingInv, [BudgetNext]_budgetVars
  PROVE  SpendingInv'
<1>1. CASE UNCHANGED budgetVars
  <2>1. UNCHANGED <<day, ledger, spenders, billed, lost, losses, benched>>
    BY <1>1 DEF budgetVars
  <2>2. BudgetTypeOK' /\ Flights' /\ Booked' /\ NotAhead'
    BY <2>1 DEF SpendingInv, BudgetTypeOK, Flights, Sound, Booked, NotAhead
  <2>3. Room'
    BY <2>1 DEF SpendingInv, Room, Within, Due, Outstanding
  <2> QED
    BY <2>2, <2>3 DEF SpendingInv
<1>2. CASE \E p \in Spenders :
              Decides(p) \/ CallStarts(p) \/ CallReturns(p) \/ BookingFails(p) \/ CallFails(p)
  BY <1>2, DecidesKeeps, StartsKeeps, ReturnsKeeps, LossKeeps, FailsKeeps
<1>3. CASE BenchSpends \/ BudgetKilled \/ Midnight
  BY <1>3, BenchKeeps, KilledKeeps, MidnightKeeps
<1> QED
  BY <1>1, <1>2, <1>3 DEF BudgetNext

\* Types, calls in flight, the ledger, the days to come and the room of each day,
\* together.
THEOREM BudgetInductive == BudgetSpec => []SpendingInv
  BY BudgetStarts, BudgetKeeps, PTL DEF BudgetSpec

\* On no day do the director and the programmer together pass the budget by more
\* than the calls of one decision of each and what the ledger was never told of,
\* whatever is spent over midnight, on the bench or by a process that is killed.
THEOREM SpendingBounded == BudgetSpec => []BudgetBound
  BY BudgetInductive, Bounded, PTL

\* Types: the ledger, what was billed and what was lost of each day are amounts.
THEOREM BudgetTyped == BudgetSpec => []BudgetTypeOK
<1>1. SpendingInv => BudgetTypeOK
  BY DEF SpendingInv
<1> QED
  BY <1>1, BudgetInductive, PTL

-----------------------------------------------------------------------------
(* The rate of searches.  BucketRate speaks of every pair of searches, a    *)
(* bucket holds one number: RateInv says that the number is what the most   *)
(* expensive window of searches leaves of a full bucket and its refill.     *)

Full == BucketCapacity * RefillPer

\* What a bucket would hold if search i had found it full and every moment since
\* were refill.
Credit(last, times, i) ==
    Full + (last - times[i]) - (Len(times) - i + 1) * RefillPer

\* A bucket holds what one of its searches accounts for, and no search leaves it more.
BalancedBucket(bucket, times, now) ==
    IF bucket.known
    THEN /\ bucket.last <= now
         /\ \A i \in 1..Len(times) : /\ times[i] <= bucket.last
                                     /\ bucket.tokens <= Credit(bucket.last, times, i)
         /\ \E i \in 1..Len(times) : bucket.tokens = Credit(bucket.last, times, i)
    ELSE times = <<>>
Balanced == \A u \in Searchers : BalancedBucket(buckets[u], granted[u], second)

BucketTypes ==
    /\ second \in Nat
    /\ buckets \in [Searchers -> [known : BOOLEAN, tokens : Nat, last : Nat]]
    /\ granted \in [Searchers -> Seq(Nat)]

RateInv ==
    /\ BucketTypes
    /\ Balanced
    /\ answer.asked => answer.user \in Searchers
    /\ BucketRate

-----------------------------------------------------------------------------
(* Arithmetic the solvers do not find by themselves.                        *)

\* Multiples of r are at least r apart.
LEMMA Times ==
  ASSUME NEW r \in Nat \ {0}, NEW a \in Int, NEW b \in Int
  PROVE  /\ a * r \in Int /\ (a < b => a * r + r <= b * r)
         /\ (a * r < b * r => a < b)
<1>1. ASSUME NEW x \in Int, NEW y \in Int, x < y
      PROVE  x * r + r <= y * r
  <2>1. PICK k \in Nat : y = x + k /\ k > 0
    <3>1. y - x \in Nat /\ y = x + (y - x) /\ y - x > 0
      BY <1>1
    <3> QED
      BY <3>1
  <2>2. y * r = x * r + k * r
    BY <2>1
  <2>3. k * r >= r
    BY <2>1
  <2>4. x * r \in Int /\ k * r \in Int
    BY <2>1
  <2> QED
    BY <2>2, <2>3, <2>4
<1>2. a * r \in Int /\ b * r \in Int
  OBVIOUS
<1>3. a = b => a * r = b * r
  OBVIOUS
<1> QED
  BY <1>1, <1>2, <1>3

\* Euclidean division.
LEMMA Quotient ==
  ASSUME NEW r \in Nat \ {0}, NEW d \in Nat
  PROVE  /\ d \div r \in Nat
         /\ (d \div r) * r <= d /\ d < (d \div r) * r + r
<1>1. d \div r \in Nat
  OBVIOUS
<1>2. d = r * (d \div r) + (d % r)
  OBVIOUS
<1>3. d % r \in 0..(r - 1)
  OBVIOUS
<1> QED
  BY <1>1, <1>2, <1>3

\* k searches within d seconds are within the rate if the bucket could pay for them,
LEMMA WithinIf ==
  ASSUME NEW k \in Nat, NEW d \in Nat, k * RefillPer <= Full + d
  PROVE  k - 1 < BucketCapacity + d \div RefillPer
<1> DEFINE q == d \div RefillPer
           c == BucketCapacity
           r == RefillPer
<1>0. r \in Nat \ {0} /\ c \in Nat \ {0}
  BY BucketsAssumption
<1>1. q \in Nat /\ d < q * r + r
  BY <1>0, Quotient
<1> HIDE DEF q
<1>2. (c + q + 1) * r = c * r + q * r + r
  BY <1>0, <1>1
<1>3. k * r < (c + q + 1) * r
  <2>1. k * r \in Int /\ c * r \in Int /\ q * r \in Int /\ k * r <= c * r + d
    BY <1>0, <1>1, Times DEF Full
  <2> QED
    BY <1>0, <1>1, <1>2, <2>1
<1>4. k < c + q + 1
  BY <1>0, <1>1, <1>3, Times
<1> QED
  BY <1>0, <1>1, <1>4 DEF q

\* ... and past it if it could not pay for one more.
LEMMA BeyondIf ==
  ASSUME NEW k \in Nat, NEW d \in Nat, k * RefillPer + RefillPer > Full + d
  PROVE  ~(k < BucketCapacity + d \div RefillPer)
<1> DEFINE q == d \div RefillPer
           c == BucketCapacity
           r == RefillPer
<1>0. r \in Nat \ {0} /\ c \in Nat \ {0}
  BY BucketsAssumption
<1>1. q \in Nat /\ q * r <= d
  BY <1>0, Quotient
<1> HIDE DEF q
<1>2. (c + q) * r = c * r + q * r /\ (k + 1) * r = k * r + r
  BY <1>0, <1>1
<1>3. (c + q) * r < (k + 1) * r
  <2>1. k * r \in Int /\ c * r \in Int /\ q * r \in Int /\ k * r + r > c * r + d
    BY <1>0, <1>1, Times DEF Full
  <2> QED
    BY <1>0, <1>1, <1>2, <2>1
<1>4. c + q < k + 1
  BY <1>0, <1>1, <1>3, Times
<1> QED
  BY <1>0, <1>1, <1>4 DEF q

\* The bucket as allow finds it: what every search so far leaves at most, and what
\* one of them, or the brim, leaves exactly.
LEMMA Refills ==
  ASSUME RateInv, NEW u \in Searchers
  PROVE  LET t == Refilled(u)
             n == Len(granted[u])
             Left(i) == Full + (second - granted[u][i]) - (n - i + 1) * RefillPer
         IN  /\ t \in Nat /\ n \in Nat /\ Full \in Nat /\ RefillPer <= Full
             /\ \A i \in 1..n : granted[u][i] \in Nat /\ granted[u][i] <= second /\ t <= Left(i)
             /\ t = Full \/ \E i \in 1..n : t = Left(i)
<1> DEFINE t == Refilled(u)
           n == Len(granted[u])
           d == second - buckets[u].last
           Paid(i) == (n - i + 1) * RefillPer
           Left(i) == Full + (second - granted[u][i]) - Paid(i)
<1>0. RefillPer \in Nat \ {0} /\ BucketCapacity \in Nat \ {0}
  BY BucketsAssumption
<1>1. Full \in Nat /\ RefillPer <= Full
  BY <1>0 DEF Full
<1>2. n \in Nat /\ \A i \in 1..n : granted[u][i] \in Nat
  BY DEF RateInv, BucketTypes
<1>3. second \in Nat /\ buckets[u].last \in Nat /\ buckets[u].tokens \in Nat
  BY DEF RateInv, BucketTypes
<1>4. CASE ~buckets[u].known
  <2>1. t = Full /\ n = 0
    BY <1>4 DEF RateInv, Balanced, BalancedBucket, Refilled, Full
  <2> QED
    BY <1>1, <1>2, <2>1
<1>5. CASE buckets[u].known
  <2>1. d \in Nat /\ t = IF buckets[u].tokens + d > Full THEN Full ELSE buckets[u].tokens + d
    BY <1>3, <1>5 DEF RateInv, Balanced, BalancedBucket, Refilled, AtMostFull, Full
  <2>2. \A i \in 1..n : Paid(i) \in Int
    BY <1>0, <1>2
  <2>3. \A i \in 1..n : /\ granted[u][i] <= buckets[u].last
                        /\ buckets[u].tokens
                              <= Full + (buckets[u].last - granted[u][i]) - Paid(i)
    BY <1>5 DEF RateInv, Balanced, BalancedBucket, Credit
  <2>4. \E i \in 1..n :
           buckets[u].tokens = Full + (buckets[u].last - granted[u][i]) - Paid(i)
    BY <1>5 DEF RateInv, Balanced, BalancedBucket, Credit
  <2> HIDE DEF Paid, t, n
  <2>5. t \in Nat
    BY <1>1, <1>3, <2>1
  <2>6. \A i \in 1..n : granted[u][i] <= second /\ t <= Left(i)
    BY <1>1, <1>2, <1>3, <2>1, <2>2, <2>3
  <2>7. t = Full \/ \E i \in 1..n : t = Left(i)
    BY <1>1, <1>2, <1>3, <2>1, <2>2, <2>4
  <2> QED
    BY <1>1, <1>2, <2>5, <2>6, <2>7 DEF Paid, t, n
<1> QED
  BY <1>4, <1>5

\* One more search takes a token from what every earlier one leaves, and leaves a
\* full bucket less a token itself.
LEMMA Credits ==
  ASSUME NEW times \in Seq(Nat), NEW now \in Nat
  PROVE  LET more == Append(times, now)
             n == Len(times)
         IN  /\ n \in Nat /\ Len(more) = n + 1 /\ DOMAIN more = 1..(n + 1)
             /\ more[n + 1] = now /\ \A i \in 1..n : more[i] = times[i]
             /\ Credit(now, more, n + 1) = Full - RefillPer
             /\ \A i \in 1..n : /\ Credit(now, times, i) \in Int
                               /\ Credit(now, more, i) = Credit(now, times, i) - RefillPer
<1> DEFINE more == Append(times, now)
           n == Len(times)
<1>0. RefillPer \in Nat /\ Full \in Nat
  BY BucketsAssumption DEF Full
<1>1. /\ more \in Seq(Nat) /\ Len(more) = n + 1 /\ more[n + 1] = now
      /\ \A i \in 1..n : more[i] = times[i]
  BY AppendProperties
<1>2. n \in Nat /\ DOMAIN more = 1..(n + 1) /\ \A i \in 1..n : times[i] \in Nat
  BY <1>1, LenProperties
<1> HIDE DEF n, more
<1>3. Credit(now, more, n + 1) = Full - RefillPer
  <2>1. Len(more) - (n + 1) + 1 = 1 /\ 1 * RefillPer = RefillPer
    BY <1>0, <1>1, <1>2
  <2>2. now - more[n + 1] = 0
    BY <1>1
  <2> QED
    BY <1>0, <2>1, <2>2 DEF Credit
<1>4. ASSUME NEW i \in 1..n
      PROVE  /\ Credit(now, times, i) \in Int
             /\ Credit(now, more, i) = Credit(now, times, i) - RefillPer
  <2> DEFINE paid == (n - i + 1) * RefillPer
  <2>1. Len(more) - i + 1 = n - i + 2 /\ (n - i + 2) * RefillPer = paid + RefillPer
    BY <1>0, <1>1, <1>2
  <2>2. paid \in Int /\ more[i] = times[i] /\ times[i] \in Nat
    BY <1>0, <1>1, <1>2
  <2>3. Credit(now, times, i) = Full + (now - times[i]) - paid
    BY DEF Credit, n
  <2>4. Credit(now, more, i) = Full + (now - times[i]) - (paid + RefillPer)
    BY <2>1, <2>2 DEF Credit
  <2> HIDE DEF paid
  <2>5. now - times[i] \in Int /\ Full \in Int /\ paid \in Int /\ RefillPer \in Int
    BY <1>0, <2>2
  <2>6. ASSUME NEW f \in Int, NEW x \in Int, NEW p \in Int, NEW r \in Int
        PROVE  f + x - p \in Int /\ f + x - (p + r) = (f + x - p) - r
    OBVIOUS
  <2>7. Full + (now - times[i]) - paid \in Int
    BY <2>5, <2>6
  <2>8. Full + (now - times[i]) - (paid + RefillPer)
           = (Full + (now - times[i]) - paid) - RefillPer
    BY <2>5, <2>6
  <2> QED
    BY <2>3, <2>4, <2>7, <2>8
<1> QED
  BY <1>1, <1>2, <1>3, <1>4 DEF n, more

\* What allow writes.
LEMMA AllowTypes ==
  ASSUME RateInv, NEW u \in Searchers, Allow(u)
  PROVE  /\ BucketTypes' /\ second' = second
         /\ \A w \in Searchers \ {u} : buckets'[w] = buckets[w] /\ granted'[w] = granted[w]
         /\ LET t == Refilled(u)
                ok == t >= RefillPer
            IN  /\ buckets'[u].known /\ buckets'[u].last = second
                /\ buckets'[u].tokens = IF ok THEN t - RefillPer ELSE t
                /\ granted'[u] = IF ok THEN Append(granted[u], second) ELSE granted[u]
                /\ answer'.asked /\ answer'.user = u /\ answer'.ok = ok
<1> DEFINE t == Refilled(u)
           ok == t >= RefillPer
           left == IF ok THEN t - RefillPer ELSE t
           bucket == [known |-> TRUE, tokens |-> left, last |-> second]
           times == IF ok THEN Append(granted[u], second) ELSE granted[u]
<1>1. t \in Nat /\ second \in Nat /\ RefillPer \in Nat
  BY Refills, BucketsAssumption DEF RateInv, BucketTypes
<1>2. granted \in [Searchers -> Seq(Nat)]
  BY DEF RateInv, BucketTypes
<1>3. buckets' = [buckets EXCEPT ![u] = bucket] /\ granted' = [granted EXCEPT ![u] = times]
  <2>1. granted = [granted EXCEPT ![u] = granted[u]]
    BY <1>2
  <2> QED
    BY <2>1 DEF Allow
<1>4. answer' = [asked |-> TRUE, user |-> u, ok |-> ok] /\ second' = second
  BY DEF Allow
<1>5. left \in Nat
  BY <1>1
<1>6. times \in Seq(Nat)
  <2>1. granted[u] \in Seq(Nat)
    BY <1>2
  <2>2. Append(granted[u], second) \in Seq(Nat)
    BY <1>1, <2>1, AppendProperties
  <2> QED
    BY <2>1, <2>2
<1> HIDE DEF t, ok, left, times
<1>7. bucket \in [known : BOOLEAN, tokens : Nat, last : Nat]
  BY <1>1, <1>5
<1>8. buckets \in [Searchers -> [known : BOOLEAN, tokens : Nat, last : Nat]]
  BY DEF RateInv, BucketTypes
<1> HIDE DEF bucket
<1>9. /\ buckets' \in [Searchers -> [known : BOOLEAN, tokens : Nat, last : Nat]]
      /\ granted' \in [Searchers -> Seq(Nat)]
      /\ buckets'[u] = bucket /\ granted'[u] = times
      /\ \A w \in Searchers \ {u} : buckets'[w] = buckets[w] /\ granted'[w] = granted[w]
  BY <1>2, <1>3, <1>6, <1>7, <1>8
<1>10. BucketTypes' /\ answer'.asked /\ answer'.user = u /\ answer'.ok = ok
  BY <1>1, <1>4, <1>9 DEF BucketTypes
<1> QED
  BY <1>4, <1>9, <1>10 DEF bucket, t, ok, left, times

\* A granted search is within the rate, a refused one would not be.
LEMMA AllowKeeps ==
  ASSUME RateInv, NEW u \in Searchers, Allow(u)
  PROVE  RateInv'
<1> DEFINE t == Refilled(u)
           old == granted[u]
           n == Len(old)
           ok == t >= RefillPer
           more == Append(old, second)
           bucket == buckets'[u]
<1>0. RefillPer \in Nat \ {0} /\ BucketCapacity \in Nat \ {0}
  BY BucketsAssumption
<1>1. /\ t \in Nat /\ n \in Nat /\ Full \in Nat /\ RefillPer <= Full /\ second \in Nat
      /\ \A i \in 1..n : /\ old[i] \in Nat /\ old[i] <= second
                         /\ t <= Credit(second, old, i)
      /\ t = Full \/ \E i \in 1..n : t = Credit(second, old, i)
  BY Refills DEF RateInv, BucketTypes, Credit
<1>2. /\ BucketTypes' /\ second' = second
      /\ \A w \in Searchers \ {u} : buckets'[w] = buckets[w] /\ granted'[w] = granted[w]
      /\ bucket.known /\ bucket.last = second
      /\ bucket.tokens = IF ok THEN t - RefillPer ELSE t
      /\ granted'[u] = IF ok THEN more ELSE old
      /\ answer'.asked /\ answer'.user = u /\ answer'.ok = ok
  BY AllowTypes
<1>3. /\ Len(more) = n + 1 /\ DOMAIN more = 1..(n + 1) /\ DOMAIN old = 1..n
      /\ more[n + 1] = second /\ \A i \in 1..n : more[i] = old[i]
      /\ Credit(second, more, n + 1) = Full - RefillPer
      /\ \A i \in 1..n : /\ Credit(second, old, i) \in Int
                         /\ Credit(second, more, i) = Credit(second, old, i) - RefillPer
  <2>1. old \in Seq(Nat)
    BY DEF RateInv, BucketTypes
  <2> QED
    BY <1>1, <2>1, Credits, LenProperties
<1>4. WithinRate(old)
  BY DEF RateInv, BucketRate
<1> HIDE DEF t, old, more, n, bucket
<1>5. ASSUME BalancedBucket(bucket, granted'[u], second), WithinRate(granted'[u]),
             ~ok => ~WithinRate(more) /\ granted'[u] = old
      PROVE  RateInv'
  <2>1. Balanced'
    BY <1>2, <1>5 DEF RateInv, Balanced, bucket
  <2>2. BucketRate'
    BY <1>2, <1>5 DEF RateInv, BucketRate, more, old
  <2> QED
    BY <1>2, <2>1, <2>2 DEF RateInv
<1>6. CASE ok
  <2>1. granted'[u] = more /\ bucket.tokens = t - RefillPer
    BY <1>2, <1>6
  <2>2. \A i \in 1..(n + 1) : more[i] <= second /\ t - RefillPer <= Credit(second, more, i)
    <3>1. \A i \in 1..(n + 1) : i \in 1..n \/ i = n + 1
      BY <1>1
    <3>2. \A i \in 1..n : more[i] <= second /\ t - RefillPer <= Credit(second, more, i)
      BY <1>0, <1>1, <1>3
    <3>3. t <= Full
      BY <1>1 DEF t, Refilled, AtMostFull, Full
    <3> QED
      BY <1>0, <1>1, <1>3, <3>1, <3>2, <3>3
  <2>3. \E i \in 1..(n + 1) : t - RefillPer = Credit(second, more, i)
    BY <1>0, <1>1, <1>3
  <2>4. BalancedBucket(bucket, more, second)
    BY <1>1, <1>2, <1>3, <2>1, <2>2, <2>3 DEF BalancedBucket
  <2>5. WithinRate(more)
    <3> SUFFICES ASSUME NEW i \in 1..(n + 1), NEW j \in 1..(n + 1), i <= j
                 PROVE  j - i < BucketCapacity + (more[j] - more[i]) \div RefillPer
      BY <1>3 DEF WithinRate
    <3>1. CASE j \in 1..n
      <4>1. i \in 1..n
        BY <1>1, <3>1
      <4> QED
        BY <1>3, <1>4, <3>1, <4>1 DEF WithinRate
    <3>2. CASE j = n + 1 /\ i \in 1..n
      <4> DEFINE k == n - i + 2
                 d == second - old[i]
      <4>1. k \in Nat /\ d \in Nat
        BY <1>1, <3>2
      <4>2. k * RefillPer <= Full + d
        <5>1. k * RefillPer = (n - i + 1) * RefillPer + RefillPer
          BY <1>0, <1>1
        <5>2. (n - i + 1) * RefillPer \in Int
          BY <1>0, <1>1
        <5>3. RefillPer <= Credit(second, old, i)
          BY <1>0, <1>1, <1>3, <1>6, <3>2
        <5>4. Credit(second, old, i) = Full + second - old[i] - (n - i + 1) * RefillPer
          BY DEF Credit, n
        <5>5. RefillPer <= Full + d - (n - i + 1) * RefillPer
          <6>1. old[i] \in Nat
            BY <1>1, <3>2
          <6> QED
            BY <1>0, <1>1, <5>2, <5>3, <5>4, <6>1
        <5> QED
          BY <1>0, <1>1, <4>1, <5>1, <5>2, <5>5
      <4>3. k - 1 < BucketCapacity + d \div RefillPer
        BY <4>1, <4>2, WithinIf
      <4> QED
        BY <1>1, <1>3, <3>2, <4>3
    <3>3. CASE j = n + 1 /\ i = n + 1
      <4>1. more[j] - more[i] = 0 /\ j - i = 0
        BY <1>1, <1>3, <3>3
      <4>2. 0 \div RefillPer \in Nat
        BY <1>0, Quotient
      <4> QED
        BY <1>0, <4>1, <4>2
    <3> QED
      BY <1>1, <3>1, <3>2, <3>3
  <2> QED
    BY <1>5, <1>6, <2>1, <2>4, <2>5
<1>7. CASE ~ok
  <2>1. granted'[u] = old /\ bucket.tokens = t
    BY <1>2, <1>7
  <2>2. PICK i \in 1..n : t = Credit(second, old, i)
    BY <1>0, <1>1, <1>7
  <2>3. BalancedBucket(bucket, old, second)
    BY <1>1, <1>2, <2>1, <2>2 DEF BalancedBucket, n
  <2>4. ~WithinRate(more)
    <3> DEFINE k == n - i + 1
               d == second - old[i]
    <3>1. k \in Nat /\ d \in Nat
      BY <1>1
    <3>2. k * RefillPer + RefillPer > Full + d
      <4>1. k * RefillPer \in Int /\ t < RefillPer
        BY <1>0, <1>1, <1>7, <3>1
      <4>2. t = Full + d - k * RefillPer
        BY <2>2 DEF Credit, n
      <4> QED
        BY <1>0, <1>1, <3>1, <4>1, <4>2
    <3>3. ~(k < BucketCapacity + d \div RefillPer)
      BY <3>1, <3>2, BeyondIf
    <3>4. /\ k = (n + 1) - i /\ d = more[n + 1] - more[i] /\ i <= n + 1
          /\ n + 1 \in 1..(n + 1) /\ i \in 1..(n + 1)
      BY <1>1, <1>3
    <3> QED
      BY <1>3, <3>3, <3>4 DEF WithinRate
  <2> QED
    BY <1>4, <1>5, <2>1, <2>3, <2>4
<1> QED
  BY <1>6, <1>7

LEMMA RateSteps ==
  ASSUME RateInv, [BucketsNext]_bucketVars
  PROVE  RateInv'
<1>1. CASE UNCHANGED bucketVars
  BY <1>1 DEF bucketVars, RateInv, BucketTypes, Balanced, BucketRate
<1>2. CASE \E u \in Searchers : Allow(u)
  BY <1>2, AllowKeeps
<1>3. CASE SecondPasses
  <2>1. /\ second' = second + 1 /\ second \in Nat /\ UNCHANGED <<buckets, granted>>
        /\ ~answer'.asked
    BY <1>3 DEF SecondPasses, NoAnswer, RateInv, BucketTypes
  <2>2. BucketTypes'
    BY <2>1 DEF RateInv, BucketTypes
  <2>3. ASSUME NEW u \in Searchers, BalancedBucket(buckets[u], granted[u], second)
        PROVE  BalancedBucket(buckets[u], granted[u], second + 1)
    <3>1. buckets[u].last \in Nat
      BY DEF RateInv, BucketTypes
    <3> QED
      BY <2>1, <2>3, <3>1 DEF BalancedBucket
  <2>4. Balanced'
    BY <2>1, <2>3 DEF RateInv, Balanced
  <2> QED
    BY <2>1, <2>2, <2>4 DEF RateInv, BucketRate
<1>4. CASE BucketsRestart
  <2>1. /\ buckets' = [u \in Searchers |-> NoBucket] /\ granted' = [u \in Searchers |-> <<>>]
        /\ ~answer'.asked /\ second' = second
    BY <1>4 DEF BucketsRestart, NoAnswer
  <2>2. BucketTypes'
    BY <2>1 DEF RateInv, BucketTypes, NoBucket
  <2>3. Balanced'
    BY <2>1 DEF Balanced, BalancedBucket, NoBucket
  <2>4. \A u \in Searchers : WithinRate(granted'[u])
    BY <2>1 DEF WithinRate
  <2> QED
    BY <2>1, <2>2, <2>3, <2>4 DEF RateInv, BucketRate
<1> QED
  BY <1>1, <1>2, <1>3, <1>4 DEF BucketsNext

LEMMA RateHolds == BucketsSpec => []RateInv
<1>1. BucketsInit => RateInv
  <2> SUFFICES ASSUME BucketsInit
               PROVE  RateInv
    OBVIOUS
  <2>1. BucketTypes
    BY DEF BucketsInit, BucketTypes, NoBucket
  <2>2. Balanced
    BY DEF BucketsInit, Balanced, BalancedBucket, NoBucket
  <2>3. ~answer.asked /\ \A u \in Searchers : WithinRate(granted[u])
    BY DEF BucketsInit, NoAnswer, WithinRate
  <2> QED
    BY <2>1, <2>2, <2>3 DEF RateInv, BucketRate
<1> QED
  BY <1>1, RateSteps, PTL DEF BucketsSpec

\* Over any window of time a listener is granted no more searches than a full bucket and
\* its refill pay for, and is refused none they pay for, whenever the calls come.
THEOREM RateHeld == BucketsSpec => []BucketRate
<1>1. RateInv => BucketRate
  BY DEF RateInv
<1> QED
  BY <1>1, RateHolds, PTL

LEMMA BucketTypesKeep ==
  ASSUME Searchers # {}, RateInv, BucketsTypeOK, [BucketsNext]_bucketVars
  PROVE  BucketsTypeOK'
<1>0. /\ BucketCapacity * RefillPer \in Nat /\ RefillPer \in Nat /\ RefillPer >= 1
      /\ RefillPer <= BucketCapacity * RefillPer /\ MaxSeconds \in Nat
  <2>1. /\ BucketCapacity \in Int /\ BucketCapacity >= 1 /\ RefillPer \in Nat \ {0}
        /\ MaxSeconds \in Nat
    BY BucketsAssumption
  <2>2. 1 * RefillPer \in Int /\ 0 * RefillPer \in Int /\ BucketCapacity * RefillPer \in Int
        /\ (0 < BucketCapacity => 0 * RefillPer + RefillPer <= BucketCapacity * RefillPer)
    BY <2>1, Times
  <2>3. 0 * RefillPer = 0
    BY <2>1
  <2> QED
    BY <2>1, <2>2, <2>3
<1>1. NoAnswer \in [asked : BOOLEAN, user : Searchers, ok : BOOLEAN]
  BY DEF NoAnswer
<1>2. CASE \E u \in Searchers : Allow(u)
  <2>1. PICK u \in Searchers : Allow(u)
    BY <1>2
  <2> DEFINE tokens == Refilled(u)
             ok == tokens >= RefillPer
             bucket == [known |-> TRUE, tokens |-> IF ok THEN tokens - RefillPer ELSE tokens,
                        last |-> second]
  <2>2. tokens \in 0..(BucketCapacity * RefillPer)
    <3>1. buckets[u].tokens \in Nat /\ buckets[u].last \in Nat /\ second \in Nat
      BY DEF BucketsTypeOK
    <3>2. buckets[u].known => buckets[u].last <= second
      BY DEF RateInv, Balanced, BalancedBucket
    <3> QED
      BY <1>0, <3>1, <3>2 DEF Refilled, AtMostFull
  <2>3. /\ buckets' = [buckets EXCEPT ![u] = bucket]
        /\ granted' = IF ok THEN [granted EXCEPT ![u] = Append(@, second)] ELSE granted
        /\ answer' = [asked |-> TRUE, user |-> u, ok |-> ok]
        /\ second' = second
    BY <2>1 DEF Allow
  <2>4. ok \in BOOLEAN
    OBVIOUS
  <2> HIDE DEF tokens
  <2>5. bucket \in [known : BOOLEAN, tokens : 0..(BucketCapacity * RefillPer),
                    last : 0..MaxSeconds]
    <3>1. (IF ok THEN tokens - RefillPer ELSE tokens) \in 0..(BucketCapacity * RefillPer)
      BY <1>0, <2>2
    <3> QED
      BY <3>1 DEF BucketsTypeOK
  <2> HIDE DEF bucket, ok
  <2>6. granted' \in [Searchers -> Seq(0..MaxSeconds)]
    BY <2>3 DEF BucketsTypeOK
  <2>7. answer' \in [asked : BOOLEAN, user : Searchers, ok : BOOLEAN]
    BY <2>3, <2>4
  <2> QED
    BY <2>3, <2>5, <2>6, <2>7 DEF BucketsTypeOK
<1>3. CASE SecondPasses
  BY <1>0, <1>1, <1>3 DEF SecondPasses, BucketsTypeOK
<1>4. CASE BucketsRestart
  <2>1. NoBucket \in [known : BOOLEAN, tokens : 0..(BucketCapacity * RefillPer),
                      last : 0..MaxSeconds]
    BY <1>0 DEF NoBucket
  <2> QED
    BY <1>1, <1>4, <2>1 DEF BucketsRestart, BucketsTypeOK
<1>5. CASE UNCHANGED bucketVars
  BY <1>5 DEF bucketVars, BucketsTypeOK
<1> QED
  BY <1>2, <1>3, <1>4, <1>5 DEF BucketsNext

\* Types: no bucket holds more than its capacity or less than nothing.
THEOREM BucketsTyped ==
  ASSUME Searchers # {}
  PROVE  BucketsSpec => []BucketsTypeOK
<1>1. BucketsInit => BucketsTypeOK
  <2> SUFFICES ASSUME BucketsInit
               PROVE  BucketsTypeOK
    OBVIOUS
  <2>1. BucketCapacity * RefillPer \in Nat /\ MaxSeconds \in Nat
    BY BucketsAssumption
  <2>2. NoAnswer \in [asked : BOOLEAN, user : Searchers, ok : BOOLEAN]
    BY DEF NoAnswer
  <2>3. NoBucket \in [known : BOOLEAN, tokens : 0..(BucketCapacity * RefillPer),
                      last : 0..MaxSeconds]
    BY <2>1 DEF NoBucket
  <2> QED
    BY <2>1, <2>2, <2>3 DEF BucketsInit, BucketsTypeOK
<1>2. BucketsSpec => []RateInv
  BY RateHolds, PTL DEF BucketsSpec
<1>3. RateInv /\ BucketsTypeOK /\ [BucketsNext]_bucketVars => BucketsTypeOK'
  BY BucketTypesKeep
<1> QED
  BY <1>1, <1>2, <1>3, PTL DEF BucketsSpec
=============================================================================
