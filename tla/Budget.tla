------------------------------- MODULE Budget -------------------------------
(***************************************************************************)
(* The daily budget: the director and the programmer, two goroutines, read  *)
(* the day's spending from the ledger before they start, and then make      *)
(* their paid calls, three kinds each, the programmer every one twice if    *)
(* need be, and each booked only after it was answered.  Nothing is         *)
(* reserved, a lost ledger line is only logged, a call is booked on the day *)
(* it started, and the console's bench spends from the same ledger without  *)
(* asking.  Money is a whole number of cents.                               *)
(***************************************************************************)
EXTENDS Integers

CONSTANTS BudgetUSD,   \* Deps.BudgetUSD of both
          CallCost,    \* what one call costs at most
          MaxDays,     \* bound on days
          MaxLosses,   \* bound on ledger lines lost
          MaxBench     \* bound on calls of the bench

ASSUME BudgetAssumption ==
    /\ BudgetUSD \in Nat \ {0} /\ CallCost \in Nat \ {0} /\ MaxDays \in Nat \ {0}
    /\ MaxLosses \in Nat /\ MaxBench \in Nat

Spenders == {"director", "programmer"}
Day == 1..MaxDays
\* Intent, choice and its repair of the programmer; script, rewrite and voice of
\* the director.
MaxCalls == 3

\* How often a call is made whose answer is an error: generate of the programmer
\* retries once, whatever the error.
Tries(p) == IF p = "programmer" THEN 2 ELSE 1

\* A spender between gate and end: the paid call it makes next or has in flight
\* (0: none), the day that call started on (0: not in flight), and whether it is
\* the retry.
AtRest == [call |-> 0, since |-> 0, retried |-> FALSE]

VARIABLES day,
          ledger,   \* ledger_line: what is booked, per day of the line
          spenders, \* the two RunOnce
          billed,   \* history: what the two were billed, per day
          lost,     \* history: what they were billed and never booked
          losses, benched

budgetVars == <<day, ledger, spenders, billed, lost, losses, benched>>

BudgetInit ==
    /\ day = 1
    /\ ledger = [d \in Day |-> 0]
    /\ spenders = [p \in Spenders |-> AtRest]
    /\ billed = [d \in Day |-> 0] /\ lost = [d \in Day |-> 0]
    /\ losses = 0 /\ benched = 0

\* SpentSince(DayStart(now)): no line is booked ahead of its day.
SpentToday == ledger[day]

UnderBudgetBug == SpentToday <= BudgetUSD
UnderBudget == SpentToday < BudgetUSD

\* The first paid calls of a decision: the director's station ID is written
\* beforehand.
FirstCalls(p) == IF p = "director" THEN {1, 3} ELSE {1}

Decides(p) ==
    /\ spenders[p].call = 0
    /\ UnderBudget
    /\ \E k \in FirstCalls(p) : spenders' = [spenders EXCEPT ![p].call = k]
    /\ UNCHANGED <<day, ledger, billed, lost, losses, benched>>

\* The line of a call carries the time it started (llm).
CallStarts(p) ==
    /\ spenders[p].call # 0 /\ spenders[p].since = 0
    /\ spenders' = [spenders EXCEPT ![p].since = day]
    /\ UNCHANGED <<day, ledger, billed, lost, losses, benched>>

\* What may follow call k: a rewrite only when the script breaks a rule, a repair
\* only when no choice was valid; an unusable answer ends the decision.
NextCalls(p, k) ==
    {0} \cup (IF p = "director" THEN {l \in {2, 3} : l > k} ELSE {k + 1} \cap {2, 3})

\* The voice's line carries the time it is booked, the director's third call only.
BookedOn(p) == IF p = "director" /\ spenders[p].call = 3 THEN day ELSE spenders[p].since

After(p, k) == [spenders EXCEPT ![p] = [AtRest EXCEPT !.call = k]]

\* A call that ended in an error is made once more, or ends the decision.
AfterFailure(p) ==
    IF Tries(p) = 2 /\ ~spenders[p].retried
    THEN [spenders EXCEPT ![p].since = 0, ![p].retried = TRUE]
    ELSE After(p, 0)

\* OnEnd has billed an answer before Generate looks at it, and one that is empty or
\* cut off is an error like any other.
Goes(p) ==
    \/ \E k \in NextCalls(p, spenders[p].call) : spenders' = After(p, k)
    \/ spenders' = AfterFailure(p)

\* OnEnd, and prepare after Synthesize: billed and booked.
CallReturns(p) ==
    /\ spenders[p].since # 0
    /\ \E cost \in 1..CallCost :
          /\ billed' = [billed EXCEPT ![BookedOn(p)] = @ + cost]
          /\ ledger' = [ledger EXCEPT ![BookedOn(p)] = @ + cost]
    /\ Goes(p)
    /\ UNCHANGED <<day, lost, losses, benched>>

\* The ledger's append fails: logged, and the work goes on.
BookingFails(p) ==
    /\ spenders[p].since # 0 /\ losses < MaxLosses
    /\ losses' = losses + 1
    /\ \E cost \in 1..CallCost :
          /\ billed' = [billed EXCEPT ![BookedOn(p)] = @ + cost]
          /\ lost' = [lost EXCEPT ![BookedOn(p)] = @ + cost]
    /\ Goes(p)
    /\ UNCHANGED <<day, ledger, benched>>

\* OnError, or a voice that fails: no answer, and no bill.
CallFails(p) ==
    /\ spenders[p].since # 0
    /\ spenders' = AfterFailure(p)
    /\ UNCHANGED <<day, ledger, billed, lost, losses, benched>>

\* The bench: a voice or an audition of the console, booked, behind no gate.
BenchSpends ==
    /\ benched < MaxBench /\ benched' = benched + 1
    /\ \E cost \in 1..CallCost : ledger' = [ledger EXCEPT ![day] = @ + cost]
    /\ UNCHANGED <<day, spenders, billed, lost, losses>>

\* A killed process: calls in flight are billed, and never booked.
BudgetKilled ==
    /\ losses < MaxLosses
    /\ losses' = losses + 1
    /\ \E cost \in [Spenders -> 0..CallCost] :
          LET due(d) == (IF spenders["director"].since = d THEN cost["director"] ELSE 0)
                        + (IF spenders["programmer"].since = d THEN cost["programmer"] ELSE 0)
          IN  /\ billed' = [d \in Day |-> billed[d] + due(d)]
              /\ lost' = [d \in Day |-> lost[d] + due(d)]
    /\ spenders' = [p \in Spenders |-> AtRest]
    /\ UNCHANGED <<day, ledger, benched>>

Midnight ==
    /\ day < MaxDays /\ day' = day + 1
    /\ UNCHANGED <<ledger, spenders, billed, lost, losses, benched>>

BudgetNext ==
    \/ \E p \in Spenders :
          Decides(p) \/ CallStarts(p) \/ CallReturns(p) \/ BookingFails(p) \/ CallFails(p)
    \/ BenchSpends \/ BudgetKilled \/ Midnight

BudgetSpec == BudgetInit /\ [][BudgetNext]_budgetVars

-----------------------------------------------------------------------------
(* Properties.                                                              *)

Spender == [call : 0..MaxCalls, since : Day \cup {0}, retried : BOOLEAN]

\* Types.
BudgetTypeOK ==
    /\ day \in Day
    /\ ledger \in [Day -> Nat] /\ billed \in [Day -> Nat] /\ lost \in [Day -> Nat]
    /\ spenders \in [Spenders -> Spender]
    /\ losses \in 0..MaxLosses /\ benched \in 0..MaxBench

\* What the two may pay past their gates: each call of a decision of each, as often
\* as it is made.
PaidCalls == MaxCalls * (Tries("director") + Tries("programmer"))

\* How far a day's spending of the two can pass the budget they share: by all
\* the calls of one decision of each, retries of billed answers included, both begun
\* on the last cent, whatever is spent over midnight or on the bench, plus what the
\* ledger was never told of.
BudgetBound ==
    \A d \in Day : billed[d] < BudgetUSD + PaidCalls * CallCost + lost[d]
=============================================================================
