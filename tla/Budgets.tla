-------------------------------- MODULE Budgets --------------------------------
(***************************************************************************)
(* Budgets, what is spent on them in the current period, and the rollover  *)
(* that carries what is left into the next period.  A rollover reads the   *)
(* clock twice, with reads of the database in between; listings load every *)
(* budget a second time.  Time is counted in half months.  Categories are  *)
(* left out: all spending counts for every budget.                         *)
(***************************************************************************)
EXTENDS Naturals, Integers, FiniteSets, FiniteSetsExt

CONSTANTS
    Requests,       \* bound: requests, each made once
    Stored,         \* budgets at the start
    Amounts,
    Length,         \* of the periods
    Dates,          \* bound: the dates that requests bring
    MaxTime,        \* bound: the end of time
    MaxSpent,       \* bound: transactions in a half month
    None

Periods == {"monthly", "yearly"}

ASSUME BudgetsAssumption ==
    /\ Length \in [Periods -> Nat \ {0}] /\ Amounts \subseteq Nat \ {0} /\ MaxTime \in Nat
    /\ Dates \subseteq 0..MaxTime
    /\ None \notin Requests \cup Stored /\ Requests \cap Stored = {}

VARIABLES
    budgets,        \* by the request that made them
    spent, now,
    job, past       \* history: the requests that were over when a request arrived

vars == <<budgets, spent, now, job, past>>

-----------------------------------------------------------------------------
Time == 0..MaxTime
Never == 2 * MaxTime + 10      \* the end of a budget that has none

\* Amounts count what one transaction spends.
Budget == [deleted : BOOLEAN, amount : Nat, start : Nat, end : Nat, period : Periods,
           rollover : BOOLEAN]

StartOf(p, t) == Length[p] * (t \div Length[p])
EndOf(p, t) == StartOf(p, t) + Length[p] - 1

\* Mutant: the period after the one the budget began in.
NextStartOfBudget(b, t) == EndOf(b.period, b.start) + 1

\* startOfMonth of the next month, startOfYear of the next year.
NextStart(b, t) == EndOf(b.period, t) + 1

\* The part of the current period the budget spans.
Window(b, t) ==
    {u \in Time : Max({StartOf(b.period, t), b.start}) <= u /\ u <= Min({EndOf(b.period, t), b.end})}

\* The sum over the window, one half month after the other.
Actual(b, t) ==
    LET before[u \in 0..(MaxTime + 1)] ==
            IF u = 0 THEN 0
            ELSE before[u - 1] + IF u - 1 \in Window(b, t) THEN spent[u - 1] ELSE 0
    IN  before[MaxTime + 1]

\* The level of the default thresholds: 50, 80 and 100 per cent.
Level(amount, actual) ==
    CASE actual >= amount             -> "exceeded"
      [] 10 * actual >= 8 * amount    -> "critical"
      [] 2 * actual >= amount         -> "warning"
      [] OTHER                        -> "none"

Live(i) == i \in DOMAIN budgets /\ ~budgets[i].deleted
Listed == {i \in DOMAIN budgets : ~budgets[i].deleted}

\* One document more.
Added(id, b) == [i \in DOMAIN budgets \cup {id} |-> IF i = id THEN b ELSE budgets[i]]

Over == {"ok", "refused"}
Idle == [kind |-> None, step |-> "idle", budget |-> None, seen |-> None, doc |-> None,
         todo |-> {}, alerts |-> {}, actual |-> 0, began |-> 0, ended |-> 0]

Running(q) == job[q].step \notin Over \cup {"idle"}
At(q, kinds, step) == job[q].kind \in kinds /\ job[q].step = step
Go(q, step) == job' = [job EXCEPT ![q].step = step]

-----------------------------------------------------------------------------
(* Arrival                                                                 *)

Single == {"update", "remove", "rollover"}
Listings == {"stats", "alerts"}

\* The end is after the start, if there is one.
ValidSpan(start, end) == end > start

Arrives(q, r, step) ==
    /\ job[q] = Idle
    /\ job' = [job EXCEPT ![q] = [r EXCEPT !.step = step, !.began = now]]
    /\ past' = [past EXCEPT ![q] = {r2 \in Requests : job[r2].step \in Over}]
    /\ UNCHANGED <<budgets, spent, now>>

Arrive(q) ==
    \/ \E kind \in Single, b \in DOMAIN budgets :
          Arrives(q, [Idle EXCEPT !.kind = kind, !.budget = b], "load")
    \/ \E kind \in Listings : Arrives(q, [Idle EXCEPT !.kind = kind], "list")
    \/ \E ids \in (SUBSET DOMAIN budgets) \ {{}} :
          Arrives(q, [Idle EXCEPT !.kind = "bulkDelete", !.todo = ids], "list")

\* One step: the category's validation reads what is left out.
Create(q) ==
    /\ job[q] = Idle
    /\ \E a \in Amounts, p \in Periods, s \in Dates, e \in Dates \cup {Never}, r \in BOOLEAN :
          /\ ValidSpan(s, e)
          /\ budgets' = Added(q, [deleted |-> FALSE, amount |-> a, start |-> s, end |-> e,
                                  period |-> p, rollover |-> r])
    /\ job' = [job EXCEPT ![q].kind = "create", ![q].step = "ok"]
    /\ past' = [past EXCEPT ![q] = {r \in Requests : job[r].step \in Over}]
    /\ UNCHANGED <<spent, now>>

-----------------------------------------------------------------------------
(* Updates and removals                                                    *)

Dated(b, start, end) == [b EXCEPT !.start = start, !.end = end]
Planned(b, amount, period, rollover) ==
    [b EXCEPT !.amount = amount, !.period = period, !.rollover = rollover]

\* What an update leaves out stays.  Its start is compared with the end it brings, or with
\* the stored one, which a null then clears all the same; an end alone is not compared.
Updates(b) ==
    LET starts == {s \in Dates : ValidSpan(s, b.end)}
        both == {d \in {Dated(b, s, e) : s \in Dates, e \in Dates} : ValidSpan(d.start, d.end)}
        start == {Dated(b, s, e) : s \in starts, e \in {b.end, Never}}
        end == {Dated(b, b.start, e) : e \in Dates \cup {Never}}
    IN  {Planned(d, a, p, r) : d \in both \cup start \cup end \cup {b},
                               a \in Amounts \cup {b.amount}, p \in Periods, r \in BOOLEAN}

Load(q) ==
    /\ At(q, {"update", "remove"}, "load")
    /\ IF Live(job[q].budget)
       THEN LET b == budgets[job[q].budget]
            IN  \E d \in IF job[q].kind = "update" THEN Updates(b)
                         ELSE {[b EXCEPT !.deleted = TRUE]} :
                   job' = [job EXCEPT ![q].seen = b, ![q].doc = d, ![q].step = "save"]
       ELSE Go(q, "refused")
    /\ UNCHANGED <<budgets, spent, now, past>>

Saved(new, seen, old) == [f \in DOMAIN old |-> IF new[f] = seen[f] THEN old[f] ELSE new[f]]

Save(q) ==
    /\ At(q, {"update", "remove"}, "save")
    /\ budgets' = [budgets EXCEPT ![job[q].budget] = Saved(job[q].doc, job[q].seen, @)]
    /\ Go(q, "ok")
    /\ UNCHANGED <<spent, now, past>>

\* bulkSoftDelete: those found are deleted, whatever happened to them since.
FindAll(q) ==
    /\ At(q, {"bulkDelete"}, "list")
    /\ LET found == job[q].todo \cap Listed
       IN  job' = [job EXCEPT ![q].todo = found,
                              ![q].step = IF found = {} THEN "refused" ELSE "save"]
    /\ UNCHANGED <<budgets, spent, now, past>>

DeleteAll(q) ==
    /\ At(q, {"bulkDelete"}, "save")
    /\ budgets' = [i \in DOMAIN budgets |->
                      IF i \in job[q].todo THEN [budgets[i] EXCEPT !.deleted = TRUE]
                      ELSE budgets[i]]
    /\ Go(q, "ok")
    /\ UNCHANGED <<spent, now, past>>

-----------------------------------------------------------------------------
(* Rollover: the budget, the budget again, its transactions, the new one.  *)

FindForRollover(q) ==
    /\ At(q, {"rollover"}, "load")
    /\ LET b == budgets[job[q].budget]
       IN  IF ~Live(job[q].budget) THEN Go(q, "refused")
           ELSE IF b.rollover THEN job' = [job EXCEPT ![q].seen = b, ![q].step = "reload"]
           ELSE Go(q, "ok")
    /\ UNCHANGED <<budgets, spent, now, past>>

\* calculateBudgetStats begins with findOne and the clock.
Reload(q) ==
    /\ At(q, {"rollover"}, "reload")
    /\ IF Live(job[q].budget)
       THEN job' = [job EXCEPT ![q].doc = budgets[job[q].budget], ![q].ended = now,
                               ![q].step = "sum"]
       ELSE Go(q, "refused")
    /\ UNCHANGED <<budgets, spent, now, past>>

\* The transactions of the window as it was then.
Sum(q) ==
    /\ At(q, {"rollover"}, "sum")
    /\ LET actual == Actual(job[q].doc, job[q].ended)
       IN  job' = [job EXCEPT ![q].actual = actual,
                              ![q].step = IF actual < job[q].doc.amount THEN "insert" ELSE "ok"]
    /\ UNCHANGED <<budgets, spent, now, past>>

\* The amount of the first load, what is left of the second, and the clock once more.
Successor(q) ==
    LET b == job[q].seen
        start == NextStart(b, now)
    IN  [b EXCEPT !.amount = b.amount + (job[q].doc.amount - job[q].actual),
                  !.start = start,
                  !.end = IF b.end = Never THEN Never ELSE Min({b.end, EndOf(b.period, start)})]

RollOver(q) ==
    /\ At(q, {"rollover"}, "insert")
    /\ IF job[q].seen.end < now
       THEN Go(q, "ok") /\ UNCHANGED budgets
       ELSE /\ budgets' = Added(q, Successor(q))
            /\ job' = [job EXCEPT ![q].step = "ok", ![q].ended = now]
    /\ UNCHANGED <<spent, now, past>>

-----------------------------------------------------------------------------
(* findAllWithStats and checkBudgetAlerts                                  *)

\* Mutant: the list is not filtered by deletedAt.
ListAll(q) ==
    /\ At(q, Listings, "list")
    /\ job' = [job EXCEPT ![q].todo = DOMAIN budgets, ![q].step = "each"]
    /\ UNCHANGED <<budgets, spent, now, past>>

List(q) ==
    /\ At(q, Listings, "list")
    /\ job' = [job EXCEPT ![q].todo = Listed, ![q].step = "each"]
    /\ UNCHANGED <<budgets, spent, now, past>>

\* One missing budget makes the whole answer a 404.
StatsOf(q) ==
    /\ At(q, Listings, "each") /\ job[q].todo # {}
    /\ \E i \in job[q].todo :
          IF Live(i)
          THEN job' = [job EXCEPT ![q].todo = @ \ {i}, ![q].alerts =
                          IF Level(budgets[i].amount, Actual(budgets[i], now)) = "none"
                          THEN @ ELSE @ \cup {i}]
          ELSE Go(q, "refused")
    /\ UNCHANGED <<budgets, spent, now, past>>

Answer(q) ==
    /\ At(q, Listings, "each") /\ job[q].todo = {}
    /\ Go(q, "ok")
    /\ UNCHANGED <<budgets, spent, now, past>>

-----------------------------------------------------------------------------
Tick ==
    /\ now < MaxTime /\ now' = now + 1
    /\ UNCHANGED <<budgets, spent, job, past>>

Spend ==
    /\ spent[now] < MaxSpent
    /\ spent' = [spent EXCEPT ![now] = @ + 1]
    /\ UNCHANGED <<budgets, now, job, past>>

Init ==
    /\ \E a \in Amounts, p \in Periods, e \in Dates \cup {Never} :
          /\ ValidSpan(0, e)
          /\ budgets = [i \in Stored |-> [deleted |-> FALSE, amount |-> a, start |-> 0,
                                          end |-> e, period |-> p, rollover |-> TRUE]]
    /\ spent = [t \in Time |-> 0] /\ now = 0
    /\ job = [q \in Requests |-> Idle] /\ past = [q \in Requests |-> {}]

Next ==
    \/ \E q \in Requests :
          \/ Arrive(q) \/ Create(q) \/ Load(q) \/ Save(q) \/ FindAll(q) \/ DeleteAll(q)
          \/ FindForRollover(q) \/ Reload(q) \/ Sum(q) \/ RollOver(q)
          \/ List(q) \/ StatsOf(q) \/ Answer(q)
    \/ Tick \/ Spend

Spec == Init /\ [][Next]_vars

-----------------------------------------------------------------------------
(* Properties                                                              *)

Overlap(q, r) == q # r /\ q \notin past[r] /\ r \notin past[q]
Concerns(r, b) == job[r].budget = b \/ b \in job[r].todo

\* What is left is carried into the period right after the one it is left of, and is never
\* more than the budget: unless a period ended, or the budget was updated, while the
\* rollover ran.
RolledNext ==
    \A q \in Requests : job[q].kind = "rollover" /\ q \in DOMAIN budgets =>
        LET b == job[q].seen
            began == StartOf(b.period, job[q].began)
        IN  \/ /\ budgets[q].start = began + Length[b.period] \/ \E r \in Requests :
                     job[r].kind = "update" /\ job[r].step = "ok" /\ job[r].budget = q
               /\ job[q].doc.amount - job[q].actual \in 1..b.amount
            \/ StartOf(b.period, job[q].ended) # began
            \/ \E r \in Requests : Overlap(q, r) /\ job[r].kind = "update"
                                   /\ job[r].step = "ok" /\ job[r].budget = job[q].budget

\* A listing with stats, or the alerts, are refused only if a budget was deleted after it
\* was listed, by a request that overlapped (each budget is loaded a second time).
RefusedByDeletion ==
    \A q \in Requests : job[q].kind \in Listings /\ job[q].step = "refused" =>
        \E r \in Requests : /\ Overlap(q, r) /\ job[r].kind \in {"remove", "bulkDelete"}
                            /\ \E i \in DOMAIN budgets : budgets[i].deleted /\ Concerns(r, i)
=============================================================================
