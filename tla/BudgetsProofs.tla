----------------------------- MODULE BudgetsProofs -----------------------------
(***************************************************************************)
(* Proofs about the budgets: what a rollover carries into the next period, *)
(* and why a listing is refused.                                           *)
(***************************************************************************)
EXTENDS Budgets, NaturalsInduction, WellFoundedInduction, TLAPS

-----------------------------------------------------------------------------
(* The operators                                                           *)

\* The least of two numbers is one of them.
LEMMA MinOfTwo ==
    ASSUME NEW x \in Int, NEW y \in Int
    PROVE  Min({x, y}) \in {x, y}
  <1>1. \E m \in {x, y} : \A n \in {x, y} : m <= n
    <2>1. CASE x <= y BY <2>1
    <2>2. CASE y <= x BY <2>2
    <2>3. QED BY <2>1, <2>2
  <1>2. QED BY <1>1 DEF Min

\* A quotient of naturals is one.
LEMMA QuotientNat ==
    ASSUME NEW t \in Nat, NEW n \in Nat \ {0}
    PROVE  t \div n \in Nat
  OBVIOUS

\* A period has a first half month, a last one and a successor.
LEMMA PeriodsInTime ==
    ASSUME NEW p \in Periods, NEW t \in Nat
    PROVE  /\ Length[p] \in Nat \ {0}
           /\ StartOf(p, t) \in Nat
           /\ EndOf(p, t) \in Nat
           /\ EndOf(p, t) + 1 = StartOf(p, t) + Length[p]
  <1>1. Length[p] \in Nat \ {0} BY BudgetsAssumption
  <1>2. t \div Length[p] \in Nat BY <1>1, QuotientNat
  <1>3. StartOf(p, t) \in Nat
    <2> DEFINE d == t \div Length[p]
               l == Length[p]
    <2>1. d \in Nat /\ l \in Nat BY <1>1, <1>2
    <2>2. StartOf(p, t) = l * d BY DEF StartOf
    <2> HIDE DEF d, l
    <2>3. QED BY <2>1, <2>2
  <1>4. QED BY <1>1, <1>3 DEF EndOf

\* The sum of a window is a natural number: there is a function with the partial sums, as
\* there is one up to every number that has one up to the number before.
LEMMA ActualNat ==
    ASSUME spent \in [Time -> Nat], NEW b, NEW t
    PROVE  Actual(b, t) \in Nat
  <1> DEFINE N == MaxTime + 1
             Part(u) == IF u \in Window(b, t) THEN spent[u] ELSE 0
             Adds(f, u) == f[u] = IF u = 0 THEN 0 ELSE f[u - 1] + Part(u - 1)
             Sums(k) == {f \in [0..k -> Nat] : \A u \in 0..k : Adds(f, u)}
             F(f) == [u \in 0..N |-> IF u = 0 THEN 0 ELSE f[u - 1] + Part(u - 1)]
             before == CHOOSE f : f = F(f)
  <1>1. N \in Nat /\ \A u \in 0..N : u # 0 => u - 1 \in Time
    BY BudgetsAssumption DEF Time
  <1>2. \A u \in Time : Part(u) \in Nat
    OBVIOUS
  <1>3. Actual(b, t) = before[N]
    BY DEF Actual
  <1> HIDE DEF N, Part
  <1>4. Sums(N) # {}
    <2> DEFINE Wrong == {k \in Nat : k \in 0..N /\ Sums(k) = {}}
    <2>1. Wrong = {}
      <3> SUFFICES ASSUME Wrong # {} PROVE FALSE
        OBVIOUS
      <3>1. PICK k \in Wrong : \A x \in Wrong : ~(<<x, k>> \in OpToRel(<, Nat))
        <4> HIDE DEF Sums
        <4> QED BY NatLessThanWellFounded, WFMin
      <3>2. \A x \in Wrong : ~(x < k)
        <4> HIDE DEF Sums
        <4> QED BY <3>1 DEF OpToRel
      <3>3. k # 0
        <4>1. [u \in 0..0 |-> 0] \in Sums(0)
          OBVIOUS
        <4> QED BY <4>1
      <3>4. k - 1 \in Nat /\ k - 1 \in 0..N /\ k - 1 < k /\ k \in 0..N
        BY <1>1, <3>3
      <3>5. PICK f \in [0..(k - 1) -> Nat] : \A u \in 0..(k - 1) : Adds(f, u)
        BY <3>2, <3>4
      <3> DEFINE g == [u \in 0..k |-> IF u = k THEN f[k - 1] + Part(k - 1) ELSE f[u]]
      <3>6. f[k - 1] + Part(k - 1) \in Nat
        BY <1>1, <1>2, <3>3, <3>4
      <3>7. g \in [0..k -> Nat]
        BY <3>4, <3>6
      <3>8. \A u \in 0..k : Adds(g, u)
        BY <3>3, <3>4, <3>5
      <3>9. g \in Sums(k)
        BY <3>7, <3>8
      <3> QED BY <3>9
    <2> QED BY <1>1, <2>1
  <1>5. PICK f \in [0..N -> Nat] : \A u \in 0..N : Adds(f, u)
    BY <1>4
  <1>6. f = F(f)
    BY <1>5
  <1>7. before = F(before)
    BY <1>6
  <1> HIDE DEF before
  <1>8. \A u \in 0..N : before[u] = IF u = 0 THEN 0 ELSE before[u - 1] + Part(u - 1)
    BY <1>7
  <1> DEFINE Off == {u \in Nat : u \in 0..N /\ before[u] \notin Nat}
  <1>9. Off = {}
    <2> SUFFICES ASSUME Off # {} PROVE FALSE
      OBVIOUS
    <2>1. PICK u \in Off : \A x \in Off : ~(<<x, u>> \in OpToRel(<, Nat))
      BY NatLessThanWellFounded, WFMin
    <2>2. \A x \in Off : ~(x < u)
      BY <2>1 DEF OpToRel
    <2>3. u # 0
      BY <1>8
    <2>4. u - 1 \in Nat /\ u - 1 \in 0..N /\ u - 1 < u
      BY <1>1, <2>3
    <2>5. before[u - 1] \in Nat
      BY <2>2, <2>4
    <2> QED BY <1>1, <1>2, <1>8, <2>3, <2>5
  <1> QED BY <1>1, <1>3, <1>9

-----------------------------------------------------------------------------
(* The invariant                                                           *)

Kinds == Single \cup Listings \cup {"bulkDelete", "create", None}
Steps == {"idle", "load", "list", "save", "reload", "sum", "insert", "each"} \cup Over
Ids == Stored \cup Requests

Job == [kind : Kinds, step : Steps, budget : Ids \cup {None}, seen : Budget \cup {None},
        doc : Budget \cup {None}, todo : SUBSET Ids, alerts : SUBSET Ids, actual : Nat,
        began : Time, ended : Time]

TypeOK ==
    /\ DOMAIN budgets \subseteq Ids /\ \A i \in DOMAIN budgets : budgets[i] \in Budget
    /\ spent \in [Time -> Nat] /\ now \in Time
    /\ job \in [Requests -> Job] /\ past \in [Requests -> SUBSET Requests]

\* What was over when a request arrived stays over.
PastOver == \A q, r \in Requests : r \in past[q] => job[r].step \in Over

\* A budget comes from the start, or from a creation or a rollover that is over.
Made(q) == q \in DOMAIN budgets => job[q].step = "ok" /\ job[q].kind \in {"create", "rollover"}

\* A rollover has made the successor.
RolledOver(q) == job[q].kind = "rollover" /\ q \in DOMAIN budgets

\* What a request holds of the budget it is about.
Holds(q) ==
    /\ job[q].step = "idle" => job[q].budget = None
    /\ job[q].step # "idle" /\ job[q].kind \in Single => job[q].budget \in DOMAIN budgets
    /\ At(q, {"update", "remove"}, "save") => job[q].seen \in Budget /\ job[q].doc \in Budget
    /\ At(q, {"update"}, "save") => job[q].doc.deleted = job[q].seen.deleted
    /\ At(q, {"remove"}, "save") => /\ job[q].doc.deleted
                                    /\ job[q].doc.amount = job[q].seen.amount
                                    /\ job[q].doc.start = job[q].seen.start
    /\ job[q].kind = "rollover" /\ (job[q].step \in {"reload", "sum", "insert"} \/ RolledOver(q))
       => job[q].seen \in Budget
    /\ job[q].kind = "rollover" /\ (job[q].step \in {"sum", "insert"} \/ RolledOver(q))
       => job[q].doc \in Budget

\* The budget of a rollover was updated by a request that overlapped.
Updated(q) ==
    \E r \in Requests : /\ Overlap(q, r) /\ job[r].kind = "update" /\ job[r].step = "ok"
                        /\ job[r].budget = job[q].budget

\* The amount of the first load is that of the second, and what is spent is less, unless the
\* budget was updated; the successor starts as it was made, unless it was updated.
Carries(q) ==
    /\ At(q, {"rollover"}, "reload") =>
          Updated(q) \/ budgets[job[q].budget].amount = job[q].seen.amount
    /\ At(q, {"rollover"}, "sum") => Updated(q) \/ job[q].doc.amount = job[q].seen.amount
    /\ At(q, {"rollover"}, "insert") \/ RolledOver(q) =>
          /\ Updated(q) \/ job[q].doc.amount = job[q].seen.amount
          /\ job[q].actual < job[q].doc.amount
    /\ RolledOver(q) =>
          \/ budgets[q].start = NextStart(job[q].seen, job[q].ended)
          \/ \E r \in Requests : job[r].kind = "update" /\ job[r].step = "ok" /\ job[r].budget = q

\* A budget was deleted by a request that overlapped.
Deleted(q, i) ==
    \E r \in Requests : /\ Overlap(q, r) /\ job[r].kind \in {"remove", "bulkDelete"}
                        /\ job[r].step \in Over /\ Concerns(r, i)

\* What a listing has still to load was there when it was listed.
Lists(q) ==
    /\ At(q, Listings, "each") => \A i \in job[q].todo :
          i \in DOMAIN budgets /\ (budgets[i].deleted => Deleted(q, i))
    /\ At(q, Listings, "refused") =>
          \E i \in DOMAIN budgets : budgets[i].deleted /\ Deleted(q, i)

Inv ==
    /\ TypeOK /\ PastOver
    /\ \A q \in Requests : Made(q) /\ Holds(q) /\ Carries(q) /\ Lists(q)

-----------------------------------------------------------------------------
(* A step of one request                                                   *)

\* What a step of q leaves of the other requests and of the budgets.
Calm(q) ==
    /\ \A r \in Requests \ {q} : job'[r] = job[r] /\ past'[r] = past[r]
    /\ job[q].step \notin Over /\ job'[q].step # "idle"
    /\ IF job[q].step = "idle" THEN past'[q] = {r \in Requests : job[r].step \in Over}
       ELSE /\ past'[q] = past[q]
            /\ job'[q].kind = job[q].kind /\ job'[q].budget = job[q].budget
    /\ DOMAIN budgets \subseteq DOMAIN budgets'
    /\ \A i \in DOMAIN budgets' \ DOMAIN budgets : i = q
    /\ \A i \in DOMAIN budgets :
          /\ budgets[i].deleted => budgets'[i].deleted
          /\ \/ budgets'[i].deleted => budgets[i].deleted
             \/ /\ job[q].kind \in {"remove", "bulkDelete"} /\ job[q].step # "idle"
                /\ job'[q].step \in Over /\ Concerns(q, i)' /\ q # i
          /\ \/ budgets'[i].amount = budgets[i].amount /\ budgets'[i].start = budgets[i].start
             \/ At(q, {"update"}, "save") /\ job[q].budget = i /\ job'[q].step = "ok"

\* A request that stays as it is, but for its job.
LEMMA QuietIsCalm ==
    ASSUME NEW q \in Requests, TypeOK, UNCHANGED <<budgets, past>>,
           \A r \in Requests \ {q} : job'[r] = job[r],
           job[q].step \notin Over \cup {"idle"}, job'[q].step # "idle",
           job'[q].kind = job[q].kind, job'[q].budget = job[q].budget
    PROVE  Calm(q)
  BY DEF Calm

LEMMA ArriveIsCalm ==
    ASSUME NEW q \in Requests, TypeOK, Arrive(q)
    PROVE  TypeOK' /\ Calm(q)
  <1>1. PICK r \in Job, s \in {"load", "list"} : Arrives(q, r, s)
    <2>0. Idle \in Job
      BY BudgetsAssumption DEF Idle, Job, Kinds, Steps, Time
    <2>1. \A kind \in Kinds, b \in Ids : [Idle EXCEPT !.kind = kind, !.budget = b] \in Job
      BY <2>0 DEF Job
    <2>2. \A kind \in Kinds : [Idle EXCEPT !.kind = kind] \in Job
      BY <2>0 DEF Job
    <2>3. \A ids \in SUBSET Ids : [Idle EXCEPT !.kind = "bulkDelete", !.todo = ids] \in Job
      <3>1. "bulkDelete" \in Kinds
        BY DEF Kinds
      <3> QED BY <2>0, <3>1 DEF Job
    <2>4. CASE \E kind \in Single, b \in DOMAIN budgets :
                  Arrives(q, [Idle EXCEPT !.kind = kind, !.budget = b], "load")
      BY <2>1, <2>4 DEF TypeOK, Kinds
    <2>5. CASE \E kind \in Listings : Arrives(q, [Idle EXCEPT !.kind = kind], "list")
      BY <2>2, <2>5 DEF TypeOK, Kinds
    <2>6. CASE \E ids \in (SUBSET DOMAIN budgets) \ {{}} :
                  Arrives(q, [Idle EXCEPT !.kind = "bulkDelete", !.todo = ids], "list")
      BY <2>3, <2>6 DEF TypeOK, Kinds
    <2> QED BY <2>4, <2>5, <2>6 DEF Arrive
  <1> DEFINE new == [r EXCEPT !.step = s, !.began = now]
  <1>2. new \in Job /\ new.step = s
    BY DEF Job, Steps, TypeOK
  <1>3. job' = [job EXCEPT ![q] = new]
    BY <1>1 DEF Arrives
  <1> HIDE DEF new
  <1>4. job[q].step = "idle"
    BY <1>1 DEF Arrives, Idle
  <1>5. TypeOK'
    BY <1>1, <1>2, <1>3 DEF TypeOK, Arrives
  <1>6. Calm(q)
    BY <1>1, <1>2, <1>3, <1>4 DEF TypeOK, Arrives, Calm, Over
  <1> QED BY <1>5, <1>6

\* A new document leaves the others alone.
LEMMA AddedIs ==
    ASSUME NEW q \in Requests, NEW b \in Budget, TypeOK, q \notin DOMAIN budgets
    PROVE  /\ DOMAIN Added(q, b) = DOMAIN budgets \cup {q}
           /\ Added(q, b)[q] = b
           /\ \A i \in DOMAIN budgets : Added(q, b)[i] = budgets[i]
  BY DEF Added

LEMMA CreateIsCalm ==
    ASSUME NEW q \in Requests, TypeOK, Made(q), Create(q)
    PROVE  TypeOK' /\ Calm(q) /\ q \in DOMAIN budgets' /\ At(q, {"create"}, "ok")'
  <1>1. job[q].step = "idle"
    BY DEF Create, Idle
  <1>2. q \notin DOMAIN budgets
    BY <1>1 DEF Made
  <1>3. PICK b \in Budget : budgets' = Added(q, b)
    <2>1. \A a \in Amounts, p \in Periods, s \in Dates, e \in Dates \cup {Never}, r \in BOOLEAN :
             [deleted |-> FALSE, amount |-> a, start |-> s, end |-> e, period |-> p,
              rollover |-> r] \in Budget
      BY BudgetsAssumption DEF Budget, Never
    <2> QED BY <2>1 DEF Create
  <1>4. /\ DOMAIN budgets' = DOMAIN budgets \cup {q}
        /\ budgets'[q] = b
        /\ \A i \in DOMAIN budgets : budgets'[i] = budgets[i]
    BY <1>2, <1>3, AddedIs
  <1>5. /\ job' = [job EXCEPT ![q].kind = "create", ![q].step = "ok"]
        /\ past' = [past EXCEPT ![q] = {r \in Requests : job[r].step \in Over}]
        /\ UNCHANGED <<spent, now>>
    BY DEF Create
  <1>6. /\ job' \in [Requests -> Job]
        /\ job'[q].kind = "create" /\ job'[q].step = "ok"
        /\ \A r \in Requests \ {q} : job'[r] = job[r]
    <2> DEFINE new == [job[q] EXCEPT !.kind = "create", !.step = "ok"]
    <2>1. job[q] \in Job /\ "create" \in Kinds /\ "ok" \in Steps
      BY DEF TypeOK, Kinds, Steps, Over
    <2>2. new \in Job /\ new.kind = "create" /\ new.step = "ok"
      BY <2>1 DEF Job
    <2>3. job' = [job EXCEPT ![q] = new]
      BY <1>5, <2>1
    <2> HIDE DEF new
    <2> QED BY <2>2, <2>3 DEF TypeOK
  <1>7. TypeOK'
    BY <1>4, <1>5, <1>6 DEF TypeOK, Ids
  <1>8. Calm(q)
    BY <1>1, <1>4, <1>5, <1>6 DEF TypeOK, Calm, Over
  <1> QED BY <1>4, <1>6, <1>7, <1>8 DEF At

\* A step that only moves a request on.
LEMMA Moves ==
    ASSUME NEW q \in Requests, NEW new \in Job, TypeOK, job' = [job EXCEPT ![q] = new],
           UNCHANGED <<spent, now, past>>,
           DOMAIN budgets' \subseteq Ids, \A i \in DOMAIN budgets' : budgets'[i] \in Budget
    PROVE  TypeOK' /\ job'[q] = new /\ \A r \in Requests \ {q} : job'[r] = job[r]
  BY DEF TypeOK

\* Go changes the step alone.
LEMMA Goes ==
    ASSUME NEW q \in Requests, NEW s \in Steps, TypeOK, Go(q, s)
    PROVE  \E new \in Job : /\ job' = [job EXCEPT ![q] = new]
                            /\ new = [job[q] EXCEPT !.step = s]
  <1> DEFINE new == [job[q] EXCEPT !.step = s]
  <1>1. new \in Job BY DEF TypeOK, Job
  <1>2. job' = [job EXCEPT ![q] = new] BY DEF Go
  <1> QED BY <1>1, <1>2

\* Every update of a document is a document that is not deleted by it.
LEMMA UpdatesAre ==
    ASSUME NEW b \in Budget, NEW d \in Updates(b)
    PROVE  d \in Budget /\ d.deleted = b.deleted
  <1>1. Dates \subseteq Nat /\ Never \in Nat /\ Amounts \subseteq Nat
    BY BudgetsAssumption DEF Never
  <1> DEFINE Fits(x) == x \in Budget /\ x.deleted = b.deleted
             starts == {s \in Dates : ValidSpan(s, b.end)}
             both == {y \in {Dated(b, s, e) : s \in Dates, e \in Dates} : ValidSpan(y.start, y.end)}
             start == {Dated(b, s, e) : s \in starts, e \in {b.end, Never}}
             end == {Dated(b, b.start, e) : e \in Dates \cup {Never}}
             dated == both \cup start \cup end \cup {b}
  <1>2. \A s, e \in Nat : Fits(Dated(b, s, e))
    BY DEF Dated, Budget
  <1>3. b.start \in Nat /\ b.end \in Nat /\ b.amount \in Nat
    BY DEF Budget
  <1>4. \A x \in dated : x = b \/ \E s, e \in Nat : x = Dated(b, s, e)
    BY <1>1, <1>3
  <1>5. \A x \in dated : Fits(x)
    BY <1>2, <1>4
  <1>6. d \in {Planned(x, a, p, r) : x \in dated, a \in Amounts \cup {b.amount},
                                     p \in Periods, r \in BOOLEAN}
    BY DEF Updates
  <1> HIDE DEF dated
  <1>7. PICK x \in dated, a \in Amounts \cup {b.amount}, p \in Periods, r \in BOOLEAN :
             d = Planned(x, a, p, r)
    BY <1>6
  <1> QED BY <1>1, <1>3, <1>5, <1>7 DEF Budget, Planned

LEMMA LoadStep ==
    ASSUME NEW q \in Requests, Inv, Load(q)
    PROVE  TypeOK' /\ Calm(q) /\ Made(q)' /\ Holds(q)' /\ Carries(q)' /\ Lists(q)'
  <1> DEFINE i == job[q].budget
  <1>1. /\ At(q, {"update", "remove"}, "load") /\ UNCHANGED <<budgets, spent, now, past>>
        /\ TypeOK /\ job[q] \in Job /\ q \notin DOMAIN budgets
    BY DEF Load, Inv, TypeOK, Made, At
  <1>2. i \in DOMAIN budgets
    BY <1>1 DEF Inv, Holds, At, Single
  <1>3. CASE ~Live(i)
    <2>1. PICK new \in Job : job' = [job EXCEPT ![q] = new] /\ new = [job[q] EXCEPT !.step = "refused"]
      BY <1>1, <1>3, Goes DEF Load, Steps, Over
    <2>2. TypeOK' /\ job'[q] = new /\ \A r \in Requests \ {q} : job'[r] = job[r]
      BY <1>1, <2>1, Moves DEF TypeOK
    <2>3. new.step = "refused" /\ new.kind = job[q].kind /\ new.budget = i
      BY <1>1, <2>1 DEF Job
    <2>4. Calm(q)
      BY <1>1, <2>2, <2>3 DEF Calm, Over, At
    <2> QED BY <1>1, <1>2, <2>2, <2>3, <2>4 DEF Made, Holds, Carries, Lists, RolledOver, At, Single, Listings
  <1>4. CASE Live(i)
    <2> DEFINE b == budgets[i]
    <2>1. b \in Budget
      BY <1>1, <1>2 DEF TypeOK
    <2>2. PICK d : /\ d \in IF job[q].kind = "update" THEN Updates(b) ELSE {[b EXCEPT !.deleted = TRUE]}
                   /\ job' = [job EXCEPT ![q].seen = b, ![q].doc = d, ![q].step = "save"]
      BY <1>4 DEF Load
    <2>3. /\ d \in Budget
          /\ job[q].kind = "update" => d.deleted = b.deleted
          /\ job[q].kind # "update" => d.deleted /\ d.amount = b.amount /\ d.start = b.start
      <3>1. CASE job[q].kind = "update"
        BY <2>1, <2>2, <3>1, UpdatesAre
      <3>2. CASE job[q].kind # "update"
        BY <2>1, <2>2, <3>2 DEF Budget
      <3> QED BY <3>1, <3>2
    <2> DEFINE new == [job[q] EXCEPT !.seen = b, !.doc = d, !.step = "save"]
    <2> HIDE DEF b
    <2>4. /\ new \in Job /\ new.step = "save" /\ new.kind = job[q].kind /\ new.budget = i
          /\ new.seen = b /\ new.doc = d
      <3>1. "save" \in Steps BY DEF Steps
      <3> QED BY <1>1, <2>1, <2>3, <3>1 DEF Job
    <2>5. job' = [job EXCEPT ![q] = new]
      BY <1>1, <2>2
    <2> HIDE DEF new
    <2>6. TypeOK' /\ job'[q] = new /\ \A r \in Requests \ {q} : job'[r] = job[r]
      BY <1>1, <2>4, <2>5, Moves DEF TypeOK
    <2>7. Calm(q)
      BY <1>1, <2>4, <2>6 DEF Calm, Over, At
    <2> QED BY <1>1, <1>2, <2>1, <2>3, <2>4, <2>6, <2>7
            DEF Made, Holds, Carries, Lists, RolledOver, At, Single, Listings
  <1> QED BY <1>3, <1>4

LEMMA SavedIs ==
    ASSUME NEW new \in Budget, NEW seen \in Budget, NEW old \in Budget, NEW b,
           b = Saved(new, seen, old)
    PROVE  /\ b \in Budget
           /\ b.deleted = IF new.deleted = seen.deleted THEN old.deleted ELSE new.deleted
           /\ new.amount = seen.amount => b.amount = old.amount
           /\ new.start = seen.start => b.start = old.start
  <1>1. DOMAIN old = {"deleted", "amount", "start", "end", "period", "rollover"}
    BY DEF Budget
  <1>2. b = [f \in {"deleted", "amount", "start", "end", "period", "rollover"} |->
                IF new[f] = seen[f] THEN old[f] ELSE new[f]]
    BY <1>1 DEF Saved
  <1> QED BY <1>2 DEF Budget

LEMMA SaveStep ==
    ASSUME NEW q \in Requests, Inv, Save(q)
    PROVE  TypeOK' /\ Calm(q) /\ Made(q)' /\ Holds(q)' /\ Carries(q)' /\ Lists(q)'
  <1> DEFINE i == job[q].budget
             b == Saved(job[q].doc, job[q].seen, budgets[i])
  <1>1. /\ At(q, {"update", "remove"}, "save") /\ UNCHANGED <<spent, now, past>>
        /\ TypeOK /\ job[q] \in Job /\ q \notin DOMAIN budgets
    BY DEF Save, Inv, TypeOK, Made, At
  <1>2. /\ i \in DOMAIN budgets /\ job[q].doc \in Budget /\ job[q].seen \in Budget
        /\ budgets[i] \in Budget
    BY <1>1 DEF Inv, Holds, At, Single, TypeOK
  <1>3. /\ b \in Budget
        /\ b.deleted = IF job[q].doc.deleted = job[q].seen.deleted THEN budgets[i].deleted
                       ELSE job[q].doc.deleted
        /\ job[q].doc.amount = job[q].seen.amount => b.amount = budgets[i].amount
        /\ job[q].doc.start = job[q].seen.start => b.start = budgets[i].start
    BY <1>2, SavedIs
  <1>4. budgets' = [budgets EXCEPT ![i] = b]
    BY <1>2 DEF Save
  <1> HIDE DEF b
  <1>5. PICK new \in Job : job' = [job EXCEPT ![q] = new] /\ new = [job[q] EXCEPT !.step = "ok"]
    BY <1>1, Goes DEF Save, Steps, Over
  <1>6. DOMAIN budgets' = DOMAIN budgets /\ \A k \in DOMAIN budgets : budgets'[k] \in Budget
    BY <1>1, <1>2, <1>3, <1>4 DEF TypeOK
  <1>7. TypeOK' /\ job'[q] = new /\ \A r \in Requests \ {q} : job'[r] = job[r]
    <2>1. DOMAIN budgets' \subseteq Ids
      BY <1>1, <1>6 DEF TypeOK
    <2> QED BY <1>1, <1>5, <1>6, <2>1, Moves
  <1>8. new.step = "ok" /\ new.kind = job[q].kind /\ new.budget = i
    BY <1>1, <1>5 DEF Job
  <1>9. Calm(q)
    <2>1. q # i
      BY <1>1, <1>2
    <2>2. /\ budgets[i].deleted => budgets'[i].deleted
          /\ budgets'[i].deleted /\ ~budgets[i].deleted => job[q].kind = "remove"
      <3>1. job[q].kind \in {"update", "remove"}
        BY <1>1 DEF At
      <3>2. job[q].kind = "update" => job[q].doc.deleted = job[q].seen.deleted
        BY <1>1 DEF Inv, Holds, At
      <3>3. job[q].doc.deleted = job[q].seen.deleted \/ job[q].doc.deleted
        BY <1>1 DEF Inv, Holds, At
      <3> QED BY <1>2, <1>3, <1>4, <3>1, <3>2, <3>3 DEF Budget
    <2>3. \/ budgets'[i].amount = budgets[i].amount /\ budgets'[i].start = budgets[i].start
          \/ At(q, {"update"}, "save")
      BY <1>1, <1>2, <1>3, <1>4 DEF Inv, Holds, At
    <2>4. \A k \in DOMAIN budgets \ {i} : budgets'[k] = budgets[k]
      BY <1>4
    <2>5. Concerns(q, i)' /\ job[q].step \notin Over \cup {"idle"}
      BY <1>1, <1>7, <1>8 DEF Concerns, At, Over
    <2> QED BY <1>1, <1>6, <1>7, <1>8, <2>1, <2>2, <2>3, <2>4, <2>5 DEF Calm, Over, At
  <1> QED BY <1>1, <1>2, <1>6, <1>7, <1>8, <1>9
          DEF Made, Holds, Carries, Lists, RolledOver, At, Single, Listings

LEMMA FindAllStep ==
    ASSUME NEW q \in Requests, Inv, FindAll(q)
    PROVE  TypeOK' /\ Calm(q) /\ Made(q)' /\ Holds(q)' /\ Carries(q)' /\ Lists(q)'
  <1> DEFINE found == job[q].todo \cap Listed
             step == IF found = {} THEN "refused" ELSE "save"
             new == [job[q] EXCEPT !.todo = found, !.step = step]
  <1>1. /\ At(q, {"bulkDelete"}, "list") /\ UNCHANGED <<budgets, spent, now, past>>
        /\ TypeOK /\ job[q] \in Job /\ q \notin DOMAIN budgets
    BY DEF FindAll, Inv, TypeOK, Made, At
  <1>2. found \in SUBSET Ids /\ step \in Steps \ {"idle"}
    BY <1>1 DEF Job, Steps, Over
  <1>3. job' = [job EXCEPT ![q] = new]
    BY <1>1 DEF FindAll
  <1> HIDE DEF found, step
  <1>4. new \in Job /\ new.step = step /\ new.kind = job[q].kind /\ new.budget = job[q].budget
    BY <1>1, <1>2 DEF Job
  <1> HIDE DEF new
  <1>5. TypeOK' /\ job'[q] = new /\ \A r \in Requests \ {q} : job'[r] = job[r]
    BY <1>1, <1>3, <1>4, Moves DEF TypeOK
  <1>6. Calm(q)
    BY <1>1, <1>2, <1>4, <1>5, QuietIsCalm DEF At, Over
  <1> QED BY <1>1, <1>2, <1>4, <1>5, <1>6
          DEF Made, Holds, Carries, Lists, RolledOver, At, Single, Listings

LEMMA DeleteAllStep ==
    ASSUME NEW q \in Requests, Inv, DeleteAll(q)
    PROVE  TypeOK' /\ Calm(q) /\ Made(q)' /\ Holds(q)' /\ Carries(q)' /\ Lists(q)'
  <1>1. /\ At(q, {"bulkDelete"}, "save") /\ UNCHANGED <<spent, now, past>>
        /\ TypeOK /\ job[q] \in Job /\ q \notin DOMAIN budgets
    BY DEF DeleteAll, Inv, TypeOK, Made, At
  <1>2. DOMAIN budgets' = DOMAIN budgets
    BY DEF DeleteAll
  <1>3. \A i \in DOMAIN budgets :
           /\ budgets'[i] \in Budget
           /\ i \notin job[q].todo => budgets'[i] = budgets[i]
           /\ i \in job[q].todo => budgets'[i].deleted
           /\ budgets'[i].amount = budgets[i].amount /\ budgets'[i].start = budgets[i].start
    <2> TAKE i \in DOMAIN budgets
    <2>1. budgets[i] \in Budget
      BY <1>1 DEF TypeOK
    <2>2. budgets'[i] = IF i \in job[q].todo THEN [budgets[i] EXCEPT !.deleted = TRUE] ELSE budgets[i]
      BY DEF DeleteAll
    <2>3. CASE i \in job[q].todo BY <2>1, <2>2, <2>3 DEF Budget
    <2>4. CASE i \notin job[q].todo BY <2>1, <2>2, <2>4
    <2> QED BY <2>3, <2>4
  <1>4. PICK new \in Job : job' = [job EXCEPT ![q] = new] /\ new = [job[q] EXCEPT !.step = "ok"]
    BY <1>1, Goes DEF DeleteAll, Steps, Over
  <1>5. TypeOK' /\ job'[q] = new /\ \A r \in Requests \ {q} : job'[r] = job[r]
    <2>1. DOMAIN budgets' \subseteq Ids
      BY <1>1, <1>2 DEF TypeOK
    <2> QED BY <1>1, <1>2, <1>3, <1>4, <2>1, Moves
  <1>6. /\ new.step = "ok" /\ new.kind = job[q].kind /\ new.budget = job[q].budget
        /\ new.todo = job[q].todo
    BY <1>1, <1>4 DEF Job
  <1>7. Calm(q)
    <2>1. \A i \in job[q].todo : Concerns(q, i)'
      BY <1>5, <1>6 DEF Concerns
    <2>2. job[q].step = "save" /\ job[q].kind = "bulkDelete"
      BY <1>1 DEF At
    <2>3. ASSUME NEW i \in DOMAIN budgets
          PROVE  /\ budgets[i].deleted => budgets'[i].deleted
                 /\ \/ budgets'[i].deleted => budgets[i].deleted
                    \/ Concerns(q, i)' /\ q # i
      BY <1>1, <1>3, <2>1
    <2> QED BY <1>1, <1>2, <1>3, <1>5, <1>6, <2>2, <2>3 DEF Calm, Over
  <1> QED BY <1>1, <1>2, <1>5, <1>6, <1>7
          DEF Made, Holds, Carries, Lists, RolledOver, At, Single, Listings

LEMMA FindForRolloverStep ==
    ASSUME NEW q \in Requests, Inv, FindForRollover(q)
    PROVE  TypeOK' /\ Calm(q) /\ Made(q)' /\ Holds(q)' /\ Carries(q)' /\ Lists(q)'
  <1> DEFINE i == job[q].budget
             b == budgets[i]
  <1>1. /\ At(q, {"rollover"}, "load") /\ UNCHANGED <<budgets, spent, now, past>>
        /\ TypeOK /\ job[q] \in Job /\ q \notin DOMAIN budgets
    BY DEF FindForRollover, Inv, TypeOK, Made, At
  <1>2. i \in DOMAIN budgets /\ b \in Budget
    BY <1>1 DEF Inv, Holds, At, Single, TypeOK
  <1>3. PICK new \in Job :
           /\ job' = [job EXCEPT ![q] = new]
           /\ new.kind = "rollover" /\ new.budget = i
           /\ new.step \in Over \/ (new.step = "reload" /\ new.seen = b)
    <2>1. CASE Go(q, "refused") \/ Go(q, "ok")
      <3>1. PICK s \in Over : Go(q, s)
        BY <2>1 DEF Over
      <3>2. PICK new \in Job : job' = [job EXCEPT ![q] = new] /\ new = [job[q] EXCEPT !.step = s]
        BY <1>1, <3>1, Goes DEF Steps
      <3>3. new.kind = "rollover" /\ new.budget = i /\ new.step \in Over
        BY <1>1, <3>1, <3>2 DEF Job, At
      <3> QED BY <3>2, <3>3
    <2>2. CASE job' = [job EXCEPT ![q].seen = b, ![q].step = "reload"]
      <3> DEFINE new == [job[q] EXCEPT !.seen = b, !.step = "reload"]
      <3>1. "reload" \in Steps BY DEF Steps
      <3>2. job' = [job EXCEPT ![q] = new]
        BY <1>1, <2>2
      <3> HIDE DEF b
      <3>3. new \in Job /\ new.kind = "rollover" /\ new.budget = i /\ new.step = "reload" /\ new.seen = b
        BY <1>1, <1>2, <3>1 DEF Job, At
      <3> HIDE DEF new
      <3> QED BY <3>2, <3>3
    <2> QED BY <2>1, <2>2 DEF FindForRollover
  <1>4. TypeOK' /\ job'[q] = new /\ \A r \in Requests \ {q} : job'[r] = job[r]
    BY <1>1, <1>3, Moves DEF TypeOK
  <1>5. Calm(q)
    BY <1>1, <1>3, <1>4, QuietIsCalm DEF At, Over
  <1> QED BY <1>1, <1>2, <1>3, <1>4, <1>5
          DEF Made, Holds, Carries, Lists, RolledOver, At, Single, Listings, Over

LEMMA ReloadStep ==
    ASSUME NEW q \in Requests, Inv, Reload(q)
    PROVE  TypeOK' /\ Calm(q) /\ Made(q)' /\ Holds(q)' /\ Carries(q)' /\ Lists(q)'
  <1> DEFINE i == job[q].budget
             b == budgets[i]
  <1>1. /\ At(q, {"rollover"}, "reload") /\ UNCHANGED <<budgets, spent, now, past>>
        /\ TypeOK /\ job[q] \in Job /\ q \notin DOMAIN budgets
    BY DEF Reload, Inv, TypeOK, Made, At
  <1>2. /\ i \in DOMAIN budgets /\ b \in Budget /\ job[q].seen \in Budget
        /\ Updated(q) \/ b.amount = job[q].seen.amount
    BY <1>1 DEF Inv, Holds, Carries, At, Single, TypeOK
  <1>3. PICK new \in Job :
           /\ job' = [job EXCEPT ![q] = new]
           /\ new.kind = "rollover" /\ new.budget = i /\ new.seen = job[q].seen
           /\ new.step = "refused" \/ (new.step = "sum" /\ new.doc = b)
    <2>1. CASE Go(q, "refused")
      <3>1. PICK new \in Job : job' = [job EXCEPT ![q] = new] /\ new = [job[q] EXCEPT !.step = "refused"]
        BY <1>1, <2>1, Goes DEF Steps, Over
      <3>2. /\ new.kind = "rollover" /\ new.budget = i /\ new.seen = job[q].seen
            /\ new.step = "refused"
        BY <1>1, <3>1 DEF Job, At
      <3> QED BY <3>1, <3>2
    <2>2. CASE job' = [job EXCEPT ![q].doc = b, ![q].ended = now, ![q].step = "sum"]
      <3> DEFINE new == [job[q] EXCEPT !.doc = b, !.ended = now, !.step = "sum"]
      <3>1. "sum" \in Steps /\ now \in Time BY <1>1 DEF Steps, TypeOK
      <3>2. job' = [job EXCEPT ![q] = new]
        BY <1>1, <2>2
      <3> HIDE DEF b
      <3>3. /\ new \in Job /\ new.kind = "rollover" /\ new.budget = i /\ new.step = "sum"
            /\ new.doc = b /\ new.seen = job[q].seen
        BY <1>1, <1>2, <3>1 DEF Job, At
      <3> HIDE DEF new
      <3> QED BY <3>2, <3>3
    <2> QED BY <2>1, <2>2 DEF Reload
  <1>4. TypeOK' /\ job'[q] = new /\ \A r \in Requests \ {q} : job'[r] = job[r]
    BY <1>1, <1>3, Moves DEF TypeOK
  <1>5. Calm(q)
    BY <1>1, <1>3, <1>4, QuietIsCalm DEF At, Over
  <1>6. Updated(q) => Updated(q)'
    BY <1>1, <1>3, <1>4 DEF Updated, Overlap
  <1> QED BY <1>1, <1>2, <1>3, <1>4, <1>5, <1>6
          DEF Made, Holds, Carries, Lists, RolledOver, At, Single, Listings, Over

LEMMA SumStep ==
    ASSUME NEW q \in Requests, Inv, Sum(q)
    PROVE  TypeOK' /\ Calm(q) /\ Made(q)' /\ Holds(q)' /\ Carries(q)' /\ Lists(q)'
  <1> DEFINE actual == Actual(job[q].doc, job[q].ended)
             step == IF actual < job[q].doc.amount THEN "insert" ELSE "ok"
             new == [job[q] EXCEPT !.actual = actual, !.step = step]
  <1>1. /\ At(q, {"rollover"}, "sum") /\ UNCHANGED <<budgets, spent, now, past>>
        /\ TypeOK /\ job[q] \in Job /\ q \notin DOMAIN budgets
    BY DEF Sum, Inv, TypeOK, Made, At
  <1>2. /\ job[q].budget \in DOMAIN budgets /\ job[q].doc \in Budget /\ job[q].seen \in Budget
        /\ Updated(q) \/ job[q].doc.amount = job[q].seen.amount
    BY <1>1 DEF Inv, Holds, Carries, At, Single
  <1>3. actual \in Nat /\ step \in {"insert", "ok"}
    BY <1>1, ActualNat DEF TypeOK
  <1>4. job' = [job EXCEPT ![q] = new]
    BY <1>1 DEF Sum
  <1>5. step = "insert" => actual < job[q].doc.amount
    OBVIOUS
  <1> HIDE DEF actual, step
  <1>6. /\ new \in Job /\ new.step = step /\ new.kind = "rollover" /\ new.actual = actual
        /\ new.budget = job[q].budget /\ new.seen = job[q].seen /\ new.doc = job[q].doc
    <2>1. step \in Steps BY <1>3 DEF Steps, Over
    <2> QED BY <1>1, <1>3, <2>1 DEF Job, At
  <1> HIDE DEF new
  <1>7. TypeOK' /\ job'[q] = new /\ \A r \in Requests \ {q} : job'[r] = job[r]
    BY <1>1, <1>4, <1>6, Moves DEF TypeOK
  <1>8. Calm(q)
    BY <1>1, <1>3, <1>6, <1>7, QuietIsCalm DEF At, Over
  <1>9. Updated(q) => Updated(q)'
    BY <1>1, <1>6, <1>7 DEF Updated, Overlap
  <1> QED BY <1>1, <1>2, <1>3, <1>5, <1>6, <1>7, <1>8, <1>9
          DEF Made, Holds, Carries, Lists, RolledOver, At, Single, Listings, Over

\* The successor is a budget from the period after the current one.
LEMMA SuccessorIs ==
    ASSUME NEW q \in Requests, TypeOK, job[q].seen \in Budget, job[q].doc \in Budget,
           job[q].actual < job[q].doc.amount
    PROVE  Successor(q) \in Budget /\ Successor(q).start = NextStart(job[q].seen, now)
  <1> DEFINE b == job[q].seen
             start == NextStart(b, now)
             amount == b.amount + (job[q].doc.amount - job[q].actual)
             end == IF b.end = Never THEN Never ELSE Min({b.end, EndOf(b.period, start)})
  <1>1. b.period \in Periods /\ now \in Nat /\ b.end \in Nat
    BY DEF Budget, TypeOK, Time
  <1>2. start \in Nat
    BY <1>1, PeriodsInTime DEF NextStart
  <1>3. amount \in Nat
    <2>1. job[q].actual \in Nat BY DEF TypeOK, Job
    <2> QED BY <2>1 DEF Budget
  <1>4. end \in Nat
    <2>1. EndOf(b.period, start) \in Nat
      BY <1>1, <1>2, PeriodsInTime
    <2> HIDE DEF start
    <2>2. Min({b.end, EndOf(b.period, start)}) \in {b.end, EndOf(b.period, start)}
      BY <1>1, <2>1, MinOfTwo
    <2> QED BY <1>1, <2>1, <2>2
  <1>5. Successor(q) = [b EXCEPT !.amount = amount, !.start = start, !.end = end]
    BY DEF Successor
  <1> HIDE DEF amount, start, end
  <1>6. Successor(q) \in Budget /\ Successor(q).start = start
    BY <1>2, <1>3, <1>4, <1>5 DEF Budget
  <1> QED BY <1>6 DEF start

LEMMA RollOverStep ==
    ASSUME NEW q \in Requests, Inv, RollOver(q)
    PROVE  TypeOK' /\ Calm(q) /\ Made(q)' /\ Holds(q)' /\ Carries(q)' /\ Lists(q)'
  <1>1. /\ At(q, {"rollover"}, "insert") /\ UNCHANGED <<spent, now, past>>
        /\ TypeOK /\ job[q] \in Job /\ q \notin DOMAIN budgets
    BY DEF RollOver, Inv, TypeOK, Made, At
  <1>2. /\ job[q].budget \in DOMAIN budgets /\ job[q].doc \in Budget /\ job[q].seen \in Budget
        /\ Updated(q) \/ job[q].doc.amount = job[q].seen.amount
        /\ job[q].actual < job[q].doc.amount
    BY <1>1 DEF Inv, Holds, Carries, At, Single
  <1>3. CASE Go(q, "ok") /\ UNCHANGED budgets
    <2>1. PICK new \in Job : job' = [job EXCEPT ![q] = new] /\ new = [job[q] EXCEPT !.step = "ok"]
      BY <1>1, <1>3, Goes DEF Steps, Over
    <2>2. new.step = "ok" /\ new.kind = "rollover" /\ new.budget = job[q].budget
      BY <1>1, <2>1 DEF Job, At
    <2>3. TypeOK' /\ job'[q] = new /\ \A r \in Requests \ {q} : job'[r] = job[r]
      BY <1>1, <1>3, <2>1, Moves DEF TypeOK
    <2>4. Calm(q)
      BY <1>1, <1>3, <2>2, <2>3, QuietIsCalm DEF At, Over
    <2> QED BY <1>1, <1>2, <1>3, <2>2, <2>3, <2>4
            DEF Made, Holds, Carries, Lists, RolledOver, At, Single, Listings, Over
  <1>4. CASE /\ budgets' = Added(q, Successor(q))
             /\ job' = [job EXCEPT ![q].step = "ok", ![q].ended = now]
    <2>1. PICK b \in Budget : b = Successor(q) /\ b.start = NextStart(job[q].seen, now)
      BY <1>1, <1>2, SuccessorIs
    <2>2. /\ DOMAIN budgets' = DOMAIN budgets \cup {q}
          /\ budgets'[q] = b
          /\ \A i \in DOMAIN budgets : budgets'[i] = budgets[i]
      BY <1>1, <1>4, <2>1, AddedIs
    <2> DEFINE new == [job[q] EXCEPT !.step = "ok", !.ended = now]
    <2>3. job' = [job EXCEPT ![q] = new]
      BY <1>1, <1>4
    <2>4. /\ new \in Job /\ new.step = "ok" /\ new.kind = "rollover" /\ new.ended = now
          /\ new.budget = job[q].budget /\ new.seen = job[q].seen /\ new.doc = job[q].doc
          /\ new.actual = job[q].actual
      <3>1. "ok" \in Steps /\ now \in Time BY <1>1 DEF Steps, Over, TypeOK
      <3> QED BY <1>1, <3>1 DEF Job, At
    <2> HIDE DEF new
    <2>5. TypeOK' /\ job'[q] = new /\ \A r \in Requests \ {q} : job'[r] = job[r]
      <3>1. DOMAIN budgets' \subseteq Ids /\ \A i \in DOMAIN budgets' : budgets'[i] \in Budget
        BY <1>1, <2>2 DEF TypeOK, Ids
      <3> QED BY <1>1, <2>3, <2>4, <3>1, Moves
    <2>6. Calm(q)
      BY <1>1, <2>2, <2>4, <2>5 DEF Calm, Over, At
    <2>7. Updated(q) => Updated(q)'
      BY <1>1, <2>4, <2>5 DEF Updated, Overlap
    <2>8. NextStart(job[q].seen, now) = NextStart(job'[q].seen, job'[q].ended)
      BY <2>4, <2>5
    <2> QED BY <1>1, <1>2, <2>1, <2>2, <2>4, <2>5, <2>6, <2>7, <2>8
            DEF Made, Holds, Carries, Lists, RolledOver, At, Single, Listings, Over
  <1> QED BY <1>3, <1>4 DEF RollOver

LEMMA ListStep ==
    ASSUME NEW q \in Requests, Inv, List(q)
    PROVE  TypeOK' /\ Calm(q) /\ Made(q)' /\ Holds(q)' /\ Carries(q)' /\ Lists(q)'
  <1> DEFINE new == [job[q] EXCEPT !.todo = Listed, !.step = "each"]
  <1>1. /\ At(q, Listings, "list") /\ UNCHANGED <<budgets, spent, now, past>>
        /\ TypeOK /\ job[q] \in Job /\ q \notin DOMAIN budgets
    BY DEF List, Inv, TypeOK, Made, At
  <1>2. /\ new \in Job /\ new.step = "each" /\ new.kind = job[q].kind
        /\ new.budget = job[q].budget /\ new.todo = Listed
    <2>1. Listed \in SUBSET Ids /\ "each" \in Steps
      BY <1>1 DEF Listed, TypeOK, Steps
    <2> HIDE DEF Listed
    <2> QED BY <1>1, <2>1 DEF Job
  <1>3. job' = [job EXCEPT ![q] = new]
    BY <1>1 DEF List
  <1> HIDE DEF new
  <1>4. TypeOK' /\ job'[q] = new /\ \A r \in Requests \ {q} : job'[r] = job[r]
    BY <1>1, <1>2, <1>3, Moves DEF TypeOK
  <1>5. Calm(q)
    BY <1>1, <1>2, <1>4, QuietIsCalm DEF At, Over
  <1>6. job[q].kind \in {"stats", "alerts"}
    BY <1>1 DEF At, Listings
  <1> QED BY <1>1, <1>2, <1>4, <1>5, <1>6
          DEF Made, Holds, Carries, Lists, RolledOver, At, Single, Listings, Listed, Over

LEMMA StatsOfStep ==
    ASSUME NEW q \in Requests, Inv, StatsOf(q)
    PROVE  TypeOK' /\ Calm(q) /\ Made(q)' /\ Holds(q)' /\ Carries(q)' /\ Lists(q)'
  <1>1. /\ At(q, Listings, "each") /\ UNCHANGED <<budgets, spent, now, past>>
        /\ TypeOK /\ job[q] \in Job /\ q \notin DOMAIN budgets
        /\ job[q].kind \in {"stats", "alerts"}
    BY DEF StatsOf, Inv, TypeOK, Made, At, Listings
  <1>2. PICK i \in job[q].todo :
           IF Live(i)
           THEN job' = [job EXCEPT ![q].todo = @ \ {i}, ![q].alerts =
                           IF Level(budgets[i].amount, Actual(budgets[i], now)) = "none"
                           THEN @ ELSE @ \cup {i}]
           ELSE Go(q, "refused")
    BY DEF StatsOf
  <1>3. \A k \in job[q].todo : k \in DOMAIN budgets /\ (budgets[k].deleted => Deleted(q, k))
    BY <1>1 DEF Inv, Lists
  <1>4. ASSUME NEW new \in Job, job' = [job EXCEPT ![q] = new],
               new.kind = job[q].kind, new.budget = job[q].budget, new.step \in {"each", "refused"}
        PROVE  /\ TypeOK' /\ job'[q] = new /\ \A r \in Requests \ {q} : job'[r] = job[r]
               /\ Calm(q)
               /\ \A k \in Ids : Deleted(q, k) => Deleted(q, k)'
    <2>1. TypeOK' /\ job'[q] = new /\ \A r \in Requests \ {q} : job'[r] = job[r]
      BY <1>1, <1>4, Moves DEF TypeOK
    <2>2. Calm(q)
      BY <1>1, <1>4, <2>1, QuietIsCalm DEF At, Over
    <2>3. ASSUME NEW k \in Ids, Deleted(q, k)
          PROVE  Deleted(q, k)'
      <3>1. PICK r \in Requests : /\ Overlap(q, r) /\ job[r].kind \in {"remove", "bulkDelete"}
                                  /\ job[r].step \in Over /\ Concerns(r, k)
        BY <2>3 DEF Deleted
      <3>2. job'[r] = job[r]
        BY <2>1, <3>1 DEF Overlap
      <3>3. Overlap(q, r)' /\ Concerns(r, k)'
        BY <1>1, <3>1, <3>2 DEF Overlap, Concerns
      <3> QED BY <3>1, <3>2, <3>3 DEF Deleted
    <2> QED BY <2>1, <2>2, <2>3
  <1>5. CASE Live(i)
    <2> DEFINE todo == job[q].todo \ {i}
               alerts == IF Level(budgets[i].amount, Actual(budgets[i], now)) = "none"
                         THEN job[q].alerts ELSE job[q].alerts \cup {i}
               new == [job[q] EXCEPT !.todo = todo, !.alerts = alerts]
    <2>1. todo \in SUBSET Ids /\ alerts \in SUBSET Ids
      BY <1>1 DEF Job
    <2>2. job' = [job EXCEPT ![q] = new]
      BY <1>1, <1>2, <1>5
    <2> HIDE DEF alerts
    <2>3. /\ new \in Job /\ new.kind = job[q].kind /\ new.budget = job[q].budget
          /\ new.step = "each" /\ new.todo = job[q].todo \ {i}
      BY <1>1, <2>1 DEF Job, At
    <2> HIDE DEF new
    <2>4. /\ TypeOK' /\ job'[q] = new /\ Calm(q)
          /\ \A k \in Ids : Deleted(q, k) => Deleted(q, k)'
      BY <1>4, <2>2, <2>3
    <2>5. \A k \in job[q].todo : k \in Ids
      BY <1>1 DEF Job
    <2> QED BY <1>1, <1>3, <2>3, <2>4, <2>5
            DEF Made, Holds, Carries, Lists, RolledOver, At, Single, Listings, Over
  <1>6. CASE ~Live(i)
    <2>1. PICK new \in Job : job' = [job EXCEPT ![q] = new] /\ new = [job[q] EXCEPT !.step = "refused"]
      BY <1>1, <1>2, <1>6, Goes DEF Steps, Over
    <2>2. new.kind = job[q].kind /\ new.budget = job[q].budget /\ new.step = "refused"
      BY <1>1, <2>1 DEF Job
    <2>3. /\ TypeOK' /\ job'[q] = new /\ Calm(q)
          /\ \A k \in Ids : Deleted(q, k) => Deleted(q, k)'
      BY <1>4, <2>1, <2>2
    <2>4. i \in DOMAIN budgets /\ i \in Ids /\ budgets[i].deleted /\ Deleted(q, i)
      BY <1>1, <1>3, <1>6 DEF Live, TypeOK
    <2>5. i \in DOMAIN budgets' /\ budgets'[i].deleted /\ Deleted(q, i)'
      BY <1>1, <2>3, <2>4
    <2> QED BY <1>1, <2>2, <2>3, <2>5
            DEF Made, Holds, Carries, Lists, RolledOver, At, Single, Listings, Over
  <1> QED BY <1>5, <1>6

LEMMA AnswerStep ==
    ASSUME NEW q \in Requests, Inv, Answer(q)
    PROVE  TypeOK' /\ Calm(q) /\ Made(q)' /\ Holds(q)' /\ Carries(q)' /\ Lists(q)'
  <1>1. /\ At(q, Listings, "each") /\ UNCHANGED <<budgets, spent, now, past>>
        /\ TypeOK /\ job[q] \in Job /\ q \notin DOMAIN budgets
        /\ job[q].kind \in {"stats", "alerts"}
    BY DEF Answer, Inv, TypeOK, Made, At, Listings
  <1>2. PICK new \in Job : job' = [job EXCEPT ![q] = new] /\ new = [job[q] EXCEPT !.step = "ok"]
    BY <1>1, Goes DEF Answer, Steps, Over
  <1>3. new.kind = job[q].kind /\ new.budget = job[q].budget /\ new.step = "ok"
    BY <1>1, <1>2 DEF Job
  <1>4. TypeOK' /\ job'[q] = new /\ \A r \in Requests \ {q} : job'[r] = job[r]
    BY <1>1, <1>2, Moves DEF TypeOK
  <1>5. Calm(q)
    BY <1>1, <1>3, <1>4, QuietIsCalm DEF At, Over
  <1> QED BY <1>1, <1>3, <1>4, <1>5
          DEF Made, Holds, Carries, Lists, RolledOver, At, Single, Listings, Over

LEMMA ArriveStep ==
    ASSUME NEW q \in Requests, Inv, Arrive(q)
    PROVE  TypeOK' /\ Calm(q) /\ Made(q)' /\ Holds(q)' /\ Carries(q)' /\ Lists(q)'
  <1>1. TypeOK' /\ Calm(q)
    BY ArriveIsCalm DEF Inv
  <1>2. TypeOK /\ Made(q) /\ job[q].step = "idle" /\ UNCHANGED budgets
    <2>1. TypeOK /\ Made(q)
      BY DEF Inv
    <2>2. \A r, s : Arrives(q, r, s) => job[q] = Idle /\ UNCHANGED budgets
      BY DEF Arrives
    <2>3. \E r, s : Arrives(q, r, s)
      BY DEF Arrive
    <2> QED BY <2>1, <2>2, <2>3 DEF Idle
  <1>3. /\ job'[q].step \in {"load", "list"}
        /\ job'[q].kind \in Single => job'[q].budget \in DOMAIN budgets
    <2>1. CASE \E kind \in Single, b \in DOMAIN budgets :
                  Arrives(q, [Idle EXCEPT !.kind = kind, !.budget = b], "load")
      BY <1>2, <2>1 DEF Arrives, Idle, TypeOK
    <2>2. CASE \E kind \in Listings : Arrives(q, [Idle EXCEPT !.kind = kind], "list")
      BY <1>2, <2>2 DEF Arrives, Idle, TypeOK, Listings, Single
    <2>3. CASE \E ids \in (SUBSET DOMAIN budgets) \ {{}} :
                  Arrives(q, [Idle EXCEPT !.kind = "bulkDelete", !.todo = ids], "list")
      BY <1>2, <2>3 DEF Arrives, Idle, TypeOK, Single
    <2> QED BY <2>1, <2>2, <2>3 DEF Arrive
  <1>4. q \notin DOMAIN budgets'
    BY <1>2 DEF Made
  <1> QED BY <1>1, <1>2, <1>3, <1>4 DEF Made, Holds, Carries, Lists, RolledOver, At

LEMMA CreateStep ==
    ASSUME NEW q \in Requests, Inv, Create(q)
    PROVE  TypeOK' /\ Calm(q) /\ Made(q)' /\ Holds(q)' /\ Carries(q)' /\ Lists(q)'
  <1>1. TypeOK' /\ Calm(q) /\ q \in DOMAIN budgets' /\ At(q, {"create"}, "ok")'
    BY CreateIsCalm DEF Inv
  <1> QED BY <1>1 DEF Made, Holds, Carries, Lists, RolledOver, At, Single, Listings

-----------------------------------------------------------------------------
(* The invariant is inductive                                              *)

\* What is deleted, updated or overlapping stays so in a step of another request.
LEMMA OthersKeep ==
    ASSUME NEW q \in Requests, NEW r \in Requests \ {q}, Inv, TypeOK', PastOver', Calm(q)
    PROVE  Made(r)' /\ Holds(r)' /\ Carries(r)' /\ Lists(r)'
  <1>1. /\ TypeOK /\ PastOver /\ Made(r) /\ Holds(r) /\ Carries(r) /\ Lists(r) /\ Holds(q)
        /\ job'[r] = job[r] /\ past'[r] = past[r]
    BY DEF Inv, Calm
  <1>2. /\ DOMAIN budgets \subseteq DOMAIN budgets'
        /\ r \in DOMAIN budgets' => r \in DOMAIN budgets
        /\ \A i \in DOMAIN budgets : budgets[i].deleted => budgets'[i].deleted
    BY DEF Calm
  \* Nobody else comes to overlap, or not, with a request that has arrived.
  <1>3. ASSUME NEW o \in Requests, Overlap(r, o), job[o].step # "idle"
        PROVE  Overlap(r, o)'
    BY <1>1, <1>3 DEF Overlap, Calm
  <1>4. Made(r)' /\ Holds(r)'
    BY <1>1, <1>2 DEF Made, Holds, RolledOver, At
  <1>5. job[r].budget \in DOMAIN budgets /\ Updated(r) => Updated(r)'
    <2> SUFFICES ASSUME job[r].budget \in DOMAIN budgets, Updated(r) PROVE Updated(r)'
      OBVIOUS
    <2>1. PICK o \in Requests : /\ Overlap(r, o) /\ job[o].kind = "update" /\ job[o].step = "ok"
                                /\ job[o].budget = job[r].budget
      BY DEF Updated
    <2>2. job[o].step # "idle" /\ o # q
      BY <2>1 DEF Calm, Over
    <2>3. job'[o] = job[o]
      BY <2>2 DEF Calm
    <2> QED BY <1>1, <1>3, <2>1, <2>2, <2>3 DEF Updated
  <1>6. ASSUME At(r, {"rollover"}, "reload")
        PROVE  Updated(r)' \/ budgets'[job[r].budget].amount = job[r].seen.amount
    <2> DEFINE i == job[r].budget
    <2>1. i \in DOMAIN budgets /\ (Updated(r) \/ budgets[i].amount = job[r].seen.amount)
      BY <1>1, <1>6 DEF Holds, Carries, At, Single
    <2>2. CASE At(q, {"update"}, "save") /\ job[q].budget = i /\ job'[q].step = "ok"
      <3>1. Overlap(r, q)
        BY <1>1, <1>6, <2>2 DEF PastOver, Overlap, At, Over
      <3>2. Overlap(r, q)' /\ job'[q].kind = "update" /\ job'[q].step = "ok" /\ job'[q].budget = job'[r].budget
        BY <1>1, <1>3, <2>2, <3>1 DEF At, Calm
      <3> QED BY <3>2 DEF Updated
    <2>3. CASE budgets'[i].amount = budgets[i].amount
      BY <1>5, <2>1, <2>3
    <2> QED BY <2>1, <2>2, <2>3 DEF Calm
  <1>7. ASSUME RolledOver(r)
        PROVE  \/ budgets'[r].start = NextStart(job[r].seen, job[r].ended)
               \/ \E o \in Requests : job'[o].kind = "update" /\ job'[o].step = "ok" /\ job'[o].budget = r
    <2>1. r \in DOMAIN budgets
      BY <1>7 DEF RolledOver
    <2>2. CASE \E o \in Requests :
                  job[o].kind = "update" /\ job[o].step = "ok" /\ job[o].budget = r
      <3>1. PICK o \in Requests :
               job[o].kind = "update" /\ job[o].step = "ok" /\ job[o].budget = r
        BY <2>2
      <3>2. job'[o] = job[o]
        BY <3>1 DEF Calm, Over
      <3> QED BY <3>1, <3>2
    <2>3. CASE At(q, {"update"}, "save") /\ job[q].budget = r /\ job'[q].step = "ok"
      BY <2>3 DEF Calm, At
    <2>4. CASE /\ budgets'[r].start = budgets[r].start
               /\ budgets[r].start = NextStart(job[r].seen, job[r].ended)
      BY <2>4
    <2> QED BY <1>1, <1>7, <2>1, <2>2, <2>3, <2>4 DEF Carries, Calm
  <1>8. Carries(r)'
    <2>1. At(r, {"rollover"}, "sum") \/ At(r, {"rollover"}, "insert") \/ RolledOver(r)
            => job[r].budget \in DOMAIN budgets
      <3>1. RolledOver(r) => job[r].step # "idle" /\ job[r].kind = "rollover"
        BY <1>1 DEF RolledOver, Made
      <3> QED BY <1>1, <3>1 DEF Holds, At, Single
    <2>2. RolledOver(r)' => RolledOver(r)
      BY <1>1, <1>2 DEF RolledOver
    <2>3. \A s : At(r, {"rollover"}, s)' <=> At(r, {"rollover"}, s)
      BY <1>1 DEF At
    <2>4. (At(r, {"rollover"}, "reload") =>
              Updated(r) \/ budgets[job[r].budget].amount = job[r].seen.amount)'
      BY <1>1, <1>6, <2>3
    <2>5. (At(r, {"rollover"}, "sum") => Updated(r) \/ job[r].doc.amount = job[r].seen.amount)'
      BY <1>1, <1>5, <2>1, <2>3 DEF Carries
    <2>6. (At(r, {"rollover"}, "insert") \/ RolledOver(r) =>
              /\ Updated(r) \/ job[r].doc.amount = job[r].seen.amount
              /\ job[r].actual < job[r].doc.amount)'
      BY <1>1, <1>5, <2>1, <2>2, <2>3 DEF Carries
    <2>7. (RolledOver(r) =>
              \/ budgets[r].start = NextStart(job[r].seen, job[r].ended)
              \/ \E o \in Requests :
                    job[o].kind = "update" /\ job[o].step = "ok" /\ job[o].budget = r)'
      BY <1>1, <1>7, <2>2
    <2> QED BY <2>4, <2>5, <2>6, <2>7 DEF Carries
  <1>9. ASSUME NEW i, Deleted(r, i)
        PROVE  Deleted(r, i)'
    <2>1. PICK o \in Requests : /\ Overlap(r, o) /\ job[o].kind \in {"remove", "bulkDelete"}
                                /\ job[o].step \in Over /\ Concerns(o, i)
      BY <1>9 DEF Deleted
    <2>2. o # q /\ job'[o] = job[o] /\ job[o].step # "idle"
      BY <2>1 DEF Calm, Over
    <2>3. Overlap(r, o)' /\ Concerns(o, i)'
      BY <1>3, <2>1, <2>2 DEF Concerns
    <2> QED BY <2>1, <2>2, <2>3 DEF Deleted
  <1>10. ASSUME At(r, Listings, "each"), NEW i \in job[r].todo
         PROVE  i \in DOMAIN budgets' /\ (budgets'[i].deleted => Deleted(r, i)')
    <2>1. i \in DOMAIN budgets /\ (budgets[i].deleted => Deleted(r, i))
      BY <1>1, <1>10 DEF Lists
    <2>2. CASE budgets'[i].deleted => budgets[i].deleted
      BY <1>2, <1>9, <2>1, <2>2
    <2>3. CASE /\ job[q].kind \in {"remove", "bulkDelete"} /\ job[q].step # "idle"
               /\ job'[q].step \in Over /\ Concerns(q, i)'
      <3>1. Overlap(r, q)
        BY <1>1, <1>10 DEF PastOver, Overlap, At, Over, Calm
      <3>2. Overlap(r, q)' /\ job'[q].kind = job[q].kind
        BY <1>3, <2>3, <3>1 DEF Calm
      <3>3. Deleted(r, i)'
        BY <2>3, <3>2 DEF Deleted
      <3> QED BY <1>2, <2>1, <3>3
    <2> QED BY <2>1, <2>2, <2>3 DEF Calm
  <1>11. Lists(r)'
    <2>1. At(r, Listings, "refused") =>
             \E i \in DOMAIN budgets' : budgets'[i].deleted /\ Deleted(r, i)'
      BY <1>1, <1>2, <1>9 DEF Lists
    <2>2. \A s : At(r, Listings, s)' <=> At(r, Listings, s)
      BY <1>1 DEF At
    <2> QED BY <1>1, <1>10, <2>1, <2>2 DEF Lists
  <1> QED BY <1>4, <1>8, <1>11

LEMMA PastOverKept ==
    ASSUME NEW q \in Requests, Inv, TypeOK', Calm(q)
    PROVE  PastOver'
  <1> SUFFICES ASSUME NEW o \in Requests, NEW r \in Requests, r \in past'[o]
               PROVE  job'[r].step \in Over
    BY DEF PastOver
  <1>1. job[r].step \in Over
    BY DEF Inv, PastOver, Calm
  <1> QED BY <1>1 DEF Calm

\* Time passes and money is spent without a request.
LEMMA ClockKeeps ==
    ASSUME Inv, Tick \/ Spend
    PROVE  Inv'
  <1>1. TypeOK /\ UNCHANGED <<budgets, job, past>>
    BY DEF Inv, Tick, Spend
  <1>2. spent' \in [Time -> Nat] /\ now' \in Time
    <2>1. CASE Tick
      BY <1>1, <2>1, BudgetsAssumption DEF Tick, TypeOK, Time
    <2>2. CASE Spend
      BY <1>1, <2>2 DEF Spend, TypeOK
    <2> QED BY <2>1, <2>2
  <1>3. TypeOK'
    BY <1>1, <1>2 DEF TypeOK
  <1>4. PastOver'
    BY <1>1 DEF Inv, PastOver
  <1>5. ASSUME NEW q \in Requests
        PROVE  Made(q)' /\ Holds(q)' /\ Carries(q)' /\ Lists(q)'
    <2>1. Made(q) /\ Holds(q) /\ Carries(q) /\ Lists(q)
      BY DEF Inv
    <2>2. Made(q)' /\ Holds(q)'
      BY <1>1, <2>1 DEF Made, Holds, RolledOver, At
    <2>3. (Updated(q)' <=> Updated(q)) /\ \A i : Deleted(q, i)' <=> Deleted(q, i)
      BY <1>1 DEF Updated, Deleted, Overlap, Concerns
    <2>4. (RolledOver(q)' <=> RolledOver(q)) /\ \A k, s : At(q, k, s)' <=> At(q, k, s)
      BY <1>1 DEF RolledOver, At
    <2>5. Carries(q)'
      BY <1>1, <2>1, <2>3, <2>4 DEF Carries
    <2>6. Lists(q)'
      BY <1>1, <2>1, <2>3, <2>4 DEF Lists
    <2> QED BY <2>2, <2>5, <2>6
  <1> QED BY <1>3, <1>4, <1>5 DEF Inv

LEMMA InitInv == Init => Inv
  <1> SUFFICES ASSUME Init PROVE Inv
    OBVIOUS
  <1>1. PICK b \in Budget : budgets = [i \in Stored |-> b]
    <2>1. \A a \in Amounts, p \in Periods, e \in Dates \cup {Never} :
             [deleted |-> FALSE, amount |-> a, start |-> 0, end |-> e, period |-> p,
              rollover |-> TRUE] \in Budget
      BY BudgetsAssumption DEF Budget, Never
    <2> QED BY <2>1 DEF Init
  <1>2. Idle \in Job
    BY BudgetsAssumption DEF Idle, Job, Kinds, Steps, Time
  <1>3. /\ spent = [t \in Time |-> 0] /\ now = 0
        /\ job = [q \in Requests |-> Idle] /\ past = [q \in Requests |-> {}]
    BY DEF Init
  <1>4. TypeOK
    BY <1>1, <1>2, <1>3, BudgetsAssumption DEF TypeOK, Ids, Time
  <1>5. ASSUME NEW q \in Requests
        PROVE  job[q].step = "idle" /\ job[q].budget = None /\ past[q] = {} /\ q \notin DOMAIN budgets
    BY <1>1, <1>3, BudgetsAssumption DEF Idle
  <1>6. PastOver
    BY <1>5 DEF PastOver
  <1>7. \A q \in Requests : Made(q) /\ Holds(q) /\ Carries(q) /\ Lists(q)
    BY <1>5 DEF Made, Holds, Carries, Lists, RolledOver, At
  <1> QED BY <1>4, <1>6, <1>7 DEF Inv

LEMMA NextInv == Inv /\ [Next]_vars => Inv'
  <1> SUFFICES ASSUME Inv, [Next]_vars PROVE Inv'
    OBVIOUS
  <1>1. ASSUME NEW q \in Requests,
               \/ Arrive(q) \/ Create(q) \/ Load(q) \/ Save(q) \/ FindAll(q) \/ DeleteAll(q)
               \/ FindForRollover(q) \/ Reload(q) \/ Sum(q) \/ RollOver(q)
               \/ List(q) \/ StatsOf(q) \/ Answer(q)
        PROVE  Inv'
    <2>1. TypeOK' /\ Calm(q) /\ Made(q)' /\ Holds(q)' /\ Carries(q)' /\ Lists(q)'
      BY <1>1, ArriveStep, CreateStep, LoadStep, SaveStep, FindAllStep, DeleteAllStep,
         FindForRolloverStep, ReloadStep, SumStep, RollOverStep, ListStep, StatsOfStep, AnswerStep
    <2>2. PastOver'
      BY <2>1, PastOverKept
    <2>3. ASSUME NEW r \in Requests
          PROVE  Made(r)' /\ Holds(r)' /\ Carries(r)' /\ Lists(r)'
      <3>1. CASE r = q BY <2>1, <3>1
      <3>2. CASE r # q BY <2>1, <2>2, <3>2, OthersKeep
      <3> QED BY <3>1, <3>2
    <2> QED BY <2>1, <2>2, <2>3 DEF Inv
  <1>2. CASE Tick \/ Spend
    BY <1>2, ClockKeeps
  <1>3. CASE UNCHANGED vars
    <2>1. TypeOK' /\ PastOver'
      BY <1>3 DEF vars, Inv, TypeOK, PastOver
    <2>2. ASSUME NEW q \in Requests
          PROVE  Made(q)' /\ Holds(q)' /\ Carries(q)' /\ Lists(q)'
      BY <1>3 DEF vars, Inv, Made, Holds, Carries, Lists, Updated, Deleted, Overlap, Concerns,
                  RolledOver, At
    <2> QED BY <2>1, <2>2 DEF Inv
  <1> QED BY <1>1, <1>2, <1>3 DEF Next

LEMMA InvHolds == Spec => []Inv
  BY InitInv, NextInv, PTL DEF Spec

-----------------------------------------------------------------------------
(* The theorems                                                            *)

\* What processBudgetRollover carries over is what is left of the budget at most, and the new
\* budget starts with the next period: whatever the requests, the amounts and the periods,
\* unless a period ended or an update overlapped while the rollover ran.
THEOREM RolloversCarry == Spec => []RolledNext
  <1>1. Inv => RolledNext
    <2> SUFFICES ASSUME Inv, NEW q \in Requests, job[q].kind = "rollover", q \in DOMAIN budgets,
                        StartOf(job[q].seen.period, job[q].ended)
                           = StartOf(job[q].seen.period, job[q].began),
                        ~Updated(q)
                 PROVE  /\ \/ budgets[q].start = StartOf(job[q].seen.period, job[q].began)
                                                   + Length[job[q].seen.period]
                           \/ \E r \in Requests : job[r].kind = "update" /\ job[r].step = "ok" /\ job[r].budget = q
                        /\ job[q].doc.amount - job[q].actual \in 1..job[q].seen.amount
      BY DEF RolledNext, Updated
    <2>1. Made(q) /\ Holds(q) /\ Carries(q) /\ RolledOver(q) /\ job[q] \in Job
      BY DEF Inv, TypeOK, RolledOver
    <2>2. job[q].seen \in Budget /\ job[q].doc \in Budget
      BY <2>1 DEF Holds, RolledOver
    <2>3. job[q].doc.amount - job[q].actual \in 1..job[q].seen.amount
      <3>1. job[q].doc.amount = job[q].seen.amount /\ job[q].actual < job[q].doc.amount
        BY <2>1 DEF Carries
      <3>2. job[q].actual \in Nat /\ job[q].doc.amount \in Nat
        BY <2>1, <2>2 DEF Job, Budget
      <3> QED BY <3>1, <3>2
    <2>4. job[q].seen.period \in Periods /\ job[q].ended \in Nat
      BY <2>1, <2>2, BudgetsAssumption DEF Budget, Job, Time
    <2>5. NextStart(job[q].seen, job[q].ended)
             = StartOf(job[q].seen.period, job[q].ended) + Length[job[q].seen.period]
      BY <2>4, PeriodsInTime DEF NextStart
    <2> QED BY <2>1, <2>3, <2>5 DEF Carries
  <1> QED BY <1>1, InvHolds, PTL

\* findAllWithStats and checkBudgetAlerts load every budget a second time: whatever the
\* requests, the whole answer is a 404 only when a removal that overlapped deleted a budget.
THEOREM RefusalsExplained == Spec => []RefusedByDeletion
  <1>1. Inv => RefusedByDeletion
    <2> SUFFICES ASSUME Inv, NEW q \in Requests, job[q].kind \in Listings, job[q].step = "refused"
                 PROVE  \E r \in Requests :
                           /\ Overlap(q, r) /\ job[r].kind \in {"remove", "bulkDelete"}
                           /\ \E i \in DOMAIN budgets : budgets[i].deleted /\ Concerns(r, i)
      BY DEF RefusedByDeletion
    <2>1. PICK i \in DOMAIN budgets : budgets[i].deleted /\ Deleted(q, i)
      BY DEF Inv, Lists, At
    <2> QED BY <2>1 DEF Deleted
  <1> QED BY <1>1, InvHolds, PTL
=============================================================================
