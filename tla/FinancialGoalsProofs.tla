------------------------- MODULE FinancialGoalsProofs -------------------------
(***************************************************************************)
(* The savings goal, for any requests, targets and milestones, and for any *)
(* number of requests and failures.                                        *)
(***************************************************************************)
EXTENDS FinancialGoals, TLAPS

-----------------------------------------------------------------------------
(* What the operators return                                               *)

LEMMA SmallerFits ==
    ASSUME NEW a \in Nat, NEW b \in Nat
    PROVE  Smaller(a, b) \in Nat /\ Smaller(a, b) <= a /\ Smaller(a, b) <= b
BY DEF Smaller

LEMMA ReachedType ==
    ASSUME NEW kind, NEW by \in Amounts, NEW amount \in Amounts, NEW target \in Amounts
    PROVE  Reached(kind, by, amount, target) \in Amounts
<1> USE AmountAssumption DEF Amounts
<1>1. CASE kind = "add"
    BY <1>1 DEF Reached, Smaller
<1>2. CASE kind = "subtract"
    BY <1>2 DEF Reached, Smaller
<1>3. CASE kind = "set"
    BY <1>3 DEF Reached
<1>4. CASE kind \notin {"add", "subtract", "set"}
    BY <1>4 DEF Reached
<1> QED
    BY <1>1, <1>2, <1>3, <1>4

LEMMA NoGoalType == NoGoal \in Goal /\ NoMilestones \in Milestones
BY AmountAssumption DEF NoGoal, Goal, Amounts, Milestones, NoMilestones

LEMMA IdleType == Idle \in Job
BY NoGoalType, AmountAssumption DEF Idle, Job, Amounts, Contributions

\* What a save writes, field by field (Document.save).
LEMMA SavedFields ==
    ASSUME goal \in Goal, NEW j \in Job
    PROVE  /\ Saved(j) \in Goal
           /\ Saved(j).stored = goal.stored
           /\ Saved(j).deleted = IF j.mine.deleted # j.loaded.deleted THEN j.mine.deleted
                                 ELSE goal.deleted
           /\ Saved(j).target = IF j.mine.target # j.loaded.target THEN j.mine.target
                                ELSE goal.target
           /\ Saved(j).amount = IF j.mine.amount # j.loaded.amount THEN j.mine.amount
                                ELSE goal.amount
           /\ Saved(j).achieved = IF j.mine.achieved # j.loaded.achieved THEN j.mine.achieved
                                  ELSE goal.achieved
           /\ Saved(j).version = IF j.whole THEN goal.version + 1 ELSE goal.version
           /\ j.whole => Saved(j).milestones = j.mine.milestones
           /\ ~j.whole => \A m \in Marks :
                  Saved(j).milestones[m] =
                      IF j.mine.milestones[m] # j.loaded.milestones[m]
                      THEN j.mine.milestones[m] ELSE goal.milestones[m]
<1> DEFINE written(f) == IF j.mine[f] # j.loaded[f] THEN j.mine[f] ELSE goal[f]
           marked == IF j.whole THEN j.mine.milestones
                     ELSE [m \in Marks |->
                             IF j.mine.milestones[m] # j.loaded.milestones[m]
                             THEN j.mine.milestones[m] ELSE goal.milestones[m]]
           version == IF j.whole THEN goal.version + 1 ELSE goal.version
<1>1. j.mine \in Goal /\ j.loaded \in Goal /\ j.whole \in BOOLEAN
    BY DEF Job
<1>2. marked \in Milestones
    BY <1>1 DEF Goal, Milestones
<1>3. /\ written("deleted") \in BOOLEAN /\ written("target") \in Amounts
      /\ written("amount") \in Amounts /\ written("achieved") \in BOOLEAN /\ version \in Nat
    BY <1>1 DEF Goal
<1>4. Saved(j) = [goal EXCEPT !.deleted = written("deleted"), !.target = written("target"),
                              !.amount = written("amount"), !.achieved = written("achieved"),
                              !.milestones = marked, !.version = version]
    BY Zenon DEF Saved
<1> HIDE DEF marked, version, written
<1>5. /\ Saved(j) \in Goal /\ Saved(j).stored = goal.stored
      /\ Saved(j).deleted = written("deleted") /\ Saved(j).target = written("target")
      /\ Saved(j).amount = written("amount") /\ Saved(j).achieved = written("achieved")
      /\ Saved(j).milestones = marked /\ Saved(j).version = version
    BY <1>2, <1>3, <1>4 DEF Goal
<1> QED
    BY <1>1, <1>5 DEF marked, version, written

-----------------------------------------------------------------------------
(* The inductive invariant                                                 *)

\* `achieved` says whether the target is reached.
Agrees(g) ==
    /\ g.achieved => g.amount >= g.target
    /\ g.amount >= g.target => g.achieved \/ "bornFull" \in causes

\* What a request that awaits its save holds, next to what it loaded.
Derived(j) ==
    /\ j.mine.amount = Reached(j.kind, j.by, j.loaded.amount, j.loaded.target)
    /\ j.mine.deleted = (j.kind = "none")
    /\ j.kind = "keep" => j.mine.amount = j.loaded.amount
    /\ j.kind = "none" => j.mine.achieved = j.loaded.achieved
    /\ j.kind \notin {"set", "keep"} => j.mine.target = j.loaded.target /\ ~j.whole
    /\ ~j.whole => j.mine.milestones = j.loaded.milestones

\* What a request that awaits the marking of milestones holds.
Marking(j) ==
    /\ j.kind = "none" /\ ~j.whole
    /\ j.mine.amount = j.loaded.amount /\ j.mine.target = j.loaded.target /\ ~j.mine.deleted
    /\ j.mine.achieved = j.loaded.achieved
    /\ \A m \in Marks : j.mine.milestones[m] # j.loaded.milestones[m]
                            => j.mine.milestones[m] = "done"

\* A request works on a document that it has loaded and that was not deleted then.
Fits(j) ==
    /\ j.op # "idle" => goal.stored
    /\ j.op \in {"idle", "check"} => j.kind = "none"
    /\ j.op \in {"save", "mark"} => ~j.loaded.deleted /\ j.loaded.version <= goal.version
    /\ j.op = "save" => Derived(j)
    /\ j.op = "mark" => Marking(j)

JobsInv == \A r \in Requests : Fits(job[r])

\* Unless two requests held the sum, the one that holds it has the goal's own.
SumInv ==
    "overlap" \notin causes =>
       /\ goal.amount = balance
       /\ goal.stored => Agrees(goal)
       /\ \A q, r \in Movers : q = r
       /\ \A r \in Movers :
             /\ job[r].loaded.amount = goal.amount /\ job[r].loaded.target = goal.target
             /\ job[r].loaded.achieved = goal.achieved /\ Agrees(job[r].mine)

\* There is no milestone before there is a goal.
FreshInv == ~goal.stored => goal.milestones = NoMilestones

\* r will mark milestone m.
Covers(r, m) ==
    \/ job[r].op = "check"
    \/ /\ job[r].op = "mark" /\ job[r].loaded.version = goal.version
       /\ job[r].mine.milestones[m] = "done" /\ job[r].loaded.milestones[m] = "open"

CaughtInv ==
    (Visible /\ "failed" \notin causes) =>
       \A m \in Marks : goal.milestones[m] = "open" /\ goal.amount >= m
                            => \E r \in Requests : Covers(r, m)

GoalInv == TypeOK /\ JobsInv /\ SumInv /\ FreshInv /\ CaughtInv

-----------------------------------------------------------------------------
(* What a request does when it has loaded the goal                         *)

\* The first step of an update, a contribution or a removal.
Begins(r) ==
    /\ job[r].op = "idle" /\ Visible
    /\ job' \in [Requests -> Job]
    /\ \A q \in Requests \ {r} : job'[q] = job[q]
    /\ job'[r].op = "save" /\ job'[r].loaded = goal
    /\ Derived(job'[r])
    /\ Agrees(goal) => Agrees(job'[r].mine)
    /\ causes \subseteq causes' /\ causes' \subseteq causes \cup {"overlap"}
    /\ "overlap" \notin causes' => r \notin Movers' \/ \A q \in Movers' : q = r
    /\ requestsLeft' \in Nat
    /\ UNCHANGED <<goal, failuresLeft, balance>>

Kinds == Contributions \cup {"keep", "none"}

LEMMA StartDoes ==
    ASSUME TypeOK, NEW r \in Requests, NEW kind \in Kinds,
           NEW by \in Amounts, NEW mine \in Goal, NEW whole \in BOOLEAN,
           Start(r, kind, by, mine, whole)
    PROVE  /\ job' \in [Requests -> Job]
           /\ \A q \in Requests \ {r} : job'[q] = job[q]
           /\ job'[r].op = "save" /\ job'[r].kind = kind /\ job'[r].by = by
           /\ job'[r].loaded = goal /\ job'[r].mine = mine /\ job'[r].whole = whole
           /\ requestsLeft' \in Nat
<1> DEFINE new == [op |-> "save", kind |-> kind, by |-> by, loaded |-> goal, mine |-> mine,
                   whole |-> whole]
<1>1. new \in Job
    BY DEF TypeOK, Job, Kinds
<1>2. job' = [job EXCEPT ![r] = new]
    BY DEF Start
<1>3. requestsLeft' \in Nat
    BY DEF Start, TypeOK
<1> HIDE DEF new
<1>4. job' \in [Requests -> Job] /\ job'[r] = new /\ \A q \in Requests \ {r} : job'[q] = job[q]
    BY <1>1, <1>2 DEF TypeOK
<1> QED
    BY <1>3, <1>4 DEF new

\* Start, given what the request makes of the goal.
LEMMA StartBegins ==
    ASSUME TypeOK, NEW r \in Requests, NEW kind \in Kinds,
           NEW by \in Amounts, NEW mine \in Goal, NEW whole \in BOOLEAN,
           Start(r, kind, by, mine, whole),
           mine.amount = Reached(kind, by, goal.amount, goal.target),
           mine.deleted = (kind = "none"),
           kind = "keep" => mine.amount = goal.amount,
           kind = "none" => mine.achieved = goal.achieved,
           kind \notin {"set", "keep"} => mine.target = goal.target /\ ~whole,
           ~whole => mine.milestones = goal.milestones,
           Agrees(goal) => Agrees(mine)
    PROVE  Begins(r)
<1>1. /\ job' \in [Requests -> Job] /\ (\A q \in Requests \ {r} : job'[q] = job[q])
      /\ job'[r].op = "save" /\ job'[r].kind = kind /\ job'[r].by = by
      /\ job'[r].loaded = goal /\ job'[r].mine = mine /\ job'[r].whole = whole
      /\ requestsLeft' \in Nat
    BY StartDoes
<1>2. /\ Visible /\ job[r].op = "idle" /\ UNCHANGED <<goal, failuresLeft, balance>>
      /\ causes \subseteq causes' /\ causes' \subseteq causes \cup {"overlap"}
      /\ "overlap" \notin causes' => ~\E q \in Movers' : q # r /\ r \in Movers'
    BY DEF Start
<1>3. Derived(job'[r])
    BY <1>1 DEF Derived
<1> QED
    BY <1>1, <1>2, <1>3 DEF Begins

\* addAmount: achieved follows the sum.
LEMMA AddBegins ==
    ASSUME TypeOK, NEW r \in Requests, NEW by \in Amounts, AddAmount(r, by)
    PROVE  Begins(r)
<1> DEFINE sum == Reached("add", by, goal.amount, goal.target)
           full == sum >= goal.target
           mine == [goal EXCEPT !.amount = sum, !.achieved = full]
<1>1. goal \in Goal /\ "add" \in Kinds /\ FALSE \in BOOLEAN
    BY DEF TypeOK, Contributions, Kinds
<1>2. sum \in Amounts /\ full \in BOOLEAN
    BY <1>1, ReachedType DEF Goal
<1>3. Start(r, "add", by, mine, FALSE)
    BY Zenon DEF AddAmount
<1> HIDE DEF full
<1>4. /\ mine \in Goal /\ mine.amount = sum /\ mine.target = goal.target
      /\ mine.achieved = full
      /\ mine.deleted = goal.deleted /\ mine.milestones = goal.milestones
    BY <1>1, <1>2 DEF Goal
<1> HIDE DEF mine
<1>5. Agrees(mine)
    BY <1>4 DEF Agrees, full
<1>6. goal.deleted = FALSE
    BY <1>1, <1>3 DEF Start, Visible, Goal
<1> QED
    BY <1>1, <1>3, <1>4, <1>5, <1>6, StartBegins

\* subtractAmount: achieved is taken back with the sum.
LEMMA SubtractBegins ==
    ASSUME TypeOK, NEW r \in Requests, NEW by \in Amounts, SubtractAmount(r, by)
    PROVE  Begins(r)
<1> DEFINE sum == Reached("subtract", by, goal.amount, goal.target)
           mine == [goal EXCEPT !.amount = sum, !.achieved = @ /\ sum >= goal.target]
<1>1. goal \in Goal /\ "subtract" \in Kinds /\ FALSE \in BOOLEAN
    BY DEF TypeOK, Contributions, Kinds
<1>2. sum \in Amounts
    BY <1>1, ReachedType DEF Goal
<1>3. Start(r, "subtract", by, mine, FALSE)
    BY Zenon DEF SubtractAmount
<1>4. /\ mine \in Goal /\ mine.amount = sum /\ mine.target = goal.target
      /\ mine.achieved = (goal.achieved /\ sum >= goal.target)
      /\ mine.deleted = goal.deleted /\ mine.milestones = goal.milestones
    BY <1>1, <1>2 DEF Goal
<1> HIDE DEF mine
<1>5. sum <= goal.amount
    BY <1>1, SmallerFits, AmountAssumption DEF Reached, Goal, Amounts
<1>6. Agrees(goal) => Agrees(mine)
    BY <1>1, <1>2, <1>4, <1>5, AmountAssumption DEF Agrees, Goal, Amounts
<1>7. goal.deleted = FALSE
    BY <1>1, <1>3 DEF Start, Visible, Goal
<1> QED
    BY <1>1, <1>3, <1>4, <1>6, <1>7, StartBegins

\* update: what it leaves out stays; milestones that it brings replace the array.
LEMMA UpdateBegins ==
    ASSUME TypeOK, NEW r \in Requests, Update(r)
    PROVE  Begins(r)
<1>1. PICK kind \in {"set", "keep"}, target \in Targets \cup {goal.target}, amount \in Amounts :
          LET g == [goal EXCEPT !.target = target, !.amount = amount,
                                !.achieved = amount >= target]
          IN  /\ kind = "keep" => amount = goal.amount
              /\ \/ Start(r, kind, amount, g, FALSE)
                 \/ \E milestones \in Milestones :
                       /\ \A m \in Marks : m > target => milestones[m] = "none"
                       /\ Start(r, kind, amount, [g EXCEPT !.milestones = milestones], TRUE)
    BY Zenon DEF Update
<1> DEFINE full == amount >= target
           g == [goal EXCEPT !.target = target, !.amount = amount, !.achieved = full]
           with(milestones) == [g EXCEPT !.milestones = milestones]
<1>2. /\ goal \in Goal /\ target \in Amounts /\ TRUE \in BOOLEAN /\ FALSE \in BOOLEAN
      /\ kind \in Kinds /\ kind # "none" /\ kind \in {"set", "keep"} /\ full \in BOOLEAN
    BY AmountAssumption DEF TypeOK, Amounts, Contributions, Goal, Kinds
<1>3. /\ amount = Reached(kind, amount, goal.amount, goal.target)
      /\ kind = "keep" => amount = goal.amount
    BY <1>1 DEF Reached
<1>4. \/ Start(r, kind, amount, g, FALSE)
      \/ \E milestones \in Milestones : Start(r, kind, amount, with(milestones), TRUE)
    BY <1>1
<1> HIDE DEF full
<1>5. /\ g \in Goal /\ g.deleted = goal.deleted /\ g.milestones = goal.milestones
      /\ g.amount = amount /\ g.target = target /\ g.achieved = full
    BY <1>2 DEF Goal
<1> HIDE DEF g
<1>6. goal.deleted = FALSE
    BY <1>2, <1>4 DEF Start, Visible, Goal
<1>7. CASE Start(r, kind, amount, g, FALSE)
  <2>1. Agrees(g)
      BY <1>5 DEF Agrees, full
  <2> QED
      BY <1>2, <1>5, <1>3, <1>6, <1>7, <2>1, StartBegins
<1>8. ASSUME NEW milestones \in Milestones, Start(r, kind, amount, with(milestones), TRUE)
      PROVE  Begins(r)
  <2> DEFINE mine == with(milestones)
  <2>1. /\ mine \in Goal /\ mine.deleted = g.deleted
        /\ mine.amount = g.amount /\ mine.target = g.target /\ mine.achieved = g.achieved
      BY <1>5 DEF Goal
  <2>2. Start(r, kind, amount, mine, TRUE)
      BY <1>8
  <2> HIDE DEF mine
  <2>3. Agrees(mine)
      BY <1>5, <2>1 DEF Agrees, full
  <2> QED
      BY <1>2, <1>5, <1>3, <1>6, <2>1, <2>2, <2>3, StartBegins
<1> QED
    BY <1>4, <1>7, <1>8

\* remove: the soft delete, saved through the document.
LEMMA RemoveBegins ==
    ASSUME TypeOK, NEW r \in Requests, Remove(r)
    PROVE  Begins(r)
<1> DEFINE mine == [goal EXCEPT !.deleted = TRUE]
<1>1. goal \in Goal /\ "none" \in Kinds /\ FALSE \in BOOLEAN /\ 0 \in Amounts
    BY AmountAssumption DEF TypeOK, Contributions, Amounts, Kinds
<1>2. Start(r, "none", 0, mine, FALSE)
    BY Zenon DEF Remove
<1>3. /\ mine \in Goal /\ mine.amount = goal.amount /\ mine.target = goal.target
      /\ mine.achieved = goal.achieved /\ mine.deleted = TRUE
      /\ mine.milestones = goal.milestones
    BY <1>1 DEF Goal
<1> HIDE DEF mine
<1>4. Agrees(goal) => Agrees(mine)
    BY <1>3 DEF Agrees
<1>5. mine.amount = Reached("none", 0, goal.amount, goal.target)
    BY <1>3 DEF Reached
<1> QED
    BY <1>1, <1>2, <1>3, <1>4, <1>5, StartBegins

-----------------------------------------------------------------------------
(* What the other steps do                                                 *)

\* Only r's request moves on.
Moves(r) == job' \in [Requests -> Job] /\ \A q \in Requests \ {r} : job'[q] = job[q]

Creates(r) ==
    /\ Moves(r) /\ job[r].op = "idle" /\ ~goal.stored
    /\ job'[r].op = "check" /\ job'[r].kind = job[r].kind
    /\ goal' \in Goal /\ goal'.stored /\ ~goal'.deleted
    /\ goal'.achieved = FALSE
    /\ balance' = goal'.amount
    /\ goal'.amount >= goal'.target => "bornFull" \in causes'
    /\ causes \subseteq causes' /\ causes' \subseteq causes \cup {"bornFull"}
    /\ requestsLeft' \in Nat /\ UNCHANGED failuresLeft

\* A contribution goes on to the milestones; a removal has ended.
Saves(r) ==
    /\ Moves(r) /\ job[r].op = "save" /\ ~Stale(job[r]) /\ goal' = Saved(job[r])
    /\ job'[r].op = (IF job[r].kind = "none" THEN "idle" ELSE "check")
    /\ job'[r].kind = "none"
    /\ balance' = Reached(job[r].kind, job[r].by, balance, goal.target)
    /\ UNCHANGED <<boundVars, causes>>

Checks(r) ==
    /\ Moves(r) /\ job[r].op = "check"
    /\ \/ /\ Visible /\ Passed(goal) # {}
          /\ job'[r].op = "mark" /\ job'[r].loaded = goal /\ Marking(job'[r])
          /\ \A m \in Passed(goal) : job'[r].mine.milestones[m] = "done"
       \/ (Visible => Passed(goal) = {}) /\ job'[r] = Idle
    /\ causes' = causes \ {"failed"}
    /\ UNCHANGED <<goal, boundVars, balance>>

Ends(r) == Moves(r) /\ job'[r] = Idle

LEMMA IdleFields == Idle.op = "idle" /\ Idle.kind = "none"
BY DEF Idle

LEMMA IdleEnds ==
    ASSUME TypeOK, NEW r \in Requests, job' = [job EXCEPT ![r] = Idle]
    PROVE  Ends(r)
BY IdleType DEF TypeOK, Ends, Moves

LEMMA CreateDoes ==
    ASSUME TypeOK, NEW r \in Requests, Create(r)
    PROVE  Creates(r)
<1>1. PICK target \in Targets, amount \in Amounts, marks \in SUBSET Marks :
          /\ goal' = [NoGoal EXCEPT !.stored = TRUE, !.target = target, !.amount = amount,
                         !.milestones = [m \in Marks |-> IF m \in marks THEN "open" ELSE "none"]]
          /\ balance' = amount
          /\ causes' = causes \cup (IF amount >= target THEN {"bornFull"} ELSE {})
    BY Zenon DEF Create
<1> DEFINE ms == [m \in Marks |-> IF m \in marks THEN "open" ELSE "none"]
<1>2. ms \in Milestones /\ target \in Amounts /\ NoGoal \in Goal
    BY NoGoalType, AmountAssumption DEF Milestones, Amounts
<1>3. NoGoal.achieved = FALSE /\ NoGoal.deleted = FALSE
    BY DEF NoGoal
<1> HIDE DEF ms
<1>4. goal' = [NoGoal EXCEPT !.stored = TRUE, !.target = target, !.amount = amount,
                             !.milestones = ms]
    BY <1>1, Zenon DEF ms
<1>5. /\ goal' \in Goal /\ goal'.stored /\ ~goal'.deleted
      /\ goal'.achieved = FALSE /\ goal'.amount = amount /\ goal'.target = target
    BY <1>2, <1>3, <1>4 DEF Goal
<1>6. job' = [job EXCEPT ![r].op = "check"] /\ job[r] \in Job
    BY DEF Create, TypeOK
<1>7. Moves(r) /\ job'[r].op = "check" /\ job'[r].kind = job[r].kind
  <2> DEFINE new == [job[r] EXCEPT !.op = "check"]
  <2>1. new \in Job /\ new.op = "check" /\ new.kind = job[r].kind
      BY <1>6 DEF Job
  <2>2. job' = [job EXCEPT ![r] = new]
      BY <1>6, Zenon
  <2> HIDE DEF new
  <2> QED
      BY <2>1, <2>2 DEF TypeOK, Moves
<1>8. requestsLeft' \in Nat /\ UNCHANGED failuresLeft /\ job[r].op = "idle" /\ ~goal.stored
    BY DEF Create, TypeOK
<1> QED
    BY <1>1, <1>5, <1>7, <1>8 DEF Creates

LEMMA SaveDoes ==
    ASSUME TypeOK, NEW r \in Requests, Save(r)
    PROVE  Saves(r)
<1> DEFINE new == IF job[r].kind = "none" THEN Idle ELSE [Idle EXCEPT !.op = "check"]
<1>1. /\ new \in Job /\ new.kind = "none"
      /\ new.op = (IF job[r].kind = "none" THEN "idle" ELSE "check")
    BY IdleType, IdleFields DEF Job
<1>2. /\ job[r].op = "save" /\ ~Stale(job[r]) /\ goal' = Saved(job[r])
      /\ balance' = Reached(job[r].kind, job[r].by, balance, goal.target)
      /\ job' = [job EXCEPT ![r] = new] /\ UNCHANGED <<boundVars, causes>>
    BY DEF Save
<1> HIDE DEF new
<1>3. Moves(r) /\ job'[r] = new
    BY <1>1, <1>2 DEF TypeOK, Moves
<1> QED
    BY <1>1, <1>2, <1>3 DEF Saves

LEMMA CheckDoes ==
    ASSUME TypeOK, NEW r \in Requests, Check(r)
    PROVE  Checks(r)
<1> DEFINE ms == [m \in Marks |-> IF m \in Passed(goal) THEN "done" ELSE goal.milestones[m]]
           mine == [goal EXCEPT !.milestones = ms]
           new == [Idle EXCEPT !.op = "mark", !.loaded = goal, !.mine = mine]
<1>0. /\ job[r].op = "check" /\ causes' = causes \ {"failed"}
      /\ UNCHANGED <<goal, boundVars, balance>>
    BY DEF Check
<1>1. CASE ~(Visible /\ Passed(goal) # {})
    BY <1>0, <1>1, IdleEnds, IdleFields DEF Check, Checks, Ends
<1>2. CASE Visible /\ Passed(goal) # {}
  <2>1. job' = [job EXCEPT ![r] = new]
      BY <1>2, Zenon DEF Check
  <2>2. goal \in Goal /\ Idle \in Job
      BY IdleType DEF TypeOK
  <2>3. ms \in Milestones
      BY <2>2 DEF Milestones, Goal
  <2>4. /\ \A m \in Passed(goal) : ms[m] = "done"
        /\ \A m \in Marks : ms[m] # goal.milestones[m] => ms[m] = "done"
      BY <2>2 DEF Passed
  <2> HIDE DEF ms
  <2>5. /\ mine \in Goal /\ mine.amount = goal.amount /\ mine.target = goal.target
        /\ mine.milestones = ms /\ mine.deleted = goal.deleted
        /\ mine.achieved = goal.achieved
      BY <2>2, <2>3 DEF Goal
  <2> HIDE DEF mine
  <2>6. /\ new \in Job /\ new.op = "mark" /\ new.loaded = goal /\ new.mine = mine
        /\ new.kind = Idle.kind /\ new.whole = Idle.whole
      BY <2>2, <2>5 DEF Job
  <2>7. Idle.kind = "none" /\ Idle.whole = FALSE
      BY DEF Idle
  <2> HIDE DEF new
  <2>8. Moves(r) /\ job'[r] = new
      BY <2>1, <2>6 DEF TypeOK, Moves
  <2>9. Marking(new)
      BY <1>2, <2>4, <2>5, <2>6, <2>7 DEF Marking, Visible
  <2> QED
      BY <1>0, <1>2, <2>4, <2>5, <2>6, <2>8, <2>9 DEF Checks
<1> QED
    BY <1>1, <1>2

\* Every step, in these terms.
Settles(r) ==
    \/ Mark(r) /\ Ends(r)
    \/ Conflict(r) /\ Ends(r)
    \/ Fail(r) /\ Ends(r)

LEMMA NextDoes ==
    ASSUME TypeOK, Next
    PROVE  \/ BulkDelete
           \/ \E r \in Requests :
                 Creates(r) \/ Begins(r) \/ Saves(r) \/ Checks(r) \/ Settles(r)
<1>1. CASE BulkDelete
    BY <1>1
<1>2. ASSUME NEW r \in Requests, Request(r)
      PROVE  Creates(r) \/ Begins(r)
    BY <1>2, CreateDoes, AddBegins, SubtractBegins, UpdateBegins, RemoveBegins DEF Request
<1>3. ASSUME NEW r \in Requests, Answer(r)
      PROVE  Saves(r) \/ Checks(r) \/ Settles(r)
    BY <1>3, SaveDoes, CheckDoes, IdleEnds DEF Answer, Mark, Conflict, Settles
<1>4. ASSUME NEW r \in Requests, Fail(r)
      PROVE  Settles(r)
    BY <1>4, IdleEnds DEF Fail, Settles
<1> QED
    BY <1>1, <1>2, <1>3, <1>4 DEF Next

\* A soft delete in the database changes nothing else.
LEMMA BulkDeleteFields ==
    ASSUME TypeOK, BulkDelete
    PROVE  /\ goal' \in Goal /\ goal'.deleted = TRUE /\ goal'.stored = goal.stored
           /\ goal'.target = goal.target /\ goal'.amount = goal.amount
           /\ goal'.achieved = goal.achieved /\ goal'.milestones = goal.milestones
           /\ goal'.version = goal.version
BY DEF TypeOK, BulkDelete, Goal

\* When a request has reached the sum, it is an amount.
LEMMA TypeStep ==
    ASSUME TypeOK, [Next]_vars
    PROVE  TypeOK'
<1>1. CASE UNCHANGED vars
    BY <1>1 DEF TypeOK, vars
<1>2. CASE BulkDelete
    BY <1>2, BulkDeleteFields DEF TypeOK, BulkDelete
<1>3. ASSUME NEW r \in Requests, Creates(r)
      PROVE  TypeOK'
    BY <1>3 DEF TypeOK, Creates, Moves, Goal
<1>4. ASSUME NEW r \in Requests, Begins(r)
      PROVE  TypeOK'
    BY <1>4 DEF TypeOK, Begins
<1>5. ASSUME NEW r \in Requests, Saves(r)
      PROVE  TypeOK'
  <2>1. job[r] \in Job /\ goal \in Goal /\ goal.target \in Amounts /\ job[r].by \in Amounts
      BY DEF TypeOK, Job, Goal
  <2>2. Saved(job[r]) \in Goal
      BY <2>1, SavedFields
  <2>3. balance' \in Amounts
      BY <1>5, <2>1, ReachedType DEF Saves, TypeOK
  <2> QED
      BY <1>5, <2>2, <2>3 DEF TypeOK, Saves, Moves, boundVars
<1>6. ASSUME NEW r \in Requests, Checks(r)
      PROVE  TypeOK'
    BY <1>6 DEF TypeOK, Checks, Moves, boundVars
<1>7. ASSUME NEW r \in Requests, Settles(r)
      PROVE  TypeOK'
  <2>1. job[r] \in Job /\ goal \in Goal
      BY DEF TypeOK
  <2>2. Saved(job[r]) \in Goal
      BY <2>1, SavedFields
  <2>3. CASE Mark(r) /\ Ends(r)
      BY <2>2, <2>3 DEF TypeOK, Mark, Ends, Moves, boundVars
  <2>4. CASE Conflict(r) /\ Ends(r)
      BY <2>4 DEF TypeOK, Conflict, Ends, Moves, boundVars
  <2>5. CASE Fail(r) /\ Ends(r)
      BY <2>5 DEF TypeOK, Fail, Ends, Moves
  <2> QED
      BY <1>7, <2>3, <2>4, <2>5 DEF Settles
<1> QED
    BY <1>1, <1>2, <1>3, <1>4, <1>5, <1>6, <1>7, NextDoes

-----------------------------------------------------------------------------
(* The requests under way                                                  *)

LEMMA JobsStep ==
    ASSUME TypeOK, JobsInv, [Next]_vars
    PROVE  JobsInv'
<1> USE DEF JobsInv
<1>1. CASE UNCHANGED vars
    BY <1>1 DEF vars, Fits, Derived, Marking
<1>2. CASE BulkDelete
    BY <1>2, BulkDeleteFields DEF BulkDelete, Fits, Derived, Marking
<1>3. ASSUME NEW r \in Requests, Moves(r), Fits(job[r])', goal.stored => goal'.stored,
             goal.version <= goal'.version, goal' \in Goal
      PROVE  JobsInv'
  <2> SUFFICES ASSUME NEW q \in Requests \ {r} PROVE Fits(job[q])'
      BY <1>3
  <2>1. /\ job'[q] = job[q] /\ Fits(job[q]) /\ job[q] \in Job
        /\ goal.version \in Nat /\ goal'.version \in Nat /\ job[q].loaded.version \in Nat
      BY <1>3 DEF Moves, TypeOK, Goal, Job
  <2> QED
      BY <1>3, <2>1 DEF Fits, Derived, Marking
<1>4. goal \in Goal /\ goal' \in Goal /\ goal.version \in Nat
    BY TypeStep DEF TypeOK, Goal
<1>5. ASSUME NEW r \in Requests, Creates(r)
      PROVE  JobsInv'
  <2>1. \A q \in Requests : job[q].op = "idle"
      BY <1>5 DEF Creates, Fits
  <2>2. \A q \in Requests \ {r} : job'[q] = job[q]
      BY <1>5 DEF Creates, Moves
  <2>3. job'[r].kind = "none" /\ job'[r].op = "check" /\ goal'.stored
      BY <1>5 DEF Creates, Fits
  <2> QED
      BY <2>1, <2>2, <2>3 DEF Fits
<1>6. ASSUME NEW r \in Requests, Begins(r)
      PROVE  JobsInv'
    BY <1>3, <1>4, <1>6 DEF Begins, Moves, Fits, Visible, Derived
<1>7. ASSUME NEW r \in Requests, Saves(r)
      PROVE  JobsInv'
  <2>1. job[r] \in Job /\ job[r].op = "save" /\ goal' = Saved(job[r]) /\ Fits(job[r])
      BY <1>7 DEF Saves, TypeOK
  <2>2. goal'.stored = goal.stored /\ goal.version <= goal'.version
      BY <1>4, <2>1, SavedFields
  <2>3. Fits(job[r])'
      BY <1>7, <2>1, <2>2 DEF Saves, Fits
  <2> QED
      BY <1>3, <1>4, <1>7, <2>2, <2>3 DEF Saves
<1>8. ASSUME NEW r \in Requests, Checks(r)
      PROVE  JobsInv'
  <2>1. goal' = goal /\ Moves(r) /\ job[r].op = "check" /\ Fits(job[r])
      BY <1>8 DEF Checks
  <2>2. CASE job'[r] = Idle
      BY <1>3, <1>4, <2>1, <2>2, IdleFields DEF Fits
  <2>3. CASE job'[r].op = "mark" /\ job'[r].loaded = goal /\ Marking(job'[r]) /\ Visible
      BY <1>3, <1>4, <2>1, <2>3 DEF Fits, Visible, Marking
  <2> QED
      BY <1>8, <2>2, <2>3 DEF Checks
<1>9. ASSUME NEW r \in Requests, Settles(r)
      PROVE  JobsInv'
  <2>1. job[r] \in Job /\ Ends(r)
      BY <1>9 DEF Settles, TypeOK
  <2>2. Fits(job[r])'
      BY <2>1, IdleFields DEF Ends, Fits
  <2>3. goal' = Saved(job[r]) \/ goal' = goal
      BY <1>9 DEF Settles, Mark, Conflict, Fail
  <2>4. goal'.stored = goal.stored /\ goal.version <= goal'.version
      BY <1>4, <2>1, <2>3, SavedFields
  <2> QED
      BY <1>3, <1>4, <2>1, <2>2, <2>4 DEF Ends
<1> QED
    BY <1>1, <1>2, <1>5, <1>6, <1>7, <1>8, <1>9, NextDoes

-----------------------------------------------------------------------------
(* The sum                                                                 *)

\* A request that does not hold the sum leaves it alone when it saves.
LEMMA OthersSave ==
    ASSUME TypeOK, JobsInv, NEW r \in Requests, job[r].op \in {"save", "mark"}, r \notin Movers
    PROVE  /\ job[r].kind \in {"keep", "none"}
           /\ Saved(job[r]).amount = goal.amount /\ Saved(job[r]).target = goal.target
           /\ Saved(job[r]).achieved = goal.achieved
<1>1. job[r] \in Job /\ goal \in Goal /\ Fits(job[r])
    BY DEF TypeOK, JobsInv
<1>2. job[r].loaded \in Goal /\ job[r].mine \in Goal
    BY <1>1 DEF Job
<1>3. CASE job[r].op = "save"
  <2>1. /\ job[r].kind \notin Contributions
        /\ job[r].kind = "keep" => /\ job[r].mine.target = job[r].loaded.target
                                  /\ job[r].mine.achieved = job[r].loaded.achieved
      BY <1>3 DEF Movers, Holds
  <2>2. job[r].kind \in {"keep", "none"}
      BY <1>1, <2>1 DEF Job
  <2>3. /\ job[r].mine.amount = job[r].loaded.amount
        /\ job[r].mine.target = job[r].loaded.target
        /\ job[r].mine.achieved = job[r].loaded.achieved
      BY <1>1, <1>3, <2>1, <2>2 DEF Fits, Derived, Reached
  <2> QED
      BY <1>1, <2>2, <2>3, SavedFields
<1>4. CASE job[r].op = "mark"
    BY <1>1, <1>4, SavedFields DEF Fits, Marking
<1> QED
    BY <1>3, <1>4

\* Alone with the sum, a request saves what it has made of it.
LEMMA MoverSaves ==
    ASSUME TypeOK, JobsInv, SumInv, "overlap" \notin causes, NEW r \in Movers
    PROVE  /\ Saved(job[r]).amount = job[r].mine.amount
           /\ Saved(job[r]).target = job[r].mine.target
           /\ Saved(job[r]).achieved = job[r].mine.achieved
           /\ job[r].mine.amount = Reached(job[r].kind, job[r].by, balance, goal.target)
<1>1. r \in Requests /\ job[r] \in Job /\ goal \in Goal /\ Fits(job[r])
    BY DEF TypeOK, JobsInv, Movers
<1>2. /\ job[r].loaded.amount = goal.amount /\ job[r].loaded.target = goal.target
      /\ job[r].loaded.achieved = goal.achieved /\ goal.amount = balance
    BY DEF SumInv
<1>3. /\ Saved(job[r]).amount = job[r].mine.amount
      /\ Saved(job[r]).target = job[r].mine.target
      /\ Saved(job[r]).achieved = job[r].mine.achieved
    BY <1>1, <1>2, SavedFields
<1> QED
    BY <1>1, <1>2, <1>3 DEF Fits, Derived, Movers

\* A saved document, whoever has saved it.
LEMMA SumAfterSave ==
    ASSUME TypeOK, JobsInv, SumInv, "overlap" \notin causes, NEW r \in Requests,
           job[r].op \in {"save", "mark"}, goal' = Saved(job[r]), causes' = causes,
           Moves(r), job'[r].op \in {"idle", "check"},
           balance' = IF job[r].op = "save"
                      THEN Reached(job[r].kind, job[r].by, balance, goal.target) ELSE balance
    PROVE  SumInv'
<1>1. Movers' = Movers \ {r}
    BY DEF Movers, Moves, Holds
<1>2. \A q \in Movers' : job'[q] = job[q] /\ q \in Movers
    BY <1>1 DEF Moves, Movers
<1>3. job[r] \in Job /\ goal \in Goal /\ Fits(job[r]) /\ goal.stored
    BY DEF TypeOK, JobsInv, Fits
<1>4. CASE r \in Movers
  <2>1. Movers' = {}
      BY <1>1, <1>4 DEF SumInv
  <2>2. goal'.amount = balance'
      BY <1>4, MoverSaves DEF Movers
  <2>3. Agrees(goal)'
      BY <1>4, MoverSaves DEF SumInv, Agrees
  <2> QED
      BY <2>1, <2>2, <2>3 DEF SumInv
<1>5. CASE r \notin Movers
  <2>1. /\ job[r].kind \in {"keep", "none"} /\ goal'.amount = goal.amount /\ goal'.target = goal.target
        /\ goal'.achieved = goal.achieved
      BY <1>5, OthersSave
  <2>2. balance' = balance
      BY <2>1 DEF Reached
  <2> QED
      BY <1>1, <1>2, <1>3, <2>1, <2>2 DEF SumInv, Agrees
<1> QED
    BY <1>4, <1>5

LEMMA SumStep ==
    ASSUME TypeOK, JobsInv, SumInv, [Next]_vars
    PROVE  SumInv'
<1> SUFFICES ASSUME "overlap" \notin causes'
             PROVE  SumInv'
    BY DEF SumInv
<1>1. CASE UNCHANGED vars
    BY <1>1 DEF vars, SumInv, Movers, Holds, Agrees
<1>2. CASE BulkDelete
    BY <1>2, BulkDeleteFields DEF BulkDelete, SumInv, Movers, Holds, Agrees
<1>3. ASSUME NEW r \in Requests, Creates(r)
      PROVE  SumInv'
  <2>1. \A q \in Requests : job[q].op = "idle"
      BY <1>3 DEF Creates, JobsInv, Fits
  <2>2. Movers' = {}
      BY <1>3, <2>1 DEF Creates, Moves, Movers
  <2>3. goal'.amount = balance' /\ Agrees(goal)'
      BY <1>3 DEF Creates, Agrees
  <2> QED
      BY <2>2, <2>3 DEF SumInv
<1>4. ASSUME NEW r \in Requests, Begins(r)
      PROVE  SumInv'
  <2>1. /\ "overlap" \notin causes /\ causes \subseteq causes' /\ goal' = goal /\ balance' = balance
        /\ ("bornFull" \in causes' => "bornFull" \in causes)
        /\ r \notin Movers' \/ \A q \in Movers' : q = r
        /\ job'[r].loaded = goal /\ (Agrees(goal) => Agrees(job'[r].mine)) /\ goal.stored
      BY <1>4 DEF Begins, Visible
  <2>2. Movers' \ {r} = Movers \ {r} /\ r \notin Movers
      BY <1>4 DEF Movers, Begins, Holds
  <2>3. SumInv /\ goal.amount = balance /\ Agrees(goal) /\ \A q, p \in Movers : q = p
      BY <2>1 DEF SumInv
  <2>4. Agrees(goal)'
      BY <2>1, <2>3 DEF Agrees
  <2>5. ASSUME NEW q \in Movers'
        PROVE  /\ job'[q].loaded.amount = goal.amount /\ job'[q].loaded.target = goal.target
               /\ job'[q].loaded.achieved = goal.achieved /\ Agrees(job[q].mine)'
    <3>1. CASE q = r
        BY <2>1, <2>3, <2>5, <3>1 DEF Agrees
    <3>2. CASE q # r
      <4>1. q \in Movers /\ job'[q] = job[q]
          BY <1>4, <2>2, <2>5, <3>2 DEF Begins, Movers
      <4> QED
          BY <2>1, <2>3, <4>1 DEF SumInv, Agrees
    <3> QED
        BY <3>1, <3>2
  <2>6. \A q, p \in Movers' : q = p
      BY <2>1, <2>2, <2>3
  <2> QED
      BY <2>1, <2>3, <2>4, <2>5, <2>6 DEF SumInv
<1>6. ASSUME NEW r \in Requests, Checks(r)
      PROVE  SumInv'
  <2>1. /\ goal' = goal /\ balance' = balance /\ job'[r].op # "save" /\ job[r].op # "save"
        /\ ("overlap" \in causes' <=> "overlap" \in causes)
        /\ ("bornFull" \in causes' <=> "bornFull" \in causes)
      BY <1>6, IdleFields DEF Checks
  <2>2. Movers' = Movers /\ \A q \in Movers : job'[q] = job[q]
      BY <1>6, <2>1 DEF Movers, Holds, Checks, Moves
  <2> QED
      BY <2>1, <2>2 DEF SumInv, Agrees
<1>7. ASSUME NEW r \in Requests, Saves(r)
      PROVE  SumInv'
    BY <1>7, SumAfterSave DEF Saves
<1>8. ASSUME NEW r \in Requests, Settles(r)
      PROVE  SumInv'
  <2>1. Ends(r) /\ job'[r].op = "idle" /\ Moves(r)
      BY <1>8, IdleFields DEF Settles, Ends
  <2>2. CASE Mark(r)
      BY <2>1, <2>2, SumAfterSave DEF Mark
  <2>3. CASE Conflict(r) \/ Fail(r)
    <3>1. goal' = goal /\ balance' = balance /\ causes \subseteq causes'
          /\ causes' \subseteq causes \cup {"failed"}
        BY <2>3 DEF Conflict, Fail
    <3>2. Movers' \subseteq Movers /\ \A q \in Movers' : job'[q] = job[q]
        BY <2>1 DEF Movers, Holds, Moves
    <3> QED
        BY <3>1, <3>2 DEF SumInv, Agrees
  <2> QED
      BY <1>8, <2>2, <2>3 DEF Settles
<1> QED
    BY <1>1, <1>2, <1>3, <1>4, <1>6, <1>7, <1>8, NextDoes

-----------------------------------------------------------------------------
(* The milestones                                                          *)

LEMMA FreshStep ==
    ASSUME TypeOK, JobsInv, FreshInv, [Next]_vars
    PROVE  FreshInv'
<1>1. CASE UNCHANGED vars
    BY <1>1 DEF vars, FreshInv
<1>2. CASE BulkDelete
    BY <1>2, BulkDeleteFields DEF FreshInv
<1>3. ASSUME NEW r \in Requests, job[r].op \in {"save", "mark"}, goal' = Saved(job[r])
      PROVE  FreshInv'
    BY <1>3, SavedFields DEF FreshInv, TypeOK, JobsInv, Fits
<1>4. ASSUME NEW r \in Requests, Creates(r) \/ Begins(r) \/ Saves(r) \/ Checks(r) \/ Settles(r)
      PROVE  FreshInv'
    BY <1>3, <1>4
       DEF FreshInv, Creates, Begins, Saves, Checks, Settles, Mark, Conflict, Fail
<1> QED
    BY <1>1, <1>2, <1>4, NextDoes

\* A goal once deleted stays deleted, so that its milestones matter no more.
LEMMA DeletedStays ==
    ASSUME TypeOK, JobsInv, NEW r \in Requests, job[r].op \in {"save", "mark"}
    PROVE  /\ goal.deleted => Saved(job[r]).deleted
           /\ job[r].op = "save" /\ job[r].kind = "none" => Saved(job[r]).deleted
BY SavedFields DEF TypeOK, JobsInv, Fits, Derived, Marking, Job, Goal

LEMMA CaughtStep ==
    ASSUME TypeOK, JobsInv, CaughtInv, [Next]_vars
    PROVE  CaughtInv'
<1> SUFFICES ASSUME Visible', "failed" \notin causes'
             PROVE  CaughtInv'
    BY DEF CaughtInv
<1>1. CASE UNCHANGED vars
    BY <1>1 DEF vars, CaughtInv, Visible, Covers
<1>2. CASE BulkDelete
    BY <1>2, BulkDeleteFields DEF Visible
<1>3. ASSUME NEW r \in Requests, job'[r].op = "check"
      PROVE  CaughtInv'
  <2>1. \A m \in Marks : Covers(r, m)'
      BY <1>3 DEF Covers
  <2> QED
      BY <2>1 DEF CaughtInv
<1>4. ASSUME NEW r \in Requests, Creates(r)
      PROVE  CaughtInv'
    BY <1>3, <1>4 DEF Creates
<1>5. ASSUME NEW r \in Requests, Begins(r)
      PROVE  CaughtInv'
  <2>1. "failed" \notin causes /\ goal' = goal /\ Visible
      BY <1>5 DEF Begins
  <2>2. \A q \in Requests, m \in Marks : Covers(q, m) => Covers(q, m)'
      BY <1>5, <2>1 DEF Begins, Covers
  <2> QED
      BY <2>1, <2>2 DEF CaughtInv
<1>6. ASSUME NEW r \in Requests, Saves(r)
      PROVE  CaughtInv'
  <2>1. job[r].kind # "none"
      BY <1>6, DeletedStays DEF Saves, Visible
  <2> QED
      BY <1>3, <1>6, <2>1 DEF Saves
<1>7. ASSUME NEW r \in Requests, Checks(r)
      PROVE  CaughtInv'
  <2>1. goal' = goal /\ Visible
      BY <1>7 DEF Checks, Visible
  <2>2. CASE Passed(goal) = {}
    <3>1. \A m \in Marks : goal.milestones[m] = "open" => ~(goal.amount >= m)
        BY <2>2 DEF Passed
    <3> QED
        BY <2>1, <3>1 DEF CaughtInv
  <2>3. CASE /\ job'[r].op = "mark" /\ job'[r].loaded = goal
             /\ \A m \in Passed(goal) : job'[r].mine.milestones[m] = "done"
    <3>1. \A m \in Passed(goal) : Covers(r, m)'
        BY <2>1, <2>3 DEF Covers, Passed
    <3>2. \A m \in Marks : goal'.milestones[m] = "open" /\ goal'.amount >= m => m \in Passed(goal)
        BY <2>1 DEF Passed
    <3> QED
        BY <3>1, <3>2 DEF CaughtInv
  <2> QED
      BY <1>7, <2>1, <2>2, <2>3 DEF Checks
<1>8. ASSUME NEW r \in Requests, Settles(r)
      PROVE  CaughtInv'
  <2>1. job'[r].op = "idle" /\ \A q \in Requests \ {r} : job'[q] = job[q]
      BY <1>8, IdleFields DEF Settles, Ends, Moves
  <2>2. CASE Fail(r)
      BY <2>2 DEF Fail
  <2>3. CASE Conflict(r)
    <3>1. /\ goal' = goal /\ causes' = causes /\ Visible /\ job[r].op # "check"
          /\ (job[r].op = "mark" => job[r].loaded.version # goal.version)
        BY <2>3 DEF Conflict, Stale, Visible
    <3>2. \A q \in Requests, m \in Marks : Covers(q, m) => Covers(q, m)'
        BY <2>1, <3>1 DEF Covers
    <3> QED
        BY <3>1, <3>2 DEF CaughtInv
  <2>4. CASE Mark(r)
    <3>1. /\ job[r] \in Job /\ goal \in Goal /\ job[r].op = "mark" /\ Marking(job[r])
          /\ job[r].loaded.version = goal.version /\ goal.stored
          /\ goal' = Saved(job[r]) /\ causes' = causes
        BY <2>4 DEF Mark, TypeOK, JobsInv, Fits, Stale, Guarded
    <3>2. Visible /\ CaughtInv
        BY <3>1, DeletedStays DEF Visible
    <3>3. /\ goal'.version = goal.version /\ goal'.amount = goal.amount
          /\ \A m \in Marks : goal'.milestones[m] =
                 IF job[r].mine.milestones[m] # job[r].loaded.milestones[m]
                 THEN job[r].mine.milestones[m] ELSE goal.milestones[m]
        BY <3>1, SavedFields DEF Marking
    <3>4. ASSUME NEW m \in Marks, goal'.milestones[m] = "open", goal'.amount >= m
          PROVE  \E q \in Requests : Covers(q, m)'
      <4>1. goal.milestones[m] = "open" /\ goal.amount >= m
          BY <3>1, <3>3, <3>4 DEF Marking
      <4>2. PICK q \in Requests : Covers(q, m)
          BY <3>1, <3>2, <4>1 DEF CaughtInv
      <4>3. q # r
          BY <3>1, <3>3, <3>4, <4>2 DEF Covers
      <4>4. Covers(q, m)'
          BY <2>1, <3>3, <4>2, <4>3 DEF Covers
      <4> QED
          BY <4>4
    <3> QED
        BY <3>4 DEF CaughtInv
  <2> QED
      BY <1>8, <2>2, <2>3, <2>4 DEF Settles
<1> QED
    BY <1>1, <1>2, <1>4, <1>5, <1>6, <1>7, <1>8, NextDoes

-----------------------------------------------------------------------------
(* The theorems                                                            *)

LEMMA GoalInit == Init => GoalInv
<1> SUFFICES ASSUME Init PROVE GoalInv
    OBVIOUS
<1>1. /\ goal = NoGoal /\ job = [r \in Requests |-> Idle] /\ balance = 0 /\ causes = {}
      /\ requestsLeft = MaxRequests /\ failuresLeft = MaxFailures
    BY DEF Init
<1>2. NoGoal.stored = FALSE /\ NoGoal.amount = 0 /\ NoGoal.milestones = NoMilestones
    BY DEF NoGoal
<1>3. TypeOK
    BY <1>1, NoGoalType, IdleType, AmountAssumption, GoalBoundsAssumption DEF TypeOK, Amounts
<1>4. \A r \in Requests : job[r].op = "idle" /\ job[r].kind = "none"
    BY <1>1, IdleFields
<1>5. JobsInv /\ FreshInv
    BY <1>1, <1>2, <1>4 DEF JobsInv, Fits, FreshInv
<1>6. Movers = {}
    BY <1>4 DEF Movers
<1>7. SumInv
    BY <1>1, <1>2, <1>6 DEF SumInv
<1>8. CaughtInv
    BY <1>1, <1>2 DEF CaughtInv, Visible
<1> QED
    BY <1>3, <1>5, <1>7, <1>8 DEF GoalInv

LEMMA GoalStep == GoalInv /\ [Next]_vars => GoalInv'
BY TypeStep, JobsStep, SumStep, FreshStep, CaughtStep DEF GoalInv

\* The inductive invariant of the service's requests on one goal.
THEOREM GoalInvariant == Spec => []GoalInv
BY GoalInit, GoalStep, PTL DEF Spec

\* Every save leaves a document of the schema's shape with an amount in range (save).
THEOREM GoalTypes == Spec => []TypeOK
<1>1. GoalInv => TypeOK
    BY DEF GoalInv
<1> QED
    BY <1>1, GoalInvariant, PTL

\* Unless two requests hold the sum at the same time, the amount is the one that the requests
\* make one after the other (addAmount, subtractAmount, update).
THEOREM NothingIsLost == Spec => []NothingLost
<1>1. GoalInv => NothingLost
    BY DEF GoalInv, SumInv, NothingLost
<1> QED
    BY <1>1, GoalInvariant, PTL

\* Under the same condition `achieved` follows the amount and the target through every save,
\* updates that leave either out included (update).
THEOREM AchievedIsRight == Spec => []AchievedAgrees
<1>1. GoalInv => AchievedAgrees
    BY DEF GoalInv, SumInv, AchievedAgrees, Agrees
<1> QED
    BY <1>1, GoalInvariant, PTL

\* checkAndUpdateMilestones catches up with every amount reached, in spite of overlapping
\* requests and of saves that the version refuses; and with what a failed request left.
THEOREM MilestonesCatchUp == Spec => []MilestonesCaughtUp
<1>1. GoalInv => MilestonesCaughtUp
  <2> SUFFICES ASSUME GoalInv, Visible, "failed" \notin causes,
                      \A r \in Requests : job[r] = Idle
               PROVE  \A m \in Marks : goal.milestones[m] = "open" => goal.amount < m
      BY DEF MilestonesCaughtUp
  <2>1. \A r \in Requests, m \in Marks : ~Covers(r, m)
      BY IdleFields DEF Covers
  <2>2. CaughtInv /\ goal.amount \in Nat /\ \A m \in Marks : m \in Nat
      BY AmountAssumption DEF GoalInv, TypeOK, Goal, Amounts
  <2> QED
      BY <2>1, <2>2 DEF CaughtInv
<1> QED
    BY <1>1, GoalInvariant, PTL

\* Only an update that brings milestones takes a reached one back: a contribution, a removal, a
\* marking or any other update, saved from a copy however old, never does (Document.save writes
\* what the request changed).
THEOREM ReachedStays == Spec => ReachedStaysReached
<1> DEFINE Brings(r) == /\ job[r].kind \in {"set", "keep"} /\ job[r].whole
                        /\ job'[r].op = "check"
<1>1. ASSUME GoalInv, [Next]_vars
      PROVE  [Reopened # {} => \E r \in Requests : job[r].kind \in {"set", "keep"} /\ job[r].whole
                                                   /\ job'[r].op = "check"]_vars
  <2> SUFFICES ASSUME Next, NEW m \in Marks, goal.milestones[m] = "done",
                      goal'.milestones[m] # "done"
               PROVE  \E r \in Requests : Brings(r)
      BY <1>1 DEF Reopened
  <2>1. TypeOK /\ JobsInv /\ FreshInv /\ goal \in Goal
      BY <1>1 DEF GoalInv, TypeOK
  <2>2. goal.stored
      BY <2>1 DEF FreshInv, NoMilestones
  <2>3. ~BulkDelete
      BY <2>1, BulkDeleteFields
  <2>4. ASSUME NEW r \in Requests, job[r].op \in {"save", "mark"}, goal' = Saved(job[r])
        PROVE  job[r].op = "save" /\ job[r].whole /\ job[r].kind \in {"set", "keep"}
    <3>1. job[r] \in Job /\ Fits(job[r])
        BY <2>1 DEF TypeOK, JobsInv
    <3>2. job[r].whole
      <4>1. ~job[r].whole => \A n \in Marks :
                job[r].mine.milestones[n] # job[r].loaded.milestones[n]
                    => job[r].mine.milestones[n] = "done"
          BY <2>4, <3>1 DEF Fits, Derived, Marking
      <4> QED
          BY <2>1, <2>4, <3>1, <4>1, SavedFields DEF Job
    <3> QED
        BY <2>4, <3>1, <3>2 DEF Fits, Derived, Marking
  <2>5. ASSUME NEW r \in Requests, Creates(r) \/ Begins(r) \/ Checks(r) \/ Settles(r)
        PROVE  FALSE
      BY <2>1, <2>2, <2>4, <2>5
         DEF Creates, Begins, Checks, Settles, Mark, Conflict, Fail
  <2>6. ASSUME NEW r \in Requests, Saves(r)
        PROVE  Brings(r)
      BY <2>4, <2>6 DEF Saves
  <2> QED
      BY <2>1, <2>3, <2>5, <2>6, NextDoes
<1> QED
    BY <1>1, GoalInvariant, PTL DEF Spec, ReachedStaysReached
=============================================================================
