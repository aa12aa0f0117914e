---------------------------- MODULE FinancialGoals ----------------------------
(***************************************************************************)
(* One savings goal (FinanceFinancialGoalsService); no operation touches   *)
(* two.  A contribution is four awaits: load, save the new amount, load    *)
(* again, save the milestones it reached.  mongoose writes the paths that  *)
(* differ from the document as it was loaded, and guards writes to the     *)
(* milestones array with the document's version.                           *)
(***************************************************************************)
EXTENDS Naturals, FiniteSets

CONSTANTS
    Requests,       \* HTTP requests of the user in flight at the same time
    Targets,        \* target amounts
    Marks,          \* amounts of milestones
    MaxAmount,      \* bound: amounts that users send
    MaxRequests,    \* bound: requests served in one behaviour
    MaxFailures     \* bound: writes that fail

ASSUME AmountAssumption ==
    /\ MaxAmount \in Nat
    /\ Targets \subseteq 1..MaxAmount
    /\ Marks \subseteq 1..MaxAmount
ASSUME GoalBoundsAssumption == MaxRequests \in Nat /\ MaxFailures \in Nat

VARIABLES
    goal,       \* the document
    job,        \* what each request awaits
    requestsLeft, failuresLeft,
    balance,    \* history: the amount, had each request seen the result of the one before
    causes      \* history: what may have upset the goal

boundVars == <<requestsLeft, failuresLeft>>
vars == <<goal, job, requestsLeft, failuresLeft, balance, causes>>

-----------------------------------------------------------------------------
Amounts == 0..MaxAmount
Milestones == [Marks -> {"none", "open", "done"}]
NoMilestones == [m \in Marks |-> "none"]

Goal == [stored : BOOLEAN, deleted : BOOLEAN, target : Amounts, amount : Amounts,
         achieved : BOOLEAN, milestones : Milestones, version : Nat]

NoGoal == [stored |-> FALSE, deleted |-> FALSE, target |-> 0, amount |-> 0,
           achieved |-> FALSE, milestones |-> NoMilestones, version |-> 0]

\* `set` is an update that brings an amount, `keep` one that leaves it out.  `whole`: the save
\* replaces the milestones array, which is checked against the version.
Contributions == {"add", "subtract", "set"}
Job == [op : {"idle", "save", "check", "mark"}, kind : Contributions \cup {"keep", "none"},
        by : Amounts, loaded : Goal, mine : Goal, whole : BOOLEAN]

Idle == [op |-> "idle", kind |-> "none", by |-> 0, loaded |-> NoGoal, mine |-> NoGoal,
         whole |-> FALSE]

Visible == goal.stored /\ ~goal.deleted

Smaller(a, b) == IF a < b THEN a ELSE b

\* Mutant: the amount saved is not capped.
ReachedUncapped(kind, by, amount, target) ==
    CASE kind = "add"      -> amount + by
      [] kind = "subtract" -> amount - Smaller(by, amount)
      [] kind = "set"      -> by
      [] OTHER             -> amount

\* The amount a request makes of the one it finds.
Reached(kind, by, amount, target) ==
    CASE kind = "add"      -> Smaller(amount + by, target)
      [] kind = "subtract" -> amount - Smaller(by, amount)
      [] kind = "set"      -> by
      [] OTHER             -> amount

\* A copy of the sum: a new amount, or a target or `achieved` to go with the one loaded.
Holds(j) == \/ j.kind \in Contributions
            \/ j.kind = "keep" /\ \/ j.mine.target # j.loaded.target
                                  \/ j.mine.achieved # j.loaded.achieved

Movers == {r \in Requests : job[r].op = "save" /\ Holds(job[r])}

\* A request has loaded the goal, made its checks and awaits its save.
Start(r, kind, by, mine, whole) ==
    /\ job[r].op = "idle" /\ Visible
    /\ requestsLeft > 0 /\ requestsLeft' = requestsLeft - 1
    /\ job' = [job EXCEPT ![r] = [op |-> "save", kind |-> kind, by |-> by, loaded |-> goal,
                                  mine |-> mine, whole |-> whole]]
    /\ causes' = causes \cup (IF \E q \in Movers' : q # r /\ r \in Movers'
                              THEN {"overlap"} ELSE {})
    /\ UNCHANGED <<goal, failuresLeft, balance>>

-----------------------------------------------------------------------------
(* Requests, up to the first save                                          *)

\* create saves achieved = false whatever the amount.
Create(r) ==
    /\ job[r].op = "idle" /\ ~goal.stored
    /\ requestsLeft > 0 /\ requestsLeft' = requestsLeft - 1
    /\ \E target \in Targets, amount \in Amounts, marks \in SUBSET Marks :
          /\ \A m \in marks : m <= target
          /\ goal' = [NoGoal EXCEPT !.stored = TRUE, !.target = target, !.amount = amount,
                         !.milestones = [m \in Marks |-> IF m \in marks THEN "open" ELSE "none"]]
          /\ balance' = amount
          /\ causes' = causes \cup (IF amount >= target THEN {"bornFull"} ELSE {})
    /\ job' = [job EXCEPT ![r].op = "check"]
    /\ UNCHANGED failuresLeft

\* Contributions to an achieved goal are refused.
AddAmount(r, by) ==
    LET sum == Reached("add", by, goal.amount, goal.target)
    IN  /\ by > 0 /\ ~goal.achieved
        /\ Start(r, "add", by, [goal EXCEPT !.amount = sum, !.achieved = sum >= goal.target],
                 FALSE)

\* Mutant: an amount that drops below the target leaves the goal achieved.
SubtractOnly(r, by) ==
    /\ by > 0
    /\ Start(r, "subtract", by,
             [goal EXCEPT !.amount = Reached("subtract", by, @, goal.target)], FALSE)

SubtractAmount(r, by) ==
    LET sum == Reached("subtract", by, goal.amount, goal.target)
    IN  /\ by > 0
        /\ Start(r, "subtract", by,
                 [goal EXCEPT !.amount = sum, !.achieved = @ /\ sum >= goal.target], FALSE)

\* Fields left out stay as they were loaded; milestones that are brought replace the array.
\* Whatever `achieved` is brought, the amount and the target decide.
Update(r) ==
    \E kind \in {"set", "keep"}, target \in Targets \cup {goal.target}, amount \in Amounts :
        LET g == [goal EXCEPT !.target = target, !.amount = amount,
                              !.achieved = amount >= target]
        IN  /\ kind = "keep" => amount = goal.amount
            /\ \/ Start(r, kind, amount, g, FALSE)
               \/ \E milestones \in Milestones :
                     /\ \A m \in Marks : m > target => milestones[m] = "none"
                     /\ Start(r, kind, amount, [g EXCEPT !.milestones = milestones], TRUE)

Remove(r) == Start(r, "none", 0, [goal EXCEPT !.deleted = TRUE], FALSE)

\* bulkSoftDelete is an updateMany: no version, no copy.
BulkDelete ==
    /\ Visible
    /\ requestsLeft > 0 /\ requestsLeft' = requestsLeft - 1
    /\ goal' = [goal EXCEPT !.deleted = TRUE]
    /\ UNCHANGED <<job, failuresLeft, balance, causes>>

-----------------------------------------------------------------------------
(* The saves                                                               *)

\* Mutant: save writes the whole document.
SavedWhole(j) == [j.mine EXCEPT !.version = goal.version]

\* Document.save: the paths that changed; milestones by position, or the whole array.
Saved(j) ==
    LET Written(f) == IF j.mine[f] # j.loaded[f] THEN j.mine[f] ELSE goal[f]
    IN  [goal EXCEPT
           !.deleted = Written("deleted"), !.target = Written("target"),
           !.amount = Written("amount"), !.achieved = Written("achieved"),
           !.milestones = IF j.whole THEN j.mine.milestones
                          ELSE [m \in Marks |->
                                  IF j.mine.milestones[m] # j.loaded.milestones[m]
                                  THEN j.mine.milestones[m] ELSE @[m]],
           !.version = IF j.whole THEN @ + 1 ELSE @]

Guarded(j) == j.whole \/ j.op = "mark"
Stale(j) == Guarded(j) /\ j.loaded.version # goal.version

Save(r) ==
    LET j == job[r]
    IN  /\ j.op = "save" /\ ~Stale(j)
        /\ goal' = Saved(j)
        /\ balance' = Reached(j.kind, j.by, balance, goal.target)
        /\ job' = [job EXCEPT ![r] = IF j.kind = "none" THEN Idle ELSE [Idle EXCEPT !.op = "check"]]
        /\ UNCHANGED <<boundVars, causes>>

\* Mutant: a milestone counts only once it is exceeded.
PassedBeyond(g) == {m \in Marks : g.milestones[m] = "open" /\ g.amount > m}

Passed(g) == {m \in Marks : g.milestones[m] = "open" /\ g.amount >= m}

\* checkAndUpdateMilestones, the load: nothing to mark, or a deleted goal, ends the request.
\* It sees to what a request that failed has left behind.
Check(r) ==
    /\ job[r].op = "check"
    /\ IF Visible /\ Passed(goal) # {}
       THEN job' = [job EXCEPT ![r] = [Idle EXCEPT !.op = "mark", !.loaded = goal,
                       !.mine = [goal EXCEPT !.milestones =
                                   [m \in Marks |-> IF m \in Passed(goal) THEN "done" ELSE @[m]]]]]
       ELSE job' = [job EXCEPT ![r] = Idle]
    /\ causes' = causes \ {"failed"}
    /\ UNCHANGED <<goal, boundVars, balance>>

Mark(r) ==
    /\ job[r].op = "mark" /\ ~Stale(job[r])
    /\ goal' = Saved(job[r])
    /\ job' = [job EXCEPT ![r] = Idle]
    /\ UNCHANGED <<boundVars, balance, causes>>

\* VersionError: another save has replaced the milestones since the load.
Conflict(r) ==
    /\ job[r].op \in {"save", "mark"} /\ Stale(job[r])
    /\ job' = [job EXCEPT ![r] = Idle]
    /\ UNCHANGED <<goal, boundVars, balance, causes>>

\* A call to the database throws, or the process dies: what is saved stays.
Fail(r) ==
    /\ job[r].op # "idle"
    /\ failuresLeft > 0 /\ failuresLeft' = failuresLeft - 1
    /\ job' = [job EXCEPT ![r] = Idle]
    /\ causes' = causes \cup {"failed"}
    /\ UNCHANGED <<goal, requestsLeft, balance>>

-----------------------------------------------------------------------------
Init ==
    /\ goal = NoGoal
    /\ job = [r \in Requests |-> Idle]
    /\ requestsLeft = MaxRequests /\ failuresLeft = MaxFailures
    /\ balance = 0
    /\ causes = {}

Request(r) ==
    \/ Create(r) \/ Update(r) \/ Remove(r)
    \/ \E by \in Amounts : AddAmount(r, by) \/ SubtractAmount(r, by)

Answer(r) == Save(r) \/ Check(r) \/ Mark(r) \/ Conflict(r)

Next ==
    \/ BulkDelete
    \/ \E r \in Requests : Request(r) \/ Answer(r) \/ Fail(r)

Spec == Init /\ [][Next]_vars

-----------------------------------------------------------------------------
(* Properties                                                              *)

TypeOK ==
    /\ goal \in Goal
    /\ job \in [Requests -> Job]
    /\ requestsLeft \in Nat /\ failuresLeft \in Nat
    /\ balance \in Amounts
    /\ causes \subseteq {"overlap", "bornFull", "failed"}

\* Unless two requests held the sum at the same time, no contribution is lost and none counts
\* twice, whatever else was saved, failed or deleted in between: an update that brings only
\* milestones among them.
NothingLost == "overlap" \notin causes => goal.amount = balance

\* Under the same condition `achieved` says whether the target is reached; a goal that was
\* created with its target reached is the exception.
AchievedAgrees ==
    ("overlap" \notin causes /\ goal.stored) =>
        /\ goal.achieved => goal.amount >= goal.target
        /\ goal.amount >= goal.target => goal.achieved \/ "bornFull" \in causes

\* When no request is under way, every milestone that the amount reaches is marked, even after
\* requests that overlapped and saves that were refused.  One that fails half-way may leave
\* some unmarked, but only until the next contribution or update looks at them.
MilestonesCaughtUp ==
    (Visible /\ "failed" \notin causes /\ \A r \in Requests : job[r] = Idle)
        => \A m \in Marks : goal.milestones[m] = "open" => goal.amount < m

\* Only an update that brings milestones takes a reached one back.
Reopened == {m \in Marks : goal.milestones[m] = "done" /\ goal'.milestones[m] # "done"}
ReachedStaysReached ==
    [][Reopened # {} => \E r \in Requests : job[r].kind \in {"set", "keep"} /\ job[r].whole
                                           /\ job'[r].op = "check"]_vars
=============================================================================
