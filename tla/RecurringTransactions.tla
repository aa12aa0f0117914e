----------------------- MODULE RecurringTransactions -----------------------
(***************************************************************************)
(* Recurring transactions: the documents of the collection, the users'     *)
(* requests that change them (FinanceRecurringTransactionsService) and the *)
(* daily cron job that turns them into transactions                        *)
(* (SchedulerService.handleRecurringTransactionGeneration).                *)
(*                                                                         *)
(* Every handler loads a document, awaits, and saves it.  Between the two  *)
(* any other handler of any process may run, so a handler is a job: an     *)
(* action that loads, and a later one that saves.  Nothing locks a series. *)
(***************************************************************************)
EXTENDS RecurrenceCalendar, FiniteSets

CONSTANTS
    Series,         \* identifiers of recurring transaction documents
    Crons,          \* processes that load SchedulerModule, each with its own cron
    Requests,       \* HTTP requests in flight at the same time
    UserFrequencies, UserIntervals, UserDates,  \* what the users' DTOs ask for
    Horizon,        \* bound: the last date of the clock
    MaxRequests,    \* bound: requests served in one behaviour
    MaxFailures     \* bound: failed writes, crashes and missed runs

ASSUME ActorsAssumption == Crons \cap Requests = {} /\ Series # {}
ASSUME ScheduleAssumption ==
    /\ UserFrequencies \subseteq Frequencies
    /\ UserIntervals \subseteq Nat \ {0}
    /\ UserDates \subseteq Nat
ASSUME BoundsAssumption ==
    /\ Horizon \in Nat /\ Horizon % SlotsPerDay = 0
    /\ MaxRequests \in Nat
    /\ MaxFailures \in Nat

VARIABLES
    now,        \* the clock, in half days
    stored,     \* which documents exist (soft-deleted ones still do)
    docs,       \* their fields
    job,        \* what each cron process and request is doing
    armed,      \* crons whose 1 AM trigger of today is still to come
    due,        \* what is left of each cron's list of due documents
    requestsLeft, failuresLeft,
    posted,     \* history: dates for which a series has a transaction
    reposted,   \* history: dates for which it has more than one
    made,       \* history: number of transactions made from a series
    causes      \* history: what may have led a series to repeat a date

dbVars == <<stored, docs>>
cronVars == <<armed, due>>
ledgerVars == <<posted, reposted, made>>
vars == <<now, stored, docs, job, armed, due, requestsLeft, failuresLeft,
          posted, reposted, made, causes>>

-----------------------------------------------------------------------------
Actors == Crons \cup Requests
Never == -1     \* the value of an endDate or lastRunDate that is not set

Doc == [frequency : Frequencies, interval : Nat \ {0},
        startDate : Nat, endDate : Nat \cup {Never},
        nextRunDate : Nat, lastRunDate : Nat \cup {Never}, runCount : Nat,
        isActive : BOOLEAN, deletedAt : BOOLEAN]

\* Mutant: endDate and nextRunDate swapped.
NewDocSwapped(frequency, interval, start, end, next, active) ==
    [frequency |-> frequency, interval |-> interval,
     startDate |-> start, endDate |-> next, nextRunDate |-> end,
     lastRunDate |-> Never, runCount |-> 0, isActive |-> active, deletedAt |-> FALSE]

NewDoc(frequency, interval, start, end, next, active) ==
    [frequency |-> frequency, interval |-> interval,
     startDate |-> start, endDate |-> end, nextRunDate |-> next,
     lastRunDate |-> Never, runCount |-> 0, isActive |-> active, deletedAt |-> FALSE]

BlankDoc == NewDoc("daily", 1, 0, Never, 0, FALSE)

Advance(d, from) == CalculateNextRunDate(d.frequency, d.interval, from)
PastEnd(d, date) == d.endDate # Never /\ date > d.endDate

\* Soft-deleted documents are invisible to find and findOne.
Visible(s) == s \in stored /\ ~docs[s].deletedAt

\* Mutant: save writes the whole document back.
SaveWhole(current, loaded, mine) == mine

\* Document.save: $set of the paths that the handler changed, and no others.
SaveModified(current, loaded, mine) ==
    LET set(f) == IF mine[f] # loaded[f] THEN mine[f] ELSE current[f]
    IN  [frequency |-> set("frequency"), interval |-> set("interval"),
         startDate |-> set("startDate"), endDate |-> set("endDate"),
         nextRunDate |-> set("nextRunDate"), lastRunDate |-> set("lastRunDate"),
         runCount |-> set("runCount"), isActive |-> set("isActive"),
         deletedAt |-> set("deletedAt")]

-----------------------------------------------------------------------------
(* Jobs.  `loaded` is the document as it was read, `mine` the same object  *)
(* as the handler has changed it since.  A "generate" job also keeps the   *)
(* loop's currentDate and limit, and whether it has made a transaction.    *)

SavingOps == {"pause", "resume", "skipNext", "update", "remove"}
Ops == SavingOps \cup {"idle", "generate", "endCurrent", "createSuccessor"}

Job == [op : Ops, series : Series, loaded : Doc, mine : Doc,
        cursor : Nat, until : Nat, inserted : BOOLEAN]

Idle == [op |-> "idle", series |-> CHOOSE s \in Series : TRUE,
         loaded |-> BlankDoc, mine |-> BlankDoc,
         cursor |-> 0, until |-> 0, inserted |-> FALSE]

NewJob(op, s, mine) ==
    [Idle EXCEPT !.op = op, !.series = s, !.loaded = docs[s], !.mine = mine]

GenerateJob(s, until) ==
    [NewJob("generate", s, docs[s]) EXCEPT !.cursor = docs[s].nextRunDate, !.until = until]

\* The jobs that write nextRunDate when they are saved.
MovesNextRun(j) ==
    \/ j.op = "generate"
    \/ j.op # "idle" /\ j.mine.nextRunDate # j.loaded.nextRunDate

MoversOf(s) == {a \in Actors : job[a].series = s /\ MovesNextRun(job[a])}

\* The handler of actor a has loaded its document and awaits the database.
Start(a, j) ==
    /\ job[a].op = "idle"
    /\ job' = [job EXCEPT ![a] = j]
    /\ causes' = [causes EXCEPT ![j.series] =
          IF MovesNextRun(j) /\ MoversOf(j.series) # {} THEN @ \cup {"overlap"} ELSE @]

Finish(a) == job' = [job EXCEPT ![a] = Idle]

SpendRequest == requestsLeft > 0 /\ requestsLeft' = requestsLeft - 1

\* A request on series s that changes the loaded document into `mine`, then saves.
Serve(r, op, s, mine) ==
    /\ Visible(s)
    /\ SpendRequest
    /\ Start(r, NewJob(op, s, mine))
    /\ UNCHANGED <<now, dbVars, cronVars, failuresLeft, ledgerVars>>

-----------------------------------------------------------------------------
(* Users' requests                                                         *)

\* validateDateRange: equality is accepted.
ValidRange(start, end) == end = Never \/ end >= start

Create(s) ==
    /\ s \notin stored
    /\ SpendRequest
    /\ stored' = stored \cup {s}
    /\ \E f \in UserFrequencies, i \in UserIntervals, active \in BOOLEAN,
          start \in UserDates, end \in UserDates \cup {Never} :
          /\ ValidRange(start, end)
          /\ docs' = [docs EXCEPT ![s] = NewDoc(f, i, start, end, start, active)]
    /\ UNCHANGED <<now, job, cronVars, failuresLeft, ledgerVars, causes>>

Pause(r, s) == Serve(r, "pause", s, [docs[s] EXCEPT !.isActive = FALSE])

Resume(r, s) == Serve(r, "resume", s, [docs[s] EXCEPT !.isActive = TRUE])

SkipNext(r, s) ==
    Serve(r, "skipNext", s,
          [docs[s] EXCEPT !.nextRunDate = Advance(docs[s], docs[s].nextRunDate)])

Remove(r, s) == Serve(r, "remove", s, [docs[s] EXCEPT !.deletedAt = TRUE])

\* nextRunDate is computed again, from the start and whatever has been generated
\* before, when the DTO has a frequency, an interval or a start.
Update(r, s) ==
    LET d == docs[s] IN
    \E f \in UserFrequencies \cup {d.frequency}, i \in UserIntervals \cup {d.interval},
       start \in UserDates \cup {d.startDate}, end \in UserDates \cup {Never, d.endDate},
       active \in BOOLEAN, reschedule \in BOOLEAN :
        /\ reschedule \/ <<f, i, start>> = <<d.frequency, d.interval, d.startDate>>
        /\ ValidRange(start, end)
        /\ Serve(r, "update", s,
               [d EXCEPT !.frequency = f, !.interval = i, !.startDate = start,
                         !.endDate = end, !.isActive = active,
                         !.nextRunDate = IF reschedule THEN CalculateNextRunDate(f, i, start)
                                         ELSE d.nextRunDate])

\* The save of pause, resume, skipNext, update and remove.
Save(r) ==
    LET j == job[r]
    IN  /\ j.op \in SavingOps
        /\ docs' = [docs EXCEPT ![j.series] = SaveModified(@, j.loaded, j.mine)]
        /\ Finish(r)
        /\ causes' = [causes EXCEPT ![j.series] =
              IF MovesNextRun(j) /\ j.mine.nextRunDate <= j.loaded.lastRunDate
              THEN @ \cup {"rewind"} ELSE @]
        /\ UNCHANGED <<now, stored, cronVars, requestsLeft, failuresLeft, ledgerVars>>

\* bulkSoftDelete: one updateMany over the visible ones among the ids.
BulkDelete ==
    \E ids \in SUBSET Series :
        /\ \E s \in ids : Visible(s)
        /\ SpendRequest
        /\ docs' = [s \in Series |-> IF s \in ids /\ Visible(s)
                                     THEN [docs[s] EXCEPT !.deletedAt = TRUE] ELSE docs[s]]
        /\ UNCHANGED <<now, stored, job, cronVars, failuresLeft, ledgerVars, causes>>

\* editFuture saves twice: first the ended document, then its successor.
EditFuture(r, s) ==
    \/ Serve(r, "endCurrent", s,
             [docs[s] EXCEPT !.endDate = docs[s].nextRunDate, !.isActive = FALSE])
    \/ Serve(r, "createSuccessor", s, docs[s])

EndCurrent(r) ==
    LET j == job[r]
    IN  /\ j.op = "endCurrent"
        /\ docs' = [docs EXCEPT ![j.series] = SaveModified(@, j.loaded, j.mine)]
        /\ job' = [job EXCEPT ![r].op = "createSuccessor"]
        /\ UNCHANGED <<now, stored, cronVars, requestsLeft, failuresLeft, ledgerVars, causes>>

\* The new series starts at the old one's next run date, and its own first run is
\* one period after that start.
Successor(d, f, i, end, active) ==
    NewDoc(f, i, d.nextRunDate, end, CalculateNextRunDate(f, i, d.nextRunDate), active)

CreateSuccessor(r) ==
    LET d == job[r].mine
    IN  /\ job[r].op = "createSuccessor"
        /\ \E s \in Series \ stored,
              f \in UserFrequencies \cup {d.frequency}, i \in UserIntervals \cup {d.interval},
              end \in UserDates \cup {Never}, active \in BOOLEAN :
              /\ stored' = stored \cup {s}
              /\ docs' = [docs EXCEPT ![s] = Successor(d, f, i, end, active)]
        /\ Finish(r)
        /\ UNCHANGED <<now, cronVars, requestsLeft, failuresLeft, ledgerVars, causes>>

-----------------------------------------------------------------------------
(* Generation: generateTransactions, for a request or for a cron           *)

\* POST :id/generate, up to now or to the date the user gives.
ManualGenerate(r, s) ==
    /\ Visible(s) /\ docs[s].isActive
    /\ SpendRequest
    /\ \E until \in {now} \cup UserDates : Start(r, GenerateJob(s, until))
    /\ UNCHANGED <<now, dbVars, cronVars, failuresLeft, ledgerVars>>

\* Whether the loop's next turn makes a transaction, skips a date or ends the loop.
LoopEnds(j) == j.cursor > j.until \/ PastEnd(j.mine, j.cursor)

SkipBeforeStart(a) ==
    LET j == job[a]
    IN  /\ j.op = "generate" /\ ~LoopEnds(j)
        /\ j.cursor < j.mine.startDate
        /\ job' = [job EXCEPT ![a].cursor = Advance(j.mine, @)]
        /\ UNCHANGED <<now, dbVars, cronVars, requestsLeft, failuresLeft, ledgerVars, causes>>

\* The document after a transaction dated `date`, with `next` to come.
Generated(d, date, next) ==
    [d EXCEPT !.lastRunDate = date, !.runCount = d.runCount + 1,
              !.isActive = d.isActive /\ ~PastEnd(d, next)]

InsertTransaction(a) ==
    LET j == job[a]
        s == j.series
        next == Advance(j.mine, j.cursor)
    IN  /\ j.op = "generate" /\ ~LoopEnds(j)
        /\ j.cursor >= j.mine.startDate
        /\ posted' = [posted EXCEPT ![s] = @ \cup {j.cursor}]
        /\ reposted' = [reposted EXCEPT ![s] = @ \cup ({j.cursor} \cap posted[s])]
        /\ made' = [made EXCEPT ![s] = @ + 1]
        /\ job' = [job EXCEPT ![a] = [j EXCEPT !.inserted = TRUE, !.cursor = next,
                                               !.mine = Generated(j.mine, j.cursor, next)]]
        /\ UNCHANGED <<now, dbVars, cronVars, requestsLeft, failuresLeft, causes>>

\* Mutant: lastRunDate and runCount are saved and nextRunDate is not.
SaveGeneratedWithoutNext(a) ==
    LET j == job[a]
    IN  /\ j.op = "generate" /\ LoopEnds(j)
        /\ docs' = [docs EXCEPT ![j.series] = SaveModified(@, j.loaded, j.mine)]
        /\ Finish(a)
        /\ UNCHANGED <<now, stored, cronVars, requestsLeft, failuresLeft, ledgerVars, causes>>

SaveGenerated(a) ==
    LET j == job[a]
    IN  /\ j.op = "generate" /\ LoopEnds(j)
        /\ docs' = [docs EXCEPT ![j.series] =
              SaveModified(@, j.loaded, [j.mine EXCEPT !.nextRunDate = j.cursor])]
        /\ Finish(a)
        /\ UNCHANGED <<now, stored, cronVars, requestsLeft, failuresLeft, ledgerVars, causes>>

-----------------------------------------------------------------------------
(* The cron job                                                            *)

\* Mutant: only what falls on the day itself.
DueExactlyOn(date, s) ==
    /\ Visible(s) /\ docs[s].isActive
    /\ docs[s].nextRunDate \in Midnight(date) .. EndOfDay(date)
    /\ docs[s].endDate = Never \/ docs[s].endDate >= Midnight(date)

DueOn(date, s) ==
    /\ Visible(s) /\ docs[s].isActive
    /\ docs[s].nextRunDate <= EndOfDay(date)
    /\ docs[s].endDate = Never \/ docs[s].endDate >= Midnight(date)

CronIdle(c) == job[c].op = "idle" /\ due[c] = {}

\* At 1 AM: findDueRecurringTransactions of today.
CronFires(c) ==
    /\ armed[c] /\ CronIdle(c)
    /\ armed' = [armed EXCEPT ![c] = FALSE]
    /\ due' = [due EXCEPT ![c] = {s \in Series : DueOn(now, s)}]
    /\ UNCHANGED <<now, dbVars, job, requestsLeft, failuresLeft, ledgerVars, causes>>

\* One item of the list.  A document deleted or paused since the list was read makes
\* generateTransactions throw; the job goes on with the next item.
CronTakes(c) ==
    /\ job[c].op = "idle"
    /\ \E s \in due[c] :
          /\ due' = [due EXCEPT ![c] = @ \ {s}]
          /\ IF Visible(s) /\ docs[s].isActive
             THEN Start(c, GenerateJob(s, Midnight(now)))
             ELSE UNCHANGED <<job, causes>>
    /\ UNCHANGED <<now, dbVars, armed, requestsLeft, failuresLeft, ledgerVars>>

-----------------------------------------------------------------------------
(* Failures and time                                                       *)

SpendFailure == failuresLeft > 0 /\ failuresLeft' = failuresLeft - 1

\* The trace that a job leaves when it ends before its save.
Abandon(a) ==
    causes' = [causes EXCEPT ![job[a].series] =
                  IF job[a].inserted THEN @ \cup {"unsavedRun"} ELSE @]

\* A write that throws, or the process of a request dying: the handler ends there.  A
\* cron catches the error and goes on with its list.
Fail(a) ==
    /\ job[a].op # "idle"
    /\ SpendFailure
    /\ Finish(a) /\ Abandon(a)
    /\ UNCHANGED <<now, dbVars, cronVars, requestsLeft, ledgerVars>>

\* A cron's process dies: its list goes with it, and today's trigger if it is still to come.
Crash(c) ==
    /\ armed[c] \/ ~CronIdle(c)
    /\ SpendFailure
    /\ Finish(c) /\ Abandon(c)
    /\ armed' = [armed EXCEPT ![c] = FALSE]
    /\ due' = [due EXCEPT ![c] = {}]
    /\ UNCHANGED <<now, dbVars, requestsLeft, ledgerVars>>

\* Half a day passes.  A cron's run is over before the day's second half, and the days
\* after the horizon are all alike.
Tick ==
    /\ \A c \in Crons : ~armed[c] /\ CronIdle(c)
    /\ now' = IF now < Horizon THEN now + 1 ELSE now
    /\ armed' = [c \in Crons |-> now' = Midnight(now')]
    /\ UNCHANGED <<dbVars, job, due, requestsLeft, failuresLeft, ledgerVars, causes>>

-----------------------------------------------------------------------------
Init ==
    /\ now = 0
    /\ stored = {}
    /\ docs = [s \in Series |-> BlankDoc]
    /\ job = [a \in Actors |-> Idle]
    /\ armed = [c \in Crons |-> TRUE]
    /\ due = [c \in Crons |-> {}]
    /\ requestsLeft = MaxRequests
    /\ failuresLeft = MaxFailures
    /\ posted = [s \in Series |-> {}]
    /\ reposted = [s \in Series |-> {}]
    /\ made = [s \in Series |-> 0]
    /\ causes = [s \in Series |-> {}]

UserStep ==
    \/ \E s \in Series : Create(s)
    \/ BulkDelete
    \/ \E r \in Requests, s \in Series :
          \/ Pause(r, s) \/ Resume(r, s) \/ SkipNext(r, s) \/ Remove(r, s)
          \/ Update(r, s) \/ EditFuture(r, s) \/ ManualGenerate(r, s)

Answer(r) == Save(r) \/ EndCurrent(r) \/ CreateSuccessor(r)

Generate(a) == SkipBeforeStart(a) \/ InsertTransaction(a) \/ SaveGenerated(a)

Next ==
    \/ UserStep
    \/ \E r \in Requests : Answer(r)
    \/ \E a \in Actors : Generate(a) \/ Fail(a)
    \/ \E c \in Crons : CronFires(c) \/ CronTakes(c) \/ Crash(c)
    \/ Tick

Spec == Init /\ [][Next]_vars

\* A started handler runs on, the cron fires every day and time passes.  No user is
\* obliged to send a request, and nothing has to fail.
Fairness ==
    /\ WF_vars(Tick)
    /\ \A c \in Crons : WF_vars(CronFires(c)) /\ WF_vars(CronTakes(c))
    /\ \A a \in Actors : WF_vars(Generate(a))
    /\ \A r \in Requests : WF_vars(Answer(r))

FairSpec == Spec /\ Fairness

-----------------------------------------------------------------------------
(* Properties                                                              *)

TypeOK ==
    /\ now \in Nat
    /\ stored \subseteq Series
    /\ docs \in [Series -> Doc]
    /\ job \in [Actors -> Job]
    /\ armed \in [Crons -> BOOLEAN]
    /\ due \in [Crons -> SUBSET Series]
    /\ requestsLeft \in Nat /\ failuresLeft \in Nat
    /\ posted \in [Series -> SUBSET Nat]
    /\ reposted \in [Series -> SUBSET Nat]
    /\ made \in [Series -> Nat]
    /\ causes \in [Series -> SUBSET {"overlap", "unsavedRun", "rewind"}]

\* A date gets a second transaction only after two handlers that move the series' next
\* run date ran at the same time, after a generation that stopped between a transaction
\* and its save, or after an update that put the next run date back.
AtMostOnce == \A s \in Series : causes[s] = {} => reposted[s] = {}

\* Barring those, a document no generation is working on says what has been made from
\* it: as many runs as transactions, none of them dated after lastRunDate, and the next
\* run after all of them.
LedgerMatches ==
    \A s \in Series :
        (causes[s] = {} /\ ~\E a \in MoversOf(s) : job[a].inserted) =>
            /\ docs[s].runCount = made[s]
            /\ \A date \in posted[s] : date <= docs[s].lastRunDate
            /\ s \in stored => docs[s].lastRunDate < docs[s].nextRunDate

\* A pause, an end or a deletion is never lost to a handler that loaded the document
\* before it: a series is active again only through a resume or an update that saw it
\* inactive, and never comes back from deletion.
StoppedStaysStopped ==
    [][\A s \in stored :
          /\ ~docs[s].isActive /\ docs'[s].isActive =>
                 \E r \in Requests : /\ job[r].op \in {"resume", "update"}
                                     /\ job[r].series = s
                                     /\ ~job[r].loaded.isActive
          /\ docs[s].deletedAt => docs'[s].deletedAt]_vars

\* An occurrence of this morning or of an earlier day is still to be generated.
Behind(s) ==
    /\ Visible(s) /\ docs[s].isActive
    /\ docs[s].nextRunDate <= Midnight(now)
    /\ docs[s].endDate = Never \/ docs[s].endDate >= Midnight(now)

\* However often runs fail, are missed or meet users' requests, an active series whose
\* occurrence of this morning or before is missing is generated (or stopped, or ends).
CatchesUp == \A s \in Series : Behind(s) ~> ~Behind(s)

-----------------------------------------------------------------------------
(* What the repository says and the code does not do                       *)

\* The scheduler is one process and the API serves HTTP only (README.md), so a date is
\* generated once when nothing fails and no request interferes.
NeverTwice == \A s \in Series : reposted[s] = {}
=============================================================================
