------------------------------ MODULE EmailQueue ------------------------------
(***************************************************************************)
(* The mail queue: EmailService asks for a mail, the producer adds a job   *)
(* to a Bull queue in Redis, and any process takes jobs, hands the mail to *)
(* the SMTP server and reports to the queue.  Bull retries failed attempts *)
(* after a back-off, fails attempts that take too long while the sending   *)
(* goes on, and gives a job whose worker lost its lock to another worker.  *)
(***************************************************************************)
EXTENDS Naturals

CONSTANTS
    Mails,          \* mails that the application sends
    Optional,       \* those that obey the user's e-mail preferences
    Workers,        \* processes that run the processor, one job at a time
    None,           \* no mail, no worker
    Attempts,       \* attempts of a job
    MaxStalledCount,
    MaxCrashes,     \* bound: workers that die
    MaxLapses,      \* bound: locks that expire while their worker still runs
    MaxRetries      \* bound: retries by an administrator

ASSUME NoneAssumption == None \notin Mails \cup Workers
ASSUME QueueAssumption ==
    /\ Attempts \in Nat \ {0} /\ MaxStalledCount \in Nat
    /\ MaxCrashes \in Nat /\ MaxLapses \in Nat /\ MaxRetries \in Nat

VARIABLES
    status,     \* the job of each mail
    attempts,   \* attemptsMade, as stored with the job
    stalls,     \* stalledCounter
    lock,       \* the worker whose token locks the job
    run,        \* what each worker processes, None when idle
    up,         \* the processes that are alive
    orphans,    \* sends that go on after their attempt timed out
    wants,      \* the user's preference for optional mail
    copies,     \* how often the SMTP server took the mail
    doubts,     \* history: attempts whose outcome the queue could not know
    crashesLeft, lapsesLeft, retriesLeft

job == <<status, attempts, stalls, lock>>
workers == <<run, up>>
bounds == <<crashesLeft, lapsesLeft, retriesLeft>>
vars == <<job, workers, orphans, wants, copies, doubts, bounds>>

-----------------------------------------------------------------------------
Statuses == {"none", "asked", "skipped", "refused", "wait", "active", "delayed",
             "completed", "failed", "removed"}

\* A job in a worker: the mail, the attempts made when it was taken, whether SMTP took it.
Processing == [mail : Mails \cup {None}, attempt : Nat, sent : BOOLEAN]
Free == [mail |-> None, attempt |-> 0, sent |-> FALSE]

Doubt(m) == doubts' = [doubts EXCEPT ![m] = @ + 1]

-----------------------------------------------------------------------------
(* Producers                                                               *)

SetPreference == wants' = ~wants /\ UNCHANGED <<job, workers, orphans, copies, doubts, bounds>>

\* EmailService: optional mail is dropped without an error when the user does not want it.
Ask(m) ==
    /\ status[m] = "none"
    /\ status' = [status EXCEPT ![m] = IF m \in Optional /\ ~wants THEN "skipped" ELSE "asked"]
    /\ UNCHANGED <<attempts, stalls, lock, workers, orphans, wants, copies, doubts, bounds>>

\* addEmailJob, and its error when Redis does not answer.
AddEmailJob(m) ==
    /\ status[m] = "asked"
    /\ \E answer \in {"wait", "refused"} : status' = [status EXCEPT ![m] = answer]
    /\ UNCHANGED <<attempts, stalls, lock, workers, orphans, wants, copies, doubts, bounds>>

-----------------------------------------------------------------------------
(* Workers                                                                 *)

\* Mutant: only jobs that have not failed yet are taken.
TakeFresh(w, m) ==
    /\ w \in up /\ run[w] = Free
    /\ status[m] = "wait" /\ attempts[m] = 0
    /\ status' = [status EXCEPT ![m] = "active"]
    /\ lock' = [lock EXCEPT ![m] = w]
    /\ run' = [run EXCEPT ![w] = [mail |-> m, attempt |-> attempts[m], sent |-> FALSE]]
    /\ UNCHANGED <<attempts, stalls, up, orphans, wants, copies, doubts, bounds>>

Take(w, m) ==
    /\ w \in up /\ run[w] = Free
    /\ status[m] = "wait"
    /\ status' = [status EXCEPT ![m] = "active"]
    /\ lock' = [lock EXCEPT ![m] = w]
    /\ run' = [run EXCEPT ![w] = [mail |-> m, attempt |-> attempts[m], sent |-> FALSE]]
    /\ UNCHANGED <<attempts, stalls, up, orphans, wants, copies, doubts, bounds>>

\* sendMail reaches the server.
HandOver(w) ==
    LET m == run[w].mail
    IN  /\ m # None /\ ~run[w].sent
        /\ copies' = [copies EXCEPT ![m] = @ + 1]
        /\ run' = [run EXCEPT ![w].sent = TRUE]
        /\ UNCHANGED <<job, up, orphans, wants, doubts, bounds>>

\* sendMail resolves: the job is completed, unless another worker has its lock by now.
Complete(w) ==
    LET m == run[w].mail
    IN  /\ m # None /\ run[w].sent
        /\ run' = [run EXCEPT ![w] = Free]
        /\ IF lock[m] = w
           THEN /\ status' = [status EXCEPT ![m] = "completed"]
                /\ lock' = [lock EXCEPT ![m] = None]
           ELSE UNCHANGED <<status, lock>>
        /\ UNCHANGED <<attempts, stalls, up, orphans, wants, copies, doubts, bounds>>

\* Mutant: the processor swallows the error, so that the job completes.
MoveSwallowed(w, m) ==
    /\ attempts' = [attempts EXCEPT ![m] = run[w].attempt + 1]
    /\ IF lock[m] = w
       THEN /\ status' = [status EXCEPT ![m] = "completed"]
            /\ lock' = [lock EXCEPT ![m] = None]
       ELSE UNCHANGED <<status, lock>>

\* Mutant: the last attempt is not made.
MoveEarly(w, m) ==
    /\ attempts' = [attempts EXCEPT ![m] = run[w].attempt + 1]
    /\ IF lock[m] = w
       THEN /\ status' = [status EXCEPT ![m] =
                             IF run[w].attempt + 2 < Attempts THEN "delayed" ELSE "failed"]
            /\ lock' = [lock EXCEPT ![m] = None]
       ELSE UNCHANGED <<status, lock>>

\* moveToFailed: attemptsMade is stored whoever has the lock; the job moves only with it.
MoveToFailed(w, m) ==
    /\ attempts' = [attempts EXCEPT ![m] = run[w].attempt + 1]
    /\ IF lock[m] = w
       THEN /\ status' = [status EXCEPT ![m] =
                             IF run[w].attempt + 1 < Attempts THEN "delayed" ELSE "failed"]
            /\ lock' = [lock EXCEPT ![m] = None]
       ELSE UNCHANGED <<status, lock>>

\* sendMail rejects: the server refused the mail, or took it and the answer was lost.
AttemptFails(w) ==
    LET m == run[w].mail
    IN  /\ m # None
        /\ MoveToFailed(w, m)
        /\ run' = [run EXCEPT ![w] = Free]
        /\ IF run[w].sent THEN Doubt(m) ELSE UNCHANGED doubts
        /\ UNCHANGED <<stalls, up, orphans, wants, copies, bounds>>

\* The job's timeout fails the attempt; nothing stops the sending.
Timeout(w) ==
    LET m == run[w].mail
    IN  /\ m # None
        /\ MoveToFailed(w, m)
        /\ run' = [run EXCEPT ![w] = Free]
        /\ orphans' = [orphans EXCEPT ![m] = IF run[w].sent THEN @ ELSE @ + 1]
        /\ Doubt(m)
        /\ UNCHANGED <<stalls, up, wants, copies, bounds>>

OrphanEnds(m) ==
    /\ orphans[m] > 0
    /\ orphans' = [orphans EXCEPT ![m] = @ - 1]
    /\ \E taken \in {0, 1} : copies' = [copies EXCEPT ![m] = @ + taken]
    /\ UNCHANGED <<job, workers, wants, doubts, bounds>>

Crash(w) ==
    /\ w \in up
    /\ crashesLeft > 0 /\ crashesLeft' = crashesLeft - 1
    /\ up' = up \ {w}
    /\ run' = [run EXCEPT ![w] = Free]
    /\ IF run[w].sent THEN Doubt(run[w].mail) ELSE UNCHANGED doubts
    /\ UNCHANGED <<job, orphans, wants, copies, lapsesLeft, retriesLeft>>

Restart(w) ==
    /\ w \notin up
    /\ up' = up \cup {w}
    /\ UNCHANGED <<job, run, orphans, wants, copies, doubts, bounds>>

-----------------------------------------------------------------------------
(* The queue                                                               *)

\* The lock of a worker that died, or whose event loop was too busy to renew it.
LockExpires(m) ==
    LET w == lock[m]
    IN  /\ w # None
        /\ \/ run[w].mail # m /\ UNCHANGED <<doubts, lapsesLeft>>
           \/ /\ run[w].mail = m
              /\ lapsesLeft > 0 /\ lapsesLeft' = lapsesLeft - 1
              /\ Doubt(m)
        /\ lock' = [lock EXCEPT ![m] = None]
        /\ UNCHANGED <<status, attempts, stalls, workers, orphans, wants, copies,
                       crashesLeft, retriesLeft>>

\* Mutant: active jobs are taken back with or without a lock.
StalledAnyway(m) ==
    /\ status[m] = "active"
    /\ stalls[m] <= MaxStalledCount
    /\ stalls' = [stalls EXCEPT ![m] = @ + 1]
    /\ lock' = [lock EXCEPT ![m] = None]
    /\ status' = [status EXCEPT ![m] = IF stalls[m] < MaxStalledCount THEN "wait" ELSE "failed"]
    /\ UNCHANGED <<attempts, workers, orphans, wants, copies, doubts, bounds>>

MoveStalled(m) ==
    /\ status[m] = "active" /\ lock[m] = None
    /\ stalls' = [stalls EXCEPT ![m] = @ + 1]
    /\ status' = [status EXCEPT ![m] = IF stalls[m] < MaxStalledCount THEN "wait" ELSE "failed"]
    /\ UNCHANGED <<attempts, lock, workers, orphans, wants, copies, doubts, bounds>>

\* The back-off of a delayed job is over.
Promote(m) ==
    /\ status[m] = "delayed"
    /\ status' = [status EXCEPT ![m] = "wait"]
    /\ UNCHANGED <<attempts, stalls, lock, workers, orphans, wants, copies, doubts, bounds>>

\* Mutant: the retried job is made active without a worker.
RetryNowhere(m) ==
    /\ status[m] = "failed"
    /\ retriesLeft > 0 /\ retriesLeft' = retriesLeft - 1
    /\ status' = [status EXCEPT ![m] = "retrying"]
    /\ UNCHANGED <<attempts, stalls, lock, workers, orphans, wants, copies, doubts,
                   crashesLeft, lapsesLeft>>

\* An administrator's retry leaves attemptsMade as it is: one attempt, and no back-off.
RetryJob(m) ==
    /\ status[m] = "failed"
    /\ retriesLeft > 0 /\ retriesLeft' = retriesLeft - 1
    /\ status' = [status EXCEPT ![m] = "wait"]
    /\ UNCHANGED <<attempts, stalls, lock, workers, orphans, wants, copies, doubts,
                   crashesLeft, lapsesLeft>>

\* An administrator, or removeOnComplete and removeOnFail, delete finished jobs.
CleanJobs(m) ==
    /\ status[m] \in {"completed", "failed"}
    /\ status' = [status EXCEPT ![m] = "removed"]
    /\ UNCHANGED <<attempts, stalls, lock, workers, orphans, wants, copies, doubts, bounds>>

-----------------------------------------------------------------------------
Init ==
    /\ status = [m \in Mails |-> "none"]
    /\ attempts = [m \in Mails |-> 0] /\ stalls = [m \in Mails |-> 0]
    /\ lock = [m \in Mails |-> None]
    /\ run = [w \in Workers |-> Free]
    /\ up = Workers
    /\ orphans = [m \in Mails |-> 0]
    /\ wants = TRUE
    /\ copies = [m \in Mails |-> 0] /\ doubts = [m \in Mails |-> 0]
    /\ crashesLeft = MaxCrashes /\ lapsesLeft = MaxLapses /\ retriesLeft = MaxRetries

Next ==
    \/ SetPreference
    \/ \E m \in Mails :
          \/ Ask(m) \/ AddEmailJob(m) \/ OrphanEnds(m)
          \/ LockExpires(m) \/ MoveStalled(m) \/ Promote(m) \/ RetryJob(m) \/ CleanJobs(m)
    \/ \E w \in Workers :
          \/ \E m \in Mails : Take(w, m)
          \/ HandOver(w) \/ Complete(w) \/ AttemptFails(w) \/ Timeout(w)
          \/ Crash(w) \/ Restart(w)

\* Bull's timers and loops run, an answer or an error comes from SMTP, processes restart.
\* Nobody has to ask for mail, to fail, to die or to retry by hand.
Fairness ==
    /\ \A m \in Mails : /\ WF_vars(AddEmailJob(m))
                        /\ WF_vars(MoveStalled(m))
                        /\ WF_vars(Promote(m))
                        /\ WF_vars(lock[m] # None /\ run[lock[m]].mail # m /\ LockExpires(m))
                        /\ SF_vars(\E w \in Workers : Take(w, m))
    /\ \A w \in Workers : WF_vars(Complete(w) \/ AttemptFails(w)) /\ WF_vars(Restart(w))

Spec == Init /\ [][Next]_vars /\ Fairness

-----------------------------------------------------------------------------
(* Properties                                                              *)

TypeOK ==
    /\ status \in [Mails -> Statuses]
    /\ attempts \in [Mails -> Nat] /\ stalls \in [Mails -> Nat]
    /\ lock \in [Mails -> Workers \cup {None}]
    /\ run \in [Workers -> Processing]
    /\ up \subseteq Workers
    /\ orphans \in [Mails -> Nat] /\ copies \in [Mails -> Nat] /\ doubts \in [Mails -> Nat]
    /\ wants \in BOOLEAN
    /\ crashesLeft \in Nat /\ lapsesLeft \in Nat /\ retriesLeft \in Nat

Outcome(s) ==
    CASE s \in {"none", "asked", "skipped", "refused"} -> "unsent"
      [] s \in {"wait", "active", "delayed"}           -> "pending"
      [] s = "completed"                               -> "delivered"
      [] s = "failed"                                  -> "failed"
      [] OTHER                                         -> "gone"

Delivery == INSTANCE MailDelivery WITH outcome <- [m \in Mails |-> Outcome(status[m])]

\* The queue keeps the promise of MailDelivery: completed means that the server took the mail.
KeepsPromise == Delivery!Spec

\* A recipient gets the mail twice only through an attempt whose outcome the queue could not
\* know: an answer that was lost or came too late, a worker that died or lost its lock.
CopiesExplained == \A m \in Mails : copies[m] <= 1 + doubts[m]

\* Two workers send the same mail at the same time only after one of them lost its lock.
OneSender ==
    \A v, w \in Workers : v # w /\ run[v].mail = run[w].mail /\ run[v].mail # None
                              => doubts[run[v].mail] > 0

\* A mail is given up only after all its attempts, or after it stalled.
GivenUpLate == \A m \in Mails :
    status[m] = "failed" => attempts[m] >= Attempts \/ stalls[m] > 0

\* A mail that was added to the queue is delivered or reported as failed.
EveryMailSettles == \A m \in Mails :
    status[m] = "wait" ~> status[m] \in {"completed", "failed", "removed"}
=============================================================================
