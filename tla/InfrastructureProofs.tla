------------------------- MODULE InfrastructureProofs -------------------------
(***************************************************************************)
(* What serves the others.  The mail queue, for every set of mails and     *)
(* workers, every number of attempts, crashes and lost locks.  What an API *)
(* process keeps in memory: the records of the throttle, for every limit,  *)
(* window and set of requests, and presence in the chat, for every set of  *)
(* users, sockets and rooms.                                               *)
(***************************************************************************)
EXTENDS EmailQueue, RequestThrottle, ChatGateway, FiniteSetTheorems, TLAPS

-----------------------------------------------------------------------------
(* Types                                                                   *)

LEMMA FreeType == Free \in Processing
BY DEF Free, Processing

\* A worker's report keeps the types of the job (moveToFailed).
LEMMA MovedType ==
    ASSUME TypeOK, NEW w \in Workers, NEW m \in Mails, MoveToFailed(w, m)
    PROVE  /\ attempts' \in [Mails -> Nat] /\ status' \in [Mails -> Statuses]
           /\ lock' \in [Mails -> Workers \cup {None}]
<1>1. run[w].attempt + 1 \in Nat
    BY DEF TypeOK, Processing
<1> QED
    BY <1>1 DEF TypeOK, MoveToFailed, Statuses

LEMMA TypeStarts == Init => TypeOK
BY FreeType, QueueAssumption DEF Init, TypeOK, Statuses

LEMMA TypeSteps == TypeOK /\ [Next]_vars => TypeOK'
<1> SUFFICES ASSUME TypeOK, [Next]_vars
             PROVE  TypeOK'
    OBVIOUS
<1> USE DEF TypeOK, job, workers, bounds, Doubt
<1>1. CASE SetPreference
    BY <1>1 DEF SetPreference
<1>2. ASSUME NEW m \in Mails, Ask(m)
      PROVE  TypeOK'
    BY <1>2 DEF Ask, Statuses
<1>3. ASSUME NEW m \in Mails, AddEmailJob(m)
      PROVE  TypeOK'
    BY <1>3 DEF AddEmailJob, Statuses
<1>4. ASSUME NEW m \in Mails, OrphanEnds(m)
      PROVE  TypeOK'
    BY <1>4 DEF OrphanEnds
<1>5. ASSUME NEW m \in Mails, LockExpires(m)
      PROVE  TypeOK'
    BY <1>5 DEF LockExpires
<1>6. ASSUME NEW m \in Mails, MoveStalled(m)
      PROVE  TypeOK'
    BY <1>6 DEF MoveStalled, Statuses
<1>7. ASSUME NEW m \in Mails, Promote(m) \/ CleanJobs(m)
      PROVE  TypeOK'
    BY <1>7 DEF Promote, CleanJobs, Statuses
<1>8. ASSUME NEW m \in Mails, RetryJob(m)
      PROVE  TypeOK'
    BY <1>8 DEF RetryJob, Statuses
<1>9. ASSUME NEW w \in Workers, NEW m \in Mails, Take(w, m)
      PROVE  TypeOK'
    BY <1>9 DEF Take, Statuses, Processing
<1>10. ASSUME NEW w \in Workers, HandOver(w)
       PROVE  TypeOK'
  <2>1. run[w] \in Processing /\ run[w].mail \in Mails
      BY <1>10 DEF HandOver, Processing
  <2>2. copies' \in [Mails -> Nat]
      BY <1>10, <2>1 DEF HandOver
  <2>3. [run[w] EXCEPT !.sent = TRUE] \in Processing
      BY <2>1 DEF Processing
  <2>4. run' \in [Workers -> Processing]
      BY <1>10, <2>3 DEF HandOver
  <2> QED
      BY <1>10, <2>2, <2>4 DEF HandOver
<1>11. ASSUME NEW w \in Workers, Complete(w)
       PROVE  TypeOK'
    BY <1>11, FreeType DEF Complete, Statuses, Processing
<1>12. ASSUME NEW w \in Workers, AttemptFails(w) \/ Timeout(w)
       PROVE  TypeOK'
  <2>1. run[w].mail \in Mails /\ MoveToFailed(w, run[w].mail)
      BY <1>12 DEF AttemptFails, Timeout, Processing
  <2>2. run' \in [Workers -> Processing]
      BY <1>12, FreeType DEF AttemptFails, Timeout
  <2>3. doubts' \in [Mails -> Nat] /\ orphans' \in [Mails -> Nat]
      BY <1>12, <2>1 DEF AttemptFails, Timeout
  <2> QED
      BY <1>12, <2>1, <2>2, <2>3, MovedType DEF AttemptFails, Timeout
<1>13. ASSUME NEW w \in Workers, Crash(w)
       PROVE  TypeOK'
    BY <1>13, FreeType DEF Crash
<1>14. ASSUME NEW w \in Workers, Restart(w)
       PROVE  TypeOK'
    BY <1>14 DEF Restart
<1>15. CASE UNCHANGED vars
    BY <1>15 DEF vars
<1> QED
    BY <1>1, <1>2, <1>3, <1>4, <1>5, <1>6, <1>7, <1>8, <1>9, <1>10, <1>11, <1>12, <1>13,
       <1>14, <1>15 DEF Next

\* Type correctness of the queue and its workers (EmailQueueProcessorService).
THEOREM QueueTyping == Spec => []TypeOK
BY TypeStarts, TypeSteps, PTL DEF Spec

-----------------------------------------------------------------------------
(* What the lock, the workers and the records have to do with each other   *)

Runs(w, m) == run[w].mail = m

Queued(m) == Outcome(status[m]) # "unsent"

\* Only active jobs are locked; what a worker or an orphan sends was queued; a
\* worker that handed its mail over counted it.
Settled ==
    /\ \A m \in Mails : lock[m] # None => status[m] = "active"
    /\ \A m \in Mails : orphans[m] > 0 => Queued(m)
    /\ \A w \in Workers, m \in Mails :
           Runs(w, m) => Queued(m) /\ (run[w].sent => copies[m] > 0)

\* A worker without the lock of its job has raised a doubt.
Watched ==
    \A w \in Workers, m \in Mails : Runs(w, m) => lock[m] = w \/ doubts[m] > 0

\* Until a job stalls it is in one worker at most, while it is active, and that
\* worker knows its attempts.
Alone ==
    \A m \in Mails : stalls[m] = 0 =>
        /\ \A w \in Workers :
              Runs(w, m) => status[m] = "active" /\ run[w].attempt = attempts[m]
        /\ \A v, w \in Workers : Runs(v, m) /\ Runs(w, m) => v = w

QueueInv == TypeOK /\ Settled /\ Watched /\ Alone /\ GivenUpLate

\* A worker is done with its job: the job moves on if the worker has its lock.
Ends(w, m) ==
    /\ Runs(w, m)
    /\ run' = [run EXCEPT ![w] = Free]
    /\ IF lock[m] = w
         THEN /\ lock' = [lock EXCEPT ![m] = None]
              /\ \E s \in {"completed", "delayed", "failed"} : status' = [status EXCEPT ![m] = s]
         ELSE UNCHANGED <<status, lock>>
    /\ UNCHANGED <<stalls, copies>>

LEMMA Ending ==
    ASSUME TypeOK, NEW w \in Workers, Complete(w) \/ AttemptFails(w) \/ Timeout(w)
    PROVE  \E m \in Mails :
              /\ Ends(w, m)
              /\ \A n \in Mails : orphans'[n] > 0 => orphans[n] > 0 \/ n = m
              /\ \A n \in Mails : doubts'[n] >= doubts[n]
<1>1. run[w].mail \in Mails
    BY DEF TypeOK, Processing, Complete, AttemptFails, Timeout
<1>2. Ends(w, run[w].mail)
    BY DEF Ends, Runs, Complete, AttemptFails, Timeout, MoveToFailed
<1>3. \A n \in Mails : orphans'[n] > 0 => orphans[n] > 0 \/ n = run[w].mail
    BY <1>1 DEF TypeOK, Complete, AttemptFails, Timeout
<1>4. \A n \in Mails : doubts'[n] >= doubts[n]
    BY <1>1 DEF TypeOK, Complete, AttemptFails, Timeout, Doubt
<1> QED
    BY <1>1, <1>2, <1>3, <1>4

\* A free worker runs nothing; the others go on.
LEMMA Freed ==
    ASSUME TypeOK, NEW w \in Workers, run' = [run EXCEPT ![w] = Free]
    PROVE  \A v \in Workers, m \in Mails :
              Runs(v, m)' => v # w /\ Runs(v, m) /\ run'[v] = run[v]
<1> SUFFICES ASSUME NEW v \in Workers, NEW m \in Mails, Runs(v, m)'
             PROVE  v # w /\ Runs(v, m) /\ run'[v] = run[v]
    OBVIOUS
<1>1. Free.mail # m
    BY NoneAssumption DEF Free
<1>2. v # w
    BY <1>1 DEF TypeOK, Runs
<1> QED
    BY <1>2 DEF TypeOK, Runs

LEMMA EndSettles ==
    ASSUME TypeOK, Settled, NEW w \in Workers, NEW m \in Mails, Ends(w, m),
           \A n \in Mails : orphans'[n] > 0 => orphans[n] > 0 \/ n = m
    PROVE  Settled'
<1>1. \A n \in Mails : Queued(n) => Queued(n)'
    BY DEF TypeOK, Ends, Queued, Outcome
<1>2. \A n \in Mails : lock'[n] # None => status'[n] = "active"
    BY DEF TypeOK, Settled, Ends
<1>3. \A n \in Mails : orphans'[n] > 0 => Queued(n)'
    BY <1>1 DEF Settled, Ends
<1>4. \A v \in Workers, n \in Mails :
          Runs(v, n)' => Queued(n)' /\ (run'[v].sent => copies'[n] > 0)
    BY <1>1, Freed DEF Settled, Ends
<1> QED
    BY <1>2, <1>3, <1>4 DEF Settled, Queued, Runs

LEMMA EndWatches ==
    ASSUME TypeOK, Watched, NEW w \in Workers, NEW m \in Mails, Ends(w, m),
           \A n \in Mails : doubts'[n] >= doubts[n], TypeOK'
    PROVE  Watched'
<1> SUFFICES ASSUME NEW v \in Workers, NEW n \in Mails, Runs(v, n)'
             PROVE  lock'[n] = v \/ doubts'[n] > 0
    BY DEF Watched, Runs
<1>1. v # w /\ Runs(v, n)
    BY Freed DEF Ends
<1>2. lock[n] = v \/ doubts[n] > 0
    BY <1>1 DEF Watched
<1>3. lock[n] = v => lock'[n] = v
    BY <1>1 DEF TypeOK, Ends
<1> QED
    BY <1>2, <1>3 DEF TypeOK

\* A worker that handed its mail over runs the same job (sendMail).
LEMMA Handed ==
    ASSUME TypeOK, NEW w \in Workers, HandOver(w)
    PROVE  /\ run[w].mail \in Mails
           /\ \A v \in Workers :
                  /\ run'[v].mail = run[v].mail /\ run'[v].attempt = run[v].attempt
                  /\ v # w => run'[v] = run[v]
<1>1. run[w].mail \in Mails
    BY DEF TypeOK, Processing, HandOver
<1>2. run' = [run EXCEPT ![w] = [run[w] EXCEPT !.sent = TRUE]]
    BY DEF HandOver
<1>3. run[w] \in Processing
    BY DEF TypeOK
<1> QED
    BY <1>1, <1>2, <1>3 DEF TypeOK, Processing

LEMMA Taken ==
    ASSUME TypeOK, NEW w \in Workers, NEW m \in Mails, Take(w, m)
    PROVE  /\ \A n \in Mails : Runs(w, n)' => n = m
           /\ run'[w].attempt = attempts[m] /\ ~run'[w].sent
           /\ \A v \in Workers : v # w => run'[v] = run[v]
BY DEF TypeOK, Take, Runs

\* Settled is kept by every step.
LEMMA SettledSteps ==
    ASSUME TypeOK, Settled, [Next]_vars
    PROVE  Settled'
<1>1. CASE SetPreference
    BY <1>1 DEF SetPreference, job, workers, bounds, TypeOK, Settled, Runs, Queued, Outcome
<1>2. ASSUME NEW m \in Mails, Ask(m)
      PROVE  Settled'
    BY <1>2 DEF Ask, job, workers, bounds, TypeOK, Settled, Runs, Queued, Outcome
<1>3. ASSUME NEW m \in Mails, AddEmailJob(m)
      PROVE  Settled'
    BY <1>3 DEF AddEmailJob, job, workers, bounds, TypeOK, Settled, Runs, Queued, Outcome
<1>4. ASSUME NEW m \in Mails, OrphanEnds(m)
      PROVE  Settled'
    BY <1>4 DEF OrphanEnds, job, workers, bounds, TypeOK, Settled, Runs, Queued, Outcome
<1>5. ASSUME NEW m \in Mails, LockExpires(m)
      PROVE  Settled'
    BY <1>5 DEF LockExpires, job, workers, bounds, TypeOK, Settled, Runs, Queued, Outcome
<1>6. ASSUME NEW m \in Mails, MoveStalled(m)
      PROVE  Settled'
    BY <1>6 DEF MoveStalled, job, workers, bounds, TypeOK, Settled, Runs, Queued, Outcome
<1>7. ASSUME NEW m \in Mails, Promote(m)
      PROVE  Settled'
    BY <1>7 DEF Promote, job, workers, bounds, TypeOK, Settled, Runs, Queued, Outcome
<1>8. ASSUME NEW m \in Mails, RetryJob(m)
      PROVE  Settled'
    BY <1>8 DEF RetryJob, job, workers, bounds, TypeOK, Settled, Runs, Queued, Outcome
<1>9. ASSUME NEW m \in Mails, CleanJobs(m)
      PROVE  Settled'
    BY <1>9 DEF CleanJobs, job, workers, bounds, TypeOK, Settled, Runs, Queued, Outcome
<1>10. ASSUME NEW w \in Workers, NEW m \in Mails, Take(w, m)
      PROVE  Settled'
  <2>1. Queued(m) /\ status' = [status EXCEPT ![m] = "active"] /\ Queued(m)'
      BY <1>10 DEF Take, TypeOK, Queued, Outcome
  <2>2. \A n \in Mails : (Queued(n) => Queued(n)') /\ (lock'[n] # None => status'[n] = "active")
      BY <1>10, <2>1 DEF Take, TypeOK, Settled, Queued
  <2>3. \A v \in Workers, n \in Mails :
            Runs(v, n)' => Queued(n)' /\ (run'[v].sent => copies'[n] > 0)
      BY <1>10, <2>1, <2>2, Taken DEF Settled, Take, Runs
  <2> QED
      BY <1>10, <2>2, <2>3 DEF Take, Settled, Queued, Runs
<1>11. ASSUME NEW w \in Workers, HandOver(w)
       PROVE  Settled'
  <2>1. UNCHANGED <<status, lock, orphans>>
      BY <1>11 DEF HandOver, job
  <2>2. \A n \in Mails : copies'[n] >= copies[n] /\ (n = run[w].mail => copies'[n] > 0)
      BY <1>11, Handed DEF HandOver, TypeOK
  <2>3. ASSUME NEW v \in Workers, NEW n \in Mails, Runs(v, n)'
        PROVE  Queued(n)' /\ (run'[v].sent => copies'[n] > 0)
    <3>1. Runs(v, n)
        BY <1>11, <2>3, Handed DEF Runs
    <3>2. Queued(n)'
        BY <2>1, <3>1 DEF Settled, Queued
    <3>3. CASE v = w
        BY <2>2, <3>1, <3>2, <3>3 DEF Runs
    <3>4. CASE v # w
      <4>1. run'[v].sent => copies[n] > 0
          BY <1>11, <3>1, <3>4, Handed DEF Settled
      <4>2. copies'[n] >= copies[n] /\ copies[n] \in Nat /\ copies'[n] \in Nat
          BY <1>11, <2>2, Handed DEF HandOver, TypeOK
      <4> QED
          BY <3>2, <4>1, <4>2
    <3> QED
        BY <3>3, <3>4
  <2> QED
      BY <2>1, <2>3 DEF Settled, Queued, Runs
<1>12. ASSUME NEW w \in Workers, Complete(w) \/ AttemptFails(w) \/ Timeout(w)
       PROVE  Settled'
    BY <1>12, Ending, EndSettles
<1>13. ASSUME NEW w \in Workers, Crash(w)
       PROVE  Settled'
  <2>1. UNCHANGED <<status, lock, orphans, copies>>
      BY <1>13 DEF Crash, job
  <2> QED
      BY <1>13, <2>1, Freed DEF Crash, Settled, Runs, Queued
<1>14. ASSUME NEW w \in Workers, Restart(w)
       PROVE  Settled'
    BY <1>14 DEF Restart, job, bounds, TypeOK, Settled, Runs, Queued, Outcome
<1>15. CASE UNCHANGED vars
    BY <1>15 DEF vars, job, workers, bounds, TypeOK, Settled, Runs, Queued, Outcome
<1> QED
    BY <1>1, <1>2, <1>3, <1>4, <1>5, <1>6, <1>7, <1>8, <1>9, <1>10,
       <1>11, <1>12, <1>13, <1>14, <1>15 DEF Next

\* Whoever loses the lock of a job that runs raises a doubt (LockExpires).
LEMMA WatchedSteps ==
    ASSUME TypeOK, TypeOK', Settled, Watched, [Next]_vars
    PROVE  Watched'
<1>1. CASE SetPreference
    BY <1>1 DEF SetPreference, job, workers, bounds, TypeOK, Watched, Runs, Doubt
<1>2. ASSUME NEW m \in Mails, Ask(m)
      PROVE  Watched'
    BY <1>2 DEF Ask, job, workers, bounds, TypeOK, Watched, Runs, Doubt
<1>3. ASSUME NEW m \in Mails, AddEmailJob(m)
      PROVE  Watched'
    BY <1>3 DEF AddEmailJob, job, workers, bounds, TypeOK, Watched, Runs, Doubt
<1>4. ASSUME NEW m \in Mails, OrphanEnds(m)
      PROVE  Watched'
    BY <1>4 DEF OrphanEnds, job, workers, bounds, TypeOK, Watched, Runs, Doubt
<1>5. ASSUME NEW m \in Mails, LockExpires(m)
      PROVE  Watched'
    BY <1>5 DEF LockExpires, job, workers, bounds, TypeOK, Watched, Runs, Doubt
<1>6. ASSUME NEW m \in Mails, MoveStalled(m)
      PROVE  Watched'
    BY <1>6 DEF MoveStalled, job, workers, bounds, TypeOK, Watched, Runs, Doubt
<1>7. ASSUME NEW m \in Mails, Promote(m)
      PROVE  Watched'
    BY <1>7 DEF Promote, job, workers, bounds, TypeOK, Watched, Runs, Doubt
<1>8. ASSUME NEW m \in Mails, RetryJob(m)
      PROVE  Watched'
    BY <1>8 DEF RetryJob, job, workers, bounds, TypeOK, Watched, Runs, Doubt
<1>9. ASSUME NEW m \in Mails, CleanJobs(m)
      PROVE  Watched'
    BY <1>9 DEF CleanJobs, job, workers, bounds, TypeOK, Watched, Runs, Doubt
<1>10. ASSUME NEW w \in Workers, NEW m \in Mails, Take(w, m)
      PROVE  Watched'
  <2>1. \A v \in Workers : Runs(v, m) => doubts[m] > 0
      BY <1>10, NoneAssumption DEF Take, Settled, Watched
  <2> QED
      BY <1>10, <2>1, Taken DEF Take, Watched, Runs, TypeOK
<1>11. ASSUME NEW w \in Workers, HandOver(w)
       PROVE  Watched'
    BY <1>11, Handed DEF HandOver, job, Watched, Runs
<1>12. ASSUME NEW w \in Workers, Complete(w) \/ AttemptFails(w) \/ Timeout(w)
       PROVE  Watched'
    BY <1>12, Ending, EndWatches
<1>13. ASSUME NEW w \in Workers, Crash(w)
       PROVE  Watched'
  <2>1. \A n \in Mails : doubts'[n] >= doubts[n]
      BY <1>13 DEF Crash, Doubt, TypeOK
  <2> SUFFICES ASSUME NEW v \in Workers, NEW n \in Mails, Runs(v, n)'
               PROVE  lock'[n] = v \/ doubts'[n] > 0
      BY DEF Watched, Runs
  <2>2. lock[n] = v \/ doubts[n] > 0
      BY <1>13, Freed DEF Crash, Watched
  <2> QED
      BY <1>13, <2>1, <2>2 DEF Crash, job, TypeOK
<1>14. ASSUME NEW w \in Workers, Restart(w)
       PROVE  Watched'
    BY <1>14 DEF Restart, job, bounds, TypeOK, Watched, Runs, Doubt
<1>15. CASE UNCHANGED vars
    BY <1>15 DEF vars, job, workers, bounds, TypeOK, Watched, Runs, Doubt
<1> QED
    BY <1>1, <1>2, <1>3, <1>4, <1>5, <1>6, <1>7, <1>8, <1>9, <1>10,
       <1>11, <1>12, <1>13, <1>14, <1>15 DEF Next

\* A report stores the attempts and gives a job up after the last (moveToFailed).
LEMMA EndAttempts ==
    ASSUME TypeOK, NEW w \in Workers, Complete(w) \/ AttemptFails(w) \/ Timeout(w)
    PROVE  \E m \in Mails :
              /\ Ends(w, m)
              /\ \A n \in Mails \ {m} : attempts'[n] = attempts[n] /\ status'[n] = status[n]
              /\ status'[m] = "failed" => status[m] = "failed" \/ attempts'[m] >= Attempts
<1>1. run[w].mail \in Mails /\ run[w].attempt \in Nat
    BY DEF TypeOK, Processing, Complete, AttemptFails, Timeout
<1>2. Ends(w, run[w].mail)
    BY DEF Ends, Runs, Complete, AttemptFails, Timeout, MoveToFailed
<1>3. \A n \in Mails \ {run[w].mail} : attempts'[n] = attempts[n] /\ status'[n] = status[n]
    BY <1>1 DEF TypeOK, Complete, AttemptFails, Timeout, MoveToFailed
<1>4. status'[run[w].mail] = "failed" =>
          status[run[w].mail] = "failed" \/ attempts'[run[w].mail] >= Attempts
    BY <1>1, QueueAssumption DEF TypeOK, Complete, AttemptFails, Timeout, MoveToFailed
<1> QED
    BY <1>1, <1>2, <1>3, <1>4

LEMMA EndAlone ==
    ASSUME TypeOK, Alone, GivenUpLate, NEW w \in Workers,
           Complete(w) \/ AttemptFails(w) \/ Timeout(w)
    PROVE  Alone' /\ GivenUpLate'
<1>1. PICK m \in Mails :
          /\ Ends(w, m)
          /\ \A n \in Mails \ {m} : attempts'[n] = attempts[n] /\ status'[n] = status[n]
          /\ status'[m] = "failed" => status[m] = "failed" \/ attempts'[m] >= Attempts
    BY EndAttempts
<1>2. stalls' = stalls /\ Runs(w, m)
    BY <1>1 DEF Ends
<1>3. \A v \in Workers, n \in Mails : Runs(v, n)' => v # w /\ Runs(v, n) /\ run'[v] = run[v]
    BY <1>1, Freed DEF Ends
<1>4. \A n \in Mails : stalls[n] = 0 =>
          /\ \A v \in Workers :
                Runs(v, n)' => status'[n] = "active" /\ run'[v].attempt = attempts'[n]
          /\ \A u, v \in Workers : Runs(u, n)' /\ Runs(v, n)' => u = v
  <2> SUFFICES ASSUME NEW n \in Mails, stalls[n] = 0
               PROVE  /\ \A v \in Workers :
                            Runs(v, n)' => status'[n] = "active" /\ run'[v].attempt = attempts'[n]
                      /\ \A u, v \in Workers : Runs(u, n)' /\ Runs(v, n)' => u = v
      OBVIOUS
  <2>1. CASE n = m
      BY <1>2, <1>3, <2>1 DEF Alone
  <2>2. CASE n # m
      BY <1>1, <1>3, <2>2 DEF Alone
  <2> QED
      BY <2>1, <2>2
<1>5. Alone'
    BY <1>2, <1>4 DEF Alone, Runs
<1>6. GivenUpLate'
  <2> SUFFICES ASSUME NEW n \in Mails, status'[n] = "failed"
               PROVE  attempts'[n] >= Attempts \/ stalls'[n] > 0
      BY DEF GivenUpLate
  <2>1. CASE n # m
      BY <1>1, <1>2, <2>1 DEF GivenUpLate
  <2>2. CASE n = m /\ stalls[m] = 0
      BY <1>1, <1>2, <2>2 DEF Alone
  <2>3. CASE n = m /\ stalls[m] # 0
      BY <1>2, <2>3 DEF TypeOK
  <2> QED
      BY <2>1, <2>2, <2>3
<1> QED
    BY <1>5, <1>6

\* A job comes to a second worker by a stall only (MoveStalled).
LEMMA AloneSteps ==
    ASSUME TypeOK, Alone, GivenUpLate, [Next]_vars
    PROVE  Alone' /\ GivenUpLate'
<1>1. CASE SetPreference
    BY <1>1 DEF SetPreference, job, workers, bounds, TypeOK, Alone, GivenUpLate, Runs
<1>2. ASSUME NEW m \in Mails, Ask(m)
      PROVE  Alone' /\ GivenUpLate'
    BY <1>2 DEF Ask, job, workers, bounds, TypeOK, Alone, GivenUpLate, Runs
<1>3. ASSUME NEW m \in Mails, AddEmailJob(m)
      PROVE  Alone' /\ GivenUpLate'
    BY <1>3 DEF AddEmailJob, job, workers, bounds, TypeOK, Alone, GivenUpLate, Runs
<1>4. ASSUME NEW m \in Mails, OrphanEnds(m)
      PROVE  Alone' /\ GivenUpLate'
    BY <1>4 DEF OrphanEnds, job, workers, bounds, TypeOK, Alone, GivenUpLate, Runs
<1>5. ASSUME NEW m \in Mails, LockExpires(m)
      PROVE  Alone' /\ GivenUpLate'
    BY <1>5 DEF LockExpires, job, workers, bounds, TypeOK, Alone, GivenUpLate, Runs
<1>6. ASSUME NEW m \in Mails, MoveStalled(m)
      PROVE  Alone' /\ GivenUpLate'
    BY <1>6 DEF MoveStalled, job, workers, bounds, TypeOK, Alone, GivenUpLate, Runs
<1>7. ASSUME NEW m \in Mails, Promote(m)
      PROVE  Alone' /\ GivenUpLate'
    BY <1>7 DEF Promote, job, workers, bounds, TypeOK, Alone, GivenUpLate, Runs
<1>8. ASSUME NEW m \in Mails, RetryJob(m)
      PROVE  Alone' /\ GivenUpLate'
    BY <1>8 DEF RetryJob, job, workers, bounds, TypeOK, Alone, GivenUpLate, Runs
<1>9. ASSUME NEW m \in Mails, CleanJobs(m)
      PROVE  Alone' /\ GivenUpLate'
    BY <1>9 DEF CleanJobs, job, workers, bounds, TypeOK, Alone, GivenUpLate, Runs
<1>10. ASSUME NEW w \in Workers, NEW m \in Mails, Take(w, m)
       PROVE  Alone' /\ GivenUpLate'
  <2>1. UNCHANGED <<attempts, stalls>> /\ status' = [status EXCEPT ![m] = "active"]
      BY <1>10 DEF Take
  <2>2. GivenUpLate'
      BY <2>1 DEF GivenUpLate, TypeOK
  <2>3. stalls[m] = 0 => \A v \in Workers : ~Runs(v, m)
      BY <1>10 DEF Alone, Take
  <2>4. Alone'
      BY <1>10, <2>1, <2>3, Taken DEF Alone, Runs, TypeOK
  <2> QED
      BY <2>2, <2>4
<1>11. ASSUME NEW w \in Workers, HandOver(w)
       PROVE  Alone' /\ GivenUpLate'
    BY <1>11, Handed DEF HandOver, job, Alone, GivenUpLate, Runs
<1>12. ASSUME NEW w \in Workers, Complete(w) \/ AttemptFails(w) \/ Timeout(w)
       PROVE  Alone' /\ GivenUpLate'
    BY <1>12, EndAlone
<1>13. ASSUME NEW w \in Workers, Crash(w)
       PROVE  Alone' /\ GivenUpLate'
  <2>1. UNCHANGED job
      BY <1>13 DEF Crash
  <2>2. \A v \in Workers, n \in Mails : Runs(v, n)' => Runs(v, n) /\ run'[v] = run[v]
      BY <1>13, Freed DEF Crash
  <2> QED
      BY <2>1, <2>2 DEF job, Alone, GivenUpLate, Runs
<1>14. ASSUME NEW w \in Workers, Restart(w)
       PROVE  Alone' /\ GivenUpLate'
    BY <1>14 DEF Restart, job, bounds, TypeOK, Alone, GivenUpLate, Runs
<1>15. CASE UNCHANGED vars
    BY <1>15 DEF vars, job, workers, bounds, TypeOK, Alone, GivenUpLate, Runs
<1> QED
    BY <1>1, <1>2, <1>3, <1>4, <1>5, <1>6, <1>7, <1>8, <1>9, <1>10,
       <1>11, <1>12, <1>13, <1>14, <1>15 DEF Next

LEMMA QueueInvStarts == Init => QueueInv
<1> SUFFICES ASSUME Init
             PROVE  QueueInv
    OBVIOUS
<1>1. \A w \in Workers, m \in Mails : ~Runs(w, m)
    BY NoneAssumption DEF Init, Runs, Free
<1> QED
    BY <1>1, TypeStarts DEF Init, QueueInv, Settled, Watched, Alone, GivenUpLate

LEMMA QueueInvSteps == QueueInv /\ [Next]_vars => QueueInv'
BY TypeSteps, SettledSteps, WatchedSteps, AloneSteps DEF QueueInv

LEMMA QueueInvHolds == Spec => []QueueInv
BY QueueInvStarts, QueueInvSteps, PTL DEF Spec

\* Two workers send one mail at a time only after a lock was lost (the lock of
\* Bull's jobs, email-queue-processor.service.ts).
THEOREM OneSenderHolds == Spec => []OneSender
<1>1. QueueInv => OneSender
    BY DEF QueueInv, TypeOK, Processing, Watched, OneSender, Runs
<1> QED
    BY <1>1, QueueInvHolds, PTL

\* A mail that is given up had all its attempts, or stalled (queue.config.ts).
THEOREM GivenUpLateHolds == Spec => []GivenUpLate
<1>1. QueueInv => GivenUpLate
    BY DEF QueueInv
<1> QED
    BY <1>1, QueueInvHolds, PTL

-----------------------------------------------------------------------------
(* The refinement of MailDelivery                                          *)

Said == [m \in Mails |-> Outcome(status[m])]

DeliveryStep == Delivery!Next \/ UNCHANGED <<Said, copies>>

\* A step that moves one job moves the outcome of one mail.
LEMMA OneMoves ==
    ASSUME TypeOK, NEW m \in Mails, NEW s, status' = [status EXCEPT ![m] = s],
           NEW from, Outcome(status[m]) \in from, UNCHANGED copies
    PROVE  Delivery!Becomes(m, from, Outcome(s))
<1>1. Said' = [Said EXCEPT ![m] = Outcome(s)]
    BY DEF Said, TypeOK
<1> QED
    BY <1>1 DEF Said, Delivery!Becomes

\* One that leaves every outcome as it is stutters.
LEMMA NoneMoves ==
    ASSUME UNCHANGED copies, \A n \in Mails : Outcome(status'[n]) = Outcome(status[n])
    PROVE  DeliveryStep
BY DEF DeliveryStep, Said

LEMMA SaysOutcomes ==
    /\ Outcome("skipped") = "unsent" /\ Outcome("asked") = "unsent"
    /\ Outcome("refused") = "unsent" /\ Outcome("none") = "unsent"
    /\ Outcome("wait") = "pending" /\ Outcome("active") = "pending"
    /\ Outcome("delayed") = "pending" /\ Outcome("completed") = "delivered"
    /\ Outcome("failed") = "failed" /\ Outcome("removed") = "gone"
BY DEF Outcome

\* What a worker does at the end of its attempt (moveToCompleted, moveToFailed).
LEMMA EndRefines ==
    ASSUME TypeOK, Settled, NEW w \in Workers, Complete(w) \/ AttemptFails(w) \/ Timeout(w)
    PROVE  DeliveryStep
<1> DEFINE m == run[w].mail
<1>1. m \in Mails /\ UNCHANGED copies
    BY DEF TypeOK, Processing, Complete, AttemptFails, Timeout
<1>2. CASE lock[m] # w
  <2>1. UNCHANGED status
      BY <1>2 DEF Complete, AttemptFails, Timeout, MoveToFailed
  <2> QED
      BY <1>1, <2>1, NoneMoves
<1>3. CASE lock[m] = w
  <2>1. status[m] = "active"
      BY <1>1, <1>3, NoneAssumption DEF Settled
  <2>2. CASE Complete(w)
    <3>1. copies[m] > 0 /\ status' = [status EXCEPT ![m] = "completed"]
        BY <1>1, <1>3, <2>2 DEF Complete, Settled, Runs
    <3>2. Delivery!Becomes(m, {"pending"}, Outcome("completed"))
        BY <1>1, <2>1, <3>1, OneMoves, SaysOutcomes
    <3>3. Delivery!Confirm(m)
        BY <3>1, <3>2, SaysOutcomes DEF Delivery!Confirm
    <3> QED
        BY <1>1, <3>3 DEF DeliveryStep, Delivery!Next
  <2>3. CASE AttemptFails(w) \/ Timeout(w)
    <3>1. \/ status' = [status EXCEPT ![m] = "delayed"]
          \/ status' = [status EXCEPT ![m] = "failed"]
        BY <1>3, <2>3 DEF AttemptFails, Timeout, MoveToFailed
    <3>2. CASE status' = [status EXCEPT ![m] = "delayed"]
        BY <1>1, <2>1, <3>2, NoneMoves, SaysOutcomes DEF TypeOK
    <3>3. CASE status' = [status EXCEPT ![m] = "failed"]
      <4>1. Delivery!Becomes(m, {"pending"}, Outcome("failed"))
          BY <1>1, <2>1, <3>3, OneMoves, SaysOutcomes
      <4>2. Delivery!GiveUp(m)
          BY <4>1, SaysOutcomes DEF Delivery!GiveUp
      <4> QED
          BY <1>1, <4>2 DEF DeliveryStep, Delivery!Next
    <3> QED
        BY <3>1, <3>2, <3>3
  <2> QED
      BY <2>2, <2>3
<1> QED
    BY <1>2, <1>3

\* A copy that the server takes is one of a mail that was queued.
LEMMA CopyRefines ==
    ASSUME TypeOK, Settled, UNCHANGED status, NEW m \in Mails, Queued(m),
           copies' = [copies EXCEPT ![m] = @ + 1]
    PROVE  DeliveryStep
<1>1. Delivery!HandOver(m)
    BY DEF Delivery!HandOver, Queued
<1> QED
    BY <1>1 DEF DeliveryStep, Delivery!Next

LEMMA StepsRefine ==
    ASSUME QueueInv, [Next]_vars
    PROVE  DeliveryStep
<1> USE SaysOutcomes DEF QueueInv
<1>1. CASE SetPreference
    BY <1>1, NoneMoves DEF SetPreference, job
<1>2. ASSUME NEW m \in Mails, Ask(m)
      PROVE  DeliveryStep
    BY <1>2, NoneMoves DEF Ask, TypeOK
<1>3. ASSUME NEW m \in Mails, AddEmailJob(m)
      PROVE  DeliveryStep
  <2>1. CASE status' = [status EXCEPT ![m] = "refused"]
      BY <1>3, <2>1, NoneMoves DEF AddEmailJob, TypeOK
  <2>2. CASE status' = [status EXCEPT ![m] = "wait"]
    <3>1. Delivery!Becomes(m, {"unsent"}, Outcome("wait"))
        BY <1>3, <2>2, OneMoves DEF AddEmailJob
    <3>2. Delivery!Accept(m)
        BY <3>1 DEF Delivery!Accept
    <3> QED
        BY <3>2 DEF DeliveryStep, Delivery!Next
  <2> QED
      BY <1>3, <2>1, <2>2 DEF AddEmailJob
<1>4. ASSUME NEW m \in Mails, OrphanEnds(m)
      PROVE  DeliveryStep
  <2>1. UNCHANGED status /\ Queued(m)
      BY <1>4 DEF OrphanEnds, job, Settled
  <2>2. CASE copies' = [copies EXCEPT ![m] = @ + 0]
      BY <2>1, <2>2, NoneMoves DEF TypeOK
  <2>3. CASE copies' = [copies EXCEPT ![m] = @ + 1]
      BY <2>1, <2>3, CopyRefines
  <2> QED
      BY <1>4, <2>2, <2>3 DEF OrphanEnds
<1>5. ASSUME NEW m \in Mails, LockExpires(m)
      PROVE  DeliveryStep
    BY <1>5, NoneMoves DEF LockExpires
<1>6. ASSUME NEW m \in Mails, MoveStalled(m)
      PROVE  DeliveryStep
  <2>1. CASE status' = [status EXCEPT ![m] = "wait"]
      BY <1>6, <2>1, NoneMoves DEF MoveStalled, TypeOK
  <2>2. CASE status' = [status EXCEPT ![m] = "failed"]
    <3>1. Delivery!Becomes(m, {"pending"}, Outcome("failed"))
        BY <1>6, <2>2, OneMoves DEF MoveStalled
    <3>2. Delivery!GiveUp(m)
        BY <3>1 DEF Delivery!GiveUp
    <3> QED
        BY <3>2 DEF DeliveryStep, Delivery!Next
  <2> QED
      BY <1>6, <2>1, <2>2 DEF MoveStalled
<1>7. ASSUME NEW m \in Mails, Promote(m)
      PROVE  DeliveryStep
    BY <1>7, NoneMoves DEF Promote, TypeOK
<1>8. ASSUME NEW m \in Mails, RetryJob(m)
      PROVE  DeliveryStep
  <2>1. Delivery!Becomes(m, {"failed"}, Outcome("wait"))
      BY <1>8, OneMoves DEF RetryJob
  <2>2. Delivery!Retry(m)
      BY <2>1 DEF Delivery!Retry
  <2> QED
      BY <2>2 DEF DeliveryStep, Delivery!Next
<1>9. ASSUME NEW m \in Mails, CleanJobs(m)
      PROVE  DeliveryStep
  <2>1. Delivery!Becomes(m, {"delivered", "failed"}, Outcome("removed"))
      BY <1>9, OneMoves DEF CleanJobs
  <2>2. Delivery!Forget(m)
      BY <2>1 DEF Delivery!Forget
  <2> QED
      BY <2>2 DEF DeliveryStep, Delivery!Next
<1>10. ASSUME NEW w \in Workers, NEW m \in Mails, Take(w, m)
       PROVE  DeliveryStep
    BY <1>10, NoneMoves DEF Take, TypeOK
<1>11. ASSUME NEW w \in Workers, HandOver(w)
       PROVE  DeliveryStep
  <2>1. run[w].mail \in Mails /\ Queued(run[w].mail)
      BY <1>11, Handed DEF Settled, Runs
  <2> QED
      BY <1>11, <2>1, CopyRefines DEF HandOver, job
<1>12. ASSUME NEW w \in Workers, Complete(w) \/ AttemptFails(w) \/ Timeout(w)
       PROVE  DeliveryStep
    BY <1>12, EndRefines
<1>13. ASSUME NEW w \in Workers, Crash(w) \/ Restart(w)
       PROVE  DeliveryStep
    BY <1>13, NoneMoves DEF Crash, Restart, job
<1>14. CASE UNCHANGED vars
    BY <1>14, NoneMoves DEF vars, job
<1> QED
    BY <1>1, <1>2, <1>3, <1>4, <1>5, <1>6, <1>7, <1>8, <1>9, <1>10,
       <1>11, <1>12, <1>13, <1>14 DEF Next

LEMMA StartRefines == Init => Delivery!Init
BY SaysOutcomes DEF Init, Delivery!Init

\* The queue implements MailDelivery: a completed job is a mail that the server
\* took (EmailQueueProcessorService and Bull's job states).
THEOREM QueueKeepsPromise == Spec => KeepsPromise
<1>1. QueueInv /\ [Next]_vars => [Delivery!Next]_<<Said, copies>>
    BY StepsRefine DEF DeliveryStep
<1>2. QueueInv /\ [Next]_vars =>
          [Delivery!Next]_<<[m \in Mails |-> Outcome(status[m])], copies>>
    BY <1>1 DEF Said
<1> QED
    BY <1>2, StartRefines, QueueInvHolds, PTL DEF Spec, KeepsPromise, Delivery!Spec

-----------------------------------------------------------------------------
(* Copies                                                                  *)

\* The workers that have not handed the mail over yet.
Sending(m) == {w \in Workers : Runs(w, m) /\ ~run[w].sent}

\* One copy is nobody's fault: of the worker that has the lock, or of the job that it completed.
Held(m) == IF lock[m] # None /\ Runs(lock[m], m) THEN 1 ELSE 0
Done(m) == IF status[m] \in {"completed", "removed"} THEN 1 ELSE 0

\* Every copy, and every one that may still come, is that one or has its doubt.
Account(m) ==
    /\ IsFiniteSet(Sending(m))
    /\ copies[m] + orphans[m] + Cardinality(Sending(m)) <= doubts[m] + Held(m) + Done(m)

Accounts == \A m \in Mails : Account(m)

LEMMA Tallies ==
    ASSUME NEW m \in Mails, IsFiniteSet(Sending(m))
    PROVE  Cardinality(Sending(m)) \in Nat /\ Held(m) \in Nat /\ Done(m) \in Nat
BY FS_CardinalityType DEF Held, Done

\* What one step adds to the copies of a mail it adds to the doubts.
LEMMA Balance ==
    ASSUME TypeOK, TypeOK', NEW m \in Mails, Account(m), IsFiniteSet(Sending(m)'),
           copies'[m] + orphans'[m] + Cardinality(Sending(m)') + doubts[m] + Held(m) + Done(m)
           <= copies[m] + orphans[m] + Cardinality(Sending(m)) + doubts'[m] + Held(m)' + Done(m)'
    PROVE  Account(m)'
<1> DEFINE S == Cardinality(Sending(m))
           T == Cardinality(Sending(m)')
           H == Held(m)
           G == Held(m)'
           D == Done(m)
           E == Done(m)'
<1>1. S \in Nat /\ H \in Nat /\ D \in Nat
    BY Tallies DEF Account
<1>2. T \in Nat /\ G \in Nat /\ E \in Nat
    BY FS_CardinalityType DEF Held, Done
<1>3. /\ copies[m] \in Nat /\ orphans[m] \in Nat /\ doubts[m] \in Nat
      /\ copies'[m] \in Nat /\ orphans'[m] \in Nat /\ doubts'[m] \in Nat
    BY DEF TypeOK
<1>4. copies[m] + orphans[m] + S <= doubts[m] + H + D
    BY DEF Account
<1>5. copies'[m] + orphans'[m] + T + doubts[m] + H + D
      <= copies[m] + orphans[m] + S + doubts'[m] + G + E
    OBVIOUS
<1> HIDE DEF S, T, H, G, D, E
<1>6. copies'[m] + orphans'[m] + T <= doubts'[m] + G + E
    BY <1>1, <1>2, <1>3, <1>4, <1>5
<1> QED
    BY <1>6 DEF Account, T, G, E

\* A step that leaves the workers and the copies of a mail as they are.
LEMMA Untouched ==
    ASSUME TypeOK, TypeOK', NEW m \in Mails, Account(m), Sending(m)' = Sending(m),
           copies'[m] = copies[m], orphans'[m] = orphans[m], doubts'[m] >= doubts[m],
           Held(m)' >= Held(m), Done(m)' >= Done(m)
    PROVE  Account(m)'
<1>1. /\ IsFiniteSet(Sending(m)) /\ Cardinality(Sending(m)) \in Nat
      /\ Held(m) \in Nat /\ Done(m) \in Nat
    BY Tallies DEF Account
<1>2. Held(m)' \in Nat /\ Done(m)' \in Nat
    BY DEF Held, Done
<1>3. copies[m] \in Nat /\ orphans[m] \in Nat /\ doubts[m] \in Nat /\ doubts'[m] \in Nat
    BY DEF TypeOK
<1>4. Cardinality(Sending(m)') = Cardinality(Sending(m)) /\ IsFiniteSet(Sending(m)')
    BY <1>1
<1> DEFINE S == Cardinality(Sending(m))
           T == Cardinality(Sending(m)')
           H == Held(m)
           G == Held(m)'
           D == Done(m)
           E == Done(m)'
<1>5. /\ S \in Nat /\ T = S /\ H \in Nat /\ D \in Nat /\ G \in Nat /\ E \in Nat
      /\ G >= H /\ E >= D
    BY <1>1, <1>2, <1>4
<1> HIDE DEF S, T, H, G, D, E
<1>6. copies'[m] + orphans'[m] + T + doubts[m] + H + D
      <= copies[m] + orphans[m] + S + doubts'[m] + G + E
    BY <1>3, <1>5
<1> QED
    BY <1>4, <1>6, Balance DEF S, T, H, G, D, E

\* A worker that ends its attempt, or dies, sends nothing any more.
LEMMA FreedSending ==
    ASSUME TypeOK, NEW w \in Workers, run' = [run EXCEPT ![w] = Free], NEW m \in Mails
    PROVE  Sending(m)' = Sending(m) \ {w}
<1>1. \A v \in Workers : v # w => run'[v] = run[v]
    BY DEF TypeOK
<1>2. \A v \in Workers : Runs(v, m)' => v # w
    BY Freed
<1>3. \A v \in Workers : v # w => (Runs(v, m)' <=> Runs(v, m)) /\ run'[v].sent = run[v].sent
    BY <1>1 DEF Runs
<1> QED
    BY <1>2, <1>3 DEF Sending

LEMMA FreedHeld ==
    ASSUME TypeOK, NEW w \in Workers, run' = [run EXCEPT ![w] = Free], NEW m \in Mails,
           lock'[m] = lock[m], lock[m] = w => ~Runs(w, m)
    PROVE  Held(m)' = Held(m)
<1>1. lock[m] # None => lock[m] \in Workers
    BY DEF TypeOK
<1>2. \A v \in Workers : v # w => run'[v] = run[v]
    BY DEF TypeOK
<1>3. ~Runs(w, m)'
    BY Freed
<1>4. lock[m] # None => (Runs(lock[m], m)' <=> Runs(lock[m], m))
  <2>1. CASE lock[m] = w
      BY <1>3, <2>1 DEF Runs
  <2>2. CASE lock[m] # w
      BY <1>1, <1>2, <2>2 DEF Runs
  <2> QED
      BY <2>1, <2>2
<1> QED
    BY <1>4 DEF Held, Runs

\* What the end of an attempt does to the worker's own mail.
LEMMA EndOwn ==
    ASSUME TypeOK, TypeOK', Settled, NEW w \in Workers, NEW m \in Mails, Runs(w, m), Account(m),
           Complete(w) \/ AttemptFails(w) \/ Timeout(w)
    PROVE  Account(m)'
<1> DEFINE S == Cardinality(Sending(m))
           T == Cardinality(Sending(m)')
           H == Held(m)
           G == Held(m)'
           D == Done(m)
           E == Done(m)'
<1>1. run[w].mail = m /\ run[w].sent \in BOOLEAN
    BY DEF Runs, TypeOK, Processing
<1>2. run' = [run EXCEPT ![w] = Free]
    BY DEF Complete, AttemptFails, Timeout
<1>3. Sending(m)' = Sending(m) \ {w} /\ IsFiniteSet(Sending(m))
    BY <1>2, FreedSending DEF Account
<1>4. IsFiniteSet(Sending(m)') /\ S \in Nat /\ T = IF run[w].sent THEN S ELSE S - 1
  <2>1. w \in Sending(m) <=> ~run[w].sent
      BY DEF Sending
  <2> QED
      BY <1>3, <2>1, FS_RemoveElement, FS_CardinalityType
<1>5. T \in Nat
    BY <1>4, FS_CardinalityType
<1>6. CASE lock[m] # w
  <2>1. UNCHANGED <<status, lock>>
      BY <1>1, <1>6 DEF Complete, AttemptFails, Timeout, MoveToFailed
  <2>2. G = H /\ E = D
      BY <1>2, <1>6, <2>1, FreedHeld DEF Done
  <2>3. H \in Nat /\ D \in Nat
      BY DEF Held, Done
  <2>4. CASE Complete(w)
    <3>1. copies'[m] = copies[m] /\ orphans'[m] = orphans[m] /\ doubts'[m] = doubts[m] /\ T = S
        BY <1>1, <1>4, <2>4 DEF Complete
    <3> HIDE DEF S, T, H, G, D, E
    <3>2. copies'[m] + orphans'[m] + T + doubts[m] + H + D
          <= copies[m] + orphans[m] + S + doubts'[m] + G + E
        BY <1>4, <2>2, <2>3, <3>1 DEF TypeOK
    <3> QED
        BY <1>4, <3>2, Balance DEF S, T, H, G, D, E
  <2>5. CASE AttemptFails(w)
    <3>1. copies'[m] = copies[m] /\ orphans'[m] = orphans[m]
        BY <2>5 DEF AttemptFails
    <3>2. doubts'[m] = IF run[w].sent THEN doubts[m] + 1 ELSE doubts[m]
        BY <1>1, <2>5 DEF AttemptFails, Doubt, TypeOK
    <3> HIDE DEF S, T, H, G, D, E
    <3>3. copies'[m] + orphans'[m] + T + doubts[m] + H + D
          <= copies[m] + orphans[m] + S + doubts'[m] + G + E
        BY <1>1, <1>4, <2>2, <2>3, <3>1, <3>2 DEF TypeOK
    <3> QED
        BY <1>4, <3>3, Balance DEF S, T, H, G, D, E
  <2>6. CASE Timeout(w)
    <3>1. copies'[m] = copies[m] /\ doubts'[m] = doubts[m] + 1
        BY <1>1, <2>6 DEF Timeout, Doubt, TypeOK
    <3>2. orphans'[m] = IF run[w].sent THEN orphans[m] ELSE orphans[m] + 1
        BY <1>1, <2>6 DEF Timeout, TypeOK
    <3> HIDE DEF S, T, H, G, D, E
    <3>3. copies'[m] + orphans'[m] + T + doubts[m] + H + D
          <= copies[m] + orphans[m] + S + doubts'[m] + G + E
        BY <1>1, <1>4, <2>2, <2>3, <3>1, <3>2 DEF TypeOK
    <3> QED
        BY <1>4, <3>3, Balance DEF S, T, H, G, D, E
  <2> QED
      BY <2>4, <2>5, <2>6
<1>7. CASE lock[m] = w
  <2>1. H = 1 /\ D = 0 /\ status[m] = "active"
      BY <1>7, NoneAssumption DEF Held, Done, Settled
  <2>2. G = 0
      BY <1>1, <1>7 DEF Held, Complete, AttemptFails, Timeout, MoveToFailed, TypeOK
  <2>3. E \in Nat
      BY DEF Done
  <2>4. CASE Complete(w)
    <3>1. copies'[m] = copies[m] /\ orphans'[m] = orphans[m] /\ doubts'[m] = doubts[m] /\ T = S
        BY <1>1, <1>4, <2>4 DEF Complete
    <3>2. E = 1
        BY <1>1, <1>7, <2>4 DEF Complete, Done, TypeOK
    <3> HIDE DEF S, T, H, G, D, E
    <3>3. copies'[m] + orphans'[m] + T + doubts[m] + H + D
          <= copies[m] + orphans[m] + S + doubts'[m] + G + E
        BY <1>4, <2>1, <2>2, <3>1, <3>2 DEF TypeOK
    <3> QED
        BY <1>4, <3>3, Balance DEF S, T, H, G, D, E
  <2>5. CASE AttemptFails(w)
    <3>1. copies'[m] = copies[m] /\ orphans'[m] = orphans[m]
        BY <2>5 DEF AttemptFails
    <3>2. doubts'[m] = IF run[w].sent THEN doubts[m] + 1 ELSE doubts[m]
        BY <1>1, <2>5 DEF AttemptFails, Doubt, TypeOK
    <3> HIDE DEF S, T, H, G, D, E
    <3>3. copies'[m] + orphans'[m] + T + doubts[m] + H + D
          <= copies[m] + orphans[m] + S + doubts'[m] + G + E
        BY <1>1, <1>4, <2>1, <2>2, <2>3, <3>1, <3>2 DEF TypeOK
    <3> QED
        BY <1>4, <3>3, Balance DEF S, T, H, G, D, E
  <2>6. CASE Timeout(w)
    <3>1. copies'[m] = copies[m] /\ doubts'[m] = doubts[m] + 1
        BY <1>1, <2>6 DEF Timeout, Doubt, TypeOK
    <3>2. orphans'[m] = IF run[w].sent THEN orphans[m] ELSE orphans[m] + 1
        BY <1>1, <2>6 DEF Timeout, TypeOK
    <3> HIDE DEF S, T, H, G, D, E
    <3>3. copies'[m] + orphans'[m] + T + doubts[m] + H + D
          <= copies[m] + orphans[m] + S + doubts'[m] + G + E
        BY <1>1, <1>4, <2>1, <2>2, <2>3, <3>1, <3>2 DEF TypeOK
    <3> QED
        BY <1>4, <3>3, Balance DEF S, T, H, G, D, E
  <2> QED
      BY <2>4, <2>5, <2>6
<1> QED
    BY <1>6, <1>7

LEMMA EndOthers ==
    ASSUME TypeOK, TypeOK', NEW w \in Workers, NEW m \in Mails, ~Runs(w, m), Account(m),
           Complete(w) \/ AttemptFails(w) \/ Timeout(w) \/ Crash(w)
    PROVE  Account(m)'
<1>1. run' = [run EXCEPT ![w] = Free] /\ run[w].mail # m
    BY DEF Complete, AttemptFails, Timeout, Crash, Runs
<1>2. Sending(m)' = Sending(m)
  <2>1. w \notin Sending(m)
      BY DEF Sending
  <2> QED
      BY <1>1, <2>1, FreedSending
<1>3. /\ copies'[m] = copies[m] /\ orphans'[m] = orphans[m] /\ doubts'[m] = doubts[m]
      /\ lock'[m] = lock[m] /\ status'[m] = status[m]
    BY <1>1 DEF Complete, AttemptFails, Timeout, Crash, MoveToFailed, Doubt, job, TypeOK
<1>4. Held(m)' = Held(m) /\ Done(m)' = Done(m)
    BY <1>1, <1>3, FreedHeld DEF Done
<1>5. Held(m) \in Nat /\ Done(m) \in Nat /\ doubts[m] \in Nat
    BY DEF Held, Done, TypeOK
<1> QED
    BY <1>2, <1>3, <1>4, <1>5, Untouched

\* A worker that dies with the lock keeps it, but no longer runs the job.
LEMMA CrashOwn ==
    ASSUME TypeOK, TypeOK', NEW w \in Workers, NEW m \in Mails, Runs(w, m), Account(m), Crash(w)
    PROVE  Account(m)'
<1> DEFINE S == Cardinality(Sending(m))
           T == Cardinality(Sending(m)')
           H == Held(m)
           G == Held(m)'
           D == Done(m)
           E == Done(m)'
<1>1. run[w].mail = m /\ run[w].sent \in BOOLEAN
    BY DEF Runs, TypeOK, Processing
<1>2. run' = [run EXCEPT ![w] = Free] /\ UNCHANGED <<status, lock, orphans, copies>>
    BY DEF Crash, job
<1>3. IsFiniteSet(Sending(m)') /\ S \in Nat /\ T = IF run[w].sent THEN S ELSE S - 1
  <2>1. w \in Sending(m) <=> ~run[w].sent
      BY DEF Sending
  <2>2. Sending(m)' = Sending(m) \ {w} /\ IsFiniteSet(Sending(m))
      BY <1>2, FreedSending DEF Account
  <2> QED
      BY <2>1, <2>2, FS_RemoveElement, FS_CardinalityType
<1>4. T \in Nat
    BY <1>3, FS_CardinalityType
<1>5. doubts'[m] = IF run[w].sent THEN doubts[m] + 1 ELSE doubts[m]
    BY <1>1 DEF Crash, Doubt, TypeOK
<1>6. E = D /\ D \in Nat /\ H \in {0, 1} /\ G \in {0, 1}
    BY <1>2 DEF Done, Held
<1>7. copies'[m] = copies[m] /\ orphans'[m] = orphans[m]
    BY <1>2
<1> HIDE DEF S, T, H, G, D, E
<1>8. copies'[m] + orphans'[m] + T + doubts[m] + H + D
      <= copies[m] + orphans[m] + S + doubts'[m] + G + E
    BY <1>1, <1>3, <1>4, <1>5, <1>6, <1>7 DEF TypeOK
<1> QED
    BY <1>3, <1>8, Balance DEF S, T, H, G, D, E

\* A step of the queue, or of the application, that no worker sees.
LEMMA QueueAccounts ==
    ASSUME TypeOK, TypeOK', Accounts, UNCHANGED <<run, orphans, copies, doubts>>,
           \A m \in Mails : Held(m)' >= Held(m) /\ Done(m)' >= Done(m)
    PROVE  Accounts'
<1> SUFFICES ASSUME NEW m \in Mails
             PROVE  Account(m)'
    BY DEF Accounts
<1>1. Sending(m)' = Sending(m)
    BY DEF Sending, Runs
<1>2. doubts'[m] >= doubts[m]
    BY DEF TypeOK
<1> QED
    BY <1>1, <1>2, Untouched DEF Accounts

LEMMA TakeAccounts ==
    ASSUME TypeOK, TypeOK', Settled, Accounts, NEW w \in Workers, NEW m \in Mails, Take(w, m)
    PROVE  Accounts'
<1> SUFFICES ASSUME NEW n \in Mails
             PROVE  Account(n)'
    BY DEF Accounts
<1>1. Account(n) /\ run[w].mail = None /\ UNCHANGED <<orphans, copies, doubts>>
    BY DEF Accounts, Take, Free
<1>2. \A v \in Workers : v # w => run'[v] = run[v]
    BY Taken
<1>3. \A v \in Workers : v # w => (v \in Sending(n)' <=> v \in Sending(n))
    BY <1>2 DEF Sending, Runs
<1>4. w \notin Sending(n)
    BY <1>1, NoneAssumption DEF Sending, Runs
<1>5. CASE n # m
  <2>1. w \notin Sending(n)'
      BY <1>5, Taken DEF Sending, Runs
  <2>2. Sending(n)' = Sending(n)
      BY <1>3, <1>4, <2>1 DEF Sending
  <2>3. lock'[n] = lock[n] /\ status'[n] = status[n]
      BY <1>5 DEF Take, TypeOK
  <2>4. Held(n)' >= Held(n)
    <3>1. Held(n) = 1 => lock[n] # None /\ lock[n] # w /\ Runs(lock[n], n)
        BY <1>1, NoneAssumption DEF Held, Runs
    <3>2. Held(n) = 1 => Held(n)' = 1
        BY <1>2, <2>3, <3>1 DEF Held, Runs, TypeOK
    <3> QED
        BY <3>2 DEF Held
  <2>5. Done(n)' >= Done(n) /\ doubts'[n] >= doubts[n]
      BY <1>1, <2>3 DEF Done, TypeOK
  <2> QED
      BY <1>1, <2>2, <2>4, <2>5, Untouched
<1>6. CASE n = m
  <2> DEFINE S == Cardinality(Sending(n))
             T == Cardinality(Sending(n)')
             H == Held(n)
             G == Held(n)'
             D == Done(n)
             E == Done(n)'
  <2>1. Sending(n)' = Sending(n) \cup {w}
    <3>1. w \in Sending(n)'
        BY <1>6 DEF Sending, Runs, Take, TypeOK
    <3> QED
        BY <1>3, <3>1 DEF Sending
  <2>2. IsFiniteSet(Sending(n)') /\ S \in Nat /\ T = S + 1
      BY <1>1, <1>4, <2>1, FS_AddElement, FS_CardinalityType DEF Account
  <2>3. H = 0 /\ D = 0 /\ E = 0
      BY <1>6 DEF Held, Done, Settled, Take, TypeOK
  <2>4. G = 1
      BY <1>6, NoneAssumption DEF Held, Runs, Take, TypeOK
  <2>5. copies'[n] = copies[n] /\ orphans'[n] = orphans[n] /\ doubts'[n] = doubts[n]
      BY <1>1
  <2> HIDE DEF S, T, H, G, D, E
  <2>6. copies'[n] + orphans'[n] + T + doubts[n] + H + D
        <= copies[n] + orphans[n] + S + doubts'[n] + G + E
      BY <2>2, <2>3, <2>4, <2>5 DEF TypeOK
  <2> QED
      BY <1>1, <2>2, <2>6, Balance DEF S, T, H, G, D, E
<1> QED
    BY <1>5, <1>6

LEMMA HandOverAccounts ==
    ASSUME TypeOK, TypeOK', Accounts, NEW w \in Workers, HandOver(w)
    PROVE  Accounts'
<1> SUFFICES ASSUME NEW n \in Mails
             PROVE  Account(n)'
    BY DEF Accounts
<1>1. Account(n) /\ UNCHANGED <<lock, status, orphans, doubts>>
    BY DEF Accounts, HandOver, job
<1>2. /\ run[w].mail \in Mails /\ ~run[w].sent
      /\ \A v \in Workers : run'[v].mail = run[v].mail /\ (v # w => run'[v] = run[v])
    BY Handed DEF HandOver
<1>3. run'[w].sent
    BY DEF HandOver, TypeOK, Processing
<1>4. Sending(n)' = Sending(n) \ {w}
    BY <1>2, <1>3 DEF Sending, Runs
<1>5. Held(n)' = Held(n) /\ Done(n)' = Done(n)
    BY <1>1, <1>2 DEF Held, Done, Runs, TypeOK
<1>6. CASE n # run[w].mail
  <2>1. Sending(n)' = Sending(n)
      BY <1>4, <1>6 DEF Sending, Runs
  <2>2. copies'[n] = copies[n] /\ orphans'[n] = orphans[n] /\ doubts'[n] >= doubts[n]
      BY <1>1, <1>2, <1>6 DEF HandOver, TypeOK
  <2>3. Held(n)' >= Held(n) /\ Done(n)' >= Done(n)
      BY <1>5 DEF Held, Done
  <2> QED
      BY <1>1, <2>1, <2>2, <2>3, Untouched
<1>7. CASE n = run[w].mail
  <2> DEFINE S == Cardinality(Sending(n))
             T == Cardinality(Sending(n)')
             H == Held(n)
             G == Held(n)'
             D == Done(n)
             E == Done(n)'
  <2>1. w \in Sending(n)
      BY <1>2, <1>7 DEF Sending, Runs
  <2>2. IsFiniteSet(Sending(n)') /\ S \in Nat /\ T = S - 1
      BY <1>1, <1>4, <2>1, FS_RemoveElement, FS_CardinalityType DEF Account
  <2>3. H = G /\ D = E /\ H \in Nat /\ D \in Nat
      BY <1>5 DEF Held, Done
  <2>4. copies'[n] = copies[n] + 1 /\ orphans'[n] = orphans[n] /\ doubts'[n] = doubts[n]
      BY <1>1, <1>7 DEF HandOver, TypeOK
  <2> HIDE DEF S, T, H, G, D, E
  <2>5. copies'[n] + orphans'[n] + T + doubts[n] + H + D
        <= copies[n] + orphans[n] + S + doubts'[n] + G + E
      BY <2>2, <2>3, <2>4 DEF TypeOK
  <2> QED
      BY <1>1, <2>2, <2>5, Balance DEF S, T, H, G, D, E
<1> QED
    BY <1>6, <1>7

LEMMA OrphanAccounts ==
    ASSUME TypeOK, TypeOK', Accounts, NEW m \in Mails, OrphanEnds(m)
    PROVE  Accounts'
<1> SUFFICES ASSUME NEW n \in Mails
             PROVE  Account(n)'
    BY DEF Accounts
<1>1. Account(n) /\ UNCHANGED <<lock, status, run, doubts>>
    BY DEF Accounts, OrphanEnds, job, workers
<1>2. Sending(n)' = Sending(n) /\ Held(n)' = Held(n) /\ Done(n)' = Done(n)
    BY <1>1 DEF Sending, Held, Done, Runs
<1>3. copies'[n] + orphans'[n] <= copies[n] + orphans[n]
    BY DEF OrphanEnds, TypeOK
<1> DEFINE S == Cardinality(Sending(n))
           T == Cardinality(Sending(n)')
           H == Held(n)
           G == Held(n)'
           D == Done(n)
           E == Done(n)'
<1>4. /\ IsFiniteSet(Sending(n)') /\ S \in Nat /\ T = S
      /\ G = H /\ E = D /\ H \in Nat /\ D \in Nat
    BY <1>1, <1>2, Tallies DEF Account
<1> HIDE DEF S, T, H, G, D, E
<1>5. copies'[n] + orphans'[n] + T + doubts[n] + H + D
      <= copies[n] + orphans[n] + S + doubts'[n] + G + E
    BY <1>1, <1>3, <1>4 DEF TypeOK
<1> QED
    BY <1>1, <1>4, <1>5, Balance DEF S, T, H, G, D, E

\* A lock that its worker loses while it runs is a doubt from then on.
LEMMA LapseAccounts ==
    ASSUME TypeOK, TypeOK', Accounts, NEW m \in Mails, LockExpires(m)
    PROVE  Accounts'
<1> SUFFICES ASSUME NEW n \in Mails
             PROVE  Account(n)'
    BY DEF Accounts
<1>1. Account(n) /\ UNCHANGED <<status, run, orphans, copies>>
    BY DEF Accounts, LockExpires, workers
<1>2. Sending(n)' = Sending(n) /\ Done(n)' = Done(n)
    BY <1>1 DEF Sending, Done, Runs
<1>3. doubts'[n] + Held(n)' >= doubts[n] + Held(n)
  <2>1. CASE n # m
    <3>1. doubts'[n] = doubts[n] /\ lock'[n] = lock[n]
        BY <2>1 DEF LockExpires, Doubt, TypeOK
    <3>2. Held(n)' = Held(n) /\ Held(n) \in Nat
        BY <1>1, <3>1 DEF Held, Runs
    <3> QED
        BY <3>1, <3>2 DEF TypeOK
  <2>2. CASE n = m /\ run[lock[m]].mail # m
    <3>1. Held(n) = 0 /\ Held(n)' \in Nat
        BY <2>2 DEF Held, Runs
    <3>2. doubts'[n] = doubts[n]
        BY <2>2 DEF LockExpires
    <3> QED
        BY <3>1, <3>2 DEF TypeOK
  <2>3. CASE n = m /\ run[lock[m]].mail = m
    <3>1. Held(n) \in {0, 1} /\ Held(n)' \in Nat
        BY DEF Held
    <3>2. doubts'[n] = doubts[n] + 1
        BY <2>3 DEF LockExpires, Doubt, TypeOK
    <3> QED
        BY <3>1, <3>2 DEF TypeOK
  <2> QED
      BY <2>1, <2>2, <2>3
<1> DEFINE S == Cardinality(Sending(n))
           T == Cardinality(Sending(n)')
           H == Held(n)
           G == Held(n)'
           D == Done(n)
           E == Done(n)'
<1>4. /\ IsFiniteSet(Sending(n)') /\ S \in Nat /\ T = S
      /\ E = D /\ H \in Nat /\ G \in Nat /\ D \in Nat
    BY <1>1, <1>2, Tallies DEF Account, Held
<1>5. doubts'[n] + G >= doubts[n] + H
    BY <1>3
<1> HIDE DEF S, T, H, G, D, E
<1>6. copies'[n] + orphans'[n] + T + doubts[n] + H + D
      <= copies[n] + orphans[n] + S + doubts'[n] + G + E
    BY <1>1, <1>4, <1>5 DEF TypeOK
<1> QED
    BY <1>1, <1>4, <1>6, Balance DEF S, T, H, G, D, E

LEMMA AccountsSteps ==
    ASSUME TypeOK, TypeOK', Settled, Accounts, [Next]_vars
    PROVE  Accounts'
<1>0. \A m \in Mails : Held(m) \in Nat /\ Done(m) \in Nat
    BY DEF Held, Done
<1>1. ASSUME UNCHANGED <<job, run, orphans, copies, doubts>>
      PROVE  Accounts'
    BY <1>0, <1>1, QueueAccounts DEF job, Held, Done, Runs
<1>2. ASSUME UNCHANGED <<lock, run, orphans, copies, doubts>>,
             NEW m \in Mails, NEW s, status' = [status EXCEPT ![m] = s],
             status[m] \in {"completed", "removed"} => s \in {"completed", "removed"}
      PROVE  Accounts'
  <2>1. \A n \in Mails : Held(n)' >= Held(n)
      BY <1>0, <1>2 DEF Held, Runs
  <2>2. \A n \in Mails : Done(n)' >= Done(n)
      BY <1>2 DEF Done, TypeOK
  <2> QED
      BY <1>2, <2>1, <2>2, QueueAccounts
<1>3. CASE SetPreference
    BY <1>1, <1>3 DEF SetPreference, workers
<1>4. ASSUME NEW m \in Mails, Ask(m)
      PROVE  Accounts'
    BY <1>2, <1>4 DEF Ask, workers
<1>5. ASSUME NEW m \in Mails, AddEmailJob(m)
      PROVE  Accounts'
    BY <1>2, <1>5 DEF AddEmailJob, workers
<1>6. ASSUME NEW m \in Mails, OrphanEnds(m)
      PROVE  Accounts'
    BY <1>6, OrphanAccounts
<1>7. ASSUME NEW m \in Mails, LockExpires(m)
      PROVE  Accounts'
    BY <1>7, LapseAccounts
<1>8. ASSUME NEW m \in Mails, MoveStalled(m) \/ Promote(m) \/ RetryJob(m)
      PROVE  Accounts'
  <2>1. UNCHANGED <<lock, run, orphans, copies, doubts>>
      BY <1>8 DEF MoveStalled, Promote, RetryJob, workers
  <2>2. PICK s : status' = [status EXCEPT ![m] = s]
      BY <1>8 DEF MoveStalled, Promote, RetryJob
  <2>3. status[m] \notin {"completed", "removed"}
      BY <1>8 DEF MoveStalled, Promote, RetryJob
  <2> QED
      BY <1>2, <2>1, <2>2, <2>3
<1>9. ASSUME NEW m \in Mails, CleanJobs(m)
      PROVE  Accounts'
    BY <1>2, <1>9 DEF CleanJobs, workers
<1>10. ASSUME NEW w \in Workers, NEW m \in Mails, Take(w, m)
       PROVE  Accounts'
    BY <1>10, TakeAccounts
<1>11. ASSUME NEW w \in Workers, HandOver(w)
       PROVE  Accounts'
    BY <1>11, HandOverAccounts
<1>12. ASSUME NEW w \in Workers, Complete(w) \/ AttemptFails(w) \/ Timeout(w)
       PROVE  Accounts'
    BY <1>12, EndOwn, EndOthers DEF Accounts
<1>13. ASSUME NEW w \in Workers, Crash(w)
       PROVE  Accounts'
    BY <1>13, CrashOwn, EndOthers DEF Accounts
<1>14. ASSUME NEW w \in Workers, Restart(w)
       PROVE  Accounts'
    BY <1>1, <1>14 DEF Restart
<1>15. CASE UNCHANGED vars
    BY <1>1, <1>15 DEF vars, workers
<1> QED
    BY <1>3, <1>4, <1>5, <1>6, <1>7, <1>8, <1>9, <1>10,
       <1>11, <1>12, <1>13, <1>14, <1>15 DEF Next

LEMMA AccountsStart == Init => Accounts
<1> SUFFICES ASSUME Init, NEW m \in Mails
             PROVE  Account(m)
    BY DEF Accounts
<1>1. Sending(m) = {}
    BY NoneAssumption DEF Init, Sending, Runs, Free
<1>2. IsFiniteSet(Sending(m)) /\ Cardinality(Sending(m)) = 0
    BY <1>1, FS_EmptySet
<1>3. Held(m) \in Nat /\ Done(m) \in Nat
    BY DEF Held, Done
<1> QED
    BY <1>2, <1>3 DEF Init, Account

\* A mail that is locked is not done yet.
LEMMA AccountsExplain ==
    ASSUME TypeOK, Settled, Accounts
    PROVE  CopiesExplained
<1> SUFFICES ASSUME NEW m \in Mails
             PROVE  copies[m] <= 1 + doubts[m]
    BY DEF CopiesExplained
<1> DEFINE S == Cardinality(Sending(m))
           H == Held(m)
           D == Done(m)
<1>1. S \in Nat /\ copies[m] + orphans[m] + S <= doubts[m] + H + D
    BY Tallies DEF Accounts, Account
<1>2. H \in Nat /\ D \in Nat /\ H + D <= 1
    BY DEF Held, Done, Settled
<1>3. copies[m] \in Nat /\ orphans[m] \in Nat /\ doubts[m] \in Nat
    BY DEF TypeOK
<1> HIDE DEF S, H, D
<1> QED
    BY <1>1, <1>2, <1>3

\* A recipient gets a mail again only for a doubt: an answer that was lost or came too late,
\* a worker that died or lost its lock (email-queue-processor.service.ts, queue.config.ts).
THEOREM CopiesAreExplained == Spec => []CopiesExplained
<1>1. QueueInv /\ Accounts /\ QueueInv' /\ [Next]_vars => Accounts'
    BY AccountsSteps DEF QueueInv
<1>2. QueueInv /\ Accounts => CopiesExplained
    BY AccountsExplain DEF QueueInv
<1> QED
    BY <1>1, <1>2, AccountsStart, QueueInvHolds, PTL DEF Spec

-----------------------------------------------------------------------------
(* Records of the throttle                                                 *)

Records == [hits : Nat, expires : Nat, blocked : BOOLEAN]

\* A record counts its hits: blocked from the limit-th on.
Wellformed(record) ==
    record # NoRecord =>
        /\ record.hits >= 1
        /\ IF record.blocked THEN record.hits >= Limit ELSE record.hits <= Quota

LEMMA QuotaIs == Quota = (IF Limit = 1 THEN 1 ELSE Limit - 1) /\ Quota \in Nat /\ Quota >= 1
<1> DEFINE q == IF Limit = 1 THEN 1 ELSE Limit - 1
<1>1. q \in {1, Limit - 1} /\ \A x \in {1, Limit - 1} : q >= x
    BY ThrottleAssumption
<1>2. \A x \in {1, Limit - 1} : (\A y \in {1, Limit - 1} : x >= y) => x = q
    BY ThrottleAssumption
<1>3. Max({1, Limit - 1}) = q
    BY <1>1, <1>2 DEF Max
<1> QED
    BY <1>3, ThrottleAssumption DEF Quota

LEMMA NoRecordIs ==
    /\ NoRecord \in Records /\ Wellformed(NoRecord)
    /\ NoRecord.hits = 0 /\ ~NoRecord.blocked /\ NoRecord.expires = 0
BY DEF NoRecord, Record, Records, Wellformed

\* The first hit of a window.
LEMMA FreshHit ==
    ASSUME NEW record \in Records, NEW at \in Nat, ~Counts(record, at)
    PROVE  /\ Hit(record, at) \in Records /\ Hit(record, at) # NoRecord
           /\ Wellformed(Hit(record, at))
           /\ Hit(record, at).hits = 1 /\ Hit(record, at).expires = at + Ttl
           /\ ~Hit(record, at).blocked
<1> DEFINE fresh == [hits |-> 1, expires |-> at + Ttl, blocked |-> FALSE]
<1>1. Hit(record, at) = fresh
    BY DEF Hit, Fresh, Record
<1>2. fresh \in Records /\ fresh.hits = 1 /\ fresh.expires = at + Ttl /\ ~fresh.blocked
    BY ThrottleAssumption DEF Records
<1> HIDE DEF fresh
<1>3. fresh # NoRecord
    BY <1>2, NoRecordIs
<1> QED
    BY <1>1, <1>2, <1>3, QuotaIs DEF Wellformed

\* Another hit of the window: blocked from the limit-th on, for a window from then.
LEMMA LaterHit ==
    ASSUME NEW record \in Records, Wellformed(record), NEW at \in Nat, Counts(record, at)
    PROVE  /\ Hit(record, at) \in Records /\ Hit(record, at) # NoRecord
           /\ Wellformed(Hit(record, at))
           /\ Hit(record, at).hits = record.hits + 1
           /\ Hit(record, at).expires =
                  IF Hit(record, at).blocked THEN at + Ttl ELSE record.expires
           /\ record.blocked => Hit(record, at).blocked
<1> DEFINE full == record.hits + 1 >= Limit
           later == [hits |-> record.hits + 1,
                     expires |-> IF full THEN at + Ttl ELSE record.expires,
                     blocked |-> full]
<1>1. Hit(record, at) = later
    BY DEF Hit, Counted, Record
<1>2. record.hits \in Nat /\ record.expires \in Nat /\ record # NoRecord
    BY DEF Records, Counts
<1>3. /\ later \in Records /\ later.hits = record.hits + 1
      /\ later.expires = IF later.blocked THEN at + Ttl ELSE record.expires
      /\ later.blocked <=> full
  <2>1. full \in BOOLEAN /\ record.hits + 1 \in Nat
      BY <1>2
  <2>2. (IF full THEN at + Ttl ELSE record.expires) \in Nat
      BY <1>2, ThrottleAssumption
  <2> QED
      BY <2>1, <2>2 DEF Records
<1> HIDE DEF later
<1>4. later # NoRecord
    BY <1>2, <1>3, NoRecordIs
<1>5. record.blocked => record.hits >= Limit
    BY <1>2 DEF Wellformed
<1>6. record.blocked => later.blocked
    BY <1>2, <1>3, <1>5, ThrottleAssumption
<1>7. Wellformed(later)
    BY <1>2, <1>3, <1>4, QuotaIs, ThrottleAssumption DEF Wellformed
<1> QED
    BY <1>1, <1>3, <1>4, <1>6, <1>7

\* A blocked record that has not run out blocks the next hit (increment).
LEMMA BlockedHit ==
    ASSUME NEW record \in Records, Wellformed(record), record.blocked,
           NEW at \in Nat, at <= record.expires
    PROVE  Counts(record, at) /\ Hit(record, at).blocked
<1>1. Counts(record, at)
    BY NoRecordIs DEF Counts
<1> QED
    BY <1>1, LaterHit

LEMMA HitType ==
    ASSUME NEW record \in Records, Wellformed(record), NEW at \in Nat
    PROVE  /\ Hit(record, at) \in Records /\ Hit(record, at) # NoRecord
           /\ Wellformed(Hit(record, at))
BY FreshHit, LaterHit

-----------------------------------------------------------------------------
(* Types of the throttle                                                   *)

Steps == {"idle", "get", "set", "passed", "refused", "lost"}
Reasons == {"changed", "fallback", "timer", "restart"}

ThrottleTypes ==
    /\ now \in Nat /\ redis \in {"absent", "up", "down"}
    /\ stored \in [record : Records, until : Nat] /\ Wellformed(stored.record)
    /\ memory \in Records /\ Wellformed(memory) /\ timers \subseteq Nat
    /\ request \in [Requests -> [at : Nat, step : Steps, read : Records]]
    /\ \A r \in Requests : Wellformed(request[r].read)
    /\ refusedUntil \in Nat /\ passedEarly \in BOOLEAN /\ reasons \subseteq Reasons

\* A request that waits for Redis came a short while ago; without a client none waits.
Waiting ==
    \A r \in Requests : request[r].step \in {"get", "set"} =>
        redis # "absent" /\ request[r].at <= now /\ now <= request[r].at + MaxDelay

ThrottleShape == ThrottleTypes /\ Waiting

\* An answer keeps the types of the requests and of the history (increment, the guard).
LEMMA AnswerType ==
    ASSUME ThrottleShape, NEW r \in Requests, NEW record \in Records, NEW why \in SUBSET Reasons,
           Answer(r, record, why)
    PROVE  /\ request' \in [Requests -> [at : Nat, step : Steps, read : Records]]
           /\ \A q \in Requests : Wellformed(request'[q].read)
           /\ refusedUntil' \in Nat /\ passedEarly' \in BOOLEAN /\ reasons' \subseteq Reasons
           /\ \A q \in Requests \ {r} : request'[q] = request[q]
           /\ request'[r].at = now
           /\ request'[r].step = IF record.blocked THEN "refused" ELSE "passed"
<1> DEFINE made == [at |-> now, step |-> IF record.blocked THEN "refused" ELSE "passed",
                    read |-> NoRecord]
<1>1. request' = [request EXCEPT ![r] = made]
    BY DEF Answer
<1>2. /\ made \in [at : Nat, step : Steps, read : Records] /\ made.at = now
      /\ Wellformed(made.read)
      /\ made.step = IF record.blocked THEN "refused" ELSE "passed"
  <2> DEFINE s == IF record.blocked THEN "refused" ELSE "passed"
  <2>1. s \in Steps
      BY DEF Steps
  <2>2. now \in Nat
      BY DEF ThrottleShape, ThrottleTypes
  <2> HIDE DEF s
  <2>3. [at |-> now, step |-> s, read |-> NoRecord] \in [at : Nat, step : Steps, read : Records]
      BY <2>1, <2>2, NoRecordIs
  <2>4. Wellformed([at |-> now, step |-> s, read |-> NoRecord].read)
      BY NoRecordIs
  <2> QED
      BY <2>3, <2>4 DEF s
<1> HIDE DEF made
<1>3. request' \in [Requests -> [at : Nat, step : Steps, read : Records]]
    BY <1>1, <1>2 DEF ThrottleShape, ThrottleTypes
<1>4. (\A q \in Requests \ {r} : request'[q] = request[q]) /\ request'[r] = made
    BY <1>1 DEF ThrottleShape, ThrottleTypes
<1>5. \A q \in Requests : Wellformed(request'[q].read)
  <2>1. \A q \in Requests : Wellformed(request[q].read)
      BY DEF ThrottleShape, ThrottleTypes
  <2>2. TAKE q \in Requests
  <2>3. CASE q = r
      BY <1>2, <1>4, <2>3
  <2>4. CASE q # r
      BY <1>4, <2>1, <2>4
  <2> QED
      BY <2>3, <2>4
<1>6. refusedUntil' \in Nat /\ passedEarly' \in BOOLEAN
  <2>1. passedEarly' = (passedEarly \/ (~record.blocked /\ now < refusedUntil))
      BY DEF Answer
  <2>2. passedEarly' \in BOOLEAN
      BY <2>1
  <2>3. refusedUntil' = IF record.blocked THEN record.expires ELSE refusedUntil
      BY DEF Answer
  <2>4. refusedUntil' \in Nat
      BY <2>3 DEF Records, ThrottleShape, ThrottleTypes
  <2> QED
      BY <2>2, <2>4
<1>7. reasons' \subseteq Reasons
  <2>1. reasons' = reasons \cup why
      BY DEF Answer
  <2> QED
      BY <2>1 DEF ThrottleShape, ThrottleTypes
<1> QED
    BY <1>2, <1>3, <1>4, <1>5, <1>6, <1>7

\* The record of the process counts a request, and a new one gets a timer (memoryStorage).
LEMMA MemoryType ==
    ASSUME ThrottleShape, NEW r \in Requests, NEW at \in Nat, NEW why \in SUBSET Reasons,
           HitMemory(r, at, why)
    PROVE  /\ memory' = Hit(memory, at) /\ memory' \in Records /\ Wellformed(memory')
           /\ timers' \subseteq Nat /\ now' = now /\ redis' = redis
           /\ Answer(r, Hit(memory, at), why)
<1>1. memory' = Hit(memory, at) /\ now' = now /\ redis' = redis /\ Answer(r, Hit(memory, at), why)
    BY DEF HitMemory
<1>2. Hit(memory, at) \in Records /\ Wellformed(Hit(memory, at))
    BY HitType DEF ThrottleShape, ThrottleTypes
<1>3. timers' \subseteq Nat
    BY ThrottleAssumption DEF HitMemory, ThrottleShape, ThrottleTypes
<1> QED
    BY <1>1, <1>2, <1>3

\* The answer ends the wait of its request.
LEMMA AnswerShape ==
    ASSUME ThrottleShape, NEW r \in Requests, NEW record \in Records, NEW why \in SUBSET Reasons,
           Answer(r, record, why), now' = now, redis' = redis,
           stored' \in [record : Records, until : Nat], Wellformed(stored'.record),
           memory' \in Records, Wellformed(memory'), timers' \subseteq Nat
    PROVE  ThrottleShape'
<1>1. ThrottleTypes'
    BY AnswerType DEF ThrottleShape, ThrottleTypes
<1>2. Waiting'
  <2> SUFFICES ASSUME NEW q \in Requests, request'[q].step \in {"get", "set"}
               PROVE  redis' # "absent" /\ request'[q].at <= now' /\ now' <= request'[q].at + MaxDelay
      BY DEF Waiting
  <2>1. q # r /\ request'[q] = request[q]
      BY AnswerType
  <2> QED
      BY <2>1 DEF ThrottleShape, Waiting
<1> QED
    BY <1>1, <1>2 DEF ThrottleShape

\* setEx: the record goes to Redis for a window.
LEMMA WriteType ==
    ASSUME ThrottleShape, NEW record \in Records, Wellformed(record), Write(record)
    PROVE  /\ stored' \in [record : Records, until : Nat]
           /\ stored'.record = record /\ stored'.until = now + Ttl
BY ThrottleAssumption DEF Write, ThrottleShape, ThrottleTypes

LEMMA SetExShape ==
    ASSUME ThrottleShape, NEW r \in Requests, SetEx(r)
    PROVE  ThrottleShape'
<1> DEFINE record == Hit(request[r].read, request[r].at)
           why == IF stored.record = request[r].read THEN {} ELSE {"changed"}
<1>1. request[r].read \in Records /\ request[r].at \in Nat /\ Wellformed(request[r].read)
    BY DEF ThrottleShape, ThrottleTypes
<1>2. record \in Records /\ Wellformed(record)
    BY <1>1, HitType
<1>3. Write(record) /\ Answer(r, record, why) /\ UNCHANGED <<now, redis, memory, timers>>
    BY DEF SetEx
<1>4. why \in SUBSET Reasons
    BY DEF Reasons
<1> HIDE DEF record, why
<1>5. stored' \in [record : Records, until : Nat] /\ Wellformed(stored'.record)
    BY <1>2, <1>3, WriteType
<1>6. /\ memory' \in Records /\ Wellformed(memory') /\ timers' \subseteq Nat
      /\ now' = now /\ redis' = redis
    BY <1>3 DEF ThrottleShape, ThrottleTypes
<1> QED
    BY <1>2, <1>3, <1>4, <1>5, <1>6, AnswerShape

LEMMA FallbackShape ==
    ASSUME ThrottleShape, NEW r \in Requests, Fallback(r)
    PROVE  ThrottleShape'
<1> DEFINE record == Hit(request[r].read, request[r].at)
           here == Hit(memory, request[r].at)
<1>1. request[r].read \in Records /\ request[r].at \in Nat /\ Wellformed(request[r].read)
    BY DEF ThrottleShape, ThrottleTypes
<1>2. record \in Records /\ Wellformed(record) /\ here \in Records
    BY <1>1, HitType DEF ThrottleShape, ThrottleTypes
<1>3. stored' = stored \/ Write(record)
    BY DEF Fallback
<1> HIDE DEF record
<1>4. stored' \in [record : Records, until : Nat] /\ Wellformed(stored'.record)
    BY <1>2, <1>3, WriteType DEF ThrottleShape, ThrottleTypes
<1>5. HitMemory(r, request[r].at, {"fallback"}) /\ {"fallback"} \in SUBSET Reasons
    BY DEF Fallback, Reasons
<1>6. /\ memory' \in Records /\ Wellformed(memory') /\ timers' \subseteq Nat
      /\ now' = now /\ redis' = redis /\ Answer(r, here, {"fallback"})
    BY <1>1, <1>5, MemoryType
<1> HIDE DEF here
<1> QED
    BY <1>2, <1>4, <1>5, <1>6, AnswerShape

LEMMA CountHereShape ==
    ASSUME ThrottleShape, NEW r \in Requests, CountHere(r)
    PROVE  ThrottleShape'
<1> DEFINE here == Hit(memory, now)
<1>1. HitMemory(r, now, {}) /\ {} \in SUBSET Reasons /\ now \in Nat /\ here \in Records
    BY HitType DEF CountHere, ThrottleShape, ThrottleTypes
<1>2. stored' \in [record : Records, until : Nat] /\ Wellformed(stored'.record)
    BY DEF CountHere, ThrottleShape, ThrottleTypes
<1>3. /\ memory' \in Records /\ Wellformed(memory') /\ timers' \subseteq Nat
      /\ now' = now /\ redis' = redis /\ Answer(r, here, {})
    BY <1>1, MemoryType
<1> HIDE DEF here
<1> QED
    BY <1>1, <1>2, <1>3, AnswerShape

\* Requests that arrive and read wait for Redis.
LEMMA ArriveShape ==
    ASSUME ThrottleShape, NEW r \in Requests, Arrive(r)
    PROVE  ThrottleShape'
<1>1. /\ request' = [request EXCEPT ![r] = [request[r] EXCEPT !.at = now, !.step = "get"]]
      /\ UNCHANGED <<now, redis, stored, memory, timers, refusedUntil, passedEarly, reasons>>
    BY DEF Arrive
<1> DEFINE made == [request[r] EXCEPT !.at = now, !.step = "get"]
<1>2. /\ made \in [at : Nat, step : Steps, read : Records]
      /\ made.at = now /\ made.step = "get" /\ made.read = request[r].read
    BY DEF ThrottleShape, ThrottleTypes, Steps
<1> HIDE DEF made
<1>3. /\ request' \in [Requests -> [at : Nat, step : Steps, read : Records]]
      /\ request'[r] = made /\ \A q \in Requests \ {r} : request'[q] = request[q]
    BY <1>1, <1>2 DEF ThrottleShape, ThrottleTypes, made
<1>4. \A q \in Requests : Wellformed(request'[q].read)
  <2>1. \A q \in Requests : request'[q].read = request[q].read
      BY <1>2, <1>3
  <2> QED
      BY <2>1 DEF ThrottleShape, ThrottleTypes
<1>5. Waiting'
  <2> SUFFICES ASSUME NEW q \in Requests, request'[q].step \in {"get", "set"}
               PROVE  redis' # "absent" /\ request'[q].at <= now' /\ now' <= request'[q].at + MaxDelay
      BY DEF Waiting
  <2>1. redis # "absent" /\ redis' = redis /\ now' = now /\ now \in Nat
      BY <1>1 DEF Arrive, ThrottleShape, ThrottleTypes
  <2>2. CASE q = r
      BY <1>2, <1>3, <2>1, <2>2, ThrottleAssumption
  <2>3. CASE q # r
      BY <1>3, <2>1, <2>3 DEF ThrottleShape, Waiting
  <2> QED
      BY <2>2, <2>3
<1> QED
    BY <1>1, <1>3, <1>4, <1>5 DEF ThrottleShape, ThrottleTypes

LEMMA GetShape ==
    ASSUME ThrottleShape, NEW r \in Requests, Get(r)
    PROVE  ThrottleShape'
<1>1. /\ request' = [request EXCEPT ![r] = [request[r] EXCEPT !.step = "set", !.read = stored.record]]
      /\ UNCHANGED <<now, redis, stored, memory, timers, refusedUntil, passedEarly, reasons>>
    BY DEF Get
<1> DEFINE made == [request[r] EXCEPT !.step = "set", !.read = stored.record]
<1>2. /\ made \in [at : Nat, step : Steps, read : Records]
      /\ made.at = request[r].at /\ made.step = "set" /\ made.read = stored.record
    BY DEF ThrottleShape, ThrottleTypes, Steps
<1> HIDE DEF made
<1>3. /\ request' \in [Requests -> [at : Nat, step : Steps, read : Records]]
      /\ request'[r] = made /\ \A q \in Requests \ {r} : request'[q] = request[q]
    BY <1>1, <1>2 DEF ThrottleShape, ThrottleTypes, made
<1>4. \A q \in Requests : Wellformed(request'[q].read)
  <2>1. Wellformed(stored.record) /\ \A q \in Requests : Wellformed(request[q].read)
      BY DEF ThrottleShape, ThrottleTypes
  <2>2. TAKE q \in Requests
  <2>3. CASE q = r
      BY <1>2, <1>3, <2>1, <2>3
  <2>4. CASE q # r
      BY <1>3, <2>1, <2>4
  <2> QED
      BY <2>3, <2>4
<1>5. Waiting'
  <2> SUFFICES ASSUME NEW q \in Requests, request'[q].step \in {"get", "set"}
               PROVE  redis' # "absent" /\ request'[q].at <= now' /\ now' <= request'[q].at + MaxDelay
      BY DEF Waiting
  <2>1. request'[q].at = request[q].at /\ request[q].step \in {"get", "set"}
      BY <1>2, <1>3 DEF Get
  <2> QED
      BY <1>1, <2>1 DEF ThrottleShape, Waiting
<1> QED
    BY <1>1, <1>3, <1>4, <1>5 DEF ThrottleShape, ThrottleTypes

\* The steps of Redis, the clock, the timers and the process.
LEMMA AroundShape ==
    ASSUME ThrottleShape, RedisFails \/ RedisReturns \/ TimerFires \/ Tick \/ RestartProcess
    PROVE  ThrottleShape'
<1>1. CASE RedisFails \/ RedisReturns
    BY <1>1 DEF RedisFails, RedisReturns, ThrottleShape, ThrottleTypes, Waiting
<1>2. CASE TimerFires
  <2>1. reasons' \subseteq Reasons
      BY <1>2 DEF TimerFires, ThrottleShape, ThrottleTypes, Reasons
  <2> QED
      BY <1>2, <2>1, NoRecordIs DEF TimerFires, ThrottleShape, ThrottleTypes, Waiting
<1>3. CASE Tick
  <2>1. /\ now' = now + 1
        /\ UNCHANGED <<redis, memory, timers, request, refusedUntil, passedEarly, reasons>>
      BY <1>3 DEF Tick
  <2>2. stored' \in [record : Records, until : Nat] /\ Wellformed(stored'.record)
    <3>1. stored' = stored \/ stored' = [record |-> NoRecord, until |-> 0]
        BY <1>3 DEF Tick
    <3> QED
        BY <3>1, NoRecordIs DEF ThrottleShape, ThrottleTypes
  <2>3. ThrottleTypes'
      BY <2>1, <2>2 DEF ThrottleShape, ThrottleTypes
  <2>4. Waiting'
    <3> SUFFICES ASSUME NEW q \in Requests, request[q].step \in {"get", "set"}
                 PROVE  redis # "absent" /\ request[q].at <= now + 1 /\ now + 1 <= request[q].at + MaxDelay
        BY <2>1 DEF Waiting
    <3>1. now < request[q].at + MaxDelay
        BY <1>3 DEF Tick
    <3>2. redis # "absent" /\ request[q].at <= now
        BY DEF ThrottleShape, Waiting
    <3>3. request[q].at \in Nat /\ now \in Nat /\ MaxDelay \in Nat
        BY ThrottleAssumption DEF ThrottleShape, ThrottleTypes
    <3> QED
        BY <3>1, <3>2, <3>3
  <2> QED
      BY <2>3, <2>4 DEF ThrottleShape
<1>4. CASE RestartProcess
  <2> DEFINE lost == [NotMade EXCEPT !.step = "lost"]
  <2>1. /\ lost \in [at : Nat, step : Steps, read : Records]
        /\ lost.step = "lost" /\ lost.read = NoRecord
      BY NoRecordIs DEF NotMade, Steps
  <2>2. /\ request' = [r \in Requests |->
              IF request[r].step \in {"get", "set"} THEN lost ELSE request[r]]
        /\ memory' = NoRecord /\ timers' = {}
        /\ UNCHANGED <<now, redis, stored, refusedUntil, passedEarly>>
      BY <1>4 DEF RestartProcess
  <2>3. reasons' \subseteq Reasons
      BY <1>4 DEF RestartProcess, ThrottleShape, ThrottleTypes, Reasons
  <2> HIDE DEF lost
  <2>4. \A r \in Requests :
            request'[r] = IF request[r].step \in {"get", "set"} THEN lost ELSE request[r]
      BY <2>2
  <2>5. request' \in [Requests -> [at : Nat, step : Steps, read : Records]]
      BY <2>1, <2>2 DEF ThrottleShape, ThrottleTypes
  <2>6. \A r \in Requests : Wellformed(request'[r].read)
    <3>1. TAKE r \in Requests
    <3>2. CASE request[r].step \in {"get", "set"}
        BY <2>1, <2>4, <3>2, NoRecordIs
    <3>3. CASE request[r].step \notin {"get", "set"}
        BY <2>4, <3>3 DEF ThrottleShape, ThrottleTypes
    <3> QED
        BY <3>2, <3>3
  <2>7. Waiting'
      BY <2>1, <2>4 DEF Waiting
  <2> QED
      BY <2>2, <2>3, <2>5, <2>6, <2>7, NoRecordIs DEF ThrottleShape, ThrottleTypes
<1> QED
    BY <1>1, <1>2, <1>3, <1>4

LEMMA ShapeStarts == ThrottleInit => ThrottleShape
<1> SUFFICES ASSUME ThrottleInit
             PROVE  ThrottleShape
    OBVIOUS
<1>1. NotMade \in [at : Nat, step : Steps, read : Records] /\ NotMade.step = "idle"
      /\ NotMade.read = NoRecord
    BY NoRecordIs DEF NotMade, Steps
<1>2. stored \in [record : Records, until : Nat] /\ stored.record = NoRecord
    BY NoRecordIs DEF ThrottleInit
<1> HIDE DEF NotMade
<1>3. \A r \in Requests : request[r] = NotMade
    BY DEF ThrottleInit
<1>4. request \in [Requests -> [at : Nat, step : Steps, read : Records]]
    BY <1>1 DEF ThrottleInit
<1>5. \A r \in Requests : Wellformed(request[r].read)
    BY <1>1, <1>3, NoRecordIs
<1>6. Waiting
    BY <1>1, <1>3 DEF Waiting
<1> QED
    BY <1>2, <1>4, <1>5, <1>6, NoRecordIs DEF ThrottleInit, ThrottleShape, ThrottleTypes

LEMMA ShapeSteps == ThrottleShape /\ [ThrottleNext]_throttle => ThrottleShape'
<1> SUFFICES ASSUME ThrottleShape, [ThrottleNext]_throttle
             PROVE  ThrottleShape'
    OBVIOUS
<1>1. CASE UNCHANGED throttle
    BY <1>1 DEF throttle, ThrottleShape, ThrottleTypes, Waiting
<1> QED
    BY <1>1, ArriveShape, CountHereShape, GetShape, SetExShape, FallbackShape, AroundShape DEF ThrottleNext

-----------------------------------------------------------------------------
(* Requests that passed                                                    *)

\* What a step does to the requests that passed: nothing, or it adds one that passes now.
Quiet == Passed' = Passed /\ \A x \in Passed : request'[x].at = request[x].at
Lets(r) ==
    /\ r \notin Passed /\ Passed' = Passed \cup {r} /\ request'[r].at = now
    /\ \A x \in Passed : request'[x].at = request[x].at

LEMMA AnswerLets ==
    ASSUME ThrottleShape, NEW r \in Requests, NEW record \in Records, NEW why \in SUBSET Reasons,
           Answer(r, record, why), request[r].step # "passed"
    PROVE  IF record.blocked THEN Quiet ELSE Lets(r)
<1>1. /\ \A q \in Requests \ {r} : request'[q] = request[q]
      /\ request'[r].at = now
      /\ request'[r].step = IF record.blocked THEN "refused" ELSE "passed"
    BY AnswerType
<1>2. CASE record.blocked
    BY <1>1, <1>2 DEF Quiet, Passed
<1>3. CASE ~record.blocked
    BY <1>1, <1>3 DEF Lets, Passed
<1> QED
    BY <1>2, <1>3

LEMMA OthersQuiet ==
    ASSUME ThrottleShape,
           \/ \E r \in Requests : Arrive(r) \/ Get(r)
           \/ RedisFails \/ RedisReturns \/ TimerFires \/ Tick \/ RestartProcess
    PROVE  Quiet
<1>1. ASSUME NEW r \in Requests, Arrive(r)
      PROVE  Quiet
  <2>1. request' = [request EXCEPT ![r] = [request[r] EXCEPT !.at = now, !.step = "get"]]
      BY <1>1 DEF Arrive
  <2>2. request'[r].step = "get" /\ \A q \in Requests \ {r} : request'[q] = request[q]
      BY <2>1 DEF ThrottleShape, ThrottleTypes
  <2>3. request[r].step = "idle"
      BY <1>1 DEF Arrive
  <2> QED
      BY <2>2, <2>3 DEF Quiet, Passed
<1>2. ASSUME NEW r \in Requests, Get(r)
      PROVE  Quiet
  <2>1. request' = [request EXCEPT ![r] = [request[r] EXCEPT !.step = "set", !.read = stored.record]]
      BY <1>2 DEF Get
  <2>2. request'[r].step = "set" /\ \A q \in Requests \ {r} : request'[q] = request[q]
      BY <2>1 DEF ThrottleShape, ThrottleTypes
  <2>3. request[r].step = "get"
      BY <1>2 DEF Get
  <2> QED
      BY <2>2, <2>3 DEF Quiet, Passed
<1>3. CASE RedisFails \/ RedisReturns \/ TimerFires \/ Tick
    BY <1>3 DEF RedisFails, RedisReturns, TimerFires, Tick, Quiet, Passed
<1>4. CASE RestartProcess
  <2> DEFINE lost == [NotMade EXCEPT !.step = "lost"]
  <2>1. lost.step = "lost"
      BY DEF NotMade
  <2>2. request' = [r \in Requests |->
              IF request[r].step \in {"get", "set"} THEN lost ELSE request[r]]
      BY <1>4 DEF RestartProcess
  <2> HIDE DEF lost
  <2>3. \A r \in Requests :
            request'[r] = IF request[r].step \in {"get", "set"} THEN lost ELSE request[r]
      BY <2>2
  <2> QED
      BY <2>1, <2>3 DEF Quiet, Passed
<1> QED
    BY <1>1, <1>2, <1>3, <1>4

\* The requests that passed belong to windows: the last two, and older ones.
Windows(old, prev, cur) ==
    /\ old \cup prev \cup cur = Passed
    /\ IsFiniteSet(prev) /\ Cardinality(prev) <= Quota
    /\ IsFiniteSet(cur) /\ Cardinality(cur) <= Quota

\* Those of the current window are counted by its record.
CountedBy(cur, record) == record # NoRecord /\ ~record.blocked => Cardinality(cur) <= record.hits

\* No span holds more than two windows let through.
Spread ==
    \A t \in Nat : IsFiniteSet(PassedFrom(t)) /\ Cardinality(PassedFrom(t)) <= 2 * Quota

LEMMA SpanType == Span \in Int
BY ThrottleAssumption DEF Span

LEMMA QuietWindows ==
    ASSUME Quiet, NEW old, NEW prev, NEW cur, Windows(old, prev, cur)
    PROVE  Windows(old, prev, cur)'
BY DEF Quiet, Windows

LEMMA QuietSpread ==
    ASSUME Quiet, Spread, Span' = Span
    PROVE  Spread'
<1> SUFFICES ASSUME NEW t \in Nat
             PROVE  IsFiniteSet(PassedFrom(t)') /\ Cardinality(PassedFrom(t)') <= 2 * Quota
    BY DEF Spread
<1>1. PassedFrom(t)' = PassedFrom(t)
    BY DEF Quiet, PassedFrom
<1> QED
    BY <1>1 DEF Spread

\* A request that passes shares no span with the older windows.
LEMMA LetsSpread ==
    ASSUME ThrottleShape, ThrottleShape', Spread, Span' = Span, NEW r \in Requests, Lets(r),
           NEW old, NEW prev, NEW cur, Windows(old, prev, cur)',
           \A x \in old : x \in Passed /\ now >= request[x].at + Span
    PROVE  Spread'
<1> SUFFICES ASSUME NEW t \in Nat
             PROVE  IsFiniteSet(PassedFrom(t)') /\ Cardinality(PassedFrom(t)') <= 2 * Quota
    BY DEF Spread
<1>0. /\ Span \in Int /\ now \in Nat /\ Passed \subseteq Requests
      /\ \A x \in Requests : request[x].at \in Nat
    BY SpanType DEF ThrottleShape, ThrottleTypes, Passed
<1>1. CASE now \notin t..(t + Span - 1)
  <2>1. PassedFrom(t)' = PassedFrom(t)
      BY <1>1 DEF Lets, PassedFrom
  <2> QED
      BY <2>1 DEF Spread
<1>2. CASE now \in t..(t + Span - 1)
  <2>1. PassedFrom(t)' \subseteq prev \cup cur
    <3> SUFFICES ASSUME NEW x \in PassedFrom(t)'
                 PROVE  x \in prev \cup cur
        OBVIOUS
    <3>1. x \in Passed' /\ request'[x].at \in t..(t + Span - 1)
        BY DEF PassedFrom
    <3>2. x \in old \cup prev \cup cur
        BY <3>1 DEF Windows
    <3>3. x \notin old
      <4> SUFFICES ASSUME x \in old
                   PROVE  FALSE
          OBVIOUS
      <4>1. x \in Passed /\ now >= request[x].at + Span
          OBVIOUS
      <4>2. request'[x].at = request[x].at
          BY <4>1 DEF Lets
      <4>3. request[x].at \in t..(t + Span - 1)
          BY <3>1, <4>2
      <4> QED
          BY <1>0, <1>2, <4>1, <4>3
    <3> QED
        BY <3>2, <3>3
  <2>2. /\ IsFiniteSet(prev) /\ IsFiniteSet(cur)
        /\ Cardinality(prev) <= Quota /\ Cardinality(cur) <= Quota
      BY DEF Windows
  <2>3. /\ IsFiniteSet(prev \cup cur)
        /\ Cardinality(prev \cup cur) = Cardinality(prev) + Cardinality(cur) - Cardinality(prev \cap cur)
      BY <2>2, FS_Union
  <2>4. IsFiniteSet(prev \cap cur)
      BY <2>2, FS_Subset
  <2>5. /\ Cardinality(prev) \in Nat /\ Cardinality(cur) \in Nat
        /\ Cardinality(prev \cap cur) \in Nat /\ Quota \in Nat
      BY <2>2, <2>4, FS_CardinalityType, QuotaIs
  <2>6. Cardinality(prev \cup cur) <= 2 * Quota /\ Cardinality(prev \cup cur) \in Nat
      BY <2>2, <2>3, <2>5, FS_CardinalityType
  <2>7. IsFiniteSet(PassedFrom(t)') /\ Cardinality(PassedFrom(t)') <= Cardinality(prev \cup cur)
      BY <2>1, <2>3, FS_Subset
  <2>8. Cardinality(PassedFrom(t)') \in Nat
      BY <2>7, FS_CardinalityType
  <2> QED
      BY <2>5, <2>6, <2>7, <2>8
<1> QED
    BY <1>1, <1>2

\* A request that counts in the current window, and one that begins a new one.
LEMMA JoinsWindow ==
    ASSUME NEW r, Lets(r), NEW old, NEW prev, NEW cur, Windows(old, prev, cur),
           NEW record \in Records, NEW later \in Records, record # NoRecord, ~record.blocked,
           CountedBy(cur, record), Wellformed(later), later # NoRecord, ~later.blocked,
           later.hits = record.hits + 1
    PROVE  Windows(old, prev, cur \cup {r})' /\ CountedBy(cur \cup {r}, later)
<1>1. IsFiniteSet(cur) /\ Cardinality(cur) \in Nat /\ Cardinality(cur) <= record.hits
    BY FS_CardinalityType DEF Windows, CountedBy
<1>2. /\ IsFiniteSet(cur \cup {r}) /\ Cardinality(cur \cup {r}) <= Cardinality(cur) + 1
      /\ Cardinality(cur \cup {r}) \in Nat
  <2>1. /\ IsFiniteSet(cur \cup {r})
        /\ Cardinality(cur \cup {r}) = IF r \in cur THEN Cardinality(cur) ELSE Cardinality(cur) + 1
      BY <1>1, FS_AddElement
  <2> QED
      BY <1>1, <2>1
<1>3. record.hits \in Nat /\ later.hits <= Quota /\ Quota \in Nat
    BY QuotaIs DEF Wellformed, Records
<1>4. Cardinality(cur \cup {r}) <= later.hits /\ Cardinality(cur \cup {r}) <= Quota
    BY <1>1, <1>2, <1>3
<1>5. old \cup prev \cup (cur \cup {r}) = Passed'
    BY DEF Windows, Lets
<1> QED
    BY <1>2, <1>4, <1>5 DEF Windows, CountedBy

LEMMA NewWindow ==
    ASSUME NEW r, Lets(r), NEW old, NEW prev, NEW cur, Windows(old, prev, cur),
           NEW later \in Records, later.hits = 1
    PROVE  Windows(old \cup prev, cur, {r})' /\ CountedBy({r}, later)
<1>1. IsFiniteSet({r}) /\ Cardinality({r}) = 1
    BY FS_Singleton
<1>2. (old \cup prev) \cup cur \cup {r} = Passed'
    BY DEF Windows, Lets
<1> QED
    BY <1>1, <1>2, QuotaIs DEF Windows, CountedBy

-----------------------------------------------------------------------------
(* Windows in Redis                                                        *)

\* When the older windows ended, and when the current one will.
StoredWindows(old, prev, cur) ==
    /\ Windows(old, prev, cur) /\ CountedBy(cur, stored.record)
    /\ \A x \in old : now + MaxDelay >= request[x].at + Ttl + 1
    /\ \A x \in prev :
          IF stored.record = NoRecord
          THEN now >= request[x].at + Ttl
          ELSE stored.record.expires + MaxDelay >= request[x].at + Ttl
               /\ stored.until >= request[x].at + Ttl
    /\ \A x \in Passed : request[x].at <= now

InRedis ==
    redis # "absent" /\ reasons \subseteq {"timer"} =>
        /\ memory = NoRecord /\ timers = {}
        /\ \E old, prev, cur \in SUBSET Requests : StoredWindows(old, prev, cur)
        /\ Spread

\* A step that leaves the records and the clock alone.
LEMMA QuietStored ==
    ASSUME Quiet, UNCHANGED <<now, stored>>, NEW old, NEW prev, NEW cur,
           StoredWindows(old, prev, cur)
    PROVE  StoredWindows(old, prev, cur)'
<1>1. Windows(old, prev, cur)'
    BY QuietWindows DEF StoredWindows
<1>2. \A x \in old \cup prev \cup cur : request'[x].at = request[x].at
    BY DEF Quiet, StoredWindows, Windows
<1>3. CountedBy(cur, stored.record)'
    BY DEF StoredWindows, CountedBy
<1>4. \A x \in Passed' : request'[x].at <= now'
    BY DEF Quiet, StoredWindows
<1> QED
    BY <1>1, <1>2, <1>3, <1>4 DEF StoredWindows

LEMMA TickStored ==
    ASSUME ThrottleShape, Tick, NEW old, NEW prev, NEW cur, StoredWindows(old, prev, cur)
    PROVE  StoredWindows(old, prev, cur)'
<1>0. /\ now' = now + 1 /\ UNCHANGED request /\ now \in Nat /\ stored.until \in Nat
      /\ old \cup prev \cup cur = Passed /\ Passed \subseteq Requests
      /\ \A x \in Requests : request[x].at \in Nat
    BY DEF Tick, ThrottleShape, ThrottleTypes, StoredWindows, Windows, Passed
<1>1. Quiet
    BY OthersQuiet
<1>2. Windows(old, prev, cur)'
    BY <1>1, QuietWindows DEF StoredWindows
<1>3. \A x \in Passed' : request'[x].at <= now'
    BY <1>0, <1>1 DEF Quiet, StoredWindows
<1>4. \A x \in old : now' + MaxDelay >= request'[x].at + Ttl + 1
    BY <1>0, ThrottleAssumption DEF StoredWindows
<1>5. CASE stored.until > now'
  <2>1. stored' = stored
      BY <1>5 DEF Tick
  <2>2. \A x \in prev : stored.record = NoRecord => now' >= request[x].at + Ttl
      BY <1>0, ThrottleAssumption DEF StoredWindows
  <2> QED
      BY <1>0, <1>2, <1>3, <1>4, <2>1, <2>2 DEF StoredWindows, CountedBy
<1>6. CASE ~(stored.until > now')
  <2>1. stored'.record = NoRecord
      BY <1>6 DEF Tick
  <2>2. CountedBy(cur, stored.record)'
      BY <2>1 DEF CountedBy
  <2>3. \A x \in prev : now' >= request'[x].at + Ttl
    <3>1. TAKE x \in prev
    <3>2. request[x].at \in Nat /\ Ttl \in Nat
        BY <1>0, ThrottleAssumption
    <3>3. CASE stored.record = NoRecord
        BY <1>0, <3>2, <3>3 DEF StoredWindows
    <3>4. CASE stored.record # NoRecord
        BY <1>0, <1>6, <3>2, <3>4 DEF StoredWindows
    <3> QED
        BY <3>3, <3>4
  <2> QED
      BY <1>2, <1>3, <1>4, <2>1, <2>2, <2>3 DEF StoredWindows
<1> QED
    BY <1>5, <1>6

\* setEx of a request whose record did not change since it was read: what it
\* stores, and for how long.
LEMMA SetExIs ==
    ASSUME ThrottleShape, NEW r \in Requests, SetEx(r), reasons' \subseteq {"timer"}
    PROVE  LET at     == request[r].at
               record == Hit(stored.record, at)
           IN  /\ at \in Nat /\ at <= now /\ now <= at + MaxDelay
               /\ stored'.record = record /\ stored'.until = now + Ttl
               /\ UNCHANGED <<now, redis, memory, timers>> /\ redis = "up"
               /\ Answer(r, record, {}) /\ request[r].step = "set"
               /\ IF record.blocked THEN Quiet ELSE Lets(r)
<1> DEFINE at == request[r].at
           record == Hit(stored.record, at)
<1>1. stored.record = request[r].read
    BY DEF SetEx, Answer
<1>2. Write(record) /\ Answer(r, record, {}) /\ UNCHANGED <<now, redis, memory, timers>>
    BY <1>1 DEF SetEx
<1>3. at \in Nat /\ at <= now /\ now <= at + MaxDelay /\ redis = "up" /\ request[r].step = "set"
    BY DEF SetEx, ThrottleShape, ThrottleTypes, Waiting
<1>4. record \in Records /\ Wellformed(record)
    BY <1>3, HitType DEF ThrottleShape, ThrottleTypes
<1> HIDE DEF record
<1>5. IF record.blocked THEN Quiet ELSE Lets(r)
    BY <1>2, <1>3, <1>4, AnswerLets
<1>6. stored'.record = record /\ stored'.until = now + Ttl
    BY <1>2, <1>4, WriteType
<1> QED
    BY <1>2, <1>3, <1>5, <1>6 DEF record

\* Older windows are too far back to share a span with what passes now.
LEMMA OldIsFar ==
    ASSUME ThrottleShape, redis # "absent", NEW x \in Requests,
           now + MaxDelay >= request[x].at + Ttl + 1
    PROVE  now >= request[x].at + Span
BY ThrottleAssumption DEF ThrottleShape, ThrottleTypes, Span

LEMMA SetExFresh ==
    ASSUME ThrottleShape, ThrottleShape', NEW r \in Requests, SetEx(r), reasons' \subseteq {"timer"},
           Spread, NEW old \in SUBSET Requests, NEW prev \in SUBSET Requests,
           NEW cur \in SUBSET Requests, StoredWindows(old, prev, cur),
           ~Counts(stored.record, request[r].at)
    PROVE  StoredWindows(old \cup prev, cur, {r})' /\ Spread'
<1> DEFINE at == request[r].at
           record == Hit(stored.record, at)
<1>1. /\ at \in Nat /\ at <= now /\ now <= at + MaxDelay
      /\ stored'.record = record /\ stored'.until = now + Ttl
      /\ now' = now /\ redis' = redis /\ redis = "up"
      /\ IF record.blocked THEN Quiet ELSE Lets(r)
    BY SetExIs
<1>2. stored.record \in Records /\ now \in Nat /\ \A x \in Requests : request[x].at \in Nat
    BY DEF ThrottleShape, ThrottleTypes
<1>3. /\ record \in Records /\ record # NoRecord /\ record.hits = 1
      /\ record.expires = at + Ttl /\ ~record.blocked
    BY <1>1, <1>2, FreshHit
<1>4. Lets(r)
    BY <1>1, <1>3
<1>5. Windows(old \cup prev, cur, {r})' /\ CountedBy({r}, record)
    BY <1>3, <1>4, NewWindow DEF StoredWindows
<1>6. \A x \in old \cup prev : x \in Passed /\ now + MaxDelay >= request[x].at + Ttl + 1
  <2>1. TAKE x \in old \cup prev
  <2>2. x \in Passed
      BY DEF StoredWindows, Windows
  <2>3. CASE x \in old
      BY <2>2, <2>3 DEF StoredWindows
  <2>4. CASE x \in prev /\ stored.record = NoRecord
      BY <1>2, <2>2, <2>4, ThrottleAssumption DEF StoredWindows
  <2>5. CASE x \in prev /\ stored.record # NoRecord
    <3>1. stored.record.expires + MaxDelay >= request[x].at + Ttl
        BY <2>5 DEF StoredWindows
    <3>2. at > stored.record.expires /\ stored.record.expires \in Nat
        BY <1>1, <1>2, <2>5 DEF Counts, Records
    <3> HIDE DEF at
    <3> QED
        BY <1>1, <1>2, <2>2, <3>1, <3>2, ThrottleAssumption
  <2> QED
      BY <2>3, <2>4, <2>5
<1> HIDE DEF record
<1>7. \A x \in cur : x \in Passed /\ request[x].at <= now
    BY DEF StoredWindows, Windows
<1>8. Passed \subseteq Requests
    BY DEF Passed
<1>9. \A x \in cur : request'[x].at + Ttl <= now + Ttl /\ request'[x].at + Ttl <= at + Ttl + MaxDelay
    BY <1>1, <1>2, <1>4, <1>7, <1>8, ThrottleAssumption DEF Lets
<1>10. \A x \in old \cup prev : now' + MaxDelay >= request'[x].at + Ttl + 1
    BY <1>1, <1>4, <1>6 DEF Lets
<1>11. \A x \in Passed' : request'[x].at <= now'
    BY <1>1, <1>2, <1>4 DEF Lets, StoredWindows
<1>12. StoredWindows(old \cup prev, cur, {r})'
  <2>1. \A x \in cur : stored'.record.expires + MaxDelay >= request'[x].at + Ttl
                       /\ stored'.until >= request'[x].at + Ttl
      BY <1>1, <1>2, <1>3, <1>7, <1>8, <1>9, <1>4, ThrottleAssumption DEF Lets
  <2>2. CountedBy({r}, stored.record)'
      BY <1>1, <1>5 DEF CountedBy
  <2> QED
      BY <1>1, <1>3, <1>5, <1>10, <1>11, <2>1, <2>2 DEF StoredWindows
<1>13. Spread'
  <2>1. \A x \in old \cup prev : x \in Passed /\ now >= request[x].at + Span
      BY <1>1, <1>6, <1>8, OldIsFar
  <2>2. Span' = Span
      BY <1>1 DEF Span
  <2> QED
      BY <1>4, <1>5, <2>1, <2>2, LetsSpread
<1> QED
    BY <1>12, <1>13

LEMMA SetExLater ==
    ASSUME ThrottleShape, ThrottleShape', NEW r \in Requests, SetEx(r), reasons' \subseteq {"timer"},
           Spread, NEW old \in SUBSET Requests, NEW prev \in SUBSET Requests,
           NEW cur \in SUBSET Requests, StoredWindows(old, prev, cur),
           Counts(stored.record, request[r].at)
    PROVE  (\E longer \in {cur, cur \cup {r}} : StoredWindows(old, prev, longer)') /\ Spread'
<1> DEFINE at == request[r].at
           record == Hit(stored.record, at)
<1>1. /\ at \in Nat /\ at <= now /\ now <= at + MaxDelay
      /\ stored'.record = record /\ stored'.until = now + Ttl
      /\ now' = now /\ redis' = redis /\ redis = "up"
      /\ IF record.blocked THEN Quiet ELSE Lets(r)
    BY SetExIs
<1>2. /\ stored.record \in Records /\ Wellformed(stored.record) /\ stored.record # NoRecord
      /\ now \in Nat /\ \A x \in Requests : request[x].at \in Nat
    BY DEF ThrottleShape, ThrottleTypes, Counts
<1>3. /\ record \in Records /\ record # NoRecord /\ Wellformed(record)
      /\ record.hits = stored.record.hits + 1
      /\ record.expires = IF record.blocked THEN at + Ttl ELSE stored.record.expires
      /\ stored.record.blocked => record.blocked
    BY <1>1, <1>2, LaterHit
<1>4. /\ \A x \in prev : x \in Passed /\ request[x].at <= now
                          /\ stored.record.expires + MaxDelay >= request[x].at + Ttl
      /\ \A x \in old : x \in Passed /\ now + MaxDelay >= request[x].at + Ttl + 1
      /\ \A x \in Passed : request[x].at <= now
      /\ Windows(old, prev, cur) /\ CountedBy(cur, stored.record)
      /\ Passed \subseteq Requests
    BY <1>2 DEF StoredWindows, Windows, Passed
<1>5. Span' = Span
    BY <1>1 DEF Span
<1> HIDE DEF record
<1>6. \A x \in prev : stored'.record.expires + MaxDelay >= request[x].at + Ttl
                       /\ stored'.until >= request[x].at + Ttl
  <2>1. TAKE x \in prev
  <2>2. /\ request[x].at \in Nat /\ request[x].at <= now
        /\ stored.record.expires + MaxDelay >= request[x].at + Ttl
      BY <1>2, <1>4
  <2>3. now + Ttl >= request[x].at + Ttl /\ at + Ttl + MaxDelay >= request[x].at + Ttl
    <3> HIDE DEF at
    <3> QED
        BY <1>1, <1>2, <2>2, ThrottleAssumption
  <2>4. CASE record.blocked
      BY <1>1, <1>3, <2>3, <2>4
  <2>5. CASE ~record.blocked
      BY <1>1, <1>3, <2>2, <2>3, <2>5
  <2> QED
      BY <2>4, <2>5
<1>7. CASE record.blocked
  <2>1. Quiet
      BY <1>1, <1>7
  <2>2. Windows(old, prev, cur)'
      BY <1>4, <2>1, QuietWindows
  <2>3. CountedBy(cur, stored.record)'
      BY <1>1, <1>7 DEF CountedBy
  <2>4. StoredWindows(old, prev, cur)'
      BY <1>1, <1>3, <1>4, <1>6, <2>1, <2>2, <2>3 DEF StoredWindows, Quiet
  <2>5. Spread'
      BY <1>5, <2>1, QuietSpread
  <2> QED
      BY <2>4, <2>5
<1>8. CASE ~record.blocked
  <2>1. Lets(r)
      BY <1>1, <1>8
  <2>2. Windows(old, prev, cur \cup {r})' /\ CountedBy(cur \cup {r}, record)
      BY <1>2, <1>3, <1>4, <1>8, <2>1, JoinsWindow
  <2>3. CountedBy(cur \cup {r}, stored.record)'
      BY <1>1, <2>2 DEF CountedBy
  <2>4. \A x \in Passed' : request'[x].at <= now'
      BY <1>1, <1>2, <1>4, <2>1 DEF Lets
  <2>5. \A x \in Passed : request'[x].at = request[x].at
      BY <2>1 DEF Lets
  <2>6. StoredWindows(old, prev, cur \cup {r})'
      BY <1>1, <1>3, <1>4, <1>6, <2>2, <2>3, <2>4, <2>5 DEF StoredWindows
  <2>7. \A x \in old : x \in Passed /\ now >= request[x].at + Span
      BY <1>1, <1>4, OldIsFar
  <2>8. Spread'
      BY <1>5, <2>1, <2>2, <2>7, LetsSpread
  <2> QED
      BY <2>6, <2>8
<1> QED
    BY <1>7, <1>8

LEMMA SetExKeeps ==
    ASSUME ThrottleShape, ThrottleShape', InRedis, NEW r \in Requests, SetEx(r)
    PROVE  InRedis'
<1> SUFFICES ASSUME reasons' \subseteq {"timer"}
             PROVE  /\ memory' = NoRecord /\ timers' = {}
                    /\ \E old, prev, cur \in SUBSET Requests : StoredWindows(old, prev, cur)'
                    /\ Spread'
    BY DEF InRedis
<1>1. redis = "up" /\ UNCHANGED <<memory, timers>> /\ reasons \subseteq {"timer"}
    BY DEF SetEx, Answer
<1>2. memory' = NoRecord /\ timers' = {} /\ Spread
    BY <1>1 DEF InRedis
<1>3. PICK old, prev, cur \in SUBSET Requests : StoredWindows(old, prev, cur)
    BY <1>1 DEF InRedis
<1>4. CASE Counts(stored.record, request[r].at)
  <2>1. PICK longer \in {cur, cur \cup {r}} : StoredWindows(old, prev, longer)'
      BY <1>2, <1>3, <1>4, SetExLater
  <2>2. longer \in SUBSET Requests
      OBVIOUS
  <2> QED
      BY <1>2, <1>3, <1>4, <2>1, <2>2, SetExLater
<1>5. CASE ~Counts(stored.record, request[r].at)
  <2>1. StoredWindows(old \cup prev, cur, {r})' /\ Spread'
      BY <1>2, <1>3, <1>5, SetExFresh
  <2>2. old \cup prev \in SUBSET Requests /\ cur \in SUBSET Requests /\ {r} \in SUBSET Requests
      OBVIOUS
  <2> QED
      BY <1>2, <2>1, <2>2
<1> QED
    BY <1>4, <1>5

LEMMA InRedisSteps ==
    ASSUME ThrottleShape, ThrottleShape', InRedis, [ThrottleNext]_throttle
    PROVE  InRedis'
<1>0. ASSUME Quiet, UNCHANGED <<now, stored, memory, timers>>, reasons \subseteq reasons',
             redis' # "absent" => redis # "absent"
      PROVE  InRedis'
  <2> SUFFICES ASSUME redis' # "absent", reasons' \subseteq {"timer"}
               PROVE  /\ memory' = NoRecord /\ timers' = {}
                      /\ \E old, prev, cur \in SUBSET Requests : StoredWindows(old, prev, cur)'
                      /\ Spread'
      BY DEF InRedis
  <2>1. redis # "absent" /\ reasons \subseteq {"timer"}
      BY <1>0
  <2>2. PICK old, prev, cur \in SUBSET Requests : StoredWindows(old, prev, cur)
      BY <2>1 DEF InRedis
  <2>3. StoredWindows(old, prev, cur)'
      BY <1>0, <2>2, QuietStored
  <2>4. Spread'
      BY <1>0, <2>1, QuietSpread DEF InRedis, Span
  <2> QED
      BY <1>0, <2>1, <2>3, <2>4 DEF InRedis
<1>1. ASSUME NEW r \in Requests, Arrive(r) \/ Get(r)
      PROVE  InRedis'
  <2>1. Quiet
      BY <1>1, OthersQuiet
  <2> QED
      BY <1>0, <1>1, <2>1 DEF Arrive, Get
<1>2. ASSUME NEW r \in Requests, CountHere(r)
      PROVE  InRedis'
    BY <1>2 DEF CountHere, HitMemory, InRedis
<1>3. ASSUME NEW r \in Requests, Fallback(r)
      PROVE  InRedis'
    BY <1>3 DEF Fallback, HitMemory, Answer, InRedis
<1>4. CASE RedisFails \/ RedisReturns
  <2>1. Quiet
      BY <1>4, OthersQuiet
  <2> QED
      BY <1>0, <1>4, <2>1 DEF RedisFails, RedisReturns
<1>5. CASE TimerFires
    BY <1>5 DEF TimerFires, InRedis
<1>6. CASE Tick
  <2> SUFFICES ASSUME redis' # "absent", reasons' \subseteq {"timer"}
               PROVE  /\ memory' = NoRecord /\ timers' = {}
                      /\ \E old, prev, cur \in SUBSET Requests : StoredWindows(old, prev, cur)'
                      /\ Spread'
      BY DEF InRedis
  <2>1. redis # "absent" /\ reasons \subseteq {"timer"} /\ UNCHANGED <<redis, memory, timers>>
      BY <1>6 DEF Tick
  <2>2. PICK old, prev, cur \in SUBSET Requests : StoredWindows(old, prev, cur)
      BY <2>1 DEF InRedis
  <2>3. StoredWindows(old, prev, cur)'
      BY <1>6, <2>2, TickStored
  <2>4. Spread'
      BY <1>6, <2>1, OthersQuiet, QuietSpread DEF InRedis, Span
  <2> QED
      BY <2>1, <2>3, <2>4 DEF InRedis
<1>7. CASE RestartProcess
  <2> SUFFICES ASSUME redis' # "absent", reasons' \subseteq {"timer"}
               PROVE  /\ memory' = NoRecord /\ timers' = {}
                      /\ \E old, prev, cur \in SUBSET Requests : StoredWindows(old, prev, cur)'
                      /\ Spread'
      BY DEF InRedis
  <2>1. /\ redis # "absent" /\ reasons \subseteq {"timer"} /\ UNCHANGED <<now, redis, stored>>
        /\ memory' = NoRecord /\ timers' = {}
      BY <1>7 DEF RestartProcess
  <2>2. PICK old, prev, cur \in SUBSET Requests : StoredWindows(old, prev, cur)
      BY <2>1 DEF InRedis
  <2>3. Quiet
      BY <1>7, OthersQuiet
  <2>4. StoredWindows(old, prev, cur)' /\ Spread'
      BY <2>1, <2>2, <2>3, QuietStored, QuietSpread DEF InRedis, Span
  <2> QED
      BY <2>1, <2>4
<1>8. CASE UNCHANGED throttle
  <2>1. Quiet
      BY <1>8 DEF throttle, Quiet, Passed
  <2> QED
      BY <1>0, <1>8, <2>1 DEF throttle
<1> QED
    BY <1>1, <1>2, <1>3, <1>4, <1>5, <1>6, <1>7, <1>8, SetExKeeps DEF ThrottleNext

-----------------------------------------------------------------------------
(* Windows in the process                                                  *)

\* The one timer of the record deletes it at the end of its window, blocked or not.
HereWindows(old, prev, cur, end) ==
    /\ Windows(old, prev, cur) /\ CountedBy(cur, memory)
    /\ IF memory = NoRecord
       THEN timers = {}
       ELSE timers = {end} /\ now <= end /\ end <= memory.expires /\ end <= now + Ttl
    /\ \A x \in old : now >= request[x].at + Ttl
    /\ \A x \in prev : request[x].at + Ttl <= IF memory = NoRecord THEN now ELSE end
    /\ \A x \in Passed : request[x].at <= now

InProcess ==
    redis = "absent" /\ reasons \subseteq {"timer"} =>
        /\ \E old, prev, cur \in SUBSET Requests, end \in Nat : HereWindows(old, prev, cur, end)
        /\ Spread

LEMMA CountHereIs ==
    ASSUME ThrottleShape, NEW r \in Requests, CountHere(r)
    PROVE  LET record == Hit(memory, now)
           IN  /\ memory' = record /\ UNCHANGED <<now, redis>> /\ redis = "absent"
               /\ timers' = IF Counts(memory, now) THEN timers ELSE timers \cup {now + Ttl}
               /\ Answer(r, record, {})
               /\ IF record.blocked THEN Quiet ELSE Lets(r)
<1> DEFINE record == Hit(memory, now)
<1>1. HitMemory(r, now, {}) /\ redis = "absent" /\ request[r].step = "idle"
    BY DEF CountHere
<1>2. record \in Records
    BY HitType DEF ThrottleShape, ThrottleTypes
<1>3. /\ memory' = record /\ UNCHANGED <<now, redis>> /\ Answer(r, record, {})
      /\ timers' = IF Counts(memory, now) THEN timers ELSE timers \cup {now + Ttl}
    BY <1>1 DEF HitMemory
<1> HIDE DEF record
<1>4. IF record.blocked THEN Quiet ELSE Lets(r)
    BY <1>1, <1>2, <1>3, AnswerLets
<1> QED
    BY <1>1, <1>3, <1>4 DEF record

LEMMA HereFresh ==
    ASSUME ThrottleShape, ThrottleShape', NEW r \in Requests, CountHere(r), Spread,
           NEW old \in SUBSET Requests, NEW prev \in SUBSET Requests, NEW cur \in SUBSET Requests,
           NEW end \in Nat, HereWindows(old, prev, cur, end), ~Counts(memory, now),
           NEW later \in Nat, later = now + Ttl
    PROVE  HereWindows(old \cup prev, cur, {r}, later)' /\ Spread'
<1> DEFINE record == Hit(memory, now)
<1>1. /\ memory' = record /\ UNCHANGED <<now, redis>> /\ redis = "absent"
      /\ timers' = timers \cup {now + Ttl}
      /\ IF record.blocked THEN Quiet ELSE Lets(r)
    BY CountHereIs
<1>2. /\ memory \in Records /\ now \in Nat /\ Ttl \in Nat \ {0}
      /\ \A x \in Requests : request[x].at \in Nat
    BY ThrottleAssumption DEF ThrottleShape, ThrottleTypes
<1>3. /\ record \in Records /\ record # NoRecord /\ record.hits = 1
      /\ record.expires = now + Ttl /\ ~record.blocked
    BY <1>2, FreshHit
<1>4. memory = NoRecord /\ timers = {}
  <2>1. memory # NoRecord => now <= memory.expires
      BY <1>2 DEF HereWindows, Records
  <2> QED
      BY <2>1 DEF Counts, HereWindows
<1>5. Lets(r)
    BY <1>1, <1>3
<1>6. Windows(old \cup prev, cur, {r})' /\ CountedBy({r}, record)
    BY <1>3, <1>5, NewWindow DEF HereWindows
<1> HIDE DEF record
<1>7. \A x \in old \cup prev : x \in Passed /\ now >= request[x].at + Ttl
  <2>1. \A x \in old \cup prev : x \in Passed
      BY DEF HereWindows, Windows
  <2>2. \A x \in prev : request[x].at + Ttl <= now
      BY <1>4 DEF HereWindows
  <2> QED
      BY <1>2, <2>1, <2>2 DEF HereWindows, Passed
<1>8. \A x \in cur : x \in Passed /\ request[x].at <= now
    BY DEF HereWindows, Windows
<1>9. \A x \in Passed : x \in Requests /\ request[x].at \in Nat /\ request'[x].at = request[x].at
    BY <1>2, <1>5 DEF Lets, Passed
<1>10. HereWindows(old \cup prev, cur, {r}, later)'
  <2>1. \A x \in old \cup prev : now' >= request'[x].at + Ttl
      BY <1>1, <1>7, <1>9
  <2>2. \A x \in cur : request'[x].at + Ttl <= now + Ttl
      BY <1>2, <1>8, <1>9
  <2>3. \A x \in Passed' : request'[x].at <= now'
      BY <1>1, <1>2, <1>5 DEF Lets, HereWindows
  <2>4. CountedBy({r}, memory)'
      BY <1>1, <1>6 DEF CountedBy
  <2>5. timers' = {later} /\ now <= later /\ later <= memory'.expires
      BY <1>1, <1>2, <1>3, <1>4
  <2>6. now' = now /\ memory' # NoRecord
      BY <1>1, <1>3
  <2>7. \A x \in cur : request'[x].at + Ttl <= (IF memory' = NoRecord THEN now' ELSE later)
      BY <2>2, <2>6
  <2> QED
      BY <1>2, <1>6, <2>1, <2>3, <2>4, <2>5, <2>6, <2>7 DEF HereWindows
<1>11. Spread'
  <2>1. Span' = Span /\ Span = Ttl
      BY <1>1 DEF Span
  <2>2. \A x \in old \cup prev : x \in Passed /\ now >= request[x].at + Span
      BY <1>7, <2>1
  <2> QED
      BY <1>5, <1>6, <2>1, <2>2, LetsSpread
<1> QED
    BY <1>10, <1>11

LEMMA HereLater ==
    ASSUME ThrottleShape, ThrottleShape', NEW r \in Requests, CountHere(r), Spread,
           NEW old \in SUBSET Requests, NEW prev \in SUBSET Requests, NEW cur \in SUBSET Requests,
           NEW end \in Nat, HereWindows(old, prev, cur, end), Counts(memory, now)
    PROVE  (\E longer \in {cur, cur \cup {r}} : HereWindows(old, prev, longer, end)') /\ Spread'
<1> DEFINE record == Hit(memory, now)
<1>1. /\ memory' = record /\ UNCHANGED <<now, redis>> /\ redis = "absent" /\ timers' = timers
      /\ IF record.blocked THEN Quiet ELSE Lets(r)
    BY CountHereIs
<1>2. /\ memory \in Records /\ Wellformed(memory) /\ memory # NoRecord
      /\ now \in Nat /\ Ttl \in Nat \ {0} /\ \A x \in Requests : request[x].at \in Nat
    BY ThrottleAssumption DEF ThrottleShape, ThrottleTypes, Counts
<1>3. /\ record \in Records /\ record # NoRecord /\ Wellformed(record)
      /\ record.hits = memory.hits + 1
      /\ record.expires = IF record.blocked THEN now + Ttl ELSE memory.expires
      /\ memory.blocked => record.blocked
    BY <1>2, LaterHit
<1> HIDE DEF record
<1>4. /\ timers = {end} /\ now <= end /\ end <= memory.expires /\ end <= now + Ttl
      /\ Windows(old, prev, cur) /\ CountedBy(cur, memory)
      /\ \A x \in old : x \in Passed /\ now >= request[x].at + Ttl
      /\ \A x \in prev : x \in Passed /\ request[x].at + Ttl <= end
      /\ \A x \in Passed : request[x].at <= now
    BY <1>2 DEF HereWindows, Windows
<1>5. end <= memory'.expires
    BY <1>1, <1>3, <1>4
<1>6. Span' = Span /\ Span = Ttl
    BY <1>1 DEF Span
<1>7. CASE record.blocked
  <2>1. Quiet
      BY <1>1, <1>7
  <2>2. Windows(old, prev, cur)' /\ CountedBy(cur, memory)'
      BY <1>1, <1>4, <1>7, <2>1, QuietWindows DEF CountedBy
  <2>3. HereWindows(old, prev, cur, end)'
      BY <1>1, <1>3, <1>4, <1>5, <2>1, <2>2 DEF HereWindows, Quiet
  <2>4. Spread'
      BY <1>6, <2>1, QuietSpread
  <2> QED
      BY <2>3, <2>4
<1>8. CASE ~record.blocked
  <2>1. Lets(r)
      BY <1>1, <1>8
  <2>2. Windows(old, prev, cur \cup {r})' /\ CountedBy(cur \cup {r}, record)
      BY <1>2, <1>3, <1>4, <1>8, <2>1, JoinsWindow
  <2>3. CountedBy(cur \cup {r}, memory)'
      BY <1>1, <2>2 DEF CountedBy
  <2>4. \A x \in Passed' : request'[x].at <= now'
      BY <1>1, <1>2, <1>4, <2>1 DEF Lets
  <2>5. \A x \in Passed : request'[x].at = request[x].at
      BY <2>1 DEF Lets
  <2>6. HereWindows(old, prev, cur \cup {r}, end)'
      BY <1>1, <1>3, <1>4, <1>5, <2>2, <2>3, <2>4, <2>5 DEF HereWindows
  <2>7. \A x \in old : x \in Passed /\ now >= request[x].at + Span
      BY <1>4, <1>6
  <2>8. Spread'
      BY <1>6, <2>1, <2>2, <2>7, LetsSpread
  <2> QED
      BY <2>6, <2>8
<1> QED
    BY <1>7, <1>8

LEMMA InProcessSteps ==
    ASSUME ThrottleShape, ThrottleShape', InProcess, [ThrottleNext]_throttle
    PROVE  InProcess'
<1> SUFFICES ASSUME redis' = "absent", reasons' \subseteq {"timer"}
             PROVE  /\ \E old, prev, cur \in SUBSET Requests, end \in Nat :
                           HereWindows(old, prev, cur, end)'
                    /\ Spread'
    BY DEF InProcess
<1>1. redis = "absent" /\ reasons \subseteq {"timer"} /\ Span' = Span
  <2>1. redis = "absent"
      BY DEF ThrottleNext, throttle, Arrive, CountHere, Get, SetEx, Fallback, HitMemory, RedisFails,
             RedisReturns, TimerFires, Tick, RestartProcess
  <2>2. reasons \subseteq reasons'
      BY DEF ThrottleNext, throttle, Arrive, CountHere, Get, SetEx, Fallback, HitMemory, Answer, RedisFails,
             RedisReturns, TimerFires, Tick, RestartProcess
  <2> QED
      BY <2>1, <2>2 DEF Span
<1>2. Spread
    BY <1>1 DEF InProcess
<1>3. PICK old, prev, cur \in SUBSET Requests, end \in Nat : HereWindows(old, prev, cur, end)
    BY <1>1 DEF InProcess
<1>4. ASSUME NEW r \in Requests, CountHere(r)
      PROVE  /\ \E o, p, c \in SUBSET Requests, e \in Nat : HereWindows(o, p, c, e)'
             /\ Spread'
  <2>1. CASE Counts(memory, now)
    <3>1. PICK longer \in {cur, cur \cup {r}} : HereWindows(old, prev, longer, end)'
        BY <1>2, <1>3, <1>4, <2>1, HereLater
    <3>2. longer \in SUBSET Requests
        OBVIOUS
    <3> QED
        BY <1>2, <1>3, <1>4, <2>1, <3>1, <3>2, HereLater
  <2>2. CASE ~Counts(memory, now)
    <3>1. PICK later \in Nat : later = now + Ttl
        BY ThrottleAssumption DEF ThrottleShape, ThrottleTypes
    <3>2. HereWindows(old \cup prev, cur, {r}, later)' /\ Spread'
        BY <1>2, <1>3, <1>4, <2>2, <3>1, HereFresh
    <3>3. old \cup prev \in SUBSET Requests /\ {r} \in SUBSET Requests
        OBVIOUS
    <3> QED
        BY <3>2, <3>3
  <2> QED
      BY <2>1, <2>2
<1>5. /\ now \in Nat /\ Ttl \in Nat /\ Passed \subseteq Requests
      /\ \A x \in Requests : request[x].at \in Nat
      /\ old \cup prev \cup cur = Passed /\ Windows(old, prev, cur)
    BY <1>3, ThrottleAssumption DEF ThrottleShape, ThrottleTypes, Passed, HereWindows, Windows
<1>6. ASSUME TimerFires \/ Tick \/ RestartProcess
      PROVE  HereWindows(old, prev, cur, end)' /\ Spread'
  <2>1. Quiet
      BY <1>6, OthersQuiet
  <2>2. Windows(old, prev, cur)' /\ Spread'
      BY <1>1, <1>2, <1>5, <2>1, QuietWindows, QuietSpread
  <2>3. \A x \in Passed : request'[x].at = request[x].at
      BY <2>1 DEF Quiet
  <2>4. (now' = now \/ now' = now + 1) /\ Passed' = Passed
      BY <1>6, <2>1 DEF TimerFires, Tick, RestartProcess, Quiet
  <2>5. /\ \A x \in old : now' >= request'[x].at + Ttl
        /\ \A x \in Passed' : request'[x].at <= now'
      BY <1>3, <1>5, <2>3, <2>4 DEF HereWindows
  <2>6. CASE TimerFires
    <3>1. memory # NoRecord /\ end = now /\ timers = {end}
        BY <1>3, <2>6 DEF TimerFires, HereWindows
    <3>2. memory' = NoRecord /\ timers' = {} /\ now' = now
        BY <2>6, <3>1 DEF TimerFires
    <3>3. \A x \in prev : request'[x].at + Ttl <= now'
        BY <1>3, <1>5, <2>3, <3>1, <3>2 DEF HereWindows
    <3> QED
        BY <2>2, <2>5, <3>2, <3>3 DEF HereWindows, CountedBy
  <2>7. CASE Tick
    <3>1. now \notin timers /\ UNCHANGED <<memory, timers>> /\ now' = now + 1
        BY <2>7 DEF Tick
    <3>2. CountedBy(cur, memory)'
        BY <1>3, <3>1 DEF HereWindows, CountedBy
    <3>3. CASE memory = NoRecord
      <4>1. timers' = {} /\ \A x \in prev : request'[x].at + Ttl <= now'
          BY <1>3, <1>5, <2>3, <3>1, <3>3 DEF HereWindows
      <4> QED
          BY <2>2, <2>5, <3>1, <3>2, <3>3, <4>1 DEF HereWindows
    <3>4. CASE memory # NoRecord
      <4>1. timers = {end} /\ now <= end /\ end <= memory.expires /\ end <= now + Ttl
          BY <1>3, <3>4 DEF HereWindows
      <4>2. now' <= end /\ end <= now' + Ttl
          BY <1>5, <3>1, <4>1
      <4>3. \A x \in prev : request'[x].at + Ttl <= end
          BY <1>3, <1>5, <2>3, <3>4 DEF HereWindows
      <4> QED
          BY <2>2, <2>5, <3>1, <3>2, <3>4, <4>1, <4>2, <4>3 DEF HereWindows
    <3> QED
        BY <3>3, <3>4
  <2>8. CASE RestartProcess
    <3>1. memory = NoRecord /\ memory' = NoRecord /\ timers' = {} /\ now' = now
        BY <2>8 DEF RestartProcess
    <3>2. \A x \in prev : request'[x].at + Ttl <= now'
        BY <1>3, <1>5, <2>3, <3>1 DEF HereWindows
    <3> QED
        BY <2>2, <2>5, <3>1, <3>2 DEF HereWindows, CountedBy
  <2> QED
      BY <1>6, <2>2, <2>6, <2>7, <2>8
<1>7. CASE UNCHANGED throttle
  <2>1. Quiet /\ UNCHANGED <<now, memory, timers, request>>
      BY <1>7 DEF throttle, Quiet, Passed
  <2>2. Windows(old, prev, cur)' /\ Spread'
      BY <1>1, <1>2, <1>5, <2>1, QuietWindows, QuietSpread
  <2>3. HereWindows(old, prev, cur, end)'
      BY <1>3, <2>1, <2>2 DEF HereWindows, CountedBy, Quiet
  <2> QED
      BY <2>2, <2>3
<1>8. CASE \E r \in Requests : Arrive(r) \/ Get(r) \/ SetEx(r) \/ Fallback(r)
    BY <1>1, <1>8 DEF Arrive, Get, SetEx, Fallback
<1>9. CASE RedisFails \/ RedisReturns
    BY <1>1, <1>9 DEF RedisFails, RedisReturns
<1> QED
    BY <1>4, <1>6, <1>7, <1>8, <1>9 DEF ThrottleNext

-----------------------------------------------------------------------------
(* Blocks                                                                  *)

Current == IF redis = "absent" THEN memory ELSE stored.record

\* While a block was announced that has not ended, the record that counts is
\* blocked until then, and Redis keeps it as long.
Blocks ==
    reasons = {} =>
        /\ ~passedEarly
        /\ refusedUntil > now => Current.blocked /\ Current.expires = refusedUntil
        /\ redis # "absent" /\ Current.blocked => Current.expires <= stored.until

\* A request passes, or tells its client of a block, as its record says.
LEMMA AnswerBlocks ==
    ASSUME ThrottleShape, NEW r \in Requests, NEW record \in Records, NEW why,
           Answer(r, record, why), refusedUntil > now => record.blocked, ~passedEarly
    PROVE  /\ ~passedEarly'
           /\ refusedUntil' > now => record.blocked /\ record.expires = refusedUntil'
<1>1. /\ refusedUntil' = IF record.blocked THEN record.expires ELSE refusedUntil
      /\ passedEarly' = (passedEarly \/ (~record.blocked /\ now < refusedUntil))
    BY DEF Answer
<1>2. now \in Nat /\ refusedUntil \in Nat
    BY DEF ThrottleShape, ThrottleTypes
<1>3. CASE record.blocked
    BY <1>1, <1>3
<1>4. CASE ~record.blocked
    BY <1>1, <1>2, <1>4
<1> QED
    BY <1>3, <1>4

LEMMA BlocksSteps ==
    ASSUME ThrottleShape, InRedis, Blocks, [ThrottleNext]_throttle
    PROVE  Blocks'
<1> SUFFICES ASSUME reasons' = {}
             PROVE  /\ ~passedEarly'
                    /\ refusedUntil' > now' => Current'.blocked /\ Current'.expires = refusedUntil'
                    /\ redis' # "absent" /\ Current'.blocked => Current'.expires <= stored'.until
    BY DEF Blocks
<1>1. reasons = {}
  <2>1. reasons \subseteq reasons'
      BY DEF ThrottleNext, throttle, Arrive, CountHere, Get, SetEx, Fallback, HitMemory, Answer, RedisFails,
             RedisReturns, TimerFires, Tick, RestartProcess
  <2> QED
      BY <2>1
<1>2. /\ ~passedEarly
      /\ refusedUntil > now => Current.blocked /\ Current.expires = refusedUntil
      /\ redis # "absent" /\ Current.blocked => Current.expires <= stored.until
    BY <1>1 DEF Blocks
<1>3. /\ now \in Nat /\ refusedUntil \in Nat /\ Ttl \in Nat /\ MaxDelay \in Nat
      /\ memory \in Records /\ Wellformed(memory)
      /\ stored.record \in Records /\ Wellformed(stored.record) /\ stored.until \in Nat
    BY ThrottleAssumption DEF ThrottleShape, ThrottleTypes
<1>4. CASE UNCHANGED <<now, stored, memory, refusedUntil, passedEarly>>
             /\ (redis' = "absent" <=> redis = "absent")
    BY <1>2, <1>4 DEF Current
<1>5. ASSUME NEW r \in Requests, CountHere(r)
      PROVE  Blocks'
  <2> DEFINE record == Hit(memory, now)
  <2>1. /\ memory' = record /\ now' = now /\ redis' = "absent" /\ redis = "absent"
        /\ Answer(r, record, {})
      BY <1>5, CountHereIs
  <2>2. record \in Records
      BY <1>3, HitType
  <2>3. refusedUntil > now => record.blocked
    <3>1. refusedUntil > now => memory.blocked /\ now <= memory.expires
        BY <1>2, <1>3, <2>1 DEF Current
    <3> QED
        BY <1>3, <3>1, BlockedHit
  <2> HIDE DEF record
  <2>4. /\ ~passedEarly'
        /\ refusedUntil' > now => record.blocked /\ record.expires = refusedUntil'
      BY <1>2, <2>1, <2>2, <2>3, AnswerBlocks
  <2> QED
      BY <2>1, <2>4 DEF Blocks, Current
<1>6. ASSUME NEW r \in Requests, SetEx(r)
      PROVE  Blocks'
  <2> DEFINE at == request[r].at
             record == Hit(stored.record, at)
  <2>1. /\ at \in Nat /\ at <= now /\ stored'.record = record /\ stored'.until = now + Ttl
        /\ now' = now /\ redis' = "up" /\ redis = "up" /\ Answer(r, record, {})
      BY <1>6, SetExIs
  <2>2. record \in Records
      BY <1>3, <2>1, HitType
  <2>3. refusedUntil > now => record.blocked
    <3>1. refusedUntil > now => stored.record.blocked /\ at <= stored.record.expires
        BY <1>2, <1>3, <2>1 DEF Current
    <3> QED
        BY <1>3, <2>1, <3>1, BlockedHit
  <2>4. record.blocked => record.expires = at + Ttl
      BY <1>3, <2>1, FreshHit, LaterHit
  <2>5. record.blocked => record.expires <= stored'.until
    <3> HIDE DEF at, record
    <3> QED
        BY <1>3, <2>1, <2>4
  <2> HIDE DEF record
  <2>6. /\ ~passedEarly'
        /\ refusedUntil' > now => record.blocked /\ record.expires = refusedUntil'
      BY <1>2, <2>1, <2>2, <2>3, AnswerBlocks
  <2> QED
      BY <2>1, <2>5, <2>6 DEF Blocks, Current
<1>7. ASSUME NEW r \in Requests, Fallback(r)
      PROVE  FALSE
    BY <1>7 DEF Fallback, HitMemory, Answer
<1>8. CASE TimerFires
  <2>1. redis = "absent"
      BY <1>1, <1>8 DEF InRedis, TimerFires
  <2>2. /\ UNCHANGED <<now, redis, stored, refusedUntil, passedEarly>>
        /\ memory.blocked => ~(memory.expires > now)
      BY <1>8 DEF TimerFires
  <2>3. ~(refusedUntil > now)
      BY <1>2, <1>3, <2>1, <2>2 DEF Current
  <2> QED
      BY <1>2, <2>1, <2>2, <2>3
<1>9. CASE Tick
  <2>1. now' = now + 1 /\ UNCHANGED <<redis, memory, refusedUntil, passedEarly>>
      BY <1>9 DEF Tick
  <2>2. CASE stored' = stored
      BY <1>2, <1>3, <2>1, <2>2 DEF Current
  <2>3. CASE stored' # stored
    <3>1. ~(stored.until > now') /\ stored'.record = NoRecord
        BY <1>9, <2>3 DEF Tick
    <3>2. CASE redis = "absent"
        BY <1>2, <1>3, <2>1, <3>2 DEF Current
    <3>3. CASE redis # "absent"
      <4>1. refusedUntil > now => refusedUntil <= stored.until
          BY <1>2, <3>3
      <4>2. ~(refusedUntil' > now')
          BY <1>3, <2>1, <3>1, <4>1
      <4>3. ~Current'.blocked
          BY <2>1, <3>1, <3>3, NoRecordIs DEF Current
      <4> QED
          BY <1>2, <2>1, <4>2, <4>3
    <3> QED
        BY <3>2, <3>3
  <2> QED
      BY <2>2, <2>3
<1>10. CASE RestartProcess
  <2>1. /\ memory = NoRecord /\ memory' = NoRecord
        /\ UNCHANGED <<now, redis, stored, refusedUntil, passedEarly>>
      BY <1>10 DEF RestartProcess
  <2> QED
      BY <1>2, <2>1 DEF Current
<1>11. CASE UNCHANGED throttle
    BY <1>4, <1>11 DEF throttle
<1>12. CASE \E r \in Requests : Arrive(r) \/ Get(r)
    BY <1>4, <1>12 DEF Arrive, Get
<1>13. CASE RedisFails \/ RedisReturns
    BY <1>4, <1>13 DEF RedisFails, RedisReturns
<1> QED
    BY <1>5, <1>6, <1>7, <1>8, <1>9, <1>10, <1>11, <1>12, <1>13 DEF ThrottleNext, Blocks

-----------------------------------------------------------------------------

ThrottleInv == ThrottleShape /\ InRedis /\ InProcess /\ Blocks

LEMMA ThrottleStarts == ThrottleInit => ThrottleInv
<1> SUFFICES ASSUME ThrottleInit
             PROVE  ThrottleInv
    OBVIOUS
<1>1. ThrottleShape
    BY ShapeStarts
<1>2. Passed = {}
    BY DEF ThrottleInit, Passed, NotMade
<1>3. IsFiniteSet({}) /\ Cardinality({}) = 0
    BY FS_EmptySet
<1>4. Windows({}, {}, {})
    BY <1>2, <1>3, QuotaIs DEF Windows
<1>5. Spread
  <2> SUFFICES ASSUME NEW t \in Nat
               PROVE  IsFiniteSet(PassedFrom(t)) /\ Cardinality(PassedFrom(t)) <= 2 * Quota
      BY DEF Spread
  <2>1. PassedFrom(t) = {}
      BY <1>2 DEF PassedFrom
  <2>2. Quota \in Nat
      BY QuotaIs
  <2>3. Cardinality(PassedFrom(t)) = 0 /\ IsFiniteSet(PassedFrom(t))
      BY <1>3, <2>1
  <2> QED
      BY <2>2, <2>3
<1>6. stored.record = NoRecord /\ memory = NoRecord /\ timers = {} /\ now = 0
      /\ refusedUntil = 0 /\ passedEarly = FALSE
    BY DEF ThrottleInit
<1>7. StoredWindows({}, {}, {})
    BY <1>2, <1>4, <1>6 DEF StoredWindows, CountedBy
<1>8. HereWindows({}, {}, {}, 0)
    BY <1>2, <1>4, <1>6 DEF HereWindows, CountedBy
<1>9. InRedis
  <2>1. {} \in SUBSET Requests
      OBVIOUS
  <2> QED
      BY <1>5, <1>6, <1>7, <2>1 DEF InRedis
<1>10. InProcess
  <2>1. {} \in SUBSET Requests /\ 0 \in Nat
      OBVIOUS
  <2> QED
      BY <1>5, <1>8, <2>1 DEF InProcess
<1>11. Blocks
    BY <1>6, NoRecordIs DEF Blocks, Current
<1> QED
    BY <1>1, <1>9, <1>10, <1>11 DEF ThrottleInv

LEMMA ThrottleSteps == ThrottleInv /\ [ThrottleNext]_throttle => ThrottleInv'
<1> SUFFICES ASSUME ThrottleInv, [ThrottleNext]_throttle
             PROVE  ThrottleInv'
    OBVIOUS
<1>1. ThrottleShape'
    BY ShapeSteps DEF ThrottleInv
<1> QED
    BY <1>1, InRedisSteps, InProcessSteps, BlocksSteps DEF ThrottleInv

\* Over any span no more requests pass than two windows allow, and a block lasts as
\* long as its client was told, but for what the storage cannot help (increment).
THEOREM ThrottleKeeps == ThrottleSpec => []ThrottleHolds
<1>1. ThrottleInv => ThrottleHolds
  <2> SUFFICES ASSUME ThrottleInv
               PROVE  LimitHolds /\ BlockHolds
      BY DEF ThrottleHolds
  <2>1. BlockHolds
      BY DEF ThrottleInv, Blocks, BlockHolds
  <2>2. reasons \subseteq {"timer"} => Spread
      BY DEF ThrottleInv, InRedis, InProcess
  <2>3. Times \subseteq Nat
      BY ThrottleAssumption DEF Times
  <2>4. LimitHolds
      BY <2>2, <2>3 DEF LimitHolds, Spread
  <2> QED
      BY <2>1, <2>4
<1> QED
    BY <1>1, ThrottleStarts, ThrottleSteps, PTL DEF ThrottleSpec

-----------------------------------------------------------------------------
(* Presence in the chat                                                    *)

\* What the proof needs to know of the shape of the state.
Shaped ==
    /\ socket \in [Sockets -> [open : BOOLEAN, valid : BOOLEAN, rooms : SUBSET Rooms]]
    /\ presence \in [Users -> {"unknown", "online", "offline"}]
    /\ typing \in [Rooms -> SUBSET Users]
    /\ leftSince \in [Sockets -> BOOLEAN]

\* PresenceExplained is inductive with the shape.
PresenceInv == Shaped /\ PresenceExplained

-----------------------------------------------------------------------------

\* Nobody is there when the process starts (ChatGateway).
LEMMA PresenceStarts == ChatInit => PresenceInv
BY ChatAssumption DEF ChatInit, PresenceInv, Shaped, PresenceExplained, ShownAreConnected,
    ConnectedAreShown, OnlineUsers, Open, SocketsOf, Closed

\* A new connection shows its user and takes no socket from another
\* (handleConnection).
LEMMA ConnectionKeeps ==
    ASSUME PresenceInv, NEW s \in Sockets, HandleConnection(s)
    PROVE  PresenceInv'
<1>1. Shaped'
    BY ChatAssumption DEF PresenceInv, Shaped, HandleConnection, UpdateUserPresence
<1>2. Open' = Open \cup {s}
    BY DEF PresenceInv, Shaped, HandleConnection, Open
<1>3. OnlineUsers' = OnlineUsers \cup {UserOf[s]}
    BY ChatAssumption DEF PresenceInv, Shaped, HandleConnection, UpdateUserPresence, OnlineUsers
<1>4. ShownAreConnected'
    BY <1>2, <1>3, ChatAssumption
    DEF PresenceInv, PresenceExplained, ShownAreConnected, SocketsOf, HandleConnection
<1>5. ConnectedAreShown'
    BY <1>2, <1>3 DEF PresenceInv, Shaped, PresenceExplained, ConnectedAreShown, HandleConnection
<1> QED
    BY <1>1, <1>4, <1>5 DEF PresenceInv, PresenceExplained

\* Whoever is disconnected is neither online nor typing afterwards, and the
\* other sockets of the user are marked (handleDisconnect).
LEMMA DisconnectKeeps ==
    ASSUME PresenceInv, NEW s \in Sockets, s \in Open, HandleDisconnect(s)
    PROVE  PresenceInv'
<1>0. UserOf[s] \in Users
    BY ChatAssumption
<1>1. Shaped'
    BY <1>0 DEF PresenceInv, Shaped, HandleDisconnect, UpdateUserPresence, Closed
<1>2. Open' = Open \ {s}
    BY <1>0 DEF PresenceInv, Shaped, HandleDisconnect, Open, Closed
<1>3. OnlineUsers' = OnlineUsers \ {UserOf[s]}
    BY <1>0 DEF PresenceInv, Shaped, HandleDisconnect, UpdateUserPresence, OnlineUsers
<1>4. ShownAreConnected'
  <2> SUFFICES ASSUME NEW u, u \in (OnlineUsers \cup UNION {typing[room] : room \in Rooms})'
               PROVE  SocketsOf(u)' # {}
      BY DEF ShownAreConnected
  <2>2. u # UserOf[s] /\ u \in OnlineUsers \cup UNION {typing[room] : room \in Rooms}
      BY <1>3 DEF HandleDisconnect
  <2>3. SocketsOf(u)' = SocketsOf(u)
      BY <1>2, <2>2 DEF SocketsOf
  <2> QED
      BY <2>2, <2>3 DEF PresenceInv, PresenceExplained, ShownAreConnected
<1>5. ConnectedAreShown'
    BY <1>0, <1>2, <1>3 DEF PresenceInv, Shaped, PresenceExplained, ConnectedAreShown,
        HandleDisconnect, Open
<1> QED
    BY <1>1, <1>4, <1>5 DEF PresenceInv, PresenceExplained

\* Steps that leave sockets open, users shown and marks as they are, and add to
\* the typing only users with an open socket.
LEMMA OthersKeep ==
    ASSUME PresenceInv, Shaped', Open' = Open, UNCHANGED <<presence, leftSince>>,
           \A room \in Rooms : \A u \in typing'[room] : u \in typing[room] \/ SocketsOf(u) # {}
    PROVE  PresenceInv'
<1>1. \A u \in Users : SocketsOf(u)' = SocketsOf(u)
    BY DEF SocketsOf
<1>2. ShownAreConnected'
  <2> SUFFICES ASSUME NEW u, u \in (OnlineUsers \cup UNION {typing[room] : room \in Rooms})'
               PROVE  SocketsOf(u)' # {}
      BY DEF ShownAreConnected
  <2>2. SocketsOf(u)' = SocketsOf(u)
      BY DEF SocketsOf
  <2>3. u \in OnlineUsers \cup UNION {typing[room] : room \in Rooms} \/ SocketsOf(u) # {}
      BY DEF OnlineUsers
  <2> QED
      BY <2>2, <2>3 DEF PresenceInv, PresenceExplained, ShownAreConnected
<1>3. ConnectedAreShown'
    BY DEF PresenceInv, PresenceExplained, ConnectedAreShown, OnlineUsers
<1> QED
    BY <1>2, <1>3 DEF PresenceInv, PresenceExplained

\* An event that passed its guards came from an open socket (Guarded).
LEMMA TypingKeeps ==
    ASSUME PresenceInv, NEW s \in Sockets, NEW room \in Rooms, NEW isTyping \in BOOLEAN,
           HandleTyping(s, room, isTyping)
    PROVE  PresenceInv'
<1>1. Shaped'
    BY ChatAssumption DEF PresenceInv, Shaped, HandleTyping, Guarded
<1>2. Open' = Open
    BY DEF HandleTyping, Open
<1>3. s \in SocketsOf(UserOf[s])
    BY DEF HandleTyping, Guarded, SocketsOf
<1>4. \A other \in Rooms : \A u \in typing'[other] : u \in typing[other] \/ SocketsOf(u) # {}
    BY <1>3 DEF PresenceInv, Shaped, HandleTyping
<1> QED
    BY <1>1, <1>2, <1>4, OthersKeep DEF HandleTyping, Guarded

\* Tokens, rooms, messages, counts and the clock do not touch what is shown.
LEMMA QuietKeeps ==
    ASSUME PresenceInv, UNCHANGED <<presence, typing, leftSince>>,
           \/ UNCHANGED socket
           \/ \E s \in Open : TokenExpires(s)
           \/ \E s \in Sockets, room \in Rooms : HandleJoinRoom(s, room) \/ HandleLeaveRoom(s, room)
    PROVE  PresenceInv'
<1>1. Shaped' /\ Open' = Open
  <2>1. CASE UNCHANGED socket
      BY <2>1 DEF PresenceInv, Shaped, Open
  <2>2. ASSUME NEW s \in Open, TokenExpires(s)
        PROVE  Shaped' /\ Open' = Open
      BY <2>2 DEF TokenExpires, PresenceInv, Shaped, Open
  <2>3. ASSUME NEW s \in Sockets, NEW room \in Rooms,
               HandleJoinRoom(s, room) \/ HandleLeaveRoom(s, room)
        PROVE  Shaped' /\ Open' = Open
      BY <2>3 DEF HandleJoinRoom, HandleLeaveRoom, PresenceInv, Shaped, Open
  <2> QED
      BY <2>1, <2>2, <2>3
<1> QED
    BY <1>1, OthersKeep

LEMMA ChatKeeps == PresenceInv /\ [ChatNext]_chat => PresenceInv'
<1> SUFFICES ASSUME PresenceInv, [ChatNext]_chat
             PROVE  PresenceInv'
    OBVIOUS
<1>1. ASSUME NEW s \in Sockets, HandleConnection(s)
      PROVE  PresenceInv'
    BY <1>1, ConnectionKeeps
<1>2. ASSUME NEW s \in Sockets, Disconnect(s) \/ JwtRefuses(s) \/ CutOff(s)
      PROVE  PresenceInv'
    BY <1>2, DisconnectKeeps DEF Disconnect, JwtRefuses, CutOff
<1>3. ASSUME NEW s \in Sockets, TokenExpires(s)
      PROVE  PresenceInv'
    BY <1>3, QuietKeeps DEF TokenExpires
<1>4. ASSUME NEW s \in Sockets, RateRefuses(s) \/ HandleQuestion(s)
      PROVE  PresenceInv'
    BY <1>4, QuietKeeps DEF RateRefuses, HandleQuestion, Guarded
<1>5. ASSUME NEW s \in Sockets, NEW room \in Rooms, HandleMessage(s, room)
      PROVE  PresenceInv'
    BY <1>5, QuietKeeps DEF HandleMessage, Guarded
<1>6. ASSUME NEW s \in Sockets, NEW room \in Rooms,
             HandleJoinRoom(s, room) \/ HandleLeaveRoom(s, room)
      PROVE  PresenceInv'
  <2>1. UNCHANGED <<presence, typing, leftSince>>
      BY <1>6 DEF HandleJoinRoom, HandleLeaveRoom, Guarded
  <2> QED
      BY <1>6, <2>1, QuietKeeps
<1>7. ASSUME NEW s \in Sockets, NEW room \in Rooms, NEW isTyping \in BOOLEAN,
             HandleTyping(s, room, isTyping)
      PROVE  PresenceInv'
    BY <1>7, TypingKeeps
<1>8. CASE PassTime
    BY <1>8, QuietKeeps DEF PassTime
<1>9. CASE Stop
    BY <1>9, ChatAssumption DEF Stop, PresenceInv, Shaped, PresenceExplained, ShownAreConnected,
        ConnectedAreShown, OnlineUsers, Open, SocketsOf, Closed
<1>10. CASE UNCHANGED chat
    BY <1>10, QuietKeeps DEF chat
<1> QED
    BY <1>1, <1>2, <1>3, <1>4, <1>5, <1>6, <1>7, <1>8, <1>9, <1>10 DEF ChatNext

\* Nobody is shown online or typing without an open socket, and a connected user
\* is shown unless another of the user's sockets was closed (chat.gateway.ts).
THEOREM PresenceFollows == ChatSpec => []PresenceExplained
<1>1. PresenceInv => PresenceExplained
    BY DEF PresenceInv
<1> QED
    BY <1>1, PresenceStarts, ChatKeeps, PTL DEF ChatSpec
=============================================================================
