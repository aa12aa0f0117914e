---------------------------- MODULE RequestThrottle ----------------------------
(***************************************************************************)
(* The storage of the request throttle: a record per client and route, in  *)
(* Redis when there is a client for it, and in the process when there is   *)
(* none or a call to it fails.  One key: keys never meet.  Times count in  *)
(* the units of the configured window.                                     *)
(***************************************************************************)
EXTENDS Naturals, FiniteSets, FiniteSetsExt

CONSTANTS
    Requests,       \* bound: requests, each made once
    Limit,          \* the throttler's limit
    Ttl,            \* its window, and the length of a block
    MaxDelay,       \* bound: how long a request waits for Redis
    MaxTime         \* bound: the clock

ASSUME ThrottleAssumption ==
    /\ Limit \in Nat \ {0} /\ Ttl \in Nat \ {0} /\ MaxTime \in Nat
    /\ MaxDelay \in 1..(Ttl - 1)

VARIABLES
    now,
    redis,          \* "absent": no client; else whether calls succeed
    stored,         \* the record in Redis and when Redis drops it
    memory,         \* the record of memoryStorage
    timers,         \* when its pending timers delete that record
    request,        \* when it came or was answered, what it read, what became of it
    refusedUntil,   \* history: the end of the block last announced
    passedEarly,    \* history: a request passed before that end
    reasons         \* history: what the storage cannot help

throttle == <<now, redis, stored, memory, timers, request, refusedUntil, passedEarly, reasons>>

Times == 0..MaxTime

\* timeToBlockExpire says again what timeToExpire says of a blocked record.
Record(hits, expires, blocked) == [hits |-> hits, expires |-> expires, blocked |-> blocked]
NoRecord == Record(0, 0, FALSE)
NotMade == [at |-> 0, step |-> "idle", read |-> NoRecord]

-----------------------------------------------------------------------------
(* increment                                                               *)

Fresh(at) == Record(1, at + Ttl, FALSE)

\* Mutant: the limit itself is let through.
CountedPast(record, at) ==
    LET blocked == record.hits >= Limit
    IN  Record(record.hits + 1, IF blocked THEN at + Ttl ELSE record.expires, blocked)

Counted(record, at) ==
    LET blocked == record.hits + 1 >= Limit
    IN  Record(record.hits + 1, IF blocked THEN at + Ttl ELSE record.expires, blocked)

Counts(record, at) == record # NoRecord /\ at <= record.expires

Hit(record, at) == IF Counts(record, at) THEN Counted(record, at) ELSE Fresh(at)

\* The guard refuses a request whose record is blocked.
Answer(r, record, why) ==
    /\ request' = [request EXCEPT ![r] =
            [at |-> now, step |-> IF record.blocked THEN "refused" ELSE "passed", read |-> NoRecord]]
    /\ reasons' = reasons \cup why
    /\ refusedUntil' = IF record.blocked THEN record.expires ELSE refusedUntil
    /\ passedEarly' = (passedEarly \/ (~record.blocked /\ now < refusedUntil))

\* Without Redis, and where it failed, the record of the process counts; the
\* timer of its creation deletes it.
HitMemory(r, at, why) ==
    LET record == Hit(memory, at)
    IN  /\ memory' = record
        /\ timers' = IF Counts(memory, at) THEN timers ELSE timers \cup {now + Ttl}
        /\ Answer(r, record, why)
        /\ UNCHANGED <<now, redis>>

\* No await before the answer: nothing comes between.
CountHere(r) ==
    /\ redis = "absent" /\ request[r].step = "idle"
    /\ HitMemory(r, now, {})
    /\ UNCHANGED stored

Arrive(r) ==
    /\ redis # "absent" /\ request[r].step = "idle"
    /\ request' = [request EXCEPT ![r].at = now, ![r].step = "get"]
    /\ UNCHANGED <<now, redis, stored, memory, timers, refusedUntil, passedEarly, reasons>>

Get(r) ==
    /\ redis = "up" /\ request[r].step = "get"
    /\ request' = [request EXCEPT ![r].step = "set", ![r].read = stored.record]
    /\ UNCHANGED <<now, redis, stored, memory, timers, refusedUntil, passedEarly, reasons>>

Write(record) == stored' = [record |-> record, until |-> now + Ttl]

\* Both lengths of setEx are the same number here, a window and a block.
SetEx(r) ==
    /\ redis = "up" /\ request[r].step = "set"
    /\ LET record == Hit(request[r].read, request[r].at)
       IN  /\ Write(record)
           /\ Answer(r, record, IF stored.record = request[r].read THEN {} ELSE {"changed"})
    /\ UNCHANGED <<now, redis, memory, timers>>

\* A call fails, its command carried out or not.
Fallback(r) ==
    /\ redis = "down" /\ request[r].step \in {"get", "set"}
    /\ \/ UNCHANGED stored
       \/ request[r].step = "set" /\ Write(Hit(request[r].read, request[r].at))
    /\ HitMemory(r, request[r].at, {"fallback"})

-----------------------------------------------------------------------------
(* Redis, timers, the clock and restarts                                   *)

RedisFails ==
    /\ redis = "up" /\ redis' = "down"
    /\ UNCHANGED <<now, stored, memory, timers, request, refusedUntil, passedEarly, reasons>>

RedisReturns ==
    /\ redis = "down" /\ redis' = "up"
    /\ UNCHANGED <<now, stored, memory, timers, request, refusedUntil, passedEarly, reasons>>

\* The timer of a record that was replaced or blocked since deletes it as well.
TimerFires ==
    /\ now \in timers
    /\ timers' = timers \ {now}
    /\ memory' = NoRecord
    /\ reasons' = reasons \cup IF memory.blocked /\ memory.expires > now THEN {"timer"} ELSE {}
    /\ UNCHANGED <<now, redis, stored, request, refusedUntil, passedEarly>>

\* A call to Redis is answered or fails within MaxDelay: the client gives up
\* reconnecting after ten attempts.
Tick ==
    /\ now < MaxTime /\ now \notin timers
    /\ \A r \in Requests : request[r].step \in {"get", "set"} => now < request[r].at + MaxDelay
    /\ now' = now + 1
    /\ stored' = IF stored.until > now' THEN stored ELSE [record |-> NoRecord, until |-> 0]
    /\ UNCHANGED <<redis, memory, timers, request, refusedUntil, passedEarly, reasons>>

\* The process starts again; what Redis holds stays.
RestartProcess ==
    /\ memory' = NoRecord /\ timers' = {}
    /\ request' = [r \in Requests |->
            IF request[r].step \in {"get", "set"} THEN [NotMade EXCEPT !.step = "lost"] ELSE request[r]]
    /\ reasons' = reasons \cup IF memory = NoRecord THEN {} ELSE {"restart"}
    /\ UNCHANGED <<now, redis, stored, refusedUntil, passedEarly>>

-----------------------------------------------------------------------------

ThrottleInit ==
    /\ now = 0 /\ redis \in {"absent", "up"}
    /\ stored = [record |-> NoRecord, until |-> 0]
    /\ memory = NoRecord /\ timers = {}
    /\ request = [r \in Requests |-> NotMade]
    /\ refusedUntil = 0 /\ passedEarly = FALSE /\ reasons = {}

ThrottleNext ==
    \/ \E r \in Requests : Arrive(r) \/ CountHere(r) \/ Get(r) \/ SetEx(r) \/ Fallback(r)
    \/ RedisFails \/ RedisReturns \/ TimerFires \/ Tick \/ RestartProcess

ThrottleSpec == ThrottleInit /\ [][ThrottleNext]_throttle

-----------------------------------------------------------------------------

\* The limit-th hit of a window is refused already, its first never.
Quota == Max({1, Limit - 1})

Passed == {r \in Requests : request[r].step = "passed"}

\* A window, less what a request may wait for Redis: a record lasts by the arrival
\* of the request that made or blocked it, which is before its answer.
Span == IF redis = "absent" THEN Ttl ELSE Ttl - (MaxDelay - 1)

PassedFrom(t) == {r \in Passed : request[r].at \in t..(t + Span - 1)}

\* Over any span no more requests pass than two windows allow, unless a record
\* changed between its two Redis calls, a call failed, or a restart took a
\* record away (increment).
LimitHolds ==
    reasons \subseteq {"timer"} =>
        \A t \in Times : Cardinality(PassedFrom(t)) <= 2 * Quota

\* A client that was told until when it is blocked is not let through before
\* then, with the same exceptions and that of a timer that deletes the block
\* (increment and what the guard answers).
BlockHolds == passedEarly => reasons # {}

\* Both promises of the storage (increment).
ThrottleHolds == LimitHolds /\ BlockHolds
=============================================================================
