---------------------------- MODULE AccountsProofs ----------------------------
(***************************************************************************)
(* Users, accounts, sessions and tokens, for any owners and any number of  *)
(* concurrent requests.                                                    *)
(***************************************************************************)
EXTENDS Accounts, TLAPS

-----------------------------------------------------------------------------
(* What a request of each kind holds                                       *)

BearerKinds == {"change", "delete", "deactivate", "reactivate", "profile", "revokeAll", "insert",
                "requestDeletion", "revoke"}

ShapeInv ==
    \A q \in Requests :
       /\ job[q].step = "idle" => job[q].kind = None
       /\ job[q].kind \in BearerKinds => job[q].user \in Ids
       /\ job[q].kind = "register" => job[q].email \in Emails /\ job[q].name \in Names
       /\ job[q].kind = "reset" => job[q].token \in Ids
       /\ job[q].kind = "login" /\ job[q].step \in {"user", "session", "ok"} => job[q].user \in Ids
       /\ job[q].kind \in {"forgot", "reset", "verify"} /\ job[q].step = "save"
              => job[q].user \in Ids

-----------------------------------------------------------------------------
(* What a step of a request does, field by field                           *)

\* q's request moves on, and with it no other.
Keeps(q) ==
    /\ job' \in [Requests -> Job] /\ past' = past
    /\ Running(q)
    /\ \A p \in Requests \ {q} : job'[p] = job[p]
    /\ job'[q].kind = job[q].kind /\ job'[q].email = job[q].email
    /\ job'[q].name = job[q].name /\ job'[q].token = job[q].token
    /\ job'[q].step # "idle"

\* A request that looks for a user finds one with an account.
Finds(q) ==
    \/ job'[q].user = job[q].user
    \/ /\ job[q].kind \in {"login", "forgot", "reset", "verify"}
       /\ job[q].step \in {"account", "load"}
       /\ job'[q].user \in Ids /\ Live(job'[q].user)

LEMMA GoKeeps ==
    ASSUME job \in [Requests -> Job], NEW q \in Requests, NEW step \in Steps, Go(q, step),
           step # "idle", Running(q), past' = past
    PROVE  /\ Keeps(q) /\ job'[q].step = step /\ job'[q].user = job[q].user
           /\ job'[q].found = job[q].found /\ Finds(q)
<1> DEFINE new == [job[q] EXCEPT !.step = step]
<1>1. /\ new \in Job /\ new.step = step /\ new.kind = job[q].kind /\ new.email = job[q].email
      /\ new.name = job[q].name /\ new.token = job[q].token /\ new.user = job[q].user
      /\ new.found = job[q].found
    BY DEF Job
<1>2. job' = [job EXCEPT ![q] = new]
    BY Zenon DEF Go
<1> HIDE DEF new
<1>3. job' \in [Requests -> Job] /\ job'[q] = new /\ \A p \in Requests \ {q} : job'[p] = job[p]
    BY <1>1, <1>2
<1> QED
    BY <1>1, <1>3 DEF Keeps, Finds

\* The same for a step that finds the user u.
LEMMA FoundKeeps ==
    ASSUME job \in [Requests -> Job], NEW q \in Requests, NEW u \in Ids, NEW step \in Steps,
           job' = [job EXCEPT ![q].step = step, ![q].user = u],
           step # "idle", Running(q), past' = past, Live(u),
           job[q].kind \in {"login", "forgot", "reset", "verify"},
           job[q].step \in {"account", "load"}
    PROVE  /\ Keeps(q) /\ job'[q].step = step /\ job'[q].user = u
           /\ job'[q].found = job[q].found /\ Finds(q)
<1> DEFINE new == [job[q] EXCEPT !.step = step, !.user = u]
<1>1. /\ new \in Job /\ new.step = step /\ new.kind = job[q].kind /\ new.email = job[q].email
      /\ new.name = job[q].name /\ new.token = job[q].token /\ new.user = u
      /\ new.found = job[q].found
    BY DEF Job
<1>2. job' = [job EXCEPT ![q] = new]
    OBVIOUS
<1> HIDE DEF new
<1>3. job' \in [Requests -> Job] /\ job'[q] = new /\ \A p \in Requests \ {q} : job'[p] = job[p]
    BY <1>1, <1>2
<1> QED
    BY <1>1, <1>3 DEF Keeps, Finds

\* What happens to u's record, if anything, when q moves on.
UserDoes(q, u) ==
    \/ users'[u] = users[u]
    \/ /\ u = q /\ At(q, {"register"}, "user") /\ job'[q].step = "account"
       /\ users'[u].state = "active"
    \/ /\ u = job[q].user /\ Exists(u) /\ users'[u].state \in {"active", "inactive"}
       /\ users'[u].state = "active" =>
              users[u].state = "active" \/ job[q].kind = "reactivate"
       /\ users'[u].state = "inactive" =>
              \/ users[u].state = "inactive"
              \/ job[q].kind = "deactivate"
    \/ u = job[q].user /\ At(q, {"delete"}, "user") /\ users'[u].state = "deleted"

\* The fields of an account that the properties are about.
SameAccount(u) ==
    /\ accounts'[u].state = accounts[u].state /\ accounts'[u].email = accounts[u].email
    /\ accounts'[u].password = accounts[u].password /\ accounts'[u].reset = accounts[u].reset

\* What happens to u's account.
AccountDoes(q, u) ==
    \/ SameAccount(u)
    \/ /\ u = q /\ At(q, {"register"}, "account") /\ ~Taken(job[q].email)
       /\ job'[q].step = "token"
       /\ accounts'[u].state = "live" /\ accounts'[u].email = job[q].email
       /\ accounts'[u].password = q /\ accounts'[u].reset = None
    \/ /\ u = job[q].user /\ Live(u) /\ At(q, {"forgot"}, "save") /\ job'[q].step = "ok"
       /\ accounts'[u].state = "live" /\ accounts'[u].email = accounts[u].email
       /\ accounts'[u].password = accounts[u].password /\ accounts'[u].reset = q
    \/ /\ u = job[q].user /\ Live(u) /\ At(q, {"reset", "change"}, "save") /\ job'[q].step = "ok"
       /\ accounts'[u].state = "live" /\ accounts'[u].email = accounts[u].email
       /\ accounts'[u].password = q
       /\ accounts'[u].reset = IF job[q].kind = "reset" THEN None ELSE accounts[u].reset
    \/ /\ u = job[q].user /\ At(q, {"delete"}, "purge") /\ job'[q].step = "user"
       /\ accounts'[u].state = "deleted" /\ accounts'[u].reset = None

\* What happens to session s.
SessionDoes(q, s) ==
    \/ sessions'[s] = sessions[s]
    \/ sessions[s] = "active" /\ sessions'[s] = "revoked"
    \/ s = q /\ At(q, {"login"}, "session") /\ job'[q].step = "ok"
    \/ /\ At(q, {"delete"}, "purge") /\ s \in job[q].found /\ sessions'[s] = "deleted"
       /\ job'[q].step = "purge"

\* What happens to u's documents.
DataDoes(q, u) ==
    \/ data'[u] \subseteq data[u]
    \/ u = job[q].user /\ At(q, {"insert"}, "save")

\* What q has found out, or done, when it comes to the steps that the properties are about.
StepDoes(q) ==
    LET kind == job[q].kind
        step == job[q].step
        next == job'[q].step
        u    == job'[q].user
    IN  /\ kind = "login" /\ next \in {"user", "session", "ok"} => u \in Ids
        /\ kind \in {"forgot", "reset", "verify"} /\ next = "save" => u \in Ids
        /\ kind = "register" =>
              /\ next \in {"email", "name", "user"} => step \in {"email", "name"}
              /\ next = "account" => step = "user"
              /\ next \in {"name", "user", "account"} /\ step \notin {"name", "user", "account"}
                    => ~Taken(job[q].email)
              /\ step = "account" =>
                    \/ next = "token" /\ accounts'[q].state = "live"
                    \/ next = "refused" /\ Taken(job[q].email)
                    \/ next = "failed"
        /\ kind = "reset" =>
              /\ next = "save" => u \in Ids /\ accounts[u].reset = job[q].token
              /\ next = "ok" => /\ step = "save" /\ u = job[q].user
                                /\ accounts'[u].password = q /\ accounts'[u].reset = None
        /\ kind = "change" /\ next = "ok" =>
              u = job[q].user /\ (Live(u) => accounts'[u].password = q)
        /\ kind = "delete" =>
              /\ next = "portfolio" => step = "load" /\ Exists(u) /\ Live(u)
              /\ next = "sessions" => step = "portfolio" /\ "portfolio" \notin data'[u]
              /\ next = "purge" =>
                    \/ step = "sessions" /\ job'[q].found = SessionsOf(u) /\ sessions' = sessions
                    \/ /\ step = "purge"
                       /\ \A s \in job[q].found \ job'[q].found : sessions'[s] = "deleted"
                       /\ job'[q].found \subseteq job[q].found
              /\ next = "user" => /\ step = "purge" /\ job[q].found = {}
                                  /\ accounts'[u].state = "deleted" /\ sessions' = sessions
              /\ next = "ok" => step = "user" /\ users'[u].state = "deleted"
              /\ step = "user" => next \in {"ok", "failed"}

\* A step of the request q, whichever it is.
Works(q) ==
    /\ Keeps(q) /\ Finds(q) /\ StepDoes(q)
    /\ \A u \in Ids : UserDoes(q, u) /\ AccountDoes(q, u) /\ SessionDoes(q, u) /\ DataDoes(q, u)

\* A step that changes nothing but the request.
LEMMA LooksWork ==
    ASSUME NEW q \in Requests, Keeps(q), Finds(q), StepDoes(q), UNCHANGED stored
    PROVE  Works(q)
BY DEF Works, UserDoes, AccountDoes, SameAccount, SessionDoes, DataDoes, stored

-----------------------------------------------------------------------------
(* Steps that only look                                                    *)

LEMMA CheckEmailWorks ==
    ASSUME TypeOK, ShapeInv, NEW q \in Requests, CheckEmail(q)
    PROVE  Works(q)
<1> DEFINE step == IF Taken(job[q].email) THEN "refused" ELSE "name"
<1>1. /\ step \in Steps \ {"idle"} /\ Running(q) /\ Go(q, step) /\ past' = past
      /\ UNCHANGED stored
    BY DEF CheckEmail, At, Running, Steps, Over
<1> HIDE DEF step
<1>2. /\ Keeps(q) /\ Finds(q) /\ job'[q].step = step /\ job'[q].user = job[q].user
      /\ job'[q].found = job[q].found
    BY <1>1, GoKeeps DEF TypeOK
<1>3. StepDoes(q)
    BY <1>2 DEF StepDoes, CheckEmail, At, step, ShapeInv
<1> QED
    BY <1>1, <1>2, <1>3, LooksWork

LEMMA CheckNameWorks ==
    ASSUME TypeOK, ShapeInv, NEW q \in Requests, CheckName(q)
    PROVE  Works(q)
<1> DEFINE step == IF NameTaken(job[q].name) THEN "refused" ELSE "user"
<1>1. /\ step \in Steps \ {"idle"} /\ Running(q) /\ Go(q, step) /\ past' = past
      /\ UNCHANGED stored
    BY DEF CheckName, At, Running, Steps, Over
<1> HIDE DEF step
<1>2. /\ Keeps(q) /\ Finds(q) /\ job'[q].step = step /\ job'[q].user = job[q].user
      /\ job'[q].found = job[q].found
    BY <1>1, GoKeeps DEF TypeOK
<1>3. StepDoes(q)
    BY <1>2 DEF StepDoes, CheckName, At, step, ShapeInv
<1> QED
    BY <1>1, <1>2, <1>3, LooksWork

LEMMA CheckActiveWorks ==
    ASSUME TypeOK, ShapeInv, NEW q \in Requests, CheckActive(q)
    PROVE  Works(q)
<1> DEFINE step == IF users[job[q].user].state = "active" THEN "session" ELSE "refused"
<1>1. /\ step \in Steps \ {"idle"} /\ Running(q) /\ Go(q, step) /\ past' = past
      /\ UNCHANGED stored
    BY DEF CheckActive, At, Running, Steps, Over
<1> HIDE DEF step
<1>2. /\ Keeps(q) /\ Finds(q) /\ job'[q].step = step /\ job'[q].user = job[q].user
      /\ job'[q].found = job[q].found
    BY <1>1, GoKeeps DEF TypeOK
<1>3. StepDoes(q)
    BY <1>2 DEF StepDoes, CheckActive, At, step, ShapeInv
<1> QED
    BY <1>1, <1>2, <1>3, LooksWork

LEMMA LoadForChangeWorks ==
    ASSUME TypeOK, ShapeInv, NEW q \in Requests, LoadForChange(q)
    PROVE  Works(q)
<1> DEFINE step == IF Live(job[q].user) /\ accounts[job[q].user].password = job[q].token
                   THEN "save" ELSE "refused"
<1>1. /\ step \in Steps \ {"idle"} /\ Running(q) /\ Go(q, step) /\ past' = past
      /\ UNCHANGED stored
    BY DEF LoadForChange, At, Running, Steps, Over
<1> HIDE DEF step
<1>2. /\ Keeps(q) /\ Finds(q) /\ job'[q].step = step /\ job'[q].user = job[q].user
      /\ job'[q].found = job[q].found
    BY <1>1, GoKeeps DEF TypeOK
<1>3. StepDoes(q)
    BY <1>2 DEF StepDoes, LoadForChange, At, step, ShapeInv
<1> QED
    BY <1>1, <1>2, <1>3, LooksWork

LEMMA FindSessionWorks ==
    ASSUME TypeOK, ShapeInv, NEW q \in Requests, FindSession(q)
    PROVE  Works(q)
<1> DEFINE step == IF job[q].token \in SessionsOf(job[q].user) THEN "save" ELSE "refused"
<1>1. /\ step \in Steps \ {"idle"} /\ Running(q) /\ Go(q, step) /\ past' = past
      /\ UNCHANGED stored
    BY DEF FindSession, At, Running, Steps, Over
<1> HIDE DEF step
<1>2. /\ Keeps(q) /\ Finds(q) /\ job'[q].step = step /\ job'[q].user = job[q].user
      /\ job'[q].found = job[q].found
    BY <1>1, GoKeeps DEF TypeOK
<1>3. StepDoes(q)
    BY <1>2 DEF StepDoes, FindSession, At, step, ShapeInv
<1> QED
    BY <1>1, <1>2, <1>3, LooksWork

LEMMA MailDeletionTokenWorks ==
    ASSUME TypeOK, ShapeInv, NEW q \in Requests, MailDeletionToken(q)
    PROVE  Works(q)
<1> DEFINE step == IF Exists(job[q].user) /\ Live(job[q].user) THEN "ok" ELSE "refused"
<1>1. /\ step \in Steps \ {"idle"} /\ Running(q) /\ Go(q, step) /\ past' = past
      /\ UNCHANGED stored
    BY DEF MailDeletionToken, At, Running, Steps, Over
<1> HIDE DEF step
<1>2. /\ Keeps(q) /\ Finds(q) /\ job'[q].step = step /\ job'[q].user = job[q].user
      /\ job'[q].found = job[q].found
    BY <1>1, GoKeeps DEF TypeOK
<1>3. StepDoes(q)
    BY <1>2 DEF StepDoes, MailDeletionToken, At, step, ShapeInv
<1> QED
    BY <1>1, <1>2, <1>3, LooksWork

LEMMA VerifyDeletionTokenWorks ==
    ASSUME TypeOK, ShapeInv, NEW q \in Requests, VerifyDeletionToken(q)
    PROVE  Works(q)
<1> DEFINE step == IF /\ Exists(job[q].user) /\ Live(job[q].user)
                      /\ accounts[job[q].user].deletion = job[q].token
                      /\ job[q].token \notin expired
                   THEN "portfolio" ELSE "refused"
<1>1. /\ step \in Steps \ {"idle"} /\ Running(q) /\ Go(q, step) /\ past' = past
      /\ UNCHANGED stored
    BY DEF VerifyDeletionToken, At, Running, Steps, Over
<1> HIDE DEF step
<1>2. /\ Keeps(q) /\ Finds(q) /\ job'[q].step = step /\ job'[q].user = job[q].user
      /\ job'[q].found = job[q].found
    BY <1>1, GoKeeps DEF TypeOK
<1>3. StepDoes(q)
    BY <1>2 DEF StepDoes, VerifyDeletionToken, At, step, ShapeInv
<1> QED
    BY <1>1, <1>2, <1>3, LooksWork

LEMMA FailWorks ==
    ASSUME TypeOK, ShapeInv, NEW q \in Requests, Fail(q)
    PROVE  Works(q)
<1>1. /\ "failed" \in Steps \ {"idle"} /\ Running(q) /\ Go(q, "failed") /\ past' = past
      /\ UNCHANGED stored
    BY DEF Fail, Steps, Over
<1>2. Keeps(q) /\ Finds(q) /\ job'[q].step = "failed" /\ job'[q].user = job[q].user
    BY <1>1, GoKeeps DEF TypeOK
<1>3. StepDoes(q)
    BY <1>2 DEF StepDoes
<1> QED
    BY <1>1, <1>2, <1>3, LooksWork

LEMMA CheckPasswordWorks ==
    ASSUME TypeOK, ShapeInv, NEW q \in Requests, CheckPassword(q)
    PROVE  Works(q)
<1>1. /\ At(q, {"login"}, "account") /\ Running(q) /\ past' = past /\ UNCHANGED stored
      /\ "user" \in Steps \ {"idle"} /\ "refused" \in Steps \ {"idle"}
    BY DEF CheckPassword, At, Running, Steps, Over
<1>2. CASE Go(q, "refused")
  <2>1. Keeps(q) /\ Finds(q) /\ job'[q].step = "refused"
      BY <1>1, <1>2, GoKeeps DEF TypeOK
  <2>2. StepDoes(q)
      BY <1>1, <2>1 DEF StepDoes, At
  <2> QED
      BY <1>1, <2>1, <2>2, LooksWork
<1>3. ASSUME NEW u \in Ids, Live(u), job' = [job EXCEPT ![q].step = "user", ![q].user = u]
      PROVE  Works(q)
  <2>1. Keeps(q) /\ Finds(q) /\ job'[q].step = "user" /\ job'[q].user = u
      BY <1>1, <1>3, FoundKeeps DEF TypeOK, At
  <2>2. StepDoes(q)
      BY <1>1, <2>1 DEF StepDoes, At
  <2> QED
      BY <1>1, <2>1, <2>2, LooksWork
<1> QED
    BY <1>2, <1>3 DEF CheckPassword

LEMMA FindTokenWorks ==
    ASSUME TypeOK, ShapeInv, NEW q \in Requests, FindToken(q)
    PROVE  Works(q)
<1>1. /\ At(q, {"reset", "verify"}, "load") /\ Running(q) /\ past' = past /\ UNCHANGED stored
      /\ "save" \in Steps \ {"idle"} /\ "refused" \in Steps \ {"idle"}
    BY DEF FindToken, At, Running, Steps, Over
<1>2. CASE Go(q, "refused")
  <2>1. Keeps(q) /\ Finds(q) /\ job'[q].step = "refused"
      BY <1>1, <1>2, GoKeeps DEF TypeOK
  <2>2. StepDoes(q)
      BY <1>1, <2>1 DEF StepDoes, At
  <2> QED
      BY <1>1, <2>1, <2>2, LooksWork
<1>3. ASSUME NEW u \in Ids, Live(u), job' = [job EXCEPT ![q].step = "save", ![q].user = u],
             job[q].kind = "reset" => accounts[u].reset = job[q].token
      PROVE  Works(q)
  <2>1. Keeps(q) /\ Finds(q) /\ job'[q].step = "save" /\ job'[q].user = u
      BY <1>1, <1>3, FoundKeeps DEF TypeOK, At
  <2>2. StepDoes(q)
      BY <1>1, <1>3, <2>1 DEF StepDoes, At
  <2> QED
      BY <1>1, <2>1, <2>2, LooksWork
<1> QED
    BY <1>2, <1>3 DEF FindToken

LEMMA LoadForResetWorks ==
    ASSUME TypeOK, ShapeInv, NEW q \in Requests, LoadForReset(q)
    PROVE  Works(q)
<1>1. /\ At(q, {"forgot"}, "load") /\ Running(q) /\ past' = past /\ UNCHANGED stored
      /\ "ok" \in Steps \ {"idle"} /\ job \in [Requests -> Job] /\ accounts \in [Ids -> Account]
    BY DEF LoadForReset, At, Running, Steps, Over, TypeOK
<1>2. CASE Go(q, "ok")
  <2>1. Keeps(q) /\ Finds(q) /\ job'[q].step = "ok"
      BY <1>1, <1>2, GoKeeps
  <2>2. StepDoes(q)
      BY <1>1, <2>1 DEF StepDoes, At
  <2> QED
      BY <1>1, <2>1, <2>2, LooksWork
<1>3. ASSUME NEW u \in Ids, Live(u),
             job' = [job EXCEPT ![q].step = "save", ![q].user = u, ![q].seen = accounts[u].password]
      PROVE  Works(q)
  <2> DEFINE new == [job[q] EXCEPT !.step = "save", !.user = u, !.seen = accounts[u].password]
  <2>1. /\ new \in Job /\ new.step = "save" /\ new.kind = job[q].kind /\ new.email = job[q].email
        /\ new.name = job[q].name /\ new.token = job[q].token /\ new.user = u
    <3>1. accounts[u].password \in Ids \cup {None}
        BY <1>1 DEF Account
    <3> QED
        BY <1>1, <3>1 DEF Job, Steps
  <2>2. job' = [job EXCEPT ![q] = new]
      BY <1>3
  <2> HIDE DEF new
  <2>3. job' \in [Requests -> Job] /\ job'[q] = new /\ \A p \in Requests \ {q} : job'[p] = job[p]
      BY <1>1, <2>1, <2>2
  <2>4. Keeps(q) /\ Finds(q) /\ StepDoes(q)
      BY <1>1, <1>3, <2>1, <2>3 DEF Keeps, Finds, StepDoes, At
  <2> QED
      BY <1>1, <2>4, LooksWork
<1> QED
    BY <1>2, <1>3 DEF LoadForReset

LEMMA ListSessionsWorks ==
    ASSUME TypeOK, ShapeInv, NEW q \in Requests, ListSessions(q)
    PROVE  Works(q)
<1>1. /\ At(q, {"delete"}, "sessions") /\ Running(q) /\ past' = past /\ UNCHANGED stored
      /\ job \in [Requests -> Job]
    BY DEF ListSessions, At, Running, Steps, Over, TypeOK
<1> DEFINE found == SessionsOf(job[q].user)
           new == [job[q] EXCEPT !.step = "purge", !.found = found]
<1>2. found \subseteq Ids
    BY DEF SessionsOf
<1>3. job' = [job EXCEPT ![q] = new]
    BY DEF ListSessions, Found
<1> HIDE DEF found
<1>4. /\ new \in Job /\ new.step = "purge" /\ new.kind = job[q].kind /\ new.email = job[q].email
      /\ new.name = job[q].name /\ new.token = job[q].token /\ new.user = job[q].user
      /\ new.found = found
    BY <1>1, <1>2 DEF Job, Steps
<1> HIDE DEF new
<1>5. job' \in [Requests -> Job] /\ job'[q] = new /\ \A p \in Requests \ {q} : job'[p] = job[p]
    BY <1>1, <1>3, <1>4
<1>6. sessions' = sessions
    BY <1>1 DEF stored
<1>7. Keeps(q) /\ Finds(q) /\ StepDoes(q)
    BY <1>1, <1>4, <1>5, <1>6 DEF Keeps, Finds, StepDoes, At, found
<1> QED
    BY <1>1, <1>7, LooksWork

-----------------------------------------------------------------------------
(* Steps that write one collection                                         *)

LEMMA UsersWork ==
    ASSUME NEW q \in Requests, Keeps(q), Finds(q), StepDoes(q), \A u \in Ids : UserDoes(q, u),
           UNCHANGED <<accounts, sessions, data>>
    PROVE  Works(q)
BY DEF Works, AccountDoes, SameAccount, SessionDoes, DataDoes

LEMMA AccountsWork ==
    ASSUME NEW q \in Requests, Keeps(q), Finds(q), StepDoes(q), \A u \in Ids : AccountDoes(q, u),
           UNCHANGED <<users, sessions, data>>
    PROVE  Works(q)
BY DEF Works, UserDoes, SessionDoes, DataDoes

LEMMA SessionsWork ==
    ASSUME NEW q \in Requests, Keeps(q), Finds(q), StepDoes(q), \A s \in Ids : SessionDoes(q, s),
           UNCHANGED <<users, accounts, data>>
    PROVE  Works(q)
BY DEF Works, UserDoes, AccountDoes, SameAccount, DataDoes

LEMMA DataWork ==
    ASSUME NEW q \in Requests, Keeps(q), Finds(q), StepDoes(q), \A u \in Ids : DataDoes(q, u),
           UNCHANGED <<users, accounts, sessions>>
    PROVE  Works(q)
BY DEF Works, UserDoes, AccountDoes, SameAccount, SessionDoes

LEMMA CreateUserWorks ==
    ASSUME TypeOK, ShapeInv, NEW q \in Requests, CreateUser(q)
    PROVE  Works(q) /\ users' \in [Ids -> User]
<1>1. /\ At(q, {"register"}, "user") /\ Running(q) /\ past' = past
      /\ UNCHANGED <<accounts, sessions, data>> /\ users \in [Ids -> User]
      /\ "refused" \in Steps \ {"idle"} /\ "account" \in Steps \ {"idle"}
    BY DEF CreateUser, At, Running, Steps, Over, TypeOK
<1>2. CASE Go(q, "refused") /\ UNCHANGED users
  <2>1. Keeps(q) /\ Finds(q) /\ job'[q].step = "refused"
      BY <1>1, <1>2, GoKeeps DEF TypeOK
  <2>2. StepDoes(q)
      BY <1>1, <2>1 DEF StepDoes, At
  <2> QED
      BY <1>1, <1>2, <2>1, <2>2, UsersWork DEF UserDoes
<1>3. CASE /\ users' = [users EXCEPT ![q] =
                           [state |-> "active", name |-> job[q].name, profile |-> None]]
           /\ Go(q, "account")
  <2>1. Keeps(q) /\ Finds(q) /\ job'[q].step = "account"
      BY <1>1, <1>3, GoKeeps DEF TypeOK
  <2>2. StepDoes(q)
      BY <1>1, <2>1 DEF StepDoes, At
  <2>3. [state |-> "active", name |-> job[q].name, profile |-> None] \in User
      BY <1>1 DEF ShapeInv, User, At
  <2>4. users' \in [Ids -> User]
      BY <1>1, <1>3, <2>3
  <2>5. \A u \in Ids : UserDoes(q, u)
      BY <1>1, <1>3, <2>1 DEF UserDoes
  <2> QED
      BY <1>1, <2>1, <2>2, <2>4, <2>5, UsersWork
<1> QED
    BY <1>2, <1>3 DEF CreateUser

LEMMA UpdateUserWorks ==
    ASSUME TypeOK, ShapeInv, NEW q \in Requests, UpdateUser(q)
    PROVE  Works(q) /\ users' \in [Ids -> User]
<1>1. /\ At(q, {"deactivate", "reactivate", "profile"}, "save") /\ Running(q) /\ past' = past
      /\ UNCHANGED <<accounts, sessions, data>> /\ users \in [Ids -> User]
      /\ "refused" \in Steps \ {"idle"} /\ "ok" \in Steps \ {"idle"} /\ job[q].user \in Ids
    BY DEF UpdateUser, At, Running, Steps, Over, TypeOK, ShapeInv, BearerKinds
<1>2. CASE Go(q, "refused") /\ UNCHANGED users
  <2>1. Keeps(q) /\ Finds(q) /\ job'[q].step = "refused"
      BY <1>1, <1>2, GoKeeps DEF TypeOK
  <2>2. StepDoes(q)
      BY <1>1, <2>1 DEF StepDoes, At
  <2> QED
      BY <1>1, <1>2, <2>1, <2>2, UsersWork DEF UserDoes
<1>3. CASE Exists(job[q].user) /\ Go(q, "ok")
  <2> DEFINE v == job[q].user
             state == CASE job[q].kind = "deactivate" -> "inactive"
                        [] job[q].kind = "reactivate" -> "active"
                        [] OTHER -> users[v].state
             new == [users[v] EXCEPT !.state = state,
                                     !.profile = IF job[q].kind = "profile" THEN q ELSE @]
  <2>1. Keeps(q) /\ Finds(q) /\ job'[q].step = "ok"
      BY <1>1, <1>3, GoKeeps DEF TypeOK
  <2>2. StepDoes(q)
      BY <1>1, <2>1 DEF StepDoes, At
  <2>3. /\ state \in {"active", "inactive"}
        /\ state = "active" => users[v].state = "active" \/ job[q].kind = "reactivate"
        /\ state = "inactive" => users[v].state = "inactive" \/ job[q].kind = "deactivate"
      BY <1>1, <1>3 DEF Exists
  <2>4. users' = [users EXCEPT ![v] = new]
      BY <1>1, <1>3 DEF UpdateUser, At
  <2> HIDE DEF state
  <2>5. new \in User /\ new.state = state
      BY <1>1, <2>3 DEF User, Ids
  <2> HIDE DEF new
  <2>6. users' \in [Ids -> User] /\ users'[v] = new /\ \A u \in Ids \ {v} : users'[u] = users[u]
      BY <1>1, <2>4, <2>5
  <2>7. \A u \in Ids : UserDoes(q, u)
      BY <1>1, <1>3, <2>3, <2>5, <2>6 DEF UserDoes
  <2> QED
      BY <1>1, <2>1, <2>2, <2>6, <2>7, UsersWork
<1> QED
    BY <1>2, <1>3 DEF UpdateUser

LEMMA DeleteUserWorks ==
    ASSUME TypeOK, ShapeInv, NEW q \in Requests, DeleteUser(q)
    PROVE  Works(q) /\ users' \in [Ids -> User]
<1>1. /\ At(q, {"delete"}, "user") /\ Running(q) /\ past' = past /\ Go(q, "ok")
      /\ UNCHANGED <<accounts, sessions, data>> /\ users \in [Ids -> User]
      /\ "ok" \in Steps \ {"idle"} /\ job[q].user \in Ids
    BY DEF DeleteUser, At, Running, Steps, Over, TypeOK, ShapeInv, BearerKinds
<1> DEFINE gone == [NoUser EXCEPT !.state = "deleted"]
<1>2. gone \in User /\ gone.state = "deleted"
    BY DEF NoUser, User
<1>3. users' = [users EXCEPT ![job[q].user] = gone]
    BY DEF DeleteUser
<1> HIDE DEF gone
<1>4. users' \in [Ids -> User] /\ users'[job[q].user].state = "deleted"
      /\ \A u \in Ids \ {job[q].user} : users'[u] = users[u]
    BY <1>1, <1>2, <1>3
<1>5. Keeps(q) /\ Finds(q) /\ job'[q].step = "ok" /\ job'[q].user = job[q].user
    BY <1>1, GoKeeps DEF TypeOK
<1>6. StepDoes(q)
    BY <1>1, <1>4, <1>5 DEF StepDoes, At
<1>7. \A u \in Ids : UserDoes(q, u)
    BY <1>1, <1>4 DEF UserDoes
<1> QED
    BY <1>1, <1>4, <1>5, <1>6, <1>7, UsersWork

LEMMA NoAccountType == NoAccount \in Account /\ NoUser \in User
BY DEF NoAccount, Account, NoUser, User

LEMMA CreateAccountWorks ==
    ASSUME TypeOK, ShapeInv, NEW q \in Requests, CreateAccount(q)
    PROVE  Works(q) /\ accounts' \in [Ids -> Account]
<1>1. /\ At(q, {"register"}, "account") /\ Running(q) /\ past' = past
      /\ UNCHANGED <<users, sessions, data>> /\ accounts \in [Ids -> Account]
      /\ "refused" \in Steps \ {"idle"} /\ "token" \in Steps \ {"idle"}
      /\ job[q].email \in Emails /\ q \in Ids
    BY DEF CreateAccount, At, Running, Steps, Over, TypeOK, ShapeInv, Ids
<1>2. CASE Taken(job[q].email) /\ Go(q, "refused") /\ UNCHANGED accounts
  <2>1. Keeps(q) /\ Finds(q) /\ job'[q].step = "refused"
      BY <1>1, <1>2, GoKeeps DEF TypeOK
  <2>2. StepDoes(q)
      BY <1>1, <1>2, <2>1 DEF StepDoes, At
  <2> QED
      BY <1>1, <1>2, <2>1, <2>2, AccountsWork DEF AccountDoes, SameAccount
<1>3. CASE ~Taken(job[q].email) /\ Go(q, "token")
  <2> DEFINE new == [NoAccount EXCEPT !.state = "live", !.email = job[q].email, !.password = q]
  <2>1. Keeps(q) /\ Finds(q) /\ job'[q].step = "token"
      BY <1>1, <1>3, GoKeeps DEF TypeOK
  <2>3. /\ new \in Account /\ new.state = "live" /\ new.email = job[q].email /\ new.password = q
        /\ new.reset = None
    <3>1. NoAccount.reset = None
        BY DEF NoAccount
    <3> QED
        BY <1>1, <3>1, NoAccountType DEF Account
  <2>4. accounts' = [accounts EXCEPT ![q] = new]
      BY <1>3 DEF CreateAccount
  <2> HIDE DEF new
  <2>5. accounts' \in [Ids -> Account] /\ accounts'[q] = new
        /\ \A u \in Ids \ {q} : accounts'[u] = accounts[u]
      BY <1>1, <2>3, <2>4
  <2>2. StepDoes(q)
      BY <1>1, <2>1, <2>3, <2>5 DEF StepDoes, At
  <2>6. \A u \in Ids : AccountDoes(q, u)
      BY <1>1, <1>3, <2>1, <2>3, <2>5 DEF AccountDoes, SameAccount
  <2> QED
      BY <1>1, <2>1, <2>2, <2>5, <2>6, AccountsWork
<1> QED
    BY <1>2, <1>3 DEF CreateAccount

LEMMA CreateVerificationWorks ==
    ASSUME TypeOK, ShapeInv, NEW q \in Requests, CreateVerification(q)
    PROVE  Works(q) /\ accounts' \in [Ids -> Account]
<1>1. /\ At(q, {"register"}, "token") /\ Running(q) /\ past' = past /\ Go(q, "ok")
      /\ UNCHANGED <<users, sessions, data>> /\ accounts \in [Ids -> Account]
      /\ "ok" \in Steps \ {"idle"} /\ q \in Ids
    BY DEF CreateVerification, At, Running, Steps, Over, TypeOK, Ids
<1> DEFINE new == [accounts[q] EXCEPT !.verification = IF Live(q) THEN q ELSE @]
<1>2. /\ new \in Account /\ new.state = accounts[q].state /\ new.email = accounts[q].email
      /\ new.password = accounts[q].password /\ new.reset = accounts[q].reset
    BY <1>1 DEF Account
<1>3. accounts' = [accounts EXCEPT ![q] = new]
    BY <1>1 DEF CreateVerification
<1> HIDE DEF new
<1>4. accounts' \in [Ids -> Account] /\ \A u \in Ids : SameAccount(u)
    BY <1>1, <1>2, <1>3 DEF SameAccount
<1>5. Keeps(q) /\ Finds(q) /\ job'[q].step = "ok"
    BY <1>1, GoKeeps DEF TypeOK
<1>6. StepDoes(q)
    BY <1>1, <1>5 DEF StepDoes, At
<1> QED
    BY <1>1, <1>4, <1>5, <1>6, AccountsWork DEF AccountDoes

LEMMA GenerateDeletionTokenWorks ==
    ASSUME TypeOK, ShapeInv, NEW q \in Requests, GenerateDeletionToken(q)
    PROVE  Works(q) /\ accounts' \in [Ids -> Account]
<1>1. /\ At(q, {"requestDeletion"}, "save") /\ Running(q) /\ past' = past /\ Go(q, "user")
      /\ UNCHANGED <<users, sessions, data>> /\ accounts \in [Ids -> Account]
      /\ "user" \in Steps \ {"idle"} /\ q \in Ids /\ job[q].user \in Ids
    BY DEF GenerateDeletionToken, At, Running, Steps, Over, TypeOK, Ids, ShapeInv, BearerKinds
<1> DEFINE v == job[q].user
           new == [accounts[v] EXCEPT !.deletion = IF Live(v) THEN q ELSE @]
<1>2. /\ new \in Account /\ new.state = accounts[v].state /\ new.email = accounts[v].email
      /\ new.password = accounts[v].password /\ new.reset = accounts[v].reset
    BY <1>1 DEF Account
<1>3. accounts' = [accounts EXCEPT ![v] = new]
    BY <1>1 DEF GenerateDeletionToken
<1> HIDE DEF new
<1>4. accounts' \in [Ids -> Account] /\ \A u \in Ids : SameAccount(u)
    BY <1>1, <1>2, <1>3 DEF SameAccount
<1>5. Keeps(q) /\ Finds(q) /\ job'[q].step = "user"
    BY <1>1, GoKeeps DEF TypeOK
<1>6. StepDoes(q)
    BY <1>1, <1>5 DEF StepDoes, At
<1> QED
    BY <1>1, <1>4, <1>5, <1>6, AccountsWork DEF AccountDoes

LEMMA SaveResetTokenWorks ==
    ASSUME TypeOK, ShapeInv, NEW q \in Requests, SaveResetToken(q)
    PROVE  Works(q) /\ accounts' \in [Ids -> Account]
<1>1. /\ At(q, {"forgot"}, "save") /\ Running(q) /\ past' = past
      /\ UNCHANGED <<users, sessions, data>> /\ accounts \in [Ids -> Account]
      /\ "refused" \in Steps \ {"idle"} /\ "ok" \in Steps \ {"idle"}
      /\ job[q].user \in Ids /\ q \in Ids
    BY DEF SaveResetToken, At, Running, Steps, Over, TypeOK, ShapeInv, Ids
<1>2. CASE Go(q, "refused") /\ UNCHANGED accounts
  <2>1. Keeps(q) /\ Finds(q) /\ job'[q].step = "refused"
      BY <1>1, <1>2, GoKeeps DEF TypeOK
  <2>2. StepDoes(q)
      BY <1>1, <2>1 DEF StepDoes, At
  <2> QED
      BY <1>1, <1>2, <2>1, <2>2, AccountsWork DEF AccountDoes, SameAccount
<1>3. CASE Live(job[q].user) /\ TokenSaved(q, job[q].user) /\ Go(q, "ok")
  <2> DEFINE v == job[q].user
             new == [accounts[v] EXCEPT !.reset = q]
  <2>1. Keeps(q) /\ Finds(q) /\ job'[q].step = "ok"
      BY <1>1, <1>3, GoKeeps DEF TypeOK
  <2>2. StepDoes(q)
      BY <1>1, <2>1 DEF StepDoes, At
  <2>3. /\ new \in Account /\ new.state = accounts[v].state /\ new.email = accounts[v].email
        /\ new.password = accounts[v].password /\ new.reset = q
      BY <1>1 DEF Account
  <2>4. accounts' = [accounts EXCEPT ![v] = new]
      BY <1>3 DEF TokenSaved
  <2> HIDE DEF new
  <2>5. accounts' \in [Ids -> Account] /\ accounts'[v] = new
        /\ \A u \in Ids \ {v} : accounts'[u] = accounts[u]
      BY <1>1, <2>3, <2>4
  <2>6. \A u \in Ids : AccountDoes(q, u)
      BY <1>1, <1>3, <2>1, <2>3, <2>5 DEF AccountDoes, SameAccount, Live
  <2> QED
      BY <1>1, <2>1, <2>2, <2>5, <2>6, AccountsWork
<1> QED
    BY <1>2, <1>3 DEF SaveResetToken

LEMMA SaveTokenWorks ==
    ASSUME TypeOK, ShapeInv, NEW q \in Requests, SaveToken(q)
    PROVE  Works(q) /\ accounts' \in [Ids -> Account]
<1>1. /\ At(q, {"reset", "verify"}, "save") /\ Running(q) /\ past' = past
      /\ UNCHANGED <<users, sessions, data>> /\ accounts \in [Ids -> Account]
      /\ "refused" \in Steps \ {"idle"} /\ "ok" \in Steps \ {"idle"}
      /\ job[q].user \in Ids /\ q \in Ids
    BY DEF SaveToken, At, Running, Steps, Over, TypeOK, ShapeInv, Ids
<1>2. CASE Go(q, "refused") /\ UNCHANGED accounts
  <2>1. Keeps(q) /\ Finds(q) /\ job'[q].step = "refused"
      BY <1>1, <1>2, GoKeeps DEF TypeOK
  <2>2. StepDoes(q)
      BY <1>1, <2>1 DEF StepDoes, At
  <2> QED
      BY <1>1, <1>2, <2>1, <2>2, AccountsWork DEF AccountDoes, SameAccount
<1>3. CASE Live(job[q].user) /\ job[q].kind = "reset" /\ Reset(q, job[q].user) /\ Go(q, "ok")
  <2> DEFINE v == job[q].user
             new == [accounts[v] EXCEPT !.password = q, !.reset = None]
  <2>1. Keeps(q) /\ Finds(q) /\ job'[q].step = "ok" /\ job'[q].user = v
      BY <1>1, <1>3, GoKeeps DEF TypeOK
  <2>2. /\ new \in Account /\ new.state = accounts[v].state /\ new.email = accounts[v].email
        /\ new.password = q /\ new.reset = None
    <3>1. accounts[v] \in Account
        BY <1>1
    <3> QED
        BY <1>1, <3>1 DEF Account
  <2>3. accounts' = [accounts EXCEPT ![v] = new]
      BY <1>3 DEF Reset
  <2> HIDE DEF new
  <2>4. accounts' \in [Ids -> Account] /\ accounts'[v] = new
        /\ \A u \in Ids \ {v} : accounts'[u] = accounts[u]
      BY <1>1, <2>2, <2>3
  <2>5. StepDoes(q)
      BY <1>1, <2>1, <1>3, <2>2, <2>4 DEF StepDoes, At
  <2>6. \A u \in Ids : AccountDoes(q, u)
      BY <1>1, <1>3, <2>1, <2>2, <2>4 DEF AccountDoes, SameAccount, Live, At
  <2> QED
      BY <1>1, <2>1, <2>4, <2>5, <2>6, AccountsWork
<1>4. CASE job[q].kind = "verify" /\ Verified(job[q].user) /\ Go(q, "ok")
  <2> DEFINE v == job[q].user
             new == [accounts[v] EXCEPT !.verified = TRUE, !.verification = None]
  <2>1. Keeps(q) /\ Finds(q) /\ job'[q].step = "ok"
      BY <1>1, <1>4, GoKeeps DEF TypeOK
  <2>2. /\ new \in Account /\ new.state = accounts[v].state /\ new.email = accounts[v].email
        /\ new.password = accounts[v].password /\ new.reset = accounts[v].reset
    <3>1. accounts[v] \in Account
        BY <1>1
    <3> QED
        BY <1>1, <3>1 DEF Account
  <2>3. accounts' = [accounts EXCEPT ![v] = new]
      BY <1>4 DEF Verified
  <2> HIDE DEF new
  <2>4. accounts' \in [Ids -> Account] /\ \A u \in Ids : SameAccount(u)
      BY <1>1, <2>2, <2>3 DEF SameAccount
  <2>5. StepDoes(q)
      BY <1>1, <1>4, <2>1 DEF StepDoes, At
  <2> QED
      BY <1>1, <2>1, <2>4, <2>5, AccountsWork DEF AccountDoes
<1> QED
    BY <1>1, <1>2, <1>3, <1>4 DEF SaveToken, At

LEMMA SavePasswordWorks ==
    ASSUME TypeOK, ShapeInv, NEW q \in Requests, SavePassword(q)
    PROVE  Works(q) /\ accounts' \in [Ids -> Account]
<1>1. /\ At(q, {"change"}, "save") /\ Running(q) /\ past' = past /\ Go(q, "ok")
      /\ UNCHANGED <<users, sessions, data>> /\ accounts \in [Ids -> Account]
      /\ "ok" \in Steps \ {"idle"} /\ q \in Ids /\ job[q].user \in Ids
    BY DEF SavePassword, At, Running, Steps, Over, TypeOK, Ids, ShapeInv, BearerKinds
<1> DEFINE v == job[q].user
           new == [accounts[v] EXCEPT !.password = IF Live(v) THEN q ELSE @]
<1>2. /\ new \in Account /\ new.state = accounts[v].state /\ new.email = accounts[v].email
      /\ new.password = (IF Live(v) THEN q ELSE accounts[v].password)
      /\ new.reset = accounts[v].reset
    BY <1>1 DEF Account
<1>3. accounts' = [accounts EXCEPT ![v] = new]
    BY <1>1 DEF SavePassword
<1> HIDE DEF new
<1>4. accounts' \in [Ids -> Account] /\ accounts'[v] = new
      /\ \A u \in Ids \ {v} : accounts'[u] = accounts[u]
    BY <1>1, <1>2, <1>3
<1>5. Keeps(q) /\ Finds(q) /\ job'[q].step = "ok" /\ job'[q].user = v
    BY <1>1, GoKeeps DEF TypeOK
<1>6. StepDoes(q)
    BY <1>1, <1>2, <1>4, <1>5 DEF StepDoes, At
<1>7. \A u \in Ids : AccountDoes(q, u)
    BY <1>1, <1>2, <1>4, <1>5 DEF AccountDoes, SameAccount, Live, At
<1> QED
    BY <1>1, <1>4, <1>5, <1>6, <1>7, AccountsWork

LEMMA DeleteAccountWorks ==
    ASSUME TypeOK, ShapeInv, NEW q \in Requests, DeleteAccount(q)
    PROVE  Works(q) /\ accounts' \in [Ids -> Account]
<1>1. /\ At(q, {"delete"}, "purge") /\ job[q].found = {} /\ Running(q) /\ past' = past
      /\ Go(q, "user") /\ UNCHANGED <<users, sessions, data>> /\ accounts \in [Ids -> Account]
      /\ "user" \in Steps \ {"idle"} /\ job[q].user \in Ids
    BY DEF DeleteAccount, At, Running, Steps, Over, TypeOK, ShapeInv, BearerKinds
<1>2. Deleted \in Account /\ Deleted.state = "deleted" /\ Deleted.reset = None
  <2>1. NoAccount.reset = None
      BY DEF NoAccount
  <2> QED
      BY <2>1, NoAccountType DEF Deleted, Account
<1>3. accounts' \in [Ids -> Account] /\ accounts'[job[q].user] = Deleted
      /\ \A u \in Ids \ {job[q].user} : accounts'[u] = accounts[u]
    BY <1>1, <1>2 DEF DeleteAccount
<1>4. Keeps(q) /\ Finds(q) /\ job'[q].step = "user" /\ job'[q].user = job[q].user
    BY <1>1, GoKeeps DEF TypeOK
<1>5. StepDoes(q)
    BY <1>1, <1>2, <1>3, <1>4 DEF StepDoes, At
<1>6. \A u \in Ids : AccountDoes(q, u)
    BY <1>1, <1>2, <1>3, <1>4 DEF AccountDoes, SameAccount
<1> QED
    BY <1>1, <1>3, <1>4, <1>5, <1>6, AccountsWork

LEMMA CreateSessionWorks ==
    ASSUME TypeOK, ShapeInv, NEW q \in Requests, CreateSession(q)
    PROVE  Works(q) /\ sessions' \in [Ids -> Session]
<1>1. /\ At(q, {"login"}, "session") /\ Running(q) /\ past' = past /\ Go(q, "ok")
      /\ UNCHANGED <<users, accounts, data>> /\ sessions \in [Ids -> Session]
      /\ "ok" \in Steps \ {"idle"} /\ job[q].user \in Ids
      /\ sessions' = [sessions EXCEPT ![q] = "active"]
    BY DEF CreateSession, At, Running, Steps, Over, TypeOK, ShapeInv
<1>2. Keeps(q) /\ Finds(q) /\ job'[q].step = "ok" /\ job'[q].user = job[q].user
    BY <1>1, GoKeeps DEF TypeOK
<1>3. StepDoes(q)
    BY <1>1, <1>2 DEF StepDoes, At
<1>4. sessions' \in [Ids -> Session] /\ \A s \in Ids : SessionDoes(q, s)
    BY <1>1, <1>2 DEF SessionDoes, Session
<1> QED
    BY <1>1, <1>2, <1>3, <1>4, SessionsWork

LEMMA RevokeWorks ==
    ASSUME TypeOK, ShapeInv, NEW q \in Requests, Revoke(q)
    PROVE  Works(q) /\ sessions' \in [Ids -> Session]
<1>1. /\ At(q, {"revoke", "revokeAll"}, "save") /\ Running(q) /\ past' = past /\ Go(q, "ok")
      /\ UNCHANGED <<users, accounts, data>> /\ sessions \in [Ids -> Session]
      /\ "ok" \in Steps \ {"idle"}
    BY DEF Revoke, At, Running, Steps, Over, TypeOK
<1>2. Keeps(q) /\ Finds(q) /\ job'[q].step = "ok"
    BY <1>1, GoKeeps DEF TypeOK
<1>3. StepDoes(q)
    BY <1>1, <1>2 DEF StepDoes, At
<1>4. sessions' \in [Ids -> Session] /\ \A s \in Ids : SessionDoes(q, s)
    BY <1>1 DEF SessionDoes, Session, Revoke
<1> QED
    BY <1>1, <1>2, <1>3, <1>4, SessionsWork

LEMMA DeleteSessionWorks ==
    ASSUME TypeOK, ShapeInv, NEW q \in Requests, DeleteSession(q)
    PROVE  Works(q) /\ sessions' \in [Ids -> Session]
<1>1. /\ At(q, {"delete"}, "purge") /\ Running(q) /\ past' = past
      /\ UNCHANGED <<users, accounts, data>> /\ sessions \in [Ids -> Session]
      /\ job \in [Requests -> Job]
    BY DEF DeleteSession, At, Running, Steps, Over, TypeOK
<1>2. PICK s \in job[q].found : /\ sessions' = [sessions EXCEPT ![s] = "deleted"]
                                /\ job' = [job EXCEPT ![q].found = @ \ {s}]
    BY DEF DeleteSession
<1> DEFINE new == [job[q] EXCEPT !.found = @ \ {s}]
<1>3. /\ new \in Job /\ new.step = "purge" /\ new.kind = job[q].kind /\ new.email = job[q].email
      /\ new.name = job[q].name /\ new.token = job[q].token /\ new.user = job[q].user
      /\ new.found = job[q].found \ {s}
    BY <1>1 DEF Job, At
<1>4. job' = [job EXCEPT ![q] = new]
    BY <1>2
<1> HIDE DEF new
<1>5. job' \in [Requests -> Job] /\ job'[q] = new /\ \A p \in Requests \ {q} : job'[p] = job[p]
    BY <1>1, <1>3, <1>4
<1>6. s \in Ids /\ sessions' \in [Ids -> Session] /\ sessions'[s] = "deleted"
      /\ \A i \in Ids \ {s} : sessions'[i] = sessions[i]
    BY <1>1, <1>2 DEF Session, Job
<1>7. Keeps(q) /\ Finds(q)
    BY <1>1, <1>3, <1>5 DEF Keeps, Finds
<1>8. StepDoes(q)
    BY <1>1, <1>3, <1>5, <1>6 DEF StepDoes, At
<1>9. \A i \in Ids : SessionDoes(q, i)
    BY <1>1, <1>2, <1>3, <1>5, <1>6 DEF SessionDoes
<1> QED
    BY <1>1, <1>6, <1>7, <1>8, <1>9, SessionsWork

LEMMA InsertWorks ==
    ASSUME TypeOK, ShapeInv, NEW q \in Requests, Insert(q)
    PROVE  Works(q) /\ data' \in [Ids -> SUBSET Collections]
<1>1. /\ At(q, {"insert"}, "save") /\ Running(q) /\ past' = past /\ Go(q, "ok")
      /\ UNCHANGED <<users, accounts, sessions>> /\ data \in [Ids -> SUBSET Collections]
      /\ "ok" \in Steps \ {"idle"}
    BY DEF Insert, At, Running, Steps, Over, TypeOK
<1>2. PICK c \in Collections : data' = [data EXCEPT ![job[q].user] = @ \cup {c}]
    BY DEF Insert
<1>3. Keeps(q) /\ Finds(q) /\ job'[q].step = "ok"
    BY <1>1, GoKeeps DEF TypeOK
<1>4. StepDoes(q)
    BY <1>1, <1>3 DEF StepDoes, At
<1>5. data' \in [Ids -> SUBSET Collections] /\ \A u \in Ids : DataDoes(q, u)
    BY <1>1, <1>2 DEF DataDoes
<1> QED
    BY <1>1, <1>3, <1>4, <1>5, DataWork

LEMMA DeletePortfolioWorks ==
    ASSUME TypeOK, ShapeInv, NEW q \in Requests, DeletePortfolio(q)
    PROVE  Works(q) /\ data' \in [Ids -> SUBSET Collections]
<1>1. /\ At(q, {"delete"}, "portfolio") /\ Running(q) /\ past' = past /\ Go(q, "sessions")
      /\ UNCHANGED <<users, accounts, sessions>> /\ data \in [Ids -> SUBSET Collections]
      /\ "sessions" \in Steps \ {"idle"} /\ job[q].user \in Ids
      /\ data' = [data EXCEPT ![job[q].user] = @ \ {"portfolio"}]
    BY DEF DeletePortfolio, At, Running, Steps, Over, TypeOK, ShapeInv, BearerKinds
<1>2. Keeps(q) /\ Finds(q) /\ job'[q].step = "sessions" /\ job'[q].user = job[q].user
    BY <1>1, GoKeeps DEF TypeOK
<1>3. data' \in [Ids -> SUBSET Collections] /\ \A u \in Ids : DataDoes(q, u)
    BY <1>1 DEF DataDoes
<1>4. StepDoes(q)
    BY <1>1, <1>2 DEF StepDoes, At
<1> QED
    BY <1>1, <1>2, <1>3, <1>4, DataWork

-----------------------------------------------------------------------------
(* Every step                                                              *)

\* Time passes: a token expires, or the nightly job unsets those that have.
Ticks ==
    /\ UNCHANGED <<users, sessions, data, job, past, failuresLeft>>
    /\ \A u \in Ids : SameAccount(u)

StoredTyped ==
    /\ users \in [Ids -> User] /\ accounts \in [Ids -> Account]
    /\ sessions \in [Ids -> Session] /\ data \in [Ids -> SUBSET Collections]
    /\ expired \subseteq Ids

LEMMA TicksTick ==
    ASSUME TypeOK, CleanupExpiredDeletionTokens \/ \E t \in Ids : Expire(t)
    PROVE  Ticks /\ StoredTyped'
<1>1. CASE CleanupExpiredDeletionTokens
  <2>1. accounts' = [u \in Ids |-> IF accounts[u].deletion \in expired
                                   THEN [accounts[u] EXCEPT !.deletion = None] ELSE accounts[u]]
      BY <1>1 DEF CleanupExpiredDeletionTokens
  <2>2. ASSUME NEW u \in Ids
        PROVE  SameAccount(u) /\ accounts'[u] \in Account
    <3>1. accounts[u] \in Account
        BY DEF TypeOK
    <3> QED
        BY <2>1, <3>1 DEF SameAccount, Account
  <2>3. accounts' \in [Ids -> Account]
      BY <2>1, <2>2
  <2> QED
      BY <1>1, <2>2, <2>3 DEF CleanupExpiredDeletionTokens, Ticks, StoredTyped, TypeOK
<1>2. CASE \E t \in Ids : Expire(t)
    BY <1>2 DEF Expire, Ticks, SameAccount, StoredTyped, TypeOK
<1> QED
    BY <1>1, <1>2

LEMMA NextDoes ==
    ASSUME TypeOK, ShapeInv, Next
    PROVE  /\ StoredTyped' /\ failuresLeft' \in 0..MaxFailures
           /\ Ticks \/ \E q \in Requests : Arrive(q) \/ Works(q)
<1> USE DEF StoredTyped
<1>1. ASSUME Ticks, StoredTyped'
      PROVE  failuresLeft' \in 0..MaxFailures
    BY <1>1 DEF Ticks, TypeOK
<1>2. ASSUME NEW q \in Requests, Arrive(q)
      PROVE  StoredTyped' /\ failuresLeft' \in 0..MaxFailures
    BY <1>2 DEF Arrive, stored, TypeOK
<1>3. ASSUME NEW q \in Requests, Fail(q)
      PROVE  Works(q) /\ StoredTyped' /\ failuresLeft' \in 0..MaxFailures
  <2>1. Works(q)
      BY <1>3, FailWorks
  <2> QED
      BY <1>3, <2>1, FailuresAssumption DEF Fail, stored, TypeOK
<1>4. ASSUME NEW q \in Requests,
             \/ CheckEmail(q) \/ CheckName(q) \/ CheckPassword(q) \/ CheckActive(q)
             \/ LoadForReset(q) \/ FindToken(q) \/ LoadForChange(q) \/ FindSession(q)
             \/ MailDeletionToken(q) \/ VerifyDeletionToken(q) \/ ListSessions(q)
      PROVE  Works(q) /\ StoredTyped' /\ failuresLeft' \in 0..MaxFailures
  <2>1. Works(q)
      BY <1>4, CheckEmailWorks, CheckNameWorks, CheckPasswordWorks, CheckActiveWorks,
         LoadForResetWorks, FindTokenWorks, LoadForChangeWorks, FindSessionWorks,
         MailDeletionTokenWorks, VerifyDeletionTokenWorks, ListSessionsWorks
  <2>2. UNCHANGED <<stored, failuresLeft>>
      BY <1>4 DEF CheckEmail, CheckName, CheckPassword, CheckActive, LoadForReset, FindToken,
         LoadForChange, FindSession, MailDeletionToken, VerifyDeletionToken, ListSessions
  <2> QED
      BY <2>1, <2>2 DEF stored, TypeOK
<1>5. ASSUME NEW q \in Requests, CreateUser(q) \/ UpdateUser(q) \/ DeleteUser(q)
      PROVE  Works(q) /\ StoredTyped' /\ failuresLeft' \in 0..MaxFailures
  <2>1. Works(q) /\ users' \in [Ids -> User]
      BY <1>5, CreateUserWorks, UpdateUserWorks, DeleteUserWorks
  <2> QED
      BY <1>5, <2>1 DEF CreateUser, UpdateUser, DeleteUser, TypeOK
<1>6. ASSUME NEW q \in Requests,
             \/ CreateAccount(q) \/ CreateVerification(q) \/ SaveResetToken(q) \/ SaveToken(q)
             \/ SavePassword(q) \/ GenerateDeletionToken(q) \/ DeleteAccount(q)
      PROVE  Works(q) /\ StoredTyped' /\ failuresLeft' \in 0..MaxFailures
  <2>1. Works(q) /\ accounts' \in [Ids -> Account]
      BY <1>6, CreateAccountWorks, CreateVerificationWorks, SaveResetTokenWorks, SaveTokenWorks,
         SavePasswordWorks, GenerateDeletionTokenWorks, DeleteAccountWorks
  <2> QED
      BY <1>6, <2>1 DEF CreateAccount, CreateVerification, SaveResetToken, SaveToken, SavePassword,
         GenerateDeletionToken, DeleteAccount, TypeOK
<1>7. ASSUME NEW q \in Requests,
             CreateSession(q) \/ Revoke(q) \/ DeleteSession(q) \/ Insert(q) \/ DeletePortfolio(q)
      PROVE  Works(q) /\ StoredTyped' /\ failuresLeft' \in 0..MaxFailures
  <2>1. Works(q) /\ (sessions' \in [Ids -> Session] \/ UNCHANGED sessions)
        /\ (data' \in [Ids -> SUBSET Collections] \/ UNCHANGED data)
      BY <1>7, CreateSessionWorks, RevokeWorks, DeleteSessionWorks, InsertWorks,
         DeletePortfolioWorks
         DEF CreateSession, Revoke, DeleteSession, Insert, DeletePortfolio
  <2> QED
      BY <1>7, <2>1 DEF CreateSession, Revoke, DeleteSession, Insert, DeletePortfolio, TypeOK
<1> HIDE DEF StoredTyped
<1> QED
    BY <1>1, <1>2, <1>3, <1>4, <1>5, <1>6, <1>7, TicksTick DEF Next

\* A request that arrives holds what its kind says, and has done nothing yet.
LEMMA ArriveDoes ==
    ASSUME TypeOK, NEW q \in Requests, Arrive(q)
    PROVE  /\ job' \in [Requests -> Job] /\ past' \in [Requests -> SUBSET Requests]
           /\ \A p \in Requests \ {q} : job'[p] = job[p] /\ past'[p] = past[p]
           /\ job[q].step = "idle" /\ job[q].kind = None /\ job[q].user = None
           /\ past'[q] = {r \in Requests : job[r].step \in Over}
           /\ UNCHANGED <<stored, failuresLeft>>
           /\ job'[q].step \in {"email", "account", "load", "save"}
           /\ job'[q].step = "email" <=> job'[q].kind = "register"
           /\ job'[q].step = "account" <=> job'[q].kind = "login"
           /\ job'[q].kind \in {"forgot", "reset", "verify", "delete"} => job'[q].step = "load"
           /\ job'[q].kind \in BearerKinds <=> job'[q].user # None
           /\ job'[q].user # None => job'[q].user \in Ids /\ Admitted(job'[q].user)
           /\ job'[q].kind = "register" => job'[q].email \in Emails /\ job'[q].name \in Names
           /\ job'[q].kind = "reset" => job'[q].token \in Ids
<1>1. PICK r \in Public \cup Bearer :
          /\ r.user # None => Admitted(r.user)
          /\ job' = [job EXCEPT ![q] = r]
    BY DEF Arrive
<1>2. r \in Job
    BY DEF Public, Bearer, Job, Kinds, Steps, Over, Ids
<1>3. /\ r.step \in {"email", "account", "load", "save"}
      /\ r.step = "email" <=> r.kind = "register"
      /\ r.step = "account" <=> r.kind = "login"
      /\ r.kind \in {"forgot", "reset", "verify", "delete"} => r.step = "load"
      /\ r.kind \in BearerKinds <=> r.user # None
      /\ r.user # None => r.user \in Ids
      /\ r.kind = "register" => r.email \in Emails /\ r.name \in Names
      /\ r.kind = "reset" => r.token \in Ids
    BY NoneAssumption DEF Public, Bearer, BearerKinds
<1>4. job' \in [Requests -> Job] /\ job'[q] = r /\ \A p \in Requests \ {q} : job'[p] = job[p]
    BY <1>1, <1>2 DEF TypeOK
<1>5. /\ past' \in [Requests -> SUBSET Requests]
      /\ past'[q] = {p \in Requests : job[p].step \in Over}
      /\ \A p \in Requests \ {q} : past'[p] = past[p]
    BY DEF Arrive, TypeOK
<1>6. job[q].step = "idle" /\ job[q].kind = None /\ job[q].user = None
    BY DEF Arrive, Idle
<1> QED
    BY <1>1, <1>3, <1>4, <1>5, <1>6 DEF Arrive

-----------------------------------------------------------------------------
(* Types                                                                   *)

LEMMA TypeStep ==
    ASSUME TypeOK, ShapeInv, [Next]_vars
    PROVE  TypeOK' /\ ShapeInv'
<1>1. CASE UNCHANGED vars
    BY <1>1 DEF vars, stored, TypeOK, ShapeInv, Live
<1>2. ASSUME Next
      PROVE  TypeOK' /\ ShapeInv'
  <2>1. StoredTyped' /\ failuresLeft' \in 0..MaxFailures
      BY <1>2, NextDoes
  <2>2. CASE Ticks
      BY <2>1, <2>2 DEF Ticks, SameAccount, StoredTyped, TypeOK, ShapeInv, Live
  <2>3. ASSUME NEW q \in Requests, Arrive(q)
        PROVE  TypeOK' /\ ShapeInv'
    <3>1. TypeOK'
        BY <2>1, <2>3, ArriveDoes DEF TypeOK, StoredTyped, stored, Live
    <3>2. ShapeInv'
        BY <2>3, ArriveDoes DEF ShapeInv
    <3> QED
        BY <3>1, <3>2
  <2>4. ASSUME NEW q \in Requests, Works(q)
        PROVE  TypeOK' /\ ShapeInv'
    <3>1. \A u \in Ids : Live(u)' => accounts'[u].email # None /\ accounts'[u].password # None
      <4> SUFFICES ASSUME NEW u \in Ids, Live(u)'
                   PROVE  accounts'[u].email # None /\ accounts'[u].password # None
          OBVIOUS
      <4>1. AccountDoes(q, u)
          BY <2>4 DEF Works
      <4>2. q # None /\ (job[q].kind = "register" => job[q].email # None)
          BY NoneAssumption DEF Ids, ShapeInv
      <4> QED
          BY <4>1, <4>2 DEF AccountDoes, SameAccount, TypeOK, Live, At
    <3>2. TypeOK'
        BY <2>1, <2>4, <3>1 DEF TypeOK, StoredTyped, Works, Keeps
    <3>3. ASSUME NEW p \in Requests
          PROVE  /\ job'[p].step = "idle" => job'[p].kind = None
                 /\ job'[p].kind \in BearerKinds => job'[p].user \in Ids
                 /\ job'[p].kind = "register" => job'[p].email \in Emails /\ job'[p].name \in Names
                 /\ job'[p].kind = "reset" => job'[p].token \in Ids
                 /\ job'[p].kind = "login" /\ job'[p].step \in {"user", "session", "ok"}
                       => job'[p].user \in Ids
                 /\ job'[p].kind \in {"forgot", "reset", "verify"} /\ job'[p].step = "save"
                       => job'[p].user \in Ids
      <4>1. CASE p # q
          BY <2>4, <4>1 DEF Works, Keeps, ShapeInv
      <4>2. CASE p = q
          BY <2>4, <4>2 DEF Works, Keeps, Finds, StepDoes, ShapeInv, BearerKinds
      <4> QED
          BY <4>1, <4>2
    <3> QED
        BY <3>2, <3>3 DEF ShapeInv
  <2> QED
      BY <1>2, <2>2, <2>3, <2>4, NextDoes
<1> QED
    BY <1>1, <1>2

\* The three ways in which a state goes on, for the steps below.
LEMMA NextSplits ==
    ASSUME TypeOK, ShapeInv, [Next]_vars
    PROVE  \/ /\ UNCHANGED <<users, sessions, data, job, past>>
              /\ \A u \in Ids : SameAccount(u)
           \/ \E q \in Requests : Arrive(q) \/ Works(q)
<1>1. CASE UNCHANGED vars
    BY <1>1 DEF vars, stored, SameAccount
<1>2. CASE Next
    BY <1>2, NextDoes DEF Ticks
<1> QED
    BY <1>1, <1>2

-----------------------------------------------------------------------------
(* The order of requests                                                   *)

\* A request was over when it is past; it never comes back.
PastInv == \A r \in Requests : \A q \in past[r] : job[q].step \in Over

LEMMA PastStep ==
    ASSUME TypeOK, ShapeInv, PastInv, [Next]_vars
    PROVE  PastInv'
<1> USE DEF PastInv
<1>1. CASE UNCHANGED <<users, sessions, data, job, past>>
    BY <1>1
<1>2. ASSUME NEW q \in Requests, Arrive(q)
      PROVE  PastInv'
  <2>1. \A r \in Requests : past[r] \subseteq Requests /\ q \notin past[r]
      BY <1>2, ArriveDoes DEF TypeOK, Over
  <2> QED
      BY <1>2, <2>1, ArriveDoes DEF Over
<1>3. ASSUME NEW q \in Requests, Works(q)
      PROVE  PastInv'
  <2>1. \A r \in Requests : past[r] \subseteq Requests /\ q \notin past[r]
      BY <1>3 DEF TypeOK, Works, Keeps, Running
  <2> QED
      BY <1>3, <2>1 DEF Works, Keeps
<1> QED
    BY <1>1, <1>2, <1>3, NextSplits

\* A request that is under way has not come before anyone.
LEMMA RunningNotPast ==
    ASSUME PastInv, NEW q \in Requests, Running(q), NEW r \in Requests
    PROVE  q \notin past[r]
BY DEF PastInv, Running

LEMMA IdleNotPast ==
    ASSUME PastInv, NEW q \in Requests, job[q].step = "idle", NEW r \in Requests
    PROVE  q \notin past[r]
BY DEF PastInv, Over

-----------------------------------------------------------------------------
(* The rest of the inductive invariant                                     *)

\* A request has a user and an account only when it is a registration that made them.
RegisterInv ==
    /\ \A u \in Owners : accounts[u].state # "none"
    /\ \A u \in Requests :
       /\ job[u].kind # "register" \/ job[u].step \in {"idle", "email", "name", "user"}
              => users[u].state = "none" /\ accounts[u].state = "none"
       /\ job[u].kind = "register" /\ job[u].step = "account" => accounts[u].state = "none"
       /\ Live(u) => accounts[u].email = job[u].email

\* Only a login that was answered has made a session.
SessionInv == \A s \in Requests : sessions[s] # "none" => Done(s, {"login"})

\* Whoever came after a deletion was answered does not find the user.
GoneInv ==
    \A r \in Requests : \A q \in past[r] :
        Done(q, {"delete"}) /\ job[r].user # None => job[r].user # job[q].user

\* r is a request of q's user, and neither was over when the other came.
AlongWith(q, r, kind) == job[r].kind = kind /\ job[r].user = job[q].user /\ Overlap(q, r)

\* What a deletion has left behind, step by step, other requests made while it was at work.
DeletionOf(q, u) ==
    LET step == job[q].step
    IN  /\ step \in {"portfolio", "sessions", "purge", "user", "ok"} =>
               users[u].state # "none" /\ accounts[u].state # "none"
        /\ step \in {"user", "ok"} => accounts[u].state = "deleted"
        /\ step = "ok" => users[u].state = "deleted"
        /\ step \in {"sessions", "purge", "user", "ok"} /\ "portfolio" \in data[u] =>
               \E r \in Requests : AlongWith(q, r, "insert")
        /\ step \in {"purge", "user", "ok"} => \A s \in SessionsOf(u) :
               (step = "purge" /\ s \in job[q].found) \/ (s \in Requests /\ AlongWith(q, s, "login"))
        /\ step = "purge" => \A s \in job[q].found : s \in Owners \/ Done(s, {"login"})

DeletionInv == \A q \in Requests : job[q].kind = "delete" => DeletionOf(q, job[q].user)

\* The one account on which the token t was ever stored.
Home(t, u) ==
    \/ t \in Owners /\ u = t
    \/ t \in Requests /\ Done(t, {"forgot"}) /\ job[t].user = u

\* A reset token is gone once it was used, and whoever comes later does not find it.
TokenInv ==
    /\ \A u \in Ids : accounts[u].reset # None => Home(accounts[u].reset, u)
    /\ \A q \in Requests : job[q].kind = "reset" /\ job[q].step \in {"save", "ok"}
                              => Home(job[q].token, job[q].user)
    /\ \A q \in Requests : Done(q, {"reset"}) => \A u \in Ids : accounts[u].reset # job[q].token
    /\ \A r \in Requests : \A q \in past[r] :
          Done(q, {"reset"}) /\ job[r].kind = "reset" /\ job[r].token = job[q].token
              => job[r].step \notin {"save", "ok"}

\* Whoever took a registration's e-mail since it was looked up is a registration, too.
EmailInv ==
    \A q \in Requests : job[q].kind = "register" /\ job[q].step \in {"name", "user", "account"} =>
        \A u \in Ids : Live(u) /\ accounts[u].email = job[q].email => u \in Requests /\ Overlap(q, u)

\* Why a user has no account.
StrayInv ==
    \A u \in Ids : Exists(u) =>
       /\ accounts[u].state = "deleted" =>
              \E q \in Requests : job[q].kind = "delete" /\ job[q].user = u
                                  /\ job[q].step \in {"user", "failed"}
       /\ accounts[u].state = "none" =>
              /\ u \in Requests
              /\ \/ job[u].step \in {"account", "failed"}
                 \/ \E r \in Requests \ {u} : Overlap(u, r) /\ job[r].kind = "register"
                                               /\ job[r].email = job[u].email

\* A reactivation that finds its user inactive came before the deactivation was over.
InactiveInv ==
    \A q \in Requests : job[q].kind = "reactivate" /\ users[job[q].user].state = "inactive" =>
        \E r \in Requests \ past[q] : job[r].kind = "deactivate" /\ job[r].user = job[q].user

AccountsInv ==
    /\ TypeOK /\ ShapeInv /\ PastInv /\ RegisterInv /\ SessionInv /\ GoneInv /\ DeletionInv
    /\ TokenInv /\ EmailInv /\ StrayInv /\ InactiveInv /\ LastPasswordStands

-----------------------------------------------------------------------------
(* Registrations                                                           *)

\* Users and accounts, once made, are not unmade.
LEMMA MadeStays ==
    ASSUME TypeOK, ShapeInv, RegisterInv, DeletionInv, [Next]_vars, NEW u \in Ids
    PROVE  /\ users[u].state # "none" => users'[u].state # "none"
           /\ accounts[u].state # "none" => accounts'[u].state # "none"
           /\ users[u].state = "deleted" => users'[u].state = "deleted"
           /\ accounts[u].state = "deleted" => accounts'[u].state = "deleted"
<1>1. CASE UNCHANGED users /\ SameAccount(u)
    BY <1>1 DEF SameAccount
<1>2. ASSUME NEW q \in Requests, Arrive(q)
      PROVE  UNCHANGED users /\ UNCHANGED accounts
    BY <1>2, ArriveDoes DEF stored
<1>3. ASSUME NEW q \in Requests, Works(q)
      PROVE  /\ users[u].state # "none" => users'[u].state # "none"
             /\ accounts[u].state # "none" => accounts'[u].state # "none"
             /\ users[u].state = "deleted" => users'[u].state = "deleted"
             /\ accounts[u].state = "deleted" => accounts'[u].state = "deleted"
  <2>1. UserDoes(q, u) /\ AccountDoes(q, u)
      BY <1>3 DEF Works
  <2>2. At(q, {"register"}, "user") => users[q].state = "none"
      BY DEF RegisterInv, At
  <2>3. At(q, {"register"}, "account") => accounts[q].state = "none"
      BY DEF RegisterInv, At
  <2> QED
      BY <2>1, <2>2, <2>3 DEF UserDoes, AccountDoes, SameAccount, Exists, Live
<1> QED
    BY <1>1, <1>2, <1>3, NextSplits

LEMMA RegisterStep ==
    ASSUME TypeOK, ShapeInv, RegisterInv, DeletionInv, [Next]_vars
    PROVE  RegisterInv'
<1>1. \A u \in Owners : accounts'[u].state # "none"
    BY MadeStays DEF RegisterInv, Ids
<1>2. CASE /\ UNCHANGED <<users, sessions, data, job, past>>
           /\ \A u \in Ids : SameAccount(u)
    BY <1>1, <1>2 DEF SameAccount, RegisterInv, Live, Ids
<1>3. ASSUME NEW q \in Requests, Arrive(q)
      PROVE  RegisterInv'
    BY <1>1, <1>3, ArriveDoes DEF RegisterInv, stored, Live
<1>4. ASSUME NEW q \in Requests, Works(q)
      PROVE  RegisterInv'
  <2> SUFFICES ASSUME NEW u \in Requests
               PROVE  /\ job'[u].kind # "register" \/ job'[u].step \in {"idle", "email", "name", "user"}
                             => users'[u].state = "none" /\ accounts'[u].state = "none"
                      /\ job'[u].kind = "register" /\ job'[u].step = "account"
                             => accounts'[u].state = "none"
                      /\ Live(u)' => accounts'[u].email = job'[u].email
      BY <1>1 DEF RegisterInv
  <2>1. UserDoes(q, u) /\ AccountDoes(q, u) /\ u \in Ids
      BY <1>4 DEF Works, Ids
  <2>2. /\ At(q, {"delete"}, "user") \/ At(q, {"delete"}, "purge") =>
              users[job[q].user].state # "none" /\ accounts[job[q].user].state # "none"
      BY DEF DeletionInv, DeletionOf, At
  <2>3. CASE u # q
    <3>1. job'[u] = job[u]
        BY <1>4, <2>3 DEF Works, Keeps
    <3> QED
        BY <2>1, <2>2, <2>3, <3>1
           DEF RegisterInv, UserDoes, AccountDoes, SameAccount, Exists, Live
  <2>4. CASE u = q
    <3>1. /\ job'[q].kind = job[q].kind /\ job'[q].email = job[q].email /\ job'[q].step # "idle"
          /\ job[q].kind = "register" =>
                /\ job'[q].step \in {"email", "name", "user"} => job[q].step \in {"email", "name"}
                /\ job'[q].step = "account" => job[q].step = "user"
        BY <1>4 DEF Works, Keeps, StepDoes
    <3> QED
        BY <2>1, <2>2, <2>4, <3>1
           DEF RegisterInv, UserDoes, AccountDoes, SameAccount, Exists, Live, At
  <2> QED
      BY <2>3, <2>4
<1> QED
    BY <1>2, <1>3, <1>4, NextSplits

-----------------------------------------------------------------------------
(* Sessions and deletions                                                  *)

LEMMA SessionStep ==
    ASSUME TypeOK, ShapeInv, SessionInv, DeletionInv, [Next]_vars
    PROVE  SessionInv'
<1>1. CASE UNCHANGED <<users, sessions, data, job, past>>
    BY <1>1 DEF SessionInv, Done
<1>2. ASSUME NEW q \in Requests, Arrive(q)
      PROVE  SessionInv'
    BY <1>2, ArriveDoes DEF SessionInv, Done, stored
<1>3. ASSUME NEW q \in Requests, Works(q)
      PROVE  SessionInv'
  <2> SUFFICES ASSUME NEW s \in Requests, sessions'[s] # "none"
               PROVE  job'[s].kind \in {"login"} /\ job'[s].step = "ok"
      BY DEF SessionInv, Done
  <2>1. SessionDoes(q, s) /\ s \in Ids
      BY <1>3 DEF Works, Ids
  <2>2. CASE s = q /\ job[q].kind = "login" /\ job'[q].step = "ok"
      BY <1>3, <2>2 DEF Works, Keeps
  <2>3. CASE Done(s, {"login"})
      BY <1>3, <2>3 DEF Works, Keeps, Done, Running, Over
  <2>4. s \notin Owners
      BY OwnersAssumption
  <2> QED
      BY <2>1, <2>2, <2>3, <2>4 DEF SessionDoes, SessionInv, At, DeletionInv, DeletionOf
<1> QED
    BY <1>1, <1>2, <1>3, NextSplits

\* Two requests that have arrived, and when.
LEMMA OverlapStays ==
    ASSUME TypeOK, ShapeInv, [Next]_vars, NEW q \in Requests, NEW r \in Requests,
           job[q].step # "idle", job[r].step # "idle"
    PROVE  Overlap(q, r)' <=> Overlap(q, r)
<1>1. ASSUME NEW p \in Requests, Arrive(p)
      PROVE  past'[q] = past[q] /\ past'[r] = past[r]
    BY <1>1, ArriveDoes
<1>2. past'[q] = past[q] /\ past'[r] = past[r]
    BY <1>1, NextSplits DEF Works, Keeps
<1> QED
    BY <1>2 DEF Overlap

\* A request with a deletion in its past can only have found another user.
LEMMA GoneStep ==
    ASSUME TypeOK, ShapeInv, PastInv, DeletionInv, GoneInv, [Next]_vars
    PROVE  GoneInv'
<1>1. CASE UNCHANGED <<users, sessions, data, job, past>>
    BY <1>1 DEF GoneInv, Done
<1>2. ASSUME NEW q \in Requests, NEW u, Done(q, {"delete"}), u = job[q].user
      PROVE  u \in Ids /\ users[u].state = "deleted" /\ accounts[u].state = "deleted"
    BY <1>2 DEF DeletionInv, DeletionOf, Done, ShapeInv, BearerKinds
<1>3. ASSUME NEW p \in Requests, Arrive(p)
      PROVE  GoneInv'
  <2> SUFFICES ASSUME NEW r \in Requests, NEW q \in past'[r], Done(q, {"delete"})',
                      job'[r].user # None
               PROVE  job'[r].user # job'[q].user
      BY DEF GoneInv
  <2>1. q # p /\ q \in Requests
      BY <1>3, IdleNotPast, ArriveDoes DEF TypeOK, Over
  <2>2. Done(q, {"delete"}) /\ job'[q] = job[q]
      BY <1>3, <2>1, ArriveDoes DEF Done
  <2>3. CASE r = p
      BY <1>2, <1>3, <2>1, <2>2, <2>3, ArriveDoes DEF Admitted
  <2>4. CASE r # p
      BY <1>3, <2>1, <2>2, <2>4, ArriveDoes DEF GoneInv
  <2> QED
      BY <2>3, <2>4
<1>4. ASSUME NEW p \in Requests, Works(p)
      PROVE  GoneInv'
  <2> SUFFICES ASSUME NEW r \in Requests, NEW q \in past[r], Done(q, {"delete"})',
                      job'[r].user # None
               PROVE  job'[r].user # job'[q].user
      BY <1>4 DEF GoneInv, Works, Keeps
  <2>1. q # p /\ q \in Requests
      BY <1>4, RunningNotPast DEF TypeOK, Works, Keeps
  <2>2. Done(q, {"delete"}) /\ job'[q] = job[q]
      BY <1>4, <2>1 DEF Works, Keeps, Done
  <2>3. CASE job'[r].user = job[r].user
      BY <2>2, <2>3 DEF GoneInv
  <2>4. CASE job'[r].user # job[r].user
      BY <1>2, <1>4, <2>1, <2>2, <2>4 DEF Works, Keeps, Finds, Live
  <2> QED
      BY <2>3, <2>4
<1> QED
    BY <1>1, <1>3, <1>4, NextSplits

\* A request made along with a deletion stays one.
LEMMA AlongStays ==
    ASSUME TypeOK, ShapeInv, [Next]_vars, NEW q \in Requests, job[q].kind = "delete",
           job[q].step # "idle", NEW r \in Requests, NEW kind \in {"insert", "login"},
           AlongWith(q, r, kind), job[r].step # "idle",
           kind = "login" => job[r].step \in {"user", "session", "ok"}
    PROVE  AlongWith(q, r, kind)'
<1>1. Overlap(q, r)'
    BY OverlapStays DEF AlongWith
<1>2. job'[q].user = job[q].user /\ job'[r].user = job[r].user /\ job'[r].kind = job[r].kind
  <2>1. ASSUME NEW p \in Requests, Works(p)
        PROVE  job'[q].user = job[q].user /\ job'[r].user = job[r].user
               /\ job'[r].kind = job[r].kind
      BY <2>1 DEF Works, Keeps, Finds, AlongWith
  <2>2. ASSUME NEW p \in Requests, Arrive(p)
        PROVE  job'[q] = job[q] /\ job'[r] = job[r]
      BY <2>2, ArriveDoes
  <2> QED
      BY <2>1, <2>2, NextSplits
<1> QED
    BY <1>1, <1>2 DEF AlongWith

\* A request under way for the user of a deletion was there before the deletion was answered.
LEMMA MeetsDeletion ==
    ASSUME TypeOK, ShapeInv, PastInv, GoneInv, NEW q \in Requests, job[q].kind = "delete",
           job[q].step \notin {"refused", "failed"},
           NEW p \in Requests, Running(p), job[p].user = job[q].user
    PROVE  Overlap(q, p)
<1>1. p \notin past[q]
    BY RunningNotPast
<1>2. job[p].user # None
    BY NoneAssumption DEF ShapeInv, BearerKinds
<1>3. q \notin past[p]
    BY <1>2 DEF GoneInv, PastInv, Done, Over
<1> QED
    BY <1>1, <1>3 DEF Overlap

\* A session that is there after a step was there before, or a login has just made it.
LEMMA SessionsGrow ==
    ASSUME TypeOK, ShapeInv, SessionInv, [Next]_vars, NEW u \in Ids, NEW s \in SessionsOf(u)'
    PROVE  \/ s \in SessionsOf(u)
           \/ /\ s \in Requests /\ Works(s) /\ job[s].kind = "login" /\ job[s].user = u
              /\ job'[s].user = u
<1>1. s \in Ids /\ sessions'[s] \in {"active", "revoked"} /\ OwnerOf(s)' = u
    BY DEF SessionsOf
<1>2. CASE sessions[s] \in {"active", "revoked"}
  <2>1. s \in Requests => job'[s] = job[s]
    <3>1. SUFFICES ASSUME s \in Requests PROVE job'[s] = job[s]
        OBVIOUS
    <3>2. job[s].step = "ok"
        BY <1>2, <3>1 DEF SessionInv, Done
    <3>3. ASSUME NEW p \in Requests, Arrive(p)
          PROVE  job'[s] = job[s]
        BY <3>1, <3>2, <3>3, ArriveDoes
    <3>4. ASSUME NEW p \in Requests, Works(p)
          PROVE  job'[s] = job[s]
        BY <3>1, <3>2, <3>4 DEF Works, Keeps, Running, Over
    <3> QED
        BY <3>3, <3>4, NextSplits
  <2>2. OwnerOf(s) = u
      BY <1>1, <2>1 DEF OwnerOf, Ids
  <2> QED
      BY <1>1, <1>2, <2>2 DEF SessionsOf
<1>3. CASE sessions[s] \notin {"active", "revoked"}
  <2>1. ASSUME NEW p \in Requests, Arrive(p)
        PROVE  FALSE
      BY <1>1, <1>3, <2>1, ArriveDoes DEF stored
  <2>2. ASSUME NEW p \in Requests, Works(p)
        PROVE  /\ s \in Requests /\ Works(s) /\ job[s].kind = "login" /\ job[s].user = u
               /\ job'[s].user = u
    <3>1. SessionDoes(p, s)
        BY <1>1, <2>2 DEF Works
    <3>2. s = p /\ At(p, {"login"}, "session")
        BY <1>1, <1>3, <3>1 DEF SessionDoes
    <3>3. job'[s].user = u
        BY <1>1, <3>2, OwnersAssumption DEF OwnerOf
    <3> QED
        BY <2>2, <3>2, <3>3 DEF Works, Finds, At
  <2> QED
      BY <1>1, <1>3, <2>1, <2>2, NextSplits
<1> QED
    BY <1>2, <1>3

LEMMA DeletionStep ==
    ASSUME TypeOK, ShapeInv, PastInv, RegisterInv, SessionInv, GoneInv, DeletionInv, [Next]_vars
    PROVE  DeletionInv'
<1> SUFFICES ASSUME NEW q \in Requests, job'[q].kind = "delete"
             PROVE  DeletionOf(q, job[q].user)'
    BY DEF DeletionInv
<1> DEFINE step == job'[q].step
<1>1. CASE Arrive(q)
    BY <1>1, ArriveDoes DEF DeletionOf
<1>2. CASE ~Arrive(q)
  <2>0. job[q].kind = "delete" /\ job[q].user = job'[q].user
    <3>1. ASSUME NEW p \in Requests, Arrive(p)
          PROVE  job'[q] = job[q]
        BY <1>2, <3>1, ArriveDoes
    <3>2. ASSUME NEW p \in Requests, Works(p)
          PROVE  job[q].kind = "delete" /\ job[q].user = job'[q].user
        BY <3>2 DEF Works, Keeps, Finds
    <3> QED
        BY <3>1, <3>2, NextSplits
  <2>12. job[q].user \in Ids /\ job[q].step # "idle"
      BY <2>0, NoneAssumption DEF ShapeInv, BearerKinds, Kinds
  <2> SUFFICES ASSUME NEW u \in Ids, u = job[q].user, u = job'[q].user
               PROVE  DeletionOf(q, u)'
      BY <2>0, <2>12 DEF DeletionOf
  <2>1. job[q].kind = "delete" /\ job[q].step # "idle" /\ job[q].user = u /\ job'[q].user = u
      BY <2>0, <2>12
  <2>2. ASSUME NEW s \in Ids, s \in Owners \/ Done(s, {"login"})
        PROVE  s \in Owners \/ Done(s, {"login"})'
    <3>1. ASSUME s \in Requests, Done(s, {"login"})
          PROVE  job'[s] = job[s]
      <4>1. ASSUME NEW p \in Requests, Arrive(p)
            PROVE  job'[s] = job[s]
          BY <3>1, <4>1, ArriveDoes DEF Done
      <4>2. ASSUME NEW p \in Requests, Works(p)
            PROVE  job'[s] = job[s]
          BY <3>1, <4>2 DEF Works, Keeps, Running, Over, Done
      <4> QED
          BY <4>1, <4>2, NextSplits
    <3> QED
        BY <2>2, <3>1 DEF Done, Ids
  <2>3. ASSUME NEW r \in Requests, AlongWith(q, r, "insert")
        PROVE  AlongWith(q, r, "insert")'
      BY <2>1, <2>3, AlongStays, NoneAssumption DEF AlongWith, ShapeInv, Kinds
  <2>4. ASSUME NEW s \in Requests, s \in SessionsOf(u), AlongWith(q, s, "login")
        PROVE  AlongWith(q, s, "login")'
    <3>1. job[s].step = "ok"
        BY <2>4 DEF SessionsOf, SessionInv, Done
    <3> QED
        BY <2>1, <2>4, <3>1, AlongStays
  <2>5. ASSUME NEW s \in SessionsOf(u), s \in Requests
        PROVE  Done(s, {"login"})
      BY <2>5 DEF SessionsOf, SessionInv
  <2>6. ASSUME NEW p \in Requests \ {q}, Works(p), job[p].user = u, job[q].step \notin {"refused", "failed"}
        PROVE  Overlap(q, p)'
      BY <2>1, <2>6, MeetsDeletion DEF Works, Keeps, Overlap
  <2>7. /\ users[u].state # "none" => users'[u].state # "none"
        /\ accounts[u].state # "none" => accounts'[u].state # "none"
        /\ users[u].state = "deleted" => users'[u].state = "deleted"
        /\ accounts[u].state = "deleted" => accounts'[u].state = "deleted"
      BY <2>1, MadeStays
  <2>8. CASE job'[q] = job[q] /\ step \notin {"refused", "failed"}
    <3>1. ASSUME step \in {"sessions", "purge", "user", "ok"}, "portfolio" \in data'[u]
          PROVE  \E r \in Requests : AlongWith(q, r, "insert")'
      <4>1. CASE "portfolio" \in data[u]
          BY <2>1, <2>3, <2>8, <3>1, <4>1 DEF DeletionInv, DeletionOf
      <4>2. CASE "portfolio" \notin data[u]
        <5>1. ~(data' = data)
            BY <3>1, <4>2
        <5>2. PICK p \in Requests : Works(p)
            BY <5>1, NextSplits, ArriveDoes DEF stored
        <5>3. job[p].user = u /\ job[p].kind = "insert"
            BY <2>1, <3>1, <4>2, <5>2 DEF Works, DataDoes, At
        <5>4. job'[p].user = u /\ job'[p].kind = "insert" /\ p # q
            BY <2>1, <5>2, <5>3 DEF Works, Keeps, Finds
        <5> QED
            BY <2>6, <2>8, <5>2, <5>3, <5>4 DEF AlongWith
      <4> QED
          BY <4>1, <4>2
    <3>2. ASSUME step \in {"purge", "user", "ok"}, NEW s \in SessionsOf(u)'
          PROVE  \/ step = "purge" /\ s \in job'[q].found
                 \/ s \in Requests /\ AlongWith(q, s, "login")'
      <4>1. CASE s \in SessionsOf(u)
          BY <2>1, <2>4, <2>8, <3>2, <4>1 DEF DeletionInv, DeletionOf
      <4>2. CASE /\ s \in Requests /\ Works(s) /\ job[s].kind = "login" /\ job[s].user = u
                 /\ job'[s].user = u
          BY <2>1, <2>6, <2>8, <4>2 DEF AlongWith, Works, Keeps
      <4> QED
          BY <2>1, <4>1, <4>2, SessionsGrow
    <3>3. ASSUME step = "purge", NEW s \in job'[q].found
          PROVE  s \in Owners \/ Done(s, {"login"})'
      <4>1. s \in Ids /\ (s \in Owners \/ Done(s, {"login"}))
          BY <2>1, <2>8, <3>3 DEF DeletionInv, DeletionOf, TypeOK, Job
      <4> QED
          BY <2>2, <4>1
    <3>4. /\ step \in {"portfolio", "sessions", "purge", "user", "ok"} =>
                 users'[u].state # "none" /\ accounts'[u].state # "none"
          /\ step \in {"user", "ok"} => accounts'[u].state = "deleted"
          /\ step = "ok" => users'[u].state = "deleted"
        BY <2>1, <2>7, <2>8 DEF DeletionInv, DeletionOf
    <3> QED
        BY <3>1, <3>2, <3>3, <3>4 DEF DeletionOf
  <2>9. CASE Works(q) /\ step \notin {"refused", "failed"}
    <3>1. /\ step = "portfolio" => users[u].state # "none" /\ accounts[u].state # "none"
          /\ step = "sessions" => job[q].step = "portfolio" /\ "portfolio" \notin data'[u]
          /\ step = "purge" =>
                \/ job[q].step = "sessions" /\ job'[q].found = SessionsOf(u) /\ sessions' = sessions
                \/ /\ job[q].step = "purge"
                   /\ \A s \in job[q].found \ job'[q].found : sessions'[s] = "deleted"
                   /\ job'[q].found \subseteq job[q].found
          /\ step = "user" => /\ job[q].step = "purge" /\ job[q].found = {}
                              /\ accounts'[u].state = "deleted" /\ sessions' = sessions
          /\ step = "ok" => job[q].step = "user" /\ users'[u].state = "deleted"
        BY <2>1, <2>9 DEF Works, StepDoes, Exists, Live
    <3>2. data'[u] \subseteq data[u]
        BY <2>1, <2>9 DEF Works, DataDoes, At
    <3>3. ASSUME NEW s \in SessionsOf(u)'
          PROVE  s \in SessionsOf(u)
      <4>1. s \in Ids /\ SessionDoes(q, s) /\ sessions'[s] \in {"active", "revoked"}
            /\ OwnerOf(s)' = u
          BY <2>9, <3>3 DEF Works, SessionsOf
      <4>2. sessions[s] \in {"active", "revoked"}
          BY <2>1, <4>1 DEF SessionDoes, At
      <4>3. s \in Requests => s # q
          BY <2>1, <4>2, NoneAssumption DEF SessionInv, Done
      <4>4. OwnerOf(s) = u
          BY <2>9, <4>1, <4>3 DEF OwnerOf, Works, Keeps, Ids
      <4> QED
          BY <4>1, <4>2, <4>4 DEF SessionsOf
    <3>4. ASSUME step \in {"sessions", "purge", "user", "ok"}, "portfolio" \in data'[u]
          PROVE  \E r \in Requests : AlongWith(q, r, "insert")'
        BY <2>1, <2>3, <3>1, <3>2, <3>4 DEF DeletionInv, DeletionOf
    <3>5. ASSUME step \in {"purge", "user", "ok"}, NEW s \in SessionsOf(u)'
          PROVE  \/ step = "purge" /\ s \in job'[q].found
                 \/ s \in Requests /\ AlongWith(q, s, "login")'
      <4>1. s \in SessionsOf(u) /\ sessions'[s] \in {"active", "revoked"}
          BY <3>3, <3>5 DEF SessionsOf
      <4>2. CASE step = "purge" /\ s \in job'[q].found
          BY <4>2
      <4>3. CASE ~(step = "purge" /\ s \in job'[q].found)
        <5>1. /\ job[q].step \in {"purge", "user"}
              /\ ~(job[q].step = "purge" /\ s \in job[q].found)
            BY <3>1, <3>5, <4>1, <4>3
        <5>2. s \in Requests /\ AlongWith(q, s, "login")
            BY <2>1, <4>1, <5>1 DEF DeletionInv, DeletionOf
        <5> QED
            BY <2>4, <4>1, <5>2
      <4> QED
          BY <4>2, <4>3
    <3>6. ASSUME step = "purge", NEW s \in job'[q].found
          PROVE  s \in Owners \/ Done(s, {"login"})'
      <4>1. s \in Ids /\ (s \in Owners \/ Done(s, {"login"}))
        <5>1. CASE s \in SessionsOf(u)
            BY <2>5, <5>1 DEF SessionsOf, Ids
        <5>2. CASE job[q].step = "purge" /\ s \in job[q].found
            BY <2>1, <5>2 DEF DeletionInv, DeletionOf, TypeOK, Job
        <5> QED
            BY <3>1, <3>6, <5>1, <5>2
      <4> QED
          BY <2>2, <4>1
    <3>7. /\ step \in {"portfolio", "sessions", "purge", "user", "ok"} =>
                 users'[u].state # "none" /\ accounts'[u].state # "none"
          /\ step \in {"user", "ok"} => accounts'[u].state = "deleted"
          /\ step = "ok" => users'[u].state = "deleted"
        BY <2>1, <2>7, <3>1 DEF DeletionInv, DeletionOf
    <3> QED
        BY <3>4, <3>5, <3>6, <3>7 DEF DeletionOf
  <2>10. job'[q] = job[q] \/ Works(q)
    <3>1. ASSUME NEW p \in Requests, Arrive(p)
          PROVE  job'[q] = job[q]
        BY <1>2, <3>1, ArriveDoes
    <3> QED
        BY <3>1, NextSplits DEF Works, Keeps
  <2>11. step \in {"refused", "failed"} => DeletionOf(q, u)'
      BY DEF DeletionOf
  <2> QED
      BY <2>8, <2>9, <2>10, <2>11
<1> QED
    BY <1>1, <1>2

-----------------------------------------------------------------------------
(* Passwords and tokens                                                    *)

\* What was answered stays answered.
LEMMA DoneStays ==
    ASSUME TypeOK, ShapeInv, [Next]_vars, NEW q \in Requests, NEW kinds, Done(q, kinds)
    PROVE  Done(q, kinds)' /\ job'[q] = job[q]
<1>1. ASSUME NEW p \in Requests, Arrive(p)
      PROVE  job'[q] = job[q]
    BY <1>1, ArriveDoes DEF Done
<1>2. ASSUME NEW p \in Requests, Works(p)
      PROVE  job'[q] = job[q]
    BY <1>2 DEF Works, Keeps, Running, Over, Done
<1>3. job'[q] = job[q]
    BY <1>1, <1>2, NextSplits
<1> QED
    BY <1>3 DEF Done

LEMMA PasswordStep ==
    ASSUME TypeOK, ShapeInv, PastInv, LastPasswordStands, [Next]_vars
    PROVE  LastPasswordStands'
<1> SUFFICES ASSUME NEW u \in Ids, NEW r \in Requests, Live(u)', Done(r, {"reset", "change"})',
                    job'[r].user = u
             PROVE  accounts'[u].password \in {q \in Requests : q = r \/ q \notin past'[r]}
    BY DEF LastPasswordStands
<1>1. CASE UNCHANGED <<users, sessions, data, job, past>> /\ SameAccount(u)
    BY <1>1 DEF SameAccount, LastPasswordStands, Done, Live
<1>2. ASSUME NEW p \in Requests, Arrive(p)
      PROVE  accounts'[u].password \in {q \in Requests : q = r \/ q \notin past'[r]}
    BY <1>2, ArriveDoes DEF LastPasswordStands, Done, Live, stored
<1>3. ASSUME NEW p \in Requests, Works(p)
      PROVE  accounts'[u].password \in {q \in Requests : q = r \/ q \notin past'[r]}
  <2>1. p \notin past[r] /\ past' = past /\ AccountDoes(p, u)
      BY <1>3, RunningNotPast DEF Works, Keeps
  <2>2. CASE accounts'[u].password = p
      BY <2>1, <2>2
  <2>3. CASE accounts'[u].password # p
    <3>1. accounts'[u].password = accounts[u].password /\ Live(u)
        BY <2>1, <2>3 DEF AccountDoes, SameAccount, Live
    <3>2. r # p
        BY <1>3, <2>3, <3>1 DEF Works, Keeps, StepDoes, Done
    <3>3. job'[r] = job[r]
        BY <1>3, <3>2 DEF Works, Keeps
    <3> QED
        BY <2>1, <3>1, <3>3 DEF LastPasswordStands, Done
  <2> QED
      BY <2>2, <2>3
<1> QED
    BY <1>1, <1>2, <1>3, NextSplits

\* A token's home is for ever.
LEMMA HomeStays ==
    ASSUME TypeOK, ShapeInv, [Next]_vars, NEW t, NEW u, Home(t, u)
    PROVE  Home(t, u)'
<1>1. CASE t \in Owners /\ u = t
    BY <1>1 DEF Home
<1>2. CASE t \in Requests /\ Done(t, {"forgot"}) /\ job[t].user = u
    BY <1>2, DoneStays DEF Home
<1> QED
    BY <1>1, <1>2 DEF Home

LEMMA HomeUnique ==
    ASSUME NEW t, NEW u, NEW v, Home(t, u), Home(t, v)
    PROVE  u = v
BY OwnersAssumption DEF Home

\* A token that an account has after a step was there before, or its request has just stored it.
LEMMA ResetGrows ==
    ASSUME TypeOK, ShapeInv, [Next]_vars, NEW u \in Ids, accounts'[u].reset # None
    PROVE  \/ accounts'[u].reset = accounts[u].reset
           \/ \E p \in Requests : /\ Works(p) /\ accounts'[u].reset = p /\ job[p].user = u
                                  /\ At(p, {"forgot"}, "save") /\ job'[p].step = "ok"
<1>1. ASSUME NEW p \in Requests, Arrive(p)
      PROVE  accounts' = accounts
    BY <1>1, ArriveDoes DEF stored
<1>2. ASSUME NEW p \in Requests, Works(p)
      PROVE  \/ accounts'[u].reset = accounts[u].reset
             \/ /\ Works(p) /\ accounts'[u].reset = p /\ job[p].user = u
                /\ At(p, {"forgot"}, "save") /\ job'[p].step = "ok"
  <2>1. AccountDoes(p, u)
      BY <1>2 DEF Works
  <2> QED
      BY <1>2, <2>1 DEF AccountDoes, SameAccount
<1> QED
    BY <1>1, <1>2, NextSplits DEF SameAccount

\* A reset comes to its end in one step.
LEMMA ResetMoves ==
    ASSUME TypeOK, ShapeInv, [Next]_vars, NEW q \in Requests, job'[q].kind = "reset"
    PROVE  \/ job'[q] = job[q]
           \/ Arrive(q) /\ job'[q].step = "load"
           \/ Works(q) /\ job[q].kind = "reset" /\ job'[q].token = job[q].token
<1>1. ASSUME NEW p \in Requests, Arrive(p)
      PROVE  job'[q] = job[q] \/ (Arrive(q) /\ job'[q].step = "load")
    BY <1>1, ArriveDoes
<1>2. ASSUME NEW p \in Requests, Works(p)
      PROVE  \/ job'[q] = job[q]
             \/ Works(q) /\ job[q].kind = "reset" /\ job'[q].token = job[q].token
    BY <1>2 DEF Works, Keeps
<1> QED
    BY <1>1, <1>2, NextSplits

\* Whoever is past was over, and has not changed.
LEMMA PastOf ==
    ASSUME TypeOK, ShapeInv, PastInv, [Next]_vars, NEW r \in Requests, NEW q \in past'[r]
    PROVE  q \in Requests /\ job'[q] = job[q] /\ (q \in past[r] \/ Arrive(r))
<1>1. ASSUME NEW p \in Requests, Arrive(p)
      PROVE  q \in Requests /\ job'[q] = job[q] /\ (q \in past[r] \/ Arrive(r))
    BY <1>1, ArriveDoes, IdleNotPast DEF TypeOK, Over
<1>2. ASSUME NEW p \in Requests, Works(p)
      PROVE  q \in Requests /\ job'[q] = job[q] /\ (q \in past[r] \/ Arrive(r))
    BY <1>2, RunningNotPast DEF TypeOK, Works, Keeps
<1> QED
    BY <1>1, <1>2, NextSplits DEF TypeOK

LEMMA TokenStep ==
    ASSUME TypeOK, ShapeInv, PastInv, TokenInv, [Next]_vars
    PROVE  TokenInv'
<1>0. ShapeInv'
    BY TypeStep
<1>1. ASSUME NEW u \in Ids, NEW t, t = accounts'[u].reset, t # None
      PROVE  Home(t, u)'
  <2>1. CASE accounts'[u].reset = accounts[u].reset
    <3>1. Home(t, u)
        BY <1>1, <2>1 DEF TokenInv
    <3> QED
        BY <3>1, HomeStays
  <2>2. ASSUME NEW p \in Requests, Works(p), accounts'[u].reset = p, job[p].user = u,
               At(p, {"forgot"}, "save"), job'[p].step = "ok"
        PROVE  Home(t, u)'
      BY <1>1, <2>2 DEF Works, Keeps, Finds, At, Home, Done
  <2> QED
      BY <1>1, <2>1, <2>2, ResetGrows
<1>2. ASSUME NEW q \in Requests, job'[q].kind = "reset", job'[q].step \in {"save", "ok"},
             NEW t, t = job'[q].token, NEW u, u = job'[q].user
      PROVE  Home(t, u)'
  <2>1. t # None
      BY <1>0, <1>2, NoneAssumption DEF ShapeInv
  <2>2. Home(t, u)
    <3>1. CASE job'[q] = job[q]
        BY <1>2, <3>1 DEF TokenInv
    <3>2. CASE Works(q) /\ job[q].kind = "reset" /\ job'[q].token = job[q].token
      <4>1. job'[q].step = "save" => u \in Ids /\ accounts[u].reset = t
          BY <1>2, <3>2 DEF Works, StepDoes
      <4>2. job'[q].step = "ok" => job[q].step = "save" /\ u = job[q].user
          BY <1>2, <3>2 DEF Works, StepDoes
      <4> QED
          BY <1>2, <2>1, <3>2, <4>1, <4>2 DEF TokenInv
    <3> QED
        BY <1>2, <3>1, <3>2, ResetMoves
  <2> QED
      BY <2>2, HomeStays
<1>3. ASSUME NEW q \in Requests, Done(q, {"reset"})', NEW u \in Ids,
             NEW t, t = job'[q].token, accounts'[u].reset = t
      PROVE  FALSE
  <2>1. job'[q].kind = "reset" /\ job'[q].step = "ok" /\ t # None
      BY <1>0, <1>3, NoneAssumption DEF ShapeInv, Done
  <2>2. \/ Done(q, {"reset"}) /\ job'[q] = job[q]
        \/ /\ Works(q) /\ job[q].kind = "reset" /\ job[q].step = "save" /\ job[q].token = t
           /\ accounts'[job[q].user].reset = None
      BY <1>3, <2>1, ResetMoves DEF Done, Works, StepDoes
  <2>3. \E v : Home(t, v) /\ (v = u => ~(accounts'[u].reset = accounts[u].reset))
    <3>1. CASE Done(q, {"reset"}) /\ job'[q] = job[q]
        BY <1>3, <3>1 DEF TokenInv, Done
    <3>2. CASE /\ Works(q) /\ job[q].kind = "reset" /\ job[q].step = "save" /\ job[q].token = t
               /\ accounts'[job[q].user].reset = None
      <4>1. Home(t, job[q].user)
          BY <3>2 DEF TokenInv
      <4>2. job[q].user # u
          BY <1>3, <2>1, <3>2
      <4> QED
          BY <4>1, <4>2
    <3> QED
        BY <2>2, <3>1, <3>2
  <2>4. CASE accounts'[u].reset = accounts[u].reset
    <3>1. Home(t, u)
        BY <1>3, <2>1, <2>4 DEF TokenInv
    <3> QED
        BY <2>3, <2>4, <3>1, HomeUnique
  <2>5. ASSUME NEW p \in Requests, t = p, At(p, {"forgot"}, "save")
        PROVE  FALSE
      BY <2>3, <2>5, OwnersAssumption DEF Home, Done, At
  <2> QED
      BY <1>3, <2>1, <2>4, <2>5, ResetGrows
<1>4. ASSUME NEW r \in Requests, NEW q \in past'[r], Done(q, {"reset"})',
             job'[r].kind = "reset", job'[r].token = job'[q].token
      PROVE  job'[r].step \notin {"save", "ok"}
  <2>1. q \in Requests /\ job'[q] = job[q] /\ (q \in past[r] \/ Arrive(r)) /\ Done(q, {"reset"})
      BY <1>4, PastOf DEF Done
  <2>2. CASE Arrive(r)
      BY <1>4, <2>2, ArriveDoes
  <2>3. CASE q \in past[r] /\ job'[r] = job[r]
      BY <1>4, <2>1, <2>3 DEF TokenInv
  <2>4. CASE q \in past[r] /\ Works(r) /\ job[r].kind = "reset" /\ job'[r].token = job[r].token
    <3>1. job[r].step # "save"
        BY <1>4, <2>1, <2>4 DEF TokenInv
    <3>2. job'[r].step # "ok"
        BY <2>4, <3>1 DEF Works, StepDoes
    <3>3. job'[r].step = "save" =>
              job'[r].user \in Ids /\ accounts[job'[r].user].reset = job[q].token
        BY <1>4, <2>1, <2>4 DEF Works, StepDoes
    <3> QED
        BY <2>1, <3>2, <3>3 DEF TokenInv
  <2> QED
      BY <1>4, <2>1, <2>2, <2>3, <2>4, ResetMoves
<1> QED
    BY <1>1, <1>2, <1>3, <1>4 DEF TokenInv

-----------------------------------------------------------------------------
(* E-mails, users without an account, inactive users                       *)

\* An account that is live after a step was live before, or its registration has just made it.
LEMMA LiveGrows ==
    ASSUME TypeOK, ShapeInv, [Next]_vars, NEW u \in Ids, Live(u)'
    PROVE  \/ Live(u) /\ accounts'[u].email = accounts[u].email
           \/ /\ u \in Requests /\ Works(u) /\ At(u, {"register"}, "account")
              /\ job'[u].step = "token" /\ accounts'[u].email = job[u].email
<1>1. ASSUME NEW p \in Requests, Arrive(p)
      PROVE  accounts' = accounts
    BY <1>1, ArriveDoes DEF stored
<1>2. ASSUME NEW p \in Requests, Works(p)
      PROVE  \/ Live(u) /\ accounts'[u].email = accounts[u].email
             \/ /\ u = p /\ At(u, {"register"}, "account")
                /\ job'[u].step = "token" /\ accounts'[u].email = job[u].email
  <2>1. AccountDoes(p, u)
      BY <1>2 DEF Works
  <2> QED
      BY <2>1 DEF AccountDoes, SameAccount, Live
<1> QED
    BY <1>1, <1>2, NextSplits DEF SameAccount, Live

LEMMA EmailStep ==
    ASSUME TypeOK, ShapeInv, PastInv, RegisterInv, EmailInv, [Next]_vars
    PROVE  EmailInv'
<1> SUFFICES ASSUME NEW q \in Requests, job'[q].kind = "register",
                    job'[q].step \in {"name", "user", "account"},
                    NEW u \in Ids, Live(u)', accounts'[u].email = job'[q].email
             PROVE  u \in Requests /\ Overlap(q, u)'
    BY DEF EmailInv
<1>1. \/ job'[q] = job[q]
      \/ Works(q)
  <2>1. ASSUME NEW p \in Requests, Arrive(p)
        PROVE  job'[q] = job[q]
      BY <2>1, ArriveDoes
  <2> QED
      BY <2>1, NextSplits DEF Works, Keeps
<1>2. /\ job[q].kind = "register" /\ job'[q].email = job[q].email
      /\ job[q].step \in {"name", "user", "account"} \/ ~Taken(job[q].email)
      /\ job[q].step # "idle"
    BY <1>1, NoneAssumption DEF Works, Keeps, StepDoes, ShapeInv, Kinds
<1>3. CASE Live(u) /\ accounts'[u].email = accounts[u].email
  <2>1. Taken(job[q].email)
      BY <1>2, <1>3 DEF Taken
  <2>2. u \in Requests /\ Overlap(q, u)
      BY <1>2, <1>3, <2>1 DEF EmailInv
  <2>3. job[u].step # "idle"
      BY <1>3, <2>2 DEF RegisterInv, Live
  <2> QED
      BY <1>2, <2>2, <2>3, OverlapStays
<1>4. CASE /\ u \in Requests /\ Works(u) /\ At(u, {"register"}, "account")
           /\ job'[u].step = "token"
  <2>1. u # q /\ job'[q] = job[q] /\ Running(u) /\ past' = past
      BY <1>4 DEF Works, Keeps
  <2>2. Running(q)
      BY <2>1 DEF Running, Over
  <2> QED
      BY <1>4, <2>1, <2>2, RunningNotPast DEF Overlap
<1> QED
    BY <1>3, <1>4, LiveGrows

LEMMA StrayStep ==
    ASSUME TypeOK, ShapeInv, PastInv, RegisterInv, DeletionInv, EmailInv, StrayInv, [Next]_vars
    PROVE  StrayInv'
<1> SUFFICES ASSUME NEW u \in Ids, Exists(u)'
             PROVE  /\ accounts'[u].state = "deleted" =>
                           \E q \in Requests : job'[q].kind = "delete" /\ job'[q].user = u
                                               /\ job'[q].step \in {"user", "failed"}
                    /\ accounts'[u].state = "none" =>
                           /\ u \in Requests
                           /\ \/ job'[u].step \in {"account", "failed"}
                              \/ \E r \in Requests \ {u} :
                                    Overlap(u, r)' /\ job'[r].kind = "register"
                                                   /\ job'[r].email = job'[u].email
    BY DEF StrayInv
<1>1. \/ Exists(u)
      \/ /\ u \in Requests /\ At(u, {"register"}, "user") /\ job'[u].step = "account"
  <2>1. ASSUME NEW p \in Requests, Arrive(p)
        PROVE  users' = users
      BY <2>1, ArriveDoes DEF stored
  <2>2. ASSUME NEW p \in Requests, Works(p)
        PROVE  \/ Exists(u)
               \/ /\ u \in Requests /\ At(u, {"register"}, "user") /\ job'[u].step = "account"
    <3>1. UserDoes(p, u)
        BY <2>2 DEF Works
    <3> QED
        BY <3>1 DEF UserDoes, Exists
  <2> QED
      BY <2>1, <2>2, NextSplits DEF Exists
<1>2. ASSUME accounts'[u].state = "deleted"
      PROVE  \E q \in Requests : job'[q].kind = "delete" /\ job'[q].user = u
                                 /\ job'[q].step \in {"user", "failed"}
  <2>1. CASE accounts[u].state = "deleted"
    <3>1. Exists(u)
        BY <1>1, <2>1 DEF RegisterInv, At
    <3>2. PICK q \in Requests : job[q].kind = "delete" /\ job[q].user = u
                                /\ job[q].step \in {"user", "failed"}
        BY <2>1, <3>1 DEF StrayInv
    <3>3. ASSUME NEW p \in Requests, Arrive(p)
          PROVE  job'[q] = job[q]
        BY <3>2, <3>3, ArriveDoes
    <3>4. ASSUME NEW p \in Requests, Works(p)
          PROVE  /\ job'[q].kind = "delete" /\ job'[q].user = u
                 /\ job'[q].step \in {"user", "failed"}
      <4>1. CASE p # q
          BY <3>2, <3>4, <4>1 DEF Works, Keeps
      <4>2. CASE p = q
        <5>1. job[q].step = "user" /\ job'[q].kind = "delete" /\ job'[q].user = u
            BY <3>2, <3>4, <4>2 DEF Works, Keeps, Running, Over, Finds
        <5>2. job'[q].step \in {"ok", "failed"}
              /\ (job'[q].step = "ok" => users'[u].state = "deleted")
            BY <3>2, <3>4, <4>2, <5>1 DEF Works, StepDoes
        <5> QED
            BY <5>1, <5>2 DEF Exists
      <4> QED
          BY <4>1, <4>2
    <3> QED
        BY <3>2, <3>3, <3>4, NextSplits
  <2>2. CASE accounts[u].state # "deleted"
    <3>1. ASSUME NEW p \in Requests, Arrive(p)
          PROVE  FALSE
        BY <1>2, <2>2, <3>1, ArriveDoes DEF stored
    <3>2. ASSUME NEW p \in Requests, Works(p)
          PROVE  job'[p].kind = "delete" /\ job'[p].user = u /\ job'[p].step = "user"
      <4>1. AccountDoes(p, u)
          BY <3>2 DEF Works
      <4> QED
          BY <1>2, <2>2, <3>2, <4>1 DEF AccountDoes, SameAccount, Live, At, Works, Keeps, Finds
    <3> QED
        BY <1>2, <2>2, <3>1, <3>2, NextSplits DEF SameAccount
  <2> QED
      BY <2>1, <2>2
<1>3. ASSUME accounts'[u].state = "none"
      PROVE  /\ u \in Requests
             /\ \/ job'[u].step \in {"account", "failed"}
                \/ \E r \in Requests \ {u} : Overlap(u, r)' /\ job'[r].kind = "register"
                                             /\ job'[r].email = job'[u].email
  <2>1. accounts[u].state = "none" /\ u \in Requests
      BY <1>3, MadeStays DEF RegisterInv, Ids
  <2>2. CASE ~Exists(u)
      BY <1>1, <2>1, <2>2
  <2>3. CASE Exists(u)
    <3>1. job[u].kind = "register" /\ job[u].step # "idle"
        BY <2>1, <2>3 DEF RegisterInv, Exists
    <3>2. ASSUME NEW r \in Requests \ {u}, Overlap(u, r), job[r].kind = "register",
                 job[r].email = job[u].email
          PROVE  Overlap(u, r)' /\ job'[r].kind = "register" /\ job'[r].email = job'[u].email
      <4>1. job[r].step # "idle"
          BY <3>2, NoneAssumption DEF ShapeInv, Kinds
      <4>2. ASSUME NEW p \in Requests, Arrive(p)
            PROVE  job'[r] = job[r] /\ job'[u] = job[u]
          BY <2>1, <3>1, <4>1, <4>2, ArriveDoes
      <4>3. ASSUME NEW p \in Requests, Works(p)
            PROVE  job'[r].kind = job[r].kind /\ job'[r].email = job[r].email
                   /\ job'[u].email = job[u].email
          BY <2>1, <3>2, <4>3 DEF Works, Keeps
      <4>4. Overlap(u, r)'
          BY <2>1, <3>1, <3>2, <4>1, OverlapStays
      <4> QED
          BY <3>2, <4>2, <4>3, <4>4, NextSplits
    <3>3. CASE \E r \in Requests \ {u} : Overlap(u, r) /\ job[r].kind = "register"
                                          /\ job[r].email = job[u].email
        BY <2>1, <3>2, <3>3
    <3>4. CASE job[u].step \in {"account", "failed"}
      <4>1. CASE job'[u] = job[u]
          BY <2>1, <3>4, <4>1
      <4>2. CASE Works(u)
        <5>1. job[u].step = "account"
            BY <3>4, <4>2 DEF Works, Keeps, Running, Over
        <5>2. \/ job'[u].step = "failed"
              \/ Taken(job[u].email)
            BY <1>3, <3>1, <4>2, <5>1 DEF Works, StepDoes
        <5>3. ASSUME NEW v \in Ids, Live(v), accounts[v].email = job[u].email
              PROVE  \E r \in Requests \ {u} : Overlap(u, r) /\ job[r].kind = "register"
                                                /\ job[r].email = job[u].email
          <6>1. v \in Requests /\ Overlap(u, v)
              BY <2>1, <3>1, <5>1, <5>3 DEF EmailInv
          <6>2. v # u /\ job[v].kind = "register" /\ job[v].email = job[u].email
              BY <2>1, <5>3, <6>1 DEF RegisterInv, Live
          <6> QED
              BY <6>1, <6>2
        <5> QED
            BY <2>1, <3>2, <5>2, <5>3 DEF Taken
      <4>3. ASSUME NEW p \in Requests, Arrive(p)
            PROVE  job'[u] = job[u]
          BY <2>1, <3>1, <4>3, ArriveDoes
      <4> QED
          BY <2>1, <4>1, <4>2, <4>3, NextSplits DEF Works, Keeps
    <3> QED
        BY <2>1, <2>3, <3>3, <3>4 DEF StrayInv
  <2> QED
      BY <2>2, <2>3
<1> QED
    BY <1>2, <1>3

LEMMA InactiveStep ==
    ASSUME TypeOK, ShapeInv, PastInv, InactiveInv, [Next]_vars
    PROVE  InactiveInv'
<1> SUFFICES ASSUME NEW q \in Requests, job'[q].kind = "reactivate",
                    users'[job'[q].user].state = "inactive"
             PROVE  \E r \in Requests \ past'[q] : job'[r].kind = "deactivate"
                                                   /\ job'[r].user = job'[q].user
    BY DEF InactiveInv
<1>1. ~Arrive(q)
    BY ArriveDoes DEF Admitted, stored, BearerKinds
<1>2. /\ job[q].kind = "reactivate" /\ job[q].user = job'[q].user /\ past'[q] = past[q]
  <2>1. ASSUME NEW p \in Requests, Arrive(p)
        PROVE  job'[q] = job[q] /\ past'[q] = past[q]
      BY <1>1, <2>1, ArriveDoes
  <2>2. ASSUME NEW p \in Requests, Works(p)
        PROVE  /\ job[q].kind = "reactivate" /\ job[q].user = job'[q].user /\ past'[q] = past[q]
      BY <2>2 DEF Works, Keeps, Finds
  <2> QED
      BY <2>1, <2>2, NextSplits
<1>3. job[q].user \in Ids
    BY <1>2 DEF ShapeInv, BearerKinds
<1>4. CASE users[job[q].user].state = "inactive"
  <2>1. PICK r \in Requests \ past[q] : job[r].kind = "deactivate" /\ job[r].user = job[q].user
      BY <1>2, <1>4 DEF InactiveInv
  <2>2. job[r].step # "idle"
      BY <2>1, NoneAssumption DEF ShapeInv, Kinds
  <2>3. ASSUME NEW p \in Requests, Arrive(p)
        PROVE  job'[r] = job[r]
      BY <2>2, <2>3, ArriveDoes
  <2>4. ASSUME NEW p \in Requests, Works(p)
        PROVE  job'[r].kind = job[r].kind /\ job'[r].user = job[r].user
      BY <2>1, <2>4 DEF Works, Keeps, Finds
  <2> QED
      BY <1>2, <2>1, <2>3, <2>4, NextSplits
<1>5. CASE users[job[q].user].state # "inactive"
  <2>1. PICK p \in Requests : Works(p)
      BY <1>2, <1>5, NextSplits, ArriveDoes DEF stored
  <2>2. job[p].kind = "deactivate" /\ job[p].user = job[q].user
      BY <1>2, <1>3, <1>5, <2>1 DEF Works, UserDoes
  <2>3. p \notin past[q] /\ job'[p].kind = job[p].kind /\ job'[p].user = job[p].user
      BY <2>1, <2>2, RunningNotPast DEF Works, Keeps, Finds
  <2> QED
      BY <1>2, <2>2, <2>3
<1> QED
    BY <1>4, <1>5

-----------------------------------------------------------------------------
(* The invariant                                                           *)

LEMMA IdleFields ==
    /\ Idle \in Job /\ Idle.kind = None /\ Idle.step = "idle" /\ Idle.user = None
    /\ Idle.found = {}
BY DEF Idle, Job, Steps

\* The owner u as it is at the start.
LEMMA OwnersStart ==
    ASSUME NEW u \in Owners
    PROVE  /\ [state |-> "active", name |-> NameOf[u], profile |-> None] \in User
           /\ [NoAccount EXCEPT !.state = "live", !.email = EmailOf[u],
                                !.password = u, !.reset = u, !.deletion = u] \in Account
BY OwnersAssumption DEF User, Account, NoAccount, Ids

LEMMA StoredAtFirst ==
    ASSUME Init, NEW u \in Ids
    PROVE  /\ users[u] \in User /\ accounts[u] \in Account
           /\ u \in Owners => /\ users[u].state = "active" /\ accounts[u].state = "live"
                              /\ accounts[u].email # None /\ accounts[u].password = u
                              /\ accounts[u].reset = u
           /\ u \notin Owners => /\ users[u].state = "none" /\ accounts[u].state = "none"
                                 /\ accounts[u].reset = None /\ sessions[u] = "none"
<1>1. CASE u \in Owners
  <2>1. EmailOf[u] # None
      BY <1>1, OwnersAssumption, NoneAssumption
  <2> QED
      BY <1>1, <2>1, OwnersStart DEF Init, Ids, NoAccount
<1>2. CASE u \notin Owners
    BY <1>2, NoAccountType DEF Init, Ids, NoUser, NoAccount
<1> QED
    BY <1>1, <1>2

LEMMA AccountsInit == Init => AccountsInv
<1> SUFFICES ASSUME Init
             PROVE  AccountsInv
    OBVIOUS
<1>1. \A q \in Requests : job[q] = Idle /\ past[q] = {}
    BY DEF Init
<1>2. job \in [Requests -> Job] /\ past \in [Requests -> SUBSET Requests]
    BY IdleFields DEF Init
<1>3. users \in [Ids -> User] /\ accounts \in [Ids -> Account]
  <2>1. users = [u \in Ids |-> users[u]] /\ accounts = [u \in Ids |-> accounts[u]]
      BY DEF Init
  <2> QED
      BY <2>1, StoredAtFirst
<1>4. sessions \in [Ids -> Session] /\ data \in [Ids -> SUBSET Collections]
    BY DEF Init, Session
<1>5. \A q \in Requests : job[q].kind \notin Kinds /\ job[q].step = "idle"
    BY <1>1, IdleFields, NoneAssumption
<1>6. \A q \in Requests : q \in Ids /\ q \notin Owners
    BY OwnersAssumption DEF Ids
<1>7. TypeOK
  <2>1. \A u \in Ids : Live(u) => accounts[u].email # None /\ accounts[u].password # None
    <3> SUFFICES ASSUME NEW u \in Ids, Live(u)
                 PROVE  accounts[u].email # None /\ accounts[u].password # None
        OBVIOUS
    <3>1. u \in Owners
        BY StoredAtFirst DEF Live
    <3>2. u # None
        BY NoneAssumption
    <3> QED
        BY <3>1, <3>2, StoredAtFirst
  <2>2. expired = {} /\ failuresLeft = MaxFailures
      BY Zenon DEF Init
  <2>3. expired \subseteq Ids /\ failuresLeft \in 0..MaxFailures
      BY <2>2, FailuresAssumption
  <2> QED
      BY <1>2, <1>3, <1>4, <2>1, <2>3 DEF TypeOK
<1>8. ShapeInv /\ PastInv
    BY <1>1, <1>5, IdleFields DEF ShapeInv, PastInv, Kinds, BearerKinds
<1>9. RegisterInv /\ SessionInv
    BY <1>5, <1>6, StoredAtFirst DEF RegisterInv, SessionInv, Kinds, Live, Ids
<1>10. GoneInv /\ DeletionInv /\ EmailInv /\ InactiveInv /\ LastPasswordStands
  <2>1. GoneInv
      BY <1>1 DEF GoneInv
  <2>2. DeletionInv /\ EmailInv /\ InactiveInv
      BY <1>5 DEF DeletionInv, EmailInv, InactiveInv, Kinds
  <2>3. LastPasswordStands
      BY <1>5 DEF LastPasswordStands, Done
  <2> QED
      BY <2>1, <2>2, <2>3
<1>11. TokenInv
    BY <1>1, <1>5, <1>6, StoredAtFirst DEF TokenInv, Home, Done, Kinds
<1>12. StrayInv
    BY StoredAtFirst DEF StrayInv, Exists
<1> QED
    BY <1>7, <1>8, <1>9, <1>10, <1>11, <1>12 DEF AccountsInv

LEMMA AccountsStep ==
    ASSUME AccountsInv, [Next]_vars
    PROVE  AccountsInv'
<1> USE DEF AccountsInv
<1>1. TypeOK' /\ ShapeInv' /\ PastInv'
    BY TypeStep, PastStep
<1>2. RegisterInv' /\ SessionInv' /\ GoneInv' /\ DeletionInv'
    BY RegisterStep, SessionStep, GoneStep, DeletionStep
<1>3. TokenInv' /\ EmailInv' /\ StrayInv' /\ InactiveInv' /\ LastPasswordStands'
    BY TokenStep, EmailStep, StrayStep, InactiveStep, PasswordStep
<1> QED
    BY <1>1, <1>2, <1>3

\* The inductive invariant of users, accounts, sessions and tokens: everything below follows
\* from it.  It is about what the handlers of the auth module read before each of their awaits.
THEOREM AccountsInvariant == Spec => []AccountsInv
<1>1. Init => AccountsInv
    BY AccountsInit
<1>2. AccountsInv /\ [Next]_vars => AccountsInv'
    BY AccountsStep
<1> QED
    BY <1>1, <1>2, PTL DEF Spec

-----------------------------------------------------------------------------
(* What it is for                                                          *)

\* Types: a live account has an e-mail and a password, and no request fails more often than
\* the bound allows.
THEOREM AccountTypes == Spec => []TypeOK
<1>1. AccountsInv => TypeOK
    BY DEF AccountsInv
<1> QED
    BY <1>1, AccountsInvariant, PTL

\* No save brings a password back that was replaced by a reset or a change before the
\* request that saves it arrived.
THEOREM PasswordsStand == Spec => []LastPasswordStands
<1>1. AccountsInv => LastPasswordStands
    BY DEF AccountsInv
<1> QED
    BY <1>1, AccountsInvariant, PTL

\* Two resets with one token that both set a password were at work at the same time: once a
\* reset was answered its token is of no use.
THEOREM TokensSpent == Spec => []TokenUsedOnce
<1>1. AccountsInv => TokenUsedOnce
    BY DEF AccountsInv, TokenInv, TokenUsedOnce, Overlap, Done
<1> QED
    BY <1>1, AccountsInvariant, PTL

\* What deleteAccount leaves behind when it was answered was made by a login, or by a service
\* that saved a document, while the deletion was at work.
THEOREM DeletionsComplete == Spec => []DeletionComplete
<1>1. ASSUME AccountsInv
      PROVE  DeletionComplete
  <2> SUFFICES ASSUME NEW q \in Requests, Done(q, {"delete"}), NEW u, u = job[q].user
               PROVE  /\ ~Exists(u) /\ ~Live(u)
                      /\ SessionsOf(u) # {} => \E r \in Requests : AlongWith(q, r, "login")
                      /\ "portfolio" \in data[u] => \E r \in Requests : AlongWith(q, r, "insert")
      BY DEF DeletionComplete, AlongWith
  <2>1. job[q].kind = "delete" /\ job[q].step = "ok" /\ DeletionOf(q, u)
      BY <1>1 DEF AccountsInv, DeletionInv, Done
  <2>2. users[u].state = "deleted" /\ accounts[u].state = "deleted"
      BY <2>1 DEF DeletionOf
  <2>3. \A s \in SessionsOf(u) : s \in Requests /\ AlongWith(q, s, "login")
      BY <2>1 DEF DeletionOf
  <2>4. "portfolio" \in data[u] => \E r \in Requests : AlongWith(q, r, "insert")
      BY <2>1 DEF DeletionOf
  <2> QED
      BY <2>2, <2>3, <2>4 DEF Exists, Live
<1> QED
    BY <1>1, AccountsInvariant, PTL

\* A user without an account is what a failure left, a registration that lost its e-mail to
\* another one, or the user of a deletion between its last two steps.
THEOREM StraysExplained == Spec => []NoStrayUsers
<1>1. ASSUME AccountsInv
      PROVE  NoStrayUsers
  <2> SUFFICES ASSUME NEW u \in Ids, Exists(u), ~Live(u)
               PROVE  \E q \in Requests :
                        \/ /\ job[q].kind = "delete" /\ job[q].user = u
                           /\ Running(q) \/ job[q].step = "failed"
                        \/ /\ q = u
                           /\ \/ Running(q) \/ job[q].step = "failed"
                              \/ \E r \in Requests \ {q} :
                                    /\ Overlap(q, r) /\ job[r].kind = "register"
                                    /\ job[r].email = job[q].email
      BY DEF NoStrayUsers
  <2>1. accounts[u].state \in {"none", "deleted"}
      BY <1>1 DEF AccountsInv, TypeOK, Account, Live
  <2>2. CASE accounts[u].state = "deleted"
      BY <1>1, <2>2 DEF AccountsInv, StrayInv, Running, Over
  <2>3. CASE accounts[u].state = "none"
      BY <1>1, <2>3 DEF AccountsInv, StrayInv, Running, Over
  <2> QED
      BY <2>1, <2>2, <2>3
<1> QED
    BY <1>1, AccountsInvariant, PTL

\* A deactivated user is active again only when a reactivation was admitted before the
\* deactivation was over: no profile update, login or registration brings it back.
THEOREM DeactivationStays == Spec => InactiveStays
<1>1. ASSUME AccountsInv, [Next]_vars, NEW u \in Ids, users[u].state = "inactive",
             users'[u].state = "active"
      PROVE  \E q \in Requests, r \in Requests :
                /\ job[q].kind = "reactivate" /\ job[q].user = u
                /\ job[r].kind = "deactivate" /\ job[r].user = u
                /\ Overlap(q, r)
  <2>1. TypeOK /\ ShapeInv /\ PastInv /\ InactiveInv /\ RegisterInv
      BY <1>1 DEF AccountsInv
  <2>2. PICK q \in Requests : Works(q)
      BY <1>1, <2>1, NextSplits, ArriveDoes DEF stored
  <2>3. job[q].kind = "reactivate" /\ job[q].user = u /\ Running(q)
    <3>1. UserDoes(q, u) /\ Running(q)
        BY <2>2 DEF Works, Keeps
    <3>2. At(q, {"register"}, "user") => users[q].state = "none"
        BY <2>1 DEF RegisterInv, At
    <3> QED
        BY <1>1, <3>1, <3>2 DEF UserDoes
  <2>4. PICK r \in Requests \ past[q] : job[r].kind = "deactivate" /\ job[r].user = u
      BY <1>1, <2>1, <2>3 DEF InactiveInv
  <2>5. q \notin past[r]
      BY <2>1, <2>3, RunningNotPast
  <2> QED
      BY <2>3, <2>4, <2>5 DEF Overlap
<1>2. AccountsInv /\ [Next]_vars =>
         [\A u \in Ids : users[u].state = "inactive" /\ users'[u].state = "active" =>
             \E q \in Requests, r \in Requests :
                /\ job[q].kind = "reactivate" /\ job[q].user = u
                /\ job[r].kind = "deactivate" /\ job[r].user = u
                /\ Overlap(q, r)]_vars
    BY <1>1
<1> QED
    BY <1>2, AccountsInvariant, PTL DEF Spec, InactiveStays
=============================================================================
