------------------------------- MODULE Accounts -------------------------------
(***************************************************************************)
(* Users, accounts, sessions and tokens under concurrent requests:         *)
(* registration, login, password reset and change, e-mail verification,    *)
(* deactivation and deletion, each split at its awaits on the database.    *)
(* The collections have no transactions; the indexes on user name and      *)
(* e-mail are unique.  Tokens and passwords are named by the request that  *)
(* made them, a user by the request that registered it.                    *)
(***************************************************************************)
EXTENDS Naturals

CONSTANTS
    Owners,         \* users that exist at the start
    Requests,       \* bound: requests, each made once
    Names, Emails,
    NameOf, EmailOf,    \* those of the owners
    None,
    MaxFailures     \* bound: requests cut off by an error or a dying process

ASSUME OwnersAssumption ==
    /\ Owners \cap Requests = {}
    /\ NameOf \in [Owners -> Names] /\ EmailOf \in [Owners -> Emails]
ASSUME FailuresAssumption == MaxFailures \in Nat

VARIABLES
    users, accounts,
    sessions,       \* by the login that made them; those of the owners by the owner
    data,           \* the collections in which a user has documents
    expired,        \* tokens whose time is over
    job,            \* what each request does
    past,           \* history: the requests that were over when it arrived
    failuresLeft

stored == <<users, accounts, sessions, data, expired>>
vars == <<stored, job, past, failuresLeft>>

-----------------------------------------------------------------------------
Ids == Owners \cup Requests

Collections == {"portfolio", "finance"}

User == [state : {"none", "active", "inactive", "deleted"}, name : Names \cup {None},
         profile : Ids \cup {None}]

Account == [state : {"none", "live", "deleted"}, email : Emails \cup {None},
            password : Ids \cup {None}, verified : BOOLEAN,
            verification : Ids \cup {None}, reset : Ids \cup {None},
            deletion : Ids \cup {None}]

Session == {"none", "active", "revoked", "deleted"}

NoUser == [state |-> "none", name |-> None, profile |-> None]
NoAccount == [state |-> "none", email |-> None, password |-> None, verified |-> FALSE,
              verification |-> None, reset |-> None, deletion |-> None]

\* What the client sends (name, email, token, password) and what the handler found.
Kinds == {"register", "login", "forgot", "reset", "verify", "change", "requestDeletion",
          "delete", "deactivate", "reactivate", "profile", "revoke", "revokeAll", "insert"}
ASSUME NoneAssumption == None \notin Ids \cup Names \cup Emails \cup Kinds

Over == {"ok", "refused", "failed"}
Steps == Over \cup {"idle", "email", "name", "user", "account", "token", "session", "load",
                    "save", "portfolio", "sessions", "purge"}
Job == [kind : Kinds \cup {None}, step : Steps, user : Ids \cup {None},
        email : Emails \cup {None}, name : Names \cup {None},
        token : Ids \cup {None}, seen : Ids \cup {None}, found : SUBSET Ids]

Idle == [kind |-> None, step |-> "idle", user |-> None, email |-> None, name |-> None,
         token |-> None, seen |-> None, found |-> {}]

Exists(u) == users[u].state \in {"active", "inactive"}
Live(u)   == accounts[u].state = "live"
OwnerOf(s) == IF s \in Owners THEN s ELSE job[s].user
SessionsOf(u) == {s \in Ids : sessions[s] \in {"active", "revoked"} /\ OwnerOf(s) = u}

\* Mutant: the strategy does not look at isActive.
AdmittedInactive(u) == Exists(u) /\ Live(u)

\* The strategies of access and refresh tokens: the user is active, the account exists.
Admitted(u) == users[u].state = "active" /\ Live(u)

Running(q) == job[q].step \notin Over \cup {"idle"}

\* q goes on at a step, or is over.
Go(q, step) == job' = [job EXCEPT ![q].step = step]
At(q, kinds, step) == job[q].kind \in kinds /\ job[q].step = step

-----------------------------------------------------------------------------
(* Arrival                                                                 *)

Public ==
    [kind : {"register"}, step : {"email"}, user : {None}, email : Emails, name : Names,
     token : {None}, seen : {None}, found : {{}}]
    \cup [kind : {"login"}, step : {"account"}, user : {None}, email : Emails, name : {None},
          token : Ids, seen : {None}, found : {{}}]
    \cup [kind : {"forgot"}, step : {"load"}, user : {None}, email : Emails, name : {None},
          token : {None}, seen : {None}, found : {{}}]
    \cup [kind : {"reset", "verify"}, step : {"load"}, user : {None}, email : {None},
          name : {None}, token : Ids, seen : {None}, found : {{}}]

\* Requests with an access token.
Bearer ==
    [kind : {"change", "delete"}, step : {"load"}, user : Ids, email : {None}, name : {None},
     token : Ids, seen : {None}, found : {{}}]
    \cup [kind : {"deactivate", "reactivate", "profile", "revokeAll", "insert",
                  "requestDeletion"},
          step : {"save"}, user : Ids, email : {None}, name : {None}, token : {None},
          seen : {None}, found : {{}}]
    \cup [kind : {"revoke"}, step : {"load"}, user : Ids, email : {None}, name : {None},
          token : Ids, seen : {None}, found : {{}}]

\* Tokens and passwords were made before they are used.
Made(t) == t \in Owners \/ (t \in Requests /\ job[t].step # "idle")

Arrive(q) ==
    /\ job[q] = Idle
    /\ \E r \in Public \cup Bearer :
          /\ r.token # None => Made(r.token)
          /\ r.user # None => Admitted(r.user)
          /\ job' = [job EXCEPT ![q] = r]
    /\ past' = [past EXCEPT ![q] = {r \in Requests : job[r].step \in Over}]
    /\ UNCHANGED <<stored, failuresLeft>>

-----------------------------------------------------------------------------
(* Registration                                                            *)

\* Mutant: the e-mail is not looked up.
CheckEmailNever(q) ==
    /\ At(q, {"register"}, "email")
    /\ Go(q, "name")
    /\ UNCHANGED <<stored, past, failuresLeft>>

Taken(email) == \E u \in Ids : Live(u) /\ accounts[u].email = email
NameTaken(name) == \E u \in Ids : Exists(u) /\ users[u].name = name

CheckEmail(q) ==
    /\ At(q, {"register"}, "email")
    /\ Go(q, IF Taken(job[q].email) THEN "refused" ELSE "name")
    /\ UNCHANGED <<stored, past, failuresLeft>>

CheckName(q) ==
    /\ At(q, {"register"}, "name")
    /\ Go(q, IF NameTaken(job[q].name) THEN "refused" ELSE "user")
    /\ UNCHANGED <<stored, past, failuresLeft>>

\* The unique index refuses what another registration saved since the check.
CreateUser(q) ==
    /\ At(q, {"register"}, "user")
    /\ IF NameTaken(job[q].name)
       THEN Go(q, "refused") /\ UNCHANGED users
       ELSE /\ users' = [users EXCEPT ![q] =
                             [state |-> "active", name |-> job[q].name, profile |-> None]]
            /\ Go(q, "account")
    /\ UNCHANGED <<accounts, sessions, data, expired, past, failuresLeft>>

CreateAccount(q) ==
    /\ At(q, {"register"}, "account")
    /\ IF Taken(job[q].email)
       THEN Go(q, "refused") /\ UNCHANGED accounts
       ELSE /\ accounts' = [accounts EXCEPT ![q] =
                                [NoAccount EXCEPT !.state = "live", !.email = job[q].email,
                                                  !.password = q]]
            /\ Go(q, "token")
    /\ UNCHANGED <<users, sessions, data, expired, past, failuresLeft>>

\* generateEmailVerificationToken, and the answer.
CreateVerification(q) ==
    /\ At(q, {"register"}, "token")
    /\ accounts' = [accounts EXCEPT ![q].verification = IF Live(q) THEN q ELSE @]
    /\ Go(q, "ok")
    /\ UNCHANGED <<users, sessions, data, expired, past, failuresLeft>>

-----------------------------------------------------------------------------
(* Login                                                                   *)

\* job.token is the password that was typed.
CheckPassword(q) ==
    /\ At(q, {"login"}, "account")
    /\ \/ /\ ~\E u \in Ids : Live(u) /\ accounts[u].email = job[q].email
                             /\ accounts[u].password = job[q].token
          /\ Go(q, "refused")
       \/ \E u \in Ids :
             /\ Live(u) /\ accounts[u].email = job[q].email
             /\ accounts[u].password = job[q].token
             /\ job' = [job EXCEPT ![q].step = "user", ![q].user = u]
    /\ UNCHANGED <<stored, past, failuresLeft>>

CheckActive(q) ==
    /\ At(q, {"login"}, "user")
    /\ Go(q, IF users[job[q].user].state = "active" THEN "session" ELSE "refused")
    /\ UNCHANGED <<stored, past, failuresLeft>>

\* The session is made, and tokens are given, for the user as it was read.
CreateSession(q) ==
    /\ At(q, {"login"}, "session")
    /\ sessions' = [sessions EXCEPT ![q] = "active"]
    /\ Go(q, "ok")
    /\ UNCHANGED <<users, accounts, data, expired, past, failuresLeft>>

-----------------------------------------------------------------------------
(* Passwords and tokens                                                    *)

\* An unknown e-mail is answered as if a mail had been sent.
LoadForReset(q) ==
    /\ At(q, {"forgot"}, "load")
    /\ \/ ~Taken(job[q].email) /\ Go(q, "ok")
       \/ \E u \in Ids :
             /\ Live(u) /\ accounts[u].email = job[q].email
             /\ job' = [job EXCEPT ![q].step = "save", ![q].user = u,
                                   ![q].seen = accounts[u].password]
    /\ UNCHANGED <<stored, past, failuresLeft>>

\* Mutant: the whole account is written back, not the changed fields.
TokenSavedWhole(q, u) ==
    accounts' = [accounts EXCEPT ![u].reset = q, ![u].password = job[q].seen]

\* save writes the fields that were set.
TokenSaved(q, u) == accounts' = [accounts EXCEPT ![u].reset = q]

\* save of a document that is gone throws.
SaveResetToken(q) ==
    LET u == job[q].user
    IN  /\ At(q, {"forgot"}, "save")
        /\ IF Live(u) THEN TokenSaved(q, u) /\ Go(q, "ok")
                      ELSE Go(q, "refused") /\ UNCHANGED accounts
        /\ UNCHANGED <<users, sessions, data, expired, past, failuresLeft>>

\* The account that has this token, and time left for it.
FindToken(q) ==
    LET field(u) == IF job[q].kind = "reset" THEN accounts[u].reset ELSE accounts[u].verification
        holders == {u \in Ids : Live(u) /\ field(u) = job[q].token
                                /\ job[q].token \notin expired}
    IN  /\ At(q, {"reset", "verify"}, "load")
        /\ \/ holders = {} /\ Go(q, "refused")
           \/ \E u \in holders : job' = [job EXCEPT ![q].step = "save", ![q].user = u]
        /\ UNCHANGED <<stored, past, failuresLeft>>

\* Mutant: the token is not unset.
ResetKeepsToken(q, u) == accounts' = [accounts EXCEPT ![u].password = q]

\* Whatever token is stored by now is unset.
Reset(q, u) == accounts' = [accounts EXCEPT ![u].password = q, ![u].reset = None]

Verified(u) == accounts' = [accounts EXCEPT ![u].verified = TRUE, ![u].verification = None]

SaveToken(q) ==
    LET u == job[q].user
    IN  /\ At(q, {"reset", "verify"}, "save")
        /\ \/ /\ Live(u)
              /\ IF job[q].kind = "reset" THEN Reset(q, u) ELSE Verified(u)
              /\ Go(q, "ok")
           \/ ~Live(u) /\ Go(q, "refused") /\ UNCHANGED accounts
        /\ UNCHANGED <<users, sessions, data, expired, past, failuresLeft>>

\* changePassword compares the password typed (job.token) with the one it read.
LoadForChange(q) ==
    LET u == job[q].user
    IN  /\ At(q, {"change"}, "load")
        /\ Go(q, IF Live(u) /\ accounts[u].password = job[q].token THEN "save" ELSE "refused")
        /\ UNCHANGED <<stored, past, failuresLeft>>

\* updatePassword: nothing is updated, and nobody told, when the account is gone.
SavePassword(q) ==
    LET u == job[q].user
    IN  /\ At(q, {"change"}, "save")
        /\ accounts' = [accounts EXCEPT ![u].password = IF Live(u) THEN q ELSE @]
        /\ Go(q, "ok")
        /\ UNCHANGED <<users, sessions, data, expired, past, failuresLeft>>

\* A token's hour or day is over.
Expire(t) ==
    /\ t \notin expired
    /\ \E u \in Ids : t \in {accounts[u].reset, accounts[u].verification, accounts[u].deletion}
    /\ expired' = expired \cup {t}
    /\ UNCHANGED <<users, accounts, sessions, data, job, past, failuresLeft>>

\* The nightly job unsets expired deletion tokens.
CleanupExpiredDeletionTokens ==
    /\ \E u \in Ids : accounts[u].deletion \in expired
    /\ accounts' = [u \in Ids |-> IF accounts[u].deletion \in expired
                                  THEN [accounts[u] EXCEPT !.deletion = None] ELSE accounts[u]]
    /\ UNCHANGED <<users, sessions, data, expired, job, past, failuresLeft>>

-----------------------------------------------------------------------------
(* The user's own record, sessions and data                                *)

\* findByIdAndUpdate throws when there is no such user.
UpdateUser(q) ==
    LET u == job[q].user
    IN  /\ At(q, {"deactivate", "reactivate", "profile"}, "save")
        /\ IF Exists(u)
           THEN /\ users' = [users EXCEPT
                       ![u].state = CASE job[q].kind = "deactivate" -> "inactive"
                                      [] job[q].kind = "reactivate" -> "active"
                                      [] OTHER -> @,
                       ![u].profile = IF job[q].kind = "profile" THEN q ELSE @]
                /\ Go(q, "ok")
           ELSE Go(q, "refused") /\ UNCHANGED users
        /\ UNCHANGED <<accounts, sessions, data, expired, past, failuresLeft>>

\* job.token is the session to revoke.
FindSession(q) ==
    /\ At(q, {"revoke"}, "load")
    /\ Go(q, IF job[q].token \in SessionsOf(job[q].user) THEN "save" ELSE "refused")
    /\ UNCHANGED <<stored, past, failuresLeft>>

Revoke(q) ==
    LET chosen == IF job[q].kind = "revoke" THEN {job[q].token} ELSE SessionsOf(job[q].user)
    IN  /\ At(q, {"revoke", "revokeAll"}, "save")
        /\ sessions' = [s \in Ids |-> IF s \in chosen /\ sessions[s] = "active" THEN "revoked"
                                      ELSE sessions[s]]
        /\ Go(q, "ok")
        /\ UNCHANGED <<users, accounts, data, expired, past, failuresLeft>>

\* Any service that saves a document of the user.
Insert(q) ==
    /\ At(q, {"insert"}, "save")
    /\ \E c \in Collections : data' = [data EXCEPT ![job[q].user] = @ \cup {c}]
    /\ Go(q, "ok")
    /\ UNCHANGED <<users, accounts, sessions, expired, past, failuresLeft>>

-----------------------------------------------------------------------------
(* Deletion                                                                *)

GenerateDeletionToken(q) ==
    LET u == job[q].user
    IN  /\ At(q, {"requestDeletion"}, "save")
        /\ accounts' = [accounts EXCEPT ![u].deletion = IF Live(u) THEN q ELSE @]
        /\ Go(q, "user")
        /\ UNCHANGED <<users, sessions, data, expired, past, failuresLeft>>

MailDeletionToken(q) ==
    /\ At(q, {"requestDeletion"}, "user")
    /\ Go(q, IF Exists(job[q].user) /\ Live(job[q].user) THEN "ok" ELSE "refused")
    /\ UNCHANGED <<stored, past, failuresLeft>>

VerifyDeletionToken(q) ==
    LET u == job[q].user
    IN  /\ At(q, {"delete"}, "load")
        /\ Go(q, IF /\ Exists(u) /\ Live(u) /\ accounts[u].deletion = job[q].token
                    /\ job[q].token \notin expired
                 THEN "portfolio" ELSE "refused")
        /\ UNCHANGED <<stored, past, failuresLeft>>

DeletePortfolio(q) ==
    /\ At(q, {"delete"}, "portfolio")
    /\ data' = [data EXCEPT ![job[q].user] = @ \ {"portfolio"}]
    /\ Go(q, "sessions")
    /\ UNCHANGED <<users, accounts, sessions, expired, past, failuresLeft>>

\* Mutant: only active sessions are listed.
FoundActive(u) == {s \in SessionsOf(u) : sessions[s] = "active"}

Found(u) == SessionsOf(u)

ListSessions(q) ==
    /\ At(q, {"delete"}, "sessions")
    /\ job' = [job EXCEPT ![q].step = "purge", ![q].found = Found(job[q].user)]
    /\ UNCHANGED <<stored, past, failuresLeft>>

DeleteSession(q) ==
    /\ At(q, {"delete"}, "purge")
    /\ \E s \in job[q].found :
          /\ sessions' = [sessions EXCEPT ![s] = "deleted"]
          /\ job' = [job EXCEPT ![q].found = @ \ {s}]
    /\ UNCHANGED <<users, accounts, data, expired, past, failuresLeft>>

\* Mutant: the document stays, without its contents.
Blanked == [NoAccount EXCEPT !.state = "live"]

Deleted == [NoAccount EXCEPT !.state = "deleted"]

DeleteAccount(q) ==
    /\ At(q, {"delete"}, "purge") /\ job[q].found = {}
    /\ accounts' = [accounts EXCEPT ![job[q].user] = Deleted]
    /\ Go(q, "user")
    /\ UNCHANGED <<users, sessions, data, expired, past, failuresLeft>>

DeleteUser(q) ==
    /\ At(q, {"delete"}, "user")
    /\ users' = [users EXCEPT ![job[q].user] = [NoUser EXCEPT !.state = "deleted"]]
    /\ Go(q, "ok")
    /\ UNCHANGED <<accounts, sessions, data, expired, past, failuresLeft>>

-----------------------------------------------------------------------------
\* The database fails, or the process dies, before the request's next step.
Fail(q) ==
    /\ Running(q)
    /\ failuresLeft > 0 /\ failuresLeft' = failuresLeft - 1
    /\ Go(q, "failed")
    /\ UNCHANGED <<stored, past>>

\* The owners have asked for a reset and for their deletion, and are logged in.
Init ==
    /\ users = [u \in Ids |-> IF u \in Owners
                              THEN [state |-> "active", name |-> NameOf[u], profile |-> None]
                              ELSE NoUser]
    /\ accounts = [u \in Ids |-> IF u \in Owners
                     THEN [NoAccount EXCEPT !.state = "live", !.email = EmailOf[u],
                                            !.password = u, !.reset = u, !.deletion = u]
                     ELSE NoAccount]
    /\ sessions = [i \in Ids |-> IF i \in Owners THEN "active" ELSE "none"]
    /\ data = [u \in Ids |-> IF u \in Owners THEN Collections ELSE {}]
    /\ expired = {}
    /\ job = [q \in Requests |-> Idle]
    /\ past = [q \in Requests |-> {}]
    /\ failuresLeft = MaxFailures

Next ==
    \/ \E q \in Requests :
          \/ Arrive(q) \/ Fail(q)
          \/ CheckEmail(q) \/ CheckName(q) \/ CreateUser(q) \/ CreateAccount(q)
          \/ CreateVerification(q)
          \/ CheckPassword(q) \/ CheckActive(q) \/ CreateSession(q)
          \/ LoadForReset(q) \/ SaveResetToken(q) \/ FindToken(q) \/ SaveToken(q)
          \/ LoadForChange(q) \/ SavePassword(q)
          \/ UpdateUser(q) \/ FindSession(q) \/ Revoke(q) \/ Insert(q)
          \/ GenerateDeletionToken(q) \/ MailDeletionToken(q) \/ VerifyDeletionToken(q)
          \/ DeletePortfolio(q) \/ ListSessions(q) \/ DeleteSession(q) \/ DeleteAccount(q)
          \/ DeleteUser(q)
    \/ \E t \in Ids : Expire(t)
    \/ CleanupExpiredDeletionTokens

Spec == Init /\ [][Next]_vars

-----------------------------------------------------------------------------
(* Properties                                                              *)

TypeOK ==
    /\ users \in [Ids -> User] /\ accounts \in [Ids -> Account]
    /\ \A u \in Ids : Live(u) => accounts[u].email # None /\ accounts[u].password # None
    /\ sessions \in [Ids -> Session] /\ data \in [Ids -> SUBSET Collections]
    /\ expired \subseteq Ids
    /\ job \in [Requests -> Job] /\ past \in [Requests -> SUBSET Requests]
    /\ failuresLeft \in 0..MaxFailures

Overlap(q, r) == q \notin past[r] /\ r \notin past[q]
Done(q, kinds) == job[q].kind \in kinds /\ job[q].step = "ok"

\* A password set by an answered request is in force until a request that was not over
\* before it sets another: no save brings an older one back.
LastPasswordStands ==
    \A u \in Ids, r \in Requests :
        Live(u) /\ Done(r, {"reset", "change"}) /\ job[r].user = u
        => accounts[u].password \in {q \in Requests : q = r \/ q \notin past[r]}

\* A reset token sets one password, or two whose requests overlapped.
TokenUsedOnce ==
    \A q, r \in Requests :
        q # r /\ Done(q, {"reset"}) /\ Done(r, {"reset"}) /\ job[q].token = job[r].token
        => Overlap(q, r)

\* A user without an account (who holds the name, and can neither log in nor register) is
\* what a failure leaves, a registration that raced for the e-mail, or a deletion at work.
NoStrayUsers ==
    \A u \in Ids : Exists(u) /\ ~Live(u) =>
        \E q \in Requests :
            \/ job[q].kind = "delete" /\ job[q].user = u /\ (Running(q) \/ job[q].step = "failed")
            \/ /\ q = u
               /\ \/ Running(q) \/ job[q].step = "failed"
                  \/ \E r \in Requests \ {q} : Overlap(q, r) /\ job[r].kind = "register"
                                               /\ job[r].email = job[q].email

\* When a deletion was answered, nothing is left of the user, the account, the sessions and
\* the portfolio but what a request made that was at work at the same time.
DeletionComplete ==
    \A q \in Requests : Done(q, {"delete"}) =>
        LET u == job[q].user
            busy(kind) == \E r \in Requests : job[r].kind = kind /\ job[r].user = u
                                              /\ Overlap(q, r)
        IN  /\ ~Exists(u) /\ ~Live(u)
            /\ SessionsOf(u) # {} => busy("login")
            /\ "portfolio" \in data[u] => busy("insert")

\* Only a reactivation that was admitted before the deactivation brings a user back.
InactiveStays ==
    [][\A u \in Ids : users[u].state = "inactive" /\ users'[u].state = "active" =>
          \E q \in Requests, r \in Requests :
              /\ job[q].kind = "reactivate" /\ job[q].user = u
              /\ job[r].kind = "deactivate" /\ job[r].user = u
              /\ Overlap(q, r)]_vars
=============================================================================
