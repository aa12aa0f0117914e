------------------------------- MODULE Documents -------------------------------
(***************************************************************************)
(* The collections of a user: the portfolio, the categories of the         *)
(* finances, the profile and the preferences.  They share their operations *)
(* and differ in what they keep: dates in order, a slug nobody else has,   *)
(* an order among the user's categories, one document a user.  Texts,      *)
(* paging and what a post's publication shows are left out.                *)
(***************************************************************************)
EXTENDS Naturals, FiniteSets, Sequences, FiniteSetsExt

CONSTANTS
    Users,
    Requests,       \* bound: requests, each made once
    Stored,         \* documents at the start
    Dates,          \* bound: the dates that requests bring
    Orders,         \* bound: the orders that requests bring
    Bases,          \* what titles become as slugs
    MaxAttempts,    \* to find a free slug
    None

ASSUME DocumentsAssumption ==
    /\ Dates \subseteq Nat /\ Orders \subseteq Nat /\ MaxAttempts \in Nat \ {0}
    /\ None \notin Requests \cup Stored \cup Users \cup Bases /\ Requests \cap Stored = {}
    /\ IsFiniteSet(Requests) /\ IsFiniteSet(Stored)

VARIABLES
    collection,     \* the one looked at: collections do not meet
    docs,           \* by the request that made them
    job

vars == <<collection, docs, job>>

-----------------------------------------------------------------------------
(* What the services offer and the controllers route                       *)

Crud == {"create", "update", "remove", "bulkDelete"}

Projects == Crud \cup {"restore", "reorder", "deleteAll"}
Skills == Crud \cup {"reorder", "deleteAll"}
Contacts == Crud \cup {"reorder", "deleteAll"}
Testimonials == Crud \cup {"reorder", "deleteAll"}
Companies == Crud \cup {"deleteAll"}
Experiences == Crud \cup {"deleteAll"}
Education == Crud \cup {"deleteAll"}
Certifications == Crud \cup {"deleteAll"}
Blog == Crud \cup {"publish", "deleteAll"}
ExpenseCategories == Crud \cup {"reorder", "restore"}
IncomeCategories == Crud \cup {"reorder", "restore"}
Profile == {"get", "upsert", "deleteAll"}
Preferences == {"get", "change", "upsert", "delete"}
NotificationPreferences == {"get", "change", "upsert", "delete"}

\* The routes of a controller, in the order of its methods, that change something.
Route(method, path, op) == [method |-> method, path |-> path, op |-> op]

CrudRoutes == <<Route("POST", <<>>, "create"), Route("PATCH", <<":id">>, "update"),
                Route("POST", <<"bulk-delete">>, "bulkDelete"),
                Route("DELETE", <<":id">>, "remove")>>
Reorder == Route("PATCH", <<"reorder">>, "reorder")
Publish == Route("PATCH", <<":id", "publish">>, "publish")

ProjectsRoutes == Append(CrudRoutes, Reorder)
SkillsRoutes == Append(CrudRoutes, Reorder)
ContactsRoutes == Append(CrudRoutes, Reorder)
TestimonialsRoutes == Append(CrudRoutes, Reorder)
ExpenseRoutes == Append(CrudRoutes, Reorder)
IncomeRoutes == Append(CrudRoutes, Reorder)
CompaniesRoutes == CrudRoutes
ExperiencesRoutes == CrudRoutes
EducationRoutes == CrudRoutes
CertificationsRoutes == CrudRoutes
BlogRoutes == Append(CrudRoutes, Publish)
PublicRoutes == <<Route("GET", <<"profile", ":id">>, "get")>>
ProfileRoutes == <<Route("GET", <<>>, "get"), Route("PATCH", <<>>, "upsert"),
                   Route("POST", <<"avatar">>, "upsert"), Route("POST", <<"resume">>, "upsert")>>
SettingsRoutes == <<Route("GET", <<"preferences">>, "get"), Route("PATCH", <<"preferences">>, "change"),
                    Route("POST", <<"preferences", "reset">>, "upsert")>>
NotificationsRoutes == <<Route("GET", <<"preferences">>, "get"), Route("PATCH", <<"preferences">>, "change"),
                         Route("POST", <<"preferences", "reset">>, "upsert")>>
EmailRoutes == <<Route("GET", <<>>, "get"), Route("PATCH", <<>>, "change"),
                 Route("POST", <<"reset">>, "upsert")>>

\* The first route that fits answers, so that PATCH reorder is an update of the id "reorder".
Fits(r, s) ==
    /\ r.method = s.method /\ Len(r.path) = Len(s.path)
    /\ \A i \in DOMAIN r.path : r.path[i] \in {":id", s.path[i]}

Routed(routes) ==
    {routes[i].op : i \in {i \in DOMAIN routes : \A j \in 1..(i - 1) : ~Fits(routes[j], routes[i])}}

\* The deletion of an account calls deleteAll.
Collection(service, routes, keeps) ==
    [ops |-> service \cap (Routed(routes) \cup {"deleteAll"}), keeps |-> keeps]

Collections ==
    [projects       |-> Collection(Projects, ProjectsRoutes, {}),
     skills         |-> Collection(Skills, SkillsRoutes, {}),
     contacts       |-> Collection(Contacts, ContactsRoutes, {}),
     testimonials   |-> Collection(Testimonials, TestimonialsRoutes, {}),
     companies      |-> Collection(Companies, CompaniesRoutes, {}),
     experiences    |-> Collection(Experiences, ExperiencesRoutes, {"dates", "current"}),
     education      |-> Collection(Education, EducationRoutes, {"dates"}),
     certifications |-> Collection(Certifications, CertificationsRoutes, {"dates"}),
     blog           |-> Collection(Blog, BlogRoutes, {"slug"}),
     expenses       |-> Collection(ExpenseCategories, ExpenseRoutes, {"order"}),
     incomes        |-> Collection(IncomeCategories, IncomeRoutes, {"order"}),
     profile        |-> Collection(Profile, ProfileRoutes \o PublicRoutes, {"owner"}),
     preferences    |-> Collection(Preferences, SettingsRoutes, {"owner"}),
     notifications  |-> Collection(NotificationPreferences, NotificationsRoutes \o EmailRoutes,
                                   {"owner"})]

Ops == Collections[collection].ops
Keeps(what) == what \in Collections[collection].keeps

-----------------------------------------------------------------------------
(* Documents                                                               *)

Slugs == Bases \X (0..MaxAttempts)      \* "a", "a-1", "a-2"

\* given: the order came from a client; mixed: the last update (or the creation) was
\* decided before another request wrote.
Doc == [owner : Users, deleted : BOOLEAN, start : Nat, end : Nat \cup {None}, current : BOOLEAN,
        slug : Slugs \cup {None}, order : Nat, given : BOOLEAN, mixed : BOOLEAN]

Blank(u) == [owner |-> u, deleted |-> FALSE, start |-> 0, end |-> None, current |-> FALSE,
             slug |-> None, order |-> 0, given |-> FALSE, mixed |-> FALSE]

Live(i) == i \in DOMAIN docs /\ ~docs[i].deleted
Own(u) == {i \in DOMAIN docs : docs[i].owner = u}
LiveOwn(u) == {i \in Own(u) : Live(i)}

\* One document more.
Added(id, d) == [i \in DOMAIN docs \cup {id} |-> IF i = id THEN d ELSE docs[i]]

InOrder(d) == d.end = None \/ d.start <= d.end

\* What create and update check, of experiences, education and certifications.
Valid(d) ==
    /\ Keeps("dates") => InOrder(d)
    /\ Keeps("current") => ~(d.current /\ d.end # None)

\* The unique indexes, which know nothing of deletion.
Unique(d, id, store) ==
    \A i \in DOMAIN store \ {id} : /\ Keeps("slug") => store[i].slug # d.slug
                                   /\ Keeps("owner") => store[i].owner # d.owner

\* Mutant: only the user's own posts are searched.
TakenAmongOwn(s, id, u) == \E i \in LiveOwn(u) \ {id} : docs[i].slug = s

\* A post that is not deleted has the slug.
Taken(s, id, u) == \E i \in DOMAIN docs \ {id} : Live(i) /\ docs[i].slug = s

Buried(s) == \E i \in DOMAIN docs : docs[i].deleted /\ docs[i].slug = s

\* Mutant: the number of categories.
NextOrderCounted(u) == Cardinality(LiveOwn(u))

\* The largest order of the user's categories, and one.
NextOrder(u) ==
    IF LiveOwn(u) = {} THEN 0 ELSE Max({docs[i].order : i \in LiveOwn(u)}) + 1

-----------------------------------------------------------------------------
(* Requests                                                                *)

Over == {"ok", "refused", "duplicate", "failed"}
Idle == [op |-> None, user |-> None, step |-> "idle", doc |-> None, ids |-> {}, seen |-> None,
         new |-> None, suffix |-> FALSE, overtaken |-> FALSE, buried |-> FALSE]

Running(q) == job[q].step \notin Over \cup {"idle"}
At(q, ops, step) == job[q].op \in ops /\ job[q].step = step

\* The write of q to the documents ids overtakes the requests that look at them, or at
\* all of them.
After(q, step, ids) ==
    [r \in Requests |->
        IF r = q THEN [job[r] EXCEPT !.step = step]
        ELSE IF Running(r) /\ (job[r].doc \in ids \/ Keeps("slug") \/ Keeps("order") \/ Keeps("owner"))
        THEN [job[r] EXCEPT !.overtaken = TRUE] ELSE job[r]]

Answer(q, step) == job' = [job EXCEPT ![q].step = step]

New(u, start, end, current, slug, order) ==
    [Blank(u) EXCEPT !.start = start, !.end = end, !.current = current, !.slug = slug,
                     !.order = IF order = None THEN 0 ELSE order, !.given = order # None]

\* What a create brings: a title or a slug, an order or none, dates.
StartDates == IF Keeps("dates") THEN Dates ELSE {0}
EndDates == IF Keeps("dates") THEN Dates \cup {None} ELSE {None}
Currents == IF Keeps("current") THEN BOOLEAN ELSE {FALSE}
FirstSlugs == IF Keeps("slug") THEN Bases \X {0} ELSE {None}
FirstOrders == {None} \cup (IF Keeps("order") THEN Orders ELSE {})

Created(u) ==
    {d \in {New(u, s, e, c, w, o) :
               s \in StartDates, e \in EndDates, c \in Currents, w \in FirstSlugs, o \in FirstOrders} :
       Valid(d)}

FirstStep(d) ==
    IF Keeps("slug") THEN "check" ELSE IF Keeps("order") /\ ~d.given THEN "order" ELSE "insert"

Arrive(q) ==
    /\ job[q] = Idle
    /\ \E op \in Ops \cap {"create", "update", "publish", "remove", "bulkDelete", "get", "change"},
         u \in Users :
          LET r == [Idle EXCEPT !.op = op, !.user = u]
          IN  \/ /\ op = "create"
                 /\ \E d \in Created(u) :
                       job' = [job EXCEPT ![q] = [r EXCEPT !.new = d, !.suffix = TRUE,
                                                           !.step = FirstStep(d)]]
              \/ /\ op \in {"update", "publish", "remove"}
                 /\ \E i \in DOMAIN docs :
                       job' = [job EXCEPT ![q] = [r EXCEPT !.doc = i, !.step = "load"]]
              \/ /\ op = "bulkDelete"
                 /\ \E ids \in (SUBSET DOMAIN docs) \ {{}} :
                       job' = [job EXCEPT ![q] = [r EXCEPT !.ids = ids, !.step = "find"]]
              \/ /\ op \in {"get", "change"}
                 /\ job' = [job EXCEPT ![q] = [r EXCEPT !.step = "find"]]
    /\ UNCHANGED <<collection, docs>>

\* Creates and updates with a title try slug after slug, one search each; an update that
\* brings a slug makes one search.  The last attempt is thrown away though it may be free.
CheckSlug(q) ==
    /\ At(q, {"create", "update"}, "check")
    /\ LET s == job[q].new.slug
           more == job[q].suffix /\ s[2] < MaxAttempts
           next == [job[q].new EXCEPT !.slug = <<s[1], s[2] + 1>>]
           write == IF job[q].op = "create" THEN "insert" ELSE "save"
           seen == [job[q] EXCEPT !.overtaken = FALSE]
       IN  job' = [job EXCEPT ![q] =
              IF Taken(s, job[q].doc, job[q].user)
              THEN IF more THEN [seen EXCEPT !.new = next] ELSE [seen EXCEPT !.step = "refused"]
              ELSE IF job[q].suffix /\ s[2] = MaxAttempts THEN [seen EXCEPT !.step = "refused"]
              ELSE [seen EXCEPT !.step = write, !.buried = Buried(s)]]
    /\ UNCHANGED <<collection, docs>>

\* findOne, sorted by order.
FindOrder(q) ==
    /\ At(q, {"create"}, "order")
    /\ job' = [job EXCEPT ![q].new.order = NextOrder(job[q].user), ![q].step = "insert",
                          ![q].overtaken = FALSE]
    /\ UNCHANGED <<collection, docs>>

Insert(q) ==
    /\ At(q, {"create", "get", "change"}, "insert")
    /\ LET d == [job[q].new EXCEPT !.mixed = job[q].overtaken]
       IN  IF Unique(d, q, docs)
           THEN docs' = Added(q, d) /\ job' = After(q, "ok", {q})
           ELSE Answer(q, "duplicate") /\ UNCHANGED docs
    /\ UNCHANGED collection

Dated(b, start, end, current) == [b EXCEPT !.start = start, !.end = end, !.current = current]

\* Mutant: the dates of the body are compared with each other, not with those stored.
DatedUpdatesAlone(b) ==
    {Dated(b, s, e, c) :
        s \in Dates \cup {b.start}, e \in Dates \cup {b.end}, c \in {b.current}}

\* An end of null is stored, while the check takes the end that was there.
DatedUpdates(b) ==
    LET all == {Dated(b, s, e, c) :
                   s \in Dates \cup {b.start}, e \in Dates \cup {b.end}, c \in Currents}
        valid == {d \in all : Valid(d)}
    IN  valid \cup {[d EXCEPT !.end = None] : d \in {d \in valid : d.end = b.end}}

\* What an update makes of the document it loaded.
Updates(b) ==
    {b} \cup (IF Keeps("dates") THEN DatedUpdates(b) ELSE {})
        \cup (IF Keeps("order") THEN {[b EXCEPT !.order = o, !.given = TRUE] : o \in Orders \ {b.order}}
              ELSE {})

Slugged(r, slug, suffix) == [r EXCEPT !.new.slug = slug, !.suffix = suffix, !.step = "check"]

\* A slug of the body, or one made from the title it brings.
SlugUpdates(r) ==
    {Slugged(r, s, FALSE) : s \in Slugs \ {r.seen.slug}} \cup {Slugged(r, <<b, 0>>, TRUE) : b \in Bases}

\* findOne and the check of the owner.
Load(q) ==
    /\ At(q, {"update", "publish", "remove"}, "load")
    /\ IF job[q].doc \in LiveOwn(job[q].user)
       THEN LET b == docs[job[q].doc]
                r == [job[q] EXCEPT !.seen = b, !.new = b, !.step = "save", !.overtaken = FALSE]
            IN  \E n \in CASE job[q].op = "remove"  -> {[r EXCEPT !.new.deleted = TRUE]}
                           [] job[q].op = "publish" -> {r}
                           [] job[q].op = "update"  ->
                                 {[r EXCEPT !.new = d] : d \in Updates(b)}
                                    \cup IF Keeps("slug") THEN SlugUpdates(r) ELSE {} :
                   job' = [job EXCEPT ![q] = n]
       ELSE Answer(q, "refused")
    /\ UNCHANGED <<collection, docs>>

\* save writes the fields that differ from what was loaded, if the document is there.
Saved(q, old) ==
    LET new == job[q].new
        seen == job[q].seen
        set == [f \in DOMAIN old |-> IF new[f] = seen[f] THEN old[f] ELSE new[f]]
    IN  IF job[q].op = "update" /\ new # seen THEN [set EXCEPT !.mixed = job[q].overtaken] ELSE set

Save(q) ==
    /\ At(q, {"update", "publish", "remove", "change"}, "save")
    /\ LET id == job[q].doc
       IN  IF id \notin DOMAIN docs
           THEN Answer(q, "failed") /\ UNCHANGED docs
           ELSE LET d == Saved(q, docs[id])
                IN  IF Unique(d, id, docs)
                    THEN docs' = [docs EXCEPT ![id] = d] /\ job' = After(q, "ok", {id})
                    ELSE Answer(q, "duplicate") /\ UNCHANGED docs
    /\ UNCHANGED collection

\* bulkSoftDelete: those found are deleted, by a write of their own.
FindIds(q) ==
    /\ At(q, {"bulkDelete"}, "find")
    /\ LET found == job[q].ids \cap LiveOwn(job[q].user)
       IN  job' = [job EXCEPT ![q].ids = found, ![q].step = IF found = {} THEN "refused" ELSE "save"]
    /\ UNCHANGED <<collection, docs>>

DeleteIds(q) ==
    /\ At(q, {"bulkDelete"}, "save")
    /\ docs' = [i \in DOMAIN docs |-> [docs[i] EXCEPT !.deleted = @ \/ i \in job[q].ids]]
    /\ job' = After(q, "ok", job[q].ids)
    /\ UNCHANGED collection

-----------------------------------------------------------------------------
(* One document a user                                                     *)

\* The document, or a new one with the defaults.
FindOwn(q) ==
    /\ At(q, {"get", "change"}, "find")
    /\ LET own == Own(job[q].user)
           r == [job[q] EXCEPT !.overtaken = FALSE]
       IN  \/ /\ own = {}
              /\ job' = [job EXCEPT ![q] = [r EXCEPT !.new = Blank(job[q].user), !.step = "insert"]]
           \/ /\ own # {} /\ job[q].op = "get"
              /\ Answer(q, "ok")
           \/ /\ job[q].op = "change"
              /\ \E i \in own : job' = [job EXCEPT ![q] = [r EXCEPT !.doc = i, !.seen = docs[i],
                                                                   !.new = docs[i], !.step = "save"]]
    /\ UNCHANGED <<collection, docs>>

\* findOneAndUpdate with upsert: one write of the database.
Upsert(q) ==
    /\ job[q] = Idle /\ "upsert" \in Ops
    /\ \E u \in Users :
          /\ docs' = IF Own(u) = {} THEN Added(q, Blank(u)) ELSE docs
          /\ job' = [After(q, "ok", Own(u)) EXCEPT ![q].op = "upsert", ![q].user = u]
    /\ UNCHANGED collection

\* The account is deleted: deleteMany.
DeleteAll(u) ==
    /\ "deleteAll" \in Ops /\ Own(u) # {}
    /\ docs' = [i \in DOMAIN docs \ Own(u) |-> docs[i]]
    /\ UNCHANGED <<collection, job>>

-----------------------------------------------------------------------------
Apart(store) ==
    \A i \in DOMAIN store :
       /\ Unique(store[i], i, store)
       /\ Keeps("order") => \A j \in DOMAIN store \ {i} : store[i].order # store[j].order

\* A document of before.
Older(d, deleted) == [d EXCEPT !.deleted = deleted, !.given = FALSE]
Earlier(u) == {Older(d, x) : d \in Created(u), x \in BOOLEAN}

Init ==
    /\ collection \in DOMAIN Collections
    /\ \E ids \in SUBSET Stored : docs \in [ids -> UNION {Earlier(u) : u \in Users}]
    /\ Keeps("owner") => \A i \in DOMAIN docs : ~docs[i].deleted
    /\ Apart(docs)
    /\ job = [q \in Requests |-> Idle]

Steps(q) ==
    \/ CheckSlug(q) \/ FindOrder(q) \/ Insert(q) \/ Load(q) \/ Save(q)
    \/ FindIds(q) \/ DeleteIds(q) \/ FindOwn(q)

Next ==
    \/ \E q \in Requests : Arrive(q) \/ Upsert(q) \/ Steps(q)
    \/ \E u \in Users : DeleteAll(u)

Spec == Init /\ [][Next]_vars

-----------------------------------------------------------------------------
(* Properties                                                              *)

\* An experience, an education or a certification never ends before it starts, and a
\* current experience has no end, unless the last update was decided on a document that
\* another request has changed since.
DatesInOrder == \A i \in DOMAIN docs : docs[i].mixed \/ Valid(docs[i])

\* A request is answered with a duplicate key only if another one wrote after it looked,
\* or if a deleted post holds its slug, which the search does not see.
DuplicatesExplained ==
    \A q \in Requests : job[q].step = "duplicate" => job[q].overtaken \/ job[q].buried

\* Two categories of a user share an order only if a client gave it, or if they were
\* created from the same view of the others.
OrdersExplained ==
    Keeps("order") =>
       \A u \in Users : \A i \in LiveOwn(u) : \A j \in LiveOwn(u) \ {i} :
          docs[i].order = docs[j].order =>
             \E k \in {i, j} : docs[k].given \/ docs[k].mixed

\* Slugs, orders and first documents clash only when requests overlap or a deleted post is
\* in the way.
ClashesExplained == DuplicatesExplained /\ OrdersExplained
=============================================================================
