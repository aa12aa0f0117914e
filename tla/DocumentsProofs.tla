---------------------------- MODULE DocumentsProofs ----------------------------
(***************************************************************************)
(* The collections of a user, for every set of users and documents and     *)
(* every number of requests: dates that stay in order, and the clashes of  *)
(* slugs, orders and first documents.                                      *)
(***************************************************************************)
EXTENDS Documents, FiniteSetTheorems, NaturalsInduction, WellFoundedInduction, TLAPS

-----------------------------------------------------------------------------
(* The invariant                                                           *)

Ids == Stored \cup Requests
OpNames == {"create", "update", "remove", "bulkDelete", "publish", "get", "change", "upsert"}
StepNames == {"idle", "check", "order", "insert", "load", "save", "find"} \cup Over

Job == [op : OpNames \cup {None}, user : Users \cup {None}, step : StepNames,
        doc : Ids \cup {None}, ids : SUBSET Ids, seen : Doc \cup {None}, new : Doc \cup {None},
        suffix : BOOLEAN, overtaken : BOOLEAN, buried : BOOLEAN]

TypeOK ==
    /\ collection \in DOMAIN Collections
    /\ DOMAIN docs \subseteq Ids /\ \A i \in DOMAIN docs : docs[i] \in Doc
    /\ job \in [Requests -> Job]

\* A request that saves one document.
Saving(q) == At(q, {"update", "publish", "remove", "change"}, "save")

\* The steps of an operation and what they hold.
Shape(q) ==
    /\ q \in DOMAIN docs => job[q].step \in Over
    /\ job[q].step # "idle" => job[q].op \in Ops
    /\ job[q].doc \in Requests => job[job[q].doc].step \in Over
    /\ job[q].step = "find" => job[q].user \in Users
    /\ job[q].step \in {"idle", "check", "order", "insert", "find"} => job[q].op = "update" \/ job[q].doc = None
    /\ job[q].step = "check" => /\ job[q].op \in {"create", "update"} /\ Keeps("slug")
                                /\ job[q].new \in Doc /\ job[q].new.slug \in Slugs
                                /\ job[q].op = "update" => job[q].seen \in Doc /\ job[q].doc \in Ids
    /\ job[q].step = "order" => job[q].op = "create" /\ Keeps("order") /\ job[q].new \in Doc
    /\ job[q].step = "insert" => job[q].op \in {"create", "get", "change"} /\ job[q].new \in Doc
    /\ Saving(q) => job[q].new \in Doc /\ job[q].seen \in Doc /\ job[q].doc \in Ids
    /\ job[q].step = "load" => job[q].op \in {"update", "publish", "remove"} /\ job[q].doc \in Ids

\* What an insertion or a save brings.
Brings(q) ==
    /\ job[q].op = "create" /\ job[q].step \in {"check", "order", "insert"} =>
          /\ Valid(job[q].new) /\ job[q].new.owner = job[q].user /\ ~job[q].new.deleted
    /\ job[q].step = "insert" => ~job[q].new.deleted /\ Valid(job[q].new)
    /\ At(q, {"update"}, "check") \/ Saving(q) =>
          /\ job[q].new.owner = job[q].seen.owner
          /\ job[q].new.deleted = job[q].seen.deleted \/ job[q].new.deleted
    /\ At(q, {"publish", "remove", "change"}, "save") =>
          \A f \in {"start", "end", "current", "slug", "order", "given", "mixed"} :
             job[q].new[f] = job[q].seen[f]
    /\ At(q, {"update"}, "save") /\ job[q].new # job[q].seen =>
          /\ Valid(job[q].new)
          /\ Keeps("order") => job[q].new.given
          /\ ~Keeps("slug") => job[q].new.slug = job[q].seen.slug

\* What a request has read and nobody has written since.
Current(q) ==
    /\ Saving(q) /\ (Keeps("dates") \/ Keeps("current")) /\ ~job[q].overtaken
          /\ job[q].doc \in DOMAIN docs =>
             \A f \in {"start", "end", "current"} : docs[job[q].doc][f] = job[q].seen[f]
    /\ /\ Keeps("slug") /\ ~job[q].overtaken
       /\ job[q].step = "insert" \/ (Saving(q) /\ job[q].new.slug # job[q].seen.slug)
       => \A i \in DOMAIN docs \ {job[q].doc} :
             docs[i].slug = job[q].new.slug => docs[i].deleted /\ job[q].buried
    /\ Keeps("owner") /\ job[q].step = "insert" /\ ~job[q].overtaken =>
          \A i \in DOMAIN docs : docs[i].owner # job[q].new.owner
    /\ Keeps("order") /\ job[q].step = "insert" /\ ~job[q].overtaken =>
          job[q].new.given \/ \A i \in LiveOwn(job[q].new.owner) : docs[i].order < job[q].new.order

\* An order that a client gave stays given.
GivenStays(q) ==
    Keeps("order") /\ Saving(q) /\ job[q].doc \in DOMAIN docs /\ job[q].seen.given => docs[job[q].doc].given

Explained(q) == job[q].step = "duplicate" => job[q].overtaken \/ job[q].buried

Works(q) == Shape(q) /\ Brings(q) /\ Current(q) /\ GivenStays(q) /\ Explained(q)

\* The unique indexes hold.
Distinct == \A i \in DOMAIN docs : Unique(docs[i], i, docs)

DocsInv == DatesInOrder /\ Distinct /\ OrdersExplained

Inv == TypeOK /\ DocsInv /\ \A q \in Requests : Works(q)

-----------------------------------------------------------------------------
(* The operators                                                           *)

\* What a collection keeps, and the operations that go with it.
LEMMA CollectionsAre ==
    ASSUME collection \in DOMAIN Collections
    PROVE  /\ Keeps("dates") \/ Keeps("current") =>
                 ~Keeps("slug") /\ ~Keeps("order") /\ ~Keeps("owner")
           /\ Keeps("slug") => ~Keeps("order") /\ ~Keeps("owner")
           /\ Keeps("order") => ~Keeps("owner") /\ "deleteAll" \notin Ops
           /\ ~Keeps("owner") => Ops \cap {"get", "change", "upsert"} = {}
           /\ Keeps("owner") => Ops \cap {"create", "update", "publish", "remove", "bulkDelete"} = {}
  <1> DEFINE Is(service, keeps) ==
                \E routes : Collections[collection] = Collection(service, routes, keeps)
             Has(service, keeps) == Ops \subseteq service /\ Collections[collection].keeps = keeps
  <1>1. \A service, keeps : Is(service, keeps) => Has(service, keeps)
    BY DEF Collection, Ops
  <1> HIDE DEF Is
  <1>2. CASE collection = "projects"
    <2>1. Is(Projects, {})
      BY <1>2 DEF Collections, Is
    <2>2. Has(Projects, {})
      BY <1>1, <2>1
    <2> QED BY <2>2 DEF Projects, Crud, Keeps
  <1>3. CASE collection = "skills"
    <2>1. Is(Skills, {})
      BY <1>3 DEF Collections, Is
    <2>2. Has(Skills, {})
      BY <1>1, <2>1
    <2> QED BY <2>2 DEF Skills, Crud, Keeps
  <1>4. CASE collection = "contacts"
    <2>1. Is(Contacts, {})
      BY <1>4 DEF Collections, Is
    <2>2. Has(Contacts, {})
      BY <1>1, <2>1
    <2> QED BY <2>2 DEF Contacts, Crud, Keeps
  <1>5. CASE collection = "testimonials"
    <2>1. Is(Testimonials, {})
      BY <1>5 DEF Collections, Is
    <2>2. Has(Testimonials, {})
      BY <1>1, <2>1
    <2> QED BY <2>2 DEF Testimonials, Crud, Keeps
  <1>6. CASE collection = "companies"
    <2>1. Is(Companies, {})
      BY <1>6 DEF Collections, Is
    <2>2. Has(Companies, {})
      BY <1>1, <2>1
    <2> QED BY <2>2 DEF Companies, Crud, Keeps
  <1>7. CASE collection = "experiences"
    <2>1. Is(Experiences, {"dates", "current"})
      BY <1>7 DEF Collections, Is
    <2>2. Has(Experiences, {"dates", "current"})
      BY <1>1, <2>1
    <2> QED BY <2>2 DEF Experiences, Crud, Keeps
  <1>8. CASE collection = "education"
    <2>1. Is(Education, {"dates"})
      BY <1>8 DEF Collections, Is
    <2>2. Has(Education, {"dates"})
      BY <1>1, <2>1
    <2> QED BY <2>2 DEF Education, Crud, Keeps
  <1>9. CASE collection = "certifications"
    <2>1. Is(Certifications, {"dates"})
      BY <1>9 DEF Collections, Is
    <2>2. Has(Certifications, {"dates"})
      BY <1>1, <2>1
    <2> QED BY <2>2 DEF Certifications, Crud, Keeps
  <1>10. CASE collection = "blog"
    <2>1. Is(Blog, {"slug"})
      BY <1>10 DEF Collections, Is
    <2>2. Has(Blog, {"slug"})
      BY <1>1, <2>1
    <2> QED BY <2>2 DEF Blog, Crud, Keeps
  <1>11. CASE collection = "expenses"
    <2>1. Is(ExpenseCategories, {"order"})
      BY <1>11 DEF Collections, Is
    <2>2. Has(ExpenseCategories, {"order"})
      BY <1>1, <2>1
    <2> QED BY <2>2 DEF ExpenseCategories, Crud, Keeps
  <1>12. CASE collection = "incomes"
    <2>1. Is(IncomeCategories, {"order"})
      BY <1>12 DEF Collections, Is
    <2>2. Has(IncomeCategories, {"order"})
      BY <1>1, <2>1
    <2> QED BY <2>2 DEF IncomeCategories, Crud, Keeps
  <1>13. CASE collection = "profile"
    <2>1. Is(Profile, {"owner"})
      BY <1>13 DEF Collections, Is
    <2>2. Has(Profile, {"owner"})
      BY <1>1, <2>1
    <2> QED BY <2>2 DEF Profile, Crud, Keeps
  <1>14. CASE collection = "preferences"
    <2>1. Is(Preferences, {"owner"})
      BY <1>14 DEF Collections, Is
    <2>2. Has(Preferences, {"owner"})
      BY <1>1, <2>1
    <2> QED BY <2>2 DEF Preferences, Crud, Keeps
  <1>15. CASE collection = "notifications"
    <2>1. Is(NotificationPreferences, {"owner"})
      BY <1>15 DEF Collections, Is
    <2>2. Has(NotificationPreferences, {"owner"})
      BY <1>1, <2>1
    <2> QED BY <2>2 DEF NotificationPreferences, Crud, Keeps
  <1>16. collection \in {"projects", "skills", "contacts", "testimonials", "companies", "experiences", "education",
                         "certifications", "blog", "expenses", "incomes", "profile", "preferences", "notifications"}
    BY DEF Collections
  <1> QED BY <1>2, <1>3, <1>4, <1>5, <1>6, <1>7, <1>8, <1>9, <1>10, <1>11, <1>12, <1>13, <1>14, <1>15, <1>16

-----------------------------------------------------------------------------
(* Steps that write nothing                                                *)

\* Another request is where it was.
LEMMA OthersWait ==
    ASSUME Inv, NEW q \in Requests, NEW new, new \in Job, UNCHANGED <<collection, docs>>,
           job' = [job EXCEPT ![q] = new], job[q].step \notin Over,
           NEW r \in Requests, r # q
    PROVE  Works(r)'
  <1>1. job'[r] = job[r] /\ Works(r)
    BY DEF Inv, TypeOK
  <1>2. Shape(r)'
    <2>1. job[r].doc \in Requests => job[r].doc # q
      BY <1>1 DEF Works, Shape
    <2>2. job[r].doc \in Requests => job'[job[r].doc] = job[job[r].doc]
      BY <2>1 DEF Inv, TypeOK
    <2> QED BY <1>1, <2>2 DEF Works, Shape, Saving, At, Keeps, Ops
  <1>3. Brings(r)'
    BY <1>1 DEF Works, Brings, Saving, At, Keeps, Valid, InOrder
  <1>4. Current(r)'
    BY <1>1 DEF Works, Current, Saving, At, Keeps, LiveOwn, Own, Live
  <1>5. GivenStays(r)' /\ Explained(r)'
    BY <1>1 DEF Works, GivenStays, Explained, Saving, At, Keeps
  <1> QED BY <1>2, <1>3, <1>4, <1>5 DEF Works

\* Such a step keeps the invariant if it keeps that of its request.
LEMMA QuietStep ==
    ASSUME Inv, NEW q \in Requests, NEW new, new \in Job, UNCHANGED <<collection, docs>>,
           job' = [job EXCEPT ![q] = new], job[q].step \notin Over, Works(q)'
    PROVE  Inv'
  <1>1. TypeOK'
    BY DEF Inv, TypeOK
  <1>2. DocsInv'
    BY DEF Inv, DocsInv, DatesInOrder, Distinct, OrdersExplained, Valid, InOrder, Unique, Keeps, LiveOwn, Own, Live
  <1>3. \A r \in Requests : Works(r)'
    BY OthersWait
  <1> QED BY <1>1, <1>2, <1>3 DEF Inv

-----------------------------------------------------------------------------
(* The next order                                                          *)

\* Among finitely many documents one has the largest order.
LEMMA OneIsLargest ==
    ASSUME NEW D, NEW f \in [D -> Nat], NEW S, S \subseteq D, IsFiniteSet(S), S # {}
    PROVE  \E i \in S : \A j \in S : f[i] >= f[j]
  <1> DEFINE Rises(T) == T # {} /\ IsFiniteSet(T) /\ \A i \in T : \E j \in T : f[i] < f[j]
             Wrong == {n \in Nat : \E T \in SUBSET D : Rises(T) /\ Cardinality(T) = n}
  <1>1. SUFFICES ASSUME Rises(S)  PROVE FALSE
    <2>1. PICK i \in S : \A j \in S : ~(f[i] < f[j])
      BY <1>1
    <2> QED BY <2>1
  <1>2. Cardinality(S) \in Wrong
    BY <1>1, FS_CardinalityType
  <1>3. PICK n \in Wrong : \A x \in Wrong : ~(<<x, n>> \in OpToRel(<, Nat))
    BY <1>2, NatLessThanWellFounded, WFMin
  <1>4. \A x \in Wrong : ~(x < n)
    BY <1>3 DEF OpToRel
  <1>5. PICK T \in SUBSET D : Rises(T) /\ Cardinality(T) = n
    BY <1>3
  <1>6. PICK i \in T : TRUE
    BY <1>5
  <1> DEFINE R == T \ {i}
  <1>7. IsFiniteSet(R) /\ Cardinality(R) = n - 1 /\ n - 1 \in Nat
    <2>1. IsFiniteSet(T)
      BY <1>5
    <2>2. IsFiniteSet(R) /\ Cardinality(R) = Cardinality(T) - 1
      BY <1>6, <2>1, FS_RemoveElement
    <2>3. Cardinality(R) \in Nat
      BY <2>2, FS_CardinalityType
    <2> QED BY <1>5, <2>2, <2>3
  <1>8. ~Rises(R)
    BY <1>4, <1>7
  <1>9. PICK j \in T : f[i] < f[j]
    BY <1>5, <1>6
  <1>10. j \in R
    BY <1>9
  <1>11. PICK k \in R : \A l \in R : ~(f[k] < f[l])
    BY <1>7, <1>8, <1>10
  <1>12. PICK l \in T : f[k] < f[l]
    BY <1>5, <1>11
  <1>13. l = i
    BY <1>11, <1>12
  <1> QED BY <1>9, <1>10, <1>11, <1>12, <1>13

\* The next order is larger than every order of the user's documents.
LEMMA NextOrderIsNext ==
    ASSUME TypeOK, NEW u \in Users
    PROVE  NextOrder(u) \in Nat /\ \A i \in LiveOwn(u) : docs[i].order < NextOrder(u)
  <1> DEFINE orders == {docs[i].order : i \in LiveOwn(u)}
             f == [i \in DOMAIN docs |-> docs[i].order]
  <1>1. f \in [DOMAIN docs -> Nat]
    BY DEF TypeOK, Doc
  <1>2. LiveOwn(u) \subseteq DOMAIN docs /\ IsFiniteSet(LiveOwn(u))
    <2>1. IsFiniteSet(Ids)
      BY DocumentsAssumption, FS_Union DEF Ids
    <2>2. LiveOwn(u) \in SUBSET Ids
      BY DEF LiveOwn, Own, TypeOK
    <2> QED BY <2>1, <2>2, FS_Subset DEF LiveOwn, Own
  <1>3. CASE LiveOwn(u) = {}
    BY <1>3 DEF NextOrder
  <1>4. CASE LiveOwn(u) # {}
    <2> HIDE DEF f
    <2>1. PICK i \in LiveOwn(u) : \A j \in LiveOwn(u) : f[i] >= f[j]
      BY <1>1, <1>2, <1>4, OneIsLargest
    <2>2. \A j \in LiveOwn(u) : f[j] = docs[j].order /\ f[j] \in Nat
      BY <1>1, <1>2 DEF f
    <2>3. docs[i].order \in orders /\ \A x \in orders : docs[i].order >= x
      BY <2>1, <2>2
    <2> HIDE DEF orders
    <2>4. Max(orders) \in orders /\ \A x \in orders : Max(orders) >= x
      BY <2>3 DEF Max
    <2>5. \A x \in orders : x \in Nat
      BY <2>2 DEF orders
    <2>6. NextOrder(u) = Max(orders) + 1
      BY <1>4 DEF NextOrder, orders
    <2>7. \A j \in LiveOwn(u) : docs[j].order \in orders
      BY DEF orders
    <2> QED BY <2>4, <2>5, <2>6, <2>7
  <1> QED BY <1>3, <1>4

-----------------------------------------------------------------------------
(* Documents                                                               *)

LEMMA NewIs ==
    ASSUME NEW u \in Users, NEW s \in Nat, NEW e \in Nat \cup {None}, NEW c \in BOOLEAN,
           NEW w \in Slugs \cup {None}, NEW o \in Nat \cup {None}
    PROVE  LET d == New(u, s, e, c, w, o)
           IN  d \in Doc /\ d.owner = u /\ ~d.deleted /\ d.slug = w
  BY DEF New, Blank, Doc

LEMMA BlankIs ==
    ASSUME NEW u \in Users
    PROVE  Blank(u) \in Doc /\ Blank(u).owner = u /\ ~Blank(u).deleted /\ Valid(Blank(u))
  BY DEF Blank, Doc, Valid, InOrder

\* A create brings a document of the user whose dates are in order.
LEMMA CreatedIs ==
    ASSUME NEW u \in Users, NEW d \in Created(u)
    PROVE  d \in Doc /\ d.owner = u /\ ~d.deleted /\ Valid(d) /\ (Keeps("slug") => d.slug \in Slugs)
  <1>1. PICK s \in StartDates, e \in EndDates, c \in Currents, w \in FirstSlugs, o \in FirstOrders :
                d = New(u, s, e, c, w, o)
    BY DEF Created
  <1>2. Valid(d)
    BY DEF Created
  <1>3. s \in Nat /\ e \in Nat \cup {None}
    BY DocumentsAssumption DEF StartDates, EndDates
  <1>4. c \in BOOLEAN
    BY DEF Currents
  <1>5. o \in Nat \cup {None}
    BY DocumentsAssumption DEF FirstOrders
  <1>6. w \in Slugs \cup {None} /\ (Keeps("slug") => w \in Slugs)
    <2>1. 0 \in 0 .. MaxAttempts
      BY DocumentsAssumption
    <2>2. CASE Keeps("slug")
      <3>1. PICK b \in Bases : w = <<b, 0>>
        BY <2>2 DEF FirstSlugs
      <3> QED BY <2>1, <3>1 DEF Slugs
    <2> QED BY <2>2 DEF FirstSlugs
  <1>7. d \in Doc /\ d.owner = u /\ ~d.deleted /\ d.slug = w
    BY ONLY u \in Users, <1>1, <1>3, <1>4, <1>5, <1>6, NewIs
  <1> QED BY <1>2, <1>6, <1>7

LEMMA CurrentsAre == Currents \subseteq BOOLEAN
  BY DEF Currents

LEMMA DatedIs ==
    ASSUME NEW b \in Doc, NEW s \in Nat, NEW e \in Nat \cup {None}, NEW c \in BOOLEAN
    PROVE  LET d == Dated(b, s, e, c)
           IN  /\ d \in Doc /\ d.start = s /\ d.end = e /\ d.current = c
               /\ \A f \in {"owner", "deleted", "slug", "order", "given", "mixed"} : d[f] = b[f]
  BY DEF Dated, Doc

\* An update keeps the owner and brings dates in order, or an order.
LEMMA UpdatesAre ==
    ASSUME collection \in DOMAIN Collections, NEW b \in Doc, NEW d \in Updates(b)
    PROVE  /\ d \in Doc
           /\ \A f \in {"owner", "deleted", "slug", "mixed"} : d[f] = b[f]
           /\ b.given => d.given
           /\ d # b => Valid(d) /\ (Keeps("order") => d.given)
  <1>1. CASE d = b
    BY <1>1
  <1>2. CASE Keeps("dates") /\ d \in DatedUpdates(b)
    <2>1. ~Keeps("order")
      BY <1>2, CollectionsAre
    <2> DEFINE all == {Dated(b, s, e, c) :
                   s \in Dates \cup {b.start}, e \in Dates \cup {b.end}, c \in Currents}
               Same(x) == /\ x \in Doc
                          /\ \A f \in {"owner", "deleted", "slug", "order", "given", "mixed"} : x[f] = b[f]
    <2>2. ASSUME NEW x \in all  PROVE  Same(x)
      <3>1. PICK s \in Dates \cup {b.start}, e \in Dates \cup {b.end}, c \in Currents : x = Dated(b, s, e, c)
        OBVIOUS
      <3>2. b.start \in Nat /\ b.end \in Nat \cup {None}
        BY DEF Doc
      <3>3. Dates \subseteq Nat
        BY DocumentsAssumption
      <3>4. s \in Nat /\ e \in Nat \cup {None}
        BY <3>2, <3>3
      <3>5. c \in BOOLEAN
        BY CurrentsAre
      <3> QED BY ONLY b \in Doc, <3>1, <3>4, <3>5, DatedIs
    <2>3. CASE d \in all /\ Valid(d)
      BY <2>1, <2>2, <2>3
    <2>4. CASE \E x \in all : Valid(x) /\ d = [x EXCEPT !.end = None]
      <3>1. PICK x \in all : Valid(x) /\ d = [x EXCEPT !.end = None]
        BY <2>4
      <3>2. Same(x)
        BY <2>2
      <3>3. Same(d) /\ d.end = None
        BY <3>1, <3>2 DEF Doc
      <3> QED BY <2>1, <3>3 DEF Valid, InOrder
    <2>5. \/ d \in {x \in all : Valid(x)}
          \/ \E x \in {x \in all : Valid(x)} : x.end = b.end /\ d = [x EXCEPT !.end = None]
      BY <1>2 DEF DatedUpdates
    <2>6. (d \in all /\ Valid(d)) \/ \E x \in all : Valid(x) /\ d = [x EXCEPT !.end = None]
      <3> HIDE DEF all
      <3> QED BY <2>5
    <2> QED BY <2>3, <2>4, <2>6
  <1>3. CASE Keeps("order") /\ \E o \in Orders \ {b.order} : d = [b EXCEPT !.order = o, !.given = TRUE]
    <2>1. PICK o \in Orders : d = [b EXCEPT !.order = o, !.given = TRUE]
      BY <1>3
    <2>2. o \in Nat
      BY DocumentsAssumption
    <2>3. ~Keeps("dates") /\ ~Keeps("current")
      BY <1>3, CollectionsAre
    <2> QED BY <2>1, <2>2, <2>3 DEF Doc, Valid
  <1> QED BY <1>1, <1>2, <1>3 DEF Updates

\* An update of a slug changes nothing else.
LEMMA SlugUpdatesAre ==
    ASSUME NEW r \in Job, r.new \in Doc, NEW n \in SlugUpdates(r)
    PROVE  /\ n \in Job /\ n.step = "check" /\ n.new \in Doc /\ n.new.slug \in Slugs
           /\ \A f \in {"owner", "deleted", "start", "end", "current", "order", "given", "mixed"} :
                 n.new[f] = r.new[f]
           /\ \A f \in {"op", "user", "doc", "ids", "seen", "overtaken", "buried"} : n[f] = r[f]
  <1>1. PICK s \in Slugs, x \in BOOLEAN : n = Slugged(r, s, x)
    <2>1. CASE \E s \in Slugs \ {r.seen.slug} : n = Slugged(r, s, FALSE)
      BY <2>1
    <2>2. CASE \E b \in Bases : n = Slugged(r, <<b, 0>>, TRUE)
      <3>1. 0 \in 0 .. MaxAttempts
        BY DocumentsAssumption
      <3>2. \A b \in Bases : <<b, 0>> \in Slugs
        BY <3>1 DEF Slugs
      <3> QED BY <2>2, <3>2
    <2> QED BY <2>1, <2>2 DEF SlugUpdates
  <1>2. [r.new EXCEPT !.slug = s] \in Doc
    BY DEF Doc
  <1> QED BY <1>1, <1>2 DEF Slugged, Job, StepNames, Doc

\* A save changes what it means to change.
LEMMA SavedIs ==
    ASSUME NEW q, job[q].overtaken \in BOOLEAN, NEW old \in Doc, job[q].new \in Doc, job[q].seen \in Doc
    PROVE  LET d == Saved(q, old)
               new == job[q].new
               seen == job[q].seen
           IN  /\ d \in Doc
               /\ \A f \in {"owner", "deleted", "start", "end", "current", "slug", "order", "given"} :
                     d[f] = IF new[f] = seen[f] THEN old[f] ELSE new[f]
               /\ d.mixed = IF job[q].op = "update" /\ new # seen THEN job[q].overtaken
                            ELSE IF new.mixed = seen.mixed THEN old.mixed ELSE new.mixed
  <1> DEFINE new == job[q].new
             seen == job[q].seen
             set == [f \in DOMAIN old |-> IF new[f] = seen[f] THEN old[f] ELSE new[f]]
             Set(d) == \A f \in {"owner", "deleted", "start", "end", "current", "slug", "order", "given"} :
                          d[f] = IF new[f] = seen[f] THEN old[f] ELSE new[f]
  <1>1. new \in Doc /\ seen \in Doc
    OBVIOUS
  <1>2. DOMAIN old = {"owner", "deleted", "start", "end", "current", "slug", "order", "given", "mixed"}
    BY DEF Doc
  <1> HIDE DEF new, seen
  <1>3. set \in Doc
    BY <1>1, <1>2 DEF Doc
  <1>4. Set(set) /\ set.mixed = IF new.mixed = seen.mixed THEN old.mixed ELSE new.mixed
    BY <1>2
  <1> HIDE DEF set
  <1>5. CASE job[q].op = "update" /\ new # seen
    <2>1. Saved(q, old) = [set EXCEPT !.mixed = job[q].overtaken]
      BY <1>5 DEF Saved, set, new, seen
    <2> QED BY <1>3, <1>4, <1>5, <2>1 DEF Doc, new, seen
  <1>6. CASE ~(job[q].op = "update" /\ new # seen)
    <2>1. Saved(q, old) = set
      BY <1>6 DEF Saved, set, new, seen
    <2> QED BY <1>3, <1>4, <1>6, <2>1 DEF new, seen
  <1> QED BY <1>5, <1>6

-----------------------------------------------------------------------------
(* The steps that write nothing                                            *)

LEMMA InvFacts ==
    ASSUME Inv, NEW q \in Requests
    PROVE  /\ job[q] \in Job /\ Works(q)
           /\ job[q].step \notin Over => q \notin DOMAIN docs
           /\ \A i \in DOMAIN docs : docs[i] \in Doc /\ i \in Ids
           /\ \A i \in DOMAIN docs \cap Requests : job[i].step \in Over
           /\ collection \in DOMAIN Collections
  BY DEF Inv, TypeOK, Works, Shape

LEMMA IdleIs == Idle \in Job
  BY DEF Idle, Job, StepNames

LEMMA ArriveInv ==
    ASSUME Inv, NEW q \in Requests, Arrive(q)
    PROVE  Inv'
  <1>1. /\ job[q] = Idle /\ job[q].step = "idle" /\ job[q].step \notin Over /\ q \notin DOMAIN docs
        /\ UNCHANGED <<collection, docs>> /\ job \in [Requests -> Job]
    <2>1. job[q] = Idle
      BY DEF Arrive
    <2>2. job[q].step = "idle"
      BY <2>1 DEF Idle
    <2> QED BY <2>1, <2>2, InvFacts DEF Arrive, Over, Inv, TypeOK
  <1>2. PICK op \in Ops \cap {"create", "update", "publish", "remove", "bulkDelete", "get", "change"},
             u \in Users :
          LET r == [Idle EXCEPT !.op = op, !.user = u]
          IN  \/ /\ op = "create"
                 /\ \E d \in Created(u) :
                       job' = [job EXCEPT ![q] = [r EXCEPT !.new = d, !.suffix = TRUE,
                                                           !.step = FirstStep(d)]]
              \/ /\ op \in {"update", "publish", "remove"}
                 /\ \E i \in DOMAIN docs :
                       job' = [job EXCEPT ![q] = [r EXCEPT !.doc = i, !.step = "load"]]
              \/ /\ op = "bulkDelete"
                 /\ \E ids \in (SUBSET DOMAIN docs) \ {{}} :
                       job' = [job EXCEPT ![q] = [r EXCEPT !.ids = ids, !.step = "find"]]
              \/ /\ op \in {"get", "change"}
                 /\ job' = [job EXCEPT ![q] = [r EXCEPT !.step = "find"]]
    BY DEF Arrive
  <1> DEFINE r == [Idle EXCEPT !.op = op, !.user = u]
  <1>3. CASE op = "create" /\ \E d \in Created(u) :
                job' = [job EXCEPT ![q] = [r EXCEPT !.new = d, !.suffix = TRUE, !.step = FirstStep(d)]]
    <2>1. PICK d \in Created(u) :
                job' = [job EXCEPT ![q] = [r EXCEPT !.new = d, !.suffix = TRUE, !.step = FirstStep(d)]]
      BY <1>3
    <2>2. d \in Doc /\ d.owner = u /\ ~d.deleted /\ Valid(d) /\ (Keeps("slug") => d.slug \in Slugs)
      BY CreatedIs
    <2> DEFINE new == [r EXCEPT !.new = d, !.suffix = TRUE, !.step = FirstStep(d)]
    <2>3. /\ new \in Job /\ new.op = "create" /\ new.user = u /\ new.doc = None /\ new.new = d
          /\ new.step = FirstStep(d) /\ ~new.overtaken
      BY <1>3, <2>2 DEF Idle, Job, OpNames, StepNames, FirstStep
    <2>4. job' = [job EXCEPT ![q] = new]
      BY <2>1
    <2> HIDE DEF new
    <2>5. /\ FirstStep(d) \in {"check", "order", "insert"}
          /\ FirstStep(d) = "check" => Keeps("slug")
          /\ FirstStep(d) = "order" => Keeps("order")
          /\ FirstStep(d) = "insert" => ~Keeps("slug") /\ (Keeps("order") => d.given)
      BY DEF FirstStep
    <2>6. job'[q] = new
      BY <1>1, <2>4
    <2>7. ~Keeps("owner")
      BY <1>2, <1>3, InvFacts, CollectionsAre
    <2>8. None \notin Requests
      BY DocumentsAssumption
    <2>9. Shape(q)'
      BY <1>1, <1>2, <1>3, <2>2, <2>3, <2>5, <2>6, <2>8 DEF Shape, Saving, At, Over, Keeps, Ops
    <2>10. Brings(q)'
      BY <1>1, <2>2, <2>3, <2>5, <2>6 DEF Brings, Saving, At, Keeps, Valid, InOrder
    <2>11. Current(q)'
      BY <1>1, <2>3, <2>5, <2>6, <2>7 DEF Current, Saving, At, Keeps
    <2>12. GivenStays(q)' /\ Explained(q)'
      BY <2>3, <2>5, <2>6 DEF GivenStays, Explained, Saving, At
    <2> QED BY <1>1, <2>3, <2>4, <2>9, <2>10, <2>11, <2>12, QuietStep DEF Works
  <1>4. CASE op \in {"update", "publish", "remove"} /\ \E i \in DOMAIN docs :
                job' = [job EXCEPT ![q] = [r EXCEPT !.doc = i, !.step = "load"]]
    <2>1. PICK i \in DOMAIN docs : job' = [job EXCEPT ![q] = [r EXCEPT !.doc = i, !.step = "load"]]
      BY <1>4
    <2> DEFINE new == [r EXCEPT !.doc = i, !.step = "load"]
    <2>2. i \in Ids /\ i # q /\ (i \in Requests => job[i].step \in Over)
      BY <1>1, InvFacts
    <2>3. new \in Job /\ new.op = op /\ new.doc = i /\ new.step = "load"
      BY <1>4, <2>2 DEF Idle, Job, OpNames, StepNames
    <2>4. job' = [job EXCEPT ![q] = new]
      BY <2>1
    <2> HIDE DEF new
    <2>5. job'[q] = new /\ (i \in Requests => job'[i] = job[i])
      BY <1>1, <2>2, <2>4
    <2>6. Works(q)'
      BY <1>1, <1>2, <1>4, <2>2, <2>3, <2>5
         DEF Works, Shape, Brings, Current, GivenStays, Explained, Saving, At, Ops
    <2> QED BY <1>1, <2>3, <2>4, <2>6, QuietStep
  <1>5. CASE op = "bulkDelete" /\ \E ids \in (SUBSET DOMAIN docs) \ {{}} :
                job' = [job EXCEPT ![q] = [r EXCEPT !.ids = ids, !.step = "find"]]
    <2>1. PICK ids \in SUBSET DOMAIN docs : job' = [job EXCEPT ![q] = [r EXCEPT !.ids = ids, !.step = "find"]]
      BY <1>5
    <2> DEFINE new == [r EXCEPT !.ids = ids, !.step = "find"]
    <2>2. ids \in SUBSET Ids
      BY InvFacts
    <2>3. new \in Job /\ new.op = op /\ new.user = u /\ new.doc = None /\ new.step = "find"
      BY <1>5, <2>2 DEF Idle, Job, OpNames, StepNames
    <2>4. job' = [job EXCEPT ![q] = new]
      BY <2>1
    <2> HIDE DEF new
    <2>5. job'[q] = new /\ None \notin Requests
      BY <1>1, <2>4, DocumentsAssumption
    <2>6. Works(q)'
      BY <1>1, <1>2, <1>5, <2>3, <2>5
         DEF Works, Shape, Brings, Current, GivenStays, Explained, Saving, At, Ops
    <2> QED BY <1>1, <2>3, <2>4, <2>6, QuietStep
  <1>6. CASE op \in {"get", "change"} /\ job' = [job EXCEPT ![q] = [r EXCEPT !.step = "find"]]
    <2> DEFINE new == [r EXCEPT !.step = "find"]
    <2>3. new \in Job /\ new.op = op /\ new.user = u /\ new.doc = None /\ new.step = "find"
      BY <1>6 DEF Idle, Job, OpNames, StepNames
    <2>4. job' = [job EXCEPT ![q] = new]
      BY <1>6
    <2> HIDE DEF new
    <2>5. job'[q] = new /\ None \notin Requests
      BY <1>1, <2>4, DocumentsAssumption
    <2>6. Works(q)'
      BY <1>1, <1>2, <1>6, <2>3, <2>5
         DEF Works, Shape, Brings, Current, GivenStays, Explained, Saving, At, Ops
    <2> QED BY <1>1, <2>3, <2>4, <2>6, QuietStep
  <1> QED BY <1>2, <1>3, <1>4, <1>5, <1>6

\* A request may end at any time.
LEMMA FinishInv ==
    ASSUME Inv, NEW q \in Requests, job[q].step \notin Over, NEW new, new \in Job,
           UNCHANGED <<collection, docs>>, job' = [job EXCEPT ![q] = new],
           new.step \in Over, new.op \in Ops, new.doc = job[q].doc,
           new.step = "duplicate" => new.overtaken \/ new.buried
    PROVE  Inv'
  <1>1. job'[q] = new /\ job \in [Requests -> Job]
    BY DEF Inv, TypeOK
  <1>2. \A r \in Requests : r # q => job'[r] = job[r]
    BY <1>1
  <1>3. Shape(q)'
    BY <1>1, <1>2, InvFacts DEF Shape, Works, Over, Saving, At, Ops
  <1>4. Brings(q)' /\ Current(q)' /\ GivenStays(q)' /\ Explained(q)'
    BY <1>1 DEF Brings, Current, GivenStays, Explained, Saving, At, Over
  <1> QED BY <1>3, <1>4, QuietStep DEF Works

LEMMA AnswerInv ==
    ASSUME Inv, NEW q \in Requests, job[q].step \notin Over, job[q].op \in Ops, NEW step \in Over,
           UNCHANGED <<collection, docs>>, Answer(q, step),
           step = "duplicate" => job[q].overtaken \/ job[q].buried
    PROVE  Inv'
  <1> DEFINE new == [job[q] EXCEPT !.step = step]
  <1>1. job[q] \in Job
    BY InvFacts
  <1>2. new \in Job /\ new.step = step
    BY <1>1 DEF Job, StepNames
  <1>3. new.op = job[q].op /\ new.doc = job[q].doc /\ new.overtaken = job[q].overtaken /\ new.buried = job[q].buried
    BY <1>1 DEF Job
  <1>4. job' = [job EXCEPT ![q] = new]
    BY DEF Answer
  <1> HIDE DEF new
  <1> QED BY <1>2, <1>3, <1>4, FinishInv

LEMMA CheckSlugInv ==
    ASSUME Inv, NEW q \in Requests, CheckSlug(q)
    PROVE  Inv'
  <1> DEFINE old == job[q].new
             s == old.slug
             more == job[q].suffix /\ s[2] < MaxAttempts
             next == [job[q].new EXCEPT !.slug = <<s[1], s[2] + 1>>]
             write == IF job[q].op = "create" THEN "insert" ELSE "save"
             seen == [job[q] EXCEPT !.overtaken = FALSE]
  <1>1. /\ job[q].op \in {"create", "update"} /\ job[q].step = "check" /\ UNCHANGED <<collection, docs>>
        /\ job' = [job EXCEPT ![q] =
              IF Taken(s, job[q].doc, job[q].user)
              THEN IF more THEN [seen EXCEPT !.new = next] ELSE [seen EXCEPT !.step = "refused"]
              ELSE IF job[q].suffix /\ s[2] = MaxAttempts THEN [seen EXCEPT !.step = "refused"]
              ELSE [seen EXCEPT !.step = write, !.buried = Buried(s)]]
    BY DEF CheckSlug, At
  <1>2. /\ job[q] \in Job /\ job[q].step \notin Over /\ job[q].op \in Ops /\ q \notin DOMAIN docs
        /\ job \in [Requests -> Job]
    BY <1>1, InvFacts DEF Works, Shape, Over, Inv, TypeOK
  <1>3. /\ Keeps("slug") /\ ~Keeps("dates") /\ ~Keeps("current") /\ ~Keeps("order") /\ ~Keeps("owner")
        /\ old \in Doc /\ s \in Slugs /\ (job[q].op = "update" => job[q].seen \in Doc /\ job[q].doc \in Ids)
    BY <1>1, InvFacts, CollectionsAre DEF Works, Shape
  <1>4. \A r \in Requests : r # q => job'[r] = job[r]
    BY <1>1, <1>2
  <1>5. /\ Works(q) /\ None \notin Requests
        /\ job[q].doc \in Requests => job[q].doc # q /\ job[job[q].doc].step \in Over
    BY <1>2, InvFacts, DocumentsAssumption DEF Works, Shape
  <1>6. CASE Taken(s, job[q].doc, job[q].user) /\ more
    <2> DEFINE new == [seen EXCEPT !.new = next]
    <2>1. <<s[1], s[2] + 1>> \in Slugs
      BY <1>3, <1>6, DocumentsAssumption DEF Slugs
    <2>2. /\ next \in Doc /\ next.slug \in Slugs /\ next.owner = old.owner /\ next.deleted = old.deleted
      BY <1>3, <2>1 DEF Doc
    <2> HIDE DEF next
    <2>3. /\ new \in Job /\ new.new = next /\ new.step = "check" /\ new.op = job[q].op /\ new.user = job[q].user
          /\ new.doc = job[q].doc /\ new.seen = job[q].seen
      BY <1>1, <1>2, <2>2 DEF Job
    <2>4. job' = [job EXCEPT ![q] = new]
      BY <1>1, <1>6
    <2> HIDE DEF new
    <2>5. job'[q] = new
      BY <1>2, <2>4
    <2>6. Shape(q)'
      BY <1>1, <1>2, <1>3, <1>4, <1>5, <2>2, <2>3, <2>5 DEF Works, Shape, Saving, At, Ops, Keeps
    <2>7. Brings(q)'
      BY <1>1, <1>3, <1>5, <2>2, <2>3, <2>5 DEF Works, Brings, Valid, Saving, At, Keeps
    <2>8. Current(q)' /\ GivenStays(q)' /\ Explained(q)'
      BY <1>3, <2>3, <2>5 DEF Current, GivenStays, Explained, Saving, At, Keeps
    <2> QED BY <1>1, <1>2, <2>3, <2>4, <2>6, <2>7, <2>8, QuietStep DEF Works
  <1>7. CASE \/ Taken(s, job[q].doc, job[q].user) /\ ~more
             \/ ~Taken(s, job[q].doc, job[q].user) /\ job[q].suffix /\ s[2] = MaxAttempts
    <2> DEFINE new == [seen EXCEPT !.step = "refused"]
    <2>1. new \in Job /\ new.op = job[q].op /\ new.step = "refused" /\ new.doc = job[q].doc
      BY <1>2 DEF Job, StepNames, Over
    <2>2. job' = [job EXCEPT ![q] = new]
      BY <1>1, <1>7
    <2> HIDE DEF new
    <2> QED BY <1>1, <1>2, <2>1, <2>2, FinishInv DEF Over
  <1>8. CASE ~Taken(s, job[q].doc, job[q].user) /\ ~(job[q].suffix /\ s[2] = MaxAttempts)
    <2> DEFINE new == [seen EXCEPT !.step = write, !.buried = Buried(s)]
    <2>1. Buried(s) \in BOOLEAN
      BY DEF Buried
    <2>2. /\ new \in Job /\ new.new = old /\ new.step = write /\ new.op = job[q].op /\ new.user = job[q].user
          /\ new.doc = job[q].doc /\ new.seen = job[q].seen /\ new.buried = Buried(s)
      BY <1>1, <1>2, <2>1 DEF Job, StepNames
    <2>3. job' = [job EXCEPT ![q] = new]
      BY <1>1, <1>8
    <2> HIDE DEF new
    <2>4. job'[q] = new
      BY <1>2, <2>3
    <2>5. \/ job[q].op = "create" /\ write = "insert"
          \/ job[q].op = "update" /\ write = "save"
      BY <1>1
    <2> HIDE DEF write
    <2>6. Shape(q)'
      <3>1. job[q].op = "create" => job[q].doc = None
        BY <1>1, <1>5 DEF Works, Shape
      <3>2. job[q].doc \in Requests => job'[job[q].doc].step \in Over
        BY <1>4, <1>5
      <3> QED BY <1>1, <1>2, <1>3, <2>2, <2>4, <2>5, <3>1, <3>2 DEF Shape, Saving, At, Ops, Keeps
    <2>7. Brings(q)'
      BY <1>1, <1>3, <1>5, <2>2, <2>4, <2>5 DEF Works, Brings, Valid, Saving, At, Keeps
    <2>8. ASSUME NEW i \in DOMAIN docs \ {job[q].doc}, docs[i].slug = s
          PROVE  docs[i].deleted /\ Buried(s)
      <3>1. docs[i].deleted
        BY <1>8, <2>8 DEF Taken, Live
      <3> QED BY <2>8, <3>1 DEF Buried
    <2>9. Current(q)'
      BY <1>1, <1>3, <2>2, <2>4, <2>8, <2>5 DEF Current, Saving, At, Keeps
    <2>10. GivenStays(q)' /\ Explained(q)'
      BY <1>1, <1>3, <2>2, <2>4, <2>5 DEF GivenStays, Explained, Saving, At, Keeps
    <2> QED BY <1>1, <1>2, <2>2, <2>3, <2>6, <2>7, <2>9, <2>10, QuietStep DEF Works
  <1> QED BY <1>6, <1>7, <1>8

LEMMA FindOrderInv ==
    ASSUME Inv, NEW q \in Requests, FindOrder(q)
    PROVE  Inv'
  <1> DEFINE old == job[q].new
             order == NextOrder(job[q].user)
             next == [old EXCEPT !.order = order]
             new == [job[q] EXCEPT !.new = next, !.step = "insert", !.overtaken = FALSE]
  <1>1. job[q].op = "create" /\ job[q].step = "order" /\ UNCHANGED <<collection, docs>>
    BY DEF FindOrder, At
  <1>2. /\ job[q] \in Job /\ job[q].step \notin Over /\ job[q].op \in Ops /\ q \notin DOMAIN docs
        /\ job \in [Requests -> Job] /\ TypeOK
    BY <1>1, InvFacts DEF Works, Shape, Over, Inv, TypeOK
  <1>3. /\ Keeps("order") /\ ~Keeps("dates") /\ ~Keeps("current") /\ ~Keeps("slug") /\ ~Keeps("owner")
        /\ old \in Doc /\ job[q].doc = None /\ None \notin Requests
    BY <1>1, InvFacts, CollectionsAre, DocumentsAssumption DEF Works, Shape
  <1>4. old.owner = job[q].user /\ ~old.deleted /\ job[q].user \in Users
    <2>1. old.owner = job[q].user /\ ~old.deleted
      BY <1>1, InvFacts DEF Works, Brings
    <2> QED BY <1>3, <2>1 DEF Doc
  <1>5. order \in Nat /\ \A i \in LiveOwn(job[q].user) : docs[i].order < order
    BY <1>2, <1>4, NextOrderIsNext
  <1>6. next \in Doc /\ next.order = order /\ next.owner = job[q].user /\ ~next.deleted
    BY <1>3, <1>4, <1>5 DEF Doc
  <1>7. job' = [job EXCEPT ![q] = new]
    BY DEF FindOrder
  <1> HIDE DEF next, order
  <1>8. /\ new \in Job /\ new.new = next /\ new.step = "insert" /\ new.op = "create" /\ new.user = job[q].user
        /\ new.doc = None
    BY <1>1, <1>2, <1>3, <1>6 DEF Job, StepNames
  <1> HIDE DEF new
  <1>9. job'[q] = new
    BY <1>2, <1>7
  <1>10. Shape(q)'
    BY <1>1, <1>2, <1>3, <1>6, <1>8, <1>9 DEF Shape, Saving, At, Ops, Keeps
  <1>11. Brings(q)'
    BY <1>1, <1>3, <1>6, <1>8, <1>9 DEF Brings, Valid, Saving, At, Keeps
  <1>12. Current(q)'
    BY <1>1, <1>3, <1>5, <1>6, <1>8, <1>9 DEF Current, Saving, At, Keeps, LiveOwn, Own, Live
  <1>13. GivenStays(q)' /\ Explained(q)'
    BY <1>8, <1>9 DEF GivenStays, Explained, Saving, At
  <1> QED BY <1>1, <1>2, <1>7, <1>8, <1>10, <1>11, <1>12, <1>13, QuietStep DEF Works

\* A request has loaded a document and is about to save it.
LEMMA LoadedInv ==
    ASSUME Inv, NEW q \in Requests, job[q].step \notin Over, job[q].op \in Ops,
           job[q].op \in {"update", "publish", "remove", "change"},
           UNCHANGED <<collection, docs>>, NEW i \in DOMAIN docs,
           NEW new, new \in Job, job' = [job EXCEPT ![q] = new], new.op = job[q].op,
           new.step = "save", new.doc = i, new.seen = docs[i], new.new \in Doc,
           new.new.owner = docs[i].owner, new.new.slug = docs[i].slug,
           docs[i].deleted => new.new.deleted,
           job[q].op = "update" /\ new.new # docs[i] => Valid(new.new) /\ (Keeps("order") => new.new.given),
           job[q].op # "update" => \A f \in {"start", "end", "current", "slug", "order", "given", "mixed"} :
                                      new.new[f] = docs[i][f]
    PROVE  Inv'
  <1>1. job'[q] = new /\ job \in [Requests -> Job] /\ q \notin DOMAIN docs /\ i # q
    BY InvFacts DEF Inv, TypeOK
  <1>2. docs[i] \in Doc /\ i \in Ids /\ (i \in Requests => job'[i].step \in Over)
    BY <1>1, InvFacts
  <1>3. Shape(q)'
    BY <1>1, <1>2 DEF Shape, Saving, At, Ops
  <1>4. Brings(q)'
    <2>1. new.new.deleted = docs[i].deleted \/ new.new.deleted
      BY <1>2 DEF Doc
    <2> QED BY <1>1, <2>1 DEF Brings, Valid, InOrder, Saving, At, Keeps
  <1>5. Current(q)' /\ GivenStays(q)' /\ Explained(q)'
    BY <1>1 DEF Current, GivenStays, Explained, Saving, At
  <1> QED BY <1>1, <1>3, <1>4, <1>5, QuietStep DEF Works

LEMMA LoadInv ==
    ASSUME Inv, NEW q \in Requests, Load(q)
    PROVE  Inv'
  <1> DEFINE i == job[q].doc
             b == docs[i]
             r == [job[q] EXCEPT !.seen = b, !.new = b, !.step = "save", !.overtaken = FALSE]
  <1>1. job[q].op \in {"update", "publish", "remove"} /\ job[q].step = "load" /\ UNCHANGED <<collection, docs>>
    BY DEF Load, At
  <1>2. /\ job[q] \in Job /\ job[q].step \notin Over /\ job[q].op \in Ops /\ q \notin DOMAIN docs
        /\ job \in [Requests -> Job] /\ collection \in DOMAIN Collections
    BY <1>1, InvFacts DEF Works, Shape, Over, Inv, TypeOK
  <1>3. CASE i \in LiveOwn(job[q].user)
    <2>1. i \in DOMAIN docs /\ b \in Doc
      BY <1>3, InvFacts DEF LiveOwn, Own
    <2>2. /\ r \in Job /\ r.op = job[q].op /\ r.step = "save" /\ r.doc = i /\ r.seen = b /\ r.new = b
          /\ ~r.overtaken
      BY <1>2, <2>1 DEF Job, StepNames
    <2>3. \/ job[q].op = "remove" /\ job' = [job EXCEPT ![q] = [r EXCEPT !.new.deleted = TRUE]]
          \/ job[q].op = "publish" /\ job' = [job EXCEPT ![q] = r]
          \/ job[q].op = "update" /\ \E d \in Updates(b) : job' = [job EXCEPT ![q] = [r EXCEPT !.new = d]]
          \/ job[q].op = "update" /\ Keeps("slug") /\ \E n \in SlugUpdates(r) : job' = [job EXCEPT ![q] = n]
      BY <1>1, <1>3 DEF Load
    <2> HIDE DEF r, b, i
    <2>4. i = job[q].doc /\ b = docs[i]
      BY DEF i, b
    <2>5. CASE job[q].op = "remove" /\ job' = [job EXCEPT ![q] = [r EXCEPT !.new.deleted = TRUE]]
      <3> DEFINE next == [b EXCEPT !.deleted = TRUE]
                 new == [r EXCEPT !.new.deleted = TRUE]
      <3>1. /\ next \in Doc /\ next.deleted
            /\ \A f \in {"owner", "start", "end", "current", "slug", "order", "given", "mixed"} : next[f] = b[f]
        BY <2>1 DEF Doc
      <3>2. new.new = next
        BY <2>2 DEF Job
      <3> HIDE DEF next
      <3>3. new \in Job /\ new.op = job[q].op /\ new.step = "save" /\ new.doc = i /\ new.seen = b
        BY <2>2, <3>1, <3>2 DEF Job
      <3>4. job' = [job EXCEPT ![q] = new]
        BY <2>5
      <3> HIDE DEF new
      <3>5. job[q].op = "remove"
        BY <2>5
      <3> QED BY <1>1, <1>2, <2>1, <2>4, <3>1, <3>2, <3>3, <3>4, <3>5, LoadedInv
    <2>6. CASE job[q].op = "publish" /\ job' = [job EXCEPT ![q] = r]
      BY <1>1, <1>2, <2>1, <2>2, <2>4, <2>6, LoadedInv
    <2>7. CASE job[q].op = "update" /\ \E d \in Updates(b) : job' = [job EXCEPT ![q] = [r EXCEPT !.new = d]]
      <3>1. PICK d \in Updates(b) : job' = [job EXCEPT ![q] = [r EXCEPT !.new = d]]
        BY <2>7
      <3>2. /\ d \in Doc /\ d.owner = b.owner /\ d.slug = b.slug /\ d.deleted = b.deleted
            /\ d # b => Valid(d) /\ (Keeps("order") => d.given)
        BY <1>2, <2>1, UpdatesAre
      <3> DEFINE new == [r EXCEPT !.new = d]
      <3>3. /\ new \in Job /\ new.op = job[q].op /\ new.step = "save" /\ new.doc = i /\ new.seen = b
            /\ new.new = d
        BY <2>2, <3>2 DEF Job
      <3>4. job' = [job EXCEPT ![q] = new]
        BY <3>1
      <3> HIDE DEF new
      <3>5. job[q].op = "update"
        BY <2>7
      <3> QED BY <1>1, <1>2, <2>1, <2>4, <3>2, <3>3, <3>4, <3>5, LoadedInv
    <2>8. CASE job[q].op = "update" /\ Keeps("slug") /\ \E n \in SlugUpdates(r) : job' = [job EXCEPT ![q] = n]
      <3>1. PICK n \in SlugUpdates(r) : job' = [job EXCEPT ![q] = n]
        BY <2>8
      <3>2. /\ n \in Job /\ n.step = "check" /\ n.new \in Doc /\ n.new.slug \in Slugs
            /\ n.new.owner = b.owner /\ n.new.deleted = b.deleted
            /\ n.op = "update" /\ n.doc = i /\ n.seen = b
        BY <2>1, <2>2, <2>8, SlugUpdatesAre
      <3>3. job'[q] = n /\ i # q /\ i \in Ids /\ (i \in Requests => job'[i].step \in Over)
        <4>1. i # q /\ i \in Ids /\ (i \in Requests => job[i].step \in Over)
          BY <1>2, <2>1, InvFacts
        <4> QED BY <1>2, <3>1, <4>1
      <3>4. Shape(q)'
        BY <1>1, <1>2, <2>1, <2>8, <3>2, <3>3 DEF Shape, Saving, At, Ops, Keeps
      <3>5. Brings(q)'
        BY <3>2, <3>3 DEF Brings, Saving, At
      <3>6. Current(q)' /\ GivenStays(q)' /\ Explained(q)'
        BY <3>2, <3>3 DEF Current, GivenStays, Explained, Saving, At
      <3> QED BY <1>1, <1>2, <3>1, <3>2, <3>4, <3>5, <3>6, QuietStep DEF Works
    <2> QED BY <2>3, <2>5, <2>6, <2>7, <2>8
  <1>4. CASE i \notin LiveOwn(job[q].user)
    BY <1>1, <1>2, <1>4, AnswerInv DEF Load, Over
  <1> QED BY <1>3, <1>4

LEMMA FindIdsInv ==
    ASSUME Inv, NEW q \in Requests, FindIds(q)
    PROVE  Inv'
  <1> DEFINE found == job[q].ids \cap LiveOwn(job[q].user)
             step == IF found = {} THEN "refused" ELSE "save"
             new == [job[q] EXCEPT !.ids = found, !.step = step]
  <1>1. job[q].op = "bulkDelete" /\ job[q].step = "find" /\ UNCHANGED <<collection, docs>>
    BY DEF FindIds, At
  <1>2. /\ job[q] \in Job /\ job[q].step \notin Over /\ job[q].op \in Ops /\ q \notin DOMAIN docs
        /\ job \in [Requests -> Job] /\ job[q].doc = None /\ None \notin Requests
    BY <1>1, InvFacts, DocumentsAssumption DEF Works, Shape, Over, Inv, TypeOK
  <1>3. found \in SUBSET Ids
    BY InvFacts DEF LiveOwn, Own
  <1>4. job' = [job EXCEPT ![q] = new]
    BY DEF FindIds
  <1>8. step \in {"refused", "save"}
    OBVIOUS
  <1> HIDE DEF found, step
  <1>5. new \in Job /\ new.op = "bulkDelete" /\ new.doc = None /\ new.step \in {"refused", "save"}
    BY <1>1, <1>2, <1>3, <1>8 DEF Job, StepNames, Over
  <1> HIDE DEF new
  <1>6. job'[q] = new
    BY <1>2, <1>4
  <1>7. Works(q)'
    BY <1>1, <1>2, <1>5, <1>6 DEF Works, Shape, Brings, Current, GivenStays, Explained, Saving, At, Ops
  <1> QED BY <1>1, <1>2, <1>4, <1>5, <1>7, QuietStep

LEMMA FindOwnInv ==
    ASSUME Inv, NEW q \in Requests, FindOwn(q)
    PROVE  Inv'
  <1> DEFINE u == job[q].user
             r == [job[q] EXCEPT !.overtaken = FALSE]
  <1>1. /\ job[q].op \in {"get", "change"} /\ job[q].step = "find" /\ UNCHANGED <<collection, docs>>
        /\ \/ /\ Own(u) = {}
              /\ job' = [job EXCEPT ![q] = [r EXCEPT !.new = Blank(u), !.step = "insert"]]
           \/ /\ Own(u) # {} /\ job[q].op = "get"
              /\ Answer(q, "ok")
           \/ /\ job[q].op = "change"
              /\ \E i \in Own(u) : job' = [job EXCEPT ![q] = [r EXCEPT !.doc = i, !.seen = docs[i],
                                                                      !.new = docs[i], !.step = "save"]]
    BY DEF FindOwn, At
  <1>2. /\ job[q] \in Job /\ job[q].step \notin Over /\ job[q].op \in Ops /\ q \notin DOMAIN docs
        /\ job \in [Requests -> Job] /\ job[q].doc = None /\ None \notin Requests
    BY <1>1, InvFacts, DocumentsAssumption DEF Works, Shape, Over, Inv, TypeOK
  <1>3. Keeps("owner") /\ ~Keeps("dates") /\ ~Keeps("current") /\ ~Keeps("slug") /\ ~Keeps("order")
    BY <1>1, <1>2, InvFacts, CollectionsAre
  <1>4. CASE Own(u) = {} /\ job' = [job EXCEPT ![q] = [r EXCEPT !.new = Blank(u), !.step = "insert"]]
    <2> DEFINE new == [r EXCEPT !.new = Blank(u), !.step = "insert"]
    <2>1. u \in Users
      BY <1>1, InvFacts DEF Works, Shape
    <2>2. Blank(u) \in Doc /\ Blank(u).owner = u /\ ~Blank(u).deleted /\ Valid(Blank(u))
      BY <2>1, BlankIs
    <2>3. /\ new \in Job /\ new.op = job[q].op /\ new.step = "insert" /\ new.doc = None /\ new.new = Blank(u)
      BY <1>2, <2>2 DEF Job, StepNames
    <2>4. job' = [job EXCEPT ![q] = new]
      BY <1>4
    <2> HIDE DEF new
    <2>5. job'[q] = new
      BY <1>2, <2>4
    <2>6. Shape(q)'
      BY <1>1, <1>2, <2>2, <2>3, <2>5 DEF Shape, Saving, At, Ops
    <2>7. Brings(q)'
      BY <1>1, <1>3, <2>2, <2>3, <2>5 DEF Brings, Valid, InOrder, Saving, At, Keeps
    <2>8. Current(q)'
      BY <1>1, <1>3, <1>4, <2>2, <2>3, <2>5 DEF Current, Saving, At, Keeps, Own
    <2>9. GivenStays(q)' /\ Explained(q)'
      BY <2>3, <2>5 DEF GivenStays, Explained, Saving, At
    <2> QED BY <1>1, <1>2, <2>3, <2>4, <2>6, <2>7, <2>8, <2>9, QuietStep DEF Works
  <1>5. CASE Answer(q, "ok")
    BY <1>1, <1>2, <1>5, AnswerInv DEF Over
  <1>6. CASE job[q].op = "change" /\ \E i \in Own(u) :
                job' = [job EXCEPT ![q] = [r EXCEPT !.doc = i, !.seen = docs[i], !.new = docs[i], !.step = "save"]]
    <2>1. PICK i \in Own(u) :
                job' = [job EXCEPT ![q] = [r EXCEPT !.doc = i, !.seen = docs[i], !.new = docs[i], !.step = "save"]]
      BY <1>6
    <2>2. i \in DOMAIN docs /\ docs[i] \in Doc /\ i \in Ids
      BY InvFacts DEF Own
    <2> DEFINE new == [r EXCEPT !.doc = i, !.seen = docs[i], !.new = docs[i], !.step = "save"]
    <2>3. /\ new \in Job /\ new.op = job[q].op /\ new.step = "save" /\ new.doc = i /\ new.new = docs[i]
          /\ new.seen = docs[i]
      BY <1>2, <2>2 DEF Job, StepNames
    <2>4. job' = [job EXCEPT ![q] = new]
      BY <2>1
    <2> HIDE DEF new
    <2> QED BY <1>1, <1>2, <1>6, <2>2, <2>3, <2>4, LoadedInv
  <1> QED BY <1>1, <1>4, <1>5, <1>6

-----------------------------------------------------------------------------
(* The steps that write                                                    *)

\* A write overtakes the others, or does not touch what they look at.
LEMMA OthersOvertaken ==
    ASSUME Inv, NEW q \in Requests, job[q].step \notin Over, collection' = collection,
           job' \in [Requests -> Job], job'[q].step \in Over, NEW ids,
           \A r \in Requests \ {q} :
              job'[r] = IF Running(r) /\ (job[r].doc \in ids \/ Keeps("slug") \/ Keeps("order") \/ Keeps("owner"))
                        THEN [job[r] EXCEPT !.overtaken = TRUE] ELSE job[r],
           DOMAIN docs' \subseteq DOMAIN docs \cup {q},
           \A i \in DOMAIN docs' \ (ids \cup {q}) :
              \A f \in {"start", "end", "current"} : docs'[i][f] = docs[i][f],
           Keeps("order") => \A i \in DOMAIN docs' \cap DOMAIN docs : docs[i].given => docs'[i].given,
           NEW r \in Requests, r # q
    PROVE  Works(r)'
  <1> DEFINE Meets == Running(r) /\ (job[r].doc \in ids \/ Keeps("slug") \/ Keeps("order") \/ Keeps("owner"))
  <1>1. job[r] \in Job /\ Works(r) /\ job \in [Requests -> Job]
    BY InvFacts DEF Inv, TypeOK
  <1>2. \A p \in Requests \ {q} :
           job'[p].step = job[p].step /\ (job'[p] = job[p] \/ job'[p] = [job[p] EXCEPT !.overtaken = TRUE])
    BY <1>1 DEF Job
  <1>3. \A f \in {"op", "user", "step", "doc", "ids", "seen", "new", "suffix", "buried"} : job'[r][f] = job[r][f]
    BY <1>1, <1>2 DEF Job
  <1>4. /\ Meets => job'[r].overtaken
        /\ ~Meets => job'[r] = job[r]
        /\ job[r].overtaken => job'[r].overtaken
    <2>1. CASE Meets
      BY <1>1, <2>1 DEF Job
    <2>2. CASE ~Meets
      BY <2>2
    <2> QED BY <2>1, <2>2
  <1>5. /\ r \notin DOMAIN docs' \/ r \in DOMAIN docs
        /\ job[r].doc # q
        /\ job[r].doc \in Requests => job'[job[r].doc].step \in Over
    BY <1>1, <1>2 DEF Works, Shape
  <1>6. Shape(r)'
    BY <1>1, <1>3, <1>5 DEF Works, Shape, Saving, At, Ops, Keeps
  <1>7. Brings(r)'
    BY <1>1, <1>3 DEF Works, Brings, Valid, InOrder, Saving, At, Keeps
  <1>8. Saving(r) \/ job[r].step = "insert" => Running(r)
    BY DEF Saving, At, Running, Over
  <1>9. Current(r)'
    <2>1. CASE Meets
      BY <1>3, <1>4, <2>1 DEF Current
    <2>2. CASE ~Meets /\ Running(r)
      <3>1. job[r].doc \notin ids /\ ~Keeps("slug") /\ ~Keeps("order") /\ ~Keeps("owner")
        BY <2>2
      <3>2. job[r].doc \in DOMAIN docs' =>
               job[r].doc \in DOMAIN docs
               /\ \A f \in {"start", "end", "current"} : docs'[job[r].doc][f] = docs[job[r].doc][f]
        BY <1>5, <3>1
      <3> QED BY <1>1, <1>3, <1>4, <2>2, <3>1, <3>2 DEF Works, Current, Saving, At, Keeps
    <2>3. CASE ~Running(r)
      BY <1>3, <1>8, <2>3 DEF Current, Saving, At
    <2> QED BY <2>1, <2>2, <2>3
  <1>10. GivenStays(r)'
    BY <1>1, <1>3, <1>5 DEF Works, GivenStays, Saving, At, Keeps
  <1>11. Explained(r)'
    BY <1>1, <1>3, <1>4 DEF Works, Explained
  <1> QED BY <1>6, <1>7, <1>9, <1>10, <1>11 DEF Works

\* A write keeps the invariant of the requests.
LEMMA WriteStep ==
    ASSUME Inv, NEW q \in Requests, job[q].step \notin Over, collection' = collection,
           NEW ids, NEW new, new \in Job, new.step = "ok", new.op \in Ops, new.doc = job[q].doc,
           \A r \in Requests :
              job'[r] = IF r = q THEN new
                        ELSE IF Running(r) /\ (job[r].doc \in ids \/ Keeps("slug") \/ Keeps("order") \/ Keeps("owner"))
                        THEN [job[r] EXCEPT !.overtaken = TRUE] ELSE job[r],
           DOMAIN job' = Requests, job' = [r \in Requests |-> job'[r]],
           DOMAIN docs' \subseteq DOMAIN docs \cup {q}, \A i \in DOMAIN docs' : docs'[i] \in Doc,
           \A i \in DOMAIN docs' \ (ids \cup {q}) :
              \A f \in {"start", "end", "current"} : docs'[i][f] = docs[i][f],
           Keeps("order") => \A i \in DOMAIN docs' \cap DOMAIN docs : docs[i].given => docs'[i].given,
           DocsInv'
    PROVE  Inv'
  <1>1. job \in [Requests -> Job] /\ collection \in DOMAIN Collections /\ DOMAIN docs \subseteq Ids
    BY DEF Inv, TypeOK
  <1>2. ASSUME NEW r \in Requests  PROVE  job'[r] \in Job
    <2>1. job[r] \in Job
      BY <1>1
    <2>2. [job[r] EXCEPT !.overtaken = TRUE] \in Job
      BY <2>1 DEF Job
    <2> QED BY <2>1, <2>2
  <1>3. TypeOK'
    BY <1>1, <1>2 DEF TypeOK, Ids
  <1>4. \A r \in Requests \ {q} : Works(r)'
    <2>1. job' \in [Requests -> Job] /\ job'[q].step \in Over
      BY <1>3 DEF TypeOK, Over
    <2> QED BY <2>1, OthersOvertaken
  <1>5. Works(q)'
    <2>1. job'[q] = new
      OBVIOUS
    <2>2. job[q].doc \in Requests => job[q].doc # q /\ job[job[q].doc].step \in Over
      BY InvFacts DEF Works, Shape
    <2>3. job[q].doc \in Requests => job'[job[q].doc].step \in Over
      BY <1>1, <2>2 DEF Job, Running
    <2>4. Shape(q)'
      BY <2>1, <2>3 DEF Shape, Saving, At, Ops, Over
    <2>5. Brings(q)' /\ Current(q)' /\ GivenStays(q)' /\ Explained(q)'
      BY <2>1 DEF Brings, Current, GivenStays, Explained, Saving, At
    <2> QED BY <2>4, <2>5 DEF Works
  <1> QED BY <1>3, <1>4, <1>5 DEF Inv

\* A new document that differs from the others where it must.
LEMMA AddedKeeps ==
    ASSUME Inv, collection' = collection, NEW q, q \notin DOMAIN docs, NEW d \in Doc, docs' = Added(q, d),
           d.mixed \/ Valid(d), Unique(d, q, docs),
           Keeps("order") => d.given \/ d.mixed \/ \A i \in LiveOwn(d.owner) : docs[i].order < d.order
    PROVE  DocsInv'
  <1>1. /\ DOMAIN docs' = DOMAIN docs \cup {q} /\ docs'[q] = d
        /\ \A i \in DOMAIN docs : docs'[i] = docs[i] /\ docs[i] \in Doc
    BY InvFacts DEF Added, Inv, TypeOK
  <1>2. DatesInOrder'
    BY <1>1 DEF Inv, DocsInv, DatesInOrder, Valid, InOrder, Keeps
  <1>3. Distinct'
    BY <1>1 DEF Inv, DocsInv, Distinct, Unique, Keeps
  <1>4. OrdersExplained'
    <2> SUFFICES ASSUME Keeps("order"), NEW u \in Users, NEW i \in LiveOwn(u)', NEW j \in LiveOwn(u)' \ {i},
                        docs'[i].order = docs'[j].order
                 PROVE  \E k \in {i, j} : docs'[k].given \/ docs'[k].mixed
      BY DEF OrdersExplained, Keeps
    <2>1. \A k \in LiveOwn(u)' : k # q => k \in LiveOwn(u)
      BY <1>1 DEF LiveOwn, Own, Live
    <2>2. q \in LiveOwn(u)' => d.owner = u
      BY <1>1 DEF LiveOwn, Own
    <2>3. \A k \in LiveOwn(u) : docs'[k] = docs[k] /\ docs[k].order \in Nat
      BY <1>1 DEF LiveOwn, Own, Doc
    <2>4. CASE i # q /\ j # q
      BY <2>1, <2>3, <2>4 DEF Inv, DocsInv, OrdersExplained
    <2>5. CASE i = q /\ j # q
      BY <1>1, <2>1, <2>2, <2>3, <2>5 DEF Doc
    <2>6. CASE i # q /\ j = q
      BY <1>1, <2>1, <2>2, <2>3, <2>6 DEF Doc
    <2> QED BY <2>4, <2>5, <2>6
  <1> QED BY <1>2, <1>3, <1>4 DEF DocsInv

LEMMA InsertInv ==
    ASSUME Inv, NEW q \in Requests, Insert(q)
    PROVE  Inv'
  <1> DEFINE d == [job[q].new EXCEPT !.mixed = job[q].overtaken]
             new == [job[q] EXCEPT !.step = "ok"]
  <1>1. /\ job[q].step = "insert" /\ collection' = collection
        /\ \/ Unique(d, q, docs) /\ docs' = Added(q, d) /\ job' = After(q, "ok", {q})
           \/ ~Unique(d, q, docs) /\ Answer(q, "duplicate") /\ UNCHANGED docs
    BY DEF Insert, At
  <1>2. /\ job[q] \in Job /\ job[q].step \notin Over /\ job[q].op \in Ops /\ q \notin DOMAIN docs
        /\ Current(q) /\ Brings(q) /\ job[q].new \in Doc
    BY <1>1, InvFacts DEF Works, Shape, Over
  <1>3. job[q].doc = None /\ q \in Ids /\ None \notin Ids
    <2>1. None \notin Ids /\ q \in Ids
      BY DocumentsAssumption DEF Ids
    <2>2. job[q].op = "update" \/ job[q].doc = None
      BY <1>1, InvFacts DEF Works, Shape
    <2>3. job[q].op \in {"create", "get", "change"}
      BY <1>1, InvFacts DEF Works, Shape
    <2> QED BY <2>1, <2>2, <2>3
  <1>4. /\ d \in Doc /\ d.mixed = job[q].overtaken
        /\ \A f \in {"owner", "start", "end", "current", "slug", "order", "given"} : d[f] = job[q].new[f]
    BY <1>2 DEF Doc, Job
  <1>5. CASE Unique(d, q, docs) /\ docs' = Added(q, d) /\ job' = After(q, "ok", {q})
    <2> HIDE DEF d
    <2>1. Valid(d)
      BY <1>1, <1>2, <1>4 DEF Brings, Valid, InOrder
    <2>2. Keeps("order") => d.given \/ d.mixed \/ \A i \in LiveOwn(d.owner) : docs[i].order < d.order
      BY <1>1, <1>2, <1>4 DEF Current
    <2>3. DocsInv'
      BY <1>1, <1>2, <1>4, <1>5, <2>1, <2>2, AddedKeeps
    <2>4. /\ DOMAIN docs' = DOMAIN docs \cup {q} /\ docs'[q] = d
          /\ \A i \in DOMAIN docs : docs'[i] = docs[i] /\ docs[i] \in Doc
      BY <1>2, <1>5 DEF Added, Inv, TypeOK
    <2>5. new \in Job /\ new.step = "ok" /\ new.op = job[q].op /\ new.doc = job[q].doc
      BY <1>2 DEF Job, StepNames, Over
    <2>6. job' = [r \in Requests |->
                    IF r = q THEN new
                    ELSE IF Running(r) /\ (job[r].doc \in {q} \/ Keeps("slug") \/ Keeps("order") \/ Keeps("owner"))
                    THEN [job[r] EXCEPT !.overtaken = TRUE] ELSE job[r]]
      BY <1>5 DEF After
    <2> HIDE DEF new
    <2> QED BY <1>1, <1>2, <1>4, <2>3, <2>4, <2>5, <2>6, WriteStep
  <1>6. CASE ~Unique(d, q, docs) /\ Answer(q, "duplicate") /\ UNCHANGED docs
    <2> HIDE DEF d
    <2>1. job[q].overtaken \/ job[q].buried
      <3>1. PICK i \in DOMAIN docs \ {q} : \/ Keeps("slug") /\ docs[i].slug = d.slug
                                           \/ Keeps("owner") /\ docs[i].owner = d.owner
        BY <1>6 DEF Unique
      <3>2. i # job[q].doc
        BY <1>3, InvFacts
      <3> QED BY <1>1, <1>2, <1>4, <3>1, <3>2 DEF Current
    <2> QED BY <1>1, <1>2, <1>6, <2>1, AnswerInv DEF Over
  <1> QED BY <1>1, <1>5, <1>6

\* What a save makes of the document.
LEMMA SavesAre ==
    ASSUME Inv, NEW q \in Requests, Saving(q), job[q].doc \in DOMAIN docs
    PROVE  LET old == docs[job[q].doc]
               d == Saved(q, old)
           IN  /\ d \in Doc /\ d.owner = old.owner
               /\ ~d.deleted => ~old.deleted
               /\ Keeps("order") => (old.given => d.given)
               /\ old.mixed \/ Valid(old) => d.mixed \/ Valid(d)
               /\ Keeps("order") /\ ~d.given => d.order = old.order /\ ~old.given /\ d.mixed = old.mixed
               /\ Keeps("slug") /\ d.slug # old.slug => d.slug = job[q].new.slug /\ job[q].new.slug # job[q].seen.slug
  <1> DEFINE new == job[q].new
             seen == job[q].seen
             old == docs[job[q].doc]
             d == Saved(q, old)
             changed == job[q].op = "update" /\ new # seen
  <1>1. /\ new \in Doc /\ seen \in Doc /\ old \in Doc /\ job[q].overtaken \in BOOLEAN
        /\ Shape(q) /\ Brings(q) /\ Current(q) /\ GivenStays(q) /\ collection \in DOMAIN Collections
        /\ job[q].op \in {"update", "publish", "remove", "change"} /\ job[q].step = "save"
    BY InvFacts DEF Works, Shape, Job, Saving, At
  <1>2. /\ d \in Doc
        /\ \A f \in {"owner", "deleted", "start", "end", "current", "slug", "order", "given"} :
              d[f] = IF new[f] = seen[f] THEN old[f] ELSE new[f]
        /\ d.mixed = IF changed THEN job[q].overtaken ELSE IF new.mixed = seen.mixed THEN old.mixed ELSE new.mixed
    BY <1>1, SavedIs
  <1>3. changed => Valid(new) /\ (Keeps("order") => new.given)
    BY <1>1 DEF Brings, At
  <1>4. ~changed => \A f \in {"start", "end", "current", "slug", "order", "given", "mixed"} : new[f] = seen[f]
    <2>1. CASE new = seen
      BY <2>1
    <2>2. CASE job[q].op # "update"
      BY <1>1, <2>2 DEF Brings, At
    <2> QED BY <2>1, <2>2
  <1>5. new.owner = seen.owner /\ (new.deleted = seen.deleted \/ new.deleted)
    BY <1>1 DEF Brings
  <1>6. Keeps("order") /\ seen.given => old.given
    BY <1>1 DEF GivenStays
  <1>7. Keeps("dates") \/ Keeps("current") =>
           job[q].overtaken \/ \A f \in {"start", "end", "current"} : old[f] = seen[f]
    BY <1>1 DEF Current
  <1> HIDE DEF new, seen, old, d, changed
  <1>8. d.owner = old.owner /\ (~d.deleted => ~old.deleted)
    BY <1>2, <1>5
  <1>9. Keeps("order") => (old.given => d.given)
    BY <1>2, <1>3, <1>4
  <1>10. ASSUME old.mixed \/ Valid(old)  PROVE  d.mixed \/ Valid(d)
    <2>1. CASE ~changed
      <3>1. d.mixed = old.mixed /\ \A f \in {"start", "end", "current"} : d[f] = old[f]
        BY <1>2, <1>4, <2>1
      <3> QED BY <1>10, <3>1 DEF Valid, InOrder
    <2>2. CASE changed /\ ~job[q].overtaken
      <3>1. Keeps("dates") \/ Keeps("current") => \A f \in {"start", "end", "current"} : d[f] = new[f]
        BY <1>2, <1>7, <2>2
      <3> QED BY <1>3, <2>2, <3>1 DEF Valid, InOrder
    <2>3. CASE changed /\ job[q].overtaken
      BY <1>2, <2>3
    <2> QED BY <2>1, <2>2, <2>3
  <1>11. ASSUME Keeps("order"), ~d.given
         PROVE  d.order = old.order /\ ~old.given /\ d.mixed = old.mixed
    <2>1. ~changed
      <3> SUFFICES ASSUME changed  PROVE FALSE
        OBVIOUS
      <3>1. new.given
        BY <1>3, <1>11
      <3>2. CASE new.given = seen.given
        BY <1>2, <1>6, <1>11, <3>1, <3>2
      <3>3. CASE new.given # seen.given
        BY <1>2, <1>11, <3>1, <3>3
      <3> QED BY <3>2, <3>3
    <2> QED BY <1>2, <1>4, <1>11, <2>1
  <1>12. Keeps("slug") /\ d.slug # old.slug => d.slug = new.slug /\ new.slug # seen.slug
    BY <1>2
  <1> QED BY <1>2, <1>8, <1>9, <1>10, <1>11, <1>12 DEF new, seen, old, d

LEMMA SaveInv ==
    ASSUME Inv, NEW q \in Requests, Save(q)
    PROVE  Inv'
  <1> DEFINE id == job[q].doc
             d == Saved(q, docs[id])
             new == [job[q] EXCEPT !.step = "ok"]
  <1>1. /\ Saving(q) /\ job[q].step = "save" /\ collection' = collection
        /\ \/ id \notin DOMAIN docs /\ Answer(q, "failed") /\ UNCHANGED docs
           \/ id \in DOMAIN docs /\ Unique(d, id, docs) /\ docs' = [docs EXCEPT ![id] = d] /\ job' = After(q, "ok", {id})
           \/ id \in DOMAIN docs /\ ~Unique(d, id, docs) /\ Answer(q, "duplicate") /\ UNCHANGED docs
    BY DEF Save, Saving, At
  <1>2. /\ job[q] \in Job /\ job[q].step \notin Over /\ job[q].op \in Ops /\ collection \in DOMAIN Collections
        /\ Current(q)
    BY <1>1, InvFacts DEF Works, Shape, Over
  <1>3. CASE id \notin DOMAIN docs /\ Answer(q, "failed") /\ UNCHANGED docs
    BY <1>1, <1>2, <1>3, AnswerInv DEF Over
  <1>4. id \in DOMAIN docs =>
               /\ d \in Doc /\ d.owner = docs[id].owner
               /\ ~d.deleted => ~docs[id].deleted
               /\ Keeps("order") => (docs[id].given => d.given)
               /\ docs[id].mixed \/ Valid(docs[id]) => d.mixed \/ Valid(d)
               /\ Keeps("order") /\ ~d.given =>
                     d.order = docs[id].order /\ ~docs[id].given /\ d.mixed = docs[id].mixed
               /\ Keeps("slug") /\ d.slug # docs[id].slug =>
                     d.slug = job[q].new.slug /\ job[q].new.slug # job[q].seen.slug
    BY <1>1, SavesAre
  <1>5. CASE id \in DOMAIN docs /\ Unique(d, id, docs) /\ docs' = [docs EXCEPT ![id] = d] /\ job' = After(q, "ok", {id})
    <2> HIDE DEF d
    <2>1. /\ DOMAIN docs' = DOMAIN docs /\ docs'[id] = d
          /\ \A i \in DOMAIN docs \ {id} : docs'[i] = docs[i]
          /\ \A i \in DOMAIN docs : docs[i] \in Doc
      BY <1>5 DEF Inv, TypeOK
    <2>2. DatesInOrder'
      BY <1>1, <1>4, <1>5, <2>1 DEF Inv, DocsInv, DatesInOrder, Valid, InOrder, Keeps
    <2>3. Distinct'
      BY <1>1, <1>5, <2>1 DEF Inv, DocsInv, Distinct, Unique, Keeps
    <2>4. OrdersExplained'
      <3> SUFFICES ASSUME Keeps("order"), NEW u \in Users, NEW i \in LiveOwn(u)', NEW j \in LiveOwn(u)' \ {i},
                          docs'[i].order = docs'[j].order
                   PROVE  \E k \in {i, j} : docs'[k].given \/ docs'[k].mixed
        BY <1>1 DEF OrdersExplained, Keeps
      <3>1. \A k \in LiveOwn(u)' : k \in LiveOwn(u)
        BY <1>4, <1>5, <2>1 DEF LiveOwn, Own, Live
      <3>2. i \in DOMAIN docs /\ j \in DOMAIN docs
        BY <3>1 DEF LiveOwn, Own
      <3>3. \A k \in {i, j} : \/ docs'[k].given
                              \/ docs'[k].order = docs[k].order /\ docs'[k].mixed = docs[k].mixed /\ ~docs[k].given
                              \/ docs'[k] = docs[k]
        BY <1>4, <1>5, <2>1, <3>2
      <3>4. docs[i].order = docs[j].order => \E k \in {i, j} : docs[k].given \/ docs[k].mixed
        BY <3>1 DEF Inv, DocsInv, OrdersExplained
      <3> QED BY <3>3, <3>4
    <2>5. DocsInv'
      BY <2>2, <2>3, <2>4 DEF DocsInv
    <2>6. new \in Job /\ new.step = "ok" /\ new.op = job[q].op /\ new.doc = job[q].doc
      BY <1>2 DEF Job, StepNames, Over
    <2>7. job' = [r \in Requests |->
                    IF r = q THEN new
                    ELSE IF Running(r) /\ (job[r].doc \in {id} \/ Keeps("slug") \/ Keeps("order") \/ Keeps("owner"))
                    THEN [job[r] EXCEPT !.overtaken = TRUE] ELSE job[r]]
      BY <1>5 DEF After
    <2>8. \A i \in DOMAIN docs' : docs'[i] \in Doc
      BY <1>4, <1>5, <2>1
    <2>9. Keeps("order") => \A i \in DOMAIN docs' \cap DOMAIN docs : docs[i].given => docs'[i].given
      BY <1>4, <1>5, <2>1
    <2> HIDE DEF new, id
    <2> QED BY <1>1, <1>2, <2>1, <2>5, <2>6, <2>7, <2>8, <2>9, WriteStep
  <1>6. CASE id \in DOMAIN docs /\ ~Unique(d, id, docs) /\ Answer(q, "duplicate") /\ UNCHANGED docs
    <2> HIDE DEF d
    <2>1. PICK i \in DOMAIN docs \ {id} : \/ Keeps("slug") /\ docs[i].slug = d.slug
                                          \/ Keeps("owner") /\ docs[i].owner = d.owner
      BY <1>6 DEF Unique
    <2>2. Unique(docs[id], id, docs)
      BY <1>6 DEF Inv, DocsInv, Distinct
    <2>3. Keeps("slug") /\ docs[i].slug = d.slug /\ d.slug # docs[id].slug
      BY <1>4, <1>6, <2>1, <2>2 DEF Unique
    <2>4. job[q].overtaken \/ job[q].buried
      BY <1>1, <1>2, <1>4, <1>6, <2>1, <2>3 DEF Current
    <2> QED BY <1>1, <1>2, <1>6, <2>4, AnswerInv DEF Over
  <1> QED BY <1>1, <1>3, <1>5, <1>6

LEMMA DeleteIdsInv ==
    ASSUME Inv, NEW q \in Requests, DeleteIds(q)
    PROVE  Inv'
  <1> DEFINE ids == job[q].ids
             new == [job[q] EXCEPT !.step = "ok"]
  <1>1. /\ job[q].op = "bulkDelete" /\ job[q].step = "save" /\ collection' = collection
        /\ docs' = [i \in DOMAIN docs |-> [docs[i] EXCEPT !.deleted = @ \/ i \in ids]]
        /\ job' = After(q, "ok", ids)
    BY DEF DeleteIds, At
  <1>2. job[q] \in Job /\ job[q].step \notin Over /\ job[q].op \in Ops
    BY <1>1, InvFacts DEF Works, Shape, Over
  <1>3. DOMAIN docs' = DOMAIN docs /\ collection' = collection
    BY <1>1
  <1>4. ASSUME NEW i \in DOMAIN docs
        PROVE  /\ docs[i] \in Doc /\ docs'[i] \in Doc
               /\ \A f \in {"owner", "start", "end", "current", "slug", "order", "given", "mixed"} :
                     docs'[i][f] = docs[i][f]
               /\ docs[i].deleted => docs'[i].deleted
    <2>1. docs[i] \in Doc
      BY InvFacts
    <2>2. docs'[i] = [docs[i] EXCEPT !.deleted = docs[i].deleted \/ i \in ids]
      BY <1>1
    <2> QED BY <2>1, <2>2 DEF Doc
  <1>5. DatesInOrder'
    BY <1>3, <1>4 DEF Inv, DocsInv, DatesInOrder, Valid, InOrder, Keeps
  <1>6. Distinct'
    BY <1>3, <1>4 DEF Inv, DocsInv, Distinct, Unique, Keeps
  <1>7. OrdersExplained'
    <2>1. \A u \in Users : \A k \in LiveOwn(u)' : k \in LiveOwn(u)
      BY <1>3, <1>4 DEF LiveOwn, Own, Live
    <2>2. \A u \in Users : \A k \in LiveOwn(u) : k \in DOMAIN docs
      BY DEF LiveOwn, Own
    <2> QED BY <1>3, <1>4, <2>1, <2>2 DEF Inv, DocsInv, OrdersExplained, Keeps
  <1>8. DocsInv'
    BY <1>5, <1>6, <1>7 DEF DocsInv
  <1>9. new \in Job /\ new.step = "ok" /\ new.op = job[q].op /\ new.doc = job[q].doc
    BY <1>2 DEF Job, StepNames, Over
  <1>10. job' = [r \in Requests |->
                   IF r = q THEN new
                   ELSE IF Running(r) /\ (job[r].doc \in ids \/ Keeps("slug") \/ Keeps("order") \/ Keeps("owner"))
                   THEN [job[r] EXCEPT !.overtaken = TRUE] ELSE job[r]]
    BY <1>1 DEF After
  <1> HIDE DEF new, ids
  <1>11. /\ \A i \in DOMAIN docs' : docs'[i] \in Doc
         /\ \A i \in DOMAIN docs' \ (ids \cup {q}) : \A f \in {"start", "end", "current"} : docs'[i][f] = docs[i][f]
         /\ \A i \in DOMAIN docs' \cap DOMAIN docs : docs[i].given => docs'[i].given
    BY <1>3, <1>4
  <1> QED BY <1>2, <1>3, <1>8, <1>9, <1>10, <1>11, WriteStep

LEMMA UpsertInv ==
    ASSUME Inv, NEW q \in Requests, Upsert(q)
    PROVE  Inv'
  <1>1. PICK u \in Users :
           /\ docs' = IF Own(u) = {} THEN Added(q, Blank(u)) ELSE docs
           /\ job' = [After(q, "ok", Own(u)) EXCEPT ![q].op = "upsert", ![q].user = u]
    BY DEF Upsert
  <1>2. job[q] = Idle /\ "upsert" \in Ops /\ collection' = collection
    BY DEF Upsert
  <1>3. job[q].step = "idle" /\ job[q].doc = None
    BY <1>2 DEF Idle
  <1>4. /\ job[q] \in Job /\ job[q].step \notin Over /\ q \notin DOMAIN docs /\ collection \in DOMAIN Collections
        /\ job \in [Requests -> Job]
    BY <1>3, InvFacts DEF Over, Inv, TypeOK
  <1>5. Keeps("owner") /\ ~Keeps("dates") /\ ~Keeps("current") /\ ~Keeps("slug") /\ ~Keeps("order")
    BY <1>2, <1>4, CollectionsAre
  <1> DEFINE d == Blank(u)
             ended == [job[q] EXCEPT !.step = "ok"]
             new == [ended EXCEPT !.op = "upsert", !.user = u]
  <1>6. d \in Doc /\ d.owner = u /\ Valid(d)
    BY BlankIs
  <1>7. ended \in Job /\ ended.step = "ok" /\ ended.doc = None
    BY <1>3, <1>4 DEF Job, StepNames, Over
  <1> HIDE DEF ended, d
  <1>8. new \in Job /\ new.step = "ok" /\ new.op = "upsert" /\ new.doc = None
    BY <1>7 DEF Job, OpNames
  <1>9. job' = [r \in Requests |->
                   IF r = q THEN new
                   ELSE IF Running(r) /\ (job[r].doc \in Own(u) \/ Keeps("slug") \/ Keeps("order") \/ Keeps("owner"))
                   THEN [job[r] EXCEPT !.overtaken = TRUE] ELSE job[r]]
    BY <1>1 DEF After, ended
  <1> HIDE DEF new
  <1>10. CASE Own(u) = {}
    <2>1. docs' = Added(q, d)
      BY <1>1, <1>10 DEF d
    <2>2. Unique(d, q, docs)
      BY <1>5, <1>6, <1>10 DEF Unique, Own
    <2>3. DocsInv'
      BY <1>2, <1>4, <1>5, <1>6, <2>1, <2>2, AddedKeeps
    <2>4. /\ DOMAIN docs' = DOMAIN docs \cup {q} /\ docs'[q] = d
          /\ \A i \in DOMAIN docs : docs'[i] = docs[i] /\ docs[i] \in Doc
      BY <1>4, <2>1 DEF Added, Inv, TypeOK
    <2> QED BY <1>2, <1>3, <1>4, <1>5, <1>6, <1>8, <1>9, <2>3, <2>4, WriteStep
  <1>11. CASE Own(u) # {}
    <2>1. docs' = docs
      BY <1>1, <1>11
    <2>2. DocsInv'
      BY <1>2, <2>1 DEF Inv, DocsInv, DatesInOrder, Distinct, OrdersExplained, Valid, InOrder, Unique, Keeps,
                        LiveOwn, Own, Live
    <2>3. \A i \in DOMAIN docs : docs[i] \in Doc
      BY DEF Inv, TypeOK
    <2> QED BY <1>2, <1>3, <1>4, <1>5, <1>8, <1>9, <2>1, <2>2, <2>3, WriteStep
  <1> QED BY <1>10, <1>11

LEMMA DeleteAllInv ==
    ASSUME Inv, NEW u \in Users, DeleteAll(u)
    PROVE  Inv'
  <1>1. /\ "deleteAll" \in Ops /\ UNCHANGED <<collection, job>>
        /\ docs' = [i \in DOMAIN docs \ Own(u) |-> docs[i]]
    BY DEF DeleteAll
  <1>2. DOMAIN docs' \subseteq DOMAIN docs /\ \A i \in DOMAIN docs' : docs'[i] = docs[i]
    BY <1>1
  <1>3. ~Keeps("order")
    BY <1>1, CollectionsAre DEF Inv, TypeOK
  <1>4. TypeOK'
    BY <1>1, <1>2 DEF Inv, TypeOK
  <1>5. DocsInv'
    BY <1>1, <1>2, <1>3 DEF Inv, DocsInv, DatesInOrder, Distinct, OrdersExplained, Valid, InOrder, Unique, Keeps
  <1>6. ASSUME NEW r \in Requests  PROVE  Works(r)'
    <2>1. Works(r)
      BY DEF Inv
    <2>2. Shape(r)'
      BY <1>1, <1>2, <2>1 DEF Works, Shape, Saving, At, Ops, Keeps
    <2>3. Brings(r)'
      BY <1>1, <2>1 DEF Works, Brings, Valid, InOrder, Saving, At, Keeps
    <2>4. Current(r)'
      BY <1>1, <1>2, <1>3, <2>1 DEF Works, Current, Saving, At, Keeps
    <2>5. GivenStays(r)' /\ Explained(r)'
      BY <1>1, <1>2, <2>1 DEF Works, GivenStays, Explained, Saving, At, Keeps
    <2> QED BY <2>2, <2>3, <2>4, <2>5 DEF Works
  <1> QED BY <1>4, <1>5, <1>6 DEF Inv

-----------------------------------------------------------------------------
(* The theorems                                                            *)

LEMMA InvInit ==
    ASSUME Init
    PROVE  Inv
  <1>1. collection \in DOMAIN Collections /\ job = [q \in Requests |-> Idle] /\ Apart(docs)
    BY DEF Init
  <1>2. PICK ids \in SUBSET Stored : docs \in [ids -> UNION {Earlier(u) : u \in Users}]
    BY DEF Init
  <1>3. ASSUME NEW i \in DOMAIN docs  PROVE  docs[i] \in Doc /\ Valid(docs[i]) /\ i \in Stored
    <2>1. PICK u \in Users : docs[i] \in Earlier(u)
      BY <1>2
    <2>2. PICK d \in Created(u), x \in BOOLEAN : docs[i] = Older(d, x)
      BY <2>1 DEF Earlier
    <2>3. d \in Doc /\ Valid(d)
      BY CreatedIs
    <2>4. docs[i] \in Doc /\ docs[i].start = d.start /\ docs[i].end = d.end /\ docs[i].current = d.current
      BY <2>2, <2>3 DEF Doc, Older
    <2> QED BY <1>2, <2>3, <2>4 DEF Valid, InOrder
  <1>4. TypeOK
    BY <1>1, <1>3, IdleIs DEF TypeOK, Ids
  <1>5. DocsInv
    BY <1>1, <1>3 DEF DocsInv, DatesInOrder, Distinct, OrdersExplained, Apart, LiveOwn, Own
  <1>6. ASSUME NEW q \in Requests  PROVE  Works(q)
    <2>1. /\ job[q].step = "idle" /\ job[q].doc = None /\ q \notin DOMAIN docs /\ None \notin Requests
      BY <1>1, <1>3, DocumentsAssumption DEF Idle
    <2> QED BY <2>1 DEF Works, Shape, Brings, Current, GivenStays, Explained, Saving, At
  <1> QED BY <1>4, <1>5, <1>6 DEF Inv

LEMMA InvNext ==
    ASSUME Inv, [Next]_vars
    PROVE  Inv'
  <1>1. ASSUME NEW q \in Requests, Arrive(q) \/ Upsert(q) \/ Steps(q)  PROVE Inv'
    BY <1>1, ArriveInv, UpsertInv, CheckSlugInv, FindOrderInv, InsertInv, LoadInv, SaveInv, FindIdsInv,
       DeleteIdsInv, FindOwnInv DEF Steps
  <1>2. ASSUME NEW u \in Users, DeleteAll(u)  PROVE Inv'
    BY <1>2, DeleteAllInv
  <1>3. CASE UNCHANGED vars
    <2>1. TypeOK' /\ DocsInv'
      BY <1>3 DEF Inv, TypeOK, DocsInv, DatesInOrder, Distinct, OrdersExplained, Valid, InOrder, Unique, Keeps,
                  LiveOwn, Own, Live, vars
    <2>2. ASSUME NEW r \in Requests  PROVE  Works(r)'
      <3>1. Works(r) /\ UNCHANGED <<collection, docs, job>>
        BY <1>3 DEF Inv, vars
      <3>2. Shape(r)' /\ Brings(r)'
        BY <3>1 DEF Works, Shape, Brings, Valid, InOrder, Saving, At, Ops, Keeps
      <3>3. Current(r)' /\ GivenStays(r)' /\ Explained(r)'
        BY <3>1 DEF Works, Current, GivenStays, Explained, Saving, At, Keeps, LiveOwn, Own, Live
      <3> QED BY <3>2, <3>3 DEF Works
    <2> QED BY <2>1, <2>2 DEF Inv
  <1> QED BY <1>1, <1>2, <1>3 DEF Next

\* Every state of the collections keeps the invariant.
THEOREM InvHolds == Spec => []Inv
  BY InvInit, InvNext, PTL DEF Spec

\* The dates of experiences, education and certifications stay in order, unless the last
\* update was decided on a document that another request has changed since.
THEOREM DatesStay == Spec => []DatesInOrder
  <1>1. Inv => DatesInOrder
    BY DEF Inv, DocsInv
  <1> QED BY <1>1, InvHolds, PTL

\* A duplicate key, or two categories with one order, come from requests that overlap, from
\* a deleted post that holds the slug, or from an order that a client gave.
THEOREM ClashesAreExplained == Spec => []ClashesExplained
  <1>1. Inv => ClashesExplained
    BY DEF Inv, DocsInv, Works, Explained, ClashesExplained, DuplicatesExplained
  <1> QED BY <1>1, InvHolds, PTL
=============================================================================
