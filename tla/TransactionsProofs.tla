-------------------------- MODULE TransactionsProofs --------------------------
(***************************************************************************)
(* Transactions, templates, receipts, the merchant mapping and imports,    *)
(* for any documents, categories and number of concurrent requests.        *)
(***************************************************************************)
EXTENDS Transactions, FiniteSetTheorems, TLAPS

-----------------------------------------------------------------------------
(* What a request holds                                                    *)

Copying == {"duplicate", "bulkDuplicate"}

\* A transaction is loaded at these steps, a template at those.
Loaded == {"category", "suggest", "file", "save", "learn", "insert", "override", "relearn",
           "reinsert"}
TemplateLoaded == {"category", "save", "count"}

\* Which fields a handler changes in the transaction it loaded.
TransactionHeld(j) ==
    /\ j.seen \in Transaction /\ j.doc \in Transaction
    /\ j.kind # "update" => j.doc.type = j.seen.type
    /\ j.kind \notin {"update", "apply"} => j.doc.category = j.seen.category
    /\ j.kind \notin {"remove", "restore"} => j.doc.deleted = j.seen.deleted
    /\ j.kind = "restore" => j.doc.deleted = FALSE
    /\ j.kind = "remove" => j.doc.deleted = TRUE
    /\ j.kind \notin {"upload", "deleteReceipt"} => j.doc.receipt = j.seen.receipt
    /\ j.kind \notin {"extract", "discard"} => /\ j.doc.scanned = j.seen.scanned
                                               /\ j.doc.suggested = j.seen.suggested
    /\ j.kind \notin {"apply", "discard"} => j.doc.applied = j.seen.applied
    /\ j.kind = "discard" => j.doc.scanned = None /\ j.doc.suggested = None
    /\ j.step \in {"learn", "insert", "relearn", "reinsert"} => j.doc.category # None

TemplateHeld(j) ==
    /\ j.seen \in Template
    /\ j.kind \in {"updateTemplate", "removeTemplate"} =>
           j.doc \in Template /\ j.doc.usage = j.seen.usage
    /\ j.kind = "updateTemplate" => /\ "type" \in j.keeps => j.doc.type = j.seen.type
                                    /\ "category" \in j.keeps => j.doc.category = j.seen.category
    /\ j.kind = "removeTemplate" => /\ j.doc.type = j.seen.type
                                    /\ j.doc.category = j.seen.category
    /\ j.kind = "fromTemplate" => j.doc \in Transaction

CopiesHeld(j) ==
    /\ IsFiniteSet(j.todo)
    /\ j.copies + Cardinality(j.todo) + (IF j.step = "save" THEN 1 ELSE 0) <= MaxCopies
    /\ j.step = "save" => j.doc \in Transaction

JobFits(j) ==
    /\ j.step = "idle" => j.kind = None
    /\ j.step = "category" => j.kind \in {"create", "createTemplate", "update", "apply",
                                          "updateTemplate", "fromTemplate"}
    /\ j.step = "suggest" => j.kind = "extract"
    /\ j.step \in {"learn", "insert", "override", "relearn", "reinsert"} => j.kind = "apply"
    /\ j.step \in {"override", "relearn", "reinsert"} => j.category # None
    /\ j.step = "count" => j.kind \in {"fromTemplate", "incrementUsage"}
    /\ j.step \in {"history", "parse", "names", "row", "catch"} => j.kind = "import"
    /\ j.kind \in OnTransaction /\ j.step \in Loaded => TransactionHeld(j)
    /\ j.kind \in OnTemplate /\ j.step \in TemplateLoaded => TemplateHeld(j)
    /\ j.kind = "create" => j.doc \in Transaction
    /\ j.kind = "createTemplate" => j.doc \in Template
    /\ j.kind \in Copying => CopiesHeld(j)
    /\ j.kind = "import" => /\ j.copies + j.failures <= MaxCopies
                            /\ j.step \in {"history", "parse", "names"} =>
                                   j.copies = 0 /\ j.failures = 0

ShapeInv ==
    \A q \in Requests :
       /\ JobFits(job[q])
       /\ job[q].kind \in OnTransaction => job[q].target \in DOMAIN transactions
       /\ job[q].kind \in OnTemplate => job[q].target \in DOMAIN templates
       /\ job[q].todo \subseteq DOMAIN transactions

-----------------------------------------------------------------------------
(* The parts of the inductive invariant                                    *)

\* A request was over when it is past.
PastInv == \A r \in Requests : \A q \in past[r] : job[q].step \in Over

\* A document named by a request was made by it: no two steps make the same one.
MadeInv ==
    /\ \A q \in Requests, n \in 1..MaxCopies : <<q, n>> \in DOMAIN transactions =>
          \/ job[q].kind \in {"create", "fromTemplate"} /\ n = 1
             /\ job[q].step \in {"count", "ok", "failed"}
          \/ job[q].kind \in Copying /\ n <= job[q].copies
          \/ job[q].kind = "import" /\ n <= job[q].copies + job[q].failures
    /\ \A q \in Requests \cap DOMAIN templates :
          job[q].kind \in {"createTemplate", "saveAsTemplate"} /\ job[q].step = "ok"

\* Someone extracts, or has extracted, from d's transaction, and was not over before d.
ExtractedBeside(d) ==
    \E x \in Requests \ past[d] : job[x].kind = "extract" /\ job[x].target = job[d].target

\* What a discard does not know of, or has cleared, is an extraction's beside it.
DiscardInv ==
    \A d \in Requests : job[d].kind = "discard" =>
        LET t == transactions[job[d].target]
        IN  /\ job[d].step = "ok" /\ (t.scanned # None \/ t.suggested # None)
                   => ExtractedBeside(d)
            /\ job[d].step \in Loaded /\ \/ t.scanned \notin {None, job[d].seen.scanned}
                                         \/ t.suggested \notin {None, job[d].seen.suggested}
                   => ExtractedBeside(d)

\* Handlers that go on with a transaction that is deleted were there before it was.
Deletes(d, t) == /\ job[d].kind \in {"remove", "bulkDelete"} /\ job[d].step \in Over
                 /\ job[d].target = t \/ t \in job[d].todo

DeletedInv ==
    \A q \in Requests : job[q].kind \in OnTransaction \ {"remove", "restore"}
                        /\ job[q].step \in Loaded /\ transactions[job[q].target].deleted =>
        \E d \in Requests \ past[q] : Deletes(d, job[q].target)

Saves(q) == {n \in 1..MaxCopies : <<q, n>> \in DOMAIN transactions}

\* How far an import has come, and what its history says of it.
ImportInv ==
    \A q \in Requests :
      IF job[q].kind # "import" THEN imports[q].status = "none" ELSE
        LET h == imports[q]
            j == job[q]
            all == j.copies + j.failures = MaxCopies
        IN  /\ j.step \in {"history", "parse", "names", "row", "catch", "ok", "refused", "failed"}
            /\ Cardinality(Saves(q)) = j.copies
            /\ j.step = "history" => h.status = "none"
            /\ j.step \in {"parse", "names", "row", "catch"} => h.status = "processing"
            /\ j.step = "failed" => h.status \in {"none", "processing"}
            /\ j.step = "ok" => h.status = "completed" /\ all
            /\ j.step = "refused" => h.status = "failed"
            /\ j.step \in {"catch", "refused"} =>
                   j.copies = 0 \/ (all /\ failuresLeft < MaxFailures)
            /\ h.status \in {"completed", "failed"} => /\ h.imported = j.copies
                                                       /\ h.failed = j.failures

\* An exception of CategoryFits.
Chosen(q) == job[q].kind = "import" \/ (job[q].kind = "apply" /\ job[q].category # None)
Choosers == {"update", "apply", "updateTemplate"}
Clash ==
    \/ \E q \in Requests : Chosen(q)
    \/ \E q, r \in Requests : /\ Overlap(q, r) /\ job[q].target = job[r].target
                              /\ job[q].kind \in Choosers /\ job[r].kind \in Choosers

AllFit ==
    /\ \A t \in DOMAIN transactions : Fits(transactions[t])
    /\ \A p \in DOMAIN templates : Fits(templates[p]) \/ TypeAlone(p)

\* A template whose category stays as it is is not checked.
LeavesCategory(j) == j.kind = "removeTemplate"
                        \/ (j.kind = "updateTemplate" /\ "category" \in j.keeps)

\* A document that passed its checks, and will be saved.
Holding(j) == /\ j.step \in {"suggest", "file", "save", "learn", "insert"}
              /\ j.kind # "bulkDelete" /\ ~LeavesCategory(j)
HoldsFit(j) == Holding(j) => Fits(j.doc)

\* What a request that sets a type or a category has read is still so.
SeenInv ==
    \A q \in Requests :
       /\ job[q].kind \in {"update", "apply"} /\ job[q].step \in Loaded =>
              /\ transactions[job[q].target].type = job[q].seen.type
              /\ transactions[job[q].target].category = job[q].seen.category
       /\ job[q].kind = "updateTemplate" /\ job[q].step \in TemplateLoaded =>
              /\ templates[job[q].target].type = job[q].seen.type
              /\ templates[job[q].target].category = job[q].seen.category

FitInv == Clash \/ (AllFit /\ SeenInv /\ \A q \in Requests : HoldsFit(job[q]))

\* The requests that are to be counted as uses of the template p.
Uses(p) == {q \in Requests : job[q].target = p /\
                \/ job[q].kind = "fromTemplate" /\ <<q, 1>> \in DOMAIN transactions
                \/ job[q].kind = "incrementUsage" /\ job[q].step = "ok"}

\* They came one after the other, and all were answered.
InTurn(S) == /\ \A q \in S : job[q].step = "ok"
             /\ \A q, r \in S : ~Overlap(q, r)

\* The count, as it is and as a request has read it, against the uses.
Counts(p) == /\ templates[p].usage <= Cardinality(Uses(p))
             /\ InTurn(Uses(p)) => templates[p].usage >= Cardinality(Uses(p))

CountRead(q) ==
    LET others == Uses(job[q].target) \ {q}
    IN  /\ job[q].seen.usage <= Cardinality(others)
        /\ InTurn(others) /\ others \subseteq past[q] => job[q].seen.usage >= Cardinality(others)
        /\ job[q].kind = "fromTemplate" /\ job[q].step = "count" => <<q, 1>> \in DOMAIN transactions

Using == {"fromTemplate", "incrementUsage"}

UsesInv ==
    /\ \A p \in DOMAIN templates : Counts(p)
    /\ \A q \in Requests : job[q].kind \in Using /\ job[q].step \in TemplateLoaded => CountRead(q)

TransactionsInv ==
    /\ TypeOK /\ ShapeInv /\ PastInv /\ MadeInv /\ DiscardInv /\ DeletedInv /\ ImportInv
    /\ FitInv /\ UsesInv

-----------------------------------------------------------------------------
(* What a step of a request does                                           *)

\* q's request moves on, and with it no other.
Frame(q) ==
    /\ Running(q) /\ past' = past /\ mix' = mix
    /\ failuresLeft' \in 0..MaxFailures /\ failuresLeft' <= failuresLeft
    /\ job' \in [Requests -> Job]
    /\ \A p \in Requests \ {q} : job'[p] = job[p]
    /\ job'[q].kind = job[q].kind /\ job'[q].target = job[q].target
    /\ job'[q].category = job[q].category /\ job'[q].keeps = job[q].keeps
    /\ job'[q].todo \subseteq job[q].todo
    /\ job'[q].copies >= job[q].copies /\ job'[q].failures >= job[q].failures
    /\ job'[q].step # "idle" /\ JobFits(job'[q])

\* What q has read, and what it has done when it goes on to a step.
Reads(q) ==
    LET kind == job[q].kind
        step == job[q].step
        next == job'[q].step
        target == job[q].target
    IN  /\ kind \in OnTransaction /\ next \in Loaded =>
              \/ step \in Loaded /\ job'[q].seen = job[q].seen
              \/ /\ step = "load" /\ job'[q].seen = transactions[target]
                 /\ transactions[target].deleted = (kind = "restore") /\ UNCHANGED transactions
        /\ kind \in OnTemplate /\ next \in TemplateLoaded =>
              \/ step \in TemplateLoaded /\ job'[q].seen = job[q].seen
              \/ /\ step = "load" /\ job'[q].seen = templates[target]
                 /\ UNCHANGED <<transactions, templates>>
        /\ kind = "fromTemplate" /\ next = "count" => <<q, 1>> \in DOMAIN transactions'
        /\ kind = "fromTemplate" /\ step = "count" => next \in {"ok", "failed"}
        /\ kind \in {"fromTemplate", "incrementUsage"} /\ next = "ok" =>
              /\ step = "count" /\ UNCHANGED transactions
              /\ templates'[target].usage = job[q].seen.usage + 1
        /\ kind = "discard" /\ next = "ok" =>
              /\ step = "save"
              /\ transactions'[target] = Saved(job[q].doc, job[q].seen, transactions[target])
        /\ kind # "import" /\ ~Chosen(q) /\ AllFit /\ HoldsFit(job[q]) => HoldsFit(job'[q])

\* What happens to the transaction t.
TransactionDoes(q, t) ==
    \/ transactions'[t] = transactions[t]
    \/ /\ t = job[q].target /\ At(q, OnTransaction \ {"saveAsTemplate"}, "save")
       /\ transactions'[t] = Saved(job[q].doc, job[q].seen, transactions[t])
       /\ job'[q].step \in {"ok", "override"}
    \/ /\ t = job[q].target /\ At(q, {"apply"}, "override")
       /\ transactions'[t] \in Transaction
       /\ transactions'[t].deleted = transactions[t].deleted
       /\ transactions'[t].scanned = transactions[t].scanned
       /\ transactions'[t].suggested = transactions[t].suggested
    \/ /\ t \in job[q].todo /\ At(q, {"bulkDelete"}, "save")
       /\ transactions'[t] = [transactions[t] EXCEPT !.deleted = TRUE]
       /\ job'[q].step = "ok" /\ job'[q].todo = job[q].todo

\* q makes its n-th transaction.
Makes(q, n) ==
    \/ /\ job[q].kind \in {"create", "fromTemplate"} /\ n = 1 /\ job[q].step = "save"
       /\ job'[q].step \in {"count", "ok"}
    \/ /\ job[q].kind \in Copying /\ n = job[q].copies + 1 /\ job'[q].copies = n
    \/ job[q].kind = "import" /\ n = Rows(q) + 1 /\ job'[q].copies + job'[q].failures = n

MakesTransactions(q) ==
    /\ DOMAIN transactions \subseteq DOMAIN transactions'
    /\ \A t \in DOMAIN transactions' \ DOMAIN transactions :
          /\ transactions'[t] \in Transaction
          /\ job[q].kind # "import" /\ HoldsFit(job[q]) => Fits(transactions'[t])
          /\ \E n \in 1..MaxCopies : t = <<q, n>> /\ Makes(q, n)

\* What happens to the template p.
TemplateDoes(q, p) ==
    \/ templates'[p] = templates[p]
    \/ /\ p = job[q].target /\ At(q, {"updateTemplate", "removeTemplate"}, "save")
       /\ templates'[p] = Saved(job[q].doc, job[q].seen, templates[p])
       /\ job'[q].step = "ok"
    \/ /\ p = job[q].target /\ job[q].step = "count" /\ job'[q].step = "ok"
       /\ templates'[p] \in Template /\ templates'[p].usage = job[q].seen.usage + 1
       /\ templates'[p].type = templates[p].type
       /\ templates'[p].category = templates[p].category

MakesTemplate(q) ==
    /\ DOMAIN templates \subseteq DOMAIN templates'
    /\ \A p \in DOMAIN templates' \ DOMAIN templates :
          /\ p = q /\ job[q].kind \in {"createTemplate", "saveAsTemplate"} /\ job[q].step = "save"
          /\ job'[q].step = "ok"
          /\ templates'[p] \in Template /\ templates'[p].usage = 0
          /\ HoldsFit(job[q]) => Fits(templates'[p])

\* A step of an import; the rows are copies or failures.
ImportDoes(q) ==
    LET j == job[q]
        k == job'[q]
        same == k.copies = j.copies /\ k.failures = j.failures
        quiet == imports' = imports /\ Saves(q)' = Saves(q)
        closed == imports'[q].imported = j.copies /\ imports'[q].failed = j.failures
    IN  \/ /\ j.step = "history" /\ k.step = "parse" /\ same /\ Saves(q)' = Saves(q)
           /\ imports'[q].status = "processing"
        \/ /\ quiet /\ same
           /\ \/ j.step = "parse" /\ k.step \in {"names", "catch"}
              \/ j.step = "names" /\ k.step = "row"
              \/ /\ j.step = "row" /\ k.step = "catch" /\ failuresLeft' < failuresLeft
                 /\ Rows(q) = MaxCopies
              \/ k.step = "failed"
        \/ /\ j.step = "row" /\ k.step = "row" /\ quiet
           /\ k.copies = j.copies /\ k.failures = j.failures + 1
        \/ /\ j.step = "row" /\ k.step = "row" /\ imports' = imports
           /\ k.copies = j.copies + 1 /\ k.failures = j.failures
           /\ Rows(q) + 1 \in 1..MaxCopies /\ Saves(q)' = Saves(q) \cup {Rows(q) + 1}
        \/ /\ j.step = "row" /\ k.step = "ok" /\ same /\ Saves(q)' = Saves(q)
           /\ Rows(q) = MaxCopies /\ imports'[q].status = "completed" /\ closed
        \/ /\ j.step = "catch" /\ k.step = "refused" /\ same /\ Saves(q)' = Saves(q)
           /\ imports'[q].status = "failed" /\ closed

MappingTyped == mapping \in Mapping /\ (mapping.state # "none" => mapping.category # None)

\* A step of the request q, whichever it is.
Works(q) ==
    /\ Frame(q) /\ Reads(q) /\ MakesTransactions(q) /\ MakesTemplate(q)
    /\ \A t \in DOMAIN transactions : TransactionDoes(q, t)
    /\ \A p \in DOMAIN templates : TemplateDoes(q, p)
    /\ IF job[q].kind = "import" THEN ImportDoes(q) ELSE imports' = imports
    /\ imports' \in [Requests -> Import] /\ \A r \in Requests \ {q} : imports'[r] = imports[r]
    /\ categories' = categories /\ MappingTyped'

\* A step that changes nothing but the request.
LEMMA LooksWork ==
    ASSUME TypeOK, NEW q \in Requests, Frame(q), Reads(q), UNCHANGED stored,
           job[q].kind = "import" => ImportDoes(q)
    PROVE  Works(q)
BY DEF Works, MakesTransactions, MakesTemplate, TransactionDoes, TemplateDoes, stored, TypeOK,
       MappingTyped

-----------------------------------------------------------------------------
(* Records                                                                 *)

\* Only a document that is to be saved must fit.
LEMMA NotHolding ==
    ASSUME NEW j, j.step \notin {"suggest", "file", "save", "learn", "insert"}
    PROVE  HoldsFit(j)
BY DEF HoldsFit, Holding

LEMMA MoveFields ==
    ASSUME job \in [Requests -> Job], NEW q \in Requests, NEW new \in Job,
           job' = [job EXCEPT ![q] = new]
    PROVE  /\ job' \in [Requests -> Job] /\ job'[q] = new
           /\ \A p \in Requests \ {q} : job'[p] = job[p]
OBVIOUS

LEMMA GoFields ==
    ASSUME job \in [Requests -> Job], NEW q \in Requests, NEW step \in Steps, Go(q, step)
    PROVE  /\ job' \in [Requests -> Job] /\ \A p \in Requests \ {q} : job'[p] = job[p]
           /\ job'[q].step = step /\ job'[q].kind = job[q].kind
           /\ job'[q].target = job[q].target /\ job'[q].category = job[q].category
           /\ job'[q].keeps = job[q].keeps
           /\ job'[q].todo = job[q].todo /\ job'[q].copies = job[q].copies
           /\ job'[q].failures = job[q].failures /\ job'[q].seen = job[q].seen
           /\ job'[q].doc = job[q].doc
<1> DEFINE new == [job[q] EXCEPT !.step = step]
<1>1. /\ new \in Job /\ new.step = step /\ new.kind = job[q].kind /\ new.target = job[q].target
      /\ new.category = job[q].category /\ new.keeps = job[q].keeps /\ new.todo = job[q].todo
      /\ new.copies = job[q].copies
      /\ new.failures = job[q].failures /\ new.seen = job[q].seen /\ new.doc = job[q].doc
    BY DEF Job
<1>2. job' = [job EXCEPT ![q] = new]
    BY Zenon DEF Go
<1> HIDE DEF new
<1> QED
    BY <1>1, <1>2, MoveFields

\* A save of a transaction, field by field.
LEMMA SavedFields ==
    ASSUME NEW new \in Transaction, NEW seen \in Transaction, NEW now \in Transaction,
           NEW saved, saved = Saved(new, seen, now)
    PROVE  /\ saved \in Transaction
           /\ saved.deleted = IF new.deleted = seen.deleted THEN now.deleted ELSE new.deleted
           /\ saved.type = IF new.type = seen.type THEN now.type ELSE new.type
           /\ saved.category = IF new.category = seen.category THEN now.category ELSE new.category
           /\ saved.receipt = IF new.receipt = seen.receipt THEN now.receipt ELSE new.receipt
           /\ saved.scanned = IF new.scanned = seen.scanned THEN now.scanned ELSE new.scanned
           /\ saved.suggested = IF new.suggested = seen.suggested THEN now.suggested
                                ELSE new.suggested
           /\ saved.applied = IF new.applied = seen.applied THEN now.applied ELSE new.applied
BY DEF Saved, Transaction

LEMMA SavedTemplateFields ==
    ASSUME NEW new \in Template, NEW seen \in Template, NEW now \in Template,
           NEW saved, saved = Saved(new, seen, now)
    PROVE  /\ saved \in Template
           /\ saved.type = IF new.type = seen.type THEN now.type ELSE new.type
           /\ saved.category = IF new.category = seen.category THEN now.category ELSE new.category
           /\ saved.usage = IF new.usage = seen.usage THEN now.usage ELSE new.usage
BY DEF Saved, Template

\* New documents.
LEMMA NewFields ==
    ASSUME NEW type \in Types, NEW category \in Categories \cup {None}
    PROVE  /\ NewTransaction(type, category) \in Transaction
           /\ NewTransaction(type, category).type = type
           /\ NewTransaction(type, category).category = category
           /\ NewTemplate(type, category) \in Template
           /\ NewTemplate(type, category).type = type
           /\ NewTemplate(type, category).category = category
           /\ NewTemplate(type, category).usage = 0
BY DEF NewTransaction, Transaction, NewTemplate, Template, Receipts

-----------------------------------------------------------------------------
(* Steps that only look                                                    *)

\* What the steps below assume of the state.
Typed == TypeOK /\ ShapeInv /\ MadeInv

\* A step of q that leaves its documents as they are.
LEMMA GoWorks ==
    ASSUME Typed, NEW q \in Requests, NEW step \in Steps, Go(q, step), Running(q), past' = past,
           mix' = mix, failuresLeft' \in 0..MaxFailures, failuresLeft' <= failuresLeft,
           step # "idle", JobFits(job'[q])
    PROVE  Frame(q)
BY GoFields DEF Typed, TypeOK, Frame, Job

\* A request that is over holds nothing that matters, but its counts.
LEMMA OverFits ==
    ASSUME TypeOK, NEW q \in Requests, JobFits(job[q]), NEW step \in Over, Go(q, step), Running(q)
    PROVE  JobFits(job'[q])
<1> DEFINE j == job[q]
           k == job'[q]
<1>1. /\ k.step = step /\ k.kind = j.kind /\ k.category = j.category /\ k.keeps = j.keeps
      /\ k.todo = j.todo
      /\ k.copies = j.copies /\ k.failures = j.failures /\ k.doc = j.doc
      /\ j \in Job /\ step \in {"ok", "refused", "failed"}
    BY GoFields DEF TypeOK, Steps, Over
<1> HIDE DEF k
<1>2. j.kind \in Copying => CopiesHeld(k)
  <2>1. j.kind \in Copying => Cardinality(j.todo) \in Nat
      BY FS_CardinalityType DEF JobFits, CopiesHeld
  <2> QED
      BY <1>1, <2>1, TransactionsAssumption DEF JobFits, CopiesHeld, Job
<1>3. JobFits(k)
    BY <1>1, <1>2 DEF JobFits, Loaded, TemplateLoaded
<1> QED
    BY <1>3 DEF k

\* The handler's change of the transaction it loaded.
LEMMA ChangedFields ==
    ASSUME NEW q \in Requests, job[q] \in Job, job[q].kind \in OnTransaction,
           NEW t \in Transaction, NEW doc, doc = Changed(q, t)
    PROVE  /\ doc \in Transaction
           /\ job[q].kind = "update" => doc = Updated(q, t)
           /\ job[q].kind # "update" => doc.type = t.type /\ doc.category = t.category
           /\ job[q].kind \notin {"remove", "restore"} => doc.deleted = t.deleted
           /\ job[q].kind = "restore" => doc.deleted = FALSE
           /\ job[q].kind = "remove" => doc.deleted = TRUE
           /\ job[q].kind \notin {"upload", "deleteReceipt"} => doc.receipt = t.receipt
           /\ job[q].kind \notin {"extract", "discard"} => /\ doc.scanned = t.scanned
                                                           /\ doc.suggested = t.suggested
           /\ job[q].kind \notin {"apply", "discard"} => doc.applied = t.applied
           /\ job[q].kind = "discard" => doc.scanned = None /\ doc.suggested = None
<1>1. CASE job[q].kind = "update"
    BY <1>1 DEF Changed, Updated, Transaction, Job
<1>2. CASE job[q].kind \in {"remove", "restore"}
    BY <1>2 DEF Changed, Transaction
<1>3. CASE job[q].kind \in {"upload", "deleteReceipt"}
    BY <1>3 DEF Changed, Transaction, Receipts
<1>4. CASE job[q].kind \in {"extract", "apply", "discard"}
    BY <1>4 DEF Changed, Discarded, Transaction, Receipts
<1>5. CASE job[q].kind = "saveAsTemplate"
    BY <1>5 DEF Changed
<1> QED
    BY <1>1, <1>2, <1>3, <1>4, <1>5 DEF OnTransaction

\* A step with which q is over, and nothing is saved.
LEMMA OverWorks ==
    ASSUME Typed, NEW q \in Requests, NEW step \in Over, Go(q, step), Running(q),
           UNCHANGED <<stored, past, mix>>,
           failuresLeft' \in 0..MaxFailures, failuresLeft' <= failuresLeft,
           job[q].kind = "import" => step = "failed",
           step = "ok" => job[q].kind \notin {"fromTemplate", "incrementUsage", "discard"},
           step = "refused" => job[q].step # "count"
    PROVE  Works(q)
<1>1. TypeOK /\ JobFits(job[q]) /\ step \in Steps /\ step \in {"ok", "refused", "failed"}
    BY DEF Typed, ShapeInv, Steps, Over
<1>2. Frame(q)
    BY <1>1, OverFits, GoWorks
<1>3. job'[q].step = step /\ job'[q].copies = job[q].copies /\ job'[q].failures = job[q].failures
    BY <1>1, GoFields DEF TypeOK
<1>4. Reads(q)
  <2>1. HoldsFit(job'[q])
      BY <1>1, <1>3, NotHolding
  <2> QED
      BY <1>1, <1>3, <2>1 DEF Reads, Loaded, TemplateLoaded
<1>5. job[q].kind = "import" => ImportDoes(q)
    BY <1>1, <1>3 DEF ImportDoes, Saves, stored
<1> QED
    BY <1>1, <1>2, <1>4, <1>5, LooksWork

LEMMA LoadWorks ==
    ASSUME Typed, NEW q \in Requests, Load(q)
    PROVE  Works(q)
<1> DEFINE t == transactions[job[q].target]
<1>1. /\ At(q, OnTransaction, "load") /\ Running(q) /\ UNCHANGED <<stored, past, mix>>
      /\ failuresLeft' \in 0..MaxFailures /\ failuresLeft' <= failuresLeft
      /\ job[q] \in Job /\ JobFits(job[q]) /\ t \in Transaction
      /\ job[q].kind \in OnTransaction /\ job[q].step = "load" /\ job[q].kind # "import"
      /\ TypeOK
    BY TransactionsAssumption DEF Load, At, Running, Typed, TypeOK, ShapeInv, Over, OnTransaction
<1>2. CASE Go(q, "refused")
    BY <1>1, <1>2, OverWorks DEF Over
<1>3. CASE /\ Findable(q) /\ ~Refused(q, t)
           /\ job' = [job EXCEPT ![q].seen = t, ![q].doc = Changed(q, t),
                                 ![q].step = NextStep(q, t)]
  <2> DEFINE doc == Changed(q, t)
             step == NextStep(q, t)
             new == [job[q] EXCEPT !.seen = t, !.doc = doc, !.step = step]
  <2>1. /\ step \in {"category", "file", "suggest", "save"}
        /\ step = "category" => job[q].kind \in {"update", "apply"}
        /\ step = "suggest" => job[q].kind = "extract"
        /\ job[q].kind = "update" /\ step # "category" =>
              job[q].keeps = Fields \/ Updated(q, t).category = None
      BY <1>1 DEF NextStep, AppliesCategory, OnTransaction
  <2>2. /\ doc \in Transaction
        /\ job[q].kind = "update" => doc = Updated(q, t)
        /\ job[q].kind # "update" => doc.type = t.type /\ doc.category = t.category
        /\ job[q].kind \notin {"remove", "restore"} => doc.deleted = t.deleted
        /\ job[q].kind = "restore" => doc.deleted = FALSE
        /\ job[q].kind = "remove" => doc.deleted = TRUE
        /\ job[q].kind \notin {"upload", "deleteReceipt"} => doc.receipt = t.receipt
        /\ job[q].kind \notin {"extract", "discard"} => /\ doc.scanned = t.scanned
                                                        /\ doc.suggested = t.suggested
        /\ job[q].kind \notin {"apply", "discard"} => doc.applied = t.applied
        /\ job[q].kind = "discard" => doc.scanned = None /\ doc.suggested = None
      BY <1>1, ChangedFields
  <2> HIDE DEF doc, step
  <2>3. /\ new \in Job /\ new.step = step /\ new.kind = job[q].kind
        /\ new.target = job[q].target /\ new.category = job[q].category /\ new.keeps = job[q].keeps
        /\ new.todo = job[q].todo /\ new.copies = job[q].copies
        /\ new.failures = job[q].failures /\ new.seen = t /\ new.doc = doc
    <3>1. t \in Docs \cup {None} /\ doc \in Docs \cup {None} /\ step \in Steps
        BY <1>1, <2>1, <2>2 DEF Docs, Steps
    <3> QED
        BY <1>1, <3>1 DEF Job
  <2>4. job' = [job EXCEPT ![q] = new]
      BY <1>3 DEF doc, step
  <2> HIDE DEF new
  <2>5. job' \in [Requests -> Job] /\ job'[q] = new /\ \A p \in Requests \ {q} : job'[p] = job[p]
      BY <1>1, <2>3, <2>4, MoveFields DEF TypeOK
  <2>6. TransactionHeld(new)
      BY <1>1, <2>1, <2>2, <2>3 DEF TransactionHeld
  <2>7. JobFits(new)
      BY <1>1, <2>1, <2>3, <2>6 DEF JobFits, OnTransaction, OnTemplate, Loaded, Copying
  <2>8. Frame(q)
      BY <1>1, <2>1, <2>3, <2>5, <2>7 DEF Frame, Job
  <2>9. AllFit => HoldsFit(new)
    <3>1. AllFit => Fits(t)
        BY <1>1 DEF AllFit, ShapeInv, Typed
    <3>2. job[q].kind = "update" /\ step # "category" /\ Fits(t) => Fits(doc)
      <4>1. job[q].keeps = Fields =>
                Updated(q, t).type = t.type /\ Updated(q, t).category = t.category
          BY <1>1 DEF Updated, Fields, Transaction
      <4> QED
          BY <2>1, <2>2, <4>1 DEF Fits
    <3>3. job[q].kind # "update" /\ Fits(t) => Fits(doc)
        BY <2>2 DEF Fits
    <3> QED
        BY <2>3, <3>1, <3>2, <3>3 DEF HoldsFit, Holding
  <2>10. Reads(q)
      BY <1>1, <1>3, <2>1, <2>3, <2>5, <2>9
         DEF Reads, stored, Loaded, Findable, OnTransaction, OnTemplate
  <2> QED
      BY <1>1, <2>8, <2>10, LooksWork
<1> QED
    BY <1>2, <1>3 DEF Load

LEMMA ValidateCategoryWorks ==
    ASSUME Typed, NEW q \in Requests, ValidateCategory(q)
    PROVE  Works(q)
<1> DEFINE c == Checked(q)
           j == job[q]
<1>1. /\ j.step = "category" /\ Running(q) /\ UNCHANGED <<stored, past, mix>>
      /\ failuresLeft' \in 0..MaxFailures /\ failuresLeft' <= failuresLeft
      /\ j \in Job /\ JobFits(j) /\ TypeOK /\ categories \subseteq Categories
    BY TransactionsAssumption DEF ValidateCategory, Running, Typed, TypeOK, ShapeInv, Over
<1>2. /\ j.kind \in {"create", "createTemplate", "update", "apply", "updateTemplate",
                     "fromTemplate"}
      /\ j.kind \in {"update", "apply"} => TransactionHeld(j)
      /\ j.kind \in {"updateTemplate", "fromTemplate"} => TemplateHeld(j)
    BY <1>1 DEF JobFits, OnTransaction, OnTemplate, Loaded, TemplateLoaded
<1>3. CASE Go(q, "refused")
    BY <1>1, <1>2, <1>3, OverWorks DEF Over
<1>4. CASE j.kind # "apply" /\ Valid(c, j.doc.type) /\ Go(q, "save")
  <2>1. /\ job'[q].step = "save" /\ job'[q].kind = j.kind /\ job'[q].seen = j.seen
        /\ job'[q].doc = j.doc /\ job'[q].category = j.category /\ job'[q].keeps = j.keeps
      BY <1>1, <1>4, GoFields DEF TypeOK, Steps
  <2>2. JobFits(job'[q])
      BY <1>1, <1>2, <2>1
         DEF JobFits, TransactionHeld, TemplateHeld, OnTransaction, OnTemplate, Copying
  <2>3. Frame(q)
      BY <1>1, <1>4, <2>2, GoWorks DEF Steps
  <2>4. Fits(j.doc)
      BY <1>1, <1>2, <1>4 DEF Checked, Valid, Fits, TransactionHeld
  <2>5. Reads(q)
      BY <1>1, <1>2, <2>1, <2>4
         DEF Reads, Loaded, TemplateLoaded, OnTransaction, OnTemplate, HoldsFit, Holding,
             LeavesCategory
  <2> QED
      BY <1>1, <1>2, <2>3, <2>5, LooksWork
<1>5. ASSUME NEW step \in {"learn", "save"}, j.kind = "apply", Valid(c, j.doc.type),
             job' = [job EXCEPT ![q].doc.category = c, ![q].step = step]
      PROVE  Works(q)
  <2> DEFINE doc == [j.doc EXCEPT !.category = c]
             new == [j EXCEPT !.doc = doc, !.step = step]
  <2>1. c \in Categories /\ c # None /\ TypeOf[c] = j.doc.type /\ j.doc \in Transaction
      BY <1>1, <1>2, <1>5, IdsAssumption DEF Valid, TransactionHeld
  <2>2. /\ doc \in Transaction /\ doc.category = c /\ doc.type = j.doc.type
        /\ doc.deleted = j.doc.deleted /\ doc.receipt = j.doc.receipt
        /\ doc.scanned = j.doc.scanned /\ doc.suggested = j.doc.suggested
        /\ doc.applied = j.doc.applied
      BY <2>1 DEF Transaction
  <2>3. job' = [job EXCEPT ![q] = new]
      BY <1>5
  <2> HIDE DEF doc, c
  <2>4. /\ new \in Job /\ new.step = step /\ new.kind = j.kind
        /\ new.target = j.target /\ new.category = j.category /\ new.keeps = j.keeps
        /\ new.todo = j.todo /\ new.copies = j.copies
        /\ new.failures = j.failures /\ new.seen = j.seen /\ new.doc = doc
    <3>1. doc \in Docs \cup {None} /\ step \in Steps
        BY <1>5, <2>2 DEF Docs, Steps
    <3> QED
        BY <1>1, <3>1 DEF Job
  <2> HIDE DEF new
  <2>5. job' \in [Requests -> Job] /\ job'[q] = new /\ \A p \in Requests \ {q} : job'[p] = job[p]
      BY <1>1, <2>3, <2>4, MoveFields DEF TypeOK
  <2>6. TransactionHeld(new)
      BY <1>2, <1>5, <2>1, <2>2, <2>4 DEF TransactionHeld
  <2>7. JobFits(new)
      BY <1>1, <1>5, <2>4, <2>6 DEF JobFits, OnTemplate, Copying
  <2>8. Frame(q)
      BY <1>1, <1>5, <2>4, <2>5, <2>7 DEF Frame, Job
  <2>9. Fits(new.doc)
      BY <2>1, <2>2, <2>4 DEF Fits
  <2>10. Reads(q)
      BY <1>1, <1>5, <2>4, <2>5, <2>9
         DEF Reads, Loaded, OnTemplate, HoldsFit, Holding, LeavesCategory
  <2> QED
      BY <1>1, <1>5, <2>8, <2>10, LooksWork
<1> QED
    BY <1>3, <1>4, <1>5 DEF ValidateCategory

\* A step of q to another step, with which it still holds what it held.
LEMMA StepsWork ==
    ASSUME Typed, NEW q \in Requests, NEW step \in Steps \ (Over \cup {"idle"}), Go(q, step),
           Running(q), UNCHANGED <<stored, past, mix, failuresLeft>>, job[q].kind # "import",
           JobFits(job'[q]),
           job[q].kind \in OnTransaction /\ step \in Loaded => job[q].step \in Loaded,
           job[q].kind \notin OnTemplate,
           HoldsFit(job[q]) => HoldsFit(job'[q])
    PROVE  Works(q)
<1>1. TypeOK /\ failuresLeft' \in 0..MaxFailures /\ failuresLeft' <= failuresLeft
    BY TransactionsAssumption DEF Typed, TypeOK
<1>2. Frame(q)
    BY <1>1, GoWorks
<1>3. job'[q].step = step /\ job'[q].seen = job[q].seen
    BY <1>1, GoFields DEF TypeOK
<1>4. Reads(q)
    BY <1>1, <1>3 DEF Reads, TemplateLoaded, OnTemplate, Over, Loaded
<1> QED
    BY <1>1, <1>2, <1>4, LooksWork

LEMMA StoreFileWorks ==
    ASSUME Typed, NEW q \in Requests, StoreFile(q)
    PROVE  Works(q)
<1>1. /\ At(q, {"upload"}, "file") /\ Running(q) /\ UNCHANGED <<stored, past, mix, failuresLeft>>
      /\ failuresLeft' \in 0..MaxFailures /\ failuresLeft' <= failuresLeft
      /\ JobFits(job[q]) /\ TypeOK
    BY TransactionsAssumption DEF StoreFile, Running, Typed, TypeOK, ShapeInv, Over, At
<1>2. CASE Go(q, "refused")
    BY <1>1, <1>2, OverWorks DEF Over, At
<1>3. CASE Go(q, "save")
  <2>1. /\ job'[q].step = "save" /\ job'[q].kind = job[q].kind /\ job'[q].seen = job[q].seen
        /\ job'[q].doc = job[q].doc /\ job'[q].category = job[q].category
        /\ job'[q].keeps = job[q].keeps
      BY <1>1, <1>3, GoFields DEF TypeOK, Steps
  <2>2. TransactionHeld(job[q])
      BY <1>1 DEF JobFits, OnTransaction, Loaded, At
  <2>3. JobFits(job'[q])
      BY <1>1, <2>1, <2>2 DEF JobFits, TransactionHeld, OnTransaction, OnTemplate, Copying, At
  <2>4. HoldsFit(job[q]) => HoldsFit(job'[q])
      BY <1>1, <2>1 DEF HoldsFit, Holding, LeavesCategory, At
  <2> QED
      BY <1>1, <1>3, <2>3, <2>4, StepsWork DEF At, Steps, Over, Loaded, OnTemplate
<1> QED
    BY <1>2, <1>3 DEF StoreFile

LEMMA LearnWorks ==
    ASSUME Typed, NEW q \in Requests, Learn(q)
    PROVE  Works(q)
<1> DEFINE j == job[q]
           step == IF mapping.state = "live" THEN AfterLearning[j.step] ELSE InsertStep[j.step]
<1>1. /\ j.step \in {"learn", "relearn"} /\ Running(q) /\ Go(q, step)
      /\ UNCHANGED <<stored, past, mix, failuresLeft>>
      /\ failuresLeft' \in 0..MaxFailures /\ failuresLeft' <= failuresLeft
      /\ JobFits(j) /\ TypeOK
    BY TransactionsAssumption DEF Learn, Running, Typed, TypeOK, ShapeInv, Over, InsertStep
<1>2. /\ step \in {"save", "insert", "ok", "reinsert"}
      /\ j.step = "learn" <=> step \in {"save", "insert"}
    BY <1>1 DEF AfterLearning, InsertStep
<1> HIDE DEF step
<1>3. j.kind = "apply" /\ TransactionHeld(j)
    BY <1>1 DEF JobFits, OnTransaction, Loaded
<1>4. CASE step = "ok"
    BY <1>1, <1>3, <1>4, OverWorks DEF Over
<1>5. CASE step # "ok"
  <2>1. /\ job'[q].step = step /\ job'[q].kind = j.kind /\ job'[q].seen = j.seen
        /\ job'[q].doc = j.doc /\ job'[q].category = j.category /\ job'[q].keeps = j.keeps
      BY <1>1, <1>2, <1>5, GoFields DEF TypeOK, Steps
  <2>2. JobFits(job'[q])
    <3>1. TransactionHeld(job'[q])
        BY <1>1, <1>3, <2>1 DEF TransactionHeld
    <3>2. j.step = "relearn" => j.category # None
        BY <1>1 DEF JobFits
    <3> QED
        BY <1>1, <1>2, <1>3, <2>1, <3>1, <3>2 DEF JobFits, OnTemplate, Copying
  <2>3. HoldsFit(j) => HoldsFit(job'[q])
      BY <1>1, <1>2, <2>1 DEF HoldsFit, Holding, LeavesCategory
  <2> QED
      BY <1>1, <1>2, <1>3, <1>5, <2>2, <2>3, StepsWork DEF Steps, Over, Loaded, OnTemplate
<1> QED
    BY <1>4, <1>5

\* The same for a step that also changes what q holds.
LEMMA MoveWorks ==
    ASSUME Typed, NEW q \in Requests, NEW new \in Job, job' = [job EXCEPT ![q] = new],
           Running(q), UNCHANGED <<past, mix, failuresLeft>>,
           new.kind = job[q].kind, new.target = job[q].target, new.category = job[q].category,
           new.keeps = job[q].keeps,
           new.todo \subseteq job[q].todo, new.copies = job[q].copies,
           new.failures = job[q].failures, new.step # "idle", JobFits(new)
    PROVE  Frame(q) /\ job'[q] = new
<1>1. job' \in [Requests -> Job] /\ job'[q] = new /\ \A p \in Requests \ {q} : job'[p] = job[p]
    BY MoveFields DEF Typed, TypeOK
<1>2. failuresLeft' \in 0..MaxFailures /\ failuresLeft' <= failuresLeft
    BY TransactionsAssumption DEF Typed, TypeOK
<1>3. new.copies >= job[q].copies /\ new.failures >= job[q].failures
    BY TransactionsAssumption DEF Job
<1> QED
    BY <1>1, <1>2, <1>3 DEF Frame

LEMMA FindAllWorks ==
    ASSUME Typed, NEW q \in Requests, FindAll(q)
    PROVE  Works(q)
<1> DEFINE found == {t \in job[q].todo : ~transactions[t].deleted}
           step == IF found = {} THEN "refused" ELSE "save"
           new == [job[q] EXCEPT !.todo = found, !.step = step]
<1>1. /\ At(q, {"bulkDelete"}, "load") /\ Running(q)
      /\ UNCHANGED <<stored, past, mix, failuresLeft>>
      /\ job[q] \in Job /\ JobFits(job[q]) /\ TypeOK
      /\ step \in {"refused", "save"} /\ found \subseteq job[q].todo
    BY DEF FindAll, Running, Typed, TypeOK, ShapeInv, Over, At
<1>2. job' = [job EXCEPT ![q] = new]
    BY DEF FindAll
<1> HIDE DEF found, step
<1>3. /\ new \in Job /\ new.step = step /\ new.kind = job[q].kind
      /\ new.target = job[q].target /\ new.category = job[q].category /\ new.keeps = job[q].keeps
      /\ new.todo = found /\ new.copies = job[q].copies
      /\ new.failures = job[q].failures
    BY <1>1 DEF Job, Steps, Over
<1> HIDE DEF new
<1>4. JobFits(new)
    BY <1>1, <1>3 DEF JobFits, OnTransaction, OnTemplate, Copying, At
<1>5. Frame(q) /\ job'[q] = new
    BY <1>1, <1>2, <1>3, <1>4, MoveWorks
<1>6. Reads(q)
    BY <1>1, <1>3, <1>5 DEF Reads, OnTransaction, OnTemplate, HoldsFit, Holding, LeavesCategory, At
<1> QED
    BY <1>1, <1>5, <1>6, LooksWork DEF At

LEMMA LoadOriginalWorks ==
    ASSUME Typed, NEW q \in Requests, LoadOriginal(q)
    PROVE  Works(q)
<1> DEFINE j == job[q]
<1>1. /\ j.kind \in Copying /\ j.step = "load" /\ Running(q)
      /\ UNCHANGED <<stored, past, mix, failuresLeft>>
      /\ failuresLeft' \in 0..MaxFailures /\ failuresLeft' <= failuresLeft
      /\ j \in Job /\ JobFits(j) /\ TypeOK /\ j.todo \subseteq DOMAIN transactions
  <2>1. j.kind \in Copying /\ j.step = "load" /\ UNCHANGED <<stored, past, mix, failuresLeft>>
      BY DEF LoadOriginal, At, Copying
  <2> QED
      BY <2>1, TransactionsAssumption DEF Running, Typed, TypeOK, ShapeInv, Over
<1>2. CASE Go(q, "ok")
    BY <1>1, <1>2, OverWorks DEF Over, Copying
<1>3. ASSUME NEW t \in j.todo,
             \/ /\ ~transactions[t].deleted
                /\ job' = [job EXCEPT ![q].todo = @ \ {t}, ![q].step = "save",
                                      ![q].doc = CopyOf(transactions[t])]
             \/ job' = [job EXCEPT ![q].todo = @ \ {t}, ![q].step =
                            IF job[q].kind = "duplicate" THEN "refused" ELSE "load"]
      PROVE  Works(q)
  <2> DEFINE rest == j.todo \ {t}
  <2>1. /\ IsFiniteSet(rest) /\ Cardinality(rest) = Cardinality(j.todo) - 1
        /\ Cardinality(j.todo) \in Nat /\ Cardinality(rest) \in Nat
        /\ j.copies + Cardinality(j.todo) <= MaxCopies /\ j.copies \in Nat /\ MaxCopies \in Nat
    <3>1. IsFiniteSet(j.todo) /\ j.copies + Cardinality(j.todo) + 0 <= MaxCopies
        BY <1>1 DEF JobFits, CopiesHeld
    <3>2. /\ IsFiniteSet(rest) /\ Cardinality(rest) = Cardinality(j.todo) - 1
          /\ Cardinality(j.todo) \in Nat /\ Cardinality(rest) \in Nat
        BY <3>1, FS_RemoveElement, FS_CardinalityType
    <3>3. j.copies \in Nat /\ MaxCopies \in Nat
        BY <1>1, TransactionsAssumption DEF Job
    <3> QED
        BY <3>1, <3>2, <3>3
  <2>2. transactions[t] \in Transaction
      BY <1>1 DEF TypeOK
  <2> HIDE DEF rest
  <2>3. CASE job' = [job EXCEPT ![q].todo = @ \ {t}, ![q].step = "save",
                                ![q].doc = CopyOf(transactions[t])]
    <3> DEFINE doc == CopyOf(transactions[t])
               new == [j EXCEPT !.todo = rest, !.step = "save", !.doc = doc]
    <3>1. /\ doc \in Transaction /\ doc.type = transactions[t].type
          /\ doc.category = transactions[t].category
        BY <2>2, NewFields DEF CopyOf, Transaction
    <3>2. job' = [job EXCEPT ![q] = new]
        BY <2>3 DEF rest
    <3> HIDE DEF doc
    <3>3. /\ new \in Job /\ new.step = "save" /\ new.kind = j.kind
          /\ new.target = j.target /\ new.category = j.category /\ new.keeps = j.keeps
          /\ new.todo = rest /\ new.copies = j.copies
          /\ new.failures = j.failures /\ new.doc = doc
      <4>1. doc \in Docs \cup {None} /\ "save" \in Steps /\ rest \subseteq j.todo
          BY <3>1 DEF Docs, Steps, rest
      <4> QED
          BY <1>1, <4>1 DEF Job
    <3> HIDE DEF new
    <3>4. CopiesHeld(new)
        BY <2>1, <3>1, <3>3 DEF CopiesHeld
    <3>5. JobFits(new)
        BY <1>1, <3>3, <3>4 DEF JobFits, OnTransaction, OnTemplate, Copying
    <3>6. Frame(q) /\ job'[q] = new
        BY <1>1, <3>2, <3>3, <3>5, MoveWorks DEF rest
    <3>7. AllFit => HoldsFit(new)
        BY <1>1, <3>1, <3>3 DEF AllFit, HoldsFit, Holding, LeavesCategory, Fits
    <3>8. Reads(q)
        BY <1>1, <3>3, <3>6, <3>7 DEF Reads, OnTransaction, OnTemplate, Copying
    <3> QED
        BY <1>1, <3>6, <3>8, LooksWork DEF Copying
  <2>4. CASE job' = [job EXCEPT ![q].todo = @ \ {t}, ![q].step =
                         IF job[q].kind = "duplicate" THEN "refused" ELSE "load"]
    <3> DEFINE step == IF job[q].kind = "duplicate" THEN "refused" ELSE "load"
               new == [j EXCEPT !.todo = rest, !.step = step]
    <3>1. step \in {"refused", "load"}
        OBVIOUS
    <3>2. job' = [job EXCEPT ![q] = new]
        BY <2>4 DEF rest
    <3> HIDE DEF step
    <3>3. /\ new \in Job /\ new.step = step /\ new.kind = j.kind
          /\ new.target = j.target /\ new.category = j.category /\ new.keeps = j.keeps
          /\ new.todo = rest /\ new.copies = j.copies
          /\ new.failures = j.failures
      <4>1. step \in Steps /\ rest \subseteq j.todo
          BY <3>1 DEF Steps, Over, rest
      <4> QED
          BY <1>1, <4>1 DEF Job
    <3> HIDE DEF new
    <3>4. CopiesHeld(new)
        BY <2>1, <3>1, <3>3 DEF CopiesHeld
    <3>5. JobFits(new)
        BY <1>1, <3>1, <3>3, <3>4 DEF JobFits, OnTransaction, OnTemplate, Copying
    <3>6. Frame(q) /\ job'[q] = new
        BY <1>1, <3>1, <3>2, <3>3, <3>5, MoveWorks DEF rest
    <3>7. Reads(q)
        BY <1>1, <3>1, <3>3, <3>6
           DEF Reads, OnTransaction, OnTemplate, Copying, HoldsFit, Holding, LeavesCategory
    <3> QED
        BY <1>1, <3>6, <3>7, LooksWork DEF Copying
  <2> QED
      BY <1>3, <2>3, <2>4
<1> QED
    BY <1>2, <1>3 DEF LoadOriginal

LEMMA SuggestWorks ==
    ASSUME Typed, NEW q \in Requests, Suggest(q)
    PROVE  Works(q)
<1> DEFINE j == job[q]
<1>1. /\ j.kind = "extract" /\ j.step = "suggest" /\ Running(q)
      /\ UNCHANGED <<stored, past, mix, failuresLeft>>
      /\ failuresLeft' \in 0..MaxFailures /\ failuresLeft' <= failuresLeft
      /\ j \in Job /\ JobFits(j) /\ TypeOK
    BY TransactionsAssumption DEF Suggest, Running, Typed, TypeOK, ShapeInv, Over, JobFits
<1>2. TransactionHeld(j)
    BY <1>1 DEF JobFits, OnTransaction, Loaded
<1>3. CASE Go(q, "refused")
    BY <1>1, <1>3, OverWorks DEF Over
<1>4. ASSUME NEW c \in Suggestions \cup {None},
             job' = [job EXCEPT ![q].doc.suggested = IF c = None THEN @ ELSE c,
                                ![q].step = "save"]
      PROVE  Works(q)
  <2> DEFINE suggested == IF c = None THEN j.doc.suggested ELSE c
             doc == [j.doc EXCEPT !.suggested = suggested]
             new == [j EXCEPT !.doc = doc, !.step = "save"]
  <2>1. j.doc \in Transaction /\ suggested \in Categories \cup {None}
    <3>1. j.doc \in Transaction /\ j.doc.suggested \in Categories \cup {None}
        BY <1>2 DEF TransactionHeld, Transaction
    <3>2. FromMapping \subseteq categories /\ FromHistory \subseteq categories
          /\ FromKeywords \subseteq categories /\ categories \subseteq Categories
        BY <1>1 DEF FromMapping, FromHistory, FromKeywords, TypeOK
    <3>3. Suggestions \subseteq Categories \cup {None}
        BY <3>2 DEF Suggestions
    <3> QED
        BY <1>4, <3>1, <3>3
  <2>2. job' = [job EXCEPT ![q] = new]
      BY <1>4
  <2> HIDE DEF suggested
  <2>3. /\ doc \in Transaction /\ doc.category = j.doc.category /\ doc.type = j.doc.type
        /\ doc.deleted = j.doc.deleted /\ doc.receipt = j.doc.receipt
        /\ doc.applied = j.doc.applied
      BY <2>1 DEF Transaction
  <2> HIDE DEF doc
  <2>4. /\ new \in Job /\ new.step = "save" /\ new.kind = j.kind
        /\ new.target = j.target /\ new.category = j.category /\ new.keeps = j.keeps
        /\ new.todo = j.todo /\ new.copies = j.copies
        /\ new.failures = j.failures /\ new.seen = j.seen /\ new.doc = doc
    <3>1. doc \in Docs \cup {None} /\ "save" \in Steps
        BY <2>3 DEF Docs, Steps
    <3> QED
        BY <1>1, <3>1 DEF Job
  <2> HIDE DEF new
  <2>5. TransactionHeld(new)
      BY <1>1, <1>2, <2>3, <2>4 DEF TransactionHeld
  <2>6. JobFits(new)
      BY <1>1, <2>4, <2>5 DEF JobFits, OnTemplate, Copying
  <2>7. Frame(q) /\ job'[q] = new
      BY <1>1, <2>2, <2>4, <2>6, MoveWorks
  <2>8. HoldsFit(j) => HoldsFit(new)
      BY <1>1, <2>3, <2>4 DEF HoldsFit, Holding, LeavesCategory, Fits
  <2>9. Reads(q)
      BY <1>1, <2>4, <2>7, <2>8 DEF Reads, Loaded, OnTemplate
  <2> QED
      BY <1>1, <2>7, <2>9, LooksWork
<1> QED
    BY <1>3, <1>4 DEF Suggest

LEMMA UpdatedTemplate ==
    ASSUME NEW q \in Requests, job[q] \in Job, NEW p \in Template, NEW doc, doc = Updated(q, p)
    PROVE  /\ doc \in Template /\ doc.usage = p.usage
           /\ "type" \in job[q].keeps => doc.type = p.type
           /\ "category" \in job[q].keeps => doc.category = p.category
BY DEF Updated, Template, Job

LEMMA LoadTemplateWorks ==
    ASSUME Typed, NEW q \in Requests, LoadTemplate(q)
    PROVE  Works(q)
<1> DEFINE j == job[q]
           p == templates[j.target]
           doc == TemplateChanged(q, p)
           step == IF Checks(q, doc) THEN "category"
                   ELSE IF j.kind = "incrementUsage" THEN "count" ELSE "save"
           new == [j EXCEPT !.seen = p, !.doc = doc, !.step = step]
<1>1. /\ j.kind \in OnTemplate /\ j.step = "load" /\ Running(q)
      /\ UNCHANGED <<stored, past, mix, failuresLeft>>
      /\ failuresLeft' \in 0..MaxFailures /\ failuresLeft' <= failuresLeft
      /\ j \in Job /\ JobFits(j) /\ TypeOK /\ p \in Template /\ j.target \in DOMAIN templates
  <2>1. j.kind \in OnTemplate /\ j.step = "load" /\ UNCHANGED <<stored, past, mix, failuresLeft>>
      BY DEF LoadTemplate, At
  <2> QED
      BY <2>1, TransactionsAssumption DEF Running, Typed, TypeOK, ShapeInv, Over
<1>2. CASE Go(q, "refused")
    BY <1>1, <1>2, OverWorks DEF Over, OnTemplate
<1>3. CASE job' = [job EXCEPT ![q].seen = p, ![q].doc = doc, ![q].step = step]
  <2>1. /\ j.kind \in {"updateTemplate", "removeTemplate", "incrementUsage"} =>
               doc \in Template /\ doc.usage = p.usage
        /\ j.kind \in {"removeTemplate", "fromTemplate"} =>
               doc.type = p.type /\ doc.category = p.category
        /\ j.kind = "fromTemplate" => doc \in Transaction
        /\ j.kind = "updateTemplate" => /\ "type" \in j.keeps => doc.type = p.type
                                        /\ "category" \in j.keeps => doc.category = p.category
    <3>1. CASE j.kind = "updateTemplate"
      <4>1. doc = Updated(q, p)
          BY <3>1 DEF TemplateChanged
      <4> QED
          BY <1>1, <3>1, <4>1, UpdatedTemplate
    <3>2. CASE j.kind \in {"removeTemplate", "incrementUsage"}
        BY <1>1, <3>2 DEF TemplateChanged, Template
    <3>3. CASE j.kind = "fromTemplate"
      <4>1. doc = NewTransaction(p.type, p.category)
          BY <3>3 DEF TemplateChanged
      <4>2. p.type \in Types /\ p.category \in Categories \cup {None}
          BY <1>1 DEF Template
      <4> QED
          BY <3>3, <4>1, <4>2, NewFields
    <3> QED
        BY <1>1, <3>1, <3>2, <3>3 DEF OnTemplate
  <2>2. /\ step \in {"category", "count", "save"}
        /\ step = "category" => j.kind \in {"updateTemplate", "fromTemplate"}
        /\ step = "count" <=> j.kind = "incrementUsage"
        /\ j.kind = "updateTemplate" /\ step = "save" /\ "category" \notin j.keeps =>
              doc.category = None
        /\ j.kind = "fromTemplate" /\ step = "save" => doc.category = None
      BY DEF Checks
  <2>3. job' = [job EXCEPT ![q] = new]
      BY <1>3
  <2> HIDE DEF doc, step
  <2>4. /\ new \in Job /\ new.step = step /\ new.kind = j.kind
        /\ new.target = j.target /\ new.category = j.category /\ new.keeps = j.keeps
        /\ new.todo = j.todo /\ new.copies = j.copies
        /\ new.failures = j.failures /\ new.seen = p /\ new.doc = doc
    <3>1. p \in Docs \cup {None} /\ doc \in Docs \cup {None} /\ step \in Steps
        BY <1>1, <2>1, <2>2 DEF Docs, Steps, OnTemplate
    <3> QED
        BY <1>1, <3>1 DEF Job
  <2> HIDE DEF new
  <2>5. TemplateHeld(new)
      BY <1>1, <2>1, <2>4 DEF TemplateHeld
  <2>6. JobFits(new)
      BY <1>1, <2>2, <2>4, <2>5 DEF JobFits, OnTransaction, OnTemplate, Copying
  <2>7. Frame(q) /\ job'[q] = new
      BY <1>1, <2>2, <2>3, <2>4, <2>6, MoveWorks
  <2>8. HoldsFit(new)
    <3>1. CASE step # "save"
        BY <2>2, <2>4, <3>1, NotHolding
    <3>2. CASE step = "save"
      <4>1. LeavesCategory(new) \/ doc.category = None
          BY <1>1, <2>2, <2>4, <3>2 DEF LeavesCategory, OnTemplate
      <4> QED
          BY <2>4, <4>1 DEF HoldsFit, Holding, Fits
    <3> QED
        BY <3>1, <3>2
  <2>9. Reads(q)
      BY <1>1, <2>2, <2>4, <2>7, <2>8 DEF Reads, stored, OnTransaction, OnTemplate
  <2> QED
      BY <1>1, <2>7, <2>9, LooksWork DEF OnTemplate
<1> QED
    BY <1>2, <1>3 DEF LoadTemplate

LEMMA FailWorks ==
    ASSUME Typed, NEW q \in Requests, Fail(q)
    PROVE  Works(q)
<1>1. /\ Running(q) /\ UNCHANGED <<stored, past, mix>> /\ Go(q, "failed")
      /\ failuresLeft' \in 0..MaxFailures /\ failuresLeft' <= failuresLeft
    BY TransactionsAssumption DEF Fail, Typed, TypeOK
<1> QED
    BY <1>1, OverWorks DEF Over

-----------------------------------------------------------------------------
(* Steps that save                                                         *)

\* A step of q that saves only transactions.
LEMMA TransactionsWork ==
    ASSUME TypeOK, NEW q \in Requests, Frame(q), Reads(q), job[q].kind # "import",
           UNCHANGED <<templates, categories, mapping, imports>>, MakesTransactions(q),
           \A t \in DOMAIN transactions : TransactionDoes(q, t)
    PROVE  Works(q)
BY DEF Works, MakesTemplate, TemplateDoes, TypeOK, MappingTyped

\* A step of q that saves only templates.
LEMMA TemplatesWork ==
    ASSUME TypeOK, NEW q \in Requests, Frame(q), Reads(q), job[q].kind # "import",
           UNCHANGED <<transactions, categories, mapping, imports>>, MakesTemplate(q),
           \A p \in DOMAIN templates : TemplateDoes(q, p)
    PROVE  Works(q)
BY DEF Works, MakesTransactions, TransactionDoes, TypeOK, MappingTyped

LEMMA SaveWorks ==
    ASSUME Typed, NEW q \in Requests, Save(q)
    PROVE  Works(q)
<1> DEFINE j == job[q]
           step == IF j.kind = "apply" /\ j.category # None THEN "override" ELSE "ok"
           saved == Saved(j.doc, j.seen, transactions[j.target])
<1>1. /\ At(q, OnTransaction \ {"saveAsTemplate"}, "save") /\ j.step = "save"
      /\ j.kind \in OnTransaction \ {"saveAsTemplate"}
      /\ Go(q, step) /\ step \in {"override", "ok"} /\ (step = "override" => j.kind = "apply")
      /\ UNCHANGED <<templates, categories, mapping, imports, past, mix, failuresLeft>>
      /\ transactions' = [transactions EXCEPT ![j.target] = saved]
    BY DEF Save, At
<1>2. /\ Running(q) /\ failuresLeft' \in 0..MaxFailures /\ failuresLeft' <= failuresLeft
      /\ j \in Job /\ JobFits(j) /\ TypeOK /\ j.target \in DOMAIN transactions
    BY <1>1, TransactionsAssumption DEF Running, Typed, TypeOK, ShapeInv, Over
<1>3. TransactionHeld(j)
    BY <1>1, <1>2 DEF JobFits, Loaded
<1>4. step = "override" => j.category # None
    OBVIOUS
<1> HIDE DEF step
<1>5. /\ job'[q].step = step /\ job'[q].kind = j.kind /\ job'[q].seen = j.seen
      /\ job'[q].doc = j.doc /\ job'[q].category = j.category /\ job'[q].keeps = j.keeps
    BY <1>1, <1>2, GoFields DEF TypeOK, Steps, Over
<1>6. JobFits(job'[q])
  <2>1. CASE step = "ok"
      BY <1>1, <1>2, <2>1, OverFits DEF Over
  <2>2. CASE step = "override"
    <3>1. TransactionHeld(job'[q])
        BY <1>3, <1>5, <2>2 DEF TransactionHeld
    <3> QED
        BY <1>1, <1>4, <1>5, <2>2, <3>1 DEF JobFits, OnTemplate, Copying
  <2> QED
      BY <1>1, <2>1, <2>2
<1>7. Frame(q)
    BY <1>1, <1>2, <1>6, GoWorks DEF Steps, Over
<1>8. /\ DOMAIN transactions' = DOMAIN transactions
      /\ transactions'[j.target] = saved
      /\ \A t \in DOMAIN transactions : t # j.target => transactions'[t] = transactions[t]
    BY <1>1, <1>2
<1>9. Reads(q)
  <2>1. HoldsFit(job'[q])
      BY <1>1, <1>5, NotHolding
  <2> QED
      BY <1>1, <1>5, <1>8, <2>1 DEF Reads, Loaded, OnTransaction, OnTemplate
<1>10. MakesTransactions(q) /\ \A t \in DOMAIN transactions : TransactionDoes(q, t)
    BY <1>1, <1>5, <1>8 DEF MakesTransactions, TransactionDoes
<1> QED
    BY <1>1, <1>2, <1>7, <1>9, <1>10, TransactionsWork DEF OnTransaction

LEMMA OverrideWorks ==
    ASSUME Typed, NEW q \in Requests, Override(q)
    PROVE  Works(q)
<1> DEFINE j == job[q]
           doc == [j.doc EXCEPT !.category = j.category]
           saved == Saved(doc, j.doc, transactions[j.target])
<1>1. PICK step \in {"relearn", "ok"} :
      /\ j.step = "override" /\ job' = [job EXCEPT ![q].doc = doc, ![q].step = step]
      /\ UNCHANGED <<templates, categories, mapping, imports, past, mix, failuresLeft>>
      /\ transactions' = [transactions EXCEPT ![j.target] = saved]
    BY DEF Override
<1>2. Running(q) /\ j \in Job /\ JobFits(j) /\ TypeOK
    BY <1>1 DEF Running, Typed, TypeOK, ShapeInv, Over
<1>3. /\ j.kind = "apply" /\ TransactionHeld(j) /\ j.target \in DOMAIN transactions
      /\ j.category # None /\ j.category \in Categories
    BY <1>1, <1>2 DEF JobFits, OnTransaction, Loaded, Typed, ShapeInv, Job
<1>4. /\ doc \in Transaction /\ doc.category = j.category /\ doc.type = j.doc.type
      /\ doc.deleted = j.doc.deleted /\ doc.receipt = j.doc.receipt
      /\ doc.scanned = j.doc.scanned /\ doc.suggested = j.doc.suggested
      /\ doc.applied = j.doc.applied /\ j.doc \in Transaction
    BY <1>3 DEF TransactionHeld, Transaction
<1> DEFINE new == [j EXCEPT !.doc = doc, !.step = step]
<1>5. job' = [job EXCEPT ![q] = new]
    BY <1>1
<1> HIDE DEF doc
<1>6. /\ new \in Job /\ new.step = step /\ new.kind = j.kind
      /\ new.target = j.target /\ new.category = j.category /\ new.keeps = j.keeps
      /\ new.todo = j.todo /\ new.copies = j.copies
      /\ new.failures = j.failures /\ new.seen = j.seen /\ new.doc = doc
  <2>1. doc \in Docs \cup {None} /\ step \in Steps
      BY <1>4 DEF Docs, Steps, Over
  <2> QED
      BY <1>2, <2>1 DEF Job
<1> HIDE DEF new
<1>7. TransactionHeld(new)
    BY <1>3, <1>4, <1>6 DEF TransactionHeld
<1>8. JobFits(new)
    BY <1>3, <1>6, <1>7 DEF JobFits, OnTemplate, Copying
<1>9. Frame(q) /\ job'[q] = new
    BY <1>1, <1>2, <1>5, <1>6, <1>8, MoveWorks
<1>10. /\ DOMAIN transactions' = DOMAIN transactions
       /\ transactions'[j.target] = saved
       /\ \A t \in DOMAIN transactions : t # j.target => transactions'[t] = transactions[t]
    BY <1>1, <1>3
<1>11. Reads(q)
    BY <1>1, <1>3, <1>6, <1>9 DEF Reads, Loaded, OnTemplate, Chosen
<1>12. /\ transactions[j.target] \in Transaction /\ saved \in Transaction
       /\ saved.deleted = transactions[j.target].deleted
       /\ saved.scanned = transactions[j.target].scanned
       /\ saved.suggested = transactions[j.target].suggested
  <2>1. transactions[j.target] \in Transaction
      BY <1>2, <1>3 DEF TypeOK
  <2> QED
      BY <1>4, <2>1, SavedFields
<1>13. MakesTransactions(q) /\ \A t \in DOMAIN transactions : TransactionDoes(q, t)
    BY <1>1, <1>3, <1>10, <1>12 DEF MakesTransactions, TransactionDoes, At
<1> QED
    BY <1>1, <1>2, <1>3, <1>9, <1>11, <1>13, TransactionsWork

LEMMA InsertWorks ==
    ASSUME Typed, NEW q \in Requests, Insert(q)
    PROVE  Works(q)
<1> DEFINE j == job[q]
           step == IF j.kind = "fromTemplate" THEN "count" ELSE "ok"
           id == <<q, 1>>
<1>1. /\ j.kind \in {"create", "fromTemplate"} /\ j.step = "save"
      /\ Go(q, step) /\ step \in {"count", "ok"} /\ (step = "count" <=> j.kind = "fromTemplate")
      /\ UNCHANGED <<templates, categories, mapping, imports, past, mix, failuresLeft>>
      /\ transactions' = Added(transactions, id, j.doc)
    BY DEF Insert, At
<1>2. /\ Running(q) /\ failuresLeft' \in 0..MaxFailures /\ failuresLeft' <= failuresLeft
      /\ j \in Job /\ JobFits(j) /\ TypeOK
    BY <1>1, TransactionsAssumption DEF Running, Typed, TypeOK, ShapeInv, Over
<1>3. j.doc \in Transaction /\ (j.kind = "fromTemplate" => TemplateHeld(j))
    BY <1>1, <1>2 DEF JobFits, TemplateHeld, OnTemplate, TemplateLoaded
<1>4. 1 \in 1..MaxCopies /\ id \notin DOMAIN transactions
  <2>1. 1 \in 1..MaxCopies
      BY TransactionsAssumption
  <2> QED
      BY <1>1, <2>1 DEF Typed, MadeInv, Copying
<1> HIDE DEF step
<1>5. /\ job'[q].step = step /\ job'[q].kind = j.kind /\ job'[q].seen = j.seen
      /\ job'[q].doc = j.doc /\ job'[q].category = j.category /\ job'[q].keeps = j.keeps
    BY <1>1, <1>2, GoFields DEF TypeOK, Steps, Over
<1>6. JobFits(job'[q])
  <2>1. CASE step = "ok"
      BY <1>1, <1>2, <2>1, OverFits DEF Over
  <2>2. CASE step = "count"
    <3>1. TemplateHeld(job'[q])
        BY <1>1, <1>3, <1>5, <2>2 DEF TemplateHeld
    <3> QED
        BY <1>1, <1>5, <2>2, <3>1 DEF JobFits, OnTransaction, Copying
  <2> QED
      BY <1>1, <2>1, <2>2
<1>7. Frame(q)
    BY <1>1, <1>2, <1>6, GoWorks DEF Steps, Over
<1>8. /\ DOMAIN transactions' = DOMAIN transactions \cup {id}
      /\ transactions'[id] = j.doc
      /\ \A t \in DOMAIN transactions : transactions'[t] = transactions[t]
    BY <1>1, <1>4 DEF Added
<1>9. Reads(q)
  <2>1. HoldsFit(job'[q])
      BY <1>1, <1>5, NotHolding
  <2> QED
      BY <1>1, <1>5, <1>8, <2>1 DEF Reads, TemplateLoaded, OnTransaction, OnTemplate
<1>10. MakesTransactions(q) /\ \A t \in DOMAIN transactions : TransactionDoes(q, t)
  <2>1. Makes(q, 1) /\ (HoldsFit(j) => Fits(j.doc))
      BY <1>1, <1>5 DEF Makes, HoldsFit, Holding, LeavesCategory
  <2> QED
      BY <1>3, <1>4, <1>8, <2>1 DEF MakesTransactions, TransactionDoes
<1> QED
    BY <1>1, <1>2, <1>7, <1>9, <1>10, TransactionsWork

LEMMA DeleteAllWorks ==
    ASSUME Typed, NEW q \in Requests, DeleteAll(q)
    PROVE  Works(q)
<1> DEFINE j == job[q]
<1>1. /\ At(q, {"bulkDelete"}, "save") /\ j.kind = "bulkDelete" /\ j.step = "save"
      /\ Go(q, "ok")
      /\ UNCHANGED <<templates, categories, mapping, imports, past, mix, failuresLeft>>
      /\ DOMAIN transactions' = DOMAIN transactions
      /\ \A t \in DOMAIN transactions : transactions'[t] =
            IF t \in j.todo THEN [transactions[t] EXCEPT !.deleted = TRUE] ELSE transactions[t]
    BY DEF DeleteAll, At
<1>2. /\ Running(q) /\ failuresLeft' \in 0..MaxFailures /\ failuresLeft' <= failuresLeft
      /\ j \in Job /\ JobFits(j) /\ TypeOK
    BY <1>1, TransactionsAssumption DEF Running, Typed, TypeOK, ShapeInv, Over
<1>3. job'[q].step = "ok" /\ job'[q].todo = j.todo
    BY <1>1, <1>2, GoFields DEF TypeOK, Steps, Over
<1>4. JobFits(job'[q])
    BY <1>1, <1>2, OverFits DEF Over
<1>5. Frame(q)
    BY <1>1, <1>2, <1>4, GoWorks DEF Steps, Over
<1>6. Reads(q)
  <2>1. HoldsFit(job'[q])
      BY <1>3, NotHolding
  <2> QED
      BY <1>1, <1>3, <2>1 DEF Reads, OnTransaction, OnTemplate
<1>7. MakesTransactions(q)
    BY <1>1 DEF MakesTransactions
<1>8. \A t \in DOMAIN transactions : TransactionDoes(q, t)
    BY <1>1, <1>3 DEF TransactionDoes
<1> QED
    BY <1>1, <1>2, <1>5, <1>6, <1>7, <1>8, TransactionsWork

LEMMA SaveCopyWorks ==
    ASSUME Typed, NEW q \in Requests, SaveCopy(q)
    PROVE  Works(q)
<1> DEFINE j == job[q]
           n == j.copies + 1
           id == <<q, n>>
           new == [j EXCEPT !.copies = n, !.step = "load"]
<1>1. /\ j.kind \in Copying /\ j.step = "save"
      /\ UNCHANGED <<templates, categories, mapping, imports, past, mix, failuresLeft>>
      /\ transactions' = Added(transactions, id, j.doc)
      /\ job' = [job EXCEPT ![q].copies = n, ![q].step = "load"]
    BY DEF SaveCopy, At, Copying
<1>2. Running(q) /\ j \in Job /\ JobFits(j) /\ TypeOK
    BY <1>1 DEF Running, Typed, TypeOK, ShapeInv, Over
<1>3. /\ CopiesHeld(j) /\ j.doc \in Transaction /\ Cardinality(j.todo) \in Nat
      /\ j.copies + Cardinality(j.todo) + 1 <= MaxCopies /\ j.copies \in Nat
    BY <1>1, <1>2, FS_CardinalityType, TransactionsAssumption DEF JobFits, CopiesHeld, Job
<1>4. n \in 1..MaxCopies /\ n \in 0..MaxCopies /\ n > j.copies
    BY <1>3, TransactionsAssumption
<1>5. id \notin DOMAIN transactions
    BY <1>1, <1>3, <1>4 DEF Typed, MadeInv, Copying
<1>6. job' = [job EXCEPT ![q] = new]
    BY <1>1
<1> HIDE DEF n
<1>7. /\ new \in Job /\ new.step = "load" /\ new.kind = j.kind
      /\ new.target = j.target /\ new.category = j.category /\ new.keeps = j.keeps
      /\ new.todo = j.todo /\ new.copies = n
      /\ new.failures = j.failures /\ new.doc = j.doc
  <2>1. "load" \in Steps
      BY DEF Steps
  <2> QED
      BY <1>2, <1>4, <2>1 DEF Job
<1> HIDE DEF new
<1>8. CopiesHeld(new)
    BY <1>3, <1>7, TransactionsAssumption DEF CopiesHeld, n
<1>9. JobFits(new)
    BY <1>1, <1>7, <1>8 DEF JobFits, OnTransaction, OnTemplate, Copying
<1>10. job' \in [Requests -> Job] /\ job'[q] = new /\ \A p \in Requests \ {q} : job'[p] = job[p]
    BY <1>2, <1>6, <1>7, MoveFields DEF TypeOK
<1>11. Frame(q)
  <2>1. new.copies >= j.copies /\ new.failures >= j.failures
      BY <1>2, <1>3, <1>4, <1>7, TransactionsAssumption DEF Job
  <2>2. failuresLeft' \in 0..MaxFailures /\ failuresLeft' <= failuresLeft
      BY <1>1, <1>2, TransactionsAssumption DEF TypeOK
  <2> QED
      BY <1>1, <1>2, <1>7, <1>9, <1>10, <2>1, <2>2 DEF Frame
<1>12. /\ DOMAIN transactions' = DOMAIN transactions \cup {id}
       /\ transactions'[id] = j.doc
       /\ \A t \in DOMAIN transactions : transactions'[t] = transactions[t]
    BY <1>1, <1>5 DEF Added
<1>13. Reads(q)
  <2>1. HoldsFit(job'[q])
      BY <1>7, <1>10, NotHolding
  <2> QED
      BY <1>1, <1>7, <1>10, <2>1 DEF Reads, Loaded, OnTransaction, OnTemplate, Copying
<1>14. MakesTransactions(q) /\ \A t \in DOMAIN transactions : TransactionDoes(q, t)
  <2>1. Makes(q, n) /\ (HoldsFit(j) => Fits(j.doc))
      BY <1>1, <1>7, <1>10 DEF Makes, HoldsFit, Holding, LeavesCategory, n, Copying
  <2> QED
      BY <1>3, <1>4, <1>12, <2>1 DEF MakesTransactions, TransactionDoes
<1> QED
    BY <1>1, <1>2, <1>11, <1>13, <1>14, TransactionsWork DEF Copying

LEMMA InsertMappingWorks ==
    ASSUME Typed, NEW q \in Requests, InsertMapping(q)
    PROVE  Works(q)
<1> DEFINE j == job[q]
           step == AfterLearning[j.step]
<1>1. /\ j.step \in {"insert", "reinsert"} /\ Go(q, step) /\ step \in {"save", "ok"}
      /\ (step = "save" <=> j.step = "insert")
      /\ UNCHANGED <<transactions, templates, categories, imports, past, mix, failuresLeft>>
      /\ mapping' = IF NameFree THEN [state |-> "live", category |-> j.doc.category] ELSE mapping
    BY DEF InsertMapping, AfterLearning
<1>2. /\ Running(q) /\ failuresLeft' \in 0..MaxFailures /\ failuresLeft' <= failuresLeft
      /\ j \in Job /\ JobFits(j) /\ TypeOK
    BY <1>1, TransactionsAssumption DEF Running, Typed, TypeOK, ShapeInv, Over
<1>3. j.kind = "apply" /\ TransactionHeld(j)
    BY <1>1, <1>2 DEF JobFits, OnTransaction, Loaded
<1> HIDE DEF step
<1>4. /\ job'[q].step = step /\ job'[q].kind = j.kind /\ job'[q].seen = j.seen
      /\ job'[q].doc = j.doc /\ job'[q].category = j.category /\ job'[q].keeps = j.keeps
    BY <1>1, <1>2, GoFields DEF TypeOK, Steps, Over
<1>5. JobFits(job'[q])
  <2>1. CASE step = "ok"
      BY <1>1, <1>2, <2>1, OverFits DEF Over
  <2>2. CASE step = "save"
    <3>1. TransactionHeld(job'[q])
        BY <1>3, <1>4, <2>2 DEF TransactionHeld
    <3> QED
        BY <1>3, <1>4, <2>2, <3>1 DEF JobFits, OnTemplate, Copying
  <2> QED
      BY <1>1, <2>1, <2>2
<1>6. Frame(q)
    BY <1>1, <1>2, <1>5, GoWorks DEF Steps, Over
<1>7. Reads(q)
    BY <1>1, <1>3, <1>4 DEF Reads, Loaded, OnTemplate, HoldsFit, Holding, LeavesCategory
<1>8. MappingTyped'
  <2>1. j.doc.category \in Categories \cup {None} /\ j.doc.category # None
      BY <1>1, <1>3 DEF TransactionHeld, Transaction
  <2>2. MappingTyped
      BY <1>2 DEF TypeOK, MappingTyped
  <2> QED
      BY <1>1, <2>1, <2>2 DEF MappingTyped, Mapping
<1> QED
    BY <1>1, <1>2, <1>3, <1>6, <1>7, <1>8
       DEF Works, MakesTransactions, MakesTemplate, TransactionDoes, TemplateDoes, TypeOK

LEMMA SaveTemplateWorks ==
    ASSUME Typed, NEW q \in Requests, SaveTemplate(q)
    PROVE  Works(q)
<1> DEFINE j == job[q]
           saved == Saved(j.doc, j.seen, templates[j.target])
<1>1. /\ At(q, {"updateTemplate", "removeTemplate"}, "save") /\ j.step = "save"
      /\ j.kind \in {"updateTemplate", "removeTemplate"} /\ Go(q, "ok")
      /\ UNCHANGED <<transactions, categories, mapping, imports, past, mix, failuresLeft>>
      /\ templates' = [templates EXCEPT ![j.target] = saved]
    BY DEF SaveTemplate, At
<1>2. /\ Running(q) /\ failuresLeft' \in 0..MaxFailures /\ failuresLeft' <= failuresLeft
      /\ JobFits(j) /\ TypeOK /\ j.target \in DOMAIN templates
    BY <1>1, TransactionsAssumption DEF Running, Typed, TypeOK, ShapeInv, Over, OnTemplate
<1>3. job'[q].step = "ok"
    BY <1>1, <1>2, GoFields DEF TypeOK, Steps, Over
<1>4. JobFits(job'[q])
    BY <1>1, <1>2, OverFits DEF Over
<1>5. Frame(q)
    BY <1>1, <1>2, <1>4, GoWorks DEF Steps, Over
<1>6. /\ DOMAIN templates' = DOMAIN templates /\ templates'[j.target] = saved
      /\ \A p \in DOMAIN templates : p # j.target => templates'[p] = templates[p]
    BY <1>1, <1>2
<1>7. Reads(q)
  <2>1. HoldsFit(job'[q])
      BY <1>3, NotHolding
  <2> QED
      BY <1>1, <1>3, <2>1 DEF Reads, TemplateLoaded, OnTransaction, OnTemplate
<1>8. MakesTemplate(q) /\ \A p \in DOMAIN templates : TemplateDoes(q, p)
    BY <1>1, <1>3, <1>6 DEF MakesTemplate, TemplateDoes
<1> QED
    BY <1>1, <1>2, <1>5, <1>7, <1>8, TemplatesWork

LEMMA InsertTemplateWorks ==
    ASSUME Typed, NEW q \in Requests, InsertTemplate(q)
    PROVE  Works(q)
<1> DEFINE j == job[q]
           new == NewTemplate(j.doc.type, j.doc.category)
<1>1. /\ j.step = "save" /\ j.kind \in {"createTemplate", "saveAsTemplate"} /\ Go(q, "ok")
      /\ UNCHANGED <<transactions, categories, mapping, imports, past, mix, failuresLeft>>
      /\ templates' = Added(templates, q, new)
    BY DEF InsertTemplate, At
<1>2. /\ Running(q) /\ failuresLeft' \in 0..MaxFailures /\ failuresLeft' <= failuresLeft
      /\ JobFits(j) /\ TypeOK
    BY <1>1, TransactionsAssumption DEF Running, Typed, TypeOK, ShapeInv, Over
<1>3. j.doc \in Docs
    BY <1>1, <1>2 DEF JobFits, TransactionHeld, OnTransaction, Loaded, Docs
<1>4. /\ new \in Template /\ new.usage = 0
      /\ new.type = j.doc.type /\ new.category = j.doc.category
  <2>1. j.doc.type \in Types /\ j.doc.category \in Categories \cup {None}
      BY <1>3 DEF Docs, Transaction, Template
  <2> QED
      BY <2>1, NewFields
<1> HIDE DEF new
<1>5. q \notin DOMAIN templates
    BY <1>1 DEF Typed, MadeInv
<1>6. job'[q].step = "ok"
    BY <1>1, <1>2, GoFields DEF TypeOK, Steps, Over
<1>7. JobFits(job'[q])
    BY <1>1, <1>2, OverFits DEF Over
<1>8. Frame(q)
    BY <1>1, <1>2, <1>7, GoWorks DEF Steps, Over
<1>9. /\ DOMAIN templates' = DOMAIN templates \cup {q} /\ templates'[q] = new
      /\ \A p \in DOMAIN templates : templates'[p] = templates[p]
    BY <1>1, <1>5 DEF Added
<1>10. Reads(q)
  <2>1. HoldsFit(job'[q])
      BY <1>6, NotHolding
  <2> QED
      BY <1>1, <1>6, <2>1 DEF Reads, Loaded, OnTransaction, OnTemplate
<1>11. HoldsFit(j) => Fits(new)
    BY <1>1, <1>4 DEF HoldsFit, Holding, LeavesCategory, Fits
<1>12. MakesTemplate(q) /\ \A p \in DOMAIN templates : TemplateDoes(q, p)
    BY <1>1, <1>4, <1>6, <1>9, <1>11 DEF MakesTemplate, TemplateDoes
<1> QED
    BY <1>1, <1>2, <1>8, <1>10, <1>12, TemplatesWork

LEMMA CountUsageWorks ==
    ASSUME Typed, NEW q \in Requests, CountUsage(q)
    PROVE  Works(q)
<1> DEFINE j == job[q]
           p == templates[j.target]
           usage == j.seen.usage + 1
           new == [p EXCEPT !.usage = usage]
<1>1. /\ j.step = "count" /\ Go(q, "ok")
      /\ UNCHANGED <<transactions, categories, mapping, imports, past, mix, failuresLeft>>
      /\ templates' = [templates EXCEPT ![j.target].usage = usage]
    BY DEF CountUsage, UsageAfter
<1>2. /\ Running(q) /\ failuresLeft' \in 0..MaxFailures /\ failuresLeft' <= failuresLeft
      /\ JobFits(j) /\ TypeOK
    BY <1>1, TransactionsAssumption DEF Running, Typed, TypeOK, ShapeInv, Over
<1>3. j.kind \in {"fromTemplate", "incrementUsage"} /\ TemplateHeld(j)
    BY <1>1, <1>2 DEF JobFits, OnTemplate, TemplateLoaded
<1>4. j.target \in DOMAIN templates /\ p \in Template /\ usage \in Nat
    BY <1>2, <1>3 DEF Typed, ShapeInv, TypeOK, OnTemplate, TemplateHeld, Template
<1>5. templates' = [templates EXCEPT ![j.target] = new]
    BY <1>1
<1> HIDE DEF usage
<1>6. /\ new \in Template /\ new.usage = usage /\ new.type = p.type
      /\ new.category = p.category
    BY <1>4 DEF Template
<1> HIDE DEF new
<1>7. /\ DOMAIN templates' = DOMAIN templates /\ templates'[j.target] = new
      /\ \A r \in DOMAIN templates : r # j.target => templates'[r] = templates[r]
    BY <1>4, <1>5
<1>8. job'[q].step = "ok"
    BY <1>1, <1>2, GoFields DEF TypeOK, Steps, Over
<1>9. JobFits(job'[q])
    BY <1>1, <1>2, OverFits DEF Over
<1>10. Frame(q)
    BY <1>1, <1>2, <1>9, GoWorks DEF Steps, Over
<1>11. Reads(q)
  <2>1. HoldsFit(job'[q])
      BY <1>8, NotHolding
  <2> QED
      BY <1>1, <1>3, <1>6, <1>7, <1>8, <2>1
         DEF Reads, TemplateLoaded, OnTransaction, OnTemplate, usage
<1>12. MakesTemplate(q) /\ \A r \in DOMAIN templates : TemplateDoes(q, r)
    BY <1>1, <1>6, <1>7, <1>8 DEF MakesTemplate, TemplateDoes, usage
<1> QED
    BY <1>1, <1>2, <1>3, <1>10, <1>11, <1>12, TemplatesWork

-----------------------------------------------------------------------------
(* Steps of imports                                                        *)

LEMMA ImportsWork ==
    ASSUME TypeOK, NEW q \in Requests, Frame(q), job[q].kind = "import", ImportDoes(q),
           UNCHANGED <<templates, categories, mapping>>, MakesTransactions(q),
           \A t \in DOMAIN transactions : transactions'[t] = transactions[t],
           imports' \in [Requests -> Import],
           \A r \in Requests \ {q} : imports'[r] = imports[r]
    PROVE  Works(q)
<1>1. Reads(q)
    BY DEF Reads, OnTransaction, OnTemplate
<1>2. MakesTemplate(q) /\ (\A p \in DOMAIN templates : TemplateDoes(q, p)) /\ MappingTyped'
    BY DEF MakesTemplate, TemplateDoes, MappingTyped, TypeOK
<1> QED
    BY <1>1, <1>2 DEF Works, TransactionDoes

\* The import of q, at a step of imports.
LEMMA ImportAt ==
    ASSUME Typed, NEW q \in Requests,
           job[q].step \in {"history", "parse", "names", "row", "catch"}
    PROVE  /\ Running(q) /\ job[q].kind = "import" /\ job[q] \in Job /\ JobFits(job[q])
           /\ TypeOK /\ imports[q] \in Import /\ failuresLeft \in Nat /\ MaxFailures \in Nat
           /\ job[q].copies \in Nat /\ job[q].failures \in Nat
           /\ job[q].copies + job[q].failures <= MaxCopies /\ MaxCopies \in Nat \ {0}
BY TransactionsAssumption DEF Typed, TypeOK, ShapeInv, JobFits, Running, Over, Job

\* Those that only go on, or write their history.
LEMMA ImportGoes ==
    ASSUME Typed, NEW q \in Requests, NEW step \in Steps, Go(q, step), step # "idle",
           job[q].step \in {"history", "parse", "names", "row", "catch"},
           step \in {"history", "parse", "names"} => job[q].step \in {"history", "parse"},
           step \notin Loaded \cup {"count"},
           UNCHANGED <<transactions, templates, categories, mapping, past, mix>>,
           failuresLeft' \in 0..MaxFailures, failuresLeft' <= failuresLeft,
           NEW h \in Import, imports' = [imports EXCEPT ![q] = h], ImportDoes(q)
    PROVE  Works(q)
<1>1. /\ Running(q) /\ job[q].kind = "import" /\ JobFits(job[q]) /\ TypeOK
    BY ImportAt
<1>2. /\ job'[q].step = step /\ job'[q].kind = job[q].kind
      /\ job'[q].copies = job[q].copies /\ job'[q].failures = job[q].failures
    BY <1>1, GoFields DEF TypeOK
<1>3. JobFits(job'[q])
    BY <1>1, <1>2 DEF JobFits, Loaded, OnTransaction, OnTemplate, Copying
<1>4. Frame(q)
    BY <1>1, <1>3, GoWorks
<1>5. MakesTransactions(q)
    BY DEF MakesTransactions
<1>6. imports' \in [Requests -> Import] /\ \A r \in Requests \ {q} : imports'[r] = imports[r]
    BY <1>1 DEF TypeOK
<1> QED
    BY <1>1, <1>4, <1>5, <1>6, ImportsWork

LEMMA OpenImportWorks ==
    ASSUME Typed, NEW q \in Requests, OpenImport(q)
    PROVE  Works(q)
<1> DEFINE h == [imports[q] EXCEPT !.status = "processing"]
<1>1. /\ job[q].step = "history" /\ Go(q, "parse") /\ "parse" \in Steps /\ "parse" \notin Loaded
      /\ UNCHANGED <<transactions, templates, categories, mapping, past, mix, failuresLeft>>
      /\ imports' = [imports EXCEPT ![q] = h]
    BY DEF OpenImport, Steps, Loaded
<1>2. TypeOK /\ imports[q] \in Import
    BY <1>1, ImportAt
<1>3. h \in Import /\ h.status = "processing"
    BY <1>2 DEF Import
<1> HIDE DEF h
<1>4. /\ job'[q].step = "parse" /\ job'[q].copies = job[q].copies
      /\ job'[q].failures = job[q].failures /\ imports'[q] = h
    BY <1>1, <1>2, GoFields DEF TypeOK
<1>5. ImportDoes(q)
    BY <1>1, <1>3, <1>4 DEF ImportDoes, Saves
<1>6. failuresLeft' \in 0..MaxFailures /\ failuresLeft' <= failuresLeft
    BY <1>1, <1>2, TransactionsAssumption DEF TypeOK
<1> QED
    BY <1>1, <1>3, <1>5, <1>6, ImportGoes

LEMMA ParseWorks ==
    ASSUME Typed, NEW q \in Requests, Parse(q)
    PROVE  Works(q)
<1>1. PICK step \in {"names", "catch"} : job[q].step = "parse" /\ Go(q, step)
    BY DEF Parse
<1>2. /\ UNCHANGED <<stored, past, mix, failuresLeft>> /\ step \in Steps /\ step \notin Loaded
    BY <1>1 DEF Parse, Steps, Loaded
<1>3. TypeOK /\ imports[q] \in Import /\ imports' = [imports EXCEPT ![q] = imports[q]]
    BY <1>1, <1>2, ImportAt DEF stored, TypeOK
<1>4. /\ job'[q].step = step /\ job'[q].copies = job[q].copies
      /\ job'[q].failures = job[q].failures
    BY <1>1, <1>2, <1>3, GoFields DEF TypeOK
<1>5. ImportDoes(q)
    BY <1>1, <1>2, <1>4 DEF ImportDoes, Saves, stored
<1>6. failuresLeft' \in 0..MaxFailures /\ failuresLeft' <= failuresLeft
    BY <1>2, <1>3, TransactionsAssumption DEF TypeOK
<1> QED
    BY <1>1, <1>2, <1>3, <1>5, <1>6, ImportGoes DEF stored

LEMMA CloseImportWorks ==
    ASSUME Typed, NEW q \in Requests, CloseImport(q)
    PROVE  Works(q)
<1> DEFINE j == job[q]
           h == [status |-> "completed", imported |-> j.copies, failed |-> j.failures]
<1>1. /\ j.step = "row" /\ Rows(q) = MaxCopies
      /\ UNCHANGED <<transactions, templates, categories, mapping, past, mix>>
      /\ "ok" \in Steps \ Loaded /\ "catch" \in Steps \ Loaded
    BY DEF CloseImport, Steps, Over, Loaded
<1>2. TypeOK /\ imports[q] \in Import /\ j \in Job /\ failuresLeft \in Nat
    BY <1>1, ImportAt
<1>3. CASE imports' = [imports EXCEPT ![q] = h] /\ Go(q, "ok") /\ UNCHANGED failuresLeft
  <2>1. h \in Import /\ imports'[q] = h
      BY <1>2, <1>3 DEF Import, Job, TypeOK
  <2>2. /\ job'[q].step = "ok" /\ job'[q].copies = j.copies /\ job'[q].failures = j.failures
      BY <1>1, <1>2, <1>3, GoFields DEF TypeOK
  <2>3. ImportDoes(q)
      BY <1>1, <2>1, <2>2 DEF ImportDoes, Saves
  <2>4. failuresLeft' \in 0..MaxFailures /\ failuresLeft' <= failuresLeft
      BY <1>2, <1>3 DEF TypeOK
  <2> QED
      BY <1>1, <1>3, <2>1, <2>3, <2>4, ImportGoes
<1>4. CASE /\ failuresLeft > 0 /\ failuresLeft' = failuresLeft - 1
           /\ Go(q, "catch") /\ UNCHANGED imports
  <2>1. imports' = [imports EXCEPT ![q] = imports[q]]
      BY <1>2, <1>4 DEF TypeOK
  <2>2. /\ job'[q].step = "catch" /\ job'[q].copies = j.copies /\ job'[q].failures = j.failures
      BY <1>1, <1>2, <1>4, GoFields DEF TypeOK
  <2>3. ImportDoes(q)
      BY <1>1, <1>2, <1>4, <2>2 DEF ImportDoes, Saves
  <2>4. failuresLeft' \in 0..MaxFailures /\ failuresLeft' <= failuresLeft
      BY <1>2, <1>4, TransactionsAssumption DEF TypeOK
  <2> QED
      BY <1>1, <1>2, <1>4, <2>1, <2>3, <2>4, ImportGoes
<1> QED
    BY <1>3, <1>4 DEF CloseImport

LEMMA CatchImportWorks ==
    ASSUME Typed, NEW q \in Requests, CatchImport(q)
    PROVE  Works(q)
<1> DEFINE j == job[q]
           h == [status |-> "failed", imported |-> j.copies, failed |-> j.failures]
<1>1. /\ j.step = "catch" /\ Go(q, "refused") /\ imports' = [imports EXCEPT ![q] = h]
      /\ UNCHANGED <<transactions, templates, categories, mapping, past, mix, failuresLeft>>
      /\ "refused" \in Steps \ Loaded
    BY DEF CatchImport, Steps, Over, Loaded
<1>2. TypeOK /\ imports[q] \in Import /\ j \in Job
    BY <1>1, ImportAt
<1>3. h \in Import /\ imports'[q] = h
    BY <1>1, <1>2 DEF Import, Job, TypeOK
<1>4. /\ job'[q].step = "refused" /\ job'[q].copies = j.copies /\ job'[q].failures = j.failures
    BY <1>1, <1>2, GoFields DEF TypeOK
<1>5. ImportDoes(q)
    BY <1>1, <1>3, <1>4 DEF ImportDoes, Saves
<1>6. failuresLeft' \in 0..MaxFailures /\ failuresLeft' <= failuresLeft
    BY <1>1, <1>2, TransactionsAssumption DEF TypeOK
<1> QED
    BY <1>1, <1>3, <1>5, <1>6, ImportGoes

LEMMA MapNamesWorks ==
    ASSUME Typed, NEW q \in Requests, MapNames(q)
    PROVE  Works(q)
<1> DEFINE j == job[q]
           new == [j EXCEPT !.names = categories, !.step = "row"]
<1>1. /\ j.step = "names" /\ UNCHANGED <<stored, past, mix, failuresLeft>>
      /\ job' = [job EXCEPT ![q] = new]
    BY DEF MapNames
<1>2. /\ Running(q) /\ j.kind = "import" /\ TypeOK /\ j \in Job /\ JobFits(j)
      /\ categories \subseteq Categories
    BY <1>1, ImportAt DEF TypeOK
<1>3. /\ new \in Job /\ new.step = "row" /\ new.kind = j.kind
      /\ new.target = j.target /\ new.category = j.category /\ new.keeps = j.keeps
      /\ new.todo = j.todo /\ new.copies = j.copies
      /\ new.failures = j.failures
  <2>1. "row" \in Steps
      BY DEF Steps
  <2> QED
      BY <1>2, <2>1 DEF Job
<1> HIDE DEF new
<1>4. JobFits(new)
    BY <1>2, <1>3 DEF JobFits, OnTransaction, OnTemplate, Copying
<1>5. Frame(q) /\ job'[q] = new
    BY <1>1, <1>2, <1>3, <1>4, MoveWorks
<1>6. ImportDoes(q)
    BY <1>1, <1>3, <1>5 DEF ImportDoes, Saves, stored
<1>7. Reads(q)
    BY <1>2 DEF Reads, OnTransaction, OnTemplate
<1> QED
    BY <1>1, <1>2, <1>5, <1>6, <1>7, LooksWork

\* A row that is counted as a copy or as a failure.
LEMMA RowFrame ==
    ASSUME Typed, NEW q \in Requests, job[q].step = "row", Rows(q) < MaxCopies,
           UNCHANGED <<past, mix, failuresLeft>>,
           NEW new \in Job, job' = [job EXCEPT ![q] = new],
           new.step = "row", new.kind = job[q].kind, new.target = job[q].target,
           new.category = job[q].category, new.keeps = job[q].keeps, new.todo = job[q].todo,
           \/ new.copies = job[q].copies + 1 /\ new.failures = job[q].failures
           \/ new.copies = job[q].copies /\ new.failures = job[q].failures + 1
    PROVE  Frame(q) /\ job'[q] = new
<1> DEFINE j == job[q]
<1>1. /\ Running(q) /\ j.kind = "import" /\ TypeOK /\ JobFits(j)
      /\ j.copies \in Nat /\ j.failures \in Nat /\ MaxCopies \in Nat
    BY ImportAt
<1>2. /\ new.copies + new.failures <= MaxCopies
      /\ new.copies >= j.copies /\ new.failures >= j.failures
    BY <1>1 DEF Rows
<1>3. JobFits(new)
    BY <1>1, <1>2 DEF JobFits, OnTransaction, OnTemplate, Copying
<1>4. job' \in [Requests -> Job] /\ job'[q] = new /\ \A p \in Requests \ {q} : job'[p] = job[p]
    BY <1>1, MoveFields DEF TypeOK
<1>5. failuresLeft' \in 0..MaxFailures /\ failuresLeft' <= failuresLeft
    BY <1>1, TransactionsAssumption DEF TypeOK
<1> QED
    BY <1>1, <1>2, <1>3, <1>4, <1>5 DEF Frame

LEMMA FailRowWorks ==
    ASSUME Typed, NEW q \in Requests, FailRow(q)
    PROVE  Works(q)
<1> DEFINE j == job[q]
           n == j.failures + 1
           new == [j EXCEPT !.failures = n]
<1>1. /\ j.step = "row" /\ Rows(q) < MaxCopies /\ UNCHANGED <<stored, past, mix, failuresLeft>>
      /\ job' = [job EXCEPT ![q] = new]
    BY DEF FailRow
<1>2. /\ j.kind = "import" /\ TypeOK /\ j \in Job /\ n \in 0..MaxCopies
    BY <1>1, ImportAt DEF Rows
<1> HIDE DEF n
<1>3. /\ new \in Job /\ new.step = "row" /\ new.kind = j.kind
      /\ new.target = j.target /\ new.category = j.category /\ new.keeps = j.keeps
      /\ new.todo = j.todo /\ new.copies = j.copies
      /\ new.failures = n
    BY <1>1, <1>2 DEF Job
<1> HIDE DEF new
<1>4. Frame(q) /\ job'[q] = new
    BY <1>1, <1>3, RowFrame DEF n
<1>5. ImportDoes(q)
    BY <1>1, <1>3, <1>4 DEF ImportDoes, Saves, stored, n
<1>6. Reads(q)
    BY <1>2 DEF Reads, OnTransaction, OnTemplate
<1> QED
    BY <1>1, <1>2, <1>4, <1>5, <1>6, LooksWork

LEMMA SaveRowWorks ==
    ASSUME Typed, NEW q \in Requests, SaveRow(q)
    PROVE  Works(q)
<1> DEFINE j == job[q]
           n == j.copies + 1
           row == Rows(q) + 1
           new == [j EXCEPT !.copies = n]
<1>1. /\ j.step = "row" /\ Rows(q) < MaxCopies
      /\ UNCHANGED <<templates, categories, mapping, imports, past, mix, failuresLeft>>
      /\ job' = [job EXCEPT ![q] = new]
    BY DEF SaveRow
<1>2. /\ j.kind = "import" /\ TypeOK /\ j \in Job /\ n \in 0..MaxCopies /\ row \in 1..MaxCopies
      /\ row > j.copies + j.failures /\ row = j.copies + j.failures + 1
      /\ j.copies \in Nat /\ j.failures \in Nat
    BY <1>1, ImportAt DEF Rows
<1>3. PICK type \in Types, c \in j.names \cup {None} :
           transactions' = Added(transactions, <<q, row>>, NewTransaction(type, c))
    BY DEF SaveRow
<1> HIDE DEF n, row
<1>4. /\ new \in Job /\ new.step = "row" /\ new.kind = j.kind
      /\ new.target = j.target /\ new.category = j.category /\ new.keeps = j.keeps
      /\ new.todo = j.todo /\ new.copies = n /\ new.failures = j.failures
    BY <1>1, <1>2 DEF Job
<1> HIDE DEF new
<1>5. Frame(q) /\ job'[q] = new
    BY <1>1, <1>4, RowFrame DEF n
<1>6. <<q, row>> \notin DOMAIN transactions
  <2>1. <<q, row>> \in DOMAIN transactions => row <= j.copies + j.failures
      BY <1>2 DEF Typed, MadeInv, Copying
  <2> QED
      BY <1>2, <2>1
<1>7. NewTransaction(type, c) \in Transaction
    BY <1>2, NewFields DEF Job
<1>8. /\ DOMAIN transactions' = DOMAIN transactions \cup {<<q, row>>}
      /\ transactions'[<<q, row>>] = NewTransaction(type, c)
      /\ \A t \in DOMAIN transactions : transactions'[t] = transactions[t]
    BY <1>3, <1>6 DEF Added
<1>9. Saves(q)' = Saves(q) \cup {row}
    BY <1>2, <1>8 DEF Saves
<1>10. ImportDoes(q)
    BY <1>1, <1>2, <1>4, <1>5, <1>9 DEF ImportDoes, n, row
<1>11. Makes(q, row)
    BY <1>2, <1>4, <1>5, ImportAt, <1>1 DEF Makes, n, row, Rows
<1>12. MakesTransactions(q)
    BY <1>2, <1>7, <1>8, <1>11 DEF MakesTransactions
<1> QED
    BY <1>1, <1>2, <1>5, <1>8, <1>10, <1>12, ImportsWork DEF TypeOK

-----------------------------------------------------------------------------
(* All steps                                                               *)

LEMMA IdsFinite == IsFiniteSet(Ids)
<1>1. MaxCopies \in Nat
    BY TransactionsAssumption
<1>2. IsFiniteSet(1..MaxCopies)
    BY <1>1, FS_Interval
<1>3. IsFiniteSet(Requests \X (1..MaxCopies))
    BY <1>2, FS_Product, TransactionsAssumption
<1> QED
    BY <1>3, FS_Union, TransactionsAssumption DEF Ids

\* A request as it arrives.
Fresh(r) ==
    /\ r.kind \in Kinds /\ r.step \in {"load", "save", "category", "history"}
    /\ r.kind \in {"create", "createTemplate"} <=> r.step \in {"save", "category"}
    /\ r.kind = "import" <=> r.step = "history"
    /\ r.kind \in OnTransaction => r.target \in DOMAIN transactions
    /\ r.kind \in OnTemplate => r.target \in DOMAIN templates
    /\ r.todo \subseteq DOMAIN transactions
    /\ JobFits(r) /\ HoldsFit(r)

LEMMA ArriveDoes ==
    ASSUME TypeOK, ShapeInv, NEW q \in Requests, Arrive(q)
    PROVE  /\ job[q].step = "idle" /\ job[q].kind = None
           /\ UNCHANGED <<stored, failuresLeft, mix>>
           /\ job' \in [Requests -> Job] /\ \A p \in Requests \ {q} : job'[p] = job[p]
           /\ past' \in [Requests -> SUBSET Requests]
           /\ past'[q] = {p \in Requests : job[p].step \in Over}
           /\ \A p \in Requests \ {q} : past'[p] = past[p]
           /\ Fresh(job'[q])
<1>1. PICK kind \in mix.kinds \cap Kinds :
      \E target \in CASE kind \in OnTransaction -> DOMAIN transactions
                      [] kind \in OnTemplate -> DOMAIN templates
                      [] OTHER -> {None},
         todo \in CASE kind \in Several \ {"duplicate"} ->
                           {s \in SUBSET DOMAIN transactions :
                               s # {} /\ Cardinality(s) <= MaxCopies}
                    [] kind = "duplicate" -> {{t} : t \in DOMAIN transactions}
                    [] OTHER -> {{}},
         type \in IF kind \in WithBody THEN Types ELSE {"expense"},
         category \in IF kind \in WithBody \cup {"apply"} THEN Categories \cup {None} ELSE {None},
         keeps \in IF kind \in Updates THEN SUBSET Fields ELSE {{}},
         fields \in IF kind = "apply" THEN BOOLEAN ELSE {FALSE} :
           LET r == [Idle EXCEPT !.kind = kind, !.target = target, !.todo = todo,
                       !.type = type, !.category = category, !.keeps = keeps,
                       !.fields = fields,
                       !.doc = CASE kind = "create" -> NewTransaction(type, category)
                                 [] kind = "createTemplate" -> NewTemplate(type, category)
                                 [] OTHER -> None]
           IN  /\ "type" \in keeps => type = Idle.type
               /\ "category" \in keeps => category = None
               /\ job' = [job EXCEPT ![q] = [r EXCEPT !.step = FirstStep(r)]]
    BY DEF Arrive
<1>2. PICK target \in CASE kind \in OnTransaction -> DOMAIN transactions
                        [] kind \in OnTemplate -> DOMAIN templates
                        [] OTHER -> {None},
           todo \in CASE kind \in Several \ {"duplicate"} ->
                             {s \in SUBSET DOMAIN transactions :
                                 s # {} /\ Cardinality(s) <= MaxCopies}
                      [] kind = "duplicate" -> {{t} : t \in DOMAIN transactions}
                      [] OTHER -> {{}},
           type \in IF kind \in WithBody THEN Types ELSE {"expense"},
           category \in IF kind \in WithBody \cup {"apply"} THEN Categories \cup {None} ELSE {None},
           keeps \in IF kind \in Updates THEN SUBSET Fields ELSE {{}},
           fields \in IF kind = "apply" THEN BOOLEAN ELSE {FALSE} :
             LET r == [Idle EXCEPT !.kind = kind, !.target = target, !.todo = todo,
                         !.type = type, !.category = category, !.keeps = keeps,
                         !.fields = fields,
                         !.doc = CASE kind = "create" -> NewTransaction(type, category)
                                   [] kind = "createTemplate" -> NewTemplate(type, category)
                                   [] OTHER -> None]
             IN  /\ "type" \in keeps => type = Idle.type
                 /\ "category" \in keeps => category = None
                 /\ job' = [job EXCEPT ![q] = [r EXCEPT !.step = FirstStep(r)]]
    BY <1>1
<1> DEFINE doc == CASE kind = "create" -> NewTransaction(type, category)
                    [] kind = "createTemplate" -> NewTemplate(type, category)
                    [] OTHER -> None
           r == [Idle EXCEPT !.kind = kind, !.target = target, !.todo = todo,
                             !.type = type, !.category = category, !.keeps = keeps,
                             !.fields = fields, !.doc = doc]
           step == FirstStep(r)
           new == [r EXCEPT !.step = step]
<1>3. /\ kind \in Kinds /\ type \in Types /\ category \in Categories \cup {None}
      /\ fields \in BOOLEAN /\ keeps \in SUBSET Fields
      /\ target \in Ids \cup TemplateIds \cup {None}
      /\ kind \in OnTransaction => target \in DOMAIN transactions
      /\ kind \in OnTemplate => target \in DOMAIN templates
  <2>1. kind \notin OnTransaction \/ kind \notin OnTemplate
      BY DEF OnTransaction, OnTemplate
  <2>2. DOMAIN transactions \subseteq Ids /\ DOMAIN templates \subseteq TemplateIds
      BY DEF TypeOK
  <2>3. type \in Types /\ category \in Categories \cup {None} /\ fields \in BOOLEAN
      BY DEF Types
  <2>4. keeps \in SUBSET Fields
      OBVIOUS
  <2> QED
      BY <2>1, <2>2, <2>3, <2>4
<1>4. /\ todo \subseteq DOMAIN transactions /\ todo \subseteq Ids
      /\ kind \in Copying => IsFiniteSet(todo) /\ Cardinality(todo) <= MaxCopies
  <2>1. DOMAIN transactions \subseteq Ids /\ MaxCopies \in Nat \ {0}
      BY TransactionsAssumption DEF TypeOK
  <2>2. CASE kind = "duplicate"
    <3>1. PICK t \in DOMAIN transactions : todo = {t}
        BY <2>2 DEF Several, OnTransaction
    <3>2. IsFiniteSet({t}) /\ Cardinality({t}) = 1
        BY FS_Singleton
    <3>3. Cardinality(todo) <= MaxCopies
        BY <2>1, <3>1, <3>2
    <3> QED
        BY <2>1, <3>1, <3>2, <3>3
  <2>3. CASE kind \in Several \ {"duplicate"}
    <3>1. todo \subseteq DOMAIN transactions /\ Cardinality(todo) <= MaxCopies
        BY <2>3
    <3>2. IsFiniteSet(todo)
        BY <2>1, <3>1, IdsFinite, FS_Subset
    <3> QED
        BY <2>1, <3>1, <3>2
  <2>4. CASE kind \notin Several
      BY <2>4 DEF Several, Copying
  <2> QED
      BY <2>2, <2>3, <2>4
<1>5. /\ doc \in Docs \cup {None}
      /\ kind = "create" => doc \in Transaction /\ doc.type = type /\ doc.category = category
      /\ kind = "createTemplate" => doc \in Template /\ doc.type = type
                                    /\ doc.category = category
    BY <1>3, NewFields DEF Docs
<1> HIDE DEF doc
<1>6. /\ r \in Job /\ r.kind = kind /\ r.target = target /\ r.todo = todo /\ r.type = type
      /\ r.category = category /\ r.doc = doc /\ r.copies = 0 /\ r.failures = 0
      /\ r.names = {} /\ r.seen = None
  <2>1. 0 \in 0..MaxCopies /\ "idle" \in Steps
      BY TransactionsAssumption DEF Steps
  <2> QED
      BY <1>3, <1>4, <1>5, <2>1 DEF Idle, Job
<1>7. job' = [job EXCEPT ![q] = new]
    BY <1>2 DEF doc
<1> HIDE DEF r
<1>8. /\ step \in {"load", "save", "category", "history"}
      /\ kind \in {"create", "createTemplate"} <=> step \in {"save", "category"}
      /\ kind = "import" <=> step = "history"
      /\ step = "save" => category = None
    BY <1>6 DEF FirstStep
<1> HIDE DEF step
<1>9. /\ new \in Job /\ new.step = step /\ new.kind = kind /\ new.target = target
      /\ new.todo = todo /\ new.category = category /\ new.doc = doc
      /\ new.copies = 0 /\ new.failures = 0
  <2>1. step \in Steps
      BY <1>8 DEF Steps
  <2> QED
      BY <1>6, <2>1 DEF Job
<1> HIDE DEF new
<1>10. kind \in Copying => CopiesHeld(new)
  <2>1. kind \in Copying => Cardinality(todo) \in Nat
      BY <1>4, FS_CardinalityType
  <2> QED
      BY <1>4, <1>8, <1>9, <2>1 DEF CopiesHeld, Copying
<1>11. JobFits(new)
  <2>1. kind # None
      BY <1>3, KindsAssumption
  <2> QED
      BY <1>5, <1>8, <1>9, <1>10, <2>1, TransactionsAssumption
         DEF JobFits, Loaded, TemplateLoaded, OnTransaction, OnTemplate
<1>12. HoldsFit(new)
  <2>1. CASE step = "save"
      BY <1>5, <1>8, <1>9, <2>1 DEF HoldsFit, Fits
  <2>2. CASE step # "save"
      BY <1>8, <1>9, <2>2, NotHolding
  <2> QED
      BY <2>1, <2>2
<1>13. Fresh(new)
    BY <1>3, <1>4, <1>8, <1>9, <1>11, <1>12 DEF Fresh
<1>14. job' \in [Requests -> Job] /\ job'[q] = new /\ \A p \in Requests \ {q} : job'[p] = job[p]
    BY <1>7, <1>9, MoveFields DEF TypeOK
<1>15. /\ past' \in [Requests -> SUBSET Requests]
       /\ past'[q] = {p \in Requests : job[p].step \in Over}
       /\ \A p \in Requests \ {q} : past'[p] = past[p]
       /\ job[q].step = "idle" /\ UNCHANGED <<stored, failuresLeft, mix>>
    BY DEF Arrive, TypeOK
<1>16. job[q].kind = None
    BY <1>15 DEF ShapeInv, JobFits
<1> QED
    BY <1>13, <1>14, <1>15, <1>16

\* A step of nobody's request.
Quiet == UNCHANGED <<transactions, templates, imports, job, past, failuresLeft, mix>>

LEMMA NextSplits ==
    ASSUME Typed, [Next]_vars
    PROVE  /\ Quiet \/ \E q \in Requests : Arrive(q) \/ Works(q)
           /\ categories' \subseteq Categories /\ MappingTyped'
<1> DEFINE Goal == /\ Quiet \/ \E q \in Requests : Arrive(q) \/ Works(q)
                   /\ categories' \subseteq Categories /\ MappingTyped'
<1>1. TypeOK /\ categories \subseteq Categories /\ MappingTyped
    BY DEF Typed, TypeOK, MappingTyped
<1>2. CASE UNCHANGED vars
    BY <1>1, <1>2 DEF vars, stored, Quiet, MappingTyped
<1>3. ASSUME NEW q \in Requests, Arrive(q)
      PROVE  Goal
    BY <1>1, <1>3 DEF Arrive, stored, MappingTyped
<1>4. ASSUME NEW q \in Requests, Works(q)
      PROVE  Goal
    BY <1>1, <1>4 DEF Works
<1>5. ASSUME NEW c \in Categories, AddCategory(c) \/ RemoveCategory(c)
      PROVE  Goal
    BY <1>1, <1>5 DEF AddCategory, RemoveCategory, Quiet, MappingTyped
<1>6. ASSUME NEW c \in Categories, CreateMapping(c) \/ UpdateMapping(c)
      PROVE  Goal
  <2>1. c # None
      BY IdsAssumption
  <2> QED
      BY <1>1, <1>6, <2>1 DEF CreateMapping, UpdateMapping, Quiet, MappingTyped, Mapping
<1>7. CASE RemoveMapping
    BY <1>1, <1>7 DEF RemoveMapping, Quiet, MappingTyped, Mapping
<1>8. ASSUME NEW q \in Requests,
             \/ Load(q) \/ ValidateCategory(q) \/ Save(q) \/ Insert(q)
             \/ FindAll(q) \/ DeleteAll(q) \/ LoadOriginal(q) \/ SaveCopy(q)
             \/ StoreFile(q) \/ Suggest(q) \/ Override(q) \/ Learn(q) \/ InsertMapping(q)
             \/ OpenImport(q) \/ Parse(q) \/ MapNames(q) \/ FailRow(q) \/ SaveRow(q)
             \/ CloseImport(q) \/ CatchImport(q)
             \/ LoadTemplate(q) \/ SaveTemplate(q) \/ InsertTemplate(q) \/ CountUsage(q)
             \/ Fail(q)
      PROVE  Works(q)
    BY <1>8, LoadWorks, ValidateCategoryWorks, SaveWorks, InsertWorks, FindAllWorks,
       DeleteAllWorks, LoadOriginalWorks, SaveCopyWorks, StoreFileWorks, SuggestWorks,
       OverrideWorks, LearnWorks, InsertMappingWorks, OpenImportWorks, ParseWorks,
       MapNamesWorks, FailRowWorks, SaveRowWorks, CloseImportWorks, CatchImportWorks,
       LoadTemplateWorks, SaveTemplateWorks, InsertTemplateWorks, CountUsageWorks, FailWorks
<1>9. CASE Next
    BY <1>3, <1>4, <1>5, <1>6, <1>7, <1>8, <1>9 DEF Next
<1> QED
    BY <1>2, <1>9

-----------------------------------------------------------------------------
(* Types                                                                   *)

\* What a transaction is after a step of q.
LEMMA TransactionAfter ==
    ASSUME Typed, NEW q \in Requests, Works(q), NEW t \in DOMAIN transactions
    PROVE  transactions'[t] \in Transaction
<1>1. TransactionDoes(q, t) /\ transactions[t] \in Transaction /\ JobFits(job[q])
    BY DEF Works, Typed, TypeOK, ShapeInv
<1>2. CASE /\ t = job[q].target /\ At(q, OnTransaction \ {"saveAsTemplate"}, "save")
           /\ transactions'[t] = Saved(job[q].doc, job[q].seen, transactions[t])
  <2>1. job[q].doc \in Transaction /\ job[q].seen \in Transaction
      BY <1>1, <1>2 DEF At, JobFits, TransactionHeld, Loaded
  <2> QED
      BY <1>1, <1>2, <2>1, SavedFields
<1>3. CASE transactions'[t] = [transactions[t] EXCEPT !.deleted = TRUE]
    BY <1>1, <1>3 DEF Transaction
<1> QED
    BY <1>1, <1>2, <1>3 DEF TransactionDoes

LEMMA TemplateAfter ==
    ASSUME Typed, NEW q \in Requests, Works(q), NEW p \in DOMAIN templates
    PROVE  templates'[p] \in Template
<1>1. TemplateDoes(q, p) /\ templates[p] \in Template /\ JobFits(job[q])
    BY DEF Works, Typed, TypeOK, ShapeInv
<1>2. CASE /\ p = job[q].target /\ At(q, {"updateTemplate", "removeTemplate"}, "save")
           /\ templates'[p] = Saved(job[q].doc, job[q].seen, templates[p])
  <2>1. job[q].doc \in Template /\ job[q].seen \in Template
      BY <1>1, <1>2 DEF At, JobFits, TemplateHeld, TemplateLoaded, OnTemplate
  <2> QED
      BY <1>1, <1>2, <2>1, SavedTemplateFields
<1> QED
    BY <1>1, <1>2 DEF TemplateDoes

LEMMA TypeStep ==
    ASSUME Typed, [Next]_vars
    PROVE  TypeOK' /\ ShapeInv'
<1>1. TypeOK /\ ShapeInv /\ categories' \subseteq Categories /\ MappingTyped'
    BY NextSplits DEF Typed
<1>2. CASE Quiet
    BY <1>1, <1>2 DEF Quiet, TypeOK, ShapeInv, MappingTyped
<1>3. ASSUME NEW q \in Requests, Arrive(q)
      PROVE  TypeOK' /\ ShapeInv'
  <2>1. TypeOK'
      BY <1>1, <1>3, ArriveDoes DEF TypeOK, stored
  <2>2. ShapeInv'
    <3>1. transactions' = transactions /\ templates' = templates /\ Fresh(job'[q])
          /\ \A p \in Requests \ {q} : job'[p] = job[p]
        BY <1>1, <1>3, ArriveDoes DEF stored
    <3> QED
        BY <1>1, <3>1 DEF ShapeInv, Fresh
  <2> QED
      BY <2>1, <2>2
<1>4. ASSUME NEW q \in Requests, Works(q)
      PROVE  TypeOK' /\ ShapeInv'
  <2>1. /\ MakesTransactions(q) /\ MakesTemplate(q) /\ Frame(q)
        /\ imports' \in [Requests -> Import]
      BY <1>4 DEF Works
  <2>2. DOMAIN transactions' \subseteq Ids
      BY <1>1, <2>1 DEF TypeOK, MakesTransactions, Ids
  <2>3. \A t \in DOMAIN transactions' : transactions'[t] \in Transaction
      BY <1>4, <2>1, TransactionAfter DEF MakesTransactions
  <2>4. DOMAIN templates' \subseteq TemplateIds
      BY <1>1, <2>1 DEF TypeOK, MakesTemplate, TemplateIds
  <2>5. \A p \in DOMAIN templates' : templates'[p] \in Template
      BY <1>4, <2>1, TemplateAfter DEF MakesTemplate
  <2>6. TypeOK'
      BY <1>1, <2>1, <2>2, <2>3, <2>4, <2>5 DEF TypeOK, Frame, MappingTyped
  <2>7. ShapeInv'
      BY <1>1, <2>1 DEF ShapeInv, Frame, MakesTransactions, MakesTemplate
  <2> QED
      BY <2>6, <2>7
<1> QED
    BY <1>2, <1>3, <1>4, NextSplits

-----------------------------------------------------------------------------
(* The order of requests                                                   *)

LEMMA PastStep ==
    ASSUME Typed, PastInv, [Next]_vars
    PROVE  PastInv'
<1> USE DEF PastInv
<1>1. CASE Quiet
    BY <1>1 DEF Quiet
<1>2. ASSUME NEW q \in Requests, Arrive(q)
      PROVE  PastInv'
  <2>1. \A r \in Requests : past[r] \subseteq Requests /\ q \notin past[r]
      BY <1>2, ArriveDoes DEF Typed, TypeOK, Over
  <2> QED
      BY <1>2, <2>1, ArriveDoes DEF Typed, Over
<1>3. ASSUME NEW q \in Requests, Works(q)
      PROVE  PastInv'
  <2>1. \A r \in Requests : past[r] \subseteq Requests /\ q \notin past[r]
      BY <1>3 DEF Typed, TypeOK, Works, Frame, Running
  <2> QED
      BY <1>3, <2>1 DEF Works, Frame
<1> QED
    BY <1>1, <1>2, <1>3, NextSplits

\* A request that is under way, or has not come, is not past.
LEMMA NotPast ==
    ASSUME PastInv, NEW q \in Requests, Running(q) \/ job[q].step = "idle", NEW r \in Requests
    PROVE  q \notin past[r]
BY DEF PastInv, Running, Over

LEMMA OverlapStays ==
    ASSUME Typed, PastInv, [Next]_vars, NEW q \in Requests, NEW r \in Requests,
           Overlap(q, r), job[q].step # "idle", job[r].step # "idle"
    PROVE  Overlap(q, r)'
<1>1. CASE past' = past
    BY <1>1 DEF Overlap
<1>2. ASSUME NEW a \in Requests, Arrive(a)
      PROVE  Overlap(q, r)'
    BY <1>2, ArriveDoes DEF Overlap, Typed
<1> QED
    BY <1>1, <1>2, NextSplits DEF Quiet, Works, Frame

-----------------------------------------------------------------------------
(* Who made which document                                                 *)

LEMMA MadeStep ==
    ASSUME Typed, [Next]_vars
    PROVE  MadeInv'
<1>1. TypeOK /\ ShapeInv /\ MadeInv
    BY DEF Typed
<1>2. CASE Quiet
    BY <1>1, <1>2 DEF Quiet, MadeInv
<1>3. ASSUME NEW q \in Requests, Arrive(q)
      PROVE  MadeInv'
  <2>1. /\ transactions' = transactions /\ templates' = templates /\ job[q].kind = None
        /\ \A p \in Requests \ {q} : job'[p] = job[p]
      BY <1>1, <1>3, ArriveDoes DEF stored
  <2>2. None \notin {"create", "fromTemplate", "import", "createTemplate", "saveAsTemplate"}
                        \cup Copying
      BY KindsAssumption DEF Kinds, Copying
  <2> QED
      BY <1>1, <2>1, <2>2 DEF MadeInv
<1>4. ASSUME NEW q \in Requests, Works(q)
      PROVE  MadeInv'
  <2>1. Frame(q) /\ MakesTransactions(q) /\ MakesTemplate(q)
      BY <1>4 DEF Works
  <2>2. ASSUME NEW p \in Requests, NEW n \in 1..MaxCopies, <<p, n>> \in DOMAIN transactions'
        PROVE  \/ job'[p].kind \in {"create", "fromTemplate"} /\ n = 1
                  /\ job'[p].step \in {"count", "ok", "failed"}
               \/ job'[p].kind \in Copying /\ n <= job'[p].copies
               \/ job'[p].kind = "import" /\ n <= job'[p].copies + job'[p].failures
    <3>0. /\ job[p] \in Job /\ job'[p] \in Job /\ MaxCopies \in Nat
          /\ job[p].copies \in Nat /\ job[p].failures \in Nat
          /\ job'[p].copies \in Nat /\ job'[p].failures \in Nat
        BY <1>1, <2>1, TransactionsAssumption DEF TypeOK, Frame, Job
    <3>1. CASE <<p, n>> \in DOMAIN transactions
      <4>1. CASE p # q
          BY <1>1, <2>1, <3>1, <4>1 DEF MadeInv, Frame
      <4>2. CASE p = q
        <5>1. job[q].kind = "fromTemplate" /\ job[q].step = "count"
                      => job'[q].step \in {"ok", "failed"}
            BY <1>4 DEF Works, Reads
        <5>2. job[q].step = "count" => job[q].kind \in {"fromTemplate", "incrementUsage"}
            BY <1>1 DEF ShapeInv, JobFits
        <5>3. \/ job[q].kind \in {"create", "fromTemplate"} /\ n = 1
                 /\ job[q].step \in {"count", "ok", "failed"}
              \/ job[q].kind \in Copying /\ n <= job[q].copies
              \/ job[q].kind = "import" /\ n <= job[q].copies + job[q].failures
            BY <1>1, <3>1, <4>2 DEF MadeInv
        <5>4. /\ job[q].step \notin {"ok", "failed"} /\ job'[q].kind = job[q].kind
              /\ job'[q].copies >= job[q].copies /\ job'[q].failures >= job[q].failures
            BY <2>1 DEF Frame, Running, Over
        <5> QED
            BY <3>0, <4>2, <5>1, <5>2, <5>3, <5>4
      <4> QED
          BY <4>1, <4>2
    <3>2. CASE <<p, n>> \notin DOMAIN transactions
      <4>1. p = q /\ Makes(q, n)
          BY <2>1, <2>2, <3>2 DEF MakesTransactions
      <4> QED
          BY <2>1, <3>0, <4>1 DEF Makes, Frame, Rows
    <3> QED
        BY <3>1, <3>2
  <2>3. ASSUME NEW p \in Requests, p \in DOMAIN templates'
        PROVE  job'[p].kind \in {"createTemplate", "saveAsTemplate"} /\ job'[p].step = "ok"
    <3>1. CASE p # q
        BY <1>1, <2>1, <2>3, <3>1 DEF MadeInv, Frame, MakesTemplate
    <3>2. CASE p = q
        BY <1>1, <2>1, <2>3, <3>2 DEF MadeInv, Frame, MakesTemplate, Running, Over
    <3> QED
        BY <3>1, <3>2
  <2> QED
      BY <2>2, <2>3 DEF MadeInv
<1> QED
    BY <1>2, <1>3, <1>4, NextSplits

LEMMA TypedStep ==
    ASSUME Typed, [Next]_vars
    PROVE  Typed'
BY TypeStep, MadeStep DEF Typed

-----------------------------------------------------------------------------
(* What is discarded                                                       *)

LEMMA BesideStays ==
    ASSUME Typed, [Next]_vars, NEW d \in Requests, job[d].kind = "discard", ExtractedBeside(d)
    PROVE  ExtractedBeside(d)'
<1>1. PICK x \in Requests \ past[d] :
           job[x].kind = "extract" /\ job[x].target = job[d].target
    BY DEF ExtractedBeside
<1>2. CASE Quiet
    BY <1>1, <1>2 DEF Quiet, ExtractedBeside
<1>3. ASSUME NEW q \in Requests, Arrive(q)
      PROVE  ExtractedBeside(d)'
  <2>1. job[q].kind = None /\ None # "discard" /\ None # "extract"
      BY <1>3, ArriveDoes, KindsAssumption DEF Typed, Kinds
  <2>2. job'[x] = job[x] /\ job'[d] = job[d] /\ past'[d] = past[d]
      BY <1>1, <1>3, <2>1, ArriveDoes DEF Typed
  <2> QED
      BY <1>1, <2>2 DEF ExtractedBeside
<1>4. ASSUME NEW q \in Requests, Works(q)
      PROVE  ExtractedBeside(d)'
  <2>1. /\ past' = past /\ job'[x].kind = job[x].kind /\ job'[x].target = job[x].target
        /\ job'[d].target = job[d].target
      BY <1>1, <1>4 DEF Works, Frame
  <2> QED
      BY <1>1, <2>1 DEF ExtractedBeside
<1> QED
    BY <1>2, <1>3, <1>4, NextSplits

\* Only an extraction sets the data that a discard clears.
LEMMA DataGoes ==
    ASSUME Typed, NEW q \in Requests, Works(q), NEW t \in DOMAIN transactions
    PROVE  \/ /\ transactions'[t].scanned \in {transactions[t].scanned, None}
              /\ transactions'[t].suggested \in {transactions[t].suggested, None}
           \/ job[q].kind = "extract" /\ job[q].target = t
<1>1. TransactionDoes(q, t) /\ transactions[t] \in Transaction /\ JobFits(job[q])
    BY DEF Works, Typed, TypeOK, ShapeInv
<1>2. CASE /\ t = job[q].target /\ At(q, OnTransaction \ {"saveAsTemplate"}, "save")
           /\ transactions'[t] = Saved(job[q].doc, job[q].seen, transactions[t])
  <2>1. TransactionHeld(job[q])
      BY <1>1, <1>2 DEF At, JobFits, Loaded
  <2>2. /\ transactions'[t].scanned = IF job[q].doc.scanned = job[q].seen.scanned
              THEN transactions[t].scanned ELSE job[q].doc.scanned
        /\ transactions'[t].suggested = IF job[q].doc.suggested = job[q].seen.suggested
              THEN transactions[t].suggested ELSE job[q].doc.suggested
      BY <1>1, <1>2, <2>1, SavedFields DEF TransactionHeld
  <2> QED
      BY <1>2, <2>1, <2>2 DEF TransactionHeld
<1>3. CASE transactions'[t] = [transactions[t] EXCEPT !.deleted = TRUE]
    BY <1>1, <1>3 DEF Transaction
<1> QED
    BY <1>1, <1>2, <1>3 DEF TransactionDoes

LEMMA DiscardStep ==
    ASSUME Typed, PastInv, DiscardInv, [Next]_vars
    PROVE  DiscardInv'
<1> DEFINE Holds(d) ==
        LET t == transactions[job[d].target]
        IN  /\ job[d].step = "ok" /\ (t.scanned # None \/ t.suggested # None)
                   => ExtractedBeside(d)
            /\ job[d].step \in Loaded /\ \/ t.scanned \notin {None, job[d].seen.scanned}
                                         \/ t.suggested \notin {None, job[d].seen.suggested}
                   => ExtractedBeside(d)
<1>1. SUFFICES ASSUME NEW d \in Requests, job'[d].kind = "discard"
               PROVE  Holds(d)'
    BY DEF DiscardInv
<1>2. CASE Quiet
    BY <1>1, <1>2, BesideStays DEF Quiet, DiscardInv
<1>3. ASSUME NEW q \in Requests, Arrive(q)
      PROVE  Holds(d)'
  <2>1. CASE q # d
    <3>1. job'[d] = job[d] /\ transactions' = transactions
        BY <1>3, <2>1, ArriveDoes DEF Typed, stored
    <3> QED
        BY <1>1, <3>1, BesideStays DEF DiscardInv
  <2>2. CASE q = d
    <3>1. Fresh(job'[d])
        BY <1>3, <2>2, ArriveDoes DEF Typed
    <3> QED
        BY <1>1, <3>1 DEF Fresh, Loaded
  <2> QED
      BY <2>1, <2>2
<1>4. ASSUME NEW q \in Requests, Works(q)
      PROVE  Holds(d)'
  <2> DEFINE a == job[d].target
             t == transactions[a]
             u == transactions'[a]
  <2>1. /\ job[d].kind = "discard" /\ a \in DOMAIN transactions /\ job'[d].target = a
        /\ t \in Transaction /\ JobFits(job[d])
      BY <1>1, <1>4 DEF Works, Frame, Typed, TypeOK, ShapeInv, OnTransaction
  <2>2. ExtractedBeside(d) => ExtractedBeside(d)'
      BY <2>1, BesideStays
  <2>3. CASE job[q].kind = "extract" /\ job[q].target = a
    <3>1. q \notin past[d]
        BY <1>4, NotPast DEF Works, Frame
    <3>2. ExtractedBeside(d)
        BY <2>3, <3>1 DEF ExtractedBeside
    <3> QED
        BY <2>2, <3>2
  <2>4. CASE /\ u.scanned \in {t.scanned, None}
             /\ u.suggested \in {t.suggested, None}
    <3>1. CASE q # d
      <4>1. job'[d] = job[d]
          BY <1>4, <3>1 DEF Works, Frame
      <4> QED
          BY <2>1, <2>2, <2>4, <4>1 DEF DiscardInv
    <3>2. CASE q = d
      <4>1. Reads(d)
          BY <1>4, <3>2 DEF Works
      <4>2. CASE job'[d].step = "ok"
        <5>1. job[d].step = "save" /\ u = Saved(job[d].doc, job[d].seen, t)
            BY <2>1, <4>1, <4>2 DEF Reads
        <5>2. TransactionHeld(job[d])
            BY <2>1, <5>1 DEF JobFits, Loaded, OnTransaction
        <5>3. /\ u.scanned # None => t.scanned \notin {None, job[d].seen.scanned}
              /\ u.suggested # None => t.suggested \notin {None, job[d].seen.suggested}
            BY <2>1, <5>1, <5>2, SavedFields DEF TransactionHeld
        <5> QED
            BY <2>1, <2>2, <4>2, <5>1, <5>3 DEF DiscardInv, Loaded
      <4>3. CASE job'[d].step \in Loaded
        <5>1. \/ job[d].step \in Loaded /\ job'[d].seen = job[d].seen
              \/ job'[d].seen = t
            BY <2>1, <4>1, <4>3 DEF Reads, OnTransaction
        <5> QED
            BY <2>1, <2>2, <2>4, <4>3, <5>1 DEF DiscardInv, Loaded
      <4> QED
          BY <4>2, <4>3
    <3> QED
        BY <3>1, <3>2
  <2> QED
      BY <1>4, <2>1, <2>3, <2>4, DataGoes
<1> QED
    BY <1>2, <1>3, <1>4, NextSplits

-----------------------------------------------------------------------------
(* What is deleted                                                         *)

LEMMA OverStays ==
    ASSUME Typed, [Next]_vars, NEW d \in Requests, job[d].step \in Over
    PROVE  job'[d] = job[d]
<1>1. ASSUME NEW q \in Requests, Arrive(q)
      PROVE  job'[d] = job[d]
    BY <1>1, ArriveDoes DEF Typed, Over
<1>2. ASSUME NEW q \in Requests, Works(q)
      PROVE  job'[d] = job[d]
    BY <1>2 DEF Works, Frame, Running
<1> QED
    BY <1>1, <1>2, NextSplits DEF Quiet

\* Whoever is at work is told apart from those that were over when it came, for good.
LEMMA BesideStaysSo ==
    ASSUME Typed, [Next]_vars, NEW q \in Requests, job[q].step # "idle"
    PROVE  past'[q] = past[q]
<1>1. ASSUME NEW a \in Requests, Arrive(a)
      PROVE  past'[q] = past[q]
    BY <1>1, ArriveDoes DEF Typed
<1> QED
    BY <1>1, NextSplits DEF Quiet, Works, Frame

\* The step that deletes a transaction.
LEMMA DeletedBy ==
    ASSUME Typed, NEW r \in Requests, Works(r), NEW t \in DOMAIN transactions,
           ~transactions[t].deleted, transactions'[t].deleted
    PROVE  Deletes(r, t)'
<1>1. TransactionDoes(r, t) /\ transactions[t] \in Transaction /\ JobFits(job[r]) /\ Frame(r)
    BY DEF Works, Typed, TypeOK, ShapeInv
<1>2. JobFits(job'[r]) /\ job'[r].kind = job[r].kind /\ job'[r].target = job[r].target
    BY <1>1 DEF Frame
<1>3. CASE /\ t = job[r].target /\ At(r, OnTransaction \ {"saveAsTemplate"}, "save")
           /\ transactions'[t] = Saved(job[r].doc, job[r].seen, transactions[t])
           /\ job'[r].step \in {"ok", "override"}
  <2>1. TransactionHeld(job[r])
      BY <1>1, <1>3 DEF At, JobFits, Loaded
  <2>2. job[r].doc.deleted # job[r].seen.deleted /\ job[r].doc.deleted
      BY <1>1, <1>3, <2>1 DEF Saved, Transaction, TransactionHeld
  <2>3. job[r].kind = "remove"
      BY <2>1, <2>2 DEF TransactionHeld
  <2>4. job'[r].step # "override"
      BY <1>2, <2>3 DEF JobFits
  <2> QED
      BY <1>2, <1>3, <2>3, <2>4 DEF Deletes, Over
<1>4. CASE /\ t \in job[r].todo /\ At(r, {"bulkDelete"}, "save")
           /\ job'[r].step = "ok" /\ job'[r].todo = job[r].todo
    BY <1>2, <1>4 DEF Deletes, Over, At
<1> QED
    BY <1>1, <1>3, <1>4 DEF TransactionDoes

LEMMA DeletedStep ==
    ASSUME Typed, PastInv, DeletedInv, [Next]_vars
    PROVE  DeletedInv'
<1> DEFINE Concerned(q) == /\ job[q].kind \in OnTransaction \ {"remove", "restore"}
                           /\ job[q].step \in Loaded
<1>1. SUFFICES ASSUME NEW q \in Requests, Concerned(q)', transactions'[job'[q].target].deleted
               PROVE  \E d \in Requests \ past'[q] : Deletes(d, job[q].target)'
    BY DEF DeletedInv
<1>2. ASSUME Concerned(q), transactions[job[q].target].deleted, job'[q].target = job[q].target
      PROVE  \E d \in Requests \ past'[q] : Deletes(d, job[q].target)'
  <2>1. PICK d \in Requests \ past[q] : Deletes(d, job[q].target)
      BY <1>2 DEF DeletedInv
  <2>2. job'[d] = job[d]
      BY <2>1, OverStays DEF Deletes
  <2>3. past'[q] = past[q]
      BY <1>2, BesideStaysSo DEF Loaded
  <2> QED
      BY <1>2, <2>1, <2>2, <2>3 DEF Deletes
<1>3. CASE Quiet
    BY <1>1, <1>2, <1>3 DEF Quiet
<1>4. ASSUME NEW r \in Requests, Arrive(r)
      PROVE  \E d \in Requests \ past'[q] : Deletes(d, job[q].target)'
  <2>1. CASE r # q
      BY <1>1, <1>2, <1>4, <2>1, ArriveDoes DEF Typed, stored
  <2>2. CASE r = q
    <3>1. Fresh(job'[q])
        BY <1>4, <2>2, ArriveDoes DEF Typed
    <3> QED
        BY <1>1, <3>1 DEF Fresh, Loaded, OnTransaction
  <2> QED
      BY <2>1, <2>2
<1>5. ASSUME NEW r \in Requests, Works(r)
      PROVE  \E d \in Requests \ past'[q] : Deletes(d, job[q].target)'
  <2> DEFINE t == job[q].target
  <2>1. /\ job'[q].kind = job[q].kind /\ job'[q].target = t /\ t \in DOMAIN transactions
        /\ past' = past /\ r \notin past[q]
      BY <1>1, <1>5, NotPast DEF Works, Frame, Typed, ShapeInv
  <2>2. CASE Concerned(q)
    <3>1. CASE transactions[t].deleted
        BY <1>2, <2>1, <2>2, <3>1
    <3>2. CASE ~transactions[t].deleted
        BY <1>1, <1>5, <2>1, <3>2, DeletedBy
    <3> QED
        BY <3>1, <3>2
  <2>3. CASE ~Concerned(q)
    <3>1. q = r /\ Reads(q)
        BY <1>1, <1>5, <2>1, <2>3 DEF Works, Frame
    <3>2. transactions[t].deleted = (job[q].kind = "restore") /\ transactions' = transactions
        BY <1>1, <2>1, <2>3, <3>1 DEF Reads
    <3> QED
        BY <1>1, <2>1, <3>2
  <2> QED
      BY <2>2, <2>3
<1> QED
    BY <1>3, <1>4, <1>5, NextSplits

-----------------------------------------------------------------------------
(* Imports                                                                 *)

LEMMA SavesFinite ==
    ASSUME NEW q \in Requests
    PROVE  IsFiniteSet(Saves(q)) /\ Saves(q) \subseteq 1..MaxCopies
<1>1. MaxCopies \in Nat /\ Saves(q) \subseteq 1..MaxCopies
    BY TransactionsAssumption DEF Saves
<1>2. IsFiniteSet(1..MaxCopies)
    BY <1>1, FS_Interval
<1> QED
    BY <1>1, <1>2, FS_Subset

LEMMA NoneSaved ==
    ASSUME Typed, NEW q \in Requests, job[q].kind = None \/ job[q].kind = "import",
           job[q].kind = "import" => job[q].copies = 0 /\ job[q].failures = 0
    PROVE  Saves(q) = {}
<1>1. None \notin Copying \cup {"create", "fromTemplate", "import"}
    BY KindsAssumption DEF Kinds, Copying
<1>2. ASSUME NEW n \in 1..MaxCopies, <<q, n>> \in DOMAIN transactions
      PROVE  FALSE
    BY <1>1, <1>2, TransactionsAssumption DEF Typed, MadeInv, Copying
<1> QED
    BY <1>2 DEF Saves

\* An import goes on.
LEMMA ImportOn ==
    ASSUME Typed, ImportInv, NEW q \in Requests, Works(q), job[q].kind = "import"
    PROVE  /\ job'[q].step \in {"history", "parse", "names", "row", "catch", "ok", "refused",
                                "failed"}
           /\ Cardinality(Saves(q)') = job'[q].copies
           /\ job'[q].step = "history" => imports'[q].status = "none"
           /\ job'[q].step \in {"parse", "names", "row", "catch"}
                  => imports'[q].status = "processing"
           /\ job'[q].step = "failed" => imports'[q].status \in {"none", "processing"}
           /\ job'[q].step = "ok" => /\ imports'[q].status = "completed"
                                     /\ job'[q].copies + job'[q].failures = MaxCopies
           /\ job'[q].step = "refused" => imports'[q].status = "failed"
           /\ job'[q].step \in {"catch", "refused"} =>
                 \/ job'[q].copies = 0
                 \/ job'[q].copies + job'[q].failures = MaxCopies /\ failuresLeft' < MaxFailures
           /\ imports'[q].status \in {"completed", "failed"} =>
                 imports'[q].imported = job'[q].copies /\ imports'[q].failed = job'[q].failures
<1> DEFINE j == job[q]
           k == job'[q]
           h == imports[q]
           i == imports'[q]
           S == Saves(q)
           T == Saves(q)'
<1>1. /\ ImportDoes(q) /\ Running(q) /\ JobFits(j) /\ JobFits(k)
      /\ k.step # "idle" /\ k.kind = "import" /\ failuresLeft' <= failuresLeft
      /\ j \in Job /\ k \in Job
    BY DEF Works, Frame, Typed, ShapeInv, TypeOK
<1>2. /\ failuresLeft \in Nat /\ failuresLeft' \in Nat /\ MaxFailures \in Nat /\ MaxCopies \in Nat
      /\ failuresLeft <= MaxFailures
      /\ j.copies \in Nat /\ j.failures \in Nat /\ k.copies \in Nat /\ k.failures \in Nat
    BY <1>1, TransactionsAssumption DEF Works, Frame, Typed, TypeOK, Job
<1>3. /\ j.step \in {"history", "parse", "names", "row", "catch"}
      /\ Cardinality(S) = j.copies
      /\ j.step = "history" => h.status = "none"
      /\ j.step \in {"parse", "names", "row", "catch"} => h.status = "processing"
      /\ j.step = "catch" => \/ j.copies = 0
                             \/ j.copies + j.failures = MaxCopies /\ failuresLeft < MaxFailures
      /\ j.step \in {"history", "parse", "names"} => j.copies = 0 /\ j.failures = 0
    BY <1>1 DEF ImportInv, Running, Over, JobFits
<1>4. Rows(q) = j.copies + j.failures
    BY DEF Rows
<1> HIDE DEF S, T, h, i, j, k
<1>5. CASE /\ j.step = "history" /\ k.step = "parse"
           /\ k.copies = j.copies /\ k.failures = j.failures /\ T = S
           /\ i.status = "processing"
    BY <1>3, <1>5 DEF S, T, h, i, j, k
<1>6. CASE /\ i = h /\ T = S /\ k.copies = j.copies /\ k.failures = j.failures
           /\ \/ j.step = "parse" /\ k.step \in {"names", "catch"}
              \/ j.step = "names" /\ k.step = "row"
              \/ /\ j.step = "row" /\ k.step = "catch" /\ failuresLeft' < failuresLeft
                 /\ Rows(q) = MaxCopies
              \/ k.step = "failed"
  <2>1. failuresLeft' < failuresLeft => failuresLeft' < MaxFailures
      BY <1>2
  <2> QED
      BY <1>2, <1>3, <1>4, <1>6, <2>1 DEF S, T, h, i, j, k
<1>7. CASE /\ j.step = "row" /\ k.step = "row" /\ i = h /\ T = S
           /\ k.copies = j.copies /\ k.failures = j.failures + 1
    BY <1>3, <1>7 DEF S, T, h, i, j, k
<1>8. CASE /\ j.step = "row" /\ k.step = "row" /\ i = h
           /\ k.copies = j.copies + 1 /\ k.failures = j.failures
           /\ Rows(q) + 1 \in 1..MaxCopies /\ T = S \cup {Rows(q) + 1}
  <2>1. Rows(q) + 1 \notin S
    <3>1. ASSUME NEW n \in S
          PROVE  n <= Rows(q) /\ n \in Nat
        BY <1>2, <3>1 DEF Typed, MadeInv, S, Saves, Rows, Copying, j
    <3>2. Rows(q) \in Nat
        BY <1>2, <1>4
    <3> QED
        BY <3>1, <3>2
  <2>2. IsFiniteSet(S)
      BY SavesFinite DEF S
  <2> DEFINE row == Rows(q) + 1
  <2> HIDE DEF row
  <2>3. Cardinality(S \cup {row}) = Cardinality(S) + 1
      BY <2>1, <2>2, FS_AddElement DEF row
  <2>4. Cardinality(T) = j.copies + 1
      BY <1>3, <1>8, <2>3 DEF row
  <2> QED
      BY <1>3, <1>8, <2>4 DEF S, T, h, i, j, k
<1>9. CASE /\ j.step = "row" /\ k.step = "ok" /\ k.copies = j.copies /\ k.failures = j.failures
           /\ T = S /\ Rows(q) = MaxCopies /\ i.status = "completed"
           /\ i.imported = j.copies /\ i.failed = j.failures
    BY <1>3, <1>4, <1>9 DEF S, T, h, i, j, k
<1>10. CASE /\ j.step = "catch" /\ k.step = "refused"
            /\ k.copies = j.copies /\ k.failures = j.failures
            /\ T = S /\ i.status = "failed" /\ i.imported = j.copies /\ i.failed = j.failures
  <2>1. failuresLeft < MaxFailures => failuresLeft' < MaxFailures
      BY <1>1, <1>2
  <2> QED
      BY <1>2, <1>3, <1>10, <2>1 DEF S, T, h, i, j, k
<1> QED
    BY <1>1, <1>5, <1>6, <1>7, <1>8, <1>9, <1>10 DEF ImportDoes, S, T, h, i, j, k

LEMMA ImportStep ==
    ASSUME Typed, ImportInv, [Next]_vars
    PROVE  ImportInv'
<1> DEFINE Keeps(q) == /\ job'[q] = job[q] /\ imports'[q] = imports[q] /\ Saves(q)' = Saves(q)
                       /\ failuresLeft < MaxFailures => failuresLeft' < MaxFailures
           Told(q) == IF job[q].kind # "import" THEN imports[q].status = "none" ELSE
               LET h == imports[q]
                   j == job[q]
                   all == j.copies + j.failures = MaxCopies
               IN  /\ j.step \in {"history", "parse", "names", "row", "catch", "ok", "refused",
                                  "failed"}
                   /\ Cardinality(Saves(q)) = j.copies
                   /\ j.step = "history" => h.status = "none"
                   /\ j.step \in {"parse", "names", "row", "catch"} => h.status = "processing"
                   /\ j.step = "failed" => h.status \in {"none", "processing"}
                   /\ j.step = "ok" => h.status = "completed" /\ all
                   /\ j.step = "refused" => h.status = "failed"
                   /\ j.step \in {"catch", "refused"} =>
                          j.copies = 0 \/ (all /\ failuresLeft < MaxFailures)
                   /\ h.status \in {"completed", "failed"} => /\ h.imported = j.copies
                                                              /\ h.failed = j.failures
<1>1. SUFFICES ASSUME NEW q \in Requests
               PROVE  Told(q)'
    BY DEF ImportInv
<1>2. Told(q)
    BY DEF ImportInv
<1>3. CASE Keeps(q)
  <2> DEFINE S == Saves(q)
             T == Saves(q)'
  <2>1. T = S
      BY <1>3
  <2> HIDE DEF S, T
  <2>2. Cardinality(T) = Cardinality(S)
      BY <2>1
  <2> QED
      BY <1>2, <1>3, <2>2 DEF S, T
<1>4. CASE Quiet
    BY <1>3, <1>4 DEF Quiet, Saves
<1>5. ASSUME NEW r \in Requests, Arrive(r)
      PROVE  Told(q)'
  <2>1. /\ UNCHANGED <<transactions, imports, failuresLeft>> /\ job[r].kind = None
        /\ (q # r => job'[q] = job[q]) /\ Fresh(job'[r])
      BY <1>5, ArriveDoes DEF Typed, stored
  <2>2. CASE q # r
      BY <1>3, <2>1, <2>2 DEF Saves
  <2>3. CASE q = r
    <3>1. imports'[q].status = "none"
        BY <1>2, <2>1, <2>3, KindsAssumption DEF Kinds
    <3>2. CASE job'[q].kind = "import"
      <4>1. job'[q].step = "history" /\ job'[q].copies = 0
          BY <2>1, <2>3, <3>2 DEF Fresh, JobFits
      <4> DEFINE T == Saves(q)'
      <4>2. Saves(q) = {}
        <5>1. job[q].kind = None /\ job[q].kind # "import"
            BY <2>1, <2>3, KindsAssumption DEF Kinds
        <5> QED
            BY <5>1, NoneSaved
      <4>3. T = Saves(q)
          BY <2>1 DEF Saves
      <4> HIDE DEF T
      <4>4. Cardinality(T) = 0
          BY <4>2, <4>3, FS_EmptySet
      <4> QED
          BY <3>1, <3>2, <4>1, <4>4 DEF T
    <3> QED
        BY <3>1, <3>2
  <2> QED
      BY <2>2, <2>3
<1>6. ASSUME NEW r \in Requests, Works(r)
      PROVE  Told(q)'
  <2>1. CASE q # r
    <3>1. job'[q] = job[q] /\ imports'[q] = imports[q] /\ MakesTransactions(r)
        BY <1>6, <2>1 DEF Works, Frame
    <3>2. Saves(q)' = Saves(q)
        BY <2>1, <3>1 DEF Saves, MakesTransactions
    <3>3. failuresLeft < MaxFailures => failuresLeft' < MaxFailures
        BY <1>6, TransactionsAssumption DEF Works, Frame, Typed, TypeOK
    <3> QED
        BY <1>3, <3>1, <3>2, <3>3
  <2>2. CASE q = r /\ job[q].kind = "import"
    <3>1. job'[q].kind = "import"
        BY <1>6, <2>2 DEF Works, Frame
    <3> QED
        BY <1>6, <2>2, <3>1, ImportOn
  <2>3. CASE q = r /\ job[q].kind # "import"
    <3>1. imports' = imports /\ job'[q].kind # "import"
        BY <1>6, <2>3 DEF Works, Frame
    <3> QED
        BY <1>2, <2>3, <3>1
  <2> QED
      BY <2>1, <2>2, <2>3
<1> QED
    BY <1>4, <1>5, <1>6, NextSplits

-----------------------------------------------------------------------------
(* Types and categories                                                    *)

LEMMA KindStays ==
    ASSUME Typed, [Next]_vars, NEW q \in Requests, job[q].kind # None
    PROVE  /\ job[q].step # "idle" /\ job'[q].kind = job[q].kind
           /\ job'[q].target = job[q].target /\ job'[q].category = job[q].category
           /\ job'[q].keeps = job[q].keeps
<1>1. job[q].step # "idle"
    BY DEF Typed, ShapeInv, JobFits
<1>2. ASSUME NEW a \in Requests, Arrive(a)
      PROVE  job'[q] = job[q]
    BY <1>1, <1>2, ArriveDoes DEF Typed
<1>3. ASSUME NEW a \in Requests, Works(a)
      PROVE  /\ job'[q].kind = job[q].kind /\ job'[q].target = job[q].target
             /\ job'[q].category = job[q].category /\ job'[q].keeps = job[q].keeps
    BY <1>3 DEF Works, Frame
<1> QED
    BY <1>1, <1>2, <1>3, NextSplits DEF Quiet

LEMMA ClashStays ==
    ASSUME Typed, PastInv, [Next]_vars, Clash
    PROVE  Clash'
<1>1. None \notin Choosers \cup {"import", "apply"}
    BY KindsAssumption DEF Kinds, Choosers
<1>2. ASSUME NEW q \in Requests, Chosen(q)
      PROVE  Chosen(q)'
    BY <1>1, <1>2, KindStays DEF Chosen
<1>3. ASSUME NEW q \in Requests, NEW r \in Requests, Overlap(q, r), job[q].target = job[r].target,
             job[q].kind \in Choosers, job[r].kind \in Choosers
      PROVE  /\ Overlap(q, r)' /\ job'[q].target = job'[r].target
             /\ job'[q].kind \in Choosers /\ job'[r].kind \in Choosers
    BY <1>1, <1>3, KindStays, OverlapStays
<1> QED
    BY <1>2, <1>3 DEF Clash

LEMMA TypeAloneStays ==
    ASSUME Typed, [Next]_vars, NEW p, TypeAlone(p)
    PROVE  TypeAlone(p)'
<1>1. PICK q \in Requests : /\ job[q].kind = "updateTemplate" /\ job[q].target = p
                            /\ "category" \in job[q].keeps /\ "type" \notin job[q].keeps
    BY DEF TypeAlone
<1>2. job[q].kind # None
    BY <1>1, KindsAssumption DEF Kinds
<1> QED
    BY <1>1, <1>2, KindStays DEF TypeAlone

\* Only an update or an apply changes a transaction's type or category.
LEMMA TransactionKeeps ==
    ASSUME Typed, NEW r \in Requests, Works(r), ~Chosen(r), NEW t \in DOMAIN transactions
    PROVE  \/ /\ transactions'[t].type = transactions[t].type
              /\ transactions'[t].category = transactions[t].category
           \/ /\ job[r].kind \in {"update", "apply"} /\ job[r].target = t
              /\ job[r].step = "save" /\ job'[r].step = "ok" /\ TransactionHeld(job[r])
              /\ transactions'[t] = Saved(job[r].doc, job[r].seen, transactions[t])
<1>1. /\ TransactionDoes(r, t) /\ transactions[t] \in Transaction /\ JobFits(job[r])
      /\ JobFits(job'[r]) /\ job'[r].kind = job[r].kind /\ job'[r].category = job[r].category
      /\ job'[r].keeps = job[r].keeps
    BY DEF Works, Frame, Typed, TypeOK, ShapeInv
<1>2. CASE /\ t = job[r].target /\ At(r, OnTransaction \ {"saveAsTemplate"}, "save")
           /\ transactions'[t] = Saved(job[r].doc, job[r].seen, transactions[t])
           /\ job'[r].step \in {"ok", "override"}
  <2>1. TransactionHeld(job[r])
      BY <1>1, <1>2 DEF At, JobFits, Loaded
  <2>2. job'[r].step = "ok"
      BY <1>1, <1>2 DEF JobFits, Chosen
  <2>3. CASE job[r].kind \in {"update", "apply"}
      BY <1>2, <2>1, <2>2, <2>3 DEF At
  <2>4. CASE job[r].kind \notin {"update", "apply"}
    <3>1. job[r].doc.type = job[r].seen.type /\ job[r].doc.category = job[r].seen.category
        BY <2>1, <2>4 DEF TransactionHeld
    <3>2. job[r].doc \in Transaction /\ job[r].seen \in Transaction
        BY <2>1 DEF TransactionHeld
    <3> QED
        BY <1>1, <1>2, <3>1, <3>2, SavedFields
  <2> QED
      BY <2>3, <2>4
<1>3. ~At(r, {"apply"}, "override")
    BY <1>1 DEF At, JobFits, Chosen
<1>4. CASE transactions'[t] = [transactions[t] EXCEPT !.deleted = TRUE]
    BY <1>1, <1>4 DEF Transaction
<1> QED
    BY <1>1, <1>2, <1>3, <1>4 DEF TransactionDoes

LEMMA TemplateKeeps ==
    ASSUME Typed, NEW r \in Requests, Works(r), NEW p \in DOMAIN templates
    PROVE  \/ /\ templates'[p].type = templates[p].type
              /\ templates'[p].category = templates[p].category
           \/ /\ job[r].kind = "updateTemplate" /\ job[r].target = p
              /\ job[r].step = "save" /\ job'[r].step = "ok" /\ TemplateHeld(job[r])
              /\ templates'[p] = Saved(job[r].doc, job[r].seen, templates[p])
<1>1. TemplateDoes(r, p) /\ templates[p] \in Template /\ JobFits(job[r])
    BY DEF Works, Typed, TypeOK, ShapeInv
<1>2. CASE /\ p = job[r].target /\ At(r, {"updateTemplate", "removeTemplate"}, "save")
           /\ templates'[p] = Saved(job[r].doc, job[r].seen, templates[p])
           /\ job'[r].step = "ok"
  <2>1. TemplateHeld(job[r])
      BY <1>1, <1>2 DEF At, JobFits, TemplateLoaded, OnTemplate
  <2>2. CASE job[r].kind = "updateTemplate"
      BY <1>2, <2>1, <2>2 DEF At
  <2>3. CASE job[r].kind = "removeTemplate"
    <3>1. /\ job[r].doc \in Template /\ job[r].seen \in Template
          /\ job[r].doc.type = job[r].seen.type /\ job[r].doc.category = job[r].seen.category
        BY <2>1, <2>3 DEF TemplateHeld
    <3> QED
        BY <1>1, <1>2, <3>1, SavedTemplateFields
  <2> QED
      BY <1>2, <2>2, <2>3 DEF At
<1> QED
    BY <1>1, <1>2 DEF TemplateDoes

\* Two requests at work on one document, each of which sets a type or a category, clash.
LEMMA NoClash ==
    ASSUME Typed, PastInv, ~Clash, NEW q \in Requests, NEW r \in Requests, q # r,
           Running(q), Running(r), job[q].target = job[r].target, job[q].kind \in Choosers
    PROVE  job[r].kind \notin Choosers
BY NotPast DEF Clash, Overlap

LEMMA SeenStep ==
    ASSUME Typed, PastInv, ~Clash, SeenInv, NEW r \in Requests, Works(r)
    PROVE  SeenInv'
<1>1. Running(r) /\ ~Chosen(r)
    BY DEF Works, Frame, Clash
<1>2. ASSUME NEW q \in Requests, job'[q].kind \in {"update", "apply"}, job'[q].step \in Loaded
      PROVE  /\ transactions'[job'[q].target].type = job'[q].seen.type
             /\ transactions'[job'[q].target].category = job'[q].seen.category
  <2> DEFINE t == job[q].target
  <2>1. /\ job[q].kind \in {"update", "apply"} /\ t \in DOMAIN transactions
        /\ job'[q].target = t /\ job[q].kind \in Choosers
      BY <1>2 DEF Works, Frame, Typed, ShapeInv, OnTransaction, Choosers
  <2>2. CASE q # r
    <3>1. job'[q] = job[q]
        BY <2>2 DEF Works, Frame
    <3>2. Running(q)
        BY <1>2, <3>1 DEF Running, Over, Loaded
    <3>3. ~(job[r].kind \in {"update", "apply"} /\ job[r].target = t)
        BY <1>1, <2>1, <2>2, <3>2, NoClash DEF Choosers
    <3>4. /\ transactions'[t].type = transactions[t].type
          /\ transactions'[t].category = transactions[t].category
        BY <1>1, <2>1, <3>3, TransactionKeeps
    <3> QED
        BY <1>2, <2>1, <3>1, <3>4 DEF SeenInv
  <2>3. CASE q = r
    <3>1. Reads(q)
        BY <2>3 DEF Works
    <3>2. CASE job[q].step \in Loaded /\ job'[q].seen = job[q].seen
      <4>1. /\ transactions'[t].type = transactions[t].type
            /\ transactions'[t].category = transactions[t].category
          BY <1>1, <1>2, <2>1, <2>3, TransactionKeeps DEF Loaded
      <4> QED
          BY <2>1, <3>2, <4>1 DEF SeenInv
    <3>3. CASE job'[q].seen = transactions[t] /\ transactions' = transactions
        BY <2>1, <3>3
    <3> QED
        BY <1>2, <2>1, <3>1, <3>2, <3>3 DEF Reads, OnTransaction
  <2> QED
      BY <2>2, <2>3
<1>3. ASSUME NEW q \in Requests, job'[q].kind = "updateTemplate", job'[q].step \in TemplateLoaded
      PROVE  /\ templates'[job'[q].target].type = job'[q].seen.type
             /\ templates'[job'[q].target].category = job'[q].seen.category
  <2> DEFINE t == job[q].target
  <2>1. /\ job[q].kind = "updateTemplate" /\ t \in DOMAIN templates
        /\ job'[q].target = t /\ job[q].kind \in Choosers
      BY <1>3 DEF Works, Frame, Typed, ShapeInv, OnTemplate, Choosers
  <2>2. CASE q # r
    <3>1. job'[q] = job[q]
        BY <2>2 DEF Works, Frame
    <3>2. Running(q)
        BY <1>3, <3>1 DEF Running, Over, TemplateLoaded
    <3>3. ~(job[r].kind = "updateTemplate" /\ job[r].target = t)
        BY <1>1, <2>1, <2>2, <3>2, NoClash DEF Choosers
    <3>4. templates'[t].type = templates[t].type /\ templates'[t].category = templates[t].category
        BY <2>1, <3>3, TemplateKeeps
    <3> QED
        BY <1>3, <2>1, <3>1, <3>4 DEF SeenInv
  <2>3. CASE q = r
    <3>1. Reads(q)
        BY <2>3 DEF Works
    <3>2. CASE job[q].step \in TemplateLoaded /\ job'[q].seen = job[q].seen
      <4>1. templates'[t].type = templates[t].type /\ templates'[t].category = templates[t].category
          BY <1>3, <2>1, <2>3, TemplateKeeps DEF TemplateLoaded
      <4> QED
          BY <2>1, <3>2, <4>1 DEF SeenInv
    <3>3. CASE job'[q].seen = templates[t] /\ templates' = templates
        BY <2>1, <3>3
    <3> QED
        BY <1>3, <2>1, <3>1, <3>2, <3>3 DEF Reads, OnTemplate
  <2> QED
      BY <2>2, <2>3
<1> QED
    BY <1>2, <1>3 DEF SeenInv

LEMMA FitStep ==
    ASSUME Typed, PastInv, FitInv, [Next]_vars
    PROVE  FitInv'
<1> DEFINE Holds == AllFit /\ SeenInv /\ \A q \in Requests : HoldsFit(job[q])
<1>1. SUFFICES ASSUME ~Clash, Holds
               PROVE  Holds'
    BY ClashStays DEF FitInv
<1>2. CASE Quiet
    BY <1>1, <1>2, TypeAloneStays DEF Quiet, AllFit, SeenInv
<1>3. ASSUME NEW r \in Requests, Arrive(r)
      PROVE  Holds'
  <2>1. /\ UNCHANGED <<transactions, templates>> /\ Fresh(job'[r])
        /\ \A q \in Requests \ {r} : job'[q] = job[q]
      BY <1>3, ArriveDoes DEF Typed, stored
  <2>2. AllFit' /\ \A q \in Requests : HoldsFit(job'[q])
      BY <1>1, <2>1, TypeAloneStays DEF AllFit, Fresh
  <2>3. /\ job'[r].kind \in {"update", "apply"} => job'[r].step \notin Loaded
        /\ job'[r].kind = "updateTemplate" => job'[r].step \notin TemplateLoaded
      BY <2>1 DEF Fresh, Loaded, TemplateLoaded
  <2>4. SeenInv'
      BY <1>1, <2>1, <2>3 DEF SeenInv
  <2> QED
      BY <2>2, <2>4
<1>4. ASSUME NEW r \in Requests, Works(r)
      PROVE  Holds'
  <2>1. /\ ~Chosen(r) /\ Reads(r) /\ MakesTransactions(r) /\ MakesTemplate(r) /\ HoldsFit(job[r])
        /\ job[r].kind # "import"
      BY <1>1, <1>4 DEF Works, Clash, Chosen
  <2>2. ASSUME NEW t \in DOMAIN transactions'
        PROVE  Fits(transactions'[t])
    <3>1. CASE t \notin DOMAIN transactions
        BY <2>1, <2>2, <3>1 DEF MakesTransactions
    <3>2. CASE t \in DOMAIN transactions
      <4>1. transactions[t] \in Transaction /\ Fits(transactions[t])
          BY <1>1, <3>2 DEF Typed, TypeOK, AllFit
      <4>2. CASE /\ job[r].kind \in {"update", "apply"} /\ job[r].target = t
                 /\ job[r].step = "save" /\ TransactionHeld(job[r])
                 /\ transactions'[t] = Saved(job[r].doc, job[r].seen, transactions[t])
        <5>1. job[r].doc \in Transaction /\ job[r].seen \in Transaction /\ Fits(job[r].doc)
            BY <2>1, <4>2 DEF TransactionHeld, HoldsFit, Holding, LeavesCategory
        <5>2. transactions[t].type = job[r].seen.type
              /\ transactions[t].category = job[r].seen.category
            BY <1>1, <4>2 DEF SeenInv, Loaded
        <5>3. transactions'[t].type = job[r].doc.type
              /\ transactions'[t].category = job[r].doc.category
            BY <4>1, <4>2, <5>1, <5>2, SavedFields
        <5> QED
            BY <5>1, <5>3 DEF Fits
      <4> QED
          BY <1>4, <2>1, <3>2, <4>1, <4>2, TransactionKeeps DEF Fits
    <3> QED
        BY <3>1, <3>2
  <2>3. ASSUME NEW p \in DOMAIN templates'
        PROVE  Fits(templates'[p]) \/ TypeAlone(p)'
    <3>1. CASE p \notin DOMAIN templates
        BY <2>1, <2>3, <3>1 DEF MakesTemplate
    <3>2. CASE p \in DOMAIN templates
      <4>1. templates[p] \in Template /\ (Fits(templates[p]) \/ TypeAlone(p)')
          BY <1>1, <3>2, TypeAloneStays DEF Typed, TypeOK, AllFit
      <4>2. CASE /\ job[r].kind = "updateTemplate" /\ job[r].target = p
                 /\ job[r].step = "save" /\ TemplateHeld(job[r])
                 /\ templates'[p] = Saved(job[r].doc, job[r].seen, templates[p])
        <5>1. job[r].doc \in Template /\ job[r].seen \in Template
            BY <4>2 DEF TemplateHeld
        <5>2. templates[p].type = job[r].seen.type /\ templates[p].category = job[r].seen.category
            BY <1>1, <4>2 DEF SeenInv, TemplateLoaded
        <5>3. templates'[p].type = job[r].doc.type /\ templates'[p].category = job[r].doc.category
            BY <4>1, <4>2, <5>1, <5>2, SavedTemplateFields
        <5>4. CASE "category" \notin job[r].keeps
            BY <2>1, <4>2, <5>3, <5>4 DEF HoldsFit, Holding, LeavesCategory, Fits
        <5>5. CASE "category" \in job[r].keeps /\ "type" \in job[r].keeps
            BY <4>1, <4>2, <5>2, <5>3, <5>5 DEF TemplateHeld, Fits
        <5>6. CASE "category" \in job[r].keeps /\ "type" \notin job[r].keeps
            BY <4>2, <5>6, TypeAloneStays DEF TypeAlone
        <5> QED
            BY <5>4, <5>5, <5>6
      <4> QED
          BY <1>4, <3>2, <4>1, <4>2, TemplateKeeps DEF Fits
    <3> QED
        BY <3>1, <3>2
  <2>4. \A q \in Requests : HoldsFit(job'[q])
      BY <1>1, <1>4, <2>1 DEF Works, Frame, Reads
  <2>5. SeenInv'
      BY <1>1, <1>4, SeenStep
  <2> QED
      BY <2>2, <2>3, <2>4, <2>5 DEF AllFit
<1> QED
    BY <1>2, <1>3, <1>4, NextSplits

-----------------------------------------------------------------------------
(* The uses of a template                                                  *)

LEMMA RequestsFinite ==
    ASSUME NEW S \in SUBSET Requests
    PROVE  IsFiniteSet(S) /\ Cardinality(S) \in Nat
<1>1. IsFiniteSet(S)
    BY FS_Subset, TransactionsAssumption
<1> QED
    BY <1>1, FS_CardinalityType

LEMMA UsesGo ==
    ASSUME Typed, NEW r \in Requests, Works(r), NEW p
    PROVE  /\ Uses(p) \subseteq Uses(p)' /\ Uses(p)' \subseteq Uses(p) \cup {r}
           /\ Uses(p) \subseteq Requests /\ Uses(p)' \subseteq Requests
           /\ r \in Uses(p)' => job[r].kind \in Using /\ job[r].target = p
<1>1. Frame(r) /\ MakesTransactions(r)
    BY DEF Works
<1>2. ASSUME NEW x \in Uses(p)
      PROVE  x \in Uses(p)'
  <2>1. CASE x = r
      BY <1>1, <1>2, <2>1 DEF Uses, Frame, MakesTransactions, Running, Over
  <2>2. CASE x # r
      BY <1>1, <1>2, <2>2 DEF Uses, Frame, MakesTransactions
  <2> QED
      BY <2>1, <2>2
<1>3. ASSUME NEW x \in Uses(p)', x # r
      PROVE  x \in Uses(p)
  <2>1. job'[x] = job[x] /\ x \in Requests
      BY <1>1, <1>3 DEF Uses, Frame
  <2>2. <<x, 1>> \in DOMAIN transactions' => <<x, 1>> \in DOMAIN transactions
      BY <1>1, <1>3 DEF MakesTransactions
  <2> QED
      BY <1>3, <2>1, <2>2 DEF Uses
<1>4. r \in Uses(p)' => job[r].kind \in Using /\ job[r].target = p
    BY <1>1 DEF Uses, Using, Frame
<1> QED
    BY <1>2, <1>3, <1>4 DEF Uses

\* Turns that are kept were kept before by the others.
LEMMA TurnsBefore ==
    ASSUME Typed, NEW r \in Requests, Works(r), NEW p, NEW q
    PROVE  /\ InTurn(Uses(p))' => InTurn(Uses(p) \ {r})
           /\ InTurn(Uses(p) \ {q})' => InTurn((Uses(p) \ {q}) \ {r})
<1>1. Uses(p) \subseteq Uses(p)' /\ Uses(p) \subseteq Requests
    BY UsesGo
<1>2. past' = past /\ \A x \in Requests \ {r} : job'[x] = job[x]
    BY DEF Works, Frame
<1>3. ASSUME InTurn(Uses(p))'
      PROVE  InTurn(Uses(p) \ {r})
    BY <1>1, <1>2, <1>3 DEF InTurn, Overlap
<1>4. ASSUME InTurn(Uses(p) \ {q})'
      PROVE  InTurn((Uses(p) \ {q}) \ {r})
    BY <1>1, <1>2, <1>4 DEF InTurn, Overlap
<1> QED
    BY <1>3, <1>4

\* The count of a template after a step.
LEMMA UsageGoes ==
    ASSUME Typed, NEW r \in Requests, Works(r), NEW p \in DOMAIN templates
    PROVE  \/ templates'[p].usage = templates[p].usage
           \/ /\ job[r].target = p /\ job[r].step = "count" /\ job'[r].step = "ok"
              /\ templates'[p].usage = job[r].seen.usage + 1
<1>1. TemplateDoes(r, p) /\ templates[p] \in Template /\ JobFits(job[r])
    BY DEF Works, Typed, TypeOK, ShapeInv
<1>2. CASE /\ p = job[r].target /\ At(r, {"updateTemplate", "removeTemplate"}, "save")
           /\ templates'[p] = Saved(job[r].doc, job[r].seen, templates[p])
  <2>1. TemplateHeld(job[r])
      BY <1>1, <1>2 DEF At, JobFits, TemplateLoaded, OnTemplate
  <2>2. /\ job[r].doc \in Template /\ job[r].seen \in Template
        /\ job[r].doc.usage = job[r].seen.usage
      BY <1>2, <2>1 DEF TemplateHeld, At
  <2> QED
      BY <1>1, <1>2, <2>2, SavedTemplateFields
<1> QED
    BY <1>1, <1>2 DEF TemplateDoes

LEMMA CountsStep ==
    ASSUME Typed, PastInv, UsesInv, NEW r \in Requests, Works(r), NEW p \in DOMAIN templates'
    PROVE  Counts(p)'
<1> DEFINE S == Uses(p)
           T == Uses(p)'
           others == S \ {r}
           u == templates[p].usage
           v == templates'[p].usage
<1>1. /\ S \subseteq T /\ T \subseteq S \cup {r} /\ S \subseteq Requests /\ T \subseteq Requests
      /\ r \in T => job[r].kind \in Using /\ job[r].target = p
      /\ InTurn(S)' => InTurn(others)
    BY UsesGo, TurnsBefore
<1>2. /\ JobFits(job[r]) /\ past' = past /\ Running(r) /\ Reads(r) /\ MakesTemplate(r)
      /\ job'[r].kind = job[r].kind /\ job'[r].target = job[r].target
    BY DEF Works, Frame, Typed, ShapeInv
<1>3. CASE p \notin DOMAIN templates
  <2>1. v = 0
      BY <1>2, <1>3 DEF MakesTemplate
  <2>2. T = {}
    <3>1. ASSUME NEW q \in T
          PROVE  FALSE
      <4>1. job[q].kind \in OnTemplate /\ job[q].target = p /\ q \in Requests
          BY <3>1 DEF Uses, Works, Frame, OnTemplate
      <4> QED
          BY <1>3, <4>1 DEF Typed, ShapeInv
    <3> QED
        BY <3>1
  <2> HIDE DEF T
  <2>3. Cardinality(T) = 0
      BY <2>2, FS_EmptySet
  <2> QED
      BY <2>1, <2>3 DEF Counts, T
<1>4. CASE p \in DOMAIN templates /\ r \notin T
  <2>1. v = u
    <3>1. CASE /\ job[r].target = p /\ job[r].step = "count" /\ job'[r].step = "ok"
      <4>1. job[r].kind \in Using
          BY <1>2, <3>1 DEF JobFits, Using
      <4>2. job[r].kind = "fromTemplate" => <<r, 1>> \in DOMAIN transactions
          BY <3>1, <4>1 DEF UsesInv, CountRead, TemplateLoaded
      <4>3. r \in S \/ job[r].kind = "incrementUsage"
          BY <3>1, <4>1, <4>2 DEF Uses, Using
      <4>4. job[r].kind = "incrementUsage" => r \in T
          BY <1>2, <3>1 DEF Uses
      <4> QED
          BY <1>1, <1>4, <4>3, <4>4
    <3> QED
        BY <1>4, <3>1, UsageGoes
  <2>2. T = S /\ others = S
      BY <1>1, <1>4
  <2>3. u <= Cardinality(S) /\ (InTurn(S) => u >= Cardinality(S))
      BY <1>4 DEF UsesInv, Counts
  <2>4. InTurn(S)' => InTurn(S)
      BY <1>1, <2>2
  <2>5. Cardinality(T) = Cardinality(S)
      BY <2>2
  <2> QED
      BY <2>1, <2>3, <2>4, <2>5 DEF Counts
<1>5. CASE p \in DOMAIN templates /\ r \in T
  <2>1. IsFiniteSet(S) /\ IsFiniteSet(T) /\ Cardinality(S) \in Nat /\ Cardinality(T) \in Nat
      BY <1>1, RequestsFinite
  <2>2. CASE job'[r].step = "ok"
    <3>1. /\ job[r].step = "count" /\ v = job[r].seen.usage + 1 /\ job[r].kind \in Using
          /\ job[r].target = p
        BY <1>1, <1>2, <1>5, <2>2 DEF Reads, Using
    <3>2. /\ job[r].seen.usage <= Cardinality(others)
          /\ InTurn(others) /\ others \subseteq past[r] => job[r].seen.usage >= Cardinality(others)
        BY <3>1 DEF UsesInv, CountRead, TemplateLoaded
    <3>3. InTurn(S)' => InTurn(others) /\ others \subseteq past[r]
      <4> SUFFICES ASSUME InTurn(S)', NEW x \in others
                   PROVE  x \in past[r]
          BY <1>1
      <4>1. ~Overlap(x, r)'
          BY <1>1, <1>5 DEF InTurn
      <4>2. r \notin past[x] /\ x # r
          BY <1>1, <1>2, NotPast
      <4> QED
          BY <1>2, <4>1, <4>2 DEF Overlap
    <3>4. T = others \cup {r} /\ r \notin others /\ IsFiniteSet(others)
        BY <1>1, <1>5, RequestsFinite
    <3> HIDE DEF T, S, others
    <3>5. Cardinality(T) = Cardinality(others) + 1 /\ Cardinality(others) \in Nat
        BY <3>4, FS_AddElement, FS_CardinalityType
    <3>6. job[r].seen.usage \in Nat
      <4>1. job[r].seen \in Template
          BY <1>2, <3>1 DEF JobFits, TemplateHeld, TemplateLoaded, OnTemplate, Using
      <4> QED
          BY <4>1 DEF Template
    <3>7. v <= Cardinality(T)
        BY <3>1, <3>2, <3>5, <3>6
    <3>8. InTurn(S)' => v >= Cardinality(T)
        BY <3>1, <3>2, <3>3, <3>5, <3>6
    <3> QED
        BY <3>7, <3>8 DEF Counts, T, S
  <2>3. CASE job'[r].step # "ok"
    <3>1. ~InTurn(S)'
        BY <1>5, <2>3 DEF InTurn
    <3>2. v = u
        BY <1>5, <2>3, UsageGoes
    <3>3. u <= Cardinality(S) /\ u \in Nat
        BY <1>5 DEF UsesInv, Counts, Typed, TypeOK, Template
    <3>4. Cardinality(S) <= Cardinality(T)
        BY <1>1, <2>1, FS_Subset
    <3>5. v <= Cardinality(T)
        BY <2>1, <3>2, <3>3, <3>4
    <3> QED
        BY <3>1, <3>5 DEF Counts
  <2> QED
      BY <2>2, <2>3
<1> QED
    BY <1>3, <1>4, <1>5

LEMMA CountReadStep ==
    ASSUME Typed, PastInv, UsesInv, NEW r \in Requests, Works(r), NEW q \in Requests,
           job'[q].kind \in Using, job'[q].step \in TemplateLoaded
    PROVE  CountRead(q)'
<1>1. PICK t : t = job[q].target
    OBVIOUS
<1> DEFINE S == Uses(t) \ {q}
           T == (Uses(t) \ {q})'
<1>2. /\ S \subseteq T /\ T \subseteq S \cup {r} /\ S \subseteq Requests /\ T \subseteq Requests
      /\ r \notin S => (InTurn(S)' => InTurn(S))
  <2>1. /\ Uses(t) \subseteq Uses(t)' /\ Uses(t)' \subseteq Uses(t) \cup {r}
        /\ Uses(t) \subseteq Requests /\ Uses(t)' \subseteq Requests
      BY UsesGo
  <2>2. InTurn(S)' => InTurn(S \ {r})
      BY TurnsBefore
  <2>3. r \notin S => S \ {r} = S
      OBVIOUS
  <2> QED
      BY <2>1, <2>2, <2>3
<1>3. /\ past' = past /\ Running(r) /\ job'[q].kind = job[q].kind /\ job'[q].target = t
      /\ DOMAIN transactions \subseteq DOMAIN transactions' /\ job[q].kind \in OnTemplate
      /\ job[q].kind \in Using /\ t \in DOMAIN templates
    BY <1>1 DEF Works, Frame, MakesTransactions, OnTemplate, Using, Typed, ShapeInv
<1>4. IsFiniteSet(S) /\ IsFiniteSet(T) /\ Cardinality(S) \in Nat /\ Cardinality(T) \in Nat
    BY <1>2, RequestsFinite
<1>5. CASE q # r
  <2>1. job'[q] = job[q]
      BY <1>5 DEF Works, Frame
  <2>2. /\ job[q].seen.usage <= Cardinality(S)
        /\ InTurn(S) /\ S \subseteq past[q] => job[q].seen.usage >= Cardinality(S)
        /\ job[q].kind = "fromTemplate" /\ job[q].step = "count" => <<q, 1>> \in DOMAIN transactions
      BY <1>1, <1>3, <2>1 DEF UsesInv, CountRead
  <2>3. job[q].seen.usage \in Nat
    <3>1. job[q].seen \in Template
        BY <1>3, <2>1 DEF Typed, ShapeInv, JobFits, TemplateHeld
    <3> QED
        BY <3>1 DEF Template
  <2>4. CASE r \in T
    <3>1. ~(T \subseteq past[q])
        BY <1>3, <2>4, NotPast
    <3>2. Cardinality(S) <= Cardinality(T)
        BY <1>2, <1>4, FS_Subset
    <3>3. job[q].seen.usage <= Cardinality(T)
        BY <1>4, <2>2, <2>3, <3>2
    <3> QED
        BY <1>1, <1>3, <2>1, <2>2, <3>1, <3>3 DEF CountRead
  <2>5. CASE r \notin T
    <3>1. T = S /\ r \notin S
        BY <1>2, <2>5
    <3>2. Cardinality(T) = Cardinality(S)
        BY <3>1
    <3> QED
        BY <1>1, <1>2, <1>3, <2>1, <2>2, <3>1, <3>2 DEF CountRead
  <2> QED
      BY <2>4, <2>5
<1>6. CASE q = r
  <2>1. T = S /\ r \notin S
      BY <1>2, <1>6
  <2>2. Cardinality(T) = Cardinality(S)
      BY <2>1
  <2>3. Reads(q)
      BY <1>6 DEF Works
  <2>4. job'[q].kind = "fromTemplate" /\ job'[q].step = "count" => <<q, 1>> \in DOMAIN transactions'
      BY <1>3, <2>3 DEF Reads
  <2>5. CASE job[q].step \in TemplateLoaded /\ job'[q].seen = job[q].seen
    <3>1. /\ job[q].seen.usage <= Cardinality(S)
          /\ InTurn(S) /\ S \subseteq past[q] => job[q].seen.usage >= Cardinality(S)
        BY <1>1, <1>3, <2>5 DEF UsesInv, CountRead
    <3> QED
        BY <1>1, <1>2, <1>3, <2>1, <2>2, <2>4, <2>5, <3>1 DEF CountRead
  <2>6. CASE job[q].step = "load" /\ job'[q].seen = templates[t]
    <3>1. q \notin Uses(t)
        BY <2>6, TransactionsAssumption DEF Uses, Typed, MadeInv, Copying
    <3>2. S = Uses(t)
        BY <3>1
    <3>3. /\ templates[t].usage <= Cardinality(S)
          /\ InTurn(S) => templates[t].usage >= Cardinality(S)
        BY <1>3, <3>2 DEF UsesInv, Counts
    <3> QED
        BY <1>1, <1>2, <1>3, <2>1, <2>2, <2>4, <2>6, <3>3 DEF CountRead
  <2> QED
      BY <1>1, <1>3, <2>3, <2>5, <2>6 DEF Reads
<1> QED
    BY <1>5, <1>6

LEMMA UsesStep ==
    ASSUME Typed, PastInv, UsesInv, [Next]_vars
    PROVE  UsesInv'
<1>1. CASE Quiet
  <2>1. \A p : Uses(p)' = Uses(p) /\ (InTurn(Uses(p))' <=> InTurn(Uses(p)))
      BY <1>1 DEF Quiet, Uses, InTurn, Overlap
  <2>2. \A p, q : InTurn(Uses(p) \ {q})' <=> InTurn(Uses(p) \ {q})
      BY <1>1 DEF Quiet, Uses, InTurn, Overlap
  <2> QED
      BY <1>1, <2>1, <2>2 DEF Quiet, UsesInv, Counts, CountRead
<1>2. ASSUME NEW r \in Requests, Arrive(r)
      PROVE  UsesInv'
  <2>1. /\ UNCHANGED <<transactions, templates>> /\ Fresh(job'[r]) /\ job[r].kind = None
        /\ \A q \in Requests \ {r} : job'[q] = job[q] /\ past'[q] = past[q]
      BY <1>2, ArriveDoes DEF Typed, stored
  <2>2. <<r, 1>> \notin DOMAIN transactions /\ job[r].kind \notin Using
    <3>1. None \notin Using \cup Copying \cup {"create", "import"}
        BY KindsAssumption DEF Kinds, Using, Copying
    <3> QED
        BY <2>1, <3>1, TransactionsAssumption DEF Typed, MadeInv, Using
  <2>3. ASSUME NEW p
        PROVE  Uses(p)' = Uses(p) /\ r \notin Uses(p) /\ Uses(p) \subseteq Requests
    <3>1. job'[r].kind = "incrementUsage" => job'[r].step # "ok"
        BY <2>1 DEF Fresh
    <3> QED
        BY <2>1, <2>2, <3>1 DEF Uses, Using
  <2>4. ASSUME NEW p, InTurn(Uses(p))'
        PROVE  InTurn(Uses(p))
      BY <2>1, <2>3, <2>4 DEF InTurn, Overlap
  <2>5. ASSUME NEW p, NEW q, InTurn(Uses(p) \ {q})'
        PROVE  InTurn(Uses(p) \ {q})
      BY <2>1, <2>3, <2>5 DEF InTurn, Overlap
  <2>6. ASSUME NEW p \in DOMAIN templates
        PROVE  Counts(p)'
      BY <2>1, <2>3, <2>4 DEF UsesInv, Counts
  <2>7. ASSUME NEW q \in Requests, job'[q].kind \in Using, job'[q].step \in TemplateLoaded
        PROVE  CountRead(q)'
    <3>1. q # r
        BY <2>1, <2>7 DEF Fresh, TemplateLoaded, Using
    <3>2. job'[q] = job[q] /\ past'[q] = past[q] /\ CountRead(q)
        BY <2>1, <2>7, <3>1 DEF UsesInv
    <3>3. PICK t : t = job[q].target
        OBVIOUS
    <3>4. Uses(t)' = Uses(t) /\ (InTurn(Uses(t) \ {q})' => InTurn(Uses(t) \ {q}))
        BY <2>3, <2>5
    <3> QED
        BY <2>1, <3>2, <3>3, <3>4 DEF CountRead
  <2> QED
      BY <2>1, <2>6, <2>7 DEF UsesInv
<1>3. ASSUME NEW r \in Requests, Works(r)
      PROVE  UsesInv'
    BY <1>3, CountsStep, CountReadStep DEF UsesInv
<1> QED
    BY <1>1, <1>2, <1>3, NextSplits

-----------------------------------------------------------------------------
(* The inductive invariant                                                 *)

LEMMA TransactionsInit == Init => TransactionsInv
<1> SUFFICES ASSUME Init
             PROVE  TransactionsInv
    OBVIOUS
<1>1. /\ job = [q \in Requests |-> Idle] /\ past = [q \in Requests |-> {}]
      /\ imports = [q \in Requests |-> NoImport] /\ failuresLeft = MaxFailures /\ mix \in Mixes
      /\ categories = Categories /\ mapping = [state |-> "none", category |-> None]
      /\ templates = [p \in StoredTemplates |-> NewTemplate("expense", None)]
    BY Zenon DEF Init
<1>2. PICK c \in Categories \cup {None} :
           transactions = [t \in Stored |-> [NewTransaction("expense", None) EXCEPT
                                !.receipt = t, !.scanned = t, !.suggested = c]]
    BY Zenon DEF Init
<1>3. DOMAIN transactions = Stored /\ DOMAIN templates = StoredTemplates
    BY <1>1, <1>2
<1>4. \A t \in Stored : transactions[t] \in Transaction /\ transactions[t].category = None
    BY <1>2 DEF NewTransaction, Transaction, Types, Receipts
<1>5. \A p \in StoredTemplates : /\ templates[p] \in Template
                                 /\ templates[p].category = None /\ templates[p].usage = 0
    BY <1>1, NewFields DEF Types
<1>6. /\ Idle \in Job /\ Idle.kind = None /\ Idle.step = "idle" /\ Idle.todo = {}
  <2>1. 0 \in 0..MaxCopies /\ "idle" \in Steps /\ "expense" \in Types
      BY TransactionsAssumption DEF Steps, Types
  <2> QED
      BY <2>1 DEF Idle, Job
<1>7. \A q \in Requests : job[q] \in Job /\ job[q].kind = None /\ job[q].step = "idle"
                          /\ job[q].todo = {}
    BY <1>1, <1>6
<1>8. None \notin Kinds
    BY KindsAssumption
<1>9. TypeOK
  <2>1. imports \in [Requests -> Import]
    <3>1. NoImport \in Import
        BY TransactionsAssumption DEF NoImport, Import
    <3> QED
        BY <1>1, <3>1
  <2>2. mapping \in Mapping /\ mapping.state = "none"
      BY <1>1 DEF Mapping
  <2>3. failuresLeft \in 0..MaxFailures
      BY <1>1, TransactionsAssumption
  <2>4. job \in [Requests -> Job] /\ past \in [Requests -> SUBSET Requests]
      BY <1>1, <1>6
  <2> QED
      BY <1>1, <1>3, <1>4, <1>5, <2>1, <2>2, <2>3, <2>4 DEF TypeOK, Ids, TemplateIds
<1>10. ShapeInv
  <2>1. ASSUME NEW q \in Requests
        PROVE  JobFits(job[q])
      BY <1>7, <1>8 DEF JobFits, Kinds, OnTransaction, OnTemplate, Copying
  <2> QED
      BY <1>7, <1>8, <2>1 DEF ShapeInv, Kinds, OnTransaction, OnTemplate
<1>11. PastInv
    BY <1>1 DEF PastInv
<1>12. MadeInv
    BY <1>3, IdsAssumption DEF MadeInv
<1>13. DiscardInv /\ DeletedInv
    BY <1>7, <1>8 DEF DiscardInv, DeletedInv, Kinds, OnTransaction
<1>14. ImportInv
  <2>1. \A q \in Requests : job[q].kind # "import" /\ imports[q].status = "none"
      BY <1>1, <1>7, <1>8 DEF Kinds, NoImport
  <2> QED
      BY <2>1 DEF ImportInv
<1>15. FitInv
  <2>1. AllFit
      BY <1>3, <1>4, <1>5 DEF AllFit, Fits
  <2>2. SeenInv /\ \A q \in Requests : HoldsFit(job[q])
      BY <1>7, <1>8, NotHolding DEF SeenInv, Kinds
  <2> QED
      BY <2>1, <2>2 DEF FitInv
<1>16. UsesInv
  <2>1. \A q \in Requests : job[q].kind \notin Using
      BY <1>7, <1>8 DEF Kinds, Using
  <2>2. ASSUME NEW p
        PROVE  Uses(p) = {}
      BY <2>1 DEF Uses, Using
  <2>3. \A p : Cardinality(Uses(p)) = 0
      BY <2>2, FS_EmptySet
  <2> QED
      BY <1>3, <1>5, <2>1, <2>3 DEF UsesInv, Counts
<1> QED
    BY <1>9, <1>10, <1>11, <1>12, <1>13, <1>14, <1>15, <1>16 DEF TransactionsInv

LEMMA TransactionsStep ==
    ASSUME TransactionsInv, [Next]_vars
    PROVE  TransactionsInv'
<1>1. Typed
    BY DEF TransactionsInv, Typed
<1> QED
    BY <1>1, TypeStep, MadeStep, PastStep, DiscardStep, DeletedStep, ImportStep, FitStep, UsesStep
       DEF TransactionsInv

\* What is known of transactions, templates, imports and the requests at work on them stays
\* so: the invariant from which the theorems below follow.
THEOREM TransactionsInvariant == Spec => []TransactionsInv
<1>1. Init => TransactionsInv
    BY TransactionsInit
<1>2. TransactionsInv /\ [Next]_vars => TransactionsInv'
    BY TransactionsStep
<1> QED
    BY <1>1, <1>2, PTL DEF Spec

-----------------------------------------------------------------------------
(* The properties                                                          *)

\* Documents, mapping, imports and requests are always well formed: no save, of the whole or
\* of a part, leaves a document without its fields or with a value of another's type.
THEOREM TransactionTypes == Spec => []TypeOK
<1>1. TransactionsInv => TypeOK
    BY DEF TransactionsInv
<1> QED
    BY <1>1, TransactionsInvariant, PTL

\* discardOcrData stands: what it has cleared comes back only by an extraction that was not
\* over when the discard came, whatever else was saved from an older copy of the document.
THEOREM DiscardsStand == Spec => []DiscardStands
<1>1. TransactionsInv => DiscardStands
    BY DEF TransactionsInv, DiscardInv, ExtractedBeside, DiscardStands
<1> QED
    BY <1>1, TransactionsInvariant, PTL

\* An import's history tells what was imported, with any number of rows and of imports, and
\* wherever one is cut off.
THEOREM ImportsAccounted == Spec => []ImportAccounted
<1>1. ASSUME TransactionsInv
      PROVE  ImportAccounted
  <2>1. TypeOK /\ ImportInv
      BY <1>1 DEF TransactionsInv
  <2> SUFFICES ASSUME NEW q \in Requests, job[q].kind = "import"
               PROVE  LET saved == Saves(q)
                          h == imports[q]
                      IN  /\ h.status \in {"completed", "failed"} =>
                                 h.imported = Cardinality(saved)
                          /\ h.status = "completed" => h.imported + h.failed = MaxCopies
                          /\ h.status = "processing" => Running(q) \/ job[q].step = "failed"
                          /\ h.status = "failed" /\ saved # {} =>
                                h.imported + h.failed = MaxCopies /\ failuresLeft < MaxFailures
      BY DEF ImportAccounted, Saves
  <2> DEFINE saved == Saves(q)
             h == imports[q]
             j == job[q]
  <2>2. /\ j.step \in {"history", "parse", "names", "row", "catch", "ok", "refused", "failed"}
        /\ Cardinality(saved) = j.copies
        /\ j.step = "history" => h.status = "none"
        /\ j.step \in {"parse", "names", "row", "catch"} => h.status = "processing"
        /\ j.step = "failed" => h.status \in {"none", "processing"}
        /\ j.step = "ok" => h.status = "completed" /\ j.copies + j.failures = MaxCopies
        /\ j.step = "refused" => h.status = "failed"
        /\ j.step \in {"catch", "refused"} =>
              j.copies = 0 \/ (j.copies + j.failures = MaxCopies /\ failuresLeft < MaxFailures)
        /\ h.status \in {"completed", "failed"} => h.imported = j.copies /\ h.failed = j.failures
      BY <2>1 DEF ImportInv
  <2>3. IsFiniteSet(saved)
      BY SavesFinite
  <2> HIDE DEF saved
  <2>4. j.copies = 0 => saved = {}
      BY <2>2, <2>3, FS_EmptySet
  <2>5. h.status = "processing" => Running(q) \/ j.step = "failed"
      BY <2>2 DEF Running, Over
  <2> QED
      BY <2>2, <2>4, <2>5 DEF saved
<1> QED
    BY <1>1, TransactionsInvariant, PTL

\* validateCategoryRelationship keeps every transaction's category of its own type, and every
\* template's whose type no update changed without the category, unless one
\* was chosen past it or two requests that overlapped changed one document.
THEOREM CategoriesFit == Spec => []CategoryFits
<1>1. TransactionsInv => CategoryFits
    BY DEF TransactionsInv, FitInv, Clash, Chosen, Choosers, AllFit, CategoryFits
<1> QED
    BY <1>1, TransactionsInvariant, PTL

\* A template's usageCount never exceeds its uses, and is short of them only where requests
\* overlapped or one was cut off, however many use it.
THEOREM UsesAreCounted == Spec => []UsesCounted
<1>1. ASSUME TransactionsInv
      PROVE  UsesCounted
  <2>1. TypeOK /\ UsesInv
      BY <1>1 DEF TransactionsInv
  <2> SUFFICES ASSUME NEW p \in DOMAIN templates
               PROVE  /\ templates[p].usage <= Cardinality(Uses(p))
                      /\ templates[p].usage < Cardinality(Uses(p)) =>
                            \E q \in Uses(p) : \/ job[q].step # "ok"
                                               \/ \E r \in Uses(p) : Overlap(q, r)
      BY DEF UsesCounted, Uses
  <2>2. Counts(p)
      BY <2>1 DEF UsesInv
  <2>3. templates[p].usage \in Nat /\ Cardinality(Uses(p)) \in Nat
    <3>1. Uses(p) \subseteq Requests
        BY DEF Uses
    <3> QED
        BY <2>1, <3>1, RequestsFinite DEF TypeOK, Template
  <2>4. CASE InTurn(Uses(p))
      BY <2>2, <2>3, <2>4 DEF Counts
  <2>5. CASE ~InTurn(Uses(p))
      BY <2>2, <2>5 DEF Counts, InTurn
  <2> QED
      BY <2>4, <2>5
<1> QED
    BY <1>1, TransactionsInvariant, PTL

\* A save that changes nothing, but deletes what is deleted.
LEMMA SavedSame ==
    ASSUME NEW doc \in Transaction, NEW seen \in Transaction, NEW now \in Transaction,
           doc.type = seen.type, doc.category = seen.category, doc.receipt = seen.receipt,
           doc.scanned = seen.scanned, doc.suggested = seen.suggested, doc.applied = seen.applied,
           now.deleted, doc.deleted \/ doc.deleted = seen.deleted
    PROVE  Saved(doc, seen, now) = now
BY DEF Saved, Transaction

\* A deleted transaction is changed only by requests that overlap its deletion: findById
\* hides it from all that come later, and removals and restores write only deletedAt.
THEOREM DeletedStays == Spec => DeletedUntouched
<1> DEFINE Kept ==
        \A t \in DOMAIN transactions :
          transactions[t].deleted /\ transactions'[t] # transactions[t]
                                  /\ transactions'[t].deleted =>
             \E q, d \in Requests :
                /\ Overlap(q, d) /\ job[q].target = t /\ Running(q)
                /\ job[d].kind \in {"remove", "bulkDelete"}
                /\ (job[d].target = t \/ t \in job[d].todo)
<1>1. ASSUME TransactionsInv, [Next]_vars
      PROVE  Kept
  <2>1. Typed /\ PastInv /\ DeletedInv
      BY <1>1 DEF TransactionsInv, Typed
  <2> SUFFICES ASSUME NEW t \in DOMAIN transactions, transactions[t].deleted,
                      transactions'[t] # transactions[t], transactions'[t].deleted
               PROVE  \E q, d \in Requests :
                         /\ Overlap(q, d) /\ job[q].target = t /\ Running(q)
                         /\ job[d].kind \in {"remove", "bulkDelete"}
                         /\ (job[d].target = t \/ t \in job[d].todo)
      OBVIOUS
  <2>2. PICK r \in Requests : Works(r)
      BY <1>1, <2>1, NextSplits, ArriveDoes DEF Quiet, stored, Typed
  <2>3. /\ Running(r) /\ JobFits(job[r]) /\ transactions[t] \in Transaction
        /\ TransactionDoes(r, t)
      BY <2>1, <2>2 DEF Works, Frame, Typed, TypeOK, ShapeInv
  <2>4. ASSUME job[r].kind \in OnTransaction \ {"remove", "restore"}, job[r].step \in Loaded,
               job[r].target = t
        PROVE  \E q, d \in Requests :
                  /\ Overlap(q, d) /\ job[q].target = t /\ Running(q)
                  /\ job[d].kind \in {"remove", "bulkDelete"}
                  /\ (job[d].target = t \/ t \in job[d].todo)
    <3>1. PICK d \in Requests \ past[r] : Deletes(d, t)
        BY <2>1, <2>4 DEF DeletedInv
    <3>2. r \notin past[d] /\ r # d
        BY <2>1, <2>3, <2>4, <3>1, NotPast DEF Deletes, OnTransaction
    <3> QED
        BY <2>3, <2>4, <3>1, <3>2 DEF Deletes, Overlap
  <2>5. CASE /\ t = job[r].target /\ At(r, OnTransaction \ {"saveAsTemplate"}, "save")
             /\ transactions'[t] = Saved(job[r].doc, job[r].seen, transactions[t])
    <3>1. TransactionHeld(job[r])
        BY <2>3, <2>5 DEF At, JobFits, Loaded
    <3>2. CASE job[r].kind \in {"remove", "restore"}
      <4>1. /\ job[r].doc \in Transaction /\ job[r].seen \in Transaction
            /\ job[r].doc.type = job[r].seen.type /\ job[r].doc.category = job[r].seen.category
            /\ job[r].doc.receipt = job[r].seen.receipt
            /\ job[r].doc.scanned = job[r].seen.scanned
            /\ job[r].doc.suggested = job[r].seen.suggested
            /\ job[r].doc.applied = job[r].seen.applied
          BY <3>1, <3>2 DEF TransactionHeld
      <4>2. job[r].doc.deleted \/ job[r].doc.deleted = job[r].seen.deleted
          BY <2>3, <2>5, <4>1 DEF Saved, Transaction
      <4> QED
          BY <2>3, <2>5, <4>1, <4>2, SavedSame
    <3> QED
        BY <2>4, <2>5, <3>2 DEF At, Loaded
  <2>6. CASE t = job[r].target /\ At(r, {"apply"}, "override")
      BY <2>4, <2>6 DEF At, Loaded, OnTransaction
  <2>7. CASE transactions'[t] = [transactions[t] EXCEPT !.deleted = TRUE]
      BY <2>3, <2>7 DEF Transaction
  <2> QED
      BY <2>3, <2>5, <2>6, <2>7 DEF TransactionDoes
<1>2. Spec => [][TransactionsInv /\ [Next]_vars]_vars
    BY TransactionsInvariant, PTL DEF Spec
<1>3. TransactionsInv /\ [Next]_vars => Kept
    BY <1>1
<1> QED
    BY <1>2, <1>3, PTL DEF DeletedUntouched

\* A merchant mapping that was removed blocks its merchant's name for good.
THEOREM RemovedMappingsStay == Spec => RemovedMappingStays
<1> DEFINE Stays == mapping.state = "deleted" => mapping'.state = "deleted"
<1>1. ASSUME NEW q \in Requests,
             \/ Arrive(q) \/ Load(q) \/ ValidateCategory(q) \/ Save(q) \/ Insert(q)
             \/ FindAll(q) \/ DeleteAll(q) \/ LoadOriginal(q) \/ SaveCopy(q)
             \/ StoreFile(q) \/ Suggest(q) \/ Override(q) \/ Learn(q)
      PROVE  Stays
    BY <1>1 DEF Arrive, Load, ValidateCategory, Save, Insert, FindAll, DeleteAll, LoadOriginal,
                SaveCopy, StoreFile, Suggest, Override, Learn, stored
<1>2. ASSUME NEW q \in Requests,
             \/ OpenImport(q) \/ Parse(q) \/ MapNames(q) \/ FailRow(q) \/ SaveRow(q)
             \/ CloseImport(q) \/ CatchImport(q)
             \/ LoadTemplate(q) \/ SaveTemplate(q) \/ InsertTemplate(q) \/ CountUsage(q)
             \/ Fail(q)
      PROVE  Stays
    BY <1>2 DEF OpenImport, Parse, MapNames, FailRow, SaveRow, CloseImport, CatchImport,
                LoadTemplate, SaveTemplate, InsertTemplate, CountUsage, Fail, stored
<1>3. ASSUME NEW q \in Requests, InsertMapping(q)
      PROVE  Stays
    BY <1>3 DEF InsertMapping, NameFree
<1>4. ASSUME NEW c \in Categories,
             \/ AddCategory(c) \/ RemoveCategory(c) \/ CreateMapping(c) \/ UpdateMapping(c)
      PROVE  Stays
    BY <1>4 DEF AddCategory, RemoveCategory, CreateMapping, UpdateMapping, NameFree
<1>5. ASSUME RemoveMapping
      PROVE  Stays
    BY <1>5 DEF RemoveMapping
<1>6. ASSUME UNCHANGED vars
      PROVE  Stays
    BY <1>6 DEF vars, stored
<1>7. [Next]_vars => Stays
    BY <1>1, <1>2, <1>3, <1>4, <1>5, <1>6 DEF Next
<1> QED
    BY <1>7, PTL DEF Spec, RemovedMappingStays
=============================================================================
