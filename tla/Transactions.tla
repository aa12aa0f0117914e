----------------------------- MODULE Transactions -----------------------------
(***************************************************************************)
(* Transactions, their templates and categories, receipts with what OCR    *)
(* read from them, and the merchant mapping that learns from it, under     *)
(* concurrent requests of one user.  A request loads a document, may look  *)
(* at a category, and saves: an await, and so a step, each.  A save writes *)
(* the fields that were changed since the load and no others.  Amounts,    *)
(* currencies and texts are left out.                                      *)
(***************************************************************************)
EXTENDS Naturals, FiniteSets

CONSTANTS
    Requests,           \* bound: requests, each made once
    Stored,             \* transactions at the start
    StoredTemplates,
    Categories, TypeOf, \* a category is in the collection of its type
    MaxCopies,          \* bound: copies made by one request
    MaxFailures,        \* bound: requests cut off by an error or a dying process
    Mixes,              \* bound: how many requests, of which kinds, meet in a behaviour;
                        \* "categories" and "mapping" for the requests on these
    None

Types == {"expense", "income"}

ASSUME TransactionsAssumption ==
    /\ TypeOf \in [Categories -> Types] /\ MaxCopies \in Nat \ {0} /\ MaxFailures \in Nat
    /\ IsFiniteSet(Requests) /\ IsFiniteSet(Stored)

VARIABLES
    transactions, templates,
    categories,     \* categories that exist and are not deleted
    mapping,        \* of the one merchant the receipts are from
    imports,        \* the history of imports, by their requests
    job, past,      \* history: the requests that were over when a request arrived
    failuresLeft, mix

stored == <<transactions, templates, categories, mapping, imports>>
vars == <<stored, job, past, failuresLeft, mix>>

-----------------------------------------------------------------------------
Ids == Stored \cup Requests \X (1..MaxCopies)
TemplateIds == StoredTemplates \cup Requests

ASSUME IdsAssumption ==
    /\ Stored \cap (Requests \X (1..MaxCopies)) = {} /\ StoredTemplates \cap Requests = {}
    /\ None \notin Requests \cup Categories \cup Ids \cup TemplateIds

\* A receipt is named by its upload or by the transaction that has it at the start, OCR
\* data (scanned) by the receipt it was read from.
Receipts == Requests \cup Stored \cup {None}
Transaction == [deleted : BOOLEAN, type : Types, category : Categories \cup {None},
                receipt : Receipts, scanned : Receipts,
                suggested : Categories \cup {None}, applied : BOOLEAN]

Template == [deleted : BOOLEAN, type : Types, category : Categories \cup {None},
             usage : Nat]

Mapping == [state : {"none", "live", "deleted"}, category : Categories \cup {None}]

NewTransaction(type, category) ==
    [deleted |-> FALSE, type |-> type, category |-> category, receipt |-> None,
     scanned |-> None, suggested |-> None, applied |-> FALSE]
NewTemplate(type, category) ==
    [deleted |-> FALSE, type |-> type, category |-> category, usage |-> 0]

\* The collection docs with one document more.
Added(docs, id, doc) ==
    [d \in DOMAIN docs \cup {id} |-> IF d = id THEN doc ELSE docs[d]]

\* What duplicate copies: neither the receipt nor, of the fields left out, the currency.
CopyOf(t) == NewTransaction(t.type, t.category)

Fits(d) == d.category = None \/ TypeOf[d.category] = d.type

\* validateCategoryRelationship: the category is looked up in the collection of the type.
Valid(category, type) == category \in categories /\ TypeOf[category] = type

\* Mutant: a save writes the document as it was loaded, with the changes.
SavedWhole(new, seen, now) == new

\* A save sends the fields that differ from those loaded.
Saved(new, seen, now) == [f \in DOMAIN now |-> IF new[f] = seen[f] THEN now[f] ELSE new[f]]

Kinds == {"create", "update", "remove", "bulkDelete", "restore", "duplicate",
          "bulkDuplicate", "upload", "deleteReceipt", "extract", "apply", "discard",
          "saveAsTemplate", "fromTemplate", "createTemplate", "updateTemplate",
          "incrementUsage", "removeTemplate", "import"}
ASSUME KindsAssumption == None \notin Kinds

Over == {"ok", "refused", "failed"}
Steps == Over \cup {"idle", "load", "category", "suggest", "file", "save", "count",
                    "learn", "insert", "override", "relearn", "reinsert",
                    "history", "parse", "names", "row", "close", "catch"}

Docs == Transaction \cup Template
Fields == {"type", "category"}
Job == [kind : Kinds \cup {None}, step : Steps, target : Ids \cup TemplateIds \cup {None},
        type : Types, category : Categories \cup {None},
        keeps : SUBSET Fields,  \* update: what the body leaves out
        fields : BOOLEAN,       \* apply: whether the category is among the fields
        todo : SUBSET Ids, copies : 0..MaxCopies, failures : 0..MaxCopies,
        names : SUBSET Categories,      \* import: the categories that were found
        seen : Docs \cup {None}, doc : Docs \cup {None}]    \* as loaded, as changed

Idle == [kind |-> None, step |-> "idle", target |-> None, type |-> "expense",
         category |-> None, keeps |-> {}, fields |-> FALSE, todo |-> {}, copies |-> 0,
         failures |-> 0, names |-> {},
         seen |-> None, doc |-> None]

Running(q) == job[q].step \notin Over \cup {"idle"}
At(q, ks, step) == job[q].kind \in ks /\ job[q].step = step
Go(q, step) == job' = [job EXCEPT ![q].step = step]
Refuse(q) == Go(q, "refused") /\ UNCHANGED stored

-----------------------------------------------------------------------------
(* Arrival.  Requests name transactions and templates the client has seen. *)

OnTransaction == {"update", "remove", "restore", "upload", "deleteReceipt", "extract",
                  "apply", "discard", "saveAsTemplate"}
Several == {"duplicate", "bulkDuplicate", "bulkDelete"}
OnTemplate == {"fromTemplate", "incrementUsage", "updateTemplate", "removeTemplate"}
\* Handlers with a body that holds a type and perhaps a category; an update may leave out
\* either, or clear the category (None).
Updates == {"update", "updateTemplate"}
WithBody == {"create", "createTemplate"} \cup Updates

FirstStep(r) == IF r.kind \in {"create", "createTemplate"}
                THEN IF r.category = None THEN "save" ELSE "category"
                ELSE IF r.kind = "import" THEN "history" ELSE "load"

Arrive(q) ==
    /\ job[q].step = "idle" /\ Cardinality({r \in Requests : job[r] # Idle}) < mix.size
    /\ \E kind \in mix.kinds \cap Kinds :
       \E target \in CASE kind \in OnTransaction -> DOMAIN transactions
                       [] kind \in OnTemplate -> DOMAIN templates
                       [] OTHER -> {None},
          todo \in CASE kind \in Several \ {"duplicate"} ->
                            {s \in SUBSET DOMAIN transactions :
                                s # {} /\ Cardinality(s) <= MaxCopies}
                     [] kind = "duplicate" -> {{t} : t \in DOMAIN transactions}
                     [] OTHER -> {{}},
          type \in IF kind \in WithBody THEN Types ELSE {"expense"},
          category \in IF kind \in WithBody \cup {"apply"} THEN Categories \cup {None} ELSE {None},
          keeps \in IF kind \in Updates THEN SUBSET Fields ELSE {{}},
          fields \in IF kind = "apply" THEN BOOLEAN ELSE {FALSE} :
            LET r == [Idle EXCEPT !.kind = kind, !.target = target, !.todo = todo,
                        !.type = type, !.category = category, !.keeps = keeps,
                        !.fields = fields,
                        !.doc = CASE kind = "create" -> NewTransaction(type, category)
                                  [] kind = "createTemplate" -> NewTemplate(type, category)
                                  [] OTHER -> None]
            IN  /\ "type" \in keeps => type = Idle.type     \* what is left out has no value
                /\ "category" \in keeps => category = None
                /\ job' = [job EXCEPT ![q] = [r EXCEPT !.step = FirstStep(r)]]
    /\ past' = [past EXCEPT ![q] = {r \in Requests : job[r].step \in Over}]
    /\ UNCHANGED <<stored, failuresLeft, mix>>

-----------------------------------------------------------------------------
(* Transactions                                                            *)

\* Mutant: findById returns deleted documents.
FindableDeleted(q) == (job[q].kind = "restore") => transactions[job[q].target].deleted

\* The plugin hides deleted documents; restore looks for nothing else.
Findable(q) == transactions[job[q].target].deleted = (job[q].kind = "restore")

\* Object.assign: a field that the body leaves out stays as it was loaded.
Updated(q, d) ==
    [d EXCEPT !.type = IF "type" \in job[q].keeps THEN @ ELSE job[q].type,
              !.category = IF "category" \in job[q].keeps THEN @ ELSE job[q].category]
Discarded(t) == [t EXCEPT !.scanned = None, !.suggested = None, !.applied = FALSE]

Changed(q, t) ==
    CASE job[q].kind = "update"        -> Updated(q, t)
      [] job[q].kind = "remove"        -> [t EXCEPT !.deleted = TRUE]
      [] job[q].kind = "restore"       -> [t EXCEPT !.deleted = FALSE]
      [] job[q].kind = "upload"        -> [t EXCEPT !.receipt = q]
      [] job[q].kind = "deleteReceipt" -> [t EXCEPT !.receipt = None]
      [] job[q].kind = "extract"       -> [t EXCEPT !.scanned = t.receipt]
      [] job[q].kind = "apply"         -> [t EXCEPT !.applied = TRUE]
      [] job[q].kind = "discard"       -> Discarded(t)
      [] OTHER                         -> t

\* What a handler asks of the document it loaded.
Refused(q, t) == \/ t.receipt = None /\ job[q].kind \in {"deleteReceipt", "extract"}
                 \/ t.scanned = None /\ job[q].kind = "apply"

AppliesCategory(q, t) == job[q].kind = "apply" /\ job[q].fields /\ t.suggested # None

\* An update checks the category it brings, or, with a type, the one that was there.
NextStep(q, t) ==
    CASE job[q].kind = "update" -> IF job[q].keeps = Fields \/ Updated(q, t).category = None
                                   THEN "save" ELSE "category"
      [] job[q].kind = "upload" -> "file"
      [] job[q].kind = "extract" -> "suggest"
      [] AppliesCategory(q, t) -> "category"
      [] OTHER -> "save"

Load(q) ==
    /\ At(q, OnTransaction, "load")
    /\ LET t == transactions[job[q].target]
       IN  IF Findable(q) /\ ~Refused(q, t)
           THEN job' = [job EXCEPT ![q].seen = t, ![q].doc = Changed(q, t),
                                   ![q].step = NextStep(q, t)]
           ELSE Go(q, "refused")
    /\ UNCHANGED <<stored, past, failuresLeft, mix>>

Checked(q) == IF job[q].kind = "apply" THEN job[q].seen.suggested ELSE job[q].doc.category

ValidateCategory(q) ==
    /\ job[q].step = "category"
    /\ IF ~Valid(Checked(q), job[q].doc.type)
       THEN Go(q, "refused")
       ELSE IF job[q].kind = "apply"
       THEN \E next \in {"learn", "save"} :     \* with and without a merchant's name
               job' = [job EXCEPT ![q].doc.category = Checked(q), ![q].step = next]
       ELSE Go(q, "save")
    /\ UNCHANGED <<stored, past, failuresLeft, mix>>

Save(q) ==
    /\ At(q, OnTransaction \ {"saveAsTemplate"}, "save")
    /\ transactions' = [transactions EXCEPT ![job[q].target] =
                            Saved(job[q].doc, job[q].seen, @)]
    /\ Go(q, IF job[q].kind = "apply" /\ job[q].category # None THEN "override" ELSE "ok")
    /\ UNCHANGED <<templates, categories, mapping, imports, past, failuresLeft, mix>>

Insert(q) ==
    /\ At(q, {"create", "fromTemplate"}, "save")
    /\ transactions' = Added(transactions, <<q, 1>>, job[q].doc)
    /\ Go(q, IF job[q].kind = "fromTemplate" THEN "count" ELSE "ok")
    /\ UNCHANGED <<templates, categories, mapping, imports, past, failuresLeft, mix>>

\* bulkSoftDelete: the ids are looked up, then all that were found are updated.
FindAll(q) ==
    /\ At(q, {"bulkDelete"}, "load")
    /\ LET found == {t \in job[q].todo : ~transactions[t].deleted}
       IN  job' = [job EXCEPT ![q].todo = found,
                              ![q].step = IF found = {} THEN "refused" ELSE "save"]
    /\ UNCHANGED <<stored, past, failuresLeft, mix>>

DeleteAll(q) ==
    /\ At(q, {"bulkDelete"}, "save")
    /\ transactions' = [t \in DOMAIN transactions |->
            IF t \in job[q].todo THEN [transactions[t] EXCEPT !.deleted = TRUE]
            ELSE transactions[t]]
    /\ Go(q, "ok")
    /\ UNCHANGED <<templates, categories, mapping, imports, past, failuresLeft, mix>>

\* One id after the other; those that cannot be found go to failedIds.
LoadOriginal(q) ==
    /\ At(q, {"duplicate", "bulkDuplicate"}, "load")
    /\ IF job[q].todo = {} THEN Go(q, "ok")
       ELSE \E t \in job[q].todo :
            IF ~transactions[t].deleted
            THEN job' = [job EXCEPT ![q].todo = @ \ {t}, ![q].step = "save",
                                    ![q].doc = CopyOf(transactions[t])]
            ELSE job' = [job EXCEPT ![q].todo = @ \ {t}, ![q].step =
                            IF job[q].kind = "duplicate" THEN "refused" ELSE "load"]
    /\ UNCHANGED <<stored, past, failuresLeft, mix>>

SaveCopy(q) ==
    /\ At(q, {"duplicate", "bulkDuplicate"}, "save")
    /\ LET n == job[q].copies + 1
       IN  /\ transactions' = Added(transactions, <<q, n>>, job[q].doc)
           /\ job' = [job EXCEPT ![q].copies = n, ![q].step = "load"]
    /\ UNCHANGED <<templates, categories, mapping, imports, past, failuresLeft, mix>>

-----------------------------------------------------------------------------
(* Receipts                                                                *)

\* The file is kept before the transaction is; nothing ever deletes it.
StoreFile(q) ==
    /\ At(q, {"upload"}, "file")
    /\ \E next \in {"save", "refused"} : Go(q, next)     \* type or size not allowed
    /\ UNCHANGED <<stored, past, failuresLeft, mix>>

\* suggestCategory: the mapping, if its category exists; or else the category of former
\* transactions with that merchant, or one that keywords of the receipt name, or none.
FromMapping == IF mapping.state = "live" THEN {mapping.category} \cap categories ELSE {}
FromHistory == {transactions[t].category :
                    t \in {u \in DOMAIN transactions : ~transactions[u].deleted}} \cap categories
FromKeywords == categories

Suggestions == IF FromMapping # {} THEN FromMapping
               ELSE FromHistory \cup FromKeywords \cup {None}

\* OCR has taken its time.  Without a suggestion the former one stays.
Suggest(q) ==
    /\ job[q].step = "suggest"
    /\ \/ Go(q, "refused")                               \* OCR fails
       \/ \E c \in Suggestions \cup {None} :              \* None: no merchant was read
            job' = [job EXCEPT ![q].doc.suggested = IF c = None THEN @ ELSE c,
                               ![q].step = "save"]
    /\ UNCHANGED <<stored, past, failuresLeft, mix>>

\* The controller sets the category the client chose over the suggested one, unchecked.
Override(q) ==
    /\ job[q].step = "override"
    /\ LET doc == [job[q].doc EXCEPT !.category = job[q].category]
       IN  /\ transactions' = [transactions EXCEPT ![job[q].target] = Saved(doc, job[q].doc, @)]
           /\ \E next \in {"relearn", "ok"} :      \* with and without a merchant's name
                 job' = [job EXCEPT ![q].doc = doc, ![q].step = next]
    /\ UNCHANGED <<templates, categories, mapping, imports, past, failuresLeft, mix>>

\* updateMerchantMapping, whose failure is logged, before the save and after an override.
\* A mapping that exists counts one more match (left out) and keeps its category.
InsertStep == [learn |-> "insert", relearn |-> "reinsert"]
AfterLearning == [learn |-> "save", insert |-> "save", relearn |-> "ok", reinsert |-> "ok"]

Learn(q) ==
    /\ job[q].step \in DOMAIN InsertStep
    /\ Go(q, IF mapping.state = "live" THEN AfterLearning[job[q].step]
              ELSE InsertStep[job[q].step])
    /\ UNCHANGED <<stored, past, failuresLeft, mix>>

\* Mutant: the index is unique among the mappings that are not deleted.
NameFreeAmongLive == mapping.state # "live"

\* The unique index on user and merchant's name covers deleted mappings too.
NameFree == mapping.state = "none"

InsertMapping(q) ==
    /\ job[q].step \in {"insert", "reinsert"}
    /\ mapping' = IF NameFree THEN [state |-> "live", category |-> job[q].doc.category]
                  ELSE mapping
    /\ Go(q, AfterLearning[job[q].step])
    /\ UNCHANGED <<transactions, templates, categories, imports, past, failuresLeft, mix>>

\* The mapping's own requests, each as one step.
CreateMapping(c) ==
    /\ "mapping" \in mix.kinds /\ c \in categories /\ NameFree
    /\ mapping' = [state |-> "live", category |-> c]
    /\ UNCHANGED <<transactions, templates, categories, imports, job, past, failuresLeft, mix>>

UpdateMapping(c) ==
    /\ "mapping" \in mix.kinds /\ c \in categories /\ mapping.state = "live"
    /\ mapping' = [mapping EXCEPT !.category = c]
    /\ UNCHANGED <<transactions, templates, categories, imports, job, past, failuresLeft, mix>>

\* Mutant: the category goes with the mapping.
RemoveMappingWhole ==
    /\ "mapping" \in mix.kinds /\ mapping.state = "live"
    /\ mapping' = [state |-> "deleted", category |-> None]
    /\ UNCHANGED <<transactions, templates, categories, imports, job, past, failuresLeft, mix>>

RemoveMapping ==
    /\ "mapping" \in mix.kinds /\ mapping.state = "live"
    /\ mapping' = [mapping EXCEPT !.state = "deleted"]
    /\ UNCHANGED <<transactions, templates, categories, imports, job, past, failuresLeft, mix>>

\* A category is created or restored, and removed, whoever refers to it.
AddCategory(c) ==
    /\ "categories" \in mix.kinds
    /\ categories' = categories \cup {c}
    /\ UNCHANGED <<transactions, templates, mapping, imports, job, past, failuresLeft, mix>>

RemoveCategory(c) ==
    /\ "categories" \in mix.kinds
    /\ categories' = categories \ {c}
    /\ UNCHANGED <<transactions, templates, mapping, imports, job, past, failuresLeft, mix>>

-----------------------------------------------------------------------------
(* Imports.  Files have MaxCopies rows; each is saved, or fails, by itself. *)

Import == [status : {"none", "processing", "completed", "failed"},
           imported : 0..MaxCopies, failed : 0..MaxCopies]

NoImport == [status |-> "none", imported |-> 0, failed |-> 0]

OpenImport(q) ==
    /\ job[q].step = "history"
    /\ imports' = [imports EXCEPT ![q].status = "processing"]
    /\ Go(q, "parse")
    /\ UNCHANGED <<transactions, templates, categories, mapping, past, failuresLeft, mix>>

\* A file that cannot be read, or of another type, is thrown to the catch.
Parse(q) ==
    /\ job[q].step = "parse"
    /\ \E next \in {"names", "catch"} : Go(q, next)
    /\ UNCHANGED <<stored, past, failuresLeft, mix>>

\* Names of both collections go into one map.
MapNames(q) ==
    /\ job[q].step = "names"
    /\ job' = [job EXCEPT ![q].names = categories, ![q].step = "row"]
    /\ UNCHANGED <<stored, past, failuresLeft, mix>>

Rows(q) == job[q].copies + job[q].failures

\* Mutant: a row is counted before it is saved.
FailRowCounted(q) ==
    /\ job[q].step = "row" /\ Rows(q) < MaxCopies
    /\ job' = [job EXCEPT ![q].copies = @ + 1]
    /\ UNCHANGED <<stored, past, failuresLeft, mix>>

\* A row with a bad date, type or amount, or one the database refuses.
FailRow(q) ==
    /\ job[q].step = "row" /\ Rows(q) < MaxCopies
    /\ job' = [job EXCEPT ![q].failures = @ + 1]
    /\ UNCHANGED <<stored, past, failuresLeft, mix>>

\* The category has the name the row gives, whatever the row's type.
SaveRow(q) ==
    /\ job[q].step = "row" /\ Rows(q) < MaxCopies
    /\ \E type \in Types, c \in job[q].names \cup {None} :
          transactions' = Added(transactions, <<q, Rows(q) + 1>>, NewTransaction(type, c))
    /\ job' = [job EXCEPT ![q].copies = @ + 1]
    /\ UNCHANGED <<templates, categories, mapping, imports, past, failuresLeft, mix>>

\* The history is closed; if that save fails, the catch saves it as failed.
CloseImport(q) ==
    /\ job[q].step = "row" /\ Rows(q) = MaxCopies
    /\ \/ /\ imports' = [imports EXCEPT ![q] = [status |-> "completed",
                             imported |-> job[q].copies, failed |-> job[q].failures]]
          /\ Go(q, "ok") /\ UNCHANGED failuresLeft
       \/ /\ failuresLeft > 0 /\ failuresLeft' = failuresLeft - 1
          /\ Go(q, "catch") /\ UNCHANGED imports
    /\ UNCHANGED <<transactions, templates, categories, mapping, past, mix>>

\* The counts are set on the document before the save that failed: they are saved now.
CatchImport(q) ==
    /\ job[q].step = "catch"
    /\ imports' = [imports EXCEPT ![q] = [status |-> "failed",
                         imported |-> job[q].copies, failed |-> job[q].failures]]
    /\ Go(q, "refused")
    /\ UNCHANGED <<transactions, templates, categories, mapping, past, failuresLeft, mix>>

-----------------------------------------------------------------------------
(* Templates                                                               *)

TemplateChanged(q, p) ==
    CASE job[q].kind = "updateTemplate" -> Updated(q, p)
      [] job[q].kind = "removeTemplate" -> [p EXCEPT !.deleted = TRUE]
      [] job[q].kind = "fromTemplate"   -> NewTransaction(p.type, p.category)
      [] job[q].kind = "incrementUsage" -> p

\* Mutant: a template's category was checked when it was saved.
ChecksBody(q, doc) ==
    doc.category # None /\ job[q].kind = "updateTemplate" /\ "category" \notin job[q].keeps

\* Only a category that the body brings is checked, and the one of a template that is used.
Checks(q, doc) ==
    /\ doc.category # None
    /\ \/ job[q].kind = "updateTemplate" /\ "category" \notin job[q].keeps
       \/ job[q].kind = "fromTemplate"

LoadTemplate(q) ==
    /\ At(q, OnTemplate, "load")
    /\ LET p == templates[job[q].target]
           doc == TemplateChanged(q, p)
       IN  IF p.deleted THEN Go(q, "refused")
           ELSE job' = [job EXCEPT ![q].seen = p, ![q].doc = doc, ![q].step =
                            IF Checks(q, doc) THEN "category"
                            ELSE IF job[q].kind = "incrementUsage" THEN "count" ELSE "save"]
    /\ UNCHANGED <<stored, past, failuresLeft, mix>>

SaveTemplate(q) ==
    /\ At(q, {"updateTemplate", "removeTemplate"}, "save")
    /\ templates' = [templates EXCEPT ![job[q].target] = Saved(job[q].doc, job[q].seen, @)]
    /\ Go(q, "ok")
    /\ UNCHANGED <<transactions, categories, mapping, imports, past, failuresLeft, mix>>

InsertTemplate(q) ==
    /\ At(q, {"createTemplate", "saveAsTemplate"}, "save")
    /\ LET d == job[q].doc IN templates' = Added(templates, q, NewTemplate(d.type, d.category))
    /\ Go(q, "ok")
    /\ UNCHANGED <<transactions, categories, mapping, imports, past, failuresLeft, mix>>

\* Mutant: the count is saved as it was loaded.
UsageAfterNone(q) == job[q].seen.usage

\* One more than when the template was loaded.
UsageAfter(q) == job[q].seen.usage + 1

CountUsage(q) ==
    /\ job[q].step = "count"
    /\ templates' = [templates EXCEPT ![job[q].target].usage = UsageAfter(q)]
    /\ Go(q, "ok")
    /\ UNCHANGED <<transactions, categories, mapping, imports, past, failuresLeft, mix>>

-----------------------------------------------------------------------------
\* The database fails, or the process dies, before the request's next step.
Fail(q) ==
    /\ Running(q) /\ failuresLeft > 0
    /\ failuresLeft' = failuresLeft - 1
    /\ Go(q, "failed")
    /\ UNCHANGED <<stored, past, mix>>

\* The stored transactions have a receipt that was scanned, with or without a suggestion.
Init ==
    /\ \E c \in Categories \cup {None} :
          transactions = [t \in Stored |-> [NewTransaction("expense", None) EXCEPT
                                !.receipt = t, !.scanned = t, !.suggested = c]]
    /\ templates = [p \in StoredTemplates |-> NewTemplate("expense", None)]
    /\ categories = Categories
    /\ mapping = [state |-> "none", category |-> None]
    /\ imports = [q \in Requests |-> NoImport]
    /\ job = [q \in Requests |-> Idle] /\ past = [q \in Requests |-> {}]
    /\ failuresLeft = MaxFailures
    /\ mix \in Mixes

Next ==
    \/ \E q \in Requests :
          \/ Arrive(q) \/ Load(q) \/ ValidateCategory(q) \/ Save(q) \/ Insert(q)
          \/ FindAll(q) \/ DeleteAll(q) \/ LoadOriginal(q) \/ SaveCopy(q)
          \/ StoreFile(q) \/ Suggest(q) \/ Override(q) \/ Learn(q) \/ InsertMapping(q)
          \/ OpenImport(q) \/ Parse(q) \/ MapNames(q) \/ FailRow(q) \/ SaveRow(q)
          \/ CloseImport(q) \/ CatchImport(q)
          \/ LoadTemplate(q) \/ SaveTemplate(q) \/ InsertTemplate(q) \/ CountUsage(q)
          \/ Fail(q)
    \/ \E c \in Categories : \/ AddCategory(c) \/ RemoveCategory(c)
                             \/ CreateMapping(c) \/ UpdateMapping(c)
    \/ RemoveMapping

Spec == Init /\ [][Next]_vars

-----------------------------------------------------------------------------
(* Properties                                                              *)

\* Documents, mapping and requests are well formed; copies are named by their requests.
TypeOK ==
    /\ DOMAIN transactions \subseteq Ids
    /\ \A t \in DOMAIN transactions : transactions[t] \in Transaction
    /\ DOMAIN templates \subseteq TemplateIds
    /\ \A p \in DOMAIN templates : templates[p] \in Template
    /\ categories \subseteq Categories
    /\ mapping \in Mapping /\ (mapping.state # "none" => mapping.category # None)
    /\ imports \in [Requests -> Import]
    /\ job \in [Requests -> Job] /\ past \in [Requests -> SUBSET Requests]
    /\ failuresLeft \in 0..MaxFailures /\ mix \in Mixes

Overlap(q, r) == q # r /\ q \notin past[r] /\ r \notin past[q]

\* An update gave the template p another type and left its category unchecked.
TypeAlone(p) ==
    \E q \in Requests : /\ job[q].kind = "updateTemplate" /\ job[q].target = p
                        /\ "category" \in job[q].keeps /\ "type" \notin job[q].keeps

\* A transaction or a template has a category of its own type, unless an import or the
\* client of an apply chose one, or two requests that overlapped changed one document: each
\* checks the type or the category it read (validateCategoryRelationship), and saves only
\* its own field.  The template of an update that brings a type and no category may not
\* fit; no transaction is ever made from it, as its use checks it again.
CategoryFits ==
    \/ /\ \A t \in DOMAIN transactions : Fits(transactions[t])
       /\ \A p \in DOMAIN templates : Fits(templates[p]) \/ TypeAlone(p)
    \/ \E q \in Requests : \/ job[q].kind = "apply" /\ job[q].category # None
                           \/ job[q].kind = "import"
    \/ \E q, r \in Requests :
          /\ Overlap(q, r) /\ job[q].target = job[r].target
          /\ {job[q].kind, job[r].kind} \subseteq {"update", "apply", "updateTemplate"}

\* A template counts the transactions that were made from it and the client's own
\* increments; it counts fewer only if two of the requests overlapped (the count is read
\* and written back) or one was cut off between the transaction and the count.
UsesCounted ==
    \A p \in DOMAIN templates :
        LET uses == {q \in Requests : job[q].target = p /\
                        \/ job[q].kind = "fromTemplate" /\ <<q, 1>> \in DOMAIN transactions
                        \/ job[q].kind = "incrementUsage" /\ job[q].step = "ok"}
        IN  /\ templates[p].usage <= Cardinality(uses)
            /\ templates[p].usage < Cardinality(uses) =>
                  \E q \in uses : job[q].step # "ok" \/ \E r \in uses : Overlap(q, r)

\* The history of an import tells what it did: its counts are those of the rows when it is
\* completed, "processing" that it is at work or was cut off, and "failed" that no row was
\* saved, unless all were and the closing save was the one that failed.
ImportAccounted ==
    \A q \in Requests :
        LET saved == {n \in 1..MaxCopies : <<q, n>> \in DOMAIN transactions}
            h == imports[q]
        IN  job[q].kind = "import" =>
            /\ h.status \in {"completed", "failed"} => h.imported = Cardinality(saved)
            /\ h.status = "completed" => h.imported + h.failed = MaxCopies
            /\ h.status = "processing" => Running(q) \/ job[q].step = "failed"
            /\ h.status = "failed" /\ saved # {} =>
                  h.imported + h.failed = MaxCopies /\ failuresLeft < MaxFailures

\* What a discard has cleared does not come back, but by an extraction that was not over
\* before it: saves of other requests do not write the OCR data they loaded.
DiscardStands ==
    \A d \in Requests : job[d].kind = "discard" /\ job[d].step = "ok" =>
        LET t == transactions[job[d].target]
        IN  t.scanned # None \/ t.suggested # None =>
                \E x \in Requests \ past[d] : job[x].kind = "extract"
                                              /\ job[x].target = job[d].target

\* A deleted transaction is changed (other than restored) only by a request that overlaps
\* the one that deleted it: every later request is told that it does not exist.
DeletedUntouched ==
    [][\A t \in DOMAIN transactions :
          transactions[t].deleted /\ transactions'[t] # transactions[t]
                                  /\ transactions'[t].deleted =>
             \E q, d \in Requests :
                /\ Overlap(q, d) /\ job[q].target = t /\ Running(q)
                /\ job[d].kind \in {"remove", "bulkDelete"}
                /\ (job[d].target = t \/ t \in job[d].todo)]_vars

\* A mapping that was removed blocks its merchant's name for good: neither create nor what
\* is learned from receipts brings one back, as the index knows no deletedAt.
RemovedMappingStays == [][mapping.state = "deleted" => mapping'.state = "deleted"]_vars
=============================================================================
