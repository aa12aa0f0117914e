---------------------------- MODULE FilterPresets ----------------------------
(***************************************************************************)
(* One user's filter presets (FinanceFilterPresetsService) and which of    *)
(* them is the default.  Making a preset the default is three awaits: load *)
(* it, unset all the others with one updateMany, save it.  updateMany is   *)
(* not filtered by the soft-delete plugin, so it reaches deleted ones too. *)
(***************************************************************************)
EXTENDS Naturals, FiniteSets

CONSTANTS
    Presets,        \* identifiers of preset documents
    Requests,       \* HTTP requests of the user in flight at the same time
    None,           \* no preset
    MaxRequests,    \* bound: requests served in one behaviour
    MaxFailures     \* bound: writes that fail

ASSUME NoneAssumption == None \notin Presets
ASSUME BoundsAssumption == MaxRequests \in Nat /\ MaxFailures \in Nat

VARIABLES
    stored,     \* which documents exist (soft-deleted ones still do)
    docs,       \* their fields
    job,        \* what each request awaits
    requestsLeft, failuresLeft,
    wanted,     \* history: the default by the last request answered
    causes      \* history: what may have upset the default

boundVars == <<requestsLeft, failuresLeft>>
vars == <<stored, docs, job, requestsLeft, failuresLeft, wanted, causes>>

-----------------------------------------------------------------------------
Doc == [isDefault : BOOLEAN, deletedAt : BOOLEAN]
BlankDoc == [isDefault |-> FALSE, deletedAt |-> FALSE]

\* What a request awaits: the updateMany that unsets the others, the save that makes its
\* preset the default, the insertion of a new default, another save, the deletion of many.
Setting == {"clear", "saveDefault", "insert"}
Ops == Setting \cup {"idle", "save", "deleteMany"}

\* `asked` is what the request says of the default.
Job == [op : Ops, preset : Presets \cup {None}, ids : SUBSET Presets,
        loaded : Doc, mine : Doc, asked : {"set", "unset", "keep"}]

Idle == [op |-> "idle", preset |-> None, ids |-> {}, loaded |-> BlankDoc, mine |-> BlankDoc,
         asked |-> "keep"]

Visible(p) == p \in stored /\ ~docs[p].deletedAt
Deleted(p) == p \in stored /\ docs[p].deletedAt

\* Document.save: $set of the paths that the handler changed.
SaveModified(current, loaded, mine) ==
    [f \in {"isDefault", "deletedAt"} |->
        IF mine[f] # loaded[f] THEN mine[f] ELSE current[f]]

Setters == {r \in Requests : job[r].op \in Setting}

\* Requests whose answer depends on who is the default, and that change it or delete.
Others == {r \in Requests : \/ job[r].op = "deleteMany"
                            \/ job[r].op = "save" /\ job[r].mine # job[r].loaded
                            \/ job[r].asked = "unset"}

\* Request r has made its checks and awaits its first write.
Start(r, j) ==
    /\ job[r].op = "idle"
    /\ requestsLeft > 0 /\ requestsLeft' = requestsLeft - 1
    /\ job' = [job EXCEPT ![r] = j]
    /\ causes' = causes
          \cup (IF Setters # {} /\ Setters' # Setters THEN {"twoSetters"} ELSE {})
          \cup (IF Setters' # {} /\ Others' # {} THEN {"stale"} ELSE {})
    /\ UNCHANGED <<stored, docs, failuresLeft, wanted>>

Finish(r) == job' = [job EXCEPT ![r] = Idle]

Change(op, p, mine) ==
    [Idle EXCEPT !.op = op, !.preset = p, !.loaded = docs[p], !.mine = mine]

-----------------------------------------------------------------------------
(* Requests: the checks, up to the first write                             *)

MakeDefault(p) ==
    [Change("clear", p, [docs[p] EXCEPT !.isDefault = TRUE]) EXCEPT !.asked = "set"]

SetDefault(r, p) == Visible(p) /\ Start(r, MakeDefault(p))

\* isDefault as Object.assign leaves it: a body without the field does not touch it.
Assigned(p, asked) == IF asked = "keep" THEN docs[p].isDefault ELSE asked = "set"

\* Mutant: the others keep their default.
UpdatedWithoutClear(p, asked) ==
    [Change("save", p, [docs[p] EXCEPT !.isDefault = Assigned(p, asked)]) EXCEPT !.asked = asked]

UpdatedBy(p, asked) ==
    IF asked = "set" THEN MakeDefault(p)
    ELSE [Change("save", p, [docs[p] EXCEPT !.isDefault = Assigned(p, asked)])
             EXCEPT !.asked = asked]

Update(r, p) ==
    /\ Visible(p)
    /\ \E asked \in {"set", "unset", "keep"} : Start(r, UpdatedBy(p, asked))

\* Mutant: any preset may be removed.
RemoveAny(r, p) ==
    /\ Visible(p)
    /\ Start(r, Change("save", p, [docs[p] EXCEPT !.deletedAt = TRUE]))

\* The default cannot be removed.
Remove(r, p) ==
    /\ Visible(p) /\ ~docs[p].isDefault
    /\ Start(r, Change("save", p, [docs[p] EXCEPT !.deletedAt = TRUE]))

\* Mutant: deletedAt is set to no date instead of null.
RestoreToNone(r, p) ==
    /\ Deleted(p)
    /\ Start(r, Change("save", p, [docs[p] EXCEPT !.deletedAt = None]))

Restore(r, p) ==
    /\ Deleted(p)
    /\ Start(r, Change("save", p, [docs[p] EXCEPT !.deletedAt = FALSE]))

BulkDelete(r) ==
    \E ids \in SUBSET Presets \ {{}} :
        /\ \A p \in ids : Visible(p) => ~docs[p].isDefault
        /\ Start(r, [Idle EXCEPT !.op = "deleteMany", !.ids = ids])

\* A new preset that is not the default is one insertion; a new default unsets all first.
CreatePlain(p) ==
    /\ p \notin stored
    /\ requestsLeft > 0 /\ requestsLeft' = requestsLeft - 1
    /\ stored' = stored \cup {p}
    /\ docs' = [docs EXCEPT ![p] = BlankDoc]
    /\ UNCHANGED <<job, failuresLeft, wanted, causes>>

CreateDefault(r) == Start(r, [Idle EXCEPT !.op = "clear"])

-----------------------------------------------------------------------------
(* The writes                                                              *)

ClearOthers(r) ==
    LET p == job[r].preset
    IN  /\ job[r].op = "clear"
        /\ docs' = [q \in Presets |-> IF q \in stored /\ q # p
                                      THEN [docs[q] EXCEPT !.isDefault = FALSE] ELSE docs[q]]
        /\ job' = [job EXCEPT ![r].op = IF p = None THEN "insert" ELSE "saveDefault"]
        /\ UNCHANGED <<stored, boundVars, wanted, causes>>

InsertDefault(r) ==
    /\ job[r].op = "insert"
    /\ \E p \in Presets \ stored :
          /\ stored' = stored \cup {p}
          /\ docs' = [docs EXCEPT ![p] = [BlankDoc EXCEPT !.isDefault = TRUE]]
          /\ wanted' = p
    /\ Finish(r)
    /\ UNCHANGED <<boundVars, causes>>

Save(r) ==
    LET j == job[r]
    IN  /\ j.op \in {"saveDefault", "save"}
        /\ docs' = [docs EXCEPT ![j.preset] = SaveModified(@, j.loaded, j.mine)]
        /\ Finish(r)
        /\ wanted' = CASE j.asked = "set"                            -> j.preset
                       [] j.asked = "unset" /\ wanted = j.preset     -> None
                       [] OTHER                                      -> wanted
        /\ UNCHANGED <<stored, boundVars, causes>>

\* bulkSoftDelete: one updateMany over the visible ones among the ids.
DeleteMany(r) ==
    /\ job[r].op = "deleteMany"
    /\ docs' = [p \in Presets |-> IF p \in job[r].ids /\ Visible(p)
                                  THEN [docs[p] EXCEPT !.deletedAt = TRUE] ELSE docs[p]]
    /\ Finish(r)
    /\ UNCHANGED <<stored, boundVars, wanted, causes>>

\* A write throws (the database, or a save that the schema rejects), or the process dies:
\* what the request has written stays.
Fail(r) ==
    /\ job[r].op # "idle"
    /\ failuresLeft > 0 /\ failuresLeft' = failuresLeft - 1
    /\ Finish(r)
    /\ causes' = causes \cup (IF job[r].op \in {"saveDefault", "insert"}
                              THEN {"halfway"} ELSE {})
    /\ UNCHANGED <<stored, docs, requestsLeft, wanted>>

-----------------------------------------------------------------------------
Init ==
    /\ stored = {}
    /\ docs = [p \in Presets |-> BlankDoc]
    /\ job = [r \in Requests |-> Idle]
    /\ requestsLeft = MaxRequests /\ failuresLeft = MaxFailures
    /\ wanted = None
    /\ causes = {}

Request(r) ==
    \/ CreateDefault(r) \/ BulkDelete(r)
    \/ \E p \in Presets : SetDefault(r, p) \/ Update(r, p) \/ Remove(r, p) \/ Restore(r, p)

Answer(r) == ClearOthers(r) \/ InsertDefault(r) \/ Save(r) \/ DeleteMany(r)

Next ==
    \/ \E p \in Presets : CreatePlain(p)
    \/ \E r \in Requests : Request(r) \/ Answer(r) \/ Fail(r)

Spec == Init /\ [][Next]_vars

-----------------------------------------------------------------------------
(* Properties                                                              *)

TypeOK ==
    /\ stored \subseteq Presets
    /\ docs \in [Presets -> Doc]
    /\ job \in [Requests -> Job]
    /\ requestsLeft \in Nat /\ failuresLeft \in Nat
    /\ wanted \in Presets \cup {None}
    /\ causes \subseteq {"twoSetters", "stale", "halfway"}

Defaults == {p \in stored : docs[p].isDefault}

\* Whatever fails, is deleted or restored, a user gets a second default only from two
\* requests that set one at the same time.
OneDefault == "twoSetters" \notin causes => \A p, q \in Defaults : p = q

\* When the requests that set a default ran neither together nor together with one that
\* unsets or deletes, and none of them failed half-way, the default is the one that was
\* asked for last, and it is not a deleted preset.
AnswerStands ==
    (causes = {} /\ Setters = {}) => {p \in Defaults : Visible(p)} = {wanted} \ {None}

=============================================================================
