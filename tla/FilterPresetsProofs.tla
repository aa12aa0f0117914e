------------------------- MODULE FilterPresetsProofs -------------------------
(***************************************************************************)
(* What holds of the default preset for every set of presets and requests. *)
(***************************************************************************)
EXTENDS FilterPresets, TLAPS

-----------------------------------------------------------------------------
(* Jobs and documents keep their types                                     *)

LEMMA BlankTypes == BlankDoc \in Doc /\ Idle \in Job
  BY DEF BlankDoc, Doc, Idle, Job, Ops, Setting

LEMMA WrittenType ==
  ASSUME NEW current \in Doc, NEW loaded \in Doc, NEW mine \in Doc
  PROVE  SaveModified(current, loaded, mine) \in Doc
<1> DEFINE value(f) == IF mine[f] # loaded[f] THEN mine[f] ELSE current[f]
<1>1. value("isDefault") \in BOOLEAN /\ value("deletedAt") \in BOOLEAN
  BY DEF Doc
<1>2. SaveModified(current, loaded, mine)
        = [isDefault |-> value("isDefault"), deletedAt |-> value("deletedAt")]
  BY DEF SaveModified
<1> HIDE DEF value
<1>3. QED
  BY <1>1, <1>2 DEF Doc

\* A save makes a preset the default only when its handler did.
LEMMA WrittenDefault ==
  ASSUME NEW current \in Doc, NEW loaded \in Doc, NEW mine \in Doc,
         SaveModified(current, loaded, mine).isDefault
  PROVE  current.isDefault \/ (mine.isDefault /\ ~loaded.isDefault)
  BY DEF SaveModified, Doc

LEMMA ChangeType ==
  ASSUME NEW op \in Ops, NEW p \in Presets, docs \in [Presets -> Doc], NEW mine \in Doc
  PROVE  /\ Change(op, p, mine) \in Job /\ Change(op, p, mine).asked = "keep"
         /\ Change(op, p, mine).op = op /\ Change(op, p, mine).preset = p
         /\ Change(op, p, mine).mine = mine /\ Change(op, p, mine).loaded = docs[p]
  BY BlankTypes DEF Change, Job, Idle

LEMMA StartType ==
  ASSUME TypeOK, NEW r \in Requests, NEW j \in Job, Start(r, j)
  PROVE  TypeOK'
  BY DEF TypeOK, Start

LEMMA FinishType ==
  ASSUME TypeOK, NEW r \in Requests, Finish(r)
  PROVE  job' \in [Requests -> Job]
  BY BlankTypes DEF Finish, TypeOK

\* What a request may start with: its preset exists, and only a job of Setting makes a
\* default of one that was none.
Fit(j) ==
    /\ j.op \in {"save", "saveDefault"} => j.preset \in Presets
    /\ j.op = "save" => (j.mine.isDefault => j.loaded.isDefault)
    /\ j.op = "insert" => j.preset = None

\* What a request says of the default goes with the changes of its handler.
Shaped(j) ==
    /\ j.op = "save" => j.asked \in {"unset", "keep"} /\ j.preset \in Presets
    /\ j.op = "save" /\ j.asked = "keep" => j.mine.isDefault = j.loaded.isDefault
    /\ j.asked = "unset" => j.op = "save" /\ ~j.mine.isDefault
    /\ j.op \in Setting /\ j.preset # None =>
          j.asked = "set" /\ j.mine.isDefault /\ j.mine.deletedAt = j.loaded.deletedAt
    /\ j.op = "saveDefault" => j.preset # None

\* A request as it has made its checks.
Checked(j) ==
    /\ j.op \in {"clear", "save"} /\ j.preset # None => j.loaded = docs[j.preset]
    /\ j.op = "clear" /\ j.preset # None => Visible(j.preset)
    /\ j.op = "save" /\ j.mine.deletedAt /\ ~j.loaded.deletedAt => ~docs[j.preset].isDefault
    /\ j.op = "deleteMany" => \A p \in j.ids : Visible(p) => ~docs[p].isDefault

\* Setting a default begins with the updateMany.
Fresh(j) == Fit(j) /\ j.op \notin {"saveDefault", "insert"} /\ Shaped(j) /\ Checked(j)

LEMMA MakeDefaultFit ==
  ASSUME TypeOK, NEW p \in Presets, Visible(p)
  PROVE  MakeDefault(p) \in Job /\ Fresh(MakeDefault(p))
<1> DEFINE mine == [docs[p] EXCEPT !.isDefault = TRUE]
           j == Change("clear", p, mine)
           new == [j EXCEPT !.asked = "set"]
<1>1. mine \in Doc /\ mine.isDefault /\ mine.deletedAt = docs[p].deletedAt
  BY DEF TypeOK, Doc
<1> HIDE DEF mine
<1>2. j \in Job /\ j.op = "clear" /\ j.preset = p /\ j.mine = mine /\ j.loaded = docs[p]
  BY <1>1, ChangeType DEF TypeOK, Ops, Setting
<1> HIDE DEF j
<1>3. /\ new \in Job /\ new.op = "clear" /\ new.preset = p /\ new.mine = mine
      /\ new.loaded = docs[p] /\ new.asked = "set"
  BY <1>2 DEF Job
<1>4. MakeDefault(p) = new
  BY DEF MakeDefault, j, mine
<1> HIDE DEF new
<1>5. QED
  BY <1>1, <1>3, <1>4 DEF Fresh, Fit, Shaped, Checked

LEMMA UpdatedFit ==
  ASSUME TypeOK, NEW p \in Presets, Visible(p), NEW asked \in {"set", "unset", "keep"}
  PROVE  UpdatedBy(p, asked) \in Job /\ Fresh(UpdatedBy(p, asked))
<1> DEFINE mine == [docs[p] EXCEPT !.isDefault = Assigned(p, asked)]
           j == Change("save", p, mine)
           new == [j EXCEPT !.asked = asked]
<1>1. CASE asked = "set"
  BY <1>1, MakeDefaultFit DEF UpdatedBy
<1>2. CASE asked # "set"
  <2>1. /\ Assigned(p, asked) \in BOOLEAN
        /\ Assigned(p, asked) => docs[p].isDefault
        /\ asked = "unset" => ~Assigned(p, asked)
        /\ asked = "keep" => Assigned(p, asked) = docs[p].isDefault
    BY <1>2 DEF Assigned, TypeOK, Doc
  <2>2. mine \in Doc /\ mine.isDefault = Assigned(p, asked)
        /\ mine.deletedAt = docs[p].deletedAt
    BY <2>1 DEF TypeOK, Doc
  <2> HIDE DEF mine
  <2>3. j \in Job /\ j.op = "save" /\ j.preset = p /\ j.mine = mine /\ j.loaded = docs[p]
    <3>1. "save" \in Ops /\ docs \in [Presets -> Doc] /\ mine \in Doc
      BY <2>2 DEF TypeOK, Ops
    <3>2. QED
      BY <3>1, ChangeType
  <2> HIDE DEF j
  <2>4. /\ new \in Job /\ new.op = "save" /\ new.preset = p /\ new.mine = mine
        /\ new.loaded = docs[p] /\ new.asked = asked
    BY <2>3 DEF Job
  <2>5. UpdatedBy(p, asked) = new
    BY <1>2 DEF UpdatedBy, j, mine
  <2> HIDE DEF new
  <2>6. QED
    BY <1>2, <2>1, <2>2, <2>4, <2>5 DEF Fresh, Fit, Shaped, Checked, Setting
<1>3. QED
  BY <1>1, <1>2

LEMMA SaveFit ==
  ASSUME TypeOK, NEW p \in Presets, NEW deleted \in BOOLEAN, deleted => ~docs[p].isDefault,
         NEW j, j = Change("save", p, [docs[p] EXCEPT !.deletedAt = deleted])
  PROVE  j \in Job /\ Fresh(j)
<1> DEFINE mine == [docs[p] EXCEPT !.deletedAt = deleted]
<1>1. mine \in Doc /\ mine.isDefault = docs[p].isDefault /\ mine.deletedAt = deleted
  BY DEF TypeOK, Doc
<1> HIDE DEF mine
<1>2. /\ "save" \in Ops /\ docs \in [Presets -> Doc]
      /\ j = Change("save", p, mine)
  BY DEF Ops, TypeOK, mine
<1>3. /\ j \in Job /\ j.asked = "keep" /\ j.op = "save" /\ j.preset = p
      /\ j.mine = mine /\ j.loaded = docs[p]
  BY <1>1, <1>2, ChangeType
<1>4. QED
  BY <1>1, <1>3 DEF Fresh, Fit, Shaped, Checked, Setting

-----------------------------------------------------------------------------
(* The steps of a request: one that starts, and those that write           *)

LEMMA RequestStarts ==
  ASSUME TypeOK, NEW r \in Requests, Request(r)
  PROVE  \E j \in Job : Fresh(j) /\ Start(r, j)
<1>1. CASE CreateDefault(r)
  BY <1>1, BlankTypes DEF CreateDefault, Fresh, Fit, Shaped, Checked, Job, Ops, Setting, Idle
<1>2. CASE BulkDelete(r)
  <2>1. PICK ids \in SUBSET Presets :
            /\ \A p \in ids : Visible(p) => ~docs[p].isDefault
            /\ Start(r, [Idle EXCEPT !.op = "deleteMany", !.ids = ids])
    BY <1>2 DEF BulkDelete
  <2> DEFINE j == [Idle EXCEPT !.op = "deleteMany", !.ids = ids]
  <2>2. j \in Job /\ j.op = "deleteMany" /\ j.ids = ids /\ j.asked = "keep"
    BY BlankTypes DEF Job, Ops, Idle
  <2> HIDE DEF j
  <2>3. Fresh(j)
    BY <2>1, <2>2 DEF Fresh, Fit, Shaped, Checked, Setting
  <2>4. QED
    BY <2>1, <2>2, <2>3 DEF j
<1>3. ASSUME NEW p \in Presets, SetDefault(r, p) \/ Update(r, p) \/ Remove(r, p) \/ Restore(r, p)
      PROVE  \E j \in Job : Fresh(j) /\ Start(r, j)
  <2>1. CASE SetDefault(r, p)
    BY <2>1, MakeDefaultFit DEF SetDefault
  <2>2. CASE Update(r, p)
    BY <2>2, UpdatedFit DEF Update
  <2>3. CASE Remove(r, p)
    BY <2>3, SaveFit DEF Remove
  <2>4. CASE Restore(r, p)
    BY <2>4, SaveFit DEF Restore
  <2>5. QED
    BY <1>3, <2>1, <2>2, <2>3, <2>4
<1>4. QED
  BY <1>1, <1>2, <1>3 DEF Request

\* The jobs of all requests are fit, and a default that is about to be set finds no other.
Alone ==
    /\ \A q, r \in Setters : q = r
    /\ \A p, q \in Defaults : p = q
    /\ \A r \in Setters : job[r].op # "clear" => Defaults \subseteq {job[r].preset}

IInv ==
    /\ TypeOK
    /\ \A r \in Requests : Fit(job[r])
    /\ "twoSetters" \notin causes => Alone

LEMMA InvInit == Init => IInv
<1> SUFFICES ASSUME Init PROVE IInv
  OBVIOUS
<1>1. TypeOK
  BY BlankTypes, BoundsAssumption DEF Init, TypeOK
<1>2. \A r \in Requests : Fit(job[r]) /\ job[r].op = "idle"
  BY DEF Init, Fit, Idle
<1>3. Setters = {} /\ Defaults = {}
  BY <1>2 DEF Init, Setters, Setting, Defaults
<1>4. QED
  BY <1>1, <1>2, <1>3 DEF IInv, Alone

\* Starting a request.  Unless two setters met, a setter that starts is the only one.
LEMMA RequestInv == ASSUME IInv, NEW r \in Requests, Request(r)  PROVE IInv'
<1>1. PICK j \in Job : Fresh(j) /\ Start(r, j)
  BY RequestStarts DEF IInv
<1>2. TypeOK'
  BY <1>1, StartType DEF IInv
<1>3. \A q \in Requests : job'[q] = IF q = r THEN j ELSE job[q]
  BY <1>1 DEF Start, IInv, TypeOK
<1>4. \A q \in Requests : Fit(job[q])'
  BY <1>1, <1>3 DEF IInv, Fresh, Fit
<1>5. ASSUME "twoSetters" \notin causes'  PROVE Alone'
  <2>1. Alone /\ Defaults' = Defaults
    BY <1>1, <1>5 DEF Start, IInv, Defaults
  <2>2. Setters = {} \/ Setters' = Setters
    BY <1>1, <1>5 DEF Start
  <2>3. r \notin Setters
    BY <1>1 DEF Start, Setters, Setting
  <2>4. CASE Setters' = Setters
    BY <2>1, <2>3, <2>4, <1>3 DEF Alone, Setters
  <2>5. CASE Setters = {}
    <3>1. Setters' \subseteq {r}
      BY <1>3, <2>5 DEF Setters
    <3>2. r \in Setters' => j.op = "clear"
      BY <1>1, <1>3 DEF Setters, Setting, Fresh
    <3>3. QED
      BY <2>1, <3>1, <3>2, <1>3 DEF Alone, Setters
  <2>6. QED
    BY <2>2, <2>4, <2>5
<1>6. QED
  BY <1>2, <1>4, <1>5 DEF IInv

\* The writes.
LEMMA ClearOthersInv == ASSUME IInv, NEW r \in Requests, ClearOthers(r)  PROVE IInv'
<1> DEFINE next == IF job[r].preset = None THEN "insert" ELSE "saveDefault"
<1>1. /\ job[r].op = "clear" /\ r \in Setters
      /\ job' = [job EXCEPT ![r].op = next]
      /\ job[r] \in Job
  BY DEF ClearOthers, Setters, Setting, IInv, TypeOK
<1>2. [job[r] EXCEPT !.op = next] \in Job
  BY <1>1 DEF Job, Ops, Setting
<1>3. \A q \in Requests : job'[q] = IF q = r THEN [job[r] EXCEPT !.op = next] ELSE job[q]
  BY <1>1 DEF IInv, TypeOK
<1>4. docs' \in [Presets -> Doc]
      /\ \A p \in stored : docs'[p].isDefault => p = job[r].preset /\ docs[p].isDefault
  BY DEF ClearOthers, IInv, TypeOK, Doc
<1>5. TypeOK'
  <2>1. job' \in [Requests -> Job]
    BY <1>1, <1>2, <1>3 DEF IInv, TypeOK
  <2>2. QED
    BY <2>1, <1>4 DEF ClearOthers, IInv, TypeOK, boundVars
<1>6. \A q \in Requests : Fit(job[q])'
  <2>1. Fit([job[r] EXCEPT !.op = next])
    BY <1>1 DEF Fit, Job
  <2>2. QED
    BY <2>1, <1>3 DEF IInv, Fit
<1>7. ASSUME "twoSetters" \notin causes'  PROVE Alone'
  <2>1. Alone
    BY <1>7 DEF ClearOthers, IInv
  <2>2. Setters = {r}
    BY <1>1, <2>1 DEF Alone
  <2>3. Setters' \subseteq {r}
    BY <1>3, <2>2 DEF Setters
  <2>4. job'[r].preset = job[r].preset
    BY <1>1, <1>3 DEF Job
  <2>5. Defaults' \subseteq {job[r].preset}
    BY <1>4 DEF Defaults, ClearOthers
  <2>6. QED
    BY <2>3, <2>4, <2>5 DEF Alone
<1>8. QED
  BY <1>5, <1>6, <1>7 DEF IInv

\* A request that ends: what it leaves behind is a lone default.
LEMMA FinishInv ==
  ASSUME IInv, TypeOK', NEW r \in Requests, Finish(r), causes \subseteq causes',
         "twoSetters" \notin causes =>
             /\ \A p, q \in Defaults' : p = q
             /\ \A q \in Setters \ {r} : Defaults' \subseteq Defaults
  PROVE  IInv'
<1>1. \A q \in Requests : job'[q] = IF q = r THEN Idle ELSE job[q]
  BY DEF Finish, IInv, TypeOK
<1>2. Fit(Idle) /\ Idle.op \notin Setting
  BY DEF Fit, Idle, Setting
<1>3. \A q \in Requests : Fit(job[q])'
  BY <1>1, <1>2 DEF IInv, Fit
<1>4. Setters' = Setters \ {r}
  BY <1>1, <1>2 DEF Setters
<1>5. ASSUME "twoSetters" \notin causes'  PROVE Alone'
  <2>1. "twoSetters" \notin causes
    BY <1>5
  <2>2. Alone
    BY <2>1 DEF IInv
  <2>3. \A q \in Setters' : job'[q] = job[q] /\ q \in Setters \ {r}
    BY <1>1, <1>4 DEF Setters
  <2>4. \A q, t \in Setters' : q = t
    BY <2>2, <2>3 DEF Alone
  <2>5. \A q \in Setters' : job'[q].op # "clear" => Defaults' \subseteq {job'[q].preset}
    BY <2>1, <2>2, <2>3 DEF Alone
  <2>6. QED
    BY <2>1, <2>4, <2>5 DEF Alone
<1>6. QED
  BY <1>3, <1>5 DEF IInv

LEMMA InsertDefaultInv == ASSUME IInv, NEW r \in Requests, InsertDefault(r)  PROVE IInv'
<1>1. PICK p \in Presets \ stored :
          /\ stored' = stored \cup {p}
          /\ docs' = [docs EXCEPT ![p] = [BlankDoc EXCEPT !.isDefault = TRUE]]
          /\ wanted' = p
  BY DEF InsertDefault
<1>2. Finish(r) /\ UNCHANGED <<boundVars, causes>> /\ job[r].op = "insert" /\ r \in Setters
  BY DEF InsertDefault, Setters, Setting
<1>3. [BlankDoc EXCEPT !.isDefault = TRUE] \in Doc
  BY DEF BlankDoc, Doc
<1>4. TypeOK'
  BY <1>1, <1>2, <1>3, FinishType DEF IInv, TypeOK, boundVars
<1>5. Defaults' \subseteq Defaults \cup {p}
  BY <1>1 DEF Defaults, IInv, TypeOK
<1>6. ASSUME "twoSetters" \notin causes
      PROVE  Defaults = {} /\ Setters = {r}
  <2>1. Alone /\ Fit(job[r])
    BY <1>6 DEF IInv
  <2>2. Defaults \subseteq {None} /\ Setters = {r}
    BY <1>2, <2>1 DEF Alone, Fit
  <2>3. QED
    BY <2>2, NoneAssumption DEF Defaults, IInv, TypeOK
<1>7. QED
  BY <1>2, <1>4, <1>5, <1>6, FinishInv

LEMMA SaveInv == ASSUME IInv, NEW r \in Requests, Save(r)  PROVE IInv'
<1> DEFINE j == job[r]
<1>1. j \in Job /\ j.op \in {"saveDefault", "save"} /\ Fit(j) /\ Finish(r)
      /\ causes \subseteq causes' /\ j.preset \in Presets
  BY DEF Save, IInv, TypeOK, Fit
<1>2. j.loaded \in Doc /\ j.mine \in Doc
  BY <1>1 DEF Job
<1>3. docs' = [docs EXCEPT ![j.preset] = SaveModified(docs[j.preset], j.loaded, j.mine)]
  BY DEF Save
<1>4. SaveModified(docs[j.preset], j.loaded, j.mine) \in Doc
  BY <1>1, <1>2, WrittenType DEF IInv, TypeOK
<1>5. TypeOK'
  BY <1>1, <1>3, <1>4, FinishType DEF Save, IInv, TypeOK, boundVars
<1>6. Defaults' \subseteq Defaults \cup {j.preset}
  BY <1>3 DEF Defaults, Save, IInv, TypeOK
<1>7. CASE j.op = "save"
  <2>1. SaveModified(docs[j.preset], j.loaded, j.mine).isDefault => docs[j.preset].isDefault
    BY <1>1, <1>2, <1>7, WrittenDefault DEF Fit, IInv, TypeOK
  <2>2. Defaults' \subseteq Defaults
    BY <1>1, <1>3, <2>1 DEF Defaults, Save, IInv, TypeOK
  <2>3. "twoSetters" \notin causes => \A p, q \in Defaults : p = q
    BY DEF IInv, Alone
  <2>4. QED
    BY <1>1, <1>5, <2>2, <2>3, FinishInv
<1>8. CASE j.op = "saveDefault"
  <2>1. r \in Setters
    BY <1>8 DEF Setters, Setting
  <2>2. ASSUME "twoSetters" \notin causes
        PROVE  Defaults \subseteq {j.preset} /\ Setters = {r}
    BY <2>1, <2>2, <1>8 DEF IInv, Alone
  <2>3. QED
    BY <1>1, <1>5, <1>6, <2>2, FinishInv
<1>9. QED
  BY <1>1, <1>7, <1>8

LEMMA DeleteManyInv == ASSUME IInv, NEW r \in Requests, DeleteMany(r)  PROVE IInv'
<1>1. docs' \in [Presets -> Doc]
      /\ \A p \in Presets : docs'[p].isDefault = docs[p].isDefault
  BY DEF DeleteMany, IInv, TypeOK, Doc
<1>2. TypeOK' /\ Finish(r) /\ causes' = causes
  BY <1>1, FinishType DEF DeleteMany, IInv, TypeOK, boundVars
<1>3. Defaults' = Defaults
  BY <1>1 DEF Defaults, DeleteMany, IInv, TypeOK
<1>4. QED
  BY <1>2, <1>3, FinishInv DEF IInv, Alone

\* A request that ends without writing.
LEMMA GiveUpInv ==
  ASSUME IInv, NEW r \in Requests, Fail(r)
  PROVE  IInv'
<1>1. Finish(r) /\ causes \subseteq causes' /\ causes' \subseteq causes \cup {"halfway"}
      /\ UNCHANGED <<stored, docs, requestsLeft, wanted>>
  BY DEF Fail, boundVars
<1>2. failuresLeft' \in Nat
  BY DEF Fail, IInv, TypeOK, boundVars
<1>3. TypeOK'
  BY <1>1, <1>2, FinishType DEF IInv, TypeOK
<1>4. Defaults' = Defaults
  BY <1>1 DEF Defaults
<1>5. QED
  BY <1>1, <1>3, <1>4, FinishInv DEF IInv, Alone

LEMMA CreatePlainInv == ASSUME IInv, NEW p \in Presets, CreatePlain(p)  PROVE IInv'
<1>1. TypeOK' /\ UNCHANGED <<job, causes>>
  BY BlankTypes DEF CreatePlain, IInv, TypeOK
<1>2. Defaults' \subseteq Defaults
  BY DEF CreatePlain, Defaults, IInv, TypeOK, BlankDoc
<1>3. QED
  BY <1>1, <1>2 DEF IInv, Alone, Setters, Fit

LEMMA InvNext == IInv /\ [Next]_vars => IInv'
<1> SUFFICES ASSUME IInv, [Next]_vars  PROVE IInv'
  OBVIOUS
<1>1. ASSUME NEW p \in Presets, CreatePlain(p)  PROVE IInv'
  BY <1>1, CreatePlainInv
<1>2. ASSUME NEW r \in Requests, Request(r)  PROVE IInv'
  BY <1>2, RequestInv
<1>3. ASSUME NEW r \in Requests, Answer(r)  PROVE IInv'
  BY <1>3, ClearOthersInv, InsertDefaultInv, SaveInv, GiveUpInv, DeleteManyInv DEF Answer
<1>4. ASSUME NEW r \in Requests, Fail(r)  PROVE IInv'
  BY <1>4, GiveUpInv
<1>5. CASE UNCHANGED vars
  BY <1>5 DEF vars, IInv, TypeOK, Fit, Alone, Setters, Defaults
<1>6. QED
  BY <1>1, <1>2, <1>3, <1>4, <1>5 DEF Next

-----------------------------------------------------------------------------
(* The default that was asked for                                          *)

\* What a request has read of its preset is still so, as far as its writes depend on it.
Current(j) ==
    /\ j.op \in Setting /\ j.preset # None =>
          Visible(j.preset) /\ (j.loaded.isDefault => docs[j.preset].isDefault)
    /\ j.op = "save" /\ j.mine.deletedAt /\ ~j.loaded.deletedAt => ~docs[j.preset].isDefault
    /\ j.op = "save" /\ j.asked = "unset" => (docs[j.preset].isDefault => j.loaded.isDefault)
    /\ j.op = "deleteMany" => j.ids \cap Defaults = {}

\* Until a setter has unset the others, the default is the one that was answered last.
Answered == Defaults = {wanted} \ {None} /\ \A p \in Defaults : ~docs[p].deletedAt

Stands ==
    /\ Setters # {} => Others = {}
    /\ (\A r \in Setters : job[r].op = "clear") => Answered
    /\ \A r \in Requests : Current(job[r])

StandsInv == (\A r \in Requests : Shaped(job[r])) /\ (causes = {} => Stands)

\* Requests that set nothing and that nobody's answer depends on need know nothing.
LEMMA BystanderCurrent ==
  ASSUME IInv, NEW q \in Requests, q \notin Setters, q \notin Others
  PROVE  /\ job[q].op \notin Setting /\ job[q].op # "deleteMany" /\ job[q].asked # "unset"
         /\ job[q].op = "save" => job[q].mine = job[q].loaded
  BY DEF Setters, Others

LEMMA StandsInit == Init => StandsInv
<1> SUFFICES ASSUME Init PROVE StandsInv
  OBVIOUS
<1>1. /\ \A r \in Requests : job[r] = Idle
      /\ stored = {} /\ wanted = None
  BY Zenon DEF Init
<1>2. Setters = {} /\ Defaults = {}
  BY <1>1 DEF Setters, Setting, Defaults, Idle
<1>3. \A r \in Requests : Shaped(job[r]) /\ Current(job[r])
  BY <1>1 DEF Shaped, Current, Idle, Setting
<1>4. QED
  BY <1>1, <1>2, <1>3 DEF StandsInv, Stands, Answered

LEMMA RequestStands == ASSUME IInv, StandsInv, NEW r \in Requests, Request(r)  PROVE StandsInv'
<1>1. PICK j \in Job : Fresh(j) /\ Start(r, j)
  BY RequestStarts DEF IInv
<1>2. /\ job[r].op = "idle" /\ r \notin Setters /\ UNCHANGED <<stored, docs, wanted>>
      /\ \A q \in Requests : job'[q] = IF q = r THEN j ELSE job[q]
      /\ Defaults' = Defaults
  BY <1>1 DEF Start, IInv, TypeOK, Setters, Setting, Defaults
<1>3. \A q \in Requests : Shaped(job'[q])
  BY <1>1, <1>2 DEF StandsInv, Fresh
<1>4. ASSUME causes' = {}
      PROVE  Stands'
  <2>1. Stands /\ (Setters = {} \/ Setters' = Setters) /\ (Setters' # {} => Others' = {})
    BY <1>1, <1>4 DEF Start, StandsInv
  <2>2. ASSUME \A q \in Setters' : job'[q].op = "clear"
        PROVE  Answered
    <3>1. \A q \in Setters : job'[q] = job[q]
      BY <1>2 DEF Setters
    <3>2. QED
      BY <2>1, <2>2, <3>1 DEF Stands
  <2>3. Answered => Answered'
    BY <1>2 DEF Answered
  <2>4. ASSUME NEW q \in Requests
        PROVE  Current(job[q])'
    <3>1. CASE q # r
      BY <1>2, <2>1, <3>1 DEF Stands, Current, Visible
    <3>2. CASE q = r
      <4>1. Fresh(j) /\ job'[q] = j
        BY <1>1, <1>2, <3>2
      <4>2. j.op = "deleteMany" => j.ids \cap Defaults = {}
        <5> SUFFICES ASSUME j.op = "deleteMany"
                     PROVE  j.ids \cap Defaults = {}
          OBVIOUS
        <5>1. r \in Others'
          BY <1>2 DEF Others
        <5>2. Setters = {}
          BY <2>1, <5>1
        <5>3. Answered
          BY <2>1, <5>2 DEF Stands
        <5>4. QED
          BY <4>1, <5>3 DEF Answered, Fresh, Checked, Defaults, Visible
      <4>3. j.op \in Setting => j.op = "clear"
        BY <4>1 DEF Fresh, Setting
      <4>4. j.op = "save" => j.preset \in Presets /\ j.preset # None
        BY <4>1, NoneAssumption DEF Fresh, Shaped
      <4>5. QED
        BY <1>2, <4>1, <4>2, <4>3, <4>4 DEF Fresh, Checked, Current, Visible
    <3>3. QED
      BY <3>1, <3>2
  <2>5. QED
    BY <2>1, <2>2, <2>3, <2>4 DEF Stands
<1>5. QED
  BY <1>3, <1>4 DEF StandsInv

LEMMA ClearOthersStands ==
  ASSUME IInv, StandsInv, NEW r \in Requests, ClearOthers(r)
  PROVE  StandsInv'
<1> DEFINE next == IF job[r].preset = None THEN "insert" ELSE "saveDefault"
           new == [job[r] EXCEPT !.op = next]
<1>1. /\ job[r].op = "clear" /\ r \in Setters /\ job[r] \in Job
      /\ UNCHANGED <<stored, causes, wanted>>
      /\ docs' = [q \in Presets |-> IF q \in stored /\ q # job[r].preset
                                    THEN [docs[q] EXCEPT !.isDefault = FALSE] ELSE docs[q]]
      /\ \A q \in Requests : job'[q] = IF q = r THEN new ELSE job[q]
  BY DEF ClearOthers, Setters, Setting, IInv, TypeOK
<1>2. /\ new.op = next /\ new.preset = job[r].preset /\ new.loaded = job[r].loaded
      /\ new.mine = job[r].mine /\ new.asked = job[r].asked
  BY <1>1 DEF Job
<1>3. next \in {"insert", "saveDefault"} /\ (next = "insert" <=> job[r].preset = None)
  OBVIOUS
<1> HIDE DEF next, new
<1>4. ASSUME NEW q \in Requests
      PROVE  Shaped(job'[q])
  BY <1>1, <1>2, <1>3 DEF StandsInv, Shaped, Setting
<1>5. /\ \A p \in Presets : docs'[p].isDefault => docs[p].isDefault
      /\ \A p \in Presets : docs'[p].deletedAt = docs[p].deletedAt
      /\ job[r].preset # None => docs'[job[r].preset] = docs[job[r].preset]
  BY <1>1 DEF IInv, TypeOK, Doc, Job
<1>6. ASSUME causes' = {}
      PROVE  Stands'
  <2>1. Stands /\ Alone /\ Others = {} /\ Setters = {r}
    BY <1>1, <1>6 DEF StandsInv, Stands, IInv, Alone
  <2>2. r \in Setters' /\ job'[r].op # "clear"
    BY <1>1, <1>2, <1>3 DEF Setters, Setting
  <2>3. Others' = {}
    <3>1. job[r].asked # "unset"
      BY <1>1 DEF StandsInv, Shaped
    <3>2. QED
      BY <1>1, <1>2, <1>3, <2>1, <3>1 DEF Others
  <2>4. ASSUME NEW q \in Requests
        PROVE  Current(job[q])'
    <3>1. CASE q # r
      <4>1. q \notin Setters /\ q \notin Others /\ job'[q] = job[q]
        BY <1>1, <2>1, <3>1
      <4>2. QED
        BY <4>1, BystanderCurrent DEF Current
    <3>2. CASE q = r
      BY <1>1, <1>2, <1>3, <1>5, <2>1, <3>2 DEF Stands, Current, Visible, Setting
    <3>3. QED
      BY <3>1, <3>2
  <2>5. QED
    BY <2>2, <2>3, <2>4 DEF Stands
<1>7. QED
  BY <1>4, <1>6 DEF StandsInv

\* A request that ends, seen from the others.
LEMMA FinishStands ==
  ASSUME IInv, StandsInv, NEW r \in Requests, Finish(r)
  PROVE  /\ \A q \in Requests : job'[q] = IF q = r THEN Idle ELSE job[q]
         /\ \A q \in Requests : Shaped(job'[q])
         /\ Setters' = Setters \ {r} /\ Others' = Others \ {r}
<1>1. \A q \in Requests : job'[q] = IF q = r THEN Idle ELSE job[q]
  BY DEF Finish, IInv, TypeOK
<1>2. Shaped(Idle) /\ Idle.op = "idle" /\ Idle.asked = "keep"
  BY DEF Shaped, Idle, Setting
<1>3. QED
  BY <1>1, <1>2 DEF StandsInv, Setters, Others, Setting

LEMMA IdleCurrent ==
  ASSUME NEW j, j = Idle
  PROVE  /\ j.op \notin Setting /\ j.op # "save" /\ j.op # "deleteMany"
  BY DEF Idle, Setting

\* The only setter ends with its preset, and no other, as the default.
LEMMA SetterStands ==
  ASSUME IInv, StandsInv, NEW r \in Setters, Finish(r), causes = {}, NEW p \in Presets,
         Defaults' = {p}, wanted' = p, ~docs'[p].deletedAt
  PROVE  Stands'
<1>1. Stands /\ Others = {} /\ Setters = {r} /\ r \in Requests
  BY DEF StandsInv, Stands, IInv, Alone, Setters
<1>2. /\ \A q \in Requests : job'[q] = IF q = r THEN Idle ELSE job[q]
      /\ Setters' = {} /\ Others' = {}
  BY <1>1, FinishStands
<1>3. Answered'
  BY NoneAssumption DEF Answered
<1>4. ASSUME NEW q \in Requests
      PROVE  Current(job[q])'
  <2>1. CASE q = r
    BY <1>2, <2>1, IdleCurrent DEF Current
  <2>2. CASE q # r
    <3>1. q \notin Setters /\ q \notin Others /\ job'[q] = job[q]
      BY <1>1, <1>2, <2>2
    <3>2. QED
      BY <3>1, BystanderCurrent DEF Current
  <2>3. QED
    BY <2>1, <2>2
<1>5. QED
  BY <1>2, <1>3, <1>4 DEF Stands

LEMMA InsertDefaultStands ==
  ASSUME IInv, StandsInv, NEW r \in Requests, InsertDefault(r)
  PROVE  StandsInv'
<1>1. PICK p \in Presets \ stored :
          /\ stored' = stored \cup {p}
          /\ docs' = [docs EXCEPT ![p] = [BlankDoc EXCEPT !.isDefault = TRUE]]
          /\ wanted' = p
  BY DEF InsertDefault
<1>2. Finish(r) /\ causes' = causes /\ job[r].op = "insert" /\ r \in Setters
  BY DEF InsertDefault, Setters, Setting
<1>3. \A q \in Requests : Shaped(job'[q])
  BY <1>2, FinishStands
<1>4. ASSUME causes' = {}
      PROVE  Stands'
  <2>1. Defaults \subseteq {None}
    BY <1>2, <1>4 DEF IInv, Alone, Fit
  <2>2. Defaults = {}
    BY <2>1, NoneAssumption DEF Defaults, IInv, TypeOK
  <2>3. Defaults' = {p} /\ ~docs'[p].deletedAt
    BY <1>1, <2>2 DEF Defaults, BlankDoc, IInv, TypeOK
  <2>4. QED
    BY <1>1, <1>2, <1>4, <2>3, SetterStands
<1>5. QED
  BY <1>3, <1>4 DEF StandsInv

\* A save, field by field.
LEMMA WrittenFields ==
  ASSUME NEW current \in Doc, NEW loaded \in Doc, NEW mine \in Doc,
         NEW saved, saved = SaveModified(current, loaded, mine)
  PROVE  /\ saved.isDefault = IF mine.isDefault # loaded.isDefault THEN mine.isDefault
                              ELSE current.isDefault
         /\ saved.deletedAt = IF mine.deletedAt # loaded.deletedAt THEN mine.deletedAt
                              ELSE current.deletedAt
  BY DEF SaveModified, Doc

\* A request that sets nothing ends, and makes nothing the default.
LEMMA BystanderStands ==
  ASSUME IInv, StandsInv, NEW r \in Requests, Finish(r), causes = {}, r \notin Setters,
         stored' = stored, \A p \in Presets : docs'[p].isDefault => docs[p].isDefault,
         Answered => Answered',
         Setters # {} => \A p \in Presets : docs'[p] = docs[p]
  PROVE  Stands'
<1>1. /\ \A q \in Requests : job'[q] = IF q = r THEN Idle ELSE job[q]
      /\ Setters' = Setters /\ Others' \subseteq Others
  BY FinishStands
<1>2. Stands
  BY DEF StandsInv
<1>3. (\A q \in Setters' : job'[q].op = "clear") => Answered'
  <2>1. \A q \in Setters : job'[q] = job[q]
    BY <1>1 DEF Setters
  <2>2. QED
    BY <1>1, <1>2, <2>1 DEF Stands
<1>4. ASSUME NEW q \in Requests
      PROVE  Current(job[q])'
  <2>1. CASE q = r
    BY <1>1, <2>1, IdleCurrent DEF Current
  <2>2. CASE q # r
    <3>1. job'[q] = job[q] /\ Current(job[q]) /\ Shaped(job[q]) /\ job[q] \in Job
      BY <1>1, <1>2, <2>2 DEF Stands, StandsInv, IInv, TypeOK
    <3>2. job[q].op \in Setting /\ job[q].preset # None =>
              Visible(job[q].preset)' /\ (job[q].loaded.isDefault => docs'[job[q].preset].isDefault)
      BY <3>1 DEF Setters, Current, Visible, Job
    <3>3. job[q].op = "save" => job[q].preset \in Presets
      BY <3>1 DEF Shaped
    <3>4. Defaults' \subseteq Defaults
      BY DEF Defaults, IInv, TypeOK
    <3>5. QED
      BY <3>1, <3>2, <3>3, <3>4 DEF Current
  <2>3. QED
    BY <2>1, <2>2
<1>5. QED
  BY <1>1, <1>2, <1>3, <1>4 DEF Stands

LEMMA SaveStands == ASSUME IInv, StandsInv, NEW r \in Requests, Save(r)  PROVE StandsInv'
<1> DEFINE j == job[r]
           p == j.preset
<1>1. /\ j \in Job /\ j.op \in {"saveDefault", "save"} /\ Finish(r) /\ p \in Presets
      /\ stored' = stored /\ causes \subseteq causes' /\ p # None
      /\ docs' = [docs EXCEPT ![p] = SaveModified(docs[p], j.loaded, j.mine)]
      /\ wanted' = CASE j.asked = "set"                     -> p
                     [] j.asked = "unset" /\ wanted = p     -> None
                     [] OTHER                               -> wanted
      /\ Fit(j) /\ Shaped(j)
  BY NoneAssumption DEF Save, IInv, TypeOK, Fit, StandsInv
<1>2. /\ j.loaded \in Doc /\ j.mine \in Doc /\ docs[p] \in Doc
      /\ \A q \in Presets \ {p} : docs'[q] = docs[q]
      /\ docs'[p].isDefault = IF j.mine.isDefault # j.loaded.isDefault THEN j.mine.isDefault
                              ELSE docs[p].isDefault
      /\ docs'[p].deletedAt = IF j.mine.deletedAt # j.loaded.deletedAt THEN j.mine.deletedAt
                              ELSE docs[p].deletedAt
  <2>1. j.loaded \in Doc /\ j.mine \in Doc /\ docs[p] \in Doc
    BY <1>1 DEF Job, IInv, TypeOK
  <2>2. docs'[p] = SaveModified(docs[p], j.loaded, j.mine)
        /\ \A q \in Presets \ {p} : docs'[q] = docs[q]
    BY <1>1 DEF IInv, TypeOK
  <2>3. QED
    BY <2>1, <2>2, WrittenFields
<1>3. ASSUME causes' = {}
      PROVE  Stands'
  <2>1. causes = {} /\ Stands /\ Alone /\ Current(j)
    BY <1>1, <1>3 DEF StandsInv, Stands, IInv
  <2>2. CASE j.op = "saveDefault"
    <3>1. r \in Setters /\ j.asked = "set" /\ Defaults \subseteq {p}
      BY <1>1, <2>1, <2>2 DEF Setters, Setting, Shaped, Alone
    <3>2. Visible(p) /\ docs'[p].isDefault /\ ~docs'[p].deletedAt
      BY <1>1, <1>2, <2>1, <2>2 DEF Current, Shaped, Visible, Setting, Doc
    <3>3. Defaults' = {p}
      BY <1>1, <1>2, <3>1, <3>2 DEF Defaults, Visible, IInv, TypeOK
    <3>4. wanted' = p
      BY <1>1, <3>1
    <3>5. QED
      BY <1>1, <2>1, <3>1, <3>2, <3>3, <3>4, SetterStands
  <2>3. CASE j.op = "save"
    <3>1. /\ r \notin Setters /\ j.asked \in {"unset", "keep"}
          /\ j.asked = "keep" => j.loaded.isDefault = j.mine.isDefault
      BY <1>1, <2>3 DEF Setters, Setting, Shaped
    <3>2. Setters # {} => j.asked = "keep" /\ j.mine = j.loaded
      BY <2>1, <2>3, <3>1 DEF Stands, Others
    <3>3. docs'[p].isDefault => docs[p].isDefault
      BY <1>1, <1>2, <2>3 DEF Fit
    <3>4. Setters # {} => docs'[p] = docs[p]
      <4>1. docs'[p] \in Doc
        BY <1>1, <1>2, WrittenType DEF IInv, TypeOK
      <4>2. Setters # {} => docs'[p].isDefault = docs[p].isDefault
                            /\ docs'[p].deletedAt = docs[p].deletedAt
        BY <1>2, <3>2
      <4>3. QED
        BY <1>2, <4>1, <4>2 DEF Doc
    <3>5. ASSUME Answered
          PROVE  Answered'
      <4>1. CASE j.asked = "keep"
        <5>1. docs'[p].isDefault = docs[p].isDefault
          BY <1>2, <3>1, <4>1
        <5>2. Defaults' = Defaults
          BY <1>1, <1>2, <5>1 DEF Defaults, IInv, TypeOK
        <5>3. docs'[p].deletedAt => docs[p].deletedAt \/ p \notin Defaults
          BY <1>2, <2>1, <2>3 DEF Current, Defaults, Doc
        <5>4. wanted' = wanted
          BY <1>1, <4>1
        <5>5. QED
          BY <1>2, <3>5, <5>2, <5>3, <5>4 DEF Answered, Defaults, IInv, TypeOK
      <4>2. CASE j.asked = "unset"
        <5>1. ~docs'[p].isDefault
          BY <1>1, <1>2, <2>1, <2>3, <4>2 DEF Shaped, Current, Doc
        <5>2. Defaults' = Defaults \ {p}
          BY <1>1, <1>2, <5>1 DEF Defaults, IInv, TypeOK
        <5>3. wanted' = IF wanted = p THEN None ELSE wanted
          BY <1>1, <4>2
        <5>4. QED
          BY <1>2, <3>5, <5>2, <5>3 DEF Answered, Defaults, IInv, TypeOK
      <4>3. QED
        BY <3>1, <4>1, <4>2
    <3>6. QED
      BY <1>1, <1>2, <2>1, <3>1, <3>3, <3>4, <3>5, BystanderStands
  <2>4. QED
    BY <1>1, <2>2, <2>3
<1>4. QED
  BY <1>1, <1>3, FinishStands DEF StandsInv

LEMMA DeleteManyStands ==
  ASSUME IInv, StandsInv, NEW r \in Requests, DeleteMany(r)
  PROVE  StandsInv'
<1>1. /\ job[r].op = "deleteMany" /\ Finish(r) /\ UNCHANGED <<stored, wanted, causes>>
      /\ r \notin Setters /\ r \in Others
      /\ \A p \in Presets : docs'[p].isDefault = docs[p].isDefault
      /\ \A p \in Presets : p \notin job[r].ids => docs'[p] = docs[p]
  BY DEF DeleteMany, IInv, TypeOK, Doc, Setters, Setting, Others
<1>2. ASSUME causes = {}
      PROVE  Stands'
  <2>1. Stands
    BY <1>2 DEF StandsInv
  <2>2. Setters = {} /\ job[r].ids \cap Defaults = {}
    BY <1>1, <2>1 DEF Stands, Current
  <2>3. Defaults' = Defaults
    BY <1>1 DEF Defaults, IInv, TypeOK
  <2>4. Answered => Answered'
    BY <1>1, <2>2, <2>3 DEF Answered, Defaults, IInv, TypeOK
  <2>5. QED
    BY <1>1, <1>2, <2>2, <2>4, BystanderStands
<1>3. QED
  BY <1>1, <1>2, FinishStands DEF StandsInv

LEMMA GiveUpStands ==
  ASSUME IInv, StandsInv, NEW r \in Requests, Fail(r)
  PROVE  StandsInv'
<1>1. Finish(r) /\ causes \subseteq causes' /\ UNCHANGED <<stored, docs, wanted>>
  BY DEF Fail, boundVars
<1>2. ASSUME causes' = {}
      PROVE  Stands'
  <2>1. causes = {} /\ Stands /\ Alone /\ job[r].op \notin {"saveDefault", "insert"}
    BY <1>1, <1>2 DEF StandsInv, Stands, IInv, Fail
  <2>2. /\ \A q \in Requests : job'[q] = IF q = r THEN Idle ELSE job[q]
        /\ Setters' = Setters \ {r} /\ Others' \subseteq Others
    BY <1>1, FinishStands
  <2>3. Answered => Answered'
    BY <1>1 DEF Answered, Defaults
  <2>4. (\A q \in Setters' : job'[q].op = "clear") => Answered'
    <3>1. \A q \in Setters \ {r} : job'[q] = job[q]
      BY <2>2 DEF Setters
    <3>2. r \in Setters => job[r].op = "clear"
      BY <2>1 DEF Setters, Setting
    <3>3. QED
      BY <2>1, <2>2, <2>3, <3>1, <3>2 DEF Stands
  <2>5. ASSUME NEW q \in Requests
        PROVE  Current(job[q])'
    <3>1. CASE q = r
      BY <2>2, <3>1, IdleCurrent DEF Current
    <3>2. CASE q # r
      BY <1>1, <2>1, <2>2, <3>2 DEF Stands, Current, Visible, Defaults
    <3>3. QED
      BY <3>1, <3>2
  <2>6. QED
    BY <2>1, <2>2, <2>4, <2>5 DEF Stands
<1>3. QED
  BY <1>1, <1>2, FinishStands DEF StandsInv

LEMMA CreatePlainStands ==
  ASSUME IInv, StandsInv, NEW p \in Presets, CreatePlain(p)
  PROVE  StandsInv'
<1>1. /\ p \notin stored /\ stored' = stored \cup {p} /\ docs'[p] = BlankDoc
      /\ \A q \in Presets \ {p} : docs'[q] = docs[q]
      /\ UNCHANGED <<job, wanted, causes>>
  BY DEF CreatePlain, IInv, TypeOK
<1>2. Setters' = Setters /\ Others' = Others
  BY <1>1 DEF Setters, Others
<1>3. Defaults' = Defaults /\ p \notin Defaults
  BY <1>1 DEF Defaults, BlankDoc, IInv, TypeOK
<1>4. Answered => Answered'
  BY <1>1, <1>3 DEF Answered, Defaults, IInv, TypeOK
<1>5. ASSUME NEW q \in Requests, Current(job[q])
      PROVE  Current(job[q])'
  <2>1. job[q] \in Job /\ Shaped(job[q])
    BY DEF IInv, TypeOK, StandsInv
  <2>2. QED
    BY <1>1, <1>3, <1>5, <2>1 DEF Current, Visible, BlankDoc, Shaped, Job, IInv, TypeOK
<1>6. Stands => Stands'
  BY <1>1, <1>2, <1>4, <1>5 DEF Stands
<1>7. QED
  BY <1>1, <1>6 DEF StandsInv

LEMMA StandsNext == IInv /\ StandsInv /\ [Next]_vars => StandsInv'
<1> SUFFICES ASSUME IInv, StandsInv, [Next]_vars  PROVE StandsInv'
  OBVIOUS
<1>1. ASSUME NEW p \in Presets, CreatePlain(p)  PROVE StandsInv'
  BY <1>1, CreatePlainStands
<1>2. ASSUME NEW r \in Requests, Request(r)  PROVE StandsInv'
  BY <1>2, RequestStands
<1>3. ASSUME NEW r \in Requests, Answer(r)  PROVE StandsInv'
  BY <1>3, ClearOthersStands, InsertDefaultStands, SaveStands, GiveUpStands, DeleteManyStands
     DEF Answer
<1>4. ASSUME NEW r \in Requests, Fail(r)  PROVE StandsInv'
  BY <1>4, GiveUpStands
<1>5. CASE UNCHANGED vars
  BY <1>5 DEF vars, StandsInv, Stands, Answered, Current, Visible, Setters, Others, Defaults
<1>6. QED
  BY <1>1, <1>2, <1>3, <1>4, <1>5 DEF Next

\* Requests, documents and bounds keep their types for every set of presets and requests.
THEOREM PresetTyping == Spec => []TypeOK
<1>1. IInv => TypeOK
  BY DEF IInv
<1>2. QED
  BY <1>1, InvInit, InvNext, PTL DEF Spec

\* For every set of presets and requests and whatever fails: a user has a second default,
\* visible or deleted, only after two requests that set one ran at the same time.
THEOREM DefaultAlone == Spec => []OneDefault
<1>1. IInv => OneDefault
  BY DEF IInv, Alone, OneDefault
<1>2. QED
  BY <1>1, InvInit, InvNext, PTL DEF Spec

\* For every set of presets and requests: when no two requests that set, unset or delete met
\* and none failed half-way, the visible default is the one that setDefault, create or update
\* answered last.
THEOREM AnswersStand == Spec => []AnswerStands
<1>1. StandsInv => AnswerStands
  BY DEF StandsInv, Stands, Answered, AnswerStands, Visible, Defaults
<1>2. QED
  BY <1>1, InvInit, InvNext, StandsInit, StandsNext, PTL DEF Spec
=============================================================================
