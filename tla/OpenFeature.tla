----------------------------- MODULE OpenFeature -----------------------------
(***************************************************************************)
(* Callers of one tenant's stored definitions: native snapshot and batch   *)
(* evaluation, the transfer of a portable document, and the OpenFeature    *)
(* adapter (openfeature/provider.go), which maps an untyped context, loads *)
(* a snapshot and maps the answer.  The adapter's shutdown runs beside     *)
(* them.                                                                   *)
(*                                                                         *)
(* One evaluation is followed at a time: snapshots are immutable and       *)
(* evaluations share nothing.  Loading a snapshot is the construction of   *)
(* SnapshotBuild, in any order of its walk.                                *)
(***************************************************************************)
EXTENDS Codec

CONSTANTS
  Scenarios,      \* stored definitions, the requests made of them, whether the adapter
                  \* owns its provider, and the goroutines that shut it down
  Home,           \* the tenant that owns them, and the tenant of the adapter
  AdapterLimits,  \* DefaultLimits, which New gives the adapter
  Heap,           \* Go values that are neither scalars nor raw JSON, by name
  MaxInt64,       \* the largest version that the metadata hold as a number
  Shutters        \* goroutines that call Shutdown

\* New and Provider.Snapshot refuse an empty tenant.
ASSUME ScenarioAssumption ==
  /\ Home # ""
  /\ \A w \in Scenarios :
       /\ Arguments(w) /\ w.own \in BOOLEAN /\ w.shutters \subseteq Shutters
       /\ \A r \in w.requests : r.via \in {"native", "batch"} =>
            r.tenant # "" /\ r.ctx.time \in Nat /\ (r.via = "batch" => IsList(r.asks))

VARIABLES
  world,     \* the scenario
  stored,    \* the definitions and groups of the tenant
  pc,        \* "idle", "snapshot", "evaluate", "export", "import" or "done"
  request,   \* the request being answered
  context,   \* the native evaluation context of the request
  snapshot,  \* the snapshot it was given
  answer,    \* its result
  once,      \* provider.once: "new", "running" or "done"
  shut,      \* what each goroutine is doing in Shutdown
  closes,    \* calls of native.Close
  closed     \* times the event channel was closed

callVars == <<world, stored, pc, request, context, snapshot, answer>>
shutVars == <<once, shut, closes, closed>>
vars == <<buildVars, callVars, shutVars>>

-----------------------------------------------------------------------------
(* The structured preflight                                                *)

\* A node of Heap is [kind, visit, len, children]: the reflect.Kind, the type and the
\* address, the values inside, and the length of what json.Marshal writes for a scalar,
\* of a byte slice, or of the quoted keys of a map together.  The address of a slice is
\* that of its first element, which other slices may share.
Charge(n) ==
  LET inside == Len(n.children)
  IN  CASE n.kind = "nil" -> 4
        [] n.kind = "bool" -> 5
        [] n.kind \in {"int", "uint"} -> 20
        [] n.kind = "float" -> 32
        [] n.kind = "string" -> n.len
        [] n.kind = "bytes" -> 2 + 4 * ((n.len + 2) \div 3)
        [] n.kind = "map" -> 2 + n.len + 2 * inside
        [] n.kind \in {"slice", "array"} -> IF inside = 0 THEN 2 ELSE 1 + inside
        [] OTHER -> 0

\* The bytes json.Marshal writes for the node itself.
Written(n) ==
  LET inside == Len(n.children)
  IN  CASE n.kind = "nil" -> 4
        [] n.kind \in {"bool", "int", "uint", "float", "string"} -> n.len
        [] n.kind = "map" -> IF inside = 0 THEN 2 ELSE 1 + n.len + 2 * inside
        [] OTHER -> Charge(n)

Refused == {"custom", "raw", "unsupported", "nonfinite"}
Tracked == {"pointer", "map", "slice"}

\* structuredVisit of the values that enterStructuredValue is called for.
Visits == {Heap[n].visit : n \in DOMAIN Heap}

Spent(error, bytes, nodes) == [error |-> error, bytes |-> bytes, nodes |-> nodes]

\* Mutant: the depth of a map or list is not passed down.
FlatDepth(root) ==
  LET walk[n \in DOMAIN Heap, seen \in SUBSET Visits,
           depth \in Nat, bytes \in Nat, nodes \in Nat] ==
        IF \/ depth > AdapterLimits.MaxEvaluationDepth
           \/ nodes >= AdapterLimits.MaxStructuredBytes
           \/ Heap[n].kind \in Refused
           \/ Heap[n].kind \in Tracked /\ Heap[n].visit \in seen
           \/ Charge(Heap[n]) > AdapterLimits.MaxStructuredBytes - bytes
          THEN Spent(TRUE, bytes, nodes)
          ELSE FoldLeft(LAMBDA b, child :
                          IF b.error THEN b
                          ELSE walk[child, seen \cup {Heap[n].visit}, depth, b.bytes, b.nodes],
                        Spent(FALSE, bytes + Charge(Heap[n]), nodes + 1), Heap[n].children)
  IN  ~walk[root, {}, 0, 0, 0].error

\* validateStructuredInput.  The types and addresses on the current path are tracked,
\* aliases elsewhere are not, and the budget is shared by the whole walk.
validateStructuredInput(root) ==
  LET walk[n \in DOMAIN Heap, seen \in SUBSET Visits,
           depth \in Nat, bytes \in Nat, nodes \in Nat] ==
        IF \/ depth > AdapterLimits.MaxEvaluationDepth
           \/ nodes >= AdapterLimits.MaxStructuredBytes
           \/ Heap[n].kind \in Refused
           \/ Heap[n].kind \in Tracked /\ Heap[n].visit \in seen
           \/ Charge(Heap[n]) > AdapterLimits.MaxStructuredBytes - bytes
          THEN Spent(TRUE, bytes, nodes)
          ELSE FoldLeft(LAMBDA b, child :
                          IF b.error THEN b
                          ELSE walk[child, seen \cup {Heap[n].visit}, depth + 1, b.bytes, b.nodes],
                        Spent(FALSE, bytes + Charge(Heap[n]), nodes + 1), Heap[n].children)
  IN  ~walk[root, {}, 0, 0, 0].error

\* len(encoded) of a value the preflight has let through.
encodedSize(root) ==
  LET size[n \in DOMAIN Heap] ==
        FoldLeft(LAMBDA sum, child : sum + size[child], Written(Heap[n]), Heap[n].children)
  IN  size[root]

-----------------------------------------------------------------------------
(* The mapped context                                                      *)

Reserved == {"targetingKey", "tenant", "environment", "time"}
FactNames(flat) == DOMAIN flat \ Reserved

\* mapFactWithLimits: the error, or the value.  A time.Time encodes itself and is
\* refused as a fact.
FactError(v) ==
  CASE v.go = "string" /\ v.data = "too_long" -> "context_limit"
    [] v.go = "uint" /\ v.data = "above_int64" -> "unsigned"
    [] v.go = "float" /\ v.data \in {"nan", "inf"} -> "context_limit"
    [] v.go = "raw" /\ v.data = "malformed" -> "context_limit"
    [] v.go = "time" -> "context_limit"
    [] v.go = "object" /\ \/ ~validateStructuredInput(v.data)
                          \/ encodedSize(v.data) > AdapterLimits.MaxStructuredBytes -> "context_limit"
    [] OTHER -> ""
mapFact(v) ==
  CASE v.go = "bool" -> Value("boolean", v.data)
    [] v.go = "string" -> Value("string", v.data)
    [] v.go \in {"int", "uint"} -> Value("integer", v.data)
    [] v.go = "float" -> Value("float", v.data)
    [] v.go = "raw" -> Json(v.data, v.compact)
    [] v.go = "object" -> Json(v.data, TRUE)

\* validateContextShape.
OverShape(flat) ==
  \/ Cardinality(DOMAIN flat) > AdapterLimits.MaxFacts + Cardinality(Reserved)
  \/ Cardinality(FactNames(flat)) > AdapterLimits.MaxFacts
  \/ Cardinality({f \in FactNames(flat) : flat[f].go = "string"}) > AdapterLimits.MaxAttributes
  \/ \E f \in {"targetingKey", "environment"} \cap DOMAIN flat :
       flat[f].go = "string" /\ flat[f].data = "too_long"

EntryError(flat, f) ==
  CASE f = "targetingKey" -> ""
    [] f = "tenant" -> IF flat[f].go = "string" /\ flat[f].data = Home THEN "" ELSE "tenant_mismatch"
    [] f = "environment" -> IF flat[f].go = "string" THEN "" ELSE "context_limit"
    [] f = "time" -> IF flat[f].go = "time" THEN "" ELSE "context_limit"
    [] OTHER -> FactError(flat[f])

\* The errors mapContext may return: it ranges over a map.
MapErrors(flat) ==
  IF OverShape(flat) THEN {"context_limit"}
  ELSE IF "targetingKey" \in DOMAIN flat /\ flat["targetingKey"].go # "string" THEN {"context_limit"}
  ELSE {EntryError(flat, f) : f \in DOMAIN flat} \ {""}

\* mapContext of a flat context without errors.  A string is both an attribute and
\* a fact.
mapContext(flat) ==
  LET Text(f) == IF f \in DOMAIN flat THEN flat[f].data ELSE ""
  IN  [tenant |-> Home, subject |-> Text("targetingKey"), environment |-> Text("environment"),
       time |-> IF "time" \in DOMAIN flat THEN flat["time"].at ELSE 0,
       attributes |-> [f \in {f \in FactNames(flat) : flat[f].go = "string"} |-> flat[f].data],
       facts |-> [f \in FactNames(flat) |-> mapFact(flat[f])]]

-----------------------------------------------------------------------------
(* The mapped answer                                                       *)

mapReason(reason) ==
  CASE reason \in {"default", "dependency_failed"} -> "DEFAULT"
    [] reason = "inactive" -> "DISABLED"
    [] reason = "rollout" -> "SPLIT"
    [] reason \in {"targeting_match", "schedule", "group_match"} -> "TARGETING_MATCH"
    [] OTHER -> "UNKNOWN"

CodeOf(error) ==
  CASE error = "not_found" -> "FLAG_NOT_FOUND"
    [] error \in {"tenant_mismatch", "context_limit"} -> "INVALID_CONTEXT"
    [] OTHER -> "GENERAL"

\* The default the caller passed.
CallerDefault == Value("none", "caller")

\* decodeObject: json.Unmarshal into any, where a number is a float64.
decodeObject(v) ==
  [type |-> "object", data |-> IF v.data = "big_integer" THEN "rounded" ELSE v.data, compact |-> TRUE]

\* The version metadata: an int64, or the decimal digits of what does not fit.
versionMetadata(version) ==
  IF version > MaxInt64 THEN [digits |-> version] ELSE [int64 |-> version]

\* errorDetail and mapDetail, with the value beside them.
errorDetail(error) ==
  [Failure(CodeOf(error)) EXCEPT !.value = CallerDefault, !.reason = "ERROR"]
mapDetail(r) ==
  [r EXCEPT !.reason = mapReason(@), !.version = versionMetadata(@),
            !.value = IF @.type = "structured" THEN decodeObject(@) ELSE @]

-----------------------------------------------------------------------------
(* Requests                                                                *)

\* Nothing is loaded yet, or the call has no evaluation context.
NoSnapshot == [features |-> <<>>, groups |-> <<>>, tenant |-> ""]
NoContext == [tenant |-> ""]

Tenant(r) == IF r.via = "adapter" THEN Home ELSE r.tenant

\* What the provider holds for the tenant of the request.
Held(tenant) == IF tenant = Home THEN stored ELSE [features |-> <<>>, groups |-> <<>>]

\* The answer to a request whose construction or mapping failed.
Failed(error) ==
  CASE request.via = "adapter" -> errorDetail(error)
    [] request.via = "batch" -> [error |-> error, details |-> <<>>]
    [] OTHER -> Failure(error)

Idling == pc \in {"idle", "done"}

\* An evaluation through the adapter: mapContext, then native.Snapshot.
AskAdapter(r) ==
  /\ Idling /\ r.via = "adapter"
  /\ request' = r /\ snapshot' = NoSnapshot
  /\ \/ /\ MapErrors(r.flat) = {}
        /\ pc' = "snapshot" /\ answer' = NoMatch /\ context' = mapContext(r.flat)
        /\ Begin(Held(Home))
     \/ \E error \in MapErrors(r.flat) :
          /\ pc' = "done" /\ answer' = errorDetail(error) /\ context' = NoContext
          /\ UNCHANGED buildVars
  /\ UNCHANGED <<world, stored, shutVars>>

\* A native evaluation or batch: Provider.Snapshot, then the typed method or Batch.
AskNative(r) ==
  /\ Idling /\ r.via \in {"native", "batch"}
  /\ request' = r /\ snapshot' = NoSnapshot
  /\ pc' = "snapshot" /\ answer' = NoMatch /\ context' = r.ctx
  /\ Begin(Held(r.tenant))
  /\ UNCHANGED <<world, stored, shutVars>>

Construct ==
  /\ pc \in {"snapshot", "export", "import"}
  /\ BuildStep
  /\ UNCHANGED <<callVars, shutVars>>

\* Mutant: the snapshot is not bound to the tenant it was loaded for.
Unbound ==
  /\ pc = "snapshot" /\ stage = "accepted"
  /\ pc' = "evaluate" /\ snapshot' = Snapshot("")
  /\ UNCHANGED <<buildVars, world, stored, request, context, answer, shutVars>>

\* The provider returns the snapshot, bound to the tenant.
Loaded ==
  /\ pc = "snapshot" /\ stage = "accepted"
  /\ pc' = "evaluate" /\ snapshot' = Snapshot(Tenant(request))
  /\ UNCHANGED <<buildVars, world, stored, request, context, answer, shutVars>>

\* The backend cannot be read, or its definitions are refused.
NotLoaded ==
  /\ pc = "snapshot"
  /\ \/ stage = "check" /\ answer' = Failed("unavailable")
     \/ stage = "rejected" /\ answer' = Failed(cause)
  /\ pc' = "done"
  /\ UNCHANGED <<buildVars, world, stored, request, context, snapshot, shutVars>>

\* The typed method, or Batch.
AnswerNative ==
  /\ pc = "evaluate"
  /\ \/ /\ request.via = "batch"
        /\ \E results \in {[i \in DOMAIN request.asks |->
                             evaluate(snapshot, request.asks[i].key, request.asks[i].type, context)]} :
             answer' = Batch(results)
     \/ /\ request.via = "native"
        /\ answer' = evaluate(snapshot, request.key, request.type, context)
  /\ pc' = "done"
  /\ UNCHANGED <<buildVars, world, stored, request, context, snapshot, shutVars>>

\* The typed method, and what the adapter makes of its result.
AnswerAdapter ==
  /\ pc = "evaluate" /\ request.via = "adapter"
  /\ \E r \in {evaluate(snapshot, request.key, request.type, context)} :
       answer' = IF r.error # "" THEN errorDetail(r.error) ELSE mapDetail(r)
  /\ pc' = "done"
  /\ UNCHANGED <<buildVars, world, stored, request, context, snapshot, shutVars>>

\* Export, then Import of the document: its definitions are what later snapshots are
\* built from.
AskTransfer(r) ==
  /\ Idling /\ r.via = "transfer"
  /\ request' = r /\ pc' = "export" /\ answer' = NoMatch
  /\ context' = NoContext /\ snapshot' = NoSnapshot
  /\ Begin(stored)
  /\ UNCHANGED <<world, stored, shutVars>>

Exported ==
  /\ pc = "export"
  /\ \/ /\ stage = "accepted" /\ Exportable(source) /\ Importable(Export(source))
        /\ pc' = "import" /\ answer' = answer
        /\ Begin(Import(Export(source)))
     \/ /\ stage = "accepted" /\ ~Exportable(source)
        /\ pc' = "done" /\ answer' = Failure("unsupported") /\ UNCHANGED buildVars
     \/ /\ stage = "accepted" /\ Exportable(source) /\ ~Importable(Export(source))
        /\ pc' = "done" /\ answer' = Failure("invalid") /\ UNCHANGED buildVars
     \/ /\ stage = "rejected"
        /\ pc' = "done" /\ answer' = Failure(cause) /\ UNCHANGED buildVars
  /\ UNCHANGED <<world, stored, request, context, snapshot, shutVars>>

Imported ==
  /\ pc = "import"
  /\ \/ stage = "accepted" /\ stored' = source /\ answer' = NoMatch
     \/ stage = "rejected" /\ answer' = Failure(cause) /\ UNCHANGED stored
  /\ pc' = "done"
  /\ UNCHANGED <<buildVars, world, request, context, snapshot, shutVars>>

-----------------------------------------------------------------------------
(* Shutdown                                                                *)

Returned == {"idle", "nil", "failed"}

\* Mutant: a flag that is set when the work is done instead of sync.Once.
EnterUnlessDone(s) ==
  /\ shut[s] \in Returned
  /\ \/ once \in {"new", "running"} /\ once' = "running" /\ shut' = [shut EXCEPT ![s] = "closing"]
     \/ once = "done" /\ shut' = [shut EXCEPT ![s] = "nil"] /\ UNCHANGED once
  /\ UNCHANGED <<buildVars, callVars, closes, closed>>

\* ShutdownWithContext enters once.Do: it runs the function, waits for the goroutine
\* that runs it, or finds it done.
EnterOnce(s) ==
  /\ shut[s] \in Returned
  /\ \/ once = "new" /\ once' = "running" /\ shut' = [shut EXCEPT ![s] = "closing"]
     \/ once = "running" /\ shut' = [shut EXCEPT ![s] = "waiting"] /\ UNCHANGED once
     \/ once = "done" /\ shut' = [shut EXCEPT ![s] = "nil"] /\ UNCHANGED once
  /\ UNCHANGED <<buildVars, callVars, closes, closed>>

\* native.Close, when the adapter owns the provider, returns an error or nil.
CloseNative(s) ==
  /\ shut[s] = "closing"
  /\ closes' = IF world.own THEN closes + 1 ELSE closes
  /\ \E outcome \in IF world.own THEN {"closed", "close_failed"} ELSE {"closed"} :
       shut' = [shut EXCEPT ![s] = outcome]
  /\ UNCHANGED <<buildVars, callVars, once, closed>>

\* close(provider.events), and once.Do is over.
CloseEvents(s) ==
  /\ shut[s] \in {"closed", "close_failed"}
  /\ closed' = closed + 1 /\ once' = "done"
  /\ shut' = [shut EXCEPT ![s] = IF @ = "closed" THEN "nil" ELSE "failed"]
  /\ UNCHANGED <<buildVars, callVars, closes>>

\* once.Do of another goroutine is over; err is this call's own and nil.
Wake(s) ==
  /\ shut[s] = "waiting" /\ once = "done"
  /\ shut' = [shut EXCEPT ![s] = "nil"]
  /\ UNCHANGED <<buildVars, callVars, once, closes, closed>>

-----------------------------------------------------------------------------

Init ==
  /\ world \in Scenarios
  /\ stored = [features |-> world.features, groups |-> world.groups]
  /\ source = stored /\ Idle
  /\ pc = "idle" /\ request = [via |-> "none"] /\ answer = NoMatch
  /\ context = NoContext /\ snapshot = NoSnapshot
  /\ once = "new" /\ shut = [s \in Shutters |-> "idle"] /\ closes = 0 /\ closed = 0

Next ==
  \/ \E r \in world.requests : AskAdapter(r) \/ AskNative(r) \/ AskTransfer(r)
  \/ Construct \/ Loaded \/ NotLoaded \/ AnswerNative \/ AnswerAdapter \/ Exported \/ Imported
  \/ \E s \in world.shutters : EnterOnce(s) \/ CloseNative(s) \/ CloseEvents(s) \/ Wake(s)

Spec == Init /\ [][Next]_vars
-----------------------------------------------------------------------------
(* Properties                                                              *)

\* The types of the variables of a construction, a call and a shutdown.
TypeOK ==
  /\ stage \in Stages /\ cause \in Causes
  /\ ranged \subseteq Keys /\ visited \in Seq(Keys) /\ path \in Seq([key : Keys, next : Nat])
  /\ pc \in {"idle", "snapshot", "evaluate", "export", "import", "done"}
  /\ once \in {"new", "running", "done"} /\ closes \in Nat /\ closed \in Nat
  /\ shut \in [Shutters -> Returned \cup {"closing", "closed", "close_failed", "waiting"}]

\* validateDependencyGraph and cloneAndValidateGroups, whatever order their maps are
\* ranged over: definitions they accept have no dependency cycle, every dependency
\* names a stored feature and a variant of it, and every strategy a feature can
\* inherit targets a variant the feature has.
AcceptedIsSound ==
  stage = "accepted" =>
    /\ ~Cyclic(Definitions)
    /\ \A k \in Keys : \A e \in ToSet(Dependencies(k)) :
         e.key \in Keys /\ e.variant \in DOMAIN Definitions[e.key].variants
    /\ \A k \in Keys : \A r \in Ranks(Snapshot(Home), Definitions[k]) :
         \A s \in ToSet(StrategiesOf(Snapshot(Home), Definitions[k],
                                     OwnerAt(Snapshot(Home), Definitions[k], r))) :
           s.variant \in DOMAIN Definitions[k].variants

\* docs/native-api.md:44: "Group and dependency cycles, missing targets, and
\* configured depth excesses are rejected."
ExcessDepthRejected == stage = "accepted" => ~TooDeep(Definitions)

-----------------------------------------------------------------------------

Answered == pc = "done" /\ request.via \in {"native", "adapter"} /\ answer.error = ""

\* The context the caller of the adapter described, read without mapContext.
Described ==
  IF request.via # "adapter" THEN request.ctx
  ELSE LET flat == request.flat
           Named(f, none) == IF f \in DOMAIN flat THEN flat[f].data ELSE none
       IN  [tenant |-> Named("tenant", Home), subject |-> Named("targetingKey", ""),
            environment |-> Named("environment", ""), time |-> context.time,
            attributes |-> context.attributes, facts |-> context.facts]

\* Snapshot evaluation gives what the stored definitions mean: dependencies decide
\* before groups, groups before the feature, a child before its parents, and the
\* groups that several attachments share change nothing.  The adapter maps the
\* reason, the version and a structured value, and changes nothing else.
EvaluationAgrees ==
  Answered =>
    LET meant == Meaning(snapshot, request.key, Described)
    IN  answer = IF request.via = "adapter" THEN mapDetail(meant) ELSE meant

\* Snapshot.evaluate cannot fail on an accepted graph: the errors of evaluateKey and
\* evaluateGroup for cycles, missing features and group depth are unreachable, and so
\* is the depth error unless the graph is too deep.
EvaluationTotal ==
  pc = "done" /\ stage = "accepted" /\ request.via = "native" =>
    \/ answer.error \in {"", "unavailable", "tenant_mismatch", "context_limit", "invalid", "type"}
    \/ answer.error = "not_found" /\ request.key \notin Keys
    \/ answer.error = "depth" /\ TooDeep(Definitions)
    \/ answer.error = "strategy"
         /\ \E d \in ToSet(source.features) \cup ToSet(source.groups) :
              \E i \in DOMAIN d.strategies : Fails(d.strategies[i])

\* Snapshot.evaluate, Batch and mapContext: a caller only ever gets an answer out of the
\* definitions of the tenant it named, through every entry.
TenantScoped ==
  /\ Answered => Described.tenant = Tenant(request)
  /\ pc = "done" /\ request.via = "batch" /\ answer.error = "" /\ request.asks # <<>> =>
       request.ctx.tenant = request.tenant

\* weeklyWindowMatches over the weeks of a schedule: a schedule matches exactly in the
\* minutes of the local week its windows span, also from Saturday into Sunday.
ScheduleExact ==
  pc = "done" /\ request.via = "native" =>
    \A d \in ToSet(source.features) : \A i \in DOMAIN d.strategies :
      LET s == d.strategies[i]
      IN  s.kind = "schedule" /\ stage = "accepted" =>
            (Matches(s, d.key, request.ctx) <=>
               /\ request.ctx.time # 0
               /\ \E j \in DOMAIN s.windows : InWindow(s.windows[j], request.ctx.time + Zones[s.location]))

\* Text is UTF-8, and no operand of a fact strategy has another form than json.Marshal
\* writes.
Canonical(c) ==
  /\ \A d \in ToSet(c.features) : \A v \in {d.default} \cup {d.variants[n] : n \in DOMAIN d.variants} :
       v.data # "not_utf8"
  /\ \A d \in ToSet(c.features) \cup ToSet(c.groups) : \A i \in DOMAIN d.strategies :
       LET s == d.strategies[i]
       IN  s.kind = "fact" => s.equals.compact /\ s.equals.data # "not_utf8"

\* Export and Import: every request that is answered gets, from the definitions that
\* come back, the value, variant, reason, strategy and version it had before, although
\* the dependencies were sorted and the values rewritten.
PortableEvaluation ==
  Answered /\ Tenant(request) = Home /\ Canonical(world) =>
    \A original \in {[features |-> ByKey(world.features), groups |-> ByKey(world.groups), tenant |-> Home]} :
      \A native \in {Meaning(original, request.key, context)} :
        \A meant \in {IF request.via = "adapter" THEN mapDetail(native) ELSE native} :
          /\ answer.variant = meant.variant /\ answer.strategy = meant.strategy
          /\ answer.version = meant.version /\ answer.reason = meant.reason
          /\ answer.value.type = meant.value.type /\ answer.value.data = meant.value.data

KeysOf(list) == {d.key : d \in ToSet(list)}

\* Export and Import lose nothing and refuse nothing of their own: a document holds
\* every feature and group that was stored, it is written unless a strategy is custom
\* and read back unless a time is past the year 9999, and NewSnapshotWithGroups, which
\* accepted the definitions for Export, refuses them for Import only when its dependency
\* walk has missed an excess of depth before.
TransferComplete ==
  /\ pc = "import" =>
       /\ KeysOf(source.features) = KeysOf(world.features) /\ KeysOf(source.groups) = KeysOf(world.groups)
       /\ stage = "rejected" => cause = "depth" /\ TooDeep(Definitions)
  /\ pc = "done" /\ request.via = "transfer" /\ stage = "accepted" /\ answer.error # "" =>
       \E d \in ToSet(source.features) \cup ToSet(source.groups) : \E i \in DOMAIN d.strategies :
         LET s == d.strategies[i]
         IN  \/ s.kind = "custom"
             \/ s.kind = "time_window" /\ (s.notBefore > LastParsed \/ s.notAfter > LastParsed)

-----------------------------------------------------------------------------

\* The values below a heap value to a depth, as a tree: how many there are and what
\* they are charged, with no budget and no tracking of the path.
Tree(root) ==
  LET below[n \in DOMAIN Heap, h \in Nat] ==
        IF h = 0 THEN [count |-> 1, charge |-> 0, fits |-> FALSE]
        ELSE FoldLeft(LAMBDA sum, child :
                        LET t == below[child, h - 1]
                        IN  [count |-> sum.count + t.count, charge |-> sum.charge + t.charge,
                             fits |-> sum.fits /\ t.fits],
                      [count |-> 1, charge |-> Charge(Heap[n]), fits |-> Heap[n].kind \notin Refused],
                      Heap[n].children)
  IN  below[root, AdapterLimits.MaxEvaluationDepth + 1]

\* Some value below a heap value holds, within the depth, a value of its own type at
\* its own address: a cycle, or a slice inside a slice that begins where it does.
Reenters(root) ==
  LET under[n \in DOMAIN Heap, h \in Nat] ==
        {n} \cup IF h = 0 THEN {} ELSE UNION {under[child, h - 1] : child \in ToSet(Heap[n].children)}
      Within(n) == under[n, AdapterLimits.MaxEvaluationDepth]
  IN  \E n \in Within(root) : \E child \in ToSet(Heap[n].children) : \E m \in Within(child) :
        /\ Heap[n].kind \in Tracked /\ Heap[m].kind \in Tracked
        /\ Heap[n].visit = Heap[m].visit

\* validateStructuredValue: its walk, which tracks one path and shares one budget, lets
\* a value through exactly when the value unfolds to a tree of supported values within
\* the depth and the bounds, in which nothing holds its own type at its own address;
\* and json.Marshal then never writes more than the bound.
PreflightExact ==
  request.via = "adapter" =>
    \A f \in FactNames(request.flat) :
      LET v == request.flat[f]
          tree == Tree(v.data)
      IN  v.go = "object" =>
            /\ validateStructuredInput(v.data) <=>
                 /\ tree.fits /\ tree.charge <= AdapterLimits.MaxStructuredBytes
                 /\ tree.count <= AdapterLimits.MaxStructuredBytes /\ ~Reenters(v.data)
            /\ validateStructuredInput(v.data) =>
                 encodedSize(v.data) <= AdapterLimits.MaxStructuredBytes

\* ShutdownWithContext: the event channel is closed at most once, an owned provider is
\* closed at most once and a borrowed one never, nobody returns before both are over,
\* and at most one caller is told that the close failed.
ShutdownOnce ==
  /\ closed <= 1 /\ closes <= IF world.own THEN 1 ELSE 0
  /\ \A s \in Shutters : shut[s] \in {"nil", "failed"} =>
       closed = 1 /\ closes = IF world.own THEN 1 ELSE 0
  /\ Cardinality({s \in Shutters : shut[s] = "failed"}) <= 1
=============================================================================
