# Verification of go-feature-flags

TLA+ models of go-feature-flags, TLC runs on small instances and
TLAPS proofs for every instance. `PROJECT.json` lists the components, runs, mutants, the
source lines behind every definition, the hazards and the theorems. Paths below are
relative to `src/`.

## The system

The library evaluates feature flags from immutable snapshots and manages the definitions
behind them. Its parts, what state they hold and who changes it:

| Part | State | Operations that change it |
|---|---|---|
| In-memory provider (`memory.go`, `staged.go`, `cleanup.go`, `import.go`) | per tenant: versioned features and tombstones, versioned groups, staged changes, bounded audit trail | 16 management operations, each under one mutex |
| Durable provider (`durable.go`) over PostgreSQL or Valkey (`postgres/`, `valkey/`) | one document and revision per tenant | the same operations, as load, mutate, compare-and-swap, with bounded retries |
| Snapshot cache (`cache.go`) | entries, and a shared refresh state per tenant | `Snapshot`, `Refresh`, the mutators (which invalidate), eviction, `Close` |
| Fleet runtime (`fleet.go`) | active snapshot, refresh flight, waiters, loops, hints, lifecycle | `Bootstrap`, `Start`, `Refresh`, `Invalidate`, two loops, `Shutdown`; every call reads the clock |
| Snapshots and evaluation (`evaluate.go`, `definition.go`, `strategy*.go`, `bucket.go`, `value.go`, `context.go`) | an immutable snapshot | construction; evaluation is a pure function of a snapshot and a context |
| Codec (`codec.go`) | none | `Export` and `Import` turn definitions into a document and back |
| OpenFeature adapter (`openfeature/provider.go`) | `sync.Once`, event channel | `ShutdownWithContext`; evaluations map a context, load a snapshot and map the answer |

How they interact: the cache wraps any provider and is told of local mutations only; the
durable provider runs the in-memory operations on a decoded document; the fleet loads
complete snapshots, through a `SnapshotLoader` that may wrap a provider, and evaluates from
its active one. Every provider builds its snapshots with `NewSnapshotWithGroups`, the codec
validates with it on both sides, and the adapter evaluates the snapshots of whichever
provider it was given. Several processes share a backend and nothing else.

What is hard: refreshes, mutations and `Close` interleave around the cache's mutex and the
provider call between its critical sections; two processes race on a document and a reply
may be lost after the write; versions, stages, tombstones, purges and imports interact over
long legal call sequences; the fleet has four wait groups, a coalesced flight and two loops
to stop, and its clock may be set back; the dependency walk ranges over a Go map and shares
what it has visited between its roots, construction and evaluation bound the same graphs
separately, and groups, parents, dependencies and strategies have one order of precedence
that export must not disturb. The hazards in `PROJECT.json` give the lines.

## Modules

| Module | Models |
|---|---|
| `CachedProvider` | the cache |
| `TenantState` | one tenant's record, and guard and effect of every management operation |
| `MemoryProvider` | the operations of `TenantState` as actions on a set of tenants |
| `StageHistory` | `MemoryProvider` with a history variable: what each stage was made against |
| `AtomicProvider` | the abstract contract: a tenant changes by one admitted operation at a time |
| `DurableProvider` | the durable protocol and its backends |
| `Fleet` | the fleet runtime |
| `Strategies` | typed values, and validation and matching of the six built-in strategies |
| `SnapshotBuild` | `NewSnapshotWithGroups`: checks as predicates, the dependency walk as steps |
| `Evaluation` | evaluation of a snapshot as recursive functions, and `Meaning`, what it should give |
| `Codec` | `Export` and `Import` |
| `OpenFeature` | calls: native, batch, transfer of a document, the adapter and its shutdown |
| `MC*` | instances for TLC |
| `*Proofs` | the theorems about a module; `TenantStateProofs` and `SnapshotBuildProofs` hold lemmas that several of them use |
| `Lists` | the operators on lists that `TenantState` and `SnapshotBuild` share; its comment says why they are not taken from `SequencesExt` |
| `NaturalNumbers` | lemmas: minimum, induction, iteration, listing along an order, remainders |

Operators that no action uses and that stand directly before a definition with the same
parameters (`AnyState` before `MayPublish`, for instance) are faulty variants of it; each
run fails when its variant takes the place of the definition.

### CachedProvider

A caller executes one call; `call[c].pc` says between which steps it is. A step is a
critical section of `CachedProvider.mu`, a clock reading or a return of the wrapped
provider. `heap` holds `cacheRefreshState` objects by address, because an old state stays in
use by running refreshes after it was rotated or dropped, and an address may be used again.
A snapshot is the number of commits of the tenant that it reflects. `MaxSequence` stands for
`^uint64(0)`: rotation at the end of the range happens in the runs. `SilentCommit` is
external: another process's commit, or one that reported an error. The clock shows any
member of `Instants` at any time, earlier ones included. History variables (`floor`,
`fenced`, `rotated`, `later`) only record; no guard reads them.

### TenantState, MemoryProvider, StageHistory

For every operation there are the calls callers may make (`CreateOps`, ...), the guard that
the code's checks amount to (`CanCreate`, ...) and the effect (`Create`, ...), with version
bumps, audit entries and limits. An operation whose guard fails changes nothing, as in the
code. Definitions keep lifecycle, variants, dependencies and groups; other attributes are
part of what makes two members of `Definitions` different. Graph validation follows
`evaluate.go`; `LimitsAssumption` bounds the number of keys so that the depth guard of the
dependency walk, whose outcome depends on Go's map order, cannot fire. That is narrower than
the default limits, which allow more features than the depth. Keys and group keys are
different values, so a feature and a group of one name are left out: they share
`AuditEntry.FeatureKey` and the two actions of an import, and `AuditCurrent` could not tell
their entries apart.

### AtomicProvider and DurableProvider

`AtomicProvider` takes `Ops`, `Admits` and `Result` as parameters, so its contract holds of
any operations. `DurableProvider` steps are: a call begins; load and mutation; swap; conflict
with retry or surrender; failure without effect; a swap that takes effect although its answer
is lost. Queries and dry runs of an import only load the document and answer. `unmarshalTenantState` is what decoding rejects among the documents the encoder
writes. The refinement maps a tenant to the state of its document.

### Fleet

Goroutines are the application's `Callers` and the two loops. `fleet` holds the fields under
`fleet.mu`, `observed` is `lastObservedAt`, `wg` the wait groups, `slots` the load slots,
`joiner` the goroutine that the first `Shutdown` spawns. A call of `Shutdown` waits until the
joiner is done (`Joined`) or its context ends (`CancelJoin`, which is never fair, so
`CallsReturn` covers the wait). Critical sections, clock readings
and callbacks are separate steps. Loader, executor, cache, watcher, sleeper and jitter are
external and return anything, or an error, at any time; a sleep or a wait for a hint that
begins after `runCtx` has ended does not succeed. A candidate is a revision and a source
time; that it may be malformed is a refusal that can always happen. Attempts of the executor
are sequential. Left out, because the fleet writes and never reads them: failure codes and
the load and gap counters. `Evaluate` reads the clock once where `fleet.go:1385` reads
it again: time as the fleet observes it does not go back, so what was not fresh at the first
reading is not fresh at the second. Nil contexts and calls refused without effect are no steps.

### Strategies, SnapshotBuild, Evaluation, Codec, OpenFeature

Each module extends the one before it; `OpenFeature` is the state machine. A call begins
(`AskNative`, `AskAdapter`, `AskTransfer`), constructs a snapshot step by step, and ends with
an answer or an error. Calls are followed one at a time, because snapshots are immutable and
evaluations share nothing; `Shutdown` runs beside them in several goroutines.

`SnapshotBuild` keeps the explicit stack of `visit`, so that every order of ranging over the
map of definitions, and what earlier roots have left in `visited`, is a behaviour. Where a Go
map holds several faulty entries, any of them is the one reported.

`Evaluation` follows `evaluateKey`, `evaluateGroup` and `evaluateOneStrategy`, with the sets and
depths they pass along. `Meaning` is the reference: it numbers the places a strategy can have
(attachment, distance to the parent, position), takes the least place that matches, and
computes the variants of all features as a fixed point. It has no path, depth or set of
visited groups.

Names stand for text, and numbers for keys, because the codec sorts them. Lists of targets
are sets, so a name listed twice counts once. A value is a type and a name for its payload; for JSON
there is also whether the bytes are those that `json.Marshal` writes, since equality compares bytes
and `Export` rewrites them. SHA-256 is the parameter `Digest`; a location has a fixed offset,
so daylight saving is left out; a day has `MinutesPerDay` minutes. Byte lengths are kept for
structured facts only, where the preflight adds them up. Diagnostics, owner, metadata and
tags change no result and are left out. `Zones` holds offsets that are not negative; a week
is a circle, so that a negative one is another such offset plus whole weeks. Cycles of groups
and an excess of their depth (`evaluate.go:619`) are one cause, `"invalid"`, since no caller
tells them apart. A document is taken to fit `MaxImportBytes`; `Export` has no such bound.

A value of a structured fact is a node of `Heap`. Its `visit` is what `structuredVisit` holds,
the type and the address, and the address of a slice is that of its first element. So a slice
that holds a prefix of itself is refused as a cycle although its tree is finite;
`PreflightExact` says exactly when that happens.

Two things the code does that are easy to miss are in the model as they are. The adapter maps
with `DefaultLimits` whatever limits the native provider has, so a context it lets through can
still be refused. And `errorDetail` looks only at the wrapped error, so a snapshot that cannot be
built because a group is missing is reported as a missing flag.

## Runs

| Run | Instance | Shows |
|---|---|---|
| `cache_race` | 3 callers, 1 tenant, sequences up to 2, 3 addresses, 2 commits | type invariant; `MutationFence`: nothing from before a returned local mutation is published; `PublicationOrder`; `EarlierFetchSurvives`; `TrackingExact`: states are tracked while used and no longer |
| `cache_tenants` | 2 callers, 2 tenants, room for 1, clock {0, 2} | `RetentionBound`; `ReadYourWrites`, hits and fallbacks included (not how old a fallback is) |
| `tenant_stages` | 2 dependent features, 2 stages, purges, an import | `StageUnchanged`: a stage that can be applied faces the record it was made against; `VersionTracksChange` |
| `tenant_groups` | 3 groups, 1 feature, audit trail of 2 | `GroupForest`; `AuditCurrent` |
| `durable_contention` | 2 clients, 1 document, 1 retry, 3 revisions | `WritesOnce`: one write for a call that succeeds, none for a query or a dry run; `ConflictsAreProgress`, `KeepsContract` (refinement) |
| `fleet_lifecycle` | 2 callers, both loops, 1 waiter, 1 slot, 2 attempts | waiters and slots within limits; `FlightExact`; `ShutdownQuiet`; `ShutdownCompletes` and `CallsReturn` (liveness) |
| `fleet_freshness` | 2 callers, cache, 3 source times, 4 instants | `ActiveAdvances`, `NoRevival` |
| `evaluation` | 8 families of stores and requests (`MCScenarios`), depth 2 | `AcceptedIsSound` and `RefusalHasCause` of construction; `EvaluationAgrees` with `Meaning`; `EvaluationTotal`; `TenantScoped`; `ScheduleExact`; `PortableEvaluation` of what is answered after a transfer; `TransferComplete`: a transfer loses and refuses nothing; `PreflightExact`; `ShutdownOnce` |

Why the bounds are enough: three callers give a reader, a writer and an overtaking refresh
on one state; two sequences reach rotation, and three addresses allow a rotated state, its
successor and a dropped one to be in use at once. Two stages and versions up to 3 allow
delete, purge and re-creation under a pending stage. Two clients with one retry reach
surrender, and three revisions let each of its attempts be overtaken. In the fleet, two
callers and two loops give a leader, a follower, a refused waiter and a stopping goroutine
at once; four instants let a snapshot pass `FreshFor` and then `PolicyStaleness`. For
evaluation, all 512 graphs of three features hold every shape of cycle, sharing and
diamond that the walk tells apart, each in all orders; four features in a line pass the
depth bound. Three groups, attached up to three times in any order, share parents and repeat
themselves. Days of three minutes let a schedule be evaluated at every minute of a week,
and thresholds and windows at, before and after their edges. Three goroutines shut down.
Symmetry is used for interchangeable callers, addresses, clients, never with liveness.
Deadlock is not checked where the program may stop for good: a cache whose callers make no
further calls once the bounds are used up, a fleet that has stopped.

Fairness, used by `ShutdownCompletes` and `CallsReturn` only: weak fairness of each goroutine's own steps, of
each loop and of the joiner. A runnable goroutine is scheduled; `LoadTimeout` ends the wait
for a slot; callbacks return because they "must cooperate with cancellation"
(`fleet.go:534`). Calls of the application and the end of its contexts are not fair.

### Where the code and its documentation disagree

Four runs are expected to fail, one for each line of documentation:

- `tenant_restore`: a group that only a tombstone refers to can be deleted, and `Restore`
  brings the reference back (`memory.go:254`).
- `durable_contract`: `Create` stores a feature with a missing group, after which the document
  no longer decodes, while the in-memory tenant can be repaired (`README.md:54`).
- `fleet_convergence`: `Status` reports a breach for a revision that was met in time and then
  superseded (`fleet.go:442`).
- `evaluation_depth`: a chain of dependencies longer than `MaxEvaluationDepth` is accepted when
  the map is ranged over from its end, because a visited key ends the walk without the
  depth below it; evaluation of its head then fails (`docs/native-api.md:45`).

Three smaller ones were met while modelling and have no run. The age of a cache fallback is
taken before the fetch, so a slow failure hands out an entry older than `MaxOutageStaleness`
(`cache.go:172`, against `cache.go:25`). An import ignores tombstones when it checks
`MaxFeatures` (`import.go:166`, against `definition.go:86`). A fact strategy whose JSON operand
is not in the form `json.Marshal` writes, or whose text is not UTF-8, has another operand after
`Export` and `Import` (`codec.go:288`); `PortableEvaluation` excludes both by `Canonical`. A
time window past the year 9999 is exported and not imported again (`codec.go:441`);
`TransferComplete` names it.

`docs/source-documentation-audit.md:42-45` and `:87` say that `Export` sorts attachments and that
the cache has no fence against refreshes in flight. They record an earlier commit; the code,
its tests, `docs/migration.md`, `docs/compatibility.md` and `CHANGELOG.md` have moved on, so
they are not counted as a disagreement.

## Proofs

Every safety property that a passing run checks is also proved for all values of the
constants, save five of evaluation (below). The constants are restricted only by the named
assumptions, which TLC evaluates in the runs:

| Assumption | Why the code justifies it |
|---|---|
| `ConfigAssumption` (cache) | what `NewCachedProvider` enforces; finitely many callers; an address is not nil |
| `LimitsAssumption`, `InputsAssumption` (tenants) | limits are not negative, keys are finitely many and not groups, definitions and documents are well typed; keys too few for the depth guard, see above |
| `RetryAssumption` (durable) | limits are not negative |
| `FleetAssumption` (fleet) | what `FleetConfig` validation enforces; goroutines are distinct and finitely many |
| `DepthAssumption`, `ClockAssumption`, `ScenarioAssumption` (evaluation, adapter) | limits are not negative, a day has minutes; the arguments of a construction are well typed; a provider refuses an empty tenant (`memory.go:543`), as does the adapter when it is made (`openfeature/provider.go:54`) |

### Cache: `CachedProviderProofs`

- `TypeCorrect`: in particular no sequence passes `MaxSequence`, by rotation.
- `FenceCorrect`, `ReadYourWritesCorrect`: `MutationFence` and `ReadYourWrites`. Neither is
  inductive: a fetch in flight may carry an old snapshot, and what stops it is that the
  state it was admitted to is no longer the tenant's. `FenceInv` says so: every entry is at
  least as new as `floor`, and a running refresh either fetches from a version at or above
  `floor`, or holds a state that the tenant does not point to and that, being in use, cannot
  be handed out again.
- `TrackingCorrect`, `PublicationCorrect`, `EarlierFetchCorrect`: `TrackingExact`,
  `PublicationOrder`, `EarlierFetchSurvives`. The code decides by state and sequence, the
  properties by what happened to the call. `OrderInv` shows that the two agree: `TrackInv`
  (the count of a state is the number of refreshes that hold it, all of one tenant, so that
  no state is reused under a refresh), `SequenceInv` (sequences follow admissions) and
  `OvertakeInv` (a fenced call has lost its state or its turn; one that was neither fenced
  nor rotated out has kept both).
- `RetentionCorrect`: `RetentionBound`, with the fact that eviction frees a place.

### Tenants: `TenantStateProofs`, `MemoryProviderProofs`

`TenantStateProofs` proves of each operation, on a tenant record, that it keeps `StateInv`
(types and limits, `ForestOK`, `AuditOK`) and `Keeps` (versions rise by one; stages are made
against what is stored). The two providers cite this result. `ForestOK` needs an argument of
its own, because `DeleteGroup` does not validate the graph: a group that is nobody's parent
can be taken out of a forest. It runs by induction on the distance to the root.

- `TypeCorrect`, `ForestCorrect`, `AuditCorrect`, `VersionCorrect`: `TypeOK`, `GroupForest`,
  `AuditCurrent`, `VersionTracksChange`, by `Inv`.
- `StageCorrect`: `StageUnchanged`. `HInv` adds `StageInv`: the feature of a stage is retained, its
  version has not fallen below the staged one, and while it is equal the record is the same.

### Durable provider: `DurableProviderProofs`

- `TypeCorrect`, `WritesOnceCorrect`, `ConflictsCorrect`: attempts stay within the limit, a call
  writes at most once, exactly once if a mutation succeeds and never for a query or a dry run, and every conflict stands for a
  revision another client stored since. The invariant `Inv` adds that what a client is
  about to swap is the result of its operation on the document at the revision it loaded.
- `ContractKept`: `Spec => KeepsContract`. Given `Inv`, a swap at a matching revision maps to one
  `AtomicProvider` step, and every other step to a stutter.
- `DocumentsCorrect`, `StoredVersionsCorrect`: by the refinement and `TenantStateProofs`, storage
  only holds documents with the invariants of the in-memory provider, and a stored feature
  changes with its version, whatever clients lose and retry.

### Fleet: `FleetProofs`

`FleetInv` is one invariant for the lifecycle: `CountInv` (waiters, slots and wait groups
count exactly the goroutines at the places they stand for), `LeadInv` (the flight is the one
goroutine that leads), `StartInv` (the loops run only after `Start`) and `StopInv` (what the
joiner has waited for is over for good, because nothing is admitted after the stop).

- `TypeCorrect`, `FlightCorrect`, `ShutdownCorrect`: `TypeOK`, `FlightExact`, `ShutdownQuiet`.
- `ActiveCorrect`: `ActiveAdvances`, from the comparison in the critical section that activates.
- `RevivalCorrect`: `NoRevival`, by `AgeInv`: what was found too old is too old at
  `lastObservedAt`, which only advances.

### Construction, evaluation, adapter: `SnapshotBuildProofs`, `OpenFeatureProofs`

The walk of `validateDependencyGraph` has the invariant `WalkOK`: the visited keys are in an
order in which each comes after all it depends on; no two active calls are for one key; and
every call has visited the dependencies before its next one, save the one the call above it
is for. Each step keeps it, for any graph and any choice of roots. An order of all keys
leaves no room for a cycle; an active call that is met again closes one; and as many active
calls as the limit allows are a chain of that length.

- `AcceptanceSound`, `RefusalJustified`: `AcceptedIsSound`, `RefusalHasCause`, by `BuildInv`.
- `TenantsSeparate`: `TenantScoped`, by `CallInv`: a snapshot is bound to the tenant of its
  request, and what is evaluated is the request's context. Since a transfer replaces what is
  stored, this needs that an imported document is again a well-typed argument, and so that
  sorting permutes; `Listing` proves that a sorted permutation exists.
- `ScheduleCorrect`: `ScheduleExact`, for every length of the day, from the uniqueness of
  remainders.
- `ShutdownCorrect`, `TypeCorrect`: `ShutdownOnce`, `TypeOK`. `ShutInv` says who is inside `once.Do`.

### What stays with TLC

- Liveness (`ShutdownCompletes`, `CallsReturn`), which is beyond the prover.
- `EvaluationAgrees`, `EvaluationTotal`, `PortableEvaluation` and `TransferComplete`. Evaluation is recursive in
  several arguments at once (path, depth, visited groups), and the reference is a fixed
  point. The prover cannot instantiate induction schemes; the induction over numbers
  of `NaturalNumbers`, which is stated with sets, serves distances, orders and lists, but
  these walks would need it for functions of records.
- `PreflightExact`, which is about sums over nested values.
- The four runs that are expected to fail.

## Not modelled

The value of SHA-256 and the tz database, which are parameters; diagnostics and their
truncation; documents `Export` did not write (JSON syntax, unknown fields); backend
migrations, key hashing, client ownership and health checks; the fleet's failure codes and
jitter, which no decision of it reads, and `ProviderSnapshotLoader`; the conformance suite,
which is test code; and Lua's inexact comparison of revisions beyond 2^53, which
`valkey/native.go:104` excludes.

Convergence of the fleet under an eventually reliable loader is not stated as liveness: a
refresh needs the clock to advance by `MinRefreshInterval`, and with the bounded clock of the
model every refresh is deferred in the end.

## Plan

1. Modelling: a composition of the cache with the durable provider, where commits of other
   processes are real; evaluations of the adapter concurrent with the closing of its provider.
2. Proofs: `MemoryProvider` implements `AtomicProvider`; `EvaluationTotal` for accepted
   definitions within the depth limit; `PreflightExact`.
