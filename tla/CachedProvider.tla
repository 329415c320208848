--------------------------- MODULE CachedProvider ---------------------------
(***************************************************************************)
(* The process-local snapshot cache (cache.go): Snapshot, Refresh, the     *)
(* mutators that invalidate, Close, and the wall clock they read.          *)
(*                                                                         *)
(* A caller runs one call at a time; every step of a call that takes the   *)
(* cache mutex, reads the clock or returns from the wrapped provider is an *)
(* action of its own, because another caller may run between them.  A      *)
(* tenant's snapshot is abstracted to the number of commits it reflects,   *)
(* so "older" and "newer" snapshots can be told apart.                     *)
(***************************************************************************)
EXTENDS Integers, FiniteSets

CONSTANTS
  Tenants,             \* tenant keys, numbers so that evictOldestLocked can order them
  Callers,             \* goroutines that use the cache
  States,              \* addresses a *cacheRefreshState can have
  Nil,                 \* the nil *cacheRefreshState
  MaxTenants,          \* CacheConfig.MaxTenants
  MaxSequence,         \* stands for ^uint64(0), the last sequence of a state
  MaxStaleness,        \* CacheConfig.MaxStaleness
  MaxOutageStaleness,  \* CacheConfig.MaxOutageStaleness
  FailOpen,            \* CacheConfig.FailurePolicy = FailOpen
  Instants,            \* what the clock may show
  MaxVersion           \* bound on the commits of one tenant

\* NewCachedProvider refuses a configuration outside these bounds.
ASSUME ConfigAssumption ==
  /\ Tenants \subseteq Nat /\ Tenants # {}
  /\ IsFiniteSet(Callers) /\ Nil \notin States
  /\ MaxTenants \in Nat \ {0}
  /\ MaxSequence \in Nat \ {0}
  /\ MaxStaleness \in Nat \ {0}
  /\ MaxOutageStaleness \in Nat
  /\ MaxOutageStaleness >= MaxStaleness
  /\ FailOpen \in BOOLEAN
  /\ Instants \subseteq Nat /\ 0 \in Instants
  /\ MaxVersion \in Nat

VARIABLES
  clock,      \* what CacheClock.Now would return
  version,    \* commits of each tenant in the wrapped provider
  entries,    \* CachedProvider.entries
  refreshes,  \* CachedProvider.refreshes, a pointer per tenant
  heap,       \* the cacheRefreshState at each address
  call,       \* what each caller is executing
  floor,      \* history: newest commit whose local mutation has returned
  fenced,     \* history: a newer publication or an invalidation overtook the call
  rotated,    \* history: the state of the call was rotated out
  later       \* history: running refreshes of the same tenant admitted later

history == <<floor, fenced, rotated, later>>
vars == <<clock, version, entries, refreshes, heap, call, floor, fenced, rotated, later>>

\* A cachedSnapshot; commit 0 never exists, so version 0 marks a missing entry.
Entry == [version : Nat, fetched : Nat]
Absent == [version |-> 0, fetched |-> 0]

\* The sequences are uint64: they stay within their width, MaxSequence.
RefreshState == [running : Int, next : 0..MaxSequence, published : 0..MaxSequence]
NewState == [running |-> 0, next |-> 0, published |-> 0]
Joined(s) == [running |-> s.running + 1, next |-> s.next + 1, published |-> s.published]
Left(s) == [running |-> s.running - 1, next |-> s.next, published |-> s.published]

\* "returned" is an idle caller that still remembers what its last call gave it.
PC == {"idle", "read", "admit", "fetch", "stamp", "publish", "end", "invalidate", "returned"}

Call == [pc : PC, tenant : Tenants, now : Nat, entry : Entry,
         state : States \cup {Nil}, seq : 0..MaxSequence, got : Entry, floor : Nat, result : Entry]

\* A caller with nothing in progress for tenant t; f is the floor it starts from.
Blank(t, f) == [pc |-> "idle", tenant |-> t, now |-> 0, entry |-> Absent, state |-> Nil,
                seq |-> 0, got |-> Absent, floor |-> f, result |-> Absent]

Free(c) == call[c].pc \in {"idle", "returned"}

\* Refreshes admitted by beginRefresh whose deferred endRefresh has not run.
Refreshing(c) == call[c].pc \in {"fetch", "stamp", "publish", "end"}

Cached == {t \in Tenants : entries[t] # Absent}

boundedAge(now, then) == IF now < then THEN 0 ELSE now - then

-----------------------------------------------------------------------------
Init ==
  /\ clock = 0
  /\ version = [t \in Tenants |-> 1]
  /\ entries = [t \in Tenants |-> Absent]
  /\ refreshes = [t \in Tenants |-> Nil]
  /\ heap = [s \in States |-> NewState]
  /\ floor = [t \in Tenants |-> 0]
  /\ call = [c \in Callers |-> Blank(CHOOSE t \in Tenants : TRUE, 0)]
  /\ fenced = [c \in Callers |-> FALSE]
  /\ rotated = [c \in Callers |-> FALSE]
  /\ later = [c \in Callers |-> {}]

-----------------------------------------------------------------------------
\* The address new() can return: nothing reaches it any more.
Unreachable(s) ==
  /\ \A t \in Tenants : refreshes[t] # s
  /\ \A c \in Callers : Refreshing(c) => call[c].state # s

\* A new state is needed when there is none or its sequence would overflow.
NoRotation(t) == refreshes[t] = Nil

NeedsState(t) == refreshes[t] # Nil => heap[refreshes[t]].next = MaxSequence

\* beginRefresh for the call r of caller c: join the tenant's state, or install
\* a new one.
beginRefresh(c, r) ==
  LET t == r.tenant
      s == refreshes[t]
      Admitted(state, sequence) ==
        call' = [call EXCEPT ![c] = [r EXCEPT !.pc = "fetch", !.state = state, !.seq = sequence]]
  IN  /\ \/ /\ ~NeedsState(t)
            /\ heap' = [heap EXCEPT ![s] = Joined(@)]
            /\ Admitted(s, heap[s].next + 1)
            /\ rotated' = [rotated EXCEPT ![c] = FALSE]
            /\ UNCHANGED refreshes
         \/ /\ NeedsState(t)
            /\ \E n \in States :
                 /\ Unreachable(n)
                 /\ heap' = [heap EXCEPT ![n] = Joined(NewState)]
                 /\ refreshes' = [refreshes EXCEPT ![t] = n]
                 /\ Admitted(n, 1)
            /\ rotated' = [d \in Callers |->
                 d # c /\ (rotated[d] \/ (s # Nil /\ Refreshing(d) /\ call[d].state = s))]
      /\ fenced' = [fenced EXCEPT ![c] = FALSE]
      /\ later' = [d \in Callers |->
           IF d = c THEN {}
           ELSE IF Refreshing(d) /\ call[d].tenant = t THEN later[d] \cup {c} ELSE later[d]]
      /\ UNCHANGED <<clock, version, entries, floor>>

\* A direct Refresh call: admission is its first shared step.
Refresh(c) ==
  /\ Free(c)
  /\ \E t \in Tenants : beginRefresh(c, Blank(t, floor[t]))

\* Snapshot reads the clock before it looks at the entry ...
SnapshotNow(c) ==
  /\ Free(c)
  /\ \E t \in Tenants :
       call' = [call EXCEPT ![c] = [Blank(t, floor[t]) EXCEPT !.pc = "read", !.now = clock]]
  /\ UNCHANGED <<clock, version, entries, refreshes, heap, history>>

\* The call is over; a caller that got an error remembers nothing of it.
Return(c, result) ==
  call' = [call EXCEPT ![c] =
             IF result = Absent THEN Blank(call[c].tenant, 0)
             ELSE [Blank(call[c].tenant, call[c].floor)
                     EXCEPT !.pc = "returned", !.result = result]]

\* ... then reads the entry under RLock, and returns a fresh enough one.
SnapshotRead(c) ==
  LET r == call[c]
      e == entries[r.tenant]
  IN  /\ r.pc = "read"
      /\ IF e # Absent /\ boundedAge(r.now, e.fetched) <= MaxStaleness
         THEN Return(c, e)
         ELSE call' = [call EXCEPT ![c] = [r EXCEPT !.pc = "admit", !.entry = e]]
      /\ UNCHANGED <<clock, version, entries, refreshes, heap, history>>

\* The Refresh inside a Snapshot that missed.
SnapshotRefresh(c) ==
  /\ call[c].pc = "admit"
  /\ beginRefresh(c, call[c])

\* The wrapped provider's Snapshot reads one committed state.
Fetch(c) ==
  /\ call[c].pc = "fetch"
  /\ call' = [call EXCEPT ![c] =
       [@ EXCEPT !.pc = "stamp", !.got = [version |-> version[call[c].tenant], fetched |-> 0]]]
  /\ UNCHANGED <<clock, version, entries, refreshes, heap, history>>

\* ... or fails, or returns more definitions than MaxFeaturesPerTenant.
FetchError(c) ==
  /\ call[c].pc = "fetch"
  /\ call' = [call EXCEPT ![c] = [@ EXCEPT !.pc = "end"]]
  /\ UNCHANGED <<clock, version, entries, refreshes, heap, history>>

\* fetched: provider.config.Clock.Now()
Stamp(c) ==
  /\ call[c].pc = "stamp"
  /\ call' = [call EXCEPT ![c] = [@ EXCEPT !.pc = "publish", !.got.fetched = clock]]
  /\ UNCHANGED <<clock, version, entries, refreshes, heap, history>>

\* evictOldestLocked: the oldest fetch time, the smallest tenant among equals.
evictOldest ==
  LET oldest == {t \in Cached : \A u \in Cached : entries[t].fetched <= entries[u].fetched}
      victim == CHOOSE t \in oldest : \A u \in oldest : t <= u
  IN  [entries EXCEPT ![victim] = Absent]

\* A tenant beyond MaxTenants takes the place of the oldest entry.
NoEviction(t) == entries

MakeRoom(t) ==
  IF t \notin Cached /\ Cardinality(Cached) >= MaxTenants THEN evictOldest ELSE entries

AnyState(c) == call[c].seq > heap[call[c].state].published

AnySequence(c) == refreshes[call[c].tenant] = call[c].state

OnlyNewest(c) ==
  LET r == call[c]
  IN  refreshes[r.tenant] = r.state /\ r.seq = heap[r.state].next

\* The critical section of Refresh: store unless the state was replaced or a
\* later admission already published.
MayPublish(c) ==
  LET r == call[c]
  IN  refreshes[r.tenant] = r.state /\ r.seq > heap[r.state].published

Publish(c) ==
  LET r == call[c]
  IN  /\ r.pc = "publish"
      /\ call' = [call EXCEPT ![c] = [@ EXCEPT !.pc = "end"]]
      /\ \/ /\ MayPublish(c)
            /\ entries' = [MakeRoom(r.tenant) EXCEPT ![r.tenant] = r.got]
            /\ heap' = [heap EXCEPT ![r.state] = [@ EXCEPT !.published = r.seq]]
            /\ fenced' = [d \in Callers |-> fenced[d] \/ c \in later[d]]
         \/ /\ ~MayPublish(c)
            /\ UNCHANGED <<entries, heap, fenced>>
      /\ UNCHANGED <<clock, version, refreshes, floor, rotated, later>>

\* What Snapshot and Refresh return once the deferred endRefresh has run: the
\* snapshot read, or after an error the entry read at the start, if FailOpen
\* and its age then was within MaxOutageStaleness.
Result(r) ==
  IF r.got # Absent THEN r.got
  ELSE IF FailOpen /\ r.entry # Absent
          /\ boundedAge(r.now, r.entry.fetched) <= MaxOutageStaleness
       THEN r.entry ELSE Absent

BeforeDecrement(r) == heap[r.state].running = 0

\* No other refresh still uses the state.
LastReader(r) == heap[r.state].running = 1

\* endRefresh, and the return of the call.  A state whose last reader leaves is
\* unreachable afterwards, so its memory is reclaimed.
EndRefresh(c) ==
  LET r == call[c]
      last == LastReader(r)
  IN  /\ r.pc = "end"
      /\ heap' = [heap EXCEPT ![r.state] =
                    IF last THEN NewState ELSE Left(@)]
      /\ refreshes' = IF last /\ refreshes[r.tenant] = r.state
                      THEN [refreshes EXCEPT ![r.tenant] = Nil] ELSE refreshes
      /\ Return(c, Result(r))
      /\ fenced' = [fenced EXCEPT ![c] = FALSE]
      /\ rotated' = [rotated EXCEPT ![c] = FALSE]
      /\ later' = [d \in Callers |-> IF d = c THEN {} ELSE later[d] \ {c}]
      /\ UNCHANGED <<clock, version, entries, floor>>

-----------------------------------------------------------------------------
\* A mutator delegates; the wrapped provider commits.  Mutators that leave the
\* snapshot alone (StageUpdate, a dry-run import, an ApplyScheduled or Cleanup
\* that reports nothing) neither commit here nor invalidate.
Mutate(c) ==
  /\ Free(c)
  /\ \E t \in Tenants :
       /\ version[t] < MaxVersion
       /\ version' = [version EXCEPT ![t] = @ + 1]
       /\ call' = [call EXCEPT ![c] =
            [Blank(t, floor[t]) EXCEPT !.pc = "invalidate",
                                       !.got = [version |-> version[t] + 1, fetched |-> 0]]]
  /\ UNCHANGED <<clock, entries, refreshes, heap, history>>

KeepRefreshes(t) == refreshes

\* delete(provider.refreshes, tenant)
DropRefreshes(t) == [refreshes EXCEPT ![t] = Nil]

\* invalidateOnSuccess, and the return of the mutator.
invalidateOnSuccess(c) ==
  LET t == call[c].tenant
      v == call[c].got.version
  IN  /\ call[c].pc = "invalidate"
      /\ entries' = [entries EXCEPT ![t] = Absent]
      /\ refreshes' = DropRefreshes(t)
      /\ floor' = [floor EXCEPT ![t] = IF v > @ THEN v ELSE @]
      /\ fenced' = [d \in Callers |->
           fenced[d] \/ (Refreshing(d) /\ call[d].tenant = t)]
      /\ Return(c, Absent)
      /\ UNCHANGED <<clock, version, heap, rotated, later>>

\* A commit this cache is not told about: by another process, or by a local
\* mutation whose error hid that it committed (an error never invalidates).
SilentCommit(t) ==
  /\ version[t] < MaxVersion
  /\ version' = [version EXCEPT ![t] = @ + 1]
  /\ UNCHANGED <<clock, entries, refreshes, heap, call, history>>

\* Close forgets every entry and every refresh state, and delegates.
Close ==
  /\ entries' = [t \in Tenants |-> Absent]
  /\ refreshes' = [t \in Tenants |-> Nil]
  /\ fenced' = [d \in Callers |-> fenced[d] \/ Refreshing(d)]
  /\ UNCHANGED <<clock, version, heap, call, floor, rotated, later>>

\* The wall clock advances or is set back.
ClockStep ==
  /\ clock' \in Instants
  /\ UNCHANGED <<version, entries, refreshes, heap, call, history>>

Next ==
  \/ \E c \in Callers :
       \/ Refresh(c)
       \/ SnapshotNow(c)
       \/ SnapshotRead(c)
       \/ SnapshotRefresh(c)
       \/ Fetch(c)
       \/ FetchError(c)
       \/ Stamp(c)
       \/ Publish(c)
       \/ EndRefresh(c)
       \/ Mutate(c)
       \/ invalidateOnSuccess(c)
  \/ \E t \in Tenants : SilentCommit(t)
  \/ Close
  \/ ClockStep

Spec == Init /\ [][Next]_vars

-----------------------------------------------------------------------------
\* Types: in particular the sequences of every refresh state fit their width,
\* because beginRefresh rotates the state before the counter can overflow.
TypeOK ==
  /\ clock \in Nat
  /\ version \in [Tenants -> Nat]
  /\ entries \in [Tenants -> Entry]
  /\ refreshes \in [Tenants -> States \cup {Nil}]
  /\ heap \in [States -> RefreshState]
  /\ call \in [Callers -> Call]
  /\ floor \in [Tenants -> Nat]
  /\ fenced \in [Callers -> BOOLEAN]
  /\ rotated \in [Callers -> BOOLEAN]
  /\ later \in [Callers -> SUBSET Callers]

\* Once a local mutation has returned, no entry older than its commit is in the
\* cache, whatever refreshes were running across it: "Mutation invalidation
\* removes this state so pre-mutation reads cannot repopulate the cache".
MutationFence ==
  \A t \in Cached : entries[t].version >= floor[t]

\* A Snapshot or Refresh that started after a local mutation returned never
\* gives its caller a snapshot from before that mutation, be it a hit, a read
\* or the FailOpen fallback.
ReadYourWrites ==
  \A c \in Callers :
    call[c].pc = "returned" => call[c].result.version >= call[c].floor

Stores(c) ==
  /\ call[c].pc = "publish"
  /\ call'[c].pc = "end"
  /\ heap'[call[c].state].published # heap[call[c].state].published

\* "older admitted reads cannot publish after a newer successful refresh or local
\* mutation invalidation": a call overtaken by either never stores its snapshot,
\* across rotation of the state, eviction and Close.
PublicationOrder ==
  [][\A c \in Callers : Stores(c) => ~fenced[c]]_vars

\* "Failed fetches do not fence successful earlier fetches": a successful fetch
\* that nothing overtook is stored, unless the sequence was rotated meanwhile.
EarlierFetchSurvives ==
  [][\A c \in Callers :
       call[c].pc = "publish" /\ call'[c].pc = "end" /\ ~fenced[c] /\ ~rotated[c]
         => Stores(c)]_vars

Readers(s) == {c \in Callers : Refreshing(c) /\ call[c].state = s}

\* "Publication ordering exists only while a tenant has outstanding refreshes":
\* a tenant's state counts exactly the refreshes that use it, there is at least
\* one, and they are refreshes of that tenant, so the map cannot leak states.
TrackingExact ==
  \A t \in Tenants :
    LET s == refreshes[t]
    IN  s # Nil => /\ Readers(s) # {}
                   /\ heap[s].running = Cardinality(Readers(s))
                   /\ \A c \in Readers(s) : call[c].tenant = t

\* The cache retains at most MaxTenants snapshots.
RetentionBound == Cardinality(Cached) <= MaxTenants
====
