-------------------------------- MODULE Fleet --------------------------------
(***************************************************************************)
(* The fleet runtime (fleet.go): one tenant's active snapshot, its         *)
(* bootstrap, the coalesced refresh, the refresh and watch loops that      *)
(* Start spawns, invalidation hints, degraded evaluation and Shutdown.     *)
(*                                                                         *)
(* A goroutine is a process with a record of where it is; every critical   *)
(* section of fleet.mu, every clock reading and every return of a callback *)
(* (loader, cache, watcher, sleeper) is a step of its own.  Callbacks are  *)
(* external: they return anything, or an error, at any time.  A snapshot   *)
(* is abstracted to its revision and source time.  Left out is what the    *)
(* fleet writes and never reads: failure codes and load and gap counters.  *)
(***************************************************************************)
EXTENDS Integers, FiniteSets

CONSTANTS
  Callers, Refresher, Watcher,   \* goroutines: the application's, refreshLoop, watchLoop
  None,
  Calls,                         \* the public calls the application makes
  Revisions, Streams,
  MaxTime,                       \* bound on what the clock shows
  SourceTimes,                   \* the source times of what the loader and the cache return
  MaxSequence,                   \* bound on the sequences of a stream
  FreshFor, MaxStaleness, MaxFutureSkew, MinRefreshInterval, ConvergenceWindow,
  MaxWaiters, MaxProviderLoads, MaxConcurrentProviderLoads, MaxInvalidationStreams,
  AllowStaleBootstrap,           \* the FleetConfig fields of these names
  PolicyStaleness,               \* FlagPolicy.MaxStaleness of a last-known-good flag
  HasCache, HasWatcher           \* FleetConfig.Cache and .Watcher are set

\* NewFleet refuses a configuration outside these bounds.
ASSUME FleetAssumption ==
  /\ IsFiniteSet(Callers) /\ Refresher # Watcher
  /\ None \notin Callers \cup {Refresher, Watcher} \cup Revisions
  /\ Callers \cap {Refresher, Watcher} = {}
  /\ {MaxTime, MaxSequence, MaxFutureSkew} \cup SourceTimes \subseteq Nat
  /\ {FreshFor, MaxStaleness, PolicyStaleness, MinRefreshInterval, ConvergenceWindow,
      MaxWaiters, MaxProviderLoads, MaxConcurrentProviderLoads, MaxInvalidationStreams}
       \subseteq Nat \ {0}
  /\ FreshFor <= MaxStaleness /\ PolicyStaleness <= MaxStaleness
  /\ MinRefreshInterval < ConvergenceWindow
  /\ {AllowStaleBootstrap, HasCache, HasWatcher} \subseteq BOOLEAN

VARIABLES
  observed,    \* Fleet.lastObservedAt
  fleet,       \* the fields that fleet.mu guards
  wg,          \* the counters of the four wait groups
  slots,       \* tokens in Fleet.loadSlots
  cancelled,   \* runCtx has ended
  joiner,      \* where the goroutine that Shutdown spawns is
  proc,        \* what each goroutine is executing
  expired,     \* history: newest source time an evaluation has found too old
  met          \* history: the requested revision was activated by its deadline

vars == <<observed, fleet, wg, slots, cancelled, joiner, proc, expired, met>>

Procs == Callers \cup {Refresher, Watcher}
Times == 0..MaxTime
Candidate == [rev : Revisions, src : SourceTimes]
Hint == [stream : Streams, seq : 0..MaxSequence, rev : Revisions]

boundedAge(now, then) == IF now < then THEN 0 ELSE now - then

\* A goroutine that executes nothing; "ok" is whether what it called succeeded.
Blank == [pc |-> "idle", kind |-> None, now |-> 0, hint |-> None, cand |-> None,
          ok |-> None, late |-> FALSE, tries |-> 0]

Goto(p, r) == proc' = [proc EXCEPT ![p] = r]
At(p, pc) == proc[p].pc = pc

Init ==
  /\ observed = 0
  /\ fleet = [active |-> None, state |-> "cold", closed |-> FALSE, flight |-> None,
              waiters |-> 0, last |-> None, starting |-> FALSE, started |-> FALSE,
              watching |-> FALSE, streams |-> [s \in Streams |-> 0],
              deadline |-> None, wanted |-> None]
  /\ wg = [run |-> 0, refresh |-> 0, load |-> 0, bootstrap |-> 0]
  /\ slots = 0
  /\ cancelled = FALSE
  /\ joiner = "none"
  /\ proc = [p \in Procs |-> Blank]
  /\ expired = [fresh |-> -1, good |-> -1]
  /\ met = FALSE

-----------------------------------------------------------------------------
(* The clock                                                               *)

NoClamp(n) == observed' = n

\* now(): the clock may show anything, set back included; what the fleet takes
\* for the time is never less than what it has seen before.
now(n) == n >= observed /\ observed' = n

\* degradeIfStaleLocked, with a time read before the lock was taken.
degradeIfStale(n) ==
  IF fleet.closed \/ fleet.active = None \/ boundedAge(n, fleet.active.src) <= FreshFor
  THEN fleet ELSE [fleet EXCEPT !.state = "degraded"]

-----------------------------------------------------------------------------
(* Loading and activating a candidate, for Bootstrap and for the leader of  *)
(* a refresh                                                                *)

Bootstrapping(p) == proc[p].kind \in {"bootstrap", "start"}

\* Where a goroutine goes once its candidate is active, or there is none.
Finish(p, ok) ==
  [Blank EXCEPT !.pc = IF Bootstrapping(p) THEN "leave" ELSE "loaded",
                !.kind = proc[p].kind, !.ok = ok]

\* Bootstrap falls back to the cache, once.
GiveUp(p) ==
  IF Bootstrapping(p) /\ HasCache /\ proc[p].ok = None
  THEN [Blank EXCEPT !.pc = "cacheLoad", !.kind = proc[p].kind, !.ok = FALSE]
  ELSE Finish(p, FALSE)

\* The executor gives up on the load, or tries again while attempts remain.
LoadFails(p) ==
  \/ Goto(p, GiveUp(p)) /\ wg' = [wg EXCEPT !.load = @ - 1]
  \/ /\ proc[p].tries < MaxProviderLoads
     /\ Goto(p, [proc[p] EXCEPT !.pc = "slot", !.tries = @ + 1])
     /\ UNCHANGED wg

\* load: admission, and the operation's first attempt.
Load(p) ==
  /\ At(p, "load")
  /\ IF fleet.closed
     THEN Goto(p, GiveUp(p)) /\ UNCHANGED wg
     ELSE /\ Goto(p, [proc[p] EXCEPT !.pc = "slot", !.tries = 1])
          /\ wg' = [wg EXCEPT !.load = @ + 1]
  /\ UNCHANGED <<observed, fleet, slots, cancelled, joiner, expired, met>>

AcquireSlot(p) ==
  /\ At(p, "slot")
  /\ slots < MaxConcurrentProviderLoads
  /\ slots' = slots + 1
  /\ Goto(p, [proc[p] EXCEPT !.pc = "loading"])
  /\ UNCHANGED <<observed, fleet, wg, cancelled, joiner, expired, met>>

\* LoadTimeout, the caller or the end of the fleet cancels the wait for a slot.
AbandonSlot(p) ==
  /\ At(p, "slot")
  /\ LoadFails(p)
  /\ UNCHANGED <<observed, fleet, slots, cancelled, joiner, expired, met>>

\* The loader returns a candidate or an error.
LoadReturns(p) ==
  /\ At(p, "loading")
  /\ slots' = slots - 1
  /\ \/ /\ \E c \in Candidate :
             Goto(p, [proc[p] EXCEPT !.pc = "activate", !.cand = c, !.tries = 0])
        /\ wg' = [wg EXCEPT !.load = @ - 1]
     \/ LoadFails(p)
  /\ UNCHANGED <<observed, fleet, cancelled, joiner, expired, met>>

CacheLoad(p) ==
  /\ At(p, "cacheLoad")
  /\ \/ \E c \in Candidate : Goto(p, [proc[p] EXCEPT !.pc = "activate", !.cand = c])
     \/ Goto(p, Finish(p, FALSE))
  /\ UNCHANGED <<observed, fleet, wg, slots, cancelled, joiner, expired, met>>

\* validateCandidate on time; a malformed candidate is refused as well.
validateCandidate(c, n, allowStale) ==
  /\ c.src <= n + MaxFutureSkew
  /\ boundedAge(n, c.src) <= IF allowStale THEN MaxStaleness ELSE FreshFor

\* activate reads the clock and validates ...
Activate(p) ==
  /\ At(p, "activate")
  /\ \E n \in Times :
       /\ now(n)
       /\ \/ /\ validateCandidate(proc[p].cand, n, Bootstrapping(p) /\ AllowStaleBootstrap)
             /\ Goto(p, [proc[p] EXCEPT !.pc = "commit", !.now = n])
          \/ Goto(p, GiveUp(p))
  /\ UNCHANGED <<fleet, wg, slots, cancelled, joiner, expired, met>>

AnyOrder(c) == ~fleet.closed

\* ... and replaces the active snapshot unless the fleet has stopped or holds a
\* snapshot with a later source time.
MayActivate(c) == ~fleet.closed /\ (fleet.active # None => c.src >= fleet.active.src)

Commit(p) ==
  LET c == proc[p].cand
      n == proc[p].now
  IN  /\ At(p, "commit")
      /\ \/ /\ MayActivate(c)
            /\ fleet' = [fleet EXCEPT !.active = c,
                           !.state = IF boundedAge(n, c.src) > FreshFor THEN "degraded" ELSE "ready"]
            /\ met' = (met \/ (c.rev = fleet.wanted /\ observed <= fleet.deadline))
            /\ Goto(p, IF HasCache /\ proc[p].ok = None
                       THEN [proc[p] EXCEPT !.pc = "store", !.now = 0]
                       ELSE Finish(p, TRUE))
         \/ /\ ~MayActivate(c)
            /\ Goto(p, GiveUp(p))
            /\ UNCHANGED <<fleet, met>>
      /\ UNCHANGED <<observed, wg, slots, cancelled, joiner, expired>>

\* Cache.Store returns; a failure is only reported.
Store(p) ==
  /\ At(p, "store")
  /\ Goto(p, Finish(p, TRUE))
  /\ UNCHANGED <<observed, fleet, wg, slots, cancelled, joiner, expired, met>>

-----------------------------------------------------------------------------
(* Bootstrap and Start                                                      *)

\* Bootstrap's admission, on behalf of a call of the given kind.
EnterBootstrap(p, kind) ==
  /\ ~fleet.closed
  /\ wg' = [wg EXCEPT !.bootstrap = @ + 1]
  /\ Goto(p, [Blank EXCEPT !.pc = "load", !.kind = kind])
  /\ UNCHANGED <<observed, fleet, slots, cancelled, joiner, expired, met>>

Bootstrap(c) == At(c, "idle") /\ "bootstrap" \in Calls /\ EnterBootstrap(c, "bootstrap")

Start(c) ==
  /\ At(c, "idle") /\ "start" \in Calls
  /\ ~fleet.closed /\ ~fleet.started /\ ~fleet.starting
  /\ fleet' = [fleet EXCEPT !.starting = TRUE]
  /\ Goto(c, [Blank EXCEPT !.pc = "bootstrap", !.kind = "start"])
  /\ UNCHANGED <<observed, wg, slots, cancelled, joiner, expired, met>>

StartBootstrap(c) ==
  /\ At(c, "bootstrap")
  /\ \/ EnterBootstrap(c, "start")
     \/ /\ fleet.closed
        /\ Goto(c, [proc[c] EXCEPT !.pc = "started", !.ok = FALSE])
        /\ UNCHANGED <<observed, fleet, wg, slots, cancelled, joiner, expired, met>>

\* Bootstrap returns, to the application or to Start.
LeaveBootstrap(c) ==
  /\ At(c, "leave")
  /\ wg' = [wg EXCEPT !.bootstrap = @ - 1]
  /\ Goto(c, IF proc[c].kind = "start"
             THEN [Blank EXCEPT !.pc = "started", !.kind = "start", !.ok = proc[c].ok] ELSE Blank)
  /\ UNCHANGED <<observed, fleet, slots, cancelled, joiner, expired, met>>

\* A goroutine that enters Sleep or Next remembers whether runCtx had ended, in
\* which case the callback does not return successfully.
Looping(pc) == [Blank EXCEPT !.pc = pc, !.late = cancelled]

StartedAnyway(c) == proc[c].ok

\* Start goes on to spawn the loops only if nothing has stopped the fleet.
MayRun(c) == proc[c].ok /\ ~fleet.closed

StartReturns(c) ==
  /\ At(c, "started")
  /\ \/ /\ MayRun(c)
        /\ fleet' = [fleet EXCEPT !.starting = FALSE, !.started = TRUE, !.watching = HasWatcher]
        /\ wg' = [wg EXCEPT !.run = @ + IF HasWatcher THEN 2 ELSE 1]
        /\ proc' = [proc EXCEPT ![c] = Blank, ![Refresher] = Looping("sleep"),
                                ![Watcher] = IF HasWatcher THEN Looping("next") ELSE Blank]
     \/ /\ ~MayRun(c)
        /\ fleet' = [fleet EXCEPT !.starting = FALSE]
        /\ Goto(c, Blank)
        /\ UNCHANGED wg
  /\ UNCHANGED <<observed, slots, cancelled, joiner, expired, met>>

\* The application cancels the context it gave to Start.
CancelStart ==
  /\ fleet.started /\ ~cancelled
  /\ cancelled' = TRUE
  /\ UNCHANGED <<observed, fleet, wg, slots, joiner, proc, expired, met>>

-----------------------------------------------------------------------------
(* Refresh                                                                  *)

\* The loops record a failure, then go on with what "kind" names.
Recording(next) == [Blank EXCEPT !.pc = "record", !.kind = next]

\* Where Refresh or Invalidate returns to; the refresher ignores the result.
Back(p, ok) ==
  IF p = Watcher THEN [Recording("next") EXCEPT !.ok = ok]
  ELSE IF p = Refresher THEN Looping("sleep") ELSE Blank

Refresh(c) ==
  /\ At(c, "idle") /\ "refresh" \in Calls
  /\ \E n \in Times : now(n) /\ Goto(c, [Blank EXCEPT !.pc = "admit", !.kind = "refresh", !.now = n])
  /\ UNCHANGED <<fleet, wg, slots, cancelled, joiner, expired, met>>

\* The Refresh of an invalidation.
RefreshForHint(p) ==
  /\ At(p, "refresh")
  /\ \E n \in Times : now(n) /\ Goto(p, [proc[p] EXCEPT !.pc = "admit", !.now = n, !.hint = None])
  /\ UNCHANGED <<fleet, wg, slots, cancelled, joiner, expired, met>>

Deferred(n) == fleet.last # None /\ boundedAge(n, fleet.last) < MinRefreshInterval

OneWaiterMore == fleet.waiters <= MaxWaiters

MayWait == fleet.waiters < MaxWaiters

\* Refresh is refused: the fleet has stopped or has all the waiters it may have.
Refuse(p) ==
  /\ At(p, "admit")
  /\ fleet.closed \/ (fleet.flight # None /\ ~MayWait)
  /\ Goto(p, IF p = Refresher /\ ~fleet.closed THEN Recording("sleep") ELSE Back(p, FALSE))
  /\ UNCHANGED <<observed, fleet, wg, slots, cancelled, joiner, expired, met>>

\* Refresh joins the flight in progress ...
Follow(p) ==
  /\ At(p, "admit")
  /\ ~fleet.closed /\ fleet.flight # None /\ MayWait
  /\ fleet' = [fleet EXCEPT !.waiters = @ + 1]
  /\ Goto(p, [Blank EXCEPT !.pc = "wait"])
  /\ UNCHANGED <<observed, wg, slots, cancelled, joiner, expired, met>>

\* ... is deferred ...
Defer(p) ==
  /\ At(p, "admit")
  /\ ~fleet.closed /\ fleet.flight = None /\ Deferred(proc[p].now)
  /\ Goto(p, Back(p, TRUE))
  /\ UNCHANGED <<observed, fleet, wg, slots, cancelled, joiner, expired, met>>

\* ... or leads a flight of its own.
Lead(p) ==
  /\ At(p, "admit")
  /\ ~fleet.closed /\ fleet.flight = None /\ ~Deferred(proc[p].now)
  /\ fleet' = [fleet EXCEPT !.flight = p, !.last = proc[p].now]
  /\ wg' = [wg EXCEPT !.refresh = @ + 1]
  /\ Goto(p, [Blank EXCEPT !.pc = "load", !.kind = "refresh"])
  /\ UNCHANGED <<observed, slots, cancelled, joiner, expired, met>>

\* The leader reads the clock ...
Completing(p) ==
  /\ At(p, "loaded")
  /\ \E n \in Times : now(n) /\ Goto(p, [proc[p] EXCEPT !.pc = "complete", !.now = n])
  /\ UNCHANGED <<fleet, wg, slots, cancelled, joiner, expired, met>>

WakesOnSuccess(p) ==
  /\ At(p, "complete")
  /\ fleet' = [(IF proc[p].ok THEN fleet ELSE degradeIfStale(proc[p].now)) EXCEPT !.flight = None]
  /\ wg' = [wg EXCEPT !.refresh = @ - 1]
  /\ proc' = [q \in Procs |->
       IF q = p THEN Back(p, proc[p].ok)
       ELSE IF proc[q].pc = "wait" /\ proc[q].ok = None /\ proc[p].ok THEN [proc[q] EXCEPT !.ok = TRUE]
       ELSE proc[q]]
  /\ UNCHANGED <<observed, slots, cancelled, joiner, expired, met>>

\* ... and publishes the result; a follower that still waits has none yet, so
\* it belongs to this flight.
Complete(p) ==
  /\ At(p, "complete")
  /\ fleet' = [(IF proc[p].ok THEN fleet ELSE degradeIfStale(proc[p].now)) EXCEPT !.flight = None]
  /\ wg' = [wg EXCEPT !.refresh = @ - 1]
  /\ proc' = [q \in Procs |->
       IF q = p THEN Back(p, proc[p].ok)
       ELSE IF proc[q].pc = "wait" /\ proc[q].ok = None THEN [proc[q] EXCEPT !.ok = proc[p].ok]
       ELSE proc[q]]
  /\ UNCHANGED <<observed, slots, cancelled, joiner, expired, met>>

OnlyWoken(p, ok) ==
  /\ fleet' = [fleet EXCEPT !.waiters = IF proc[p].ok = None THEN @ ELSE @ - 1]
  /\ Goto(p, Back(p, ok))
  /\ UNCHANGED <<observed, wg, slots, cancelled, joiner, expired, met>>

\* A follower leaves the count of waiters, on either way out.
Detach(p, ok) ==
  /\ fleet' = [fleet EXCEPT !.waiters = @ - 1]
  /\ Goto(p, Back(p, ok))
  /\ UNCHANGED <<observed, wg, slots, cancelled, joiner, expired, met>>

Wake(p) == At(p, "wait") /\ proc[p].ok # None /\ Detach(p, proc[p].ok)

\* The follower's own context ends.
CancelWait(p) == At(p, "wait") /\ (p \in Callers \/ cancelled) /\ Detach(p, FALSE)

-----------------------------------------------------------------------------
(* Invalidation                                                             *)

Invalidate(c) ==
  /\ At(c, "idle") /\ "invalidate" \in Calls
  /\ \E h \in Hint, n \in Times :
       now(n) /\ Goto(c, [Blank EXCEPT !.pc = "hint", !.kind = "invalidate", !.hint = h, !.now = n])
  /\ UNCHANGED <<fleet, wg, slots, cancelled, joiner, expired, met>>

\* The hint is malformed, belongs to a stream too many, repeats or precedes what
\* the stream has delivered, or is about the active revision.
Unusable(h) ==
  \/ h.seq = 0
  \/ /\ fleet.streams[h.stream] = 0
     /\ Cardinality({s \in Streams : fleet.streams[s] # 0}) >= MaxInvalidationStreams
Stale(h) == h.seq <= fleet.streams[h.stream]
Current(h) ==
  /\ h.seq = fleet.streams[h.stream] + 1
  /\ fleet.active # None /\ h.rev = fleet.active.rev

IgnoreHint(p) ==
  LET h == proc[p].hint
  IN  /\ At(p, "hint")
      /\ Unusable(h) \/ Stale(h)
      /\ Goto(p, Back(p, ~Unusable(h)))
      /\ UNCHANGED <<observed, fleet, wg, slots, cancelled, joiner, expired, met>>

\* The sequence is consumed; unless the revision is active, it becomes the one to
\* converge to and a refresh is requested.
AcceptHint(p) ==
  LET h == proc[p].hint
      f == [fleet EXCEPT !.streams[h.stream] = h.seq]
  IN  /\ At(p, "hint")
      /\ ~Unusable(h) /\ ~Stale(h)
      /\ \/ /\ Current(h)
            /\ fleet' = f
            /\ Goto(p, Back(p, TRUE))
            /\ UNCHANGED met
         \/ /\ ~Current(h)
            /\ fleet' = [f EXCEPT !.deadline = proc[p].now + ConvergenceWindow, !.wanted = h.rev]
            /\ Goto(p, [proc[p] EXCEPT !.pc = "refresh", !.now = 0])
            /\ met' = FALSE
      /\ UNCHANGED <<observed, wg, slots, cancelled, joiner, expired>>

-----------------------------------------------------------------------------
(* The loops                                                                *)

\* The refresher's Sleep returns and the next Refresh begins.
Tick ==
  /\ At(Refresher, "sleep") /\ ~proc[Refresher].late
  /\ \E n \in Times : now(n) /\ Goto(Refresher, [Blank EXCEPT !.pc = "admit", !.now = n])
  /\ UNCHANGED <<fleet, wg, slots, cancelled, joiner, expired, met>>

\* Sleep ends with its context, or Jitter or Sleep fails; the loop stops the fleet.
SleepFails ==
  /\ At(Refresher, "sleep")
  /\ \/ cancelled /\ Goto(Refresher, [Blank EXCEPT !.pc = "stop"])
     \/ Goto(Refresher, Recording("stop"))
  /\ UNCHANGED <<observed, fleet, wg, slots, cancelled, joiner, expired, met>>

\* The watcher delivers a hint, and Invalidate begins.
Deliver ==
  /\ At(Watcher, "next") /\ ~proc[Watcher].late
  /\ \E h \in Hint, n \in Times :
       now(n) /\ Goto(Watcher, [Blank EXCEPT !.pc = "hint", !.hint = h, !.now = n])
  /\ UNCHANGED <<fleet, wg, slots, cancelled, joiner, expired, met>>

\* Next ends with its context, or fails; only the watch loop ends.
WatchFails ==
  /\ At(Watcher, "next")
  /\ Goto(Watcher, IF cancelled THEN [Blank EXCEPT !.pc = "exit"] ELSE Recording("exit"))
  /\ UNCHANGED <<observed, fleet, wg, slots, cancelled, joiner, expired, met>>

\* recordRefreshFailure and recordWatcherFailure: the clock, then the lock.  The
\* watch loop ends instead when Invalidate failed and its context has ended.
Record(p) ==
  /\ At(p, "record")
  /\ IF proc[p].ok = FALSE /\ cancelled
     THEN Goto(p, [Blank EXCEPT !.pc = "exit"]) /\ UNCHANGED observed
     ELSE \E n \in Times : now(n) /\ Goto(p, [proc[p] EXCEPT !.pc = "degrade", !.now = n])
  /\ UNCHANGED <<fleet, wg, slots, cancelled, joiner, expired, met>>

Degrade(p) ==
  /\ At(p, "degrade")
  /\ fleet' = degradeIfStale(proc[p].now)
  /\ Goto(p, Looping(proc[p].kind))
  /\ UNCHANGED <<observed, wg, slots, cancelled, joiner, expired, met>>

Exit(p) ==
  /\ At(p, "exit")
  /\ wg' = [wg EXCEPT !.run = @ - 1]
  /\ fleet' = IF p = Watcher THEN [fleet EXCEPT !.watching = FALSE] ELSE fleet
  /\ Goto(p, Blank)
  /\ UNCHANGED <<observed, slots, cancelled, joiner, expired, met>>

-----------------------------------------------------------------------------
(* Shutdown                                                                 *)

\* What follows markStopped, for the refresher and for Shutdown.
AfterStop(p) == [Blank EXCEPT !.pc = IF p = Refresher THEN "exit" ELSE "join"]

\* The critical section of markStopped.
markStopped(p) ==
  /\ IF fleet.closed
     THEN Goto(p, AfterStop(p)) /\ UNCHANGED fleet
     ELSE /\ fleet' = [fleet EXCEPT !.closed = TRUE, !.state = "stopped"]
          /\ Goto(p, [Blank EXCEPT !.pc = "cancel"])
  /\ UNCHANGED <<observed, wg, slots, cancelled, joiner, expired, met>>

Shutdown(c) == At(c, "idle") /\ "shutdown" \in Calls /\ markStopped(c)

StopLoop == At(Refresher, "stop") /\ markStopped(Refresher)

LeavesRunning == cancelled

\* runCancel exists once Start has spawned the loops.  The end of lifecycleCtx
\* makes callbacks return, which in the model they may do at any time.
RunCancelled == cancelled \/ fleet.started

Cancel(p) ==
  /\ At(p, "cancel")
  /\ cancelled' = RunCancelled
  /\ Goto(p, AfterStop(p))
  /\ UNCHANGED <<observed, fleet, wg, slots, joiner, expired, met>>

\* shutdownOnce spawns the joining goroutine ...
Join(c) ==
  /\ At(c, "join")
  /\ joiner' = IF joiner = "none" THEN "run" ELSE joiner
  /\ Goto(c, [Blank EXCEPT !.pc = "joining"])
  /\ UNCHANGED <<observed, fleet, wg, slots, cancelled, expired, met>>

\* ... and the call waits until it has joined everything, or gives up when its
\* context ends.
Leave(c) ==
  /\ At(c, "joining")
  /\ Goto(c, Blank)
  /\ UNCHANGED <<observed, fleet, wg, slots, cancelled, joiner, expired, met>>

Joined(c) == joiner = "done" /\ Leave(c)

CancelJoin(c) == Leave(c)

Wait(group, next) == joiner = group /\ wg[group] = 0 /\ joiner' = next

Joining ==
  /\ \/ Wait("run", "refresh") \/ Wait("refresh", "load")
     \/ Wait("load", "bootstrap") \/ Wait("bootstrap", "done")
  /\ UNCHANGED <<observed, fleet, wg, slots, cancelled, proc, expired, met>>

-----------------------------------------------------------------------------
(* Evaluation under the flag's degraded policy                              *)

Modes == {"closed", "open", "default", "lastKnownGood"}

Fresh(c, n) == c # None /\ boundedAge(n, c.src) <= FreshFor
Good(c, n) == c # None /\ boundedAge(n, c.src) <= PolicyStaleness

Outcome(c, n, mode) ==
  IF Fresh(c, n) THEN "fresh"
  ELSE IF mode \in {"open", "default"} THEN mode
  ELSE IF mode = "lastKnownGood" /\ Good(c, n) THEN "lastKnownGood" ELSE "stale"

\* Current() ...
EvaluateCurrent(c) ==
  /\ At(c, "idle") /\ "evaluate" \in Calls
  /\ Goto(c, [Blank EXCEPT !.pc = "evaluate", !.cand = fleet.active])
  /\ UNCHANGED <<observed, fleet, wg, slots, cancelled, joiner, expired, met>>

\* ... and then the clock decide what the flag evaluates to.
Evaluate(c) ==
  LET s == proc[c].cand
      Later(t, valid) == IF s # None /\ ~valid /\ s.src > t THEN s.src ELSE t
  IN  /\ At(c, "evaluate")
      /\ \E n \in Times, mode \in Modes :
           /\ now(n)
           /\ Goto(c, [Blank EXCEPT !.ok = Outcome(s, n, mode)])
           /\ expired' = [fresh |-> Later(expired.fresh, Fresh(s, n)),
                          good |-> Later(expired.good, Good(s, n))]
      /\ UNCHANGED <<fleet, wg, slots, cancelled, joiner, met>>

\* Status, as a step, only reads the clock; ConvergenceBreached is what it reports.
Status(c) ==
  /\ At(c, "idle") /\ "status" \in Calls
  /\ \E n \in Times : now(n)
  /\ UNCHANGED <<fleet, wg, slots, cancelled, joiner, proc, expired, met>>

\* Status.ConvergenceBreached, at the time last observed.
ConvergenceBreached ==
  /\ fleet.deadline # None /\ observed > fleet.deadline
  /\ fleet.active = None \/ fleet.active.rev # fleet.wanted

-----------------------------------------------------------------------------
\* What a goroutine does once a call has begun.
Step(p) ==
  \/ Load(p) \/ AcquireSlot(p) \/ AbandonSlot(p) \/ LoadReturns(p) \/ CacheLoad(p)
  \/ Activate(p) \/ Commit(p) \/ Store(p)
  \/ StartBootstrap(p) \/ LeaveBootstrap(p) \/ StartReturns(p)
  \/ RefreshForHint(p) \/ Refuse(p) \/ Follow(p) \/ Defer(p) \/ Lead(p)
  \/ Completing(p) \/ Complete(p) \/ Wake(p)
  \/ IgnoreHint(p) \/ AcceptHint(p)
  \/ Record(p) \/ Degrade(p) \/ Exit(p) \/ Cancel(p) \/ Join(p) \/ Joined(p)
  \/ Evaluate(p)

Loop == Tick \/ SleepFails \/ Deliver \/ WatchFails \/ StopLoop

Begin(c) ==
  Bootstrap(c) \/ Start(c) \/ Refresh(c) \/ Invalidate(c) \/ Shutdown(c)
  \/ EvaluateCurrent(c) \/ Status(c)

Next ==
  \/ \E c \in Callers : Begin(c)
  \/ \E p \in Procs : Step(p)
  \/ \E p \in Procs : CancelWait(p) \/ CancelJoin(p)
  \/ Loop \/ CancelStart \/ Joining

Spec == Init /\ [][Next]_vars

\* Goroutines are scheduled, LoadTimeout bounds the wait for a slot, and callbacks
\* return: they "must cooperate with cancellation" (fleet.go:534).  Nothing is
\* assumed of the application's calls and contexts.
FairSpec ==
  /\ Spec
  /\ \A p \in Procs : WF_vars(Step(p))
  /\ WF_vars(Tick \/ SleepFails \/ StopLoop) /\ WF_vars(Deliver \/ WatchFails)
  /\ WF_vars(Joining)

-----------------------------------------------------------------------------
(* Properties                                                               *)

PCs == {"idle", "load", "slot", "loading", "cacheLoad", "activate", "commit", "store", "leave",
        "bootstrap", "started", "admit", "wait", "loaded", "complete", "hint", "refresh",
        "sleep", "next", "record", "degrade", "exit", "stop", "cancel", "join", "joining",
        "evaluate"}

\* The type invariant: in particular waiters, load slots and provider attempts
\* stay within their limits.
TypeOK ==
  /\ observed \in Times
  /\ fleet.active \in Candidate \cup {None}
  /\ fleet.state \in {"cold", "ready", "degraded", "stopped"}
  /\ fleet.closed <=> fleet.state = "stopped"
  /\ fleet.flight \in Procs \cup {None}
  /\ fleet.waiters \in 0..MaxWaiters
  /\ fleet.last \in Times \cup {None}
  /\ \A g \in DOMAIN wg : wg[g] \in Nat
  /\ slots \in 0..MaxConcurrentProviderLoads
  /\ \A p \in Procs : proc[p].pc \in PCs /\ proc[p].tries \in 0..MaxProviderLoads

\* Goroutines that lead a refresh, from admission to the end of the flight.
Leaders ==
  {p \in Procs : /\ proc[p].kind = "refresh"
                 /\ proc[p].pc \in {"load", "slot", "loading", "activate", "commit", "store",
                                    "loaded", "complete"}}

\* At most one refresh is in flight, it is the one that new calls attach to, and
\* the count of waiters is exact, with followers that cancel, followers of a
\* flight that is over and followers of the next one at the same time.
FlightExact ==
  /\ Leaders = {fleet.flight} \ {None}
  /\ fleet.waiters = Cardinality({p \in Procs : proc[p].pc = "wait"})

\* The active snapshot is never replaced by one with an earlier source time,
\* whichever of concurrent bootstraps, cache fallbacks and refreshes finishes
\* last, and never once the fleet has stopped.
ActiveAdvances ==
  [][fleet'.active # fleet.active =>
       /\ ~fleet.closed
       /\ fleet.active = None \/ fleet'.active.src >= fleet.active.src]_vars

\* "a wall-clock rollback cannot revive freshness or extend a degraded
\* last-known-good policy" (docs/fleet.md:65): once evaluate has read a time at
\* which a snapshot is too old, no later evaluation, of any goroutine, serves
\* that snapshot or an older one under the same limit.
NoRevival ==
  [][\A c \in Callers :
       proc[c].pc = "evaluate" /\ proc'[c].pc = "idle" =>
         /\ proc'[c].ok = "fresh" => proc[c].cand.src > expired.fresh
         /\ proc'[c].ok = "lastKnownGood" => proc[c].cand.src > expired.good]_vars

\* Fleet work: the loops, and whatever loads, activates or stores a candidate.
Working(p) ==
  \/ p \in {Refresher, Watcher} /\ proc[p].pc # "idle"
  \/ proc[p].pc \in {"load", "slot", "loading", "cacheLoad", "activate", "commit", "store",
                    "leave", "loaded", "complete"}

\* Shutdown "joins all fleet work" (fleet.go:977): once it reports success, neither the
\* loops nor any load, refresh flight or bootstrap runs, although calls that
\* began before it were admitted concurrently.
ShutdownQuiet == joiner = "done" => \A p \in Procs : ~Working(p)

\* Shutdown does complete: its wait is not held up by the loops, by followers,
\* by goroutines queueing for a load slot or by calls that keep arriving.
ShutdownCompletes == (joiner # "none") ~> (joiner = "done")

\* Every call of the application returns, although none of them is ever cancelled:
\* a follower whose flight fails, whose leader queues for a load slot behind a
\* bootstrap, or whose fleet is stopped meanwhile is not left waiting (fleet.go:1056),
\* nor is a Shutdown that finds the fleet at work or already being stopped
\* (fleet.go:993).
CallsReturn == \A c \in Callers : []<>(proc[c].pc = "idle")

\* Status "reports an unmet revision after deadline" (fleet.go:442): a requested
\* revision that was activated by its deadline is not reported as a breach.
BreachIsUnmet == ConvergenceBreached => ~met

=============================================================================
