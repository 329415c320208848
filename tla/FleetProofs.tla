----------------------------- MODULE FleetProofs -----------------------------
(* Proofs about Fleet, for every set of callers, configuration and bound.     *)
EXTENDS Fleet, FiniteSetTheorems, TLAPS

\* A step that names no prover is tried with the SMT solver, with Zenon, and with the
\* solver for longer.
USE SMTT(10), Zenon, SMTT(30)

(***************************************************************************)
(* The inductive invariant.  TypeOK, FlightExact and ShutdownQuiet only     *)
(* hold together: that a counter does not fall below zero needs the count   *)
(* to be exact, an exact count needs to know which goroutine can be where,  *)
(* and that what Shutdown has waited for does not start again needs all of  *)
(* it together with the fact that the fleet is closed by then.              *)
(***************************************************************************)
Kinds == {"bootstrap", "start", "refresh", "invalidate", "sleep", "next", "stop", "exit", None}
Answers == {TRUE, FALSE, None, "fresh", "open", "default", "lastKnownGood", "stale"}

Goroutine == [pc : PCs, kind : Kinds, now : Times, hint : Hint \cup {None},
              cand : Candidate \cup {None}, ok : Answers, late : BOOLEAN,
              tries : 0..MaxProviderLoads]

Guarded == [active : Candidate \cup {None}, state : {"cold", "ready", "degraded", "stopped"},
            closed : BOOLEAN, flight : Procs \cup {None}, waiters : 0..MaxWaiters,
            last : Times \cup {None}, starting : BOOLEAN, started : BOOLEAN, watching : BOOLEAN,
            streams : [Streams -> 0..MaxSequence], deadline : Nat \cup {None},
            wanted : Revisions \cup {None}]

WaitGroups == [run : Nat, refresh : Nat, load : Nat, bootstrap : Nat]

Loops == {Refresher, Watcher}

\* What a goroutine is, from its record.
Waits(r) == r.pc = "wait"
Holds(r) == r.pc = "loading"
Loads(r) == r.pc \in {"slot", "loading"}
Leads(r) == r.kind = "refresh" /\ r.pc \in {"load", "slot", "loading", "activate", "commit",
                                             "store", "loaded", "complete"}
Boots(r) == r.kind \in {"bootstrap", "start"} /\ r.pc \in {"load", "slot", "loading", "cacheLoad",
                                                            "activate", "commit", "store", "leave"}
Starts(r) == r.kind = "start" /\ (Boots(r) \/ r.pc \in {"bootstrap", "started"})

\* Which goroutine can be where, and what its record holds there.
RecordOK(p, r) ==
  /\ r \in Goroutine
  /\ r.pc \in {"activate", "commit"} => r.cand \in Candidate
  /\ r.pc = "hint" => r.hint \in Hint
  /\ r.pc \in {"load", "slot", "loading", "activate", "commit", "store"} => Leads(r) \/ Boots(r)
  /\ r.pc \in {"cacheLoad", "leave"} => Boots(r)
  /\ r.pc \in {"loaded", "complete"} => Leads(r)
  /\ r.pc \in {"bootstrap", "started"} => r.kind = "start"
  /\ r.pc \in {"record", "degrade"} => r.kind \in {"sleep", "next", "stop", "exit"}
  /\ r.pc \in {"sleep", "next", "record", "degrade", "exit", "stop"} => p \in Loops
  /\ Boots(r) \/ Starts(r) \/ r.pc \in {"join", "joining", "evaluate"} => p \in Callers
  /\ r.pc = "cancel" => p # Watcher

TypeInv ==
  /\ observed \in Times
  /\ fleet \in Guarded
  /\ fleet.closed <=> fleet.state = "stopped"
  /\ wg \in WaitGroups
  /\ slots \in 0..MaxConcurrentProviderLoads
  /\ cancelled \in BOOLEAN
  /\ joiner \in {"none", "run", "refresh", "load", "bootstrap", "done"}
  /\ proc \in [Procs -> Goroutine]
  /\ \A p \in Procs : RecordOK(p, proc[p])

\* Every counter counts exactly the goroutines it stands for.
Waiting == {p \in Procs : Waits(proc[p])}
Holding == {p \in Procs : Holds(proc[p])}
InLoad == {p \in Procs : Loads(proc[p])}
InBootstrap == {p \in Procs : Boots(proc[p])}
Bit(b) == IF b THEN 1 ELSE 0

CountInv ==
  /\ fleet.waiters = Cardinality(Waiting)
  /\ slots = Cardinality(Holding)
  /\ wg.load = Cardinality(InLoad)
  /\ wg.bootstrap = Cardinality(InBootstrap)
  /\ wg.refresh = Bit(fleet.flight # None)
  /\ wg.run = Bit(proc[Refresher].pc # "idle") + Bit(proc[Watcher].pc # "idle")

\* One refresh leads, and it is the one that is joined.
LeadInv == \A p \in Procs : Leads(proc[p]) <=> fleet.flight = p

\* Start runs once at a time, and the loops only after it.
StartInv ==
  /\ \A p \in Procs : Starts(proc[p]) => fleet.starting /\ ~fleet.started
  /\ \A p, q \in Procs : Starts(proc[p]) /\ Starts(proc[q]) => p = q
  /\ ~fleet.started => \A p \in Loops : proc[p].pc = "idle"

\* What the joining goroutine has waited for is over for good.
StopInv ==
  /\ \A p \in Procs : proc[p].pc \in {"cancel", "join"} => fleet.closed
  /\ joiner # "none" => fleet.closed
  /\ joiner \in {"refresh", "load", "bootstrap", "done"} => \A p \in Loops : proc[p].pc = "idle"
  /\ joiner \in {"load", "bootstrap", "done"} => fleet.flight = None
  /\ joiner \in {"bootstrap", "done"} => \A p \in Procs : ~Loads(proc[p])
  /\ joiner = "done" => \A p \in Procs : ~Boots(proc[p])

FleetInv == TypeInv /\ CountInv /\ LeadInv /\ StartInv /\ StopInv

-----------------------------------------------------------------------------
(* Facts the proofs share                                                     *)

\* The configuration bounds that the proofs use, one by one.
LEMMA Config ==
  /\ IsFiniteSet(Procs) /\ Refresher # Watcher
  /\ None \notin Procs /\ None \notin Revisions
  /\ Refresher \notin Callers /\ Watcher \notin Callers
  /\ Procs = Callers \cup Loops /\ Refresher \in Procs /\ Watcher \in Procs
  /\ MaxTime \in Nat /\ MaxSequence \in Nat /\ 0 \in Times /\ Times \subseteq Nat
  /\ MaxWaiters \in Nat \ {0} /\ MaxProviderLoads \in Nat \ {0}
  /\ 0 \in 0..MaxProviderLoads /\ 1 \in 0..MaxProviderLoads
  /\ MaxConcurrentProviderLoads \in Nat \ {0} /\ ConvergenceWindow \in Nat \ {0}
  /\ FreshFor \in Nat \ {0} /\ PolicyStaleness \in Nat \ {0} /\ SourceTimes \subseteq Nat
  /\ HasWatcher \in BOOLEAN
<1>1. IsFiniteSet(Callers)
  BY FleetAssumption
<1>2. IsFiniteSet(Callers \cup {Refresher})
  BY <1>1, FS_AddElement
<1>3. IsFiniteSet((Callers \cup {Refresher}) \cup {Watcher})
  BY <1>2, FS_AddElement
<1>4. Procs = (Callers \cup {Refresher}) \cup {Watcher}
  BY DEF Procs
<1>5. /\ Refresher # Watcher
      /\ None \notin Procs /\ None \notin Revisions
      /\ Refresher \notin Callers /\ Watcher \notin Callers
      /\ HasWatcher \in BOOLEAN
  BY FleetAssumption DEF Procs
<1>6. /\ MaxTime \in Nat /\ MaxSequence \in Nat /\ SourceTimes \subseteq Nat
      /\ MaxWaiters \in Nat \ {0} /\ MaxProviderLoads \in Nat \ {0}
      /\ MaxConcurrentProviderLoads \in Nat \ {0} /\ ConvergenceWindow \in Nat \ {0}
      /\ FreshFor \in Nat \ {0} /\ PolicyStaleness \in Nat \ {0}
  BY FleetAssumption
<1>7. /\ 0 \in Times /\ Times \subseteq Nat
      /\ 0 \in 0..MaxProviderLoads /\ 1 \in 0..MaxProviderLoads
  BY <1>6 DEF Times
<1>8. Procs = Callers \cup Loops /\ Refresher \in Procs /\ Watcher \in Procs
  BY DEF Procs, Loops
<1> QED
  BY <1>3, <1>4, <1>5, <1>6, <1>7, <1>8

\* What candidates and hints hold.
LEMMA Fields ==
  /\ \A c \in Candidate : c.src \in Nat /\ c.rev \in Revisions
  /\ \A h \in Hint : h.stream \in Streams /\ h.seq \in 0..MaxSequence /\ h.rev \in Revisions
BY Config, Zenon DEF Candidate, Hint

\* A goroutine with nothing to do.
LEMMA BlankOK == Blank \in Goroutine /\ \A p \in Procs : RecordOK(p, Blank)
<1>1. Blank \in Goroutine
  BY Config DEF Blank, Goroutine, Kinds, Answers, PCs
<1> QED
  BY <1>1, Zenon DEF RecordOK, Blank, Leads, Boots, Starts

\* Two sets of goroutines that differ in p at most.
LEMMA CountChange ==
  ASSUME NEW S \in SUBSET Procs, NEW T \in SUBSET Procs, NEW p \in Procs,
         \A q \in Procs : q # p => (q \in S <=> q \in T)
  PROVE  /\ Cardinality(S) \in Nat /\ Cardinality(T) \in Nat
         /\ Cardinality(T) = Cardinality(S) + Bit(p \in T) - Bit(p \in S)
         /\ p \in S => Cardinality(S) >= 1
<1>1. IsFiniteSet(S) /\ IsFiniteSet(T)
  BY Config, FS_Subset
<1>2. Cardinality(S) \in Nat /\ Cardinality(T) \in Nat
  BY <1>1, FS_CardinalityType
<1>3. p \in S => Cardinality(S) # 0
  BY <1>1, FS_EmptySet
<1>4. CASE p \in S /\ p \in T
  <2>1. S = T
    BY <1>4
  <2> QED
    BY <1>2, <1>3, <1>4, <2>1 DEF Bit
<1>5. CASE p \notin S /\ p \notin T
  <2>1. S = T
    BY <1>5
  <2> QED
    BY <1>2, <1>5, <2>1 DEF Bit
<1>6. CASE p \notin S /\ p \in T
  <2>1. T = S \cup {p}
    BY <1>6
  <2>2. Cardinality(T) = Cardinality(S) + 1
    BY <1>1, <1>6, <2>1, FS_AddElement
  <2> QED
    BY <1>2, <1>6, <2>2 DEF Bit
<1>7. CASE p \in S /\ p \notin T
  <2>1. T = S \ {p}
    BY <1>7
  <2>2. Cardinality(T) = Cardinality(S) - 1
    BY <1>1, <1>7, <2>1, FS_RemoveElement
  <2> QED
    BY <1>2, <1>3, <1>7, <2>2 DEF Bit
<1> QED
  BY <1>4, <1>5, <1>6, <1>7

\* A goroutine that is counted keeps its counter above zero, so no wait group and
\* no token count is ever decremented past it.
LEMMA Counted ==
  ASSUME FleetInv, NEW p \in Procs
  PROVE  /\ Waits(proc[p]) => fleet.waiters >= 1
         /\ Holds(proc[p]) => slots >= 1
         /\ Loads(proc[p]) => wg.load >= 1
         /\ Boots(proc[p]) => wg.bootstrap >= 1
         /\ Leads(proc[p]) => wg.refresh = 1 /\ fleet.flight = p
         /\ p \in Loops /\ proc[p].pc # "idle" => wg.run >= 1
<1>1. Waits(proc[p]) => fleet.waiters >= 1
  BY CountChange DEF FleetInv, CountInv, Waiting
<1>2. Holds(proc[p]) => slots >= 1
  BY CountChange DEF FleetInv, CountInv, Holding
<1>3. Loads(proc[p]) => wg.load >= 1
  BY CountChange DEF FleetInv, CountInv, InLoad
<1>4. Boots(proc[p]) => wg.bootstrap >= 1
  BY CountChange DEF FleetInv, CountInv, InBootstrap
<1>5. Leads(proc[p]) => wg.refresh = 1 /\ fleet.flight = p
  BY Config DEF FleetInv, CountInv, LeadInv, Bit
<1>6. p \in Loops /\ proc[p].pc # "idle" => wg.run >= 1
  BY DEF FleetInv, CountInv, Bit, Loops
<1> QED
  BY <1>1, <1>2, <1>3, <1>4, <1>5, <1>6

-----------------------------------------------------------------------------
(* One goroutine moves                                                        *)

\* What the counters count, when goroutine p moves to the record r and the others
\* stay where they are.
Others(p) ==
  \A q \in Procs : q # p => /\ RecordOK(q, proc'[q])
                            /\ proc'[q].pc = proc[q].pc /\ proc'[q].kind = proc[q].kind

\* How a goroutine's change of role changes the numbers of those that wait,
\* hold the lock, load and bootstrap.
LEMMA Tally ==
  ASSUME TypeInv, NEW p \in Procs, NEW r, proc'[p] = r, Others(p)
  PROVE  /\ Cardinality(Waiting') = Cardinality(Waiting) + Bit(Waits(r)) - Bit(Waits(proc[p]))
         /\ Cardinality(Holding') = Cardinality(Holding) + Bit(Holds(r)) - Bit(Holds(proc[p]))
         /\ Cardinality(InLoad') = Cardinality(InLoad) + Bit(Loads(r)) - Bit(Loads(proc[p]))
         /\ Cardinality(InBootstrap')
              = Cardinality(InBootstrap) + Bit(Boots(r)) - Bit(Boots(proc[p]))
<1>1. \A q \in Procs : q # p => /\ Waits(proc'[q]) <=> Waits(proc[q])
                                /\ Holds(proc'[q]) <=> Holds(proc[q])
                                /\ Loads(proc'[q]) <=> Loads(proc[q])
                                /\ Boots(proc'[q]) <=> Boots(proc[q])
  BY DEF Others, Waits, Holds, Loads, Boots
<1>2. Cardinality(Waiting') = Cardinality(Waiting) + Bit(p \in Waiting') - Bit(p \in Waiting)
  BY <1>1, CountChange DEF Waiting
<1>3. Cardinality(Holding') = Cardinality(Holding) + Bit(p \in Holding') - Bit(p \in Holding)
  BY <1>1, CountChange DEF Holding
<1>4. Cardinality(InLoad') = Cardinality(InLoad) + Bit(p \in InLoad') - Bit(p \in InLoad)
  BY <1>1, CountChange DEF InLoad
<1>5. Cardinality(InBootstrap')
        = Cardinality(InBootstrap) + Bit(p \in InBootstrap') - Bit(p \in InBootstrap)
  BY <1>1, CountChange DEF InBootstrap
<1>6. /\ p \in Waiting' <=> Waits(r)
      /\ p \in Waiting <=> Waits(proc[p])
      /\ p \in Holding' <=> Holds(r)
      /\ p \in Holding <=> Holds(proc[p])
      /\ p \in InLoad' <=> Loads(r)
      /\ p \in InLoad <=> Loads(proc[p])
      /\ p \in InBootstrap' <=> Boots(r)
      /\ p \in InBootstrap <=> Boots(proc[p])
  BY DEF Waiting, Holding, InLoad, InBootstrap
<1> QED
  BY <1>2, <1>3, <1>4, <1>5, <1>6 DEF Bit

\* The joining goroutine is spawned once the fleet is closed, or does not move.
Joins == joiner' = joiner \/ (joiner' = "run" /\ joiner = "none" /\ fleet.closed)

\* The move of p keeps the invariant when every counter follows p, a role that
\* Shutdown waits for is only taken up before the fleet is closed, and Start
\* admits one caller at a time.
LEMMA Move ==
  ASSUME FleetInv, NEW p \in Procs, NEW r, RecordOK(p, r),
         proc' \in [Procs -> Goroutine], proc'[p] = r, Others(p),
         observed' \in Times, cancelled' \in BOOLEAN, Joins,
         fleet' \in Guarded, fleet'.closed <=> fleet'.state = "stopped",
         wg' \in WaitGroups, slots' \in 0..MaxConcurrentProviderLoads,
         fleet'.waiters = fleet.waiters + Bit(Waits(r)) - Bit(Waits(proc[p])),
         slots' = slots + Bit(Holds(r)) - Bit(Holds(proc[p])),
         wg'.load = wg.load + Bit(Loads(r)) - Bit(Loads(proc[p])),
         wg'.bootstrap = wg.bootstrap + Bit(Boots(r)) - Bit(Boots(proc[p])),
         wg'.refresh = Bit(fleet'.flight # None),
         wg'.run = wg.run + Bit(p \in Loops /\ r.pc # "idle") - Bit(p \in Loops /\ proc[p].pc # "idle"),
         fleet'.flight = IF Leads(r) THEN p ELSE IF Leads(proc[p]) THEN None ELSE fleet.flight,
         Leads(r) /\ ~Leads(proc[p]) => fleet.flight = None,
         fleet'.started = fleet.started,
         \/ fleet'.starting = fleet.starting /\ (Starts(r) => Starts(proc[p]))
         \/ ~fleet.starting /\ fleet'.starting /\ ~fleet.started
         \/ Starts(proc[p]) /\ ~Starts(r),
         p \in Loops /\ r.pc # "idle" => proc[p].pc # "idle",
         fleet.closed => fleet'.closed,
         r.pc \in {"cancel", "join"} => fleet'.closed,
         Loads(r) => Loads(proc[p]) \/ ~fleet.closed,
         Boots(r) => Boots(proc[p]) \/ ~fleet.closed,
         Leads(r) => Leads(proc[p]) \/ ~fleet.closed
  PROVE  FleetInv'
<1>0. /\ TypeInv /\ CountInv /\ LeadInv /\ StartInv /\ StopInv
      /\ \A q \in Procs : q # p => /\ Waits(proc'[q]) <=> Waits(proc[q])
                                   /\ Loads(proc'[q]) <=> Loads(proc[q])
                                   /\ Boots(proc'[q]) <=> Boots(proc[q])
                                   /\ Leads(proc'[q]) <=> Leads(proc[q])
                                   /\ Starts(proc'[q]) <=> Starts(proc[q])
                                   /\ proc'[q].pc = proc[q].pc
  BY DEF FleetInv, Others, Waits, Loads, Boots, Leads, Starts
<1>1. TypeInv'
  <2>1. joiner' \in {"none", "run", "refresh", "load", "bootstrap", "done"}
    BY <1>0 DEF TypeInv, Joins
  <2>2. \A q \in Procs : RecordOK(q, proc'[q])
    BY DEF Others
  <2> QED
    BY <2>1, <2>2 DEF TypeInv
<1>2. CountInv'
  <2>1. /\ fleet'.waiters = Cardinality(Waiting')
        /\ slots' = Cardinality(Holding')
        /\ wg'.load = Cardinality(InLoad')
        /\ wg'.bootstrap = Cardinality(InBootstrap')
    BY <1>0, Tally DEF CountInv
  <2>2. wg'.run = Bit(proc'[Refresher].pc # "idle") + Bit(proc'[Watcher].pc # "idle")
    <3>1. CASE p \in Callers
      <4>1. p # Refresher /\ p # Watcher /\ p \notin Loops
        BY <3>1, Config DEF Loops
      <4>2. wg'.run = wg.run
        BY <1>0, <4>1 DEF Bit, TypeInv, WaitGroups
      <4> QED
        BY <1>0, <4>1, <4>2, Config DEF CountInv
    <3>2. CASE p = Refresher
      BY <1>0, <3>2, Config DEF CountInv, Loops, Bit
    <3>3. CASE p = Watcher
      BY <1>0, <3>3, Config DEF CountInv, Loops, Bit
    <3> QED
      BY <3>1, <3>2, <3>3, Config DEF Loops
  <2> QED
    BY <2>1, <2>2 DEF CountInv
<1>3. LeadInv'
  <2> SUFFICES ASSUME NEW q \in Procs PROVE Leads(proc'[q]) <=> fleet'.flight = q
    BY DEF LeadInv
  <2>1. Leads(proc[q]) <=> fleet.flight = q
    BY <1>0 DEF LeadInv
  <2>2. Leads(proc[p]) <=> fleet.flight = p
    BY <1>0 DEF LeadInv
  <2> QED
    BY <1>0, <2>1, <2>2, Config
<1>4. StartInv'
  <2>1. ASSUME NEW q \in Procs, Starts(proc'[q]) PROVE fleet'.starting /\ ~fleet'.started
    BY <1>0, <2>1 DEF StartInv
  <2>2. ASSUME NEW q \in Procs, NEW u \in Procs, Starts(proc'[q]), Starts(proc'[u])
        PROVE  q = u
    BY <1>0, <2>2 DEF StartInv
  <2>3. ~fleet'.started => \A q \in Loops : proc'[q].pc = "idle"
    BY <1>0, Config DEF StartInv
  <2> QED
    BY <2>1, <2>2, <2>3 DEF StartInv
<1>5. StopInv'
  <2>1. \A q \in Procs : proc'[q].pc \in {"cancel", "join"} => fleet'.closed
    BY <1>0 DEF StopInv
  <2>2. joiner' # "none" => fleet'.closed
    BY <1>0 DEF StopInv, Joins
  <2>3. joiner' \in {"refresh", "load", "bootstrap", "done"}
          => \A q \in Loops : proc'[q].pc = "idle"
    BY <1>0, Config DEF StopInv, Joins
  <2>4. joiner' \in {"load", "bootstrap", "done"} => fleet'.flight = None
    BY <1>0 DEF StopInv, LeadInv, Joins
  <2>5. joiner' \in {"bootstrap", "done"} => \A q \in Procs : ~Loads(proc'[q])
    BY <1>0 DEF StopInv, Joins
  <2>6. joiner' = "done" => \A q \in Procs : ~Boots(proc'[q])
    BY <1>0 DEF StopInv, Joins
  <2> QED
    BY <2>1, <2>2, <2>3, <2>4, <2>5, <2>6 DEF StopInv
<1> QED
  BY <1>1, <1>2, <1>3, <1>4, <1>5 DEF FleetInv

\* The places where a goroutine has no role.
Aside == {"idle", "admit", "hint", "refresh", "sleep", "next", "record", "degrade", "exit", "stop",
          "cancel", "join", "joining", "evaluate"}

NoRole(r) == ~Waits(r) /\ ~Holds(r) /\ ~Loads(r) /\ ~Leads(r) /\ ~Boots(r) /\ ~Starts(r)

\* A goroutine at one of these places waits for nothing and holds nothing.
LEMMA AsideHasNoRole ==
  ASSUME NEW r, r.pc \in Aside
  PROVE  NoRole(r)
BY DEF Aside, NoRole, Waits, Holds, Loads, Leads, Boots, Starts

\* The fields of the fleet that the roles are tied to.
SameControl ==
  /\ fleet'.closed = fleet.closed /\ fleet'.flight = fleet.flight
  /\ fleet'.waiters = fleet.waiters
  /\ fleet'.starting = fleet.starting /\ fleet'.started = fleet.started

SameRole(p, q, r) ==
  /\ Waits(q) <=> Waits(r)
  /\ Holds(q) <=> Holds(r)
  /\ Loads(q) <=> Loads(r)
  /\ Leads(q) <=> Leads(r)
  /\ Boots(q) <=> Boots(r)
  /\ Starts(q) <=> Starts(r)
  /\ p \in Loops => (q.pc = "idle" <=> r.pc = "idle")

\* A step of p that replaces its record moves no other goroutine.
LEMMA Placed ==
  ASSUME FleetInv, NEW p \in Procs, NEW r, RecordOK(p, r), proc' = [proc EXCEPT ![p] = r]
  PROVE  proc' \in [Procs -> Goroutine] /\ proc'[p] = r /\ Others(p)
<1>1. proc \in [Procs -> Goroutine] /\ \A q \in Procs : RecordOK(q, proc[q])
  BY DEF FleetInv, TypeInv
<1>2. r \in Goroutine
  BY DEF RecordOK
<1> QED
  BY <1>1, <1>2 DEF Others

\* A move that changes neither the role of p nor what the roles are tied to.
LEMMA Keep ==
  ASSUME FleetInv, NEW p \in Procs, NEW r, RecordOK(p, r), proc' = [proc EXCEPT ![p] = r],
         observed' \in Times, cancelled' \in BOOLEAN, UNCHANGED <<wg, slots>>, Joins,
         fleet' \in Guarded, fleet'.closed <=> fleet'.state = "stopped", SameControl,
         SameRole(p, proc[p], r), r.pc \in {"cancel", "join"} => fleet.closed
  PROVE  FleetInv'
<1>1. proc' \in [Procs -> Goroutine] /\ proc'[p] = r /\ Others(p)
  BY Placed, Zenon
<1>2. /\ wg \in WaitGroups /\ slots \in 0..MaxConcurrentProviderLoads
      /\ fleet \in Guarded /\ wg.refresh = Bit(fleet.flight # None)
      /\ Leads(proc[p]) <=> fleet.flight = p
  BY DEF FleetInv, TypeInv, CountInv, LeadInv
<1>3. /\ wg.load \in Nat /\ wg.bootstrap \in Nat /\ wg.run \in Nat /\ slots \in Nat
      /\ fleet.waiters \in Nat
  BY <1>2, Config DEF WaitGroups, Guarded
<1>4. /\ fleet'.waiters = fleet.waiters + Bit(Waits(r)) - Bit(Waits(proc[p]))
      /\ slots' = slots + Bit(Holds(r)) - Bit(Holds(proc[p]))
      /\ wg'.load = wg.load + Bit(Loads(r)) - Bit(Loads(proc[p]))
      /\ wg'.bootstrap = wg.bootstrap + Bit(Boots(r)) - Bit(Boots(proc[p]))
      /\ wg'.run = wg.run + Bit(p \in Loops /\ r.pc # "idle")
                          - Bit(p \in Loops /\ proc[p].pc # "idle")
  BY <1>3 DEF SameRole, SameControl, Bit
<1>5. /\ fleet'.flight = IF Leads(r) THEN p ELSE IF Leads(proc[p]) THEN None ELSE fleet.flight
      /\ Leads(r) /\ ~Leads(proc[p]) => fleet.flight = None
      /\ wg'.refresh = Bit(fleet'.flight # None)
  BY <1>2 DEF SameRole, SameControl
<1>6. /\ wg' \in WaitGroups /\ slots' \in 0..MaxConcurrentProviderLoads
      /\ fleet'.started = fleet.started
      /\ fleet'.starting = fleet.starting /\ (Starts(r) => Starts(proc[p]))
      /\ p \in Loops /\ r.pc # "idle" => proc[p].pc # "idle"
      /\ fleet.closed => fleet'.closed
      /\ r.pc \in {"cancel", "join"} => fleet'.closed
      /\ Loads(r) => Loads(proc[p])
      /\ Boots(r) => Boots(proc[p])
      /\ Leads(r) => Leads(proc[p])
  BY <1>2 DEF SameRole, SameControl
<1> QED
  BY <1>1, <1>4, <1>5, <1>6, Move

\* A move aside, from one place without a role to another.
LEMMA StepAside ==
  ASSUME FleetInv, NEW p \in Procs, NEW r, RecordOK(p, r), proc' = [proc EXCEPT ![p] = r],
         observed' \in Times, cancelled' \in BOOLEAN, UNCHANGED <<wg, slots, joiner>>,
         fleet' \in Guarded, fleet'.closed <=> fleet'.state = "stopped", SameControl,
         proc[p].pc \in Aside, r.pc \in Aside,
         p \in Loops => proc[p].pc # "idle" /\ r.pc # "idle",
         r.pc \in {"cancel", "join"} => fleet.closed
  PROVE  FleetInv'
<1>1. NoRole(proc[p]) /\ NoRole(r)
  BY AsideHasNoRole
<1>2. SameRole(p, proc[p], r)
  BY <1>1 DEF SameRole, NoRole
<1> QED
  BY <1>2, Keep, Zenon DEF Joins

\* The fleet itself, and the clock, when a step leaves them alone.
LEMMA Typed ==
  ASSUME FleetInv
  PROVE  /\ observed \in Times /\ cancelled \in BOOLEAN
         /\ fleet \in Guarded /\ (fleet.closed <=> fleet.state = "stopped")
         /\ wg \in WaitGroups /\ slots \in 0..MaxConcurrentProviderLoads
         /\ fleet' = fleet => SameControl /\ fleet' \in Guarded
                              /\ (fleet'.closed <=> fleet'.state = "stopped")
         /\ \A p \in Procs : proc[p] \in Goroutine /\ RecordOK(p, proc[p])
BY DEF FleetInv, TypeInv, SameControl

-----------------------------------------------------------------------------
(* Where the steps lead to                                                    *)

\* Record r goes on with the work of p.
Continues(p, r) ==
  /\ RecordOK(p, r)
  /\ Leads(proc[p]) <=> Leads(r)
  /\ Boots(proc[p]) <=> Boots(r)
  /\ Starts(proc[p]) <=> Starts(r)
  /\ ~Waits(r) /\ ~Holds(r) /\ ~Loads(r)
  /\ r.pc \notin {"idle", "cancel", "join"}

\* A leader or a bootstrap that continues keeps its role.
LEMMA ContinuesRole ==
  ASSUME NEW p, NEW r, Continues(p, r), Leads(proc[p]) \/ Boots(proc[p]), ~Loads(proc[p])
  PROVE  SameRole(p, proc[p], r)
BY DEF Continues, SameRole, Leads, Boots, Waits, Holds, Loads

\* A leader or a bootstrap that is done with its candidate keeps its role.
LEMMA FinishOK ==
  ASSUME FleetInv, NEW p \in Procs, NEW ok \in Answers, Leads(proc[p]) \/ Boots(proc[p])
  PROVE  Continues(p, Finish(p, ok))
<1> DEFINE r == Finish(p, ok)
<1>1. RecordOK(p, proc[p]) /\ proc[p] \in Goroutine /\ proc[p].kind \in Kinds
  BY Typed DEF Goroutine
<1>2. CASE Leads(proc[p])
  <2>1. ~Bootstrapping(p) /\ proc[p].kind = "refresh"
    BY <1>2 DEF Leads, Bootstrapping
  <2>2. r = [Blank EXCEPT !.pc = "loaded", !.kind = "refresh", !.ok = ok]
    BY <2>1 DEF Finish
  <2>3. r \in Goroutine /\ r.pc = "loaded" /\ r.kind = "refresh"
    BY <1>1, <2>1, <2>2, BlankOK, Zenon DEF Goroutine, PCs, Kinds
  <2> QED
    BY <1>2, <2>3 DEF Continues, RecordOK, Leads, Boots, Starts, Waits, Holds, Loads
<1>3. CASE Boots(proc[p])
  <2>1. Bootstrapping(p) /\ p \in Callers
    BY <1>1, <1>3 DEF Boots, Bootstrapping, RecordOK
  <2>2. r = [Blank EXCEPT !.pc = "leave", !.kind = proc[p].kind, !.ok = ok]
    BY <2>1 DEF Finish
  <2>3. r \in Goroutine /\ r.pc = "leave" /\ r.kind = proc[p].kind
    BY <1>1, <2>2, BlankOK, Zenon DEF Goroutine, PCs, Blank
  <2> QED
    BY <1>3, <2>1, <2>3 DEF Continues, RecordOK, Leads, Boots, Starts, Waits, Holds, Loads
<1> QED
  BY <1>2, <1>3

\* So does one that gives up on it, be it for the cache.
LEMMA GiveUpOK ==
  ASSUME FleetInv, NEW p \in Procs, Leads(proc[p]) \/ Boots(proc[p])
  PROVE  Continues(p, GiveUp(p))
<1>1. FALSE \in Answers
  BY DEF Answers
<1>2. CASE Bootstrapping(p) /\ HasCache /\ proc[p].ok = None
  <2> DEFINE r == [Blank EXCEPT !.pc = "cacheLoad", !.kind = proc[p].kind, !.ok = FALSE]
  <2>1. RecordOK(p, proc[p]) /\ proc[p].kind \in Kinds
    BY Typed DEF Goroutine
  <2>2. Boots(proc[p]) /\ p \in Callers
    BY <1>2, <2>1 DEF Bootstrapping, RecordOK, Leads
  <2>3. GiveUp(p) = r
    BY <1>2 DEF GiveUp
  <2>4. r \in Goroutine /\ r.pc = "cacheLoad" /\ r.kind = proc[p].kind
    BY <1>1, <2>1, BlankOK, Zenon DEF Goroutine, PCs, Blank
  <2> QED
    BY <2>2, <2>3, <2>4 DEF Continues, RecordOK, Leads, Boots, Starts, Waits, Holds, Loads
<1>3. CASE ~(Bootstrapping(p) /\ HasCache /\ proc[p].ok = None)
  BY <1>1, <1>3, FinishOK, Zenon DEF GiveUp
<1> QED
  BY <1>2, <1>3

\* A call of Refresh or Invalidate that is over leaves no role behind, and a loop
\* in its loop.
LEMMA BackOK ==
  ASSUME FleetInv, NEW p \in Procs, NEW ok \in Answers
  PROVE  /\ RecordOK(p, Back(p, ok)) /\ Back(p, ok).pc \in Aside \ {"cancel", "join"}
         /\ p \in Loops => Back(p, ok).pc # "idle"
<1>1. cancelled \in BOOLEAN
  BY Typed
<1>2. CASE p = Watcher
  <2> DEFINE r == [Blank EXCEPT !.pc = "record", !.kind = "next", !.ok = ok]
  <2>1. Back(p, ok) = r
    BY <1>2 DEF Back, Recording, Blank
  <2>2. r \in Goroutine /\ r.pc = "record" /\ r.kind = "next"
    BY BlankOK, Zenon DEF Goroutine, PCs, Kinds, Blank
  <2> QED
    BY <1>2, <2>1, <2>2 DEF RecordOK, Leads, Boots, Starts, Aside, Loops
<1>3. CASE p = Refresher
  <2> DEFINE r == [Blank EXCEPT !.pc = "sleep", !.late = cancelled]
  <2>1. Back(p, ok) = r
    BY <1>3, Config DEF Back, Looping
  <2>2. r \in Goroutine /\ r.pc = "sleep"
    BY <1>1, BlankOK, Zenon DEF Goroutine, PCs, Blank
  <2> QED
    BY <1>3, <2>1, <2>2 DEF RecordOK, Leads, Boots, Starts, Aside, Loops
<1>4. CASE p \notin Loops
  BY <1>4, BlankOK, Zenon DEF Back, Loops, Blank, Aside
<1> QED
  BY <1>2, <1>3, <1>4 DEF Loops

-----------------------------------------------------------------------------
(* Loading and activating                                                     *)

\* A leader or a bootstrap enters or leaves the load, or takes or gives back a slot.
LEMMA LoadMove ==
  ASSUME FleetInv, NEW p \in Procs, NEW r, RecordOK(p, r), proc' = [proc EXCEPT ![p] = r],
         Leads(proc[p]) \/ Boots(proc[p]), ~Waits(r), r.pc \notin {"idle", "cancel", "join"},
         Leads(proc[p]) <=> Leads(r), Boots(proc[p]) <=> Boots(r), Starts(proc[p]) <=> Starts(r),
         UNCHANGED <<observed, fleet, cancelled, joiner>>,
         NEW n \in Nat, wg' = [wg EXCEPT !.load = n],
         n = wg.load + Bit(Loads(r)) - Bit(Loads(proc[p])),
         slots' \in 0..MaxConcurrentProviderLoads,
         slots' = slots + Bit(Holds(r)) - Bit(Holds(proc[p])),
         Loads(r) => Loads(proc[p]) \/ ~fleet.closed
  PROVE  FleetInv'
<1>1. proc' \in [Procs -> Goroutine] /\ proc'[p] = r /\ Others(p)
  BY Placed, Zenon
<1>2. /\ wg \in WaitGroups /\ fleet \in Guarded /\ (fleet.closed <=> fleet.state = "stopped")
      /\ observed \in Times /\ cancelled \in BOOLEAN
      /\ wg.refresh = Bit(fleet.flight # None) /\ (Leads(proc[p]) <=> fleet.flight = p)
  BY DEF FleetInv, TypeInv, CountInv, LeadInv
<1>3. /\ wg' \in WaitGroups /\ wg'.load = n /\ wg'.bootstrap = wg.bootstrap
      /\ wg'.refresh = wg.refresh /\ wg'.run = wg.run
      /\ wg.bootstrap \in Nat /\ wg.run \in Nat /\ fleet.waiters \in Nat
  BY <1>2, Config DEF WaitGroups, Guarded
<1>4. ~Waits(proc[p]) /\ proc[p].pc # "idle"
  BY DEF Leads, Boots, Waits
<1>5. /\ fleet'.waiters = fleet.waiters + Bit(Waits(r)) - Bit(Waits(proc[p]))
      /\ wg'.bootstrap = wg.bootstrap + Bit(Boots(r)) - Bit(Boots(proc[p]))
      /\ wg'.run = wg.run + Bit(p \in Loops /\ r.pc # "idle")
                          - Bit(p \in Loops /\ proc[p].pc # "idle")
  BY <1>3, <1>4 DEF Bit
<1>6. /\ fleet'.flight = IF Leads(r) THEN p ELSE IF Leads(proc[p]) THEN None ELSE fleet.flight
      /\ Leads(r) /\ ~Leads(proc[p]) => fleet.flight = None
      /\ wg'.refresh = Bit(fleet'.flight # None)
  BY <1>2, <1>3
<1> QED
  BY <1>1, <1>2, <1>3, <1>4, <1>5, <1>6, Move DEF Joins

\* Admission to load keeps the invariant: the wait group grows with the loads, and
\* only before the fleet is closed.
LEMMA LoadKept ==
  ASSUME FleetInv, NEW p \in Procs, Load(p)
  PROVE  FleetInv'
<1>1. /\ RecordOK(p, proc[p]) /\ proc[p] \in Goroutine /\ proc[p].pc = "load"
      /\ wg \in WaitGroups /\ slots \in 0..MaxConcurrentProviderLoads
      /\ UNCHANGED <<observed, fleet, cancelled, joiner, slots>>
  BY Typed DEF Load, At
<1>2. (Leads(proc[p]) \/ Boots(proc[p])) /\ ~Loads(proc[p]) /\ ~Holds(proc[p])
  BY <1>1 DEF RecordOK, Loads, Holds
<1>3. CASE fleet.closed
  <2>1. proc' = [proc EXCEPT ![p] = GiveUp(p)] /\ UNCHANGED wg
    BY <1>3 DEF Load, Goto
  <2>2. Continues(p, GiveUp(p))
    BY <1>2, GiveUpOK
  <2>3. SameRole(p, proc[p], GiveUp(p))
    BY <1>2, <2>2, ContinuesRole
  <2> QED
    BY <1>1, <2>1, <2>2, <2>3, Typed, Keep, Zenon DEF Continues, Joins
<1>4. CASE ~fleet.closed
  <2> DEFINE r == [proc[p] EXCEPT !.pc = "slot", !.tries = 1]
  <2>1. proc' = [proc EXCEPT ![p] = r] /\ wg' = [wg EXCEPT !.load = wg.load + 1]
    BY <1>1, <1>4 DEF Load, Goto
  <2>2. r \in Goroutine /\ r.pc = "slot" /\ r.kind = proc[p].kind
    BY <1>1, Config, Zenon DEF Goroutine, PCs
  <2>3. /\ RecordOK(p, r) /\ ~Waits(r) /\ ~Holds(r) /\ Loads(r)
        /\ Leads(proc[p]) <=> Leads(r)
        /\ Boots(proc[p]) <=> Boots(r)
        /\ Starts(proc[p]) <=> Starts(r)
    BY <1>1, <1>2, <2>2 DEF RecordOK, Leads, Boots, Starts, Waits, Holds, Loads
  <2>4. wg.load + 1 \in Nat /\ wg.load + 1 = wg.load + Bit(Loads(r)) - Bit(Loads(proc[p]))
    BY <1>1, <1>2, <2>3 DEF WaitGroups, Bit
  <2>5. slots' = slots + Bit(Holds(r)) - Bit(Holds(proc[p]))
    BY <1>1, <1>2, <2>3, Config DEF Bit
  <2> QED
    BY <1>1, <1>2, <1>4, <2>1, <2>2, <2>3, <2>4, <2>5, LoadMove, Zenon
<1> QED
  BY <1>3, <1>4

\* A slot is taken while there is one.
LEMMA AcquireSlotKept ==
  ASSUME FleetInv, NEW p \in Procs, AcquireSlot(p)
  PROVE  FleetInv'
<1> DEFINE r == [proc[p] EXCEPT !.pc = "loading"]
<1>1. /\ RecordOK(p, proc[p]) /\ proc[p] \in Goroutine /\ proc[p].pc = "slot"
      /\ wg \in WaitGroups /\ slots \in 0..MaxConcurrentProviderLoads
      /\ slots < MaxConcurrentProviderLoads /\ slots' = slots + 1
      /\ proc' = [proc EXCEPT ![p] = r]
      /\ UNCHANGED <<observed, fleet, cancelled, joiner, wg>>
  BY Typed DEF AcquireSlot, At, Goto
<1>2. r \in Goroutine /\ r.pc = "loading" /\ r.kind = proc[p].kind
  BY <1>1, Config DEF Goroutine, PCs
<1>3. /\ RecordOK(p, r) /\ ~Waits(r) /\ Holds(r) /\ Loads(r)
      /\ Leads(proc[p]) <=> Leads(r)
      /\ Boots(proc[p]) <=> Boots(r)
      /\ Starts(proc[p]) <=> Starts(r)
      /\ Leads(proc[p]) \/ Boots(proc[p])
      /\ Loads(proc[p]) /\ ~Holds(proc[p])
  BY <1>1, <1>2 DEF RecordOK, Leads, Boots, Starts, Waits, Holds, Loads
<1>4. /\ wg' = [wg EXCEPT !.load = wg.load] /\ wg.load \in Nat
      /\ wg.load = wg.load + Bit(Loads(r)) - Bit(Loads(proc[p]))
  BY <1>1, <1>3 DEF WaitGroups, Bit
<1>5. /\ slots' = slots + Bit(Holds(r)) - Bit(Holds(proc[p]))
      /\ slots' \in 0..MaxConcurrentProviderLoads
  BY <1>1, <1>3, Config DEF Bit
<1> QED
  BY <1>1, <1>2, <1>3, <1>4, <1>5, LoadMove, Zenon

\* A load that failed is given up or tried again, and gives its slot back if it
\* has one.
LEMMA LoadFailsKept ==
  ASSUME FleetInv, NEW p \in Procs, Loads(proc[p]), LoadFails(p),
         slots' = slots - Bit(Holds(proc[p])), UNCHANGED <<observed, fleet, cancelled, joiner>>
  PROVE  FleetInv'
<1>1. /\ RecordOK(p, proc[p]) /\ proc[p] \in Goroutine
      /\ wg \in WaitGroups /\ slots \in 0..MaxConcurrentProviderLoads
      /\ Holds(proc[p]) => slots >= 1
      /\ wg.load >= 1 /\ wg.load \in Nat
  BY Typed, Counted DEF WaitGroups
<1>2. (Leads(proc[p]) \/ Boots(proc[p])) /\ proc[p].pc \in {"slot", "loading"}
  BY <1>1 DEF RecordOK, Loads
<1>3. slots' \in 0..MaxConcurrentProviderLoads
  BY <1>1, Config DEF Bit
<1>4. CASE Goto(p, GiveUp(p)) /\ wg' = [wg EXCEPT !.load = @ - 1]
  <2> DEFINE r == GiveUp(p)
  <2>1. proc' = [proc EXCEPT ![p] = r] /\ wg' = [wg EXCEPT !.load = wg.load - 1]
    BY <1>1, <1>4 DEF Goto, WaitGroups
  <2>2. Continues(p, r)
    BY <1>2, GiveUpOK
  <2>3. /\ wg.load - 1 \in Nat /\ wg.load - 1 = wg.load + Bit(Loads(r)) - Bit(Loads(proc[p]))
        /\ slots' = slots + Bit(Holds(r)) - Bit(Holds(proc[p]))
    <3>1. ~Loads(r) /\ ~Holds(r) /\ Loads(proc[p])
      BY <1>1, <2>2 DEF Continues
    <3>2. Bit(Loads(r)) = 0 /\ Bit(Holds(r)) = 0 /\ Bit(Loads(proc[p])) = 1
          /\ Bit(Holds(proc[p])) \in {0, 1}
      BY <3>1 DEF Bit
    <3>3. slots \in Nat
      BY <1>1, Config
    <3>4. slots' = slots - Bit(Holds(proc[p])) /\ wg.load >= 1 /\ wg.load \in Nat
      BY <1>1
    <3> DEFINE h == Bit(Holds(proc[p]))
               lr == Bit(Loads(r))
               hr == Bit(Holds(r))
               lp == Bit(Loads(proc[p]))
    <3>5. lr = 0 /\ hr = 0 /\ lp = 1 /\ h \in {0, 1} /\ slots' = slots - h
      BY <3>2, <3>4, Zenon
    <3> HIDE DEF h, lr, hr, lp
    <3>6. wg.load - 1 \in Nat /\ wg.load - 1 = wg.load + lr - lp /\ slots' = slots + hr - h
      BY <3>3, <3>4, <3>5
    <3> QED
      BY <3>6, Zenon DEF h, lr, hr, lp
  <2> HIDE DEF r
  <2> QED
    BY <1>2, <1>3, <2>1, <2>2, <2>3, LoadMove, Zenon DEF Continues
<1>5. CASE /\ proc[p].tries < MaxProviderLoads
           /\ Goto(p, [proc[p] EXCEPT !.pc = "slot", !.tries = @ + 1])
           /\ UNCHANGED wg
  <2> DEFINE r == [proc[p] EXCEPT !.pc = "slot", !.tries = proc[p].tries + 1]
  <2>1. /\ proc' = [proc EXCEPT ![p] = r]
        /\ wg' = [wg EXCEPT !.load = wg.load] /\ wg.load \in Nat
    BY <1>1, <1>5 DEF Goto, WaitGroups, Goroutine
  <2>2. proc[p].tries + 1 \in 0..MaxProviderLoads
    BY <1>1, <1>5, Config DEF Goroutine
  <2>3. r \in Goroutine /\ r.pc = "slot" /\ r.kind = proc[p].kind
    BY <1>1, <2>2, Zenon DEF Goroutine, PCs
  <2>4. /\ RecordOK(p, r) /\ ~Waits(r) /\ ~Holds(r) /\ Loads(r)
        /\ Leads(proc[p]) <=> Leads(r)
        /\ Boots(proc[p]) <=> Boots(r)
        /\ Starts(proc[p]) <=> Starts(r)
    BY <1>1, <1>2, <2>3 DEF RecordOK, Leads, Boots, Starts, Waits, Holds, Loads
  <2>5. /\ wg.load = wg.load + Bit(Loads(r)) - Bit(Loads(proc[p]))
        /\ slots' = slots + Bit(Holds(r)) - Bit(Holds(proc[p]))
    BY <1>1, <2>4, Config DEF Bit
  <2> QED
    BY <1>2, <1>3, <2>1, <2>3, <2>4, <2>5, LoadMove, Zenon
<1> QED
  BY <1>4, <1>5 DEF LoadFails

\* The wait for a slot ends.
LEMMA AbandonSlotKept ==
  ASSUME FleetInv, NEW p \in Procs, AbandonSlot(p)
  PROVE  FleetInv'
<1>1. Loads(proc[p]) /\ ~Holds(proc[p]) /\ LoadFails(p) /\ UNCHANGED <<observed, fleet, slots, cancelled, joiner>>
  BY DEF AbandonSlot, At, Loads, Holds
<1>2. slots' = slots - Bit(Holds(proc[p]))
  BY <1>1, Typed, Config DEF Bit
<1> QED
  BY <1>1, <1>2, LoadFailsKept

\* The loader returns.
LEMMA LoadReturnsKept ==
  ASSUME FleetInv, NEW p \in Procs, LoadReturns(p)
  PROVE  FleetInv'
<1>1. /\ RecordOK(p, proc[p]) /\ proc[p] \in Goroutine /\ proc[p].pc = "loading"
      /\ Loads(proc[p]) /\ Holds(proc[p])
      /\ wg \in WaitGroups /\ slots \in 0..MaxConcurrentProviderLoads
      /\ slots >= 1 /\ slots' = slots - 1
      /\ wg.load >= 1 /\ wg.load \in Nat
      /\ UNCHANGED <<observed, fleet, cancelled, joiner>>
  BY Typed, Counted, Zenon DEF LoadReturns, At, Loads, Holds, WaitGroups
<1>2. CASE LoadFails(p)
  BY <1>1, <1>2, LoadFailsKept DEF Bit
<1>3. ASSUME NEW c \in Candidate,
             Goto(p, [proc[p] EXCEPT !.pc = "activate", !.cand = c, !.tries = 0]),
             wg' = [wg EXCEPT !.load = @ - 1]
      PROVE  FleetInv'
  <2> DEFINE r == [proc[p] EXCEPT !.pc = "activate", !.cand = c, !.tries = 0]
  <2>1. proc' = [proc EXCEPT ![p] = r] /\ wg' = [wg EXCEPT !.load = wg.load - 1]
    BY <1>1, <1>3 DEF Goto, WaitGroups
  <2>2. r \in Goroutine /\ r.pc = "activate" /\ r.kind = proc[p].kind /\ r.cand = c
    BY <1>1, Config, Zenon DEF Goroutine, PCs
  <2>3. /\ RecordOK(p, r) /\ ~Waits(r) /\ ~Holds(r) /\ ~Loads(r)
        /\ Leads(proc[p]) <=> Leads(r)
        /\ Boots(proc[p]) <=> Boots(r)
        /\ Starts(proc[p]) <=> Starts(r)
        /\ Leads(proc[p]) \/ Boots(proc[p])
    BY <1>1, <2>2 DEF RecordOK, Leads, Boots, Starts, Waits, Holds, Loads
  <2>4. /\ wg.load - 1 \in Nat /\ wg.load - 1 = wg.load + Bit(Loads(r)) - Bit(Loads(proc[p]))
        /\ slots' = slots + Bit(Holds(r)) - Bit(Holds(proc[p]))
        /\ slots' \in 0..MaxConcurrentProviderLoads
    BY <1>1, <2>3, Config DEF Bit
  <2> QED
    BY <1>1, <2>1, <2>2, <2>3, <2>4, LoadMove, Zenon
<1> QED
  BY <1>2, <1>3, Zenon DEF LoadReturns

\* Work on a candidate that leaves the load alone keeps the invariant.
LEMMA WorkMove ==
  ASSUME FleetInv, NEW p \in Procs, NEW r, RecordOK(p, r), proc' = [proc EXCEPT ![p] = r],
         Leads(proc[p]) \/ Boots(proc[p]), ~Loads(proc[p]),
         \/ Continues(p, r)
         \/ r.kind = proc[p].kind /\ r.pc \in {"activate", "commit", "store", "complete"},
         observed' \in Times, UNCHANGED <<wg, slots, cancelled, joiner>>,
         fleet' \in Guarded, fleet'.closed <=> fleet'.state = "stopped", SameControl
  PROVE  FleetInv'
<1>1. SameRole(p, proc[p], r) /\ r.pc \notin {"cancel", "join"}
  <2>1. CASE Continues(p, r)
    BY <2>1, ContinuesRole DEF Continues
  <2>2. CASE r.kind = proc[p].kind /\ r.pc \in {"activate", "commit", "store", "complete"}
    <3>1. RecordOK(p, proc[p])
      BY Typed
    <3> QED
      BY <2>2, <3>1 DEF SameRole, RecordOK, Leads, Boots, Starts, Waits, Holds, Loads
  <2> QED
    BY <2>1, <2>2
<1>2. cancelled' \in BOOLEAN
  BY Typed
<1> QED
  BY <1>1, <1>2, Keep, Zenon DEF Joins

\* Cache.Load returns a candidate or fails.
LEMMA CacheLoadKept ==
  ASSUME FleetInv, NEW p \in Procs, CacheLoad(p)
  PROVE  FleetInv'
<1>1. /\ RecordOK(p, proc[p]) /\ proc[p] \in Goroutine /\ proc[p].pc = "cacheLoad"
      /\ observed' \in Times /\ UNCHANGED <<fleet, wg, slots, cancelled, joiner>>
  BY Typed, Zenon DEF CacheLoad, At
<1>2. Boots(proc[p]) /\ ~Loads(proc[p])
  BY <1>1 DEF RecordOK, Loads
<1>3. CASE Goto(p, Finish(p, FALSE))
  <2>1. Continues(p, Finish(p, FALSE))
    BY <1>2, FinishOK, Zenon DEF Answers
  <2> QED
    BY <1>1, <1>2, <1>3, <2>1, Typed, WorkMove, Zenon DEF Goto, Continues
<1>4. ASSUME NEW c \in Candidate, Goto(p, [proc[p] EXCEPT !.pc = "activate", !.cand = c])
      PROVE  FleetInv'
  <2> DEFINE r == [proc[p] EXCEPT !.pc = "activate", !.cand = c]
  <2>1. r \in Goroutine /\ r.pc = "activate" /\ r.kind = proc[p].kind /\ r.cand = c
    BY <1>1, Zenon DEF Goroutine, PCs
  <2>2. RecordOK(p, r)
    BY <1>1, <1>2, <2>1 DEF RecordOK, Leads, Boots, Starts
  <2> QED
    BY <1>1, <1>2, <1>4, <2>1, <2>2, Typed, WorkMove, Zenon DEF Goto
<1> QED
  BY <1>3, <1>4, Zenon DEF CacheLoad

\* activate validates.
LEMMA ActivateKept ==
  ASSUME FleetInv, NEW p \in Procs, Activate(p)
  PROVE  FleetInv'
<1>1. /\ RecordOK(p, proc[p]) /\ proc[p] \in Goroutine /\ proc[p].pc = "activate"
      /\ UNCHANGED <<fleet, wg, slots, cancelled, joiner>>
  BY Typed DEF Activate, At
<1>2. (Leads(proc[p]) \/ Boots(proc[p])) /\ ~Loads(proc[p])
  BY <1>1 DEF RecordOK, Loads
<1>3. PICK n \in Times :
        /\ observed' = n
        /\ \/ Goto(p, [proc[p] EXCEPT !.pc = "commit", !.now = n])
           \/ Goto(p, GiveUp(p))
  BY Zenon DEF Activate, now
<1>4. CASE Goto(p, GiveUp(p))
  <2>1. Continues(p, GiveUp(p))
    BY <1>2, GiveUpOK
  <2> QED
    BY <1>1, <1>2, <1>3, <1>4, <2>1, Typed, WorkMove, Zenon DEF Goto, Continues
<1>5. CASE Goto(p, [proc[p] EXCEPT !.pc = "commit", !.now = n])
  <2> DEFINE r == [proc[p] EXCEPT !.pc = "commit", !.now = n]
  <2>1. r \in Goroutine /\ r.pc = "commit" /\ r.kind = proc[p].kind /\ r.cand = proc[p].cand
    BY <1>1, Zenon DEF Goroutine, PCs
  <2>2. RecordOK(p, r)
    BY <1>1, <1>2, <2>1 DEF RecordOK, Leads, Boots, Starts
  <2> QED
    BY <1>1, <1>2, <1>3, <1>5, <2>1, <2>2, Typed, WorkMove, Zenon DEF Goto
<1> QED
  BY <1>3, <1>4, <1>5

\* activate commits: only an open fleet changes.
LEMMA CommitKept ==
  ASSUME FleetInv, NEW p \in Procs, Commit(p)
  PROVE  FleetInv'
<1> DEFINE c == proc[p].cand
<1>1. /\ RecordOK(p, proc[p]) /\ proc[p] \in Goroutine /\ proc[p].pc = "commit"
      /\ observed' \in Times /\ UNCHANGED <<wg, slots, cancelled, joiner>>
      /\ fleet \in Guarded /\ (fleet.closed <=> fleet.state = "stopped")
  BY Typed DEF Commit, At
<1>2. (Leads(proc[p]) \/ Boots(proc[p])) /\ ~Loads(proc[p]) /\ c \in Candidate
  BY <1>1 DEF RecordOK, Loads
<1>3. CASE ~MayActivate(c)
  <2>1. Continues(p, GiveUp(p))
    BY <1>2, GiveUpOK
  <2>2. proc' = [proc EXCEPT ![p] = GiveUp(p)] /\ fleet' = fleet
    BY <1>3, Zenon DEF Commit, Goto
  <2> QED
    BY <1>1, <1>2, <2>1, <2>2, Typed, WorkMove, Zenon DEF Continues
<1>4. CASE MayActivate(c)
  <2>1. PICK state \in {"degraded", "ready"} :
          fleet' = [fleet EXCEPT !.active = c, !.state = state]
    BY <1>4, Zenon DEF Commit
  <2>2. ~fleet.closed
    BY <1>4 DEF MayActivate
  <2>3. fleet' \in Guarded /\ (fleet'.closed <=> fleet'.state = "stopped") /\ SameControl
    BY <1>1, <1>2, <2>1, <2>2, Zenon DEF Guarded, SameControl
  <2>4. PICK r : /\ proc' = [proc EXCEPT ![p] = r]
                 /\ r = IF HasCache /\ proc[p].ok = None
                        THEN [proc[p] EXCEPT !.pc = "store", !.now = 0] ELSE Finish(p, TRUE)
    BY <1>4, Zenon DEF Commit, Goto
  <2>5. CASE HasCache /\ proc[p].ok = None
    <3>1. r \in Goroutine /\ r.pc = "store" /\ r.kind = proc[p].kind
      BY <1>1, <2>4, <2>5, Config, Zenon DEF Goroutine, PCs
    <3>2. RecordOK(p, r)
      BY <1>1, <1>2, <3>1 DEF RecordOK, Leads, Boots, Starts
    <3> QED
      BY <1>1, <1>2, <2>3, <2>4, <3>1, <3>2, WorkMove, Zenon
  <2>6. CASE ~(HasCache /\ proc[p].ok = None)
    <3>1. Continues(p, r)
      BY <1>2, <2>4, <2>6, FinishOK, Zenon DEF Answers
    <3> QED
      BY <1>1, <1>2, <2>3, <2>4, <3>1, WorkMove, Zenon DEF Continues
  <2> QED
    BY <2>5, <2>6
<1> QED
  BY <1>3, <1>4

\* Cache.Store returns.
LEMMA StoreKept ==
  ASSUME FleetInv, NEW p \in Procs, Store(p)
  PROVE  FleetInv'
<1>1. /\ RecordOK(p, proc[p]) /\ proc[p] \in Goroutine /\ proc[p].pc = "store"
      /\ observed' \in Times /\ UNCHANGED <<fleet, wg, slots, cancelled, joiner>>
      /\ proc' = [proc EXCEPT ![p] = Finish(p, TRUE)]
  BY Typed DEF Store, At, Goto
<1>2. (Leads(proc[p]) \/ Boots(proc[p])) /\ ~Loads(proc[p])
  BY <1>1 DEF RecordOK, Loads
<1>3. Continues(p, Finish(p, TRUE))
  BY <1>2, FinishOK, Zenon DEF Answers
<1> QED
  BY <1>1, <1>2, <1>3, Typed, WorkMove, Zenon DEF Continues

-----------------------------------------------------------------------------
(* Bootstrap and Start                                                        *)

\* A move of a caller that changes its part in Bootstrap or Start and no other.
LEMMA BootstrapMove ==
  ASSUME FleetInv, NEW c \in Callers, NEW r, RecordOK(c, r), proc' = [proc EXCEPT ![c] = r],
         ~Waits(proc[c]), ~Holds(proc[c]), ~Loads(proc[c]), ~Leads(proc[c]),
         ~Waits(r), ~Holds(r), ~Loads(r), ~Leads(r), r.pc \notin {"cancel", "join"},
         UNCHANGED <<observed, slots, cancelled, joiner>>,
         NEW n \in Nat, wg' = [wg EXCEPT !.bootstrap = n],
         n = wg.bootstrap + Bit(Boots(r)) - Bit(Boots(proc[c])),
         Boots(r) => Boots(proc[c]) \/ ~fleet.closed,
         fleet' \in Guarded, fleet'.closed <=> fleet'.state = "stopped",
         fleet'.closed = fleet.closed, fleet'.flight = fleet.flight,
         fleet'.waiters = fleet.waiters, fleet'.started = fleet.started,
         \/ fleet'.starting = fleet.starting /\ (Starts(r) => Starts(proc[c]))
         \/ ~fleet.starting /\ fleet'.starting /\ ~fleet.started
         \/ Starts(proc[c]) /\ ~Starts(r)
  PROVE  FleetInv'
<1>0. c \in Procs /\ c \notin Loops
  BY Config DEF Loops
<1>1. proc' \in [Procs -> Goroutine] /\ proc'[c] = r /\ Others(c)
  BY <1>0, Placed, Zenon
<1>2. /\ wg \in WaitGroups /\ fleet \in Guarded /\ (fleet.closed <=> fleet.state = "stopped")
      /\ observed \in Times /\ cancelled \in BOOLEAN /\ slots \in 0..MaxConcurrentProviderLoads
      /\ wg.refresh = Bit(fleet.flight # None)
  BY DEF FleetInv, TypeInv, CountInv
<1>3. /\ wg' \in WaitGroups /\ wg'.load = wg.load /\ wg'.bootstrap = n
      /\ wg'.refresh = wg.refresh /\ wg'.run = wg.run
      /\ wg.load \in Nat /\ wg.run \in Nat /\ fleet.waiters \in Nat /\ slots \in Nat
  BY <1>2, Config DEF WaitGroups, Guarded
<1>4. /\ fleet'.waiters = fleet.waiters + Bit(Waits(r)) - Bit(Waits(proc[c]))
      /\ slots' = slots + Bit(Holds(r)) - Bit(Holds(proc[c]))
      /\ wg'.load = wg.load + Bit(Loads(r)) - Bit(Loads(proc[c]))
      /\ wg'.run = wg.run + Bit(c \in Loops /\ r.pc # "idle")
                          - Bit(c \in Loops /\ proc[c].pc # "idle")
  BY <1>0, <1>3 DEF Bit
<1>5. /\ fleet'.flight = IF Leads(r) THEN c ELSE IF Leads(proc[c]) THEN None ELSE fleet.flight
      /\ wg'.refresh = Bit(fleet'.flight # None)
  BY <1>2, <1>3
<1> QED
  BY <1>0, <1>1, <1>2, <1>3, <1>4, <1>5, Move DEF Joins

\* Bootstrap's admission keeps the invariant: it is counted, and only before the
\* fleet is closed.
LEMMA EnterBootstrapKept ==
  ASSUME FleetInv, NEW c \in Callers, NEW kind \in {"bootstrap", "start"},
         EnterBootstrap(c, kind),
         ~Waits(proc[c]), ~Holds(proc[c]), ~Loads(proc[c]), ~Leads(proc[c]), ~Boots(proc[c]),
         kind = "start" <=> Starts(proc[c])
  PROVE  FleetInv'
<1> DEFINE r == [Blank EXCEPT !.pc = "load", !.kind = kind]
<1>1. /\ proc' = [proc EXCEPT ![c] = r] /\ ~fleet.closed
      /\ wg' = [wg EXCEPT !.bootstrap = @ + 1]
      /\ UNCHANGED <<observed, fleet, slots, cancelled, joiner>>
      /\ wg \in WaitGroups /\ fleet \in Guarded
  BY Typed DEF EnterBootstrap, Goto
<1>2. r \in Goroutine /\ r.pc = "load" /\ r.kind = kind
  BY BlankOK, Zenon DEF Goroutine, PCs, Kinds, Blank
<1>3. RecordOK(c, r) /\ ~Waits(r) /\ ~Holds(r) /\ ~Loads(r) /\ ~Leads(r) /\ Boots(r)
      /\ (Starts(r) <=> kind = "start")
  BY <1>2 DEF RecordOK, Leads, Boots, Starts, Waits, Holds, Loads
<1>4. PICK n \in Nat : /\ wg' = [wg EXCEPT !.bootstrap = n]
                       /\ n = wg.bootstrap + Bit(Boots(r)) - Bit(Boots(proc[c]))
  BY <1>1, <1>3 DEF WaitGroups, Bit
<1> HIDE DEF r
<1> QED
  BY <1>1, <1>2, <1>3, <1>4, Typed, BootstrapMove, Zenon

\* The application calls Bootstrap.
LEMMA BootstrapKept ==
  ASSUME FleetInv, NEW c \in Callers, Bootstrap(c)
  PROVE  FleetInv'
<1>1. proc[c].pc = "idle" /\ EnterBootstrap(c, "bootstrap")
  BY DEF Bootstrap, At
<1>2. NoRole(proc[c])
  BY <1>1, AsideHasNoRole DEF Aside
<1> QED
  BY <1>1, <1>2, EnterBootstrapKept DEF NoRole

\* Start claims the fleet.
LEMMA StartKept ==
  ASSUME FleetInv, NEW c \in Callers, Start(c)
  PROVE  FleetInv'
<1> DEFINE r == [Blank EXCEPT !.pc = "bootstrap", !.kind = "start"]
<1>1. /\ proc[c].pc = "idle" /\ ~fleet.started /\ ~fleet.starting
      /\ proc' = [proc EXCEPT ![c] = r] /\ fleet' = [fleet EXCEPT !.starting = TRUE]
      /\ UNCHANGED <<observed, wg, slots, cancelled, joiner>>
      /\ wg \in WaitGroups
  BY Typed DEF Start, At, Goto
<1>2. NoRole(proc[c])
  BY <1>1, AsideHasNoRole DEF Aside
<1>3. r \in Goroutine /\ r.pc = "bootstrap" /\ r.kind = "start"
  BY BlankOK, Zenon DEF Goroutine, PCs, Kinds, Blank
<1>4. RecordOK(c, r) /\ ~Waits(r) /\ ~Holds(r) /\ ~Loads(r) /\ ~Leads(r) /\ ~Boots(r)
  BY <1>3 DEF RecordOK, Leads, Boots, Starts, Waits, Holds, Loads
<1>5. /\ wg' = [wg EXCEPT !.bootstrap = wg.bootstrap] /\ wg.bootstrap \in Nat
      /\ wg.bootstrap = wg.bootstrap + Bit(Boots(r)) - Bit(Boots(proc[c]))
  BY <1>1, <1>2, <1>4 DEF WaitGroups, Bit, NoRole
<1>6. /\ fleet' \in Guarded /\ (fleet'.closed <=> fleet'.state = "stopped") /\ fleet'.starting
      /\ fleet'.closed = fleet.closed /\ fleet'.flight = fleet.flight
      /\ fleet'.waiters = fleet.waiters /\ fleet'.started = fleet.started
  BY <1>1, Typed, Zenon DEF Guarded
<1> HIDE DEF r
<1> QED
  BY <1>1, <1>2, <1>3, <1>4, <1>5, <1>6, BootstrapMove, Zenon DEF NoRole

\* Start calls Bootstrap, which refuses when the fleet has been closed meanwhile.
LEMMA StartBootstrapKept ==
  ASSUME FleetInv, NEW c \in Procs, StartBootstrap(c)
  PROVE  FleetInv'
<1>1. /\ RecordOK(c, proc[c]) /\ proc[c] \in Goroutine /\ proc[c].pc = "bootstrap"
      /\ proc[c].kind = "start"
  BY Typed DEF StartBootstrap, At, RecordOK
<1>2. /\ c \in Callers /\ Starts(proc[c]) /\ ~Waits(proc[c]) /\ ~Holds(proc[c])
      /\ ~Loads(proc[c]) /\ ~Leads(proc[c]) /\ ~Boots(proc[c])
  BY <1>1 DEF RecordOK, Leads, Boots, Starts, Waits, Holds, Loads
<1>3. CASE EnterBootstrap(c, "start")
  BY <1>2, <1>3, EnterBootstrapKept
<1>4. CASE /\ fleet.closed
           /\ Goto(c, [proc[c] EXCEPT !.pc = "started", !.ok = FALSE])
           /\ UNCHANGED <<observed, fleet, wg, slots, cancelled, joiner, expired, met>>
  <2> DEFINE r == [proc[c] EXCEPT !.pc = "started", !.ok = FALSE]
  <2>1. r \in Goroutine /\ r.pc = "started" /\ r.kind = "start"
    BY <1>1, Zenon DEF Goroutine, PCs, Answers
  <2>2. RecordOK(c, r) /\ SameRole(c, proc[c], r)
    BY <1>1, <1>2, <2>1
       DEF RecordOK, SameRole, Leads, Boots, Starts, Waits, Holds, Loads
  <2> QED
    BY <1>4, <2>1, <2>2, Typed, Keep, Zenon DEF Goto, Joins
<1> QED
  BY <1>3, <1>4 DEF StartBootstrap

\* Bootstrap returns.
LEMMA LeaveBootstrapKept ==
  ASSUME FleetInv, NEW c \in Procs, LeaveBootstrap(c)
  PROVE  FleetInv'
<1>1. /\ RecordOK(c, proc[c]) /\ proc[c] \in Goroutine /\ proc[c].pc = "leave"
      /\ Boots(proc[c]) /\ wg.bootstrap >= 1 /\ wg \in WaitGroups /\ fleet \in Guarded
      /\ wg' = [wg EXCEPT !.bootstrap = @ - 1]
      /\ UNCHANGED <<observed, fleet, slots, cancelled, joiner>>
  BY Typed, Counted DEF LeaveBootstrap, At, RecordOK
<1>2. /\ c \in Callers /\ ~Waits(proc[c]) /\ ~Holds(proc[c])
      /\ ~Loads(proc[c]) /\ ~Leads(proc[c])
  BY <1>1 DEF RecordOK, Leads, Boots, Starts, Waits, Holds, Loads
<1>3. PICK r : /\ proc' = [proc EXCEPT ![c] = r]
               /\ r = IF proc[c].kind = "start"
                      THEN [Blank EXCEPT !.pc = "started", !.kind = "start", !.ok = proc[c].ok]
                      ELSE Blank
  BY Zenon DEF LeaveBootstrap, Goto
<1>4. /\ RecordOK(c, r) /\ r.pc \in {"idle", "started"}
      /\ (Starts(r) => Starts(proc[c]))
  <2>1. CASE proc[c].kind = "start"
    <3>1. r \in Goroutine /\ r.pc = "started" /\ r.kind = "start"
      BY <1>1, <1>3, <2>1, BlankOK, Zenon DEF Goroutine, PCs, Kinds, Blank
    <3> QED
      BY <1>1, <1>2, <2>1, <3>1 DEF RecordOK, Leads, Boots, Starts
  <2>2. CASE proc[c].kind # "start"
    BY <1>3, <2>2, BlankOK, Zenon DEF Blank, Starts, Boots
  <2> QED
    BY <2>1, <2>2
<1>5. ~Waits(r) /\ ~Holds(r) /\ ~Loads(r) /\ ~Leads(r) /\ ~Boots(r)
  BY <1>4 DEF Waits, Holds, Loads, Leads, Boots
<1>6. PICK n \in Nat : /\ wg' = [wg EXCEPT !.bootstrap = n]
                       /\ n = wg.bootstrap + Bit(Boots(r)) - Bit(Boots(proc[c]))
  BY <1>1, <1>5 DEF WaitGroups, Bit
<1>7. proc' = [proc EXCEPT ![c] = r]
  BY <1>3
<1> QED
  BY <1>1, <1>2, <1>4, <1>5, <1>6, <1>7, Typed, BootstrapMove, Zenon

\* Start spawns the loops: they are in no other role, nothing has stopped the
\* fleet, and so nobody has waited for them yet.
LEMMA SpawnKept ==
  ASSUME FleetInv, NEW c \in Callers, Starts(proc[c]), proc[c].pc = "started", ~fleet.closed,
         fleet' = [fleet EXCEPT !.starting = FALSE, !.started = TRUE, !.watching = HasWatcher],
         wg' = [wg EXCEPT !.run = @ + IF HasWatcher THEN 2 ELSE 1],
         proc' = [proc EXCEPT ![c] = Blank, ![Refresher] = Looping("sleep"),
                              ![Watcher] = IF HasWatcher THEN Looping("next") ELSE Blank],
         UNCHANGED <<observed, slots, cancelled, joiner>>
  PROVE  FleetInv'
<1> DEFINE rr == Looping("sleep")
           rw == IF HasWatcher THEN Looping("next") ELSE Blank
<1>1. /\ TypeInv /\ CountInv /\ LeadInv /\ StartInv /\ StopInv
      /\ c \in Procs /\ c # Refresher /\ c # Watcher
  BY Config DEF FleetInv
<1>2. /\ RecordOK(Refresher, rr) /\ rr.pc = "sleep"
      /\ RecordOK(Watcher, rw) /\ rw.pc = (IF HasWatcher THEN "next" ELSE "idle")
  <2>1. rr = [Blank EXCEPT !.pc = "sleep", !.late = cancelled]
    BY DEF Looping
  <2>2. rr \in Goroutine /\ rr.pc = "sleep"
    BY <1>1, <2>1, BlankOK, Zenon DEF Goroutine, PCs, Blank, TypeInv
  <2>3. RecordOK(Refresher, rr)
    BY <2>2 DEF RecordOK, Leads, Boots, Starts, Loops
  <2>4. CASE HasWatcher
    <3>1. rw = [Blank EXCEPT !.pc = "next", !.late = cancelled]
      BY <2>4 DEF Looping
    <3>2. rw \in Goroutine /\ rw.pc = "next"
      BY <1>1, <3>1, BlankOK, Zenon DEF Goroutine, PCs, Blank, TypeInv
    <3> QED
      BY <2>2, <2>3, <2>4, <3>2 DEF RecordOK, Leads, Boots, Starts, Loops
  <2>5. CASE ~HasWatcher
    BY <2>2, <2>3, <2>5, BlankOK, Config, Zenon DEF Blank
  <2> QED
    BY <2>4, <2>5
<1>3. /\ proc'[c] = Blank /\ proc'[Refresher] = rr /\ proc'[Watcher] = rw
      /\ \A q \in Callers : q # c => proc'[q] = proc[q]
      /\ DOMAIN proc' = Procs
  BY <1>1, Config DEF TypeInv
<1>4. proc[Refresher].pc = "idle" /\ proc[Watcher].pc = "idle"
  BY <1>1 DEF StartInv, Loops
<1> HIDE DEF rr, rw
<1>5. \A q \in Procs : q \in {c, Refresher, Watcher} \/ (q \in Callers /\ proc'[q] = proc[q])
  BY <1>3, Config DEF Loops
<1>6. /\ Blank.pc = "idle" /\ RecordOK(c, Blank)
      /\ NoRole(rr) /\ NoRole(rw) /\ NoRole(Blank)
      /\ NoRole(proc[Refresher]) /\ NoRole(proc[Watcher])
      /\ ~Waits(proc[c]) /\ ~Holds(proc[c]) /\ ~Loads(proc[c]) /\ ~Leads(proc[c])
      /\ ~Boots(proc[c])
  <2>1. Blank.pc = "idle" /\ RecordOK(c, Blank)
    BY <1>1, BlankOK, Zenon DEF Blank
  <2>2. /\ NoRole(rr) /\ NoRole(rw) /\ NoRole(Blank)
        /\ NoRole(proc[Refresher]) /\ NoRole(proc[Watcher])
    BY <1>2, <1>4, <2>1, AsideHasNoRole DEF Aside
  <2> QED
    BY <2>1, <2>2 DEF Waits, Holds, Loads, Leads, Boots
<1>7. /\ fleet' \in Guarded /\ fleet'.started /\ ~fleet'.closed
      /\ fleet'.closed = fleet.closed /\ fleet'.state = fleet.state
      /\ fleet'.flight = fleet.flight /\ fleet'.waiters = fleet.waiters
  BY <1>1, Config, Zenon DEF TypeInv, Guarded
<1>8. /\ wg' \in WaitGroups /\ wg'.load = wg.load /\ wg'.bootstrap = wg.bootstrap
      /\ wg'.refresh = wg.refresh /\ wg'.run = wg.run + (IF HasWatcher THEN 2 ELSE 1)
  BY <1>1 DEF TypeInv, WaitGroups
<1>9. TypeInv'
  <2>1. \A q \in Procs : RecordOK(q, proc'[q])
    BY <1>1, <1>2, <1>3, <1>5, <1>6 DEF TypeInv
  <2>2. \A q \in Procs : proc'[q] \in Goroutine
    BY <2>1, Zenon DEF RecordOK
  <2>3. proc' \in [Procs -> Goroutine]
    BY <1>3, <2>2, Zenon
  <2> QED
    BY <1>1, <1>7, <1>8, <2>1, <2>3 DEF TypeInv
<1>10. CountInv'
  <2>1. Waiting' = Waiting /\ Holding' = Holding /\ InLoad' = InLoad /\ InBootstrap' = InBootstrap
    BY <1>3, <1>5, <1>6 DEF Waiting, Holding, InLoad, InBootstrap, NoRole
  <2>2. wg.run = 0
    BY <1>1, <1>4 DEF CountInv, Bit
  <2>3. wg'.run = Bit(proc'[Refresher].pc # "idle") + Bit(proc'[Watcher].pc # "idle")
    BY <1>2, <1>3, <1>8, <2>2, Config DEF Bit
  <2>4. /\ fleet'.waiters = Cardinality(Waiting') /\ slots' = Cardinality(Holding')
        /\ wg'.load = Cardinality(InLoad') /\ wg'.bootstrap = Cardinality(InBootstrap')
        /\ wg'.refresh = Bit(fleet'.flight # None)
    BY <1>1, <1>7, <1>8, <2>1 DEF CountInv
  <2> QED
    BY <2>3, <2>4 DEF CountInv
<1>11. LeadInv'
  BY <1>1, <1>3, <1>5, <1>6, <1>7 DEF LeadInv, NoRole
<1>12. StartInv'
  <2>1. \A q \in Procs : ~Starts(proc'[q])
    BY <1>1, <1>3, <1>5, <1>6 DEF StartInv, NoRole
  <2> QED
    BY <1>7, <2>1, Zenon DEF StartInv
<1>13. StopInv'
  <2>1. joiner' = "none"
    BY <1>1 DEF StopInv
  <2>2. \A q \in Procs : proc'[q].pc \notin {"cancel", "join"}
    BY <1>1, <1>2, <1>3, <1>5, <1>6 DEF StopInv
  <2> QED
    BY <2>1, <2>2, Zenon DEF StopInv
<1> QED
  BY <1>9, <1>10, <1>11, <1>12, <1>13 DEF FleetInv

\* Start returns, with or without the loops.
LEMMA StartReturnsKept ==
  ASSUME FleetInv, NEW c \in Procs, StartReturns(c)
  PROVE  FleetInv'
<1>1. /\ RecordOK(c, proc[c]) /\ proc[c] \in Goroutine /\ proc[c].pc = "started"
      /\ proc[c].kind = "start" /\ UNCHANGED <<observed, slots, cancelled, joiner>>
      /\ wg \in WaitGroups
  BY Typed DEF StartReturns, At, RecordOK
<1>2. /\ c \in Callers /\ Starts(proc[c]) /\ ~Waits(proc[c]) /\ ~Holds(proc[c])
      /\ ~Loads(proc[c]) /\ ~Leads(proc[c]) /\ ~Boots(proc[c])
  BY <1>1 DEF RecordOK, Leads, Boots, Starts, Waits, Holds, Loads
<1>3. CASE MayRun(c)
  <2>1. /\ ~fleet.closed
        /\ fleet' = [fleet EXCEPT !.starting = FALSE, !.started = TRUE, !.watching = HasWatcher]
        /\ wg' = [wg EXCEPT !.run = @ + IF HasWatcher THEN 2 ELSE 1]
        /\ proc' = [proc EXCEPT ![c] = Blank, ![Refresher] = Looping("sleep"),
                                ![Watcher] = IF HasWatcher THEN Looping("next") ELSE Blank]
    BY <1>3 DEF StartReturns, MayRun
  <2> QED
    BY <1>1, <1>2, <2>1, SpawnKept, Zenon
<1>4. CASE ~MayRun(c)
  <2>1. /\ fleet' = [fleet EXCEPT !.starting = FALSE]
        /\ proc' = [proc EXCEPT ![c] = Blank] /\ wg' = wg
    BY <1>4 DEF StartReturns, Goto
  <2>2. /\ fleet' \in Guarded /\ (fleet'.closed <=> fleet'.state = "stopped")
        /\ fleet'.closed = fleet.closed /\ fleet'.flight = fleet.flight
        /\ fleet'.waiters = fleet.waiters /\ fleet'.started = fleet.started
    BY <2>1, Typed, Zenon DEF Guarded
  <2>3. RecordOK(c, Blank) /\ Blank.pc = "idle"
    BY BlankOK, Zenon DEF Blank
  <2>4. NoRole(Blank)
    BY <2>3, AsideHasNoRole DEF Aside
  <2>5. PICK n \in Nat : /\ wg' = [wg EXCEPT !.bootstrap = n]
                         /\ n = wg.bootstrap + Bit(Boots(Blank)) - Bit(Boots(proc[c]))
    BY <1>1, <1>2, <2>1, <2>4 DEF WaitGroups, Bit, NoRole
  <2> QED
    BY <1>1, <1>2, <2>1, <2>2, <2>3, <2>4, <2>5, BootstrapMove, Zenon DEF NoRole
<1> QED
  BY <1>3, <1>4

\* The end of Start's context only ends runCtx.
LEMMA CancelStartKept ==
  ASSUME FleetInv, CancelStart
  PROVE  FleetInv'
BY DEF CancelStart, FleetInv, TypeInv, CountInv, LeadInv, StartInv, StopInv,
       Waiting, Holding, InLoad, InBootstrap

-----------------------------------------------------------------------------
(* Refresh                                                                    *)

\* A record without a role, for a step that begins or continues a call.
LEMMA AsideOK ==
  ASSUME NEW p \in Procs, NEW r \in Goroutine, r.pc \in {"admit", "hint", "refresh", "evaluate"},
         r.pc = "hint" => r.hint \in Hint, r.pc = "evaluate" => p \in Callers
  PROVE  RecordOK(p, r) /\ r.pc \in Aside \ {"idle", "cancel", "join"}
BY DEF RecordOK, Aside, Leads, Boots, Starts

\* Refresh reads the clock.
LEMMA RefreshKept ==
  ASSUME FleetInv, NEW c \in Callers, Refresh(c)
  PROVE  FleetInv'
<1>1. /\ c \in Procs /\ c \notin Loops /\ proc[c].pc \in Aside
      /\ UNCHANGED <<fleet, wg, slots, cancelled, joiner>>
  BY Config DEF Refresh, At, Aside, Loops
<1>2. PICK n \in Times : /\ observed' = n
                         /\ proc' = [proc EXCEPT ![c] = [Blank EXCEPT !.pc = "admit", !.kind = "refresh", !.now = n]]
  BY Zenon DEF Refresh, now, Goto
<1> DEFINE r == [Blank EXCEPT !.pc = "admit", !.kind = "refresh", !.now = n]
<1>3. r \in Goroutine /\ r.pc = "admit"
  BY BlankOK, Zenon DEF Goroutine, PCs, Kinds, Blank
<1>4. RecordOK(c, r) /\ r.pc \in Aside \ {"idle", "cancel", "join"}
  BY <1>1, <1>3, AsideOK, Zenon
<1> HIDE DEF r
<1>5. proc' = [proc EXCEPT ![c] = r]
  BY <1>2 DEF r
<1> QED
  BY <1>1, <1>2, <1>4, <1>5, Typed, StepAside, Zenon

\* So does the Refresh of an invalidation.
LEMMA RefreshForHintKept ==
  ASSUME FleetInv, NEW p \in Procs, RefreshForHint(p)
  PROVE  FleetInv'
<1>1. /\ proc[p] \in Goroutine /\ proc[p].pc = "refresh" /\ proc[p].pc \in Aside
      /\ UNCHANGED <<fleet, wg, slots, cancelled, joiner>>
  BY Typed DEF RefreshForHint, At, Aside
<1>2. PICK n \in Times : /\ observed' = n
                         /\ proc' = [proc EXCEPT ![p] = [proc[p] EXCEPT !.pc = "admit", !.now = n, !.hint = None]]
  BY Zenon DEF RefreshForHint, now, Goto
<1> DEFINE r == [proc[p] EXCEPT !.pc = "admit", !.now = n, !.hint = None]
<1>3. r \in Goroutine /\ r.pc = "admit"
  BY <1>1, Zenon DEF Goroutine, PCs
<1>4. RecordOK(p, r) /\ r.pc \in Aside \ {"idle", "cancel", "join"}
  BY <1>3, AsideOK, Zenon
<1>5. proc' = [proc EXCEPT ![p] = r]
  BY <1>2
<1> HIDE DEF r
<1> QED
  BY <1>1, <1>2, <1>4, <1>5, Typed, StepAside, Zenon

\* A call that returns, and has no role to give up.
LEMMA ReturnKept ==
  ASSUME FleetInv, NEW p \in Procs, NEW ok \in Answers, proc[p].pc \in Aside \ {"idle"},
         proc' = [proc EXCEPT ![p] = Back(p, ok)],
         UNCHANGED <<observed, wg, slots, cancelled, joiner>>,
         fleet' \in Guarded, fleet'.closed <=> fleet'.state = "stopped", SameControl
  PROVE  FleetInv'
<1>1. /\ RecordOK(p, Back(p, ok)) /\ Back(p, ok).pc \in Aside \ {"cancel", "join"}
      /\ p \in Loops => Back(p, ok).pc # "idle"
  BY BackOK
<1> QED
  BY <1>1, Typed, StepAside, Zenon

\* What a loop records, before it goes on.
LEMMA RecordingOK ==
  ASSUME NEW p \in Loops, NEW next \in {"sleep", "next", "stop", "exit"}
  PROVE  RecordOK(p, Recording(next)) /\ Recording(next).pc = "record"
<1> DEFINE r == Recording(next)
<1>1. r \in Goroutine /\ r.pc = "record" /\ r.kind = next
  BY BlankOK, Zenon DEF Recording, Goroutine, PCs, Kinds, Blank
<1> QED
  BY <1>1 DEF RecordOK, Leads, Boots, Starts

\* Refresh is refused.
LEMMA RefuseKept ==
  ASSUME FleetInv, NEW p \in Procs, Refuse(p)
  PROVE  FleetInv'
<1>1. /\ proc[p].pc \in Aside \ {"idle"}
      /\ UNCHANGED <<observed, fleet, wg, slots, cancelled, joiner>>
  BY DEF Refuse, At, Aside
<1>2. CASE p = Refresher /\ ~fleet.closed
  <2>1. proc' = [proc EXCEPT ![p] = Recording("sleep")]
    BY <1>2 DEF Refuse, Goto
  <2>2. RecordOK(p, Recording("sleep")) /\ Recording("sleep").pc = "record"
    BY <1>2, RecordingOK DEF Loops
  <2> QED
    BY <1>1, <2>1, <2>2, Typed, StepAside, Zenon DEF Aside
<1>3. CASE ~(p = Refresher /\ ~fleet.closed)
  <2>1. proc' = [proc EXCEPT ![p] = Back(p, FALSE)] /\ FALSE \in Answers
    BY <1>3, Zenon DEF Refuse, Goto, Answers
  <2> QED
    BY <1>1, <2>1, Typed, ReturnKept, Zenon
<1> QED
  BY <1>2, <1>3

\* Refresh is deferred.
LEMMA DeferKept ==
  ASSUME FleetInv, NEW p \in Procs, Defer(p)
  PROVE  FleetInv'
<1>1. /\ proc[p].pc \in Aside \ {"idle"} /\ TRUE \in Answers
      /\ proc' = [proc EXCEPT ![p] = Back(p, TRUE)]
      /\ UNCHANGED <<observed, fleet, wg, slots, cancelled, joiner>>
  BY DEF Defer, At, Aside, Goto, Answers
<1> QED
  BY <1>1, Typed, ReturnKept, Zenon

\* A goroutine begins or ends to wait for a flight, and the count follows.
LEMMA WaitMove ==
  ASSUME FleetInv, NEW p \in Procs, NEW r, RecordOK(p, r), proc' = [proc EXCEPT ![p] = r],
         proc[p].pc \in (Aside \cup {"wait"}) \ {"idle"},
         r.pc \in (Aside \cup {"wait"}) \ {"cancel", "join"}, p \in Loops => r.pc # "idle",
         NEW n \in 0..MaxWaiters, fleet' = [fleet EXCEPT !.waiters = n],
         n = fleet.waiters + Bit(Waits(r)) - Bit(Waits(proc[p])),
         UNCHANGED <<observed, wg, slots, cancelled, joiner>>
  PROVE  FleetInv'
<1>1. proc' \in [Procs -> Goroutine] /\ proc'[p] = r /\ Others(p)
  BY Placed, Zenon
<1>2. /\ wg \in WaitGroups /\ fleet \in Guarded /\ (fleet.closed <=> fleet.state = "stopped")
      /\ observed \in Times /\ cancelled \in BOOLEAN /\ slots \in 0..MaxConcurrentProviderLoads
      /\ wg.refresh = Bit(fleet.flight # None)
  BY DEF FleetInv, TypeInv, CountInv
<1>3. /\ wg.load \in Nat /\ wg.run \in Nat /\ wg.bootstrap \in Nat /\ slots \in Nat
  BY <1>2, Config DEF WaitGroups
<1>4. /\ ~Holds(proc[p]) /\ ~Loads(proc[p]) /\ ~Leads(proc[p]) /\ ~Boots(proc[p])
      /\ ~Starts(proc[p]) /\ proc[p].pc # "idle"
      /\ ~Holds(r) /\ ~Loads(r) /\ ~Leads(r) /\ ~Boots(r) /\ ~Starts(r)
  BY DEF Aside, Holds, Loads, Leads, Boots, Starts
<1>5. /\ fleet' \in Guarded /\ (fleet'.closed <=> fleet'.state = "stopped")
      /\ fleet'.waiters = n /\ fleet'.closed = fleet.closed /\ fleet'.flight = fleet.flight
      /\ fleet'.starting = fleet.starting /\ fleet'.started = fleet.started
  BY <1>2 DEF Guarded
<1>6. /\ slots' = slots + Bit(Holds(r)) - Bit(Holds(proc[p]))
      /\ wg'.load = wg.load + Bit(Loads(r)) - Bit(Loads(proc[p]))
      /\ wg'.bootstrap = wg.bootstrap + Bit(Boots(r)) - Bit(Boots(proc[p]))
      /\ wg'.run = wg.run + Bit(p \in Loops /\ r.pc # "idle")
                          - Bit(p \in Loops /\ proc[p].pc # "idle")
  BY <1>3, <1>4 DEF Bit
<1>7. /\ fleet'.flight = IF Leads(r) THEN p ELSE IF Leads(proc[p]) THEN None ELSE fleet.flight
      /\ wg'.refresh = Bit(fleet'.flight # None)
  BY <1>2, <1>4, <1>5
<1> QED
  BY <1>1, <1>2, <1>4, <1>5, <1>6, <1>7, Move DEF Joins

\* Refresh joins the flight in progress, while there is room.
LEMMA FollowKept ==
  ASSUME FleetInv, NEW p \in Procs, Follow(p)
  PROVE  FleetInv'
<1> DEFINE r == [Blank EXCEPT !.pc = "wait"]
<1>1. /\ proc[p].pc = "admit" /\ proc' = [proc EXCEPT ![p] = r]
      /\ fleet.waiters < MaxWaiters /\ fleet' = [fleet EXCEPT !.waiters = @ + 1]
      /\ UNCHANGED <<observed, wg, slots, cancelled, joiner>> /\ fleet \in Guarded
  BY Typed DEF Follow, At, Goto, MayWait
<1>2. r \in Goroutine /\ r.pc = "wait"
  BY BlankOK, Zenon DEF Goroutine, PCs, Blank
<1>3. RecordOK(p, r)
  BY <1>2 DEF RecordOK, Leads, Boots, Starts
<1>4. PICK n \in 0..MaxWaiters : /\ fleet' = [fleet EXCEPT !.waiters = n]
                                 /\ n = fleet.waiters + Bit(Waits(r)) - Bit(Waits(proc[p]))
  <2>1. fleet.waiters \in 0..MaxWaiters /\ fleet' = [fleet EXCEPT !.waiters = fleet.waiters + 1]
    BY <1>1 DEF Guarded
  <2>2. fleet.waiters + 1 \in 0..MaxWaiters
    BY <1>1, <2>1, Config
  <2>3. fleet.waiters + 1 = fleet.waiters + Bit(Waits(r)) - Bit(Waits(proc[p]))
    BY <1>1, <1>2, <2>1, Config DEF Bit, Waits
  <2> QED
    BY <2>1, <2>2, <2>3
<1> HIDE DEF r
<1> QED
  BY <1>1, <1>2, <1>3, <1>4, WaitMove, Zenon DEF Aside

\* A follower leaves: it was counted.
LEMMA DetachKept ==
  ASSUME FleetInv, NEW p \in Procs, NEW ok \in Answers, proc[p].pc = "wait", Detach(p, ok)
  PROVE  FleetInv'
<1> DEFINE r == Back(p, ok)
<1>1. /\ proc' = [proc EXCEPT ![p] = r] /\ fleet' = [fleet EXCEPT !.waiters = @ - 1]
      /\ UNCHANGED <<observed, wg, slots, cancelled, joiner>> /\ fleet \in Guarded
      /\ Waits(proc[p]) /\ fleet.waiters >= 1
  BY Typed, Counted DEF Detach, Goto, Waits
<1>2. /\ RecordOK(p, r) /\ r.pc \in Aside \ {"cancel", "join"}
      /\ p \in Loops => r.pc # "idle"
  BY BackOK
<1> HIDE DEF r
<1>3. PICK n \in 0..MaxWaiters : /\ fleet' = [fleet EXCEPT !.waiters = n]
                                 /\ n = fleet.waiters + Bit(Waits(r)) - Bit(Waits(proc[p]))
  <2>1. fleet.waiters \in 0..MaxWaiters /\ fleet' = [fleet EXCEPT !.waiters = fleet.waiters - 1]
    BY <1>1 DEF Guarded
  <2>2. fleet.waiters - 1 \in 0..MaxWaiters
    BY <1>1, <2>1, Config
  <2>3. ~Waits(r)
    BY <1>2, AsideHasNoRole DEF NoRole
  <2>4. fleet.waiters - 1 = fleet.waiters + Bit(Waits(r)) - Bit(Waits(proc[p]))
    BY <1>1, <2>1, <2>3, Config DEF Bit
  <2> QED
    BY <2>1, <2>2, <2>4
<1> QED
  BY <1>1, <1>2, <1>3, WaitMove, Zenon DEF Aside

\* On either way out.
LEMMA WakeKept ==
  ASSUME FleetInv, NEW p \in Procs, Wake(p) \/ CancelWait(p)
  PROVE  FleetInv'
<1>1. proc[p].pc = "wait" /\ proc[p].ok \in Answers /\ FALSE \in Answers
  BY Typed, Zenon DEF Wake, CancelWait, At, Goroutine, Answers
<1>2. Detach(p, proc[p].ok) \/ Detach(p, FALSE)
  BY Zenon DEF Wake, CancelWait
<1> QED
  BY <1>1, <1>2, DetachKept, Zenon

\* Refresh leads a flight of its own: there is no other, and the fleet is open.
LEMMA LeadKept ==
  ASSUME FleetInv, NEW p \in Procs, Lead(p)
  PROVE  FleetInv'
<1> DEFINE r == [Blank EXCEPT !.pc = "load", !.kind = "refresh"]
<1>1. /\ proc[p].pc = "admit" /\ ~fleet.closed /\ fleet.flight = None
      /\ fleet' = [fleet EXCEPT !.flight = p, !.last = proc[p].now]
      /\ wg' = [wg EXCEPT !.refresh = @ + 1] /\ proc' = [proc EXCEPT ![p] = r]
      /\ UNCHANGED <<observed, slots, cancelled, joiner>>
  BY DEF Lead, At, Goto
<1>2. /\ wg \in WaitGroups /\ fleet \in Guarded /\ (fleet.closed <=> fleet.state = "stopped")
      /\ observed \in Times /\ cancelled \in BOOLEAN /\ slots \in 0..MaxConcurrentProviderLoads
      /\ wg.refresh = 0 /\ proc[p].now \in Times
  BY <1>1, Typed DEF FleetInv, CountInv, Bit, Goroutine
<1>3. r \in Goroutine /\ r.pc = "load" /\ r.kind = "refresh"
  BY BlankOK, Zenon DEF Goroutine, PCs, Kinds, Blank
<1>4. /\ RecordOK(p, r) /\ NoRole(proc[p])
      /\ ~Waits(r) /\ ~Holds(r) /\ ~Loads(r) /\ Leads(r) /\ ~Boots(r) /\ ~Starts(r)
  <2>1. NoRole(proc[p])
    BY <1>1, AsideHasNoRole DEF Aside
  <2> QED
    BY <1>3, <2>1 DEF RecordOK, Waits, Holds, Loads, Leads, Boots, Starts
<1> HIDE DEF r
<1>5. proc' \in [Procs -> Goroutine] /\ proc'[p] = r /\ Others(p)
  BY <1>1, <1>4, Placed, Zenon
<1>6. /\ fleet' \in Guarded /\ (fleet'.closed <=> fleet'.state = "stopped")
      /\ fleet'.waiters = fleet.waiters /\ fleet'.closed = fleet.closed /\ fleet'.flight = p
      /\ fleet'.starting = fleet.starting /\ fleet'.started = fleet.started
  BY <1>1, <1>2, Zenon DEF Guarded
<1>7. /\ wg' \in WaitGroups /\ wg'.load = wg.load /\ wg'.bootstrap = wg.bootstrap
      /\ wg'.run = wg.run /\ wg'.refresh = 1
      /\ wg.load \in Nat /\ wg.bootstrap \in Nat /\ wg.run \in Nat
      /\ slots \in Nat /\ fleet.waiters \in Nat
  BY <1>1, <1>2, Config DEF WaitGroups, Guarded
<1>8. /\ fleet'.waiters = fleet.waiters + Bit(Waits(r)) - Bit(Waits(proc[p]))
      /\ slots' = slots + Bit(Holds(r)) - Bit(Holds(proc[p]))
      /\ wg'.load = wg.load + Bit(Loads(r)) - Bit(Loads(proc[p]))
      /\ wg'.bootstrap = wg.bootstrap + Bit(Boots(r)) - Bit(Boots(proc[p]))
      /\ wg'.run = wg.run + Bit(p \in Loops /\ r.pc # "idle")
                          - Bit(p \in Loops /\ proc[p].pc # "idle")
      /\ wg'.refresh = Bit(fleet'.flight # None)
  BY <1>1, <1>3, <1>4, <1>6, <1>7, Config DEF Bit, NoRole
<1> QED
  BY <1>1, <1>2, <1>3, <1>4, <1>5, <1>6, <1>7, <1>8, Move DEF NoRole, Joins

\* The leader reads the clock.
LEMMA CompletingKept ==
  ASSUME FleetInv, NEW p \in Procs, Completing(p)
  PROVE  FleetInv'
<1>1. /\ RecordOK(p, proc[p]) /\ proc[p] \in Goroutine /\ proc[p].pc = "loaded"
      /\ UNCHANGED <<fleet, wg, slots, cancelled, joiner>>
  BY Typed DEF Completing, At
<1>2. Leads(proc[p]) /\ ~Loads(proc[p])
  BY <1>1 DEF RecordOK, Loads
<1>3. PICK n \in Times : /\ observed' = n
                         /\ proc' = [proc EXCEPT ![p] = [proc[p] EXCEPT !.pc = "complete", !.now = n]]
  BY Zenon DEF Completing, now, Goto
<1> DEFINE r == [proc[p] EXCEPT !.pc = "complete", !.now = n]
<1>4. r \in Goroutine /\ r.pc = "complete" /\ r.kind = proc[p].kind
  BY <1>1, Zenon DEF Goroutine, PCs
<1>5. RecordOK(p, r)
  BY <1>1, <1>2, <1>4 DEF RecordOK, Leads, Boots, Starts
<1>6. proc' = [proc EXCEPT ![p] = r]
  BY <1>3
<1> HIDE DEF r
<1> QED
  BY <1>1, <1>2, <1>3, <1>4, <1>5, <1>6, Typed, WorkMove, Zenon

\* degradeIfStaleLocked changes the state of an open fleet, and nothing else.
LEMMA DegradeOK ==
  ASSUME FleetInv, NEW n
  PROVE  LET f == degradeIfStale(n)
         IN  /\ f \in Guarded /\ (f.closed <=> f.state = "stopped")
             /\ f.closed = fleet.closed /\ f.flight = fleet.flight /\ f.waiters = fleet.waiters
             /\ f.starting = fleet.starting /\ f.started = fleet.started
             /\ f.active = fleet.active
<1> DEFINE f == degradeIfStale(n)
<1>1. f = fleet \/ (~fleet.closed /\ f = [fleet EXCEPT !.state = "degraded"])
  BY DEF degradeIfStale
<1>2. fleet \in Guarded /\ (fleet.closed <=> fleet.state = "stopped")
  BY Typed
<1> HIDE DEF f
<1>3. /\ f \in Guarded /\ (f.closed <=> f.state = "stopped")
      /\ f.closed = fleet.closed /\ f.flight = fleet.flight /\ f.waiters = fleet.waiters
      /\ f.starting = fleet.starting /\ f.started = fleet.started
      /\ f.active = fleet.active
  BY <1>1, <1>2 DEF Guarded
<1> QED
  BY <1>3 DEF f

\* The leader publishes: the flight is over, and the followers are still counted.
LEMMA CompleteKept ==
  ASSUME FleetInv, NEW p \in Procs, Complete(p)
  PROVE  FleetInv'
<1> DEFINE ok == proc[p].ok
           r == Back(p, ok)
           g == IF ok THEN fleet ELSE degradeIfStale(proc[p].now)
<1>1. /\ RecordOK(p, proc[p]) /\ proc[p] \in Goroutine /\ proc[p].pc = "complete"
      /\ fleet' = [g EXCEPT !.flight = None] /\ wg' = [wg EXCEPT !.refresh = @ - 1]
      /\ proc' = [q \in Procs |->
           IF q = p THEN r
           ELSE IF proc[q].pc = "wait" /\ proc[q].ok = None THEN [proc[q] EXCEPT !.ok = ok]
           ELSE proc[q]]
      /\ UNCHANGED <<observed, slots, cancelled, joiner>>
  BY Typed DEF Complete, At
<1>2. /\ Leads(proc[p]) /\ ~Waits(proc[p]) /\ ~Holds(proc[p]) /\ ~Loads(proc[p])
      /\ ~Boots(proc[p]) /\ ~Starts(proc[p]) /\ ok \in Answers
  BY <1>1 DEF RecordOK, Waits, Holds, Loads, Boots, Starts, Leads, Goroutine
<1>3. /\ wg \in WaitGroups /\ slots \in 0..MaxConcurrentProviderLoads /\ observed \in Times
      /\ cancelled \in BOOLEAN /\ wg.refresh = 1 /\ fleet.flight = p /\ fleet \in Guarded
  BY <1>2, Typed, Counted
<1>4. /\ RecordOK(p, r) /\ r.pc \in Aside \ {"cancel", "join"} /\ (p \in Loops => r.pc # "idle")
      /\ NoRole(r)
  <2>1. RecordOK(p, r) /\ r.pc \in Aside \ {"cancel", "join"} /\ (p \in Loops => r.pc # "idle")
    BY <1>2, BackOK
  <2> QED
    BY <2>1, AsideHasNoRole
<1>5. /\ g \in Guarded /\ (g.closed <=> g.state = "stopped")
      /\ g.closed = fleet.closed /\ g.waiters = fleet.waiters
      /\ g.starting = fleet.starting /\ g.started = fleet.started
  BY DegradeOK, Typed
<1> HIDE DEF r, g, ok
<1>6. /\ fleet' \in Guarded /\ (fleet'.closed <=> fleet'.state = "stopped")
      /\ fleet'.waiters = fleet.waiters /\ fleet'.closed = fleet.closed /\ fleet'.flight = None
      /\ fleet'.starting = fleet.starting /\ fleet'.started = fleet.started
  BY <1>1, <1>5 DEF Guarded
<1>7. /\ wg' \in WaitGroups /\ wg'.load = wg.load /\ wg'.bootstrap = wg.bootstrap
      /\ wg'.run = wg.run /\ wg'.refresh = 0
      /\ wg.load \in Nat /\ wg.bootstrap \in Nat /\ wg.run \in Nat
      /\ slots \in Nat /\ fleet.waiters \in Nat
  BY <1>1, <1>3, Config DEF WaitGroups, Guarded
<1>8. proc' \in [Procs -> Goroutine] /\ proc'[p] = r /\ Others(p)
  <2>1. ASSUME NEW q \in Procs, q # p
        PROVE  /\ RecordOK(q, proc'[q]) /\ proc'[q].pc = proc[q].pc
               /\ proc'[q].kind = proc[q].kind
    <3>1. RecordOK(q, proc[q]) /\ proc[q] \in Goroutine
      BY Typed
    <3>2. CASE proc[q].pc = "wait" /\ proc[q].ok = None
      <4>1. proc'[q] = [proc[q] EXCEPT !.ok = ok]
        BY <1>1, <2>1, <3>2
      <4>2. /\ proc'[q] \in Goroutine /\ proc'[q].pc = "wait" /\ proc'[q].kind = proc[q].kind
        BY <1>2, <3>1, <3>2, <4>1 DEF Goroutine
      <4> QED
        BY <3>1, <3>2, <4>2 DEF RecordOK, Leads, Boots, Starts
    <3>3. CASE ~(proc[q].pc = "wait" /\ proc[q].ok = None)
      BY <1>1, <2>1, <3>1, <3>3
    <3> QED
      BY <3>2, <3>3
  <2>2. proc'[p] = r
    BY <1>1
  <2>3. \A q \in Procs : proc'[q] \in Goroutine
    BY <1>4, <2>1, <2>2, Zenon DEF RecordOK
  <2>4. proc' \in [Procs -> Goroutine]
    BY <1>1, <2>3
  <2> QED
    BY <2>1, <2>2, <2>4 DEF Others
<1>9. /\ fleet'.waiters = fleet.waiters + Bit(Waits(r)) - Bit(Waits(proc[p]))
      /\ slots' = slots + Bit(Holds(r)) - Bit(Holds(proc[p]))
      /\ wg'.load = wg.load + Bit(Loads(r)) - Bit(Loads(proc[p]))
      /\ wg'.bootstrap = wg.bootstrap + Bit(Boots(r)) - Bit(Boots(proc[p]))
      /\ wg'.run = wg.run + Bit(p \in Loops /\ r.pc # "idle")
                          - Bit(p \in Loops /\ proc[p].pc # "idle")
      /\ wg'.refresh = Bit(fleet'.flight # None)
  BY <1>1, <1>2, <1>4, <1>6, <1>7 DEF Bit, NoRole
<1>10. /\ p \in Loops /\ r.pc # "idle" => proc[p].pc # "idle"
       /\ r.pc \notin {"cancel", "join"}
  BY <1>1, <1>4
<1> QED
  BY <1>1, <1>2, <1>3, <1>4, <1>6, <1>7, <1>8, <1>9, <1>10, Move DEF NoRole, Joins

-----------------------------------------------------------------------------
(* Invalidation                                                               *)

\* Invalidate reads the clock.
LEMMA InvalidateKept ==
  ASSUME FleetInv, NEW c \in Callers, Invalidate(c)
  PROVE  FleetInv'
<1>1. /\ c \in Procs /\ c \notin Loops /\ proc[c].pc \in Aside
      /\ UNCHANGED <<fleet, wg, slots, cancelled, joiner>>
  BY Config DEF Invalidate, At, Aside, Loops
<1>2. PICK h \in Hint, n \in Times :
        /\ observed' = n
        /\ proc' = [proc EXCEPT ![c] = [Blank EXCEPT !.pc = "hint", !.kind = "invalidate",
                                                     !.hint = h, !.now = n]]
  BY Zenon DEF Invalidate, now, Goto
<1> DEFINE r == [Blank EXCEPT !.pc = "hint", !.kind = "invalidate", !.hint = h, !.now = n]
<1>3. r \in Goroutine /\ r.pc = "hint" /\ r.hint \in Hint
  BY BlankOK, Zenon DEF Goroutine, PCs, Kinds, Blank
<1>4. RecordOK(c, r) /\ r.pc \in Aside \ {"idle", "cancel", "join"}
  BY <1>1, <1>3, AsideOK, Zenon
<1>5. proc' = [proc EXCEPT ![c] = r]
  BY <1>2
<1> HIDE DEF r
<1> QED
  BY <1>1, <1>2, <1>4, <1>5, Typed, StepAside, Zenon

\* The hint is of no use.
LEMMA IgnoreHintKept ==
  ASSUME FleetInv, NEW p \in Procs, IgnoreHint(p)
  PROVE  FleetInv'
<1>1. /\ proc[p].pc \in Aside \ {"idle"}
      /\ proc' = [proc EXCEPT ![p] = Back(p, ~Unusable(proc[p].hint))]
      /\ UNCHANGED <<observed, fleet, wg, slots, cancelled, joiner>>
  BY DEF IgnoreHint, At, Aside, Goto
<1>2. (~Unusable(proc[p].hint)) \in Answers
  BY Zenon DEF Unusable, Answers
<1> QED
  BY <1>1, <1>2, Typed, ReturnKept, Zenon

\* The hint is taken.
LEMMA AcceptHintKept ==
  ASSUME FleetInv, NEW p \in Procs, AcceptHint(p)
  PROVE  FleetInv'
<1> DEFINE h == proc[p].hint
           f == [fleet EXCEPT !.streams[h.stream] = h.seq]
           d == proc[p].now + ConvergenceWindow
           r == [proc[p] EXCEPT !.pc = "refresh", !.now = 0]
<1>1. /\ RecordOK(p, proc[p]) /\ proc[p] \in Goroutine /\ proc[p].pc = "hint"
      /\ h \in Hint /\ proc[p].pc \in Aside \ {"idle"}
      /\ fleet \in Guarded /\ (fleet.closed <=> fleet.state = "stopped")
      /\ UNCHANGED <<observed, wg, slots, cancelled, joiner>>
  BY Typed DEF AcceptHint, At, Aside, RecordOK
<1>2. \/ fleet' = f /\ proc' = [proc EXCEPT ![p] = Back(p, TRUE)]
      \/ fleet' = [f EXCEPT !.deadline = d, !.wanted = h.rev] /\ proc' = [proc EXCEPT ![p] = r]
  BY Zenon DEF AcceptHint, Goto
<1>3. h.stream \in Streams /\ h.seq \in 0..MaxSequence /\ h.rev \in Revisions
  BY <1>1, Fields
<1>4. d \in Nat
  <2>1. proc[p].now \in Nat
    BY <1>1, Config, Zenon DEF Goroutine
  <2> QED
    BY <2>1, Config
<1>5. fleet.streams \in [Streams -> 0..MaxSequence]
  BY <1>1 DEF Guarded
<1>6. PICK s \in [Streams -> 0..MaxSequence] : f = [fleet EXCEPT !.streams = s]
  BY <1>1, <1>3, <1>5, Zenon DEF Guarded
<1> HIDE DEF h, f, d
<1>7. /\ f \in Guarded /\ (f.closed <=> f.state = "stopped")
      /\ f.closed = fleet.closed /\ f.flight = fleet.flight /\ f.waiters = fleet.waiters
      /\ f.starting = fleet.starting /\ f.started = fleet.started
  BY <1>1, <1>6 DEF Guarded
<1>8. fleet' \in Guarded /\ (fleet'.closed <=> fleet'.state = "stopped") /\ SameControl
  BY <1>2, <1>3, <1>4, <1>7, Zenon DEF Guarded, SameControl
<1>9. CASE proc' = [proc EXCEPT ![p] = Back(p, TRUE)]
  BY <1>1, <1>8, <1>9, ReturnKept, Zenon DEF Answers
<1>10. CASE proc' = [proc EXCEPT ![p] = r]
  <2>1. r \in Goroutine /\ r.pc = "refresh"
    BY <1>1, Config, Zenon DEF Goroutine, PCs
  <2>2. RecordOK(p, r) /\ r.pc \in Aside \ {"idle", "cancel", "join"}
    BY <2>1, AsideOK, Zenon
  <2> HIDE DEF r
  <2> QED
    BY <1>1, <1>8, <1>10, <2>2, Typed, StepAside, Zenon
<1> QED
  BY <1>2, <1>9, <1>10, Zenon

-----------------------------------------------------------------------------
(* The loops                                                                  *)

\* The refresher's next Refresh begins.
LEMMA TickKept ==
  ASSUME FleetInv, Tick
  PROVE  FleetInv'
<1>1. /\ Refresher \in Procs /\ proc[Refresher].pc \in Aside \ {"idle"}
      /\ UNCHANGED <<fleet, wg, slots, cancelled, joiner>>
  BY Config DEF Tick, At, Aside
<1>2. PICK n \in Times :
        /\ observed' = n
        /\ proc' = [proc EXCEPT ![Refresher] = [Blank EXCEPT !.pc = "admit", !.now = n]]
  BY Zenon DEF Tick, now, Goto
<1> DEFINE r == [Blank EXCEPT !.pc = "admit", !.now = n]
<1>3. r \in Goroutine /\ r.pc = "admit"
  BY BlankOK, Zenon DEF Goroutine, PCs, Blank
<1>4. RecordOK(Refresher, r) /\ r.pc \in Aside \ {"idle", "cancel", "join"}
  BY <1>1, <1>3, AsideOK, Zenon
<1>5. proc' = [proc EXCEPT ![Refresher] = r]
  BY <1>2
<1> HIDE DEF r
<1> QED
  BY <1>1, <1>2, <1>4, <1>5, Typed, StepAside, Zenon

\* The watcher delivers a hint.
LEMMA DeliverKept ==
  ASSUME FleetInv, Deliver
  PROVE  FleetInv'
<1>1. /\ Watcher \in Procs /\ proc[Watcher].pc \in Aside \ {"idle"}
      /\ UNCHANGED <<fleet, wg, slots, cancelled, joiner>>
  BY Config DEF Deliver, At, Aside
<1>2. PICK h \in Hint, n \in Times :
        /\ observed' = n
        /\ proc' = [proc EXCEPT ![Watcher] = [Blank EXCEPT !.pc = "hint", !.hint = h, !.now = n]]
  BY Zenon DEF Deliver, now, Goto
<1> DEFINE r == [Blank EXCEPT !.pc = "hint", !.hint = h, !.now = n]
<1>3. r \in Goroutine /\ r.pc = "hint" /\ r.hint \in Hint
  BY BlankOK, Zenon DEF Goroutine, PCs, Blank
<1>4. RecordOK(Watcher, r) /\ r.pc \in Aside \ {"idle", "cancel", "join"}
  BY <1>1, <1>3, AsideOK, Zenon
<1>5. proc' = [proc EXCEPT ![Watcher] = r]
  BY <1>2
<1> HIDE DEF r
<1> QED
  BY <1>1, <1>2, <1>4, <1>5, Typed, StepAside, Zenon

\* A step of a loop within the loop.
LEMMA LoopOK ==
  ASSUME NEW p \in Loops, NEW r \in Goroutine, r.pc \in {"sleep", "next", "exit", "stop"}
  PROVE  p \in Procs /\ RecordOK(p, r) /\ r.pc \in Aside \ {"idle", "cancel", "join"}
BY Config DEF RecordOK, Aside, Leads, Boots, Starts

\* Sleep fails: the failure is recorded, or the loop stops the fleet at once.
LEMMA SleepFailsKept ==
  ASSUME FleetInv, SleepFails
  PROVE  FleetInv'
<1>1. /\ Refresher \in Procs /\ Refresher \in Loops /\ proc[Refresher].pc \in Aside \ {"idle"}
      /\ UNCHANGED <<observed, fleet, wg, slots, cancelled, joiner>>
  BY Config DEF SleepFails, At, Aside, Loops
<1> DEFINE r == [Blank EXCEPT !.pc = "stop"]
<1>2. r \in Goroutine /\ r.pc = "stop"
  BY BlankOK, Zenon DEF Goroutine, PCs, Blank
<1>3. RecordOK(Refresher, r) /\ r.pc \in Aside \ {"idle", "cancel", "join"}
  BY <1>1, <1>2, LoopOK, Zenon
<1>4. RecordOK(Refresher, Recording("stop")) /\ Recording("stop").pc \in Aside \ {"idle", "cancel", "join"}
  BY <1>1, RecordingOK DEF Aside
<1>5. proc' = [proc EXCEPT ![Refresher] = r] \/ proc' = [proc EXCEPT ![Refresher] = Recording("stop")]
  BY DEF SleepFails, Goto
<1> HIDE DEF r
<1> QED
  BY <1>1, <1>3, <1>4, <1>5, Typed, StepAside

\* Next fails: the watch loop ends.
LEMMA WatchFailsKept ==
  ASSUME FleetInv, WatchFails
  PROVE  FleetInv'
<1>1. /\ Watcher \in Procs /\ Watcher \in Loops /\ proc[Watcher].pc \in Aside \ {"idle"}
      /\ UNCHANGED <<observed, fleet, wg, slots, cancelled, joiner>>
  BY Config DEF WatchFails, At, Aside, Loops
<1> DEFINE r == [Blank EXCEPT !.pc = "exit"]
<1>2. r \in Goroutine /\ r.pc = "exit"
  BY BlankOK, Zenon DEF Goroutine, PCs, Blank
<1>3. RecordOK(Watcher, r) /\ r.pc \in Aside \ {"idle", "cancel", "join"}
  BY <1>1, <1>2, LoopOK, Zenon
<1>4. RecordOK(Watcher, Recording("exit")) /\ Recording("exit").pc \in Aside \ {"idle", "cancel", "join"}
  BY <1>1, RecordingOK DEF Aside
<1>5. proc' = [proc EXCEPT ![Watcher] = r] \/ proc' = [proc EXCEPT ![Watcher] = Recording("exit")]
  BY Zenon DEF WatchFails, Goto
<1> HIDE DEF r
<1> QED
  BY <1>1, <1>3, <1>4, <1>5, Typed, StepAside

\* A loop reads the clock to record a failure, or ends.
LEMMA RecordKept ==
  ASSUME FleetInv, NEW p \in Procs, Record(p)
  PROVE  FleetInv'
<1>1. /\ RecordOK(p, proc[p]) /\ proc[p] \in Goroutine /\ proc[p].pc = "record"
      /\ p \in Loops /\ proc[p].pc \in Aside \ {"idle"}
      /\ observed \in Times /\ UNCHANGED <<fleet, wg, slots, cancelled, joiner>>
  BY Typed, Zenon DEF Record, At, Aside, RecordOK
<1>2. CASE proc[p].ok = FALSE /\ cancelled
  <2> DEFINE r == [Blank EXCEPT !.pc = "exit"]
  <2>1. proc' = [proc EXCEPT ![p] = r] /\ observed' = observed
    BY <1>2, Zenon DEF Record, Goto
  <2>2. r \in Goroutine /\ r.pc = "exit"
    BY BlankOK, Zenon DEF Goroutine, PCs, Blank
  <2>3. RecordOK(p, r) /\ r.pc \in Aside \ {"idle", "cancel", "join"}
    BY <1>1, <2>2, LoopOK, Zenon
  <2> HIDE DEF r
  <2> QED
    BY <1>1, <2>1, <2>3, Typed, StepAside, Zenon
<1>3. CASE ~(proc[p].ok = FALSE /\ cancelled)
  <2>1. PICK n \in Times :
          /\ observed' = n
          /\ proc' = [proc EXCEPT ![p] = [proc[p] EXCEPT !.pc = "degrade", !.now = n]]
    BY <1>3, Zenon DEF Record, now, Goto
  <2> DEFINE r == [proc[p] EXCEPT !.pc = "degrade", !.now = n]
  <2>2. r \in Goroutine /\ r.pc = "degrade" /\ r.kind = proc[p].kind
    BY <1>1, Zenon DEF Goroutine, PCs
  <2>3. RecordOK(p, r) /\ r.pc \in Aside \ {"idle", "cancel", "join"}
    BY <1>1, <2>2 DEF RecordOK, Leads, Boots, Starts, Aside
  <2>4. proc' = [proc EXCEPT ![p] = r]
    BY <2>1
  <2> HIDE DEF r
  <2> QED
    BY <1>1, <2>1, <2>3, <2>4, Typed, StepAside, Zenon
<1> QED
  BY <1>2, <1>3, Zenon

\* A loop records the failure and goes on.
LEMMA DegradeKept ==
  ASSUME FleetInv, NEW p \in Procs, Degrade(p)
  PROVE  FleetInv'
<1> DEFINE r == Looping(proc[p].kind)
<1>1. /\ RecordOK(p, proc[p]) /\ proc[p].pc = "degrade" /\ p \in Loops
      /\ proc[p].pc \in Aside \ {"idle"}
      /\ proc[p].kind \in {"sleep", "next", "exit", "stop"}
      /\ proc' = [proc EXCEPT ![p] = r] /\ fleet' = degradeIfStale(proc[p].now)
      /\ observed \in Times /\ cancelled \in BOOLEAN
      /\ UNCHANGED <<observed, wg, slots, cancelled, joiner>>
  BY Typed DEF Degrade, At, Goto, Aside, RecordOK
<1>2. r \in Goroutine /\ r.pc = proc[p].kind
  BY <1>1, BlankOK, Zenon DEF Looping, Goroutine, PCs, Blank
<1>3. RecordOK(p, r) /\ r.pc \in Aside \ {"idle", "cancel", "join"}
  BY <1>1, <1>2, LoopOK
<1>4. fleet' \in Guarded /\ (fleet'.closed <=> fleet'.state = "stopped") /\ SameControl
  BY <1>1, DegradeOK, Zenon DEF SameControl
<1> HIDE DEF r
<1> QED
  BY <1>1, <1>3, <1>4, StepAside, Zenon

\* A loop ends: it was counted.
LEMMA ExitKept ==
  ASSUME FleetInv, NEW p \in Procs, Exit(p)
  PROVE  FleetInv'
<1>1. /\ RecordOK(p, proc[p]) /\ proc[p].pc = "exit" /\ p \in Loops
      /\ proc' = [proc EXCEPT ![p] = Blank] /\ wg' = [wg EXCEPT !.run = @ - 1]
      /\ fleet' = [fleet EXCEPT !.watching = FALSE] \/ fleet' = fleet
      /\ UNCHANGED <<observed, slots, cancelled, joiner>>
  BY Typed DEF Exit, At, Goto, RecordOK
<1>2. /\ wg \in WaitGroups /\ slots \in 0..MaxConcurrentProviderLoads /\ observed \in Times
      /\ cancelled \in BOOLEAN /\ fleet \in Guarded /\ (fleet.closed <=> fleet.state = "stopped")
      /\ wg.run >= 1 /\ wg.refresh = Bit(fleet.flight # None)
  BY <1>1, Typed, Counted DEF FleetInv, CountInv
<1>3. /\ RecordOK(p, Blank) /\ Blank.pc = "idle" /\ NoRole(Blank) /\ NoRole(proc[p])
  <2>1. RecordOK(p, Blank) /\ Blank.pc = "idle"
    BY BlankOK, Zenon DEF Blank
  <2> QED
    BY <1>1, <2>1, AsideHasNoRole DEF Aside
<1>4. proc' \in [Procs -> Goroutine] /\ proc'[p] = Blank /\ Others(p)
  BY <1>1, <1>3, Placed, Zenon
<1>5. /\ fleet' \in Guarded /\ (fleet'.closed <=> fleet'.state = "stopped")
      /\ fleet'.waiters = fleet.waiters /\ fleet'.closed = fleet.closed
      /\ fleet'.flight = fleet.flight
      /\ fleet'.starting = fleet.starting /\ fleet'.started = fleet.started
  BY <1>1, <1>2, Zenon DEF Guarded
<1>6. /\ wg' \in WaitGroups /\ wg'.load = wg.load /\ wg'.bootstrap = wg.bootstrap
      /\ wg'.run = wg.run - 1 /\ wg'.refresh = wg.refresh
      /\ wg.load \in Nat /\ wg.bootstrap \in Nat /\ wg.run \in Nat
      /\ slots \in Nat /\ fleet.waiters \in Nat
  BY <1>1, <1>2, Config DEF WaitGroups, Guarded
<1>7. /\ fleet'.waiters = fleet.waiters + Bit(Waits(Blank)) - Bit(Waits(proc[p]))
      /\ slots' = slots + Bit(Holds(Blank)) - Bit(Holds(proc[p]))
      /\ wg'.load = wg.load + Bit(Loads(Blank)) - Bit(Loads(proc[p]))
      /\ wg'.bootstrap = wg.bootstrap + Bit(Boots(Blank)) - Bit(Boots(proc[p]))
      /\ wg'.run = wg.run + Bit(p \in Loops /\ Blank.pc # "idle")
                          - Bit(p \in Loops /\ proc[p].pc # "idle")
      /\ wg'.refresh = Bit(fleet'.flight # None)
      /\ fleet'.flight = IF Leads(Blank) THEN p ELSE IF Leads(proc[p]) THEN None ELSE fleet.flight
  BY <1>1, <1>2, <1>3, <1>5, <1>6 DEF Bit, NoRole
<1> QED
  BY <1>1, <1>2, <1>3, <1>4, <1>5, <1>6, <1>7, Move DEF NoRole, Joins

-----------------------------------------------------------------------------
(* Shutdown                                                                   *)

\* What follows markStopped.
LEMMA AfterStopOK ==
  ASSUME NEW p \in Procs, p # Watcher
  PROVE  RecordOK(p, AfterStop(p)) /\ AfterStop(p).pc \in Aside \ {"idle", "cancel"}
<1> DEFINE r == AfterStop(p)
<1>1. r \in Goroutine /\ r.pc = (IF p = Refresher THEN "exit" ELSE "join")
  BY BlankOK, Zenon DEF AfterStop, Goroutine, PCs, Blank
<1>2. p = Refresher \/ p \in Callers
  BY Config DEF Loops
<1> QED
  BY <1>1, <1>2 DEF RecordOK, Leads, Boots, Starts, Loops, Aside

\* markStopped closes the fleet; everything that was admitted before is still counted.
LEMMA MarkStoppedKept ==
  ASSUME FleetInv, NEW p \in Procs, p # Watcher, proc[p].pc \in Aside,
         p \in Loops => proc[p].pc # "idle", markStopped(p)
  PROVE  FleetInv'
<1>1. UNCHANGED <<observed, wg, slots, cancelled, joiner>>
  BY DEF markStopped
<1>2. CASE fleet.closed
  <2>1. proc' = [proc EXCEPT ![p] = AfterStop(p)] /\ fleet' = fleet
    BY <1>2 DEF markStopped, Goto
  <2> QED
    BY <1>1, <1>2, <2>1, AfterStopOK, Typed, StepAside, Zenon
<1>3. CASE ~fleet.closed
  <2> DEFINE r == [Blank EXCEPT !.pc = "cancel"]
  <2>1. /\ proc' = [proc EXCEPT ![p] = r]
        /\ fleet' = [fleet EXCEPT !.closed = TRUE, !.state = "stopped"]
    BY <1>3 DEF markStopped, Goto
  <2>2. r \in Goroutine /\ r.pc = "cancel"
    BY BlankOK, Zenon DEF Goroutine, PCs, Blank
  <2>3. RecordOK(p, r)
    BY <2>2 DEF RecordOK, Leads, Boots, Starts
  <2> HIDE DEF r
  <2>4. NoRole(proc[p]) /\ NoRole(r)
    <3>1. r.pc \in Aside
      BY <2>2 DEF Aside
    <3> QED
      BY <3>1, AsideHasNoRole
  <2>5. /\ wg \in WaitGroups /\ slots \in 0..MaxConcurrentProviderLoads /\ observed \in Times
        /\ cancelled \in BOOLEAN /\ fleet \in Guarded /\ wg.refresh = Bit(fleet.flight # None)
    BY Typed, Zenon DEF FleetInv, CountInv
  <2>6. proc' \in [Procs -> Goroutine] /\ proc'[p] = r /\ Others(p)
    BY <2>1, <2>3, Placed, Zenon
  <2>7. /\ fleet' \in Guarded /\ fleet'.closed /\ fleet'.state = "stopped"
        /\ fleet'.waiters = fleet.waiters /\ fleet'.flight = fleet.flight
        /\ fleet'.starting = fleet.starting /\ fleet'.started = fleet.started
    BY <2>1, <2>5, Zenon DEF Guarded
  <2>8. /\ wg.load \in Nat /\ wg.bootstrap \in Nat /\ wg.run \in Nat
        /\ slots \in Nat /\ fleet.waiters \in Nat
    <3>1. wg.load \in Nat /\ wg.bootstrap \in Nat /\ wg.run \in Nat
      BY <2>5 DEF WaitGroups
    <3>2. fleet.waiters \in 0..MaxWaiters
      BY <2>5 DEF Guarded
    <3>3. \A n \in Nat : 0..n \subseteq Nat
      OBVIOUS
    <3>4. MaxWaiters \in Nat /\ MaxConcurrentProviderLoads \in Nat
      BY Config
    <3>5. fleet.waiters \in Nat /\ slots \in Nat
      BY <2>5, <3>2, <3>3, <3>4
    <3> QED
      BY <3>1, <3>5
  <2>9. /\ fleet'.waiters = fleet.waiters + Bit(Waits(r)) - Bit(Waits(proc[p]))
        /\ slots' = slots + Bit(Holds(r)) - Bit(Holds(proc[p]))
        /\ wg'.load = wg.load + Bit(Loads(r)) - Bit(Loads(proc[p]))
        /\ wg'.bootstrap = wg.bootstrap + Bit(Boots(r)) - Bit(Boots(proc[p]))
        /\ wg'.run = wg.run + Bit(p \in Loops /\ r.pc # "idle")
                            - Bit(p \in Loops /\ proc[p].pc # "idle")
        /\ wg'.refresh = Bit(fleet'.flight # None)
        /\ fleet'.flight = IF Leads(r) THEN p ELSE IF Leads(proc[p]) THEN None ELSE fleet.flight
    <3>1. /\ ~Waits(r) /\ ~Holds(r) /\ ~Loads(r) /\ ~Boots(r) /\ ~Leads(r)
          /\ ~Waits(proc[p]) /\ ~Holds(proc[p]) /\ ~Loads(proc[p]) /\ ~Boots(proc[p]) /\ ~Leads(proc[p])
      BY <2>4, Zenon DEF NoRole
    <3>2. Bit(FALSE) = 0 /\ \A b \in BOOLEAN : Bit(b) \in Nat
      BY DEF Bit
    <3>3. Bit(p \in Loops /\ r.pc # "idle") = Bit(p \in Loops /\ proc[p].pc # "idle")
      BY <1>1, <2>2 DEF Bit
    <3>4. \A n \in Nat : \A m \in Nat : n + 0 - 0 = n /\ n + m - m = n
      OBVIOUS
    <3>5. Bit(p \in Loops /\ proc[p].pc # "idle") \in Nat
      BY DEF Bit
    <3>6. UNCHANGED <<slots, wg>> /\ wg'.refresh = Bit(fleet'.flight # None)
      BY <1>1, <2>5, <2>7, Zenon
    <3>7. Bit(Waits(r)) = 0 /\ Bit(Waits(proc[p])) = 0 /\ Bit(Holds(r)) = 0 /\ Bit(Holds(proc[p])) = 0
      BY <3>1, Zenon DEF Bit
    <3>8. Bit(Loads(r)) = 0 /\ Bit(Loads(proc[p])) = 0 /\ Bit(Boots(r)) = 0 /\ Bit(Boots(proc[p])) = 0
      BY <3>1 DEF Bit
    <3>9. /\ fleet'.waiters = fleet.waiters + Bit(Waits(r)) - Bit(Waits(proc[p]))
          /\ slots' = slots + Bit(Holds(r)) - Bit(Holds(proc[p]))
      BY <2>7, <2>8, <3>4, <3>6, <3>7
    <3>10. /\ wg'.load = wg.load + Bit(Loads(r)) - Bit(Loads(proc[p]))
           /\ wg'.bootstrap = wg.bootstrap + Bit(Boots(r)) - Bit(Boots(proc[p]))
      BY <2>8, <3>4, <3>6, <3>8
    <3>11. wg'.run = wg.run + Bit(p \in Loops /\ r.pc # "idle")
                            - Bit(p \in Loops /\ proc[p].pc # "idle")
      BY <2>8, <3>3, <3>4, <3>5, <3>6
    <3>12. fleet'.flight = IF Leads(r) THEN p ELSE IF Leads(proc[p]) THEN None ELSE fleet.flight
      BY <2>7, <3>1
    <3> QED
      BY <3>6, <3>9, <3>10, <3>11, <3>12, Zenon
  <2> QED
    BY <1>1, <2>2, <2>3, <2>4, <2>5, <2>6, <2>7, <2>9, Move, Zenon DEF NoRole, Joins
<1> QED
  BY <1>2, <1>3

\* By Shutdown, or by the refresher.
LEMMA StopKept ==
  ASSUME FleetInv, (\E c \in Callers : Shutdown(c)) \/ StopLoop
  PROVE  FleetInv'
<1>1. ASSUME NEW c \in Callers, Shutdown(c) PROVE FleetInv'
  <2>1. c \in Procs /\ c # Watcher /\ c \notin Loops /\ proc[c].pc = "idle" /\ markStopped(c)
    BY <1>1, Config DEF Shutdown, At, Loops
  <2> QED
    BY <2>1, MarkStoppedKept DEF Aside
<1>2. CASE StopLoop
  BY <1>2, MarkStoppedKept, Config DEF StopLoop, At, Aside
<1> QED
  BY <1>1, <1>2

\* runCancel, after markStopped.
LEMMA CancelKept ==
  ASSUME FleetInv, NEW p \in Procs, Cancel(p)
  PROVE  FleetInv'
<1>1. /\ proc[p].pc = "cancel" /\ p # Watcher /\ fleet.closed
      /\ proc' = [proc EXCEPT ![p] = AfterStop(p)]
      /\ UNCHANGED <<observed, fleet, wg, slots, joiner>>
  BY Typed DEF Cancel, At, Goto, RecordOK, FleetInv, StopInv
<1>2. cancelled' \in BOOLEAN
  BY Typed, Zenon DEF Cancel, RunCancelled, Guarded
<1> QED
  BY <1>1, <1>2, AfterStopOK, Typed, StepAside, Zenon DEF Aside

\* Shutdown spawns the joining goroutine, or finds it spawned.
LEMMA JoinKept ==
  ASSUME FleetInv, NEW c \in Procs, Join(c)
  PROVE  FleetInv'
<1> DEFINE r == [Blank EXCEPT !.pc = "joining"]
<1>1. /\ RecordOK(c, proc[c]) /\ proc[c].pc = "join" /\ proc' = [proc EXCEPT ![c] = r]
      /\ fleet.closed
      /\ UNCHANGED <<observed, fleet, wg, slots, cancelled>>
  BY Typed DEF Join, At, Goto, FleetInv, StopInv
<1>2. c \in Callers /\ c \notin Loops
  BY <1>1, Config DEF RecordOK, Loops
<1>3. Joins
  BY <1>1 DEF Join, Joins
<1>4. r \in Goroutine /\ r.pc = "joining"
  BY BlankOK, Zenon DEF Goroutine, PCs, Blank
<1> HIDE DEF r
<1>5. NoRole(proc[c]) /\ NoRole(r)
  BY <1>1, <1>4, AsideHasNoRole DEF Aside
<1>6. RecordOK(c, r)
  BY <1>2, <1>4, <1>5 DEF RecordOK, NoRole
<1>7. SameRole(c, proc[c], r)
  BY <1>2, <1>5, Zenon DEF SameRole, NoRole
<1>8. r.pc \in {"cancel", "join"} => fleet.closed
  BY <1>1
<1> QED
  BY <1>1, <1>3, <1>6, <1>7, <1>8, Typed, Keep, Zenon

\* The call returns, with the fleet's work joined or its context ended.
LEMMA LeaveKept ==
  ASSUME FleetInv, NEW c \in Procs, Joined(c) \/ CancelJoin(c)
  PROVE  FleetInv'
<1>1. /\ RecordOK(c, proc[c]) /\ proc[c].pc = "joining" /\ proc' = [proc EXCEPT ![c] = Blank]
      /\ UNCHANGED <<observed, fleet, wg, slots, cancelled, joiner>>
  BY Typed, Zenon DEF Joined, CancelJoin, Leave, At, Goto
<1>2. c \notin Loops
  BY <1>1, Config DEF RecordOK, Loops
<1>3. RecordOK(c, Blank) /\ Blank.pc = "idle"
  BY BlankOK, Zenon DEF Blank
<1> QED
  BY <1>1, <1>2, <1>3, Typed, StepAside DEF Aside

\* A wait group that is down to zero counts nobody.
LEMMA NobodyCounted ==
  ASSUME FleetInv
  PROVE  /\ wg.run = 0 => \A p \in Loops : proc[p].pc = "idle"
         /\ wg.refresh = 0 => fleet.flight = None
         /\ wg.load = 0 => \A p \in Procs : ~Loads(proc[p])
         /\ wg.bootstrap = 0 => \A p \in Procs : ~Boots(proc[p])
<1>1. wg.run = 0 => \A p \in Loops : proc[p].pc = "idle"
  BY Counted, Config
<1>2. wg.refresh = 0 => fleet.flight = None
  BY DEF FleetInv, CountInv, Bit
<1>3. wg.load = 0 => \A p \in Procs : ~Loads(proc[p])
  BY Counted
<1>4. wg.bootstrap = 0 => \A p \in Procs : ~Boots(proc[p])
  BY Counted
<1> QED
  BY <1>1, <1>2, <1>3, <1>4

\* The joining goroutine waits for the groups in turn.
LEMMA JoiningKept ==
  ASSUME FleetInv, Joining
  PROVE  FleetInv'
<1>1. /\ TypeInv /\ CountInv /\ LeadInv /\ StartInv /\ StopInv
      /\ UNCHANGED <<observed, fleet, wg, slots, cancelled, proc>>
  BY DEF FleetInv, Joining
<1>2. \/ joiner = "run" /\ wg.run = 0 /\ joiner' = "refresh"
      \/ joiner = "refresh" /\ wg.refresh = 0 /\ joiner' = "load"
      \/ joiner = "load" /\ wg.load = 0 /\ joiner' = "bootstrap"
      \/ joiner = "bootstrap" /\ wg.bootstrap = 0 /\ joiner' = "done"
  BY DEF Joining, Wait
<1>3. TypeInv' /\ CountInv' /\ LeadInv' /\ StartInv'
  BY <1>1, <1>2, Zenon DEF TypeInv, CountInv, LeadInv, StartInv, Waiting, Holding, InLoad, InBootstrap
<1>4. StopInv'
  BY <1>1, <1>2, NobodyCounted, Zenon DEF StopInv
<1> QED
  BY <1>3, <1>4 DEF FleetInv

-----------------------------------------------------------------------------
(* Evaluation and Status                                                      *)

\* Evaluate takes the active snapshot.
LEMMA EvaluateCurrentKept ==
  ASSUME FleetInv, NEW c \in Callers, EvaluateCurrent(c)
  PROVE  FleetInv'
<1> DEFINE r == [Blank EXCEPT !.pc = "evaluate", !.cand = fleet.active]
<1>1. /\ c \in Procs /\ c \notin Loops /\ proc[c].pc \in Aside /\ proc' = [proc EXCEPT ![c] = r]
      /\ UNCHANGED <<observed, fleet, wg, slots, cancelled, joiner>>
  BY Config DEF EvaluateCurrent, At, Aside, Loops, Goto
<1>2. fleet.active \in Candidate \cup {None}
  BY Typed DEF Guarded
<1>3. r \in Goroutine /\ r.pc = "evaluate"
  BY <1>2, BlankOK, Zenon DEF Goroutine, PCs, Blank
<1>4. RecordOK(c, r) /\ r.pc \in Aside \ {"idle", "cancel", "join"}
  BY <1>1, <1>3, AsideOK, Zenon
<1> HIDE DEF r
<1> QED
  BY <1>1, <1>4, Typed, StepAside, Zenon

\* Then the clock decides.
LEMMA EvaluateKept ==
  ASSUME FleetInv, NEW c \in Procs, Evaluate(c)
  PROVE  FleetInv'
<1>1. /\ RecordOK(c, proc[c]) /\ proc[c].pc = "evaluate"
      /\ UNCHANGED <<fleet, wg, slots, cancelled, joiner>>
  BY Typed DEF Evaluate, At
<1>2. c \in Callers /\ c \notin Loops /\ proc[c].pc \in Aside
  BY <1>1, Config, Zenon DEF RecordOK, Loops, Aside
<1>3. PICK n \in Times, mode \in Modes :
        /\ observed' = n
        /\ proc' = [proc EXCEPT ![c] = [Blank EXCEPT !.ok = Outcome(proc[c].cand, n, mode)]]
  BY Zenon DEF Evaluate, now, Goto
<1>4. Outcome(proc[c].cand, n, mode) \in Answers
  BY Zenon DEF Outcome, Answers, Modes
<1> DEFINE r == [Blank EXCEPT !.ok = Outcome(proc[c].cand, n, mode)]
<1>5. r \in Goroutine /\ r.pc = "idle"
  BY <1>4, BlankOK, Zenon DEF Goroutine, Blank
<1>6. RecordOK(c, r) /\ r.pc \in Aside \ {"cancel", "join"}
  BY <1>5 DEF RecordOK, Leads, Boots, Starts, Aside
<1>7. proc' = [proc EXCEPT ![c] = r]
  BY <1>3
<1> HIDE DEF r
<1> QED
  BY <1>1, <1>2, <1>3, <1>6, <1>7, Typed, StepAside, Zenon

\* Status reads the clock.
LEMMA StatusKept ==
  ASSUME FleetInv, NEW c \in Callers, Status(c)
  PROVE  FleetInv'
<1>1. observed' \in Times /\ UNCHANGED <<fleet, wg, slots, cancelled, joiner, proc>>
  BY DEF Status, now
<1> QED
  BY <1>1, Zenon DEF FleetInv, TypeInv, CountInv, LeadInv, StartInv, StopInv,
              Waiting, Holding, InLoad, InBootstrap

-----------------------------------------------------------------------------
(* The invariant                                                              *)

\* NewFleet starts with no goroutine anywhere and every counter at zero.
LEMMA FleetInit == Init => FleetInv
<1> SUFFICES ASSUME Init PROVE FleetInv
  OBVIOUS
<1>1. /\ Blank \in Goroutine /\ Blank.pc = "idle" /\ NoRole(Blank)
      /\ \A p \in Procs : RecordOK(p, Blank) /\ proc[p] = Blank
  <2>1. Blank.pc = "idle"
    BY DEF Blank
  <2> QED
    BY <2>1, BlankOK, AsideHasNoRole DEF Aside, Init
<1>2. TypeInv
  <2>1. fleet \in Guarded /\ ~fleet.closed /\ fleet.state = "cold"
    <3>1. 0 \in 0..MaxWaiters /\ 0 \in 0..MaxSequence
      BY Config
    <3>2. [s \in Streams |-> 0] \in [Streams -> 0..MaxSequence]
      BY <3>1
    <3> QED
      BY <3>1, <3>2 DEF Init, Guarded
  <2>2. wg \in WaitGroups /\ slots \in 0..MaxConcurrentProviderLoads
    <3>1. 0 \in 0..MaxConcurrentProviderLoads
      BY Config
    <3> QED
      BY <3>1 DEF Init, WaitGroups
  <2> QED
    BY <1>1, <2>1, <2>2, Config, Zenon DEF Init, TypeInv
<1>3. CountInv
  <2>1. Waiting = {} /\ Holding = {} /\ InLoad = {} /\ InBootstrap = {}
    BY <1>1, Zenon DEF Waiting, Holding, InLoad, InBootstrap, NoRole
  <2>2. Cardinality({}) = 0
    BY FS_EmptySet
  <2> QED
    <3>1. fleet.waiters = 0 /\ fleet.flight = None
      BY DEF Init
    <3>2. wg.load = 0 /\ wg.bootstrap = 0 /\ wg.refresh = 0 /\ wg.run = 0 /\ slots = 0
      BY DEF Init
    <3>3. proc[Refresher].pc = "idle" /\ proc[Watcher].pc = "idle"
      BY <1>1, Config
    <3>4. Bit(fleet.flight # None) = 0
      BY <3>1, Zenon DEF Bit
    <3>5. Bit(proc[Refresher].pc # "idle") = 0 /\ Bit(proc[Watcher].pc # "idle") = 0
      BY <3>3, Zenon DEF Bit
    <3>6. wg.run = Bit(proc[Refresher].pc # "idle") + Bit(proc[Watcher].pc # "idle")
      BY <3>2, <3>5
    <3> QED
      BY <2>1, <2>2, <3>1, <3>2, <3>4, <3>6, Zenon DEF CountInv
<1>4. LeadInv /\ StartInv /\ StopInv
  <2>1. fleet.flight = None /\ joiner = "none"
    BY DEF Init
  <2>2. LeadInv
    BY <1>1, <2>1, Config DEF LeadInv, NoRole
  <2>3. (\A p \in Procs : proc[p].pc = "idle") /\ Loops \subseteq Procs
    BY <1>1, Config DEF Loops
  <2>4. StartInv
    <3>1. \A p \in Procs : ~Starts(proc[p])
      BY <2>3 DEF Starts, Boots
    <3>2. \A p \in Loops : proc[p].pc = "idle"
      BY <2>3, Zenon
    <3> QED
      BY <3>1, <3>2, Zenon DEF StartInv
  <2>5. StopInv
    BY <2>1, <2>3 DEF StopInv
  <2> QED
    BY <2>2, <2>4, <2>5
<1> QED
  BY <1>2, <1>3, <1>4 DEF FleetInv

\* Every step of every goroutine keeps it.
LEMMA FleetStep == FleetInv /\ [Next]_vars => FleetInv'
<1> SUFFICES ASSUME FleetInv, [Next]_vars PROVE FleetInv'
  OBVIOUS
<1>1. ASSUME NEW c \in Callers, Begin(c) PROVE FleetInv'
  BY <1>1, BootstrapKept, StartKept, RefreshKept, InvalidateKept, StopKept,
     EvaluateCurrentKept, StatusKept DEF Begin
<1>2. ASSUME NEW p \in Procs, Step(p) PROVE FleetInv'
  <2>1. CASE \/ Load(p) \/ AcquireSlot(p) \/ AbandonSlot(p) \/ LoadReturns(p) \/ CacheLoad(p)
             \/ Activate(p) \/ Commit(p) \/ Store(p)
    BY <2>1, LoadKept, AcquireSlotKept, AbandonSlotKept, LoadReturnsKept, CacheLoadKept,
       ActivateKept, CommitKept, StoreKept
  <2>2. CASE StartBootstrap(p) \/ LeaveBootstrap(p) \/ StartReturns(p)
    BY <2>2, StartBootstrapKept, LeaveBootstrapKept, StartReturnsKept
  <2>3. CASE \/ RefreshForHint(p) \/ Refuse(p) \/ Follow(p) \/ Defer(p) \/ Lead(p)
             \/ Completing(p) \/ Complete(p) \/ Wake(p)
    BY <2>3, RefreshForHintKept, RefuseKept, FollowKept, DeferKept, LeadKept,
       CompletingKept, CompleteKept, WakeKept
  <2>4. CASE \/ IgnoreHint(p) \/ AcceptHint(p)
             \/ Record(p) \/ Degrade(p) \/ Exit(p) \/ Cancel(p) \/ Join(p) \/ Joined(p)
             \/ Evaluate(p)
    BY <2>4, IgnoreHintKept, AcceptHintKept, RecordKept, DegradeKept, ExitKept, CancelKept,
       JoinKept, LeaveKept, EvaluateKept
  <2> QED
    BY <1>2, <2>1, <2>2, <2>3, <2>4 DEF Step
<1>3. ASSUME NEW p \in Procs, CancelWait(p) \/ CancelJoin(p) PROVE FleetInv'
  BY <1>3, WakeKept, LeaveKept
<1>4. CASE Loop
  BY <1>4, TickKept, SleepFailsKept, DeliverKept, WatchFailsKept, StopKept DEF Loop
<1>5. CASE CancelStart \/ Joining
  BY <1>5, CancelStartKept, JoiningKept
<1>6. CASE UNCHANGED vars
  BY <1>6 DEF vars, FleetInv, TypeInv, CountInv, LeadInv, StartInv, StopInv,
              Waiting, Holding, InLoad, InBootstrap
<1> QED
  BY <1>1, <1>2, <1>3, <1>4, <1>5, <1>6 DEF Next

\* FleetInv holds at all times.
THEOREM FleetInvariant == Spec => []FleetInv
<1>1. Init => FleetInv
  BY FleetInit
<1>2. FleetInv /\ [Next]_vars => FleetInv'
  BY FleetStep
<1> QED
  BY <1>1, <1>2, PTL DEF Spec

\* Waiters, load slots and provider attempts stay within their limits and no wait
\* group counter goes below zero, for every number of goroutines and every bound.
THEOREM TypeCorrect == Spec => []TypeOK
<1>1. FleetInv => TypeOK
  <2> SUFFICES ASSUME FleetInv PROVE TypeOK
    OBVIOUS
  <2>1. \A g \in DOMAIN wg : wg[g] \in Nat
    BY Typed DEF WaitGroups
  <2>2. \A p \in Procs : proc[p].pc \in PCs /\ proc[p].tries \in 0..MaxProviderLoads
    BY Typed DEF Goroutine
  <2> QED
    BY <2>1, <2>2, Typed, Zenon DEF TypeOK, Guarded
<1> QED
  BY <1>1, FleetInvariant, PTL

\* One refresh is in flight at most, it is the one new calls attach to, and the
\* count of waiters is exact, for every number of goroutines.
THEOREM FlightCorrect == Spec => []FlightExact
<1>1. FleetInv => FlightExact
  <2> SUFFICES ASSUME FleetInv PROVE FlightExact
    OBVIOUS
  <2>1. Leaders = {p \in Procs : Leads(proc[p])}
    BY DEF Leaders, Leads
  <2>2. \A p \in Procs : Leads(proc[p]) <=> fleet.flight = p
    BY DEF FleetInv, LeadInv
  <2>3. fleet.flight \in Procs \cup {None}
    BY Typed DEF Guarded
  <2>4. Leaders = {fleet.flight} \ {None}
    BY <2>1, <2>2, <2>3, Config
  <2>5. fleet.waiters = Cardinality({p \in Procs : proc[p].pc = "wait"})
    BY DEF FleetInv, CountInv, Waiting, Waits
  <2> QED
    BY <2>4, <2>5 DEF FlightExact
<1> QED
  BY <1>1, FleetInvariant, PTL

\* Once Shutdown reports success, no loop, load, refresh flight or bootstrap runs
\* or ever runs again.
THEOREM ShutdownCorrect == Spec => []ShutdownQuiet
<1>1. FleetInv => ShutdownQuiet
  <2> SUFFICES ASSUME FleetInv, joiner = "done", NEW p \in Procs PROVE ~Working(p)
    BY DEF ShutdownQuiet
  <2>1. ~Leads(proc[p]) /\ ~Boots(proc[p]) /\ (p \in Loops => proc[p].pc = "idle")
    BY Config, Zenon DEF FleetInv, StopInv, LeadInv
  <2>2. RecordOK(p, proc[p])
    BY Typed
  <2> QED
    BY <2>1, <2>2, Zenon DEF Working, RecordOK, Loops
<1> QED
  BY <1>1, FleetInvariant, PTL

-----------------------------------------------------------------------------
(* What a step may never do                                                   *)

\* A step that neither commits a candidate nor ends an evaluation.
Passive ==
  /\ observed' >= observed
  /\ fleet'.active = fleet.active
  /\ expired' = expired
  /\ \A c \in Callers : proc[c].pc = "evaluate" => proc'[c].pc = "evaluate"

\* The steps of a goroutine that is elsewhere than in Evaluate.
LEMMA MoveElsewhere ==
  ASSUME FleetInv, NEW p \in Procs, proc[p].pc # "evaluate", NEW r, proc' = [proc EXCEPT ![p] = r]
  PROVE  \A c \in Callers : proc[c].pc = "evaluate" => proc'[c].pc = "evaluate"
BY Config DEF FleetInv, TypeInv

\* Loading, and everything up to the commit.
LEMMA LoadPassive ==
  ASSUME FleetInv, NEW p \in Procs,
         \/ Load(p) \/ AcquireSlot(p) \/ AbandonSlot(p) \/ LoadReturns(p) \/ CacheLoad(p)
         \/ Activate(p) \/ Store(p)
  PROVE  Passive
<1>1. fleet' = fleet /\ expired' = expired
  BY Zenon DEF Load, AcquireSlot, AbandonSlot, LoadReturns, CacheLoad, Activate, Store
<1>2. observed \in Nat
  BY Typed, Config, Zenon
<1>3. observed' >= observed
  <2>1. observed' = observed \/ \E n \in Times : now(n)
    BY Zenon DEF Load, AcquireSlot, AbandonSlot, LoadReturns, CacheLoad, Activate, Store
  <2> QED
    BY <1>2, <2>1, Config DEF now
<1>4. proc[p].pc # "evaluate"
  BY Zenon DEF Load, AcquireSlot, AbandonSlot, LoadReturns, CacheLoad, Activate, Store, At
<1>5. \E r : proc' = [proc EXCEPT ![p] = r]
  BY Zenon DEF Load, AcquireSlot, AbandonSlot, LoadReturns, CacheLoad, Activate, Store, LoadFails, Goto
<1> QED
  BY <1>1, <1>3, <1>4, <1>5, MoveElsewhere DEF Passive

\* Bootstrap and Start.
LEMMA StartPassive ==
  ASSUME FleetInv, NEW p \in Procs,
         \/ p \in Callers /\ (Bootstrap(p) \/ Start(p))
         \/ StartBootstrap(p) \/ LeaveBootstrap(p) \/ StartReturns(p)
  PROVE  Passive
<1>1. observed' = observed /\ expired' = expired /\ observed \in Nat /\ fleet \in Guarded
  BY Typed, Config
     DEF Bootstrap, Start, EnterBootstrap, StartBootstrap, LeaveBootstrap, StartReturns
<1>2. fleet'.active = fleet.active
  BY <1>1, Zenon DEF Bootstrap, Start, EnterBootstrap, StartBootstrap, LeaveBootstrap, StartReturns, Guarded
<1>3. proc[p].pc # "evaluate"
  BY DEF Bootstrap, Start, StartBootstrap, LeaveBootstrap, StartReturns, At
<1>4. \A c \in Callers : proc[c].pc = "evaluate" => proc'[c].pc = "evaluate"
  <2>1. CASE StartReturns(p) /\ MayRun(p)
    <3>1. proc' = [proc EXCEPT ![p] = Blank, ![Refresher] = Looping("sleep"),
                               ![Watcher] = IF HasWatcher THEN Looping("next") ELSE Blank]
      BY <2>1 DEF StartReturns
    <3>2. proc \in [Procs -> Goroutine]
      BY DEF FleetInv, TypeInv
    <3>3. ASSUME NEW c \in Callers, proc[c].pc = "evaluate" PROVE proc'[c] = proc[c]
      <4>1. c \in Procs /\ c # p /\ c # Refresher /\ c # Watcher
        BY <1>3, <3>3, Config
      <4> QED
        BY <3>1, <3>2, <4>1
    <3> QED
      BY <3>3
  <2>2. CASE ~(StartReturns(p) /\ MayRun(p))
    <3>1. \E r : proc' = [proc EXCEPT ![p] = r]
      BY <2>2 DEF Bootstrap, Start, EnterBootstrap, StartBootstrap, LeaveBootstrap, StartReturns, Goto
    <3> QED
      BY <1>3, <3>1, MoveElsewhere
  <2> QED
    BY <2>1, <2>2
<1> QED
  BY <1>1, <1>2, <1>4 DEF Passive

\* Refresh and Invalidate.
LEMMA RefreshPassive ==
  ASSUME FleetInv, NEW p \in Procs,
         \/ p \in Callers /\ (Refresh(p) \/ Invalidate(p))
         \/ RefreshForHint(p) \/ Refuse(p) \/ Follow(p) \/ Defer(p) \/ Lead(p)
         \/ Completing(p) \/ Wake(p) \/ CancelWait(p) \/ IgnoreHint(p) \/ AcceptHint(p)
  PROVE  Passive
<1>1. expired' = expired /\ observed \in Nat /\ fleet \in Guarded
  BY Typed, Config, Zenon
     DEF Refresh, Invalidate, RefreshForHint, Refuse, Follow, Defer, Lead, Completing,
         Wake, CancelWait, Detach, IgnoreHint, AcceptHint
<1>2. observed' >= observed
  <2>1. observed' = observed \/ \E n \in Times : now(n)
    BY Zenon DEF Refresh, Invalidate, RefreshForHint, Refuse, Follow, Defer, Lead, Completing,
           Wake, CancelWait, Detach, IgnoreHint, AcceptHint
  <2> QED
    BY <1>1, <2>1, Config DEF now
<1>3. fleet'.active = fleet.active
  BY <1>1, Zenon
     DEF Refresh, Invalidate, RefreshForHint, Refuse, Follow, Defer, Lead, Completing,
         Wake, CancelWait, Detach, IgnoreHint, AcceptHint, Guarded
<1>4. proc[p].pc # "evaluate"
  BY Zenon DEF Refresh, Invalidate, RefreshForHint, Refuse, Follow, Defer, Lead, Completing,
         Wake, CancelWait, IgnoreHint, AcceptHint, At
<1>5. \E r : proc' = [proc EXCEPT ![p] = r]
  BY Zenon DEF Refresh, Invalidate, RefreshForHint, Refuse, Follow, Defer, Lead, Completing,
         Wake, CancelWait, Detach, IgnoreHint, AcceptHint, Goto
<1> QED
  BY <1>1, <1>2, <1>3, <1>4, <1>5, MoveElsewhere, Zenon DEF Passive

\* The end of a flight.
LEMMA CompletePassive ==
  ASSUME FleetInv, NEW p \in Procs, Complete(p)
  PROVE  Passive
<1> DEFINE g == IF proc[p].ok THEN fleet ELSE degradeIfStale(proc[p].now)
<1>1. /\ observed' = observed /\ expired' = expired /\ observed \in Nat
      /\ fleet' = [g EXCEPT !.flight = None] /\ proc[p].pc = "complete"
  BY Typed, Config DEF Complete, At
<1>2. g \in Guarded /\ g.active = fleet.active
  BY DegradeOK, Typed
<1> HIDE DEF g
<1>3. fleet'.active = fleet.active
  BY <1>1, <1>2 DEF Guarded
<1>4. ASSUME NEW c \in Callers, proc[c].pc = "evaluate" PROVE proc'[c] = proc[c]
  BY <1>1, <1>4, Config DEF Complete
<1> QED
  BY <1>1, <1>3, <1>4 DEF Passive

\* The loops, Shutdown and the calls that only read.
LEMMA LoopPassive ==
  ASSUME FleetInv, NEW p \in Procs,
         \/ p \in Callers /\ (Shutdown(p) \/ EvaluateCurrent(p))
         \/ p = Refresher /\ (Tick \/ SleepFails \/ StopLoop)
         \/ p = Watcher /\ (Deliver \/ WatchFails)
         \/ Record(p) \/ Degrade(p) \/ Exit(p) \/ Cancel(p) \/ Join(p)
         \/ Joined(p) \/ CancelJoin(p)
  PROVE  Passive
<1>1. expired' = expired /\ observed \in Nat /\ fleet \in Guarded
  BY Typed, Config, Zenon
     DEF Shutdown, EvaluateCurrent, Tick, SleepFails, StopLoop, Deliver, WatchFails, Record, Degrade,
         Exit, Cancel, Join, Joined, CancelJoin, Leave, markStopped
<1>2. observed' >= observed
  <2>1. observed' = observed \/ \E n \in Times : now(n)
    BY Zenon DEF Shutdown, EvaluateCurrent, Tick, SleepFails, StopLoop, Deliver, WatchFails, Record,
           Degrade, Exit, Cancel, Join, Joined, CancelJoin, Leave, markStopped
  <2> QED
    BY <1>1, <2>1, Config DEF now
<1>3. fleet'.active = fleet.active
  <2>1. CASE Degrade(p)
    BY <2>1, DegradeOK, Zenon DEF Degrade
  <2>2. CASE ~Degrade(p)
    BY <1>1, <2>2, Zenon
       DEF Shutdown, EvaluateCurrent, Tick, SleepFails, StopLoop, Deliver, WatchFails, Record,
           Exit, Cancel, Join, Joined, CancelJoin, Leave, markStopped, Guarded
  <2> QED
    BY <2>1, <2>2
<1>4. proc[p].pc # "evaluate"
  BY Zenon DEF Shutdown, EvaluateCurrent, Tick, SleepFails, StopLoop, Deliver, WatchFails, Record, Degrade,
         Exit, Cancel, Join, Joined, CancelJoin, Leave, At
<1>5. \E r : proc' = [proc EXCEPT ![p] = r]
  BY Zenon DEF Shutdown, EvaluateCurrent, Tick, SleepFails, StopLoop, Deliver, WatchFails, Record, Degrade,
         Exit, Cancel, Join, Joined, CancelJoin, Leave, markStopped, Goto
<1> QED
  BY <1>1, <1>2, <1>3, <1>4, <1>5, MoveElsewhere, Zenon DEF Passive

\* Only activate's commit and the end of an evaluation are not passive.
LEMMA Actors ==
  ASSUME FleetInv, [Next]_vars
  PROVE  Passive \/ (\E p \in Procs : Commit(p)) \/ (\E p \in Procs : Evaluate(p))
<1>1. ASSUME NEW p \in Callers, Begin(p), ~Status(p) PROVE Passive
  <2>1. p \in Procs
    BY Config
  <2> QED
    BY <1>1, <2>1, StartPassive, RefreshPassive, LoopPassive DEF Begin
<1>2. ASSUME NEW p \in Procs, Step(p), ~Commit(p), ~Evaluate(p) PROVE Passive
  BY <1>2, LoadPassive, StartPassive, RefreshPassive, CompletePassive, LoopPassive DEF Step
<1>3. ASSUME NEW p \in Procs, CancelWait(p) \/ CancelJoin(p) PROVE Passive
  BY <1>3, RefreshPassive, LoopPassive
<1>4. CASE Loop
  BY <1>4, LoopPassive, Config DEF Loop
<1>5. ASSUME \/ \E p \in Callers : Status(p)
             \/ CancelStart \/ Joining \/ UNCHANGED vars
      PROVE  Passive
  <2>1. observed \in Nat
    BY Typed, Config, Zenon
  <2>2. fleet' = fleet /\ expired' = expired /\ proc' = proc
    BY <1>5 DEF Status, CancelStart, Joining, vars
  <2>3. observed' >= observed
    BY <1>5, <2>1, Config DEF Status, CancelStart, Joining, vars, now
  <2> QED
    BY <2>2, <2>3 DEF Passive
<1> QED
  BY <1>1, <1>2, <1>3, <1>4, <1>5 DEF Next

\* activate replaces the active snapshot by one that is not older, and only while
\* the fleet is open, whatever else runs.
THEOREM ActiveCorrect == Spec => ActiveAdvances
<1>1. FleetInv /\ [Next]_vars =>
        [fleet'.active # fleet.active =>
           /\ ~fleet.closed
           /\ fleet.active = None \/ fleet'.active.src >= fleet.active.src]_vars
  <2> SUFFICES ASSUME FleetInv, [Next]_vars, fleet'.active # fleet.active
               PROVE  /\ ~fleet.closed
                      /\ fleet.active = None \/ fleet'.active.src >= fleet.active.src
    OBVIOUS
  <2>1. ~Passive /\ \A p \in Procs : ~Evaluate(p)
    BY DEF Passive, Evaluate
  <2>2. PICK p \in Procs : Commit(p)
    BY <2>1, Actors
  <2>3. MayActivate(proc[p].cand) /\ fleet'.active = proc[p].cand
    <3>1. fleet \in Guarded
      BY Typed
    <3>2. MayActivate(proc[p].cand) /\ \E s : fleet' = [fleet EXCEPT !.active = proc[p].cand, !.state = s]
      BY <2>2, Zenon DEF Commit
    <3> QED
      BY <3>1, <3>2 DEF Guarded
  <2> QED
    BY <2>3 DEF MayActivate
<1> QED
  BY <1>1, FleetInvariant, PTL DEF Spec, ActiveAdvances

\* What an evaluation has found too old has been too old ever since: the time the
\* fleet goes by only advances.
Aged(src, limit, n) == src = -1 \/ (src \in Nat /\ n - src > limit)
AgeInv == /\ expired = [fresh |-> expired.fresh, good |-> expired.good]
          /\ Aged(expired.fresh, FreshFor, observed) /\ Aged(expired.good, PolicyStaleness, observed)

\* A snapshot that is found too old, or not, at time n.
LEMMA Ages ==
  ASSUME NEW n \in Nat, NEW src \in Nat, NEW limit \in Nat
  PROVE  boundedAge(n, src) <= limit <=> n - src <= limit
BY DEF boundedAge

\* The end of an evaluation.
LEMMA EvaluateAges ==
  ASSUME FleetInv, AgeInv, NEW c \in Procs, Evaluate(c)
  PROVE  /\ AgeInv'
         /\ proc'[c].ok = "fresh" => proc[c].cand.src > expired.fresh
         /\ proc'[c].ok = "lastKnownGood" => proc[c].cand.src > expired.good
<1> DEFINE s == proc[c].cand
           Later(t, valid) == IF s # None /\ ~valid /\ s.src > t THEN s.src ELSE t
<1>1. PICK n \in Times, mode \in Modes :
        /\ n >= observed /\ observed' = n
        /\ proc' = [proc EXCEPT ![c] = [Blank EXCEPT !.ok = Outcome(s, n, mode)]]
        /\ expired' = [fresh |-> Later(expired.fresh, Fresh(s, n)),
                       good |-> Later(expired.good, Good(s, n))]
  BY Zenon DEF Evaluate, now, Goto
<1>2. /\ n \in Nat /\ observed \in Nat /\ FreshFor \in Nat /\ PolicyStaleness \in Nat
      /\ s # None => s.src \in Nat
  BY Typed, Config, Fields DEF Goroutine
<1>3. /\ Fresh(s, n) <=> s # None /\ n - s.src <= FreshFor
      /\ Good(s, n) <=> s # None /\ n - s.src <= PolicyStaleness
  BY <1>2, Ages DEF Fresh, Good
<1>4. /\ expired'.fresh = Later(expired.fresh, Fresh(s, n))
      /\ expired'.good = Later(expired.good, Good(s, n))
      /\ expired' = [fresh |-> expired'.fresh, good |-> expired'.good]
  BY <1>1
<1>5. proc'[c].ok = Outcome(s, n, mode)
  BY <1>1 DEF Blank, FleetInv, TypeInv
<1>6. /\ Outcome(s, n, mode) = "fresh" => Fresh(s, n)
      /\ Outcome(s, n, mode) = "lastKnownGood" => Good(s, n)
  BY DEF Outcome
<1>7. Aged(expired'.fresh, FreshFor, observed') /\ Aged(expired'.good, PolicyStaleness, observed')
  <2>1. Aged(expired'.fresh, FreshFor, observed')
    BY <1>1, <1>2, <1>3, <1>4 DEF AgeInv, Aged
  <2>2. Aged(expired'.good, PolicyStaleness, observed')
    BY <1>1, <1>2, <1>3, <1>4 DEF AgeInv, Aged
  <2> QED
    BY <2>1, <2>2
<1>8. proc'[c].ok = "fresh" => s.src > expired.fresh
  BY <1>1, <1>2, <1>3, <1>5, <1>6 DEF AgeInv, Aged
<1>9. proc'[c].ok = "lastKnownGood" => s.src > expired.good
  BY <1>1, <1>2, <1>3, <1>5, <1>6 DEF AgeInv, Aged
<1> QED
  BY <1>4, <1>7, <1>8, <1>9 DEF AgeInv

\* Every step keeps what has been found too old too old.
LEMMA AgeStep == FleetInv /\ AgeInv /\ [Next]_vars => AgeInv'
<1> SUFFICES ASSUME FleetInv, AgeInv, [Next]_vars PROVE AgeInv'
  OBVIOUS
<1>1. observed \in Nat /\ observed' \in Nat /\ FreshFor \in Nat /\ PolicyStaleness \in Nat
  <2>1. FleetInv'
    BY FleetStep
  <2> QED
    BY <2>1, Config DEF FleetInv, TypeInv
<1>2. ASSUME NEW p \in Procs, Commit(p) PROVE AgeInv'
  BY <1>2 DEF Commit, AgeInv
<1>3. CASE Passive
  BY <1>1, <1>3 DEF Passive, AgeInv, Aged
<1>4. ASSUME NEW p \in Procs, Evaluate(p) PROVE AgeInv'
  BY <1>4, EvaluateAges
<1> QED
  BY <1>2, <1>3, <1>4, Actors

\* AgeInv holds at all times.
LEMMA AgeInvariant == Spec => []AgeInv
<1>1. Init => AgeInv
  <2> SUFFICES ASSUME Init PROVE AgeInv
    OBVIOUS
  <2>1. expired = [fresh |-> -1, good |-> -1]
    BY DEF Init
  <2>2. expired.fresh = -1 /\ expired.good = -1
    BY <2>1
  <2> QED
    BY <2>1, <2>2 DEF AgeInv, Aged
<1> QED
  BY <1>1, AgeStep, FleetInvariant, PTL DEF Spec

\* Once evaluate has found a snapshot too old, no later evaluation serves it or an
\* older one under the same limit, wherever the wall clock is set.
THEOREM RevivalCorrect == Spec => NoRevival
<1> DEFINE A == \A c \in Callers :
                  proc[c].pc = "evaluate" /\ proc'[c].pc = "idle" =>
                    /\ proc'[c].ok = "fresh" => proc[c].cand.src > expired.fresh
                    /\ proc'[c].ok = "lastKnownGood" => proc[c].cand.src > expired.good
<1>1. FleetInv /\ AgeInv /\ [Next]_vars => [A]_vars
  <2> SUFFICES ASSUME FleetInv, AgeInv, [Next]_vars, NEW c \in Callers,
                      proc[c].pc = "evaluate", proc'[c].pc = "idle"
               PROVE  /\ proc'[c].ok = "fresh" => proc[c].cand.src > expired.fresh
                      /\ proc'[c].ok = "lastKnownGood" => proc[c].cand.src > expired.good
    OBVIOUS
  <2>1. c \in Procs /\ proc \in [Procs -> Goroutine]
    BY Config DEF FleetInv, TypeInv
  <2>2. ~Passive
    BY DEF Passive
  <2>3. PICK p \in Procs : Commit(p) \/ Evaluate(p)
    BY <2>2, Actors
  <2>4. p = c
    <3>1. PICK r : proc' = [proc EXCEPT ![p] = r]
      BY <2>3, Zenon DEF Commit, Evaluate, Goto
    <3> QED
      BY <2>1, <3>1
  <2>5. Evaluate(c)
    BY <2>3, <2>4, Zenon DEF Commit, At
  <2> QED
    BY <2>1, <2>5, EvaluateAges
<1> QED
  BY <1>1, FleetInvariant, AgeInvariant, PTL DEF Spec, NoRevival

=============================================================================
