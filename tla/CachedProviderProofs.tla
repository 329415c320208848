------------------------ MODULE CachedProviderProofs ------------------------
(***************************************************************************)
(* Proofs about CachedProvider, for every number of callers, tenants and   *)
(* states and for every bound: the types and the fence of a caller's own   *)
(* mutations first, then the order in which refreshes publish, the states  *)
(* that track them and the number of entries.                              *)
(***************************************************************************)
EXTENDS CachedProvider, NaturalNumbers, FiniteSetTheorems, TLAPS

\* A step that names no prover is tried with the SMT solver, with Zenon, and with the
\* solver for longer.
USE SMTT(10), Zenon, SMTT(30)

-----------------------------------------------------------------------------
(* Types and the fence                                                     *)

\* A caller with nothing in progress is well typed.
LEMMA BlankType ==
  ASSUME NEW t \in Tenants, NEW f \in Nat
  PROVE  Blank(t, f) \in Call
BY ConfigAssumption DEF Blank, Call, PC, Entry, Absent

\* beginRefresh keeps the types: a sequence is only raised below MaxSequence.
LEMMA RefreshType ==
  ASSUME TypeOK, NEW c \in Callers, NEW r \in Call, beginRefresh(c, r)
  PROVE  TypeOK'
<1> DEFINE t == r.tenant
           s == refreshes[t]
<1>0. t \in Tenants /\ s \in States \cup {Nil}
  BY DEF TypeOK, Call
<1>1. /\ fenced' \in [Callers -> BOOLEAN]
      /\ later' \in [Callers -> SUBSET Callers]
      /\ UNCHANGED <<clock, version, entries, floor>>
  BY Zenon DEF beginRefresh, TypeOK
<1>2. CASE ~NeedsState(t)
  <2>1. s \in States
    BY <1>0, <1>2 DEF NeedsState
  <2>2. heap[s].next + 1 \in 0..MaxSequence
    <3>1. heap[s].next \in 0..MaxSequence
      BY <2>1 DEF TypeOK, RefreshState
    <3>2. heap[s].next # MaxSequence
      BY <1>2 DEF NeedsState
    <3>3. MaxSequence \in Nat
      BY ConfigAssumption
    <3> QED
      BY <3>1, <3>2, <3>3
  <2>3. heap' = [heap EXCEPT ![s] = Joined(@)]
    BY <1>2, Zenon DEF beginRefresh
  <2>4. heap' \in [States -> RefreshState]
    <3>1. heap[s] \in RefreshState
      BY <2>1 DEF TypeOK
    <3>2. Joined(heap[s]) \in RefreshState
      BY <2>2, <3>1 DEF RefreshState, Joined
    <3> QED
      BY <2>1, <2>3, <3>2 DEF TypeOK
  <2>5. call' = [call EXCEPT ![c] =
                   [r EXCEPT !.pc = "fetch", !.state = s, !.seq = heap[s].next + 1]]
    BY <1>2, Zenon DEF beginRefresh
  <2>6. call' \in [Callers -> Call]
    BY <2>1, <2>2, <2>5, Zenon DEF TypeOK, Call, PC
  <2>7. rotated' \in [Callers -> BOOLEAN] /\ UNCHANGED refreshes
    BY <1>2, Zenon DEF beginRefresh, TypeOK
  <2> QED
    BY <1>1, <2>4, <2>6, <2>7 DEF TypeOK
<1>3. CASE NeedsState(t)
  <2>1. PICK n \in States :
          /\ heap' = [heap EXCEPT ![n] = Joined(NewState)]
          /\ refreshes' = [refreshes EXCEPT ![t] = n]
          /\ call' = [call EXCEPT ![c] = [r EXCEPT !.pc = "fetch", !.state = n, !.seq = 1]]
    BY <1>3, Zenon DEF beginRefresh
  <2>2. heap' \in [States -> RefreshState]
    BY <2>1, ConfigAssumption DEF TypeOK, RefreshState, Joined, NewState
  <2>3. refreshes' \in [Tenants -> States \cup {Nil}]
    BY <2>1, <1>0 DEF TypeOK
  <2>4. call' \in [Callers -> Call]
    <3>1. 1 \in 0..MaxSequence
      BY ConfigAssumption
    <3>2. [r EXCEPT !.pc = "fetch", !.state = n, !.seq = 1] \in Call
      BY <3>1, Zenon DEF Call, PC
    <3> QED
      BY <2>1, <3>2 DEF TypeOK
  <2>5. rotated' \in [Callers -> BOOLEAN]
    BY <1>3, Zenon DEF beginRefresh, TypeOK
  <2> QED
    BY <1>1, <2>2, <2>3, <2>4, <2>5 DEF TypeOK
<1> QED
  BY <1>2, <1>3

\* A call that returns an entry leaves a well-typed caller.
LEMMA ReturnType ==
  ASSUME TypeOK, NEW c \in Callers, NEW e \in Entry, Return(c, e)
  PROVE  call' \in [Callers -> Call]
<1>1. call[c] \in Call
  BY DEF TypeOK
<1>2. Blank(call[c].tenant, 0) \in Call /\ Blank(call[c].tenant, call[c].floor) \in Call
  BY <1>1, BlankType, Zenon DEF Call
<1>3. [Blank(call[c].tenant, call[c].floor) EXCEPT !.pc = "returned", !.result = e] \in Call
  BY <1>2, Zenon DEF Call, PC
<1> QED
  BY <1>2, <1>3 DEF Return, TypeOK

\* Every state the cache can reach is well typed; in particular no refresh
\* state ever hands out a sequence beyond its width.
THEOREM TypeCorrect == Spec => []TypeOK
<1>1. Init => TypeOK
  <2> SUFFICES ASSUME Init PROVE TypeOK
    OBVIOUS
  <2>1. (CHOOSE t \in Tenants : TRUE) \in Tenants
    BY ConfigAssumption
  <2>2. call \in [Callers -> Call]
    BY <2>1, BlankType DEF Init
  <2>3. Absent \in Entry /\ NewState \in RefreshState
    BY ConfigAssumption DEF Absent, Entry, NewState, RefreshState
  <2> QED
    BY <2>2, <2>3 DEF Init, TypeOK
<1>2. TypeOK /\ [Next]_vars => TypeOK'
  <2> SUFFICES ASSUME TypeOK, [Next]_vars PROVE TypeOK'
    OBVIOUS
  <2> USE DEF history
  <2>1. ASSUME NEW c \in Callers, Refresh(c) PROVE TypeOK'
    <3>1. PICK t \in Tenants : beginRefresh(c, Blank(t, floor[t]))
      BY <2>1 DEF Refresh
    <3>2. PICK r \in Call : r = Blank(t, floor[t])
      BY BlankType DEF TypeOK
    <3> QED
      BY <3>1, <3>2, RefreshType
  <2>2. ASSUME NEW c \in Callers, SnapshotNow(c) PROVE TypeOK'
    <3>1. PICK t \in Tenants :
            call' = [call EXCEPT ![c] = [Blank(t, floor[t]) EXCEPT !.pc = "read", !.now = clock]]
      BY <2>2, Zenon DEF SnapshotNow
    <3>2. Blank(t, floor[t]) \in Call
      BY BlankType DEF TypeOK
    <3>3. [Blank(t, floor[t]) EXCEPT !.pc = "read", !.now = clock] \in Call
      BY <3>2, Zenon DEF TypeOK, Call, PC
    <3> QED
      BY <2>2, <3>1, <3>3 DEF TypeOK, SnapshotNow
  <2>3. ASSUME NEW c \in Callers, SnapshotRead(c) PROVE TypeOK'
    <3> DEFINE r == call[c]
               e == entries[r.tenant]
    <3>1. r \in Call /\ e \in Entry
      BY DEF TypeOK, Call
    <3>2. [r EXCEPT !.pc = "admit", !.entry = e] \in Call
      BY <3>1, Zenon DEF Call, PC
    <3>3. call' \in [Callers -> Call]
      BY <2>3, <3>1, <3>2, ReturnType DEF SnapshotRead, TypeOK
    <3> QED
      BY <2>3, <3>3 DEF TypeOK, SnapshotRead
  <2>4. ASSUME NEW c \in Callers, SnapshotRefresh(c) PROVE TypeOK'
    <3>1. PICK r \in Call : r = call[c]
      BY DEF TypeOK
    <3> QED
      BY <2>4, <3>1, RefreshType DEF SnapshotRefresh
  <2>5. ASSUME NEW c \in Callers, Fetch(c) \/ FetchError(c) \/ Stamp(c) PROVE TypeOK'
    <3>1. call[c] \in Call /\ version[call[c].tenant] \in Nat /\ clock \in Nat
      BY DEF TypeOK, Call
    <3>2. CASE Fetch(c)
      BY <3>1, <3>2, Zenon DEF TypeOK, Fetch, Call, PC, Entry
    <3>3. CASE FetchError(c)
      BY <3>1, <3>3, Zenon DEF TypeOK, FetchError, Call, PC
    <3>4. CASE Stamp(c)
      BY <3>1, <3>4, Zenon DEF TypeOK, Stamp, Call, PC, Entry
    <3> QED
      BY <2>5, <3>2, <3>3, <3>4
  <2>6. ASSUME NEW c \in Callers, Publish(c) PROVE TypeOK'
    <3> DEFINE r == call[c]
    <3>1. r \in Call
      BY DEF TypeOK
    <3>2. call' \in [Callers -> Call]
      BY <2>6, <3>1, Zenon DEF Publish, TypeOK, Call, PC
    <3>3. Absent \in Entry
      BY DEF Absent, Entry
    <3>4. MakeRoom(r.tenant) \in [Tenants -> Entry]
      BY <3>3, Zenon DEF MakeRoom, evictOldest, TypeOK
    <3>5. entries' \in [Tenants -> Entry]
      BY <2>6, <3>1, <3>4 DEF Publish, TypeOK, Call
    <3>6. heap' \in [States -> RefreshState]
      <4>1. r.seq \in 0..MaxSequence
        BY <3>1 DEF Call
      <4>2. \A s \in States : [heap[s] EXCEPT !.published = r.seq] \in RefreshState
        BY <4>1 DEF TypeOK, RefreshState
      <4> QED
        BY <2>6, <4>2 DEF Publish, TypeOK
    <3> QED
      BY <2>6, <3>2, <3>5, <3>6, Zenon DEF Publish, TypeOK
  <2>7. ASSUME NEW c \in Callers, EndRefresh(c) PROVE TypeOK'
    <3> DEFINE r == call[c]
    <3>1. r \in Call
      BY DEF TypeOK
    <3>2. Result(r) \in Entry
      BY <3>1 DEF Result, Call, Absent, Entry
    <3>3. call' \in [Callers -> Call]
      BY <2>7, <3>2, ReturnType DEF EndRefresh
    <3>4. \A h \in RefreshState : Left(h) \in RefreshState
      BY DEF RefreshState, Left
    <3>5. NewState \in RefreshState
      BY ConfigAssumption DEF NewState, RefreshState
    <3>6. heap' \in [States -> RefreshState]
      BY <2>7, <3>4, <3>5, Zenon DEF EndRefresh, TypeOK
    <3> QED
      BY <2>7, <3>1, <3>3, <3>6, Zenon DEF EndRefresh, TypeOK, Call
  <2>8. ASSUME NEW c \in Callers, Mutate(c) PROVE TypeOK'
    <3>1. PICK t \in Tenants :
            /\ version' = [version EXCEPT ![t] = @ + 1]
            /\ call' = [call EXCEPT ![c] =
                 [Blank(t, floor[t]) EXCEPT !.pc = "invalidate",
                    !.got = [version |-> version[t] + 1, fetched |-> 0]]]
      BY <2>8, Zenon DEF Mutate
    <3>2. Blank(t, floor[t]) \in Call
      BY BlankType DEF TypeOK
    <3>3. [version |-> version[t] + 1, fetched |-> 0] \in Entry
      BY DEF TypeOK, Entry
    <3>4. [Blank(t, floor[t]) EXCEPT !.pc = "invalidate",
             !.got = [version |-> version[t] + 1, fetched |-> 0]] \in Call
      BY <3>2, <3>3, Zenon DEF Call, PC
    <3>5. version' \in [Tenants -> Nat]
      BY <3>1 DEF TypeOK
    <3> QED
      BY <2>8, <3>1, <3>4, <3>5 DEF Mutate, TypeOK
  <2>9. ASSUME NEW c \in Callers, invalidateOnSuccess(c) PROVE TypeOK'
    <3>1. call[c] \in Call /\ Absent \in Entry
      BY DEF TypeOK, Absent, Entry
    <3>2. call' \in [Callers -> Call]
      BY <2>9, <3>1, ReturnType DEF invalidateOnSuccess
    <3>3. floor' \in [Tenants -> Nat]
      BY <2>9, <3>1 DEF invalidateOnSuccess, TypeOK, Call, Entry
    <3> QED
      BY <2>9, <3>1, <3>2, <3>3 DEF invalidateOnSuccess, TypeOK, DropRefreshes, Call
  <2>10. ASSUME NEW t \in Tenants, SilentCommit(t) PROVE TypeOK'
    BY <2>10 DEF SilentCommit, TypeOK
  <2>11. CASE Close
    <3>1. Absent \in Entry
      BY DEF Absent, Entry
    <3> QED
      BY <2>11, <3>1 DEF Close, TypeOK
  <2>12. CASE ClockStep
    BY <2>12, ConfigAssumption DEF ClockStep, TypeOK
  <2>13. CASE UNCHANGED vars
    BY <2>13 DEF vars, TypeOK
  <2> QED
    BY <2>1, <2>2, <2>3, <2>4, <2>5, <2>6, <2>7, <2>8, <2>9, <2>10, <2>11, <2>12, <2>13
       DEF Next
<1> QED
  BY <1>1, <1>2, PTL DEF Spec

-----------------------------------------------------------------------------
(***************************************************************************)
(* The mutation fence.  MutationFence is not inductive: a refresh that read *)
(* before a mutation could still be about to publish.  What excludes it is  *)
(* that the refresh then holds a state the invalidation removed from the    *)
(* map, and that no state a refresh still holds is ever installed again.    *)
(***************************************************************************)
InCall == {"read", "admit", "fetch", "stamp", "publish", "end"}
InRefresh == {"fetch", "stamp", "publish", "end"}

\* What a call r carries, for the commit v, the floor f and the refresh state s of
\* its tenant: a commit it may still publish is at least as new as f, and all
\* it may still return is at least as new as the floor it started from.
CallOK(r, v, f, s) ==
  /\ r.pc = "invalidate" => r.got.version <= v
  /\ r.pc \in {"stamp", "publish"} /\ s = r.state => r.got.version >= f
  /\ r.pc \in InCall => r.floor <= f
  /\ r.pc \in InCall /\ r.entry # Absent => r.entry.version >= r.floor
  /\ r.pc \in {"read", "admit", "fetch"} => r.got = Absent
  /\ r.pc \in {"stamp", "publish"} => r.got.version >= r.floor
  /\ r.pc = "end" /\ r.got # Absent => r.got.version >= r.floor
  /\ r.pc = "returned" => r.result.version >= r.floor
  /\ r.pc \in InRefresh => r.state # Nil

CallsOK ==
  \A c \in Callers : LET r == call[c]
                     IN  CallOK(r, version[r.tenant], floor[r.tenant], refreshes[r.tenant])

TenantsOK ==
  \A t \in Tenants : /\ floor[t] <= version[t]
                     /\ entries[t] # Absent => entries[t].version >= floor[t]

FenceInv == TenantsOK /\ CallsOK

\* A call that does not move stays correct when commits and floors only grow and
\* its state does not come back into the map.
LEMMA OtherCall ==
  ASSUME NEW r \in Call, NEW v \in Nat, NEW f \in Nat, NEW s,
         NEW w \in Nat, NEW g \in Nat, NEW u,
         CallOK(r, v, f, s), v <= w, f <= g,
         r.pc \in InRefresh /\ u = r.state => s = r.state /\ f = g
  PROVE  CallOK(r, w, g, u)
<1>1. /\ r.floor \in Nat /\ r.got.version \in Nat
      /\ r.entry.version \in Nat /\ r.result.version \in Nat
  BY DEF Call, Entry
<1> QED
  BY <1>1 DEF CallOK, InRefresh, InCall

\* Every action moves at most the call of c; this is what is left to show of it.
LEMMA CallStep ==
  ASSUME TypeOK, TypeOK', CallsOK, NEW c \in Callers,
         \A d \in Callers : d # c => call'[d] = call[d],
         \A t \in Tenants : version[t] <= version'[t] /\ floor[t] <= floor'[t],
         \A d \in Callers :
           d # c /\ call[d].pc \in InRefresh /\ refreshes'[call[d].tenant] = call[d].state
             => /\ refreshes[call[d].tenant] = call[d].state
                /\ floor'[call[d].tenant] = floor[call[d].tenant],
         CallOK(call'[c], version'[call'[c].tenant], floor'[call'[c].tenant],
                refreshes'[call'[c].tenant])
  PROVE  CallsOK'
<1> SUFFICES ASSUME NEW d \in Callers, d # c
             PROVE  CallOK(call'[d], version'[call'[d].tenant], floor'[call'[d].tenant],
                           refreshes'[call'[d].tenant])
  BY DEF CallsOK
<1> DEFINE r == call[d]
<1>1. r \in Call /\ r.tenant \in Tenants /\ call'[d] = r
  BY DEF TypeOK, Call
<1>2. /\ version[r.tenant] \in Nat /\ version'[r.tenant] \in Nat
      /\ floor[r.tenant] \in Nat /\ floor'[r.tenant] \in Nat
  BY <1>1 DEF TypeOK
<1>3. CallOK(r, version[r.tenant], floor[r.tenant], refreshes[r.tenant])
  BY DEF CallsOK
<1>4. CallOK(r, version'[r.tenant], floor'[r.tenant], refreshes'[r.tenant])
  BY <1>1, <1>2, <1>3, OtherCall
<1> QED
  BY <1>1, <1>4

\* beginRefresh keeps the fence: a state that is handed out anew is in no running
\* refresh, so no earlier fetch can publish through it.
LEMMA BeginFence ==
  ASSUME TypeOK, TypeOK', FenceInv, NEW c \in Callers, NEW r \in Call, beginRefresh(c, r),
         r.floor <= floor[r.tenant], r.got = Absent,
         r.entry # Absent => r.entry.version >= r.floor
  PROVE  FenceInv'
<1> DEFINE t == r.tenant
<1>1. PICK n \in States, q \in 0..MaxSequence :
        /\ call' = [call EXCEPT ![c] = [r EXCEPT !.pc = "fetch", !.state = n, !.seq = q]]
        /\ refreshes' = [refreshes EXCEPT ![t] = n]
        /\ refreshes[t] = n \/ Unreachable(n)
  <2>1. t \in Tenants /\ refreshes[t] \in States \cup {Nil}
    BY DEF Call, TypeOK
  <2>2. CASE ~NeedsState(t)
    <3>1. refreshes[t] \in States
      BY <2>1, <2>2 DEF NeedsState
    <3>2. heap[refreshes[t]].next \in 0..MaxSequence /\ heap[refreshes[t]].next # MaxSequence
      BY <2>2, <3>1 DEF NeedsState, TypeOK, RefreshState
    <3>3. heap[refreshes[t]].next + 1 \in 0..MaxSequence
      BY <3>2, ConfigAssumption
    <3>4. refreshes' = [refreshes EXCEPT ![t] = refreshes[t]]
      BY <2>1, <2>2, Zenon DEF beginRefresh, TypeOK
    <3> QED
      BY <2>2, <3>1, <3>3, <3>4, Zenon DEF beginRefresh
  <2>3. CASE NeedsState(t)
    <3>1. 1 \in 0..MaxSequence
      BY ConfigAssumption
    <3>2. PICK n \in States :
            /\ Unreachable(n)
            /\ refreshes' = [refreshes EXCEPT ![t] = n]
            /\ call' = [call EXCEPT ![c] = [r EXCEPT !.pc = "fetch", !.state = n, !.seq = 1]]
      BY <2>3, Zenon DEF beginRefresh
    <3> QED
      BY <3>1, <3>2, Zenon
  <2> QED
    BY <2>2, <2>3, Zenon
<1>2. UNCHANGED <<version, floor, entries>>
  BY Zenon DEF beginRefresh
<1>3. t \in Tenants /\ refreshes \in [Tenants -> States \cup {Nil}] /\ call \in [Callers -> Call]
  BY DEF Call, TypeOK
<1>4. \A d \in Callers : d # c => call'[d] = call[d]
  BY <1>1, <1>3
<1>5. \A u \in Tenants : version[u] <= version'[u] /\ floor[u] <= floor'[u]
  BY <1>2 DEF TypeOK
<1>6. \A d \in Callers :
        d # c /\ call[d].pc \in InRefresh /\ refreshes'[call[d].tenant] = call[d].state
          => /\ refreshes[call[d].tenant] = call[d].state
             /\ floor'[call[d].tenant] = floor[call[d].tenant]
  BY <1>1, <1>2, <1>3 DEF Unreachable, Call, Refreshing, InRefresh
<1>7. CallOK(call'[c], version'[call'[c].tenant], floor'[call'[c].tenant],
             refreshes'[call'[c].tenant])
  <2>1. call'[c] = [r EXCEPT !.pc = "fetch", !.state = n, !.seq = q]
    BY <1>1, <1>3
  <2>2. /\ call'[c].pc = "fetch" /\ call'[c].state = n /\ call'[c].tenant = t
        /\ call'[c].floor = r.floor /\ call'[c].entry = r.entry /\ call'[c].got = r.got
    BY <2>1 DEF Call
  <2>3. n # Nil
    BY ConfigAssumption
  <2> QED
    BY <1>2, <2>2, <2>3 DEF CallOK, InCall
<1>8. CallsOK'
  BY <1>4, <1>5, <1>6, <1>7, CallStep DEF FenceInv
<1> QED
  BY <1>2, <1>8 DEF FenceInv, TenantsOK

\* A step of c that changes nothing shared but possibly drops refresh states.
LEMMA LocalFence ==
  ASSUME TypeOK, TypeOK', FenceInv, NEW c \in Callers, NEW r \in Call,
         call' = [call EXCEPT ![c] = r], UNCHANGED <<version, floor>>,
         \A t \in Tenants : refreshes'[t] \in {refreshes[t], Nil},
         CallOK(r, version[r.tenant], floor[r.tenant], refreshes'[r.tenant])
  PROVE  CallsOK'
<1>1. call'[c] = r /\ \A d \in Callers : d # c => call'[d] = call[d]
  BY DEF TypeOK
<1>2. \A u \in Tenants : version[u] <= version'[u] /\ floor[u] <= floor'[u]
  BY DEF TypeOK
<1>3. \A d \in Callers : call[d].tenant \in Tenants
  BY DEF TypeOK, Call
<1>4. \A d \in Callers : call[d].pc \in InRefresh => call[d].state # Nil
  BY DEF FenceInv, CallsOK, CallOK
<1> QED
  BY <1>1, <1>2, <1>3, <1>4, CallStep DEF FenceInv

\* The fence holds initially.
LEMMA FenceInit == Init => FenceInv
<1> SUFFICES ASSUME Init PROVE FenceInv
  OBVIOUS
<1>1. (CHOOSE t \in Tenants : TRUE) \in Tenants
  BY ConfigAssumption
<1>2. TenantsOK
  BY DEF Init, TenantsOK
<1>3. CallsOK
  BY <1>1 DEF Init, CallsOK, CallOK, Blank, InCall, InRefresh
<1> QED
  BY <1>2, <1>3 DEF FenceInv

\* A returned call gives out nothing older than its floor.
LEMMA ReturnOK ==
  ASSUME NEW r \in Call, NEW e \in Entry, NEW v, NEW f, NEW s,
         e # Absent => e.version >= r.floor
  PROVE  LET q == IF e = Absent THEN Blank(r.tenant, 0)
                  ELSE [Blank(r.tenant, r.floor) EXCEPT !.pc = "returned", !.result = e]
         IN  q \in Call /\ q.tenant = r.tenant /\ CallOK(q, v, f, s)
<1>1. Blank(r.tenant, 0) \in Call /\ Blank(r.tenant, r.floor) \in Call
  BY BlankType DEF Call
<1>2. CASE e = Absent
  BY <1>1, <1>2 DEF CallOK, Blank, InCall, InRefresh
<1>3. CASE e # Absent
  <2> DEFINE q == [Blank(r.tenant, r.floor) EXCEPT !.pc = "returned", !.result = e]
  <2>1. q \in Call
    BY <1>1, Zenon DEF Call, PC
  <2>2. q.pc = "returned" /\ q.result = e /\ q.floor = r.floor /\ q.tenant = r.tenant
    BY DEF Blank
  <2>3. CallOK(q, v, f, s)
    BY <1>3, <2>2 DEF CallOK, InCall, InRefresh
  <2> QED
    BY <1>3, <2>1, <2>2, <2>3
<1> QED
  BY <1>2, <1>3

\* Every action keeps the fence.
LEMMA FenceStep == TypeOK /\ TypeOK' /\ FenceInv /\ [Next]_vars => FenceInv'
<1> SUFFICES ASSUME TypeOK, TypeOK', FenceInv, [Next]_vars PROVE FenceInv'
  OBVIOUS
<1> USE DEF history
<1>0. /\ \A c \in Callers : call[c] \in Call /\ call[c].tenant \in Tenants
      /\ \A t \in Tenants : floor[t] \in Nat /\ version[t] \in Nat /\ entries[t] \in Entry
  BY DEF TypeOK, Call
<1>1. ASSUME NEW c \in Callers, Refresh(c) PROVE FenceInv'
  <2>1. PICK t \in Tenants : beginRefresh(c, Blank(t, floor[t]))
    BY <1>1 DEF Refresh
  <2>2. PICK r \in Call : r = Blank(t, floor[t])
    BY <1>0, BlankType
  <2>3. r.floor <= floor[r.tenant] /\ r.got = Absent /\ r.entry = Absent
    BY <1>0, <2>2 DEF Blank
  <2> QED
    BY <2>1, <2>2, <2>3, BeginFence
<1>2. ASSUME NEW c \in Callers, SnapshotNow(c) PROVE FenceInv'
  <2>1. PICK t \in Tenants :
          call' = [call EXCEPT ![c] = [Blank(t, floor[t]) EXCEPT !.pc = "read", !.now = clock]]
    BY <1>2, Zenon DEF SnapshotNow
  <2>2. PICK r \in Call : r = [Blank(t, floor[t]) EXCEPT !.pc = "read", !.now = clock]
    <3>1. Blank(t, floor[t]) \in Call
      BY <1>0, BlankType
    <3>2. [Blank(t, floor[t]) EXCEPT !.pc = "read", !.now = clock] \in Call
      BY <3>1, Zenon DEF Call, PC, TypeOK
    <3> QED
      BY <3>2
  <2>3. /\ r.pc = "read" /\ r.tenant = t /\ r.floor = floor[t]
        /\ r.got = Absent /\ r.entry = Absent
    BY <2>2 DEF Blank
  <2>4. CallOK(r, version[r.tenant], floor[r.tenant], refreshes'[r.tenant])
    BY <1>0, <2>3 DEF CallOK, InCall, InRefresh
  <2>5. CallsOK'
    BY <1>2, <2>1, <2>2, <2>4, LocalFence, Zenon DEF SnapshotNow
  <2> QED
    BY <1>2, <2>5 DEF SnapshotNow, FenceInv, TenantsOK
<1>3. ASSUME NEW c \in Callers, SnapshotRead(c) PROVE FenceInv'
  <2> DEFINE r == call[c]
             e == entries[r.tenant]
  <2>1. CallOK(r, version[r.tenant], floor[r.tenant], refreshes[r.tenant]) /\ r.pc = "read"
    BY <1>3 DEF SnapshotRead, FenceInv, CallsOK
  <2>2. e # Absent => e.version >= r.floor
    <3>1. e # Absent => e.version >= floor[r.tenant]
      BY <1>0 DEF FenceInv, TenantsOK
    <3>2. r.floor <= floor[r.tenant]
      BY <2>1 DEF CallOK, InCall
    <3>3. r.floor \in Nat /\ e.version \in Nat
      BY <1>0 DEF Call, Entry
    <3> QED
      BY <1>0, <3>1, <3>2, <3>3
  <2>3. PICK q \in Call :
          /\ call' = [call EXCEPT ![c] = q]
          /\ q.tenant = r.tenant
          /\ CallOK(q, version[r.tenant], floor[r.tenant], refreshes[r.tenant])
    <3>1. CASE e # Absent /\ boundedAge(r.now, e.fetched) <= MaxStaleness
      <4> DEFINE q == [Blank(r.tenant, r.floor) EXCEPT !.pc = "returned", !.result = e]
      <4>1. call' = [call EXCEPT ![c] = q]
        BY <1>3, <3>1 DEF SnapshotRead, Return
      <4>2. q \in Call /\ q.tenant = r.tenant
            /\ CallOK(q, version[r.tenant], floor[r.tenant], refreshes[r.tenant])
        BY <1>0, <2>2, <3>1, ReturnOK, Zenon
      <4> QED
        BY <4>1, <4>2, Zenon
    <3>2. CASE ~(e # Absent /\ boundedAge(r.now, e.fetched) <= MaxStaleness)
      <4> DEFINE q == [r EXCEPT !.pc = "admit", !.entry = e]
      <4>1. q \in Call
        BY <1>0, Zenon DEF Call, PC
      <4>2. /\ q.pc = "admit" /\ q.entry = e /\ q.tenant = r.tenant
            /\ q.floor = r.floor /\ q.got = r.got
        BY <1>0 DEF Call
      <4>3. CallOK(q, version[r.tenant], floor[r.tenant], refreshes[r.tenant])
        BY <2>1, <2>2, <4>2 DEF CallOK, InCall, InRefresh
      <4> QED
        BY <1>3, <3>2, <4>1, <4>2, <4>3, Zenon DEF SnapshotRead
    <3> QED
      BY <3>1, <3>2
  <2>4. CallsOK'
    BY <1>3, <2>3, LocalFence, Zenon DEF SnapshotRead
  <2> QED
    BY <1>3, <2>4 DEF SnapshotRead, FenceInv, TenantsOK
<1>4. ASSUME NEW c \in Callers, SnapshotRefresh(c) PROVE FenceInv'
  <2>1. PICK r \in Call : r = call[c]
    BY <1>0
  <2>2. CallOK(r, version[r.tenant], floor[r.tenant], refreshes[r.tenant]) /\ r.pc = "admit"
    BY <1>4, <2>1 DEF SnapshotRefresh, FenceInv, CallsOK
  <2> QED
    BY <1>4, <2>1, <2>2, BeginFence DEF SnapshotRefresh, CallOK, InCall
<1>5. ASSUME NEW c \in Callers, Fetch(c) \/ FetchError(c) \/ Stamp(c) PROVE FenceInv'
  <2> DEFINE r == call[c]
             t == r.tenant
  <2>1. CallOK(r, version[t], floor[t], refreshes[t])
    BY DEF FenceInv, CallsOK
  <2>2. PICK q \in Call :
          /\ call' = [call EXCEPT ![c] = q]
          /\ q.tenant = t
          /\ CallOK(q, version[t], floor[t], refreshes[t])
    <3>1. CASE Fetch(c)
      <4> DEFINE q == [r EXCEPT !.pc = "stamp", !.got = [version |-> version[t], fetched |-> 0]]
      <4>1. q \in Call
        BY <1>0, Zenon DEF Call, PC, Entry
      <4>2. /\ q.pc = "stamp" /\ q.got.version = version[t] /\ q.tenant = t
            /\ q.floor = r.floor /\ q.entry = r.entry /\ q.state = r.state
        BY <1>0 DEF Call
      <4>3. version[t] >= floor[t] /\ r.floor <= floor[t]
        BY <1>0, <2>1, <3>1 DEF Fetch, FenceInv, TenantsOK, CallOK, InCall
      <4>4. version[t] \in Nat /\ floor[t] \in Nat /\ r.floor \in Nat
        BY <1>0 DEF Call
      <4>5. version[t] >= r.floor
        BY <4>3, <4>4
      <4>6. CallOK(q, version[t], floor[t], refreshes[t])
        BY <2>1, <3>1, <4>2, <4>3, <4>5 DEF Fetch, CallOK, InCall, InRefresh
      <4> QED
        BY <3>1, <4>1, <4>2, <4>6, Zenon DEF Fetch
    <3>2. CASE FetchError(c)
      <4> DEFINE q == [r EXCEPT !.pc = "end"]
      <4>1. q \in Call
        BY <1>0 DEF Call, PC
      <4>2. /\ q.pc = "end" /\ q.got = r.got /\ q.tenant = t
            /\ q.floor = r.floor /\ q.entry = r.entry /\ q.state = r.state
        BY <1>0 DEF Call
      <4>3. CallOK(q, version[t], floor[t], refreshes[t])
        BY <2>1, <3>2, <4>2 DEF FetchError, CallOK, InCall, InRefresh
      <4> QED
        BY <3>2, <4>1, <4>2, <4>3, Zenon DEF FetchError
    <3>3. CASE Stamp(c)
      <4> DEFINE q == [r EXCEPT !.pc = "publish", !.got.fetched = clock]
      <4>0. [r.got EXCEPT !.fetched = clock] \in Entry
        <5>1. r.got \in Entry /\ clock \in Nat
          BY <1>0 DEF Call, TypeOK
        <5> QED
          BY <5>1 DEF Entry
      <4>1. q \in Call
        BY <1>0, <4>0, Zenon DEF Call, PC
      <4>2. /\ q.pc = "publish" /\ q.got.version = r.got.version /\ q.tenant = t
            /\ q.floor = r.floor /\ q.entry = r.entry /\ q.state = r.state
        BY <1>0 DEF Call, Entry
      <4>3. CallOK(q, version[t], floor[t], refreshes[t])
        BY <2>1, <3>3, <4>2 DEF Stamp, CallOK, InCall, InRefresh
      <4> QED
        BY <3>3, <4>1, <4>2, <4>3, Zenon DEF Stamp
    <3> QED
      BY <1>5, <3>1, <3>2, <3>3
  <2>3. UNCHANGED <<version, floor, refreshes, entries>>
    BY <1>5 DEF Fetch, FetchError, Stamp
  <2>4. CallsOK'
    BY <2>2, <2>3, LocalFence, Zenon
  <2> QED
    BY <2>3, <2>4 DEF FenceInv, TenantsOK
<1>6. ASSUME NEW c \in Callers, Publish(c) PROVE FenceInv'
  <2> DEFINE r == call[c]
             t == r.tenant
  <2>1. CallOK(r, version[t], floor[t], refreshes[t]) /\ r.pc = "publish"
    BY <1>6 DEF Publish, FenceInv, CallsOK
  <2>2. PICK q \in Call :
          /\ call' = [call EXCEPT ![c] = q]
          /\ q.tenant = t
          /\ CallOK(q, version[t], floor[t], refreshes[t])
    <3> DEFINE q == [r EXCEPT !.pc = "end"]
    <3>1. q \in Call
      BY <1>0 DEF Call, PC
    <3>2. /\ q.pc = "end" /\ q.got = r.got /\ q.tenant = t
          /\ q.floor = r.floor /\ q.entry = r.entry /\ q.state = r.state
      BY <1>0 DEF Call
    <3>3. CallOK(q, version[t], floor[t], refreshes[t])
      BY <2>1, <3>2 DEF CallOK, InCall, InRefresh
    <3> QED
      BY <1>6, <3>1, <3>2, <3>3, Zenon DEF Publish
  <2>3. UNCHANGED <<version, floor, refreshes>>
    BY <1>6 DEF Publish
  <2>4. CallsOK'
    BY <2>2, <2>3, LocalFence, Zenon
  <2>5. TenantsOK'
    <3>1. CASE ~MayPublish(c)
      BY <1>6, <2>3, <3>1 DEF Publish, FenceInv, TenantsOK
    <3>2. CASE MayPublish(c)
      <4>1. r.got.version >= floor[t]
        BY <2>1, <3>2 DEF MayPublish, CallOK
      <4>2. /\ MakeRoom(t) \in [Tenants -> Entry]
            /\ \A u \in Tenants : MakeRoom(t)[u] \in {entries[u], Absent}
        BY Zenon DEF MakeRoom, evictOldest, TypeOK, Absent, Entry
      <4>3. entries' = [MakeRoom(t) EXCEPT ![t] = r.got]
        BY <1>6, <3>2 DEF Publish
      <4>4. \A u \in Tenants : entries'[u] \in {entries[u], Absent} \/ (u = t /\ entries'[u] = r.got)
        BY <4>2, <4>3
      <4> QED
        BY <2>3, <4>1, <4>4 DEF FenceInv, TenantsOK
    <3> QED
      BY <3>1, <3>2
  <2> QED
    BY <2>4, <2>5 DEF FenceInv
<1>7. ASSUME NEW c \in Callers, EndRefresh(c) PROVE FenceInv'
  <2> DEFINE r == call[c]
             t == r.tenant
             e == Result(r)
  <2>1. CallOK(r, version[t], floor[t], refreshes[t]) /\ r.pc = "end"
    BY <1>7 DEF EndRefresh, FenceInv, CallsOK
  <2>2. e \in Entry /\ (e # Absent => e.version >= r.floor)
    BY <1>0, <2>1 DEF Result, Call, CallOK, InCall, Absent, Entry
  <2>3. PICK q \in Call :
          /\ call' = [call EXCEPT ![c] = q]
          /\ q.tenant = t
          /\ CallOK(q, version[t], floor[t], refreshes'[t])
    BY <1>0, <1>7, <2>2, ReturnOK, Zenon DEF EndRefresh, Return
  <2>4. \A u \in Tenants : refreshes'[u] \in {refreshes[u], Nil}
    BY <1>0, <1>7 DEF EndRefresh, TypeOK
  <2>5. CallsOK'
    BY <1>7, <2>3, <2>4, LocalFence, Zenon DEF EndRefresh
  <2> QED
    BY <1>7, <2>5 DEF EndRefresh, FenceInv, TenantsOK
<1>8. ASSUME NEW c \in Callers, Mutate(c) PROVE FenceInv'
  <2>1. PICK t \in Tenants :
          /\ version' = [version EXCEPT ![t] = @ + 1]
          /\ call' = [call EXCEPT ![c] =
               [Blank(t, floor[t]) EXCEPT !.pc = "invalidate",
                  !.got = [version |-> version[t] + 1, fetched |-> 0]]]
    BY <1>8, Zenon DEF Mutate
  <2>2. UNCHANGED <<floor, refreshes, entries>>
    BY <1>8 DEF Mutate
  <2>3. /\ call'[c].pc = "invalidate" /\ call'[c].tenant = t
        /\ call'[c].got.version = version[t] + 1
        /\ \A d \in Callers : d # c => call'[d] = call[d]
    BY <2>1 DEF Blank, TypeOK
  <2>4. /\ version'[t] = version[t] + 1
        /\ \A u \in Tenants : version[u] <= version'[u] /\ floor[u] <= floor'[u]
    BY <1>0, <2>1, <2>2 DEF TypeOK
  <2>5. CallOK(call'[c], version'[call'[c].tenant], floor'[call'[c].tenant],
               refreshes'[call'[c].tenant])
    BY <1>0, <2>3, <2>4 DEF CallOK, InCall, InRefresh
  <2>6. CallsOK'
    BY <2>2, <2>3, <2>4, <2>5, CallStep DEF FenceInv
  <2>7. \A u \in Tenants : version'[u] \in Nat
    BY DEF TypeOK
  <2>8. TenantsOK'
    BY <1>0, <2>2, <2>4, <2>7 DEF FenceInv, TenantsOK
  <2> QED
    BY <2>6, <2>8 DEF FenceInv
<1>9. ASSUME NEW c \in Callers, invalidateOnSuccess(c) PROVE FenceInv'
  <2> DEFINE r == call[c]
             t == r.tenant
             v == r.got.version
  <2>1. v <= version[t] /\ v \in Nat /\ t \in Tenants
    BY <1>0, <1>9, Zenon DEF invalidateOnSuccess, FenceInv, CallsOK, CallOK, Call, Entry
  <2>2. /\ entries' = [entries EXCEPT ![t] = Absent]
        /\ refreshes' = [refreshes EXCEPT ![t] = Nil]
        /\ floor' = [floor EXCEPT ![t] = IF v > @ THEN v ELSE @]
        /\ call' = [call EXCEPT ![c] = Blank(t, 0)]
        /\ UNCHANGED version
    BY <1>9 DEF invalidateOnSuccess, DropRefreshes, Return
  <2>3. /\ call'[c] = Blank(t, 0)
        /\ \A d \in Callers : d # c => call'[d] = call[d]
    BY <2>2 DEF TypeOK
  <2>4. \A u \in Tenants : /\ version[u] <= version'[u]
                           /\ floor[u] <= floor'[u]
                           /\ u # t => floor'[u] = floor[u]
    BY <1>0, <2>1, <2>2 DEF TypeOK
  <2>5. \A d \in Callers :
          d # c /\ call[d].pc \in InRefresh /\ refreshes'[call[d].tenant] = call[d].state
            => /\ refreshes[call[d].tenant] = call[d].state
               /\ floor'[call[d].tenant] = floor[call[d].tenant]
    <3>1. \A d \in Callers : call[d].pc \in InRefresh => call[d].state # Nil
      BY DEF FenceInv, CallsOK, CallOK
    <3> QED
      BY <1>0, <2>1, <2>2, <2>4, <3>1 DEF TypeOK
  <2>6. CallOK(call'[c], version'[call'[c].tenant], floor'[call'[c].tenant],
               refreshes'[call'[c].tenant])
    BY <2>3 DEF CallOK, Blank, InCall, InRefresh
  <2>7. CallsOK'
    BY <2>3, <2>4, <2>5, <2>6, CallStep DEF FenceInv
  <2>8. TenantsOK'
    BY <1>0, <2>1, <2>2 DEF FenceInv, TenantsOK, TypeOK
  <2> QED
    BY <2>7, <2>8 DEF FenceInv
<1>10. ASSUME NEW t \in Tenants, SilentCommit(t) PROVE FenceInv'
  <2>1. /\ version'[t] = version[t] + 1
        /\ \A u \in Tenants : u # t => version'[u] = version[u]
        /\ UNCHANGED <<entries, refreshes, call, floor>>
    BY <1>10 DEF SilentCommit, TypeOK
  <2>2. TenantsOK'
    BY <1>0, <2>1 DEF FenceInv, TenantsOK
  <2>3. ASSUME NEW d \in Callers
        PROVE  CallOK(call[d], version'[call[d].tenant], floor[call[d].tenant],
                      refreshes[call[d].tenant])
    <3>1. CallOK(call[d], version[call[d].tenant], floor[call[d].tenant],
                 refreshes[call[d].tenant])
      BY DEF FenceInv, CallsOK
    <3>2. /\ version'[call[d].tenant] \in Nat
          /\ version[call[d].tenant] <= version'[call[d].tenant]
      BY <1>0, <2>1 DEF TypeOK
    <3> QED
      BY <1>0, <3>1, <3>2, OtherCall
  <2> QED
    BY <2>1, <2>2, <2>3 DEF FenceInv, CallsOK
<1>11. CASE Close
  <2>1. ASSUME NEW d \in Callers
        PROVE  CallOK(call[d], version[call[d].tenant], floor[call[d].tenant], Nil)
    <3>1. CallOK(call[d], version[call[d].tenant], floor[call[d].tenant],
                 refreshes[call[d].tenant])
      BY DEF FenceInv, CallsOK
    <3>2. call[d].pc \in InRefresh => call[d].state # Nil
      BY <3>1 DEF CallOK
    <3> QED
      BY <1>0, <3>1, <3>2, OtherCall
  <2>2. /\ UNCHANGED <<call, version, floor>>
        /\ \A d \in Callers : refreshes'[call[d].tenant] = Nil
        /\ \A t \in Tenants : entries'[t] = Absent
    BY <1>0, <1>11 DEF Close
  <2> QED
    BY <2>1, <2>2 DEF FenceInv, CallsOK, TenantsOK
<1>12. CASE ClockStep
  BY <1>12 DEF ClockStep, FenceInv, CallsOK, TenantsOK
<1>13. CASE UNCHANGED vars
  BY <1>13 DEF vars, FenceInv, CallsOK, TenantsOK
<1> QED
  BY <1>1, <1>2, <1>3, <1>4, <1>5, <1>6, <1>7, <1>8, <1>9, <1>10, <1>11, <1>12, <1>13
     DEF Next

\* Whatever refreshes run across it, a local mutation that has returned leaves
\* no older entry in the cache, now or later (Refresh, invalidateOnSuccess).
THEOREM FenceCorrect == Spec => []MutationFence
<1>1. FenceInv => MutationFence
  BY DEF FenceInv, TenantsOK, MutationFence, Cached
<1> QED
  BY <1>1, TypeCorrect, FenceInit, FenceStep, PTL DEF Spec

\* A Snapshot or Refresh that starts after a local mutation returned never gives
\* out a snapshot older than that mutation, FailOpen fallback included.
THEOREM ReadYourWritesCorrect == Spec => []ReadYourWrites
<1>1. FenceInv => ReadYourWrites
  BY DEF FenceInv, CallsOK, CallOK, ReadYourWrites
<1> QED
  BY <1>1, TypeCorrect, FenceInit, FenceStep, PTL DEF Spec

-----------------------------------------------------------------------------
(* Order of publication, tracking and capacity                             *)

(***************************************************************************)
(* The inductive invariant.  A refresh may publish exactly when its state    *)
(* is still the tenant's and its sequence is beyond what was published;      *)
(* the history variables say when it should, from what happened to the call. *)
(* That the two agree rests on the sequences following the admissions, on a  *)
(* state belonging to one tenant, and on no state being reused while a       *)
(* refresh still holds it, which is what the exact count of readers gives.   *)
(***************************************************************************)
Late(c) == call[c].pc = "end"
Mine(c) == refreshes[call[c].tenant] = call[c].state

\* Who uses which state.
TrackInv ==
  /\ \A c \in Callers : Refreshing(c) => call[c].state \in States
  /\ \A s \in States : heap[s].running = Cardinality(Readers(s))
  /\ \A t \in Tenants :
       refreshes[t] # Nil => \E c \in Callers : Refreshing(c) /\ call[c].state = refreshes[t]
  /\ \A t \in Tenants, c \in Callers :
       Refreshing(c) /\ refreshes[t] = call[c].state => call[c].tenant = t
  /\ \A c, d \in Callers :
       Refreshing(c) /\ Refreshing(d) /\ call[c].state = call[d].state
         => call[c].tenant = call[d].tenant

\* Sequences follow admissions.
SequenceInv ==
  /\ \A s \in States : heap[s].published <= heap[s].next
  /\ \A c \in Callers :
       Refreshing(c) => call[c].seq >= 1 /\ call[c].seq <= heap[call[c].state].next
  /\ \A c, d \in Callers :
       d \in later[c] => Refreshing(c) /\ Refreshing(d) /\ call[c].tenant = call[d].tenant
  /\ \A c, d \in Callers :
       c # d /\ Refreshing(c) /\ Refreshing(d) /\ call[c].state = call[d].state
         => /\ d \in later[c] <=> call[d].seq > call[c].seq
            /\ call[c].seq # call[d].seq

\* What overtook a call, and what did not.
OvertakeInv ==
  /\ \A c \in Callers :
       Refreshing(c) /\ fenced[c] => ~Mine(c) \/ heap[call[c].state].published >= call[c].seq
  /\ \A c \in Callers :
       Refreshing(c) /\ ~Late(c) /\ ~fenced[c] /\ ~rotated[c]
         => Mine(c) /\ heap[call[c].state].published < call[c].seq

OrderInv == TrackInv /\ SequenceInv /\ OvertakeInv

\* What the types say of a call and of its state.
LEMMA CallFacts ==
  ASSUME TypeOK
  PROVE  /\ \A c \in Callers : /\ call[c] \in Call /\ call[c].tenant \in Tenants
                               /\ call[c].seq \in Nat
                               /\ refreshes[call[c].tenant] \in States \cup {Nil}
                               /\ fenced[c] \in BOOLEAN /\ rotated[c] \in BOOLEAN
         /\ \A s \in States : /\ heap[s] \in RefreshState /\ heap[s].running \in Int
                              /\ heap[s].next \in Nat /\ heap[s].published \in Nat
         /\ MaxSequence \in Nat
<1>1. MaxSequence \in Nat
  BY ConfigAssumption
<1>2. \A c \in Callers : /\ call[c] \in Call /\ call[c].tenant \in Tenants
                         /\ call[c].seq \in 0..MaxSequence
                         /\ refreshes[call[c].tenant] \in States \cup {Nil}
                         /\ fenced[c] \in BOOLEAN /\ rotated[c] \in BOOLEAN
  BY DEF TypeOK, Call
<1>3. \A s \in States : /\ heap[s] \in RefreshState /\ heap[s].running \in Int
                        /\ heap[s].next \in 0..MaxSequence /\ heap[s].published \in 0..MaxSequence
  BY DEF TypeOK, RefreshState
<1> QED
  BY <1>1, <1>2, <1>3

\* The readers of a state are finitely many goroutines.
LEMMA ReadersFinite ==
  ASSUME NEW s
  PROVE  /\ IsFiniteSet(Readers(s)) /\ Cardinality(Readers(s)) \in Nat
         /\ Cardinality(Readers(s)) = 0 <=> Readers(s) = {}
<1>1. IsFiniteSet(Callers) /\ Readers(s) \subseteq Callers
  BY ConfigAssumption DEF Readers
<1>2. IsFiniteSet(Readers(s))
  BY <1>1, FS_Subset
<1> QED
  BY <1>2, FS_CardinalityType, FS_EmptySet

\* No refresh begins or ends, and none changes its tenant, its state or its sequence.
SameReaders ==
  \A d \in Callers :
    /\ Refreshing(d)' <=> Refreshing(d)
    /\ Refreshing(d) => /\ call'[d].tenant = call[d].tenant /\ call'[d].state = call[d].state
                        /\ call'[d].seq = call[d].seq /\ (Late(d) => Late(d)')

\* States may be dropped from the map, and every refresh that this overtakes is fenced.
Drops ==
  /\ \A t \in Tenants : refreshes'[t] \in {refreshes[t], Nil}
  /\ \A d \in Callers :
       Refreshing(d) => /\ fenced[d] => fenced'[d]
                        /\ fenced'[d] /\ ~fenced[d] => refreshes'[call[d].tenant] = Nil
                        /\ ~fenced'[d] => refreshes'[call[d].tenant] = refreshes[call[d].tenant]

\* A step that begins and ends no refresh and publishes nothing keeps the order.
LEMMA QuietStep ==
  ASSUME TypeOK, TypeOK', OrderInv, SameReaders, Drops, UNCHANGED <<heap, rotated, later>>
  PROVE  OrderInv'
<1>1. TrackInv /\ SequenceInv /\ OvertakeInv
  BY DEF OrderInv
<1>2. \A s \in States \cup {Nil} : Readers(s)' = Readers(s)
  BY DEF Readers, SameReaders
<1>3. /\ \A c \in Callers : call[c].tenant \in Tenants /\ fenced[c] \in BOOLEAN /\ rotated[c] \in BOOLEAN
      /\ \A c \in Callers : fenced'[c] \in BOOLEAN
      /\ \A t \in Tenants : refreshes[t] \in States \cup {Nil}
      /\ Nil \notin States
  BY ConfigAssumption DEF TypeOK, Call
<1>4. TrackInv'
  <2>1. \A c \in Callers : Refreshing(c)' => call'[c].state \in States
    BY <1>1 DEF SameReaders, TrackInv
  <2>2. \A s \in States : heap'[s].running = Cardinality(Readers(s)')
    BY <1>1, <1>2 DEF TrackInv
  <2>3. \A t \in Tenants :
          refreshes'[t] # Nil => \E c \in Callers : Refreshing(c)' /\ call'[c].state = refreshes'[t]
    BY <1>1 DEF SameReaders, Drops, TrackInv
  <2>4. \A t \in Tenants, c \in Callers :
          Refreshing(c)' /\ refreshes'[t] = call'[c].state => call'[c].tenant = t
    BY <1>1, <1>3 DEF SameReaders, Drops, TrackInv
  <2>5. \A c, d \in Callers :
          Refreshing(c)' /\ Refreshing(d)' /\ call'[c].state = call'[d].state
            => call'[c].tenant = call'[d].tenant
    <3> SUFFICES ASSUME NEW c \in Callers, NEW d \in Callers,
                        Refreshing(c)', Refreshing(d)', call'[c].state = call'[d].state
                 PROVE  call'[c].tenant = call'[d].tenant
      OBVIOUS
    <3>1. Refreshing(c) /\ call'[c].tenant = call[c].tenant /\ call'[c].state = call[c].state
      BY DEF SameReaders
    <3>2. Refreshing(d) /\ call'[d].tenant = call[d].tenant /\ call'[d].state = call[d].state
      BY DEF SameReaders
    <3>3. \A x, y \in Callers : Refreshing(x) /\ Refreshing(y) /\ call[x].state = call[y].state
            => call[x].tenant = call[y].tenant
      BY <1>1, Zenon DEF TrackInv
    <3> QED
      BY <3>1, <3>2, <3>3, Zenon
  <2> QED
    BY <2>1, <2>2, <2>3, <2>4, <2>5 DEF TrackInv
<1>5. SequenceInv'
  BY <1>1 DEF SameReaders, SequenceInv
<1>6. OvertakeInv'
  <2>1. \A c \in Callers :
          Refreshing(c)' /\ fenced'[c] => ~Mine(c)' \/ heap'[call'[c].state].published >= call'[c].seq
    BY <1>1, <1>3 DEF SameReaders, Drops, OvertakeInv, TrackInv, Mine
  <2>2. \A c \in Callers :
          Refreshing(c)' /\ ~Late(c)' /\ ~fenced'[c] /\ ~rotated'[c]
            => Mine(c)' /\ heap'[call'[c].state].published < call'[c].seq
    BY <1>1, <1>3 DEF SameReaders, Drops, OvertakeInv, Mine
  <2> QED
    BY <2>1, <2>2 DEF OvertakeInv
<1> QED
  BY <1>4, <1>5, <1>6 DEF OrderInv

\* A step of one caller, within a refresh or outside of any.
LEMMA OneCall ==
  ASSUME TypeOK, NEW c \in Callers, NEW q, call' = [call EXCEPT ![c] = q],
         \/ ~Refreshing(c) /\ q.pc \notin InRefresh
         \/ /\ Refreshing(c) /\ q.pc \in InRefresh /\ ~Late(c)
            /\ q.tenant = call[c].tenant /\ q.state = call[c].state /\ q.seq = call[c].seq
  PROVE  SameReaders
BY DEF TypeOK, SameReaders, Refreshing, InRefresh, Late

\* Nothing is dropped.
LEMMA NoDrops ==
  ASSUME TypeOK, UNCHANGED <<refreshes, fenced>>
  PROVE  Drops
BY CallFacts DEF Drops

\* A refresh publishes: it overtakes the refreshes that were admitted before it, and
\* nobody else.
LEMMA PublishOrder ==
  ASSUME TypeOK, TypeOK', OrderInv, NEW c \in Callers, Publish(c), MayPublish(c)
  PROVE  OrderInv'
<1> DEFINE s == call[c].state
           n == call[c].seq
<1>1. TrackInv /\ SequenceInv /\ OvertakeInv
  BY DEF OrderInv
<1>2. /\ call[c].pc = "publish" /\ Refreshing(c) /\ s \in States /\ Mine(c)
      /\ n > heap[s].published
      /\ call' = [call EXCEPT ![c] = [@ EXCEPT !.pc = "end"]]
      /\ heap' = [heap EXCEPT ![s] = [@ EXCEPT !.published = n]]
      /\ fenced' = [d \in Callers |-> fenced[d] \/ c \in later[d]]
      /\ UNCHANGED <<refreshes, rotated, later>>
  BY <1>1 DEF Publish, MayPublish, Refreshing, TrackInv, Mine
<1>3. /\ \A d \in Callers : d # c => call'[d] = call[d]
      /\ call'[c].pc = "end" /\ call'[c].tenant = call[c].tenant
      /\ call'[c].state = s /\ call'[c].seq = n
      /\ \A u \in States : /\ u # s => heap'[u] = heap[u]
                           /\ heap'[u].running = heap[u].running /\ heap'[u].next = heap[u].next
      /\ heap'[s].published = n
  BY <1>2 DEF TypeOK, Call, RefreshState
<1>4. \A d \in Callers : /\ Refreshing(d)' <=> Refreshing(d)
                         /\ call'[d].tenant = call[d].tenant
                         /\ call'[d].state = call[d].state
                         /\ call'[d].seq = call[d].seq
                         /\ Late(d)' <=> (d = c \/ Late(d))
  BY <1>2, <1>3 DEF Refreshing, Late
<1> HIDE DEF s, n
<1>5. TrackInv'
  <2>1. \A u \in States : Readers(u)' = Readers(u)
    BY <1>4 DEF Readers
  <2> QED
    BY <1>1, <1>2, <1>3, <1>4, <2>1 DEF TrackInv
<1>6. SequenceInv'
  <2>1. n <= heap[s].next
    BY <1>1, <1>2 DEF SequenceInv, s, n
  <2>2. \A u \in States : heap'[u].published <= heap'[u].next
    BY <1>1, <1>3, <2>1 DEF SequenceInv
  <2>3. \A d \in Callers :
          Refreshing(d)' => call'[d].seq >= 1 /\ call'[d].seq <= heap'[call'[d].state].next
    <3> SUFFICES ASSUME NEW d \in Callers, Refreshing(d)'
                 PROVE  call'[d].seq >= 1 /\ call'[d].seq <= heap'[call'[d].state].next
      OBVIOUS
    <3>1. Refreshing(d) /\ call'[d].state = call[d].state /\ call'[d].seq = call[d].seq
      BY <1>4
    <3>2. call[d].state \in States /\ call[d].seq >= 1 /\ call[d].seq <= heap[call[d].state].next
      BY <1>1, <3>1 DEF SequenceInv, TrackInv
    <3>3. heap'[call[d].state].next = heap[call[d].state].next
      BY <1>3, <3>2
    <3> QED
      BY <3>1, <3>2, <3>3
  <2> QED
    BY <1>1, <1>2, <1>4, <2>2, <2>3 DEF SequenceInv
<1>7. OvertakeInv'
  <2> SUFFICES ASSUME NEW d \in Callers, Refreshing(d)
               PROVE  /\ fenced'[d] => ~Mine(d)' \/ heap'[call[d].state].published >= call[d].seq
                      /\ ~Late(d)' /\ ~fenced'[d] /\ ~rotated'[d]
                           => Mine(d)' /\ heap'[call[d].state].published < call[d].seq
    BY <1>4, Zenon DEF OvertakeInv
  <2>1. Mine(d)' <=> Mine(d)
    BY <1>2, <1>4 DEF Mine
  <2>2. /\ call[d].seq \in Nat /\ n \in Nat /\ call[d].state \in States
        /\ heap[call[d].state].published \in Nat
    BY <1>1, CallFacts DEF TrackInv, n
  <2>3. fenced'[d] <=> fenced[d] \/ c \in later[d]
    BY <1>2, Zenon
  <2>4. CASE d = c
    BY <1>2, <1>3, <1>4, <2>2, <2>4 DEF s, n
  <2>5. CASE d # c /\ call[d].state = s
    <3>1. /\ c \in later[d] <=> n > call[d].seq
          /\ call[d].seq # n
      BY <1>1, <1>2, <2>5 DEF SequenceInv, s, n
    <3>2. fenced'[d] => heap'[call[d].state].published >= call[d].seq
      <4>1. CASE c \in later[d]
        BY <1>3, <2>2, <2>5, <3>1, <4>1
      <4>2. CASE fenced[d]
        <5>1. Mine(d)
          BY <1>1, <1>2, <2>5 DEF TrackInv, Mine, s
        <5>2. heap[s].published >= call[d].seq
          BY <1>1, <2>5, <4>2, <5>1 DEF OvertakeInv
        <5> QED
          BY <1>2, <1>3, <2>2, <2>5, <5>2
      <4> QED
        BY <2>3, <4>1, <4>2
    <3>3. ~Late(d)' /\ ~fenced'[d] /\ ~rotated'[d] => Mine(d) /\ heap'[call[d].state].published < call[d].seq
      BY <1>1, <1>2, <1>3, <1>4, <2>2, <2>3, <2>5, <3>1 DEF OvertakeInv
    <3> QED
      BY <2>1, <3>2, <3>3
  <2>6. CASE call[d].state # s
    <3>1. heap'[call[d].state] = heap[call[d].state]
      BY <1>3, <2>2, <2>6
    <3>2. c \in later[d] => ~Mine(d)
      BY <1>1, <1>2, <2>6 DEF SequenceInv, Mine, s
    <3>3. fenced'[d] => ~Mine(d) \/ heap'[call[d].state].published >= call[d].seq
      BY <1>1, <2>3, <3>1, <3>2 DEF OvertakeInv
    <3>4. ~Late(d)' /\ ~fenced'[d] /\ ~rotated'[d] => Mine(d) /\ heap'[call[d].state].published < call[d].seq
      BY <1>1, <1>2, <1>4, <2>3, <3>1, Zenon DEF OvertakeInv
    <3> QED
      BY <2>1, <3>3, <3>4
  <2> QED
    BY <2>4, <2>5, <2>6
<1> QED
  BY <1>5, <1>6, <1>7 DEF OrderInv

\* A state whose count is one has one reader.
LEMMA SoleReader ==
  ASSUME TypeOK, TrackInv, NEW c \in Callers, Refreshing(c)
  PROVE  /\ LastReader(call[c]) <=> Readers(call[c].state) = {c}
         /\ Cardinality(Readers(call[c].state) \ {c}) = Cardinality(Readers(call[c].state)) - 1
<1> DEFINE R == Readers(call[c].state)
<1>1. c \in R /\ IsFiniteSet(R) /\ heap[call[c].state].running = Cardinality(R)
      /\ Cardinality(R) \in Nat
  <2>1. c \in R
    BY DEF Readers
  <2>2. IsFiniteSet(R) /\ Cardinality(R) \in Nat
    BY ReadersFinite
  <2>3. heap[call[c].state].running = Cardinality(R)
    BY DEF TrackInv
  <2> QED
    BY <2>1, <2>2, <2>3
<1>2. IsFiniteSet(R \ {c}) /\ Cardinality(R \ {c}) = Cardinality(R) - 1
  BY <1>1, FS_RemoveElement
<1>3. Cardinality(R \ {c}) = 0 <=> R \ {c} = {}
  BY <1>2, FS_EmptySet, Zenon
<1>4. R \ {c} = {} <=> R = {c}
  BY <1>1
<1> HIDE DEF R
<1>5. Cardinality(R) = 1 <=> R = {c}
  BY <1>1, <1>2, <1>3, <1>4
<1>6. LastReader(call[c]) <=> Cardinality(R) = 1
  BY <1>1 DEF LastReader
<1> QED
  BY <1>2, <1>5, <1>6 DEF R

\* What the end of a refresh by c, of tenant t on state s, changes: last says that c
\* was the only reader of s.
Ended(c, s, t, last) ==
  /\ s = call[c].state /\ t = call[c].tenant /\ Refreshing(c) /\ s \in States /\ s # Nil
  /\ last <=> Readers(s) = {c}
  /\ Cardinality(Readers(s) \ {c}) = Cardinality(Readers(s)) - 1
  /\ \A d \in Callers : /\ Refreshing(d)' <=> (d # c /\ Refreshing(d))
                        /\ d # c => /\ call'[d] = call[d] /\ (Late(d)' <=> Late(d))
                                    /\ fenced'[d] = fenced[d] /\ rotated'[d] = rotated[d]
                                    /\ later'[d] = later[d] \ {c}
  /\ later'[c] = {}
  /\ \A u \in States : u # s => heap'[u] = heap[u]
  /\ ~last => /\ heap'[s].running = heap[s].running - 1 /\ heap'[s].next = heap[s].next
              /\ heap'[s].published = heap[s].published
  /\ last => heap'[s] = NewState
  /\ \A d \in Callers : Refreshing(d)' /\ call[d].state = s => ~last
  /\ \A u \in Tenants : u # t \/ ~last \/ refreshes[u] # s => refreshes'[u] = refreshes[u]
  /\ last /\ refreshes[t] = s => refreshes'[t] = Nil
  /\ \A u \in Tenants : refreshes'[u] \in {refreshes[u], Nil}

\* EndRefresh does just that: the count follows, and a state is reclaimed with its
\* last reader.
LEMMA EndEffect ==
  ASSUME TypeOK, OrderInv, NEW c \in Callers, EndRefresh(c)
  PROVE  Ended(c, call[c].state, call[c].tenant, LastReader(call[c]))
<1> DEFINE s == call[c].state
           t == call[c].tenant
           last == LastReader(call[c])
<1>1. TrackInv /\ SequenceInv /\ OvertakeInv
  BY DEF OrderInv
<1>2. /\ call[c].pc = "end" /\ Refreshing(c) /\ s \in States /\ t \in Tenants /\ s # Nil
      /\ heap' = [heap EXCEPT ![s] = IF last THEN NewState ELSE Left(@)]
      /\ refreshes' = IF last /\ refreshes[t] = s THEN [refreshes EXCEPT ![t] = Nil] ELSE refreshes
      /\ fenced' = [fenced EXCEPT ![c] = FALSE]
      /\ rotated' = [rotated EXCEPT ![c] = FALSE]
      /\ later' = [d \in Callers |-> IF d = c THEN {} ELSE later[d] \ {c}]
  BY <1>1, CallFacts, ConfigAssumption, Zenon DEF EndRefresh, Refreshing, TrackInv
<1>3. call'[c].pc \in {"idle", "returned"} /\ \A d \in Callers : d # c => call'[d] = call[d]
  <2>1. PICK q : call' = [call EXCEPT ![c] = q] /\ q.pc \in {"idle", "returned"}
    <3> DEFINE q == IF Result(call[c]) = Absent THEN Blank(call[c].tenant, 0)
                    ELSE [Blank(call[c].tenant, call[c].floor)
                            EXCEPT !.pc = "returned", !.result = Result(call[c])]
    <3>1. call' = [call EXCEPT ![c] = q]
      BY DEF EndRefresh, Return
    <3>2. q.pc \in {"idle", "returned"}
      BY DEF Blank
    <3> HIDE DEF q
    <3> QED
      BY <3>1, <3>2, Zenon
  <2>2. call \in [Callers -> Call]
    BY DEF TypeOK
  <2> QED
    BY <2>1, <2>2
<1>4. \A d \in Callers : /\ Refreshing(d)' <=> (d # c /\ Refreshing(d))
                         /\ d # c => /\ call'[d] = call[d] /\ (Late(d)' <=> Late(d))
                                     /\ fenced'[d] = fenced[d] /\ rotated'[d] = rotated[d]
                                     /\ later'[d] = later[d] \ {c}
  BY <1>2, <1>3, Zenon DEF Refreshing, Late, TypeOK
<1>5. /\ last <=> Readers(s) = {c}
      /\ Cardinality(Readers(s) \ {c}) = Cardinality(Readers(s)) - 1
  BY <1>1, <1>2, SoleReader
<1> HIDE DEF s, t, last
<1>6. \A u \in States : u # s => heap'[u] = heap[u]
  BY <1>2 DEF TypeOK
<1>7. /\ ~last => /\ heap'[s].running = heap[s].running - 1 /\ heap'[s].next = heap[s].next
                  /\ heap'[s].published = heap[s].published
      /\ last => heap'[s] = NewState
  BY <1>2 DEF TypeOK, Left
<1>8. \A d \in Callers : Refreshing(d)' /\ call[d].state = s => ~last
  BY <1>4, <1>5 DEF Readers
<1>9. \A u \in Tenants : u # t \/ ~last \/ refreshes[u] # s => refreshes'[u] = refreshes[u]
  BY <1>2 DEF TypeOK
<1>10. \A u \in Tenants : refreshes'[u] \in {refreshes[u], Nil}
  BY <1>2 DEF TypeOK
<1>11. later'[c] = {} /\ (last /\ refreshes[t] = s => refreshes'[t] = Nil)
  BY <1>2, Zenon DEF TypeOK
<1>12. /\ s = call[c].state /\ t = call[c].tenant
  BY DEF s, t
<1> QED
  <2> DEFINE G == Ended(c, s, t, last)
  <2>1. G
    BY <1>2, <1>4, <1>5, <1>6, <1>7, <1>8, <1>9, <1>10, <1>11, <1>12, Zenon DEF Ended
  <2> QED
    BY <2>1, Zenon DEF s, t, last

\* After it the counts and the tenants of the states are right.
LEMMA EndTrack ==
  ASSUME TypeOK, TypeOK', OrderInv, NEW c \in Callers, NEW s, NEW t, NEW last \in BOOLEAN,
         Ended(c, s, t, last)
  PROVE  TrackInv'
<1>1. TrackInv /\ SequenceInv /\ OvertakeInv
  BY DEF OrderInv
<1>2. s = call[c].state /\ t = call[c].tenant /\ Refreshing(c) /\ s \in States /\ s # Nil
  BY Zenon DEF Ended
<1>3. later'[c] = {} /\ (last /\ refreshes[t] = s => refreshes'[t] = Nil)
  BY DEF Ended
<1>4. \A d \in Callers : /\ Refreshing(d)' <=> (d # c /\ Refreshing(d))
                         /\ d # c => /\ call'[d] = call[d] /\ (Late(d)' <=> Late(d))
                                     /\ fenced'[d] = fenced[d] /\ rotated'[d] = rotated[d]
                                     /\ later'[d] = later[d] \ {c}
  BY Zenon DEF Ended
<1>5. /\ last <=> Readers(s) = {c}
      /\ Cardinality(Readers(s) \ {c}) = Cardinality(Readers(s)) - 1
  BY Zenon DEF Ended
<1>6. \A u \in States : u # s => heap'[u] = heap[u]
  BY Zenon DEF Ended
<1>7. /\ ~last => /\ heap'[s].running = heap[s].running - 1 /\ heap'[s].next = heap[s].next
                  /\ heap'[s].published = heap[s].published
      /\ last => heap'[s] = NewState
  BY Zenon DEF Ended
<1>10. \A u \in Tenants : refreshes'[u] \in {refreshes[u], Nil}
  BY Zenon DEF Ended
<1>11. TrackInv'
  <2>1. \A d \in Callers : Refreshing(d)' => call'[d].state \in States
    BY <1>1, <1>4, Zenon DEF TrackInv
  <2>2. \A u \in States : heap'[u].running = Cardinality(Readers(u)')
    <3> SUFFICES ASSUME NEW u \in States PROVE heap'[u].running = Cardinality(Readers(u)')
      OBVIOUS
    <3>1. CASE u # s
      <4>1. Readers(u)' = Readers(u)
        BY <1>2, <1>4, <3>1 DEF Readers
      <4> QED
        BY <1>1, <1>6, <3>1, <4>1 DEF TrackInv
    <3>2. CASE u = s
      <4>1. Readers(u)' = Readers(s) \ {c}
        BY <1>4, <3>2 DEF Readers
      <4>2. CASE last
        <5>1. Readers(u)' = {} /\ Cardinality({}) = 0
          BY <1>5, <4>1, <4>2, FS_EmptySet
        <5> QED
          BY <1>7, <3>2, <4>2, <5>1 DEF NewState
      <4>3. CASE ~last
        <5>1. heap[s].running = Cardinality(Readers(s))
          BY <1>1, <1>2 DEF TrackInv
        <5> QED
          BY <1>5, <1>7, <3>2, <4>1, <4>3, <5>1
      <4> QED
        BY <4>2, <4>3
    <3> QED
      BY <3>1, <3>2
  <2>3. ASSUME NEW u \in Tenants, refreshes'[u] # Nil
        PROVE  \E d \in Callers : Refreshing(d)' /\ call'[d].state = refreshes'[u]
    <3>1. refreshes'[u] = refreshes[u] /\ refreshes[u] # Nil
      BY <1>10, <2>3
    <3>2. PICK d \in Callers : Refreshing(d) /\ call[d].state = refreshes[u]
      BY <1>1, <3>1 DEF TrackInv
    <3>3. CASE d # c
      BY <1>4, <3>1, <3>2, <3>3
    <3>4. CASE d = c
      <4>1. refreshes[u] = s /\ u = t
        BY <1>1, <1>2, <3>2, <3>4 DEF TrackInv
      <4>2. ~last
        BY <1>3, <2>3, <4>1
      <4>3. PICK e \in Callers : e # c /\ Refreshing(e) /\ call[e].state = s
        BY <1>2, <1>5, <4>2 DEF Readers
      <4> QED
        BY <1>4, <3>1, <4>1, <4>3
    <3> QED
      BY <3>3, <3>4
  <2>4. \A u \in Tenants, d \in Callers :
          Refreshing(d)' /\ refreshes'[u] = call'[d].state => call'[d].tenant = u
    <3> SUFFICES ASSUME NEW u \in Tenants, NEW d \in Callers,
                        Refreshing(d)', refreshes'[u] = call'[d].state
                 PROVE  call'[d].tenant = u
      OBVIOUS
    <3>1. Refreshing(d) /\ call'[d] = call[d]
      BY <1>4
    <3>2. call[d].state \in States
      BY <1>1, <3>1 DEF TrackInv
    <3>3. refreshes'[u] # Nil
      BY <3>1, <3>2, ConfigAssumption
    <3>4. refreshes[u] = call[d].state
      BY <1>10, <3>1, <3>3
    <3> QED
      BY <1>1, <3>1, <3>4 DEF TrackInv
  <2>5. \A d, e \in Callers :
          Refreshing(d)' /\ Refreshing(e)' /\ call'[d].state = call'[e].state
            => call'[d].tenant = call'[e].tenant
    <3> SUFFICES ASSUME NEW d \in Callers, NEW e \in Callers,
                        Refreshing(d)', Refreshing(e)', call'[d].state = call'[e].state
                 PROVE  call'[d].tenant = call'[e].tenant
      OBVIOUS
    <3>1. Refreshing(d) /\ call'[d] = call[d] /\ Refreshing(e) /\ call'[e] = call[e]
      BY <1>4
    <3> QED
      BY <1>1, <3>1 DEF TrackInv
  <2> QED
    BY <2>1, <2>2, <2>3, <2>4, <2>5 DEF TrackInv
<1> QED
  BY <1>11

\* The sequences are, too.
LEMMA EndSequence ==
  ASSUME TypeOK, TypeOK', OrderInv, NEW c \in Callers, NEW s, NEW t, NEW last \in BOOLEAN,
         Ended(c, s, t, last)
  PROVE  SequenceInv'
<1>1. TrackInv /\ SequenceInv /\ OvertakeInv
  BY DEF OrderInv
<1>3. later'[c] = {} /\ (last /\ refreshes[t] = s => refreshes'[t] = Nil)
  BY DEF Ended
<1>4. \A d \in Callers : /\ Refreshing(d)' <=> (d # c /\ Refreshing(d))
                         /\ d # c => /\ call'[d] = call[d] /\ (Late(d)' <=> Late(d))
                                     /\ fenced'[d] = fenced[d] /\ rotated'[d] = rotated[d]
                                     /\ later'[d] = later[d] \ {c}
  BY Zenon DEF Ended
<1>6. \A u \in States : u # s => heap'[u] = heap[u]
  BY Zenon DEF Ended
<1>7. /\ ~last => /\ heap'[s].running = heap[s].running - 1 /\ heap'[s].next = heap[s].next
                  /\ heap'[s].published = heap[s].published
      /\ last => heap'[s] = NewState
  BY Zenon DEF Ended
<1>8. \A d \in Callers : Refreshing(d)' /\ call[d].state = s => ~last
  BY Zenon DEF Ended
<1>12. SequenceInv'
  <2>1. \A u \in States : heap'[u].published <= heap'[u].next
    <3> SUFFICES ASSUME NEW u \in States PROVE heap'[u].published <= heap'[u].next
      OBVIOUS
    <3>1. heap[u].published <= heap[u].next
      BY <1>1 DEF SequenceInv
    <3>2. CASE u # s
      BY <1>6, <3>1, <3>2
    <3>3. CASE u = s /\ last
      BY <1>7, <3>3 DEF NewState
    <3>4. CASE u = s /\ ~last
      BY <1>7, <3>1, <3>4
    <3> QED
      BY <3>2, <3>3, <3>4
  <2>2. \A d \in Callers :
          Refreshing(d)' => call'[d].seq >= 1 /\ call'[d].seq <= heap'[call'[d].state].next
    <3> SUFFICES ASSUME NEW d \in Callers, Refreshing(d)'
                 PROVE  call'[d].seq >= 1 /\ call'[d].seq <= heap'[call'[d].state].next
      OBVIOUS
    <3>1. Refreshing(d) /\ call'[d] = call[d]
      BY <1>4
    <3>2. call[d].state \in States /\ call[d].seq >= 1 /\ call[d].seq <= heap[call[d].state].next
      BY <1>1, <3>1 DEF SequenceInv, TrackInv
    <3>3. heap'[call[d].state].next = heap[call[d].state].next
      <4>1. CASE call[d].state # s
        BY <1>6, <3>2, <4>1
      <4>2. CASE call[d].state = s
        BY <1>7, <1>8, <4>2
      <4> QED
        BY <4>1, <4>2
    <3> QED
      BY <3>1, <3>2, <3>3
  <2>3. \A d, e \in Callers :
          e \in later'[d] => Refreshing(d)' /\ Refreshing(e)' /\ call'[d].tenant = call'[e].tenant
    <3>1. \A d, e \in Callers : e \in later'[d] => d # c /\ e # c /\ e \in later[d]
      BY <1>3, <1>4
    <3> QED
      BY <1>1, <1>4, <3>1 DEF SequenceInv
  <2>4. \A d, e \in Callers :
          d # e /\ Refreshing(d)' /\ Refreshing(e)' /\ call'[d].state = call'[e].state
            => /\ e \in later'[d] <=> call'[e].seq > call'[d].seq
               /\ call'[d].seq # call'[e].seq
    <3> SUFFICES ASSUME NEW d \in Callers, NEW e \in Callers, d # e,
                        Refreshing(d)', Refreshing(e)', call'[d].state = call'[e].state
                 PROVE  /\ e \in later'[d] <=> call'[e].seq > call'[d].seq
                        /\ call'[d].seq # call'[e].seq
      OBVIOUS
    <3>1. Refreshing(d) /\ call'[d] = call[d] /\ later'[d] = later[d] \ {c}
      BY <1>4
    <3>2. e # c /\ Refreshing(e) /\ call'[e] = call[e]
      BY <1>4
    <3>3. /\ e \in later[d] <=> call[e].seq > call[d].seq
          /\ call[d].seq # call[e].seq
      BY <1>1, <3>1, <3>2 DEF SequenceInv
    <3> QED
      BY <3>1, <3>2, <3>3
  <2> QED
    BY <2>1, <2>2, <2>3, <2>4 DEF SequenceInv
<1> QED
  BY <1>12

\* And what overtook a call still did.
LEMMA EndOvertake ==
  ASSUME TypeOK, TypeOK', OrderInv, NEW c \in Callers, NEW s, NEW t, NEW last \in BOOLEAN,
         Ended(c, s, t, last)
  PROVE  OvertakeInv'
<1>1. TrackInv /\ SequenceInv /\ OvertakeInv
  BY DEF OrderInv
<1>4. \A d \in Callers : /\ Refreshing(d)' <=> (d # c /\ Refreshing(d))
                         /\ d # c => /\ call'[d] = call[d] /\ (Late(d)' <=> Late(d))
                                     /\ fenced'[d] = fenced[d] /\ rotated'[d] = rotated[d]
                                     /\ later'[d] = later[d] \ {c}
  BY Zenon DEF Ended
<1>6. \A u \in States : u # s => heap'[u] = heap[u]
  BY Zenon DEF Ended
<1>7. /\ ~last => /\ heap'[s].running = heap[s].running - 1 /\ heap'[s].next = heap[s].next
                  /\ heap'[s].published = heap[s].published
      /\ last => heap'[s] = NewState
  BY Zenon DEF Ended
<1>8. \A d \in Callers : Refreshing(d)' /\ call[d].state = s => ~last
  BY Zenon DEF Ended
<1>9. \A u \in Tenants : u # t \/ ~last \/ refreshes[u] # s => refreshes'[u] = refreshes[u]
  BY Zenon DEF Ended
<1>10. \A u \in Tenants : refreshes'[u] \in {refreshes[u], Nil}
  BY Zenon DEF Ended
<1>13. OvertakeInv'
  <2> SUFFICES ASSUME NEW d \in Callers, d # c, Refreshing(d)
               PROVE  /\ fenced[d] => ~Mine(d)' \/ heap'[call[d].state].published >= call[d].seq
                      /\ ~Late(d) /\ ~fenced[d] /\ ~rotated[d]
                           => Mine(d)' /\ heap'[call[d].state].published < call[d].seq
    BY <1>4, Zenon DEF OvertakeInv
  <2>1. call[d].state \in States /\ call[d].state # Nil /\ call[d].tenant \in Tenants
    BY <1>1, CallFacts, ConfigAssumption DEF TrackInv
  <2>2. heap'[call[d].state].published = heap[call[d].state].published
    BY <1>4, <1>6, <1>7, <1>8, <2>1
  <2>3. Mine(d)' <=> Mine(d)
    BY <1>4, <1>8, <1>9, <1>10, <2>1 DEF Mine
  <2> QED
    BY <1>1, <2>2, <2>3 DEF OvertakeInv
<1> QED
  BY <1>13

\* A refresh ends: the count follows, and a state is reclaimed with its last reader.
LEMMA EndOrder ==
  ASSUME TypeOK, TypeOK', OrderInv, NEW c \in Callers, EndRefresh(c)
  PROVE  OrderInv'
<1>1. Ended(c, call[c].state, call[c].tenant, LastReader(call[c]))
  BY EndEffect
<1>2. LastReader(call[c]) \in BOOLEAN
  BY DEF LastReader
<1> QED
  BY <1>1, <1>2, EndTrack, EndSequence, EndOvertake, Zenon DEF OrderInv

\* What admitting a refresh by c, of tenant t on state n with sequence q, changes.
Admitted(c, t, n, q) ==
  /\ ~Refreshing(c) /\ t \in Tenants /\ n \in States /\ q \in Nat /\ Nil \notin States
  /\ call'[c].pc = "fetch" /\ call'[c].state = n /\ call'[c].seq = q /\ call'[c].tenant = t
  /\ \A d \in Callers : /\ Refreshing(d)' <=> (d = c \/ Refreshing(d))
                        /\ d # c => /\ call'[d] = call[d] /\ (Late(d)' <=> Late(d))
                                    /\ fenced'[d] = fenced[d]
  /\ later' = [d \in Callers |->
       IF d = c THEN {}
       ELSE IF Refreshing(d) /\ call[d].tenant = t THEN later[d] \cup {c} ELSE later[d]]
  /\ refreshes'[t] = n /\ \A u \in Tenants : u # t => refreshes'[u] = refreshes[u]
  /\ \A u \in States : u # n => heap'[u] = heap[u]
  /\ ~fenced'[c]
  /\ heap'[n].running = Cardinality(Readers(n)) + 1
  /\ heap'[n].next = q /\ q >= 1 /\ heap'[n].published < q
  /\ \A d \in Callers : Refreshing(d) /\ call[d].state = n =>
       /\ call[d].tenant = t /\ call[d].seq < q /\ refreshes[t] = n
       /\ heap'[n].published = heap[n].published
       /\ rotated'[d] = rotated[d]
  /\ \A d \in Callers : d # c /\ Refreshing(d) =>
       /\ rotated[d] => rotated'[d]
       /\ call[d].state = refreshes[t] /\ refreshes[t] # n => rotated'[d]

\* beginRefresh does just that: the sequence is beyond all that the state has given
\* out, or the state is one that nobody holds.
LEMMA BeginEffect ==
  ASSUME TypeOK, TypeOK', OrderInv, NEW c \in Callers, ~Refreshing(c), NEW r \in Call,
         beginRefresh(c, r)
  PROVE  \E n, q : Admitted(c, r.tenant, n, q)
<1> DEFINE t == r.tenant
           s == refreshes[t]
<1>1. TrackInv /\ SequenceInv /\ OvertakeInv
  BY DEF OrderInv
<1>2. /\ t \in Tenants /\ s \in States \cup {Nil} /\ Nil \notin States
      /\ fenced' = [fenced EXCEPT ![c] = FALSE]
      /\ later' = [d \in Callers |->
           IF d = c THEN {}
           ELSE IF Refreshing(d) /\ call[d].tenant = t THEN later[d] \cup {c} ELSE later[d]]
  BY ConfigAssumption, Zenon DEF beginRefresh, Call, TypeOK
<1>3. PICK n \in States, q \in Nat :
        /\ call' = [call EXCEPT ![c] = [r EXCEPT !.pc = "fetch", !.state = n, !.seq = q]]
        /\ refreshes' = [refreshes EXCEPT ![t] = n]
        /\ \/ /\ n = s /\ q = heap[s].next + 1 /\ heap' = [heap EXCEPT ![n] = Joined(heap[n])]
              /\ rotated' = [rotated EXCEPT ![c] = FALSE]
           \/ /\ Unreachable(n) /\ q = 1 /\ heap' = [heap EXCEPT ![n] = Joined(NewState)]
              /\ rotated' = [d \in Callers |->
                   d # c /\ (rotated[d] \/ (s # Nil /\ Refreshing(d) /\ call[d].state = s))]
  <2>1. CASE ~NeedsState(t)
    <3>1. s \in States
      BY <1>2, <2>1 DEF NeedsState
    <3>2. heap[s].next + 1 \in Nat
      BY <3>1, CallFacts
    <3>3. refreshes' = [refreshes EXCEPT ![t] = s]
      BY <1>2, <2>1, Zenon DEF beginRefresh, TypeOK
    <3>4. /\ call' = [call EXCEPT ![c] = [r EXCEPT !.pc = "fetch", !.state = s, !.seq = heap[s].next + 1]]
          /\ heap' = [heap EXCEPT ![s] = Joined(heap[s])]
          /\ rotated' = [rotated EXCEPT ![c] = FALSE]
      BY <2>1, Zenon DEF beginRefresh
    <3> QED
      BY <3>1, <3>2, <3>3, <3>4, Zenon
  <2>2. CASE NeedsState(t)
    BY <2>2, Zenon DEF beginRefresh
  <2> QED
    BY <2>1, <2>2, Zenon
<1>4. /\ call'[c].pc = "fetch" /\ call'[c].state = n /\ call'[c].seq = q /\ call'[c].tenant = t
      /\ \A d \in Callers : d # c => call'[d] = call[d]
  BY <1>3 DEF TypeOK, Call
<1>5. \A d \in Callers : /\ Refreshing(d)' <=> (d = c \/ Refreshing(d))
                         /\ d # c => /\ call'[d] = call[d] /\ (Late(d)' <=> Late(d))
                                     /\ fenced'[d] = fenced[d]
  BY <1>2, <1>4, Zenon DEF Refreshing, Late, TypeOK
<1>6. /\ refreshes'[t] = n /\ \A u \in Tenants : u # t => refreshes'[u] = refreshes[u]
      /\ \A u \in States : u # n => heap'[u] = heap[u]
      /\ ~fenced'[c]
  BY <1>2, <1>3 DEF TypeOK
<1>7. Unreachable(n) => \A d \in Callers : Refreshing(d) => call[d].state # n
  BY DEF Unreachable
<1>8. /\ heap'[n].running = Cardinality(Readers(n)) + 1
      /\ heap'[n].next = q /\ q >= 1 /\ heap'[n].published < q
      /\ \A d \in Callers : Refreshing(d) /\ call[d].state = n =>
           /\ call[d].tenant = t /\ call[d].seq < q /\ refreshes[t] = n
           /\ heap'[n].published = heap[n].published
           /\ rotated'[d] = rotated[d]
  <2>1. CASE /\ n = s /\ q = heap[s].next + 1 /\ heap' = [heap EXCEPT ![n] = Joined(heap[n])]
             /\ rotated' = [rotated EXCEPT ![c] = FALSE]
    <3>0. q = heap[n].next + 1 /\ refreshes[t] = n
      BY <2>1
    <3>1. heap'[n] = Joined(heap[n])
      BY <2>1 DEF TypeOK
    <3>2. /\ heap[n].running = Cardinality(Readers(n)) /\ heap[n].published <= heap[n].next
          /\ heap[n].next \in Nat /\ heap[n].published \in Nat
      BY <1>1, CallFacts DEF TrackInv, SequenceInv
    <3>3. \A d \in Callers : Refreshing(d) /\ call[d].state = n =>
            /\ call[d].tenant = t /\ call[d].seq < q /\ rotated'[d] = rotated[d]
      <4> SUFFICES ASSUME NEW d \in Callers, Refreshing(d), call[d].state = n
                   PROVE  call[d].tenant = t /\ call[d].seq < q /\ rotated'[d] = rotated[d]
        OBVIOUS
      <4>1. call[d].tenant = t
        BY <1>1, <1>2, <2>1 DEF TrackInv
      <4>2. call[d].seq \in Nat /\ call[d].seq <= heap[n].next
        BY <1>1, CallFacts DEF SequenceInv
      <4>3. rotated'[d] = rotated[d]
        BY <2>1, Zenon DEF TypeOK
      <4>4. call[d].seq < q
        <5> HIDE DEF TypeOK
        <5> QED
          BY <3>0, <3>2, <4>2
      <4> QED
        BY <4>1, <4>3, <4>4, Zenon
    <3>4. /\ heap'[n].running = heap[n].running + 1 /\ heap'[n].next = heap[n].next + 1
          /\ heap'[n].published = heap[n].published
      BY <3>1 DEF Joined
    <3> QED
      BY <3>0, <3>2, <3>3, <3>4
  <2>2. CASE Unreachable(n) /\ q = 1 /\ heap' = [heap EXCEPT ![n] = Joined(NewState)]
    <3>1. heap'[n] = Joined(NewState)
      BY <2>2 DEF TypeOK
    <3>2. Readers(n) = {} /\ Cardinality({}) = 0
      BY <1>7, <2>2, FS_EmptySet DEF Readers
    <3>3. heap'[n].running = 1 /\ heap'[n].next = 1 /\ heap'[n].published = 0
      BY <3>1 DEF Joined, NewState
    <3>4. \A d \in Callers : ~(Refreshing(d) /\ call[d].state = n)
      BY <1>7, <2>2
    <3> QED
      BY <2>2, <3>2, <3>3, <3>4
  <2> QED
    BY <1>3, <2>1, <2>2
<1>9. \A d \in Callers : d # c /\ Refreshing(d) =>
        /\ rotated[d] => rotated'[d]
        /\ call[d].state = s /\ s # n => rotated'[d]
  BY <1>1, <1>2, <1>3 DEF TrackInv, TypeOK
<1>10. t \in Tenants /\ Nil \notin States /\ n \in States /\ q \in Nat
  BY <1>2, <1>3
<1>11. later' = [d \in Callers |->
         IF d = c THEN {}
         ELSE IF Refreshing(d) /\ call[d].tenant = t THEN later[d] \cup {c} ELSE later[d]]
  BY <1>2
<1> QED
  <2>1. Admitted(c, t, n, q)
    BY <1>4, <1>5, <1>6, <1>8, <1>9, <1>10, <1>11, Zenon DEF Admitted
  <2> QED
    BY <2>1, Zenon

\* After it the counts and the tenants of the states are right.
LEMMA BeginTrack ==
  ASSUME TypeOK, TypeOK', OrderInv, NEW c \in Callers, NEW t, NEW n, NEW q,
         Admitted(c, t, n, q)
  PROVE  TrackInv'
<1>1. TrackInv /\ SequenceInv /\ OvertakeInv
  BY DEF OrderInv
<1>2. ~Refreshing(c) /\ t \in Tenants /\ n \in States /\ q \in Nat /\ Nil \notin States
  BY DEF Admitted
<1>4. /\ call'[c].pc = "fetch" /\ call'[c].state = n /\ call'[c].seq = q /\ call'[c].tenant = t
      /\ \A d \in Callers : d # c => call'[d] = call[d]
  BY Zenon DEF Admitted
<1>5. \A d \in Callers : /\ Refreshing(d)' <=> (d = c \/ Refreshing(d))
                         /\ d # c => /\ call'[d] = call[d] /\ (Late(d)' <=> Late(d))
                                     /\ fenced'[d] = fenced[d]
  BY Zenon DEF Admitted
<1>6. /\ refreshes'[t] = n /\ \A u \in Tenants : u # t => refreshes'[u] = refreshes[u]
      /\ \A u \in States : u # n => heap'[u] = heap[u]
      /\ ~fenced'[c]
  BY Zenon DEF Admitted
<1>8. /\ heap'[n].running = Cardinality(Readers(n)) + 1
      /\ heap'[n].next = q /\ q >= 1 /\ heap'[n].published < q
      /\ \A d \in Callers : Refreshing(d) /\ call[d].state = n =>
           /\ call[d].tenant = t /\ call[d].seq < q /\ refreshes[t] = n
           /\ heap'[n].published = heap[n].published
           /\ rotated'[d] = rotated[d]
  BY Zenon DEF Admitted
<1>9. TrackInv'
  <2>1. \A d \in Callers : Refreshing(d)' => call'[d].state \in States
    BY <1>1, <1>2, <1>4, <1>5, Zenon DEF TrackInv
  <2>2. \A u \in States : heap'[u].running = Cardinality(Readers(u)')
    <3> SUFFICES ASSUME NEW u \in States PROVE heap'[u].running = Cardinality(Readers(u)')
      OBVIOUS
    <3>1. CASE u # n
      <4>1. Readers(u)' = Readers(u)
        BY <1>2, <1>4, <1>5, <3>1, Zenon DEF Readers
      <4> QED
        BY <1>1, <1>6, <3>1, <4>1 DEF TrackInv
    <3>2. CASE u = n
      <4>1. Readers(u)' = Readers(n) \cup {c} /\ c \notin Readers(n)
        BY <1>2, <1>4, <1>5, <3>2 DEF Readers
      <4>2. IsFiniteSet(Readers(n))
        BY ReadersFinite
      <4>3. Cardinality(Readers(n) \cup {c}) = Cardinality(Readers(n)) + 1
        BY <4>1, <4>2, FS_AddElement, Zenon
      <4> QED
        BY <1>8, <3>2, <4>1, <4>3
    <3> QED
      BY <3>1, <3>2
  <2>3. \A u \in Tenants :
          refreshes'[u] # Nil => \E d \in Callers : Refreshing(d)' /\ call'[d].state = refreshes'[u]
    <3>1. ASSUME NEW u \in Tenants, u # t, refreshes'[u] # Nil
          PROVE  \E d \in Callers : Refreshing(d)' /\ call'[d].state = refreshes'[u]
      <4>1. PICK d \in Callers : Refreshing(d) /\ call[d].state = refreshes[u]
        BY <1>1, <1>6, <3>1 DEF TrackInv
      <4> QED
        BY <1>2, <1>5, <1>6, <3>1, <4>1, Zenon
    <3> QED
      BY <1>4, <1>5, <1>6, <3>1, Zenon
  <2>4. ASSUME NEW u \in Tenants, NEW d \in Callers, Refreshing(d)', refreshes'[u] = call'[d].state
        PROVE  call'[d].tenant = u
    <3>1. CASE d = c
      <4>1. refreshes'[u] = n
        BY <1>4, <2>4, <3>1
      <4>2. u # t => refreshes[u] = n /\ refreshes[u] # Nil
        BY <1>2, <1>6, <4>1
      <4>3. u # t => \E e \in Callers : Refreshing(e) /\ call[e].state = n /\ call[e].tenant = u
        BY <1>1, <4>2 DEF TrackInv
      <4> QED
        BY <1>4, <1>8, <3>1, <4>3, Zenon
    <3>2. CASE d # c
      <4>1. Refreshing(d) /\ call'[d] = call[d]
        BY <1>5, <2>4, <3>2, Zenon
      <4>2. CASE u = t
        BY <1>6, <1>8, <2>4, <4>1, <4>2
      <4>3. CASE u # t
        BY <1>1, <1>6, <2>4, <4>1, <4>3 DEF TrackInv
      <4> QED
        BY <4>2, <4>3
    <3> QED
      BY <3>1, <3>2
  <2>5. \A d, e \in Callers :
          Refreshing(d)' /\ Refreshing(e)' /\ call'[d].state = call'[e].state
            => call'[d].tenant = call'[e].tenant
    <3>1. ASSUME NEW d \in Callers, Refreshing(d)', call'[d].state = n
          PROVE  call'[d].tenant = t
      <4>1. CASE d = c
        BY <1>4, <4>1
      <4>2. CASE d # c
        <5>1. Refreshing(d) /\ call'[d] = call[d]
          BY <1>5, <3>1, <4>2
        <5> QED
          BY <1>8, <3>1, <5>1
      <4> QED
        BY <4>1, <4>2
    <3>2. ASSUME NEW d \in Callers, Refreshing(d)', call'[d].state # n
          PROVE  Refreshing(d) /\ call'[d] = call[d]
      BY <1>4, <1>5, <3>2
    <3> SUFFICES ASSUME NEW d \in Callers, NEW e \in Callers,
                        Refreshing(d)', Refreshing(e)', call'[d].state = call'[e].state
                 PROVE  call'[d].tenant = call'[e].tenant
      OBVIOUS
    <3>3. CASE call'[d].state = n
      BY <3>1, <3>3, Zenon
    <3>4. CASE call'[d].state # n
      <4>1. Refreshing(d) /\ call'[d] = call[d] /\ Refreshing(e) /\ call'[e] = call[e]
        BY <3>2, <3>4
      <4> QED
        BY <1>1, <4>1 DEF TrackInv
    <3> QED
      BY <3>3, <3>4
  <2> QED
    BY <2>1, <2>2, <2>3, <2>4, <2>5, Zenon DEF TrackInv
<1> QED
  BY <1>9

\* The sequences are, too.
LEMMA BeginSequence ==
  ASSUME TypeOK, TypeOK', OrderInv, NEW c \in Callers, NEW t, NEW n, NEW q,
         Admitted(c, t, n, q)
  PROVE  SequenceInv'
<1>1. TrackInv /\ SequenceInv /\ OvertakeInv
  BY DEF OrderInv
<1>2. ~Refreshing(c) /\ t \in Tenants /\ n \in States /\ q \in Nat /\ Nil \notin States
  BY DEF Admitted
<1>3. later' = [d \in Callers |->
        IF d = c THEN {}
        ELSE IF Refreshing(d) /\ call[d].tenant = t THEN later[d] \cup {c} ELSE later[d]]
  BY DEF Admitted
<1>4. /\ call'[c].pc = "fetch" /\ call'[c].state = n /\ call'[c].seq = q /\ call'[c].tenant = t
      /\ \A d \in Callers : d # c => call'[d] = call[d]
  BY Zenon DEF Admitted
<1>5. \A d \in Callers : /\ Refreshing(d)' <=> (d = c \/ Refreshing(d))
                         /\ d # c => /\ call'[d] = call[d] /\ (Late(d)' <=> Late(d))
                                     /\ fenced'[d] = fenced[d]
  BY Zenon DEF Admitted
<1>6. /\ refreshes'[t] = n /\ \A u \in Tenants : u # t => refreshes'[u] = refreshes[u]
      /\ \A u \in States : u # n => heap'[u] = heap[u]
      /\ ~fenced'[c]
  BY Zenon DEF Admitted
<1>8. /\ heap'[n].running = Cardinality(Readers(n)) + 1
      /\ heap'[n].next = q /\ q >= 1 /\ heap'[n].published < q
      /\ \A d \in Callers : Refreshing(d) /\ call[d].state = n =>
           /\ call[d].tenant = t /\ call[d].seq < q /\ refreshes[t] = n
           /\ heap'[n].published = heap[n].published
           /\ rotated'[d] = rotated[d]
  BY Zenon DEF Admitted
<1>10. SequenceInv'
  <2>1. \A u \in States : heap'[u].published <= heap'[u].next
    <3>1. heap'[n].published <= heap'[n].next
      <4>1. heap'[n].published \in 0..MaxSequence
        BY <1>2 DEF TypeOK, RefreshState
      <4>2. heap'[n].published \in Nat
        BY <4>1, ConfigAssumption
      <4>3. heap'[n].next = q /\ heap'[n].published < q
        BY <1>8, Zenon
      <4>4. heap'[n].published <= q
        BY <1>2, <4>2, <4>3
      <4> QED
        BY <4>3, <4>4, Zenon
    <3>2. ASSUME NEW u \in States, u # n PROVE heap'[u].published <= heap'[u].next
      <4>1. heap[u].published <= heap[u].next
        BY <1>1, Zenon DEF SequenceInv
      <4> QED
        BY <1>6, <3>2, <4>1, Zenon
    <3> QED
      BY <3>1, <3>2
  <2>2. \A d \in Callers :
          Refreshing(d)' => call'[d].seq >= 1 /\ call'[d].seq <= heap'[call'[d].state].next
    <3>1. ASSUME NEW d \in Callers, d # c, Refreshing(d)
          PROVE  call[d].seq >= 1 /\ call[d].seq <= heap'[call[d].state].next
      <4>1. call[d].seq \in Nat /\ call[d].state \in States /\ call[d].seq >= 1
            /\ call[d].seq <= heap[call[d].state].next
        BY <1>1, <3>1, CallFacts, Zenon DEF TrackInv, SequenceInv
      <4>2. CASE call[d].state = n
        <5>1. call[d].seq < q /\ heap'[n].next = q
          BY <1>8, <3>1, <4>2
        <5> QED
          BY <1>2, <4>1, <4>2, <5>1
      <4>3. CASE call[d].state # n
        BY <1>6, <4>1, <4>3
      <4> QED
        BY <4>2, <4>3
    <3> SUFFICES ASSUME NEW d \in Callers, Refreshing(d)'
                 PROVE  call'[d].seq >= 1 /\ call'[d].seq <= heap'[call'[d].state].next
      OBVIOUS
    <3>2. CASE d = c
      BY <1>2, <1>4, <1>8, <3>2
    <3>3. CASE d # c
      <4>1. Refreshing(d) /\ call'[d] = call[d]
        BY <1>5, <3>3
      <4> QED
        BY <3>1, <3>3, <4>1
    <3> QED
      BY <3>2, <3>3, Zenon
  <2>3. \A d, e \in Callers :
          e \in later'[d] => Refreshing(d)' /\ Refreshing(e)' /\ call'[d].tenant = call'[e].tenant
    <3>1. \A d, e \in Callers :
            e \in later'[d] => d # c /\ (e \in later[d] \/ (e = c /\ Refreshing(d) /\ call[d].tenant = t))
      <4> SUFFICES ASSUME NEW d \in Callers, NEW e \in Callers, e \in later'[d]
                   PROVE  d # c /\ (e \in later[d] \/ (e = c /\ Refreshing(d) /\ call[d].tenant = t))
        OBVIOUS
      <4>1. later'[d] = IF d = c THEN {}
                        ELSE IF Refreshing(d) /\ call[d].tenant = t THEN later[d] \cup {c} ELSE later[d]
        BY <1>3
      <4> QED
        BY <4>1
    <3>2. \A d, e \in Callers : e \in later[d] => e # c /\ Refreshing(d) /\ Refreshing(e)
                                                  /\ call[d].tenant = call[e].tenant
      <4> SUFFICES ASSUME NEW d \in Callers, NEW e \in Callers, e \in later[d]
                   PROVE  e # c /\ Refreshing(d) /\ Refreshing(e) /\ call[d].tenant = call[e].tenant
        OBVIOUS
      <4>1. Refreshing(d) /\ Refreshing(e) /\ call[d].tenant = call[e].tenant
        BY <1>1 DEF SequenceInv
      <4> QED
        BY <1>2, <4>1
    <3> SUFFICES ASSUME NEW d \in Callers, NEW e \in Callers, e \in later'[d]
                 PROVE  Refreshing(d)' /\ Refreshing(e)' /\ call'[d].tenant = call'[e].tenant
      OBVIOUS
    <3>3. d # c /\ Refreshing(d) /\ Refreshing(d)' /\ call'[d] = call[d]
      BY <1>5, <3>1, <3>2
    <3>4. CASE e = c
      <4>1. call[d].tenant = t
        BY <3>1, <3>2, <3>4
      <4>2. Refreshing(e)'
        BY <1>5, <3>4
      <4> QED
        BY <1>4, <3>3, <3>4, <4>1, <4>2
    <3>5. CASE e # c
      <4>1. Refreshing(e) /\ call[d].tenant = call[e].tenant
        BY <3>1, <3>2, <3>5
      <4> QED
        BY <1>5, <3>3, <3>5, <4>1
    <3> QED
      BY <3>4, <3>5
  <2>4. ASSUME NEW d \in Callers, NEW e \in Callers, d # e,
               Refreshing(d)', Refreshing(e)', call'[d].state = call'[e].state
        PROVE  /\ e \in later'[d] <=> call'[e].seq > call'[d].seq
               /\ call'[d].seq # call'[e].seq
    <3>0. /\ c \notin later[d] /\ call[d].seq \in Nat /\ call[e].seq \in Nat
      <4>1. c \notin later[d]
        BY <1>1, <1>2 DEF SequenceInv
      <4>2. call[d].seq \in Nat /\ call[e].seq \in Nat
        BY CallFacts
      <4> QED
        BY <4>1, <4>2
    <3>1. CASE d = c
      <4>1. later'[d] = {} /\ call[e].seq < q /\ call'[e] = call[e]
        BY <1>3, <1>4, <1>5, <1>8, <2>4, <3>1, Zenon
      <4> QED
        BY <1>2, <1>4, <3>0, <3>1, <4>1
    <3>2. CASE e = c
      <4>1. call[d].tenant = t /\ call[d].seq < q /\ call'[d] = call[d] /\ Refreshing(d)
        BY <1>4, <1>5, <1>8, <2>4, <3>2, Zenon
      <4>2. c \in later'[d]
        BY <1>3, <2>4, <3>2, <4>1
      <4> QED
        BY <1>4, <3>0, <3>2, <4>1, <4>2
    <3>3. CASE d # c /\ e # c
      <4>1. e \in later'[d] <=> e \in later[d]
        BY <1>3, <3>3
      <4>2. /\ call'[d] = call[d] /\ call'[e] = call[e] /\ Refreshing(d) /\ Refreshing(e)
            /\ call[d].state = call[e].state
        BY <1>5, <2>4, <3>3
      <4>3. /\ e \in later[d] <=> call[e].seq > call[d].seq
            /\ call[d].seq # call[e].seq
        BY <1>1, <2>4, <4>2 DEF SequenceInv
      <4> QED
        BY <4>1, <4>2, <4>3
    <3> QED
      BY <3>1, <3>2, <3>3
  <2> QED
    BY <2>1, <2>2, <2>3, <2>4, Zenon DEF SequenceInv
<1> QED
  BY <1>10

\* And what overtook a call still did; a rotation is recorded.
LEMMA BeginOvertake ==
  ASSUME TypeOK, TypeOK', OrderInv, NEW c \in Callers, NEW t, NEW n, NEW q,
         Admitted(c, t, n, q)
  PROVE  OvertakeInv'
<1>1. TrackInv /\ SequenceInv /\ OvertakeInv
  BY DEF OrderInv
<1>2. ~Refreshing(c) /\ t \in Tenants /\ n \in States /\ q \in Nat /\ Nil \notin States
  BY DEF Admitted
<1>4. /\ call'[c].pc = "fetch" /\ call'[c].state = n /\ call'[c].seq = q /\ call'[c].tenant = t
      /\ \A d \in Callers : d # c => call'[d] = call[d]
  BY Zenon DEF Admitted
<1>5. \A d \in Callers : /\ Refreshing(d)' <=> (d = c \/ Refreshing(d))
                         /\ d # c => /\ call'[d] = call[d] /\ (Late(d)' <=> Late(d))
                                     /\ fenced'[d] = fenced[d]
  BY Zenon DEF Admitted
<1>6. /\ refreshes'[t] = n /\ \A u \in Tenants : u # t => refreshes'[u] = refreshes[u]
      /\ \A u \in States : u # n => heap'[u] = heap[u]
      /\ ~fenced'[c]
  BY Zenon DEF Admitted
<1>7. \A d \in Callers : d # c /\ Refreshing(d) =>
        /\ rotated[d] => rotated'[d]
        /\ call[d].state = refreshes[t] /\ refreshes[t] # n => rotated'[d]
  BY Zenon DEF Admitted
<1>8. /\ heap'[n].running = Cardinality(Readers(n)) + 1
      /\ heap'[n].next = q /\ q >= 1 /\ heap'[n].published < q
      /\ \A d \in Callers : Refreshing(d) /\ call[d].state = n =>
           /\ call[d].tenant = t /\ call[d].seq < q /\ refreshes[t] = n
           /\ heap'[n].published = heap[n].published
           /\ rotated'[d] = rotated[d]
  BY Zenon DEF Admitted
<1>11. OvertakeInv'
  <2> SUFFICES ASSUME NEW d \in Callers, Refreshing(d)'
               PROVE  /\ fenced'[d] => ~Mine(d)' \/ heap'[call'[d].state].published >= call'[d].seq
                      /\ ~Late(d)' /\ ~fenced'[d] /\ ~rotated'[d]
                           => Mine(d)' /\ heap'[call'[d].state].published < call'[d].seq
    BY DEF OvertakeInv
  <2>2. CASE d = c
    BY <1>4, <1>6, <1>8, <2>2, Zenon DEF Mine
  <2>3. CASE d # c
    <3>1. /\ Refreshing(d) /\ call'[d] = call[d] /\ (Late(d)' <=> Late(d)) /\ fenced'[d] = fenced[d]
          /\ call[d].tenant \in Tenants /\ call[d].state \in States
      BY <1>1, <1>5, <2>3, CallFacts, Zenon DEF TrackInv
    <3>2. /\ fenced[d] => ~Mine(d) \/ heap[call[d].state].published >= call[d].seq
          /\ ~Late(d) /\ ~fenced[d] /\ ~rotated[d]
               => Mine(d) /\ heap[call[d].state].published < call[d].seq
      BY <1>1, <3>1, Zenon DEF OvertakeInv
    <3>3. heap'[call[d].state].published = heap[call[d].state].published
      BY <1>6, <1>8, <3>1, Zenon
    <3>4. CASE call[d].tenant # t \/ call[d].state = n
      <4>1. Mine(d)' <=> Mine(d)
        BY <1>6, <1>8, <3>1, <3>4, Zenon DEF Mine
      <4> QED
        BY <1>7, <2>3, <3>1, <3>2, <3>3, <4>1, Zenon
    <3>5. CASE call[d].tenant = t /\ call[d].state # n
      <4>1. ~Mine(d)'
        BY <1>6, <3>1, <3>5, Zenon DEF Mine
      <4>2. Mine(d) => rotated'[d]
        BY <1>7, <2>3, <3>1, <3>5, Zenon DEF Mine
      <4> QED
        BY <1>7, <2>3, <3>1, <3>2, <4>1, <4>2
    <3> QED
      BY <3>4, <3>5, Zenon
  <2> QED
    BY <2>2, <2>3
<1> QED
  BY <1>11

\* A refresh is admitted: its sequence is beyond all that its state has given out, or
\* the state is one that nobody holds.
LEMMA BeginOrder ==
  ASSUME TypeOK, TypeOK', OrderInv, NEW c \in Callers, ~Refreshing(c), NEW r \in Call,
         beginRefresh(c, r)
  PROVE  OrderInv'
<1>1. PICK n, q : Admitted(c, r.tenant, n, q)
  BY BeginEffect
<1> QED
  BY <1>1, BeginTrack, BeginSequence, BeginOvertake, Zenon DEF OrderInv

\* Nobody refreshes at first.
LEMMA OrderInit == Init => OrderInv
<1> SUFFICES ASSUME Init PROVE OrderInv
  OBVIOUS
<1>1. \A c \in Callers : ~Refreshing(c) /\ later[c] = {}
  BY DEF Init, Blank, Refreshing
<1>2. \A s \in States : Readers(s) = {} /\ heap[s] = NewState
  BY <1>1 DEF Init, Readers
<1>3. \A t \in Tenants : refreshes[t] = Nil
  BY DEF Init
<1>4. TrackInv
  <2>1. \A s \in States : heap[s].running = Cardinality(Readers(s))
    <3>1. Cardinality({}) = 0
      BY FS_EmptySet
    <3> QED
      BY <1>2, <3>1 DEF NewState
  <2> QED
    BY <1>1, <1>3, <2>1 DEF TrackInv
<1>5. SequenceInv
  BY <1>1, <1>2 DEF SequenceInv, NewState
<1> QED
  BY <1>1, <1>4, <1>5 DEF OrderInv, OvertakeInv

\* A caller between two calls, and one that waits for admission, is not refreshing.
LEMMA NotRefreshing ==
  ASSUME NEW c \in Callers, call[c].pc \notin InRefresh
  PROVE  ~Refreshing(c)
BY DEF InRefresh, Refreshing

\* A blank call is a call.
LEMMA BlankCall ==
  ASSUME TypeOK, NEW t \in Tenants
  PROVE  Blank(t, floor[t]) \in Call
<1>1. floor[t] \in Nat
  BY DEF TypeOK
<1> QED
  BY <1>1, BlankType

\* Every step keeps the order.
LEMMA OrderStep ==
  ASSUME TypeOK, TypeOK', OrderInv, [Next]_vars
  PROVE  OrderInv'
<1>0. \A c \in Callers : call[c] \in Call /\ call \in [Callers -> Call]
  BY DEF TypeOK
<1>1. ASSUME NEW c \in Callers, Refresh(c) PROVE OrderInv'
  <2>1. PICK t \in Tenants : beginRefresh(c, Blank(t, floor[t]))
    BY <1>1 DEF Refresh
  <2>2. ~Refreshing(c)
    BY <1>1 DEF Refresh, Free, Refreshing
  <2>3. Blank(t, floor[t]) \in Call
    BY BlankCall
  <2> QED
    BY <2>1, <2>2, <2>3, BeginOrder
<1>2. ASSUME NEW c \in Callers, SnapshotNow(c) PROVE OrderInv'
  <2>1. PICK t \in Tenants :
          call' = [call EXCEPT ![c] = [Blank(t, floor[t]) EXCEPT !.pc = "read", !.now = clock]]
    BY <1>2, Zenon DEF SnapshotNow
  <2> DEFINE q == [Blank(t, floor[t]) EXCEPT !.pc = "read", !.now = clock]
  <2>2. call' = [call EXCEPT ![c] = q] /\ q.pc \notin InRefresh /\ ~Refreshing(c)
    BY <1>2, <2>1, Zenon DEF SnapshotNow, Free, Refreshing, Blank, InRefresh
  <2> HIDE DEF q
  <2>3. SameReaders
    BY <2>2, OneCall, Zenon
  <2> QED
    BY <1>2, <2>3, NoDrops, QuietStep DEF SnapshotNow, history
<1>3. ASSUME NEW c \in Callers, SnapshotRead(c) PROVE OrderInv'
  <2>1. PICK q : call' = [call EXCEPT ![c] = q] /\ q.pc \notin InRefresh
    <3> DEFINE e == entries[call[c].tenant]
               p == IF e = Absent THEN Blank(call[c].tenant, 0)
                    ELSE [Blank(call[c].tenant, call[c].floor)
                            EXCEPT !.pc = "returned", !.result = e]
               w == [call[c] EXCEPT !.pc = "admit", !.entry = e]
    <3>1. call' = [call EXCEPT ![c] = p] \/ call' = [call EXCEPT ![c] = w]
      BY <1>3 DEF SnapshotRead, Return
    <3>2. p.pc \notin InRefresh
      BY DEF Blank, InRefresh
    <3>3. w.pc \notin InRefresh
      BY <1>0 DEF Call, InRefresh
    <3> HIDE DEF p, w
    <3> QED
      BY <3>1, <3>2, <3>3
  <2>2. ~Refreshing(c)
    BY <1>3 DEF SnapshotRead, Refreshing
  <2>3. SameReaders
    BY <2>1, <2>2, OneCall, Zenon
  <2> QED
    BY <1>3, <2>3, NoDrops, QuietStep DEF SnapshotRead, history
<1>4. ASSUME NEW c \in Callers, SnapshotRefresh(c) PROVE OrderInv'
  <2>1. ~Refreshing(c) /\ beginRefresh(c, call[c])
    BY <1>4 DEF SnapshotRefresh, Refreshing
  <2> QED
    BY <1>0, <2>1, BeginOrder
<1>5. ASSUME NEW c \in Callers, Fetch(c) \/ FetchError(c) \/ Stamp(c) \/ (Publish(c) /\ ~MayPublish(c))
      PROVE  OrderInv'
  <2>1. PICK q : /\ call' = [call EXCEPT ![c] = q] /\ q.pc \in InRefresh
                 /\ q.tenant = call[c].tenant /\ q.state = call[c].state /\ q.seq = call[c].seq
    <3> DEFINE r == call[c]
               q1 == [r EXCEPT !.pc = "stamp", !.got = [version |-> version[r.tenant], fetched |-> 0]]
               q2 == [r EXCEPT !.pc = "end"]
               q3 == [r EXCEPT !.pc = "publish", !.got.fetched = clock]
               Same(q) == /\ q.pc \in InRefresh
                          /\ q.tenant = r.tenant /\ q.state = r.state /\ q.seq = r.seq
    <3>1. \/ call' = [call EXCEPT ![c] = q1] \/ call' = [call EXCEPT ![c] = q2]
          \/ call' = [call EXCEPT ![c] = q3]
      BY <1>0, <1>5 DEF Fetch, FetchError, Stamp, Publish
    <3>2. Same(q1) /\ Same(q2) /\ Same(q3)
      BY <1>0 DEF Call, InRefresh
    <3> HIDE DEF q1, q2, q3
    <3> QED
      BY <3>1, <3>2
  <2>2. Refreshing(c) /\ ~Late(c)
    BY <1>5 DEF Fetch, FetchError, Stamp, Publish, Refreshing, Late
  <2>3. SameReaders
    BY <2>1, <2>2, OneCall, Zenon
  <2>4. UNCHANGED <<refreshes, fenced, heap, rotated, later>>
    BY <1>5 DEF Fetch, FetchError, Stamp, Publish, history
  <2> QED
    BY <2>3, <2>4, NoDrops, QuietStep
<1>6. ASSUME NEW c \in Callers, Mutate(c) PROVE OrderInv'
  <2>1. PICK t \in Tenants :
          call' = [call EXCEPT ![c] =
            [Blank(t, floor[t]) EXCEPT !.pc = "invalidate",
                                       !.got = [version |-> version[t] + 1, fetched |-> 0]]]
    BY <1>6, Zenon DEF Mutate
  <2> DEFINE q == [Blank(t, floor[t]) EXCEPT !.pc = "invalidate",
                                             !.got = [version |-> version[t] + 1, fetched |-> 0]]
  <2>2. call' = [call EXCEPT ![c] = q] /\ q.pc \notin InRefresh /\ ~Refreshing(c)
    BY <1>6, <2>1, Zenon DEF Mutate, Free, Refreshing, Blank, InRefresh
  <2> HIDE DEF q
  <2>3. SameReaders
    BY <2>2, OneCall, Zenon
  <2> QED
    BY <1>6, <2>3, NoDrops, QuietStep DEF Mutate, history
<1>7. ASSUME NEW c \in Callers, invalidateOnSuccess(c) PROVE OrderInv'
  <2> DEFINE q == Blank(call[c].tenant, 0)
  <2>1. call' = [call EXCEPT ![c] = q] /\ q.pc \notin InRefresh /\ ~Refreshing(c)
    BY <1>7 DEF invalidateOnSuccess, Return, Refreshing, Blank, InRefresh
  <2> HIDE DEF q
  <2>2. SameReaders
    BY <2>1, OneCall, Zenon
  <2>3. Drops
    BY <1>7, CallFacts, Zenon DEF invalidateOnSuccess, DropRefreshes, Drops, TypeOK
  <2> QED
    BY <1>7, <2>2, <2>3, QuietStep DEF invalidateOnSuccess
<1>8. ASSUME Close PROVE OrderInv'
  <2>1. SameReaders
    BY <1>8 DEF Close, SameReaders, Refreshing, Late
  <2>2. Drops
    BY <1>8, CallFacts, Zenon DEF Close, Drops
  <2> QED
    BY <1>8, <2>1, <2>2, QuietStep DEF Close
<1>9. ASSUME UNCHANGED <<refreshes, heap, call, fenced, rotated, later>> PROVE OrderInv'
  <2>1. SameReaders
    BY <1>9 DEF SameReaders, Refreshing, Late
  <2> QED
    BY <1>9, <2>1, NoDrops, QuietStep
<1>10. ASSUME NEW c \in Callers, Publish(c) PROVE OrderInv'
  BY <1>5, <1>10, PublishOrder
<1>11. ASSUME NEW c \in Callers, EndRefresh(c) PROVE OrderInv'
  BY <1>11, EndOrder
<1> QED
  BY <1>1, <1>2, <1>3, <1>4, <1>5, <1>6, <1>7, <1>8, <1>9, <1>10, <1>11
     DEF Next, vars, SilentCommit, ClockStep, history


\* Every reachable state of the cache keeps the order.
THEOREM OrderInvariant == Spec => []OrderInv
<1>1. Init => OrderInv
  BY OrderInit
<1>2. TypeOK /\ TypeOK' /\ OrderInv /\ [Next]_vars => OrderInv'
  BY OrderStep
<1> QED
  BY <1>1, <1>2, TypeCorrect, PTL DEF Spec

\* The states of the refresh map count exactly the refreshes that run (beginRefresh
\* and endRefresh), for every number of callers, tenants and states: the map never
\* holds a state that nobody will take out of it.
THEOREM TrackingCorrect == Spec => []TrackingExact
<1>1. TypeOK /\ OrderInv => TrackingExact
  <2> SUFFICES ASSUME TypeOK, OrderInv, NEW t \in Tenants, refreshes[t] # Nil
               PROVE  /\ Readers(refreshes[t]) # {}
                      /\ heap[refreshes[t]].running = Cardinality(Readers(refreshes[t]))
                      /\ \A c \in Readers(refreshes[t]) : call[c].tenant = t
    BY DEF TrackingExact
  <2>1. refreshes[t] \in States
    BY DEF TypeOK
  <2> QED
    BY <2>1 DEF OrderInv, TrackInv, Readers
<1> QED
  BY <1>1, OrderInvariant, TypeCorrect, PTL

\* A step that takes a caller from publication to the end of its refresh is its
\* critical section in Refresh.
LEMMA OnlyPublish ==
  ASSUME TypeOK, Next, NEW c \in Callers, call[c].pc = "publish", call'[c].pc = "end"
  PROVE  Publish(c)
<1>0. call \in [Callers -> Call]
  BY DEF TypeOK
<1>1. ASSUME NEW d \in Callers, NEW q, call' = [call EXCEPT ![d] = q] PROVE d = c
  BY <1>0, <1>1
<1>2. ASSUME NEW d \in Callers, Refresh(d) \/ SnapshotNow(d) \/ SnapshotRead(d) \/ SnapshotRefresh(d)
                                \/ Fetch(d) \/ FetchError(d) \/ Stamp(d) \/ EndRefresh(d)
                                \/ Mutate(d) \/ invalidateOnSuccess(d)
      PROVE  FALSE
  <2>1. call[d].pc # "publish"
    BY <1>2, Zenon DEF Refresh, SnapshotNow, SnapshotRead, SnapshotRefresh, Fetch, FetchError, Stamp,
                EndRefresh, Mutate, invalidateOnSuccess, Free
  <2>2. \E q : call' = [call EXCEPT ![d] = q]
    BY <1>2, Zenon DEF Refresh, SnapshotNow, SnapshotRead, SnapshotRefresh, Fetch, FetchError, Stamp,
                EndRefresh, Mutate, invalidateOnSuccess, beginRefresh, Return
  <2> QED
    BY <1>1, <2>1, <2>2
<1>3. ASSUME NEW d \in Callers, Publish(d) PROVE Publish(c)
  <2>1. \E q : call' = [call EXCEPT ![d] = q]
    BY <1>3, Zenon DEF Publish
  <2> QED
    BY <1>1, <1>3, <2>1
<1>4. call' # call
  OBVIOUS
<1> QED
  BY <1>2, <1>3, <1>4, Zenon DEF Next, SilentCommit, Close, ClockStep

\* A refresh that a newer publication, an invalidation or Close overtook never stores
\* its snapshot, for every number of callers and every width of the sequences.
THEOREM PublicationCorrect == Spec => PublicationOrder
<1>1. TypeOK /\ OrderInv /\ [Next]_vars
        => [\A c \in Callers : Stores(c) => ~fenced[c]]_vars
  <2> SUFFICES ASSUME TypeOK, OrderInv, Next, NEW c \in Callers, Stores(c)
               PROVE  ~fenced[c]
    OBVIOUS
  <2>1. Publish(c)
    BY OnlyPublish DEF Stores
  <2>2. MayPublish(c)
    BY <2>1 DEF Publish, Stores
  <2>3. Refreshing(c) /\ call[c].state \in States /\ call[c].seq \in Nat
        /\ heap[call[c].state].published \in Nat
    BY CallFacts DEF OrderInv, TrackInv, Stores, Refreshing
  <2>4. fenced[c] => ~Mine(c) \/ heap[call[c].state].published >= call[c].seq
    BY <2>3, Zenon DEF OrderInv, OvertakeInv
  <2>5. Mine(c) /\ call[c].seq > heap[call[c].state].published
    BY <2>2 DEF MayPublish, Mine
  <2> QED
    BY <2>3, <2>4, <2>5
<1> QED
  BY <1>1, OrderInvariant, TypeCorrect, PTL DEF Spec, PublicationOrder

\* A successful fetch that nothing overtook, and whose state was not rotated out, is
\* stored, however many later refreshes failed.
THEOREM EarlierFetchCorrect == Spec => EarlierFetchSurvives
<1>1. TypeOK /\ OrderInv /\ [Next]_vars
        => [\A c \in Callers :
              call[c].pc = "publish" /\ call'[c].pc = "end" /\ ~fenced[c] /\ ~rotated[c]
                => Stores(c)]_vars
  <2> SUFFICES ASSUME TypeOK, OrderInv, Next, NEW c \in Callers, call[c].pc = "publish",
                      call'[c].pc = "end", ~fenced[c], ~rotated[c]
               PROVE  Stores(c)
    OBVIOUS
  <2>1. Publish(c)
    BY OnlyPublish
  <2>2. Refreshing(c) /\ ~Late(c) /\ call[c].state \in States /\ call[c].seq \in Nat
        /\ heap[call[c].state] \in RefreshState /\ heap[call[c].state].published \in Nat
    BY CallFacts DEF OrderInv, TrackInv, Refreshing, Late
  <2>3. MayPublish(c) /\ heap[call[c].state].published < call[c].seq
    BY <2>2, Zenon DEF OrderInv, OvertakeInv, MayPublish, Mine
  <2>4. heap'[call[c].state].published = call[c].seq
    BY <2>1, <2>2, <2>3 DEF Publish, TypeOK, RefreshState
  <2>5. heap'[call[c].state].published # heap[call[c].state].published
    BY <2>2, <2>3, <2>4
  <2> QED
    BY <2>5 DEF Stores
<1> QED
  BY <1>1, OrderInvariant, TypeCorrect, PTL DEF Spec, EarlierFetchSurvives

-----------------------------------------------------------------------------
\* evictOldestLocked gives up an entry of the cache, and only that one.
LEMMA Evicts ==
  ASSUME TypeOK, Cached # {}
  PROVE  \E t \in Cached : evictOldest = [entries EXCEPT ![t] = Absent]
<1> DEFINE oldest == {t \in Cached : \A u \in Cached : entries[t].fetched <= entries[u].fetched}
           times == {entries[t].fetched : t \in Cached}
<1>1. times \in SUBSET Nat /\ times # {}
  <2>1. \A t \in Cached : entries[t] \in Entry
    BY DEF TypeOK, Cached
  <2>2. \A t \in Cached : entries[t].fetched \in Nat
    BY <2>1 DEF Entry
  <2> QED
    BY <2>2
<1>2. PICK m \in times : \A n \in times : m <= n
  BY <1>1, Smallest, Zenon
<1>3. oldest # {}
  BY <1>2
<1>4. oldest \in SUBSET Nat
  BY ConfigAssumption, Zenon DEF Cached
<1> DEFINE victim == CHOOSE t \in oldest : \A u \in oldest : t <= u
<1>5. victim \in oldest
  <2> HIDE DEF oldest
  <2>1. \E t \in oldest : \A u \in oldest : t <= u
    BY <1>3, <1>4, Smallest
  <2> QED
    BY <2>1
<1>6. evictOldest = [entries EXCEPT ![victim] = Absent]
  BY DEF evictOldest
<1> HIDE DEF victim
<1> QED
  BY <1>5, <1>6, Zenon

\* The entries are finitely many, and no more than the limit.
RetentionInv == IsFiniteSet(Cached) /\ RetentionBound

\* Forgetting entries keeps the limit.
LEMMA Forget ==
  ASSUME RetentionInv, Cached' \subseteq Cached
  PROVE  RetentionInv'
<1>1. /\ IsFiniteSet(Cached') /\ Cardinality(Cached') <= Cardinality(Cached)
      /\ Cardinality(Cached') \in Nat /\ Cardinality(Cached) \in Nat
  BY FS_Subset, FS_CardinalityType DEF RetentionInv
<1> QED
  BY <1>1, ConfigAssumption DEF RetentionInv, RetentionBound

\* A publication makes room before it adds an entry.
LEMMA PublishKeepsBound ==
  ASSUME TypeOK, RetentionInv, NEW c \in Callers, Publish(c)
  PROVE  RetentionInv'
<1> DEFINE t == call[c].tenant
<1>0. /\ t \in Tenants /\ IsFiniteSet(Cached) /\ Cardinality(Cached) \in Nat
      /\ Cardinality(Cached) <= MaxTenants /\ MaxTenants \in Nat /\ MaxTenants > 0
      /\ entries \in [Tenants -> Entry]
  BY CallFacts, ConfigAssumption, FS_CardinalityType DEF RetentionInv, RetentionBound, TypeOK
<1> HIDE DEF t
<1>1. ASSUME NEW S, IsFiniteSet(S), Cached' \subseteq S \cup {t},
             (t \in S /\ Cardinality(S) <= MaxTenants) \/ Cardinality(S) < MaxTenants
      PROVE  RetentionInv'
  <2>1. /\ IsFiniteSet(S \cup {t}) /\ Cardinality(S) \in Nat
        /\ Cardinality(S \cup {t}) = IF t \in S THEN Cardinality(S) ELSE Cardinality(S) + 1
    BY <1>1, FS_AddElement, FS_CardinalityType
  <2>2. /\ IsFiniteSet(Cached') /\ Cardinality(Cached') <= Cardinality(S \cup {t})
        /\ Cardinality(Cached') \in Nat
    BY <1>1, <2>1, FS_Subset, FS_CardinalityType
  <2> QED
    BY <1>0, <1>1, <2>1, <2>2 DEF RetentionInv, RetentionBound
<1>2. CASE ~MayPublish(c)
  <2>1. Cached' = Cached
    BY <1>2 DEF Publish, Cached
  <2> QED
    BY <2>1, Forget
<1>3. CASE MayPublish(c) /\ ~(t \notin Cached /\ Cardinality(Cached) >= MaxTenants)
  <2>1. entries' = [entries EXCEPT ![t] = call[c].got]
    BY <1>3 DEF Publish, MakeRoom, t
  <2>2. Cached' \subseteq Cached \cup {t}
    BY <1>0, <2>1 DEF Cached
  <2> QED
    BY <1>0, <1>1, <1>3, <2>2
<1>4. CASE MayPublish(c) /\ t \notin Cached /\ Cardinality(Cached) >= MaxTenants
  <2>1. Cached # {}
    BY <1>0, <1>4, FS_EmptySet
  <2>2. PICK v \in Cached : evictOldest = [entries EXCEPT ![v] = Absent]
    BY <2>1, Evicts
  <2>3. entries' = [[entries EXCEPT ![v] = Absent] EXCEPT ![t] = call[c].got]
    BY <1>4, <2>2 DEF Publish, MakeRoom, t
  <2>4. Cached' \subseteq (Cached \ {v}) \cup {t}
    BY <1>0, <2>3 DEF Cached
  <2>5. IsFiniteSet(Cached \ {v}) /\ Cardinality(Cached \ {v}) = Cardinality(Cached) - 1
    BY <1>0, FS_RemoveElement
  <2>6. Cardinality(Cached \ {v}) < MaxTenants
    BY <1>0, <2>5
  <2> QED
    BY <1>1, <2>4, <2>5, <2>6
<1> QED
  BY <1>2, <1>3, <1>4

\* The cache never retains more than MaxTenants snapshots (evictOldestLocked), for
\* every limit and every set of tenants, infinite ones included.
THEOREM RetentionCorrect == Spec => []RetentionBound
<1>1. Init => RetentionInv
  <2> SUFFICES ASSUME Init PROVE RetentionInv
    OBVIOUS
  <2>1. Cached = {}
    BY DEF Init, Cached
  <2>2. IsFiniteSet({}) /\ Cardinality({}) = 0
    BY FS_EmptySet
  <2> QED
    BY <2>1, <2>2, ConfigAssumption DEF RetentionInv, RetentionBound
<1>2. TypeOK /\ RetentionInv /\ [Next]_vars => RetentionInv'
  <2> SUFFICES ASSUME TypeOK, RetentionInv, [Next]_vars PROVE RetentionInv'
    OBVIOUS
  <2>1. ASSUME NEW c \in Callers, Publish(c) PROVE RetentionInv'
    BY <2>1, PublishKeepsBound
  <2>2. ASSUME entries' = entries PROVE RetentionInv'
    BY <2>2, Forget DEF Cached
  <2>3. ASSUME NEW t, entries' = [entries EXCEPT ![t] = Absent] PROVE RetentionInv'
    <3>1. Cached' \subseteq Cached
      BY <2>3 DEF Cached, TypeOK
    <3> QED
      BY <3>1, Forget
  <2>4. ASSUME Close PROVE RetentionInv'
    <3>1. Cached' \subseteq Cached
      BY <2>4 DEF Close, Cached
    <3> QED
      BY <3>1, Forget
  <2>5. \/ \E c \in Callers : Publish(c)
        \/ entries' = entries
        \/ \E t : entries' = [entries EXCEPT ![t] = Absent]
        \/ Close
    BY Zenon DEF Next, vars, Refresh, SnapshotNow, SnapshotRead, SnapshotRefresh, Fetch, FetchError,
           Stamp, EndRefresh, Mutate, invalidateOnSuccess, SilentCommit, ClockStep, beginRefresh
  <2> QED
    BY <2>1, <2>2, <2>3, <2>4, <2>5
<1>3. RetentionInv => RetentionBound
  BY DEF RetentionInv
<1> QED
  BY <1>1, <1>2, <1>3, TypeCorrect, PTL DEF Spec


=============================================================================
