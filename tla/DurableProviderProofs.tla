------------------------ MODULE DurableProviderProofs ------------------------
(***************************************************************************)
(* Proofs about the durable provider, for any operations, tenants and      *)
(* clients.  What an operation does is never unfolded: the argument is     *)
(* about revisions.  A call that is about to swap either holds the         *)
(* revision that is stored, and then its new state is the result of its    *)
(* operation on the stored state, or an older one, and then it conflicts.  *)
(***************************************************************************)
EXTENDS DurableProvider, TenantStateProofs, TLAPS

\* A step that names no prover is tried with the SMT solver, with Zenon, and with the
\* solver for longer.
USE SMTT(10), Zenon, SMTT(30)

InCall(call) == call.pc \in {"load", "swap"}

\* What holds of a call that has written n times and began at revision b, when
\* the stored rows are d.
CallInv(call, n, b, d) ==
  /\ n \in Nat /\ b \in Nat
  /\ call.pc \in {"idle", "read", "load", "swap"} \cup Results
  /\ InCall(call) =>
       /\ call.tenant \in Tenants /\ call.op \in Mutations
       /\ call.attempt \in 0..MaxStorageRetries
       /\ call.revision \in Nat
       /\ n = 0
       /\ b + call.attempt <= d[call.tenant].revision
  /\ call.pc = "swap" =>
       /\ call.revision <= d[call.tenant].revision
       /\ b + call.attempt <= call.revision
       /\ call.revision = d[call.tenant].revision =>
            /\ Admits(d[call.tenant].state, call.op)
            /\ WithinBounds(call.next)
            /\ call.next = Result(d[call.tenant].state, call.op)
  /\ call.pc \in Results \cup {"read"} => call.tenant \in Tenants
  /\ call.pc = "ok" => n = 1
  /\ call.pc \in {"read", "answered"} => n = 0
  /\ call.pc = "error" => n <= 1
  /\ call.pc = "conflict" => n = 0 /\ b + MaxStorageRetries + 1 <= d[call.tenant].revision
  /\ call.pc = "idle" => n = 0

\* The inductive invariant.
Inv ==
  /\ DOMAIN docs = Tenants /\ docs = [t \in Tenants |-> Row(docs[t].revision, docs[t].state)]
  /\ \A t \in Tenants : docs[t].revision \in Nat
  /\ DOMAIN client = Clients /\ DOMAIN commits = Clients /\ DOMAIN began = Clients
  /\ client = [c \in Clients |-> client[c]]
  /\ commits = [c \in Clients |-> commits[c]] /\ began = [c \in Clients |-> began[c]]
  /\ \A c \in Clients : CallInv(client[c], commits[c], began[c], docs)

\* A call that is not the one taking the step keeps its invariant when the
\* revisions only grow and a row keeps its state as long as its revision.
LEMMA OtherCalls ==
  ASSUME NEW call, NEW n, NEW b, NEW d, NEW e, CallInv(call, n, b, d),
         \A t \in Tenants :
           /\ d[t].revision \in Nat /\ e[t].revision \in Nat
           /\ d[t].revision <= e[t].revision
           /\ d[t].revision = e[t].revision => e[t] = d[t]
  PROVE  CallInv(call, n, b, e)
  BY RetryAssumption DEF CallInv, InCall, Results

\* The invariant holds initially.
LEMMA InvInit == Init => Inv
  BY RetryAssumption DEF Init, Inv, CallInv, InCall, Results, Idle, Call, Row

\* A step of one client that leaves the rows alone keeps the invariant when its
\* own call does.
LEMMA LocalStep ==
  ASSUME Inv, NEW c \in Clients, NEW call, NEW n, NEW b,
         CallInv(call, n, b, docs),
         client' = [client EXCEPT ![c] = call],
         commits' = [commits EXCEPT ![c] = n],
         began' = [began EXCEPT ![c] = b],
         docs' = docs
  PROVE  Inv'
  BY Zenon DEF Inv

\* Every step keeps the invariant.
LEMMA InvStep == Inv /\ [Next]_vars => Inv'
<1> SUFFICES ASSUME Inv, [Next]_vars PROVE Inv'
  OBVIOUS
<1>1. CASE UNCHANGED vars
  BY <1>1 DEF Inv, vars
<1>2. ASSUME NEW c \in Clients, Begin(c) PROVE Inv'
  <2>1. PICK t \in Tenants, op \in Mutations :
          /\ client' = [client EXCEPT ![c] = Call("load", t, op, 0, 0, Empty)]
          /\ began' = [began EXCEPT ![c] = docs[t].revision]
    BY <1>2, Zenon DEF Begin
  <2>2. CallInv(Call("load", t, op, 0, 0, Empty), 0, docs[t].revision, docs)
    BY RetryAssumption DEF CallInv, InCall, Results, Call, Inv
  <2>3. commits' = [commits EXCEPT ![c] = 0] /\ docs' = docs
    BY <1>2 DEF Begin
  <2> QED
    BY <2>1, <2>2, <2>3, LocalStep, Zenon
<1>3. ASSUME NEW c \in Clients, BeginRead(c) PROVE Inv'
  <2>1. PICK t \in Tenants, op \in (Ops \ Mutations) \cup {None} :
          /\ client' = [client EXCEPT ![c] = Call("read", t, op, 0, 0, Empty)]
          /\ began' = [began EXCEPT ![c] = docs[t].revision]
    BY <1>3, Zenon DEF BeginRead
  <2>2. CallInv(Call("read", t, op, 0, 0, Empty), 0, docs[t].revision, docs)
    BY DEF CallInv, InCall, Results, Call, Inv
  <2>3. commits' = [commits EXCEPT ![c] = 0] /\ docs' = docs
    BY <1>3 DEF BeginRead
  <2> QED
    BY <2>1, <2>2, <2>3, LocalStep, Zenon
<1>4. ASSUME NEW c \in Clients, Mutate(c) PROVE Inv'
  <2> DEFINE row == docs[client[c].tenant]
             next == Result(row.state, client[c].op)
             call == Call("swap", client[c].tenant, client[c].op, client[c].attempt, row.revision, next)
  <2>1. /\ client[c].pc = "load" /\ Admits(row.state, client[c].op) /\ WithinBounds(next)
        /\ client' = [client EXCEPT ![c] = call] /\ docs' = docs
        /\ commits' = commits /\ began' = began
    BY <1>4 DEF Mutate
  <2>2. CallInv(client[c], commits[c], began[c], docs)
    BY DEF Inv
  <2>3. row.revision \in Nat
    BY <2>1, <2>2, Zenon DEF Inv, CallInv, InCall
  <2>4. CallInv(call, commits[c], began[c], docs)
    <3>1. /\ client[c].tenant \in Tenants /\ client[c].op \in Mutations /\ client[c].attempt \in 0..MaxStorageRetries
          /\ commits[c] = 0 /\ began[c] \in Nat
          /\ began[c] + client[c].attempt <= row.revision
      BY <2>1, <2>2 DEF CallInv, InCall
    <3>2. /\ call.pc = "swap" /\ call.tenant = client[c].tenant /\ call.op = client[c].op
          /\ call.attempt = client[c].attempt /\ call.revision = row.revision /\ call.next = next
      BY DEF Call
    <3> HIDE DEF call, next
    <3> QED
      BY <2>1, <2>3, <3>1, <3>2 DEF CallInv, InCall, Results, next
  <2>5. commits' = [commits EXCEPT ![c] = commits[c]] /\ began' = [began EXCEPT ![c] = began[c]]
    BY <2>1, Zenon DEF Inv
  <2> HIDE DEF call
  <2> QED
    BY <2>1, <2>4, <2>5, LocalStep, Zenon
<1>5. ASSUME NEW c \in Clients, Read(c) PROVE Inv'
  <2> DEFINE call == Returned("answered", client[c].tenant)
  <2>1. /\ client[c].pc = "read"
        /\ client' = [client EXCEPT ![c] = call] /\ docs' = docs
        /\ commits' = commits /\ began' = began
    BY <1>5 DEF Read
  <2>2. CallInv(client[c], commits[c], began[c], docs)
    BY DEF Inv
  <2>3. CallInv(call, commits[c], began[c], docs)
    BY <2>1, <2>2 DEF CallInv, InCall, Results, Returned, Idle, Call
  <2>4. commits' = [commits EXCEPT ![c] = commits[c]] /\ began' = [began EXCEPT ![c] = began[c]]
    BY <2>1, Zenon DEF Inv
  <2> HIDE DEF call
  <2> QED
    BY <2>1, <2>3, <2>4, LocalStep, Zenon
<1>6. ASSUME NEW c \in Clients, Refuse(c) \/ Fail(c) PROVE Inv'
  <2> DEFINE call == Returned("error", client[c].tenant)
  <2>1. /\ client[c].pc \in {"load", "read", "swap"}
        /\ client' = [client EXCEPT ![c] = call] /\ docs' = docs
        /\ commits' = commits /\ began' = began
    BY <1>6 DEF Refuse, Fail, Inv
  <2>2. CallInv(client[c], commits[c], began[c], docs)
    BY DEF Inv
  <2>3. CallInv(call, commits[c], began[c], docs)
    BY <2>1, <2>2 DEF CallInv, InCall, Results, Returned, Idle, Call
  <2>4. commits' = [commits EXCEPT ![c] = commits[c]] /\ began' = [began EXCEPT ![c] = began[c]]
    BY <2>1, Zenon DEF Inv
  <2> HIDE DEF call
  <2> QED
    BY <2>1, <2>3, <2>4, LocalStep, Zenon
<1>7. ASSUME NEW c \in Clients, CompareAndSwap(c) \/ LoseReply(c) PROVE Inv'
  <2> DEFINE t == client[c].tenant
  <2>1. PICK r \in {"ok", "error"} : Write(c, Returned(r, t))
    BY <1>7 DEF CompareAndSwap, LoseReply, AfterLostReply
  <2>2. /\ client[c].pc = "swap"
        /\ docs' = [docs EXCEPT ![t] = Row(docs[t].revision + 1, client[c].next)]
        /\ commits' = [commits EXCEPT ![c] = commits[c] + 1]
        /\ client' = [client EXCEPT ![c] = Returned(r, t)]
        /\ began' = began
    BY <2>1 DEF Write
  <2>3. CallInv(client[c], commits[c], began[c], docs)
    BY DEF Inv
  <2>4. t \in Tenants /\ commits[c] = 0 /\ began[c] \in Nat
    BY <2>2, <2>3 DEF CallInv, InCall
  <2>5. \A u \in Tenants :
          /\ docs[u].revision \in Nat /\ docs'[u].revision \in Nat
          /\ docs[u].revision <= docs'[u].revision
          /\ docs[u].revision = docs'[u].revision => docs'[u] = docs[u]
    BY <2>2, <2>4 DEF Inv, Row
  <2>6. CallInv(Returned(r, t), 1, began[c], docs')
    BY <2>4 DEF CallInv, InCall, Results, Returned, Idle, Call
  <2>7. ASSUME NEW d \in Clients PROVE CallInv(client'[d], commits'[d], began'[d], docs')
    <3>1. CASE d = c
      <4>1. client'[c] = Returned(r, t)
        BY <2>2 DEF Inv
      <4>2. commits'[c] = 1 /\ began'[c] = began[c]
        BY <2>2, <2>4 DEF Inv
      <4> QED
        BY <2>6, <3>1, <4>1, <4>2
    <3>2. CASE d # c
      <4>1. CallInv(client[d], commits[d], began[d], docs)
        BY DEF Inv
      <4>2. CallInv(client[d], commits[d], began[d], docs')
        BY <2>5, <4>1, OtherCalls
      <4> QED
        BY <2>2, <3>2, <4>2, Zenon DEF Inv
    <3> QED
      BY <3>1, <3>2
  <2>8. DOMAIN docs' = Tenants /\ docs' = [u \in Tenants |-> Row(docs'[u].revision, docs'[u].state)]
    BY <2>2, <2>4 DEF Inv, Row
  <2> QED
    BY <2>2, <2>5, <2>7, <2>8, Zenon DEF Inv
<1>8. ASSUME NEW c \in Clients, Conflict(c) PROVE Inv'
  <2> DEFINE call == IF MayRetry(client[c].attempt)
                     THEN Call("load", client[c].tenant, client[c].op, client[c].attempt + 1, 0, Empty)
                     ELSE Returned("conflict", client[c].tenant)
  <2>1. /\ client[c].pc = "swap" /\ ~Matches(c)
        /\ client' = [client EXCEPT ![c] = call] /\ docs' = docs
        /\ commits' = commits /\ began' = began
    BY <1>8 DEF Conflict
  <2>2. CallInv(client[c], commits[c], began[c], docs)
    BY DEF Inv
  <2>3. docs[client[c].tenant].revision \in Nat
    BY <2>1, <2>2, Zenon DEF Inv, CallInv, InCall
  <2>4. began[c] + client[c].attempt + 1 <= docs[client[c].tenant].revision
    BY <2>1, <2>2, <2>3, RetryAssumption DEF CallInv, InCall, Matches
  <2>5. CallInv(call, commits[c], began[c], docs)
    BY <2>1, <2>2, <2>3, <2>4, RetryAssumption
    DEF CallInv, InCall, Results, Returned, Idle, Call, MayRetry
  <2>6. commits' = [commits EXCEPT ![c] = commits[c]] /\ began' = [began EXCEPT ![c] = began[c]]
    BY <2>1, Zenon DEF Inv
  <2> HIDE DEF call
  <2> QED
    BY <2>1, <2>5, <2>6, LocalStep, Zenon
<1> QED
  BY <1>1, <1>2, <1>3, <1>4, <1>5, <1>6, <1>7, <1>8 DEF Next, Step

\* Inv is an invariant of the durable provider.
LEMMA Invariance == Spec => []Inv
  BY InvInit, InvStep, PTL DEF Spec

\* TypeOK: in particular a call never makes more than MaxStorageRetries + 1
\* attempts (the loop of durableMutate).
THEOREM TypeCorrect == Spec => []TypeOK
<1>1. Inv => TypeOK
  BY DEF Inv, TypeOK, CallInv, CallOK, InCall, Results
<1> QED
  BY <1>1, Invariance, PTL

\* WritesOnce: the success of a mutation means one write, ErrStorageConflict none, a
\* query or a dry run never writes, and no call writes twice.
THEOREM WritesOnceCorrect == Spec => []WritesOnce
<1>1. Inv => WritesOnce
  BY DEF Inv, WritesOnce, CallInv, InCall, Results
<1> QED
  BY <1>1, Invariance, PTL

\* ConflictsAreProgress: each conflict stands for a write of another client.
THEOREM ConflictsCorrect == Spec => []ConflictsAreProgress
<1>1. Inv => ConflictsAreProgress
  BY DEF Inv, ConflictsAreProgress, CallInv, InCall, Results
<1> QED
  BY <1>1, Invariance, PTL

\* A step of the durable provider is a step of the contract, or changes no
\* stored state.
LEMMA ContractStep == Inv /\ [Next]_vars => [Contract!Next]_[t \in Tenants |-> docs[t].state]
<1> DEFINE states == [t \in Tenants |-> docs[t].state]
<1> SUFFICES ASSUME Inv, [Next]_vars PROVE Contract!Next \/ states' = states
  OBVIOUS
<1>1. ASSUME docs' = docs PROVE states' = states
  BY <1>1
<1>2. ASSUME NEW c \in Clients, CompareAndSwap(c) \/ LoseReply(c) PROVE Contract!Next
  <2>1. client[c].pc = "swap" /\ CallInv(client[c], commits[c], began[c], docs)
    BY <1>2, Zenon DEF CompareAndSwap, LoseReply, Write, Inv
  <2>2. PICK t \in Tenants, op \in Ops : t = client[c].tenant /\ op = client[c].op
    BY <2>1 DEF CallInv, InCall, Mutations
  <2>3. /\ docs[t].revision = client[c].revision
        /\ docs' = [docs EXCEPT ![t] = Row(docs[t].revision + 1, client[c].next)]
    BY <1>2, <2>2 DEF CompareAndSwap, LoseReply, Write, Matches
  <2>4. /\ Admits(docs[t].state, op) /\ WithinBounds(client[c].next)
        /\ client[c].next = Result(docs[t].state, op)
    BY <2>1, <2>2, <2>3 DEF CallInv, InCall
  <2>5. states' = [states EXCEPT ![t] = Result(states[t], op)]
    BY <2>3, <2>4, Zenon DEF Inv, Row
  <2>6. Contract!Commit(t, op)
    BY <2>4, <2>5 DEF Contract!Commit
  <2> QED
    BY <2>6 DEF Contract!Next
<1>3. ASSUME NEW c \in Clients,
             \/ Begin(c) \/ BeginRead(c) \/ Read(c)
             \/ Mutate(c) \/ Refuse(c) \/ Fail(c) \/ Conflict(c)
      PROVE docs' = docs
  BY <1>3 DEF Begin, BeginRead, Read, Mutate, Refuse, Fail, Conflict
<1> QED
  BY <1>1, <1>2, <1>3 DEF Next, Step, vars

\* KeepsContract: the durable provider implements the provider contract, for any
\* clients, tenants, operations and number of retries.
THEOREM ContractKept == Spec => KeepsContract
<1>1. Init => Contract!Init
  BY DEF Init, Contract!Init, Row
<1> QED
  BY <1>1, Invariance, ContractStep, PTL DEF Spec, KeepsContract, Contract!Spec

-----------------------------------------------------------------------------
(* The stored documents.  Because every write is an operation on the stored *)
(* state, what the operations keep holds of every document in storage.      *)

\* Every stored document is well formed: its groups are a forest of bounded
\* depth, its audit trail names the versions stored, and it is within the limits.
DocumentsSound == \A t \in Tenants : StateInv(docs[t].state)

\* A stored feature changes only together with its version, by exactly one.
Tracked(s, s2) ==
  \A k \in Retained(s) : \/ s2.features[k] \in {None, s.features[k]}
                         \/ s2.features[k].version = s.features[k].version + 1

StoredVersionsTrack == [][\A t \in Tenants : Tracked(docs[t].state, docs'[t].state)]_vars

\* A step leaves the stored state of a tenant alone or applies an operation to it.
LEMMA DocumentStep ==
  ASSUME Inv, DocumentsSound, [Next]_vars, NEW u \in Tenants
  PROVE  StateInv(docs'[u].state) /\ Tracked(docs[u].state, docs'[u].state)
<1> DEFINE states == [t \in Tenants |-> docs[t].state]
<1>1. Contract!Next \/ states' = states
  BY ContractStep
<1>2. states[u] = docs[u].state /\ states'[u] = docs'[u].state
  OBVIOUS
<1>3. CASE states' = states
  <2>1. docs'[u].state = docs[u].state
    BY <1>2, <1>3
  <2> QED
    BY <2>1 DEF DocumentsSound, Tracked
<1>4. CASE Contract!Next
  <2>1. PICK t \in Tenants, op \in Ops :
          Admits(states[t], op) /\ states' = [states EXCEPT ![t] = Result(states[t], op)]
    BY <1>4, Zenon DEF Contract!Next, Contract!Commit
  <2>2. StateInv(states[t])
    BY DEF DocumentsSound
  <2> HIDE DEF states
  <2>3. StateInv(Result(states[t], op)) /\ Keeps(states[t], Result(states[t], op))
    BY <2>1, <2>2, OperationStep
  <2>4. states'[u] = IF u = t THEN Result(states[t], op) ELSE states[u]
    BY <2>1, Zenon DEF states
  <2>5. StateInv(states[u])
    BY DEF DocumentsSound, states
  <2> QED
    BY <1>2, <2>3, <2>4, <2>5 DEF Tracked, Keeps
<1> QED
  BY <1>1, <1>3, <1>4

\* Whatever the clients do, lose and retry, storage only ever holds documents
\* that the in-memory provider could hold: groups that form a forest, an audit
\* trail that names the stored versions, limits that are respected.
THEOREM DocumentsCorrect == Spec => []DocumentsSound
<1>1. Init => DocumentsSound
  BY EmptyStep DEF Init, DocumentsSound, Row
<1>2. Inv /\ DocumentsSound /\ [Next]_vars => DocumentsSound'
  BY DocumentStep DEF DocumentsSound
<1> QED
  BY <1>1, <1>2, Invariance, PTL DEF Spec

\* Optimistic concurrency across clients: no interleaving of compare-and-swap
\* retries changes a retained feature without raising its version by one.
THEOREM StoredVersionsCorrect == Spec => StoredVersionsTrack
<1>1. Inv /\ DocumentsSound /\ [Next]_vars
      => [\A t \in Tenants : Tracked(docs[t].state, docs'[t].state)]_vars
  BY DocumentStep
<1> QED
  BY <1>1, DocumentsCorrect, Invariance, PTL DEF Spec, StoredVersionsTrack


=============================================================================
