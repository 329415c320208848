--------------------------- MODULE DurableProvider ---------------------------
(***************************************************************************)
(* The durable provider (durable.go) over an atomic document backend       *)
(* (postgres/backend.go, valkey/backend.go and native.go).  Each client is *)
(* a goroutine of some process; a mutation loads the tenant's document,    *)
(* applies the in-memory operation to it and swaps the result in if the    *)
(* revision is still the one it loaded, retrying a bounded number of times.*)
(* A query or a dry run loads the document and answers from it.            *)
(*                                                                         *)
(* A document is abstracted to the tenant record it encodes.  What load    *)
(* rejects is not: unmarshalTenantState validates the group graph again.   *)
(***************************************************************************)
EXTENDS TenantState

CONSTANTS
  Tenants,
  Clients,
  MaxStorageRetries,   \* Limits.MaxStorageRetries
  MaxRevision          \* bound on the revisions of one document

ASSUME RetryAssumption == MaxStorageRetries \in Nat /\ MaxRevision \in Nat

VARIABLES
  docs,      \* the stored row of each tenant; revision 0 stands for no row
  client,    \* the call each client is executing, or the result of its last one
  commits,   \* history: swaps of the current call that took effect
  began      \* history: the revision stored when the current call began

vars == <<docs, client, commits, began>>

Row(r, s) == [revision |-> r, state |-> s]

Call(pc, t, op, n, r, s) ==
  [pc |-> pc, tenant |-> t, op |-> op, attempt |-> n, revision |-> r, next |-> s]

\* No call in progress; the fields a call no longer needs are reset.
Idle == Call("idle", None, None, 0, 0, Empty)
Returned(result, t) == [Idle EXCEPT !.pc = result, !.tenant = t]
Results == {"ok", "answered", "error", "conflict"}
Free(c) == client[c].pc \in {"idle"} \cup Results

Init ==
  /\ docs = [t \in Tenants |-> Row(0, Empty)]
  /\ client = [c \in Clients |-> Idle]
  /\ commits = [c \in Clients |-> 0]
  /\ began = [c \in Clients |-> 0]

\* An import that only plans.
DryRun(op) == op.kind = "Import" /\ op.dryRun

Mutations == {op \in Ops : ~DryRun(op)}

\* A management call reaches durableMutate.
Begin(c) ==
  /\ Free(c)
  /\ \E t \in Tenants, op \in Mutations :
       /\ client' = [client EXCEPT ![c] = Call("load", t, op, 0, 0, Empty)]
       /\ began' = [began EXCEPT ![c] = docs[t].revision]
  /\ commits' = [commits EXCEPT ![c] = 0]
  /\ UNCHANGED docs

\* Snapshot, Audit, ExportDocument and StagedChanges, which have no operation, and a
\* dry run, which has one.
BeginRead(c) ==
  /\ Free(c)
  /\ \E t \in Tenants, op \in (Ops \ Mutations) \cup {None} :
       /\ client' = [client EXCEPT ![c] = Call("read", t, op, 0, 0, Empty)]
       /\ began' = [began EXCEPT ![c] = docs[t].revision]
  /\ commits' = [commits EXCEPT ![c] = 0]
  /\ UNCHANGED docs

\* The part of unmarshalTenantState that a document written by
\* marshalTenantState under the same limits can fail, the time windows past the year
\* 9999 of Codec apart.
unmarshalTenantState(s) == cloneAndValidateGroups(s)

\* load returns an empty provider for no row, and otherwise what the row decodes to.
Decodes(row) == row.revision = 0 \/ unmarshalTenantState(row.state)

\* The in-memory call on what was loaded is not refused for the state's sake.
Accepts(s, op) == op # None => Admits(s, op)

\* load returns the document, the mutation succeeds on it and the result is encoded.
Mutate(c) ==
  LET call == client[c]
      row == docs[call.tenant]
      next == Result(row.state, call.op)
  IN  /\ call.pc = "load"
      /\ Decodes(row)
      /\ Admits(row.state, call.op)
      /\ WithinBounds(next)
      /\ client' = [client EXCEPT ![c] =
           Call("swap", call.tenant, call.op, call.attempt, row.revision, next)]
      /\ UNCHANGED <<docs, commits, began>>

\* The call is answered from a copy of the document, which is then dropped.
Read(c) ==
  LET call == client[c]
      row == docs[call.tenant]
  IN  /\ call.pc = "read"
      /\ Decodes(row) /\ Accepts(row.state, call.op)
      /\ client' = [client EXCEPT ![c] = Returned("answered", call.tenant)]
      /\ UNCHANGED <<docs, commits, began>>

\* The document does not decode, or the operation refuses what it finds in it.
Refuse(c) ==
  LET call == client[c]
      row == docs[call.tenant]
  IN  /\ call.pc \in {"load", "read"}
      /\ ~Decodes(row) \/ ~Accepts(row.state, call.op)
      /\ client' = [client EXCEPT ![c] = Returned("error", call.tenant)]
      /\ UNCHANGED <<docs, commits, began>>

\* The backend fails without effect, the context ends, the encoded state is larger
\* than MaxStateBytes, or a query finds definitions that make no snapshot.
Fail(c) ==
  /\ client[c].pc \in {"load", "read", "swap"}
  /\ client' = [client EXCEPT ![c] = Returned("error", @.tenant)]
  /\ UNCHANGED <<docs, commits, began>>

AnyRevision(c) == TRUE

\* Both backends compare and write in one statement or script.
Matches(c) == docs[client[c].tenant].revision = client[c].revision

\* The swap takes effect and the call returns as "result".
Write(c, result) ==
  /\ client[c].pc = "swap"
  /\ Matches(c)
  /\ docs[client[c].tenant].revision < MaxRevision
  /\ docs' = [docs EXCEPT ![client[c].tenant] = Row(@.revision + 1, client[c].next)]
  /\ commits' = [commits EXCEPT ![c] = @ + 1]
  /\ client' = [client EXCEPT ![c] = result]
  /\ UNCHANGED began

CompareAndSwap(c) == Write(c, Returned("ok", client[c].tenant))

RetryAll(c) == [client[c] EXCEPT !.pc = "load", !.revision = 0, !.next = Empty]

\* The swap took effect but its answer was lost: any error other than
\* ErrStorageConflict ends the call.
AfterLostReply(c) == Returned("error", client[c].tenant)

LoseReply(c) == Write(c, AfterLostReply(c))

NoBound(n) == TRUE
OneFewer(n) == n + 1 < MaxStorageRetries

\* for attempt := 0; attempt <= MaxStorageRetries
MayRetry(n) == n < MaxStorageRetries

\* ErrStorageConflict: load again, or give up after the last attempt.
Conflict(c) ==
  /\ client[c].pc = "swap"
  /\ ~Matches(c)
  /\ client' = [client EXCEPT ![c] =
       IF MayRetry(@.attempt) THEN Call("load", @.tenant, @.op, @.attempt + 1, 0, Empty)
                              ELSE Returned("conflict", @.tenant)]
  /\ UNCHANGED <<docs, commits, began>>

Step(c) ==
  \/ Mutate(c) \/ Read(c) \/ Refuse(c) \/ Fail(c)
  \/ CompareAndSwap(c) \/ LoseReply(c) \/ Conflict(c)

Next == \E c \in Clients : Begin(c) \/ BeginRead(c) \/ Step(c)

Spec == Init /\ [][Next]_vars

-----------------------------------------------------------------------------
(* Properties                                                               *)

CallOK(call) ==
  \/ call.pc = "idle"
  \/ call.pc \in Results \cup {"read"} /\ call.tenant \in Tenants
  \/ /\ call.pc \in {"load", "swap"}
     /\ call.tenant \in Tenants /\ call.op \in Mutations
     /\ call.attempt \in 0..MaxStorageRetries
     /\ call.revision \in Nat

\* The type invariant: revisions, and attempts within MaxStorageRetries.
TypeOK ==
  /\ \A t \in Tenants : docs[t].revision \in Nat
  /\ \A c \in Clients : CallOK(client[c]) /\ commits[c] \in Nat /\ began[c] \in Nat

Contract == INSTANCE AtomicProvider WITH tenants <- [t \in Tenants |-> docs[t].state]

\* The durable provider keeps the provider contract: whatever clients do at the
\* same time, every change of a stored document is one operation applied
\* atomically to the state that was stored, so no update is lost and none is
\* applied to a state its guards have not seen.
KeepsContract == Contract!Spec

\* A mutation that returns success has written exactly once, one that gives up with
\* ErrStorageConflict has not written at all, and no call writes twice, an answer that
\* got lost included.  Queries and dry runs never write.
WritesOnce ==
  \A c \in Clients :
    /\ commits[c] <= 1
    /\ client[c].pc = "ok" => commits[c] = 1
    /\ client[c].pc \in {"read", "answered", "conflict", "load", "swap"} => commits[c] = 0

\* Retries are not spent in vain: every conflict a running call has met, and
\* every attempt of one that gave up, stands for a revision that another client
\* stored since the call began.
ConflictsAreProgress ==
  \A c \in Clients :
    /\ client[c].pc \in {"load", "swap"} =>
         began[c] + client[c].attempt <= docs[client[c].tenant].revision
    /\ client[c].pc = "conflict" =>
         began[c] + MaxStorageRetries + 1 <= docs[client[c].tenant].revision

\* README.md: "Memory, PostgreSQL, and Valkey share the same provider contract."
\* So what the in-memory provider admits on the stored state, a durable call
\* does not refuse for the state's sake.
SharedContract ==
  \A t \in Tenants :
    (\E op \in Ops : Admits(docs[t].state, op)) => unmarshalTenantState(docs[t].state)

=============================================================================
