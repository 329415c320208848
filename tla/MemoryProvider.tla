--------------------------- MODULE MemoryProvider ---------------------------
(***************************************************************************)
(* The in-memory provider (memory.go, staged.go, cleanup.go, import.go).   *)
(* Every method takes the provider's lock for the whole of its work, so an *)
(* operation is one atomic step on one tenant; an operation that fails     *)
(* leaves the tenant as it was.  Snapshot, Audit, StagedChanges and        *)
(* ExportDocument only read.                                               *)
(***************************************************************************)
EXTENDS TenantState

CONSTANT Tenants

VARIABLE tenants     \* the tenant record of each tenant

\* NewMemoryProvider
Init == tenants = [t \in Tenants |-> Empty]

Commit(t, op) ==
  /\ Admits(tenants[t], op)
  /\ WithinBounds(Result(tenants[t], op))
  /\ tenants' = [tenants EXCEPT ![t] = Result(tenants[t], op)]

CreateFeature(t) == \E op \in CreateOps : Commit(t, op)
UpdateFeature(t) == \E op \in UpdateOps : Commit(t, op)
Activate(t) == \E op \in LifecycleOps({"active"}) : Commit(t, op)
Deactivate(t) == \E op \in LifecycleOps({"inactive"}) : Commit(t, op)
Delete(t) == \E op \in LifecycleOps({"archived"}) : Commit(t, op)
RestoreFeature(t) == \E op \in RestoreOps : Commit(t, op)
AddGroup(t) == \E op \in CreateGroupOps : Commit(t, op)
ReplaceGroup(t) == \E op \in UpdateGroupOps : Commit(t, op)
DropGroup(t) == \E op \in DeleteGroupOps : Commit(t, op)
Assign(t) == \E op \in AssignOps : Commit(t, op)
Unassign(t) == \E op \in RemoveOps : Commit(t, op)
Stage(t) == \E op \in StageOps : Commit(t, op)
ApplyOne(t) == \E op \in ApplyStageOps : Commit(t, op)
ApplyDue(t) == \E op \in ApplyScheduledOps : Commit(t, op)
CleanUp(t) == \E op \in CleanupOps : Commit(t, op)
ImportAll(t) == \E op \in ImportOps : Commit(t, op)

Next ==
  \E t \in Tenants :
    \/ CreateFeature(t) \/ UpdateFeature(t) \/ Activate(t) \/ Deactivate(t) \/ Delete(t)
    \/ RestoreFeature(t) \/ AddGroup(t) \/ ReplaceGroup(t) \/ DropGroup(t) \/ Assign(t)
    \/ Unassign(t) \/ Stage(t) \/ ApplyOne(t) \/ ApplyDue(t) \/ CleanUp(t) \/ ImportAll(t)

Spec == Init /\ [][Next]_tenants

-----------------------------------------------------------------------------
(* Properties                                                               *)

\* The type invariant.  The retained stages and audit entries stay within their
\* limits, and no stage has an ID that StageUpdate has not yet given out.
TypeOK == tenants \in [Tenants -> Tenant] /\ \A t \in Tenants : TenantOK(tenants[t])

\* Optimistic concurrency rests on this: as long as a feature is retained, any
\* operation (update, lifecycle, assignment, stage, import) that changes anything
\* about it, its tombstone flag included, raises its version by exactly one, and
\* none raises the version without a write to it.
VersionTracksChange ==
  [][\A t \in Tenants : \A k \in Retained(tenants[t]) :
       LET old == tenants[t].features[k]
           new == tenants'[t].features[k]
       IN  new \in {None, old} \/ new.version = old.version + 1]_tenants

\* Where features and groups have different names, the newest retained audit entry of
\* each gives the version that is stored now: no operation writes without auditing,
\* audits another version than it writes, or trims the newest entries instead of the
\* oldest.
AuditCurrent == \A t \in Tenants : AuditOK(tenants[t])

\* The stored groups are always a forest of bounded depth, whatever sequence of
\* group creation, replacement, deletion and import built them: DeleteGroup does
\* not validate the graph, and still never orphans a child.
GroupForest == \A t \in Tenants : ForestOK(tenants[t])

\* memory.go: "DeleteGroup removes an expected-version group only when
\* unreferenced."  So a feature that got its groups from AssignGroup alone never
\* lists a group that is not stored.
AssignedGroupsStored ==
  \A t \in Tenants : \A k \in Live(tenants[t]) :
    tenants[t].features[k].def.groups \subseteq Stored(tenants[t])

=============================================================================
