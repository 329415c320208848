----------------------------- MODULE TenantState -----------------------------
(***************************************************************************)
(* What one tenant keeps in a MemoryProvider and what each management      *)
(* operation does to it (memory.go, staged.go, cleanup.go, import.go, and  *)
(* the graph validation of evaluate.go).  No state machine lives here: an  *)
(* operation is a guard and an effect on a tenant record, which            *)
(* MemoryProvider applies under its lock and DurableProvider applies to a  *)
(* document it has loaded.                                                 *)
(*                                                                         *)
(* A definition is abstracted to the fields the operations tell apart.     *)
(* Attributes that only evaluation reads (type, default, metadata, tags,   *)
(* strategies of a feature) are part of what makes two members of          *)
(* Definitions different, and are not spelled out.                         *)
(***************************************************************************)
EXTENDS Lists

CONSTANTS
  Keys,              \* feature keys
  GroupKeys,         \* group keys
  None,              \* no record, no group, or the empty Parent
  Definitions,       \* feature definitions that pass Definition.Validate
  GroupDefinitions,  \* group definitions with valid fields
  Documents,         \* portable documents handed to ImportDocument
  Times,             \* instants callers pass; 0 is the zero time.Time
  MaxFeatures, MaxGroups, MaxGroupDepth, MaxEvaluationDepth,
  MaxAuditEntries, MaxStagedChanges,   \* the Limits fields of these names
  MaxVersion,        \* bound on the versions of one feature or group
  MaxStages          \* bound on the stages ever created for a tenant

\* A dependency path visits a key once, so with this many keys the depth guard
\* of validateDependencyGraph cannot fire.
ASSUME LimitsAssumption ==
  /\ IsFiniteSet(Keys) /\ IsFiniteSet(GroupKeys) /\ None \notin Keys \cup GroupKeys
  /\ Times \subseteq Nat \ {0}
  /\ {MaxFeatures, MaxGroups, MaxGroupDepth, MaxEvaluationDepth} \subseteq Nat
  /\ {MaxAuditEntries, MaxStagedChanges, MaxVersion, MaxStages} \subseteq Nat
  /\ Cardinality(Keys) <= MaxEvaluationDepth + 1

-----------------------------------------------------------------------------
(* The tenant record                                                       *)

Lifecycles == {"draft", "active", "inactive", "deprecated", "archived"}

Definition == [lifecycle : Lifecycles, variants : SUBSET STRING,
               deps : SUBSET [key : Keys, variant : STRING], groups : SUBSET GroupKeys]
GroupDefinition == [parent : GroupKeys \cup {None}, targets : SUBSET STRING]

\* memoryRecord, with Definition.Version beside the rest of the definition.
Record(v, d, gone) == [version |-> v, def |-> d, deleted |-> gone]
GroupRecord(v, d) == [version |-> v, def |-> d]

FeatureRecord == [version : Nat \ {0}, def : Definition, deleted : BOOLEAN]
StoredGroup == [version : Nat \ {0}, def : GroupDefinition]

\* StagedChange; the actor is attribution only.
StagedChange == [id : Nat \ {0}, key : Keys, def : Definition, expected : Nat \ {0},
                 at : Times \cup {0}]
Change(i, k, d, v, at) == [id |-> i, key |-> k, def |-> d, expected |-> v, at |-> at]

AuditEntry == [key : Keys \cup GroupKeys, version : Nat \ {0}]

\* The maps of MemoryProvider, for one tenant.
Tenant == [features : [Keys -> FeatureRecord \cup {None}],
           groups : [GroupKeys -> StoredGroup \cup {None}],
           staged : SUBSET StagedChange, nextStage : Nat, audit : Seq(AuditEntry)]

Empty == [features |-> [k \in Keys |-> None], groups |-> [g \in GroupKeys |-> None],
          staged |-> {}, nextStage |-> 0, audit |-> <<>>]

\* What callers hand in has passed Definition.Validate and its like for groups and
\* documents.  The provider keeps features and groups in maps of their own; here their
\* keys are different values.  That leaves out a feature and a group of one name, which
\* share AuditEntry.FeatureKey and the actions of an import.
ASSUME InputsAssumption ==
  /\ Keys \cap GroupKeys = {} /\ None \notin FeatureRecord \cup StoredGroup
  /\ Definitions \subseteq Definition /\ GroupDefinitions \subseteq GroupDefinition
  /\ \A doc \in Documents :
       /\ DOMAIN doc.features \subseteq Keys /\ DOMAIN doc.groups \subseteq GroupKeys
       /\ \A k \in DOMAIN doc.features : doc.features[k] \in Definition
       /\ \A g \in DOMAIN doc.groups : doc.groups[g] \in GroupDefinition

Retained(s) == {k \in Keys : s.features[k] # None}

\* activeDefinitionsLocked: tombstones are not part of the graph.
Live(s) == {k \in Retained(s) : ~s.features[k].deleted}

Stored(s) == {g \in GroupKeys : s.groups[g] # None}

LiveAt(s, k, v) == k \in Live(s) /\ s.features[k].version = v
GroupAt(s, g, v) == g \in Stored(s) /\ s.groups[g].version = v

-----------------------------------------------------------------------------
(* Graph validation                                                        *)

\* The walk of validateGroupGraph from g towards the root: None once it has left it.
Ancestor(groups, g) ==
  LET up[n \in 0..(MaxGroupDepth + 1)] ==
        IF n = 0 THEN g ELSE IF up[n - 1] = None THEN None ELSE groups[up[n - 1]].def.parent
  IN up

Chain(groups, g) == {Ancestor(groups, g)[n] : n \in 0..(MaxGroupDepth + 1)} \ {None}

\* A cycle never leaves the walk, so the depth test rejects it too.
validateGroupGraph(s) == \A g \in Stored(s) : Ancestor(s.groups, g)[MaxGroupDepth + 1] = None

cloneAndValidateGroups(s) ==
  /\ Cardinality(Stored(s)) <= MaxGroups
  /\ \A g \in Stored(s) : s.groups[g].def.parent \in Stored(s) \cup {None}
  /\ validateGroupGraph(s)
  /\ \A k \in Live(s) : \A g \in s.features[k].def.groups :
       /\ g \in Stored(s)
       /\ \A a \in Chain(s.groups, g) : s.groups[a].def.targets \subseteq s.features[k].def.variants

\* Every target exists with the required variant, and every set of features has
\* one that depends on none of them, which is to say that there is no cycle.
validateDependencyGraph(s) ==
  /\ \A k \in Live(s) : \A d \in s.features[k].def.deps :
       d.key \in Live(s) /\ d.variant \in s.features[d.key].def.variants
  /\ \A K \in SUBSET Live(s) \ {{}} :
       \E k \in K : \A d \in s.features[k].def.deps : d.key \notin K

NewSnapshotWithGroups(s) ==
  /\ Cardinality(Live(s)) <= MaxFeatures
  /\ validateDependencyGraph(s)
  /\ cloneAndValidateGroups(s)

-----------------------------------------------------------------------------
(* Audit                                                                   *)

Entry(k, v) == [key |-> k, version |-> v]

Newest(audit, n) == IF Len(audit) <= n THEN audit ELSE SubSeq(audit, Len(audit) - n + 1, Len(audit))

KeepOldest(audit, entries) ==
  LET all == audit \o entries
  IN  IF Len(all) <= MaxAuditEntries THEN all ELSE SubSeq(all, 1, MaxAuditEntries)

appendAudit(audit, entries) == Newest(audit \o entries, MaxAuditEntries)

\* Store record r for key k and audit its version.
Put(s, k, r) == [s EXCEPT !.features[k] = r, !.audit = appendAudit(@, <<Entry(k, r.version)>>)]
PutGroup(s, g, r) == [s EXCEPT !.groups[g] = r, !.audit = appendAudit(@, <<Entry(g, r.version)>>)]

-----------------------------------------------------------------------------
(* Features                                                                *)

Versions == 1..MaxVersion

CreateOps == [kind : {"Create"}, key : Keys, def : Definitions]
CanCreate(s, op) == op.key \notin Retained(s) /\ Cardinality(Retained(s)) < MaxFeatures
Create(s, op) == Put(s, op.key, Record(1, op.def, FALSE))

UpdateOps == [kind : {"Update"}, key : Keys, def : Definitions, expected : Versions]
CanUpdate(s, op) == LiveAt(s, op.key, op.expected)
Update(s, op) == Put(s, op.key, Record(op.expected + 1, op.def, FALSE))

\* Activate, Deactivate and Delete; Delete leaves a tombstone.
LifecycleOps(to) == [kind : {"Lifecycle"}, key : Keys, expected : Versions, to : to]
CanSetLifecycle(s, op) == LiveAt(s, op.key, op.expected)
SameVersion(s, op) ==
  Put(s, op.key, Record(op.expected, [s.features[op.key].def EXCEPT !.lifecycle = op.to],
                        op.to = "archived"))
setLifecycle(s, op) ==
  Put(s, op.key, Record(op.expected + 1, [s.features[op.key].def EXCEPT !.lifecycle = op.to],
                        op.to = "archived"))

RestoreOps == [kind : {"Restore"}, key : Keys, expected : Versions]
CanRestore(s, op) ==
  /\ op.key \in Retained(s) \ Live(s)
  /\ s.features[op.key].version = op.expected
Restore(s, op) ==
  Put(s, op.key, Record(op.expected + 1, [s.features[op.key].def EXCEPT !.lifecycle = "inactive"], FALSE))

-----------------------------------------------------------------------------
(* Groups                                                                  *)

CreateGroupOps == [kind : {"CreateGroup"}, group : GroupKeys, def : GroupDefinitions]
CreateGroup(s, op) == PutGroup(s, op.group, GroupRecord(1, op.def))
CanCreateGroup(s, op) == op.group \notin Stored(s) /\ cloneAndValidateGroups(CreateGroup(s, op))

UpdateGroupOps ==
  [kind : {"UpdateGroup"}, group : GroupKeys, def : GroupDefinitions, expected : Versions]
UpdateGroup(s, op) == PutGroup(s, op.group, GroupRecord(op.expected + 1, op.def))
CanUpdateGroup(s, op) ==
  GroupAt(s, op.group, op.expected) /\ cloneAndValidateGroups(UpdateGroup(s, op))

\* Only live features and child groups count as uses; the audit entry carries
\* the version after the one that was deleted.
DeleteGroupOps == [kind : {"DeleteGroup"}, group : GroupKeys, expected : Versions]
IgnoreChildren(s, op) ==
  /\ GroupAt(s, op.group, op.expected)
  /\ \A k \in Live(s) : op.group \notin s.features[k].def.groups
CanDeleteGroup(s, op) ==
  /\ GroupAt(s, op.group, op.expected)
  /\ \A k \in Live(s) : op.group \notin s.features[k].def.groups
  /\ \A g \in Stored(s) : s.groups[g].def.parent # op.group
DeleteGroup(s, op) ==
  [s EXCEPT !.groups[op.group] = None,
            !.audit = appendAudit(@, <<Entry(op.group, op.expected + 1)>>)]

\* Assigning a group that is already listed succeeds and changes nothing.
AssignOps == [kind : {"AssignGroup"}, key : Keys, group : GroupKeys, expected : Versions]
AssignGroup(s, op) ==
  LET d == s.features[op.key].def
  IN  IF op.group \in d.groups THEN s
      ELSE Put(s, op.key, Record(op.expected + 1, [d EXCEPT !.groups = @ \cup {op.group}], FALSE))
CanAssignGroup(s, op) ==
  /\ op.group \in Stored(s)
  /\ LiveAt(s, op.key, op.expected)
  /\ op.group \notin s.features[op.key].def.groups => cloneAndValidateGroups(AssignGroup(s, op))

RemoveOps == [kind : {"RemoveGroup"}, key : Keys, group : GroupKeys, expected : Versions]
CanRemoveGroup(s, op) ==
  LiveAt(s, op.key, op.expected) /\ op.group \in s.features[op.key].def.groups
RemoveGroup(s, op) ==
  Put(s, op.key, Record(op.expected + 1, [s.features[op.key].def EXCEPT !.groups = @ \ {op.group}], FALSE))

-----------------------------------------------------------------------------
(* Staged changes                                                          *)

StageOps == [kind : {"StageUpdate"}, key : Keys, def : Definitions, expected : Versions,
             at : Times \cup {0}]
CanStageUpdate(s, op) ==
  /\ LiveAt(s, op.key, op.expected)
  /\ Cardinality(s.staged) < MaxStagedChanges
  /\ \A c \in s.staged : c.key # op.key
ForgetsCounter(s, op) ==
  [s EXCEPT !.staged = @ \cup {Change(s.nextStage + 1, op.key, op.def, op.expected, op.at)}]
StageUpdate(s, op) ==
  [s EXCEPT !.nextStage = @ + 1,
            !.staged = @ \cup {Change(s.nextStage + 1, op.key, op.def, op.expected, op.at)},
            !.audit = appendAudit(@, <<Entry(op.key, op.expected)>>)]

\* The changes C in ID order.
InOrder(C) ==
  CHOOSE f \in [1..Cardinality(C) -> C] : \A i, j \in DOMAIN f : i < j => f[i].id < f[j].id

\* applyStagesLocked on the changes C.  They are applied one after the other in
\* ID order to a copy, so a second change of one key would meet the version the
\* first has raised and abort them all.
Staged(s, C) ==
  [s EXCEPT
     !.features = [k \in Keys |-> IF \E c \in C : c.key = k
                                  THEN LET c == CHOOSE c \in C : c.key = k
                                       IN  Record(c.expected + 1, c.def, FALSE)
                                  ELSE s.features[k]],
     !.staged = @ \ C,
     !.audit = appendAudit(@, [i \in 1..Cardinality(C) |->
                                 Entry(InOrder(C)[i].key, InOrder(C)[i].expected + 1)])]

applyStagesLocked(s, C) ==
  /\ \A c \in C : LiveAt(s, c.key, c.expected)
  /\ \A c, d \in C : c.key = d.key => c = d
  /\ NewSnapshotWithGroups(Staged(s, C))

ApplyStageOps == [kind : {"ApplyStage"}, id : 1..MaxStages]
Named(s, op) == {c \in s.staged : c.id = op.id}
CanApplyStage(s, op) == Named(s, op) # {} /\ applyStagesLocked(s, Named(s, op))
ApplyStage(s, op) == Staged(s, Named(s, op))

\* With nothing due the call succeeds before applyStagesLocked is reached.
ApplyScheduledOps == [kind : {"ApplyScheduled"}, now : Times]
Due(s, op) == {c \in s.staged : c.at # 0 /\ c.at <= op.now}
CanApplyScheduled(s, op) == Due(s, op) # {} => applyStagesLocked(s, Due(s, op))
ApplyScheduled(s, op) == Staged(s, Due(s, op))

-----------------------------------------------------------------------------
(* Cleanup                                                                 *)

CleanupOps == [kind : {"Cleanup"}, purge : BOOLEAN, before : Times \cup {0},
               keep : 0..MaxAuditEntries]
Purged(s, op) == IF op.purge THEN Retained(s) \ Live(s) ELSE {}
Expired(c, op) == op.before # 0 /\ c.at # 0 /\ c.at < op.before
PurgeRecords(s, op) ==
  [s EXCEPT !.features = [k \in Keys |-> IF k \in Purged(s, op) THEN None ELSE s.features[k]],
            !.staged = {c \in @ : ~Expired(c, op)},
            !.audit = IF op.keep > 0 THEN Newest(@, op.keep) ELSE @]
Cleanup(s, op) ==
  [s EXCEPT !.features = [k \in Keys |-> IF k \in Purged(s, op) THEN None ELSE s.features[k]],
            !.staged = {c \in @ : c.key \notin Purged(s, op) /\ ~Expired(c, op)},
            !.audit = IF op.keep > 0 THEN Newest(@, op.keep) ELSE @]

-----------------------------------------------------------------------------
(* Import.  A document maps some keys to definitions and some group keys to *)
(* group definitions; the versions it carries are never used.               *)

ImportOps == [kind : {"Import"}, doc : Documents, policy : {"fail", "skip", "replace"},
              dryRun : BOOLEAN]

Conflicts(s, doc) == (DOMAIN doc.features \cap Retained(s)) \cup (DOMAIN doc.groups \cap Stored(s))

\* The resources the import writes: all of them, or only those without conflict.
Written(s, op) ==
  (DOMAIN op.doc.features \cup DOMAIN op.doc.groups)
     \ (IF op.policy = "replace" THEN {} ELSE Conflicts(s, op.doc))

\* The version after the one that record r holds, 1 when there is none.
NextVersion(r) == IF r = None THEN 1 ELSE r.version + 1

\* Groups are audited before features.
Import(s, op) ==
  LET W == Written(s, op)
      groups == SetToSeq(W \cap DOMAIN op.doc.groups)
      features == SetToSeq(W \cap DOMAIN op.doc.features)
  IN [s EXCEPT
        !.groups = [g \in GroupKeys |-> IF g \in W THEN GroupRecord(NextVersion(s.groups[g]), op.doc.groups[g])
                                                   ELSE s.groups[g]],
        !.features = [k \in Keys |-> IF k \in W THEN Record(NextVersion(s.features[k]), op.doc.features[k], FALSE)
                                                ELSE s.features[k]],
        !.audit = appendAudit(@, [i \in DOMAIN groups |-> Entry(groups[i], NextVersion(s.groups[groups[i]]))]
                     \o [i \in DOMAIN features |-> Entry(features[i], NextVersion(s.features[features[i]]))])]

\* ImportDocument: a document that is not a valid graph by itself is refused first.
ImportDocument(s, op) == IF op.dryRun THEN s ELSE Import(s, op)
CanImportDocument(s, op) ==
  /\ NewSnapshotWithGroups(Import(Empty, op))
  /\ op.policy = "fail" /\ ~op.dryRun => Conflicts(s, op.doc) = {}
  /\ NewSnapshotWithGroups(Import(s, op))

-----------------------------------------------------------------------------
(* All operations, as DurableProvider repeats them on what it has loaded    *)

Ops ==
  CreateOps \cup UpdateOps \cup LifecycleOps({"active", "inactive", "archived"}) \cup RestoreOps \cup CreateGroupOps
    \cup UpdateGroupOps \cup DeleteGroupOps \cup AssignOps \cup RemoveOps \cup StageOps
    \cup ApplyStageOps \cup ApplyScheduledOps \cup CleanupOps \cup ImportOps

\* Operation op succeeds on s.
Admits(s, op) ==
  CASE op.kind = "Create" -> CanCreate(s, op)
    [] op.kind = "Update" -> CanUpdate(s, op)
    [] op.kind = "Lifecycle" -> CanSetLifecycle(s, op)
    [] op.kind = "Restore" -> CanRestore(s, op)
    [] op.kind = "CreateGroup" -> CanCreateGroup(s, op)
    [] op.kind = "UpdateGroup" -> CanUpdateGroup(s, op)
    [] op.kind = "DeleteGroup" -> CanDeleteGroup(s, op)
    [] op.kind = "AssignGroup" -> CanAssignGroup(s, op)
    [] op.kind = "RemoveGroup" -> CanRemoveGroup(s, op)
    [] op.kind = "StageUpdate" -> CanStageUpdate(s, op)
    [] op.kind = "ApplyStage" -> CanApplyStage(s, op)
    [] op.kind = "ApplyScheduled" -> CanApplyScheduled(s, op)
    [] op.kind = "Cleanup" -> TRUE
    [] op.kind = "Import" -> CanImportDocument(s, op)

\* What s is after op has succeeded.
Result(s, op) ==
  CASE op.kind = "Create" -> Create(s, op)
    [] op.kind = "Update" -> Update(s, op)
    [] op.kind = "Lifecycle" -> setLifecycle(s, op)
    [] op.kind = "Restore" -> Restore(s, op)
    [] op.kind = "CreateGroup" -> CreateGroup(s, op)
    [] op.kind = "UpdateGroup" -> UpdateGroup(s, op)
    [] op.kind = "DeleteGroup" -> DeleteGroup(s, op)
    [] op.kind = "AssignGroup" -> AssignGroup(s, op)
    [] op.kind = "RemoveGroup" -> RemoveGroup(s, op)
    [] op.kind = "StageUpdate" -> StageUpdate(s, op)
    [] op.kind = "ApplyStage" -> ApplyStage(s, op)
    [] op.kind = "ApplyScheduled" -> ApplyScheduled(s, op)
    [] op.kind = "Cleanup" -> Cleanup(s, op)
    [] op.kind = "Import" -> ImportDocument(s, op)

\* The bounds of the checked instances.
WithinBounds(s) ==
  /\ \A k \in Retained(s) : s.features[k].version <= MaxVersion
  /\ \A g \in Stored(s) : s.groups[g].version <= MaxVersion
  /\ s.nextStage <= MaxStages

-----------------------------------------------------------------------------
(* What every operation keeps, whichever provider runs it                   *)

\* The type of a tenant, the limits on what it retains, and the IDs of its stages:
\* given out already, and each one once.
TenantOK(s) ==
  /\ s \in Tenant
  /\ IsFiniteSet(s.staged) /\ Cardinality(s.staged) <= MaxStagedChanges
  /\ \A c \in s.staged : c.id <= s.nextStage
  /\ \A c, d \in s.staged : c.id = d.id => c = d
  /\ Len(s.audit) <= MaxAuditEntries

\* The groups are a forest of bounded depth.
ForestOK(s) ==
  /\ \A g \in Stored(s) : s.groups[g].def.parent \in Stored(s) \cup {None}
  /\ validateGroupGraph(s)

\* The entries after entry i for the same feature or group.
Newer(audit, i) == {j \in DOMAIN audit : j > i /\ audit[j].key = audit[i].key}

\* The newest entry of a feature or group names the version that s stores.
Names(audit, s) ==
  \A i \in DOMAIN audit :
    LET e == audit[i]
    IN  Newer(audit, i) = {} =>
          /\ e.key \in Retained(s) => s.features[e.key].version = e.version
          /\ e.key \in Stored(s) => s.groups[e.key].version = e.version

AuditOK(s) == Names(s.audit, s)

=============================================================================
