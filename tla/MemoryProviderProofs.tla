------------------------ MODULE MemoryProviderProofs ------------------------
(***************************************************************************)
(* Proofs about the in-memory provider and the history of its stages, for  *)
(* any tenants, keys, definitions and limits.  What an operation does to   *)
(* a tenant is in TenantStateProofs; here the operations become steps.     *)
(***************************************************************************)
EXTENDS StageHistory, TenantStateProofs, TLAPS

\* A step that names no prover is tried with the SMT solver, with Zenon, and with the
\* solver for longer.
USE SMTT(10), Zenon, SMTT(30)

\* The inductive invariant of the provider.
Inv == tenants \in [Tenants -> Tenant] /\ \A t \in Tenants : StateInv(tenants[t])

\* Every step of the provider is one admitted operation on one tenant.
LEMMA OneOperation ==
  ASSUME Next
  PROVE  \E t \in Tenants, op \in Ops : Commit(t, op)
<1>1. PICK t \in Tenants :
        \/ CreateFeature(t) \/ UpdateFeature(t) \/ Activate(t) \/ Deactivate(t) \/ Delete(t)
        \/ RestoreFeature(t) \/ AddGroup(t) \/ ReplaceGroup(t) \/ DropGroup(t) \/ Assign(t)
        \/ Unassign(t) \/ Stage(t) \/ ApplyOne(t) \/ ApplyDue(t) \/ CleanUp(t) \/ ImportAll(t)
  BY DEF Next
<1>2. \A to \in {"active", "inactive", "archived"} :
        LifecycleOps({to}) \subseteq LifecycleOps({"active", "inactive", "archived"})
  BY DEF LifecycleOps
<1>3. ASSUME Activate(t) \/ Deactivate(t) \/ Delete(t)
      PROVE  \E op \in LifecycleOps({"active", "inactive", "archived"}) : Commit(t, op)
  BY <1>2, <1>3 DEF Activate, Deactivate, Delete
<1> QED
  BY <1>1, <1>3 DEF Ops, CreateFeature, UpdateFeature, RestoreFeature, AddGroup, ReplaceGroup, DropGroup,
                    Assign, Unassign, Stage, ApplyOne, ApplyDue, CleanUp, ImportAll

\* A step changes one tenant, keeps its invariant and what Keeps says, and stays
\* within the bounds of the model.
LEMMA TenantStep ==
  ASSUME Inv, Next
  PROVE  \E t \in Tenants, s2 \in Tenant :
           /\ tenants' = [tenants EXCEPT ![t] = s2]
           /\ StateInv(s2) /\ Keeps(tenants[t], s2) /\ WithinBounds(s2)
<1>1. PICK t \in Tenants, op \in Ops : Commit(t, op)
  BY OneOperation
<1>2. StateInv(tenants[t]) /\ Admits(tenants[t], op)
  BY <1>1 DEF Inv, Commit
<1>3. StateInv(Result(tenants[t], op)) /\ Keeps(tenants[t], Result(tenants[t], op))
  BY <1>2, OperationStep
<1>4. Result(tenants[t], op) \in Tenant
  BY <1>3 DEF StateInv, TenantOK
<1> QED
  BY <1>1, <1>3, <1>4, Zenon DEF Commit

\* The invariant holds initially and every step keeps it.
LEMMA InvInductive == Spec => []Inv
<1>1. Init => Inv
  BY EmptyStep DEF Init, Inv, StateInv, TenantOK
<1>2. Inv /\ [Next]_tenants => Inv'
  <2> SUFFICES ASSUME Inv, [Next]_tenants PROVE Inv'
    OBVIOUS
  <2>1. CASE Next
    <3>1. PICK t \in Tenants, s2 \in Tenant : tenants' = [tenants EXCEPT ![t] = s2] /\ StateInv(s2)
      BY <2>1, TenantStep
    <3> QED
      BY <3>1 DEF Inv
  <2>2. CASE UNCHANGED tenants
    BY <2>2 DEF Inv
  <2> QED
    BY <2>1, <2>2
<1> QED
  BY <1>1, <1>2, PTL DEF Spec

-----------------------------------------------------------------------------
\* TypeOK: the retained stages and audit entries stay within their limits, and
\* stage IDs are distinct and never above the counter of StageUpdate.
THEOREM TypeCorrect == Spec => []TypeOK
<1>1. Inv => TypeOK
  BY DEF Inv, TypeOK, StateInv
<1> QED
  BY <1>1, InvInductive, PTL

\* GroupForest: no sequence of group creation, replacement, deletion and import
\* orphans a group, closes a cycle or exceeds the depth limit, although
\* DeleteGroup does not validate the graph.
THEOREM ForestCorrect == Spec => []GroupForest
<1>1. Inv => GroupForest
  BY DEF Inv, GroupForest, StateInv
<1> QED
  BY <1>1, InvInductive, PTL

\* AuditCurrent: the newest retained audit entry of a feature or group names the
\* version that is stored, however the trail was trimmed.
THEOREM AuditCorrect == Spec => []AuditCurrent
<1>1. Inv => AuditCurrent
  BY DEF Inv, AuditCurrent, StateInv
<1> QED
  BY <1>1, InvInductive, PTL

\* VersionTracksChange: a retained feature changes only together with its
\* version, which rises by exactly one.
THEOREM VersionCorrect == Spec => VersionTracksChange
<1> DEFINE Tracks ==
      \A t \in Tenants : \A k \in Retained(tenants[t]) :
        LET old == tenants[t].features[k]
            new == tenants'[t].features[k]
        IN  new \in {None, old} \/ new.version = old.version + 1
<1>1. Inv /\ Next => Tracks
  <2> SUFFICES ASSUME Inv, Next, NEW t \in Tenants, NEW k \in Retained(tenants[t])
               PROVE  \/ tenants'[t].features[k] \in {None, tenants[t].features[k]}
                      \/ tenants'[t].features[k].version = tenants[t].features[k].version + 1
    OBVIOUS
  <2>1. PICK u \in Tenants, s2 \in Tenant : tenants' = [tenants EXCEPT ![u] = s2] /\ Keeps(tenants[u], s2)
    BY TenantStep
  <2>2. tenants'[t] = IF t = u THEN s2 ELSE tenants[t]
    BY <2>1 DEF Inv
  <2> QED
    BY <2>1, <2>2 DEF Keeps
<1>2. Inv /\ [Next]_tenants => [Tracks]_tenants
  BY <1>1
<1> QED
  BY <1>2, InvInductive, PTL DEF Spec, VersionTracksChange

-----------------------------------------------------------------------------
\* The inductive invariant of the provider with its stage history.
HInv ==
  /\ Inv /\ StageInv
  /\ \A t \in Tenants : tenants[t].nextStage <= MaxStages

\* Two stages of a tenant have different IDs, all within the history.
LEMMA StageIds ==
  ASSUME NEW s, StateInv(s), s.nextStage <= MaxStages
  PROVE  /\ \A c \in s.staged : c.id \in 1..MaxStages /\ c.id <= s.nextStage /\ c.key \in Keys
         /\ \A c, d \in s.staged : c.id = d.id => c = d
<1>1. s.staged \in SUBSET StagedChange /\ s.nextStage \in Nat /\ MaxStages \in Nat
  BY Fields, LimitsAssumption DEF StateInv
<1>2. \A c \in s.staged : c.id \in Nat \ {0} /\ c.key \in Keys
  BY <1>1 DEF StagedChange
<1>3. /\ \A c \in s.staged : c.id <= s.nextStage
      /\ \A c, d \in s.staged : c.id = d.id => c = d
  BY DEF StateInv, TenantOK
<1> QED
  BY <1>1, <1>2, <1>3

\* Between two steps the feature of a stage is neither lost nor changed without
\* a new version.
LEMMA HInvInductive == HSpec => []HInv
<1>1. HInit => HInv
  <2>1. Init => Inv
    BY EmptyStep DEF Init, Inv, StateInv, TenantOK
  <2>2. Empty.staged = {} /\ Empty.nextStage = 0 /\ 0 <= MaxStages
    BY LimitsAssumption DEF Empty
  <2> QED
    BY <2>1, <2>2 DEF HInit, HInv, Init, StageInv
<1>2. HInv /\ [HNext]_hvars => HInv'
  <2> SUFFICES ASSUME HInv, [HNext]_hvars PROVE HInv'
    OBVIOUS
  <2>1. CASE HNext
    <3>1. Inv /\ Next /\ Remember
      BY <2>1 DEF HInv, HNext
    <3>2. PICK t \in Tenants, s2 \in Tenant :
            /\ tenants' = [tenants EXCEPT ![t] = s2]
            /\ StateInv(s2) /\ Keeps(tenants[t], s2) /\ WithinBounds(s2)
      BY <3>1, TenantStep
    <3>3. /\ tenants'[t] = s2
          /\ \A u \in Tenants : u # t => tenants'[u] = tenants[u]
      BY <3>1, <3>2 DEF Inv
    <3>4. Inv'
      BY <3>1, <3>2, <3>3 DEF Inv
    <3>5. \A u \in Tenants : tenants'[u].nextStage <= MaxStages
      BY <3>2, <3>3 DEF HInv, WithinBounds
    <3>6. ASSUME NEW u \in Tenants, NEW c \in tenants'[u].staged
          PROVE  LET r == tenants'[u].features[c.key]
                 IN  /\ r # None
                     /\ c.expected <= r.version
                     /\ c.expected = r.version => r = seen'[u][c.id]
      <4> DEFINE a == tenants[u]
                 b == tenants'[u]
      <4>1. StateInv(a) /\ StateInv(b) /\ a.nextStage <= MaxStages /\ b.nextStage <= MaxStages
        BY <3>1, <3>4, <3>5 DEF HInv, Inv
      <4>2. /\ \A d \in b.staged : d.id \in 1..MaxStages /\ d.key \in Keys
            /\ \A d, e \in b.staged : d.id = e.id => d = e
            /\ \A d \in a.staged : d.id \in 1..MaxStages /\ d.id <= a.nextStage
            /\ a.nextStage \in Nat
        <5>1. a.nextStage \in Nat
          BY <4>1, Fields DEF StateInv
        <5> HIDE DEF a, b
        <5> QED
          BY <4>1, <5>1, StageIds
      <4>3. Keeps(a, b)
        <5>1. CASE u = t
          BY <3>2, <3>3, <5>1
        <5>2. CASE u # t
          BY <3>3, <5>2 DEF Keeps
        <5> QED
          BY <5>1, <5>2
      <4>4. seen'[u][c.id] = IF NewStages(u, c.id) = {} THEN seen[u][c.id]
                             ELSE a.features[(CHOOSE d \in NewStages(u, c.id) : TRUE).key]
        BY <3>1, <4>2 DEF Remember
      <4>5. NewStages(u, c.id) = {d \in b.staged \ a.staged : d.id = c.id}
        BY DEF NewStages
      <4>6. /\ \A k \in Keys : a.features[k] # None => a.features[k].version \in Nat
            /\ \A k \in Keys : b.features[k] # None => b.features[k].version \in Nat
        BY <4>1, Fields DEF StateInv, FeatureRecord
      <4>7. \A d \in a.staged :
              LET r == a.features[d.key]
              IN  r # None /\ d.expected <= r.version /\ (d.expected = r.version => r = seen[u][d.id])
        BY DEF HInv, StageInv
      <4>8. c \in b.staged /\ c.key \in Keys /\ c.expected \in Nat
        <5>1. b.staged \in SUBSET StagedChange
          BY <4>1, Fields DEF StateInv
        <5> QED
          BY <5>1 DEF StagedChange
      <4> HIDE DEF a, b
      <4>9. CASE c \in a.staged
        <5>1. NewStages(u, c.id) = {}
          <6>1. \A d \in b.staged \ a.staged : d.id > a.nextStage /\ d.id \in Nat
            BY <4>2, <4>3 DEF Keeps
          <6> QED
            BY <4>2, <4>5, <4>9, <6>1
        <5>2. seen'[u][c.id] = seen[u][c.id]
          BY <4>4, <5>1
        <5>3. c.key \in Retained(a) /\ c.key \in Retained(b)
          BY <4>3, <4>7, <4>8, <4>9 DEF Keeps, Retained
        <5>4. b.features[c.key] = a.features[c.key]
              \/ b.features[c.key].version = a.features[c.key].version + 1
          BY <4>3, <5>3 DEF Keeps, Retained
        <5>5. /\ b.features[c.key] # None
              /\ c.expected <= b.features[c.key].version
              /\ c.expected = b.features[c.key].version => b.features[c.key] = seen'[u][c.id]
          BY <4>6, <4>7, <4>8, <4>9, <5>2, <5>3, <5>4 DEF Retained
        <5> QED
          BY <5>5 DEF b
      <4>10. CASE c \notin a.staged
        <5>1. NewStages(u, c.id) = {c}
          BY <4>2, <4>5, <4>8, <4>10
        <5>2. seen'[u][c.id] = a.features[c.key]
          BY <4>4, <5>1
        <5>3. LiveAt(a, c.key, c.expected) /\ b.features[c.key] = a.features[c.key]
          BY <4>3, <4>8, <4>10 DEF Keeps
        <5>4. /\ b.features[c.key] # None
              /\ c.expected <= b.features[c.key].version
              /\ c.expected = b.features[c.key].version => b.features[c.key] = seen'[u][c.id]
          BY <4>8, <5>2, <5>3 DEF LiveAt, Live, Retained
        <5> QED
          BY <5>4 DEF b
      <4> QED
        BY <4>9, <4>10
    <3> QED
      BY <3>4, <3>5, <3>6 DEF HInv, StageInv
  <2>2. CASE UNCHANGED hvars
    BY <2>2 DEF hvars, HInv, Inv, StageInv
  <2> QED
    BY <2>1, <2>2
<1> QED
  BY <1>1, <1>2, PTL DEF HSpec

\* StageUnchanged: a stage that applyStagesLocked would accept faces the very
\* record it was staged against.
THEOREM StageCorrect == HSpec => []StageUnchanged
<1>1. HInv => StageUnchanged
  BY DEF HInv, StageInv, StageUnchanged, LiveAt
<1> QED
  BY <1>1, HInvInductive, PTL

=============================================================================
