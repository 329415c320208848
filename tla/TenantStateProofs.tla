-------------------------- MODULE TenantStateProofs --------------------------
(***************************************************************************)
(* What every management operation keeps of a tenant, for every set of     *)
(* keys, groups, definitions and documents and for all limits.  The        *)
(* operations are proved one by one on a tenant record, so that the result *)
(* serves the provider that applies them under a lock and the one that     *)
(* applies them to what it has loaded.                                      *)
(***************************************************************************)
EXTENDS TenantState, NaturalNumbers, FiniteSetTheorems, SequenceTheorems, TLAPS

\* A step that names no prover is tried with the SMT solver, with Zenon, and with the
\* solver for longer.
USE SMTT(10), Zenon, SMTT(30)

StateInv(s) == TenantOK(s) /\ ForestOK(s) /\ AuditOK(s)

\* What a step from s to s2 keeps of the features and of the stages made against them.
Keeps(s, s2) ==
  /\ \A k \in Retained(s) :
       \/ s2.features[k] \in {None, s.features[k]}
       \/ s2.features[k].version = s.features[k].version + 1
  /\ \A c \in s2.staged \cap s.staged : c.key \in Retained(s) => c.key \in Retained(s2)
  /\ \A c \in s2.staged \ s.staged : /\ c.id = s2.nextStage /\ c.id > s.nextStage
                                     /\ LiveAt(s, c.key, c.expected)
                                     /\ s2.features[c.key] = s.features[c.key]

-----------------------------------------------------------------------------
(* The audit trail                                                          *)

\* x is what is left of the trail all after its oldest entries are dropped.
Suffix(x, all) ==
  \E off \in 0..Len(all) :
    Len(x) = Len(all) - off /\ \A i \in 1..Len(x) : x[i] = all[i + off]

\* Whatever the entries e do not mention is as it was, or gone.
Untouched(e, s, s2) ==
  /\ \A k \in Retained(s2) : (\A j \in DOMAIN e : e[j].key # k) => s2.features[k] = s.features[k]
  /\ \A g \in Stored(s2) : (\A j \in DOMAIN e : e[j].key # g) => s2.groups[g] = s.groups[g]

\* Trimming keeps the newest entries, and no more than asked for.
LEMMA NewestFacts ==
  ASSUME NEW audit \in Seq(AuditEntry), NEW n \in Nat
  PROVE  /\ Newest(audit, n) \in Seq(AuditEntry)
         /\ Len(Newest(audit, n)) <= n /\ Len(Newest(audit, n)) <= Len(audit)
         /\ Suffix(Newest(audit, n), audit)
<1>0. Len(audit) \in Nat /\ \A i \in 1..Len(audit) : audit[i] \in AuditEntry
  BY LenProperties
<1>1. CASE Len(audit) <= n
  <2>1. Newest(audit, n) = audit
    BY <1>1 DEF Newest
  <2>2. Suffix(audit, audit)
    <3>1. 0 \in 0..Len(audit) /\ Len(audit) = Len(audit) - 0
          /\ \A i \in 1..Len(audit) : audit[i] = audit[i + 0]
      BY <1>0
    <3> QED
      BY <3>1, Zenon DEF Suffix
  <2> QED
    BY <1>0, <1>1, <2>1, <2>2
<1>2. CASE ~(Len(audit) <= n)
  <2> DEFINE off == Len(audit) - n
             x == SubSeq(audit, off + 1, Len(audit))
  <2>1. Newest(audit, n) = x
    BY <1>2 DEF Newest
  <2>2. off \in Nat /\ off + 1 \in Int /\ Len(audit) \in Int /\ off + n = Len(audit) /\ off \in 0..Len(audit)
        /\ \A i \in (off + 1)..Len(audit) : audit[i] \in AuditEntry
    BY <1>0, <1>2
  <2>3. /\ x \in Seq(AuditEntry)
        /\ Len(x) = IF off + 1 <= Len(audit) THEN Len(audit) - (off + 1) + 1 ELSE 0
        /\ \A i \in 1..Len(audit) - (off + 1) + 1 : x[i] = audit[(off + 1) + i - 1]
    <3> HIDE DEF off
    <3> QED
      BY <2>2, SubSeqProperties
  <2>4. Len(x) = n /\ Len(x) = Len(audit) - off
    BY <1>0, <1>2, <2>2, <2>3
  <2>5. \A i \in 1..Len(x) : x[i] = audit[i + off]
    <3> HIDE DEF x, off
    <3>1. ASSUME NEW i \in 1..Len(x) PROVE x[i] = audit[i + off]
      <4>1. i \in 1..Len(audit) - (off + 1) + 1 /\ (off + 1) + i - 1 = i + off
        BY <1>0, <2>2, <2>4
      <4> QED
        BY <2>3, <4>1
    <3> QED
      BY <3>1
  <2>6. Suffix(x, audit)
    <3> HIDE DEF x, off
    <3> QED
      BY <2>2, <2>4, <2>5, Zenon DEF Suffix
  <2> QED
    BY <1>0, <1>2, <2>1, <2>3, <2>4, <2>6
<1> QED
  BY <1>1, <1>2

\* The trail keeps naming the stored versions when the entries e of a step name what
\* the step has stored, and the step leaves alone what they do not mention.
LEMMA AuditStep ==
  ASSUME NEW s, NEW s2, NEW e \in Seq(AuditEntry), s.audit \in Seq(AuditEntry),
         s2.audit \in Seq(AuditEntry), AuditOK(s), Names(e, s2), Untouched(e, s, s2),
         Suffix(s2.audit, s.audit \o e)
  PROVE  AuditOK(s2)
<1> DEFINE a == s.audit
           x == s2.audit
           all == a \o e
<1>1. /\ Len(a) \in Nat /\ Len(e) \in Nat /\ Len(x) \in Nat
      /\ DOMAIN a = 1..Len(a) /\ DOMAIN e = 1..Len(e) /\ DOMAIN x = 1..Len(x)
  BY LenProperties
<1>2. /\ Len(all) = Len(a) + Len(e)
      /\ \A i \in 1..Len(a) + Len(e) : all[i] = IF i <= Len(a) THEN a[i] ELSE e[i - Len(a)]
  BY ConcatProperties
<1>3. PICK off \in 0..Len(all) : Len(x) = Len(all) - off /\ \A i \in 1..Len(x) : x[i] = all[i + off]
  BY Zenon DEF Suffix
<1> SUFFICES ASSUME NEW i \in DOMAIN x, Newer(x, i) = {}
             PROVE  /\ x[i].key \in Retained(s2) => s2.features[x[i].key].version = x[i].version
                    /\ x[i].key \in Stored(s2) => s2.groups[x[i].key].version = x[i].version
  BY DEF AuditOK, Names
<1> HIDE DEF a, x, all
<1>4. i \in Nat /\ off \in Nat /\ i >= 1 /\ i <= Len(x) /\ i + off <= Len(a) + Len(e) /\ x[i] = all[i + off]
  BY <1>1, <1>2, <1>3
<1>5. \A j \in 1..Len(a) + Len(e) : j > i + off => all[j].key # x[i].key
  <2> SUFFICES ASSUME NEW j \in 1..Len(a) + Len(e), j > i + off PROVE all[j].key # x[i].key
    OBVIOUS
  <2>1. j - off \in 1..Len(x) /\ j - off > i /\ (j - off) + off = j
    BY <1>1, <1>2, <1>3, <1>4
  <2>2. x[j - off] = all[j]
    BY <1>3, <2>1
  <2> QED
    BY <1>1, <2>1, <2>2 DEF Newer
<1>6. CASE i + off <= Len(a)
  <2>1. i + off \in DOMAIN a /\ a[i + off] = x[i] /\ i + off \in 1..Len(a) + Len(e)
    BY <1>1, <1>2, <1>4, <1>6
  <2>2. Newer(a, i + off) = {}
    <3>1. \A j \in DOMAIN a : j > i + off => a[j].key # a[i + off].key
      BY <1>1, <1>2, <1>5, <2>1
    <3> QED
      BY <3>1 DEF Newer
  <2>3. \A j \in DOMAIN e : e[j].key # x[i].key
    <3> SUFFICES ASSUME NEW j \in DOMAIN e PROVE e[j].key # x[i].key
      OBVIOUS
    <3>1. /\ j + Len(a) \in 1..Len(a) + Len(e) /\ j + Len(a) > i + off
          /\ ~(j + Len(a) <= Len(a)) /\ (j + Len(a)) - Len(a) = j
      BY <1>1, <1>4, <1>6
    <3>2. all[j + Len(a)] = e[j]
      BY <1>2, <3>1
    <3> QED
      BY <1>5, <3>1, <3>2
  <2>4. /\ a[i + off].key \in Retained(s) => s.features[a[i + off].key].version = a[i + off].version
        /\ a[i + off].key \in Stored(s) => s.groups[a[i + off].key].version = a[i + off].version
    BY <2>1, <2>2 DEF AuditOK, Names, a
  <2>5. /\ x[i].key \in Retained(s2) => s2.features[x[i].key] = s.features[x[i].key]
        /\ x[i].key \in Stored(s2) => s2.groups[x[i].key] = s.groups[x[i].key]
    BY <2>3 DEF Untouched
  <2> QED
    BY <2>1, <2>4, <2>5 DEF Retained, Stored
<1>7. CASE ~(i + off <= Len(a))
  <2> DEFINE m == (i + off) - Len(a)
  <2>1. m \in DOMAIN e /\ e[m] = x[i] /\ m + Len(a) = i + off
    BY <1>1, <1>2, <1>4, <1>7
  <2> HIDE DEF m
  <2>2. Newer(e, m) = {}
    <3>1. ASSUME NEW j \in DOMAIN e, j > m PROVE e[j].key # e[m].key
      <4>1. /\ j + Len(a) \in 1..Len(a) + Len(e) /\ j + Len(a) > i + off
            /\ ~(j + Len(a) <= Len(a)) /\ (j + Len(a)) - Len(a) = j
        <5>1. j \in 1..Len(e) /\ m \in 1..Len(e) /\ Len(a) \in Nat /\ Len(e) \in Nat
          BY <1>1, <2>1
        <5> QED
          BY <2>1, <3>1, <5>1
      <4>2. all[j + Len(a)] = e[j]
        BY <1>2, <4>1
      <4> QED
        BY <1>5, <2>1, <4>1, <4>2
    <3> QED
      BY <3>1 DEF Newer
  <2> QED
    BY <2>1, <2>2 DEF Names
<1> QED
  BY <1>6, <1>7

-----------------------------------------------------------------------------
(* Operations that write one feature or one group                           *)

\* What appendAuditLocked gives back.
LEMMA Appended ==
  ASSUME NEW audit \in Seq(AuditEntry), NEW e \in Seq(AuditEntry)
  PROVE  /\ appendAudit(audit, e) \in Seq(AuditEntry)
         /\ Len(appendAudit(audit, e)) <= MaxAuditEntries
         /\ Suffix(appendAudit(audit, e), audit \o e)
<1>1. audit \o e \in Seq(AuditEntry) /\ MaxAuditEntries \in Nat
  BY ConcatProperties, LimitsAssumption
<1> QED
  BY <1>1, NewestFacts, Zenon DEF appendAudit

\* A trail of one entry.
LEMMA OneEntry ==
  ASSUME NEW k \in Keys \cup GroupKeys, NEW v \in Nat \ {0}
  PROVE  LET e == <<Entry(k, v)>>
         IN  e \in Seq(AuditEntry) /\ DOMAIN e = {1} /\ e[1].key = k /\ e[1].version = v
BY DEF Entry, AuditEntry

\* The forest is a matter of the groups alone.
LEMMA SameGroups ==
  ASSUME NEW s, NEW s2, ForestOK(s), s2.groups = s.groups
  PROVE  ForestOK(s2)
BY DEF ForestOK, validateGroupGraph, Stored

\* The fields of a tenant.
LEMMA Fields ==
  ASSUME NEW s, TenantOK(s)
  PROVE  /\ s \in Tenant /\ s.features \in [Keys -> FeatureRecord \cup {None}]
         /\ s.groups \in [GroupKeys -> StoredGroup \cup {None}]
         /\ s.staged \in SUBSET StagedChange /\ s.nextStage \in Nat
         /\ s.audit \in Seq(AuditEntry)
         /\ \A k \in Retained(s) : s.features[k] \in FeatureRecord
         /\ \A g \in Stored(s) : s.groups[g] \in StoredGroup
BY DEF TenantOK, Tenant, Retained, Stored

\* A feature is created, or written with the version after the one it had.
LEMMA PutStep ==
  ASSUME NEW s, StateInv(s), NEW k \in Keys, NEW r \in FeatureRecord,
         k \in Retained(s) => r.version = s.features[k].version + 1
  PROVE  StateInv(Put(s, k, r)) /\ Keeps(s, Put(s, k, r))
<1> DEFINE e == <<Entry(k, r.version)>>
           s2 == Put(s, k, r)
<1>1. TenantOK(s) /\ ForestOK(s) /\ AuditOK(s)
  BY DEF StateInv
<1>2. r.version \in Nat \ {0} /\ k \notin GroupKeys /\ None \notin FeatureRecord
  BY InputsAssumption DEF FeatureRecord
<1>3. e \in Seq(AuditEntry) /\ DOMAIN e = {1} /\ e[1].key = k /\ e[1].version = r.version
  BY <1>2, OneEntry
<1> HIDE DEF e
<1>4. /\ appendAudit(s.audit, e) \in Seq(AuditEntry)
      /\ Len(appendAudit(s.audit, e)) <= MaxAuditEntries
      /\ Suffix(appendAudit(s.audit, e), s.audit \o e)
  BY <1>1, <1>3, Fields, Appended
<1>5. /\ s2.features = [s.features EXCEPT ![k] = r] /\ s2.groups = s.groups
      /\ s2.staged = s.staged /\ s2.nextStage = s.nextStage
      /\ s2.audit = appendAudit(s.audit, e) /\ s2 \in Tenant
  <2>1. s2 = [s EXCEPT !.features[k] = r, !.audit = appendAudit(@, e)]
    BY DEF Put, e
  <2>2. [s.features EXCEPT ![k] = r] \in [Keys -> FeatureRecord \cup {None}]
    BY <1>1, Fields
  <2> HIDE DEF s2
  <2> QED
    BY <1>1, <1>4, <2>1, <2>2, Fields, Zenon DEF Tenant
<1> HIDE DEF s2
<1>6. TenantOK(s2)
  BY <1>1, <1>4, <1>5 DEF TenantOK
<1>7. ForestOK(s2)
  BY <1>1, <1>5, SameGroups
<1>8. /\ s2.features[k] = r
      /\ \A x \in Keys : x # k => s2.features[x] = s.features[x]
  BY <1>1, <1>5, Fields
<1>9. AuditOK(s2)
  <2>1. Names(e, s2)
    BY <1>2, <1>3, <1>8 DEF Names, Stored
  <2>2. Untouched(e, s, s2)
    BY <1>3, <1>5, <1>8 DEF Untouched, Retained
  <2> QED
    BY <1>1, <1>3, <1>4, <1>5, <2>1, <2>2, Fields, AuditStep
<1>10. Keeps(s, s2)
  BY <1>2, <1>5, <1>8 DEF Keeps, Retained
<1> QED
  BY <1>6, <1>7, <1>9, <1>10 DEF StateInv, s2

\* A group is written, and the groups have been validated.
LEMMA PutGroupStep ==
  ASSUME NEW s, StateInv(s), NEW g \in GroupKeys, NEW r \in StoredGroup,
         cloneAndValidateGroups(PutGroup(s, g, r))
  PROVE  StateInv(PutGroup(s, g, r)) /\ Keeps(s, PutGroup(s, g, r))
<1> DEFINE e == <<Entry(g, r.version)>>
           s2 == PutGroup(s, g, r)
<1>1. TenantOK(s) /\ ForestOK(s) /\ AuditOK(s)
  BY DEF StateInv
<1>2. r.version \in Nat \ {0} /\ g \notin Keys /\ None \notin StoredGroup
  BY InputsAssumption DEF StoredGroup
<1>3. e \in Seq(AuditEntry) /\ DOMAIN e = {1} /\ e[1].key = g /\ e[1].version = r.version
  BY <1>2, OneEntry
<1>4. ForestOK(s2)
  BY DEF cloneAndValidateGroups, ForestOK
<1> HIDE DEF e
<1>5. /\ appendAudit(s.audit, e) \in Seq(AuditEntry)
      /\ Len(appendAudit(s.audit, e)) <= MaxAuditEntries
      /\ Suffix(appendAudit(s.audit, e), s.audit \o e)
  BY <1>1, <1>3, Fields, Appended
<1>6. /\ s2.groups = [s.groups EXCEPT ![g] = r] /\ s2.features = s.features
      /\ s2.staged = s.staged /\ s2.nextStage = s.nextStage
      /\ s2.audit = appendAudit(s.audit, e) /\ s2 \in Tenant
  <2>1. s2 = [s EXCEPT !.groups[g] = r, !.audit = appendAudit(@, e)]
    BY DEF PutGroup, e
  <2>2. [s.groups EXCEPT ![g] = r] \in [GroupKeys -> StoredGroup \cup {None}]
    BY <1>1, Fields
  <2> HIDE DEF s2
  <2> QED
    BY <1>1, <1>5, <2>1, <2>2, Fields, Zenon DEF Tenant
<1> HIDE DEF s2
<1>7. TenantOK(s2)
  BY <1>1, <1>5, <1>6 DEF TenantOK
<1>8. /\ s2.groups[g] = r
      /\ \A x \in GroupKeys : x # g => s2.groups[x] = s.groups[x]
  BY <1>1, <1>6, Fields
<1>9. AuditOK(s2)
  <2>1. Names(e, s2)
    BY <1>2, <1>3, <1>8 DEF Names, Retained
  <2>2. Untouched(e, s, s2)
    BY <1>3, <1>6, <1>8 DEF Untouched, Stored
  <2> QED
    BY <1>1, <1>3, <1>5, <1>6, <2>1, <2>2, Fields, AuditStep
<1>10. Keeps(s, s2)
  BY <1>6 DEF Keeps, Retained
<1> QED
  BY <1>4, <1>7, <1>9, <1>10 DEF StateInv, s2

\* What an operation that takes a tenant from s to s2 has to show.
Good(s, s2) == StateInv(s2) /\ Keeps(s, s2)

\* An operation that changes nothing.
LEMMA NoChange ==
  ASSUME NEW s, StateInv(s)
  PROVE  Good(s, s)
BY DEF Good, Keeps

\* CreateFeature adds a feature at version 1, with its audit entry.
LEMMA CreateStep ==
  ASSUME NEW s, StateInv(s), NEW op \in CreateOps, CanCreate(s, op)
  PROVE  Good(s, Create(s, op))
<1>1. op.key \in Keys /\ op.def \in Definition
  BY InputsAssumption DEF CreateOps
<1>2. Record(1, op.def, FALSE) \in FeatureRecord
  BY <1>1 DEF Record, FeatureRecord
<1> QED
  BY <1>1, <1>2, PutStep, Zenon DEF Good, Create, CanCreate

\* The new version of a feature that is retained at version v.
LEMMA NewRecord ==
  ASSUME NEW v \in Versions, NEW d \in Definition, NEW gone \in BOOLEAN
  PROVE  /\ Record(v + 1, d, gone) \in FeatureRecord
         /\ Record(v + 1, d, gone).version = v + 1
<1>1. v + 1 \in Nat \ {0}
  BY LimitsAssumption DEF Versions
<1> QED
  BY <1>1 DEF Record, FeatureRecord

\* UpdateFeature writes the version after the expected one.
LEMMA UpdateStep ==
  ASSUME NEW s, StateInv(s), NEW op \in UpdateOps, CanUpdate(s, op)
  PROVE  Good(s, Update(s, op))
<1>1. op.key \in Keys /\ op.def \in Definition /\ op.expected \in Versions
  BY InputsAssumption DEF UpdateOps
<1> QED
  BY <1>1, NewRecord, PutStep, Zenon DEF Good, Update, CanUpdate, LiveAt

\* The definition of a retained feature, and the ones made from it.
LEMMA RetainedDefinition ==
  ASSUME NEW s, StateInv(s), NEW k \in Retained(s)
  PROVE  LET d == s.features[k].def
         IN  /\ d \in Definition
             /\ \A to \in Lifecycles : [d EXCEPT !.lifecycle = to] \in Definition
             /\ \A G \in SUBSET GroupKeys : [d EXCEPT !.groups = G] \in Definition
<1>1. s.features[k] \in FeatureRecord
  BY Fields DEF StateInv
<1> QED
  BY <1>1 DEF FeatureRecord, Definition

\* Activate, Deactivate and Delete keep the definition but for its lifecycle.
LEMMA LifecycleStep ==
  ASSUME NEW s, StateInv(s), NEW op \in LifecycleOps({"active", "inactive", "archived"}),
         CanSetLifecycle(s, op)
  PROVE  Good(s, setLifecycle(s, op))
<1>1. op.key \in Keys /\ op.to \in Lifecycles /\ op.expected \in Versions
  BY DEF LifecycleOps, Lifecycles
<1>2. op.key \in Retained(s) /\ s.features[op.key].version = op.expected
  BY DEF CanSetLifecycle, LiveAt, Live
<1>3. [s.features[op.key].def EXCEPT !.lifecycle = op.to] \in Definition
  BY <1>1, <1>2, RetainedDefinition
<1> QED
  BY <1>1, <1>2, <1>3, NewRecord, PutStep, Zenon DEF Good, setLifecycle

\* RestoreFeature turns a tombstone back into a feature, one version later.
LEMMA RestoreStep ==
  ASSUME NEW s, StateInv(s), NEW op \in RestoreOps, CanRestore(s, op)
  PROVE  Good(s, Restore(s, op))
<1>1. op.key \in Keys /\ op.expected \in Versions /\ "inactive" \in Lifecycles
  BY DEF RestoreOps, Lifecycles
<1>2. op.key \in Retained(s) /\ s.features[op.key].version = op.expected
  BY DEF CanRestore
<1>3. [s.features[op.key].def EXCEPT !.lifecycle = "inactive"] \in Definition
  BY <1>1, <1>2, RetainedDefinition
<1> QED
  BY <1>1, <1>2, <1>3, NewRecord, PutStep, Zenon DEF Good, Restore

\* CreateGroup validates the forest with the new group in it.
LEMMA CreateGroupStep ==
  ASSUME NEW s, StateInv(s), NEW op \in CreateGroupOps, CanCreateGroup(s, op)
  PROVE  Good(s, CreateGroup(s, op))
<1>1. op.group \in GroupKeys /\ op.def \in GroupDefinition
  BY InputsAssumption DEF CreateGroupOps
<1>2. GroupRecord(1, op.def) \in StoredGroup
  BY <1>1 DEF GroupRecord, StoredGroup
<1> QED
  BY <1>1, <1>2, PutGroupStep DEF Good, CreateGroup, CanCreateGroup

\* UpdateGroup validates the forest with the group replaced.
LEMMA UpdateGroupStep ==
  ASSUME NEW s, StateInv(s), NEW op \in UpdateGroupOps, CanUpdateGroup(s, op)
  PROVE  Good(s, UpdateGroup(s, op))
<1>1. op.group \in GroupKeys /\ op.def \in GroupDefinition /\ op.expected \in Versions
  BY InputsAssumption DEF UpdateGroupOps
<1>2. op.expected + 1 \in Nat \ {0}
  BY <1>1, LimitsAssumption DEF Versions
<1>3. GroupRecord(op.expected + 1, op.def) \in StoredGroup
  BY <1>1, <1>2 DEF GroupRecord, StoredGroup
<1> QED
  BY <1>1, <1>3, PutGroupStep DEF Good, UpdateGroup, CanUpdateGroup

\* AssignGroup changes nothing, or writes the next version of the feature.
LEMMA AssignStep ==
  ASSUME NEW s, StateInv(s), NEW op \in AssignOps, CanAssignGroup(s, op)
  PROVE  Good(s, AssignGroup(s, op))
<1> DEFINE d == s.features[op.key].def
<1>1. op.key \in Keys /\ op.group \in GroupKeys /\ op.expected \in Versions
  BY DEF AssignOps
<1>2. op.key \in Retained(s) /\ s.features[op.key].version = op.expected
  BY DEF CanAssignGroup, LiveAt, Live
<1>3. CASE op.group \in d.groups
  <2>1. AssignGroup(s, op) = s
    BY <1>3 DEF AssignGroup
  <2> QED
    BY <2>1, NoChange
<1>4. CASE op.group \notin d.groups
  <2>1. d \in Definition
    BY <1>2, RetainedDefinition
  <2>2. d.groups \cup {op.group} \in SUBSET GroupKeys
    BY <1>1, <2>1 DEF Definition
  <2>3. [d EXCEPT !.groups = d.groups \cup {op.group}] \in Definition
    BY <1>2, <2>2, RetainedDefinition, Zenon
  <2>4. AssignGroup(s, op) = Put(s, op.key, Record(op.expected + 1, [d EXCEPT !.groups = d.groups \cup {op.group}], FALSE))
    BY <1>4 DEF AssignGroup
  <2> QED
    BY <1>1, <1>2, <2>3, <2>4, NewRecord, PutStep, Zenon DEF Good
<1> QED
  BY <1>3, <1>4

\* RemoveGroup writes the next version of the feature.
LEMMA RemoveStep ==
  ASSUME NEW s, StateInv(s), NEW op \in RemoveOps, CanRemoveGroup(s, op)
  PROVE  Good(s, RemoveGroup(s, op))
<1> DEFINE d == s.features[op.key].def
<1>1. op.key \in Keys /\ op.group \in GroupKeys /\ op.expected \in Versions
  BY DEF RemoveOps
<1>2. op.key \in Retained(s) /\ s.features[op.key].version = op.expected
  BY DEF CanRemoveGroup, LiveAt, Live
<1>3. d \in Definition
  BY <1>2, RetainedDefinition
<1>4. d.groups \ {op.group} \in SUBSET GroupKeys
  BY <1>3 DEF Definition
<1>5. [d EXCEPT !.groups = d.groups \ {op.group}] \in Definition
  BY <1>2, <1>4, RetainedDefinition, Zenon
<1>6. RemoveGroup(s, op) = Put(s, op.key, Record(op.expected + 1, [d EXCEPT !.groups = d.groups \ {op.group}], FALSE))
  BY DEF RemoveGroup
<1> QED
  BY <1>1, <1>2, <1>5, <1>6, NewRecord, PutStep, Zenon DEF Good

-----------------------------------------------------------------------------
(* DeleteGroup                                                              *)

\* The walk towards the root is what its definition says, whatever the groups hold.
LEMMA Walk ==
  ASSUME NEW groups, NEW g
  PROVE  LET up == Ancestor(groups, g)
         IN  up = [n \in 0..(MaxGroupDepth + 1) |->
                     IF n = 0 THEN g
                     ELSE IF up[n - 1] = None THEN None ELSE groups[up[n - 1]].def.parent]
<1> DEFINE Up(x) == IF x = None THEN None ELSE groups[x].def.parent
           Walks(f, n) == f = [m \in 0..n |-> IF m = 0 THEN g ELSE Up(f[m - 1])]
           S == {n \in Nat : \E f : Walks(f, n)}
<1>1. 0 \in S
  <2>1. Walks([m \in 0..0 |-> g], 0)
    OBVIOUS
  <2> QED
    BY <2>1, Zenon
<1>2. ASSUME NEW n \in S PROVE n + 1 \in S
  <2>1. PICK f : Walks(f, n)
    BY <1>2
  <2> DEFINE h == [m \in 0..(n + 1) |-> IF m = n + 1 THEN Up(f[n]) ELSE f[m]]
  <2>2. n \in Nat
    BY <1>2
  <2>3. \A m \in 0..(n + 1) : h[m] = IF m = 0 THEN g ELSE Up(h[m - 1])
    <3> SUFFICES ASSUME NEW m \in 0..(n + 1) PROVE h[m] = IF m = 0 THEN g ELSE Up(h[m - 1])
      OBVIOUS
    <3> HIDE DEF Up
    <3>1. CASE m = n + 1
      <4>1. h[m] = Up(f[n]) /\ m # 0 /\ m - 1 = n /\ n \in 0..(n + 1) /\ n # n + 1
        BY <2>2, <3>1
      <4>2. h[n] = f[n]
        BY <4>1
      <4> QED
        BY <4>1, <4>2
    <3>2. CASE m # n + 1
      <4>1. m \in 0..n /\ (m # 0 => m - 1 \in 0..(n + 1) /\ m - 1 # n + 1)
        BY <2>2, <3>2
      <4>2. h[m] = f[m] /\ (m # 0 => h[m - 1] = f[m - 1])
        BY <3>2, <4>1
      <4> QED
        BY <2>1, <4>1, <4>2
    <3> QED
      BY <3>1, <3>2
  <2>4. Walks(h, n + 1)
    <3> HIDE DEF Up
    <3>1. h = [m \in 0..(n + 1) |-> h[m]]
      OBVIOUS
    <3> HIDE DEF h
    <3> QED
      BY <2>3, <3>1, Zenon
  <2> HIDE DEF h, Walks
  <2> QED
    BY <2>2, <2>4
<1>3. S \in SUBSET Nat
  OBVIOUS
<1>4. S = Nat
  <2> HIDE DEF S
  <2> QED
    BY <1>1, <1>2, <1>3, Induction
<1>5. MaxGroupDepth + 1 \in Nat
  BY LimitsAssumption
<1>6. \E f : Walks(f, MaxGroupDepth + 1)
  <2> HIDE DEF Walks
  <2> QED
    BY <1>4, <1>5
<1> QED
  BY <1>6, Zenon DEF Ancestor

\* The walk starts at its group and steps to the parent.
LEMMA WalkSteps ==
  ASSUME NEW groups, NEW g
  PROVE  /\ Ancestor(groups, g)[0] = g
         /\ \A n \in Nat : n + 1 <= MaxGroupDepth + 1 =>
              Ancestor(groups, g)[n + 1] =
                IF Ancestor(groups, g)[n] = None THEN None
                ELSE groups[Ancestor(groups, g)[n]].def.parent
<1>1. PICK up : /\ up = Ancestor(groups, g)
                /\ up = [n \in 0..(MaxGroupDepth + 1) |->
                          IF n = 0 THEN g
                          ELSE IF up[n - 1] = None THEN None ELSE groups[up[n - 1]].def.parent]
  BY Walk
<1>2. MaxGroupDepth \in Nat
  BY LimitsAssumption
<1>3. ASSUME NEW n \in Nat, n + 1 <= MaxGroupDepth + 1
      PROVE  up[n + 1] = IF up[n] = None THEN None ELSE groups[up[n]].def.parent
  <2>1. n + 1 \in 0..(MaxGroupDepth + 1) /\ n + 1 # 0 /\ (n + 1) - 1 = n
    BY <1>2, <1>3
  <2> QED
    BY <1>1, <2>1, Zenon
<1>4. up[0] = g
  BY <1>1, <1>2
<1> QED
  BY <1>1, <1>3, <1>4, Zenon

\* A deleted group is on no walk: it is no group's parent, so that the walks from the
\* others are the same walks.
LEMMA DeleteKeepsForest ==
  ASSUME NEW s, TenantOK(s), ForestOK(s), NEW x \in GroupKeys,
         \A g \in Stored(s) : s.groups[g].def.parent # x,
         NEW s2, s2.groups = [s.groups EXCEPT ![x] = None]
  PROVE  ForestOK(s2)
<1> DEFINE D == MaxGroupDepth + 1
<1>1. /\ Stored(s2) = Stored(s) \ {x}
      /\ \A g \in Stored(s2) : s2.groups[g] = s.groups[g]
  BY Fields DEF Stored
<1>2. \A g \in Stored(s2) : s2.groups[g].def.parent \in Stored(s2) \cup {None}
  BY <1>1 DEF ForestOK
<1> DEFINE G2 == s2.groups
<1> HIDE DEF G2
<1>3. ASSUME NEW g \in Stored(s2) PROVE Ancestor(s2.groups, g)[D] = None
  <2> DEFINE up == Ancestor(s.groups, g)
             up2 == Ancestor(G2, g)
             S == {n \in Nat : n <= D => up2[n] = up[n] /\ up[n] \in Stored(s2) \cup {None}}
  <2>1. /\ up[0] = g /\ up2[0] = g
        /\ \A n \in Nat : n + 1 <= D =>
             /\ up[n + 1] = IF up[n] = None THEN None ELSE s.groups[up[n]].def.parent
             /\ up2[n + 1] = IF up2[n] = None THEN None ELSE G2[up2[n]].def.parent
    <3>1. /\ up[0] = g
          /\ \A n \in Nat : n + 1 <= D =>
               up[n + 1] = IF up[n] = None THEN None ELSE s.groups[up[n]].def.parent
      BY WalkSteps
    <3>2. /\ up2[0] = g
          /\ \A n \in Nat : n + 1 <= D =>
               up2[n + 1] = IF up2[n] = None THEN None ELSE G2[up2[n]].def.parent
      BY WalkSteps
    <3> HIDE DEF up, up2, D
    <3> QED
      BY <3>1, <3>2
  <2>2. D \in Nat
    BY LimitsAssumption
  <2> HIDE DEF up, up2, D
  <2>3. 0 \in S
    BY <1>3, <2>1, <2>2
  <2>4. ASSUME NEW n \in S PROVE n + 1 \in S
    <3> SUFFICES ASSUME n + 1 <= D
                 PROVE  up2[n + 1] = up[n + 1] /\ up[n + 1] \in Stored(s2) \cup {None}
      BY <2>4
    <3>1. n \in Nat /\ n + 1 \in 0..D /\ n + 1 # 0 /\ (n + 1) - 1 = n /\ n <= D
      BY <2>2, <2>4
    <3>2. up2[n] = up[n] /\ up[n] \in Stored(s2) \cup {None}
      BY <2>4, <3>1
    <3>3. /\ up[n + 1] = IF up[n] = None THEN None ELSE s.groups[up[n]].def.parent
          /\ up2[n + 1] = IF up2[n] = None THEN None ELSE G2[up2[n]].def.parent
      BY <2>1, <3>1
    <3> QED
      BY <1>1, <1>2, <3>2, <3>3 DEF G2
  <2>5. S = Nat
    <3>1. S \in SUBSET Nat
      OBVIOUS
    <3> HIDE DEF S
    <3> QED
      BY <2>3, <2>4, <3>1, Induction
  <2>6. up2[D] = up[D]
    BY <2>2, <2>5
  <2>7. up[D] = None
    BY <1>1, <1>3 DEF ForestOK, validateGroupGraph, up, D
  <2> QED
    BY <2>6, <2>7 DEF up2, G2
<1> QED
  BY <1>2, <1>3 DEF ForestOK, validateGroupGraph

\* DeleteGroup does not validate the graph, and need not.
LEMMA DeleteGroupStep ==
  ASSUME NEW s, StateInv(s), NEW op \in DeleteGroupOps, CanDeleteGroup(s, op)
  PROVE  Good(s, DeleteGroup(s, op))
<1> DEFINE x == op.group
           e == <<Entry(x, op.expected + 1)>>
           s2 == DeleteGroup(s, op)
<1>1. TenantOK(s) /\ ForestOK(s) /\ AuditOK(s)
  BY DEF StateInv
<1>2. x \in GroupKeys /\ x \notin Keys /\ op.expected \in Versions
  BY InputsAssumption DEF DeleteGroupOps
<1>3. op.expected + 1 \in Nat \ {0}
  BY <1>2, LimitsAssumption DEF Versions
<1>4. e \in Seq(AuditEntry) /\ DOMAIN e = {1} /\ e[1].key = x
  BY <1>2, <1>3, OneEntry
<1> HIDE DEF e
<1>5. /\ appendAudit(s.audit, e) \in Seq(AuditEntry)
      /\ Len(appendAudit(s.audit, e)) <= MaxAuditEntries
      /\ Suffix(appendAudit(s.audit, e), s.audit \o e)
  BY <1>1, <1>4, Fields, Appended
<1>6. /\ s2.groups = [s.groups EXCEPT ![x] = None] /\ s2.features = s.features
      /\ s2.staged = s.staged /\ s2.nextStage = s.nextStage
      /\ s2.audit = appendAudit(s.audit, e) /\ s2 \in Tenant
  <2>1. s2 = [s EXCEPT !.groups[x] = None, !.audit = appendAudit(@, e)]
    BY DEF DeleteGroup, e
  <2>2. [s.groups EXCEPT ![x] = None] \in [GroupKeys -> StoredGroup \cup {None}]
    BY <1>1, Fields, Zenon
  <2> HIDE DEF s2, x
  <2>3. s \in Tenant
    BY <1>1, Fields
  <2>4. /\ s2.groups = [s.groups EXCEPT ![x] = None] /\ s2.features = s.features
        /\ s2.staged = s.staged /\ s2.nextStage = s.nextStage
        /\ s2.audit = appendAudit(s.audit, e)
    BY <2>1, <2>3 DEF Tenant
  <2>5. s2 \in Tenant
    BY <1>2, <1>5, <2>1, <2>2, <2>3, Zenon DEF Tenant
  <2> QED
    BY <2>4, <2>5
<1>7. \A g \in Stored(s) : s.groups[g].def.parent # x
  BY DEF CanDeleteGroup
<1> HIDE DEF s2, x
<1>8. TenantOK(s2)
  BY <1>1, <1>5, <1>6 DEF TenantOK
<1>9. ForestOK(s2)
  BY <1>1, <1>2, <1>6, <1>7, DeleteKeepsForest
<1>10. /\ s2.groups[x] = None
       /\ \A g \in GroupKeys : g # x => s2.groups[g] = s.groups[g]
  BY <1>1, <1>2, <1>6, Fields
<1>11. AuditOK(s2)
  <2>1. Names(e, s2)
    BY <1>2, <1>4, <1>10 DEF Names, Retained, Stored
  <2>2. Untouched(e, s, s2)
    BY <1>4, <1>6, <1>10 DEF Untouched, Stored
  <2> QED
    BY <1>1, <1>4, <1>5, <1>6, <2>1, <2>2, Fields, AuditStep
<1>12. Keeps(s, s2)
  BY <1>6 DEF Keeps, Retained
<1> QED
  BY <1>8, <1>9, <1>11, <1>12 DEF StateInv, Good, s2

-----------------------------------------------------------------------------
(* Stages                                                                   *)

\* StageUpdate gives out a new ID, and the stage faces the feature it was made for.
LEMMA StageStep ==
  ASSUME NEW s, StateInv(s), NEW op \in StageOps, CanStageUpdate(s, op)
  PROVE  Good(s, StageUpdate(s, op))
<1> DEFINE c == Change(s.nextStage + 1, op.key, op.def, op.expected, op.at)
           e == <<Entry(op.key, op.expected)>>
           s2 == StageUpdate(s, op)
<1>1. TenantOK(s) /\ ForestOK(s) /\ AuditOK(s)
  BY DEF StateInv
<1>2. op.key \in Keys /\ op.key \notin GroupKeys /\ op.expected \in Versions /\ op.def \in Definition
      /\ op.at \in Times \cup {0}
  BY InputsAssumption DEF StageOps
<1>3. op.expected \in Nat \ {0}
  BY <1>2, LimitsAssumption DEF Versions
<1>4. e \in Seq(AuditEntry) /\ DOMAIN e = {1} /\ e[1].key = op.key /\ e[1].version = op.expected
  BY <1>2, <1>3, OneEntry
<1>5. /\ c \in StagedChange /\ c.id = s.nextStage + 1 /\ c.key = op.key /\ c.expected = op.expected
      /\ s.nextStage \in Nat /\ s.staged \in SUBSET StagedChange
  <2>1. s.nextStage \in Nat /\ s.nextStage + 1 \in Nat \ {0} /\ s.staged \in SUBSET StagedChange
    BY <1>1, Fields
  <2> QED
    BY <1>2, <1>3, <2>1 DEF Change, StagedChange
<1> HIDE DEF e
<1>6. /\ appendAudit(s.audit, e) \in Seq(AuditEntry)
      /\ Len(appendAudit(s.audit, e)) <= MaxAuditEntries
      /\ Suffix(appendAudit(s.audit, e), s.audit \o e)
  BY <1>1, <1>4, Fields, Appended
<1>7. /\ s2.groups = s.groups /\ s2.features = s.features
      /\ s2.staged = s.staged \cup {c} /\ s2.nextStage = s.nextStage + 1
      /\ s2.audit = appendAudit(s.audit, e) /\ s2 \in Tenant
  <2>1. s2 = [s EXCEPT !.nextStage = @ + 1, !.staged = @ \cup {c}, !.audit = appendAudit(@, e)]
    BY DEF StageUpdate, e
  <2> HIDE DEF s2, c
  <2>2. s \in Tenant /\ s.nextStage + 1 \in Nat /\ s.staged \cup {c} \in SUBSET StagedChange
    BY <1>1, <1>5, Fields
  <2>3. /\ s2.groups = s.groups /\ s2.features = s.features
        /\ s2.staged = s.staged \cup {c} /\ s2.nextStage = s.nextStage + 1
        /\ s2.audit = appendAudit(s.audit, e)
    BY <2>1, <2>2 DEF Tenant
  <2>4. s2 \in Tenant
    BY <1>6, <2>1, <2>2, Zenon DEF Tenant
  <2> QED
    BY <2>3, <2>4
<1>8. LiveAt(s, op.key, op.expected) /\ Cardinality(s.staged) < MaxStagedChanges
  BY DEF CanStageUpdate
<1> HIDE DEF s2, c
<1>9. \A d \in s.staged : d.id \in Nat /\ d.id <= s.nextStage /\ d.id # c.id
  <2>1. \A d \in s.staged : d.id \in Nat /\ d.id <= s.nextStage
    BY <1>1, <1>5 DEF TenantOK, StagedChange
  <2> QED
    BY <1>5, <2>1
<1>10. TenantOK(s2)
  <2>1. IsFiniteSet(s2.staged) /\ Cardinality(s2.staged) <= MaxStagedChanges
    <3>1. IsFiniteSet(s.staged) /\ Cardinality(s.staged) \in Nat /\ MaxStagedChanges \in Nat
      BY <1>1, FS_CardinalityType, LimitsAssumption DEF TenantOK
    <3>2. /\ IsFiniteSet(s.staged \cup {c})
          /\ Cardinality(s.staged \cup {c}) = IF c \in s.staged THEN Cardinality(s.staged) ELSE Cardinality(s.staged) + 1
      BY <3>1, FS_AddElement
    <3> QED
      BY <1>7, <1>8, <3>1, <3>2
  <2>2. \A d \in s2.staged : d.id <= s2.nextStage
    BY <1>5, <1>7, <1>9
  <2>3. \A d, b \in s2.staged : d.id = b.id => d = b
    BY <1>1, <1>7, <1>9 DEF TenantOK
  <2> QED
    BY <1>6, <1>7, <2>1, <2>2, <2>3 DEF TenantOK
<1>11. ForestOK(s2)
  BY <1>1, <1>7, SameGroups
<1>12. AuditOK(s2)
  <2>1. Names(e, s2)
    BY <1>2, <1>4, <1>7, <1>8 DEF Names, Stored, LiveAt
  <2>2. Untouched(e, s, s2)
    BY <1>7 DEF Untouched
  <2> QED
    BY <1>1, <1>4, <1>6, <1>7, <2>1, <2>2, Fields, AuditStep
<1>13. Keeps(s, s2)
  BY <1>5, <1>7, <1>8 DEF Keeps, Retained
<1> QED
  BY <1>10, <1>11, <1>12, <1>13 DEF StateInv, Good, s2

\* A sequence that lists a finite set once lists all of it.
LEMMA ListsAll ==
  ASSUME NEW C, IsFiniteSet(C), NEW f \in [1..Cardinality(C) -> C],
         \A i, j \in 1..Cardinality(C) : f[i] = f[j] => i = j
  PROVE  \A c \in C : \E i \in 1..Cardinality(C) : f[i] = c
<1> DEFINE n == Cardinality(C)
<1>1. n \in Nat
  BY FS_CardinalityType
<1>2. Cardinality(1..n) = n
  <2>1. 1 \in Int /\ n \in Int
    BY <1>1
  <2>2. Cardinality(1..n) = IF 1 > n THEN 0 ELSE n - 1 + 1
    BY <2>1, FS_Interval
  <2> QED
    BY <1>1, <2>2
<1>3. f \in Injection(1..n, C)
  BY DEF Injection, IsInjective
<1>4. f \in Surjection(1..n, C)
  BY <1>2, <1>3, FS_Injection
<1> QED
  BY <1>4 DEF Surjection

\* Changes with different IDs can be put in order, and all of them are.
LEMMA InOrderFacts ==
  ASSUME NEW C \in SUBSET StagedChange, IsFiniteSet(C), \A c, d \in C : c.id = d.id => c = d
  PROVE  /\ InOrder(C) \in [1..Cardinality(C) -> C]
         /\ \A c \in C : \E i \in 1..Cardinality(C) : InOrder(C)[i] = c
<1> DEFINE Sorted(f, n, B) == /\ f \in [1..n -> B]
                              /\ \A i, j \in 1..n : i < j => f[i].id < f[j].id
           S == {n \in Nat : \A B \in SUBSET C : Cardinality(B) = n => \E f : Sorted(f, n, B)}
<1>0. \A c \in C : c.id \in Nat
  BY DEF StagedChange
<1>1. 0 \in S
  <2>1. ASSUME NEW B \in SUBSET C PROVE Sorted([i \in 1..0 |-> 0], 0, B)
    OBVIOUS
  <2> HIDE DEF Sorted
  <2> QED
    BY <2>1
<1>2. ASSUME NEW n \in S PROVE n + 1 \in S
  <2>0. n \in Nat /\ \A B \in SUBSET C : Cardinality(B) = n => \E f : Sorted(f, n, B)
    BY <1>2
  <2>1. ASSUME NEW B \in SUBSET C, Cardinality(B) = n + 1
        PROVE  \E f : Sorted(f, n + 1, B)
    <3> HIDE DEF Sorted
    <3>1. IsFiniteSet(B)
      BY FS_Subset
    <3>2. B # {}
      BY <2>0, <2>1, FS_EmptySet
    <3> DEFINE ids == {c.id : c \in B}
    <3>3. ids \in SUBSET Nat /\ ids # {}
      BY <1>0, <3>2
    <3>4. PICK m \in ids : \A i \in ids : m <= i
      BY <3>3, Smallest, Zenon
    <3>5. PICK b \in B : b.id = m
      BY <3>4
    <3>6. \A c \in B \ {b} : b.id < c.id
      <4> SUFFICES ASSUME NEW c \in B \ {b} PROVE b.id < c.id
        OBVIOUS
      <4>1. b.id <= c.id /\ b.id # c.id /\ b.id \in Nat /\ c.id \in Nat
        BY <1>0, <3>4, <3>5
      <4> QED
        BY <4>1
    <3>7. Cardinality(B \ {b}) = n
      <4>1. Cardinality(B \ {b}) = Cardinality(B) - 1
        BY <3>1, <3>5, FS_RemoveElement, Zenon
      <4> QED
        BY <2>0, <2>1, <4>1
    <3>8. PICK f : Sorted(f, n, B \ {b})
      <4>1. B \ {b} \in SUBSET C
        OBVIOUS
      <4> QED
        BY <2>0, <3>7, <4>1
    <3> DEFINE h == [i \in 1..(n + 1) |-> IF i = 1 THEN b ELSE f[i - 1]]
    <3>9. \A i \in 1..(n + 1) : i # 1 => i - 1 \in 1..n /\ h[i] = f[i - 1] /\ h[i] \in B \ {b}
      <4>1. \A i \in 1..(n + 1) : i # 1 => i - 1 \in 1..n
        BY <2>0
      <4> QED
        BY <3>8, <4>1 DEF Sorted
    <3>10. 1 \in 1..(n + 1) /\ h[1] = b
      BY <2>0
    <3> HIDE DEF h
    <3>11. h \in [1..(n + 1) -> B]
      <4>1. \A i \in 1..(n + 1) : h[i] \in B
        BY <3>9, <3>10
      <4> QED
        BY <4>1 DEF h
    <3>12. ASSUME NEW i \in 1..(n + 1), NEW j \in 1..(n + 1), i < j PROVE h[i].id < h[j].id
      <4>1. j # 1 /\ i \in Nat /\ j \in Nat
        BY <2>0, <3>12
      <4>2. CASE i = 1
        BY <3>6, <3>9, <3>10, <4>1, <4>2
      <4>3. CASE i # 1
        <5>1. i - 1 < j - 1 /\ i - 1 \in 1..n /\ j - 1 \in 1..n
          BY <3>9, <3>12, <4>1, <4>3
        <5>2. f[i - 1].id < f[j - 1].id
          BY <3>8, <5>1 DEF Sorted
        <5> QED
          BY <3>9, <4>1, <4>3, <5>2
      <4> QED
        BY <4>2, <4>3
    <3>13. Sorted(h, n + 1, B)
      BY <3>11, <3>12 DEF Sorted
    <3> QED
      BY <3>13
  <2> HIDE DEF Sorted
  <2> QED
    BY <2>0, <2>1
<1>3. S = Nat
  <2>1. S \in SUBSET Nat
    OBVIOUS
  <2> HIDE DEF S
  <2> QED
    BY <1>1, <1>2, <2>1, Induction
<1> DEFINE n == Cardinality(C)
<1>4. n \in Nat
  BY FS_CardinalityType
<1>5. \E f : Sorted(f, n, C)
  <2> HIDE DEF Sorted
  <2> QED
    BY <1>3, <1>4
<1>6. Sorted(InOrder(C), n, C)
  <2>1. \E f \in [1..n -> C] : \A i, j \in DOMAIN f : i < j => f[i].id < f[j].id
    BY <1>5, Zenon
  <2>2. /\ InOrder(C) \in [1..n -> C]
        /\ \A i, j \in DOMAIN InOrder(C) : i < j => InOrder(C)[i].id < InOrder(C)[j].id
    BY <2>1, Zenon DEF InOrder
  <2> QED
    BY <2>2
<1>7. ASSUME NEW i \in 1..n, NEW j \in 1..n, InOrder(C)[i] = InOrder(C)[j] PROVE i = j
  <2>1. InOrder(C)[i].id \in Nat /\ InOrder(C)[j].id = InOrder(C)[i].id
    BY <1>0, <1>6, <1>7
  <2>2. ~(i < j) /\ ~(j < i)
    BY <1>6, <2>1
  <2> QED
    BY <1>4, <2>2
<1> QED
  BY <1>6, <1>7, ListsAll, Zenon

\* Fewer stages are within the limits too.
LEMMA FewerStages ==
  ASSUME NEW s, NEW s2, TenantOK(s), s2 \in Tenant, s2.staged \subseteq s.staged,
         s2.nextStage = s.nextStage, Len(s2.audit) <= MaxAuditEntries
  PROVE  TenantOK(s2)
<1>1. /\ IsFiniteSet(s2.staged) /\ Cardinality(s2.staged) <= Cardinality(s.staged)
      /\ Cardinality(s2.staged) \in Nat /\ Cardinality(s.staged) \in Nat /\ MaxStagedChanges \in Nat
  BY FS_Subset, FS_CardinalityType, LimitsAssumption DEF TenantOK
<1>2. Cardinality(s2.staged) <= MaxStagedChanges
  BY <1>1 DEF TenantOK
<1> QED
  BY <1>1, <1>2 DEF TenantOK

\* Stages with different features that are live at the expected versions are applied.
LEMMA StagedStep ==
  ASSUME NEW s, StateInv(s), NEW C \in SUBSET s.staged,
         \A c \in C : LiveAt(s, c.key, c.expected), \A c, d \in C : c.key = d.key => c = d
  PROVE  Good(s, Staged(s, C))
<1> DEFINE n == Cardinality(C)
           o == InOrder(C)
           e == [i \in 1..n |-> Entry(o[i].key, o[i].expected + 1)]
           f == [k \in Keys |-> IF \E c \in C : c.key = k
                                THEN LET c == CHOOSE c \in C : c.key = k
                                     IN  Record(c.expected + 1, c.def, FALSE)
                                ELSE s.features[k]]
           s2 == Staged(s, C)
<1>1. TenantOK(s) /\ ForestOK(s) /\ AuditOK(s) /\ s \in Tenant /\ s.audit \in Seq(AuditEntry)
  BY Fields DEF StateInv
<1>2. C \in SUBSET StagedChange /\ IsFiniteSet(C) /\ (\A c, d \in C : c.id = d.id => c = d) /\ n \in Nat
  <2>1. C \in SUBSET StagedChange
    BY <1>1, Fields
  <2>2. IsFiniteSet(C)
    BY <1>1, FS_Subset DEF TenantOK
  <2> QED
    BY <1>1, <2>1, <2>2, FS_CardinalityType DEF TenantOK
<1>3. o \in [1..n -> C] /\ \A c \in C : \E i \in 1..n : o[i] = c
  BY <1>2, InOrderFacts
<1>4. \A c \in C : /\ c.key \in Keys /\ c.key \notin GroupKeys /\ c.def \in Definition
                   /\ c.expected \in Nat \ {0} /\ c.expected + 1 \in Nat \ {0}
  <2>1. \A c \in C : c.key \in Keys /\ c.def \in Definition /\ c.expected \in Nat \ {0}
    BY <1>2 DEF StagedChange
  <2> QED
    BY <2>1, InputsAssumption
<1>5. \A c \in C : f[c.key] = Record(c.expected + 1, c.def, FALSE)
  <2> SUFFICES ASSUME NEW c \in C PROVE f[c.key] = Record(c.expected + 1, c.def, FALSE)
    BY Zenon
  <2>1. (CHOOSE d \in C : d.key = c.key) = c
    OBVIOUS
  <2> QED
    BY <1>4, <2>1, Zenon
<1>6. \A k \in Keys : (\A c \in C : c.key # k) => f[k] = s.features[k]
  BY Zenon
<1>7. \A c \in C : /\ f[c.key] \in FeatureRecord /\ f[c.key].version = c.expected + 1
  BY <1>4, <1>5 DEF Record, FeatureRecord
<1>8. \A i \in 1..n : /\ e[i].key = o[i].key /\ e[i].version = o[i].expected + 1
                      /\ e[i] \in AuditEntry
  BY <1>3, <1>4 DEF Entry, AuditEntry
<1>9. e \in Seq(AuditEntry) /\ DOMAIN e = 1..n
  <2>1. e \in [1..n -> AuditEntry]
    BY <1>8
  <2> HIDE DEF e
  <2> QED
    BY <1>2, <2>1
<1>10. f \in [Keys -> FeatureRecord \cup {None}]
  <2>1. \A k \in Keys : f[k] \in FeatureRecord \cup {None}
    BY <1>1, <1>6, <1>7, Fields, Zenon
  <2>2. f = [k \in Keys |-> f[k]]
    OBVIOUS
  <2> HIDE DEF f
  <2> QED
    BY <2>1, <2>2
<1>11. /\ appendAudit(s.audit, e) \in Seq(AuditEntry)
       /\ Len(appendAudit(s.audit, e)) <= MaxAuditEntries
       /\ Suffix(appendAudit(s.audit, e), s.audit \o e)
  <2> HIDE DEF e
  <2> QED
    BY <1>1, <1>9, Appended
<1>12. /\ s2 \in Tenant /\ s2.features = f /\ s2.groups = s.groups /\ s2.staged = s.staged \ C
       /\ s2.audit = appendAudit(s.audit, e) /\ s2.nextStage = s.nextStage
  <2> DEFINE B == s.staged \ C
             a == appendAudit(s.audit, e)
  <2>1. s2 = [s EXCEPT !.features = f, !.staged = B, !.audit = a]
    BY DEF Staged
  <2>2. B \in SUBSET StagedChange /\ a \in Seq(AuditEntry)
    BY <1>1, <1>11, Fields
  <2> HIDE DEF s2, f, e, B, a
  <2>3. /\ s2 \in Tenant /\ s2.features = f /\ s2.groups = s.groups /\ s2.staged = B
        /\ s2.audit = a /\ s2.nextStage = s.nextStage
    <3>1. s \in Tenant
      BY <1>1
    <3> QED
      BY <1>10, <2>1, <2>2, <3>1, Zenon DEF Tenant
  <2> QED
    BY <2>3 DEF B, a
<1> HIDE DEF s2, f, e, o, n
<1>13. TenantOK(s2)
  BY <1>1, <1>11, <1>12, FewerStages
<1>14. ForestOK(s2)
  BY <1>1, <1>12, SameGroups
<1>15. AuditOK(s2)
  <2>1. Names(e, s2)
    <3> SUFFICES ASSUME NEW i \in 1..n
                 PROVE  /\ e[i].key \in Retained(s2) => s2.features[e[i].key].version = e[i].version
                        /\ e[i].key \in Stored(s2) => s2.groups[e[i].key].version = e[i].version
      BY <1>9 DEF Names
    <3>1. o[i] \in C
      BY <1>3
    <3> QED
      BY <1>4, <1>7, <1>8, <1>12, <3>1 DEF Stored
  <2>2. Untouched(e, s, s2)
    <3>1. ASSUME NEW k \in Retained(s2), \A j \in DOMAIN e : e[j].key # k
          PROVE  s2.features[k] = s.features[k]
      <4>1. \A c \in C : c.key # k
        BY <1>3, <1>8, <1>9, <3>1
      <4> QED
        BY <1>6, <1>12, <4>1 DEF Retained
    <3> QED
      BY <1>12, <3>1 DEF Untouched
  <2> QED
    BY <1>1, <1>9, <1>11, <1>12, <2>1, <2>2, AuditStep
<1>16. Keeps(s, s2)
  <2>1. ASSUME NEW k \in Retained(s)
        PROVE  /\ s2.features[k] = s.features[k] \/ s2.features[k].version = s.features[k].version + 1
               /\ k \in Retained(s2)
    <3>1. CASE \E c \in C : c.key = k
      <4>1. PICK c \in C : c.key = k
        BY <3>1
      <4>2. s.features[k].version = c.expected
        BY <4>1 DEF LiveAt
      <4> QED
        BY <1>7, <1>12, <4>1, <4>2, InputsAssumption DEF Retained
    <3>2. CASE \A c \in C : c.key # k
      BY <1>6, <1>12, <3>2 DEF Retained
    <3> QED
      BY <3>1, <3>2
  <2> QED
    BY <1>12, <2>1 DEF Keeps
<1> QED
  BY <1>13, <1>14, <1>15, <1>16 DEF StateInv, Good, s2

\* ApplyStage
LEMMA ApplyStageStep ==
  ASSUME NEW s, StateInv(s), NEW op \in ApplyStageOps, CanApplyStage(s, op)
  PROVE  Good(s, ApplyStage(s, op))
<1>1. Named(s, op) \in SUBSET s.staged
  BY DEF Named
<1> QED
  BY <1>1, StagedStep DEF CanApplyStage, applyStagesLocked, ApplyStage

\* ApplyScheduled, with something due or with nothing.
LEMMA ApplyScheduledStep ==
  ASSUME NEW s, StateInv(s), NEW op \in ApplyScheduledOps, CanApplyScheduled(s, op)
  PROVE  Good(s, ApplyScheduled(s, op))
<1>1. Due(s, op) \in SUBSET s.staged
  BY DEF Due
<1>2. /\ \A c \in Due(s, op) : LiveAt(s, c.key, c.expected)
      /\ \A c, d \in Due(s, op) : c.key = d.key => c = d
  BY DEF CanApplyScheduled, applyStagesLocked
<1> QED
  BY <1>1, <1>2, StagedStep DEF ApplyScheduled

-----------------------------------------------------------------------------
(* Cleanup and import                                                       *)

\* A purged feature takes its stages with it.
LEMMA CleanupStep ==
  ASSUME NEW s, StateInv(s), NEW op \in CleanupOps
  PROVE  Good(s, Cleanup(s, op))
<1> DEFINE f == [k \in Keys |-> IF k \in Purged(s, op) THEN None ELSE s.features[k]]
           B == {c \in s.staged : c.key \notin Purged(s, op) /\ ~Expired(c, op)}
           a == IF op.keep > 0 THEN Newest(s.audit, op.keep) ELSE s.audit
           s2 == Cleanup(s, op)
<1>1. TenantOK(s) /\ ForestOK(s) /\ AuditOK(s) /\ s.audit \in Seq(AuditEntry)
  BY Fields DEF StateInv
<1>2. s \in Tenant
  BY <1>1, Fields
<1>3. f \in [Keys -> FeatureRecord \cup {None}] /\ B \in SUBSET StagedChange /\ B \subseteq s.staged
  BY <1>1, Fields
<1>4. a \in Seq(AuditEntry) /\ Len(a) <= MaxAuditEntries /\ Suffix(a, s.audit)
  <2>1. op.keep \in Nat /\ Len(s.audit) \in Nat /\ MaxAuditEntries \in Nat /\ Len(s.audit) <= MaxAuditEntries
    <3>1. op.keep \in 0..MaxAuditEntries
      BY DEF CleanupOps
    <3> QED
      BY <1>1, <3>1, LimitsAssumption, LenProperties DEF TenantOK
  <2>2. CASE op.keep > 0
    <3>1. /\ a \in Seq(AuditEntry) /\ Len(a) <= Len(s.audit) /\ Suffix(a, s.audit)
      BY <1>1, <2>1, <2>2, NewestFacts
    <3>2. Len(a) \in Nat
      BY <3>1, LenProperties
    <3> QED
      BY <2>1, <3>1, <3>2
  <2>3. CASE ~(op.keep > 0)
    <3>1. Suffix(s.audit, s.audit)
      <4>1. 0 \in 0..Len(s.audit) /\ Len(s.audit) = Len(s.audit) - 0
            /\ \A i \in 1..Len(s.audit) : s.audit[i] = s.audit[i + 0]
        BY <2>1
      <4> QED
        BY <4>1 DEF Suffix
    <3> QED
      BY <1>1, <2>1, <2>3, <3>1
  <2> QED
    BY <2>2, <2>3
<1>5. s2 = [s EXCEPT !.features = f, !.staged = B, !.audit = a]
  BY DEF Cleanup
<1>6. /\ \A k \in Purged(s, op) : f[k] = None
      /\ \A k \in Keys \ Purged(s, op) : f[k] = s.features[k]
      /\ Purged(s, op) \subseteq Keys
      /\ \A c \in B : c.key \in Keys \ Purged(s, op)
  <2>1. Purged(s, op) \subseteq Keys
    BY DEF Purged, Retained
  <2>2. \A c \in B : c.key \in Keys
    BY <1>3 DEF StagedChange
  <2> QED
    BY <2>1, <2>2
<1> HIDE DEF s2, f, B, a
<1>7. /\ s2 \in Tenant /\ s2.features = f /\ s2.groups = s.groups /\ s2.staged = B
      /\ s2.audit = a /\ s2.nextStage = s.nextStage
  BY <1>2, <1>3, <1>4, <1>5, Zenon DEF Tenant
<1>8. TenantOK(s2)
  BY <1>1, <1>3, <1>4, <1>7, FewerStages
<1>9. ForestOK(s2)
  BY <1>1, <1>7, SameGroups
<1>10. AuditOK(s2)
  <2> DEFINE e == <<>>
  <2>1. e \in Seq(AuditEntry) /\ DOMAIN e = {} /\ s.audit \o e = s.audit
    BY <1>1, ConcatEmptySeq
  <2> HIDE DEF e
  <2>2. Names(e, s2)
    BY <2>1 DEF Names
  <2>3. Untouched(e, s, s2)
    BY <1>6, <1>7 DEF Untouched, Retained
  <2> QED
    BY <1>1, <1>4, <1>7, <2>1, <2>2, <2>3, AuditStep, Zenon
<1>11. Keeps(s, s2)
  <2>1. \A k \in Retained(s) : s2.features[k] \in {None, s.features[k]}
    BY <1>6, <1>7 DEF Retained
  <2>2. \A c \in s2.staged : c.key \in Retained(s) => c.key \in Retained(s2)
    BY <1>6, <1>7 DEF Retained
  <2> QED
    BY <1>3, <1>7, <2>1, <2>2 DEF Keeps
<1> QED
  BY <1>8, <1>9, <1>10, <1>11 DEF StateInv, Good, s2

\* Some sequence lists the members of a finite set.
LEMMA SetToSeqFacts ==
  ASSUME NEW S, IsFiniteSet(S)
  PROVE  /\ Cardinality(S) \in Nat
         /\ SetToSeq(S) \in [1..Cardinality(S) -> S]
         /\ \A x \in S : \E i \in 1..Cardinality(S) : SetToSeq(S)[i] = x
<1> DEFINE n == Cardinality(S)
<1>1. n \in Nat /\ ExistsBijection(1..n, S)
  BY FS_CardinalityType
<1>2. \E f \in [1..n -> S] : IsInjective(f)
  BY <1>1 DEF ExistsBijection, Bijection, Injection
<1>3. SetToSeq(S) \in [1..n -> S] /\ IsInjective(SetToSeq(S))
  BY <1>2 DEF SetToSeq
<1>4. \A i, j \in 1..n : SetToSeq(S)[i] = SetToSeq(S)[j] => i = j
  BY <1>3 DEF IsInjective
<1> QED
  BY <1>1, <1>3, <1>4, ListsAll

\* The audit entries of an import that writes the groups G and the features F,
\* as the versions gv and fv.
EntriesOf(list, v) == [i \in DOMAIN list |-> Entry(list[i], v[list[i]])]
Entries(G, gv, F, fv) == EntriesOf(SetToSeq(G), gv) \o EntriesOf(SetToSeq(F), fv)

\* The entries e name what the import writes, and nothing else.
Accounts(e, G, gv, F, fv) ==
  /\ e \in Seq(AuditEntry)
  /\ \A j \in DOMAIN e :
       \/ e[j].key \in G /\ e[j].version = gv[e[j].key]
       \/ e[j].key \in F /\ e[j].version = fv[e[j].key]
  /\ \A y \in G \cup F : \E j \in DOMAIN e : e[j].key = y

\* ImportDocument audits every record it writes.
LEMMA ImportEntries ==
  ASSUME NEW G, IsFiniteSet(G), NEW F, IsFiniteSet(F), G \subseteq GroupKeys, F \subseteq Keys,
         NEW gv, \A g \in G : gv[g] \in Nat \ {0}, NEW fv, \A k \in F : fv[k] \in Nat \ {0}
  PROVE  Accounts(Entries(G, gv, F, fv), G, gv, F, fv)
<1> DEFINE n1 == Cardinality(G)
           n2 == Cardinality(F)
           g == SetToSeq(G)
           f == SetToSeq(F)
           e1 == EntriesOf(SetToSeq(G), gv)
           e2 == EntriesOf(SetToSeq(F), fv)
           e == e1 \o e2
<1>1. /\ n1 \in Nat /\ g \in [1..n1 -> G] /\ \A x \in G : \E i \in 1..n1 : g[i] = x
  BY SetToSeqFacts
<1>2. /\ n2 \in Nat /\ f \in [1..n2 -> F] /\ \A x \in F : \E i \in 1..n2 : f[i] = x
  BY SetToSeqFacts
<1> HIDE DEF g, f, n1, n2
<1>3. /\ e1 \in [1..n1 -> AuditEntry]
      /\ \A i \in 1..n1 : e1[i].key = g[i] /\ e1[i].version = gv[g[i]] /\ g[i] \in G
  <2>1. e1 = [i \in 1..n1 |-> Entry(g[i], gv[g[i]])]
    BY <1>1 DEF g, EntriesOf
  <2>2. \A i \in 1..n1 : g[i] \in G /\ Entry(g[i], gv[g[i]]) \in AuditEntry
    BY <1>1 DEF Entry, AuditEntry
  <2> HIDE DEF e1
  <2> QED
    BY <2>1, <2>2 DEF Entry
<1>4. /\ e2 \in [1..n2 -> AuditEntry]
      /\ \A i \in 1..n2 : e2[i].key = f[i] /\ e2[i].version = fv[f[i]] /\ f[i] \in F
  <2>1. e2 = [i \in 1..n2 |-> Entry(f[i], fv[f[i]])]
    BY <1>2 DEF f, EntriesOf
  <2>2. \A i \in 1..n2 : f[i] \in F /\ Entry(f[i], fv[f[i]]) \in AuditEntry
    BY <1>2 DEF Entry, AuditEntry
  <2> HIDE DEF e2
  <2> QED
    BY <2>1, <2>2 DEF Entry
<1> HIDE DEF e1, e2
<1>5. e1 \in Seq(AuditEntry) /\ e2 \in Seq(AuditEntry) /\ Len(e1) = n1 /\ Len(e2) = n2
  BY <1>1, <1>2, <1>3, <1>4
<1>6. /\ e \in Seq(AuditEntry) /\ Len(e) = n1 + n2
      /\ \A i \in 1..n1 + n2 : e[i] = IF i <= n1 THEN e1[i] ELSE e2[i - n1]
  BY <1>5, ConcatProperties
<1>7. DOMAIN e = 1..n1 + n2
  BY <1>6, LenProperties
<1> HIDE DEF e
<1>8. ASSUME NEW j \in DOMAIN e
      PROVE  (e[j].key \in G /\ e[j].version = gv[e[j].key]) \/ (e[j].key \in F /\ e[j].version = fv[e[j].key])
  <2>1. CASE j <= n1
    <3>1. j \in 1..n1 /\ j \in 1..n1 + n2
      BY <1>1, <1>2, <1>7, <1>8, <2>1
    <3>2. e[j] = e1[j]
      BY <1>6, <2>1, <3>1
    <3> QED
      BY <1>3, <3>1, <3>2
  <2>2. CASE ~(j <= n1)
    <3>1. j - n1 \in 1..n2 /\ j \in 1..n1 + n2
      BY <1>1, <1>2, <1>7, <1>8, <2>2
    <3>2. e[j] = e2[j - n1]
      BY <1>6, <2>2, <3>1
    <3> QED
      BY <1>4, <3>1, <3>2
  <2> QED
    BY <2>1, <2>2
<1>9. ASSUME NEW y \in G \cup F PROVE \E j \in DOMAIN e : e[j].key = y
  <2>1. CASE y \in G
    <3>1. PICK i \in 1..n1 : g[i] = y
      BY <1>1, <2>1
    <3>2. i \in 1..n1 + n2 /\ i <= n1
      BY <1>1, <1>2
    <3> QED
      BY <1>3, <1>6, <1>7, <3>1, <3>2
  <2>2. CASE y \in F
    <3>1. PICK i \in 1..n2 : f[i] = y
      BY <1>2, <2>2
    <3>2. i + n1 \in 1..n1 + n2 /\ ~(i + n1 <= n1) /\ (i + n1) - n1 = i
      BY <1>1, <1>2
    <3>3. e[i + n1] = e2[i]
      BY <1>6, <3>2
    <3> QED
      BY <1>4, <1>7, <3>1, <3>2, <3>3
  <2> QED
    BY <2>1, <2>2
<1>10. Entries(G, gv, F, fv) = e
  BY DEF e, e1, e2, Entries
<1> QED
  BY <1>6, <1>8, <1>9, <1>10 DEF Accounts

\* ImportDocument validates what it is about to store, and numbers it after what is stored.
LEMMA ImportStep ==
  ASSUME NEW s, StateInv(s), NEW op \in ImportOps, CanImportDocument(s, op)
  PROVE  Good(s, ImportDocument(s, op))
<1> DEFINE W == Written(s, op)
           G == W \cap DOMAIN op.doc.groups
           F == W \cap DOMAIN op.doc.features
           gv == [x \in GroupKeys |-> NextVersion(s.groups[x])]
           fv == [k \in Keys |-> NextVersion(s.features[k])]
           e == Entries(G, gv, F, fv)
           g == [x \in GroupKeys |-> IF x \in W THEN GroupRecord(NextVersion(s.groups[x]), op.doc.groups[x])
                                     ELSE s.groups[x]]
           f == [k \in Keys |-> IF k \in W THEN Record(NextVersion(s.features[k]), op.doc.features[k], FALSE)
                                ELSE s.features[k]]
           a == appendAudit(s.audit, e)
           s2 == Import(s, op)
<1>1. TenantOK(s) /\ ForestOK(s) /\ AuditOK(s) /\ s.audit \in Seq(AuditEntry) /\ s \in Tenant
      /\ s.features \in [Keys -> FeatureRecord \cup {None}]
      /\ s.groups \in [GroupKeys -> StoredGroup \cup {None}]
  BY Fields DEF StateInv
<1>2. CASE op.dryRun
  <2>1. ImportDocument(s, op) = s
    BY <1>2 DEF ImportDocument
  <2> QED
    BY <2>1, NoChange
<1>3. CASE ~op.dryRun
  <2>1. /\ op.doc \in Documents /\ DOMAIN op.doc.features \subseteq Keys
        /\ DOMAIN op.doc.groups \subseteq GroupKeys
        /\ \A k \in DOMAIN op.doc.features : op.doc.features[k] \in Definition
        /\ \A x \in DOMAIN op.doc.groups : op.doc.groups[x] \in GroupDefinition
        /\ Keys \cap GroupKeys = {} /\ None \notin FeatureRecord /\ None \notin StoredGroup
    BY InputsAssumption DEF ImportOps
  <2>2. /\ G \subseteq GroupKeys /\ F \subseteq Keys
        /\ \A k \in Keys : k \in W <=> k \in F
        /\ \A x \in GroupKeys : x \in W <=> x \in G
    BY <2>1 DEF Written
  <2>3. IsFiniteSet(G) /\ IsFiniteSet(F)
    BY <2>2, LimitsAssumption, FS_Subset
  <2>4. /\ \A k \in Keys : fv[k] \in Nat \ {0} /\ (k \in Retained(s) => fv[k] = s.features[k].version + 1)
        /\ \A x \in GroupKeys : gv[x] \in Nat \ {0}
    <3>1. \A k \in Keys : s.features[k] # None => s.features[k].version \in Nat \ {0}
      BY <1>1 DEF FeatureRecord
    <3>2. \A x \in GroupKeys : s.groups[x] # None => s.groups[x].version \in Nat \ {0}
      BY <1>1 DEF StoredGroup
    <3> QED
      BY <3>1, <3>2 DEF NextVersion, Retained
  <2>5. /\ \A k \in F : f[k] \in FeatureRecord /\ f[k].version = fv[k]
        /\ \A k \in Keys : k \notin F => f[k] = s.features[k]
    <3>1. \A k \in F : k \in Keys /\ f[k] = Record(fv[k], op.doc.features[k], FALSE)
                       /\ op.doc.features[k] \in Definition
      BY <2>1, <2>2, Zenon
    <3>2. \A k \in F : fv[k] \in Nat \ {0}
      BY <2>4, <3>1, Zenon
    <3> HIDE DEF fv
    <3>3. \A k \in F : f[k] \in FeatureRecord /\ f[k].version = fv[k]
      <4> HIDE DEF f, F
      <4>1. \A v \in Nat \ {0}, d \in Definition :
              Record(v, d, FALSE) \in FeatureRecord /\ Record(v, d, FALSE).version = v
        BY DEF Record, FeatureRecord
      <4> QED
        BY <3>1, <3>2, <4>1, Zenon
    <3> QED
      BY <2>2, <3>3, Zenon
  <2>6. /\ \A x \in G : g[x] \in StoredGroup /\ g[x].version = gv[x]
        /\ \A x \in GroupKeys : x \notin G => g[x] = s.groups[x]
    <3>1. \A x \in G : x \in GroupKeys /\ g[x] = GroupRecord(gv[x], op.doc.groups[x])
                       /\ op.doc.groups[x] \in GroupDefinition
      BY <2>1, <2>2
    <3>2. \A x \in G : gv[x] \in Nat \ {0}
      BY <2>4, <3>1, Zenon
    <3> HIDE DEF gv
    <3>3. \A x \in G : g[x] \in StoredGroup /\ g[x].version = gv[x]
      <4> HIDE DEF g, G
      <4>1. \A v \in Nat \ {0}, d \in GroupDefinition :
              GroupRecord(v, d) \in StoredGroup /\ GroupRecord(v, d).version = v
        BY DEF GroupRecord, StoredGroup
      <4> QED
        BY <3>1, <3>2, <4>1
    <3> QED
      BY <2>2, <3>3
  <2>7. /\ f \in [Keys -> FeatureRecord \cup {None}] /\ g \in [GroupKeys -> StoredGroup \cup {None}]
    <3>1. /\ \A k \in Keys : f[k] \in FeatureRecord \cup {None}
          /\ \A x \in GroupKeys : g[x] \in StoredGroup \cup {None}
      <4> HIDE DEF f, g, F, G
      <4> QED
        BY <1>1, <2>5, <2>6, Zenon
    <3>2. f = [k \in Keys |-> f[k]] /\ g = [x \in GroupKeys |-> g[x]]
      OBVIOUS
    <3> HIDE DEF f, g
    <3> QED
      BY <3>1, <3>2
  <2>8. s2 = [s EXCEPT !.groups = g, !.features = f, !.audit = a]
    <3> DEFINE h1 == [i \in DOMAIN SetToSeq(G) |-> Entry(SetToSeq(G)[i], NextVersion(s.groups[SetToSeq(G)[i]]))]
               h2 == [i \in DOMAIN SetToSeq(F) |-> Entry(SetToSeq(F)[i], NextVersion(s.features[SetToSeq(F)[i]]))]
    <3>1. /\ \A i \in DOMAIN SetToSeq(G) : SetToSeq(G)[i] \in GroupKeys
          /\ \A i \in DOMAIN SetToSeq(F) : SetToSeq(F)[i] \in Keys
      <4>1. SetToSeq(G) \in [1..Cardinality(G) -> G] /\ SetToSeq(F) \in [1..Cardinality(F) -> F]
        BY <2>3, SetToSeqFacts, Zenon
      <4> HIDE DEF G, F
      <4> QED
        BY <2>2, <4>1
    <3>2. h1 = EntriesOf(SetToSeq(G), gv) /\ h2 = EntriesOf(SetToSeq(F), fv)
      <4> HIDE DEF G, F
      <4> QED
        BY <3>1 DEF EntriesOf
    <3>3. s2 = [s EXCEPT !.groups = g, !.features = f, !.audit = appendAudit(s.audit, h1 \o h2)]
      BY DEF Import
    <3>4. h1 \o h2 = e
      <4> HIDE DEF h1, h2, G, F, gv, fv
      <4> QED
        BY <3>2 DEF Entries
    <3> HIDE DEF s2, g, f, h1, h2, e
    <3> QED
      BY <3>3, <3>4
  <2>9. ForestOK(s2)
    BY Zenon DEF CanImportDocument, NewSnapshotWithGroups, cloneAndValidateGroups, ForestOK
  <2>10. ImportDocument(s, op) = s2
    BY <1>3 DEF ImportDocument
  <2> HIDE DEF W, G, F, gv, fv, g, f, s2
  <2>11. /\ e \in Seq(AuditEntry)
         /\ \A j \in DOMAIN e :
              (e[j].key \in G /\ e[j].version = gv[e[j].key]) \/ (e[j].key \in F /\ e[j].version = fv[e[j].key])
         /\ \A y \in G \cup F : \E j \in DOMAIN e : e[j].key = y
    <3>1. (\A x \in G : gv[x] \in Nat \ {0}) /\ \A k \in F : fv[k] \in Nat \ {0}
      BY <2>2, <2>4
    <3>2. Accounts(e, G, gv, F, fv)
      BY <2>2, <2>3, <3>1, ImportEntries
    <3> HIDE DEF e
    <3> QED
      BY <3>2 DEF Accounts
  <2> HIDE DEF e
  <2>12. a \in Seq(AuditEntry) /\ Len(a) <= MaxAuditEntries /\ Suffix(a, s.audit \o e)
    BY <1>1, <2>11, Appended
  <2> HIDE DEF a
  <2>13. /\ s2 \in Tenant /\ s2.features = f /\ s2.groups = g /\ s2.staged = s.staged
         /\ s2.audit = a /\ s2.nextStage = s.nextStage
    <3>1. s \in Tenant
      BY <1>1
    <3> QED
      BY <2>7, <2>8, <2>12, <3>1, Zenon DEF Tenant
  <2>14. TenantOK(s2)
    BY <1>1, <2>12, <2>13, FewerStages
  <2>15. AuditOK(s2)
    <3>1. Names(e, s2)
      BY <2>1, <2>2, <2>5, <2>6, <2>11, <2>13 DEF Names, Retained, Stored
    <3>2. Untouched(e, s, s2)
      BY <2>5, <2>6, <2>11, <2>13 DEF Untouched, Retained, Stored
    <3> QED
      BY <1>1, <2>11, <2>12, <2>13, <3>1, <3>2, AuditStep
  <2>16. Keeps(s, s2)
    <3>1. ASSUME NEW k \in Retained(s)
          PROVE  /\ f[k] = s.features[k] \/ f[k].version = s.features[k].version + 1
                 /\ f[k] # None
      BY <2>1, <2>4, <2>5 DEF Retained
    <3> QED
      BY <2>13, <3>1 DEF Keeps, Retained
  <2> QED
    BY <2>9, <2>10, <2>14, <2>15, <2>16 DEF StateInv, Good
<1> QED
  BY <1>2, <1>3

-----------------------------------------------------------------------------
\* Every operation that a tenant admits keeps its invariant.
LEMMA OperationStep ==
  ASSUME NEW s, StateInv(s), NEW op \in Ops, Admits(s, op)
  PROVE  StateInv(Result(s, op)) /\ Keeps(s, Result(s, op))
<1>1. CASE op \in CreateOps
  <2>1. op.kind = "Create"
    BY <1>1 DEF CreateOps
  <2> QED
    BY <1>1, <2>1, CreateStep DEF Admits, Result, Good
<1>2. CASE op \in UpdateOps
  <2>1. op.kind = "Update"
    BY <1>2 DEF UpdateOps
  <2> QED
    BY <1>2, <2>1, UpdateStep DEF Admits, Result, Good
<1>3. CASE op \in LifecycleOps({"active", "inactive", "archived"})
  <2>1. op.kind = "Lifecycle"
    BY <1>3 DEF LifecycleOps
  <2> QED
    BY <1>3, <2>1, LifecycleStep DEF Admits, Result, Good
<1>4. CASE op \in RestoreOps
  <2>1. op.kind = "Restore"
    BY <1>4 DEF RestoreOps
  <2> QED
    BY <1>4, <2>1, RestoreStep DEF Admits, Result, Good
<1>5. CASE op \in CreateGroupOps
  <2>1. op.kind = "CreateGroup"
    BY <1>5 DEF CreateGroupOps
  <2> QED
    BY <1>5, <2>1, CreateGroupStep DEF Admits, Result, Good
<1>6. CASE op \in UpdateGroupOps
  <2>1. op.kind = "UpdateGroup"
    BY <1>6 DEF UpdateGroupOps
  <2> QED
    BY <1>6, <2>1, UpdateGroupStep DEF Admits, Result, Good
<1>7. CASE op \in DeleteGroupOps
  <2>1. op.kind = "DeleteGroup"
    BY <1>7 DEF DeleteGroupOps
  <2> QED
    BY <1>7, <2>1, DeleteGroupStep DEF Admits, Result, Good
<1>8. CASE op \in AssignOps
  <2>1. op.kind = "AssignGroup"
    BY <1>8 DEF AssignOps
  <2> QED
    BY <1>8, <2>1, AssignStep DEF Admits, Result, Good
<1>9. CASE op \in RemoveOps
  <2>1. op.kind = "RemoveGroup"
    BY <1>9 DEF RemoveOps
  <2> QED
    BY <1>9, <2>1, RemoveStep DEF Admits, Result, Good
<1>10. CASE op \in StageOps
  <2>1. op.kind = "StageUpdate"
    BY <1>10 DEF StageOps
  <2> QED
    BY <1>10, <2>1, StageStep DEF Admits, Result, Good
<1>11. CASE op \in ApplyStageOps
  <2>1. op.kind = "ApplyStage"
    BY <1>11 DEF ApplyStageOps
  <2> QED
    BY <1>11, <2>1, ApplyStageStep DEF Admits, Result, Good
<1>12. CASE op \in ApplyScheduledOps
  <2>1. op.kind = "ApplyScheduled"
    BY <1>12 DEF ApplyScheduledOps
  <2> QED
    BY <1>12, <2>1, ApplyScheduledStep DEF Admits, Result, Good
<1>13. CASE op \in CleanupOps
  <2>1. op.kind = "Cleanup"
    BY <1>13 DEF CleanupOps
  <2> QED
    BY <1>13, <2>1, CleanupStep DEF Result, Good
<1>14. CASE op \in ImportOps
  <2>1. op.kind = "Import"
    BY <1>14 DEF ImportOps
  <2> QED
    BY <1>14, <2>1, ImportStep DEF Admits, Result, Good
<1> QED
  BY <1>1, <1>2, <1>3, <1>4, <1>5, <1>6, <1>7, <1>8, <1>9, <1>10, <1>11, <1>12, <1>13, <1>14 DEF Ops

\* A new tenant.
LEMMA EmptyStep == StateInv(Empty)
<1>1. Empty \in Tenant /\ Empty.staged = {} /\ Empty.audit = <<>> /\ Len(<<>>) = 0
  BY DEF Empty, Tenant
<1>2. IsFiniteSet({}) /\ Cardinality({}) = 0 /\ MaxStagedChanges \in Nat /\ MaxAuditEntries \in Nat
  BY FS_EmptySet, LimitsAssumption
<1>3. TenantOK(Empty)
  BY <1>1, <1>2 DEF TenantOK
<1>4. Stored(Empty) = {}
  BY DEF Empty, Stored
<1>5. ForestOK(Empty)
  BY <1>4 DEF ForestOK, validateGroupGraph
<1>6. AuditOK(Empty)
  BY <1>1 DEF AuditOK, Names
<1> QED
  BY <1>3, <1>5, <1>6 DEF StateInv

=============================================================================
