---------------------------- MODULE StageHistory ----------------------------
(***************************************************************************)
(* MemoryProvider with a history variable that remembers, for every stage, *)
(* the feature as it was when StageUpdate accepted the stage.              *)
(***************************************************************************)
EXTENDS MemoryProvider

VARIABLE seen     \* the record each stage of each tenant was made against

hvars == <<tenants, seen>>

HInit == Init /\ seen = [t \in Tenants |-> [i \in 1..MaxStages |-> None]]

NewStages(t, i) == {c \in tenants'[t].staged \ tenants[t].staged : c.id = i}

Remember ==
  seen' = [t \in Tenants |-> [i \in 1..MaxStages |->
             IF NewStages(t, i) = {} THEN seen[t][i]
             ELSE tenants[t].features[(CHOOSE c \in NewStages(t, i) : TRUE).key]]]

HNext == Next /\ Remember

HSpec == HInit /\ [][HNext]_hvars

\* A stage that applyStagesLocked would accept (its feature is live at the
\* expected version) still faces the very record it was staged against, whatever
\* was updated, deleted, restored, purged, created again or imported meanwhile:
\* "a conflicting intervening update prevents stale application".
StageUnchanged ==
  \A t \in Tenants : \A c \in tenants[t].staged :
    LiveAt(tenants[t], c.key, c.expected) => tenants[t].features[c.key] = seen[t][c.id]

\* The strengthening: the feature of a stage is retained, its version has not
\* fallen below the staged one, and while it is equal the record is the same.
StageInv ==
  \A t \in Tenants : \A c \in tenants[t].staged :
    LET r == tenants[t].features[c.key]
    IN  /\ r # None
        /\ c.expected <= r.version
        /\ c.expected = r.version => r = seen[t][c.id]

=============================================================================
