---------------------------- MODULE SnapshotBuild ----------------------------
(***************************************************************************)
(* NewSnapshotWithGroups (evaluate.go): from a list of definitions and a   *)
(* list of groups to an immutable snapshot, or to an error.                *)
(*                                                                         *)
(* The dependency walk of validateDependencyGraph ranges over a Go map, so *)
(* the order of its roots is any order at all, and differs from one call   *)
(* to the next; it is the one part of the construction written as steps.   *)
(* The checks before and after it are predicates of the input.  Where      *)
(* several entries of a map are faulty, the one that is reported is any of *)
(* them.                                                                   *)
(*                                                                         *)
(* Owner, metadata and tags are only copied and measured, and are left     *)
(* out.                                                                    *)
(***************************************************************************)
EXTENDS Strategies, Lists

VARIABLES
  source,   \* the arguments: [features |-> Seq of definitions, groups |-> Seq of groups]
  stage,    \* "none", "check", "walk", "accepted" or "rejected"
  cause,    \* why the construction failed, "" before that
  ranged,   \* keys the loop over definitions has handed to visit
  visited,  \* keys whose visit returned nil, in that order
  path      \* the active calls of visit: [key |-> k, next |-> index of a dependency]

buildVars == <<source, stage, cause, ranged, visited, path>>

ASSUME DepthAssumption == {Limits.MaxEvaluationDepth, Limits.MaxGroupDepth} \subseteq Nat

-----------------------------------------------------------------------------
(* The input                                                               *)

\* Definition and Group, as far as the construction and the codec look into them.
IsList(s) == s \in Seq(ToSet(s))
IsDefinition(d) ==
  /\ {"key", "default", "variants", "dependencies", "groups", "strategies"} \subseteq DOMAIN d
  /\ d.key \in Nat /\ d.groups \in Seq(Nat) /\ IsList(d.strategies)
  /\ d.dependencies \in Seq([key : Nat, variant : Nat])
IsGroup(g) ==
  /\ {"key", "strategies"} \subseteq DOMAIN g
  /\ g.key \in Nat /\ IsList(g.strategies)
Arguments(c) ==
  /\ IsList(c.features) /\ \A d \in ToSet(c.features) : IsDefinition(d)
  /\ IsList(c.groups) /\ \A g \in ToSet(c.groups) : IsGroup(g)

\* The map of definitions or groups by key; later passes see only the map.
ByKey(s) == [k \in {s[i].key : i \in DOMAIN s} |-> s[CHOOSE i \in DOMAIN s : s[i].key = k]]

Definitions == ByKey(source.features)
Keys == DOMAIN Definitions
Dependencies(k) == Definitions[k].dependencies

\* Definition.Validate.
Validate(d) ==
  /\ d.key # 0
  /\ validValue(d.default) /\ d.default.type = d.type
  /\ Cardinality(DOMAIN d.variants) <= Limits.MaxVariants
  /\ Len(d.strategies) <= Limits.MaxStrategies
  /\ Len(d.dependencies) <= Limits.MaxDependencies
  /\ Len(d.groups) <= Limits.MaxGroups
  /\ \A i \in DOMAIN d.dependencies : d.dependencies[i].key # 0 /\ d.dependencies[i].variant # 0
  /\ \A i \in DOMAIN d.groups : d.groups[i] # 0
  /\ \A v \in DOMAIN d.variants :
       v # 0 /\ validValue(d.variants[v]) /\ d.variants[v].type = d.type
  /\ \A i \in DOMAIN d.strategies :
       /\ d.strategies[i].name # "" /\ d.strategies[i].variant \in DOMAIN d.variants
       /\ ValidateStrategy(d.strategies[i])

DistinctKeys(s) == \A i, j \in DOMAIN s : s[i].key = s[j].key => i = j

ValidFeatures ==
  /\ Len(source.features) <= Limits.MaxFeatures
  /\ \A i \in DOMAIN source.features : Validate(source.features[i])
  /\ DistinctKeys(source.features)

\* Mutant: the target of a dependency is not looked up.
UncheckedTargets ==
  {"invalid" : e \in {e \in UNION {ToSet(Dependencies(k)) : k \in Keys} :
                       e.key \in Keys /\ e.variant \notin DOMAIN Definitions[e.key].variants}}

\* The first loop of validateDependencyGraph: what it may report.
DependencyFaults ==
  LET edges == UNION {ToSet(Dependencies(k)) : k \in Keys}
  IN  {"not_found" : e \in {e \in edges : e.key \notin Keys}}
        \cup {"invalid" : e \in {e \in edges : /\ e.key \in Keys
                                              /\ e.variant \notin DOMAIN Definitions[e.key].variants}}

-----------------------------------------------------------------------------
(* Groups                                                                  *)

Groups == ByKey(source.groups)

\* The loop over the groups of cloneAndValidateGroups.
ValidGroups ==
  /\ Len(source.groups) <= Limits.MaxGroups
  /\ DistinctKeys(source.groups)
  /\ \A i \in DOMAIN source.groups :
       LET g == source.groups[i]
       IN  /\ g.key # 0
           /\ Len(g.strategies) <= Limits.MaxStrategies
           /\ \A j \in DOMAIN g.strategies :
                /\ g.strategies[j].name # "" /\ g.strategies[j].variant # 0
                /\ ValidateStrategy(g.strategies[j])

\* The group n parents above g, or 0 when the chain has ended.
Ancestor(groups, g, n) ==
  LET up[i \in Nat] ==
        IF i = 0 THEN g
        ELSE LET below == up[i - 1] IN IF below = 0 THEN 0 ELSE groups[below].parent
  IN  up[n]

\* Mutant: one more parent than the bound allows.
LooseGroupGraph == \A g \in DOMAIN Groups : Ancestor(Groups, g, Limits.MaxGroupDepth + 2) = 0

\* validateGroupGraph: every chain ends within the bound; a cycle never ends.
validateGroupGraph == \A g \in DOMAIN Groups : Ancestor(Groups, g, Limits.MaxGroupDepth + 1) = 0

\* The attachments of cloneAndValidateGroups, once every chain is known to end.
AttachmentFaults ==
  LET Bad(k, g) ==
        \E n \in 0..Limits.MaxGroupDepth :
          /\ Ancestor(Groups, g, n) # 0
          /\ \E i \in DOMAIN Groups[Ancestor(Groups, g, n)].strategies :
               Groups[Ancestor(Groups, g, n)].strategies[i].variant \notin DOMAIN Definitions[k].variants
      Attached(k) == ToSet(Definitions[k].groups)
  IN  {"not_found" : k \in {k \in Keys : ~(Attached(k) \subseteq DOMAIN Groups)}}
        \cup {"invalid" : k \in {k \in Keys : \E g \in Attached(k) \cap DOMAIN Groups : Bad(k, g)}}

\* cloneAndValidateGroups: what it may report, one pass after another.
GroupFaults ==
  IF ~ValidGroups THEN {"invalid"}
  ELSE IF \E g \in DOMAIN Groups : Groups[g].parent \notin DOMAIN Groups \cup {0} THEN {"not_found"}
  ELSE IF ~validateGroupGraph THEN {"invalid"}
  ELSE AttachmentFaults

-----------------------------------------------------------------------------
(* The construction                                                        *)

Idle == stage = "none" /\ cause = "" /\ ranged = {} /\ visited = <<>> /\ path = <<>>

\* The call; what a previous call has left on its stack is gone.
Begin(arguments) ==
  /\ source' = arguments
  /\ stage' = "check" /\ cause' = "" /\ ranged' = {} /\ visited' = <<>> /\ path' = <<>>

Reject(why) == stage' = "rejected" /\ cause' = why

Check ==
  /\ stage = "check"
  /\ LET faults == IF ValidFeatures THEN DependencyFaults ELSE {"invalid"}
     IN  \/ faults = {} /\ stage' = "walk" /\ UNCHANGED cause
         \/ \E why \in faults : Reject(why)
  /\ UNCHANGED <<source, ranged, visited, path>>

\* Mutant: the key is not deleted from visiting when its call returns.
KeepsVisiting == {path[i].key : i \in DOMAIN path} \cup ToSet(visited)

\* The keys with an active call, which is what the map visiting holds.
visiting == {path[i].key : i \in DOMAIN path}

\* Mutant: a key is taken as visited as soon as its call begins.
VisitedOnEntry(k, depth, callers) ==
  \/ depth > Limits.MaxEvaluationDepth /\ Reject("depth") /\ path' = callers
  \/ /\ depth <= Limits.MaxEvaluationDepth
     /\ path' = IF k \in visiting \cup ToSet(visited) THEN callers
                ELSE Append(callers, [key |-> k, next |-> 1])
     /\ UNCHANGED <<stage, cause>>

\* visit(k, depth), the call made with the given callers on the stack.
visit(k, depth, callers) ==
  \/ /\ depth > Limits.MaxEvaluationDepth
     /\ Reject("depth")
     /\ path' = callers
  \/ /\ depth <= Limits.MaxEvaluationDepth /\ k \in visiting
     /\ Reject("cycle")
     /\ path' = callers
  \/ /\ depth <= Limits.MaxEvaluationDepth /\ k \notin visiting
     /\ path' = IF k \in ToSet(visited) THEN callers
                ELSE Append(callers, [key |-> k, next |-> 1])
     /\ UNCHANGED <<stage, cause>>

\* The loop over the map picks a key it has not picked before.
Root(k) ==
  /\ stage = "walk" /\ path = <<>>
  /\ k \in Keys \ ranged
  /\ ranged' = ranged \cup {k}
  /\ visit(k, 0, path)
  /\ UNCHANGED <<source, visited>>

\* The innermost call visits its next dependency.
Descend ==
  /\ stage = "walk" /\ path # <<>>
  /\ LET top == Last(path)
         callers == Append(Front(path), [top EXCEPT !.next = @ + 1])
     IN  /\ top.next <= Len(Dependencies(top.key))
         /\ visit(Dependencies(top.key)[top.next].key, Len(path), callers)
  /\ UNCHANGED <<source, ranged, visited>>

\* The innermost call has visited all of them and returns.
Leave ==
  /\ stage = "walk" /\ path # <<>>
  /\ Last(path).next > Len(Dependencies(Last(path).key))
  /\ visited' = Append(visited, Last(path).key)
  /\ path' = Front(path)
  /\ UNCHANGED <<source, stage, cause, ranged>>

\* Every key is visited; the groups are checked and the snapshot is complete.
Finish ==
  /\ stage = "walk" /\ path = <<>> /\ ranged = Keys
  /\ \/ GroupFaults = {} /\ stage' = "accepted" /\ UNCHANGED cause
     \/ \E why \in GroupFaults : Reject(why)
  /\ UNCHANGED <<source, ranged, visited, path>>

BuildStep == Check \/ (\E k \in Keys : Root(k)) \/ Descend \/ Leave \/ Finish

\* The snapshot: the two maps, to which bindTenant adds the tenant.
Snapshot(tenant) == [features |-> Definitions, groups |-> Groups, tenant |-> tenant]

-----------------------------------------------------------------------------
(* What its result means                                                   *)

Stages == {"none", "check", "walk", "accepted", "rejected"}
Causes == {"", "invalid", "not_found", "depth", "cycle"}

\* The keys that lie exactly n dependencies away from k.
Away(defs, k, n) ==
  LET front[i \in Nat] ==
        IF i = 0 THEN {k}
        ELSE UNION {{defs[x].dependencies[j].key : j \in DOMAIN defs[x].dependencies}
                      : x \in front[i - 1]}
  IN  front[n]

Cyclic(defs) == \E k \in DOMAIN defs : \E n \in 1..Cardinality(DOMAIN defs) : k \in Away(defs, k, n)
TooDeep(defs) == \E k \in DOMAIN defs : Away(defs, k, Limits.MaxEvaluationDepth + 1) # {}

\* validateDependencyGraph reports a cycle or a depth excess only where there is one:
\* no order of the map makes it refuse a graph of shared dependencies.
RefusalHasCause ==
  /\ cause = "cycle" => Cyclic(Definitions)
  /\ cause = "depth" => TooDeep(Definitions)

=============================================================================
