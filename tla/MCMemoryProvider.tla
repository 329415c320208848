-------------------------- MODULE MCMemoryProvider --------------------------
\* Instances of the in-memory provider for TLC.
EXTENDS StageHistory

CONSTANTS k1, k2, g1, g2, g3

Def(groups, deps) ==
  [lifecycle |-> "active", variants |-> {"on"}, groups |-> groups,
   deps |-> {[key |-> k, variant |-> "on"] : k \in deps}]
Group(parent, targets) == [parent |-> parent, targets |-> targets]
Doc(features, groups) == [features |-> features, groups |-> groups]

\* Stages: two features, one of which may come to depend on the other.
StageDefinitions == {Def({}, {}), Def({}, {k1})}
StageDocuments == {Doc([k \in {k1} |-> Def({}, {})], [g \in {} |-> None])}

\* Groups: a feature without groups of its own, so that only AssignGroup and the
\* document attach it; the second target exists in no definition.
PlainDefinitions == {Def({}, {})}
GroupChoices ==
  {Group(None, {}), Group(None, {"off"})} \cup {Group(p, {"on"}) : p \in GroupKeys}
GroupDocuments ==
  {Doc([k \in {k1} |-> Def({g1}, {})], [g \in {g1} |-> Group(None, {"on"})]),
   Doc([k \in {} |-> None], [g \in {g1, g2} |-> IF g = g1 THEN Group(None, {}) ELSE Group(g1, {})])}
=============================================================================
