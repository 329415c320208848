-------------------------- MODULE MCDurableProvider --------------------------
\* Instances of the durable provider for TLC.
EXTENDS DurableProvider, TLC

CONSTANTS k1, g1

Def(groups) == [lifecycle |-> "active", variants |-> {"on"}, groups |-> groups, deps |-> {}]
PlainDefinitions == {Def({})}
GroupedDefinitions == {Def({g1})}
PlainGroup == {[parent |-> None, targets |-> {}]}
OneFeature == {[features |-> [k \in {k1} |-> Def({})], groups |-> [g \in {} |-> None]]}

Symmetry == Permutations(Clients)
=============================================================================
