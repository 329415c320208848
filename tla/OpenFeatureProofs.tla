------------------------- MODULE OpenFeatureProofs -------------------------
(***************************************************************************)
(* Proofs about the construction of snapshots, about the callers of them   *)
(* and about the shutdown of the OpenFeature adapter, for any stored       *)
(* definitions, requests and goroutines.                                   *)
(***************************************************************************)
EXTENDS OpenFeature, SnapshotBuildProofs

\* A step that names no prover is tried with the SMT solver, with Zenon, and with the
\* solver for longer.
USE SMTT(10), Zenon, SMTT(30)

-----------------------------------------------------------------------------
(* Shutdown                                                                *)

InOnce == {"closing", "closed", "close_failed"}
ShutStates == Returned \cup InOnce \cup {"waiting"}

\* How often native.Close has been called once it is over.
Owned == IF world.own THEN 1 ELSE 0

\* The inductive invariant.  While once.Do runs there is one goroutine inside, which
\* has not closed the events, and nobody has returned; when it is over nobody is
\* inside any more.
ShutInv ==
  /\ world \in Scenarios /\ once \in {"new", "running", "done"}
  /\ shut \in [Shutters -> ShutStates]
  /\ once = "new" => closes = 0 /\ closed = 0 /\ \A s \in Shutters : shut[s] = "idle"
  /\ once = "running" =>
       /\ closed = 0
       /\ \E s \in Shutters :
            /\ shut[s] \in InOnce
            /\ closes = IF shut[s] = "closing" THEN 0 ELSE Owned
            /\ \A q \in Shutters \ {s} : shut[q] \in {"idle", "waiting"}
  /\ once = "done" =>
       /\ closed = 1 /\ closes = Owned
       /\ \A s \in Shutters : shut[s] \notin InOnce
       /\ \A s, q \in Shutters : shut[s] = "failed" /\ shut[q] = "failed" => s = q

\* No step of the other callers touches the shutdown.
LEMMA OtherSteps ==
  ASSUME \/ \E r \in world.requests : AskAdapter(r) \/ AskNative(r) \/ AskTransfer(r)
         \/ Construct \/ Loaded \/ NotLoaded \/ AnswerNative \/ AnswerAdapter \/ Exported \/ Imported
  PROVE  UNCHANGED <<world, shutVars>>
BY Zenon DEF AskAdapter, AskNative, AskTransfer, Construct, Loaded, NotLoaded, AnswerNative, AnswerAdapter,
       Exported, Imported, shutVars, callVars

\* Every step of a goroutine in Shutdown keeps the invariant.
LEMMA ShutStep ==
  ASSUME ShutInv, NEW s \in Shutters,
         EnterOnce(s) \/ CloseNative(s) \/ CloseEvents(s) \/ Wake(s)
  PROVE  ShutInv'
<1>0. world' = world
  BY DEF EnterOnce, CloseNative, CloseEvents, Wake, callVars
<1>1. CASE EnterOnce(s)
  BY <1>0, <1>1 DEF EnterOnce, ShutInv, ShutStates, InOnce, Returned, Owned
<1>2. CASE CloseNative(s)
  <2>1. once = "running" /\ once' = once /\ closed' = closed
    BY <1>2 DEF CloseNative, ShutInv, InOnce
  <2>2. closes = 0 /\ \A q \in Shutters \ {s} : shut[q] \in {"idle", "waiting"}
    BY <1>2, <2>1 DEF CloseNative, ShutInv, InOnce
  <2>3. PICK outcome \in {"closed", "close_failed"} : shut' = [shut EXCEPT ![s] = outcome]
    BY <1>2, Zenon DEF CloseNative
  <2>4. closes' = Owned'
    BY <1>0, <1>2, <2>2 DEF CloseNative, Owned
  <2> QED
    BY <1>0, <2>1, <2>2, <2>3, <2>4 DEF ShutInv, ShutStates, InOnce
<1>3. CASE CloseEvents(s)
  BY <1>0, <1>3 DEF CloseEvents, ShutInv, ShutStates, InOnce, Returned, Owned
<1>4. CASE Wake(s)
  BY <1>0, <1>4 DEF Wake, ShutInv, ShutStates, InOnce, Returned, Owned
<1> QED
  BY <1>1, <1>2, <1>3, <1>4

\* The invariant of the shutdown.
LEMMA ShutInvariant == Spec => []ShutInv
<1>1. Init => ShutInv
  BY DEF Init, ShutInv, ShutStates, Returned
<1>2. ShutInv /\ [Next]_vars => ShutInv'
  <2> SUFFICES ASSUME ShutInv, [Next]_vars PROVE ShutInv'
    OBVIOUS
  <2>1. ASSUME UNCHANGED <<world, shutVars>> PROVE ShutInv'
    BY <2>1 DEF ShutInv, Owned, shutVars
  <2>2. ASSUME NEW s \in world.shutters, EnterOnce(s) \/ CloseNative(s) \/ CloseEvents(s) \/ Wake(s)
        PROVE  ShutInv'
    <3>1. s \in Shutters
      BY <2>2, ScenarioAssumption, Zenon DEF ShutInv
    <3> QED
      BY <2>2, <3>1, ShutStep
  <2>3. CASE UNCHANGED vars
    BY <2>1, <2>3 DEF vars, callVars
  <2> QED
    BY <2>1, <2>2, <2>3, OtherSteps DEF Next
<1> QED
  BY <1>1, <1>2, PTL DEF Spec

\* ShutdownOnce: whatever goroutines call Shutdown and ShutdownWithContext and in
\* whatever order, the provider and the event channel are closed at most once, nobody
\* returns before they are, and at most one caller is told of a failure.
THEOREM ShutdownCorrect == Spec => []ShutdownOnce
<1>1. ShutInv => ShutdownOnce
  <2> SUFFICES ASSUME ShutInv PROVE ShutdownOnce
    OBVIOUS
  <2> DEFINE failed == {s \in Shutters : shut[s] = "failed"}
  <2>1. \A s, q \in failed : s = q
    BY DEF ShutInv, InOnce
  <2>2. Cardinality(failed) <= 1
    <3>1. CASE failed = {}
      BY <3>1, FS_EmptySet
    <3>2. CASE failed # {}
      <4>1. PICK s : failed = {s}
        BY <2>1, <3>2
      <4> QED
        BY <4>1, FS_Singleton
    <3> QED
      BY <3>1, <3>2
  <2>3. /\ closed <= 1 /\ closes <= Owned
        /\ \A s \in Shutters : shut[s] \in {"nil", "failed"} => closed = 1 /\ closes = Owned
    BY DEF ShutInv, InOnce, Owned
  <2> QED
    BY <2>2, <2>3 DEF ShutdownOnce, Owned
<1> QED
  BY <1>1, ShutInvariant, PTL

-----------------------------------------------------------------------------
(* Sorted lists                                                            *)

\* The permutation that Sorted chooses for dependencies exists.
LEMMA SortedDependencies ==
  ASSUME NEW l \in Seq([key : Nat, variant : Nat])
  PROVE  Sorted(l, DependencyBefore) \in Seq([key : Nat, variant : Nat])
<1> DEFINE P == 1..Len(l)
           R == {w \in P \X P : ~DependencyBefore(l[w[2]], l[w[1]])}
           Ok(p) == \A i, j \in P : i < j => p[i] # p[j] /\ ~DependencyBefore(l[p[j]], l[p[i]])
           order == CHOOSE p \in [P -> P] : Ok(p)
<1>1. Len(l) \in Nat /\ \A i \in P : l[i] \in [key : Nat, variant : Nat]
  <2>1. \A S : l \in Seq(S) => Len(l) \in Nat /\ \A i \in 1..Len(l) : l[i] \in S
    OBVIOUS
  <2> QED
    BY <2>1, Zenon
<1>2. \A i \in P : l[i].key \in Nat /\ l[i].variant \in Nat
  BY <1>1
<1>3. \A a, b \in P : <<a, b>> \in R <=> ~DependencyBefore(l[b], l[a])
  OBVIOUS
<1>4. ASSUME NEW a \in P, NEW b \in P PROVE <<a, b>> \in R \/ <<b, a>> \in R
  <2> HIDE DEF R, P
  <2>1. l[a].key \in Nat /\ l[a].variant \in Nat /\ l[b].key \in Nat /\ l[b].variant \in Nat
    BY <1>2
  <2>2. ~DependencyBefore(l[b], l[a]) \/ ~DependencyBefore(l[a], l[b])
    <3> DEFINE ka == l[a].key
               kb == l[b].key
               va == l[a].variant
               vb == l[b].variant
    <3> HIDE DEF ka, kb, va, vb
    <3>1. ka \in Nat /\ kb \in Nat /\ va \in Nat /\ vb \in Nat
      BY <2>1 DEF ka, kb, va, vb
    <3>2. ~(kb < ka \/ (kb = ka /\ vb < va)) \/ ~(ka < kb \/ (ka = kb /\ va < vb))
      BY <3>1
    <3> QED
      BY <3>2 DEF DependencyBefore, ka, kb, va, vb
  <2> QED
    BY <1>3, <2>2
<1>5. ASSUME NEW a \in P, NEW b \in P, NEW c \in P, <<a, b>> \in R, <<b, c>> \in R
      PROVE  <<a, c>> \in R
  <2> HIDE DEF R, P
  <2>1. /\ l[a].key \in Nat /\ l[a].variant \in Nat /\ l[b].key \in Nat /\ l[b].variant \in Nat
        /\ l[c].key \in Nat /\ l[c].variant \in Nat
    BY <1>2
  <2>2. ~DependencyBefore(l[b], l[a]) /\ ~DependencyBefore(l[c], l[b])
    BY <1>3, <1>5
  <2>3. ~DependencyBefore(l[c], l[a])
    <3> DEFINE ka == l[a].key
               kb == l[b].key
               kc == l[c].key
               va == l[a].variant
               vb == l[b].variant
               vc == l[c].variant
    <3>1. ka \in Nat /\ kb \in Nat /\ kc \in Nat /\ va \in Nat /\ vb \in Nat /\ vc \in Nat
      BY <2>1
    <3>2. ~(kb < ka \/ (kb = ka /\ vb < va)) /\ ~(kc < kb \/ (kc = kb /\ vc < vb))
      BY <2>2 DEF DependencyBefore
    <3>3. ~(kc < ka \/ (kc = ka /\ vc < va))
      <4> HIDE DEF ka, kb, kc, va, vb, vc
      <4> QED
        BY <3>1, <3>2
    <3> QED
      BY <3>3 DEF DependencyBefore
  <2> QED
    BY <1>3, <2>3
<1>6. \E p \in [P -> P] : Ok(p)
  <2>1. PICK p \in [P -> P] : \A i, j \in P : i < j => p[i] # p[j] /\ <<p[i], p[j]>> \in R
    <3> HIDE DEF R
    <3> QED
      BY <1>1, <1>4, <1>5, Listing, Zenon
  <2>2. Ok(p)
    <3> HIDE DEF R
    <3> QED
      BY <1>3, <2>1, Zenon
  <2> QED
    BY <2>2, Zenon
<1>7. order \in [P -> P]
  <2> HIDE DEF Ok
  <2> QED
    BY <1>6
<1>8. Sorted(l, DependencyBefore) = [i \in P |-> l[order[i]]]
  BY DEF Sorted
<1> HIDE DEF order
<1> QED
  BY <1>1, <1>7, <1>8

\* The same for definitions and groups, which sort by their keys.
LEMMA SortedByKey ==
  ASSUME NEW l, IsList(l), \A x \in ToSet(l) : x.key \in Nat
  PROVE  IsList(Sorted(l, KeyBefore)) /\ ToSet(Sorted(l, KeyBefore)) \subseteq ToSet(l)
<1> DEFINE P == 1..Len(l)
           R == {w \in P \X P : ~KeyBefore(l[w[2]], l[w[1]])}
           Ok(p) == \A i, j \in P : i < j => p[i] # p[j] /\ ~KeyBefore(l[p[j]], l[p[i]])
           order == CHOOSE p \in [P -> P] : Ok(p)
<1>1. Len(l) \in Nat /\ \A i \in P : l[i] \in ToSet(l)
  BY ListFacts DEF ToSet, Range
<1>2. \A i \in P : l[i].key \in Nat
  BY <1>1
<1>3. \A a, b \in P : <<a, b>> \in R <=> ~KeyBefore(l[b], l[a])
  OBVIOUS
<1>4. ASSUME NEW a \in P, NEW b \in P PROVE <<a, b>> \in R \/ <<b, a>> \in R
  <2> HIDE DEF R, P
  <2>1. l[a].key \in Nat /\ l[b].key \in Nat
    BY <1>2
  <2>2. ~KeyBefore(l[b], l[a]) \/ ~KeyBefore(l[a], l[b])
    BY <2>1 DEF KeyBefore
  <2> QED
    BY <1>3, <2>2
<1>5. ASSUME NEW a \in P, NEW b \in P, NEW c \in P, <<a, b>> \in R, <<b, c>> \in R
      PROVE  <<a, c>> \in R
  <2> HIDE DEF R, P
  <2>1. l[a].key \in Nat /\ l[b].key \in Nat /\ l[c].key \in Nat
    BY <1>2
  <2>2. ~KeyBefore(l[b], l[a]) /\ ~KeyBefore(l[c], l[b])
    BY <1>3, <1>5
  <2>3. ~KeyBefore(l[c], l[a])
    BY <2>1, <2>2 DEF KeyBefore
  <2> QED
    BY <1>3, <2>3
<1>6. \E p \in [P -> P] : Ok(p)
  <2>1. PICK p \in [P -> P] : \A i, j \in P : i < j => p[i] # p[j] /\ <<p[i], p[j]>> \in R
    <3> HIDE DEF R
    <3> QED
      BY <1>1, <1>4, <1>5, Listing, Zenon
  <2>2. Ok(p)
    <3> HIDE DEF R
    <3> QED
      BY <1>3, <2>1, Zenon
  <2> QED
    BY <2>2
<1>7. order \in [P -> P]
  <2> HIDE DEF Ok
  <2> QED
    BY <1>6
<1>8. Sorted(l, KeyBefore) = [i \in P |-> l[order[i]]]
  BY DEF Sorted
<1> HIDE DEF order
<1>9. Sorted(l, KeyBefore) \in Seq(ToSet(l))
  BY <1>1, <1>7, <1>8
<1> QED
  BY <1>9, ListFacts

\* Import after Export gives arguments of the same form: what the second construction
\* of a transfer is called with.
LEMMA TransferredArguments ==
  ASSUME NEW c, Arguments(c)
  PROVE  Arguments(Import(Export(c)))
<1> DEFINE fs == Sorted(c.features, KeyBefore)
           gs == Sorted(c.groups, KeyBefore)
           ifs == Import(Export(c)).features
           igs == Import(Export(c)).groups
<1>1. IsList(fs) /\ \A d \in ToSet(fs) : IsDefinition(d)
  <2>1. IsList(c.features) /\ \A d \in ToSet(c.features) : IsDefinition(d) /\ d.key \in Nat
    BY DEF Arguments, IsDefinition
  <2> QED
    BY <2>1, SortedByKey
<1>2. IsList(gs) /\ \A g \in ToSet(gs) : IsGroup(g)
  <2>1. IsList(c.groups) /\ \A g \in ToSet(c.groups) : IsGroup(g) /\ g.key \in Nat
    BY DEF Arguments, IsGroup
  <2> QED
    BY <2>1, SortedByKey
<1>3. ifs = [i \in DOMAIN fs |-> decodeDefinition(encodeDefinition(fs[i]))]
  <2> HIDE DEF fs
  <2> QED
    BY DEF Import, Export, Each, fs
<1>4. igs = [i \in DOMAIN gs |-> decodeGroup(encodeGroup(gs[i]))]
  BY DEF Import, Export, Each
<1> HIDE DEF fs, gs, ifs, igs
<1>5. ASSUME NEW s, IsList(s) PROVE IsList(Each(Each(s, encodeStrategy), decodeStrategy))
  <2>1. DOMAIN s = 1..Len(s) /\ Len(s) \in Nat
    BY <1>5, ListFacts
  <2> DEFINE e == Each(Each(s, encodeStrategy), decodeStrategy)
  <2>2. e = [i \in 1..Len(s) |-> decodeStrategy(encodeStrategy(s[i]))]
    BY <2>1 DEF Each
  <2>3. e = [i \in 1..Len(s) |-> e[i]]
    <3> HIDE DEF e
    <3> QED
      BY <2>2
  <2> HIDE DEF e
  <2>4. IsList(e)
    BY <2>1, <2>3, ListFacts
  <2> QED
    BY <2>4 DEF e
<1>6. ASSUME NEW d, IsDefinition(d) PROVE IsDefinition(decodeDefinition(encodeDefinition(d)))
  <2> DEFINE w == encodeDefinition(d)
             m == decodeDefinition(w)
  <2>1. DOMAIN w = DOMAIN d /\ DOMAIN m = DOMAIN w
    BY DEF encodeDefinition, decodeDefinition
  <2>2. /\ w.key = d.key /\ w.groups = d.groups
        /\ w.dependencies = Sorted(d.dependencies, DependencyBefore)
        /\ w.strategies = Each(d.strategies, encodeStrategy)
    BY <1>6 DEF encodeDefinition, IsDefinition
  <2>3. {"key", "default", "variants", "dependencies", "groups", "strategies"} \subseteq DOMAIN w
    BY <1>6, <2>1 DEF IsDefinition
  <2>4. /\ m.key = w.key /\ m.groups = w.groups /\ m.dependencies = w.dependencies
        /\ m.strategies = Each(w.strategies, decodeStrategy)
    <3> HIDE DEF w
    <3> QED
      BY <2>3 DEF decodeDefinition
  <2> HIDE DEF w, m
  <2>5. m.dependencies \in Seq([key : Nat, variant : Nat])
    BY <1>6, <2>2, <2>4, SortedDependencies DEF IsDefinition
  <2>6. IsList(m.strategies)
    BY <1>5, <1>6, <2>2, <2>4 DEF IsDefinition
  <2>7. IsDefinition(m)
    BY <1>6, <2>1, <2>2, <2>3, <2>4, <2>5, <2>6 DEF IsDefinition
  <2> QED
    BY <2>7 DEF w, m
<1>7. ASSUME NEW g, IsGroup(g) PROVE IsGroup(decodeGroup(encodeGroup(g)))
  <2> DEFINE w == encodeGroup(g)
             m == decodeGroup(w)
  <2>1. DOMAIN w = DOMAIN g /\ DOMAIN m = DOMAIN w
    BY DEF encodeGroup, decodeGroup
  <2>2. w.key = g.key /\ w.strategies = Each(g.strategies, encodeStrategy)
    BY <1>7 DEF encodeGroup, IsGroup
  <2>3. {"key", "strategies"} \subseteq DOMAIN w
    BY <1>7, <2>1 DEF IsGroup
  <2>4. m.key = w.key /\ m.strategies = Each(w.strategies, decodeStrategy)
    <3> HIDE DEF w
    <3> QED
      BY <2>3 DEF decodeGroup
  <2> HIDE DEF w, m
  <2>5. IsList(m.strategies)
    BY <1>5, <1>7, <2>2, <2>4 DEF IsGroup
  <2>6. IsGroup(m)
    BY <1>7, <2>1, <2>2, <2>3, <2>4, <2>5 DEF IsGroup
  <2> QED
    BY <2>6 DEF w, m
<1>8. IsList(ifs) /\ \A d \in ToSet(ifs) : IsDefinition(d)
  <2>1. Len(fs) \in Nat /\ DOMAIN fs = 1..Len(fs)
    BY <1>1, ListFacts
  <2>2. DOMAIN ifs = 1..Len(fs) /\ ifs = [i \in 1..Len(fs) |-> ifs[i]]
    BY <1>3, <2>1
  <2>3. \A i \in 1..Len(fs) : IsDefinition(ifs[i])
    BY <1>1, <1>3, <1>6, <2>1 DEF ToSet, Range
  <2> QED
    BY <2>1, <2>2, <2>3, ListFacts DEF ToSet, Range
<1>9. IsList(igs) /\ \A g \in ToSet(igs) : IsGroup(g)
  <2>1. Len(gs) \in Nat /\ DOMAIN gs = 1..Len(gs)
    BY <1>2, ListFacts
  <2>2. DOMAIN igs = 1..Len(gs) /\ igs = [i \in 1..Len(gs) |-> igs[i]]
    BY <1>4, <2>1
  <2>3. \A i \in 1..Len(gs) : IsGroup(igs[i])
    BY <1>2, <1>4, <1>7, <2>1 DEF ToSet, Range
  <2> QED
    BY <2>1, <2>2, <2>3, ListFacts DEF ToSet, Range
<1> QED
  BY <1>8, <1>9 DEF Arguments, ifs, igs

\* What acceptance means.
LEMMA AcceptedSound ==
  ASSUME BuildInv
  PROVE  AcceptedIsSound
<1> SUFFICES ASSUME stage = "accepted" PROVE AcceptedIsSound
  BY DEF AcceptedIsSound
<1>1. /\ Arguments(source) /\ ValidFeatures /\ DependencyFaults = {} /\ GroupFaults = {}
      /\ path = <<>> /\ ranged = Keys /\ WalkOK(Definitions, ranged, visited, path)
  BY Zenon DEF BuildInv
<1>2. /\ Graph(Definitions) /\ \A k \in Keys : IsDefinition(Definitions[k])
      /\ \A k \in Keys : Definitions[k] \in ToSet(source.features)
      /\ \A k \in Keys : \A e \in ToSet(Dependencies(k)) :
           e.key \in Keys /\ e.variant \in DOMAIN Definitions[e.key].variants
  BY <1>1, Checked
<1>3. ~Cyclic(Definitions)
  <2>1. Keys \subseteq ToSet(visited) /\ visited \in Seq(DOMAIN Definitions) /\ Ordered(Definitions, visited)
    BY <1>1 DEF WalkOK
  <2> QED
    BY <1>2, <2>1, OrderedAcyclic DEF Graph, Keys
<1>4. ASSUME NEW k \in Keys, NEW r \in Ranks(Snapshot(Home), Definitions[k]),
             NEW s \in ToSet(StrategiesOf(Snapshot(Home), Definitions[k],
                                          OwnerAt(Snapshot(Home), Definitions[k], r)))
      PROVE  s.variant \in DOMAIN Definitions[k].variants
  <2> DEFINE d == Definitions[k]
             n == Len(d.groups)
             owner == OwnerAt(Snapshot(Home), d, r)
  <2>1. n \in Nat /\ DOMAIN d.groups = 1..n
    <3>1. d.groups \in Seq(Nat)
      BY <1>2 DEF IsDefinition
    <3> QED
      BY <3>1
  <2>2. Snapshot(Home).groups = Groups
    BY DEF Snapshot
  <2>3. \A g \in ToSet(d.groups) : \A m \in 0..Limits.MaxGroupDepth :
          Ancestor(Groups, g, m) # 0 =>
            \A i \in DOMAIN Groups[Ancestor(Groups, g, m)].strategies :
              Groups[Ancestor(Groups, g, m)].strategies[i].variant \in DOMAIN d.variants
    <3>1. AttachmentFaults = {}
      BY <1>1, Zenon DEF GroupFaults
    <3>2. ToSet(d.groups) \subseteq DOMAIN Groups
      BY <3>1 DEF AttachmentFaults
    <3> QED
      BY <3>1, <3>2 DEF AttachmentFaults
  <2>4. \A i \in DOMAIN d.strategies : d.strategies[i].variant \in DOMAIN d.variants
    <3>1. PICK j \in DOMAIN source.features : d = source.features[j]
      BY <1>2 DEF ToSet, Range
    <3>2. Validate(d)
      BY <1>1, <3>1 DEF ValidFeatures
    <3> HIDE DEF d
    <3> QED
      BY <3>2, Zenon DEF Validate
  <2>5. CASE owner = 0
    <3>1. s \in ToSet(d.strategies)
      BY <2>5 DEF StrategiesOf
    <3> QED
      BY <2>4, <3>1 DEF ToSet, Range
  <2>6. CASE owner # 0
    <3>1. ~(r[1] > n) /\ owner = Ancestor(Groups, d.groups[r[1]], r[2])
      BY <2>2, <2>6 DEF OwnerAt
    <3>2. r[1] \in 1..n /\ r[2] \in 0..Limits.MaxGroupDepth
      <4>1. \/ r \in (1..n) \X (0..Limits.MaxGroupDepth)
            \/ r = <<n + 1, 0>>
        BY DEF Ranks
      <4>2. n + 1 > n
        BY <2>1
      <4> HIDE DEF n, d
      <4> QED
        BY <3>1, <4>1, <4>2
    <3>3. d.groups[r[1]] \in ToSet(d.groups)
      BY <2>1, <3>2 DEF ToSet, Range
    <3>4. s \in ToSet(Groups[owner].strategies)
      BY <2>2, <2>6 DEF StrategiesOf
    <3>5. PICK i \in DOMAIN Groups[owner].strategies : s = Groups[owner].strategies[i]
      BY <3>4 DEF ToSet, Range
    <3> HIDE DEF owner, d, n
    <3>6. s.variant \in DOMAIN d.variants
      BY <2>3, <2>6, <3>1, <3>2, <3>3, <3>5
    <3> QED
      BY <3>6 DEF d
  <2> QED
    BY <2>5, <2>6
<1> QED
  BY <1>2, <1>3, <1>4 DEF AcceptedIsSound

-----------------------------------------------------------------------------
(* Calls                                                                   *)

\* The context c is the one the request r describes.
ContextOf(r, c) ==
  IF r.via = "adapter" THEN MapErrors(r.flat) = {} /\ c = mapContext(r.flat) ELSE c = r.ctx

\* The inductive invariant of a call: it is one of the scenario's requests, a snapshot
\* is bound to the tenant of the request, and what an evaluation is given is the
\* context of the request.
CallInv ==
  /\ world \in Scenarios /\ Arguments(stored)
  /\ pc \in {"idle", "snapshot", "evaluate", "export", "import", "done"}
  /\ request.via # "none" => request \in world.requests
  /\ pc \in {"snapshot", "evaluate"} =>
       request.via \in {"adapter", "native", "batch"} /\ ContextOf(request, context)
  /\ pc \in {"export", "import"} => request.via = "transfer"
  /\ pc = "evaluate" => snapshot.tenant = Tenant(request)
  /\ TenantScoped

\* What is assumed of the requests.
LEMMA Requests ==
  ASSUME world \in Scenarios, NEW r \in world.requests, r.via \in {"native", "batch"}
  PROVE  r.tenant # "" /\ r.ctx.time \in Nat /\ (r.via = "batch" => IsList(r.asks))
BY ScenarioAssumption, Zenon

\* The tenant of what a call is evaluated for is never empty.
LEMMA TenantNamed ==
  ASSUME CallInv, pc \in {"snapshot", "evaluate"}
  PROVE  Tenant(request) # ""
<1>1. CASE request.via = "adapter"
  BY <1>1, ScenarioAssumption, Zenon DEF Tenant
<1>2. CASE request.via # "adapter"
  <2>1. request \in world.requests /\ request.via \in {"native", "batch"} /\ world \in Scenarios
    BY <1>2 DEF CallInv
  <2> QED
    BY <1>2, <2>1, Requests, Zenon DEF Tenant
<1> QED
  BY <1>1, <1>2, Zenon

\* A result without an error.
Clean(r) == r.error = ""

\* A snapshot bound to a tenant.
BoundTo(S) == S.tenant # ""

\* An evaluation without an error was asked for the tenant of its snapshot.
LEMMA EvaluatedTenant ==
  ASSUME NEW S, NEW k, NEW type, NEW ctx, BoundTo(S), Clean(evaluate(S, k, type, ctx))
  PROVE  ctx.tenant = S.tenant
<1> SUFFICES ASSUME ctx.tenant # S.tenant PROVE FALSE
  OBVIOUS
<1>1. evaluate(S, k, type, ctx) = Failure("tenant_mismatch")
  BY Zenon DEF evaluate, BoundTo
<1>2. Failure("tenant_mismatch").error = "tenant_mismatch"
  BY DEF Failure
<1> QED
  BY <1>1, <1>2, Zenon DEF Clean

\* A batch without an error has no result with one.
LEMMA BatchErrors ==
  ASSUME NEW results, IsList(results), Clean(Batch(results))
  PROVE  \A i \in DOMAIN results : Clean(results[i])
<1> DEFINE I == {i \in DOMAIN results : ~Clean(results[i])}
           failed == SelectInSeq(results, LAMBDA x : x.error # "")
<1>1. /\ Len(results) \in Nat /\ DOMAIN results = 1..Len(results)
      /\ \A i \in 1..Len(results) : i \in Nat /\ i # 0
  <2>1. Len(results) \in Nat /\ DOMAIN results = 1..Len(results)
    BY ListFacts
  <2> QED
    BY <2>1
<1>2. failed = IF I = {} THEN 0 ELSE Min(I)
  BY Zenon DEF SelectInSeq, Clean
<1>3. ASSUME I # {} PROVE FALSE
  <2>1. I \in SUBSET Nat
    BY <1>1
  <2>2. PICK m \in I : \A n \in I : m <= n
    <3> HIDE DEF I
    <3> QED
      BY <1>3, <2>1, Smallest
  <2>3. Min(I) \in I
    <3> HIDE DEF I
    <3> QED
      BY <2>2 DEF Min
  <2>4. failed # 0 /\ ~Clean(results[failed])
    <3>1. failed \in I
      BY <1>2, <1>3, <2>3, Zenon
    <3> HIDE DEF failed
    <3> QED
      BY <1>1, <3>1
  <2>5. Batch(results).error \in {"batch_limit", results[failed].error}
    <3> HIDE DEF I
    <3> QED
      BY <2>4, Zenon DEF Batch
  <2> HIDE DEF failed
  <2> QED
    BY <2>4, <2>5, Zenon DEF Clean
<1> QED
  BY <1>1, <1>3

\* The adapter's errors have codes.
LEMMA ErrorsHaveCodes ==
  ASSUME NEW error
  PROVE  errorDetail(error).error # "" /\ Failure(error).error = error
<1>1. CodeOf(error) # ""
  BY DEF CodeOf
<1>2. Failure(error).error = error /\ Failure(CodeOf(error)).error = CodeOf(error)
  BY DEF Failure
<1>3. errorDetail(error).error = CodeOf(error)
  BY DEF errorDetail, Failure
<1> QED
  BY <1>1, <1>2, <1>3, Zenon

\* A context that mapContext accepts names no other tenant.
LEMMA MappedTenant ==
  ASSUME NEW flat, MapErrors(flat) = {}, "tenant" \in DOMAIN flat
  PROVE  flat["tenant"].data = Home
<1>1. EntryError(flat, "tenant") = ""
  BY Zenon DEF MapErrors
<1> QED
  BY <1>1 DEF EntryError

\* While no answer is given, nothing is claimed of it.
LEMMA NotDone ==
  ASSUME pc' # "done"
  PROVE  TenantScoped'
BY Zenon DEF TenantScoped, Answered

\* The definitions any tenant has are arguments of a construction.
LEMMA HeldArguments ==
  ASSUME Arguments(stored), NEW tenant
  PROVE  Arguments(Held(tenant))
<1>1. Arguments([features |-> <<>>, groups |-> <<>>])
  <2>1. IsList(<<>>) /\ ToSet(<<>>) = {}
    BY DEF IsList, ToSet, Range
  <2> QED
    BY <2>1 DEF Arguments
<1> QED
  BY <1>1 DEF Held

\* A step that leaves the construction alone leaves its invariant alone.
LEMMA BuildStutter ==
  ASSUME BuildInv, UNCHANGED buildVars
  PROVE  BuildInv'
<1>1. source' = source /\ UNCHANGED <<stage, cause, ranged, visited, path>>
  BY DEF buildVars
<1>2. /\ Definitions' = Definitions /\ Keys' = Keys /\ GroupFaults' = GroupFaults
      /\ ValidFeatures' = ValidFeatures /\ DependencyFaults' = DependencyFaults
  BY <1>1, SameInput
<1> QED
  BY <1>1, <1>2, Zenon DEF BuildInv, RefusalHasCause

\* A request is made.
LEMMA AskStep ==
  ASSUME BuildInv, CallInv, NEW r \in world.requests, AskAdapter(r) \/ AskNative(r) \/ AskTransfer(r)
  PROVE  BuildInv' /\ CallInv'
<1>1. world' = world /\ stored' = stored /\ request' = r /\ world \in Scenarios /\ Arguments(stored)
  BY DEF AskAdapter, AskNative, AskTransfer, CallInv
<1>2. Arguments(Held(Home)) /\ Arguments(Held(r.tenant))
  BY <1>1, HeldArguments
<1>3. CASE AskTransfer(r)
  <2>1. BuildInv'
    BY <1>1, <1>3, BeginKept DEF AskTransfer
  <2>2. TenantScoped'
    BY <1>3, NotDone DEF AskTransfer
  <2> QED
    BY <1>1, <1>3, <2>1, <2>2 DEF AskTransfer, CallInv
<1>4. CASE AskNative(r)
  <2>1. BuildInv'
    BY <1>2, <1>4, BeginKept DEF AskNative
  <2>2. TenantScoped'
    BY <1>4, NotDone DEF AskNative
  <2>3. r.via \in {"native", "batch"} /\ context' = r.ctx /\ pc' = "snapshot"
    BY <1>4 DEF AskNative
  <2>4. ContextOf(request', context')
    BY <1>1, <2>3 DEF ContextOf
  <2> QED
    BY <1>1, <2>1, <2>2, <2>3, <2>4 DEF CallInv
<1>5. CASE AskAdapter(r) /\ pc' = "snapshot"
  <2>1. r.via = "adapter" /\ MapErrors(r.flat) = {} /\ context' = mapContext(r.flat) /\ Begin(Held(Home))
    BY <1>5 DEF AskAdapter
  <2>2. BuildInv'
    BY <1>2, <2>1, BeginKept
  <2>3. TenantScoped'
    BY <1>5, NotDone
  <2>4. ContextOf(request', context')
    BY <1>1, <2>1 DEF ContextOf
  <2> QED
    BY <1>1, <1>5, <2>1, <2>2, <2>3, <2>4 DEF CallInv
<1>6. CASE AskAdapter(r) /\ pc' = "done"
  <2>1. PICK error : answer' = errorDetail(error)
    BY <1>6 DEF AskAdapter
  <2>2. answer'.error # "" /\ request'.via = "adapter"
    BY <1>1, <1>6, <2>1, ErrorsHaveCodes, Zenon DEF AskAdapter
  <2>3. TenantScoped'
    BY <2>2, Zenon DEF TenantScoped, Answered
  <2>4. UNCHANGED buildVars
    BY <1>6 DEF AskAdapter
  <2>5. BuildInv'
    BY <2>4, BuildStutter
  <2> QED
    BY <1>1, <1>6, <2>3, <2>5 DEF CallInv
<1> QED
  BY <1>3, <1>4, <1>5, <1>6 DEF AskAdapter

\* A call fails before it is evaluated.
LEMMA NotLoadedStep ==
  ASSUME BuildInv, CallInv, NotLoaded
  PROVE  BuildInv' /\ CallInv'
<1>1. /\ pc = "snapshot" /\ pc' = "done" /\ UNCHANGED <<world, stored, request>>
      /\ UNCHANGED buildVars
  BY DEF NotLoaded
<1>2. PICK error : error # "" /\ answer' = Failed(error)
  BY Zenon DEF NotLoaded, BuildInv
<1>3. request.via \in {"adapter", "native", "batch"}
  BY <1>1 DEF CallInv
<1>4. Failed(error).error # ""
  <2>1. CASE request.via = "adapter"
    BY <2>1, ErrorsHaveCodes, Zenon DEF Failed
  <2>2. CASE request.via = "batch"
    BY <1>2, <2>2, Zenon DEF Failed
  <2>3. CASE request.via = "native"
    BY <1>2, <2>3, ErrorsHaveCodes, Zenon DEF Failed
  <2> QED
    BY <1>3, <2>1, <2>2, <2>3, Zenon
<1>5. TenantScoped'
  BY <1>2, <1>4, Zenon DEF TenantScoped, Answered
<1>6. BuildInv'
  BY <1>1, BuildStutter
<1> QED
  BY <1>1, <1>5, <1>6 DEF CallInv

\* A call is evaluated.
LEMMA AnswerStep ==
  ASSUME BuildInv, CallInv, AnswerNative \/ AnswerAdapter
  PROVE  BuildInv' /\ CallInv'
<1>1. /\ pc = "evaluate" /\ pc' = "done" /\ UNCHANGED <<world, stored, request, context, snapshot>>
      /\ UNCHANGED buildVars
  BY Zenon DEF AnswerNative, AnswerAdapter
<1>2. /\ ContextOf(request, context) /\ snapshot.tenant = Tenant(request)
      /\ request.via \in {"adapter", "native", "batch"}
      /\ request \in world.requests /\ world \in Scenarios
  BY <1>1 DEF CallInv
<1>3. BoundTo(snapshot)
  BY <1>1, <1>2, TenantNamed, Zenon DEF BoundTo
<1>4. ASSUME request.via = "native" PROVE TenantScoped'
  <2>1. answer' = evaluate(snapshot, request.key, request.type, context)
    BY <1>4 DEF AnswerNative, AnswerAdapter
  <2>2. context = request.ctx /\ Tenant(request) = request.tenant
    BY <1>2, <1>4 DEF ContextOf, Tenant
  <2>3. ASSUME answer'.error = "" PROVE request.ctx.tenant = request.tenant
    <3>1. Clean(evaluate(snapshot, request.key, request.type, context))
      BY <2>1, <2>3, Zenon DEF Clean
    <3>2. context.tenant = snapshot.tenant
      BY <1>3, <3>1, EvaluatedTenant
    <3> QED
      BY <1>2, <2>2, <3>2
  <2>4. Described' = request.ctx /\ Tenant(request)' = request.tenant
    BY <1>1, <1>4 DEF Described, Tenant
  <2>5. request'.via # "batch"
    BY <1>1, <1>4
  <2> QED
    BY <2>3, <2>4, <2>5, Zenon DEF TenantScoped, Answered
<1>5. ASSUME request.via = "adapter" PROVE TenantScoped'
  <2>1. MapErrors(request.flat) = {} /\ Tenant(request)' = Home
    BY <1>1, <1>2, <1>5 DEF ContextOf, Tenant
  <2>2. Described'.tenant = Home
    BY <1>1, <1>5, <2>1, MappedTenant DEF Described
  <2>3. request'.via # "batch"
    BY <1>1, <1>5
  <2> QED
    BY <2>1, <2>2, <2>3, Zenon DEF TenantScoped, Answered
<1>6. ASSUME request.via = "batch" PROVE TenantScoped'
  <2> DEFINE results == [i \in DOMAIN request.asks |->
                           evaluate(snapshot, request.asks[i].key, request.asks[i].type, context)]
  <2>1. answer' = Batch(results)
    BY <1>6 DEF AnswerNative, AnswerAdapter
  <2>2. context = request.ctx /\ Tenant(request) = request.tenant
    BY <1>2, <1>6 DEF ContextOf, Tenant
  <2>3. IsList(request.asks)
    BY <1>2, <1>6, Requests, Zenon
  <2>4. ASSUME Clean(answer'), request.asks # <<>> PROVE request.ctx.tenant = request.tenant
    <3>1. IsList(results) /\ 1 \in DOMAIN results
      <4>1. /\ Len(request.asks) \in Nat /\ DOMAIN request.asks = 1..Len(request.asks)
        BY <2>3, ListFacts
      <4>2. 1 \in 1..Len(request.asks)
        BY <2>3, <2>4, <4>1 DEF IsList
      <4>3. results = [i \in 1..Len(request.asks) |-> results[i]]
        BY <4>1
      <4>4. DOMAIN results = 1..Len(request.asks)
        BY <4>1
      <4> HIDE DEF results
      <4> QED
        BY <4>1, <4>2, <4>3, <4>4, ListFacts
    <3>2. Clean(results[1])
      <4> HIDE DEF results
      <4> QED
        BY <2>1, <2>4, <3>1, BatchErrors
    <3>3. results[1] = evaluate(snapshot, request.asks[1].key, request.asks[1].type, context)
      BY <3>1
    <3> HIDE DEF results
    <3>4. Clean(evaluate(snapshot, request.asks[1].key, request.asks[1].type, context))
      BY <3>2, <3>3
    <3>5. context.tenant = snapshot.tenant
      BY <1>3, <3>4, EvaluatedTenant
    <3> QED
      BY <1>2, <2>2, <3>5
  <2> HIDE DEF results
  <2>5. request' = request /\ request.via # "native" /\ request.via # "adapter"
    BY <1>1, <1>6
  <2>6. ~Answered'
    BY <2>5, Zenon DEF Answered
  <2> QED
    BY <2>4, <2>5, <2>6, Zenon DEF TenantScoped, Clean
<1>7. TenantScoped'
  <2>1. request.via = "adapter" \/ request.via = "native" \/ request.via = "batch"
    BY <1>2
  <2> QED
    BY <1>4, <1>5, <1>6, <2>1
<1>8. BuildInv'
  BY <1>1, BuildStutter
<1> QED
  BY <1>1, <1>7, <1>8 DEF CallInv

\* A transfer goes on.
LEMMA TransferStep ==
  ASSUME BuildInv, CallInv, Exported \/ Imported
  PROVE  BuildInv' /\ CallInv'
<1>1. /\ pc \in {"export", "import"} /\ UNCHANGED <<world, request, context, snapshot>>
      /\ pc' \in {"import", "done"}
  BY DEF Exported, Imported
<1>2. request.via = "transfer" /\ request'.via = "transfer"
  BY <1>1 DEF CallInv
<1>3. TenantScoped'
  <2>1. request'.via # "native" /\ request'.via # "adapter" /\ request'.via # "batch"
    BY <1>2
  <2> QED
    BY <2>1, Zenon DEF TenantScoped, Answered
<1>4. Arguments(source) /\ Arguments(stored)
  BY Zenon DEF BuildInv, CallInv
<1>5. Arguments(stored')
  BY <1>4 DEF Exported, Imported
<1>6. BuildInv'
  <2>1. CASE Begin(Import(Export(source)))
    BY <1>4, <2>1, TransferredArguments, BeginKept
  <2>2. CASE UNCHANGED buildVars
    BY <2>2, BuildStutter
  <2> QED
    BY <2>1, <2>2 DEF Exported, Imported
<1> QED
  BY <1>1, <1>2, <1>3, <1>5, <1>6 DEF CallInv

\* A step that leaves a call alone leaves its invariant alone.
LEMMA CallStutter ==
  ASSUME CallInv, UNCHANGED callVars
  PROVE  CallInv'
<1>1. UNCHANGED <<world, stored, pc, request, context, snapshot, answer>>
  BY DEF callVars
<1>2. TenantScoped'
  BY <1>1, Zenon DEF CallInv, TenantScoped, Answered, Described, Tenant
<1>3. Tenant(request)' = Tenant(request) /\ ContextOf(request, context)' = ContextOf(request, context)
  BY <1>1
<1> QED
  BY <1>1, <1>2, <1>3 DEF CallInv

\* The snapshot is bound to the tenant of the request.
LEMMA LoadedStep ==
  ASSUME BuildInv, CallInv, Loaded
  PROVE  BuildInv' /\ CallInv'
<1>1. /\ pc = "snapshot" /\ pc' = "evaluate" /\ UNCHANGED <<world, stored, request, context>>
      /\ UNCHANGED buildVars /\ snapshot' = Snapshot(Tenant(request))
  BY DEF Loaded
<1>2. snapshot'.tenant = Tenant(request)'
  BY <1>1 DEF Snapshot, Tenant
<1>3. TenantScoped'
  BY <1>1, NotDone
<1>4. BuildInv'
  BY <1>1, BuildStutter
<1>5. ContextOf(request, context)' = ContextOf(request, context)
  BY <1>1
<1> QED
  BY <1>1, <1>2, <1>3, <1>4, <1>5 DEF CallInv

\* BuildInv and CallInv are inductive.
LEMMA CallInvariant == Spec => [](BuildInv /\ CallInv)
<1>1. Init => BuildInv /\ CallInv
  <2> SUFFICES ASSUME Init PROVE BuildInv /\ CallInv
    OBVIOUS
  <2>1. world \in Scenarios /\ Arguments(world)
    BY ScenarioAssumption, Zenon DEF Init
  <2>2. Arguments(stored)
    BY <2>1 DEF Init, Arguments
  <2>3. BuildInv
    <3>1. \A S : <<>> \in Seq(S)
      OBVIOUS
    <3> QED
      BY <2>2, <3>1, Zenon DEF Init, Idle, BuildInv, Stages, Causes, RefusalHasCause
  <2>4. TenantScoped
    BY DEF Init, TenantScoped, Answered
  <2> QED
    BY <2>1, <2>2, <2>3, <2>4 DEF Init, CallInv
<1>2. BuildInv /\ CallInv /\ [Next]_vars => BuildInv' /\ CallInv'
  <2> SUFFICES ASSUME BuildInv, CallInv, [Next]_vars PROVE BuildInv' /\ CallInv'
    OBVIOUS
  <2>1. ASSUME NEW r \in world.requests, AskAdapter(r) \/ AskNative(r) \/ AskTransfer(r)
        PROVE  BuildInv' /\ CallInv'
    BY <2>1, AskStep
  <2>2. CASE Construct
    BY <2>2, BuildKept, CallStutter DEF Construct
  <2>3. CASE Loaded
    BY <2>3, LoadedStep
  <2>4. CASE NotLoaded
    BY <2>4, NotLoadedStep
  <2>5. CASE AnswerNative \/ AnswerAdapter
    BY <2>5, AnswerStep
  <2>6. CASE Exported \/ Imported
    BY <2>6, TransferStep
  <2>7. ASSUME NEW s \in world.shutters, EnterOnce(s) \/ CloseNative(s) \/ CloseEvents(s) \/ Wake(s)
        PROVE  BuildInv' /\ CallInv'
    <3>1. UNCHANGED buildVars /\ UNCHANGED callVars
      BY <2>7 DEF EnterOnce, CloseNative, CloseEvents, Wake
    <3> QED
      BY <3>1, BuildStutter, CallStutter
  <2>8. CASE UNCHANGED vars
    <3>1. UNCHANGED buildVars /\ UNCHANGED callVars
      BY <2>8 DEF vars
    <3> QED
      BY <3>1, BuildStutter, CallStutter
  <2> QED
    BY <2>1, <2>2, <2>3, <2>4, <2>5, <2>6, <2>7, <2>8 DEF Next
<1> QED
  BY <1>1, <1>2, PTL DEF Spec

\* Whatever order a construction ranges over its maps, what it accepts has no dependency
\* cycle, no dependency without its target, and no inherited strategy without its variant.
THEOREM AcceptanceSound == Spec => []AcceptedIsSound
<1>1. BuildInv => AcceptedIsSound
  BY AcceptedSound
<1> QED
  BY <1>1, CallInvariant, PTL

\* A construction reports a cycle or an excess of depth only where there is one.
THEOREM RefusalJustified == Spec => []RefusalHasCause
<1>1. BuildInv => RefusalHasCause
  BY Zenon DEF BuildInv
<1> QED
  BY <1>1, CallInvariant, PTL

\* No evaluation succeeds for a context of another tenant than the snapshot's.
THEOREM TenantsSeparate == Spec => []TenantScoped
<1>1. CallInv => TenantScoped
  BY DEF CallInv
<1> QED
  BY <1>1, CallInvariant, PTL

\* Sequences over a smaller set are sequences over a larger one.
LEMMA SeqMonotone ==
  ASSUME NEW S, NEW T, S \subseteq T, NEW q \in Seq(S)
  PROVE  q \in Seq(T)
OBVIOUS

\* The variables have their types.
THEOREM TypeCorrect == Spec => []TypeOK
<1>1. BuildInv /\ CallInv /\ ShutInv => TypeOK
  <2> SUFFICES ASSUME BuildInv, CallInv, ShutInv PROVE TypeOK
    OBVIOUS
  <2>1. path \in Seq([key : Keys, next : Nat])
    <3>1. Frames(Definitions) \subseteq [key : Keys, next : Nat]
      BY DEF Frames, Keys
    <3>2. path \in Seq(Frames(Definitions))
      BY Zenon DEF BuildInv
    <3> HIDE DEF Frames
    <3> QED
      BY <3>1, <3>2, SeqMonotone, Zenon
  <2>2. closes \in Nat /\ closed \in Nat
    BY DEF ShutInv, Owned
  <2>3. shut \in [Shutters -> Returned \cup {"closing", "closed", "close_failed", "waiting"}]
    BY DEF ShutInv, ShutStates, Returned, InOnce
  <2>4. once \in {"new", "running", "done"}
    BY DEF ShutInv
  <2>5. stage \in Stages /\ cause \in Causes /\ ranged \subseteq Keys /\ visited \in Seq(Keys)
    BY Zenon DEF BuildInv
  <2>6. pc \in {"idle", "snapshot", "evaluate", "export", "import", "done"}
    BY DEF CallInv
  <2> QED
    BY <2>1, <2>2, <2>3, <2>4, <2>5, <2>6 DEF TypeOK
<1> QED
  BY <1>1, CallInvariant, ShutInvariant, PTL

-----------------------------------------------------------------------------
(* Schedules                                                               *)

\* Where minute m of weekday d of week a lies in the week that begins at minute st of
\* weekday b, and the same for a weekday e days after b.
WeekMinute(M, a, d, m, b, st) == (((7 * a + d) * M + m) - (b * M + st)) % (7 * M)
Since(M, e, m, st) == IF e = 0 /\ m < st THEN 7 * M + m - st ELSE e * M + m - st
Agree(M, a, d, m, b, st, e) == WeekMinute(M, a, d, m, b, st) = Since(M, e, m, st)

\* The two agree.
LEMMA WeekOffset ==
  ASSUME NEW M \in Nat \ {0}, NEW a \in Int, NEW d \in 0..6, NEW m \in 0..M - 1,
         NEW b \in 0..6, NEW st \in 0..M - 1, NEW e \in 0..6, e = d - b \/ e = d - b + 7
  PROVE  Agree(M, a, d, m, b, st, e)
<1> DEFINE x == ((7 * a + d) * M + m) - (b * M + st)
           W == 7 * M
           r == IF e = 0 /\ m < st THEN 7 * M + m - st ELSE e * M + m - st
<1>1. W \in Nat \ {0} /\ a * M \in Int
  OBVIOUS
<1>2. (7 * a + d) * M = 7 * (a * M) + d * M
  OBVIOUS
<1>3. PICK c \in {a, a - 1} : x = c * W + (e * M + m - st)
  <2>1. a * W = 7 * (a * M) /\ (a - 1) * W = 7 * (a * M) - 7 * M
    OBVIOUS
  <2>2. CASE e = d - b
    <3>1. e * M = d * M - b * M
      BY <2>2
    <3>2. x = a * W + (e * M + m - st)
      <4>1. d * M \in Int /\ b * M \in Int /\ e * M \in Int
        OBVIOUS
      <4> QED
        BY <1>1, <1>2, <2>1, <3>1, <4>1
    <3> QED
      BY <3>2
  <2>3. CASE e = d - b + 7
    <3>1. e * M = d * M - b * M + 7 * M
      BY <2>3
    <3>2. x = (a - 1) * W + (e * M + m - st)
      <4>1. d * M \in Int /\ b * M \in Int /\ e * M \in Int
        OBVIOUS
      <4> QED
        BY <1>1, <1>2, <2>1, <3>1, <4>1
    <3> QED
      BY <3>2
  <2> QED
    BY <2>2, <2>3
<1>4. e * M \in Nat /\ e * M <= 6 * M /\ (e # 0 => e * M >= M) /\ (e = 0 => e * M = 0)
  BY Multiple
<1>5. r \in 0..W - 1
  BY <1>4
<1>6. PICK q \in Int : x = q * W + r
  <2>1. c \in Int /\ c * W \in Int /\ (c - 1) * W = c * W - 7 * M
    OBVIOUS
  <2>2. CASE e = 0 /\ m < st
    <3>1. x = (c - 1) * W + r
      BY <1>3, <1>4, <2>1, <2>2
    <3> HIDE DEF x, W, r
    <3> QED
      BY <2>1, <3>1
  <2>3. CASE ~(e = 0 /\ m < st)
    BY <1>3, <2>1, <2>3
  <2> QED
    BY <2>2, <2>3
<1>7. x \in Int
  OBVIOUS
<1>8. x % W = r
  <2> HIDE DEF x, W, r
  <2> QED
    BY <1>1, <1>5, <1>6, <1>7, Remainder
<1> QED
  BY <1>8 DEF Agree, WeekMinute, Since

\* weeklyWindowMatches decides by weekday and minute what lies within a window.
LEMMA WindowExact ==
  ASSUME NEW w, w.weekday \in 0..6, w.start \in 0..(MinutesPerDay - 1),
         w.end \in 0..MinutesPerDay, w.start # w.end, NEW local \in Nat
  PROVE  weeklyWindowMatches(w, weekdayAt(local), minuteAt(local)) <=> InWindow(w, local)
<1> DEFINE M == MinutesPerDay
           day == local \div M
           m == minuteAt(local)
           d == weekdayAt(local)
           a == day \div 7
           b == w.weekday
           st == w.start
           en == w.end
           e == IF d >= b THEN d - b ELSE d - b + 7
<1>1. M \in Nat \ {0} /\ b \in 0..6 /\ st \in 0..M - 1 /\ en \in 0..M /\ st # en
  BY ClockAssumption
<1>2. day \in Int /\ m \in 0..M - 1 /\ local = M * day + m
  <2> HIDE DEF M
  <2> QED
    BY <1>1, Division DEF minuteAt, M
<1>3. a \in Int /\ d \in 0..6 /\ day = 7 * a + d
  <2> HIDE DEF day
  <2>1. 7 \in Nat \ {0}
    OBVIOUS
  <2>2. a \in Int /\ day % 7 \in 0..7 - 1 /\ day = 7 * a + (day % 7)
    BY <1>2, <2>1, Division
  <2>3. d = day % 7
    BY DEF weekdayAt, day
  <2> QED
    BY <2>2, <2>3
<1>4. e \in 0..6 /\ (e = d - b \/ e = d - b + 7)
  <2> HIDE DEF d, b
  <2> QED
    BY <1>1, <1>3
<1>5. (e = 0 <=> d = b) /\ (e = 1 <=> d = (b + 1) % 7)
  <2> HIDE DEF d, b
  <2> QED
    BY <1>1, <1>3
<1> DEFINE r == IF e = 0 /\ m < st THEN 7 * M + m - st ELSE e * M + m - st
           length == IF st < en THEN en - st ELSE M - st + en
<1>6. InWindow(w, local) <=> r < length
  <2>1. local = (7 * a + d) * M + m
    <3> HIDE DEF day, M, a, d, m
    <3> QED
      BY <1>1, <1>2, <1>3
  <2>2. InWindow(w, local) <=> (local - (b * M + st)) % (7 * M) < length
    BY DEF InWindow, Week, WindowLength
  <2> HIDE DEF day, M, a, d, m, b, st, e, length
  <2>3. Agree(M, a, d, m, b, st, e)
    BY <1>1, <1>2, <1>3, <1>4, WeekOffset, Zenon
  <2> QED
    BY <2>1, <2>2, <2>3 DEF Agree, WeekMinute, Since
<1>7. weeklyWindowMatches(w, d, m)
        <=> \/ st < en /\ e = 0 /\ m >= st /\ m < en
            \/ st > en /\ e = 0 /\ m >= st
            \/ st > en /\ e = 1 /\ m < en
  <2> HIDE DEF d, m, e
  <2> QED
    BY <1>5 DEF weeklyWindowMatches
<1>8. (\/ st < en /\ e = 0 /\ m >= st /\ m < en
       \/ st > en /\ e = 0 /\ m >= st
       \/ st > en /\ e = 1 /\ m < en) <=> r < length
  <2> HIDE DEF day, M, a, d, m, b, st, en, e
  <2>1. CASE e = 0
    BY <1>1, <1>2, <2>1
  <2>2. CASE e = 1
    BY <1>1, <1>2, <2>2
  <2>3. CASE e \in 2..6
    <3>1. e * M >= 2 * M /\ e * M \in Nat
      BY <1>1, <2>3
    <3> QED
      BY <1>1, <1>2, <2>3, <3>1
  <2> QED
    BY <1>4, <2>1, <2>2, <2>3
<1> QED
  <2> HIDE DEF r, length, e, st, en
  <2> QED
    BY <1>6, <1>7, <1>8

\* A schedule matches exactly in the minutes its windows span.
THEOREM ScheduleCorrect == Spec => []ScheduleExact
<1>1. BuildInv /\ CallInv => ScheduleExact
  <2> SUFFICES ASSUME BuildInv, CallInv, pc = "done", request.via = "native", stage = "accepted",
                      NEW d \in ToSet(source.features), NEW i \in DOMAIN d.strategies,
                      d.strategies[i].kind = "schedule"
               PROVE  Matches(d.strategies[i], d.key, request.ctx) <=>
                        /\ request.ctx.time # 0
                        /\ \E j \in DOMAIN d.strategies[i].windows :
                             InWindow(d.strategies[i].windows[j],
                                      request.ctx.time + Zones[d.strategies[i].location])
    BY DEF ScheduleExact
  <2> DEFINE s == d.strategies[i]
             local == request.ctx.time + Zones[s.location]
  <2>1. ValidSchedule(s)
    <3>1. Validate(d)
      BY Zenon DEF BuildInv, ValidFeatures, ToSet, Range
    <3>2. ValidateStrategy(s)
      BY <3>1, Zenon DEF Validate
    <3> QED
      BY <3>2 DEF ValidateStrategy
  <2>2. local \in Nat
    <3>1. request.ctx.time \in Nat
      BY Requests, Zenon DEF CallInv
    <3>2. Zones[s.location] \in Nat
      BY <2>1, ClockAssumption DEF ValidSchedule
    <3>3. \A x, y \in Nat : x + y \in Nat
      OBVIOUS
    <3> HIDE DEF s
    <3> QED
      BY <3>1, <3>2, <3>3
  <2> HIDE DEF local
  <2>3. \A j \in DOMAIN s.windows :
          weeklyWindowMatches(s.windows[j], weekdayAt(local), minuteAt(local))
            <=> InWindow(s.windows[j], local)
    <3> HIDE DEF s
    <3>1. \A j \in DOMAIN s.windows :
            /\ s.windows[j].weekday \in 0..6 /\ s.windows[j].start \in 0..(MinutesPerDay - 1)
            /\ s.windows[j].end \in 0..MinutesPerDay /\ s.windows[j].start # s.windows[j].end
      BY <2>1 DEF ValidSchedule
    <3> QED
      BY <2>2, <3>1, WindowExact
  <2>4. Matches(s, d.key, request.ctx) <=> ScheduleMatches(s, request.ctx)
    BY DEF Matches
  <2>5. ScheduleMatches(s, request.ctx) <=>
          /\ request.ctx.time # 0
          /\ \E j \in DOMAIN s.windows :
               weeklyWindowMatches(s.windows[j], weekdayAt(local), minuteAt(local))
    BY DEF ScheduleMatches, local
  <2> QED
    BY <2>3, <2>4, <2>5, Zenon DEF local
<1> QED
  BY <1>1, CallInvariant, PTL

=============================================================================
