----------------------------- MODULE Evaluation -----------------------------
(***************************************************************************)
(* Evaluation of a feature against a snapshot S and a context (evaluate.go *)
(* and context.go): dependencies first, then the strategies of the         *)
(* attached groups with their parents, then the feature's own strategies.  *)
(* The walks are recursive functions with the parameters of the code's     *)
(* recursive methods.                                                      *)
(*                                                                         *)
(* Diagnostics are output only and are left out.                           *)
(***************************************************************************)
EXTENDS SnapshotBuild

-----------------------------------------------------------------------------
(* Results                                                                 *)

\* evaluationResult, or an error, or no match; strategy is <<group, name>>, and
\* group 0 is the feature itself.
Result(d, value, variant, reason, strategy) ==
  [error |-> "", matched |-> TRUE, value |-> value, variant |-> variant,
   reason |-> reason, strategy |-> strategy, version |-> d.version]
Failure(why) ==
  [error |-> why, matched |-> FALSE, value |-> Value("none", ""), variant |-> 0,
   reason |-> "", strategy |-> <<0, "">>, version |-> 0]
NoMatch == Failure("")

defaultResult(d, reason) == Result(d, d.default, 0, reason, <<0, "">>)

Decided(r) == r.matched \/ r.error # ""

-----------------------------------------------------------------------------
(* Strategies and groups                                                   *)

\* evaluateOneStrategy: a group overrides the reason, and an empty reason is a
\* targeting match.
evaluateOneStrategy(d, s, group, ctx) ==
  IF Fails(s) THEN Failure("strategy")
  ELSE IF ~Matches(s, d.key, ctx) THEN NoMatch
  ELSE Result(d, d.variants[s.variant], s.variant,
              IF group # 0 THEN "group_match"
              ELSE IF ReasonOf(s) = "" THEN "targeting_match" ELSE ReasonOf(s),
              <<group, s.name>>)

\* The loop over a list of strategies, left at the first that matches or fails.
firstDecided(d, list, group, ctx) ==
  LET Decides(i) == Fails(list[i]) \/ Matches(list[i], d.key, ctx)
      first == {i \in DOMAIN list : Decides(i) /\ \A j \in 1..(i - 1) : ~Decides(j)}
  IN  CHOOSE o \in {evaluateOneStrategy(d, list[i], group, ctx) : i \in first} \cup {NoMatch} :
        Decided(o) \/ first = {}

\* evaluateGroup from a group upwards: the outcome and the groups seen so far.
evaluateGroup(S, d, ctx, key, seen, depth0) ==
  LET climb[g \in Nat, visitedGroups \in SUBSET Nat, depth \in Nat] ==
        IF depth > Limits.MaxGroupDepth
          THEN [outcome |-> Failure("group_depth"), seen |-> visitedGroups]
        ELSE IF g \in visitedGroups
          THEN [outcome |-> NoMatch, seen |-> visitedGroups]
        ELSE LET outcome == firstDecided(d, S.groups[g].strategies, g, ctx)
             IN  IF Decided(outcome) \/ S.groups[g].parent = 0
                   THEN [outcome |-> outcome, seen |-> visitedGroups \cup {g}]
                   ELSE climb[S.groups[g].parent, visitedGroups \cup {g}, depth + 1]
  IN  climb[key, seen, depth0]

\* Mutant: the feature's own strategies come before the groups.
OwnFirst(S, d, ctx) ==
  LET attached[i \in Nat, seen \in SUBSET Nat] ==
        IF i > Len(d.groups) THEN NoMatch
        ELSE LET r == evaluateGroup(S, d, ctx, d.groups[i], seen, 0)
             IN  IF Decided(r.outcome) THEN r.outcome ELSE attached[i + 1, r.seen]
      own == firstDecided(d, d.strategies, 0, ctx)
  IN  IF Decided(own) THEN own ELSE attached[1, {}]

\* The loops over the attached groups, which share visitedGroups, and then over the
\* feature's own strategies.
evaluateStrategies(S, d, ctx) ==
  LET attached[i \in Nat, seen \in SUBSET Nat] ==
        IF i > Len(d.groups) THEN firstDecided(d, d.strategies, 0, ctx)
        ELSE LET r == evaluateGroup(S, d, ctx, d.groups[i], seen, 0)
             IN  IF Decided(r.outcome) THEN r.outcome ELSE attached[i + 1, r.seen]
  IN  attached[1, {}]

-----------------------------------------------------------------------------
(* Features                                                                *)

\* evaluateKey.  The first dependency that fails or selects another variant ends the
\* loop over the dependencies.
evaluateKey(S, key, ctx) ==
  LET eval[k \in Nat, onPath \in SUBSET Nat, depth \in Nat] ==
        IF depth > Limits.MaxEvaluationDepth THEN Failure("depth")
        ELSE IF k \in onPath THEN Failure("cycle")
        ELSE IF k \notin DOMAIN S.features THEN Failure("not_found")
        ELSE
          LET d == S.features[k]
              Required(e) == eval[e.key, onPath \cup {k}, depth + 1]
              unmet == SelectInSeq(d.dependencies, LAMBDA e :
                         Required(e).error # "" \/ Required(e).variant # e.variant)
              selected == evaluateStrategies(S, d, ctx)
          IN  IF d.lifecycle # "active" THEN defaultResult(d, "inactive")
              ELSE IF unmet # 0 /\ Required(d.dependencies[unmet]).error # ""
                THEN Failure(Required(d.dependencies[unmet]).error)
              ELSE IF unmet # 0 THEN defaultResult(d, "dependency_failed")
              ELSE IF Decided(selected) THEN selected
              ELSE defaultResult(d, "default")
  IN  eval[key, {}, 0]

\* Context.validate, sizes left out.
ContextError(ctx) ==
  IF \/ Cardinality(DOMAIN ctx.attributes) > Limits.MaxAttributes
     \/ Cardinality(DOMAIN ctx.facts) > Limits.MaxFacts
    THEN "context_limit"
  ELSE IF \E f \in DOMAIN ctx.facts : ~validValue(ctx.facts[f]) THEN "invalid"
  ELSE ""

\* Snapshot.evaluate, which every typed method calls.
evaluate(S, key, type, ctx) ==
  IF S.tenant # "" /\ ctx.tenant # S.tenant THEN Failure("tenant_mismatch")
  ELSE IF ContextError(ctx) # "" THEN Failure(ContextError(ctx))
  ELSE IF key \notin DOMAIN S.features THEN Failure("not_found")
  ELSE IF S.features[key].type # type THEN Failure("type")
  ELSE evaluateKey(S, key, ctx)

\* Snapshot.Batch, given the result of each request: all details or the first error.
Batch(results) ==
  LET failed == SelectInSeq(results, LAMBDA r : r.error # "")
  IN  IF Len(results) > Limits.MaxBatchSize THEN [error |-> "batch_limit", details |-> <<>>]
      ELSE IF failed # 0 THEN [error |-> results[failed].error, details |-> <<>>]
      ELSE [error |-> "", details |-> results]

-----------------------------------------------------------------------------
(* What evaluation means, without a walk                                   *)

\* Places a strategy can have: the n-th parent of the i-th attached group, or,
\* after all of those, the feature itself.
Ranks(S, d) ==
  {r \in (1..Len(d.groups)) \X (0..Limits.MaxGroupDepth) :
     Ancestor(S.groups, d.groups[r[1]], r[2]) # 0} \cup {<<Len(d.groups) + 1, 0>>}
OwnerAt(S, d, r) == IF r[1] > Len(d.groups) THEN 0 ELSE Ancestor(S.groups, d.groups[r[1]], r[2])
StrategiesOf(S, d, owner) == IF owner = 0 THEN d.strategies ELSE S.groups[owner].strategies

Precedes(p, q) ==
  \/ p[1] < q[1]
  \/ p[1] = q[1] /\ p[2] < q[2]
  \/ p[1] = q[1] /\ p[2] = q[2] /\ p[3] < q[3]

\* The places of the strategies that match; a strategy that fails is not one.
Candidates(S, d, ctx) ==
  UNION {LET list == StrategiesOf(S, d, OwnerAt(S, d, r))
         IN  {<<r[1], r[2], j>> : j \in {j \in DOMAIN list :
                                           ~Fails(list[j]) /\ Matches(list[j], d.key, ctx)}}
           : r \in Ranks(S, d)}

\* The detail of feature k when every feature has the variant chosen says.
DetailGiven(S, k, ctx, chosen) ==
  LET d == S.features[k]
      winners == Candidates(S, d, ctx)
      winner == CHOOSE p \in winners : \A q \in winners : q = p \/ Precedes(p, q)
      owner == OwnerAt(S, d, winner)
      s == StrategiesOf(S, d, owner)[winner[3]]
  IN  IF d.lifecycle # "active" THEN defaultResult(d, "inactive")
      ELSE IF \E i \in DOMAIN d.dependencies :
                chosen[d.dependencies[i].key] # d.dependencies[i].variant
        THEN defaultResult(d, "dependency_failed")
      ELSE IF winners = {} THEN defaultResult(d, "default")
      ELSE Result(d, d.variants[s.variant], s.variant,
                  IF owner # 0 THEN "group_match"
                  ELSE IF ReasonOf(s) = "" THEN "targeting_match" ELSE ReasonOf(s),
                  <<owner, s.name>>)

\* The variants of all features at once: as many rounds as there are features
\* reach the fixed point of an acyclic graph.
ChosenVariants(S, ctx) ==
  LET round[n \in Nat] ==
        IF n = 0 THEN [k \in DOMAIN S.features |-> 0]
        ELSE LET before == round[n - 1]
             IN  [k \in DOMAIN S.features |-> DetailGiven(S, k, ctx, before).variant]
  IN  round[Cardinality(DOMAIN S.features)]

Meaning(S, k, ctx) == DetailGiven(S, k, ctx, ChosenVariants(S, ctx))
=============================================================================
