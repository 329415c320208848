---------------------------- MODULE MCOpenFeature ----------------------------
(* Instances of OpenFeature for TLC: small stores and the requests made of them. *)
EXTENDS OpenFeature, TLC

MCLimits ==
  [MaxFeatures |-> 4, MaxVariants |-> 2, MaxDependencies |-> 3, MaxGroups |-> 4,
   MaxStrategies |-> 3, MaxAttributes |-> 1, MaxFacts |-> 2, MaxTargetValues |-> 2,
   MaxScheduleWindows |-> 2, MaxEvaluationDepth |-> 2, MaxGroupDepth |-> 2, MaxBatchSize |-> 2]
MCShallowLimits == [MCLimits EXCEPT !.MaxEvaluationDepth = 1]
\* More attributes than the native limits allow.
MCAdapterLimits ==
  [MaxAttributes |-> 2, MaxFacts |-> 2, MaxEvaluationDepth |-> 2, MaxStructuredBytes |-> 40]

MCLastParsed == 5
MCMaxInt64 == 1

MCZones == [z \in {"utc", "east"} |-> IF z = "utc" THEN 0 ELSE 1]

\* Subject u falls into the last bucket below a half, every other into the last one.
MCDigest(seed, key, tenant, subject) == 700000 + IF subject = "u" THEN 49999 ELSE 99999

-----------------------------------------------------------------------------
(* Definitions                                                             *)

NoStrings == [s \in {} |-> ""]

Exact(name, variant, subjects) ==
  [kind |-> "exact", name |-> name, variant |-> variant, tenants |-> {}, subjects |-> subjects,
   environments |-> {}, attributes |-> NoStrings]
Always(name, variant) == Exact(name, variant, {})
Rollout(variant, threshold) ==
  [kind |-> "percentage", name |-> "rollout", variant |-> variant, seed |-> "", threshold |-> threshold]
Deny(variant, subjects) ==
  [kind |-> "set", name |-> "set", variant |-> variant, allowTenants |-> {Home}, denyTenants |-> {},
   allowSubjects |-> {}, denySubjects |-> subjects]
Window(variant, from, until) ==
  [kind |-> "time_window", name |-> "window", variant |-> variant, notBefore |-> from, notAfter |-> until]
Weekly(variant, zone, windows) ==
  [kind |-> "schedule", name |-> "weekly", variant |-> variant, location |-> zone, windows |-> windows]
Fact(variant, value) ==
  [kind |-> "fact", name |-> "fact", variant |-> variant, fact |-> "f", equals |-> value]
Custom(variant, matches, fails) ==
  [kind |-> "custom", name |-> "custom", variant |-> variant, valid |-> TRUE, matches |-> matches,
   fails |-> fails, reason |-> ""]

Yes == Value("boolean", "true")
No == Value("boolean", "false")

Feature(k, deps, groups, strategies) ==
  [key |-> k, type |-> "boolean", default |-> No, variants |-> <<Yes, No>>, lifecycle |-> "active",
   dependencies |-> deps, groups |-> groups, strategies |-> strategies, version |-> k]
Group(g, parent, strategies) == [key |-> g, parent |-> parent, strategies |-> strategies]
Needs(k, v) == [key |-> k, variant |-> v]
NeedsAll(ks) == SetToSeq({Needs(k, 1) : k \in ks})

-----------------------------------------------------------------------------
(* Requests                                                                *)

Ctx(subject, time) ==
  [tenant |-> Home, subject |-> subject, environment |-> "", attributes |-> NoStrings,
   facts |-> [f \in {} |-> Yes], time |-> time]
Native(k, ctx) == [via |-> "native", tenant |-> Home, key |-> k, type |-> "boolean", ctx |-> ctx]
Transfer == [via |-> "transfer"]
Go(type, data) == [go |-> type, data |-> data, compact |-> TRUE, at |-> 1]
Adapter(k, flat) == [via |-> "adapter", key |-> k, type |-> "boolean", flat |-> flat]

Scenario(features, groups, requests) ==
  [features |-> features, groups |-> groups, requests |-> requests,
   own |-> TRUE, shutters |-> {}]

-----------------------------------------------------------------------------
(* Every dependency graph over three features; 3 is on for subject u only  *)

Targets(k) == IF k = 3 THEN {"u"} ELSE {}
GraphStore(edges) ==
  [k \in 1..3 |-> Feature(k, NeedsAll({j \in 1..3 : <<k, j>> \in edges}), <<>>,
                          <<Exact("own", 1, Targets(k))>>)]
Graphs ==
  {Scenario(GraphStore(edges), <<>>, {Native(1, Ctx("u", 0)), Native(1, Ctx("v", 0))})
     : edges \in SUBSET ((1..3) \X (1..3))}

(* Every acyclic one, requiring either variant, listed in either order     *)
DagStore(needs, descending, lifecycle) ==
  [k \in 1..3 |->
     LET list == SortSeq(SetToSeq({Needs(j, needs[<<k, j>>]) : j \in {j \in (k + 1)..3 : needs[<<k, j>>] # 0}}),
                              LAMBDA e, f : IF descending THEN e.key > f.key ELSE e.key < f.key)
     IN  [Feature(k, list, <<>>, <<Exact("u", 1, {"u"}), Deny(2, {"w"})>>) EXCEPT
            !.lifecycle = IF k = 3 THEN lifecycle ELSE "active"]]
Dags ==
  {Scenario(DagStore(needs, descending, lifecycle), <<>>,
            {Native(1, Ctx(u, 0)) : u \in {"u", "v", "w"}} \cup {Transfer})
     : needs \in [{<<1, 2>>, <<1, 3>>, <<2, 3>>} -> 0..2], descending \in BOOLEAN,
       lifecycle \in {"active", "archived"}}

(* A chain as long as the depth, and one that is longer                    *)
Line(n) ==
  [k \in 1..n |-> Feature(k, IF k = n THEN <<>> ELSE <<Needs(k + 1, 1)>>, <<>>, <<Always("own", 1)>>)]
Lines == {Scenario(Line(n), <<>>, {Native(1, Ctx("u", 0)), Transfer}) : n \in 3..4}

-----------------------------------------------------------------------------
(* Groups: two shapes of a forest of three, attached in any order          *)

GroupStore(parents, targets) ==
  <<Group(2, parents[2], <<Exact("second", 1, {targets[2]})>>),
    Group(3, parents[3], <<Exact("third", 2, {targets[3]}), Exact("both", 1, {"w"})>>),
    Group(1, parents[1], <<Exact("first", 2, {targets[1]})>>)>>
GroupScenarios ==
  {Scenario(<<Feature(1, <<>>, attached, <<Deny(2, {"v"})>>)>>, GroupStore(parents, targets),
            {Native(1, Ctx("u", 0)), Native(1, Ctx("v", 0)), Transfer})
     : attached \in UNION {[1..n -> 1..3] : n \in 0..3}, parents \in {<<0, 1, 1>>, <<0, 1, 2>>},
       targets \in [1..3 -> {"u", "v"}]}

-----------------------------------------------------------------------------
(* One feature with one strategy of each kind, around the edges of its rule *)

Single(strategies, requests) == Scenario(<<Feature(1, <<>>, <<>>, strategies)>>, <<>>, requests)
At(subjects, times) == {Native(1, Ctx(u, t)) : u \in subjects, t \in times}
W(day, from, until) == [weekday |-> day, start |-> from, end |-> until]
WithFact(v) == [Ctx("u", 0) EXCEPT !.facts = [f \in {"f"} |-> v]]
WithFacts(vs) == {Native(1, WithFact(v)) : v \in vs}

StrategyScenarios ==
  {Single(<<Rollout(1, n)>>, At({"", "u", "v"}, {0}) \cup {Transfer}) : n \in {0, 49999, 50000, 100000}}
  \cup {Single(<<Window(1, from, until)>>, At({"u"}, 0..4) \cup {Transfer})
          : from \in {0, 2}, until \in {0, 3, MCLastParsed + 1}}
  \cup {Single(<<Weekly(1, zone, <<W(6, 2, 1), W(2, 0, 2), W(3, 1, 3)>>)>>, At({"u"}, 0..21)) : zone \in {"utc"}}
  \cup {Single(<<Weekly(1, zone, ws)>>, At({"u"}, 0..22))
          : zone \in {"utc", "east"}, ws \in {<<W(6, 2, 1)>>, <<W(2, 0, 2), W(3, 1, 3)>>, <<W(0, 2, 0)>>}}
  \cup {Single(<<Fact(1, v)>>, {Transfer} \cup
            WithFacts({Yes, Value("string", "true"), Json("d", TRUE), Json("d", FALSE), Value("float", "nan")}))
          : v \in {Yes, Value("string", "not_utf8"), Json("d", TRUE), Json("d", FALSE)}}
  \cup {Single(<<Custom(1, m, x), Always("rest", 2)>>, {Native(1, Ctx("u", 0)), Transfer})
          : m \in BOOLEAN, x \in BOOLEAN}

(* Types, lifecycles, tenants, limits and batches                          *)
Text == [Feature(2, <<Needs(1, 1)>>, <<>>, <<Always("own", 1)>>) EXCEPT
           !.type = "string", !.default = Value("string", "not_utf8"),
           !.variants = <<Value("string", "a")>>]
Asks(asks, tenant) ==
  [via |-> "batch", tenant |-> Home, ctx |-> [Ctx("u", 0) EXCEPT !.tenant = tenant], asks |-> asks]
Ask(k, type) == [key |-> k, type |-> type]
CallScenarios ==
  {[Scenario(<<[Feature(1, <<>>, <<>>, <<Always("own", 1)>>) EXCEPT !.lifecycle = l], Text>>, <<>>,
     {Transfer, Native(1, Ctx("u", 0)), Native(9, Ctx("u", 0)),
      Native(1, [Ctx("u", 0) EXCEPT !.tenant = "away"]),
      [Native(1, Ctx("u", 0)) EXCEPT !.tenant = "away"],
      [Native(1, Ctx("u", 0)) EXCEPT !.tenant = "away", !.ctx.tenant = "away"],
      [Native(2, Ctx("u", 0)) EXCEPT !.type = "string"], Native(2, Ctx("u", 0)),
      Native(1, [Ctx("u", 0) EXCEPT !.attributes = [a \in {"a", "b"} |-> "x"]]),
      Asks(<<Ask(1, "boolean"), Ask(2, "string")>>, Home), Asks(<<Ask(1, "boolean")>>, "away"),
      Asks(<<Ask(1, "boolean"), Ask(1, "string")>>, Home), Asks(<<>>, "away"),
      Asks(<<Ask(1, "boolean"), Ask(1, "boolean"), Ask(1, "boolean")>>, Home)})
    EXCEPT !.own = o, !.shutters = Shutters] : l \in {"active", "draft"}, o \in BOOLEAN}

-----------------------------------------------------------------------------
(* Definitions that NewSnapshotWithGroups refuses; they come from its own  *)
(* callers or from a Provider that does not validate what it stores        *)

Bad(f) == Scenario(<<f>>, <<>>, {Native(1, Ctx("u", 0)), Adapter(1, [f1 \in {} |-> Yes])})
One == Feature(1, <<>>, <<>>, <<>>)
InGroup(g) == Feature(1, <<>>, <<g>>, <<>>)
BadGroups(groups) == [Bad(InGroup(1)) EXCEPT !.groups = groups]
FaultScenarios ==
  {Bad([One EXCEPT !.key = 0]), Bad([One EXCEPT !.type = "string"]), Bad([One EXCEPT !.default = Json("malformed", TRUE)]),
   Bad([One EXCEPT !.dependencies = <<Needs(2, 1)>>]), Bad([One EXCEPT !.dependencies = <<Needs(1, 3), Needs(2, 1)>>]),
   Bad([One EXCEPT !.variants = <<Yes, Value("string", "a")>>]), Bad([One EXCEPT !.strategies = <<Always("own", 3)>>]),
   Bad([One EXCEPT !.strategies = <<Rollout(1, 100001)>>]), Bad([One EXCEPT !.strategies = <<Window(1, 3, 3)>>]),
   Bad([One EXCEPT !.strategies = <<Weekly(1, "utc", <<W(0, 1, 1)>>)>>]),
   Bad([One EXCEPT !.strategies = <<Weekly(1, "moon", <<W(0, 1, 2)>>)>>]),
   Bad([One EXCEPT !.strategies = <<Exact("own", 1, {"u", "v", "w"})>>]),
   [Bad(One) EXCEPT !.features = <<One, One>>],
   [Bad(One) EXCEPT !.features = [k \in 1..5 |-> [One EXCEPT !.key = k]]],
   BadGroups(<<>>), BadGroups(<<Group(1, 2, <<>>)>>), BadGroups(<<Group(1, 1, <<>>)>>),
   BadGroups(<<Group(1, 2, <<>>), Group(2, 3, <<>>), Group(3, 4, <<>>), Group(4, 0, <<>>)>>),
   BadGroups(<<Group(1, 2, <<>>), Group(2, 3, <<>>), Group(3, 1, <<>>)>>),
   BadGroups(<<Group(1, 2, <<>>), Group(2, 0, <<Always("parent", 3)>>)>>),
   BadGroups(<<Group(1, 0, <<>>), Group(1, 0, <<>>)>>),
   BadGroups([g \in 1..5 |-> Group(g, 0, <<>>)])}

-----------------------------------------------------------------------------
(* Contexts given to the adapter                                           *)

Node(kind, len, children) == [kind |-> kind, len |-> len, children |-> children]
Nodes ==
  [true |-> Node("bool", 4, <<>>), number |-> Node("int", 1, <<>>), odd |-> Node("nonfinite", 0, <<>>),
   text |-> Node("string", 36, <<>>), big |-> Node("string", 39, <<>>), nothing |-> Node("nil", 0, <<>>),
   bytes |-> Node("bytes", 4, <<>>), float |-> Node("float", 24, <<>>),
   list |-> Node("slice", 0, <<"number", "float">>), pair |-> Node("slice", 0, <<"number", "bytes">>),
   inner |-> Node("map", 4, <<"true">>), outer |-> Node("slice", 0, <<"inner", "inner">>),
   deep |-> Node("pointer", 0, <<"outer">>), empty |-> Node("map", 0, <<>>),
   loop |-> Node("map", 4, <<"back">>), back |-> Node("pointer", 0, <<"loop">>),
   row |-> Node("array", 0, <<"big">>), box |-> Node("array", 0, <<"text">>),
   odds |-> Node("slice", 0, <<"empty", "odd">>), coder |-> Node("pointer", 0, <<"custom">>),
   custom |-> Node("custom", 0, <<>>), many |-> Node("slice", 0, <<"nothing", "empty", "nothing", "empty">>),
   front |-> Node("slice", 0, <<"true">>), whole |-> Node("slice", 0, <<"true", "front">>),
   none |-> Node("slice", 0, <<>>), early |-> Node("slice", 0, <<"none", "true">>),
   rear |-> Node("slice", 0, <<"true">>), apart |-> Node("slice", 0, <<"true", "rear">>)]
\* front and none are prefixes of the slice that holds them, rear is not.
MCHeap ==
  [n \in DOMAIN Nodes |->
     [kind |-> Nodes[n].kind, len |-> Nodes[n].len, children |-> Nodes[n].children,
      visit |-> CASE n = "front" -> "whole" [] n = "none" -> "early" [] OTHER -> n]]

Document ==
  [Feature(2, <<>>, <<>>, <<Exact("own", 1, {"u"})>>) EXCEPT
     !.type = "structured", !.default = Json("d", FALSE), !.variants = <<Json("big_integer", TRUE)>>]
Attr(v) == [f \in {"f"} |-> v]
AdapterScenarios ==
  {Scenario(<<Feature(1, <<>>, <<>>, <<Fact(1, Json("outer", TRUE)), Fact(2, Value("integer", "5")), Rollout(1, 50000)>>),
              Document>>, <<>>,
     {Adapter(1, Attr(Go("object", n))) : n \in DOMAIN MCHeap}
     \cup {Adapter(1, Attr(v)) : v \in
             {Go("string", "a"), Go("string", "too_long"), Go("int", "5"), Go("uint", "5"), Go("uint", "above_int64"),
              Go("float", "nan"), Go("float", "5"), Go("bool", "true"), Go("raw", "malformed"), Go("raw", "outer"),
              [Go("raw", "outer") EXCEPT !.compact = FALSE], Go("time", "now")}}
     \cup {Adapter(1, [f \in {"targetingKey", "tenant"} |-> IF f = "tenant" THEN t ELSE u])
             : t \in {Go("string", Home), Go("string", "away"), Go("int", "5")},
               u \in {Go("string", "u"), Go("string", "v"), Go("string", "too_long"), Go("bool", "true")}}
     \cup {Adapter(1, [f \in {"environment", "time", "f"} |-> IF f = "environment" THEN e ELSE t])
             : e \in {Go("string", "e"), Go("int", "5")}, t \in {Go("time", "now"), Go("int", "5")}}
     \cup {Adapter(1, [f \in {"f", "g"} |-> Go("string", "a")]), Adapter(9, Attr(Go("int", "5"))), Transfer,
           [Adapter(2, Attr(Go("int", "5"))) EXCEPT !.type = "structured"],
           [Adapter(2, [f \in {"targetingKey"} |-> Go("string", "u")]) EXCEPT !.type = "structured"],
           Adapter(1, [f \in {"f", "g", "h"} |-> Go("int", "5")]),
           [Adapter(1, Attr(Go("int", "5"))) EXCEPT !.type = "string"]})}

MCScenarios ==
  Graphs \cup Dags \cup Lines \cup GroupScenarios \cup StrategyScenarios \cup CallScenarios
    \cup FaultScenarios \cup AdapterScenarios
MCLines == {Scenario(Line(3), <<>>, {Native(1, Ctx("u", 0))})}
=============================================================================
