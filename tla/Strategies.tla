----------------------------- MODULE Strategies -----------------------------
(***************************************************************************)
(* Typed values and the built-in strategies (value.go, strategy.go,        *)
(* strategy_sets.go, strategy_fact.go, strategy_time.go, bucket.go): when  *)
(* a strategy is valid, and whether it selects its variant for a context.  *)
(*                                                                         *)
(* Text is abstracted to names and "" to the empty string; byte lengths    *)
(* are left out, counts are kept.  An instant is a number of minutes, 0    *)
(* the zero time.Time.  Variants, features and groups are numbers, so that *)
(* the codec can sort them, and 0 stands for "".                           *)
(***************************************************************************)
EXTENDS Integers, Sequences, FiniteSets

CONSTANTS
  Limits,              \* the native Limits, a record with the fields used here
  MinutesPerDay,       \* 24*60 in the code
  Zones,               \* offset in minutes of every location LoadLocation knows
  Digest(_, _, _, _)   \* the leading 64 bits of SHA-256 over the framed parts

ASSUME ClockAssumption ==
  /\ MinutesPerDay \in Nat \ {0}
  /\ \A z \in DOMAIN Zones : Zones[z] \in Nat

-----------------------------------------------------------------------------
(* Values                                                                  *)

\* The data of a value is a name for its payload.  For JSON that is the document,
\* and compact says whether its bytes are the form json.Marshal writes.
Value(type, data) == [type |-> type, data |-> data, compact |-> TRUE]
Json(doc, compact) == [type |-> "structured", data |-> doc, compact |-> compact]

\* Value.validate: finite floats, canonical decimals, well-formed JSON.
validValue(v) ==
  /\ v.type \in {"boolean", "integer", "string", "float", "decimal", "structured"}
  /\ v.type = "float" => v.data \notin {"nan", "inf"}
  /\ v.type = "decimal" => v.data # "noncanonical"
  /\ v.type = "structured" => v.data # "malformed"

\* Value.equal: no coercion between types, and raw bytes for JSON.
equal(v, w) == v.type = w.type /\ v.data = w.data /\ v.compact = w.compact

-----------------------------------------------------------------------------
(* Calendar                                                                *)

weekdayAt(local) == (local \div MinutesPerDay) % 7
minuteAt(local) == local % MinutesPerDay

\* Mutant: the day after Saturday is lost.
NoWrap(w, weekday, minute) ==
  \/ w.start < w.end /\ weekday = w.weekday /\ minute >= w.start /\ minute < w.end
  \/ w.start > w.end /\ weekday = w.weekday /\ minute >= w.start
  \/ w.start > w.end /\ weekday = w.weekday + 1 /\ minute < w.end

weeklyWindowMatches(w, weekday, minute) ==
  \/ w.start < w.end /\ weekday = w.weekday /\ minute >= w.start /\ minute < w.end
  \/ w.start > w.end /\ weekday = w.weekday /\ minute >= w.start
  \/ w.start > w.end /\ weekday = (w.weekday + 1) % 7 /\ minute < w.end

\* What a weekly window means: a stretch of consecutive minutes of the week,
\* the week being a circle.
Week == 7 * MinutesPerDay
WindowLength(w) == IF w.start < w.end THEN w.end - w.start ELSE MinutesPerDay - w.start + w.end
InWindow(w, local) ==
  (local - (w.weekday * MinutesPerDay + w.start)) % Week < WindowLength(w)

-----------------------------------------------------------------------------
(* Strategies                                                              *)

bucketPrecision == 100000
Bucket(seed, key, tenant, subject) == Digest(seed, key, tenant, subject) % bucketPrecision

\* Each kind: what its ValidateStrategy accepts and when its EvaluateStrategy reports
\* a match.  A strategy that lacks the tenant, subject, time or fact it needs does
\* not match.

ValidExact(s) ==
  /\ "" \notin s.tenants \cup s.subjects \cup s.environments
  /\ Cardinality(s.tenants) + Cardinality(s.subjects) + Cardinality(s.environments)
       <= Limits.MaxTargetValues
  /\ Cardinality(DOMAIN s.attributes) <= Limits.MaxAttributes
  /\ "" \notin DOMAIN s.attributes

listedOrUnrestricted(values, candidate) == values = {} \/ candidate \in values

matchesAttributes(required, actual) ==
  \A a \in DOMAIN required : a \in DOMAIN actual /\ actual[a] = required[a]

ExactMatches(s, ctx) ==
  /\ listedOrUnrestricted(s.tenants, ctx.tenant)
  /\ listedOrUnrestricted(s.subjects, ctx.subject)
  /\ listedOrUnrestricted(s.environments, ctx.environment)
  /\ matchesAttributes(s.attributes, ctx.attributes)

ValidPercentage(s) == s.threshold <= bucketPrecision
PercentageMatches(s, key, ctx) ==
  /\ ctx.tenant # "" /\ ctx.subject # ""
  /\ Bucket(s.seed, key, ctx.tenant, ctx.subject) < s.threshold

ValidSet(s) ==
  /\ "" \notin s.allowTenants \cup s.denyTenants \cup s.allowSubjects \cup s.denySubjects
  /\ Cardinality(s.allowTenants) + Cardinality(s.denyTenants)
       + Cardinality(s.allowSubjects) + Cardinality(s.denySubjects) <= Limits.MaxTargetValues
SetMatches(s, ctx) ==
  /\ ctx.tenant \notin s.denyTenants /\ ctx.subject \notin s.denySubjects
  /\ listedOrUnrestricted(s.allowTenants, ctx.tenant)
  /\ listedOrUnrestricted(s.allowSubjects, ctx.subject)

ValidTimeWindow(s) ==
  /\ s.notBefore # 0 \/ s.notAfter # 0
  /\ s.notBefore # 0 /\ s.notAfter # 0 => s.notBefore < s.notAfter
TimeWindowMatches(s, ctx) ==
  /\ ctx.time # 0
  /\ s.notBefore # 0 => ctx.time >= s.notBefore
  /\ s.notAfter # 0 => ctx.time < s.notAfter

ValidSchedule(s) ==
  /\ s.location \in DOMAIN Zones
  /\ Len(s.windows) \in 1..Limits.MaxScheduleWindows
  /\ \A i \in DOMAIN s.windows :
       /\ s.windows[i].weekday \in 0..6
       /\ s.windows[i].start \in 0..(MinutesPerDay - 1)
       /\ s.windows[i].end \in 0..MinutesPerDay
       /\ s.windows[i].start # s.windows[i].end
ScheduleMatches(s, ctx) ==
  /\ ctx.time # 0
  /\ LET local == ctx.time + Zones[s.location]
     IN  \E i \in DOMAIN s.windows :
           weeklyWindowMatches(s.windows[i], weekdayAt(local), minuteAt(local))

ValidFact(s) == s.fact # "" /\ validValue(s.equals)
FactMatches(s, ctx) == s.fact \in DOMAIN ctx.facts /\ equal(ctx.facts[s.fact], s.equals)

\* The Strategy interface.  A custom strategy does what its fields say.
ValidateStrategy(s) ==
  CASE s.kind = "exact" -> ValidExact(s)
    [] s.kind = "percentage" -> ValidPercentage(s)
    [] s.kind = "set" -> ValidSet(s)
    [] s.kind = "time_window" -> ValidTimeWindow(s)
    [] s.kind = "schedule" -> ValidSchedule(s)
    [] s.kind = "fact" -> ValidFact(s)
    [] s.kind = "custom" -> s.valid

Matches(s, key, ctx) ==
  CASE s.kind = "exact" -> ExactMatches(s, ctx)
    [] s.kind = "percentage" -> PercentageMatches(s, key, ctx)
    [] s.kind = "set" -> SetMatches(s, ctx)
    [] s.kind = "time_window" -> TimeWindowMatches(s, ctx)
    [] s.kind = "schedule" -> ScheduleMatches(s, ctx)
    [] s.kind = "fact" -> FactMatches(s, ctx)
    [] s.kind = "custom" -> s.matches

\* Only a custom strategy can fail: a location that validated can be loaded.
Fails(s) == s.kind = "custom" /\ s.fails

\* StrategyResult.Reason; a custom strategy may leave it empty.
ReasonOf(s) ==
  CASE s.kind \in {"exact", "set", "fact"} -> "targeting_match"
    [] s.kind = "percentage" -> "rollout"
    [] s.kind \in {"time_window", "schedule"} -> "schedule"
    [] s.kind = "custom" -> s.reason
=============================================================================
