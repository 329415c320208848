------------------------------- MODULE Codec -------------------------------
(***************************************************************************)
(* The portable document (codec.go): what Export writes of definitions and *)
(* groups that NewSnapshotWithGroups has accepted, and what Import reads   *)
(* back before it calls NewSnapshotWithGroups again.                       *)
(*                                                                         *)
(* A wire object is a function on the fields that are present.  Target     *)
(* lists are sets here, so that sorting them does nothing.  The            *)
(* conversions of json.Marshal that change a value are kept: it rewrites   *)
(* raw JSON into its own compact form and replaces text that is not UTF-8. *)
(***************************************************************************)
EXTENDS Evaluation

CONSTANT LastParsed   \* the last time RFC 3339 can write, the end of the year 9999

-----------------------------------------------------------------------------
(* Values                                                                  *)

Slot(type) == IF type = "decimal" THEN "string" ELSE type

\* encodeValue: one payload, in the slot of the type.
encodeValue(v) ==
  [type |-> v.type,
   payload |-> [slot \in {Slot(v.type)} |->
                  IF v.type \in {"string", "decimal"} /\ v.data = "not_utf8"
                    THEN "replaced" ELSE v.data]]

\* decodeValue; Presents says whether the payload matches the type.
Presents(w) == Slot(w.type) \in DOMAIN w.payload
decodeValue(w) == Value(w.type, w.payload[Slot(w.type)])

-----------------------------------------------------------------------------
(* Strategies                                                              *)

\* The fields of strategyWire a kind uses beside kind, name and variant.
FieldsOf(kind) ==
  CASE kind = "exact" -> {"tenants", "subjects", "environments", "attributes"}
    [] kind = "percentage" -> {"seed", "threshold"}
    [] kind = "set" -> {"allowTenants", "denyTenants", "allowSubjects", "denySubjects"}
    [] kind = "time_window" -> {"notBefore", "notAfter"}
    [] kind = "schedule" -> {"location", "windows"}
    [] kind = "fact" -> {"fact", "equals"}

\* What omitempty leaves out, and what its absence is read back as.
Zero(field) ==
  CASE field \in {"seed", "location", "fact"} -> ""
    [] field \in {"threshold", "notBefore", "notAfter"} -> 0
    [] field \in {"windows", "attributes"} -> <<>>
    [] OTHER -> {}

\* encodeStrategy; a custom strategy is ErrUnsupportedStrategy.
Encodable(s) == s.kind # "custom"
encodeStrategy(s) ==
  LET written == {"kind", "name", "variant"}
                   \cup {f \in FieldsOf(s.kind) : f = "equals" \/ s[f] # Zero(f)}
  IN  [f \in written |-> IF f = "equals" THEN encodeValue(s[f]) ELSE s[f]]

\* parseOptionalTime of what formatOptionalTime wrote: a year of five digits is an
\* error.
Parsed(time) == time <= LastParsed

\* decodeStrategy of a known kind; a fact needs its value.
Decodable(w) ==
  /\ w.kind \in {"exact", "percentage", "set", "time_window", "schedule", "fact"}
  /\ w.kind = "fact" => "equals" \in DOMAIN w /\ Presents(w.equals)
  /\ w.kind = "time_window" => \A f \in {"notBefore", "notAfter"} \cap DOMAIN w : Parsed(w[f])
decodeStrategy(w) ==
  [f \in {"kind", "name", "variant"} \cup FieldsOf(w.kind) |->
     IF f \notin DOMAIN w THEN Zero(f)
     ELSE IF f = "equals" THEN decodeValue(w[f]) ELSE w[f]]

-----------------------------------------------------------------------------
(* Definitions, groups and documents                                       *)

Each(list, Op(_)) == [i \in DOMAIN list |-> Op(list[i])]
DependencyBefore(e, f) == e.key < f.key \/ (e.key = f.key /\ e.variant < f.variant)
KeyBefore(d, e) == d.key < e.key

\* slices.SortFunc: the entries of a list in an order.
Sorted(list, Before(_, _)) ==
  LET Places == 1..Len(list)
      order == CHOOSE p \in [Places -> Places] :
                 \A i, j \in Places : i < j => p[i] # p[j] /\ ~Before(list[p[j]], list[p[i]])
  IN  [i \in Places |-> list[order[i]]]

\* Mutant: attachments are sorted like the other lists of names.
SortGroups(d) ==
  [d EXCEPT !.default = encodeValue(@),
            !.variants = [v \in DOMAIN @ |-> encodeValue(@[v])],
            !.dependencies = Sorted(@, DependencyBefore),
            !.groups = Sorted(@, <),
            !.strategies = Each(@, encodeStrategy)]

\* encodeDefinition: attachments and strategies keep their order.
encodeDefinition(d) ==
  [d EXCEPT !.default = encodeValue(@),
            !.variants = [v \in DOMAIN @ |-> encodeValue(@[v])],
            !.dependencies = Sorted(@, DependencyBefore),
            !.strategies = Each(@, encodeStrategy)]
decodeDefinition(w) ==
  [w EXCEPT !.default = decodeValue(@),
            !.variants = [v \in DOMAIN @ |-> decodeValue(@[v])],
            !.strategies = Each(@, decodeStrategy)]

encodeGroup(g) == [g EXCEPT !.strategies = Each(@, encodeStrategy)]
decodeGroup(w) == [w EXCEPT !.strategies = Each(@, decodeStrategy)]

\* Export after its validation: sorted by key, or ErrUnsupportedStrategy.
Exportable(c) ==
  \A d \in ToSet(c.features) \cup ToSet(c.groups) :
    \A i \in DOMAIN d.strategies : Encodable(d.strategies[i])

\* Mutant: archived features are not written.
DropArchived(c) ==
  [features |-> Each(Sorted(SelectSeq(c.features, LAMBDA d : d.lifecycle # "archived"), KeyBefore),
                     encodeDefinition),
   groups |-> Each(Sorted(c.groups, KeyBefore), encodeGroup)]

Export(c) ==
  [features |-> Each(Sorted(c.features, KeyBefore), encodeDefinition),
   groups |-> Each(Sorted(c.groups, KeyBefore), encodeGroup)]

\* Import before its validation.
Importable(document) ==
  /\ \A w \in ToSet(document.features) :
       /\ Presents(w.default) /\ \A v \in DOMAIN w.variants : Presents(w.variants[v])
  /\ \A w \in ToSet(document.features) \cup ToSet(document.groups) :
       \A i \in DOMAIN w.strategies : Decodable(w.strategies[i])
Import(document) ==
  [features |-> Each(document.features, decodeDefinition),
   groups |-> Each(document.groups, decodeGroup)]
=============================================================================
