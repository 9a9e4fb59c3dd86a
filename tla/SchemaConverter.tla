--------------------------- MODULE SchemaConverter ----------------------------
(***************************************************************************)
(* SchemaConverter._convert_schema (adapters/schema.py): references of a   *)
(* schema are inlined and, in strict mode, its objects closed.             *)
(*                                                                         *)
(* A schema is a JSON value; "ref" holds the name of a definition and      *)
(* "defs", at the root, the definitions.  A list is taken as an object     *)
(* that holds under the key "*" one item: what is done to one is done to   *)
(* all.  The subschema keywords are some of those in the code, of each     *)
(* kind.                                                                   *)
(***************************************************************************)
EXTENDS JsonValues

CONSTANT MaxRefDepth    \* _MAX_REF_DEPTH

ASSUME SchemaAssumption ==
  /\ MaxRefDepth \in Nat /\ {"object", "false"} \subseteq Leaves
  /\ {"ref", "defs", "type", "properties", "additionalProperties", "*"} \subseteq Keys

SubschemaMaps == {"properties"}      \* _SCHEMA_CHILD_DICT_KEYS
SubschemaLists == {"anyOf"}          \* _SCHEMA_CHILD_LIST_KEYS
Subschemas == {"items"}              \* _SCHEMA_CHILD_SCHEMA_KEYS

Places(t) == {n[1] : n \in t}
Value(t, p) == (CHOOSE n \in t : n[1] = p)[2]
Holds(t, p, v) == <<p, v>> \in t
IsList(t, p) == "*" \in KeysAt(t, p)
IsDict(t, p) == Holds(t, p, "dict") /\ ~IsList(t, p)

\* Conversion has raised.
Raised == {}

------------------------------------------------------------------------------
(* References *)

IsRef(t, p) == "ref" \in KeysAt(t, p)
Name(t, p) == Value(t, Append(p, "ref"))
Known(t, p) == Name(t, p) \in KeysAt(t, <<"defs">>) \cap Leaves
Target(t, p) == <<"defs", Name(t, p)>>

\* What is walked at p besides the reference: its siblings, or everything but definitions.
Own(t, p) == KeysAt(t, p) \ {IF IsRef(t, p) THEN "ref" ELSE "defs"}

\* Slip the runs must catch: the definition wins over keys beside the reference.
BesideUnder(siblings, target) ==
  IF IsDict(target, <<>>)
  THEN target \cup {n \in siblings : n[1] # <<>> /\ n[1][1] \notin KeysAt(target, <<>>)}
  ELSE siblings
\* Keys beside a reference win over those of the definition, if that is an object.
Beside(siblings, target) ==
  siblings \cup {n \in target : n[1] # <<>> /\ n[1][1] \notin KeysAt(siblings, <<>>) \cup {"*"}}

\* Slip the runs must catch: the limit is off by one.
InlineAtShallow(inlined, t, p, seen, depth) ==
  LET s == IF IsRef(t, p) THEN seen \cup {Name(t, p)} ELSE seen
      own == [k \in Own(t, p) |-> inlined[<<Append(p, k), s, depth + 1>>]]
      target == inlined[<<Target(t, p), s, depth + 1>>]
  IN IF \/ depth >= MaxRefDepth
        \/ IsRef(t, p) /\ (Name(t, p) \in seen \/ ~Known(t, p) \/ target = Raised)
        \/ \E k \in Own(t, p) : own[k] = Raised
     THEN Raised
     ELSE IF ~IsRef(t, p) THEN IF KeysAt(t, p) = {} THEN Leaf(Value(t, p)) ELSE Object(own)
     ELSE IF Own(t, p) = {} THEN target ELSE Beside(Object(own), target)

\* _inline_refs of the node at p.  A name followed on the way to a node may not be
\* followed again from there, nor from beside the reference.
InlineAt(inlined, t, p, seen, depth) ==
  LET s == IF IsRef(t, p) THEN seen \cup {Name(t, p)} ELSE seen
      own == [k \in Own(t, p) |-> inlined[<<Append(p, k), s, depth + 1>>]]
      target == inlined[<<Target(t, p), s, depth + 1>>]
  IN IF \/ depth > MaxRefDepth
        \/ IsRef(t, p) /\ (Name(t, p) \in seen \/ ~Known(t, p) \/ target = Raised)
        \/ \E k \in Own(t, p) : own[k] = Raised
     THEN Raised
     ELSE IF ~IsRef(t, p) THEN IF KeysAt(t, p) = {} THEN Leaf(Value(t, p)) ELSE Object(own)
     ELSE IF Own(t, p) = {} THEN target ELSE Beside(Object(own), target)

InlineRefs(t) ==
  LET inlined[a \in Places(t) \X (SUBSET Leaves) \X (0 .. MaxRefDepth + 1)] ==
        InlineAt(inlined, t, a[1], a[2], a[3])
  IN inlined[<< <<>>, {}, 0>>]

------------------------------------------------------------------------------
(* Objects *)

\* Of the schema at p: its type is object or a list that has it.
SaysObject(t, p) ==
  Holds(t, p \o <<"type">>, "object") \/ Holds(t, p \o <<"type", "*">>, "object")

\* An object by its type or, unless the type is another name, by its properties.
IsObject(t, p) ==
  \/ SaysObject(t, p)
  \/ /\ "properties" \in KeysAt(t, p)
     /\ \A v \in Leaves : ~Holds(t, p \o <<"type">>, v)

\* What _inject_additional_properties_false takes the node at q for, which the key k
\* leads to from one of the given kind.
KindBelow(kind, k, t, q) ==
  CASE kind \in {"map", "list"} -> "schema"
    [] kind = "schema" /\ k \in SubschemaMaps /\ IsDict(t, q) -> "map"
    [] kind = "schema" /\ k \in SubschemaLists \cup Subschemas /\ IsList(t, q) -> "list"
    [] kind = "schema" /\ k \in Subschemas \cup {"additionalProperties"} /\ IsDict(t, q) -> "schema"
    [] OTHER -> "data"
Kind(t, p) ==
  LET kind[i \in 0 .. Len(p)] ==
        IF i = 0 THEN "schema" ELSE KindBelow(kind[i - 1], p[i], t, SubSeq(p, 1, i))
  IN kind[Len(p)]

ObjectSchemas(t) == {p \in Places(t) : IsDict(t, p) /\ Kind(t, p) = "schema" /\ IsObject(t, p)}

\* _inject_additional_properties_false
Close(t) ==
  t \cup {<<Append(p, "additionalProperties"), "false">> :
            p \in {o \in ObjectSchemas(t) : "additionalProperties" \notin KeysAt(t, o)}}

\* _ensure_object_type
Typed(t) ==
  IF "type" \in KeysAt(t, <<>>) /\ ("properties" \in KeysAt(t, <<>>) => SaysObject(t, <<>>))
  THEN t
  ELSE (t \ Part(t, <<"type">>)) \cup {<< <<"type">>, "object">>}

WithoutDefs(t) == t \ Part(t, <<"defs">>)

ConvertSchema(t) ==
  LET inlined == IF "defs" \in KeysAt(t, <<>>) THEN InlineRefs(t) ELSE t
  IN IF inlined = Raised THEN Raised
     ELSE IF t = EmptyDict THEN Close(Object([type |-> Leaf("object"), properties |-> EmptyDict]))
     ELSE Close(Typed(WithoutDefs(inlined)))

------------------------------------------------------------------------------
(* The reference: a schema read by following its references *)

\* A reading visits places: what is at p is for the path q, except what stands under
\* the keys that are hidden by those beside a reference.
Root == << <<>>, <<>>, {}>>
VisitsFrom(t, v) ==
  LET q == v[1]  p == v[2]  hidden == v[3]
      beside == IF Own(t, p) = {} THEN {} ELSE Own(t, p) \cup {"*"}
  IN {<<Append(q, k), Append(p, k), IF k \in hidden THEN Keys ELSE {}>> : k \in Own(t, p)}
     \cup IF IsRef(t, p) /\ Known(t, p) THEN {<<q, Target(t, p), hidden \cup beside>>} ELSE {}
\* The visits after n steps.
Visits(t, n) ==
  LET visits[i \in Nat] == IF i = 0 THEN {Root} ELSE UNION {VisitsFrom(t, v) : v \in visits[i - 1]}
  IN visits[n]

\* What the schema says, as far as the depth limit lets it be read: nothing but a
\* reference says nothing itself.
Reading(t) ==
  {<<v[1], Value(t, v[2])>> :
     v \in {w \in UNION {Visits(t, n) : n \in 0 .. MaxRefDepth} :
              w[3] = {} /\ (IsRef(t, w[2]) => Own(t, w[2]) # {})}}

\* Reading leads too deep, in a circle for one, or to a definition that is missing.
Unending(t) ==
  \/ Visits(t, MaxRefDepth + 1) # {}
  \/ \E n \in 0 .. MaxRefDepth : \E v \in Visits(t, n) : IsRef(t, v[2]) /\ ~Known(t, v[2])

\* Somewhere a reference stands beside keys that hold a reference.
BesideRef(t) ==
  \E p \in Places(t) : \E k \in Own(t, p) :
    IsRef(t, p) /\ \E q \in Places(t) : IsPrefix(Append(p, k), q) /\ IsRef(t, q)
==============================================================================
