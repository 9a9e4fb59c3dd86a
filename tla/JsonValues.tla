----------------------------- MODULE JsonValues -------------------------------
(***************************************************************************)
(* JSON values: results of modules and their schemas.                      *)
(*                                                                         *)
(* A value is the set of its nodes.  A node is a path of keys and what is  *)
(* there, a leaf or "dict"; only a dict has nodes below it.                *)
(***************************************************************************)
EXTENDS Naturals, SequencesExt

CONSTANTS
  Keys,        \* keys of JSON objects
  Leaves       \* JSON values that are no objects

ASSUME JsonAssumption == "dict" \notin Leaves

Paths == Seq(Keys)

IsTree(t) ==
  /\ \E n \in t : n[1] = <<>>
  /\ \A m, n \in t : m[1] = n[1] => m = n
  /\ \A n \in t : \A i \in 0 .. Len(n[1]) - 1 : <<SubSeq(n[1], 1, i), "dict">> \in t

Trees == {t \in SUBSET (Paths \X (Leaves \cup {"dict"})) : IsTree(t)}
Dicts == {t \in Trees : << <<>>, "dict">> \in t}
EmptyDict == {<< <<>>, "dict">>}
Leaf(v) == {<< <<>>, v>>}

\* The keys of the dict at path p, and everything at p and below.
KeysAt(t, p) == {n[1][Len(p) + 1] : n \in {m \in t : IsStrictPrefix(p, m[1])}}
Part(t, p) == {n \in t : IsPrefix(p, n[1])}

\* The object that holds f[k] under the key k.
Object(f) ==
  EmptyDict \cup UNION {{<< <<k>> \o n[1], n[2]>> : n \in f[k]} : k \in DOMAIN f}
==============================================================================
