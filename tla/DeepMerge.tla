------------------------------- MODULE DeepMerge ------------------------------
(***************************************************************************)
(* The depth-capped merge of streamed chunks (_deep_merge in               *)
(* server/router.py) and the masking of secret fields (apcore's            *)
(* redact_sensitive), with a reference definition of what a sequence of    *)
(* chunks merges to: the last write of each path.                          *)
(***************************************************************************)
EXTENDS JsonValues

CONSTANT MaxDepth    \* _DEEP_MERGE_MAX_DEPTH

Masked == "REDACTED"

ASSUME MergeAssumption == Masked \in Leaves /\ MaxDepth \in Nat

\* The paths at which both objects have a dict.
Both(base, overlay) == {n[1] : n \in {m \in base \cap overlay : m[2] = "dict"}}

\* Slip the runs must catch: the cap is off by one.
MergeAtLate(merged, base, overlay, p) ==
  {<<p, "dict">>} \cup
  UNION {LET q == Append(p, k)
         IN IF k \notin KeysAt(overlay, p) THEN Part(base, q)
            ELSE IF Len(p) <= MaxDepth /\ q \in Both(base, overlay) THEN merged[q]
            ELSE Part(overlay, q)
         : k \in KeysAt(base, p) \cup KeysAt(overlay, p)}

\* _deep_merge of the dicts that both objects have at path p, of depth Len(p).  Keys of
\* the overlay win; two dicts under one key are merged, above the cap.
MergeAt(merged, base, overlay, p) ==
  {<<p, "dict">>} \cup
  UNION {LET q == Append(p, k)
         IN IF k \notin KeysAt(overlay, p) THEN Part(base, q)
            ELSE IF Len(p) < MaxDepth /\ q \in Both(base, overlay) THEN merged[q]
            ELSE Part(overlay, q)
         : k \in KeysAt(base, p) \cup KeysAt(overlay, p)}

Merge(base, overlay) ==
  LET merged[p \in Both(base, overlay)] == MergeAt(merged, base, overlay, p)
  IN merged[<<>>]

\* The fields at the given paths are masked, whatever they hold.
Mask(t, secrets) ==
  {IF n[1] \in secrets THEN <<n[1], Masked>> ELSE n :
     n \in {m \in t : \A s \in secrets : ~IsStrictPrefix(s, m[1])}}

------------------------------------------------------------------------------
(* The reference *)

Nodes(t) == {n \in t : n[1] # <<>>}

\* Writing the chunk erases what was below a path: the chunk has a leaf there, or
\* anything at all at the first level below the cap.
Erases(chunk, path) ==
  \E n \in Nodes(chunk) :
    IsStrictPrefix(n[1], path) /\ (n[2] # "dict" \/ Len(n[1]) > MaxDepth)

\* What chunks merge to: each path holds what the last chunk that has it says,
\* unless a later one erased it.
LastWrites(chunks) ==
  UNION {{n \in Nodes(chunks[i]) :
            \A j \in i + 1 .. Len(chunks) :
              /\ \A o \in Nodes(chunks[j]) : o[1] # n[1]
              /\ ~Erases(chunks[j], n[1])}
         : i \in DOMAIN chunks}
==============================================================================
