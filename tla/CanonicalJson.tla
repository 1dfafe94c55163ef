----------------------------- MODULE CanonicalJson ----------------------------
(***************************************************************************)
(* The bytes that a fingerprint is taken of: write_canonical_value of      *)
(* src/src/domain/hash.rs.  Bytes are tokens: a key or a scalar is written *)
(* by serde_json such that it can be read back, and counts as one.         *)
(***************************************************************************)
EXTENDS JsonValues

Mark(mark) == <<[token |-> mark]>>
KeyBytes(key) == <<[token |-> "key", key |-> key]>>
ScalarBytes(value) == <<[token |-> "scalar", value |-> value]>>

\* What the parts are written as, between two marks.
Bracketed(open, parts, close) ==
  Mark(open)
    \o FlattenSeq([i \in DOMAIN parts |-> IF i = 1 THEN parts[i] ELSE Mark(",") \o parts[i]])
    \o Mark(close)

Sorted(keys) ==
  FlattenSeq([i \in DOMAIN Keys |-> IF Keys[i] \in keys THEN <<Keys[i]>> ELSE <<>>])

\* An array, and an object or a struct, of what their parts are written as.
ListBytes(items) == Bracketed("[", items, "]")
ObjectBytes(fields) ==
  LET keys == Sorted(DOMAIN fields)
  IN  Bracketed("{", [i \in DOMAIN keys |-> KeyBytes(keys[i]) \o Mark(":") \o fields[keys[i]]], "}")

\* write_canonical_value, of a value whose parts are written.
WrittenOf(value, written) ==
  CASE value.json = "array" -> ListBytes([i \in DOMAIN value.items |-> written[value.items[i]]])
    [] value.json = "object" ->
         ObjectBytes([key \in KeysOf(value) |-> written[Get(value, key)]])
    [] OTHER -> ScalarBytes(value)
WrittenTo[n \in Nat] ==
  [value \in JsonTo[n] |->
    IF n = 0 THEN ScalarBytes(value) ELSE WrittenOf(value, WrittenTo[n - 1])]
Written(value) == WrittenTo[Depth][value]

\* What a value says, whichever way its keys are ordered: the definition that
\* the bytes are compared with.
MeaningOf(value, meaning) ==
  CASE value.json = "array" ->
         [json |-> "array", items |-> [i \in DOMAIN value.items |-> meaning[value.items[i]]]]
    [] value.json = "object" ->
         [json |-> "object", fields |-> [key \in KeysOf(value) |-> meaning[Get(value, key)]]]
    [] OTHER -> value
MeaningTo[n \in Nat] ==
  [value \in JsonTo[n] |-> IF n = 0 THEN value ELSE MeaningOf(value, MeaningTo[n - 1])]
Meaning(value) == MeaningTo[Depth][value]
=============================================================================
