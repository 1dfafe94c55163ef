------------------------------ MODULE JsonValues ------------------------------
(***************************************************************************)
(* JSON values as the service reads and builds them: serde_json::Value and *)
(* what src/src/domain/hash.rs makes of its kinds.                         *)
(*                                                                         *)
(* An object is its entries in the order in which its map yields them: the *)
(* order of the keys or, with a feature of serde_json that any crate of    *)
(* the build may turn on, the order in which they were read.               *)
(***************************************************************************)
EXTENDS Naturals, Sequences, SequencesExt

CONSTANTS
  Keys,     \* the keys of objects, in the order of their bytes
  Scalars,  \* the strings, numbers and other values that have no parts
  Depth,    \* how deep the values of a request are nested, which serde_json bounds
  None      \* what is not there

Text(value) == [json |-> "string", value |-> value]
List(items) == [json |-> "array", items |-> items]
Entry(key, value) == [key |-> key, value |-> value]
Object(entries) == [json |-> "object", entries |-> entries]

\* The values that are made of parts, and those of at most n levels.
MadeOf(parts) ==
  [json : {"array"}, items : Seq(parts)]
    \cup [json : {"object"}, entries : Seq([key : ToSet(Keys), value : parts])]
JsonTo[n \in Nat] == IF n = 0 THEN Scalars ELSE Scalars \cup MadeOf(JsonTo[n - 1])
Json == JsonTo[Depth]

ASSUME JsonAssumption ==
  /\ Keys \in Seq(ToSet(Keys))
  /\ \A value \in Scalars : value.json \notin {"array", "object"}
  /\ Depth \in Nat
  /\ None \notin Json

KeysOf(value) == {entry.key : entry \in ToSet(value.entries)}

\* Value::get
Get(value, key) ==
  IF value.json = "object" /\ key \in KeysOf(value)
    THEN (CHOOSE entry \in ToSet(value.entries) : entry.key = key).value
    ELSE None

\* get(key).and_then(Value::as_str)
TextAt(value, key) ==
  LET there == Get(value, key)
  IN  IF there # None /\ there.json = "string" THEN there.value ELSE None
===============================================================================
