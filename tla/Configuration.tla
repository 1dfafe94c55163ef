----------------------------- MODULE Configuration ----------------------------
(***************************************************************************)
(* The configuration that the service starts with and what it says of      *)
(* models: src/src/config.rs, main of src/src/main.rs and models of        *)
(* src/src/responses/handlers.rs.                                          *)
(*                                                                         *)
(* The models of a configuration are a sequence, in the order of their     *)
(* keys, which a BTreeMap iterates in.  A configuration does not change    *)
(* while the service runs.                                                 *)
(***************************************************************************)
EXTENDS Naturals, Sequences

CONSTANT None  \* what is not there

\* The fields that decide what a model is asked; the others (its address, its
\* headers, what /v1/models tells of it besides its slug) are copied.
Model(key, public_model, upstream_model, in_body, stream_usage, role) ==
  [key |-> key, public_model |-> public_model, upstream_model |-> upstream_model,
   send_model_in_body |-> in_body, include_stream_usage |-> stream_usage,
   instruction_role |-> role]

\* AppConfig::default; a file that lists no models has none.
DefaultModels ==
  <<Model("DeepSeek-V4-Pro", "DeepSeek-V4-Pro", "DeepSeek-V4-Pro", FALSE, TRUE, "system")>>

\* The file that is named, whether it is there or not, or else the first that
\* is there of two.
ConfigPath(ktxd_config, files) ==
  LET usual == SelectSeq(<<"config.toml", "config.local.toml">>, LAMBDA f : f \in DOMAIN files)
  IN  CASE ktxd_config # None -> ktxd_config
        [] ktxd_config = None /\ usual # <<>> -> Head(usual)
        [] OTHER -> None

\* AppConfig::load; None if the file is not there or is no configuration, and
\* then the service does not start.
Load(path, files) ==
  CASE path = None -> DefaultModels
    [] path # None /\ path \in DOMAIN files -> files[path]
    [] OTHER -> None

\* find: the first of some places.
First(places) == CHOOSE i \in places : \A j \in places : i <= j

\* Mutant of ModelOf: a model has no name but its key.
ModelOfKey(models, slug) ==
  LET keyed == {i \in DOMAIN models : models[i].key = slug}
  IN  IF keyed # {} THEN models[First(keyed)] ELSE None

\* AppConfig::model: a key, or else the first that goes by that name.
ModelOf(models, slug) ==
  LET keyed == {i \in DOMAIN models : models[i].key = slug}
      named == {i \in DOMAIN models : models[i].public_model = slug}
  IN  CASE keyed # {}                  -> models[First(keyed)]
        [] keyed = {} /\ named # {} -> models[First(named)]
        [] OTHER                       -> None

\* The slugs of GET /v1/models.
Listed(models) == [i \in DOMAIN models |-> models[i].public_model]
=============================================================================
