------------------------------ MODULE Dialogue -------------------------------
(***************************************************************************)
(* What the backend is told of a dialogue, and what a session keeps of it: *)
(* normalize_request of src/src/translator/responses_normalizer.rs,        *)
(* compile_chat_request of src/src/translator/chat_compiler.rs,            *)
(* tagged_item_to_response_json of src/src/responses/events.rs, and the    *)
(* transcript and the fingerprint that TurnDriver::drive and               *)
(* commit_completed put together of them.                                  *)
(*                                                                         *)
(* One client talks to the service.  It goes on with a dialogue by         *)
(* previous_response_id, or, as after a restart that has forgotten all     *)
(* ids, by sending everything that was said once more.                     *)
(*                                                                         *)
(* Texts are sequences.  A field that is absent, or not of its JSON type,  *)
(* is None.  Fields that are copied as they are, the ids of items, which   *)
(* are drawn anew each time, and seed items, whose place in the transcript *)
(* is in TurnDriver, are left out.                                         *)
(***************************************************************************)
EXTENDS CanonicalJson

CONSTANTS
  Boots,         \* environments and files that the service may start with
  Requests,      \* requests: model, instructions, input, tools and stream
  Answers,       \* outputs of the translated answers
  Letters,       \* what texts are made of
  Urls,          \* where images are
  NewLine,       \* what joins the parts of a text
  Blank,         \* white space
  MaxHistory     \* bound: items of a dialogue before a request

INSTANCE Configuration

ASSUME BoundAssumption == MaxHistory \in Nat

\* A file is a configuration, a sequence of models, or it is none.
ASSUME BootsAssumption ==
  \A boot \in Boots : \A file \in DOMAIN boot.files :
    \/ boot.files[file] = None
    \/ /\ boot.files[file] \in Seq(ToSet(boot.files[file]))
       /\ None \notin ToSet(boot.files[file])

VARIABLES
  models,     \* the models of the configuration
  session,    \* what the session that the client continues keeps
  dialogue,   \* what was said in it, as the client sent and received it, and
              \* the request of its last turn
  turn,       \* the turn under way: all that was said, the request,
  transcript, \* its transcript
  chat,       \* and its chat request
  status      \* "idle", "asked", or why nothing was: "refused", "failed"

vars == <<models, session, dialogue, turn, transcript, chat, status>>

-----------------------------------------------------------------------------
(* Canonical items                                                           *)

Message(role, text) == [kind |-> "message", role |-> role, text |-> text]
FunctionCall(call_id, name, arguments) ==
  [kind |-> "function_call", call_id |-> call_id, name |-> name, arguments |-> arguments]
FunctionCallOutput(call_id, output) ==
  [kind |-> "function_call_output", call_id |-> call_id, output |-> output]
Reasoning(raw) == [kind |-> "reasoning", raw |-> raw]

\* Where an item comes from and how far it is trusted; provenance is the same
\* for what a model said and for what a client says that a model said.
Provenance(source, trust) == [source |-> source, trust |-> trust]
UserTrusted == Provenance("User", "Trusted")
ModelSemi == Provenance("Model", "Semi")
ToolOutputSemi == Provenance("ToolOutput", "Semi")

Tagged(item, provenance) ==
  [item |-> item, provenance |-> provenance, artifact_hash |-> None]

\* join("\n"), of the texts of some of the parts
Joined(parts, those) ==
  FlattenSeq([i \in DOMAIN parts |->
    CASE i \notin those                             -> <<>>
      [] i \in those /\ (\A j \in those : i <= j)   -> parts[i].text
      [] i \in those /\ ~ (\A j \in those : i <= j) -> <<NewLine>> \o parts[i].text])

\* The parts that have a text of that type.
Texts(parts, type) == {i \in DOMAIN parts : parts[i].type = type}

-----------------------------------------------------------------------------
(* The normaliser                                                            *)

TypeOf(item) == IF item.type = None THEN "message" ELSE item.type
RoleOf(item) == IF item.role = None THEN "user" ELSE item.role

Roles == {"user", "developer", "system", "assistant"}
TextType(role) == IF role = "assistant" THEN "output_text" ELSE "input_text"

\* collect_content_text refuses every other part.
PartIsSupported(part, type) ==
  \/ part.type = type /\ part.text # None
  \/ part.type = "input_image"

OutputIsSupported(output) ==
  \/ output.encoding = "text"
  \/ /\ output.encoding = "content_items"
     /\ \A i \in DOMAIN output.items : LET part == output.items[i] IN
          \/ part.type = "input_text" /\ part.text # None
          \/ part.type = "input_image" /\ part.image_url # None

\* Mutant of IsSupported: a call needs no arguments.
IsSupportedLoosely(item) ==
  \/ /\ TypeOf(item) = "message"
     /\ RoleOf(item) \in Roles /\ item.content # None
     /\ \A i \in DOMAIN item.content : PartIsSupported(item.content[i], TextType(RoleOf(item)))
  \/ TypeOf(item) = "function_call" /\ item.name # None /\ item.call_id # None
  \/ /\ TypeOf(item) = "function_call_output"
     /\ item.call_id # None /\ item.output # None /\ OutputIsSupported(item.output)
  \/ TypeOf(item) = "reasoning"

\* The items that normalize_items refuses nothing of.  One that is no object is
\* refused as one of a type that there is not.
IsSupported(item) ==
  \/ /\ TypeOf(item) = "message"
     /\ RoleOf(item) \in Roles /\ item.content # None
     /\ \A i \in DOMAIN item.content : PartIsSupported(item.content[i], TextType(RoleOf(item)))
  \/ /\ TypeOf(item) = "function_call"
     /\ item.name # None /\ item.call_id # None /\ item.arguments # None
  \/ /\ TypeOf(item) = "function_call_output"
     /\ item.call_id # None /\ item.output # None /\ OutputIsSupported(item.output)
  \/ TypeOf(item) = "reasoning"

\* A part keeps what its type is about.
CanonicalOutput(output) ==
  IF output.encoding = "text" THEN [encoding |-> output.encoding, text |-> output.text]
  ELSE [encoding |-> output.encoding,
        items |-> [i \in DOMAIN output.items |->
          LET part == output.items[i] IN
          IF part.type = "input_text" THEN [type |-> part.type, text |-> part.text]
          ELSE [type |-> part.type, image_url |-> part.image_url]]]

\* What normalize_items makes of a supported item.
Canonical(item) ==
  CASE TypeOf(item) = "message" ->
         Message(RoleOf(item),
           Joined(item.content, {i \in Texts(item.content, TextType(RoleOf(item))) :
                                   item.content[i].text # <<>>}))
    [] TypeOf(item) = "function_call" ->
         FunctionCall(item.call_id, item.name, item.arguments)
    [] TypeOf(item) = "function_call_output" ->
         FunctionCallOutput(item.call_id, CanonicalOutput(item.output))
    [] TypeOf(item) = "reasoning" -> Reasoning(item.raw)

\* The tag that normalize_items gives an item.
ProvenanceOf(item) ==
  CASE item.kind = "message" -> IF item.role = "assistant" THEN ModelSemi ELSE UserTrusted
    [] item.kind = "function_call_output" -> ToolOutputSemi
    [] item.kind \in {"function_call", "reasoning"} -> ModelSemi

AreSupported(items) == \A i \in DOMAIN items : IsSupported(items[i])
Normalized(items) ==
  [i \in DOMAIN items |-> LET item == Canonical(items[i]) IN Tagged(item, ProvenanceOf(item))]

\* The tool itself stands for its function; one that is there and no object
\* has no name.
ToolName(tool) ==
  LET function == Get(tool, "function")
  IN  TextAt(IF function = None THEN tool ELSE function, "name")

\* Mutant of ToolsAreValid: only the types are looked at.
ToolsAreFunctions(tools) == \A i \in DOMAIN tools : TextAt(tools[i], "type") = "function"

\* validate_tools
ToolsAreValid(tools) ==
  \A i \in DOMAIN tools :
    TextAt(tools[i], "type") = "function" /\ ToolName(tools[i]) \notin {None, ""}

-----------------------------------------------------------------------------
(* The compiler                                                              *)

\* compile_tools, where it refuses nothing
ToolsCompile(tools) ==
  \A i \in DOMAIN tools : TextAt(tools[i], "type") = "function" /\ ToolName(tools[i]) # None

\* lower_to_chat_content
Lowered(output) ==
  IF output.encoding = "text"
    THEN output.text
    ELSE Joined(output.items, {i \in Texts(output.items, "input_text") :
                                 ToSet(output.items[i].text) \ {Blank, NewLine} # {}})

ChatMessage(role, content) == [role |-> role, content |-> content]

ChatMessages(item) ==
  CASE item.kind = "message" -> <<ChatMessage(item.role, item.text)>>
    [] item.kind = "function_call" ->
         <<[role |-> "assistant", id |-> item.call_id, name |-> item.name,
            arguments |-> item.arguments]>>
    [] item.kind = "function_call_output" ->
         <<[role |-> "tool", tool_call_id |-> item.call_id, content |-> Lowered(item.output)]>>
    [] item.kind = "reasoning" -> <<>>

\* The instructions come first, in a role of their own.
ChatMessagesOf(model, instructions, items) ==
  (IF instructions = <<>> THEN <<>> ELSE <<ChatMessage(model.instruction_role, instructions)>>)
    \o FlattenSeq([i \in DOMAIN items |-> ChatMessages(items[i].item)])

\* compile_chat_request
Compiled(model, request, items) ==
  [model |-> IF model.send_model_in_body THEN model.upstream_model ELSE None,
   messages |-> ChatMessagesOf(model, request.instructions, items),
   tools |-> [i \in DOMAIN request.tools |-> ToolName(request.tools[i])],
   stream |-> request.stream,
   stream_options |-> request.stream /\ model.include_stream_usage]

-----------------------------------------------------------------------------
(* What a session keeps                                                      *)

FieldsBytes(fields) == ObjectBytes([field \in DOMAIN fields |-> ScalarBytes(Text(fields[field]))])

OutputBytes(output) ==
  IF output.encoding = "text" THEN FieldsBytes(output)
  ELSE ObjectBytes([encoding |-> ScalarBytes(Text(output.encoding)),
                    items |-> ListBytes([i \in DOMAIN output.items |-> FieldsBytes(output.items[i])])])

ItemBytes(item) ==
  CASE item.kind = "reasoning" ->
         ObjectBytes([kind |-> ScalarBytes(Text(item.kind)), raw |-> Written(item.raw)])
    [] item.kind = "function_call_output" ->
         ObjectBytes([kind |-> ScalarBytes(Text(item.kind)),
                      call_id |-> ScalarBytes(Text(item.call_id)),
                      output |-> OutputBytes(item.output)])
    [] item.kind \in {"message", "function_call"} -> FieldsBytes(item)

\* The names of the fields that are hashed are keys like others.
ASSUME KeysAssumption ==
  {"arguments", "call_id", "encoding", "image_url", "instructions", "item", "items", "kind",
   "name", "output", "provenance", "raw", "role", "source", "text", "tools", "trust", "type"}
    \subseteq ToSet(Keys)

\* The bytes that an item's artifact_hash is taken of; two hashes are taken to
\* be equal only if their bytes are.
ArtifactHash(item) == ItemBytes(item)

\* Mutant of FingerprintedItem: all of the item, its hash included.
WholeItem(tagged) ==
  ObjectBytes([item |-> ItemBytes(tagged.item), provenance |-> FieldsBytes(tagged.provenance),
               artifact_hash |-> ScalarBytes(Text(tagged.artifact_hash))])

\* The hash of an item, which only outputs have, is not of its meaning.
FingerprintedItem(tagged) ==
  ObjectBytes([item |-> ItemBytes(tagged.item), provenance |-> FieldsBytes(tagged.provenance)])

\* The bytes that the deterministic_fingerprint is taken of.
Fingerprint(request, items) ==
  ObjectBytes([instructions |-> ScalarBytes(Text(request.instructions)),
               tools |-> ListBytes([i \in DOMAIN request.tools |-> Written(request.tools[i])]),
               items |-> ListBytes([i \in DOMAIN items |-> FingerprintedItem(items[i])])])

-----------------------------------------------------------------------------
(* What a client is shown                                                    *)

\* Mutant of ResponseItem: a text is shown as a part of an input.
ResponseItemAsInput(item) ==
  IF item.kind = "message"
    THEN [type |-> "message", role |-> item.role,
          content |-> <<[type |-> "input_text", text |-> item.text]>>]
    ELSE [type |-> "function_call", name |-> item.name, arguments |-> item.arguments,
          call_id |-> item.call_id]

\* tagged_item_to_response_json, of the items that answers have
ResponseItem(item) ==
  IF item.kind = "message"
    THEN [type |-> "message", role |-> item.role,
          content |-> <<[type |-> "output_text", text |-> item.text]>>]
    ELSE [type |-> "function_call", name |-> item.name, arguments |-> item.arguments,
          call_id |-> item.call_id]

Shown(output) == [i \in DOMAIN output |-> ResponseItem(output[i].item)]

-----------------------------------------------------------------------------
(* What there is to be said                                                  *)

Strings == Seq(Letters)

\* The parts of what a tool returned.
OutputParts ==
  [type : {"input_text"}, text : Strings] \cup [type : {"input_image"}, image_url : Urls]

\* What tools returned, as an item keeps it.
Outputs ==
  [encoding : {"text"}, text : Strings] \cup [encoding : {"content_items"}, items : Seq(OutputParts)]

\* What is absent is no model, no type and no role of an item, and nothing that
\* an item can hold.
ASSUME NoneAssumption ==
  /\ None \notin {"message", "function_call", "function_call_output", "reasoning"} \cup Roles
  /\ None \notin ToSet(DefaultModels) /\ None \notin Urls
  /\ None \notin Strings \cup Outputs
  /\ NewLine \in Letters

\* Contents, and what tools returned, as they are read: a text is a text or it
\* is absent.
ContentIsRead(content) ==
  /\ content \in Seq(ToSet(content))
  /\ \A part \in ToSet(content) :
       part.type \in {"input_text", "output_text"} => part.text \in {None} \cup Strings

OutputIsRead(output) ==
  /\ output.encoding = "text" => output.text \in Strings
  /\ output.encoding = "content_items" =>
       /\ output.items \in Seq(ToSet(output.items))
       /\ \A part \in ToSet(output.items) :
            /\ part.type = "input_text" => part.text \in {None} \cup Strings
            /\ part.type = "input_image" => part.image_url \in {None} \cup Urls

ItemIsRead(item) ==
  /\ TypeOf(item) = "message" => item.content = None \/ ContentIsRead(item.content)
  /\ TypeOf(item) = "function_call_output" => item.output = None \/ OutputIsRead(item.output)
  /\ TypeOf(item) = "reasoning" => item.raw \in Json

ASSUME RequestsAssumption ==
  \A request \in Requests :
    /\ DOMAIN request = {"model", "instructions", "input", "tools", "stream"}
    /\ request.tools \in Seq(Json)
    /\ IF request.input.kind = "string" THEN request.input.text \in Strings
       ELSE /\ request.input.items \in Seq(ToSet(request.input.items))
            /\ \A item \in ToSet(request.input.items) : ItemIsRead(item)

\* The items of an answer are texts and calls of a model (chat_stream.rs), and
\* no field of what is shown of them is absent.
ASSUME AnswersAssumption ==
  \A output \in Answers :
    /\ output \in Seq(ToSet(output))
    /\ \A i \in DOMAIN output : LET item == output[i].item IN
         /\ output[i] = Tagged(item, ModelSemi)
         /\ \/ /\ item.kind = "message" /\ item.text \in Strings
               /\ item = Message("assistant", item.text)
            \/ item.kind = "function_call"
               /\ item = FunctionCall(item.call_id, item.name, item.arguments)
         /\ \A field \in DOMAIN item : item[field] # None
         /\ \A field \in DOMAIN ResponseItem(item) : ResponseItem(item)[field] # None

-----------------------------------------------------------------------------
(* The turns                                                                 *)

\* An input that is a string stands for a message of the user.
InputItems(input) ==
  IF input.kind = "string"
    THEN <<[type |-> "message", role |-> "user",
            content |-> <<[type |-> "input_text", text |-> input.text]>>]>>
    ELSE input.items

RequestItems(input) ==
  IF input.kind = "string" THEN <<Tagged(Message("user", input.text), UserTrusted)>>
  ELSE Normalized(input.items)

NoTurn == [said |-> <<>>, request |-> None]
NoSession == [items |-> <<>>, fingerprint |-> None]

\* A request on top of the items of a session.  The handler refuses what
\* normalize_items or validate_tools or the configuration refuses;
\* compile_tools is called only when the turn has begun.
Ask(items, request, said) ==
  LET model == ModelOf(models, request.model)
      accepted == /\ AreSupported(InputItems(request.input))
                  /\ ToolsAreValid(request.tools)
                  /\ model # None
      all == items \o RequestItems(request.input)
  IN
  /\ status # "asked" /\ Len(dialogue.said) <= MaxHistory
  /\ \/ /\ accepted /\ ToolsCompile(request.tools)
        /\ status' = "asked"
        /\ turn' = [said |-> said, request |-> request]
        /\ transcript' = all
        /\ chat' = Compiled(model, request, all)
     \/ /\ ~ (accepted /\ ToolsCompile(request.tools))
        /\ status' = IF accepted THEN "failed" ELSE "refused"
        /\ UNCHANGED <<turn, transcript, chat>>
  /\ UNCHANGED <<models, session, dialogue>>

\* The client continues by previous_response_id.
Continue(request) ==
  Ask(session.items, request, dialogue.said \o InputItems(request.input))

\* The client sends what was said once more, with what is new.
Replay(request) ==
  LET said == dialogue.said \o InputItems(request.input)
  IN  Ask(<<>>, [request EXCEPT !.input = [kind |-> "items", items |-> said]], said)

EndTurn ==
  /\ status = "asked"
  /\ status' = "idle"
  /\ turn' = NoTurn /\ transcript' = <<>> /\ chat' = None
  /\ UNCHANGED models

\* Mutant of Committed: the session keeps the output only.
CommittedOutput(output) == session.items \o output

\* commit_completed: the session holds the transcript and the output, whose
\* items are hashed.
Committed(output) ==
  transcript \o [i \in DOMAIN output |->
                   [output[i] EXCEPT !.artifact_hash = ArtifactHash(output[i].item)]]

\* The answer completes the turn; the client is shown the output.
Complete(output) ==
  /\ EndTurn
  /\ session' = [items |-> Committed(output),
                 fingerprint |-> Fingerprint(turn.request, Committed(output))]
  /\ dialogue' = [said |-> turn.said \o Shown(output), request |-> turn.request]

\* There is no complete answer: no session, and the client goes on from the
\* one that it has.
NotComplete == EndTurn /\ UNCHANGED <<session, dialogue>>

Init ==
  /\ \E boot \in Boots :
       /\ models = Load(ConfigPath(boot.ktxd_config, boot.files), boot.files)
       /\ models # None
  /\ session = NoSession
  /\ dialogue = NoTurn
  /\ turn = NoTurn /\ transcript = <<>> /\ chat = None
  /\ status = "idle"

Next ==
  \/ \E request \in Requests : Continue(request) \/ Replay(request)
  \/ \E output \in Answers : Complete(output)
  \/ NotComplete

Spec == Init /\ [][Next]_vars

-----------------------------------------------------------------------------
(* Properties                                                                *)

\* No session holds an item that lacks something, whichever field of whichever
\* item was absent.
TypeOK ==
  /\ status \in {"idle", "asked", "refused", "failed"}
  /\ status # "asked" => turn = NoTurn
  /\ \A i \in DOMAIN session.items : LET item == session.items[i].item IN
       /\ item.kind \in {"message", "function_call", "function_call_output", "reasoning"}
       /\ \A field \in DOMAIN item : item[field] # None

\* It makes no difference to the backend whether a client continues by id or
\* sends everything once more, in any order of the two: the chat request is
\* that of the whole dialogue as the client knows it, in its order, with the
\* instructions of this turn and none of an earlier one
\* (turn_driver.rs:92-126 and :475, events.rs:249-280).
ContinuingIsReplaying ==
  status = "asked" =>
    chat = Compiled(ModelOf(models, turn.request.model), turn.request, Normalized(turn.said))

\* What the service has shown to a client it takes from it again: a dialogue
\* that went on can be replayed after a restart (tagged_item_to_response_json
\* and normalize_items agree).
WhatWasSaidIsAccepted == AreSupported(dialogue.said)

\* Tools that the handler has let through do not fail the turn: of two checks
\* in two places the first is not the weaker one (validate_tools and
\* compile_tools).
AcceptedToolsCompile == status # "failed"

\* What tools say, whichever way their keys are ordered.
Meanings(tools) == [i \in DOMAIN tools |-> Meaning(tools[i])]

\* The fingerprint of a session tells what was said: it is the same whether the
\* client continued or replayed the dialogue, and whichever way the keys of
\* its tools are ordered, and another one if the instructions or the tools of
\* the last turn were others or an item of the dialogue was missing.  It is
\* looked at when a turn has ended, and does not change before the next has
\* (turn_driver.rs:476-487, hash.rs:25-67).
FingerprintIsOfTheDialogue ==
  status = "idle" /\ session # NoSession =>
    LET items == Normalized(dialogue.said)
        asked == dialogue.request
        requests == {[instructions |-> r.instructions, tools |-> r.tools] : r \in Requests}
    IN /\ \A request \in requests :
            (Fingerprint(request, items) = session.fingerprint) <=>
              /\ request.instructions = asked.instructions
              /\ Meanings(request.tools) = Meanings(asked.tools)
       /\ \A i \in DOMAIN items :
            Fingerprint(asked, RemoveAt(items, i)) # session.fingerprint

\* Every model that /v1/models lists can be asked, and it is the listed one
\* that answers unless its name is the key of another or an earlier one goes
\* by the same name (models, handlers.rs:38-77, and AppConfig::model,
\* config.rs:123-132).
ListedModelsAreServed ==
  \A i \in DOMAIN models :
    LET slug == Listed(models)[i]
        served == ModelOf(models, slug)
    IN /\ served # None
       /\ \/ served = models[i]
          \/ served.key = slug
          \/ \E j \in 1..(i - 1) : models[j].public_model = slug /\ served = models[j]
=============================================================================
