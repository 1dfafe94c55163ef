----------------------------- MODULE MCDialogue ------------------------------
(* A small instance of Dialogue.                                             *)
EXTENDS Dialogue

ConstKeys ==
  <<"arguments", "artifact_hash", "call_id", "encoding", "function", "image_url",
    "instructions", "item", "items", "kind", "name", "output", "provenance", "raw", "role",
    "source", "text", "tools", "trust", "type">>
SomeScalars ==
  {Text(string) : string \in {"", "f", "function", "g", "h", "reasoning", "web_search"}}

\* Configurations: files of which one is read, one that is named; a model whose
\* name is the key of another, two that go by one name; no file, a file that
\* lists nothing, one that is missing and one that is no configuration.
OneModel == <<Model("k", "m", "u", TRUE, FALSE, "developer")>>
TwoModels ==
  <<Model("a", "b", "u", TRUE, TRUE, "system"), Model("b", "m", "v", FALSE, TRUE, "developer"),
    Model("c", "m", "w", TRUE, FALSE, "system")>>
Boot(ktxd_config, files) == [ktxd_config |-> ktxd_config, files |-> files]
SomeBoots ==
  {Boot(None, "config.toml" :> OneModel @@ "config.local.toml" :> TwoModels),
   Boot("mine.toml", "config.toml" :> OneModel @@ "mine.toml" :> TwoModels),
   Boot(None, <<>>), Boot(None, "config.local.toml" :> <<>>),
   Boot("mine.toml", "config.toml" :> OneModel), Boot(None, "config.toml" :> None)}

String(text) == [kind |-> "string", text |-> text]
Items(items) == [kind |-> "items", items |-> items]
Part(type, text) == [type |-> type, text |-> text]
Image(url) == [type |-> "input_image", image_url |-> url]
MessageOf(role, content) == [type |-> "message", role |-> role, content |-> content]
Call(call_id, arguments) ==
  [type |-> "function_call", name |-> "f", call_id |-> call_id, arguments |-> arguments]
Result(call_id, output) ==
  [type |-> "function_call_output", call_id |-> call_id, output |-> output]
TextOutput(text) == [encoding |-> "text", text |-> text]
Content(items) == [encoding |-> "content_items", items |-> items]
Thought == Object(<<Entry("type", Text("reasoning")), Entry("text", Text("h"))>>)

\* Inputs that are supported: strings, an empty one among them; texts in
\* parts, with an empty part, an image and no part at all, and without a type
\* or a role; a call; results of calls in both encodings, with blank parts and
\* images; reasoning.
Supported ==
  {String(<<"a">>), String(<<>>),
   Items(<<[type |-> None, role |-> None,
            content |-> <<Part("input_text", <<"a">>), Part("input_text", <<>>), Image("u"),
                          Part("input_text", <<Blank>>)>>],
           [type |-> "reasoning", raw |-> Thought]>>),
   Items(<<MessageOf("developer", <<>>),
           MessageOf("assistant", <<Part("output_text", <<"b">>), Image(None)>>)>>),
   Items(<<Call("c", <<"x">>), Result("c", TextOutput(<<"r">>))>>),
   Items(<<Result("c", Content(<<Part("input_text", <<Blank>>), Image("u"),
                                 Part("input_text", <<"r">>), Part("input_text", <<"s">>)>>))>>),
   Items(<<>>)}

\* Inputs that are not: a role, a type and parts that do not exist or fit, and
\* fields that are absent.
Unsupported ==
  {Items(<<MessageOf("tool", <<>>)>>),
   Items(<<[type |-> "web_search_call"]>>),
   Items(<<MessageOf("user", <<Part("output_text", <<"a">>)>>)>>),
   Items(<<MessageOf("user", <<Part("input_text", None)>>)>>),
   Items(<<MessageOf("user", None)>>),
   Items(<<Call("c", <<"x">>), Call("c", None)>>),
   Items(<<Result(None, TextOutput(<<"r">>))>>),
   Items(<<Result("c", None)>>),
   Items(<<Result("c", Content(<<Image(None)>>))>>)}

\* A tool whose name is beside its type or in a function, with its keys in
\* either order, and tools that have no type, no name, or an empty one.
Type == Entry("type", Text("function"))
Name(name) == Entry("name", Text(name))
Flat == Object(<<Type, Name("f")>>)
FlatTurned == Object(<<Name("f"), Type>>)
Nested == Object(<<Type, Entry("function", Object(<<Name("g")>>))>>)
ValidToolLists == {<<>>, <<Flat, Nested>>, <<FlatTurned, Nested>>, <<Nested, Flat>>}
InvalidToolLists ==
  {<<Object(<<Type>>)>>, <<Object(<<Type, Name("")>>)>>, <<Object(<<Name("f")>>)>>,
   <<Object(<<Type, Name("f"), Entry("function", Object(<<>>))>>)>>,
   <<Object(<<Entry("type", Text("web_search")), Name("f")>>)>>, <<Text("function")>>}

Request(model, instructions, input, tools, stream) ==
  [model |-> model, instructions |-> instructions, input |-> input, tools |-> tools,
   stream |-> stream]
SomeRequests ==
  {Request("m", <<"i">>, input, <<>>, TRUE) : input \in Supported \cup Unsupported}
    \cup {Request("m", <<"j">>, String(<<"a">>), tools, FALSE) :
            tools \in ValidToolLists \cup InvalidToolLists}
    \cup {Request(model, <<>>, String(<<"a">>), <<Flat>>, TRUE) :
            model \in {"m", "k", "b", "DeepSeek-V4-Pro", "nobody"}}

\* A text, two calls, and nothing.
SomeAnswers ==
  {<<>>, <<Tagged(Message("assistant", <<"t">>), ModelSemi)>>,
   <<Tagged(Message("assistant", <<"t", NewLine>>), ModelSemi),
     Tagged(FunctionCall("c", "f", <<"x">>), ModelSemi),
     Tagged(FunctionCall("d", "f", <<>>), ModelSemi)>>}
=============================================================================
