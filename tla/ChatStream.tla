----------------------------- MODULE ChatStream ------------------------------
(***************************************************************************)
(* The translation of an answer: translate_stream_chunks and, as what it   *)
(* is compared with, translate_non_streaming_response, both of             *)
(* src/src/translator/chat_stream.rs.                                      *)
(*                                                                         *)
(* A stream is a sequence of pieces: a fragment of the text, a fragment of *)
(* a tool call, a finish reason, a count of tokens.  How pieces are        *)
(* grouped into choices and chunks makes no difference, since the loops    *)
(* keep nothing from one choice or chunk to the next but the variables     *)
(* below.  Texts and arguments are sequences; an absent content and an     *)
(* empty one are both <<>>, and so are absent and empty arguments.         *)
(***************************************************************************)
EXTENDS Naturals, Sequences, FiniteSets, SequencesExt

CONSTANTS
  Letters,      \* what texts and arguments are sequences of
  Contents,     \* fragments of text
  ToolCalls,    \* fragments of tool calls (ChatToolCallDelta)
  Reasons,      \* finish reasons
  Usages,       \* counts of tokens (ChatUsage), each of them a number or None
  None,         \* the None of an Option
  MaxIndex,     \* the largest index of a fragment (u32::MAX)
  MaxPieces     \* bound: pieces of a stream

ASSUME BoundAssumption == MaxPieces \in Nat

ASSUME FragmentsAssumption ==
  /\ Contents \subseteq Seq(Letters)
  /\ MaxIndex \in Nat
  /\ \A call \in ToolCalls : call.index \in (0..MaxIndex) \cup {None} /\ call.arguments \in Seq(Letters)
  /\ \A count \in Usages :
       {count.prompt_tokens, count.completion_tokens, count.total_tokens} \subseteq Nat \cup {None}

\* What is absent is none of what can be there.
ASSUME NoneAssumption ==
  /\ None \notin Nat /\ None \notin Reasons /\ None \notin Usages
  /\ None \notin {"stop", "tool_calls", "length", "content_filter"}
  /\ None \notin [content : Seq(Letters), tool_calls : Seq([index : Nat,
                    id : {c.id : c \in ToolCalls}, name : {c.name : c \in ToolCalls},
                    arguments : Seq(Letters)])]

VARIABLES
  pieces,         \* the pieces that were read
  text,           \* the text of text_item
  text_added,     \* there is a text_item, and its event was pushed
  tool_calls,     \* the builders, by index
  finish_reason,  \* the last finish reason
  usage,          \* the tokens used
  events,         \* the events pushed
  result          \* what is returned

readVars == <<text, text_added, tool_calls, finish_reason, usage>>
vars == <<pieces, readVars, events, result>>

-----------------------------------------------------------------------------
(* Items and events                                                          *)

Message(t) == [kind |-> "message", text |-> t]
FunctionCall(call) ==
  [kind |-> "function_call", call_id |-> call.id, name |-> call.name,
   arguments |-> call.arguments]

Added(index, item) == [type |-> "added", output_index |-> index, item |-> item]
Delta(index, content) == [type |-> "delta", output_index |-> index, delta |-> content]
Done(index, item) == [type |-> "done", output_index |-> index, item |-> item]
Incomplete(output, used) == [type |-> "incomplete", output |-> output, usage |-> used]

UsageTotals(input, output, total) ==
  [input_tokens |-> input, output_tokens |-> output, total_tokens |-> total]

NoUsage == UsageTotals(0, 0, 0)

\* usage_from_chat: a count that is not given is nought.
UsageFromChat(count) == LET Given(n) == IF n = None THEN 0 ELSE n IN
  UsageTotals(Given(count.prompt_tokens), Given(count.completion_tokens),
              Given(count.total_tokens))

Reading == [status |-> "reading"]
Malformed == [status |-> "malformed"]

-----------------------------------------------------------------------------
(* The loop over the pieces                                                  *)

Piece(kind, value) ==
  /\ result = Reading
  /\ Len(pieces) < MaxPieces
  /\ pieces' = Append(pieces, [kind |-> kind, value |-> value])

\* The first fragment that is not empty begins the text item; each is told.
Content(content) ==
  /\ Piece("content", content)
  /\ IF content = <<>>
       THEN UNCHANGED <<text, text_added, events>>
       ELSE /\ text' = text \o content
            /\ text_added' = TRUE
            /\ events' = events \o (IF text_added THEN <<>> ELSE <<Added(0, Message(<<>>))>>)
                                \o <<Delta(0, content)>>
  /\ UNCHANGED <<tool_calls, finish_reason, usage, result>>

\* A fragment without an index belongs to the first call.
IndexOf(call) == IF call.index = None THEN 0 ELSE call.index

NewBuilder == [id |-> None, name |-> None, arguments |-> <<>>]
Builder(index) == IF index \in DOMAIN tool_calls THEN tool_calls[index] ELSE NewBuilder

\* Mutant of Conflict: what differs from the first is passed over.
NeverConflict(target, candidate) == FALSE

\* latch_field: what has once been given may be repeated and not changed.
Conflict(target, candidate) == candidate # None /\ target # None /\ target # candidate

Latch(target, candidate) == IF candidate = None THEN target ELSE candidate

Extended(builder, call) ==
  [id |-> Latch(builder.id, call.id),
   name |-> Latch(builder.name, call.name),
   arguments |-> builder.arguments \o call.arguments]

ToolCall(call) == LET index == IndexOf(call)  builder == Builder(index) IN
  /\ Piece("tool_call", call)
  /\ IF Conflict(builder.id, call.id) \/ Conflict(builder.name, call.name)
       THEN result' = Malformed /\ UNCHANGED tool_calls
       ELSE /\ tool_calls' = [i \in DOMAIN tool_calls \cup {index} |->
                                IF i = index THEN Extended(builder, call) ELSE tool_calls[i]]
            /\ UNCHANGED result
  /\ UNCHANGED <<text, text_added, finish_reason, usage, events>>

FinishReason(reason) ==
  /\ Piece("finish_reason", reason)
  /\ finish_reason' = reason
  /\ UNCHANGED <<text, text_added, tool_calls, usage, events, result>>

\* Mutant of TokensUsed: the first count is kept.
FirstUsage(count) ==
  IF \E i \in DOMAIN pieces : pieces[i].kind = "usage" THEN usage ELSE UsageFromChat(count)

\* Each count is of the whole answer so far: the last one stands.
TokensUsed(count) == UsageFromChat(count)

Usage(count) ==
  /\ Piece("usage", count)
  /\ usage' = TokensUsed(count)
  /\ UNCHANGED <<text, text_added, tool_calls, finish_reason, events, result>>

-----------------------------------------------------------------------------
(* After the loop                                                            *)

Terminal(reason) ==
  CASE reason \in {"stop", "tool_calls"} -> "completed"
    [] reason = "length"                 -> "max_output_tokens"
    [] reason = "content_filter"         -> "content_filter"
    [] reason = None                     -> "done_without_finish_reason"
    [] OTHER                             -> "unsupported_finish_reason"

IsIncomplete(terminal) == terminal \in {"max_output_tokens", "content_filter"}

TextItems == IF text_added THEN <<Message(text)>> ELSE <<>>

\* finish_tool_calls, by index: as many calls have a smaller one as come before.
CallAt(n) ==
  CHOOSE index \in DOMAIN tool_calls :
    Cardinality({i \in DOMAIN tool_calls : i < index}) = n - 1

GeneratedCalls ==
  [n \in 1..Cardinality(DOMAIN tool_calls) |-> FunctionCall(tool_calls[CallAt(n)])]

\* Mutant of CallsAreWhole: the ids are not looked at.
CallsAreNamed == \A i \in DOMAIN tool_calls : tool_calls[i].name # None

CallsAreWhole ==
  \A i \in DOMAIN tool_calls : tool_calls[i].id # None /\ tool_calls[i].name # None

\* Mutant of ToldFrom: the calls are counted on their own.
ToldFromZero(first, items) ==
  [n \in 1..(2 * Len(items)) |-> LET i == (n + 1) \div 2 IN
    IF n % 2 = 1 THEN Added(i - 1, items[i]) ELSE Done(i - 1, items[i])]

\* The two events of each of some whole items, the first at output index first.
ToldFrom(first, items) ==
  [n \in 1..(2 * Len(items)) |-> LET i == (n + 1) \div 2 IN
    IF n % 2 = 1 THEN Added(first + i - 1, items[i]) ELSE Done(first + i - 1, items[i])]

\* The stream ends.  Calls are items of an answer that finishes with
\* tool_calls, and of no other; there each must have an id and a name.
End ==
  /\ result = Reading
  /\ LET calls == IF finish_reason = "tool_calls" THEN GeneratedCalls ELSE <<>>
         output == TextItems \o calls
         terminal == Terminal(finish_reason)
     IN \/ /\ finish_reason = "tool_calls" /\ ~ CallsAreWhole
           /\ result' = Malformed
           /\ UNCHANGED events
        \/ /\ finish_reason = "tool_calls" => CallsAreWhole
           /\ result' = [status |-> "ok", terminal |-> terminal, output |-> output,
                          usage |-> usage]
           /\ events' = events
                \o (IF text_added THEN <<Done(0, Message(text))>> ELSE <<>>)
                \o ToldFrom(Len(TextItems), calls)
                \o (IF IsIncomplete(terminal) THEN <<Incomplete(output, usage)>> ELSE <<>>)
  /\ UNCHANGED <<pieces, readVars>>

Init ==
  /\ pieces = <<>>
  /\ text = <<>> /\ text_added = FALSE
  /\ tool_calls = <<>>
  /\ finish_reason = None
  /\ usage = NoUsage
  /\ events = <<>>
  /\ result = Reading

Next ==
  \/ \E content \in Contents : Content(content)
  \/ \E call \in ToolCalls : ToolCall(call)
  \/ \E reason \in Reasons : FinishReason(reason)
  \/ \E count \in Usages : Usage(count)
  \/ End

Spec == Init /\ [][Next]_vars

-----------------------------------------------------------------------------
(* The translation of an answer that comes whole                             *)

\* Without an index a tool call has the last place that an index can give.
Place(call) == IF call.index = None THEN MaxIndex ELSE call.index

\* The order of the tool calls of a message: by index, then by id.
Precedes(a, b) ==
  \/ Place(a) < Place(b)
  \/ Place(a) = Place(b) /\ a.id < b.id

SortedCalls(calls) ==
  LET Before(i, j) == \/ Precedes(calls[i], calls[j])
                      \/ i < j /\ ~ Precedes(calls[j], calls[i])
      At(n) == CHOOSE i \in DOMAIN calls :
                 Cardinality({j \in DOMAIN calls \ {i} : Before(j, i)}) = n - 1
  IN  [n \in DOMAIN calls |-> FunctionCall(calls[At(n)])]

\* translate_non_streaming_response: the first choice alone is the answer,
\* and there must be one; without a finish reason it is stop.
NonStreaming(response) ==
  IF response.choices = <<>> THEN [status |-> "upstream_error"]
  ELSE LET choice == Head(response.choices)
           message == IF choice.message = None THEN [content |-> <<>>, tool_calls |-> <<>>]
                      ELSE choice.message
       IN [status |-> "ok",
           output |-> (IF message.content = <<>> THEN <<>> ELSE <<Message(message.content)>>)
                        \o SortedCalls(message.tool_calls),
           usage |-> IF response.usage = None THEN NoUsage ELSE UsageFromChat(response.usage),
           terminal |-> Terminal(IF choice.finish_reason = None THEN "stop"
                                 ELSE choice.finish_reason)]

-----------------------------------------------------------------------------
(* Properties                                                                *)

\* The places of the pieces of a kind, and of the fragments of a call.
PiecesOf(kind) == {n \in DOMAIN pieces : pieces[n].kind = kind}
FragmentsOf(index) == {n \in PiecesOf("tool_call") : IndexOf(pieces[n].value) = index}
Indexes == {IndexOf(pieces[n].value) : n \in PiecesOf("tool_call")}

\* What the fragments of a call give as its id or its name.
Ids(index) == {pieces[n].value.id : n \in FragmentsOf(index)} \ {None}
Names(index) == {pieces[n].value.name : n \in FragmentsOf(index)} \ {None}

\* What the fragments of the text, and of a call's arguments, are joined to.
TextOfPieces ==
  FlattenSeq([n \in DOMAIN pieces |->
    IF n \in PiecesOf("content") THEN pieces[n].value ELSE <<>>])
Arguments(index) ==
  FlattenSeq([n \in DOMAIN pieces |->
    IF n \in FragmentsOf(index) THEN pieces[n].value.arguments ELSE <<>>])

LastOf(kind) == IF PiecesOf(kind) = {} THEN None ELSE pieces[Max(PiecesOf(kind))].value
LastReason == LastOf("finish_reason")

OutputItems ==
  [kind : {"message"}, text : Seq(Letters)]
    \cup [kind : {"function_call"},
          call_id : {c.id : c \in ToolCalls} \ {None},
          name : {c.name : c \in ToolCalls} \ {None}, arguments : Seq(Letters)]

\* The output has whole items only.
TypeOK ==
  /\ text_added \in BOOLEAN
  /\ finish_reason \in Reasons \cup {None}
  /\ DOMAIN tool_calls \subseteq Nat
  /\ result.status \in {"reading", "malformed", "ok"}
  /\ usage \in [{"input_tokens", "output_tokens", "total_tokens"} -> Nat]
  /\ result.status = "ok" => result.output \in Seq(OutputItems)

\* A client that follows the events has the output: every item is added
\* once and done once, at its index, in order, the text is the sum of its
\* deltas, and an incomplete answer says so last, with the output and the
\* tokens of the whole answer, counts that came after the last text included
\* (the pushes of translate_stream_chunks, chat_stream.rs:64-141).
EventsCarryTheOutput ==
  result.status = "ok" =>
    LET output == result.output
        Told(type) == {n \in DOMAIN events : events[n].type = type}
        ToldOf(type, i) == {n \in Told(type) : events[n].output_index = i - 1}
    IN /\ \A i \in DOMAIN output : \E added, done \in DOMAIN events :
            /\ ToldOf("added", i) = {added} /\ ToldOf("done", i) = {done} /\ added < done
            /\ \A j \in DOMAIN output : j > i => \A n \in ToldOf("added", j) : done < n
            /\ events[done].item = output[i]
            /\ output[i].kind = "message" =>
                 /\ i = 1 /\ events[added].item = Message(<<>>)
                 /\ Told("delta") = (added + 1)..(done - 1)
                 /\ output[i].text =
                      FlattenSeq([n \in 1..(done - added - 1) |-> events[added + n].delta])
            /\ output[i].kind = "function_call" => events[added].item = output[i]
       /\ \A n \in Told("added") \cup Told("done") : events[n].output_index + 1 \in DOMAIN output
       /\ Told("delta") # {} => output # <<>> /\ output[1].kind = "message"
       /\ IF IsIncomplete(result.terminal)
            THEN /\ Told("incomplete") = {Len(events)}
                 /\ events[Len(events)] = Incomplete(output, result.usage)
            ELSE Told("incomplete") = {}

\* A stream is malformed exactly if two fragments of one call disagree on its
\* id or its name, however far apart and in whichever order they come, or if
\* it finishes with a call that has no id or no name (latch_field and
\* finish_tool_calls).
MalformedIsDisagreement ==
  result # Reading =>
    ((result = Malformed) <=>
       \E i \in Indexes :
         \/ \E a, b \in Ids(i) : a # b
         \/ \E a, b \in Names(i) : a # b
         \/ LastReason = "tool_calls" /\ (Ids(i) = {} \/ Names(i) = {}))

NoChoice == \A i \in DOMAIN pieces : pieces[i].kind = "usage"

\* The response that the pieces of a stream are the fragments of, its calls
\* in some order; one without a choice if there is nothing but counts.
WholeResponse(order) ==
  LET Call(index) == [index |-> index, id |-> CHOOSE id \in Ids(index) : TRUE,
                      name |-> CHOOSE name \in Names(index) : TRUE,
                      arguments |-> Arguments(index)]
      message == [content |-> TextOfPieces,
                  tool_calls |-> [n \in DOMAIN order |-> Call(order[n])]]
  IN [usage |-> LastOf("usage"),
      choices |-> IF NoChoice THEN <<>> ELSE <<[message |-> message, finish_reason |-> LastReason]>>]

\* However an answer is cut into fragments, its translation is that of the
\* answer in one piece, its token counts included, whichever order its calls
\* have there; and an answer that has no choice fails both ways.  It is not so
\* without a finish reason, or with calls in an answer that does not finish
\* with tool_calls: a stream drops them, a whole answer keeps them
\* (chat_stream.rs:115-131 and :164-190).
FragmentsMakeTheWhole ==
  result.status = "ok" => \A order \in SetToSeqs(Indexes) :
    /\ LastReason # None /\ (Indexes = {} \/ LastReason = "tool_calls") =>
         result = NonStreaming(WholeResponse(order))
    /\ NoChoice =>
         /\ result.terminal = "done_without_finish_reason"
         /\ NonStreaming(WholeResponse(order)).status # "ok"
=============================================================================
