--------------------------- MODULE UpstreamClient ----------------------------
(***************************************************************************)
(* One call to the backend: stream and complete of                         *)
(* ReqwestChatCompletionsClient, src/src/upstream/mod.rs.                  *)
(*                                                                         *)
(* A backend that does not know stream_options is asked once more without  *)
(* them.  The body of a successful response to stream arrives in pieces,   *)
(* cut anywhere; frames are taken from the buffer as soon as they are      *)
(* whole, and what is left at the end is a frame too.  complete asks once, *)
(* and reads a body that is one JSON value.                                *)
(*                                                                         *)
(* Bytes are symbols: CR, LF, a JSON chunk after "data:" (Chunks), [DONE]  *)
(* after "data:" (DoneMark), any other text (Text) and what is not UTF-8   *)
(* (Garbage).  Only LF and CR decide where a frame ends, so nothing is     *)
(* lost by leaving the other symbols whole.                                *)
(***************************************************************************)
EXTENDS Naturals, Sequences, SequencesExt

CONSTANTS
  CR, LF,       \* the bytes of a line's end
  Chunks,       \* data lines with a chunk
  DoneMark,     \* the data line [DONE]
  Text,         \* other text
  Garbage,      \* bytes that are not UTF-8
  Symbols,      \* those of them that bodies are made of
  Configurations,  \* what a call may be made with: is it stream or complete,
                   \* does the model allow a retry, has the request
                   \* stream_options?
  MaxBytes,     \* bound: symbols of a body
  MaxPiece      \* bound: symbols that arrive at once

ASSUME SymbolsAssumption ==
  /\ CR # LF
  /\ {CR, LF} \cap (Chunks \cup {DoneMark, Text, Garbage}) = {}
  /\ {DoneMark, Text, Garbage} \cap Chunks = {}
  /\ Symbols \subseteq {CR, LF, DoneMark, Text, Garbage} \cup Chunks

ASSUME ConfigurationsAssumption ==
  Configurations \subseteq [streamed : BOOLEAN, retry : BOOLEAN, stream_options : BOOLEAN]

ASSUME BoundsAssumption == MaxBytes \in Nat /\ MaxPiece \in Nat \ {0}

VARIABLES
  pc,        \* where the call is
  requests,  \* for each request that was sent: does it have stream_options?
  streamed,  \* the call is stream, not complete
  retry,     \* retry_without_stream_options_on_4xx of the model
  status,    \* the status of the last response, "none" before it
  body,      \* the part of the body that has arrived
  buffer,    \* the bytes of it that are in no frame yet
  chunks,    \* the chunks parsed
  result     \* "none", "ok", or the error

configured == <<streamed, retry>>
callVars == <<pc, requests, configured, status, result>>
bodyVars == <<body, buffer, chunks>>
vars == <<callVars, bodyVars>>

-----------------------------------------------------------------------------
(* Frames                                                                    *)

StartsWith(bytes, i, word) ==
  /\ i + Len(word) - 1 <= Len(bytes)
  /\ SubSeq(bytes, i, i + Len(word) - 1) = word

Delimiters == {<<CR, LF, CR, LF>>, <<LF, LF>>}

\* Mutant of FrameEnds: the long delimiter is looked for first.
FrameEndsLongFirst(bytes, from) ==
  LET Ends(word) == {[at |-> i, length |-> Len(word)] :
                       i \in {j \in from..Len(bytes) : StartsWith(bytes, j, word)}}
  IN  IF Ends(<<CR, LF, CR, LF>>) # {} THEN Ends(<<CR, LF, CR, LF>>) ELSE Ends(<<LF, LF>>)

\* Mutant of FrameEnds: lines end with LF alone.
FrameEndsOfLF(bytes, from) ==
  {[at |-> i, length |-> 2] : i \in {j \in from..Len(bytes) : StartsWith(bytes, j, <<LF, LF>>)}}

\* Where a frame may end, from a position on.
FrameEnds(bytes, from) ==
  {[at |-> end[1], length |-> Len(end[2])] :
     end \in {p \in (from..Len(bytes)) \X Delimiters : StartsWith(bytes, p[1], p[2])}}

\* find_sse_frame_end: the first of them.
FirstFrameEnd(bytes, from) ==
  CHOOSE e \in FrameEnds(bytes, from) : \A f \in FrameEnds(bytes, from) : e.at <= f.at

IsData(symbol) == symbol \in Chunks \cup {DoneMark}

BeginsLine(bytes, i) == i = 1 \/ bytes[i - 1] = LF

\* Is it a symbol of a line that begins with "data:"?
InDataLine(bytes, i) ==
  /\ bytes[i] # CR
  /\ \E start \in 1..i : /\ BeginsLine(bytes, start) /\ IsData(bytes[start])
                        /\ \A k \in start..i : bytes[k] # LF

\* The data of a frame: its lines that begin with "data:", joined.  JSON and
\* the comparison with [DONE] pass over the line ends between them.
Data(frame) ==
  FlattenSeq([i \in DOMAIN frame |-> IF InDataLine(frame, i) THEN <<frame[i]>> ELSE <<>>])

\* parse_sse_frame: no data and [DONE] give no chunk.
WellFormed(frame) ==
  /\ Garbage \notin ToSet(frame)
  /\ Data(frame) \in {<<>>, <<DoneMark>>} \cup {<<c>> : c \in Chunks}

\* Mutant of ChunksOf: [DONE] is taken for a chunk.
AnyDataOf(frame) == Data(frame)

ChunksOf(frame) == IF Data(frame) = <<DoneMark>> THEN <<>> ELSE Data(frame)

-----------------------------------------------------------------------------
(* The call                                                                  *)

Return(value) ==
  /\ pc' = "done"
  /\ result' = value
  /\ UNCHANGED <<requests, configured, status>>

\* A request is built and sent; that may fail, for want of a secret or of a
\* connection.
SendRequest ==
  /\ pc = "send"
  /\ \/ /\ \E code \in {"success", "client_error", "auth", "other"} : status' = code
        /\ pc' = "response"
        /\ UNCHANGED <<requests, configured, result>>
     \/ \E error \in {"config_error", "upstream_error"} : Return(error)
  /\ UNCHANGED bodyVars

\* is_retry_candidate, of the request last sent
IsRetryCandidate == retry /\ Last(requests) /\ status = "client_error"

\* Mutant of MayRepeat: complete repeats its request, too.
MayRepeatAny == Len(requests) = 1 /\ IsRetryCandidate

\* Only stream repeats a request, and only its first response is looked at.
MayRepeat == streamed /\ Len(requests) = 1 /\ IsRetryCandidate

\* A response that may be one to stream_options: its body tells.
CheckRetry ==
  /\ pc = "response" /\ MayRepeat
  /\ \/ /\ pc' = "send"
        /\ requests' = Append(requests, FALSE)
        /\ UNCHANGED <<configured, status, result>>
     \/ Return("upstream_error")
  /\ UNCHANGED bodyVars

\* validate_response
Validate ==
  /\ pc = "response" /\ ~ MayRepeat
  /\ \/ /\ status = "success"
        /\ pc' = "reading"
        /\ UNCHANGED <<requests, configured, status, result>>
     \/ status = "auth" /\ Return("upstream_authentication_failed")
     \/ status \in {"client_error", "other"} /\ Return("upstream_error")
  /\ UNCHANGED bodyVars

\* A piece of the body arrives.
Arrive(piece) ==
  /\ pc = "reading" /\ streamed
  /\ Len(body) + Len(piece) <= MaxBytes
  /\ body' = body \o piece
  /\ buffer' = buffer \o piece
  /\ pc' = "draining"
  /\ UNCHANGED <<requests, configured, status, chunks, result>>

\* The connection breaks.
Break ==
  /\ pc = "reading"
  /\ Return("upstream_error")
  /\ UNCHANGED bodyVars

\* The data of a frame is added to the chunks, or ends the call.
Parse(frame, next) ==
  \/ /\ WellFormed(frame)
     /\ chunks' = chunks \o ChunksOf(frame)
     /\ next
  \/ /\ ~ WellFormed(frame)
     /\ UNCHANGED chunks
     /\ Return("malformed_stream")

\* Mutant of TakeFrame: the delimiter stays in the buffer.
TakeFrameOnly ==
  /\ pc = "draining" /\ FrameEnds(buffer, 1) # {}
  /\ LET end == FirstFrameEnd(buffer, 1) IN
       /\ buffer' = SubSeq(buffer, end.at, Len(buffer))
       /\ Parse(SubSeq(buffer, 1, end.at - 1), UNCHANGED callVars)
  /\ UNCHANGED body

\* One round of drain_sse_buffer: the first frame is taken from the buffer.
TakeFrame ==
  /\ pc = "draining" /\ FrameEnds(buffer, 1) # {}
  /\ LET end == FirstFrameEnd(buffer, 1) IN
       /\ buffer' = SubSeq(buffer, end.at + end.length, Len(buffer))
       /\ Parse(SubSeq(buffer, 1, end.at - 1), UNCHANGED callVars)
  /\ UNCHANGED body

\* No frame is whole: back to the body.
Drained ==
  /\ pc = "draining" /\ FrameEnds(buffer, 1) = {}
  /\ pc' = "reading"
  /\ UNCHANGED <<requests, configured, status, result, bodyVars>>

\* The body has ended; what remains is a frame, unless it is blank.
Flush ==
  /\ pc = "reading" /\ streamed
  /\ buffer' = <<>>
  /\ Parse(buffer, Return("ok"))
  /\ UNCHANGED body

\* The whole answer of complete: a body that is not there or no JSON value of
\* the right form is a failure of the backend, not of a stream.
ReadAnswer ==
  /\ pc = "reading" /\ ~ streamed
  /\ \E value \in {"ok", "upstream_error"} : Return(value)
  /\ UNCHANGED bodyVars

Init ==
  /\ pc = "send"
  /\ \E c \in Configurations :
       streamed = c.streamed /\ retry = c.retry /\ requests = <<c.stream_options>>
  /\ status = "none"
  /\ body = <<>> /\ buffer = <<>> /\ chunks = <<>>
  /\ result = "none"

Pieces == UNION {[1..n -> Symbols] : n \in 1..MaxPiece}

Drain == TakeFrame \/ Drained

Next ==
  \/ SendRequest \/ CheckRetry \/ Validate
  \/ Drain \/ Flush \/ ReadAnswer \/ Break
  \/ \E piece \in Pieces : Arrive(piece)

\* The loop over the buffer awaits nothing.  That the backend answers, or ends
\* its bodies, is not assumed; CheckRetry and Validate read some of them, too.
Spec == Init /\ [][Next]_vars /\ WF_vars(Drain)

-----------------------------------------------------------------------------
(* Properties                                                                *)

\* Every variable holds values of its kind.
TypeOK ==
  /\ pc \in {"send", "response", "reading", "draining", "done"}
  /\ requests \in Seq(BOOLEAN)
  /\ streamed \in BOOLEAN /\ retry \in BOOLEAN
  /\ status \in {"none", "success", "client_error", "auth", "other"}
  /\ body \in Seq(Symbols) /\ buffer \in Seq(Symbols)
  /\ chunks \in Seq(Chunks)
  /\ result \in {"none", "ok", "config_error", "upstream_error",
                 "upstream_authentication_failed", "malformed_stream"}

\* What the frames of a body say, if one comes before the others.
Taken(frame, others) ==
  IF WellFormed(frame)
    THEN [chunks |-> ChunksOf(frame) \o others.chunks, result |-> others.result]
    ELSE [chunks |-> <<>>, result |-> "malformed_stream"]

\* The parse of a body that is there as a whole: of the frame that begins at
\* i, and of what follows.
ParsesOf(bytes) ==
  LET from[i \in 1..(Len(bytes) + 1)] ==
        IF FrameEnds(bytes, i) = {}
          THEN Taken(SubSeq(bytes, i, Len(bytes)), [chunks |-> <<>>, result |-> "ok"])
          ELSE LET end == FirstFrameEnd(bytes, i)
               IN  Taken(SubSeq(bytes, i, end.at - 1), from[end.at + end.length])
  IN  from

ParseOf(bytes) == ParsesOf(bytes)[1]

\* The answer of stream does not depend on where the network cuts the body,
\* also inside a delimiter: it is that of the body as a whole, and the frames
\* that are taken early are frames whatever arrives after them
\* (parse_sse_response drains the buffer after every piece).
CutsDoNotMatter ==
  /\ streamed /\ result \in {"ok", "malformed_stream"} =>
       ParseOf(body) = [chunks |-> chunks, result |-> result]
  /\ pc = "reading" =>
       \A symbol \in Symbols : IsPrefix(chunks, ParseOf(Append(body, symbol)).chunks)

\* A body whose lines all end in one way.
OneLineEnd(bytes) ==
  \/ CR \notin ToSet(bytes)
  \/ \A i \in DOMAIN bytes :
       /\ bytes[i] = CR => i < Len(bytes) /\ bytes[i + 1] = LF
       /\ bytes[i] = LF => i > 1 /\ bytes[i - 1] = CR

\* Where the lines with data begin.
DataLines(bytes) == {i \in DOMAIN bytes : BeginsLine(bytes, i) /\ IsData(bytes[i])}

\* There is nothing else on the line.
Alone(bytes, i) == i = Len(bytes) \/ bytes[i + 1] \in {CR, LF}

BlankLineBetween(bytes, i, j) == \E k \in i..(j - 1) : bytes[k] = LF /\ bytes[k + 1] \in {CR, LF}

\* A body that is UTF-8 and has, between two blank lines, one chunk or [DONE]
\* at most.
IsEventStream(bytes) ==
  /\ Garbage \notin ToSet(bytes)
  /\ \A i \in DataLines(bytes) : Alone(bytes, i)
  /\ \A i, j \in DataLines(bytes) : i < j => BlankLineBetween(bytes, i, j)

\* Its chunks, in their order.
EventsOf(bytes) ==
  FlattenSeq([i \in DOMAIN bytes |->
                IF i \in DataLines(bytes) /\ bytes[i] \in Chunks THEN <<bytes[i]>> ELSE <<>>])

\* A body that is a stream of events is read as one, whether its lines end in
\* LF or in CR LF: the chunks are those in their order, and one that is none
\* is malformed; the last event needs no blank line (find_sse_frame_end and
\* parse_sse_frame).
EventsAreRead ==
  result \in {"ok", "malformed_stream"} /\ OneLineEnd(body) =>
    IF IsEventStream(body)
      THEN result = "ok" /\ chunks = EventsOf(body)
      ELSE result = "malformed_stream"

\* A call makes two requests at most, the second without stream_options and
\* never for an answer that comes whole; what it returns is what the last
\* response says, and no body but that of a success is parsed
\* (send_with_stream_options_retry before validate_response).
LastResponseDecides ==
  /\ Len(requests) <= 2
  /\ Len(requests) = 2 => requests = <<TRUE, FALSE>> /\ retry /\ streamed
  /\ body # <<>> \/ result \in {"ok", "malformed_stream"} => status = "success"
  /\ result = "malformed_stream" => streamed
  /\ pc = "done" => (result = "upstream_authentication_failed" <=> status = "auth")

\* The loop over the buffer ends: each round takes a delimiter at least
\* (drain_sse_buffer, mod.rs:212-217).
DrainingEnds == pc = "draining" ~> pc # "draining"
=============================================================================
