----------------------------- MODULE TurnDriver ------------------------------
(***************************************************************************)
(* The TurnDriver of src/src/driver/turn_driver.rs, run by the handler of  *)
(* src/src/responses/handlers.rs: many turns at once over one store.       *)
(*                                                                         *)
(* A turn looks up the session it continues, names itself with fresh ids,  *)
(* asks the seed resolver and the upstream, emits the events of the answer *)
(* one by one, and ends with one write to the store: commit_completed or   *)
(* commit_terminal.  Between two of its awaits every other turn may move.  *)
(* A turn that does not stream runs inside the handler and is dropped with *)
(* it when the client goes away; one that streams is a task of its own.    *)
(*                                                                         *)
(* Store calls are the atomic operations of StoreMaps (MemoryStore.tla     *)
(* shows that the locked store implements them).  Items are tokens: which  *)
(* turn they come from and what part of it they are.                       *)
(***************************************************************************)
EXTENDS StoreMaps, Naturals, Sequences

CONSTANTS
  Turns,            \* the requests that are made, one turn each
  ResponseIds,      \* response ids
  TurnIds,          \* turn ids
  NewResponseId,    \* NewResponseId[t]: the ids ResponseId::new may draw for turn t
  NewTurnId,        \* NewTurnId[t]: the ids TurnId::new may draw for turn t
  NoId,             \* the None of an Option<ResponseId>
  MaxOutputEvents   \* bound: events that carry one answer's output

ASSUME IdsAssumption ==
  /\ NewResponseId \in [Turns -> SUBSET ResponseIds]
  /\ NewTurnId \in [Turns -> SUBSET TurnIds]
  /\ NoId \notin ResponseIds

ASSUME BoundAssumption == MaxOutputEvents \in Nat \ {0}

VARIABLES
  pc,               \* pc[t]: the await turn t is at
  task,             \* task[t]: the local variables of drive
  sequence_number,  \* sequence_number[t]: the number of the next event
  events,           \* events[t]: the events emitted to the sink of turn t
  notified          \* the response ids the node sink was told of, in order

taskVars == <<pc, task>>
eventVars == <<sequence_number, events>>
vars == <<maps, taskVars, eventVars, notified>>

-----------------------------------------------------------------------------
(* Data                                                                      *)

\* The items of turn t, by where they come from.
RequestItems(t) == << <<t, "request">> >>
SeedItems(t) == << <<t, "seed">> >>
OutputItems(t) == << <<t, "output">> >>

NoSession == [response_id |-> NoId]

\* Mutant of RecordedOutput: a failed turn keeps what it had.
PartialOutput(t) == task[t].output

\* What a turn's record shows of its output: a failed turn discards it.
RecordedOutput(t) == IF task[t].outcome = "Failed" THEN <<>> ELSE task[t].output

TurnRecord(t) ==
  [turn_id |-> task[t].turn_id,
   response_id |-> task[t].response_id,
   parent_response_id |-> task[t].parent.response_id,
   outcome |-> task[t].outcome,
   request_items |-> RequestItems(t),
   output_items |-> RecordedOutput(t),
   error_code |-> task[t].code]

Status(outcome) ==
  CASE outcome = "Completed"  -> "completed"
    [] outcome = "Incomplete" -> "incomplete"
    [] outcome = "Failed"     -> "failed"

\* The response object of a record: what the handler answers and GET returns.
ResponseJson(record) ==
  [id |-> record.response_id,
   status |-> Status(record.outcome),
   output |-> record.output_items,
   code |-> record.error_code]

\* A root session gets a tenant of its own and version 1; a child has its
\* parent's tenant and the next version.
NextTenant(t) ==
  IF task[t].parent = NoSession THEN t ELSE task[t].parent.tenant_id

\* Mutant of NextVersion: a child has its parent's version.
SameVersion(t) ==
  IF task[t].parent = NoSession THEN 1 ELSE task[t].parent.version

\* Mutant of NextVersion: versions count from zero.
VersionFromZero(t) ==
  IF task[t].parent = NoSession THEN 0 ELSE task[t].parent.version + 1

NextVersion(t) ==
  IF task[t].parent = NoSession THEN 1 ELSE task[t].parent.version + 1

Session(t) ==
  [response_id |-> task[t].response_id,
   parent_response_id |-> task[t].parent.response_id,
   tenant_id |-> NextTenant(t),
   version |-> NextVersion(t),
   committed_items |-> task[t].transcript \o task[t].output,
   final_response_json |-> ResponseJson(TurnRecord(t))]

\* What the parent hands on; nothing without a parent.
ParentItems(t) ==
  IF task[t].parent = NoSession THEN <<>> ELSE task[t].parent.committed_items

-----------------------------------------------------------------------------
(* Events                                                                    *)

Event(type, t, output, code) ==
  [type |-> type, response_id |-> task[t].response_id, output |-> output, code |-> code]

CreatedEvent(t) == Event("created", t, <<>>, "none")
OutputEvent(t) == Event("output", t, task[t].output, "none")
IncompleteEvent(t) == Event("incomplete", t, task[t].output, task[t].code)
CompletedEvent(t) == Event("completed", t, task[t].output, "none")
FailedEvent(t) == Event("failed", t, <<>>, task[t].code)

WithSequenceNumber(event, n) ==
  [type |-> event.type, response_id |-> event.response_id, output |-> event.output,
   code |-> event.code, sequence_number |-> n]

\* emit_sequenced
Emit(t, event) ==
  /\ events' = [events EXCEPT ![t] = Append(@, WithSequenceNumber(event, sequence_number[t]))]
  /\ sequence_number' = [sequence_number EXCEPT ![t] = @ + 1]

-----------------------------------------------------------------------------
(* Control                                                                   *)

Go(t, from, to) ==
  /\ pc[t] = from
  /\ pc' = [pc EXCEPT ![t] = to]

\* A step that emits nothing.
Silent == UNCHANGED eventVars

\* Where a turn goes with an outcome that is no commit: a stream is told
\* first, then the record is put.
ToldFirst(t) == IF task[t].stream THEN "fail" ELSE "put"

\* The turn has failed: nothing of the upstream's answer is kept.
Fail(t, from, code) ==
  /\ Go(t, from, ToldFirst(t))
  /\ task' = [task EXCEPT ![t].outcome = "Failed", ![t].code = code]

-----------------------------------------------------------------------------
(* The handler: create_response                                              *)

\* The errors of a request that names no session, or one that is there.
RequestErrors == {"unsupported_input_item", "unsupported_tool", "unknown_model"}

\* ProxyError::status_code
StatusCode(code) ==
  CASE code \in RequestErrors -> 400
    [] code = "previous_response_not_found" -> 404
    [] code \in {"upstream_authentication_failed", "upstream_error", "malformed_stream"} -> 502
    [] OTHER -> 500

\* The status of the answer to a turn that is refused or done.  Errors of a
\* turn that has begun are in the response; a stream has its status before
\* there are any, and only a record that the store refuses is an error of the
\* handler.
HttpStatus(t) ==
  CASE pc[t] = "refused" -> StatusCode(task[t].code)
    [] pc[t] = "done" /\ task[t].result = "err" /\ ~ task[t].stream ->
         StatusCode("internal_error")
    [] OTHER -> 200

\* The client posts a request, which may name an id it has heard of or not;
\* one that cannot be normalised, or asks for a model that the handler does
\* not know, is refused and leaves no trace.
Post(t) ==
  /\ \/ \E stream \in BOOLEAN, previous \in ResponseIds \cup {NoId} :
          /\ Go(t, "idle", IF previous = NoId THEN "start" ELSE "lookup")
          /\ task' = [task EXCEPT ![t].stream = stream, ![t].previous = previous]
     \/ \E code \in RequestErrors :
          /\ Go(t, "idle", "refused")
          /\ task' = [task EXCEPT ![t].code = code]
  /\ Silent
  /\ UNCHANGED <<maps, notified>>

\* The session of previous_response_id is cloned; without it the request is
\* refused too.
Lookup(t) == LET previous == task[t].previous IN
  /\ \/ /\ previous \in DOMAIN sessions
        /\ Go(t, "lookup", "start")
        /\ task' = [task EXCEPT ![t].parent = sessions[previous]]
     \/ /\ previous \notin DOMAIN sessions
        /\ Go(t, "lookup", "refused")
        /\ task' = [task EXCEPT ![t].code = "previous_response_not_found"]
  /\ Silent
  /\ UNCHANGED <<maps, notified>>

-----------------------------------------------------------------------------
(* drive                                                                     *)

\* Fresh ids, and the model's configuration.  The driver has its own check of
\* the model: it answers for callers that have none (tests/turn_driver.rs:227).
Start(t) ==
  \E response_id \in NewResponseId[t], turn_id \in NewTurnId[t], known \in BOOLEAN :
    /\ IF known
         THEN /\ Go(t, "start", IF task[t].stream THEN "created" ELSE "seed")
              /\ task' = [task EXCEPT ![t].response_id = response_id, ![t].turn_id = turn_id]
         ELSE /\ Go(t, "start", ToldFirst(t))
              /\ task' = [task EXCEPT ![t].response_id = response_id, ![t].turn_id = turn_id,
                                      ![t].outcome = "Failed", ![t].code = "unknown_model"]
    /\ Silent
    /\ UNCHANGED <<maps, notified>>

EmitCreated(t) ==
  /\ Go(t, "created", "seed")
  /\ Emit(t, CreatedEvent(t))
  /\ UNCHANGED <<maps, task, notified>>

\* Mutant of Compile: the conversation so far is not carried over.
CompileAlone(t) ==
  /\ \/ \E seed \in {<<>>, SeedItems(t)} :
          /\ Go(t, "seed", "upstream")
          /\ task' = [task EXCEPT ![t].transcript = seed \o RequestItems(t)]
     \/ \E code \in {"seed_error", "unsupported_tool"} : Fail(t, "seed", code)
  /\ Silent
  /\ UNCHANGED <<maps, notified>>

\* The seed resolver answers, and the request to the upstream is compiled
\* from the parent's items, the seed and the request's own items; either
\* may fail.
Compile(t) ==
  /\ \/ \E seed \in {<<>>, SeedItems(t)} :
          /\ Go(t, "seed", "upstream")
          /\ task' = [task EXCEPT ![t].transcript = ParentItems(t) \o seed \o RequestItems(t)]
     \/ \E code \in {"seed_error", "unsupported_tool"} : Fail(t, "seed", code)
  /\ Silent
  /\ UNCHANGED <<maps, notified>>

\* Where a translated answer goes once its output events are emitted: an
\* incomplete_event is the last of translation.events.
Conclude(t, outcome) ==
  CASE outcome = "Completed"  -> "commit"
    [] outcome = "Incomplete" -> IF task[t].stream THEN "incomplete" ELSE "put"
    [] outcome = "Failed"     -> ToldFirst(t)

\* The code of an outcome: the reason of an incomplete answer is its code; a
\* stream that fails has the code stream_failed, an answer that fails its
\* reason.
TerminalCode(t, outcome) ==
  CASE outcome = "Completed"  -> "none"
    [] outcome = "Incomplete" -> "max_output_tokens"
    [] outcome = "Failed"     -> IF task[t].stream THEN "stream_failed" ELSE "unsupported_finish_reason"

\* The upstream answers and the answer is translated: an outcome, the output
\* items, and in a stream the events that carry them.
Answered(t) ==
  \E outcome \in {"Completed", "Incomplete", "Failed"}, output \in {<<>>, OutputItems(t)} :
  \E unsent \in IF task[t].stream /\ output # <<>> THEN 1..MaxOutputEvents ELSE {0} :
    /\ Go(t, "upstream", IF unsent > 0 THEN "emitting" ELSE Conclude(t, outcome))
    /\ task' = [task EXCEPT ![t].outcome = outcome, ![t].code = TerminalCode(t, outcome),
                            ![t].output = output, ![t].unsent = unsent]
    /\ Silent
    /\ UNCHANGED <<maps, notified>>

\* The errors of a call to the upstream and of the translation of its answer.
UpstreamErrors ==
  {"config_error", "upstream_authentication_failed", "upstream_error", "malformed_stream"}

\* The upstream fails, or its answer cannot be translated.
NotAnswered(t) ==
  /\ \E code \in UpstreamErrors : Fail(t, "upstream", code)
  /\ Silent
  /\ UNCHANGED <<maps, notified>>

EmitOutput(t) ==
  /\ Go(t, "emitting", IF task[t].unsent > 1 THEN "emitting" ELSE Conclude(t, task[t].outcome))
  /\ task' = [task EXCEPT ![t].unsent = @ - 1]
  /\ Emit(t, OutputEvent(t))
  /\ UNCHANGED <<maps, notified>>

\* Mutant of EmitIncomplete: the stream is told of a failure after it.
EmitIncompleteThenFail(t) ==
  /\ Go(t, "incomplete", "fail")
  /\ Emit(t, IncompleteEvent(t))
  /\ UNCHANGED <<maps, task, notified>>

EmitIncomplete(t) ==
  /\ Go(t, "incomplete", "put")
  /\ Emit(t, IncompleteEvent(t))
  /\ UNCHANGED <<maps, task, notified>>

EmitFailed(t) ==
  /\ Go(t, "fail", "put")
  /\ Emit(t, FailedEvent(t))
  /\ UNCHANGED <<maps, task, notified>>

\* Mutant of Commit: the refusal of the store is not looked at.
CommitUnchecked(t) ==
  /\ Go(t, "commit", "sink")
  /\ \/ CommitCompleted(Session(t), TurnRecord(t))
     \/ ~ AcceptsCompleted(Session(t), TurnRecord(t)) /\ UNCHANGED maps
  /\ Silent
  /\ UNCHANGED <<task, notified>>

\* Mutant of Commit: a refused commit is tried again.
CommitRetried(t) ==
  /\ \/ /\ Go(t, "commit", "sink")
        /\ CommitCompleted(Session(t), TurnRecord(t))
     \/ /\ Go(t, "commit", "commit")
        /\ ~ AcceptsCompleted(Session(t), TurnRecord(t))
        /\ UNCHANGED maps
  /\ Silent
  /\ UNCHANGED <<task, notified>>

\* commit_completed: the store takes the session and the record together; a
\* refusal makes the turn a failed one.
Commit(t) ==
  /\ \/ /\ Go(t, "commit", "sink")
        /\ CommitCompleted(Session(t), TurnRecord(t))
        /\ UNCHANGED task
     \/ /\ Fail(t, "commit", "internal_error")
        /\ ~ AcceptsCompleted(Session(t), TurnRecord(t))
        /\ UNCHANGED maps
  /\ Silent
  /\ UNCHANGED notified

\* Mutant of NotifySink: the node sink is not told of streams.
NotifySinkOfAnswers(t) ==
  /\ pc[t] = "sink"
  /\ pc' = [pc EXCEPT ![t] = IF task[t].stream THEN "completed" ELSE "done"]
  /\ task' = [task EXCEPT ![t].result = IF task[t].stream THEN @ ELSE "ok"]
  /\ notified' = IF task[t].stream THEN notified ELSE Append(notified, task[t].response_id)
  /\ Silent
  /\ UNCHANGED maps

\* Mutant of NotifySink: a node sink that fails makes the turn fail.
NotifySinkOrFail(t) ==
  /\ \/ Go(t, "sink", IF task[t].stream THEN "completed" ELSE "done") /\ UNCHANGED task
     \/ Fail(t, "sink", "internal_error")
  /\ notified' = Append(notified, task[t].response_id)
  /\ Silent
  /\ UNCHANGED maps

\* The node sink is told after the commit; that it fails is only logged.
NotifySink(t) ==
  /\ pc[t] = "sink"
  /\ pc' = [pc EXCEPT ![t] = IF task[t].stream THEN "completed" ELSE "done"]
  /\ task' = [task EXCEPT ![t].result = IF task[t].stream THEN @ ELSE "ok"]
  /\ notified' = Append(notified, task[t].response_id)
  /\ Silent
  /\ UNCHANGED maps

EmitCompleted(t) ==
  /\ Go(t, "completed", "done")
  /\ task' = [task EXCEPT ![t].result = "ok"]
  /\ Emit(t, CompletedEvent(t))
  /\ UNCHANGED <<maps, notified>>

\* put_terminal_record: the last resort of every turn that did not complete;
\* if the store refuses it the turn ends with an error and no record.
PutTerminal(t) ==
  /\ Go(t, "put", "done")
  /\ \/ /\ CommitTerminal(task[t].response_id, ResponseJson(TurnRecord(t)), TurnRecord(t))
        /\ task' = [task EXCEPT ![t].result = "ok"]
     \/ /\ ~ AcceptsTerminal(task[t].response_id, TurnRecord(t))
        /\ task' = [task EXCEPT ![t].result = "err"]
        /\ UNCHANGED maps
  /\ Silent
  /\ UNCHANGED notified

\* The client of a turn is gone: the handler's future is dropped at its
\* await.  A stream's task runs on; only its lookup is in the handler.
Drop(t) ==
  /\ pc[t] \in {"lookup"} \cup
       (IF task[t].stream THEN {} ELSE {"seed", "upstream", "commit", "sink", "put"})
  /\ pc' = [pc EXCEPT ![t] = "dropped"]
  /\ Silent
  /\ UNCHANGED <<maps, task, notified>>

-----------------------------------------------------------------------------

NoTask ==
  [stream |-> FALSE, previous |-> NoId, parent |-> NoSession,
   response_id |-> NoId, turn_id |-> NoId, transcript |-> <<>>, output |-> <<>>,
   outcome |-> "none", code |-> "none", unsent |-> 0, result |-> "none"]

Init ==
  /\ MapsInit
  /\ pc = [t \in Turns |-> "idle"]
  /\ task = [t \in Turns |-> NoTask]
  /\ sequence_number = [t \in Turns |-> 0]
  /\ events = [t \in Turns |-> <<>>]
  /\ notified = <<>>

\* The steps of a turn that depend on nothing but the service and its store.
OwnStep(t) ==
  \/ Lookup(t)
  \/ Start(t)
  \/ Commit(t)
  \/ PutTerminal(t)

\* The steps that await the event sink, which may wait for the client.
EmitStep(t) ==
  \/ EmitCreated(t)
  \/ EmitOutput(t)
  \/ EmitIncomplete(t)
  \/ EmitFailed(t)
  \/ EmitCompleted(t)

\* The steps that await the seed resolver and the node sink.
SubstrateStep(t) ==
  \/ Compile(t)
  \/ NotifySink(t)

Step(t) ==
  \/ Post(t)
  \/ OwnStep(t)
  \/ EmitStep(t)
  \/ SubstrateStep(t)
  \/ Answered(t)
  \/ NotAnswered(t)
  \/ Drop(t)

\* Every request has been made and has ended: the service may rest.
Final == {"done", "dropped", "refused"}
Rest == (\A t \in Turns : pc[t] \in Final) /\ UNCHANGED vars

Next == (\E t \in Turns : Step(t)) \/ Rest

\* A woken task is polled, and the store's calls return (MemoryStore).  That
\* the upstream, the event sink, the seed resolver or the node sink ever do is
\* not assumed: the code waits for each of them without a timeout.
Spec == Init /\ [][Next]_vars /\ \A t \in Turns : WF_vars(OwnStep(t))

-----------------------------------------------------------------------------
(* Types                                                                     *)

Items == Turns \X {"request", "seed", "output"}
Outcomes == {"Completed", "Incomplete", "Failed"}
Codes == {"none", "unsupported_input_item", "previous_response_not_found",
          "unknown_model", "seed_error", "unsupported_tool", "max_output_tokens",
          "stream_failed", "unsupported_finish_reason", "internal_error"} \cup UpstreamErrors

Jsons ==
  [id : ResponseIds, status : {"completed", "incomplete", "failed"},
   output : Seq(Items), code : Codes]

Sessions ==
  [response_id : ResponseIds, parent_response_id : ResponseIds \cup {NoId},
   tenant_id : Turns, version : Nat \ {0}, committed_items : Seq(Items),
   final_response_json : Jsons]

Records ==
  [turn_id : TurnIds, response_id : ResponseIds,
   parent_response_id : ResponseIds \cup {NoId}, outcome : Outcomes,
   request_items : Seq(Items), output_items : Seq(Items), error_code : Codes]

Events ==
  [type : {"created", "output", "incomplete", "completed", "failed"},
   response_id : ResponseIds, output : Seq(Items), code : Codes, sequence_number : Nat]

Tasks ==
  [stream : BOOLEAN, previous : ResponseIds \cup {NoId},
   parent : Sessions \cup {NoSession},
   response_id : ResponseIds \cup {NoId}, turn_id : TurnIds \cup {NoId},
   transcript : Seq(Items), output : Seq(Items), outcome : Outcomes \cup {"none"},
   code : Codes, unsent : Nat, result : {"none", "ok", "err"}]

Labels ==
  {"idle", "lookup", "refused", "start", "created", "seed", "upstream", "emitting",
   "incomplete", "fail", "commit", "sink", "completed", "put", "done", "dropped"}

\* Every variable holds values of its kind.
TypeOK ==
  /\ DOMAIN sessions \subseteq ResponseIds /\ \A r \in DOMAIN sessions : sessions[r] \in Sessions
  /\ DOMAIN responses \subseteq ResponseIds /\ \A r \in DOMAIN responses : responses[r] \in Jsons
  /\ DOMAIN turns \subseteq TurnIds /\ \A u \in DOMAIN turns : turns[u] \in Records
  /\ pc \in [Turns -> Labels]
  /\ task \in [Turns -> Tasks]
  /\ sequence_number \in [Turns -> Nat]
  /\ events \in [Turns -> Seq(Events)]
  /\ notified \in Seq(ResponseIds)

-----------------------------------------------------------------------------
(* Properties                                                                *)

\* A client that reads response.completed can rely on it: the session to
\* continue from and the response to fetch are in the store, with the output
\* the event shows (drive emits the event after commit_completed returned,
\* turn_driver.rs:204-233).
CompletedEventIsStored ==
  \A t \in Turns : \A i \in DOMAIN events[t] : LET e == events[t][i] IN
    e.type = "completed" =>
      /\ e.response_id \in DOMAIN sessions
      /\ e.response_id \in DOMAIN responses
      /\ responses[e.response_id] =
           [id |-> e.response_id, status |-> "completed", output |-> e.output, code |-> "none"]

\* The types of the event that ends a stream.
TerminalTypes == {"incomplete", "completed", "failed"}

\* The events of a turn number themselves without a gap, begin with
\* response.created unless the model is unknown, and end with one terminal
\* event, which every stream that is done has (turn_driver.rs:53-332).
EventsAreAStream ==
  \A t \in Turns : LET log == events[t] IN
    /\ \A i \in DOMAIN log :
         /\ log[i].sequence_number = i - 1
         /\ log[i].response_id = task[t].response_id
         /\ log[i].type = "created" => i = 1
         /\ i = 1 => log[i].type = "created" \/ log[i].code = "unknown_model"
         /\ log[i].type \in TerminalTypes => i = Len(log)
    /\ task[t].stream /\ pc[t] = "done" =>
         log # <<>> /\ log[Len(log)].type \in TerminalTypes
    /\ ~ task[t].stream => log = <<>>

\* What a turn was told is what the store keeps of it: a turn that ended
\* well has its record and its response in the store, under its ids, and the
\* last event of a stream shows the status, the output and the code that GET
\* shows (the pairs of emit_sequenced and put_terminal_record in drive).
ToldIsStored ==
  \A t \in Turns : task[t].result = "ok" =>
    /\ task[t].turn_id \in DOMAIN turns
    /\ turns[task[t].turn_id] = TurnRecord(t)
    /\ task[t].response_id \in DOMAIN responses
    /\ responses[task[t].response_id] = ResponseJson(TurnRecord(t))
    /\ task[t].stream => LET e == events[t][Len(events[t])] IN
         responses[task[t].response_id] =
           [id |-> e.response_id, status |-> e.type, output |-> e.output, code |-> e.code]

\* The node sink hears of a session once, after it is in the store, and of
\* every session whose turn has not been dropped before it was told.  It may
\* hear of a child before it hears of the parent, whose turn is still about to
\* tell it; but then the parent is in the store already
\* (TurnDriver::commit_completed, turn_driver.rs:514-519).
SinkHearsOfCommits ==
  /\ \A i, j \in DOMAIN notified : notified[i] = notified[j] => i = j
  /\ \A i \in DOMAIN notified :
       /\ notified[i] \in DOMAIN sessions
       /\ sessions[notified[i]].parent_response_id \in DOMAIN sessions \cup {NoId}
  /\ \A t \in Turns :
       /\ pc[t] \in {"completed", "done"}
       /\ task[t].outcome = "Completed"
       => \E i \in DOMAIN notified : notified[i] = task[t].response_id

RecordsOf(t) == {u \in DOMAIN turns : turns[u].request_items = RequestItems(t)}
SessionsWith(t) ==
  {r \in DOMAIN sessions : \E i \in DOMAIN sessions[r].committed_items :
     sessions[r].committed_items[i] = <<t, "request">>}

\* The status that a client is answered with says what the service keeps: an
\* error of the client's or of the service's leaves no record of the turn and
\* nothing of it in any session, an answer has one record, and a turn never
\* has two, whatever was refused, told or tried before (create_response,
\* handlers.rs:93-121, and the question marks behind drive and
\* put_terminal_record, turn_driver.rs:554).
ErrorsLeaveNoTrace ==
  \A t \in Turns :
    /\ \A u, v \in RecordsOf(t) : u = v
    /\ pc[t] \in {"refused", "done"} =>
         /\ HttpStatus(t) \in 400..499 <=> pc[t] = "refused"
         /\ HttpStatus(t) >= 400 => RecordsOf(t) = {} /\ SessionsWith(t) = {}
         /\ HttpStatus(t) = 200 /\ task[t].result = "ok" =>
              /\ RecordsOf(t) = {task[t].turn_id}
              /\ SessionsWith(t) # {} => task[t].outcome = "Completed"

\* Turns whose ids nobody else draws are never refused by the store: the
\* commit of a completed answer succeeds, and no turn ends without a record.
IdsAreFresh ==
  \A t, u \in Turns : t # u =>
    /\ NewResponseId[t] \cap NewResponseId[u] = {}
    /\ NewTurnId[t] \cap NewTurnId[u] = {}

FreshTurnsAreRecorded ==
  IdsAreFresh => \A t \in Turns :
    task[t].result # "err" /\ task[t].code # "internal_error"

\* Whatever the other turns do, and whichever ids they draw, what one turn
\* stored is never replaced or removed; so the clone of a parent that a turn
\* took at its lookup cannot go stale (the checks of session/mod.rs:55-64 and
\* :94-101 behind every write of drive).
StoredStays ==
  [][Keeps(sessions, sessions') /\ Keeps(responses, responses') /\ Keeps(turns, turns')]_maps

\* The seed resolver, the node sink and the event sink of turn t return.
OthersReturn(t) == WF_vars(SubstrateStep(t)) /\ WF_vars(EmitStep(t))

\* A turn whose own event sink, seed resolver and node sink return ends, or
\* waits for an upstream that does not answer: no store refusal or failure
\* holds it up, nor another turn that stands still at whichever await, for its
\* client or for anybody else (drive awaits nothing but these and the store).
NeverStuck ==
  \A t \in Turns :
    OthersReturn(t) => (pc[t] # "idle" ~> pc[t] \in Final \cup {"upstream"})

-----------------------------------------------------------------------------
(* The refinement: the sessions are the nodes of the conversation trees, the *)
(* other responses have ended.                                               *)

\* What a turn may add to its parent's items.
AdditionsOf(t) == UNION
  {{seed \o RequestItems(t) \o output : output \in {<<>>, OutputItems(t)}} :
     seed \in {<<>>, SeedItems(t)}}

TurnAdditions == UNION {AdditionsOf(t) : t \in Turns}

SessionNode(session) ==
  [parent |-> session.parent_response_id, tenant |-> session.tenant_id,
   version |-> session.version, items |-> session.committed_items]

TreeNodes == [r \in DOMAIN sessions |-> SessionNode(sessions[r])]
TreeEnded == DOMAIN responses \ DOMAIN sessions

Tree == INSTANCE Conversation WITH
  Ids <- ResponseIds,
  Tenants <- Turns,
  Items <- Items,
  Additions <- TurnAdditions,
  nodes <- TreeNodes,
  ended <- TreeEnded

\* Every step of the turns, whatever they were doing meanwhile, is a step of
\* the conversation trees or none: a turn that looked its parent up long ago
\* still adds a child to a parent that is as it was.
GrowsConversations == Tree!Spec
=============================================================================
