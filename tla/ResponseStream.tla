--------------------------- MODULE ResponseStream ----------------------------
(***************************************************************************)
(* What a streaming client sees: stream_response of                        *)
(* src/src/responses/handlers.rs and the ChannelEventSink of               *)
(* src/src/responses/events.rs, around the turns of TurnDriver.            *)
(*                                                                         *)
(* The events of a turn go through a bounded channel to the client.  A     *)
(* full channel holds the turn up at its next event; a client that goes    *)
(* away drops the receiver, and what is sent from then on is lost while    *)
(* the turn runs on.  When drive returns an error the task sends one more  *)
(* event, named and numbered after the last one that the sink saw.         *)
(***************************************************************************)
EXTENDS TurnDriver, Integers

CONSTANT Capacity   \* places in a channel: 64 in stream_response

ASSUME CapacityAssumption == Capacity \in Nat \ {0}

VARIABLES
  event_state,      \* event_state[t]: the ChannelEventState of turn t's sink
  channel,          \* channel[t]: the events that were sent and not yet read
  open,             \* open[t]: the client is there, and so is the receiver
  ended,            \* ended[t]: the task has ended, and dropped the sender
  received          \* received[t]: the events the client has read

clientVars == <<event_state, channel, open, ended, received>>
streamVars == <<vars, clientVars>>

NoEvent == [last_sequence_number |-> -1, response_id |-> NoId]

\* The task of a stream exists from the end of create_response.
Spawned(t) == task[t].stream /\ pc[t] \notin {"idle", "lookup", "refused", "dropped"}

\* Mutant of Send: one event more than there are places.
SendBeyond(t, event) ==
  \/ /\ open[t]
     /\ Len(channel[t]) <= Capacity
     /\ channel' = [channel EXCEPT ![t] = Append(@, event)]
  \/ /\ ~ open[t]
     /\ UNCHANGED channel

\* Sender::send waits for a place; without a receiver the event is lost.
Send(t, event) ==
  \/ /\ open[t]
     /\ Len(channel[t]) < Capacity
     /\ channel' = [channel EXCEPT ![t] = Append(@, event)]
  \/ /\ ~ open[t]
     /\ UNCHANGED channel

\* Mutant of Saw: the number of the first event is kept.
SawFirst(t, event) ==
  event_state' = [event_state EXCEPT ![t] =
    [last_sequence_number |-> IF @ = NoEvent THEN event.sequence_number ELSE @.last_sequence_number,
     response_id |-> event.response_id]]

\* update_channel_state
Saw(t, event) ==
  event_state' = [event_state EXCEPT ![t] =
    [last_sequence_number |-> event.sequence_number, response_id |-> event.response_id]]

\* A step of a turn, and what its sink does with the event if it emits one.  The
\* state is noted before the event waits for a place; nobody looks at it until
\* drive has returned, so that the two are one step.
Sunk(t) ==
  /\ IF events'[t] = events[t]
       THEN UNCHANGED <<event_state, channel>>
       ELSE LET event == events'[t][Len(events'[t])] IN Saw(t, event) /\ Send(t, event)
  /\ UNCHANGED <<open, ended, received>>

Drive(t) == Step(t) /\ Sunk(t)

\* The event of the task when drive has returned an error: put_terminal_record
\* has been refused, whose error is an internal one.
Fallback(t, response_id) ==
  [type |-> "failed", response_id |-> response_id, output |-> <<>>, code |-> "internal_error",
   sequence_number |-> event_state[t].last_sequence_number + 1]

\* Mutant of EndTask: an error of drive is not reported.
EndTaskQuietly(t) ==
  /\ task[t].stream /\ pc[t] = "done" /\ ~ ended[t]
  /\ ended' = [ended EXCEPT ![t] = TRUE]
  /\ UNCHANGED <<vars, channel, event_state, open, received>>

\* Mutant of EndTask: after an error the task keeps its sender.
EndTaskIfOk(t) ==
  /\ task[t].stream /\ pc[t] = "done" /\ ~ ended[t]
  /\ ended' = [ended EXCEPT ![t] = task[t].result = "ok"]
  /\ UNCHANGED <<vars, channel, event_state, open, received>>

\* Mutant of EndTask: an error is reported again until it arrives.
EndTaskHeard(t) ==
  /\ task[t].stream /\ pc[t] = "done" /\ ~ ended[t]
  /\ ended' = [ended EXCEPT ![t] = task[t].result = "ok" \/ open[t]]
  /\ \/ task[t].result = "ok" /\ UNCHANGED channel
     \/ /\ task[t].result = "err"
        /\ Send(t, Fallback(t, event_state[t].response_id))
  /\ UNCHANGED <<vars, event_state, open, received>>

\* drive has returned: an error is reported to the client, the sender dropped.
EndTask(t) ==
  /\ task[t].stream /\ pc[t] = "done" /\ ~ ended[t]
  /\ ended' = [ended EXCEPT ![t] = TRUE]
  /\ \/ task[t].result = "ok" /\ UNCHANGED channel
     \/ /\ task[t].result = "err"
        /\ \E response_id \in
             IF event_state[t].response_id = NoId THEN NewResponseId[t]
                                                  ELSE {event_state[t].response_id} :
             Send(t, Fallback(t, response_id))
  /\ UNCHANGED <<vars, event_state, open, received>>

\* The client reads an event.
Receive(t) ==
  /\ open[t] /\ channel[t] # <<>>
  /\ received' = [received EXCEPT ![t] = Append(@, Head(channel[t]))]
  /\ channel' = [channel EXCEPT ![t] = Tail(@)]
  /\ UNCHANGED <<vars, event_state, open, ended>>

\* The client goes away: the response body is dropped, with the receiver and
\* what it holds.
GoAway(t) ==
  /\ Spawned(t) /\ open[t]
  /\ open' = [open EXCEPT ![t] = FALSE]
  /\ channel' = [channel EXCEPT ![t] = <<>>]
  /\ UNCHANGED <<vars, event_state, ended, received>>

StreamInit ==
  /\ Init
  /\ event_state = [t \in Turns |-> NoEvent]
  /\ channel = [t \in Turns |-> <<>>]
  /\ open = [t \in Turns |-> TRUE]
  /\ ended = [t \in Turns |-> FALSE]
  /\ received = [t \in Turns |-> <<>>]

\* Every request has ended and every client has read what there is.
StreamRest ==
  /\ \A t \in Turns :
       /\ pc[t] \in Final /\ channel[t] = <<>>
       /\ task[t].stream /\ pc[t] = "done" => ended[t]
  /\ UNCHANGED streamVars

StreamNext ==
  \/ \E t \in Turns : Drive(t) \/ EndTask(t) \/ Receive(t) \/ GoAway(t)
  \/ StreamRest

\* A task that can go on is polled; one that emits can when there is a place in
\* its channel or no receiver.  Nothing is assumed of the clients, of the
\* upstream, of the seed resolver and of the node sink.
StreamSpec ==
  /\ StreamInit
  /\ [][StreamNext]_streamVars
  /\ \A t \in Turns :
       /\ WF_streamVars((OwnStep(t) \/ EmitStep(t)) /\ Sunk(t))
       /\ WF_streamVars(EndTask(t))

-----------------------------------------------------------------------------
(* Properties                                                                *)

States == [last_sequence_number : Nat \cup {-1}, response_id : ResponseIds \cup {NoId}]

\* Every variable holds values of its kind, and no channel is overfull.
StreamTypeOK ==
  /\ event_state \in [Turns -> States]
  /\ channel \in [Turns -> Seq(Events)]
  /\ \A t \in Turns : Len(channel[t]) <= Capacity
  /\ open \in [Turns -> BOOLEAN]
  /\ ended \in [Turns -> BOOLEAN]
  /\ received \in [Turns -> Seq(Events)]

\* What a client has read and will read is one stream: numbered from 0
\* without a gap or a repetition, under one response id, the event after an
\* error of drive included, whose number and id do not come from drive
\* (handlers.rs:131-149).
OneNumberedStream ==
  \A t \in Turns : LET log == received[t] \o channel[t] IN
    \A i \in DOMAIN log :
      log[i].sequence_number = i - 1 /\ log[i].response_id = task[t].response_id

\* The client has read to the end of its stream.
AtEnd(t) == task[t].stream /\ open[t] /\ ended[t] /\ channel[t] = <<>>

\* A client that reads to the end learns how its turn ended: the last event
\* shows what GET shows from then on; or, if no record of the turn could be
\* stored, it is a second terminal event that says so
\* (handlers.rs:131-149 after put_terminal_record).
EndOfStreamIsTrue ==
  \A t \in Turns : AtEnd(t) =>
    LET log == received[t]
        last == log[Len(log)]
        terminal == {i \in DOMAIN log : log[i].type \in TerminalTypes}
    IN \/ /\ task[t].result = "ok"
          /\ terminal = {Len(log)}
          /\ last.response_id \in DOMAIN responses
          /\ responses[last.response_id] =
               [id |-> last.response_id, status |-> last.type,
                output |-> last.output, code |-> last.code]
       \/ /\ task[t].result = "err"
          /\ terminal = {Len(log) - 1, Len(log)}
          /\ last.type = "failed" /\ last.code = "internal_error"

\* The seed resolver and the node sink of turn t return.
SubstrateReturns(t) == WF_streamVars(SubstrateStep(t) /\ Sunk(t))

\* A client that goes away does not hold its turn up, wherever the turn is:
\* if its seed resolver and its node sink return it ends and is recorded, or
\* waits for the upstream, whatever other clients do (Sender::send returns an
\* error which ChannelEventSink::emit ignores).
AbandonedTurnsEnd ==
  \A t \in Turns :
    SubstrateReturns(t) =>
      (Spawned(t) /\ ~ open[t] ~> (task[t].stream /\ ended[t]) \/ pc[t] = "upstream")

\* A client that goes on reading comes to the end of its stream, unless it
\* goes away or the upstream never answers: a channel of any size suffices.
ReadersReachTheEnd ==
  \A t \in Turns :
    SubstrateReturns(t) /\ WF_streamVars(Receive(t)) =>
      (Spawned(t) ~> AtEnd(t) \/ ~ open[t] \/ pc[t] = "upstream")
=============================================================================
