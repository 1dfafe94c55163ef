------------------------ MODULE ResponseStreamProofs -------------------------
(***************************************************************************)
(* Theorems about what the clients of streams see, for any turns, ids,     *)
(* bound and capacity.  The channels and the clients only hold turns up:   *)
(* what was shown of the turns holds here too, and the invariant below     *)
(* says how a client's stream follows from its turn's events.              *)
(***************************************************************************)
EXTENDS ResponseStream, TurnDriverProofs

-----------------------------------------------------------------------------
(* The turns of a stream are turns.                                          *)

LEMMA StreamStepIsTurnStep == [StreamNext]_streamVars => [Next]_vars
BY DEF StreamNext, Drive, EndTask, Receive, GoAway, StreamRest, streamVars, Next

\* Streaming adds nothing to what turns do: no channel, client or error report
\* touches a turn or the store (a sink's emit returns nothing to drive).
THEOREM StreamsAreTurns == StreamSpec => Init /\ [][Next]_vars
BY StreamStepIsTurnStep, PTL DEF StreamSpec, StreamInit

-----------------------------------------------------------------------------
(* The invariant.                                                            *)

\* What has been sent to the client of turn t, if it stayed: the events of the
\* turn, and the one after an error.
Sent(t) ==
  IF ended[t] /\ task[t].result = "err"
    THEN Append(events[t], Fallback(t, task[t].response_id))
    ELSE events[t]

\* One numbered stream under the turn's response id.
Numbered(t, log) ==
  \A i \in DOMAIN log :
    log[i].sequence_number = i - 1 /\ log[i].response_id = task[t].response_id

\* The channel state is about the last event of the turn.
SeesLast(t) ==
  event_state[t] =
    IF events[t] = <<>>
      THEN NoEvent
      ELSE [last_sequence_number |-> Len(events[t]) - 1, response_id |-> task[t].response_id]

StreamOf(t) ==
  /\ SeesLast(t)
  /\ ended[t] => task[t].stream /\ pc[t] = "done" /\ task[t].result \in {"ok", "err"}
  /\ open[t] => received[t] \o channel[t] = Sent(t)
  /\ ~ open[t] =>
       /\ channel[t] = <<>>
       /\ events[t] = <<>> => received[t] = <<>>
       /\ Numbered(t, received[t])

RInv == KInv /\ StreamTypeOK /\ \A t \in Turns : StreamOf(t)

\* The strengthening implies what clients were promised.
LEMMA SentIsNumbered ==
  ASSUME RInv, NEW t \in Turns
  PROVE  Numbered(t, Sent(t))
<1>1. /\ StreamOf(t) /\ LogOf(t) /\ events[t] \in Seq(Events)
  BY DEF RInv, KInv, EInv, TInv, TypeOK
<1>2. Numbered(t, events[t])
  BY <1>1 DEF LogOf, InPlace, Numbered
<1>3. CASE ended[t] /\ task[t].result = "err"
  <2> DEFINE new == Fallback(t, task[t].response_id)
  <2>1. events[t] # <<>>
    BY <1>1, <1>3 DEF StreamOf, LogOf, EndIsTold, Ended
  <2>2. /\ Sent(t) = Append(events[t], new)
        /\ new.sequence_number = (Len(events[t]) - 1) + 1
        /\ new.response_id = task[t].response_id
    BY <1>1, <1>3, <2>1 DEF Sent, Fallback, StreamOf, SeesLast
  <2> HIDE DEF new
  <2>3. /\ DOMAIN Sent(t) = 1..(Len(events[t]) + 1) /\ Len(events[t]) \in Nat
        /\ DOMAIN events[t] = 1..Len(events[t])
        /\ Sent(t)[Len(events[t]) + 1] = new
        /\ \A i \in 1..Len(events[t]) : Sent(t)[i] = events[t][i]
    BY <1>1, <2>2
  <2> QED
    BY <1>2, <2>2, <2>3 DEF Numbered
<1> QED
  BY <1>2, <1>3 DEF Sent

LEMMA StreamsAreNumbered == RInv => OneNumberedStream
<1> SUFFICES ASSUME RInv, NEW t \in Turns
             PROVE  Numbered(t, received[t] \o channel[t])
  BY DEF OneNumberedStream, Numbered
<1>1. StreamOf(t) /\ received[t] \in Seq(Events) /\ open[t] \in BOOLEAN
  BY DEF RInv, StreamTypeOK
<1>2. CASE open[t]
  BY <1>1, <1>2, SentIsNumbered DEF StreamOf
<1>3. CASE ~ open[t]
  <2>1. received[t] \o channel[t] = received[t]
    BY <1>1, <1>3, ConcatEmptySeq DEF StreamOf
  <2> QED
    BY <1>1, <1>3, <2>1 DEF StreamOf
<1> QED
  BY <1>2, <1>3

-----------------------------------------------------------------------------
(* What each step does to a stream.                                          *)

\* What is appended comes last.
LEMMA ConcatAppend ==
  ASSUME NEW S, NEW s \in Seq(S), NEW u \in Seq(S), NEW x
  PROVE  s \o Append(u, x) = Append(s \o u, x)
<1> DEFINE V == S \cup {x}
<1>1. s \in Seq(V) /\ u \in Seq(V) /\ x \in V /\ <<x>> \in Seq(V)
  OBVIOUS
<1>2. s \o u \in Seq(V)
  BY <1>1, ConcatProperties
<1> HIDE DEF V
<1>3. Append(u, x) = u \o <<x>> /\ Append(s \o u, x) = (s \o u) \o <<x>>
  BY <1>1, <1>2, AppendIsConcat
<1> QED
  BY <1>1, <1>3, ConcatAssociative

\* An event that is sent comes after what was sent; one that is read was the
\* first to be.
LEMMA SentComesLast ==
  ASSUME NEW t, channel[t] \in Seq(Events), received[t] \in Seq(Events), NEW x
  PROVE  received[t] \o Append(channel[t], x) = Append(received[t] \o channel[t], x)
<1> DEFINE c == channel[t]
           r == received[t]
<1>1. c \in Seq(Events) /\ r \in Seq(Events)
  OBVIOUS
<1> HIDE DEF c, r
<1>2. r \o Append(c, x) = Append(r \o c, x)
  BY <1>1, ConcatAppend
<1> QED
  BY <1>2 DEF c, r

LEMMA ReadComesFirst ==
  ASSUME NEW t, channel[t] \in Seq(Events), received[t] \in Seq(Events), channel[t] # <<>>
  PROVE  Append(received[t], Head(channel[t])) \o Tail(channel[t]) = received[t] \o channel[t]
<1> DEFINE c == channel[t]
           r == received[t]
<1>1. c \in Seq(Events) /\ r \in Seq(Events) /\ c # <<>>
  OBVIOUS
<1> HIDE DEF c, r
<1>2. /\ Head(c) \in Events /\ Tail(c) \in Seq(Events) /\ <<Head(c)>> \in Seq(Events)
      /\ c = <<Head(c)>> \o Tail(c)
  BY <1>1, HeadTailProperties
<1>3. Append(r, Head(c)) = r \o <<Head(c)>>
  BY <1>1, <1>2, AppendIsConcat
<1>4. (r \o <<Head(c)>>) \o Tail(c) = r \o (<<Head(c)>> \o Tail(c))
  BY <1>1, <1>2, ConcatAssociative
<1>5. Append(r, Head(c)) \o Tail(c) = r \o c
  BY <1>2, <1>3, <1>4
<1> QED
  BY <1>5 DEF c, r

\* A stream depends on its own variables only.
LEMMA StreamUnchanged ==
  ASSUME NEW u, StreamOf(u), pc'[u] = pc[u], task'[u] = task[u], events'[u] = events[u],
         event_state'[u] = event_state[u], channel'[u] = channel[u], open'[u] = open[u],
         ended'[u] = ended[u], received'[u] = received[u]
  PROVE  StreamOf(u)'
BY DEF StreamOf, SeesLast, Sent, Fallback, Numbered

\* A step of a turn tells one event at most.
LEMMA OneEvent ==
  ASSUME KInv, NEW t \in Turns, Step(t)
  PROVE  /\ pc[t] # "done"
         /\ \/ /\ events'[t] = events[t]
               /\ events[t] = <<>> \/ task'[t].response_id = task[t].response_id
            \/ \E event :
                 /\ events'[t] = Append(events[t], event)
                 /\ event.sequence_number = Len(events[t])
                 /\ event.response_id = task[t].response_id
                 /\ task'[t].response_id = task[t].response_id
<1>1. Moved(t) /\ LogOf(t)
  BY TurnMoves DEF KInv, EInv
<1>2. CASE BeforeIds(t) \/ Named(t)
  BY <1>1, <1>2 DEF BeforeIds, Named, Quiet, LogOf, Untold
<1>3. CASE Worked(t) \/ Committed(t) \/ SinkTold(t) \/ Recorded(t) \/ Dropped(t)
  BY <1>3 DEF Worked, Committed, SinkTold, Recorded, Dropped, Quiet, SameTurn
<1>4. CASE Created(t) \/ OutputTold(t) \/ EndTold(t) \/ CompletedTold(t)
  <2>1. PICK event :
          /\ Tells(t, event)
          /\ event.response_id = task[t].response_id
    BY <1>4 DEF Created, OutputTold, EndTold, CompletedTold, CreatedEvent, OutputEvent,
       IncompleteEvent, FailedEvent, CompletedEvent, Event
  <2>2. task'[t].response_id = task[t].response_id /\ pc[t] # "done"
    BY <1>4 DEF Created, OutputTold, EndTold, CompletedTold, SameTurn
  <2>3. /\ WithSequenceNumber(event, sequence_number[t]).sequence_number = Len(events[t])
        /\ WithSequenceNumber(event, sequence_number[t]).response_id = task[t].response_id
    BY <1>1, <2>1 DEF WithSequenceNumber, LogOf
  <2> QED
    BY <2>1, <2>2, <2>3 DEF Tells
<1> QED
  BY <1>1, <1>2, <1>3, <1>4 DEF Moved

\* The sink sends what is told, and remembers it.
LEMMA DriveStreams ==
  ASSUME RInv, NEW t \in Turns, Drive(t)
  PROVE  StreamOf(t)'
<1>1. /\ StreamOf(t) /\ events[t] \in Seq(Events) /\ event_state \in [Turns -> States]
      /\ channel \in [Turns -> Seq(Events)] /\ received[t] \in Seq(Events)
      /\ open[t] \in BOOLEAN /\ ended[t] \in BOOLEAN
  BY DEF RInv, StreamTypeOK, KInv, EInv, TInv, TypeOK
<1>2. pc[t] # "done" /\ ~ ended[t]
  BY <1>1, OneEvent DEF Drive, RInv, StreamOf
<1>3. open'[t] = open[t] /\ ~ ended'[t] /\ received'[t] = received[t]
  BY <1>2 DEF Drive, Sunk
<1>4. Sent(t) = events[t] /\ Sent(t)' = events'[t]
  BY <1>2, <1>3 DEF Sent
<1>5. CASE events'[t] = events[t]
  <2>1. event_state' = event_state /\ channel' = channel
    BY <1>5 DEF Drive, Sunk
  <2>2. events[t] = <<>> \/ task'[t].response_id = task[t].response_id
    <3>1. \A event : Append(events[t], event) # events[t]
      BY <1>1
    <3> QED
      BY <1>5, <3>1, OneEvent DEF Drive, RInv
  <2>3. SeesLast(t)'
    BY <1>1, <1>5, <2>1, <2>2 DEF StreamOf, SeesLast
  <2>4. ~ open[t] => Numbered(t, received[t])'
    BY <1>1, <1>3, <2>2 DEF StreamOf, Numbered
  <2> QED
    BY <1>1, <1>3, <1>4, <1>5, <2>1, <2>3, <2>4 DEF StreamOf
<1>6. CASE events'[t] # events[t]
  <2>1. PICK event :
          /\ events'[t] = Append(events[t], event)
          /\ event.sequence_number = Len(events[t])
          /\ event.response_id = task[t].response_id
          /\ task'[t].response_id = task[t].response_id
    BY <1>6, OneEvent DEF Drive, RInv
  <2>2. /\ events'[t][Len(events'[t])] = event
        /\ Len(events'[t]) = Len(events[t]) + 1 /\ Len(events[t]) \in Nat
        /\ events'[t] # <<>>
    <3>1. /\ events'[t][Len(events[t]) + 1] = event
          /\ Len(events'[t]) = Len(events[t]) + 1 /\ Len(events[t]) \in Nat
      BY <1>1, <2>1
    <3>2. Len(<<>>) = 0
      OBVIOUS
    <3> QED
      BY <3>1, <3>2
  <2>3. Saw(t, event) /\ Send(t, event)
    BY <1>6, <2>2 DEF Drive, Sunk
  <2>4. SeesLast(t)'
    <3>1. event_state'[t] =
            [last_sequence_number |-> event.sequence_number, response_id |-> event.response_id]
      BY <1>1, <2>3 DEF Saw
    <3>2. Len(events'[t]) - 1 = Len(events[t])
      BY <2>2
    <3> QED
      BY <2>1, <2>2, <3>1, <3>2 DEF SeesLast
  <2>5. ASSUME open[t]
        PROVE  received'[t] \o channel'[t] = Sent(t)'
    <3>1. channel'[t] = Append(channel[t], event)
      BY <1>1, <2>3, <2>5 DEF Send
    <3>2. received[t] \o channel[t] = events[t]
      BY <1>1, <1>4, <2>5 DEF StreamOf
    <3>3. received[t] \o Append(channel[t], event) = Append(received[t] \o channel[t], event)
      BY <1>1, SentComesLast
    <3> QED
      BY <1>3, <1>4, <2>1, <3>1, <3>2, <3>3
  <2>6. ASSUME ~ open[t]
        PROVE  channel'[t] = <<>> /\ Numbered(t, received[t])'
    BY <1>1, <1>3, <2>1, <2>3, <2>6 DEF StreamOf, Send, Numbered
  <2> QED
    BY <1>3, <2>2, <2>4, <2>5, <2>6 DEF StreamOf
<1> QED
  BY <1>5, <1>6

\* The error of a turn is told after its end.
LEMMA EndTaskStreams ==
  ASSUME RInv, NEW t \in Turns, EndTask(t)
  PROVE  StreamOf(t)'
<1>1. /\ StreamOf(t) /\ LogOf(t) /\ events[t] \in Seq(Events)
      /\ channel \in [Turns -> Seq(Events)] /\ received[t] \in Seq(Events)
      /\ ended \in [Turns -> BOOLEAN] /\ open[t] \in BOOLEAN
      /\ task[t].response_id \in ResponseIds
  BY DEF RInv, StreamTypeOK, KInv, EInv, TInv, TypeOK, EndTask, Progress, ProgressOf, HasIds
<1>2. /\ task[t].stream /\ pc[t] = "done" /\ ~ ended[t] /\ ended'[t]
      /\ UNCHANGED <<vars, event_state, open, received>>
  BY <1>1 DEF EndTask
<1>3. events'[t] = events[t] /\ task'[t] = task[t] /\ pc'[t] = pc[t]
  BY <1>2 DEF vars, taskVars, eventVars
<1>4. SeesLast(t)'
  BY <1>1, <1>2, <1>3 DEF StreamOf, SeesLast
<1>5. CASE task[t].result = "ok" /\ UNCHANGED channel
  <2>1. Sent(t)' = Sent(t)
    BY <1>2, <1>3, <1>5 DEF Sent
  <2> QED
    BY <1>1, <1>2, <1>3, <1>4, <1>5, <2>1 DEF StreamOf, Numbered
<1>6. CASE /\ task[t].result = "err"
           /\ \E response_id \in
                IF event_state[t].response_id = NoId THEN NewResponseId[t]
                                                     ELSE {event_state[t].response_id} :
                Send(t, Fallback(t, response_id))
  <2> DEFINE new == Fallback(t, task[t].response_id)
  <2>1. event_state[t].response_id = task[t].response_id
    BY <1>1, <1>2 DEF StreamOf, SeesLast, LogOf, EndIsTold, Ended
  <2>2. Send(t, new)
    BY <1>1, <1>6, <2>1, IdsAssumption
  <2>3. Fallback(t, task[t].response_id)' = new
    BY <1>2, <1>3 DEF Fallback
  <2> HIDE DEF new
  <2>4. Sent(t)' = Append(events[t], new)
    BY <1>2, <1>3, <1>6, <2>3 DEF Sent
  <2>5. ASSUME open[t]
        PROVE  received'[t] \o channel'[t] = Sent(t)'
    <3>1. channel'[t] = Append(channel[t], new)
      BY <1>1, <2>2, <2>5 DEF Send
    <3>2. received[t] \o channel[t] = events[t]
      BY <1>1, <1>2, <2>5 DEF StreamOf, Sent
    <3>3. received[t] \o Append(channel[t], new) = Append(received[t] \o channel[t], new)
      BY <1>1, SentComesLast
    <3> QED
      BY <1>2, <2>4, <3>1, <3>2, <3>3
  <2>6. ASSUME ~ open[t]
        PROVE  channel'[t] = <<>>
    BY <1>1, <2>2, <2>6 DEF StreamOf, Send
  <2> QED
    BY <1>1, <1>2, <1>3, <1>4, <1>6, <2>5, <2>6 DEF StreamOf, Numbered
<1> QED
  BY <1>5, <1>6 DEF EndTask

\* What is read leaves the channel.
LEMMA ReceiveStreams ==
  ASSUME RInv, NEW t \in Turns, Receive(t)
  PROVE  StreamOf(t)'
<1>1. /\ StreamOf(t) /\ channel \in [Turns -> Seq(Events)]
      /\ received \in [Turns -> Seq(Events)]
  BY DEF RInv, StreamTypeOK
<1>2. /\ open[t] /\ channel[t] # <<>>
      /\ received'[t] = Append(received[t], Head(channel[t]))
      /\ channel'[t] = Tail(channel[t])
      /\ UNCHANGED <<vars, event_state, open, ended>>
  BY <1>1 DEF Receive
<1>3. channel[t] \in Seq(Events) /\ received[t] \in Seq(Events)
  BY <1>1
<1>4. received'[t] \o channel'[t] = received[t] \o channel[t]
  BY <1>2, <1>3, ReadComesFirst
<1>5. events'[t] = events[t] /\ task'[t] = task[t] /\ pc'[t] = pc[t]
  BY <1>2 DEF vars, taskVars, eventVars
<1>6. Sent(t)' = Sent(t) /\ SeesLast(t)' = SeesLast(t)
  BY <1>2, <1>5 DEF Sent, Fallback, SeesLast
<1> QED
  BY <1>1, <1>2, <1>4, <1>5, <1>6 DEF StreamOf

\* A client that goes away has read a part of its stream.
LEMMA GoAwayStreams ==
  ASSUME RInv, NEW t \in Turns, GoAway(t)
  PROVE  StreamOf(t)'
<1>1. /\ StreamOf(t) /\ LogOf(t) /\ channel \in [Turns -> Seq(Events)]
      /\ open \in [Turns -> BOOLEAN]
      /\ received[t] \in Seq(Events) /\ channel[t] \in Seq(Events)
      /\ events[t] \in Seq(Events)
  BY DEF RInv, StreamTypeOK, KInv, EInv, TInv, TypeOK
<1>2. /\ open[t] /\ ~ open'[t] /\ channel'[t] = <<>>
      /\ UNCHANGED <<vars, event_state, ended, received>>
  BY <1>1 DEF GoAway
<1>3. events'[t] = events[t] /\ task'[t] = task[t] /\ pc'[t] = pc[t]
  BY <1>2 DEF vars, taskVars, eventVars
<1>4. received[t] \o channel[t] = Sent(t)
  BY <1>1, <1>2 DEF StreamOf
<1>5. Numbered(t, received[t])
  <2>1. /\ DOMAIN received[t] \subseteq DOMAIN (received[t] \o channel[t])
        /\ \A i \in DOMAIN received[t] : (received[t] \o channel[t])[i] = received[t][i]
    BY <1>1
  <2> QED
    BY <1>4, <2>1, SentIsNumbered DEF Numbered
<1>6. events[t] = <<>> => received[t] = <<>>
  <2> SUFFICES ASSUME events[t] = <<>>
               PROVE  received[t] = <<>>
    OBVIOUS
  <2>1. Sent(t) = <<>>
    BY <1>1 DEF Sent, StreamOf, LogOf, EndIsTold, Ended
  <2> QED
    BY <1>1, <1>4, <2>1
<1> QED
  BY <1>1, <1>2, <1>3, <1>5, <1>6 DEF StreamOf, SeesLast, Numbered

-----------------------------------------------------------------------------
(* The invariant is one.                                                     *)

\* An event finds a place, or is lost.
LEMMA SendTypes ==
  ASSUME StreamTypeOK, NEW t \in Turns, NEW event \in Events, Send(t, event)
  PROVE  /\ channel' \in [Turns -> Seq(Events)]
         /\ \A u \in Turns : Len(channel'[u]) <= Capacity
<1>1. channel \in [Turns -> Seq(Events)] /\ \A u \in Turns : Len(channel[u]) <= Capacity
  BY DEF StreamTypeOK
<1>2. CASE Len(channel[t]) < Capacity /\ channel' = [channel EXCEPT ![t] = Append(@, event)]
  <2>1. channel[t] \in Seq(Events)
    BY <1>1
  <2>2. Append(channel[t], event) \in Seq(Events)
        /\ Len(Append(channel[t], event)) = Len(channel[t]) + 1
    BY <2>1
  <2>3. Len(channel[t]) + 1 <= Capacity
    BY <1>2, <2>1, CapacityAssumption
  <2> QED
    BY <1>1, <1>2, <2>2, <2>3
<1> QED
  BY <1>1, <1>2 DEF Send

LEMMA FallbackTypes ==
  ASSUME RInv, NEW t \in Turns, NEW response_id \in ResponseIds
  PROVE  Fallback(t, response_id) \in Events
<1>1. /\ event_state[t].last_sequence_number \in Nat \cup {-1}
  BY DEF RInv, StreamTypeOK, States
<1>2. event_state[t].last_sequence_number + 1 \in Nat
  BY <1>1
<1>3. <<>> \in Seq(Items)
  OBVIOUS
<1>4. "internal_error" \in Codes
  BY DEF Codes, UpstreamErrors
<1> QED
  BY <1>2, <1>3, <1>4 DEF Fallback, Events

LEMMA DriveTypes ==
  ASSUME RInv, NEW t \in Turns, Drive(t), TypeOK'
  PROVE  StreamTypeOK'
<1>1. /\ StreamTypeOK /\ UNCHANGED <<open, ended, received>>
  BY DEF RInv, Drive, Sunk
<1>2. CASE UNCHANGED <<event_state, channel>>
  BY <1>1, <1>2 DEF StreamTypeOK
<1>3. CASE events'[t] # events[t]
  <2>1. PICK event :
          /\ events'[t] = Append(events[t], event)
          /\ event.sequence_number = Len(events[t])
          /\ event.response_id = task[t].response_id
    BY <1>3, OneEvent DEF Drive, RInv
  <2>2. events[t] \in Seq(Events) /\ events'[t] \in Seq(Events)
    BY DEF RInv, KInv, EInv, TInv, TypeOK
  <2>3. /\ events'[t][Len(events'[t])] = event
        /\ Len(events'[t]) \in DOMAIN events'[t]
        /\ Len(events[t]) \in Nat
    BY <2>1, <2>2
  <2>4. event \in Events
    BY <2>2, <2>3
  <2>5. Saw(t, event) /\ Send(t, event)
    BY <1>3, <2>3 DEF Drive, Sunk
  <2>6. [last_sequence_number |-> event.sequence_number, response_id |-> event.response_id]
          \in States
    <3>1. event.sequence_number \in Nat /\ event.response_id \in ResponseIds
      BY <2>4 DEF Events
    <3> QED
      BY <3>1 DEF States
  <2>7. event_state' \in [Turns -> States]
    BY <1>1, <2>5, <2>6 DEF Saw, StreamTypeOK
  <2> QED
    BY <1>1, <2>4, <2>5, <2>7, SendTypes DEF StreamTypeOK
<1> QED
  BY <1>2, <1>3 DEF Drive, Sunk

LEMMA EndTaskTypes ==
  ASSUME RInv, NEW t \in Turns, EndTask(t)
  PROVE  StreamTypeOK'
<1>1. /\ StreamTypeOK /\ UNCHANGED <<event_state, open, received>>
      /\ ended' = [ended EXCEPT ![t] = TRUE]
  BY DEF RInv, EndTask
<1>2. CASE UNCHANGED channel
  BY <1>1, <1>2 DEF StreamTypeOK
<1>3. CASE \E response_id \in
             IF event_state[t].response_id = NoId THEN NewResponseId[t]
                                                  ELSE {event_state[t].response_id} :
             Send(t, Fallback(t, response_id))
  <2>1. event_state[t].response_id \in ResponseIds \cup {NoId}
    BY <1>1 DEF StreamTypeOK, States
  <2>2. PICK response_id \in ResponseIds : Send(t, Fallback(t, response_id))
    BY <1>3, <2>1, IdsAssumption
  <2>3. Fallback(t, response_id) \in Events
    BY FallbackTypes
  <2> QED
    BY <1>1, <2>2, <2>3, SendTypes DEF StreamTypeOK
<1> QED
  BY <1>2, <1>3 DEF EndTask

LEMMA ReceiveTypes ==
  ASSUME RInv, NEW t \in Turns, Receive(t)
  PROVE  StreamTypeOK'
<1>1. /\ channel \in [Turns -> Seq(Events)] /\ received \in [Turns -> Seq(Events)]
      /\ \A u \in Turns : Len(channel[u]) <= Capacity
      /\ channel[t] # <<>>
  BY DEF RInv, StreamTypeOK, Receive
<1>2. channel[t] \in Seq(Events) /\ received[t] \in Seq(Events) /\ Len(channel[t]) <= Capacity
  BY <1>1
<1>3. /\ Head(channel[t]) \in Events /\ Tail(channel[t]) \in Seq(Events)
      /\ Len(Tail(channel[t])) = Len(channel[t]) - 1 /\ Len(channel[t]) \in Nat
  BY <1>1, <1>2, HeadTailProperties
<1>4. Append(received[t], Head(channel[t])) \in Seq(Events) /\ Len(Tail(channel[t])) <= Capacity
  BY <1>2, <1>3, CapacityAssumption
<1>5. received' \in [Turns -> Seq(Events)] /\ channel' \in [Turns -> Seq(Events)]
  BY <1>1, <1>3, <1>4 DEF Receive
<1>6. \A u \in Turns : Len(channel'[u]) <= Capacity
  BY <1>1, <1>4 DEF Receive
<1> QED
  BY <1>5, <1>6 DEF RInv, StreamTypeOK, Receive

LEMMA GoAwayTypes ==
  ASSUME StreamTypeOK, NEW t \in Turns, GoAway(t)
  PROVE  StreamTypeOK'
<1>1. <<>> \in Seq(Events) /\ Len(<<>>) <= Capacity
  BY CapacityAssumption
<1>2. /\ channel' \in [Turns -> Seq(Events)]
      /\ \A u \in Turns : Len(channel'[u]) <= Capacity
  BY <1>1 DEF StreamTypeOK, GoAway
<1> QED
  BY <1>2 DEF StreamTypeOK, GoAway

\* The other streams stay as they were.
LEMMA OtherStreams ==
  ASSUME RInv, NEW t \in Turns, Drive(t) \/ EndTask(t) \/ Receive(t) \/ GoAway(t),
         NEW u \in Turns, u # t
  PROVE  StreamOf(u)'
<1>1. /\ StreamTypeOK /\ StreamOf(u) /\ TypeOK
  BY DEF RInv, KInv, EInv, TInv
<1>2. pc'[u] = pc[u] /\ task'[u] = task[u] /\ events'[u] = events[u]
  BY <1>1, OthersStay DEF Drive, EndTask, Receive, GoAway, vars, taskVars, eventVars
<1>3. event_state'[u] = event_state[u]
  BY <1>1 DEF StreamTypeOK, Drive, Sunk, Saw, EndTask, Receive, GoAway
<1>4. channel'[u] = channel[u]
  BY <1>1 DEF StreamTypeOK, Drive, Sunk, Send, EndTask, Receive, GoAway
<1>5. open'[u] = open[u] /\ ended'[u] = ended[u] /\ received'[u] = received[u]
  BY <1>1 DEF StreamTypeOK, Drive, Sunk, EndTask, Receive, GoAway
<1> QED
  BY <1>1, <1>2, <1>3, <1>4, <1>5, StreamUnchanged

LEMMA StreamsInit == StreamInit => RInv
<1> SUFFICES ASSUME StreamInit
             PROVE  RInv
  OBVIOUS
<1>1. KInv
  BY KeptInit DEF StreamInit
<1>2. NoEvent \in States /\ <<>> \in Seq(Events) /\ Len(<<>>) <= Capacity
  BY CapacityAssumption DEF NoEvent, States
<1>3. StreamTypeOK
  BY <1>2 DEF StreamInit, StreamTypeOK
<1>4. ASSUME NEW t \in Turns PROVE StreamOf(t)
  <2>1. /\ event_state[t] = NoEvent /\ events[t] = <<>> /\ open[t] /\ ~ ended[t]
        /\ received[t] = <<>> /\ channel[t] = <<>>
    BY DEF StreamInit, Init
  <2>2. <<>> \o <<>> = <<>>
    OBVIOUS
  <2> QED
    BY <2>1, <2>2 DEF StreamOf, SeesLast, Sent
<1> QED
  BY <1>1, <1>3, <1>4 DEF RInv

LEMMA StreamsStep == RInv /\ [StreamNext]_streamVars => RInv'
<1> SUFFICES ASSUME RInv, [StreamNext]_streamVars
             PROVE  RInv'
  OBVIOUS
<1>1. KInv'
  BY StreamStepIsTurnStep, KeptStep DEF RInv
<1>2. CASE UNCHANGED streamVars
  <2>1. StreamTypeOK'
    BY <1>2 DEF RInv, StreamTypeOK, streamVars, clientVars
  <2>2. ASSUME NEW u \in Turns PROVE StreamOf(u)'
    BY <1>2, StreamUnchanged DEF RInv, streamVars, clientVars, vars, taskVars, eventVars
  <2> QED
    BY <1>1, <2>1, <2>2 DEF RInv
<1>3. CASE \E t \in Turns : Drive(t) \/ EndTask(t) \/ Receive(t) \/ GoAway(t)
  <2>1. PICK t \in Turns : Drive(t) \/ EndTask(t) \/ Receive(t) \/ GoAway(t)
    BY <1>3
  <2>2. StreamTypeOK'
    BY <1>1, <2>1, DriveTypes, EndTaskTypes, ReceiveTypes, GoAwayTypes
    DEF RInv, KInv, EInv, TInv
  <2>3. StreamOf(t)'
    BY <2>1, DriveStreams, EndTaskStreams, ReceiveStreams, GoAwayStreams
  <2>4. \A u \in Turns : u # t => StreamOf(u)'
    BY <2>1, OtherStreams
  <2> QED
    BY <1>1, <2>2, <2>3, <2>4 DEF RInv
<1> QED
  BY <1>2, <1>3 DEF StreamNext, StreamRest

-----------------------------------------------------------------------------
(* How a stream ends.                                                        *)

\* The places of the terminal events.
Terminals(log) == {i \in DOMAIN log : log[i].type \in TerminalTypes}

\* The events of a turn that is done end with its only terminal event.
LEMMA EndOfEvents ==
  ASSUME RInv, NEW t \in Turns, task[t].stream, pc[t] = "done"
  PROVE  /\ events[t] \in Seq(Events) /\ events[t] # <<>>
         /\ Terminals(events[t]) = {Len(events[t])}
<1>1. events[t] \in Seq(Events) /\ LogOf(t)
  BY DEF RInv, KInv, EInv, TInv, TypeOK
<1>2. events[t] # <<>> /\ events[t][Len(events[t])].type \in TerminalTypes
  BY LogsAreStreams DEF RInv, KInv, EventsAreAStream
<1>3. Len(events[t]) \in DOMAIN events[t]
  BY <1>1, <1>2
<1>4. \A i \in DOMAIN events[t] : events[t][i].type \in TerminalTypes => i = Len(events[t])
  BY <1>1 DEF LogOf, InPlace
<1> QED
  BY <1>1, <1>2, <1>3, <1>4 DEF Terminals

LEMMA EndsWell ==
  ASSUME RInv, NEW t \in Turns, AtEnd(t), task[t].result = "ok"
  PROVE  LET log == received[t]
             last == log[Len(log)]
         IN /\ Terminals(log) = {Len(log)}
            /\ last.response_id \in DOMAIN responses
            /\ responses[last.response_id] =
                 [id |-> last.response_id, status |-> last.type,
                  output |-> last.output, code |-> last.code]
<1>1. StreamOf(t) /\ received[t] \in Seq(Events) /\ LogOf(t)
  BY DEF RInv, KInv, EInv, StreamTypeOK
<1>2. /\ task[t].stream /\ pc[t] = "done"
      /\ received[t] \o channel[t] = Sent(t) /\ channel[t] = <<>>
  BY <1>1 DEF AtEnd, StreamOf
<1>3. received[t] = events[t]
  BY <1>1, <1>2, ConcatEmptySeq DEF Sent
<1>4. /\ events[t] \in Seq(Events) /\ events[t] # <<>>
      /\ Terminals(events[t]) = {Len(events[t])}
  BY <1>2, EndOfEvents
<1>5. events[t][Len(events[t])].response_id = task[t].response_id
  <2>1. Len(events[t]) \in DOMAIN events[t]
    BY <1>4
  <2> QED
    BY <1>1, <2>1 DEF LogOf, InPlace
<1>6. /\ task[t].response_id \in DOMAIN responses
      /\ LET e == events[t][Len(events[t])] IN
           responses[task[t].response_id] =
             [id |-> e.response_id, status |-> e.type, output |-> e.output, code |-> e.code]
  BY <1>2, KeptIsTold DEF RInv, ToldIsStored
<1> QED
  BY <1>3, <1>4, <1>5, <1>6

LEMMA EndsBadly ==
  ASSUME RInv, NEW t \in Turns, AtEnd(t), task[t].result = "err"
  PROVE  LET log == received[t]
             last == log[Len(log)]
         IN /\ Terminals(log) = {Len(log) - 1, Len(log)}
            /\ last.type = "failed" /\ last.code = "internal_error"
<1> DEFINE new == Fallback(t, task[t].response_id)
<1>1. StreamOf(t) /\ received[t] \in Seq(Events)
  BY DEF RInv, StreamTypeOK
<1>2. /\ task[t].stream /\ pc[t] = "done" /\ ended[t]
      /\ received[t] \o channel[t] = Sent(t) /\ channel[t] = <<>>
  BY <1>1 DEF AtEnd, StreamOf
<1>3. received[t] = Append(events[t], new)
  BY <1>1, <1>2, ConcatEmptySeq DEF Sent
<1>4. /\ events[t] \in Seq(Events) /\ events[t] # <<>>
      /\ Terminals(events[t]) = {Len(events[t])}
  BY <1>2, EndOfEvents
<1>5. new.type = "failed" /\ new.code = "internal_error" /\ new.type \in TerminalTypes
  BY DEF Fallback, TerminalTypes
<1> HIDE DEF new
<1>6. /\ Len(received[t]) = Len(events[t]) + 1 /\ Len(events[t]) \in Nat
      /\ DOMAIN received[t] = 1..(Len(events[t]) + 1)
      /\ DOMAIN events[t] = 1..Len(events[t])
      /\ received[t][Len(events[t]) + 1] = new
      /\ \A i \in 1..Len(events[t]) : received[t][i] = events[t][i]
  BY <1>3, <1>4
<1>7. Terminals(received[t]) = {Len(events[t]), Len(events[t]) + 1}
  BY <1>4, <1>5, <1>6 DEF Terminals
<1>8. Len(events[t]) = Len(received[t]) - 1
  BY <1>6
<1> QED
  BY <1>5, <1>6, <1>7, <1>8

LEMMA StreamsEndTrue == RInv => EndOfStreamIsTrue
<1> SUFFICES ASSUME RInv, NEW t \in Turns, AtEnd(t)
             PROVE  LET log == received[t]
                        last == log[Len(log)]
                    IN \/ /\ task[t].result = "ok"
                          /\ Terminals(log) = {Len(log)}
                          /\ last.response_id \in DOMAIN responses
                          /\ responses[last.response_id] =
                               [id |-> last.response_id, status |-> last.type,
                                output |-> last.output, code |-> last.code]
                       \/ /\ task[t].result = "err"
                          /\ Terminals(log) = {Len(log) - 1, Len(log)}
                          /\ last.type = "failed" /\ last.code = "internal_error"
  BY DEF EndOfStreamIsTrue, Terminals
<1>1. task[t].result \in {"ok", "err"}
  BY DEF AtEnd, RInv, StreamOf
<1> QED
  BY <1>1, EndsWell, EndsBadly

-----------------------------------------------------------------------------
(* The theorems.                                                             *)

\* Every variable holds values of its kind, and no channel is overfull.
THEOREM StreamTypesHold == StreamSpec => []StreamTypeOK
<1>1. RInv => StreamTypeOK
  BY DEF RInv
<1> QED
  BY <1>1, StreamsInit, StreamsStep, PTL DEF StreamSpec

\* What a client has read and will read is one stream, the event after an
\* error included; this needs that the sink has always seen an event before
\* drive can fail, so that the fresh id of the fallback is never drawn.
THEOREM OneNumberedStreamHolds == StreamSpec => []OneNumberedStream
BY StreamsInit, StreamsStep, StreamsAreNumbered, PTL DEF StreamSpec

\* A client that reads to the end learns what GET shows from then on, or that
\* nothing could be stored.
THEOREM EndOfStreamIsTrueHolds == StreamSpec => []EndOfStreamIsTrue
BY StreamsInit, StreamsStep, StreamsEndTrue, PTL DEF StreamSpec
=============================================================================
