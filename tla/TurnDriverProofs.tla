--------------------------- MODULE TurnDriverProofs ---------------------------
(***************************************************************************)
(* Theorems about the turns of TurnDriver: where each one is, what they    *)
(* leave in the store, what they tell and in which order, and what they    *)
(* come to: that they implement Conversation, what the node sink hears of  *)
(* them, that fresh turns are recorded, and that an error leaves nothing   *)
(* behind.  For any turns, ids and bound.                                  *)
(***************************************************************************)
EXTENDS TurnDriver, StoreMapsProofs, SequenceTheorems

-----------------------------------------------------------------------------
(* Where a turn is, and what its local variables then hold.                  *)

\* The awaits at which the turn has its ids.
HasIds ==
  {"created", "seed", "upstream", "emitting", "incomplete", "fail", "commit", "sink",
   "completed", "put", "done"}

\* The awaits at which the turn has an outcome.
HasOutcome == HasIds \ {"created", "seed", "upstream"}

ProgressOf(t) ==
  /\ pc[t] \in HasIds => task[t].response_id \in ResponseIds /\ task[t].turn_id \in TurnIds
  /\ pc[t] \in HasOutcome => task[t].outcome \in Outcomes
  /\ pc[t] = "emitting" =>
       task[t].unsent > 0 /\ task[t].stream /\ task[t].code = TerminalCode(t, task[t].outcome)
  /\ pc[t] = "incomplete" => task[t].outcome = "Incomplete"
  /\ pc[t] = "fail" => task[t].outcome = "Failed"
  /\ pc[t] = "put" => task[t].outcome # "Completed"
  /\ pc[t] \in {"commit", "sink", "completed"} =>
       task[t].outcome = "Completed" /\ task[t].code = "none"

Progress == \A t \in Turns : ProgressOf(t)

TInv == TypeOK /\ Progress

\* The items of a turn are sequences of items.
LEMMA ItemTypes ==
  ASSUME NEW t \in Turns
  PROVE  /\ RequestItems(t) \in Seq(Items)
         /\ SeedItems(t) \in Seq(Items)
         /\ OutputItems(t) \in Seq(Items)
         /\ <<>> \in Seq(Items)
<1>1. ASSUME NEW i \in Items PROVE <<i>> \in Seq(Items)
  OBVIOUS
<1>2. <<t, "request">> \in Items /\ <<t, "seed">> \in Items /\ <<t, "output">> \in Items
  BY DEF Items
<1> QED
  BY <1>1, <1>2 DEF RequestItems, SeedItems, OutputItems

\* The types of what a turn stores and emits.
LEMMA RecordTypes ==
  ASSUME TInv, NEW t \in Turns, pc[t] \in HasOutcome
  PROVE  /\ TurnRecord(t) \in Records
         /\ ResponseJson(TurnRecord(t)) \in Jsons
         /\ Session(t) \in Sessions
<1>1. /\ task[t] \in Tasks
      /\ task[t].response_id \in ResponseIds
      /\ task[t].turn_id \in TurnIds
      /\ task[t].outcome \in Outcomes
  <2>1. ProgressOf(t) /\ task[t] \in Tasks
    BY DEF TInv, TypeOK, Progress
  <2>2. pc[t] \in HasIds
    BY DEF HasOutcome
  <2> QED
    BY <2>1, <2>2 DEF ProgressOf
<1>2. RequestItems(t) \in Seq(Items) /\ RecordedOutput(t) \in Seq(Items)
  BY <1>1, ItemTypes DEF RecordedOutput, Tasks
<1>3. task[t].parent.response_id \in ResponseIds \cup {NoId}
  BY <1>1 DEF Tasks, Sessions, NoSession
<1>4. TurnRecord(t) \in Records
  BY <1>1, <1>2, <1>3 DEF TurnRecord, Records, Tasks
<1>5. ResponseJson(TurnRecord(t)) \in Jsons
  BY <1>1, <1>4 DEF ResponseJson, Jsons, Records, Status, Outcomes
<1>6. NextTenant(t) \in Turns /\ NextVersion(t) \in Nat \ {0}
  BY <1>1 DEF NextTenant, NextVersion, Tasks, Sessions
<1>7. task[t].transcript \o task[t].output \in Seq(Items)
  BY <1>1 DEF Tasks
<1> QED
  BY <1>1, <1>3, <1>4, <1>5, <1>6, <1>7 DEF Session, Sessions

-----------------------------------------------------------------------------
(* One lemma per action: it keeps the types and the progress of every turn.  *)

\* A step of turn t touches no other turn's variables: it keeps the types and
\* the progress of all turns if it keeps its own.
LEMMA OneTurnMoves ==
  ASSUME TInv, NEW t \in Turns,
         pc' = [pc EXCEPT ![t] = pc'[t]], pc'[t] \in Labels,
         task' = [task EXCEPT ![t] = task'[t]], task'[t] \in Tasks,
         ProgressOf(t)'
  PROVE  /\ pc' \in [Turns -> Labels]
         /\ task' \in [Turns -> Tasks]
         /\ Progress'
<1>1. /\ pc' \in [Turns -> Labels]
      /\ task' \in [Turns -> Tasks]
      /\ \A u \in Turns \ {t} : pc'[u] = pc[u] /\ task'[u] = task[u]
  BY DEF TInv, TypeOK
<1>2. ASSUME NEW u \in Turns \ {t}
      PROVE  ProgressOf(u)'
  <2>1. pc'[u] = pc[u] /\ task'[u] = task[u] /\ ProgressOf(u)
    BY <1>1 DEF TInv, Progress
  <2>2. TerminalCode(u, task[u].outcome)' = TerminalCode(u, task[u].outcome)
    BY <2>1 DEF TerminalCode
  <2> QED
    BY <2>1, <2>2 DEF ProgressOf
<1> QED
  BY <1>1, <1>2 DEF Progress

\* A step that emits nothing and leaves the maps and the node sink alone.
LEMMA QuietStep ==
  ASSUME TInv, NEW t \in Turns,
         pc' = [pc EXCEPT ![t] = pc'[t]], pc'[t] \in Labels,
         task' = [task EXCEPT ![t] = task'[t]], task'[t] \in Tasks,
         ProgressOf(t)',
         Silent, UNCHANGED <<maps, notified>>
  PROVE  TInv'
<1>1. /\ pc' \in [Turns -> Labels]
      /\ task' \in [Turns -> Tasks]
      /\ Progress'
  BY OneTurnMoves
<1> QED
  BY <1>1 DEF TInv, TypeOK, Silent, eventVars, maps

\* A step that emits an event and leaves the maps and the node sink alone.
LEMMA EmitKeeps ==
  ASSUME TInv, NEW t \in Turns,
         pc' = [pc EXCEPT ![t] = pc'[t]], pc'[t] \in Labels,
         task' = [task EXCEPT ![t] = task'[t]], task'[t] \in Tasks,
         ProgressOf(t)',
         NEW event, WithSequenceNumber(event, sequence_number[t]) \in Events,
         Emit(t, event), UNCHANGED <<maps, notified>>
  PROVE  TInv'
<1>1. /\ pc' \in [Turns -> Labels]
      /\ task' \in [Turns -> Tasks]
      /\ Progress'
  BY OneTurnMoves
<1>2. /\ events' \in [Turns -> Seq(Events)]
      /\ sequence_number' \in [Turns -> Nat]
  BY DEF TInv, TypeOK, Emit
<1> QED
  BY <1>1, <1>2 DEF TInv, TypeOK, maps

\* The type of an event of a turn that has its ids.
LEMMA EventTypes ==
  ASSUME TInv, NEW t \in Turns, pc[t] \in HasIds,
         NEW type \in {"created", "output", "incomplete", "completed", "failed"},
         NEW output \in Seq(Items), NEW code \in Codes
  PROVE  WithSequenceNumber(Event(type, t, output, code), sequence_number[t]) \in Events
<1>1. task[t].response_id \in ResponseIds /\ sequence_number[t] \in Nat
  BY DEF TInv, TypeOK, Progress, ProgressOf
<1> QED
  BY <1>1 DEF WithSequenceNumber, Event, Events

\* A turn that is refused keeps the code of the error.
LEMMA RefusedKeepsTypes ==
  ASSUME task \in [Turns -> Tasks], NEW t \in Turns, NEW code \in Codes,
         task' = [task EXCEPT ![t].code = code]
  PROVE  task'[t] \in Tasks /\ task' = [task EXCEPT ![t] = task'[t]]
<1>1. task'[t] = [task[t] EXCEPT !.code = code] /\ task[t] \in Tasks
  OBVIOUS
<1>2. task'[t] \in Tasks
  BY <1>1 DEF Tasks
<1> QED
  BY <1>1, <1>2

LEMMA PostKeeps ==
  ASSUME TInv, NEW t \in Turns, Post(t)
  PROVE  TInv'
<1>1. task \in [Turns -> Tasks]
  BY DEF TInv, TypeOK
<1>2. pc'[t] \in {"start", "lookup", "refused"} /\ pc' = [pc EXCEPT ![t] = pc'[t]]
  BY DEF Post, Go, TInv, TypeOK
<1>3. task'[t] \in Tasks /\ task' = [task EXCEPT ![t] = task'[t]]
  <2>1. ASSUME NEW code \in RequestErrors, task' = [task EXCEPT ![t].code = code]
        PROVE  task'[t] \in Tasks /\ task' = [task EXCEPT ![t] = task'[t]]
    <3>1. code \in Codes
      BY DEF RequestErrors, Codes, UpstreamErrors
    <3> QED
      BY <1>1, <2>1, <3>1, RefusedKeepsTypes
  <2>2. ASSUME NEW stream \in BOOLEAN, NEW previous \in ResponseIds \cup {NoId},
               task' = [task EXCEPT ![t].stream = stream, ![t].previous = previous]
        PROVE  task'[t] \in Tasks /\ task' = [task EXCEPT ![t] = task'[t]]
    <3>1. /\ task'[t] = [task[t] EXCEPT !.stream = stream, !.previous = previous]
          /\ task' = [task EXCEPT ![t] = task'[t]]
      BY <1>1, <2>2
    <3>2. task[t] \in Tasks
      BY <1>1
    <3>3. task'[t] \in Tasks
      BY <3>1, <3>2 DEF Tasks
    <3> QED
      BY <3>1, <3>3
  <2> QED
    BY <2>1, <2>2 DEF Post
<1>4. pc'[t] \in Labels /\ ProgressOf(t)'
  BY <1>2 DEF Labels, ProgressOf, HasOutcome, HasIds
<1> QED
  BY <1>2, <1>3, <1>4, QuietStep DEF Post

LEMMA LookupKeeps ==
  ASSUME TInv, NEW t \in Turns, Lookup(t)
  PROVE  TInv'
<1>1. pc'[t] \in {"start", "refused"} /\ pc' = [pc EXCEPT ![t] = pc'[t]]
  BY DEF Lookup, Go, TInv, TypeOK
<1>2. task'[t] \in Tasks /\ task' = [task EXCEPT ![t] = task'[t]]
  <2>1. \/ \E session \in Sessions : task' = [task EXCEPT ![t].parent = session]
        \/ task' = [task EXCEPT ![t].code = "previous_response_not_found"]
    BY DEF Lookup, TInv, TypeOK
  <2>2. task \in [Turns -> Tasks]
    BY DEF TInv, TypeOK
  <2>3. ASSUME NEW session \in Sessions
        PROVE  [task[t] EXCEPT !.parent = session] \in Tasks
    BY <2>2 DEF Tasks
  <2>4. "previous_response_not_found" \in Codes
    BY DEF Codes, UpstreamErrors
  <2> QED
    BY <2>1, <2>2, <2>3, <2>4, RefusedKeepsTypes
<1>3. pc'[t] \in Labels /\ ProgressOf(t)'
  BY <1>1 DEF Labels, ProgressOf, HasOutcome, HasIds
<1> QED
  BY <1>1, <1>2, <1>3, QuietStep DEF Lookup

LEMMA StartKeeps ==
  ASSUME TInv, NEW t \in Turns, Start(t)
  PROVE  TInv'
<1>1. PICK response_id \in NewResponseId[t], turn_id \in NewTurnId[t] :
        \/ /\ Go(t, "start", IF task[t].stream THEN "created" ELSE "seed")
           /\ task' = [task EXCEPT ![t].response_id = response_id, ![t].turn_id = turn_id]
        \/ /\ Go(t, "start", ToldFirst(t))
           /\ task' = [task EXCEPT ![t].response_id = response_id, ![t].turn_id = turn_id,
                                   ![t].outcome = "Failed", ![t].code = "unknown_model"]
  BY DEF Start
<1>2. response_id \in ResponseIds /\ turn_id \in TurnIds
  BY IdsAssumption
<1>3. /\ pc' = [pc EXCEPT ![t] = pc'[t]]
      /\ pc'[t] \in {"created", "seed", "fail", "put"}
      /\ pc'[t] \in {"fail", "put"} => task'[t].outcome = "Failed"
  BY <1>1 DEF Go, ToldFirst, TInv, TypeOK, Tasks
<1>4. /\ task' = [task EXCEPT ![t] = task'[t]]
      /\ task'[t] \in Tasks
      /\ task'[t].response_id = response_id
      /\ task'[t].turn_id = turn_id
  <2>1. task \in [Turns -> Tasks] /\ "unknown_model" \in Codes /\ "Failed" \in Outcomes
    BY DEF TInv, TypeOK, Codes, UpstreamErrors, Outcomes
  <2>2. CASE task' = [task EXCEPT ![t].response_id = response_id, ![t].turn_id = turn_id]
    <3>1. task'[t] = [task[t] EXCEPT !.response_id = response_id, !.turn_id = turn_id]
      BY <2>1, <2>2
    <3>2. task[t] \in Tasks
      BY <2>1
    <3>3. task'[t] \in Tasks
      BY <1>2, <3>1, <3>2 DEF Tasks
    <3>4. task'[t].response_id = response_id /\ task'[t].turn_id = turn_id
      BY <3>1, <3>2 DEF Tasks
    <3> QED
      BY <2>1, <2>2, <3>3, <3>4
  <2>3. CASE task' = [task EXCEPT ![t].response_id = response_id, ![t].turn_id = turn_id,
                                  ![t].outcome = "Failed", ![t].code = "unknown_model"]
    <3>1. task'[t] = [task[t] EXCEPT !.response_id = response_id, !.turn_id = turn_id,
                                     !.outcome = "Failed", !.code = "unknown_model"]
      BY <2>1, <2>3
    <3>2. task[t] \in Tasks
      BY <2>1
    <3>3. task'[t] \in Tasks
      BY <1>2, <2>1, <3>1, <3>2 DEF Tasks
    <3>4. task'[t].response_id = response_id /\ task'[t].turn_id = turn_id
      BY <3>1, <3>2 DEF Tasks
    <3> QED
      BY <2>1, <2>3, <3>3, <3>4
  <2> QED
    BY <1>1, <2>2, <2>3
<1>5. pc'[t] \in Labels /\ ProgressOf(t)'
  BY <1>2, <1>3, <1>4 DEF Labels, ProgressOf, HasOutcome, HasIds, Outcomes
<1> QED
  BY <1>3, <1>4, <1>5, QuietStep DEF Start

LEMMA EmitCreatedKeeps ==
  ASSUME TInv, NEW t \in Turns, EmitCreated(t)
  PROVE  TInv'
<1>1. pc[t] = "created" /\ pc'[t] = "seed" /\ pc' = [pc EXCEPT ![t] = pc'[t]]
  BY DEF EmitCreated, Go, TInv, TypeOK
<1>2. task'[t] \in Tasks /\ task' = [task EXCEPT ![t] = task'[t]] /\ task' = task
  BY DEF EmitCreated, TInv, TypeOK
<1>3. WithSequenceNumber(CreatedEvent(t), sequence_number[t]) \in Events
  <2>1. <<>> \in Seq(Items) /\ "none" \in Codes /\ "created" \in HasIds
    BY DEF Codes, UpstreamErrors, HasIds
  <2> QED
    BY <1>1, <2>1, EventTypes DEF CreatedEvent
<1>4. pc'[t] \in Labels /\ ProgressOf(t)'
  BY <1>1, <1>2 DEF Labels, ProgressOf, HasOutcome, HasIds, TInv, Progress
<1> QED
  BY <1>1, <1>2, <1>3, <1>4, EmitKeeps DEF EmitCreated

\* A turn that fails has its ids, the outcome Failed, and goes to be told or
\* put.
LEMMA FailMoves ==
  ASSUME TInv, NEW t \in Turns, NEW from \in HasIds, NEW code \in Codes, Fail(t, from, code)
  PROVE  /\ pc' = [pc EXCEPT ![t] = pc'[t]] /\ pc'[t] \in Labels
         /\ task' = [task EXCEPT ![t] = task'[t]] /\ task'[t] \in Tasks
         /\ ProgressOf(t)'
<1>1. /\ task \in [Turns -> Tasks]
      /\ task[t].response_id \in ResponseIds /\ task[t].turn_id \in TurnIds
  BY DEF Fail, Go, TInv, TypeOK, Progress, ProgressOf
<1>2. /\ pc' = [pc EXCEPT ![t] = pc'[t]]
      /\ pc'[t] \in {"fail", "put"}
  BY DEF Fail, Go, ToldFirst, TInv, TypeOK
<1>3. /\ task' = [task EXCEPT ![t] = task'[t]]
      /\ task'[t] \in Tasks
      /\ task'[t].response_id \in ResponseIds /\ task'[t].turn_id \in TurnIds
      /\ task'[t].outcome = "Failed"
  <2>1. /\ task'[t] = [task[t] EXCEPT !.outcome = "Failed", !.code = code]
        /\ task' = [task EXCEPT ![t] = task'[t]]
    BY <1>1 DEF Fail
  <2>2. task[t] \in Tasks /\ "Failed" \in Outcomes
    BY <1>1 DEF Outcomes
  <2>3. task'[t] \in Tasks
    BY <2>1, <2>2 DEF Tasks
  <2>4. /\ task'[t].response_id = task[t].response_id
        /\ task'[t].turn_id = task[t].turn_id
        /\ task'[t].outcome = "Failed"
    BY <2>1, <2>2 DEF Tasks
  <2> QED
    BY <1>1, <2>1, <2>3, <2>4
<1> QED
  BY <1>2, <1>3 DEF Labels, ProgressOf, HasOutcome, HasIds, Outcomes

LEMMA CompileKeeps ==
  ASSUME TInv, NEW t \in Turns, Compile(t)
  PROVE  TInv'
<1>1. CASE \E code \in {"seed_error", "unsupported_tool"} : Fail(t, "seed", code)
  <2>1. PICK code \in {"seed_error", "unsupported_tool"} : Fail(t, "seed", code)
    BY <1>1
  <2>2. code \in Codes /\ "seed" \in HasIds
    BY DEF Codes, UpstreamErrors, HasIds
  <2> QED
    BY <2>1, <2>2, FailMoves, QuietStep DEF Compile
<1>2. CASE \E seed \in {<<>>, SeedItems(t)} :
             /\ Go(t, "seed", "upstream")
             /\ task' = [task EXCEPT ![t].transcript = ParentItems(t) \o seed \o RequestItems(t)]
  <2>1. PICK seed \in {<<>>, SeedItems(t)} :
             /\ Go(t, "seed", "upstream")
             /\ task' = [task EXCEPT ![t].transcript = ParentItems(t) \o seed \o RequestItems(t)]
    BY <1>2
  <2>2. task \in [Turns -> Tasks] /\ ProgressOf(t)
    BY DEF TInv, TypeOK, Progress
  <2>3. ParentItems(t) \in Seq(Items)
    <3>1. task[t].parent \in Sessions \cup {NoSession}
      BY <2>2 DEF Tasks
    <3>2. CASE task[t].parent = NoSession
      BY <3>2 DEF ParentItems
    <3>3. CASE task[t].parent # NoSession
      BY <3>1, <3>3 DEF ParentItems, Sessions
    <3> QED
      BY <3>2, <3>3
  <2>4. seed \in Seq(Items) /\ RequestItems(t) \in Seq(Items)
    BY ItemTypes
  <2>5. ParentItems(t) \o seed \o RequestItems(t) \in Seq(Items)
    BY <2>3, <2>4
  <2>6. /\ task' = [task EXCEPT ![t] = task'[t]]
        /\ task'[t] \in Tasks
        /\ task'[t].response_id = task[t].response_id /\ task'[t].turn_id = task[t].turn_id
    <3> DEFINE transcript == ParentItems(t) \o seed \o RequestItems(t)
    <3>1. /\ task'[t] = [task[t] EXCEPT !.transcript = transcript]
          /\ task' = [task EXCEPT ![t] = task'[t]]
      BY <2>1, <2>2
    <3>2. task[t] \in Tasks /\ transcript \in Seq(Items)
      BY <2>2, <2>5
    <3> HIDE DEF transcript
    <3>3. task'[t] \in Tasks
      BY <3>1, <3>2 DEF Tasks
    <3>4. /\ task'[t].response_id = task[t].response_id
          /\ task'[t].turn_id = task[t].turn_id
      BY <3>1, <3>2 DEF Tasks
    <3> QED
      BY <3>1, <3>3, <3>4
  <2>7. pc[t] = "seed" /\ pc'[t] = "upstream" /\ pc' = [pc EXCEPT ![t] = pc'[t]]
    BY <2>1 DEF Go, TInv, TypeOK
  <2>8. pc'[t] \in Labels /\ ProgressOf(t)'
    BY <2>2, <2>6, <2>7 DEF Labels, ProgressOf, HasOutcome, HasIds
  <2> QED
    BY <2>6, <2>7, <2>8, QuietStep DEF Compile
<1> QED
  BY <1>1, <1>2 DEF Compile

LEMMA NotAnsweredKeeps ==
  ASSUME TInv, NEW t \in Turns, NotAnswered(t)
  PROVE  TInv'
<1>1. PICK code \in UpstreamErrors : Fail(t, "upstream", code)
  BY DEF NotAnswered
<1>2. code \in Codes /\ "upstream" \in HasIds
  BY DEF Codes, UpstreamErrors, HasIds
<1> QED
  BY <1>1, <1>2, FailMoves, QuietStep DEF NotAnswered

\* Where an outcome leads, and with which code.
LEMMA Conclusion ==
  ASSUME NEW t \in Turns, NEW outcome \in Outcomes, task[t].stream \in BOOLEAN
  PROVE  /\ Conclude(t, outcome) \in {"commit", "incomplete", "fail", "put"}
         /\ Conclude(t, outcome) = "commit" <=> outcome = "Completed"
         /\ Conclude(t, outcome) = "incomplete" => outcome = "Incomplete"
         /\ Conclude(t, outcome) = "fail" => outcome = "Failed"
         /\ TerminalCode(t, outcome) \in Codes
         /\ outcome = "Completed" => TerminalCode(t, outcome) = "none"
BY DEF Conclude, TerminalCode, ToldFirst, Outcomes, Codes, UpstreamErrors

\* What an answer does: no output event without a stream.
LEMMA AnAnswer ==
  ASSUME NEW t \in Turns, Answered(t)
  PROVE  /\ Silent
         /\ \E outcome \in Outcomes, output \in {<<>>, OutputItems(t)}, unsent \in Nat :
              /\ unsent > 0 => task[t].stream
              /\ Go(t, "upstream", IF unsent > 0 THEN "emitting" ELSE Conclude(t, outcome))
              /\ task' = [task EXCEPT ![t].outcome = outcome,
                                      ![t].code = TerminalCode(t, outcome),
                                      ![t].output = output, ![t].unsent = unsent]
<1>1. PICK outcome \in {"Completed", "Incomplete", "Failed"},
           output \in {<<>>, OutputItems(t)} :
        \E unsent \in IF task[t].stream /\ output # <<>> THEN 1..MaxOutputEvents ELSE {0} :
          /\ Go(t, "upstream", IF unsent > 0 THEN "emitting" ELSE Conclude(t, outcome))
          /\ task' = [task EXCEPT ![t].outcome = outcome, ![t].code = TerminalCode(t, outcome),
                                  ![t].output = output, ![t].unsent = unsent]
          /\ Silent
          /\ UNCHANGED <<maps, notified>>
  BY Zenon DEF Answered
<1>2. \A unsent \in IF task[t].stream /\ output # <<>> THEN 1..MaxOutputEvents ELSE {0} :
        unsent \in Nat /\ (unsent > 0 => task[t].stream)
  BY BoundAssumption
<1>3. outcome \in Outcomes
  BY DEF Outcomes
<1> QED
  BY <1>1, <1>2, <1>3

LEMMA AnsweredKeeps ==
  ASSUME TInv, NEW t \in Turns, Answered(t)
  PROVE  TInv'
<1>1. PICK outcome \in Outcomes, output \in {<<>>, OutputItems(t)}, unsent \in Nat :
        /\ unsent > 0 => task[t].stream
        /\ Go(t, "upstream", IF unsent > 0 THEN "emitting" ELSE Conclude(t, outcome))
        /\ task' = [task EXCEPT ![t].outcome = outcome, ![t].code = TerminalCode(t, outcome),
                                ![t].output = output, ![t].unsent = unsent]
  BY AnAnswer
<1>2. /\ task \in [Turns -> Tasks] /\ ProgressOf(t)
      /\ output \in Seq(Items)
      /\ task[t].stream \in BOOLEAN
  <2>1. task \in [Turns -> Tasks] /\ ProgressOf(t)
    BY DEF TInv, TypeOK, Progress
  <2>2. output \in Seq(Items)
    BY ItemTypes
  <2> QED
    BY <2>1, <2>2 DEF Tasks
<1>3. /\ Conclude(t, outcome) \in {"commit", "incomplete", "fail", "put"}
      /\ Conclude(t, outcome) = "commit" <=> outcome = "Completed"
      /\ Conclude(t, outcome) = "incomplete" => outcome = "Incomplete"
      /\ Conclude(t, outcome) = "fail" => outcome = "Failed"
      /\ TerminalCode(t, outcome) \in Codes
      /\ outcome = "Completed" => TerminalCode(t, outcome) = "none"
  BY <1>2, Conclusion
<1>4. /\ task' = [task EXCEPT ![t] = task'[t]]
      /\ task'[t] \in Tasks
      /\ task'[t].response_id = task[t].response_id /\ task'[t].turn_id = task[t].turn_id
      /\ task'[t].stream = task[t].stream
      /\ task'[t].outcome = outcome
      /\ task'[t].code = TerminalCode(t, outcome)
      /\ task'[t].unsent = unsent
  <2> DEFINE code == TerminalCode(t, outcome)
  <2>1. /\ task'[t] = [task[t] EXCEPT !.outcome = outcome, !.code = code, !.output = output,
                                      !.unsent = unsent]
        /\ task' = [task EXCEPT ![t] = task'[t]]
    BY <1>1, <1>2
  <2>2. task[t] \in Tasks /\ code \in Codes
    BY <1>2, <1>3
  <2> HIDE DEF code
  <2>3. task'[t] \in Tasks
    BY <1>2, <2>1, <2>2 DEF Tasks
  <2>4. /\ task'[t].response_id = task[t].response_id /\ task'[t].turn_id = task[t].turn_id
        /\ task'[t].stream = task[t].stream
        /\ task'[t].outcome = outcome
        /\ task'[t].code = code
        /\ task'[t].unsent = unsent
    BY <2>1, <2>2 DEF Tasks
  <2> QED
    BY <2>1, <2>3, <2>4 DEF code
<1>5. TerminalCode(t, task[t].outcome)' = TerminalCode(t, outcome)
  BY <1>4 DEF TerminalCode
<1>6. /\ pc[t] = "upstream"
      /\ pc'[t] = IF unsent > 0 THEN "emitting" ELSE Conclude(t, outcome)
      /\ pc' = [pc EXCEPT ![t] = pc'[t]]
  BY <1>1 DEF Go, TInv, TypeOK
<1>7. task[t].response_id \in ResponseIds /\ task[t].turn_id \in TurnIds
  BY <1>2, <1>6 DEF ProgressOf, HasIds
<1>8. pc'[t] \in Labels /\ ProgressOf(t)'
  <2>1. CASE unsent > 0
    BY <1>1, <1>2, <1>4, <1>5, <1>6, <1>7, <2>1 DEF Labels, ProgressOf
  <2>2. CASE ~ unsent > 0
    BY <1>3, <1>4, <1>6, <1>7, <2>2 DEF Labels, ProgressOf
  <2> QED
    BY <2>1, <2>2
<1> QED
  BY <1>4, <1>6, <1>8, QuietStep DEF Answered

LEMMA EmitOutputKeeps ==
  ASSUME TInv, NEW t \in Turns, EmitOutput(t)
  PROVE  TInv'
<1> DEFINE outcome == task[t].outcome
<1>1. /\ pc[t] = "emitting"
      /\ pc'[t] = IF task[t].unsent > 1 THEN "emitting" ELSE Conclude(t, outcome)
      /\ pc' = [pc EXCEPT ![t] = pc'[t]]
      /\ task' = [task EXCEPT ![t].unsent = task[t].unsent - 1]
  BY DEF EmitOutput, Go, TInv, TypeOK
<1>2. /\ task \in [Turns -> Tasks]
      /\ task[t].response_id \in ResponseIds /\ task[t].turn_id \in TurnIds
      /\ outcome \in Outcomes
      /\ task[t].unsent > 0 /\ task[t].stream /\ task[t].code = TerminalCode(t, outcome)
  <2>1. task \in [Turns -> Tasks] /\ ProgressOf(t)
    BY DEF TInv, TypeOK, Progress
  <2> QED
    BY <1>1, <2>1 DEF ProgressOf, HasIds, HasOutcome
<1>3. task[t].stream \in BOOLEAN /\ task[t].unsent \in Nat /\ task[t].output \in Seq(Items)
  BY <1>2 DEF Tasks
<1>4. /\ task' = [task EXCEPT ![t] = task'[t]]
      /\ task'[t] \in Tasks
      /\ task'[t].response_id = task[t].response_id /\ task'[t].turn_id = task[t].turn_id
      /\ task'[t].stream = task[t].stream
      /\ task'[t].outcome = task[t].outcome
      /\ task'[t].code = task[t].code
      /\ task'[t].unsent = task[t].unsent - 1
  <2>1. task[t].unsent - 1 \in Nat
    BY <1>2, <1>3
  <2>2. ASSUME NEW unsent \in Nat
        PROVE  LET next == [task EXCEPT ![t].unsent = unsent] IN
               /\ next = [task EXCEPT ![t] = next[t]]
               /\ next[t] \in Tasks
               /\ next[t].response_id = task[t].response_id /\ next[t].turn_id = task[t].turn_id
               /\ next[t].stream = task[t].stream
               /\ next[t].outcome = task[t].outcome
               /\ next[t].code = task[t].code
               /\ next[t].unsent = unsent
    <3>1. task \in [Turns -> Tasks]
      BY <1>2
    <3> QED
      BY <3>1 DEF Tasks
  <2> QED
    BY <1>1, <2>1, <2>2
<1>5. TerminalCode(t, outcome)' = TerminalCode(t, outcome)
  BY <1>4 DEF TerminalCode
<1>6. /\ Conclude(t, outcome) \in {"commit", "incomplete", "fail", "put"}
      /\ Conclude(t, outcome) = "commit" <=> outcome = "Completed"
      /\ Conclude(t, outcome) = "incomplete" => outcome = "Incomplete"
      /\ Conclude(t, outcome) = "fail" => outcome = "Failed"
      /\ outcome = "Completed" => TerminalCode(t, outcome) = "none"
  BY <1>2, <1>3, Conclusion
<1>7. pc'[t] \in Labels /\ ProgressOf(t)'
  <2>1. CASE task[t].unsent > 1
    BY <1>1, <1>2, <1>3, <1>4, <1>5, <2>1 DEF Labels, ProgressOf
  <2>2. CASE ~ task[t].unsent > 1
    BY <1>1, <1>2, <1>4, <1>6, <2>2 DEF Labels, ProgressOf
  <2> QED
    BY <2>1, <2>2
<1>8. WithSequenceNumber(OutputEvent(t), sequence_number[t]) \in Events
  <2>1. "none" \in Codes /\ pc[t] \in HasIds
    BY <1>1 DEF Codes, UpstreamErrors, HasIds
  <2> QED
    BY <1>3, <2>1, EventTypes DEF OutputEvent
<1> QED
  BY <1>1, <1>4, <1>7, <1>8, EmitKeeps DEF EmitOutput

\* A step that does nothing to a turn's locals but to note its result.
LEMMA ResultMoves ==
  ASSUME task \in [Turns -> Tasks], NEW t \in Turns,
         NEW result \in {"none", "ok", "err"}, task' = [task EXCEPT ![t].result = result]
  PROVE  /\ task' = [task EXCEPT ![t] = task'[t]]
         /\ task'[t] \in Tasks
         /\ task'[t].response_id = task[t].response_id /\ task'[t].turn_id = task[t].turn_id
         /\ task'[t].outcome = task[t].outcome
         /\ task'[t].code = task[t].code
BY DEF Tasks

\* What holds of a turn that has its ids and its outcome.
LEMMA OutcomeFacts ==
  ASSUME TInv, NEW t \in Turns, pc[t] \in HasOutcome
  PROVE  /\ task \in [Turns -> Tasks]
         /\ task[t] \in Tasks
         /\ task[t].response_id \in ResponseIds /\ task[t].turn_id \in TurnIds
         /\ task[t].outcome \in Outcomes
         /\ task[t].output \in Seq(Items)
         /\ task[t].code \in Codes
         /\ pc[t] \in HasIds
<1>1. task \in [Turns -> Tasks] /\ ProgressOf(t) /\ pc[t] \in HasIds
  BY DEF TInv, TypeOK, Progress, HasOutcome
<1> QED
  BY <1>1 DEF ProgressOf, Tasks

LEMMA EmitIncompleteKeeps ==
  ASSUME TInv, NEW t \in Turns, EmitIncomplete(t)
  PROVE  TInv'
<1>1. /\ pc[t] = "incomplete" /\ pc'[t] = "put" /\ pc' = [pc EXCEPT ![t] = pc'[t]]
      /\ task' = task /\ task' = [task EXCEPT ![t] = task'[t]]
  BY DEF EmitIncomplete, Go, TInv, TypeOK
<1>2. pc[t] \in HasOutcome
  BY <1>1 DEF HasOutcome, HasIds
<1>3. WithSequenceNumber(IncompleteEvent(t), sequence_number[t]) \in Events
  BY <1>2, OutcomeFacts, EventTypes DEF IncompleteEvent
<1>4. task[t].outcome = "Incomplete"
  BY <1>1 DEF TInv, Progress, ProgressOf
<1>5. pc'[t] \in Labels /\ ProgressOf(t)'
  BY <1>1, <1>2, <1>4, OutcomeFacts DEF Labels, ProgressOf
<1> QED
  BY <1>1, <1>2, <1>3, <1>5, OutcomeFacts, EmitKeeps DEF EmitIncomplete

LEMMA EmitFailedKeeps ==
  ASSUME TInv, NEW t \in Turns, EmitFailed(t)
  PROVE  TInv'
<1>1. /\ pc[t] = "fail" /\ pc'[t] = "put" /\ pc' = [pc EXCEPT ![t] = pc'[t]]
      /\ task' = task /\ task' = [task EXCEPT ![t] = task'[t]]
  BY DEF EmitFailed, Go, TInv, TypeOK
<1>2. pc[t] \in HasOutcome
  BY <1>1 DEF HasOutcome, HasIds
<1>3. WithSequenceNumber(FailedEvent(t), sequence_number[t]) \in Events
  BY <1>2, OutcomeFacts, ItemTypes, EventTypes DEF FailedEvent
<1>4. task[t].outcome = "Failed"
  BY <1>1 DEF TInv, Progress, ProgressOf
<1>5. pc'[t] \in Labels /\ ProgressOf(t)'
  BY <1>1, <1>2, <1>4, OutcomeFacts DEF Labels, ProgressOf
<1> QED
  BY <1>1, <1>2, <1>3, <1>5, OutcomeFacts, EmitKeeps DEF EmitFailed

LEMMA EmitCompletedKeeps ==
  ASSUME TInv, NEW t \in Turns, EmitCompleted(t)
  PROVE  TInv'
<1>1. /\ pc[t] = "completed" /\ pc'[t] = "done" /\ pc' = [pc EXCEPT ![t] = pc'[t]]
      /\ task' = [task EXCEPT ![t].result = "ok"]
  BY DEF EmitCompleted, Go, TInv, TypeOK
<1>2. pc[t] \in HasOutcome
  BY <1>1 DEF HasOutcome, HasIds
<1>3. WithSequenceNumber(CompletedEvent(t), sequence_number[t]) \in Events
  <2>1. "none" \in Codes
    BY DEF Codes, UpstreamErrors
  <2> QED
    BY <1>2, <2>1, OutcomeFacts, EventTypes DEF CompletedEvent
<1>4. /\ task' = [task EXCEPT ![t] = task'[t]]
      /\ task'[t] \in Tasks
      /\ task'[t].response_id = task[t].response_id /\ task'[t].turn_id = task[t].turn_id
      /\ task'[t].outcome = task[t].outcome
  BY <1>1, <1>2, OutcomeFacts DEF Tasks
<1>5. pc'[t] \in Labels /\ ProgressOf(t)'
  BY <1>1, <1>2, <1>4, OutcomeFacts DEF Labels, ProgressOf
<1> QED
  BY <1>1, <1>3, <1>4, <1>5, EmitKeeps DEF EmitCompleted

LEMMA NotifySinkKeeps ==
  ASSUME TInv, NEW t \in Turns, NotifySink(t)
  PROVE  TInv'
<1>1. /\ pc[t] = "sink" /\ pc'[t] \in {"completed", "done"}
      /\ pc' = [pc EXCEPT ![t] = pc'[t]]
      /\ \/ task' = [task EXCEPT ![t].result = task[t].result]
         \/ task' = [task EXCEPT ![t].result = "ok"]
  BY DEF NotifySink, TInv, TypeOK
<1>2. /\ pc[t] \in HasOutcome
      /\ task \in [Turns -> Tasks] /\ task[t].result \in {"none", "ok", "err"}
  BY <1>1 DEF HasOutcome, HasIds, TInv, TypeOK, Tasks
<1>3. /\ task' = [task EXCEPT ![t] = task'[t]]
      /\ task'[t] \in Tasks
      /\ task'[t].response_id = task[t].response_id /\ task'[t].turn_id = task[t].turn_id
      /\ task'[t].outcome = task[t].outcome
      /\ task'[t].code = task[t].code
  BY <1>1, <1>2, ResultMoves
<1>4. task[t].outcome = "Completed" /\ task[t].code = "none"
  BY <1>1 DEF TInv, Progress, ProgressOf
<1>5. pc'[t] \in Labels /\ ProgressOf(t)'
  BY <1>1, <1>2, <1>3, <1>4, OutcomeFacts DEF Labels, ProgressOf
<1>6. /\ pc' \in [Turns -> Labels]
      /\ task' \in [Turns -> Tasks]
      /\ Progress'
  BY <1>1, <1>3, <1>5, OneTurnMoves
<1>7. notified' \in Seq(ResponseIds)
  BY <1>2, OutcomeFacts DEF NotifySink, TInv, TypeOK
<1> QED
  BY <1>6, <1>7 DEF NotifySink, TInv, TypeOK, Silent, eventVars, maps

LEMMA DropKeeps ==
  ASSUME TInv, NEW t \in Turns, Drop(t)
  PROVE  TInv'
<1>1. /\ pc'[t] = "dropped" /\ pc' = [pc EXCEPT ![t] = pc'[t]]
      /\ task' = [task EXCEPT ![t] = task'[t]] /\ task'[t] \in Tasks
  BY DEF Drop, TInv, TypeOK
<1>2. pc'[t] \in Labels /\ ProgressOf(t)'
  BY <1>1 DEF Labels, ProgressOf, HasOutcome, HasIds
<1> QED
  BY <1>1, <1>2, QuietStep DEF Drop

-----------------------------------------------------------------------------
(* The two actions that write the maps.                                      *)

\* The part of the types that is about the maps.
MapTypes ==
  /\ DOMAIN sessions \subseteq ResponseIds /\ \A r \in DOMAIN sessions : sessions[r] \in Sessions
  /\ DOMAIN responses \subseteq ResponseIds /\ \A r \in DOMAIN responses : responses[r] \in Jsons
  /\ DOMAIN turns \subseteq TurnIds /\ \A u \in DOMAIN turns : turns[u] \in Records

LEMMA CommitCompletedTypes ==
  ASSUME MapTypes, NEW session \in Sessions, NEW record \in Records,
         CommitCompleted(session, record)
  PROVE  MapTypes'
<1>1. /\ session.response_id \in ResponseIds
      /\ session.final_response_json \in Jsons
      /\ record.turn_id \in TurnIds
  BY DEF Sessions, Records
<1>2. /\ sessions' = Put(sessions, session.response_id, session)
      /\ responses' = Put(responses, session.response_id, session.final_response_json)
      /\ turns' = Put(turns, record.turn_id, record)
  BY DEF CommitCompleted
<1>3. DOMAIN sessions' \subseteq ResponseIds /\ \A r \in DOMAIN sessions' : sessions'[r] \in Sessions
  BY <1>1, <1>2 DEF MapTypes, Put
<1>4. DOMAIN responses' \subseteq ResponseIds /\ \A r \in DOMAIN responses' : responses'[r] \in Jsons
  BY <1>1, <1>2 DEF MapTypes, Put
<1>5. DOMAIN turns' \subseteq TurnIds /\ \A u \in DOMAIN turns' : turns'[u] \in Records
  BY <1>1, <1>2 DEF MapTypes, Put
<1> QED
  BY <1>3, <1>4, <1>5 DEF MapTypes

LEMMA CommitTerminalTypes ==
  ASSUME MapTypes, NEW response_id \in ResponseIds, NEW response \in Jsons,
         NEW record \in Records, CommitTerminal(response_id, response, record)
  PROVE  MapTypes'
<1>1. record.turn_id \in TurnIds
  BY DEF Records
<1>2. /\ sessions' = sessions
      /\ responses' = Put(responses, response_id, response)
      /\ turns' = Put(turns, record.turn_id, record)
  BY DEF CommitTerminal
<1>3. DOMAIN sessions' \subseteq ResponseIds /\ \A r \in DOMAIN sessions' : sessions'[r] \in Sessions
  BY <1>2 DEF MapTypes
<1>4. DOMAIN responses' \subseteq ResponseIds /\ \A r \in DOMAIN responses' : responses'[r] \in Jsons
  BY <1>2 DEF MapTypes, Put
<1>5. DOMAIN turns' \subseteq TurnIds /\ \A u \in DOMAIN turns' : turns'[u] \in Records
  BY <1>1, <1>2 DEF MapTypes, Put
<1> QED
  BY <1>3, <1>4, <1>5 DEF MapTypes

LEMMA CommitKeeps ==
  ASSUME TInv, NEW t \in Turns, Commit(t)
  PROVE  TInv'
<1>1. pc[t] = "commit" /\ pc[t] \in HasOutcome
  BY DEF Commit, Fail, Go, HasOutcome, HasIds
<1>2. CASE Fail(t, "commit", "internal_error") /\ UNCHANGED maps
  <2>1. "commit" \in HasIds /\ "internal_error" \in Codes
    BY DEF HasIds, Codes, UpstreamErrors
  <2> QED
    BY <1>2, <2>1, FailMoves, QuietStep DEF Commit
<1>3. CASE /\ Go(t, "commit", "sink")
           /\ CommitCompleted(Session(t), TurnRecord(t))
           /\ UNCHANGED task
  <2>1. /\ pc'[t] = "sink" /\ pc' = [pc EXCEPT ![t] = pc'[t]]
        /\ task' = task /\ task' = [task EXCEPT ![t] = task'[t]]
    BY <1>3 DEF Go, TInv, TypeOK
  <2>2. task[t].outcome = "Completed" /\ task[t].code = "none"
    BY <1>1 DEF TInv, Progress, ProgressOf
  <2>3. pc'[t] \in Labels /\ ProgressOf(t)'
    BY <1>1, <2>1, <2>2, OutcomeFacts DEF Labels, ProgressOf
  <2>4. /\ pc' \in [Turns -> Labels]
        /\ task' \in [Turns -> Tasks]
        /\ Progress'
    BY <1>1, <2>1, <2>3, OutcomeFacts, OneTurnMoves
  <2>5. MapTypes'
    <3>1. /\ Session(t) \in Sessions
          /\ TurnRecord(t) \in Records
      BY <1>1, RecordTypes
    <3>2. MapTypes
      BY DEF TInv, TypeOK, MapTypes
    <3> QED
      BY <1>3, <3>1, <3>2, CommitCompletedTypes
  <2> QED
    BY <2>4, <2>5 DEF Commit, TInv, TypeOK, MapTypes, Silent, eventVars
<1> QED
  BY <1>2, <1>3 DEF Commit

LEMMA PutTerminalKeeps ==
  ASSUME TInv, NEW t \in Turns, PutTerminal(t)
  PROVE  TInv'
<1>1. /\ pc[t] = "put" /\ pc'[t] = "done" /\ pc' = [pc EXCEPT ![t] = pc'[t]]
      /\ \E result \in {"ok", "err"} : task' = [task EXCEPT ![t].result = result]
  BY DEF PutTerminal, Go, TInv, TypeOK
<1>2. pc[t] \in HasOutcome /\ task \in [Turns -> Tasks]
  BY <1>1 DEF HasOutcome, HasIds, TInv, TypeOK
<1>3. /\ task' = [task EXCEPT ![t] = task'[t]]
      /\ task'[t] \in Tasks
      /\ task'[t].response_id = task[t].response_id /\ task'[t].turn_id = task[t].turn_id
      /\ task'[t].outcome = task[t].outcome
  BY <1>1, <1>2, ResultMoves
<1>4. pc'[t] \in Labels /\ ProgressOf(t)'
  BY <1>1, <1>2, <1>3, OutcomeFacts DEF Labels, ProgressOf
<1>5. /\ pc' \in [Turns -> Labels]
      /\ task' \in [Turns -> Tasks]
      /\ Progress'
  BY <1>1, <1>3, <1>4, OneTurnMoves
<1>6. MapTypes'
  <2>0. MapTypes
    BY DEF TInv, TypeOK, MapTypes
  <2>1. /\ ResponseJson(TurnRecord(t)) \in Jsons
        /\ TurnRecord(t) \in Records
        /\ task[t].response_id \in ResponseIds
    BY <1>2, RecordTypes, OutcomeFacts
  <2>3. CASE CommitTerminal(task[t].response_id, ResponseJson(TurnRecord(t)), TurnRecord(t))
    BY <2>0, <2>1, <2>3, CommitTerminalTypes
  <2>4. CASE UNCHANGED maps
    BY <2>4, <2>0 DEF maps, MapTypes
  <2> QED
    BY <2>3, <2>4 DEF PutTerminal
<1> QED
  BY <1>5, <1>6 DEF PutTerminal, TInv, TypeOK, MapTypes, Silent, eventVars

-----------------------------------------------------------------------------

LEMMA TypesInit == Init => TInv
<1> SUFFICES ASSUME Init PROVE TInv
  OBVIOUS
<1>1. NoTask \in Tasks
  BY ItemTypes DEF NoTask, Tasks, Codes, UpstreamErrors
<1>2. TypeOK
  BY <1>1 DEF Init, MapsInit, EmptyMap, TypeOK, Labels
<1>3. Progress
  BY DEF Init, Progress, ProgressOf, HasIds, HasOutcome
<1> QED
  BY <1>2, <1>3 DEF TInv

LEMMA TypesStep == TInv /\ [Next]_vars => TInv'
<1> SUFFICES ASSUME TInv, [Next]_vars PROVE TInv'
  OBVIOUS
<1>1. CASE \E t \in Turns : Step(t)
  <2>1. PICK t \in Turns : Step(t)
    BY <1>1
  <2> QED
    BY <2>1, PostKeeps, LookupKeeps, StartKeeps, EmitCreatedKeeps, CompileKeeps,
       AnsweredKeeps, NotAnsweredKeeps, EmitOutputKeeps, EmitIncompleteKeeps,
       EmitFailedKeeps, CommitKeeps, NotifySinkKeeps, EmitCompletedKeeps,
       PutTerminalKeeps, DropKeeps
    DEF Step, OwnStep, EmitStep, SubstrateStep
<1>2. CASE UNCHANGED vars
  BY <1>2 DEF vars, maps, taskVars, eventVars, TInv, TypeOK, Progress, ProgressOf, TerminalCode
<1> QED
  BY <1>1, <1>2 DEF Next, Rest

\* Every variable of the turns and of the store holds values of its kind.
THEOREM TypesHold == Spec => []TypeOK
<1>1. TInv => TypeOK
  BY DEF TInv
<1> QED
  BY TypesInit, TypesStep, <1>1, PTL DEF Spec

-----------------------------------------------------------------------------
(* What the turns leave in the store.                                        *)

\* A turn writes the maps through one of the two commits or not at all.
LEMMA MapsStep ==
  ASSUME NEW t \in Turns, Step(t)
  PROVE  \/ /\ pc[t] = "commit"
            /\ CommitCompleted(Session(t), TurnRecord(t))
         \/ /\ pc[t] = "put"
            /\ CommitTerminal(task[t].response_id, ResponseJson(TurnRecord(t)), TurnRecord(t))
         \/ UNCHANGED maps
<1>1. CASE Commit(t)
  BY <1>1 DEF Commit, Go
<1>2. CASE PutTerminal(t)
  BY <1>2 DEF PutTerminal, Go
<1>3. CASE \/ Post(t) \/ Lookup(t) \/ Start(t) \/ EmitCreated(t) \/ Compile(t)
           \/ Answered(t) \/ NotAnswered(t) \/ EmitOutput(t) \/ EmitIncomplete(t)
           \/ EmitFailed(t) \/ NotifySink(t) \/ EmitCompleted(t) \/ Drop(t)
  BY <1>3 DEF Post, Lookup, Start, EmitCreated, Compile, Answered, NotAnswered, EmitOutput,
     EmitIncomplete, EmitFailed, NotifySink, EmitCompleted, Drop
<1> QED
  BY <1>1, <1>2, <1>3 DEF Step, OwnStep, EmitStep, SubstrateStep

\* What every step of the service does to the maps.
LEMMA MapsKept ==
  ASSUME [Next]_vars
  PROVE  /\ MapsAgree => MapsAgree'
         /\ Keeps(sessions, sessions') /\ Keeps(responses, responses') /\ Keeps(turns, turns')
<1>1. CASE \E t \in Turns : Step(t)
  <2>1. PICK t \in Turns : Step(t)
    BY <1>1
  <2> QED
    BY <2>1, MapsStep, CommitCompletedKeeps, CommitTerminalKeeps, CommitCompletedAgrees,
       CommitTerminalAgrees, MapsUnchanged
<1>2. CASE UNCHANGED vars
  <2>1. UNCHANGED maps
    BY <1>2 DEF vars
  <2> QED
    BY <2>1, MapsUnchanged
<1> QED
  BY <1>1, <1>2 DEF Next, Rest

\* The three maps agree at all times, whichever ids the turns draw: no
\* session without its response, no response without its one turn record.
THEOREM MapsAgreeHolds == Spec => []MapsAgree
<1>1. Init => MapsAgree
  BY EmptyMapsAgree DEF Init
<1>2. MapsAgree /\ [Next]_vars => MapsAgree'
  BY MapsKept
<1> QED
  BY <1>1, <1>2, PTL DEF Spec

\* No turn replaces or removes what another has stored.
THEOREM StoredStaysHolds == Spec => StoredStays
<1>1. [Next]_vars =>
        [Keeps(sessions, sessions') /\ Keeps(responses, responses') /\ Keeps(turns, turns')]_maps
  BY MapsKept
<1> QED
  BY <1>1, PTL DEF Spec, StoredStays

-----------------------------------------------------------------------------
(* A completed event is stored.                                              *)

\* The store has the session and the response of a completed answer.
Fetched(response_id, output) ==
  /\ response_id \in DOMAIN sessions
  /\ response_id \in DOMAIN responses
  /\ responses[response_id] =
       [id |-> response_id, status |-> "completed", output |-> output, code |-> "none"]

\* The strengthening: what a turn is going to announce is stored already,
\* from its commit on.
AnnouncedIsStored ==
  \A t \in Turns : pc[t] \in {"sink", "completed"} =>
    Fetched(task[t].response_id, task[t].output)

EventsAreStored ==
  \A t \in Turns : \A i \in DOMAIN events[t] :
    events[t][i].type = "completed" => Fetched(events[t][i].response_id, events[t][i].output)

SInv == TInv /\ AnnouncedIsStored /\ EventsAreStored

\* What is fetched once can be fetched ever after.
LEMMA FetchedStays ==
  ASSUME [Next]_vars, NEW response_id, NEW output, Fetched(response_id, output)
  PROVE  Fetched(response_id, output)'
BY MapsKept DEF Keeps, Fetched

\* The commit of a completed turn stores what the turn will announce.
LEMMA CommitStores ==
  ASSUME TInv, NEW t \in Turns, Commit(t), pc'[t] = "sink"
  PROVE  Fetched(task[t].response_id, task[t].output)' /\ UNCHANGED task
<1>1. /\ pc[t] = "commit"
      /\ CommitCompleted(Session(t), TurnRecord(t))
      /\ UNCHANGED task
  BY DEF Commit, Fail, Go, ToldFirst, TInv, TypeOK
<1>2. task[t].outcome = "Completed" /\ task[t].code = "none"
  BY <1>1 DEF TInv, Progress, ProgressOf
<1>3. ResponseJson(TurnRecord(t)) =
        [id |-> task[t].response_id, status |-> "completed", output |-> task[t].output,
         code |-> "none"]
  BY <1>2 DEF ResponseJson, TurnRecord, Status, RecordedOutput
<1>4. /\ Session(t).response_id = task[t].response_id
      /\ Session(t).final_response_json = ResponseJson(TurnRecord(t))
  BY DEF Session
<1> QED
  BY <1>1, <1>3, <1>4 DEF CommitCompleted, Put, Fetched

\* A turn comes to announce nothing but by its commit.
LEMMA AnnouncedStep ==
  ASSUME SInv, [Next]_vars
  PROVE  AnnouncedIsStored'
<1> SUFFICES ASSUME NEW u \in Turns, pc'[u] \in {"sink", "completed"}
             PROVE  Fetched(task[u].response_id, task[u].output)'
  BY DEF AnnouncedIsStored
<1>1. CASE pc'[u] = pc[u] /\ task'[u] = task[u]
  BY <1>1, FetchedStays DEF SInv, AnnouncedIsStored, Fetched
<1>2. CASE ~ (pc'[u] = pc[u] /\ task'[u] = task[u])
  <2>1. Step(u)
    <3>1. PICK t \in Turns : Step(t)
      BY <1>2 DEF Next, Rest, vars, taskVars
    <3>2. t # u => pc'[u] = pc[u] /\ task'[u] = task[u]
      <4>1. CASE Post(t) \/ Lookup(t) \/ Start(t) \/ EmitCreated(t) \/ Compile(t)
        BY <4>1 DEF Post, Lookup, Start, EmitCreated, Compile, Fail, Go, SInv, TInv, TypeOK
      <4>2. CASE Answered(t) \/ NotAnswered(t) \/ EmitOutput(t) \/ EmitIncomplete(t)
        BY <4>2 DEF Answered, NotAnswered, EmitOutput, EmitIncomplete, Fail, Go, SInv, TInv,
           TypeOK
      <4>3. CASE EmitFailed(t) \/ Commit(t) \/ NotifySink(t)
        BY <4>3 DEF EmitFailed, Commit, NotifySink, Fail, Go, SInv, TInv, TypeOK
      <4>4. CASE EmitCompleted(t) \/ PutTerminal(t) \/ Drop(t)
        BY <4>4 DEF EmitCompleted, PutTerminal, Drop, Fail, Go, SInv, TInv, TypeOK
      <4> QED
        BY <3>1, <4>1, <4>2, <4>3, <4>4 DEF Step, OwnStep, EmitStep, SubstrateStep
    <3> QED
      BY <1>2, <3>1, <3>2
  <2>2. CASE Commit(u)
    <3>1. pc'[u] = "sink"
      BY <2>2 DEF Commit, Fail, Go, ToldFirst, SInv, TInv, TypeOK
    <3> QED
      BY <2>2, <3>1, CommitStores DEF SInv
  <2>3. CASE NotifySink(u)
    <3>1. /\ pc[u] = "sink"
          /\ task'[u].response_id = task[u].response_id /\ task'[u].output = task[u].output
      BY <2>3 DEF NotifySink, SInv, TInv, TypeOK, Tasks
    <3> QED
      BY <3>1, FetchedStays DEF SInv, AnnouncedIsStored, Fetched
  <2>4. ~ (Post(u) \/ Lookup(u) \/ Start(u) \/ EmitCreated(u) \/ Compile(u) \/ NotAnswered(u)
           \/ EmitIncomplete(u) \/ EmitFailed(u) \/ EmitCompleted(u) \/ PutTerminal(u) \/ Drop(u))
    BY DEF Post, Lookup, Start, EmitCreated, Compile, NotAnswered, EmitIncomplete, EmitFailed,
       EmitCompleted, PutTerminal, Drop, Fail, Go, ToldFirst, SInv, TInv, TypeOK
  <2>5. ~ (Answered(u) \/ EmitOutput(u))
    <3>1. task[u].stream \in BOOLEAN /\ (pc[u] = "emitting" => task[u].outcome \in Outcomes)
      BY DEF SInv, TInv, TypeOK, Tasks, Progress, ProgressOf, HasOutcome, HasIds
    <3>2. \A outcome \in Outcomes :
            Conclude(u, outcome) \in {"commit", "incomplete", "fail", "put"}
      BY <3>1, Conclusion
    <3>3. ~ Answered(u)
      BY <3>2 DEF Answered, Go, Outcomes, SInv, TInv, TypeOK
    <3>4. ~ EmitOutput(u)
      BY <3>1, <3>2 DEF EmitOutput, Go, SInv, TInv, TypeOK
    <3> QED
      BY <3>3, <3>4
  <2> QED
    BY <2>1, <2>2, <2>3, <2>4, <2>5 DEF Step, OwnStep, EmitStep, SubstrateStep
<1> QED
  BY <1>1, <1>2

\* The only completed event a step emits is that of a turn whose answer is
\* stored; the events there were are where they were.
LEMMA EventsStep ==
  ASSUME SInv, [Next]_vars
  PROVE  EventsAreStored'
<1> SUFFICES ASSUME NEW u \in Turns, NEW i \in DOMAIN events'[u],
                    events'[u][i].type = "completed"
             PROVE  Fetched(events[u][i].response_id, events[u][i].output)'
  BY DEF EventsAreStored
<1>1. CASE i \in DOMAIN events[u] /\ events'[u][i] = events[u][i]
  BY <1>1, FetchedStays DEF SInv, EventsAreStored, Fetched
<1>2. CASE ~ (i \in DOMAIN events[u] /\ events'[u][i] = events[u][i])
  <2>1. PICK t \in Turns : Step(t)
    BY <1>2 DEF Next, Rest, vars, eventVars
  <2>2. ~ UNCHANGED events
    BY <1>2
  <2>3. PICK event : /\ Emit(t, event)
                     /\ \/ event.type # "completed"
                        \/ event = CompletedEvent(t) /\ pc[t] = "completed"
    <3>1. ~ Silent
      BY <2>2 DEF Silent, eventVars
    <3>2. \/ EmitCreated(t) \/ EmitOutput(t) \/ EmitIncomplete(t) \/ EmitFailed(t)
          \/ EmitCompleted(t)
      BY <2>1, <3>1 DEF Step, OwnStep, EmitStep, SubstrateStep,
           Post, Lookup, Start, Compile, Answered, NotAnswered,
         Commit, NotifySink, PutTerminal, Drop
    <3>3. /\ CreatedEvent(t).type # "completed"
          /\ OutputEvent(t).type # "completed"
          /\ IncompleteEvent(t).type # "completed"
          /\ FailedEvent(t).type # "completed"
      BY DEF CreatedEvent, OutputEvent, IncompleteEvent, FailedEvent, Event
    <3>4. CASE EmitCompleted(t)
      BY <3>4 DEF EmitCompleted, Go
    <3>5. CASE EmitCreated(t)
      BY <3>3, <3>5 DEF EmitCreated
    <3>6. CASE EmitOutput(t)
      BY <3>3, <3>6 DEF EmitOutput
    <3>7. CASE EmitIncomplete(t)
      BY <3>3, <3>7 DEF EmitIncomplete
    <3>8. CASE EmitFailed(t)
      BY <3>3, <3>8 DEF EmitFailed
    <3> QED
      BY <3>2, <3>4, <3>5, <3>6, <3>7, <3>8
  <2>4. /\ events \in [Turns -> Seq(Events)]
        /\ events' = [events EXCEPT ![t] = Append(@, WithSequenceNumber(event, sequence_number[t]))]
    BY <2>3 DEF Emit, SInv, TInv, TypeOK
  <2>5. u = t /\ events'[u][i] = WithSequenceNumber(event, sequence_number[t])
    <3>1. u = t
      BY <1>2, <2>4
    <3>2. events[t] \in Seq(Events)
          /\ events'[t] = Append(events[t], WithSequenceNumber(event, sequence_number[t]))
      BY <2>4
    <3> QED
      BY <1>2, <3>1, <3>2
  <2>6. /\ pc[t] = "completed"
        /\ events'[u][i].response_id = task[t].response_id
        /\ events'[u][i].output = task[t].output
    BY <2>3, <2>5 DEF WithSequenceNumber, CompletedEvent, Event
  <2> QED
    BY <2>6, FetchedStays DEF SInv, AnnouncedIsStored, Fetched
<1> QED
  BY <1>1, <1>2

\* A client that has read response.completed can fetch the response and
\* continue the session, from then on and whatever other turns do.
THEOREM CompletedEventIsStoredHolds == Spec => []CompletedEventIsStored
<1>1. Init => SInv
  <2>1. Init => AnnouncedIsStored /\ EventsAreStored
    BY DEF Init, AnnouncedIsStored, EventsAreStored
  <2> QED
    BY <2>1, TypesInit DEF SInv
<1>2. SInv /\ [Next]_vars => SInv'
  BY TypesStep, AnnouncedStep, EventsStep DEF SInv
<1>3. SInv => CompletedEventIsStored
  BY DEF SInv, EventsAreStored, Fetched, CompletedEventIsStored
<1> QED
  BY <1>1, <1>2, <1>3, PTL DEF Spec

-----------------------------------------------------------------------------
(* What a step does to the turn that takes it, and to the others.            *)

\* A turn moves its own variables only.
LEMMA OthersStay ==
  ASSUME TypeOK, NEW t \in Turns, Step(t), NEW u \in Turns, u # t
  PROVE  /\ pc'[u] = pc[u] /\ task'[u] = task[u]
         /\ events'[u] = events[u] /\ sequence_number'[u] = sequence_number[u]
<1>1. CASE Post(t) \/ Lookup(t) \/ Start(t) \/ Compile(t)
  BY <1>1 DEF Post, Lookup, Start, Compile, Fail, Go, Silent, eventVars, TypeOK
<1>2. CASE Answered(t) \/ NotAnswered(t) \/ Commit(t) \/ Drop(t)
  BY <1>2 DEF Answered, NotAnswered, Commit, Drop, Fail, Go, Silent, eventVars, TypeOK
<1>3. CASE NotifySink(t) \/ PutTerminal(t)
  BY <1>3 DEF NotifySink, PutTerminal, Go, Silent, eventVars, TypeOK
<1>4. CASE EmitCreated(t) \/ EmitOutput(t) \/ EmitIncomplete(t)
  BY <1>4 DEF EmitCreated, EmitOutput, EmitIncomplete, Emit, Go, TypeOK
<1>5. CASE EmitFailed(t) \/ EmitCompleted(t)
  BY <1>5 DEF EmitFailed, EmitCompleted, Emit, Go, TypeOK
<1> QED
  BY <1>1, <1>2, <1>3, <1>4, <1>5 DEF Step, OwnStep, EmitStep, SubstrateStep

\* What names a turn, and what is known of its answer.
SameTurn(t) ==
  /\ task'[t].stream = task[t].stream
  /\ task'[t].response_id = task[t].response_id
  /\ task'[t].turn_id = task[t].turn_id
  /\ task'[t].parent = task[t].parent
SameAnswer(t) ==
  /\ task'[t].outcome = task[t].outcome
  /\ task'[t].code = task[t].code
  /\ task'[t].output = task[t].output
  /\ task'[t].transcript = task[t].transcript

\* A step that tells nothing, but for the result.
Quiet(t) ==
  /\ events'[t] = events[t] /\ sequence_number'[t] = sequence_number[t]
  /\ task'[t].result = task[t].result

\* A step that tells one event.
Tells(t, event) ==
  /\ events'[t] = Append(events[t], WithSequenceNumber(event, sequence_number[t]))
  /\ sequence_number'[t] = sequence_number[t] + 1

\* Before a turn has its ids.
BeforeIds(t) ==
  /\ pc[t] \in {"idle", "lookup"} /\ pc'[t] \in {"lookup", "start", "refused", "dropped"}
  /\ Quiet(t)
  /\ \/ task'[t].parent = task[t].parent
     \/ \E r \in DOMAIN sessions : task'[t].parent = sessions[r]

Named(t) ==
  /\ pc[t] = "start"
  /\ \/ pc'[t] = IF task[t].stream THEN "created" ELSE "seed"
     \/ /\ pc'[t] = ToldFirst(t)
        /\ task'[t].outcome = "Failed" /\ task'[t].code = "unknown_model"
  /\ Quiet(t)
  /\ task'[t].stream = task[t].stream /\ task'[t].parent = task[t].parent

Created(t) ==
  /\ pc[t] = "created" /\ pc'[t] = "seed"
  /\ Tells(t, CreatedEvent(t)) /\ task'[t] = task[t]

\* From the compilation to the end of the answer, or to its refusal by the
\* store.
Worked(t) ==
  /\ pc[t] \in {"seed", "upstream", "commit"}
  /\ \/ pc'[t] = "upstream"
     \/ pc'[t] = "emitting" /\ task[t].stream
     \/ pc'[t] = "commit"
     \/ pc'[t] = "incomplete" /\ task[t].stream
     \/ pc'[t] = "put" /\ ~ task[t].stream
     \/ pc'[t] = "fail" /\ task[t].stream
  /\ Quiet(t) /\ SameTurn(t)

Committed(t) ==
  /\ pc[t] = "commit" /\ pc'[t] = "sink"
  /\ Quiet(t) /\ task'[t] = task[t]

OutputTold(t) ==
  /\ pc[t] = "emitting" /\ task[t].stream
  /\ pc'[t] \in {"emitting", "commit", "incomplete", "fail"}
  /\ Tells(t, OutputEvent(t)) /\ SameTurn(t) /\ SameAnswer(t)
  /\ task'[t].result = task[t].result

EndTold(t) ==
  /\ \/ pc[t] = "incomplete" /\ Tells(t, IncompleteEvent(t))
     \/ pc[t] = "fail" /\ Tells(t, FailedEvent(t))
  /\ pc'[t] = "put" /\ task'[t] = task[t]

SinkTold(t) ==
  /\ pc[t] = "sink" /\ pc'[t] = IF task[t].stream THEN "completed" ELSE "done"
  /\ events'[t] = events[t] /\ sequence_number'[t] = sequence_number[t]
  /\ task'[t].result = IF task[t].stream THEN task[t].result ELSE "ok"
  /\ SameTurn(t) /\ SameAnswer(t)

CompletedTold(t) ==
  /\ pc[t] = "completed" /\ pc'[t] = "done"
  /\ Tells(t, CompletedEvent(t))
  /\ task'[t].result = "ok" /\ SameTurn(t) /\ SameAnswer(t)

Recorded(t) ==
  /\ pc[t] = "put" /\ pc'[t] = "done"
  /\ events'[t] = events[t] /\ sequence_number'[t] = sequence_number[t]
  /\ task'[t].result \in {"ok", "err"} /\ SameTurn(t) /\ SameAnswer(t)

Dropped(t) ==
  /\ pc[t] \in {"seed", "upstream", "commit", "sink", "put"} /\ pc'[t] = "dropped"
  /\ ~ task[t].stream
  /\ Quiet(t) /\ task'[t] = task[t]

Moved(t) ==
  \/ BeforeIds(t) \/ Named(t) \/ Created(t) \/ Worked(t) \/ Committed(t) \/ OutputTold(t)
  \/ EndTold(t) \/ SinkTold(t) \/ CompletedTold(t) \/ Recorded(t) \/ Dropped(t)

\* A field of one turn is assigned: the fields that are not stay.
LEMMA FieldsStay ==
  ASSUME task \in [Turns -> Tasks], NEW t \in Turns, NEW value
  PROVE  /\ task' = [task EXCEPT ![t].result = value] =>
              SameTurn(t) /\ SameAnswer(t) /\ task'[t].result = value
         /\ task' = [task EXCEPT ![t].unsent = value] =>
              SameTurn(t) /\ SameAnswer(t) /\ task'[t].result = task[t].result
         /\ task' = [task EXCEPT ![t].transcript = value] =>
              SameTurn(t) /\ task'[t].result = task[t].result
         /\ task' = [task EXCEPT ![t].parent = value] =>
              task'[t].parent = value /\ task'[t].result = task[t].result
         /\ task' = [task EXCEPT ![t].code = value] =>
              task'[t].parent = task[t].parent /\ task'[t].result = task[t].result
         /\ task' = task => SameTurn(t) /\ SameAnswer(t) /\ task'[t].result = task[t].result
<1>1. task[t] \in Tasks
  OBVIOUS
<1> QED
  BY <1>1 DEF SameTurn, SameAnswer, Tasks

LEMMA FailedStays ==
  ASSUME TInv, NEW t \in Turns, NEW from \in {"seed", "upstream", "commit"}, NEW code,
         Fail(t, from, code), Silent
  PROVE  Worked(t)
<1>1. task \in [Turns -> Tasks] /\ pc \in [Turns -> Labels]
  BY DEF TInv, TypeOK
<1>2. task[t] \in Tasks /\ task'[t] = [task[t] EXCEPT !.outcome = "Failed", !.code = code]
  BY <1>1 DEF Fail
<1>3. SameTurn(t) /\ task'[t].result = task[t].result
  BY <1>2 DEF SameTurn, Tasks
<1>4. /\ pc[t] = from
      /\ \/ pc'[t] = "put" /\ ~ task[t].stream
         \/ pc'[t] = "fail" /\ task[t].stream
  BY <1>1 DEF Fail, Go, ToldFirst
<1> QED
  BY <1>3, <1>4 DEF Worked, Quiet, Silent, eventVars

LEMMA PostMoves ==
  ASSUME TInv, NEW t \in Turns, Post(t)
  PROVE  BeforeIds(t)
<1>1. task \in [Turns -> Tasks] /\ pc \in [Turns -> Labels]
  BY DEF TInv, TypeOK
<1>2. task'[t].result = task[t].result /\ task'[t].parent = task[t].parent
  <2>1. task[t] \in Tasks
    BY <1>1
  <2>2. \/ \E stream \in BOOLEAN, previous \in ResponseIds \cup {NoId} :
             task'[t] = [task[t] EXCEPT !.stream = stream, !.previous = previous]
        \/ \E code \in RequestErrors : task'[t] = [task[t] EXCEPT !.code = code]
    BY <1>1 DEF Post
  <2> QED
    BY <2>1, <2>2 DEF Tasks
<1>3. pc[t] = "idle" /\ pc'[t] \in {"lookup", "start", "refused"}
  BY <1>1 DEF Post, Go
<1> QED
  BY <1>2, <1>3 DEF Post, BeforeIds, Quiet, Silent, eventVars

LEMMA LookupMoves ==
  ASSUME TInv, NEW t \in Turns, Lookup(t)
  PROVE  BeforeIds(t)
<1>1. task \in [Turns -> Tasks] /\ pc \in [Turns -> Labels]
  BY DEF TInv, TypeOK
<1>2. /\ task'[t].result = task[t].result
      /\ \/ task'[t].parent = task[t].parent
         \/ \E r \in DOMAIN sessions : task'[t].parent = sessions[r]
  BY <1>1, FieldsStay DEF Lookup
<1>3. pc[t] = "lookup" /\ pc'[t] \in {"start", "refused"}
  BY <1>1 DEF Lookup, Go
<1> QED
  BY <1>2, <1>3 DEF Lookup, BeforeIds, Quiet, Silent, eventVars

LEMMA StartMoves ==
  ASSUME TInv, NEW t \in Turns, Start(t)
  PROVE  Named(t)
<1>1. task \in [Turns -> Tasks] /\ pc \in [Turns -> Labels]
  BY DEF TInv, TypeOK
<1>2. PICK response_id \in NewResponseId[t], turn_id \in NewTurnId[t], known \in BOOLEAN :
    /\ Silent
    /\ IF known
         THEN /\ Go(t, "start", IF task[t].stream THEN "created" ELSE "seed")
              /\ task' = [task EXCEPT ![t].response_id = response_id, ![t].turn_id = turn_id]
         ELSE /\ Go(t, "start", ToldFirst(t))
              /\ task' = [task EXCEPT ![t].response_id = response_id, ![t].turn_id = turn_id,
                                      ![t].outcome = "Failed", ![t].code = "unknown_model"]
  BY DEF Start
<1>3. task[t] \in Tasks
  BY <1>1
<1>4. CASE known
  <2>1. task'[t] = [task[t] EXCEPT !.response_id = response_id, !.turn_id = turn_id]
    BY <1>1, <1>2, <1>4
  <2>2. /\ task'[t].stream = task[t].stream /\ task'[t].result = task[t].result
        /\ task'[t].parent = task[t].parent
    BY <1>3, <2>1 DEF Tasks
  <2>3. pc[t] = "start" /\ pc'[t] = IF task[t].stream THEN "created" ELSE "seed"
    BY <1>1, <1>2, <1>4 DEF Go
  <2> QED
    BY <1>2, <2>2, <2>3 DEF Named, Quiet, Silent, eventVars
<1>5. CASE ~ known
  <2>1. task'[t] = [task[t] EXCEPT !.response_id = response_id, !.turn_id = turn_id,
                                   !.outcome = "Failed", !.code = "unknown_model"]
    BY <1>1, <1>2, <1>5
  <2>2. /\ task'[t].stream = task[t].stream /\ task'[t].result = task[t].result
        /\ task'[t].outcome = "Failed" /\ task'[t].code = "unknown_model"
        /\ task'[t].parent = task[t].parent
    BY <1>3, <2>1 DEF Tasks
  <2>3. pc[t] = "start" /\ pc'[t] = ToldFirst(t)
    BY <1>1, <1>2, <1>5 DEF Go
  <2> QED
    BY <1>2, <2>2, <2>3 DEF Named, Quiet, Silent, eventVars
<1> QED
  BY <1>4, <1>5

LEMMA CompileMoves ==
  ASSUME TInv, NEW t \in Turns, Compile(t)
  PROVE  Worked(t)
<1>1. task \in [Turns -> Tasks] /\ pc \in [Turns -> Labels]
  BY DEF TInv, TypeOK
<1>2. CASE \E code \in {"seed_error", "unsupported_tool"} : Fail(t, "seed", code)
  BY <1>2, FailedStays DEF Compile
<1>3. CASE \E seed \in {<<>>, SeedItems(t)} :
             /\ Go(t, "seed", "upstream")
             /\ task' = [task EXCEPT ![t].transcript = ParentItems(t) \o seed \o RequestItems(t)]
  <2>1. SameTurn(t) /\ task'[t].result = task[t].result
    BY <1>1, <1>3, FieldsStay
  <2>2. pc[t] = "seed" /\ pc'[t] = "upstream"
    BY <1>1, <1>3 DEF Go
  <2> QED
    BY <2>1, <2>2 DEF Compile, Worked, Quiet, Silent, eventVars
<1> QED
  BY <1>2, <1>3 DEF Compile

\* Where an answer leads.
LEMMA Conclusions ==
  ASSUME TInv, NEW t \in Turns, NEW outcome \in Outcomes
  PROVE  \/ Conclude(t, outcome) = "commit" /\ outcome = "Completed"
         \/ Conclude(t, outcome) = "incomplete" /\ outcome = "Incomplete" /\ task[t].stream
         \/ Conclude(t, outcome) = "fail" /\ outcome = "Failed" /\ task[t].stream
         \/ Conclude(t, outcome) = "put" /\ outcome # "Completed" /\ ~ task[t].stream
BY DEF Conclude, ToldFirst, Outcomes

LEMMA AnsweredMoves ==
  ASSUME TInv, NEW t \in Turns, Answered(t)
  PROVE  Worked(t)
<1>1. task \in [Turns -> Tasks] /\ pc \in [Turns -> Labels]
  BY DEF TInv, TypeOK
<1>2. PICK outcome \in Outcomes, output \in {<<>>, OutputItems(t)}, unsent \in Nat :
        /\ unsent > 0 => task[t].stream
        /\ Go(t, "upstream", IF unsent > 0 THEN "emitting" ELSE Conclude(t, outcome))
        /\ task' = [task EXCEPT ![t].outcome = outcome, ![t].code = TerminalCode(t, outcome),
                                ![t].output = output, ![t].unsent = unsent]
  BY AnAnswer
<1>3. SameTurn(t) /\ task'[t].result = task[t].result
  <2>1. /\ task[t] \in Tasks
        /\ task'[t] = [task[t] EXCEPT !.outcome = outcome, !.code = TerminalCode(t, outcome),
                                      !.output = output, !.unsent = unsent]
    BY <1>1, <1>2
  <2> QED
    BY <2>1 DEF SameTurn, Tasks
<1>4. /\ pc[t] = "upstream"
      /\ pc'[t] = IF unsent > 0 THEN "emitting" ELSE Conclude(t, outcome)
      /\ unsent > 0 => task[t].stream
  BY <1>1, <1>2 DEF Go
<1>5. Quiet(t)
  BY <1>3, AnAnswer DEF Quiet, Silent, eventVars
<1>6. CASE unsent > 0
  BY <1>3, <1>4, <1>5, <1>6 DEF Worked
<1>7. CASE ~ (unsent > 0)
  BY <1>3, <1>4, <1>5, <1>7, Conclusions DEF Worked
<1> QED
  BY <1>6, <1>7

LEMMA EmitOutputMoves ==
  ASSUME TInv, NEW t \in Turns, EmitOutput(t)
  PROVE  OutputTold(t)
<1>1. task \in [Turns -> Tasks] /\ pc \in [Turns -> Labels]
  BY DEF TInv, TypeOK
<1>2. pc[t] = "emitting"
  BY DEF EmitOutput, Go
<1>3. task[t].stream /\ task[t].outcome \in Outcomes
  BY <1>2 DEF TInv, Progress, ProgressOf, HasOutcome, HasIds
<1>4. pc'[t] \in {"emitting", "commit", "incomplete", "fail"}
  BY <1>1, <1>3, Conclusions DEF EmitOutput, Go
<1>5. SameTurn(t) /\ SameAnswer(t) /\ task'[t].result = task[t].result
  BY <1>1, FieldsStay DEF EmitOutput
<1>6. Tells(t, OutputEvent(t))
  BY DEF EmitOutput, Emit, Tells, TInv, TypeOK
<1> QED
  BY <1>2, <1>3, <1>4, <1>5, <1>6 DEF OutputTold

LEMMA CommitMoves ==
  ASSUME TInv, NEW t \in Turns, Commit(t)
  PROVE  \/ Committed(t) /\ CommitCompleted(Session(t), TurnRecord(t))
         \/ Worked(t) /\ pc'[t] # "sink" /\ UNCHANGED maps
<1>1. task \in [Turns -> Tasks] /\ pc \in [Turns -> Labels]
  BY DEF TInv, TypeOK
<1>2. CASE Fail(t, "commit", "internal_error") /\ UNCHANGED maps
  <2>1. pc'[t] # "sink"
    BY <1>1, <1>2 DEF Fail, Go, ToldFirst
  <2> QED
    BY <1>2, <2>1, FailedStays DEF Commit
<1>3. CASE Go(t, "commit", "sink") /\ UNCHANGED task /\ CommitCompleted(Session(t), TurnRecord(t))
  BY <1>1, <1>3 DEF Commit, Committed, Quiet, Go, Silent, eventVars
<1> QED
  BY <1>2, <1>3 DEF Commit

LEMMA NotifySinkMoves ==
  ASSUME TInv, NEW t \in Turns, NotifySink(t)
  PROVE  SinkTold(t)
<1>1. task \in [Turns -> Tasks] /\ pc \in [Turns -> Labels]
  BY DEF TInv, TypeOK
<1>2. \/ task[t].stream /\ task' = [task EXCEPT ![t].result = task[t].result]
      \/ ~ task[t].stream /\ task' = [task EXCEPT ![t].result = "ok"]
  BY DEF NotifySink
<1>3. /\ SameTurn(t) /\ SameAnswer(t)
      /\ task'[t].result = IF task[t].stream THEN task[t].result ELSE "ok"
  BY <1>1, <1>2, FieldsStay
<1> QED
  BY <1>1, <1>3 DEF NotifySink, SinkTold, Silent, eventVars

LEMMA EmitCompletedMoves ==
  ASSUME TInv, NEW t \in Turns, EmitCompleted(t)
  PROVE  CompletedTold(t)
<1>1. task \in [Turns -> Tasks] /\ pc \in [Turns -> Labels]
  BY DEF TInv, TypeOK
<1>2. SameTurn(t) /\ SameAnswer(t) /\ task'[t].result = "ok"
  BY <1>1, FieldsStay DEF EmitCompleted
<1>3. Tells(t, CompletedEvent(t))
  BY DEF EmitCompleted, Emit, Tells, TInv, TypeOK
<1> QED
  BY <1>1, <1>2, <1>3 DEF EmitCompleted, Go, CompletedTold

LEMMA PutTerminalMoves ==
  ASSUME TInv, NEW t \in Turns, PutTerminal(t)
  PROVE  Recorded(t)
<1>1. task \in [Turns -> Tasks] /\ pc \in [Turns -> Labels]
  BY DEF TInv, TypeOK
<1>2. SameTurn(t) /\ SameAnswer(t) /\ task'[t].result \in {"ok", "err"}
  BY <1>1, FieldsStay DEF PutTerminal
<1> QED
  BY <1>1, <1>2 DEF PutTerminal, Go, Recorded, Silent, eventVars

\* Every step of a turn is one of these.
LEMMA TurnMoves ==
  ASSUME TInv, NEW t \in Turns, Step(t)
  PROVE  Moved(t)
<1>1. task \in [Turns -> Tasks] /\ pc \in [Turns -> Labels]
  BY DEF TInv, TypeOK
<1>2. CASE EmitCreated(t)
  BY <1>1, <1>2 DEF EmitCreated, Emit, Tells, Go, Created, Moved, TInv, TypeOK
<1>3. CASE EmitIncomplete(t)
  BY <1>1, <1>3 DEF EmitIncomplete, Emit, Tells, Go, EndTold, Moved, TInv, TypeOK
<1>4. CASE EmitFailed(t)
  BY <1>1, <1>4 DEF EmitFailed, Emit, Tells, Go, EndTold, Moved, TInv, TypeOK
<1>5. CASE NotAnswered(t)
  BY <1>5, FailedStays DEF NotAnswered, Moved
<1>6. CASE Drop(t)
  <2>1. /\ pc'[t] = "dropped" /\ Quiet(t) /\ task'[t] = task[t]
        /\ \/ pc[t] = "lookup"
           \/ pc[t] \in {"seed", "upstream", "commit", "sink", "put"} /\ ~ task[t].stream
    BY <1>1, <1>6 DEF Drop, Quiet, Silent, eventVars
  <2> QED
    BY <2>1 DEF Moved, BeforeIds, Dropped
<1> QED
  BY <1>2, <1>3, <1>4, <1>5, <1>6, PostMoves, LookupMoves, StartMoves, CompileMoves,
     AnsweredMoves, EmitOutputMoves, CommitMoves, NotifySinkMoves, EmitCompletedMoves,
     PutTerminalMoves DEF Step, OwnStep, EmitStep, SubstrateStep, Moved

-----------------------------------------------------------------------------
(* The events of a turn are a stream.                                        *)

\* The awaits before anything is told, those at which a stream has begun, and
\* those at which its end has been told.
Untold == {"idle", "lookup", "refused", "start", "created", "dropped"}
Begun == {"seed", "upstream", "emitting", "incomplete", "commit", "sink", "completed"}
Ended == {"put", "done"}

\* The last event of a stream is about the outcome of its turn.
EndIsTold(t) == LET e == events[t][Len(events[t])] IN
  /\ events[t] # <<>>
  /\ e.type = Status(task[t].outcome)
  /\ e.output = RecordedOutput(t)
  /\ e.code = task[t].code

\* Each event has its place.
InPlace(t) == LET log == events[t] IN
  \A i \in DOMAIN log :
    /\ log[i].sequence_number = i - 1
    /\ log[i].response_id = task[t].response_id
    /\ log[i].type = "created" => i = 1
    /\ i = 1 => log[i].type = "created" \/ log[i].code = "unknown_model"
    /\ log[i].type \in TerminalTypes => i = Len(log) /\ pc[t] \in Ended

\* The strengthening: what has been told at each await.
LogOf(t) ==
  /\ sequence_number[t] = Len(events[t])
  /\ InPlace(t)
  /\ ~ task[t].stream =>
       /\ events[t] = <<>>
       /\ pc[t] \notin {"created", "emitting", "incomplete", "fail", "completed"}
  /\ pc[t] \in Untold => events[t] = <<>>
  /\ task[t].stream /\ pc[t] \in Begun => events[t] # <<>>
  /\ pc[t] = "fail" => events[t] # <<>> \/ task[t].code = "unknown_model"
  /\ task[t].stream /\ pc[t] \in Ended => EndIsTold(t)

EInv == TInv /\ \A t \in Turns : LogOf(t)

\* Nothing is told: the events are where they were, or there are none.
LEMMA QuietPlaces ==
  ASSUME NEW t \in Turns, LogOf(t), events'[t] = events[t],
         events[t] = <<>> \/ task'[t].response_id = task[t].response_id,
         events[t] = <<>> \/ pc[t] \notin Ended \/ pc'[t] \in Ended
  PROVE  InPlace(t)'
BY DEF LogOf, InPlace

\* One event is told.
LEMMA ToldInPlace ==
  ASSUME NEW t \in Turns, LogOf(t), events[t] \in Seq(Events), pc[t] \notin Ended,
         NEW type, NEW output, NEW code, Tells(t, Event(type, t, output, code)),
         task'[t].response_id = task[t].response_id,
         type = "created" => events[t] = <<>>,
         events[t] = <<>> => type = "created" \/ code = "unknown_model",
         type \in TerminalTypes => pc'[t] \in Ended
  PROVE  /\ InPlace(t)'
         /\ sequence_number'[t] = Len(events'[t])
         /\ events'[t] # <<>>
         /\ LET e == events'[t][Len(events'[t])] IN
              e.type = type /\ e.output = output /\ e.code = code
<1> DEFINE log == events[t]
           new == WithSequenceNumber(Event(type, t, output, code), sequence_number[t])
<1>1. /\ new.type = type /\ new.output = output /\ new.code = code
      /\ new.response_id = task[t].response_id
      /\ new.sequence_number = Len(log)
  BY DEF LogOf, WithSequenceNumber, Event
<1> HIDE DEF new
<1>2. /\ events'[t] = Append(log, new)
      /\ Len(events'[t]) = Len(log) + 1
      /\ DOMAIN events'[t] = 1..(Len(log) + 1)
      /\ events'[t][Len(log) + 1] = new
      /\ \A i \in 1..Len(log) : events'[t][i] = log[i]
      /\ DOMAIN log = 1..Len(log) /\ Len(log) \in Nat
  BY DEF Tells, new
<1>3. ASSUME NEW i \in 1..Len(log)
      PROVE  /\ events'[t][i].sequence_number = i - 1
             /\ events'[t][i].response_id = task'[t].response_id
             /\ events'[t][i].type = "created" => i = 1
             /\ i = 1 => events'[t][i].type = "created" \/ events'[t][i].code = "unknown_model"
             /\ events'[t][i].type \notin TerminalTypes
  BY <1>2 DEF LogOf, InPlace
<1>4. /\ new.sequence_number = (Len(log) + 1) - 1
      /\ new.response_id = task'[t].response_id
      /\ new.type = "created" => Len(log) + 1 = 1
      /\ Len(log) + 1 = 1 => new.type = "created" \/ new.code = "unknown_model"
      /\ new.type \in TerminalTypes => pc'[t] \in Ended
  BY <1>1, <1>2
<1>5. InPlace(t)'
  BY <1>2, <1>3, <1>4 DEF InPlace
<1> QED
  BY <1>1, <1>2, <1>5 DEF Tells, LogOf

\* Each step keeps the log of the turn that takes it.
LEMMA MoverLog ==
  ASSUME EInv, NEW t \in Turns, Step(t)
  PROVE  LogOf(t)'
<1>1. /\ LogOf(t) /\ Moved(t) /\ TypeOK /\ ProgressOf(t)
      /\ events[t] \in Seq(Events)
      /\ task[t].stream \in BOOLEAN /\ pc[t] \in Labels
  BY TurnMoves DEF EInv, TInv, TypeOK, Tasks, Progress
<1>2. CASE BeforeIds(t)
  <2>1. events[t] = <<>> /\ events'[t] = <<>> /\ sequence_number'[t] = Len(events'[t])
    BY <1>1, <1>2 DEF BeforeIds, Quiet, LogOf, Untold
  <2>2. InPlace(t)'
    BY <1>1, <2>1, QuietPlaces
  <2>3. pc'[t] \in Untold /\ pc'[t] \notin Begun \cup Ended \cup {"created", "fail"}
    BY <1>2 DEF BeforeIds, Untold, Begun, Ended
  <2> QED
    BY <2>1, <2>2, <2>3 DEF LogOf, Begun
<1>3. CASE Named(t)
  <2>1. events[t] = <<>> /\ events'[t] = <<>> /\ sequence_number'[t] = Len(events'[t])
    BY <1>1, <1>3 DEF Named, Quiet, LogOf, Untold
  <2>2. InPlace(t)'
    BY <1>1, <2>1, QuietPlaces
  <2>3. \/ pc'[t] = "created" /\ task'[t].stream
        \/ pc'[t] = "seed" /\ ~ task'[t].stream
        \/ pc'[t] = "fail" /\ task'[t].stream /\ task'[t].code = "unknown_model"
        \/ pc'[t] = "put" /\ ~ task'[t].stream
    BY <1>3 DEF Named, ToldFirst
  <2> QED
    BY <2>1, <2>2, <2>3 DEF LogOf, Untold, Begun, Ended
<1>4. CASE Created(t)
  <2>1. /\ task[t].stream /\ task'[t] = task[t] /\ events[t] = <<>>
        /\ pc[t] \notin Ended /\ pc'[t] = "seed"
        /\ Tells(t, Event("created", t, <<>>, "none"))
    BY <1>1, <1>4 DEF Created, CreatedEvent, LogOf, Untold, Ended
  <2>2. InPlace(t)' /\ sequence_number'[t] = Len(events'[t]) /\ events'[t] # <<>>
    BY <1>1, <2>1, ToldInPlace DEF TerminalTypes
  <2> QED
    BY <2>1, <2>2 DEF LogOf, Untold, Begun, Ended
<1>5. CASE Worked(t) \/ Committed(t) \/ Dropped(t)
  <2>1. /\ events'[t] = events[t] /\ sequence_number'[t] = sequence_number[t]
        /\ task'[t].response_id = task[t].response_id /\ task'[t].stream = task[t].stream
    BY <1>5 DEF Worked, Committed, Dropped, Quiet, SameTurn
  <2>2. events[t] = <<>> \/ pc[t] \notin Ended \/ pc'[t] \in Ended
    BY <1>1, <1>5 DEF Worked, Committed, Dropped, LogOf, Ended
  <2>3. InPlace(t)'
    BY <1>1, <2>1, <2>2, QuietPlaces
  <2>4. task[t].stream => events[t] # <<>>
    BY <1>1, <1>5 DEF Worked, Committed, Dropped, LogOf, Begun
  <2>5. \/ pc'[t] \in {"upstream", "commit", "sink"}
        \/ pc'[t] \in {"emitting", "incomplete", "fail"} /\ task[t].stream
        \/ pc'[t] \in {"put", "dropped"} /\ ~ task[t].stream
    BY <1>5 DEF Worked, Committed, Dropped
  <2> QED
    BY <1>1, <2>1, <2>3, <2>4, <2>5 DEF LogOf, Untold, Begun, Ended
<1>6. CASE OutputTold(t)
  <2>1. /\ task[t].stream /\ events[t] # <<>> /\ pc[t] \notin Ended
        /\ pc'[t] \in {"emitting", "commit", "incomplete", "fail"}
        /\ task'[t].stream = task[t].stream /\ task'[t].response_id = task[t].response_id
        /\ Tells(t, Event("output", t, task[t].output, "none"))
    BY <1>1, <1>6 DEF OutputTold, OutputEvent, SameTurn, LogOf, Begun, Ended
  <2>2. InPlace(t)' /\ sequence_number'[t] = Len(events'[t]) /\ events'[t] # <<>>
    BY <1>1, <2>1, ToldInPlace DEF TerminalTypes
  <2> QED
    BY <2>1, <2>2 DEF LogOf, Untold, Begun, Ended
<1>7. CASE EndTold(t)
  <2>1. PICK type, output, code :
          /\ type \in {"incomplete", "failed"}
          /\ Tells(t, Event(type, t, output, code))
          /\ type = Status(task[t].outcome)
          /\ output = RecordedOutput(t)
          /\ code = task[t].code
    BY <1>1, <1>7 DEF EndTold, IncompleteEvent, FailedEvent, ProgressOf, Status, RecordedOutput
  <2>2. /\ task[t].stream /\ task'[t] = task[t] /\ pc[t] \notin Ended /\ pc'[t] = "put"
        /\ events[t] = <<>> => code = "unknown_model"
    BY <1>1, <1>7, <2>1 DEF EndTold, LogOf, Begun, Ended
  <2>3. /\ InPlace(t)' /\ sequence_number'[t] = Len(events'[t]) /\ events'[t] # <<>>
        /\ LET e == events'[t][Len(events'[t])] IN
             e.type = type /\ e.output = output /\ e.code = code
    BY <1>1, <2>1, <2>2, ToldInPlace DEF Ended
  <2>4. EndIsTold(t)'
    BY <2>1, <2>2, <2>3 DEF EndIsTold, RecordedOutput
  <2> QED
    BY <2>2, <2>3, <2>4 DEF LogOf, Untold, Begun, Ended
<1>8. CASE CompletedTold(t)
  <2>1. /\ task[t].stream /\ pc[t] \notin Ended /\ pc'[t] = "done" /\ events[t] # <<>>
        /\ task[t].outcome = "Completed" /\ task[t].code = "none"
        /\ SameTurn(t) /\ SameAnswer(t)
        /\ Tells(t, Event("completed", t, task[t].output, "none"))
    BY <1>1, <1>8 DEF CompletedTold, CompletedEvent, ProgressOf, LogOf, Begun, Ended
  <2>2. /\ InPlace(t)' /\ sequence_number'[t] = Len(events'[t]) /\ events'[t] # <<>>
        /\ LET e == events'[t][Len(events'[t])] IN
             e.type = "completed" /\ e.output = task[t].output /\ e.code = "none"
    BY <1>1, <2>1, ToldInPlace DEF Ended, SameTurn
  <2>3. EndIsTold(t)'
    BY <2>1, <2>2 DEF EndIsTold, RecordedOutput, SameAnswer, Status
  <2> QED
    BY <2>1, <2>2, <2>3 DEF LogOf, Untold, Begun, Ended, SameTurn
<1>9. CASE SinkTold(t) \/ Recorded(t)
  <2>1. /\ events'[t] = events[t] /\ sequence_number'[t] = sequence_number[t]
        /\ SameTurn(t) /\ SameAnswer(t)
    BY <1>9 DEF SinkTold, Recorded
  <2>2. \/ pc[t] = "sink" /\ pc'[t] = IF task[t].stream THEN "completed" ELSE "done"
        \/ pc[t] = "put" /\ pc'[t] = "done"
    BY <1>9 DEF SinkTold, Recorded
  <2>3. InPlace(t)'
    BY <1>1, <2>1, <2>2, QuietPlaces DEF SameTurn, Ended
  <2>4. task[t].stream /\ pc[t] = "put" => EndIsTold(t)'
    BY <1>1, <2>1 DEF LogOf, Ended, EndIsTold, RecordedOutput, SameAnswer
  <2> QED
    BY <1>1, <2>1, <2>2, <2>3, <2>4 DEF LogOf, Untold, Begun, Ended, SameTurn
<1> QED
  BY <1>1, <1>2, <1>3, <1>4, <1>5, <1>6, <1>7, <1>8, <1>9 DEF Moved

\* The log of a turn depends on its own variables only.
LEMMA LogUnchanged ==
  ASSUME NEW u, LogOf(u), pc'[u] = pc[u], task'[u] = task[u],
         events'[u] = events[u], sequence_number'[u] = sequence_number[u]
  PROVE  LogOf(u)'
BY DEF LogOf, InPlace, EndIsTold, RecordedOutput

LEMMA LogInit == Init => EInv
BY TypesInit DEF Init, NoTask, EInv, LogOf, InPlace, Begun, Ended

LEMMA LogStep == EInv /\ [Next]_vars => EInv'
<1> SUFFICES ASSUME EInv, [Next]_vars
             PROVE  EInv'
  OBVIOUS
<1>1. TInv'
  BY TypesStep DEF EInv
<1>2. ASSUME NEW u \in Turns PROVE LogOf(u)'
  <2>1. CASE \E t \in Turns : Step(t)
    <3>1. PICK t \in Turns : Step(t)
      BY <2>1
    <3>2. CASE u = t
      BY <3>1, <3>2, MoverLog
    <3>3. CASE u # t
      BY <3>1, <3>3, OthersStay, LogUnchanged DEF EInv, TInv
    <3> QED
      BY <3>2, <3>3
  <2>2. CASE UNCHANGED vars
    BY <2>2, LogUnchanged DEF EInv, vars, taskVars, eventVars
  <2> QED
    BY <2>1, <2>2 DEF Next, Rest
<1> QED
  BY <1>1, <1>2 DEF EInv

LEMMA LogsAreStreams == EInv => EventsAreAStream
<1> SUFFICES ASSUME EInv, NEW t \in Turns
             PROVE  LET log == events[t] IN
                      /\ InPlace(t)
                      /\ task[t].stream /\ pc[t] = "done" =>
                           log # <<>> /\ log[Len(log)].type \in TerminalTypes
                      /\ ~ task[t].stream => log = <<>>
  BY DEF EventsAreAStream, InPlace
<1>1. LogOf(t)
  BY DEF EInv
<1>2. pc[t] = "done" => Status(task[t].outcome) \in TerminalTypes
  BY DEF EInv, TInv, Progress, ProgressOf, HasOutcome, HasIds, Outcomes, Status, TerminalTypes
<1> QED
  BY <1>1, <1>2 DEF LogOf, EndIsTold, Ended

\* The events of every turn are one numbered stream with one end.
THEOREM EventsAreAStreamHolds == Spec => []EventsAreAStream
BY LogInit, LogStep, LogsAreStreams, PTL DEF Spec

-----------------------------------------------------------------------------
(* What was told is stored.                                                  *)

\* The store has the turn's record and its response.
Kept(t) ==
  /\ task[t].turn_id \in DOMAIN turns
  /\ turns[task[t].turn_id] = TurnRecord(t)
  /\ task[t].response_id \in DOMAIN responses
  /\ responses[task[t].response_id] = ResponseJson(TurnRecord(t))

\* The strengthening: a turn has its result when it is done, and its record is
\* stored before it tells of its completion.
KeptOf(t) ==
  /\ pc[t] # "done" => task[t].result = "none"
  /\ pc[t] \in {"sink", "completed"} \/ task[t].result = "ok" => Kept(t)

KInv == EInv /\ \A t \in Turns : KeptOf(t)

LEMMA SameRecord ==
  ASSUME NEW t \in Turns, SameTurn(t), SameAnswer(t)
  PROVE  TurnRecord(t)' = TurnRecord(t)
BY DEF SameTurn, SameAnswer, TurnRecord, RecordedOutput

\* What is kept stays kept.
LEMMA KeptStays ==
  ASSUME [Next]_vars, NEW t \in Turns, Kept(t), SameTurn(t), SameAnswer(t)
  PROVE  Kept(t)'
<1>1. /\ TurnRecord(t)' = TurnRecord(t)
      /\ ResponseJson(TurnRecord(t))' = ResponseJson(TurnRecord(t))
  BY SameRecord DEF ResponseJson
<1> QED
  BY <1>1, MapsKept DEF Kept, Keeps, SameTurn

LEMMA MoverKept ==
  ASSUME KInv, [Next]_vars, NEW t \in Turns, Step(t)
  PROVE  KeptOf(t)'
<1>1. TInv /\ KeptOf(t) /\ Moved(t)
  BY TurnMoves DEF KInv, EInv
<1>2. CASE BeforeIds(t) \/ Named(t) \/ Created(t) \/ Worked(t) \/ OutputTold(t) \/ EndTold(t)
           \/ Dropped(t)
  <2>1. pc[t] # "done" /\ task'[t].result = task[t].result
    BY <1>2 DEF BeforeIds, Named, Created, Worked, OutputTold, EndTold, Dropped, Quiet
  <2>2. pc'[t] \notin {"sink", "completed"}
    BY <1>2 DEF BeforeIds, Named, Created, Worked, OutputTold, EndTold, Dropped, ToldFirst
  <2> QED
    BY <1>1, <2>1, <2>2 DEF KeptOf
<1>3. CASE Committed(t)
  <2>1. pc[t] = "commit" /\ pc'[t] = "sink" /\ task'[t] = task[t]
    BY <1>3 DEF Committed
  <2>2. /\ CommitCompleted(Session(t), TurnRecord(t))
        /\ task[t].outcome = "Completed"
    <3>1. UNCHANGED maps \/ CommitCompleted(Session(t), TurnRecord(t))
      BY <2>1, MapsStep
    <3>2. Commit(t)
      <4>1. /\ ~ (Post(t) \/ Lookup(t) \/ Start(t) \/ EmitCreated(t) \/ Compile(t)
                  \/ Answered(t) \/ NotAnswered(t) \/ EmitOutput(t) \/ EmitIncomplete(t)
                  \/ EmitFailed(t) \/ NotifySink(t) \/ EmitCompleted(t) \/ PutTerminal(t))
        BY <2>1 DEF Post, Lookup, Start, EmitCreated, Compile, Answered, NotAnswered,
           EmitOutput, EmitIncomplete, EmitFailed, NotifySink, EmitCompleted, PutTerminal,
           Fail, Go
      <4>2. ~ Drop(t)
        BY <1>1, <2>1 DEF Drop, TInv, TypeOK
      <4> QED
        BY <4>1, <4>2 DEF Step, OwnStep, EmitStep, SubstrateStep
    <3>3. CommitCompleted(Session(t), TurnRecord(t))
      BY <1>1, <2>1, <3>2, CommitMoves
    <3> QED
      BY <1>1, <2>1, <3>3 DEF TInv, Progress, ProgressOf
  <2>3. SameTurn(t) /\ SameAnswer(t)
    BY <2>1 DEF SameTurn, SameAnswer
  <2>4. TurnRecord(t)' = TurnRecord(t)
    BY <2>3, SameRecord
  <2>5. /\ Session(t).response_id = task[t].response_id
        /\ Session(t).final_response_json = ResponseJson(TurnRecord(t))
        /\ TurnRecord(t).turn_id = task[t].turn_id
    BY DEF Session, TurnRecord
  <2>6. Kept(t)'
    BY <2>1, <2>2, <2>4, <2>5 DEF Kept, CommitCompleted, Put, ResponseJson
  <2> QED
    BY <1>1, <2>1, <2>6 DEF KeptOf
<1>4. CASE SinkTold(t) \/ CompletedTold(t)
  <2>1. Kept(t) /\ task[t].result = "none"
    BY <1>1, <1>4 DEF SinkTold, CompletedTold, KeptOf
  <2>2. Kept(t)'
    BY <1>4, <2>1, KeptStays DEF SinkTold, CompletedTold
  <2>3. pc'[t] # "done" => task'[t].result = "none"
    BY <1>4, <2>1 DEF SinkTold, CompletedTold
  <2> QED
    BY <2>2, <2>3 DEF KeptOf
<1>5. CASE Recorded(t)
  <2>1. pc[t] = "put" /\ pc'[t] = "done" /\ SameTurn(t) /\ SameAnswer(t)
    BY <1>5 DEF Recorded
  <2>2. SUFFICES ASSUME task'[t].result = "ok"
                 PROVE  Kept(t)'
    BY <2>1 DEF KeptOf
  <2>3. PutTerminal(t)
    <3>1. /\ ~ (Post(t) \/ Lookup(t) \/ Start(t) \/ EmitCreated(t) \/ Compile(t)
                \/ Answered(t) \/ NotAnswered(t) \/ EmitOutput(t) \/ EmitIncomplete(t)
                \/ EmitFailed(t) \/ NotifySink(t) \/ EmitCompleted(t) \/ Commit(t))
      BY <2>1 DEF Post, Lookup, Start, EmitCreated, Compile, Answered, NotAnswered,
         EmitOutput, EmitIncomplete, EmitFailed, NotifySink, EmitCompleted, Commit,
         Fail, Go
    <3>2. ~ Drop(t)
      BY <1>1, <2>1 DEF Drop, TInv, TypeOK
    <3> QED
      BY <3>1, <3>2 DEF Step, OwnStep, EmitStep, SubstrateStep
  <2>4. CommitTerminal(task[t].response_id, ResponseJson(TurnRecord(t)), TurnRecord(t))
    <3>1. task' = [task EXCEPT ![t].result = "err"] => task'[t].result = "err"
      BY <1>1, FieldsStay DEF TInv, TypeOK
    <3> QED
      BY <2>2, <2>3, <3>1 DEF PutTerminal
  <2>5. /\ TurnRecord(t)' = TurnRecord(t)
        /\ TurnRecord(t).turn_id = task[t].turn_id
    BY <2>1, SameRecord DEF TurnRecord
  <2> QED
    BY <2>1, <2>4, <2>5 DEF Kept, CommitTerminal, Put, ResponseJson, SameTurn
<1> QED
  BY <1>1, <1>2, <1>3, <1>4, <1>5 DEF Moved

LEMMA KeptStep == KInv /\ [Next]_vars => KInv'
<1> SUFFICES ASSUME KInv, [Next]_vars
             PROVE  KInv'
  OBVIOUS
<1>1. EInv'
  BY LogStep DEF KInv
<1>2. ASSUME NEW u \in Turns PROVE KeptOf(u)'
  <2>1. CASE \E t \in Turns : t = u /\ Step(t)
    BY <2>1, MoverKept
  <2>2. CASE pc'[u] = pc[u] /\ task'[u] = task[u]
    <3>1. SameTurn(u) /\ SameAnswer(u) /\ KeptOf(u)
      BY <2>2 DEF SameTurn, SameAnswer, KInv
    <3> QED
      BY <2>2, <3>1, KeptStays DEF KeptOf
  <2>3. CASE \E t \in Turns : t # u /\ Step(t)
    BY <2>2, <2>3, OthersStay DEF KInv, EInv, TInv
  <2>4. CASE UNCHANGED vars
    BY <2>2, <2>4 DEF vars, taskVars
  <2> QED
    BY <2>1, <2>3, <2>4 DEF Next, Rest
<1> QED
  BY <1>1, <1>2 DEF KInv

LEMMA KeptInit == Init => KInv
BY LogInit DEF Init, NoTask, KInv, KeptOf

LEMMA KeptIsTold == KInv => ToldIsStored
<1> SUFFICES ASSUME KInv, NEW t \in Turns, task[t].result = "ok"
             PROVE  /\ Kept(t)
                    /\ task[t].stream => LET e == events[t][Len(events[t])] IN
                         responses[task[t].response_id] =
                           [id |-> e.response_id, status |-> e.type, output |-> e.output,
                            code |-> e.code]
  BY DEF ToldIsStored, Kept
<1>1. pc[t] = "done" /\ Kept(t) /\ LogOf(t) /\ events[t] \in Seq(Events)
  BY DEF KInv, KeptOf, EInv, TInv, TypeOK
<1>2. SUFFICES ASSUME task[t].stream
               PROVE  LET e == events[t][Len(events[t])] IN
                        ResponseJson(TurnRecord(t)) =
                          [id |-> e.response_id, status |-> e.type, output |-> e.output,
                           code |-> e.code]
  BY <1>1 DEF Kept
<1>3. EndIsTold(t) /\ Len(events[t]) \in DOMAIN events[t]
  BY <1>1, <1>2 DEF LogOf, Ended, EndIsTold
<1>4. events[t][Len(events[t])].response_id = task[t].response_id
  BY <1>1, <1>3 DEF LogOf, InPlace
<1> QED
  BY <1>3, <1>4 DEF EndIsTold, ResponseJson, TurnRecord

\* A turn that ended well is stored as its client was told, in the answer or
\* by the last event of its stream.
THEOREM ToldIsStoredHolds == Spec => []ToldIsStored
BY KeptInit, KeptStep, KeptIsTold, PTL DEF Spec

-----------------------------------------------------------------------------
(* The parent that a turn cloned is the parent that is stored.               *)

StoredParent(t) ==
  task[t].parent # NoSession =>
    /\ task[t].parent.response_id \in DOMAIN sessions
    /\ sessions[task[t].parent.response_id] = task[t].parent

ParentsAreStored ==
  \A r \in DOMAIN sessions :
    sessions[r].parent_response_id \in DOMAIN sessions \cup {NoId}

\* What a turn adds to its parent's items.
Carries(t) ==
  /\ pc[t] \in {"upstream", "emitting", "commit"} =>
       \E seed \in {<<>>, SeedItems(t)} :
         task[t].transcript = ParentItems(t) \o seed \o RequestItems(t)
  /\ pc[t] \in {"emitting", "commit"} => task[t].output \in {<<>>, OutputItems(t)}

GInv ==
  /\ TInv /\ MapsAgree /\ ParentsAreStored
  /\ \A t \in Turns : StoredParent(t) /\ Carries(t)

\* A parent that is stored stays stored as it is.
LEMMA ParentStays ==
  ASSUME [Next]_vars, NEW t \in Turns, StoredParent(t), task'[t].parent = task[t].parent
  PROVE  StoredParent(t)'
BY MapsKept DEF StoredParent, Keeps, NoSession

LEMMA MoverParent ==
  ASSUME GInv, [Next]_vars, NEW t \in Turns, Step(t)
  PROVE  StoredParent(t)'
<1>1. CASE task'[t].parent = task[t].parent
  BY <1>1, ParentStays DEF GInv
<1>2. CASE \E r \in DOMAIN sessions : task'[t].parent = sessions[r]
  <2>1. PICK r \in DOMAIN sessions : task'[t].parent = sessions[r]
    BY <1>2
  <2>2. sessions[r].response_id = r
    BY DEF GInv, MapsAgree, SessionsHaveResponses
  <2>3. r \in DOMAIN sessions' /\ sessions'[r] = sessions[r]
    BY MapsKept DEF Keeps
  <2> QED
    BY <2>1, <2>2, <2>3 DEF StoredParent
<1> QED
  BY <1>1, <1>2, TurnMoves DEF GInv, Moved, BeforeIds, Named, Created, Worked, Committed,
     OutputTold, EndTold, SinkTold, CompletedTold, Recorded, Dropped, SameTurn

LEMMA MoverCarries ==
  ASSUME GInv, NEW t \in Turns, Step(t)
  PROVE  Carries(t)'
<1>1. task \in [Turns -> Tasks] /\ pc \in [Turns -> Labels] /\ TInv /\ Carries(t)
  BY DEF GInv, TInv, TypeOK
<1>2. task[t] \in Tasks
  BY <1>1
<1>3. CASE Compile(t)
  <2>1. CASE \E code \in {"seed_error", "unsupported_tool"} : Fail(t, "seed", code)
    <3>1. pc'[t] \notin {"upstream", "emitting", "commit"}
      BY <1>1, <2>1 DEF Fail, Go, ToldFirst
    <3> QED
      BY <3>1 DEF Carries
  <2>2. CASE \E seed \in {<<>>, SeedItems(t)} :
               /\ Go(t, "seed", "upstream")
               /\ task' = [task EXCEPT ![t].transcript =
                             ParentItems(t) \o seed \o RequestItems(t)]
    <3>1. PICK seed \in {<<>>, SeedItems(t)} :
            /\ Go(t, "seed", "upstream")
            /\ task' = [task EXCEPT ![t].transcript = ParentItems(t) \o seed \o RequestItems(t)]
      BY <2>2
    <3>2. /\ pc'[t] = "upstream"
          /\ task'[t].transcript = ParentItems(t) \o seed \o RequestItems(t)
          /\ task'[t].parent = task[t].parent
      BY <1>1, <1>2, <3>1, FieldsStay DEF Go, SameTurn, Tasks
    <3> QED
      BY <3>2 DEF Carries, ParentItems
  <2> QED
    BY <1>3, <2>1, <2>2 DEF Compile
<1>4. CASE Answered(t)
  <2>1. PICK outcome \in Outcomes, output \in {<<>>, OutputItems(t)}, unsent \in Nat :
          /\ unsent > 0 => task[t].stream
          /\ Go(t, "upstream", IF unsent > 0 THEN "emitting" ELSE Conclude(t, outcome))
          /\ task' = [task EXCEPT ![t].outcome = outcome,
                                  ![t].code = TerminalCode(t, outcome),
                                  ![t].output = output, ![t].unsent = unsent]
    BY <1>4, AnAnswer
  <2>2. /\ task'[t] = [task[t] EXCEPT !.outcome = outcome, !.code = TerminalCode(t, outcome),
                                      !.output = output, !.unsent = unsent]
    BY <1>1, <2>1
  <2>3. /\ task'[t].transcript = task[t].transcript /\ task'[t].parent = task[t].parent
        /\ task'[t].output = output
    BY <1>2, <2>2 DEF Tasks
  <2>4. pc[t] = "upstream"
    BY <2>1 DEF Go
  <2>5. PICK seed \in {<<>>, SeedItems(t)} :
          task[t].transcript = ParentItems(t) \o seed \o RequestItems(t)
    BY <1>1, <2>4 DEF Carries
  <2>6. ParentItems(t)' = ParentItems(t)
    BY <2>3 DEF ParentItems
  <2> QED
    BY <2>3, <2>5, <2>6 DEF Carries
<1>5. CASE EmitOutput(t)
  <2>1. OutputTold(t)
    BY <1>1, <1>5, EmitOutputMoves
  <2> QED
    BY <1>1, <2>1 DEF OutputTold, SameTurn, SameAnswer, Carries, ParentItems
<1>6. CASE ~ (Compile(t) \/ Answered(t) \/ EmitOutput(t))
  <2>1. pc'[t] \notin {"upstream", "emitting", "commit"}
    <3>1. CASE Post(t) \/ Lookup(t) \/ Start(t) \/ NotAnswered(t)
      BY <1>1, <3>1 DEF Post, Lookup, Start, NotAnswered, Fail, Go, ToldFirst
    <3>2. CASE EmitCreated(t) \/ EmitIncomplete(t) \/ EmitFailed(t) \/ Commit(t)
      BY <1>1, <3>2 DEF EmitCreated, EmitIncomplete, EmitFailed, Commit, Fail, Go, ToldFirst
    <3>3. CASE NotifySink(t) \/ EmitCompleted(t) \/ PutTerminal(t) \/ Drop(t)
      BY <1>1, <3>3 DEF NotifySink, EmitCompleted, PutTerminal, Drop, Go
    <3> QED
      BY <1>6, <3>1, <3>2, <3>3 DEF Step, OwnStep, EmitStep, SubstrateStep
  <2> QED
    BY <2>1 DEF Carries
<1> QED
  BY <1>3, <1>4, <1>5, <1>6

\* A session that a turn commits has a stored parent or none.
LEMMA ParentsStep ==
  ASSUME GInv, [Next]_vars
  PROVE  ParentsAreStored'
<1>1. CASE UNCHANGED maps
  BY <1>1 DEF GInv, ParentsAreStored, maps
<1>2. CASE \E t \in Turns : CommitCompleted(Session(t), TurnRecord(t))
  <2>1. PICK t \in Turns : CommitCompleted(Session(t), TurnRecord(t))
    BY <1>2
  <2>2. /\ DOMAIN sessions' = DOMAIN sessions \cup {task[t].response_id}
        /\ sessions'[task[t].response_id] = Session(t)
        /\ \A r \in DOMAIN sessions : r # task[t].response_id => sessions'[r] = sessions[r]
    BY <2>1 DEF CommitCompleted, Put, Session
  <2>3. Session(t).parent_response_id \in DOMAIN sessions \cup {NoId}
    BY DEF Session, GInv, StoredParent, NoSession
  <2> QED
    BY <2>2, <2>3 DEF ParentsAreStored, GInv
<1>3. CASE \E t \in Turns :
        CommitTerminal(task[t].response_id, ResponseJson(TurnRecord(t)), TurnRecord(t))
  BY <1>3 DEF CommitTerminal, GInv, ParentsAreStored
<1> QED
  BY <1>1, <1>2, <1>3, MapsStep DEF Next, Rest, vars

LEMMA GInit == Init => GInv
<1> SUFFICES ASSUME Init PROVE GInv
  OBVIOUS
<1>1. TInv /\ MapsAgree
  BY TypesInit, EmptyMapsAgree DEF Init
<1>2. ParentsAreStored
  BY DEF Init, MapsInit, EmptyMap, ParentsAreStored
<1>3. ASSUME NEW t \in Turns PROVE StoredParent(t) /\ Carries(t)
  BY DEF Init, NoTask, StoredParent, Carries
<1> QED
  BY <1>1, <1>2, <1>3 DEF GInv

LEMMA GStep == GInv /\ [Next]_vars => GInv'
<1> SUFFICES ASSUME GInv, [Next]_vars
             PROVE  GInv'
  OBVIOUS
<1>1. TInv' /\ MapsAgree' /\ ParentsAreStored'
  BY TypesStep, MapsKept, ParentsStep DEF GInv
<1>2. ASSUME NEW u \in Turns PROVE StoredParent(u)' /\ Carries(u)'
  <2>1. CASE \E t \in Turns : t = u /\ Step(t)
    BY <2>1, MoverParent, MoverCarries
  <2>2. CASE pc'[u] = pc[u] /\ task'[u] = task[u]
    <3>1. StoredParent(u)'
      BY <2>2, ParentStays DEF GInv
    <3>2. Carries(u)'
      BY <2>2 DEF GInv, Carries, ParentItems
    <3> QED
      BY <3>1, <3>2
  <2>3. CASE \E t \in Turns : t # u /\ Step(t)
    BY <2>2, <2>3, OthersStay DEF GInv, TInv
  <2>4. CASE UNCHANGED vars
    BY <2>2, <2>4 DEF vars, taskVars
  <2> QED
    BY <2>1, <2>3, <2>4 DEF Next, Rest
<1> QED
  BY <1>1, <1>2 DEF GInv

-----------------------------------------------------------------------------
(* The refinement.                                                           *)

\* What a turn adds is a sequence of items.
LEMMA AdditionTypes == \A items \in TurnAdditions : items \in Seq(Items)
<1> SUFFICES ASSUME NEW items \in TurnAdditions PROVE items \in Seq(Items)
  OBVIOUS
<1>1. PICK t \in Turns : items \in AdditionsOf(t)
  BY DEF TurnAdditions
<1>2. PICK seed \in {<<>>, SeedItems(t)}, output \in {<<>>, OutputItems(t)} :
        items = seed \o RequestItems(t) \o output
  BY <1>1 DEF AdditionsOf
<1>3. /\ seed \in Seq(Items) /\ RequestItems(t) \in Seq(Items) /\ output \in Seq(Items)
  BY <1>2, ItemTypes
<1> QED
  BY <1>2, <1>3

\* What a committed session has beyond its parent's items is an addition.
LEMMA SessionItems ==
  ASSUME GInv, NEW t \in Turns, pc[t] = "commit"
  PROVE  \E items \in AdditionsOf(t) :
           task[t].transcript \o task[t].output = ParentItems(t) \o items
<1>1. PICK seed \in {<<>>, SeedItems(t)} :
        task[t].transcript = ParentItems(t) \o seed \o RequestItems(t)
  BY DEF GInv, Carries
<1>2. task[t].output \in {<<>>, OutputItems(t)}
  BY DEF GInv, Carries
<1>3. /\ ParentItems(t) \in Seq(Items) /\ seed \in Seq(Items)
      /\ RequestItems(t) \in Seq(Items) /\ task[t].output \in Seq(Items)
  <2>1. ParentItems(t) \in Seq(Items)
    BY ItemTypes DEF GInv, TInv, TypeOK, Tasks, Sessions, ParentItems
  <2> QED
    BY <1>2, <2>1, ItemTypes
<1> DEFINE items == seed \o RequestItems(t) \o task[t].output
<1>4. items \in AdditionsOf(t)
  <2>1. items \in {seed \o RequestItems(t) \o output : output \in {<<>>, OutputItems(t)}}
    BY <1>2
  <2> HIDE DEF items
  <2> QED
    BY <2>1 DEF AdditionsOf
<1>5. task[t].transcript \o task[t].output = ParentItems(t) \o items
  <2> DEFINE up == ParentItems(t)
             request == RequestItems(t)
             output == task[t].output
  <2>1. up \in Seq(Items) /\ seed \in Seq(Items)
        /\ request \in Seq(Items) /\ output \in Seq(Items)
    BY <1>3
  <2> HIDE DEF up, request, output
  <2>2. up \o seed \o request \o output = up \o (seed \o request \o output)
    BY <2>1
  <2> QED
    BY <1>1, <2>2 DEF up, request, output
<1> HIDE DEF items
<1> QED
  BY <1>4, <1>5

\* The node that a commit adds.
LEMMA CommitAddsNode ==
  ASSUME GInv, NEW t \in Turns, CommitCompleted(Session(t), TurnRecord(t))
  PROVE  /\ task[t].response_id \notin DOMAIN TreeNodes \cup TreeEnded
         /\ TreeNodes' = [i \in DOMAIN TreeNodes \cup {task[t].response_id} |->
                           IF i = task[t].response_id THEN SessionNode(Session(t))
                           ELSE TreeNodes[i]]
         /\ TreeEnded' = TreeEnded
<1> DEFINE id == task[t].response_id
<1>1. Session(t).response_id = id
  BY DEF Session
<1>2. /\ id \notin DOMAIN sessions /\ id \notin DOMAIN responses
      /\ sessions' = Put(sessions, id, Session(t))
      /\ DOMAIN responses' = DOMAIN responses \cup {id}
  BY <1>1 DEF CommitCompleted, AcceptsCompleted, Vacant, Put
<1> HIDE DEF id
<1>3. /\ DOMAIN sessions' = DOMAIN sessions \cup {id}
      /\ sessions'[id] = Session(t)
      /\ \A r \in DOMAIN sessions : sessions'[r] = sessions[r]
  BY <1>2 DEF Put
<1>4. id \notin DOMAIN TreeNodes \cup TreeEnded
  BY <1>2 DEF TreeNodes, TreeEnded
<1>5. TreeNodes' = [i \in DOMAIN TreeNodes \cup {id} |->
                     IF i = id THEN SessionNode(Session(t)) ELSE TreeNodes[i]]
  <2>1. DOMAIN TreeNodes = DOMAIN sessions
    BY DEF TreeNodes
  <2>2. TreeNodes' = [i \in DOMAIN sessions' |-> SessionNode(sessions'[i])]
    BY DEF TreeNodes, SessionNode
  <2>3. \A i \in DOMAIN sessions' :
          SessionNode(sessions'[i]) = IF i = id THEN SessionNode(Session(t)) ELSE TreeNodes[i]
    BY <1>3 DEF TreeNodes
  <2> QED
    BY <1>3, <2>1, <2>2, <2>3
<1>6. TreeEnded' = TreeEnded
  BY <1>2, <1>3 DEF TreeEnded
<1> QED
  BY <1>4, <1>5, <1>6 DEF id

\* A completed turn begins a conversation or continues its parent.
LEMMA CommitGrows ==
  ASSUME GInv, NEW t \in Turns, pc[t] = "commit",
         CommitCompleted(Session(t), TurnRecord(t))
  PROVE  Tree!Next
<1> DEFINE id == task[t].response_id
           parent == task[t].parent
<1>1. id \in ResponseIds /\ parent \in Sessions \cup {NoSession}
  <2>1. Session(t) \in Sessions /\ task[t] \in Tasks
    BY RecordTypes DEF GInv, HasOutcome, HasIds, TInv, TypeOK
  <2> QED
    BY <2>1 DEF Session, Sessions, Tasks
<1>2. PICK items \in TurnAdditions :
        task[t].transcript \o task[t].output = ParentItems(t) \o items
  BY SessionItems DEF TurnAdditions
<1>3. /\ Tree!Unused(id)
      /\ Tree!Add(id, SessionNode(Session(t)))
      /\ UNCHANGED TreeEnded
  BY CommitAddsNode DEF Tree!Unused, Tree!Add
<1>4. CASE parent = NoSession
  <2>1. SessionNode(Session(t)) = Tree!Node(NoId, t, 1, items)
    <3>1. ParentItems(t) \o items = items
      <4>1. items \in Seq(Items)
        BY <1>2, AdditionTypes
      <4> QED
        BY <1>4, <4>1, ConcatEmptySeq DEF ParentItems
    <3> QED
      BY <1>2, <1>4, <3>1 DEF SessionNode, Session, NextTenant, NextVersion, NoSession, Tree!Node
  <2>2. Tree!Begin(id)
    BY <1>2, <1>3, <2>1 DEF Tree!Begin
  <2> QED
    BY <1>1, <2>2 DEF Tree!Next
<1>5. CASE parent # NoSession
  <2> DEFINE up == parent.response_id
  <2>1. /\ up \in ResponseIds
        /\ up \in DOMAIN TreeNodes
        /\ TreeNodes[up] = SessionNode(parent)
    BY <1>1, <1>5 DEF GInv, StoredParent, Sessions, TreeNodes
  <2>2. SessionNode(Session(t)) =
          Tree!Node(up, TreeNodes[up].tenant, TreeNodes[up].version + 1,
                    TreeNodes[up].items \o items)
    BY <1>2, <1>5, <2>1 DEF SessionNode, Session, NextTenant, NextVersion, ParentItems, Tree!Node
  <2>3. Tree!Continue(id, up)
    BY <1>2, <1>3, <2>1, <2>2 DEF Tree!Continue
  <2> QED
    BY <1>1, <2>1, <2>3 DEF Tree!Next
<1> QED
  BY <1>4, <1>5

\* A turn that did not complete ends.
LEMMA TerminalEnds ==
  ASSUME GInv, NEW t \in Turns, pc[t] = "put",
         CommitTerminal(task[t].response_id, ResponseJson(TurnRecord(t)), TurnRecord(t))
  PROVE  Tree!Next
<1> DEFINE id == task[t].response_id
<1>1. id \in ResponseIds
  BY RecordTypes DEF GInv, HasOutcome, HasIds, Records, TurnRecord
<1>2. /\ id \notin DOMAIN sessions /\ id \notin DOMAIN responses
      /\ DOMAIN responses' = DOMAIN responses \cup {id}
      /\ UNCHANGED sessions
  BY DEF CommitTerminal, AcceptsTerminal, Vacant, Put
<1> HIDE DEF id
<1>3. /\ id \notin DOMAIN TreeNodes \cup TreeEnded
      /\ TreeEnded' = TreeEnded \cup {id}
      /\ UNCHANGED TreeNodes
  BY <1>2 DEF TreeNodes, TreeEnded, SessionNode
<1>4. Tree!End(id)
  BY <1>3 DEF Tree!End, Tree!Unused
<1> QED
  BY <1>1, <1>4 DEF Tree!Next

\* The turns of the service, with all that they do at once, grow the trees of
\* Conversation: a parent that was looked up long before its child is
\* committed is continued as if it were looked up in that step.
THEOREM GrowsConversationsHolds == Spec => GrowsConversations
<1>1. Init => Tree!Init
  BY DEF Init, MapsInit, EmptyMap, Tree!Init, TreeNodes, TreeEnded
<1>2. GInv /\ [Next]_vars => [Tree!Next]_(Tree!treeVars)
  <2> SUFFICES ASSUME GInv, [Next]_vars
               PROVE  [Tree!Next]_(Tree!treeVars)
    OBVIOUS
  <2>1. CASE UNCHANGED maps
    <3>1. UNCHANGED <<TreeNodes, TreeEnded>>
      BY <2>1 DEF maps, TreeNodes, TreeEnded, SessionNode
    <3> QED
      BY <3>1 DEF Tree!treeVars
  <2>2. CASE \E t \in Turns : pc[t] = "commit" /\ CommitCompleted(Session(t), TurnRecord(t))
    BY <2>2, CommitGrows
  <2>3. CASE \E t \in Turns :
               /\ pc[t] = "put"
               /\ CommitTerminal(task[t].response_id, ResponseJson(TurnRecord(t)),
                                 TurnRecord(t))
    BY <2>3, TerminalEnds
  <2> QED
    BY <2>1, <2>2, <2>3, MapsStep DEF Next, Rest, vars
<1> QED
  BY <1>1, <1>2, GInit, GStep, PTL DEF Spec, GrowsConversations, Tree!Spec

-----------------------------------------------------------------------------
(* The node sink.                                                            *)

\* The ids that the node sink was told of.
Told == {notified[i] : i \in DOMAIN notified}

ToldOnce == \A i, j \in DOMAIN notified : notified[i] = notified[j] => i = j

\* The strengthening: a turn that is about to tell the sink is the only one
\* that will tell it of its session.
Heard(t) ==
  /\ pc[t] = "sink" => task[t].response_id \in DOMAIN sessions \ Told
  /\ pc[t] \in {"completed", "done"} /\ task[t].outcome = "Completed" =>
       task[t].response_id \in Told

OneTells ==
  \A t, u \in Turns : pc[t] = "sink" /\ pc[u] = "sink" /\
    task[t].response_id = task[u].response_id => t = u

HInv ==
  /\ GInv
  /\ ToldOnce
  /\ Told \subseteq DOMAIN sessions
  /\ OneTells
  /\ \A t \in Turns : Heard(t)

\* The steps of a turn, as the node sink sees them.
TellsSink(t) ==
  /\ SinkTold(t)
  /\ notified' = Append(notified, task[t].response_id)
  /\ UNCHANGED maps

PassesSink(t) ==
  /\ UNCHANGED notified
  /\ pc'[t] # "sink"
  /\ pc'[t] \in {"completed", "done"} /\ task'[t].outcome = "Completed" =>
       /\ pc[t] = "completed" /\ task[t].outcome = "Completed"
       /\ task'[t].response_id = task[t].response_id

LEMMA SinkStep ==
  ASSUME TInv, NEW t \in Turns, Step(t)
  PROVE  \/ /\ Committed(t) /\ CommitCompleted(Session(t), TurnRecord(t))
            /\ UNCHANGED notified
         \/ TellsSink(t)
         \/ PassesSink(t)
<1>1. task \in [Turns -> Tasks] /\ pc \in [Turns -> Labels]
  BY DEF TInv, TypeOK
<1>2. CASE Commit(t)
  <2>1. UNCHANGED notified
    BY <1>2 DEF Commit
  <2>2. CASE Worked(t) /\ pc'[t] # "sink"
    BY <2>1, <2>2 DEF Worked, PassesSink
  <2> QED
    BY <1>2, <2>1, <2>2, CommitMoves
<1>3. CASE NotifySink(t)
  <2>1. SinkTold(t)
    BY <1>3, NotifySinkMoves
  <2> QED
    BY <1>3, <2>1 DEF NotifySink, TellsSink
<1>4. CASE EmitCompleted(t)
  <2>1. CompletedTold(t)
    BY <1>4, EmitCompletedMoves
  <2> QED
    BY <1>4, <2>1 DEF EmitCompleted, CompletedTold, SameTurn, SameAnswer, PassesSink
<1>5. CASE PutTerminal(t)
  <2>1. Recorded(t) /\ task[t].outcome # "Completed"
    BY <1>5, PutTerminalMoves DEF Recorded, TInv, Progress, ProgressOf
  <2> QED
    BY <1>5, <2>1 DEF PutTerminal, Recorded, SameAnswer, PassesSink
<1>6. CASE \/ Post(t) \/ Lookup(t) \/ Start(t) \/ EmitCreated(t) \/ Compile(t)
           \/ Answered(t) \/ NotAnswered(t) \/ EmitOutput(t) \/ EmitIncomplete(t)
           \/ EmitFailed(t) \/ Drop(t)
  <2>1. UNCHANGED notified
    BY <1>6 DEF Post, Lookup, Start, EmitCreated, Compile, Answered, NotAnswered, EmitOutput,
       EmitIncomplete, EmitFailed, Drop
  <2>2. pc'[t] \notin {"sink", "completed", "done"}
    <3>1. CASE Post(t) \/ Lookup(t) \/ Start(t) \/ EmitCreated(t) \/ Compile(t)
      BY <1>1, <3>1 DEF Post, Lookup, Start, EmitCreated, Compile, Fail, Go, ToldFirst
    <3>2. CASE Answered(t) \/ EmitOutput(t)
      <4>1. Worked(t) \/ OutputTold(t)
        BY <3>2, AnsweredMoves, EmitOutputMoves
      <4> QED
        BY <4>1 DEF Worked, OutputTold
    <3>3. CASE NotAnswered(t) \/ EmitIncomplete(t) \/ EmitFailed(t) \/ Drop(t)
      BY <1>1, <3>3 DEF NotAnswered, EmitIncomplete, EmitFailed, Drop, Fail, Go, ToldFirst
    <3> QED
      BY <1>6, <3>1, <3>2, <3>3
  <2> QED
    BY <2>1, <2>2 DEF PassesSink
<1> QED
  BY <1>2, <1>3, <1>4, <1>5, <1>6 DEF Step, OwnStep, EmitStep, SubstrateStep

LEMMA ToldMore ==
  ASSUME NEW t \in Turns, notified \in Seq(ResponseIds),
         NEW id \in ResponseIds, notified' = Append(notified, id)
  PROVE  /\ Told' = Told \cup {id}
         /\ ToldOnce /\ id \notin Told => ToldOnce'
<1> DEFINE last == Len(notified) + 1
<1>1. /\ DOMAIN notified' = DOMAIN notified \cup {last}
      /\ notified'[last] = id
      /\ \A i \in DOMAIN notified : notified'[i] = notified[i]
  OBVIOUS
<1> HIDE DEF last
<1> QED
  BY <1>1 DEF Told, ToldOnce

LEMMA HInit == Init => HInv
BY GInit DEF Init, MapsInit, EmptyMap, HInv, ToldOnce, Told, OneTells, Heard

LEMMA HStep == HInv /\ [Next]_vars => HInv'
<1> SUFFICES ASSUME HInv, [Next]_vars
             PROVE  HInv'
  OBVIOUS
<1>1. GInv'
  BY GStep DEF HInv
<1>2. DOMAIN sessions \subseteq DOMAIN sessions'
  BY MapsKept DEF Keeps
<1>3. CASE UNCHANGED vars
  BY <1>1, <1>3 DEF HInv, ToldOnce, Told, OneTells, Heard, vars, maps, taskVars
<1>4. ASSUME NEW t \in Turns, Step(t)
      PROVE  HInv'
  <2>1. TInv /\ notified \in Seq(ResponseIds)
    BY DEF HInv, GInv, TInv, TypeOK
  <2>2. \A u \in Turns : u # t => pc'[u] = pc[u] /\ task'[u] = task[u]
    BY <1>4, <2>1, OthersStay DEF TInv
  <2>3. CASE /\ Committed(t) /\ CommitCompleted(Session(t), TurnRecord(t))
             /\ UNCHANGED notified
    <3>1. /\ task[t].response_id \notin DOMAIN sessions
          /\ task[t].response_id \in DOMAIN sessions'
      BY <2>3 DEF CommitCompleted, AcceptsCompleted, Vacant, Put, Session
    <3>2. pc'[t] = "sink" /\ task'[t] = task[t]
      BY <2>3 DEF Committed
    <3>3. Told' = Told /\ ToldOnce'
      BY <2>3 DEF Told, ToldOnce, HInv
    <3>4. \A u \in Turns : Heard(u)'
      BY <1>2, <2>2, <3>1, <3>2, <3>3 DEF HInv, Heard
    <3>5. OneTells'
      BY <2>2, <3>1, <3>2 DEF HInv, Heard, OneTells
    <3> QED
      BY <1>1, <1>2, <3>3, <3>4, <3>5 DEF HInv
  <2>4. CASE TellsSink(t)
    <3>1. /\ pc[t] = "sink" /\ pc'[t] \in {"completed", "done"}
          /\ task'[t].response_id = task[t].response_id
          /\ notified' = Append(notified, task[t].response_id)
      BY <2>4 DEF TellsSink, SinkTold, SameTurn
    <3>2. task[t].response_id \in DOMAIN sessions \ Told
      BY <3>1 DEF HInv, Heard
    <3>3. Told' = Told \cup {task[t].response_id} /\ ToldOnce'
      <4>1. task[t].response_id \in ResponseIds
        BY <2>1, <3>2 DEF TInv, TypeOK
      <4> QED
        BY <2>1, <3>1, <3>2, <4>1, ToldMore DEF HInv
    <3>4. \A u \in Turns : Heard(u)'
      BY <1>2, <2>2, <3>1, <3>3 DEF HInv, Heard, OneTells
    <3>5. OneTells'
      BY <2>2, <3>1 DEF HInv, OneTells
    <3> QED
      BY <1>1, <1>2, <3>2, <3>3, <3>4, <3>5 DEF HInv
  <2>5. CASE PassesSink(t)
    <3>1. Told' = Told /\ ToldOnce'
      BY <2>5 DEF PassesSink, Told, ToldOnce, HInv
    <3>2. \A u \in Turns : Heard(u)'
      BY <1>2, <2>2, <2>5, <3>1 DEF PassesSink, HInv, Heard
    <3>3. OneTells'
      BY <2>2, <2>5 DEF PassesSink, HInv, OneTells
    <3> QED
      BY <1>1, <1>2, <3>1, <3>2, <3>3 DEF HInv
  <2> QED
    BY <1>4, <2>1, <2>3, <2>4, <2>5, SinkStep
<1> QED
  BY <1>3, <1>4 DEF Next, Rest

\* The node sink hears of a session once, when it and its parent are stored,
\* and of all whose turns were not dropped before they told it.
THEOREM SinkHearsOfCommitsHolds == Spec => []SinkHearsOfCommits
<1>1. HInv => SinkHearsOfCommits
  BY DEF HInv, GInv, ParentsAreStored, ToldOnce, Told, Heard, SinkHearsOfCommits
<1> QED
  BY <1>1, HInit, HStep, PTL DEF Spec

-----------------------------------------------------------------------------
(* Fresh turns are recorded.                                                 *)

\* The awaits at which a turn may have written to the store.
Past == {"sink", "completed", "done", "dropped"}

Drew(t) ==
  pc[t] \in HasIds =>
    task[t].response_id \in NewResponseId[t] /\ task[t].turn_id \in NewTurnId[t]

\* What is stored was stored by a turn that drew its id and is past its write.
Owned ==
  /\ \A r \in DOMAIN responses : \E t \in Turns : r \in NewResponseId[t] /\ pc[t] \in Past
  /\ \A u \in DOMAIN turns : \E t \in Turns : u \in NewTurnId[t] /\ pc[t] \in Past

Clean(t) == task[t].result # "err" /\ task[t].code # "internal_error"

FInv ==
  /\ TInv /\ MapsAgree /\ Owned
  /\ \A t \in Turns : Drew(t) /\ Clean(t)

\* The store accepts what a turn asks of it.
LEMMA FreshAreAccepted ==
  ASSUME IdsAreFresh, FInv, NEW t \in Turns
  PROVE  /\ pc[t] = "commit" => AcceptsCompleted(Session(t), TurnRecord(t))
         /\ pc[t] = "put" => AcceptsTerminal(task[t].response_id, TurnRecord(t))
<1>1. pc[t] \in {"commit", "put"} => Vacant(task[t].response_id, task[t].turn_id)
  <2> SUFFICES ASSUME pc[t] \in {"commit", "put"}
               PROVE  Vacant(task[t].response_id, task[t].turn_id)
    OBVIOUS
  <2>1. task[t].response_id \in NewResponseId[t] /\ task[t].turn_id \in NewTurnId[t]
    BY DEF FInv, Drew, HasIds
  <2>2. pc[t] \notin Past
    BY DEF Past
  <2>3. \A u \in Turns : task[t].response_id \in NewResponseId[u] => u = t
    BY <2>1 DEF IdsAreFresh
  <2>4. \A u \in Turns : task[t].turn_id \in NewTurnId[u] => u = t
    BY <2>1 DEF IdsAreFresh
  <2>5. task[t].response_id \notin DOMAIN responses /\ task[t].turn_id \notin DOMAIN turns
    BY <2>2, <2>3, <2>4 DEF FInv, Owned
  <2>6. DOMAIN sessions \subseteq DOMAIN responses
    BY DEF FInv, MapsAgree, SessionsHaveResponses
  <2> QED
    BY <2>5, <2>6 DEF Vacant
<1>2. /\ pc[t] = "commit" => task[t].outcome = "Completed"
      /\ pc[t] = "put" => task[t].outcome # "Completed"
  BY DEF FInv, TInv, Progress, ProgressOf
<1> QED
  BY <1>1, <1>2 DEF AcceptsCompleted, AcceptsTerminal, CompletedMatches, TerminalMatches,
     Session, TurnRecord

LEMMA StartDraws ==
  ASSUME task \in [Turns -> Tasks], NEW t \in Turns, Start(t)
  PROVE  \E response_id \in NewResponseId[t], turn_id \in NewTurnId[t] :
           \/ task'[t] = [task[t] EXCEPT !.response_id = response_id, !.turn_id = turn_id]
           \/ task'[t] = [task[t] EXCEPT !.response_id = response_id, !.turn_id = turn_id,
                                         !.outcome = "Failed", !.code = "unknown_model"]
<1>1. PICK response_id \in NewResponseId[t], turn_id \in NewTurnId[t], known \in BOOLEAN :
        IF known
          THEN task' = [task EXCEPT ![t].response_id = response_id, ![t].turn_id = turn_id]
          ELSE task' = [task EXCEPT ![t].response_id = response_id, ![t].turn_id = turn_id,
                                    ![t].outcome = "Failed", ![t].code = "unknown_model"]
  BY DEF Start
<1> QED
  BY <1>1

\* A turn that the store does not refuse stays clean.
LEMMA MoverClean ==
  ASSUME IdsAreFresh, FInv, NEW t \in Turns, Step(t)
  PROVE  Clean(t)'
<1>1. task \in [Turns -> Tasks] /\ pc \in [Turns -> Labels] /\ task[t] \in Tasks /\ Clean(t)
  BY DEF FInv, TInv, TypeOK
<1>2. ASSUME NEW from, NEW code, Fail(t, from, code), code # "internal_error"
      PROVE  Clean(t)'
  <2>1. task'[t] = [task[t] EXCEPT !.outcome = "Failed", !.code = code]
    BY <1>1, <1>2 DEF Fail
  <2> QED
    BY <1>1, <1>2, <2>1 DEF Clean, Tasks
<1>3. CASE Post(t)
  <2>1. \/ \E stream \in BOOLEAN, previous \in ResponseIds \cup {NoId} :
             task'[t] = [task[t] EXCEPT !.stream = stream, !.previous = previous]
        \/ \E code \in RequestErrors : task'[t] = [task[t] EXCEPT !.code = code]
    BY <1>1, <1>3 DEF Post
  <2> QED
    BY <1>1, <2>1 DEF Clean, RequestErrors, Tasks
<1>4. CASE Lookup(t)
  <2>1. CASE task' = [task EXCEPT ![t].parent = sessions[task[t].previous]]
    <3>1. task'[t] = [task[t] EXCEPT !.parent = sessions[task[t].previous]]
      BY <1>1, <2>1
    <3> QED
      BY <1>1, <3>1 DEF Clean, Tasks
  <2>2. CASE task' = [task EXCEPT ![t].code = "previous_response_not_found"]
    <3>1. task'[t] = [task[t] EXCEPT !.code = "previous_response_not_found"]
      BY <1>1, <2>2
    <3> QED
      BY <1>1, <3>1 DEF Clean, Tasks
  <2> QED
    BY <1>4, <2>1, <2>2 DEF Lookup
<1>5. CASE Start(t)
  <2>1. PICK response_id \in NewResponseId[t], turn_id \in NewTurnId[t] :
          \/ task'[t] = [task[t] EXCEPT !.response_id = response_id, !.turn_id = turn_id]
          \/ task'[t] = [task[t] EXCEPT !.response_id = response_id, !.turn_id = turn_id,
                                        !.outcome = "Failed", !.code = "unknown_model"]
    BY <1>1, <1>5, StartDraws
  <2> QED
    BY <1>1, <2>1 DEF Clean, Tasks
<1>6. CASE Compile(t)
  <2>1. CASE \E code \in {"seed_error", "unsupported_tool"} : Fail(t, "seed", code)
    BY <1>2, <2>1
  <2>2. CASE \E seed \in {<<>>, SeedItems(t)} :
               task' = [task EXCEPT ![t].transcript = ParentItems(t) \o seed \o RequestItems(t)]
    <3>1. PICK transcript : task' = [task EXCEPT ![t].transcript = transcript]
      BY <2>2
    <3>2. task'[t] = [task[t] EXCEPT !.transcript = transcript]
      BY <1>1, <3>1
    <3> QED
      BY <1>1, <3>2 DEF Clean, Tasks
  <2> QED
    BY <1>6, <2>1, <2>2 DEF Compile
<1>7. CASE Answered(t)
  <2>1. PICK outcome \in Outcomes, output \in {<<>>, OutputItems(t)}, unsent \in Nat :
          /\ unsent > 0 => task[t].stream
          /\ Go(t, "upstream", IF unsent > 0 THEN "emitting" ELSE Conclude(t, outcome))
          /\ task' = [task EXCEPT ![t].outcome = outcome,
                                  ![t].code = TerminalCode(t, outcome),
                                  ![t].output = output, ![t].unsent = unsent]
    BY <1>7, AnAnswer
  <2>2. task'[t] = [task[t] EXCEPT !.outcome = outcome, !.code = TerminalCode(t, outcome),
                                   !.output = output, !.unsent = unsent]
    BY <1>1, <2>1
  <2>3. TerminalCode(t, outcome) # "internal_error"
    BY DEF TerminalCode, Outcomes
  <2> QED
    BY <1>1, <2>2, <2>3 DEF Clean, Tasks
<1>8. CASE NotAnswered(t)
  BY <1>2, <1>8 DEF NotAnswered, UpstreamErrors
<1>9. CASE Commit(t)
  <2>1. AcceptsCompleted(Session(t), TurnRecord(t))
    BY <1>9, FreshAreAccepted DEF Commit, Fail, Go
  <2>2. task' = task
    BY <1>9, <2>1 DEF Commit
  <2> QED
    BY <1>1, <2>2 DEF Clean
<1>10. CASE PutTerminal(t)
  <2>1. AcceptsTerminal(task[t].response_id, TurnRecord(t))
    BY <1>10, FreshAreAccepted DEF PutTerminal, Go
  <2>2. task' = [task EXCEPT ![t].result = "ok"]
    BY <1>10, <2>1 DEF PutTerminal
  <2>3. task'[t].result = "ok" /\ SameAnswer(t)
    BY <1>1, <2>2, FieldsStay
  <2> QED
    BY <1>1, <2>3 DEF Clean, SameAnswer
<1>11. CASE \/ EmitCreated(t) \/ EmitOutput(t) \/ EmitIncomplete(t) \/ EmitFailed(t)
            \/ NotifySink(t) \/ EmitCompleted(t) \/ Drop(t)
  <2>1. \/ task' = task
        \/ \E unsent : task' = [task EXCEPT ![t].unsent = unsent]
        \/ \E result \in {task[t].result, "ok"} : task' = [task EXCEPT ![t].result = result]
    BY <1>11 DEF EmitCreated, EmitOutput, EmitIncomplete, EmitFailed, NotifySink,
       EmitCompleted, Drop
  <2>2. SameAnswer(t) /\ task'[t].result \in {task[t].result, "ok"}
    BY <1>1, <2>1, FieldsStay
  <2> QED
    BY <1>1, <2>2 DEF Clean, SameAnswer
<1> QED
  BY <1>3, <1>4, <1>5, <1>6, <1>7, <1>8, <1>9, <1>10, <1>11
     DEF Step, OwnStep, EmitStep, SubstrateStep

\* The ids of a turn are those that it drew.
LEMMA MoverDrew ==
  ASSUME FInv, NEW t \in Turns, Step(t)
  PROVE  Drew(t)'
<1>1. task \in [Turns -> Tasks] /\ pc \in [Turns -> Labels] /\ task[t] \in Tasks /\ Drew(t)
  BY DEF FInv, TInv, TypeOK
<1>2. CASE Start(t)
  <2>1. PICK response_id \in NewResponseId[t], turn_id \in NewTurnId[t] :
          \/ task'[t] = [task[t] EXCEPT !.response_id = response_id, !.turn_id = turn_id]
          \/ task'[t] = [task[t] EXCEPT !.response_id = response_id, !.turn_id = turn_id,
                                        !.outcome = "Failed", !.code = "unknown_model"]
    BY <1>1, <1>2, StartDraws
  <2> QED
    BY <1>1, <2>1 DEF Drew, Tasks
<1>3. CASE ~ Start(t)
  <2>1. Moved(t)
    BY TurnMoves DEF FInv
  <2>2. CASE Named(t)
    <3>1. pc[t] = "start" /\ pc'[t] # "dropped"
      BY <2>2 DEF Named, ToldFirst
    <3>2. FALSE
      BY <1>1, <1>3, <3>1 DEF Step, OwnStep, EmitStep, SubstrateStep,
           Post, Lookup, EmitCreated, Compile, Answered,
         NotAnswered, EmitOutput, EmitIncomplete, EmitFailed, Commit, NotifySink,
         EmitCompleted, PutTerminal, Drop, Fail, Go
    <3> QED
      BY <3>2
  <2>3. CASE BeforeIds(t) \/ Dropped(t)
    BY <2>3 DEF BeforeIds, Dropped, Drew, HasIds
  <2>4. CASE Created(t) \/ Worked(t) \/ Committed(t) \/ OutputTold(t) \/ EndTold(t)
             \/ SinkTold(t) \/ CompletedTold(t) \/ Recorded(t)
    <3>1. pc[t] \in HasIds
      BY <2>4 DEF Created, Worked, Committed, OutputTold, EndTold, SinkTold, CompletedTold,
         Recorded, HasIds
    <3>2. /\ task'[t].response_id = task[t].response_id
          /\ task'[t].turn_id = task[t].turn_id
      BY <2>4 DEF Created, Worked, Committed, OutputTold, EndTold, SinkTold, CompletedTold,
         Recorded, SameTurn
    <3> QED
      BY <1>1, <3>1, <3>2 DEF Drew
  <2> QED
    BY <2>1, <2>2, <2>3, <2>4 DEF Moved
<1> QED
  BY <1>2, <1>3

\* Whoever writes is past its write.
LEMMA OwnedStep ==
  ASSUME FInv, NEW t \in Turns, Step(t)
  PROVE  Owned'
<1>1. task \in [Turns -> Tasks] /\ pc \in [Turns -> Labels] /\ TInv /\ Owned /\ Drew(t)
  BY DEF FInv, TInv, TypeOK
<1>2. \A u \in Turns : u # t => pc'[u] = pc[u]
  BY <1>1, OthersStay DEF TInv
<1>3. pc[t] \in Past => pc'[t] \in Past
  BY <1>1, TurnMoves DEF Moved, BeforeIds, Named, Created, Worked, Committed, OutputTold,
     EndTold, SinkTold, CompletedTold, Recorded, Dropped, Past
<1>4. CASE UNCHANGED maps
  BY <1>1, <1>2, <1>3, <1>4 DEF Owned, maps
<1>5. CASE \/ Commit(t) /\ pc'[t] = "sink"
           \/ PutTerminal(t)
  <2>1. pc[t] \in HasIds /\ pc'[t] \in Past
    BY <1>1, <1>5 DEF Commit, PutTerminal, Fail, Go, HasIds, Past
  <2>2. UNCHANGED maps \/ (DOMAIN responses' \subseteq DOMAIN responses \cup {task[t].response_id}
                           /\ DOMAIN turns' \subseteq DOMAIN turns \cup {task[t].turn_id})
    BY MapsStep DEF CommitCompleted, CommitTerminal, Put, Session, TurnRecord
  <2> QED
    BY <1>1, <1>2, <1>3, <1>4, <2>1, <2>2 DEF Owned, Drew
<1> QED
  <2>1. CASE Commit(t)
    <3>1. pc'[t] = "sink" \/ UNCHANGED maps
      BY <1>1, <2>1 DEF Commit, Go
    <3> QED
      BY <1>4, <1>5, <2>1, <3>1
  <2>2. CASE ~ Commit(t) /\ ~ PutTerminal(t)
    BY <1>4, <2>2 DEF Step, OwnStep, EmitStep, SubstrateStep,
         Post, Lookup, Start, EmitCreated, Compile, Answered,
       NotAnswered, EmitOutput, EmitIncomplete, EmitFailed, NotifySink, EmitCompleted, Drop
  <2> QED
    BY <1>5, <2>1, <2>2

LEMMA FInit == Init => FInv
BY TypesInit, EmptyMapsAgree DEF Init, MapsInit, EmptyMap, NoTask, FInv, Owned, Drew, Clean,
   HasIds

LEMMA FStep == IdsAreFresh /\ FInv /\ [Next]_vars => FInv'
<1> SUFFICES ASSUME IdsAreFresh, FInv, [Next]_vars
             PROVE  FInv'
  OBVIOUS
<1>1. TInv' /\ MapsAgree'
  BY TypesStep, MapsKept DEF FInv
<1>2. CASE UNCHANGED vars
  BY <1>1, <1>2 DEF FInv, Owned, Drew, Clean, vars, maps, taskVars
<1>3. ASSUME NEW t \in Turns, Step(t) PROVE FInv'
  <2>1. \A u \in Turns : u # t => pc'[u] = pc[u] /\ task'[u] = task[u]
    BY <1>3, OthersStay DEF FInv, TInv
  <2>2. \A u \in Turns : Drew(u)' /\ Clean(u)'
    BY <1>3, <2>1, MoverDrew, MoverClean DEF FInv, Drew, Clean
  <2> QED
    BY <1>1, <1>3, <2>2, OwnedStep DEF FInv
<1> QED
  BY <1>2, <1>3 DEF Next, Rest

\* Whatever is in flight, the store refuses nothing of turns whose ids nobody
\* else draws: every turn that ends has its record (drive's put_terminal_record
\* never answers with an error).
THEOREM FreshTurnsAreRecordedHolds == Spec => []FreshTurnsAreRecorded
<1>1. CASE IdsAreFresh
  <2>1. FInv => FreshTurnsAreRecorded
    BY DEF FInv, Clean, FreshTurnsAreRecorded
  <2>2. FInv /\ [Next]_vars => FInv'
    BY <1>1, FStep
  <2> QED
    BY <2>1, <2>2, FInit, PTL DEF Spec
<1>2. CASE ~ IdsAreFresh
  <2>1. FreshTurnsAreRecorded
    BY <1>2 DEF FreshTurnsAreRecorded
  <2> QED
    BY <2>1, PTL
<1> QED
  BY <1>1, <1>2

-----------------------------------------------------------------------------
(* Errors leave no trace.                                                    *)

\* Whose items are in a session.
Holds(items, t) == \E i \in DOMAIN items : items[i] = <<t, "request">>

\* The records of a turn: its own once it has written, none before, and never
\* two.
Wrote(t) == pc[t] \in {"sink", "completed"} \/ task[t].result = "ok"

RecordsAre(t) ==
  /\ Wrote(t) => RecordsOf(t) = {task[t].turn_id}
  /\ ~ Wrote(t) /\ pc[t] # "dropped" => RecordsOf(t) = {}
  /\ \A u, v \in RecordsOf(t) : u = v

\* What is in a session is of a turn that completed.
SessionsAre(t) ==
  SessionsWith(t) # {} => pc[t] \in Past /\ task[t].outcome = "Completed"

\* Which errors a turn may end with.
ErrorsAre(t) ==
  /\ pc[t] = "refused" => task[t].code \in RequestErrors \cup {"previous_response_not_found"}
  /\ task[t].result = "err" => pc[t] = "done" /\ task[t].outcome # "Completed"

XInv ==
  /\ KInv /\ GInv
  /\ \A t \in Turns : RecordsAre(t) /\ SessionsAre(t) /\ ErrorsAre(t)

LEMMA RequestsDiffer ==
  ASSUME NEW t, NEW u, RequestItems(t) = RequestItems(u)
  PROVE  t = u
<1>1. RequestItems(t)[1] = <<t, "request">> /\ RequestItems(u)[1] = <<u, "request">>
  BY DEF RequestItems
<1> QED
  BY <1>1

\* A write adds the record of its turn to those of that turn, and to no other's.
LEMMA WriteAddsRecord ==
  ASSUME NEW t \in Turns, turns' = Put(turns, task[t].turn_id, TurnRecord(t)),
         task[t].turn_id \notin DOMAIN turns
  PROVE  /\ RecordsOf(t)' = RecordsOf(t) \cup {task[t].turn_id}
         /\ \A u \in Turns : u # t => RecordsOf(u)' = RecordsOf(u)
<1> DEFINE id == task[t].turn_id
           record == TurnRecord(t)
<1>1. record.request_items = RequestItems(t)
  BY DEF TurnRecord
<1>2. \A u \in Turns : RequestItems(u)' = RequestItems(u)
  BY DEF RequestItems
<1>3. /\ turns' = Put(turns, id, record)
      /\ id \notin DOMAIN turns
  OBVIOUS
<1> HIDE DEF id, record
<1>4. /\ DOMAIN turns' = DOMAIN turns \cup {id}
      /\ turns'[id] = record
      /\ \A u \in DOMAIN turns : turns'[u] = turns[u]
  BY <1>3 DEF Put
<1>5. RecordsOf(t)' = RecordsOf(t) \cup {id}
  BY <1>1, <1>2, <1>4 DEF RecordsOf
<1>6. ASSUME NEW u \in Turns, u # t PROVE RecordsOf(u)' = RecordsOf(u)
  <2>1. RequestItems(t) # RequestItems(u)
    BY <1>6, RequestsDiffer
  <2> QED
    BY <1>1, <1>2, <1>3, <1>4, <2>1 DEF RecordsOf
<1> QED
  BY <1>5, <1>6 DEF id

\* The steps of a turn, as the records see them.
Writes(t) ==
  /\ turns' = Put(turns, task[t].turn_id, TurnRecord(t))
  /\ task[t].turn_id \notin DOMAIN turns
  /\ ~ Wrote(t) /\ pc[t] # "dropped"
  /\ Wrote(t)' /\ task'[t].turn_id = task[t].turn_id

WritesNothing(t) ==
  /\ UNCHANGED turns
  /\ pc[t] # "dropped"
  /\ \/ pc'[t] = "dropped" /\ ~ Wrote(t)'
     \/ ~ Wrote(t) /\ ~ Wrote(t)'
     \/ Wrote(t) /\ Wrote(t)' /\ task'[t].turn_id = task[t].turn_id

LEMMA RecordStep ==
  ASSUME KInv, NEW t \in Turns, Step(t)
  PROVE  Writes(t) \/ WritesNothing(t)
<1>1. /\ task \in [Turns -> Tasks] /\ pc \in [Turns -> Labels] /\ TInv
      /\ pc[t] # "done" => task[t].result = "none"
  BY DEF KInv, KeptOf, EInv, TInv, TypeOK
<1>2. CASE Commit(t)
  <2>1. pc[t] = "commit"
    BY <1>2 DEF Commit, Fail, Go
  <2>2. CASE Committed(t) /\ CommitCompleted(Session(t), TurnRecord(t))
    BY <1>1, <2>1, <2>2 DEF CommitCompleted, AcceptsCompleted, Vacant, TurnRecord, Committed,
       Writes, Wrote
  <2>3. CASE Worked(t) /\ pc'[t] # "sink" /\ UNCHANGED maps
    BY <1>1, <2>1, <2>3 DEF Worked, Quiet, maps, WritesNothing, Wrote
  <2> QED
    BY <1>1, <1>2, <2>2, <2>3, CommitMoves
<1>3. CASE PutTerminal(t)
  <2>1. /\ pc[t] = "put" /\ pc'[t] = "done" /\ SameTurn(t)
    BY <1>1, <1>3, PutTerminalMoves DEF Recorded
  <2>2. CASE /\ CommitTerminal(task[t].response_id, ResponseJson(TurnRecord(t)), TurnRecord(t))
             /\ task' = [task EXCEPT ![t].result = "ok"]
    <3>1. task'[t].result = "ok"
      BY <1>1, <2>2, FieldsStay
    <3> QED
      BY <1>1, <2>1, <2>2, <3>1 DEF CommitTerminal, AcceptsTerminal, Vacant, TurnRecord,
         Writes, Wrote, SameTurn
  <2>3. CASE task' = [task EXCEPT ![t].result = "err"] /\ UNCHANGED maps
    <3>1. task'[t].result = "err"
      BY <1>1, <2>3, FieldsStay
    <3> QED
      BY <1>1, <2>1, <2>3, <3>1 DEF maps, WritesNothing, Wrote
  <2> QED
    BY <1>3, <2>2, <2>3 DEF PutTerminal
<1>4. CASE ~ Commit(t) /\ ~ PutTerminal(t)
  <2>1. UNCHANGED turns
    BY <1>4 DEF Step, OwnStep, EmitStep, SubstrateStep,
         Post, Lookup, Start, EmitCreated, Compile, Answered,
       NotAnswered, EmitOutput, EmitIncomplete, EmitFailed, NotifySink, EmitCompleted, Drop, maps
  <2>2. Moved(t)
    BY <1>1, TurnMoves
  <2>3. CASE BeforeIds(t) \/ Named(t) \/ Created(t) \/ Worked(t) \/ OutputTold(t) \/ EndTold(t)
    BY <1>1, <2>1, <2>3 DEF BeforeIds, Named, Created, Worked, OutputTold, EndTold, Quiet,
       ToldFirst, WritesNothing, Wrote
  <2>4. CASE SinkTold(t) \/ CompletedTold(t)
    BY <1>1, <2>1, <2>4 DEF SinkTold, CompletedTold, SameTurn, WritesNothing, Wrote
  <2>5. CASE Dropped(t)
    BY <1>1, <2>1, <2>5 DEF Dropped, Quiet, WritesNothing, Wrote
  <2>6. CASE Committed(t) \/ Recorded(t)
    <3>1. pc[t] \in {"commit", "put"} /\ pc'[t] # "dropped"
      BY <2>6 DEF Committed, Recorded
    <3>2. FALSE
      BY <1>1, <1>4, <3>1 DEF Step, OwnStep, EmitStep, SubstrateStep,
           Post, Lookup, Start, EmitCreated, Compile,
         Answered, NotAnswered, EmitOutput, EmitIncomplete, EmitFailed, NotifySink,
         EmitCompleted, Drop, Fail, Go
    <3> QED
      BY <3>2
  <2> QED
    BY <2>2, <2>3, <2>4, <2>5, <2>6 DEF Moved
<1> QED
  BY <1>2, <1>3, <1>4

LEMMA RecordsStep ==
  ASSUME XInv, NEW t \in Turns, Step(t)
  PROVE  \A u \in Turns : RecordsAre(u)'
<1>1. \A u \in Turns : u # t => pc'[u] = pc[u] /\ task'[u] = task[u]
  BY OthersStay DEF XInv, GInv, TInv
<1>2. \A u \in Turns : u # t => (Wrote(u)' <=> Wrote(u))
  BY <1>1 DEF Wrote
<1>3. CASE Writes(t)
  <2>1. /\ RecordsOf(t)' = RecordsOf(t) \cup {task[t].turn_id}
        /\ \A u \in Turns : u # t => RecordsOf(u)' = RecordsOf(u)
    BY <1>3, WriteAddsRecord DEF Writes
  <2>2. RecordsAre(t)'
    BY <1>3, <2>1 DEF Writes, XInv, RecordsAre
  <2> QED
    BY <1>1, <1>2, <2>1, <2>2 DEF XInv, RecordsAre
<1>4. CASE WritesNothing(t)
  <2>1. \A u \in Turns : RecordsOf(u)' = RecordsOf(u)
    BY <1>4 DEF WritesNothing, RecordsOf, RequestItems
  <2>2. RecordsAre(t)'
    BY <1>4, <2>1 DEF WritesNothing, XInv, RecordsAre
  <2> QED
    BY <1>1, <1>2, <2>1, <2>2 DEF XInv, RecordsAre
<1> QED
  BY <1>3, <1>4, RecordStep DEF XInv

\* What a turn adds to its parent's items is its own.
LEMMA AdditionsAreOwn ==
  ASSUME NEW t \in Turns, NEW items \in AdditionsOf(t)
  PROVE  /\ items \in Seq(Items)
         /\ \A i \in DOMAIN items : items[i][1] = t
<1> DEFINE own == {<<t, "seed">>, <<t, "request">>, <<t, "output">>}
<1>1. PICK seed \in {<<>>, SeedItems(t)}, output \in {<<>>, OutputItems(t)} :
        items = seed \o RequestItems(t) \o output
  BY DEF AdditionsOf
<1>2. ASSUME NEW i \in own PROVE <<i>> \in Seq(own) /\ <<>> \in Seq(own)
  OBVIOUS
<1>3. seed \in Seq(own) /\ RequestItems(t) \in Seq(own) /\ output \in Seq(own)
  BY <1>2 DEF SeedItems, RequestItems, OutputItems
<1>4. items \in Seq(own)
  <2> HIDE DEF own
  <2> QED
    BY <1>1, <1>3
<1>5. \A item \in own : item[1] = t /\ item \in Items
  BY DEF Items
<1> HIDE DEF own
<1>6. \A i \in DOMAIN items : items[i] \in own
  BY <1>4
<1> QED
  BY <1>4, <1>5, <1>6

LEMMA HeldInParts ==
  ASSUME NEW up \in Seq(Items), NEW items \in Seq(Items), NEW u, Holds(up \o items, u)
  PROVE  Holds(up, u) \/ Holds(items, u)
<1>1. PICK i \in DOMAIN (up \o items) : (up \o items)[i] = <<u, "request">>
  BY DEF Holds
<1>2. CASE i <= Len(up)
  <2>1. i \in DOMAIN up /\ up[i] = (up \o items)[i]
    BY <1>2
  <2> QED
    BY <1>1, <2>1 DEF Holds
<1>3. CASE ~ (i <= Len(up))
  <2>1. i - Len(up) \in DOMAIN items /\ items[i - Len(up)] = (up \o items)[i]
    BY <1>3
  <2> QED
    BY <1>1, <2>1 DEF Holds
<1> QED
  BY <1>2, <1>3

\* An item of a session that is committed is its turn's own, or its parent's.
LEMMA HeldBefore ==
  ASSUME GInv, NEW t \in Turns, pc[t] = "commit", NEW u \in Turns, u # t,
         Holds(task[t].transcript \o task[t].output, u)
  PROVE  SessionsWith(u) # {}
<1>1. PICK items \in AdditionsOf(t) :
        task[t].transcript \o task[t].output = ParentItems(t) \o items
  BY SessionItems
<1>2. ParentItems(t) \in Seq(Items)
  BY ItemTypes DEF GInv, TInv, TypeOK, Tasks, Sessions, ParentItems
<1>3. Holds(ParentItems(t), u)
  <2>1. ~ Holds(items, u)
    <3>1. \A i \in DOMAIN items : items[i][1] = t
      BY AdditionsAreOwn
    <3>2. <<u, "request">>[1] = u
      OBVIOUS
    <3> QED
      BY <3>1, <3>2 DEF Holds
  <2>2. Holds(ParentItems(t) \o items, u)
    BY <1>1
  <2> QED
    BY <1>2, <2>1, <2>2, AdditionsAreOwn, HeldInParts
<1>4. task[t].parent # NoSession
  BY <1>3 DEF ParentItems, Holds
<1>5. task[t].parent.response_id \in SessionsWith(u)
  BY <1>3, <1>4 DEF GInv, StoredParent, ParentItems, Holds, SessionsWith
<1> QED
  BY <1>5

\* Only a commit adds a session.
LEMMA CommitAddsSession ==
  ASSUME TInv, NEW t \in Turns, Step(t)
  PROVE  \/ Committed(t) /\ CommitCompleted(Session(t), TurnRecord(t))
         \/ UNCHANGED sessions
<1>1. CASE Commit(t)
  BY <1>1, CommitMoves DEF maps
<1>2. CASE ~ Commit(t)
  BY <1>2 DEF Step, OwnStep, EmitStep, SubstrateStep,
       Post, Lookup, Start, EmitCreated, Compile, Answered, NotAnswered,
     EmitOutput, EmitIncomplete, EmitFailed, NotifySink, EmitCompleted, PutTerminal, Drop,
     CommitTerminal, maps
<1> QED
  BY <1>1, <1>2

LEMMA SessionsStep ==
  ASSUME XInv, NEW t \in Turns, Step(t)
  PROVE  \A u \in Turns : SessionsAre(u)'
<1>1. \A u \in Turns : u # t => pc'[u] = pc[u] /\ task'[u] = task[u]
  BY OthersStay DEF XInv, GInv, TInv
<1>2. pc[t] \in Past => pc'[t] \in Past /\ task'[t].outcome = task[t].outcome
  <2>1. Moved(t)
    BY TurnMoves DEF XInv, GInv
  <2> QED
    BY <2>1 DEF Moved, BeforeIds, Named, Created, Worked, Committed, OutputTold, EndTold,
       SinkTold, CompletedTold, Recorded, Dropped, SameAnswer, Past
<1>3. CASE UNCHANGED sessions
  <2>1. \A u \in Turns : SessionsWith(u)' = SessionsWith(u)
    BY <1>3 DEF SessionsWith
  <2> QED
    BY <1>1, <1>2, <2>1 DEF XInv, SessionsAre
<1>4. CASE Committed(t) /\ CommitCompleted(Session(t), TurnRecord(t))
  <2>1. /\ DOMAIN sessions' = DOMAIN sessions \cup {task[t].response_id}
        /\ sessions'[task[t].response_id] = Session(t)
        /\ \A r \in DOMAIN sessions : sessions'[r] = sessions[r]
    BY <1>4 DEF CommitCompleted, AcceptsCompleted, Vacant, Put, Session
  <2>2. pc[t] = "commit" /\ pc'[t] \in Past /\ task'[t].outcome = "Completed"
    BY <1>4 DEF Committed, Past, XInv, GInv, TInv, Progress, ProgressOf
  <2>3. ASSUME NEW u \in Turns, u # t, SessionsWith(u)' # {}
        PROVE  SessionsWith(u) # {}
    <3>1. PICK r \in DOMAIN sessions' : Holds(sessions'[r].committed_items, u)
      BY <2>3 DEF SessionsWith, Holds
    <3>2. CASE r \in DOMAIN sessions
      <4>1. r \in SessionsWith(u)
        BY <2>1, <3>1, <3>2 DEF SessionsWith, Holds
      <4> QED
        BY <4>1
    <3>3. CASE r = task[t].response_id
      <4>1. Session(t).committed_items = task[t].transcript \o task[t].output
        BY DEF Session
      <4>2. sessions'[r].committed_items = Session(t).committed_items
        BY <2>1, <3>3
      <4>3. Holds(task[t].transcript \o task[t].output, u)
        BY <3>1, <4>1, <4>2
      <4> QED
        BY <2>2, <2>3, <4>3, HeldBefore DEF XInv
    <3> QED
      BY <2>1, <3>2, <3>3
  <2> QED
    BY <1>1, <2>2, <2>3 DEF XInv, SessionsAre
<1> QED
  BY <1>3, <1>4, CommitAddsSession DEF XInv, GInv

LEMMA ErrorsStep ==
  ASSUME XInv, NEW t \in Turns, Step(t)
  PROVE  ErrorsAre(t)'
<1>1. /\ task \in [Turns -> Tasks] /\ pc \in [Turns -> Labels] /\ TInv
      /\ pc[t] # "done" => task[t].result = "none"
  BY DEF XInv, KInv, KeptOf, EInv, TInv, TypeOK
<1>2. task[t] \in Tasks
  BY <1>1
<1>3. pc'[t] = "refused" =>
        task'[t].code \in RequestErrors \cup {"previous_response_not_found"}
  <2>1. CASE Post(t)
    <3>1. \/ pc'[t] \in {"start", "lookup"}
          \/ \E code \in RequestErrors : task'[t] = [task[t] EXCEPT !.code = code]
      BY <1>1, <2>1 DEF Post, Go
    <3> QED
      BY <1>2, <3>1 DEF Tasks
  <2>2. CASE Lookup(t)
    <3>1. \/ pc'[t] = "start"
          \/ task'[t] = [task[t] EXCEPT !.code = "previous_response_not_found"]
      BY <1>1, <2>2 DEF Lookup, Go
    <3> QED
      BY <1>2, <3>1 DEF Tasks
  <2>3. CASE ~ Post(t) /\ ~ Lookup(t)
    <3>1. CASE Drop(t)
      BY <1>1, <3>1 DEF Drop
    <3>2. CASE ~ Drop(t)
      <4>1. pc[t] \notin {"idle", "lookup"}
        BY <2>3, <3>2 DEF Step, OwnStep, EmitStep, SubstrateStep,
             Start, EmitCreated, Compile, Answered, NotAnswered,
           EmitOutput, EmitIncomplete, EmitFailed, Commit, NotifySink, EmitCompleted,
           PutTerminal, Fail, Go
      <4>2. Moved(t)
        BY <1>1, TurnMoves
      <4> QED
        BY <4>1, <4>2 DEF Moved, BeforeIds, Named, Created, Worked, Committed, OutputTold,
           EndTold, SinkTold, CompletedTold, Recorded, Dropped, ToldFirst
    <3> QED
      BY <3>1, <3>2
  <2> QED
    BY <2>1, <2>2, <2>3
<1>4. task'[t].result = "err" => pc'[t] = "done" /\ task'[t].outcome # "Completed"
  <2>1. Moved(t)
    BY <1>1, TurnMoves
  <2>2. CASE Recorded(t)
    BY <1>1, <2>2 DEF Recorded, SameAnswer, TInv, Progress, ProgressOf
  <2>3. CASE ~ Recorded(t)
    <3>1. pc[t] # "done" /\ task'[t].result \in {task[t].result, "ok"}
      BY <2>1, <2>3 DEF Moved, BeforeIds, Named, Created, Worked, Committed, OutputTold,
         EndTold, SinkTold, CompletedTold, Dropped, Quiet
    <3> QED
      BY <1>1, <3>1
  <2> QED
    BY <2>2, <2>3
<1> QED
  BY <1>3, <1>4 DEF ErrorsAre

LEMMA XInit == Init => XInv
<1> SUFFICES ASSUME Init PROVE XInv
  OBVIOUS
<1>1. KInv /\ GInv
  BY LogInit, GInit DEF Init, NoTask, KInv, KeptOf
<1>2. ASSUME NEW t \in Turns PROVE RecordsAre(t) /\ SessionsAre(t) /\ ErrorsAre(t)
  BY DEF Init, MapsInit, EmptyMap, NoTask, RecordsAre, RecordsOf, Wrote, SessionsAre,
     SessionsWith, ErrorsAre
<1> QED
  BY <1>1, <1>2 DEF XInv

LEMMA XStep == XInv /\ [Next]_vars => XInv'
<1> SUFFICES ASSUME XInv, [Next]_vars
             PROVE  XInv'
  OBVIOUS
<1>1. KInv' /\ GInv'
  BY KeptStep, GStep DEF XInv
<1>2. CASE UNCHANGED vars
  BY <1>1, <1>2 DEF XInv, RecordsAre, RecordsOf, RequestItems, Wrote, SessionsAre,
     SessionsWith, ErrorsAre, vars, maps, taskVars
<1>3. ASSUME NEW t \in Turns, Step(t) PROVE XInv'
  <2>1. \A u \in Turns : u # t => pc'[u] = pc[u] /\ task'[u] = task[u]
    BY <1>3, OthersStay DEF XInv, GInv, TInv
  <2>2. \A u \in Turns : ErrorsAre(u)'
    BY <1>3, <2>1, ErrorsStep DEF XInv, ErrorsAre
  <2> QED
    BY <1>1, <1>3, <2>2, RecordsStep, SessionsStep DEF XInv
<1> QED
  BY <1>2, <1>3 DEF Next, Rest

\* A client that is answered with an error has left no record and no item; one
\* that is answered has one record, and is in a conversation only if the turn
\* completed.
THEOREM ErrorsLeaveNoTraceHolds == Spec => []ErrorsLeaveNoTrace
<1>1. XInv => ErrorsLeaveNoTrace
  <2> SUFFICES ASSUME XInv, NEW t \in Turns
               PROVE  /\ \A u, v \in RecordsOf(t) : u = v
                      /\ pc[t] \in {"refused", "done"} =>
                           /\ HttpStatus(t) \in 400..499 <=> pc[t] = "refused"
                           /\ HttpStatus(t) >= 400 => RecordsOf(t) = {} /\ SessionsWith(t) = {}
                           /\ HttpStatus(t) = 200 /\ task[t].result = "ok" =>
                                /\ RecordsOf(t) = {task[t].turn_id}
                                /\ SessionsWith(t) # {} => task[t].outcome = "Completed"
    BY DEF ErrorsLeaveNoTrace
  <2>1. RecordsAre(t) /\ SessionsAre(t) /\ ErrorsAre(t)
    BY DEF XInv
  <2>2. CASE pc[t] = "refused"
    <3>1. HttpStatus(t) \in {400, 404}
      BY <2>1, <2>2 DEF ErrorsAre, HttpStatus, StatusCode, RequestErrors
    <3>2. task[t].result = "none"
      BY <2>2 DEF XInv, KInv, KeptOf
    <3>3. RecordsOf(t) = {} /\ SessionsWith(t) = {}
      BY <2>1, <2>2, <3>2 DEF RecordsAre, SessionsAre, Wrote, Past
    <3> QED
      BY <2>1, <2>2, <3>1, <3>2, <3>3 DEF RecordsAre
  <2>3. CASE pc[t] = "done"
    <3>1. \/ HttpStatus(t) = 500 /\ task[t].result = "err"
          \/ HttpStatus(t) = 200
      BY <2>3 DEF HttpStatus, StatusCode, RequestErrors
    <3>2. task[t].result = "err" => RecordsOf(t) = {} /\ SessionsWith(t) = {}
      BY <2>1, <2>3 DEF RecordsAre, SessionsAre, ErrorsAre, Wrote
    <3>3. task[t].result = "ok" => RecordsOf(t) = {task[t].turn_id}
      BY <2>1 DEF RecordsAre, Wrote
    <3>4. SessionsWith(t) # {} => task[t].outcome = "Completed"
      BY <2>1 DEF SessionsAre
    <3> QED
      BY <2>1, <2>3, <3>1, <3>2, <3>3, <3>4 DEF RecordsAre
  <2> QED
    BY <2>1, <2>2, <2>3 DEF RecordsAre
<1> QED
  BY <1>1, XInit, XStep, PTL DEF Spec
=============================================================================
