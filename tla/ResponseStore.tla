---------------------------- MODULE ResponseStore ----------------------------
(***************************************************************************)
(* The store as its callers see it: every call takes effect at one instant *)
(* between its start and its end, or, when the caller's future is dropped, *)
(* not at all.  MemoryStore.tla, with its locks and its guards that are    *)
(* taken and dropped one by one, implements this specification.            *)
(***************************************************************************)
EXTENDS StoreMaps, Naturals, FiniteSets

CONSTANTS
  Callers,  \* the tasks that call the store
  Calls     \* the calls they may make: records with the field op

VARIABLE
  client  \* client[c]: where caller c is in its call, and what it was answered

storeVars == <<maps, client>>

\* The answers: of a write, of a lookup, of count, and none at all.
Ok == [ok |-> TRUE]
Refused == [ok |-> FALSE]
Found(map, key) == [found |-> IF key \in DOMAIN map THEN {map[key]} ELSE {}]
Counted(map) == [count |-> Cardinality(DOMAIN map)]
NoAnswer == [answered |-> FALSE]

NoCall == [op |-> "none"]
Idle == [phase |-> "idle", call |-> NoCall, answer |-> NoAnswer]

-----------------------------------------------------------------------------

\* Caller c is answered.
Answer(c, answer) ==
  /\ client[c].phase = "called"
  /\ client' = [client EXCEPT ![c].phase = "answered", ![c].answer = answer]

\* Caller c starts a call.
Invoke(c, call) ==
  /\ client[c].phase = "idle"
  /\ client' = [client EXCEPT ![c] =
                  [phase |-> "called", call |-> call, answer |-> NoAnswer]]
  /\ UNCHANGED maps

\* Caller c takes its answer and may call again.
Return(c) ==
  /\ client[c].phase = "answered"
  /\ client' = [client EXCEPT ![c] = Idle]
  /\ UNCHANGED maps

\* The future of caller c is dropped: the call has no effect.
Abandon(c) ==
  /\ Answer(c, NoAnswer)
  /\ UNCHANGED maps

-----------------------------------------------------------------------------
(* One action per operation: the instant it takes effect.                    *)

Completes(c) == LET call == client[c].call IN
  /\ call.op = "commit_completed"
  /\ \/ CommitCompleted(call.session, call.record) /\ Answer(c, Ok)
     \/ /\ ~ AcceptsCompleted(call.session, call.record)
        /\ Answer(c, Refused)
        /\ UNCHANGED maps

Terminates(c) == LET call == client[c].call IN
  /\ call.op = "commit_terminal"
  /\ \/ CommitTerminal(call.response_id, call.response, call.record) /\ Answer(c, Ok)
     \/ /\ ~ AcceptsTerminal(call.response_id, call.record)
        /\ Answer(c, Refused)
        /\ UNCHANGED maps

\* The lookups: SessionStore::get, get_response_json, TurnRecordStore::get
\* and count.
Reads(c) == LET call == client[c].call IN
  /\ \/ call.op = "get" /\ Answer(c, Found(sessions, call.response_id))
     \/ call.op = "get_response_json" /\ Answer(c, Found(responses, call.response_id))
     \/ call.op = "get_turn" /\ Answer(c, Found(turns, call.turn_id))
     \/ call.op = "count" /\ Answer(c, Counted(turns))
  /\ UNCHANGED maps

\* The writes around the commits: SessionStore::put and put_response_json
\* replace what is there, TurnRecordStore::put refuses to.
Puts(c) == LET call == client[c].call IN
  \/ /\ call.op = "put"
     /\ sessions' = Put(sessions, call.session.response_id, call.session)
     /\ Answer(c, Ok)
     /\ UNCHANGED <<responses, turns>>
  \/ /\ call.op = "put_response_json"
     /\ responses' = Put(responses, call.response_id, call.response)
     /\ Answer(c, Ok)
     /\ UNCHANGED <<sessions, turns>>
  \/ /\ call.op = "put_turn"
     /\ call.record.turn_id \notin DOMAIN turns
     /\ turns' = Put(turns, call.record.turn_id, call.record)
     /\ Answer(c, Ok)
     /\ UNCHANGED <<sessions, responses>>
  \/ /\ call.op = "put_turn"
     /\ call.record.turn_id \in DOMAIN turns
     /\ Answer(c, Refused)
     /\ UNCHANGED maps

-----------------------------------------------------------------------------

StoreInit ==
  /\ MapsInit
  /\ client = [c \in Callers |-> Idle]

StoreNext == \E c \in Callers :
  \/ \E call \in Calls : Invoke(c, call)
  \/ Completes(c)
  \/ Terminates(c)
  \/ Reads(c)
  \/ Puts(c)
  \/ Abandon(c)
  \/ Return(c)

\* Whatever is answered, the calls could have been made one at a time.
StoreSafety == StoreInit /\ [][StoreNext]_storeVars

\* A call that was made and is not dropped is answered, and returns.
StoreSpec ==
  /\ StoreSafety
  /\ \A c \in Callers :
       WF_storeVars(Completes(c) \/ Terminates(c) \/ Reads(c) \/ Puts(c) \/ Return(c))
=============================================================================
