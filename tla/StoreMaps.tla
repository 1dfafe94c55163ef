------------------------------ MODULE StoreMaps ------------------------------
(***************************************************************************)
(* The three maps of the MemoryStore (src/src/session/mod.rs) and its      *)
(* operations as atomic steps: what the store promises to its callers.     *)
(* MemoryStore.tla is the same store with its three locks, and implements  *)
(* these operations; TurnDriver.tla is built on them.                      *)
(*                                                                         *)
(* A session is any record with the fields response_id, parent_response_id *)
(* and final_response_json; a turn record is any record with turn_id,      *)
(* response_id, parent_response_id and outcome.  TurnDriver adds the rest. *)
(***************************************************************************)

VARIABLES
  sessions,   \* response id |-> the session a completed turn committed
  responses,  \* response id |-> the response JSON that GET returns
  turns       \* turn id |-> the record of the turn

maps == <<sessions, responses, turns>>

\* A BTreeMap with nothing in it.
EmptyMap == [k \in {} |-> k]

\* BTreeMap::insert: adds the key, or replaces its value.
Put(map, key, value) ==
  [k \in DOMAIN map \cup {key} |-> IF k = key THEN value ELSE map[k]]

MapsInit ==
  /\ sessions = EmptyMap
  /\ responses = EmptyMap
  /\ turns = EmptyMap

-----------------------------------------------------------------------------
(* The checks an operation makes before it writes.                           *)

\* commit_completed: the session and the record speak of the same turn.
CompletedMatches(session, record) ==
  /\ session.response_id = record.response_id
  /\ session.parent_response_id = record.parent_response_id
  /\ record.outcome = "Completed"

\* commit_terminal: the id is the record's, and the turn did not complete.
TerminalMatches(response_id, record) ==
  /\ response_id = record.response_id
  /\ record.outcome # "Completed"

\* Mutant of Vacant: the id of a response that did not complete is free.
VacantUnlessSession(response_id, turn_id) ==
  /\ turn_id \notin DOMAIN turns
  /\ response_id \notin DOMAIN sessions

\* Mutant of Vacant: the turn id is not looked up.
VacantForAnyTurn(response_id, turn_id) ==
  response_id \notin DOMAIN sessions \cup DOMAIN responses

\* Neither the turn id nor the response id is taken.
Vacant(response_id, turn_id) ==
  /\ turn_id \notin DOMAIN turns
  /\ response_id \notin DOMAIN sessions \cup DOMAIN responses

AcceptsCompleted(session, record) ==
  CompletedMatches(session, record)
    /\ Vacant(session.response_id, record.turn_id)

AcceptsTerminal(response_id, record) ==
  TerminalMatches(response_id, record)
    /\ Vacant(response_id, record.turn_id)

-----------------------------------------------------------------------------
(* The operations that write.                                                *)

CommitCompleted(session, record) ==
  /\ AcceptsCompleted(session, record)
  /\ responses' = Put(responses, session.response_id, session.final_response_json)
  /\ sessions' = Put(sessions, session.response_id, session)
  /\ turns' = Put(turns, record.turn_id, record)

CommitTerminal(response_id, response, record) ==
  /\ AcceptsTerminal(response_id, record)
  /\ responses' = Put(responses, response_id, response)
  /\ turns' = Put(turns, record.turn_id, record)
  /\ UNCHANGED sessions

-----------------------------------------------------------------------------
(* What the maps owe each other.                                             *)

\* A session can be continued from only if its response can be fetched, and
\* both say the same; a response that is no session's is a turn's that ended
\* some other way; each response has exactly one turn record.
SessionsHaveResponses ==
  \A r \in DOMAIN sessions :
    /\ sessions[r].response_id = r
    /\ r \in DOMAIN responses
    /\ responses[r] = sessions[r].final_response_json

TurnsHaveResponses ==
  \A u \in DOMAIN turns :
    /\ turns[u].turn_id = u
    /\ turns[u].response_id \in DOMAIN responses
    /\ turns[u].outcome = "Completed" <=> turns[u].response_id \in DOMAIN sessions

OneTurnPerResponse ==
  /\ \A u, v \in DOMAIN turns :
       turns[u].response_id = turns[v].response_id => u = v
  /\ \A r \in DOMAIN responses : \E u \in DOMAIN turns : turns[u].response_id = r

\* The three maps agree: what commit_completed and commit_terminal keep as
\* long as nothing is written around them (tests/memory_store.rs:11, :330).
MapsAgree ==
  /\ SessionsHaveResponses
  /\ TurnsHaveResponses
  /\ OneTurnPerResponse

\* What is stored stays as it was stored: no step of the maps replaces or
\* removes an entry.
Keeps(map, next) ==
  \A k \in DOMAIN map : k \in DOMAIN next /\ next[k] = map[k]
=============================================================================
