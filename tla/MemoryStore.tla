----------------------------- MODULE MemoryStore -----------------------------
(***************************************************************************)
(* The MemoryStore of src/src/session/mod.rs at the grain of its locks.    *)
(* Each map has a tokio RwLock.  A caller takes the locks of its operation *)
(* one by one, in the order sessions, responses, turns; writes the maps    *)
(* one by one; and drops its guards one by one, the last taken first.  Its *)
(* future may be dropped wherever it waits for a lock.                     *)
(*                                                                         *)
(* The locks are tokio's (external): requests are served in the order they *)
(* are made, a write is alone, and reads with nothing but reads before     *)
(* them share.  A lock is two functions: the mode each caller requested or *)
(* holds it in, and the callers whose requests are ahead of it.            *)
(***************************************************************************)
EXTENDS StoreMaps, Naturals, Sequences, FiniteSets

CONSTANTS
  Callers,  \* the tasks that call the store
  Calls     \* the calls they may make: records with the field op

\* The methods of MemoryStore: its own, SessionStore's and TurnRecordStore's.
Operations ==
  {"commit_completed", "commit_terminal", "get", "put", "get_response_json",
   "put_response_json", "get_turn", "put_turn", "count"}

ASSUME CallsAssumption == \A k \in Calls : k.op \in Operations

VARIABLES
  pc,      \* pc[c]: the next step of caller c
  call,    \* call[c]: the call caller c is in
  answer,  \* answer[c]: what that call answers, once it is known
  depth,   \* depth[c]: how many locks of its plan caller c holds
  mode,    \* mode[l][c]: how caller c requested lock l, or "none"
  ahead    \* ahead[l][c]: the callers whose requests for l came before c's

clientVars == <<pc, call, answer, depth>>
locks == <<mode, ahead>>
vars == <<maps, clientVars, locks>>

Locks == {"sessions", "responses", "turns"}

Ok == [ok |-> TRUE]
Refused == [ok |-> FALSE]
Found(map, key) == [found |-> IF key \in DOMAIN map THEN {map[key]} ELSE {}]
Counted(map) == [count |-> Cardinality(DOMAIN map)]
NoAnswer == [answered |-> FALSE]
NoCall == [op |-> "none"]

-----------------------------------------------------------------------------
(* tokio::sync::RwLock                                                       *)

Requested(l) == {c \in Callers : mode[l][c] # "none"}

\* Caller c requests lock l: it queues behind every earlier request.
Request(c, l, m) ==
  /\ mode' = [mode EXCEPT ![l][c] = m]
  /\ ahead' = [ahead EXCEPT ![l][c] = Requested(l)]

\* The request is served: nothing ahead of it conflicts with it.
Holds(c, l) ==
  \/ mode[l][c] = "write" /\ ahead[l][c] = {}
  \/ mode[l][c] = "read" /\ \A d \in ahead[l][c] : mode[l][d] = "read"

\* Caller c drops its guard of l, or its request for it.
Leave(c, l) ==
  /\ mode' = [mode EXCEPT ![l][c] = "none"]
  /\ ahead' = [ahead EXCEPT ![l] = [d \in Callers |-> IF d = c THEN {} ELSE @[d] \ {c}]]

-----------------------------------------------------------------------------
(* The operations: which locks each takes, in order, and in which mode.      *)

Step(l, m) == [lock |-> l, mode |-> m]

CommitCompletedPlan ==
  <<Step("sessions", "write"), Step("responses", "write"), Step("turns", "write")>>

\* Mutant of CommitTerminalPlan: the sessions are not locked.
CommitTerminalShortPlan == <<Step("responses", "write"), Step("turns", "write")>>

\* Mutant of CommitTerminalPlan: the responses are locked before the sessions.
CommitTerminalSwappedPlan ==
  <<Step("responses", "write"), Step("sessions", "read"), Step("turns", "write")>>

CommitTerminalPlan ==
  <<Step("sessions", "read"), Step("responses", "write"), Step("turns", "write")>>

Plan(op) ==
  CASE op = "commit_completed"  -> CommitCompletedPlan
    [] op = "commit_terminal"   -> CommitTerminalPlan
    [] op = "get"               -> <<Step("sessions", "read")>>
    [] op = "put"               -> <<Step("sessions", "write")>>
    [] op = "get_response_json" -> <<Step("responses", "read")>>
    [] op = "put_response_json" -> <<Step("responses", "write")>>
    [] op = "put_turn"          -> <<Step("turns", "write")>>
    [] op \in {"get_turn", "count"} -> <<Step("turns", "read")>>

\* The ids and the outcome of the call's arguments fit together; only the
\* commits look.
Matches(k) ==
  /\ k.op = "commit_completed" => CompletedMatches(k.session, k.record)
  /\ k.op = "commit_terminal" => TerminalMatches(k.response_id, k.record)

\* Mutant of Duplicate: a response that is no session's is overlooked.
DuplicateSession(turn_id, response_id) ==
  \/ turn_id \in DOMAIN turns
  \/ response_id \in DOMAIN sessions

\* Mutant of Duplicate: the turn id is not looked up.
DuplicateResponse(turn_id, response_id) ==
  \/ response_id \in DOMAIN sessions
  \/ response_id \in DOMAIN responses

\* commit_completed and commit_terminal, all three maps locked: the turn id
\* or the response id is taken.
Duplicate(turn_id, response_id) ==
  \/ turn_id \in DOMAIN turns
  \/ response_id \in DOMAIN sessions
  \/ response_id \in DOMAIN responses

-----------------------------------------------------------------------------

\* pc[c] goes from one label to another; the call and the locks it holds stay.
Go(c, from, to) ==
  /\ pc[c] = from
  /\ pc' = [pc EXCEPT ![c] = to]
  /\ UNCHANGED <<call, depth>>

\* Caller c has its answer and starts to drop its guards.
Finish(c, from, a) ==
  /\ Go(c, from, "unlock")
  /\ answer' = [answer EXCEPT ![c] = a]

Invoke(c, k) ==
  /\ pc[c] = "idle"
  /\ pc' = [pc EXCEPT ![c] = "validate"]
  /\ call' = [call EXCEPT ![c] = k]
  /\ UNCHANGED <<answer, depth, maps, locks>>

\* The early returns, before any lock.
Validate(c) ==
  /\ \/ Matches(call[c]) /\ Go(c, "validate", "lock") /\ UNCHANGED answer
     \/ ~ Matches(call[c]) /\ Finish(c, "validate", Refused)
  /\ UNCHANGED <<maps, locks>>

\* The next lock of the plan: the request, and the guard.
NextStep(c) == Plan(call[c].op)[depth[c] + 1]

Lock(c) ==
  /\ Go(c, "lock", "wait")
  /\ Request(c, NextStep(c).lock, NextStep(c).mode)
  /\ UNCHANGED <<answer, maps>>

Acquire(c) ==
  /\ pc[c] = "wait"
  /\ Holds(c, NextStep(c).lock)
  /\ depth' = [depth EXCEPT ![c] = @ + 1]
  /\ pc' = [pc EXCEPT ![c] = IF depth'[c] = Len(Plan(call[c].op)) THEN "work" ELSE "lock"]
  /\ UNCHANGED <<call, answer, maps, locks>>

\* Mutant of Cancel: the request that waits is left in the queue.
CancelInQueue(c) ==
  /\ Finish(c, "wait", NoAnswer)
  /\ UNCHANGED <<maps, locks>>

\* The future is dropped at the await of a lock: the request is withdrawn
\* and the guards taken so far are dropped.
Cancel(c) ==
  /\ Finish(c, "wait", NoAnswer)
  /\ Leave(c, NextStep(c).lock)
  /\ UNCHANGED maps

\* The guards are dropped in the reverse order of their declaration.
Unlock(c) ==
  /\ pc[c] = "unlock"
  /\ depth[c] > 0
  /\ Leave(c, Plan(call[c].op)[depth[c]].lock)
  /\ depth' = [depth EXCEPT ![c] = @ - 1]
  /\ UNCHANGED <<pc, call, answer, maps>>

\* The call returns its answer, and nothing of it is left.
Return(c) ==
  /\ pc[c] = "unlock"
  /\ depth[c] = 0
  /\ pc' = [pc EXCEPT ![c] = "idle"]
  /\ call' = [call EXCEPT ![c] = NoCall]
  /\ answer' = [answer EXCEPT ![c] = NoAnswer]
  /\ UNCHANGED <<depth, maps, locks>>

-----------------------------------------------------------------------------
(* What an operation does once it holds its locks.                           *)

CommitChecks(c) == LET k == call[c] IN
  /\ k.op \in {"commit_completed", "commit_terminal"}
  /\ Duplicate(k.record.turn_id, k.record.response_id)
  /\ Finish(c, "work", Refused)
  /\ UNCHANGED <<maps, locks>>

\* commit_completed: responses, then sessions, then turns.
CompletedResponse(c) == LET k == call[c] IN
  /\ k.op = "commit_completed"
  /\ ~ Duplicate(k.record.turn_id, k.record.response_id)
  /\ Go(c, "work", "insert session")
  /\ responses' = Put(responses, k.session.response_id, k.session.final_response_json)
  /\ UNCHANGED <<sessions, turns, answer, locks>>

\* Mutant of CompletedSession: the sessions are unlocked as soon as they are
\* written.
CompletedSessionUnlocked(c) == LET k == call[c] IN
  /\ Go(c, "insert session", "insert turn")
  /\ sessions' = Put(sessions, k.session.response_id, k.session)
  /\ Leave(c, "sessions")
  /\ UNCHANGED <<responses, turns, answer>>

CompletedSession(c) == LET k == call[c] IN
  /\ Go(c, "insert session", "insert turn")
  /\ sessions' = Put(sessions, k.session.response_id, k.session)
  /\ UNCHANGED <<responses, turns, answer, locks>>

\* commit_terminal: responses, then turns.
TerminalResponse(c) == LET k == call[c] IN
  /\ k.op = "commit_terminal"
  /\ ~ Duplicate(k.record.turn_id, k.record.response_id)
  /\ Go(c, "work", "insert turn")
  /\ responses' = Put(responses, k.response_id, k.response)
  /\ UNCHANGED <<sessions, turns, answer, locks>>

\* The last write of both commits.
InsertTurn(c) == LET k == call[c] IN
  /\ Finish(c, "insert turn", Ok)
  /\ turns' = Put(turns, k.record.turn_id, k.record)
  /\ UNCHANGED <<sessions, responses, locks>>

\* The lookups clone what they find under one read lock.
Read(c) == LET k == call[c] IN
  /\ \/ k.op = "get" /\ Finish(c, "work", Found(sessions, k.response_id))
     \/ k.op = "get_response_json" /\ Finish(c, "work", Found(responses, k.response_id))
     \/ k.op = "get_turn" /\ Finish(c, "work", Found(turns, k.turn_id))
     \/ k.op = "count" /\ Finish(c, "work", Counted(turns))
  /\ UNCHANGED <<maps, locks>>

\* SessionStore::put
PutSession(c) == LET k == call[c] IN
  /\ k.op = "put"
  /\ Finish(c, "work", Ok)
  /\ sessions' = Put(sessions, k.session.response_id, k.session)
  /\ UNCHANGED <<responses, turns, locks>>

PutResponseJson(c) == LET k == call[c] IN
  /\ k.op = "put_response_json"
  /\ Finish(c, "work", Ok)
  /\ responses' = Put(responses, k.response_id, k.response)
  /\ UNCHANGED <<sessions, turns, locks>>

\* TurnRecordStore::put
PutTurn(c) == LET k == call[c] IN
  /\ k.op = "put_turn"
  /\ \/ /\ k.record.turn_id \in DOMAIN turns
        /\ Finish(c, "work", Refused)
        /\ UNCHANGED turns
     \/ /\ k.record.turn_id \notin DOMAIN turns
        /\ Finish(c, "work", Ok)
        /\ turns' = Put(turns, k.record.turn_id, k.record)
  /\ UNCHANGED <<sessions, responses, locks>>

-----------------------------------------------------------------------------

Init ==
  /\ MapsInit
  /\ pc = [c \in Callers |-> "idle"]
  /\ call = [c \in Callers |-> NoCall]
  /\ answer = [c \in Callers |-> NoAnswer]
  /\ depth = [c \in Callers |-> 0]
  /\ mode = [l \in Locks |-> [c \in Callers |-> "none"]]
  /\ ahead = [l \in Locks |-> [c \in Callers |-> {}]]

\* The steps of a call once it is made.
CallStep(c) ==
  \/ Validate(c)
  \/ Lock(c)
  \/ Acquire(c)
  \/ CommitChecks(c)
  \/ CompletedResponse(c)
  \/ CompletedSession(c)
  \/ TerminalResponse(c)
  \/ InsertTurn(c)
  \/ Read(c)
  \/ PutSession(c)
  \/ PutResponseJson(c)
  \/ PutTurn(c)
  \/ Unlock(c)
  \/ Return(c)

Next == \E c \in Callers :
  \/ \E k \in Calls : Invoke(c, k)
  \/ CallStep(c)
  \/ Cancel(c)

\* A task that can run is run: the tokio runtime polls every woken task.
Spec == Init /\ [][Next]_vars /\ \A c \in Callers : WF_vars(CallStep(c))

-----------------------------------------------------------------------------
(* Properties                                                                *)

\* Every variable holds values of its kind, and a caller that is in no call
\* has no guard and no request left behind, whatever was cancelled.
TypeOK ==
  /\ pc \in [Callers -> {"idle", "validate", "lock", "wait", "work",
                         "insert session", "insert turn", "unlock"}]
  /\ call \in [Callers -> Calls \cup {NoCall}]
  /\ depth \in [Callers -> 0..3]
  /\ mode \in [Locks -> [Callers -> {"none", "read", "write"}]]
  /\ ahead \in [Locks -> [Callers -> SUBSET Callers]]
  /\ \A c \in Callers : pc[c] = "idle" =>
       \A l \in Locks : mode[l][c] = "none" /\ \A d \in Callers : c \notin ahead[l][d]

\* The caller is between two writes of a commit.
MidCommit(c) == pc[c] \in {"insert session", "insert turn"}

\* Whenever no commit is between two of its writes the three maps agree: no
\* interleaving of commits, refusals and cancelled calls leaves a session
\* without its response, a response without its turn record, or two turns
\* for one response (MemoryStore::commit_completed, commit_terminal).
CommitsAreWhole == (\A c \in Callers : ~ MidCommit(c)) => MapsAgree

\* A commit that is between two of its writes is seen by nobody: no other
\* caller reads or writes a map, but for a SessionStore::get beside a
\* commit_terminal, which only reads the sessions (the guards of session/
\* mod.rs:52-54 and :91-93 are held until the last insert).
HalfCommitsAreUnseen ==
  \A c, d \in Callers : MidCommit(c) /\ c # d =>
    /\ ~ MidCommit(d)
    /\ pc[d] = "work" => call[d].op = "get" /\ call[c].op = "commit_terminal"

\* No call replaces or removes what another has stored: a duplicate turn id
\* or response id is refused before anything is written (the checks of
\* session/mod.rs:55-64 and :94-101 see what every earlier call wrote).
StoredStays ==
  [][Keeps(sessions, sessions') /\ Keeps(responses, responses') /\ Keeps(turns, turns')]_maps

\* A call that was made comes to its end: no order of the lock requests of
\* any calls leaves them waiting for each other, and none is overtaken for
\* ever (the lock order of session/mod.rs:52-54 and :91-93).
CallsReturn == \A c \in Callers : pc[c] # "idle" ~> pc[c] = "idle"

-----------------------------------------------------------------------------
(* The refinement: a commit takes effect with its last insert.  Until then   *)
(* its response and its session are hidden.                                  *)

Hidden == {call[c].record.response_id : c \in {d \in Callers : MidCommit(d)}}

Without(map, keys) == [k \in DOMAIN map \ keys |-> map[k]]

VisibleSessions == Without(sessions, Hidden)
VisibleResponses == Without(responses, Hidden)

Phase(c) ==
  CASE pc[c] = "idle" -> "idle"
    [] pc[c] = "unlock" -> "answered"
    [] OTHER -> "called"

Client == [c \in Callers |->
             [phase |-> Phase(c), call |-> call[c], answer |-> answer[c]]]

Atomic == INSTANCE ResponseStore WITH
  sessions <- VisibleSessions,
  responses <- VisibleResponses,
  client <- Client

\* The locked store implements the atomic one: whatever the callers are
\* answered, they could have been answered by calls that take effect one at
\* a time, each between its start and its end; and a call that is not
\* dropped is answered.
Linearizable == Atomic!StoreSpec
=============================================================================
