# A TLA+ specification of Context-D (`ktxd`)

Context-D is a local proxy: it serves the Responses API to a client, asks a
Chat Completions backend for each answer, and keeps what was answered in memory
so that a later request can continue it by `previous_response_id`. These
modules specify it: the store, the turns that run over it, the conversations that
they build, the stream a client reads, the call to the backend and the
translation of its answer, and what the backend is told of a dialogue. TLC checks
small instances; TLAPS proves every safety property that it checks for every
instance.

Paths below are relative to the repository; line numbers are of the commit that
was modelled.

## 1. The system

| Component | State | Operations | Talks to |
| --- | --- | --- | --- |
| HTTP handlers, `src/responses/handlers.rs` | none of their own; per stream a channel of 64 events and the last event's number and id | `create_response` (normalise, find the parent, drive inline or in a task), `get_response`, `models`, `healthz` | store, driver, client |
| TurnDriver, `src/driver/turn_driver.rs` | per turn: ids, parent, transcript, output, sequence number | `drive`, `commit_completed`, `put_terminal_record`, `emit_sequenced` | store, seed resolver, upstream, event sink, node sink |
| MemoryStore, `src/session/mod.rs` | three maps, each in an `RwLock`: sessions, responses, turn records | `commit_completed`, `commit_terminal`, three `get`s, three `put`s, `count` | - |
| Response events, `src/responses/events.rs` | `ChannelEventState` | event constructors, `VecEventSink`, `ChannelEventSink` | channel to the client |
| Answer translation, `src/translator/chat_stream.rs` | per answer: text, tool call builders, finish reason, token counts | `translate_stream_chunks`, `translate_non_streaming_response` | called by `drive` |
| Request compiler and normaliser, `src/translator/` | none | pure | called by handler and `drive` |
| Upstream client, `src/upstream/mod.rs` | per call: byte buffer, chunks | `complete`, `stream` with one retry, frame parser | backend |
| Substrate, `src/substrate/mod.rs` | - | traits `NodeSink`, `SeedResolver` with empty implementations | called by `drive` |
| Configuration, `src/config.rs` | the models, fixed at the start | `load`, `resolve_config_path`, `model` | read by handler and `drive` |
| Canonical hashing, `src/domain/hash.rs` | none | `artifact_hash`, the canonical bytes under it | called by `drive` at a commit |
| Errors, `src/error.rs` | none | `status_code`, `code` | what the handler answers |
| Ids, domain types, wire types | - | pure | - |

How a turn goes. The handler looks the parent session up and **clones** it. The
driver draws a response id and a turn id, asks the seed resolver, compiles the
transcript (parent's items, seed, request), asks the upstream, translates the
answer, and emits its events. Then it ends in one of two ways. A completed
answer goes to `MemoryStore::commit_completed`, which takes the session, the
response and the turn record together; then the node sink is told, then
`response.completed` is emitted. Anything else goes to `commit_terminal`, which
takes a response and a record but no session; a stream is told *before* that.
A commit that the store refuses becomes a failed turn, and if that is refused
too, `drive` returns an error and there is no record.

What is hard about it:

* **Turns interleave at every await**, and a turn acts on a clone of its
  parent that it took long before.
* **Three maps, three locks.** Commits take the locks one by one and write the
  maps one by one; readers take one lock.
* **Lost clients.** A turn that does not stream runs inside its handler and is
  dropped with it at whichever await it is at, including the wait for a lock.
  A turn that streams is a task and runs on.
* **Ids that collide.** The store refuses a taken id; what the client has been
  told by then must still be true, or be corrected by an event.
* **Failure at each step**: unknown model, seed, tools, upstream, translation,
  commit, record, node sink.
* **No timeout** towards the upstream, nor towards a client that does not read:
  a full channel holds its turn up.
* **Cuts.** The backend's answer comes in bytes cut anywhere, and, once these
  are chunks, in fragments of a text and of several tool calls, interleaved, with
  token counts among them.
* **Two ways to go on.** A client continues by id from the canonical items that
  the session keeps, or replays what it was shown; three conversions that were
  written apart must fit together, or the backend is told something else.

What makes each part correct:

* store: a commit is one atomic step to everybody else; nothing that is stored
  is replaced or removed by a commit; the maps agree; every call returns.
* turns: what a client was told is what the store holds; a stream is one
  numbered sequence with one last event; the node sink hears of each commit
  once; no refusal or failure holds a turn up, nor another turn.
* streams: a client that reads to the end knows what is stored; one that goes
  away holds nothing up, and one that stays and does not read only its own turn.
* upstream calls and translation: how an answer is cut makes no difference to
  what is made of it.
* conversations: a session extends its parent and never changes, and a response
  that did not complete is never continued.
* dialogues: the backend is told what was said, whichever way the client goes on,
  and the fingerprint of a session says what was said and nothing else.
* errors: a client that is answered with an error has left nothing behind.

## 2. The modules

```
 StoreMaps ----------+-- ResponseStore <==implements== MemoryStore -- MCMemoryStore
                     |
                     +-- TurnDriver ==implements==> Conversation -- MCConversation
                            |  \-- MCTurnDriver
                            \-- ResponseStream -- MCResponseStream

 UpstreamClient -- MCUpstreamClient     JsonValues ----+-- Dialogue -- MCDialogue
 ChatStream ------ MCChatStream           |            |                 |
                                          |     Configuration            |
                                          \-- CanonicalJson -------------/

 StoreMapsProofs --+-- MemoryStoreProofs
                   \-- TurnDriverProofs -- ResponseStreamProofs
 ConversationProofs, UpstreamClientProofs, ChatStreamProofs, DialogueProofs
```

A module of proofs extends the module it is named after, and the proofs to its
left.

`UpstreamClient`, `ChatStream` and `Dialogue` stand for themselves: one call and
one answer, whose outcome is what `TurnDriver` chooses in `Answered` and
`NotAnswered`, and one client's dialogue, whose items are tokens there.

**StoreMaps** holds the three maps and the two commits as atomic steps, with the
checks they make (`CompletedMatches`, `TerminalMatches`, `Vacant`), and states
what the maps owe each other (`MapsAgree`). It leaves open what a session is
beyond the fields the store looks at.

**MemoryStore** is the same store at the grain of its locks. `pc[c]` is where a
caller is: it validates its arguments, requests the locks of its `Plan` one by
one, checks for duplicates, inserts into one map per step, and drops its guards
one by one. `Cancel` drops a call's future where it waits for a lock. The lock
itself is tokio's and external: `mode` says who requested or holds it how, and
`ahead` whose requests came before, which is enough for a fair queue in which
neighbouring reads share.

**ResponseStore** is the abstract store: between its start and its end each call
takes effect in one step, or, if its future is dropped, not at all.
`MemoryStore!Linearizable` is the refinement. Its mapping hides the response and
the session of a commit whose last insert is to come: that insert is the instant
at which the commit takes effect.

**TurnDriver** is many turns over the atomic store. `pc[t]` is the await a turn
is at and `task[t]` holds the locals of `drive`. There is one action per await:

| Action | Code |
| --- | --- |
| `Post`, `Lookup` | `create_response`: refusal, `store.get(previous_response_id)` |
| `Start` | ids, `config.model` |
| `EmitCreated` | `response.created` |
| `Compile` | `resolve_seed_items`, `compile_chat_request` |
| `Answered`, `NotAnswered` | `upstream.stream`/`complete` and the translation |
| `EmitOutput`, `EmitIncomplete`, `EmitFailed`, `EmitCompleted` | `emit_sequenced` |
| `Commit` | `store.commit_completed` |
| `NotifySink` | `node_sink.on_turn_committed` |
| `PutTerminal` | `put_terminal_record` |
| `Drop` | axum drops the handler's future |

Items are tokens that name the turn they come from and their part in it, which
is all that the properties tell apart. The events of one output item (added,
delta, done) are one kind, `output`. `HttpStatus` is what the handler answers when
`drive` has returned, of the codes in `error.rs`. Left out here: timestamps
(`created_at` is read anew for every object, so it is no part of what is
compared), token counts (ChatStream has them), hashes and fingerprints (Dialogue
has them) and messages.
`drive` checks the model again after the handler did; with the one configuration
of `main.rs` that check never fails, and it is kept because `drive` is also
called by itself (`tests/turn_driver.rs:227`). The same holds for the tools that
`Compile` may refuse.

**Conversation** is what `previous_response_id` promises: trees of completed
responses, where a node never changes and what ended is not continued.
`TurnDriver!GrowsConversations` maps sessions to
nodes and the responses without a session to `ended`.

**ResponseStream** puts a client around each streamed turn. A turn's step that
emits an event is also a step of its sink: the event's number and id are noted
(`Saw`) and the event goes into the channel (`Send`), which is disabled while
the channel is full; so a full channel holds the turn up at that event. `GoAway`
drops the receiver, after which events are lost and the turn runs on. `EndTask`
is what follows `drive`: the fallback event after an error, numbered after the
last that the sink saw, and the end of the sender.

**UpstreamClient** is one call, of `stream` or of `complete`: `SendRequest`, the
one retry of a stream (`CheckRetry`), `Validate`, and then, in `complete`, one body
that is an answer or is not (`ReadAnswer`), in `stream` the loop over the body, in
which a piece arrives, frames are taken from the buffer one by one, and the
remainder is a frame at the end. Bytes are symbols: CR and LF, which are all that the search for a
frame's end looks at, and a chunk, `[DONE]`, other text and what is not UTF-8,
each as a whole. `ParseOf` reads a body that is there as a whole; it uses the
same frames, and `CutsDoNotMatter` compares the two. `EventsAreRead` does not use
them: it goes by lines. `DataLines` are where the lines of a body that begin with
`data:` are; the body is a stream of events (`IsEventStream`) if nothing else is on
any of these lines and a blank line stands between any two of them, and its events
are their chunks (`EventsOf`).

**ChatStream** is `translate_stream_chunks`, one action per fragment or token
count, and `NonStreaming` is `translate_non_streaming_response`, its reference: the
pieces are joined to the response they are fragments of, and both must translate
alike. Texts are sequences, tool calls records with an optional index, id and
name. Builders are kept by index, as in the code's map, and `CallAt(n)` is the
builder with `n - 1` indexes below its own; `SortedCalls` is the sort of a whole
answer, by which of two calls `Precedes` the other; one without an index is at
`MaxIndex`, which is `u32::MAX` in the code. A `WholeResponse` may have its
calls in any order.

**Configuration** is what the service knows of models: which file it reads, what
it does without one, and the look-up of a model by key or by public name.
**JsonValues** are JSON values, nested at most `Depth` deep (`JsonTo[n]` are those of
`n` levels), as serde_json bounds them too. **CanonicalJson** is JSON as the hashes
see it: `Written` are the canonical bytes, in which the keys of every object are
sorted, and `Meaning` is the value that they stand for, whatever the order of its
keys. Both are recursive functions, one level from the next (`WrittenTo[n]`,
`MeaningTo[n]`). A key or a scalar is one token of the bytes, since serde_json
writes it such that it can be read back; brackets, commas and colons are tokens of
their own. What is hashed as a struct (an item, a provenance, a fingerprint) is
written by `ObjectBytes` from the bytes of its fields.

**Dialogue** is what the items are in a dialogue of one client: the normaliser
(`IsSupported`, `Canonical`, `ProvenanceOf`), the compiler (`Compiled`, which is the
whole chat request), what a commit keeps (`Committed`, `ArtifactHash`,
`Fingerprint`) and the items that a client is shown (`ResponseItem`). The service
starts with some configuration (`Boots`) or not at all. `dialogue` is what was said
as the client knows it, on the wire; `session` is what the service holds of it. In
each turn the client continues by id or sends the whole history again, which is
what is left to it after a restart, and `ContinuingIsReplaying` says that the
backend cannot tell the two apart. It holds without seed items: a resolver that adds
some adds them to the session, which a replay does not have. The empty one of the
code adds none. A hash is its bytes: two are taken to be equal only if what they
are taken of is. Texts are sequences of `Letters`, `NewLine` among them; `Strings`
and `Outputs` are what an item can hold.

Definitions named "Mutant of ..." are used by no specification. Each is the code
with a plausible mistake in it; put in the place of the definition it varies, it
makes one property fail, which shows that the property can.

## 3. What is checked

| Run | Instance | Shows |
| --- | --- | --- |
| `MemoryStoreCommits` | 3 callers, colliding commits and two lookups | `CommitsAreWhole`, `HalfCommitsAreUnseen`, `StoredStays`, `TypeOK` |
| `MemoryStoreAll` | 2 callers, every operation, arguments that misfit | `Linearizable` |
| `MemoryStoreReturns` | 3 callers, every lock in each mode | `CallsReturn` |
| `Conversation` | 4 responses, 2 tenants | `Lineage` |
| `TurnDriverShared` | 2 turns, the second may draw the ids of the first | `CompletedEventIsStored`, `EventsAreAStream`, `ToldIsStored`, `SinkHearsOfCommits`, `ErrorsLeaveNoTrace`, `MapsAgree`, `StoredStays`, `GrowsConversations`, `NeverStuck`, `TypeOK` |
| `TurnDriverTree` | 3 turns with ids of their own | `FreshTurnsAreRecorded`, `GrowsConversations` |
| `ResponseStreamShared` | 2 turns, ids may collide, a channel of 1 place | `OneNumberedStream`, `EndOfStreamIsTrue`, `StreamTypeOK` |
| `ResponseStreamLive` | the same, the first turn not streamed | `AbandonedTurnsEnd`, `ReadersReachTheEnd` |
| `ChatStream` | 5 pieces: text, 2 calls, every finish reason, token counts whole and in part | `EventsCarryTheOutput`, `MalformedIsDisagreement`, `FragmentsMakeTheWhole`, `TypeOK` |
| `UpstreamClientBody` | bodies of 8 symbols in pieces of 1 or 2 | `CutsDoNotMatter`, `EventsAreRead` |
| `Dialogue` | dialogues of up to 3 items and one more turn; every kind of input, tools and configuration, good and bad | `ContinuingIsReplaying`, `WhatWasSaidIsAccepted`, `AcceptedToolsCompile`, `FingerprintIsOfTheDialogue`, `ListedModelsAreServed`, `TypeOK` |
| `UpstreamClientCall` | both calls, every configuration and status, bodies of 5 symbols, `[DONE]` among them | `LastResponseDecides`, `EventsAreRead`, `DrainingEnds`, `TypeOK` |

All of them pass; no disagreement between the code and its documentation was
found in what they cover. What they show, and what they do not:

* `MapsAgree` holds because the service stores through the two commits only.
  `SessionStore::put` and `put_response_json` write one map and replace what is
  there; `MemoryStoreAll` includes them, and there the maps may disagree.
* With commits alone the `sessions` lock of `commit_terminal` could be dropped,
  since the locks of the other two maps exclude every commit; next to
  `SessionStore::put` it could not, and the mutant of `Linearizable` shows that.
* `ToldIsStored` speaks of turns that have ended well. Between `response.failed`
  or `response.incomplete` and the end of `PutTerminal` a fetch finds nothing,
  and when both writes are refused (an id was taken) the stream has been told
  of a failure that is stored nowhere: `result = "err"`.
  `FreshTurnsAreRecorded` shows that it takes a collision of ids.
* `SinkHearsOfCommits` says nothing of the order in which the sink hears of a
  parent and its child; the code gives none. What a sink that hears of the child
  first can rely on is that the parent is in the store.
* `ErrorsLeaveNoTrace` speaks of turns that do not stream where it speaks of
  HTTP: a stream has its status before anything can fail. It allows a refused
  request and an error of `drive` no record and no session; an answer of status
  200, which a failed turn has too, has exactly one record.
* `ListedModelsAreServed` says what the look-up by two names does to a model that
  `/v1/models` lists: a key that is another model's public name takes its requests,
  and of two models with one public name the second is listed and never asked. No
  document forbids such a configuration.
* `FingerprintIsOfTheDialogue` compares with every pair of instructions and tools
  that the run has, and with every dialogue that lacks an item. It does not depend
  on how `serde_json` orders keys, which a feature flag of any crate may change:
  the run's tools come with their keys in both orders.
* A stream that ends in an error of `drive` has two terminal events, the failed
  one of `drive` and the fallback; `EndOfStreamIsTrue` says when, and
  `OneNumberedStream` that the second goes on from the first.
* `ReadersReachTheEnd` speaks of clients that read. One that neither reads nor
  goes away holds its own turn up, and, once the channel is full, its commit
  too: the code sets no timeout. `AbandonedTurnsEnd` says that going away is
  enough. Both have as a premise that the turn's seed resolver and node sink
  return.
* `NeverStuck` has as a premise that the turn's own event sink, seed resolver and
  node sink return. What it says then is that nothing but the upstream can hold
  the turn up: a store that refuses, a failure, or other turns that stand still,
  wherever they wait.
* `FragmentsMakeTheWhole` holds whichever order the calls have in the whole; the
  result has them in that of their indexes. It leaves out two kinds of answers, which the two
  translations treat differently: without a finish reason a stream is a failure
  and a whole answer a success; and calls in an answer that does not finish with
  `tool_calls` are dropped from a stream and kept in a whole answer. Neither is
  promised otherwise anywhere.
* `EventsAreRead` speaks of bodies whose lines all end alike. A blank line made
  of both kinds of line ends is no frame's end to `find_sse_frame_end`;
  `CutsDoNotMatter` covers such bodies too.

**Bounds.** Two turns with shared ids reach every refusal: the second commit,
the second terminal record, and the terminal record after a refused commit.
Three turns are needed for a chain of two steps and for a fork. Two output
events are needed for a sequence number that follows another output event. Three
callers are needed for a lock queue in which one request waits behind another
that waits. Two response ids and two turn ids give each kind of duplicate. A
channel of one place blocks at every event there is; a larger one blocks at
fewer. One output event then suffices, since the channel's own order is that of
a sequence. Eight symbols are two frames, one that ends in CR LF CR LF and one
in LF LF, with a chunk in each; five pieces are a text, the fragments of two
calls and a finish reason. Three items and one more turn are two turns and more,
continued and replayed in each order, after which the conversions meet nothing
new, as they take one item at a time. A `Depth` of three is that of a tool whose
name is in its function: a string in an object in an object, and one level more.
The bounds in
guards are `MaxOutputEvents`, `MaxBytes`, `MaxPiece`, `MaxPieces` and
`MaxHistory`; `Capacity` is the channel's size, 64 in the code. `TurnDriverTree`
has a state constraint, `OneWayToFail`: it leaves out what the other runs cover,
the different codes of a failure and the refusals of a handler.
`ResponseStreamLive` has another, `OneStream`: it leaves out whole behaviours,
those in which the first turn streams, and cuts none short, so that it hides no
liveness. `Conversation` checks no deadlock, since four ids run out; nor do
`ChatStream` and `UpstreamClient`, which return, and `Dialogue`, which stops at
its bound. In the turns, `Rest` and `StreamRest` let a service rest in which all
requests have ended, and every other deadlock is an error. Callers, and turns
with ids of their own, are symmetric; no run with a liveness property uses that.

**Fairness.** A task that can run is polled, as tokio does with every woken task:
`WF(CallStep(c))` in the store and `WF(OwnStep(t))` in the turns, where `OwnStep`
are the steps that await the store or nothing. The lock queue is fair by its own
rule, not by an assumption. The code awaits four others without a timeout, and none
of them is assumed to return:

* the upstream: `NeverStuck`, `AbandonedTurnsEnd` and `ReadersReachTheEnd` allow a
  turn to stay at `upstream` for ever;
* the seed resolver and the node sink, which are traits (`SubstrateStep`): that
  those of a turn return is a premise of what is said of that turn;
* the event sink (`EmitStep`): that it returns is a premise of `NeverStuck`.
  ResponseStream knows what the sink is, a channel, so there an emission is fair
  when it can be made, which takes a free place or a receiver that is gone;
* the client, who need neither post, read nor go away; that one reads on is a
  premise of `ReadersReachTheEnd`.

Cancellation is never fair. In UpstreamClient the loop over the buffer goes on
(`WF(Drain)`), as it awaits nothing; the backend may never answer.

## 4. What is proved

TLAPS proves what follows for every value of the constants: any set of turns,
callers, ids, items, fragments, symbols and requests, and every bound. The
assumptions on the constants say

* that the operations of the store's calls are those of the code
  (`CallsAssumption`), and that the channel has a place (`CapacityAssumption`);
* that the ids a turn draws are ids and `NoId` is none; they **may** collide
  (`IdsAssumption`, `NoIdAssumption`);
* that what is absent, `None`, is nothing that can be there (`NoneAssumption` of
  ChatStream and of Dialogue), and that CR, LF, chunks and other text are
  different symbols (`SymbolsAssumption`);
* that texts, items, answers and files are the sequences and records that the
  Rust types make them (`AdditionsAssumption`, `FragmentsAssumption`,
  `RequestsAssumption`, `BootsAssumption`, `AnswersAssumption`,
  `ConfigurationsAssumption`), and that bounds are numbers. Any field of an item in
  a request may be absent;
* that a scalar is no array and no object and that values have some depth
  (`JsonAssumption`), and that the names of the fields that are hashed are keys, of
  which there is an order (`KeysAssumption`).

TLC evaluates all of them in the runs. One premise is stated in the theorems that
need it and not in the module: `NoPuts`, that `SessionStore::put`,
`put_response_json` and the record's put are not called, as they are not by the
service. `MemoryStoreAll`, in which they are, does not satisfy it;
`MemoryStoreCommits` does.

**The turns and the trees they grow**

| Theorem | Of | Argument |
| --- | --- | --- |
| `TypesHold` | `TypeOK` | `TypeOK` alone is not inductive: that a record which is put has ids and an outcome depends on where the turn is. `Progress` says what a turn's locals hold at each await, `TInv` is both; one lemma per action. |
| `MapsAgreeHolds` | `MapsAgree` | Inductive as it is: `MapsStep` shows that a turn writes by one of the two commits or not at all, `StoreMapsProofs` that each commit keeps the maps in agreement. |
| `StoredStaysHolds` | `StoredStays` | From the same two: a commit's ids are vacant. |
| `CompletedEventIsStoredHolds` | `CompletedEventIsStored` | Strengthened by `AnnouncedIsStored`: between its commit and its last event a turn's session and response are stored. They stay because nothing is replaced, and the event shows the output that was committed because locals do not change in between. |
| `EventsAreAStreamHolds` | `EventsAreAStream` | Strengthened by `LogOf`: the number of the next event is the length of the log, nothing is told before `created`, and a terminal event is in the log only when the turn is at `put` or `done`. `TurnMoves` sorts the steps into eleven moves, so that the other theorems need not open every action again. |
| `ToldIsStoredHolds` | `ToldIsStored` | From `LogOf`, and `KeptOf`: from its write on, a turn's record and response are stored as `TurnRecord` has them. They stay by `MapsKept`, and the locals they show no longer change. |
| `GrowsConversationsHolds` | `GrowsConversations` | `TurnDriver` implements `Conversation`. `StoredParent`: the clone of the parent is what the store still holds, by `StoredStays`; `Carries`: the transcript is the parent's items and the turn's own. So a commit is `Begin` or `Continue`, a put record is `End`, every other step leaves the trees alone. |
| `SinkHearsOfCommitsHolds` | `SinkHearsOfCommits` | `Heard` and `OneTells`: a turn at `sink` has a stored session nobody was told of, and no two such turns have the same one. |
| `FreshTurnsAreRecordedHolds` | `FreshTurnsAreRecorded` | `Owned`: what is stored was stored by a turn that drew its id and is past its write; with fresh ids that is no other turn, so `Vacant` holds at every write. |
| `ErrorsLeaveNoTraceHolds` | `ErrorsLeaveNoTrace` | `RecordsAre` follows the records of a turn from none to one; `SessionsAre` needs `Carries` and `StoredParent` again: an item of a new session is the turn's own or was in its parent's. |
| `LineageHolds` | `Lineage` | Needs that node ids and ended ids are disjoint and that items are sequences. |

So `Lineage` holds of the sessions of the service as well.

**The locked store**

| Theorem | Of | Argument |
| --- | --- | --- |
| `StoreTypesHold` | `TypeOK` | From `LInv`, the invariant of the locks: at each step a caller has asked for the first locks of its plan and for no other, it holds what it has acquired, and of two requests for a lock one is ahead of the other. |
| `HalfCommitsAreUnseenHolds` | `HalfCommitsAreUnseen` | Mutual exclusion, from `LInv`: of two who hold a lock, one as a writer, one would have had to wait for the other. |
| `CommitsAreWholeHolds` | `CommitsAreWhole`, from `NoPuts` | `MInv`: a commit between two of its writes finds what it has written, and the rest vacant. So with half-written commits hidden (`Seen`) its last insert is the whole commit at once and its other inserts are nothing, and `StoreMapsProofs` does the rest. |
| `StoredStaysInTheStore` | `StoredStays`, from `NoPuts` | The ids that a commit found vacant under its guards are vacant when it writes, map by map. |
| `StoreIsAtomic` | `Atomic!StoreSafety` | The safety half of `Linearizable`, without `NoPuts`: each step of a call is the abstract call's start, its one effect, its end, its loss, or nothing. What a half-written commit has inserted is not seen before the last insert, because nobody can look. |

**Streams**

| Theorem | Of | Argument |
| --- | --- | --- |
| `StreamsAreTurns` | the turns' specification | A step of a client, a channel or the end of a task leaves the turn alone. So everything proved of turns holds of streamed ones, and the next three use it. |
| `StreamTypesHold` | `StreamTypeOK` | Inductive together with the rest of `RInv`. |
| `OneNumberedStreamHolds` | `OneNumberedStream` | `RInv`: what a client has read and what is in its channel are the events that were emitted, as far as it was there, and then the fallback event. The sink has seen an event whenever `drive` can return an error, so the fresh id that the fallback would draw without one is never drawn. |
| `EndOfStreamIsTrueHolds` | `EndOfStreamIsTrue` | From `RInv` and `ToldIsStoredHolds` for the turns that end well; a turn with an error has told of a failure and stored nothing. |

**The upstream call and the answer's translation**

| Theorem | Of | Argument |
| --- | --- | --- |
| `LastResponseDecidesHolds` | `LastResponseDecides` | `Retrying` lists what the requests may be, `Waiting` says that nothing arrives before a success; with them it is inductive. |
| `CallTypesHold` | `TypeOK` | That frames hold symbols, and that what is parsed of a frame are chunks. |
| `CutsDoNotMatterHolds` | `CutsDoNotMatter` | Not inductive as it is. `ParsedSoFar` is: the parse of the body so far with any bytes after it is the chunks so far, followed by the parse from where the buffer begins. It rests on frames being found at the same place whatever follows them, and is an induction over the length of what is to be parsed. |
| `EventsAreReadHolds` | `EventsAreRead` | By `CutsDoNotMatter` the chunks are those of the body's one parse; a call of `complete` has no body in pieces (`WholeAnswer`). That parse reads frame by frame, and in a body whose lines end alike a frame ends at the first blank line (`BlankLineEnds`). The data of a frame is that of the body's lines in it (`DataOfFrame`), so a frame is well-formed exactly if it is one event at most (`OneEventIsWellFormed`, `WellFormedIsOneEvent`, `TwoDataAreMalformed`), and the events of a body are those of its first frame and of what follows (`EventsSplit`). The induction is backwards over the places where frames begin (`ReadsAll`). |
| `ChatTypesHold` | `TypeOK` | A builder that becomes a call has an id and a name, and both came from fragments. |
| `MalformedIsDisagreementHolds` | `MalformedIsDisagreement` | While the stream is read, each builder has the one id and name that the fragments of its index give, so a piece that is refused is one that disagrees with an earlier one. |
| `EventsCarryTheOutputHolds` | `EventsCarryTheOutput` | `EventsRead` says what the deltas are while the text is read, `ToldSo` which event is at which place once the answer is finished: the calls' events follow the text's, two and two, at indexes one further where there is a text. |
| `FragmentsMakeTheWholeHolds` | `FragmentsMakeTheWhole` | `RInv`: while the stream is read, builders, text, finish reason and token counts are those of the pieces so far. The pieces of a whole answer give its calls; as the two orders of calls need not be the same, it goes by ranks: sorting by index is the only enumeration that keeps their order. |

**Dialogues**

| Theorem | Of | Argument |
| --- | --- | --- |
| `ContinuingIsReplayingHolds` | `ContinuingIsReplaying` | `DInv`: the items of the session are, one by one, the canonical items of the dialogue with their provenance, and perhaps other hashes (`SameItems`); and the compiler looks at nothing else (`CompiledIsOfWhatIsSaid`). |
| `WhatWasSaidIsAcceptedHolds` | `WhatWasSaidIsAccepted` | What `ResponseItem` makes of a canonical item is supported (`ShownAre`), and an accepted dialogue stays so with it at its end. |
| `FingerprintIsThatOfAReplayHolds` | the fingerprint of a session is that of its dialogue sent in one request | A fingerprint is taken of the items without their hashes, so `SameItems` is enough, whatever the bytes are. |
| `WrittenTellsTheMeaning` | two values have the same bytes if and only if they have the same meaning | `IsCode`, by induction on the depth, says this and that neither value's bytes go on where the other's end (`Told`). `BracketedIsLaid` says where each part is among the bytes of a list; if two lists have the same bytes then the first parts are the same, since neither goes on where the other ends, and so on from part to part (`BracketedOnce`, `ListIsTold`). Keys are tokens, and their order is that of `Sorted`, so an object's bytes tell its keys first and then its values (`ObjectIsTold`). |
| `FingerprintIsOfTheDialogueHolds` | `FingerprintIsOfTheDialogue` | From `FingerprintIsThatOfAReplayHolds` and `FingerprintTells`: two fingerprints are equal if and only if the instructions are, the tools mean the same and the items' bytes are the same one by one. So a dialogue that lacks an item, which is shorter, has another. |
| `DialogueTypesHold` | `TypeOK` | `CanonicalIsStored`: what `Canonical` makes of a supported item that was read has the fields of its kind, each of them text, an output, or JSON, whatever was absent in it (`IsStored`); `StoredIsThere`: none of these is `None`. `DInv` says that all items of a dialogue were read or are of an answer (`AreRead`). |
| `AcceptedToolsCompileHolds` | `AcceptedToolsCompile` | `validate_tools` is not weaker than `compile_tools`, of any values. |
| `ListedModelsAreServedHolds` | `ListedModelsAreServed` | What `Load` returns has its models from a file or is the default, and is never changed; then the first match of the look-up is compared with each model. |

A word on induction. What a recursive function computes for every input is proved
here where a property needs it, without the induction theorems of the library:
if a fact failed for some length there would be a least one
(`WellFoundedInduction` has that the naturals are well-founded), and the lemmas
`LeastNatural` draw the contradiction from it.

**Model-checked only.** Liveness: `CallsReturn`, `NeverStuck`,
`AbandonedTurnsEnd`, `ReadersReachTheEnd`, `DrainingEnds`, and the part of
`Linearizable` that is fairness. They need `ENABLED`, for which there is no
prover. Every invariant and every action property of the runs is proved.

What the proofs do not say: that the code's digests differ where their bytes do,
that serde_json writes no two keys or scalars alike, and that tokio's locks and
channels do what `MemoryStore` and `ResponseStream` have them do. These are
assumptions of the models.

## 5. What is not modelled

The text of messages, the bodies of errors, HTTP headers, the JSON types of the
wire (`src/wire/`) and the reading of TOML: they copy fields, with no order of steps
to get wrong. SHA-256, whose collisions no property could survive.
Model metadata that `/v1/models` passes on. The binding of the socket, the logger
and the wiring in `main.rs`. `TurnOutcome::Cancelled` is built nowhere, and
`src/capability`, `src/policy` and `src/stream` are stubs. A crash needs no model
of its own: nothing outlives the process (`README.md:85`), and what a client can do
after one, a replay, is an action of Dialogue. Hashing and serialising inside `commit_completed` are taken to
succeed: a failure there would have the effect of a refused commit, and the types
being serialised cannot produce one.

## 6. The plan

Every module that was planned is written, and every safety property has its
theorem. What could follow is the code's, not the model's, to decide: a timeout
towards the upstream, the substrate or a client that does not read would turn the
premises of the liveness properties into guarantees, and a store that outlives the
process would need crashes in MemoryStore. A client that reads
`response.completed`, fetches the response and continues it needs no model of its
own: `CompletedEventIsStored` and `StoredStays` say that both succeed.
