# GoRush support backend: TLA+ models, checks and proofs

GoRush is a FastAPI service that answers riders and drivers in a chat. An LLM
writes the answers, but everything that has an effect (refunds, cancellations,
tickets, safety incidents, handoffs to a human) goes through a *tool router* that
enforces role, ownership, confirmation and idempotency. State lives in PostgreSQL
(one transaction per request, rolled back unless the handler commits), in Redis
(session state, idempotency entries, rate-limit counters) and at the GoRush
services behind the tools. The three are not updated together. That, and
handlers that interleave at every `await` (one event loop per worker, several
workers), is what makes the code hard to test and is what these models are about.

Paths are relative to the repository (`app/...`). `PROJECT.json` maps every
definition to the lines it models.

## 1. Inventory

| Component | State | Operations | Interacts with | What makes it correct |
|---|---|---|---|---|
| Tool pipeline: `tools/router`, `tools/idempotency`, `audit`, `chat/tools_router.py` | `ToolCall` and `AuditLog` rows of the open transaction; `idem:{tool}:{key}` in Redis; effects at GoRush | `ToolRouter.invoke`, the four direct endpoints, commit, rollback | called by the orchestrator and the endpoints; calls tools, Redis, the database | every gate passed before an effect or a replayed answer; answers are real; a retry is replayed; rows tell the truth |
| Tool registry and tools: `tools/registry`, `tools/{ride,payment,support,safety,driver}` | none (a static allowlist) | `authorize_ownership`, `execute` | called by the router, call GoRush clients | the policy the router enforces |
| Guided refund flow: `_handle_refund_flow`, `_resolve_pending_intent`, `_get/_save_session_state` | `session_state:{id}` in Redis, metadata of committed messages, idempotency entries | UNDERSTAND, VERIFY, GUIDE, CONFIRM, ACT, EXPLAIN | tool router, messages, Redis | submitted once, only after it was brought up; success is only reported when real |
| Orchestrator turn: `handle_message`, `LoopGuard` | `actions_taken`, `handoff_info`, counters of the turn | P0 flow, LLM steps, tool calls, language retry, escalation | LLM gateway, tool router, handoffs, messages | grounded answers, real handoffs, humans reached, turns end |
| Handoffs: `handoff/service.py`, `request_handoff`, agent queue and takeover in `admin/router.py` | `handoffs` rows, session status and priority | escalate, take over, list | called by the turn, the user and agents | the session row agrees with the queue, the human sees what led to the case |
| Conversations and context: `conversations/` | messages, summaries | `add_message`, `get_recent_messages`, `build_llm_messages`, `maybe_summarize` | turn, refund flow, LLM, handoffs | nothing falls between the summary and the recent messages |
| Rate limiter: `redis_cache/rate_limiter.py` | a counter with a TTL per key | INCR, EXPIRE, decide | `POST /v1/chat/messages` | at most the limit per window, and windows end |
| Knowledge base: `admin/router.py`, `knowledge/ingestion` | articles and chunks | approve, reject, ingest, reingest-all | embeddings provider, retrieval | one index per article, of its current text, never lost |
| Chunker: `knowledge/ingestion/chunker.py` | loop variables | `chunk_text` | ingestion | covers the text, bounded chunks, ends |
| Retrieval: `knowledge/retrieval` | none | vector search over eligible chunks | turn | only approved, active articles |
| LLM gateway and providers: `ai/llm` | none | chat with fallback, embeddings | external models | a text comes back or an exception leaves |
| Intent, language, guardrails, prompts: `ai/intent`, `ai/language`, `guardrails`, `ai/prompts` | none | text matching and templates | turn | classification of texts |
| Chat API and WebSocket: `chat/router.py`, `chat/gateway.py` | sessions, connections | send, history, feedback, handoff, the WebSocket loop | orchestrator, limiter | an answer is of a stored turn, an error of one that is not, each once and in order |
| Auth: `auth/` | users | login, token checks | every endpoint | requests act as their user |
| Database session, settings: `database/session.py`, `core/config.py` | transactions, limits | `get_db` | everything | commit or roll back |
| GoRush clients: `tools/ride/gorush_clients.py` | mocks | calls of the tools | external services | none here |
| First-phase API: `api/`, `services/`, `models/`, `db/` | | | not mounted by `app/main.py` | not part of the running program |
| Jobs, health, migrations, scripts, Streamlit demo | | | | no logic of their own |

What is hard here: two requests with one idempotency key; an effect at GoRush
whose transaction is lost afterwards; Redis failing between an effect and its
record; a refund confirmation that overlaps another one or follows a turn that was
rolled back; an LLM that asks for anything in any order; a message delivered
twice; a process that stops between INCR and EXPIRE; transactions at READ
COMMITTED that do not see each other's chunks or session row; a summary made of
messages another turn could see; frames cut off by a connection that breaks;
window arithmetic. Each is a "hazard" in `PROJECT.json`, at its line.

## 2. Plan

Order: what can move money first, then what the user is told, then what the
answers rest on.

| Step | Module | State |
|---|---|---|
| 1 | `ToolRegistry`, `ToolRouter`, abstract `ToolService`; `ToolRouterProofs` | done |
| 2 | `RefundFlow` with refunds the LLM requests; `RefundFlowProofs` | done |
| 3 | `ChatTurn`, `ChatTurnProofs` | done |
| 4 | `RateLimiter`, `RateLimiterProofs` | done |
| 5 | `KnowledgeBase`, `KnowledgeBaseProofs` | done |
| 6 | `Chunker`, `ChunkerProofs` | done |
| 7 | `ChatSession` (session row, messages, summaries, handoffs under overlapping requests), `ChatSessionProofs` | done |
| 8 | `Gateway` (WebSocket loop and HTTP endpoint), abstract `ChatService`, `GatewayProofs` | done |

Every safety and action property of the passing runs is proved. What would come
next: the measures that make the liveness properties a matter of fairness alone (the
place of `Chunker` in the text, what is left of a turn's limits), then what the models
leave out: feedback and quick actions, a second session of
the same user in `RefundFlow`, retrieval beyond its eligibility condition.

Several modules look at more than one set of circumstances in one run. They have a
constant `Settings` and a variable `env` that takes one of them in `Init`: which
kinds of request there are, how many at once, what may fail. A setting is a
precondition on the environment, never on the code.

## 3. Modules

### ToolRegistry, ToolRouter, ToolService

`ToolRegistry` is the allowlist: which roles, confirmations, keys and ownership
checks each registered tool has. `ToolRouter` takes such a policy as constants and
models `invoke` for any number of concurrent requests, one action per stretch of
code between two awaits:

| Code | Actions |
|---|---|
| `registry.get`, role check | `RejectUnregistered`, `DenyRole`, `PassRole` |
| `authorize_ownership` | `ForbidOwnership`, `GrantOwnership` (either may happen to a tool that compares the ride with the active one: the active ride is GoRush's) |
| confirmation gate, also for payment disputes | `RequireConfirmation`, `PassConfirmation` |
| idempotency lookup | `Replay`, `Miss`, `LookupFails` |
| PENDING row, `execute`, SUCCESS or FAILED | `InsertPending`, `ExecuteOk`, `ExecuteFails` |
| `store_result`, audit entry | `Store`, `StoreFails`, `RecordExecuted` |
| the handler around it | `Submit`, `Commit`, `RollBack`; `Abort` for a failed commit, a dead process, a client that went away |
| 24 h TTL | `Expire` |

`row`, `audit` and `committed` are the transaction; `idem` and `executed` survive
it. `via` tells a direct endpoint (an exception rolls back) from a chat turn (the
orchestrator turns the exception into text and the turn commits). `vetted`,
`before` and `expired` are history variables that only properties read.
`ExecuteFails` means no effect: the clients in the repository raise before they
do anything. An effect whose answer is lost is `ExecuteOk` followed by `Abort` or
`StoreFails`.

`ToolService` is the promise without the steps: a call is refused, or takes effect
once and is answered with that effect, or is answered with the effect of a call it
repeats; an effect may be lost, an answer is never invented. `ToolRouter` maps
`pc`, `executed` and `reply` to its phases (`Phase`) and `answer` to its `source`.

### RefundFlow

One chat session, its messages as numbered turns that may overlap. The state that
outlives a turn is where the code keeps it: `redis` (session_state), `reply`
(committed messages with their metadata), `idem`, and `submitted` at GoRush.
`Start` to `ReadState` are `handle_message` and `_get_session_state` with its
fallback to message metadata, `Confirm` is CONFIRM to EXPLAIN, `Verify` is
UNDERSTAND to GUIDE. A turn outside the flow is answered by the LLM, which may call
`request_refund` (`ChooseRefund`, then the same steps of the tool router as the
flow, with the key of the message or none); `ChatTurn` looks inside such turns.
Texts are reduced to the five kinds the detector and `_resolve_pending_intent` tell
apart, replies to seven kinds by what later turns find in them. `result` is what
`invoke` returned: with a key of the client it may be the refund of another ride.
Turns are numbered by the start of their transactions because `created_at` is, so a
turn that commits last may still be an older message. `guided`, `settled` and
`byLLM` are history. Left out: the TTL of idempotency entries (24 h, where the
session state has 1 h), a second session of the same user.

### ChatSession

The database rows of one session under the requests that touch them, each a
PostgreSQL transaction at READ COMMITTED: messages answered in one of the ways
`handle_message` ends (`kind`), the handoff button, an agent's takeover. Jobs are
numbered by the start of their transactions, so `m[1]` of a message is its place in
`ORDER BY created_at`; the two messages of a job share it, and `Newest` lets the
LIMIT fall between them either way. `ReadRecent` and `ReadSummary` are the two
queries of `build_llm_messages`, `MaybeSummarize`, `EndSummary` and `SkipSummary`
are `maybe_summarize` with the LLM call in its middle. A choice of messages is kept
with what was visible when it was made (`some`, `of`). `LoadSession`,
`TakeSnapshot`, `Flush` are `HandoffService.escalate` and takeover: the row is
loaded once, the ORM writes only the columns that differ from what was loaded
(`Dirty`), and the flush takes the row lock until the end of the transaction
(`writer`). Over HTTP `get_session` has read the row before, but its result is
discarded (`chat/router.py:124`) and SQLAlchemy's identity map holds objects weakly, so
`_escalate` loads it anew, where `LoadSession` does. A database error that `maybe_summarize` swallows poisons its
transaction, so the commit fails: that is `RollBack`. The bot goes on answering
after a handoff, as the code does, and nothing ever sets the status back.

### Gateway, ChatService

`ChatService` is what a client may rely on: a turn is stored as a whole or not at
all, an answer is of a stored turn, an error of one that never will be; it counts
both, and no message gets more than one. `Gateway` has both ways in: a WebSocket is served message by message and
sends a frame per stage (`todo` are the frames of the current message not sent
yet), an HTTP request is a connection with one message and one response. A turn is
one step, `FinishTurn` or `FailTurn`; `ChatTurn`, `RefundFlow` and `ChatSession`
look inside. `Leave` is the client going away, which the server notices (`Notice`)
when it sends or receives, or never; `Restart` the worker dying. Under the mapping
`asked` are the messages taken, `answers` and `refusals` how often the client heard
"completed" or "error" of each: `heard` is the sequence of frames, so a second one
would be a step of its own. `FramesInOrder` holds that sequence against the protocol
(`After`, `CanFollow`) frame by frame. Left out: a commit that the database applied although its
connection broke.

### ChatTurn

One message and its deliveries (the client may send it again, with the same key).
The LLM is free: in each step it may ask for any sequence of tools, or answer.
`Planned` is the fallback tool for messages that require one (a request for a human
that is phrased as a question about policies, `humanFaq`, requires none, but is
escalated at the end all the same); `CountCall` and
`CallsExhausted` are `LoopGuard.record_tool_call`; `CallRefused`, `CallReplayed`,
`CallExecuted`, `CallLost` are the outcomes of `invoke` seen from the loop;
`StepsExhausted` is the `else` of the `for`; `CheckText` the language validation;
`CheckHuman` the explicit request for a human; `CreateIncident`, `EscalateSafety`
the P0 flow. The gateway's text when both models are down is one of the LLM's
answers. Left out: prompts, RAG context, sentiment, guardrail wording, session
status and priority, the guided refund branch (that is `RefundFlow`).

### RateLimiter

One key. INCR, EXPIRE by the request that got 1, decision; `Fail` is Redis or the
process failing between the two calls; `Tick` is the clock and Redis' expiry.

### KnowledgeBase

Admin operations as PostgreSQL transactions at READ COMMITTED, the default the
engine is created with. `Load` reads rows once (the identity map keeps them);
`UpdateArticle` is the autoflush that writes a changed row before the DELETE and so
takes its lock; `BeginDelete`/`EndDelete` split the DELETE, which sees what was
committed when it started and waits for transactions that delete the same chunks;
`Embed`, `EmbedFails`, `EmbedGarbled`, `ApproveAnyway` are the outcomes of the
await for embeddings (`approve_knowledge_article` catches `ValueError` and goes on
to commit); `Deadlock` is PostgreSQL aborting one of two waiting transactions. The
chunks of one ingestion stand for each other. `past` is history: what had succeeded
when an operation began (`after` of its chunks), so that properties can tell
operations that overlapped from those that came one after the other. Article edits have no endpoint but
are what the docstrings of the ingestion are about: `Edit` is external.

### Chunker

`chunk_text` with words as positions and a paragraph as its length; a chunk is an
interval, since `current_words` always holds consecutive words. `Extend`, `Begin`,
`BeginWindow`, `Slide`, `EndWindow`, `Finish` are the branches of the loop.
`Overlap < Size` is assumed: the settings do not enforce it, and without it the
window of a long paragraph never advances.

## 4. Runs

| Run | Bounds | Shows |
|---|---|---|
| `ToolRouter` | 3 requests, 4 tools, 1 key, 6 kinds of call, policy of the real registry; symmetric in the requests; 864 000 states | `Gated`, `AnswersAreReal`, `RetryIsReplayed`, `HistoryIsTruthful`, `ImplementsService` |
| `RefundFlow` | 2 rides, 1 client key; `Calm`: 5 messages of any kind one at a time, nothing fails; `Stormy`: 3 overlapping turns, failures, lost turns, expiring state; `Eager`: 3 turns, 2 at a time, failures, an LLM that requests refunds; `Keyless`: the same for clients without keys, with expiring state; 1 807 000 states | `SubmissionsWerePrompted`, `SuccessIsReal`, `AnsweredKeyHolds`, `RefundedOnce` |
| `ChatTurn` | 2 steps, 2 calls, batches of up to 2 of 3 tools, 2 deliveries, failures; 736 000 states | `AnswersAreGrounded`, `HandoffsAreReal`, `HumansAreReached`, `EmergenciesAreHandled`, `TurnEnds` |
| `RateLimiter` | 5 requests, limit 2, window 2, 5 ticks; symmetric; 144 000 states | `WindowCloses`, `WindowsAreLimited` |
| `KnowledgeBase` | 2 articles; `MCSerial`: an approval and two operations of any kind one at a time, texts not blank, an edit, embeddings down or garbled; `MCOverlapping`: two approvals with two more operations, 2 at a time, blank texts, an edit, embeddings down, or two bulk ingestions while embeddings work; 547 000 states | `OneIndex`, `IngestReplaces`, `ApprovedOnce`, `StaysIndexed`, `DeadlocksSpareOne`, `OpsEnd` |
| `ChatSession` | `Long`: 7 turns one at a time, window 6 (for the code's 20), 1 kept out of a summary (5), 2 shown to the human (10); `Overlapping`: 5 turns, 3 at a time, window 4; `Escalating`: 3 escalations or takeovers at once, lost ones among them; 305 000 states | `SessionAgreesWithQueue`, `HandoffsHaveContext`, `MemoryHasNoHoles`, `JobsEnd` |
| `Gateway` | a WebSocket with 3 messages and an HTTP request, turns of up to 1 tool, restarts; 130 000 states | `FramesInOrder`, `ImplementsChatService`, `TakenIsAnswered` |
| `Chunker` | up to 4 paragraphs of up to 8 words, size 3, overlap 2; 106 000 states | `ChunksFit`, `NothingLost`, `Ends` |
| `DuplicateExecution` | 2 attempts with one key | violated: `NoDuplicateExecution` |
| `UnauditedDenial` | a denied direct call | violated: `ToolCallsAreAudited` |
| `RefundUnverified` | 2 messages, no failures | violated: `ActAfterVerify` |
| `IncidentRetried` | an emergency delivered twice | violated: `IncidentOnce` |

Why the bounds are enough. A request of the router interacts with others only
through one Redis slot, so three requests (a first attempt, an overlapping one, a
later retry) show every pattern of miss, store, expiry and replay; the proofs
remove the bound. In `RefundFlow` five serial messages allow guide, confirmation,
and a full second round plus one more attempt; three overlapping turns allow a
verifying turn to overlap two confirmations. `get_recent_messages(limit=5)` reaches two earlier
replies, so the fifth turn already forgets; the proofs remove these bounds too.
In `ChatSession` the window is in messages, two per turn: seven turns make 14
messages, so a summary is made, used, outlived by newer messages and made again;
window 4 makes the third turn summarize while two others run. Three escalations
are enough for one to load the row, one to commit and one to commit over it.
Three messages on a WebSocket are an answered one, a refused one and one that is
waiting; connections meet only when the server restarts. In `ChatTurn` two steps and two calls
let both limits be met, in the middle of a batch and between steps. The limiter
gets three windows and more requests than two windows admit. Knowledge operations
need two articles and two bulk ingestions to wait for each other in a circle.
Paragraphs of eight words make six windows of three words. Deadlock checking is off where the
requests, turns or operations of a run are simply over.

Temporal properties and fairness. `ChatTurn!FairSpec` asks that a turn goes on
(`WF_vars(Turn)`): LLM calls have a timeout (`llm_timeout_seconds`, 20 s), the GoRush
clients are local, and `LoopGuard` is the only thing that stops the loop.
`KnowledgeBase!FairSpec` asks that every operation goes on when it can: statements
and embeddings calls return or fail, a transaction that waits gets its turn or is
aborted by deadlock detection. `Chunker!FairSpec` asks that a running function is
not stopped. `ChatSession!Spec` asks only that some job goes on while one can
(`WF_vars(\E t \in Job : Work(t))`): LLM calls time out and a row lock is released
when its transaction ends. `Gateway!FairSpec` asks that each connection is served
(`WF_vars(Serve(c))`, the event loop and the timeouts inside a turn). None of them
asks for deliveries, retries, edits, clients that stay or failures to happen.

Each property of a passing run has a *mutant*: an operator next to the one it
replaces ("Bug of ..."), a plausible slip in that code that makes TLC report the
property violated.

## 5. Where the code departs from what it says

The four violation runs: an idempotency key does not keep a retry from executing
when it overlaps its first attempt or follows one lost between effect and record;
refusals on the direct endpoints leave no audit row, because the exception rolls
back the transaction the row is in; a "yes" after an LLM reply that merely mentions
refunds submits the default ride `ride_123` without VERIFY; the P0 flow does not
pass the message's idempotency key, so a redelivered emergency makes a second
incident.

Properties that hold, and how far:

- `RefundedOnce` holds for turns one after the other that do not fail, when only the
  guided flow submits (`Undisturbed`). In the other settings TLC finds two
  confirmations in flight that refund a ride twice, or an LLM that requests a refund
  without a key; what is left then is `AnsweredKeyHolds`: no turn submits again under
  a key, default or the client's own, that was answered before the turn started.
- `SuccessIsReal` names the exception: with a key the client used before, the success
  text is about the ride of the earlier answer, not the one the user was asked about.
- `SessionAgreesWithQueue` is about some handoff of the queue, not the most urgent: a
  standard handoff after an emergency sets the priority from P0 to P2
  (`handoff/service.py:52`).
- `MemoryHasNoHoles` holds while fewer than window - keep messages are new since the
  last summary, and not for turns that started before and ended after it was made.
  The summary is not cumulative: it covers the 16 oldest of the newest 21 messages,
  what is older is forgotten (`conversations/context_service.py:13-14` promises a
  summary of "anything older"): the first summary, made at the eleventh turn, already
  leaves out one of the 22 messages, which the twelfth turn cannot read any more. The LLM is given the user's own message twice, as
  the newest of the recent messages and as the message to answer.
- `RefundedOnce` and `AnsweredKeyHolds` say nothing of two confirmations that are
  handled at the same time (`orchestrator.py:526`): that is the window of
  `NoDuplicateExecution`, which is violated.
- The WebSocket passes no idempotency key and is not rate-limited; a client that lost
  its connection and sends again has its message handled twice. `ImplementsChatService`
  is about one message sent once.
- A turn that reports a failed submission may have submitted: every exception of
  `invoke`, also that of the SET after the effect, gets the failure text.
  `SuccessIsReal` is the direction that holds.
- `EmergenciesAreHandled` is about answered emergencies. If the incident tool raises,
  the turn ends before the escalation (`orchestrator.py:424`), and nobody is told.
- `HandoffsAreReal` counts a handoff by tool as real when GoRush was told. Such a
  handoff has no `Handoff` row and no context snapshot; only escalations have.
- `WindowCloses` names the exception: a request that fails between INCR and EXPIRE
  leaves a counter without a TTL, and the user is refused for good after the limit.
- Two ingestions of an article that overlap keep both sets of chunks; `OneIndex` says
  that nothing else does, and `IngestReplaces` that the next one clears both away. An
  article that became blank keeps its old chunks. `ApprovedOnce` is what the row lock
  adds for approvals that overlap.
- The text an ingestion indexes is the one it loaded. An edit that comes while the
  embeddings are made is not noticed: the chunks stay those of the old text until
  another ingestion.
- `DeadlocksSpareOne` holds while embeddings work: of bulk ingestions that wait for each
  other PostgreSQL aborts one, and the code does not try it again. When embeddings fail
  too, all may fail.
- `StaysIndexed` holds while embeddings are down. With `"garbled"` embeddings an
  approval commits the deletion of the old chunks.
- The chunker drops the overlap tail before a long paragraph and after its last
  window, and a long paragraph may end with a chunk contained in its predecessor.
- Under the default limits (8 steps, 5 calls) the step limit is never met: every
  step that does not answer makes at least one call.

## 6. Proofs

All of them hold for every value of the constants that satisfies the module's
`ASSUME`.

`ToolRouterProofs` (assumption `RouterAssumption`: the policy is a function of
tools and roles, `None` is none of the values). The properties are not inductive:
`Gated` says nothing about a request that is halfway. `IInv` adds what a request's
location implies. `GateInv`: which gates it has passed. `AnswerInv`: every Redis
entry and every carried result is that of an executed call of the same slot.
`RetryInv`: after an answer the slot is filled or has expired, so whoever read a
miss arrived before the first answer. `RowInv`: rows agree with `executed` by
location. From it: `TypeCorrect`, `GatesHold`, `AnswersHold`, `RetriesAreReplayed`,
`HistoryHolds`. From the same `IInv` the refinement `RouterImplementsService`:
`Submit` is `Open`, `ExecuteOk` is `TakeEffect`, `Commit` is `Answer`, `Reuse`, `Lose`
or `Refuse` depending on what `invoke` did, `Abort` and `RollBack` are `Lose` or
`Refuse`, the other steps stutter.

`ChunkerProofs` (assumption `ChunkerAssumption`: lengths are positive,
`Overlap < Size`) proves `TypeCorrect`, `ChunksAreBounded`, `WordsAreCovered`. The
invariant relates the words read but not cut yet to the last chunk (`CollectInv`),
the start of the window to it (`WindowInv`), and says that the last chunk reaches
the last word at the end (`DoneInv`). `Overlap < Size` is needed where `Slide`
keeps the chunks in order.

`RefundFlowProofs` (assumption `RefundAssumption`: the default ride is a ride, client
keys are not rides, `None` is none of the values) proves `TypeCorrect`,
`SubmissionsHold`, `SuccessHolds`, `AnsweredKeysHold` and `RefundsOnce` for any number
of turns and every setting. Its invariant says where a session state may come from: `BackInv`
follows a ride from VERIFY or the LLM's reply through Redis, message metadata and
the turns that read them to the submission, because a turn that overlaps a
confirmation, or finds Redis empty, brings back an older state at any time.
`KeyInv` says that entries stay and that whoever gets to submitting found none;
`RefundInv` ties every entry, result and reply to a request at GoRush. That
`_get_session_state` picks one newest message needs that a nonempty set of turns has
a newest one (`NewestExists`, from the well-foundedness of `<`). `RefundsOnce` is about
undisturbed turns and has an invariant of its own, `CalmInv`: one turn is in
progress at most; between turns the session state, if there is one, is confirmed or
names a ride that was not refunded, and if there is none nothing was submitted yet;
a turn that is on its way to a submission goes there for a ride not refunded.
Without faults a submission always ends with the confirmed state in Redis, which
closes the round; a new one begins with VERIFY, which asks GoRush.

`ChatSessionProofs` (assumption `ChatSessionAssumption`) proves `TypeCorrect`,
`RowFollowsQueue`, `ContextIsShown` and `MemoryIsWhole`. `SeenInv` is the point of the second: a job
that finds the row as it wants it writes nothing, and is right not to because what
it loaded was put there by a committed job that stays in the queue; the lock is not
needed for it. `ContextIsShown` rests on `NewestHas`: the newest n messages contain
the only message of a job or are n later ones. `MemoryIsWhole` counts: what a turn
read and what the summary was made of are newest messages (`IsWindow`, `IsSummary`),
so a message that is in neither has a whole window of later ones, of which at most
window - keep - 1 are new to the summary; the others were there when it was made, so
what it left out was older or one of the newest `keep` (`NoHole`). The case that needs
care is a limit that falls between the two messages of one job: the twin of the
missing message is exchanged for it (`Exchange`).

`KnowledgeBaseProofs` (assumption `KnowledgeAssumption`) proves `TypeCorrect`,
`ApprovalsIndexOnce`, `OverlapsIndexTwice`, `IngestionReplaces`, `OneIsSpared` and
`ArticlesStayIndexed` for any number of articles and operations, and infinitely many
operations too: only the active ones have to be finite. The lock protocol is in
three parts of the invariant. `LockOf`: an approval that changes the row holds its
lock from the autoflush to its end. `FirstOf`: its DELETE sees every first index of
the article there is, and none is added while it holds the lock, so at its commit
`gone` has all of them. `FreshOf`: it adds one itself. `PastOf` says of any operation
what `FirstOf` says of approvals, but only of the chunks that those in its `past`
made: an operation that has succeeded takes no more steps (`OkIsFinal`), so such
chunks do not become more after the DELETE has looked, and need no lock. `GoneOf` says
that what was deleted is replaced in the same transaction, or will be when its
embeddings arrive; only `ApproveAnyway` breaks it, which is the exception
`StaysIndexed` names. `OneIsSpared` follows from the guard of `Deadlock`: whoever is
aborted leaves one behind that waited for it and is still in progress, an operation
that is aborted later does the same, and a success is final. An approval or an
ingestion by name has one article only (`ShapeOf`), so it cannot be in a circle.

`GatewayProofs` (assumption `GatewayAssumption`) proves `TypeCorrect`, the
refinement `GatewayImplementsService` and `FramesAreInOrder`. `Receive` is `Ask`,
`FinishTurn` is `Store`, `Deliver` is `Answer`, `Refuse` or nothing. For the last,
`FrameInv` bounds the frames that may still be sent by whether the turn is stored, and
`OnceInv` says that "completed" or "error" is among them once, and then not among
those heard, which is what the counts of the service need (`TimesAppend`: a frame
heard counts once, for its own message). What is heard says nothing of what will be,
so `OrderInv` speaks of both as one line of frames (`Line`): to a client that stays,
the line is in the protocol, and at its end is what the location allows. It is asked
only while the client is there; what it misses after leaving, it misses from some
frame on.

`ChatTurnProofs` (assumption `TurnAssumption`) proves every safety property of
`ChatTurn` for any limits, any batches and any number of deliveries. A property is
about answers; the invariant says of the turn under way what its answer will rest
on. `HandoffInv`: a handoff in the making has its row in this transaction or its
effect at GoRush, and so has every cache entry, which is why a replay may report it.
`EmergencyInv` and `HumanInv` follow the two ways to a human by location,
`GroundsInv` the LLM's words: what `CheckText` may replace by them is theirs already
or is a handover.

`RateLimiterProofs` (assumption `LimiterAssumption`) proves `TypeCorrect`,
`CountersExpire` and `WindowsHold`. An open counter belongs to the request that made
it and has not reached, or has failed before, its EXPIRE. In a window every request
got a number of its own (`NumberInv`), so the admitted ones have at most `Limit`
(the pigeonhole principle); INCRs two windows apart are at least `Window` apart in
time (`GapInv`), so a stretch of `Window` ticks meets two windows.

Only model-checked: the liveness properties `TurnEnds`, `OpsEnd`, `Ends`, `JobsEnd`
and `TakenIsAnswered`, which need fairness and `ENABLED` and are outside the prover's
reach. Every other property of the passing runs is stated by a theorem. The
invariants named here (`IInv`, with `CalmInv` and `MemoryInv` beside it) were checked
by TLC before they were proved.

## 7. Not modelled

Prompts, templates, guardrails and the detectors' patterns (text matching without
state: the models choose its outcomes freely); ranking of chunks by vector
distance; what tools compute for their answers; authentication; read-only
listings, history and analytics; feedback and quick actions, which insert a row or
return a constant; providers and GoRush clients (I/O: their outcomes are choices);
jobs, health, migrations, scripts, the demo front end and the first-phase API.

Three hazards have no property. Ownership is checked against the ride that is active
then and may have changed when the tool executes (`tools/router/tool_router.py:51`):
only GoRush could check again. A summary forgets what is older than its window
(`conversations/context_service.py:48`): the code keeps nothing older that a property
could hold of; section 5 says what is lost. An
article that is edited while its embeddings are made is indexed with the text before
the edit (`knowledge/ingestion/service.py:37`): that is what the code does, and
`IngestReplaces` is about the loaded text.

## 8. Running

In this directory: `tlc -config ToolRouter.cfg MCToolRouter.tla` and likewise for
the other runs (module and configuration of each are in `PROJECT.json`);
`tlapm ToolRouterProofs.tla` and likewise for the other proof modules.
