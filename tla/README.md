# Verification of hermes-lark

TLA+ modules, TLC configurations and TLAPS proofs for `hermes_lark`, the Feishu
(Lark) adapter of the Hermes agent gateway.  The reference is the source under
`src/`; every modelled definition names the lines it stands for in
`PROJECT.json` ("map").

## 1. The system and its parts

The adapter lives between two parties.  Feishu delivers events (messages,
reactions, card clicks, meeting invitations, drive comments) on a websocket
thread or through a webhook, and offers an open API to send messages and cards.
Hermes runs agents: it is handed a message event, calls back
`on_processing_start` / `on_processing_complete` around a dispatch, streams
output through `send` / `edit_message`, and runs tools in threads of its own.
Everything inside the adapter is coroutines of one asyncio event loop, plus
those foreign threads.  The bundled OpenClaw tools run outside it: the host
starts one Node process per tool call, writes one JSON request to its standard
input and reads one reply, and may kill it at a deadline.  What these processes
share is files: the encrypted credential of each user, the key it is encrypted
with, and a lock directory per user.

| Component (source) | State | Operations | What is hard |
|---|---|---|---|
| Conversation card turns (`adapter.py` 3362-5202 and callers, `cardkit.py`) | one `CardKitConversationState` per thread: segment, boundary, lifecycle flags, sequence counter, two locks | create, suspend, resume, continue after a steer, stream, progress, tool update, finalize, fall back, expire, shut down | about ten kinds of coroutine share the state across awaits; every API call can fail, or find the card gone |
| Flush controller and image resolver (`cardkit.py` 55-240) | timer, in-flight flag, dirty flag; image cache | request, complete, resolve | coalescing a request that arrives while a flush is in flight; stopping it |
| Inbound queue and drainer (`adapter.py` 7701-7952) | pending events, "drain scheduled" flag, loop readiness | submit from any thread, drain, drop | the websocket thread, the drainer thread and the loop hand events over |
| Deduplication (13054-13118) | ids with times, order list, file | check-and-mark, evict, persist | bounded cache, TTL |
| Text and media batching (10744-10840, 11229-11345) | one pending event and one task per key | enqueue, flush | a new chunk cancels a flush that is already dispatching |
| Chat locks (9825-9848) | LRU of asyncio locks | get, evict | evicting a lock that is in use |
| Admission, mentions, bot loops (3014-3360, 12596-12916) | policies, loop counters | decide | precedence of policies |
| Thread routing and history (10352-10545, 12078-12595) | thread cache, pending group history | route, record, take | partial pages, TTL |
| Reactions (8022-8070, 9472-9592, 9988-10056) | reaction ids per message | add, remove | a removal racing the addition |
| Card actions (9045-9155, 9593-9819) | tokens seen | handle, synthesize events | duplicated clicks |
| Ask-user question cards (7493-7700, 8073-8865) | pending questions, submitted tokens, message ids | ask, submit, expire, replace | submit against expiry, two viewers |
| Approval cards (9156-9470) | pending approvals | send, resolve | resolve twice, wrong user |
| OAuth and permission interactions (6124-7420, 8866-9045, `oauth_runtime.py`) | device flows, pending registry, tokens | start, poll, resume, expire | polling against expiry and restart |
| Lifecycle (2754-3000, 13354-13490) | connection state, tasks, executor | connect, disconnect, reconnect | disconnect while coroutines run |
| Sending with retries (13440-13488), media retry (10846-10905) | attempts | send, retry | retrying what was already done |
| Webhook server (10318-10350, 11012-11228) | rate window, anomaly counters | accept | bounded tables |
| OpenClaw tools client (`openclaw_tools.py`) | interaction table | run a bridge process, resume an interaction | a deadline kills the process at any point |
| Node bridge (`node/bridge-entry.ts`) | captured tools, one request, one reply | invoke, list, token_get, token_set, token_remove | a tool replies while other calls of it run |
| User-token client (`node/uat-client-shim.ts`) | refreshes under way in the process; a lock directory and its owner.json | call with a token, refresh, retry after a rejection, revoke | refresh tokens rotate and are spent once; processes race, fail and die |
| Token store (`node/persistent-token-store.ts`) | master key file, credential file, tokens in memory | get, set, remove, seed | two processes create the key; rename against removal |
| Authorization shim (`node/auto-auth-shim.ts`) | none | turn an error into a follow-up | |
| Multiple accounts (`multi_account.py`) | adapter per account, target routes | fan out, route | partial connect |
| Drive comments (`feishu_comment.py`), meetings (`feishu_meeting_invite.py`) | dedup, target routes | handle | best-effort steps |

What makes each correct, in a line: the **card turn** shows every answer it
reported as shown, only ever writes below the last boundary, never edits a
frozen card and ends every turn; the **flush controller** never writes after
`complete()` returned and loses no request; the **inbound path** hands each
accepted event over exactly once, in order; a **batch** reaches Hermes whole
or not at all; a **chat lock** admits one dispatch per chat; a **question,
approval or OAuth interaction** is resolved at most once and never stays
pending; a **bridge call** ends with an answer or an error, a **refresh token**
is spent once and never lost while it is stored, the **token store** is an atomic
register, the **refresh lock** admits one process and never stays behind;
**shutdown** leaves nothing running.

`PROJECT.json` "components" gives the status of every part, "hazards" the places
where this code can go wrong in a way a test would hardly reach.

## 2. Modules

| Module | What it is |
|---|---|
| `CardKitTurn` | one conversation card turn: the state object, the physical cards in Feishu, and every coroutine that touches them; its properties |
| `TurnDisplay` | what a reader of the thread may rely on: a growing column of cards, one live card that only moves down, finished cards never change |
| `CardKitTurnDisplay` | the refinement mapping from `CardKitTurn` to `TurnDisplay` |
| `CardKitTurnWrites` | the inductive invariant of card writes, in named parts |
| `CardKitTurnProofs` | proofs that `TypeOK` and `WritesInv` are invariants, that frozen cards stay and that sequences rise |
| `CardKitTurnBoundaries` | proofs that a closed turn is forgotten, that a segment replaces only a frozen one, that output stays below the boundary, and that a tool completion stays on its card |
| `CardKitTurnColumn` | proofs that one dispatch implements `TurnDisplay` and leaves no card streaming, that its end closes the turn and that its answer is shown |
| `MCCardKitTurn` | what TLC loads for the runs of `CardKitTurn` |
| `InboundQueue`, `MCInboundQueue` | how events cross from the SDK's threads to the event loop: the pending queue and its drainer thread |
| `InboundQueueProofs` | proofs that one drainer runs, that every event is accounted for and that the replay keeps the order |
| `MessageBatches`, `MCMessageBatches` | text and media batches of one conversation, their timer tasks, the chat lock they pass, and disconnect() |
| `MessageBatchesProofs` | proofs of the chat lock, of the timers and that no message is handed over twice |
| `ChatLocks`, `MCChatLocks` | the bounded table of chat locks |
| `ChatLocksProofs` | proofs that the table is bounded and serialises until it drops a lock in use |
| `RefreshLock` | the directory lock of the Node workers: mkdir, owner.json, stale locks, release |
| `TokenRegister` | what the token store promises: one atomic register |
| `TokenStore` | the credential file and its master key, file operation by file operation |
| `TokenStoreProofs` | proofs that there is one key for ever and that `TokenStore` implements `TokenRegister` |
| `UATClient` | a call with a user's token: read, refresh under the lock, call the API, retry; extends `RefreshLock` |
| `BridgeWorker`, `MCBridgeWorker` | the one-shot processes: requests, tools, token operations, replies, kills; extends `UATClient` |
| `BridgeWorkerProofs` | proofs that the lock of `RefreshLock` serialises until a live one is removed and never stays behind, that the composed system uses it so, of the types, that a token is spent once, that the stored one stays usable, and that a refused one is not tried again |

### CardKitTurn: state and actions against the code

`st` is the `CardKitConversationState`: `cur` the index of the current card,
`open` segment_open, `anchor` resume_anchor_message_id, `reason`
suspension_reason, `fb` fallback_message_id, `trans` segment_transitioning,
`defTool`/`defTerm` the deferred tool updates and terminal, `closed` and `gone`
closed and unavailable, `disabled` streaming_disabled, `pending`
full_update_pending, `seq` the sequence counter, `terminal` turn_terminal,
`content`/`flushed` content and flushed_content, `tool` the last tool's status,
`active` active_input_message_id, `routed` whether the route tables still know
the state.  `segs` is what Feishu shows: the cards in publication order with
the sequence of the last applied write.  `ctl[i]` is the flush controller of
the segment on card `i`; `lock`, `waiters` and `resumeLock` are `state.lock`
with its fair queue and `state.resume_lock`.  `disp` is the Hermes dispatch,
`task[t]` a coroutine: a program counter named after the method it is in and
the locals that survive an await.

| Coroutine (task) | Code | Steps |
|---|---|---|
| `runner` | on_processing_start, on_processing_complete | `DispatchStart`, `DispatchContinue`, `Adopt`, `Complete` |
| `consumer` | Hermes' stream consumer: edit_message, send | `StreamDelta`, `FinalAnswer`, `Output*`, `Finalize*` |
| `notifier` | heartbeats and commentary | `Progress`, `Output*`, `FallbackWrite` |
| `agent` | the agent's thread: tools, artifacts, approval and question cards | `ToolUpdate`, `Boundary`, `Tool*`, `Suspend*`, `MarkTerminal` |
| a steer | an accepted message, at its acknowledgement or silently | `Steer`, `SteerBegin/End/Next/Silent`, `Adopt`, `Create*`, `RetireWrite`, `CancelSteer`, `LateCall` |
| `closer`, `expirer` | disconnect(), question expiry | `ShutDown`, `Expire` |
| flush tasks | CardKitFlushController._run_after, _flush_cardkit_state | `FlushFire`, `FlushLocked`, `FlushWrite` |

A step is the code between two suspension points.  `cpu` names a task whose last
step ended without suspending: awaiting a coroutine does not yield to the loop,
and `asyncio.Lock` is taken without yielding when it is free and has no waiter;
a released lock goes to the first waiter, and a newcomer cannot overtake it.
API calls made in a row while state.lock is held are one step, because nothing
but the lock's holder reads or writes what they touch; their partial failures
(the first applied, the second not) are alternatives of that step.

A steer is a user's message, which becomes the anchor, or, where `MayEcho`, a
synthetic continuation: the answer to a question or authorization that the
adapter itself hands over.  That one has no message in the timeline: it adopts
the segment that is open, or goes on below the anchor that the frozen one has, as
read before the lock.

Cancelling a steer's task ends its coroutine, not the call it awaits:
`_run_blocking` hands calls to an executor, whose thread finishes what it began.
`CancelSteer` therefore releases the locks and keeps the sequence numbers
reserved; the segment stays open, or the turn unfinished, and nothing after
the await is done.  What the call still writes is left to `LateCall`: the document or
text of a card, the publication of a card, a message - or nothing, when the call had
not left the executor's queue.  The calls the step made before the awaited one
are taken to have succeeded; a call that changes only a card's settings shows
nothing and is not kept.  CardKit refuses a late write that a higher sequence
has overtaken (`Accepted`).

The agent is one sequential task.  Not modelled: the 15 seconds after which
`notify_cardkit_lifecycle` stops waiting for a tool update that goes on running,
and tools that run in parallel and notify at once.

A text is one of five values ("", streamed part, progress, the answer, a
default note); a tool is its last status.  A message id is the position of the
message in the thread's timeline, so "below" is "greater".  Cards' rendering,
images, footers and titles are left out.

### InboundQueue

Real threads: a step is what one does between two accesses of shared state, and
a critical section of `_pending_inbound_lock` is one step.  `callback[t]` is an
SDK thread in `_on_message_event`: `Deliver` looks at the loop, `Submit` or
`Enqueue` follows, `Spawn` starts the drainer.  `drainer[d]` is a thread in
`_drain_pending_inbound_events`; `Top` and `Look` read `_running` and `_loop`
apart, `Grab` takes the batch, `Replay` submits one event, `Requeue`, `Check`
and `Final` are the three critical sections at the end of a pass.  `running`
and `loop` change by connect() and disconnect() at any moment, but an event only
arrives once connect() set `_loop`, because the SDK's client is started after
that.  Loops are numbered: `loop` is the one `_loop` holds, those up to
`closed` are closed, and a thread keeps the one it took (`saw`), so that a
drainer may still submit to a loop that closed while a new connect() runs on the next
one.  What it puts back is replayed there.  `fate` and `queued` are history.

### MessageBatches

`task[<<"intake", m>>]` is the coroutine that takes message `m` in
(`_dispatch_inbound_event`), `task[<<"timer", m>>]` the flush task it starts.
`pending[k]` and `timerOf[k]` are the batch and the registered task under a
key; one conversation has a text key and a media key, and both pass one lock.
`Arrive` is a whole step of the intake: merge, or flush what it cannot join and
dispatch that, or dispatch itself.  `Return` is the end of handle_message, after
which an intake that flushed stores its own event.  `Reschedule` cancels the
prior timer wherever it is; that abandons what it awaits and releases the lock.
disconnect() cancels the timers of each key, awaits them if there were any, and
resets the buffers; `closing` ending in "!" means it goes on without yielding.
Texts are lengths, reply contexts are two values.

### ChatLocks

`table` is the OrderedDict, oldest first; lock objects have an identity of their
own, so a dispatch can hold a lock that the table no longer has.  `Reuse` and
`Create` are `_get_chat_lock` followed by the attempt to take the lock, in one
step because nothing suspends in between.  A released lock reports not locked
until its first waiter runs (`Wake`), and in that window the table may drop it.
`dropped` records that a lock somebody holds or waits for left the table.

### The Node bridge: RefreshLock, UATClient, BridgeWorker, TokenStore

Four modules for one stack.  `RefreshLock` is the lock alone, `UATClient` adds
the calls that take it, `BridgeWorker` the processes the calls run in; the
processes work for one user of one application.  `TokenStore` is the store by
itself, below the level of `UATClient`.

`maker` and `owner` are the lock directory and its owner.json, `old` that its
mtime is ten minutes past, `lk[w]` where worker `w` is in `acquireRefreshLock` or
in `release`: `Make` is the mkdir, `Own` the writeFile, `Judge`
`refreshLockIsStale` with the wait of 50 ms, `Remove` and `Bail` the two `rm` of
the path, `CheckOwner` and `Unlink` the release.  Each is one file operation, so
another worker may act between any two; `MakeFails` and `OwnFails` are the
failures other than EEXIST.  `stolen` is history: a removal hit a live worker's
lock.  The code removes the path without looking again at what is there, so this
can happen, and nothing else lets two workers in.

`call[c]` is one `callWithUAT`: its program counter, the token it saw (`seen`),
posted (`tried`), got (`out`) and calls the API with (`used`), the one the API
rejected (`refused`), and whether it asked twice, failed, or waited for the
refresh of another call (`again`, `failed`, `joined`).  `inflight[w]` is
`refreshLocks` of process `w`, `eph[w]` its `ephemeralTokens`, `stored` the
store.  `provider` is the OAuth service: the tokens issued and those whose
refresh token still works; `clock` the tokens that grew old.  `Begin` is
`getValidAccessToken`; `Decide` what `refreshWithLock` does with the lock in
hand; `Post` an answer of the provider; `Answer` and `Stored` the two file
operations of the store a write can be seen between; `Settles` the promise of
`refreshLocks`, on which every waiting call of the process goes on.  `faults`
counts network errors, failed writes, rejections, agings and kills together.

`request[w]` and `reply[w]` are a process's input and output.  `ToolEnds` lets a
tool reply when its calls are over, or as soon as one of them failed while
others still run - the process then lives on until they are over (`Exit`).
`Gone` clears everything the process had; the model then lets the worker's name
be dead for good, so that process ids are not reused.

In `TokenStore`, `io[c]` is one store operation of one process.  `CreateKey` and
`FillKey` are apart, because `writeFile` with flag wx creates the file first: a
reader in between finds a key of the wrong length.  `StoreKilled` kills any
processes at any moment.  The refinement maps the register's value to what a
reader would decrypt now, and says that each operation takes effect in the step
that ends it - the rename, the removal, the read.  `UATClient` uses the atomic
register that this justifies instead of the file operations.

Abstracted: token pairs are numbered; the provider rotates the refresh token at
every refresh; a refresh token outlives its access token, so that "past the
refresh window" is a last stage of growing old; reading a file does not fail
when it is there; file modes, paths, formats and the identity check are left
out; the tool that revokes a token counts as a token_remove of the host; a token that the host
seeds is not one that a refresh under way has just been issued, because no one has
seen that yet.

### What the runs check

The bounds of `CardKitTurn` are the constants `MaxAgentOps`, `MaxStream`,
`MaxProgress`, `MaxDispatch`, `MaxFaults`, the sets `Steers` (messages
accepted into the turn) and `AgentOps` (kinds of agent operation).

| Run | Scope | Properties |
|---|---|---|
| `card_boundaries` | 3 agent operations among tool, artifact, approval; 2 deltas, 1 heartbeat, final answer | `AnswerShown`, `EndClosesTurn`, `OutputBelowBoundary` |
| `card_steers` | 2 steers (both modes, user messages or synthetic continuations), a tool or an artifact, 1 delta, final answer | `NoOrphan`, `KeepsDisplay` (refinement of `TurnDisplay`), `CommitOntoFrozen`, `OutputBelowBoundary` |
| `card_questions` | 1 operation among question, tool and artifact; 1 silent steer (user message or synthetic continuation) that may be cancelled at any await, with the call it leaves behind; 2 dispatches, expiry, 1 failing call | `WritesInv`, `RouteReleased`, `SequenceRises` |
| `card_faults` | 2 operations, up to 2 failures of any kind at any call, disconnect() at any moment | `TypeOK`, `RouteReleased`, `WritesInv`, `FrozenNeverEdited`, `SequenceRises` |
| `card_progress` | fairness, 1 steer, 1 tool, 2 deltas, success or cancellation | `ToolShown`, `TransitionEnds`, `CoroutinesEnd` |
| `batches` | fairness, 3 messages of 4 kinds, 2 contexts, 2 lengths, disconnect() | `Serial`, `HandedOnce`, `PendingHasTimer`, `TimersRegistered`, `NothingStuck` |
| `chat_locks` | fairness, 3 dispatches, 3 threads, 2 locks | `SerialUntilDropped`, `TableBounded`, `WaitersServed` |
| `inbound_queue` | fairness, 2 SDK threads, 3 events, queue of 2, 3 connects, 1 poll | `OneDrainer`, `Accounted`, `ReplayedInOrder`, `DrainerEnds` |
| `token_store` | 3 processes, 2 tokens, kills at any moment, with and without a key at the start | `StoreInv`, `AtomicRegister` (refinement of `TokenRegister`) |
| `bridge` | fairness, 2 workers, 3 calls (2 concurrent in one process), 3 tokens, 1 fault | `TypeOK`, `SerialUnlessStolen`, `NoneLeft`, `SpentOnce`, `StoredUsable`, `RetriesWithAnother`, `WorkersEnd` |

Why these bounds are enough to be interesting.  Every race of a card turn needs
at most one coroutine suspended at an await and one or two boundaries that move
the anchor meanwhile; two steers or three agent operations give three segments,
so that a creation can go stale twice; two failures let a retry or a fallback
fail after the failure that caused it.  Kinds of events are spread over the
runs because each needs different company to matter (steers at their
acknowledgement share the continuation with the silent ones and then write
their text as a heartbeat does; `card_questions` passes with them too, at four times
the states); the passing runs fire
every action between them.  Three messages are one that is being dispatched,
one that is collected and one that interferes; two of the lengths overflow the
batch.  Three dispatches over two locks let two collide on one thread while a
third evicts.  Three events overflow a queue of two; of three connects
one takes the event that is queued, one has its loop closed under the drainer, and one
replays what the drainer put back.  Three processes over one key are one that creates it, one that finds
it half-written and one that lost the race and reads it again.  Two workers
contend for the lock and each may find the other's lock stale; the two calls of
the first one are a refresh and a call that joins it; three tokens are the stored
one, its rotation and a rotation of that, or a new grant.  One fault is a kill, a
rejection, an aging or a failed write each in every place (the proofs have no
such bound).  `bridge` is checked without deadlock detection: a worker's process
is over after one request, and when all are over the system stops, as it should.

Fairness.  Card turns: weak fairness of every coroutine's next step and of the
flush tasks - the event loop runs every task that is ready, an API call returns
because the client has timeouts and the card calls a bounded number of retries,
a flush timer fires.  Batches: the same of timers and of dispatches, assuming
that Hermes returns from handle_message, and of the steps of disconnect() once
it began.  Chat locks: a woken waiter runs and a holder leaves.  Inbound queue:
a thread that has something to do is scheduled.  Node workers: a process that
runs gets on, the network answers or fails in the end (a connection that hangs
for ever would be ended by the host's deadline, when one is configured), and a lock directory that nobody alive holds grows old, which is the
clock; nobody has to ask, call or kill.  Nothing is assumed of the
environment: no message, tool, steer, ending, connect or disconnect has to
happen, and steers are not cancelled in `card_progress`.

### Where the code and its documentation disagree

Two runs expect a violation; each checks one statement of the repository's
documentation, comments or tests, and TLC finds a behaviour of the code that
contradicts it.

| Run | What happens |
|---|---|
| `finding_answer_lost_to_steer` | _finalize_cardkit looks at segment_transitioning before it waits for the flush controller and not after; a steer in between loses the answer |
| `finding_message_lost` | a text that arrives while the flush task of the batch before waits for the chat lock cancels that task, and its batch is lost |

The passing run of `AnswerShown` and `EndClosesTurn` keeps to answers sent with
`send`, to one dispatch that ends well and to a turn without a steer, where they hold
(and are proved: section "What is proved" has what refutes them elsewhere);
`OutputBelowBoundary` and `CommitOntoFrozen` are checked where no steer is cancelled:
a steer is continued inside the batch flush task that dispatches its message, and
cancelled between moving the boundary and freezing the card it leaves the card
open; then a tool update is written above the accepted message, although
`src/README.md` says that output continues below it, and a later steer may
replace the card that was left open.  `FrozenNeverEdited` is not claimed for cancelled
steers either: the executor's thread still applies the freeze, so that Feishu shows a
card "continued" whose segment is open, and the next tool update, flush or
finalize edits it.  A card whose publication was awaited appears, and no
state will ever know it.

Other races the models have and no run singles out: on_processing_complete
forgets the route of a turn whose finalize a steer deferred; deferred tool
updates are dropped when an artifact made the steer's new segment stale; two
fallback writes in flight send two messages, one that a boundary overtakes keeps
the message above it as the one to edit, a late heartbeat replaces the answer in
it; a cancelled steer leaves `segment_transitioning` set; an intake that flushed
a batch overwrites what another intake stored meanwhile; a full table of chat
locks drops a lock in use; edit_message(finalize) does not resume the
conversation, so that after an artifact froze the segment the answer is reported
delivered and shown nowhere; an event queued between the drainer's last look and
its end stays queued; the drainer drops the queue during a restart, because
`_running` is false until connect() ended.

Of the Node bridge: a worker that judged a lock stale, or whose owner.json could
not be written, removes the path whatever is there by then, so that refreshes
are not always serialized (`docs/CONFIGURATION.md` says they are) and a token may
be posted twice; a refused refresh removes the stored credential, also a grant
that token_set stored meanwhile; token_set and the removals take no lock, so that
a refresh under way overwrites a grant or stores a token again after it was
revoked; a token that the host seeded in memory is refreshed into the store, which
the header of `persistent-token-store.ts` excludes, and still hides the new one
from the same process; a process killed between the creation of master.key and
its contents leaves a store that can never be read or written.

### What is proved

For every value of the constants (any set of steers, any bounds, any choice of
failures; any number of threads, events, messages, chats, dispatches, processes
and tokens), from the named assumptions of each module and nothing else.  What
some theorems of a card turn add is stated in the theorem, and TLC says what
each hypothesis is for:

- `~MayCancel`, no steer's task is cancelled.  A cancelled steer refutes
  `CommitOntoFrozen`, `OutputBelowBoundary`, `NoOrphan` and `FrozenNeverEdited`, and
  that a card which is written streams (`CurrentStreams`).  Where there is no
  steer nothing can be cancelled: `Uncancelled` is `~MayCancel \/ Steers = {}`.
- `~MayEcho`, steers are user messages.  For `KeepsDisplay` and `NoOrphan` this is
  what the argument needs; TLC finds neither violated with synthetic
  continuations (`card_steers`).
- `MaxDispatch <= 1`, the first dispatch is not continued by another, and
  `Faults = {}`, every call succeeds (`NoOrphan`, `EndClosesTurn` and, by
  `FaultFree`, `AnswersShown` only speak of runs in which none has failed).  A
  second dispatch refutes `NoOrphan` (a steer's message becomes the anchor twice,
  so that a creation which was given up finds its anchor again, and a late fallback
  write closes the turn under the segment it opens); with three failing calls it
  refutes `ToolShown` (a tool update that is deferred while the second dispatch rolls
  the turn forward is lost after a fallback); and it refutes `AnswerShown`, when
  it continues below the question that hid the answer.  For `KeepsDisplay` and
  `EndClosesTurn` these are what the argument needs, not known to be necessary:
  TLC finds `KeepsDisplay` not violated with one steer and one failure, and
  `EndClosesTurn` not with two dispatches and two boundaries.
- `Steers = {}`, the dispatch is not steered: a steer refutes `AnswerShown` (the run
  `finding_answer_lost_to_steer`) and `EndClosesTurn`; a silent one with an artifact that
  makes its segment stale refutes `ToolShown`.
- `FinalWays \subseteq {"send"}`: edit_message(finalize) does not resume the
  conversation and refutes both `AnswerShown` and `EndClosesTurn` once an
  artifact or an approval card froze the segment.
- `~MayShutDown`: disconnect() closes a turn while its answer is on the way,
  whose finalize then finds it closed and reports success; or it forgets a
  suspended turn without closing it.  `~MayExpire`: a question that expires
  while the answer creates its segment closes the turn under it.
- `FaultFree` in `AnswersShown`: the flush that fails leaves the answer to the end of
  the dispatch, which need not have come.
- `Endings \subseteq {"success"}` in `EndCloses`: a dispatch that fails while an
  artifact freezes the segment finds it frozen, shows no note, and its turn is
  forgotten without being closed.  `AnswersShown` holds for every ending.

| Module | Theorem | States |
|---|---|---|
| `CardKitTurnProofs` | `TypeCorrect` | `Spec => []TypeOK` |
| | `WritesGuarded` | `Spec => []WritesInv` |
| | `FrozenStays` | `Uncancelled => (Spec => FrozenNeverEdited)` |
| | `SequencesRise` | `Spec => SequenceRises` |
| `CardKitTurnBoundaries` | `ClosedTurnForgotten` | `Spec => []RouteReleased` |
| | `SegmentsFollowBoundaries` | `~MayCancel => (Spec => CommitOntoFrozen)` |
| | `OutputStaysBelow` | `~MayCancel => (Spec => OutputBelowBoundary)` |
| | `ToolsShown` | `Steers = {} /\ MaxDispatch <= 1 => (Spec => []ToolShown)` |
| `CardKitTurnColumn` | `TurnKeepsDisplay` | `MaxDispatch <= 1 /\ ~MayCancel /\ ~MayEcho /\ Faults = {} => (Spec => KeepsDisplay)`, a refinement |
| | `NothingOrphaned` | `MaxDispatch <= 1 /\ ~MayCancel /\ ~MayEcho => (Spec => []NoOrphan)` |
| | `EndCloses` | `Steers = {} /\ MaxDispatch <= 1 /\ ~MayShutDown /\ FinalWays \subseteq {"send"} /\ Endings \subseteq {"success"} => (Spec => []EndClosesTurn)` |
| | `AnswersShown` | `Steers = {} /\ MaxDispatch <= 1 /\ ~MayShutDown /\ ~MayExpire /\ FinalWays \subseteq {"send"} => (Spec => [](FaultFree => AnswerShown))` |
| `InboundQueueProofs` | `QueueTypes`, `SingleDrainer` | `Spec => []TypeOK`, `Spec => []OneDrainer` |
| | `EventsAccounted` | `Spec => []Accounted` |
| | `QueueReplaysInOrder` | `Spec => []ReplayedInOrder` |
| `MessageBatchesProofs` | `BatchTypes`, `ChatLockSound` | `Spec => []TypeOK`, `Spec => []LockQueue` |
| | `HandledSerially` | `Spec => []Serial` |
| | `NeverHandedTwice` | `Spec => []HandedOnce` |
| | `OneTimerPerKey` | `Spec => []TimersRegistered` |
| | `CollectedBatchIsTimed` | `Spec => []PendingHasTimer` |
| `ChatLocksProofs` | `LocksHeld`, `Bounded`, `Serialised` | `Spec => []LocksInv`, `Spec => []TableBounded`, `Spec => []SerialUntilDropped` |
| `TokenStoreProofs` | `StoreKeepsOneKey` | `StoreSpec => []StoreInv` |
| | `StoreIsRegister` | `StoreSpec => AtomicRegister`, a refinement |
| `BridgeWorkerProofs` | `LockSerializes`, `LockNoneLeft` | `LockSpec => []SerialUnlessStolen`, `LockSpec => []NoneLeft` |
| | `BridgeUsesLock` | `Spec => LockSpec`, by which `BridgeSerializes` and `BridgeNoneLeft` carry the lock's properties over |
| | `BridgeTypes`, `BridgeInvariant` | `Spec => []TypeOK`, `Spec => []BridgeInv` |
| | `TokenSpentOnce` | `Spec => []SpentOnce` |
| | `StoredStaysUsable` | `Spec => []StoredUsable` |
| | `RefusedTokenNotRetried` | `Spec => []RetriesWithAnother` |

**Writes to cards.**  That a frozen card is never edited is not inductive: it holds because of who
may write.  `WritesInv` says it in five parts.  `WriterHasLock`: a coroutine at
a write owns state.lock, and so does a flush, one at a time.  `CurrentStreams`:
unless a steer can be cancelled, while the segment is open, or a write to it is
in flight, its card still shows "streaming" - so a write that starts finds a card that may be written, and the
lock keeps another write from freezing it first.  `SequenceAhead`: the
counter is at least the sequence last applied, and strictly ahead where a
write in flight reserved its number before the await.  `PublishedIsFresh`: a
card published by a creation that is not committed yet was never written, is
not the current card, and belongs to one creation, so that retiring it edits no
frozen card.  `LateIsBehind`: the sequence of a call that a cancelled steer left
behind is one that the turn has passed, so that it is applied before the next
write of that card or refused.  `CardKitTurnProofs` proves a typing lemma per action, then per action
that the five parts are preserved and that the step is a legal one, with a lemma per kind of step (a step that writes
no card, one that releases the lock, one that appends a card).

**The route of a closed turn.**  `RouteInv`: a turn that is closed, not gone and
still routed has a task on the CPU at the end of its finalize, whose next step
forgets it.  Every step that closes a turn either forgets it at once, or ends in
that point without suspending, and nothing else runs in between.  This needs no
hypothesis: it holds with failures, cancelled steers, expiry and shutdown.

**Boundaries.**  That output goes below the last boundary relates three places
of the code that are awaits apart: where the anchor is moved, where the card is
frozen, and where output checks both.  `BoundaryInv` has the pieces.
`AnchorIsNewest`: a pending boundary is the last one committed.
`FrozenAtAnchor`: a card that is not open has a boundary below it, and one that is
open although a boundary was set below it is at this moment being frozen by the
holder of state.lock - the part that a cancelled steer breaks, because
it leaves the lock between the two.  `OpenBelow`: an open card without a
boundary was published below the last one.  `FlushesBelow` and `AllPlaced` carry
this across awaits: a flush or a write in flight holds the lock, so its card is
still the open one; a creation goes below the boundary it was asked for, and its
commit compares that with the anchor of the moment, so that the first of several creations for
one boundary is committed and the others find the anchor gone.  `Begins` says that
before the first segment only the dispatch that creates it runs.

**The column.**  `TurnKeepsDisplay` maps every step to a step of `TurnDisplay` or a
stutter, so it needs to know of each write which card it reaches.  `ColumnInv`
has what a coroutine relies on across its awaits.  `AllApt`: the card that a
creation published is the next segment (it is newer than the current one) or the
creation was given up - the turn closed, lost its route, or has another anchor
than the one asked for; a coroutine returns without a segment only then; and output
and freezing reach an open card of a turn that is not closed.  For that "given up" has
to last: `Apart` says that a message which may still become the anchor is the
boundary of nobody else's creation, and `Steered` that the anchor may become the
same message again only as a steer's, for which the code freezes nothing new.
`FlushesOpen` says the same of flushes.

`NothingOrphaned` follows the cards instead.  `NoneLost`: a card that streams is the
live one or is held by a creation that will commit or retire it.  What could
lose one is a question that expires and closes the turn: it finds the
segment frozen, but while it waits for state.lock a creation could open the next
one, and closing the turn would leave that card streaming.  `Expiring` shows
why this cannot be: the expiry asks for the lock while the question is the
boundary, and then every creation in flight was given up (`Belated`, by `AllApt`:
none is asked for below an open question), so that what comes before the expiry
in the queue of state.lock opens nothing.  `Queued` (a waiter is at an
acquire, once) makes "before it" a fact about positions in that queue.

**Tools.**  `ToolShown` says that some card shows an acknowledged completion; that is
not inductive, since every flush and every terminal write draws the card anew from
the state.  `RolesInv` says who is where in the code: each coroutine of an
unsteered dispatch is at a point of its own calls with its own locals, so that
only the agent sets a tool, and no transition defers one.  `ToolInv` then has
what a completion needs: once acknowledged it is on a card, and as long as that card is
the current one also in the state, so that whatever draws the card draws the tool; the
agent's write under state.lock shows what the state has; and a card that was never written shows
no tool, so that a new segment takes nothing over.  This holds with
failures, expiry and shutdown: a call that fails acknowledges nothing.

**The end of a dispatch.**  `EndsInv` relates the dispatch to the four parties that
outlive each other's awaits.  `StateRests`: the answer comes after the run was
marked over, a turn of an active dispatch is closed or routed, and a frozen one waits
at an artifact, an approval or a question.  `AgentRests`: once the run is over the agent is
idle, so that no boundary comes after the answer.  `ConsumerRests`: after the answer
the turn has an open segment, is closed or waits for a question, or the
consumer is still on its way to make one - and the creation it waits for is not
given up, which is where `ColumnInv` enters: a creation that ends
without a segment is one that was given up, and nothing gives it up any
more.  `RunnerRests`: so completion finds the segment open and finalizes it, or the
turn closed or suspended by a question.

**The answer.**  An answer that was acknowledged may still be in a flush, so the
induction follows it to the card.  `StopInv` is about the controllers: that of an
open segment takes flushes unless somebody is about to freeze or finish
the segment, a stopped one waits for no timer, and a flush in flight writes the
content that the state has.  `AnswerInv`: an acknowledged answer is the content
of the state and is on the card, or a flush of that card or the finalize
at the end of the dispatch is still to write it, unless a question hides it on purpose (`Answered`); what is
marked as flushed is on the card; a turn is closed before the end of
its dispatch only with the answer shown; and that last finalize writes the answer
exactly if the state has it, so that it puts no note in its place.  Once all is
quiet nothing is coming any more, and the answer is on the card.

**The queue.**  `OneDrainer` rests on a token: while `scheduled` is true exactly one party may
have the right to drain, the SDK thread that set it and has not started the
drainer, or the drainer; `Token` says that there are never two, and none while
`scheduled` is false, so that the thread which sets it creates the only one.
From it, `Located` says that an event is in one place - carried by one thread,
submitted once, or waiting in the queue, the drainer's batch or what the drainer
puts back - and `Lined` that these three, one after the other, are in the order of
arrival: what is put back goes in front of the queue, because only the closing of
the loop that the drainer took sends events back, and then nothing more of that
batch is submitted.  `Accounted` counts
the places, `ReplayedInOrder` follows with `Ordered`, which compares the order of
submission with the order of arrival.

**The batches.**  `LockQueue` is the chat lock under cancellation: a task is past
the acquire exactly when it owns the lock, and at it exactly when it is in the
queue, once.  `Registered` and `Only`: the timer registered for a key is of that
key, and the others are over, until disconnect() empties the table.  `Timed`: a batch that is
being collected has its timer asleep.  `OnePlace`: a message that was not handed
over is in at most one place among the two buffers, the intakes that still carry
it and the flush tasks that popped it; so a merge, an overflow or a flush moves
it, and cancelling a task or overwriting a buffer may lose it but never doubles it.

**The chat locks.**  `SerialUntilDropped` rests on `LocksInv`: threads are distinct in the table, a
dispatch inside a lock is its owner, and until a lock in use is dropped the
table has, for the thread of every dispatch, the very lock it holds or waits
for.

**The Node bridge.**  Mutual exclusion of the directory lock rests on `Believes`: until a live lock
was removed, a worker past the mkdir is the maker of the directory, and one past
the writeFile is named in it.  `NoneLeft` holds whether or not a lock was stolen,
and needs to be known of every step that leaves the protocol.

`SpentOnce` is proved from it.  `BridgeInv` adds `OneRefresh` (a call that
refreshes is the one in its process's `refreshLocks`), `UnderLock` (its process
holds the lock from the decision to the release) and `AskedFirst`: so two calls
that post or store are one call, or two lock holders, which only a stolen lock
allows.  Then the token decided on was read under the lock, and `StoredUsable` -
the stored token works, or the refresh that spent it is about to replace it -
makes it a working one; `FreshOut` says that nobody spends the rotated token
before it is stored.  The three token invariants are inductive only together.

`RetriesWithAnother` needs no lock.  `RetryAhead` follows a call from the
rejection to the second try: the forced refresh takes the refused token for used
up, or finds another one stored, and what it gets is new; `Unseen` says that a
token which the provider has just issued to one call is nowhere else yet, so that it is
not what another call was refused.  It needs no assumption on who removes whose lock.

The refinement of `TokenRegister` rests on `OneKey` (the credential is encrypted
with the key every process at work has read) and a typing of operations under
way; each action of `TokenStore` has a lemma that maps it to an action of the
register or a stutter.

**Only model-checked.**  The liveness properties `TransitionEnds`,
`CoroutinesEnd`, `NothingStuck`, `WaitersServed`, `DrainerEnds` and `WorkersEnd`:
fairness and ENABLED are outside the prover's reach.  Every invariant and action
property of a passing run is stated by a theorem, those of a card turn under the
hypotheses above; what a run shows beyond them is `ToolShown` with one steer
(`card_progress`), and the column and the orphans with synthetic continuations
(`card_steers`).

## Plan

In this order, the parts that decide what a user sees first:

1. The rest of the inbound path: deduplication with its TTL and file, reactions
   and card actions; abstract specification over queue, batches and locks: each
   accepted event is handed over at most once.
2. Image resolver and image refresh of a card, composed with the flush
   controller.
3. Interactions: ask-user cards, approvals, OAuth and permission flows over the
   pending registry.  Abstract specification: a one-shot interaction, pending,
   then resolved or expired, never both.
4. OpenClaw tools client: the interaction table and resume_interaction, composed
   with the follow-ups of `BridgeWorker`.
5. Lifecycle and multiple accounts; webhook rate window; admission and bot-loop
   policies as operators against a reference definition; thread snapshots and
   media retry; drive comments and meeting invitations.

Proofs worth having beyond those above: the refinement of `TurnDisplay` when calls
fail; `AnswerShown` with steers once the finalize looks at the transition again;
at-most-once resolution of an interaction.

## Not modelled, and why

Rendering of cards, Markdown, mentions text and media (formatting without a
state of its own); HTTP, signatures and the Feishu SDK (external; their
failures are outcomes of an action); the setup wizard and the build scripts
(sequential, not part of the running program), among them the bundling of the
Node bridge (`tsdown.bridge.config.ts`, `bridge-source-transform.mjs`).  The
bundle `openclaw_tools_bridge.mjs` is generated from the TypeScript sources and
from upstream packages; its tools are stateless calls of the Feishu API, of which
`BridgeWorker` keeps that they call with a token and end in a result or an error.  The rest of section 1 that has
no module yet is in the plan.
