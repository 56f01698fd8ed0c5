# A TLA+ verification of agentwire

Agentwire is a bridge: it connects IRC channels to coding-agent sessions
(Claude, Codex, Pi, OMP, OpenCode). An owner's client sends *actions* in message
tags; the bridge authenticates them, journals them in SQLite, executes them
against an agent backend, and publishes *events* back into the channel. It is
one asyncio process, so "concurrency" here means tasks that interleave wherever
one of them really suspends, plus redelivered messages, reconnects, shutdown
and crashes.

This directory models that program in TLA+, checks it with TLC, and proves part
of it with TLAPS. Paths below are relative to the repository root; `bridge.py`,
`state.py`, ... are in `src/agentwire/`.

| file | what it is |
|---|---|
| `PromptQueue.tla` | abstract specification: a durable ordered prompt queue |
| `QueueStore.tla` | the `queue` table of `state.py`; implements `PromptQueue` |
| `QueueStoreProofs.tla` | ... has no holes, and implements `PromptQueue`, for any limit |
| `ActionJournal.tla` | life of a mutating action: ingress, journal, serial worker, suspension, restart |
| `ActionJournalProofs.tla` | the inductive invariants of `ActionJournal` and its theorems |
| `ChannelTurns.tla` | one channel and its sessions: topics, binding, prompts, events, drain; uses `QueueStore` |
| `ChannelTurnsProofs.tla` | bindings, queued prompts, drains and their order; uses `QueueStoreProofs` |
| `RequestRelay.tla` | approvals and questions of one channel: agent, backend, bridge, clients |
| `RequestRelayProofs.tla` | resolutions happen once, clients agree, nothing pending is forgotten |
| `EventRouting.tla` | which of several channels of one backend hears of a session |
| `SessionStatus.tla` | statuses and subagents shown to clients: coalescing windows, attach, detach, the client |
| `HistoryPages.tla` | a client pages through a session that goes on |
| `PiSessions.tla` | the Pi and OMP backends: registry, discovery, transports, turns, dialogs |
| `PiSessionsProofs.tla` | one object serves a session, turns shown end, prompts are accounted for, answers can come |
| `CodexLink.tla` | the Codex backend: connection, requests, one thread shared with a terminal |
| `CodexLinkProofs.tla` | nobody waits in vain, prompts run once, echoes are matched |
| `CodexViewProofs.tla` | what the backend shows of a thread is true; uses `CodexLinkProofs` |
| `ClaudeSession.tla` | a Claude session, followed through its transcript and driven through the SDK |
| `IrcLink.tla` | the IRC connection and the managed channels created and closed over it |
| `Fragments.tla` | fragmentation and reassembly of envelopes |
| `StackSupervisor.tla` | the helper processes of `agentwire stack` |
| `PartsProofs.tla` | only what was sent is delivered, no helper process is without an owner, sessions' events are heard, what clients are shown of them is the newest, and what is published goes out in order and before its channel is closed (extends `IrcLink`, with instances of `Fragments`, `StackSupervisor`, `EventRouting`, `SessionStatus`) |
| `MC*.tla`, `*.cfg` | TLC instances |
| `PROJECT.json` | machine-readable index: components, runs, mutants, source map, findings, hazards, theorems |

Run `tlc -config MCX.cfg MCX.tla` for a model (the module of each configuration
is in the table of section 3), `tlapm X.tla` for the proofs in each `*Proofs.tla`.

## 1. Inventory

### Prompt queue store (`state.py` 126-163, 441-521)
*State*: rows `(id, channel, session_id, position, text)`, `UNIQUE(channel,
session_id, position)`. *Operations*: enqueue, edit, move, delete, clear, list;
each one transaction under the store's lock. *Hard*: renumbering inside one SQL
statement; the limit; ids chosen by clients. *Correct when*: positions are
dense, and a reader sees an ordered queue.

### Action journal and serial worker (`bridge.py` 593-625, 947-1121, 1323-1336; `state.py` 70-89, 271-278, 350-375)
*State*: `actions` rows (accepted, succeeded, failed, uncertain), the in-memory
FIFO of descriptors, the activation each descriptor captured. *Operations*:
claim at ingress, queue, execute, record, publish receipts; suspend, close,
restart. *Interacts with*: IRC loop, voice loop and control socket (three
ingress tasks), topics, SQLite. *Hard*: every await is a place where the
channel may be suspended and re-activated; crashes; retries. *Correct when*: an
action runs at most once, its row and its receipts tell the truth, nothing
accepted is forgotten, and nothing runs under a topic it was not accepted under.

### Channel turns, binding and drain (`bridge.py` 117-149, 341-358, 774-850, 1682-1883, 1944-2277)
*State*: `ChannelRuntime` (activation, binding, busy, attaching_session,
deferred_events) and the durable binding. *Operations*: topic evaluation,
attach, detach, prompt, queue actions, backend events, drain. *Interacts with*:
backends (calls and an event stream), the queue store. *Hard*: three tasks write
the same fields around awaits without a lock. *Correct when*: prompts reach the
agent once, in order, one turn at a time, none is lost or stranded, and what is
announced, stored and believed agrees with what is bound and running.

### Event routing (`bridge.py` 1944-1963, 2486-2501)
*State*: per channel its binding, the sessions it ever observed and the one it is
attaching; the order of the channels. *Operations*: an event is handed to the first
channel concerned, a status to all; attach, detach, create, close. *Hard*: the state
that is looked at changes under awaits of other channels' workers. *Correct when*: a
channel knows whether the session it is bound to runs a turn.

### Pending requests (`bridge.py` 1155-1181, 1885-1942, 2075-2170, the `resolve_*` methods of the backends)
*State*: `runtime.requests` with their `resolving` mark, the backend's own table
of unanswered requests, what clients were told. *Operations*: open, answer, skip,
automatic approval, resolution by the backend, replay by `sync.request`.
*Interacts with*: backends (calls and events), the worker, topics. *Hard*: up to
three parties resolve the same request, each popping and publishing after its
own await; events arrive for sessions that are not selected or are being
attached. *Correct when*: an approval is resolved once, clients show what the
bridge will take an answer to, and no waiting agent is forgotten.

### Observed status and subagents (`bridge.py` 2357-2484; `reference_client.py`)
*State*: per session of the backend the last payload published, its time, and a
payload held with the task that will publish it; the same once for the bound
session's subagents; the client's `busy`, `subagents` and selected session.
*Operations*: publish, suppress, hold, replace, cancel out, flush; reset at a
binding. *Interacts with*: backend events, attach (which defers them), detach,
sync, clients. *Hard*: a timer against newer events, and against a binding that
changes while it runs. *Correct when*: what is shown last is what is.

### History (`bridge.py` 1449-1527, `state.py` 389-439, `pi.py` 1361-1668, `claude.py` 1206-1335)
*State*: transcripts written by others, the `events` table, a cache of what was
read, the client's cursor. *Operations*: one page back, by offset or by time.
*Hard*: pages are computed from scratch while the session grows, and each derives
turns and times anew. *Correct when*: paging misses nothing and pages agree.

### Pi and OMP backends (`pi.py`, `omp.py`)
*State*: `_sessions`, `_known_sockets`, `_ui_requests`; per session a transport
with pending requests, `busy`, `turn_id`, `expected_prompts`. *Operations*:
discover, register, attach, spawn, send, dialogs, close; the pump handles frames.
*Interacts with*: processes and terminals, the bridge's tasks. *Hard*: discovery,
attach, close and session switches change the registry under each other's awaits.
*Correct when*: one object serves a session, turns are shown and end, prompts are
told from echoes, nobody waits in vain.

### Codex backend (`codex.py`)
*State*: the websocket, pending futures, active turns, subagents, expected echoes,
open server requests. *Operations*: request (with reconnect, timeout, replay on
overload), attach with hydration, prompt, cancel, approve, close; the reader
handles notifications. *Hard*: answers are consumed by tasks after notifications
that overtook them; connections break; a terminal uses the same thread. *Correct
when*: a prompt runs once, foreign prompts are reported once, and the backend's
view of the thread is the thread's.

### Claude backend (`claude.py`, `claude_follow.py`)
*State*: tailer (offset, inode, seen ids), `busy`, `turn_id`, `follow_turn_id`, SDK
client, `follow_lock`. *Operations*: prime, poll, relay, promote, drive, finish,
cancel. *Interacts with*: the terminal's own claude process, through a file.
*Hard*: two writers, half-written lines, replaced files, echoes of driven turns.
*Correct when*: lines are relayed once and in order under history's turns, and
neither party starts over the other.

### IRC connection and managed channels (`irc.py`; `bridge.py` 246-297, 747-772, 1552-1680)
*State*: accepted, joined and topic-known channels, readiness, one control waiter,
the outbound queue; the bridge's managed and closing channels. *Operations*:
connect, negotiate, read, write, control requests, flush, reconnect; create and
close of a managed channel. *Hard*: the connection may break between any two
steps; channels come and go while it joins; confirmations come late. *Correct
when*: readiness is true, channels settle to what their topics say, messages go out
in order and at most once, and a close flushes before it parts.

### Wire protocol (`protocol.py` 478-690)
*State*: partial messages by id, their chunks, size and age. *Operations*: split,
compress, add, complete, expire. *Hard*: duplicates, conflicts, damage, limits.
*Correct when*: only what was sent is delivered and the limits hold.

### Stack supervisor (`stack.py`)
*State*: helper processes, their watchers, the bridge task. *Operations*: start,
watch, respawn, end, terminate, kill. *Hard*: exits, failed spawns and Ctrl-C at any
moment. *Correct when*: no helper outlives the stack, none is unwatched.

### Not modelled
| component | why |
|---|---|
| Voice queue (`bridge.py` 423-520, `voice.py`) | one consumer around a transcription subprocess; its action ids are an ingress of `ActionJournal` |
| Control socket (`control.py`) | file-system checks and framing; its timeout is in `ActionJournal` |
| OpenCode backend (`opencode.py`) | HTTP calls; its request tables are in `RequestRelay`, its reconciliation after a lost event stream is open |
| Parts of modelled components | listed under "Not in it" below and in the notes of `PROJECT.json` |
| Configuration, CLI, diagnostics, text, redaction, conformance generator | sequential and pure |

## 2. Modules and how they correspond to the code

**Steps.** asyncio runs a task until it really suspends, so an action of a model
is the code between two suspensions. Publishing (`irc.send_protocol`) is a put on
an unbounded queue and does not suspend; a backend call does, and so does every
`StateStore` call. The store's `asyncio.Lock` is FIFO and is held until its
caller resumes, so the effect of a statement and the caller's next step are one
action, and callers are served in the order in which they asked (`lockq` in
`ChannelTurns`).

**`QueueStore`** keeps the table as a set of rows and remembers insertion order
(`older`), because SQLite visits the rows of `UPDATE ... SET position = position
- 1` in that order and checks the UNIQUE constraint at each row. `outcome` is what
the call returned or raised. `PromptQueue` is what a reader may rely on: lists of
items, no positions. The refinement maps each list to the sequence `ListQueue`.

**`ActionJournal`** has one variable per piece of state the handler keeps:
`journal` is the actions table; `ingress[t]`, `worker` and `drainer[d]` say what
each task awaits and which id it carries; `queue` is the channel's
`asyncio.Queue`; `activation` numbers the activation *objects*, because the code
compares identity (`is`). `Receive` is `_prepare_action` up to `claim_action`,
`Claim` the statement, `Accept` the receipt, the re-check and the put; `Take` to
`Report` is the worker; `DrainPop`/`DrainFail` is `_fail_queued_mutations`, for
two of its three callers, the suspension of a channel (687) and `close` (318):
`_remove_channel` (276), the third, fails the queue of a managed channel for good. `CancelControl` is the socket's timeout (or close) cancelling an
ingress. `Boot` is `StateStore._initialize`. The model is slightly more liberal
than the program in `Close`: control handlers are cancelled before the queues are
failed, here in any order. Assumption: a client's message names the epoch it was
written under; a voice message is not posted again with the same URL once its
row has been deleted after thirty days (`Deliverable`).

**`ChannelTurns`** is one static channel. `at[task]` is what the worker, the topic
handler and the backend loop await, with the locals they keep across the await
(the captured binding object and activation of a drain, the row it read).
Binding objects are numbered because `_drain_queue` compares them with `is not`.
The queue is an instance of `QueueStore`. Sessions are external: a session is the
sequence of turns it has accepted; accepting and finishing a turn put events in
the backend's stream. Replay of deferred events after an attach is one step until
an event suspends. `_emit` writes only history kinds, and only for backends
without an authoritative history: the constant `Journaling`; of these only
`turn.completed`, which precedes a drain, can change what follows, and is kept.
Constants `StatusEvents`, `Failures`, `Reordering`, `Rebinding` switch behaviours
on, `MaxTopics`, `MaxForeign`, `MaxRestarts` bound them.
Not in it: `delivery = steer`, `turn.steer`, `turn.cancel`, `active_turn`, settings,
`closing_session` (managed channels).

**`RequestRelay`** is one static channel on one backend, chosen in `Init`: OpenCode
and Codex report every resolution, also of the bridge's own answers; OMP reports a
dialog cancelled elsewhere; Pi and Claude report nothing; only OpenCode has its
events journaled before they are published. A request is in up to three tables:
`held` (the backend's, which forgets a token before it sends the answer),
`requests` (the bridge's) and `told` (the clients'). Agents and other clients are
external: `Ask`, `SettleElsewhere`, `TakeAnswer`; an answer whose send did not
raise has reached the agent. `at[task]` is as in `ChannelTurns`. The replay of
deferred events does not give up the event loop until an event suspends (`Runs`).
An owner's answer that is refused changes nothing and is not a step. `stuck` and
`missed` are histories of what the code gives up: answers that failed,
resolutions nobody reported, events dropped.
Not in it: `session.close`, which clears the requests of a managed channel, and
restarts, which forget all of them.

**`EventRouting`** has an action worker per channel and the one `_backend_loop`.
`ChannelFor` is `_channel_for`, over `order`, the dictionary's order; `Reached` sends
turns there and statuses everywhere. `handling` is what a handler awaits, be it the
loop's or that of a replay: the journal of a turn (OpenCode), or the queue at the end of
one, for which `_drain_queue` has claimed the channel (2184) and which lets the claim go
unless the channel was bound anew meanwhile. A replay gives way only there (`Next`), and
the loop then handles newer events before the older deferred ones: `crossed` are the
channels whose last news came during the handling of an older event. The summary of an
attach is read (`Summary`) before it is used (`Attached`). `lost` names who discarded
deferred events. Not in it: suspension, prompts and requests, which the modules of one
channel have; here a drain finds the queue empty.

**`SessionStatus`** has one `worker` action under way, as the serial worker has,
and the backend loop's handler as `TakeEvent`. A held payload is a value in `held`
or `heldList`; its flush task is the action that publishes it, and time is only the
order in which windows close. The deferred events are replayed one by one (`Replay`),
and since a turn's end may stand anywhere among them, anything else may come in between;
`crossed` are the kinds of event of which a newer one was handled before an older one.
`client` is `HarnessState.apply` for the messages that matter; because messages arrive
in order (`IrcLink`), it reads each at once. Not in it: turn events and the drain (in
`ChannelTurns`), suspension, a status payload's other fields.

**`HistoryPages`** keeps the session as a sequence of entries `(id, prompt, at)` on the
active branch, and the client's pages as what it got. The three sources differ in
the cursor and in how turns and times are derived; Pi's cache of what it read is
`cached`. An entry without a recorded time is counted from an `Anchor`, the clock for Pi
and `last_modified` for Claude, by how many entries were read. `JournalPage` keeps the
oldest events of a page, as many as the bytes allow, any number from one on; `dropped`
are those it jumps over. The transcript is read before the session is asked whether it
is busy, as the code does (`Place` tells what came in between). Not in it: what an entry
looks like as events, retention.

**`PiSessions`** names an object (`_Session` with its `_Transport`) by its process.
`pipe[c]` are frames the pump has not read. `at[t]` keeps the object a task got
from `_require` before its await. What opens a turn is `Reply` (an assistant's message, a
tool, and the `command_output` of a command for which no agent runs), `UserMessage` and
`Sent`; `agent_start` makes the session busy without one. What ends it is `TurnSettles`,
`TurnFails` and, in OMP, `settling[c]` tasks: one for each answer that no agent ran, each
`prompt_result`, and each prompt that failed after it was accepted. Not in it: steer as
an action of its own and cancel, models and settings, tool cards, a dialog that OMP
withdraws (`omp.py` 218).

**`CodexLink`** is one thread. `up` and `pipe` are the two directions of the
websocket; a frame answers a task or notifies. The reader handles buffered frames
without a pause, so an answered task resumes only after them: that is where
`raced` comes from. `holder` is `_connect_lock`. `echoes` is the list of expected
echoes: the entries of the one thread, each with its prompt, whose numbers grow as
tokens do, so that the oldest entry of a text is the one with the smallest prompt.
Tasks go on in the order in which their answers came, and a task that was answered
second has gone on before the answer to a later request can come. `debt`, `slipped`, `raced` are histories. Not in it: thread lists, settings, rendering of items.

**`ClaudeSession`** numbers transcript lines; `tail` is the tailer's offset, inode and
seen ids, `queue` the `follow_lock`. The follower, `send_message`, the pump's
`_finish_turn` and `cancel` are separate actors; the poll runs in a thread, so its
read and its use are two steps. A line is of one of the kinds that `_follow_events` and
`_follow_user` tell apart (`Followed`): a prompt begins a turn and ends the one before it,
an interrupt ends one, commands, summaries and meta lines are dropped, a tool's result is
relayed in the turn that is open, with its text or without. `TurnOf` is history's rule,
which opens a turn at each of a user's lines that has text. A turn of the terminal begins
with a prompt or with a command. Not in it: interrupts and questions of the SDK.

**`IrcLink`** has the connection task (`net`), the bridge's loop over topics and one
task per managed channel. Each control request is a JOIN, MODE, TOPIC, INVITE or PART
whose waiter is `control`; `out` is the outbound queue with its flush marks. The
server and the other users are external, and lines in flight are lost when the
connection breaks. Not in it: SASL and CAP, the rate limit, account checks, the
session and the queue of the managed channel.

**`Fragments`** splits `Versions` (two may share an id, as when an envelope is sent
again with other content) and adds arriving pieces to `partial` as
`Reassembler.add` does; `Reserved` is the memory its limit counts. Not in it: envelope validation.

**`StackSupervisor`** has the start loop, one watcher per helper, the bridge task and
`_stop_processes`. Processes may be deaf to SIGTERM. Not in it: readiness probes.

**Composition.** `ChannelTurns` uses `QueueStore`. The `MC` modules run parts that
share no state side by side in one instance: `part` says which one a behaviour is
of, and the others stay in one initial state. Where all bounds at once make too
many states, a part is run as several instances of the same module, each wide in
another direction (section 3 names them). Where parts do interact, one model
contains both sides (the client in `SessionStatus` and `RequestRelay`, the server in
`IrcLink`, the app-server in `CodexLink`).

**Histories and exceptions.** Some things the code gives up knowingly or cannot
prevent: a prompt whose answer timed out, an echo that looks like another
client's prompt, two writers on one transcript. History variables (`slipped`,
`raced`, `mixed`, `cut`, `displaced`, `moved`, `spoiled`, `dropped`, `rewound`, `lost`,
`crossed`, `overtaken`, `touched`, `stuck`, `missed`) name these; the properties hold for
everything else, and section 5 says what happens there.

## 3. What each run checks

All runs are exhaustive within their bounds. `CHECK_DEADLOCK` is off because the
systems may stop: when the process is down for good, when every prompt has been
handled, when the bounds on what the outside does are used up.

| run | module | parts and bounds | shows |
|---|---|---|---|
| `journal` | `MCJournals` | `ActionJournal`: one client, one voice, one control action; 2 processes and 1 activation, 1 process and 2 activations, and 2 of both without control actions. `HistoryPages`: 3 sources; 1 to a page and 4 entries with 2 recorded times, 2 to a page and 5 entries with one, or 2 to a page and 4 entries of a transcript, with and without a time, while the clock goes on once | `TypeOK`, `AtMostOnce`, `OutcomesHonest`, `ReceiptsHonest`, `OneOwner`, `TerminalIsFinal`, `StaleNeverStarts`; `HistoryHasNoGap`, `PagesAgree` |
| `live` | `MCLive` | `ChannelTurns`: 3 prompts, 1 session, limit 2, failures. `ActionJournal`: 2 client actions, 1 process, 2 activations; both fair | `TasksComeToRest`, `AcceptedSettles`; `BusyIsHonest`, `OneByOne` |
| `turns` | `MCTurns` | `ChannelTurns` with 2 prompts, 2 sessions, 2 activations, moves, detach, failures; again with 1 session, 1 activation, journaling, status events, 1 foreign turn, 1 restart. `QueueStore`: 3 items, 2 lists, 2 texts, limit 3 | `BindingIsSaved`, `NothingLost`, `DrainsOnlyBoundAndActive`, `OrderIsKept`; `QueueIsDense`, and `KeepsPromise`: the table implements `PromptQueue` |
| `relay` | `MCEvents` | `RequestRelay`: 1 approval, 1 question, 2 sessions, 4 backends, 1 activation, failures. `EventRouting`: 2 configured channels and a managed one, 2 sessions, 1 turn, 3 attaches, detaches or creations; again 1 channel, 2 turns, 2 of those | `ResolvedOnce`, `ResolvedStaysResolved`, `ClientsAgree`, `PendingIsTrue`; `RoutingIsTrue` |
| `sessions` | `MCSessions` | `PiSessions` (OMP): 2 processes, 2 sessions, 2 prompts or switches, 1 unread frame when a process adds one. `SessionStatus`: 2 sessions, 2 lists, 3 changes, 2 attaches or detaches | `ServedOnce`, `TurnsShownEnd`, `PromptsAccounted`, `AnswersCanCome`; `StatusShownIsNewest`, `AgentsShownAreNewest` |
| `backends` | `MCBackends` | `CodexLink`: 2 prompts of one text, 1 retry; 2 calls and 1 trouble, or 3 calls and none. `ClaudeSession`: 3 lines of 8 kinds, 2 driven turns | `NobodyWaitsInVain`, `PromptRunsOnce`, `EchoesMatched`, `ThreadShownTrue`; `FollowIsFaithful`, `TakesTurns` |
| `link` | `MCWire` | `IrcLink`: 1 configured and 1 managed channel; 1 trouble and 2 messages, or 2 troubles and none. `StackSupervisor`: 3 helpers, 3 exits. `Fragments`: 4 envelopes, 3 ids, 2 parts, 2 in flight | `LinkSettles`, `SaidBeforeClose`; `HelpersAreOwned`; `ReassemblyIsHonest` |
| `queue_delete`, `turns_two_drains`, `relay_review`, `relay_replay`, `status_held` | `QueueStore`, `ChannelTurns`, `RequestRelay`, `SessionStatus` | the smallest that show it | see section 5 |

*Why the bounds are enough.* A queue of three rows is the smallest in which a
renumbering can collide. One action per ingress suffices because tasks share only
the queue, the journal and the activation, and ids do not interact otherwise
(the theorems below hold for any number); two activations distinguish "the same
topic again" from "still the same activation", two processes give one restart, and
a restart under another activation is looked at without control actions. In `ChannelTurns` two prompts are a head and a successor, three let the queue
reach its limit while one runs; two sessions are an old and a new binding.
In `RequestRelay` requests share only the order of their events, for which two
suffice: one that is answered automatically and one that is not; one activation can
end while requests are pending, and the theorems cover the next. Two processes
and two sessions let both race for one session, and one move between two. Three
status changes are one published, one held and one that replaces it or cancels it
out, or a deferred one with a newer one that overtakes it. Two channels are the one that
left a session and the one that took it over; two turns are one whose end is deferred and
one that begins during its replay. Five entries, two to a page, leave a page with one on
both sides of it and a turn that is split; four leave a page on one side. One step of the
clock is what separates two pages, or an entry from the page that shows it. One text in `CodexLink` is the
hard case, in which echoes look alike; three calls are a prompt with an attach and a
close around it, and a trouble is looked at with two of them. Three transcript lines
are a turn with an interloper; two troubles on the link are a failure and one in the
recovery from it.

*Symmetry.* `turns` identifies the two prompts that are queued, `relay` the sessions,
`sessions` the processes and the sessions. No module compares or orders them, other
than for equality, and these runs check safety only.

*Why `BusyIsHonest`, `OneByOne` and `TasksComeToRest` are checked in a narrow instance.*
With rebinding, foreign turns or a second reading of the topic they do not hold:
that is what section 5 reports. Inside the bounds they are the promise the code
keeps.

*Fairness* (`live` only; the other parts state safety). `ActionJournal`: weak fairness
of each ingress task's continuation, the worker and the drainers - asyncio runs
every ready task, SQLite answers, a handler returns. Sending, suspending, closing
and crashing are never obliged. `ChannelTurns`: weak fairness of the tasks'
continuations and of the sessions finishing turns; owners, topics, failures and
restarts owe nothing. Elsewhere, "will come" is stated as safety: what somebody waits for
is on its way (`TurnsShownEnd`, `AnswersCanCome`, `NobodyWaitsInVain`,
`SaidBeforeClose`), and what the outside has come to is shown when all is quiet.

Every property has a mutant: a definition `...Unlocked`, `...Dropping`, etc. beside
the definition it replaces, that breaks it the way a plausible bug would. A
property with several parts has one for each of the parts where that is possible.

## 4. What is proved

Each theorem holds for every value of the constants that satisfies the named
assumption, and TLC evaluates the assumption on its instance. Most properties are
not inductive; each proof module opens with the invariant that makes them so
(`IInv`) and the idea of it, has one lemma per action or kind of action, and ends
in the theorems. The parts of each invariant were looked at with TLC before they were proved.

| module | theorems | assumption |
|---|---|---|
| `ActionJournalProofs` | `TypeCorrect`, `ExecutedAtMostOnce`, `JournalIsHonest`, `TerminalStatusIsFinal`, `StaleWorkNeverStarts`, `ReceiptsAreHonest`, `EveryActionHasOneOwner` | `JournalAssumption`: the three kinds of ids are disjoint, the bounds are numbers; `NoIdAssumption` |
| `QueueStoreProofs` | `QueueHasNoHoles`, `QueueKeepsPromise` | `LimitBounds`: the limit is a positive number |
| `ChannelTurnsProofs` | `BindingsAreSaved`, `NoPromptIsLost`, `DrainsStayWhereTheyAre`, `QueueIsOrdered` | `NamesAssumption`: no name means two things; `LimitBounds` |
| `RequestRelayProofs` | `RequestsResolveOnce`, `ClientsShowWhatIsPending`, `PendingRequestsAreTrue`, `ResolvedIsFinal` | `RelayAssumption`: approvals are not questions, the backends are those of the code |
| `PiSessionsProofs` | `Invariance`, `ServedOnceAlways`, `TurnsShownEndAlways`, `PromptsAccountedAlways`, `AnswersCanComeAlways` | `PiAssumption`: `None` is neither a process nor a session, the bounds are numbers |
| `CodexLinkProofs` | `NobodyWaits`, `PromptsRunOnce`, `EchoesAreMatched` | `CodexAssumption`: the bounds are numbers, `None` is not a text |
| `CodexViewProofs` | `ThreadIsShown` | `CodexAssumption` |
| `PartsProofs` | `HelpersHaveOwners` | `StackBounds`: the helpers that are started, and restarted, are helpers |
| `PartsProofs` | `RoutingHolds` | `RoutingBounds`: the configured channels are a list without repetitions, the managed ones are others, `NoSession` is not a session |
| `PartsProofs` | `StatusesAreNewest`, `AgentsAreNewest` | `StatusBounds`: the bounds are numbers, the empty list is a list, `NoSession` and `Nothing` are no session and no list |
| `PartsProofs` | `SaidInOrder` | `LinkBounds`: finitely many channels, the managed ones are not configured, no channel is called `loop` |
| `PartsProofs` | `FragmentsAreHonest` | `FragmentsBounds`: sizes and limits are numbers, and the same id and digest (SHA-256) is the same content |

**`ActionJournal`.** `AtMostOnce` is not inductive. What makes it true is that until
an action is executed there is exactly one place that can lead to its execution, and
that place is consumed by the step that executes or fails it: `Shape` (idle tasks
carry no id, ids reach only their own ingress), `Owners` (what a task holds is an
accepted, unexecuted action, or one that has run exactly once), `Exclusive` (no two
places hold the same action), `Ledger` (what each journal row implies for the
history), `Retention` (an id whose row retention deleted cannot come back through an
ingress that would claim it again), `Staleness` (whatever was accepted under another
activation is marked stale). On top of it, `Paid` says which receipts whoever holds an
action has published, and `Covered` that an accepted action is held at all; control
requests alone are ever let go of. One owner is `Covered` with `Exclusive`.

**`QueueStore`.** Positions of a list differ (`Unique`) and are smaller than the number
of its rows (`Bounded`); n different numbers below n are all of them, so there are no
holes. A table without holes reads as exactly one sequence per list (`Reads`), so a
step is shown to implement the abstract operation by exhibiting the sequence it makes.
The proof covers the refused deletion of section 5, which leaves the table as it was.

**`ChannelTurns`.** The three tasks share the runtime without a lock, but the store's
lock is FIFO: the last writer in its line carries the binding that is in memory
(`BindOrder`), which is why the saved binding is right whenever no writer is under
way. A drain holds the identity of the binding it began with, and an identity that is
held is not given again (`Captures`), so comparing identities compares sessions.
A prompt leaves the table only behind its delivery (`Delivered`). The queue's own
invariant is not proved again: the steps of the table are those of `QueueStore`
(an instance of `QueueStoreProofs` supplies its lemmas). Order, without `queue.move`:
what was ahead of a prompt when it was queued is done, or ahead of it still (`InLine`),
and for a drain that has read it at the head it is done (`Claimed`).

**`RequestRelay`.** The invariant is per request (`Good`). Its opening is in at most
one of the streams, once (`Distinct`), and until it is handled nobody has touched the
request (`Ahead`); whoever pops it first is the only one to resolve it (`Resolved`).
The hard part is publication, which for OpenCode waits for the journal: the store's
line never has an opening behind a resolution of the same request (`InOrder`), so what
clients were told last is what holds (`Shown`), up to the requests that an approval or
an answer under way has already popped. `Pending` is the other direction: an agent
that waits is known to the bridge, or its event is coming.

**`PiSessions`.** The invariant says what may be on its way. A process at rest has
announced nothing whose end is not behind it in the pipe, and `eof` is last (`Ordered`);
a turn shown, or about to be announced by a task whose prompt was accepted, has its end
behind it or its process runs (`Coming`). An answer in an inbox or a pipe is the only
one for its task, which waits for it on an open pump (`SlotsOf`). An object that is read
is known and fits its process (`Fits`), what a task keeps over an await was registered
(`Keeps`), and no two tasks spawn one process. The echoes an object expects, with what
was reported as others', are the prompts under way (`Balance`), unless an
answer found nobody (`slipped`); objects whose turn moved between an answer and its
sender are `raced`, and those that another one unregistered are `displaced`.

**`CodexLink`.** `Waiting`: a task that awaits an answer is awaited by exactly one
request or answer, on a live connection. So a request is repeated only when the server
refused the one before, and `Runs`: a request the server may still take has not run.
For echoes there is a balance per text (`Balanced`): the prompts of others not yet
reported plus the echoes expected are as many as the prompts still to be read plus
the one still to be run. Which prompts those are needs `Known` (a prompt in a frame is
unread, has one text, and while its request is under way belongs to the worker). A thread
the bridge closed has left the balance; `Closed` says that nothing of it comes any more
unless another task used it. When nothing is on its way both sides of the balance are
empty, for every text that has not `slipped`.

What is shown of the thread (`CodexViewProofs`) is more than a balance, because a
notification may overtake an answer. Every frame that is still to be read, every answer
a task has in hand, and what the backend shows, claims a turn and a subagent for the thread. A claim is good if the frames behind it lead from there to where the
thread is (`Leads`, `LastChild`). The server's steps carry good claims on, the reader
moves them to the front, and an answer that was overtaken is excused only while `raced`
tells of it, or an attach under way will put it right (`Watched`). While nobody is subscribed, whatever may subscribe again is an attach
whose answer tells all (`Silent`, `InLine`). The one approval of a turn is on its way
down, offered, on its way up, or over (`Approving`); and of a thread that is being closed
no news comes behind the answer to the unsubscribe (`Left`).

**`EventRouting`.** The last news of a session that is still to be consumed is the
session's state (`Latest`). A channel that was there for the session all along
(`Clear`), when nothing of it is to come, `Knows` that state: in `busy` if it is bound, or in the
summary or the deferred events of its attach. Where statuses are reported every channel
hears, so only a failed attach, which discards what it deferred, can spoil that. A drain
that has claimed the channel will let the claim go, so a claim is told apart from what the
flag says (`Flag`); what a channel heard while an older event was handled (`crossed`, here
`passed`) is not relied on until it hears again or is bound anew. Where
they are not, the channels keep their order, and whoever heard in a channel's place
comes before it in that order and has observed the session, or will have unless its attach fails.

**`SessionStatus`.** The last status of a session that is on its way to the bridge, or
deferred for a replay, is the session's (`NewestComes`); with none, `busy`, or the summary
of an attach, is (`BusyKnown`). Whatever a change does to what is held and what was
published, what is left when the windows have closed is that change (`ShownAfter`), so the
last list or status that came is the one shown (`AgentsTold`, `DrawerTold`). A client that
was told of a binding is told what changes, except by a held status that was there when
its session was bound (`ClientTold`, section 5). What is left to replay is newer than what
is shown as long as nothing newer was heard of the same kind (`AgentsDue`, `OutOfTurn`).

**`IrcLink`.** `LastWords` is about lines on the wire, and what makes it true lies steps
before: nobody publishes in a channel whose close is under way or over (`Hushed`), so
nothing of the channel comes behind the close's mark in the queue; there is one mark for each task
that waits (`Marks`), the writer reaches it after all before it, and then nothing is left to say
in the channel (`LastSaid`). A connection that is lost takes the marks with the tasks that
wait for them, and what else stays of the queue keeps its order (`KeptPart`), so the numbers of
messages rise from what the server has over what is written to what is queued (`Numbered`).

**`StackSupervisor`.** A process that lives is known to its supervisor from its spawn
until it was waited for (`Known`), so a stack that finds none left leaves none.

**`Fragments`.** What waits under an id is one version's message, short of a part
(`Messages`); a genuine chunk has arrived once more than its version was delivered
while it waits (`Credit`); so a message that becomes whole was sent in full. `Room`
bounds the slots and the memory.

*Only model-checked*: `TasksComeToRest` and `AcceptedSettles` (liveness, out of the
prover's reach). `BusyIsHonest` and `OneByOne` of `ChannelTurns` hold only without
rebinding and foreign turns, which section 5 explains; there is no theorem for every
constant. The properties of `HistoryPages` and
`ClaudeSession`, and `LinkSettles`, have no proof. The last is about a connection that has
come to rest, and needs the whole of what server and client may still tell each other.

## 5. Where the code disagrees with its documents

Each of these has a run that ends in the disagreement:

* **`queue_delete`** - after `queue.move`, `_delete_queue` (`state.py` 509) may raise
  `IntegrityError`: SQLite renumbers in insertion order. The owner's delete is
  refused, and a delivered head that cannot be deleted is sent again.
* **`turns_two_drains`** - `_handle_topic` (843) resets `busy` under a drain that
  awaits `send_message`, and drains again: the same head is sent twice, which the
  comment at 2184 rules out.
* **`relay_review`** - a backend removes the token before it sends an answer; after
  a failed automatic approval the owner's answer raises "approval was already
  resolved", although the README promises that it "remain[s] available for
  manual review". The test of that promise answers a stub.
* **`relay_replay`** - `request_resolved` for a session that is not selected is
  dropped (1974); the request stays pending and every sync replays it.
* **`status_held`** - a status that is held for an unbound session is published by
  its flush (2414) after the session was attached, and clients apply it: a running
  session is shown idle until its next change.

Seen while modelling, with no run of their own:

* *Prompts and turns.* A prompt enqueued behind a drain's empty read (2196) is left
  waiting in an idle session: the prompt finds the claim and is queued, the drain lists nothing
  and clears `busy`, and nobody drains again. `_action_prompt` (1800) marks the channel
  busy only after its await, so that a direct prompt and a drain may overlap.
  `_handle_topic` (842) writes back the binding it read before its await, and an
  attach that fails after the activation was set (839) leaves a busy flag from
  before the suspension. A crash between `send_message` and `delete_queue` repeats
  the prompt (2207). A failed re-attach drops the deferred `turn_done` or approval (1704).
* *Requests.* A question answered by the owner and resolved by the backend is announced
  as resolved twice (1908); a replay that suspends in an automatic approval lets a
  live resolution overtake a deferred opening (1709). Receipts of work in flight are
  published after suspension (697).
* *Several channels.* The events of a turn go to the first channel that ever had to do
  with the session, even when it has left it and another is bound to it (2497): with
  Claude and OpenCode, which report no statuses, that one stays busy when its prompt is
  done, although the comment at 1948 says that events stay "with the channel that owns
  the session". `RoutingIsTrue` says who does hear.
* *Replay.* `_action_attach` clears `attaching_session` before it replays what was deferred
  (1707), and a deferred `turn_done` suspends the replay in the journal or in the drain's
  `list_queue` (2188). The loop then handles a newer `turn_started`, status or list at once,
  and the older ones left to replay are handled after it: a running session is taken for an
  idle one, or clients keep an older status or list, until the next change. The properties
  name what was so overtaken (`crossed`).
* *Status.* What was published of an unbound session is remembered over a binding, so
  an unchanged payload may be suppressed although another was published since (2382).
  A snapshot taken while a drain holds its claim says busy, and nothing corrects it (2271).
  Detaching sends no snapshot, so a client keeps the old queue (1712).
* *Backends.* Codex: a `turn/start` that timed out may have run; the answer to one is
  recorded after the turn's completion and leaves a stale turn (1538); nothing of an
  old connection's requests is cleared, and `stack.py` 537 says the connection is never
  re-established, though `_request_once` does that. Claude: a stream that ends
  leaves its turn open (357); lines of a terminal written within a driven turn are
  dropped with its echo (537). A turn of the terminal that a slash command begins is never
  shown busy: the command is dropped (711), and so is the prompt it expands to, which is
  meta (661); `send_message`, which refuses a session with a turn of another process (1049),
  starts a second CLI over it. OMP: a late settlement ends whichever turn is open (270), and
  the answer to a local command that comes after the request timed out settles nothing, so
  that the turn its output opened (236) stays open.
* *History.* `_history` (`state.py` 435) cuts a page at 512 KiB by leaving out its newest
  events, and the next page begins before its oldest: what was left out is on no page, and
  the same befalls events of the same millisecond as the oldest one got (420). Times that are
  not recorded are counted back from the clock (`pi.py` 1548) or from `last_modified`
  (`claude.py` 1285) by the number of entries read, and move as the session grows or, in Pi,
  as time goes by, although the comment at `claude.py` 1274 says that `at` stays "identical
  across pages". Claude's history begins a turn at each of a user's lines with text, an
  interrupt, a command or a summary among them (`claude.py` 1201), which the live follower
  does not (708): what comes behind such a line has one turn live and another in history.
* *Links.* A create that fails in `part_channel` leaves its channel registered
  (`bridge.py` 1617; the protocol document, 255, says it is removed); a rejoin that is
  refused is not tried again; a second Ctrl-C or a SIGTERM to the stack leaves its helpers
  behind.

## 6. Plan

Proofs: `ReadyMeansReady` of `IrcLink`, then `QuietIsSettled`.

Models: `steer` and `turn.cancel` in `ChannelTurns` with `active_turn`; the client's
mirror of the queue as a refinement of `PromptQueue`; OpenCode's reconciliation after
a lost event stream; the voice queue.
