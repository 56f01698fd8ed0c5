---------------------------- MODULE RequestRelay ----------------------------
(***************************************************************************)
(* Approvals and questions of one static channel (bridge.py): an agent     *)
(* asks its backend, the bridge opens a pending request and publishes it,  *)
(* an owner or the automatic approval answers, or the request is resolved  *)
(* somewhere else.                                                         *)
(*                                                                         *)
(* The serial worker and the backend event loop both answer, pop and       *)
(* publish, and each may run while the other awaits the backend or the     *)
(* event journal; the topic handler changes the activation under both.     *)
(* A request is kept in three places that must agree: the backend's table  *)
(* (held), the bridge's (requests) and the clients' (told).                *)
(*                                                                         *)
(* External: the agents, and other clients of the backend.  An answer that *)
(* was written to the backend and did not raise has reached the agent.     *)
(***************************************************************************)
EXTENDS Naturals, Sequences, FiniteSets, FiniteSetsExt

CONSTANTS
    Approvals,    \* requests an agent may raise: approvals of a tool,
    Questions,    \* and questions to the owner; each is raised once
    Sessions,     \* agent sessions of the channel's backend
    Backends,     \* the backends the channel may be configured with
    AutoApprove,  \* config.auto_approve, and the channel belongs to the PM
    Failures,     \* backend calls may raise BackendError
    MaxTopics     \* bound: topic activations

NoSession == "no session"
Requests  == Approvals \union Questions
ASSUME RelayAssumption ==
    /\ Approvals \intersect Questions = {}
    /\ NoSession \notin Sessions
    /\ Backends \subseteq {"codex", "opencode", "omp", "pi", "claude"}
    /\ MaxTopics \in Nat

VARIABLES
    backend,     \* runtime.backend
    activation,  \* runtime.activation as an object number, 0 for None
    lastGen,     \* activations created so far
    binding,     \* runtime.binding: a session and the identity of the object
    observed,    \* runtime.observed_sessions
    attaching,   \* runtime.attaching_session
    deferred,    \* runtime.deferred_events
    requests,    \* runtime.requests, by token
    resolving,   \* those with pending.resolving
    at,          \* what each task awaits, with the locals it keeps
    lockq,       \* tasks waiting for the store's lock, holder first
    todo,        \* deferred events the worker still has to replay
    events,      \* Backend.events() not yet consumed
    held,        \* the backend's table of unanswered requests
    home,        \* the session that raised a request
    agent,       \* external: what the agent does about a request
    told,        \* history: what clients were last told of a request
    resolutions, \* history: times request.resolved was published
    stuck,       \* history: answers that failed, resolutions nobody reported
    missed       \* history: requests that had an event dropped

topic   == <<activation, lastGen>>
publics == <<told, resolutions>>
vars == <<backend, topic, binding, observed, attaching, deferred, requests,
          resolving, at, lockq, todo, events, held, home, agent, publics,
          stuck, missed>>

\* The bridge writes history events to SQLite before it publishes them.
Journaling == backend = "opencode"
\* The backend reports the bridge's own answers; it reports the others'.
Echoes  == backend \in {"codex", "opencode"}
Reports == backend \in {"codex", "opencode", "omp"}

Tasks      == {"worker", "topic", "backend"}
Identities == 1..3
Unbound    == [sid |-> NoSession, obj |-> 0]
Rest       == [pc |-> "idle", req |-> {}, for |-> "", sid |-> NoSession,
               obj |-> 0, gen |-> 0]
Ready(task) == at[task].pc = "idle"
Holds(task, pc) == at[task].pc = pc /\ Head(lockq) = task
Request(task) == CHOOSE r \in at[task].req : TRUE
\* The event loop is not given up while the worker replays deferred events,
\* until one of them makes it wait.
Runs(task) == task = "worker" \/ ~Ready("worker") \/ todo = << >>

Finish(task, q)      == at' = [at EXCEPT ![task] = Rest] /\ lockq' = q
Call(task, frame, q) == at' = [at EXCEPT ![task] = frame] /\ lockq' = q
\* Mutant of Wait: the newest waiter is served first.
WaitFirst(task, frame, q) == at' = [at EXCEPT ![task] = frame] /\ lockq' = << task >> \o q
Wait(task, frame, q) == at' = [at EXCEPT ![task] = frame] /\ lockq' = Append(q, task)

\* A new ChannelBinding object; three are referred to at once.
Fresh(s) == [sid |-> s,
             obj |-> Min(Identities \ {binding.obj, at["worker"].obj})]

Init ==
    /\ backend \in Backends
    /\ activation = 0 /\ lastGen = 0 /\ binding = Unbound /\ observed = {}
    /\ attaching = NoSession /\ deferred = << >>
    /\ requests = {} /\ resolving = {}
    /\ at = [t \in Tasks |-> Rest] /\ lockq = << >> /\ todo = << >>
    /\ events = << >> /\ held = {}
    /\ home = [r \in Requests |-> NoSession]
    /\ agent = [r \in Requests |-> "quiet"]
    /\ told = [r \in Requests |-> "nothing"]
    /\ resolutions = [r \in Requests |-> 0]
    /\ stuck = {} /\ missed = {}
-----------------------------------------------------------------------------
(* Agents and the backend's other clients (external)                       *)

\* A request reaches the backend, which keeps and reports it.
Ask(r, s) ==
    /\ agent[r] = "quiet"
    /\ agent' = [agent EXCEPT ![r] = "waiting"]
    /\ home' = [home EXCEPT ![r] = s]
    /\ held' = held \union {r}
    /\ events' = Append(events, [kind |-> "asked", req |-> r])
    /\ UNCHANGED <<backend, topic, binding, observed, attaching, deferred, requests,
                   resolving, at, lockq, todo, publics, stuck, missed>>

\* The owner answers in the TUI, or the agent gives up: the request leaves the
\* backend's table, and some backends say so.
SettleElsewhere(r) ==
    /\ agent[r] = "waiting"
    /\ agent' = [agent EXCEPT ![r] = "settled"]
    /\ held' = held \ {r}
    /\ IF Echoes \/ (Reports /\ r \in held)
       THEN /\ events' = Append(events, [kind |-> "settled", req |-> r])
            /\ UNCHANGED stuck
       ELSE /\ stuck' = stuck \union {r}
            /\ UNCHANGED events
    /\ UNCHANGED <<backend, topic, binding, observed, attaching, deferred, requests,
                   resolving, at, lockq, todo, home, publics, missed>>

\* The agent takes the answer a task has sent, unless it has one already.
TakeAnswer(task) ==
    /\ at[task].pc = "answering"
    /\ LET r == Request(task) IN
       /\ agent' = [agent EXCEPT ![r] = "settled"]
       /\ events' = IF Echoes /\ agent[r] = "waiting"
                    THEN Append(events, [kind |-> "settled", req |-> r])
                    ELSE events
    /\ at' = [at EXCEPT ![task].pc = "answered"]
    /\ UNCHANGED <<backend, topic, binding, observed, attaching, deferred, requests,
                   resolving, lockq, todo, held, home, publics, stuck, missed>>
-----------------------------------------------------------------------------
(* Publishing and answering                                                *)

Tell(r, what) ==
    /\ told' = [told EXCEPT ![r] = what]
    /\ resolutions' = IF what = "resolved"
                      THEN [resolutions EXCEPT ![r] = @ + 1] ELSE resolutions

\* Mutant of Emit: the event is written without the store's lock.
EmitUnlocked(task, r, what) ==
    /\ Call(task, [Rest EXCEPT !.pc = "writing", !.req = {r}, !.for = what], lockq)
    /\ UNCHANGED publics

\* _emit of a history event; nothing follows it in any handler here.
Emit(task, r, what) ==
    IF Journaling
    THEN /\ Wait(task, [Rest EXCEPT !.pc = "writing", !.req = {r}, !.for = what], lockq)
         /\ UNCHANGED publics
    ELSE Tell(r, what) /\ Finish(task, lockq)

\* append_event returns: the event is published.
Written(task) ==
    /\ Runs(task) /\ Holds(task, "writing")
    /\ Tell(Request(task), at[task].for)
    /\ Finish(task, Tail(lockq))
    /\ UNCHANGED <<backend, topic, binding, observed, attaching, deferred, requests,
                   resolving, todo, events, held, home, agent, stuck, missed>>

\* resolve_approval or resolve_question of the backend, up to the send: the
\* token leaves the table first.  Without the token it raises.
Answer(task, r, who) ==
    /\ Call(task, [Rest EXCEPT !.pc = "answering", !.req = {r}, !.for = who], lockq)
    /\ resolving' = IF r \in Approvals THEN resolving \union {r} ELSE resolving
    /\ held' = held \ {r}

\* Mutant of Pop: whoever comes second announces it too.
PopAlways(task, r) == requests' = requests \ {r} /\ Emit(task, r, "resolved")

\* _resolve_approval publishes only what it still found; a question's handler
\* publishes in any case.
Pop(task, r) ==
    /\ requests' = requests \ {r}
    /\ IF r \in requests \union Questions
       THEN Emit(task, r, "resolved")
       ELSE Finish(task, lockq) /\ UNCHANGED publics

\* The backend call returns.
AnswerReturns(task) ==
    /\ Runs(task) /\ at[task].pc = "answered"
    /\ resolving' = resolving \ {Request(task)}
    /\ Pop(task, Request(task))
    /\ UNCHANGED <<backend, topic, binding, observed, attaching, deferred, todo,
                   events, held, home, agent, stuck, missed>>

\* Mutant of AnswerFails: a failed answer resolves the request all the same.
AnswerFailsResolved(task) ==
    /\ Runs(task) /\ Failures /\ at[task].pc \in {"answering", "answered"}
    /\ resolving' = resolving \ {Request(task)}
    /\ stuck' = stuck \union {Request(task)}
    /\ Pop(task, Request(task))
    /\ UNCHANGED <<backend, topic, binding, observed, attaching, deferred, todo,
                   events, held, home, agent, missed>>

\* Mutant of AnswerFails: a failed automatic approval stays pending unannounced.
AnswerFailsSilently(task) ==
    /\ Runs(task) /\ Failures /\ at[task].pc \in {"answering", "answered"}
    /\ resolving' = resolving \ {Request(task)}
    /\ stuck' = stuck \union {Request(task)}
    /\ Finish(task, lockq)
    /\ UNCHANGED <<backend, topic, binding, observed, attaching, deferred, requests,
                   todo, events, held, home, agent, publics, missed>>

\* The backend call raises, before or after the agent had the answer.  A failed
\* automatic approval is opened for manual review; if the request was resolved
\* meanwhile the exception ends the worker's replay.
AnswerFails(task) ==
    /\ Runs(task) /\ Failures /\ at[task].pc \in {"answering", "answered"}
    /\ LET r == Request(task) IN
       /\ resolving' = resolving \ {r}
       /\ stuck' = stuck \union {r}
       /\ IF at[task].for = "owner"
          THEN Finish(task, lockq) /\ UNCHANGED <<publics, todo, missed>>
          ELSE IF r \in requests
          THEN Emit(task, r, "opened") /\ UNCHANGED <<todo, missed>>
          ELSE /\ Finish(task, lockq)
               /\ IF task = "worker"
                  THEN todo' = << >>
                       /\ missed' = missed \union {todo[i].req : i \in DOMAIN todo}
                  ELSE UNCHANGED <<todo, missed>>
               /\ UNCHANGED publics
    /\ UNCHANGED <<backend, topic, binding, observed, attaching, deferred, requests,
                   events, held, home, agent>>
-----------------------------------------------------------------------------
(* Events: _handle_backend_event                                           *)

Selected(r) == binding.sid = home[r]

\* _open_request: pending, then approved automatically or published.
Open(task, r) ==
    /\ requests' = requests \union {r}
    /\ IF AutoApprove /\ r \in Approvals /\ Selected(r) /\ r \in held
       THEN Answer(task, r, "bridge") /\ UNCHANGED publics
       ELSE Emit(task, r, "opened") /\ UNCHANGED <<resolving, held>>

\* Mutant of Close: the pending request is published as resolved and kept.
CloseKeeping(task, r) == Emit(task, r, "resolved") /\ UNCHANGED requests

\* request_resolved of a pending request.
Close(task, r) == requests' = requests \ {r} /\ Emit(task, r, "resolved")

Drop(task, r) ==
    /\ missed' = missed \union {r}
    /\ Finish(task, lockq)
    /\ UNCHANGED <<requests, resolving, held, publics>>

\* The handler once the event is not to be deferred.  A resolution is dropped if
\* its session is not selected or nothing matches; a request is opened anyway.
Handle(task, e) ==
    IF activation = 0 THEN Drop(task, e.req)
    ELSE IF e.kind = "asked"
    THEN Open(task, e.req) /\ UNCHANGED missed
    ELSE IF Selected(e.req) /\ e.req \in requests
    THEN Close(task, e.req) /\ UNCHANGED <<resolving, held, missed>>
    ELSE Drop(task, e.req)

\* _backend_loop: the channel is found if it is bound to the session, attaches
\* it, or was bound to it before.
HandleEvent ==
    /\ Runs("backend") /\ Ready("backend") /\ events # << >>
    /\ LET e == Head(events) s == home[e.req] IN
       IF s \notin observed \union {binding.sid, attaching}
       THEN Drop("backend", e.req) /\ UNCHANGED deferred
       ELSE IF activation # 0 /\ attaching = s
       THEN /\ deferred' = Append(deferred, e)
            /\ UNCHANGED <<at, lockq, requests, resolving, held, publics, missed>>
       ELSE Handle("backend", e) /\ UNCHANGED deferred
    /\ events' = Tail(events)
    /\ UNCHANGED <<backend, topic, binding, observed, attaching, todo, home,
                   agent, stuck>>

\* The end of _action_attach: the deferred events, one after the other.
Replay ==
    /\ Ready("worker") /\ todo # << >>
    /\ Handle("worker", Head(todo))
    /\ todo' = Tail(todo)
    /\ UNCHANGED <<backend, topic, binding, observed, attaching, deferred, events,
                   home, agent, stuck>>
-----------------------------------------------------------------------------
(* The owner's actions, on the serial worker                               *)

MayAct == activation # 0 /\ Ready("worker") /\ todo = << >>

\* request.respond and request.skip.  Otherwise they are refused, and change
\* nothing.
Respond(r) ==
    /\ MayAct
    /\ r \in requests \ resolving /\ Selected(r) /\ r \in held
    /\ Answer("worker", r, "owner")
    /\ UNCHANGED <<backend, topic, binding, observed, attaching, deferred, requests,
                   todo, events, home, agent, publics, stuck, missed>>

Attach(s) ==
    /\ MayAct
    /\ attaching' = s /\ deferred' = << >>
    /\ Call("worker", [Rest EXCEPT !.pc = "attaching", !.sid = s], lockq)
    /\ UNCHANGED <<backend, topic, binding, observed, requests, resolving, todo,
                   events, held, home, agent, publics, stuck, missed>>

\* attach_session raises: the deferred events are forgotten.
AttachFails ==
    /\ Failures /\ at["worker"].pc = "attaching"
    /\ attaching' = NoSession /\ deferred' = << >>
    /\ missed' = missed \union {deferred[i].req : i \in DOMAIN deferred}
    /\ Finish("worker", lockq)
    /\ UNCHANGED <<backend, topic, binding, observed, requests, resolving, todo,
                   events, held, home, agent, publics, stuck>>

\* attach_session returns: bound in memory, then saved and announced.
Attached ==
    /\ at["worker"].pc = "attaching"
    /\ binding' = Fresh(attaching)
    /\ observed' = observed \union ({binding.sid, attaching} \ {NoSession})
    /\ Wait("worker", [Rest EXCEPT !.pc = "saving"], lockq)
    /\ UNCHANGED <<backend, topic, attaching, deferred, requests, resolving, todo,
                   events, held, home, agent, publics, stuck, missed>>

\* Mutant of Saved: what was deferred is not replayed.
SavedForgetting ==
    /\ Holds("worker", "saving")
    /\ attaching' = NoSession /\ deferred' = << >> /\ todo' = << >>
    /\ Finish("worker", Tail(lockq))
    /\ UNCHANGED <<backend, topic, binding, observed, requests, resolving, events,
                   held, home, agent, publics, stuck, missed>>

\* The awaits that follow return, as one.
Saved ==
    /\ Holds("worker", "saving")
    /\ attaching' = NoSession /\ deferred' = << >> /\ todo' = deferred
    /\ Finish("worker", Tail(lockq))
    /\ UNCHANGED <<backend, topic, binding, observed, requests, resolving, events,
                   held, home, agent, publics, stuck, missed>>

\* What detach awaits after the assignment delays only the worker.
Detach ==
    /\ MayAct /\ binding # Unbound
    /\ binding' = Unbound
    /\ UNCHANGED <<backend, topic, observed, attaching, deferred, requests,
                   resolving, at, lockq, todo, events, held, home, agent, publics,
                   stuck, missed>>

\* Republish what is pending, unless the channel has changed since gen and obj.
Republish(gen, obj) ==
    /\ told' = IF activation = gen /\ activation # 0 /\ binding.obj = obj
               THEN [r \in Requests |-> IF r \in requests THEN "opened" ELSE told[r]]
               ELSE told
    /\ UNCHANGED resolutions

\* sync.request: hello, the queue for the snapshot if bound, then the requests.
Sync ==
    /\ MayAct
    /\ IF binding = Unbound
       THEN Republish(activation, 0) /\ UNCHANGED <<at, lockq>>
       ELSE /\ Wait("worker", [Rest EXCEPT !.pc = "listing", !.obj = binding.obj,
                                           !.gen = activation], lockq)
            /\ UNCHANGED publics
    /\ UNCHANGED <<backend, topic, binding, observed, attaching, deferred, requests,
                   resolving, todo, events, held, home, agent, stuck, missed>>

Listed ==
    /\ Holds("worker", "listing")
    /\ Republish(at["worker"].gen, at["worker"].obj)
    /\ Finish("worker", Tail(lockq))
    /\ UNCHANGED <<backend, topic, binding, observed, attaching, deferred, requests,
                   resolving, todo, events, held, home, agent, stuck, missed>>
-----------------------------------------------------------------------------
(* Topics: _handle_topic                                                   *)

Suspend ==
    /\ Runs("topic") /\ activation # 0 /\ Ready("topic")
    /\ activation' = 0
    /\ UNCHANGED <<backend, lastGen, binding, observed, attaching, deferred, requests,
                   resolving, at, lockq, todo, events, held, home, agent, publics,
                   stuck, missed>>

\* A valid topic; the bound session, if any, is attached again.
Activate ==
    /\ Runs("topic") /\ Ready("topic") /\ lastGen < MaxTopics
    /\ lastGen' = lastGen + 1 /\ activation' = lastGen + 1
    /\ IF binding = Unbound THEN UNCHANGED <<at, lockq>>
       ELSE Call("topic", [Rest EXCEPT !.pc = "attaching", !.sid = binding.sid], lockq)
    /\ UNCHANGED <<backend, binding, observed, attaching, deferred, requests,
                   resolving, todo, events, held, home, agent, publics, stuck, missed>>

Reattached ==
    /\ Runs("topic") /\ at["topic"].pc = "attaching"
    /\ binding' = Fresh(at["topic"].sid)
    /\ Finish("topic", lockq)
    /\ UNCHANGED <<backend, topic, observed, attaching, deferred, requests, resolving,
                   todo, events, held, home, agent, publics, stuck, missed>>

ReattachFails ==
    /\ Runs("topic") /\ Failures /\ at["topic"].pc = "attaching"
    /\ Finish("topic", lockq)
    /\ UNCHANGED <<backend, topic, binding, observed, attaching, deferred, requests,
                   resolving, todo, events, held, home, agent, publics, stuck, missed>>
-----------------------------------------------------------------------------
Next ==
    \/ \E r \in Requests : \/ \E s \in Sessions : Ask(r, s)
                           \/ SettleElsewhere(r)
                           \/ Respond(r)
    \/ \E task \in {"worker", "backend"} :
          TakeAnswer(task) \/ AnswerReturns(task) \/ AnswerFails(task) \/ Written(task)
    \/ HandleEvent \/ Replay
    \/ \E s \in Sessions : Attach(s)
    \/ AttachFails \/ Attached \/ Saved \/ Detach \/ Sync \/ Listed
    \/ Suspend \/ Activate \/ Reattached \/ ReattachFails

Spec == Init /\ [][Next]_vars
-----------------------------------------------------------------------------
(* Properties                                                              *)

Frame == [pc : {"idle", "answering", "answered", "writing", "attaching",
                "saving", "listing"},
          req : {{}} \union {{r} : r \in Requests},
          for : {"", "owner", "bridge", "opened", "resolved"},
          sid : Sessions \union {NoSession},
          obj : Identities \union {0}, gen : 0..MaxTopics]
EventsSeq(s) == \A i \in DOMAIN s : s[i] \in [kind : {"asked", "settled"}, req : Requests]

\* Every variable has its type, and only the tasks that wait for the store are
\* in its line, each once.
TypeOK ==
    /\ backend \in Backends
    /\ activation \in 0..lastGen /\ lastGen \in 0..MaxTopics
    /\ binding \in [sid : Sessions \union {NoSession}, obj : Identities \union {0}]
    /\ observed \subseteq Sessions /\ attaching \in Sessions \union {NoSession}
    /\ EventsSeq(deferred) /\ EventsSeq(todo) /\ EventsSeq(events)
    /\ requests \subseteq Requests /\ resolving \subseteq Approvals
    /\ at \in [Tasks -> Frame]
    /\ {lockq[i] : i \in DOMAIN lockq} =
          {t \in Tasks : at[t].pc \in {"writing", "saving", "listing"}}
    /\ \A i, j \in DOMAIN lockq : lockq[i] = lockq[j] => i = j
    /\ held \subseteq Requests
    /\ home \in [Requests -> Sessions \union {NoSession}]
    /\ agent \in [Requests -> {"quiet", "waiting", "settled"}]
    /\ told \in [Requests -> {"nothing", "opened", "resolved"}]
    /\ resolutions \in [Requests -> Nat]
    /\ stuck \subseteq Requests /\ missed \subseteq Requests

Answering(r) == \E t \in Tasks : at[t].pc \in {"answering", "answered"} /\ at[t].req = {r}
Writing(r, what) == \E t \in Tasks : at[t].pc = "writing" /\ at[t].req = {r} /\ at[t].for = what
\* An event about r the bridge has not handled yet.
Coming(r, what) ==
    \E s \in {events, deferred, todo} :
       \E i \in DOMAIN s : s[i].req = r /\ s[i].kind = what

\* An approval is published as resolved at most once, however an owner's
\* answer, the automatic one and the backend's own report race
\* (_resolve_approval and request_resolved).
ApprovalResolvedOnce == \A r \in Approvals : resolutions[r] <= 1

\* What was published as resolved is never published as open again, neither by
\* its own late opening nor by a sync (_open_request, _action_sync).
ResolvedStaysResolved ==
    [][\A r \in Requests : told[r] = "resolved" => told'[r] = "resolved"]_vars

\* Clients are told that a request is resolved only when its agent no longer
\* waits for it; a failed answer is not reported as one (_resolve_approval).
ResolvedIsSettled == \A r \in Requests : told[r] = "resolved" => agent[r] = "settled"

\* Clients show a request exactly while the bridge would take an answer to it,
\* apart from one being approved automatically and the event being written.
ClientsAgree ==
    \A r \in Requests :
       /\ r \in requests /\ told[r] # "opened" => Answering(r) \/ Writing(r, "opened")
       /\ told[r] = "opened" /\ r \notin requests => Writing(r, "resolved")

\* A pending request can be answered, is being answered, or its resolution is
\* on the way, unless an answer to it failed or its resolution was dropped or
\* never reported (requests against the backend's table).
PendingIsAnswerable ==
    \A r \in requests :
       r \in held \/ Answering(r) \/ Coming(r, "settled") \/ r \in stuck \union missed

\* An agent that waits is known to the bridge: its request is pending, in the
\* stream, or was dropped with its event (_handle_backend_event).
NobodyForgotten ==
    \A r \in Requests :
       agent[r] = "waiting" => r \in requests \/ Coming(r, "asked") \/ r \in missed

\* README 130-131: "Failed automatic approvals remain available for manual
\* review".  An open approval whose agent waits can be answered.
ManualReviewPossible ==
    \A r \in Approvals \intersect requests :
       agent[r] = "waiting" /\ ~Answering(r) => r \in held

\* docs/agentwire-irc-v1.md 178: "Resolved requests are not replayed": what a
\* sync republishes is not resolved, or its resolution is on the way.
ResolvedNotReplayed ==
    [][Holds("worker", "listing") /\ at'["worker"] = Rest
          /\ activation = at["worker"].gen /\ binding.obj = at["worker"].obj
       => \A r \in requests :
             agent[r] # "settled" \/ Answering(r) \/ Coming(r, "settled")]_vars

\* What clients are told is resolved is settled with its agent, and an approval
\* is so told once.
ResolvedOnce == TypeOK /\ ApprovalResolvedOnce /\ ResolvedIsSettled

\* The bridge's pending requests are the ones agents wait for, either way.
PendingIsTrue == PendingIsAnswerable /\ NobodyForgotten
=============================================================================
