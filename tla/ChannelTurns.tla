---------------------------- MODULE ChannelTurns ----------------------------
(***************************************************************************)
(* How one static channel drives its agent session (bridge.py): which      *)
(* session is bound, whether the channel believes it busy, and how prompts *)
(* are sent at once, queued, and drained when a turn ends.                 *)
(*                                                                         *)
(* Three tasks share the runtime without a lock: the serial action worker, *)
(* the IRC loop that evaluates topics, and the backend event loop.  Each   *)
(* may run whenever another one awaits a backend call or the SQLite store. *)
(* The store's asyncio.Lock is FIFO and is held until its caller resumes.  *)
(* The agent sessions themselves are external: a sent prompt becomes a     *)
(* turn that eventually ends, and both facts come back as events.          *)
(***************************************************************************)
EXTENDS Naturals, Sequences, FiniteSets, FiniteSetsExt

CONSTANTS
    Prompts,       \* prompts clients submit; also their queue item ids
    Sessions,      \* agent sessions of the channel's backend
    Texts,         \* texts a prompt can have: as written, or edited
    Limit,         \* bridge.queue_limit
    Journaling,    \* the backend lacks an authoritative history, so turn events
                   \* are written to SQLite before the queue is drained
    StatusEvents,  \* the backend also reports busy/idle as status_changed
    Failures,      \* backend calls may raise BackendError
    Reordering,    \* owners use queue.move
    Rebinding,     \* owners detach, and attach while a session is bound
    MaxTopics,     \* bound: topic activations
    MaxForeign,    \* bound: turns other clients start in the sessions
    MaxRestarts    \* bound: bridge crashes

NoSession == "no session"
Foreign   == "foreign"     \* a turn not started by this bridge
ASSUME NamesAssumption ==
    /\ NoSession \notin Sessions /\ Foreign \notin Prompts
    /\ MaxTopics \in Nat

VARIABLES
    activation,  \* runtime.activation as an object number, 0 for None
    lastGen,     \* activations created so far
    binding,     \* runtime.binding: a session and the identity of the object
    busy,        \* runtime.busy
    attaching,   \* runtime.attaching_session
    deferred,    \* runtime.deferred_events
    saved,       \* the channel's row in the bindings table          (durable)
    rows, older, outcome,  \* the prompt queue: QueueStore             (durable)
    at,          \* what each task awaits, with the locals it keeps
    lockq,       \* tasks waiting for the store's lock, holder first
    todo,        \* deferred events the worker still has to replay
    events,      \* Backend.events() not yet consumed
    turns,       \* turns each session has accepted and not finished
    foreign,     \* foreign turns so far
    restarts,    \* restarts so far
    sent,        \* history: times a prompt was accepted by the backend
    discarded,   \* history: prompts the owner took out of a queue
    queued,      \* history: prompts that were ever queued
    ahead        \* history: the prompts in the list when a prompt was queued

store   == <<rows, older, outcome>>
topic   == <<activation, lastGen>>
history == <<sent, discarded, queued, ahead>>
vars == <<topic, binding, busy, attaching, deferred, saved, store, at,
          lockq, todo, events, turns, foreign, restarts, history>>

Queue == INSTANCE QueueStore WITH Items <- Prompts, Lists <- Sessions

Tasks    == {"worker", "topic", "backend"}
\* Identities of ChannelBinding objects; at most four are referred to at once.
Identities == 1..4
Unbound  == [sid |-> NoSession, obj |-> 0]
\* A task that awaits nothing, and one that awaits pc for session sid.
Rest     == [pc |-> "idle", sid |-> NoSession, obj |-> 0, gen |-> 0, row |-> {}]
Awaiting(pc, sid) == [Rest EXCEPT !.pc = pc, !.sid = sid]

Running(s) == turns[s] # << >>          \* SessionSummary.busy
Ready(task) == at[task].pc = "idle"
\* The task's turn at the store, for the operation pc.
Holds(task, pc) == at[task].pc = pc /\ Head(lockq) = task

\* Continue: stop awaiting, or queue for the lock (again) as frame.
Finish(task, q)      == at' = [at EXCEPT ![task] = Rest] /\ lockq' = q
Wait(task, frame, q) == at' = [at EXCEPT ![task] = frame] /\ lockq' = Append(q, task)
Call(task, frame, q) == at' = [at EXCEPT ![task] = frame] /\ lockq' = q

Init ==
    /\ activation = 0 /\ lastGen = 0
    /\ binding = Unbound /\ busy = FALSE
    /\ attaching = NoSession /\ deferred = << >> /\ saved = NoSession
    /\ Queue!Init
    /\ at = [t \in Tasks |-> Rest]
    /\ lockq = << >> /\ todo = << >> /\ events = << >>
    /\ turns = [s \in Sessions |-> << >>]
    /\ foreign = 0 /\ restarts = 0
    /\ sent = [p \in Prompts |-> 0]
    /\ discarded = {} /\ queued = {} /\ ahead = [p \in Prompts |-> {}]
-----------------------------------------------------------------------------
(* _drain_queue                                                            *)

\* Mutant of ClaimDrain: the queue is read without the store's lock.
ClaimDrainUnlocked(task, q) ==
    /\ busy' = TRUE
    /\ Call(task, [Awaiting("list", binding.sid)
                     EXCEPT !.obj = binding.obj, !.gen = activation], q)

\* Claim the channel, then list the queue.
ClaimDrain(task, q) ==
    /\ busy' = TRUE
    /\ Wait(task, [Awaiting("list", binding.sid)
                     EXCEPT !.obj = binding.obj, !.gen = activation], q)

\* turn_done of the bound session: the queue is drained at once, or after the
\* event has been written.
TurnDone(task, q) ==
    IF Journaling
    THEN busy' = FALSE /\ Wait(task, Awaiting("journal", binding.sid), q)
    ELSE ClaimDrain(task, q)

\* The task goes on with busy as isBusy: nothing is left to do, or the worker
\* handles the deferred events of an attach in order until one suspends it.
GoOn(task, es, isBusy, q) ==
    LET dones == {i \in DOMAIN es : es[i].kind = "done"} IN
    IF es = << >> \/ activation = 0 \/ binding.sid # es[1].sid
    THEN busy' = isBusy /\ todo' = << >> /\ Finish(task, q)
    ELSE IF dones = {}
    THEN busy' = (es[Len(es)].kind = "started") /\ todo' = << >> /\ Finish(task, q)
    ELSE /\ todo' = SubSeq(es, Min(dones) + 1, Len(es))
         /\ TurnDone(task, q)

Continue(task, isBusy, q) ==
    IF task = "worker" THEN GoOn(task, todo, isBusy, q)
    ELSE busy' = isBusy /\ Finish(task, q) /\ UNCHANGED todo

\* _drain_queue is entered with busy as isBusy.
StartDrain(task, isBusy, q) ==
    IF activation = 0 \/ binding = Unbound \/ isBusy
    THEN Continue(task, isBusy, q)
    ELSE ClaimDrain(task, q) /\ UNCHANGED todo

\* Mutant of Head1: newest first.
HeadNewest(s) == {r \in Queue!RowsOf(s) : \A r2 \in Queue!RowsOf(s) : r.position >= r2.position}

\* The head of the list as read, or an empty read; the captured activation
\* and binding are compared before anything is sent.
Head1(s) == {r \in Queue!RowsOf(s) : \A r2 \in Queue!RowsOf(s) : r.position <= r2.position}

\* Mutant of DrainList: activation and binding are not compared again.
DrainListUnchecked(task) ==
    LET f == at[task]  head == Head1(f.sid) IN
    /\ Holds(task, "list")
    /\ IF head # {}
       THEN /\ Call(task, [f EXCEPT !.pc = "send", !.row = head], Tail(lockq))
            /\ UNCHANGED <<busy, todo>>
       ELSE Continue(task, FALSE, Tail(lockq))
    /\ UNCHANGED <<topic, binding, attaching, deferred, saved, store, events, turns,
                   foreign, restarts, history>>

\* Mutant of DrainList: a drain that finds nothing keeps its claim.
DrainListKeepingClaim(task) ==
    LET f == at[task]  head == Head1(f.sid) IN
    /\ Holds(task, "list")
    /\ IF activation = f.gen /\ binding.obj = f.obj /\ head # {}
       THEN /\ Call(task, [f EXCEPT !.pc = "send", !.row = head], Tail(lockq))
            /\ UNCHANGED <<busy, todo>>
       ELSE Continue(task, busy, Tail(lockq))
    /\ UNCHANGED <<topic, binding, attaching, deferred, saved, store, events, turns,
                   foreign, restarts, history>>

DrainList(task) ==
    LET f == at[task]  head == Head1(f.sid) IN
    /\ Holds(task, "list")
    /\ IF activation = f.gen /\ binding.obj = f.obj /\ head # {}
       THEN /\ Call(task, [f EXCEPT !.pc = "send", !.row = head], Tail(lockq))
            /\ UNCHANGED <<busy, todo>>
       ELSE Continue(task, IF binding.obj = f.obj THEN FALSE ELSE busy, Tail(lockq))
    /\ UNCHANGED <<topic, binding, attaching, deferred, saved, store,
                   events, turns, foreign, restarts, history>>

\* The backend accepts prompt p as a turn of session s.
Accepted(s, p) ==
    /\ turns' = [turns EXCEPT ![s] = Append(@, p)]
    /\ events' = Append(events, [kind |-> "started", sid |-> s])

DrainSent(task) ==
    LET f == at[task]  p == (CHOOSE r \in f.row : TRUE).id IN
    /\ f.pc = "send"
    /\ Accepted(f.sid, p)
    /\ sent' = [sent EXCEPT ![p] = @ + 1]
    /\ Wait(task, [f EXCEPT !.pc = "delete"], lockq)
    /\ UNCHANGED <<topic, binding, busy, attaching, deferred, saved, store,
                   todo, foreign, restarts, discarded, queued, ahead>>

\* Mutant of DrainSendFails: the prompt is deleted although it was refused.
DrainSendFailsDropping(task) ==
    /\ Failures /\ at[task].pc = "send"
    /\ busy' = IF binding.obj = at[task].obj THEN FALSE ELSE busy
    /\ Finish(task, lockq)
    /\ todo' = IF task = "worker" THEN << >> ELSE todo
    /\ Queue!DeleteQueue((CHOOSE r \in at[task].row : TRUE).id)
    /\ UNCHANGED <<topic, binding, attaching, deferred, saved, events, turns,
                   foreign, restarts, history>>

\* send_message raises: the claim is given back, and the error ends whatever
\* the task was doing, the replay of deferred events included.
DrainSendFails(task) ==
    /\ Failures /\ at[task].pc = "send"
    /\ busy' = IF binding.obj = at[task].obj THEN FALSE ELSE busy
    /\ Finish(task, lockq)
    /\ todo' = IF task = "worker" THEN << >> ELSE todo
    /\ UNCHANGED <<topic, binding, attaching, deferred, saved, store, events,
                   turns, foreign, restarts, history>>

\* Mutant of DrainDelete: the delivered prompt is left in the queue.
DrainForgets(task) ==
    /\ Holds(task, "delete")
    /\ Continue(task, busy, Tail(lockq))
    /\ UNCHANGED <<topic, binding, attaching, deferred, saved, store, events, turns,
                   foreign, restarts, history>>

\* delete_queue; an IntegrityError leaves the delivered prompt in the queue.
DrainDelete(task) ==
    /\ Holds(task, "delete")
    /\ Queue!DeleteQueue((CHOOSE r \in at[task].row : TRUE).id)
    /\ IF outcome' = "integrity" /\ task = "worker"
       THEN Finish(task, Tail(lockq)) /\ todo' = << >> /\ UNCHANGED busy
       ELSE Continue(task, busy, Tail(lockq))
    /\ UNCHANGED <<topic, binding, attaching, deferred, saved, events,
                   turns, foreign, restarts, history>>

DrainStep(task) ==
    DrainList(task) \/ DrainSent(task) \/ DrainSendFails(task) \/ DrainDelete(task)
-----------------------------------------------------------------------------
(* The backend event loop: _backend_loop and _handle_backend_event         *)

TakeEvent ==
    LET e == Head(events) IN
    /\ Ready("backend") /\ events # << >>
    /\ events' = Tail(events)
    /\ deferred' = IF activation # 0 /\ attaching = e.sid
                   THEN Append(deferred, e) ELSE deferred
    /\ IF activation = 0 \/ attaching = e.sid \/ binding.sid # e.sid
       THEN UNCHANGED <<busy, at, lockq>>
       ELSE IF e.kind = "done" THEN TurnDone("backend", lockq)
       ELSE busy' = (e.kind = "started") /\ UNCHANGED <<at, lockq>>
    /\ UNCHANGED <<topic, binding, attaching, saved, store, todo, turns,
                   foreign, restarts, history>>

\* append_event of turn.completed is written; then the queue is drained.
Journaled(task) ==
    /\ Holds(task, "journal")
    /\ StartDrain(task, busy, Tail(lockq))
    /\ UNCHANGED <<topic, binding, attaching, deferred, saved, store,
                   events, turns, foreign, restarts, history>>
-----------------------------------------------------------------------------
(* Topics: _handle_topic                                                   *)

\* A new ChannelBinding: an object no drain under way has captured.
Fresh == CHOOSE n \in Identities :
            /\ n # binding.obj /\ \A t \in Tasks : n # at[t].obj
            /\ \A m \in 1..(n - 1) : m = binding.obj \/ \E t \in Tasks : m = at[t].obj

Bind(sid) ==
    /\ binding' = [sid |-> sid, obj |-> Fresh]
    /\ busy' = Running(sid)

TopicOff ==
    /\ Ready("topic") /\ activation # 0
    /\ activation' = 0
    /\ UNCHANGED <<lastGen, binding, busy, attaching, deferred, saved, store,
                   at, lockq, todo, events, turns, foreign, restarts, history>>

\* A valid marker, set anew or re-read after a reconnect.
TopicOn ==
    /\ Ready("topic") /\ lastGen < MaxTopics
    /\ lastGen' = lastGen + 1
    /\ activation' = lastGen + 1
    /\ IF binding = Unbound THEN Finish("topic", lockq)
       ELSE Call("topic", Awaiting("attach", binding.sid), lockq)
    /\ UNCHANGED <<binding, busy, attaching, deferred, saved, store, todo,
                   events, turns, foreign, restarts, history>>

\* attach_session answers for the session bound when the topic arrived.
TopicAttached ==
    /\ at["topic"].pc = "attach"
    /\ Bind(at["topic"].sid)
    /\ Wait("topic", Awaiting("save", at["topic"].sid), lockq)
    /\ UNCHANGED <<topic, attaching, deferred, saved, store, todo, events, turns,
                   foreign, restarts, history>>

TopicSaved ==
    /\ Holds("topic", "save")
    /\ saved' = at["topic"].sid
    /\ StartDrain("topic", busy, Tail(lockq))
    /\ UNCHANGED <<topic, binding, attaching, deferred, store, events,
                   turns, foreign, restarts, history>>

TopicAttachFails ==
    /\ Failures /\ at["topic"].pc = "attach"
    /\ Finish("topic", lockq)
    /\ UNCHANGED <<topic, binding, busy, attaching, deferred, saved, store,
                   todo, events, turns, foreign, restarts, history>>
-----------------------------------------------------------------------------
(* The action worker: prompts and bindings                                 *)

\* The worker begins a trusted action.
Begin == Ready("worker") /\ activation # 0

\* turn.prompt, delivery "queue".  A prompt for an idle session is sent at
\* once, and the channel is not marked busy before the backend has answered.
Prompt(p) ==
    /\ Begin /\ binding # Unbound
    /\ sent[p] = 0 /\ p \notin queued
    /\ \E text \in Texts :
         LET f == [Awaiting("prompt", binding.sid)
                     EXCEPT !.row = {[id |-> p, text |-> text]}]
         IN  IF busy THEN Wait("worker", [f EXCEPT !.pc = "enqueue"], lockq)
             ELSE Call("worker", f, lockq)
    /\ UNCHANGED <<topic, binding, busy, attaching, deferred, saved, store,
                   todo, events, turns, foreign, restarts, history>>

Enqueued ==
    LET f == at["worker"]  new == CHOOSE r \in f.row : TRUE IN
    /\ Holds("worker", "enqueue")
    /\ Queue!Enqueue(new.id, f.sid, new.text)
    /\ IF outcome' = "ok"
       THEN /\ queued' = queued \cup {new.id}
            /\ ahead' = [ahead EXCEPT ![new.id] = {r.id : r \in Queue!RowsOf(f.sid)}]
       ELSE UNCHANGED <<queued, ahead>>
    /\ Finish("worker", Tail(lockq))
    /\ UNCHANGED <<topic, binding, busy, attaching, deferred, saved, todo,
                   events, turns, foreign, restarts, sent, discarded>>

\* Mutant of PromptSent: busy is left for the turn_started event to set.
PromptSentUnmarked ==
    LET f == at["worker"]  p == (CHOOSE r \in f.row : TRUE).id IN
    /\ f.pc = "prompt"
    /\ Accepted(f.sid, p)
    /\ sent' = [sent EXCEPT ![p] = @ + 1]
    /\ Finish("worker", lockq)
    /\ UNCHANGED <<topic, binding, busy, attaching, deferred, saved, store, todo,
                   foreign, restarts, discarded, queued, ahead>>

PromptSent ==
    LET f == at["worker"]  p == (CHOOSE r \in f.row : TRUE).id IN
    /\ f.pc = "prompt"
    /\ Accepted(f.sid, p)
    /\ sent' = [sent EXCEPT ![p] = @ + 1]
    /\ busy' = TRUE
    /\ Finish("worker", lockq)
    /\ UNCHANGED <<topic, binding, attaching, deferred, saved, store, todo,
                   foreign, restarts, discarded, queued, ahead>>

PromptFails ==
    /\ Failures /\ at["worker"].pc = "prompt"
    /\ Finish("worker", lockq)
    /\ UNCHANGED <<topic, binding, busy, attaching, deferred, saved, store,
                   todo, events, turns, foreign, restarts, history>>

Attach(s) ==
    /\ Begin /\ (Rebinding \/ binding = Unbound)
    /\ attaching' = s /\ deferred' = << >>
    /\ Call("worker", Awaiting("attach", s), lockq)
    /\ UNCHANGED <<topic, binding, busy, saved, store, todo, events, turns,
                   foreign, restarts, history>>

\* _set_binding up to its first await: the store.
Attached ==
    /\ at["worker"].pc = "attach"
    /\ Bind(at["worker"].sid)
    /\ Wait("worker", Awaiting("save", at["worker"].sid), lockq)
    /\ UNCHANGED <<topic, attaching, deferred, saved, store, todo, events, turns,
                   foreign, restarts, history>>

\* The row is written; binding.changed goes out; the snapshot lists the queue.
BindingSaved ==
    /\ Holds("worker", "save")
    /\ saved' = at["worker"].sid
    /\ Wait("worker", Awaiting("snapshot", at["worker"].sid), Tail(lockq))
    /\ UNCHANGED <<topic, binding, busy, attaching, deferred, store, todo,
                   events, turns, foreign, restarts, history>>

\* The snapshot goes out; then the events that arrived for the session
\* meanwhile are replayed in order.
Snapshot ==
    /\ Holds("worker", "snapshot")
    /\ deferred' = << >> /\ attaching' = NoSession
    /\ GoOn("worker", deferred, busy, Tail(lockq))
    /\ UNCHANGED <<topic, binding, saved, store, events, turns,
                   foreign, restarts, history>>

AttachFails ==
    /\ Failures /\ at["worker"].pc = "attach"
    /\ attaching' = NoSession /\ deferred' = << >>
    /\ Finish("worker", lockq)
    /\ UNCHANGED <<topic, binding, busy, saved, store, todo, events, turns,
                   foreign, restarts, history>>

Detach ==
    /\ Begin /\ Rebinding /\ binding # Unbound
    /\ binding' = Unbound /\ busy' = FALSE
    /\ Wait("worker", Awaiting("unbind", NoSession), lockq)
    /\ UNCHANGED <<topic, attaching, deferred, saved, store, todo, events,
                   turns, foreign, restarts, history>>

\* Mutant of Detached: the row of the binding stays.
DetachedInMemory ==
    /\ Holds("worker", "unbind")
    /\ Finish("worker", Tail(lockq))
    /\ UNCHANGED <<topic, binding, busy, attaching, deferred, saved, store, todo, events,
                   turns, foreign, restarts, history>>

Detached ==
    /\ Holds("worker", "unbind")
    /\ saved' = NoSession
    /\ Finish("worker", Tail(lockq))
    /\ UNCHANGED <<topic, binding, busy, attaching, deferred, store, todo,
                   events, turns, foreign, restarts, history>>
-----------------------------------------------------------------------------
(* The action worker: the queue                                            *)

QueueAction(p, pc) ==
    /\ Begin /\ binding # Unbound
    /\ Wait("worker", [Awaiting("require", binding.sid)
                         EXCEPT !.row = {[id |-> p, then |-> pc]}], lockq)
    /\ UNCHANGED <<topic, binding, busy, attaching, deferred, saved, store,
                   todo, events, turns, foreign, restarts, history>>

\* Mutant of Required: an item that is not found keeps the store's lock.
RequiredKeepingLock ==
    LET f == at["worker"]  want == CHOOSE r \in f.row : TRUE IN
    /\ Holds("worker", "require")
    /\ IF \E r \in Queue!RowsOf(f.sid) : r.id = want.id
       THEN Wait("worker", [f EXCEPT !.pc = want.then], Tail(lockq))
       ELSE Finish("worker", lockq)
    /\ UNCHANGED <<topic, binding, busy, attaching, deferred, saved, store,
                   todo, events, turns, foreign, restarts, history>>

\* _require_queue_item: the item must be in the list of the session that was
\* bound when the action began; the operation itself is another transaction.
Required ==
    LET f == at["worker"]  want == CHOOSE r \in f.row : TRUE IN
    /\ Holds("worker", "require")
    /\ IF \E r \in Queue!RowsOf(f.sid) : r.id = want.id
       THEN Wait("worker", [f EXCEPT !.pc = want.then], Tail(lockq))
       ELSE Finish("worker", Tail(lockq))
    /\ UNCHANGED <<topic, binding, busy, attaching, deferred, saved, store,
                   todo, events, turns, foreign, restarts, history>>

QueueEdited ==
    /\ Holds("worker", "edit")
    /\ \E text \in Texts : Queue!EditQueue((CHOOSE r \in at["worker"].row : TRUE).id, text)
    /\ Finish("worker", Tail(lockq))
    /\ UNCHANGED <<topic, binding, busy, attaching, deferred, saved, todo,
                   events, turns, foreign, restarts, history>>

QueueMoved ==
    /\ Holds("worker", "move")
    /\ \E place \in 0..Limit :
         Queue!MoveQueue((CHOOSE r \in at["worker"].row : TRUE).id, place)
    /\ Finish("worker", Tail(lockq))
    /\ UNCHANGED <<topic, binding, busy, attaching, deferred, saved, todo,
                   events, turns, foreign, restarts, history>>

QueueDeleted ==
    LET p == (CHOOSE r \in at["worker"].row : TRUE).id IN
    /\ Holds("worker", "discard")
    /\ Queue!DeleteQueue(p)
    /\ discarded' = IF outcome' = "ok" THEN discarded \cup {p} ELSE discarded
    /\ Finish("worker", Tail(lockq))
    /\ UNCHANGED <<topic, binding, busy, attaching, deferred, saved, todo,
                   events, turns, foreign, restarts, sent, queued, ahead>>

QueueClear ==
    /\ Begin /\ binding # Unbound
    /\ Wait("worker", Awaiting("clear", binding.sid), lockq)
    /\ UNCHANGED <<topic, binding, busy, attaching, deferred, saved, store,
                   todo, events, turns, foreign, restarts, history>>

QueueCleared ==
    LET s == at["worker"].sid IN
    /\ Holds("worker", "clear")
    /\ discarded' = discarded \cup {r.id : r \in Queue!RowsOf(s)}
    /\ Queue!ClearQueue(s)
    /\ Finish("worker", Tail(lockq))
    /\ UNCHANGED <<topic, binding, busy, attaching, deferred, saved, todo,
                   events, turns, foreign, restarts, sent, queued, ahead>>
-----------------------------------------------------------------------------
(* Agent sessions and restarts                                             *)

TurnEnds(s) ==
    /\ Running(s)
    /\ turns' = [turns EXCEPT ![s] = Tail(@)]
    /\ events' = events \o (IF StatusEvents THEN <<[kind |-> "idle", sid |-> s]>> ELSE << >>)
                        \o <<[kind |-> "done", sid |-> s]>>
    /\ UNCHANGED <<topic, binding, busy, attaching, deferred, saved, store, at,
                   lockq, todo, foreign, restarts, history>>

\* Someone at the session's own terminal starts a turn.
ForeignTurn(s) ==
    /\ foreign < MaxForeign /\ ~Running(s)
    /\ foreign' = foreign + 1
    /\ Accepted(s, Foreign)
    /\ UNCHANGED <<topic, binding, busy, attaching, deferred, saved, store, at,
                   lockq, todo, restarts, history>>

\* The process dies and its successor runs _restore_bindings: a session that
\* cannot be attached loses its binding.  Turns may or may not outlive it.
Restart ==
    /\ restarts < MaxRestarts
    /\ restarts' = restarts + 1
    /\ activation' = 0 /\ attaching' = NoSession
    /\ deferred' = << >> /\ todo' = << >> /\ events' = << >> /\ lockq' = << >>
    /\ at' = [t \in Tasks |-> Rest]
    /\ turns' \in {turns, [s \in Sessions |-> << >>]}
    /\ \/ /\ saved # NoSession
          /\ binding' = [sid |-> saved, obj |-> 1]
          /\ busy' = (turns'[saved] # << >>)
          /\ UNCHANGED saved
       \/ /\ saved = NoSession \/ Failures
          /\ binding' = Unbound /\ busy' = FALSE /\ saved' = NoSession
    /\ UNCHANGED <<lastGen, store, foreign, history>>
-----------------------------------------------------------------------------
WorkerStarts ==
    \/ \E p \in Prompts : Prompt(p) \/ QueueAction(p, "edit") \/ QueueAction(p, "discard")
                          \/ (Reordering /\ QueueAction(p, "move"))
    \/ \E s \in Sessions : Attach(s)
    \/ Detach \/ QueueClear

\* Steps of the worker that only wait for the backend, the store or the loop.
WorkerGoesOn ==
    \/ Enqueued \/ PromptSent \/ Attached \/ BindingSaved \/ Snapshot
    \/ Detached \/ Required \/ QueueEdited \/ QueueMoved \/ QueueDeleted \/ QueueCleared

TopicGoesOn == TopicAttached \/ TopicSaved

Next ==
    \/ WorkerStarts \/ WorkerGoesOn \/ PromptFails \/ AttachFails
    \/ TopicOn \/ TopicOff \/ TopicGoesOn \/ TopicAttachFails
    \/ TakeEvent
    \/ \E task \in Tasks : DrainStep(task) \/ Journaled(task)
    \/ \E s \in Sessions : TurnEnds(s) \/ ForeignTurn(s)
    \/ Restart

Spec == Init /\ [][Next]_vars

(***************************************************************************)
(* Fairness of everything the program itself carries on: the event loop,   *)
(* SQLite, and backends that answer and finish their turns.  Owners,       *)
(* topics, foreign turns, failures and restarts owe nothing.               *)
(***************************************************************************)
Fairness ==
    /\ WF_vars(WorkerGoesOn) /\ WF_vars(TopicGoesOn) /\ WF_vars(TakeEvent)
    /\ \A task \in Tasks :
          WF_vars(DrainList(task) \/ DrainSent(task) \/ DrainDelete(task) \/ Journaled(task))
    /\ \A s \in Sessions : WF_vars(TurnEnds(s))

FairSpec == Spec /\ Fairness
-----------------------------------------------------------------------------
Events == [kind : {"started", "idle", "done"}, sid : Sessions]

\* Type invariant; a task is in the lock's queue exactly while it awaits the
\* store, and only once.
TypeOK ==
    /\ lastGen \in 0..MaxTopics /\ activation \in 0..lastGen
    /\ binding \in {Unbound} \cup [sid : Sessions, obj : Identities]
    /\ busy \in BOOLEAN
    /\ attaching \in Sessions \cup {NoSession}
    /\ saved \in Sessions \cup {NoSession}
    /\ Queue!TypeOK
    /\ deferred \in Seq(Events) /\ todo \in Seq(Events) /\ events \in Seq(Events)
    /\ turns \in [Sessions -> Seq(Prompts \cup {Foreign})]
    /\ \A i, j \in DOMAIN lockq : lockq[i] = lockq[j] => i = j
    /\ {lockq[i] : i \in DOMAIN lockq} =
         {t \in Tasks : at[t].pc \notin {"idle", "send", "prompt", "attach"}}
    /\ discarded \subseteq Prompts /\ queued \subseteq Prompts

\* No task is in the middle of anything.
AtRest == \A t \in Tasks : Ready(t)

\* "Queues are ... durable": a prompt that was queued is still in the queue
\* table until the backend has accepted it or its owner has removed it, through
\* failed sends, rebinding, suspension and restarts.
NothingLost ==
    \A p \in queued : Queue!Known(p) \/ sent[p] > 0 \/ p \in discarded

\* "Queues are ... ordered": without queue.move, a queued prompt is delivered
\* only after everything that was ahead of it, also across restarts and when
\* two tasks drain at once.
DeliveredInOrder ==
    \A p \in queued : sent[p] > 0 =>
        \A q \in ahead[p] : sent[q] > 0 \/ q \in discarded

\* "Topic suspension pauses queue draining", and a queued prompt does not drain
\* into a replacement binding: a drain calls the backend only while the channel
\* is active and bound to the session whose queue it read.
DrainsOnlyBoundAndActive ==
    [][\A t \in Tasks :
         at'[t].pc = "send" /\ at[t].pc # "send" =>
             activation # 0 /\ at'[t].sid = binding.sid]_vars

\* When neither the worker nor the topic handler is under way, the durable
\* binding is the one in memory, so a restart restores what was last bound.
BindingIsSaved ==
    Ready("worker") /\ Ready("topic") => saved = binding.sid

\* Once the events are consumed, an active channel believes its session busy
\* exactly when a turn is running in it.
BusyIsHonest ==
    AtRest /\ events = << >> /\ activation # 0 /\ binding # Unbound =>
        (busy <=> Running(binding.sid))

\* "Claim delivery before awaiting so completion and close recovery cannot both
\* dispatch the same queue head": no prompt is accepted by the backend twice.
SentOnce == \A p \in Prompts : sent[p] <= 1

\* "A busy prompt queues": the bridge does not start a turn in a session while
\* one it started there earlier is still running.
OneTurnAtATime ==
    \A s \in Sessions : Cardinality({i \in DOMAIN turns[s] : turns[s][i] # Foreign}) <= 1

\* No task waits for the store, the backend or another task for ever.
TasksComeToRest == \A t \in Tasks : []<>Ready(t)

\* Each prompt starts one turn, and turns of this bridge do not overlap.
OneByOne == TypeOK /\ SentOnce /\ OneTurnAtATime
=============================================================================
