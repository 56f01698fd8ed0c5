---------------------------- MODULE SessionStatus ----------------------------
(***************************************************************************)
(* What a channel tells its clients about sessions (bridge.py), and what a *)
(* client makes of it (reference_client.py): the status of the bound       *)
(* session and of the others, and the subagents of the bound one.          *)
(*                                                                         *)
(* Statuses of other sessions, and subagent lists, are coalesced: one that *)
(* changes again within the window waits for a task that publishes it when *)
(* the window closes.  Time is only the order of those closings.           *)
(*                                                                         *)
(* Events of a session being attached are deferred, and handled one by one *)
(* once it is.  Turn events, which are in ChannelTurns, may stand anywhere *)
(* among them, and the handler of a turn's end awaits the queue: meanwhile *)
(* newer events are handled.                                               *)
(*                                                                         *)
(* Messages reach the client in the order they are published (IrcLink), so *)
(* it reads each at once.                                                  *)
(***************************************************************************)
EXTENDS Naturals, Sequences, FiniteSets

CONSTANTS
    Sessions,    \* sessions of the channel's backend
    Lists,       \* subagent lists, the empty one among them
    MaxChanges,  \* bound: changes of a status or a list
    MaxActions   \* bound: attach and detach actions

Statuses  == {"idle", "running", "waiting"}   \* busy and flags of an event
NoSession == "no session"
Nothing   == "nothing"
NoAgents  == "no agents"                      \* the empty list
StatusBounds ==
    /\ {MaxChanges, MaxActions} \subseteq Nat /\ NoAgents \in Lists
    /\ Nothing \notin Lists /\ NoSession \notin Sessions

VARIABLES
    status,     \* each session's own status
    changes,    \* changes so far
    events,     \* Backend.events() not yet consumed
    binding,    \* runtime.binding
    busy,       \* runtime.busy
    deferred,   \* runtime.deferred_events, then those left to replay
    worker,     \* the action under way: what it awaits, session, summary.busy
    actions,    \* attach and detach actions so far
    observed,   \* runtime.observed_status: what was published, within the window
    held,       \* runtime.observed_status_pending
    listed,     \* runtime.subagents, likewise
    heldList,   \* runtime.subagents_pending
    client,     \* HarnessState; synced: its sync.request was answered; whole: it
                \* has been there since the binding changed
    published,  \* history: the last session.status of each session
    due,        \* history: the last list reported of the binding's session
    coming,     \* history: and of the session being attached
    crossed,    \* history: the kinds of event of which a newer one of the
                \* session was handled before an older one
    touched,    \* history: sessions an attach has named
    overtaken,  \* history: the binding was set with a status of its session held
    lost        \* history: sessions whose deferred events were discarded, since
                \* they were attached

session == <<status, changes>>
actor   == <<binding, deferred, worker, actions>>
coalescer == <<observed, held>>
lists   == <<listed, heldList>>
heard   == <<due, coming, crossed>>
marks   == <<touched, overtaken, lost>>
vars == <<session, events, actor, busy, coalescer, lists, heard, client, published, marks>>

Rest   == [pc |-> "idle", sid |-> NoSession, busy |-> FALSE]
Never  == [seen |-> Nothing, recent |-> FALSE]
Absent == [on |-> FALSE, synced |-> FALSE, whole |-> FALSE,
           sid |-> NoSession, busy |-> FALSE, agents |-> NoAgents]
Running(s) == status[s] # "idle"
Attaching(s) == worker.pc \in {"attach", "summary", "save", "list"} /\ worker.sid = s

Init ==
    /\ status = [s \in Sessions |-> "idle"] /\ changes = 0 /\ events = << >>
    /\ binding = NoSession /\ busy = FALSE /\ deferred = << >>
    /\ worker = Rest /\ actions = 0
    /\ observed = [s \in Sessions |-> Never] /\ held = [s \in Sessions |-> Nothing]
    /\ listed = Never /\ heldList = Nothing
    /\ client = Absent
    /\ published = [s \in Sessions |-> Nothing]
    /\ due = NoAgents /\ coming = NoAgents /\ crossed = {}
    /\ touched = {} /\ overtaken = FALSE /\ lost = {}
-----------------------------------------------------------------------------
(* The client: HarnessState.apply, for each message                        *)

Reset(c) == [c EXCEPT !.busy = FALSE, !.agents = NoAgents]
ReadChanged(c, s) == Reset([c EXCEPT !.sid = s, !.whole = c.on])
ReadBusy(c, s, b) == IF c.on /\ c.sid = s THEN [c EXCEPT !.busy = b] ELSE c
ReadAgents(c, s, list) == IF c.on /\ c.sid = s THEN [c EXCEPT !.agents = list] ELSE c
ReadSnapshot(c, s, b) ==
    LET now == IF c.sid = s THEN c ELSE Reset(c)
    IN  IF c.on THEN [now EXCEPT !.sid = s, !.busy = b, !.synced = TRUE] ELSE c

\* A client connects afresh; one that leaves forgets everything.
Join ==
    /\ client' = [Absent EXCEPT !.on = ~client.on]
    /\ UNCHANGED <<session, events, actor, busy, coalescer, lists, heard, published,
                   marks>>
-----------------------------------------------------------------------------
(* Sessions change, and the backend says so                                *)

Report(e) ==
    /\ changes < MaxChanges /\ changes' = changes + 1
    /\ events' = Append(events, e)
    /\ UNCHANGED <<actor, busy, coalescer, lists, heard, client, published, marks>>

StatusChanges ==
    \E s \in Sessions, v \in Statuses :
        /\ v # status[s] /\ status' = [status EXCEPT ![s] = v]
        /\ Report([kind |-> "status", sid |-> s, value |-> v])

ListChanges ==
    \E s \in Sessions, list \in Lists :
        Report([kind |-> "agents", sid |-> s, value |-> list]) /\ UNCHANGED status
-----------------------------------------------------------------------------
(* What is done with a change: publish, hold until the window closes, or   *)
(* neither.  Was is what was published last, wait what is held.            *)

Visible(was, wait) == IF wait # Nothing THEN wait ELSE was.seen

\* Mutant of HeldAfter: what cancels itself out stays held.
HeldAfterKeeping(v, was, wait) ==
    IF v = Visible(was, wait) \/ was.seen = v THEN wait
    ELSE IF wait # Nothing \/ was.recent THEN v
    ELSE Nothing

\* The change cancels itself out, replaces what is held, is held, or goes out.
HeldAfter(v, was, wait) ==
    IF v = Visible(was, wait) THEN wait
    ELSE IF wait # Nothing THEN (IF was.seen = v THEN Nothing ELSE v)
    ELSE IF was.recent THEN v
    ELSE Nothing

Publishes(v, was, wait) == v # Visible(was, wait) /\ wait = Nothing /\ ~was.recent

EmitStatus(s, v) ==
    /\ published' = [published EXCEPT ![s] = v]
    /\ client' = ReadBusy(client, s, v # "idle")

\* _emit_observed_status
ObserveStatus(s, v) ==
    /\ held' = [held EXCEPT ![s] = HeldAfter(v, observed[s], held[s])]
    /\ IF Publishes(v, observed[s], held[s])
       THEN /\ observed' = [observed EXCEPT ![s] = [seen |-> v, recent |-> TRUE]]
            /\ EmitStatus(s, v)
       ELSE UNCHANGED <<observed, published, client>>
    /\ UNCHANGED <<busy, lists>>

\* _emit_subagents
ObserveList(s, v) ==
    /\ heldList' = HeldAfter(v, listed, heldList)
    /\ IF Publishes(v, listed, heldList)
       THEN /\ listed' = [seen |-> v, recent |-> TRUE]
            /\ client' = ReadAgents(client, s, v)
       ELSE UNCHANGED <<listed, client>>
    /\ UNCHANGED <<busy, coalescer, published>>

\* _handle_backend_event, of a session that is not being attached.
Handle(e) ==
    \/ /\ e.kind = "status" /\ e.sid = binding
       /\ busy' = (e.value # "idle")
       /\ EmitStatus(e.sid, e.value) /\ UNCHANGED <<coalescer, lists>>
    \/ e.kind = "status" /\ e.sid # binding /\ ObserveStatus(e.sid, e.value)
    \/ e.kind = "agents" /\ e.sid = binding /\ ObserveList(e.sid, e.value)
    \/ /\ e.kind = "agents" /\ e.sid # binding
       /\ UNCHANGED <<busy, coalescer, lists, client, published>>

\* A newer event overtakes what the worker has left to handle.
Overtakes(e) == worker.pc = "replay" /\ \E i \in DOMAIN deferred : deferred[i].kind = e.kind

\* What is heard of the binding's session, and of the one being attached.
Hear(e) ==
    /\ due' = IF e.kind = "agents" /\ e.sid = binding /\ ~Attaching(e.sid) THEN e.value ELSE due
    /\ coming' = IF e.kind = "agents" /\ Attaching(e.sid) THEN e.value ELSE coming
    /\ crossed' = IF e.sid # binding \/ Attaching(e.sid) THEN crossed
                  ELSE IF Overtakes(e) THEN crossed \cup {e.kind} ELSE crossed \ {e.kind}

TakeEvent ==
    /\ events # << >> /\ events' = Tail(events)
    /\ IF Attaching(Head(events).sid)
       THEN /\ deferred' = Append(deferred, Head(events))
            /\ UNCHANGED <<busy, coalescer, lists, client, published>>
       ELSE Handle(Head(events)) /\ UNCHANGED deferred
    /\ Hear(Head(events))
    /\ UNCHANGED <<session, binding, worker, actions, marks>>

\* The window of a session closes: what is held goes out, and opens the next.
FlushStatus(s) ==
    /\ held[s] # Nothing
    /\ observed' = [observed EXCEPT ![s] = [seen |-> held[s], recent |-> TRUE]]
    /\ held' = [held EXCEPT ![s] = Nothing]
    /\ EmitStatus(s, held[s])
    /\ UNCHANGED <<session, events, actor, busy, lists, heard, marks>>

FlushList ==
    /\ heldList # Nothing
    /\ listed' = [seen |-> heldList, recent |-> TRUE] /\ heldList' = Nothing
    /\ client' = ReadAgents(client, binding, heldList)
    /\ UNCHANGED <<session, events, actor, busy, coalescer, heard, published, marks>>

WindowCloses ==
    /\ \/ \E s \in Sessions :
            /\ observed[s].recent /\ held[s] = Nothing
            /\ observed' = [observed EXCEPT ![s].recent = FALSE] /\ UNCHANGED listed
       \/ /\ listed.recent /\ heldList = Nothing
          /\ listed' = [listed EXCEPT !.recent = FALSE] /\ UNCHANGED observed
    /\ UNCHANGED <<session, events, actor, busy, held, heldList, heard, client, published,
                   marks>>
-----------------------------------------------------------------------------
(* The serial action worker                                                *)

Goes(pc) == worker' = [worker EXCEPT !.pc = pc]
Begins(frame) == worker = Rest /\ worker' = frame

\* _action_attach, up to its first await.
Attach(s) ==
    /\ actions < MaxActions /\ actions' = actions + 1
    /\ Begins([Rest EXCEPT !.pc = "attach", !.sid = s])
    /\ deferred' = << >> /\ coming' = NoAgents /\ touched' = touched \cup {s}
    /\ UNCHANGED <<session, events, binding, busy, coalescer, lists, due, crossed, client,
                   published, overtaken, lost>>

\* The backend looks the session up, and its answer comes back later.
Summary ==
    /\ worker.pc = "attach"
    /\ worker' = [worker EXCEPT !.pc = "summary", !.busy = Running(worker.sid)]
    /\ UNCHANGED <<session, events, binding, deferred, actions, busy, coalescer, lists,
                   heard, client, published, marks>>

AttachFails ==
    /\ worker.pc \in {"attach", "summary"} /\ worker' = Rest
    /\ deferred' = << >>
    /\ lost' = IF deferred = << >> THEN lost ELSE lost \cup {worker.sid}
    /\ UNCHANGED <<session, events, binding, actions, busy, coalescer, lists, heard,
                   client, published, touched, overtaken>>

\* Mutant of ResetSubagents: the reading is kept.
ResetSubagentsHeldOnly == heldList' = Nothing /\ UNCHANGED listed

\* _reset_subagents: the held list is cancelled, the reading forgotten.
ResetSubagents == listed' = Never /\ heldList' = Nothing

\* _set_binding: the binding in memory, then its row.
Attached ==
    /\ worker.pc = "summary" /\ Goes("save")
    /\ binding' = worker.sid /\ busy' = worker.busy
    /\ ResetSubagents
    /\ due' = NoAgents /\ crossed' = {}
    /\ overtaken' = (held[worker.sid] # Nothing) /\ lost' = lost \ {worker.sid}
    /\ UNCHANGED <<session, events, deferred, actions, coalescer, coming, client, published,
                   touched>>

\* binding.changed and session.snapshot, then the queue is listed.
Saved ==
    /\ worker.pc = "save" /\ Goes("list")
    /\ client' = ReadBusy(ReadChanged(client, worker.sid), worker.sid, worker.busy)
    /\ UNCHANGED <<session, events, binding, deferred, actions, busy, coalescer, lists,
                   heard, published, marks>>

\* channel.snapshot; from now on the session's events are handled as they come.
Snapshot ==
    /\ worker.pc = "list" /\ Goes("replay")
    /\ client' = ReadSnapshot(client, binding, busy) /\ due' = coming
    /\ UNCHANGED <<session, events, binding, deferred, actions, busy, coalescer, lists,
                   coming, crossed, published, marks>>

\* One by one, those that were deferred.
Replay ==
    /\ worker.pc = "replay"
    /\ IF deferred = << >>
       THEN /\ worker' = Rest
            /\ UNCHANGED <<deferred, busy, coalescer, lists, client, published>>
       ELSE Handle(Head(deferred)) /\ deferred' = Tail(deferred) /\ UNCHANGED worker
    /\ UNCHANGED <<session, events, binding, actions, heard, marks>>

\* _action_detach, and what it says once the row is gone.
Detach ==
    /\ actions < MaxActions /\ actions' = actions + 1
    /\ binding # NoSession /\ Begins([Rest EXCEPT !.pc = "detach"])
    /\ binding' = NoSession /\ busy' = FALSE /\ ResetSubagents /\ overtaken' = FALSE
    /\ due' = NoAgents /\ crossed' = {}
    /\ UNCHANGED <<session, events, deferred, coalescer, coming, client, published, touched,
                   lost>>

Detached ==
    /\ worker.pc = "detach" /\ worker' = Rest
    /\ client' = ReadChanged(client, NoSession)
    /\ UNCHANGED <<session, events, binding, deferred, actions, busy, coalescer, lists,
                   heard, published, marks>>

\* _action_sync for the client that asked.
Sync ==
    /\ client.on /\ ~client.synced /\ Begins([Rest EXCEPT !.pc = "sync"])
    /\ UNCHANGED <<session, events, binding, deferred, actions, busy, coalescer, lists,
                   heard, client, published, marks>>

Synced ==
    /\ worker.pc = "sync" /\ worker' = Rest
    /\ client' = ReadSnapshot(client, binding, busy)
    /\ UNCHANGED <<session, events, binding, deferred, actions, busy, coalescer, lists,
                   heard, published, marks>>
-----------------------------------------------------------------------------
Next ==
    \/ Join \/ StatusChanges \/ ListChanges \/ TakeEvent
    \/ (\E s \in Sessions : FlushStatus(s) \/ Attach(s)) \/ FlushList \/ WindowCloses
    \/ Summary \/ AttachFails \/ Attached \/ Saved \/ Snapshot \/ Replay
    \/ Detach \/ Detached \/ Sync \/ Synced

Spec == Init /\ [][Next]_vars
-----------------------------------------------------------------------------
TypeOK ==
    /\ status \in [Sessions -> Statuses] /\ changes \in 0..MaxChanges
    /\ binding \in Sessions \cup {NoSession} /\ busy \in BOOLEAN
    /\ held \in [Sessions -> Statuses \cup {Nothing}]
    /\ published \in [Sessions -> Statuses \cup {Nothing}]
    /\ client.sid \in Sessions \cup {NoSession}
    /\ deferred # << >> => worker.pc \in {"attach", "summary", "save", "list", "replay"}

\* Every event is handled, and nothing waits for a window to close.
Quiet ==
    /\ worker = Rest /\ events = << >>
    /\ \A s \in Sessions : held[s] = Nothing
    /\ heldList = Nothing

\* "Suppressing unchanged payloads and always delivering the newest state once
\* the window closes": the last status published of a session that was never
\* attached is its own.
DrawerIsNewest ==
    Quiet => \A s \in Sessions \ touched :
        published[s] = status[s] \/ (published[s] = Nothing /\ ~Running(s))

\* A client that has synchronised shows the bound session, and shows it busy
\* exactly when it is, through attach, detach and what they defer.  (A status
\* held since before the binding, one that overtook another while that was to be
\* replayed, and events lost with a failed attach, are told apart.)
BusyShownIsTrue ==
    Quiet /\ client.synced =>
        /\ client.sid = binding
        /\ binding \in Sessions \ lost /\ ~overtaken /\ "status" \notin crossed =>
             client.busy = Running(binding)

\* What a client is shown of sessions is what they are.
StatusShownIsNewest == TypeOK /\ DrawerIsNewest /\ BusyShownIsTrue

\* "An empty list means no agents are tracked", "delivering the newest one once
\* the window closes", and clients clear the list when the binding changes: a
\* client that saw the binding change shows the last list that came of that
\* session since its attach began.  (Told apart as above.)
AgentsShownAreNewest ==
    Quiet /\ client.whole /\ binding \in Sessions \ lost /\ "agents" \notin crossed =>
        client.agents = due

\* Without the first exception: "it carries liveness only and never touches the
\* channel's binding, busy flag, or timeline" of a status held for a session.
BusyIsNewest ==
    Quiet /\ client.synced /\ binding \in Sessions \ lost /\ "status" \notin crossed =>
        client.busy = Running(binding)
=============================================================================
