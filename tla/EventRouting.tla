---------------------------- MODULE EventRouting ----------------------------
(***************************************************************************)
(* Which channel hears of a session (bridge.py, _backend_loop and          *)
(* _channel_for): several channels of one backend, each with a worker that *)
(* attaches and detaches, and one loop that hands out what happens.        *)
(*                                                                         *)
(* The events of a turn go to one channel, the first that is bound to the  *)
(* session, attaches it, or ever was bound to it.  Statuses go to all.     *)
(* Claude and OpenCode report turns only; Codex, Pi and OMP statuses too.  *)
(* OpenCode's turns are journaled.                                         *)
(*                                                                         *)
(* An event is handled by the loop, or deferred and handled by the worker  *)
(* that attaches.  A handler gives way where a turn is journaled, and at   *)
(* its end where the queue is looked at for a prompt: there the channel is *)
(* busy meanwhile, and no prompt is found here.                            *)
(*                                                                         *)
(* Configured channels come first, and stay; managed ones are bound to the *)
(* session they were created with.  How they come and go over IRC is in    *)
(* IrcLink, prompts and what the drain sends are in ChannelTurns.          *)
(***************************************************************************)
EXTENDS Naturals, Sequences, SequencesExt

CONSTANTS
    Static,      \* config.irc.channels of the backend, in their order
    Managed,     \* channels that may be created
    Sessions,
    MaxTurns,    \* bound: turns begun
    MaxActions   \* bound: attach and detach actions

NoSession == "no session"
Loop      == "the backend's loop"
Channels  == ToSet(Static) \union Managed
RoutingBounds ==
    /\ Static \in Seq(ToSet(Static)) /\ IsInjective(Static)
    /\ ToSet(Static) \intersect Managed = {} /\ Loop \notin Channels
    /\ NoSession \notin Sessions /\ {MaxTurns, MaxActions} \subseteq Nat

VARIABLES
    backend,    \* "claude", "opencode", or "codex" for those with statuses
    running,    \* external: the sessions that run a turn
    born,       \* external: the sessions there are
    events,     \* Backend.events() not yet consumed
    order,      \* Bridge.channels
    binding,    \* runtime.binding
    observed,   \* runtime.observed_sessions
    busy,       \* runtime.busy
    attaching,  \* runtime.attaching_session
    deferred,   \* runtime.deferred_events, then those left to replay
    worker,     \* what the action worker awaits, and summary.busy
    handling,   \* what the handlers of the loop and of replays await
    begun,      \* turns begun so far
    actions,    \* attach and detach actions so far
    lost,       \* history: who discarded deferred events, and of which session
    crossed     \* history: who heard of a turn while an older event was handled

session == <<backend, running, born, begun>>
handlers == <<handling, crossed>>
vars == <<session, events, order, binding, observed, busy, attaching, deferred, worker,
          handlers, actions, lost>>

Reports  == backend = "codex"
Journals == backend = "opencode"
Rest == [pc |-> "idle", busy |-> FALSE]
Done == [on |-> NoSession, awaits |-> "nothing"]

\* _restore_bindings: channels come up with the bindings they had.
Init ==
    /\ backend \in {"claude", "opencode", "codex"} /\ running = {} /\ born \in SUBSET Sessions
    /\ events = << >> /\ order = Static
    /\ binding \in [Channels -> born \union {NoSession}]
    /\ \A m \in Managed : binding[m] = NoSession
    /\ observed = [c \in Channels |-> {binding[c]} \ {NoSession}]
    /\ busy = [c \in Channels |-> FALSE]
    /\ attaching = [c \in Channels |-> NoSession]
    /\ deferred = [c \in Channels |-> << >>] /\ worker = [c \in Channels |-> Rest]
    /\ handling = [a \in Channels \union {Loop} |-> Done]
    /\ begun = 0 /\ actions = 0 /\ lost = {} /\ crossed = {}
-----------------------------------------------------------------------------
(* Sessions run turns, and the backend says so                             *)

Told(s, run) ==
    LET turn   == [kind |-> "turn", sid |-> s, busy |-> run]
        status == [kind |-> "status", sid |-> s, busy |-> run]
    IN  IF Reports THEN <<turn, status>> ELSE <<turn>>

Begin(s) ==
    /\ s \in born \ running /\ begun < MaxTurns /\ begun' = begun + 1
    /\ running' = running \union {s} /\ events' = events \o Told(s, TRUE)
    /\ UNCHANGED <<backend, born, order, binding, observed, busy, attaching, deferred,
                   worker, handlers, actions, lost>>

End(s) ==
    /\ s \in running /\ running' = running \ {s}
    /\ events' = events \o Told(s, FALSE)
    /\ UNCHANGED <<backend, born, begun, order, binding, observed, busy, attaching,
                   deferred, worker, handlers, actions, lost>>
-----------------------------------------------------------------------------
(* _backend_loop                                                           *)

\* Mutant of Concerned: a session that is being attached is nobody's yet.
ConcernedOnceBound(c, s) == binding[c] = s \/ s \in observed[c]

Concerned(c, s) == binding[c] = s \/ attaching[c] = s \/ s \in observed[c]

\* _channel_for: the first of them.
ChannelFor(s) ==
    {order[i] : i \in {k \in DOMAIN order :
        Concerned(order[k], s) /\ \A j \in DOMAIN order : Concerned(order[j], s) => k <= j}}

\* Mutant of Reached: a status goes where turns go.
ReachedFirst(e) == ChannelFor(e.sid)

\* Statuses reach every channel of the backend.
Reached(e) == IF e.kind = "status" THEN ToSet(order) ELSE ChannelFor(e.sid)

\* What the handler of an event does next: it journals a turn, or at its end
\* looks at the queue, whose head it claims by a busy channel.
Drains(e) == e.kind = "turn" /\ ~e.busy /\ ~Journals
Heard(e)  == e.busy \/ Drains(e)
Awaits(c, e) ==
    IF e.kind = "turn" /\ Journals
    THEN [on |-> c, awaits |-> IF e.busy THEN "begun" ELSE "ended"]
    ELSE IF Drains(e) THEN [on |-> c, awaits |-> "queue"] ELSE Done

\* A handler that is under way on a channel, and will set its busy flag.
Underway(a, c) == handling[a].on = c /\ handling[a].awaits \in {"ended", "queue"}
\* A newer event overtakes what the worker has left to handle.
Overtakes(c) == deferred[c] # << >> \/ Underway(c, c)

\* _handle_backend_event, for each channel reached.
TakeEvent ==
    /\ events # << >> /\ handling[Loop] = Done /\ events' = Tail(events)
    /\ LET e == Head(events)
           defers(c) == c \in Reached(e) /\ attaching[c] = e.sid
           hears(c)  == c \in Reached(e) /\ attaching[c] # e.sid /\ binding[c] = e.sid
       IN  /\ deferred' = [c \in Channels |->
                IF defers(c) THEN Append(deferred[c], e) ELSE deferred[c]]
           /\ busy' = [c \in Channels |-> IF hears(c) THEN Heard(e) ELSE busy[c]]
           /\ handling' = [handling EXCEPT ![Loop] =
                IF e.kind = "turn" /\ \E c \in Channels : hears(c)
                THEN Awaits(CHOOSE c \in Channels : hears(c), e) ELSE Done]
           /\ crossed' = (crossed \ {c \in Channels : hears(c)})
                           \union {c \in Channels : hears(c) /\ Overtakes(c)}
    /\ UNCHANGED <<session, order, binding, observed, attaching, worker, actions, lost>>

\* The journal has the turn.  At its end the queue is looked at, if the channel
\* is idle: whatever session it is bound to by now.
Journaled(a) ==
    /\ handling[a].awaits \in {"begun", "ended"}
    /\ LET c == handling[a].on
           drains == handling[a].awaits = "ended" /\ binding[c] # NoSession /\ ~busy[c]
       IN  /\ handling' = [handling EXCEPT ![a] =
                             IF drains THEN [on |-> c, awaits |-> "queue"] ELSE Done]
           /\ busy' = [busy EXCEPT ![c] = @ \/ drains]
    /\ UNCHANGED <<session, events, order, binding, observed, attaching, deferred, worker,
                   actions, lost, crossed>>

\* _drain_queue finds no prompt, and lets go of what it has claimed, unless the
\* channel was bound anew.
Drained(a) ==
    /\ handling[a].awaits \in {"queue", "void"}
    /\ handling' = [handling EXCEPT ![a] = Done]
    /\ busy' = [c \in Channels |->
                  busy[c] /\ ~(handling[a].awaits = "queue" /\ c = handling[a].on)]
    /\ UNCHANGED <<session, events, order, binding, observed, attaching, deferred, worker,
                   actions, lost, crossed>>

\* A channel is bound anew: "runtime.binding is binding" fails for who waits.
Rebound(c) ==
    /\ handling' = [a \in DOMAIN handling |->
         IF handling[a] = [on |-> c, awaits |-> "queue"]
         THEN [handling[a] EXCEPT !.awaits = "void"] ELSE handling[a]]
    /\ crossed' = crossed \ {c}
-----------------------------------------------------------------------------
(* The channels' action workers                                            *)

\* _action_attach, which a managed channel refuses.
Attach(c, s) ==
    /\ c \in ToSet(Static) /\ worker[c] = Rest /\ s \in born
    /\ actions < MaxActions /\ actions' = actions + 1
    /\ worker' = [worker EXCEPT ![c].pc = "attach"]
    /\ attaching' = [attaching EXCEPT ![c] = s]
    /\ deferred' = [deferred EXCEPT ![c] = << >>]
    /\ UNCHANGED <<session, events, order, binding, observed, busy, handlers, lost>>

\* The backend answers, and the answer comes later.
Summary(c) ==
    /\ worker[c].pc = "attach"
    /\ worker' = [worker EXCEPT ![c] = [pc |-> "summary", busy |-> attaching[c] \in running]]
    /\ UNCHANGED <<session, events, order, binding, observed, busy, attaching, deferred,
                   handlers, actions, lost>>

AttachFails(c) ==
    /\ worker[c].pc \in {"attach", "summary"} /\ worker' = [worker EXCEPT ![c] = Rest]
    /\ attaching' = [attaching EXCEPT ![c] = NoSession]
    /\ deferred' = [deferred EXCEPT ![c] = << >>]
    /\ lost' = IF deferred[c] = << >> THEN lost ELSE lost \union {<<c, attaching[c]>>}
    /\ UNCHANGED <<session, events, order, binding, observed, busy, handlers, actions>>

\* _set_binding: both sessions are observed from now on.
Observing(c, s) ==
    observed' = [observed EXCEPT ![c] = @ \union ({binding[c], s} \ {NoSession})]

Attached(c) ==
    /\ worker[c].pc = "summary" /\ worker' = [worker EXCEPT ![c].pc = "save"]
    /\ Observing(c, attaching[c])
    /\ binding' = [binding EXCEPT ![c] = attaching[c]]
    /\ busy' = [busy EXCEPT ![c] = worker[c].busy] /\ Rebound(c)
    /\ UNCHANGED <<session, events, order, attaching, deferred, actions, lost>>

\* The binding is saved: events of the session are handled again as they come,
\* and those deferred are handled one by one.
Saved(c) ==
    /\ worker[c].pc = "save" /\ worker' = [worker EXCEPT ![c].pc = "replay"]
    /\ attaching' = [attaching EXCEPT ![c] = NoSession]
    /\ UNCHANGED <<session, events, order, binding, observed, busy, deferred, handlers,
                   actions, lost>>

\* Mutant of Replayed: what was deferred is dropped once the session is bound.
ReplayedNot(c, e) == UNCHANGED <<busy, handlers>>

\* _handle_backend_event of a deferred event.
Replayed(c, e) ==
    /\ busy' = [busy EXCEPT ![c] = Heard(e)]
    /\ handling' = [handling EXCEPT ![c] = Awaits(c, e)]
    /\ crossed' = IF Underway(Loop, c) THEN crossed \union {c} ELSE crossed

Replay(c) ==
    /\ worker[c].pc = "replay" /\ handling[c] = Done /\ deferred[c] # << >>
    /\ Replayed(c, Head(deferred[c])) /\ deferred' = [deferred EXCEPT ![c] = Tail(@)]
    /\ UNCHANGED <<session, events, order, binding, observed, attaching, worker, actions,
                   lost>>

AttachEnds(c) ==
    /\ worker[c].pc = "replay" /\ handling[c] = Done /\ deferred[c] = << >>
    /\ worker' = [worker EXCEPT ![c] = Rest]
    /\ UNCHANGED <<session, events, order, binding, observed, busy, attaching, deferred,
                   handlers, actions, lost>>

\* _action_detach, which a managed channel refuses.
Detach(c) ==
    /\ c \in ToSet(Static) /\ worker[c] = Rest /\ binding[c] # NoSession
    /\ actions < MaxActions /\ actions' = actions + 1
    /\ binding' = [binding EXCEPT ![c] = NoSession]
    /\ busy' = [busy EXCEPT ![c] = FALSE] /\ Rebound(c)
    /\ UNCHANGED <<session, events, order, observed, attaching, deferred, worker, lost>>

\* _action_create: the channel is bound to a new session,
CreateHere(c, s) ==
    /\ c \in ToSet(Static) /\ worker[c] = Rest /\ s \in Sessions \ born
    /\ actions < MaxActions /\ actions' = actions + 1
    /\ born' = born \union {s} /\ Observing(c, s)
    /\ binding' = [binding EXCEPT ![c] = s] /\ busy' = [busy EXCEPT ![c] = FALSE]
    /\ Rebound(c)
    /\ UNCHANGED <<backend, running, begun, events, order, attaching, deferred, worker, lost>>

\* or, for Codex, Pi and OMP, a new channel that comes last.
Create(m, s) ==
    /\ Reports /\ m \in Managed \ ToSet(order) /\ observed[m] = {} /\ s \in Sessions \ born
    /\ born' = born \union {s} /\ order' = Append(order, m)
    /\ binding' = [binding EXCEPT ![m] = s] /\ observed' = [observed EXCEPT ![m] = {s}]
    /\ UNCHANGED <<backend, running, begun, events, busy, attaching, deferred, worker,
                   handlers, actions, lost>>

\* _action_close: the session ends its turn; it stays, for others.
Release(m) ==
    /\ m \in Managed /\ binding[m] # NoSession
    /\ running' = running \ {binding[m]}
    /\ events' = IF binding[m] \in running THEN events \o Told(binding[m], FALSE) ELSE events
    /\ binding' = [binding EXCEPT ![m] = NoSession] /\ busy' = [busy EXCEPT ![m] = FALSE]
    /\ Rebound(m)
    /\ UNCHANGED <<backend, born, begun, order, observed, attaching, deferred, worker,
                   actions, lost>>

\* _finish_channel_close and _remove_channel, at once or later.
RemoveChannel(m) ==
    /\ m \in Managed \intersect ToSet(order) /\ binding[m] = NoSession
    /\ \E i \in DOMAIN order : order[i] = m /\ order' = RemoveAt(order, i)
    /\ UNCHANGED <<session, events, binding, observed, busy, attaching, deferred, worker,
                   handlers, actions, lost>>
-----------------------------------------------------------------------------
\* A worker that replays gives way only where a handler awaits something.
Replaying(c) == worker[c].pc = "replay" /\ handling[c] = Done

Others ==
    \/ TakeEvent \/ (\E a \in Channels \union {Loop} : Journaled(a) \/ Drained(a))
    \/ \E s \in Sessions : Begin(s) \/ End(s) \/ (\E m \in Managed : Create(m, s))
                             \/ (\E c \in Channels : CreateHere(c, s))
    \/ \E c \in Channels :
        \/ (\E s \in Sessions : Attach(c, s))
        \/ Summary(c) \/ AttachFails(c) \/ Attached(c) \/ Saved(c)
        \/ Detach(c) \/ Release(c) \/ RemoveChannel(c)

Next ==
    \/ \E c \in Channels : Replay(c) \/ AttachEnds(c)
    \/ (\A c \in Channels : ~Replaying(c)) /\ Others

Spec == Init /\ [][Next]_vars
-----------------------------------------------------------------------------
TypeOK ==
    /\ running \subseteq born /\ ToSet(Static) \subseteq ToSet(order)
    /\ \A c \in Channels :
        /\ binding[c] \in born \union {NoSession} /\ observed[c] \subseteq born
        /\ attaching[c] # NoSession <=> worker[c].pc \in {"attach", "summary", "save"}
        /\ deferred[c] # << >> => worker[c] # Rest
        /\ \A i \in DOMAIN deferred[c] : deferred[c][i].sid =
             IF worker[c].pc = "replay" THEN binding[c] ELSE attaching[c]

Quiet ==
    /\ events = << >> /\ handling[Loop] = Done
    /\ \A c \in Channels : worker[c] = Rest

\* No channel before this one has had anything to do with the session.
Foremost(c, s) ==
    \A d \in Channels : d # c /\ s \in observed[d] \union {binding[d]} =>
        \E i, j \in DOMAIN order : i < j /\ order[i] = c /\ order[j] = d

\* A channel knows whether its session runs a turn, through the attaches and
\* failed attaches of every channel: if it is the first the session has had to
\* do with, from the turns; and where the backend reports statuses, always.
\* What it does not know is what it heard last while an older event was being
\* replayed: the older one may then have been the last to set the flag.
HearsItsSession ==
    Quiet => \A c \in Channels \ crossed : LET s == binding[c] IN
        s # NoSession /\ \/ Foremost(c, s) /\ \A d \in Channels : <<d, s>> \notin lost
                         \/ Reports /\ <<c, s>> \notin lost
        => busy[c] = (s \in running)

\* What the bridge hears of sessions is routed where it is waited for.
RoutingIsTrue == TypeOK /\ HearsItsSession
=============================================================================
