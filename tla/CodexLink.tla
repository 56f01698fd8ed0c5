----------------------------- MODULE CodexLink -----------------------------
(***************************************************************************)
(* The Codex backend (backends/codex.py): the websocket to the app-server  *)
(* with its lazy reconnect, the requests of the bridge's tasks, and what   *)
(* the backend knows of one thread: its running turn, its subagent, the    *)
(* prompts whose echo it expects, the approvals it may answer.             *)
(*                                                                         *)
(* The reader handles frames that are buffered together without giving up  *)
(* the event loop, so a task whose request was answered may resume only    *)
(* after the frames behind the answer have been handled.                   *)
(*                                                                         *)
(* External: the app-server, which keeps running when a connection ends    *)
(* and notifies a connection of a thread from the moment it resumed the    *)
(* thread there, and the user of a TUI that is attached to the thread.     *)
(***************************************************************************)
EXTENDS Integers, Sequences

CONSTANTS
    Texts,       \* what a prompt may say
    Retries,     \* _OVERLOAD_RETRIES
    MaxPrompts,  \* bound: prompts typed or sent
    MaxCalls,    \* bound: calls of the backend
    MaxTroubles, \* bound: connections that end or cannot be made, requests
                 \* that time out or are refused, echoes that expire
    MaxPipe      \* bound: frames buffered when the server adds one by itself

None == "none"
ASSUME CodexAssumption ==
    /\ None \notin Texts
    /\ {Retries, MaxPrompts, MaxCalls, MaxTroubles, MaxPipe} \subseteq Nat

VARIABLES
    thread,    \* external: the thread in the app-server
    prompts,   \* prompts typed or sent so far
    ran,       \* history: how often the server ran each prompt
    up, pipe,  \* requests and frames on their way over the connection
    link,      \* the connection: down, greeting (initialize), or up
    troubles,  \* what went wrong so far
    holder,    \* the task in start(), under _connect_lock
    ready,     \* _ready, and with it the event last put: (dis)connected
    at,        \* what each task is doing
    calls,     \* calls of the backend so far
    active,    \* _active_turns[thread], 0 for none
    child,     \* _subagents[thread]: the status of one subagent
    echoes,    \* _pending_prompt_echoes[thread], ordered by their prompts
    seen,      \* _seen_user_items[thread]
    requests,  \* _server_requests
    created,   \* the thread is in _created_threads
    debt,      \* history: prompts of others, less user_prompt events
    slipped,   \* history: texts whose echoes can no longer be told apart
    raced      \* history: what an answer told too late or to nobody: the turn,
               \* the child, that the thread is closed; or, "lost",
               \* that a connection ended

line   == <<up, pipe, link, troubles, holder, ready>>
view   == <<active, child, seen, requests, created>>
ledger == <<echoes, debt, slipped>>
server == <<thread, prompts, ran>>
vars   == <<server, line, at, calls, view, ledger, raced>>

\* The worker runs the actions of the channel and sends its prompts; another
\* task attaches the thread when the channel's topic or the connection changes.
Tasks == {"worker", "topic"}

Idle == [pc |-> "idle", op |-> None, n |-> 0, text |-> None,
         tries |-> 0, turn |-> 0, child |-> None, moved |-> {}]
Quiet == \A t \in Tasks : at[t] = Idle
Sends == {"send", "steer"}

\* What the server sends of the thread reaches only a subscribed connection.
Trouble == troubles < MaxTroubles /\ troubles' = troubles + 1

Notify(frames) == IF thread.subscribed THEN frames ELSE << >>

Init ==
    /\ \E tui \in BOOLEAN, habit \in {"asks", "delegates"} :
         thread = [turn |-> 0, child |-> None, ask |-> 0, asked |-> 0,
                   tui |-> tui, habit |-> habit, subscribed |-> FALSE]
    /\ prompts = 0 /\ ran = [n \in 1..MaxPrompts |-> 0]
    /\ up = << >> /\ pipe = << >> /\ link = "down" /\ troubles = 0
    /\ holder = None /\ ready = FALSE
    /\ at = [t \in Tasks |-> Idle] /\ calls = 0
    /\ active = 0 /\ child = None /\ seen = {} /\ requests = {}
    /\ created = TRUE
    /\ echoes = {} /\ debt = [x \in Texts |-> 0] /\ slipped = {}
    /\ raced = {}
-----------------------------------------------------------------------------
(* The app-server and the TUI (external)                                   *)

Outside == UNCHANGED <<up, link, troubles, holder, ready, at, calls, view, echoes, raced>>

\* A prompt is an item of its turn, started and then completed.
Item(n, x) == LET f == [kind |-> "item", n |-> n, text |-> x] IN <<f, f>>
TurnFrame(kind, n) == << [kind |-> kind, n |-> n] >>

Type(x) ==
    /\ thread.tui /\ prompts < MaxPrompts /\ Len(pipe) <= MaxPipe
    /\ prompts' = prompts + 1
    /\ LET n == prompts + 1
           opens == thread.turn = 0
       IN  /\ thread' = IF opens THEN [thread EXCEPT !.turn = n]
                                 ELSE thread
           /\ pipe' = pipe \o Notify((IF opens THEN TurnFrame("turn", n)
                                               ELSE << >>) \o Item(n, x))
    /\ debt' = IF thread.subscribed THEN [debt EXCEPT ![x] = @ + 1] ELSE debt
    /\ UNCHANGED <<ran, slipped>> /\ Outside

Delegate ==
    /\ thread.habit = "delegates"
    /\ thread.turn # 0 /\ thread.child # "completed" /\ Len(pipe) <= MaxPipe
    /\ LET st == IF thread.child = None THEN "started" ELSE "completed"
       IN  /\ thread' = [thread EXCEPT !.child = st]
           /\ pipe' = pipe \o Notify(<< [kind |-> "child", status |-> st] >>)
    /\ UNCHANGED <<prompts, ran, debt, slipped>> /\ Outside

\* The server asks for an approval, once; or the TUI's user gives it.
AskApproval ==
    /\ thread.habit = "asks"
    /\ thread.turn # 0 /\ thread.asked = 0 /\ thread.subscribed
    /\ Len(pipe) <= MaxPipe
    /\ thread' = [thread EXCEPT !.ask = 1, !.asked = 1]
    /\ pipe' = pipe \o TurnFrame("ask", 1)
    /\ UNCHANGED <<prompts, ran, debt, slipped>> /\ Outside

TuiApproves ==
    /\ thread.ask # 0 /\ thread.tui /\ Len(pipe) <= MaxPipe
    /\ thread' = [thread EXCEPT !.ask = 0]
    /\ pipe' = pipe \o Notify(TurnFrame("resolved", thread.ask))
    /\ UNCHANGED <<prompts, ran, debt, slipped>> /\ Outside

EndTurn ==
    /\ thread.turn # 0 /\ thread.ask = 0 /\ Len(pipe) <= MaxPipe
    /\ thread' = [thread EXCEPT !.turn = 0]
    /\ pipe' = pipe \o Notify(TurnFrame("done", thread.turn))
    /\ UNCHANGED <<prompts, ran, debt, slipped>> /\ Outside

Reply(t, kind) == << [kind |-> kind, to |-> t, turn |-> thread.turn,
                      child |-> thread.child] >>

\* What the server does with the oldest request.  A send starts a turn and a
\* steer joins one; the notifications may come before or after the answer.
Refuses(q) ==
    /\ pipe' = pipe \o Reply(q.by, "error")
    /\ IF q.op \in {"attach", "items", "unsubscribe"} THEN Trouble
                                                     ELSE UNCHANGED troubles
    /\ UNCHANGED <<thread, ran, slipped>>

\* A server that is overloaded may stay so.
Overloaded(q) ==
    /\ pipe' = pipe \o Reply(q.by, "overloaded")
    /\ IF q.by # None /\ at[q.by].tries > 0 THEN UNCHANGED troubles ELSE Trouble
    /\ UNCHANGED <<thread, ran, slipped>>

TakesPrompt(q) ==
    LET opens  == q.op = "send"
        turn   == IF opens THEN q.n ELSE thread.turn
        answer == << [kind |-> "result", to |-> q.by, turn |-> turn,
                      child |-> None] >>
        news   == Notify((IF opens THEN TurnFrame("turn", turn) ELSE << >>)
                         \o Item(q.n, q.text))
    IN  /\ IF opens THEN thread.turn = 0
                    ELSE thread.turn # 0 /\ q.turn = thread.turn
        /\ thread' = IF opens THEN [thread EXCEPT !.turn = turn]
                              ELSE thread
        /\ ran' = [ran EXCEPT ![q.n] = IF @ < 2 THEN @ + 1 ELSE @]
        /\ pipe' \in {pipe \o answer \o news, pipe \o news \o answer}
        /\ slipped' = IF thread.subscribed THEN slipped
                                           ELSE slipped \union {q.text}

TakesInterrupt(q) ==
    /\ thread.turn # 0 /\ q.turn = thread.turn
    /\ thread' = [thread EXCEPT !.turn = 0, !.ask = 0]
    /\ pipe' = pipe \o Reply(q.by, "result")
                    \o Notify((IF thread.ask # 0
                               THEN TurnFrame("resolved", thread.ask)
                               ELSE << >>) \o TurnFrame("done", thread.turn))
    /\ UNCHANGED <<ran, slipped>>

\* thread/resume, thread/items/list and thread/unsubscribe.
Takes(q) ==
    /\ thread' = IF q.op = "items" THEN thread
                 ELSE [thread EXCEPT !.subscribed = q.op = "attach"]
    /\ pipe' = pipe \o Reply(q.by, "result")
    /\ UNCHANGED <<ran, slipped>>

TakesApproval(q) ==
    /\ IF thread.ask = q.n
       THEN /\ thread' = [thread EXCEPT !.ask = 0]
            /\ pipe' = pipe \o Notify(TurnFrame("resolved", q.n))
       ELSE UNCHANGED <<thread, pipe>>
    /\ UNCHANGED <<ran, slipped>>

Accepts(q) ==
    \/ q.op \in Sends /\ TakesPrompt(q)
    \/ q.op \in {"cancel", "interrupt"} /\ TakesInterrupt(q)
    \/ q.op \in {"attach", "items", "unsubscribe"} /\ Takes(q)
    \/ q.op = "approve" /\ TakesApproval(q)

ServerTakes ==
    /\ up # << >> /\ up' = Tail(up)
    /\ LET q == Head(up) IN
       \/ Accepts(q) /\ UNCHANGED troubles
       \/ q.op # "approve" /\ (Refuses(q) \/ Overloaded(q))
    /\ UNCHANGED <<prompts, link, holder, ready, at, calls, view, echoes, debt,
                   raced>>
-----------------------------------------------------------------------------
(* The connection                                                          *)

Become(t, pc) == [at EXCEPT ![t].pc = pc]

\* _request_once on a live connection: the future is pending, the request sent.
Post(t, a) ==
    /\ at' = [at EXCEPT ![t] = [a EXCEPT !.pc = "asked"]]
    /\ up' = Append(up, [by |-> t, op |-> a.op, n |-> a.n, text |-> a.text,
                         turn |-> a.turn])

\* _request_once: with no live reader the task goes through start() first.
\* One that finds start() under way by another task, and its reader alive,
\* does not wait for the handshake.
Request(t, a) ==
    IF link # "down" THEN Post(t, a)
    ELSE /\ at' = [at EXCEPT ![t] = [a EXCEPT !.pc = "connecting"]]
         /\ UNCHANGED up

\* start(): a websocket, a new reader, and the initialize request.
Dial(t) ==
    /\ at[t].pc = "connecting" /\ holder \in {None, t} /\ link = "down"
    /\ holder' = t /\ link' = "greeting"
    /\ UNCHANGED <<calls, server, up, pipe, troubles, ready, at, view, ledger, raced>>

DialFails(t) ==
    /\ at[t].pc = "connecting" /\ holder \in {None, t} /\ link = "down"
    /\ Trouble /\ holder' = None /\ at' = Become(t, "failed")
    /\ UNCHANGED <<calls, server, up, pipe, link, ready, view, ledger, raced>>

\* The handshake is done; the task goes on to its own request at once.
Greeted(t) ==
    /\ at[t].pc = "connecting" /\ holder = t /\ link = "greeting"
    /\ holder' = None /\ link' = "up" /\ ready' = TRUE
    /\ Post(t, at[t])
    /\ UNCHANGED <<calls, server, pipe, troubles, view, ledger, raced>>

\* A task that waited for the lock finds the reader alive.
Connected(t) ==
    /\ at[t].pc = "connecting" /\ holder = None /\ link # "down"
    /\ Post(t, at[t])
    /\ UNCHANGED <<calls, server, pipe, link, troubles, holder, ready, view, ledger, raced>>

\* Answers that have come are behind what has been told since.
Overtake(a, what) == [t \in Tasks |-> IF a[t].pc = "answered"
                                      THEN [a[t] EXCEPT !.moved = @ \union what]
                                      ELSE a[t]]

\* Mutant of Failed: nobody is woken.
FailedNot == at

\* _fail_pending: every caller wakes with an error.
Failed == [t \in Tasks |-> IF at[t].pc = "asked"
                           THEN [at[t] EXCEPT !.pc = "failed"] ELSE at[t]]

\* The connection ends: the end of _reader.  Nothing clears what the backend
\* knows of the thread, or the requests the old connection asked.
Drop ==
    /\ link # "down" /\ Trouble
    /\ link' = "down" /\ ready' = FALSE /\ at' = Overtake(Failed, {"turn", "child"})
    /\ up' = << >> /\ pipe' = << >>
    /\ thread' = [thread EXCEPT !.subscribed = FALSE]
    /\ slipped' = slipped \union {e.text : e \in echoes}
                            \union {x \in Texts : debt[x] # 0}
    /\ debt' = [x \in Texts |-> 0]
    /\ raced' = raced \union {"lost"}
    /\ UNCHANGED <<calls, prompts, ran, holder, view, echoes>>

\* wait_for's timeout, long after any task that can go on has: the answer,
\* should it come, finds no future.
Settled == \A t \in Tasks : at[t].pc \in {"idle", "asked", "connecting"}

TimesOut(t) ==
    /\ at[t].pc = "asked" /\ Settled /\ Trouble /\ at' = Become(t, "failed")
    /\ up' = [i \in DOMAIN up |-> IF up[i].by = t
                                  THEN [up[i] EXCEPT !.by = None] ELSE up[i]]
    /\ pipe' = [i \in DOMAIN pipe |->
                  IF "to" \in DOMAIN pipe[i] /\ pipe[i].to = t
                  THEN [pipe[i] EXCEPT !.to = None] ELSE pipe[i]]
    /\ UNCHANGED <<calls, server, link, holder, ready, view, ledger, raced>>
-----------------------------------------------------------------------------
(* The reader                                                              *)

\* Tasks go on in the order in which their answers came.
Answered(t) == at[t].pc = "answered"
InTurn(t)   == /\ Answered(t)
               /\ "second" \in at[t].moved => \A u \in Tasks \ {t} : ~Answered(u)

\* An answer: its future, unless it was given up, gets the result or error.
\* Before the answer to a later request can come, a task that was answered
\* second has gone on.
Answer(f) ==
    /\ f.kind \in {"result", "error", "overloaded"}
    /\ f.to # None => \A u \in Tasks : Answered(u) => "second" \notin at[u].moved
    /\ at' = IF f.to = None THEN at ELSE
             LET a      == at[f.to]
                 second == IF \A u \in Tasks : ~Answered(u) THEN {} ELSE {"second"}
             IN  [at EXCEPT ![f.to] =
                    IF f.kind = "result"
                    THEN [a EXCEPT !.pc = "answered", !.turn = f.turn,
                                   !.child = IF a.op = "attach" THEN f.child ELSE @,
                                   !.moved = @ \union second]
                    ELSE [a EXCEPT !.pc = f.kind]]
    /\ UNCHANGED <<view, ledger, raced>>

TurnStarted(f) ==
    /\ f.kind = "turn" /\ active' = f.n
    /\ at' = [t \in Tasks |-> IF at[t].turn = f.n THEN at[t]
                              ELSE Overtake(at, {"turn"})[t]]
    /\ raced' = raced \ {"turn"}
    /\ UNCHANGED <<child, seen, requests, created, ledger>>

\* turn/completed clears the turn it names, and no other.
Ended(n) == IF active = n THEN 0 ELSE active

TurnCompleted(f) ==
    /\ f.kind = "done" /\ active' = Ended(f.n)
    /\ at' = Overtake(at, {"turn"})
    /\ UNCHANGED <<child, seen, requests, created, ledger, raced>>

\* Mutant of StatusOf: the server's word, as it is.
StatusAsTold(word) == word

\* _subagent_status: the server's word for what an agent does, in ours.
StatusOf(word) == IF word = "started" THEN "running" ELSE word

ChildUpdate(f) ==
    /\ f.kind = "child" /\ child' = StatusOf(f.status)
    /\ at' = [t \in Tasks |-> IF at[t].child \in {None, f.status} THEN at[t]
                              ELSE [at[t] EXCEPT !.moved = @ \union {"child"}]]
    /\ raced' = raced \ {"child"}
    /\ UNCHANGED <<active, seen, requests, created, ledger>>

\* _consume_prompt_echo: the first echo with this text, if there is one.
Echoed(x) == \E e \in echoes : e.text = x
Oldest(S) == CHOOSE e \in S : \A d \in S : e.n <= d.n

Consume(x) == echoes \ {Oldest({e \in echoes : e.text = x})}

\* Mutant of Fresh: an item is reported when it starts and when it completes.
FreshAlways(f) == TRUE

\* A user message is reported once; one the bridge did not send is reported
\* as the prompt of another client (user_prompt).
Fresh(f) == f.n \notin seen

UserMessage(f) ==
    /\ f.kind = "item" /\ seen' = seen \union {f.n}
    /\ IF ~Fresh(f) THEN UNCHANGED <<echoes, debt>>
       ELSE IF Echoed(f.text)
       THEN echoes' = Consume(f.text) /\ UNCHANGED debt
       ELSE debt' = [debt EXCEPT ![f.text] = @ - 1] /\ UNCHANGED echoes
    /\ UNCHANGED <<at, active, child, requests, created, slipped, raced>>

ServerRequest(f) ==
    /\ f.kind = "ask" /\ requests' = requests \union {f.n}
    /\ UNCHANGED <<at, active, child, seen, created, ledger, raced>>

RequestResolved(f) ==
    /\ f.kind = "resolved" /\ requests' = requests \ {f.n}
    /\ UNCHANGED <<at, active, child, seen, created, ledger, raced>>

Handle ==
    /\ pipe # << >> /\ pipe' = Tail(pipe)
    /\ LET f == Head(pipe) IN
       \/ Answer(f) \/ TurnStarted(f) \/ TurnCompleted(f)
       \/ ChildUpdate(f) \/ UserMessage(f)
       \/ ServerRequest(f) \/ RequestResolved(f)
    /\ UNCHANGED <<server, calls, up, link, troubles, holder, ready>>
-----------------------------------------------------------------------------
(* What the bridge's tasks ask for                                         *)

\* A call of the backend by a task that is in none.  The bridge holds the
\* channel's queue while it closes the session.
Closing(t) == at[t].op \in {"interrupt", "unsubscribe"}
May(t) ==
    /\ at[t] = Idle /\ created /\ \A u \in Tasks : ~Closing(u)
    /\ calls < MaxCalls /\ calls' = calls + 1
Still  == UNCHANGED <<server, pipe, link, troubles, holder, ready>>
Steady == Still /\ UNCHANGED calls

Began(op, n, x, turn) ==
    [Idle EXCEPT !.op = op, !.n = n, !.text = x, !.turn = turn]

\* Mutant of Expects: the echo is not remembered.
ExpectsNothing(n, x) == echoes

\* send_message and steer: the echo is remembered before the request.
Expects(n, x) == echoes \union {[n |-> n, text |-> x]}

Prompt(t, op, x) ==
    /\ t = "worker" /\ May(t) /\ prompts < MaxPrompts
    /\ op = "steer" => active # 0
    /\ prompts' = prompts + 1
    /\ echoes' = Expects(prompts + 1, x)
    /\ Request(t, Began(op, prompts + 1, x, IF op = "steer" THEN active ELSE 0))
    /\ UNCHANGED <<thread, ran, pipe, link, troubles, holder, ready, view, debt,
                   slipped, raced>>

Cancel(t) ==
    /\ t = "worker" /\ May(t) /\ active # 0
    /\ Request(t, Began("cancel", 0, None, active))
    /\ Still /\ UNCHANGED <<view, ledger, raced>>

Attach(t) ==
    /\ t = "topic" /\ May(t)
    /\ Request(t, Began("attach", 0, None, 0))
    /\ Still /\ UNCHANGED <<view, ledger, raced>>

\* close_session: only a thread of the bridge that no TUI shows; what is
\* running is interrupted first.
Close(t) ==
    /\ t = "worker" /\ May(t) /\ ~thread.tui
    /\ Request(t, Began(IF active # 0 THEN "interrupt" ELSE "unsubscribe",
                        0, None, active))
    /\ raced' = IF \A u \in Tasks \ {t} : at[u] = Idle
                THEN raced ELSE raced \union {"closed"}
    /\ Still /\ UNCHANGED <<view, ledger>>

\* Mutant of Taken: a request that was answered is kept.
TakenNot(r) == requests

\* resolve_approval: the request is forgotten, then answered.
Taken(r) == requests \ {r}

Approve(r) ==
    /\ r \in requests /\ requests' = Taken(r)
    /\ up' = IF link = "down" THEN up
             ELSE Append(up, [by |-> None, op |-> "approve", n |-> r,
                              text |-> None, turn |-> 0])
    /\ Steady /\ UNCHANGED <<at, active, child, seen, created, ledger, raced>>

Finish(t) == at' = [at EXCEPT ![t] = Idle] /\ UNCHANGED up

Sent(t) ==
    /\ InTurn(t) /\ at[t].op \in {"send", "steer", "cancel"}
    /\ IF at[t].op = "send"
       THEN /\ active' = at[t].turn
            /\ raced' = raced \union (at[t].moved \intersect {"turn"})
       ELSE UNCHANGED <<active, raced>>
    /\ Finish(t) /\ Steady
    /\ UNCHANGED <<child, seen, requests, created, ledger>>

\* Mutant of Forgotten: the echo of a refused prompt is still expected.
ForgottenNot(n) == echoes

\* _forget_prompt_echo, when the request raised.  After a refusal the echo is
\* gone for good, unless the prompt of another took it; after a timeout or a
\* lost connection the server may still run the prompt.
Forgotten(n) == {e \in echoes : e.n # n}

SendFails(t) ==
    /\ at[t].pc \in {"failed", "error"} /\ at[t].op \in Sends
    /\ echoes' = Forgotten(at[t].n)
    /\ slipped' = IF at[t].pc = "error"
                     /\ \E e \in echoes : e.n = at[t].n
                  THEN slipped ELSE slipped \union {at[t].text}
    /\ Finish(t) /\ Steady
    /\ UNCHANGED <<view, debt, raced>>

Fails(t) ==
    /\ at[t].pc \in {"failed", "error"}
    /\ at[t].op \in {"cancel", "attach", "interrupt", "unsubscribe"}
    /\ raced' = raced \union
         CASE at[t].op = "attach" -> {"turn", "child"}
           [] at[t].op = "unsubscribe" -> {"closed"}
           [] OTHER -> {}
    /\ Finish(t) /\ Steady /\ UNCHANGED <<view, ledger>>

\* Mutant of Replayable: a request that was lost is sent again, too.
ReplayableAny == {"overloaded", "failed"}

\* _request: an overloaded server has not taken the request, which is sent
\* again after a pause, a few times.
Replayable == {"overloaded"}

Retry(t) ==
    /\ at[t].pc \in Replayable /\ at[t].tries < Retries
    /\ Request(t, [at[t] EXCEPT !.tries = @ + 1])
    /\ Steady /\ UNCHANGED <<view, ledger, raced>>

GivesUp(t) ==
    /\ at[t].pc = "overloaded" /\ at[t].tries = Retries
    /\ at' = Become(t, "error")
    /\ Steady /\ UNCHANGED <<up, view, ledger, raced>>

\* Mutant of Snapshot: a snapshot without a turn changes nothing.
SnapshotIfRunning(turn) == IF turn # 0 THEN turn ELSE active

\* attach_session: the snapshot's turn is authoritative; a running turn's
\* items are asked for, and then the snapshot's subagents are replayed.
Snapshot(turn) == turn

Hydrate(t) ==
    /\ child' = IF at[t].child = None THEN child ELSE StatusOf(at[t].child)
    /\ raced' = IF at[t].child = None THEN raced
                ELSE (raced \ {"child"}) \union (at[t].moved \intersect {"child"})
    /\ Finish(t)

Resumed(t) ==
    /\ InTurn(t) /\ at[t].op = "attach"
    /\ active' = Snapshot(at[t].turn)
    /\ LET late == (raced \ {"turn"}) \union (at[t].moved \intersect {"turn"}) IN
       IF at[t].turn # 0
       THEN /\ Request(t, [at[t] EXCEPT !.op = "items", !.tries = 0,
                                        !.moved = @ \ {"second"}])
            /\ raced' = late /\ UNCHANGED child
       ELSE /\ child' = IF at[t].child = None THEN child ELSE StatusOf(at[t].child)
            /\ raced' = late \union (at[t].moved \intersect {"child"})
            /\ Finish(t)
    /\ Steady /\ UNCHANGED <<seen, requests, created, ledger>>

\* The items came, or could not be had.
Hydrated(t) ==
    /\ InTurn(t) \/ at[t].pc \in {"failed", "error"}
    /\ at[t].op = "items"
    /\ Hydrate(t) /\ Steady
    /\ UNCHANGED <<active, seen, requests, created, ledger>>

\* The interrupt was answered: a turn that began meanwhile stops the close.
Interrupted(t) ==
    /\ InTurn(t) /\ at[t].op = "interrupt"
    /\ IF active \in {0, at[t].turn}
       THEN /\ active' = 0
            /\ Request(t, [at[t] EXCEPT !.op = "unsubscribe", !.tries = 0,
                                        !.moved = {}])
       ELSE Finish(t) /\ UNCHANGED active
    /\ Steady /\ UNCHANGED <<child, seen, requests, created, ledger, raced>>

\* Mutant of NoEchoes: they are kept.
EchoesKept == echoes

\* What is expected of a closed thread.
NoEchoes == {}

\* Unsubscribed: everything kept of the thread is dropped.
Unsubscribed(t) ==
    /\ InTurn(t) /\ at[t].op = "unsubscribe"
    /\ created' = FALSE /\ active' = 0 /\ child' = None
    /\ seen' = {} /\ echoes' = NoEchoes
    /\ slipped' = slipped \union {e.text : e \in echoes}
    /\ Finish(t) /\ Steady /\ UNCHANGED <<requests, debt, raced>>

\* _PROMPT_ECHO_SECONDS pass.
EchoExpires ==
    /\ Settled /\ Trouble /\ echoes # {} /\ echoes' = echoes \ {Oldest(echoes)}
    /\ slipped' = slipped \union {Oldest(echoes).text}
    /\ UNCHANGED <<server, calls, up, pipe, link, holder, ready, at, view, debt,
                   raced>>

Next ==
    \/ Delegate \/ AskApproval \/ TuiApproves \/ EndTurn
    \/ \E x \in Texts : Type(x)
    \/ ServerTakes \/ Drop \/ Handle \/ EchoExpires
    \/ \E r \in requests : Approve(r)
    \/ \E t \in Tasks :
          \/ \E op \in Sends, x \in Texts : Prompt(t, op, x)
          \/ Cancel(t) \/ Attach(t) \/ Close(t)
          \/ Dial(t) \/ DialFails(t) \/ Greeted(t) \/ Connected(t)
          \/ TimesOut(t) \/ Retry(t) \/ GivesUp(t)
          \/ Sent(t) \/ SendFails(t) \/ Fails(t)
          \/ Resumed(t) \/ Hydrated(t) \/ Interrupted(t) \/ Unsubscribed(t)

Spec == Init /\ [][Next]_vars
-----------------------------------------------------------------------------
(* Properties                                                              *)

\* The state has its type; in particular the turn the backend holds is one
\* that some prompt began.
TypeOK ==
    /\ link \in {"down", "greeting", "up"} /\ ready \in BOOLEAN
    /\ holder \in Tasks \union {None} /\ created \in BOOLEAN
    /\ \A t \in Tasks : at[t].pc \in {"idle", "connecting", "asked", "answered",
                                      "failed", "error", "overloaded"}
    /\ active \in 0..prompts /\ seen \subseteq 1..prompts
    /\ child \in {None, "running", "completed"} /\ requests \subseteq {1}
    /\ raced \subseteq {"turn", "child", "closed", "lost"} /\ slipped \subseteq Texts

\* A task that waits for an answer waits on a live connection, where its
\* request or the answer to it is on its way; and the backend calls itself
\* ready exactly while the handshaken connection lives.
NobodyWaitsInVain ==
    /\ ready = (link = "up")
    /\ \A t \in Tasks : at[t].pc = "asked" =>
         /\ link # "down"
         /\ \/ \E i \in DOMAIN up : up[i].by = t
            \/ \E i \in DOMAIN pipe : "to" \in DOMAIN pipe[i] /\ pipe[i].to = t

\* A prompt is run at most once, however often its request is sent again
\* (_request: "replay is safe").
PromptRunsOnce == \A n \in 1..MaxPrompts : ran[n] <= 1

\* When all has been read, every prompt of another client was reported once
\* and none of the bridge's own was, unless an echo was lost or given up.
OthersPromptsReportedOnce ==
    Quiet /\ pipe = << >> /\ "closed" \notin raced =>
        \A x \in Texts \ slipped : debt[x] = 0

\* An echo is expected only of a prompt that is on its way: none is left to
\* swallow a later prompt of another client.
NoEchoLeftBehind ==
    Quiet /\ pipe = << >> => {e.text : e \in echoes} \subseteq slipped

\* When all has been read, the running turn and the subagent the backend
\* shows are the thread's, unless an answer was applied after notifications
\* that had overtaken it, or a close was given up: the server may unsubscribe
\* all the same, and an attach that was given up, too, resume behind it.
ViewIsTrue ==
    Quiet /\ pipe = << >> /\ created /\ thread.subscribed /\ "closed" \notin raced =>
        /\ "turn" \notin raced => active = thread.turn
        /\ "child" \notin raced => child = StatusOf(thread.child)

\* On one connection, what the backend offers to answer is what the server
\* asks, less what is on its way.  (Closing a thread withdraws nothing: its
\* open request stays in _server_requests.)
RequestsAgree ==
    raced \intersect {"lost", "closed"} = {} =>
        LET coming   == {pipe[i].n : i \in {j \in DOMAIN pipe : pipe[j].kind = "ask"}}
            resolved == {pipe[i].n : i \in {j \in DOMAIN pipe : pipe[j].kind = "resolved"}}
            answered == {up[i].n : i \in {j \in DOMAIN up : up[j].op = "approve"}}
        IN  /\ thread.ask # 0 => thread.ask \in coming \union requests \union answered
            /\ thread.subscribed =>
                 \A r \in requests : r = thread.ask \/ r \in resolved
            /\ requests \intersect answered = {}

\* A thread the bridge has closed leaves nothing behind, unless another task
\* was using it.
ClosedLeavesNothing ==
    ~created /\ ~thread.subscribed /\ "closed" \notin raced =>
        active = 0 /\ child = None /\ echoes = {} /\ seen = {}

\* The bridge's own prompts are told from those of other clients by echoes that
\* are expected exactly as long as they can come.
EchoesMatched == OthersPromptsReportedOnce /\ NoEchoLeftBehind

\* What the backend holds of a thread is the thread's, and nothing once it is
\* closed.
ThreadShownTrue == TypeOK /\ ViewIsTrue /\ RequestsAgree /\ ClosedLeavesNothing
=============================================================================
