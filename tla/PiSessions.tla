----------------------------- MODULE PiSessions -----------------------------
(***************************************************************************)
(* The Pi and OMP backends (backends/pi.py, backends/omp.py): the registry *)
(* of live sessions, the pump that reads each session's frames, and the    *)
(* commands the bridge's tasks send.                                       *)
(*                                                                         *)
(* A session is served by a process: a TUI the user runs, found by its     *)
(* socket, or an RPC process the backend spawned.  Every connection has an *)
(* object of its own (_Session with its _Transport), named here by the     *)
(* process; tasks keep references to it over their awaits while discovery, *)
(* attach, close and the pumps change the registry under them.             *)
(*                                                                         *)
(* Frames that are buffered together are handled without giving up the     *)
(* event loop, so a task whose request was answered may resume only after  *)
(* the pump has handled the frames behind the answer.                      *)
(*                                                                         *)
(* External: the processes, and the user who types into the TUIs.          *)
(***************************************************************************)
EXTENDS Integers, Sequences, FiniteSets

CONSTANTS
    Conns,     \* processes, each started at most once
    Sids,      \* sessions, that is session files
    Omp,       \* the backend is OMP: prompts may be local commands, and fail late
    MaxDeeds,  \* bound: prompts typed or sent, and switches, in all
    MaxPipe    \* bound: frames of a process not yet read

None == "none"
ASSUME PiAssumption ==
    /\ None \notin Conns \union Sids /\ Omp \in BOOLEAN
    /\ MaxDeeds \in Nat /\ MaxPipe \in Nat

VARIABLES
    proc,      \* external: what each process is, and does
    deeds,     \* what users and tasks have done, up to MaxDeeds
    pipe,      \* the frames it wrote that the pump has not read
    sess,      \* the _Session objects
    sessions,  \* PiBackend._sessions: the object registered for a session
    known,     \* PiBackend._known_sockets
    asks,      \* PiBackend._ui_requests: connections with an open dialog
    settling,  \* tasks that settle or fail an object's turn, still to run (OMP)
    at,        \* what each task awaits, and the object it keeps
    shown,     \* history: turns announced and not yet ended, per session
    debt,      \* history: prompts typed, less prompts announced
    raced,     \* history: the turn moved between an answer and its sender, or its
               \* end was in an answer that came too late
    slipped,   \* history: echoes that can no longer be told apart
    displaced  \* history: objects another object's change unregistered

registry == <<sessions, known, displaced>>
turns    == <<settling, shown, debt, raced>>
vars == <<proc, deeds, pipe, sess, asks, at, slipped, registry, turns>>

Tasks  == {"worker", "topic"}
Idle   == [pc |-> "idle", conn |-> None]
Unborn == [kind |-> "none", file |-> None, run |-> FALSE,
           asking |-> FALSE, inbox |-> << >>]
NoObject == [sid |-> None, open |-> FALSE, pump |-> FALSE, busy |-> FALSE,
             turn |-> FALSE, expected |-> 0]

Alive(c)  == proc[c].kind \in {"tui", "rpc"}
Served(s) == sessions[s] # None /\ sess[sessions[s]].open
Waiting   == {"prompt", "steer"}
Answered  == {"accepted", "local"}

\* What a process writes reaches the backend only over a connection.
Write(c, frames) ==
    pipe' = IF sess[c].pump THEN [pipe EXCEPT ![c] = @ \o frames] ELSE pipe
Deed == deeds < MaxDeeds /\ deeds' = deeds + 1
Room(c) == Len(pipe[c]) < MaxPipe
Change(c, p) == proc' = [proc EXCEPT ![c] = p]

Init ==
    /\ proc = [c \in Conns |-> Unborn]
    /\ deeds = 0 /\ pipe = [c \in Conns |-> << >>]
    /\ sess = [c \in Conns |-> NoObject]
    /\ sessions = [s \in Sids |-> None]
    /\ known = {} /\ asks = {} /\ settling = [c \in Conns |-> 0]
    /\ at = [t \in Tasks |-> Idle]
    /\ shown = [s \in Sids |-> {}]
    /\ debt = [c \in Conns |-> 0]
    /\ raced = {} /\ slipped = {} /\ displaced = {}
-----------------------------------------------------------------------------
(* Processes (external)                                                    *)

Outside == UNCHANGED <<sess, asks, at, registry, turns>>

OpenTui(c, s) ==
    /\ proc[c] = Unborn
    /\ Change(c, [Unborn EXCEPT !.kind = "tui", !.file = s])
    /\ UNCHANGED <<deeds, pipe, slipped>> /\ Outside

\* What it says when a prompt makes it run; one that runs is steered.
Starts(c) == IF proc[c].run THEN << >> ELSE << <<"start">> >>

Type(c) ==
    /\ proc[c].kind = "tui" /\ Room(c) /\ Deed
    /\ Change(c, [proc[c] EXCEPT !.run = TRUE])
    /\ Write(c, Append(Starts(c), <<"typed">>))
    /\ UNCHANGED slipped /\ Outside

\* An assistant message or a tool call; or the message of a failed turn.
Speak(c) ==
    /\ Alive(c) /\ proc[c].run /\ Room(c)
    /\ \E f \in {"reply", "error"} : Write(c, << <<f>> >>)
    /\ UNCHANGED <<proc, deeds, slipped>> /\ Outside

\* A spawned process opens a dialog and waits for its answer.
Ask(c) ==
    /\ proc[c].kind = "rpc" /\ proc[c].run /\ ~proc[c].asking /\ Room(c)
    /\ Change(c, [proc[c] EXCEPT !.asking = TRUE])
    /\ Write(c, << <<"ask">> >>)
    /\ UNCHANGED <<deeds, slipped>> /\ Outside

Settle(c) ==
    /\ Alive(c) /\ proc[c].run /\ ~proc[c].asking /\ Room(c)
    /\ Change(c, [proc[c] EXCEPT !.run = FALSE])
    /\ Write(c, << <<"settle">> >>)
    /\ UNCHANGED <<deeds, slipped>> /\ Outside

\* The user selects another session in the TUI.
Switch(c, s) ==
    /\ proc[c].kind = "tui" /\ proc[c].file # s /\ Room(c) /\ Deed
    /\ Change(c, [proc[c] EXCEPT !.file = s])
    /\ Write(c, << <<"session", s>> >>)
    /\ UNCHANGED slipped /\ Outside

Gone(c) == [Unborn EXCEPT !.kind = "gone"]
Quit(c) ==
    /\ Alive(c) /\ Change(c, Gone(c))
    /\ Write(c, << <<"eof">> >>)
    /\ UNCHANGED <<deeds, slipped>> /\ Outside

\* The process takes a prompt a task wrote (t is None when that task has given
\* up): accepted, and echoed; or rejected.
TakePrompt(c) ==
    LET t == Head(proc[c].inbox)
        took == [proc[c] EXCEPT !.inbox = Tail(@)] IN
    /\ Alive(c) /\ proc[c].inbox # << >> /\ Room(c)
    /\ \/ /\ Change(c, [took EXCEPT !.run = TRUE])
          /\ Write(c, << <<"ok", t>> >> \o Append(Starts(c), <<"echo">>))
       \/ /\ Change(c, took)
          /\ Write(c, << <<"no", t>> >>)
    /\ UNCHANGED <<deeds, slipped>> /\ Outside

\* OMP: the prompt is a local command, which may print something, and ends with
\* the answer or, once that was given, with a result; or it is accepted and
\* fails late.  No agent runs, and nothing is echoed.
TakeCommand(c) ==
    LET t == Head(proc[c].inbox)
        output == << <<"output">> >>
        accepts == << <<"ok", t>> >> IN
    /\ Omp /\ Alive(c) /\ proc[c].inbox # << >> /\ Room(c)
    /\ t # None => at[t].pc = "prompt"
    /\ Change(c, [proc[c] EXCEPT !.inbox = Tail(@)])
    /\ \/ \E printed \in {<< >>, output} :
            \/ Write(c, Append(printed, <<"local", t>>))
            \/ Write(c, accepts \o Append(printed, <<"result">>))
       \/ Write(c, Append(accepts, <<"late", t>>))
    /\ slipped' = slipped \union {c}
    /\ UNCHANGED deeds /\ Outside
-----------------------------------------------------------------------------
(* The registry                                                            *)

\* _register: an object and its pump.
Register(c, s, busy) ==
    /\ sess' = [sess EXCEPT ![c] = [NoObject EXCEPT
                   !.sid = s, !.open = TRUE, !.pump = TRUE, !.busy = busy]]
    /\ sessions' = [sessions EXCEPT ![s] = c]

\* Mutant of MayRegister: whoever comes last replaces the session.
MayRegisterAnyway(s) == TRUE
MayRegister(s) == ~Served(s)

\* _discover_sockets: connect to a socket not known.  One whose session is
\* served already stays known, and is not connected.
Discover(c) ==
    /\ proc[c].kind = "tui" /\ c \notin known
    /\ known' = known \union {c}
    /\ IF MayRegister(proc[c].file)
       THEN Register(c, proc[c].file, proc[c].run)
       ELSE UNCHANGED <<sess, sessions>>
    /\ UNCHANGED <<proc, deeds, pipe, asks, at, slipped, displaced, turns>>

\* attach_session of a session that is not registered, and create_session: a
\* process is spawned and told to switch to the session.
Attach(t, s, c) ==
    /\ at[t] = Idle /\ sessions[s] = None /\ proc[c] = Unborn
    /\ Change(c, [Unborn EXCEPT !.kind = "rpc", !.file = s])
    /\ at' = [at EXCEPT ![t] = [pc |-> "spawning", conn |-> c]]
    /\ UNCHANGED <<deeds, pipe, sess, asks, slipped, registry, turns>>

\* get_state answers: registered; or closed, because a live process came
\* first, or the new one has died.
Spawned(t) ==
    LET c == at[t].conn IN
    /\ at[t].pc = "spawning"
    /\ IF Alive(c) /\ MayRegister(proc[c].file)
       THEN Register(c, proc[c].file, FALSE) /\ UNCHANGED proc
       ELSE Change(c, Gone(c)) /\ UNCHANGED <<sess, sessions>>
    /\ at' = [at EXCEPT ![t] = Idle]
    /\ UNCHANGED <<deeds, pipe, asks, known, displaced, slipped, turns>>

\* _sessions.pop(session.id): whatever object the entry names.
Unregister(c) ==
    /\ sessions' = [sessions EXCEPT ![sess[c].sid] = None]
    /\ displaced' = displaced \union ({sessions[sess[c].sid]} \ {None, c})

\* Mutant of Fail: a closed transport leaves its requests waiting.
FailNobody(c) == at
\* _Transport.close: the requests that wait for an answer fail.
Fail(c) ==
    [t \in Tasks |-> IF at[t].conn = c /\ at[t].pc \in Waiting
                     THEN [at[t] EXCEPT !.pc = "failed"] ELSE at[t]]

\* A sender whose answer came is still to open its turn.
Behind(c) == {x \in {c} : \E t \in Tasks : at[t].pc \in Answered /\ at[t].conn = x}

\* Mutant of EndTurn: the end is not reported.
EndTurnLater(c) == UNCHANGED shown
EndTurn(c) == shown' = [shown EXCEPT ![sess[c].sid] = @ \ {c}]

\* close_session of a spawned session: pump and transport are closed, and the
\* process is waited for.  Its turn is over, and reported by nobody but the
\* bridge, which closes the session.
Close(c) ==
    /\ at["worker"] = Idle /\ sess[c].open /\ sessions[sess[c].sid] = c
    /\ proc[c].kind = "rpc"
    /\ Change(c, Gone(c))
    /\ sess' = [sess EXCEPT ![c].open = FALSE, ![c].pump = FALSE]
    /\ pipe' = [pipe EXCEPT ![c] = << >>]
    /\ at' = [Fail(c) EXCEPT !["worker"] = [pc |-> "closing", conn |-> c]]
    /\ EndTurn(c)
    /\ raced' = raced \union Behind(c)
    /\ UNCHANGED <<deeds, asks, slipped, registry, settling, debt>>

\* The process has gone: the session is no longer registered.
Closed ==
    LET c == at["worker"].conn IN
    /\ at["worker"].pc = "closing"
    /\ Unregister(c)
    /\ asks' = asks \ {c}
    /\ at' = [at EXCEPT !["worker"] = Idle]
    /\ UNCHANGED <<proc, deeds, pipe, sess, known, slipped, turns>>
-----------------------------------------------------------------------------
(* Commands                                                                *)

\* _require and _Transport.request: the command is written, and the task
\* waits.  A prompt for a busy session carries a delivery mode; steer needs
\* one.
Send(t, c) ==
    /\ at[t] = Idle /\ sess[c].open /\ sessions[sess[c].sid] = c
    /\ \E pc \in Waiting :
          /\ pc = "steer" => sess[c].busy
          /\ at' = [at EXCEPT ![t] = [pc |-> pc, conn |-> c]]
    /\ Deed
    /\ sess' = [sess EXCEPT ![c].expected = @ + 1]
    /\ Change(c, [proc[c] EXCEPT
                    !.inbox = IF Alive(c) THEN Append(@, t) ELSE @])
    /\ UNCHANGED <<pipe, asks, slipped, registry, turns>>

\* The answers to t that are still to come will find nobody, nor will a failure
\* that comes after them.
Forget(t, q) ==
    [i \in DOMAIN q |->
        IF \/ q[i] \in {<<"ok", t>>, <<"no", t>>, <<"local", t>>}
           \/ q[i] = <<"late", t>> /\ \E j \in DOMAIN q : j < i /\ q[j] = <<"ok", t>>
        THEN <<q[i][1], None>> ELSE q[i]]

\* wait_for expires.  The process may take the prompt all the same.
TimesOut(t) ==
    LET c == at[t].conn IN
    /\ at[t].pc \in Waiting
    /\ at' = [at EXCEPT ![t].pc = "failed"]
    /\ Change(c, [proc[c] EXCEPT !.inbox =
                    [i \in DOMAIN @ |-> IF @[i] = t THEN None ELSE @[i]]])
    /\ pipe' = [pipe EXCEPT ![c] = Forget(t, @)]
    /\ slipped' = slipped \union {c}
    /\ UNCHANGED <<deeds, sess, asks, registry, turns>>

\* Mutant of Unexpect: the counter runs below zero.
UnexpectAny(n) == n - 1
Unexpect(n) == IF n > 0 THEN n - 1 ELSE 0

\* send_message and steer, after the error: the echo is no longer expected.
SendFails(t) ==
    LET c == at[t].conn IN
    /\ at[t].pc = "failed"
    /\ sess' = [sess EXCEPT ![c].expected = Unexpect(@)]
    /\ slipped' = IF sess[c].expected = 0 \/ ~sess[c].open
                  THEN slipped \union {c} ELSE slipped
    /\ at' = [at EXCEPT ![t] = Idle]
    /\ UNCHANGED <<proc, deeds, pipe, asks, registry, turns>>

Opened(c) == [sess EXCEPT ![c].turn = TRUE, ![c].busy = TRUE]
Announce(c) == shown' = [shown EXCEPT ![sess[c].sid] = @ \union {c}]

\* _schedule_settlement, and the task that fails a turn.
Schedule(c) == settling' = [settling EXCEPT ![c] = @ + 1]

\* send_message, after the answer: _open_turn; OMP settles a local prompt in a
\* task of its own.
Sent(t) ==
    LET c == at[t].conn IN
    /\ at[t].pc \in Answered
    /\ IF sess[c].turn THEN UNCHANGED <<sess, shown>>
                       ELSE sess' = Opened(c) /\ Announce(c)
    /\ IF at[t].pc = "local" THEN Schedule(c) ELSE UNCHANGED settling
    /\ at' = [at EXCEPT ![t] = Idle]
    /\ UNCHANGED <<proc, deeds, pipe, asks, slipped, registry, debt, raced>>
-----------------------------------------------------------------------------
(* The pump                                                                *)

Next1(c, kind) == /\ sess[c].pump /\ pipe[c] # << >> /\ Head(pipe[c])[1] = kind
Consume(c) == pipe' = [pipe EXCEPT ![c] = Tail(@)]

\* dispatch_response: to the task that waits for it, if one does.  If none does,
\* nobody settles the turn that a local command's output has opened.
Answer(c) ==
    /\ \E kind \in {"ok", "no", "local"} : Next1(c, kind) /\ Consume(c)
    /\ LET kind == Head(pipe[c])[1]
           t == Head(pipe[c])[2] IN
       /\ IF t = None THEN UNCHANGED at
          ELSE at' = [at EXCEPT
               ![t].pc = CASE kind = "no" -> "failed"
                           [] kind # "no" /\ @ = "steer" -> "idle"
                           [] kind = "ok" /\ @ = "prompt" -> "accepted"
                           [] kind = "local" /\ @ = "prompt" -> "local",
               ![t].conn = IF kind # "no" /\ at[t].pc = "steer" THEN None ELSE @]
       /\ raced' = raced \union {x \in {c} : kind = "local" /\ t = None}
    /\ UNCHANGED <<proc, deeds, sess, asks, slipped, registry, settling, shown, debt>>

\* Mutant of Expects: every user message is announced.
ExpectsNothing(c) == FALSE
Expects(c) == sess[c].expected > 0

\* _handle_message, user: the echo of a prompt of ours, or one typed.
UserMessage(c) ==
    /\ \E kind \in {"typed", "echo"} : Next1(c, kind)
    /\ LET typed == IF Head(pipe[c]) = <<"typed">> THEN 1 ELSE 0 IN
       IF Expects(c)
       THEN /\ sess' = [sess EXCEPT ![c].expected = @ - 1]
            /\ debt' = [debt EXCEPT ![c] = @ + typed]
            /\ UNCHANGED shown
       ELSE /\ sess' = Opened(c) /\ Announce(c)
            /\ debt' = [debt EXCEPT ![c] = @ + typed - 1]
    /\ Consume(c)
    /\ UNCHANGED <<proc, deeds, asks, at, slipped, registry, settling, raced>>

\* _handle_message, assistant, the tool frames, and what a local command prints:
\* the turn is open.
Reply(c) ==
    /\ \E kind \in {"reply", "output"} : Next1(c, kind)
    /\ Consume(c)
    /\ sess' = Opened(c) /\ Announce(c)
    /\ UNCHANGED <<proc, deeds, asks, at, slipped, registry, settling, debt, raced>>

\* agent_start
Started(c) ==
    /\ Next1(c, "start") /\ Consume(c)
    /\ sess' = [sess EXCEPT ![c].busy = TRUE]
    /\ UNCHANGED <<proc, deeds, asks, at, slipped, registry, turns>>

Settled(c) == [sess EXCEPT ![c].busy = FALSE, ![c].turn = FALSE]

\* stopReason "error": turn_failed; agent_settled is still to come.
TurnFails(c) ==
    /\ Next1(c, "error") /\ Consume(c)
    /\ sess' = [sess EXCEPT ![c].turn = FALSE,
                            ![c].busy = @ \/ ~sess[c].turn]
    /\ EndTurn(c)
    /\ raced' = raced \union Behind(c)
    /\ UNCHANGED <<proc, deeds, asks, at, slipped, registry, settling, debt>>

\* agent_settled: _settle_turn.
TurnSettles(c) ==
    /\ Next1(c, "settle") /\ Consume(c)
    /\ sess' = Settled(c) /\ EndTurn(c)
    /\ raced' = raced \union Behind(c)
    /\ UNCHANGED <<proc, deeds, asks, at, slipped, registry, settling, debt>>

\* OMP: prompt_result, and the failure of a prompt that had been accepted, if
\* somebody heard of that.
CommandEnds(c) ==
    /\ Next1(c, "result") \/ Next1(c, "late")
    /\ Consume(c)
    /\ IF Head(pipe[c]) = <<"late", None>> THEN UNCHANGED settling ELSE Schedule(c)
    /\ UNCHANGED <<proc, deeds, sess, asks, at, slipped, registry, shown, debt, raced>>

\* _settle_turn or _fail_turn, from a task, whatever turn is open.  (The tasks
\* and the senders run in any order here.)
SettleTask(c) ==
    /\ settling[c] > 0
    /\ settling' = [settling EXCEPT ![c] = @ - 1]
    /\ sess' = Settled(c) /\ EndTurn(c)
    /\ raced' = raced \union Behind(c) \union {x \in {c} : proc[c].run}
    /\ UNCHANGED <<proc, deeds, pipe, asks, at, slipped, registry, debt>>

\* Mutant of Kept: a dialog replaces the one before it.
KeptAlone(c) == {c}
Kept(c) == asks \union {c}

\* _handle_ui_request: the dialog is kept until it is answered.
Dialog(c) ==
    /\ Next1(c, "ask") /\ Consume(c)
    /\ asks' = Kept(c)
    /\ UNCHANGED <<proc, deeds, sess, at, slipped, registry, turns>>

\* resolve_approval and resolve_question: the process goes on.
Resolve(c) ==
    /\ c \in asks
    /\ asks' = asks \ {c}
    /\ IF Alive(c) /\ sess[c].open
       THEN Change(c, [proc[c] EXCEPT !.asking = FALSE]) ELSE UNCHANGED proc
    /\ UNCHANGED <<deeds, pipe, sess, at, slipped, registry, turns>>

\* _session_changed: the object moves to the other session, whoever is there;
\* an open turn ends in the session it belongs to.
SessionChanged(c) ==
    LET s == sess[c].sid
        to == Head(pipe[c])[2]
        over == {sessions[s], sessions[to]} \ {None, c} IN
    /\ Next1(c, "session") /\ Consume(c)
    /\ IF s = to
       THEN UNCHANGED <<sess, sessions, displaced, shown, debt, raced, slipped>>
       ELSE /\ sess' = [sess EXCEPT ![c].sid = to, ![c].expected = 0,
                          ![c].turn = IF sess[c].busy THEN FALSE ELSE @,
                          ![c].busy = IF sess[c].turn THEN FALSE ELSE @]
            /\ sessions' = [sessions EXCEPT ![s] = None, ![to] = c]
            /\ displaced' = (displaced \union over) \ {c}
            /\ EndTurn(c)
            /\ debt' = [debt EXCEPT ![c] = 0]
            /\ raced' = raced \union Behind(c)
            /\ slipped' = slipped \union {x \in {c} : sess[c].expected > 0 \/
                    debt[c] # 0 \/ proc[c].inbox # << >> \/
                    \E t \in Tasks : at[t].conn = c}
    /\ UNCHANGED <<proc, deeds, asks, at, known, settling>>

\* Mutant of Reported: a session that ends takes its turn along.
ReportedNever(c) == FALSE
Reported(c) == sess[c].busy /\ sess[c].turn

\* _drop_session: turn_failed for the open turn of a busy session.
Drop(c) ==
    /\ Next1(c, "eof") /\ Consume(c)
    /\ Unregister(c)
    /\ known' = known \ {c}
    /\ sess' = [sess EXCEPT ![c].open = FALSE, ![c].pump = FALSE]
    /\ shown' = IF Reported(c)
                THEN [shown EXCEPT ![sess[c].sid] = @ \ {c}] ELSE shown
    /\ at' = Fail(c)
    /\ raced' = raced \union Behind(c)
    /\ UNCHANGED <<proc, deeds, asks, slipped, settling, debt>>
-----------------------------------------------------------------------------
Pump(c) ==
    \/ Answer(c) \/ UserMessage(c) \/ Reply(c) \/ Started(c) \/ TurnFails(c)
    \/ TurnSettles(c) \/ CommandEnds(c) \/ Dialog(c) \/ SessionChanged(c) \/ Drop(c)

Next ==
    \/ \E c \in Conns :
          \/ \E s \in Sids : OpenTui(c, s) \/ Switch(c, s)
          \/ Type(c) \/ Speak(c) \/ Ask(c) \/ Settle(c) \/ Quit(c)
          \/ TakePrompt(c) \/ TakeCommand(c) \/ Discover(c) \/ Close(c) \/ Resolve(c)
          \/ Pump(c) \/ SettleTask(c)
          \/ \E t \in Tasks : Send(t, c) \/ \E s \in Sids : Attach(t, s, c)
    \/ \E t \in Tasks : Spawned(t) \/ TimesOut(t) \/ SendFails(t) \/ Sent(t)
    \/ Closed

Spec == Init /\ [][Next]_vars
-----------------------------------------------------------------------------
(* Properties                                                              *)

\* Types; an echo counter is never negative.
TypeOK ==
    /\ proc \in [Conns -> [kind : {"none", "tui", "rpc", "gone"},
                           file : Sids \union {None}, run : BOOLEAN,
                           asking : BOOLEAN, inbox : Seq(Tasks \union {None})]]
    /\ sess \in [Conns -> [sid : Sids \union {None}, open : BOOLEAN,
                           pump : BOOLEAN, busy : BOOLEAN, turn : BOOLEAN,
                           expected : Nat]]
    /\ sessions \in [Sids -> Conns \union {None}]
    /\ known \subseteq Conns /\ asks \subseteq Conns
    /\ shown \in [Sids -> SUBSET Conns]
    /\ settling \in [Conns -> Nat]
    /\ \A t \in Tasks : at[t].conn = None <=> at[t].pc = "idle"

\* "Never race it with a second writer on the same JSONL": of the processes
\* the backend serves in a session, all but one have got there by a switch in
\* a TUI that nobody could refuse.
OneWriter ==
    \A c, d \in Conns : sess[c].pump /\ sess[d].pump /\ c # d
        /\ sess[c].sid = sess[d].sid => c \in displaced \/ d \in displaced

\* A session that is read is one that commands reach: its object is the one
\* registered, under the session it is in now.
ServedIsRegistered ==
    \A c \in Conns : sess[c].pump /\ c \notin displaced => sessions[sess[c].sid] = c

\* A session shows one turn at a time, and it is its object's.
OneTurnShown ==
    \A s \in Sids : \A c, d \in shown[s] \ (raced \union displaced) :
        c = d /\ sess[c].sid = s /\ sess[c].turn

\* A turn announced for a process that is at rest is one whose end is on its
\* way: in a task that will settle it or, still to be read, in the pipe.
Ends(f) ==
    \/ f[1] \in {"settle", "local", "result", "eof", "session"}
    \/ f[1] = "late" /\ f # <<"late", None>>
EveryTurnWillEnd ==
    \A c \in Conns : (\E s \in Sids : c \in shown[s]) /\ c \notin raced =>
        \/ Alive(c) /\ proc[c].run
        \/ settling[c] > 0
        \/ \E t \in Tasks : at[t] = [pc |-> "local", conn |-> c]
        \/ \E i \in DOMAIN pipe[c] : Ends(pipe[c][i])

\* Every prompt is announced once, whoever it came from: announcements never
\* outnumber the prompts typed, and the echoes expected, with the typed prompts
\* that were taken for one, are the prompts of ours still under way.
PromptsAccounted ==
    \A c \in Conns : sess[c].pump /\ Alive(c) /\ c \notin slipped =>
        debt[c] >= 0 /\ sess[c].expected + debt[c]
          = Cardinality({i \in DOMAIN pipe[c] : pipe[c][i][1] \in {"echo", "no"}})
            + Len(proc[c].inbox)
            + Cardinality({t \in Tasks : at[t] = [pc |-> "failed", conn |-> c]})

\* Nobody waits for an answer from a transport that has been closed.
NobodyWaitsInVain ==
    \A t \in Tasks : at[t].pc \in Waiting => sess[at[t].conn].open

\* A process that waits for its dialog can be answered.
DialogsAnswerable ==
    \A c \in Conns : sess[c].pump /\ proc[c].asking =>
        c \in asks \/ <<"ask">> \in {pipe[c][i] : i \in DOMAIN pipe[c]}

\* Discovery, attach and switches leave a session to one object, which is the
\* one commands reach.
ServedOnce == TypeOK /\ OneWriter /\ ServedIsRegistered

\* A client sees one turn of a session, and sees it end.
TurnsShownEnd == OneTurnShown /\ EveryTurnWillEnd

\* Whoever waits, a task for its answer or a process for its dialog's, can
\* still get it.
AnswersCanCome == NobodyWaitsInVain /\ DialogsAnswerable
=============================================================================
