---------------------------- MODULE ClaudeSession ----------------------------
(***************************************************************************)
(* One Claude session (backends/claude.py, claude_follow.py): observed     *)
(* through the transcript another process writes, then driven through a    *)
(* CLI of the backend's own.                                               *)
(*                                                                         *)
(* Four tasks share the session.  The follower polls the transcript, in a  *)
(* thread, under follow_lock; send_message does so once, when it promotes  *)
(* the session; the pump handles what the CLI streams, and drops from the  *)
(* transcript what the turn it finishes has left there; cancel gives up an *)
(* observed turn.                                                          *)
(*                                                                         *)
(* External: the terminal and the CLI, which write the transcript line by  *)
(* line (a line is whole when its newline is there), and the replacement   *)
(* of the file.  The CLI writes a turn before it streams its result.       *)
(*                                                                         *)
(* Of a line the code tells apart: a user's prompt; an interrupt           *)
(* ("[Request interrupted"); a slash command's text, or a summary of       *)
(* compaction; the result of a tool that has text of its own; an agent's   *)
(* text or tool (text here); a reply that ends the turn (end); the marker  *)
(* of a turn's duration (mark); and what is meta or of a subagent.         *)
(*                                                                         *)
(* A followed turn is named by the line of its prompt, as the code derives *)
(* its id from that line's uuid; a driven turn by a fresh number below 0.  *)
(***************************************************************************)
EXTENDS Integers, Sequences, FiniteSets

CONSTANTS
    MaxLines,   \* bound: lines of the transcript
    MaxDriven   \* bound: prompts sent

ClaudeBounds == MaxLines \in Nat /\ MaxDriven \in Nat

None == 0

VARIABLES
    file,      \* external: the lines of the transcript
    half,      \* external: the last of them has no newline yet
    inode,     \* external: which file the path names
    term,      \* external: the line where the terminal's turn began
    cli,       \* external: what the CLI does
    stream,    \* what it has streamed and the pump has not read
    tail,      \* TranscriptTailer: offset, inode, and seen lines
    session,   \* _Session: client, pump, busy, turn_id, follow_turn_id
    queue,     \* follow_lock: its holder, and who waits for it
    got,       \* the holder's thread has read the transcript
    batch,     \* the lines it has read
    sender,    \* where send_message is
    ending,    \* the turn that _finish_turn ends
    driven,    \* how many turns have been started
    log,       \* history: the lines relayed, each with the turn it was given
    shown,     \* history: turns announced and not yet ended
    begun,     \* history: the whole lines there were when send_message looked
    first,     \* history: the lines there were at attach
    mixed,     \* history: lines of two writers, or a poll under way, met
    cut        \* history: a turn was given up, or lost its process

outside == <<file, half, inode, term>>
history == <<log, shown, begun, first, mixed, cut>>
follow_lock == <<queue, got, batch>>
vars == <<outside, cli, stream, tail, session, follow_lock, sender, ending,
          driven, history>>

Queued(who) == \E i \in DOMAIN queue : queue[i] = who
Whole == Len(file) - (IF half THEN 1 ELSE 0)
Unread == tail.offset < Whole \/ tail.inode # inode
Detached == [client |-> FALSE, pump |-> FALSE, busy |-> FALSE,
             turn |-> None, follow |-> None]
-----------------------------------------------------------------------------
(* The transcript                                                          *)

\* What the agent's transcript holds of users' messages with text.
UserTexts == {"prompt", "interrupt", "command", "result"}
\* What the follower relays, and what closes a turn for it.
Relayable == {"prompt", "text", "result", "end"}
Closing == {"end", "mark", "interrupt"}

\* The last line of some kinds up to a line, or None.
LastOf(kinds, i) ==
    LET those == {j \in 1 .. i : file[j].kind \in kinds} IN
    IF those = {} THEN None ELSE CHOOSE j \in those : \A k \in those : k <= j

\* _turn_ids: the turn history gives a line begins with the last message of a
\* user before it, whatever that says.
TurnOf(i) == LastOf(UserTexts, i)

\* The turn the whole lines leave open: of the last prompt, if nothing closed it.
OpenTurn(n) ==
    IF LastOf(Closing, n) > LastOf({"prompt"}, n) THEN None ELSE LastOf({"prompt"}, n)

Line(by, kind) ==
    /\ Len(file) < MaxLines /\ ~half
    /\ file' = Append(file, [by |-> by, kind |-> kind])
    /\ half' \in BOOLEAN

\* While a turn is driven, from the question to the last of its lines.
Driving == sender \in {"query", "announce"} \/ session.turn # None
             \/ Queued("finish")

\* The terminal: a turn begins with a prompt, or with a command that runs one
\* (what it runs is meta); text and tools follow, then the end.  Commands that
\* run none, and what is meta, are written at any time.  Or the terminal dies.
TermWrites ==
    /\ \/ /\ \E kind \in {"prompt", "command"} : Line("term", kind)
          /\ term' = Len(file')
       \/ /\ \E kind \in {"command", "meta"} : Line("term", kind)
          /\ UNCHANGED term
       \/ /\ term # None /\ \E kind \in {"text", "result"} : Line("term", kind)
          /\ UNCHANGED term
       \/ /\ term # None /\ \E kind \in Closing : Line("term", kind)
          /\ term' = None
    /\ mixed' = (mixed \/ Driving)
    /\ UNCHANGED <<inode, cli, stream, tail, session, follow_lock, sender,
                   ending, driven, log, shown, begun, first, cut>>

TermDies ==
    /\ term # None /\ term' = None
    /\ cut' = TRUE
    /\ UNCHANGED <<file, half, inode, cli, stream, tail, session, follow_lock, sender,
                   ending, driven, log, shown, begun, first, mixed>>

Newline ==
    /\ half /\ half' = FALSE
    /\ UNCHANGED <<file, inode, term, cli, stream, tail, session, follow_lock,
                   sender, ending, driven, history>>

\* The file is replaced by a copy, once.
Replace ==
    /\ ~half /\ file # << >> /\ inode = 0
    /\ inode' = 1
    /\ UNCHANGED <<file, half, term, cli, stream, tail, session, follow_lock,
                   sender, ending, driven, history>>

\* The CLI writes the prompt it took, and the turn; then it streams the
\* result.  Or it dies: with an error, or as if all were well.
CliWrites ==
    /\ \/ /\ cli = "asked" /\ Line("cli", "prompt")
          /\ cli' = "run" /\ UNCHANGED <<stream, cut>>
       \/ /\ cli = "run" /\ Line("cli", "end")
          /\ cli' = "told" /\ UNCHANGED <<stream, cut>>
       \/ /\ cli = "told" /\ ~half /\ cli' = "idle"
          /\ stream' = Append(stream, "result") /\ UNCHANGED <<file, half, cut>>
       \/ /\ cli # "none" /\ cli' = "none"
          /\ \E m \in {"broken", "closed"} : stream' = Append(stream, m)
          /\ cut' = TRUE /\ UNCHANGED <<file, half>>
    /\ UNCHANGED <<inode, term, tail, session, follow_lock, sender,
                   ending, driven, log, shown, begun, first, mixed>>
-----------------------------------------------------------------------------
(* The tailer                                                              *)

\* Mutant of Fresh: a rescan delivers what was delivered before.
FreshAll(from) == (from + 1) .. Whole
\* The whole lines after an offset that have not been seen.
Fresh(from) == ((from + 1) .. Whole) \ tail.seen

\* Mutant of Offset: the half-written line is passed over.
OffsetAtEnd == Len(file)
Offset == Whole

\* TranscriptTailer._read: from the top when the file is another one.
Read ==
    LET from == IF tail.inode # inode THEN 0 ELSE tail.offset
        new  == Fresh(from) IN
    /\ tail' = [offset |-> Offset, inode |-> inode, seen |-> tail.seen \union new]
    /\ batch' = [i \in 1 .. Cardinality(new) |->
                   CHOOSE n \in new : Cardinality({m \in new : m < n}) = i - 1]

\* _follow_boundary.
Boundary(st) ==
    IF st.follow = None THEN st
    ELSE [st EXCEPT !.shown = @ \ {st.follow}, !.follow = None, !.busy = FALSE]

\* Mutant of Prompted: a prompt in a turn that was not closed belongs to it.
PromptedWithin(st, n) ==
    IF st.follow # None THEN [st EXCEPT !.log = Append(@, <<n, st.follow>>)]
    ELSE [st EXCEPT !.follow = n, !.busy = TRUE, !.shown = @ \union {n},
                    !.log = Append(@, <<n, n>>)]

\* _follow_user: a prompt ends the turn before it, and starts one.
Prompted(st, n) ==
    LET b == Boundary(st) IN
    [b EXCEPT !.follow = n, !.busy = TRUE, !.shown = @ \union {n},
              !.log = Append(@, <<n, n>>)]

\* _follow_assistant, and the results of tools.
Said(st, n) == [st EXCEPT !.log = Append(@, <<n, st.follow>>)]

\* _follow_events: commands, summaries and what is meta are dropped.
Followed(st, n) ==
    CASE file[n].kind = "prompt" -> Prompted(st, n)
      [] file[n].kind \in {"text", "result"} -> Said(st, n)
      [] file[n].kind = "end" -> Boundary(Said(st, n))
      [] file[n].kind \in {"mark", "interrupt"} -> Boundary(st)
      [] OTHER -> st

\* _follow_emit over the lines read.
Relay ==
    LET start == [follow |-> session.follow, busy |-> session.busy,
                  shown |-> shown, log |-> log]
        states[i \in 0 .. Len(batch)] ==
            IF i = 0 THEN start ELSE Followed(states[i - 1], batch[i])
    IN states[Len(batch)]

Relayed ==
    /\ session' = [session EXCEPT !.follow = Relay.follow, !.busy = Relay.busy]
    /\ shown' = Relay.shown /\ log' = Relay.log
-----------------------------------------------------------------------------
(* Attach and follow                                                       *)

\* attach_session of a session with a transcript: the tailer is primed, and
\* the open turn, when it is not stale, makes the session busy.
Init ==
    /\ \E n \in 0 .. 2, opening \in {"prompt", "command"} :
          /\ file = [i \in 1 .. n |-> [by |-> "term",
                       kind |-> IF i = 1 THEN opening ELSE "text"]]
          /\ term = IF n = 0 THEN None ELSE 1
          /\ first = n
    /\ half = FALSE /\ inode = 0 /\ cli = "none" /\ stream = << >>
    /\ tail = [offset |-> Len(file), inode |-> 0, seen |-> 1 .. Len(file)]
    /\ \E stale \in BOOLEAN :
          /\ LET open == OpenTurn(Len(file)) IN
             /\ stale => open # None
             /\ session = [Detached EXCEPT !.follow = open, !.busy = open # None /\ ~stale]
             /\ shown = IF stale THEN {} ELSE {open} \ {None}
          /\ cut = stale
    /\ queue = << >> /\ got = FALSE /\ batch = << >>
    /\ sender = "idle" /\ ending = None
    /\ driven = 0 /\ log = << >> /\ begun = 0
    /\ mixed = FALSE

\* Mutant of MayPoll: the echo of a driven turn is followed like any other.
MayPollAlways == TRUE
MayPoll == ~(session.client /\ session.busy)

\* _follow_loop, after its sleep.
Wake ==
    /\ ~Queued("follower") /\ MayPoll
    /\ queue' = Append(queue, "follower")
    /\ UNCHANGED <<outside, cli, stream, tail, session, got, batch, sender,
                   ending, driven, history>>

\* Who holds the lock reads, in a thread.
Poll ==
    /\ queue # << >> /\ ~got /\ got' = TRUE
    /\ Read
    /\ begun' = IF Head(queue) = "sender" THEN Whole ELSE begun
    /\ UNCHANGED <<outside, cli, stream, session, queue, sender, ending, driven,
                   log, shown, first, mixed, cut>>

Release(who) ==
    /\ got /\ Head(queue) = who
    /\ queue' = Tail(queue) /\ got' = FALSE /\ batch' = << >>

FollowEmit ==
    /\ Release("follower")
    /\ Relayed
    /\ UNCHANGED <<outside, cli, stream, tail, sender, ending, driven, begun,
                   first, mixed, cut>>

\* cancel of an observed turn: the process goes on, the channel does not wait.
CancelObserved ==
    /\ ~session.client /\ session.follow # None
    /\ session' = [session EXCEPT !.follow = None, !.busy = FALSE]
    /\ shown' = shown \ {session.follow}
    /\ cut' = TRUE
    /\ UNCHANGED <<outside, cli, stream, tail, follow_lock, sender,
                   ending, driven, log, begun, first, mixed>>
-----------------------------------------------------------------------------
(* send_message                                                            *)

\* The bridge sends to a session that shows no turn.  An observed session is
\* promoted: first, what the other process has written is relayed.
Send ==
    /\ sender = "idle" /\ driven < MaxDriven /\ shown = {}
    /\ driven' = driven + 1
    /\ IF session.client
       THEN sender' = "start" /\ UNCHANGED queue
       ELSE sender' = "relay" /\ queue' = Append(queue, "sender")
    /\ UNCHANGED <<outside, cli, stream, tail, session, got, batch, ending,
                   history>>

\* Mutant of MayPromote: whoever runs a turn, it is not looked at.
MayPromoteAnyway(st) == TRUE
MayPromote(st) == ~st.busy

\* A turn of another process refuses the prompt; else the CLI is started.
SendRelayed ==
    /\ Release("sender")
    /\ Relayed
    /\ IF MayPromote(Relay) THEN sender' = "connect" /\ UNCHANGED begun
                            ELSE sender' = "idle" /\ begun' = 0
    /\ UNCHANGED <<outside, cli, stream, tail, ending, driven, first, mixed, cut>>

Connect ==
    /\ sender = "connect"
    /\ \/ /\ session' = [session EXCEPT !.client = TRUE, !.pump = TRUE]
          /\ cli' = "idle" /\ sender' = "start"
       \/ /\ sender' = "idle" /\ UNCHANGED <<session, cli>>
    /\ begun' = 0
    /\ UNCHANGED <<outside, stream, tail, follow_lock, ending, driven,
                   log, shown, first, mixed, cut>>

\* The turn is the session's before the CLI has it.
StartTurn ==
    /\ sender = "start" /\ sender' = "query"
    /\ session' = [session EXCEPT !.turn = -driven, !.busy = TRUE]
    /\ mixed' = (mixed \/ term # None \/ half \/ Unread \/ queue # << >>
                   \/ Queued("finish"))
    /\ UNCHANGED <<outside, cli, stream, tail, follow_lock, ending,
                   driven, log, shown, begun, first, cut>>

\* Mutants of Refused: a prompt that failed leaves the session busy, or in its
\* turn.
RefusedBusy == [session EXCEPT !.turn = None]
RefusedInTurn == [session EXCEPT !.busy = FALSE]
Refused == [session EXCEPT !.turn = None, !.busy = FALSE]

\* query: taken, or refused, as it always is by a CLI that has died.
Query ==
    /\ sender = "query"
    /\ \/ /\ cli = "idle" /\ cli' = "asked" /\ sender' = "announce"
          /\ UNCHANGED session
       \/ /\ sender' = "idle" /\ session' = Refused /\ UNCHANGED cli
    /\ UNCHANGED <<outside, stream, tail, follow_lock, ending, driven,
                   history>>

\* "Announced only once the prompt is accepted."  The result may be there.
AnnounceTurn ==
    /\ sender = "announce" /\ sender' = "idle"
    /\ shown' = shown \union {-driven}
    /\ cut' = (cut \/ session.turn # -driven)
    /\ UNCHANGED <<outside, cli, stream, tail, session, follow_lock, ending,
                   driven, log, begun, first, mixed>>
-----------------------------------------------------------------------------
(* The pump                                                                *)

\* _finish_turn: the session is idle, and its echo is to be dropped.
FinishTurn ==
    /\ session.pump /\ ~Queued("finish") /\ stream # << >> /\ Head(stream) = "result"
    /\ stream' = Tail(stream)
    /\ queue' = Append(queue, "finish") /\ ending' = session.turn
    /\ session' = [session EXCEPT !.turn = None, !.busy = FALSE]
    /\ UNCHANGED <<outside, cli, tail, got, batch, sender, driven,
                   history>>

\* discard_pending has read the echo; turn_done or turn_failed.
TurnFinished ==
    /\ Release("finish")
    /\ ending' = None
    /\ shown' = shown \ {ending}
    /\ UNCHANGED <<outside, cli, stream, tail, session, sender, driven,
                   log, begun, first, mixed, cut>>

\* The stream ends: with an exception the session is idle; with none nothing
\* is said of it.  The client stays, and refuses every later prompt.
StreamEnds ==
    /\ session.pump /\ ~Queued("finish") /\ stream # << >>
    /\ Head(stream) \in {"broken", "closed"}
    /\ stream' = Tail(stream)
    /\ session' = [session EXCEPT !.pump = FALSE,
                     !.busy = IF Head(stream) = "broken" THEN FALSE ELSE @]
    /\ UNCHANGED <<outside, cli, tail, follow_lock, sender, ending,
                   driven, history>>
-----------------------------------------------------------------------------
Next ==
    \/ TermWrites \/ TermDies \/ Newline \/ Replace \/ CliWrites
    \/ Wake \/ FollowEmit \/ CancelObserved
    \/ Poll
    \/ Send \/ SendRelayed \/ Connect \/ StartTurn \/ Query \/ AnnounceTurn
    \/ FinishTurn \/ TurnFinished \/ StreamEnds

Spec == Init /\ [][Next]_vars
-----------------------------------------------------------------------------
(* Properties                                                              *)

\* Types.  A turn that is driven is the last one started.
TypeOK ==
    /\ file \in Seq([by : {"term", "cli"}, kind : UserTexts \union Relayable
                       \union Closing \union {"meta"}])
    /\ tail.offset \in 0 .. Len(file) /\ tail.seen \subseteq 1 .. Len(file)
    /\ session \in [client : BOOLEAN, pump : BOOLEAN, busy : BOOLEAN,
                    turn : {None, -driven}, follow : 0 .. Len(file)]
    /\ \A i, j \in DOMAIN queue : i # j => queue[i] # queue[j]
    /\ shown \subseteq (-driven .. Len(file)) \ {None}

\* Live follow relays a line once, and the lines in their order, whatever the
\* file goes through.
RelayedOnceInOrder ==
    \A i, j \in DOMAIN log : i < j => log[i][1] < log[j][1]

\* "The SDK message stream already relayed that turn live, so its transcript
\* echo must not be emitted a second time."
NoEchoRelayed ==
    ~mixed /\ ~cut => \A i \in DOMAIN log : file[log[i][1]].by = "term"

\* A line of the terminal is not passed over: what the tailer has behind it
\* was there at attach, or has been relayed, if it is to be.
NothingPassedOver ==
    ~mixed /\ ~got =>
        \A i \in (first + 1) .. tail.offset :
            file[i].by = "term" /\ file[i].kind \in Relayable =>
                \E k \in DOMAIN log : log[k][1] = i

\* A line that history files under a prompt is relayed under that same turn, so
\* that a client that has both sees one; or under none, once the turn was closed
\* or given up.  What history files under another message of a user, an
\* interrupt, a command or a result, it names otherwise than the follower does.
RelayAgreesWithHistory ==
    ~mixed => \A i \in DOMAIN log :
        LET n == log[i][1] IN
        TurnOf(n) = LastOf({"prompt"}, n) =>
            \/ log[i][2] = TurnOf(n)
            \/ log[i][2] = None /\ \/ LastOf(Closing, n - 1) > TurnOf(n)
                                   \/ cut /\ TurnOf(n) # n

\* The CLI is started only for a session that is at rest: a turn that runs in
\* the terminal has begun after send_message looked, or with no prompt that the
\* follower takes for one.
PromotesAtRest ==
    sender = "connect" /\ term # None /\ ~cut =>
        term > begun \/ file[term].kind # "prompt"

\* At rest the channel shows the turn the transcript leaves open, and the
\* session is busy exactly then: no turn hangs and none is hidden.
ShowsWhatRuns ==
    ~mixed /\ ~cut /\ queue = << >> /\ ~Unread /\ sender = "idle"
      /\ stream = << >> /\ ~Queued("finish") /\ cli \in {"none", "idle"} =>
        /\ session.busy = (shown # {})
        /\ shown = {OpenTurn(Whole)} \ {None}

\* Live follow relays what the terminal writes: all of it, once, in order,
\* nothing of the bridge's own, and under the turns that history knows.
FollowIsFaithful ==
    RelayedOnceInOrder /\ NoEchoRelayed /\ NothingPassedOver /\ RelayAgreesWithHistory

\* Terminal and bridge take turns: neither starts over the other, and at rest
\* the channel shows what runs.
TakesTurns == TypeOK /\ PromotesAtRest /\ ShowsWhatRuns
=============================================================================
