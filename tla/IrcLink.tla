------------------------------- MODULE IrcLink -------------------------------
(***************************************************************************)
(* The bridge's IRC connection (irc.py) and the managed channels that are  *)
(* created and closed over it (bridge.py).                                 *)
(*                                                                         *)
(* One task keeps a connection: it registers, joins every channel and asks *)
(* for every topic, then runs a reader and a writer until one of them      *)
(* ends.  Others ask for one thing at a time (JOIN, MODE, TOPIC, INVITE,   *)
(* PART) and wait for the server to confirm it.  The bridge's loop takes   *)
(* topics one by one and activates channels by them.                       *)
(*                                                                         *)
(* External: the server, its other users, and the connection.  The server  *)
(* takes lines as they are written (whatever comes between may as well     *)
(* come before or after); its own wait to be read, and are lost with the   *)
(* connection.                                                             *)
(* A managed channel is created by one action and later closed by another; *)
(* its owner takes its topic away at most, and not while the bridge is     *)
(* setting it or has yet to look at the topic there was.                   *)
(***************************************************************************)
EXTENDS Integers, Sequences, FiniteSets, SequencesExt

CONSTANTS
    Static,       \* config.irc.channels
    Managed,      \* channels that may be created
    Talk,         \* the channels whose messages are followed
    MaxTroubles,  \* bound: breaks, kicks, refusals, timeouts, topics set by others
    MaxSaid       \* bound: messages published

Channels == Static \union Managed
Tasks == Managed \union {"loop"}
Nothing == << >>

LinkBounds ==
    /\ IsFiniteSet(Channels) /\ Static \intersect Managed = {}
    /\ "loop" \notin Managed   \* channels' names begin with #
    /\ Talk \subseteq Channels /\ {MaxTroubles, MaxSaid} \subseteq Nat

VARIABLES
    net,       \* IRCClient._run: down, registering, joining or serving
    accepted,  \* _accepted_channels and _channel_order
    joined,    \* _joined
    topics,    \* _topics
    expected,  \* _negotiate: the channels it waits for
    ready,     \* _ready
    control,   \* _control_waiter, and the lock
    out,       \* _outgoing
    inbox,     \* _messages
    known,     \* Bridge._managed_channels and their runtimes
    closing,   \* Bridge._closing_channels
    active,    \* the channels whose runtime has an activation
    at,        \* what each task is doing
    subject,   \* the channel the loop is busy with
    alive,     \* external: the connection works
    up, down,  \* external: lines on their way
    members,   \* external: the channels the server has the bridge in
    topic,     \* external: whether a channel's topic activates it
    got,       \* external: the messages the server took
    said, troubles,  \* bounds
    created,   \* history: channels a create has begun for
    moved,     \* history: channels changed while this connection was joining
    spoiled    \* history: on this connection something happened it does not get over

irc    == <<joined, topics, expected, ready>>
bridge == <<known, closing, active, subject, created>>
server == <<alive, members, topic, got>>
vars == <<net, accepted, irc, control, out, inbox, bridge, at, server, up, down,
          said, troubles, moved, spoiled>>

Subject(t) == IF t = "loop" THEN subject ELSE t
Line(k, c) == [k |-> k, c |-> c, v |-> "none"]
Valued(k, c, v) == [k |-> k, c |-> c, v |-> v]
Answered == control # Nothing /\ control.st # "sent"
Settled == joined' = topics' /\ topics' = accepted'

Init ==
    /\ net = "down" /\ accepted = Static /\ joined = {} /\ topics = {}
    /\ expected = {} /\ ready = FALSE /\ control = Nothing
    /\ out = << >> /\ inbox = << >>
    /\ known = {} /\ closing = {} /\ active = {} /\ subject = Nothing /\ created = {}
    /\ at = [t \in Tasks |-> "idle"]
    /\ alive = FALSE /\ members = {} /\ topic = [c \in Channels |-> IF c \in Static THEN "on" ELSE "none"]
    /\ up = << >> /\ down = << >> /\ got = << >>
    /\ said = 0 /\ troubles = 0 /\ moved = FALSE /\ spoiled = FALSE
-----------------------------------------------------------------------------
(* Keeping a connection                                                    *)

Trouble == troubles < MaxTroubles /\ troubles' = troubles + 1

\* A line written to a connection that no longer works goes nowhere.
Write(lines) == up' = IF alive THEN up \o lines ELSE up

\* _connect_once: a new connection knows nothing of the last.
Connect ==
    /\ net = "down" /\ ~Answered
    /\ net' = "registering" /\ alive' = TRUE
    /\ joined' = {} /\ topics' = {} /\ moved' = ready /\ spoiled' = FALSE
    /\ UNCHANGED <<accepted, expected, ready, control, out, inbox, bridge, at, members,
                   topic, got, up, down, said, troubles>>

\* Mutant of JoinLines: it asks for nothing, and waits for what a server may send.
JoinLinesOnly(c) == <<Line("JOIN", c), Line("JOIN", c)>>
\* A server owes nobody a topic that is not set, so it is asked for.
JoinLines(c) == <<Line("JOIN", c), Line("ASK", c)>>
\* One channel after the other.
JoinAll(order) == [i \in 1 .. 2 * Len(order) |-> JoinLines(order[(i + 1) \div 2])[2 - (i % 2)]]

\* _negotiate, registered: every channel is joined and its topic asked for.
\* Nothing is awaited while the socket takes the lines.
Welcome ==
    /\ net = "registering" /\ alive
    /\ net' = "joining" /\ expected' = accepted
    /\ Write(JoinAll(SetToSeq(accepted)))
    /\ UNCHANGED <<accepted, joined, topics, ready, control, out, inbox, bridge, at,
                   server, down, said, troubles, moved, spoiled>>

\* Mutant of FlushFails: whoever waits for the queue goes on waiting.
FlushNeverFails(t) == FALSE
FlushFails(t) == at[t] = "flushing"

\* What stays of a queue when only its positions K do, in their order.
Kept(s, K) ==
    [n \in 1 .. Cardinality(K) |-> s[CHOOSE i \in K : Cardinality({j \in K : j <= i}) = n]]

\* External: the server has lost the bridge; a channel with nobody left in it
\* goes, and its topic with it.
Dropped ==
    /\ alive' = FALSE /\ members' = {} /\ up' = << >>
    /\ \E gone \in SUBSET (members \intersect Managed) :
           topic' = [c \in Channels |-> IF c \in gone THEN "none" ELSE topic[c]]

\* _run after a failure, with _close_connection: nobody is left waiting.  A
\* flush that failed stays in the queue and is passed over when it is reached.
\* Two tasks end before it gets there, and whoever was answered is ahead of it;
\* not so while joining.
Lost(rest) ==
    /\ ~(net = "serving" /\ Answered)
    /\ net' = "down" /\ ready' = FALSE
    /\ control' = IF control # Nothing /\ control.st = "sent"
                  THEN [control EXCEPT !.st = "failed"] ELSE control
    /\ at' = [t \in Tasks |-> IF FlushFails(t) THEN "idle" ELSE at[t]]
    /\ out' = Kept(rest, {i \in DOMAIN rest : rest[i].k # "FLUSH" \/ ~FlushFails(rest[i].c)})
    /\ subject' = IF FlushFails("loop") THEN Nothing ELSE subject
    /\ down' = << >> /\ Dropped
    /\ UNCHANGED <<accepted, joined, topics, expected, inbox, known, closing, active, created,
                   got, said, moved, spoiled>>

\* External: the connection breaks; some of what was on its way arrives yet.
Break ==
    /\ alive /\ Trouble /\ Dropped
    /\ \E n \in {0, Len(down)} : down' = SubSeq(down, 1, n)
    /\ UNCHANGED <<net, accepted, irc, control, out, inbox, bridge, at, got, said, moved, spoiled>>

\* _read_messages and _negotiate: the end of the connection.
Eof == net # "down" /\ ~alive /\ down = << >> /\ Lost(out) /\ UNCHANGED troubles

\* _negotiate: a channel it could not join ends the attempt.
JoinRefused ==
    /\ net = "joining" /\ down # << >> /\ Head(down).k = "473"
    /\ Lost(out) /\ UNCHANGED troubles
-----------------------------------------------------------------------------
(* The reader                                                              *)

\* Which line confirms what: a topic only as it was set, by the bridge itself.
Confirms(l) ==
    \/ l.k \in {"JOIN", "PART", "324", "341"}
       /\ l.k = [JOIN |-> "JOIN", PART |-> "PART", MODE |-> "324",
                 INVITE |-> "341", SET |-> "no"][control.k]
    \/ l.k = "SET" /\ control.k = "SET" /\ l.v = control.v

\* And which refuses it: 442 is for one who is not in the channel.
Refuses(l) ==
    \/ l.k = "473" /\ control.k = "JOIN"
    \/ l.k = "442" /\ control.k # "JOIN"

\* _handle_control_reply takes the line.
Awaited(l) ==
    control # Nothing /\ control.st = "sent" /\ control.c = l.c /\ (Confirms(l) \/ Refuses(l))

Controlled(l) ==
    /\ control' = [control EXCEPT !.st = IF Confirms(l) THEN "done" ELSE "failed"]
    /\ joined' = IF l.k = "JOIN" THEN joined \union {l.c}
                 ELSE IF l.k = "PART" THEN joined \ {l.c} ELSE joined
    /\ topics' = IF l.k = "SET" THEN topics \union {l.c}
                 ELSE IF l.k = "PART" THEN topics \ {l.c} ELSE topics
    /\ UNCHANGED <<inbox, up>>

\* Mutant of NotReady: a kick leaves the client ready.
StillReady == UNCHANGED ready
NotReady == ready' = FALSE

\* _handle_line, KICK: join again, and ask for the topic again.
Kicked(l) ==
    /\ l.k = "KICK" /\ l.c \in accepted
    /\ joined' = joined \ {l.c} /\ topics' = topics \ {l.c}
    /\ Write(JoinLines(l.c)) /\ UNCHANGED <<control, inbox>>

\* _handle_line, JOIN: a channel that is not the bridge's is left at once.
Joined(l) ==
    /\ l.k = "JOIN"
    /\ joined' = IF l.c \in accepted THEN joined \union {l.c} ELSE joined
    /\ Write(IF l.c \in accepted THEN << >> ELSE <<Valued("PART", l.c, "stray")>>)
    /\ UNCHANGED <<topics, control, inbox>>

\* _handle_line, TOPIC, 331 and 332: noted, and told to the bridge.
TopicTold(l) ==
    /\ l.k \in {"TOPIC", "SET", "331", "332"} /\ l.c \in accepted
    /\ topics' = topics \union {l.c}
    /\ inbox' = Append(inbox, [c |-> l.c, v |-> IF l.k = "331" THEN "331" ELSE l.v])
    /\ UNCHANGED <<joined, control, up>>

\* Any other line says nothing to the client.
Says(l) == l.k = "JOIN" \/ (l.k \in {"KICK", "TOPIC", "SET", "331", "332"} /\ l.c \in accepted)
Passed(l) == ~Says(l) /\ UNCHANGED <<joined, topics, control, inbox, up>>

\* One line, by _read_messages or by _negotiate; the latter ends when all it
\* expects is there, and the writer starts.
ReadLine ==
    /\ net \in {"joining", "serving"} /\ down # << >> /\ down' = Tail(down)
    /\ ~(net = "joining" /\ Head(down).k = "473")
    /\ LET l == Head(down) IN
       /\ \/ Awaited(l) /\ Controlled(l)
          \/ ~Awaited(l) /\ (Kicked(l) \/ Joined(l) \/ TopicTold(l) \/ Passed(l))
       /\ net' = IF net = "joining" /\ joined' = expected /\ topics' = expected
                 THEN "serving" ELSE net
       /\ IF ~Awaited(l) /\ l.k = "KICK" /\ l.c \in accepted THEN NotReady
          ELSE LET noted == net = "joining" \/ (~Awaited(l) /\ Says(l)) IN
               ready' = (ready \/ (net' = "serving" /\ noted
                                   /\ joined' = topics' /\ topics' = accepted))
    /\ UNCHANGED <<accepted, expected, out, bridge, at, server, said, troubles, moved, spoiled>>
-----------------------------------------------------------------------------
(* The writer                                                              *)

\* send_privmsg, send_protocol: anyone publishes into an active channel.
Say(c) ==
    /\ said < MaxSaid /\ c \in active \ closing
    /\ said' = said + 1
    /\ out' = Append(out, Valued("MSG", c, said + 1))
    /\ UNCHANGED <<net, accepted, irc, control, inbox, bridge, at, server, up, down,
                   troubles, moved, spoiled>>

Reached(k) == net = "serving" /\ out # << >> /\ Head(out).k = k

\* _write_messages: a message is off the queue before it is written.
WriteMessage ==
    /\ Reached("MSG") /\ out' = Tail(out)
    /\ Write(<<Head(out)>>)
    /\ UNCHANGED <<net, accepted, irc, control, inbox, bridge, at, server, down, said,
                   troubles, moved, spoiled>>

\* Mutant of Unwritten: a message that could not be written is queued again.
UnwrittenAgain == Append(Tail(out), Head(out))
Unwritten == Tail(out)

\* _write_line raises on a broken connection, and that ends the connection.
WriterFails == Reached("MSG") /\ ~alive /\ Lost(Unwritten) /\ UNCHANGED troubles

\* _write_messages: everything before the flush has been written.
Flushed ==
    /\ Reached("FLUSH") /\ out' = Tail(out)
    /\ at' = [at EXCEPT ![Head(out).c] = "clear"]
    /\ UNCHANGED <<net, accepted, irc, control, inbox, bridge, server, up, down, said,
                   troubles, moved, spoiled>>
-----------------------------------------------------------------------------
(* The server, and its other users (external)                              *)

Reply(lines) == up' = Tail(up) /\ down' = down \o lines

TakeJoin(c) ==
    /\ Head(up).k = "JOIN"
    /\ \/ c \in members /\ Reply(<< >>) /\ UNCHANGED <<members, troubles, spoiled>>
       \/ /\ c \notin members /\ members' = members \union {c} /\ UNCHANGED <<troubles, spoiled>>
          /\ Reply(<<Line("JOIN", c)>> \o
                   (IF topic[c] = "on" THEN <<Valued("332", c, "on")>> ELSE << >>))
       \/ /\ c \in Managed \ members /\ Trouble /\ spoiled' = TRUE
          /\ Reply(<<Line("473", c)>>) /\ UNCHANGED members
    /\ UNCHANGED <<topic, got>>

TakeFromOutside(c) ==
    /\ Head(up).k # "JOIN" /\ c \notin members
    /\ Reply(IF Head(up).k = "MSG" THEN << >> ELSE <<Line("442", c)>>)
    /\ UNCHANGED <<members, topic, got, troubles, spoiled>>

TakeQuery(c) ==
    /\ Head(up).k \in {"ASK", "MODE", "INVITE"} /\ c \in members
    /\ Reply(CASE Head(up).k = "MODE" -> <<Line("324", c)>>
               [] Head(up).k = "INVITE" -> <<Line("341", c)>>
               [] OTHER -> <<IF topic[c] = "on" THEN Valued("332", c, "on")
                             ELSE Line("331", c)>>)
    /\ UNCHANGED <<members, topic, got, troubles, spoiled>>

TakeSet(c) ==
    /\ Head(up).k = "SET" /\ c \in members
    /\ topic' = [topic EXCEPT ![c] = Head(up).v]
    /\ Reply(<<Valued("SET", c, Head(up).v)>>)
    /\ UNCHANGED <<members, got, troubles, spoiled>>

TakePart(c) ==
    /\ Head(up).k = "PART" /\ c \in members
    /\ members' = members \ {c} /\ Reply(<<Line("PART", c)>>)
    /\ UNCHANGED <<topic, got, troubles, spoiled>>

TakeMessage(c) ==
    /\ Head(up).k = "MSG" /\ c \in members
    /\ got' = Append(got, Head(up)) /\ Reply(<< >>)
    /\ UNCHANGED <<members, topic, troubles, spoiled>>

ServerTakes ==
    /\ up # << >>
    /\ LET c == Head(up).c IN
       \/ TakeJoin(c) \/ TakeFromOutside(c) \/ TakeQuery(c) \/ TakeSet(c)
       \/ TakePart(c) \/ TakeMessage(c)
    /\ UNCHANGED <<net, accepted, irc, control, out, inbox, bridge, at, alive, said,
                   moved>>

Kick(c) ==
    /\ c \in members /\ Trouble
    /\ members' = members \ {c} /\ down' = Append(down, Line("KICK", c))
    /\ UNCHANGED <<net, accepted, irc, control, out, inbox, bridge, at, alive, topic, got,
                   up, said, moved, spoiled>>

OwnerSets(c, v) ==
    /\ topic[c] # v /\ Trouble
    /\ c \in Managed => v = "none" /\ c \in known \ closing /\ at[c] = "idle" /\ subject # c
                       /\ \A i \in DOMAIN inbox : inbox[i].c # c
    /\ topic' = [topic EXCEPT ![c] = v]
    /\ down' = IF c \in members THEN Append(down, Valued("TOPIC", c, v)) ELSE down
    /\ UNCHANGED <<net, accepted, irc, control, out, inbox, bridge, at, alive, members,
                   got, up, said, moved, spoiled>>
-----------------------------------------------------------------------------
(* Controls                                                                *)

\* What a step asks of the server, and where it leads when that is confirmed.
Asks == [join |-> "JOIN", private |-> "MODE", topic |-> "SET", invite |-> "INVITE",
         unset |-> "SET", leave |-> "PART", clear |-> "SET", part |-> "PART",
         rePrivate |-> "MODE", reTopic |-> "SET"]
Then == [join |-> "private", private |-> "topic", topic |-> "invite", invite |-> "idle",
         unset |-> "leave", leave |-> "remove", clear |-> "part", part |-> "remove",
         rePrivate |-> "reTopic", reTopic |-> "idle"]
\* And where it leads when it is not: a create is undone, a close is put off.
Otherwise ==
    [join |-> "undo", private |-> "undo", topic |-> "undo", invite |-> "undo",
     unset |-> "leave", leave |-> "remove", clear |-> "idle", part |-> "idle",
     rePrivate |-> "idle", reTopic |-> "idle"]

\* unregister_channel, at the end of part_channel.
Unregister(c, ok) ==
    IF ok /\ c \in accepted
    THEN /\ accepted' = accepted \ {c} /\ joined' = joined \ {c} /\ topics' = topics \ {c}
         /\ ready' = IF net = "serving" /\ Settled THEN TRUE ELSE ready
         /\ moved' = (moved \/ net = "joining")
    ELSE UNCHANGED <<accepted, joined, topics, ready, moved>>

\* Mutant of Forgotten: a channel that is gone is still closing.
ForgottenNot(c) == closing
Forgotten(c) == closing \ {c}

\* _remove_channel: the runtime and its worker go.
RemoveChannel(t, c, ok) ==
    /\ known' = known \ {c} /\ closing' = Forgotten(c) /\ active' = active \ {c}
    /\ at' = [at EXCEPT ![c] = "idle", ![t] = "idle"]
    /\ out' = Kept(out, {i \in DOMAIN out : out[i].k # "FLUSH" \/ out[i].c # c})
    /\ subject' = IF t = "loop" THEN Nothing ELSE subject
    /\ control' = IF control # Nothing /\ control.t \in {t, c} THEN Nothing ELSE control
    /\ Unregister(c, ok)

\* set_topic sets ready without looking at the writer; then _handle_topic.
AfterTopic(t, c, ok) ==
    /\ ready' = IF ok /\ joined = topics /\ topics = accepted THEN TRUE ELSE ready
    /\ active' = IF ok /\ at[t] \in {"topic", "reTopic"} /\ c \in known
                 THEN active \union {c} ELSE active

\* The step of t has been confirmed, or has failed.
Proceed(t, ok) ==
    LET c == Subject(t)
        next == IF ok THEN Then[at[t]] ELSE Otherwise[at[t]]
    IN /\ IF next = "remove" THEN RemoveChannel(t, c, ok)
          ELSE /\ at' = [at EXCEPT ![t] = next]
               /\ subject' = IF t = "loop" /\ next = "idle" THEN Nothing ELSE subject
               /\ control' = IF control # Nothing /\ control.t = t THEN Nothing ELSE control
               /\ IF Asks[at[t]] = "SET" THEN AfterTopic(t, c, ok) ELSE UNCHANGED <<ready, active>>
               /\ UNCHANGED <<accepted, joined, topics, known, closing, out, moved>>
       /\ UNCHANGED <<net, expected, inbox, created, server, down, said>>

\* _control, entered: the lock is free.  It fails at once for a channel that
\* is not registered and without a connection; a join may need nothing.
Ask(t) ==
    /\ at[t] \in DOMAIN Asks /\ control = Nothing
    /\ LET c == Subject(t)
           value == IF at[t] \in {"topic", "reTopic"} THEN "on" ELSE "none"
           line == Valued(Asks[at[t]], c, IF at[t] = "part" THEN "closed" ELSE value)
       IN \/ (c \notin accepted \/ net = "down" \/ ~alive) /\ Proceed(t, FALSE) /\ UNCHANGED up
          \/ c \in accepted /\ at[t] = "join" /\ c \in joined /\ Proceed(t, TRUE) /\ UNCHANGED up
          \/ /\ c \in accepted /\ net # "down" /\ ~(at[t] = "join" /\ c \in joined)
             /\ control' = [t |-> t, c |-> c, k |-> line.k, v |-> value, st |-> "sent"]
             /\ IF net = "registering" THEN UNCHANGED up ELSE Write(<<line>>)
             /\ UNCHANGED <<net, accepted, irc, out, inbox, bridge, at, server, down, said, moved>>
    /\ UNCHANGED <<troubles, spoiled>>

\* _control, resumed by _handle_control_reply or by _close_connection.
Resume(t) ==
    /\ Answered /\ control.t = t
    /\ Proceed(t, control.st = "done") /\ UNCHANGED <<up, troubles, spoiled>>

TimesOut(t) ==
    /\ control # Nothing /\ control.t = t /\ control.st = "sent" /\ Trouble /\ spoiled' = TRUE
    /\ Proceed(t, FALSE) /\ UNCHANGED up
-----------------------------------------------------------------------------
(* Managed channels                                                        *)

\* _action_create and register_channel; the backend has created the session.
Create(c) ==
    /\ c \notin created /\ created' = created \union {c}
    /\ accepted' = accepted \union {c} /\ ready' = FALSE
    /\ moved' = (moved \/ net = "joining")
    /\ known' = known \union {c} /\ at' = [at EXCEPT ![c] = "join"]
    /\ UNCHANGED <<net, joined, topics, expected, control, out, inbox, closing, active,
                   subject, server, up, down, said, troubles, spoiled>>

\* _action_create has failed and has closed the session it created.
Undo(c) ==
    /\ at[c] = "undo" /\ at' = [at EXCEPT ![c] = "unset"]
    /\ UNCHANGED <<net, accepted, irc, control, out, inbox, bridge, server, up, down, said,
                   troubles, moved, spoiled>>

\* _action_close: the session has been released.
Close(c) ==
    /\ c \in (known \intersect active) \ closing /\ at[c] = "idle"
    /\ closing' = closing \union {c} /\ at' = [at EXCEPT ![c] = "flush"]
    /\ UNCHANGED <<net, accepted, irc, control, out, inbox, known, active, subject, created,
                   server, up, down, said, troubles, moved, spoiled>>

\* Mutant of Queued: what is queued is not waited for.
QueuedNever(c) == FALSE
Queued(c) == out # << >>

\* _finish_channel_close and flush: it is put off without a writer.
Flush(t) ==
    /\ at[t] = "flush"
    /\ LET off == net # "serving" \/ Subject(t) \notin known IN
       /\ at' = [at EXCEPT ![t] = IF off THEN "idle" ELSE IF Queued(Subject(t))
                                  THEN "flushing" ELSE "clear"]
       /\ out' = IF ~off /\ Queued(Subject(t)) THEN Append(out, Line("FLUSH", t)) ELSE out
       /\ subject' = IF off /\ t = "loop" THEN Nothing ELSE subject
       /\ spoiled' = (spoiled \/ (off /\ net = "joining"))
    /\ UNCHANGED <<net, accepted, irc, control, inbox, known, closing, active, created,
                   server, up, down, said, troubles, moved>>

\* Mutant of Activates: what a channel had before stays without a topic.
ActivatesStill(m) == active \union (IF m.v = "on" THEN {m.c} ELSE {})
\* _handle_topic: a channel is active by its topic and by nothing else.
Activates(m) == (active \ {m.c}) \union (IF m.v = "on" THEN {m.c} ELSE {})

\* _irc_loop, a topic: _handle_topic, or _handle_managed_topic, which goes on
\* with a close or gives a channel without a topic its own.
LoopTakes ==
    /\ at["loop"] = "idle" /\ inbox # << >> /\ inbox' = Tail(inbox)
    /\ LET m == Head(inbox)
           awaits == m.c \in known /\ (m.c \in closing \/ m.v = "331")
           takes == m.c \in Static \/ (m.c \in known /\ ~awaits)
       IN /\ active' = IF takes THEN Activates(m)
                       ELSE active \ {m.c}
          /\ at' = [at EXCEPT !["loop"] = IF ~awaits THEN "idle"
                                          ELSE IF m.c \in closing THEN "awaitClose" ELSE "awaitFix"]
          /\ subject' = IF awaits THEN m.c ELSE Nothing
    /\ UNCHANGED <<net, accepted, irc, control, out, known, closing, created, server, up,
                   down, said, troubles, moved, spoiled>>

\* wait_ready.
LoopGoesOn ==
    /\ at["loop"] \in {"awaitClose", "awaitFix"} /\ ready
    /\ at' = [at EXCEPT !["loop"] = IF @ = "awaitClose" THEN "flush" ELSE "rePrivate"]
    /\ UNCHANGED <<net, accepted, irc, control, out, inbox, bridge, server, up, down, said,
                   troubles, moved, spoiled>>

LoopGivesUp ==
    /\ at["loop"] \in {"awaitClose", "awaitFix"} /\ ~ready /\ Trouble /\ spoiled' = TRUE
    /\ at' = [at EXCEPT !["loop"] = "idle"] /\ subject' = Nothing
    /\ UNCHANGED <<net, accepted, irc, control, out, inbox, known, closing, active, created,
                   server, up, down, said, moved>>

Next ==
    \/ ServerTakes
    \/ /\ up = << >>
       /\ \/ Connect \/ Welcome \/ Break \/ Eof \/ JoinRefused \/ ReadLine
          \/ WriteMessage \/ WriterFails \/ Flushed
          \/ LoopTakes \/ LoopGoesOn \/ LoopGivesUp
          \/ \E c \in Talk : Say(c)
          \/ \E c \in Channels : Kick(c) \/ \E v \in {"on", "none"} : OwnerSets(c, v)
          \/ \E t \in Tasks : Ask(t) \/ Resume(t) \/ TimesOut(t) \/ Flush(t)
          \/ \E c \in Managed : Create(c) \/ Undo(c) \/ Close(c)

Spec == Init /\ [][Next]_vars
-----------------------------------------------------------------------------
(* Properties                                                              *)

\* The type invariant.
TypeOK ==
    /\ net \in {"down", "registering", "joining", "serving"}
    /\ accepted \subseteq Channels /\ expected \subseteq Channels
    /\ joined \subseteq Channels /\ topics \subseteq Channels /\ ready \in BOOLEAN
    /\ known \subseteq Managed /\ closing \subseteq known
    /\ active \subseteq known \union Static
    /\ subject \in Channels \union {Nothing} /\ (subject = Nothing) = (at["loop"] = "idle")
    /\ at \in [Tasks -> DOMAIN Asks \union {"idle", "undo", "flush", "flushing",
                                            "awaitClose", "awaitFix"}]

\* wait_ready promises a client that is in all of its channels, knows the
\* topic of each, and has a writer; everything a managed channel needs is built
\* on it.  A channel registered or given up in the middle of joining breaks the
\* promise (set_topic does not look at the writer), until the connection is lost.
ReadyMeansReady ==
    ready /\ ~moved =>
        /\ net = "serving"
        /\ joined = topics
        /\ joined = accepted \/ (control # Nothing /\ control.k = "PART" /\ control.st = "done")

\* With nothing under way on a working connection, the client has come up and
\* agrees with the server on where it is, and a channel is active exactly if
\* its topic says so, whatever was kicked, broken off and set on the way; no
\* close has been forgotten.  Not so while joining waits for channels that have
\* changed; after a wait timed out on this connection (a PART that is confirmed
\* late is not noticed), the server refused a JOIN (one after a kick is not
\* tried again) or a close met it joining (it is put off until the next); and
\* once a create that failed has left its channel
\* with the client, which docs and tests say it does not.
Quiet ==
    /\ alive /\ net # "registering" /\ up = << >> /\ down = << >> /\ inbox = << >>
    /\ control = Nothing /\ out = << >> /\ \A t \in Tasks : at[t] = "idle"
    /\ ~moved /\ ~spoiled
QuietIsSettled ==
    Quiet /\ accepted \subseteq Static \union known =>
        /\ net = "serving" /\ ready
        /\ joined = accepted /\ topics = accepted /\ members = accepted
        /\ \A c \in Static \union known : (c \in active) = (topic[c] = "on")
        /\ closing = {}

\* A close parts from its channel only after the last thing said in it.
LastWords ==
    \A i \in 1 .. Len(up) : up[i].k = "PART" /\ up[i].v = "closed" =>
        \A j \in 1 .. Len(out) : out[j].k = "MSG" => out[j].c # up[i].c

\* What the server gets, it gets once and in the order it was published, over
\* any number of connections; what is lost is lost.
InOrderAtMostOnce ==
    LET all == got \o up \o out IN
    \A i, j \in DOMAIN all : i < j /\ all[i].k = "MSG" /\ all[j].k = "MSG" => all[i].v < all[j].v

\* Whoever waits for the queue to be flushed will be told: its mark is in a
\* queue that a writer is working on.  It has no timeout, and the loop that
\* waits in it reads no IRC.
FlushWillEnd ==
    \A t \in Tasks : at[t] = "flushing" =>
        /\ net = "serving"
        /\ \E i \in 1 .. Len(out) : out[i].k = "FLUSH" /\ out[i].c = t

\* Readiness is true when it is claimed, and comes once the connection is quiet.
LinkSettles == TypeOK /\ ReadyMeansReady /\ QuietIsSettled

\* What is published goes out in its order and once, and a close comes after what
\* it waits for, a wait that ends.
SaidBeforeClose == InOrderAtMostOnce /\ LastWords /\ FlushWillEnd
=============================================================================
