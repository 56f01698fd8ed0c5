---------------------------- MODULE HistoryPages ----------------------------
(***************************************************************************)
(* history.request (bridge.py, _action_history): a client pages backwards  *)
(* through one session while the session goes on.                          *)
(*                                                                         *)
(* Claude and Pi page a transcript: the whole of it is read for each page, *)
(* the cursor is an offset from its end, and turns, times and the events   *)
(* of an entry are derived anew.  Pi keeps what it read for some seconds.  *)
(* Backends without a transcript are served from the bridge's own journal, *)
(* by time, and a page of it holds so many bytes at most.                  *)
(*                                                                         *)
(* An entry is one message; its recorded time need not follow the order,   *)
(* and it may have none.  The thousand milliseconds the code gives an      *)
(* entry are Window here.                                                  *)
(*                                                                         *)
(* External: the session, which writes, settles and may go back to an      *)
(* earlier entry (another branch); the client, which asks for page after   *)
(* page until there are no more.                                           *)
(***************************************************************************)
EXTENDS Integers, Sequences, FiniteSets

CONSTANTS
    Sources,     \* the sources to check: "claude", "pi", "journal"
    Limit,       \* entries to a page
    MaxEntries,  \* bound: entries ever written
    Stamps,      \* recorded times, Unrecorded among them or not
    MaxClock     \* bound: the last time the clock shows

Window == 2
Unrecorded == 0
Nothing == << >>
PagesBounds ==
    /\ Sources \subseteq {"claude", "pi", "journal"}
    /\ Limit \in Nat \ {0} /\ {MaxEntries, MaxClock} \subseteq Nat /\ Stamps \subseteq Nat

VARIABLES
    source,     \* which of them serves the session
    log,        \* external: the active branch of the session
    written,    \* external: how many entries were ever written
    busy,       \* the backend's session is running a turn
    clock,      \* external: the time of day
    modified,   \* external: when the transcript was last written
    cached,     \* PiBackend._entries_cache
    asking,     \* where the request is
    read,       \* the entries it has read
    cursor,     \* the client's cursor
    got,        \* what the client has: entry, turn, and time
    closed,     \* what it was told of ends: turn, time, last entry, and its Place
    due,        \* history: the entries there were at the first page
    dropped,    \* history: the entries that a page of the journal jumps over
    over,       \* history: the turns that have ended
    rewound     \* history: the session has gone back

time    == <<clock, modified>>
session == <<log, written, busy, over, rewound, time>>
client  == <<cursor, got, closed, due, dropped>>
vars == <<source, session, cached, asking, read, client>>

Init ==
    /\ source \in Sources
    /\ log = << >> /\ written = 0 /\ busy = FALSE /\ clock = 1 /\ modified = 1
    /\ cached = Nothing /\ asking = "no" /\ read = << >>
    /\ cursor = 0 /\ got = {} /\ closed = {} /\ due = {} /\ dropped = {}
    /\ over = {} /\ rewound = FALSE
-----------------------------------------------------------------------------
(* Turns and times                                                         *)

\* _turn_ids: an entry's turn is named for the prompt it follows, wherever in
\* the transcript that is.
TurnAt(entries, i) ==
    LET prompts == {j \in 1 .. i : entries[j].prompt} IN
    IF prompts = {} THEN 0
    ELSE entries[CHOOSE j \in prompts : \A k \in prompts : k <= j].id

\* Mutant of Anchor: Claude's on the clock too.
AnchorOnClock(entries) == clock - (Len(entries) - 1) * Window
\* _entry_times and _history_anchor: where the first entry would be if each had
\* Window, the last one now (Pi) or when the transcript was written (Claude).
Anchor(entries) ==
    (IF source = "pi" THEN clock ELSE modified) - (Len(entries) - 1) * Window

\* The recorded time, or the place counted from the anchor.
Value(entries, i) ==
    IF entries[i].at # Unrecorded THEN entries[i].at
    ELSE Anchor(entries) + (i - 1) * Window

\* Mutant of Times: the times as they are.
TimesRecorded(entries) == [i \in DOMAIN entries |-> Value(entries, i)]
\* _message_times and _entry_times: moved forward where they do not increase.
Times(entries) ==
    LET t[i \in DOMAIN entries] ==
            IF i = 1 \/ Value(entries, i) > t[i - 1] THEN Value(entries, i)
            ELSE t[i - 1] + 1
    IN t

\* What is derived from an entry stays before the next one.
Cap(entries, i) ==
    IF i < Len(entries) THEN Times(entries)[i + 1] ELSE Times(entries)[i] + Window

Earlier(a, b) == IF a < b THEN a ELSE b

\* Mutant of EndsTurn: the last entry ends its turn.
EndsTurnAtOnce(entries, i) ==
    \A j \in DOMAIN entries : TurnAt(entries, j) = TurnAt(entries, i) => j <= i
\* The last entry of a turn ends it, unless the session is at it.
EndsTurn(entries, i) ==
    /\ TurnAt(entries, i) # 0
    /\ \A j \in DOMAIN entries : TurnAt(entries, j) = TurnAt(entries, i) => j <= i
    /\ i < Len(entries) \/ ~busy
-----------------------------------------------------------------------------
(* The session (external)                                                  *)

Write(prompt) ==
    /\ written < MaxEntries
    /\ written' = written + 1 /\ modified' = clock
    /\ \E at \in IF source = "journal" THEN Stamps \ {Unrecorded} ELSE Stamps :
          log' = Append(log, [id |-> written', prompt |-> prompt, at |-> at])
    \* message_end: "a cached copy would serve stale history".
    /\ cached' = Nothing

Prompt ==
    /\ ~busy /\ Write(TRUE) /\ busy' = TRUE
    /\ UNCHANGED <<source, asking, read, client, clock, over, rewound>>

Reply ==
    /\ busy /\ Write(FALSE)
    /\ UNCHANGED <<source, asking, read, client, clock, busy, over, rewound>>

Settle ==
    /\ busy /\ busy' = FALSE
    /\ over' = over \union {TurnAt(log, Len(log))}
    /\ UNCHANGED <<source, asking, read, client, log, written, cached, rewound, time>>

\* Another branch: nothing tells the backend.
Rewind ==
    /\ ~busy /\ source # "journal" /\ ~rewound
    /\ \E n \in 1 .. Len(log) - 1 : log' = SubSeq(log, 1, n)
    /\ rewound' = TRUE
    /\ UNCHANGED <<source, asking, read, client, written, busy, over, cached, time>>

\* The clock goes on, far enough to matter.  It matters to a transcript only.
Tick ==
    /\ clock < MaxClock /\ source # "journal"
    /\ clock' = clock + Window
    /\ UNCHANGED <<source, asking, read, client, log, written, busy, over, rewound,
                   cached, modified>>
-----------------------------------------------------------------------------
(* The request                                                             *)

\* The cached entries, or those the process or the file has now.
Ask ==
    /\ asking = "no"
    /\ due' = IF cursor = 0 THEN {log[i].id : i \in DOMAIN log} ELSE due
    /\ asking' = "asked"
    /\ UNCHANGED <<source, session, cached, read, cursor, got, closed, dropped>>

Read ==
    /\ asking = "asked" /\ asking' = "read"
    /\ read' = IF cached # Nothing THEN cached ELSE log
    /\ UNCHANGED <<source, session, cached, client>>

CacheExpires ==
    /\ cached # Nothing /\ cached' = Nothing
    /\ UNCHANGED <<source, session, asking, read, client>>

\* History: where position i of what was read is in the transcript of now.
\* Entries may have come since it was read.
Place(i) ==
    IF i < Len(read) THEN "inside" ELSE IF read = log THEN "last" ELSE "behind"

Deliver(positions) ==
    /\ got' = got \union
         {<<read[i].id, TurnAt(read, i), Times(read)[i]>> : i \in positions}
    /\ closed' = closed \union
         {<<TurnAt(read, i), Earlier(Times(read)[i] + Window - 1, Cap(read, i) - 1),
            read[i].id, Place(i)>> : i \in {j \in positions : EndsTurn(read, j)}}

\* Mutants of NextCursor: the position the page began at; the position it
\* ended at, on top of the old cursor.
CursorAtStart(start, stop) == start
CursorPastEnd(start, stop) == cursor + stop
\* The next cursor: how many entries lie behind, counted from the end.
NextCursor(start, stop) == cursor + (stop - start)

\* list_history of Claude and Pi; Pi stores what it read, however old it has
\* become.
TranscriptPage ==
    LET stop  == IF Len(read) > cursor THEN Len(read) - cursor ELSE 0
        start == IF stop > Limit THEN stop - Limit ELSE 0 IN
    /\ asking = "read" /\ source # "journal"
    /\ Deliver((start + 1) .. stop)
    /\ cached' = IF source = "pi" THEN read ELSE Nothing
    /\ IF start > 0
       THEN asking' = "no" /\ cursor' = NextCursor(start, stop)
       ELSE asking' = "done" /\ UNCHANGED cursor
    /\ read' = << >>
    /\ UNCHANGED <<source, session, due, dropped>>

\* at < beforeAt, or no bound for the first page.
Before(i) == cursor = 0 \/ read[i].at < cursor

\* By time, then in the order of the table.
Older(i, j) == read[i].at < read[j].at \/ (read[i].at = read[j].at /\ i < j)

\* StateStore._history: the latest Limit events before a time, of which the
\* oldest are kept, as many as the bytes allow: one at least, and the events'
\* sizes are any.  The client goes on before the oldest it got, so it is never
\* sent what the page has dropped, nor older events of that same time.
JournalPage ==
    LET found == {i \in DOMAIN read : Before(i)}
        page  == {i \in found : Cardinality({j \in found : Older(i, j)}) < Limit}
        first == CHOOSE i \in page : \A j \in page : ~Older(j, i) IN
    /\ asking = "read" /\ source = "journal"
    /\ \/ /\ page = {} /\ asking' = "done"
          /\ UNCHANGED <<cursor, got, dropped>>
       \/ \E n \in 1 .. Cardinality(page) :
             LET kept == {i \in page : Cardinality({j \in page : Older(j, i)}) < n} IN
             /\ asking' = "no" /\ cursor' = read[first].at
             /\ got' = got \union {<<read[i].id, TurnAt(read, i), read[i].at>> : i \in kept}
             /\ dropped' = dropped \union
                  {read[i].id : i \in {j \in found \ kept : read[j].at >= cursor'}}
    /\ read' = << >>
    /\ UNCHANGED <<source, session, cached, closed, due>>

Next ==
    \/ Prompt \/ Reply \/ Settle \/ Rewind \/ Tick
    \/ Ask \/ Read \/ CacheExpires \/ TranscriptPage \/ JournalPage

Spec == Init /\ [][Next]_vars
-----------------------------------------------------------------------------
(* Properties                                                              *)

\* Types; a cursor of a transcript is an offset that leaves something
\* behind it.
TypeOK ==
    /\ \A i \in DOMAIN log : log[i].id \in 1 .. written /\ log[i].at \in Stamps
    /\ asking \in {"no", "asked", "read", "done"}
    /\ source # "journal" => cursor = 0 \/ cursor \in 1 .. written - 1
    /\ source = "journal" => cursor \in {0} \union Stamps

\* A client that has paged to the end has every entry there was when it began,
\* however the session grew meanwhile: all of a transcript's, and of the
\* journal's all but those a page has jumped over, for its bytes or for a time
\* that several have.
HistoryHasNoGap ==
    asking = "done" /\ ~rewound =>
        due \subseteq {g[1] : g \in got} \union IF source = "journal" THEN dropped ELSE {}

\* Entries keep their times while all of them are recorded.  Those that are not
\* are counted from an anchor, which for Claude is "a stored value rather than
\* the clock": it stays while nothing is written.
TimesAreFixed ==
    \/ \A i \in DOMAIN log : log[i].at # Unrecorded
    \/ source = "claude" /\ due = {log[i].id : i \in DOMAIN log}

\* "A turn split across two pages keeps one identity and one ordering": an
\* entry has the same turn on every page that holds it, and the same time, a
\* later entry a later one, as long as times are fixed.
OneIdentity ==
    source # "journal" /\ ~rewound => \A g, h \in got :
        /\ g[1] = h[1] => g[2] = h[2]
        /\ TimesAreFixed => IF g[1] = h[1] THEN g = h ELSE g[1] < h[1] => g[3] < h[3]

\* History ends a turn only when it has ended, at a time after its entries and
\* before those of the next turn, if they were there.  Whether the session is at
\* the turn is asked after the transcript was read, so the end may follow an
\* entry that was the last when it was read: what came then is not before it.
EndsAreHonest ==
    \A c \in closed :
        /\ c[1] \in over
        /\ ~rewound /\ TimesAreFixed => \A g \in got :
              /\ g[2] = c[1] /\ (g[1] <= c[3] \/ c[4] # "behind") => g[3] <= c[2]
              /\ g[2] > c[1] /\ c[4] = "inside" => c[2] < g[3]

\* Pages never contradict one another or the session: one turn, one place and
\* one end for every entry, whatever page it is read on.
PagesAgree == TypeOK /\ OneIdentity /\ EndsAreHonest
=============================================================================
