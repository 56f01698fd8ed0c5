----------------------------- MODULE MCJournals -----------------------------
(* What the journals remember, for TLC: actions, and the history that a    *)
(* client pages through, from the journal or from a transcript.  They      *)
(* share no state, and each behaviour is one of theirs: of actions, over   *)
(* two processes or over two activations, and over two of both where       *)
(* nothing is cancelled; of pages, of one entry of two recorded times, of  *)
(* two of a longer session with one time for all, or of two of a session   *)
(* some of whose entries have no recorded time, while the clock goes on.   *)
EXTENDS ActionJournal, TLC

VARIABLES
    part,                                                       \* which of them
    source, log, written, busy, clock, modified, cached, asking, read, cursor, got,
    ended, due, dropped, over, rewound

Restarts == INSTANCE ActionJournal WITH MaxGeneration <- 1
Topics   == INSTANCE ActionJournal WITH MaxEpoch <- 1

Pages == INSTANCE HistoryPages WITH
    Sources <- {"claude", "pi", "journal"}, Limit <- 1, MaxEntries <- 4,
    Stamps <- {1, 4}, MaxClock <- 1, closed <- ended
Long == INSTANCE HistoryPages WITH
    Sources <- {"claude", "pi", "journal"}, Limit <- 2, MaxEntries <- 5,
    Stamps <- {1}, MaxClock <- 1, closed <- ended
Untimed == INSTANCE HistoryPages WITH
    Sources <- {"claude", "pi"}, Limit <- 2, MaxEntries <- 4,
    Stamps <- {0, 2}, MaxClock <- 3, closed <- ended

ASSUME PartsAssumption ==
    Pages!PagesBounds /\ Long!PagesBounds /\ Untimed!PagesBounds

paging == <<source, log, written, busy, clock, modified, cached, asking, read, cursor,
            got, ended, due, dropped, over, rewound>>

\* A part that is not the one that runs starts in one way only.
MCInit ==
    /\ part \in {"restarts", "topics", "lasting", "pages", "long", "untimed"}
    /\ Init
    /\ Pages!Init /\ (part \notin {"pages", "long", "untimed"} => source = "journal")
    /\ part = "untimed" => source # "journal"
MCNext ==
    \/ part = "restarts" /\ Restarts!Next /\ UNCHANGED <<part, paging>>
    \/ part = "topics" /\ Topics!Next /\ UNCHANGED <<part, paging>>
    \/ /\ part = "lasting" /\ Next /\ UNCHANGED <<part, paging>>
       /\ \A id \in ControlIds : issued'[id] = 0
    \/ part = "pages" /\ Pages!Next /\ UNCHANGED <<part, vars>>
    \/ part = "long" /\ Long!Next /\ UNCHANGED <<part, vars>>
    \/ part = "untimed" /\ Untimed!Next /\ UNCHANGED <<part, vars>>
MCSpec == MCInit /\ [][MCNext]_<<part, vars, paging>>

\* A client that has paged to the end has every entry there was when it began,
\* but those of the journal that a page has jumped over.
HistoryHasNoGap == Pages!HistoryHasNoGap
\* Pages never contradict one another or the session.
PagesAgree ==
    /\ part = "pages" => Pages!PagesAgree
    /\ part = "long" => Long!PagesAgree
    /\ part = "untimed" => Untimed!PagesAgree
=============================================================================
