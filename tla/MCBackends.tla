----------------------------- MODULE MCBackends -----------------------------
(* What the bridge attaches to, for TLC: the Codex app-server connection,  *)
(* and one Claude session.  They share no state, and each behaviour is one *)
(* of theirs: of Codex, with a trouble or with one more call.              *)
EXTENDS CodexLink, TLC

VARIABLES
    part,                                                       \* which of them
    file, half, inode, term, cli, stream, tail, session, queue, got, batch, sender,
    ending, driven, log, shown, begun, first, mixed, cut

Calm == INSTANCE CodexLink WITH MaxCalls <- 3, MaxTroubles <- 0

Claude == INSTANCE ClaudeSession WITH MaxLines <- 3, MaxDriven <- 2

ASSUME PartsAssumption == Claude!ClaudeBounds

claude == <<file, half, inode, term, cli, stream, tail, session, queue, got, batch,
            sender, ending, driven, log, shown, begun, first, mixed, cut>>

\* A part that is not the one that runs starts in one way only.
MCInit ==
    /\ part \in {"codex", "calm", "claude"}
    /\ Init /\ (part = "claude" => thread.habit = "asks" /\ ~thread.tui)
    /\ Claude!Init /\ (part # "claude" => first = 0)
MCNext ==
    \/ part = "codex" /\ Next /\ UNCHANGED <<part, claude>>
    \/ part = "calm" /\ Calm!Next /\ UNCHANGED <<part, claude>>
    \/ part = "claude" /\ Claude!Next /\ UNCHANGED <<part, vars>>
MCSpec == MCInit /\ [][MCNext]_<<part, vars, claude>>

\* Live follow relays what the terminal writes.
FollowIsFaithful == Claude!FollowIsFaithful
\* Terminal and bridge take turns.
TakesTurns == Claude!TakesTurns
=============================================================================
