----------------------------- MODULE MCSessions -----------------------------
(* What the bridge shows of sessions, for TLC: the sessions of Pi and OMP, *)
(* and the statuses and subagents that clients are shown.  They share no   *)
(* state, and each behaviour is one of theirs.                             *)
EXTENDS PiSessions, TLC

VARIABLES
    part,                                                       \* which of them
    status, changes, events, binding, busy, deferred, worker, actions, observed,
    held, listed, heldList, client, published, due, coming, crossed, touched,
    overtaken, lost

Status == INSTANCE SessionStatus WITH
    Sessions <- Sids, Lists <- {"no agents", "one agent"}, MaxChanges <- 3,
    MaxActions <- 2

ASSUME PartsAssumption == Status!StatusBounds

Symmetric == Permutations(Conns) \union Permutations(Sids)

showing == <<status, changes, events, binding, busy, deferred, worker, actions,
             observed, held, listed, heldList, client, published, due, coming,
             crossed, touched, overtaken, lost>>

MCInit == part \in {"pi", "status"} /\ Init /\ Status!Init
MCNext ==
    \/ part = "pi" /\ Next /\ UNCHANGED <<part, showing>>
    \/ part = "status" /\ Status!Next /\ UNCHANGED <<part, vars>>
MCSpec == MCInit /\ [][MCNext]_<<part, vars, showing>>

\* What a client is shown of sessions is what they are.
StatusShownIsNewest == Status!StatusShownIsNewest
\* A client that saw the binding change shows the session's last list.
AgentsShownAreNewest == Status!AgentsShownAreNewest
=============================================================================
