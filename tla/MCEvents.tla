------------------------------- MODULE MCEvents -------------------------------
(* What comes from the backends, for TLC: the requests of one channel, the  *)
(* events of several, and those of one with more turns.  They share no      *)
(* state, and each behaviour is one of theirs.                              *)
EXTENDS RequestRelay, TLC

VARIABLES
    part,                                                       \* which of them
    kind, running, born, bound, seen, stream, order, busy, attempt, kept, worker,
    handling, begun, actions, lost, crossed

CONSTANTS first, other, managed

Route == INSTANCE EventRouting WITH
    Static <- <<first, other>>, Managed <- {managed}, MaxTurns <- 1, MaxActions <- 3,
    backend <- kind, binding <- bound, observed <- seen, events <- stream,
    attaching <- attempt, deferred <- kept

Replays == INSTANCE EventRouting WITH
    Static <- <<first>>, Managed <- {}, MaxTurns <- 2, MaxActions <- 2,
    backend <- kind, binding <- bound, observed <- seen, events <- stream,
    attaching <- attempt, deferred <- kept

ASSUME PartsAssumption == Route!RoutingBounds /\ Replays!RoutingBounds

Symmetric == Permutations(Sessions)

routing == <<kind, running, born, bound, seen, stream, order, busy, attempt, kept,
             worker, handling, begun, actions, lost, crossed>>

\* The part that stays where it is begins in one way.
MCInit ==
    /\ part \in {"requests", "routing", "replays"} /\ Init
    /\ IF part = "replays" THEN Replays!Init ELSE Route!Init
    /\ part # "requests" => backend = CHOOSE b \in Backends : TRUE
    /\ part = "requests" => kind = "claude" /\ born = {}
MCNext ==
    \/ part = "requests" /\ Next /\ UNCHANGED <<part, routing>>
    \/ part = "routing" /\ Route!Next /\ UNCHANGED <<part, vars>>
    \/ part = "replays" /\ Replays!Next /\ UNCHANGED <<part, vars>>
MCSpec == MCInit /\ [][MCNext]_<<part, vars, routing>>

\* What the bridge hears of sessions is routed where it is waited for.
RoutingIsTrue ==
    IF part = "replays" THEN Replays!RoutingIsTrue ELSE Route!RoutingIsTrue
=============================================================================
