------------------------------- MODULE MCWire -------------------------------
(* What passes between the bridge and its clients, for TLC: the IRC        *)
(* connection, the fragments that travel on it, and the helpers that hold  *)
(* it up.  They share no state, and each behaviour is one of theirs: of    *)
(* the connection, with talk or with more troubles.                        *)
EXTENDS IrcLink, TLC

VARIABLES
    part,                                                       \* which of them
    phase, count, process, watch, bridgeTask, asked, living, exits,
    partial, now, arrived, delivered

CONSTANTS ssh, codex, opencode

Troubled == INSTANCE IrcLink WITH MaxTroubles <- 2, MaxSaid <- 0

Stack == INSTANCE StackSupervisor WITH
    Order <- <<ssh, codex, opencode>>, Restart <- {ssh, opencode}, MaxExits <- 3,
    bridge <- bridgeTask

\* Two envelopes share an id; one is smaller when compressed; one fits in no
\* number of fragments.
Sent == {[id |-> 1, digest |-> "a", raw |-> 3, packed |-> 2, copies |-> 2],
         [id |-> 1, digest |-> "b", raw |-> 2, packed |-> 2, copies |-> 1],
         [id |-> 2, digest |-> "c", raw |-> 2, packed |-> 3, copies |-> 1],
         [id |-> 3, digest |-> "d", raw |-> 9, packed |-> 9, copies |-> 1]}
Fragment == INSTANCE Fragments WITH
    Versions <- Sent, MaxFragments <- 2, MaxInflight <- 2, MaxBytes <- 4, Timeout <- 2,
    MaxTime <- 2

ASSUME PartsAssumption ==
    LinkBounds /\ Troubled!LinkBounds /\ Stack!StackBounds /\ Fragment!FragmentsBounds

stack == <<phase, count, process, watch, bridgeTask, asked, living, exits>>
fragments == <<partial, now, arrived, delivered>>

MCInit ==
    /\ part \in {"irc", "troubled", "stack", "fragments"}
    /\ Init /\ Stack!Init /\ Fragment!Init
MCNext ==
    \/ part = "irc" /\ Next /\ UNCHANGED <<part, stack, fragments>>
    \/ part = "troubled" /\ Troubled!Next /\ UNCHANGED <<part, stack, fragments>>
    \/ part = "stack" /\ Stack!Next /\ UNCHANGED <<part, vars, fragments>>
    \/ part = "fragments" /\ Fragment!Next /\ UNCHANGED <<part, vars, stack>>
MCSpec == MCInit /\ [][MCNext]_<<part, vars, stack, fragments>>

\* Every helper process has an owner, who ends it.
HelpersAreOwned == Stack!HelpersAreOwned
\* Fragments neither forge an envelope nor fill the receiver.
ReassemblyIsHonest == Fragment!ReassemblyIsHonest
=============================================================================
