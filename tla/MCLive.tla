------------------------------- MODULE MCLive -------------------------------
(* What must come about, for TLC: tasks of a channel and its session come   *)
(* to rest, and accepted actions settle.  They share no state, and each     *)
(* behaviour is one of theirs; the fair actions of the other are disabled   *)
(* in the state where it stays.                                             *)
EXTENDS ChannelTurns, TLC

CONSTANTS a1, a2
VARIABLES
    part,                                                       \* which of them
    journal, up, closed, epoch, topicNow, topicLast, ingress, queue, worker, drainer,
    issued, expired, executions, receipts, stale

Journal == INSTANCE ActionJournal WITH
    ClientIds <- {a1, a2}, VoiceIds <- {}, ControlIds <- {}, MaxEpoch <- 1,
    MaxGeneration <- 2, activation <- topicNow, lastGen <- topicLast

journaling == <<journal, up, closed, epoch, topicNow, topicLast, ingress, queue, worker,
                drainer, issued, expired, executions, receipts, stale>>

MCInit == part \in {"turns", "actions"} /\ Init /\ Journal!Init
MCNext ==
    \/ part = "turns" /\ Next /\ UNCHANGED <<part, journaling>>
    \/ part = "actions" /\ Journal!Next /\ UNCHANGED <<part, vars>>
MCSpec ==
    /\ MCInit /\ [][MCNext]_<<part, vars, journaling>>
    /\ Fairness /\ Journal!Fairness

\* An accepted action reaches a terminal status, or the process ends.
AcceptedSettles == Journal!AcceptedSettles
=============================================================================
