------------------------------- MODULE MCTurns -------------------------------
(* The prompt queue and what drains it, for TLC.  ChannelTurns twice: with  *)
(* two sessions and rebinding, as the .cfg file has it; and with one        *)
(* session on a backend that journals and reports statuses, foreign turns,  *)
(* and a crash.  And the queue table alone, under every operation there is. *)
EXTENDS ChannelTurns, TLC

CONSTANTS s1, p1, p2, p3, t1, t2
VARIABLE part

Order == INSTANCE ChannelTurns WITH
    Sessions <- {s1}, Journaling <- TRUE, StatusEvents <- TRUE, Reordering <- FALSE,
    Rebinding <- FALSE, MaxTopics <- 1, MaxForeign <- 1, MaxRestarts <- 1
Store == INSTANCE QueueStore WITH
    Items <- {p1, p2, p3}, Lists <- Sessions, Texts <- {t1, t2}, Limit <- 3

ASSUME PartsAssumption == Store!LimitBounds

Symmetric == Permutations({p1, p2})

MCInit ==
    \/ part \in {"rebind", "store"} /\ Init
    \/ part = "order" /\ Order!Init
MCNext ==
    /\ UNCHANGED part
    /\ \/ part = "rebind" /\ Next
       \/ part = "order" /\ Order!Next
       \/ /\ part = "store" /\ Store!Next
          /\ UNCHANGED <<topic, binding, busy, attaching, deferred, saved, at, lockq,
                         todo, events, turns, foreign, restarts, history>>
MCSpec == MCInit /\ [][MCNext]_<<part, vars>>

\* Without queue.move, a queued prompt is delivered only after everything that
\* was ahead of it.
OrderIsKept == part = "order" => DeliveredInOrder
\* The table keeps its keys, and a list has no holes in it.
QueueIsDense == Store!QueueIsDense
\* A reader of the table sees an ordered queue, whoever operates on it.
KeepsPromise == Store!KeepsPromise
=============================================================================
