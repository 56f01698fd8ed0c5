--------------------------- MODULE StackSupervisor ---------------------------
(***************************************************************************)
(* agentwire stack (stack.py, run_stack): helper processes are started one *)
(* after the other, the bridge runs over them, and each helper is watched. *)
(* A helper that others can ride out is restarted; any other that ends, or *)
(* the bridge, ends the stack, which then takes every helper down with it. *)
(*                                                                         *)
(* External: processes end by themselves, may be deaf to SIGTERM, and a    *)
(* spawn may fail.  A spawn that is cancelled leaves no process (asyncio). *)
(* The stack is interrupted at most once, and not while it is stopping: a  *)
(* second Ctrl-C would end it before its helpers.                          *)
(***************************************************************************)
EXTENDS Naturals, Sequences, SequencesExt

CONSTANTS
    Order,     \* the helpers, in the order they are started
    Restart,   \* the helpers that are restarted
    MaxExits   \* bound: processes that end by themselves, and spawns that fail

Helpers == ToSet(Order)
StackBounds == Order \in Seq(Helpers) /\ Restart \subseteq Helpers /\ MaxExits \in Nat

VARIABLES
    phase,    \* run_stack: starting, running, cancelling, stopping or stopped
    count,    \* the helpers it has started
    process,  \* _Supervisor.process
    watch,    \* _Supervisor.run
    bridge,   \* the bridge task
    asked,    \* the processes _stop_processes has sent SIGTERM
    living,   \* external: the helpers of which a process lives
    exits     \* bound

vars == <<phase, count, process, watch, bridge, asked, living, exits>>

Init ==
    /\ phase = "starting" /\ count = 0 /\ bridge = "off" /\ asked = {}
    /\ process = [h \in Helpers |-> FALSE] /\ watch = [h \in Helpers |-> "off"]
    /\ living = {} /\ exits = 0

\* Mutant of Spawned: a process is known to its watcher alone.
SpawnedUnknown(h) == living' = living \union {h} /\ UNCHANGED process
\* _spawn.
Spawned(h) == living' = living \union {h} /\ process' = [process EXCEPT ![h] = TRUE]

Mishap == exits < MaxExits /\ exits' = exits + 1

\* start, for the next helper; one that cannot be started, or ends at once, is
\* an error and not an outage.
Start ==
    /\ phase = "starting" /\ count < Len(Order)
    /\ LET h == Order[count + 1] IN
       \/ /\ Spawned(h) /\ count' = count + 1 /\ UNCHANGED <<phase, exits>>
       \/ Mishap /\ phase' = "stopping" /\ UNCHANGED <<process, living, count>>
    /\ UNCHANGED <<watch, bridge, asked>>

\* All are started: the bridge and the watchers run.
Run ==
    /\ phase = "starting" /\ count = Len(Order)
    /\ phase' = "running" /\ bridge' = "up" /\ watch' = [h \in Helpers |-> "waiting"]
    /\ UNCHANGED <<count, process, asked, living, exits>>

\* External.
Exit(h) ==
    /\ h \in living /\ Mishap /\ living' = living \ {h}
    /\ UNCHANGED <<phase, count, process, watch, bridge, asked>>

\* run: the process has ended.
Noticed(h) ==
    /\ phase = "running" /\ watch[h] = "waiting" /\ h \notin living
    /\ process' = [process EXCEPT ![h] = FALSE]
    /\ watch' = [watch EXCEPT ![h] = IF h \in Restart THEN "backoff" ELSE "done"]
    /\ UNCHANGED <<phase, count, bridge, asked, living, exits>>

\* run, after its backoff.
Respawn(h) ==
    /\ phase = "running" /\ watch[h] = "backoff"
    /\ \/ Spawned(h) /\ watch' = [watch EXCEPT ![h] = "waiting"] /\ UNCHANGED exits
       \/ Mishap /\ UNCHANGED <<process, living, watch>>
    /\ UNCHANGED <<phase, count, bridge, asked>>

BridgeEnds ==
    /\ phase = "running" /\ bridge = "up" /\ bridge' = "ended"
    /\ UNCHANGED <<phase, count, process, watch, asked, living, exits>>

\* The first of them that ends, or an interrupt, cancels the others.
Finish ==
    /\ phase = "running" /\ (bridge = "ended" \/ \E h \in Helpers : watch[h] = "done")
    /\ phase' = "cancelling"
    /\ UNCHANGED <<count, process, watch, bridge, asked, living, exits>>

Interrupt ==
    /\ phase \in {"starting", "running"}
    /\ phase' = IF phase = "starting" THEN "stopping" ELSE "cancelling"
    /\ UNCHANGED <<count, process, watch, bridge, asked, living, exits>>

\* Cancelled watchers end where they are; the process stays with its supervisor.
Cancelled ==
    /\ phase = "cancelling" /\ phase' = "stopping" /\ bridge' = "off"
    /\ watch' = [h \in Helpers |-> "off"]
    /\ UNCHANGED <<count, process, asked, living, exits>>

\* Mutant of Escalates: one that does not listen is given up.
EscalatesNever(h) == UNCHANGED living
Escalates(h) == living' = living \ {h}

\* _stop_processes: SIGTERM to all of them first, and then, one after another
\* and last started first, SIGKILL to the process groups of those that stay.
Terminate ==
    /\ phase = "stopping" /\ asked = {}
    /\ asked' = {h \in Helpers : process[h]} \union {"sent"}
    /\ UNCHANGED <<phase, count, process, watch, bridge, living, exits>>

Obey(h) ==
    /\ h \in asked \intersect living /\ living' = living \ {h}
    /\ UNCHANGED <<phase, count, process, watch, bridge, asked, exits>>

Reap ==
    /\ phase = "stopping" /\ asked # {}
    /\ IF \E h \in Helpers : process[h]
       THEN LET i == CHOOSE i \in DOMAIN Order :
                         /\ process[Order[i]]
                         /\ \A j \in DOMAIN Order : process[Order[j]] => j <= i
            IN /\ (Order[i] \notin living /\ UNCHANGED living) \/ Escalates(Order[i])
               /\ process' = [process EXCEPT ![Order[i]] = FALSE] /\ UNCHANGED phase
       ELSE phase' = "stopped" /\ UNCHANGED <<process, living>>
    /\ UNCHANGED <<count, watch, bridge, asked, exits>>

Next ==
    \/ Start \/ Run \/ BridgeEnds \/ Finish \/ Interrupt \/ Cancelled \/ Terminate \/ Reap
    \/ \E h \in Helpers : Exit(h) \/ Noticed(h) \/ Respawn(h) \/ Obey(h)

Spec == Init /\ [][Next]_vars
-----------------------------------------------------------------------------
(* Properties                                                              *)

\* Whatever ended the stack, and wherever a restart was at the time, no helper
\* outlives it, deaf ones included.
NoHelperSurvives == phase = "stopped" => living = {}

\* While the stack runs, every process that lives is one its supervisor knows
\* and watches: a helper is never run twice, or unseen.
EveryHelperIsWatched ==
    phase = "running" =>
        \A h \in Helpers : h \in living => process[h] /\ watch[h] = "waiting"

\* Every helper process has an owner, who ends it.
HelpersAreOwned == NoHelperSurvives /\ EveryHelperIsWatched
=============================================================================
