--------------------------- MODULE ActionJournal ---------------------------
(***************************************************************************)
(* The life of a mutating action on one channel (bridge.py, state.py):     *)
(* authenticated ingress claims its UUID in SQLite, a serial worker        *)
(* executes it, and the journal records one terminal status.  Topic        *)
(* changes, shutdown, crashes, redelivered messages and the control        *)
(* socket's timeout happen between any two awaits.                         *)
(*                                                                         *)
(* asyncio tasks interleave only where one really suspends.  Publishing a  *)
(* receipt is a put on an unbounded queue and does not suspend; every      *)
(* SQLite call and every backend call does.                                *)
(***************************************************************************)
EXTENDS Naturals, Sequences, FiniteSets

CONSTANTS
    ClientIds,      \* UUIDs of actions a client sends over IRC
    VoiceIds,       \* UUIDs derived from a voice message (voice_action_id)
    ControlIds,     \* UUIDs minted for local control requests
    MaxEpoch,       \* bound: bridge processes started
    MaxGeneration   \* bound: topic activations over the whole run

ASSUME JournalAssumption ==
    /\ MaxEpoch \in Nat \ {0}
    /\ MaxGeneration \in Nat
    /\ ClientIds \cap VoiceIds = {}
    /\ ControlIds \cap (ClientIds \cup VoiceIds) = {}

Ids   == ClientIds \cup VoiceIds \cup ControlIds
Tasks == {"irc", "voice", "control"}
Drainers == {"suspend", "close"}   \* callers of _fail_queued_mutations

\* The ids that can reach _ingest_action from each task.
Source == [irc |-> ClientIds, voice |-> VoiceIds, control |-> ControlIds]

Outcomes == {"succeeded", "failed", "uncertain"}

\* A journal row: its status, and whether the detail says that execution never
\* began ("unstarted"), what the handler reported, or that a restart lost it.
Row    == [status : {"absent", "accepted"} \cup Outcomes,
           detail : {"none", "unstarted", "reported", "restart"}]
Absent    == [status |-> "absent", detail |-> "none"]
Accepted  == [status |-> "accepted", detail |-> "none"]
Unstarted == [status |-> "failed", detail |-> "unstarted"]
Lost      == [status |-> "uncertain", detail |-> "restart"]
Reported(s) == [status |-> s, detail |-> "reported"]

VARIABLES
    journal,     \* the actions table: a Row for each id            (durable)
    up,          \* the bridge process runs
    closed,      \* Bridge._closed
    epoch,       \* the process's epoch; 0 before the first one
    activation,  \* runtime.activation as an object: 0 for None, else its number
    lastGen,     \* activations created so far
    ingress,     \* what each ingress task awaits
    queue,       \* _action_queues[channel]: descriptors accepted
    worker,      \* what _action_loop awaits
    drainer,     \* the two callers of _fail_queued_mutations
    issued,      \* history: the epoch an id was first sent in, 0 if never
    expired,     \* history: ids whose row retention deleted
    executions,  \* history: how often an id was handed to its handler
    receipts,    \* history: receipts published for an id, duplicates' aside
    stale        \* history: ids accepted before the last topic change or close

vars == <<journal, up, closed, epoch, activation, lastGen, ingress, queue,
          worker, drainer, issued, expired, executions, receipts, stale>>

NoId == "none"   \* no UUID
ASSUME NoIdAssumption == NoId \notin Ids

Descriptor == [id : Ids, gen : 1..MaxGeneration]
IdleTask   == [pc |-> "idle", id |-> NoId, gen |-> 0]
Idle       == [pc |-> "idle", id |-> NoId]

\* Mutant of Current: any activation will do.
CurrentIfActive(gen) == ~closed /\ activation # 0

\* _captured_runtime_is_current: the same activation object, and not closing.
Current(gen) == ~closed /\ activation = gen

\* Everything of the process that does not survive it.
Volatile ==
    /\ closed' = FALSE
    /\ activation' = 0
    /\ ingress' = [t \in Tasks |-> IdleTask]
    /\ queue' = << >>
    /\ worker' = Idle
    /\ drainer' = [d \in Drainers |-> Idle]

Init ==
    /\ journal = [id \in Ids |-> Absent]
    /\ up = FALSE /\ closed = FALSE /\ epoch = 0
    /\ activation = 0 /\ lastGen = 0
    /\ ingress = [t \in Tasks |-> IdleTask]
    /\ queue = << >>
    /\ worker = Idle
    /\ drainer = [d \in Drainers |-> Idle]
    /\ issued = [id \in Ids |-> 0]
    /\ expired = {}
    /\ executions = [id \in Ids |-> 0]
    /\ receipts = [id \in Ids |-> << >>]
    /\ stale = {}
-----------------------------------------------------------------------------
(* Ingress: _ingest_action and _prepare_action                             *)

(***************************************************************************)
(* A client's message carries the epoch it was written under for as long   *)
(* as copies of it exist, and only the live epoch passes.  A voice action  *)
(* is rebuilt under the live epoch each time its message is seen live;     *)
(* playback is dropped, so it takes the owner to post the same URL again.  *)
(* ASSUMED: nobody does once the thirty-day retention has deleted its row, *)
(* since the same id would then be executed anew.  A control id is minted  *)
(* once.                                                                   *)
(***************************************************************************)
\* Mutant of Deliverable: the epoch of a client's message is not compared.
DeliverableAnyEpoch(t, id) ==
    CASE t = "irc"     -> TRUE
      [] t = "voice"   -> id \notin expired
      [] t = "control" -> issued[id] = 0

Deliverable(t, id) ==
    CASE t = "irc"     -> issued[id] \in {0, epoch}
      [] t = "voice"   -> id \notin expired
      [] t = "control" -> issued[id] = 0

Receive(t, id) ==
    /\ up /\ ~closed /\ activation # 0
    /\ ingress[t].pc = "idle"
    /\ t = "irc" => drainer["suspend"].pc = "idle"
    /\ Deliverable(t, id)
    /\ issued' = [issued EXCEPT ![id] = epoch]
    /\ ingress' = [ingress EXCEPT ![t] = [pc |-> "claiming", id |-> id, gen |-> activation]]
    /\ UNCHANGED <<journal, up, closed, epoch, activation, lastGen, queue, worker,
                   drainer, expired, executions, receipts, stale>>

\* Mutant of Claim: INSERT OR REPLACE.
ClaimReplacing(t) ==
    /\ up /\ ingress[t].pc \in {"claiming", "abandoned"}
    /\ journal' = [journal EXCEPT ![ingress[t].id] = Accepted]
    /\ ingress' = [ingress EXCEPT ![t] =
         IF @.pc = "claiming" THEN [@ EXCEPT !.pc = "claimed"] ELSE IdleTask]
    /\ UNCHANGED <<up, closed, epoch, activation, lastGen, queue, worker, drainer,
                   issued, expired, executions, receipts, stale>>

\* claim_action: INSERT, or the status of the row that is already there.
Claim(t) ==
    LET id == ingress[t].id IN
    /\ up /\ ingress[t].pc \in {"claiming", "abandoned"}
    /\ IF journal[id].status = "absent"
       THEN /\ journal' = [journal EXCEPT ![id] = Accepted]
            /\ ingress' = [ingress EXCEPT ![t] =
                 IF @.pc = "claiming" THEN [@ EXCEPT !.pc = "claimed"] ELSE IdleTask]
       ELSE /\ ingress' = [ingress EXCEPT ![t] =
                 IF @.pc = "claiming" THEN [@ EXCEPT !.pc = "duplicate"] ELSE IdleTask]
            /\ UNCHANGED journal
    /\ UNCHANGED <<up, closed, epoch, activation, lastGen, queue, worker, drainer,
                   issued, expired, executions, receipts, stale>>

\* The scoped lookup of a duplicate; the answer is flagged duplicate.
AnswerDuplicate(t) ==
    /\ up /\ ingress[t].pc = "duplicate"
    /\ ingress' = [ingress EXCEPT ![t] = IdleTask]
    /\ UNCHANGED <<journal, up, closed, epoch, activation, lastGen, queue, worker,
                   drainer, issued, expired, executions, receipts, stale>>

\* Mutant of Accept: an action whose channel changed is dropped, not failed.
AcceptOrDrop(t) ==
    LET id == ingress[t].id  gen == ingress[t].gen IN
    /\ up /\ ingress[t].pc = "claimed"
    /\ receipts' = [receipts EXCEPT ![id] = Append(@, "accepted")]
    /\ queue' = IF Current(gen) THEN Append(queue, [id |-> id, gen |-> gen]) ELSE queue
    /\ ingress' = [ingress EXCEPT ![t] = IdleTask]
    /\ UNCHANGED <<journal, up, closed, epoch, activation, lastGen, worker, drainer,
                   issued, expired, executions, stale>>

\* Publish action.accepted, re-check the captured activation, and hand the
\* descriptor to the serial queue, with no suspension in between.
Accept(t) ==
    LET id == ingress[t].id  gen == ingress[t].gen IN
    /\ up /\ ingress[t].pc = "claimed"
    /\ receipts' = [receipts EXCEPT ![id] = Append(@, "accepted")]
    /\ IF Current(gen)
       THEN /\ queue' = Append(queue, [id |-> id, gen |-> gen])
            /\ ingress' = [ingress EXCEPT ![t] = IdleTask]
       ELSE /\ ingress' = [ingress EXCEPT ![t].pc = "rejecting"]
            /\ UNCHANGED queue
    /\ UNCHANGED <<journal, up, closed, epoch, activation, lastGen, worker, drainer,
                   issued, expired, executions, stale>>

\* _fail_unqueued_action: "channel changed before execution".
Reject(t) ==
    /\ up /\ ingress[t].pc = "rejecting"
    /\ journal' = [journal EXCEPT ![ingress[t].id] = Unstarted]
    /\ ingress' = [ingress EXCEPT ![t] = IdleTask]
    /\ UNCHANGED <<up, closed, epoch, activation, lastGen, queue, worker, drainer,
                   issued, expired, executions, receipts, stale>>

(***************************************************************************)
(* The control socket bounds a request with asyncio.timeout, and closing   *)
(* it cancels its handlers: either cancels _ingest_action wherever it      *)
(* waits.  A statement already handed to SQLite's thread still runs.       *)
(***************************************************************************)
CancelControl ==
    LET task == ingress["control"] IN
    /\ up /\ task.pc \in {"claiming", "claimed", "duplicate", "rejecting"}
    /\ ingress' \in {[ingress EXCEPT !["control"] = IdleTask]} \cup
                    (IF task.pc = "claiming"
                     THEN {[ingress EXCEPT !["control"].pc = "abandoned"]} ELSE {})
    /\ UNCHANGED <<journal, up, closed, epoch, activation, lastGen, queue, worker,
                   drainer, issued, expired, executions, receipts, stale>>
-----------------------------------------------------------------------------
(* The serial worker: _action_loop and _execute_action                     *)

\* Take the oldest descriptor; call its handler if its activation still is
\* the channel's, otherwise set out to fail it.
Take ==
    /\ up /\ worker.pc = "idle" /\ queue # << >>
    /\ queue' = Tail(queue)
    /\ LET id == Head(queue).id IN
       IF Current(Head(queue).gen)
       THEN /\ worker' = [pc |-> "running", id |-> id]
            /\ executions' = [executions EXCEPT ![id] = @ + 1]
       ELSE /\ worker' = [pc |-> "refusing", id |-> id]
            /\ UNCHANGED executions
    /\ UNCHANGED <<journal, up, closed, epoch, activation, lastGen, ingress, drainer,
                   issued, expired, receipts, stale>>

\* finish_action "channel was suspended before execution".
Refuse ==
    /\ up /\ worker.pc = "refusing"
    /\ journal' = [journal EXCEPT ![worker.id] = Unstarted]
    /\ worker' = [worker EXCEPT !.pc = "refused"]
    /\ UNCHANGED <<up, closed, epoch, activation, lastGen, ingress, queue, drainer,
                   issued, expired, executions, receipts, stale>>

\* Mutant of ReportRefusal: the worker's own word for it is published.
ReportRefused ==
    /\ up /\ worker.pc = "refused"
    /\ receipts' = IF activation = 0 THEN receipts
                   ELSE [receipts EXCEPT ![worker.id] = Append(@, worker.pc)]
    /\ worker' = Idle
    /\ UNCHANGED <<journal, up, closed, epoch, activation, lastGen, ingress, queue,
                   drainer, issued, expired, executions, stale>>

\* _emit_failure publishes only into an active channel.
ReportRefusal ==
    /\ up /\ worker.pc = "refused"
    /\ receipts' = IF activation = 0 THEN receipts
                   ELSE [receipts EXCEPT ![worker.id] = Append(@, "failed")]
    /\ worker' = Idle
    /\ UNCHANGED <<journal, up, closed, epoch, activation, lastGen, ingress, queue,
                   drainer, issued, expired, executions, stale>>

\* The handler returned, raised a known error, or raised anything else: the
\* status is recorded first ...
Finish(s) ==
    /\ up /\ worker.pc = "running"
    /\ journal' = [journal EXCEPT ![worker.id] = Reported(s)]
    /\ worker' = [worker EXCEPT !.pc = "finished"]
    /\ UNCHANGED <<up, closed, epoch, activation, lastGen, ingress, queue, drainer,
                   issued, expired, executions, receipts, stale>>

\* Mutant of Report: a failed handler falls through to the success receipt.
ReportSuccess ==
    /\ up /\ worker.pc = "finished"
    /\ receipts' = [receipts EXCEPT ![worker.id] = Append(@, "succeeded")]
    /\ worker' = Idle
    /\ UNCHANGED <<journal, up, closed, epoch, activation, lastGen, ingress, queue,
                   drainer, issued, expired, executions, stale>>

\* ... and published afterwards.
Report ==
    /\ up /\ worker.pc = "finished"
    /\ receipts' = [receipts EXCEPT ![worker.id] = Append(@, journal[worker.id].status)]
    /\ worker' = Idle
    /\ UNCHANGED <<journal, up, closed, epoch, activation, lastGen, ingress, queue,
                   drainer, issued, expired, executions, stale>>
-----------------------------------------------------------------------------
(* Suspension, shutdown, crash and restart                                 *)

Outdate == stale' = stale \cup {id \in Ids : journal[id].status # "absent"}

\* _handle_topic with a valid marker: a new activation object every time the
\* topic is set or re-read.
Activate ==
    /\ up /\ ingress["irc"].pc = "idle" /\ drainer["suspend"].pc = "idle"
    /\ lastGen < MaxGeneration
    /\ lastGen' = lastGen + 1
    /\ activation' = lastGen + 1
    /\ Outdate
    /\ UNCHANGED <<journal, up, closed, epoch, ingress, queue, worker, drainer,
                   issued, expired, executions, receipts>>

\* _handle_topic without one: trust ends before the queued work is failed.
Suspend ==
    /\ up /\ ingress["irc"].pc = "idle" /\ drainer["suspend"].pc = "idle"
    /\ activation # 0
    /\ activation' = 0
    /\ drainer' = [drainer EXCEPT !["suspend"].pc = "draining"]
    /\ Outdate
    /\ UNCHANGED <<journal, up, closed, epoch, lastGen, ingress, queue, worker,
                   issued, expired, executions, receipts>>

\* Mutant of DrainPop: the queue is emptied but nothing is failed.
DrainForget(d) ==
    /\ up /\ drainer[d].pc = "draining"
    /\ queue' = << >>
    /\ drainer' = [drainer EXCEPT ![d].pc = IF d = "close" THEN "drained" ELSE "idle"]
    /\ UNCHANGED <<journal, up, closed, epoch, activation, lastGen, ingress, worker,
                   issued, expired, executions, receipts, stale>>

\* _fail_queued_mutations: get_nowait, then finish_action, until it is empty.
DrainPop(d) ==
    /\ up /\ drainer[d].pc = "draining"
    /\ IF queue = << >>
       THEN /\ drainer' = [drainer EXCEPT ![d].pc = IF d = "close" THEN "drained" ELSE "idle"]
            /\ UNCHANGED queue
       ELSE /\ drainer' = [drainer EXCEPT ![d] = [pc |-> "failing", id |-> Head(queue).id]]
            /\ queue' = Tail(queue)
    /\ UNCHANGED <<journal, up, closed, epoch, activation, lastGen, ingress, worker,
                   issued, expired, executions, receipts, stale>>

DrainFail(d) ==
    /\ up /\ drainer[d].pc = "failing"
    /\ journal' = [journal EXCEPT ![drainer[d].id] = Unstarted]
    /\ drainer' = [drainer EXCEPT ![d] = [pc |-> "draining", id |-> NoId]]
    /\ UNCHANGED <<up, closed, epoch, activation, lastGen, ingress, queue, worker,
                   issued, expired, executions, receipts, stale>>

\* Bridge.close: no new work is trusted, queued work is failed, and the tasks
\* are cancelled wherever they wait, which leaves work in flight accepted.
Close ==
    /\ up /\ ~closed
    /\ closed' = TRUE
    /\ drainer' = [drainer EXCEPT !["close"].pc = "draining"]
    /\ Outdate
    /\ UNCHANGED <<journal, up, epoch, activation, lastGen, ingress, queue, worker,
                   issued, expired, executions, receipts>>

Exit ==
    /\ up /\ drainer["close"].pc = "drained"
    /\ up' = FALSE
    /\ Volatile
    /\ UNCHANGED <<journal, epoch, lastGen, issued, expired, executions, receipts, stale>>

Crash ==
    /\ up
    /\ up' = FALSE
    /\ Volatile
    /\ UNCHANGED <<journal, epoch, lastGen, issued, expired, executions, receipts, stale>>

\* Mutant of Boot: interrupted actions are recorded as never started.
BootFailing(old) ==
    /\ ~up /\ epoch < MaxEpoch
    /\ up' = TRUE
    /\ epoch' = epoch + 1
    /\ journal' = [id \in Ids |->
                     IF id \in old THEN Absent
                     ELSE IF journal[id].status = "accepted" THEN Unstarted ELSE journal[id]]
    /\ expired' = expired \cup old
    /\ stale' = stale \cup {id \in Ids : journal[id].status # "absent"}
    /\ UNCHANGED <<closed, activation, lastGen, ingress, queue, worker, drainer,
                   issued, executions, receipts>>

\* StateStore._initialize: what was accepted has an unknown outcome; rows older
\* than the retention period are deleted.  The process draws a new epoch.
Boot(old) ==
    /\ ~up /\ epoch < MaxEpoch
    /\ up' = TRUE
    /\ epoch' = epoch + 1
    /\ journal' = [id \in Ids |->
                     IF id \in old THEN Absent
                     ELSE IF journal[id].status = "accepted" THEN Lost ELSE journal[id]]
    /\ expired' = expired \cup old
    /\ stale' = stale \cup {id \in Ids : journal[id].status # "absent"}
    /\ UNCHANGED <<closed, activation, lastGen, ingress, queue, worker, drainer,
                   issued, executions, receipts>>
-----------------------------------------------------------------------------
TaskStep(t) ==
    \/ \E id \in Source[t] : Receive(t, id)
    \/ Claim(t) \/ AnswerDuplicate(t) \/ Accept(t) \/ Reject(t)

WorkerStep == Take \/ Refuse \/ ReportRefusal \/ (\E s \in Outcomes : Finish(s)) \/ Report

DrainStep(d) == DrainPop(d) \/ DrainFail(d)

Next ==
    \/ \E t \in Tasks : TaskStep(t)
    \/ CancelControl
    \/ WorkerStep
    \/ Activate \/ Suspend \/ Close \/ Exit \/ Crash
    \/ \E d \in Drainers : DrainStep(d)
    \/ \E old \in SUBSET {id \in Ids : journal[id].status # "absent"} : Boot(old)

Spec == Init /\ [][Next]_vars

(***************************************************************************)
(* The event loop runs every task that can go on, SQLite answers, and a    *)
(* handler returns.  Nobody is obliged to send, suspend, close or restart. *)
(***************************************************************************)
Fairness ==
    /\ \A t \in Tasks : WF_vars(Claim(t) \/ AnswerDuplicate(t) \/ Accept(t) \/ Reject(t))
    /\ WF_vars(WorkerStep)
    /\ \A d \in Drainers : WF_vars(DrainStep(d))

FairSpec == Spec /\ Fairness
-----------------------------------------------------------------------------
IngressTask ==
    [pc : {"idle", "claiming", "abandoned", "claimed", "duplicate", "rejecting"},
     id : Ids \cup {NoId}, gen : 0..MaxGeneration]
WorkerTask ==
    [pc : {"idle", "running", "refusing", "refused", "finished"}, id : Ids \cup {NoId}]
DrainTask ==
    [pc : {"idle", "draining", "failing", "drained"}, id : Ids \cup {NoId}]
Receipts == {"accepted"} \cup Outcomes

\* Type invariant.
TypeOK ==
    /\ journal \in [Ids -> Row]
    /\ up \in BOOLEAN /\ closed \in BOOLEAN
    /\ epoch \in 0..MaxEpoch
    /\ lastGen \in 0..MaxGeneration
    /\ activation \in 0..lastGen
    /\ ingress \in [Tasks -> IngressTask]
    /\ queue \in Seq(Descriptor)
    /\ worker \in WorkerTask
    /\ drainer \in [Drainers -> DrainTask]
    /\ issued \in [Ids -> 0..MaxEpoch]
    /\ expired \subseteq Ids
    /\ executions \in [Ids -> Nat]
    /\ receipts \in [Ids -> Seq(Receipts)]
    /\ stale \subseteq Ids

\* "mutations are deduplicated durably by UUID": however often a message is
\* delivered, and across crashes, restarts and the deletion of old rows, an
\* action's handler is called at most once.
AtMostOnce == \A id \in Ids : executions[id] <= 1

\* What the journal says of an action is true of its handler: "failed before
\* execution" was never executed, and a reported outcome was executed once.
OutcomesHonest ==
    \A id \in Ids :
        /\ journal[id].detail = "unstarted" => executions[id] = 0
        /\ journal[id].detail = "reported" => executions[id] = 1

\* The receipts of an action are one "accepted" and then at most one terminal
\* status, which is published only after SQLite holds the very same status.
ReceiptsHonest ==
    \A id \in Ids \ expired :
        \/ receipts[id] = << >>
        \/ receipts[id] = <<"accepted">> /\ journal[id].status # "absent"
        \/ /\ receipts[id] = <<"accepted", journal[id].status>>
           /\ journal[id].status \in Outcomes

\* The places that still owe an action its terminal status.
OwnedBy(id) ==
    {<<"ingress", t>> : t \in {u \in Tasks : ingress[u].pc \in {"claimed", "rejecting"}
                                             /\ ingress[u].id = id}}
    \cup {<<"queue", i>> : i \in {j \in DOMAIN queue : queue[j].id = id}}
    \cup {<<"worker", "worker">> : w \in {v \in {worker} :
                                  v.pc \in {"running", "refusing"} /\ v.id = id}}
    \cup {<<"drainer", d>> : d \in {e \in Drainers :
                                  drainer[e].pc = "failing" /\ drainer[e].id = id}}

\* In a running bridge an accepted action has exactly one owner and a terminal
\* one has none, whatever is suspended, re-activated or closing.  Control
\* requests may lose theirs, when the socket's timeout cancels the ingress.
OneOwner ==
    up => \A id \in Ids :
        IF journal[id].status = "accepted"
        THEN \/ \E h \in OwnedBy(id) : OwnedBy(id) = {h}
             \/ OwnedBy(id) = {} /\ id \in ControlIds
        ELSE OwnedBy(id) = {}

\* A terminal status is final, until retention deletes the row at a restart;
\* finish_action itself updates unconditionally.
TerminalIsFinal ==
    [][\A id \in Ids :
         journal[id].status \in Outcomes /\ journal'[id] # journal[id] =>
             journal'[id] = Absent /\ epoch' # epoch]_vars

\* Work accepted before a topic change, a shutdown or a restart is never begun
\* after it, even when the same topic is back by then.
StaleNeverStarts ==
    [][\A id \in Ids : executions'[id] > executions[id] => id \notin stale]_vars

\* An accepted action reaches a terminal status or the process ends; control
\* requests are excepted for the reason given at OneOwner.
AcceptedSettles ==
    \A id \in Ids \ ControlIds :
        journal[id].status = "accepted" ~> (journal[id].status # "accepted" \/ ~up)
=============================================================================
