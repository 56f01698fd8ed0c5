------------------------ MODULE ActionJournalProofs ------------------------
(***************************************************************************)
(* Proofs about ActionJournal for any sets of ids and any number of        *)
(* processes and activations.                                              *)
(*                                                                         *)
(* The argument: whoever still owes an action its terminal status (an      *)
(* ingress task, the queue, the worker or a drain of the queue) holds an   *)
(* id whose row is "accepted" and that nobody else holds (Owners,          *)
(* Exclusive), so every status is written once, and the handler is called  *)
(* from a row that was never executed.  A new row appears only where none  *)
(* was, and a row that retention deleted never comes back, because the     *)
(* messages that could re-create it belong to an earlier epoch or are      *)
(* refused (Retention).                                                    *)
(***************************************************************************)
EXTENDS ActionJournal, SequenceTheorems, TLAPS

\* Ingress task t has claimed an action and owes it a place in the queue or a
\* failure; the worker and the drain d owe theirs a terminal status.
Holding(t) == ingress[t].pc \in {"claimed", "rejecting"}
Working    == worker.pc \in {"running", "refusing"}
Failing(d) == drainer[d].pc = "failing"

\* Whoever is busy is busy with an action; a process that is down does nothing.
Shape ==
    /\ \A t \in Tasks : ingress[t].pc # "idle" =>
          ingress[t].id \in Ids /\ ingress[t].gen \in 1..lastGen
    /\ \A i \in 1..Len(queue) : queue[i].gen \in 1..lastGen
    /\ worker.pc # "idle" => worker.id \in Ids
    /\ \A d \in Drainers : Failing(d) => drainer[d].id \in Ids
    /\ up => epoch # 0
    /\ ~up => /\ \A t \in Tasks : ingress[t].pc = "idle"
              /\ queue = << >>
              /\ worker.pc = "idle"
              /\ \A d \in Drainers : drainer[d].pc = "idle"

\* An action that somebody holds is accepted, and not executed unless its
\* handler runs at this moment.
Owners ==
    /\ \A t \in Tasks : Holding(t) =>
          journal[ingress[t].id] = Accepted /\ executions[ingress[t].id] = 0
    /\ \A i \in 1..Len(queue) :
          journal[queue[i].id] = Accepted /\ executions[queue[i].id] = 0
    /\ worker.pc = "refusing" =>
          journal[worker.id] = Accepted /\ executions[worker.id] = 0
    /\ worker.pc = "running" =>
          journal[worker.id] = Accepted /\ executions[worker.id] = 1
    /\ \A d \in Drainers : Failing(d) =>
          journal[drainer[d].id] = Accepted /\ executions[drainer[d].id] = 0

\* No action is held twice.
Exclusive ==
    /\ \A t, u \in Tasks : Holding(t) /\ Holding(u) /\ t # u =>
          ingress[t].id # ingress[u].id
    /\ \A t \in Tasks : \A i \in 1..Len(queue) : Holding(t) => ingress[t].id # queue[i].id
    /\ \A t \in Tasks : Holding(t) /\ Working => ingress[t].id # worker.id
    /\ \A t \in Tasks : \A d \in Drainers : Holding(t) /\ Failing(d) =>
          ingress[t].id # drainer[d].id
    /\ \A i, j \in 1..Len(queue) : i # j => queue[i].id # queue[j].id
    /\ \A i \in 1..Len(queue) : Working => queue[i].id # worker.id
    /\ \A i \in 1..Len(queue) : \A d \in Drainers : Failing(d) => queue[i].id # drainer[d].id
    /\ \A d \in Drainers : Working /\ Failing(d) => worker.id # drainer[d].id
    /\ \A d, e \in Drainers : Failing(d) /\ Failing(e) /\ d # e => drainer[d].id # drainer[e].id

\* What the rows say of the handlers, and of the messages they came from.
Ledger ==
    /\ OutcomesHonest
    /\ \A id \in Ids : executions[id] \in {0, 1}
    /\ \A id \in Ids : journal[id].status = "absent" => executions[id] = 0 \/ id \in expired
    /\ \A id \in Ids : journal[id].status # "absent" => issued[id] # 0
    /\ worker.pc = "finished" => journal[worker.id].status \in Outcomes

\* Messages of expired actions are of earlier epochs, and none is under way.
Retention ==
    /\ \A id \in Ids : issued[id] <= epoch
    /\ \A id \in expired : issued[id] # 0 /\ issued[id] < epoch
    /\ \A t \in Tasks : ingress[t].pc # "idle" =>
          issued[ingress[t].id] # 0 /\ ingress[t].id \notin expired

\* Work accepted before a topic change does not carry the live activation.
Staleness ==
    /\ activation \in {0, lastGen}
    /\ \A id \in stale : journal[id].status = "absent" => id \in expired
    /\ \A t \in Tasks : ingress[t].pc = "claimed" /\ ingress[t].id \in stale =>
          ~Current(ingress[t].gen)
    /\ \A i \in 1..Len(queue) : queue[i].id \in stale => ~Current(queue[i].gen)

IInv == TypeOK /\ Shape /\ Owners /\ Exclusive /\ Ledger /\ Retention /\ Staleness
-----------------------------------------------------------------------------
\* What get_nowait and put_nowait do to the serial queue.
LEMMA QueuePop ==
  ASSUME NEW q \in Seq(Descriptor), q # << >>
  PROVE  /\ 1 \in 1..Len(q) /\ Head(q) = q[1] /\ Head(q) \in Descriptor
         /\ Tail(q) \in Seq(Descriptor)
         /\ \A i \in 1..Len(Tail(q)) :
               i + 1 \in 2..Len(q) /\ Tail(q)[i] = q[i + 1] /\ Tail(q)[i] \in Descriptor
  OBVIOUS

LEMMA QueuePush ==
  ASSUME NEW q \in Seq(Descriptor), NEW d \in Descriptor
  PROVE  /\ Append(q, d) \in Seq(Descriptor)
         /\ \A i \in 1..Len(Append(q, d)) :
               \/ i \in 1..Len(q) /\ Append(q, d)[i] = q[i]
               \/ i = Len(q) + 1 /\ Append(q, d)[i] = d
  OBVIOUS

LEMMA InitInv == Init => IInv
<1> SUFFICES ASSUME Init PROVE IInv
  OBVIOUS
<1>1. TypeOK
  <2>1. Absent \in Row
    BY DEF Absent, Row
  <2>2. IdleTask \in IngressTask /\ Idle \in WorkerTask /\ Idle \in DrainTask
    BY JournalAssumption DEF IdleTask, Idle, IngressTask, WorkerTask, DrainTask
  <2>3. << >> \in Seq(Descriptor) /\ << >> \in Seq(Receipts)
    OBVIOUS
  <2>4. 0 \in 0..MaxEpoch /\ 0 \in 0..MaxGeneration /\ 0 \in 0..0 /\ 0 \in Nat
    BY JournalAssumption
  <2>5. receipts \in [Ids -> Seq(Receipts)] /\ executions \in [Ids -> Nat]
    BY <2>3, <2>4 DEF Init
  <2> QED
    BY <2>1, <2>2, <2>3, <2>4, <2>5 DEF Init, TypeOK
<1>2. Shape
  BY DEF Init, Shape, IdleTask, Idle, Failing, Drainers
<1>3. Owners /\ Exclusive
  BY DEF Init, Owners, Exclusive, IdleTask, Idle, Holding, Working, Failing
<1>4. Ledger
  BY DEF Init, Ledger, OutcomesHonest, Absent, Idle
<1>5. Retention /\ Staleness
  BY DEF Init, Retention, Staleness, IdleTask
<1> QED BY <1>1, <1>2, <1>3, <1>4, <1>5 DEF IInv

LEMMA ReceiveInv ==
  ASSUME IInv, NEW t \in Tasks, NEW id \in Source[t], Receive(t, id)
  PROVE  IInv'
<1> USE DEF IInv, Receive
<1>0. id \in Ids /\ activation \in 1..lastGen /\ lastGen \in Nat
  BY JournalAssumption DEF TypeOK, Source, Ids, Tasks
<1>1. TypeOK'
  <2>1. [pc |-> "claiming", id |-> id, gen |-> activation] \in IngressTask
    BY <1>0, JournalAssumption DEF TypeOK, IngressTask
  <2> QED
    BY <1>0, <2>1, JournalAssumption DEF TypeOK
<1>2. Shape'
  BY <1>0 DEF TypeOK, Shape, Failing
<1>3. Owners'
  BY DEF TypeOK, Owners, Holding, Failing
<1>4. Exclusive'
  BY DEF TypeOK, Exclusive, Holding, Working, Failing
<1>5. Ledger'
  BY DEF TypeOK, Ledger, OutcomesHonest, Shape
<1>6. Retention'
  <2>1. id \notin expired
    <3>1. CASE t = "irc"
      BY <1>0, <3>1 DEF TypeOK, Retention, Deliverable
    <3>2. CASE t = "voice"
      BY <3>2 DEF Deliverable
    <3>3. CASE t = "control"
      BY <1>0, <3>3 DEF TypeOK, Retention, Deliverable
    <3> QED
      BY <3>1, <3>2, <3>3 DEF Tasks
  <2> QED
    BY <1>0, <2>1 DEF TypeOK, Retention, Shape
<1>7. Staleness'
  BY DEF TypeOK, Staleness, Current
<1> QED BY <1>1, <1>2, <1>3, <1>4, <1>5, <1>6, <1>7

LEMMA ClaimInv ==
  ASSUME IInv, NEW t \in Tasks, Claim(t)
  PROVE  IInv'
<1> USE DEF IInv
<1> DEFINE id == ingress[t].id
<1>0. id \in Ids /\ id \notin expired /\ issued[id] # 0
  BY DEF Claim, Shape, Retention
<1>1. CASE journal[id].status = "absent"
  <2>1. /\ journal' = [journal EXCEPT ![id] = Accepted]
        /\ ingress' = [ingress EXCEPT ![t] =
             IF @.pc = "claiming" THEN [@ EXCEPT !.pc = "claimed"] ELSE IdleTask]
        /\ ingress[t].pc \in {"claiming", "abandoned"}
        /\ UNCHANGED <<up, closed, epoch, activation, lastGen, queue, worker, drainer,
                       issued, expired, executions, receipts, stale>>
    BY <1>1 DEF Claim
  <2>2. executions[id] = 0 /\ id \notin stale
    BY <1>0, <1>1 DEF Ledger, Staleness
  <2>3. \A x \in Ids : journal[x] = Accepted => x # id
    BY <1>1 DEF Accepted
  <2>4. TypeOK'
    <3>1. Accepted \in Row /\ IdleTask \in IngressTask
      BY JournalAssumption DEF Accepted, Row, IdleTask, IngressTask
    <3>2. [ingress[t] EXCEPT !.pc = "claimed"] \in IngressTask
      BY DEF TypeOK, IngressTask
    <3> QED
      BY <2>1, <3>1, <3>2 DEF TypeOK
  <2>5. Shape'
    BY <2>1 DEF TypeOK, Shape, Failing, IdleTask
  <2>6. Owners'
    BY <1>0, <2>1, <2>2, <2>3, SMTT(30) DEF TypeOK, Owners, Shape, Holding, Failing, IdleTask
  <2>7. Exclusive'
    BY <1>0, <2>1, <2>3 DEF TypeOK, Exclusive, Owners, Holding, Working, Failing, IdleTask
  <2>8. Ledger'
    BY <1>0, <1>1, <2>1, <2>2 DEF TypeOK, Ledger, OutcomesHonest, Outcomes, Accepted
  <2>9. Retention'
    BY <2>1 DEF TypeOK, Retention, IdleTask
  <2>10. Staleness'
    BY <1>0, <2>1, <2>2 DEF TypeOK, Staleness, Current, Accepted, IdleTask
  <2> QED
    BY <2>4, <2>5, <2>6, <2>7, <2>8, <2>9, <2>10
<1>2. CASE journal[id].status # "absent"
  <2>1. /\ ingress' = [ingress EXCEPT ![t] =
             IF @.pc = "claiming" THEN [@ EXCEPT !.pc = "duplicate"] ELSE IdleTask]
        /\ UNCHANGED <<journal, up, closed, epoch, activation, lastGen, queue, worker,
                       drainer, issued, expired, executions, receipts, stale>>
        /\ ingress[t].pc \in {"claiming", "abandoned"}
    BY <1>2 DEF Claim
  <2>2. TypeOK'
    <3>1. IdleTask \in IngressTask
      BY JournalAssumption DEF IdleTask, IngressTask
    <3>2. [ingress[t] EXCEPT !.pc = "duplicate"] \in IngressTask
      BY DEF TypeOK, IngressTask
    <3> QED
      BY <2>1, <3>1, <3>2 DEF TypeOK
  <2>3. Shape' /\ Retention'
    BY <2>1 DEF TypeOK, Shape, Retention, Failing, IdleTask
  <2>4. Owners' /\ Exclusive'
    BY <2>1 DEF TypeOK, Owners, Exclusive, Holding, Working, Failing, IdleTask
  <2>5. Ledger' /\ Staleness'
    BY <2>1 DEF TypeOK, Ledger, OutcomesHonest, Staleness, Current, IdleTask
  <2> QED
    BY <2>2, <2>3, <2>4, <2>5
<1> QED
  BY <1>1, <1>2

\* A task that stops holding nothing, or gives up what it held, goes idle.
LEMMA LeaveInv ==
  ASSUME IInv, NEW t \in Tasks,
         ingress' = [ingress EXCEPT ![t] = IdleTask],
         UNCHANGED <<journal, up, closed, epoch, activation, lastGen, queue, worker,
                     drainer, issued, expired, executions, receipts, stale>>
  PROVE  IInv'
<1> USE DEF IInv
<1>1. TypeOK'
  <2>1. IdleTask \in IngressTask
    BY JournalAssumption DEF IdleTask, IngressTask
  <2> QED
    BY <2>1 DEF TypeOK
<1>2. Shape' /\ Retention'
  BY DEF TypeOK, Shape, Retention, Failing, IdleTask
<1>3. Owners' /\ Exclusive'
  BY DEF TypeOK, Owners, Exclusive, Holding, Working, Failing, IdleTask
<1>4. Ledger' /\ Staleness'
  BY DEF TypeOK, Ledger, OutcomesHonest, Staleness, Current, IdleTask
<1> QED
  BY <1>1, <1>2, <1>3, <1>4

LEMMA AcceptInv ==
  ASSUME IInv, NEW t \in Tasks, Accept(t)
  PROVE  IInv'
<1> USE DEF IInv
<1> DEFINE id == ingress[t].id
           d  == [id |-> id, gen |-> ingress[t].gen]
<1>0. /\ id \in Ids /\ d \in Descriptor /\ ingress[t].gen \in 1..lastGen
      /\ ingress[t].pc = "claimed" /\ Holding(t) /\ up
  BY JournalAssumption, SMTT(30) DEF Accept, Shape, TypeOK, Descriptor, Holding
<1>1. receipts' \in [Ids -> Seq(Receipts)]
  BY <1>0 DEF Accept, TypeOK, Receipts
<1>2. CASE Current(ingress[t].gen)
  <2>1. /\ queue' = Append(queue, d)
        /\ ingress' = [ingress EXCEPT ![t] = IdleTask]
        /\ UNCHANGED <<journal, up, closed, epoch, activation, lastGen, worker,
                       drainer, issued, expired, executions, stale>>
    BY <1>2 DEF Accept
  <2>2. /\ queue' \in Seq(Descriptor)
        /\ \A i \in 1..Len(queue') :
              \/ i \in 1..Len(queue) /\ queue'[i] = queue[i]
              \/ i = Len(queue) + 1 /\ queue'[i] = d
    BY <1>0, <2>1, QueuePush DEF TypeOK
  <2>3. TypeOK'
    <3>1. IdleTask \in IngressTask
      BY JournalAssumption DEF IdleTask, IngressTask
    <3> QED
      BY <1>1, <2>1, <2>2, <3>1 DEF TypeOK
  <2>4. Shape'
    BY <1>0, <2>1, <2>2 DEF TypeOK, Shape, Failing, IdleTask
  <2>5. Owners'
    BY <1>0, <2>1, <2>2 DEF TypeOK, Owners, Holding, Failing, IdleTask
  <2>6. Exclusive'
    BY <1>0, <2>1, <2>2 DEF TypeOK, Exclusive, Holding, Working, Failing, IdleTask
  <2>7. Ledger' /\ Retention'
    BY <2>1 DEF TypeOK, Ledger, OutcomesHonest, Retention, IdleTask
  <2>8. Staleness'
    BY <1>0, <1>2, <2>1, <2>2 DEF TypeOK, Staleness, Current, IdleTask
  <2> QED
    BY <2>3, <2>4, <2>5, <2>6, <2>7, <2>8
<1>3. CASE ~Current(ingress[t].gen)
  <2>1. /\ ingress' = [ingress EXCEPT ![t].pc = "rejecting"]
        /\ UNCHANGED <<journal, up, closed, epoch, activation, lastGen, queue, worker,
                       drainer, issued, expired, executions, stale>>
    BY <1>3 DEF Accept
  <2>2. TypeOK'
    <3>1. [ingress[t] EXCEPT !.pc = "rejecting"] \in IngressTask
      BY DEF TypeOK, IngressTask
    <3> QED
      BY <1>1, <2>1, <3>1 DEF TypeOK
  <2>3. \A u \in Tasks : /\ ingress'[u].id = ingress[u].id /\ ingress'[u].gen = ingress[u].gen
                         /\ Holding(u)' <=> Holding(u)
                         /\ ingress'[u].pc = "idle" <=> ingress[u].pc = "idle"
                         /\ ingress'[u].pc = "claimed" => ingress[u].pc = "claimed"
    BY <1>0, <2>1 DEF TypeOK, IngressTask, Holding
  <2>4. Shape' /\ Retention'
    BY <1>0, <2>1, <2>3 DEF Shape, Retention, Failing
  <2>5. Owners' /\ Exclusive'
    BY <2>1, <2>3 DEF Owners, Exclusive, Working, Failing
  <2>6. Ledger' /\ Staleness'
    BY <2>1, <2>3 DEF Ledger, OutcomesHonest, Staleness, Current
  <2> QED
    BY <2>2, <2>4, <2>5, <2>6
<1> QED
  BY <1>2, <1>3

LEMMA RejectInv ==
  ASSUME IInv, NEW t \in Tasks, Reject(t)
  PROVE  IInv'
<1> USE DEF IInv
<1> DEFINE id == ingress[t].id
<1>0. /\ id \in Ids /\ Holding(t) /\ journal[id] = Accepted /\ executions[id] = 0 /\ up
  BY DEF Reject, Shape, Holding, Owners
<1>1. /\ journal' = [journal EXCEPT ![id] = Unstarted]
      /\ ingress' = [ingress EXCEPT ![t] = IdleTask]
      /\ UNCHANGED <<up, closed, epoch, activation, lastGen, queue, worker, drainer,
                     issued, expired, executions, receipts, stale>>
  BY DEF Reject
<1>2. TypeOK'
  <2>1. IdleTask \in IngressTask /\ Unstarted \in Row
    BY JournalAssumption DEF IdleTask, IngressTask, Unstarted, Row, Outcomes
  <2> QED
    BY <1>1, <2>1 DEF TypeOK
<1>3. Shape' /\ Retention'
  BY <1>1 DEF TypeOK, Shape, Retention, Failing, IdleTask
<1>4. Owners'
  BY <1>0, <1>1 DEF TypeOK, Owners, Exclusive, Holding, Working, Failing, IdleTask
<1>5. Exclusive'
  BY <1>1 DEF TypeOK, Exclusive, Holding, Working, Failing, IdleTask
<1>6. Ledger'
  BY <1>0, <1>1 DEF TypeOK, Ledger, OutcomesHonest, Unstarted, Accepted, Outcomes
<1>7. Staleness'
  BY <1>0, <1>1 DEF TypeOK, Staleness, Current, IdleTask, Unstarted
<1> QED
  BY <1>2, <1>3, <1>4, <1>5, <1>6, <1>7

LEMMA CancelControlInv ==
  ASSUME IInv, CancelControl
  PROVE  IInv'
<1> USE DEF IInv
<1>0. "control" \in Tasks
  BY DEF Tasks
<1>1. CASE ingress' = [ingress EXCEPT !["control"] = IdleTask]
  BY <1>0, <1>1, LeaveInv DEF CancelControl
<1>2. CASE /\ ingress["control"].pc = "claiming"
           /\ ingress' = [ingress EXCEPT !["control"].pc = "abandoned"]
  <2>1. UNCHANGED <<journal, up, closed, epoch, activation, lastGen, queue, worker,
                    drainer, issued, expired, executions, receipts, stale>>
    BY DEF CancelControl
  <2>2. TypeOK'
    <3>1. [ingress["control"] EXCEPT !.pc = "abandoned"] \in IngressTask
      BY <1>0 DEF TypeOK, IngressTask
    <3> QED
      BY <1>2, <2>1, <3>1 DEF TypeOK
  <2>3. \A u \in Tasks : /\ ingress'[u].id = ingress[u].id /\ ingress'[u].gen = ingress[u].gen
                         /\ Holding(u)' <=> Holding(u)
                         /\ ingress'[u].pc = "idle" <=> ingress[u].pc = "idle"
                         /\ ingress'[u].pc = "claimed" => ingress[u].pc = "claimed"
    BY <1>2 DEF TypeOK, IngressTask, Holding
  <2>4. Shape' /\ Retention'
    BY <2>1, <2>3 DEF Shape, Retention, Failing
  <2>5. Owners' /\ Exclusive'
    BY <2>1, <2>3 DEF Owners, Exclusive, Working, Failing
  <2>6. Ledger' /\ Staleness'
    BY <2>1, <2>3 DEF Ledger, OutcomesHonest, Staleness, Current
  <2> QED
    BY <2>2, <2>4, <2>5, <2>6
<1> QED
  BY <1>1, <1>2 DEF CancelControl
-----------------------------------------------------------------------------
LEMMA TakeInv ==
  ASSUME IInv, Take
  PROVE  IInv'
<1> USE DEF IInv
<1> DEFINE id == Head(queue).id
<1>1. /\ 1 \in 1..Len(queue) /\ Head(queue) = queue[1] /\ Head(queue) \in Descriptor
      /\ Tail(queue) \in Seq(Descriptor)
      /\ \A i \in 1..Len(Tail(queue)) :
            /\ i + 1 \in 2..Len(queue)
            /\ Tail(queue)[i] = queue[i + 1] /\ Tail(queue)[i] \in Descriptor
  BY QueuePop DEF Take, TypeOK
<1>2. id \in Ids /\ journal[id] = Accepted /\ executions[id] = 0
  BY <1>1 DEF Descriptor, Owners
<1>3. /\ up /\ worker.pc = "idle" /\ queue' = Tail(queue)
      /\ UNCHANGED <<journal, up, closed, epoch, activation, lastGen, ingress, drainer,
                     issued, expired, receipts, stale>>
  BY DEF Take
<1>4. \/ /\ worker' = [pc |-> "running", id |-> id]
         /\ executions' = [executions EXCEPT ![id] = @ + 1]
      \/ /\ worker' = [pc |-> "refusing", id |-> id]
         /\ UNCHANGED executions
  BY DEF Take
<1>5. TypeOK'
  <2>1. [pc |-> "running", id |-> id] \in WorkerTask /\ [pc |-> "refusing", id |-> id] \in WorkerTask
    BY <1>2 DEF WorkerTask
  <2>2. executions' \in [Ids -> Nat]
    BY <1>2, <1>4, SMTT(30) DEF TypeOK
  <2> QED
    BY <1>1, <1>3, <1>4, <2>1, <2>2 DEF TypeOK
<1>6. Shape'
  BY <1>1, <1>2, <1>3, <1>4 DEF Shape, Failing
<1>7. /\ \A t \in Tasks : Holding(t) => ingress[t].id # id
      /\ \A i \in 1..Len(Tail(queue)) : Tail(queue)[i].id # id
      /\ \A e \in Drainers : Failing(e) => drainer[e].id # id
  BY <1>1 DEF Exclusive
<1>8. /\ \A x \in Ids : x # id => executions'[x] = executions[x]
      /\ worker'.pc = "running" => executions'[id] = 1
      /\ worker'.pc = "refusing" => executions'[id] = 0
      /\ worker'.pc \in {"running", "refusing"} /\ worker'.id = id
  <2>1. executions \in [Ids -> Nat]
    BY DEF TypeOK
  <2> QED
    BY <1>2, <1>4, <2>1
<1>9. Owners'
  <2>1. \A t \in Tasks : Holding(t) => ingress[t].id \in Ids
    BY DEF Shape, Holding
  <2>2. \A i \in 1..Len(Tail(queue)) : Tail(queue)[i].id \in Ids
    BY <1>1 DEF Descriptor
  <2>3. \A e \in Drainers : Failing(e) => drainer[e].id \in Ids
    BY DEF Shape
  <2> QED
    BY <1>1, <1>2, <1>3, <1>7, <1>8, <2>1, <2>2, <2>3 DEF Owners, Holding, Failing
<1>10. Exclusive'
  BY <1>1, <1>3, <1>4, <1>7 DEF Exclusive, Holding, Working, Failing
<1>11. Ledger'
  BY <1>2, <1>3, <1>8 DEF Ledger, OutcomesHonest, Accepted
<1>12. Retention' /\ Staleness'
  BY <1>1, <1>3 DEF Retention, Staleness, Current
<1> QED
  BY <1>5, <1>6, <1>9, <1>10, <1>11, <1>12

LEMMA RefuseInv ==
  ASSUME IInv, Refuse
  PROVE  IInv'
<1> USE DEF IInv
<1> DEFINE id == worker.id
<1>0. id \in Ids /\ Working /\ journal[id] = Accepted /\ executions[id] = 0 /\ up
  BY DEF Refuse, Shape, Working, Owners
<1>1. /\ journal' = [journal EXCEPT ![id] = Unstarted]
      /\ worker' = [worker EXCEPT !.pc = "refused"]
      /\ UNCHANGED <<up, closed, epoch, activation, lastGen, ingress, queue, drainer,
                     issued, expired, executions, receipts, stale>>
  BY DEF Refuse
<1>2. TypeOK'
  <2>1. [worker EXCEPT !.pc = "refused"] \in WorkerTask /\ Unstarted \in Row
    BY DEF TypeOK, WorkerTask, Unstarted, Row, Outcomes
  <2> QED
    BY <1>1, <2>1 DEF TypeOK
<1>3. worker'.pc = "refused" /\ worker'.id = id
  BY <1>1 DEF TypeOK, WorkerTask
<1>4. Shape' /\ Retention'
  BY <1>0, <1>1, <1>3 DEF Shape, Retention, Failing
<1>5. Owners'
  BY <1>0, <1>1, <1>3 DEF TypeOK, Owners, Exclusive, Holding, Working, Failing
<1>6. Exclusive'
  BY <1>1, <1>3 DEF Exclusive, Holding, Working, Failing
<1>7. Ledger'
  BY <1>0, <1>1, <1>3 DEF TypeOK, Ledger, OutcomesHonest, Unstarted, Accepted, Outcomes
<1>8. Staleness'
  BY <1>0, <1>1 DEF TypeOK, Staleness, Current, Unstarted
<1> QED
  BY <1>2, <1>4, <1>5, <1>6, <1>7, <1>8

LEMMA FinishInv ==
  ASSUME IInv, NEW s \in Outcomes, Finish(s)
  PROVE  IInv'
<1> USE DEF IInv
<1> DEFINE id == worker.id
<1>0. id \in Ids /\ Working /\ journal[id] = Accepted /\ executions[id] = 1 /\ up
  BY DEF Finish, Shape, Working, Owners
<1>1. /\ journal' = [journal EXCEPT ![id] = Reported(s)]
      /\ worker' = [worker EXCEPT !.pc = "finished"]
      /\ UNCHANGED <<up, closed, epoch, activation, lastGen, ingress, queue, drainer,
                     issued, expired, executions, receipts, stale>>
  BY DEF Finish
<1>2. TypeOK'
  <2>1. [worker EXCEPT !.pc = "finished"] \in WorkerTask /\ Reported(s) \in Row
    BY DEF TypeOK, WorkerTask, Reported, Row
  <2> QED
    BY <1>1, <2>1 DEF TypeOK
<1>3. worker'.pc = "finished" /\ worker'.id = id
  BY <1>1 DEF TypeOK, WorkerTask
<1>4. Shape' /\ Retention'
  BY <1>0, <1>1, <1>3 DEF Shape, Retention, Failing
<1>5. Owners'
  BY <1>0, <1>1, <1>3 DEF TypeOK, Owners, Exclusive, Holding, Working, Failing
<1>6. Exclusive'
  BY <1>1, <1>3 DEF Exclusive, Holding, Working, Failing
<1>7. Ledger'
  BY <1>0, <1>1, <1>3 DEF TypeOK, Ledger, OutcomesHonest, Reported, Accepted, Outcomes
<1>8. Staleness'
  BY <1>0, <1>1 DEF TypeOK, Staleness, Current, Reported, Outcomes
<1> QED
  BY <1>2, <1>4, <1>5, <1>6, <1>7, <1>8

\* A receipt is published and the worker waits for the next descriptor.
LEMMA ReportInv ==
  ASSUME IInv, Report \/ ReportRefusal
  PROVE  IInv'
<1> USE DEF IInv
<1>1. /\ up /\ worker.pc \in {"finished", "refused"} /\ worker' = Idle
      /\ UNCHANGED <<journal, up, closed, epoch, activation, lastGen, ingress, queue,
                     drainer, issued, expired, executions, stale>>
  BY DEF Report, ReportRefusal
<1>2. receipts' \in [Ids -> Seq(Receipts)]
  <2>1. worker.id \in Ids
    BY <1>1 DEF Shape
  <2>2. CASE Report
    <3>1. journal[worker.id].status \in Receipts
      BY <2>2 DEF Report, Ledger, Receipts
    <3> QED
      BY <2>1, <2>2, <3>1 DEF Report, TypeOK
  <2>3. CASE ReportRefusal
    BY <2>1, <2>3 DEF ReportRefusal, TypeOK, Receipts, Outcomes
  <2> QED
    BY <2>2, <2>3
<1>3. TypeOK'
  <2>1. Idle \in WorkerTask
    BY DEF Idle, WorkerTask
  <2> QED
    BY <1>1, <1>2, <2>1 DEF TypeOK
<1>4. Shape' /\ Retention'
  BY <1>1 DEF Shape, Retention, Failing, Idle
<1>5. Owners' /\ Exclusive'
  BY <1>1 DEF Owners, Exclusive, Holding, Working, Failing, Idle
<1>6. Ledger' /\ Staleness'
  BY <1>1 DEF Ledger, OutcomesHonest, Staleness, Current, Idle
<1> QED
  BY <1>3, <1>4, <1>5, <1>6
-----------------------------------------------------------------------------
\* Whoever holds an action when its row goes stale has lost its activation.
LEMMA ActivateInv ==
  ASSUME IInv, Activate
  PROVE  IInv'
<1> USE DEF IInv
<1>1. /\ up /\ lastGen' = lastGen + 1 /\ activation' = lastGen + 1
      /\ lastGen \in Nat /\ lastGen + 1 \in 0..MaxGeneration
      /\ Outdate
      /\ UNCHANGED <<journal, up, closed, epoch, ingress, queue, worker, drainer,
                     issued, expired, executions, receipts>>
  BY JournalAssumption DEF Activate, TypeOK
<1>2. TypeOK'
  BY <1>1 DEF TypeOK, Outdate
<1>3. \A g \in 1..lastGen : g \in 1..lastGen' /\ g # activation'
  BY <1>1
<1>4. Shape' /\ Retention'
  BY <1>1, <1>3 DEF Shape, Retention, Failing
<1>5. Owners' /\ Exclusive'
  BY <1>1 DEF Owners, Exclusive, Holding, Working, Failing
<1>6. Ledger'
  BY <1>1 DEF Ledger, OutcomesHonest
<1>7. Staleness'
  <2>1. \A id \in stale' : journal[id].status = "absent" => id \in expired
    BY <1>1 DEF Staleness, Outdate
  <2> QED
    BY <1>1, <1>3, <2>1 DEF Staleness, Shape, Current
<1> QED
  BY <1>2, <1>4, <1>5, <1>6, <1>7

LEMMA SuspendInv ==
  ASSUME IInv, Suspend
  PROVE  IInv'
<1> USE DEF IInv
<1>1. /\ up /\ activation' = 0 /\ Outdate /\ "suspend" \in Drainers
      /\ drainer["suspend"].pc = "idle"
      /\ drainer' = [drainer EXCEPT !["suspend"].pc = "draining"]
      /\ UNCHANGED <<journal, up, closed, epoch, lastGen, ingress, queue, worker,
                     issued, expired, executions, receipts>>
  BY DEF Suspend, Drainers
<1>2. [drainer["suspend"] EXCEPT !.pc = "draining"] \in DrainTask
  BY <1>1 DEF TypeOK, DrainTask
<1>3. TypeOK'
  BY <1>1, <1>2 DEF TypeOK, Outdate
<1>4. \A d \in Drainers : Failing(d)' <=> Failing(d)
  BY <1>1 DEF TypeOK, DrainTask, Failing
<1>5. \A d \in Drainers : Failing(d) => drainer'[d] = drainer[d]
  BY <1>1 DEF TypeOK, Failing
<1>6. Shape' /\ Retention'
  BY <1>1, <1>4, <1>5 DEF Shape, Retention
<1>7. Owners' /\ Exclusive'
  BY <1>1, <1>4, <1>5 DEF Owners, Exclusive, Holding, Working
<1>8. Ledger'
  BY <1>1 DEF Ledger, OutcomesHonest
<1>9. Staleness'
  BY <1>1 DEF TypeOK, Staleness, Shape, Current, Outdate
<1> QED
  BY <1>3, <1>6, <1>7, <1>8, <1>9

LEMMA CloseInv ==
  ASSUME IInv, Close
  PROVE  IInv'
<1> USE DEF IInv
<1>1. /\ up /\ closed' = TRUE /\ Outdate /\ "close" \in Drainers
      /\ drainer' = [drainer EXCEPT !["close"].pc = "draining"]
      /\ UNCHANGED <<journal, up, epoch, activation, lastGen, ingress, queue, worker,
                     issued, expired, executions, receipts>>
  BY DEF Close, Drainers
<1>2. [drainer["close"] EXCEPT !.pc = "draining"] \in DrainTask
  BY <1>1 DEF TypeOK, DrainTask
<1>3. TypeOK'
  BY <1>1, <1>2 DEF TypeOK, Outdate
<1>4. \A d \in Drainers : Failing(d)' => Failing(d) /\ drainer'[d] = drainer[d]
  BY <1>1 DEF TypeOK, DrainTask, Failing
<1>5. Shape' /\ Retention'
  BY <1>1, <1>4 DEF Shape, Retention
<1>6. Owners' /\ Exclusive'
  BY <1>1, <1>4 DEF Owners, Exclusive, Holding, Working
<1>7. Ledger'
  BY <1>1 DEF Ledger, OutcomesHonest
<1>8. Staleness'
  BY <1>1 DEF TypeOK, Staleness, Current, Outdate
<1> QED
  BY <1>3, <1>5, <1>6, <1>7, <1>8

LEMMA DrainPopInv ==
  ASSUME IInv, NEW d \in Drainers, DrainPop(d)
  PROVE  IInv'
<1> USE DEF IInv
<1>1. /\ up /\ drainer[d].pc = "draining"
      /\ UNCHANGED <<journal, up, closed, epoch, activation, lastGen, ingress, worker,
                     issued, expired, executions, receipts, stale>>
  BY DEF DrainPop
<1>2. CASE queue = << >>
  <2>1. /\ queue' = queue
        /\ drainer' = [drainer EXCEPT ![d].pc = IF d = "close" THEN "drained" ELSE "idle"]
    BY <1>2 DEF DrainPop
  <2>2. [drainer[d] EXCEPT !.pc = IF d = "close" THEN "drained" ELSE "idle"] \in DrainTask
    BY DEF TypeOK, DrainTask
  <2>3. TypeOK'
    BY <1>1, <2>1, <2>2 DEF TypeOK
  <2>4. \A e \in Drainers : Failing(e)' => Failing(e) /\ drainer'[e] = drainer[e]
    BY <1>1, <2>1 DEF TypeOK, DrainTask, Failing
  <2>5. Shape' /\ Retention'
    BY <1>1, <2>1, <2>4 DEF Shape, Retention
  <2>6. Owners' /\ Exclusive'
    BY <1>1, <2>1, <2>4 DEF Owners, Exclusive, Holding, Working
  <2>7. Ledger' /\ Staleness'
    BY <1>1, <2>1 DEF Ledger, OutcomesHonest, Staleness, Current
  <2> QED
    BY <2>3, <2>5, <2>6, <2>7
<1>3. CASE queue # << >>
  <2> DEFINE id == Head(queue).id
  <2>1. /\ 1 \in 1..Len(queue) /\ Head(queue) = queue[1] /\ Head(queue) \in Descriptor
        /\ Tail(queue) \in Seq(Descriptor)
        /\ \A i \in 1..Len(Tail(queue)) :
              i + 1 \in 2..Len(queue) /\ Tail(queue)[i] = queue[i + 1]
    BY <1>3, QueuePop DEF TypeOK
  <2>2. /\ queue' = Tail(queue)
        /\ drainer' = [drainer EXCEPT ![d] = [pc |-> "failing", id |-> id]]
    BY <1>3 DEF DrainPop
  <2>3. id \in Ids /\ journal[id] = Accepted /\ executions[id] = 0
    BY <2>1 DEF Descriptor, Owners
  <2>4. TypeOK'
    <3>1. [pc |-> "failing", id |-> id] \in DrainTask
      BY <2>3 DEF DrainTask
    <3> QED
      BY <1>1, <2>1, <2>2, <3>1 DEF TypeOK
  <2>5. /\ Failing(d)' /\ drainer'[d].id = id
        /\ \A e \in Drainers : e # d => drainer'[e] = drainer[e] /\ (Failing(e)' <=> Failing(e))
    BY <2>2 DEF TypeOK, Failing
  <2>6. /\ \A t \in Tasks : Holding(t) => ingress[t].id # id
        /\ \A i \in 1..Len(Tail(queue)) : Tail(queue)[i].id # id
        /\ Working => worker.id # id
        /\ \A e \in Drainers : Failing(e) => drainer[e].id # id
    BY <2>1 DEF Exclusive
  <2>7. Shape' /\ Retention'
    BY <1>1, <2>1, <2>2, <2>3, <2>5 DEF Shape, Retention
  <2>8. Owners'
    BY <1>1, <2>1, <2>2, <2>3, <2>5 DEF Owners, Holding
  <2>9. Exclusive'
    BY <1>1, <2>1, <2>2, <2>5, <2>6 DEF Exclusive, Holding, Working
  <2>10. Ledger' /\ Staleness'
    BY <1>1, <2>1, <2>2 DEF Ledger, OutcomesHonest, Staleness, Current
  <2> QED
    BY <2>4, <2>7, <2>8, <2>9, <2>10
<1> QED
  BY <1>2, <1>3

LEMMA DrainFailInv ==
  ASSUME IInv, NEW d \in Drainers, DrainFail(d)
  PROVE  IInv'
<1> USE DEF IInv
<1> DEFINE id == drainer[d].id
<1>0. id \in Ids /\ Failing(d) /\ journal[id] = Accepted /\ executions[id] = 0 /\ up
  BY DEF DrainFail, Shape, Failing, Owners
<1>1. /\ journal' = [journal EXCEPT ![id] = Unstarted]
      /\ drainer' = [drainer EXCEPT ![d] = [pc |-> "draining", id |-> NoId]]
      /\ UNCHANGED <<up, closed, epoch, activation, lastGen, ingress, queue, worker,
                     issued, expired, executions, receipts, stale>>
  BY DEF DrainFail
<1>2. TypeOK'
  <2>1. [pc |-> "draining", id |-> NoId] \in DrainTask /\ Unstarted \in Row
    BY DEF DrainTask, Unstarted, Row, Outcomes
  <2> QED
    BY <1>1, <2>1 DEF TypeOK
<1>3. \A e \in Drainers : Failing(e)' => e # d /\ Failing(e) /\ drainer'[e] = drainer[e]
  BY <1>1 DEF TypeOK, Failing
<1>4. Shape' /\ Retention'
  BY <1>0, <1>1, <1>3 DEF Shape, Retention
<1>5. Owners'
  BY <1>0, <1>1, <1>3 DEF TypeOK, Owners, Exclusive, Holding, Working, Failing
<1>6. Exclusive'
  BY <1>1, <1>3 DEF Exclusive, Holding, Working
<1>7. Ledger'
  BY <1>0, <1>1 DEF TypeOK, Ledger, OutcomesHonest, Unstarted, Accepted, Outcomes
<1>8. Staleness'
  BY <1>0, <1>1 DEF TypeOK, Staleness, Current, Unstarted
<1> QED
  BY <1>2, <1>4, <1>5, <1>6, <1>7, <1>8

\* Nothing volatile survives the process, and the durable rest is untouched.
LEMMA StopInv ==
  ASSUME IInv, Exit \/ Crash
  PROVE  IInv'
<1> USE DEF IInv
<1>1. /\ up' = FALSE /\ Volatile
      /\ UNCHANGED <<journal, epoch, lastGen, issued, expired, executions, receipts, stale>>
  BY DEF Exit, Crash
<1>2. TypeOK'
  <2>1. IdleTask \in IngressTask /\ Idle \in WorkerTask /\ Idle \in DrainTask
    BY JournalAssumption DEF IdleTask, Idle, IngressTask, WorkerTask, DrainTask
  <2>2. << >> \in Seq(Descriptor) /\ 0 \in 0..lastGen
    BY JournalAssumption DEF TypeOK
  <2> QED
    BY <1>1, <2>1, <2>2 DEF TypeOK, Volatile
<1>3. Shape' /\ Retention'
  BY <1>1 DEF Shape, Retention, Volatile, IdleTask, Idle, Failing
<1>4. Owners' /\ Exclusive'
  BY <1>1 DEF Owners, Exclusive, Volatile, IdleTask, Idle, Holding, Working, Failing
<1>5. Ledger' /\ Staleness'
  BY <1>1 DEF Ledger, OutcomesHonest, Staleness, Volatile, IdleTask, Idle
<1> QED
  BY <1>2, <1>3, <1>4, <1>5

\* A new process finds no task under way and issues nothing of an old epoch.
LEMMA BootInv ==
  ASSUME IInv, NEW old \in SUBSET {id \in Ids : journal[id].status # "absent"}, Boot(old)
  PROVE  IInv'
<1> USE DEF IInv
<1>1. /\ ~up /\ up' = TRUE /\ epoch' = epoch + 1
      /\ epoch \in Nat /\ epoch + 1 \in 0..MaxEpoch
      /\ journal' = [id \in Ids |->
                       IF id \in old THEN Absent
                       ELSE IF journal[id].status = "accepted" THEN Lost ELSE journal[id]]
      /\ expired' = expired \cup old
      /\ stale' = stale \cup {id \in Ids : journal[id].status # "absent"}
      /\ UNCHANGED <<closed, activation, lastGen, ingress, queue, worker, drainer,
                     issued, executions, receipts>>
  BY JournalAssumption DEF Boot, TypeOK
<1>2. /\ \A t \in Tasks : ingress[t].pc = "idle"
      /\ queue = << >> /\ worker.pc = "idle"
      /\ \A d \in Drainers : drainer[d].pc = "idle"
  BY <1>1 DEF Shape
<1>3. TypeOK'
  <2>1. Absent \in Row /\ Lost \in Row
    BY DEF Absent, Lost, Row, Outcomes
  <2> QED
    BY <1>1, <2>1 DEF TypeOK
<1>4. Shape' /\ Owners' /\ Exclusive'
  BY <1>1, <1>2 DEF Shape, Owners, Exclusive, Holding, Working, Failing
<1>5. Ledger'
  BY <1>1, <1>2 DEF Ledger, OutcomesHonest, Absent, Lost
<1>6. Retention'
  BY <1>1, <1>2 DEF TypeOK, Retention, Ledger
<1>7. Staleness'
  <2>1. \A id \in stale' : id \in Ids
    BY <1>3 DEF TypeOK
  <2> QED
    BY <1>1, <1>2, <2>1 DEF Staleness, Absent, Lost
<1> QED
  BY <1>3, <1>4, <1>5, <1>6, <1>7
-----------------------------------------------------------------------------
LEMMA StepInv == IInv /\ [Next]_vars => IInv'
<1> SUFFICES ASSUME IInv, [Next]_vars PROVE IInv'
  OBVIOUS
<1>1. ASSUME NEW t \in Tasks, TaskStep(t) PROVE IInv'
  <2>1. ASSUME NEW id \in Source[t], Receive(t, id) PROVE IInv'
    BY <2>1, ReceiveInv
  <2>2. CASE AnswerDuplicate(t)
    BY <2>2, LeaveInv DEF AnswerDuplicate
  <2> QED
    BY <1>1, <2>1, <2>2, ClaimInv, AcceptInv, RejectInv DEF TaskStep
<1>2. CASE WorkerStep
  BY <1>2, TakeInv, RefuseInv, FinishInv, ReportInv DEF WorkerStep
<1>3. ASSUME NEW d \in Drainers, DrainStep(d) PROVE IInv'
  BY <1>3, DrainPopInv, DrainFailInv DEF DrainStep
<1>4. CASE \E old \in SUBSET {id \in Ids : journal[id].status # "absent"} : Boot(old)
  BY <1>4, BootInv
<1>5. CASE UNCHANGED vars
  BY <1>5 DEF vars, IInv, TypeOK, Shape, Owners, Exclusive, Ledger, OutcomesHonest,
       Retention, Staleness, Current, Holding, Working, Failing
<1> QED
  BY <1>1, <1>2, <1>3, <1>4, <1>5, CancelControlInv, ActivateInv, SuspendInv, CloseInv,
     StopInv DEF Next

\* Every reachable state satisfies the inductive invariant.
THEOREM Invariance == Spec => []IInv
<1>1. Init => IInv
  BY InitInv
<1>2. IInv /\ [Next]_vars => IInv'
  BY StepInv
<1> QED
  BY <1>1, <1>2, PTL DEF Spec

\* The journal, the tasks and the histories of _ingest_action, _action_loop,
\* _handle_topic and close keep their types.
THEOREM TypeCorrect == Spec => []TypeOK
<1>1. IInv => TypeOK
  BY DEF IInv
<1> QED
  BY <1>1, Invariance, PTL

\* However often a message is delivered, and whatever crashes, restarts and
\* retention do, _execute_action is entered at most once for an action.
THEOREM ExecutedAtMostOnce == Spec => []AtMostOnce
<1>1. IInv => AtMostOnce
  BY DEF IInv, Ledger, AtMostOnce
<1> QED
  BY <1>1, Invariance, PTL

\* "failed before execution" is recorded only of actions that were never
\* executed, and a reported outcome only of actions that were.
THEOREM JournalIsHonest == Spec => []OutcomesHonest
<1>1. IInv => OutcomesHonest
  BY DEF IInv, Ledger
<1> QED
  BY <1>1, Invariance, PTL
-----------------------------------------------------------------------------
\* finish_action updates without looking, but only ever rows still accepted.
LEMMA FinalStep ==
  IInv /\ [Next]_vars =>
    \A id \in Ids : journal[id].status \in Outcomes /\ journal'[id] # journal[id] =>
        journal'[id] = Absent /\ epoch' # epoch
<1> SUFFICES ASSUME IInv, [Next]_vars, NEW x \in Ids,
                    journal[x].status \in Outcomes, journal'[x] # journal[x]
             PROVE  journal'[x] = Absent /\ epoch' # epoch
  OBVIOUS
<1>0. journal \in [Ids -> Row] /\ journal[x] # Accepted /\ journal[x].status # "absent"
  BY DEF IInv, TypeOK, Accepted, Outcomes
<1>1. ASSUME NEW t \in Tasks, TaskStep(t) PROVE FALSE
  <2>1. CASE Claim(t)
    BY <1>0, <2>1 DEF Claim
  <2>2. CASE Reject(t)
    BY <1>0, <2>2 DEF Reject, IInv, Owners, Holding
  <2> QED
    BY <1>1, <2>1, <2>2 DEF TaskStep, Receive, AnswerDuplicate, Accept
<1>2. CASE WorkerStep
  <2>1. CASE Refuse
    BY <1>0, <2>1 DEF Refuse, IInv, Owners
  <2>2. ASSUME NEW s \in Outcomes, Finish(s) PROVE FALSE
    BY <1>0, <2>2 DEF Finish, IInv, Owners
  <2> QED
    BY <1>2, <2>1, <2>2 DEF WorkerStep, Take, ReportRefusal, Report
<1>3. ASSUME NEW d \in Drainers, DrainStep(d) PROVE FALSE
  BY <1>0, <1>3 DEF DrainStep, DrainPop, DrainFail, IInv, Owners, Failing
<1>4. ASSUME NEW old \in SUBSET {id \in Ids : journal[id].status # "absent"}, Boot(old)
      PROVE  journal'[x] = Absent /\ epoch' # epoch
  BY <1>0, <1>4 DEF Boot, IInv, TypeOK, Outcomes
<1> QED
  BY <1>1, <1>2, <1>3, <1>4 DEF Next, vars, CancelControl, Activate, Suspend, Close, Exit,
     Crash

\* A terminal status is final until retention deletes the row at a restart.
THEOREM TerminalStatusIsFinal == Spec => TerminalIsFinal
<1>1. IInv /\ [Next]_vars =>
        [\A id \in Ids : journal[id].status \in Outcomes /\ journal'[id] # journal[id] =>
            journal'[id] = Absent /\ epoch' # epoch]_vars
  BY FinalStep
<1> QED
  BY <1>1, Invariance, PTL DEF Spec, TerminalIsFinal

\* Only Take calls a handler, and never for work of an earlier activation.
LEMMA StartStep ==
  IInv /\ [Next]_vars =>
    \A id \in Ids : executions'[id] > executions[id] => id \notin stale
<1> SUFFICES ASSUME IInv, [Next]_vars, NEW x \in Ids, executions'[x] > executions[x]
             PROVE  x \notin stale
  OBVIOUS
<1>0. executions \in [Ids -> Nat] /\ queue \in Seq(Descriptor)
  BY DEF IInv, TypeOK
<1>1. CASE Take
  <2>1. queue # << >> /\ 1 \in 1..Len(queue) /\ Head(queue) = queue[1]
    BY <1>0, <1>1, QueuePop DEF Take
  <2>2. Current(Head(queue).gen) /\ Head(queue).id = x
    BY <1>0, <1>1 DEF Take
  <2> QED
    BY <2>1, <2>2 DEF IInv, Staleness
<1>2. CASE UNCHANGED executions
  BY <1>0, <1>2
<1> QED
  BY <1>1, <1>2 DEF Next, vars, TaskStep, Receive, Claim, AnswerDuplicate, Accept, Reject,
     CancelControl, WorkerStep, Refuse, ReportRefusal, Finish, Report, Activate, Suspend,
     Close, Exit, Crash, DrainStep, DrainPop, DrainFail, Boot

\* Work accepted before a topic change, a shutdown or a restart is never begun
\* after it, even when the same topic is back by then.
THEOREM StaleWorkNeverStarts == Spec => StaleNeverStarts
<1>1. IInv /\ [Next]_vars =>
        [\A id \in Ids : executions'[id] > executions[id] => id \notin stale]_vars
  BY StartStep
<1> QED
  BY <1>1, Invariance, PTL DEF Spec, StaleNeverStarts
-----------------------------------------------------------------------------
(* Receipts, and who owes them: facts about IInv's holders.                *)

\* A holder of an action that is accepted and not announced yet is an ingress
\* task; whoever gets it from there holds one that is announced and no more.
Paid ==
    /\ \A t \in Tasks : ingress[t].pc = "claimed" => receipts[ingress[t].id] = << >>
    /\ \A t \in Tasks : ingress[t].pc = "rejecting" => receipts[ingress[t].id] = <<"accepted">>
    /\ \A i \in 1..Len(queue) : receipts[queue[i].id] = <<"accepted">>
    /\ worker.pc # "idle" => receipts[worker.id] = <<"accepted">>
    /\ worker.pc = "refused" => journal[worker.id].status = "failed"
    /\ \A d \in Drainers : Failing(d) => receipts[drainer[d].id] = <<"accepted">>
    /\ \A id \in Ids \ expired : journal[id].status = "absent" => receipts[id] = << >>
    /\ ReceiptsHonest

\* Somebody owes the action id its terminal status.
Held(id) ==
    \/ \E t \in Tasks : Holding(t) /\ ingress[t].id = id
    \/ \E i \in 1..Len(queue) : queue[i].id = id
    \/ Working /\ worker.id = id
    \/ \E d \in Drainers : Failing(d) /\ drainer[d].id = id

\* An accepted action is held; only control requests are ever let go of, and
\* the drain of a bridge that is not closing has not begun.
Covered ==
    /\ \A t \in Tasks : ingress[t].pc # "idle" => ingress[t].id \in Source[t]
    /\ \A t \in Tasks : ingress[t].pc = "abandoned" => t = "control"
    /\ ~closed => drainer["close"].pc = "idle"
    /\ up => \A id \in Ids \ ControlIds : journal[id].status = "accepted" => Held(id)

LEMMA QueueShift ==
  ASSUME NEW q \in Seq(Descriptor), q # << >>
  PROVE  \A i \in 2..Len(q) : i - 1 \in 1..Len(Tail(q)) /\ Tail(q)[i - 1] = q[i]
  OBVIOUS

LEMMA QueueIds ==
  ASSUME NEW q \in Seq(Descriptor)
  PROVE  \A i \in 1..Len(q) : q[i].id \in Ids
<1>1. \A i \in 1..Len(q) : q[i] \in Descriptor
  OBVIOUS
<1> QED
  BY <1>1 DEF Descriptor

LEMMA QueuePushed ==
  ASSUME NEW q \in Seq(Descriptor), NEW d \in Descriptor
  PROVE  /\ Len(q) + 1 \in 1..Len(Append(q, d)) /\ Append(q, d)[Len(q) + 1] = d
         /\ \A i \in 1..Len(q) : i \in 1..Len(Append(q, d)) /\ Append(q, d)[i] = q[i]
  OBVIOUS

\* What a terminal receipt makes of the receipts of an announced action.
LEMMA SecondReceipt ==
  ASSUME NEW s \in Outcomes
  PROVE  Append(<<"accepted">>, s) = <<"accepted", s>>
<1>1. "accepted" \in Receipts /\ s \in Receipts
  BY DEF Receipts
<1>2. <<"accepted">> \in Seq(Receipts) /\ Len(<<"accepted">>) = 1
  BY <1>1
<1>3. Append(<<"accepted">>, s) \in Seq(Receipts) /\ <<"accepted", s>> \in Seq(Receipts)
  BY <1>1, <1>2
<1>4. Len(Append(<<"accepted">>, s)) = Len(<<"accepted", s>>)
  BY <1>2
<1>5. \A i \in 1..Len(Append(<<"accepted">>, s)) :
         Append(<<"accepted">>, s)[i] = <<"accepted", s>>[i]
  BY <1>2
<1>6. \A a, b \in Seq(Receipts) :
         Len(a) = Len(b) /\ (\A i \in 1..Len(a) : a[i] = b[i]) => a = b
  BY SeqEqual
<1> QED
  BY <1>3, <1>4, <1>5, <1>6, Zenon

\* A step that publishes nothing and records no status keeps who has what.
LEMMA QuietPaid ==
  ASSUME IInv, Paid, UNCHANGED <<receipts, journal, expired>>,
         \A t \in Tasks : ingress'[t] = ingress[t]
                          \/ ingress'[t].pc \notin {"claimed", "rejecting"},
         \A i \in 1..Len(queue') : \E j \in 1..Len(queue) : queue'[i] = queue[j],
         \/ worker' = worker
         \/ worker' = Idle
         \/ /\ worker'.pc \in {"running", "refusing"}
            /\ \E j \in 1..Len(queue) : worker'.id = queue[j].id,
         \A d \in Drainers : Failing(d)' =>
            \/ Failing(d) /\ drainer'[d] = drainer[d]
            \/ \E j \in 1..Len(queue) : drainer'[d].id = queue[j].id
  PROVE  Paid'
<1>1. \A t \in Tasks : /\ ingress'[t].pc = "claimed" => receipts[ingress'[t].id] = << >>
                       /\ ingress'[t].pc = "rejecting" => receipts[ingress'[t].id] = <<"accepted">>
  BY DEF Paid
<1>2. \A j \in 1..Len(queue) : receipts[queue[j].id] = <<"accepted">>
  BY DEF Paid
<1>3. \A i \in 1..Len(queue') : receipts[queue'[i].id] = <<"accepted">>
  BY <1>2
<1>4. /\ worker'.pc # "idle" => receipts[worker'.id] = <<"accepted">>
      /\ worker'.pc = "refused" => journal[worker'.id].status = "failed"
  <2>1. CASE worker' = worker
    BY <2>1 DEF Paid
  <2>2. CASE worker' = Idle
    BY <2>2 DEF Idle
  <2>3. ASSUME worker'.pc \in {"running", "refusing"},
               NEW j \in 1..Len(queue), worker'.id = queue[j].id
        PROVE  receipts[worker'.id] = <<"accepted">> /\ worker'.pc # "refused"
    BY <1>2, <2>3
  <2> QED
    BY <2>1, <2>2, <2>3
<1>5. \A d \in Drainers : Failing(d)' => receipts[drainer'[d].id] = <<"accepted">>
  BY DEF Paid
<1>6. ReceiptsHonest' /\ \A id \in Ids \ expired : journal[id].status = "absent" => receipts[id] = << >>
  BY DEF Paid, ReceiptsHonest
<1> QED
  BY <1>1, <1>3, <1>4, <1>5, <1>6 DEF Paid

\* A status recorded for an action that was held, by the one that held it.
LEMMA SettledPaid ==
  ASSUME IInv, Paid, NEW x \in Ids, NEW row \in Row, row.status \in Outcomes,
         journal[x] = Accepted, receipts[x] = <<"accepted">>,
         journal' = [journal EXCEPT ![x] = row], UNCHANGED <<receipts, expired, queue>>,
         \A t \in Tasks : ingress'[t] = ingress[t] \/ ingress'[t].pc = "idle",
         \/ worker' = worker
         \/ worker'.id = x /\ worker'.pc = "refused" /\ row.status = "failed"
         \/ worker'.id = x /\ worker'.pc = "finished",
         \A d \in Drainers : Failing(d)' => Failing(d) /\ drainer'[d] = drainer[d]
  PROVE  Paid'
<1>1. journal \in [Ids -> Row] /\ journal[x].status = "accepted"
  BY DEF IInv, TypeOK, Accepted
<1>2. worker.pc = "refused" => worker.id # x
  BY <1>1 DEF Paid
<1>3. ReceiptsHonest'
  BY <1>1 DEF Paid, ReceiptsHonest, Outcomes
<1>4. \A id \in Ids \ expired' : journal'[id].status = "absent" => receipts'[id] = << >>
  BY <1>1 DEF Paid, Outcomes
<1>5. worker'.pc = "refused" => journal'[worker'.id].status = "failed"
  <2>1. CASE worker' = worker
    <3>1. worker.pc # "idle" => worker.id \in Ids
      BY DEF IInv, Shape
    <3> QED
      BY <1>1, <1>2, <2>1, <3>1 DEF Paid
  <2>2. CASE worker'.id = x
    BY <1>1, <2>2, <1>2
  <2> QED
    BY <2>1, <2>2
<1> QED
  BY <1>3, <1>4, <1>5 DEF Paid

LEMMA ClaimPaid ==
  ASSUME IInv, Paid, NEW t \in Tasks, Claim(t)
  PROVE  Paid'
<1> DEFINE id == ingress[t].id
<1>0. /\ id \in Ids /\ id \notin expired /\ ingress \in [Tasks -> IngressTask]
      /\ journal \in [Ids -> Row]
  BY DEF Claim, IInv, Shape, Retention, TypeOK
<1>1. CASE journal[id].status = "absent"
  <2>1. /\ journal' = [journal EXCEPT ![id] = Accepted]
        /\ ingress' = [ingress EXCEPT ![t] =
             IF @.pc = "claiming" THEN [@ EXCEPT !.pc = "claimed"] ELSE IdleTask]
        /\ UNCHANGED <<queue, worker, drainer, expired, receipts>>
    BY <1>1 DEF Claim
  <2>2. receipts[id] = << >>
    BY <1>0, <1>1 DEF Paid
  <2>3. worker.pc # "idle" => worker.id # id
    BY <2>2 DEF Paid
  <2>4. \A u \in Tasks :
            \/ ingress'[u].pc \notin {"claimed", "rejecting"}
            \/ ingress'[u] = ingress[u]
            \/ ingress'[u].pc = "claimed" /\ ingress'[u].id = id
    BY <1>0, <2>1 DEF IdleTask, IngressTask
  <2>5. ReceiptsHonest'
    BY <1>0, <2>1, <2>2 DEF Paid, ReceiptsHonest
  <2>6. worker'.pc = "refused" => journal'[worker'.id].status = "failed"
    BY <1>0, <2>1, <2>3 DEF Paid, IInv, Shape
  <2> QED
    BY <1>0, <2>1, <2>2, <2>4, <2>5, <2>6 DEF Paid, Failing, Accepted
<1>2. CASE journal[id].status # "absent"
  BY <1>0, <1>2, QuietPaid DEF Claim, IdleTask, IngressTask, Failing
<1> QED
  BY <1>1, <1>2

LEMMA AcceptPaid ==
  ASSUME IInv, Paid, NEW t \in Tasks, Accept(t)
  PROVE  Paid'
<1> DEFINE id == ingress[t].id
           d  == [id |-> id, gen |-> ingress[t].gen]
<1>0. /\ id \in Ids /\ d \in Descriptor /\ Holding(t) /\ journal[id] = Accepted
      /\ receipts[id] = << >> /\ receipts \in [Ids -> Seq(Receipts)]
      /\ ingress \in [Tasks -> IngressTask] /\ queue \in Seq(Descriptor)
  BY JournalAssumption, SMTT(30) DEF Accept, IInv, Shape, TypeOK, Descriptor, Holding, Owners, Paid
<1>1. /\ receipts' = [receipts EXCEPT ![id] = <<"accepted">>]
      /\ UNCHANGED <<journal, worker, drainer, expired>>
  <2>1. Append(<< >>, "accepted") = <<"accepted">>
    OBVIOUS
  <2> QED
    BY <1>0, <2>1 DEF Accept
<1>2. ReceiptsHonest' /\ \A x \in Ids \ expired : journal[x].status = "absent" => receipts'[x] = << >>
  BY <1>0, <1>1 DEF Paid, ReceiptsHonest, Accepted
<1>3. \A u \in Tasks : u # t /\ Holding(u) => ingress[u].id \in Ids /\ ingress[u].id # id
  BY <1>0 DEF IInv, Exclusive, Shape, Holding
<1>4. /\ worker.pc # "idle" => receipts'[worker.id] = <<"accepted">>
      /\ \A e \in Drainers : Failing(e) => receipts'[drainer[e].id] = <<"accepted">>
      /\ \A i \in 1..Len(queue) : receipts'[queue[i].id] = <<"accepted">>
  <2>1. worker.pc # "idle" => worker.id \in Ids
    BY DEF IInv, Shape
  <2>2. \A e \in Drainers : Failing(e) => drainer[e].id \in Ids
    BY DEF IInv, Shape
  <2>3. \A i \in 1..Len(queue) : queue[i].id \in Ids
    BY <1>0, QueueIds
  <2> QED
    BY <1>0, <1>1, <2>1, <2>2, <2>3 DEF Paid
<1>5. CASE Current(ingress[t].gen)
  <2>1. /\ queue' = Append(queue, d) /\ ingress' = [ingress EXCEPT ![t] = IdleTask]
    BY <1>5 DEF Accept
  <2>2. \A i \in 1..Len(queue') : receipts'[queue'[i].id] = <<"accepted">>
    <3>1. receipts'[d.id] = <<"accepted">>
      BY <1>0, <1>1
    <3> HIDE DEF d
    <3> QED
      BY <1>0, <1>4, <2>1, <3>1, QueuePush
  <2>3. \A u \in Tasks : Holding(u)' => u # t /\ Holding(u) /\ ingress'[u] = ingress[u]
    BY <1>0, <2>1 DEF Holding, IdleTask
  <2>4. \A u \in Tasks :
           /\ ingress'[u].pc = "claimed" => receipts'[ingress'[u].id] = << >>
           /\ ingress'[u].pc = "rejecting" => receipts'[ingress'[u].id] = <<"accepted">>
    BY <1>0, <1>1, <1>3, <2>3 DEF Paid, Holding
  <2> QED
    BY <1>1, <1>2, <1>4, <2>2, <2>4 DEF Paid, Failing
<1>6. CASE ~Current(ingress[t].gen)
  <2>1. /\ UNCHANGED queue /\ ingress' = [ingress EXCEPT ![t].pc = "rejecting"]
    BY <1>6 DEF Accept
  <2>2. \A u \in Tasks : u # t => ingress'[u] = ingress[u]
    BY <1>0, <2>1
  <2>3. ingress'[t].pc = "rejecting" /\ ingress'[t].id = id
    BY <1>0, <2>1 DEF IngressTask
  <2>4. \A u \in Tasks :
           /\ ingress'[u].pc = "claimed" => receipts'[ingress'[u].id] = << >>
           /\ ingress'[u].pc = "rejecting" => receipts'[ingress'[u].id] = <<"accepted">>
    <3> TAKE u \in Tasks
    <3>1. CASE u = t
      BY <1>0, <1>1, <2>3, <3>1
    <3>2. CASE u # t
      BY <1>0, <1>1, <1>3, <2>2, <3>2 DEF Paid, Holding
    <3> QED
      BY <3>1, <3>2
  <2> QED
    BY <1>1, <1>2, <1>4, <2>1, <2>4 DEF Paid, Failing
<1> QED
  BY <1>5, <1>6

\* The worker's receipt is the second and last one of its action.
LEMMA ReportPaid ==
  ASSUME IInv, Paid, Report \/ ReportRefusal
  PROVE  Paid'
<1> DEFINE id == worker.id
<1>0. /\ id \in Ids /\ receipts[id] = <<"accepted">> /\ journal[id].status \in Outcomes
      /\ worker' = Idle /\ receipts \in [Ids -> Seq(Receipts)]
      /\ UNCHANGED <<journal, ingress, queue, drainer, expired>>
  BY DEF Report, ReportRefusal, IInv, Shape, TypeOK, Paid, Ledger, Outcomes
<1>1. receipts' = receipts \/ receipts' = [receipts EXCEPT ![id] = <<"accepted", journal[id].status>>]
  <2>1. \A s \in Outcomes : Append(<<"accepted">>, s) = <<"accepted", s>>
    BY SecondReceipt
  <2>2. CASE Report
    BY <1>0, <2>1, <2>2 DEF Report
  <2>3. CASE ReportRefusal
    BY <1>0, <2>1, <2>3 DEF ReportRefusal, Paid
  <2> QED
    BY <2>2, <2>3
<1>2. ReceiptsHonest' /\ \A x \in Ids \ expired : journal[x].status = "absent" => receipts'[x] = << >>
  BY <1>0, <1>1 DEF Paid, ReceiptsHonest, Outcomes
<1>3. journal[id] # Accepted
  BY <1>0 DEF Accepted, Outcomes
<1>4. /\ \A t \in Tasks : Holding(t) => ingress[t].id \in Ids /\ ingress[t].id # id
      /\ \A i \in 1..Len(queue) : queue[i].id \in Ids /\ queue[i].id # id
      /\ \A d \in Drainers : Failing(d) => drainer[d].id \in Ids /\ drainer[d].id # id
  <2>1. \A i \in 1..Len(queue) : queue[i].id \in Ids
    BY QueueIds DEF IInv, TypeOK
  <2> QED
    BY <1>3, <2>1 DEF IInv, Owners, Shape, Holding
<1> QED
  BY <1>0, <1>1, <1>2, <1>4 DEF Paid, Holding, Failing, Idle

LEMMA PaidStep == IInv /\ Paid /\ [Next]_vars => Paid'
<1> SUFFICES ASSUME IInv, Paid, [Next]_vars PROVE Paid'
  OBVIOUS
<1>0. /\ ingress \in [Tasks -> IngressTask] /\ queue \in Seq(Descriptor)
      /\ drainer \in [Drainers -> DrainTask] /\ worker \in WorkerTask
      /\ Unstarted \in Row /\ Unstarted.status = "failed" /\ "failed" \in Outcomes
  BY DEF IInv, TypeOK, Unstarted, Row, Outcomes
<1>1. ASSUME NEW t \in Tasks, TaskStep(t) PROVE Paid'
  <2>1. ASSUME NEW id \in Source[t], Receive(t, id) PROVE Paid'
    BY <1>0, <2>1, QuietPaid DEF Receive, Failing
  <2>2. CASE AnswerDuplicate(t)
    BY <1>0, <2>2, QuietPaid DEF AnswerDuplicate, IdleTask, Failing
  <2>3. CASE Reject(t)
    <3>1. /\ ingress[t].id \in Ids /\ journal[ingress[t].id] = Accepted
          /\ receipts[ingress[t].id] = <<"accepted">>
      BY <2>3 DEF Reject, IInv, Shape, Owners, Holding, Paid
    <3> QED
      BY <1>0, <2>3, <3>1, SettledPaid DEF Reject, IdleTask, Failing
  <2> QED
    BY <1>1, <2>1, <2>2, <2>3, ClaimPaid, AcceptPaid DEF TaskStep
<1>2. CASE CancelControl
  BY <1>0, <1>2, QuietPaid DEF CancelControl, IdleTask, IngressTask, Failing, Tasks
<1>3. CASE WorkerStep
  <2>1. CASE Take
    <3>1. Head(queue) = queue[1] /\ 1 \in 1..Len(queue)
      BY <1>0, <2>1, QueuePop DEF Take
    <3>2. \A i \in 1..Len(queue') : \E j \in 1..Len(queue) : queue'[i] = queue[j]
      BY <1>0, <2>1, QueuePop DEF Take
    <3> QED
      BY <2>1, <3>1, <3>2, QuietPaid DEF Take, Failing
  <2>2. CASE Refuse
    <3>1. /\ worker.id \in Ids /\ journal[worker.id] = Accepted
          /\ receipts[worker.id] = <<"accepted">>
      BY <2>2 DEF Refuse, IInv, Shape, Owners, Paid
    <3>2. worker'.pc = "refused" /\ worker'.id = worker.id
      BY <1>0, <2>2 DEF Refuse, WorkerTask
    <3> QED
      BY <1>0, <2>2, <3>1, <3>2, SettledPaid DEF Refuse, Failing
  <2>3. ASSUME NEW s \in Outcomes, Finish(s) PROVE Paid'
    <3>1. /\ worker.id \in Ids /\ journal[worker.id] = Accepted
          /\ receipts[worker.id] = <<"accepted">>
      BY <2>3 DEF Finish, IInv, Shape, Owners, Paid
    <3>2. worker'.pc = "finished" /\ worker'.id = worker.id
      BY <1>0, <2>3 DEF Finish, WorkerTask
    <3>3. Reported(s) \in Row /\ Reported(s).status \in Outcomes
      BY <2>3 DEF Reported, Row
    <3> QED
      BY <2>3, <3>1, <3>2, <3>3, SettledPaid DEF Finish, Failing
  <2> QED
    BY <1>3, <2>1, <2>2, <2>3, ReportPaid DEF WorkerStep
<1>4. CASE Activate \/ Suspend \/ Close
  <2>1. /\ UNCHANGED <<receipts, journal, expired, ingress, queue, worker>>
        /\ \A d \in Drainers : Failing(d)' => Failing(d) /\ drainer'[d] = drainer[d]
    BY <1>0, <1>4 DEF Activate, Suspend, Close, Failing, DrainTask, Drainers
  <2> QED
    BY <2>1, QuietPaid
<1>5. CASE Exit \/ Crash
  BY <1>5, QuietPaid DEF Exit, Crash, Volatile, IdleTask, Idle, Failing
<1>6. ASSUME NEW d \in Drainers, DrainStep(d) PROVE Paid'
  <2>1. CASE DrainPop(d) /\ queue = << >>
    <3>1. \A e \in Drainers : Failing(e)' => Failing(e) /\ drainer'[e] = drainer[e]
      BY <1>0, <2>1 DEF DrainPop, Failing, DrainTask
    <3> QED
      BY <2>1, <3>1, QuietPaid DEF DrainPop
  <2>2. CASE DrainPop(d) /\ queue # << >>
    <3>1. Head(queue) = queue[1] /\ 1 \in 1..Len(queue)
      BY <1>0, <2>2, QueuePop
    <3>2. \A i \in 1..Len(queue') : \E j \in 1..Len(queue) : queue'[i] = queue[j]
      BY <1>0, <2>2, QueuePop DEF DrainPop
    <3>3. \A e \in Drainers : Failing(e)' =>
             \/ Failing(e) /\ drainer'[e] = drainer[e]
             \/ drainer'[e].id = queue[1].id
      BY <1>0, <2>2, <3>1 DEF DrainPop, Failing
    <3> QED
      BY <2>2, <3>1, <3>2, <3>3, QuietPaid DEF DrainPop
  <2>3. CASE DrainFail(d)
    <3>1. /\ drainer[d].id \in Ids /\ journal[drainer[d].id] = Accepted
          /\ receipts[drainer[d].id] = <<"accepted">>
      BY <2>3 DEF DrainFail, IInv, Shape, Owners, Failing, Paid
    <3>2. \A e \in Drainers : Failing(e)' => Failing(e) /\ drainer'[e] = drainer[e]
      BY <1>0, <2>3 DEF DrainFail, Failing
    <3> QED
      BY <1>0, <2>3, <3>1, <3>2, SettledPaid DEF DrainFail
  <2> QED
    BY <1>6, <2>1, <2>2, <2>3 DEF DrainStep
<1>7. ASSUME NEW old \in SUBSET {id \in Ids : journal[id].status # "absent"}, Boot(old)
      PROVE  Paid'
  <2>1. /\ \A t \in Tasks : ingress[t].pc = "idle"
        /\ queue = << >> /\ worker.pc = "idle" /\ \A d \in Drainers : ~Failing(d)
        /\ UNCHANGED <<ingress, queue, worker, drainer, receipts>>
    BY <1>7 DEF Boot, IInv, Shape, Failing
  <2>2. /\ \A id \in Ids \ expired' :
              /\ id \notin old /\ id \notin expired
              /\ journal'[id] = IF journal[id].status = "accepted" THEN Lost ELSE journal[id]
    BY <1>7 DEF Boot
  <2>3. ReceiptsHonest'
    BY <2>1, <2>2 DEF Paid, ReceiptsHonest, Lost, Outcomes
  <2> QED
    BY <2>1, <2>2, <2>3 DEF Paid, Failing, Lost
<1>8. CASE UNCHANGED vars
  BY <1>8, QuietPaid DEF vars, Failing
<1> QED
  BY <1>1, <1>2, <1>3, <1>4, <1>5, <1>6, <1>7, <1>8 DEF Next
-----------------------------------------------------------------------------
\* Everything an action can be held by keeps holding it, or hands it on.
LEMMA HandOver ==
  ASSUME NEW x, Held(x),
         \A t \in Tasks : Holding(t) /\ ingress[t].id = x =>
            Held(x)' \/ (Holding(t)' /\ ingress'[t].id = x),
         \A i \in 1..Len(queue) : queue[i].id = x =>
            Held(x)' \/ (\E j \in 1..Len(queue') : queue'[j].id = x),
         Working /\ worker.id = x => Held(x)' \/ (Working' /\ worker'.id = x),
         \A d \in Drainers : Failing(d) /\ drainer[d].id = x =>
            Held(x)' \/ (Failing(d)' /\ drainer'[d].id = x)
  PROVE  Held(x)'
  BY DEF Held

\* What the tasks receive, and whom the socket's timeout may cancel.
Routes ==
    /\ \A t \in Tasks : ingress[t].pc # "idle" => ingress[t].id \in Source[t]
    /\ \A t \in Tasks : ingress[t].pc = "abandoned" => t = "control"
    /\ ~closed => drainer["close"].pc = "idle"

LEMMA RoutesStep == IInv /\ Routes /\ [Next]_vars => Routes'
<1> SUFFICES ASSUME IInv, Routes, [Next]_vars PROVE Routes'
  OBVIOUS
<1>0. /\ ingress \in [Tasks -> IngressTask] /\ drainer \in [Drainers -> DrainTask]
      /\ "close" \in Drainers /\ "suspend" \in Drainers /\ "control" \in Tasks
  BY DEF IInv, TypeOK, Drainers, Tasks
<1>1. ASSUME NEW t \in Tasks, TaskStep(t) PROVE Routes'
  <2>1. ASSUME NEW id \in Source[t], Receive(t, id) PROVE Routes'
    BY <1>0, <2>1 DEF Receive, Routes
  <2>2. CASE Claim(t)
    BY <1>0, <2>2 DEF Claim, Routes, IdleTask, IngressTask
  <2>3. CASE AnswerDuplicate(t)
    BY <1>0, <2>3 DEF AnswerDuplicate, Routes, IdleTask
  <2>4. CASE Accept(t)
    <3>1. \/ ingress' = [ingress EXCEPT ![t] = IdleTask]
          \/ ingress' = [ingress EXCEPT ![t].pc = "rejecting"]
      BY <2>4 DEF Accept
    <3>2. UNCHANGED <<closed, drainer>> /\ ingress[t].pc = "claimed"
      BY <2>4 DEF Accept
    <3> QED
      BY <1>0, <3>1, <3>2 DEF Routes, IdleTask, IngressTask
  <2>5. CASE Reject(t)
    BY <1>0, <2>5 DEF Reject, Routes, IdleTask
  <2> QED
    BY <1>1, <2>1, <2>2, <2>3, <2>4, <2>5 DEF TaskStep
<1>2. CASE CancelControl
  BY <1>0, <1>2 DEF CancelControl, Routes, IdleTask, IngressTask
<1>3. CASE WorkerStep
  BY <1>3 DEF WorkerStep, Take, Refuse, ReportRefusal, Finish, Report, Routes
<1>4. CASE Activate \/ Suspend \/ Close
  BY <1>0, <1>4 DEF Activate, Suspend, Close, Routes
<1>5. CASE Exit \/ Crash
  BY <1>0, <1>5 DEF Exit, Crash, Volatile, Routes, IdleTask, Idle
<1>6. ASSUME NEW d \in Drainers, DrainStep(d) PROVE Routes'
  BY <1>0, <1>6 DEF DrainStep, DrainPop, DrainFail, Routes
<1>7. CASE \E old \in SUBSET {id \in Ids : journal[id].status # "absent"} : Boot(old)
  BY <1>7 DEF Boot, Routes
<1>8. CASE UNCHANGED vars
  BY <1>8 DEF vars, Routes
<1> QED
  BY <1>1, <1>2, <1>3, <1>4, <1>5, <1>6, <1>7, <1>8 DEF Next

LEMMA CoverStep == IInv /\ Covered /\ [Next]_vars => Covered'
<1> SUFFICES ASSUME IInv, Covered, [Next]_vars PROVE Covered'
  OBVIOUS
<1>1. Routes'
  BY RoutesStep DEF Covered, Routes
<1> SUFFICES ASSUME up', NEW x \in Ids \ ControlIds, journal'[x].status = "accepted"
             PROVE  Held(x)'
  BY <1>1 DEF Covered, Routes
<1>0. /\ ingress \in [Tasks -> IngressTask] /\ drainer \in [Drainers -> DrainTask]
      /\ queue \in Seq(Descriptor) /\ worker \in WorkerTask /\ journal \in [Ids -> Row]
      /\ x \in Ids /\ "close" \in Drainers /\ "suspend" \in Drainers /\ "control" \in Tasks
      /\ Unstarted.status # "accepted"
  BY DEF IInv, TypeOK, Drainers, Tasks, Unstarted
<1>2. up /\ journal[x].status = "accepted" => Held(x)
  BY DEF Covered
<1>3. ASSUME NEW t \in Tasks, TaskStep(t) PROVE Held(x)'
  <2>1. ASSUME NEW id \in Source[t], Receive(t, id) PROVE Held(x)'
    BY <1>0, <1>2, <2>1, HandOver DEF Receive, Holding, Working, Failing
  <2>2. CASE Claim(t) /\ journal'[x] = journal[x]
    BY <1>0, <1>2, <2>2, HandOver DEF Claim, Holding, Working, Failing
  <2>3. CASE Claim(t) /\ journal'[x] # journal[x]
    <3>1. ingress[t].id = x /\ ingress'[t].id \in {x, NoId} /\ journal[x].status = "absent"
      BY <1>0, <2>3 DEF Claim, IngressTask, IdleTask
    <3>2. ingress[t].pc = "claiming"
      <4>1. ControlIds = Source["control"]
        BY DEF Source
      <4> QED
        BY <2>3, <3>1, <4>1 DEF Claim, Covered
    <3>3. ingress'[t].pc = "claimed" /\ ingress'[t].id = x
      BY <1>0, <2>3, <3>1, <3>2 DEF Claim, IngressTask
    <3> QED
      BY <3>3 DEF Held, Holding
  <2>4. CASE AnswerDuplicate(t)
    BY <1>0, <1>2, <2>4, HandOver DEF AnswerDuplicate, Holding, Working, Failing
  <2>5. CASE Accept(t)
    <3>1. CASE Current(ingress[t].gen)
      <4> DEFINE d == [id |-> ingress[t].id, gen |-> ingress[t].gen]
      <4>1. d \in Descriptor
        BY <2>5, JournalAssumption DEF Accept, IInv, Shape, TypeOK, Descriptor
      <4>2. queue' = Append(queue, d) /\ ingress' = [ingress EXCEPT ![t] = IdleTask]
        BY <2>5, <3>1 DEF Accept
      <4>3. \A j \in 1..Len(queue) : \E i \in 1..Len(queue') : queue'[i] = queue[j]
        BY <1>0, <4>1, <4>2, QueuePushed
      <4>4. \E i \in 1..Len(queue') : queue'[i].id = ingress[t].id
        BY <1>0, <4>1, <4>2, QueuePushed
      <4>5. ingress[t].id = x => Held(x)'
        BY <4>4 DEF Held
      <4>6. \A u \in Tasks : u # t => ingress'[u] = ingress[u]
        BY <1>0, <4>2
      <4>7. UNCHANGED <<up, journal, worker, drainer>>
        BY <2>5 DEF Accept
      <4>8. Held(x)
        BY <1>2, <2>5, <4>7 DEF Accept
      <4>9. \A u \in Tasks : Holding(u) /\ ingress[u].id = x =>
               Held(x)' \/ (Holding(u)' /\ ingress'[u].id = x)
        BY <4>5, <4>6 DEF Holding
      <4>10. \A i \in 1..Len(queue) : queue[i].id = x => \E j \in 1..Len(queue') : queue'[j].id = x
        BY <4>3
      <4>11. Working /\ worker.id = x => Working' /\ worker'.id = x
        BY <4>7 DEF Working
      <4>12. \A e \in Drainers : Failing(e) /\ drainer[e].id = x => Failing(e)' /\ drainer'[e].id = x
        BY <4>7 DEF Failing
      <4> QED
        BY <4>8, <4>9, <4>10, <4>11, <4>12, HandOver
    <3>2. CASE ~Current(ingress[t].gen)
      <4>1. ingress' = [ingress EXCEPT ![t].pc = "rejecting"] /\ UNCHANGED queue
        BY <2>5, <3>2 DEF Accept
      <4>2. \A u \in Tasks : Holding(u) => Holding(u)' /\ ingress'[u].id = ingress[u].id
        BY <1>0, <4>1 DEF Holding, IngressTask
      <4> QED
        BY <1>0, <1>2, <2>5, <4>1, <4>2, HandOver DEF Accept, Working, Failing
    <3> QED
      BY <3>1, <3>2
  <2>6. CASE Reject(t)
    <3>1. ingress[t].id # x
      BY <1>0, <2>6 DEF Reject, IInv, Shape
    <3> QED
      BY <1>0, <1>2, <2>6, <3>1, HandOver DEF Reject, Holding, Working, Failing
  <2> QED
    BY <1>3, <2>1, <2>2, <2>3, <2>4, <2>5, <2>6 DEF TaskStep
<1>4. CASE CancelControl
  <2>1. ingress["control"].id # x
    <3>1. ControlIds = Source["control"]
      BY DEF Source
    <3> QED
      BY <1>0, <1>4, <3>1 DEF CancelControl, Covered
  <2>2. \A t \in Tasks : t # "control" => ingress'[t] = ingress[t]
    BY <1>0, <1>4 DEF CancelControl
  <2> QED
    BY <1>0, <1>2, <1>4, <2>1, <2>2, HandOver DEF CancelControl, Holding, Working, Failing
<1>5. CASE Take
  <2>1. /\ Head(queue) = queue[1] /\ queue' = Tail(queue)
        /\ \A i \in 2..Len(queue) : i - 1 \in 1..Len(queue') /\ queue'[i - 1] = queue[i]
    BY <1>0, <1>5, QueuePop, QueueShift DEF Take
  <2>2. ~Working /\ Working' /\ worker'.id = queue[1].id
    BY <1>5, <2>1 DEF Take, Working
  <2>3. \A i \in 1..Len(queue) : queue[i].id = x =>
           Held(x)' \/ (\E j \in 1..Len(queue') : queue'[j].id = x)
    <3> SUFFICES ASSUME NEW i \in 1..Len(queue), queue[i].id = x
                 PROVE  Held(x)' \/ (\E j \in 1..Len(queue') : queue'[j].id = x)
      OBVIOUS
    <3>1. i = 1 \/ i \in 2..Len(queue)
      BY <1>0
    <3> QED
      BY <2>1, <2>2, <3>1 DEF Held
  <2> QED
    BY <1>2, <1>5, <2>2, <2>3, HandOver DEF Take, Holding, Failing
<1>6. CASE Refuse \/ (\E s \in Outcomes : Finish(s)) \/ Report \/ ReportRefusal
  <2>1. Working /\ worker.id = x => journal'[x].status # "accepted"
    <3>1. CASE Refuse
      BY <1>0, <3>1 DEF Refuse
    <3>2. ASSUME NEW s \in Outcomes, Finish(s), worker.id = x
          PROVE  journal'[x].status # "accepted"
      BY <1>0, <3>2 DEF Finish, Reported, Outcomes
    <3>3. CASE Report \/ ReportRefusal
      BY <3>3 DEF Report, ReportRefusal, Working
    <3> QED
      BY <1>6, <3>1, <3>2, <3>3
  <2>2. UNCHANGED <<up, ingress, queue, drainer>> /\ up /\ worker.id \in Ids
    BY <1>6 DEF Refuse, Finish, Report, ReportRefusal, IInv, Shape
  <2>3. journal[x].status = "accepted"
    BY <1>0, <1>6, <2>2 DEF Refuse, Finish, Report, ReportRefusal, Reported, Outcomes
  <2> QED
    BY <1>2, <2>1, <2>2, <2>3, HandOver DEF Holding, Failing
<1>7. CASE Activate \/ Suspend \/ Close
  <2>1. /\ UNCHANGED <<up, journal, ingress, queue, worker>> /\ up
        /\ \A d \in Drainers : Failing(d) => drainer'[d] = drainer[d]
    BY <1>0, <1>7 DEF Activate, Suspend, Close, Failing, DrainTask, Covered
  <2> QED
    BY <1>2, <2>1, HandOver DEF Holding, Working, Failing
<1>8. CASE Exit \/ Crash
  BY <1>8 DEF Exit, Crash
<1>9. ASSUME NEW d \in Drainers, DrainStep(d) PROVE Held(x)'
  <2>1. CASE DrainPop(d) /\ queue = << >>
    <3>1. \A e \in Drainers : Failing(e) => drainer'[e] = drainer[e]
      BY <1>0, <2>1 DEF DrainPop, Failing, DrainTask
    <3> QED
      BY <1>2, <2>1, <3>1, HandOver DEF DrainPop, Holding, Working, Failing
  <2>2. CASE DrainPop(d) /\ queue # << >>
    <3>1. /\ Head(queue) = queue[1] /\ queue' = Tail(queue)
          /\ \A i \in 2..Len(queue) : i - 1 \in 1..Len(queue') /\ queue'[i - 1] = queue[i]
      BY <1>0, <2>2, QueuePop, QueueShift DEF DrainPop
    <3>2. /\ Failing(d)' /\ drainer'[d].id = queue[1].id
          /\ \A e \in Drainers : Failing(e) => drainer'[e] = drainer[e]
      BY <1>0, <2>2, <3>1 DEF DrainPop, Failing
    <3>3. \A i \in 1..Len(queue) : queue[i].id = x =>
             Held(x)' \/ (\E j \in 1..Len(queue') : queue'[j].id = x)
      <4> SUFFICES ASSUME NEW i \in 1..Len(queue), queue[i].id = x
                   PROVE  Held(x)' \/ (\E j \in 1..Len(queue') : queue'[j].id = x)
        OBVIOUS
      <4>1. i = 1 \/ i \in 2..Len(queue)
        BY <1>0
      <4> QED
        BY <3>1, <3>2, <4>1 DEF Held
    <3> QED
      BY <1>2, <2>2, <3>2, <3>3, HandOver DEF DrainPop, Holding, Working, Failing
  <2>3. CASE DrainFail(d)
    <3>1. drainer[d].id # x
      BY <1>0, <2>3 DEF DrainFail, IInv, Shape, Failing
    <3>2. \A e \in Drainers : e # d => drainer'[e] = drainer[e]
      BY <1>0, <2>3 DEF DrainFail
    <3>3. journal[x].status = "accepted"
      BY <1>0, <2>3 DEF DrainFail
    <3> QED
      BY <1>2, <2>3, <3>1, <3>2, <3>3, HandOver DEF DrainFail, Holding, Working, Failing
  <2> QED
    BY <1>9, <2>1, <2>2, <2>3 DEF DrainStep
<1>10. ASSUME NEW old \in SUBSET {id \in Ids : journal[id].status # "absent"}, Boot(old)
       PROVE  Held(x)'
  BY <1>0, <1>10 DEF Boot, Absent, Lost
<1>11. CASE UNCHANGED vars
  BY <1>2, <1>11, HandOver DEF vars, Holding, Working, Failing
<1> QED
  BY <1>3, <1>4, <1>5, <1>6, <1>7, <1>8, <1>9, <1>10, <1>11 DEF Next, WorkerStep

\* A client that reads an action's receipts, duplicates aside, reads "accepted"
\* and then at most one terminal status, the one that SQLite holds by then.
THEOREM ReceiptsAreHonest == Spec => []ReceiptsHonest
<1>1. Init => Paid
  BY DEF Init, Paid, ReceiptsHonest, IdleTask, Idle, Failing
<1>2. IInv /\ Paid /\ [Next]_vars => Paid'
  BY PaidStep
<1>3. Paid => ReceiptsHonest
  BY DEF Paid
<1> QED
  BY <1>1, <1>2, <1>3, Invariance, PTL DEF Spec

LEMMA OwnersOf ==
  ASSUME IInv, NEW id \in Ids
  PROVE  /\ journal[id] # Accepted => OwnedBy(id) = {}
         /\ \A g, h \in OwnedBy(id) : g = h
         /\ Held(id) <=> OwnedBy(id) # {}
<1>1. DOMAIN queue = 1..Len(queue)
  BY DEF IInv, TypeOK
<1>2. journal[id] # Accepted => ~Held(id)
  BY DEF IInv, Owners, Held, Holding, Working, Failing
<1>3. Held(id) <=> OwnedBy(id) # {}
  BY <1>1 DEF Held, OwnedBy, Holding, Working, Failing
<1>4. ASSUME NEW g \in OwnedBy(id), NEW h \in OwnedBy(id) PROVE g = h
  <2>1. \A k \in OwnedBy(id) :
           \/ \E t \in Tasks : k = <<"ingress", t>> /\ Holding(t) /\ ingress[t].id = id
           \/ \E i \in 1..Len(queue) : k = <<"queue", i>> /\ queue[i].id = id
           \/ k = <<"worker", "worker">> /\ Working /\ worker.id = id
           \/ \E d \in Drainers : k = <<"drainer", d>> /\ Failing(d) /\ drainer[d].id = id
    BY <1>1 DEF OwnedBy, Holding, Working, Failing
  <2> QED
    BY <1>4, <2>1 DEF IInv, Exclusive
<1> QED
  BY <1>2, <1>3, <1>4

\* Every accepted action of a client or a voice message is owed to it by exactly
\* one task, queue entry or drain, through suspensions, re-activations and
\* closing; what is settled is owed by nobody.
THEOREM EveryActionHasOneOwner == Spec => []OneOwner
<1>1. Init => Covered
  BY DEF Init, Covered, IdleTask, Idle, Drainers
<1>2. IInv /\ Covered /\ [Next]_vars => Covered'
  BY CoverStep
<1>3. IInv /\ Covered => OneOwner
  <2> SUFFICES ASSUME IInv, Covered, up, NEW id \in Ids
               PROVE  IF journal[id].status = "accepted"
                      THEN \/ \E h \in OwnedBy(id) : OwnedBy(id) = {h}
                           \/ OwnedBy(id) = {} /\ id \in ControlIds
                      ELSE OwnedBy(id) = {}
    BY DEF OneOwner
  <2>1. CASE journal[id].status = "accepted"
    BY <2>1, OwnersOf DEF Covered
  <2>2. CASE journal[id].status # "accepted"
    BY <2>2, OwnersOf DEF Accepted
  <2> QED
    BY <2>1, <2>2
<1> QED
  BY <1>1, <1>2, <1>3, Invariance, PTL DEF Spec
=============================================================================
