------------------------- MODULE ChannelTurnsProofs -------------------------
(***************************************************************************)
(* Proofs about ChannelTurns for any prompts, sessions and bounds, with    *)
(* every failure, rebinding and restart the module has.                    *)
(*                                                                         *)
(* The three tasks share the runtime without a lock, but the store's lock  *)
(* is a queue: tasks are served in the order in which they came.  So the   *)
(* task that bound the channel last is also the last to save its binding   *)
(* (BindOrder).  A drain keeps the identity of the binding it started with *)
(* and no new binding is given an identity a drain still holds (Captures), *)
(* so comparing identities is comparing sessions.  A prompt is deleted by  *)
(* a drain only after it was sent (Delivered).  The table of queued        *)
(* prompts is that of QueueStore, whose theorems are used as they are.     *)
(*                                                                         *)
(* Without queue.move, what was ahead of a prompt when it was queued is    *)
(* done or still ahead of it in its list (InLine), so when a drain reads   *)
(* it at the head of the list it is all done, and stays so (Claimed).      *)
(***************************************************************************)
EXTENDS ChannelTurns, FiniteSetTheorems, SequenceTheorems, WellFoundedInduction, TLAPS

Facts == INSTANCE QueueStoreProofs WITH Items <- Prompts, Lists <- Sessions

\* What a task can await: the store, or a backend call or nothing.
Waits   == {"list", "delete", "journal", "save", "snapshot", "unbind", "enqueue",
            "require", "edit", "move", "discard", "clear"}
Calls   == {"idle", "send", "prompt", "attach"}
Drains  == {"list", "send", "delete"}
Writers == {"save", "unbind"}

Written == [id : Prompts, text : Texts]
Wanted  == [id : Prompts, then : {"edit", "move", "discard"}]
Frame   == [pc : Waits \cup Calls, sid : Sessions \cup {NoSession},
            obj : Identities \cup {0}, gen : Nat,
            row : SUBSET (Written \cup Wanted \cup Queue!Row)]
Carried(f) == (CHOOSE r \in f.row : TRUE).id

\* The locals a task keeps fit what it awaits.
Fits(f) ==
    /\ f.pc \notin {"idle", "unbind"} => f.sid \in Sessions
    /\ f.pc = "unbind" => f.sid = NoSession
    /\ f.pc \in {"send", "delete", "prompt", "enqueue", "require", "edit", "move", "discard"}
          => f.row # {}
    /\ f.pc \in {"prompt", "enqueue"} => f.row \subseteq Written
    /\ f.pc = "require" => f.row \subseteq Wanted
    /\ f.pc \in Drains <=> f.obj # 0
    /\ f.pc \in Drains => f.gen # 0

Threads ==
    /\ at \in [Tasks -> Frame] /\ \A t \in Tasks : Fits(at[t])
    /\ lockq \in Seq(Tasks)
    /\ \A i, j \in DOMAIN lockq : lockq[i] = lockq[j] => i = j
    /\ \A t \in Tasks : at[t].pc \in Waits <=> \E i \in DOMAIN lockq : lockq[i] = t

Scalars ==
    /\ lastGen \in 0..MaxTopics /\ activation \in 0..lastGen
    /\ binding \in {Unbound} \cup [sid : Sessions, obj : Identities]
    /\ busy \in BOOLEAN /\ attaching \in Sessions \cup {NoSession}
    /\ saved \in Sessions \cup {NoSession}
    /\ deferred \in Seq(Events) /\ todo \in Seq(Events) /\ events \in Seq(Events)
    /\ turns \in [Sessions -> Seq(Prompts \cup {Foreign})]
    /\ sent \in [Prompts -> Nat] /\ discarded \subseteq Prompts /\ queued \subseteq Prompts

\* A drain whose binding is still the channel's read the queue of its session.
Agrees(f)   == f.obj # 0 /\ f.obj = binding.obj => f.sid = binding.sid
Captures    == \A t \in Tasks : Agrees(at[t])

\* The last task in the lock's queue that will write the binding writes the one
\* in memory; if none will, it has been written.
LastWriter(i) ==
    /\ i \in DOMAIN lockq /\ at[lockq[i]].pc \in Writers
    /\ \A j \in DOMAIN lockq : j > i => at[lockq[j]].pc \notin Writers
BindOrder ==
    /\ (\A i \in DOMAIN lockq : at[lockq[i]].pc \notin Writers) => saved = binding.sid
    /\ \A i \in DOMAIN lockq : LastWriter(i) => at[lockq[i]].sid = binding.sid

\* The event loop never writes a binding.
LoopReads == at["backend"].pc \notin Writers

Delivered == \A t \in Tasks : at[t].pc = "delete" => sent[Carried(at[t])] > 0

IInv ==
    /\ Scalars /\ Threads /\ Captures /\ BindOrder /\ LoopReads /\ Delivered
    /\ Facts!IInv /\ NothingLost
-----------------------------------------------------------------------------
(* The table of queued prompts                                            *)

LEMMA SameTable ==
  /\ \A S : Queue!Cardinality(S) = Facts!Cardinality(S)
  /\ \A l : Queue!RowsOf(l) = Facts!RowsOf(l) /\ Queue!Positions(l) = Facts!Positions(l)
  /\ \A id : Queue!RowOf(id) = Facts!RowOf(id) /\ (Queue!Known(id) <=> Facts!Known(id))
  /\ \A result : Queue!Refuse(result) <=> Facts!Refuse(result)
<1>1. \A S : Queue!Cardinality(S) = Facts!Cardinality(S)
  BY DEF Queue!Cardinality, Facts!Cardinality
<1>2. \A l : Queue!RowsOf(l) = Facts!RowsOf(l) /\ Queue!Positions(l) = Facts!Positions(l)
  BY DEF Queue!RowsOf, Facts!RowsOf, Queue!Positions, Facts!Positions
<1>3. \A id : Queue!RowOf(id) = Facts!RowOf(id) /\ (Queue!Known(id) <=> Facts!Known(id))
  BY DEF Queue!RowOf, Facts!RowOf, Queue!Known, Facts!Known
<1>4. \A result : Queue!Refuse(result) <=> Facts!Refuse(result)
  BY DEF Queue!Refuse, Facts!Refuse
<1> QED
  BY <1>1, <1>2, <1>3, <1>4

LEMMA SameStep == Queue!Next => Facts!Next
<1>1. \A id, l, text : Queue!Enqueue(id, l, text) => Facts!Enqueue(id, l, text)
  BY SameTable DEF Queue!Enqueue, Facts!Enqueue
<1>2. \A id, text : Queue!EditQueue(id, text) => Facts!EditQueue(id, text)
  BY SameTable DEF Queue!EditQueue, Facts!EditQueue
<1>3. \A r, id, place : Queue!Place(r, id, place) = Facts!Place(r, id, place)
  BY SameTable DEF Queue!Place, Facts!Place
<1>4. \A id, place : Queue!MoveQueue(id, place) => Facts!MoveQueue(id, place)
  BY <1>3, SameTable DEF Queue!MoveQueue, Facts!MoveQueue
<1>5. /\ \A r, gone : Queue!Shifted(r, gone) = Facts!Shifted(r, gone)
      /\ \A gone : Queue!ShiftCollides(gone) <=> Facts!ShiftCollides(gone)
  BY SameTable DEF Queue!Shifted, Facts!Shifted, Queue!ShiftCollides, Facts!ShiftCollides
<1>6. \A id : Queue!DeleteQueue(id) => Facts!DeleteQueue(id)
  BY <1>5, SameTable DEF Queue!DeleteQueue, Facts!DeleteQueue
<1>7. \A l : Queue!ClearQueue(l) => Facts!ClearQueue(l)
  BY SameTable DEF Queue!ClearQueue, Facts!ClearQueue
<1> QED
  BY <1>1, <1>2, <1>4, <1>6, <1>7 DEF Queue!Next, Facts!Next

\* What QueueStoreProofs says of one step of the table.
LEMMA TableStep ==
  ASSUME Queue!LimitBounds, Facts!IInv, [Queue!Next]_store
  PROVE  Facts!IInv'
<1>1. [Facts!Next]_Facts!vars
  BY SameStep DEF store, Facts!vars
<1> QED
  BY <1>1, Facts!StepInv DEF Queue!LimitBounds, Facts!LimitBounds
-----------------------------------------------------------------------------
(* The lock's queue                                                        *)

\* The task lets the lock go, if it holds it, which leaves q,
Released(task, q) ==
    \/ at[task].pc \in Calls /\ q = lockq
    \/ /\ at[task].pc \in Waits /\ lockq # << >> /\ Head(lockq) = task
       /\ q = Tail(lockq)
\* and goes on with frame, for which it may have to wait.
Advance(task, frame, q) ==
    /\ at' = [at EXCEPT ![task] = frame]
    /\ lockq' = IF frame.pc \in Waits THEN Append(q, task) ELSE q

Useful(frame) == frame \in Frame /\ Fits(frame)

\* Who is left in the queue, and where they stand.
LEMMA QueueLeft ==
  ASSUME Threads, NEW task \in Tasks, NEW q, Released(task, q)
  PROVE  /\ q \in Seq(Tasks)
         /\ \A i \in DOMAIN q : q[i] # task
         /\ \A i, j \in DOMAIN q : q[i] = q[j] => i = j
         /\ \A t \in Tasks : t # task =>
               (at[t].pc \in Waits <=> \E i \in DOMAIN q : q[i] = t)
         /\ \E d \in {0, 1} : /\ Len(lockq) = Len(q) + d
                              /\ \A i \in 1 .. Len(q) : q[i] = lockq[i + d]
                              /\ d = 1 => lockq[1] = task
                              /\ d = 0 => at[task].pc \in Calls
<1>1. /\ lockq \in Seq(Tasks) /\ Len(lockq) \in Nat /\ DOMAIN lockq = 1 .. Len(lockq)
      /\ \A i, j \in 1 .. Len(lockq) : lockq[i] = lockq[j] => i = j
      /\ \A t \in Tasks : at[t].pc \in Waits <=> \E i \in 1 .. Len(lockq) : lockq[i] = t
  BY DEF Threads
<1>2. CASE at[task].pc \in Calls /\ q = lockq
  <2>1. at[task].pc \notin Waits
    BY <1>2 DEF Calls, Waits
  <2>2. \A i \in 1 .. Len(q) : q[i] # task
    BY <1>1, <1>2, <2>1
  <2>3. Len(lockq) = Len(q) + 0 /\ \A i \in 1 .. Len(q) : q[i] = lockq[i + 0]
    BY <1>1, <1>2
  <2>4. \E d \in {0, 1} : /\ Len(lockq) = Len(q) + d
                          /\ \A i \in 1 .. Len(q) : q[i] = lockq[i + d]
                          /\ d = 1 => lockq[1] = task
                          /\ d = 0 => at[task].pc \in Calls
    <3> WITNESS 0 \in {0, 1}
    <3> QED
      BY <1>2, <2>3
  <2> QED
    BY <1>1, <1>2, <2>2, <2>4
<1>3. CASE /\ lockq # << >> /\ Head(lockq) = task /\ q = Tail(lockq)
  <2>1. /\ q \in Seq(Tasks) /\ Len(q) \in Nat /\ DOMAIN q = 1 .. Len(q)
        /\ Len(lockq) = Len(q) + 1 /\ lockq[1] = task
        /\ \A i \in 1 .. Len(q) : q[i] = lockq[i + 1]
    BY <1>1, <1>3
  <2>2. \A i \in 1 .. Len(q) : i + 1 \in 1 .. Len(lockq) /\ 1 \in 1 .. Len(lockq) /\ i + 1 # 1
    BY <1>1, <2>1
  <2>3. \A i \in 1 .. Len(q) : q[i] # task
    BY <1>1, <2>1, <2>2
  <2>4. \A i, j \in 1 .. Len(q) : q[i] = q[j] => i = j
    <3> TAKE i, j \in 1 .. Len(q)
    <3> HAVE q[i] = q[j]
    <3>1. i + 1 = j + 1
      BY <1>1, <2>1, <2>2, SMTT(30)
    <3> QED
      BY <2>1, <3>1
  <2>5. ASSUME NEW t \in Tasks, t # task
        PROVE  at[t].pc \in Waits <=> \E i \in 1 .. Len(q) : q[i] = t
    <3>1. ASSUME NEW i \in 1 .. Len(lockq), lockq[i] = t PROVE \E k \in 1 .. Len(q) : q[k] = t
      <4>1. i # 1
        BY <2>1, <2>5, <3>1
      <4>2. PICK k \in 1 .. Len(q) : i = k + 1
        <5>1. i - 1 \in 1 .. Len(q) /\ i = (i - 1) + 1
          BY <2>1, <4>1
        <5> QED
          BY <5>1
      <4> QED
        BY <2>1, <3>1, <4>2
    <3>2. ASSUME NEW k \in 1 .. Len(q), q[k] = t PROVE \E i \in 1 .. Len(lockq) : lockq[i] = t
      BY <2>1, <2>2, <3>2
    <3> QED
      BY <1>1, <3>1, <3>2
  <2>6. \E d \in {0, 1} : /\ Len(lockq) = Len(q) + d
                          /\ \A i \in 1 .. Len(q) : q[i] = lockq[i + d]
                          /\ d = 1 => lockq[1] = task
                          /\ d = 0 => at[task].pc \in Calls
    <3> WITNESS 1 \in {0, 1}
    <3> QED
      BY <2>1
  <2> QED
    BY <2>1, <2>3, <2>4, <2>5, <2>6
<1> QED
  BY <1>2, <1>3 DEF Released

\* Where everyone stands after the step.
LEMMA Standing ==
  ASSUME Threads, NEW task \in Tasks, NEW frame, NEW q, Useful(frame),
         Released(task, q), Advance(task, frame, q)
  PROVE  /\ Threads'
         /\ at'[task] = frame /\ \A t \in Tasks : t # task => at'[t] = at[t]
         /\ \E d \in {0, 1} :
               /\ Len(lockq) = Len(q) + d /\ Len(q) \in Nat
               /\ d = 1 => lockq[1] = task
               /\ d = 0 => at[task].pc \in Calls
               /\ \A i \in 1 .. Len(q) : lockq'[i] = lockq[i + d] /\ lockq[i + d] # task
               /\ \/ frame.pc \notin Waits /\ Len(lockq') = Len(q)
                  \/ /\ frame.pc \in Waits /\ Len(lockq') = Len(q) + 1
                     /\ lockq'[Len(q) + 1] = task
<1>1. /\ q \in Seq(Tasks) /\ Len(q) \in Nat /\ DOMAIN q = 1 .. Len(q)
      /\ \A i \in 1 .. Len(q) : q[i] # task
      /\ \A i, j \in 1 .. Len(q) : q[i] = q[j] => i = j
      /\ \A t \in Tasks : t # task =>
             (at[t].pc \in Waits <=> \E i \in 1 .. Len(q) : q[i] = t)
  BY QueueLeft
<1>2. PICK d \in {0, 1} : /\ Len(lockq) = Len(q) + d
                          /\ \A i \in 1 .. Len(q) : q[i] = lockq[i + d]
                          /\ d = 1 => lockq[1] = task
                          /\ d = 0 => at[task].pc \in Calls
  BY QueueLeft
<1>3. /\ at' \in [Tasks -> Frame] /\ at'[task] = frame
      /\ \A t \in Tasks : t # task => at'[t] = at[t]
  BY DEF Advance, Threads, Useful
<1>4. \A t \in Tasks : Fits(at'[t])
  BY <1>3 DEF Threads, Useful
<1>5. CASE frame.pc \in Waits
  <2>1. /\ lockq' \in Seq(Tasks) /\ Len(lockq') = Len(q) + 1 /\ lockq'[Len(q) + 1] = task
        /\ \A i \in 1 .. Len(q) : lockq'[i] = q[i]
    BY <1>1, <1>5 DEF Advance
  <2>2. /\ DOMAIN lockq' = 1 .. Len(q) + 1 /\ Len(q) + 1 \in 1 .. Len(q) + 1
        /\ \A i \in 1 .. Len(q) + 1 : i \in 1 .. Len(q) \/ i = Len(q) + 1
        /\ \A i \in 1 .. Len(q) : i \in 1 .. Len(q) + 1
    BY <1>1, <2>1
  <2>3. \A i, j \in DOMAIN lockq' : lockq'[i] = lockq'[j] => i = j
    BY <1>1, <2>1, <2>2
  <2>4. \A t \in Tasks : at'[t].pc \in Waits <=> \E i \in DOMAIN lockq' : lockq'[i] = t
    BY <1>1, <1>3, <1>5, <2>1, <2>2
  <2>5. Threads'
    BY <1>3, <1>4, <2>1, <2>3, <2>4 DEF Threads
  <2>6. \A i \in 1 .. Len(q) : lockq'[i] = lockq[i + d] /\ lockq[i + d] # task
    BY <1>1, <1>2, <2>1
  <2> QED
    BY <1>1, <1>2, <1>3, <1>5, <2>1, <2>5, <2>6
<1>6. CASE frame.pc \notin Waits
  <2>1. lockq' = q
    BY <1>6 DEF Advance
  <2>2. \A t \in Tasks : at'[t].pc \in Waits <=> \E i \in DOMAIN lockq' : lockq'[i] = t
    BY <1>1, <1>3, <1>6, <2>1
  <2>3. Threads'
    BY <1>1, <1>3, <1>4, <2>1, <2>2 DEF Threads
  <2>4. \A i \in 1 .. Len(q) : lockq'[i] = lockq[i + d] /\ lockq[i + d] # task
    BY <1>1, <1>2, <2>1
  <2>5. Len(lockq') = Len(q)
    BY <2>1
  <2> QED
    BY <1>1, <1>2, <1>3, <1>6, <2>3, <2>4, <2>5
<1> QED
  BY <1>5, <1>6

\* The same in terms of what is awaited: the queue keeps its order.
LEMMA Neighbours ==
  ASSUME Threads, NEW task \in Tasks, NEW frame, NEW q, Useful(frame),
         Released(task, q), Advance(task, frame, q)
  PROVE  \E n \in Nat, d, e \in {0, 1} :
            /\ DOMAIN lockq = 1 .. n + d /\ DOMAIN lockq' = 1 .. n + e
            /\ d = 1 => at[lockq[1]] = at[task]
            /\ d = 0 => at[task].pc \in Calls
            /\ e = 1 => at'[lockq'[n + 1]] = frame
            /\ e = 0 => frame.pc \notin Waits
            /\ \A i \in 1 .. n : at'[lockq'[i]] = at[lockq[i + d]]
<1>1. PICK d \in {0, 1} :
         /\ Len(lockq) = Len(q) + d /\ Len(q) \in Nat
         /\ d = 1 => lockq[1] = task
         /\ d = 0 => at[task].pc \in Calls
         /\ \A i \in 1 .. Len(q) : lockq'[i] = lockq[i + d] /\ lockq[i + d] # task
         /\ \/ frame.pc \notin Waits /\ Len(lockq') = Len(q)
            \/ /\ frame.pc \in Waits /\ Len(lockq') = Len(q) + 1
               /\ lockq'[Len(q) + 1] = task
  BY Standing
<1>2. at'[task] = frame /\ \A t \in Tasks : t # task => at'[t] = at[t]
  BY Standing
<1>3. Threads /\ Threads'
  BY Standing
<1> DEFINE n == Len(q)
<1>4. DOMAIN lockq = 1 .. n + d /\ \A i \in 1 .. n + d : lockq[i] \in Tasks
  <2>1. lockq \in Seq(Tasks)
    BY DEF Threads
  <2> QED
    BY <1>1, <2>1
<1>5. lockq' \in Seq(Tasks)
  BY <1>3 DEF Threads
<1>6. \A i \in 1 .. n : at'[lockq'[i]] = at[lockq[i + d]]
  <2> TAKE i \in 1 .. n
  <2>1. i + d \in 1 .. n + d
    BY <1>1
  <2> QED
    BY <1>1, <1>2, <1>4, <2>1
<1>7. CASE frame.pc \notin Waits /\ Len(lockq') = Len(q)
  <2>1. DOMAIN lockq' = 1 .. n + 0
    BY <1>1, <1>5, <1>7
  <2>2. d = 1 => at[lockq[1]] = at[task]
    BY <1>1
  <2>3. n \in Nat /\ (d = 0 => at[task].pc \in Calls)
    BY <1>1
  <2> WITNESS n \in Nat, d \in {0, 1}, 0 \in {0, 1}
  <2> HIDE DEF n
  <2> QED
    BY <1>4, <1>6, <1>7, <2>1, <2>2, <2>3
<1>8. CASE frame.pc \in Waits /\ Len(lockq') = Len(q) + 1 /\ lockq'[Len(q) + 1] = task
  <2>1. DOMAIN lockq' = 1 .. n + 1
    BY <1>5, <1>8
  <2> QED
    BY <1>1, <1>2, <1>4, <1>6, <1>8, <2>1
<1> QED
  BY <1>1, <1>7, <1>8

\* A step that has nothing to do with bindings.
LEMMA QuietOrder ==
  ASSUME Threads, BindOrder, NEW task \in Tasks, NEW frame, NEW q, Useful(frame),
         Released(task, q), Advance(task, frame, q),
         at[task].pc \notin Writers, frame.pc \notin Writers,
         saved' = saved, binding'.sid = binding.sid
  PROVE  BindOrder'
<1>1. PICK n \in Nat, d \in {0, 1}, e \in {0, 1} :
         /\ DOMAIN lockq = 1 .. n + d /\ DOMAIN lockq' = 1 .. n + e
         /\ d = 1 => at[lockq[1]] = at[task]
         /\ e = 1 => at'[lockq'[n + 1]] = frame
         /\ \A i \in 1 .. n : at'[lockq'[i]] = at[lockq[i + d]]
  BY Neighbours
<1>2. ASSUME NEW j \in DOMAIN lockq, at[lockq[j]].pc \in Writers
      PROVE  j - d \in 1 .. n /\ at'[lockq'[j - d]] = at[lockq[j]]
  <2>1. ~(d = 1 /\ j = 1)
    BY <1>1, <1>2
  <2>2. j - d \in 1 .. n /\ (j - d) + d = j
    BY <1>1, <2>1, SMTT(30)
  <2> QED
    BY <1>1, <2>2
<1>3. (\A i \in DOMAIN lockq' : at'[lockq'[i]].pc \notin Writers) => saved' = binding'.sid
  <2> SUFFICES ASSUME \A i \in DOMAIN lockq' : at'[lockq'[i]].pc \notin Writers
               PROVE  \A j \in DOMAIN lockq : at[lockq[j]].pc \notin Writers
    BY DEF BindOrder
  <2>1. \A i \in 1 .. n : i \in DOMAIN lockq'
    BY <1>1
  <2> QED
    BY <1>2, <2>1
<1>4. ASSUME NEW i \in DOMAIN lockq', LastWriter(i)' PROVE at'[lockq'[i]].sid = binding'.sid
  <2>1. /\ at'[lockq'[i]].pc \in Writers
        /\ \A j \in DOMAIN lockq' : j > i => at'[lockq'[j]].pc \notin Writers
    BY <1>4 DEF LastWriter
  <2>2. ~(e = 1 /\ i = n + 1)
    BY <1>1, <2>1
  <2>3. i \in 1 .. n
    BY <1>1, <2>2
  <2>4. i + d \in DOMAIN lockq /\ at'[lockq'[i]] = at[lockq[i + d]]
    <3>1. i + d \in 1 .. n + d
      BY <2>3
    <3> QED
      BY <1>1, <2>3, <3>1
  <2>5. ASSUME NEW j \in DOMAIN lockq, j > i + d PROVE at[lockq[j]].pc \notin Writers
    <3> SUFFICES ASSUME at[lockq[j]].pc \in Writers PROVE FALSE
      OBVIOUS
    <3>1. j - d \in 1 .. n /\ at'[lockq'[j - d]] = at[lockq[j]]
      BY <1>2
    <3>2. j \in 1 .. n + d
      BY <1>1
    <3>3. j - d > i /\ j - d \in 1 .. n + e
      BY <2>3, <2>5, <3>1, <3>2
    <3> QED
      BY <1>1, <2>1, <3>1, <3>3
  <2>6. LastWriter(i + d)
    BY <2>1, <2>4, <2>5 DEF LastWriter
  <2> QED
    BY <2>4, <2>6 DEF BindOrder
<1> QED
  BY <1>3, <1>4 DEF BindOrder

\* The channel is bound, and the binding will be written last.
LEMMA BindsOrder ==
  ASSUME Threads, NEW task \in Tasks, NEW frame, NEW q, Useful(frame),
         Released(task, q), Advance(task, frame, q),
         frame.pc \in Writers, frame.sid = binding'.sid
  PROVE  BindOrder'
<1>1. PICK n \in Nat, d \in {0, 1}, e \in {0, 1} :
         /\ DOMAIN lockq' = 1 .. n + e
         /\ e = 1 => at'[lockq'[n + 1]] = frame
         /\ e = 0 => frame.pc \notin Waits
  BY Neighbours
<1>2. e = 1 /\ n + 1 \in DOMAIN lockq' /\ at'[lockq'[n + 1]].pc \in Writers
  BY <1>1 DEF Writers, Waits
<1>3. ASSUME NEW i \in DOMAIN lockq', LastWriter(i)' PROVE at'[lockq'[i]].sid = binding'.sid
  <2>1. \A j \in DOMAIN lockq' : j > i => at'[lockq'[j]].pc \notin Writers
    BY <1>3 DEF LastWriter
  <2>2. i = n + 1
    BY <1>1, <1>2, <2>1
  <2> QED
    BY <1>1, <1>2, <2>2
<1> QED
  BY <1>2, <1>3 DEF BindOrder

\* A binding is written by the task whose turn it is.
LEMMA SavesOrder ==
  ASSUME Threads, BindOrder, NEW task \in Tasks, NEW frame, NEW q, Useful(frame),
         Released(task, q), Advance(task, frame, q),
         at[task].pc \in Writers, frame.pc \notin Writers,
         saved' = at[task].sid, binding'.sid = binding.sid
  PROVE  BindOrder'
<1>1. PICK n \in Nat, d \in {0, 1}, e \in {0, 1} :
         /\ DOMAIN lockq = 1 .. n + d /\ DOMAIN lockq' = 1 .. n + e
         /\ d = 0 => at[task].pc \in Calls
         /\ d = 1 => at[lockq[1]] = at[task]
         /\ e = 1 => at'[lockq'[n + 1]] = frame
         /\ \A i \in 1 .. n : at'[lockq'[i]] = at[lockq[i + d]]
  BY Neighbours
<1>2. d = 1
  BY <1>1 DEF Writers, Calls
<1>3. /\ DOMAIN lockq = 1 .. n + 1 /\ at[lockq[1]] = at[task] /\ 1 \in DOMAIN lockq
      /\ \A i \in 1 .. n : i + 1 \in DOMAIN lockq /\ at'[lockq'[i]] = at[lockq[i + 1]]
  BY <1>1, <1>2
<1>4. \A j \in DOMAIN lockq : j > 1 => j - 1 \in 1 .. n /\ (j - 1) + 1 = j
  BY <1>3
<1>5. 1 .. n \in SUBSET DOMAIN lockq'
  BY <1>1
<1>6. (\A i \in DOMAIN lockq' : at'[lockq'[i]].pc \notin Writers) => saved' = binding'.sid
  <2> SUFFICES ASSUME \A i \in DOMAIN lockq' : at'[lockq'[i]].pc \notin Writers
               PROVE  at[task].sid = binding.sid
    OBVIOUS
  <2>1. \A j \in DOMAIN lockq : j > 1 => at[lockq[j]].pc \notin Writers
    BY <1>3, <1>4, <1>5
  <2>2. LastWriter(1)
    BY <1>3, <2>1 DEF LastWriter
  <2> QED
    BY <1>3, <2>2 DEF BindOrder
<1>7. ASSUME NEW i \in DOMAIN lockq', LastWriter(i)' PROVE at'[lockq'[i]].sid = binding'.sid
  <2>1. /\ at'[lockq'[i]].pc \in Writers
        /\ \A j \in DOMAIN lockq' : j > i => at'[lockq'[j]].pc \notin Writers
    BY <1>7 DEF LastWriter
  <2>2. ~(e = 1 /\ i = n + 1)
    BY <1>1, <2>1
  <2>3. i \in 1 .. n
    BY <1>1, <2>2
  <2>4. i + 1 \in DOMAIN lockq /\ at'[lockq'[i]] = at[lockq[i + 1]]
    BY <1>3, <2>3
  <2>5. ASSUME NEW j \in DOMAIN lockq, j > i + 1 PROVE at[lockq[j]].pc \notin Writers
    <3>1. j \in 1 .. n + 1 /\ j > 1 /\ j - 1 > i
      BY <1>3, <2>3, <2>5
    <3>2. j - 1 \in 1 .. n /\ (j - 1) + 1 = j
      BY <1>4, <3>1
    <3>3. at'[lockq'[j - 1]] = at[lockq[(j - 1) + 1]] /\ j - 1 \in DOMAIN lockq'
      BY <1>3, <1>5, <3>2
    <3> QED
      BY <2>1, <3>1, <3>2, <3>3
  <2>6. LastWriter(i + 1)
    BY <2>1, <2>4, <2>5 DEF LastWriter
  <2> QED
    BY <2>4, <2>6 DEF BindOrder
<1> QED
  BY <1>6, <1>7 DEF BindOrder
-----------------------------------------------------------------------------
(* What the tasks share, and one step of one task.                         *)

Sync == Threads /\ Captures /\ BindOrder /\ LoopReads /\ Delivered

LEMMA HoldsReleases ==
  ASSUME Threads, NEW task \in Tasks, NEW pc \in Waits, Holds(task, pc)
  PROVE  Released(task, Tail(lockq)) /\ at[task].pc = pc
<1>1. \E i \in DOMAIN lockq : lockq[i] = task
  BY DEF Holds, Threads
<1>2. lockq # << >>
  BY <1>1
<1> QED
  BY <1>2 DEF Holds, Released

LEMMA CallReleases ==
  ASSUME NEW task \in Tasks, at[task].pc \in Calls
  PROVE  Released(task, lockq)
  BY DEF Released

LEMMA CarriedIsPrompt ==
  ASSUME NEW f \in Frame, f.row # {}
  PROVE  (CHOOSE r \in f.row : TRUE) \in f.row /\ Carried(f) \in Prompts
<1>1. \A r \in f.row : r.id \in Prompts
  <2> SUFFICES ASSUME NEW r \in f.row PROVE r.id \in Prompts
    OBVIOUS
  <2>1. r \in Written \/ r \in Wanted \/ r \in Queue!Row
    BY DEF Frame
  <2> QED
    BY <2>1 DEF Written, Wanted, Queue!Row
<1>2. (CHOOSE r \in f.row : TRUE) \in f.row
  OBVIOUS
<1> QED
  BY <1>1, <1>2 DEF Carried

LEMMA QuietSync ==
  ASSUME Sync, NEW task \in Tasks, NEW frame, NEW q, Useful(frame),
         Released(task, q), Advance(task, frame, q),
         at[task].pc \notin Writers, frame.pc \notin Writers,
         saved' = saved, binding' = binding, Agrees(frame),
         frame.pc = "delete" => sent'[Carried(frame)] > 0,
         sent \in [Prompts -> Nat], sent' \in [Prompts -> Nat],
         \A p \in Prompts : sent'[p] >= sent[p]
  PROVE  Sync'
<1>1. Threads' /\ at'[task] = frame /\ \A t \in Tasks : t # task => at'[t] = at[t]
  BY Standing DEF Sync
<1>2. Captures'
  BY <1>1 DEF Sync, Captures, Agrees
<1>3. BindOrder'
  BY QuietOrder DEF Sync
<1>4. ASSUME NEW t \in Tasks, at'[t].pc = "delete" PROVE sent'[Carried(at'[t])] > 0
  <2>1. CASE t = task
    BY <1>1, <1>4, <2>1
  <2>2. CASE t # task
    <3>1. at'[t] = at[t] /\ at[t] \in Frame /\ at[t].row # {}
      BY <1>1, <1>4, <2>2 DEF Sync, Threads, Fits
    <3>2. Carried(at[t]) \in Prompts
      BY <3>1, CarriedIsPrompt
    <3>3. sent[Carried(at[t])] > 0
      BY <1>4, <3>1 DEF Sync, Delivered
    <3>4. sent'[Carried(at[t])] >= sent[Carried(at[t])] /\ sent[Carried(at[t])] \in Nat
          /\ sent'[Carried(at[t])] \in Nat
      BY <3>2
    <3> QED
      BY <3>1, <3>3, <3>4
  <2> QED
    BY <2>1, <2>2
<1>5. LoopReads'
  BY <1>1 DEF Sync, LoopReads, Tasks
<1> QED
  BY <1>1, <1>2, <1>3, <1>4, <1>5 DEF Sync, Delivered, Carried

\* A step that binds the channel, or unbinds it.
LEMMA BindsSync ==
  ASSUME Sync, NEW task \in Tasks, task # "backend", NEW frame, NEW q, Useful(frame),
         Released(task, q), Advance(task, frame, q),
         frame.pc \in Writers, frame.sid = binding'.sid,
         \A t \in Tasks : at[t].obj # 0 => at[t].obj # binding'.obj, sent' = sent
  PROVE  Sync'
<1>1. Threads' /\ at'[task] = frame /\ \A t \in Tasks : t # task => at'[t] = at[t]
  BY Standing DEF Sync
<1>2. frame.obj = 0 /\ frame.pc # "delete"
  BY DEF Useful, Fits, Writers, Drains
<1>3. Captures'
  BY <1>1, <1>2 DEF Captures, Agrees
<1>4. BindOrder'
  BY BindsOrder DEF Sync
<1>5. Delivered'
  BY <1>1, <1>2 DEF Sync, Delivered, Carried
<1>6. LoopReads'
  BY <1>1 DEF Sync, LoopReads, Tasks
<1> QED
  BY <1>1, <1>3, <1>4, <1>5, <1>6 DEF Sync

\* A step that writes the binding.
LEMMA SavesSync ==
  ASSUME Sync, NEW task \in Tasks, NEW frame, NEW q, Useful(frame),
         Released(task, q), Advance(task, frame, q),
         at[task].pc \in Writers, frame.pc \notin Writers, frame.pc # "delete",
         saved' = at[task].sid, binding' = binding, Agrees(frame), sent' = sent
  PROVE  Sync'
<1>1. Threads' /\ at'[task] = frame /\ \A t \in Tasks : t # task => at'[t] = at[t]
  BY Standing DEF Sync
<1>2. Captures'
  BY <1>1 DEF Sync, Captures, Agrees
<1>3. BindOrder'
  BY SavesOrder DEF Sync
<1>4. Delivered'
  BY <1>1 DEF Sync, Delivered, Carried
<1>5. LoopReads'
  BY <1>1 DEF Sync, LoopReads, Tasks
<1> QED
  BY <1>1, <1>2, <1>3, <1>4, <1>5 DEF Sync

\* A step of nobody.
LEMMA StillSync ==
  ASSUME Sync, UNCHANGED <<at, lockq, binding, saved, sent>>
  PROVE  Sync'
  BY DEF Sync, Threads, Captures, Agrees, BindOrder, LoopReads, LastWriter, Delivered, Carried
-----------------------------------------------------------------------------
(* Where the code goes on to: _drain_queue and the deferred events.        *)

\* A frame that has to do with the binding only if it is the channel's.
Harmless(frame) ==
    Useful(frame) /\ frame.pc \notin Writers \cup {"delete"} /\ Agrees(frame)

LEMMA RestIsHarmless == Harmless(Rest) /\ Rest.pc \in Calls
  BY DEF Harmless, Useful, Rest, Frame, Fits, Agrees, Calls, Waits, Drains, Writers

\* Waiting for pc without holding anything.
LEMMA AwaitingFits ==
  ASSUME NEW pc \in {"attach", "save", "snapshot", "journal", "clear"}, NEW sid \in Sessions
  PROVE  /\ Useful(Awaiting(pc, sid)) /\ Agrees(Awaiting(pc, sid))
         /\ Awaiting(pc, sid).pc = pc /\ Awaiting(pc, sid).sid = sid
         /\ Awaiting(pc, sid).obj = 0
  BY DEF Useful, Awaiting, Rest, Frame, Fits, Agrees, Calls, Waits, Drains

LEMMA BoundHere ==
  ASSUME Scalars, binding # Unbound
  PROVE  binding.sid \in Sessions /\ binding.obj \in Identities /\ binding.obj # 0
  BY DEF Scalars, Identities

LEMMA BoundIfSession ==
  ASSUME Scalars, binding.sid \in Sessions
  PROVE  binding # Unbound
  BY NamesAssumption DEF Unbound

LEMMA Claims ==
  ASSUME Scalars, binding # Unbound, activation # 0, NEW task \in Tasks, NEW q,
         ClaimDrain(task, q)
  PROVE  busy' \in BOOLEAN /\ \E frame : Harmless(frame) /\ Advance(task, frame, q)
<1> DEFINE frame == [Awaiting("list", binding.sid) EXCEPT !.obj = binding.obj,
                                                          !.gen = activation]
<1>1. activation \in Nat /\ binding.sid \in Sessions /\ binding.obj \in Identities
      /\ binding.obj # 0
  BY BoundHere, NamesAssumption DEF Scalars
<1>2. /\ frame.pc = "list" /\ frame.sid = binding.sid /\ frame.obj = binding.obj
      /\ frame.gen = activation /\ frame \in Frame
  BY <1>1 DEF Awaiting, Rest, Frame, Waits
<1> HIDE DEF frame
<1>3. Harmless(frame)
  BY <1>1, <1>2 DEF Harmless, Useful, Fits, Agrees, Drains, Writers
<1>4. Advance(task, frame, q) /\ busy' \in BOOLEAN
  <2>1. frame.pc \in Waits
    BY <1>2 DEF Waits
  <2> QED
    BY <2>1 DEF ClaimDrain, Wait, Advance, frame
<1> QED
  BY <1>3, <1>4

LEMMA TurnDoneGoes ==
  ASSUME Scalars, binding # Unbound, activation # 0, NEW task \in Tasks, NEW q,
         TurnDone(task, q)
  PROVE  busy' \in BOOLEAN /\ \E frame : Harmless(frame) /\ Advance(task, frame, q)
<1>1. CASE Journaling
  <2>1. binding.sid \in Sessions
    BY BoundHere
  <2> DEFINE frame == Awaiting("journal", binding.sid)
  <2>2. /\ Useful(frame) /\ Agrees(frame) /\ frame.pc = "journal"
    BY <2>1, AwaitingFits
  <2>3. busy' = FALSE /\ Wait(task, frame, q)
    BY <1>1 DEF TurnDone
  <2>4. Harmless(frame) /\ Advance(task, frame, q)
    <3> HIDE DEF frame
    <3> QED
      BY <2>2, <2>3 DEF Harmless, Writers, Wait, Advance, Waits
  <2> QED
    BY <2>3, <2>4
<1>2. CASE ~Journaling
  <2>1. ClaimDrain(task, q)
    BY <1>2 DEF TurnDone
  <2> QED
    BY <2>1, Claims
<1> QED
  BY <1>1, <1>2

LEMMA Finishes ==
  ASSUME NEW task \in Tasks, NEW q, Finish(task, q)
  PROVE  \E frame : Harmless(frame) /\ Advance(task, frame, q)
<1>1. Harmless(Rest) /\ Rest.pc \notin Waits
  BY RestIsHarmless DEF Calls, Waits
<1>2. Advance(task, Rest, q)
  BY <1>1 DEF Advance, Finish
<1> QED
  BY <1>1, <1>2

LEMMA LeastIsIn ==
  ASSUME NEW S \in SUBSET Nat, S # {}
  PROVE  Min(S) \in S
<1>1. PICK x \in S : \A y \in S : ~(<<y, x>> \in OpToRel(<, Nat))
  BY WFMin, NatLessThanWellFounded, Zenon
<1>2. \A y \in S : x =< y
  <2> SUFFICES ASSUME NEW y \in S, ~(x =< y) PROVE FALSE
    OBVIOUS
  <2>1. x \in Nat /\ y \in Nat /\ y < x
    OBVIOUS
  <2>2. <<y, x>> \in OpToRel(<, Nat)
    BY <2>1 DEF OpToRel
  <2> QED
    BY <1>1, <2>2
<1> QED
  BY <1>2 DEF Min

LEMMA GoesOn ==
  ASSUME Scalars, NEW task \in Tasks, NEW q, NEW es \in Seq(Events), NEW isBusy \in BOOLEAN,
         GoOn(task, es, isBusy, q)
  PROVE  /\ busy' \in BOOLEAN /\ todo' \in Seq(Events)
         /\ \E frame : Harmless(frame) /\ Advance(task, frame, q)
<1> DEFINE dones == {i \in DOMAIN es : es[i].kind = "done"}
<1>1. CASE busy' \in BOOLEAN /\ todo' = << >> /\ Finish(task, q)
  BY <1>1, Finishes
<1>2. CASE /\ es # << >> /\ activation # 0 /\ binding.sid = es[1].sid /\ dones # {}
           /\ todo' = SubSeq(es, Min(dones) + 1, Len(es)) /\ TurnDone(task, q)
  <2>1. Len(es) \in Nat /\ DOMAIN es = 1 .. Len(es) /\ \A i \in 1 .. Len(es) : es[i] \in Events
    OBVIOUS
  <2>2. binding.sid \in Sessions
    <3>1. es[1] \in Events
      BY <1>2, <2>1
    <3> QED
      BY <1>2, <3>1 DEF Events
  <2>3. Min(dones) \in 1 .. Len(es)
    <3>1. dones \in SUBSET Nat /\ dones \in SUBSET (1 .. Len(es))
      BY <2>1
    <3>2. Min(dones) \in dones
      BY <1>2, <3>1, LeastIsIn
    <3> QED
      BY <3>1, <3>2
  <2>4. todo' \in Seq(Events)
    <3> HIDE DEF dones
    <3>1. Min(dones) + 1 \in Int /\ Len(es) \in Int
          /\ \A i \in Min(dones) + 1 .. Len(es) : es[i] \in Events
      BY <2>1, <2>3
    <3> QED
      BY <1>2, <3>1, SubSeqProperties
  <2> QED
    BY <1>2, <2>2, <2>4, BoundIfSession, TurnDoneGoes
<1> QED
  BY <1>1, <1>2 DEF GoOn

LEMMA Continues ==
  ASSUME Scalars, NEW task \in Tasks, NEW q, NEW isBusy \in BOOLEAN, Continue(task, isBusy, q)
  PROVE  /\ busy' \in BOOLEAN /\ todo' \in Seq(Events)
         /\ \E frame : Harmless(frame) /\ Advance(task, frame, q)
  BY GoesOn, Finishes DEF Continue, Scalars

LEMMA StartsDrain ==
  ASSUME Scalars, NEW task \in Tasks, NEW q, NEW isBusy \in BOOLEAN,
         StartDrain(task, isBusy, q)
  PROVE  /\ busy' \in BOOLEAN /\ todo' \in Seq(Events)
         /\ \E frame : Harmless(frame) /\ Advance(task, frame, q)
  BY Continues, Claims DEF StartDrain, Scalars
-----------------------------------------------------------------------------
(* Every action keeps what the tasks share.                                *)

Base == Scalars /\ Sync

LEMMA HarmlessSync ==
  ASSUME Base, NEW task \in Tasks, NEW q, Released(task, q), at[task].pc \notin Writers,
         \E frame : Harmless(frame) /\ Advance(task, frame, q),
         saved' = saved, binding' = binding, sent' = sent
  PROVE  Sync'
<1>1. PICK frame : Harmless(frame) /\ Advance(task, frame, q)
  OBVIOUS
<1>2. /\ Useful(frame) /\ frame.pc \notin Writers /\ frame.pc # "delete" /\ Agrees(frame)
  BY <1>1 DEF Harmless
<1>3. sent \in [Prompts -> Nat] /\ \A p \in Prompts : sent'[p] >= sent[p]
  BY DEF Base, Scalars
<1> QED
  BY <1>1, <1>2, <1>3, QuietSync DEF Base

\* The scalars that a step of the tasks leaves alone.
LEMMA ScalarsKept ==
  ASSUME Base, topic' = topic, binding' = binding, saved' = saved, turns' = turns,
         sent' = sent, attaching' = attaching, deferred' = deferred, events' = events,
         busy' \in BOOLEAN, todo' \in Seq(Events),
         discarded' \subseteq Prompts, queued' \subseteq Prompts
  PROVE  Scalars'
  BY DEF Base, Scalars, topic

LEMMA DrainListBase ==
  ASSUME Base, rows \subseteq Queue!Row, NEW task \in Tasks, DrainList(task)
  PROVE  Base'
<1> DEFINE f == at[task]
           head == Head1(f.sid)
           frame == [f EXCEPT !.pc = "send", !.row = head]
           q == Tail(lockq)
<1>1. Released(task, q) /\ f.pc = "list" /\ f.pc \notin Writers
  BY HoldsReleases DEF DrainList, Waits, Writers, Base, Sync
<1>2. CASE head # {} /\ Call(task, frame, q) /\ UNCHANGED <<busy, todo>>
  <2>1. f \in Frame /\ Fits(f) /\ Agrees(f)
    BY DEF Base, Sync, Threads, Captures
  <2>2. head \in SUBSET Queue!Row
    BY DEF Head1, Queue!RowsOf
  <2>3. /\ frame \in Frame /\ frame.pc = "send" /\ frame.row = head /\ frame.sid = f.sid
        /\ frame.obj = f.obj /\ frame.gen = f.gen
    BY <2>1, <2>2 DEF Frame, Calls
  <2> HIDE DEF frame
  <2>4. Harmless(frame)
    BY <1>1, <1>2, <2>1, <2>3 DEF Harmless, Useful, Fits, Agrees, Drains, Writers
  <2>5. Advance(task, frame, q)
    BY <1>2, <2>3 DEF Call, Advance, Waits
  <2>6. Sync'
    BY <1>1, <2>4, <2>5, HarmlessSync DEF DrainList, history
  <2>7. Scalars'
    BY <1>2, ScalarsKept DEF DrainList, Base, Scalars, history
  <2> QED
    BY <2>6, <2>7 DEF Base
<1>3. ASSUME NEW isBusy \in BOOLEAN, Continue(task, isBusy, q) PROVE Base'
  <2>1. /\ busy' \in BOOLEAN /\ todo' \in Seq(Events)
        /\ \E fr : Harmless(fr) /\ Advance(task, fr, q)
    BY <1>3, Continues DEF Base
  <2>2. Sync'
    BY <1>1, <2>1, HarmlessSync DEF DrainList, history
  <2>3. Scalars'
    BY <2>1, ScalarsKept DEF DrainList, Base, Scalars, history
  <2> QED
    BY <2>2, <2>3 DEF Base
<1> QED
  BY <1>2, <1>3 DEF DrainList, Base, Scalars

LEMMA AcceptedFits ==
  ASSUME Scalars, NEW s \in Sessions, NEW p \in Prompts \cup {Foreign}, Accepted(s, p)
  PROVE  events' \in Seq(Events) /\ turns' \in [Sessions -> Seq(Prompts \cup {Foreign})]
<1>1. [kind |-> "started", sid |-> s] \in Events
  BY DEF Events
<1>2. events' \in Seq(Events)
  BY <1>1 DEF Accepted, Scalars
<1>3. Append(turns[s], p) \in Seq(Prompts \cup {Foreign})
  BY DEF Scalars
<1> QED
  BY <1>2, <1>3 DEF Accepted, Scalars

LEMMA DrainSentBase ==
  ASSUME Base, NEW task \in Tasks, DrainSent(task)
  PROVE  Base'
<1> DEFINE f == at[task]
           p == Carried(f)
           frame == [f EXCEPT !.pc = "delete"]
<1>1. f.pc = "send" /\ f \in Frame /\ Fits(f) /\ Agrees(f) /\ f.row # {}
  BY DEF DrainSent, Base, Sync, Threads, Captures, Fits
<1>2. p \in Prompts /\ f.sid \in Sessions
  BY <1>1, CarriedIsPrompt DEF Fits
<1>3. Released(task, lockq) /\ f.pc \notin Writers
  BY <1>1, CallReleases DEF Calls, Writers
<1>4. /\ frame \in Frame /\ frame.pc = "delete" /\ frame.row = f.row /\ frame.sid = f.sid
      /\ frame.obj = f.obj /\ frame.gen = f.gen
  BY <1>1 DEF Frame, Waits
<1>5. Wait(task, frame, lockq) /\ sent' = [sent EXCEPT ![p] = @ + 1] /\ Accepted(f.sid, p)
  BY DEF DrainSent, Carried
<1>6. /\ sent \in [Prompts -> Nat] /\ sent' \in [Prompts -> Nat] /\ sent'[p] > 0
      /\ \A x \in Prompts : sent'[x] >= sent[x]
  BY <1>2, <1>5 DEF Base, Scalars
<1>7. Carried(frame) = p
  BY <1>4 DEF Carried
<1> HIDE DEF frame, p
<1>8. Useful(frame) /\ Agrees(frame) /\ frame.pc \notin Writers
  BY <1>1, <1>4 DEF Useful, Fits, Agrees, Drains, Writers
<1>9. Advance(task, frame, lockq)
  BY <1>4, <1>5 DEF Wait, Advance, Waits
<1>10. Sync'
  BY <1>3, <1>6, <1>7, <1>8, <1>9, QuietSync DEF Base, DrainSent
<1>11. Scalars'
  BY <1>2, <1>5, <1>6, AcceptedFits DEF Base, Scalars, DrainSent, topic
<1> QED
  BY <1>10, <1>11 DEF Base

LEMMA DrainSendFailsBase ==
  ASSUME Base, NEW task \in Tasks, DrainSendFails(task)
  PROVE  Base'
<1>1. Released(task, lockq) /\ at[task].pc \notin Writers
  BY CallReleases DEF DrainSendFails, Calls, Writers
<1>2. \E frame : Harmless(frame) /\ Advance(task, frame, lockq)
  BY Finishes DEF DrainSendFails
<1>3. Sync'
  BY <1>1, <1>2, HarmlessSync DEF DrainSendFails, history
<1>4. busy' \in BOOLEAN /\ todo' \in Seq(Events)
  <2>1. busy \in BOOLEAN /\ todo \in Seq(Events) /\ << >> \in Seq(Events)
    BY DEF Base, Scalars
  <2>2. busy' \in {FALSE, busy} /\ todo' \in {<< >>, todo}
    BY DEF DrainSendFails
  <2> QED
    BY <2>1, <2>2
<1>5. Scalars'
  BY <1>4, ScalarsKept DEF DrainSendFails, Base, Scalars, history
<1> QED
  BY <1>3, <1>5 DEF Base

LEMMA DrainDeleteBase ==
  ASSUME Base, NEW task \in Tasks, DrainDelete(task)
  PROVE  Base'
<1> DEFINE q == Tail(lockq)
<1>1. Released(task, q) /\ at[task].pc \notin Writers
  BY HoldsReleases DEF DrainDelete, Waits, Writers, Base, Sync
<1>2. /\ busy' \in BOOLEAN /\ todo' \in Seq(Events)
      /\ \E frame : Harmless(frame) /\ Advance(task, frame, q)
  <2>1. CASE Finish(task, q) /\ todo' = << >> /\ UNCHANGED busy
    BY <2>1, Finishes DEF Base, Scalars
  <2>2. CASE Continue(task, busy, q)
    BY <2>2, Continues DEF Base, Scalars
  <2> QED
    BY <2>1, <2>2 DEF DrainDelete
<1>3. Sync'
  BY <1>1, <1>2, HarmlessSync DEF DrainDelete, history
<1>4. Scalars'
  BY <1>2, ScalarsKept DEF DrainDelete, Base, Scalars, history
<1> QED
  BY <1>3, <1>4 DEF Base

LEMMA TakeEventBase ==
  ASSUME Base, TakeEvent
  PROVE  Base'
<1> DEFINE e == Head(events)
<1>1. e \in Events /\ events' \in Seq(Events) /\ deferred' \in Seq(Events)
  <2>1. e \in Events /\ events' \in Seq(Events)
    BY DEF TakeEvent, Base, Scalars
  <2> QED
    BY <2>1 DEF TakeEvent, Base, Scalars
<1>2. Released("backend", lockq) /\ at["backend"].pc \notin Writers /\ "backend" \in Tasks
  BY CallReleases DEF TakeEvent, Ready, Calls, Writers, Tasks
<1>3. busy' \in BOOLEAN /\ Sync'
  <2>1. CASE TurnDone("backend", lockq) /\ binding.sid = e.sid /\ activation # 0
    <3>1. binding # Unbound
      BY <1>1, <2>1, BoundIfSession DEF Events, Base
    <3>2. /\ busy' \in BOOLEAN
          /\ \E frame : Harmless(frame) /\ Advance("backend", frame, lockq)
      BY <1>2, <2>1, <3>1, TurnDoneGoes DEF Base
    <3> QED
      BY <1>2, <3>2, HarmlessSync DEF TakeEvent, history
  <2>2. CASE busy' \in BOOLEAN /\ UNCHANGED <<at, lockq>>
    BY <2>2, StillSync DEF TakeEvent, history, Base
  <2> QED
    BY <2>1, <2>2 DEF TakeEvent, Base, Scalars
<1>4. Scalars'
  BY <1>1, <1>3 DEF TakeEvent, Base, Scalars, topic, history
<1> QED
  BY <1>3, <1>4 DEF Base

LEMMA JournaledBase ==
  ASSUME Base, NEW task \in Tasks, Journaled(task)
  PROVE  Base'
<1> DEFINE q == Tail(lockq)
<1>1. Released(task, q) /\ at[task].pc \notin Writers
  BY HoldsReleases DEF Journaled, Waits, Writers, Base, Sync
<1>2. /\ busy' \in BOOLEAN /\ todo' \in Seq(Events)
      /\ \E frame : Harmless(frame) /\ Advance(task, frame, q)
  BY StartsDrain DEF Journaled, Base, Scalars
<1>3. Sync'
  BY <1>1, <1>2, HarmlessSync DEF Journaled, history
<1>4. Scalars'
  BY <1>2, ScalarsKept DEF Journaled, Base, Scalars, history
<1> QED
  BY <1>3, <1>4 DEF Base

(* Topics.                                                                 *)

\* A new binding has an identity that nobody holds, when one task holds none.
LEMMA FreshIdentity ==
  ASSUME Base, NEW task \in Tasks, at[task].pc = "attach"
  PROVE  Fresh \in Identities /\ \A t \in Tasks : at[t].obj # Fresh
<1>1. at[task].obj = 0
  BY DEF Base, Sync, Threads, Fits, Drains
<1>2. \A t \in Tasks : at[t].obj \in 0 .. 4
  BY DEF Base, Sync, Threads, Frame, Identities
<1>3. binding.obj \in 0 .. 4
  BY DEF Base, Scalars, Unbound, Identities
<1> DEFINE Taken(n) == n = binding.obj \/ \E t \in Tasks : n = at[t].obj
<1>4. \E n \in 1 .. 4 : ~Taken(n)
  <2>1. PICK t2 \in Tasks, t3 \in Tasks : \A t \in Tasks : t = task \/ t = t2 \/ t = t3
    BY DEF Tasks
  <2>2. \A n \in 1 .. 4 : n = binding.obj \/ n = at[t2].obj \/ n = at[t3].obj \/ ~Taken(n)
    BY <1>1, <2>1
  <2> HIDE DEF Taken
  <2>3. ~(/\ 1 = binding.obj \/ 1 = at[t2].obj \/ 1 = at[t3].obj
          /\ 2 = binding.obj \/ 2 = at[t2].obj \/ 2 = at[t3].obj
          /\ 3 = binding.obj \/ 3 = at[t2].obj \/ 3 = at[t3].obj
          /\ 4 = binding.obj \/ 4 = at[t2].obj \/ 4 = at[t3].obj)
    OBVIOUS
  <2>4. 1 \in 1 .. 4 /\ 2 \in 1 .. 4 /\ 3 \in 1 .. 4 /\ 4 \in 1 .. 4
    OBVIOUS
  <2> QED
    BY <2>2, <2>3, <2>4
<1>5. \E n \in 1 .. 4 : ~Taken(n) /\ \A m \in 1 .. n - 1 : Taken(m)
  <2> DEFINE S == {n \in 1 .. 4 : ~Taken(n)}
  <2>1. S \in SUBSET Nat /\ S # {} /\ S \in SUBSET (1 .. 4)
    BY <1>4
  <2>2. PICK n \in S : \A m \in S : ~(<<m, n>> \in OpToRel(<, Nat))
    <3> HIDE DEF S
    <3> QED
      BY <2>1, WFMin, NatLessThanWellFounded, Zenon
  <2>3. ASSUME NEW m \in 1 .. n - 1, ~Taken(m) PROVE FALSE
    <3>1. m \in S /\ m \in Nat /\ n \in Nat /\ m < n
      BY <2>1, <2>3
    <3>2. <<m, n>> \in OpToRel(<, Nat)
      BY <3>1 DEF OpToRel
    <3> QED
      BY <2>2, <3>1, <3>2
  <2> QED
    BY <2>1, <2>3
<1>6. Fresh \in 1 .. 4 /\ ~Taken(Fresh)
  BY <1>5 DEF Fresh, Identities
<1> QED
  BY <1>6 DEF Identities

LEMMA RunningIsBoolean == \A s : Running(s) \in BOOLEAN
  BY DEF Running

LEMMA TopicOnBase ==
  ASSUME Base, TopicOn
  PROVE  Base'
<1>1. Released("topic", lockq) /\ at["topic"].pc \notin Writers /\ "topic" \in Tasks
  BY CallReleases DEF TopicOn, Ready, Calls, Writers, Tasks
<1>2. \E frame : Harmless(frame) /\ Advance("topic", frame, lockq)
  <2>1. CASE Finish("topic", lockq)
    BY <1>1, <2>1, Finishes
  <2>2. CASE binding # Unbound /\ Call("topic", Awaiting("attach", binding.sid), lockq)
    <3> DEFINE frame == Awaiting("attach", binding.sid)
    <3>1. Useful(frame) /\ Agrees(frame) /\ frame.pc = "attach"
      BY <2>2, BoundHere, AwaitingFits DEF Base
    <3> HIDE DEF frame
    <3>2. Harmless(frame) /\ Advance("topic", frame, lockq)
      BY <2>2, <3>1 DEF Harmless, Writers, Call, Advance, Waits, frame
    <3> QED
      BY <3>2
  <2> QED
    BY <2>1, <2>2 DEF TopicOn
<1>3. Sync'
  BY <1>1, <1>2, HarmlessSync DEF TopicOn, history
<1>4. lastGen' \in 0 .. MaxTopics /\ activation' \in 0 .. lastGen'
  BY NamesAssumption DEF TopicOn, Base, Scalars
<1>5. Scalars'
  BY <1>4 DEF TopicOn, Base, Scalars, history
<1> QED
  BY <1>3, <1>5 DEF Base

LEMMA TopicOffBase ==
  ASSUME Base, TopicOff
  PROVE  Base'
<1>1. Sync'
  BY StillSync DEF TopicOff, Base, history
<1>2. activation' \in 0 .. lastGen'
  BY DEF TopicOff, Base, Scalars
<1>3. Scalars'
  BY <1>2 DEF TopicOff, Base, Scalars, history
<1> QED
  BY <1>1, <1>3 DEF Base

\* Either task binds the channel to the session it attached.
LEMMA BindBase ==
  ASSUME Base, NEW task \in Tasks, task # "backend", at[task].pc = "attach", Bind(at[task].sid),
         Wait(task, Awaiting("save", at[task].sid), lockq),
         UNCHANGED <<topic, attaching, deferred, saved, todo, events, turns, history>>
  PROVE  Base'
<1> DEFINE s == at[task].sid
           frame == Awaiting("save", s)
<1>1. s \in Sessions
  BY DEF Base, Sync, Threads, Fits
<1>2. Fresh \in Identities /\ \A t \in Tasks : at[t].obj # Fresh
  BY FreshIdentity
<1>3. binding' = [sid |-> s, obj |-> Fresh] /\ busy' \in BOOLEAN
  BY RunningIsBoolean DEF Bind
<1>4. binding' \in [sid : Sessions, obj : Identities] /\ binding'.sid = s /\ binding'.obj = Fresh
  BY <1>1, <1>2, <1>3
<1>5. Useful(frame) /\ frame.pc = "save" /\ frame.sid = s
  BY <1>1, AwaitingFits
<1>6. Released(task, lockq)
  BY CallReleases DEF Calls
<1> HIDE DEF s, frame
<1>7. Advance(task, frame, lockq)
  BY <1>5 DEF Wait, Advance, Waits, frame, s
<1>8. \A t \in Tasks : at[t].obj # 0 => at[t].obj # binding'.obj
  BY <1>2, <1>4
<1>9. Sync'
  BY <1>4, <1>5, <1>6, <1>7, <1>8, BindsSync DEF Base, Writers, history
<1>10. Scalars'
  BY <1>3, <1>4 DEF Base, Scalars, topic, history
<1> QED
  BY <1>9, <1>10 DEF Base

LEMMA TopicSavedBase ==
  ASSUME Base, TopicSaved
  PROVE  Base'
<1> DEFINE q == Tail(lockq)
<1>1. Released("topic", q) /\ at["topic"].pc = "save" /\ "topic" \in Tasks
  BY HoldsReleases DEF TopicSaved, Waits, Base, Sync, Tasks
<1>2. at["topic"].sid \in Sessions
  BY <1>1 DEF Base, Sync, Threads, Fits
<1>3. /\ busy' \in BOOLEAN /\ todo' \in Seq(Events)
      /\ \E frame : Harmless(frame) /\ Advance("topic", frame, q)
  BY <1>1, StartsDrain DEF TopicSaved, Base, Scalars
<1>4. PICK frame : Harmless(frame) /\ Advance("topic", frame, q)
  BY <1>3
<1>5. Useful(frame) /\ frame.pc \notin Writers /\ frame.pc # "delete" /\ Agrees(frame)
  BY <1>4 DEF Harmless
<1>6. Sync'
  BY <1>1, <1>4, <1>5, SavesSync DEF TopicSaved, Base, Writers, history
<1>7. Scalars'
  BY <1>2, <1>3 DEF TopicSaved, Base, Scalars, topic, history
<1> QED
  BY <1>6, <1>7 DEF Base

\* Actions that end with the task at rest and change nothing but the store and
\* the history of the queue.
LEMMA RestsBase ==
  ASSUME Base, NEW task \in Tasks, NEW q, Released(task, q), at[task].pc \notin Writers,
         Finish(task, q),
         UNCHANGED <<topic, binding, saved, turns, sent, events, todo, busy>>,
         attaching' \in {attaching, NoSession}, deferred' \in {deferred, << >>},
         discarded' \subseteq Prompts, queued' \subseteq Prompts
  PROVE  Base'
<1>1. \E frame : Harmless(frame) /\ Advance(task, frame, q)
  BY Finishes
<1>2. Sync'
  BY <1>1, HarmlessSync
<1>3. attaching' \in Sessions \cup {NoSession} /\ deferred' \in Seq(Events)
  <2>1. attaching \in Sessions \cup {NoSession} /\ deferred \in Seq(Events)
        /\ << >> \in Seq(Events)
    BY DEF Base, Scalars
  <2> QED
    BY <2>1
<1>4. Scalars'
  BY <1>3 DEF Base, Scalars, topic
<1> QED
  BY <1>2, <1>4 DEF Base
-----------------------------------------------------------------------------
(* The worker's actions.                                                   *)

\* The worker begins an action with a frame that has to do with no binding.
LEMMA BeginsBase ==
  ASSUME Base, NEW frame, Useful(frame), frame.obj = 0, frame.pc \notin Writers,
         Ready("worker"), Advance("worker", frame, lockq), saved' = saved,
         binding' = binding, sent' = sent
  PROVE  Sync'
<1>1. Released("worker", lockq) /\ at["worker"].pc \notin Writers /\ "worker" \in Tasks
  BY CallReleases DEF Ready, Calls, Writers, Tasks
<1>2. Harmless(frame)
  BY DEF Harmless, Agrees, Useful, Fits, Drains
<1> QED
  BY <1>1, <1>2, HarmlessSync

LEMMA PromptBase ==
  ASSUME Base, NEW p \in Prompts, Prompt(p)
  PROVE  Base'
<1>1. Ready("worker") /\ binding # Unbound
  BY DEF Prompt, Begin
<1>2. binding.sid \in Sessions
  BY <1>1, BoundHere DEF Base
<1>3. PICK text \in Texts :
         LET f == [Awaiting("prompt", binding.sid)
                     EXCEPT !.row = {[id |-> p, text |-> text]}]
         IN  IF busy THEN Wait("worker", [f EXCEPT !.pc = "enqueue"], lockq)
             ELSE Call("worker", f, lockq)
  BY DEF Prompt
<1> DEFINE f == [Awaiting("prompt", binding.sid) EXCEPT !.row = {[id |-> p, text |-> text]}]
           g == [f EXCEPT !.pc = "enqueue"]
<1>4. {[id |-> p, text |-> text]} \subseteq Written
  BY DEF Written
<1>5. /\ f \in Frame /\ f.pc = "prompt" /\ f.obj = 0 /\ f.sid = binding.sid
      /\ f.row = {[id |-> p, text |-> text]}
  BY <1>2, <1>4 DEF Frame, Calls, Awaiting, Rest
<1>6. /\ g \in Frame /\ g.pc = "enqueue" /\ g.obj = 0 /\ g.sid = binding.sid
      /\ g.row = {[id |-> p, text |-> text]}
  BY <1>2, <1>4 DEF Frame, Waits, Awaiting, Rest
<1> HIDE DEF f, g
<1>7. Useful(f) /\ Useful(g)
  BY <1>2, <1>4, <1>5, <1>6 DEF Useful, Fits, Drains
<1>8. Sync'
  <2>1. CASE busy
    <3>1. Advance("worker", g, lockq)
      BY <1>3, <1>6, <2>1 DEF Wait, Advance, Waits, f, g
    <3> QED
      BY <1>1, <1>6, <1>7, <3>1, BeginsBase DEF Prompt, history, Writers
  <2>2. CASE ~busy
    <3>1. Advance("worker", f, lockq)
      BY <1>3, <1>5, <2>2 DEF Call, Advance, Waits, f
    <3> QED
      BY <1>1, <1>5, <1>7, <3>1, BeginsBase DEF Prompt, history, Writers
  <2> QED
    BY <2>1, <2>2
<1>9. Scalars'
  BY ScalarsKept DEF Prompt, Base, Scalars, history
<1> QED
  BY <1>8, <1>9 DEF Base

LEMMA PromptSentBase ==
  ASSUME Base, PromptSent
  PROVE  Base'
<1> DEFINE f == at["worker"]
           p == Carried(f)
<1>1. "worker" \in Tasks /\ f.pc = "prompt"
  BY DEF PromptSent, Tasks
<1>2. f \in Frame /\ Fits(f) /\ f.row # {} /\ f.sid \in Sessions
  BY <1>1 DEF Base, Sync, Threads, Fits
<1>3. p \in Prompts
  BY <1>2, CarriedIsPrompt
<1>4. Released("worker", lockq) /\ f.pc \notin Writers
  BY <1>1, CallReleases DEF Calls, Writers
<1>5. Finish("worker", lockq) /\ sent' = [sent EXCEPT ![p] = @ + 1] /\ Accepted(f.sid, p)
  BY DEF PromptSent, Carried
<1>6. /\ sent \in [Prompts -> Nat] /\ sent' \in [Prompts -> Nat]
      /\ \A x \in Prompts : sent'[x] >= sent[x]
  BY <1>3, <1>5 DEF Base, Scalars
<1> HIDE DEF p
<1>7. PICK frame : Harmless(frame) /\ Advance("worker", frame, lockq)
  BY <1>1, <1>5, Finishes
<1>8. Useful(frame) /\ frame.pc \notin Writers /\ frame.pc # "delete" /\ Agrees(frame)
  BY <1>7 DEF Harmless
<1>9. Sync'
  BY <1>1, <1>4, <1>6, <1>7, <1>8, QuietSync DEF Base, PromptSent
<1>10. Scalars'
  BY <1>2, <1>3, <1>5, <1>6, AcceptedFits DEF Base, Scalars, PromptSent, topic
<1> QED
  BY <1>9, <1>10 DEF Base

LEMMA AttachBase ==
  ASSUME Base, NEW s \in Sessions, Attach(s)
  PROVE  Base'
<1> DEFINE frame == Awaiting("attach", s)
<1>1. Useful(frame) /\ frame.pc = "attach" /\ frame.obj = 0
  BY AwaitingFits
<1>2. Ready("worker") /\ Call("worker", frame, lockq)
  BY DEF Attach, Begin
<1> HIDE DEF frame
<1>3. Advance("worker", frame, lockq)
  BY <1>1, <1>2 DEF Call, Advance, Waits
<1>4. Sync'
  BY <1>1, <1>2, <1>3, BeginsBase DEF Attach, history, Writers
<1>5. deferred' \in Seq(Events) /\ attaching' \in Sessions \cup {NoSession}
  BY DEF Attach
<1>6. Scalars'
  BY <1>5 DEF Attach, Base, Scalars, topic, history
<1> QED
  BY <1>4, <1>6 DEF Base

LEMMA BindingSavedBase ==
  ASSUME Base, BindingSaved
  PROVE  Base'
<1> DEFINE q == Tail(lockq)
           s == at["worker"].sid
           frame == Awaiting("snapshot", s)
<1>1. Released("worker", q) /\ at["worker"].pc = "save" /\ "worker" \in Tasks
  BY HoldsReleases DEF BindingSaved, Waits, Base, Sync, Tasks
<1>2. s \in Sessions
  BY <1>1 DEF Base, Sync, Threads, Fits
<1>3. Useful(frame) /\ frame.pc = "snapshot" /\ Agrees(frame)
  BY <1>2, AwaitingFits
<1>4. Wait("worker", frame, q)
  BY DEF BindingSaved
<1> HIDE DEF frame
<1>5. Advance("worker", frame, q)
  BY <1>3, <1>4 DEF Wait, Advance, Waits
<1>6. Sync'
  BY <1>1, <1>3, <1>5, SavesSync DEF BindingSaved, Base, Writers, history
<1>7. Scalars'
  BY <1>2 DEF BindingSaved, Base, Scalars, topic, history
<1> QED
  BY <1>6, <1>7 DEF Base

LEMMA SnapshotBase ==
  ASSUME Base, Snapshot
  PROVE  Base'
<1> DEFINE q == Tail(lockq)
<1>1. Released("worker", q) /\ at["worker"].pc \notin Writers /\ "worker" \in Tasks
  BY HoldsReleases DEF Snapshot, Waits, Writers, Base, Sync, Tasks
<1>2. /\ busy' \in BOOLEAN /\ todo' \in Seq(Events)
      /\ \E frame : Harmless(frame) /\ Advance("worker", frame, q)
  BY <1>1, GoesOn DEF Snapshot, Base, Scalars
<1>3. Sync'
  BY <1>1, <1>2, HarmlessSync DEF Snapshot, history
<1>4. deferred' \in Seq(Events) /\ attaching' \in Sessions \cup {NoSession}
  BY DEF Snapshot
<1>5. Scalars'
  BY <1>2, <1>4 DEF Snapshot, Base, Scalars, topic, history
<1> QED
  BY <1>3, <1>5 DEF Base

LEMMA DetachBase ==
  ASSUME Base, Detach
  PROVE  Base'
<1> DEFINE frame == Awaiting("unbind", NoSession)
<1>1. "worker" \in Tasks /\ Released("worker", lockq)
  BY CallReleases DEF Detach, Begin, Ready, Calls, Tasks
<1>2. binding'.sid = NoSession /\ binding'.obj = 0 /\ binding' = Unbound
  BY DEF Detach, Unbound
<1>3. /\ frame \in Frame /\ Fits(frame) /\ frame.pc = "unbind" /\ frame.sid = NoSession
  BY DEF Awaiting, Rest, Frame, Waits, Fits, Drains
<1>4. Wait("worker", frame, lockq)
  BY DEF Detach
<1> HIDE DEF frame
<1>5. Advance("worker", frame, lockq) /\ Useful(frame)
  BY <1>3, <1>4 DEF Wait, Advance, Waits, Useful
<1>6. Sync'
  BY <1>1, <1>2, <1>3, <1>5, BindsSync DEF Detach, Base, Writers, history
<1>7. Scalars'
  BY <1>2 DEF Detach, Base, Scalars, topic, history
<1> QED
  BY <1>6, <1>7 DEF Base

LEMMA DetachedBase ==
  ASSUME Base, Detached
  PROVE  Base'
<1> DEFINE q == Tail(lockq)
<1>1. Released("worker", q) /\ at["worker"].pc = "unbind" /\ "worker" \in Tasks
  BY HoldsReleases DEF Detached, Waits, Base, Sync, Tasks
<1>2. saved' = at["worker"].sid
  BY <1>1 DEF Detached, Base, Sync, Threads, Fits
<1>3. PICK frame : Harmless(frame) /\ Advance("worker", frame, q)
  BY <1>1, Finishes DEF Detached
<1>4. Useful(frame) /\ frame.pc \notin Writers /\ frame.pc # "delete" /\ Agrees(frame)
  BY <1>3 DEF Harmless
<1>5. Sync'
  BY <1>1, <1>2, <1>3, <1>4, SavesSync DEF Detached, Base, Writers, history
<1>6. Scalars'
  BY DEF Detached, Base, Scalars, topic, history
<1> QED
  BY <1>5, <1>6 DEF Base
-----------------------------------------------------------------------------
(* The worker at the queue.                                                *)

LEMMA QueueActionBase ==
  ASSUME Base, NEW p \in Prompts, NEW pc \in {"edit", "move", "discard"}, QueueAction(p, pc)
  PROVE  Base'
<1>1. Ready("worker") /\ binding # Unbound
  BY DEF QueueAction, Begin
<1>2. binding.sid \in Sessions
  BY <1>1, BoundHere DEF Base
<1> DEFINE frame == [Awaiting("require", binding.sid) EXCEPT !.row = {[id |-> p, then |-> pc]}]
<1>3. {[id |-> p, then |-> pc]} \subseteq Wanted
  BY DEF Wanted
<1>4. /\ frame \in Frame /\ frame.pc = "require" /\ frame.obj = 0 /\ frame.sid = binding.sid
      /\ frame.row = {[id |-> p, then |-> pc]}
  BY <1>2, <1>3 DEF Frame, Waits, Awaiting, Rest
<1>5. Wait("worker", frame, lockq)
  BY DEF QueueAction
<1> HIDE DEF frame
<1>6. Useful(frame)
  BY <1>2, <1>3, <1>4 DEF Useful, Fits, Drains
<1>7. Advance("worker", frame, lockq)
  BY <1>4, <1>5 DEF Wait, Advance, Waits
<1>8. Sync'
  BY <1>1, <1>4, <1>6, <1>7, BeginsBase DEF QueueAction, history, Writers
<1>9. Scalars'
  BY ScalarsKept DEF QueueAction, Base, Scalars, history
<1> QED
  BY <1>8, <1>9 DEF Base

LEMMA QueueClearBase ==
  ASSUME Base, QueueClear
  PROVE  Base'
<1> DEFINE frame == Awaiting("clear", binding.sid)
<1>1. Ready("worker") /\ binding # Unbound
  BY DEF QueueClear, Begin
<1>2. Useful(frame) /\ frame.pc = "clear" /\ frame.obj = 0
  BY <1>1, BoundHere, AwaitingFits DEF Base
<1>3. Wait("worker", frame, lockq)
  BY DEF QueueClear
<1> HIDE DEF frame
<1>4. Advance("worker", frame, lockq)
  BY <1>2, <1>3 DEF Wait, Advance, Waits
<1>5. Sync'
  BY <1>1, <1>2, <1>4, BeginsBase DEF QueueClear, history, Writers
<1>6. Scalars'
  BY ScalarsKept DEF QueueClear, Base, Scalars, history
<1> QED
  BY <1>5, <1>6 DEF Base

LEMMA RequiredBase ==
  ASSUME Base, Required
  PROVE  Base'
<1> DEFINE f == at["worker"]
           want == CHOOSE r \in f.row : TRUE
           frame == [f EXCEPT !.pc = want.then]
           q == Tail(lockq)
<1>1. Released("worker", q) /\ f.pc = "require" /\ "worker" \in Tasks
  BY HoldsReleases DEF Required, Waits, Base, Sync, Tasks
<1>2. f \in Frame /\ Fits(f) /\ f.row # {} /\ f.row \subseteq Wanted
  BY <1>1 DEF Base, Sync, Threads, Fits
<1>3. want \in f.row
  BY <1>2
<1>4. want.then \in {"edit", "move", "discard"}
  BY <1>2, <1>3 DEF Wanted
<1>5. f.pc \notin Writers
  BY <1>1 DEF Writers
<1>6. CASE Wait("worker", frame, q)
  <2>1. /\ frame.pc = want.then /\ frame.sid = f.sid /\ frame.obj = f.obj /\ frame.gen = f.gen
        /\ frame.row = f.row /\ frame \in Frame
    BY <1>2, <1>4 DEF Frame, Waits
  <2> HIDE DEF frame, want
  <2>2. Harmless(frame)
    BY <1>1, <1>2, <1>4, <2>1 DEF Harmless, Useful, Fits, Agrees, Drains, Writers
  <2>3. Advance("worker", frame, q)
    BY <1>4, <1>6, <2>1 DEF Wait, Advance, Waits
  <2>4. Sync'
    BY <1>1, <1>5, <2>2, <2>3, HarmlessSync DEF Required, history
  <2>5. Scalars'
    BY ScalarsKept DEF Required, Base, Scalars, history
  <2> QED
    BY <2>4, <2>5 DEF Base
<1>7. CASE Finish("worker", q)
  <2>1. discarded' \subseteq Prompts /\ queued' \subseteq Prompts
    BY DEF Required, Base, Scalars, history
  <2> QED
    BY <1>1, <1>5, <1>7, <2>1, RestsBase DEF Required, history
<1> QED
  BY <1>6, <1>7 DEF Required

LEMMA StoreRests ==
  ASSUME Base, Finish("worker", Tail(lockq)),
         NEW pc \in {"enqueue", "edit", "move", "discard", "clear"}, Holds("worker", pc),
         UNCHANGED <<topic, binding, busy, attaching, deferred, saved, todo, events, turns,
                     sent>>,
         discarded' \subseteq Prompts, queued' \subseteq Prompts
  PROVE  Base'
<1>1. Released("worker", Tail(lockq)) /\ at["worker"].pc \notin Writers /\ "worker" \in Tasks
  BY HoldsReleases DEF Waits, Writers, Base, Sync, Tasks
<1> QED
  BY <1>1, RestsBase

LEMMA WhoIsThere ==
  ASSUME Base, NEW task \in Tasks, at[task].row # {}
  PROVE  Carried(at[task]) \in Prompts
<1>1. at[task] \in Frame
  BY DEF Base, Sync, Threads
<1> QED
  BY <1>1, CarriedIsPrompt

LEMMA EnqueuedBase == ASSUME Base, Enqueued PROVE Base'
<1> DEFINE f == at["worker"]
           new == CHOOSE r \in f.row : TRUE
<1>1. f.row # {} /\ "worker" \in Tasks
  BY DEF Enqueued, Holds, Base, Sync, Threads, Fits, Tasks
<1>2. new.id \in Prompts
  BY <1>1, WhoIsThere DEF Carried
<1> HIDE DEF new
<1>3. queued' \subseteq Prompts
  BY <1>2 DEF Enqueued, Base, Scalars, new
<1>4. discarded' \subseteq Prompts
  BY DEF Enqueued, Base, Scalars
<1> QED
  BY <1>3, <1>4, StoreRests DEF Enqueued

LEMMA QueueEditedBase == ASSUME Base, QueueEdited PROVE Base'
<1>1. discarded' \subseteq Prompts /\ queued' \subseteq Prompts
  BY DEF QueueEdited, Base, Scalars, history
<1> QED
  BY <1>1, StoreRests DEF QueueEdited, history

LEMMA QueueMovedBase == ASSUME Base, QueueMoved PROVE Base'
<1>1. discarded' \subseteq Prompts /\ queued' \subseteq Prompts
  BY DEF QueueMoved, Base, Scalars, history
<1> QED
  BY <1>1, StoreRests DEF QueueMoved, history

LEMMA QueueDeletedBase == ASSUME Base, QueueDeleted PROVE Base'
<1> DEFINE p == Carried(at["worker"])
<1>1. at["worker"].row # {} /\ "worker" \in Tasks
  BY DEF QueueDeleted, Holds, Base, Sync, Threads, Fits, Tasks
<1>2. p \in Prompts
  BY <1>1, WhoIsThere
<1> HIDE DEF p
<1>3. discarded' \subseteq Prompts
  BY <1>2 DEF QueueDeleted, Base, Scalars, Carried, p
<1>4. queued' \subseteq Prompts
  BY DEF QueueDeleted, Base, Scalars
<1> QED
  BY <1>3, <1>4, StoreRests DEF QueueDeleted

LEMMA QueueClearedBase == ASSUME Base, rows \subseteq Queue!Row, QueueCleared PROVE Base'
<1>1. \A s : {r.id : r \in Queue!RowsOf(s)} \subseteq Prompts
  BY DEF Queue!RowsOf, Queue!Row
<1>2. discarded' \subseteq Prompts
  BY <1>1 DEF QueueCleared, Base, Scalars
<1>3. queued' \subseteq Prompts
  BY DEF QueueCleared, Base, Scalars
<1> QED
  BY <1>2, <1>3, StoreRests DEF QueueCleared

(* Errors, sessions and restarts.                                          *)

LEMMA FailsBase ==
  ASSUME Base, TopicAttachFails \/ PromptFails \/ AttachFails
  PROVE  Base'
<1>1. discarded' \subseteq Prompts /\ queued' \subseteq Prompts
  BY DEF TopicAttachFails, PromptFails, AttachFails, Base, Scalars, history
<1>2. \A task \in Tasks : at[task].pc \in {"attach", "prompt"} =>
         Released(task, lockq) /\ at[task].pc \notin Writers
  BY CallReleases DEF Calls, Writers
<1>3. CASE TopicAttachFails
  BY <1>1, <1>2, <1>3, RestsBase DEF TopicAttachFails, history, Tasks
<1>4. CASE PromptFails
  BY <1>1, <1>2, <1>4, RestsBase DEF PromptFails, history, Tasks
<1>5. CASE AttachFails
  BY <1>1, <1>2, <1>5, RestsBase DEF AttachFails, history, Tasks
<1> QED
  BY <1>3, <1>4, <1>5

LEMMA AttachedBase == ASSUME Base, TopicAttached \/ Attached PROVE Base'
<1>1. CASE TopicAttached
  BY <1>1, BindBase DEF TopicAttached, Tasks
<1>2. CASE Attached
  BY <1>2, BindBase DEF Attached, Tasks
<1> QED
  BY <1>1, <1>2

LEMMA TurnEndsBase == ASSUME Base, NEW s \in Sessions, TurnEnds(s) PROVE Base'
<1>1. Sync'
  BY StillSync DEF TurnEnds, Base, history
<1>2. turns' \in [Sessions -> Seq(Prompts \cup {Foreign})]
  <2>1. turns[s] \in Seq(Prompts \cup {Foreign}) /\ turns[s] # << >>
    BY DEF TurnEnds, Running, Base, Scalars
  <2>2. Tail(turns[s]) \in Seq(Prompts \cup {Foreign})
    BY <2>1
  <2> QED
    BY <2>2 DEF TurnEnds, Base, Scalars
<1>3. events' \in Seq(Events)
  <2>1. [kind |-> "idle", sid |-> s] \in Events /\ [kind |-> "done", sid |-> s] \in Events
    BY DEF Events
  <2> DEFINE a == IF StatusEvents THEN <<[kind |-> "idle", sid |-> s]>> ELSE << >>
             b == <<[kind |-> "done", sid |-> s]>>
  <2>2. a \in Seq(Events) /\ b \in Seq(Events) /\ events \in Seq(Events)
    BY <2>1 DEF Base, Scalars
  <2>3. events' = events \o a \o b
    BY DEF TurnEnds
  <2> HIDE DEF a, b
  <2> QED
    BY <2>2, <2>3
<1>4. Scalars'
  BY <1>2, <1>3 DEF TurnEnds, Base, Scalars, topic, history
<1> QED
  BY <1>1, <1>4 DEF Base

LEMMA ForeignTurnBase == ASSUME Base, NEW s \in Sessions, ForeignTurn(s) PROVE Base'
<1>1. Sync'
  BY StillSync DEF ForeignTurn, Base, history
<1>2. Scalars'
  BY AcceptedFits DEF ForeignTurn, Base, Scalars, topic, history
<1> QED
  BY <1>1, <1>2 DEF Base

LEMMA RestartBase == ASSUME Base, Restart PROVE Base'
<1>1. /\ Rest \in Frame /\ Fits(Rest) /\ Rest.obj = 0 /\ Rest.pc = "idle"
      /\ Rest.pc \notin Waits /\ Rest.pc \notin Writers
  BY DEF Rest, Frame, Fits, Calls, Waits, Drains, Writers
<1>2. \A t \in Tasks : at'[t] = Rest
  BY DEF Restart
<1>3. lockq' = << >> /\ lockq' \in Seq(Tasks) /\ DOMAIN lockq' = {}
  BY DEF Restart
<1>4. Threads'
  BY <1>1, <1>2, <1>3 DEF Restart, Threads
<1>5. Captures' /\ LoopReads' /\ Delivered'
  BY <1>1, <1>2 DEF Captures, Agrees, LoopReads, Delivered, Tasks
<1>6. saved' = binding'.sid
  BY DEF Restart, Unbound
<1>7. BindOrder'
  BY <1>3, <1>6 DEF BindOrder, LastWriter
<1>8. turns' \in [Sessions -> Seq(Prompts \cup {Foreign})]
  <2>1. CASE turns' = turns
    BY <2>1 DEF Base, Scalars
  <2>2. CASE turns' = [s \in Sessions |-> << >>]
    <3>1. << >> \in Seq(Prompts \cup {Foreign})
      OBVIOUS
    <3> QED
      BY <2>2, <3>1
  <2> QED
    BY <2>1, <2>2 DEF Restart
<1>9. /\ binding' \in {Unbound} \cup [sid : Sessions, obj : Identities]
      /\ saved' \in Sessions \cup {NoSession} /\ busy' \in BOOLEAN
  <2>1. CASE /\ saved # NoSession /\ binding' = [sid |-> saved, obj |-> 1]
             /\ busy' = (turns'[saved] # << >>) /\ UNCHANGED saved
    <3>1. saved \in Sessions /\ 1 \in Identities
      BY <2>1 DEF Base, Scalars, Identities
    <3>2. (turns'[saved] # << >>) \in BOOLEAN
      OBVIOUS
    <3> QED
      BY <2>1, <3>1, <3>2
  <2>2. CASE binding' = Unbound /\ busy' = FALSE /\ saved' = NoSession
    BY <2>2
  <2> QED
    BY <2>1, <2>2 DEF Restart
<1>10. deferred' \in Seq(Events) /\ todo' \in Seq(Events) /\ events' \in Seq(Events)
  BY DEF Restart
<1>11. Scalars'
  <2>1. activation' \in 0 .. lastGen' /\ lastGen' \in 0 .. MaxTopics
    BY NamesAssumption DEF Restart, Base, Scalars
  <2> QED
    BY <1>8, <1>9, <1>10, <2>1 DEF Restart, Base, Scalars, history
<1> QED
  BY <1>4, <1>5, <1>7, <1>11 DEF Base, Sync

\* Every step.
LEMMA BaseStep == ASSUME Base, rows \subseteq Queue!Row, [Next]_vars PROVE Base'
<1>1. ASSUME WorkerStarts PROVE Base'
  BY <1>1, PromptBase, QueueActionBase, AttachBase, DetachBase, QueueClearBase DEF WorkerStarts
<1>2. ASSUME WorkerGoesOn PROVE Base'
  BY <1>2, EnqueuedBase, PromptSentBase, AttachedBase, BindingSavedBase, SnapshotBase,
     DetachedBase, RequiredBase, QueueEditedBase, QueueMovedBase, QueueDeletedBase,
     QueueClearedBase DEF WorkerGoesOn
<1>3. ASSUME PromptFails \/ AttachFails \/ TopicAttachFails PROVE Base'
  BY <1>3, FailsBase
<1>4. ASSUME TopicOn \/ TopicOff \/ TopicGoesOn PROVE Base'
  BY <1>4, TopicOnBase, TopicOffBase, AttachedBase, TopicSavedBase DEF TopicGoesOn
<1>5. ASSUME NEW task \in Tasks, DrainStep(task) \/ Journaled(task) PROVE Base'
  BY <1>5, DrainListBase, DrainSentBase, DrainSendFailsBase, DrainDeleteBase, JournaledBase
     DEF DrainStep
<1>6. ASSUME NEW s \in Sessions, TurnEnds(s) \/ ForeignTurn(s) PROVE Base'
  BY <1>6, TurnEndsBase, ForeignTurnBase
<1>7. CASE UNCHANGED vars
  <2>1. Sync'
    BY <1>7, StillSync DEF vars, history, Base
  <2>2. Scalars'
    BY <1>7 DEF vars, history, topic, Base, Scalars
  <2> QED
    BY <2>1, <2>2 DEF Base
<1> QED
  BY <1>1, <1>2, <1>3, <1>4, <1>5, <1>6, <1>7, TakeEventBase, RestartBase DEF Next
-----------------------------------------------------------------------------
(* What the steps do to the table, and that no prompt is lost.             *)

TypedRows == rows \subseteq Queue!Row

LEMMA FactsType == Facts!IInv => TypedRows
  BY DEF Facts!IInv, Facts!TypeOK, Facts!Row, Queue!Row, TypedRows

StoreAction ==
    \/ Enqueued \/ QueueEdited \/ QueueMoved \/ QueueDeleted \/ QueueCleared
    \/ \E task \in Tasks : DrainDelete(task)

\* Whatever else happens, the table stays and nothing is unsent.
LEMMA Elsewhere ==
  ASSUME Base, Next, ~StoreAction
  PROVE  UNCHANGED <<store, discarded, queued, ahead>> /\ \A p \in Prompts : sent'[p] >= sent[p]
<1>1. sent \in [Prompts -> Nat]
  BY DEF Base, Scalars
<1>2. CASE UNCHANGED <<store, history>>
  BY <1>1, <1>2 DEF history
<1>3. CASE PromptSent
  <2>1. Carried(at["worker"]) \in Prompts
    BY <1>3, WhoIsThere DEF PromptSent, Base, Sync, Threads, Fits, Tasks
  <2>2. sent' = [sent EXCEPT ![Carried(at["worker"])] = @ + 1]
    BY <1>3 DEF PromptSent, Carried
  <2> QED
    BY <1>1, <1>3, <2>1, <2>2 DEF PromptSent
<1>4. ASSUME NEW task \in Tasks, DrainSent(task) PROVE \A p \in Prompts : sent'[p] >= sent[p]
  <2>1. Carried(at[task]) \in Prompts
    BY <1>4, WhoIsThere DEF DrainSent, Base, Sync, Threads, Fits
  <2>2. sent' = [sent EXCEPT ![Carried(at[task])] = @ + 1]
    BY <1>4 DEF DrainSent, Carried
  <2> QED
    BY <1>1, <2>1, <2>2
<1>5. ASSUME NEW task \in Tasks, DrainSent(task) PROVE UNCHANGED <<store, discarded, queued, ahead>>
  BY <1>5 DEF DrainSent
<1>6. ASSUME WorkerStarts PROVE UNCHANGED <<store, history>>
  BY <1>6 DEF WorkerStarts, Prompt, QueueAction, Attach, Detach, QueueClear
<1>7. ASSUME Attached \/ BindingSaved \/ Snapshot \/ Detached \/ Required
      PROVE  UNCHANGED <<store, history>>
  BY <1>7 DEF Attached, BindingSaved, Snapshot, Detached, Required
<1>8. ASSUME TopicOn \/ TopicOff \/ TopicAttached \/ TopicSaved
      PROVE  UNCHANGED <<store, history>>
  BY <1>8 DEF TopicOn, TopicOff, TopicAttached, TopicSaved
<1>9. ASSUME PromptFails \/ AttachFails \/ TopicAttachFails \/ TakeEvent \/ Restart
      PROVE  UNCHANGED <<store, history>>
  BY <1>9 DEF PromptFails, AttachFails, TopicAttachFails, TakeEvent, Restart
<1>10. ASSUME NEW task \in Tasks, DrainList(task) \/ DrainSendFails(task) \/ Journaled(task)
       PROVE  UNCHANGED <<store, history>>
  BY <1>10 DEF DrainList, DrainSendFails, Journaled
<1>11. ASSUME NEW s \in Sessions, TurnEnds(s) \/ ForeignTurn(s)
       PROVE  UNCHANGED <<store, history>>
  BY <1>11 DEF TurnEnds, ForeignTurn
<1> QED
  BY <1>2, <1>3, <1>4, <1>5, <1>6, <1>7, <1>8, <1>9, <1>10, <1>11
     DEF Next, WorkerGoesOn, TopicGoesOn, DrainStep, StoreAction

\* Every step of the channel is a step of the table or leaves it alone.
LEMMA StoreSteps ==
  ASSUME Base, [Next]_vars
  PROVE  [Queue!Next]_store
<1> "worker" \in Tasks
  BY DEF Tasks
<1>1. CASE Enqueued
  <2> DEFINE f == at["worker"]
             new == CHOOSE r \in f.row : TRUE
  <2>1. f.row # {} /\ f.row \subseteq Written /\ f.sid \in Sessions
    BY <1>1 DEF Enqueued, Holds, Base, Sync, Threads, Fits
  <2>2. new \in f.row
    BY <2>1
  <2>3. new.id \in Prompts /\ new.text \in Texts
    BY <2>1, <2>2 DEF Written
  <2>4. Queue!Enqueue(new.id, f.sid, new.text)
    BY <1>1 DEF Enqueued
  <2> HIDE DEF new, f
  <2> QED
    BY <2>1, <2>3, <2>4 DEF Queue!Next
<1>2. CASE QueueEdited
  <2>1. Carried(at["worker"]) \in Prompts
    BY <1>2, WhoIsThere DEF QueueEdited, Holds, Base, Sync, Threads, Fits
  <2>2. \E text \in Texts : Queue!EditQueue(Carried(at["worker"]), text)
    BY <1>2 DEF QueueEdited, Carried
  <2> QED
    BY <2>1, <2>2 DEF Queue!Next
<1>3. CASE QueueMoved
  <2>1. Carried(at["worker"]) \in Prompts
    BY <1>3, WhoIsThere DEF QueueMoved, Holds, Base, Sync, Threads, Fits
  <2>2. \E place \in 0 .. Limit : Queue!MoveQueue(Carried(at["worker"]), place)
    BY <1>3 DEF QueueMoved, Carried
  <2> QED
    BY <2>1, <2>2 DEF Queue!Next
<1>4. CASE QueueDeleted
  <2>1. Carried(at["worker"]) \in Prompts
    BY <1>4, WhoIsThere DEF QueueDeleted, Holds, Base, Sync, Threads, Fits
  <2>2. Queue!DeleteQueue(Carried(at["worker"]))
    BY <1>4 DEF QueueDeleted, Carried
  <2> QED
    BY <2>1, <2>2 DEF Queue!Next
<1>5. CASE QueueCleared
  <2>1. at["worker"].sid \in Sessions
    BY <1>5 DEF QueueCleared, Holds, Base, Sync, Threads, Fits
  <2>2. Queue!ClearQueue(at["worker"].sid)
    BY <1>5 DEF QueueCleared
  <2> QED
    BY <2>1, <2>2 DEF Queue!Next
<1>6. ASSUME NEW task \in Tasks, DrainDelete(task) PROVE Queue!Next
  <2>1. Carried(at[task]) \in Prompts
    BY <1>6, WhoIsThere DEF DrainDelete, Holds, Base, Sync, Threads, Fits
  <2>2. Queue!DeleteQueue(Carried(at[task]))
    BY <1>6 DEF DrainDelete, Carried
  <2> QED
    BY <2>1, <2>2 DEF Queue!Next
<1>7. CASE UNCHANGED vars
  BY <1>7 DEF vars
<1> QED
  BY <1>1, <1>2, <1>3, <1>4, <1>5, <1>6, <1>7, Elsewhere DEF StoreAction

\* Which prompts are still known after one operation of the table.
LEMMA EnqueueKnows ==
  ASSUME NEW id, NEW l, NEW text, Queue!Enqueue(id, l, text)
  PROVE  /\ \A p : Queue!Known(p) => Queue!Known(p)'
         /\ outcome' = "ok" => Queue!Known(id)'
<1>1. CASE rows' = rows /\ outcome' # "ok"
  BY <1>1 DEF Queue!Known
<1>2. ASSUME NEW n, rows' = rows \cup {[id |-> id, list |-> l, position |-> n, text |-> text]}
      PROVE  /\ \A p : Queue!Known(p) => Queue!Known(p)'
             /\ Queue!Known(id)'
  <2>1. [id |-> id, list |-> l, position |-> n, text |-> text].id = id
    OBVIOUS
  <2>2. [id |-> id, list |-> l, position |-> n, text |-> text] \in rows'
    BY <1>2
  <2>3. rows \subseteq rows'
    BY <1>2
  <2> QED
    BY <2>1, <2>2, <2>3 DEF Queue!Known
<1> QED
  BY <1>1, <1>2 DEF Queue!Enqueue, Queue!Refuse

LEMMA EditKnows ==
  ASSUME TypedRows, NEW id, NEW text, Queue!EditQueue(id, text), NEW p, Queue!Known(p)
  PROVE  Queue!Known(p)'
<1>1. CASE rows' = rows
  BY <1>1 DEF Queue!Known
<1>2. CASE rows' = {IF r.id = id THEN [r EXCEPT !.text = text] ELSE r : r \in rows}
  <2>1. PICK r \in rows : r.id = p
    BY DEF Queue!Known
  <2>2. r \in Queue!Row
    BY DEF TypedRows
  <2>3. [r EXCEPT !.text = text].id = p
    BY <2>1, <2>2 DEF Queue!Row
  <2> QED
    BY <1>2, <2>1, <2>3 DEF Queue!Known
<1> QED
  BY <1>1, <1>2 DEF Queue!EditQueue, Queue!Refuse

LEMMA MoveKnows ==
  ASSUME TypedRows, NEW id, NEW place, Queue!MoveQueue(id, place), NEW p, Queue!Known(p)
  PROVE  Queue!Known(p)'
<1>1. CASE rows' = rows
  BY <1>1 DEF Queue!Known
<1>2. CASE rows' = {IF r.list = Queue!RowOf(id).list
                      THEN [r EXCEPT !.position = Queue!Place(r, id, place)]
                      ELSE r : r \in rows}
  <2>1. PICK r \in rows : r.id = p
    BY DEF Queue!Known
  <2>2. r \in Queue!Row
    BY DEF TypedRows
  <2>3. [r EXCEPT !.position = Queue!Place(r, id, place)].id = p
    BY <2>1, <2>2 DEF Queue!Row
  <2> QED
    BY <1>2, <2>1, <2>3 DEF Queue!Known
<1> QED
  BY <1>1, <1>2 DEF Queue!MoveQueue, Queue!Refuse

LEMMA DeleteKnows ==
  ASSUME TypedRows, NEW id, Queue!DeleteQueue(id), NEW p, Queue!Known(p),
         p # id \/ outcome' # "ok"
  PROVE  Queue!Known(p)'
<1>1. CASE rows' = rows
  BY <1>1 DEF Queue!Known
<1>2. CASE /\ Queue!Known(id) /\ outcome' = "ok"
           /\ rows' = {Queue!Shifted(r, Queue!RowOf(id)) : r \in rows \ {Queue!RowOf(id)}}
  <2>1. PICK r \in rows : r.id = p
    BY DEF Queue!Known
  <2>2. r \in Queue!Row
    BY DEF TypedRows
  <2>3. r # Queue!RowOf(id)
    BY <1>2, <2>1 DEF Queue!Known, Queue!RowOf
  <2>4. Queue!Shifted(r, Queue!RowOf(id)).id = p
    BY <2>1, <2>2 DEF Queue!Row, Queue!Shifted
  <2> QED
    BY <1>2, <2>1, <2>3, <2>4 DEF Queue!Known
<1> QED
  BY <1>1, <1>2 DEF Queue!DeleteQueue, Queue!Refuse

LEMMA ClearKnows ==
  ASSUME NEW l, Queue!ClearQueue(l), NEW p, Queue!Known(p)
  PROVE  Queue!Known(p)' \/ p \in {r.id : r \in Queue!RowsOf(l)}
  BY DEF Queue!ClearQueue, Queue!Known, Queue!RowsOf

\* A prompt that leaves the table has been accepted, or its owner removed it.
LEMMA NothingIsLost ==
  ASSUME Base, TypedRows, NothingLost, [Next]_vars
  PROVE  NothingLost'
<1> "worker" \in Tasks
  BY DEF Tasks
<1>1. /\ sent \in [Prompts -> Nat] /\ queued \subseteq Prompts
  BY DEF Base, Scalars
<1>2. CASE Enqueued
  <2> DEFINE new == CHOOSE r \in at["worker"].row : TRUE
  <2>1. PICK id, l, text : id = new.id /\ l = at["worker"].sid /\ text = new.text
    OBVIOUS
  <2>2. Queue!Enqueue(id, l, text)
    BY <1>2, <2>1 DEF Enqueued
  <2>3. \/ queued' = queued
        \/ outcome' = "ok" /\ queued' = queued \cup {id}
    BY <1>2, <2>1 DEF Enqueued
  <2>4. sent' = sent /\ discarded' = discarded
    BY <1>2 DEF Enqueued
  <2> HIDE DEF new
  <2>5. /\ \A p : Queue!Known(p) => Queue!Known(p)'
        /\ outcome' = "ok" => Queue!Known(id)'
    BY <2>2, EnqueueKnows
  <2> QED
    BY <2>3, <2>4, <2>5 DEF NothingLost
<1>3. CASE QueueEdited
  BY <1>3, EditKnows DEF QueueEdited, NothingLost, history
<1>4. CASE QueueMoved
  BY <1>4, MoveKnows DEF QueueMoved, NothingLost, history
<1>5. CASE QueueDeleted
  <2> DEFINE p == Carried(at["worker"])
  <2>1. Queue!DeleteQueue(p)
    BY <1>5 DEF QueueDeleted, Carried
  <2>2. discarded' = IF outcome' = "ok" THEN discarded \cup {p} ELSE discarded
    BY <1>5 DEF QueueDeleted, Carried
  <2>3. sent' = sent /\ queued' = queued
    BY <1>5 DEF QueueDeleted
  <2> HIDE DEF p
  <2> QED
    BY <2>1, <2>2, <2>3, DeleteKnows DEF NothingLost
<1>6. CASE QueueCleared
  <2>1. \A p : Queue!Known(p) => Queue!Known(p)' \/ p \in discarded'
    BY <1>6, ClearKnows DEF QueueCleared
  <2>2. discarded \subseteq discarded' /\ sent' = sent /\ queued' = queued
    BY <1>6 DEF QueueCleared
  <2> QED
    BY <2>1, <2>2 DEF NothingLost
<1>7. ASSUME NEW task \in Tasks, DrainDelete(task) PROVE NothingLost'
  <2> DEFINE p == Carried(at[task])
  <2>1. Queue!DeleteQueue(p)
    BY <1>7 DEF DrainDelete, Carried
  <2>2. sent[p] > 0
    BY <1>7 DEF DrainDelete, Holds, Base, Sync, Delivered
  <2>3. sent' = sent /\ queued' = queued /\ discarded' = discarded
    BY <1>7 DEF DrainDelete, history
  <2> HIDE DEF p
  <2> QED
    BY <2>1, <2>2, <2>3, DeleteKnows DEF NothingLost
<1>8. CASE /\ UNCHANGED <<store, discarded, queued>>
           /\ \A p \in Prompts : sent'[p] >= sent[p]
           /\ sent' \in [Prompts -> Nat]
  <2> SUFFICES ASSUME NEW p \in queued
               PROVE  Queue!Known(p)' \/ sent'[p] > 0 \/ p \in discarded'
    BY <1>8 DEF NothingLost
  <2>1. p \in Prompts /\ sent[p] \in Nat /\ sent'[p] \in Nat /\ sent'[p] >= sent[p]
    BY <1>1, <1>8
  <2>2. Queue!Known(p) <=> Queue!Known(p)'
    BY <1>8 DEF Queue!Known, store
  <2> QED
    BY <1>8, <2>1, <2>2 DEF NothingLost
<1>9. CASE UNCHANGED vars
  BY <1>9 DEF vars, store, history, NothingLost, Queue!Known
<1>10. CASE Next /\ ~StoreAction
  <2>1. sent' \in [Prompts -> Nat]
    BY <1>10, BaseStep DEF Base, Scalars, TypedRows
  <2> QED
    BY <1>8, <1>10, <2>1, Elsewhere
<1> QED
  BY <1>2, <1>3, <1>4, <1>5, <1>6, <1>7, <1>9, <1>10 DEF StoreAction
-----------------------------------------------------------------------------
(* The invariant, and what follows from it.                                *)

LEMMA StepInv ==
  ASSUME Queue!LimitBounds, IInv, [Next]_vars
  PROVE  IInv'
<1>1. Base /\ TypedRows
  BY FactsType DEF IInv, Base, Sync
<1>2. Base'
  BY <1>1, BaseStep DEF TypedRows
<1>3. Facts!IInv'
  BY <1>1, StoreSteps, TableStep DEF IInv
<1>4. NothingLost'
  BY <1>1, NothingIsLost DEF IInv
<1> QED
  BY <1>2, <1>3, <1>4 DEF IInv, Base, Sync

LEMMA InitInv == Init => IInv
<1> SUFFICES ASSUME Init PROVE IInv
  OBVIOUS
<1>1. /\ Rest \in Frame /\ Fits(Rest) /\ Rest.obj = 0 /\ Rest.pc = "idle"
      /\ Rest.pc \notin Waits /\ Rest.pc \notin Writers
  BY DEF Rest, Frame, Fits, Calls, Waits, Drains, Writers
<1>2. \A t \in Tasks : at[t] = Rest
  BY DEF Init
<1>3. lockq = << >> /\ lockq \in Seq(Tasks) /\ DOMAIN lockq = {}
  BY DEF Init
<1>4. Threads
  BY <1>1, <1>2, <1>3 DEF Init, Threads
<1>5. Captures /\ LoopReads /\ Delivered
  BY <1>1, <1>2 DEF Captures, Agrees, LoopReads, Delivered, Tasks
<1>6. BindOrder
  BY <1>3 DEF BindOrder, LastWriter, Init, Unbound
<1>7. turns \in [Sessions -> Seq(Prompts \cup {Foreign})]
  <2>1. << >> \in Seq(Prompts \cup {Foreign})
    OBVIOUS
  <2> QED
    BY <2>1 DEF Init
<1>8. Scalars
  <2>1. lastGen \in 0 .. MaxTopics /\ activation \in 0 .. lastGen
    BY NamesAssumption DEF Init
  <2>2. deferred \in Seq(Events) /\ todo \in Seq(Events) /\ events \in Seq(Events)
    BY DEF Init
  <2>3. sent \in [Prompts -> Nat] /\ discarded \subseteq Prompts /\ queued \subseteq Prompts
    BY DEF Init
  <2> QED
    BY <1>7, <2>1, <2>2, <2>3 DEF Init, Scalars
<1>9. Facts!Init
  BY DEF Init, Queue!Init, Facts!Init
<1>10. Facts!IInv
  BY <1>9, Facts!InitInv
<1> QED
  BY <1>4, <1>5, <1>6, <1>8, <1>10 DEF IInv, NothingLost, Init

\* The invariant holds in every state the channel can reach.
THEOREM Invariance == ASSUME Queue!LimitBounds PROVE Spec => []IInv
<1>1. Init => IInv
  BY InitInv
<1>2. IInv /\ [Next]_vars => IInv'
  BY StepInv
<1> QED
  BY <1>1, <1>2, PTL DEF Spec

\* The durable binding is the one in memory whenever neither the worker nor the
\* topic handler is under way (_set_binding, _handle_topic), so a restart
\* restores what was last bound, whichever of the two bound it.
THEOREM BindingsAreSaved == ASSUME Queue!LimitBounds PROVE Spec => []BindingIsSaved
<1>1. IInv => BindingIsSaved
  <2> SUFFICES ASSUME IInv, Ready("worker"), Ready("topic") PROVE saved = binding.sid
    BY DEF BindingIsSaved
  <2>1. \A t \in Tasks : at[t].pc \notin Writers
    BY DEF IInv, LoopReads, Ready, Writers, Tasks
  <2>2. \A i \in DOMAIN lockq : lockq[i] \in Tasks
    BY DEF IInv, Threads
  <2> QED
    BY <2>1, <2>2 DEF IInv, BindOrder
<1> QED
  BY <1>1, Invariance, PTL

\* A queued prompt is in the table until the backend has accepted it or its
\* owner has removed it: through failed sends and failed deletes, rebinding,
\* suspension, two drains at once and restarts (_drain_queue, _delete_queue).
THEOREM NoPromptIsLost == ASSUME Queue!LimitBounds PROVE Spec => []NothingLost
<1>1. IInv => NothingLost
  BY DEF IInv
<1> QED
  BY <1>1, Invariance, PTL

\* Where a task is only sent by the actions named here: _drain_queue's comparison,
\* turn.prompt, and the queue actions.
Watched == {"send", "prompt", "enqueue", "require", "move"}

\* The continuations lead nowhere of that sort.
LEMMA GoesElsewhere ==
  ASSUME NEW task \in Tasks, NEW q, NEW t \in Tasks, at \in [Tasks -> Frame],
         at'[t].pc \in Watched,
         \/ Finish(task, q)
         \/ TurnDone(task, q)
         \/ \E isBusy : Continue(task, isBusy, q) \/ StartDrain(task, isBusy, q)
         \/ \E es, isBusy : GoOn(task, es, isBusy, q)
  PROVE  at'[t] = at[t]
<1>1. ASSUME NEW frame, frame.pc \notin Watched, at' = [at EXCEPT ![task] = frame]
      PROVE  at'[t] = at[t]
  BY <1>1
<1>2. ASSUME Finish(task, q) PROVE at'[t] = at[t]
  BY <1>1, <1>2 DEF Finish, Rest, Watched
<1>3. ASSUME ClaimDrain(task, q) PROVE at'[t] = at[t]
  <2> DEFINE frame == [Awaiting("list", binding.sid) EXCEPT !.obj = binding.obj,
                                                            !.gen = activation]
  <2>1. frame.pc = "list" /\ at' = [at EXCEPT ![task] = frame]
    BY <1>3 DEF ClaimDrain, Wait, Awaiting, Rest
  <2> HIDE DEF frame
  <2> QED
    BY <1>1, <2>1 DEF Watched
<1>4. ASSUME TurnDone(task, q) PROVE at'[t] = at[t]
  <2>1. Awaiting("journal", binding.sid).pc \notin Watched
    BY DEF Awaiting, Rest, Watched
  <2> QED
    BY <1>1, <1>3, <1>4, <2>1 DEF TurnDone, Wait
<1>5. ASSUME NEW es, NEW isBusy, GoOn(task, es, isBusy, q) PROVE at'[t] = at[t]
  BY <1>2, <1>4, <1>5 DEF GoOn
<1>6. ASSUME NEW isBusy, Continue(task, isBusy, q) PROVE at'[t] = at[t]
  BY <1>2, <1>5, <1>6 DEF Continue
<1>7. ASSUME NEW isBusy, StartDrain(task, isBusy, q) PROVE at'[t] = at[t]
  BY <1>3, <1>6, <1>7 DEF StartDrain
<1> QED
  BY <1>2, <1>4, <1>5, <1>6, <1>7

\* The drain of task t has read the head of the queue and will send it.
Reads(t) ==
    /\ at[t].pc = "list" /\ at'[t].pc = "send"
    /\ at'[t].sid = at[t].sid /\ at'[t].row = Head1(at[t].sid) /\ at'[t].row # {}
    /\ activation = at[t].gen /\ binding.obj = at[t].obj
\* turn.prompt has begun with prompt p.
Submits(p) ==
    /\ Carried(at'["worker"]) = p /\ at'["worker"].pc \in {"prompt", "enqueue"}
    /\ Prompt(p)
\* queue.edit, queue.delete or queue.move has begun.
Asks ==
    /\ at'["worker"].pc = "require"
    /\ \A r \in at'["worker"].row : r.then = "move" => Reordering
\* The item was found.
Found ==
    /\ at["worker"].pc = "require" /\ at'["worker"].pc # "require"
    /\ \E r \in at["worker"].row : at'["worker"].pc = r.then

LEMMA Arrives ==
  ASSUME Base, [Next]_vars, NEW t \in Tasks, at'[t].pc \in Watched, at'[t] # at[t]
  PROVE  \/ Reads(t)
         \/ t = "worker" /\ ((\E p \in Prompts : Submits(p)) \/ Asks \/ Found)
<1> /\ "worker" \in Tasks /\ "topic" \in Tasks /\ "backend" \in Tasks
    /\ at \in [Tasks -> Frame]
  BY DEF Tasks, Base, Sync, Threads
<1>0. \A pc, sid : Awaiting(pc, sid).pc = pc
  BY DEF Awaiting, Rest
<1>1. ASSUME NEW task \in Tasks, DrainList(task) PROVE Reads(t)
  <2> DEFINE f == at[task]
             head == Head1(f.sid)
             frame == [f EXCEPT !.pc = "send", !.row = head]
  <2>1. f.pc = "list" /\ f \in Frame
    BY <1>1 DEF DrainList, Holds
  <2>2. CASE /\ activation = f.gen /\ binding.obj = f.obj /\ head # {}
             /\ Call(task, frame, Tail(lockq))
    <3>1. /\ frame.sid = f.sid /\ frame.pc = "send" /\ frame.row = head
          /\ at' = [at EXCEPT ![task] = frame]
      BY <2>1, <2>2 DEF Call, Frame
    <3> HIDE DEF frame
    <3>2. t = task
      BY <3>1
    <3> QED
      BY <2>1, <2>2, <3>1, <3>2 DEF Reads
  <2>3. CASE \E isBusy : Continue(task, isBusy, Tail(lockq))
    BY <2>3, GoesElsewhere
  <2> QED
    BY <1>1, <2>2, <2>3 DEF DrainList
<1>2. ASSUME NEW task \in Tasks, NEW frame, at' = [at EXCEPT ![task] = frame]
      PROVE  frame.pc \in Watched /\ t = task /\ at'[t] = frame
  BY <1>2
<1>3. ASSUME NEW p \in Prompts, Prompt(p) PROVE t = "worker" /\ Submits(p)
  <2>1. PICK text \in Texts :
           LET f == [Awaiting("prompt", binding.sid)
                       EXCEPT !.row = {[id |-> p, text |-> text]}]
           IN  IF busy THEN Wait("worker", [f EXCEPT !.pc = "enqueue"], lockq)
               ELSE Call("worker", f, lockq)
    BY <1>3 DEF Prompt
  <2> DEFINE f == [Awaiting("prompt", binding.sid) EXCEPT !.row = {[id |-> p, text |-> text]}]
             g == [f EXCEPT !.pc = "enqueue"]
  <2>2. /\ f.pc = "prompt" /\ f.row = {[id |-> p, text |-> text]}
        /\ g.pc = "enqueue" /\ g.row = {[id |-> p, text |-> text]}
    BY DEF Awaiting, Rest
  <2>3. \/ at' = [at EXCEPT !["worker"] = f]
        \/ at' = [at EXCEPT !["worker"] = g]
    BY <2>1 DEF Wait, Call
  <2> HIDE DEF f, g
  <2>4. /\ t = "worker" /\ at'["worker"].row = {[id |-> p, text |-> text]}
        /\ at'["worker"].pc \in {"prompt", "enqueue"}
    BY <1>2, <2>2, <2>3
  <2>5. \A r \in at'["worker"].row : r.id = p
    BY <2>4
  <2>6. Carried(at'["worker"]) = p
    <3> DEFINE w == at'["worker"]
    <3>1. (CHOOSE r \in w.row : TRUE) \in w.row
      BY <2>4
    <3> HIDE DEF w
    <3>2. \A r \in w.row : r.id = p
      BY <2>5 DEF w
    <3>3. Carried(w) = p
      BY <3>1, <3>2 DEF Carried
    <3> QED
      BY <3>3 DEF w
  <2> QED
    BY <1>3, <2>4, <2>6 DEF Submits
<1>4. ASSUME NEW p, NEW pc, QueueAction(p, pc), pc = "move" => Reordering
      PROVE  t = "worker" /\ Asks
  <2> DEFINE f == [Awaiting("require", binding.sid) EXCEPT !.row = {[id |-> p, then |-> pc]}]
  <2>1. f.pc = "require" /\ f.row = {[id |-> p, then |-> pc]}
    BY DEF Awaiting, Rest
  <2>2. at' = [at EXCEPT !["worker"] = f]
    BY <1>4 DEF QueueAction, Wait
  <2> HIDE DEF f
  <2> QED
    BY <1>2, <1>4, <2>1, <2>2 DEF Asks
<1>5. ASSUME WorkerStarts
      PROVE  t = "worker" /\ ((\E p \in Prompts : Submits(p)) \/ Asks)
  <2>1. ASSUME NEW s \in Sessions, Attach(s) PROVE FALSE
    BY <1>0, <1>2, <2>1 DEF Attach, Call, Watched
  <2>2. ASSUME Detach \/ QueueClear PROVE FALSE
    BY <1>0, <1>2, <2>2 DEF Detach, QueueClear, Wait, Watched
  <2> QED
    BY <1>3, <1>4, <1>5, <2>1, <2>2 DEF WorkerStarts
<1>6. ASSUME Attached \/ BindingSaved \/ TopicAttached PROVE FALSE
  BY <1>0, <1>2, <1>6 DEF Attached, BindingSaved, TopicAttached, Wait, Watched
<1>7. ASSUME Required PROVE t = "worker" /\ Found
  <2> DEFINE f == at["worker"]
             want == CHOOSE r \in f.row : TRUE
             frame == [f EXCEPT !.pc = want.then]
  <2>1. f \in Frame /\ f.row # {} /\ f.row \subseteq Wanted /\ f.pc = "require"
    BY <1>7 DEF Required, Holds, Base, Sync, Threads, Fits
  <2>2. want \in f.row
    BY <2>1
  <2>3. want.then # "require"
    BY <2>1, <2>2 DEF Wanted
  <2>4. frame.pc = want.then
    BY <2>1 DEF Frame
  <2>5. CASE Wait("worker", frame, Tail(lockq))
    <3>1. at' = [at EXCEPT !["worker"] = frame]
      BY <2>5 DEF Wait
    <3> HIDE DEF frame, want
    <3>2. t = "worker" /\ at'["worker"] = frame
      BY <1>2, <3>1
    <3> QED
      BY <2>1, <2>2, <2>3, <2>4, <3>2 DEF Found
  <2>6. CASE Finish("worker", Tail(lockq))
    BY <2>6, GoesElsewhere
  <2> HIDE DEF frame
  <2> QED
    BY <1>7, <2>5, <2>6 DEF Required, frame
<1>8. ASSUME \/ Enqueued \/ PromptSent \/ Snapshot \/ Detached \/ QueueEdited \/ QueueMoved
             \/ QueueDeleted \/ QueueCleared \/ PromptFails \/ AttachFails
      PROVE  FALSE
  <2>1. Finish("worker", lockq) \/ Finish("worker", Tail(lockq))
        \/ GoOn("worker", deferred, busy, Tail(lockq))
    BY <1>8 DEF Enqueued, PromptSent, Snapshot, Detached, QueueEdited, QueueMoved,
                QueueDeleted, QueueCleared, PromptFails, AttachFails
  <2> QED
    BY <2>1, GoesElsewhere
<1>9. ASSUME TopicOn PROVE FALSE
  <2>1. CASE Finish("topic", lockq)
    BY <2>1, GoesElsewhere
  <2>2. CASE Call("topic", Awaiting("attach", binding.sid), lockq)
    BY <1>0, <1>2, <2>2 DEF Call, Watched
  <2> QED
    BY <1>9, <2>1, <2>2 DEF TopicOn
<1>10. ASSUME TopicAttachFails \/ TopicSaved PROVE FALSE
  BY <1>10, GoesElsewhere DEF TopicAttachFails, TopicSaved
<1>11. ASSUME TakeEvent PROVE FALSE
  <2>1. CASE TurnDone("backend", lockq)
    BY <2>1, GoesElsewhere
  <2>2. CASE at' = at
    BY <2>2
  <2> QED
    BY <1>11, <2>1, <2>2 DEF TakeEvent
<1>12. ASSUME NEW task \in Tasks, DrainSendFails(task) \/ DrainDelete(task) \/ Journaled(task)
       PROVE  FALSE
  BY <1>12, GoesElsewhere DEF DrainSendFails, DrainDelete, Journaled
<1>13. ASSUME NEW task \in Tasks, DrainSent(task) PROVE FALSE
  <2> DEFINE frame == [at[task] EXCEPT !.pc = "delete"]
  <2>1. frame.pc \notin Watched
    BY DEF Frame, Watched
  <2>2. at' = [at EXCEPT ![task] = frame]
    BY <1>13 DEF DrainSent, Wait
  <2> HIDE DEF frame
  <2> QED
    BY <1>2, <2>1, <2>2
<1>14. ASSUME at' = at PROVE FALSE
  BY <1>14
<1>15. ASSUME Restart PROVE FALSE
  BY <1>15 DEF Restart, Rest, Watched
<1>16. ASSUME NEW s \in Sessions, TurnEnds(s) \/ ForeignTurn(s) PROVE FALSE
  BY <1>14, <1>16 DEF TurnEnds, ForeignTurn
<1> QED
  BY <1>1, <1>5, <1>6, <1>7, <1>8, <1>9, <1>10, <1>11, <1>12, <1>13, <1>14, <1>15, <1>16
     DEF Next, WorkerGoesOn, TopicGoesOn, DrainStep, TopicOff, vars

\* A drain calls the backend only after it compared activation and binding.
LEMMA SendsHere ==
  ASSUME Base, [Next]_vars, NEW t \in Tasks, at'[t].pc = "send", at[t].pc # "send"
  PROVE  activation # 0 /\ at'[t].sid = binding.sid
<1>1. Reads(t)
  BY Arrives DEF Watched, Submits, Asks, Found, Base, Sync, Threads, Fits, Wanted
<1>2. Fits(at[t]) /\ Agrees(at[t])
  BY DEF Base, Sync, Threads, Captures
<1> QED
  BY <1>1, <1>2 DEF Reads, Fits, Agrees, Drains

\* A drain sends a queued prompt only while the channel is active and bound to
\* the session whose queue it read: suspension pauses draining, and no prompt
\* drains into a replacement binding (_drain_queue).
THEOREM DrainsStayWhereTheyAre ==
  ASSUME Queue!LimitBounds PROVE Spec => DrainsOnlyBoundAndActive
<1>1. IInv /\ [Next]_vars =>
         [\A t \in Tasks :
            at'[t].pc = "send" /\ at[t].pc # "send" =>
              activation # 0 /\ at'[t].sid = binding.sid]_vars
  BY SendsHere DEF IInv, Base, Sync
<1> QED
  BY <1>1, Invariance, PTL DEF Spec, DrainsOnlyBoundAndActive
-----------------------------------------------------------------------------
(* Without queue.move, prompts are delivered in the order of the queue.    *)

\* The prompt has been accepted, or its owner has removed it.
Done(q) == sent[q] > 0 \/ q \in discarded

\* What was ahead of a prompt in the table is done, or is still ahead of it.
Lined(r) ==
    \A q \in ahead[r.id] :
        Done(q) \/ \E s \in rows : s.id = q /\ s.list = r.list /\ s.position < r.position
InLine == \A r \in rows : r.id \in queued /\ Lined(r)
\* All that was ahead of a prompt a drain has read is done.
Claimed ==
    \A t \in Tasks : at[t].pc = "send" =>
        Carried(at[t]) \in queued /\ \A q \in ahead[Carried(at[t])] : Done(q)
\* A prompt that is being submitted is new.
Unqueued ==
    at["worker"].pc \in {"prompt", "enqueue"} =>
        Carried(at["worker"]) \notin queued /\ sent[Carried(at["worker"])] = 0
NeverMoves ==
    /\ at["worker"].pc # "move"
    /\ at["worker"].pc = "require" => \A r \in at["worker"].row : r.then # "move"

Order ==
    /\ ahead \in [Prompts -> SUBSET Prompts]
    /\ InLine /\ Claimed /\ Unqueued /\ NeverMoves /\ DeliveredInOrder

\* Who a prompt is sent by.
LEMMA SentBy ==
  ASSUME Base, [Next]_vars, NEW p \in Prompts, sent'[p] # sent[p]
  PROVE  \/ \E t \in Tasks : at[t].pc = "send" /\ p = Carried(at[t])
         \/ at["worker"].pc = "prompt" /\ p = Carried(at["worker"]) /\ at'["worker"] = Rest
<1>1. /\ sent \in [Prompts -> Nat] /\ "worker" \in Tasks /\ at \in [Tasks -> Frame]
  BY DEF Base, Scalars, Sync, Threads, Tasks
<1>2. CASE sent' = sent
  BY <1>2
<1>3. CASE PromptSent
  <2>1. sent' = [sent EXCEPT ![Carried(at["worker"])] = @ + 1] /\ at["worker"].pc = "prompt"
        /\ at'["worker"] = Rest
    BY <1>1, <1>3 DEF PromptSent, Carried, Finish
  <2> QED
    BY <1>1, <2>1
<1>4. ASSUME NEW t \in Tasks, DrainSent(t)
      PROVE  \E u \in Tasks : at[u].pc = "send" /\ p = Carried(at[u])
  <2>1. sent' = [sent EXCEPT ![Carried(at[t])] = @ + 1] /\ at[t].pc = "send"
    BY <1>4 DEF DrainSent, Carried
  <2> QED
    BY <1>1, <2>1
<1>5. ASSUME WorkerStarts PROVE sent' = sent
  BY <1>5 DEF WorkerStarts, Prompt, QueueAction, Attach, Detach, QueueClear, history
<1>6. ASSUME \/ Attached \/ BindingSaved \/ Snapshot \/ Detached \/ Required \/ Enqueued
             \/ QueueEdited \/ QueueMoved \/ QueueDeleted \/ QueueCleared
      PROVE  sent' = sent
  BY <1>6 DEF Attached, BindingSaved, Snapshot, Detached, Required, Enqueued, QueueEdited,
              QueueMoved, QueueDeleted, QueueCleared, history
<1>7. ASSUME TopicOn \/ TopicOff \/ TopicAttached \/ TopicSaved PROVE sent' = sent
  BY <1>7 DEF TopicOn, TopicOff, TopicAttached, TopicSaved, history
<1>8. ASSUME PromptFails \/ AttachFails \/ TopicAttachFails \/ TakeEvent \/ Restart
      PROVE  sent' = sent
  BY <1>8 DEF PromptFails, AttachFails, TopicAttachFails, TakeEvent, Restart, history
<1>9. ASSUME NEW t \in Tasks, \/ DrainList(t) \/ DrainSendFails(t) \/ Journaled(t)
                              \/ DrainDelete(t)
      PROVE  sent' = sent
  BY <1>9 DEF DrainList, DrainSendFails, Journaled, DrainDelete, history
<1>10. ASSUME NEW s \in Sessions, TurnEnds(s) \/ ForeignTurn(s) PROVE sent' = sent
  BY <1>10 DEF TurnEnds, ForeignTurn, history
<1>11. CASE UNCHANGED vars
  BY <1>2, <1>11 DEF vars, history
<1> QED
  BY <1>2, <1>3, <1>4, <1>5, <1>6, <1>7, <1>8, <1>9, <1>10, <1>11
     DEF Next, WorkerGoesOn, TopicGoesOn, DrainStep

\* The operations of the table that the channel performs without queue.move, as
\* far as the order of prompts goes.
Appends(id, l) ==
    \E new : /\ rows' = rows \cup {new} /\ new.id = id /\ new.list = l
             /\ \A s \in Queue!RowsOf(l) : s.position < new.position
Keeps(kept, f) ==
    /\ rows' = {f[r] : r \in kept} /\ kept \subseteq rows
    /\ \A r \in kept : f[r].id = r.id /\ f[r].list = r.list
    /\ \A r, s \in kept : r.list = s.list /\ s.position < r.position =>
                            f[s].position < f[r].position

LEMMA EnqueueOrders ==
  ASSUME Facts!IInv, NEW id, NEW l, NEW text, Queue!Enqueue(id, l, text)
  PROVE  \/ rows' = rows /\ outcome' # "ok"
         \/ outcome' = "ok" /\ Appends(id, l)
<1>1. CASE Queue!Refuse("limit") \/ Queue!Refuse("integrity")
  BY <1>1 DEF Queue!Refuse
<1>2. ASSUME NEW n, n = Queue!Cardinality(Queue!RowsOf(l)), outcome' = "ok",
             rows' = rows \cup {[id |-> id, list |-> l, position |-> n, text |-> text]}
      PROVE  outcome' = "ok" /\ Appends(id, l)
  <2>1. \A s \in Queue!RowsOf(l) : s.position < n
    BY <1>2, SameTable DEF Facts!IInv, Facts!Bounded, Queue!RowsOf
  <2> DEFINE new == [id |-> id, list |-> l, position |-> n, text |-> text]
  <2>2. new.id = id /\ new.list = l /\ new.position = n
    OBVIOUS
  <2>3. rows' = rows \cup {new}
    BY <1>2
  <2> HIDE DEF new
  <2> QED
    BY <1>2, <2>1, <2>2, <2>3 DEF Appends
<1> QED
  BY <1>1, <1>2 DEF Queue!Enqueue

LEMMA EditOrders ==
  ASSUME Facts!IInv, NEW id, NEW text, Queue!EditQueue(id, text)
  PROVE  \E f : Keeps(rows, f)
<1>1. CASE rows' = rows
  <2> DEFINE f == [r \in rows |-> r]
  <2>1. Keeps(rows, f)
    BY <1>1 DEF Keeps
  <2> QED
    BY <2>1
<1>2. CASE rows' = {IF r.id = id THEN [r EXCEPT !.text = text] ELSE r : r \in rows}
  <2> DEFINE f == [r \in rows |-> IF r.id = id THEN [r EXCEPT !.text = text] ELSE r]
  <2>1. \A r \in rows : /\ r \in Queue!Row
                        /\ f[r].id = r.id /\ f[r].list = r.list /\ f[r].position = r.position
    BY FactsType DEF TypedRows, Queue!Row
  <2>2. rows' = {f[r] : r \in rows}
    BY <1>2
  <2> HIDE DEF f
  <2>3. Keeps(rows, f)
    BY <2>1, <2>2 DEF Keeps
  <2> QED
    BY <2>3
<1> QED
  BY <1>1, <1>2 DEF Queue!EditQueue, Queue!Refuse

LEMMA DeleteOrders ==
  ASSUME Facts!IInv, NEW id, Queue!DeleteQueue(id)
  PROVE  \/ rows' = rows /\ outcome' # "ok"
         \/ outcome' = "ok" /\ \E f : Keeps({r \in rows : r.id # id}, f)
<1>1. CASE rows' = rows /\ outcome' # "ok"
  BY <1>1
<1>2. CASE /\ Queue!Known(id) /\ outcome' = "ok"
           /\ rows' = {Queue!Shifted(r, Queue!RowOf(id)) : r \in rows \ {Queue!RowOf(id)}}
  <2> DEFINE kept == {r \in rows : r.id # id}
             gone == Queue!RowOf(id)
             f == [r \in kept |-> Queue!Shifted(r, gone)]
  <2>1. gone \in rows /\ gone.id = id
    BY <1>2 DEF Queue!Known, Queue!RowOf
  <2>2. kept = rows \ {gone}
    BY <2>1 DEF Facts!IInv, Facts!TypeOK
  <2>3. \A r \in rows : r \in Queue!Row /\ r.position \in Nat
    BY FactsType DEF TypedRows, Queue!Row
  <2>4. \A r \in kept : /\ f[r].id = r.id /\ f[r].list = r.list
                        /\ f[r].position = IF r.list = gone.list /\ r.position > gone.position
                                           THEN r.position - 1 ELSE r.position
    BY <2>3 DEF Queue!Shifted, Queue!Row
  <2>5. \A r \in kept : r.list = gone.list => r.position # gone.position
    BY <2>1 DEF Facts!IInv, Facts!Unique
  <2>6. rows' = {f[r] : r \in kept}
    BY <1>2, <2>2
  <2> HIDE DEF f, gone
  <2>7. \A r, s \in kept : r.list = s.list /\ s.position < r.position =>
                             f[s].position < f[r].position
    <3> TAKE r, s \in kept
    <3> HAVE r.list = s.list /\ s.position < r.position
    <3>1. r.position \in Nat /\ s.position \in Nat /\ gone.position \in Nat
      BY <2>1, <2>3
    <3>2. CASE r.list = gone.list
      <4>1. r.position # gone.position /\ s.position # gone.position
        BY <2>5, <3>2
      <4>2. /\ f[r].position = IF r.position > gone.position THEN r.position - 1 ELSE r.position
            /\ f[s].position = IF s.position > gone.position THEN s.position - 1 ELSE s.position
        BY <2>4, <3>2
      <4> QED
        BY <3>1, <4>1, <4>2
    <3>3. CASE r.list # gone.list
      BY <2>4, <3>3
    <3> QED
      BY <3>2, <3>3
  <2>8. Keeps(kept, f)
    BY <2>4, <2>6, <2>7 DEF Keeps
  <2> QED
    BY <1>2, <2>8
<1> QED
  BY <1>1, <1>2 DEF Queue!DeleteQueue, Queue!Refuse

LEMMA ClearOrders ==
  ASSUME NEW l, Queue!ClearQueue(l)
  PROVE  \E f : Keeps({r \in rows : r.list # l}, f)
<1> DEFINE kept == {r \in rows : r.list # l}
           f == [r \in kept |-> r]
<1>1. rows' = {f[r] : r \in kept}
  BY DEF Queue!ClearQueue, Queue!RowsOf
<1>2. Keeps(kept, f)
  BY <1>1 DEF Keeps
<1> QED
  BY <1>2

\* What is done stays done, and what was ahead of a queued prompt stays the same.
LEMMA DoneStays ==
  ASSUME Base, TypedRows, Order, [Next]_vars
  PROVE  /\ \A q \in Prompts : Done(q) => Done(q)'
         /\ queued \subseteq queued'
         /\ \A p \in queued : ahead'[p] = ahead[p]
         /\ ahead' \in [Prompts -> SUBSET Prompts] \/ Enqueued
<1> "worker" \in Tasks
  BY DEF Tasks
<1>1. /\ sent \in [Prompts -> Nat] /\ queued \subseteq Prompts
      /\ ahead \in [Prompts -> SUBSET Prompts]
  BY DEF Base, Scalars, Order
<1>2. CASE Enqueued
  <2> DEFINE p == Carried(at["worker"])
  <2>1. /\ sent' = sent /\ discarded' = discarded
        /\ \/ queued' = queued /\ ahead' = ahead
           \/ /\ queued' = queued \cup {p}
              /\ \E S : ahead' = [ahead EXCEPT ![p] = S]
    BY <1>2 DEF Enqueued, Carried
  <2>2. p \notin queued
    BY <1>2 DEF Enqueued, Holds, Order, Unqueued
  <2> HIDE DEF p
  <2>3. \A x \in queued : ahead'[x] = ahead[x]
    BY <1>1, <2>1, <2>2
  <2> QED
    BY <1>2, <2>1, <2>3 DEF Done
<1>3. CASE UNCHANGED <<sent, queued, ahead>> /\ discarded \subseteq discarded'
  BY <1>1, <1>3 DEF Done
<1>4. ASSUME \/ QueueEdited \/ QueueMoved \/ QueueDeleted \/ QueueCleared
             \/ \E task \in Tasks : DrainDelete(task)
      PROVE  UNCHANGED <<sent, queued, ahead>> /\ discarded \subseteq discarded'
  BY <1>4 DEF QueueEdited, QueueMoved, QueueDeleted, QueueCleared, DrainDelete, history
<1>5. CASE /\ UNCHANGED <<discarded, queued, ahead>>
           /\ \A p \in Prompts : sent'[p] >= sent[p]
           /\ sent' \in [Prompts -> Nat]
  <2>1. ASSUME NEW q \in Prompts, Done(q) PROVE Done(q)'
    <3>1. sent[q] \in Nat /\ sent'[q] \in Nat /\ sent'[q] >= sent[q]
      BY <1>1, <1>5
    <3> QED
      BY <1>5, <2>1, <3>1 DEF Done
  <2> QED
    BY <1>1, <1>5, <2>1
<1>6. CASE Next /\ ~StoreAction
  <2>1. sent' \in [Prompts -> Nat]
    BY <1>6, BaseStep DEF Base, Scalars, TypedRows
  <2> QED
    BY <1>5, <1>6, <2>1, Elsewhere
<1>7. CASE UNCHANGED vars
  BY <1>3, <1>7 DEF vars, history
<1> QED
  BY <1>2, <1>3, <1>4, <1>6, <1>7 DEF StoreAction

\* Only turn.prompt queues prompts.
LEMMA QueuedBy ==
  ASSUME Base, [Next]_vars, ~Enqueued
  PROVE  queued' = queued
<1>1. CASE \/ QueueEdited \/ QueueMoved \/ QueueDeleted \/ QueueCleared
           \/ \E task \in Tasks : DrainDelete(task)
  BY <1>1 DEF QueueEdited, QueueMoved, QueueDeleted, QueueCleared, DrainDelete, history
<1>2. CASE UNCHANGED vars
  BY <1>2 DEF vars, history
<1> QED
  BY <1>1, <1>2, Elsewhere DEF StoreAction

LEMMA ClaimedStays ==
  ASSUME Base, TypedRows, Order, [Next]_vars
  PROVE  Claimed'
<1> SUFFICES ASSUME NEW t \in Tasks, at'[t].pc = "send"
             PROVE  /\ Carried(at'[t]) \in queued'
                    /\ \A q \in ahead'[Carried(at'[t])] : Done(q)'
  BY DEF Claimed, Carried
<1>1. ahead \in [Prompts -> SUBSET Prompts] /\ queued \subseteq Prompts
  BY DEF Order, Base, Scalars
<1> DEFINE c == Carried(at'[t])
<1>2. c \in queued /\ \A q \in ahead[c] : Done(q)
  <2>1. CASE at'[t] = at[t]
    BY <2>1 DEF Order, Claimed
  <2>2. CASE Reads(t)
    <3>1. PICK head : head = Head1(at[t].sid) /\ head # {} /\ at'[t].row = head
      BY <2>2 DEF Reads
    <3>2. PICK r : r = (CHOOSE x \in head : TRUE)
      OBVIOUS
    <3>3. r \in head /\ c = r.id
      BY <3>1, <3>2 DEF Carried
    <3>4. /\ r \in rows /\ r.list = at[t].sid
          /\ \A s \in rows : s.list = r.list => r.position <= s.position
      BY <3>1, <3>3 DEF Head1, Queue!RowsOf
    <3>5. \A s \in rows : s.position \in Nat
      BY DEF TypedRows, Queue!Row
    <3>6. r.id \in queued /\ Lined(r)
      BY <3>4 DEF Order, InLine
    <3>7. ASSUME NEW q \in ahead[r.id] PROVE Done(q)
      BY <3>4, <3>5, <3>6 DEF Lined
    <3> QED
      BY <3>3, <3>6, <3>7
  <2>3. CASE at'[t] # at[t] /\ ~Reads(t)
    BY <2>3, Arrives DEF Watched, Submits, Asks, Found, Base, Sync, Threads, Fits, Wanted
  <2> QED
    BY <2>1, <2>2, <2>3
<1> HIDE DEF c
<1>3. c \in queued' /\ ahead'[c] = ahead[c] /\ \A q \in Prompts : Done(q) => Done(q)'
  BY <1>2, DoneStays
<1>4. \A q \in ahead'[c] : Done(q)'
  BY <1>1, <1>2, <1>3
<1> QED
  BY <1>3, <1>4 DEF c

LEMMA UnqueuedStays ==
  ASSUME Base, Order, [Next]_vars
  PROVE  Unqueued'
<1> SUFFICES ASSUME at'["worker"].pc \in {"prompt", "enqueue"}
             PROVE  /\ Carried(at'["worker"]) \notin queued'
                    /\ sent'[Carried(at'["worker"])] = 0
  BY DEF Unqueued, Carried
<1> "worker" \in Tasks
  BY DEF Tasks
<1>1. CASE at'["worker"] = at["worker"]
  <2> DEFINE p == Carried(at["worker"])
  <2>1. p \notin queued /\ sent[p] = 0 /\ p \in Prompts
    BY <1>1, WhoIsThere DEF Order, Unqueued, Base, Sync, Threads, Fits
  <2>2. sent'[p] = sent[p]
    <3> SUFFICES ASSUME sent'[p] # sent[p] PROVE FALSE
      OBVIOUS
    <3>1. CASE \E t \in Tasks : at[t].pc = "send" /\ p = Carried(at[t])
      BY <2>1, <3>1 DEF Order, Claimed
    <3>2. CASE at'["worker"] = Rest
      BY <3>2 DEF Rest
    <3> QED
      BY <2>1, <3>1, <3>2, SentBy
  <2>3. queued' = queued
    <3>1. ~Enqueued
      BY DEF Enqueued, Finish, Rest, Base, Sync, Threads
    <3> QED
      BY <3>1, QueuedBy
  <2> QED
    BY <1>1, <2>1, <2>2, <2>3
<1>2. ASSUME NEW p \in Prompts, Submits(p)
      PROVE  /\ Carried(at'["worker"]) \notin queued'
             /\ sent'[Carried(at'["worker"])] = 0
  BY <1>2 DEF Submits, Prompt, history
<1>3. CASE Asks \/ Found \/ Reads("worker")
  BY <1>3 DEF Asks, Found, Reads, Base, Sync, Threads, Fits, Wanted
<1> QED
  BY <1>1, <1>2, <1>3, Arrives DEF Watched

LEMMA NeverMovesStays ==
  ASSUME Base, Order, [Next]_vars, ~Reordering
  PROVE  NeverMoves'
<1> "worker" \in Tasks
  BY DEF Tasks
<1>1. CASE at'["worker"] = at["worker"]
  BY <1>1 DEF Order, NeverMoves
<1>2. CASE at'["worker"].pc \notin {"move", "require"}
  BY <1>2 DEF NeverMoves
<1>3. ASSUME NEW p \in Prompts, Submits(p) PROVE NeverMoves'
  BY <1>3 DEF Submits, NeverMoves
<1>4. CASE Asks
  BY <1>4 DEF Asks, NeverMoves
<1>5. CASE Found
  BY <1>5 DEF Found, NeverMoves, Order, Base, Sync, Threads, Fits, Wanted
<1>6. CASE Reads("worker")
  BY <1>6 DEF Reads, NeverMoves
<1> QED
  BY <1>1, <1>2, <1>3, <1>4, <1>5, <1>6, Arrives DEF Watched

\* A prompt that is sent had nothing left ahead of it.
LEMMA DeliveryStays ==
  ASSUME Base, TypedRows, Order, [Next]_vars
  PROVE  DeliveredInOrder'
<1> SUFFICES ASSUME NEW p \in queued', sent'[p] > 0
             PROVE  \A q \in ahead'[p] : Done(q)'
  BY DEF DeliveredInOrder, Done
<1> "worker" \in Tasks
  BY DEF Tasks
<1>1. /\ ahead \in [Prompts -> SUBSET Prompts] /\ queued \subseteq Prompts
      /\ sent \in [Prompts -> Nat]
  BY DEF Order, Base, Scalars
<1>2. p \in queued
  <2> SUFFICES ASSUME p \notin queued PROVE FALSE
    OBVIOUS
  <2>1. Enqueued
    BY QueuedBy
  <2>2. p = Carried(at["worker"]) /\ sent' = sent
    BY <2>1 DEF Enqueued, Carried
  <2>3. sent[p] = 0
    BY <2>1, <2>2 DEF Enqueued, Holds, Order, Unqueued
  <2> QED
    BY <2>2, <2>3
<1>3. \A q \in ahead[p] : Done(q)
  <2>1. CASE sent'[p] = sent[p]
    BY <1>2, <2>1 DEF Order, DeliveredInOrder, Done
  <2>2. CASE \E t \in Tasks : at[t].pc = "send" /\ p = Carried(at[t])
    BY <2>2 DEF Order, Claimed
  <2>3. CASE at["worker"].pc = "prompt" /\ p = Carried(at["worker"])
    BY <1>2, <2>3 DEF Order, Unqueued
  <2> QED
    BY <1>1, <1>2, <2>1, <2>2, <2>3, SentBy
<1> QED
  BY <1>1, <1>2, <1>3, DoneStays

\* A prompt that leaves the table is done, so those behind it are still in line.
LEMMA KeptInLine ==
  ASSUME Base, TypedRows, Order, [Next]_vars, NEW kept, NEW f, Keeps(kept, f),
         \A s \in rows \ kept : Done(s.id)' \/ \A r \in kept : r.list # s.list
  PROVE  InLine'
<1> SUFFICES ASSUME NEW t \in rows' PROVE t.id \in queued' /\ Lined(t)'
  BY DEF InLine
<1>1. PICK r \in kept : t = f[r]
  BY DEF Keeps
<1>2. r \in rows /\ t.id = r.id /\ t.list = r.list /\ r.id \in queued /\ Lined(r)
  BY <1>1 DEF Keeps, Order, InLine
<1>3. ahead'[r.id] = ahead[r.id] /\ r.id \in queued' /\ r.id \in Prompts
  BY <1>2, DoneStays DEF Base, Scalars
<1>4. \A q \in ahead[r.id] : q \in Prompts
  BY <1>3 DEF Order
<1>5. ASSUME NEW q \in ahead[r.id]
      PROVE  Done(q)' \/ \E s \in rows' : s.id = q /\ s.list = t.list /\ s.position < t.position
  <2>1. CASE Done(q)
    BY <1>4, <2>1, DoneStays
  <2>2. ASSUME NEW s \in rows, s.id = q, s.list = r.list, s.position < r.position
        PROVE  Done(q)' \/ \E u \in rows' : u.id = q /\ u.list = t.list /\ u.position < t.position
    <3>1. CASE s \in kept
      <4>1. f[s] \in rows' /\ f[s].id = q /\ f[s].list = t.list
        BY <1>2, <2>2, <3>1 DEF Keeps
      <4>2. f[s].position < t.position
        BY <1>1, <2>2, <3>1 DEF Keeps
      <4> QED
        BY <4>1, <4>2
    <3>2. CASE s \notin kept
      BY <1>1, <2>2, <3>2
    <3> QED
      BY <3>1, <3>2
  <2> QED
    BY <1>2, <2>1, <2>2 DEF Lined
<1>6. ASSUME NEW q \in ahead'[t.id]
      PROVE  Done(q)' \/ \E s \in rows' : s.id = q /\ s.list = t.list /\ s.position < t.position
  BY <1>2, <1>3, <1>5, <1>6
<1> QED
  BY <1>2, <1>3, <1>6 DEF Lined

LEMMA SameInLine ==
  ASSUME Base, TypedRows, Order, [Next]_vars, rows' = rows
  PROVE  InLine'
<1> DEFINE f == [r \in rows |-> r]
<1>1. Keeps(rows, f)
  BY DEF Keeps
<1> HIDE DEF f
<1> QED
  BY <1>1, KeptInLine

LEMMA InLineStays ==
  ASSUME Base, Facts!IInv, Order, [Next]_vars, ~Reordering
  PROVE  InLine' /\ ahead' \in [Prompts -> SUBSET Prompts]
<1> "worker" \in Tasks
  BY DEF Tasks
<1>1. /\ TypedRows /\ ahead \in [Prompts -> SUBSET Prompts] /\ queued \subseteq Prompts
  BY FactsType DEF Order, Base, Scalars
<1>2. CASE Enqueued
  <2> DEFINE new == CHOOSE r \in at["worker"].row : TRUE
  <2>1. PICK p, l, text : p = new.id /\ l = at["worker"].sid /\ text = new.text
    OBVIOUS
  <2>2. Queue!Enqueue(p, l, text)
    BY <1>2, <2>1 DEF Enqueued
  <2>3. \/ outcome' # "ok" /\ ahead' = ahead /\ queued' = queued
        \/ /\ queued' = queued \cup {p}
           /\ ahead' = [ahead EXCEPT ![p] = {r.id : r \in Queue!RowsOf(l)}]
    BY <1>2, <2>1 DEF Enqueued
  <2>4. p \in Prompts /\ p \notin queued
    BY <1>2, <2>1, WhoIsThere
       DEF Enqueued, Holds, Order, Unqueued, Carried, Base, Sync, Threads, Fits
  <2>5. {r.id : r \in Queue!RowsOf(l)} \in SUBSET Prompts
    BY <1>1 DEF TypedRows, Queue!Row, Queue!RowsOf
  <2>6. ahead' \in [Prompts -> SUBSET Prompts]
    BY <1>1, <2>3, <2>4, <2>5
  <2> HIDE DEF new
  <2>7. CASE rows' = rows
    BY <1>1, <2>6, <2>7, SameInLine
  <2>8. CASE outcome' = "ok" /\ Appends(p, l)
    <3>1. PICK row : /\ rows' = rows \cup {row} /\ row.id = p /\ row.list = l
                     /\ \A s \in Queue!RowsOf(l) : s.position < row.position
      BY <2>8 DEF Appends
    <3>2. ahead'[p] = {r.id : r \in Queue!RowsOf(l)} /\ p \in queued'
      BY <1>1, <2>3, <2>4, <2>8
    <3>3. ASSUME NEW q \in ahead'[p]
          PROVE  \E s \in rows' : s.id = q /\ s.list = l /\ s.position < row.position
      BY <3>1, <3>2, <3>3 DEF Queue!RowsOf
    <3>4. row.id \in queued' /\ Lined(row)'
      BY <3>1, <3>2, <3>3 DEF Lined
    <3>5. ASSUME NEW r \in rows PROVE r.id \in queued' /\ Lined(r)'
      <4>1. r.id \in queued /\ Lined(r)
        BY DEF Order, InLine
      <4>2. ahead'[r.id] = ahead[r.id] /\ r.id \in queued' /\ r.id \in Prompts
        BY <1>1, <4>1, DoneStays
      <4>3. \A q \in ahead[r.id] : Done(q) => Done(q)'
        BY <1>1, <4>2, DoneStays
      <4>4. rows \subseteq rows'
        BY <3>1
      <4> QED
        BY <4>1, <4>2, <4>3, <4>4 DEF Lined
    <3> QED
      BY <2>6, <3>1, <3>4, <3>5 DEF InLine
  <2> QED
    BY <2>2, <2>7, <2>8, EnqueueOrders
<1>3. ASSUME ~Enqueued PROVE ahead' = ahead
  <2>1. CASE \/ QueueEdited \/ QueueMoved \/ QueueDeleted \/ QueueCleared
             \/ \E task \in Tasks : DrainDelete(task)
    BY <2>1 DEF QueueEdited, QueueMoved, QueueDeleted, QueueCleared, DrainDelete, history
  <2>2. CASE UNCHANGED vars
    BY <2>2 DEF vars, history
  <2> QED
    BY <1>3, <2>1, <2>2, Elsewhere DEF StoreAction
<1>4. ASSUME QueueEdited PROVE InLine'
  <2>1. \E id, text : Queue!EditQueue(id, text)
    BY <1>4 DEF QueueEdited
  <2>2. PICK f : Keeps(rows, f)
    BY <2>1, EditOrders
  <2>3. \A s \in rows \ rows : Done(s.id)' \/ \A r \in rows : r.list # s.list
    OBVIOUS
  <2> QED
    BY <1>1, <2>2, <2>3, KeptInLine
<1>5. ASSUME QueueMoved PROVE InLine'
  BY <1>5 DEF QueueMoved, Holds, Order, NeverMoves
<1>6. ASSUME NEW id, Queue!DeleteQueue(id), outcome' = "ok" => Done(id)' PROVE InLine'
  <2>1. CASE rows' = rows
    BY <1>1, <2>1, SameInLine
  <2>2. CASE outcome' = "ok" /\ \E f : Keeps({r \in rows : r.id # id}, f)
    <3>1. PICK f : Keeps({r \in rows : r.id # id}, f)
      BY <2>2
    <3> DEFINE kept == {r \in rows : r.id # id}
    <3>2. \A s \in rows \ kept : s.id = id
      OBVIOUS
    <3>3. \A s \in rows \ kept : Done(s.id)'
      BY <1>6, <2>2, <3>2
    <3>4. Keeps(kept, f)
      BY <3>1
    <3> HIDE DEF kept
    <3> QED
      BY <1>1, <3>3, <3>4, KeptInLine
  <2> QED
    BY <1>6, <2>1, <2>2, DeleteOrders
<1>7. ASSUME QueueDeleted PROVE InLine'
  <2>1. PICK p : p = Carried(at["worker"])
    OBVIOUS
  <2>2. Queue!DeleteQueue(p) /\ (outcome' = "ok" => p \in discarded')
    BY <1>7, <2>1 DEF QueueDeleted, Carried
  <2>3. outcome' = "ok" => Done(p)'
    BY <2>2 DEF Done
  <2> QED
    BY <1>6, <2>2, <2>3
<1>8. ASSUME NEW task \in Tasks, DrainDelete(task) PROVE InLine'
  <2>1. PICK p : p = Carried(at[task])
    OBVIOUS
  <2>2. Queue!DeleteQueue(p) /\ sent' = sent
    BY <1>8, <2>1 DEF DrainDelete, Carried, history
  <2>3. sent[p] > 0
    BY <1>8, <2>1 DEF DrainDelete, Holds, Base, Sync, Delivered
  <2> QED
    BY <1>6, <2>2, <2>3 DEF Done
<1>9. ASSUME QueueCleared PROVE InLine'
  <2>1. PICK l : l = at["worker"].sid
    OBVIOUS
  <2>2. Queue!ClearQueue(l)
    BY <1>9, <2>1 DEF QueueCleared
  <2>3. PICK f : Keeps({r \in rows : r.list # l}, f)
    BY <2>2, ClearOrders
  <2> DEFINE kept == {r \in rows : r.list # l}
  <2>4. \A s \in rows \ kept : Done(s.id)' \/ \A r \in kept : r.list # s.list
    OBVIOUS
  <2>5. Keeps(kept, f)
    BY <2>3
  <2> HIDE DEF kept
  <2> QED
    BY <1>1, <2>4, <2>5, KeptInLine
<1>10. ASSUME Next /\ ~StoreAction PROVE InLine'
  BY <1>1, <1>10, Elsewhere, SameInLine DEF store
<1>11. ASSUME UNCHANGED vars PROVE InLine'
  <2>1. rows' = rows
    BY <1>11 DEF vars, store
  <2> QED
    BY <1>1, <2>1, SameInLine
<1> QED
  BY <1>1, <1>2, <1>3, <1>4, <1>5, <1>7, <1>8, <1>9, <1>10, <1>11 DEF StoreAction

\* Without queue.move, a queued prompt is delivered only after everything that
\* was ahead of it has been delivered or removed by its owner: through failed
\* sends and deletes, rebinding, suspension, two drains at once and restarts.
THEOREM QueueIsOrdered ==
  ASSUME Queue!LimitBounds PROVE Spec => [](~Reordering => DeliveredInOrder)
<1>1. ~Reordering /\ Init => Order
  BY DEF Init, Rest, Order, InLine, Claimed, Unqueued, NeverMoves, DeliveredInOrder, Tasks,
         Queue!Init
<1>2. ~Reordering /\ IInv /\ Order /\ [Next]_vars => Order'
  <2> SUFFICES ASSUME ~Reordering, IInv, Order, [Next]_vars PROVE Order'
    OBVIOUS
  <2>1. Base /\ TypedRows /\ Facts!IInv
    BY FactsType DEF IInv, Base, Sync
  <2> QED
    BY <2>1, ClaimedStays, UnqueuedStays, NeverMovesStays, DeliveryStays, InLineStays DEF Order
<1>3. (~Reordering => Order) => (~Reordering => DeliveredInOrder)
  BY DEF Order
<1>4. Init => (~Reordering => Order)
  BY <1>1
<1>5. IInv /\ (~Reordering => Order) /\ [Next]_vars => (~Reordering => Order)'
  BY <1>2
<1> QED
  BY <1>3, <1>4, <1>5, Invariance, PTL DEF Spec
=============================================================================
