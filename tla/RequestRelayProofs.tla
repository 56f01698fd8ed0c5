-------------------------- MODULE RequestRelayProofs --------------------------
(***************************************************************************)
(* Proofs about RequestRelay for any requests, sessions and bounds, with   *)
(* every failure, on every backend.                                        *)
(*                                                                         *)
(* The invariant follows each request by itself (Good).  Its opening comes *)
(* once (Distinct), and before it is handled nobody has touched the        *)
(* request; so a request that was popped never comes back, and whoever     *)
(* finds it pending is the first to resolve it.  Openings and resolutions  *)
(* that must be journalled first are published in the order of the store's *)
(* line, and an opening is never in line behind a resolution of the same   *)
(* request (InOrder).                                                      *)
(***************************************************************************)
EXTENDS RequestRelay, SequenceTheorems, WellFoundedInduction, TLAPS

Event == [kind : {"asked", "settled"}, req : Requests]
Asked(r)   == [kind |-> "asked", req |-> r]
Settled(r) == [kind |-> "settled", req |-> r]
Elems(s) == {s[i] : i \in DOMAIN s}
\* What the bridge has not handled.
Stream == Elems(events) \union Elems(deferred) \union Elems(todo)

\* What a task can await: the store, or a backend call or nothing.
Waits == {"writing", "saving", "listing"}
Calls == {"idle", "answering", "answered", "attaching"}
Answers == {"answering", "answered"}

\* The frame answers request r, or writes what is to be told of it.
AnswersTo(f, r) == f.pc \in Answers /\ f.req = {r}
Writes(f, r, what) == f.pc = "writing" /\ f.req = {r} /\ f.for = what

\* The locals a task keeps fit what it awaits.
Fits(task, f) ==
    /\ f.pc \in Answers => f.for \in {"owner", "bridge"}
    /\ f.pc = "writing" => f.for \in {"opened", "resolved"} /\ Journaling
    /\ f.pc \in Answers \union {"writing"} <=> f.req # {}
    /\ task = "topic" => f.pc \in {"idle", "attaching"}
    /\ task = "backend" => f.pc \in {"idle", "writing"} \union Answers

Threads ==
    /\ at \in [Tasks -> Frame] /\ \A t \in Tasks : Fits(t, at[t])
    /\ lockq \in Seq(Tasks)
    /\ \A i, j \in DOMAIN lockq : lockq[i] = lockq[j] => i = j
    /\ \A t \in Tasks : at[t].pc \in Waits <=> \E i \in DOMAIN lockq : lockq[i] = t

Scalars ==
    /\ backend \in Backends
    /\ activation \in 0..lastGen /\ lastGen \in 0..MaxTopics
    /\ binding \in [sid : Sessions \union {NoSession}, obj : Identities \union {0}]
    /\ observed \subseteq Sessions /\ attaching \in Sessions \union {NoSession}
    /\ deferred \in Seq(Event) /\ todo \in Seq(Event) /\ events \in Seq(Event)
    /\ requests \subseteq Requests /\ resolving \subseteq Approvals
    /\ held \subseteq Requests
    /\ home \in [Requests -> Sessions \union {NoSession}]
    /\ agent \in [Requests -> {"quiet", "waiting", "settled"}]
    /\ told \in [Requests -> {"nothing", "opened", "resolved"}]
    /\ resolutions \in [Requests -> Nat]
    /\ stuck \subseteq Requests /\ missed \subseteq Requests

\* Events are deferred only while the worker attaches, and replayed after it.
Deferring ==
    /\ attaching # NoSession \/ deferred # << >> => at["worker"].pc \in {"attaching", "saving"}
    /\ at["worker"].pc \in {"attaching", "saving"} => todo = << >>

\* The opening of a request comes once.
Once(s) == \A i, j \in DOMAIN s : s[i].kind = "asked" /\ s[i] = s[j] => i = j
Apart(s, u) == \A e \in Elems(s) : e.kind = "asked" => e \notin Elems(u)
Distinct ==
    /\ Once(events) /\ Once(deferred) /\ Once(todo)
    /\ Apart(events, deferred) /\ Apart(events, todo) /\ Apart(deferred, todo)

\* The bridge has done nothing about the request.
Untouched(r) ==
    /\ r \notin requests /\ told[r] = "nothing" /\ resolutions[r] = 0
    /\ \A t \in Tasks : at[t].req # {r}

\* The store's line serves no resolution before an opening.
InOrder(r) ==
    \A i, j \in DOMAIN lockq :
        i < j => ~(Writes(at[lockq[i]], r, "resolved") /\ Writes(at[lockq[j]], r, "opened"))

\* Before the opening is handled.
Ahead(r) ==
    /\ Asked(r) \in Stream => Untouched(r) /\ agent[r] # "quiet"
    /\ agent[r] = "quiet" => Untouched(r) /\ r \notin held /\ Settled(r) \notin Stream
    /\ agent[r] # "quiet" => home[r] \in Sessions
\* Resolutions, and what makes them true.
Resolved(r) ==
    /\ Settled(r) \in Stream => agent[r] = "settled"
    /\ \A t \in Tasks :
         /\ at[t].pc = "answered" /\ at[t].req = {r} => agent[r] = "settled"
         /\ Writes(at[t], r, "resolved") => agent[r] = "settled" /\ r \notin requests
    /\ told[r] = "resolved" => agent[r] = "settled" /\ r \notin requests
    /\ told[r] # "resolved" => resolutions[r] = 0
    /\ r \in Approvals =>
         /\ resolutions[r] <= 1
         /\ \A t, u \in Tasks :
              Writes(at[t], r, "resolved") /\ Writes(at[u], r, "resolved") => t = u
         /\ told[r] = "resolved" => \A t \in Tasks : ~Writes(at[t], r, "resolved")
\* What clients show.
Shown(r) ==
    /\ InOrder(r)
    /\ \A t \in Tasks : Writes(at[t], r, "opened") =>
         /\ told[r] # "resolved"
         /\ r \in requests \/ \E u \in Tasks : Writes(at[u], r, "resolved")
    /\ r \in requests /\ told[r] # "opened" =>
         \E t \in Tasks : \/ Writes(at[t], r, "opened")
                          \/ AnswersTo(at[t], r) /\ at[t].for = "bridge"
    /\ told[r] = "opened" /\ r \notin requests =>
         \E t \in Tasks : Writes(at[t], r, "resolved")
\* What the bridge knows.
Pending(r) ==
    /\ r \in requests \/ Asked(r) \in Stream =>
         \/ r \in held \/ Settled(r) \in Stream \/ r \in stuck \union missed
         \/ \E t \in Tasks : AnswersTo(at[t], r)
    /\ agent[r] = "waiting" => r \in requests \/ Asked(r) \in Stream \/ r \in missed

Good(r) == Ahead(r) /\ Resolved(r) /\ Shown(r) /\ Pending(r)

Base == Scalars /\ Threads /\ Deferring /\ Distinct
IInv == Base /\ \A r \in Requests : Good(r)
-----------------------------------------------------------------------------
(* Sequences of events                                                     *)

LEMMA NoElems == Elems(<< >>) = {} /\ Once(<< >>) /\ << >> \in Seq(Event)
<1>1. DOMAIN << >> = {} /\ << >> \in Seq(Event)
  OBVIOUS
<1> QED
  BY <1>1 DEF Elems, Once

LEMMA Pushed ==
  ASSUME NEW s \in Seq(Event), NEW e \in Event
  PROVE  /\ Append(s, e) \in Seq(Event)
         /\ Elems(Append(s, e)) = Elems(s) \union {e}
         /\ Once(s) /\ (e.kind = "asked" => e \notin Elems(s)) => Once(Append(s, e))
<1> DEFINE u == Append(s, e)
<1>1. /\ u \in Seq(Event) /\ Len(s) \in Nat /\ DOMAIN s = 1 .. Len(s)
      /\ DOMAIN u = 1 .. Len(s) + 1 /\ u[Len(s) + 1] = e
      /\ \A i \in 1 .. Len(s) : u[i] = s[i]
  OBVIOUS
<1>2. /\ \A i \in 1 .. Len(s) + 1 : i \in 1 .. Len(s) \/ i = Len(s) + 1
      /\ \A i \in 1 .. Len(s) : i \in 1 .. Len(s) + 1
      /\ Len(s) + 1 \in 1 .. Len(s) + 1
  BY <1>1
<1> HIDE DEF u
<1>3. Elems(u) = Elems(s) \union {e}
  <2>1. \A x \in Elems(u) : x \in Elems(s) \/ x = e
    BY <1>1, <1>2 DEF Elems
  <2>2. \A x \in Elems(s) : x \in Elems(u)
    BY <1>1, <1>2 DEF Elems
  <2>3. e \in Elems(u)
    BY <1>1, <1>2 DEF Elems
  <2> QED
    BY <2>1, <2>2, <2>3
<1>4. ASSUME Once(s), e.kind = "asked" => e \notin Elems(s) PROVE Once(u)
  <2> SUFFICES ASSUME NEW i \in 1 .. Len(s) + 1, NEW j \in 1 .. Len(s) + 1,
                      u[i].kind = "asked", u[i] = u[j]
               PROVE  i = j
    BY <1>1 DEF Once
  <2>1. \A k \in 1 .. Len(s) : s[k] \in Elems(s)
    BY <1>1 DEF Elems
  <2> QED
    BY <1>1, <1>2, <1>4, <2>1 DEF Once
<1> QED
  BY <1>1, <1>3, <1>4 DEF u

LEMMA Popped ==
  ASSUME NEW s \in Seq(Event), s # << >>
  PROVE  /\ Head(s) \in Event /\ Tail(s) \in Seq(Event)
         /\ Elems(s) = Elems(Tail(s)) \union {Head(s)}
         /\ Once(s) => Once(Tail(s)) /\ (Head(s).kind = "asked" => Head(s) \notin Elems(Tail(s)))
<1> DEFINE u == Tail(s)
<1>1. /\ u \in Seq(Event) /\ Len(u) \in Nat /\ DOMAIN u = 1 .. Len(u)
      /\ Len(s) = Len(u) + 1 /\ DOMAIN s = 1 .. Len(u) + 1 /\ Head(s) = s[1]
      /\ \A i \in 1 .. Len(u) : u[i] = s[i + 1]
      /\ s[1] \in Event
  OBVIOUS
<1>2. /\ \A i \in 1 .. Len(u) : i + 1 \in 1 .. Len(u) + 1 /\ i + 1 # 1
      /\ 1 \in 1 .. Len(u) + 1
      /\ \A i \in 1 .. Len(u) + 1 : i # 1 => i - 1 \in 1 .. Len(u) /\ i = (i - 1) + 1
      /\ \A i, j \in 1 .. Len(u) : i + 1 = j + 1 => i = j
  BY <1>1
<1> HIDE DEF u
<1>3. Elems(s) = Elems(u) \union {s[1]}
  <2>1. ASSUME NEW x \in Elems(s), x # s[1] PROVE x \in Elems(u)
    <3>1. PICK i \in 1 .. Len(u) + 1 : x = s[i]
      BY <1>1, <2>1 DEF Elems
    <3>2. i - 1 \in 1 .. Len(u) /\ x = u[i - 1]
      BY <1>1, <1>2, <2>1, <3>1
    <3> QED
      BY <1>1, <3>2 DEF Elems
  <2>2. \A x \in Elems(u) : x \in Elems(s)
    BY <1>1, <1>2 DEF Elems
  <2>3. s[1] \in Elems(s)
    BY <1>1, <1>2 DEF Elems
  <2> QED
    BY <2>1, <2>2, <2>3
<1>4. ASSUME Once(s) PROVE Once(u)
  <2> SUFFICES ASSUME NEW i \in 1 .. Len(u), NEW j \in 1 .. Len(u),
                      u[i].kind = "asked", u[i] = u[j]
               PROVE  i = j
    BY <1>1 DEF Once
  <2>1. i + 1 = j + 1
    BY <1>1, <1>2, <1>4, SMTT(30) DEF Once
  <2> QED
    BY <1>2, <2>1
<1>5. ASSUME Once(s), s[1].kind = "asked", s[1] \in Elems(u) PROVE FALSE
  <2>1. PICK i \in 1 .. Len(u) : s[1] = u[i]
    BY <1>1, <1>5 DEF Elems
  <2>2. i + 1 = 1
    BY <1>1, <1>2, <1>5, <2>1 DEF Once
  <2> QED
    BY <1>2, <2>2
<1> QED
  BY <1>1, <1>3, <1>4, <1>5 DEF u

LEMMA EventsOf ==
  ASSUME NEW e \in Event
  PROVE  /\ e.req \in Requests /\ e.kind \in {"asked", "settled"}
         /\ e.kind = "asked" => e = Asked(e.req)
         /\ e.kind = "settled" => e = Settled(e.req)
  BY DEF Event, Asked, Settled

LEMMA TheyAreEvents ==
  ASSUME NEW r \in Requests
  PROVE  /\ Asked(r) \in Event /\ Settled(r) \in Event /\ Asked(r) # Settled(r)
         /\ Asked(r).req = r /\ Settled(r).req = r
         /\ Asked(r).kind = "asked" /\ Settled(r).kind = "settled"
  BY DEF Event, Asked, Settled

-----------------------------------------------------------------------------
(* The line for the store                                                  *)

\* The task lets the lock go, if it holds it, which leaves q,
Released(task, q) ==
    \/ at[task].pc \in Calls /\ q = lockq
    \/ /\ at[task].pc \in Waits /\ lockq # << >> /\ Head(lockq) = task
       /\ q = Tail(lockq)
\* and goes on with frame, for which it may have to wait.
Advance(task, frame, q) ==
    /\ at' = [at EXCEPT ![task] = frame]
    /\ lockq' = IF frame.pc \in Waits THEN Append(q, task) ELSE q
    /\ backend' = backend

Useful(task, frame) == frame \in Frame /\ Fits(task, frame)
\* Who is left in the queue, and where they stand.
LEMMA QueueLeft ==
  ASSUME Threads, NEW task \in Tasks, NEW q, Released(task, q)
  PROVE  /\ q \in Seq(Tasks)
         /\ \A i \in DOMAIN q : q[i] # task
         /\ \A i, j \in DOMAIN q : q[i] = q[j] => i = j
         /\ \A t \in Tasks : t # task =>
               (at[t].pc \in Waits <=> \E i \in DOMAIN q : q[i] = t)
         /\ \E d \in {0, 1} : /\ Len(lockq) = Len(q) + d
                              /\ \A i \in 1 .. Len(q) : q[i] = lockq[i + d]
                              /\ d = 1 => lockq[1] = task
                              /\ d = 0 => at[task].pc \in Calls
<1>1. /\ lockq \in Seq(Tasks) /\ Len(lockq) \in Nat /\ DOMAIN lockq = 1 .. Len(lockq)
      /\ \A i, j \in 1 .. Len(lockq) : lockq[i] = lockq[j] => i = j
      /\ \A t \in Tasks : at[t].pc \in Waits <=> \E i \in 1 .. Len(lockq) : lockq[i] = t
  BY DEF Threads
<1>2. CASE at[task].pc \in Calls /\ q = lockq
  <2>1. at[task].pc \notin Waits
    BY <1>2 DEF Calls, Waits
  <2>2. \A i \in 1 .. Len(q) : q[i] # task
    BY <1>1, <1>2, <2>1
  <2>3. Len(lockq) = Len(q) + 0 /\ \A i \in 1 .. Len(q) : q[i] = lockq[i + 0]
    BY <1>1, <1>2
  <2>4. \E d \in {0, 1} : /\ Len(lockq) = Len(q) + d
                          /\ \A i \in 1 .. Len(q) : q[i] = lockq[i + d]
                          /\ d = 1 => lockq[1] = task
                          /\ d = 0 => at[task].pc \in Calls
    <3> WITNESS 0 \in {0, 1}
    <3> QED
      BY <1>2, <2>3
  <2> QED
    BY <1>1, <1>2, <2>2, <2>4
<1>3. CASE /\ lockq # << >> /\ Head(lockq) = task /\ q = Tail(lockq)
  <2>1. /\ q \in Seq(Tasks) /\ Len(q) \in Nat /\ DOMAIN q = 1 .. Len(q)
        /\ Len(lockq) = Len(q) + 1 /\ lockq[1] = task
        /\ \A i \in 1 .. Len(q) : q[i] = lockq[i + 1]
    BY <1>1, <1>3
  <2>2. \A i \in 1 .. Len(q) : i + 1 \in 1 .. Len(lockq) /\ 1 \in 1 .. Len(lockq) /\ i + 1 # 1
    BY <1>1, <2>1
  <2>3. \A i \in 1 .. Len(q) : q[i] # task
    BY <1>1, <2>1, <2>2
  <2>4. \A i, j \in 1 .. Len(q) : q[i] = q[j] => i = j
    <3> TAKE i, j \in 1 .. Len(q)
    <3> HAVE q[i] = q[j]
    <3>1. i + 1 = j + 1
      BY <1>1, <2>1, <2>2, SMTT(30)
    <3> QED
      BY <2>1, <3>1
  <2>5. ASSUME NEW t \in Tasks, t # task
        PROVE  at[t].pc \in Waits <=> \E i \in 1 .. Len(q) : q[i] = t
    <3>1. ASSUME NEW i \in 1 .. Len(lockq), lockq[i] = t PROVE \E k \in 1 .. Len(q) : q[k] = t
      <4>1. i # 1
        BY <2>1, <2>5, <3>1
      <4>2. PICK k \in 1 .. Len(q) : i = k + 1
        <5>1. i - 1 \in 1 .. Len(q) /\ i = (i - 1) + 1
          BY <2>1, <4>1
        <5> QED
          BY <5>1
      <4> QED
        BY <2>1, <3>1, <4>2
    <3>2. ASSUME NEW k \in 1 .. Len(q), q[k] = t PROVE \E i \in 1 .. Len(lockq) : lockq[i] = t
      BY <2>1, <2>2, <3>2
    <3> QED
      BY <1>1, <3>1, <3>2
  <2>6. \E d \in {0, 1} : /\ Len(lockq) = Len(q) + d
                          /\ \A i \in 1 .. Len(q) : q[i] = lockq[i + d]
                          /\ d = 1 => lockq[1] = task
                          /\ d = 0 => at[task].pc \in Calls
    <3> WITNESS 1 \in {0, 1}
    <3> QED
      BY <2>1
  <2> QED
    BY <2>1, <2>3, <2>4, <2>5, <2>6
<1> QED
  BY <1>2, <1>3 DEF Released

\* Where everyone stands after the step.
LEMMA Standing ==
  ASSUME Threads, NEW task \in Tasks, NEW frame, NEW q, Useful(task, frame),
         Released(task, q), Advance(task, frame, q)
  PROVE  /\ Threads'
         /\ at'[task] = frame /\ \A t \in Tasks : t # task => at'[t] = at[t]
         /\ \E d \in {0, 1} :
               /\ Len(lockq) = Len(q) + d /\ Len(q) \in Nat
               /\ d = 1 => lockq[1] = task
               /\ d = 0 => at[task].pc \in Calls
               /\ \A i \in 1 .. Len(q) : lockq'[i] = lockq[i + d] /\ lockq[i + d] # task
               /\ \/ frame.pc \notin Waits /\ Len(lockq') = Len(q)
                  \/ /\ frame.pc \in Waits /\ Len(lockq') = Len(q) + 1
                     /\ lockq'[Len(q) + 1] = task
<1>1. /\ q \in Seq(Tasks) /\ Len(q) \in Nat /\ DOMAIN q = 1 .. Len(q)
      /\ \A i \in 1 .. Len(q) : q[i] # task
      /\ \A i, j \in 1 .. Len(q) : q[i] = q[j] => i = j
      /\ \A t \in Tasks : t # task =>
             (at[t].pc \in Waits <=> \E i \in 1 .. Len(q) : q[i] = t)
  BY QueueLeft
<1>2. PICK d \in {0, 1} : /\ Len(lockq) = Len(q) + d
                          /\ \A i \in 1 .. Len(q) : q[i] = lockq[i + d]
                          /\ d = 1 => lockq[1] = task
                          /\ d = 0 => at[task].pc \in Calls
  BY QueueLeft
<1>3. /\ at' \in [Tasks -> Frame] /\ at'[task] = frame
      /\ \A t \in Tasks : t # task => at'[t] = at[t]
  BY DEF Advance, Threads, Useful
<1>4. ASSUME NEW t \in Tasks PROVE Fits(t, at[t])'
  <2>1. Fits(t, at'[t])
    BY <1>3 DEF Threads, Useful
  <2>2. Journaling' = Journaling
    BY DEF Advance, Journaling
  <2> QED
    BY <2>1, <2>2 DEF Fits
<1>5. CASE frame.pc \in Waits
  <2>1. /\ lockq' \in Seq(Tasks) /\ Len(lockq') = Len(q) + 1 /\ lockq'[Len(q) + 1] = task
        /\ \A i \in 1 .. Len(q) : lockq'[i] = q[i]
    BY <1>1, <1>5 DEF Advance
  <2>2. /\ DOMAIN lockq' = 1 .. Len(q) + 1 /\ Len(q) + 1 \in 1 .. Len(q) + 1
        /\ \A i \in 1 .. Len(q) + 1 : i \in 1 .. Len(q) \/ i = Len(q) + 1
        /\ \A i \in 1 .. Len(q) : i \in 1 .. Len(q) + 1
    BY <1>1, <2>1
  <2>3. \A i, j \in DOMAIN lockq' : lockq'[i] = lockq'[j] => i = j
    BY <1>1, <2>1, <2>2
  <2>4. \A t \in Tasks : at'[t].pc \in Waits <=> \E i \in DOMAIN lockq' : lockq'[i] = t
    BY <1>1, <1>3, <1>5, <2>1, <2>2
  <2>5. Threads'
    BY <1>3, <1>4, <2>1, <2>3, <2>4 DEF Threads
  <2>6. \A i \in 1 .. Len(q) : lockq'[i] = lockq[i + d] /\ lockq[i + d] # task
    BY <1>1, <1>2, <2>1
  <2> QED
    BY <1>1, <1>2, <1>3, <1>5, <2>1, <2>5, <2>6
<1>6. CASE frame.pc \notin Waits
  <2>1. lockq' = q
    BY <1>6 DEF Advance
  <2>2. \A t \in Tasks : at'[t].pc \in Waits <=> \E i \in DOMAIN lockq' : lockq'[i] = t
    BY <1>1, <1>3, <1>6, <2>1
  <2>3. Threads'
    BY <1>1, <1>3, <1>4, <2>1, <2>2 DEF Threads
  <2>4. \A i \in 1 .. Len(q) : lockq'[i] = lockq[i + d] /\ lockq[i + d] # task
    BY <1>1, <1>2, <2>1
  <2>5. Len(lockq') = Len(q)
    BY <2>1
  <2> QED
    BY <1>1, <1>2, <1>3, <1>6, <2>3, <2>4, <2>5
<1> QED
  BY <1>5, <1>6

\* A resolution waits behind the openings it finds, and none waits behind it.
LEMMA OrderStays ==
  ASSUME Threads, NEW task \in Tasks, NEW frame, NEW q, Useful(task, frame),
         Released(task, q), Advance(task, frame, q), NEW r, InOrder(r),
         Writes(frame, r, "opened") => \A t \in Tasks : ~Writes(at[t], r, "resolved")
  PROVE  InOrder(r)'
<1>1. /\ Threads' /\ at'[task] = frame /\ \A t \in Tasks : t # task => at'[t] = at[t]
      /\ \E d \in {0, 1} :
            /\ Len(lockq) = Len(q) + d /\ Len(q) \in Nat
            /\ d = 1 => lockq[1] = task
            /\ d = 0 => at[task].pc \in Calls
            /\ \A i \in 1 .. Len(q) : lockq'[i] = lockq[i + d] /\ lockq[i + d] # task
            /\ \/ frame.pc \notin Waits /\ Len(lockq') = Len(q)
               \/ /\ frame.pc \in Waits /\ Len(lockq') = Len(q) + 1
                  /\ lockq'[Len(q) + 1] = task
  BY Standing
<1>2. PICK d \in {0, 1} :
            /\ Len(lockq) = Len(q) + d /\ Len(q) \in Nat
            /\ \A i \in 1 .. Len(q) : lockq'[i] = lockq[i + d] /\ lockq[i + d] # task
            /\ \/ frame.pc \notin Waits /\ Len(lockq') = Len(q)
               \/ /\ frame.pc \in Waits /\ Len(lockq') = Len(q) + 1
                  /\ lockq'[Len(q) + 1] = task
  BY <1>1
<1>3. /\ DOMAIN lockq' = 1 .. Len(lockq') /\ DOMAIN lockq = 1 .. Len(lockq)
      /\ \A i \in 1 .. Len(lockq) : lockq[i] \in Tasks
      /\ \A i \in 1 .. Len(lockq') : lockq'[i] \in Tasks
  BY <1>1 DEF Threads
<1> SUFFICES ASSUME NEW i \in 1 .. Len(lockq'), NEW j \in 1 .. Len(lockq'), i < j,
                    Writes(at'[lockq'[i]], r, "resolved"), Writes(at'[lockq'[j]], r, "opened")
             PROVE  FALSE
  BY <1>3 DEF InOrder, Writes
<1>4. i \in 1 .. Len(q)
  BY <1>2
<1>5. /\ i + d \in 1 .. Len(lockq) /\ lockq'[i] = lockq[i + d] /\ lockq[i + d] \in Tasks
      /\ at'[lockq'[i]] = at[lockq[i + d]]
  <2>1. i + d \in 1 .. Len(lockq)
    BY <1>2, <1>4
  <2>2. lockq'[i] = lockq[i + d] /\ lockq[i + d] # task
    BY <1>2, <1>4
  <2> QED
    BY <1>1, <1>3, <2>1, <2>2
<1>6. CASE j \in 1 .. Len(q)
  <2>1. j + d \in 1 .. Len(lockq) /\ at'[lockq'[j]] = at[lockq[j + d]] /\ i + d < j + d
    <3>1. j + d \in 1 .. Len(lockq) /\ i + d < j + d
      BY <1>2, <1>4, <1>6
    <3>2. lockq'[j] = lockq[j + d] /\ lockq[j + d] # task
      BY <1>2, <1>6
    <3> QED
      BY <1>1, <1>3, <3>1, <3>2
  <2> QED
    BY <1>3, <1>5, <2>1 DEF InOrder
<1>7. CASE j \notin 1 .. Len(q)
  <2>1. lockq'[j] = task
    BY <1>2, <1>7
  <2> QED
    BY <1>1, <1>5, <2>1
<1> QED
  BY <1>6, <1>7

\* Whoever publishes a resolution finds no opening in line.
LEMMA HeadIsFirst ==
  ASSUME Threads, NEW task \in Tasks, Holds(task, "writing"), NEW r, InOrder(r),
         Writes(at[task], r, "resolved"), NEW t \in Tasks
  PROVE  ~Writes(at[t], r, "opened")
<1> SUFFICES ASSUME Writes(at[t], r, "opened") PROVE FALSE
  OBVIOUS
<1>1. at[t].pc \in Waits /\ at[task].pc \in Waits /\ t # task
  BY DEF Writes, Waits
<1>2. PICK j \in DOMAIN lockq : lockq[j] = t
  BY <1>1 DEF Threads
<1>3. /\ Len(lockq) \in Nat /\ DOMAIN lockq = 1 .. Len(lockq) /\ lockq[1] = task
      /\ 1 \in 1 .. Len(lockq)
  BY <1>2 DEF Threads, Holds
<1>4. 1 < j
  BY <1>1, <1>2, <1>3
<1> QED
  BY <1>2, <1>3, <1>4 DEF InOrder
-----------------------------------------------------------------------------
(* Requests a step is not about                                            *)

\* What was in the stream is still there, or was dropped.
StreamKept(r) ==
    /\ r \in missed => r \in missed'
    /\ \A e \in {Asked(r), Settled(r)} :
          /\ e \in Stream' => e \in Stream
          /\ e \in Stream => e \in Stream' \/ r \in missed'

\* A sync may publish the request again, and another request's writers move up.
Untroubled(r) ==
    /\ r \in requests' <=> r \in requests
    /\ told'[r] = told[r] \/ (r \in requests /\ told'[r] = "opened")
    /\ resolutions'[r] = resolutions[r] /\ agent'[r] = agent[r] /\ home'[r] = home[r]
    /\ r \in held' <=> r \in held
    /\ r \in stuck => r \in stuck'
    /\ StreamKept(r)
    /\ \A t \in Tasks : at'[t] = at[t] \/ (at[t].req # {r} /\ at'[t].req # {r})
    /\ InOrder(r)'

LEMMA Bystander ==
  ASSUME NEW r \in Requests, Good(r), Untroubled(r)
  PROVE  Good(r)'
<1>1. /\ Asked(r) \in Stream' => Asked(r) \in Stream
      /\ Settled(r) \in Stream' => Settled(r) \in Stream
      /\ Asked(r) \in Stream => Asked(r) \in Stream' \/ r \in missed'
      /\ Settled(r) \in Stream => Settled(r) \in Stream' \/ r \in missed'
      /\ r \in missed => r \in missed'
  BY DEF Untroubled, StreamKept
<1>2. /\ \A t \in Tasks : \A what : Writes(at'[t], r, what) <=> Writes(at[t], r, what)
      /\ \A t \in Tasks : AnswersTo(at'[t], r) <=> AnswersTo(at[t], r)
      /\ \A t \in Tasks : at'[t].req = {r} <=> at[t].req = {r}
      /\ \A t \in Tasks : at'[t].req = {r} => at'[t] = at[t]
  BY DEF Untroubled, Writes, AnswersTo
<1>3. /\ r \in requests' <=> r \in requests
      /\ told'[r] = told[r] \/ (r \in requests /\ told'[r] = "opened")
      /\ resolutions'[r] = resolutions[r] /\ agent'[r] = agent[r] /\ home'[r] = home[r]
      /\ r \in held' <=> r \in held
      /\ r \in stuck => r \in stuck'
      /\ InOrder(r)'
  BY DEF Untroubled
<1>4. Asked(r)' = Asked(r) /\ Settled(r)' = Settled(r)
  BY DEF Asked, Settled
<1>5. Ahead(r)'
  BY <1>1, <1>2, <1>3, <1>4 DEF Good, Ahead, Untouched
<1>6. Resolved(r)'
  BY <1>1, <1>2, <1>3, <1>4 DEF Good, Resolved, Writes
<1>7. Shown(r)'
  BY <1>1, <1>2, <1>3, <1>4 DEF Good, Shown, Resolved, Writes, AnswersTo
<1>8. Pending(r)'
  BY <1>1, <1>2, <1>3, <1>4 DEF Good, Pending, AnswersTo
<1> QED
  BY <1>5, <1>6, <1>7, <1>8 DEF Good
-----------------------------------------------------------------------------
(* What a step does about its own request                                  *)

MovesTo(task, frame) == at'[task] = frame /\ \A t \in Tasks : t # task => at'[t] = at[t]
\* _emit to the journal, or at once to the clients.
Emits(frame, r, what) ==
    \/ Writes(frame, r, what) /\ told' = told /\ resolutions' = resolutions
    \/ /\ frame.req = {} /\ ~Journaling
       /\ told'[r] = what
       /\ resolutions'[r] = IF what = "resolved" THEN resolutions[r] + 1 ELSE resolutions[r]
Keeps(r) ==
    /\ agent'[r] = agent[r] /\ home'[r] = home[r]
    /\ r \in stuck => r \in stuck'
    /\ r \in missed => r \in missed'

\* Once it is handled, an opening does not come again.
LEMMA Touched ==
  ASSUME NEW r \in Requests, Good(r),
         r \in requests \/ told[r] # "nothing" \/ \E t \in Tasks : at[t].req = {r}
  PROVE  Asked(r) \notin Stream /\ agent[r] # "quiet" /\ home[r] \in Sessions
  BY DEF Good, Ahead, Untouched

LEMMA NoWriters ==
  ASSUME Threads, ~Journaling, NEW r, NEW what, NEW t \in Tasks
  PROVE  ~Writes(at[t], r, what)
  BY DEF Threads, Fits, Writes

LEMMA OpenedGood ==
  ASSUME NEW r \in Requests, Good(r), Threads, NEW task \in Tasks, NEW frame,
         at[task].pc \in Calls, MovesTo(task, frame), InOrder(r)',
         Emits(frame, r, "opened"), Keeps(r), r \in requests',
         told[r] # "resolved", \A t \in Tasks : ~Writes(at[t], r, "resolved"),
         agent[r] # "quiet", Asked(r) \notin Stream',
         Settled(r) \in Stream' => Settled(r) \in Stream,
         r \in held' \/ Settled(r) \in Stream' \/ r \in stuck' \union missed'
  PROVE  Good(r)'
<1>1. /\ Asked(r)' = Asked(r) /\ Settled(r)' = Settled(r)
      /\ Asked(r) \notin Stream' /\ (Settled(r) \in Stream' => Settled(r) \in Stream)
  BY DEF Asked, Settled
<1>2. /\ agent'[r] = agent[r] /\ home'[r] = home[r] /\ told'[r] # "resolved"
      /\ resolutions'[r] = resolutions[r] /\ resolutions[r] = 0
      /\ told'[r] = "opened" \/ Writes(at'[task], r, "opened")
  BY DEF Emits, Keeps, MovesTo, Good, Resolved
<1>3. ASSUME NEW t \in Tasks
      PROVE  ~Writes(at'[t], r, "resolved")
             /\ (at'[t].pc = "answered" /\ at'[t].req = {r}
                    => at[t].pc = "answered" /\ at[t].req = {r})
  <2>1. CASE t = task
    BY <2>1 DEF MovesTo, Emits, Writes
  <2>2. CASE t # task
    BY <2>2 DEF MovesTo
  <2> QED
    BY <2>1, <2>2
<1>4. Ahead(r)'
  BY <1>1, <1>2 DEF Good, Ahead
<1>5. Resolved(r)'
  BY <1>1, <1>2, <1>3 DEF Good, Resolved
<1>6. Shown(r)'
  BY <1>2, <1>3 DEF Shown
<1>7. Pending(r)'
  BY <1>1 DEF Pending
<1> QED
  BY <1>4, <1>5, <1>6, <1>7 DEF Good

LEMMA ResolvedGood ==
  ASSUME NEW r \in Requests, Good(r), Threads, NEW task \in Tasks, NEW frame,
         at[task].pc \in Calls, MovesTo(task, frame), InOrder(r)',
         Emits(frame, r, "resolved"), Keeps(r), r \notin requests',
         resolutions[r] \in Nat,
         r \in requests \/ r \notin Approvals,
         agent[r] = "settled", home[r] \in Sessions, Asked(r) \notin Stream'
  PROVE  Good(r)'
<1>1. Asked(r)' = Asked(r) /\ Settled(r)' = Settled(r) /\ Asked(r) \notin Stream'
  BY DEF Asked, Settled
<1>2. agent'[r] = "settled" /\ home'[r] = home[r]
  BY DEF Keeps
<1>3. ASSUME NEW t \in Tasks
      PROVE  /\ t # task => at'[t] = at[t]
             /\ Writes(at'[t], r, "opened") => t # task /\ Writes(at[t], r, "opened")
             /\ Writes(at'[t], r, "resolved") => Writes(at[t], r, "resolved") \/ t = task
  <2>1. CASE t = task
    BY <2>1 DEF MovesTo, Emits, Writes
  <2>2. CASE t # task
    BY <2>2 DEF MovesTo
  <2> QED
    BY <2>1, <2>2
<1>4. \/ Writes(at'[task], r, "resolved") /\ told' = told /\ resolutions' = resolutions
      \/ /\ told'[r] = "resolved" /\ resolutions'[r] = resolutions[r] + 1
         /\ \A t \in Tasks : \A what : ~Writes(at[t], r, what)
         /\ ~Writes(at'[task], r, "resolved")
  <2>1. CASE Writes(frame, r, "resolved") /\ told' = told /\ resolutions' = resolutions
    BY <2>1 DEF MovesTo
  <2>2. CASE /\ frame.req = {} /\ ~Journaling /\ told'[r] = "resolved"
             /\ resolutions'[r] = resolutions[r] + 1
    BY <2>2, NoWriters DEF MovesTo, Writes
  <2> QED
    BY <2>1, <2>2 DEF Emits
<1>5. r \in Approvals =>
        /\ told[r] # "resolved" /\ resolutions[r] = 0
        /\ \A t \in Tasks : ~Writes(at[t], r, "resolved")
  BY DEF Good, Resolved
<1>6. Ahead(r)'
  BY <1>1, <1>2 DEF Good, Ahead
<1>7. Resolved(r)'
  <2>1. told'[r] # "resolved" => resolutions'[r] = 0
    BY <1>4 DEF Good, Resolved
  <2>2. r \in Approvals =>
          /\ resolutions'[r] <= 1
          /\ \A t, u \in Tasks :
               Writes(at'[t], r, "resolved") /\ Writes(at'[u], r, "resolved") => t = u
          /\ told'[r] = "resolved" => \A t \in Tasks : ~Writes(at'[t], r, "resolved")
    BY <1>3, <1>4, <1>5
  <2> QED
    BY <1>1, <1>2, <2>1, <2>2 DEF Resolved
<1>8. Shown(r)'
  <2>1. \A t \in Tasks : Writes(at'[t], r, "opened") =>
          /\ told'[r] # "resolved"
          /\ \E u \in Tasks : Writes(at'[u], r, "resolved")
    BY <1>3, <1>4 DEF Good, Shown
  <2>2. told'[r] = "opened" => \E t \in Tasks : Writes(at'[t], r, "resolved")
    BY <1>4
  <2> QED
    BY <2>1, <2>2 DEF Shown
<1>9. Pending(r)'
  BY <1>1, <1>2 DEF Pending
<1> QED
  BY <1>6, <1>7, <1>8, <1>9 DEF Good

\* The backend is asked: by the owner, or for a request that was just opened.
LEMMA AnsweredGood ==
  ASSUME NEW r \in Requests, Good(r), Threads, NEW task \in Tasks, NEW frame,
         at[task].pc = "idle", MovesTo(task, frame), InOrder(r)',
         AnswersTo(frame, r), frame.pc = "answering",
         r \in requests \/ (frame.for = "bridge" /\ \A t \in Tasks : ~Writes(at[t], r, "opened")),
         Keeps(r), r \in requests', told[r] # "resolved",
         told' = told, resolutions' = resolutions,
         \A t \in Tasks : ~Writes(at[t], r, "resolved"),
         agent[r] # "quiet", Asked(r) \notin Stream',
         Settled(r) \in Stream' => Settled(r) \in Stream
  PROVE  Good(r)'
<1>1. /\ Asked(r)' = Asked(r) /\ Settled(r)' = Settled(r)
      /\ Asked(r) \notin Stream' /\ (Settled(r) \in Stream' => Settled(r) \in Stream)
  BY DEF Asked, Settled
<1>2. agent'[r] = agent[r] /\ home'[r] = home[r]
  BY DEF Keeps
<1>3. at[task].req = {}
  BY DEF Threads, Fits, Answers
<1>4. ASSUME NEW t \in Tasks
      PROVE  /\ t # task => at'[t] = at[t]
             /\ \A what : Writes(at'[t], r, what) <=> Writes(at[t], r, what)
             /\ AnswersTo(at[t], r) => t # task
             /\ at'[t].pc = "answered" /\ at'[t].req = {r}
                    => at[t].pc = "answered" /\ at[t].req = {r}
  <2>1. CASE t = task
    BY <1>3, <2>1 DEF MovesTo, AnswersTo, Writes, Answers
  <2>2. CASE t # task
    BY <2>2 DEF MovesTo
  <2> QED
    BY <2>1, <2>2
<1>5. Ahead(r)'
  BY <1>1, <1>2 DEF Good, Ahead
<1>6. Resolved(r)'
  BY <1>1, <1>2, <1>4 DEF Good, Resolved
<1>7. AnswersTo(at'[task], r) /\ at'[task].for = frame.for
  BY DEF MovesTo
<1>8. Shown(r)'
  <2>1. \A t \in Tasks : Writes(at'[t], r, "opened") => told'[r] # "resolved" /\ r \in requests'
    OBVIOUS
  <2>2. ASSUME told'[r] # "opened"
        PROVE  \E t \in Tasks : \/ Writes(at'[t], r, "opened")
                                \/ AnswersTo(at'[t], r) /\ at'[t].for = "bridge"
    <3>1. CASE frame.for = "bridge"
      BY <1>7, <3>1
    <3>2. CASE r \in requests
      <4>1. PICK t \in Tasks : \/ Writes(at[t], r, "opened")
                               \/ AnswersTo(at[t], r) /\ at[t].for = "bridge"
        BY <2>2, <3>2 DEF Good, Shown
      <4> QED
        BY <1>4, <4>1
    <3> QED
      BY <3>1, <3>2
  <2> QED
    BY <2>1, <2>2 DEF Shown
<1>9. Pending(r)'
  BY <1>7 DEF Pending, Keeps
<1> QED
  BY <1>5, <1>6, <1>8, <1>9 DEF Good

\* The task is through with its request and says nothing.
LEMMA ForgottenGood ==
  ASSUME NEW r \in Requests, Good(r), Threads, NEW task \in Tasks, NEW frame,
         AnswersTo(at[task], r), MovesTo(task, frame), frame.req = {}, InOrder(r)',
         r \notin requests \/ (at[task].for = "owner" /\ r \in stuck'),
         Keeps(r), r \in requests' <=> r \in requests,
         told' = told, resolutions' = resolutions,
         StreamKept(r)
  PROVE  Good(r)'
<1>1. /\ Asked(r)' = Asked(r) /\ Settled(r)' = Settled(r)
      /\ Asked(r) \notin Stream /\ agent[r] # "quiet" /\ home[r] \in Sessions
      /\ Asked(r) \notin Stream' /\ (Settled(r) \in Stream' => Settled(r) \in Stream)
      /\ (Settled(r) \in Stream => Settled(r) \in Stream' \/ r \in missed')
  BY Touched DEF Asked, Settled, AnswersTo, StreamKept
<1>2. agent'[r] = agent[r] /\ home'[r] = home[r] /\ (r \in missed => r \in missed')
  BY DEF Keeps
<1>3. ASSUME NEW t \in Tasks
      PROVE  /\ t # task => at'[t] = at[t]
             /\ \A what : Writes(at'[t], r, what) <=> Writes(at[t], r, what)
             /\ Writes(at[t], r, "opened") => t # task
             /\ at'[t].pc = "answered" /\ at'[t].req = {r}
                    => at[t].pc = "answered" /\ at[t].req = {r}
  <2>1. CASE t = task
    BY <2>1 DEF MovesTo, AnswersTo, Writes, Answers
  <2>2. CASE t # task
    BY <2>2 DEF MovesTo
  <2> QED
    BY <2>1, <2>2
<1>4. Ahead(r)'
  BY <1>1, <1>2 DEF Good, Ahead
<1>5. Resolved(r)'
  BY <1>1, <1>2, <1>3 DEF Good, Resolved
<1>6. Shown(r)'
  <2>1. ASSUME r \in requests', told'[r] # "opened"
        PROVE  \E t \in Tasks : \/ Writes(at'[t], r, "opened")
                                \/ AnswersTo(at'[t], r) /\ at'[t].for = "bridge"
    <3>1. PICK t \in Tasks : \/ Writes(at[t], r, "opened")
                             \/ AnswersTo(at[t], r) /\ at[t].for = "bridge"
      BY <2>1 DEF Good, Shown
    <3>2. t # task
      BY <1>3, <2>1, <3>1
    <3> QED
      BY <1>3, <3>1, <3>2
  <2>2. told'[r] = "opened" /\ r \notin requests' => \E t \in Tasks : Writes(at'[t], r, "resolved")
    BY <1>3 DEF Good, Shown
  <2>3. \A t \in Tasks : Writes(at'[t], r, "opened") =>
           /\ told'[r] # "resolved"
           /\ r \in requests' \/ \E u \in Tasks : Writes(at'[u], r, "resolved")
    BY <1>3 DEF Good, Shown
  <2> QED
    BY <2>1, <2>2, <2>3 DEF Shown
<1>7. Pending(r)'
  BY <1>1, <1>2 DEF Good, Pending
<1> QED
  BY <1>4, <1>5, <1>6, <1>7 DEF Good

\* What was written to the journal is published.
LEMMA PublishedGood ==
  ASSUME NEW r \in Requests, Good(r), Threads, NEW task \in Tasks, NEW frame,
         Holds(task, "writing"), NEW what \in {"opened", "resolved"},
         Writes(at[task], r, what), MovesTo(task, frame), frame.req = {}, InOrder(r)',
         Keeps(r), r \in requests' <=> r \in requests, r \in held' <=> r \in held,
         told'[r] = what, resolutions[r] \in Nat,
         resolutions'[r] = IF what = "resolved" THEN resolutions[r] + 1 ELSE resolutions[r],
         UNCHANGED <<events, deferred, todo>>
  PROVE  Good(r)'
<1>1. /\ Asked(r)' = Asked(r) /\ Settled(r)' = Settled(r) /\ Stream' = Stream
      /\ Asked(r) \notin Stream /\ agent[r] # "quiet" /\ home[r] \in Sessions
  BY Touched DEF Asked, Settled, Writes, Stream
<1>2. /\ agent'[r] = agent[r] /\ home'[r] = home[r]
      /\ r \in missed => r \in missed'
      /\ r \in stuck => r \in stuck'
  BY DEF Keeps
<1>3. ASSUME NEW t \in Tasks
      PROVE  /\ t # task => at'[t] = at[t]
             /\ \A say : Writes(at'[t], r, say) <=> t # task /\ Writes(at[t], r, say)
             /\ AnswersTo(at'[t], r) <=> AnswersTo(at[t], r)
             /\ at'[t].pc = "answered" /\ at'[t].req = {r}
                    => at[t].pc = "answered" /\ at[t].req = {r}
  <2>1. CASE t = task
    BY <2>1 DEF MovesTo, AnswersTo, Writes, Answers
  <2>2. CASE t # task
    BY <2>2 DEF MovesTo
  <2> QED
    BY <2>1, <2>2
<1>4. Ahead(r)'
  BY <1>1, <1>2 DEF Good, Ahead
<1>5. Pending(r)'
  BY <1>1, <1>2, <1>3 DEF Good, Pending
<1>6. CASE what = "opened"
  <2>1. told[r] # "resolved" /\ resolutions'[r] = 0
    BY <1>6 DEF Good, Resolved, Shown
  <2>2. Resolved(r)'
    BY <1>1, <1>2, <1>3, <1>6, <2>1 DEF Good, Resolved
  <2>3. r \in requests \/ \E u \in Tasks : u # task /\ Writes(at[u], r, "resolved")
    BY <1>6 DEF Good, Shown, Writes
  <2>4. Shown(r)'
    BY <1>3, <1>6, <2>3 DEF Good, Shown
  <2> QED
    BY <1>4, <1>5, <2>2, <2>4 DEF Good
<1>7. CASE what = "resolved"
  <2>1. agent[r] = "settled" /\ r \notin requests
    BY <1>7 DEF Good, Resolved
  <2>2. \A t \in Tasks : ~Writes(at[t], r, "opened")
    BY <1>7, HeadIsFirst DEF Good, Shown
  <2>3. r \in Approvals => /\ told[r] # "resolved" /\ resolutions[r] = 0
                           /\ \A t \in Tasks : t # task => ~Writes(at[t], r, "resolved")
    BY <1>7 DEF Good, Resolved
  <2>4. resolutions'[r] = resolutions[r] + 1
    BY <1>7
  <2>5. Resolved(r)'
    BY <1>1, <1>2, <1>3, <1>7, <2>1, <2>3, <2>4 DEF Good, Resolved
  <2>6. Shown(r)'
    BY <1>3, <1>7, <2>1, <2>2 DEF Shown
  <2> QED
    BY <1>4, <1>5, <2>5, <2>6 DEF Good
<1> QED
  BY <1>6, <1>7
-----------------------------------------------------------------------------
(* The stream of events                                                    *)

Streams == deferred \in Seq(Event) /\ todo \in Seq(Event) /\ events \in Seq(Event)

LEMMA StreamSame ==
  ASSUME UNCHANGED <<events, deferred, todo>>, Streams, Distinct
  PROVE  Streams' /\ Distinct' /\ Stream' = Stream
  BY DEF Streams, Distinct, Stream, Once, Apart, Elems

\* The backend reports something new.
LEMMA StreamGrows ==
  ASSUME Streams, Distinct, NEW e \in Event, e.kind = "asked" => e \notin Stream,
         events' = Append(events, e), UNCHANGED <<deferred, todo>>
  PROVE  Streams' /\ Distinct' /\ Stream' = Stream \union {e}
<1>1. /\ events' \in Seq(Event) /\ Elems(events') = Elems(events) \union {e}
      /\ Once(events')
  BY Pushed DEF Streams, Distinct, Stream
<1>2. Elems(deferred') = Elems(deferred) /\ Elems(todo') = Elems(todo)
  OBVIOUS
<1>3. Stream' = Stream \union {e}
  <2>1. Stream' = Elems(events') \union Elems(deferred') \union Elems(todo')
    BY DEF Stream, Elems
  <2> QED
    BY <1>1, <1>2, <2>1 DEF Stream
<1>4. Distinct'
  <2>1. Once(deferred') /\ Once(todo')
    BY DEF Distinct
  <2>2. Apart(events', deferred') /\ Apart(events', todo') /\ Apart(deferred', todo')
    BY <1>1, <1>2 DEF Distinct, Apart, Stream
  <2> QED
    BY <1>1, <2>1, <2>2 DEF Distinct, Once, Apart, Elems
<1> QED
  BY <1>1, <1>3, <1>4 DEF Streams

\* The bridge takes the next event, or one the worker deferred,
Taken(e) ==
    \/ /\ events # << >> /\ e = Head(events) /\ events' = Tail(events)
       /\ UNCHANGED <<deferred, todo>>
    \/ /\ todo # << >> /\ e = Head(todo) /\ todo' = Tail(todo)
       /\ UNCHANGED <<events, deferred>>

LEMMA StreamTaken ==
  ASSUME Streams, Distinct, NEW e, Taken(e)
  PROVE  /\ Streams' /\ Distinct' /\ e \in Event /\ Stream = Stream' \union {e}
         /\ e.kind = "asked" => e \notin Stream'
<1>1. Stream' = Elems(events') \union Elems(deferred') \union Elems(todo')
  BY DEF Stream, Elems
<1>2. Distinct' <=> /\ Once(events') /\ Once(deferred') /\ Once(todo')
                    /\ Apart(events', deferred') /\ Apart(events', todo')
                    /\ Apart(deferred', todo')
  BY DEF Distinct, Once, Apart, Elems
<1>3. CASE /\ events # << >> /\ e = Head(events) /\ events' = Tail(events)
           /\ UNCHANGED <<deferred, todo>>
  <2>1. /\ e \in Event /\ events' \in Seq(Event)
        /\ Elems(events) = Elems(events') \union {e} /\ Once(events')
        /\ e.kind = "asked" => e \notin Elems(events')
    BY <1>3, Popped DEF Streams, Distinct
  <2>2. deferred' = deferred /\ todo' = todo
    BY <1>3
  <2>3. e.kind = "asked" => e \notin Elems(deferred) \union Elems(todo)
    BY <2>1 DEF Distinct, Apart
  <2>4. Distinct'
    BY <1>2, <2>1, <2>2 DEF Distinct, Apart
  <2> QED
    BY <1>1, <2>1, <2>2, <2>3, <2>4 DEF Streams, Stream
<1>4. CASE /\ todo # << >> /\ e = Head(todo) /\ todo' = Tail(todo)
           /\ UNCHANGED <<events, deferred>>
  <2>1. /\ e \in Event /\ todo' \in Seq(Event)
        /\ Elems(todo) = Elems(todo') \union {e} /\ Once(todo')
        /\ e.kind = "asked" => e \notin Elems(todo')
    BY <1>4, Popped DEF Streams, Distinct
  <2>2. deferred' = deferred /\ events' = events
    BY <1>4
  <2>3. e.kind = "asked" => e \notin Elems(deferred) \union Elems(events)
    BY <2>1 DEF Distinct, Apart
  <2>4. Distinct'
    BY <1>2, <2>1, <2>2 DEF Distinct, Apart
  <2> QED
    BY <1>1, <2>1, <2>2, <2>3, <2>4 DEF Streams, Stream
<1> QED
  BY <1>3, <1>4 DEF Taken

\* or puts it off until the attachment is over,
LEMMA StreamDeferred ==
  ASSUME Streams, Distinct, events # << >>, events' = Tail(events),
         deferred' = Append(deferred, Head(events)), todo' = todo
  PROVE  Streams' /\ Distinct' /\ Stream' = Stream
<1> DEFINE e == Head(events)
<1>1. /\ e \in Event /\ events' \in Seq(Event)
      /\ Elems(events) = Elems(events') \union {e} /\ Once(events')
      /\ e.kind = "asked" => e \notin Elems(events')
  BY Popped DEF Streams, Distinct
<1>2. e.kind = "asked" => e \notin Elems(deferred) /\ e \notin Elems(todo)
  BY <1>1 DEF Distinct, Apart
<1>3. /\ deferred' \in Seq(Event) /\ Elems(deferred') = Elems(deferred) \union {e}
      /\ Once(deferred')
  BY <1>1, <1>2, Pushed DEF Streams, Distinct
<1> HIDE DEF e
<1>4. Stream' = Elems(events') \union Elems(deferred') \union Elems(todo')
  BY DEF Stream, Elems
<1>5. Apart(events', deferred') /\ Apart(events', todo') /\ Apart(deferred', todo')
  BY <1>1, <1>2, <1>3 DEF Distinct, Apart
<1>6. Distinct'
  <2>1. Once(todo')
    BY DEF Distinct
  <2> QED
    BY <1>1, <1>3, <1>5, <2>1 DEF Distinct, Once, Apart, Elems
<1> QED
  BY <1>1, <1>3, <1>4, <1>6 DEF Streams, Stream

\* which leaves them to be replayed,
LEMMA StreamReplayed ==
  ASSUME Streams, Distinct, todo = << >>, todo' = deferred, deferred' = << >>,
         events' = events
  PROVE  Streams' /\ Distinct' /\ Stream' = Stream
<1>1. Elems(todo) = {} /\ Elems(deferred') = {} /\ Once(deferred') /\ deferred' \in Seq(Event)
  BY NoElems
<1>2. Stream' = Elems(events') \union Elems(deferred') \union Elems(todo')
  BY DEF Stream, Elems
<1>3. /\ Once(events') /\ Once(todo')
      /\ Apart(events', deferred') /\ Apart(events', todo') /\ Apart(deferred', todo')
  BY <1>1 DEF Distinct, Apart
<1>4. Distinct'
  BY <1>1, <1>3 DEF Distinct, Once, Apart, Elems
<1> QED
  BY <1>1, <1>2, <1>4 DEF Streams, Stream

\* or drops them.
LEMMA StreamDropped ==
  ASSUME Streams, Distinct, events' = events,
         \/ deferred' = << >> /\ todo' = todo
            /\ missed' = missed \union {deferred[i].req : i \in DOMAIN deferred}
         \/ todo' = << >> /\ deferred' = deferred
            /\ missed' = missed \union {todo[i].req : i \in DOMAIN todo}
  PROVE  Streams' /\ Distinct' /\ \A r \in Requests : StreamKept(r)
<1>1. Elems(<< >>) = {} /\ Once(<< >>) /\ << >> \in Seq(Event)
  BY NoElems
<1>2. Stream' = Elems(events') \union Elems(deferred') \union Elems(todo')
  BY DEF Stream, Elems
<1>3. /\ Once(events') /\ Once(todo') /\ Once(deferred')
      /\ Apart(events', deferred') /\ Apart(events', todo') /\ Apart(deferred', todo')
  BY <1>1 DEF Distinct, Apart
<1>4. Distinct'
  BY <1>3 DEF Distinct, Once, Apart, Elems
<1>5. Streams'
  BY <1>1 DEF Streams
<1>6. missed \subseteq missed' /\ \A e \in Stream' : e \in Stream
  BY <1>1, <1>2 DEF Stream
<1>7. \A e \in Stream : e \in Stream' \/ e.req \in missed'
  BY <1>1, <1>2 DEF Stream, Elems
<1>8. \A r \in Requests : StreamKept(r)
  <2> TAKE r \in Requests
  <2>1. Asked(r).req = r /\ Settled(r).req = r
    BY TheyAreEvents
  <2>2. r \in missed => r \in missed'
    BY <1>6
  <2>3. \A e \in {Asked(r), Settled(r)} :
           /\ e \in Stream' => e \in Stream
           /\ e \in Stream => e \in Stream' \/ r \in missed'
    BY <1>6, <1>7, <2>1
  <2> QED
    BY <2>2, <2>3 DEF StreamKept
<1> QED
  BY <1>4, <1>5, <1>8
-----------------------------------------------------------------------------
(* Steps of the environment                                                *)

LEMMA ThreadsStay ==
  ASSUME Threads, UNCHANGED <<at, lockq, backend>>
  PROVE  Threads' /\ \A r : InOrder(r) => InOrder(r)'
  BY DEF Threads, Fits, Journaling, InOrder, Writes

LEMMA TypesOfStream == Scalars => Streams
  BY DEF Scalars, Streams

LEMMA AskStep ==
  ASSUME IInv, NEW r \in Requests, NEW s \in Sessions, Ask(r, s)
  PROVE  IInv'
<1>1. Base /\ Good(r) /\ Streams /\ Distinct /\ Threads /\ Scalars
  BY TypesOfStream DEF IInv, Base
<1>2. /\ Asked(r) \in Event /\ Asked(r).kind = "asked" /\ Asked(r) \notin Stream
      /\ Asked(r) # Settled(r)
  BY <1>1, TheyAreEvents DEF Good, Ahead, Ask
<1>3. events' = Append(events, Asked(r)) /\ UNCHANGED <<deferred, todo>>
  BY DEF Ask, Asked
<1>4. Streams' /\ Distinct' /\ Stream' = Stream \union {Asked(r)}
  BY <1>1, <1>2, <1>3, StreamGrows
<1>5. Threads' /\ \A x : InOrder(x) => InOrder(x)'
  BY <1>1, ThreadsStay DEF Ask
<1>6. Scalars'
  BY <1>1, <1>4 DEF Scalars, Streams, Ask, topic, publics
<1>7. Base'
  BY <1>1, <1>4, <1>5, <1>6 DEF Base, Deferring, Ask
<1>8. ASSUME NEW x \in Requests, x # r PROVE Good(x)'
  <2>1. Asked(x) # Asked(r) /\ Settled(x) # Asked(r)
    BY <1>8 DEF Asked, Settled
  <2>2. StreamKept(x)
    BY <1>4, <2>1 DEF StreamKept, Ask
  <2>3. Good(x)
    BY DEF IInv
  <2>4. Untroubled(x)
    <3>1. InOrder(x)'
      BY <1>5, <2>3 DEF Good, Shown
    <3>2. UNCHANGED <<requests, told, resolutions, at, stuck>>
      BY DEF Ask, publics
    <3>3. agent'[x] = agent[x] /\ home'[x] = home[x] /\ (x \in held' <=> x \in held)
      BY <1>1, <1>8 DEF Ask, Scalars
    <3> QED
      BY <2>2, <3>1, <3>2, <3>3 DEF Untroubled
  <2> QED
    BY <2>3, <2>4, Bystander
<1>9. Good(r)'
  <2>1. Untouched(r) /\ r \notin held /\ Settled(r) \notin Stream /\ InOrder(r)'
    BY <1>1, <1>5 DEF Good, Ahead, Shown, Ask
  <2>2. Asked(r)' = Asked(r) /\ Settled(r)' = Settled(r)
    BY DEF Asked, Settled
  <2>3. Untouched(r)'
    BY <2>1 DEF Untouched, Ask, publics
  <2>4. agent'[r] = "waiting" /\ home'[r] = s /\ r \in held'
    BY <1>1 DEF Scalars, Ask
  <2>5. Asked(r) \in Stream' /\ Settled(r) \notin Stream'
    BY <1>2, <1>4, <2>1
  <2>6. \A t \in Tasks : \A what : ~Writes(at'[t], r, what) /\ ~AnswersTo(at'[t], r)
    BY <2>3 DEF Untouched, Writes, AnswersTo
  <2> QED
    BY <2>1, <2>2, <2>3, <2>4, <2>5, <2>6
       DEF Good, Ahead, Resolved, Shown, Pending, Untouched, Writes
<1> QED
  BY <1>7, <1>8, <1>9 DEF IInv

LEMMA SettleElsewhereStep ==
  ASSUME IInv, NEW r \in Requests, SettleElsewhere(r)
  PROVE  IInv'
<1>1. Base /\ Good(r) /\ Streams /\ Distinct /\ Threads /\ Scalars
  BY TypesOfStream DEF IInv, Base
<1>2. Settled(r) \in Event /\ Settled(r).kind = "settled" /\ Asked(r) # Settled(r)
  BY TheyAreEvents
<1>3. /\ UNCHANGED <<deferred, todo>>
      /\ \/ events' = Append(events, Settled(r)) /\ stuck' = stuck
         \/ events' = events /\ stuck' = stuck \union {r}
  BY DEF SettleElsewhere, Settled
<1>4. /\ Streams' /\ Distinct'
      /\ \/ Stream' = Stream \union {Settled(r)}
         \/ Stream' = Stream /\ r \in stuck'
  <2>1. CASE events' = Append(events, Settled(r))
    BY <1>1, <1>2, <1>3, <2>1, StreamGrows
  <2>2. CASE events' = events /\ stuck' = stuck \union {r}
    BY <1>1, <1>3, <2>2, StreamSame
  <2> QED
    BY <1>3, <2>1, <2>2
<1>5. Threads' /\ \A x : InOrder(x) => InOrder(x)'
  BY <1>1, ThreadsStay DEF SettleElsewhere
<1>6. Scalars'
  BY <1>1, <1>3, <1>4 DEF Scalars, Streams, SettleElsewhere, topic, publics
<1>7. Base'
  BY <1>1, <1>4, <1>5, <1>6 DEF Base, Deferring, SettleElsewhere
<1>8. ASSUME NEW x \in Requests, x # r PROVE Good(x)'
  <2>1. Asked(x) # Settled(r) /\ Settled(x) # Settled(r)
    BY <1>8 DEF Asked, Settled
  <2>2. StreamKept(x)
    BY <1>4, <2>1 DEF StreamKept, SettleElsewhere
  <2>3. Good(x)
    BY DEF IInv
  <2>4. Untroubled(x)
    <3>1. InOrder(x)'
      BY <1>5, <2>3 DEF Good, Shown
    <3>2. UNCHANGED <<requests, told, resolutions, at, home>> /\ (x \in stuck => x \in stuck')
      BY <1>3 DEF SettleElsewhere, publics
    <3>3. agent'[x] = agent[x] /\ (x \in held' <=> x \in held)
      BY <1>1, <1>8 DEF SettleElsewhere, Scalars
    <3> QED
      BY <2>2, <3>1, <3>2, <3>3 DEF Untroubled
  <2> QED
    BY <2>3, <2>4, Bystander
<1>9. Good(r)'
  <2>1. agent[r] = "waiting" /\ agent'[r] = "settled"
    BY <1>1 DEF Scalars, SettleElsewhere
  <2>2. /\ Asked(r)' = Asked(r) /\ Settled(r)' = Settled(r)
        /\ Asked(r) \in Stream' <=> Asked(r) \in Stream
        /\ Settled(r) \in Stream' \/ r \in stuck'
    BY <1>2, <1>4 DEF Asked, Settled
  <2>3. UNCHANGED <<requests, told, resolutions, at, home, lockq>>
    BY DEF SettleElsewhere, publics
  <2>4. Ahead(r)'
    BY <1>1, <2>1, <2>2, <2>3 DEF Good, Ahead, Untouched
  <2>5. Resolved(r)'
    BY <1>1, <2>1, <2>3 DEF Good, Resolved, Writes
  <2>6. Shown(r)'
    BY <1>1, <1>5, <2>3 DEF Good, Shown, Writes, AnswersTo
  <2>7. Pending(r)'
    BY <2>1, <2>2 DEF Pending
  <2> QED
    BY <2>4, <2>5, <2>6, <2>7 DEF Good
<1> QED
  BY <1>7, <1>8, <1>9 DEF IInv
-----------------------------------------------------------------------------
(* Steps that are about no request                                         *)

LEMMA MoveStands ==
  ASSUME Threads, NEW task \in Tasks, NEW frame, NEW q, Useful(task, frame),
         Released(task, q), Advance(task, frame, q)
  PROVE  Threads' /\ MovesTo(task, frame)
  BY Standing DEF MovesTo

LEMMA RestFits == \A task \in Tasks : Useful(task, Rest) /\ Rest.pc = "idle" /\ Rest.req = {}
<1>1. Rest \in Frame
  BY RelayAssumption DEF Rest, Frame
<1>2. \A task \in Tasks : Fits(task, Rest)
  BY DEF Rest, Fits, Answers
<1> QED
  BY <1>1, <1>2 DEF Useful, Rest

\* The requests and what is known of them stay; clients may be shown again
\* what is pending, and events may be dropped.
Calm ==
    /\ UNCHANGED <<backend, requests, resolutions, agent, home, held, stuck>>
    /\ \A r \in Requests :
          /\ told'[r] = told[r] \/ (r \in requests /\ told'[r] = "opened")
          /\ StreamKept(r)

LEMMA CalmMoves ==
  ASSUME IInv, Calm, NEW task \in Tasks, NEW frame, NEW q, Useful(task, frame),
         Released(task, q), Advance(task, frame, q), at[task].req = {}, frame.req = {}
  PROVE  Threads' /\ MovesTo(task, frame) /\ \A r \in Requests : Good(r)'
<1>1. Threads
  BY DEF IInv, Base
<1>2. Threads' /\ MovesTo(task, frame)
  BY <1>1, MoveStands
<1>3. ASSUME NEW r \in Requests PROVE Good(r)'
  <2>1. Good(r)
    BY DEF IInv
  <2>2. ~Writes(frame, r, "opened")
    BY DEF Writes
  <2>3. InOrder(r)'
    BY <1>1, <2>1, <2>2, OrderStays DEF Good, Shown
  <2>4. \A t \in Tasks : at'[t] = at[t] \/ (at[t].req # {r} /\ at'[t].req # {r})
    BY <1>2 DEF MovesTo
  <2>5. Untroubled(r)
    BY <2>3, <2>4 DEF Calm, Untroubled
  <2> QED
    BY <2>1, <2>5, Bystander
<1> QED
  BY <1>2, <1>3

LEMMA CalmStays ==
  ASSUME IInv, Calm, UNCHANGED <<at, lockq>>
  PROVE  Threads' /\ \A r \in Requests : Good(r)'
<1>1. Threads' /\ \A r : InOrder(r) => InOrder(r)'
  BY ThreadsStay DEF IInv, Base, Calm
<1>2. ASSUME NEW r \in Requests PROVE Good(r)'
  <2>1. Good(r)
    BY DEF IInv
  <2>2. Untroubled(r)
    BY <1>1, <2>1 DEF Calm, Untroubled, Good, Shown
  <2> QED
    BY <2>1, <2>2, Bystander
<1> QED
  BY <1>1, <1>2

LEMMA StreamStays ==
  ASSUME Streams, Distinct, UNCHANGED <<events, deferred, todo, missed>>
  PROVE  Streams' /\ Distinct' /\ \A r \in Requests : StreamKept(r)
<1>1. Streams' /\ Distinct' /\ Stream' = Stream
  BY StreamSame
<1> QED
  BY <1>1 DEF StreamKept

\* Where the topic handler and the worker start, and what the lock gives back.
LEMMA HoldsReleases ==
  ASSUME Threads, NEW task \in Tasks, NEW pc \in Waits, Holds(task, pc)
  PROVE  Released(task, Tail(lockq)) /\ at[task].pc = pc
<1>1. \E i \in DOMAIN lockq : lockq[i] = task
  BY DEF Holds, Threads
<1>2. lockq # << >>
  BY <1>1
<1> QED
  BY <1>2 DEF Holds, Released

LEMMA CallReleases ==
  ASSUME Threads, NEW task \in Tasks, at[task].pc \in Calls
  PROVE  Released(task, lockq)
  BY DEF Released

LEMMA FreeOfRequests ==
  ASSUME Threads, NEW task \in Tasks, at[task].pc \notin Answers \union {"writing"}
  PROVE  at[task].req = {}
  BY DEF Threads, Fits

LEMMA Finishes ==
  ASSUME NEW task \in Tasks, NEW q, Finish(task, q), backend' = backend
  PROVE  Advance(task, Rest, q) /\ Useful(task, Rest) /\ Rest.req = {}
  BY RestFits DEF Finish, Advance, Waits

LEMMA LeastIsIn ==
  ASSUME NEW S \in SUBSET Nat, S # {}
  PROVE  Min(S) \in S
<1>1. PICK x \in S : \A y \in S : ~(<<y, x>> \in OpToRel(<, Nat))
  BY WFMin, NatLessThanWellFounded, Zenon
<1>2. \A y \in S : x =< y
  <2> SUFFICES ASSUME NEW y \in S, ~(x =< y) PROVE FALSE
    OBVIOUS
  <2>1. x \in Nat /\ y \in Nat /\ y < x
    OBVIOUS
  <2>2. <<y, x>> \in OpToRel(<, Nat)
    BY <2>1 DEF OpToRel
  <2> QED
    BY <1>1, <2>2
<1> QED
  BY <1>2 DEF Min

LEMMA FreshIsBinding ==
  ASSUME NEW s \in Sessions \union {NoSession}
  PROVE  Fresh(s) \in [sid : Sessions \union {NoSession}, obj : Identities \union {0}]
<1> DEFINE free == Identities \ {binding.obj, at["worker"].obj}
<1>1. 1 \in free \/ 2 \in free \/ 3 \in free
  BY DEF Identities
<1>2. free \in SUBSET Nat /\ free # {} /\ free \subseteq Identities
  BY <1>1 DEF Identities
<1>3. Min(free) \in free
  <2> HIDE DEF free
  <2> QED
    BY <1>2, LeastIsIn
<1>4. Min(free) \in Identities
  BY <1>2, <1>3
<1> QED
  BY <1>4 DEF Fresh
-----------------------------------------------------------------------------
(* Attaching, detaching and topics                                         *)

LEMMA AttachStep ==
  ASSUME IInv, NEW s \in Sessions, Attach(s)
  PROVE  IInv'
<1> DEFINE frame == [Rest EXCEPT !.pc = "attaching", !.sid = s]
<1>1. Scalars /\ Threads /\ Deferring /\ Distinct /\ Streams
  BY TypesOfStream DEF IInv, Base
<1>2. /\ at["worker"].pc = "idle" /\ todo = << >> /\ deferred = << >> /\ "worker" \in Tasks
      /\ deferred' = deferred
  BY <1>1 DEF Attach, MayAct, Ready, Deferring, Tasks
<1>3. Useful("worker", frame) /\ frame.pc = "attaching" /\ frame.req = {}
  <2>1. frame \in Frame /\ frame.pc = "attaching" /\ frame.req = {}
    <3>1. 0 \in 0 .. MaxTopics
      BY RelayAssumption
    <3> QED
      BY <3>1 DEF Rest, Frame
  <2> QED
    BY <2>1 DEF Useful, Fits, Answers
<1>4. Released("worker", lockq) /\ at["worker"].req = {}
  BY <1>1, <1>2, CallReleases, FreeOfRequests DEF Calls, Answers
<1>5. Advance("worker", frame, lockq)
  <2>1. frame.pc \notin Waits
    BY <1>3 DEF Waits
  <2> QED
    BY <2>1 DEF Attach, Call, Advance
<1>6. Streams' /\ Distinct' /\ \A r \in Requests : StreamKept(r)
  BY <1>1, <1>2, StreamStays DEF Attach
<1>7. Calm
  BY <1>6 DEF Calm, Attach, publics
<1> HIDE DEF frame
<1>8. Threads' /\ MovesTo("worker", frame) /\ \A r \in Requests : Good(r)'
  BY <1>2, <1>3, <1>4, <1>5, <1>7, CalmMoves
<1>9. Scalars'
  BY <1>1, <1>6 DEF Scalars, Streams, Attach, topic, publics
<1>10. Deferring'
  BY <1>2, <1>3, <1>8 DEF Deferring, Attach, MovesTo
<1> QED
  BY <1>6, <1>8, <1>9, <1>10 DEF IInv, Base

LEMMA AttachFailsStep ==
  ASSUME IInv, AttachFails
  PROVE  IInv'
<1>1. Scalars /\ Threads /\ Deferring /\ Distinct /\ Streams
  BY TypesOfStream DEF IInv, Base
<1>2. at["worker"].pc = "attaching" /\ todo = << >> /\ "worker" \in Tasks
  BY <1>1 DEF AttachFails, Deferring, Tasks
<1>3. Released("worker", lockq) /\ at["worker"].req = {}
  BY <1>1, <1>2, CallReleases, FreeOfRequests DEF Calls, Answers
<1>4. Advance("worker", Rest, lockq) /\ Useful("worker", Rest) /\ Rest.req = {}
  BY <1>2, Finishes DEF AttachFails
<1>5. Streams' /\ Distinct' /\ \A r \in Requests : StreamKept(r)
  BY <1>1, StreamDropped DEF AttachFails
<1>6. Calm
  BY <1>5 DEF Calm, AttachFails, publics
<1>7. Threads' /\ MovesTo("worker", Rest) /\ \A r \in Requests : Good(r)'
  BY <1>2, <1>3, <1>4, <1>6, CalmMoves
<1>8. missed' \subseteq Requests
  <2>1. \A i \in DOMAIN deferred : deferred[i].req \in Requests
    <3>1. \A i \in DOMAIN deferred : deferred[i] \in Event
      BY <1>1 DEF Streams
    <3> QED
      BY <3>1 DEF Event
  <2> QED
    BY <1>1, <2>1 DEF AttachFails, Scalars
<1>9. Scalars'
  BY <1>1, <1>5, <1>8 DEF Scalars, Streams, AttachFails, topic, publics
<1>10. Deferring'
  BY <1>2, <1>7, RestFits DEF Deferring, AttachFails, MovesTo
<1> QED
  BY <1>5, <1>7, <1>9, <1>10 DEF IInv, Base

LEMMA AttachedStep ==
  ASSUME IInv, Attached
  PROVE  IInv'
<1> DEFINE frame == [Rest EXCEPT !.pc = "saving"]
<1>1. Scalars /\ Threads /\ Deferring /\ Distinct /\ Streams
  BY TypesOfStream DEF IInv, Base
<1>2. at["worker"].pc = "attaching" /\ todo = << >> /\ "worker" \in Tasks
  BY <1>1 DEF Attached, Deferring, Tasks
<1>3. Useful("worker", frame) /\ frame.pc = "saving" /\ frame.req = {}
  <2>1. frame \in Frame /\ frame.pc = "saving" /\ frame.req = {}
    <3>1. 0 \in 0 .. MaxTopics
      BY RelayAssumption
    <3> QED
      BY <3>1 DEF Rest, Frame
  <2> QED
    BY <2>1 DEF Useful, Fits, Answers
<1>4. Released("worker", lockq) /\ at["worker"].req = {}
  BY <1>1, <1>2, CallReleases, FreeOfRequests DEF Calls, Answers
<1>5. Advance("worker", frame, lockq)
  <2>1. frame.pc \in Waits
    BY <1>3 DEF Waits
  <2> QED
    BY <2>1 DEF Attached, Wait, Advance
<1>6. Streams' /\ Distinct' /\ \A r \in Requests : StreamKept(r)
  BY <1>1, StreamStays DEF Attached
<1>7. Calm
  BY <1>6 DEF Calm, Attached, publics
<1> HIDE DEF frame
<1>8. Threads' /\ MovesTo("worker", frame) /\ \A r \in Requests : Good(r)'
  BY <1>2, <1>3, <1>4, <1>5, <1>7, CalmMoves
<1>9. Scalars'
  <2>1. binding' \in [sid : Sessions \union {NoSession}, obj : Identities \union {0}]
    BY <1>1, FreshIsBinding DEF Scalars, Attached
  <2>2. observed' \subseteq Sessions
    BY <1>1 DEF Scalars, Attached
  <2> QED
    BY <1>1, <1>6, <2>1, <2>2 DEF Scalars, Streams, Attached, topic, publics
<1>10. Deferring'
  BY <1>2, <1>3, <1>8 DEF Deferring, Attached, MovesTo
<1> QED
  BY <1>6, <1>8, <1>9, <1>10 DEF IInv, Base

LEMMA SavedStep ==
  ASSUME IInv, Saved
  PROVE  IInv'
<1>1. Scalars /\ Threads /\ Deferring /\ Distinct /\ Streams
  BY TypesOfStream DEF IInv, Base
<1>2. /\ Released("worker", Tail(lockq)) /\ at["worker"].pc = "saving"
      /\ "worker" \in Tasks
  <2>1. "worker" \in Tasks /\ "saving" \in Waits
    BY DEF Tasks, Waits
  <2> QED
    BY <1>1, <2>1, HoldsReleases DEF Saved
<1>3. todo = << >> /\ at["worker"].req = {}
  BY <1>1, <1>2, FreeOfRequests DEF Deferring, Answers
<1>4. Advance("worker", Rest, Tail(lockq)) /\ Useful("worker", Rest) /\ Rest.req = {}
  BY <1>2, Finishes DEF Saved
<1>5. Streams' /\ Distinct' /\ Stream' = Stream
  BY <1>1, <1>3, StreamReplayed DEF Saved
<1>6. Calm
  BY <1>5 DEF Calm, StreamKept, Saved, publics
<1>7. Threads' /\ MovesTo("worker", Rest) /\ \A r \in Requests : Good(r)'
  BY <1>2, <1>3, <1>4, <1>6, CalmMoves
<1>8. Scalars'
  BY <1>1, <1>5 DEF Scalars, Streams, Saved, topic, publics
<1>9. Deferring'
  BY <1>2, <1>7, RestFits DEF Deferring, Saved, MovesTo
<1> QED
  BY <1>5, <1>7, <1>8, <1>9 DEF IInv, Base

LEMMA RestsStep ==
  ASSUME IInv, Detach \/ Suspend
  PROVE  IInv'
<1>1. Scalars /\ Threads /\ Deferring /\ Distinct /\ Streams
  BY TypesOfStream DEF IInv, Base
<1>2. UNCHANGED <<backend, attaching, deferred, requests, resolving, at, lockq, todo, events,
                  held, home, agent, told, resolutions, stuck, missed, observed, lastGen>>
  BY DEF Detach, Suspend, topic, publics
<1>3. Streams' /\ Distinct' /\ \A r \in Requests : StreamKept(r)
  BY <1>1, <1>2, StreamStays
<1>4. Calm
  BY <1>2, <1>3 DEF Calm
<1>5. Threads' /\ \A r \in Requests : Good(r)'
  BY <1>2, <1>4, CalmStays
<1>6. /\ activation' \in 0 .. lastGen
      /\ binding' \in [sid : Sessions \union {NoSession}, obj : Identities \union {0}]
  BY <1>1 DEF Scalars, Detach, Suspend, topic, Unbound
<1>7. Scalars'
  BY <1>1, <1>2, <1>3, <1>6 DEF Scalars, Streams
<1>8. Deferring'
  BY <1>1, <1>2 DEF Deferring
<1> QED
  BY <1>3, <1>5, <1>7, <1>8 DEF IInv, Base

LEMMA ActivateStep ==
  ASSUME IInv, Activate
  PROVE  IInv'
<1>1. Scalars /\ Threads /\ Deferring /\ Distinct /\ Streams
  BY TypesOfStream DEF IInv, Base
<1>2. UNCHANGED <<backend, binding, attaching, deferred, requests, resolving, todo, events,
                  held, home, agent, told, resolutions, stuck, missed, observed>>
  BY DEF Activate, publics
<1>3. Streams' /\ Distinct' /\ \A r \in Requests : StreamKept(r)
  BY <1>1, <1>2, StreamStays
<1>4. Calm
  BY <1>2, <1>3 DEF Calm
<1>5. activation' \in 0 .. lastGen' /\ lastGen' \in 0 .. MaxTopics
  BY <1>1, RelayAssumption DEF Scalars, Activate
<1>6. Scalars'
  BY <1>1, <1>2, <1>3, <1>5 DEF Scalars, Streams
<1>7. CASE UNCHANGED <<at, lockq>>
  <2>1. Threads' /\ \A r \in Requests : Good(r)'
    BY <1>4, <1>7, CalmStays
  <2>2. Deferring'
    BY <1>1, <1>2, <1>7 DEF Deferring
  <2> QED
    BY <1>3, <1>6, <2>1, <2>2 DEF IInv, Base
<1>8. CASE Call("topic", [Rest EXCEPT !.pc = "attaching", !.sid = binding.sid], lockq)
  <2> DEFINE frame == [Rest EXCEPT !.pc = "attaching", !.sid = binding.sid]
  <2>1. "topic" \in Tasks /\ "worker" \in Tasks /\ at["topic"].pc = "idle"
    BY DEF Tasks, Activate, Ready
  <2>2. Useful("topic", frame) /\ frame.pc = "attaching" /\ frame.req = {}
    <3>1. frame \in Frame /\ frame.pc = "attaching" /\ frame.req = {}
      <4>1. 0 \in 0 .. MaxTopics /\ binding.sid \in Sessions \union {NoSession}
        BY <1>1, RelayAssumption DEF Scalars
      <4> QED
        BY <4>1 DEF Rest, Frame
    <3> QED
      BY <3>1 DEF Useful, Fits, Answers
  <2>3. Released("topic", lockq) /\ at["topic"].req = {}
    BY <1>1, <2>1, CallReleases, FreeOfRequests DEF Calls, Answers
  <2>4. Advance("topic", frame, lockq)
    <3>1. frame.pc \notin Waits
      BY <2>2 DEF Waits
    <3> QED
      BY <1>2, <1>8, <3>1 DEF Call, Advance
  <2> HIDE DEF frame
  <2>5. Threads' /\ MovesTo("topic", frame) /\ \A r \in Requests : Good(r)'
    BY <1>4, <2>1, <2>2, <2>3, <2>4, CalmMoves
  <2>6. Deferring'
    BY <1>1, <1>2, <2>1, <2>5 DEF Deferring, MovesTo
  <2> QED
    BY <1>3, <1>6, <2>5, <2>6 DEF IInv, Base
<1> QED
  BY <1>7, <1>8 DEF Activate

LEMMA ReattachStep ==
  ASSUME IInv, Reattached \/ ReattachFails
  PROVE  IInv'
<1>1. Scalars /\ Threads /\ Deferring /\ Distinct /\ Streams
  BY TypesOfStream DEF IInv, Base
<1>2. UNCHANGED <<backend, topic, attaching, deferred, requests, resolving, todo, events,
                  held, home, agent, told, resolutions, stuck, missed, observed>>
  BY DEF Reattached, ReattachFails, publics
<1>3. Streams' /\ Distinct' /\ \A r \in Requests : StreamKept(r)
  BY <1>1, <1>2, StreamStays
<1>4. Calm
  BY <1>2, <1>3 DEF Calm
<1>5. "topic" \in Tasks /\ "worker" \in Tasks /\ at["topic"].pc = "attaching"
  BY DEF Tasks, Reattached, ReattachFails
<1>6. Released("topic", lockq) /\ at["topic"].req = {}
  BY <1>1, <1>5, CallReleases, FreeOfRequests DEF Calls, Answers
<1>7. Advance("topic", Rest, lockq) /\ Useful("topic", Rest) /\ Rest.req = {}
  BY <1>2, <1>5, Finishes DEF Reattached, ReattachFails
<1>8. Threads' /\ MovesTo("topic", Rest) /\ \A r \in Requests : Good(r)'
  BY <1>4, <1>5, <1>6, <1>7, CalmMoves
<1>9. binding' \in [sid : Sessions \union {NoSession}, obj : Identities \union {0}]
  <2>1. at["topic"].sid \in Sessions \union {NoSession}
    BY <1>1, <1>5 DEF Threads, Frame
  <2> QED
    BY <1>1, <2>1, FreshIsBinding DEF Scalars, Reattached, ReattachFails
<1>10. Scalars'
  BY <1>1, <1>2, <1>3, <1>9 DEF Scalars, Streams, topic
<1>11. Deferring'
  BY <1>1, <1>2, <1>5, <1>8 DEF Deferring, MovesTo
<1> QED
  BY <1>3, <1>8, <1>10, <1>11 DEF IInv, Base
-----------------------------------------------------------------------------
(* Synchronizing                                                           *)

LEMMA Republishes ==
  ASSUME Scalars, NEW gen, NEW obj, Republish(gen, obj)
  PROVE  /\ told' \in [Requests -> {"nothing", "opened", "resolved"}]
         /\ resolutions' = resolutions
         /\ \A r \in Requests : told'[r] = told[r] \/ (r \in requests /\ told'[r] = "opened")
  BY DEF Scalars, Republish

LEMMA SyncStep ==
  ASSUME IInv, Sync
  PROVE  IInv'
<1> DEFINE frame == [Rest EXCEPT !.pc = "listing", !.obj = binding.obj, !.gen = activation]
<1>1. Scalars /\ Threads /\ Deferring /\ Distinct /\ Streams
  BY TypesOfStream DEF IInv, Base
<1>2. /\ UNCHANGED <<backend, topic, binding, attaching, deferred, requests, resolving, todo,
                     events, held, home, agent, stuck, missed, observed>>
      /\ at["worker"].pc = "idle" /\ "worker" \in Tasks
  BY DEF Sync, MayAct, Ready, Tasks
<1>3. Streams' /\ Distinct' /\ \A r \in Requests : StreamKept(r)
  BY <1>1, <1>2, StreamStays
<1>4. CASE Republish(activation, 0) /\ UNCHANGED <<at, lockq>>
  <2>1. /\ told' \in [Requests -> {"nothing", "opened", "resolved"}]
        /\ resolutions' = resolutions
        /\ \A r \in Requests : told'[r] = told[r] \/ (r \in requests /\ told'[r] = "opened")
    BY <1>1, <1>4, Republishes
  <2>2. Calm
    BY <1>2, <1>3, <2>1 DEF Calm
  <2>3. Threads' /\ \A r \in Requests : Good(r)'
    BY <1>4, <2>2, CalmStays
  <2>4. Scalars' /\ Deferring'
    BY <1>1, <1>2, <1>3, <1>4, <2>1 DEF Scalars, Streams, Deferring, topic
  <2> QED
    BY <1>3, <2>3, <2>4 DEF IInv, Base
<1>5. CASE Wait("worker", frame, lockq) /\ UNCHANGED publics
  <2>1. Calm
    BY <1>2, <1>3, <1>5 DEF Calm, publics
  <2>2. Useful("worker", frame) /\ frame.pc = "listing" /\ frame.req = {}
    <3>1. activation \in 0 .. MaxTopics /\ binding.obj \in Identities \union {0}
      BY <1>1, RelayAssumption DEF Scalars
    <3>2. frame \in Frame /\ frame.pc = "listing" /\ frame.req = {}
      BY <3>1 DEF Rest, Frame
    <3> QED
      BY <3>2 DEF Useful, Fits, Answers
  <2>3. Released("worker", lockq) /\ at["worker"].req = {}
    BY <1>1, <1>2, CallReleases, FreeOfRequests DEF Calls, Answers
  <2>4. Advance("worker", frame, lockq)
    <3>1. frame.pc \in Waits
      BY <2>2 DEF Waits
    <3> QED
      BY <1>2, <1>5, <3>1 DEF Wait, Advance
  <2> HIDE DEF frame
  <2>5. Threads' /\ MovesTo("worker", frame) /\ \A r \in Requests : Good(r)'
    BY <1>2, <2>1, <2>2, <2>3, <2>4, CalmMoves
  <2>6. Scalars'
    BY <1>1, <1>2, <1>3, <1>5 DEF Scalars, Streams, topic, publics
  <2>7. Deferring'
    BY <1>1, <1>2, <2>2, <2>5 DEF Deferring, MovesTo
  <2> QED
    BY <1>3, <2>5, <2>6, <2>7 DEF IInv, Base
<1> QED
  BY <1>4, <1>5 DEF Sync

LEMMA ListedStep ==
  ASSUME IInv, Listed
  PROVE  IInv'
<1>1. Scalars /\ Threads /\ Deferring /\ Distinct /\ Streams
  BY TypesOfStream DEF IInv, Base
<1>2. UNCHANGED <<backend, topic, binding, attaching, deferred, requests, resolving, todo,
                  events, held, home, agent, stuck, missed, observed>>
  BY DEF Listed
<1>3. Streams' /\ Distinct' /\ \A r \in Requests : StreamKept(r)
  BY <1>1, <1>2, StreamStays
<1>4. /\ told' \in [Requests -> {"nothing", "opened", "resolved"}]
      /\ resolutions' = resolutions
      /\ \A r \in Requests : told'[r] = told[r] \/ (r \in requests /\ told'[r] = "opened")
  BY <1>1, Republishes DEF Listed
<1>5. Calm
  BY <1>2, <1>3, <1>4 DEF Calm
<1>6. /\ Released("worker", Tail(lockq)) /\ at["worker"].pc = "listing"
      /\ "worker" \in Tasks
  <2>1. "worker" \in Tasks /\ "listing" \in Waits
    BY DEF Tasks, Waits
  <2> QED
    BY <1>1, <2>1, HoldsReleases DEF Listed
<1>7. at["worker"].req = {}
  BY <1>1, <1>6, FreeOfRequests DEF Answers
<1>8. Advance("worker", Rest, Tail(lockq)) /\ Useful("worker", Rest) /\ Rest.req = {}
  BY <1>2, <1>6, Finishes DEF Listed
<1>9. Threads' /\ MovesTo("worker", Rest) /\ \A r \in Requests : Good(r)'
  BY <1>5, <1>6, <1>7, <1>8, CalmMoves
<1>10. Scalars'
  BY <1>1, <1>2, <1>3, <1>4 DEF Scalars, Streams, topic
<1>11. Deferring'
  BY <1>1, <1>2, <1>6, <1>9, RestFits DEF Deferring, MovesTo
<1> QED
  BY <1>3, <1>9, <1>10, <1>11 DEF IInv, Base
-----------------------------------------------------------------------------
(* Steps of a task about its request                                       *)

LEMMA RequestOf ==
  ASSUME Threads, NEW task \in Tasks, at[task].pc \in Answers \union {"writing"}
  PROVE  Request(task) \in Requests /\ at[task].req = {Request(task)}
<1>1. at[task].req # {} /\ at[task].req \in {{}} \union {{r} : r \in Requests}
  BY DEF Threads, Fits, Frame
<1>2. PICK r \in Requests : at[task].req = {r}
  BY <1>1
<1>3. Request(task) = r
  BY <1>2 DEF Request
<1> QED
  BY <1>2, <1>3

\* The other requests.
LEMMA OthersGood ==
  ASSUME Threads, NEW task \in Tasks, NEW frame, NEW q, Useful(task, frame),
         Released(task, q), Advance(task, frame, q),
         NEW r \in Requests, Good(r), at[task].req # {r}, frame.req # {r},
         r \in requests' <=> r \in requests, told'[r] = told[r],
         resolutions'[r] = resolutions[r], agent'[r] = agent[r], home'[r] = home[r],
         r \in held' <=> r \in held, r \in stuck => r \in stuck', StreamKept(r)
  PROVE  Good(r)'
<1>1. Threads' /\ MovesTo(task, frame)
  BY MoveStands
<1>2. InOrder(r)'
  BY OrderStays DEF Good, Shown, Writes
<1>3. Untroubled(r)
  BY <1>1, <1>2 DEF Untroubled, MovesTo
<1> QED
  BY <1>3, Bystander

\* The worker is not attaching, or it is not the worker that moves.
LEMMA DeferringStays ==
  ASSUME Deferring, NEW task \in Tasks, NEW frame, MovesTo(task, frame),
         at[task].pc \notin {"attaching", "saving"}, frame.pc \notin {"attaching", "saving"},
         UNCHANGED <<attaching, deferred>>, todo = << >> => todo' = << >>
  PROVE  Deferring'
<1>1. "worker" \in Tasks
  BY DEF Tasks
<1> QED
  BY <1>1 DEF Deferring, MovesTo

LEMMA EmitMoves ==
  ASSUME Scalars, NEW task \in {"worker", "backend"}, at[task].pc \in Calls,
         NEW r \in Requests, NEW what \in {"opened", "resolved"},
         backend' = backend, Emit(task, r, what)
  PROVE  \E frame :
            /\ Useful(task, frame) /\ Advance(task, frame, lockq)
            /\ frame.req = {} \/ frame.req = {r}
            /\ frame.pc \in {"idle", "writing"}
            /\ Emits(frame, r, what)
            /\ told' \in [Requests -> {"nothing", "opened", "resolved"}]
            /\ resolutions' \in [Requests -> Nat]
            /\ \A x \in Requests : x # r =>
                  told'[x] = told[x] /\ resolutions'[x] = resolutions[x]
<1>1. task \in Tasks
  BY DEF Tasks
<1>2. CASE Journaling
  <2> DEFINE frame == [Rest EXCEPT !.pc = "writing", !.req = {r}, !.for = what]
  <2>1. /\ frame.pc = "writing" /\ frame.req = {r} /\ frame.for = what
    BY DEF Rest
  <2>2. frame \in Frame
    <3>1. 0 \in 0 .. MaxTopics
      BY RelayAssumption
    <3> QED
      BY <3>1 DEF Rest, Frame
  <2>3. Wait(task, frame, lockq) /\ UNCHANGED <<told, resolutions>>
    BY <1>2 DEF Emit, publics
  <2> HIDE DEF frame
  <2>4. Useful(task, frame)
    BY <1>2, <2>1, <2>2 DEF Useful, Fits, Answers
  <2>5. Advance(task, frame, lockq)
    BY <2>1, <2>3 DEF Wait, Advance, Waits
  <2>6. Emits(frame, r, what)
    BY <2>1, <2>3 DEF Emits, Writes
  <2> WITNESS frame
  <2> QED
    BY <2>1, <2>3, <2>4, <2>5, <2>6 DEF Scalars
<1>3. CASE ~Journaling
  <2>1. Tell(r, what) /\ Finish(task, lockq)
    BY <1>3 DEF Emit
  <2>2. Advance(task, Rest, lockq) /\ Useful(task, Rest) /\ Rest.req = {}
    BY <1>1, <2>1, Finishes
  <2>3. /\ told' = [told EXCEPT ![r] = what]
        /\ \/ what = "resolved" /\ resolutions' = [resolutions EXCEPT ![r] = resolutions[r] + 1]
           \/ what # "resolved" /\ resolutions' = resolutions
    BY <2>1 DEF Tell
  <2>4. /\ told' \in [Requests -> {"nothing", "opened", "resolved"}]
        /\ resolutions' \in [Requests -> Nat]
    <3>1. told \in [Requests -> {"nothing", "opened", "resolved"}]
          /\ resolutions \in [Requests -> Nat] /\ resolutions[r] + 1 \in Nat
      BY DEF Scalars
    <3> QED
      BY <2>3, <3>1
  <2>5. /\ told'[r] = what
        /\ resolutions'[r] = IF what = "resolved" THEN resolutions[r] + 1 ELSE resolutions[r]
        /\ \A x \in Requests : x # r =>
              told'[x] = told[x] /\ resolutions'[x] = resolutions[x]
    BY <2>3 DEF Scalars
  <2>6. Emits(Rest, r, what)
    BY <1>3, <2>2, <2>5 DEF Emits
  <2> WITNESS Rest
  <2> QED
    BY <2>2, <2>4, <2>5, <2>6, RestFits, <1>1
<1> QED
  BY <1>2, <1>3

LEMMA WrittenStep ==
  ASSUME IInv, NEW task \in {"worker", "backend"}, Written(task)
  PROVE  IInv'
<1>1. Scalars /\ Threads /\ Deferring /\ Distinct /\ Streams /\ task \in Tasks
  BY TypesOfStream DEF IInv, Base, Tasks
<1>2. UNCHANGED <<backend, topic, binding, attaching, deferred, requests, resolving, todo,
                  events, held, home, agent, stuck, missed, observed>>
  BY DEF Written
<1>3. Released(task, Tail(lockq)) /\ at[task].pc = "writing" /\ Holds(task, "writing")
  <2>1. "writing" \in Waits /\ Holds(task, "writing")
    BY DEF Written, Waits
  <2> QED
    BY <1>1, <2>1, HoldsReleases
<1>4. PICK r \in Requests, what \in {"opened", "resolved"} :
        r = Request(task) /\ what = at[task].for /\ at[task].req = {r}
  BY <1>1, <1>3, RequestOf DEF Threads, Fits
<1>5. Writes(at[task], r, what)
  BY <1>3, <1>4 DEF Writes
<1>6. Tell(r, what) /\ Finish(task, Tail(lockq))
  BY <1>4 DEF Written
<1>7. Advance(task, Rest, Tail(lockq)) /\ Useful(task, Rest) /\ Rest.req = {}
  BY <1>1, <1>2, <1>6, Finishes
<1>8. Threads' /\ MovesTo(task, Rest)
  BY <1>1, <1>3, <1>7, MoveStands
<1>9. Streams' /\ Distinct' /\ \A x \in Requests : StreamKept(x)
  BY <1>1, <1>2, StreamStays
<1>10. /\ told' = [told EXCEPT ![r] = what]
       /\ \/ what = "resolved" /\ resolutions' = [resolutions EXCEPT ![r] = resolutions[r] + 1]
          \/ what # "resolved" /\ resolutions' = resolutions
  BY <1>6 DEF Tell
<1>11. /\ told \in [Requests -> {"nothing", "opened", "resolved"}]
       /\ resolutions \in [Requests -> Nat] /\ resolutions[r] + 1 \in Nat
  BY <1>1, <1>4 DEF Scalars
<1>12. /\ told' \in [Requests -> {"nothing", "opened", "resolved"}]
       /\ resolutions' \in [Requests -> Nat]
  BY <1>4, <1>10, <1>11
<1>13. Scalars'
  BY <1>1, <1>2, <1>9, <1>12 DEF Scalars, Streams, topic
<1>14. Deferring'
  BY <1>1, <1>2, <1>3, <1>8, RestFits, DeferringStays
<1>15. ASSUME NEW x \in Requests, x # r PROVE Good(x)'
  <2>1. Good(x) /\ StreamKept(x)
    BY <1>9 DEF IInv
  <2>2. told'[x] = told[x] /\ resolutions'[x] = resolutions[x]
    BY <1>10, <1>11, <1>15
  <2>3. at[task].req # {x} /\ Rest.req # {x}
    BY <1>4, <1>7, <1>15
  <2> QED
    BY <1>1, <1>2, <1>3, <1>7, <2>1, <2>2, <2>3, OthersGood
<1>16. Good(r)'
  <2>1. Good(r) /\ StreamKept(r)
    BY <1>4, <1>9 DEF IInv
  <2>2. InOrder(r)'
    BY <1>1, <1>3, <1>7, <2>1, OrderStays DEF Good, Shown, Writes
  <2>3. Keeps(r)
    BY <1>2 DEF Keeps
  <2>4. /\ told'[r] = what /\ resolutions[r] \in Nat
        /\ resolutions'[r] = IF what = "resolved" THEN resolutions[r] + 1 ELSE resolutions[r]
    BY <1>4, <1>10, <1>11
  <2>5. UNCHANGED <<events, deferred, todo>> /\ (r \in requests' <=> r \in requests)
        /\ (r \in held' <=> r \in held)
    BY <1>2
  <2> QED
    BY <1>1, <1>3, <1>4, <1>5, <1>7, <1>8, <2>1, <2>2, <2>3, <2>4, <2>5, PublishedGood
<1> QED
  BY <1>8, <1>9, <1>13, <1>14, <1>15, <1>16 DEF IInv, Base

LEMMA TakeAnswerStep ==
  ASSUME IInv, NEW task \in {"worker", "backend"}, TakeAnswer(task)
  PROVE  IInv'
<1>1. Scalars /\ Threads /\ Deferring /\ Distinct /\ Streams /\ task \in Tasks
  BY TypesOfStream DEF IInv, Base, Tasks
<1>2. UNCHANGED <<backend, topic, binding, attaching, deferred, requests, resolving, todo, told,
                  resolutions, lockq, held, home, stuck, missed, observed>>
  BY DEF TakeAnswer, publics
<1>3. PICK r \in Requests :
        /\ r = Request(task) /\ at[task].pc = "answering" /\ at[task].req = {r}
        /\ at[task].for \in {"owner", "bridge"}
  BY <1>1, RequestOf DEF Threads, Fits, Answers, TakeAnswer
<1>4. PICK frame \in Frame :
        /\ frame.pc = "answered" /\ frame.req = {r} /\ frame.for = at[task].for
        /\ frame = [at[task] EXCEPT !.pc = "answered"]
  <2>1. at[task] \in Frame
    BY <1>1 DEF Threads
  <2> QED
    BY <1>3, <2>1 DEF Frame
<1>5. Useful(task, frame)
  <2>1. Fits(task, at[task])
    BY <1>1 DEF Threads
  <2> QED
    BY <1>3, <1>4, <2>1 DEF Useful, Fits, Answers
<1>6. Released(task, lockq) /\ Advance(task, frame, lockq)
  <2>1. at' = [at EXCEPT ![task] = frame]
    BY <1>1, <1>4 DEF TakeAnswer, Threads
  <2> QED
    BY <1>1, <1>2, <1>3, <1>4, <2>1, CallReleases DEF Calls, Waits, Advance
<1>7. /\ agent' = [agent EXCEPT ![r] = "settled"]
      /\ \/ events' = Append(events, Settled(r))
         \/ events' = events
  BY <1>3 DEF TakeAnswer, Settled
<1>8. Threads' /\ MovesTo(task, frame)
  BY <1>1, <1>5, <1>6, MoveStands
<1>9. Settled(r) \in Event /\ Settled(r).kind = "settled" /\ Asked(r) # Settled(r)
  BY <1>3, TheyAreEvents
<1>10. Streams' /\ Distinct' /\ (Stream' = Stream \/ Stream' = Stream \union {Settled(r)})
  <2>1. CASE events' = Append(events, Settled(r))
    BY <1>1, <1>2, <1>9, <2>1, StreamGrows
  <2>2. CASE events' = events
    BY <1>1, <1>2, <2>2, StreamSame
  <2> QED
    BY <1>7, <2>1, <2>2
<1>11. Scalars'
  BY <1>1, <1>2, <1>7, <1>10 DEF Scalars, Streams, topic
<1>12. Deferring'
  BY <1>1, <1>2, <1>3, <1>4, <1>8, DeferringStays
<1>13. ASSUME NEW x \in Requests, x # r PROVE Good(x)'
  <2>1. Asked(x) # Settled(r) /\ Settled(x) # Settled(r)
    BY <1>13 DEF Asked, Settled
  <2>2. Good(x) /\ StreamKept(x)
    BY <1>2, <1>10, <2>1 DEF IInv, StreamKept
  <2>3. agent'[x] = agent[x]
    BY <1>1, <1>7, <1>13 DEF Scalars
  <2>4. at[task].req # {x} /\ frame.req # {x}
    BY <1>3, <1>4, <1>13
  <2> QED
    BY <1>1, <1>2, <1>5, <1>6, <2>2, <2>3, <2>4, OthersGood
<1>14. Good(r)'
  <2>1. Good(r) /\ agent'[r] = "settled"
    BY <1>1, <1>3, <1>7 DEF IInv, Scalars
  <2>2. InOrder(r)'
    BY <1>1, <1>4, <1>5, <1>6, <2>1, OrderStays DEF Good, Shown, Writes
  <2>3. Asked(r) \notin Stream /\ home[r] \in Sessions
    BY <1>1, <1>3, <2>1, Touched
  <2>4. /\ Asked(r)' = Asked(r) /\ Settled(r)' = Settled(r) /\ Asked(r) \notin Stream'
        /\ Settled(r) \in Stream => Settled(r) \in Stream'
    BY <1>9, <1>10, <2>3 DEF Asked, Settled
  <2>5. ASSUME NEW t \in Tasks
        PROVE  /\ \A what : Writes(at'[t], r, what) <=> Writes(at[t], r, what)
               /\ AnswersTo(at'[t], r) <=> AnswersTo(at[t], r)
               /\ at'[t].for = at[t].for
    <3>1. CASE t = task
      BY <1>3, <1>4, <1>8, <3>1 DEF MovesTo, Writes, AnswersTo, Answers
    <3>2. CASE t # task
      BY <1>8, <3>2 DEF MovesTo
    <3> QED
      BY <3>1, <3>2
  <2>6. Ahead(r)'
    BY <1>2, <2>1, <2>3, <2>4 DEF Ahead
  <2>7. Resolved(r)'
    BY <1>2, <2>1, <2>5 DEF Good, Resolved
  <2>8. Shown(r)'
    BY <1>2, <2>1, <2>2, <2>5 DEF Good, Shown
  <2>9. Pending(r)'
    BY <1>2, <2>1, <2>4, <2>5 DEF Good, Pending
  <2> QED
    BY <2>6, <2>7, <2>8, <2>9 DEF Good
<1> QED
  BY <1>8, <1>10, <1>11, <1>12, <1>13, <1>14 DEF IInv, Base

LEMMA AnswerMoves ==
  ASSUME NEW task \in {"worker", "backend"}, NEW r \in Requests, NEW who \in {"owner", "bridge"},
         backend' = backend, Answer(task, r, who)
  PROVE  \E frame :
            /\ Useful(task, frame) /\ Advance(task, frame, lockq)
            /\ AnswersTo(frame, r) /\ frame.pc = "answering" /\ frame.for = who
            /\ frame.req = {r}
<1> DEFINE frame == [Rest EXCEPT !.pc = "answering", !.req = {r}, !.for = who]
<1>1. frame.pc = "answering" /\ frame.req = {r} /\ frame.for = who
  BY DEF Rest
<1>2. frame \in Frame
  <2>1. 0 \in 0 .. MaxTopics
    BY RelayAssumption
  <2> QED
    BY <2>1 DEF Rest, Frame
<1>3. Call(task, frame, lockq)
  BY DEF Answer
<1> HIDE DEF frame
<1>4. Useful(task, frame)
  BY <1>1, <1>2 DEF Useful, Fits, Answers
<1>5. Advance(task, frame, lockq)
  BY <1>1, <1>3 DEF Call, Advance, Waits
<1> WITNESS frame
<1> QED
  BY <1>1, <1>4, <1>5 DEF AnswersTo, Answers

LEMMA RespondStep ==
  ASSUME IInv, NEW r \in Requests, Respond(r)
  PROVE  IInv'
<1>1. Scalars /\ Threads /\ Deferring /\ Distinct /\ Streams /\ Good(r)
  BY TypesOfStream DEF IInv, Base
<1>2. UNCHANGED <<backend, topic, binding, attaching, deferred, requests, todo, told, resolutions,
                  events, home, agent, stuck, missed, observed>>
  BY DEF Respond, publics
<1>3. /\ Answer("worker", r, "owner") /\ r \in requests
      /\ at["worker"].pc = "idle" /\ "worker" \in Tasks
  BY DEF Respond, MayAct, Ready, Tasks
<1>4. PICK frame : /\ Useful("worker", frame) /\ Advance("worker", frame, lockq)
                   /\ AnswersTo(frame, r) /\ frame.pc = "answering" /\ frame.for = "owner"
                   /\ frame.req = {r}
  BY <1>2, <1>3, AnswerMoves
<1>5. Released("worker", lockq) /\ at["worker"].req = {} /\ at["worker"].pc \in Calls
  BY <1>1, <1>3, CallReleases, FreeOfRequests DEF Calls, Answers
<1>6. Threads' /\ MovesTo("worker", frame)
  BY <1>1, <1>3, <1>4, <1>5, MoveStands
<1>7. Streams' /\ Distinct' /\ (\A x \in Requests : StreamKept(x))
  BY <1>1, <1>2, StreamStays
<1>8. held' = held \ {r} /\ resolving' \subseteq Approvals
  BY <1>1, <1>3 DEF Answer, Scalars
<1>9. Scalars'
  BY <1>1, <1>2, <1>7, <1>8 DEF Scalars, Streams, topic
<1>10. Deferring'
  BY <1>1, <1>2, <1>3, <1>4, <1>6, DeferringStays
<1>11. ASSUME NEW x \in Requests, x # r PROVE Good(x)'
  <2>1. Good(x) /\ StreamKept(x)
    BY <1>7 DEF IInv
  <2>2. at["worker"].req # {x} /\ frame.req # {x} /\ (x \in held' <=> x \in held)
    BY <1>4, <1>5, <1>8, <1>11
  <2> QED
    BY <1>1, <1>2, <1>3, <1>4, <1>5, <2>1, <2>2, OthersGood
<1>12. Good(r)'
  <2>1. InOrder(r)'
    BY <1>1, <1>3, <1>4, <1>5, OrderStays DEF Good, Shown, Writes
  <2>2. Asked(r) \notin Stream /\ agent[r] # "quiet"
    BY <1>1, <1>3, Touched
  <2>3. Stream' = Stream /\ Asked(r)' = Asked(r) /\ Settled(r)' = Settled(r)
    BY <1>2 DEF Stream, Asked, Settled
  <2>4. told[r] # "resolved" /\ \A t \in Tasks : ~Writes(at[t], r, "resolved")
    BY <1>1, <1>3 DEF Good, Resolved
  <2>5. Keeps(r) /\ r \in requests' /\ told' = told /\ resolutions' = resolutions
    BY <1>2, <1>3 DEF Keeps
  <2>6. Asked(r) \notin Stream' /\ (Settled(r) \in Stream' => Settled(r) \in Stream)
    BY <2>2, <2>3
  <2> QED
    BY <1>1, <1>3, <1>4, <1>6, <2>1, <2>2, <2>4, <2>5, <2>6, AnsweredGood
<1> QED
  BY <1>6, <1>7, <1>9, <1>10, <1>11, <1>12 DEF IInv, Base

LEMMA AnswerReturnsStep ==
  ASSUME IInv, NEW task \in {"worker", "backend"}, AnswerReturns(task)
  PROVE  IInv'
<1>1. Scalars /\ Threads /\ Deferring /\ Distinct /\ Streams /\ task \in Tasks
  BY TypesOfStream DEF IInv, Base, Tasks
<1>2. UNCHANGED <<backend, topic, binding, attaching, deferred, todo, events,
                  held, home, agent, stuck, missed, observed>>
  BY DEF AnswerReturns
<1>3. PICK r \in Requests : r = Request(task) /\ at[task].pc = "answered" /\ at[task].req = {r}
  BY <1>1, RequestOf DEF AnswerReturns, Answers
<1>4. Pop(task, r) /\ requests' = requests \ {r} /\ resolving' = resolving \ {r}
  BY <1>3 DEF AnswerReturns, Pop
<1>5. Good(r) /\ agent[r] = "settled" /\ AnswersTo(at[task], r)
  BY <1>1, <1>3 DEF IInv, Good, Resolved, AnswersTo, Answers
<1>6. Released(task, lockq) /\ at[task].pc \in Calls
  BY <1>1, <1>3, CallReleases DEF Calls
<1>7. Streams' /\ Distinct' /\ (\A x \in Requests : StreamKept(x))
  BY <1>1, <1>2, StreamStays
<1>8. /\ Asked(r) \notin Stream /\ home[r] \in Sessions
      /\ Asked(r)' = Asked(r) /\ Settled(r)' = Settled(r) /\ Stream' = Stream
  <2>1. \E t \in Tasks : at[t].req = {r}
    BY <1>1, <1>3
  <2>2. Asked(r) \notin Stream /\ home[r] \in Sessions
    BY <1>5, <2>1, Touched
  <2> QED
    BY <1>2, <2>2 DEF Asked, Settled, Stream
<1>9. Keeps(r) /\ r \notin requests'
  BY <1>2, <1>4 DEF Keeps
<1>10. CASE r \in requests \union Questions
  <2>1. Emit(task, r, "resolved")
    BY <1>4, <1>10 DEF Pop
  <2>2. PICK frame :
            /\ Useful(task, frame) /\ Advance(task, frame, lockq)
            /\ frame.req = {} \/ frame.req = {r}
            /\ frame.pc \in {"idle", "writing"}
            /\ Emits(frame, r, "resolved")
            /\ told' \in [Requests -> {"nothing", "opened", "resolved"}]
            /\ resolutions' \in [Requests -> Nat]
            /\ \A x \in Requests : x # r =>
                  told'[x] = told[x] /\ resolutions'[x] = resolutions[x]
    BY <1>1, <1>2, <1>6, <2>1, EmitMoves
  <2>3. Threads' /\ MovesTo(task, frame)
    BY <1>1, <1>6, <2>2, MoveStands
  <2>4. Scalars'
    BY <1>1, <1>2, <1>4, <1>7, <2>2 DEF Scalars, Streams, topic
  <2>5. Deferring'
    BY <1>1, <1>2, <1>3, <2>2, <2>3, DeferringStays
  <2>6. ASSUME NEW x \in Requests, x # r PROVE Good(x)'
    <3>1. Good(x) /\ StreamKept(x)
      BY <1>7 DEF IInv
    <3>2. at[task].req # {x} /\ frame.req # {x} /\ (x \in requests' <=> x \in requests)
      BY <1>3, <1>4, <2>2, <2>6
    <3>3. told'[x] = told[x] /\ resolutions'[x] = resolutions[x]
      BY <2>2, <2>6
    <3> QED
      BY <1>1, <1>2, <1>6, <2>2, <3>1, <3>2, <3>3, OthersGood
  <2>7. Good(r)'
    <3>1. ~Writes(frame, r, "opened")
      BY <2>2 DEF Emits, Writes
    <3>2. InOrder(r)'
      BY <1>1, <1>5, <1>6, <2>2, <3>1, OrderStays DEF Good, Shown
    <3>3. resolutions[r] \in Nat /\ (r \in requests \/ r \notin Approvals)
      BY <1>1, <1>10, RelayAssumption DEF Scalars
    <3>4. Asked(r) \notin Stream'
      BY <1>8
    <3> QED
      BY <1>1, <1>5, <1>6, <1>8, <1>9, <2>2, <2>3, <3>2, <3>3, <3>4, ResolvedGood
  <2> QED
    BY <1>7, <2>3, <2>4, <2>5, <2>6, <2>7 DEF IInv, Base
<1>11. CASE r \notin requests \union Questions
  <2>1. Finish(task, lockq) /\ told' = told /\ resolutions' = resolutions /\ requests' = requests
    BY <1>4, <1>11 DEF Pop, publics
  <2>2. Advance(task, Rest, lockq) /\ Useful(task, Rest) /\ Rest.req = {}
    BY <1>1, <1>2, <2>1, Finishes
  <2>3. Threads' /\ MovesTo(task, Rest)
    BY <1>1, <1>6, <2>2, MoveStands
  <2>4. Scalars'
    BY <1>1, <1>2, <1>4, <1>7, <2>1 DEF Scalars, Streams, topic
  <2>5. Deferring'
    BY <1>1, <1>2, <1>3, <2>3, RestFits, DeferringStays
  <2>6. ASSUME NEW x \in Requests, x # r PROVE Good(x)'
    <3>1. Good(x) /\ StreamKept(x)
      BY <1>7 DEF IInv
    <3>2. at[task].req # {x} /\ Rest.req # {x}
      BY <1>3, <2>2, <2>6
    <3> QED
      BY <1>1, <1>2, <1>6, <2>1, <2>2, <3>1, <3>2, OthersGood
  <2>7. Good(r)'
    <3>1. InOrder(r)'
      BY <1>1, <1>5, <1>6, <2>2, OrderStays DEF Good, Shown, Writes
    <3>2. StreamKept(r) /\ (r \in requests' <=> r \in requests)
      BY <1>7, <2>1
    <3> QED
      BY <1>1, <1>5, <1>9, <1>11, <2>1, <2>2, <2>3, <3>1, <3>2, ForgottenGood
  <2> QED
    BY <1>7, <2>3, <2>4, <2>5, <2>6, <2>7 DEF IInv, Base
<1> QED
  BY <1>10, <1>11

LEMMA AnswerFailsStep ==
  ASSUME IInv, NEW task \in {"worker", "backend"}, AnswerFails(task)
  PROVE  IInv'
<1>1. Scalars /\ Threads /\ Deferring /\ Distinct /\ Streams /\ task \in Tasks
  BY TypesOfStream DEF IInv, Base, Tasks
<1>2. UNCHANGED <<backend, topic, binding, attaching, deferred, requests, events,
                  held, home, agent, observed>>
  BY DEF AnswerFails
<1>3. PICK r \in Requests : /\ r = Request(task) /\ at[task].req = {r}
                            /\ at[task].pc \in Answers
                            /\ at[task].pc \notin {"attaching", "saving"}
  BY <1>1, RequestOf DEF AnswerFails, Answers
<1>4. resolving' = resolving \ {r} /\ stuck' = stuck \union {r}
  BY <1>3 DEF AnswerFails
<1>5. Good(r) /\ AnswersTo(at[task], r) /\ \E t \in Tasks : at[t].req = {r}
  BY <1>1, <1>3 DEF IInv, AnswersTo
<1>6. Released(task, lockq) /\ at[task].pc \in Calls
  BY <1>1, <1>3, CallReleases DEF Calls, Answers
<1>7. Asked(r) \notin Stream /\ agent[r] # "quiet" /\ home[r] \in Sessions
  BY <1>5, Touched
<1>8. missed \subseteq missed' => Keeps(r)
  BY <1>2, <1>4 DEF Keeps
\* The owner's answer failed, or nothing is left to review.
<1>9. ASSUME Finish(task, lockq), UNCHANGED publics, missed' \subseteq Requests,
             missed \subseteq missed', Streams', Distinct', \A x \in Requests : StreamKept(x),
             todo = << >> => todo' = << >>,
             r \notin requests \/ at[task].for = "owner"
      PROVE  IInv'
  <2>1. Advance(task, Rest, lockq) /\ Useful(task, Rest) /\ Rest.req = {}
    BY <1>1, <1>2, <1>9, Finishes
  <2>2. Threads' /\ MovesTo(task, Rest)
    BY <1>1, <1>6, <2>1, MoveStands
  <2>3. Scalars'
    BY <1>1, <1>2, <1>4, <1>9 DEF Scalars, Streams, topic, publics
  <2>4. Deferring'
    BY <1>1, <1>2, <1>3, <1>9, <2>2, RestFits, DeferringStays
  <2>5. ASSUME NEW x \in Requests, x # r PROVE Good(x)'
    <3>1. Good(x) /\ StreamKept(x)
      BY <1>9 DEF IInv
    <3>2. at[task].req # {x} /\ Rest.req # {x} /\ (x \in stuck => x \in stuck')
      BY <1>3, <1>4, <2>1, <2>5
    <3>3. told' = told /\ resolutions' = resolutions
      BY <1>9 DEF publics
    <3> QED
      BY <1>1, <1>2, <1>6, <2>1, <3>1, <3>2, <3>3, OthersGood
  <2>6. Good(r)'
    <3>1. InOrder(r)'
      BY <1>1, <1>5, <1>6, <2>1, OrderStays DEF Good, Shown, Writes
    <3>2. StreamKept(r) /\ (r \in requests' <=> r \in requests) /\ Keeps(r)
      BY <1>2, <1>8, <1>9
    <3>3. told' = told /\ resolutions' = resolutions
      BY <1>9 DEF publics
    <3>4. r \notin requests \/ (at[task].for = "owner" /\ r \in stuck')
      BY <1>4, <1>9
    <3> QED
      BY <1>1, <1>5, <2>1, <2>2, <3>1, <3>2, <3>3, <3>4, ForgottenGood
  <2> QED
    BY <1>9, <2>2, <2>3, <2>4, <2>5, <2>6 DEF IInv, Base
<1>10. CASE at[task].for = "owner"
  <2>1. Finish(task, lockq) /\ UNCHANGED <<publics, todo, missed>>
    BY <1>10 DEF AnswerFails
  <2>2. Streams' /\ Distinct' /\ (\A x \in Requests : StreamKept(x))
    BY <1>1, <1>2, <2>1, StreamStays
  <2>3. missed' \subseteq Requests /\ missed \subseteq missed'
    BY <1>1, <2>1 DEF Scalars
  <2> QED
    BY <1>9, <1>10, <2>1, <2>2, <2>3
<1>11. CASE at[task].for # "owner" /\ r \notin requests
  <2>1. /\ Finish(task, lockq) /\ UNCHANGED publics
        /\ \/ /\ todo' = << >> /\ deferred' = deferred /\ events' = events
              /\ missed' = missed \union {todo[i].req : i \in DOMAIN todo}
           \/ UNCHANGED <<todo, missed>>
    BY <1>2, <1>3, <1>11 DEF AnswerFails
  <2>2. /\ Streams' /\ Distinct' /\ (\A x \in Requests : StreamKept(x))
        /\ missed' \subseteq Requests /\ missed \subseteq missed'
    <3>1. CASE UNCHANGED <<todo, missed>>
      BY <1>1, <1>2, <3>1, StreamStays DEF Scalars
    <3>2. CASE /\ todo' = << >> /\ deferred' = deferred /\ events' = events
               /\ missed' = missed \union {todo[i].req : i \in DOMAIN todo}
      <4>1. Streams' /\ Distinct' /\ (\A x \in Requests : StreamKept(x))
        BY <1>1, <3>2, StreamDropped
      <4>2. \A i \in DOMAIN todo : todo[i] \in Event
        BY <1>1 DEF Streams
      <4>3. \A i \in DOMAIN todo : todo[i].req \in Requests
        BY <4>2 DEF Event
      <4> QED
        BY <1>1, <3>2, <4>1, <4>3 DEF Scalars
    <3> QED
      BY <2>1, <3>1, <3>2
  <2>3. todo = << >> => todo' = << >>
    BY <2>1
  <2> QED
    BY <1>9, <1>11, <2>1, <2>2, <2>3
\* The request is opened for manual review.
<1>12. CASE at[task].for # "owner" /\ r \in requests
  <2>1. Emit(task, r, "opened") /\ UNCHANGED <<todo, missed>>
    BY <1>3, <1>12 DEF AnswerFails
  <2>2. Streams' /\ Distinct' /\ (\A x \in Requests : StreamKept(x))
    BY <1>1, <1>2, <2>1, StreamStays
  <2>3. PICK frame :
            /\ Useful(task, frame) /\ Advance(task, frame, lockq)
            /\ frame.req = {} \/ frame.req = {r}
            /\ frame.pc \in {"idle", "writing"}
            /\ Emits(frame, r, "opened")
            /\ told' \in [Requests -> {"nothing", "opened", "resolved"}]
            /\ resolutions' \in [Requests -> Nat]
            /\ \A x \in Requests : x # r =>
                  told'[x] = told[x] /\ resolutions'[x] = resolutions[x]
    BY <1>1, <1>2, <1>6, <2>1, EmitMoves
  <2>4. Threads' /\ MovesTo(task, frame)
    BY <1>1, <1>6, <2>3, MoveStands
  <2>5. Scalars'
    BY <1>1, <1>2, <1>4, <2>1, <2>2, <2>3 DEF Scalars, Streams, topic
  <2>6. Deferring'
    BY <1>1, <1>2, <1>3, <2>1, <2>3, <2>4, DeferringStays
  <2>7. ASSUME NEW x \in Requests, x # r PROVE Good(x)'
    <3>1. Good(x) /\ StreamKept(x)
      BY <2>2 DEF IInv
    <3>2. at[task].req # {x} /\ frame.req # {x} /\ (x \in stuck => x \in stuck')
      BY <1>3, <1>4, <2>3, <2>7
    <3>3. told'[x] = told[x] /\ resolutions'[x] = resolutions[x]
      BY <2>3, <2>7
    <3> QED
      BY <1>1, <1>2, <1>6, <2>3, <3>1, <3>2, <3>3, OthersGood
  <2>8. Good(r)'
    <3>1. told[r] # "resolved" /\ \A t \in Tasks : ~Writes(at[t], r, "resolved")
      BY <1>5, <1>12 DEF Good, Resolved
    <3>2. InOrder(r)'
      BY <1>1, <1>5, <1>6, <2>3, <3>1, OrderStays DEF Good, Shown
    <3>3. Stream' = Stream
      BY <1>2, <2>1 DEF Stream
    <3>4. Asked(r) \notin Stream' /\ (Settled(r) \in Stream' => Settled(r) \in Stream)
      BY <1>7, <3>3
    <3>5. Keeps(r) /\ r \in requests' /\ r \in stuck' \union missed'
      BY <1>2, <1>4, <1>8, <1>12, <2>1
    <3> QED
      BY <1>1, <1>5, <1>6, <1>7, <2>3, <2>4, <3>1, <3>2, <3>4, <3>5, OpenedGood
  <2> QED
    BY <2>2, <2>4, <2>5, <2>6, <2>7, <2>8 DEF IInv, Base
<1> QED
  BY <1>10, <1>11, <1>12
-----------------------------------------------------------------------------
(* Handling an event                                                       *)

\* What the handler leaves alone.
Aside == UNCHANGED <<backend, topic, binding, observed, attaching, home, agent, stuck>>

LEMMA TakenKeeps ==
  ASSUME Streams, Distinct, NEW e, Taken(e), NEW x \in Requests, missed \subseteq missed',
         x # e.req \/ x \in missed'
  PROVE  StreamKept(x)
<1>1. Stream = Stream' \union {e}
  BY StreamTaken
<1>2. Asked(x).req = x /\ Settled(x).req = x
  BY TheyAreEvents
<1>3. \A f \in {Asked(x), Settled(x)} :
         /\ f \in Stream' => f \in Stream
         /\ f \in Stream => f \in Stream' \/ x \in missed'
  BY <1>1, <1>2
<1> QED
  BY <1>3 DEF StreamKept

LEMMA DropStep ==
  ASSUME IInv, NEW task \in {"worker", "backend"}, at[task].pc = "idle", NEW e, Taken(e),
         Drop(task, e.req), Aside
  PROVE  IInv'
<1>1. Scalars /\ Threads /\ Deferring /\ Distinct /\ Streams /\ task \in Tasks
  BY TypesOfStream DEF IInv, Base, Tasks
<1>2. Streams' /\ Distinct' /\ e.req \in Requests
  BY <1>1, StreamTaken, EventsOf
<1>3. /\ missed' = missed \union {e.req} /\ Finish(task, lockq)
      /\ UNCHANGED <<requests, resolving, held, told, resolutions>>
  BY DEF Drop, publics
<1>4. \A x \in Requests : StreamKept(x)
  BY <1>1, <1>3, TakenKeeps
<1>5. Calm
  BY <1>3, <1>4 DEF Calm, Aside
<1>6. Released(task, lockq) /\ at[task].req = {}
  BY <1>1, CallReleases, FreeOfRequests DEF Calls, Answers
<1>7. Advance(task, Rest, lockq) /\ Useful(task, Rest) /\ Rest.req = {}
  BY <1>1, <1>3, Finishes DEF Aside
<1>8. Threads' /\ MovesTo(task, Rest) /\ \A r \in Requests : Good(r)'
  BY <1>1, <1>5, <1>6, <1>7, CalmMoves
<1>9. Scalars'
  BY <1>1, <1>2, <1>3 DEF Scalars, Streams, Aside, topic
<1>10. Deferring'
  <2>1. UNCHANGED <<attaching, deferred>> /\ (todo = << >> => todo' = << >>)
    BY DEF Taken, Aside
  <2> QED
    BY <1>1, <1>8, <2>1, RestFits, DeferringStays
<1> QED
  BY <1>2, <1>8, <1>9, <1>10 DEF IInv, Base

\* The handler opens or closes the request by telling the clients.
LEMMA EmitStep ==
  ASSUME IInv, NEW task \in {"worker", "backend"}, at[task].pc = "idle", NEW e, Taken(e), Aside,
         NEW r \in Requests, r = e.req, NEW what \in {"opened", "resolved"},
         \/ what = "opened" /\ e = Asked(r) /\ requests' = requests \union {r}
         \/ what = "resolved" /\ e = Settled(r) /\ r \in requests /\ requests' = requests \ {r},
         Emit(task, r, what), UNCHANGED <<resolving, held, missed>>
  PROVE  IInv'
<1>1. /\ Scalars /\ Threads /\ Deferring /\ Distinct /\ Streams /\ task \in Tasks /\ Good(r)
      /\ UNCHANGED <<backend, topic, binding, observed, attaching, home, agent, stuck>>
  BY TypesOfStream DEF IInv, Base, Tasks, Aside
<1>2. /\ Streams' /\ Distinct' /\ Stream = Stream' \union {e}
      /\ e.kind = "asked" => e \notin Stream'
  BY <1>1, StreamTaken
<1>3. \A x \in Requests : x # r => StreamKept(x)
  BY <1>1, TakenKeeps
<1>4. Released(task, lockq) /\ at[task].req = {} /\ at[task].pc \in Calls
  BY <1>1, CallReleases, FreeOfRequests DEF Calls, Answers
<1>5. PICK frame :
          /\ Useful(task, frame) /\ Advance(task, frame, lockq)
          /\ frame.req = {} \/ frame.req = {r}
          /\ frame.pc \in {"idle", "writing"}
          /\ Emits(frame, r, what)
          /\ told' \in [Requests -> {"nothing", "opened", "resolved"}]
          /\ resolutions' \in [Requests -> Nat]
          /\ \A x \in Requests : x # r =>
                told'[x] = told[x] /\ resolutions'[x] = resolutions[x]
  <2>1. backend' = backend /\ Scalars /\ at[task].pc \in Calls /\ Emit(task, r, what)
    BY <1>1, <1>4
  <2>2. CASE what = "opened"
    BY <2>1, <2>2, EmitMoves
  <2>3. CASE what = "resolved"
    BY <2>1, <2>3, EmitMoves
  <2> QED
    BY <2>2, <2>3
<1>6. Threads' /\ MovesTo(task, frame)
  BY <1>1, <1>4, <1>5, MoveStands
<1>7. Scalars'
  BY <1>1, <1>2, <1>5 DEF Scalars, Streams, topic
<1>8. Deferring'
  <2>1. UNCHANGED <<attaching, deferred>> /\ (todo = << >> => todo' = << >>)
    BY <1>1 DEF Taken
  <2> QED
    BY <1>1, <1>5, <1>6, <2>1, DeferringStays
<1>9. ASSUME NEW x \in Requests, x # r PROVE Good(x)'
  <2>1. Good(x) /\ StreamKept(x)
    BY <1>3, <1>9 DEF IInv
  <2>2. at[task].req # {x} /\ frame.req # {x} /\ (x \in requests' <=> x \in requests)
    BY <1>4, <1>5, <1>9
  <2>3. told'[x] = told[x] /\ resolutions'[x] = resolutions[x]
    BY <1>5, <1>9
  <2> QED
    BY <1>1, <1>4, <1>5, <2>1, <2>2, <2>3, OthersGood
<1>10. Keeps(r)
  BY <1>1 DEF Keeps
<1>11. /\ Asked(r) # Settled(r) /\ Asked(r).kind = "asked"
  BY TheyAreEvents
<1>12. CASE what = "opened"
  <2>1. Asked(r) \in Stream /\ Asked(r) \notin Stream' /\ r \in requests'
    BY <1>2, <1>11, <1>12
  <2>2. Untouched(r) /\ agent[r] # "quiet"
    BY <1>1, <2>1 DEF Good, Ahead
  <2>3. /\ told[r] # "resolved" /\ \A t \in Tasks : ~Writes(at[t], r, "resolved")
        /\ \A t \in Tasks : ~AnswersTo(at[t], r)
    BY <2>2 DEF Untouched, Writes, AnswersTo
  <2>4. /\ Settled(r) \in Stream' => Settled(r) \in Stream
        /\ Settled(r) \in Stream => Settled(r) \in Stream'
    BY <1>2, <1>11, <1>12
  <2>5. r \in held' \/ Settled(r) \in Stream' \/ r \in stuck' \union missed'
    BY <1>1, <2>1, <2>3, <2>4 DEF Good, Pending
  <2>6. InOrder(r)'
    BY <1>1, <1>4, <1>5, <2>3, OrderStays DEF Good, Shown
  <2> QED
    <3>1. Good(r)'
      BY <1>1, <1>4, <1>5, <1>6, <1>10, <1>12, <2>1, <2>2, <2>3, <2>4, <2>5, <2>6, OpenedGood
    <3> QED
      BY <1>2, <1>6, <1>7, <1>8, <1>9, <3>1 DEF IInv, Base
<1>13. CASE what = "resolved"
  <2>1. e = Settled(r) /\ r \in requests /\ r \notin requests'
    BY <1>13
  <2>2. Settled(r) \in Stream
    BY <1>2, <2>1
  <2>3. agent[r] = "settled"
    BY <1>1, <2>2 DEF Good, Resolved
  <2>4. Asked(r) \notin Stream /\ home[r] \in Sessions
    BY <1>1, <2>1, Touched
  <2>5. Asked(r) \notin Stream' /\ resolutions[r] \in Nat
    BY <1>1, <1>2, <2>4 DEF Scalars
  <2>6. ~Writes(frame, r, "opened")
    BY <1>5, <1>13 DEF Emits, Writes
  <2>7. InOrder(r)'
    BY <1>1, <1>4, <1>5, <2>6, OrderStays DEF Good, Shown
  <2> QED
    <3>1. Good(r)'
      BY <1>1, <1>4, <1>5, <1>6, <1>10, <1>13, <2>1, <2>3, <2>4, <2>5, <2>7, ResolvedGood
    <3> QED
      BY <1>2, <1>6, <1>7, <1>8, <1>9, <3>1 DEF IInv, Base
<1> QED
  BY <1>12, <1>13

\* The handler opens the request and approves it.
LEMMA ApproveStep ==
  ASSUME IInv, NEW task \in {"worker", "backend"}, at[task].pc = "idle", NEW e, Taken(e), Aside,
         NEW r \in Requests, r = e.req, e = Asked(r), requests' = requests \union {r},
         Answer(task, r, "bridge"), UNCHANGED <<told, resolutions, missed>>
  PROVE  IInv'
<1>1. /\ Scalars /\ Threads /\ Deferring /\ Distinct /\ Streams /\ task \in Tasks /\ Good(r)
      /\ UNCHANGED <<backend, topic, binding, observed, attaching, home, agent, stuck>>
  BY TypesOfStream DEF IInv, Base, Tasks, Aside
<1>2. /\ Streams' /\ Distinct' /\ Stream = Stream' \union {e}
      /\ e.kind = "asked" => e \notin Stream'
  BY <1>1, StreamTaken
<1>3. \A x \in Requests : x # r => StreamKept(x)
  BY <1>1, TakenKeeps
<1>4. Released(task, lockq) /\ at[task].req = {} /\ at[task].pc \in Calls
  BY <1>1, CallReleases, FreeOfRequests DEF Calls, Answers
<1>5. PICK frame : /\ Useful(task, frame) /\ Advance(task, frame, lockq)
                   /\ AnswersTo(frame, r) /\ frame.pc = "answering" /\ frame.for = "bridge"
                   /\ frame.req = {r}
  BY <1>1, AnswerMoves
<1>6. Threads' /\ MovesTo(task, frame)
  BY <1>1, <1>4, <1>5, MoveStands
<1>7. held' = held \ {r} /\ resolving' \subseteq Approvals
  BY <1>1 DEF Answer, Scalars
<1>8. Scalars'
  BY <1>1, <1>2, <1>7 DEF Scalars, Streams, topic
<1>9. Deferring'
  <2>1. UNCHANGED <<attaching, deferred>> /\ (todo = << >> => todo' = << >>)
    BY <1>1 DEF Taken
  <2> QED
    BY <1>1, <1>5, <1>6, <2>1, DeferringStays
<1>10. ASSUME NEW x \in Requests, x # r PROVE Good(x)'
  <2>1. Good(x) /\ StreamKept(x)
    BY <1>3, <1>10 DEF IInv
  <2>2. /\ at[task].req # {x} /\ frame.req # {x} /\ (x \in requests' <=> x \in requests)
        /\ (x \in held' <=> x \in held)
    BY <1>4, <1>5, <1>7, <1>10
  <2> QED
    BY <1>1, <1>4, <1>5, <2>1, <2>2, OthersGood
<1>11. Asked(r) # Settled(r) /\ Asked(r).kind = "asked"
  BY TheyAreEvents
<1>12. Asked(r) \in Stream /\ Asked(r) \notin Stream' /\ r \in requests' /\ Keeps(r)
  BY <1>1, <1>2, <1>11 DEF Keeps
<1>13. Untouched(r) /\ agent[r] # "quiet"
  BY <1>1, <1>12 DEF Good, Ahead
<1>14. /\ told[r] # "resolved" /\ \A t \in Tasks : ~Writes(at[t], r, "resolved")
       /\ \A t \in Tasks : ~Writes(at[t], r, "opened")
  BY <1>13 DEF Untouched, Writes
<1>15. InOrder(r)'
  BY <1>1, <1>4, <1>5, <1>14, OrderStays DEF Good, Shown
<1>16. Settled(r) \in Stream' => Settled(r) \in Stream
  BY <1>2
<1>17. Good(r)'
  BY <1>1, <1>5, <1>6, <1>12, <1>13, <1>14, <1>15, <1>16, AnsweredGood
<1> QED
  BY <1>2, <1>6, <1>8, <1>9, <1>10, <1>17 DEF IInv, Base

LEMMA HandleStep ==
  ASSUME IInv, NEW task \in {"worker", "backend"}, at[task].pc = "idle", NEW e, Taken(e),
         Handle(task, e), Aside
  PROVE  IInv'
<1>1. Streams /\ Distinct
  BY TypesOfStream DEF IInv, Base
<1>2. e \in Event
  BY <1>1, StreamTaken
<1>3. PICK r \in Requests : r = e.req
  BY <1>2, EventsOf
<1>4. /\ e.kind \in {"asked", "settled"}
      /\ e.kind = "asked" => e = Asked(r)
      /\ e.kind = "settled" => e = Settled(r)
  BY <1>2, <1>3, EventsOf
<1>5. CASE Drop(task, e.req)
  BY <1>5, DropStep
<1>6. CASE e.kind = "asked" /\ Open(task, e.req) /\ UNCHANGED missed
  <2>1. e = Asked(r) /\ requests' = requests \union {r}
    BY <1>3, <1>4, <1>6 DEF Open
  <2>2. CASE Answer(task, r, "bridge") /\ UNCHANGED publics
    BY <1>3, <1>6, <2>1, <2>2, ApproveStep DEF publics
  <2>3. CASE Emit(task, r, "opened") /\ UNCHANGED <<resolving, held>>
    BY <1>3, <1>6, <2>1, <2>3, EmitStep
  <2> QED
    BY <1>3, <1>6, <2>2, <2>3 DEF Open
<1>7. CASE e.kind # "asked" /\ e.req \in requests /\ Close(task, e.req)
           /\ UNCHANGED <<resolving, held, missed>>
  <2>1. /\ e = Settled(r) /\ r \in requests /\ requests' = requests \ {r}
        /\ Emit(task, r, "resolved")
    BY <1>3, <1>4, <1>7 DEF Close
  <2> QED
    BY <1>3, <1>7, <2>1, EmitStep
<1> QED
  BY <1>5, <1>6, <1>7 DEF Handle

LEMMA ReplayStep ==
  ASSUME IInv, Replay
  PROVE  IInv'
<1>1. at["worker"].pc = "idle" /\ Aside /\ Handle("worker", Head(todo))
  BY DEF Replay, Ready, Aside
<1>2. Taken(Head(todo))
  BY DEF Replay, Taken
<1> QED
  BY <1>1, <1>2, HandleStep

LEMMA HandleEventStep ==
  ASSUME IInv, HandleEvent
  PROVE  IInv'
<1>1. /\ at["backend"].pc = "idle" /\ Aside /\ events # << >>
      /\ events' = Tail(events) /\ todo' = todo
  BY DEF HandleEvent, Ready, Aside
<1>2. Scalars /\ Threads /\ Deferring /\ Distinct /\ Streams
  BY TypesOfStream DEF IInv, Base
<1>3. PICK e : e = Head(events)
  OBVIOUS
<1>4. CASE Drop("backend", e.req) /\ UNCHANGED deferred
  <2>1. Taken(e)
    BY <1>1, <1>3, <1>4 DEF Taken
  <2> QED
    BY <1>1, <1>4, <2>1, DropStep
<1>5. CASE Handle("backend", e) /\ UNCHANGED deferred
  <2>1. Taken(e)
    BY <1>1, <1>3, <1>5 DEF Taken
  <2> QED
    BY <1>1, <1>5, <2>1, HandleStep
<1>6. CASE /\ attaching = home[e.req] /\ deferred' = Append(deferred, e)
           /\ UNCHANGED <<at, lockq, requests, resolving, held, publics, missed>>
  <2>1. Streams' /\ Distinct' /\ Stream' = Stream
    BY <1>1, <1>2, <1>3, <1>6, StreamDeferred
  <2>2. Calm
    BY <1>1, <1>6, <2>1 DEF Calm, Aside, publics, StreamKept
  <2>3. Threads' /\ \A r \in Requests : Good(r)'
    BY <1>6, <2>2, CalmStays
  <2>4. Scalars'
    BY <1>1, <1>2, <1>6, <2>1 DEF Scalars, Streams, Aside, topic, publics
  <2>5. at["worker"].pc \in {"attaching", "saving"}
    <3>1. e \in Event /\ e \in Stream
      BY <1>1, <1>2, <1>3, Popped DEF Streams, Stream
    <3>2. PICK r \in Requests : r = e.req /\ (e = Asked(r) \/ e = Settled(r))
      BY <3>1, EventsOf
    <3>3. agent[r] # "quiet" /\ home[r] \in Sessions
      BY <3>1, <3>2 DEF IInv, Good, Ahead, Resolved
    <3>4. attaching # NoSession
      BY <1>6, <3>2, <3>3, RelayAssumption
    <3> QED
      BY <1>2, <3>4 DEF Deferring
  <2>6. Deferring'
    BY <1>1, <1>2, <1>6, <2>5 DEF Deferring
  <2> QED
    BY <2>1, <2>3, <2>4, <2>6 DEF IInv, Base
<1> QED
  BY <1>3, <1>4, <1>5, <1>6 DEF HandleEvent
-----------------------------------------------------------------------------
(* The theorems                                                            *)

LEMMA InitInv == Init => IInv
<1> SUFFICES ASSUME Init PROVE IInv
  OBVIOUS
<1>1. Elems(<< >>) = {} /\ Once(<< >>) /\ << >> \in Seq(Event)
  BY NoElems
<1>2. << >> \in Seq(Tasks) /\ DOMAIN << >> = {}
  OBVIOUS
<1>3. Stream = {}
  BY <1>1 DEF Init, Stream
<1>4. \A t \in Tasks : at[t] = Rest /\ Rest \in Frame /\ Fits(t, Rest) /\ Rest.pc = "idle"
                       /\ Rest.req = {}
  BY RestFits DEF Init, Useful
<1>5. Threads
  BY <1>2, <1>4 DEF Init, Threads, Waits
<1>6. Scalars
  BY <1>1, RelayAssumption DEF Init, Scalars, Unbound
<1>7. Deferring /\ Distinct
  BY <1>1 DEF Init, Deferring, Distinct, Apart
<1>8. ASSUME NEW r \in Requests PROVE Good(r)
  <2>1. \A t \in Tasks, what \in {"opened", "resolved"} : ~Writes(at[t], r, what)
    BY <1>4 DEF Writes
  <2>2. Untouched(r) /\ agent[r] = "quiet" /\ r \notin held
    BY <1>4 DEF Init, Untouched
  <2>3. InOrder(r)
    BY <1>2 DEF Init, InOrder
  <2> QED
    BY <1>3, <1>4, <2>1, <2>2, <2>3 DEF Good, Ahead, Resolved, Shown, Pending, Untouched
<1> QED
  BY <1>5, <1>6, <1>7, <1>8 DEF IInv, Base

LEMMA StutterInv == IInv /\ UNCHANGED vars => IInv'
<1> SUFFICES ASSUME IInv, UNCHANGED vars PROVE IInv'
  OBVIOUS
<1>1. Scalars /\ Threads /\ Deferring /\ Distinct /\ Streams
  BY TypesOfStream DEF IInv, Base
<1>2. UNCHANGED <<backend, topic, binding, observed, attaching, deferred, requests, resolving,
                  at, lockq, todo, events, held, home, agent, told, resolutions, stuck, missed>>
  BY DEF vars, publics
<1>3. Streams' /\ Distinct' /\ \A r \in Requests : StreamKept(r)
  BY <1>1, <1>2, StreamStays
<1>4. Calm
  BY <1>2, <1>3 DEF Calm
<1>5. Threads' /\ \A r \in Requests : Good(r)'
  BY <1>2, <1>4, CalmStays
<1>6. Scalars' /\ Deferring'
  BY <1>1, <1>2, <1>3 DEF Scalars, Streams, Deferring, topic
<1> QED
  BY <1>3, <1>5, <1>6 DEF IInv, Base

LEMMA NextInv == IInv /\ [Next]_vars => IInv'
<1> SUFFICES ASSUME IInv, [Next]_vars PROVE IInv'
  OBVIOUS
<1>1. ASSUME NEW r \in Requests, NEW s \in Sessions, Ask(r, s) PROVE IInv'
  BY <1>1, AskStep
<1>2. ASSUME NEW r \in Requests, SettleElsewhere(r) PROVE IInv'
  BY <1>2, SettleElsewhereStep
<1>3. ASSUME NEW r \in Requests, Respond(r) PROVE IInv'
  BY <1>3, RespondStep
<1>4. ASSUME NEW task \in {"worker", "backend"}, TakeAnswer(task) PROVE IInv'
  BY <1>4, TakeAnswerStep
<1>5. ASSUME NEW task \in {"worker", "backend"}, AnswerReturns(task) PROVE IInv'
  BY <1>5, AnswerReturnsStep
<1>6. ASSUME NEW task \in {"worker", "backend"}, AnswerFails(task) PROVE IInv'
  BY <1>6, AnswerFailsStep
<1>7. ASSUME NEW task \in {"worker", "backend"}, Written(task) PROVE IInv'
  BY <1>7, WrittenStep
<1>8. CASE HandleEvent
  BY <1>8, HandleEventStep
<1>9. CASE Replay
  BY <1>9, ReplayStep
<1>10. ASSUME NEW s \in Sessions, Attach(s) PROVE IInv'
  BY <1>10, AttachStep
<1>11. CASE AttachFails
  BY <1>11, AttachFailsStep
<1>12. CASE Attached
  BY <1>12, AttachedStep
<1>13. CASE Saved
  BY <1>13, SavedStep
<1>14. CASE Detach \/ Suspend
  BY <1>14, RestsStep
<1>15. CASE Sync
  BY <1>15, SyncStep
<1>16. CASE Listed
  BY <1>16, ListedStep
<1>17. CASE Activate
  BY <1>17, ActivateStep
<1>18. CASE Reattached \/ ReattachFails
  BY <1>18, ReattachStep
<1>19. CASE UNCHANGED vars
  BY <1>19, StutterInv
<1> QED
  BY <1>1, <1>2, <1>3, <1>4, <1>5, <1>6, <1>7, <1>8, <1>9, <1>10, <1>11, <1>12, <1>13, <1>14,
     <1>15, <1>16, <1>17, <1>18, <1>19 DEF Next

\* The invariant of the relay, with every backend, failure and interleaving of
\* the worker, the topic handler and the backend loop (bridge.py).
THEOREM Invariance == Spec => []IInv
<1>1. Init => IInv
  BY InitInv
<1>2. IInv /\ [Next]_vars => IInv'
  BY NextInv
<1> QED
  BY <1>1, <1>2, PTL DEF Spec

LEMMA TypesHold == IInv => TypeOK
<1> SUFFICES ASSUME IInv PROVE TypeOK
  OBVIOUS
<1>1. Scalars /\ Threads
  BY DEF IInv, Base
<1>2. EventsSeq(deferred) /\ EventsSeq(todo) /\ EventsSeq(events)
  <2>1. \A s \in Seq(Event) : EventsSeq(s)
    <3>1. \A s \in Seq(Event), i \in Nat : i \in DOMAIN s => s[i] \in Event
      OBVIOUS
    <3>2. \A s \in Seq(Event) : \A i \in DOMAIN s : i \in Nat
      OBVIOUS
    <3> QED
      BY <3>1, <3>2 DEF EventsSeq, Event
  <2> QED
    BY <1>1, <2>1 DEF Scalars
<1>3. {lockq[i] : i \in DOMAIN lockq} = {t \in Tasks : at[t].pc \in {"writing", "saving", "listing"}}
  <2>1. \A i \in DOMAIN lockq : lockq[i] \in Tasks
    BY <1>1 DEF Threads
  <2> QED
    BY <1>1, <2>1 DEF Threads, Waits
<1> QED
  BY <1>1, <1>2, <1>3 DEF TypeOK, Scalars, Threads

\* What is known of one request, in the words of the properties.
LEMMA GoodMeans ==
  ASSUME NEW r \in Requests, Threads, Good(r)
  PROVE  /\ r \in Approvals => resolutions[r] <= 1
         /\ told[r] = "resolved" => agent[r] = "settled"
         /\ r \in requests /\ told[r] # "opened" => Answering(r) \/ Writing(r, "opened")
         /\ told[r] = "opened" /\ r \notin requests => Writing(r, "resolved")
         /\ r \in requests => r \in held \/ Answering(r) \/ Coming(r, "settled")
                              \/ r \in stuck \union missed
         /\ agent[r] = "waiting" => r \in requests \/ Coming(r, "asked") \/ r \in missed
<1>1. \A t \in Tasks : \A what : Writes(at[t], r, what) => Writing(r, what)
  BY DEF Writes, Writing
<1>2. \A t \in Tasks : AnswersTo(at[t], r) => Answering(r)
  BY DEF AnswersTo, Answering, Answers
<1>3. ASSUME NEW what, [kind |-> what, req |-> r] \in Stream PROVE Coming(r, what)
  BY <1>3 DEF Stream, Elems, Coming
<1>4. /\ Settled(r) \in Stream => Coming(r, "settled")
      /\ Asked(r) \in Stream => Coming(r, "asked")
  BY <1>3 DEF Settled, Asked
<1>5. /\ r \in Approvals => resolutions[r] <= 1
      /\ told[r] = "resolved" => agent[r] = "settled"
  BY DEF Good, Resolved
<1>6. /\ r \in requests /\ told[r] # "opened" => Answering(r) \/ Writing(r, "opened")
      /\ told[r] = "opened" /\ r \notin requests => Writing(r, "resolved")
  BY <1>1, <1>2 DEF Good, Shown
<1>7. /\ r \in requests => r \in held \/ Answering(r) \/ Coming(r, "settled")
                           \/ r \in stuck \union missed
      /\ agent[r] = "waiting" => r \in requests \/ Coming(r, "asked") \/ r \in missed
  BY <1>2, <1>4 DEF Good, Pending
<1> QED
  BY <1>5, <1>6, <1>7

\* Clients are told that a request is resolved only when its agent no longer
\* waits, and of an approval once, however the owner's answer, the automatic one
\* and the backend's report race (_resolve_approval, request_resolved).
THEOREM RequestsResolveOnce == Spec => []ResolvedOnce
<1>1. IInv => ResolvedOnce
  <2> SUFFICES ASSUME IInv PROVE ResolvedOnce
    OBVIOUS
  <2>1. Threads /\ \A r \in Requests : Good(r)
    BY DEF IInv, Base
  <2>2. ApprovalResolvedOnce /\ ResolvedIsSettled
    BY <2>1, GoodMeans DEF ApprovalResolvedOnce, ResolvedIsSettled, Requests
  <2> QED
    BY <2>2, TypesHold DEF ResolvedOnce
<1> QED
  BY <1>1, Invariance, PTL

\* Clients show a request exactly while the bridge would take an answer, but for
\* one that is being approved automatically and events being written (_emit,
\* _open_request, _action_sync).
THEOREM ClientsShowWhatIsPending == Spec => []ClientsAgree
<1>1. IInv => ClientsAgree
  BY GoodMeans DEF IInv, Base, ClientsAgree
<1> QED
  BY <1>1, Invariance, PTL

\* A pending request can be answered or is being resolved, and an agent that waits
\* is known to the bridge, but for failed answers, unreported resolutions and
\* dropped events (runtime.requests against the backend's table).
THEOREM PendingRequestsAreTrue == Spec => []PendingIsTrue
<1>1. IInv => PendingIsTrue
  <2> SUFFICES ASSUME IInv PROVE PendingIsTrue
    OBVIOUS
  <2>1. Threads /\ (\A r \in Requests : Good(r)) /\ requests \subseteq Requests
    BY DEF IInv, Base, Scalars
  <2>2. PendingIsAnswerable
    BY <2>1, GoodMeans DEF PendingIsAnswerable
  <2>3. NobodyForgotten
    BY <2>1, GoodMeans DEF NobodyForgotten
  <2> QED
    BY <2>2, <2>3 DEF PendingIsTrue
<1> QED
  BY <1>1, Invariance, PTL

\* What was published as resolved is not published as open again (_open_request
\* after its awaits, _action_sync, append_event).
THEOREM ResolvedIsFinal == Spec => ResolvedStaysResolved
<1> DEFINE Stays == \A r \in Requests : told[r] = "resolved" => told'[r] = "resolved"
<1>1. ASSUME IInv, [Next]_vars PROVE [Stays]_vars
  <2> SUFFICES ASSUME NEW r \in Requests, told[r] = "resolved" PROVE told'[r] = "resolved"
    OBVIOUS
  <2>1. Scalars /\ Threads /\ Good(r) /\ Streams /\ Distinct
    BY <1>1, TypesOfStream DEF IInv, Base
  <2>2. r \notin requests /\ Asked(r) \notin Stream
    BY <2>1, Touched DEF Good, Resolved
  <2>3. \A t \in Tasks : ~Writes(at[t], r, "opened")
    BY <2>1 DEF Good, Shown
  <2> DEFINE Final == told'[r] = "resolved"
  <2>4. ASSUME NEW x \in Requests, NEW task, Emit(task, x, "opened"), x # r PROVE Final
    BY <2>1, <2>4 DEF Emit, Tell, publics, Scalars
  <2>5. ASSUME NEW x \in Requests, NEW task, Emit(task, x, "resolved") PROVE Final
    BY <2>1, <2>5 DEF Emit, Tell, publics, Scalars
  <2>6. ASSUME NEW task \in {"worker", "backend"}, AnswerReturns(task) PROVE Final
    <3>1. Request(task) \in Requests
      BY <2>1, <2>6, RequestOf DEF AnswerReturns, Answers, Tasks
    <3> QED
      BY <2>5, <2>6, <3>1 DEF AnswerReturns, Pop, publics
  <2>7. ASSUME NEW task \in {"worker", "backend"}, AnswerFails(task) PROVE Final
    <3>1. Request(task) \in Requests
      BY <2>1, <2>7, RequestOf DEF AnswerFails, Answers, Tasks
    <3>2. Request(task) \in requests => Request(task) # r
      BY <2>2
    <3> QED
      BY <2>4, <2>7, <3>1, <3>2 DEF AnswerFails, publics
  <2>8. ASSUME NEW task \in {"worker", "backend"}, Written(task) PROVE Final
    <3>1. /\ Request(task) \in Requests /\ at[task].req = {Request(task)}
          /\ at[task].for \in {"opened", "resolved"} /\ at[task].pc = "writing"
      BY <2>1, <2>8, RequestOf DEF Written, Holds, Tasks, Threads, Fits
    <3>2. at[task].for = "opened" => Request(task) # r
      BY <2>3, <3>1 DEF Writes, Tasks
    <3>3. Tell(Request(task), at[task].for)
      BY <2>8 DEF Written
    <3> QED
      BY <2>1, <3>1, <3>2, <3>3 DEF Tell, Scalars
  <2>9. ASSUME NEW task, NEW e \in Event, e \in Stream, Handle(task, e) PROVE Final
    <3>1. e.req \in Requests /\ (e.kind = "asked" => e.req # r)
      BY <2>2, <2>9, EventsOf
    <3> QED
      BY <2>4, <2>5, <2>9, <3>1 DEF Handle, Open, Close, Drop, publics
  <2>10. CASE HandleEvent
    <3>1. events # << >> => Head(events) \in Event /\ Head(events) \in Stream
      BY <2>1, Popped DEF Streams, Stream
    <3> QED
      BY <2>9, <2>10, <3>1 DEF HandleEvent, Drop, publics
  <2>11. CASE Replay
    <3>1. todo # << >> => Head(todo) \in Event /\ Head(todo) \in Stream
      BY <2>1, Popped DEF Streams, Stream
    <3> QED
      BY <2>9, <2>11, <3>1 DEF Replay
  <2>12. CASE Sync \/ Listed
    <3>1. told' = told \/ \A x \in Requests : x \notin requests => told'[x] = told[x]
      BY <2>12 DEF Sync, Listed, Republish, publics
    <3> QED
      BY <2>2, <3>1
  <2>13. CASE told' = told
    BY <2>13
  <2>14. CASE \/ \E x \in Requests : \/ \E s \in Sessions : Ask(x, s)
                                     \/ SettleElsewhere(x)
                                     \/ Respond(x)
              \/ \E task \in {"worker", "backend"} : TakeAnswer(task)
              \/ \E s \in Sessions : Attach(s)
              \/ AttachFails \/ Attached \/ Saved \/ Detach
              \/ Suspend \/ Activate \/ Reattached \/ ReattachFails
    BY <2>14 DEF Ask, SettleElsewhere, Respond, TakeAnswer, Attach, AttachFails, Attached, Saved,
                 Detach, Suspend, Activate, Reattached, ReattachFails, publics
  <2>15. CASE UNCHANGED vars
    BY <2>15 DEF vars, publics
  <2> QED
    BY <1>1, <2>6, <2>7, <2>8, <2>10, <2>11, <2>12, <2>14, <2>15 DEF Next
<1> QED
  BY <1>1, Invariance, PTL DEF Spec, ResolvedStaysResolved
=============================================================================
