-------------------------- MODULE PiSessionsProofs --------------------------
(***************************************************************************)
(* Proofs about PiSessions for any processes, sessions and bounds, on Pi   *)
(* and on OMP.                                                             *)
(*                                                                         *)
(* The invariant says what may be on its way.  A process at rest has       *)
(* announced nothing whose end is not behind it in the pipe (Ordered); an  *)
(* answer in an inbox or a pipe is the only one, and its task waits        *)
(* (SlotsOf); an object that is read is known and has the process behind   *)
(* it (Fits); and a task that keeps an object keeps one that was           *)
(* registered (Keeps).                                                     *)
(***************************************************************************)
EXTENDS PiSessions, SequenceTheorems, FiniteSetTheorems, TLAPS

Plain   == {"start", "typed", "reply", "output", "error", "ask", "settle", "result",
            "eof", "echo"}
Replies == {"ok", "no", "local"}
Frame ==
    {<<k>> : k \in Plain} \union ((Replies \union {"late"}) \X (Tasks \union {None}))
        \union ({"session"} \X Sids)

\* The frames after which the turns announced before are over, or will be: they
\* are read by the object, by the task that was answered, or for a new task.
Closes == {"settle", "result", "local", "eof"}
\* The frames that announce a turn.
Begins == {"typed", "echo", "reply", "output"}

Process == [kind : {"none", "tui", "rpc", "gone"}, file : Sids \union {None},
            run : BOOLEAN, asking : BOOLEAN, inbox : Seq(Tasks \union {None})]
Object == [sid : Sids \union {None}, open : BOOLEAN, pump : BOOLEAN,
           busy : BOOLEAN, turn : BOOLEAN, expected : Nat]
Frames == [pc : {"idle", "spawning", "closing", "failed"} \union Waiting \union Answered,
           conn : Conns \union {None}]

\* The variables, with the types of all that TypeOK leaves open.
Types ==
    /\ proc \in [Conns -> Process] /\ deeds \in Nat
    /\ pipe \in [Conns -> Seq(Frame)]
    /\ sess \in [Conns -> Object]
    /\ sessions \in [Sids -> Conns \union {None}]
    /\ known \subseteq Conns /\ asks \subseteq Conns
    /\ at \in [Tasks -> Frames]
    /\ shown \in [Sids -> SUBSET Conns]
    /\ debt \in [Conns -> Int]
    /\ settling \in [Conns -> Nat] /\ raced \subseteq Conns
    /\ slipped \subseteq Conns /\ displaced \subseteq Conns
    /\ \A t \in Tasks : at[t].conn = None <=> at[t].pc = "idle"

\* An object o, the process p it is for, and what is in the pipe between them.
Fits(c, p, o, q, d, k) ==
    /\ o.open = o.pump /\ (o.turn => o.busy)
    /\ o.pump => o.sid # None
    /\ o.sid = None => o = NoObject /\ d = 0
    /\ p.kind = "none" => o = NoObject
    /\ p.kind = "tui" /\ c \notin k => o = NoObject
    /\ p.kind \in {"tui", "rpc"} => p.file \in Sids
    /\ p.kind \in {"none", "gone"} => ~p.run
    /\ p.kind = "rpc" /\ p.run => o.pump
    /\ p.asking => p.kind = "rpc" /\ p.run
    /\ p.kind \notin {"tui", "rpc"} \/ ~o.pump => p.inbox = << >>
    /\ ~o.pump => q = << >>

\* A task in frame f, and the object and the process it keeps.
Keeps(t, f, o, p, r) ==
    /\ f.pc = "spawning" => o = NoObject /\ p.kind \in {"rpc", "gone"}
    /\ f.pc = "closing" => ~o.pump /\ t = "worker"
    /\ f.pc \notin {"idle", "spawning"} => o.sid # None
    /\ f.pc \in Waiting => o.pump
    /\ f.pc \in Answered /\ f.conn \notin r => o.pump

\* A turn that is announced at position n of the pipe is over behind it, or when
\* the agent that runs has settled.
Over(p, q, n) == p.run \/ \E i \in DOMAIN q : i > n /\ q[i][1] \in Closes

\* The late failure of a prompt whose sender has been told that it was accepted:
\* a time-out does not make it go unheard any more.
Heard(q, i) ==
    /\ q[i][1] = "late" /\ q[i][2] # None
    /\ \A j \in DOMAIN q : j < i => q[j] # <<"ok", q[i][2]>>

\* The end of a turn that has been announced is still to be read.
Coming(p, q) == Over(p, q, 0) \/ \E i \in DOMAIN q : Heard(q, i)

\* A task is to settle it, or to schedule such a task.
Due(c, z, f) == z[c] > 0 \/ \E t \in Tasks : f[t].pc = "local" /\ f[t].conn = c
WillEnd(c, p, q, z, f) == Coming(p, q) \/ Due(c, z, f)

\* The pipe: the end of it, and of the turns announced in it or, by the task that
\* is told that its prompt was accepted, after it.
Ordered(p, q) ==
    /\ \A i \in DOMAIN q : q[i][1] = "eof" => i = Len(q) /\ p.kind = "gone"
    /\ \A i \in DOMAIN q : q[i][1] \in Begins => Over(p, q, i)
    /\ \A i \in DOMAIN q, t \in Tasks : q[i] = <<"ok", t>> =>
          Over(p, q, i) \/ \E j \in DOMAIN q : j > i /\ q[j] = <<"late", t>>

\* A turn that is shown is its object's, and will end.
TurnEnds(c, s, o, p, q, z, f) ==
    /\ o.sid = s /\ o.turn /\ o.pump
    /\ WillEnd(c, p, q, z, f)

\* An answer in the inbox b or in the pipe q is for a task that waits for it,
\* and the only one; only a prompt is a local command.
IsFor(g, t) == g[1] \in Replies /\ g[2] = t
Waits(f, c) == f.pc \in Waiting /\ f.conn = c
SlotsOf(c, t, b, q, f) ==
    /\ \A i \in DOMAIN b : b[i] = t =>
          /\ Waits(f, c)
          /\ \A j \in DOMAIN b : b[j] = t => i = j
          /\ \A j \in DOMAIN q : ~IsFor(q[j], t)
    /\ \A i \in DOMAIN q : IsFor(q[i], t) =>
          /\ Waits(f, c) /\ (q[i][1] = "local" => f.pc = "prompt")
          /\ \A j \in DOMAIN q : IsFor(q[j], t) => i = j

\* An answer that will find nobody is one of those that slipped.
Strays(b, q) ==
    (\E i \in DOMAIN b : b[i] = None) \/ (\E i \in DOMAIN q : IsFor(q[i], None))

\* A dialog that is open is kept, or on its way.
Asked(q) == \E i \in DOMAIN q : q[i] = <<"ask">>

\* The prompts of ours that are under way.
Ours(q) == Cardinality({i \in DOMAIN q : q[i][1] \in {"echo", "no"}})
FailedAt(c) == Cardinality({t \in Tasks : at[t] = [pc |-> "failed", conn |-> c]})
Balance(o, p, q, d, n) ==
    d >= 0 /\ o.expected + d = Ours(q) + Len(p.inbox) + n

\* A process, its object and its pipe.
Local(c) ==
    /\ Fits(c, proc[c], sess[c], pipe[c], debt[c], known)
    /\ Ordered(proc[c], pipe[c])
    /\ \A t \in Tasks : SlotsOf(c, t, proc[c].inbox, pipe[c], at[t])
    /\ Strays(proc[c].inbox, pipe[c]) => c \in slipped
    /\ \A s \in Sids : c \in shown[s] /\ c \notin raced =>
          TurnEnds(c, s, sess[c], proc[c], pipe[c], settling, at)
    /\ sess[c].pump /\ proc[c].asking => c \in asks \/ Asked(pipe[c])
    /\ sess[c].pump /\ Alive(c) /\ c \notin slipped =>
          Balance(sess[c], proc[c], pipe[c], debt[c], FailedAt(c))

\* A task that is not idle; a turn that it is about to announce will end.
Busy(t, c) ==
    /\ Keeps(t, at[t], sess[c], proc[c], raced)
    /\ at[t].pc = "accepted" /\ c \notin raced => WillEnd(c, proc[c], pipe[c], settling, at)

\* Nobody spawns a process twice.
SpawnedOnce == \A t, u \in Tasks :
    at[t].pc = "spawning" /\ at[u].pc = "spawning" /\ at[t].conn = at[u].conn => t = u

IInv ==
    /\ Types /\ ServedIsRegistered /\ SpawnedOnce
    /\ \A c \in Conns : Local(c)
    /\ \A t \in Tasks, c \in Conns : at[t].conn = c => Busy(t, c)
-----------------------------------------------------------------------------
(* Pipes                                                                   *)

\* What a process writes, one frame g at a time, while it changes from p to p2.
Wrote(p, p2, g) ==
    /\ p.kind # "gone"
    /\ g[1] = "eof" => p2.kind = "gone"
    /\ g[1] \in Begins \/ (g[1] = "ok" /\ g[2] # None) => p2.run
    /\ p.run => p2.run \/ g[1] \in Closes

LEMMA FrameKinds ==
    ASSUME NEW g \in Frame
    PROVE  /\ g[1] \in Plain \union Replies \union {"late", "session"}
           /\ g[1] \in Plain => g = <<g[1]>>
           /\ g[1] \in Replies \union {"late"} => g = <<g[1], g[2]>> /\ g[2] \in Tasks \union {None}
           /\ g[1] = "session" => g[2] \in Sids
BY DEF Frame, Plain, Replies

LEMMA Longer ==
    ASSUME NEW q \in Seq(Frame), NEW g \in Frame
    PROVE  /\ Append(q, g) \in Seq(Frame) /\ Len(Append(q, g)) = Len(q) + 1
           /\ DOMAIN q = 1..Len(q) /\ Len(q) \in Nat
           /\ DOMAIN Append(q, g) = 1..Len(q)+1
           /\ \A i \in 1..Len(q) : Append(q, g)[i] = q[i]
           /\ Append(q, g)[Len(q) + 1] = g
           /\ q \o <<g>> = Append(q, g)
BY AppendProperties

LEMMA Joins ==
    ASSUME NEW q \in Seq(Frame), NEW w \in Seq(Frame), NEW g \in Frame
    PROVE  /\ q \o Append(w, g) = Append(q \o w, g) /\ q \o w \in Seq(Frame)
           /\ q \o (<<g>> \o w) = Append(q, g) \o w
           /\ q \o << >> = q /\ q \o <<g>> = Append(q, g)
           /\ Append(<<g>>, g) = <<g>> \o <<g>>
<1>1. <<g>> \in Seq(Frame)
  OBVIOUS
<1>2. q \o w \in Seq(Frame)
  BY ConcatProperties
<1>3. /\ Append(w, g) = w \o <<g>> /\ Append(q \o w, g) = (q \o w) \o <<g>>
      /\ Append(q, g) = q \o <<g>> /\ Append(<<g>>, g) = <<g>> \o <<g>>
  BY <1>1, <1>2, AppendIsConcat
<1>4. (q \o w) \o <<g>> = q \o (w \o <<g>>) /\ q \o (<<g>> \o w) = (q \o <<g>>) \o w
  BY <1>1, ConcatAssociative
<1>5. q \o << >> = q
  BY ConcatEmptySeq
<1> QED BY <1>2, <1>3, <1>4, <1>5

LEMMA JoinsLast ==
    ASSUME NEW q \in Seq(Frame), NEW w \in Seq(Frame), NEW g \in Frame
    PROVE  q \o Append(w, g) = Append(q \o w, g)
BY Joins

LEMMA JoinsFirst ==
    ASSUME NEW q \in Seq(Frame), NEW w \in Seq(Frame), NEW g \in Frame
    PROVE  q \o (<<g>> \o w) = Append(q, g) \o w
<1>1. <<g>> \in Seq(Frame)
  OBVIOUS
<1>2. q \o (<<g>> \o w) = (q \o <<g>>) \o w
  BY <1>1, ConcatAssociative
<1> QED BY <1>2, AppendIsConcat

LEMMA Shorter ==
    ASSUME NEW q \in Seq(Frame), q # << >>
    PROVE  /\ Tail(q) \in Seq(Frame) /\ Len(Tail(q)) = Len(q) - 1
           /\ Len(q) \in Nat \ {0} /\ DOMAIN q = 1..Len(q)
           /\ DOMAIN Tail(q) = 1..Len(q)-1
           /\ \A i \in 1..Len(q)-1 : Tail(q)[i] = q[i+1]
           /\ Head(q) = q[1] /\ Head(q) \in Frame
BY HeadTailProperties

LEMMA OrderedLonger ==
    ASSUME NEW p, NEW p2, NEW q \in Seq(Frame), NEW g \in Frame,
           Ordered(p, q), Wrote(p, p2, g)
    PROVE  /\ Ordered(p2, Append(q, g))
           /\ Coming(p, q) => Coming(p2, Append(q, g))
<1> DEFINE r == Append(q, g)
<1>1. /\ DOMAIN q = 1..Len(q) /\ Len(q) \in Nat
      /\ DOMAIN r = 1..Len(q)+1 /\ Len(r) = Len(q) + 1
      /\ \A i \in 1..Len(q) : r[i] = q[i]
      /\ r[Len(q) + 1] = g
  BY Longer
<1> HIDE DEF r
<1>2. ASSUME NEW i \in DOMAIN r, r[i][1] = "eof" PROVE i = Len(r) /\ p2.kind = "gone"
  BY <1>1, <1>2 DEF Ordered, Wrote
<1>3. ASSUME NEW n \in 0..Len(q), Over(p, q, n) PROVE Over(p2, r, n)
  BY <1>1, <1>3 DEF Over, Wrote
<1>4. ASSUME NEW i \in DOMAIN r, r[i][1] \in Begins PROVE Over(p2, r, i)
  <2>1. CASE i \in 1..Len(q)
    <3>1. Over(p, q, i)
      BY <1>1, <1>4, <2>1 DEF Ordered
    <3> QED BY <1>3, <2>1, <3>1
  <2>2. CASE i = Len(q) + 1
    BY <1>1, <1>4, <2>2 DEF Wrote, Over
  <2> QED BY <1>1, <2>1, <2>2
<1>5. ASSUME NEW i \in DOMAIN r, NEW t \in Tasks, r[i] = <<"ok", t>>
      PROVE  Over(p2, r, i) \/ \E j \in DOMAIN r : j > i /\ r[j] = <<"late", t>>
  <2>1. CASE i \in 1..Len(q)
    <3>1. Over(p, q, i) \/ \E j \in DOMAIN q : j > i /\ q[j] = <<"late", t>>
      BY <1>1, <1>5, <2>1 DEF Ordered
    <3> QED BY <1>1, <1>3, <2>1, <3>1
  <2>2. CASE i = Len(q) + 1
    <3>1. g[1] = "ok" /\ g[2] # None
      BY <1>1, <1>5, <2>2 DEF Tasks, None
    <3> QED BY <3>1 DEF Wrote, Over
  <2> QED BY <1>1, <2>1, <2>2
<1>6. Ordered(p2, r)
  BY <1>2, <1>4, <1>5 DEF Ordered
<1>7. ASSUME NEW i \in DOMAIN q, Heard(q, i) PROVE i \in DOMAIN r /\ Heard(r, i)
  BY <1>1, <1>7 DEF Heard
<1>8. Coming(p, q) => Coming(p2, r)
  BY <1>1, <1>3, <1>7 DEF Coming
<1> QED BY <1>6, <1>8 DEF r

\* A prompt is accepted, and has failed by then: nothing else has changed.
LEMMA LateLonger ==
    ASSUME NEW p, NEW p2, NEW q \in Seq(Frame), NEW t \in Tasks \union {None},
           <<"ok", t>> \in Frame, <<"late", t>> \in Frame,
           Ordered(p, q), p.kind # "gone", p.run = p2.run
    PROVE  LET r == Append(Append(q, <<"ok", t>>), <<"late", t>>) IN
           Ordered(p2, r) /\ (Coming(p, q) => Coming(p2, r))
<1> DEFINE q1 == Append(q, <<"ok", t>>)
           r == Append(q1, <<"late", t>>)
<1>1. /\ DOMAIN q = 1..Len(q) /\ Len(q) \in Nat
      /\ DOMAIN r = 1..Len(q)+2 /\ Len(r) = Len(q) + 2
      /\ \A i \in 1..Len(q) : r[i] = q[i]
      /\ r[Len(q) + 1] = <<"ok", t>> /\ r[Len(q) + 2] = <<"late", t>>
  <2>1. /\ DOMAIN q = 1..Len(q) /\ Len(q) \in Nat /\ q1 \in Seq(Frame)
        /\ Len(q1) = Len(q) + 1
        /\ \A i \in 1..Len(q) : q1[i] = q[i]
        /\ q1[Len(q) + 1] = <<"ok", t>>
    BY Longer
  <2> HIDE DEF q1
  <2>2. /\ DOMAIN r = 1..Len(q1)+1 /\ Len(r) = Len(q1) + 1
        /\ \A i \in 1..Len(q1) : r[i] = q1[i]
        /\ r[Len(q1) + 1] = <<"late", t>>
    BY <2>1, Longer
  <2> HIDE DEF r
  <2> QED BY <2>1, <2>2
<1> HIDE DEF q1, r
<1>2. \A i \in DOMAIN r : i \in DOMAIN q \/ r[i] \in {<<"ok", t>>, <<"late", t>>}
  BY <1>1
<1>3. ASSUME NEW i \in DOMAIN r, r[i][1] \in Begins \union {"eof"} PROVE i \in DOMAIN q /\ r[i] = q[i]
  BY <1>1, <1>2, <1>3 DEF Begins
<1>4. \A i \in DOMAIN q : q[i][1] # "eof"
  BY DEF Ordered
<1>5. ASSUME NEW n \in 0..Len(q), Over(p, q, n) PROVE Over(p2, r, n)
  BY <1>1, <1>5 DEF Over
<1>6. ASSUME NEW i \in DOMAIN r, r[i][1] \in Begins PROVE Over(p2, r, i)
  <2>1. i \in DOMAIN q /\ Over(p, q, i)
    BY <1>3, <1>6 DEF Ordered
  <2> QED BY <1>1, <1>5, <2>1
<1>7. ASSUME NEW i \in DOMAIN r, NEW u \in Tasks, r[i] = <<"ok", u>>
      PROVE  Over(p2, r, i) \/ \E j \in DOMAIN r : j > i /\ r[j] = <<"late", u>>
  <2>1. CASE i \in DOMAIN q
    <3>1. Over(p, q, i) \/ \E j \in DOMAIN q : j > i /\ q[j] = <<"late", u>>
      BY <1>1, <1>7, <2>1 DEF Ordered
    <3> QED BY <1>1, <1>5, <2>1, <3>1
  <2>2. CASE i \notin DOMAIN q
    <3>1. t = u /\ i = Len(q) + 1
      BY <1>1, <1>7, <2>2
    <3> QED BY <1>1, <3>1
  <2> QED BY <2>1, <2>2
<1>8. Ordered(p2, r)
  BY <1>3, <1>4, <1>6, <1>7 DEF Ordered
<1>9. ASSUME NEW i \in DOMAIN q, Heard(q, i) PROVE i \in DOMAIN r /\ Heard(r, i)
  <2>1. i \in DOMAIN r /\ r[i] = q[i] /\ \A j \in DOMAIN r : j < i => j \in DOMAIN q /\ r[j] = q[j]
    BY <1>1
  <2> QED BY <1>9, <2>1 DEF Heard
<1>10. Coming(p, q) => Coming(p2, r)
  BY <1>1, <1>5, <1>9 DEF Coming
<1> QED BY <1>8, <1>10 DEF r, q1

LEMMA OrderedShorter ==
    ASSUME NEW p, NEW q \in Seq(Frame), q # << >>, Ordered(p, q)
    PROVE  /\ Ordered(p, Tail(q))
           /\ Head(q)[1] = "eof" => Tail(q) = << >> /\ p.kind = "gone"
           /\ Head(q)[1] \in Begins => Coming(p, Tail(q))
           /\ \A t \in Tasks : Head(q) = <<"ok", t>> /\ (\A i \in DOMAIN Tail(q) : Tail(q)[i] # <<"ok", t>>)
                 => Coming(p, Tail(q))
           /\ Head(q)[1] \notin Closes /\ (Head(q)[1] = "late" => Head(q)[2] = None) /\ Coming(p, q)
                 => Coming(p, Tail(q))
<1> DEFINE r == Tail(q)
<1>1. /\ r \in Seq(Frame) /\ Len(r) = Len(q) - 1
      /\ Len(q) \in Nat \ {0} /\ DOMAIN q = 1..Len(q)
      /\ DOMAIN r = 1..Len(q)-1
      /\ \A i \in 1..Len(q)-1 : r[i] = q[i+1]
      /\ Head(q) = q[1]
  BY Shorter
<1> HIDE DEF r
<1>2. ASSUME NEW i \in DOMAIN r, r[i][1] = "eof" PROVE i = Len(r) /\ p.kind = "gone"
  BY <1>1, <1>2 DEF Ordered
<1>3. ASSUME NEW i \in 1..Len(q), Over(p, q, i) PROVE Over(p, r, i-1)
  <2>1. CASE p.run
    BY <2>1 DEF Over
  <2>2. ASSUME NEW j \in DOMAIN q, j > i, q[j][1] \in Closes PROVE Over(p, r, i-1)
    <3>1. j-1 \in DOMAIN r /\ j-1 > i-1 /\ r[j-1][1] \in Closes
      BY <1>1, <2>2
    <3> QED BY <3>1 DEF Over
  <2> QED BY <1>3, <2>1, <2>2 DEF Over
<1>4. ASSUME NEW i \in DOMAIN r, r[i][1] \in Begins PROVE Over(p, r, i)
  <2>1. i+1 \in DOMAIN q /\ q[i+1][1] \in Begins /\ i+1 \in 1..Len(q) /\ i \in Nat
    BY <1>1, <1>4
  <2>2. Over(p, q, i+1)
    BY <2>1 DEF Ordered
  <2>3. (i+1)-1 = i
    BY <2>1
  <2> QED BY <1>3, <2>1, <2>2, <2>3
<1>5. ASSUME NEW i \in DOMAIN r, NEW t \in Tasks, r[i] = <<"ok", t>>
      PROVE  Over(p, r, i) \/ \E j \in DOMAIN r : j > i /\ r[j] = <<"late", t>>
  <2>1. i+1 \in DOMAIN q /\ q[i+1] = <<"ok", t>> /\ i+1 \in 1..Len(q) /\ i \in Nat
    BY <1>1, <1>5
  <2>2. (i+1)-1 = i
    BY <2>1
  <2>3. CASE Over(p, q, i+1)
    BY <1>3, <2>1, <2>2, <2>3
  <2>4. ASSUME NEW j \in DOMAIN q, j > i+1, q[j] = <<"late", t>>
        PROVE  \E k \in DOMAIN r : k > i /\ r[k] = <<"late", t>>
    <3>1. j-1 \in DOMAIN r /\ j-1 > i /\ r[j-1] = q[j]
      BY <1>1, <2>1, <2>4
    <3> QED BY <2>4, <3>1
  <2> QED BY <2>1, <2>3, <2>4 DEF Ordered
<1>6. ASSUME Head(q)[1] = "eof" PROVE r = << >> /\ p.kind = "gone"
  <2>1. 1 = Len(q) /\ p.kind = "gone"
    BY <1>1, <1>6 DEF Ordered
  <2> QED BY <1>1, <2>1
<1>7. ASSUME Over(p, q, 1) PROVE Coming(p, r)
  <2>1. Over(p, r, 1-1)
    BY <1>1, <1>3, <1>7
  <2> QED BY <2>1 DEF Coming
<1>8. ASSUME Head(q)[1] \in Begins PROVE Coming(p, r)
  BY <1>1, <1>7, <1>8 DEF Ordered
<1>9. ASSUME NEW t \in Tasks, Head(q) = <<"ok", t>>, \A i \in DOMAIN r : r[i] # <<"ok", t>>
      PROVE  Coming(p, r)
  <2>1. CASE Over(p, q, 1)
    BY <1>7, <2>1
  <2>2. ASSUME NEW j \in DOMAIN q, j > 1, q[j] = <<"late", t>> PROVE Coming(p, r)
    <3>1. PICK k \in DOMAIN r : r[k] = <<"late", t>>
      <4>1. j-1 \in DOMAIN r /\ r[j-1] = <<"late", t>>
        BY <1>1, <2>2
      <4> QED BY <4>1
    <3>2. t # None
      BY DEF Tasks, None
    <3>3. Heard(r, k)
      BY <1>9, <3>1, <3>2 DEF Heard
    <3> QED BY <3>3 DEF Coming
  <2>3. 1 \in DOMAIN q /\ q[1] = <<"ok", t>>
    BY <1>1, <1>9
  <2>4. Over(p, q, 1) \/ \E j \in DOMAIN q : j > 1 /\ q[j] = <<"late", t>>
    BY <2>3 DEF Ordered
  <2> QED BY <2>1, <2>2, <2>4
<1>10. ASSUME Head(q)[1] \notin Closes, Head(q)[1] = "late" => Head(q)[2] = None, Coming(p, q)
       PROVE  Coming(p, r)
  <2>1. CASE Over(p, q, 0)
    <3>1. Over(p, q, 1)
      BY <1>1, <1>10, <2>1 DEF Over
    <3> QED BY <1>7, <3>1
  <2>2. ASSUME NEW i \in DOMAIN q, Heard(q, i) PROVE Coming(p, r)
    <3>1. i # 1
      BY <1>1, <1>10, <2>2 DEF Heard
    <3>2. i-1 \in DOMAIN r /\ r[i-1] = q[i]
      BY <1>1, <3>1
    <3>3. ASSUME NEW j \in DOMAIN r, j < i-1 PROVE r[j] # <<"ok", r[i-1][2]>>
      <4>1. j+1 \in DOMAIN q /\ j+1 < i /\ r[j] = q[j+1]
        BY <1>1, <3>2, <3>3
      <4> QED BY <2>2, <3>2, <4>1 DEF Heard
    <3>4. Heard(r, i-1)
      BY <2>2, <3>2, <3>3 DEF Heard
    <3> QED BY <3>2, <3>4 DEF Coming
  <2> QED BY <1>10, <2>1, <2>2 DEF Coming
<1> QED BY <1>2, <1>4, <1>5, <1>6, <1>8, <1>9, <1>10 DEF Ordered, r

\* Slots, as frames come and go.
LEMMA SlotsLonger ==
    ASSUME NEW c, NEW t, NEW b, NEW f, NEW q \in Seq(Frame), NEW g \in Frame,
           SlotsOf(c, t, b, q, f), ~IsFor(g, t)
    PROVE  SlotsOf(c, t, b, Append(q, g), f)
<1> DEFINE r == Append(q, g)
<1>1. /\ DOMAIN q = 1..Len(q) /\ Len(q) \in Nat
      /\ DOMAIN r = 1..Len(q)+1
      /\ \A i \in 1..Len(q) : r[i] = q[i]
      /\ r[Len(q) + 1] = g
  BY Longer
<1> HIDE DEF r
<1>2. \A i \in DOMAIN r : IsFor(r[i], t) => i \in DOMAIN q /\ r[i] = q[i]
  BY <1>1
<1> QED BY <1>2 DEF SlotsOf, r

LEMMA SlotsShorter ==
    ASSUME NEW c, NEW t, NEW b, NEW f, NEW q \in Seq(Frame), q # << >>,
           SlotsOf(c, t, b, q, f)
    PROVE  /\ SlotsOf(c, t, b, Tail(q), f)
           /\ IsFor(Head(q), t) => /\ Waits(f, c)
                                   /\ \A i \in DOMAIN Tail(q) : ~IsFor(Tail(q)[i], t)
                                   /\ \A i \in DOMAIN b : b[i] # t
<1> DEFINE r == Tail(q)
<1>1. /\ Len(q) \in Nat \ {0} /\ DOMAIN q = 1..Len(q)
      /\ DOMAIN r = 1..Len(q)-1
      /\ \A i \in 1..Len(q)-1 : r[i] = q[i+1]
      /\ Head(q) = q[1]
  BY Shorter
<1> HIDE DEF r
<1>2. \A i \in DOMAIN r : i+1 \in DOMAIN q /\ r[i] = q[i+1] /\ i \in Int /\ i+1 # 1 /\ 1 \in DOMAIN q
  BY <1>1
<1>3. ASSUME NEW i \in DOMAIN b, b[i] = t
      PROVE  Waits(f, c) /\ (\A j \in DOMAIN b : b[j] = t => i = j) /\ \A j \in DOMAIN r : ~IsFor(r[j], t)
  BY <1>2, <1>3 DEF SlotsOf
<1>4. ASSUME NEW i \in DOMAIN r, IsFor(r[i], t)
      PROVE  /\ Waits(f, c) /\ (r[i][1] = "local" => f.pc = "prompt")
             /\ \A j \in DOMAIN r : IsFor(r[j], t) => i = j
  <2>1. Waits(f, c) /\ (r[i][1] = "local" => f.pc = "prompt") /\ \A j \in DOMAIN q : IsFor(q[j], t) => i+1 = j
    BY <1>2, <1>4 DEF SlotsOf
  <2>2. ASSUME NEW j \in DOMAIN r, IsFor(r[j], t) PROVE i = j
    <3>1. i + 1 = j + 1
      BY <1>2, <2>1, <2>2
    <3> QED BY <3>1, <1>2
  <2> QED BY <2>1, <2>2
<1>5. ASSUME IsFor(Head(q), t)
      PROVE  /\ Waits(f, c) /\ (Head(q)[1] = "local" => f.pc = "prompt")
             /\ \A i \in DOMAIN r : ~IsFor(r[i], t)
             /\ \A i \in DOMAIN b : b[i] # t
  <2>1. 1 \in DOMAIN q /\ IsFor(q[1], t)
    BY <1>1, <1>5
  <2>2. Waits(f, c) /\ (q[1][1] = "local" => f.pc = "prompt") /\ \A j \in DOMAIN q : IsFor(q[j], t) => 1 = j
    BY <2>1 DEF SlotsOf
  <2> QED BY <1>1, <1>2, <2>1, <2>2 DEF SlotsOf
<1> QED BY <1>3, <1>4, <1>5 DEF SlotsOf, r

LEMMA OnlyPromptsAreLocal ==
    ASSUME NEW c, NEW t, NEW b, NEW f, NEW q \in Seq(Frame), q # << >>,
           SlotsOf(c, t, b, q, f), IsFor(Head(q), t), Head(q)[1] = "local"
    PROVE  f.pc = "prompt"
<1>1. 1 \in DOMAIN q /\ Head(q) = q[1]
  BY Shorter
<1> QED BY <1>1 DEF SlotsOf

\* A prompt leaves the inbox, and its answer enters the pipe.
LEMMA SlotsTaken ==
    ASSUME NEW c, NEW t, NEW b \in Seq(Tasks \union {None}), b # << >>, NEW f,
           NEW q \in Seq(Frame), NEW k \in Replies, <<k, Head(b)>> \in Frame,
           k = "local" /\ Head(b) = t => f.pc = "prompt",
           SlotsOf(c, t, b, q, f)
    PROVE  SlotsOf(c, t, Tail(b), Append(q, <<k, Head(b)>>), f)
<1> DEFINE r == Append(q, <<k, Head(b)>>)
           e == Tail(b)
<1>1. /\ DOMAIN q = 1..Len(q) /\ Len(q) \in Nat
      /\ DOMAIN r = 1..Len(q)+1
      /\ \A i \in 1..Len(q) : r[i] = q[i]
      /\ r[Len(q) + 1] = <<k, Head(b)>>
  BY Longer
<1>2. /\ DOMAIN b = 1..Len(b) /\ Len(b) \in Nat \ {0} /\ b[1] = Head(b)
      /\ DOMAIN e = 1..Len(b)-1 /\ \A i \in 1..Len(b)-1 : e[i] = b[i+1]
  BY HeadTailProperties
<1> HIDE DEF r, e
<1>3. IsFor(<<k, Head(b)>>, t) <=> b[1] = t
  BY <1>2 DEF IsFor
<1>4. \A i \in DOMAIN e : i+1 \in DOMAIN b /\ e[i] = b[i+1] /\ i \in Int /\ i+1 # 1
  BY <1>2
<1>5. 1 \in DOMAIN b
  BY <1>2
<1>6. CASE b[1] = t
  <2>1. Waits(f, c) /\ (\A j \in DOMAIN b : b[j] = t => 1 = j) /\ (\A j \in DOMAIN q : ~IsFor(q[j], t))
    BY <1>5, <1>6 DEF SlotsOf
  <2>2. \A i \in DOMAIN e : e[i] # t
    BY <1>4, <2>1
  <2>3. \A i \in DOMAIN r : IsFor(r[i], t) => i = Len(q) + 1
    BY <1>1, <2>1
  <2>5. r[Len(q) + 1][1] = "local" => f.pc = "prompt"
    BY <1>1, <1>2, <1>6
  <2>4. SlotsOf(c, t, e, r, f)
    BY <2>1, <2>2, <2>3, <2>5 DEF SlotsOf
  <2> QED BY <2>4 DEF r, e
<1>7. CASE b[1] # t
  <2>1. \A i \in DOMAIN r : IsFor(r[i], t) => i \in DOMAIN q /\ r[i] = q[i]
    BY <1>1, <1>3, <1>7
  <2>2. ASSUME NEW i \in DOMAIN e, e[i] = t
        PROVE  Waits(f, c) /\ (\A j \in DOMAIN e : e[j] = t => i = j) /\ \A j \in DOMAIN r : ~IsFor(r[j], t)
    <3>1. Waits(f, c) /\ (\A j \in DOMAIN b : b[j] = t => i+1 = j) /\ \A j \in DOMAIN q : ~IsFor(q[j], t)
      BY <1>4, <2>2 DEF SlotsOf
    <3>2. ASSUME NEW j \in DOMAIN e, e[j] = t PROVE i = j
      <4>1. i + 1 = j + 1
        BY <1>4, <3>1, <3>2
      <4> QED BY <4>1, <1>4
    <3> QED BY <2>1, <3>1, <3>2
  <2>3. ASSUME NEW i \in DOMAIN r, IsFor(r[i], t)
        PROVE  /\ Waits(f, c) /\ (r[i][1] = "local" => f.pc = "prompt")
               /\ \A j \in DOMAIN r : IsFor(r[j], t) => i = j
    <3>1. i \in DOMAIN q /\ IsFor(q[i], t) /\ r[i] = q[i]
      BY <2>1, <2>3
    <3>2. Waits(f, c) /\ (q[i][1] = "local" => f.pc = "prompt") /\ \A j \in DOMAIN q : IsFor(q[j], t) => i = j
      BY <3>1 DEF SlotsOf
    <3>3. ASSUME NEW j \in DOMAIN r, IsFor(r[j], t) PROVE i = j
      BY <2>1, <3>2, <3>3
    <3> QED BY <3>1, <3>2, <3>3
  <2>4. SlotsOf(c, t, e, r, f)
    BY <2>2, <2>3 DEF SlotsOf
  <2> QED BY <2>4 DEF r, e
<1> QED BY <1>6, <1>7 DEF r, e

LEMMA SlotsOfNobody ==
    ASSUME NEW c, NEW t, NEW b, NEW q, NEW f, NEW f2,
           SlotsOf(c, t, b, q, f), ~Waits(f, c)
    PROVE  SlotsOf(c, t, b, q, f2)
BY DEF SlotsOf

\* The prompts under way, as frames come and go.
LEMMA OursEmpty == Ours(<< >>) = 0
BY FS_EmptySet DEF Ours

LEMMA OursLonger ==
    ASSUME NEW q \in Seq(Frame), NEW g \in Frame
    PROVE  /\ Ours(q) \in Nat
           /\ Ours(Append(q, g)) = IF g[1] \in {"echo", "no"} THEN Ours(q) + 1 ELSE Ours(q)
<1> DEFINE r == Append(q, g)
           S == {i \in DOMAIN q : q[i][1] \in {"echo", "no"}}
           R == {i \in DOMAIN r : r[i][1] \in {"echo", "no"}}
<1>1. /\ DOMAIN q = 1..Len(q) /\ Len(q) \in Nat
      /\ DOMAIN r = 1..Len(q)+1
      /\ \A i \in 1..Len(q) : r[i] = q[i]
      /\ r[Len(q) + 1] = g
  BY Longer
<1>2. IsFiniteSet(S) /\ Cardinality(S) \in Nat /\ Len(q) + 1 \notin S
  <2>1. IsFiniteSet(1..Len(q)) /\ S \in SUBSET (1..Len(q)) /\ Len(q) + 1 \notin S
    BY <1>1, FS_Interval
  <2>2. IsFiniteSet(S)
    BY <2>1, FS_Subset
  <2> QED BY <2>1, <2>2, FS_CardinalityType
<1> HIDE DEF r
<1>3. R = IF g[1] \in {"echo", "no"} THEN S \union {Len(q) + 1} ELSE S
  BY <1>1
<1>4. Cardinality(S \union {Len(q) + 1}) = Cardinality(S) + 1
  BY <1>2, FS_AddElement
<1> QED BY <1>2, <1>3, <1>4 DEF Ours, r

LEMMA OursShorter ==
    ASSUME NEW q \in Seq(Frame), q # << >>
    PROVE  Ours(q) = IF Head(q)[1] \in {"echo", "no"} THEN Ours(Tail(q)) + 1 ELSE Ours(Tail(q))
<1> DEFINE r == Tail(q)
           S == {i \in DOMAIN q : q[i][1] \in {"echo", "no"}}
           R == {i \in DOMAIN r : r[i][1] \in {"echo", "no"}}
           F == [i \in R |-> i + 1]
<1>1. /\ Len(q) \in Nat \ {0} /\ DOMAIN q = 1..Len(q)
      /\ DOMAIN r = 1..Len(q)-1
      /\ \A i \in 1..Len(q)-1 : r[i] = q[i+1]
      /\ Head(q) = q[1]
  BY Shorter
<1>2. IsFiniteSet(S) /\ IsFiniteSet(R)
  <2>1. IsFiniteSet(1..Len(q)) /\ IsFiniteSet(1..Len(q)-1)
    BY <1>1, FS_Interval
  <2> QED BY <1>1, <2>1, FS_Subset
<1> HIDE DEF r
<1>3. F \in Bijection(R, S \ {1})
  <2>1. F \in [R -> S \ {1}]
    BY <1>1
  <2>2. ASSUME NEW i \in R, NEW j \in R, F[i] = F[j] PROVE i = j
    BY <1>1, <2>2
  <2>3. ASSUME NEW j \in S \ {1} PROVE \E i \in R : F[i] = j
    <3>1. j-1 \in R /\ F[j-1] = j
      BY <1>1
    <3> QED BY <3>1
  <2> HIDE DEF F, R, S
  <2>4. F \in Injection(R, S \ {1})
    BY <2>1, <2>2 DEF Injection, IsInjective
  <2>5. F \in Surjection(R, S \ {1})
    BY <2>1, <2>3 DEF Surjection
  <2> QED BY <2>4, <2>5 DEF Bijection
<1>4. Cardinality(R) = Cardinality(S \ {1})
  <2>1. ExistsBijection(R, S \ {1})
    BY <1>3 DEF ExistsBijection
  <2> QED BY <1>2, <2>1, FS_Bijection
<1>5. Cardinality(S \ {1}) = IF 1 \in S THEN Cardinality(S) - 1 ELSE Cardinality(S)
  BY <1>2, FS_RemoveElement
<1>6. Cardinality(S) \in Nat
  BY <1>2, FS_CardinalityType
<1>7. 1 \in S <=> Head(q)[1] \in {"echo", "no"}
  BY <1>1
<1> HIDE DEF S, R, F
<1>8. Cardinality(S) = IF Head(q)[1] \in {"echo", "no"} THEN Cardinality(R) + 1 ELSE Cardinality(R)
  BY <1>4, <1>5, <1>6, <1>7
<1> QED BY <1>8 DEF Ours, S, R, r
-----------------------------------------------------------------------------
(* A step that concerns one process                                        *)

\* Nothing of another process changes, and no task that keeps another.
OnlyAt(c) ==
    /\ \A d \in Conns : d # c =>
          /\ proc'[d] = proc[d] /\ sess'[d] = sess[d]
          /\ pipe'[d] = pipe[d] /\ debt'[d] = debt[d]
          /\ \A s \in Sids : d \in shown'[s] => d \in shown[s]
    /\ known \ {c} \subseteq known' /\ asks \ {c} \subseteq asks'
    /\ \A d \in Conns : d # c => settling'[d] = settling[d]
    /\ raced \subseteq raced' /\ slipped \subseteq slipped'
    /\ \A t \in Tasks : at'[t] = at[t] \/ {at[t].conn, at'[t].conn} \subseteq {c, None}

\* What is due at an object stays due when none of its local prompts is settled.
LEMMA DueStays ==
    ASSUME NEW c, settling[c] > 0 => settling'[c] > 0,
           \A t \in Tasks : at[t].pc = "local" /\ at[t].conn = c
              => at'[t].pc = "local" /\ at'[t].conn = c
    PROVE  Due(c, settling, at) => Due(c, settling', at')
BY DEF Due

LEMMA DueElsewhere ==
    ASSUME NEW c \in Conns, OnlyAt(c), NEW d \in Conns, d # c
    PROVE  Due(d, settling, at) => Due(d, settling', at')
<1>1. ASSUME NEW t \in Tasks, at[t].conn = d PROVE at'[t] = at[t]
  BY <1>1, PiAssumption DEF OnlyAt
<1>2. settling'[d] = settling[d]
  BY DEF OnlyAt
<1> QED BY <1>1, <1>2, DueStays

LEMMA FailedElsewhere ==
    ASSUME NEW c \in Conns, OnlyAt(c), NEW d \in Conns, d # c
    PROVE  FailedAt(d)' = FailedAt(d)
<1>1. ASSUME NEW t \in Tasks
      PROVE  at'[t] = [pc |-> "failed", conn |-> d] <=> at[t] = [pc |-> "failed", conn |-> d]
  <2>1. d # None
    BY PiAssumption
  <2>2. at[t] = [pc |-> "failed", conn |-> d] => at[t].conn = d
    OBVIOUS
  <2>3. at'[t] = [pc |-> "failed", conn |-> d] => at'[t].conn = d
    OBVIOUS
  <2> QED BY <2>1, <2>2, <2>3 DEF OnlyAt
<1>2. {t \in Tasks : at'[t] = [pc |-> "failed", conn |-> d]}
        = {t \in Tasks : at[t] = [pc |-> "failed", conn |-> d]}
  BY <1>1
<1> QED BY <1>2 DEF FailedAt

LEMMA Elsewhere ==
    ASSUME NEW c \in Conns, OnlyAt(c), NEW d \in Conns, d # c, Local(d), Types
    PROVE  Local(d)'
<1>1. /\ proc'[d] = proc[d] /\ sess'[d] = sess[d]
      /\ pipe'[d] = pipe[d] /\ debt'[d] = debt[d]
      /\ \A s \in Sids : d \in shown'[s] => d \in shown[s]
      /\ d \in known => d \in known'
      /\ d \in asks => d \in asks'
      /\ Due(d, settling, at) => Due(d, settling', at')
      /\ d \in raced => d \in raced'
      /\ d \in slipped => d \in slipped'
  BY DueElsewhere DEF OnlyAt
<1>2. Fits(d, proc'[d], sess'[d], pipe'[d], debt'[d], known')
  BY <1>1 DEF Local, Fits
<1>3. Ordered(proc'[d], pipe'[d])
  BY <1>1 DEF Local
<1>4. ASSUME NEW t \in Tasks
      PROVE  SlotsOf(d, t, proc'[d].inbox, pipe'[d], at'[t])
  <2>1. SlotsOf(d, t, proc[d].inbox, pipe[d], at[t])
    BY DEF Local
  <2>2. CASE at'[t] = at[t]
    BY <1>1, <2>1, <2>2
  <2>3. CASE {at[t].conn, at'[t].conn} \subseteq {c, None}
    <3>1. ~Waits(at[t], d)
      BY <2>3, PiAssumption DEF Waits
    <3> QED BY <1>1, <2>1, <3>1, SlotsOfNobody
  <2> QED BY <2>2, <2>3 DEF OnlyAt
<1>5. ASSUME NEW s \in Sids, d \in shown'[s], d \notin raced'
      PROVE  TurnEnds(d, s, sess'[d], proc'[d], pipe'[d], settling', at')
  <2>1. TurnEnds(d, s, sess[d], proc[d], pipe[d], settling, at)
    BY <1>1, <1>5 DEF Local
  <2> QED BY <1>1, <2>1 DEF TurnEnds, WillEnd
<1>6. sess'[d].pump /\ proc'[d].asking => d \in asks' \/ Asked(pipe'[d])
  BY <1>1 DEF Local
<1>7. Strays(proc'[d].inbox, pipe'[d]) => d \in slipped'
  BY <1>1 DEF Local
<1>8. sess'[d].pump /\ proc'[d].kind \in {"tui", "rpc"} /\ d \notin slipped' =>
        Balance(sess'[d], proc'[d], pipe'[d], debt'[d], FailedAt(d)')
  <2>1. FailedAt(d)' = FailedAt(d)
    BY FailedElsewhere
  <2> QED BY <1>1, <2>1 DEF Local, Alive
<1> QED BY <1>2, <1>3, <1>4, <1>5, <1>6, <1>7, <1>8 DEF Local, Alive

LEMMA OneStep ==
    ASSUME IInv, Types', NEW c \in Conns, OnlyAt(c), Local(c)',
           \A t \in Tasks : at'[t].conn = c => Busy(t, c)',
           ServedIsRegistered', SpawnedOnce'
    PROVE  IInv'
<1>1. ASSUME NEW d \in Conns PROVE Local(d)'
  <2>1. CASE d = c
    BY <2>1
  <2>2. CASE d # c
    BY <2>2, Elsewhere DEF IInv
  <2> QED BY <2>1, <2>2
<1>2. ASSUME NEW t \in Tasks, NEW d \in Conns, at'[t].conn = d PROVE Busy(t, d)'
  <2>1. CASE d = c
    BY <1>2, <2>1
  <2>2. CASE d # c
    <3>1. at'[t] = at[t]
      BY <1>2, <2>2, PiAssumption DEF OnlyAt
    <3>2. proc'[d] = proc[d] /\ sess'[d] = sess[d] /\ pipe'[d] = pipe[d] /\ raced \subseteq raced'
      BY <2>2 DEF OnlyAt
    <3>3. Busy(t, d)
      BY <1>2, <3>1 DEF IInv
    <3>4. Due(d, settling, at) => Due(d, settling', at')
      BY <2>2, DueElsewhere
    <3> QED BY <1>2, <3>1, <3>2, <3>3, <3>4 DEF Busy, Keeps, WillEnd
  <2> QED BY <2>1, <2>2
<1> QED BY <1>1, <1>2 DEF IInv

\* The registry, when neither it nor the session of an object changes.
LEMMA RegistryStays ==
    ASSUME ServedIsRegistered, UNCHANGED <<sessions, displaced>>,
           \A d \in Conns : sess'[d].pump => sess[d].pump /\ sess'[d].sid = sess[d].sid
    PROVE  ServedIsRegistered'
BY DEF ServedIsRegistered

LEMMA SpawningStays ==
    ASSUME SpawnedOnce, \A t \in Tasks : at'[t].pc = "spawning" => at'[t] = at[t]
    PROVE  SpawnedOnce'
BY DEF SpawnedOnce
-----------------------------------------------------------------------------
(* The invariant, and what it implies                                      *)

LEMMA FromStart == Init => IInv
<1> SUFFICES ASSUME Init PROVE IInv
  OBVIOUS
<1> USE PiAssumption
<1>1. Types
  BY DEF Init, Types, Process, Object, Frames, Unborn, NoObject, Idle, Tasks
<1>2. ServedIsRegistered /\ SpawnedOnce
  BY DEF Init, ServedIsRegistered, SpawnedOnce, NoObject, Idle
<1>3. ASSUME NEW c \in Conns PROVE Local(c)
  <2>1. proc[c] = Unborn /\ sess[c] = NoObject /\ pipe[c] = << >> /\ debt[c] = 0
    BY DEF Init
  <2>2. Fits(c, proc[c], sess[c], pipe[c], debt[c], known)
    BY <2>1 DEF Fits, Unborn, NoObject
  <2>3. Ordered(proc[c], pipe[c]) /\ ~Strays(proc[c].inbox, pipe[c])
    BY <2>1 DEF Ordered, Strays, Unborn
  <2>4. ASSUME NEW t \in Tasks PROVE SlotsOf(c, t, proc[c].inbox, pipe[c], at[t])
    BY <2>1 DEF SlotsOf, Unborn
  <2>5. ASSUME NEW s \in Sids PROVE c \notin shown[s]
    BY DEF Init
  <2>6. ~sess[c].pump
    BY <2>1 DEF NoObject
  <2> QED BY <2>2, <2>3, <2>4, <2>5, <2>6 DEF Local
<1>4. ASSUME NEW t \in Tasks, NEW c \in Conns, at[t].conn = c PROVE FALSE
  BY <1>4 DEF Init, Idle
<1> QED BY <1>1, <1>2, <1>3, <1>4 DEF IInv

LEMMA ServedOnceHolds == IInv => ServedOnce
<1> SUFFICES ASSUME IInv PROVE ServedOnce
  OBVIOUS
<1>1. TypeOK
  BY DEF IInv, Types, TypeOK, Process, Object
<1>2. OneWriter
  BY DEF IInv, ServedIsRegistered, OneWriter
<1> QED BY <1>1, <1>2 DEF IInv, ServedOnce

LEMMA TurnsShownEndHolds == IInv => TurnsShownEnd
<1> SUFFICES ASSUME IInv PROVE TurnsShownEnd
  OBVIOUS
<1>1. ASSUME NEW c \in Conns, NEW s \in Sids, c \in shown[s], c \notin raced
      PROVE  TurnEnds(c, s, sess[c], proc[c], pipe[c], settling, at)
  BY <1>1 DEF IInv, Local
<1>2. OneTurnShown
  <2>1. ASSUME NEW s \in Sids, NEW c \in shown[s] \ (raced \union displaced),
               NEW d \in shown[s] \ (raced \union displaced)
        PROVE  c = d /\ sess[c].sid = s /\ sess[c].turn
    <3>1. c \in Conns /\ d \in Conns
      BY DEF IInv, Types
    <3>2. /\ sess[c].sid = s /\ sess[c].turn /\ sess[c].pump
          /\ sess[d].sid = s /\ sess[d].pump
      BY <1>1, <3>1 DEF TurnEnds
    <3>3. sessions[s] = c /\ sessions[s] = d
      BY <3>1, <3>2 DEF IInv, ServedIsRegistered
    <3> QED BY <3>2, <3>3
  <2> QED BY <2>1 DEF OneTurnShown
<1>3. EveryTurnWillEnd
  <2>1. ASSUME NEW c \in Conns, NEW s \in Sids, c \in shown[s], c \notin raced
        PROVE  \/ Alive(c) /\ proc[c].run
               \/ settling[c] > 0
               \/ \E t \in Tasks : at[t] = [pc |-> "local", conn |-> c]
               \/ \E i \in DOMAIN pipe[c] : Ends(pipe[c][i])
    <3>1. Coming(proc[c], pipe[c]) \/ Due(c, settling, at)
      BY <1>1, <2>1 DEF TurnEnds, WillEnd
    <3>2. proc[c] \in Process /\ (proc[c].kind \in {"none", "gone"} => ~proc[c].run)
      BY DEF IInv, Types, Local, Fits
    <3>3. Due(c, settling, at) => \/ settling[c] > 0
                                  \/ \E t \in Tasks : at[t] = [pc |-> "local", conn |-> c]
      BY DEF IInv, Types, Due, Frames
    <3>4. ASSUME NEW i \in DOMAIN pipe[c], pipe[c][i][1] \in Closes \/ Heard(pipe[c], i)
          PROVE  Ends(pipe[c][i])
      BY <3>4 DEF Closes, Heard, Ends
    <3> QED BY <3>1, <3>2, <3>3, <3>4 DEF Coming, Over, Alive, Process
  <2> QED BY <2>1 DEF EveryTurnWillEnd
<1> QED BY <1>2, <1>3 DEF TurnsShownEnd

LEMMA AnswersCanComeHolds == IInv => AnswersCanCome
<1> SUFFICES ASSUME IInv PROVE AnswersCanCome
  OBVIOUS
<1>1. ASSUME NEW t \in Tasks, at[t].pc \in Waiting PROVE sess[at[t].conn].open
  <2>1. at[t].conn \in Conns
    BY <1>1 DEF IInv, Types, Frames, Waiting
  <2>2. Busy(t, at[t].conn) /\ Local(at[t].conn)
    BY <2>1 DEF IInv
  <2> QED BY <1>1, <2>1, <2>2 DEF Busy, Keeps, Local, Fits
<1>2. DialogsAnswerable
  BY DEF IInv, Local, Asked, DialogsAnswerable
<1> QED BY <1>1, <1>2 DEF AnswersCanCome, NobodyWaitsInVain

LEMMA PromptsAccountedHolds == IInv => PromptsAccounted
BY DEF IInv, Local, Balance, Ours, FailedAt, PromptsAccounted
-----------------------------------------------------------------------------
(* What a process does                                                     *)

\* The answers in an inbox b and a pipe q, of an object whose strays are in k.
Slotted(c, b, q, k) ==
    /\ \A t \in Tasks : SlotsOf(c, t, b, q, at[t])
    /\ Strays(b, q) => c \in k

LEMMA SlottedAdds ==
    ASSUME NEW c, NEW b, NEW b2, NEW k, NEW q \in Seq(Frame), NEW g \in Frame,
           g[1] \notin Replies, b2 \in {b, << >>}, Slotted(c, b, q, k)
    PROVE  Slotted(c, b2, Append(q, g), k)
<1> DEFINE r == Append(q, g)
<1>1. /\ DOMAIN q = 1..Len(q) /\ Len(q) \in Nat
      /\ DOMAIN r = 1..Len(q)+1
      /\ \A i \in 1..Len(q) : r[i] = q[i]
      /\ r[Len(q) + 1] = g
  BY Longer
<1>2. \A t : ~IsFor(g, t)
  BY DEF IsFor
<1>3. ASSUME NEW t \in Tasks PROVE SlotsOf(c, t, b2, r, at[t])
  <2>1. SlotsOf(c, t, b, r, at[t])
    BY <1>2, SlotsLonger DEF Slotted
  <2> QED BY <2>1 DEF SlotsOf
<1> HIDE DEF r
<1>4. \A i \in DOMAIN r : IsFor(r[i], None) => i \in DOMAIN q /\ r[i] = q[i]
  BY <1>1, <1>2
<1>5. Strays(b2, r) => Strays(b, q)
  BY <1>4 DEF Strays
<1> QED BY <1>3, <1>5 DEF Slotted, r

LEMMA SlottedTakes ==
    ASSUME NEW c, NEW b \in Seq(Tasks \union {None}), b # << >>, NEW k,
           NEW q \in Seq(Frame), NEW a \in Replies, <<a, Head(b)>> \in Frame,
           a = "local" /\ Head(b) \in Tasks => at[Head(b)].pc = "prompt",
           Slotted(c, b, q, k)
    PROVE  Slotted(c, Tail(b), Append(q, <<a, Head(b)>>), k)
<1> DEFINE g == <<a, Head(b)>>
           r == Append(q, g)
<1>1. /\ DOMAIN q = 1..Len(q) /\ Len(q) \in Nat
      /\ DOMAIN r = 1..Len(q)+1
      /\ \A i \in 1..Len(q) : r[i] = q[i]
      /\ r[Len(q) + 1] = g
  BY Longer
<1>2. /\ 1 \in DOMAIN b /\ b[1] = Head(b)
      /\ \A i \in DOMAIN Tail(b) : i+1 \in DOMAIN b /\ Tail(b)[i] = b[i+1]
  BY HeadTailProperties
<1>3. ASSUME NEW t \in Tasks PROVE SlotsOf(c, t, Tail(b), r, at[t])
  BY SlotsTaken DEF Slotted
<1> HIDE DEF r
<1>4. Strays(Tail(b), r) => Strays(b, q)
  <2>1. \A i \in DOMAIN r : IsFor(r[i], None) => IsFor(g, None) \/ (i \in DOMAIN q /\ r[i] = q[i])
    BY <1>1
  <2>2. IsFor(g, None) => b[1] = None
    BY <1>2 DEF IsFor
  <2> QED BY <1>2, <2>1, <2>2 DEF Strays
<1> QED BY <1>3, <1>4 DEF Slotted, r

LEMMA AskedLonger ==
    ASSUME NEW q \in Seq(Frame), NEW g \in Frame
    PROVE  /\ Asked(q) => Asked(Append(q, g))
           /\ g = <<"ask">> => Asked(Append(q, g))
<1> DEFINE r == Append(q, g)
<1>1. /\ DOMAIN q = 1..Len(q) /\ Len(q) \in Nat
      /\ DOMAIN r = 1..Len(q)+1
      /\ \A i \in 1..Len(q) : r[i] = q[i]
      /\ r[Len(q) + 1] = g
  BY Longer
<1> HIDE DEF r
<1> QED BY <1>1 DEF Asked, r

\* The process c, now p, has written: the pipe is r, if somebody reads it.
Writes(c, p, r) ==
    /\ Alive(c) /\ proc' = [proc EXCEPT ![c] = p]
    /\ pipe' = IF sess[c].pump THEN [pipe EXCEPT ![c] = r] ELSE pipe
    /\ deeds' \in Nat /\ Outside
    /\ slipped \subseteq slipped' /\ slipped' \subseteq Conns
    /\ p \in Process /\ r \in Seq(Frame)
    /\ \/ p.kind = proc[c].kind /\ p.file \in Sids
       \/ p.kind = "gone" /\ ~p.run /\ ~p.asking /\ p.inbox = << >>
    /\ p.kind = "rpc" /\ p.run => sess[c].pump
    /\ p.asking => p.kind = "rpc" /\ p.run
    /\ ~sess[c].pump => p.inbox = << >>
    /\ sess[c].pump =>
          /\ Ordered(p, r) /\ Slotted(c, p.inbox, r, slipped')
          /\ Coming(proc[c], pipe[c]) => Coming(p, r)
          /\ p.asking => c \in asks \/ Asked(r)
          /\ p.kind # "gone" /\ c \notin slipped' =>
                Ours(r) + Len(p.inbox) = Ours(pipe[c]) + Len(proc[c].inbox)

LEMMA WritesStep ==
    ASSUME IInv, NEW c \in Conns, NEW p, NEW r, Writes(c, p, r)
    PROVE  IInv'
<1> DEFINE q == pipe[c]
<1>1. /\ Types /\ proc[c] \in Process /\ q \in Seq(Frame) /\ sess[c] \in Object
      /\ p \in Process /\ r \in Seq(Frame)
      /\ Local(c)
  BY DEF IInv, Types, Writes
<1>2. /\ proc' = [proc EXCEPT ![c] = p] /\ proc'[c] = p
      /\ \A d \in Conns : d # c => proc'[d] = proc[d]
  BY <1>1 DEF Types, Writes
<1>3. /\ sess' = sess /\ asks' = asks /\ at' = at /\ sessions' = sessions
      /\ known' = known /\ displaced' = displaced /\ settling' = settling
      /\ shown' = shown /\ debt' = debt /\ raced' = raced
  BY DEF Writes, Outside, registry, turns
<1>5. /\ pipe'[c] = IF sess[c].pump THEN r ELSE q
      /\ \A d \in Conns : d # c => pipe'[d] = pipe[d]
      /\ pipe' \in [Conns -> Seq(Frame)]
  BY <1>1 DEF Types, Writes, q
<1>6. Types'
  BY <1>1, <1>2, <1>3, <1>5 DEF Types, Writes
<1>7. OnlyAt(c)
  BY <1>2, <1>3, <1>5 DEF OnlyAt, Writes
<1>8. ServedIsRegistered' /\ SpawnedOnce'
  BY <1>3, RegistryStays, SpawningStays DEF IInv
<1>9. ~sess[c].pump => q = << >>
  BY <1>1 DEF Local, Fits, q
<1>10. Ordered(p, pipe'[c]) /\ Slotted(c, p.inbox, pipe'[c], slipped')
  <2>1. CASE sess[c].pump
    BY <1>5, <2>1 DEF Writes
  <2>2. CASE ~sess[c].pump
    BY <1>5, <1>9, <2>2 DEF Ordered, Slotted, SlotsOf, Strays, Writes
  <2> QED BY <2>1, <2>2
<1>11. sess[c].pump /\ Coming(proc[c], q) => Coming(p, pipe'[c])
  BY <1>5 DEF Writes, q
<1>12. Fits(c, p, sess[c], pipe'[c], debt[c], known)
  <2>1. Fits(c, proc[c], sess[c], q, debt[c], known)
    BY <1>1 DEF Local, q
  <2>2. ~sess[c].pump => pipe'[c] = << >>
    BY <1>5, <1>9
  <2> QED BY <2>1, <2>2 DEF Fits, Writes, Alive
<1>14. ASSUME NEW s \in Sids, c \in shown[s], c \notin raced
       PROVE  TurnEnds(c, s, sess[c], p, pipe'[c], settling, at)
  BY <1>1, <1>11, <1>14 DEF Local, TurnEnds, WillEnd, q
<1>15. sess[c].pump /\ p.asking => c \in asks \/ Asked(pipe'[c])
  BY <1>5 DEF Writes
<1>16. sess[c].pump /\ p.kind \in {"tui", "rpc"} /\ c \notin slipped' =>
          Balance(sess[c], p, pipe'[c], debt[c], FailedAt(c))
  <2> SUFFICES ASSUME sess[c].pump, p.kind \in {"tui", "rpc"}, c \notin slipped'
               PROVE  Balance(sess[c], p, pipe'[c], debt[c], FailedAt(c))
    OBVIOUS
  <2>1. Ours(r) + Len(p.inbox) = Ours(q) + Len(proc[c].inbox) /\ c \notin slipped /\ pipe'[c] = r
    BY <1>5 DEF Writes, q
  <2>2. Balance(sess[c], proc[c], q, debt[c], FailedAt(c))
    BY <1>1, <2>1 DEF Local, Writes, q
  <2> QED BY <2>1, <2>2 DEF Balance
<1>17. FailedAt(c)' = FailedAt(c)
  BY <1>3 DEF FailedAt
<1>18. Local(c)'
  BY <1>2, <1>3, <1>10, <1>12, <1>14, <1>15, <1>16, <1>17 DEF Local, Slotted, Alive
<1>19. ASSUME NEW t \in Tasks, at'[t].conn = c PROVE Busy(t, c)'
  <2>1. Busy(t, c) /\ at'[t] = at[t]
    BY <1>3, <1>19 DEF IInv
  <2>2. Keeps(t, at[t], sess[c], p, raced)
    BY <2>1 DEF Busy, Keeps, Writes, Alive
  <2>3. at[t].pc = "accepted" /\ c \notin raced => WillEnd(c, p, pipe'[c], settling, at)
    BY <1>3, <1>11, <1>19, <2>1 DEF Busy, Keeps, Answered, WillEnd, q
  <2> QED BY <1>2, <1>3, <2>2, <2>3 DEF Busy
<1> QED BY <1>6, <1>7, <1>8, <1>18, <1>19, OneStep

\* The process c, now p, writes the frame g, which is nothing of ours; a prompt
\* that makes it run is announced by the start of the agent.
Does(c, p, g) ==
    /\ Alive(c) /\ proc' = [proc EXCEPT ![c] = p]
    /\ \E w \in {<< >>, << <<"start">> >>} : Write(c, Append(w, g))
    /\ deeds' \in Nat /\ UNCHANGED slipped /\ Outside
    /\ p \in Process /\ g \in Frame /\ g[1] \notin Replies \union {"echo"}
    /\ Wrote(proc[c], p, g)
    /\ \/ p.kind = proc[c].kind /\ p.file \in Sids /\ p.inbox = proc[c].inbox
       \/ p.kind = "gone" /\ ~p.run /\ ~p.asking /\ p.inbox = << >>
    /\ p.kind = "rpc" /\ p.run => proc[c].run
    /\ p.asking => p.kind = "rpc" /\ p.run /\ (proc[c].asking \/ g = <<"ask">>)

\* The agent starts: nothing else.
LEMMA StartWritten ==
    ASSUME IInv, NEW c \in Conns, Alive(c), NEW w \in {<< >>, << <<"start">> >>}
    PROVE  LET r == pipe[c] \o w IN
           /\ r \in Seq(Frame) /\ w \in Seq(Frame)
           /\ Ordered(proc[c], r) /\ Slotted(c, proc[c].inbox, r, slipped)
           /\ Coming(proc[c], pipe[c]) => Coming(proc[c], r)
           /\ Asked(pipe[c]) => Asked(r)
           /\ Ours(r) = Ours(pipe[c])
<1> DEFINE q == pipe[c]
           g == <<"start">>
<1>1. q \in Seq(Frame) /\ Local(c)
  BY DEF IInv, Types
<1>2. g \in Frame /\ g[1] \notin Replies \union Begins \union {"eof", "ok", "echo", "no"}
  BY DEF Frame, Plain, Replies, Begins
<1>3. Ordered(proc[c], q) /\ Slotted(c, proc[c].inbox, q, slipped)
  BY <1>1 DEF Local, Slotted
<1>4. CASE w = << >>
  <2>1. q \o w = q /\ w \in Seq(Frame)
    BY <1>1, <1>4, ConcatEmptySeq
  <2> QED BY <1>1, <1>3, <2>1
<1>5. CASE w = <<g>>
  <2>1. q \o w = Append(q, g) /\ Append(q, g) \in Seq(Frame) /\ w \in Seq(Frame)
    BY <1>1, <1>2, <1>5, Longer
  <2>2. Wrote(proc[c], proc[c], g)
    BY <1>2 DEF Wrote, Alive
  <2> HIDE DEF g
  <2>3. /\ Ordered(proc[c], Append(q, g))
        /\ Coming(proc[c], q) => Coming(proc[c], Append(q, g))
    BY <1>1, <1>2, <1>3, <2>2, OrderedLonger
  <2>4. Slotted(c, proc[c].inbox, Append(q, g), slipped)
    BY <1>1, <1>2, <1>3, SlottedAdds
  <2>5. Asked(q) => Asked(Append(q, g))
    BY <1>1, <1>2, AskedLonger
  <2>6. Ours(Append(q, g)) = Ours(q)
    BY <1>1, <1>2, OursLonger
  <2> QED BY <2>1, <2>3, <2>4, <2>5, <2>6
<1> QED BY <1>4, <1>5

LEMMA DoesStep ==
    ASSUME IInv, NEW c \in Conns, NEW p, NEW g, Does(c, p, g)
    PROVE  IInv'
<1> DEFINE q == pipe[c]
<1>1. PICK w \in {<< >>, << <<"start">> >>} : Write(c, Append(w, g))
  BY DEF Does
<1> DEFINE q0 == q \o w
           r == Append(q0, g)
<1>2. /\ q0 \in Seq(Frame) /\ w \in Seq(Frame)
      /\ Ordered(proc[c], q0) /\ Slotted(c, proc[c].inbox, q0, slipped)
      /\ Coming(proc[c], q) => Coming(proc[c], q0)
      /\ Asked(q) => Asked(q0)
      /\ Ours(q0) = Ours(q)
  BY StartWritten DEF Does
<1>3. /\ Types /\ Local(c) /\ q \in Seq(Frame) /\ p \in Process /\ g \in Frame
      /\ g[1] \notin Replies /\ g[1] \notin {"echo", "no"}
      /\ Wrote(proc[c], p, g)
  BY DEF IInv, Types, Does, Replies
<1>4. q \o Append(w, g) = r
  BY <1>2, <1>3, JoinsLast
<1> HIDE DEF q0
<1>5. r \in Seq(Frame) /\ Ours(r) = Ours(q0) /\ (Asked(q0) => Asked(r)) /\ (g = <<"ask">> => Asked(r))
  BY <1>2, <1>3, Longer, OursLonger, AskedLonger
<1>6. Ordered(p, r) /\ (Coming(proc[c], q0) => Coming(p, r))
  BY <1>2, <1>3, OrderedLonger
<1>7. Slotted(c, p.inbox, r, slipped)
  BY <1>2, <1>3, SlottedAdds DEF Does
<1> HIDE DEF r
<1>8. p.asking => c \in asks \/ Asked(r) \/ ~sess[c].pump
  BY <1>2, <1>3, <1>5 DEF Does, Local, q
<1>9. /\ ~sess[c].pump => p.inbox = << >>
      /\ p.kind = "rpc" /\ p.run => sess[c].pump
  BY <1>3 DEF Does, Local, Fits
<1>10. pipe' = IF sess[c].pump THEN [pipe EXCEPT ![c] = r] ELSE pipe
  BY <1>1, <1>3, <1>4 DEF Types, Write, q
<1>11. slipped' = slipped /\ slipped \subseteq Conns
  BY <1>3 DEF Does, Types
<1>12. p.kind # "gone" => p.inbox = proc[c].inbox
  BY DEF Does
<1>13. Writes(c, p, r)
  BY <1>2, <1>3, <1>5, <1>6, <1>7, <1>8, <1>9, <1>10, <1>11, <1>12 DEF Writes, Does, q
<1> QED BY <1>13, WritesStep
\* A process that has just been started, and one that has gone.
LEMMA NewProcess ==
    ASSUME NEW kind \in {"tui", "rpc", "gone"}, NEW s \in Sids \union {None}
    PROVE  LET p == [Unborn EXCEPT !.kind = kind, !.file = s] IN
           /\ p \in Process /\ p.kind = kind /\ p.file = s
           /\ ~p.run /\ ~p.asking /\ p.inbox = << >>
<1>1. << >> \in Seq(Tasks \union {None})
  OBVIOUS
<1> QED BY <1>1 DEF Process, Unborn

LEMMA GoneProcess ==
    ASSUME NEW c
    PROVE  /\ Gone(c) \in Process /\ Gone(c).kind = "gone"
           /\ ~Gone(c).run /\ ~Gone(c).asking /\ Gone(c).inbox = << >>
<1>1. << >> \in Seq(Tasks \union {None})
  OBVIOUS
<1> QED BY <1>1 DEF Process, Unborn, Gone

LEMMA ProcessSteps ==
    ASSUME IInv, NEW c \in Conns,
           \/ Type(c) \/ Speak(c) \/ Ask(c) \/ Settle(c) \/ Quit(c)
           \/ \E s \in Sids : Switch(c, s)
    PROVE  IInv'
<1> DEFINE p == proc[c]
<1>1. /\ p \in Process /\ deeds \in Nat
      /\ Fits(c, p, sess[c], pipe[c], debt[c], known)
      /\ p.run \in BOOLEAN /\ p.asking \in BOOLEAN
  BY DEF IInv, Types, Local, Process
<1>8. << >> \in {<< >>, << <<"start">> >>} /\ (\A g : Append(<< >>, g) = <<g>>)
  OBVIOUS
<1> USE DEF Change, Wrote, Closes, Begins, Replies, Alive
<1>2. CASE Type(c)
  <2> DEFINE p2 == [p EXCEPT !.run = TRUE]
  <2>1. p2 \in Process
    BY <1>1 DEF Process
  <2>2. <<"typed">> \in Frame
    BY DEF Frame, Plain
  <2>3. deeds' \in Nat
    BY <1>1, <1>2 DEF Type, Deed
  <2>5. Starts(c) \in {<< >>, << <<"start">> >>}
    BY DEF Starts
  <2>4. Does(c, p2, <<"typed">>)
    BY <1>1, <1>2, <2>1, <2>2, <2>3, <2>5 DEF Type, Does, Fits, Process
  <2> QED BY <2>4, DoesStep
<1>3. CASE Speak(c)
  <2>1. PICK f \in {"reply", "error"} : Write(c, << <<f>> >>)
    BY <1>3 DEF Speak
  <2>2. <<f>> \in Frame
    BY DEF Frame, Plain
  <2>3. proc' = [proc EXCEPT ![c] = p]
    BY <1>3 DEF Speak, IInv, Types
  <2>4. Does(c, p, <<f>>)
    BY <1>1, <1>3, <1>8, <2>1, <2>2, <2>3 DEF Speak, Does, Fits, Process
  <2> QED BY <2>4, DoesStep
<1>4. CASE Ask(c)
  <2> DEFINE p2 == [p EXCEPT !.asking = TRUE]
  <2>1. p2 \in Process
    BY <1>1 DEF Process
  <2>2. <<"ask">> \in Frame
    BY DEF Frame, Plain
  <2>3. Does(c, p2, <<"ask">>)
    BY <1>1, <1>4, <1>8, <2>1, <2>2 DEF Ask, Does, Fits, Process
  <2> QED BY <2>3, DoesStep
<1>5. CASE Settle(c)
  <2> DEFINE p2 == [p EXCEPT !.run = FALSE]
  <2>1. p2 \in Process
    BY <1>1 DEF Process
  <2>2. <<"settle">> \in Frame
    BY DEF Frame, Plain
  <2>3. Does(c, p2, <<"settle">>)
    BY <1>1, <1>5, <1>8, <2>1, <2>2 DEF Settle, Does, Fits, Process
  <2> QED BY <2>3, DoesStep
<1>6. CASE Quit(c)
  <2>1. Gone(c) \in Process /\ Gone(c).kind = "gone" /\ ~Gone(c).run /\ ~Gone(c).asking
        /\ Gone(c).inbox = << >>
    BY GoneProcess
  <2>2. <<"eof">> \in Frame
    BY DEF Frame, Plain
  <2>3. Does(c, Gone(c), <<"eof">>)
    BY <1>1, <1>6, <1>8, <2>1, <2>2 DEF Quit, Does, Fits, Process
  <2> QED BY <2>3, DoesStep
<1>7. CASE \E s \in Sids : Switch(c, s)
  <2>1. PICK s \in Sids : Switch(c, s)
    BY <1>7
  <2> DEFINE p2 == [p EXCEPT !.file = s]
  <2>2. p2 \in Process
    BY <1>1 DEF Process
  <2>3. <<"session", s>> \in Frame
    BY DEF Frame
  <2>4. deeds' \in Nat
    BY <1>1, <2>1 DEF Switch, Deed
  <2>5. Does(c, p2, <<"session", s>>)
    BY <1>1, <1>8, <2>1, <2>2, <2>3, <2>4 DEF Switch, Does, Fits, Process
  <2> QED BY <2>5, DoesStep
<1> QED BY <1>2, <1>3, <1>4, <1>5, <1>6, <1>7

\* A step in which only the process c changes, and gets ready.
LEMMA OpenTuiStep ==
    ASSUME IInv, NEW c \in Conns, NEW s \in Sids, OpenTui(c, s)
    PROVE  IInv'
<1> DEFINE p2 == [Unborn EXCEPT !.kind = "tui", !.file = s]
<1>1. /\ Types /\ Local(c) /\ proc[c] = Unborn
      /\ Fits(c, proc[c], sess[c], pipe[c], debt[c], known)
  BY DEF IInv, Local, OpenTui
<1>2. p2 \in Process /\ p2.kind = "tui" /\ p2.file = s /\ ~p2.run /\ ~p2.asking /\ p2.inbox = << >>
  BY NewProcess
<1> HIDE DEF p2
<1>3. /\ proc' = [proc EXCEPT ![c] = p2] /\ proc'[c] = p2
      /\ \A d \in Conns : d # c => proc'[d] = proc[d]
  BY <1>1 DEF Types, OpenTui, Change, p2
<1>4. /\ sess' = sess /\ asks' = asks /\ at' = at /\ sessions' = sessions
      /\ known' = known /\ displaced' = displaced /\ settling' = settling
      /\ shown' = shown /\ debt' = debt /\ raced' = raced /\ slipped' = slipped
      /\ pipe' = pipe /\ deeds' = deeds
  BY DEF OpenTui, Outside, registry, turns
<1>5. Types'
  BY <1>1, <1>2, <1>3, <1>4 DEF Types
<1>6. OnlyAt(c)
  BY <1>3, <1>4 DEF OnlyAt
<1>7. ServedIsRegistered' /\ SpawnedOnce'
  BY <1>4, RegistryStays, SpawningStays DEF IInv
<1>8. sess[c] = NoObject /\ pipe[c] = << >>
  BY <1>1 DEF Fits, Unborn, NoObject
<1>9. Fits(c, p2, sess[c], pipe[c], debt[c], known)
  BY <1>1, <1>2, <1>8 DEF Fits, Unborn, NoObject
<1>10. Ordered(p2, pipe[c]) /\ ~Strays(p2.inbox, pipe[c])
  BY <1>2, <1>8 DEF Ordered, Strays
<1>11. ASSUME NEW t \in Tasks PROVE SlotsOf(c, t, p2.inbox, pipe[c], at[t])
  BY <1>2, <1>8 DEF SlotsOf
<1>12. ASSUME NEW z \in Sids, c \in shown[z], c \notin raced PROVE FALSE
  BY <1>1, <1>8, <1>12 DEF Local, TurnEnds, NoObject
<1>13. ~sess[c].pump
  BY <1>8 DEF NoObject
<1>14. Local(c)'
  BY <1>3, <1>4, <1>9, <1>10, <1>11, <1>12, <1>13 DEF Local
<1>15. ASSUME NEW t \in Tasks, at'[t].conn = c PROVE FALSE
  <2>1. Busy(t, c) /\ at[t].conn = c /\ at[t].pc # "idle"
    BY <1>1, <1>4, <1>15, PiAssumption DEF IInv, Types
  <2> QED BY <1>1, <1>8, <2>1 DEF Busy, Keeps, Unborn, NoObject
<1> QED BY <1>5, <1>6, <1>7, <1>14, <1>15, OneStep

\* What c has written so far, as the process p, keeps what its pipe promised.
Under(c, p, q) ==
    /\ q \in Seq(Frame) /\ Ordered(p, q) /\ Slotted(c, p.inbox, q, slipped)
    /\ Coming(proc[c], pipe[c]) => Coming(p, q)
    /\ Asked(pipe[c]) => Asked(q)

LEMMA UnderStart ==
    ASSUME IInv, NEW c \in Conns
    PROVE  Under(c, proc[c], pipe[c])
BY DEF IInv, Types, Local, Slotted, Under

LEMMA UnderAdds ==
    ASSUME NEW c, NEW p, NEW p2, NEW q, NEW g \in Frame, Under(c, p, q),
           g[1] \notin Replies, Wrote(p, p2, g), p2.inbox = p.inbox
    PROVE  Under(c, p2, Append(q, g))
<1>1. q \in Seq(Frame) /\ Ordered(p, q) /\ Slotted(c, p.inbox, q, slipped)
  BY DEF Under
<1>2. Append(q, g) \in Seq(Frame)
  BY <1>1, Longer
<1>3. Ordered(p2, Append(q, g)) /\ (Coming(p, q) => Coming(p2, Append(q, g)))
  BY <1>1, OrderedLonger
<1>4. Slotted(c, p2.inbox, Append(q, g), slipped)
  BY <1>1, SlottedAdds
<1>5. Asked(q) => Asked(Append(q, g))
  BY <1>1, AskedLonger
<1> QED BY <1>2, <1>3, <1>4, <1>5 DEF Under

LEMMA UnderTakes ==
    ASSUME NEW c, NEW p, NEW p2, NEW q, NEW k \in Replies, Under(c, p, q),
           p.inbox \in Seq(Tasks \union {None}), p.inbox # << >>, p2.inbox = Tail(p.inbox),
           <<k, Head(p.inbox)>> \in Frame, Wrote(p, p2, <<k, Head(p.inbox)>>),
           k = "local" /\ Head(p.inbox) \in Tasks => at[Head(p.inbox)].pc = "prompt"
    PROVE  Under(c, p2, Append(q, <<k, Head(p.inbox)>>))
<1> DEFINE g == <<k, Head(p.inbox)>>
<1>1. q \in Seq(Frame) /\ Ordered(p, q) /\ Slotted(c, p.inbox, q, slipped) /\ g \in Frame
  BY DEF Under
<1>2. Append(q, g) \in Seq(Frame)
  BY <1>1, Longer
<1>4. Slotted(c, p2.inbox, Append(q, g), slipped)
  BY <1>1, SlottedTakes
<1>6. Wrote(p, p2, g)
  OBVIOUS
<1> HIDE DEF g
<1>3. Ordered(p2, Append(q, g)) /\ (Coming(p, q) => Coming(p2, Append(q, g)))
  BY <1>1, <1>6, OrderedLonger
<1>5. Asked(q) => Asked(Append(q, g))
  BY <1>1, AskedLonger
<1>7. Under(c, p2, Append(q, g))
  BY <1>2, <1>3, <1>4, <1>5 DEF Under
<1> QED BY <1>7 DEF g

\* Accepted, and failed by then.
LEMMA UnderLate ==
    ASSUME NEW c, NEW p, NEW p2, NEW q, Under(c, p, q),
           p.inbox \in Seq(Tasks \union {None}), p.inbox # << >>, p2.inbox = Tail(p.inbox),
           p.kind # "gone", p2.run = p.run
    PROVE  Under(c, p2, Append(Append(q, <<"ok", Head(p.inbox)>>), <<"late", Head(p.inbox)>>))
<1> DEFINE t == Head(p.inbox)
           q1 == Append(q, <<"ok", t>>)
           r == Append(q1, <<"late", t>>)
<1>1. q \in Seq(Frame) /\ Ordered(p, q) /\ Slotted(c, p.inbox, q, slipped)
  BY DEF Under
<1>2. t \in Tasks \union {None}
  BY HeadTailProperties
<1>3. <<"ok", t>> \in Frame /\ <<"late", t>> \in Frame /\ "ok" \in Replies
  BY <1>2 DEF Frame, Replies
<1>4. Ordered(p2, r) /\ (Coming(p, q) => Coming(p2, r))
  BY <1>1, <1>2, <1>3, LateLonger
<1>5. q1 \in Seq(Frame) /\ Slotted(c, Tail(p.inbox), q1, slipped)
  <2>1. q1 \in Seq(Frame)
    BY <1>1, <1>3, Longer
  <2>2. Slotted(c, Tail(p.inbox), q1, slipped)
    BY <1>1, <1>3, SlottedTakes
  <2> QED BY <2>1, <2>2
<1>8. Asked(q) => Asked(q1)
  BY <1>1, <1>3, AskedLonger
<1> HIDE DEF q1, t
<1>6. r \in Seq(Frame) /\ (Asked(q1) => Asked(r))
  BY <1>3, <1>5, Longer, AskedLonger
<1>7. Slotted(c, p2.inbox, r, slipped)
  <2>1. <<"late", t>>[1] \notin Replies
    BY DEF Replies
  <2> QED BY <1>3, <1>5, <2>1, SlottedAdds
<1>9. Under(c, p2, r)
  BY <1>4, <1>6, <1>7, <1>8 DEF Under
<1> QED BY <1>9 DEF r, q1, t

\* A prompt has left the inbox; the pipe is r.
LEMMA Taken ==
    ASSUME IInv, NEW c \in Conns, Alive(c), proc[c].inbox # << >>
    PROVE  LET b == proc[c].inbox
               took == [proc[c] EXCEPT !.inbox = Tail(@)]
               ran == [took EXCEPT !.run = TRUE]
               on == [proc[c] EXCEPT !.run = TRUE] IN
           /\ b \in Seq(Tasks \union {None}) /\ Head(b) \in Tasks \union {None}
           /\ Len(b) \in Nat \ {0} /\ Len(Tail(b)) = Len(b) - 1
           /\ sess[c].pump
           /\ \A p \in {took, ran} :
                 p \in Process /\ p.kind = proc[c].kind /\ p.file = proc[c].file
                   /\ p.inbox = Tail(b) /\ p.asking = proc[c].asking
           /\ took.run = proc[c].run /\ ran.run /\ on.run /\ on.inbox = b /\ on.kind = proc[c].kind
           /\ \A k \in Replies : <<k, Head(b)>> \in Frame
<1> DEFINE b == proc[c].inbox
<1>1. proc[c] \in Process /\ Fits(c, proc[c], sess[c], pipe[c], debt[c], known)
  BY DEF IInv, Types, Local
<1>2. b \in Seq(Tasks \union {None})
  BY <1>1 DEF Process
<1>3. /\ Tail(b) \in Seq(Tasks \union {None}) /\ Len(Tail(b)) = Len(b) - 1
      /\ Len(b) \in Nat \ {0} /\ Head(b) \in Tasks \union {None}
  BY <1>2, HeadTailProperties
<1>4. sess[c].pump
  BY <1>1 DEF Fits, Alive
<1>5. \A k \in Replies : <<k, Head(b)>> \in Frame
  BY <1>3 DEF Frame
<1> QED BY <1>1, <1>2, <1>3, <1>4, <1>5 DEF Process

LEMMA TakeStep ==
    ASSUME IInv, NEW c \in Conns, Alive(c), proc[c].inbox # << >>,
           NEW p, proc' = [proc EXCEPT ![c] = p],
           p \in Process, p.kind = proc[c].kind, p.file = proc[c].file,
           p.inbox = Tail(proc[c].inbox), p.asking = proc[c].asking,
           proc[c].run => p.run,
           NEW r, Under(c, p, r), pipe' = [pipe EXCEPT ![c] = r],
           deeds' = deeds, Outside, slipped' \in {slipped, slipped \union {c}},
           c \notin slipped' => Ours(r) = Ours(pipe[c]) + 1
    PROVE  IInv'
<1>1. Types /\ Local(c) /\ Fits(c, proc[c], sess[c], pipe[c], debt[c], known) /\ sess[c].pump
  BY Taken DEF IInv, Local
<1>2. Ours(pipe[c]) \in Nat /\ Len(proc[c].inbox) \in Nat /\ Len(Tail(proc[c].inbox)) = Len(proc[c].inbox) - 1
  <2>1. pipe[c] \in Seq(Frame) /\ <<"eof">> \in Frame
    BY <1>1 DEF Types, Frame, Plain
  <2>2. Ours(pipe[c]) \in Nat
    BY <2>1, OursLonger
  <2> QED BY <2>2, Taken
<1>3. p.asking => p.kind = "rpc" /\ p.run
  BY <1>1 DEF Fits, Types, Process
<1>4. p.kind # "gone" /\ c \notin slipped' => Ours(r) + Len(p.inbox) = Ours(pipe[c]) + Len(proc[c].inbox)
  BY <1>2
<1>5. p.asking => c \in asks \/ Asked(r)
  BY <1>1 DEF Local, Under
<1>6. r \in Seq(Frame) /\ Ordered(p, r) /\ Slotted(c, p.inbox, r, slipped')
      /\ (Coming(proc[c], pipe[c]) => Coming(p, r))
  BY DEF Under, Slotted
<1>7. /\ slipped \subseteq slipped' /\ slipped' \subseteq Conns /\ deeds' \in Nat
      /\ p.file \in Sids
  BY <1>1 DEF Types, Fits, Alive
<1>8. Writes(c, p, r)
  BY <1>1, <1>3, <1>4, <1>5, <1>6, <1>7 DEF Writes
<1> QED BY <1>8, WritesStep

LEMMA TakePromptStep ==
    ASSUME IInv, NEW c \in Conns, TakePrompt(c)
    PROVE  IInv'
<1> DEFINE p == proc[c]
           q == pipe[c]
           t == Head(p.inbox)
           took == [p EXCEPT !.inbox = Tail(@)]
           ran == [took EXCEPT !.run = TRUE]
<1>1. /\ Alive(c) /\ p.inbox # << >> /\ deeds' = deeds /\ slipped' = slipped /\ Outside
      /\ q \in Seq(Frame) /\ Types /\ p.kind # "gone"
  BY DEF TakePrompt, IInv, Types, Alive
<1>2. /\ p.inbox \in Seq(Tasks \union {None}) /\ t \in Tasks \union {None}
      /\ \A k \in Replies : <<k, t>> \in Frame
      /\ took \in Process /\ took.kind = p.kind /\ took.file = p.file
      /\ took.inbox = Tail(p.inbox) /\ took.asking = p.asking /\ took.run = p.run
      /\ ran \in Process /\ ran.kind = p.kind /\ ran.file = p.file
      /\ ran.inbox = Tail(p.inbox) /\ ran.asking = p.asking /\ ran.run
      /\ sess[c].pump
  BY <1>1, Taken
<1>3. "ok" \in Replies /\ "no" \in Replies /\ <<"ok", t>> \in Frame /\ <<"no", t>> \in Frame
  BY <1>2 DEF Replies
<1>4. Under(c, p, q)
  BY UnderStart
<1>5. \A w : Write(c, w) => pipe' = [pipe EXCEPT ![c] = q \o w]
  BY <1>1, <1>2 DEF Write, Types
<1>6. CASE Change(c, ran) /\ Write(c, << <<"ok", t>> >> \o Append(Starts(c), <<"echo">>))
  <2> DEFINE q1 == Append(q, <<"ok", t>>)
  <2>1. Under(c, ran, q1) /\ q1 \in Seq(Frame) /\ Ours(q1) = Ours(q)
    <3>1. Wrote(p, ran, <<"ok", t>>)
      BY <1>1, <1>2 DEF Wrote, Begins
    <3> HIDE DEF p, q, ran
    <3>2. Under(c, ran, q1)
      BY <1>1, <1>2, <1>3, <1>4, <3>1, UnderTakes
    <3>3. <<"ok", t>>[1] \notin {"echo", "no"}
      OBVIOUS
    <3> QED BY <1>1, <1>3, <3>2, <3>3, OursLonger DEF Under
  <2>2. PICK w \in {<< >>, << <<"start">> >>} : w = Starts(c)
    BY DEF Starts
  <2>3. <<"start">> \in Frame /\ <<"start">>[1] \notin Replies \union Begins \union {"eof", "ok", "echo", "no"}
    BY DEF Frame, Plain, Replies, Begins
  <2>4. <<"echo">> \in Frame /\ <<"echo">>[1] \notin Replies \union {"eof", "ok"}
    BY DEF Frame, Plain, Replies
  <2> HIDE DEF q1
  <2>5. PICK q2 \in Seq(Frame) : q2 = q1 \o w /\ Under(c, ran, q2) /\ Ours(q2) = Ours(q) /\ w \in Seq(Frame)
    <3>1. CASE w = << >>
      <4>1. q1 \o w = q1 /\ w \in Seq(Frame)
        BY <2>1, <3>1, ConcatEmptySeq
      <4> QED BY <2>1, <4>1
    <3>2. CASE w = << <<"start">> >>
      <4>1. q1 \o w = Append(q1, <<"start">>) /\ w \in Seq(Frame) /\ Append(q1, <<"start">>) \in Seq(Frame)
        BY <2>1, <2>3, <3>2, Longer
      <4>2. Wrote(ran, ran, <<"start">>)
        BY <1>1, <1>2, <2>3 DEF Wrote
      <4>3. Under(c, ran, Append(q1, <<"start">>))
        BY <2>1, <2>3, <4>2, UnderAdds
      <4>4. Ours(Append(q1, <<"start">>)) = Ours(q1)
        BY <2>1, <2>3, OursLonger
      <4> QED BY <2>1, <4>1, <4>3, <4>4
    <3> QED BY <3>1, <3>2
  <2> DEFINE r == Append(q2, <<"echo">>)
  <2>6. r = q \o (<< <<"ok", t>> >> \o Append(Starts(c), <<"echo">>))
    <3>1. Append(w, <<"echo">>) \in Seq(Frame) /\ q1 \o Append(w, <<"echo">>) = r
      BY <2>1, <2>4, <2>5, JoinsLast, Longer
    <3>2. q \o (<< <<"ok", t>> >> \o Append(w, <<"echo">>)) = q1 \o Append(w, <<"echo">>)
      BY <1>1, <1>3, <3>1, JoinsFirst DEF q1
    <3> QED BY <2>2, <3>1, <3>2
  <2>7. Wrote(ran, ran, <<"echo">>)
    BY <1>1, <1>2, <2>4 DEF Wrote
  <2>8. Under(c, ran, r)
    BY <2>4, <2>5, <2>7, UnderAdds
  <2>9. Ours(r) = Ours(q) + 1
    BY <2>4, <2>5, OursLonger
  <2>10. pipe' = [pipe EXCEPT ![c] = r]
    BY <1>5, <1>6, <2>6
  <2>11. proc' = [proc EXCEPT ![c] = ran]
    BY <1>6 DEF Change
  <2> HIDE DEF r, ran, took
  <2> QED BY <1>1, <1>2, <2>8, <2>9, <2>10, <2>11, TakeStep
<1>7. CASE Change(c, took) /\ Write(c, << <<"no", t>> >>)
  <2> DEFINE r == Append(q, <<"no", t>>)
  <2>1. Wrote(p, took, <<"no", t>>)
    BY <1>1, <1>2 DEF Wrote, Begins
  <2>2. Under(c, took, r)
    <3> HIDE DEF p, q, took
    <3> QED BY <1>1, <1>2, <1>3, <1>4, <2>1, UnderTakes
  <2>3. Ours(r) = Ours(q) + 1
    BY <1>1, <1>3, OursLonger
  <2>6. q \o << <<"no", t>> >> = r
    BY <1>1, <1>3, Longer
  <2>4. pipe' = [pipe EXCEPT ![c] = r]
    BY <1>5, <1>7, <2>6
  <2>5. proc' = [proc EXCEPT ![c] = took]
    BY <1>7 DEF Change
  <2> HIDE DEF r, took
  <2> QED BY <1>1, <1>2, <2>2, <2>3, <2>4, <2>5, TakeStep
<1> QED BY <1>6, <1>7 DEF TakePrompt

LEMMA TakeCommandStep ==
    ASSUME IInv, NEW c \in Conns, TakeCommand(c)
    PROVE  IInv'
<1> DEFINE p == proc[c]
           q == pipe[c]
           t == Head(p.inbox)
           took == [p EXCEPT !.inbox = Tail(@)]
           ran == [took EXCEPT !.run = TRUE]
           on == [p EXCEPT !.run = TRUE]
           output == <<"output">>
<1>1. /\ Alive(c) /\ p.inbox # << >> /\ deeds' = deeds /\ slipped' = slipped \union {c} /\ Outside
      /\ q \in Seq(Frame) /\ Types /\ p.kind # "gone" /\ proc' = [proc EXCEPT ![c] = took]
      /\ t # None => at[t].pc = "prompt"
  BY DEF TakeCommand, IInv, Types, Alive, Change
<1>2. /\ p.inbox \in Seq(Tasks \union {None}) /\ t \in Tasks \union {None}
      /\ \A k \in Replies : <<k, t>> \in Frame
      /\ took \in Process /\ took.kind = p.kind /\ took.file = p.file
      /\ took.inbox = Tail(p.inbox) /\ took.asking = p.asking /\ took.run = p.run
      /\ ran.kind = p.kind /\ ran.inbox = Tail(p.inbox) /\ ran.run
      /\ on.kind = p.kind /\ on.inbox = p.inbox /\ on.run
      /\ sess[c].pump
  BY <1>1, Taken
<1>3. /\ "ok" \in Replies /\ "local" \in Replies /\ <<"ok", t>> \in Frame /\ <<"local", t>> \in Frame
      /\ output \in Frame /\ <<"result">> \in Frame /\ <<"late", t>> \in Frame
      /\ output[1] \notin Replies \union {"ok", "eof"} /\ output[1] = "output"
      /\ <<"result">>[1] \notin Replies \union {"ok", "eof"}
      /\ << >> \in Seq(Frame) /\ << output >> \in Seq(Frame)
  BY <1>2 DEF Replies, Frame, Plain
<1>4. Under(c, p, q)
  BY UnderStart
<1>5. \A w : Write(c, w) => pipe' = [pipe EXCEPT ![c] = q \o w]
  BY <1>1, <1>2 DEF Write, Types
<1>6. ASSUME NEW r, Under(c, took, r), pipe' = [pipe EXCEPT ![c] = r]
      PROVE  IInv'
  <2> HIDE DEF took
  <2> QED BY <1>1, <1>2, <1>6, TakeStep
\* What a command prints opens a turn, as if the agent ran for it.
<1>7. ASSUME NEW printed \in {<< >>, << output >>}, Write(c, Append(printed, <<"local", t>>))
      PROVE  IInv'
  <2>1. PICK p1 \in {p, on}, q1 \in Seq(Frame) : q1 = q \o printed /\ Under(c, p1, q1)
    <3>1. CASE printed = << >>
      BY <1>1, <1>4, <3>1, ConcatEmptySeq
    <3>2. CASE printed = << output >>
      <4>1. Wrote(p, on, output)
        BY <1>1, <1>2, <1>3 DEF Wrote
      <4>2. Under(c, on, Append(q, output))
        BY <1>2, <1>3, <1>4, <4>1, UnderAdds
      <4>3. q \o printed = Append(q, output) /\ Append(q, output) \in Seq(Frame)
        BY <1>1, <1>3, <3>2, Longer
      <4> QED BY <4>2, <4>3
    <3> QED BY <1>7, <3>1, <3>2
  <2>2. p1.inbox = p.inbox /\ p1.kind # "gone"
    BY <1>1, <1>2
  <2>3. Wrote(p1, took, <<"local", t>>)
    BY <2>2 DEF Wrote, Closes, Begins
  <2> DEFINE r == Append(q1, <<"local", t>>)
  <2>4. Under(c, took, r)
    <3>1. t \in Tasks => at[t].pc = "prompt"
      BY <1>1, PiAssumption DEF Tasks, None
    <3> HIDE DEF p, q, took, on
    <3> QED BY <1>1, <1>2, <1>3, <2>1, <2>2, <2>3, <3>1, UnderTakes
  <2>5. pipe' = [pipe EXCEPT ![c] = r]
    <3>1. printed \in Seq(Frame)
      BY <1>3, <1>7
    <3>2. q \o Append(printed, <<"local", t>>) = r
      BY <1>1, <1>3, <2>1, <3>1, JoinsLast
    <3> QED BY <1>5, <1>7, <3>2
  <2> HIDE DEF r
  <2> QED BY <1>6, <2>4, <2>5
<1>8. ASSUME NEW printed \in {<< >>, << output >>},
             Write(c, << <<"ok", t>> >> \o Append(printed, <<"result">>))
      PROVE  IInv'
  <2> DEFINE q1 == Append(q, <<"ok", t>>)
  <2>1. Under(c, ran, q1) /\ q1 \in Seq(Frame)
    <3>1. Wrote(p, ran, <<"ok", t>>)
      BY <1>1, <1>2 DEF Wrote, Begins
    <3> HIDE DEF p, q, ran
    <3>2. Under(c, ran, q1)
      BY <1>1, <1>2, <1>3, <1>4, <3>1, UnderTakes
    <3> QED BY <3>2 DEF Under
  <2>4. \A w \in Seq(Frame) : q \o (<< <<"ok", t>> >> \o w) = q1 \o w
    BY <1>1, <1>3, JoinsFirst
  <2> HIDE DEF q1
  <2>2. PICK q2 \in Seq(Frame) : q2 = q1 \o printed /\ Under(c, ran, q2)
    <3>1. CASE printed = << >>
      BY <2>1, <3>1, ConcatEmptySeq
    <3>2. CASE printed = << output >>
      <4>1. Wrote(ran, ran, output)
        BY <1>1, <1>2, <1>3 DEF Wrote
      <4>2. Under(c, ran, Append(q1, output))
        BY <1>2, <1>3, <2>1, <4>1, UnderAdds
      <4>3. q1 \o printed = Append(q1, output) /\ Append(q1, output) \in Seq(Frame)
        BY <1>3, <2>1, <3>2, Longer
      <4> QED BY <4>2, <4>3
    <3> QED BY <1>8, <3>1, <3>2
  <2> DEFINE r == Append(q2, <<"result">>)
  <2>3. Under(c, took, r)
    <3>1. Wrote(ran, took, <<"result">>)
      BY <1>1, <1>2, <1>3 DEF Wrote, Closes, Begins
    <3> QED BY <1>2, <1>3, <2>2, <3>1, UnderAdds
  <2>5. pipe' = [pipe EXCEPT ![c] = r]
    <3>1. printed \in Seq(Frame) /\ Append(printed, <<"result">>) \in Seq(Frame)
      BY <1>3, <1>8, Longer
    <3>2. q1 \o Append(printed, <<"result">>) = r
      BY <1>3, <2>1, <2>2, <3>1, JoinsLast
    <3> QED BY <1>5, <1>8, <2>4, <3>1, <3>2
  <2> HIDE DEF r
  <2> QED BY <1>6, <2>3, <2>5
<1>9. ASSUME Write(c, Append(<< <<"ok", t>> >>, <<"late", t>>)) PROVE IInv'
  <2> DEFINE q1 == Append(q, <<"ok", t>>)
             r == Append(q1, <<"late", t>>)
  <2>1. Under(c, took, r)
    BY <1>1, <1>2, <1>4, UnderLate
  <2>2. q1 \in Seq(Frame) /\ << <<"ok", t>> >> \in Seq(Frame) /\ << <<"late", t>> >> \in Seq(Frame)
        /\ q \o << <<"ok", t>> >> = q1
    BY <1>1, <1>3, Longer
  <2>3. q \o Append(<< <<"ok", t>> >>, <<"late", t>>) = Append(q \o << <<"ok", t>> >>, <<"late", t>>)
    BY <1>1, <1>3, <2>2, JoinsLast
  <2>4. pipe' = [pipe EXCEPT ![c] = r]
    BY <1>5, <1>9, <2>2, <2>3
  <2> HIDE DEF r
  <2> QED BY <1>6, <2>1, <2>4
<1> QED BY <1>7, <1>8, <1>9 DEF TakeCommand
-----------------------------------------------------------------------------
(* The registry                                                            *)

\* A process without an object has nothing under way, and only the task that
\* spawns it.
LEMMA Untouched ==
    ASSUME IInv, NEW c \in Conns, sess[c] = NoObject
    PROVE  /\ pipe[c] = << >> /\ proc[c].inbox = << >> /\ debt[c] = 0
           /\ ~sess[c].pump /\ sess[c].sid = None
           /\ \A s \in Sids : c \in shown[s] => c \in raced
           /\ \A t \in Tasks : at[t].conn = c =>
                 at[t].pc = "spawning" /\ proc[c].kind \in {"rpc", "gone"}
<1>1. ~sess[c].pump /\ sess[c].sid = None /\ ~sess[c].turn
  BY DEF NoObject
<1>2. pipe[c] = << >> /\ proc[c].inbox = << >> /\ debt[c] = 0
  BY <1>1 DEF IInv, Local, Fits
<1>3. \A s \in Sids : c \in shown[s] => c \in raced
  BY <1>1 DEF IInv, Local, TurnEnds
<1>4. ASSUME NEW t \in Tasks, at[t].conn = c
      PROVE  at[t].pc = "spawning" /\ proc[c].kind \in {"rpc", "gone"}
  <2>1. at[t].pc # "idle" /\ Busy(t, c)
    BY <1>4, PiAssumption DEF IInv, Types
  <2> QED BY <1>1, <2>1 DEF Busy, Keeps
<1> QED BY <1>1, <1>2, <1>3, <1>4

\* An object that is new takes a session that nobody serves.
LEMMA Registering ==
    ASSUME IInv, NEW c \in Conns, NEW s \in Sids, NEW b \in BOOLEAN,
           sess[c] = NoObject, MayRegister(s), Register(c, s, b), UNCHANGED displaced
    PROVE  /\ sess' \in [Conns -> Object] /\ sessions' \in [Sids -> Conns \union {None}]
           /\ sess'[c] = [NoObject EXCEPT !.sid = s, !.open = TRUE, !.pump = TRUE, !.busy = b]
           /\ \A d \in Conns : d # c => sess'[d] = sess[d]
           /\ ServedIsRegistered'
<1> DEFINE o == [NoObject EXCEPT !.sid = s, !.open = TRUE, !.pump = TRUE, !.busy = b]
<1>1. Types /\ ServedIsRegistered /\ \A d \in Conns : sess[d].open = sess[d].pump
  BY DEF IInv, Local, Fits
<1>2. o \in Object /\ o.sid = s
  BY DEF Object, NoObject
<1> HIDE DEF o
<1>3. /\ sess' = [sess EXCEPT ![c] = o]
      /\ sessions' = [sessions EXCEPT ![s] = c]
  BY DEF Register, o
<1>4. /\ sess'[c] = o /\ \A d \in Conns : d # c => sess'[d] = sess[d]
      /\ sessions'[s] = c /\ \A z \in Sids : z # s => sessions'[z] = sessions[z]
      /\ sess' \in [Conns -> Object] /\ sessions' \in [Sids -> Conns \union {None}]
  BY <1>1, <1>2, <1>3 DEF Types
<1>5. ASSUME NEW d \in Conns, sess'[d].pump, d \notin displaced PROVE sessions'[sess'[d].sid] = d
  <2>1. CASE d = c
    BY <1>2, <1>4, <2>1
  <2>2. CASE d # c
    <3>1. sess'[d] = sess[d] /\ sessions[sess[d].sid] = d
      BY <1>1, <1>4, <1>5, <2>2 DEF ServedIsRegistered
    <3>2. sess[d].sid # s
      BY <1>1, <1>5, <3>1, PiAssumption DEF MayRegister, Served
    <3>3. sess[d].sid \in Sids
      BY <1>5, <3>1 DEF IInv, Local, Fits, Types, Object
    <3> QED BY <1>4, <3>1, <3>2, <3>3
  <2> QED BY <2>1, <2>2
<1>6. ServedIsRegistered'
  BY <1>5 DEF ServedIsRegistered
<1> QED BY <1>4, <1>6 DEF o

LEMMA NewObject ==
    ASSUME NEW c \in Conns, NEW s \in Sids, NEW b \in BOOLEAN,
           sess'[c] = [NoObject EXCEPT !.sid = s, !.open = TRUE, !.pump = TRUE, !.busy = b],
           proc'[c].kind \in {"tui", "rpc"}, proc'[c].file \in Sids,
           proc'[c].kind = "tui" => c \in known',
           ~proc'[c].asking, proc'[c].inbox = << >>,
           pipe'[c] = << >>, debt'[c] = 0,
           \A z \in Sids : c \in shown'[z] => c \in raced',
           \A t \in Tasks : at'[t].conn # c
    PROVE  Local(c)'
<1>1. /\ sess'[c].sid = s /\ sess'[c].open = TRUE /\ sess'[c].pump = TRUE
      /\ sess'[c].turn = FALSE /\ sess'[c].expected = 0 /\ s # None
  BY PiAssumption DEF NoObject
<1>2. Fits(c, proc'[c], sess'[c], pipe'[c], debt'[c], known')
  <2>1. PICK o, p, q, d : o = sess'[c] /\ p = proc'[c] /\ q = pipe'[c] /\ d = debt'[c]
    OBVIOUS
  <2>2. /\ o.sid = s /\ o.open = TRUE /\ o.pump = TRUE /\ o.turn = FALSE
        /\ p.kind \in {"tui", "rpc"} /\ p.file \in Sids /\ ~p.asking
        /\ p.inbox = << >> /\ q = << >> /\ (p.kind = "tui" => c \in known')
    BY <1>1, <2>1
  <2>3. Fits(c, p, o, q, d, known')
    BY <1>1, <2>2 DEF Fits
  <2> QED BY <2>1, <2>3
<1>3. Ordered(proc'[c], pipe'[c]) /\ ~Strays(proc'[c].inbox, pipe'[c])
  BY DEF Ordered, Strays
<1>4. ASSUME NEW t \in Tasks PROVE SlotsOf(c, t, proc'[c].inbox, pipe'[c], at'[t])
  BY DEF SlotsOf
<1>5. FailedAt(c)' = 0
  <2>1. {t \in Tasks : at'[t] = [pc |-> "failed", conn |-> c]} = {}
    <3>1. ASSUME NEW t \in Tasks, at'[t] = [pc |-> "failed", conn |-> c] PROVE FALSE
      <4>1. at'[t].conn = c
        BY <3>1
      <4> QED BY <4>1
    <3> QED BY <3>1
  <2> QED BY <2>1, FS_EmptySet DEF FailedAt
<1>6. Balance(sess'[c], proc'[c], pipe'[c], debt'[c], FailedAt(c)')
  <2>1. Ours(pipe'[c]) = 0 /\ Len(proc'[c].inbox) = 0
    BY OursEmpty
  <2> QED BY <1>1, <1>5, <2>1 DEF Balance
<1> QED BY <1>2, <1>3, <1>4, <1>6 DEF Local

LEMMA DiscoverStep ==
    ASSUME IInv, NEW c \in Conns, Discover(c)
    PROVE  IInv'
<1>1. /\ Types /\ Local(c) /\ proc[c] \in Process /\ proc[c].kind = "tui"
      /\ Fits(c, proc[c], sess[c], pipe[c], debt[c], known)
      /\ known' = known \union {c}
  BY DEF IInv, Types, Local, Discover
<1>2. sess[c] = NoObject /\ proc[c].file \in Sids /\ ~proc[c].asking /\ proc[c].run \in BOOLEAN
  BY <1>1 DEF Fits, Discover, Process
<1>3. /\ pipe[c] = << >> /\ proc[c].inbox = << >> /\ debt[c] = 0
      /\ \A s \in Sids : c \in shown[s] => c \in raced
      /\ \A t \in Tasks : at[t].conn # c
  BY <1>1, <1>2, Untouched
<1>4. /\ proc' = proc /\ deeds' = deeds /\ pipe' = pipe /\ asks' = asks /\ at' = at
      /\ slipped' = slipped /\ displaced' = displaced /\ settling' = settling
      /\ shown' = shown /\ debt' = debt /\ raced' = raced
  BY DEF Discover, turns
<1>5. /\ sess' \in [Conns -> Object] /\ sessions' \in [Sids -> Conns \union {None}]
      /\ \A d \in Conns : d # c => sess'[d] = sess[d]
      /\ ServedIsRegistered'
      /\ \/ sess'[c] = NoObject
         \/ sess'[c] = [NoObject EXCEPT !.sid = proc[c].file, !.open = TRUE,
                          !.pump = TRUE, !.busy = proc[c].run]
  <2>1. CASE MayRegister(proc[c].file)
    <3>1. Register(c, proc[c].file, proc[c].run)
      BY <2>1 DEF Discover
    <3>2. proc[c].file \in Sids /\ proc[c].run \in BOOLEAN /\ UNCHANGED displaced
      BY <1>2, <1>4
    <3>3. PICK s \in Sids, b \in BOOLEAN : s = proc[c].file /\ b = proc[c].run
      BY <3>2
    <3>4. Register(c, s, b) /\ MayRegister(s)
      BY <2>1, <3>1, <3>3
    <3>5. /\ sess' \in [Conns -> Object] /\ sessions' \in [Sids -> Conns \union {None}]
          /\ sess'[c] = [NoObject EXCEPT !.sid = s, !.open = TRUE, !.pump = TRUE, !.busy = b]
          /\ \A d \in Conns : d # c => sess'[d] = sess[d]
          /\ ServedIsRegistered'
      BY <1>2, <3>2, <3>4, Registering
    <3> QED BY <3>3, <3>5
  <2>2. CASE ~MayRegister(proc[c].file)
    <3>1. sess' = sess /\ sessions' = sessions
      BY <2>2 DEF Discover
    <3> QED BY <1>1, <1>2, <1>4, <3>1 DEF Types, IInv, ServedIsRegistered
  <2> QED BY <2>1, <2>2
<1>6. Types'
  BY <1>1, <1>4, <1>5 DEF Types
<1>7. OnlyAt(c)
  BY <1>1, <1>4, <1>5 DEF OnlyAt
<1>8. SpawnedOnce'
  BY <1>4, SpawningStays DEF IInv
<1>9. Local(c)'
  <2>1. CASE sess'[c] = NoObject
    <3>1. Fits(c, proc[c], NoObject, << >>, 0, known')
      BY <1>1, <1>2, <1>3 DEF Fits
    <3>2. Ordered(proc[c], << >>) /\ ~Strays(<< >>, << >>)
      BY DEF Ordered, Strays
    <3>3. ASSUME NEW t \in Tasks PROVE SlotsOf(c, t, << >>, << >>, at[t])
      BY DEF SlotsOf
    <3>4. ~NoObject.pump
      BY DEF NoObject
    <3> QED BY <1>3, <1>4, <2>1, <3>1, <3>2, <3>3, <3>4 DEF Local
  <2>2. CASE sess'[c] # NoObject
    BY <1>1, <1>2, <1>3, <1>4, <1>5, <2>2, NewObject
  <2> QED BY <2>1, <2>2
<1> QED BY <1>3, <1>4, <1>5, <1>6, <1>7, <1>8, <1>9, OneStep

\* A process without an object, and without one in prospect.
LEMMA NoNewObject ==
    ASSUME NEW c \in Conns, sess'[c] = NoObject,
           proc'[c].kind \in {"rpc", "gone"}, proc'[c].file \in Sids \/ proc'[c].kind = "gone",
           ~proc'[c].run, ~proc'[c].asking, proc'[c].inbox = << >>,
           pipe'[c] = << >>, debt'[c] = 0,
           \A z \in Sids : c \in shown'[z] => c \in raced'
    PROVE  Local(c)'
<1>1. /\ sess'[c].pump = FALSE /\ sess'[c].open = FALSE /\ sess'[c].turn = FALSE
      /\ sess'[c].sid = None
  BY DEF NoObject
<1>2. Fits(c, proc'[c], sess'[c], pipe'[c], debt'[c], known')
  BY <1>1 DEF Fits
<1>3. Ordered(proc'[c], pipe'[c]) /\ ~Strays(proc'[c].inbox, pipe'[c])
  BY DEF Ordered, Strays
<1>4. ASSUME NEW t \in Tasks PROVE SlotsOf(c, t, proc'[c].inbox, pipe'[c], at'[t])
  BY DEF SlotsOf
<1> QED BY <1>1, <1>2, <1>3, <1>4 DEF Local

LEMMA AttachStep ==
    ASSUME IInv, NEW t \in Tasks, NEW s \in Sids, NEW c \in Conns, Attach(t, s, c)
    PROVE  IInv'
<1> DEFINE p2 == [Unborn EXCEPT !.kind = "rpc", !.file = s]
           f2 == [pc |-> "spawning", conn |-> c]
<1>1. /\ Types /\ Local(c) /\ proc[c] = Unborn /\ at[t] = Idle
      /\ Fits(c, proc[c], sess[c], pipe[c], debt[c], known)
  BY DEF IInv, Local, Attach
<1>2. p2 \in Process /\ p2.kind = "rpc" /\ p2.file = s /\ ~p2.run /\ ~p2.asking /\ p2.inbox = << >>
  BY NewProcess
<1>3. f2 \in Frames /\ f2.pc = "spawning" /\ f2.conn = c
  BY DEF Frames
<1> HIDE DEF p2, f2
<1>4. sess[c] = NoObject /\ proc[c].kind = "none"
  BY <1>1 DEF Fits, Unborn
<1>5. /\ pipe[c] = << >> /\ debt[c] = 0
      /\ \A z \in Sids : c \in shown[z] => c \in raced
      /\ \A u \in Tasks : at[u].conn # c
  BY <1>4, Untouched
<1>6. /\ proc' = [proc EXCEPT ![c] = p2] /\ at' = [at EXCEPT ![t] = f2]
      /\ deeds' = deeds /\ pipe' = pipe /\ sess' = sess /\ asks' = asks
      /\ slipped' = slipped /\ sessions' = sessions /\ known' = known
      /\ displaced' = displaced /\ settling' = settling
      /\ shown' = shown /\ debt' = debt /\ raced' = raced
  BY DEF Attach, Change, registry, turns, p2, f2
<1>7. /\ proc'[c] = p2 /\ \A d \in Conns : d # c => proc'[d] = proc[d]
      /\ at'[t] = f2 /\ \A u \in Tasks : u # t => at'[u] = at[u]
  BY <1>1, <1>6 DEF Types
<1>8. Types'
  <2>1. proc' \in [Conns -> Process] /\ at' \in [Tasks -> Frames]
    BY <1>1, <1>2, <1>3, <1>6 DEF Types
  <2>2. \A u \in Tasks : at'[u].conn = None <=> at'[u].pc = "idle"
    BY <1>1, <1>3, <1>7, PiAssumption DEF Types
  <2> QED BY <1>1, <1>6, <2>1, <2>2 DEF Types
<1>9. OnlyAt(c)
  BY <1>1, <1>3, <1>6, <1>7 DEF OnlyAt, Idle
<1>10. ServedIsRegistered'
  BY <1>6, RegistryStays DEF IInv
<1>11. SpawnedOnce'
  <2>1. ASSUME NEW u \in Tasks, NEW v \in Tasks, at'[u].pc = "spawning",
               at'[v].pc = "spawning", at'[u].conn = at'[v].conn
        PROVE  u = v
    BY <1>3, <1>5, <1>7, <2>1 DEF IInv, SpawnedOnce
  <2> QED BY <2>1 DEF SpawnedOnce
<1>12. Local(c)'
  BY <1>2, <1>4, <1>5, <1>6, <1>7, NoNewObject
<1>13. ASSUME NEW u \in Tasks, at'[u].conn = c PROVE Busy(u, c)'
  <2>1. u = t
    BY <1>5, <1>7, <1>13
  <2>2. Keeps(t, f2, NoObject, p2, raced)
    BY <1>2, <1>3 DEF Keeps, Waiting, Answered
  <2> QED BY <1>3, <1>4, <1>6, <1>7, <2>1, <2>2 DEF Busy
<1> QED BY <1>8, <1>9, <1>10, <1>11, <1>12, <1>13, OneStep

LEMMA SpawnedStep ==
    ASSUME IInv, NEW t \in Tasks, Spawned(t)
    PROVE  IInv'
<1>1. /\ Types /\ at[t] \in Frames /\ at[t].pc = "spawning"
  BY DEF IInv, Types, Spawned
<1>2. PICK c \in Conns : c = at[t].conn
  BY <1>1 DEF Types, Frames
<1> DEFINE s == proc[c].file
<1>3. Busy(t, c) /\ Local(c) /\ proc[c] \in Process
  BY <1>1, <1>2 DEF IInv, Types
<1>4. /\ sess[c] = NoObject /\ proc[c].kind \in {"rpc", "gone"}
      /\ Fits(c, proc[c], sess[c], pipe[c], debt[c], known)
  BY <1>1, <1>2, <1>3 DEF Busy, Keeps, Local
<1>5. /\ pipe[c] = << >> /\ debt[c] = 0 /\ proc[c].inbox = << >>
      /\ \A z \in Sids : c \in shown[z] => c \in raced
      /\ \A u \in Tasks : at[u].conn = c => at[u].pc = "spawning"
      /\ ~proc[c].run /\ ~proc[c].asking /\ (proc[c].kind = "rpc" => s \in Sids)
  <2>1. ~sess[c].pump
    BY <1>4 DEF NoObject
  <2> QED BY <1>2, <1>4, <2>1, Untouched DEF Fits
<1>6. /\ at' = [at EXCEPT ![t] = Idle]
      /\ deeds' = deeds /\ pipe' = pipe /\ asks' = asks
      /\ slipped' = slipped /\ known' = known
      /\ displaced' = displaced /\ settling' = settling
      /\ shown' = shown /\ debt' = debt /\ raced' = raced
  BY DEF Spawned, turns
<1>7. /\ at'[t] = Idle /\ \A u \in Tasks : u # t => at'[u] = at[u]
      /\ Idle \in Frames /\ Idle.pc = "idle" /\ Idle.conn = None
  BY <1>1, <1>6 DEF Types, Idle, Frames
<1>8. \A u \in Tasks : at'[u].conn # c
  BY <1>1, <1>2, <1>5, <1>7, PiAssumption DEF IInv, SpawnedOnce
<1>9. SpawnedOnce'
  BY <1>7, SpawningStays DEF IInv
<1>10. /\ proc' \in [Conns -> Process] /\ sess' \in [Conns -> Object]
       /\ sessions' \in [Sids -> Conns \union {None}]
       /\ \A d \in Conns : d # c => proc'[d] = proc[d] /\ sess'[d] = sess[d]
       /\ ServedIsRegistered' /\ Local(c)'
  <2>1. CASE Alive(c) /\ MayRegister(s)
    <3>1. s \in Sids /\ proc[c].kind = "rpc" /\ proc' = proc
      BY <1>2, <1>4, <1>5, <2>1 DEF Spawned, Alive
    <3>2. Register(c, s, FALSE) /\ MayRegister(s) /\ UNCHANGED displaced
      BY <1>2, <1>6, <2>1 DEF Spawned
    <3> HIDE DEF s
    <3>3. /\ sess' \in [Conns -> Object] /\ sessions' \in [Sids -> Conns \union {None}]
          /\ sess'[c] = [NoObject EXCEPT !.sid = s, !.open = TRUE, !.pump = TRUE, !.busy = FALSE]
          /\ \A d \in Conns : d # c => sess'[d] = sess[d]
          /\ ServedIsRegistered'
      BY <1>2, <1>4, <3>1, <3>2, Registering
    <3>4. proc[c].file \in Sids
      BY <3>1 DEF s
    <3>6. /\ proc'[c].kind = "rpc" /\ proc'[c].file \in Sids /\ ~proc'[c].asking
          /\ proc'[c].inbox = << >> /\ pipe'[c] = << >> /\ debt'[c] = 0
          /\ \A z \in Sids : c \in shown'[z] => c \in raced'
      BY <1>5, <1>6, <3>1, <3>4
    <3>5. Local(c)'
      BY <1>8, <3>1, <3>3, <3>6, NewObject
    <3> QED BY <1>1, <3>1, <3>3, <3>5 DEF Types
  <2>2. CASE ~(Alive(c) /\ MayRegister(s))
    <3>1. proc' = [proc EXCEPT ![c] = Gone(c)] /\ sess' = sess /\ sessions' = sessions
      BY <1>2, <2>2 DEF Spawned, Change
    <3>2. /\ proc'[c] = Gone(c) /\ \A d \in Conns : d # c => proc'[d] = proc[d]
          /\ proc' \in [Conns -> Process]
      BY <1>1, <1>2, <3>1, GoneProcess DEF Types
    <3>3. ServedIsRegistered'
      BY <1>6, <3>1, RegistryStays DEF IInv
    <3>4. Local(c)'
      BY <1>2, <1>4, <1>5, <1>6, <3>1, <3>2, NoNewObject, GoneProcess
    <3> QED BY <1>1, <3>1, <3>2, <3>3, <3>4 DEF Types
  <2> QED BY <2>1, <2>2
<1>11. Types'
  <2>1. at' \in [Tasks -> Frames] /\ \A u \in Tasks : at'[u].conn = None <=> at'[u].pc = "idle"
    BY <1>1, <1>6, <1>7 DEF Types
  <2> QED BY <1>1, <1>6, <1>10, <2>1 DEF Types
<1>12. OnlyAt(c)
  BY <1>2, <1>6, <1>7, <1>10 DEF OnlyAt
<1> QED BY <1>2, <1>8, <1>9, <1>10, <1>11, <1>12, OneStep
\* The turns of c end in the session it is in.
LEMMA EndsTurn ==
    ASSUME IInv, NEW c \in Conns, EndTurn(c)
    PROVE  /\ shown' \in [Sids -> SUBSET Conns]
           /\ \A z \in Sids : c \in shown'[z] => c \in raced
           /\ \A z \in Sids, d \in Conns : d # c /\ d \in shown'[z] => d \in shown[z]
<1>1. shown \in [Sids -> SUBSET Conns] /\ Local(c)
  BY DEF IInv, Types
<1>2. \A z \in Sids : shown'[z] = IF z = sess[c].sid THEN shown[z] \ {c} ELSE shown[z]
  BY <1>1 DEF EndTurn
<1>3. shown' \in [Sids -> SUBSET Conns]
  BY <1>1 DEF EndTurn
<1>4. \A z \in Sids : c \in shown[z] /\ c \notin raced => z = sess[c].sid
  BY <1>1 DEF Local, TurnEnds
<1> QED BY <1>2, <1>3, <1>4

\* A connection ends: the tasks that wait for an answer have failed.
LEMMA FailedTasks ==
    ASSUME IInv, NEW c \in Conns, NEW t \in Tasks, sess[c].pump, NEW o, NEW p, NEW r,
           o.sid = sess[c].sid, ~o.pump, Behind(c) \subseteq r
    PROVE  /\ Fail(c)[t] \in Frames
           /\ Fail(c)[t].conn = at[t].conn /\ (Fail(c)[t].pc = "idle" <=> at[t].pc = "idle")
           /\ at[t].conn # c => Fail(c)[t] = at[t]
           /\ Fail(c)[t].pc = "spawning" => Fail(c)[t] = at[t]
           /\ ~Waits(Fail(c)[t], c)
           /\ at[t].conn = c => /\ Keeps(t, Fail(c)[t], o, p, r)
                                /\ Fail(c)[t].pc = "accepted" => c \in r
<1> DEFINE f == Fail(c)[t]
<1>1. f = IF at[t].conn = c /\ at[t].pc \in Waiting THEN [at[t] EXCEPT !.pc = "failed"] ELSE at[t]
  BY DEF Fail
<1>2. at[t] \in Frames
  BY DEF IInv, Types
<1>3. /\ f \in Frames /\ f.conn = at[t].conn /\ (f.pc = "idle" <=> at[t].pc = "idle")
      /\ at[t].conn # c => f = at[t]
      /\ at[t].conn = c /\ at[t].pc \in Waiting => f.pc = "failed"
      /\ ~(at[t].conn = c /\ at[t].pc \in Waiting) => f = at[t]
      /\ f.pc = "spawning" => f = at[t]
  BY <1>1, <1>2 DEF Frames, Waiting
<1> HIDE DEF f
<1>4. ~Waits(f, c)
  BY <1>3 DEF Waits, Waiting
<1>5. ASSUME at[t].conn = c
      PROVE  Keeps(t, f, o, p, r) /\ (f.pc = "accepted" => c \in r)
  <2>1. Busy(t, c) /\ sess[c].sid # None /\ sess[c] # NoObject
    BY <1>5 DEF IInv, Local, Fits, NoObject
  <2>2. at[t].pc \in Answered => c \in r
    BY <1>5 DEF Behind
  <2> QED BY <1>3, <1>5, <2>1, <2>2 DEF Keeps, Busy, Waiting, Answered
<1> QED BY <1>3, <1>4, <1>5 DEF f

\* What is left of a process and its object when the connection has ended.
LEMMA Shut ==
    ASSUME IInv, NEW c \in Conns, sess[c].pump,
           sess'[c] = [sess[c] EXCEPT !.open = FALSE, !.pump = FALSE],
           proc'[c].kind = "gone", ~proc'[c].run, ~proc'[c].asking, proc'[c].inbox = << >>,
           pipe'[c] = << >>, debt'[c] = debt[c],
           \A z \in Sids : c \in shown'[z] => c \in raced'
    PROVE  Local(c)'
<1>1. sess[c] \in Object /\ Fits(c, proc[c], sess[c], pipe[c], debt[c], known)
  BY DEF IInv, Types, Local
<1>2. /\ sess'[c].pump = FALSE /\ sess'[c].open = FALSE
      /\ sess'[c].turn = sess[c].turn /\ sess'[c].busy = sess[c].busy
      /\ sess'[c].sid = sess[c].sid /\ sess[c].sid # None
  BY <1>1 DEF Object, Fits
<1>3. Fits(c, proc'[c], sess'[c], pipe'[c], debt'[c], known')
  <2>1. PICK o, p, q, d : o = sess'[c] /\ p = proc'[c] /\ q = pipe'[c] /\ d = debt'[c]
    OBVIOUS
  <2>2. /\ o.sid # None /\ o.open = FALSE /\ o.pump = FALSE /\ (o.turn => o.busy)
        /\ p.kind = "gone" /\ ~p.run /\ ~p.asking
        /\ p.inbox = << >> /\ q = << >>
    BY <1>1, <1>2, <2>1 DEF Fits
  <2>3. Fits(c, p, o, q, d, known')
    BY <2>2 DEF Fits
  <2> QED BY <2>1, <2>3
<1>4. Ordered(proc'[c], pipe'[c]) /\ ~Strays(proc'[c].inbox, pipe'[c])
  BY DEF Ordered, Strays
<1>5. ASSUME NEW t \in Tasks PROVE SlotsOf(c, t, proc'[c].inbox, pipe'[c], at'[t])
  BY DEF SlotsOf
<1> QED BY <1>2, <1>3, <1>4, <1>5 DEF Local

LEMMA CloseStep ==
    ASSUME IInv, NEW c \in Conns, Close(c)
    PROVE  IInv'
<1> DEFINE o == [sess[c] EXCEPT !.open = FALSE, !.pump = FALSE]
           f2 == [pc |-> "closing", conn |-> c]
<1>1. /\ Types /\ sess[c] \in Object /\ Local(c) /\ sess[c].pump /\ at["worker"] = Idle
      /\ Fits(c, proc[c], sess[c], pipe[c], debt[c], known)
      /\ "worker" \in Tasks /\ sess[c].sid # None
  BY DEF IInv, Types, Local, Fits, Close, Tasks
<1>2. /\ o \in Object /\ ~o.pump /\ o.sid = sess[c].sid
      /\ f2 \in Frames /\ f2.pc = "closing" /\ f2.conn = c
  BY <1>1 DEF Object, Frames
<1>3. /\ proc' = [proc EXCEPT ![c] = Gone(c)] /\ sess' = [sess EXCEPT ![c] = o]
      /\ pipe' = [pipe EXCEPT ![c] = << >>] /\ at' = [Fail(c) EXCEPT !["worker"] = f2]
      /\ EndTurn(c) /\ raced' = raced \union Behind(c)
      /\ deeds' = deeds /\ asks' = asks /\ slipped' = slipped /\ sessions' = sessions
      /\ known' = known /\ displaced' = displaced /\ settling' = settling /\ debt' = debt
  <2>1. sess' = [sess EXCEPT ![c] = o]
    BY <1>1 DEF Close, Types
  <2> QED BY <2>1 DEF Close, Change, registry
<1> HIDE DEF o, f2
<1>4. /\ proc'[c] = Gone(c) /\ sess'[c] = o /\ pipe'[c] = << >>
      /\ \A d \in Conns : d # c => proc'[d] = proc[d] /\ sess'[d] = sess[d] /\ pipe'[d] = pipe[d]
      /\ proc' \in [Conns -> Process] /\ sess' \in [Conns -> Object]
      /\ pipe' \in [Conns -> Seq(Frame)]
  <2>1. << >> \in Seq(Frame)
    OBVIOUS
  <2> QED BY <1>1, <1>2, <1>3, <2>1, GoneProcess DEF Types
<1>5. /\ shown' \in [Sids -> SUBSET Conns]
      /\ \A z \in Sids : c \in shown'[z] => c \in raced'
      /\ \A z \in Sids, d \in Conns : d # c /\ d \in shown'[z] => d \in shown[z]
  BY <1>3, EndsTurn
<1>6. Behind(c) \subseteq raced' /\ raced' \subseteq Conns
  BY <1>1, <1>3 DEF Types, Behind
<1>7. ASSUME NEW t \in Tasks, t # "worker"
      PROVE  /\ at'[t] \in Frames
             /\ at'[t].conn = at[t].conn /\ (at'[t].pc = "idle" <=> at[t].pc = "idle")
             /\ at[t].conn # c => at'[t] = at[t]
             /\ at'[t].pc = "spawning" => at'[t] = at[t]
             /\ at[t].conn = c => /\ Keeps(t, at'[t], o, Gone(c), raced')
                                  /\ at'[t].pc = "accepted" => c \in raced'
  <2>1. at'[t] = Fail(c)[t]
    BY <1>3, <1>7 DEF Fail
  <2> QED BY <1>1, <1>2, <1>6, <2>1, FailedTasks
<1>8. at'["worker"] = f2 /\ DOMAIN at' = Tasks /\ at' = [t \in Tasks |-> at'[t]]
  BY <1>1, <1>3 DEF Fail
<1>9. Types'
  <2>1. \A t \in Tasks : at'[t] \in Frames
    BY <1>2, <1>7, <1>8
  <2>2. at' \in [Tasks -> Frames]
    BY <1>8, <2>1
  <2>3. \A t \in Tasks : at'[t].conn = None <=> at'[t].pc = "idle"
    <3>1. at'["worker"].conn # None /\ at'["worker"].pc # "idle"
      BY <1>2, <1>8, PiAssumption
    <3>2. \A t \in Tasks : at[t].conn = None <=> at[t].pc = "idle"
      BY <1>1 DEF Types
    <3> QED BY <1>7, <3>1, <3>2
  <2> QED BY <1>1, <1>3, <1>4, <1>5, <1>6, <2>2, <2>3 DEF Types
<1>10. OnlyAt(c)
  <2>1. \A t \in Tasks : at'[t] = at[t] \/ {at[t].conn, at'[t].conn} \subseteq {c, None}
    BY <1>1, <1>2, <1>7, <1>8 DEF Idle
  <2> QED BY <1>3, <1>4, <1>5, <2>1 DEF OnlyAt
<1>11. ServedIsRegistered'
  <2>1. \A d \in Conns : sess'[d].pump => sess[d].pump /\ sess'[d].sid = sess[d].sid
    BY <1>2, <1>4
  <2> QED BY <1>3, <2>1, RegistryStays DEF IInv
<1>12. SpawnedOnce'
  <2>1. \A t \in Tasks : at'[t].pc = "spawning" => at'[t] = at[t]
    BY <1>2, <1>7, <1>8
  <2> QED BY <2>1, SpawningStays DEF IInv
<1>13. Local(c)'
  <2>1. sess'[c] = [sess[c] EXCEPT !.open = FALSE, !.pump = FALSE]
    BY <1>4 DEF o
  <2>2. proc'[c].kind = "gone" /\ ~proc'[c].run /\ ~proc'[c].asking /\ proc'[c].inbox = << >>
    BY <1>4, GoneProcess
  <2>3. debt'[c] = debt[c]
    BY <1>3
  <2> QED BY <1>1, <1>4, <1>5, <2>1, <2>2, <2>3, Shut
<1>14. ASSUME NEW t \in Tasks, at'[t].conn = c PROVE Busy(t, c)'
  <2>1. CASE t = "worker"
    <3>1. Keeps(t, f2, o, Gone(c), raced')
      BY <1>1, <1>2, <2>1 DEF Keeps, Waiting, Answered
    <3> QED BY <1>2, <1>4, <1>8, <2>1, <3>1 DEF Busy
  <2>2. CASE t # "worker"
    BY <1>4, <1>7, <1>14, <2>2 DEF Busy
  <2> QED BY <2>1, <2>2
<1> QED BY <1>9, <1>10, <1>11, <1>12, <1>13, <1>14, OneStep

LEMMA DropStep ==
    ASSUME IInv, NEW c \in Conns, Drop(c)
    PROVE  IInv'
<1> DEFINE o == [sess[c] EXCEPT !.open = FALSE, !.pump = FALSE]
           s == sess[c].sid
<1>1. /\ Types /\ sess[c] \in Object /\ Local(c) /\ sess[c].pump
      /\ Fits(c, proc[c], sess[c], pipe[c], debt[c], known)
      /\ pipe[c] \in Seq(Frame) /\ pipe[c] # << >> /\ Head(pipe[c])[1] = "eof"
  BY DEF IInv, Types, Local, Drop, Next1
<1>2. o \in Object /\ ~o.pump /\ o.sid = s /\ s \in Sids
  BY <1>1 DEF Object, Fits
<1>3. Tail(pipe[c]) = << >> /\ proc[c].kind = "gone"
  BY <1>1, OrderedShorter DEF Local
<1>4. ~proc[c].run /\ ~proc[c].asking /\ proc[c].inbox = << >>
  BY <1>1, <1>3 DEF Fits
<1>5. /\ pipe' = [pipe EXCEPT ![c] = << >>] /\ sess' = [sess EXCEPT ![c] = o]
      /\ sessions' = [sessions EXCEPT ![s] = None]
      /\ displaced' = displaced \union ({sessions[s]} \ {None, c})
      /\ known' = known \ {c} /\ at' = Fail(c) /\ raced' = raced \union Behind(c)
      /\ proc' = proc /\ deeds' = deeds /\ asks' = asks /\ slipped' = slipped
      /\ settling' = settling /\ debt' = debt
  <2>1. sess' = [sess EXCEPT ![c] = o]
    BY <1>1 DEF Drop, Types
  <2> QED BY <1>3, <2>1 DEF Drop, Consume, Unregister
<1>6. /\ shown' \in [Sids -> SUBSET Conns]
      /\ \A z \in Sids : c \in shown'[z] => c \in raced'
      /\ \A z \in Sids, d \in Conns : d # c /\ d \in shown'[z] => d \in shown[z]
  <2>1. CASE Reported(c)
    <3>1. EndTurn(c)
      BY <2>1 DEF Drop, EndTurn
    <3> QED BY <1>5, <3>1, EndsTurn
  <2>2. CASE ~Reported(c)
    <3>1. shown' = shown
      BY <2>2 DEF Drop
    <3>2. ~sess[c].turn
      BY <1>1, <2>2 DEF Reported, Fits
    <3> QED BY <1>1, <1>5, <3>1, <3>2 DEF Types, Local, TurnEnds
  <2> QED BY <2>1, <2>2
<1> HIDE DEF o
<1>7. /\ sess'[c] = o /\ pipe'[c] = << >> /\ proc'[c] = proc[c]
      /\ \A d \in Conns : d # c => sess'[d] = sess[d] /\ pipe'[d] = pipe[d]
      /\ sess' \in [Conns -> Object] /\ pipe' \in [Conns -> Seq(Frame)]
  <2>1. << >> \in Seq(Frame)
    OBVIOUS
  <2> QED BY <1>1, <1>2, <1>5, <2>1 DEF Types
<1>8. Behind(c) \subseteq raced' /\ raced' \subseteq Conns
  BY <1>1, <1>5 DEF Types, Behind
<1>9. ASSUME NEW t \in Tasks
      PROVE  /\ at'[t] \in Frames
             /\ at'[t].conn = at[t].conn /\ (at'[t].pc = "idle" <=> at[t].pc = "idle")
             /\ at[t].conn # c => at'[t] = at[t]
             /\ at'[t].pc = "spawning" => at'[t] = at[t]
             /\ at[t].conn = c => /\ Keeps(t, at'[t], o, proc[c], raced')
                                  /\ at'[t].pc = "accepted" => c \in raced'
  <2>1. at'[t] = Fail(c)[t]
    BY <1>5
  <2>2. o.sid = sess[c].sid /\ ~o.pump /\ sess[c].pump /\ Behind(c) \subseteq raced'
    BY <1>1, <1>2, <1>8
  <2>3. PICK r : r = raced'
    OBVIOUS
  <2>4. /\ Fail(c)[t] \in Frames
        /\ Fail(c)[t].conn = at[t].conn /\ (Fail(c)[t].pc = "idle" <=> at[t].pc = "idle")
        /\ at[t].conn # c => Fail(c)[t] = at[t]
        /\ Fail(c)[t].pc = "spawning" => Fail(c)[t] = at[t]
        /\ at[t].conn = c => /\ Keeps(t, Fail(c)[t], o, proc[c], r)
                             /\ Fail(c)[t].pc = "accepted" => c \in r
    BY <2>2, <2>3, FailedTasks
  <2> QED BY <2>1, <2>3, <2>4
<1>10. Types'
  <2>1. at' \in [Tasks -> Frames]
    BY <1>5, <1>9 DEF Fail
  <2>2. \A t \in Tasks : at'[t].conn = None <=> at'[t].pc = "idle"
    BY <1>1, <1>9 DEF Types
  <2>3. sessions' \in [Sids -> Conns \union {None}] /\ displaced' \subseteq Conns /\ known' \subseteq Conns
    BY <1>1, <1>2, <1>5 DEF Types
  <2> QED BY <1>1, <1>5, <1>6, <1>7, <1>8, <2>1, <2>2, <2>3 DEF Types
<1>11. OnlyAt(c)
  <2>1. \A t \in Tasks : at'[t] = at[t] \/ {at[t].conn, at'[t].conn} \subseteq {c, None}
    BY <1>9
  <2> QED BY <1>5, <1>6, <1>7, <2>1 DEF OnlyAt
<1>12. ServedIsRegistered'
  <2>1. ASSUME NEW d \in Conns, sess'[d].pump, d \notin displaced'
        PROVE  sessions'[sess'[d].sid] = d
    <3>1. d # c /\ sess'[d] = sess[d]
      BY <1>2, <1>7, <2>1
    <3>2. sessions[sess[d].sid] = d /\ d \notin {sessions[s]} \ {None, c}
      BY <1>5, <2>1, <3>1 DEF IInv, ServedIsRegistered
    <3>3. sess[d].sid # s /\ sess[d].sid \in Sids
      BY <2>1, <3>1, <3>2, PiAssumption DEF IInv, Types, Local, Fits, Object
    <3> QED BY <1>1, <1>5, <3>1, <3>2, <3>3 DEF Types
  <2> QED BY <2>1 DEF ServedIsRegistered
<1>13. SpawnedOnce'
  BY <1>9, SpawningStays DEF IInv
<1>14. Local(c)'
  <2>1. sess'[c] = [sess[c] EXCEPT !.open = FALSE, !.pump = FALSE]
    BY <1>7 DEF o
  <2>2. proc'[c].kind = "gone" /\ ~proc'[c].run /\ ~proc'[c].asking /\ proc'[c].inbox = << >>
    BY <1>3, <1>4, <1>7
  <2>3. debt'[c] = debt[c]
    BY <1>5
  <2> QED BY <1>1, <1>6, <1>7, <2>1, <2>2, <2>3, Shut
<1>15. ASSUME NEW t \in Tasks, at'[t].conn = c PROVE Busy(t, c)'
  BY <1>7, <1>9, <1>15 DEF Busy
<1> QED BY <1>10, <1>11, <1>12, <1>13, <1>14, <1>15, OneStep

LEMMA ClosedStep ==
    ASSUME IInv, Closed
    PROVE  IInv'
<1>1. /\ Types /\ at["worker"] \in Frames /\ at["worker"].pc = "closing" /\ "worker" \in Tasks
  BY DEF IInv, Types, Closed, Tasks
<1>2. PICK c \in Conns : c = at["worker"].conn
  BY <1>1 DEF Types, Frames
<1> DEFINE s == sess[c].sid
<1>3. ~sess[c].pump /\ s \in Sids /\ Local(c)
  <2>1. Busy("worker", c) /\ Local(c) /\ sess[c] \in Object
    BY <1>1, <1>2 DEF IInv, Types
  <2> QED BY <1>1, <1>2, <2>1 DEF Busy, Keeps, Object
<1>4. /\ sessions' = [sessions EXCEPT ![s] = None]
      /\ displaced' = displaced \union ({sessions[s]} \ {None, c})
      /\ asks' = asks \ {c} /\ at' = [at EXCEPT !["worker"] = Idle]
      /\ proc' = proc /\ deeds' = deeds /\ pipe' = pipe /\ sess' = sess /\ known' = known
      /\ slipped' = slipped /\ settling' = settling /\ shown' = shown /\ debt' = debt
      /\ raced' = raced
  BY <1>2 DEF Closed, Unregister, turns
<1>5. /\ at'["worker"] = Idle /\ \A t \in Tasks : t # "worker" => at'[t] = at[t]
      /\ Idle \in Frames /\ Idle.pc = "idle" /\ Idle.conn = None
  BY <1>1, <1>4 DEF Types, Idle, Frames
<1>6. Types'
  <2>1. at' \in [Tasks -> Frames] /\ \A t \in Tasks : at'[t].conn = None <=> at'[t].pc = "idle"
    BY <1>1, <1>4, <1>5 DEF Types
  <2>2. sessions' \in [Sids -> Conns \union {None}] /\ displaced' \subseteq Conns /\ asks' \subseteq Conns
    BY <1>1, <1>3, <1>4 DEF Types
  <2> QED BY <1>1, <1>4, <2>1, <2>2 DEF Types
<1>7. OnlyAt(c)
  BY <1>2, <1>4, <1>5 DEF OnlyAt
<1>8. ServedIsRegistered'
  <2>1. ASSUME NEW d \in Conns, sess[d].pump, d \notin displaced'
        PROVE  sessions'[sess[d].sid] = d
    <3>1. d # c
      BY <1>3, <2>1
    <3>2. sessions[sess[d].sid] = d /\ d \notin {sessions[s]} \ {None, c}
      BY <1>4, <2>1 DEF IInv, ServedIsRegistered
    <3>3. sess[d].sid # s /\ sess[d].sid \in Sids
      BY <2>1, <3>1, <3>2, PiAssumption DEF IInv, Types, Local, Fits, Object
    <3> QED BY <1>1, <1>4, <3>2, <3>3 DEF Types
  <2> QED BY <1>4, <2>1 DEF ServedIsRegistered
<1>9. SpawnedOnce'
  <2>1. \A t \in Tasks : at'[t].pc = "spawning" => at'[t] = at[t]
    BY <1>5
  <2> QED BY <2>1, SpawningStays DEF IInv
<1>10. Local(c)'
  <2>1. ASSUME NEW t \in Tasks PROVE SlotsOf(c, t, proc[c].inbox, pipe[c], at'[t])
    <3>1. SlotsOf(c, t, proc[c].inbox, pipe[c], at[t])
      BY <1>3 DEF Local
    <3>2. ~Waits(at["worker"], c)
      BY <1>1 DEF Waits, Waiting
    <3> QED BY <1>5, <3>1, <3>2, SlotsOfNobody
  <2>2. ASSUME NEW z \in Sids, c \in shown[z], c \notin raced PROVE FALSE
    BY <1>3, <2>2 DEF Local, TurnEnds
  <2> QED BY <1>3, <1>4, <2>1, <2>2 DEF Local
<1>11. ASSUME NEW t \in Tasks, at'[t].conn = c PROVE Busy(t, c)'
  <2>1. t # "worker"
    BY <1>5, <1>11, PiAssumption
  <2>2. at'[t] = at[t] /\ Busy(t, c)
    BY <1>5, <1>11, <2>1 DEF IInv
  <2>3. Due(c, settling, at) => Due(c, settling', at')
    BY <1>1, <1>4, <1>5, DueStays
  <2> QED BY <1>4, <2>2, <2>3 DEF Busy, WillEnd
<1> QED BY <1>6, <1>7, <1>8, <1>9, <1>10, <1>11, OneStep
-----------------------------------------------------------------------------
(* Commands                                                                *)

LEMMA TasksFinite == IsFiniteSet(Tasks)
<1>1. IsFiniteSet({"worker"})
  BY FS_Singleton
<1>2. IsFiniteSet({"worker"} \union {"topic"})
  BY <1>1, FS_AddElement
<1>3. Tasks = {"worker"} \union {"topic"}
  BY DEF Tasks
<1> QED BY <1>2, <1>3

\* The failed commands of c, as task t goes from one frame to another.
LEMMA FailedChange ==
    ASSUME Types, NEW c \in Conns, NEW t \in Tasks, NEW f, at' = [at EXCEPT ![t] = f]
    PROVE  /\ FailedAt(c) \in Nat /\ FailedAt(c)' \in Nat
           /\ LET F == [pc |-> "failed", conn |-> c] IN
              /\ (at[t] = F <=> f = F) => FailedAt(c)' = FailedAt(c)
              /\ at[t] = F /\ f # F => FailedAt(c) = FailedAt(c)' + 1
              /\ at[t] # F /\ f = F => FailedAt(c)' = FailedAt(c) + 1
<1> DEFINE F == [pc |-> "failed", conn |-> c]
           S == {u \in Tasks : at[u] = F}
           R == {u \in Tasks : at'[u] = F}
<1>1. at'[t] = f /\ \A u \in Tasks : u # t => at'[u] = at[u]
  BY DEF Types
<1>2. IsFiniteSet(Tasks)
  BY TasksFinite
<1>3. IsFiniteSet(S) /\ IsFiniteSet(R)
  <2>1. S \in SUBSET Tasks /\ R \in SUBSET Tasks
    OBVIOUS
  <2> QED BY <1>2, <2>1, FS_Subset
<1>4. Cardinality(S) \in Nat /\ Cardinality(R) \in Nat
  BY <1>3, FS_CardinalityType
<1> HIDE DEF F
<1>5. (at[t] = F <=> f = F) => R = S
  BY <1>1
<1>6. at[t] = F /\ f # F => Cardinality(S) = Cardinality(R) + 1
  <2> SUFFICES ASSUME at[t] = F, f # F PROVE Cardinality(S) = Cardinality(R) + 1
    OBVIOUS
  <2>1. S = R \union {t} /\ t \notin R
    BY <1>1
  <2> HIDE DEF S, R
  <2> QED BY <1>3, <2>1, FS_AddElement
<1>7. at[t] # F /\ f = F => Cardinality(R) = Cardinality(S) + 1
  <2> SUFFICES ASSUME at[t] # F, f = F PROVE Cardinality(R) = Cardinality(S) + 1
    OBVIOUS
  <2>1. R = S \union {t} /\ t \notin S
    BY <1>1
  <2> HIDE DEF S, R
  <2> QED BY <1>3, <2>1, FS_AddElement
<1>8. FailedAt(c) = Cardinality(S) /\ FailedAt(c)' = Cardinality(R)
  BY DEF FailedAt, F
<1> HIDE DEF S, R
<1> QED BY <1>4, <1>5, <1>6, <1>7, <1>8 DEF F

LEMMA SendStep ==
    ASSUME IInv, NEW t \in Tasks, NEW c \in Conns, Send(t, c)
    PROVE  IInv'
<1>1. PICK pc \in Waiting : at' = [at EXCEPT ![t] = [pc |-> pc, conn |-> c]]
  BY DEF Send
<1> DEFINE f2 == [pc |-> pc, conn |-> c]
           o == [sess[c] EXCEPT !.expected = @ + 1]
           b == IF Alive(c) THEN Append(proc[c].inbox, t) ELSE proc[c].inbox
           p == [proc[c] EXCEPT !.inbox = b]
<1>2. /\ Types /\ sess[c] \in Object /\ proc[c] \in Process /\ Local(c) /\ at[t] = Idle
      /\ Fits(c, proc[c], sess[c], pipe[c], debt[c], known) /\ sess[c].pump
      /\ sess[c].sid # None /\ deeds \in Nat /\ proc[c].inbox \in Seq(Tasks \union {None})
      /\ sess[c].expected \in Nat
  BY DEF IInv, Types, Local, Fits, Send, Process, Object
<1>3. /\ f2 \in Frames /\ f2.pc = pc /\ f2.conn = c /\ f2.pc \in Waiting
      /\ f2.pc # "idle" /\ f2.pc # "failed" /\ f2.pc # "spawning" /\ f2.pc # "closing"
      /\ f2.pc \notin Answered /\ f2.pc # "accepted"
  BY <1>1 DEF Frames, Waiting, Answered
<1>4. /\ o \in Object /\ o.open = sess[c].open /\ o.pump = sess[c].pump /\ o.turn = sess[c].turn
      /\ o.busy = sess[c].busy /\ o.sid = sess[c].sid /\ o.expected = sess[c].expected + 1
  <2>1. PICK n \in Nat : n = sess[c].expected + 1
    BY <1>2
  <2>2. o = [sess[c] EXCEPT !.expected = n]
    BY <2>1
  <2> QED BY <1>2, <2>1, <2>2 DEF Object
<1>5. b \in Seq(Tasks \union {None}) /\ (~Alive(c) => b = << >> /\ proc[c].inbox = << >>)
  BY <1>2 DEF Fits, Alive
<1>6. /\ p \in Process /\ p.kind = proc[c].kind /\ p.file = proc[c].file /\ p.run = proc[c].run
      /\ p.asking = proc[c].asking /\ p.inbox = b
  BY <1>2, <1>5 DEF Process
<1>7. /\ at' = [at EXCEPT ![t] = f2] /\ sess' = [sess EXCEPT ![c] = o]
      /\ proc' = [proc EXCEPT ![c] = p] /\ deeds' \in Nat
      /\ pipe' = pipe /\ asks' = asks /\ slipped' = slipped /\ sessions' = sessions
      /\ known' = known /\ displaced' = displaced /\ settling' = settling
      /\ shown' = shown /\ debt' = debt /\ raced' = raced
  <2>1. sess' = [sess EXCEPT ![c] = o]
    BY <1>2 DEF Send, Types
  <2>2. proc' = [proc EXCEPT ![c] = p]
    BY <1>2 DEF Send, Change, Types
  <2>3. deeds' \in Nat
    BY <1>2 DEF Send, Deed
  <2> QED BY <1>1, <2>1, <2>2, <2>3 DEF Send, registry, turns
<1> HIDE DEF f2, o, p
<1>8. /\ at'[t] = f2 /\ \A u \in Tasks : u # t => at'[u] = at[u]
      /\ sess'[c] = o /\ proc'[c] = p
      /\ \A d \in Conns : d # c => sess'[d] = sess[d] /\ proc'[d] = proc[d]
  BY <1>2, <1>7 DEF Types
<1>9. at[t].pc = "idle" /\ at[t].conn = None
  BY <1>2 DEF Idle
<1>10. Types'
  <2>1. /\ at' \in [Tasks -> Frames] /\ sess' \in [Conns -> Object] /\ proc' \in [Conns -> Process]
    BY <1>2, <1>3, <1>4, <1>6, <1>7 DEF Types
  <2>2. \A u \in Tasks : at'[u].conn = None <=> at'[u].pc = "idle"
    <3>1. f2.conn # None /\ f2.pc # "idle"
      BY <1>3, PiAssumption
    <3>2. \A u \in Tasks : at[u].conn = None <=> at[u].pc = "idle"
      BY <1>2 DEF Types
    <3> QED BY <1>8, <3>1, <3>2
  <2> QED BY <1>2, <1>7, <2>1, <2>2 DEF Types
<1>11. OnlyAt(c)
  <2>1. \A u \in Tasks : at'[u] = at[u] \/ {at[u].conn, at'[u].conn} \subseteq {c, None}
    BY <1>3, <1>8, <1>9
  <2> QED BY <1>7, <1>8, <2>1 DEF OnlyAt
<1>12. ServedIsRegistered'
  <2>1. \A d \in Conns : sess'[d].pump => sess[d].pump /\ sess'[d].sid = sess[d].sid
    BY <1>4, <1>8
  <2> QED BY <1>7, <2>1, RegistryStays DEF IInv
<1>13. SpawnedOnce'
  <2>1. \A u \in Tasks : at'[u].pc = "spawning" => at'[u] = at[u]
    BY <1>3, <1>8
  <2> QED BY <2>1, SpawningStays DEF IInv
<1>16. Due(c, settling, at) => Due(c, settling', at')
  <2>1. \A u \in Tasks : at[u].pc = "local" => at'[u] = at[u]
    BY <1>8, <1>9
  <2> QED BY <1>7, <2>1, DueStays
<1>14. Local(c)'
  <2>1. Fits(c, p, o, pipe[c], debt[c], known)
    <3>1. sess[c] # NoObject
      BY <1>2 DEF NoObject
    <3>2. proc[c].kind # "none" /\ ~(proc[c].kind = "tui" /\ c \notin known)
      BY <1>2, <3>1 DEF Fits
    <3> HIDE DEF b
    <3> QED BY <1>2, <1>4, <1>5, <1>6, <3>2 DEF Fits, Alive
  <2>2. Ordered(p, pipe[c])
    BY <1>2, <1>6 DEF Local, Ordered, Over
  <2>3. ASSUME NEW u \in Tasks PROVE SlotsOf(c, u, b, pipe[c], at'[u])
    <3>1. SlotsOf(c, u, proc[c].inbox, pipe[c], at[u])
      BY <1>2 DEF Local
    <3>2. CASE ~Alive(c)
      <4>1. ~Waits(at[t], c)
        BY <1>9 DEF Waits, Waiting
      <4>2. SlotsOf(c, u, b, pipe[c], at[u])
        BY <1>5, <3>1, <3>2
      <4> QED BY <1>8, <4>1, <4>2, SlotsOfNobody
    <3>3. CASE Alive(c)
      <4> DEFINE e == proc[c].inbox
      <4>1. /\ DOMAIN e = 1..Len(e) /\ Len(e) \in Nat /\ DOMAIN b = 1..Len(e)+1
            /\ \A i \in 1..Len(e) : b[i] = e[i]
            /\ b[Len(e) + 1] = t
        BY <1>2, <3>3, AppendProperties
      <4> HIDE DEF b, e
      <4>2. CASE u = t
        <5>1. ~Waits(at[t], c)
          BY <1>9 DEF Waits, Waiting
        <5>2. (\A i \in DOMAIN e : e[i] # t) /\ (\A i \in DOMAIN pipe[c] : ~IsFor(pipe[c][i], t))
          BY <3>1, <4>2, <5>1 DEF SlotsOf, e
        <5>3. Waits(f2, c)
          BY <1>3 DEF Waits
        <5>4. \A i \in DOMAIN b : b[i] = t => i = Len(e) + 1
          BY <4>1, <5>2
        <5> QED BY <1>8, <4>2, <5>2, <5>3, <5>4 DEF SlotsOf
      <4>3. CASE u # t
        <5>1. \A i \in DOMAIN b : b[i] = u => i \in DOMAIN e /\ e[i] = u
          BY <4>1, <4>3
        <5>2. SlotsOf(c, u, b, pipe[c], at[u])
          BY <3>1, <5>1 DEF SlotsOf, e
        <5> QED BY <1>8, <4>3, <5>2
      <4> QED BY <4>2, <4>3
    <3> QED BY <3>2, <3>3
  <2>4. Strays(b, pipe[c]) => c \in slipped
    <3>1. Strays(proc[c].inbox, pipe[c]) => c \in slipped
      BY <1>2 DEF Local
    <3>2. CASE ~Alive(c)
      BY <1>5, <3>1, <3>2
    <3>3. CASE Alive(c)
      <4> DEFINE e == proc[c].inbox
      <4>1. /\ DOMAIN e = 1..Len(e) /\ Len(e) \in Nat /\ DOMAIN b = 1..Len(e)+1
            /\ \A i \in 1..Len(e) : b[i] = e[i]
            /\ b[Len(e) + 1] = t
        BY <1>2, <3>3, AppendProperties
      <4>2. t # None
        BY DEF Tasks, None
      <4> HIDE DEF b, e
      <4>3. \A i \in DOMAIN b : b[i] = None => i \in DOMAIN e /\ e[i] = None
        BY <4>1, <4>2
      <4> QED BY <3>1, <4>3 DEF Strays, e
    <3> QED BY <3>2, <3>3
  <2>5. ASSUME NEW s \in Sids, c \in shown[s], c \notin raced
        PROVE  TurnEnds(c, s, o, p, pipe[c], settling', at')
    <3>1. TurnEnds(c, s, sess[c], proc[c], pipe[c], settling, at)
      BY <1>2, <2>5 DEF Local
    <3>2. Coming(proc[c], pipe[c]) => Coming(p, pipe[c])
      BY <1>6 DEF Coming, Over
    <3> QED BY <1>4, <1>16, <3>1, <3>2 DEF TurnEnds, WillEnd
  <2>6. p.asking => c \in asks \/ Asked(pipe[c])
    BY <1>2, <1>6 DEF Local
  <2>7. FailedAt(c)' = FailedAt(c)
    <3>1. at[t] # [pc |-> "failed", conn |-> c] /\ f2 # [pc |-> "failed", conn |-> c]
      BY <1>3, <1>9
    <3> QED BY <1>2, <1>7, <3>1, FailedChange
  <2>8. Alive(c) /\ c \notin slipped => Balance(o, p, pipe[c], debt[c], FailedAt(c))
    <3> SUFFICES ASSUME Alive(c), c \notin slipped
                 PROVE  Balance(o, p, pipe[c], debt[c], FailedAt(c))
      OBVIOUS
    <3>1. Balance(sess[c], proc[c], pipe[c], debt[c], FailedAt(c))
      BY <1>2 DEF Local
    <3>2. Len(b) = Len(proc[c].inbox) + 1 /\ Len(proc[c].inbox) \in Nat
      BY <1>2, AppendProperties
    <3>3. Ours(pipe[c]) \in Nat /\ FailedAt(c) \in Nat /\ debt[c] \in Int
      <4>1. pipe[c] \in Seq(Frame) /\ <<"echo">> \in Frame
        BY <1>2 DEF Types, Frame, Plain
      <4> QED BY <1>2, <1>7, <4>1, OursLonger, FailedChange DEF Types
    <3> HIDE DEF b
    <3>4. sess[c].expected + debt[c] = Ours(pipe[c]) + Len(proc[c].inbox) + FailedAt(c)
      BY <3>1 DEF Balance
    <3>5. (sess[c].expected + 1) + debt[c] = Ours(pipe[c]) + Len(b) + FailedAt(c)
      <4>1. PICK e \in Nat, d \in Int, m \in Nat, l \in Nat, n \in Nat :
              /\ e = sess[c].expected /\ d = debt[c] /\ m = Ours(pipe[c])
              /\ l = Len(proc[c].inbox) /\ n = FailedAt(c)
        BY <1>2, <3>2, <3>3
      <4>2. e + d = m + l + n /\ Len(b) = l + 1
        BY <3>2, <3>4, <4>1
      <4>3. (e + 1) + d = m + (l + 1) + n
        BY <4>2
      <4> QED BY <4>1, <4>2, <4>3
    <3> QED BY <1>4, <1>6, <3>1, <3>5 DEF Balance
  <2> HIDE DEF b
  <2> QED BY <1>2, <1>4, <1>6, <1>7, <1>8, <2>1, <2>2, <2>3, <2>4, <2>5, <2>6, <2>7, <2>8
          DEF Local, Alive
<1>15. ASSUME NEW u \in Tasks, at'[u].conn = c PROVE Busy(u, c)'
  <2>1. CASE u = t
    <3>1. Keeps(t, f2, o, p, raced)
      BY <1>2, <1>3, <1>4 DEF Keeps
    <3> QED BY <1>3, <1>7, <1>8, <2>1, <3>1 DEF Busy
  <2>2. CASE u # t
    <3>1. at'[u] = at[u] /\ Busy(u, c)
      BY <1>8, <1>15, <2>2 DEF IInv
    <3>2. sess[c] # NoObject
      BY <1>2 DEF NoObject
    <3>3. Coming(proc[c], pipe[c]) => Coming(p, pipe[c])
      BY <1>6 DEF Coming, Over
    <3> QED BY <1>4, <1>6, <1>7, <1>8, <1>16, <3>1, <3>2, <3>3 DEF Busy, Keeps, WillEnd
  <2> QED BY <2>1, <2>2
<1> QED BY <1>10, <1>11, <1>12, <1>13, <1>14, <1>15, OneStep
\* A task goes to frame f, about the process c it kept or is to keep.
LEMMA OneTask ==
    ASSUME IInv, NEW c \in Conns, NEW t \in Tasks, NEW f \in Frames,
           at' = [at EXCEPT ![t] = f], {at[t].conn, f.conn} \subseteq {c, None},
           f.conn = None <=> f.pc = "idle", f.pc # "spawning"
    PROVE  /\ at' \in [Tasks -> Frames]
           /\ \A u \in Tasks : at'[u].conn = None <=> at'[u].pc = "idle"
           /\ at'[t] = f /\ \A u \in Tasks : u # t => at'[u] = at[u]
           /\ \A u \in Tasks : at'[u] = at[u] \/ {at[u].conn, at'[u].conn} \subseteq {c, None}
           /\ SpawnedOnce'
<1>1. /\ at \in [Tasks -> Frames] /\ SpawnedOnce
      /\ \A u \in Tasks : at[u].conn = None <=> at[u].pc = "idle"
  BY DEF IInv, Types
<1>2. at'[t] = f /\ \A u \in Tasks : u # t => at'[u] = at[u]
  BY <1>1
<1>3. at' \in [Tasks -> Frames]
  BY <1>1
<1>4. \A u \in Tasks : at'[u].conn = None <=> at'[u].pc = "idle"
  BY <1>1, <1>2
<1>5. \A u \in Tasks : at'[u] = at[u] \/ {at[u].conn, at'[u].conn} \subseteq {c, None}
  BY <1>2
<1>6. \A u \in Tasks : at'[u].pc = "spawning" => at'[u] = at[u]
  BY <1>2
<1>7. SpawnedOnce'
  BY <1>1, <1>6, SpawningStays
<1> QED BY <1>2, <1>3, <1>4, <1>5, <1>7

\* The object of c becomes o, its pipe r and its debt d; no process changes.
Changes(c, o, r, d) ==
    /\ proc' = proc /\ deeds' = deeds /\ known' = known
    /\ sess' = [sess EXCEPT ![c] = o] /\ pipe' = [pipe EXCEPT ![c] = r]
    /\ debt' = [debt EXCEPT ![c] = d]
    /\ o \in Object /\ r \in Seq(Frame) /\ d \in Int
    /\ sessions' \in [Sids -> Conns \union {None}] /\ displaced' \subseteq Conns
    /\ at' \in [Tasks -> Frames]
    /\ \A u \in Tasks : at'[u].conn = None <=> at'[u].pc = "idle"
    /\ \A u \in Tasks : at'[u] = at[u] \/ {at[u].conn, at'[u].conn} \subseteq {c, None}
    /\ shown' \in [Sids -> SUBSET Conns]
    /\ \A e \in Conns, z \in Sids : e # c /\ e \in shown'[z] => e \in shown[z]
    /\ asks \subseteq asks' /\ asks' \subseteq Conns
    /\ settling' \in [Conns -> Nat] /\ \A e \in Conns : e # c => settling'[e] = settling[e]
    /\ raced \subseteq raced' /\ raced' \subseteq Conns
    /\ slipped \subseteq slipped' /\ slipped' \subseteq Conns

\* It is still the same connection.
Remains(c, o, r, d) ==
    /\ o.open = sess[c].open /\ o.pump = sess[c].pump
    /\ o.sid = sess[c].sid \/ (sess[c].pump /\ o.sid # None)
    /\ o.turn => o.busy
    /\ sess[c] = NoObject => o = NoObject /\ d = debt[c]
    /\ ~sess[c].pump => r = pipe[c]

LEMMA ObjectStep ==
    ASSUME IInv, NEW c \in Conns, NEW o, NEW r, NEW d,
           Changes(c, o, r, d), Remains(c, o, r, d),
           ServedIsRegistered', SpawnedOnce', Ordered(proc[c], r),
           \A u \in Tasks : SlotsOf(c, u, proc[c].inbox, r, at'[u]),
           Strays(proc[c].inbox, r) => c \in slipped',
           \A z \in Sids : c \in shown'[z] /\ c \notin raced' =>
               TurnEnds(c, z, o, proc[c], r, settling', at'),
           o.pump /\ proc[c].asking => c \in asks' \/ Asked(r),
           o.pump /\ Alive(c) /\ c \notin slipped' => Balance(o, proc[c], r, d, FailedAt(c)'),
           \A u \in Tasks : at'[u].conn = c =>
               /\ Keeps(u, at'[u], o, proc[c], raced')
               /\ at'[u].pc = "accepted" /\ c \notin raced' => WillEnd(c, proc[c], r, settling', at')
    PROVE  IInv'
<1>1. /\ Types /\ Fits(c, proc[c], sess[c], pipe[c], debt[c], known)
      /\ sess[c] \in Object
  BY DEF IInv, Types, Local
<1>2. /\ proc'[c] = proc[c] /\ sess'[c] = o /\ pipe'[c] = r /\ debt'[c] = d
      /\ \A e \in Conns : e # c =>
            /\ proc'[e] = proc[e] /\ sess'[e] = sess[e]
            /\ pipe'[e] = pipe[e] /\ debt'[e] = debt[e]
  BY <1>1 DEF Changes, Types
<1>3. Types'
  BY <1>1 DEF Changes, Types
<1>4. OnlyAt(c)
  BY <1>2 DEF Changes, OnlyAt
<1>5. Fits(c, proc[c], o, r, d, known)
  <2>1. CASE sess[c] = NoObject
    <3>1. ~sess[c].pump
      BY <2>1 DEF NoObject
    <3>2. o = sess[c] /\ d = debt[c] /\ r = pipe[c]
      BY <2>1, <3>1 DEF Remains
    <3> QED BY <1>1, <3>2
  <2>2. CASE sess[c] # NoObject
    <3>1. PICK p : p = proc[c]
      OBVIOUS
    <3>2. /\ sess[c].sid # None /\ p.kind # "none" /\ ~(p.kind = "tui" /\ c \notin known)
          /\ p.kind \in {"tui", "rpc"} => p.file \in Sids
          /\ p.kind \in {"none", "gone"} => ~p.run
          /\ p.kind = "rpc" /\ p.run => sess[c].pump
          /\ p.asking => p.kind = "rpc" /\ p.run
          /\ p.kind \notin {"tui", "rpc"} \/ ~sess[c].pump => p.inbox = << >>
          /\ ~sess[c].pump => pipe[c] = << >>
          /\ sess[c].open = sess[c].pump
      BY <1>1, <2>2, <3>1 DEF Fits
    <3>3. /\ o.open = sess[c].open /\ o.pump = sess[c].pump /\ o.sid # None
          /\ o.turn => o.busy
          /\ ~sess[c].pump => r = pipe[c]
      BY <3>2 DEF Remains
    <3>4. Fits(c, p, o, r, d, known)
      BY <3>2, <3>3 DEF Fits
    <3> QED BY <3>1, <3>4
  <2> QED BY <2>1, <2>2
<1>6. Local(c)'
  <2>1. known' = known
    BY DEF Changes
  <2> QED BY <1>2, <1>5, <2>1 DEF Local, Alive
<1>7. ASSUME NEW u \in Tasks, at'[u].conn = c PROVE Busy(u, c)'
  BY <1>2, <1>7 DEF Busy
<1> QED BY <1>3, <1>4, <1>6, <1>7, OneStep

\* What a task keeps does not depend on what a live object shows or expects.
LEMMA StillKept ==
    ASSUME IInv, NEW c \in Conns, NEW u \in Tasks, at[u].conn = c,
           NEW o, o.pump = sess[c].pump, sess[c].sid # None => o.sid # None,
           sess[c] = NoObject => o = NoObject, NEW r, raced \subseteq r
    PROVE  /\ Keeps(u, at[u], o, proc[c], r)
           /\ at[u].pc = "accepted" /\ c \notin r => WillEnd(c, proc[c], pipe[c], settling, at)
<1>1. Busy(u, c)
  BY DEF IInv
<1> QED BY <1>1 DEF Busy, Keeps
\* What a live or a past connection keeps for the next step.
LEMMA AsBefore ==
    ASSUME IInv, NEW c \in Conns
    PROVE  /\ Types /\ sess[c] \in Object /\ proc[c] \in Process /\ pipe[c] \in Seq(Frame)
           /\ debt[c] \in Int
           /\ Fits(c, proc[c], sess[c], pipe[c], debt[c], known)
           /\ Ordered(proc[c], pipe[c])
           /\ \A u \in Tasks : SlotsOf(c, u, proc[c].inbox, pipe[c], at[u])
           /\ Strays(proc[c].inbox, pipe[c]) => c \in slipped
           /\ \A z \in Sids : c \in shown[z] /\ c \notin raced =>
                 TurnEnds(c, z, sess[c], proc[c], pipe[c], settling, at)
           /\ sess[c].pump /\ proc[c].asking => c \in asks \/ Asked(pipe[c])
           /\ sess[c].pump /\ Alive(c) /\ c \notin slipped =>
                 Balance(sess[c], proc[c], pipe[c], debt[c], FailedAt(c))
BY DEF IInv, Types, Local

LEMMA SendFailsStep ==
    ASSUME IInv, NEW t \in Tasks, SendFails(t)
    PROVE  IInv'
<1>1. at[t] \in Frames /\ at[t].pc = "failed" /\ at[t].conn # None
  BY DEF IInv, Types, SendFails
<1>2. PICK c \in Conns : c = at[t].conn
  BY <1>1 DEF Frames
<1>3. PICK n \in Nat : n = Unexpect(sess[c].expected)
  BY AsBefore DEF Unexpect, Object
<1> DEFINE o == [sess[c] EXCEPT !.expected = n]
<1>4. /\ Types /\ sess[c] \in Object /\ pipe[c] \in Seq(Frame) /\ debt[c] \in Int
      /\ Fits(c, proc[c], sess[c], pipe[c], debt[c], known)
      /\ sess[c].sid # None
  BY <1>1, <1>2, AsBefore DEF IInv, Busy, Keeps
<1>5. /\ o \in Object /\ o.open = sess[c].open /\ o.pump = sess[c].pump /\ o.turn = sess[c].turn
      /\ o.busy = sess[c].busy /\ o.sid = sess[c].sid /\ o.expected = n
  BY <1>4 DEF Object
<1>6. /\ sess' = [sess EXCEPT ![c] = o] /\ at' = [at EXCEPT ![t] = Idle]
      /\ slipped' = IF sess[c].expected = 0 \/ ~sess[c].open THEN slipped \union {c} ELSE slipped
      /\ proc' = proc /\ deeds' = deeds /\ known' = known /\ pipe' = pipe /\ debt' = debt
      /\ asks' = asks /\ sessions' = sessions /\ displaced' = displaced
      /\ settling' = settling /\ shown' = shown /\ raced' = raced
  BY <1>2, <1>3, <1>4 DEF SendFails, Types, registry, turns
<1> HIDE DEF o
<1>7. Idle \in Frames /\ Idle.pc = "idle" /\ Idle.conn = None
  BY DEF Idle, Frames
<1>8. /\ at' \in [Tasks -> Frames]
      /\ \A u \in Tasks : at'[u].conn = None <=> at'[u].pc = "idle"
      /\ at'[t] = Idle /\ \A u \in Tasks : u # t => at'[u] = at[u]
      /\ \A u \in Tasks : at'[u] = at[u] \/ {at[u].conn, at'[u].conn} \subseteq {c, None}
      /\ SpawnedOnce'
  BY <1>2, <1>6, <1>7, OneTask
<1>9. /\ pipe' = [pipe EXCEPT ![c] = pipe[c]] /\ debt' = [debt EXCEPT ![c] = debt[c]]
      /\ slipped \subseteq slipped' /\ slipped' \subseteq Conns
  BY <1>4, <1>6 DEF Types
<1>10. Changes(c, o, pipe[c], debt[c])
  BY <1>4, <1>5, <1>6, <1>8, <1>9 DEF Changes, Types
<1>11. Remains(c, o, pipe[c], debt[c])
  <2>1. sess[c] # NoObject
    BY <1>4 DEF NoObject
  <2> QED BY <1>4, <1>5, <2>1 DEF Remains, Fits
<1>12. ServedIsRegistered'
  <2>1. \A d \in Conns : sess'[d].pump => sess[d].pump /\ sess'[d].sid = sess[d].sid
    BY <1>4, <1>5, <1>6 DEF Types
  <2> QED BY <1>6, <2>1, RegistryStays DEF IInv
<1>19. Due(c, settling, at) => Due(c, settling', at')
  <2>1. \A u \in Tasks : at[u].pc = "local" => at'[u] = at[u]
    BY <1>1, <1>8
  <2> QED BY <1>6, <2>1, DueStays
<1>13. ASSUME NEW u \in Tasks PROVE SlotsOf(c, u, proc[c].inbox, pipe[c], at'[u])
  <2>1. SlotsOf(c, u, proc[c].inbox, pipe[c], at[u])
    BY AsBefore
  <2>2. ~Waits(at[t], c)
    BY <1>1 DEF Waits, Waiting
  <2> QED BY <1>8, <2>1, <2>2, SlotsOfNobody
<1>14. Strays(proc[c].inbox, pipe[c]) => c \in slipped'
  BY <1>9, AsBefore
<1>15. ASSUME NEW z \in Sids, c \in shown'[z] /\ c \notin raced'
       PROVE  TurnEnds(c, z, o, proc[c], pipe[c], settling', at')
  <2>1. TurnEnds(c, z, sess[c], proc[c], pipe[c], settling, at)
    BY <1>6, <1>15, AsBefore
  <2> QED BY <1>5, <1>19, <2>1 DEF TurnEnds, WillEnd
<1>16. o.pump /\ proc[c].asking => c \in asks' \/ Asked(pipe[c])
  BY <1>5, <1>6, AsBefore
<1>17. o.pump /\ Alive(c) /\ c \notin slipped' => Balance(o, proc[c], pipe[c], debt[c], FailedAt(c)')
  <2> SUFFICES ASSUME o.pump, Alive(c), c \notin slipped'
               PROVE  Balance(o, proc[c], pipe[c], debt[c], FailedAt(c)')
    OBVIOUS
  <2>1. Balance(sess[c], proc[c], pipe[c], debt[c], FailedAt(c))
    BY <1>5, <1>9, AsBefore
  <2>2. sess[c].expected # 0 /\ sess[c].expected \in Nat
    BY <1>4, <1>6 DEF Object
  <2>3. at[t] = [pc |-> "failed", conn |-> c] /\ Idle # [pc |-> "failed", conn |-> c]
    BY <1>1, <1>2 DEF Idle, Frames
  <2>4. /\ FailedAt(c) \in Nat /\ FailedAt(c)' \in Nat /\ FailedAt(c) = FailedAt(c)' + 1
    BY <1>4, <1>6, <2>3, FailedChange
  <2>5. Ours(pipe[c]) \in Nat
    <3>1. <<"echo">> \in Frame
      BY DEF Frame, Plain
    <3> QED BY <1>4, <3>1, OursLonger
  <2>6. proc[c].inbox \in Seq(Tasks \union {None})
    BY AsBefore DEF Process
  <2>7. PICK e \in Nat, d \in Int, m \in Nat, l \in Nat, k \in Nat :
           /\ e = sess[c].expected /\ d = debt[c] /\ m = Ours(pipe[c])
           /\ l = Len(proc[c].inbox) /\ k = FailedAt(c)'
    BY <1>4, <2>2, <2>4, <2>5, <2>6
  <2>8. d >= 0 /\ e + d = m + l + (k + 1) /\ e > 0
    BY <2>1, <2>2, <2>4, <2>7 DEF Balance
  <2>9. n = e - 1
    BY <1>3, <2>7, <2>8 DEF Unexpect
  <2>10. n + d = m + l + k
    BY <2>8, <2>9
  <2> QED BY <1>5, <2>7, <2>8, <2>10 DEF Balance
<1>18. ASSUME NEW u \in Tasks, at'[u].conn = c
       PROVE  /\ Keeps(u, at'[u], o, proc[c], raced')
              /\ at'[u].pc = "accepted" /\ c \notin raced' => WillEnd(c, proc[c], pipe[c], settling', at')
  <2>1. u # t
    BY <1>7, <1>8, <1>18, PiAssumption
  <2>2. at'[u] = at[u] /\ at[u].conn = c
    BY <1>8, <1>18, <2>1
  <2>3. sess[c] # NoObject
    BY <1>4 DEF NoObject
  <2>4. PICK r : r = raced'
    OBVIOUS
  <2>5. raced \subseteq r
    BY <1>6, <2>4
  <2>6. /\ Keeps(u, at[u], o, proc[c], r)
        /\ at[u].pc = "accepted" /\ c \notin r => WillEnd(c, proc[c], pipe[c], settling, at)
    BY <1>5, <2>2, <2>3, <2>5, StillKept
  <2> QED BY <1>19, <2>2, <2>4, <2>6 DEF WillEnd
<1> QED BY <1>10, <1>11, <1>12, <1>8, <1>13, <1>14, <1>15, <1>16, <1>17, <1>18, AsBefore, ObjectStep
\* The turn of c is announced in the session of its object.
LEMMA Announces ==
    ASSUME IInv, NEW c \in Conns, sess[c].sid \in Sids, Announce(c)
    PROVE  /\ shown' \in [Sids -> SUBSET Conns]
           /\ \A z \in Sids : c \in shown'[z] => z = sess[c].sid \/ c \in shown[z]
           /\ \A e \in Conns, z \in Sids : e # c /\ e \in shown'[z] => e \in shown[z]
<1>1. shown \in [Sids -> SUBSET Conns]
  BY DEF IInv, Types
<1>2. shown' \in [Sids -> SUBSET Conns]
  BY <1>1 DEF Announce
<1>3. \A z \in Sids : shown'[z] = IF z = sess[c].sid THEN shown[z] \union {c} ELSE shown[z]
  BY <1>1 DEF Announce
<1> QED BY <1>2, <1>3

LEMMA SentStep ==
    ASSUME IInv, NEW t \in Tasks, Sent(t)
    PROVE  IInv'
<1>1. at[t] \in Frames /\ at[t].pc \in Answered /\ at[t].conn # None
  BY DEF IInv, Types, Sent, Answered
<1>2. PICK c \in Conns : c = at[t].conn
  BY <1>1 DEF Frames
<1>3. /\ Types /\ sess[c] \in Object /\ pipe[c] \in Seq(Frame) /\ debt[c] \in Int
      /\ Fits(c, proc[c], sess[c], pipe[c], debt[c], known)
      /\ sess[c].sid \in Sids /\ Busy(t, c)
  BY <1>1, <1>2, AsBefore DEF IInv, Busy, Keeps, Answered, Object
<1>4. PICK o : o = IF sess[c].turn THEN sess[c] ELSE [sess[c] EXCEPT !.turn = TRUE, !.busy = TRUE]
  OBVIOUS
<1>5. /\ o \in Object /\ o.open = sess[c].open /\ o.pump = sess[c].pump /\ o.turn = TRUE
      /\ o.busy = TRUE /\ o.sid = sess[c].sid /\ o.expected = sess[c].expected
  BY <1>3, <1>4 DEF Object, Fits
<1>6. /\ sess' = [sess EXCEPT ![c] = o] /\ at' = [at EXCEPT ![t] = Idle]
      /\ settling' = IF at[t].pc = "local" THEN [settling EXCEPT ![c] = @ + 1] ELSE settling
      /\ proc' = proc /\ deeds' = deeds /\ known' = known /\ pipe' = pipe /\ debt' = debt
      /\ asks' = asks /\ sessions' = sessions /\ displaced' = displaced
      /\ slipped' = slipped /\ raced' = raced
  <2>1. sess' = [sess EXCEPT ![c] = o]
    BY <1>2, <1>3, <1>4 DEF Sent, Opened, Types
  <2> QED BY <1>2, <2>1 DEF Sent, Schedule, registry
<1>7. /\ shown' \in [Sids -> SUBSET Conns]
      /\ \A z \in Sids : c \in shown'[z] => z = sess[c].sid \/ c \in shown[z]
      /\ \A e \in Conns, z \in Sids : e # c /\ e \in shown'[z] => e \in shown[z]
  <2>1. shown' = shown \/ Announce(c)
    BY <1>2 DEF Sent
  <2> QED BY <1>3, <2>1, Announces DEF Types
<1>8. Idle \in Frames /\ Idle.pc = "idle" /\ Idle.conn = None
  BY DEF Idle, Frames
<1>9. /\ at' \in [Tasks -> Frames]
      /\ \A u \in Tasks : at'[u].conn = None <=> at'[u].pc = "idle"
      /\ at'[t] = Idle /\ \A u \in Tasks : u # t => at'[u] = at[u]
      /\ \A u \in Tasks : at'[u] = at[u] \/ {at[u].conn, at'[u].conn} \subseteq {c, None}
      /\ SpawnedOnce'
  BY <1>2, <1>6, <1>8, OneTask
<1>20. /\ settling' \in [Conns -> Nat] /\ \A d \in Conns : d # c => settling'[d] = settling[d]
       /\ settling'[c] = IF at[t].pc = "local" THEN settling[c] + 1 ELSE settling[c]
  <2>1. settling \in [Conns -> Nat]
    BY <1>3 DEF Types
  <2>2. settling[c] + 1 \in Nat
    BY <2>1
  <2> QED BY <1>6, <2>1, <2>2
<1>21. /\ at[t].pc = "local" => settling'[c] > 0
       /\ Due(c, settling, at) => Due(c, settling', at')
  <2>1. settling[c] \in Nat
    BY <1>3 DEF Types
  <2>2. CASE at[t].pc = "local"
    <3>1. settling'[c] > 0
      BY <1>20, <2>1, <2>2
    <3> QED BY <3>1 DEF Due
  <2>3. CASE at[t].pc # "local"
    <3>1. \A u \in Tasks : at[u].pc = "local" => at'[u] = at[u]
      BY <1>9, <2>3
    <3>2. settling[c] > 0 => settling'[c] > 0
      BY <1>20, <2>3
    <3> QED BY <2>3, <3>1, <3>2, DueStays
  <2> QED BY <2>2, <2>3
<1>10. Changes(c, o, pipe[c], debt[c])
  <2>1. pipe' = [pipe EXCEPT ![c] = pipe[c]] /\ debt' = [debt EXCEPT ![c] = debt[c]]
    BY <1>3, <1>6 DEF Types
  <2> QED BY <1>3, <1>5, <1>6, <1>7, <1>9, <1>20, <2>1 DEF Changes, Types
<1>11. sess[c] # NoObject
  BY <1>3, PiAssumption DEF NoObject
<1>12. Remains(c, o, pipe[c], debt[c])
  BY <1>5, <1>11 DEF Remains
<1>13. ServedIsRegistered'
  <2>1. \A d \in Conns : sess'[d].pump => sess[d].pump /\ sess'[d].sid = sess[d].sid
    BY <1>3, <1>5, <1>6 DEF Types
  <2> QED BY <1>6, <2>1, RegistryStays DEF IInv
<1>14. ASSUME NEW u \in Tasks PROVE SlotsOf(c, u, proc[c].inbox, pipe[c], at'[u])
  <2>1. SlotsOf(c, u, proc[c].inbox, pipe[c], at[u])
    BY AsBefore
  <2>2. ~Waits(at[t], c)
    BY <1>1 DEF Waits, Waiting, Answered
  <2> QED BY <1>9, <2>1, <2>2, SlotsOfNobody
<1>15. Strays(proc[c].inbox, pipe[c]) => c \in slipped'
  BY <1>6, AsBefore
<1>16. ASSUME NEW z \in Sids, c \in shown'[z] /\ c \notin raced'
       PROVE  TurnEnds(c, z, o, proc[c], pipe[c], settling', at')
  <2>1. z = sess[c].sid
    BY <1>6, <1>7, <1>16, AsBefore DEF TurnEnds
  <2>2. o.pump
    BY <1>1, <1>2, <1>3, <1>5, <1>6, <1>16 DEF Busy, Keeps
  <2>3. WillEnd(c, proc[c], pipe[c], settling', at')
    <3>1. CASE at[t].pc = "local"
      BY <1>21, <3>1 DEF WillEnd, Due
    <3>2. CASE at[t].pc = "accepted"
      BY <1>3, <1>6, <1>16, <1>21, <3>2 DEF Busy, WillEnd
    <3> QED BY <1>1, <3>1, <3>2 DEF Answered
  <2> QED BY <1>5, <2>1, <2>2, <2>3 DEF TurnEnds
<1>17. o.pump /\ proc[c].asking => c \in asks' \/ Asked(pipe[c])
  BY <1>5, <1>6, AsBefore
<1>18. o.pump /\ Alive(c) /\ c \notin slipped' => Balance(o, proc[c], pipe[c], debt[c], FailedAt(c)')
  <2>1. FailedAt(c)' = FailedAt(c)
    <3>1. at[t] # [pc |-> "failed", conn |-> c] /\ Idle # [pc |-> "failed", conn |-> c]
      BY <1>1, <1>8 DEF Answered
    <3> QED BY <1>3, <1>6, <3>1, FailedChange
  <2>2. sess[c].pump /\ Alive(c) /\ c \notin slipped =>
          Balance(sess[c], proc[c], pipe[c], debt[c], FailedAt(c))
    BY AsBefore
  <2> QED BY <1>5, <1>6, <2>1, <2>2 DEF Balance
<1>19. ASSUME NEW u \in Tasks, at'[u].conn = c
       PROVE  /\ Keeps(u, at'[u], o, proc[c], raced')
              /\ at'[u].pc = "accepted" /\ c \notin raced' => WillEnd(c, proc[c], pipe[c], settling', at')
  <2>1. u # t
    BY <1>8, <1>9, <1>19, PiAssumption
  <2>2. at'[u] = at[u] /\ at[u].conn = c
    BY <1>9, <1>19, <2>1
  <2>3. /\ Keeps(u, at[u], o, proc[c], raced)
        /\ at[u].pc = "accepted" /\ c \notin raced => WillEnd(c, proc[c], pipe[c], settling, at)
    BY <1>5, <1>11, <2>2, StillKept
  <2> QED BY <1>6, <1>21, <2>2, <2>3 DEF WillEnd
<1> QED BY <1>10, <1>12, <1>13, <1>9, <1>14, <1>15, <1>16, <1>17, <1>18, <1>19, AsBefore, ObjectStep

LEMMA SettleTaskStep ==
    ASSUME IInv, NEW c \in Conns, SettleTask(c)
    PROVE  IInv'
<1> DEFINE o == [sess[c] EXCEPT !.busy = FALSE, !.turn = FALSE]
<1>1. /\ Types /\ sess[c] \in Object /\ pipe[c] \in Seq(Frame) /\ debt[c] \in Int
      /\ Fits(c, proc[c], sess[c], pipe[c], debt[c], known)
  BY AsBefore
<1>2. /\ o \in Object /\ o.open = sess[c].open /\ o.pump = sess[c].pump /\ o.turn = FALSE
      /\ o.sid = sess[c].sid /\ o.expected = sess[c].expected
      /\ sess[c] = NoObject => o = NoObject
  <2>1. /\ o \in Object /\ o.open = sess[c].open /\ o.pump = sess[c].pump /\ o.turn = FALSE
        /\ o.sid = sess[c].sid /\ o.expected = sess[c].expected
    BY <1>1 DEF Object
  <2>2. [NoObject EXCEPT !.busy = FALSE] = NoObject /\ [NoObject EXCEPT !.turn = FALSE] = NoObject
    <3>1. NoObject.busy = FALSE /\ NoObject.turn = FALSE
      BY DEF NoObject
    <3>2. NoObject = [i \in DOMAIN NoObject |-> NoObject[i]]
      BY DEF NoObject
    <3>3. [NoObject EXCEPT !.busy = FALSE] = NoObject
      BY <3>1, <3>2, Zenon
    <3>4. [NoObject EXCEPT !.turn = FALSE] = NoObject
      BY <3>1, <3>2, Zenon
    <3> QED BY <3>3, <3>4
  <2>3. sess[c] = NoObject => o = NoObject
    <3> SUFFICES ASSUME sess[c] = NoObject PROVE o = NoObject
      OBVIOUS
    <3>1. o = [[NoObject EXCEPT !.busy = FALSE] EXCEPT !.turn = FALSE]
      OBVIOUS
    <3> QED BY <2>2, <3>1
  <2> QED BY <2>1, <2>3
<1>3. /\ sess' = [sess EXCEPT ![c] = o] /\ EndTurn(c) /\ settling' = [settling EXCEPT ![c] = @ - 1]
      /\ raced' = raced \union Behind(c) \union {x \in {c} : proc[c].run}
      /\ proc' = proc /\ deeds' = deeds /\ known' = known /\ pipe' = pipe /\ debt' = debt
      /\ asks' = asks /\ sessions' = sessions /\ displaced' = displaced
      /\ slipped' = slipped /\ at' = at
  <2>1. sess' = [sess EXCEPT ![c] = o]
    BY <1>1 DEF SettleTask, Settled, Types
  <2> QED BY <2>1 DEF SettleTask, registry
<1> HIDE DEF o
<1>4. /\ shown' \in [Sids -> SUBSET Conns]
      /\ \A z \in Sids : c \in shown'[z] => c \in raced
      /\ \A z \in Sids, d \in Conns : d # c /\ d \in shown'[z] => d \in shown[z]
  BY <1>3, EndsTurn
<1>5. raced \subseteq raced' /\ raced' \subseteq Conns
  BY <1>1, <1>3 DEF Types, Behind
<1>6. Changes(c, o, pipe[c], debt[c])
  <2>1. pipe' = [pipe EXCEPT ![c] = pipe[c]] /\ debt' = [debt EXCEPT ![c] = debt[c]]
    BY <1>1, <1>3 DEF Types
  <2>2. settling \in [Conns -> Nat] /\ settling[c] > 0
    BY <1>1 DEF SettleTask, Types
  <2>3. settling[c] - 1 \in Nat
    BY <2>2
  <2>4. settling' \in [Conns -> Nat] /\ \A d \in Conns : d # c => settling'[d] = settling[d]
    BY <1>3, <2>2, <2>3
  <2> QED BY <1>1, <1>2, <1>3, <1>4, <1>5, <2>1, <2>4 DEF Changes, Types
<1>7. Remains(c, o, pipe[c], debt[c])
  BY <1>1, <1>2 DEF Remains, Fits
<1>8. ServedIsRegistered' /\ SpawnedOnce'
  <2>1. \A d \in Conns : sess'[d].pump => sess[d].pump /\ sess'[d].sid = sess[d].sid
    BY <1>1, <1>2, <1>3 DEF Types
  <2>2. ServedIsRegistered'
    BY <1>3, <2>1, RegistryStays DEF IInv
  <2>3. SpawnedOnce'
    BY <1>3, SpawningStays DEF IInv
  <2> QED BY <2>2, <2>3
<1>9. /\ \A u \in Tasks : SlotsOf(c, u, proc[c].inbox, pipe[c], at'[u])
      /\ Strays(proc[c].inbox, pipe[c]) => c \in slipped'
      /\ o.pump /\ proc[c].asking => c \in asks' \/ Asked(pipe[c])
  BY <1>2, <1>3, AsBefore
<1>10. \A z \in Sids : c \in shown'[z] /\ c \notin raced' =>
         TurnEnds(c, z, o, proc[c], pipe[c], settling', at')
  BY <1>4, <1>5
<1>11. o.pump /\ Alive(c) /\ c \notin slipped' => Balance(o, proc[c], pipe[c], debt[c], FailedAt(c)')
  <2>1. FailedAt(c)' = FailedAt(c)
    BY <1>3 DEF FailedAt
  <2>2. sess[c].pump /\ Alive(c) /\ c \notin slipped =>
          Balance(sess[c], proc[c], pipe[c], debt[c], FailedAt(c))
    BY AsBefore
  <2> QED BY <1>2, <1>3, <2>1, <2>2 DEF Balance
<1>12. ASSUME NEW u \in Tasks, at'[u].conn = c
       PROVE  /\ Keeps(u, at'[u], o, proc[c], raced')
              /\ at'[u].pc = "accepted" /\ c \notin raced' => WillEnd(c, proc[c], pipe[c], settling', at')
  <2>1. at'[u] = at[u] /\ at[u].conn = c
    BY <1>3, <1>12
  <2>2. PICK r : r = raced'
    OBVIOUS
  <2>3. raced \subseteq r
    BY <1>5, <2>2
  <2>4. Keeps(u, at[u], o, proc[c], r)
    BY <1>2, <2>1, <2>3, StillKept
  <2>5. at[u].pc = "accepted" => c \in raced'
    BY <1>3, <2>1 DEF Behind, Answered
  <2> QED BY <2>1, <2>2, <2>4, <2>5
<1> QED BY <1>6, <1>7, <1>8, <1>9, <1>10, <1>11, <1>12, AsBefore, ObjectStep

LEMMA ResolveStep ==
    ASSUME IInv, NEW c \in Conns, Resolve(c)
    PROVE  IInv'
<1>1. /\ Types /\ sess[c] \in Object /\ proc[c] \in Process
      /\ Fits(c, proc[c], sess[c], pipe[c], debt[c], known)
  BY AsBefore
<1>2. PICK p : p = IF Alive(c) /\ sess[c].open THEN [proc[c] EXCEPT !.asking = FALSE] ELSE proc[c]
  OBVIOUS
<1>3. /\ p \in Process /\ p.kind = proc[c].kind /\ p.file = proc[c].file /\ p.run = proc[c].run
      /\ p.inbox = proc[c].inbox /\ (p.asking => proc[c].asking)
  BY <1>1, <1>2 DEF Process
<1>4. sess[c].pump => ~p.asking
  <2>1. sess[c].open = sess[c].pump /\ (proc[c].asking => Alive(c))
    BY <1>1 DEF Fits, Alive
  <2>2. Alive(c) /\ sess[c].open => p.asking = FALSE
    BY <1>1, <1>2 DEF Process
  <2> QED BY <1>3, <2>1, <2>2
<1>5. /\ proc' = [proc EXCEPT ![c] = p] /\ asks' = asks \ {c}
      /\ deeds' = deeds /\ pipe' = pipe /\ sess' = sess /\ at' = at /\ slipped' = slipped
      /\ sessions' = sessions /\ known' = known /\ displaced' = displaced
      /\ settling' = settling /\ shown' = shown /\ debt' = debt /\ raced' = raced
  <2>1. proc' = [proc EXCEPT ![c] = p]
    BY <1>1, <1>2 DEF Resolve, Change, Types
  <2> QED BY <2>1 DEF Resolve, registry, turns
<1>6. proc'[c] = p /\ \A d \in Conns : d # c => proc'[d] = proc[d]
  BY <1>1, <1>5 DEF Types
<1>7. Types'
  BY <1>1, <1>3, <1>5 DEF Types
<1>8. OnlyAt(c)
  BY <1>5, <1>6 DEF OnlyAt
<1>9. ServedIsRegistered' /\ SpawnedOnce'
  <2>1. ServedIsRegistered'
    BY <1>5 DEF IInv, ServedIsRegistered
  <2> QED BY <1>5, <2>1, SpawningStays DEF IInv
<1>10. Local(c)'
  <2>1. Fits(c, p, sess[c], pipe[c], debt[c], known)
    BY <1>1, <1>3 DEF Fits
  <2>2. Ordered(p, pipe[c])
    BY <1>3, AsBefore DEF Ordered, Over
  <2>3. ASSUME NEW z \in Sids, c \in shown[z], c \notin raced
        PROVE  TurnEnds(c, z, sess[c], p, pipe[c], settling, at)
    <3>1. TurnEnds(c, z, sess[c], proc[c], pipe[c], settling, at)
      BY <2>3, AsBefore
    <3> QED BY <1>3, <3>1 DEF TurnEnds, WillEnd, Coming, Over
  <2>4. sess[c].pump /\ p.kind \in {"tui", "rpc"} /\ c \notin slipped =>
          Balance(sess[c], p, pipe[c], debt[c], FailedAt(c))
    BY <1>3, AsBefore DEF Balance, Alive
  <2>5. FailedAt(c)' = FailedAt(c)
    BY <1>5 DEF FailedAt
  <2>6. /\ \A u \in Tasks : SlotsOf(c, u, p.inbox, pipe[c], at[u])
        /\ Strays(p.inbox, pipe[c]) => c \in slipped
    BY <1>3, AsBefore
  <2> QED BY <1>4, <1>5, <1>6, <2>1, <2>2, <2>3, <2>4, <2>5, <2>6 DEF Local, Alive
<1>11. ASSUME NEW u \in Tasks, at'[u].conn = c PROVE Busy(u, c)'
  <2>1. Busy(u, c)
    BY <1>5, <1>11 DEF IInv
  <2> QED BY <1>3, <1>5, <1>6, <2>1 DEF Busy, Keeps, WillEnd, Coming, Over
<1> QED BY <1>7, <1>8, <1>9, <1>10, <1>11, OneStep

\* The answers to a task that has given up will find nobody.
LEMMA Forgotten ==
    ASSUME NEW t \in Tasks, NEW q \in Seq(Frame)
    PROVE  /\ Forget(t, q) \in Seq(Frame) /\ Len(Forget(t, q)) = Len(q)
           /\ DOMAIN Forget(t, q) = DOMAIN q
           /\ \A i \in DOMAIN q : /\ Forget(t, q)[i][1] = q[i][1]
                                  /\ q[i][1] # "late" /\ ~IsFor(q[i], t) => Forget(t, q)[i] = q[i]
                                  /\ \A u \in Tasks : u # t =>
                                        (Forget(t, q)[i] = <<"late", u>> <=> q[i] = <<"late", u>>)
                                  /\ Heard(q, i) => Forget(t, q)[i] = q[i]
                                  /\ \A u \in Tasks : IsFor(Forget(t, q)[i], u) => u # t /\ IsFor(q[i], u)
<1> DEFINE r == Forget(t, q)
           Lost(i) ==
               \/ q[i] \in {<<"ok", t>>, <<"no", t>>, <<"local", t>>}
               \/ q[i] = <<"late", t>> /\ \E j \in DOMAIN q : j < i /\ q[j] = <<"ok", t>>
<1>1. /\ DOMAIN q = 1..Len(q) /\ Len(q) \in Nat /\ \A i \in DOMAIN q : q[i] \in Frame
  OBVIOUS
<1>2. r = [i \in 1..Len(q) |-> IF Lost(i) THEN <<q[i][1], None>> ELSE q[i]]
  BY <1>1 DEF Forget
<1>3. ASSUME NEW i \in DOMAIN q
      PROVE  /\ r[i] \in Frame /\ r[i][1] = q[i][1]
             /\ q[i][1] # "late" /\ ~IsFor(q[i], t) => r[i] = q[i]
             /\ \A u \in Tasks : u # t => (r[i] = <<"late", u>> <=> q[i] = <<"late", u>>)
             /\ Heard(q, i) => r[i] = q[i]
             /\ \A u \in Tasks : IsFor(r[i], u) => u # t /\ IsFor(q[i], u)
  <2>1. t # None /\ None \notin Tasks
    BY DEF Tasks, None
  <2>2. CASE Lost(i)
    <3>1. q[i] \in {<<"ok", t>>, <<"no", t>>, <<"local", t>>, <<"late", t>>} /\ r[i] = <<q[i][1], None>>
      BY <1>2, <1>1, <2>2
    <3>2. /\ q[i][1] \in Replies \union {"late"} /\ q[i][2] = t /\ r[i][1] = q[i][1] /\ r[i][2] = None
          /\ q[i][1] # "late" => IsFor(q[i], t)
      BY <3>1 DEF Replies, IsFor
    <3>3. <<q[i][1], None>> \in Frame
      BY <3>2 DEF Frame
    <3>4. ~Heard(q, i)
      BY <2>2, <3>2 DEF Heard
    <3>5. \A u \in Tasks : u # t => r[i] # <<"late", u>> /\ q[i] # <<"late", u>>
      BY <2>1, <3>1
    <3> QED BY <2>1, <3>1, <3>2, <3>3, <3>4, <3>5 DEF IsFor
  <2>3. CASE ~Lost(i)
    <3>1. r[i] = q[i] /\ q[i] \in Frame
      BY <1>1, <1>2, <2>3
    <3>2. q[i][1] \in Replies => q[i] = <<q[i][1], q[i][2]>>
      BY <3>1 DEF Frame, Replies, Plain
    <3>3. ~IsFor(q[i], t)
      BY <2>3, <3>2 DEF IsFor, Replies
    <3> QED BY <3>1, <3>3
  <2> QED BY <2>2, <2>3
<1> HIDE DEF Lost
<1>4. r \in Seq(Frame) /\ Len(r) = Len(q) /\ DOMAIN r = DOMAIN q
  <2>1. r \in [1..Len(q) -> Frame]
    BY <1>1, <1>2, <1>3
  <2> HIDE DEF r
  <2>2. r \in Seq(Frame)
    BY <1>1, <2>1 DEF Seq
  <2> QED BY <1>1, <2>1, <2>2
<1> QED BY <1>3, <1>4

LEMMA TimesOutStep ==
    ASSUME IInv, NEW t \in Tasks, TimesOut(t)
    PROVE  IInv'
<1>1. at[t] \in Frames /\ at[t].pc \in Waiting /\ at[t].conn # None
  BY DEF IInv, Types, TimesOut, Waiting
<1>2. PICK c \in Conns : c = at[t].conn
  BY <1>1 DEF Frames
<1> DEFINE b == proc[c].inbox
           e == [i \in DOMAIN b |-> IF b[i] = t THEN None ELSE b[i]]
           p == [proc[c] EXCEPT !.inbox = e]
           q == pipe[c]
           r == Forget(t, q)
           f == [at[t] EXCEPT !.pc = "failed"]
<1>3. /\ Types /\ sess[c] \in Object /\ proc[c] \in Process /\ q \in Seq(Frame)
      /\ Fits(c, proc[c], sess[c], pipe[c], debt[c], known)
      /\ sess[c].pump /\ sess[c].sid # None /\ b \in Seq(Tasks \union {None})
  BY <1>1, <1>2, AsBefore DEF IInv, Busy, Keeps, Process, Waiting
<1>4. sess[c] # NoObject
  BY <1>3 DEF NoObject
<1>5. /\ e \in Seq(Tasks \union {None}) /\ DOMAIN e = DOMAIN b /\ (b = << >> => e = << >>)
      /\ \A u \in Tasks, i \in DOMAIN b : e[i] = u => u # t /\ b[i] = u
  <2>1. DOMAIN b = 1..Len(b) /\ Len(b) \in Nat /\ \A i \in DOMAIN b : b[i] \in Tasks \union {None}
    BY <1>3
  <2>2. e \in [1..Len(b) -> Tasks \union {None}]
    BY <2>1
  <2>3. e \in Seq(Tasks \union {None})
    BY <2>1, <2>2 DEF Seq
  <2>4. \A u \in Tasks, i \in DOMAIN b : e[i] = u => u # t /\ b[i] = u
    BY DEF Tasks, None
  <2>5. b = << >> => e = << >>
    BY <2>1, <2>2
  <2> QED BY <2>1, <2>2, <2>3, <2>4, <2>5
<1>6. /\ p \in Process /\ p.kind = proc[c].kind /\ p.file = proc[c].file /\ p.run = proc[c].run
      /\ p.asking = proc[c].asking /\ p.inbox = e
  <2> HIDE DEF e
  <2> QED BY <1>3, <1>5 DEF Process
<1>7. /\ r \in Seq(Frame) /\ Len(r) = Len(q) /\ DOMAIN r = DOMAIN q
      /\ \A i \in DOMAIN q : /\ r[i][1] = q[i][1]
                             /\ q[i][1] # "late" /\ ~IsFor(q[i], t) => r[i] = q[i]
                             /\ \A u \in Tasks : u # t =>
                                   (r[i] = <<"late", u>> <=> q[i] = <<"late", u>>)
                             /\ Heard(q, i) => r[i] = q[i]
                             /\ \A u \in Tasks : IsFor(r[i], u) => u # t /\ IsFor(q[i], u)
  BY <1>3, Forgotten
<1>8. f \in Frames /\ f.pc = "failed" /\ f.conn = c
  BY <1>1, <1>2 DEF Frames
<1>9. /\ proc' = [proc EXCEPT ![c] = p] /\ pipe' = [pipe EXCEPT ![c] = r]
      /\ at' = [at EXCEPT ![t] = f] /\ slipped' = slipped \union {c}
      /\ deeds' = deeds /\ sess' = sess /\ asks' = asks
      /\ sessions' = sessions /\ known' = known /\ displaced' = displaced
      /\ settling' = settling /\ shown' = shown /\ debt' = debt /\ raced' = raced
  <2>1. at' = [at EXCEPT ![t] = f]
    BY <1>3 DEF TimesOut, Types
  <2>2. proc' = [proc EXCEPT ![c] = p]
    BY <1>2 DEF TimesOut, Change
  <2>3. pipe' = [pipe EXCEPT ![c] = r]
    BY <1>2, <1>3 DEF TimesOut, Types
  <2> QED BY <1>2, <2>1, <2>2, <2>3 DEF TimesOut, registry, turns
<1> HIDE DEF e, p, r, f
<1>10. /\ proc'[c] = p /\ pipe'[c] = r
       /\ \A d \in Conns : d # c => proc'[d] = proc[d] /\ pipe'[d] = pipe[d]
  BY <1>3, <1>9 DEF Types
<1>11. /\ at' \in [Tasks -> Frames]
       /\ \A u \in Tasks : at'[u].conn = None <=> at'[u].pc = "idle"
       /\ at'[t] = f /\ \A u \in Tasks : u # t => at'[u] = at[u]
       /\ \A u \in Tasks : at'[u] = at[u] \/ {at[u].conn, at'[u].conn} \subseteq {c, None}
       /\ SpawnedOnce'
  <2>1. (f.conn = None <=> f.pc = "idle") /\ f.pc # "spawning"
    BY <1>8, PiAssumption
  <2>2. {at[t].conn, f.conn} \subseteq {c, None}
    BY <1>2, <1>8
  <2> QED BY <1>8, <1>9, <2>1, <2>2, OneTask
<1>12. Types'
  BY <1>3, <1>6, <1>7, <1>9, <1>11 DEF Types
<1>13. OnlyAt(c)
  BY <1>9, <1>10, <1>11 DEF OnlyAt
<1>14. ServedIsRegistered'
  BY <1>9 DEF IInv, ServedIsRegistered
<1>15. ASSUME NEW n \in Nat, Over(proc[c], q, n) PROVE Over(p, r, n)
  BY <1>6, <1>7, <1>15 DEF Over
<1>18. ASSUME NEW i \in DOMAIN r, NEW u \in Tasks, r[i] = <<"ok", u>>
       PROVE  u # t /\ q[i] = <<"ok", u>>
  <2>1. IsFor(r[i], u)
    BY <1>18 DEF IsFor, Replies
  <2>2. /\ i \in DOMAIN q /\ r[i][1] = q[i][1] /\ r[i][1] = "ok"
        /\ u # t /\ IsFor(q[i], u)
    BY <1>7, <1>18, <2>1
  <2>3. q[i] \in Frame
    <3> HIDE DEF q
    <3> QED BY <1>3, <2>2
  <2>4. q[i] = <<q[i][1], q[i][2]>>
    <3> HIDE DEF q
    <3> QED BY <2>2, <2>3, FrameKinds DEF Replies
  <2> QED BY <2>2, <2>4 DEF IsFor
<1>19. Coming(proc[c], q) => Coming(p, r)
  <2>1. ASSUME NEW i \in DOMAIN q, Heard(q, i) PROVE i \in DOMAIN r /\ Heard(r, i)
    <3>1. /\ r[i] = q[i] /\ i \in DOMAIN r /\ q[i][1] = "late" /\ q[i][2] # None
      BY <1>7, <2>1 DEF Heard
    <3>2. q[i][2] \in Tasks
      <4> HIDE DEF q
      <4>1. q[i] \in Frame
        BY <1>3
      <4> QED BY <3>1, <4>1, FrameKinds DEF Replies
    <3>3. \A j \in DOMAIN r : j < i => r[j] # <<"ok", r[i][2]>>
      <4>1. ASSUME NEW j \in DOMAIN r, j < i, r[j] = <<"ok", r[i][2]>> PROVE FALSE
        <5>1. j \in DOMAIN q /\ q[j] = <<"ok", q[i][2]>>
          BY <1>7, <1>18, <3>1, <3>2, <4>1
        <5> QED BY <2>1, <4>1, <5>1 DEF Heard
      <4> QED BY <4>1
    <3> QED BY <3>1, <3>3 DEF Heard
  <2> QED BY <1>15, <2>1 DEF Coming
<1>20. Due(c, settling, at) => Due(c, settling', at')
  <2>1. \A u \in Tasks : at[u].pc = "local" => at'[u] = at[u]
    BY <1>1, <1>11 DEF Waiting
  <2> QED BY <1>9, <2>1, DueStays
<1>16. Local(c)'
  <2>1. Fits(c, p, sess[c], r, debt[c], known)
    BY <1>3, <1>4, <1>5, <1>6 DEF Fits
  <2>2. Ordered(p, r)
    <3>1. Ordered(proc[c], q) /\ DOMAIN q = 1..Len(q)
      BY <1>3, AsBefore
    <3>2. ASSUME NEW i \in DOMAIN r, r[i][1] \in Begins PROVE Over(p, r, i)
      <4>1. i \in DOMAIN q /\ i \in Nat /\ q[i][1] \in Begins
        BY <1>7, <3>1, <3>2
      <4> QED BY <1>15, <3>1, <4>1 DEF Ordered
    <3>3. ASSUME NEW i \in DOMAIN r, NEW u \in Tasks, r[i] = <<"ok", u>>
          PROVE  Over(p, r, i) \/ \E j \in DOMAIN r : j > i /\ r[j] = <<"late", u>>
      <4>1. u # t /\ i \in DOMAIN q /\ q[i] = <<"ok", u>> /\ i \in Nat
        BY <1>7, <1>18, <3>1, <3>3
      <4>2. Over(proc[c], q, i) \/ \E j \in DOMAIN q : j > i /\ q[j] = <<"late", u>>
        BY <3>1, <4>1 DEF Ordered
      <4> QED BY <1>7, <1>15, <4>1, <4>2
    <3>4. \A i \in DOMAIN r : r[i][1] = "eof" => i = Len(r) /\ p.kind = "gone"
      BY <1>6, <1>7, <3>1 DEF Ordered
    <3> QED BY <3>2, <3>3, <3>4 DEF Ordered
  <2>3. ASSUME NEW u \in Tasks PROVE SlotsOf(c, u, e, r, at'[u])
    <3>1. SlotsOf(c, u, b, q, at[u])
      BY AsBefore
    <3>2. CASE u = t
      <4>1. (\A i \in DOMAIN e : e[i] # u) /\ (\A i \in DOMAIN r : ~IsFor(r[i], u))
        BY <1>5, <1>7, <3>2
      <4> QED BY <4>1 DEF SlotsOf
    <3>3. CASE u # t
      <4>1. \A i \in DOMAIN e : e[i] = u => i \in DOMAIN b /\ b[i] = u
        BY <1>5
      <4>2. \A i \in DOMAIN r : IsFor(r[i], u) => i \in DOMAIN q /\ IsFor(q[i], u) /\ r[i][1] = q[i][1]
        BY <1>7
      <4> HIDE DEF b, q
      <4>3. SlotsOf(c, u, e, r, at[u])
        BY <3>1, <4>1, <4>2 DEF SlotsOf
      <4> QED BY <1>11, <3>3, <4>3
    <3> QED BY <3>2, <3>3
  <2>4. c \in slipped'
    BY <1>9
  <2>5. ASSUME NEW z \in Sids, c \in shown[z], c \notin raced
        PROVE  TurnEnds(c, z, sess[c], p, r, settling', at')
    <3>1. TurnEnds(c, z, sess[c], proc[c], q, settling, at)
      BY <2>5, AsBefore
    <3> QED BY <1>19, <1>20, <3>1 DEF TurnEnds, WillEnd
  <2>6. p.asking => c \in asks \/ Asked(r)
    <3>1. ASSUME Asked(q) PROVE Asked(r)
      <4>1. PICK i \in DOMAIN q : q[i] = <<"ask">>
        BY <3>1 DEF Asked
      <4>2. ~IsFor(q[i], t) /\ q[i][1] # "late"
        BY <4>1 DEF IsFor, Replies
      <4> QED BY <1>7, <4>1, <4>2 DEF Asked
    <3> QED BY <1>3, <1>6, <3>1, AsBefore
  <2> QED BY <1>6, <1>9, <1>10, <2>1, <2>2, <2>3, <2>4, <2>5, <2>6 DEF Local
<1>17. ASSUME NEW u \in Tasks, at'[u].conn = c PROVE Busy(u, c)'
  <2>1. CASE u = t
    <3>1. Keeps(u, f, sess[c], p, raced)
      BY <1>3, <1>8 DEF Keeps, Waiting, Answered
    <3> QED BY <1>8, <1>9, <1>10, <1>11, <2>1, <3>1 DEF Busy
  <2>2. CASE u # t
    <3>1. at'[u] = at[u] /\ Busy(u, c)
      BY <1>11, <1>17, <2>2 DEF IInv
    <3>2. Keeps(u, at[u], sess[c], p, raced)
      BY <1>6, <3>1 DEF Busy, Keeps
    <3>3. at[u].pc = "accepted" /\ c \notin raced => WillEnd(c, p, r, settling', at')
      BY <1>19, <1>20, <3>1 DEF Busy, WillEnd
    <3> QED BY <1>9, <1>10, <3>1, <3>2, <3>3 DEF Busy
  <2> QED BY <2>1, <2>2
<1> QED BY <1>11, <1>12, <1>13, <1>14, <1>16, <1>17, OneStep
-----------------------------------------------------------------------------
(* The pump                                                                *)

\* What is still so when the first frame of the pipe has been read.
LEMMA Consumed ==
    ASSUME IInv, NEW c \in Conns, pipe[c] # << >>
    PROVE  /\ Tail(pipe[c]) \in Seq(Frame)
           /\ Ordered(proc[c], Tail(pipe[c]))
           /\ \A u \in Tasks : SlotsOf(c, u, proc[c].inbox, Tail(pipe[c]), at[u])
           /\ Strays(proc[c].inbox, Tail(pipe[c])) => c \in slipped
           /\ Asked(pipe[c]) => Head(pipe[c]) = <<"ask">> \/ Asked(Tail(pipe[c]))
<1> DEFINE q == pipe[c]
           r == Tail(q)
<1>1. /\ q \in Seq(Frame) /\ Ordered(proc[c], q)
      /\ \A u \in Tasks : SlotsOf(c, u, proc[c].inbox, q, at[u])
      /\ Strays(proc[c].inbox, q) => c \in slipped
  BY AsBefore
<1>2. /\ r \in Seq(Frame) /\ Len(q) \in Nat \ {0} /\ DOMAIN q = 1..Len(q)
      /\ DOMAIN r = 1..Len(q)-1 /\ \A i \in 1..Len(q)-1 : r[i] = q[i+1]
      /\ Head(q) = q[1]
  BY <1>1, Shorter
<1>3. Ordered(proc[c], r)
  BY <1>1, OrderedShorter
<1>4. \A u \in Tasks : SlotsOf(c, u, proc[c].inbox, r, at[u])
  BY <1>1, SlotsShorter
<1> HIDE DEF q, r
<1>5. ASSUME Strays(proc[c].inbox, r) PROVE Strays(proc[c].inbox, q)
  <2>1. \A i \in DOMAIN r : i+1 \in DOMAIN q /\ r[i] = q[i+1]
    BY <1>2
  <2> QED BY <1>5, <2>1 DEF Strays
<1>6. ASSUME Asked(q) PROVE Head(q) = <<"ask">> \/ Asked(r)
  <2>1. PICK i \in DOMAIN q : q[i] = <<"ask">>
    BY <1>6 DEF Asked
  <2>2. CASE i = 1
    BY <1>2, <2>1, <2>2
  <2>3. CASE i # 1
    <3>1. i-1 \in DOMAIN r /\ r[i-1] = q[i]
      BY <1>2, <2>3
    <3> QED BY <2>1, <3>1 DEF Asked
  <2> QED BY <2>2, <2>3
<1> QED BY <1>1, <1>2, <1>3, <1>4, <1>5, <1>6 DEF q, r

\* A frame that is read, and with which no turn ends.
Quiet(g) == g[1] \notin Closes /\ (g[1] = "late" => g[2] = None)

LEMMA PumpStep ==
    ASSUME IInv, NEW c \in Conns, NEW o, NEW d, pipe[c] # << >>,
           Changes(c, o, Tail(pipe[c]), d), Remains(c, o, Tail(pipe[c]), d),
           at' = at, ServedIsRegistered',
           Head(pipe[c]) = <<"ask">> => c \in asks',
           \/ Quiet(Head(pipe[c])) /\ settling' = settling
           \/ settling'[c] > 0
           \/ Behind(c) \subseteq raced',
           \A z \in Sids : c \in shown'[z] /\ c \notin raced' =>
               TurnEnds(c, z, o, proc[c], Tail(pipe[c]), settling', at'),
           o.pump /\ Alive(c) /\ c \notin slipped' =>
               Balance(o, proc[c], Tail(pipe[c]), d, FailedAt(c))
    PROVE  IInv'
<1>1. /\ Tail(pipe[c]) \in Seq(Frame)
      /\ Ordered(proc[c], Tail(pipe[c]))
      /\ \A u \in Tasks : SlotsOf(c, u, proc[c].inbox, Tail(pipe[c]), at'[u])
      /\ Strays(proc[c].inbox, Tail(pipe[c])) => c \in slipped'
  <2>1. slipped \subseteq slipped'
    BY DEF Changes
  <2> QED BY <2>1, Consumed
<1>2. ASSUME o.pump, proc[c].asking PROVE c \in asks' \/ Asked(Tail(pipe[c]))
  <2>1. c \in asks \/ Asked(pipe[c])
    BY <1>2, AsBefore DEF Remains
  <2>2. asks \subseteq asks'
    BY DEF Changes
  <2> QED BY <2>1, <2>2, Consumed
<1>3. SpawnedOnce'
  BY SpawningStays DEF IInv
<1>4. FailedAt(c)' = FailedAt(c)
  BY DEF FailedAt
<1>5. ASSUME NEW u \in Tasks, at'[u].conn = c
      PROVE  /\ Keeps(u, at'[u], o, proc[c], raced')
             /\ at'[u].pc = "accepted" /\ c \notin raced'
                  => WillEnd(c, proc[c], Tail(pipe[c]), settling', at')
  <2>1. PICK r : r = raced'
    OBVIOUS
  <2>2. raced \subseteq r
    BY <2>1 DEF Changes
  <2>3. at[u].conn = c
    BY <1>5
  <2>4. o.pump = sess[c].pump /\ (sess[c].sid # None => o.sid # None) /\ (sess[c] = NoObject => o = NoObject)
    BY DEF Remains
  <2>5. /\ Keeps(u, at[u], o, proc[c], r)
        /\ at[u].pc = "accepted" /\ c \notin r => WillEnd(c, proc[c], pipe[c], settling, at)
    BY <2>2, <2>3, <2>4, StillKept
  <2>6. ASSUME at[u].pc = "accepted", c \notin r
        PROVE  WillEnd(c, proc[c], Tail(pipe[c]), settling', at')
    <3>1. CASE Quiet(Head(pipe[c])) /\ settling' = settling
      <4>1. Coming(proc[c], pipe[c]) => Coming(proc[c], Tail(pipe[c]))
        BY <3>1, OrderedShorter, AsBefore DEF Quiet
      <4> QED BY <2>5, <2>6, <3>1, <4>1 DEF WillEnd
    <3>2. CASE settling'[c] > 0
      BY <3>2 DEF WillEnd, Due
    <3>3. CASE Behind(c) \subseteq raced'
      BY <2>1, <2>3, <2>6, <3>3 DEF Behind, Answered
    <3> QED BY <3>1, <3>2, <3>3
  <2> QED BY <2>1, <2>5, <2>6
<1> QED BY <1>1, <1>2, <1>3, <1>4, <1>5, ObjectStep
\* A connection whose pump has a frame to read.
LEMMA Reads ==
    ASSUME IInv, NEW c \in Conns, sess[c].pump, pipe[c] # << >>
    PROVE  /\ Types /\ sess[c] \in Object /\ pipe[c] \in Seq(Frame) /\ debt[c] \in Int
           /\ sess[c].open /\ (sess[c].turn => sess[c].busy)
           /\ sess[c].sid \in Sids /\ sess[c] # NoObject
           /\ Head(pipe[c]) \in Frame /\ Tail(pipe[c]) \in Seq(Frame)
<1>1. /\ Types /\ sess[c] \in Object /\ pipe[c] \in Seq(Frame) /\ debt[c] \in Int
      /\ Fits(c, proc[c], sess[c], pipe[c], debt[c], known)
  BY AsBefore
<1>2. sess[c].open /\ (sess[c].turn => sess[c].busy) /\ sess[c].sid \in Sids
  BY <1>1 DEF Fits, Object
<1>3. sess[c] # NoObject
  BY DEF NoObject
<1>4. Head(pipe[c]) \in Frame /\ Tail(pipe[c]) \in Seq(Frame)
  BY <1>1, Shorter
<1> QED BY <1>1, <1>2, <1>3, <1>4

\* A turn that is shown ends later than the first frame, unless that is its end.
LEMMA StillEnds ==
    ASSUME IInv, NEW c \in Conns, pipe[c] # << >>, Quiet(Head(pipe[c])),
           NEW z \in Sids, c \in shown[z], c \notin raced,
           NEW o, o.sid = sess[c].sid, o.pump = sess[c].pump, sess[c].turn => o.turn
    PROVE  TurnEnds(c, z, o, proc[c], Tail(pipe[c]), settling, at)
<1>1. TurnEnds(c, z, sess[c], proc[c], pipe[c], settling, at)
  BY AsBefore
<1>2. Coming(proc[c], pipe[c]) => Coming(proc[c], Tail(pipe[c]))
  BY OrderedShorter, AsBefore DEF Quiet
<1> QED BY <1>1, <1>2 DEF TurnEnds, WillEnd

\* The first frame is read: what is expected and owed falls by the prompt of
\* ours that it ends.
Paid(c) == IF Head(pipe[c])[1] \in {"echo", "no"} THEN 1 ELSE 0

LEMMA OursType ==
    ASSUME NEW q \in Seq(Frame)
    PROVE  Ours(q) \in Nat
<1>1. <<"echo">> \in Frame
  BY DEF Frame, Plain
<1> QED BY <1>1, OursLonger

LEMMA FailedType ==
    ASSUME Types, NEW c \in Conns
    PROVE  FailedAt(c) \in Nat
<1>1. IsFiniteSet(Tasks)
  BY TasksFinite
<1>2. {t \in Tasks : at[t] = [pc |-> "failed", conn |-> c]} \in SUBSET Tasks
  OBVIOUS
<1>3. IsFiniteSet({t \in Tasks : at[t] = [pc |-> "failed", conn |-> c]})
  BY <1>1, <1>2, FS_Subset
<1> QED BY <1>3, FS_CardinalityType DEF FailedAt

LEMMA Balanced ==
    ASSUME IInv, NEW c \in Conns, sess[c].pump, pipe[c] # << >>, Alive(c), c \notin slipped
    PROVE  /\ sess[c].expected \in Nat /\ debt[c] \in Nat
           /\ sess[c].expected + debt[c] >= Paid(c)
           /\ sess[c].expected + debt[c] - Paid(c)
                = Ours(Tail(pipe[c])) + Len(proc[c].inbox) + FailedAt(c)
<1>1. Balance(sess[c], proc[c], pipe[c], debt[c], FailedAt(c))
  BY AsBefore
<1>2. /\ pipe[c] \in Seq(Frame) /\ Tail(pipe[c]) \in Seq(Frame) /\ debt[c] \in Int
      /\ sess[c].expected \in Nat /\ proc[c].inbox \in Seq(Tasks \union {None}) /\ Types
  BY Reads, AsBefore DEF Object, Process
<1>3. Ours(pipe[c]) = Ours(Tail(pipe[c])) + Paid(c)
  <2>1. Ours(Tail(pipe[c])) \in Nat
    BY <1>2, OursType
  <2> QED BY <1>2, <2>1, OursShorter DEF Paid
<1>4. PICK e \in Nat, g \in Int, m \in Nat, l \in Nat, k \in Nat, a \in Nat :
         /\ e = sess[c].expected /\ g = debt[c] /\ m = Ours(Tail(pipe[c]))
         /\ l = Len(proc[c].inbox) /\ k = FailedAt(c) /\ a = Paid(c)
  <2>1. Paid(c) \in Nat /\ Len(proc[c].inbox) \in Nat
    BY <1>2 DEF Paid
  <2>2. Ours(Tail(pipe[c])) \in Nat /\ FailedAt(c) \in Nat
    BY <1>2, OursType, FailedType
  <2> QED BY <1>2, <2>1, <2>2
<1>5. g >= 0 /\ e + g = (m + a) + l + k
  BY <1>1, <1>3, <1>4 DEF Balance
<1>6. e + g - a = m + l + k /\ e + g >= a
  BY <1>5
<1> QED BY <1>4, <1>5, <1>6

\* The same object and debt, or others with the same sum.
LEMMA StillBalanced ==
    ASSUME IInv, NEW c \in Conns, sess[c].pump, pipe[c] # << >>, Alive(c), c \notin slipped,
           NEW n \in Nat, NEW d \in Nat, NEW o, o.expected = n,
           n + d = sess[c].expected + debt[c] - Paid(c)
    PROVE  Balance(o, proc[c], Tail(pipe[c]), d, FailedAt(c))
<1>1. n + d = Ours(Tail(pipe[c])) + Len(proc[c].inbox) + FailedAt(c)
  BY Balanced
<1> QED BY <1>1 DEF Balance

LEMMA UserMessageStep ==
    ASSUME IInv, NEW c \in Conns, UserMessage(c)
    PROVE  IInv'
<1>1. /\ sess[c].pump /\ pipe[c] # << >> /\ Head(pipe[c])[1] \in {"typed", "echo"}
      /\ pipe' = [pipe EXCEPT ![c] = Tail(pipe[c])]
      /\ proc' = proc /\ deeds' = deeds /\ asks' = asks /\ at' = at /\ slipped' = slipped
      /\ sessions' = sessions /\ known' = known /\ displaced' = displaced
      /\ settling' = settling /\ raced' = raced
  BY DEF UserMessage, Next1, Consume, registry, Types, IInv
<1>2. /\ Types /\ sess[c] \in Object /\ debt[c] \in Int /\ sess[c].sid \in Sids
      /\ sess[c] # NoObject /\ Head(pipe[c]) \in Frame /\ Tail(pipe[c]) \in Seq(Frame)
      /\ (sess[c].turn => sess[c].busy)
  BY <1>1, Reads
<1>3. PICK k \in {0, 1} : k = IF Head(pipe[c]) = <<"typed">> THEN 1 ELSE 0
  OBVIOUS
<1>4. Paid(c) = 1 - k
  <2>1. Head(pipe[c]) = <<"typed">> <=> Head(pipe[c])[1] = "typed"
    BY <1>2, FrameKinds DEF Plain
  <2> QED BY <1>1, <1>3, <2>1 DEF Paid
<1>5. PICK n \in Nat : n = IF Expects(c) THEN sess[c].expected - 1 ELSE sess[c].expected
  BY <1>2 DEF Expects, Object
<1>6. PICK d \in Int : d = IF Expects(c) THEN debt[c] + k ELSE debt[c] + k - 1
  BY <1>2, <1>3
<1>7. PICK o : o = IF Expects(c) THEN [sess[c] EXCEPT !.expected = n]
                   ELSE [sess[c] EXCEPT !.turn = TRUE, !.busy = TRUE]
  OBVIOUS
<1>8. /\ o \in Object /\ o.open = sess[c].open /\ o.pump = sess[c].pump /\ o.sid = sess[c].sid
      /\ o.expected = n /\ (sess[c].turn => o.turn) /\ (o.turn => o.busy)
      /\ ~Expects(c) => o.turn
  <2>1. CASE Expects(c)
    <3>1. o = [sess[c] EXCEPT !.expected = n]
      BY <1>7, <2>1
    <3> QED BY <1>2, <2>1, <3>1 DEF Object
  <2>2. CASE ~Expects(c)
    <3>1. o = [sess[c] EXCEPT !.turn = TRUE, !.busy = TRUE] /\ n = sess[c].expected
      BY <1>5, <1>7, <2>2
    <3> QED BY <1>2, <2>2, <3>1 DEF Object
  <2> QED BY <2>1, <2>2
<1>9. /\ sess' = [sess EXCEPT ![c] = o] /\ debt' = [debt EXCEPT ![c] = d]
      /\ IF Expects(c) THEN shown' = shown ELSE Announce(c)
  <2>1. CASE Expects(c)
    <3>1. sess' = [sess EXCEPT ![c] = o]
      BY <1>2, <1>5, <1>7, <2>1 DEF UserMessage, Types
    <3>2. debt' = [debt EXCEPT ![c] = d]
      BY <1>2, <1>3, <1>6, <2>1 DEF UserMessage, Types
    <3> QED BY <2>1, <3>1, <3>2 DEF UserMessage
  <2>2. CASE ~Expects(c)
    <3>1. sess' = [sess EXCEPT ![c] = o]
      BY <1>2, <1>7, <2>2 DEF UserMessage, Opened, Types
    <3>2. debt' = [debt EXCEPT ![c] = d]
      BY <1>2, <1>3, <1>6, <2>2 DEF UserMessage, Types
    <3> QED BY <2>2, <3>1, <3>2 DEF UserMessage
  <2> QED BY <2>1, <2>2
<1>10. /\ shown' \in [Sids -> SUBSET Conns]
       /\ \A z \in Sids : c \in shown'[z] => c \in shown[z] \/ (z = sess[c].sid /\ ~Expects(c))
       /\ \A e \in Conns, z \in Sids : e # c /\ e \in shown'[z] => e \in shown[z]
  <2>1. CASE Expects(c)
    BY <1>2, <1>9, <2>1 DEF Types
  <2>2. CASE ~Expects(c)
    BY <1>2, <1>9, <2>2, Announces
  <2> QED BY <2>1, <2>2
<1>11. Changes(c, o, Tail(pipe[c]), d)
  BY <1>1, <1>2, <1>8, <1>9, <1>10 DEF Changes, Types
<1>12. Remains(c, o, Tail(pipe[c]), d)
  BY <1>1, <1>2, <1>8 DEF Remains
<1>13. ServedIsRegistered'
  <2>1. \A e \in Conns : sess'[e].pump => sess[e].pump /\ sess'[e].sid = sess[e].sid
    BY <1>2, <1>8, <1>9 DEF Types
  <2> QED BY <1>1, <2>1, RegistryStays DEF IInv
<1>14. Head(pipe[c]) # <<"ask">> /\ Quiet(Head(pipe[c]))
  BY <1>1 DEF Quiet, Closes
<1>15. ASSUME NEW z \in Sids, c \in shown'[z] /\ c \notin raced'
       PROVE  TurnEnds(c, z, o, proc[c], Tail(pipe[c]), settling', at')
  <2>1. CASE c \in shown[z]
    BY <1>1, <1>8, <1>14, <1>15, <2>1, StillEnds
  <2>2. CASE z = sess[c].sid /\ ~Expects(c)
    <3>1. Coming(proc[c], Tail(pipe[c]))
      BY <1>1, AsBefore, OrderedShorter DEF Begins
    <3> QED BY <1>1, <1>8, <2>2, <3>1 DEF TurnEnds, WillEnd
  <2> QED BY <1>10, <1>15, <2>1, <2>2
<1>16. ASSUME o.pump /\ Alive(c) /\ c \notin slipped'
       PROVE  Balance(o, proc[c], Tail(pipe[c]), d, FailedAt(c))
  <2>1. /\ sess[c].expected \in Nat /\ debt[c] \in Nat
        /\ sess[c].expected + debt[c] >= Paid(c)
    BY <1>1, <1>16, Balanced
  <2>2. PICK e \in Nat, g \in Nat : e = sess[c].expected /\ g = debt[c]
    BY <2>1
  <2>3. e + g >= 1 - k /\ (Expects(c) <=> e > 0)
    BY <1>4, <2>1, <2>2 DEF Expects
  <2>4. d \in Nat /\ n + d = e + g - (1 - k)
    <3>1. CASE Expects(c)
      BY <1>5, <1>6, <2>2, <2>3, <3>1
    <3>2. CASE ~Expects(c)
      BY <1>5, <1>6, <2>2, <2>3, <3>2
    <3> QED BY <3>1, <3>2
  <2>5. n + d = sess[c].expected + debt[c] - Paid(c)
    BY <1>4, <2>2, <2>4
  <2> QED BY <1>1, <1>8, <1>16, <2>4, <2>5, StillBalanced
<1> QED BY <1>1, <1>11, <1>12, <1>13, <1>14, <1>15, <1>16, PumpStep

LEMMA ReplyStep ==
    ASSUME IInv, NEW c \in Conns, Reply(c)
    PROVE  IInv'
<1> DEFINE o == [sess[c] EXCEPT !.turn = TRUE, !.busy = TRUE]
<1>1. /\ sess[c].pump /\ pipe[c] # << >> /\ Head(pipe[c])[1] \in {"reply", "output"}
      /\ pipe' = [pipe EXCEPT ![c] = Tail(pipe[c])] /\ Announce(c)
      /\ proc' = proc /\ deeds' = deeds /\ asks' = asks /\ at' = at /\ slipped' = slipped
      /\ sessions' = sessions /\ known' = known /\ displaced' = displaced
      /\ settling' = settling /\ debt' = debt /\ raced' = raced
  BY DEF Reply, Next1, Consume, registry, Types, IInv
<1>2. /\ Types /\ sess[c] \in Object /\ debt[c] \in Int /\ sess[c].sid \in Sids
      /\ sess[c] # NoObject /\ Tail(pipe[c]) \in Seq(Frame)
  BY <1>1, Reads
<1>3. /\ o \in Object /\ o.open = sess[c].open /\ o.pump = sess[c].pump /\ o.sid = sess[c].sid
      /\ o.expected = sess[c].expected /\ o.turn = TRUE /\ o.busy = TRUE
  BY <1>2 DEF Object
<1>4. sess' = [sess EXCEPT ![c] = o] /\ debt' = [debt EXCEPT ![c] = debt[c]]
  BY <1>1, <1>2 DEF Reply, Opened, Types
<1> HIDE DEF o
<1>5. /\ shown' \in [Sids -> SUBSET Conns]
      /\ \A z \in Sids : c \in shown'[z] => z = sess[c].sid \/ c \in shown[z]
      /\ \A e \in Conns, z \in Sids : e # c /\ e \in shown'[z] => e \in shown[z]
  BY <1>1, <1>2, Announces
<1>6. Changes(c, o, Tail(pipe[c]), debt[c])
  BY <1>1, <1>2, <1>3, <1>4, <1>5 DEF Changes, Types
<1>7. Remains(c, o, Tail(pipe[c]), debt[c])
  BY <1>1, <1>2, <1>3 DEF Remains
<1>8. ServedIsRegistered'
  <2>1. \A e \in Conns : sess'[e].pump => sess[e].pump /\ sess'[e].sid = sess[e].sid
    BY <1>2, <1>3, <1>4 DEF Types
  <2> QED BY <1>1, <2>1, RegistryStays DEF IInv
<1>9. Head(pipe[c]) # <<"ask">> /\ Quiet(Head(pipe[c]))
  BY <1>1 DEF Quiet, Closes
<1>10. ASSUME NEW z \in Sids, c \in shown'[z] /\ c \notin raced'
       PROVE  TurnEnds(c, z, o, proc[c], Tail(pipe[c]), settling', at')
  <2>1. CASE c \in shown[z]
    BY <1>1, <1>3, <1>9, <1>10, <2>1, StillEnds
  <2>2. CASE z = sess[c].sid
    <3>1. Coming(proc[c], Tail(pipe[c]))
      BY <1>1, AsBefore, OrderedShorter DEF Begins
    <3> QED BY <1>1, <1>3, <2>2, <3>1 DEF TurnEnds, WillEnd
  <2> QED BY <1>5, <1>10, <2>1, <2>2
<1>11. ASSUME o.pump /\ Alive(c) /\ c \notin slipped'
       PROVE  Balance(o, proc[c], Tail(pipe[c]), debt[c], FailedAt(c))
  <2>1. sess[c].expected \in Nat /\ debt[c] \in Nat /\ Paid(c) = 0
    BY <1>1, <1>11, Balanced DEF Paid
  <2>2. sess[c].expected + debt[c] = sess[c].expected + debt[c] - Paid(c)
    BY <2>1
  <2> QED BY <1>1, <1>3, <1>11, <2>1, <2>2, StillBalanced
<1> QED BY <1>1, <1>6, <1>7, <1>8, <1>9, <1>10, <1>11, PumpStep

LEMMA StartedStep ==
    ASSUME IInv, NEW c \in Conns, Started(c)
    PROVE  IInv'
<1> DEFINE o == [sess[c] EXCEPT !.busy = TRUE]
<1>1. /\ sess[c].pump /\ pipe[c] # << >> /\ Head(pipe[c])[1] = "start"
      /\ pipe' = [pipe EXCEPT ![c] = Tail(pipe[c])]
      /\ proc' = proc /\ deeds' = deeds /\ asks' = asks /\ at' = at /\ slipped' = slipped
      /\ sessions' = sessions /\ known' = known /\ displaced' = displaced
      /\ settling' = settling /\ shown' = shown /\ debt' = debt /\ raced' = raced
  BY DEF Started, Next1, Consume, registry, turns, Types, IInv
<1>2. /\ Types /\ sess[c] \in Object /\ debt[c] \in Int /\ sess[c].sid \in Sids
      /\ sess[c] # NoObject /\ Tail(pipe[c]) \in Seq(Frame)
  BY <1>1, Reads
<1>3. /\ o \in Object /\ o.open = sess[c].open /\ o.pump = sess[c].pump /\ o.sid = sess[c].sid
      /\ o.expected = sess[c].expected /\ o.turn = sess[c].turn /\ o.busy = TRUE
  BY <1>2 DEF Object
<1>4. sess' = [sess EXCEPT ![c] = o] /\ debt' = [debt EXCEPT ![c] = debt[c]]
  BY <1>1, <1>2 DEF Started, Types
<1> HIDE DEF o
<1>5. Changes(c, o, Tail(pipe[c]), debt[c])
  BY <1>1, <1>2, <1>3, <1>4 DEF Changes, Types
<1>6. Remains(c, o, Tail(pipe[c]), debt[c])
  BY <1>1, <1>2, <1>3 DEF Remains
<1>7. ServedIsRegistered'
  <2>1. \A e \in Conns : sess'[e].pump => sess[e].pump /\ sess'[e].sid = sess[e].sid
    BY <1>2, <1>3, <1>4 DEF Types
  <2> QED BY <1>1, <2>1, RegistryStays DEF IInv
<1>8. Head(pipe[c]) # <<"ask">> /\ Quiet(Head(pipe[c]))
  BY <1>1 DEF Quiet, Closes
<1>9. ASSUME NEW z \in Sids, c \in shown'[z] /\ c \notin raced'
      PROVE  TurnEnds(c, z, o, proc[c], Tail(pipe[c]), settling', at')
  BY <1>1, <1>3, <1>8, <1>9, StillEnds
<1>10. ASSUME o.pump /\ Alive(c) /\ c \notin slipped'
       PROVE  Balance(o, proc[c], Tail(pipe[c]), debt[c], FailedAt(c))
  <2>1. sess[c].expected \in Nat /\ debt[c] \in Nat /\ Paid(c) = 0
    BY <1>1, <1>10, Balanced DEF Paid
  <2>2. sess[c].expected + debt[c] = sess[c].expected + debt[c] - Paid(c)
    BY <2>1
  <2> QED BY <1>1, <1>3, <1>10, <2>1, <2>2, StillBalanced
<1> QED BY <1>1, <1>5, <1>6, <1>7, <1>8, <1>9, <1>10, PumpStep

\* The turn is over: it failed, or it settled.
LEMMA TurnOverStep ==
    ASSUME IInv, NEW c \in Conns, sess[c].pump, pipe[c] # << >>,
           Head(pipe[c])[1] \in {"error", "settle"}, Consume(c), EndTurn(c),
           raced' = raced \union Behind(c),
           UNCHANGED <<proc, deeds, asks, at, slipped, registry, settling, debt>>,
           NEW o \in Object, o.open = sess[c].open, o.pump = sess[c].pump,
           o.sid = sess[c].sid, o.expected = sess[c].expected, ~o.turn,
           sess' = [sess EXCEPT ![c] = o]
    PROVE  IInv'
<1>1. /\ pipe' = [pipe EXCEPT ![c] = Tail(pipe[c])]
      /\ proc' = proc /\ deeds' = deeds /\ asks' = asks /\ at' = at /\ slipped' = slipped
      /\ sessions' = sessions /\ known' = known /\ displaced' = displaced
      /\ settling' = settling /\ debt' = debt
  BY DEF Consume, registry, Types, IInv
<1>2. /\ Types /\ debt[c] \in Int /\ sess[c].sid \in Sids
      /\ sess[c] # NoObject /\ Tail(pipe[c]) \in Seq(Frame)
  BY Reads
<1>3. /\ shown' \in [Sids -> SUBSET Conns]
      /\ \A z \in Sids : c \in shown'[z] => c \in raced
      /\ \A z \in Sids, e \in Conns : e # c /\ e \in shown'[z] => e \in shown[z]
  BY EndsTurn
<1>4. raced \subseteq raced' /\ raced' \subseteq Conns
  BY <1>2 DEF Types, Behind
<1>5. debt' = [debt EXCEPT ![c] = debt[c]]
  BY <1>1, <1>2 DEF Types
<1>6. Changes(c, o, Tail(pipe[c]), debt[c])
  BY <1>1, <1>2, <1>3, <1>4, <1>5 DEF Changes, Types
<1>7. Remains(c, o, Tail(pipe[c]), debt[c])
  BY <1>2 DEF Remains
<1>8. ServedIsRegistered'
  <2>1. \A e \in Conns : sess'[e].pump => sess[e].pump /\ sess'[e].sid = sess[e].sid
    BY <1>2 DEF Types
  <2> QED BY <1>1, <2>1, RegistryStays DEF IInv
<1>9. Head(pipe[c]) # <<"ask">> /\ Behind(c) \subseteq raced'
  OBVIOUS
<1>10. \A z \in Sids : c \in shown'[z] /\ c \notin raced' =>
         TurnEnds(c, z, o, proc[c], Tail(pipe[c]), settling', at')
  BY <1>3, <1>4
<1>11. ASSUME o.pump /\ Alive(c) /\ c \notin slipped'
       PROVE  Balance(o, proc[c], Tail(pipe[c]), debt[c], FailedAt(c))
  <2>1. sess[c].expected \in Nat /\ debt[c] \in Nat /\ Paid(c) = 0
    BY <1>1, <1>11, Balanced DEF Paid
  <2>2. sess[c].expected + debt[c] = sess[c].expected + debt[c] - Paid(c)
    BY <2>1
  <2> QED BY <1>1, <1>11, <2>1, <2>2, StillBalanced
<1> QED BY <1>1, <1>6, <1>7, <1>8, <1>9, <1>10, <1>11, PumpStep

LEMMA TurnEndSteps ==
    ASSUME IInv, NEW c \in Conns, TurnFails(c) \/ TurnSettles(c)
    PROVE  IInv'
<1>1. /\ sess[c].pump /\ pipe[c] # << >> /\ Head(pipe[c])[1] \in {"error", "settle"}
      /\ Consume(c) /\ EndTurn(c) /\ raced' = raced \union Behind(c)
      /\ UNCHANGED <<proc, deeds, asks, at, slipped, registry, settling, debt>>
  BY DEF TurnFails, TurnSettles, Next1
<1>2. Types /\ sess[c] \in Object
  BY AsBefore
<1>3. CASE TurnFails(c)
  <2>1. PICK b \in BOOLEAN : b = (sess[c].busy \/ ~sess[c].turn)
    OBVIOUS
  <2> DEFINE o == [sess[c] EXCEPT !.turn = FALSE, !.busy = b]
  <2>2. /\ o \in Object /\ o.open = sess[c].open /\ o.pump = sess[c].pump /\ o.sid = sess[c].sid
        /\ o.expected = sess[c].expected /\ ~o.turn
    BY <1>2 DEF Object
  <2>3. sess' = [sess EXCEPT ![c] = o]
    BY <1>2, <1>3, <2>1 DEF TurnFails, Types
  <2> HIDE DEF o
  <2> QED BY <1>1, <2>2, <2>3, TurnOverStep
<1>4. CASE TurnSettles(c)
  <2> DEFINE o == [sess[c] EXCEPT !.busy = FALSE, !.turn = FALSE]
  <2>1. /\ o \in Object /\ o.open = sess[c].open /\ o.pump = sess[c].pump /\ o.sid = sess[c].sid
        /\ o.expected = sess[c].expected /\ ~o.turn
    BY <1>2 DEF Object
  <2>2. sess' = [sess EXCEPT ![c] = o]
    BY <1>2, <1>4 DEF TurnSettles, Settled, Types
  <2> HIDE DEF o
  <2> QED BY <1>1, <2>1, <2>2, TurnOverStep
<1> QED BY <1>3, <1>4

\* A frame that leaves the object and its debt as they are; a task is to end the
\* turn, if the frame does.
LEMMA SameObjectStep ==
    ASSUME IInv, NEW c \in Conns, sess[c].pump, pipe[c] # << >>,
           Head(pipe[c])[1] \in {"ask", "session", "late", "result"}, Consume(c),
           asks \subseteq asks', asks' \subseteq Conns,
           Head(pipe[c]) = <<"ask">> => c \in asks',
           settling' \in [Conns -> Nat], \A e \in Conns : e # c => settling'[e] = settling[e],
           (Quiet(Head(pipe[c])) /\ settling' = settling) \/ settling'[c] > 0,
           UNCHANGED <<proc, deeds, sess, at, slipped, registry, shown, debt, raced>>
    PROVE  IInv'
<1>1. /\ pipe' = [pipe EXCEPT ![c] = Tail(pipe[c])]
      /\ proc' = proc /\ deeds' = deeds /\ sess' = sess /\ at' = at /\ slipped' = slipped
      /\ sessions' = sessions /\ known' = known /\ displaced' = displaced
      /\ shown' = shown /\ debt' = debt /\ raced' = raced
  BY DEF Consume, registry, Types, IInv
<1>2. /\ Types /\ sess[c] \in Object /\ debt[c] \in Int /\ sess[c].sid \in Sids
      /\ sess[c] # NoObject /\ Tail(pipe[c]) \in Seq(Frame) /\ (sess[c].turn => sess[c].busy)
  BY Reads
<1>3. sess' = [sess EXCEPT ![c] = sess[c]] /\ debt' = [debt EXCEPT ![c] = debt[c]]
  BY <1>1, <1>2 DEF Types
<1>4. Changes(c, sess[c], Tail(pipe[c]), debt[c])
  BY <1>1, <1>2, <1>3 DEF Changes, Types
<1>5. Remains(c, sess[c], Tail(pipe[c]), debt[c])
  BY <1>2 DEF Remains
<1>6. ServedIsRegistered'
  BY <1>1 DEF IInv, ServedIsRegistered
<1>7. \/ Quiet(Head(pipe[c])) /\ settling' = settling
      \/ settling'[c] > 0
      \/ Behind(c) \subseteq raced'
  OBVIOUS
<1>8. ASSUME NEW z \in Sids, c \in shown'[z] /\ c \notin raced'
      PROVE  TurnEnds(c, z, sess[c], proc[c], Tail(pipe[c]), settling', at')
  <2>1. CASE Quiet(Head(pipe[c])) /\ settling' = settling
    BY <1>1, <1>8, <2>1, StillEnds
  <2>2. CASE settling'[c] > 0
    <3>1. TurnEnds(c, z, sess[c], proc[c], pipe[c], settling, at)
      BY <1>1, <1>8, AsBefore
    <3> QED BY <2>2, <3>1 DEF TurnEnds, WillEnd, Due
  <2> QED BY <2>1, <2>2
<1>9. ASSUME sess[c].pump /\ Alive(c) /\ c \notin slipped'
      PROVE  Balance(sess[c], proc[c], Tail(pipe[c]), debt[c], FailedAt(c))
  <2>1. sess[c].expected \in Nat /\ debt[c] \in Nat /\ Paid(c) = 0
    BY <1>1, <1>9, Balanced DEF Paid
  <2>2. sess[c].expected + debt[c] = sess[c].expected + debt[c] - Paid(c)
    BY <2>1
  <2> QED BY <1>1, <1>9, <2>1, <2>2, StillBalanced
<1> QED BY <1>1, <1>4, <1>5, <1>6, <1>7, <1>8, <1>9, PumpStep

LEMMA DialogStep ==
    ASSUME IInv, NEW c \in Conns, Dialog(c)
    PROVE  IInv'
<1>1. asks \subseteq asks' /\ asks' \subseteq Conns /\ c \in asks'
  BY DEF Dialog, Kept, IInv, Types
<1>2. /\ sess[c].pump /\ pipe[c] # << >> /\ Head(pipe[c])[1] = "ask" /\ Consume(c)
      /\ UNCHANGED <<proc, deeds, sess, at, slipped, registry, shown, debt, raced>>
      /\ settling' = settling /\ Quiet(Head(pipe[c]))
  BY DEF Dialog, Next1, turns, Quiet, Closes
<1>3. settling' \in [Conns -> Nat]
  BY <1>2 DEF IInv, Types
<1> QED BY <1>1, <1>2, <1>3, SameObjectStep

LEMMA CommandEndsStep ==
    ASSUME IInv, NEW c \in Conns, CommandEnds(c)
    PROVE  IInv'
<1>1. /\ sess[c].pump /\ pipe[c] # << >> /\ Head(pipe[c])[1] \in {"late", "result"} /\ Consume(c)
      /\ UNCHANGED <<proc, deeds, sess, at, slipped, registry, shown, debt, raced>>
      /\ asks' = asks /\ asks \subseteq Conns /\ settling \in [Conns -> Nat]
      /\ Head(pipe[c]) # <<"ask">>
  BY DEF CommandEnds, Next1, IInv, Types
<1>2. CASE Head(pipe[c]) = <<"late", None>>
  <2>1. settling' = settling /\ Quiet(Head(pipe[c]))
    BY <1>2 DEF CommandEnds, Quiet, Closes
  <2> QED BY <1>1, <2>1, SameObjectStep
<1>3. CASE Head(pipe[c]) # <<"late", None>>
  <2>1. settling' = [settling EXCEPT ![c] = @ + 1]
    BY <1>3 DEF CommandEnds, Schedule
  <2>2. /\ settling' \in [Conns -> Nat] /\ settling'[c] > 0
        /\ \A e \in Conns : e # c => settling'[e] = settling[e]
    BY <1>1, <2>1
  <2> QED BY <1>1, <2>2, SameObjectStep
<1> QED BY <1>2, <1>3

LEMMA SessionChangedStep ==
    ASSUME IInv, NEW c \in Conns, SessionChanged(c)
    PROVE  IInv'
<1>1. /\ sess[c].pump /\ pipe[c] # << >> /\ Head(pipe[c])[1] = "session" /\ Consume(c)
      /\ pipe' = [pipe EXCEPT ![c] = Tail(pipe[c])]
      /\ proc' = proc /\ deeds' = deeds /\ asks' = asks /\ at' = at
      /\ known' = known /\ settling' = settling
  BY DEF SessionChanged, Next1, Consume, Types, IInv
<1>2. /\ Types /\ sess[c] \in Object /\ debt[c] \in Int /\ sess[c].sid \in Sids
      /\ sess[c] # NoObject /\ Head(pipe[c]) \in Frame /\ Tail(pipe[c]) \in Seq(Frame)
      /\ (sess[c].turn => sess[c].busy)
  BY <1>1, Reads
<1> DEFINE s == sess[c].sid
           to == Head(pipe[c])[2]
           over == {sessions[s], sessions[to]} \ {None, c}
<1>3. to \in Sids
  BY <1>1, <1>2, FrameKinds
<1>4. Head(pipe[c]) # <<"ask">> /\ Quiet(Head(pipe[c]))
  BY <1>1 DEF Quiet, Closes
<1>5. CASE s = to
  <2>1. UNCHANGED <<proc, deeds, sess, at, slipped, registry, shown, debt, raced>>
    BY <1>1, <1>5 DEF SessionChanged, registry
  <2>2. settling' \in [Conns -> Nat] /\ asks' \subseteq Conns
    BY <1>1, <1>2 DEF Types
  <2> QED BY <1>1, <1>4, <2>1, <2>2, SameObjectStep
<1>6. CASE s # to
  <2>1. PICK t2 \in BOOLEAN : t2 = IF sess[c].busy THEN FALSE ELSE sess[c].turn
    BY <1>2 DEF Object
  <2>2. PICK b2 \in BOOLEAN : b2 = IF sess[c].turn THEN FALSE ELSE sess[c].busy
    BY <1>2 DEF Object
  <2> DEFINE o == [sess[c] EXCEPT !.sid = to, !.expected = 0, !.turn = t2, !.busy = b2]
  <2>3. ~t2
    BY <1>2, <2>1
  <2>4. /\ o \in Object /\ o.open = sess[c].open /\ o.pump = sess[c].pump /\ o.sid = to
        /\ o.expected = 0 /\ ~o.turn
    BY <1>2, <1>3, <2>3 DEF Object
  <2>5. sess' = [sess EXCEPT ![c] = o]
    BY <1>2, <1>6, <2>1, <2>2 DEF SessionChanged, Types
  <2>6. /\ sessions' = [sessions EXCEPT ![s] = None, ![to] = c]
        /\ displaced' = (displaced \union over) \ {c}
        /\ EndTurn(c) /\ debt' = [debt EXCEPT ![c] = 0]
        /\ raced' = raced \union Behind(c)
        /\ slipped' = slipped \union {x \in {c} : sess[c].expected > 0 \/
                debt[c] # 0 \/ proc[c].inbox # << >> \/
                \E t \in Tasks : at[t].conn = c}
    BY <1>6 DEF SessionChanged
  <2> HIDE DEF o
  <2>7. /\ shown' \in [Sids -> SUBSET Conns]
        /\ \A z \in Sids : c \in shown'[z] => c \in raced
        /\ \A z \in Sids, e \in Conns : e # c /\ e \in shown'[z] => e \in shown[z]
    BY <2>6, EndsTurn
  <2>8. raced \subseteq raced' /\ raced' \subseteq Conns
    BY <1>2, <2>6 DEF Types, Behind
  <2>9. /\ sessions' \in [Sids -> Conns \union {None}] /\ displaced' \subseteq Conns
        /\ slipped \subseteq slipped' /\ slipped' \subseteq Conns
    BY <1>2, <1>3, <2>6 DEF Types
  <2>10. Changes(c, o, Tail(pipe[c]), 0)
    <3>1. /\ at' \in [Tasks -> Frames] /\ asks' \subseteq Conns /\ settling' \in [Conns -> Nat]
          /\ \A u \in Tasks : at'[u].conn = None <=> at'[u].pc = "idle"
      BY <1>1, <1>2 DEF Types
    <3>2. debt' = [debt EXCEPT ![c] = 0]
      BY <2>6
    <3> QED BY <1>1, <1>2, <2>4, <2>5, <2>7, <2>8, <2>9, <3>1, <3>2 DEF Changes
  <2>11. Remains(c, o, Tail(pipe[c]), 0)
    <3>1. to # None
      BY <1>3, PiAssumption
    <3> QED BY <1>1, <1>2, <2>4, <3>1 DEF Remains
  <2>12. ServedIsRegistered'
    <3>1. ASSUME NEW e \in Conns, sess'[e].pump, e \notin displaced'
          PROVE  sessions'[sess'[e].sid] = e
      <4>1. CASE e = c
        BY <1>2, <1>3, <2>4, <2>5, <2>6, <4>1 DEF Types
      <4>2. CASE e # c
        <5>1. sess'[e] = sess[e] /\ e \notin displaced /\ e \notin over
          BY <1>2, <2>5, <2>6, <3>1, <4>2 DEF Types
        <5>2. sessions[sess[e].sid] = e /\ e # None
          BY <3>1, <5>1, PiAssumption DEF IInv, ServedIsRegistered
        <5>3. sess[e].sid # s /\ sess[e].sid # to
          BY <4>2, <5>1, <5>2
        <5>4. sess[e].sid \in Sids
          BY <3>1, <5>1, AsBefore DEF Fits, Object
        <5> QED BY <1>2, <2>6, <5>1, <5>2, <5>3, <5>4 DEF Types
      <4> QED BY <4>1, <4>2
    <3> QED BY <3>1 DEF ServedIsRegistered
  <2>13. \A z \in Sids : c \in shown'[z] /\ c \notin raced' =>
           TurnEnds(c, z, o, proc[c], Tail(pipe[c]), settling', at')
    BY <2>7, <2>8
  <2>14. ASSUME o.pump /\ Alive(c) /\ c \notin slipped'
         PROVE  Balance(o, proc[c], Tail(pipe[c]), 0, FailedAt(c))
    <3>1. c \notin slipped /\ ~(sess[c].expected > 0) /\ debt[c] = 0
      BY <2>6, <2>14
    <3>2. sess[c].expected = 0 /\ Paid(c) = 0
      BY <1>1, <2>14, <3>1, Balanced DEF Paid
    <3>3. 0 + 0 = sess[c].expected + debt[c] - Paid(c)
      BY <3>1, <3>2
    <3> QED BY <1>1, <2>4, <2>14, <3>1, <3>3, StillBalanced
  <2> QED BY <1>1, <1>4, <2>10, <2>11, <2>12, <2>13, <2>14, PumpStep
<1> QED BY <1>5, <1>6
\* The answer to a task: it waits no longer, and holds no other slot.
LEMMA Answering ==
    ASSUME IInv, NEW c \in Conns, Answer(c), Head(pipe[c])[2] # None
    PROVE  LET t == Head(pipe[c])[2]
               kind == Head(pipe[c])[1] IN
           /\ t \in Tasks /\ Waits(at[t], c)
           /\ \A i \in DOMAIN Tail(pipe[c]) : ~IsFor(Tail(pipe[c])[i], t)
           /\ \A i \in DOMAIN proc[c].inbox : proc[c].inbox[i] # t
           /\ at' = [at EXCEPT ![t] = at'[t]]
           /\ kind = "no" => at'[t] = [pc |-> "failed", conn |-> c]
           /\ kind # "no" => at'[t] \in {Idle, [pc |-> "accepted", conn |-> c], [pc |-> "local", conn |-> c]}
           /\ at'[t].pc = "accepted" => kind = "ok"
           /\ kind = "local" => at'[t] = [pc |-> "local", conn |-> c]
<1> DEFINE t == Head(pipe[c])[2]
           kind == Head(pipe[c])[1]
<1>1. /\ sess[c].pump /\ pipe[c] # << >> /\ kind \in Replies
  BY DEF Answer, Next1, Replies
<1>2. Types /\ pipe[c] \in Seq(Frame) /\ Head(pipe[c]) \in Frame
  BY <1>1, Reads
<1>3. t \in Tasks
  BY <1>1, <1>2, FrameKinds
<1>4. /\ Waits(at[t], c) /\ (kind = "local" => at[t].pc = "prompt")
      /\ \A i \in DOMAIN Tail(pipe[c]) : ~IsFor(Tail(pipe[c])[i], t)
      /\ \A i \in DOMAIN proc[c].inbox : proc[c].inbox[i] # t
  <2>1. SlotsOf(c, t, proc[c].inbox, pipe[c], at[t])
    BY <1>3, AsBefore
  <2>2. IsFor(Head(pipe[c]), t)
    BY <1>1 DEF IsFor
  <2> HIDE DEF t
  <2>3. PICK q : q = pipe[c]
    OBVIOUS
  <2>4. q \in Seq(Frame) /\ q # << >> /\ SlotsOf(c, t, proc[c].inbox, q, at[t]) /\ IsFor(Head(q), t)
    BY <1>1, <1>2, <2>1, <2>2, <2>3
  <2>5. /\ Waits(at[t], c)
        /\ \A i \in DOMAIN Tail(q) : ~IsFor(Tail(q)[i], t)
        /\ \A i \in DOMAIN proc[c].inbox : proc[c].inbox[i] # t
    BY <2>4, SlotsShorter
  <2>6. Head(q)[1] = "local" => at[t].pc = "prompt"
    BY <2>4, OnlyPromptsAreLocal
  <2> QED BY <2>3, <2>5, <2>6
<1>5. at[t] \in Frames /\ at \in [Tasks -> Frames] /\ at[t].conn = c /\ at[t].pc \in {"prompt", "steer"}
  BY <1>2, <1>3, <1>4 DEF Types, Waits, Waiting
<1> HIDE DEF t, kind
<1>6. PICK w : w = CASE kind = "no" -> "failed"
                     [] kind # "no" /\ at[t].pc = "steer" -> "idle"
                     [] kind = "ok" /\ at[t].pc = "prompt" -> "accepted"
                     [] kind = "local" /\ at[t].pc = "prompt" -> "local"
  OBVIOUS
<1>7. PICK d : d = IF kind # "no" /\ at[t].pc = "steer" THEN None ELSE at[t].conn
  OBVIOUS
<1>8. at' = [at EXCEPT ![t].pc = w, ![t].conn = d]
  BY <1>3, <1>5, <1>6, <1>7 DEF Answer, t, kind
<1>9. at'[t] = [pc |-> w, conn |-> d] /\ at' = [at EXCEPT ![t] = at'[t]]
  BY <1>3, <1>5, <1>8 DEF Frames
<1>10. CASE kind = "no"
  <2>1. w = "failed" /\ d = c
    BY <1>5, <1>6, <1>7, <1>10
  <2> QED BY <1>3, <1>4, <1>9, <1>10, <2>1 DEF t, kind
<1>11. CASE kind # "no" /\ at[t].pc = "steer"
  <2>1. w = "idle" /\ d = None /\ kind # "local"
    BY <1>4, <1>5, <1>6, <1>7, <1>11
  <2> QED BY <1>3, <1>4, <1>9, <1>11, <2>1 DEF t, kind, Idle
<1>12. CASE kind = "ok" /\ at[t].pc = "prompt"
  <2>1. w = "accepted" /\ d = c
    BY <1>5, <1>6, <1>7, <1>12
  <2> QED BY <1>3, <1>4, <1>9, <1>12, <2>1 DEF t, kind
<1>13. CASE kind = "local" /\ at[t].pc = "prompt"
  <2>1. w = "local" /\ d = c
    BY <1>5, <1>6, <1>7, <1>13
  <2> QED BY <1>3, <1>4, <1>9, <1>13, <2>1 DEF t, kind
<1> QED BY <1>1, <1>5, <1>10, <1>11, <1>12, <1>13 DEF Replies

LEMMA AnswerStep ==
    ASSUME IInv, NEW c \in Conns, Answer(c)
    PROVE  IInv'
<1> DEFINE o == sess[c]
           q == pipe[c]
           t == Head(q)[2]
           kind == Head(q)[1]
<1>1. /\ o.pump /\ q # << >> /\ kind \in Replies
      /\ pipe' = [pipe EXCEPT ![c] = Tail(q)]
      /\ proc' = proc /\ deeds' = deeds /\ sess' = sess /\ asks' = asks /\ slipped' = slipped
      /\ sessions' = sessions /\ known' = known /\ displaced' = displaced
      /\ settling' = settling /\ shown' = shown /\ debt' = debt
      /\ raced' = raced \union {x \in {c} : kind = "local" /\ t = None}
  BY DEF Answer, Next1, Consume, Replies, registry, Types, IInv
<1>2. /\ Types /\ o \in Object /\ debt[c] \in Int /\ o.sid \in Sids
      /\ o # NoObject /\ Head(q) \in Frame /\ Tail(q) \in Seq(Frame) /\ (o.turn => o.busy)
  BY <1>1, Reads
<1>3. sess' = [sess EXCEPT ![c] = o] /\ debt' = [debt EXCEPT ![c] = debt[c]]
  BY <1>1, <1>2 DEF Types
<1>4. Remains(c, o, Tail(q), debt[c])
  BY <1>1, <1>2 DEF Remains
<1>5. ServedIsRegistered'
  BY <1>1 DEF IInv, ServedIsRegistered
<1>6. Head(q) # <<"ask">> /\ (kind # "local" => Quiet(Head(q)))
      /\ raced \subseteq raced' /\ raced' \subseteq Conns
  BY <1>1, <1>2 DEF Quiet, Closes, Replies, Types
<1>8. CASE t = None
  <2>1. at' = at
    BY <1>8 DEF Answer
  <2>4. ASSUME NEW z \in Sids, c \in shown'[z] /\ c \notin raced'
        PROVE  TurnEnds(c, z, o, proc[c], Tail(q), settling', at')
    <3>1. kind # "local"
      BY <1>1, <1>8, <2>4
    <3> QED BY <1>1, <1>6, <2>1, <2>4, <3>1, StillEnds
  <2>5. (Quiet(Head(q)) /\ settling' = settling) \/ Behind(c) \subseteq raced'
    BY <1>1, <1>6, <1>8 DEF Behind
  <2>2. Changes(c, o, Tail(q), debt[c])
    BY <1>1, <1>2, <1>3, <1>6, <2>1 DEF Changes, Types
  <2>3. c \in slipped
    <3>1. IsFor(Head(q), None) /\ Head(q) = q[1] /\ 1 \in DOMAIN q
      BY <1>1, <1>8, AsBefore, Shorter DEF IsFor
    <3> QED BY <3>1, AsBefore DEF Strays
  <2> QED BY <1>1, <1>4, <1>5, <1>6, <2>1, <2>2, <2>3, <2>4, <2>5, PumpStep
<1>9. CASE t # None
  <2>1. PICK f : f = at'[t]
    OBVIOUS
  <2>2. /\ t \in Tasks /\ Waits(at[t], c)
        /\ \A i \in DOMAIN Tail(q) : ~IsFor(Tail(q)[i], t)
        /\ \A i \in DOMAIN proc[c].inbox : proc[c].inbox[i] # t
        /\ at' = [at EXCEPT ![t] = f]
        /\ kind = "no" => f = [pc |-> "failed", conn |-> c]
        /\ kind # "no" => f \in {Idle, [pc |-> "accepted", conn |-> c], [pc |-> "local", conn |-> c]}
        /\ f.pc = "accepted" => kind = "ok"
        /\ kind = "local" => f = [pc |-> "local", conn |-> c]
    BY <1>9, <2>1, Answering
  <2>3. /\ f \in Frames /\ (f.conn = None <=> f.pc = "idle") /\ f.pc # "spawning"
        /\ f.conn \in {c, None} /\ f.pc \notin Waiting /\ f.pc # "closing"
    BY <2>2, PiAssumption DEF Frames, Idle, Waiting, Answered
  <2>12. raced' = raced
    BY <1>1, <1>9
  <2> HIDE DEF t, kind
  <2>4. at[t].conn = c /\ at[t].pc \in Waiting
    BY <2>2 DEF Waits
  <2>5. /\ at' \in [Tasks -> Frames]
        /\ \A u \in Tasks : at'[u].conn = None <=> at'[u].pc = "idle"
        /\ at'[t] = f /\ \A u \in Tasks : u # t => at'[u] = at[u]
        /\ \A u \in Tasks : at'[u] = at[u] \/ {at[u].conn, at'[u].conn} \subseteq {c, None}
        /\ SpawnedOnce'
    <3>1. {at[t].conn, f.conn} \subseteq {c, None}
      BY <2>3, <2>4
    <3> QED BY <2>2, <2>3, <3>1, OneTask
  <2>6. Changes(c, o, Tail(q), debt[c])
    BY <1>1, <1>2, <1>3, <1>6, <2>5 DEF Changes, Types
  <2>13. ASSUME kind # "local" PROVE Due(c, settling, at) => Due(c, settling', at')
    <3>1. \A u \in Tasks : at[u].pc = "local" => at'[u] = at[u]
      BY <2>4, <2>5 DEF Waiting
    <3> QED BY <1>1, <3>1, DueStays
  <2>14. ASSUME kind = "local" PROVE Due(c, settling', at')
    BY <2>2, <2>5, <2>14 DEF Due
  <2>15. ASSUME NEW z \in Sids, c \in shown'[z] /\ c \notin raced'
         PROVE  TurnEnds(c, z, o, proc[c], Tail(q), settling', at')
    <3>1. CASE kind = "local"
      <4>1. TurnEnds(c, z, o, proc[c], q, settling, at)
        BY <1>1, <2>12, <2>15, AsBefore
      <4> QED BY <2>14, <3>1, <4>1 DEF TurnEnds, WillEnd
    <3>2. CASE kind # "local"
      <4>1. TurnEnds(c, z, o, proc[c], Tail(q), settling, at)
        BY <1>1, <1>6, <2>12, <2>15, <3>2, StillEnds
      <4> QED BY <2>13, <3>2, <4>1 DEF TurnEnds, WillEnd
    <3> QED BY <3>1, <3>2
  <2>7. /\ Ordered(proc[c], Tail(q)) /\ (Strays(proc[c].inbox, Tail(q)) => c \in slipped')
        /\ Asked(q) => Asked(Tail(q))
    BY <1>1, <1>6, Consumed
  <2>8. ASSUME NEW u \in Tasks PROVE SlotsOf(c, u, proc[c].inbox, Tail(q), at'[u])
    <3>1. CASE u = t
      BY <2>2, <3>1 DEF SlotsOf
    <3>2. CASE u # t
      BY <1>1, <2>5, <3>2, Consumed
    <3> QED BY <3>1, <3>2
  <2>9. o.pump /\ proc[c].asking => c \in asks' \/ Asked(Tail(q))
    BY <1>1, <2>7, AsBefore
  <2>10. ASSUME o.pump /\ Alive(c) /\ c \notin slipped'
         PROVE  Balance(o, proc[c], Tail(q), debt[c], FailedAt(c)')
    <3>1. /\ o.expected \in Nat /\ debt[c] \in Nat
          /\ o.expected + debt[c] - Paid(c) = Ours(Tail(q)) + Len(proc[c].inbox) + FailedAt(c)
      BY <1>1, <2>10, Balanced
    <3>2. at[t] # [pc |-> "failed", conn |-> c]
      BY <2>4 DEF Waiting
    <3>3. FailedAt(c)' = FailedAt(c) + Paid(c)
      <4>1. FailedAt(c) \in Nat /\ FailedAt(c)' \in Nat
        BY <1>2, <2>2, FailedChange
      <4>2. CASE kind = "no"
        <5>1. Paid(c) = 1 /\ f = [pc |-> "failed", conn |-> c]
          BY <2>2, <4>2 DEF Paid, kind
        <5>2. FailedAt(c)' = FailedAt(c) + 1
          BY <1>2, <2>2, <3>2, <5>1, FailedChange
        <5> QED BY <5>1, <5>2
      <4>3. CASE kind # "no"
        <5>1. Paid(c) = 0
          BY <1>1, <4>3 DEF Paid, kind, Replies
        <5>2. f # [pc |-> "failed", conn |-> c]
          BY <2>2, <4>3 DEF Idle
        <5>3. FailedAt(c)' = FailedAt(c)
          BY <1>2, <2>2, <3>2, <5>2, FailedChange
        <5> QED BY <4>1, <5>1, <5>3
      <4> QED BY <4>2, <4>3
    <3>4. PICK e \in Nat, g \in Nat, m \in Nat, l \in Nat, k \in Nat, a \in Nat :
             /\ e = o.expected /\ g = debt[c] /\ m = Ours(Tail(q))
             /\ l = Len(proc[c].inbox) /\ k = FailedAt(c) /\ a = Paid(c)
      <4>1. Paid(c) \in Nat /\ Len(proc[c].inbox) \in Nat
        BY AsBefore DEF Paid, Process
      <4>2. Ours(Tail(q)) \in Nat /\ FailedAt(c) \in Nat
        BY <1>2, OursType, FailedType
      <4> QED BY <3>1, <4>1, <4>2
    <3>5. e + g - a = m + l + k
      BY <3>1, <3>4
    <3>6. e + g = m + l + (k + a)
      BY <3>5
    <3>7. FailedAt(c)' = k + a /\ debt[c] >= 0
      BY <3>3, <3>4
    <3>8. o.expected + debt[c] = Ours(Tail(q)) + Len(proc[c].inbox) + FailedAt(c)'
      BY <3>4, <3>6, <3>7
    <3> QED BY <3>7, <3>8 DEF Balance
  <2>11. ASSUME NEW u \in Tasks, at'[u].conn = c
         PROVE  /\ Keeps(u, at'[u], o, proc[c], raced')
                /\ at'[u].pc = "accepted" /\ c \notin raced'
                     => WillEnd(c, proc[c], Tail(q), settling', at')
    <3>1. q \in Seq(Frame) /\ Ordered(proc[c], q)
      BY AsBefore
    <3>2. CASE u = t
      <4>1. o.sid # None
        BY <1>2, PiAssumption
      <4>2. Keeps(u, f, o, proc[c], raced)
        BY <1>1, <2>3, <4>1 DEF Keeps
      <4>3. ASSUME f.pc = "accepted" PROVE Coming(proc[c], Tail(q))
        <5>1. kind = "ok"
          BY <2>2, <4>3
        <5>2. Head(q) = <<"ok", t>>
          BY <1>2, <5>1, FrameKinds DEF kind, t, Replies
        <5>3. \A i \in DOMAIN Tail(q) : Tail(q)[i] # <<"ok", t>>
          BY <2>2 DEF IsFor, Replies
        <5> HIDE DEF q
        <5> QED BY <1>1, <2>2, <3>1, <5>2, <5>3, OrderedShorter
      <4> QED BY <2>5, <2>12, <3>2, <4>2, <4>3 DEF WillEnd
    <3>3. CASE u # t
      <4>1. at'[u] = at[u] /\ at[u].conn = c
        BY <2>5, <2>11, <3>3
      <4>2. /\ Keeps(u, at[u], o, proc[c], raced)
            /\ at[u].pc = "accepted" /\ c \notin raced => WillEnd(c, proc[c], q, settling, at)
        BY <4>1, StillKept
      <4>3. CASE kind = "local"
        BY <2>12, <2>14, <4>1, <4>2, <4>3 DEF WillEnd
      <4>4. CASE kind # "local"
        <5>1. Coming(proc[c], q) => Coming(proc[c], Tail(q))
          BY <1>1, <1>6, <3>1, <4>4, OrderedShorter DEF Quiet
        <5> QED BY <2>12, <2>13, <4>1, <4>2, <4>4, <5>1 DEF WillEnd
      <4> QED BY <4>3, <4>4
    <3> QED BY <3>2, <3>3
  <2> QED BY <1>4, <1>5, <2>5, <2>6, <2>7, <2>8, <2>9, <2>10, <2>11, <2>15, ObjectStep
<1> QED BY <1>8, <1>9
-----------------------------------------------------------------------------
(* The theorems                                                            *)

LEMMA Inductive == IInv /\ [Next]_vars => IInv'
<1> SUFFICES ASSUME IInv, [Next]_vars PROVE IInv'
  OBVIOUS
<1>1. CASE UNCHANGED vars
  <2>1. UNCHANGED <<proc, deeds, pipe, sess, sessions, known, asks, settling, at,
                    shown, debt, raced, slipped, displaced>>
    BY <1>1 DEF vars, registry, turns
  <2>2. Types' /\ ServedIsRegistered' /\ SpawnedOnce'
    BY <2>1 DEF IInv, Types, ServedIsRegistered, SpawnedOnce
  <2>3. ASSUME NEW c \in Conns PROVE Local(c)'
    BY <2>1 DEF IInv, Local, Alive, FailedAt
  <2>4. ASSUME NEW t \in Tasks, NEW c \in Conns, at'[t].conn = c PROVE Busy(t, c)'
    BY <2>1, <2>4 DEF IInv, Busy
  <2> QED BY <2>2, <2>3, <2>4 DEF IInv
<1>2. ASSUME NEW c \in Conns, NEW s \in Sids, OpenTui(c, s) PROVE IInv'
  BY <1>2, OpenTuiStep
<1>3. ASSUME NEW c \in Conns, \/ \E s \in Sids : Switch(c, s)
                              \/ Type(c) \/ Speak(c) \/ Ask(c) \/ Settle(c) \/ Quit(c)
      PROVE  IInv'
  BY <1>3, ProcessSteps
<1>4. ASSUME NEW c \in Conns, TakePrompt(c) \/ TakeCommand(c) PROVE IInv'
  BY <1>4, TakePromptStep, TakeCommandStep
<1>5. ASSUME NEW c \in Conns, Discover(c) PROVE IInv'
  BY <1>5, DiscoverStep
<1>6. ASSUME NEW c \in Conns, Close(c) PROVE IInv'
  BY <1>6, CloseStep
<1>7. ASSUME NEW c \in Conns, Resolve(c) PROVE IInv'
  BY <1>7, ResolveStep
<1>8. ASSUME NEW c \in Conns, Pump(c) PROVE IInv'
  BY <1>8, AnswerStep, UserMessageStep, ReplyStep, StartedStep, TurnEndSteps,
     CommandEndsStep, DialogStep, SessionChangedStep, DropStep DEF Pump
<1>9. ASSUME NEW c \in Conns, SettleTask(c) PROVE IInv'
  BY <1>9, SettleTaskStep
<1>10. ASSUME NEW c \in Conns, NEW t \in Tasks, Send(t, c) PROVE IInv'
  BY <1>10, SendStep
<1>11. ASSUME NEW c \in Conns, NEW t \in Tasks, NEW s \in Sids, Attach(t, s, c) PROVE IInv'
  BY <1>11, AttachStep
<1>12. ASSUME NEW t \in Tasks, Spawned(t) \/ TimesOut(t) \/ SendFails(t) \/ Sent(t)
       PROVE  IInv'
  BY <1>12, SpawnedStep, TimesOutStep, SendFailsStep, SentStep
<1>13. CASE Closed
  BY <1>13, ClosedStep
<1> QED BY <1>1, <1>2, <1>3, <1>4, <1>5, <1>6, <1>7, <1>8, <1>9, <1>10, <1>11, <1>12, <1>13
        DEF Next

\* What may be on its way, in the pipes, the inboxes and the tasks.
THEOREM Invariance == Spec => []IInv
<1>1. Init => IInv
  BY FromStart
<1>2. IInv /\ [Next]_vars => IInv'
  BY Inductive
<1> QED BY <1>1, <1>2, PTL DEF Spec

\* Discovery, attach, close and the switches of the users leave every session
\* to one object, which is the one commands reach (_register, _session_changed,
\* _drop_session).
THEOREM ServedOnceAlways == Spec => []ServedOnce
<1>1. IInv => ServedOnce
  BY ServedOnceHolds
<1> QED BY <1>1, Invariance, PTL

\* A client sees one turn of a session, its object's, and the end of every turn
\* it has seen begin is on its way (_open_turn, _settle_turn, _fail_turn).
THEOREM TurnsShownEndAlways == Spec => []TurnsShownEnd
<1>1. IInv => TurnsShownEnd
  BY TurnsShownEndHolds
<1> QED BY <1>1, Invariance, PTL

\* Every prompt is announced once, whoever it came from: the echoes expected
\* are those of the prompts under way (send_message, steer, _handle_message).
THEOREM PromptsAccountedAlways == Spec => []PromptsAccounted
<1>1. IInv => PromptsAccounted
  BY PromptsAccountedHolds
<1> QED BY <1>1, Invariance, PTL

\* A task that waits, waits on a transport that is open; and a process that
\* waits for its dialog can be answered (_Transport.close, _handle_ui_request).
THEOREM AnswersCanComeAlways == Spec => []AnswersCanCome
<1>1. IInv => AnswersCanCome
  BY AnswersCanComeHolds
<1> QED BY <1>1, Invariance, PTL
=============================================================================
