--------------------------- MODULE CodexViewProofs ---------------------------
(***************************************************************************)
(* More proofs about CodexLink: what the backend shows of the thread.      *)
(*                                                                         *)
(* The argument.  Every frame, and every answer that was taken, claims a   *)
(* turn and a subagent for the thread.  Its claim is good if the frames    *)
(* behind it lead from there to where the thread is now (Leads, LastChild);*)
(* so is what the backend shows, at the head of the pipe.  The server's    *)
(* steps carry good claims on (Grows), the reader moves them to the front, *)
(* and an answer that was overtaken, or told to nobody, is excused.  What  *)
(* may resume the thread is an attach whose answer tells all (Silent).     *)
(* The one approval is either on its way down, offered, on its way up, or  *)
(* over (Approving); of a thread that is being closed nothing comes (Left).*)
(***************************************************************************)
EXTENDS CodexLinkProofs

Answering == {"result", "error", "overloaded"}
Turning   == {"turn", "done"}

\* Handled from the turn v on, the frames of s behind k lead to the turn n.
Leads(s, n, v, k) ==
    /\ (\A j \in DOMAIN s : j > k => s[j].kind \notin Turning) => v = n
    /\ \A j \in DOMAIN s :
          j > k /\ s[j].kind = "done"
          /\ (\A i \in DOMAIN s : k < i /\ i < j => s[i].kind \notin Turning)
             => v \in {0, s[j].n}

\* Behind k the frames of s tell of the child again, or it shows as x.
LastChild(s, c, x, k) ==
    (\A j \in DOMAIN s : j > k => s[j].kind # "child") => x = StatusOf(c)

\* The answers that tell of a turn: to an attach, which tells of the child, too,
\* and to a send.
Snap(f, a)   == a["topic"].op = "attach" /\ IsTo(f, "topic") /\ f.kind = "result"
Opened(f, a) == a["worker"].op = "send" /\ IsTo(f, "worker") /\ f.kind = "result"

-----------------------------------------------------------------------------
(* How claims stay good                                                    *)

\* What one more frame does to the turn.
Moves(f, n, m) ==
    \/ f.kind = "turn" /\ m = f.n
    \/ f.kind = "done" /\ f.n = n /\ m = 0
    \/ f.kind \notin Turning /\ m = n

\* And to the child.
Tends(f, c, d) ==
    \/ f.kind = "child" /\ d = f.status
    \/ f.kind # "child" /\ d = c

LEMMA LeadsFromTheEnd ==
  ASSUME NEW S, NEW s \in Seq(S), NEW n, NEW c
  PROVE  Leads(s, n, n, Len(s)) /\ LastChild(s, c, StatusOf(c), Len(s))
<1>1. \A j \in DOMAIN s : ~(j > Len(s))
  OBVIOUS
<1> QED
  BY <1>1 DEF Leads, LastChild

LEMMA LeadsOn ==
  ASSUME NEW S, NEW s \in Seq(S), NEW f \in S, NEW n, NEW m, Moves(f, n, m),
         NEW v, NEW k \in 0 .. Len(s), Leads(s, n, v, k)
  PROVE  Leads(Append(s, f), m, v, k)
<1> DEFINE r == Append(s, f)
           z == Len(s) + 1
<1>1. /\ Len(s) \in Nat /\ DOMAIN s = 1 .. Len(s) /\ DOMAIN r = 1 .. Len(s) + 1
      /\ \A i \in 1 .. Len(s) : r[i] = s[i]
      /\ r[Len(s) + 1] = f
  OBVIOUS
<1>2. /\ z \in DOMAIN r /\ z > k /\ r[z] = f /\ z \notin DOMAIN s
      /\ \A i \in DOMAIN s : i \in DOMAIN r /\ r[i] = s[i] /\ i < z
      /\ \A i \in DOMAIN r : i \in DOMAIN s \/ i = z
      /\ \A i, j \in DOMAIN s : i < j => ~(z < j)
  BY <1>1
<1> HIDE DEF r, z
<1>3. ASSUME \A j \in DOMAIN r : j > k => r[j].kind \notin Turning PROVE v = m
  <2>1. \A j \in DOMAIN s : j > k => s[j].kind \notin Turning
    BY <1>2, <1>3
  <2>2. v = n /\ f.kind \notin Turning
    BY <1>2, <1>3, <2>1 DEF Leads
  <2> QED
    BY <2>2 DEF Moves, Turning
<1>4. ASSUME NEW j \in DOMAIN r, j > k, r[j].kind = "done",
             \A i \in DOMAIN r : k < i /\ i < j => r[i].kind \notin Turning
      PROVE  v \in {0, r[j].n}
  <2>1. CASE j \in DOMAIN s
    <3>1. \A i \in DOMAIN s : k < i /\ i < j => s[i].kind \notin Turning
      BY <1>2, <1>4
    <3> QED
      BY <1>2, <1>4, <2>1, <3>1 DEF Leads
  <2>2. CASE j = z
    <3>1. \A i \in DOMAIN s : i > k => s[i].kind \notin Turning
      BY <1>1, <1>2, <1>4, <2>2
    <3>2. v = n /\ f.kind = "done"
      BY <1>2, <1>4, <2>2, <3>1 DEF Leads
    <3> QED
      BY <1>2, <2>2, <3>2 DEF Moves, Turning
  <2> QED
    BY <1>2, <2>1, <2>2
<1> QED
  BY <1>3, <1>4 DEF Leads, r

LEMMA ChildOn ==
  ASSUME NEW S, NEW s \in Seq(S), NEW f \in S, NEW c, NEW d, Tends(f, c, d),
         NEW x, NEW k \in 0 .. Len(s), LastChild(s, c, x, k)
  PROVE  LastChild(Append(s, f), d, x, k)
<1> DEFINE r == Append(s, f)
           z == Len(s) + 1
<1>1. /\ Len(s) \in Nat /\ DOMAIN s = 1 .. Len(s) /\ DOMAIN r = 1 .. Len(s) + 1
      /\ \A i \in 1 .. Len(s) : r[i] = s[i]
      /\ r[Len(s) + 1] = f
  OBVIOUS
<1>2. /\ z \in DOMAIN r /\ z > k /\ r[z] = f
      /\ \A i \in DOMAIN s : i \in DOMAIN r /\ r[i] = s[i]
  BY <1>1
<1> HIDE DEF r, z
<1>3. ASSUME \A j \in DOMAIN r : j > k => r[j].kind # "child" PROVE x = StatusOf(d)
  <2>1. (\A j \in DOMAIN s : j > k => s[j].kind # "child") /\ f.kind # "child"
    BY <1>2, <1>3
  <2>2. d = c
    BY <2>1 DEF Tends
  <2> QED
    BY <2>1, <2>2 DEF LastChild
<1> QED
  BY <1>3 DEF LastChild, r

\* Before a turn that starts, any turn is right.
LEMMA LeadsToStart ==
  ASSUME NEW S, NEW s \in Seq(S), NEW k \in Nat, k + 1 \in DOMAIN s, s[k + 1].kind = "turn",
         NEW n, NEW v
  PROVE  Leads(s, n, v, k)
<1>1. ASSUME NEW j \in DOMAIN s, j > k PROVE j = k + 1 \/ (k < k + 1 /\ k + 1 < j)
  BY <1>1
<1> QED
  BY <1>1 DEF Leads, Turning

\* The head has been handled.
LEMMA LeadsBehind ==
  ASSUME NEW S, NEW s \in Seq(S), s # << >>, NEW n, NEW v, NEW k \in Nat,
         Leads(s, n, v, k + 1)
  PROVE  Leads(Tail(s), n, v, k)
<1> DEFINE r == Tail(s)
<1>1. /\ Len(s) \in Nat \ {0} /\ DOMAIN s = 1 .. Len(s) /\ DOMAIN r = 1 .. Len(s) - 1
      /\ \A i \in 1 .. Len(s) - 1 : r[i] = s[i + 1]
  OBVIOUS
<1>2. /\ \A i \in DOMAIN r : i \in Int /\ i + 1 \in DOMAIN s /\ r[i] = s[i + 1]
      /\ \A j \in DOMAIN s : j > k + 1 => \E i \in DOMAIN r : j = i + 1 /\ i > k
  <2>1. \A j \in DOMAIN s : j > k + 1 => j - 1 \in DOMAIN r /\ j = (j - 1) + 1 /\ j - 1 > k
    BY <1>1
  <2> QED
    BY <1>1, <2>1
<1> HIDE DEF r
<1>3. ASSUME \A j \in DOMAIN r : j > k => r[j].kind \notin Turning PROVE v = n
  <2>1. \A j \in DOMAIN s : j > k + 1 => s[j].kind \notin Turning
    BY <1>2, <1>3
  <2> QED
    BY <2>1 DEF Leads
<1>4. ASSUME NEW j \in DOMAIN r, j > k, r[j].kind = "done",
             \A i \in DOMAIN r : k < i /\ i < j => r[i].kind \notin Turning
      PROVE  v \in {0, r[j].n}
  <2>1. j + 1 \in DOMAIN s /\ j + 1 > k + 1 /\ s[j + 1] = r[j]
    BY <1>2, <1>4
  <2>2. ASSUME NEW h \in DOMAIN s, k + 1 < h, h < j + 1 PROVE s[h].kind \notin Turning
    <3>1. PICK i \in DOMAIN r : h = i + 1 /\ i > k
      BY <1>1, <1>2, <2>2
    <3>2. k < i /\ i < j /\ s[h] = r[i]
      BY <1>1, <1>2, <1>4, <2>2, <3>1
    <3> QED
      BY <1>4, <3>2
  <2> QED
    BY <1>4, <2>1, <2>2 DEF Leads
<1> QED
  BY <1>3, <1>4 DEF Leads, r

LEMMA LeadsOver ==
  ASSUME NEW S, NEW s \in Seq(S), s # << >>, NEW n, NEW v, Leads(s, n, v, 0)
  PROVE  /\ Head(s).kind \notin Turning => Leads(Tail(s), n, v, 0)
         /\ Head(s).kind = "done" => v \in {0, Head(s).n}
<1>1. /\ 1 \in DOMAIN s /\ s[1] = Head(s) /\ \A j \in DOMAIN s : j \in Int /\ (j > 0 => j = 1 \/ j > 1)
  OBVIOUS
<1>2. ASSUME Head(s).kind \notin Turning PROVE Leads(s, n, v, 0 + 1)
  <2>1. ASSUME \A j \in DOMAIN s : j > 1 => s[j].kind \notin Turning PROVE v = n
    BY <1>1, <1>2, <2>1 DEF Leads
  <2>2. ASSUME NEW j \in DOMAIN s, j > 1, s[j].kind = "done",
               \A i \in DOMAIN s : 1 < i /\ i < j => s[i].kind \notin Turning
        PROVE  v \in {0, s[j].n}
    <3>1. \A i \in DOMAIN s : 0 < i /\ i < j => s[i].kind \notin Turning
      BY <1>1, <1>2, <2>2
    <3>2. j > 0
      BY <1>1, <2>2
    <3> QED
      BY <2>2, <3>1, <3>2 DEF Leads
  <2> QED
    BY <2>1, <2>2 DEF Leads
<1>3. ASSUME Head(s).kind = "done" PROVE v \in {0, Head(s).n}
  <2>1. \A i \in DOMAIN s : ~(0 < i /\ i < 1)
    BY <1>1
  <2> QED
    BY <1>1, <1>3, <2>1 DEF Leads
<1> QED
  BY <1>2, <1>3, LeadsBehind

LEMMA ChildBehind ==
  ASSUME NEW S, NEW s \in Seq(S), s # << >>, NEW c, NEW x, NEW k \in Nat
  PROVE  /\ LastChild(s, c, x, k + 1) => LastChild(Tail(s), c, x, k)
         /\ LastChild(s, c, x, 0) /\ Head(s).kind # "child" => LastChild(Tail(s), c, x, 0)
<1> DEFINE r == Tail(s)
<1>1. /\ Len(s) \in Nat \ {0} /\ DOMAIN s = 1 .. Len(s) /\ DOMAIN r = 1 .. Len(s) - 1
      /\ \A i \in 1 .. Len(s) - 1 : r[i] = s[i + 1] /\ s[1] = Head(s)
  OBVIOUS
<1>2. /\ \A j \in DOMAIN s : j > k + 1 => j - 1 \in DOMAIN r /\ j - 1 > k /\ r[j - 1] = s[j]
      /\ \A j \in DOMAIN s : j # 1 => j - 1 \in DOMAIN r /\ j - 1 > 0 /\ r[j - 1] = s[j]
      /\ s[1] = Head(s)
  BY <1>1
<1> QED
  BY <1>2 DEF LastChild
-----------------------------------------------------------------------------
(* Claims                                                                  *)

\* Frame i is right, and so is the turn that the answer to a send names.
Right(s, n, c, a, i) ==
    /\ s[i].kind = "turn" => Leads(s, n, s[i].n, i)
    /\ s[i].kind = "done" => Leads(s, n, 0, i)
    /\ s[i].kind = "child" => LastChild(s, c, StatusOf(s[i].status), i)
    /\ Snap(s[i], a) => /\ Leads(s, n, s[i].turn, i)
                        /\ LastChild(s, c, StatusOf(s[i].child), i)
RightTurn(s, n, a, i) == Opened(s[i], a) => Leads(s, n, s[i].turn, i)

\* What the topic's task has in hand.
Has(a)       == a["topic"].op = "attach" /\ a["topic"].pc = "answered"
Hydrating(a) == a["topic"].op = "items"

\* The answer to a send may be wrong while the topic's attach is still to come,
\* or was given up, unless a turn or the attach comes first.
Stale(a, z) == "turn" \in z \/ a["topic"].op = "attach"
Excused(s, a, z, i) ==
    /\ Stale(a, z) /\ ~Has(a)
    /\ \A j \in DOMAIN s : j < i => s[j].kind # "turn" /\ ~Snap(s[j], a)

\* The turn v is shown; it is the thread's when all of s has been handled.
TurnShown(s, n, a, v, z) ==
    /\ Has(a) => Leads(s, n, a["topic"].turn, 0) \/ "turn" \in a["topic"].moved
    /\ a["worker"].op = "send" /\ a["worker"].pc = "answered" =>
         \/ Leads(s, n, a["worker"].turn, 0) \/ "turn" \in a["worker"].moved
         \/ Stale(a, z) /\ (Has(a) => "second" \in a["topic"].moved)
    /\ a["topic"].op # "attach" => Leads(s, n, v, 0) \/ "turn" \in z

\* And the child, as x.
ChildShown(s, c, a, x, z) ==
    /\ (Has(a) \/ Hydrating(a)) /\ a["topic"].child # None =>
         LastChild(s, c, StatusOf(a["topic"].child), 0) \/ "child" \in a["topic"].moved
    /\ \/ a["topic"].op = None
       \/ (Has(a) \/ Hydrating(a)) /\ a["topic"].child = None
       => LastChild(s, c, x, 0) \/ "child" \in z

Good(s, n, c, a, v, x, z) ==
    /\ \A i \in DOMAIN s : Right(s, n, c, a, i) /\ (RightTurn(s, n, a, i) \/ Excused(s, a, z, i))
    /\ TurnShown(s, n, a, v, z) /\ ChildShown(s, c, a, x, z)

\* From s to w the claims of s are carried on, and those of the new frames are right.
Grows(s, n, c, w, m, d, a) ==
    /\ Len(s) <= Len(w) /\ \A i \in DOMAIN s : i \in DOMAIN w /\ w[i] = s[i]
    /\ \A k \in 0 .. Len(s) : \A v : Leads(s, n, v, k) => Leads(w, m, v, k)
    /\ \A k \in 0 .. Len(s) : \A x : LastChild(s, c, x, k) => LastChild(w, d, x, k)
    /\ \A i \in DOMAIN w : i \notin DOMAIN s => Right(w, m, d, a, i) /\ RightTurn(w, m, a, i)

\* The frame says what is so.
Says(f, n, c, a) ==
    /\ f.kind = "turn" => f.n = n
    /\ f.kind = "done" => n = 0
    /\ f.kind = "child" => f.status = c
    /\ Snap(f, a) => f.turn = n /\ f.child = c
    /\ Opened(f, a) => f.turn = n

LEMMA GrowsNot ==
  ASSUME NEW S, NEW s \in Seq(S), NEW n, NEW c, NEW a
  PROVE  Grows(s, n, c, s, n, c, a)
  BY DEF Grows

LEMMA RightOn ==
  ASSUME NEW S, NEW s \in Seq(S), NEW f \in S, NEW n, NEW m, Moves(f, n, m),
         NEW c, NEW d, Tends(f, c, d), NEW a, NEW i \in DOMAIN s
  PROVE  /\ Right(s, n, c, a, i) => Right(Append(s, f), m, d, a, i)
         /\ RightTurn(s, n, a, i) => RightTurn(Append(s, f), m, a, i)
<1>1. i \in 0 .. Len(s) /\ Append(s, f)[i] = s[i]
  OBVIOUS
<1>2. /\ \A v : Leads(s, n, v, i) => Leads(Append(s, f), m, v, i)
      /\ \A x : LastChild(s, c, x, i) => LastChild(Append(s, f), d, x, i)
  BY <1>1, LeadsOn, ChildOn
<1> QED
  BY <1>1, <1>2 DEF Right, RightTurn

LEMMA RightAtTheEnd ==
  ASSUME NEW S, NEW s \in Seq(S), NEW f \in S, NEW n, NEW c, NEW a, Says(f, n, c, a)
  PROVE  /\ Right(Append(s, f), n, c, a, Len(s) + 1)
         /\ RightTurn(Append(s, f), n, a, Len(s) + 1)
<1>1. /\ Append(s, f) \in Seq(S) /\ Len(Append(s, f)) = Len(s) + 1
      /\ Append(s, f)[Len(s) + 1] = f
  OBVIOUS
<1>2. /\ Leads(Append(s, f), n, n, Len(s) + 1)
      /\ LastChild(Append(s, f), c, StatusOf(c), Len(s) + 1)
  BY <1>1, LeadsFromTheEnd
<1> QED
  BY <1>1, <1>2 DEF Right, RightTurn, Says

LEMMA GrowsOn ==
  ASSUME NEW S, NEW s \in Seq(S), NEW n, NEW c, NEW a,
         NEW w \in Seq(S), NEW m, NEW d, Grows(s, n, c, w, m, d, a),
         NEW f \in S, NEW m2, NEW d2, Moves(f, m, m2), Tends(f, d, d2), Says(f, m2, d2, a)
  PROVE  Grows(s, n, c, Append(w, f), m2, d2, a)
<1> DEFINE r == Append(w, f)
<1>1. /\ Len(w) \in Nat /\ Len(s) \in Nat /\ Len(s) <= Len(w)
      /\ DOMAIN w = 1 .. Len(w) /\ DOMAIN r = 1 .. Len(w) + 1 /\ Len(r) = Len(w) + 1
      /\ \A i \in 1 .. Len(w) : r[i] = w[i]
  BY DEF Grows
<1>2. /\ Len(s) <= Len(r) /\ \A k \in 0 .. Len(s) : k \in 0 .. Len(w)
      /\ \A i \in DOMAIN w : i \in DOMAIN r
      /\ \A i \in DOMAIN r : i \in DOMAIN w \/ i = Len(w) + 1
  BY <1>1
<1>3. \A i \in DOMAIN s : i \in DOMAIN r /\ r[i] = s[i]
  BY <1>1, <1>2 DEF Grows
<1>4. \A k \in 0 .. Len(s) : \A v : Leads(s, n, v, k) => Leads(r, m2, v, k)
  BY <1>2, LeadsOn DEF Grows
<1>5. \A k \in 0 .. Len(s) : \A x : LastChild(s, c, x, k) => LastChild(r, d2, x, k)
  BY <1>2, ChildOn DEF Grows
<1>6. ASSUME NEW i \in DOMAIN r, i \notin DOMAIN s
      PROVE  Right(r, m2, d2, a, i) /\ RightTurn(r, m2, a, i)
  <2>1. CASE i \in DOMAIN w
    BY <1>6, <2>1, RightOn DEF Grows
  <2>2. CASE i = Len(w) + 1
    BY <2>2, RightAtTheEnd
  <2> QED
    BY <1>2, <2>1, <2>2
<1> HIDE DEF r
<1>7. Grows(s, n, c, r, m2, d2, a)
  BY <1>2, <1>3, <1>4, <1>5, <1>6 DEF Grows
<1> QED
  BY <1>7 DEF r

\* The answer to a send, before the turn that it started.
LEMMA GrowsOpening ==
  ASSUME NEW S, NEW s \in Seq(S), NEW n, NEW c, NEW a, NEW f \in S, NEW g \in S,
         f.kind \in Answering, ~Snap(f, a), g.kind = "turn"
  PROVE  Grows(s, n, c, Append(Append(s, f), g), g.n, c, a)
<1> DEFINE q == Append(s, f)
           r == Append(q, g)
           z == Len(s) + 1
<1>1. /\ Len(s) \in Nat /\ q \in Seq(S) /\ r \in Seq(S)
      /\ DOMAIN s = 1 .. Len(s) /\ DOMAIN q = 1 .. Len(s) + 1 /\ DOMAIN r = 1 .. Len(s) + 2
      /\ Len(q) = Len(s) + 1 /\ Len(r) = Len(s) + 2
      /\ \A i \in 1 .. Len(s) : r[i] = s[i]
      /\ r[Len(s) + 1] = f /\ r[Len(s) + 2] = g
  OBVIOUS
<1>2. /\ Moves(f, n, n) /\ Tends(f, c, c) /\ Moves(g, n, g.n) /\ Tends(g, c, c)
      /\ Says(g, g.n, c, a)
  BY DEF Moves, Tends, Says, Snap, Opened, Answering, Turning
<1>3. \A k \in 0 .. Len(s) : k \in 0 .. Len(q)
  BY <1>1
<1>4. \A k \in 0 .. Len(s) : \A v : Leads(s, n, v, k) => Leads(r, g.n, v, k)
  BY <1>1, <1>2, <1>3, LeadsOn
<1>5. \A k \in 0 .. Len(s) : \A x : LastChild(s, c, x, k) => LastChild(r, c, x, k)
  BY <1>1, <1>2, <1>3, ChildOn
<1>6. Right(r, g.n, c, a, z + 1) /\ RightTurn(r, g.n, a, z + 1)
  <2>1. Right(r, g.n, c, a, Len(q) + 1) /\ RightTurn(r, g.n, a, Len(q) + 1)
    BY <1>1, <1>2, RightAtTheEnd
  <2> QED
    BY <1>1, <2>1
<1>7. Right(r, g.n, c, a, z) /\ RightTurn(r, g.n, a, z)
  <2>1. z \in Nat /\ z + 1 \in DOMAIN r /\ r[z + 1].kind = "turn" /\ r[z] = f
    BY <1>1
  <2>2. Leads(r, g.n, f.turn, z)
    BY <1>1, <2>1, LeadsToStart
  <2> QED
    BY <2>1, <2>2 DEF Right, RightTurn, Answering
<1>8. /\ Len(s) <= Len(r) /\ \A i \in DOMAIN s : i \in DOMAIN r /\ r[i] = s[i]
      /\ \A i \in DOMAIN r : i \in DOMAIN s \/ i = z \/ i = z + 1
  BY <1>1
<1> HIDE DEF q, r, z
<1>9. Grows(s, n, c, r, g.n, c, a)
  BY <1>4, <1>5, <1>6, <1>7, <1>8 DEF Grows
<1> QED
  BY <1>9 DEF r, q

\* What is good stays so.
LEMMA GoodGrows ==
  ASSUME NEW S, NEW s \in Seq(S), NEW n, NEW c, NEW a, NEW w \in Seq(S), NEW m, NEW d,
         Grows(s, n, c, w, m, d, a), NEW v, NEW x, NEW z, Good(s, n, c, a, v, x, z)
  PROVE  Good(w, m, d, a, v, x, z)
<1>1. /\ Len(s) \in Nat /\ DOMAIN s = 1 .. Len(s) /\ 0 \in 0 .. Len(s)
      /\ DOMAIN w = 1 .. Len(w) /\ Len(w) \in Nat
      /\ \A i \in DOMAIN s : i \in 0 .. Len(s) /\ i \in DOMAIN w /\ w[i] = s[i]
  BY DEF Grows
<1>2. \A k \in 0 .. Len(s) : /\ \A u : Leads(s, n, u, k) => Leads(w, m, u, k)
                             /\ \A y : LastChild(s, c, y, k) => LastChild(w, d, y, k)
  BY DEF Grows
<1>3. ASSUME NEW i \in DOMAIN w
      PROVE  Right(w, m, d, a, i) /\ (RightTurn(w, m, a, i) \/ Excused(w, a, z, i))
  <2>1. CASE i \notin DOMAIN s
    BY <1>3, <2>1 DEF Grows
  <2>2. CASE i \in DOMAIN s
    <3>1. Right(w, m, d, a, i)
      BY <1>1, <1>2, <2>2 DEF Right, Good
    <3>2. RightTurn(s, n, a, i) => RightTurn(w, m, a, i)
      BY <1>1, <1>2, <2>2 DEF RightTurn
    <3>3. Excused(s, a, z, i) => Excused(w, a, z, i)
      <4>1. \A j \in DOMAIN w : j < i => j \in DOMAIN s /\ w[j] = s[j]
        BY <1>1, <2>2
      <4> QED
        BY <4>1 DEF Excused
    <3> QED
      BY <2>2, <3>1, <3>2, <3>3 DEF Good
  <2> QED
    BY <2>1, <2>2
<1>4. TurnShown(w, m, a, v, z)
  BY <1>1, <1>2 DEF TurnShown, Good
<1>5. ChildShown(w, d, a, x, z)
  BY <1>1, <1>2 DEF ChildShown, Good
<1> QED
  BY <1>3, <1>4, <1>5 DEF Good
-----------------------------------------------------------------------------
(* What the server does                                                    *)

\* Nothing has come of a thread that is not resumed, and what may resume it is
\* an attach whose answer is waited for, or was given up.
Silent(s, u, a, z) ==
    /\ \A i \in DOMAIN s : s[i].kind \in Answering /\ ~Snap(s[i], a)
    /\ (\E i \in DOMAIN u : u[i].op = "attach") =>
          /\ ~Has(a) /\ ~Hydrating(a)
          /\ a["topic"].op = "attach" \/ {"turn", "child"} \subseteq z

\* The bridge has not begun to leave the thread.
Tracked == created /\ "closed" \notin raced /\ at["worker"].op # "unsubscribe"

Shown == Good(pipe, thread.turn, thread.child, at, active, child, raced)
Quietly == Silent(pipe, up, at, raced)
Watched ==
    Tracked => /\ \A i \in DOMAIN up : up[i].op # "unsubscribe"
               /\ thread.subscribed => Shown
               /\ ~thread.subscribed => Quietly

\* Whoever resumes a silent thread has nothing to contradict.
LEMMA SilentIsGood ==
  ASSUME NEW s, NEW u, NEW a, NEW z, Silent(s, u, a, z), \E i \in DOMAIN u : u[i].op = "attach",
         NEW n, NEW c, NEW v, NEW x
  PROVE  Good(s, n, c, a, v, x, z)
<1>1. /\ \A i \in DOMAIN s : s[i].kind \in Answering /\ ~Snap(s[i], a)
      /\ ~Has(a) /\ ~Hydrating(a)
      /\ a["topic"].op = "attach" \/ {"turn", "child"} \subseteq z
  BY DEF Silent
<1>2. "attach" # None
  BY DEF None
<1>3. \A i \in DOMAIN s : Right(s, n, c, a, i) /\ Excused(s, a, z, i)
  BY <1>1 DEF Right, Excused, Stale, Answering
<1>4. TurnShown(s, n, a, v, z) /\ ChildShown(s, c, a, x, z)
  BY <1>1, <1>2 DEF TurnShown, ChildShown, Stale
<1> QED
  BY <1>3, <1>4 DEF Good

LEMMA TwoMore ==
  ASSUME NEW S, NEW s \in Seq(S), NEW f \in S, NEW g \in S,
         NEW u, u = <<f, g>>
  PROVE  s \o u = Append(Append(s, f), g)
<1> DEFINE r == Append(Append(s, f), g)
<1>1. /\ Len(s) \in Nat /\ r \in Seq(S) /\ Len(r) = Len(s) + 2
      /\ \A i \in 1 .. Len(s) : r[i] = s[i]
      /\ r[Len(s) + 1] = f /\ r[Len(s) + 2] = g
  OBVIOUS
<1>2. Len(u) = 2 /\ u[1] = f /\ u[2] = g /\ u \in Seq(S) /\ 1 \in DOMAIN u /\ 2 \in DOMAIN u
  OBVIOUS
<1> HIDE DEF r
<1>3. /\ s \o u \in Seq(S) /\ Len(s \o u) = Len(s) + 2
      /\ \A i \in DOMAIN s : (s \o u)[i] = s[i]
      /\ (s \o u)[Len(s) + 1] = f /\ (s \o u)[Len(s) + 2] = g
  <2>1. s \o u \in Seq(S) /\ Len(s \o u) = Len(s) + 2
    <3>1. s \o u \in Seq(S) /\ Len(s \o u) = Len(s) + Len(u)
      BY <1>2, ConcatProperties, Zenon
    <3> QED
      BY <1>2, <3>1
  <2> QED
    BY <1>2, <2>1, Joined
<1>4. \A i \in 1 .. Len(r) : r[i] = (s \o u)[i]
  BY <1>1, <1>3
<1>5. r = s \o u
  BY <1>1, <1>3, <1>4, SeqEqual
<1> QED
  BY <1>5 DEF r

LEMMA Chains ==
  ASSUME NEW S, NEW s \in Seq(S), NEW f \in S, NEW g \in S, NEW h \in S
  PROVE  /\ s \o << >> = s /\ s \o <<f>> = Append(s, f) /\ Append(s, f) \in Seq(S)
         /\ s \o <<f, g>> = Append(Append(s, f), g)
         /\ s \o (<<f>> \o <<g, h>>) = Append(Append(Append(s, f), g), h)
         /\ s \o (<< >> \o <<f, g>>) = Append(Append(s, f), g)
         /\ s \o (<<f>> \o <<g>>) = Append(Append(s, f), g)
         /\ s \o (<< >> \o <<f>>) = Append(s, f)
<1>1. /\ Append(s, f) \in Seq(S) /\ Append(Append(s, f), g) \in Seq(S)
      /\ <<f>> \in Seq(S) /\ <<f, g>> \in Seq(S) /\ <<g, h>> \in Seq(S) /\ <<g>> \in Seq(S)
  OBVIOUS
<1>2. /\ s \o <<f>> = Append(s, f) /\ s \o << >> = s
      /\ Append(s, f) \o <<g>> = Append(Append(s, f), g)
  BY <1>1
<1>3. /\ s \o <<f, g>> = Append(Append(s, f), g)
      /\ Append(s, f) \o <<g, h>> = Append(Append(Append(s, f), g), h)
  <2>1. ASSUME NEW r \in Seq(S)
        PROVE  /\ r \o <<f, g>> = Append(Append(r, f), g)
               /\ r \o <<g, h>> = Append(Append(r, g), h)
    <3>1. r \o <<f, g>> = Append(Append(r, f), g)
      BY TwoMore
    <3>2. r \o <<g, h>> = Append(Append(r, g), h)
      BY TwoMore
    <3> QED
      BY <3>1, <3>2
  <2> QED
    BY <1>1, <2>1
<1>4. /\ s \o (<<f>> \o <<g, h>>) = (s \o <<f>>) \o <<g, h>>
      /\ s \o (<<f>> \o <<g>>) = (s \o <<f>>) \o <<g>>
  BY <1>1, ConcatAssociative
<1>5. << >> \o <<f, g>> = <<f, g>> /\ << >> \o <<f>> = <<f>>
  BY <1>1, ConcatEmptySeq
<1> QED
  BY <1>1, <1>2, <1>3, <1>4, <1>5

\* What a step of the server does to the two directions.
Carries == Grows(pipe, thread.turn, thread.child, pipe', thread'.turn, thread'.child, at)
Speaks ==
    /\ UNCHANGED <<at, active, child, raced, created>>
    /\ up' = up \/ (up # << >> /\ up' = Tail(up))
    /\ \/ thread.subscribed /\ thread'.subscribed /\ Carries
       \/ /\ ~thread.subscribed /\ thread'.subscribed /\ Carries
          /\ up # << >> /\ Head(up).op = "attach"
       \/ /\ ~thread.subscribed /\ ~thread'.subscribed
          /\ \/ pipe' = pipe
             \/ \E f \in Answers(prompts') : ~Snap(f, at) /\ pipe' = Append(pipe, f)
       \/ up # << >> /\ Head(up).op = "unsubscribe"

\* One frame.
LEMMA OneFrame ==
  ASSUME NEW p, pipe \in Seq(Frames(p)), NEW f \in Frames(p), pipe' = pipe \o <<f>>,
         Moves(f, thread.turn, thread'.turn), Tends(f, thread.child, thread'.child),
         Says(f, thread'.turn, thread'.child, at)
  PROVE  Carries
<1>1. pipe' = Append(pipe, f)
  BY Chains
<1>2. Grows(pipe, thread.turn, thread.child, pipe, thread.turn, thread.child, at)
  BY GrowsNot
<1> QED
  BY <1>1, <1>2, GrowsOn DEF Carries

LEMMA ThreadFields ==
  ASSUME Shape
  PROVE  /\ thread.turn \in Turns(prompts) /\ thread.child \in Words /\ thread.ask \in {0, 1}
         /\ thread.asked \in {0, 1} /\ thread.tui \in BOOLEAN /\ thread.subscribed \in BOOLEAN
         /\ thread = [turn |-> thread.turn, child |-> thread.child, ask |-> thread.ask,
                      asked |-> thread.asked, tui |-> thread.tui, habit |-> thread.habit,
                      subscribed |-> thread.subscribed]
         /\ prompts \in Nat /\ pipe \in Seq(Frames(prompts)) /\ up \in Seq(Sending(prompts))
         /\ at \in [Tasks -> Call(prompts)]
         /\ pipe \o << >> = pipe
<1>1. thread \in Thread(prompts) /\ prompts \in Nat /\ pipe \in Seq(Frames(prompts))
      /\ up \in Seq(Sending(prompts)) /\ at \in [Tasks -> Call(prompts)]
  BY DEF Shape
<1>2. pipe \o << >> = pipe
  BY <1>1
<1> QED
  BY <1>1, <1>2 DEF Thread

LEMMA AnnouncedSpeaks ==
  ASSUME Shape, Delegate \/ AskApproval \/ TuiApproves \/ EndTurn
  PROVE  Speaks
<1>1. /\ thread.turn \in Turns(prompts) /\ thread.child \in Words /\ thread.ask \in {0, 1}
      /\ thread.subscribed \in BOOLEAN
      /\ thread = [turn |-> thread.turn, child |-> thread.child, ask |-> thread.ask,
                   asked |-> thread.asked, tui |-> thread.tui, habit |-> thread.habit,
                   subscribed |-> thread.subscribed]
      /\ pipe \in Seq(Frames(prompts)) /\ pipe \o << >> = pipe
  BY ThreadFields
<1>2. UNCHANGED <<at, active, child, raced, created, up>>
  BY DEF Delegate, AskApproval, TuiApproves, EndTurn, Outside, view
<1>3. SUFFICES ASSUME NEW f \in Frames(prompts), thread'.subscribed = thread.subscribed,
                      pipe' = pipe \o Notify(<<f>>),
                      Moves(f, thread.turn, thread'.turn), Tends(f, thread.child, thread'.child),
                      Says(f, thread'.turn, thread'.child, at)
               PROVE  Speaks
  <2>1. /\ \A s \in {"started", "completed"} : [kind |-> "child", status |-> s] \in Frames(prompts)
        /\ [kind |-> "ask", n |-> 1] \in Frames(prompts)
        /\ [kind |-> "resolved", n |-> 1] \in Frames(prompts)
        /\ \A n \in Given(prompts) : [kind |-> "done", n |-> n] \in Frames(prompts)
    BY ItsFrames DEF Frames
  <2>2. CASE Delegate
    <3>1. PICK st \in {"started", "completed"} :
            /\ thread' = [thread EXCEPT !.child = st]
            /\ pipe' = pipe \o Notify(<< [kind |-> "child", status |-> st] >>)
      BY <2>2 DEF Delegate
    <3>2. thread'.subscribed = thread.subscribed /\ thread'.turn = thread.turn /\ thread'.child = st
      BY <1>1, <3>1
    <3> DEFINE f == [kind |-> "child", status |-> st]
    <3>3. /\ Moves(f, thread.turn, thread'.turn) /\ Tends(f, thread.child, thread'.child)
          /\ Says(f, thread'.turn, thread'.child, at)
      BY <3>2 DEF Moves, Tends, Says, Snap, Opened, Turning
    <3> QED
      BY <1>3, <2>1, <3>1, <3>2, <3>3
  <2>3. CASE AskApproval
    <3>1. /\ thread' = [thread EXCEPT !.ask = 1, !.asked = 1] /\ thread.subscribed
          /\ pipe' = pipe \o << [kind |-> "ask", n |-> 1] >>
      BY <2>3 DEF AskApproval, TurnFrame
    <3>2. /\ thread'.subscribed = thread.subscribed /\ thread'.turn = thread.turn
          /\ thread'.child = thread.child
          /\ pipe' = pipe \o Notify(<< [kind |-> "ask", n |-> 1] >>)
      BY <1>1, <3>1 DEF Notify
    <3> DEFINE f == [kind |-> "ask", n |-> 1]
    <3>3. /\ Moves(f, thread.turn, thread'.turn) /\ Tends(f, thread.child, thread'.child)
          /\ Says(f, thread'.turn, thread'.child, at)
      BY <3>2 DEF Moves, Tends, Says, Snap, Opened, Turning
    <3> QED
      BY <1>3, <2>1, <3>2, <3>3
  <2>4. CASE TuiApproves
    <3>1. /\ thread' = [thread EXCEPT !.ask = 0] /\ thread.ask = 1
          /\ pipe' = pipe \o Notify(<< [kind |-> "resolved", n |-> 1] >>)
      BY <1>1, <2>4 DEF TuiApproves, TurnFrame
    <3>2. /\ thread'.subscribed = thread.subscribed /\ thread'.turn = thread.turn
          /\ thread'.child = thread.child
      BY <1>1, <3>1
    <3> DEFINE f == [kind |-> "resolved", n |-> 1]
    <3>3. /\ Moves(f, thread.turn, thread'.turn) /\ Tends(f, thread.child, thread'.child)
          /\ Says(f, thread'.turn, thread'.child, at)
      BY <3>2 DEF Moves, Tends, Says, Snap, Opened, Turning
    <3> QED
      BY <1>3, <2>1, <3>1, <3>2, <3>3
  <2>5. CASE EndTurn
    <3>1. /\ thread' = [thread EXCEPT !.turn = 0] /\ thread.turn \in Given(prompts)
          /\ pipe' = pipe \o Notify(<< [kind |-> "done", n |-> thread.turn] >>)
      BY <1>1, <2>5 DEF EndTurn, TurnFrame, Turns, Given
    <3>2. /\ thread'.subscribed = thread.subscribed /\ thread'.turn = 0
          /\ thread'.child = thread.child
      BY <1>1, <3>1
    <3> DEFINE f == [kind |-> "done", n |-> thread.turn]
    <3>3. /\ Moves(f, thread.turn, thread'.turn) /\ Tends(f, thread.child, thread'.child)
          /\ Says(f, thread'.turn, thread'.child, at)
      BY <3>2 DEF Moves, Tends, Says, Snap, Opened, Turning
    <3> QED
      BY <1>3, <2>1, <3>1, <3>2, <3>3
  <2> QED
    BY <2>2, <2>3, <2>4, <2>5
<1>4. CASE thread.subscribed
  <2>1. pipe' = pipe \o <<f>>
    BY <1>3, <1>4 DEF Notify
  <2>2. Carries
    BY <1>1, <1>3, <2>1, OneFrame
  <2> QED
    BY <1>2, <1>3, <1>4, <2>2 DEF Speaks
<1>5. CASE ~thread.subscribed
  BY <1>1, <1>2, <1>3, <1>5 DEF Notify, Speaks
<1> QED
  BY <1>4, <1>5

\* A prompt is told of twice, and moves nothing.
LEMMA ItemsGrow ==
  ASSUME NEW S, NEW s \in Seq(S), NEW n, NEW c, NEW a,
         NEW w \in Seq(S), NEW m, NEW d, Grows(s, n, c, w, m, d, a),
         NEW g \in S, g.kind = "item"
  PROVE  Grows(s, n, c, Append(Append(w, g), g), m, d, a)
<1>1. Append(w, g) \in Seq(S) /\ Moves(g, m, m) /\ Tends(g, d, d) /\ Says(g, m, d, a)
  BY DEF Moves, Tends, Says, Snap, Opened, Turning
<1>2. Grows(s, n, c, Append(w, g), m, d, a)
  BY <1>1, GrowsOn
<1> QED
  BY <1>1, <1>2, GrowsOn

LEMMA TypedSpeaks ==
  ASSUME Shape, NEW x \in Texts, Type(x)
  PROVE  Speaks
<1> DEFINE n == prompts + 1
           f == [kind |-> "turn", n |-> n]
           g == [kind |-> "item", n |-> n, text |-> x]
           F == Frames(n)
<1>1. /\ thread.turn \in Turns(prompts) /\ thread.child \in Words
      /\ thread.subscribed \in BOOLEAN
      /\ thread = [turn |-> thread.turn, child |-> thread.child, ask |-> thread.ask,
                   asked |-> thread.asked, tui |-> thread.tui, habit |-> thread.habit,
                   subscribed |-> thread.subscribed]
      /\ prompts \in Nat /\ pipe \in Seq(Frames(prompts)) /\ pipe \o << >> = pipe
  BY ThreadFields
<1>2. pipe \in Seq(F) /\ f \in F /\ g \in F
  <2>1. Frames(prompts) \subseteq F
    BY <1>1, Grown
  <2>2. n \in Given(n)
    BY <1>1 DEF Given
  <2>3. f \in News(n) /\ g \in News(n)
    BY <2>2, ItsFrames
  <2> QED
    BY <1>1, <2>1, <2>3 DEF Frames
<1>3. UNCHANGED <<at, active, child, raced, created, up>>
  BY DEF Type, Outside, view
<1>4. /\ thread' = IF thread.turn = 0 THEN [thread EXCEPT !.turn = n] ELSE thread
      /\ pipe' = pipe \o Notify((IF thread.turn = 0 THEN <<f>> ELSE << >>) \o <<g, g>>)
  BY DEF Type, TurnFrame, Item
<1>5. /\ thread'.subscribed = thread.subscribed /\ thread'.child = thread.child
      /\ thread.turn = 0 => thread'.turn = n
      /\ thread.turn # 0 => thread'.turn = thread.turn
  BY <1>1, <1>4
<1>6. f.kind = "turn" /\ f.n = n /\ g.kind = "item"
  OBVIOUS
<1> HIDE DEF f, g, F, n
<1>7. CASE thread.subscribed
  <2>1. Grows(pipe, thread.turn, thread.child, pipe, thread.turn, thread.child, at)
    BY <1>2, GrowsNot
  <2>2. CASE thread.turn = 0
    <3>1. pipe' = Append(Append(Append(pipe, f), g), g) /\ Append(pipe, f) \in Seq(F)
      BY <1>2, <1>4, <1>7, <2>2, Chains DEF Notify
    <3>2. Moves(f, thread.turn, n) /\ Tends(f, thread.child, thread.child)
          /\ Says(f, n, thread.child, at)
      BY <1>6 DEF Moves, Tends, Says, Snap, Opened
    <3>3. Grows(pipe, thread.turn, thread.child, Append(pipe, f), n, thread.child, at)
      BY <1>2, <2>1, <3>2, GrowsOn
    <3>4. Grows(pipe, thread.turn, thread.child, pipe', n, thread.child, at)
      BY <1>2, <1>6, <3>1, <3>3, ItemsGrow
    <3> QED
      BY <1>3, <1>5, <1>7, <2>2, <3>4 DEF Speaks, Carries
  <2>3. CASE thread.turn # 0
    <3>1. pipe' = Append(Append(pipe, g), g)
      BY <1>2, <1>4, <1>7, <2>3, Chains DEF Notify
    <3>2. Grows(pipe, thread.turn, thread.child, pipe', thread.turn, thread.child, at)
      BY <1>2, <1>6, <2>1, <3>1, ItemsGrow
    <3> QED
      BY <1>3, <1>5, <1>7, <2>3, <3>2 DEF Speaks, Carries
  <2> QED
    BY <2>2, <2>3
<1>8. CASE ~thread.subscribed
  BY <1>1, <1>3, <1>4, <1>5, <1>8 DEF Notify, Speaks
<1> QED
  BY <1>7, <1>8

\* The answer to a request tells what its task asked for.
LEMMA AnswerTells ==
  ASSUME Shape, Waiting, up # << >>, NEW a, a.to = Head(up).by
  PROVE  /\ Snap(a, at) => Head(up).op = "attach" /\ a.kind = "result"
         /\ Opened(a, at) => Head(up).op = "send" /\ a.kind = "result"
<1>1. 1 \in DOMAIN up /\ up[1] = Head(up)
  BY Popped DEF Shape
<1>2. \A t \in Tasks : Head(up).by = t => at[t].op = Head(up).op
  BY <1>1 DEF Waiting
<1> QED
  BY <1>2 DEF Snap, Opened, IsTo, Tasks

LEMMA RefusedSpeaks ==
  ASSUME Shape, Waiting, ServerTakes, Refuses(Head(up)) \/ Overloaded(Head(up))
  PROVE  Speaks
<1>1. /\ thread.turn \in Turns(prompts) /\ thread.child \in Words
      /\ thread.subscribed \in BOOLEAN /\ pipe \in Seq(Frames(prompts)) /\ up \in Seq(Sending(prompts))
  BY ThreadFields
<1>2. /\ UNCHANGED <<at, active, child, raced, created, prompts, thread>>
      /\ up # << >> /\ up' = Tail(up)
  BY DEF ServerTakes, view, Refuses, Overloaded
<1>3. Head(up).by \in Callers
  BY <1>1, <1>2, Popped DEF Sending
<1>4. PICK k \in {"error", "overloaded"} :
        pipe' = pipe \o << [kind |-> k, to |-> Head(up).by, turn |-> thread.turn,
                            child |-> thread.child] >>
  BY DEF Refuses, Overloaded, Reply
<1> DEFINE a == [kind |-> k, to |-> Head(up).by, turn |-> thread.turn, child |-> thread.child]
<1>5. a \in Answers(prompts) /\ a \in Frames(prompts) /\ a.to = Head(up).by /\ a.kind = k
  BY <1>1, <1>3, ItsFrames DEF Frames
<1> HIDE DEF a
<1>6. ~Snap(a, at) /\ ~Opened(a, at)
  BY <1>2, <1>5, AnswerTells
<1>7. Moves(a, thread.turn, thread.turn) /\ Tends(a, thread.child, thread.child)
      /\ Says(a, thread.turn, thread.child, at)
  BY <1>5, <1>6 DEF Moves, Tends, Says, Turning
<1>8. pipe' = pipe \o <<a>>
  BY <1>4 DEF a
<1>9. CASE thread.subscribed
  <2>1. Carries
    BY <1>1, <1>2, <1>5, <1>7, <1>8, OneFrame
  <2> QED
    BY <1>2, <1>9, <2>1 DEF Speaks
<1>10. CASE ~thread.subscribed
  <2>1. pipe' = Append(pipe, a)
    BY <1>1, <1>5, <1>8, Chains
  <2> QED
    BY <1>2, <1>5, <1>6, <1>10, <2>1 DEF Speaks
<1> QED
  BY <1>9, <1>10

LEMMA PromptSpeaks ==
  ASSUME Shape, Waiting, ServerTakes, Head(up).op \in Sends, TakesPrompt(Head(up))
  PROVE  Speaks
<1> DEFINE q == Head(up)
           opens == q.op = "send"
           turn == IF opens THEN q.n ELSE thread.turn
           a == [kind |-> "result", to |-> q.by, turn |-> turn, child |-> None]
           f == [kind |-> "turn", n |-> turn]
           g == [kind |-> "item", n |-> q.n, text |-> q.text]
           F == Frames(prompts)
           news == Notify((IF opens THEN <<f>> ELSE << >>) \o <<g, g>>)
<1>1. /\ thread.turn \in Turns(prompts) /\ thread.child \in Words /\ prompts \in Nat
      /\ thread.subscribed \in BOOLEAN /\ pipe \in Seq(F) /\ up \in Seq(Sending(prompts))
      /\ thread = [turn |-> thread.turn, child |-> thread.child, ask |-> thread.ask,
                   asked |-> thread.asked, tui |-> thread.tui, habit |-> thread.habit,
                   subscribed |-> thread.subscribed]
  BY ThreadFields
<1>2. /\ UNCHANGED <<at, active, child, raced, created, prompts>>
      /\ up # << >> /\ up' = Tail(up)
  BY DEF ServerTakes, view
<1>3. q.by \in Callers /\ q.n \in Given(prompts) /\ q.text \in Texts
  BY <1>1, <1>2, Popped DEF Sending, Told
<1>4. /\ IF opens THEN thread.turn = 0 ELSE thread.turn # 0
      /\ thread' = IF opens THEN [thread EXCEPT !.turn = turn] ELSE thread
      /\ pipe' \in {(pipe \o <<a>>) \o news, (pipe \o news) \o <<a>>}
  BY DEF TakesPrompt, TurnFrame, Item
<1>5. turn \in Turns(prompts) /\ (opens => turn \in Given(prompts))
  BY <1>1, <1>3 DEF Given, Turns
<1>6. a \in Answers(prompts) /\ a \in F /\ g \in F /\ (opens => f \in F) /\ None \in Words
  <2>1. None \in Words
    BY DEF Words
  <2> QED
    BY <1>3, <1>5, <2>1, ItsFrames DEF Frames, News
<1>7. /\ thread'.subscribed = thread.subscribed /\ thread'.child = thread.child
      /\ thread'.turn = turn
  BY <1>1, <1>4
<1>8. /\ f.kind = "turn" /\ f.n = turn /\ g.kind = "item" /\ a.kind = "result" /\ a.to = q.by
      /\ a.turn = turn /\ q.op # "attach"
  BY DEF Sends
<1>9. opens = (q.op = "send") /\ (~opens => turn = thread.turn)
  OBVIOUS
<1>10. news = IF thread.subscribed THEN (IF opens THEN <<f>> ELSE << >>) \o <<g, g>> ELSE << >>
  BY DEF Notify
<1> HIDE DEF q, turn, a, f, g, F, opens, news
<1>11. ~Snap(a, at) /\ (Opened(a, at) => opens)
  BY <1>2, <1>8, <1>9, AnswerTells DEF q
<1>12. Grows(pipe, thread.turn, thread.child, pipe, thread.turn, thread.child, at)
  BY <1>1, GrowsNot
<1>13. /\ \A m : Moves(a, m, m) /\ Tends(a, thread.child, thread.child)
       /\ Says(a, turn, thread.child, at)
       /\ Moves(f, thread.turn, turn) /\ Tends(f, thread.child, thread.child)
       /\ Says(f, turn, thread.child, at)
  BY <1>8, <1>11 DEF Moves, Tends, Says, Turning, Snap, Opened
<1>14. CASE thread.subscribed /\ opens
  <2>1. CASE pipe' = (pipe \o <<a>>) \o news
    <3>1. /\ Append(pipe, a) \in Seq(F) /\ Append(Append(pipe, a), f) \in Seq(F)
          /\ pipe' = Append(Append(Append(Append(pipe, a), f), g), g)
      <4> DEFINE r == Append(pipe, a)
      <4>1. pipe \o <<a>> = r /\ r \in Seq(F)
        BY <1>1, <1>6, Chains
      <4> HIDE DEF r
      <4>2. r \o news = Append(Append(Append(r, f), g), g) /\ Append(r, f) \in Seq(F)
        BY <1>6, <1>10, <1>14, <4>1, Chains
      <4> QED
        BY <2>1, <4>1, <4>2 DEF r
    <3>2. Grows(pipe, thread.turn, thread.child, Append(Append(pipe, a), f), turn, thread.child, at)
      BY <1>1, <1>6, <1>8, <1>11, <1>14, GrowsOpening DEF Answering
    <3>3. Grows(pipe, thread.turn, thread.child, pipe', turn, thread.child, at)
      BY <1>1, <1>6, <1>8, <3>1, <3>2, ItemsGrow
    <3> QED
      BY <1>2, <1>7, <1>14, <3>3 DEF Speaks, Carries
  <2>2. CASE pipe' = (pipe \o news) \o <<a>>
    <3> DEFINE w == Append(Append(Append(pipe, f), g), g)
    <3>1. /\ Append(pipe, f) \in Seq(F) /\ w \in Seq(F)
          /\ pipe' = Append(w, a)
      <4>1. pipe \o news = w /\ Append(pipe, f) \in Seq(F)
        BY <1>1, <1>6, <1>10, <1>14, Chains
      <4>2. w \in Seq(F)
        BY <1>1, <1>6, <1>14
      <4> HIDE DEF w
      <4>3. w \o <<a>> = Append(w, a)
        BY <1>6, <4>2, Chains
      <4> QED
        BY <2>2, <4>1, <4>2, <4>3
    <3>2. Grows(pipe, thread.turn, thread.child, Append(pipe, f), turn, thread.child, at)
      BY <1>1, <1>6, <1>12, <1>13, <1>14, GrowsOn
    <3>3. Grows(pipe, thread.turn, thread.child, w, turn, thread.child, at)
      BY <1>1, <1>6, <1>8, <3>1, <3>2, ItemsGrow
    <3> HIDE DEF w
    <3>4. Grows(pipe, thread.turn, thread.child, pipe', turn, thread.child, at)
      BY <1>1, <1>6, <1>13, <3>1, <3>3, GrowsOn
    <3> QED
      BY <1>2, <1>7, <1>14, <3>4 DEF Speaks, Carries
  <2> QED
    BY <1>4, <2>1, <2>2
<1>15. CASE thread.subscribed /\ ~opens
  <2>1. CASE pipe' = (pipe \o <<a>>) \o news
    <3>1. /\ Append(pipe, a) \in Seq(F)
          /\ pipe' = Append(Append(Append(pipe, a), g), g)
      BY <1>1, <1>6, <1>10, <1>15, <2>1, Chains
    <3>2. Grows(pipe, thread.turn, thread.child, Append(pipe, a), turn, thread.child, at)
      BY <1>1, <1>6, <1>9, <1>12, <1>13, <1>15, GrowsOn
    <3>3. Grows(pipe, thread.turn, thread.child, pipe', turn, thread.child, at)
      BY <1>1, <1>6, <1>8, <3>1, <3>2, ItemsGrow
    <3> QED
      BY <1>2, <1>7, <1>15, <3>3 DEF Speaks, Carries
  <2>2. CASE pipe' = (pipe \o news) \o <<a>>
    <3> DEFINE w == Append(Append(pipe, g), g)
    <3>1. w \in Seq(F) /\ pipe' = Append(w, a)
      <4>1. pipe \o news = w
        BY <1>1, <1>6, <1>10, <1>15, Chains
      <4>2. w \in Seq(F)
        BY <1>1, <1>6
      <4> HIDE DEF w
      <4>3. w \o <<a>> = Append(w, a)
        BY <1>6, <4>2, Chains
      <4> QED
        BY <2>2, <4>1, <4>2, <4>3
    <3>2. Grows(pipe, thread.turn, thread.child, w, thread.turn, thread.child, at)
      BY <1>1, <1>6, <1>8, <1>12, ItemsGrow
    <3> HIDE DEF w
    <3>3. Grows(pipe, thread.turn, thread.child, pipe', turn, thread.child, at)
      BY <1>1, <1>6, <1>9, <1>13, <1>15, <3>1, <3>2, GrowsOn
    <3> QED
      BY <1>2, <1>7, <1>15, <3>3 DEF Speaks, Carries
  <2> QED
    BY <1>4, <2>1, <2>2
<1>16. CASE ~thread.subscribed
  <2>1. pipe \o << >> = pipe /\ pipe \o <<a>> = Append(pipe, a) /\ Append(pipe, a) \in Seq(F)
    BY <1>1, <1>6, Chains
  <2>2. Append(pipe, a) \o << >> = Append(pipe, a)
    BY <1>6, <2>1, Chains
  <2>3. pipe' = Append(pipe, a)
    BY <1>4, <1>10, <1>16, <2>1, <2>2
  <2> QED
    BY <1>2, <1>6, <1>7, <1>11, <1>16, <2>3 DEF Speaks
<1> QED
  BY <1>1, <1>14, <1>15, <1>16

LEMMA InterruptSpeaks ==
  ASSUME Shape, Waiting, ServerTakes, Head(up).op \in {"cancel", "interrupt"},
         TakesInterrupt(Head(up))
  PROVE  Speaks
<1> DEFINE q == Head(up)
           a == [kind |-> "result", to |-> q.by, turn |-> thread.turn, child |-> thread.child]
           f == [kind |-> "resolved", n |-> 1]
           g == [kind |-> "done", n |-> thread.turn]
           F == Frames(prompts)
           asks == thread.ask # 0
           news == Notify((IF asks THEN <<f>> ELSE << >>) \o <<g>>)
           r == Append(pipe, a)
<1>1. /\ thread.turn \in Turns(prompts) /\ thread.child \in Words /\ thread.ask \in {0, 1}
      /\ thread.subscribed \in BOOLEAN /\ pipe \in Seq(F) /\ up \in Seq(Sending(prompts))
      /\ thread = [turn |-> thread.turn, child |-> thread.child, ask |-> thread.ask,
                   asked |-> thread.asked, tui |-> thread.tui, habit |-> thread.habit,
                   subscribed |-> thread.subscribed]
  BY ThreadFields
<1>2. /\ UNCHANGED <<at, active, child, raced, created, prompts>>
      /\ up # << >> /\ up' = Tail(up)
  BY DEF ServerTakes, view
<1>3. q.by \in Callers
  BY <1>1, <1>2, Popped DEF Sending
<1>4. /\ thread.turn # 0 /\ thread' = [thread EXCEPT !.turn = 0, !.ask = 0]
      /\ pipe' = (pipe \o <<a>>) \o Notify((IF thread.ask # 0 THEN << [kind |-> "resolved", n |-> thread.ask] >>
                                            ELSE << >>) \o <<g>>)
  BY DEF TakesInterrupt, TurnFrame, Reply
<1>5. pipe' = (pipe \o <<a>>) \o news
  BY <1>1, <1>4 DEF Notify
<1>6. a \in Answers(prompts) /\ a \in F /\ f \in F /\ g \in F
  <2>1. thread.turn \in Given(prompts)
    BY <1>1, <1>4 DEF Given, Turns
  <2> QED
    BY <1>1, <1>3, <2>1, ItsFrames DEF Frames
<1>7. thread'.subscribed = thread.subscribed /\ thread'.child = thread.child /\ thread'.turn = 0
  BY <1>1, <1>4
<1>8. /\ f.kind = "resolved" /\ g.kind = "done" /\ g.n = thread.turn /\ a.kind = "result"
      /\ a.to = q.by /\ q.op \notin {"attach", "send"}
  OBVIOUS
<1>9. news = IF thread.subscribed THEN (IF asks THEN <<f>> ELSE << >>) \o <<g>> ELSE << >>
  BY DEF Notify
<1>10. pipe \o <<a>> = r /\ r \in Seq(F)
  BY <1>1, <1>6, Chains
<1> HIDE DEF q, a, f, g, F, news, asks
<1>11. ~Snap(a, at) /\ ~Opened(a, at)
  BY <1>2, <1>8, AnswerTells DEF q
<1>12. Grows(pipe, thread.turn, thread.child, pipe, thread.turn, thread.child, at)
  BY <1>1, GrowsNot
<1>13. /\ Moves(a, thread.turn, thread.turn) /\ Tends(a, thread.child, thread.child)
       /\ Says(a, thread.turn, thread.child, at)
       /\ Moves(f, thread.turn, thread.turn) /\ Tends(f, thread.child, thread.child)
       /\ Says(f, thread.turn, thread.child, at)
       /\ Moves(g, thread.turn, 0) /\ Tends(g, thread.child, thread.child)
       /\ Says(g, 0, thread.child, at)
  BY <1>8, <1>11 DEF Moves, Tends, Says, Turning, Snap, Opened
<1>14. Grows(pipe, thread.turn, thread.child, r, thread.turn, thread.child, at)
  BY <1>1, <1>6, <1>12, <1>13, GrowsOn
<1> HIDE DEF r
<1>15. CASE thread.subscribed /\ asks
  <2>1. Append(r, f) \in Seq(F) /\ pipe' = Append(Append(r, f), g)
    BY <1>5, <1>6, <1>9, <1>10, <1>15, Chains
  <2>2. Grows(pipe, thread.turn, thread.child, Append(r, f), thread.turn, thread.child, at)
    BY <1>1, <1>6, <1>10, <1>13, <1>14, GrowsOn
  <2>3. Grows(pipe, thread.turn, thread.child, pipe', 0, thread.child, at)
    BY <1>1, <1>6, <1>13, <2>1, <2>2, GrowsOn
  <2> QED
    BY <1>2, <1>7, <1>15, <2>3 DEF Speaks, Carries
<1>16. CASE thread.subscribed /\ ~asks
  <2>1. pipe' = Append(r, g)
    BY <1>5, <1>6, <1>9, <1>10, <1>16, Chains
  <2>2. Grows(pipe, thread.turn, thread.child, pipe', 0, thread.child, at)
    BY <1>1, <1>6, <1>10, <1>13, <1>14, <2>1, GrowsOn
  <2> QED
    BY <1>2, <1>7, <1>16, <2>2 DEF Speaks, Carries
<1>17. CASE ~thread.subscribed
  <2>1. pipe' = Append(pipe, a)
    <3>1. r \o << >> = r
      BY <1>6, <1>10, Chains
    <3> QED
      BY <1>5, <1>9, <1>10, <1>17, <3>1 DEF r
  <2> QED
    BY <1>2, <1>6, <1>7, <1>11, <1>17, <2>1 DEF Speaks
<1> QED
  BY <1>1, <1>15, <1>16, <1>17

LEMMA OtherwiseSpeaks ==
  ASSUME Shape, Waiting, ServerTakes,
         \/ Head(up).op \in {"attach", "items", "unsubscribe"} /\ Takes(Head(up))
         \/ Head(up).op = "approve" /\ TakesApproval(Head(up))
  PROVE  Speaks
<1> DEFINE q == Head(up)
           a == [kind |-> "result", to |-> q.by, turn |-> thread.turn, child |-> thread.child]
           f == [kind |-> "resolved", n |-> 1]
           F == Frames(prompts)
<1>1. /\ thread.turn \in Turns(prompts) /\ thread.child \in Words
      /\ thread.subscribed \in BOOLEAN /\ pipe \in Seq(F) /\ up \in Seq(Sending(prompts))
      /\ thread = [turn |-> thread.turn, child |-> thread.child, ask |-> thread.ask,
                   asked |-> thread.asked, tui |-> thread.tui, habit |-> thread.habit,
                   subscribed |-> thread.subscribed]
      /\ pipe \o << >> = pipe
  BY ThreadFields
<1>2. /\ UNCHANGED <<at, active, child, raced, created, prompts>>
      /\ up # << >> /\ up' = Tail(up)
  BY DEF ServerTakes, view
<1>3. q.by \in Callers /\ (q.op = "approve" => q.n = 1)
  BY <1>1, <1>2, Popped DEF Sending
<1>4. a \in Answers(prompts) /\ a \in F /\ f \in F
  BY <1>1, <1>3, ItsFrames DEF Frames
<1>5. CASE q.op = "unsubscribe"
  BY <1>2, <1>5 DEF Speaks
<1>6. CASE q.op \in {"attach", "items"} /\ Takes(q)
  <2>1. /\ thread' = IF q.op = "items" THEN thread
                     ELSE [thread EXCEPT !.subscribed = q.op = "attach"]
        /\ pipe' = pipe \o <<a>>
    BY <1>6 DEF Takes, Reply
  <2>2. /\ thread'.turn = thread.turn /\ thread'.child = thread.child
        /\ q.op = "attach" => thread'.subscribed
        /\ q.op = "items" => thread'.subscribed = thread.subscribed
    BY <1>1, <1>6, <2>1
  <2>3. /\ a.kind = "result" /\ a.to = q.by /\ a.turn = thread.turn /\ a.child = thread.child
        /\ q.op # "send"
    BY <1>6
  <2> HIDE DEF q, a, f, F
  <2>4. (Snap(a, at) => q.op = "attach") /\ ~Opened(a, at)
    BY <1>2, <2>3, AnswerTells DEF q
  <2>5. Moves(a, thread.turn, thread'.turn) /\ Tends(a, thread.child, thread'.child)
        /\ Says(a, thread'.turn, thread'.child, at)
    BY <2>2, <2>3, <2>4 DEF Moves, Tends, Says, Turning
  <2>6. Carries
    BY <1>1, <1>4, <2>1, <2>5, OneFrame DEF F
  <2>7. CASE q.op = "attach"
    BY <1>1, <1>2, <2>2, <2>6, <2>7 DEF Speaks, q
  <2>8. CASE q.op = "items" /\ thread.subscribed
    BY <1>2, <2>2, <2>6, <2>8 DEF Speaks
  <2>9. CASE q.op = "items" /\ ~thread.subscribed
    <3>1. pipe' = Append(pipe, a) /\ ~Snap(a, at)
      BY <1>1, <1>4, <2>1, <2>4, <2>9, Chains
    <3> QED
      BY <1>2, <1>4, <2>2, <2>9, <3>1 DEF Speaks
  <2> QED
    BY <1>6, <2>7, <2>8, <2>9
<1>7. CASE q.op = "approve" /\ TakesApproval(q)
  <2>1. \/ thread' = [thread EXCEPT !.ask = 0] /\ pipe' = pipe \o Notify(<<f>>)
        \/ thread' = thread /\ pipe' = pipe
    BY <1>3, <1>7 DEF TakesApproval, TurnFrame
  <2>2. /\ thread'.turn = thread.turn /\ thread'.child = thread.child
        /\ thread'.subscribed = thread.subscribed
    BY <1>1, <2>1
  <2>3. CASE thread.subscribed /\ pipe' = pipe \o Notify(<<f>>)
    <3>1. pipe' = pipe \o <<f>>
      BY <2>3 DEF Notify
    <3>2. Moves(f, thread.turn, thread'.turn) /\ Tends(f, thread.child, thread'.child)
          /\ Says(f, thread'.turn, thread'.child, at)
      BY <2>2 DEF Moves, Tends, Says, Turning, Snap, Opened
    <3>3. Carries
      BY <1>1, <1>4, <3>1, <3>2, OneFrame
    <3> QED
      BY <1>2, <2>2, <2>3, <3>3 DEF Speaks
  <2>4. CASE thread.subscribed /\ pipe' = pipe
    <3>1. Carries
      BY <1>1, <2>2, <2>4, GrowsNot DEF Carries
    <3> QED
      BY <1>2, <2>2, <2>4, <3>1 DEF Speaks
  <2>5. CASE ~thread.subscribed
    <3>1. pipe' = pipe
      BY <1>1, <2>1, <2>5 DEF Notify
    <3> QED
      BY <1>2, <2>2, <2>5, <3>1 DEF Speaks
  <2> QED
    BY <1>1, <2>1, <2>3, <2>4, <2>5
<1> QED
  BY <1>5, <1>6, <1>7

LEMMA ServerSpeaks ==
  ASSUME Shape, Waiting,
         \/ Delegate \/ AskApproval \/ TuiApproves \/ EndTurn \/ ServerTakes
         \/ \E x \in Texts : Type(x)
  PROVE  Speaks
<1>1. CASE ServerTakes
  <2>1. \/ Refuses(Head(up)) \/ Overloaded(Head(up))
        \/ Head(up).op \in Sends /\ TakesPrompt(Head(up))
        \/ Head(up).op \in {"cancel", "interrupt"} /\ TakesInterrupt(Head(up))
        \/ Head(up).op \in {"attach", "items", "unsubscribe"} /\ Takes(Head(up))
        \/ Head(up).op = "approve" /\ TakesApproval(Head(up))
    BY <1>1 DEF ServerTakes, Accepts
  <2> QED
    BY <1>1, <2>1, RefusedSpeaks, PromptSpeaks, InterruptSpeaks, OtherwiseSpeaks
<1> QED
  BY <1>1, AnnouncedSpeaks, TypedSpeaks

LEMMA WatchedServer ==
  ASSUME Shape, Shape', Watched, Speaks
  PROVE  Watched'
<1>1. /\ pipe \in Seq(Frames(prompts)) /\ up \in Seq(Sending(prompts))
      /\ pipe' \in Seq(Frames(prompts'))
  BY DEF Shape
<1>2. /\ UNCHANGED <<at, active, child, raced, created>> /\ (Tracked' <=> Tracked)
  BY DEF Speaks, Tracked
<1>3. \A i \in DOMAIN up' : \E j \in DOMAIN up : up'[i] = up[j]
  <2>1. CASE up' = up
    BY <2>1
  <2>2. CASE up # << >> /\ up' = Tail(up)
    BY <1>1, <2>2, Popped
  <2> QED
    BY <2>1, <2>2 DEF Speaks
<1> SUFFICES ASSUME Tracked
             PROVE  /\ \A i \in DOMAIN up' : up'[i].op # "unsubscribe"
                    /\ thread'.subscribed => Shown'
                    /\ ~thread'.subscribed => Quietly'
  BY <1>2 DEF Watched
<1>4. /\ \A i \in DOMAIN up : up[i].op # "unsubscribe"
      /\ thread.subscribed => Shown
      /\ ~thread.subscribed => Quietly
  BY DEF Watched
<1>5. \A i \in DOMAIN up' : up'[i].op # "unsubscribe"
  BY <1>3, <1>4
<1>6. up # << >> => 1 \in DOMAIN up /\ up[1] = Head(up)
  BY <1>1, Popped
<1>7. ASSUME Carries, Shown PROVE Shown'
  <2> DEFINE S == Frames(prompts) \union Frames(prompts')
  <2>1. pipe \in Seq(S) /\ pipe' \in Seq(S)
    <3>1. \A T : T \subseteq S => \A u \in Seq(T) : u \in Seq(S)
      OBVIOUS
    <3> QED
      BY <1>1, <3>1
  <2> HIDE DEF S
  <2>2. Good(pipe', thread'.turn, thread'.child, at, active, child, raced)
    BY <1>7, <2>1, GoodGrows DEF Carries, Shown
  <2> QED
    BY <1>2, <2>2 DEF Shown
<1>8. CASE thread.subscribed /\ thread'.subscribed /\ Carries
  BY <1>4, <1>5, <1>7, <1>8
<1>9. CASE ~thread.subscribed /\ thread'.subscribed /\ Carries /\ up # << >> /\ Head(up).op = "attach"
  <2>1. Shown
    BY <1>4, <1>6, <1>9, SilentIsGood DEF Shown, Quietly
  <2> QED
    BY <1>5, <1>7, <1>9, <2>1
<1>10. CASE /\ ~thread.subscribed /\ ~thread'.subscribed
            /\ pipe' = pipe \/ \E f \in Answers(prompts') : ~Snap(f, at) /\ pipe' = Append(pipe, f)
  <2>1. \A i \in DOMAIN pipe' : pipe'[i].kind \in Answering /\ ~Snap(pipe'[i], at)
    <3>1. \A i \in DOMAIN pipe : pipe[i].kind \in Answering /\ ~Snap(pipe[i], at)
      BY <1>4, <1>10 DEF Quietly, Silent
    <3>2. \A f \in Answers(prompts') : f.kind \in Answering
      BY DEF Answers, Answering
    <3>3. ASSUME NEW f \in Answers(prompts'), ~Snap(f, at), pipe' = Append(pipe, f)
          PROVE  \A i \in DOMAIN pipe' : pipe'[i].kind \in Answering /\ ~Snap(pipe'[i], at)
      <4>1. \A i \in DOMAIN Append(pipe, f) : i \in DOMAIN pipe \/ i = Len(pipe) + 1
        BY <1>1
      <4>2. /\ Append(pipe, f)[Len(pipe) + 1] = f
            /\ \A i \in DOMAIN pipe : Append(pipe, f)[i] = pipe[i]
        BY <1>1
      <4> QED
        BY <3>1, <3>2, <3>3, <4>1, <4>2
    <3> QED
      BY <1>10, <3>1, <3>3
  <2>2. (\E i \in DOMAIN up' : up'[i].op = "attach") => \E i \in DOMAIN up : up[i].op = "attach"
    BY <1>3
  <2>3. Silent(pipe', up', at, raced)
    BY <1>4, <1>10, <2>1, <2>2 DEF Quietly, Silent
  <2> QED
    BY <1>2, <1>5, <1>10, <2>3 DEF Quietly
<1>11. ~(up # << >> /\ Head(up).op = "unsubscribe")
  BY <1>4, <1>6
<1> QED
  BY <1>8, <1>9, <1>10, <1>11 DEF Speaks
-----------------------------------------------------------------------------
(* What the tasks do                                                       *)

\* Whose calls what are.
Roles ==
    /\ at["topic"].op \in {None, "attach", "items"}
    /\ at["worker"].op \notin {"attach", "items"}
    /\ \A t \in Tasks : at[t].pc = "idle" => at[t] = Idle

Posts(t) ==
    \/ up' = up
    \/ \E q : /\ up' = Append(up, q) /\ q.by = t /\ q.op = at'[t].op
              /\ at'[t].pc = "asked" /\ link' # "down"

\* A step of t after which it holds no answer, and which shows nothing of the
\* thread, or has begun to leave it.
Calm(t) ==
    /\ UNCHANGED <<pipe, thread>> /\ raced \subseteq raced' /\ Posts(t)
    /\ at' = [u \in Tasks |-> at'[u]]
    /\ \A u \in Tasks : /\ u # t => at'[u] = at[u]
                        /\ at'[u].pc = "idle" => at'[u] = Idle
    /\ at[t].pc # "asked" /\ at'[t].pc # "answered" /\ at'[t].child \in {None, at[t].child}
    /\ at[t] = Idle => created /\ \A u \in Tasks : ~Closing(u)
    /\ (Tracked' => Tracked) /\ UNCHANGED <<active, child, seen, requests, created>>
    /\ t = "worker" => at'[t].op \notin {"attach", "items"}
    /\ t = "topic" =>
         \/ /\ at[t].pc # "answered" /\ at'[t].op = at[t].op /\ at'[t].child = at[t].child
            /\ at'[t].moved = at[t].moved
         \/ at[t] = Idle /\ at'[t].op = "attach"
         \/ at[t].op = "attach" /\ at'[t] = Idle /\ {"turn", "child"} \subseteq raced'

LEMMA AskedFor ==
  ASSUME Shape, NEW t \in Tasks, NEW a \in Doing,
         \/ Request(t, a) /\ link' = link
         \/ Post(t, a) /\ link' # "down"
  PROVE  /\ at' = [u \in Tasks |-> at'[u]] /\ \A u \in Tasks : u # t => at'[u] = at[u]
         /\ at'[t].op = a.op /\ at'[t].child = a.child /\ at'[t].moved = a.moved
         /\ at'[t].turn = a.turn
         /\ at'[t].pc \in {"connecting", "asked"}
         /\ Posts(t)
<1>1. at \in [Tasks -> Call(prompts)]
  BY DEF Shape
<1>2. Asking(t, a)
  BY ItAsks
<1>3. CASE /\ at' = [at EXCEPT ![t] = [a EXCEPT !.pc = "connecting"]] /\ up' = up
  BY <1>1, <1>3 DEF Doing, Posts
<1>4. CASE /\ at' = [at EXCEPT ![t] = [a EXCEPT !.pc = "asked"]]
           /\ up' = Append(up, [by |-> t, op |-> a.op, n |-> a.n, text |-> a.text,
                                turn |-> a.turn])
           /\ link' # "down"
  <2>1. /\ at' = [u \in Tasks |-> at'[u]] /\ \A u \in Tasks : u # t => at'[u] = at[u]
        /\ at'[t].op = a.op /\ at'[t].child = a.child /\ at'[t].moved = a.moved
        /\ at'[t].turn = a.turn /\ at'[t].pc = "asked"
    BY <1>1, <1>4 DEF Doing
  <2>2. Posts(t)
    BY <1>4, <2>1 DEF Posts
  <2> QED
    BY <2>1, <2>2
<1> QED
  BY <1>2, <1>3, <1>4 DEF Asking

LEMMA BeganFields ==
  ASSUME NEW op, NEW n, NEW x, NEW turn
  PROVE  LET a == Began(op, n, x, turn)
         IN  a.op = op /\ a.child = None /\ a.moved = {} /\ a.turn = turn
  BY DEF Began, Idle

LEMMA BeganIsDoing ==
  ASSUME NEW op \in Ops, NEW n \in Nat, NEW x \in Texts \union {None}, NEW turn \in Nat
  PROVE  Began(op, n, x, turn) \in Doing
  BY DEF Began, Idle, Doing, Words

LEMMA TaskFields ==
  ASSUME Shape
  PROVE  /\ prompts \in Nat /\ at \in [Tasks -> Call(prompts)]
         /\ \A t \in Tasks : at[t] \in Doing /\ at[t].turn \in Turns(prompts)
         /\ active \in Turns(prompts) /\ 0 \in Turns(prompts) /\ active \in Nat
         /\ "worker" \in Tasks /\ "topic" \in Tasks
         /\ \A t \in Tasks : t = "worker" \/ t = "topic"
         /\ Idle.pc = "idle" /\ Idle.op = None /\ Idle.child = None /\ Idle.moved = {}
  BY DEF Shape, Call, Turns, Tasks, Idle

\* The calls that begin.
LEMMA BeginsCalmly ==
  ASSUME CodexAssumption, Shape, Shape', Roles, NEW t \in Tasks,
         \/ \E op \in Sends, x \in Texts : Prompt(t, op, x)
         \/ Cancel(t) \/ Attach(t) \/ Close(t)
  PROVE  Calm(t)
<1>1. /\ prompts \in Nat /\ at \in [Tasks -> Call(prompts)] /\ active \in Turns(prompts)
      /\ 0 \in Turns(prompts) /\ "worker" \in Tasks /\ "topic" \in Tasks
      /\ Idle.pc = "idle" /\ Idle.op = None /\ Idle.child = None
  BY TaskFields
<1>2. /\ at[t] = Idle /\ UNCHANGED <<pipe, thread, link, active, child, seen, requests, created>>
      /\ created /\ \A u \in Tasks : ~Closing(u)
  BY DEF Prompt, Cancel, Attach, Close, May, Still, server, view
<1>3. raced \subseteq raced' /\ ("closed" \notin raced' => "closed" \notin raced)
  BY DEF Prompt, Cancel, Attach, Close
<1>4. PICK op, n, x, turn :
        /\ Request(t, Began(op, n, x, turn)) /\ Began(op, n, x, turn) \in Doing
        /\ t = "topic" => op = "attach"
        /\ t = "worker" => op \notin {"attach", "items"}
  <2>1. \A op \in Ops \ Sends : \A m \in Turns(prompts) : Began(op, 0, None, m) \in Doing
    <3>1. ASSUME NEW op \in Ops \ Sends, NEW m \in Turns(prompts) PROVE Began(op, 0, None, m) \in Doing
      BY <1>1, BeganIsCall DEF Call
    <3> QED
      BY <3>1
  <2>2. ASSUME NEW op \in Sends, NEW x \in Texts, Prompt(t, op, x)
        PROVE  \E o, n, y, turn :
                 /\ Request(t, Began(o, n, y, turn)) /\ Began(o, n, y, turn) \in Doing
                 /\ t = "topic" => o = "attach"
                 /\ t = "worker" => o \notin {"attach", "items"}
    <3> DEFINE m == IF op = "steer" THEN active ELSE 0
    <3>1. /\ t = "worker" /\ Request(t, Began(op, prompts + 1, x, m))
      BY <2>2 DEF Prompt
    <3>2. op \in Ops /\ prompts + 1 \in Nat /\ m \in Nat
      BY <1>1 DEF Ops, Sends, Turns
    <3>3. Began(op, prompts + 1, x, m) \in Doing
      BY <3>2, BeganIsDoing
    <3> QED
      BY <3>1, <3>3 DEF Sends
  <2>3. CASE Cancel(t)
    <3>1. t = "worker" /\ Request(t, Began("cancel", 0, None, active))
      BY <2>3 DEF Cancel
    <3> QED
      BY <1>1, <2>1, <3>1 DEF Ops, Sends
  <2>4. CASE Attach(t)
    <3>1. t = "topic" /\ Request(t, Began("attach", 0, None, 0))
      BY <2>4 DEF Attach
    <3> QED
      BY <1>1, <2>1, <3>1 DEF Ops, Sends
  <2>5. CASE Close(t)
    <3> DEFINE o == IF active # 0 THEN "interrupt" ELSE "unsubscribe"
    <3>1. t = "worker" /\ Request(t, Began(o, 0, None, active))
      BY <2>5 DEF Close
    <3>2. o \in Ops \ Sends /\ o \notin {"attach", "items"}
      BY DEF Ops, Sends
    <3> QED
      BY <1>1, <2>1, <3>1, <3>2
  <2> QED
    BY <2>2, <2>3, <2>4, <2>5
<1> DEFINE a == Began(op, n, x, turn)
<1>5. /\ at' = [u \in Tasks |-> at'[u]] /\ \A u \in Tasks : u # t => at'[u] = at[u]
      /\ at'[t].op = a.op /\ at'[t].child = a.child
      /\ at'[t].pc \in {"connecting", "asked"} /\ Posts(t)
  BY <1>2, <1>4, AskedFor
<1>6. a.op = op /\ a.child = None
  BY BeganFields
<1>7. t = "worker" \/ t = "topic"
  BY DEF Tasks
<1>8. Tracked' => Tracked
  <2>1. CASE t = "worker"
    BY <1>1, <1>2, <1>3, <2>1 DEF Tracked, None
  <2>2. CASE t = "topic"
    BY <1>1, <1>2, <1>3, <1>5, <2>2 DEF Tracked
  <2> QED
    BY <1>7, <2>1, <2>2
<1>9. \A u \in Tasks : at'[u].pc = "idle" => at'[u] = Idle
  BY <1>5 DEF Roles
<1> QED
  BY <1>1, <1>2, <1>3, <1>4, <1>5, <1>6, <1>8, <1>9 DEF Calm

\* The calls that go on, and those that end and show nothing.
LEMMA GoesOnCalmly ==
  ASSUME Shape, Shape', Roles, NEW t \in Tasks,
         Retry(t) \/ GivesUp(t) \/ Greeted(t) \/ Connected(t) \/ DialFails(t)
  PROVE  Calm(t)
<1>1. /\ at \in [Tasks -> Call(prompts)] /\ at[t] \in Doing
      /\ "worker" \in Tasks /\ "topic" \in Tasks /\ (t = "worker" \/ t = "topic")
  BY TaskFields
<1>2. /\ UNCHANGED <<pipe, thread, active, child, seen, requests, created, raced>>
      /\ at[t].pc \in {"connecting", "overloaded"} /\ at[t] # Idle
  BY DEF Retry, GivesUp, Greeted, Connected, DialFails, Steady, Still, server, line, view,
         Replayable, Idle
<1>3. SUFFICES
        /\ at' = [u \in Tasks |-> at'[u]] /\ \A u \in Tasks : u # t => at'[u] = at[u]
        /\ at'[t].op = at[t].op /\ at'[t].child = at[t].child /\ at'[t].moved = at[t].moved
        /\ at'[t].pc \notin {"answered", "idle"} /\ Posts(t)
  <2>1. SUFFICES ASSUME
          /\ at' = [u \in Tasks |-> at'[u]] /\ \A u \in Tasks : u # t => at'[u] = at[u]
          /\ at'[t].op = at[t].op /\ at'[t].child = at[t].child /\ at'[t].moved = at[t].moved
          /\ at'[t].pc \notin {"answered", "idle"} /\ Posts(t)
               PROVE  Calm(t)
    BY <1>3
  <2>2. Tracked' => Tracked
    BY <1>1, <1>2, <2>1 DEF Tracked
  <2>3. t = "worker" => at'[t].op \notin {"attach", "items"}
    BY <2>1 DEF Roles
  <2>4. \A u \in Tasks : at'[u].pc = "idle" => at'[u] = Idle
    BY <2>1 DEF Roles
  <2> QED
    BY <1>2, <2>1, <2>2, <2>3, <2>4 DEF Calm
<1>4. CASE Retry(t)
  <2> DEFINE a == [at[t] EXCEPT !.tries = @ + 1]
  <2>1. a \in Doing /\ a.op = at[t].op /\ a.child = at[t].child /\ a.moved = at[t].moved
    BY <1>1 DEF Doing
  <2>2. Request(t, a) /\ link' = link
    BY <1>4 DEF Retry, Steady, Still
  <2> HIDE DEF a
  <2> QED
    BY <2>1, <2>2, AskedFor
<1>5. CASE Greeted(t) \/ Connected(t)
  <2>1. Post(t, at[t]) /\ link' # "down"
    BY <1>5 DEF Greeted, Connected
  <2> QED
    BY <1>1, <2>1, AskedFor
<1>6. CASE GivesUp(t) \/ DialFails(t)
  <2>1. up' = up /\ (at' = Become(t, "error") \/ at' = Become(t, "failed"))
    BY <1>6 DEF GivesUp, DialFails
  <2>2. Posts(t)
    BY <2>1 DEF Posts
  <2> QED
    BY <1>1, <2>1, <2>2 DEF Become, Doing
<1> QED
  BY <1>2, <1>4, <1>5, <1>6

LEMMA EndsCalmly ==
  ASSUME Shape, Shape', Roles, NEW t \in Tasks,
         \/ SendFails(t) \/ Fails(t)
         \/ Sent(t) /\ at[t].op # "send"
         \/ Interrupted(t) /\ at'[t].op # "unsubscribe"
  PROVE  Calm(t)
<1>1. /\ at \in [Tasks -> Call(prompts)] /\ at[t] \in Doing
      /\ "worker" \in Tasks /\ "topic" \in Tasks /\ (t = "worker" \/ t = "topic")
      /\ Idle.pc = "idle" /\ Idle.op = None /\ Idle.child = None
      /\ active \in Nat
  BY TaskFields
<1>2. CASE Interrupted(t) /\ at'[t].op # "unsubscribe" /\ active \in {0, at[t].turn}
  <2> DEFINE a == [at[t] EXCEPT !.op = "unsubscribe", !.tries = 0, !.moved = {}]
  <2>1. a \in Doing /\ a.op = "unsubscribe"
    BY <1>1 DEF Doing, Ops
  <2>2. Request(t, a) /\ link' = link
    BY <1>2 DEF Interrupted, Steady, Still
  <2> HIDE DEF a
  <2>3. at'[t].op = "unsubscribe"
    BY <2>1, <2>2, AskedFor
  <2> QED
    BY <1>2, <2>3
<1>3. CASE ~(Interrupted(t) /\ active \in {0, at[t].turn})
  <2>1. /\ UNCHANGED <<pipe, thread, active, child, seen, requests, created>> /\ Finish(t)
        /\ at[t].pc \notin {"asked", "idle"} /\ raced \subseteq raced'
        /\ at[t].op \in {"send", "steer", "cancel", "attach", "interrupt", "unsubscribe"}
        /\ at[t].op = "unsubscribe" => "closed" \in raced'
        /\ at[t].op = "attach" => {"turn", "child"} \subseteq raced'
    BY <1>3 DEF SendFails, Fails, Sent, Interrupted, Steady, Still, server, view, InTurn,
                Answered, Sends
  <2>2. /\ at' = [u \in Tasks |-> at'[u]] /\ \A u \in Tasks : u # t => at'[u] = at[u]
        /\ at'[t] = Idle /\ up' = up /\ at[t] # Idle
    BY <1>1, <2>1 DEF Finish
  <2>3. Posts(t)
    BY <2>2 DEF Posts
  <2>4. Tracked' => Tracked
    BY <1>1, <2>1, <2>2 DEF Tracked
  <2>5. \A u \in Tasks : at'[u].pc = "idle" => at'[u] = Idle
    BY <2>2 DEF Roles
  <2>6. t = "topic" => at[t].op = "attach"
    BY <1>1, <2>1 DEF Roles, None
  <2>7. None \notin {"attach", "items"}
    BY DEF None
  <2> QED
    BY <1>1, <2>1, <2>2, <2>3, <2>4, <2>5, <2>6, <2>7 DEF Calm
<1> QED
  BY <1>2, <1>3 DEF Interrupted, SendFails, Fails, Sent, InTurn, Answered

\* A step that is calm keeps what is shown.
LEMMA WatchedCalm ==
  ASSUME Shape, Waiting, Roles, Watched, NEW t \in Tasks, Calm(t)
  PROVE  Watched'
<1> SUFFICES ASSUME Tracked' PROVE Watched'
  BY DEF Watched
<1>1. /\ UNCHANGED <<pipe, thread, active, child>> /\ raced \subseteq raced' /\ Tracked
      /\ \A u \in Tasks : u # t => at'[u] = at[u]
      /\ "worker" \in Tasks /\ "topic" \in Tasks /\ (t = "worker" \/ t = "topic")
      /\ up \in Seq(Sending(prompts))
  BY TaskFields DEF Calm, Shape
<1>2. t = "worker" => at'["topic"] = at["topic"]
  BY <1>1
<1>3. t = "topic" => at'["worker"] = at["worker"]
  BY <1>1
<1>4. \A i \in DOMAIN pipe : ~IsTo(pipe[i], t)
  BY DEF Waiting, Calm
<1>5. t = "worker" => at'["worker"].pc # "answered" /\ at'["worker"].op \notin {"attach", "items"}
  BY DEF Calm
<1>6. t = "topic" =>
         /\ at'["topic"].pc # "answered" /\ at["topic"].pc # "asked"
         /\ \/ /\ at["topic"].pc # "answered" /\ at'["topic"].op = at["topic"].op
               /\ at'["topic"].child = at["topic"].child /\ at'["topic"].moved = at["topic"].moved
            \/ at["topic"].op = None /\ at'["topic"].op = "attach"
            \/ /\ at["topic"].op = "attach" /\ at'["topic"].op = None
               /\ {"turn", "child"} \subseteq raced'
  BY DEF Calm, Idle
<1>7. None \notin {"attach", "items", "unsubscribe"}
  BY DEF None
<1>8. \A i \in DOMAIN pipe : Snap(pipe[i], at') => Snap(pipe[i], at)
  BY <1>1, <1>2, <1>4 DEF Snap
<1>9. Has(at') => t = "worker" /\ Has(at)
  BY <1>1, <1>2, <1>6 DEF Has
<1>10. Hydrating(at') => Hydrating(at)
  BY <1>1, <1>2, <1>6, <1>7 DEF Hydrating
<1>11. Stale(at, raced) => Stale(at', raced')
  BY <1>1, <1>2, <1>6, <1>7 DEF Stale
<1>12. Has(at) /\ t = "topic" => at'["topic"].op # "attach" /\ {"turn", "child"} \subseteq raced'
  BY <1>6, <1>7 DEF Has
<1>13. \A i \in DOMAIN pipe : Opened(pipe[i], at') => Opened(pipe[i], at)
  BY <1>1, <1>3, <1>4 DEF Opened
<1>14. /\ Watched' = /\ \A i \in DOMAIN up' : up'[i].op # "unsubscribe"
                     /\ thread'.subscribed => Shown'
                     /\ ~thread'.subscribed => Quietly'
       /\ \A i \in DOMAIN up : up[i].op # "unsubscribe"
       /\ thread.subscribed => Shown
       /\ ~thread.subscribed => Quietly
  BY <1>1 DEF Watched
<1>15. \A i \in DOMAIN up' : \/ i \in DOMAIN up /\ up'[i] = up[i]
                             \/ up'[i].op = at'[t].op /\ at'[t].pc = "asked"
  <2>1. CASE up' = up
    BY <2>1
  <2>2. ASSUME NEW q, up' = Append(up, q), q.op = at'[t].op, at'[t].pc = "asked"
        PROVE  \A i \in DOMAIN up' : \/ i \in DOMAIN up /\ up'[i] = up[i]
                                     \/ up'[i].op = at'[t].op /\ at'[t].pc = "asked"
    <3>1. \A i \in DOMAIN Append(up, q) : \/ i \in DOMAIN up /\ Append(up, q)[i] = up[i]
                                          \/ Append(up, q)[i] = q
      BY <1>1
    <3> QED
      BY <2>2, <3>1
  <2> QED
    BY <2>1, <2>2 DEF Calm, Posts
<1>16. \A i \in DOMAIN up' : up'[i].op # "unsubscribe"
  <2>1. at'[t].op # "unsubscribe"
    BY <1>1, <1>6, <1>7 DEF Tracked, Roles
  <2> QED
    BY <1>14, <1>15, <2>1
<1>17. ASSUME Shown PROVE Shown'
  <2>1. Good(pipe, thread.turn, thread.child, at, active, child, raced)
    BY <1>17 DEF Shown
  <2>2. ASSUME NEW i \in DOMAIN pipe
        PROVE  /\ Right(pipe, thread.turn, thread.child, at', i)
               /\ \/ RightTurn(pipe, thread.turn, at', i)
                  \/ Excused(pipe, at', raced', i)
    <3>1. Right(pipe, thread.turn, thread.child, at', i)
      BY <1>8, <2>1, <2>2 DEF Good, Right
    <3>2. RightTurn(pipe, thread.turn, at, i) => RightTurn(pipe, thread.turn, at', i)
      BY <1>13, <2>2 DEF RightTurn
    <3>3. Excused(pipe, at, raced, i) => Excused(pipe, at', raced', i)
      BY <1>8, <1>9, <1>11, <2>2 DEF Excused
    <3> QED
      BY <2>1, <2>2, <3>1, <3>2, <3>3 DEF Good
  <2>3. TurnShown(pipe, thread.turn, at', active, raced')
    <3>1. TurnShown(pipe, thread.turn, at, active, raced)
      BY <2>1 DEF Good
    <3>2. Has(at') => Leads(pipe, thread.turn, at'["topic"].turn, 0) \/ "turn" \in at'["topic"].moved
      BY <1>2, <1>9, <3>1 DEF TurnShown
    <3>3. at'["worker"].op = "send" /\ at'["worker"].pc = "answered" =>
            \/ Leads(pipe, thread.turn, at'["worker"].turn, 0) \/ "turn" \in at'["worker"].moved
            \/ Stale(at', raced') /\ (Has(at') => "second" \in at'["topic"].moved)
      BY <1>1, <1>3, <1>5, <1>9, <1>11, <3>1 DEF TurnShown
    <3>4. at'["topic"].op # "attach" => Leads(pipe, thread.turn, active, 0) \/ "turn" \in raced'
      BY <1>1, <1>2, <1>6, <3>1 DEF TurnShown
    <3> QED
      BY <3>2, <3>3, <3>4 DEF TurnShown
  <2>4. ChildShown(pipe, thread.child, at', child, raced')
    <3>1. ChildShown(pipe, thread.child, at, child, raced)
      BY <2>1 DEF Good
    <3>2. CASE t = "worker"
      BY <1>1, <1>2, <3>1, <3>2 DEF ChildShown, Has, Hydrating
    <3>3. CASE t = "topic"
      BY <1>1, <1>6, <1>7, <1>9, <1>10, <3>1, <3>3 DEF ChildShown, Hydrating
    <3> QED
      BY <1>1, <3>2, <3>3
  <2>5. Good(pipe, thread.turn, thread.child, at', active, child, raced')
    BY <2>2, <2>3, <2>4 DEF Good
  <2> QED
    BY <1>1, <2>5 DEF Shown
<1>18. ASSUME Quietly PROVE Quietly'
  <2>1. /\ \A i \in DOMAIN pipe : pipe[i].kind \in Answering /\ ~Snap(pipe[i], at)
        /\ (\E i \in DOMAIN up : up[i].op = "attach") =>
              /\ ~Has(at) /\ ~Hydrating(at)
              /\ at["topic"].op = "attach" \/ {"turn", "child"} \subseteq raced
    BY <1>18 DEF Quietly, Silent
  <2>2. \A i \in DOMAIN pipe : pipe[i].kind \in Answering /\ ~Snap(pipe[i], at')
    BY <1>8, <2>1
  <2>3. CASE \E i \in DOMAIN up : up[i].op = "attach"
    <3>1. ~Has(at') /\ ~Hydrating(at')
      BY <1>9, <1>10, <2>1, <2>3
    <3>2. at'["topic"].op = "attach" \/ {"turn", "child"} \subseteq raced'
      BY <1>1, <1>2, <1>6, <2>1, <2>3
    <3>3. Silent(pipe, up', at', raced')
      BY <2>2, <3>1, <3>2 DEF Silent
    <3> QED
      BY <1>1, <3>3 DEF Quietly
  <2>4. CASE \A i \in DOMAIN up : up[i].op # "attach"
    <3>1. (\E i \in DOMAIN up' : up'[i].op = "attach") => at'[t].op = "attach" /\ at'[t].pc = "asked"
      BY <1>15, <2>4
    <3>2. at'[t].op = "attach" => t = "topic"
      BY <1>1, <1>5
    <3>3. (\E i \in DOMAIN up' : up'[i].op = "attach") =>
              at'["topic"].op = "attach" /\ at'["topic"].pc = "asked"
      BY <3>1, <3>2
    <3>4. Silent(pipe, up', at', raced')
      BY <2>2, <3>3 DEF Silent, Has, Hydrating
    <3> QED
      BY <1>1, <3>4 DEF Quietly
  <2> QED
    BY <2>3, <2>4
<1> QED
  BY <1>1, <1>14, <1>16, <1>17, <1>18 DEF Watched

\* A send is answered, and what it said is shown.
LEMMA WatchedSent ==
  ASSUME Shape, Roles, Watched, NEW t \in Tasks, Sent(t), at[t].op = "send"
  PROVE  Watched'
<1>1. /\ at \in [Tasks -> Call(prompts)] /\ "worker" \in Tasks /\ "topic" \in Tasks
      /\ (t = "worker" \/ t = "topic")
      /\ Idle.pc = "idle" /\ Idle.op = None
  BY TaskFields
<1>2. t = "worker" /\ at["worker"].op = "send" /\ at["worker"].pc = "answered"
  BY <1>1 DEF Roles, Sent, InTurn, Answered, None
<1>3. /\ UNCHANGED <<pipe, thread, child, created, up>>
      /\ active' = at["worker"].turn /\ raced' = raced \union (at["worker"].moved \intersect {"turn"})
      /\ at' = [at EXCEPT !["worker"] = Idle]
  BY <1>2 DEF Sent, Finish, Steady, Still, server
<1>4. at'["topic"] = at["topic"] /\ at'["worker"] = Idle
  BY <1>1, <1>3
<1>5. /\ Has(at') <=> Has(at)
      /\ Hydrating(at') <=> Hydrating(at)
      /\ \A f : Snap(f, at') <=> Snap(f, at)
      /\ \A f : ~Opened(f, at')
  BY <1>4, <1>1 DEF Has, Hydrating, Snap, Opened, None
<1>6. Tracked' => Tracked
  BY <1>2, <1>3 DEF Tracked
<1>7. Shown => Shown'
  <2> SUFFICES ASSUME Shown PROVE Good(pipe, thread.turn, thread.child, at', active', child, raced')
    BY <1>3 DEF Shown
  <2>1. Good(pipe, thread.turn, thread.child, at, active, child, raced)
    BY DEF Shown
  <2>2. \A i \in DOMAIN pipe : /\ Right(pipe, thread.turn, thread.child, at', i)
                               /\ RightTurn(pipe, thread.turn, at', i)
    BY <1>5, <2>1 DEF Good, Right, RightTurn
  <2>3. TurnShown(pipe, thread.turn, at', active', raced')
    <3>1. TurnShown(pipe, thread.turn, at, active, raced)
      BY <2>1 DEF Good
    <3>2. at["topic"].op # "attach" => Leads(pipe, thread.turn, active', 0) \/ "turn" \in raced'
      BY <1>2, <1>3, <3>1 DEF TurnShown, Stale
    <3>3. at'["worker"].op # "send"
      BY <1>1, <1>4 DEF None
    <3> QED
      BY <1>4, <1>5, <3>1, <3>2, <3>3 DEF TurnShown
  <2>4. ChildShown(pipe, thread.child, at', child, raced')
    BY <1>3, <1>4, <1>5, <2>1 DEF Good, ChildShown
  <2> QED
    BY <2>2, <2>3, <2>4 DEF Good
<1>8. Quietly => Quietly'
  BY <1>3, <1>4, <1>5 DEF Quietly, Silent
<1> QED
  BY <1>3, <1>6, <1>7, <1>8 DEF Watched

\* An attach is answered, and its snapshot is shown.
LEMMA WatchedResumed ==
  ASSUME Shape, Roles, Watched, NEW t \in Tasks, Resumed(t)
  PROVE  Watched'
<1>1. /\ at \in [Tasks -> Call(prompts)] /\ "worker" \in Tasks /\ "topic" \in Tasks
      /\ (t = "worker" \/ t = "topic") /\ at[t] \in Doing
      /\ Idle.pc = "idle" /\ Idle.op = None /\ up \in Seq(Sending(prompts))
      /\ None \notin {"attach", "items", "unsubscribe"}
  BY TaskFields DEF None, Shape
<1>2. /\ t = "topic" /\ Has(at) /\ ~Hydrating(at)
      /\ "second" \in at["topic"].moved => at["worker"].pc # "answered"
  BY <1>1 DEF Roles, Resumed, InTurn, Answered, Has, Hydrating
<1>3. /\ UNCHANGED <<pipe, thread, created>> /\ active' = at["topic"].turn /\ link' = link
      /\ "closed" \in raced => "closed" \in raced'
      /\ "turn" \in at["topic"].moved => "turn" \in raced'
      /\ "child" \in raced => "child" \in raced'
  BY <1>2 DEF Resumed, Steady, Still, server, Snapshot
<1>4. \/ /\ at'["topic"].op = "items" /\ at'["topic"].child = at["topic"].child
         /\ at'["topic"].moved = at["topic"].moved \ {"second"} /\ child' = child
         /\ (\E q : up' = Append(up, q) /\ q.op = "items") \/ up' = up
      \/ /\ at'["topic"] = Idle /\ up' = up
         /\ child' = IF at["topic"].child = None THEN child ELSE StatusOf(at["topic"].child)
         /\ "child" \in at["topic"].moved => "child" \in raced'
  <2>1. CASE at["topic"].turn # 0
    <3> DEFINE a == [at["topic"] EXCEPT !.op = "items", !.tries = 0, !.moved = @ \ {"second"}]
    <3>1. /\ a \in Doing /\ a.op = "items" /\ a.child = at["topic"].child
          /\ a.moved = at["topic"].moved \ {"second"}
      BY <1>1, <1>2 DEF Doing, Ops
    <3>2. Request("topic", a) /\ child' = child
      BY <1>2, <2>1 DEF Resumed
    <3> HIDE DEF a
    <3>3. /\ at'["topic"].op = a.op /\ at'["topic"].child = a.child /\ at'["topic"].moved = a.moved
          /\ Posts("topic")
      BY <1>1, <1>3, <3>1, <3>2, AskedFor
    <3> QED
      BY <3>1, <3>2, <3>3 DEF Posts
  <2>2. CASE at["topic"].turn = 0
    <3>1. /\ Finish("topic")
          /\ child' = IF at["topic"].child = None THEN child ELSE StatusOf(at["topic"].child)
          /\ "child" \in at["topic"].moved => "child" \in raced'
      BY <1>2, <2>2 DEF Resumed
    <3> QED
      BY <1>1, <3>1 DEF Finish
  <2> QED
    BY <2>1, <2>2
<1>5. at'["worker"] = at["worker"]
  <2>1. CASE at["topic"].turn # 0
    <3>1. \E a : Request("topic", a)
      BY <1>2, <2>1 DEF Resumed
    <3> QED
      BY <1>1, <3>1 DEF Request, Post
  <2>2. CASE at["topic"].turn = 0
    BY <1>1, <1>2, <2>2 DEF Resumed, Finish
  <2> QED
    BY <2>1, <2>2
<1>6. /\ at'["topic"].op \in {None, "items"}
      /\ ~Has(at') /\ (Hydrating(at') <=> at'["topic"].op = "items")
      /\ \A f : ~Snap(f, at')
      /\ \A f : Opened(f, at') <=> Opened(f, at)
  BY <1>1, <1>4, <1>5 DEF Has, Hydrating, Snap, Opened
<1>7. /\ Tracked' => Tracked
      /\ \A i \in DOMAIN up' : up'[i].op \in {"attach", "unsubscribe"} => i \in DOMAIN up /\ up'[i] = up[i]
  <2>1. CASE up' = up
    BY <1>3, <1>5, <2>1 DEF Tracked
  <2>2. ASSUME NEW q, up' = Append(up, q), q.op = "items"
        PROVE  \A i \in DOMAIN up' : up'[i].op \in {"attach", "unsubscribe"} => i \in DOMAIN up /\ up'[i] = up[i]
    <3>1. \A i \in DOMAIN Append(up, q) : \/ i \in DOMAIN up /\ Append(up, q)[i] = up[i]
                                          \/ Append(up, q)[i] = q
      BY <1>1
    <3> QED
      BY <2>2, <3>1
  <2>3. Tracked' => Tracked
    BY <1>3, <1>5 DEF Tracked
  <2> QED
    BY <1>4, <2>1, <2>2, <2>3
<1>8. Shown => Shown'
  <2> SUFFICES ASSUME Shown PROVE Good(pipe, thread.turn, thread.child, at', active', child', raced')
    BY <1>3 DEF Shown
  <2>1. Good(pipe, thread.turn, thread.child, at, active, child, raced)
    BY DEF Shown
  <2>2. \A i \in DOMAIN pipe : /\ Right(pipe, thread.turn, thread.child, at', i)
                               /\ RightTurn(pipe, thread.turn, at', i)
    BY <1>2, <1>6, <2>1 DEF Good, Right, RightTurn, Excused
  <2>3. TurnShown(pipe, thread.turn, at', active', raced')
    <3>1. TurnShown(pipe, thread.turn, at, active, raced)
      BY <2>1 DEF Good
    <3>2. Leads(pipe, thread.turn, active', 0) \/ "turn" \in raced'
      BY <1>2, <1>3, <3>1 DEF TurnShown
    <3>3. at'["worker"].op = "send" /\ at'["worker"].pc = "answered" =>
            Leads(pipe, thread.turn, at'["worker"].turn, 0) \/ "turn" \in at'["worker"].moved
      BY <1>2, <1>5, <3>1 DEF TurnShown
    <3> QED
      BY <1>6, <3>2, <3>3 DEF TurnShown
  <2>4. ChildShown(pipe, thread.child, at', child', raced')
    <3>1. /\ at["topic"].child # None =>
               LastChild(pipe, thread.child, StatusOf(at["topic"].child), 0) \/ "child" \in at["topic"].moved
          /\ at["topic"].child = None => LastChild(pipe, thread.child, child, 0) \/ "child" \in raced
      BY <1>2, <2>1 DEF Good, ChildShown
    <3> QED
      BY <1>1, <1>3, <1>4, <1>6, <3>1 DEF ChildShown
  <2> QED
    BY <2>2, <2>3, <2>4 DEF Good
<1>9. Quietly => Quietly'
  BY <1>2, <1>3, <1>6, <1>7 DEF Quietly, Silent
<1> QED
  BY <1>3, <1>7, <1>8, <1>9 DEF Watched

\* The items have come, or have not, and the snapshot's child is shown.
LEMMA WatchedHydrated ==
  ASSUME Shape, Waiting, Roles, Watched, NEW t \in Tasks, Hydrated(t)
  PROVE  Watched'
<1>1. /\ at \in [Tasks -> Call(prompts)] /\ "worker" \in Tasks /\ "topic" \in Tasks
      /\ (t = "worker" \/ t = "topic")
      /\ Idle.pc = "idle" /\ Idle.op = None /\ None \notin {"attach", "items", "unsubscribe"}
  BY TaskFields DEF None
<1>2. t = "topic" /\ Hydrating(at) /\ at["topic"].pc # "asked" /\ ~Has(at)
  BY <1>1 DEF Roles, Hydrated, InTurn, Answered, Has, Hydrating
<1>3. /\ UNCHANGED <<pipe, thread, created, active, up>>
      /\ child' = IF at["topic"].child = None THEN child ELSE StatusOf(at["topic"].child)
      /\ "closed" \in raced => "closed" \in raced'
      /\ "turn" \in raced => "turn" \in raced'
      /\ at["topic"].child = None /\ "child" \in raced => "child" \in raced'
      /\ at["topic"].child # None /\ "child" \in at["topic"].moved => "child" \in raced'
      /\ Finish("topic")
  BY <1>2 DEF Hydrated, Hydrate, Finish, Steady, Still, server
<1>4. at'["topic"] = Idle /\ at'["worker"] = at["worker"]
  BY <1>1, <1>3 DEF Finish
<1>5. /\ ~Has(at') /\ ~Hydrating(at')
      /\ \A f : ~Snap(f, at')
      /\ \A f : Opened(f, at') <=> Opened(f, at)
  BY <1>1, <1>4 DEF Has, Hydrating, Snap, Opened
<1>6. Tracked' => Tracked
  BY <1>3, <1>4 DEF Tracked
<1>7. Stale(at, raced) => Stale(at', raced')
  BY <1>2, <1>3 DEF Stale, Hydrating
<1>8. Shown => Shown'
  <2> SUFFICES ASSUME Shown PROVE Good(pipe, thread.turn, thread.child, at', active, child', raced')
    BY <1>3 DEF Shown
  <2>1. Good(pipe, thread.turn, thread.child, at, active, child, raced)
    BY DEF Shown
  <2>2. ASSUME NEW i \in DOMAIN pipe
        PROVE  /\ Right(pipe, thread.turn, thread.child, at', i)
               /\ RightTurn(pipe, thread.turn, at', i) \/ Excused(pipe, at', raced', i)
    <3>1. Right(pipe, thread.turn, thread.child, at', i)
      BY <1>5, <2>1, <2>2 DEF Good, Right
    <3>2. RightTurn(pipe, thread.turn, at, i) => RightTurn(pipe, thread.turn, at', i)
      BY <1>5 DEF RightTurn
    <3>3. Excused(pipe, at, raced, i) => Excused(pipe, at', raced', i)
      BY <1>5, <1>7 DEF Excused
    <3> QED
      BY <2>1, <2>2, <3>1, <3>2, <3>3 DEF Good
  <2>3. TurnShown(pipe, thread.turn, at', active, raced')
    <3>1. TurnShown(pipe, thread.turn, at, active, raced)
      BY <2>1 DEF Good
    <3>2. Leads(pipe, thread.turn, active, 0) \/ "turn" \in raced'
      BY <1>2, <1>3, <3>1 DEF TurnShown, Hydrating
    <3>3. at'["worker"].op = "send" /\ at'["worker"].pc = "answered" =>
            \/ Leads(pipe, thread.turn, at'["worker"].turn, 0) \/ "turn" \in at'["worker"].moved
            \/ Stale(at', raced')
      BY <1>4, <1>7, <3>1 DEF TurnShown
    <3> QED
      BY <1>5, <3>2, <3>3 DEF TurnShown
  <2>4. ChildShown(pipe, thread.child, at', child', raced')
    <3>1. /\ at["topic"].child # None =>
               LastChild(pipe, thread.child, StatusOf(at["topic"].child), 0) \/ "child" \in at["topic"].moved
          /\ at["topic"].child = None => LastChild(pipe, thread.child, child, 0) \/ "child" \in raced
      BY <1>2, <2>1 DEF Good, ChildShown
    <3> QED
      BY <1>3, <1>5, <3>1 DEF ChildShown
  <2> QED
    BY <2>2, <2>3, <2>4 DEF Good
<1>9. Quietly => Quietly'
  BY <1>2, <1>3, <1>5 DEF Quietly, Silent
<1> QED
  BY <1>3, <1>6, <1>8, <1>9 DEF Watched

\* The close goes on, or is done: the thread is no longer watched.
LEMMA LeavesUnwatched ==
  ASSUME Shape, Roles, NEW t \in Tasks,
         Unsubscribed(t) \/ (Interrupted(t) /\ at'[t].op = "unsubscribe")
  PROVE  Watched'
<1>1. CASE Unsubscribed(t)
  BY <1>1 DEF Unsubscribed, Watched, Tracked
<1>2. CASE Interrupted(t) /\ at'[t].op = "unsubscribe"
  <2>1. (t = "worker" \/ t = "topic") /\ at[t].op = "interrupt"
    BY <1>2, TaskFields DEF Interrupted
  <2>2. t = "worker"
    BY <2>1 DEF Roles, None
  <2> QED
    BY <1>2, <2>2 DEF Watched, Tracked
<1> QED
  BY <1>1, <1>2

\* The connection ends, and with it all that was told.
LEMMA WatchedDrop ==
  ASSUME Shape, Drop
  PROVE  Watched'
<1>1. pipe' = << >> /\ up' = << >> /\ thread' = [thread EXCEPT !.subscribed = FALSE]
  BY DEF Drop
<1>2. ~thread'.subscribed
  BY <1>1, ThreadFields
<1>3. Quietly'
  BY <1>1 DEF Quietly, Silent
<1> QED
  BY <1>1, <1>2, <1>3 DEF Watched

\* What concerns neither the thread nor the tasks.
LEMMA WatchedAside ==
  ASSUME Shape, Watched, \/ \E t \in Tasks : Dial(t)
                         \/ EchoExpires \/ \E r \in requests : Approve(r)
  PROVE  Watched'
<1>1. /\ UNCHANGED <<pipe, thread, at, active, child, raced, created>>
      /\ \A i \in DOMAIN up' : \/ i \in DOMAIN up /\ up'[i] = up[i]
                               \/ up'[i].op = "approve"
  BY ApprovalSends DEF Dial, EchoExpires, server, view, line
<1>2. (Tracked' <=> Tracked) /\ (Shown' <=> Shown) /\ (Quietly => Quietly')
  BY <1>1 DEF Tracked, Shown, Quietly, Silent
<1> QED
  BY <1>1, <1>2 DEF Watched

\* An answer that nobody waits for any more claims nothing.
\* What a wait that was given up leaves of the answer to it.
LEMMA PipeTimesOut ==
  ASSUME Shape, NEW t \in Tasks, TimesOut(t)
  PROVE  /\ DOMAIN pipe' = DOMAIN pipe
         /\ \A i \in DOMAIN pipe :
              \/ pipe'[i] = pipe[i]
              \/ /\ pipe[i].kind \in Answering /\ pipe'[i].kind = pipe[i].kind
                 /\ pipe'[i].turn = pipe[i].turn /\ pipe'[i].child = pipe[i].child
                 /\ \A u \in Tasks : ~IsTo(pipe'[i], u)
<1>1. pipe \in Seq(Frames(prompts)) /\ None \notin Tasks
  BY DEF None, Tasks, Shape
<1>2. DOMAIN pipe' = DOMAIN pipe
  BY DEF TimesOut
<1> SUFFICES ASSUME NEW i \in DOMAIN pipe, IsTo(pipe[i], t)
             PROVE  /\ pipe[i].kind \in Answering /\ pipe'[i].kind = pipe[i].kind
                    /\ pipe'[i].turn = pipe[i].turn /\ pipe'[i].child = pipe[i].child
                    /\ \A u \in Tasks : ~IsTo(pipe'[i], u)
  BY <1>2 DEF TimesOut, IsTo
<1>3. pipe'[i] = [pipe[i] EXCEPT !.to = None]
  BY DEF TimesOut, IsTo
<1>4. pipe[i] \in Answers(prompts)
  BY <1>1, FrameKinds DEF IsTo, Frames
<1> QED
  BY <1>1, <1>3, <1>4 DEF Answers, Answering, IsTo

LEMMA WatchedTimesOut ==
  ASSUME Shape, Watched, NEW t \in Tasks, TimesOut(t)
  PROVE  Watched'
<1>1. /\ at \in [Tasks -> Call(prompts)] /\ "worker" \in Tasks /\ "topic" \in Tasks
      /\ (t = "worker" \/ t = "topic") /\ at["worker"] \in Doing /\ at["topic"] \in Doing
      /\ up \in Seq(Sending(prompts)) /\ pipe \in Seq(Frames(prompts))
      /\ None \notin Tasks
  BY TaskFields DEF None, Tasks, Shape
<1>2. /\ UNCHANGED <<thread, active, child, raced, created>>
      /\ at[t].pc = "asked" /\ at' = Become(t, "failed")
  BY DEF TimesOut, server, view
<1>3. \A u \in Tasks : /\ at'[u].op = at[u].op /\ at'[u].turn = at[u].turn
                       /\ at'[u].child = at[u].child /\ at'[u].moved = at[u].moved
                       /\ at'[u].pc = "answered" <=> at[u].pc = "answered"
  BY <1>1, <1>2 DEF Become, Doing
<1>4. /\ DOMAIN up' = DOMAIN up /\ DOMAIN pipe' = DOMAIN pipe
      /\ \A i \in DOMAIN up : up'[i].op = up[i].op
  <2>1. \A i \in DOMAIN up : up'[i] = IF up[i].by = t THEN [up[i] EXCEPT !.by = None] ELSE up[i]
    BY DEF TimesOut
  <2>2. \A i \in DOMAIN up : up[i] \in Sending(prompts)
    BY <1>1
  <2>3. DOMAIN up' = DOMAIN up /\ DOMAIN pipe' = DOMAIN pipe
    BY DEF TimesOut
  <2> QED
    BY <2>1, <2>2, <2>3 DEF Sending
<1>5. \A i \in DOMAIN pipe :
         \/ pipe'[i] = pipe[i]
         \/ /\ pipe[i].kind \in Answering /\ pipe'[i].kind = pipe[i].kind
            /\ pipe'[i].turn = pipe[i].turn /\ pipe'[i].child = pipe[i].child
            /\ \A u \in Tasks : ~IsTo(pipe'[i], u)
  BY PipeTimesOut
<1>6. \A i \in DOMAIN pipe : /\ pipe'[i].kind = pipe[i].kind
                             /\ pipe[i].kind \notin Answering => pipe'[i] = pipe[i]
                             /\ pipe[i].kind \in Answering /\ pipe'[i] # pipe[i] =>
                                  ~Snap(pipe'[i], at') /\ ~Opened(pipe'[i], at')
                             /\ Snap(pipe'[i], at') => pipe'[i] = pipe[i] /\ Snap(pipe[i], at)
                             /\ Opened(pipe'[i], at') => pipe'[i] = pipe[i] /\ Opened(pipe[i], at)
  BY <1>1, <1>3, <1>5 DEF Snap, Opened
<1>7. \A n, v, k : Leads(pipe, n, v, k) => Leads(pipe', n, v, k)
  BY <1>4, <1>6 DEF Leads, Answering, Turning
<1>8. \A c, x, k : LastChild(pipe, c, x, k) => LastChild(pipe', c, x, k)
  BY <1>4, <1>6 DEF LastChild
<1>9. /\ Has(at') <=> Has(at)
      /\ Hydrating(at') <=> Hydrating(at)
      /\ Stale(at', raced') <=> Stale(at, raced)
      /\ Tracked' <=> Tracked
  BY <1>1, <1>2, <1>3 DEF Has, Hydrating, Stale, Tracked
<1>10. Shown => Shown'
  <2> SUFFICES ASSUME Shown PROVE Good(pipe', thread.turn, thread.child, at', active, child, raced)
    BY <1>2 DEF Shown
  <2>1. Good(pipe, thread.turn, thread.child, at, active, child, raced)
    BY DEF Shown
  <2>2. ASSUME NEW i \in DOMAIN pipe
        PROVE  /\ Right(pipe', thread.turn, thread.child, at', i)
               /\ RightTurn(pipe', thread.turn, at', i) \/ Excused(pipe', at', raced, i)
    <3>1. Right(pipe', thread.turn, thread.child, at', i)
      <4>1. Right(pipe, thread.turn, thread.child, at, i)
        BY <2>1 DEF Good
      <4> QED
        BY <1>6, <1>7, <1>8, <4>1 DEF Right, Answering
    <3>2. RightTurn(pipe, thread.turn, at, i) => RightTurn(pipe', thread.turn, at', i)
      BY <1>6, <1>7 DEF RightTurn
    <3>3. Excused(pipe, at, raced, i) => Excused(pipe', at', raced, i)
      BY <1>2, <1>4, <1>6, <1>9 DEF Excused
    <3> QED
      BY <2>1, <2>2, <3>1, <3>2, <3>3 DEF Good
  <2>3. TurnShown(pipe', thread.turn, at', active, raced)
    BY <1>1, <1>2, <1>3, <1>7, <1>9, <2>1 DEF Good, TurnShown
  <2>4. ChildShown(pipe', thread.child, at', child, raced)
    BY <1>1, <1>3, <1>8, <1>9, <2>1 DEF Good, ChildShown
  <2> QED
    BY <1>4, <2>2, <2>3, <2>4 DEF Good
<1>11. Quietly => Quietly'
  BY <1>1, <1>2, <1>3, <1>4, <1>6, <1>9 DEF Quietly, Silent
<1> QED
  BY <1>2, <1>4, <1>9, <1>10, <1>11 DEF Watched
-----------------------------------------------------------------------------
(* What the reader does                                                    *)

\* The same calls; who has the snapshot now had it or has read it.
LEMMA RightBehind ==
  ASSUME NEW S, NEW s \in Seq(S), s # << >>, NEW n, NEW c, NEW a, NEW v, NEW x, NEW z,
         Good(s, n, c, a, v, x, z), NEW b, NEW y,
         b["topic"].op = a["topic"].op, b["worker"].op = a["worker"].op,
         Has(b) => Has(a) \/ Snap(Head(s), a),
         Head(s).kind # "turn" /\ "turn" \in z => "turn" \in y
  PROVE  \A i \in DOMAIN Tail(s) : /\ Right(Tail(s), n, c, b, i)
                                   /\ RightTurn(Tail(s), n, b, i) \/ Excused(Tail(s), b, y, i)
<1> DEFINE r == Tail(s)
<1> SUFFICES ASSUME NEW i \in DOMAIN r
             PROVE  /\ Right(r, n, c, b, i)
                    /\ RightTurn(r, n, b, i) \/ Excused(r, b, y, i)
  OBVIOUS
<1>1. /\ i \in Nat /\ i + 1 \in DOMAIN s /\ r[i] = s[i + 1] /\ 1 \in DOMAIN s /\ s[1] = Head(s)
      /\ 1 < i + 1
      /\ \A j \in DOMAIN r : j < i => j + 1 \in DOMAIN s /\ j + 1 < i + 1 /\ r[j] = s[j + 1]
  OBVIOUS
<1>2. /\ \A w : Leads(s, n, w, i + 1) => Leads(r, n, w, i)
      /\ \A w : LastChild(s, c, w, i + 1) => LastChild(r, c, w, i)
  <2>1. \A w : Leads(s, n, w, i + 1) => Leads(Tail(s), n, w, i)
    BY <1>1, LeadsBehind
  <2>2. \A w : LastChild(s, c, w, i + 1) => LastChild(Tail(s), c, w, i)
    BY <1>1, ChildBehind
  <2> QED
    BY <2>1, <2>2
<1> HIDE DEF r
<1>3. \A f : (Snap(f, b) <=> Snap(f, a)) /\ (Opened(f, b) <=> Opened(f, a))
  BY DEF Snap, Opened
<1>4. Right(s, n, c, a, i + 1) /\ (RightTurn(s, n, a, i + 1) \/ Excused(s, a, z, i + 1))
  BY <1>1 DEF Good
<1>5. Right(r, n, c, b, i)
  BY <1>1, <1>2, <1>3, <1>4 DEF Right
<1>6. RightTurn(s, n, a, i + 1) => RightTurn(r, n, b, i)
  BY <1>1, <1>2, <1>3 DEF RightTurn
<1>7. Excused(s, a, z, i + 1) => Excused(r, b, y, i)
  <2> SUFFICES ASSUME Excused(s, a, z, i + 1) PROVE Excused(r, b, y, i)
    OBVIOUS
  <2>1. /\ Stale(a, z) /\ ~Has(a) /\ Head(s).kind # "turn" /\ ~Snap(Head(s), a)
        /\ \A j \in DOMAIN s : j < i + 1 => s[j].kind # "turn" /\ ~Snap(s[j], a)
    BY <1>1 DEF Excused
  <2>2. Stale(b, y) /\ ~Has(b)
    BY <2>1 DEF Stale
  <2> QED
    BY <1>1, <1>3, <2>1, <2>2 DEF Excused
<1> QED
  BY <1>4, <1>5, <1>6, <1>7

\* What the head said, and what was so before it.
LEMMA HeadRead ==
  ASSUME NEW S, NEW s \in Seq(S), s # << >>, NEW n, NEW c, NEW a, NEW v, NEW x, NEW z,
         Good(s, n, c, a, v, x, z)
  PROVE  LET f == Head(s)
             r == Tail(s)
         IN  /\ f.kind = "turn" => Leads(r, n, f.n, 0)
             /\ f.kind = "done" => Leads(r, n, 0, 0)
             /\ f.kind = "child" => LastChild(r, c, StatusOf(f.status), 0)
             /\ Snap(f, a) => Leads(r, n, f.turn, 0) /\ LastChild(r, c, StatusOf(f.child), 0)
             /\ Opened(f, a) => Leads(r, n, f.turn, 0) \/ (Stale(a, z) /\ ~Has(a))
             /\ f.kind \notin Turning => \A w : Leads(s, n, w, 0) => Leads(r, n, w, 0)
             /\ f.kind = "done" => \A w : Leads(s, n, w, 0) => w \in {0, f.n}
             /\ f.kind # "child" => \A w : LastChild(s, c, w, 0) => LastChild(r, c, w, 0)
<1>1. 1 \in DOMAIN s /\ s[1] = Head(s) /\ 0 \in Nat /\ 0 + 1 = 1
  OBVIOUS
<1>2. /\ \A w : Leads(s, n, w, 1) => Leads(Tail(s), n, w, 0)
      /\ \A w : LastChild(s, c, w, 1) => LastChild(Tail(s), c, w, 0)
  <2>1. \A w : Leads(s, n, w, 0 + 1) => Leads(Tail(s), n, w, 0)
    BY LeadsBehind
  <2>2. \A w : LastChild(s, c, w, 0 + 1) => LastChild(Tail(s), c, w, 0)
    BY ChildBehind
  <2> QED
    BY <1>1, <2>1, <2>2
<1>3. /\ Head(s).kind \notin Turning => \A w : Leads(s, n, w, 0) => Leads(Tail(s), n, w, 0)
      /\ Head(s).kind = "done" => \A w : Leads(s, n, w, 0) => w \in {0, Head(s).n}
  BY LeadsOver
<1>4. Head(s).kind # "child" => \A w : LastChild(s, c, w, 0) => LastChild(Tail(s), c, w, 0)
  BY <1>1, ChildBehind
<1>5. Right(s, n, c, a, 1) /\ (RightTurn(s, n, a, 1) \/ Excused(s, a, z, 1))
  BY <1>1 DEF Good
<1> QED
  BY <1>1, <1>2, <1>3, <1>4, <1>5 DEF Right, RightTurn, Excused

\* News of the turn, and of the child, overtakes the answers that have come.
LEMMA GoodTurn ==
  ASSUME Shape, Shown, pipe # << >>, NEW f, f = Head(pipe), TurnStarted(f) \/ TurnCompleted(f)
  PROVE  Good(Tail(pipe), thread.turn, thread.child, at', active', child', raced')
<1> DEFINE r == Tail(pipe)
           n == thread.turn
           c == thread.child
<1>1. /\ at \in [Tasks -> Call(prompts)] /\ "worker" \in Tasks /\ "topic" \in Tasks
      /\ at["worker"] \in Doing /\ at["topic"] \in Doing
      /\ pipe \in Seq(Frames(prompts)) /\ Good(pipe, n, c, at, active, child, raced)
  BY TaskFields DEF Shape, Shown
<1>2. \A t \in Tasks :
        /\ at'[t].op = at[t].op /\ at'[t].pc = at[t].pc /\ at'[t].turn = at[t].turn
        /\ at'[t].child = at[t].child /\ at[t].moved \subseteq at'[t].moved
        /\ at[t].pc = "answered" => "turn" \in at'[t].moved \/ (f.kind = "turn" /\ at[t].turn = f.n)
  <2> SUFFICES ASSUME NEW t \in Tasks
               PROVE
        /\ at'[t].op = at[t].op /\ at'[t].pc = at[t].pc /\ at'[t].turn = at[t].turn
        /\ at'[t].child = at[t].child /\ at[t].moved \subseteq at'[t].moved
        /\ at[t].pc = "answered" => "turn" \in at'[t].moved \/ (f.kind = "turn" /\ at[t].turn = f.n)
    OBVIOUS
  <2>1. at[t] \in Doing
    BY TaskFields
  <2>2. /\ (at'[t] = at[t] /\ f.kind = "turn" /\ at[t].turn = f.n)
        \/ at'[t] = IF at[t].pc = "answered" THEN [at[t] EXCEPT !.moved = @ \union {"turn"}]
                                             ELSE at[t]
    BY DEF TurnStarted, TurnCompleted, Overtake
  <2> QED
    BY <2>1, <2>2 DEF Doing
<1>3. child' = child /\ ("child" \in raced <=> "child" \in raced')
      /\ f.kind # "child" /\ f.kind \in Turning /\ ~Snap(f, at)
  BY DEF TurnStarted, TurnCompleted, Turning, Snap
<1>4. \/ f.kind = "turn" /\ active' = f.n
      \/ f.kind = "done" /\ active' = (IF active = f.n THEN 0 ELSE active) /\ raced' = raced
  BY DEF TurnStarted, TurnCompleted, Ended
<1>5. \A i \in DOMAIN r : /\ Right(r, n, c, at', i)
                          /\ RightTurn(r, n, at', i) \/ Excused(r, at', raced', i)
  <2>1. at'["topic"].op = at["topic"].op /\ at'["worker"].op = at["worker"].op
    BY <1>1, <1>2
  <2>2. Has(at') => Has(at) \/ Snap(Head(pipe), at)
    BY <1>1, <1>2 DEF Has
  <2>3. Head(pipe).kind # "turn" /\ "turn" \in raced => "turn" \in raced'
    BY <1>4
  <2> HIDE DEF n, c
  <2> QED
    BY <1>1, <2>1, <2>2, <2>3, RightBehind
<1>6. /\ f.kind = "turn" => Leads(r, n, f.n, 0)
      /\ f.kind = "done" => Leads(r, n, 0, 0)
      /\ f.kind = "done" => \A w : Leads(pipe, n, w, 0) => w \in {0, f.n}
      /\ \A w : LastChild(pipe, c, w, 0) => LastChild(r, c, w, 0)
  BY <1>1, <1>3, HeadRead
<1> HIDE DEF r, n, c
<1>7. TurnShown(r, n, at', active', raced')
  <2>1. \A t \in Tasks : at'[t].pc = "answered" =>
          Leads(r, n, at'[t].turn, 0) \/ "turn" \in at'[t].moved
    BY <1>2, <1>6
  <2>2. at["topic"].op # "attach" => Leads(pipe, n, active, 0) \/ "turn" \in raced
    BY <1>1 DEF Good, TurnShown
  <2>3. at["topic"].op # "attach" => Leads(r, n, active', 0) \/ "turn" \in raced'
    BY <1>4, <1>6, <2>2
  <2> QED
    BY <1>1, <1>2, <2>1, <2>3 DEF TurnShown, Has
<1>8. ChildShown(r, c, at', child', raced')
  BY <1>1, <1>2, <1>3, <1>6 DEF Good, ChildShown, Has, Hydrating
<1> QED
  BY <1>5, <1>7, <1>8 DEF Good, r, n, c

LEMMA GoodChild ==
  ASSUME Shape, Shown, pipe # << >>, NEW f, f = Head(pipe), ChildUpdate(f)
  PROVE  Good(Tail(pipe), thread.turn, thread.child, at', active', child', raced')
<1> DEFINE r == Tail(pipe)
           n == thread.turn
           c == thread.child
<1>1. /\ at \in [Tasks -> Call(prompts)] /\ "worker" \in Tasks /\ "topic" \in Tasks
      /\ pipe \in Seq(Frames(prompts)) /\ Good(pipe, n, c, at, active, child, raced)
  BY TaskFields DEF Shape, Shown
<1>2. \A t \in Tasks :
        /\ at'[t].op = at[t].op /\ at'[t].pc = at[t].pc /\ at'[t].turn = at[t].turn
        /\ at'[t].child = at[t].child /\ at[t].moved \subseteq at'[t].moved
        /\ at[t].child \notin {None, f.status} => "child" \in at'[t].moved
  <2> SUFFICES ASSUME NEW t \in Tasks
               PROVE
        /\ at'[t].op = at[t].op /\ at'[t].pc = at[t].pc /\ at'[t].turn = at[t].turn
        /\ at'[t].child = at[t].child /\ at[t].moved \subseteq at'[t].moved
        /\ at[t].child \notin {None, f.status} => "child" \in at'[t].moved
    OBVIOUS
  <2>1. at[t] \in Doing
    BY TaskFields
  <2>2. at'[t] = IF at[t].child \in {None, f.status} THEN at[t]
                 ELSE [at[t] EXCEPT !.moved = @ \union {"child"}]
    BY DEF ChildUpdate
  <2> QED
    BY <2>1, <2>2 DEF Doing
<1>3. /\ f.kind = "child" /\ f.kind \notin Turning /\ active' = active
      /\ child' = StatusOf(f.status) /\ ("turn" \in raced <=> "turn" \in raced')
  BY DEF ChildUpdate, Turning
<1>4. \A i \in DOMAIN r : /\ Right(r, n, c, at', i)
                          /\ RightTurn(r, n, at', i) \/ Excused(r, at', raced', i)
  <2>1. at'["topic"].op = at["topic"].op /\ at'["worker"].op = at["worker"].op
    BY <1>1, <1>2
  <2>2. Has(at') => Has(at) \/ Snap(Head(pipe), at)
    BY <1>1, <1>2 DEF Has
  <2>3. Head(pipe).kind # "turn" /\ "turn" \in raced => "turn" \in raced'
    BY <1>3
  <2> HIDE DEF n, c
  <2> QED
    BY <1>1, <2>1, <2>2, <2>3, RightBehind
<1>5. /\ LastChild(r, c, StatusOf(f.status), 0)
      /\ \A w : Leads(pipe, n, w, 0) => Leads(r, n, w, 0)
  BY <1>1, <1>3, HeadRead
<1> HIDE DEF r, n, c
<1>6. TurnShown(r, n, at', active', raced')
  BY <1>1, <1>2, <1>3, <1>5 DEF Good, TurnShown, Has, Stale
<1>7. ChildShown(r, c, at', child', raced')
  BY <1>1, <1>2, <1>3, <1>5 DEF ChildShown, Has, Hydrating
<1> QED
  BY <1>4, <1>6, <1>7 DEF Good, r, n, c

\* News of neither.
LEMMA GoodNews ==
  ASSUME Shape, Shown, pipe # << >>, NEW f, f = Head(pipe),
         UserMessage(f) \/ ServerRequest(f) \/ RequestResolved(f)
  PROVE  Good(Tail(pipe), thread.turn, thread.child, at', active', child', raced')
<1> DEFINE r == Tail(pipe)
           n == thread.turn
           c == thread.child
<1>1. pipe \in Seq(Frames(prompts)) /\ Good(pipe, n, c, at, active, child, raced)
  BY DEF Shape, Shown
<1>2. /\ UNCHANGED <<at, active, child, raced>>
      /\ f.kind \notin Turning /\ f.kind # "child"
  BY DEF UserMessage, ServerRequest, RequestResolved, Turning
<1>3. \A i \in DOMAIN r : /\ Right(r, n, c, at, i)
                          /\ RightTurn(r, n, at, i) \/ Excused(r, at, raced, i)
  BY <1>1, RightBehind
<1>4. /\ \A w : LastChild(pipe, c, w, 0) => LastChild(r, c, w, 0)
      /\ \A w : Leads(pipe, n, w, 0) => Leads(r, n, w, 0)
  BY <1>1, <1>2, HeadRead
<1> HIDE DEF r, n, c
<1>5. TurnShown(r, n, at, active, raced) /\ ChildShown(r, c, at, child, raced)
  BY <1>1, <1>4 DEF Good, TurnShown, ChildShown
<1>6. Good(r, n, c, at, active, child, raced)
  BY <1>3, <1>5 DEF Good
<1> QED
  BY <1>2, <1>6 DEF r, n, c

\* A thread without subagents shows none.
NoChild ==
    thread.child = None =>
        /\ child = None /\ \A t \in Tasks : at[t].child = None
        /\ \A i \in DOMAIN pipe : /\ pipe[i].kind # "child"
                                  /\ pipe[i].kind \in Answering => pipe[i].child = None

\* What an answer makes of the task that waited for it.
LEMMA AnswerGiven ==
  ASSUME NEW p, at \in [Tasks -> Call(p)], NEW f \in Frames(p), Answer(f)
  PROVE  /\ f.kind \in Answering /\ UNCHANGED <<active, child, raced>>
         /\ \A t \in Tasks : at'[t].op = at[t].op /\ at[t].moved \subseteq at'[t].moved
         /\ \A t \in Tasks : ~IsTo(f, t) => at'[t] = at[t]
         /\ \A t \in Tasks : IsTo(f, t) =>
              /\ f.kind # "result" => at'[t].pc # "answered" /\ at'[t].child = at[t].child
              /\ f.kind = "result" =>
                   /\ at'[t].pc = "answered" /\ at'[t].turn = f.turn
                   /\ at'[t].child = IF at[t].op = "attach" THEN f.child ELSE at[t].child
                   /\ (\E u \in Tasks : at[u].pc = "answered") => "second" \in at'[t].moved
<1>1. /\ f.kind \in Answering /\ UNCHANGED <<active, child, raced>>
      /\ f.to \in Callers /\ f.turn \in Turns(p) /\ f.child \in Words
      /\ \A t : IsTo(f, t) <=> f.to = t
  BY FrameKinds DEF Answer, Answering, IsTo, view
<1>2. \A t \in Tasks : at[t] \in Doing
  BY DEF Call
<1>3. CASE f.to = None
  <2>1. at' = at /\ \A t \in Tasks : ~IsTo(f, t)
    BY <1>1, <1>3 DEF Answer, Tasks, None
  <2> QED
    BY <1>1, <2>1
<1>4. CASE f.to # None
  <2>1. f.to \in Tasks
    BY <1>1, <1>4 DEF Callers
  <2> DEFINE second == IF \A u \in Tasks : at[u].pc # "answered" THEN {} ELSE {"second"}
  <2>2. at' = [at EXCEPT ![f.to] =
                 IF f.kind = "result"
                 THEN [at[f.to] EXCEPT !.pc = "answered", !.turn = f.turn,
                         !.child = IF at[f.to].op = "attach" THEN f.child ELSE @,
                         !.moved = @ \union second]
                 ELSE [at[f.to] EXCEPT !.pc = f.kind]]
    BY <1>4 DEF Answer, Answered
  <2>3. \A t \in Tasks : ~IsTo(f, t) => at'[t] = at[t]
    BY <1>1, <2>2
  <2>4. (\E u \in Tasks : at[u].pc = "answered") => second = {"second"}
    OBVIOUS
  <2> HIDE DEF second
  <2>5. CASE f.kind = "result"
    <3>1. at'[f.to] = [at[f.to] EXCEPT !.pc = "answered", !.turn = f.turn,
                         !.child = IF at[f.to].op = "attach" THEN f.child ELSE @,
                         !.moved = @ \union second]
      BY <2>1, <2>2, <2>5
    <3>2. at[f.to] \in Doing
      BY <1>2, <2>1
    <3>3. /\ at'[f.to].op = at[f.to].op /\ at'[f.to].moved = at[f.to].moved \union second
          /\ at'[f.to].pc = "answered" /\ at'[f.to].turn = f.turn
          /\ at'[f.to].child = IF at[f.to].op = "attach" THEN f.child ELSE at[f.to].child
      BY <3>1, <3>2 DEF Doing
    <3> QED
      BY <1>1, <2>1, <2>3, <2>4, <2>5, <3>3
  <2>6. CASE f.kind # "result"
    <3>1. at'[f.to] = [at[f.to] EXCEPT !.pc = f.kind]
      BY <2>1, <2>2, <2>6
    <3>2. at[f.to] \in Doing
      BY <1>2, <2>1
    <3>3. /\ at'[f.to].op = at[f.to].op /\ at'[f.to].moved = at[f.to].moved
          /\ at'[f.to].child = at[f.to].child /\ at'[f.to].pc = f.kind
      BY <3>1, <3>2 DEF Doing
    <3>4. f.kind # "answered"
      BY <1>1 DEF Answering
    <3> QED
      BY <1>1, <2>1, <2>3, <2>6, <3>3, <3>4
  <2> QED
    BY <2>5, <2>6
<1> QED
  BY <1>3, <1>4

\* An answer says what it said when it was sent, or is excused.
LEMMA GoodAnswer ==
  ASSUME Shape, NoChild, Shown, pipe # << >>, NEW f, f = Head(pipe), Answer(f)
  PROVE  Good(Tail(pipe), thread.turn, thread.child, at', active', child', raced')
<1> DEFINE r == Tail(pipe)
           n == thread.turn
           c == thread.child
<1>1. /\ at \in [Tasks -> Call(prompts)] /\ "worker" \in Tasks /\ "topic" \in Tasks
      /\ f \in Frames(prompts) /\ c \in Words
      /\ pipe \in Seq(Frames(prompts)) /\ Good(pipe, n, c, at, active, child, raced)
      /\ c = None => child = None
  BY TaskFields, ThreadFields, Popped DEF Shape, Shown, NoChild
<1>2. /\ f.kind \in Answering /\ UNCHANGED <<active, child, raced>>
      /\ \A t \in Tasks : at'[t].op = at[t].op /\ at[t].moved \subseteq at'[t].moved
      /\ \A t \in Tasks : ~IsTo(f, t) => at'[t] = at[t]
      /\ \A t \in Tasks : IsTo(f, t) =>
           /\ f.kind # "result" => at'[t].pc # "answered" /\ at'[t].child = at[t].child
           /\ f.kind = "result" =>
                /\ at'[t].pc = "answered" /\ at'[t].turn = f.turn
                /\ at'[t].child = IF at[t].op = "attach" THEN f.child ELSE at[t].child
                /\ (\E u \in Tasks : at[u].pc = "answered") => "second" \in at'[t].moved
  BY <1>1, AnswerGiven
<1>3. f.kind \notin Turning /\ f.kind # "child" /\ f.kind # "turn"
  BY <1>2 DEF Answering, Turning
<1>4. Has(at') => Has(at) \/ Snap(f, at)
  BY <1>1, <1>2 DEF Has, Snap
<1>5. \A i \in DOMAIN r : /\ Right(r, n, c, at', i)
                          /\ RightTurn(r, n, at', i) \/ Excused(r, at', raced', i)
  BY <1>1, <1>2, <1>4, RightBehind
<1>6. /\ Snap(f, at) => Leads(r, n, f.turn, 0) /\ LastChild(r, c, StatusOf(f.child), 0)
      /\ Opened(f, at) => Leads(r, n, f.turn, 0) \/ (Stale(at, raced) /\ ~Has(at))
      /\ \A w : Leads(pipe, n, w, 0) => Leads(r, n, w, 0)
      /\ \A w : LastChild(pipe, c, w, 0) => LastChild(r, c, w, 0)
  BY <1>1, <1>3, HeadRead
<1>7. ~(IsTo(f, "worker") /\ IsTo(f, "topic"))
  BY DEF IsTo
<1> HIDE DEF r, n, c
<1>8. TurnShown(r, n, at', active', raced')
  <2>1. TurnShown(pipe, n, at, active, raced)
    BY <1>1 DEF Good
  <2>2. Has(at') => Leads(r, n, at'["topic"].turn, 0) \/ "turn" \in at'["topic"].moved
    <3>1. CASE Snap(f, at)
      BY <1>1, <1>2, <1>6, <3>1 DEF Snap
    <3>2. CASE ~Snap(f, at)
      <4>1. ASSUME Has(at') PROVE Has(at) /\ at'["topic"] = at["topic"]
        <5>1. ~IsTo(f, "topic")
          BY <1>1, <1>2, <3>2, <4>1 DEF Has, Snap
        <5> QED
          BY <1>1, <1>2, <4>1, <5>1 DEF Has
      <4> QED
        BY <1>6, <2>1, <4>1 DEF TurnShown
    <3> QED
      BY <3>1, <3>2
  <2>3. ASSUME at'["worker"].op = "send", at'["worker"].pc = "answered"
        PROVE  \/ Leads(r, n, at'["worker"].turn, 0) \/ "turn" \in at'["worker"].moved
               \/ Stale(at', raced') /\ (Has(at') => "second" \in at'["topic"].moved)
    <3>1. Stale(at, raced) => Stale(at', raced')
      BY <1>1, <1>2 DEF Stale
    <3>2. CASE IsTo(f, "worker")
      <4>1. Opened(f, at) /\ at'["worker"].turn = f.turn /\ at'["topic"] = at["topic"]
        BY <1>1, <1>2, <1>7, <2>3, <3>2 DEF Opened
      <4>2. Has(at') => Has(at)
        BY <4>1 DEF Has
      <4> QED
        BY <1>6, <3>1, <4>1, <4>2
    <3>3. CASE ~IsTo(f, "worker")
      <4>1. at'["worker"] = at["worker"]
        BY <1>1, <1>2, <3>3
      <4>2. \/ Leads(r, n, at'["worker"].turn, 0) \/ "turn" \in at'["worker"].moved
            \/ Stale(at, raced) /\ (Has(at) => "second" \in at["topic"].moved)
        BY <1>6, <2>1, <2>3, <4>1 DEF TurnShown
      <4>3. Has(at') => "second" \in at'["topic"].moved \/ (Has(at) /\ at["topic"].moved \subseteq at'["topic"].moved)
        <5>1. IsTo(f, "topic") /\ f.kind = "result" => "second" \in at'["topic"].moved
          BY <1>1, <1>2, <2>3, <4>1
        <5>2. IsTo(f, "topic") /\ f.kind # "result" => ~Has(at')
          BY <1>1, <1>2 DEF Has
        <5>3. ~IsTo(f, "topic") => at'["topic"] = at["topic"]
          BY <1>1, <1>2
        <5> QED
          BY <5>1, <5>2, <5>3 DEF Has
      <4> QED
        BY <3>1, <4>2, <4>3
    <3> QED
      BY <3>2, <3>3
  <2>4. at'["topic"].op # "attach" => Leads(r, n, active', 0) \/ "turn" \in raced'
    BY <1>1, <1>2, <1>6, <2>1 DEF TurnShown
  <2> QED
    BY <2>2, <2>3, <2>4 DEF TurnShown
<1>9. ChildShown(r, c, at', child', raced')
  <2>1. ChildShown(pipe, c, at, child, raced)
    BY <1>1 DEF Good
  <2>2. CASE ~Snap(f, at)
    <3>1. at'["topic"].op = at["topic"].op /\ at'["topic"].child = at["topic"].child
          /\ at["topic"].moved \subseteq at'["topic"].moved
      BY <1>1, <1>2, <2>2 DEF Snap
    <3>2. Has(at') => Has(at)
      BY <1>4, <2>2
    <3> QED
      BY <1>2, <1>6, <2>1, <3>1, <3>2 DEF ChildShown, Hydrating
  <2>3. CASE Snap(f, at)
    <3>1. at'["topic"].child = f.child /\ at'["topic"].op = "attach"
      BY <1>1, <1>2, <2>3 DEF Snap
    <3>2. LastChild(r, c, StatusOf(f.child), 0)
      BY <1>6, <2>3
    <3>3. StatusOf(f.child) = None /\ StatusOf(c) = None => StatusOf(c) = child'
      BY <1>1, <1>2 DEF StatusOf, Words, None
    <3>4. f.child = None => StatusOf(f.child) = None
      BY DEF StatusOf, None
    <3>5. f.child = None => LastChild(r, c, child', 0)
      BY <3>2, <3>3, <3>4 DEF LastChild
    <3>6. "attach" # None
      BY DEF None
    <3> QED
      BY <3>1, <3>2, <3>5, <3>6 DEF ChildShown
  <2> QED
    BY <2>2, <2>3
<1> QED
  BY <1>5, <1>8, <1>9 DEF Good, r, n, c

LEMMA WatchedReads ==
  ASSUME Shape, NoChild, Watched, Handle
  PROVE  Watched'
<1> DEFINE f == Head(pipe)
<1>1. /\ pipe # << >> /\ pipe' = Tail(pipe) /\ UNCHANGED <<up, thread, created>>
      /\ \/ Answer(f) \/ TurnStarted(f) \/ TurnCompleted(f)
         \/ ChildUpdate(f) \/ UserMessage(f)
         \/ ServerRequest(f) \/ RequestResolved(f)
      /\ "worker" \in Tasks /\ "topic" \in Tasks
      /\ at \in [Tasks -> Call(prompts)] /\ pipe \in Seq(Frames(prompts))
      /\ f \in Frames(prompts) /\ 1 \in DOMAIN pipe /\ pipe[1] = f
      /\ \A i \in DOMAIN Tail(pipe) : i + 1 \in DOMAIN pipe /\ Tail(pipe)[i] = pipe[i + 1]
  BY TaskFields, Popped DEF Shape, Handle, server, Answer, TurnStarted, TurnCompleted,
       ChildUpdate, UserMessage, ServerRequest, RequestResolved, view
<1> HIDE DEF f
<1>2. at'["worker"].op = at["worker"].op /\ at'["topic"].op = at["topic"].op
  BY <1>1, ReaderReads
<1>3. "closed" \in raced => "closed" \in raced'
  BY <1>1 DEF Answer, TurnStarted, TurnCompleted, ChildUpdate, UserMessage, ServerRequest,
       RequestResolved
<1>4. Tracked' => Tracked
  BY <1>1, <1>2, <1>3 DEF Tracked
<1>5. ASSUME Shown PROVE Shown'
  <2>1. Good(Tail(pipe), thread.turn, thread.child, at', active', child', raced')
    BY <1>1, <1>5, GoodTurn, GoodChild, GoodNews, GoodAnswer DEF f
  <2> QED
    BY <1>1, <2>1 DEF Shown
<1>6. ASSUME Quietly PROVE Quietly'
  <2>1. /\ \A i \in DOMAIN pipe : pipe[i].kind \in Answering /\ ~Snap(pipe[i], at)
        /\ (\E i \in DOMAIN up : up[i].op = "attach") =>
              /\ ~Has(at) /\ ~Hydrating(at)
              /\ at["topic"].op = "attach" \/ {"turn", "child"} \subseteq raced
    BY <1>6 DEF Quietly, Silent
  <2>2. f.kind \in Answering /\ ~Snap(f, at)
    BY <1>1, <2>1
  <2>3. Answer(f)
    BY <1>1, <2>2 DEF Answering, TurnStarted, TurnCompleted, ChildUpdate, UserMessage,
         ServerRequest, RequestResolved
  <2>4. /\ raced' = raced
        /\ \A t \in Tasks : ~IsTo(f, t) => at'[t] = at[t]
        /\ \A t \in Tasks : IsTo(f, t) /\ f.kind # "result" => at'[t].pc # "answered"
    BY <1>1, <2>3, AnswerGiven
  <2>5. /\ Has(at') => Has(at)
        /\ Hydrating(at') <=> Hydrating(at)
        /\ \A g : Snap(g, at') <=> Snap(g, at)
    BY <1>1, <1>2, <2>2, <2>4 DEF Has, Hydrating, Snap
  <2>6. \A i \in DOMAIN pipe' : pipe'[i].kind \in Answering /\ ~Snap(pipe'[i], at')
    BY <1>1, <2>1, <2>5
  <2>7. Silent(pipe', up', at', raced')
    BY <1>1, <1>2, <2>1, <2>4, <2>5, <2>6 DEF Silent
  <2> QED
    BY <2>7 DEF Quietly
<1> QED
  BY <1>1, <1>4, <1>5, <1>6 DEF Watched

LEMMA TaskSteps ==
  ASSUME TaskStep
  PROVE  \/ EchoExpires \/ (\E r \in requests : Approve(r))
         \/ \E t \in Tasks :
              \/ \E op \in Sends, x \in Texts : Prompt(t, op, x)
              \/ Cancel(t) \/ Attach(t) \/ Close(t)
              \/ Retry(t) \/ GivesUp(t)
              \/ Sent(t) \/ SendFails(t) \/ Fails(t)
              \/ Resumed(t) \/ Hydrated(t) \/ Interrupted(t) \/ Unsubscribed(t)
  BY DEF TaskStep

LEMMA WatchedKept ==
  ASSUME CodexAssumption, Shape, Shape', Waiting, Roles, NoChild, Watched, [Next]_vars
  PROVE  Watched'
<1>1. CASE \/ Delegate \/ AskApproval \/ TuiApproves \/ EndTurn \/ ServerTakes
           \/ \E x \in Texts : Type(x)
  BY <1>1, ServerSpeaks, WatchedServer
<1>2. ASSUME NEW t \in Tasks,
             \/ Dial(t) \/ DialFails(t) \/ Greeted(t) \/ Connected(t) \/ TimesOut(t)
      PROVE  Watched'
  <2>1. CASE DialFails(t) \/ Greeted(t) \/ Connected(t)
    BY <2>1, GoesOnCalmly, WatchedCalm
  <2>2. CASE Dial(t)
    BY <2>2, WatchedAside
  <2>3. CASE TimesOut(t)
    BY <2>3, WatchedTimesOut
  <2> QED
    BY <1>2, <2>1, <2>2, <2>3
<1>3. ASSUME NEW t \in Tasks,
              \/ \E op \in Sends, x \in Texts : Prompt(t, op, x)
              \/ Cancel(t) \/ Attach(t) \/ Close(t)
              \/ Retry(t) \/ GivesUp(t)
              \/ Sent(t) \/ SendFails(t) \/ Fails(t)
              \/ Resumed(t) \/ Hydrated(t) \/ Interrupted(t) \/ Unsubscribed(t)
      PROVE  Watched'
  <2>1. CASE (\E op \in Sends, x \in Texts : Prompt(t, op, x)) \/ Cancel(t) \/ Attach(t) \/ Close(t)
    BY <2>1, BeginsCalmly, WatchedCalm
  <2>2. CASE Retry(t) \/ GivesUp(t)
    BY <2>2, GoesOnCalmly, WatchedCalm
  <2>3. CASE SendFails(t) \/ Fails(t)
    BY <2>3, EndsCalmly, WatchedCalm
  <2>4. CASE Sent(t)
    <3>1. CASE at[t].op = "send"
      BY <2>4, <3>1, WatchedSent
    <3>2. CASE at[t].op # "send"
      BY <2>4, <3>2, EndsCalmly, WatchedCalm
    <3> QED
      BY <3>1, <3>2
  <2>5. CASE Resumed(t)
    BY <2>5, WatchedResumed
  <2>6. CASE Hydrated(t)
    BY <2>6, WatchedHydrated
  <2>7. CASE Interrupted(t)
    <3>1. CASE at'[t].op = "unsubscribe"
      BY <2>7, <3>1, LeavesUnwatched
    <3>2. CASE at'[t].op # "unsubscribe"
      BY <2>7, <3>2, EndsCalmly, WatchedCalm
    <3> QED
      BY <3>1, <3>2
  <2>8. CASE Unsubscribed(t)
    BY <2>8, LeavesUnwatched
  <2> QED
    BY <1>3, <2>1, <2>2, <2>3, <2>4, <2>5, <2>6, <2>7, <2>8
<1>4. CASE UNCHANGED vars
  <2>1. /\ UNCHANGED <<pipe, up, thread, at, active, child, raced, created>>
    BY <1>4 DEF vars, server, line, view
  <2>2. (Tracked' <=> Tracked) /\ (Shown' <=> Shown) /\ (Quietly' <=> Quietly)
    BY <2>1 DEF Tracked, Shown, Quietly
  <2> QED
    BY <2>1, <2>2 DEF Watched
<1>5. CASE TaskStep
  BY <1>3, <1>5, TaskSteps, WatchedAside
<1> QED
  BY <1>1, <1>2, <1>4, <1>5, NextSteps, WatchedDrop, WatchedReads
-----------------------------------------------------------------------------
(* What the server adds                                                    *)

\* Frames that neither tell of the child nor of an approval.
Plain(p) == {f \in Answers(p) : f.child \in {None, thread.child}} \union TurnNews(p) \union ItemNews(p)
ResolvedOne == [kind |-> "resolved", n |-> 1]
AskOne      == [kind |-> "ask", n |-> 1]

SameThread == thread'.ask = thread.ask /\ thread'.asked = thread.asked
Utters(w) ==
    /\ pipe' = pipe \o w /\ (~thread.subscribed => w \in Seq(Answers(prompts)))
    /\ \/ w \in Seq(Plain(prompts')) /\ SameThread /\ thread'.child = thread.child
       \/ w \in Seq(ChildNews) /\ SameThread /\ thread'.child # None
       \/ /\ w = <<AskOne>> /\ thread.asked = 0 /\ thread.subscribed
          /\ thread'.asked = 1 /\ thread'.ask = 1 /\ thread'.child = thread.child
       \/ /\ w \in Seq(Plain(prompts') \union {ResolvedOne})
          /\ thread.ask = 1 /\ thread'.ask = 0 /\ thread'.asked = thread.asked
          /\ thread'.child = thread.child
          /\ thread.subscribed => \E i \in DOMAIN w : w[i] = ResolvedOne
Obeys ==
    \/ up' = up /\ thread'.subscribed = thread.subscribed
    \/ /\ up # << >> /\ up' = Tail(up)
       /\ \/ thread'.subscribed = thread.subscribed
          \/ Head(up).op = "attach" /\ thread'.subscribed
          \/ Head(up).op = "unsubscribe" /\ ~thread'.subscribed
       /\ Head(up).op = "approve" => thread'.ask = 0

LEMMA PlainFrames ==
  ASSUME NEW p, thread.child \in Words
  PROVE  /\ Plain(p) \subseteq Frames(p) /\ ResolvedOne \in Frames(p) /\ AskOne \in Frames(p)
         /\ \A n \in Given(p) : /\ [kind |-> "turn", n |-> n] \in Plain(p)
                                /\ [kind |-> "done", n |-> n] \in Plain(p)
         /\ \A n \in Given(p), x \in Texts : [kind |-> "item", n |-> n, text |-> x] \in Plain(p)
         /\ \A k \in {"result", "error", "overloaded"}, t \in Callers, n \in Turns(p) :
              \A c \in {None, thread.child} :
                 [kind |-> k, to |-> t, turn |-> n, child |-> c] \in Plain(p)
         /\ \A f \in Plain(p) : /\ f.kind \notin {"ask", "resolved", "child"}
                                /\ f.kind \in Answering => f.child \in {None, thread.child}
<1>1. Plain(p) \subseteq Frames(p) /\ ResolvedOne \in Frames(p) /\ AskOne \in Frames(p)
  BY DEF Plain, Frames, News, AskNews, ResolvedOne, AskOne
<1>2. /\ \A n \in Given(p) : /\ [kind |-> "turn", n |-> n] \in Plain(p)
                             /\ [kind |-> "done", n |-> n] \in Plain(p)
      /\ \A n \in Given(p), x \in Texts : [kind |-> "item", n |-> n, text |-> x] \in Plain(p)
  BY DEF Plain, TurnNews, ItemNews
<1>3. \A k \in {"result", "error", "overloaded"}, t \in Callers, n \in Turns(p) :
        \A c \in {None, thread.child} :
           [kind |-> k, to |-> t, turn |-> n, child |-> c] \in Plain(p)
  <2>1. None \in Words
    BY DEF Words
  <2> QED
    BY <2>1, ItsFrames DEF Plain
<1>4. \A f \in Plain(p) : /\ f.kind \notin {"ask", "resolved", "child"}
                          /\ f.kind \in Answering => f.child \in {None, thread.child}
  BY DEF Plain, Answers, TurnNews, ItemNews, Answering
<1> QED
  BY <1>1, <1>2, <1>3, <1>4

LEMMA AnnouncedUtters ==
  ASSUME Shape, Delegate \/ AskApproval \/ TuiApproves \/ EndTurn
  PROVE  Obeys /\ \E w \in Seq(Frames(prompts')) : Utters(w)
<1>1. /\ thread.turn \in Turns(prompts) /\ thread.child \in Words /\ thread.ask \in {0, 1}
      /\ thread.subscribed \in BOOLEAN
      /\ thread = [turn |-> thread.turn, child |-> thread.child, ask |-> thread.ask,
                   asked |-> thread.asked, tui |-> thread.tui, habit |-> thread.habit,
                   subscribed |-> thread.subscribed]
  BY ThreadFields
<1>2. up' = up /\ prompts' = prompts
  BY DEF Delegate, AskApproval, TuiApproves, EndTurn, Outside
<1>3. << >> \in Seq(Answers(prompts)) /\ << >> \in Seq(Frames(prompts))
  OBVIOUS
<1>4. CASE Delegate
  <2> DEFINE st == IF thread.child = None THEN "started" ELSE "completed"
             f == [kind |-> "child", status |-> st]
             w == Notify(<<f>>)
  <2>1. pipe' = pipe \o w /\ thread' = [thread EXCEPT !.child = st]
    BY <1>4 DEF Delegate
  <2>2. f \in ChildNews /\ f \in Frames(prompts) /\ st # None
    BY DEF ChildNews, Frames, News, None
  <2>3. thread'.subscribed = thread.subscribed /\ thread'.child = st /\ SameThread
    BY <1>1, <2>1 DEF SameThread
  <2> HIDE DEF st, f
  <2>4. w \in Seq(ChildNews) /\ w \in Seq(Frames(prompts)) /\ (~thread.subscribed => w = << >>)
    BY <1>3, <2>2 DEF Notify
  <2> HIDE DEF w
  <2>5. Utters(w)
    BY <1>3, <2>1, <2>2, <2>3, <2>4 DEF Utters
  <2> QED
    BY <1>2, <2>3, <2>4, <2>5 DEF Obeys
<1>5. CASE AskApproval
  <2> DEFINE w == <<AskOne>>
  <2>1. /\ pipe' = pipe \o w /\ thread' = [thread EXCEPT !.ask = 1, !.asked = 1]
        /\ thread.asked = 0 /\ thread.subscribed
    BY <1>5 DEF AskApproval, TurnFrame, AskOne
  <2>2. /\ thread'.subscribed = thread.subscribed /\ thread'.child = thread.child
        /\ thread'.ask = 1 /\ thread'.asked = 1
    BY <1>1, <2>1
  <2>3. w \in Seq(Frames(prompts))
    BY <1>1, PlainFrames
  <2>4. Utters(w)
    BY <2>1, <2>2 DEF Utters
  <2> QED
    BY <1>2, <2>2, <2>3, <2>4 DEF Obeys
<1>6. CASE TuiApproves
  <2> DEFINE w == Notify(<<ResolvedOne>>)
             G == Plain(prompts) \union {ResolvedOne}
  <2>1. pipe' = pipe \o w /\ thread' = [thread EXCEPT !.ask = 0] /\ thread.ask = 1
    BY <1>1, <1>6 DEF TuiApproves, TurnFrame, ResolvedOne
  <2>2. /\ thread'.subscribed = thread.subscribed /\ thread'.child = thread.child
        /\ thread'.ask = 0 /\ thread'.asked = thread.asked
    BY <1>1, <2>1
  <2>3. ResolvedOne \in G /\ ResolvedOne \in Frames(prompts)
    BY <1>1, PlainFrames
  <2> HIDE DEF G
  <2>4. /\ w \in Seq(Frames(prompts)) /\ w \in Seq(G) /\ (~thread.subscribed => w = << >>)
        /\ thread.subscribed => 1 \in DOMAIN w /\ w[1] = ResolvedOne
    BY <1>3, <2>3 DEF Notify
  <2> HIDE DEF w
  <2>5. Utters(w)
    BY <1>2, <1>3, <2>1, <2>2, <2>4 DEF Utters, G
  <2> QED
    BY <1>2, <2>2, <2>4, <2>5 DEF Obeys
<1>7. CASE EndTurn
  <2> DEFINE f == [kind |-> "done", n |-> thread.turn]
             w == Notify(<<f>>)
  <2>1. pipe' = pipe \o w /\ thread' = [thread EXCEPT !.turn = 0] /\ thread.turn \in Given(prompts)
    BY <1>1, <1>7 DEF EndTurn, TurnFrame, Turns, Given
  <2>2. thread'.subscribed = thread.subscribed /\ thread'.child = thread.child /\ SameThread
    BY <1>1, <2>1 DEF SameThread
  <2>3. f \in Plain(prompts) /\ Plain(prompts) \subseteq Frames(prompts)
    BY <1>1, <2>1, PlainFrames
  <2> HIDE DEF f
  <2>4. w \in Seq(Plain(prompts)) /\ w \in Seq(Frames(prompts)) /\ (~thread.subscribed => w = << >>)
    BY <1>3, <2>3 DEF Notify
  <2> HIDE DEF w
  <2>5. Utters(w)
    BY <1>2, <1>3, <2>1, <2>2, <2>4 DEF Utters
  <2> QED
    BY <1>2, <2>2, <2>4, <2>5 DEF Obeys
<1> QED
  BY <1>4, <1>5, <1>6, <1>7

LEMMA TypedUtters ==
  ASSUME Shape, NEW x \in Texts, Type(x)
  PROVE  Obeys /\ \E w \in Seq(Frames(prompts')) : Utters(w)
<1> DEFINE n == prompts + 1
           f == [kind |-> "turn", n |-> n]
           g == [kind |-> "item", n |-> n, text |-> x]
           v == (IF thread.turn = 0 THEN <<f>> ELSE << >>) \o <<g, g>>
           w == Notify(v)
           P == Plain(n)
<1>1. /\ thread.child \in Words /\ prompts \in Nat /\ thread.subscribed \in BOOLEAN
      /\ thread = [turn |-> thread.turn, child |-> thread.child, ask |-> thread.ask,
                   asked |-> thread.asked, tui |-> thread.tui, habit |-> thread.habit,
                   subscribed |-> thread.subscribed]
  BY ThreadFields
<1>2. n \in Given(n)
  BY <1>1 DEF Given
<1>3. f \in P /\ g \in P /\ P \subseteq Frames(n)
  BY <1>1, <1>2, PlainFrames
<1>4. /\ up' = up /\ prompts' = n /\ pipe' = pipe \o w
      /\ thread' = IF thread.turn = 0 THEN [thread EXCEPT !.turn = n] ELSE thread
  BY DEF Type, Outside, TurnFrame, Item
<1>5. thread'.subscribed = thread.subscribed /\ thread'.child = thread.child /\ SameThread
  BY <1>1, <1>4 DEF SameThread
<1> HIDE DEF f, g, P
<1>6. v \in Seq(P) /\ << >> \in Seq(P) /\ << >> \in Seq(Answers(prompts))
  BY <1>3
<1> HIDE DEF v, n
<1>7. w \in Seq(P) /\ (~thread.subscribed => w = << >>)
  BY <1>6 DEF Notify
<1> HIDE DEF w
<1>8. w \in Seq(Frames(n))
  BY <1>3, <1>7
<1>9. Utters(w)
  BY <1>4, <1>5, <1>6, <1>7 DEF Utters, P
<1> QED
  BY <1>4, <1>5, <1>8, <1>9 DEF Obeys

LEMMA ServedUtters ==
  ASSUME Shape, ServerTakes
  PROVE  Obeys /\ \E w \in Seq(Frames(prompts')) : Utters(w)
<1> DEFINE q == Head(up)
           A == Answers(prompts)
           P == Plain(prompts)
           R == P \union {ResolvedOne}
           answer(k) == [kind |-> k, to |-> q.by, turn |-> thread.turn, child |-> thread.child]
<1>1. /\ thread.turn \in Turns(prompts) /\ thread.child \in Words /\ thread.ask \in {0, 1}
      /\ thread.subscribed \in BOOLEAN /\ up \in Seq(Sending(prompts)) /\ pipe \in Seq(Frames(prompts))
      /\ thread = [turn |-> thread.turn, child |-> thread.child, ask |-> thread.ask,
                   asked |-> thread.asked, tui |-> thread.tui, habit |-> thread.habit,
                   subscribed |-> thread.subscribed]
      /\ pipe \o << >> = pipe
  BY ThreadFields
<1>2. /\ up # << >> /\ up' = Tail(up) /\ prompts' = prompts
      /\ \/ (Refuses(q) \/ Overloaded(q)) /\ q.op # "approve"
         \/ q.op \in Sends /\ TakesPrompt(q)
         \/ q.op \in {"cancel", "interrupt"} /\ TakesInterrupt(q)
         \/ q.op \in {"attach", "items", "unsubscribe"} /\ Takes(q)
         \/ q.op = "approve" /\ TakesApproval(q)
  BY DEF ServerTakes, Accepts
<1>3. q \in Sending(prompts) /\ q.by \in Callers
  BY <1>1, <1>2, Popped DEF Sending
<1>4. /\ \A k \in {"result", "error", "overloaded"} : answer(k) \in P /\ answer(k) \in A
      /\ P \subseteq Frames(prompts) /\ R \subseteq Frames(prompts) /\ ResolvedOne \in R
      /\ P \subseteq R
  BY <1>1, <1>3, PlainFrames, ItsFrames
<1>5. << >> \in Seq(P) /\ << >> \in Seq(R) /\ << >> \in Seq(A)
  OBVIOUS
<1> HIDE DEF answer, A, P, R
<1>6. \A k \in {"result", "error", "overloaded"} : Reply(q.by, k) = << answer(k) >>
  BY DEF Reply, answer
<1>7. \A k \in {"result", "error", "overloaded"} :
         Reply(q.by, k) \in Seq(P) /\ Reply(q.by, k) \in Seq(A) /\ Reply(q.by, k) \in Seq(Frames(prompts))
  <2> SUFFICES ASSUME NEW k \in {"result", "error", "overloaded"}
               PROVE  /\ Reply(q.by, k) \in Seq(P) /\ Reply(q.by, k) \in Seq(A)
                      /\ Reply(q.by, k) \in Seq(Frames(prompts))
    OBVIOUS
  <2> DEFINE b == answer(k)
  <2>1. Reply(q.by, k) = <<b>> /\ b \in P /\ b \in A /\ b \in Frames(prompts)
    BY <1>4, <1>6
  <2> HIDE DEF b
  <2>2. <<b>> \in Seq(P) /\ <<b>> \in Seq(A) /\ <<b>> \in Seq(Frames(prompts))
    BY <2>1
  <2> QED
    BY <2>1, <2>2, Zenon
<1>8. CASE (Refuses(q) \/ Overloaded(q)) /\ q.op # "approve"
  <2>1. PICK k \in {"error", "overloaded"} : pipe' = pipe \o Reply(q.by, k) /\ thread' = thread
    BY <1>8 DEF Refuses, Overloaded
  <2>2. Utters(Reply(q.by, k))
    BY <1>2, <1>7, <2>1 DEF Utters, SameThread, P, A
  <2> QED
    BY <1>2, <1>7, <1>8, <2>1, <2>2 DEF Obeys
<1>9. CASE q.op \in Sends /\ TakesPrompt(q)
  <2> DEFINE turn == IF q.op = "send" THEN q.n ELSE thread.turn
             a == [kind |-> "result", to |-> q.by, turn |-> turn, child |-> None]
             f == [kind |-> "turn", n |-> turn]
             g == [kind |-> "item", n |-> q.n, text |-> q.text]
             v == (IF q.op = "send" THEN <<f>> ELSE << >>) \o <<g, g>>
             news == Notify(v)
             z == <<a>>
  <2>1. q.n \in Given(prompts) /\ q.text \in Texts /\ q.n \in Turns(prompts)
    BY <1>3, <1>9 DEF Sending, Told, Given, Turns
  <2>2. a \in P /\ a \in A /\ g \in P /\ (q.op = "send" => f \in P)
    <3>1. turn \in Turns(prompts) /\ None \in Words /\ (q.op = "send" => turn \in Given(prompts))
      BY <1>1, <2>1 DEF Words
    <3> HIDE DEF turn
    <3>2. a \in P /\ a \in A
      BY <1>1, <1>3, <3>1, PlainFrames, ItsFrames DEF P, A
    <3>3. g \in P /\ (q.op = "send" => f \in P)
      BY <1>1, <2>1, <3>1, PlainFrames DEF P
    <3> QED
      BY <3>2, <3>3
  <2>3. /\ pipe' \in {(pipe \o z) \o news, (pipe \o news) \o z}
        /\ thread' = IF q.op = "send" THEN [thread EXCEPT !.turn = turn] ELSE thread
    BY <1>9 DEF TakesPrompt, TurnFrame, Item
  <2>4. thread'.subscribed = thread.subscribed /\ thread'.child = thread.child /\ SameThread
    BY <1>1, <2>3 DEF SameThread
  <2> HIDE DEF a, f, g
  <2>5. v \in Seq(P) /\ z \in Seq(P) /\ z \in Seq(A)
    BY <1>5, <2>2
  <2> HIDE DEF v, z
  <2>6. news \in Seq(P) /\ (~thread.subscribed => news = << >>)
    BY <1>5, <2>5 DEF Notify
  <2> HIDE DEF news
  <2>7. /\ z \o news \in Seq(P) /\ news \o z \in Seq(P)
        /\ news = << >> => z \o news \in Seq(A) /\ news \o z \in Seq(A)
    BY <2>5, <2>6
  <2>8. z \in Seq(Frames(prompts)) /\ news \in Seq(Frames(prompts))
    BY <1>4, <2>5, <2>6
  <2>9. (pipe \o z) \o news = pipe \o (z \o news) /\ (pipe \o news) \o z = pipe \o (news \o z)
    BY <1>1, <2>8, ConcatAssociative, SMTT(30)
  <2>10. PICK w \in {z \o news, news \o z} : pipe' = pipe \o w
    BY <2>3, <2>9
  <2>11. w \in Seq(P) /\ (~thread.subscribed => w \in Seq(A)) /\ w \in Seq(Frames(prompts))
    <3>1. w \in Seq(P) /\ (~thread.subscribed => w \in Seq(A))
      BY <2>6, <2>7, <2>10
    <3> QED
      BY <1>4, <3>1
  <2>12. Utters(w)
    BY <1>2, <2>4, <2>10, <2>11 DEF Utters, P, A
  <2>13. q.op # "approve"
    BY <1>9 DEF Sends
  <2> QED
    BY <1>2, <2>4, <2>11, <2>12, <2>13 DEF Obeys
<1>10. CASE q.op \in {"cancel", "interrupt"} /\ TakesInterrupt(q)
  <2> DEFINE g == [kind |-> "done", n |-> thread.turn]
             v == (IF thread.ask # 0 THEN TurnFrame("resolved", thread.ask) ELSE << >>) \o <<g>>
             news == Notify(v)
             z == Reply(q.by, "result")
  <2>1. /\ thread.turn # 0 /\ thread' = [thread EXCEPT !.turn = 0, !.ask = 0]
        /\ pipe' = (pipe \o z) \o news
    BY <1>10 DEF TakesInterrupt, TurnFrame
  <2>2. thread'.subscribed = thread.subscribed /\ thread'.child = thread.child /\ thread'.ask = 0
        /\ thread'.asked = thread.asked
    BY <1>1, <2>1
  <2>3. g \in P
    <3>1. thread.turn \in Given(prompts)
      BY <1>1, <2>1 DEF Given, Turns
    <3> QED
      BY <1>1, <3>1, PlainFrames DEF P
  <2> HIDE DEF g
  <2>4. thread.ask # 0 => TurnFrame("resolved", thread.ask) = <<ResolvedOne>>
    BY <1>1 DEF TurnFrame, ResolvedOne
  <2>5. /\ thread.ask = 0 => v \in Seq(P)
        /\ thread.ask # 0 => v \in Seq(R) /\ v = <<ResolvedOne>> \o <<g>>
    <3>1. << >> \o <<g>> \in Seq(P) /\ <<ResolvedOne>> \o <<g>> \in Seq(R)
      BY <1>4, <2>3
    <3> QED
      BY <2>4, <3>1
  <2>6. thread.ask # 0 => 1 \in DOMAIN v /\ v[1] = ResolvedOne
    <3>1. /\ <<ResolvedOne>> \in Seq(R) /\ <<g>> \in Seq(R) /\ 1 \in DOMAIN <<ResolvedOne>>
          /\ <<ResolvedOne>>[1] = ResolvedOne
      BY <1>4, <2>3
    <3>2. 1 \in DOMAIN (<<ResolvedOne>> \o <<g>>) /\ (<<ResolvedOne>> \o <<g>>)[1] = ResolvedOne
      BY <3>1, Joined
    <3> QED
      BY <2>5, <3>2
  <2> HIDE DEF v, z
  <2>7. /\ thread.ask = 0 => news \in Seq(P)
        /\ news \in Seq(R) /\ (~thread.subscribed => news = << >>)
        /\ thread.subscribed => news = v
    <3>1. thread.ask = 0 => v \in Seq(P) /\ v \in Seq(R)
      BY <1>4, <2>5
    <3> QED
      BY <1>5, <2>5, <3>1 DEF Notify
  <2> HIDE DEF news
  <2>8. z \in Seq(P) /\ z \in Seq(A) /\ z \in Seq(R)
    BY <1>4, <1>7 DEF z
  <2> DEFINE w == z \o news
  <2>9. /\ thread.ask = 0 => w \in Seq(P)
        /\ w \in Seq(R) /\ (~thread.subscribed => w \in Seq(A)) /\ w \in Seq(Frames(prompts))
    BY <1>4, <2>7, <2>8
  <2>10. pipe' = pipe \o w
    <3>1. z \in Seq(Frames(prompts)) /\ news \in Seq(Frames(prompts))
      BY <1>4, <2>7, <2>8
    <3> QED
      BY <1>1, <2>1, <3>1, ConcatAssociative, SMTT(30)
  <2>11. thread.ask # 0 /\ thread.subscribed => \E i \in DOMAIN w : w[i] = ResolvedOne
    <3>1. \A i \in DOMAIN news : Len(z) + i \in DOMAIN w /\ w[Len(z) + i] = news[i]
      BY <2>7, <2>8, Joined
    <3> QED
      BY <2>6, <2>7, <3>1
  <2> HIDE DEF w
  <2>12. Utters(w)
    <3>1. CASE thread.ask = 0
      BY <1>2, <2>2, <2>9, <2>10, <3>1 DEF Utters, SameThread, P, A
    <3>2. CASE thread.ask # 0
      <4>1. thread.ask = 1
        BY <1>1, <3>2
      <4> QED
        BY <1>2, <2>2, <2>9, <2>10, <2>11, <3>2, <4>1 DEF Utters, P, A, R
    <3> QED
      BY <3>1, <3>2
  <2> QED
    BY <1>2, <1>10, <2>2, <2>9, <2>12 DEF Obeys
<1>11. CASE q.op \in {"attach", "items", "unsubscribe"} /\ Takes(q)
  <2>1. /\ pipe' = pipe \o Reply(q.by, "result")
        /\ thread' = IF q.op = "items" THEN thread
                     ELSE [thread EXCEPT !.subscribed = (q.op = "attach")]
    BY <1>11 DEF Takes
  <2>2. /\ thread'.child = thread.child /\ SameThread
        /\ q.op = "items" => thread'.subscribed = thread.subscribed
        /\ q.op = "unsubscribe" => ~thread'.subscribed
        /\ q.op = "attach" => thread'.subscribed
    BY <1>1, <2>1 DEF SameThread
  <2>3. Utters(Reply(q.by, "result"))
    BY <1>2, <1>7, <2>1, <2>2 DEF Utters, P, A
  <2> QED
    BY <1>2, <1>7, <1>11, <2>2, <2>3 DEF Obeys
<1>12. CASE q.op = "approve" /\ TakesApproval(q)
  <2> DEFINE w == Notify(<<ResolvedOne>>)
  <2>1. q.n = 1
    BY <1>3, <1>12 DEF Sending
  <2>2. CASE thread.ask # 1
    <3>1. UNCHANGED <<thread, pipe>> /\ thread.ask = 0
      BY <1>1, <1>12, <2>1, <2>2 DEF TakesApproval
    <3>2. Utters(<< >>) /\ << >> \in Seq(Frames(prompts))
      BY <1>1, <1>2, <1>5, <3>1 DEF Utters, SameThread, P, A
    <3> QED
      BY <1>2, <3>1, <3>2 DEF Obeys
  <2>3. CASE thread.ask = 1
    <3>1. pipe' = pipe \o w /\ thread' = [thread EXCEPT !.ask = 0]
      BY <1>12, <2>1, <2>3 DEF TakesApproval, TurnFrame, ResolvedOne
    <3>2. /\ thread'.subscribed = thread.subscribed /\ thread'.child = thread.child
          /\ thread'.ask = 0 /\ thread'.asked = thread.asked
      BY <1>1, <3>1
    <3>3. /\ w \in Seq(R) /\ (~thread.subscribed => w = << >>)
          /\ thread.subscribed => 1 \in DOMAIN w /\ w[1] = ResolvedOne
      BY <1>4, <1>5 DEF Notify
    <3> HIDE DEF w
    <3>4. w \in Seq(Frames(prompts))
      BY <1>4, <3>3
    <3>5. Utters(w)
      BY <1>2, <1>5, <2>3, <3>1, <3>2, <3>3 DEF Utters, P, A, R
    <3> QED
      BY <1>2, <3>2, <3>4, <3>5 DEF Obeys
  <2> QED
    BY <2>2, <2>3
<1> QED
  BY <1>2, <1>8, <1>9, <1>10, <1>11, <1>12

LEMMA ServerUtters ==
  ASSUME Shape, \/ Delegate \/ AskApproval \/ TuiApproves \/ EndTurn \/ ServerTakes
                \/ \E x \in Texts : Type(x)
  PROVE  /\ Obeys /\ \E w \in Seq(Frames(prompts')) : Utters(w)
         /\ UNCHANGED <<at, active, child, seen, requests, created, raced, link>>
         /\ pipe \in Seq(Frames(prompts'))
<1>1. UNCHANGED <<at, active, child, seen, requests, created, raced, link>>
  BY DEF Delegate, AskApproval, TuiApproves, EndTurn, ServerTakes, Type, Outside, view
<1>2. prompts \in Nat /\ prompts' \in {prompts, prompts + 1} /\ pipe \in Seq(Frames(prompts))
  BY DEF Shape, Delegate, AskApproval, TuiApproves, EndTurn, ServerTakes, Type
<1>3. Frames(prompts) \subseteq Frames(prompts')
  BY <1>2, Grown
<1>4. pipe \in Seq(Frames(prompts'))
  BY <1>2, <1>3
<1> QED
  BY <1>1, <1>4, AnnouncedUtters, TypedUtters, ServedUtters
-----------------------------------------------------------------------------
(* Roles, and a thread without subagents                                   *)

\* The calls that are answered, and show something or leave the thread.
Shows(t) ==
    /\ UNCHANGED <<pipe, thread, requests>> /\ raced \ {"turn", "child"} \subseteq raced'
    /\ Posts(t) /\ \A u \in Tasks : u # t => at'[u] = at[u]
    /\ at[t].pc \notin {"idle", "asked"}
    /\ \/ at'[t] = Idle
       \/ /\ at'[t].pc \in {"connecting", "asked"} /\ at'[t].child = at[t].child
          /\ \/ t = "topic" /\ at'[t].op = "items"
             \/ t = "worker" /\ at'[t].op = "unsubscribe" /\ at[t].op = "interrupt"
    /\ child' \in {child, None} \/ (child' = StatusOf(at[t].child) /\ at[t].child # None)
    /\ \/ created' = created /\ seen' = seen /\ at[t].op # "unsubscribe"
       \/ /\ t = "worker" /\ at[t].op = "unsubscribe" /\ at[t].pc = "answered" /\ at'[t] = Idle
          /\ ~created' /\ active' = 0 /\ child' = None /\ seen' = {}

LEMMA ItShows ==
  ASSUME Shape, Roles, NEW t \in Tasks,
         Sent(t) \/ Resumed(t) \/ Hydrated(t) \/ Interrupted(t) \/ Unsubscribed(t)
  PROVE  Shows(t)
<1>1. /\ at \in [Tasks -> Call(prompts)] /\ at[t] \in Doing
      /\ "worker" \in Tasks /\ "topic" \in Tasks /\ (t = "worker" \/ t = "topic")
  BY TaskFields
<1>2. /\ UNCHANGED <<pipe, thread, requests, link>> /\ raced \ {"turn", "child"} \subseteq raced'
      /\ at[t].pc \notin {"idle", "asked"}
      /\ child' \in {child, None} \/ (child' = StatusOf(at[t].child) /\ at[t].child # None)
      /\ \/ created' = created /\ seen' = seen /\ at[t].op # "unsubscribe"
         \/ at[t].op = "unsubscribe" /\ Unsubscribed(t)
  <2>1. UNCHANGED <<pipe, thread, requests, link>> /\ at[t].pc \notin {"idle", "asked"}
    BY DEF Sent, Resumed, Hydrated, Interrupted, Unsubscribed, Steady, Still, server,
           InTurn, Answered
  <2>2. raced \ {"turn", "child"} \subseteq raced'
    BY DEF Sent, Resumed, Hydrated, Hydrate, Interrupted, Unsubscribed
  <2>3. child' \in {child, None} \/ (child' = StatusOf(at[t].child) /\ at[t].child # None)
    BY DEF Sent, Resumed, Hydrated, Hydrate, Interrupted, Unsubscribed
  <2>4. \/ created' = created /\ seen' = seen /\ at[t].op # "unsubscribe"
        \/ at[t].op = "unsubscribe" /\ Unsubscribed(t)
    BY DEF Sent, Resumed, Hydrated, Interrupted, Unsubscribed
  <2> QED
    BY <2>1, <2>2, <2>3, <2>4
<1>3. at[t].op \in {"interrupt", "unsubscribe"} => t = "worker"
  BY <1>1 DEF Roles, None
<1>4. at[t].op = "attach" => t = "topic"
  BY <1>1 DEF Roles
<1>5. CASE Finish(t)
  <2>1. at'[t] = Idle /\ up' = up /\ \A u \in Tasks : u # t => at'[u] = at[u]
    BY <1>1, <1>5 DEF Finish
  <2> QED
    BY <1>2, <1>3, <2>1 DEF Shows, Posts, Unsubscribed, InTurn, Answered
<1>6. ASSUME NEW a \in Doing, Request(t, a), a.child = at[t].child,
             \/ t = "topic" /\ a.op = "items"
             \/ t = "worker" /\ a.op = "unsubscribe" /\ at[t].op = "interrupt"
      PROVE  Shows(t)
  <2>1. /\ \A u \in Tasks : u # t => at'[u] = at[u]
        /\ at'[t].op = a.op /\ at'[t].child = a.child
        /\ at'[t].pc \in {"connecting", "asked"} /\ Posts(t)
    BY <1>2, <1>6, AskedFor
  <2>2. at[t].op # "unsubscribe"
    BY <1>3, <1>6, TaskFields DEF Roles, None
  <2> QED
    BY <1>2, <1>3, <1>6, <2>1, <2>2 DEF Shows
<1>7. CASE Resumed(t) /\ at[t].turn # 0
  <2> DEFINE a == [at[t] EXCEPT !.op = "items", !.tries = 0, !.moved = @ \ {"second"}]
  <2>1. a \in Doing /\ a.op = "items" /\ a.child = at[t].child
    BY <1>1 DEF Doing, Ops
  <2>2. Request(t, a) /\ t = "topic"
    BY <1>4, <1>7 DEF Resumed
  <2> HIDE DEF a
  <2> QED
    BY <1>6, <2>1, <2>2
<1>8. CASE Interrupted(t) /\ active \in {0, at[t].turn}
  <2> DEFINE a == [at[t] EXCEPT !.op = "unsubscribe", !.tries = 0, !.moved = {}]
  <2>1. a \in Doing /\ a.op = "unsubscribe" /\ a.child = at[t].child
    BY <1>1 DEF Doing, Ops
  <2>2. Request(t, a) /\ t = "worker" /\ at[t].op = "interrupt"
    BY <1>3, <1>8 DEF Interrupted
  <2> HIDE DEF a
  <2> QED
    BY <1>6, <2>1, <2>2
<1> QED
  BY <1>5, <1>7, <1>8 DEF Sent, Resumed, Hydrated, Hydrate, Interrupted, Unsubscribed

\* What a task does, or its connection.
LEMMA TheyCallOrShow ==
  ASSUME CodexAssumption, Shape, Shape', Roles, TaskStep \/ \E t \in Tasks : DialFails(t) \/ Greeted(t) \/ Connected(t)
  PROVE  \/ EchoExpires \/ (\E r \in requests : Approve(r))
         \/ \E t \in Tasks : Calm(t) \/ Shows(t)
<1>1. CASE TaskStep
  BY <1>1, TaskSteps, BeginsCalmly, GoesOnCalmly, EndsCalmly, ItShows
<1>2. CASE \E t \in Tasks : DialFails(t) \/ Greeted(t) \/ Connected(t)
  BY <1>2, GoesOnCalmly
<1> QED
  BY <1>1, <1>2

\* The tasks after the connection ended, or a wait, and after a frame was read.
LEMMA DropsTasks ==
  ASSUME Shape, NEW t \in Tasks, Drop \/ \E u \in Tasks : TimesOut(u)
  PROVE  /\ at'[t].op = at[t].op /\ at'[t].child = at[t].child
         /\ at'[t] = at[t] \/ at'[t].pc \in {"failed", "answered"}
<1>1. at[t] \in Doing /\ at \in [Tasks -> Call(prompts)]
  BY TaskFields
<1>2. CASE Drop
  <2>1. Failed[t] = IF at[t].pc = "asked" THEN [at[t] EXCEPT !.pc = "failed"] ELSE at[t]
    BY DEF Failed
  <2>2. /\ Failed[t] \in Doing /\ Failed[t].op = at[t].op /\ Failed[t].child = at[t].child
        /\ Failed[t] = at[t] \/ Failed[t].pc = "failed"
    BY <1>1, <2>1 DEF Doing
  <2>3. at'[t] = IF Failed[t].pc = "answered"
                 THEN [Failed[t] EXCEPT !.moved = @ \union {"turn", "child"}] ELSE Failed[t]
    BY <1>2 DEF Drop, Overtake
  <2> QED
    BY <2>2, <2>3 DEF Doing
<1>3. ASSUME NEW u \in Tasks, TimesOut(u)
      PROVE  /\ at'[t].op = at[t].op /\ at'[t].child = at[t].child
             /\ at'[t] = at[t] \/ at'[t].pc \in {"failed", "answered"}
  BY <1>1, <1>3 DEF TimesOut, Become, Doing
<1> QED
  BY <1>2, <1>3

LEMMA ReadsTasks ==
  ASSUME Shape, Waiting, Handle, NEW t \in Tasks
  PROVE  /\ at'[t].op = at[t].op
         /\ at'[t].child = at[t].child \/ (at'[t].child = Head(pipe).child /\ Head(pipe).kind \in Answering)
         /\ at[t] = Idle => at'[t] = Idle
         /\ at'[t].pc = "idle" => at[t].pc = "idle"
<1> DEFINE f == Head(pipe)
<1>1. /\ pipe # << >> /\ f \in Frames(prompts) /\ 1 \in DOMAIN pipe /\ pipe[1] = f
      /\ at[t] \in Doing /\ at \in [Tasks -> Call(prompts)]
      /\ \/ Answer(f) \/ TurnStarted(f) \/ TurnCompleted(f) \/ ChildUpdate(f)
         \/ at' = at
  BY TaskFields, Popped DEF Shape, Handle, UserMessage, ServerRequest, RequestResolved
<1>2. at[t] = Idle => ~IsTo(f, t) /\ at[t].pc = "idle" /\ at[t].child = None
  BY <1>1 DEF Waiting, Idle
<1> HIDE DEF f
<1>3. CASE Answer(f)
  <2>1. /\ f.kind \in Answering /\ \A u \in Tasks : at'[u].op = at[u].op
        /\ ~IsTo(f, t) => at'[t] = at[t]
        /\ IsTo(f, t) =>
              /\ f.kind # "result" => at'[t].pc # "answered" /\ at'[t].child = at[t].child
              /\ f.kind = "result" =>
                   /\ at'[t].pc = "answered"
                   /\ at'[t].child = IF at[t].op = "attach" THEN f.child ELSE at[t].child
    BY <1>1, <1>3, AnswerGiven
  <2>2. IsTo(f, t) => at'[t].pc # "idle"
    <3>1. at'[t].pc = IF IsTo(f, t) THEN (IF f.kind = "result" THEN "answered" ELSE f.kind) ELSE at[t].pc
      BY ReaderReads DEF f
    <3> QED
      BY <2>1, <3>1 DEF Answering
  <2> QED
    BY <1>2, <2>1, <2>2 DEF f
<1>4. CASE TurnStarted(f) \/ TurnCompleted(f)
  <2>1. \/ at'[t] = at[t]
        \/ at[t].pc = "answered" /\ at'[t] = [at[t] EXCEPT !.moved = @ \union {"turn"}]
    BY <1>4 DEF TurnStarted, TurnCompleted, Overtake
  <2> QED
    BY <1>1, <1>2, <2>1 DEF Doing, f
<1>5. CASE ChildUpdate(f)
  <2>1. at'[t] = IF at[t].child \in {None, f.status} THEN at[t]
                 ELSE [at[t] EXCEPT !.moved = @ \union {"child"}]
    BY <1>5 DEF ChildUpdate
  <2> QED
    BY <1>1, <1>2, <2>1 DEF Doing, f
<1> QED
  BY <1>1, <1>3, <1>4, <1>5

LEMMA RolesKept ==
  ASSUME CodexAssumption, Shape, Shape', Waiting, Roles, [Next]_vars
  PROVE  Roles'
<1>1. /\ "worker" \in Tasks /\ "topic" \in Tasks /\ \A t \in Tasks : t = "worker" \/ t = "topic"
      /\ Idle.op = None /\ Idle.pc = "idle" /\ None \notin {"attach", "items"}
      /\ \A t \in Tasks : at[t] = Idle \/ at[t].pc # "idle"
  BY TaskFields DEF None, Roles
<1>2. ASSUME \A t \in Tasks : at'[t].op = at[t].op /\ (at'[t].pc = "idle" => at'[t] = Idle)
      PROVE  Roles'
  BY <1>1, <1>2 DEF Roles
<1>3. CASE at' = at
  BY <1>3 DEF Roles
<1>4. ASSUME NEW t \in Tasks, Calm(t) PROVE Roles'
  <2>1. /\ \A u \in Tasks : u # t => at'[u] = at[u]
        /\ \A u \in Tasks : at'[u].pc = "idle" => at'[u] = Idle
        /\ t = "worker" => at'[t].op \notin {"attach", "items"}
        /\ t = "topic" => at'[t].op \in {at[t].op, "attach", None}
    BY <1>1, <1>4 DEF Calm
  <2> QED
    BY <1>1, <2>1 DEF Roles
<1>5. ASSUME NEW t \in Tasks, Shows(t) PROVE Roles'
  BY <1>1, <1>5 DEF Roles, Shows
<1>6. CASE Drop \/ \E u \in Tasks : TimesOut(u)
  BY <1>1, <1>2, <1>6, DropsTasks
<1>7. CASE Handle
  BY <1>1, <1>2, <1>7, ReadsTasks
<1>8. CASE \/ Delegate \/ AskApproval \/ TuiApproves \/ EndTurn \/ ServerTakes
           \/ (\E x \in Texts : Type(x)) \/ UNCHANGED vars \/ EchoExpires
           \/ (\E r \in requests : Approve(r)) \/ \E t \in Tasks : Dial(t)
  BY <1>3, <1>8, ServerUtters, ApprovalSends DEF EchoExpires, Dial, vars
<1> QED
  BY <1>4, <1>5, <1>6, <1>7, <1>8, NextSteps, TheyCallOrShow

\* Steps that tell nothing new of the child.
LEMMA NoChildSame ==
  ASSUME NoChild, thread.child # None => thread'.child # None,
         thread.child = None =>
            /\ child' \in {child, None} \/ \E t \in Tasks : child' = StatusOf(at[t].child) /\ at[t].child # None
            /\ \A t \in Tasks : at'[t].child \in {None, at[t].child}
            /\ \A i \in DOMAIN pipe' :
                 \/ pipe'[i].kind # "child" /\ (pipe'[i].kind \in Answering => pipe'[i].child = None)
                 \/ \E j \in DOMAIN pipe : /\ pipe'[i].kind = pipe[j].kind
                                           /\ pipe[j].kind \in Answering => pipe'[i].child = pipe[j].child
  PROVE  NoChild'
  BY DEF NoChild

LEMMA NoChildReads ==
  ASSUME Shape, Waiting, NoChild, Handle
  PROVE  NoChild'
<1> DEFINE f == Head(pipe)
<1>1. /\ f \in Frames(prompts) /\ 1 \in DOMAIN pipe /\ pipe[1] = f /\ thread' = thread
      /\ pipe' = Tail(pipe)
      /\ \A i \in DOMAIN Tail(pipe) : i + 1 \in DOMAIN pipe /\ Tail(pipe)[i] = pipe[i + 1]
  BY Popped DEF Shape, Handle, server
<1>2. \/ child' = child
      \/ f.kind = "child"
  BY DEF Handle, Answer, view, TurnStarted, TurnCompleted, ChildUpdate, UserMessage,
         ServerRequest, RequestResolved
<1>3. \A t \in Tasks : at'[t].child = at[t].child \/ (at'[t].child = f.child /\ f.kind \in Answering)
  BY ReadsTasks
<1> HIDE DEF f
<1>4. ASSUME thread.child = None
      PROVE  /\ child' = child /\ \A t \in Tasks : at'[t].child \in {None, at[t].child}
             /\ \A i \in DOMAIN pipe' : pipe'[i] = pipe[i + 1] /\ i + 1 \in DOMAIN pipe
  BY <1>1, <1>2, <1>3, <1>4 DEF NoChild
<1> QED
  BY <1>1, <1>4, NoChildSame

LEMMA NoChildServed ==
  ASSUME Shape, Shape', NoChild, NEW w \in Seq(Frames(prompts')), Utters(w),
         UNCHANGED <<at, child>>, pipe \in Seq(Frames(prompts'))
  PROVE  NoChild'
<1>1. thread.child \in Words /\ (thread.child # None => thread'.child # None)
  BY DEF Shape, Thread, Utters, None
<1>2. ASSUME thread.child = None, thread'.child = None, NEW i \in DOMAIN w
      PROVE  w[i].kind # "child" /\ (w[i].kind \in Answering => w[i].child = None)
  <2>1. CASE w \in Seq(Plain(prompts') \union {ResolvedOne})
    <3>1. w[i] \in Plain(prompts') \union {ResolvedOne}
      BY <1>2, <2>1
    <3> QED
      BY <1>1, <1>2, <3>1, PlainFrames DEF ResolvedOne, Answering
  <2>2. CASE w \in Seq(Plain(prompts'))
    <3>1. w[i] \in Plain(prompts')
      BY <1>2, <2>2
    <3> QED
      BY <1>1, <1>2, <3>1, PlainFrames
  <2>3. CASE w = <<AskOne>>
    <3>1. w[i] = AskOne
      BY <1>2, <2>3
    <3> QED
      BY <3>1 DEF AskOne, Answering
  <2> QED
    BY <1>2, <2>1, <2>2, <2>3 DEF Utters
<1>3. /\ pipe' = pipe \o w
      /\ \A i \in DOMAIN (pipe \o w) :
           \/ i \in DOMAIN pipe /\ (pipe \o w)[i] = pipe[i]
           \/ \E j \in DOMAIN w : (pipe \o w)[i] = w[j]
  BY Joined DEF Utters
<1>4. CASE thread'.child # None
  BY <1>4 DEF NoChild
<1>5. CASE thread'.child = None
  BY <1>1, <1>2, <1>3, <1>5, NoChildSame, SMTT(30)
<1> QED
  BY <1>4, <1>5

LEMMA NoChildKept ==
  ASSUME CodexAssumption, Shape, Shape', Waiting, Roles, NoChild, [Next]_vars
  PROVE  NoChild'
<1>1. CASE \/ Delegate \/ AskApproval \/ TuiApproves \/ EndTurn \/ ServerTakes
           \/ \E x \in Texts : Type(x)
  BY <1>1, ServerUtters, NoChildServed
<1>2. CASE \E t \in Tasks : Calm(t) \/ Shows(t)
  <2>1. PICK t \in Tasks : Calm(t) \/ Shows(t)
    BY <1>2
  <2>2. Idle.child = None
    BY DEF Idle
  <2>3. /\ thread' = thread /\ pipe' = pipe
        /\ child' \in {child, None} \/ (child' = StatusOf(at[t].child) /\ at[t].child # None)
        /\ at'[t].child \in {None, at[t].child} /\ \A u \in Tasks : u # t => at'[u] = at[u]
    BY <2>1, <2>2 DEF Calm, Shows
  <2> QED
    BY <2>3, NoChildSame
<1>3. CASE Drop \/ \E t \in Tasks : TimesOut(t)
  <2>1. /\ thread'.child = thread.child /\ child' = child
        /\ \A t \in Tasks : at'[t].child = at[t].child
    BY <1>3, DropsTasks DEF Drop, TimesOut, server, view, Shape, Thread
  <2>2. CASE Drop
    BY <2>1, <2>2, NoChildSame DEF Drop
  <2>3. ASSUME NEW t \in Tasks, TimesOut(t) PROVE NoChild'
    <3>1. \A i \in DOMAIN pipe' : i \in DOMAIN pipe /\ pipe'[i].kind = pipe[i].kind
                                 /\ (pipe[i].kind \in Answering => pipe'[i].child = pipe[i].child)
      BY <2>3, PipeTimesOut
    <3> QED
      BY <2>1, <3>1, NoChildSame
  <2> QED
    BY <1>3, <2>2, <2>3
<1>4. CASE \/ UNCHANGED vars \/ EchoExpires
           \/ (\E r \in requests : Approve(r)) \/ \E t \in Tasks : Dial(t)
  <2>1. UNCHANGED <<thread, child, at, pipe>>
    BY <1>4, ApprovalSends DEF EchoExpires, Dial, vars, server, line, view
  <2> QED
    BY <2>1 DEF NoChild
<1> QED
  BY <1>1, <1>2, <1>3, <1>4, NextSteps, NoChildReads, TheyCallOrShow
-----------------------------------------------------------------------------
(* A connection that is down                                               *)

\* Of a connection that is lost nothing is left on the way.
Offline == link = "down" => up = << >> /\ pipe = << >> /\ ~thread.subscribed

LEMMA LinkStays ==
  ASSUME TaskStep \/ \E t \in Tasks : DialFails(t) \/ Greeted(t) \/ Connected(t) \/ Dial(t)
  PROVE  link' = "down" => link = "down"
<1>1. CASE EchoExpires \/ \E r \in requests : Approve(r)
  BY <1>1 DEF EchoExpires, Approve, Steady, Still
<1>2. ASSUME NEW t \in Tasks, \/ \E op \in Sends, x \in Texts : Prompt(t, op, x)
                              \/ Cancel(t) \/ Attach(t) \/ Close(t)
      PROVE  link' = link
  BY <1>2 DEF Prompt, Cancel, Attach, Close, Still
<1>3. ASSUME NEW t \in Tasks, \/ Retry(t) \/ GivesUp(t)
                              \/ Sent(t) \/ SendFails(t) \/ Fails(t)
                              \/ Resumed(t) \/ Hydrated(t) \/ Interrupted(t) \/ Unsubscribed(t)
      PROVE  link' = link
  BY <1>3 DEF Retry, GivesUp, Sent, SendFails, Fails, Resumed, Hydrated, Interrupted,
              Unsubscribed, Steady, Still
<1>4. CASE \E t \in Tasks : DialFails(t) \/ Greeted(t) \/ Connected(t) \/ Dial(t)
  BY <1>4 DEF DialFails, Greeted, Connected, Dial
<1> QED
  BY <1>1, <1>2, <1>3, <1>4, TaskSteps

LEMMA OfflineKept ==
  ASSUME CodexAssumption, Shape, Shape', Waiting, Roles, Offline, [Next]_vars
  PROVE  Offline'
<1>1. CASE Delegate \/ AskApproval \/ TuiApproves \/ EndTurn
  <2>1. PICK w \in Seq(News(prompts)) : Announces(w)
    BY <1>1, TheyAnnounce
  <2> QED
    BY <2>1 DEF Offline, Announces, Outside
<1>2. ASSUME NEW x \in Texts, Type(x)
      PROVE  Offline'
  <2>1. PICK w \in Seq(News(prompts')) : Types(x, w)
    BY <1>2, TheyType
  <2> QED
    BY <2>1 DEF Offline, Types, Outside
<1>3. CASE ServerTakes \/ Handle \/ Drop \/ UNCHANGED vars \/ \E t \in Tasks : TimesOut(t)
  <2>1. CASE \E t \in Tasks : TimesOut(t)
    BY <2>1 DEF Offline, Waiting, TimesOut
  <2>2. CASE Drop
    BY <2>2 DEF Offline, Drop, Shape, Thread
  <2> QED
    BY <1>3, <2>1, <2>2 DEF Offline, ServerTakes, Handle, vars, line, server
<1>4. CASE TaskStep \/ \E t \in Tasks : DialFails(t) \/ Greeted(t) \/ Connected(t) \/ Dial(t)
  <2>1. link' = "down" => link = "down"
    BY <1>4, LinkStays
  <2>2. link' = "down" => UNCHANGED <<up, pipe, thread>>
    <3>1. CASE \E t \in Tasks : Calm(t) \/ Shows(t)
      BY <3>1 DEF Calm, Shows, Posts
    <3>2. CASE EchoExpires \/ (\E r \in requests : Approve(r)) \/ \E t \in Tasks : Dial(t)
      BY <2>1, <3>2 DEF EchoExpires, Approve, Steady, Still, server, Dial
    <3> QED
      BY <1>4, <3>1, <3>2, TheyCallOrShow
  <2> QED
    BY <2>1, <2>2 DEF Offline
<1> QED
  BY <1>1, <1>2, <1>3, <1>4, NextSteps
-----------------------------------------------------------------------------
(* Leaving a thread, and attaching to it                                   *)

\* An attach that is on its way with an unsubscribe was sent before it.
InLine ==
    "closed" \notin raced =>
        \A i, j \in DOMAIN up : up[i].op = "unsubscribe" /\ up[j].op = "attach" => j < i

\* No task goes back to a thread that is being left.
LEMMA NobodyReturns ==
  ASSUME Shape, Roles, Closed, NotClosed, NEW t \in Tasks, Calm(t) \/ Shows(t),
         at'[t].op = "attach", at'[t].pc = "asked"
  PROVE  Tracked
<1>1. /\ "worker" \in Tasks /\ "topic" \in Tasks /\ Idle.pc = "idle" /\ Idle.op = None
      /\ t = "worker" \/ t = "topic"
  BY TaskFields
<1>2. t = "topic" /\ Calm(t)
  BY <1>1 DEF Calm, Shows
<1>3. SUFFICES ASSUME ~created \/ at["worker"].op = "unsubscribe" PROVE FALSE
  BY DEF Tracked, NotClosed
<1>4. at["topic"] = Idle
  BY <1>1, <1>3 DEF Closed, NotClosed, Alone, ClosingOps, Roles
<1> QED
  BY <1>1, <1>2, <1>3, <1>4 DEF Calm, Closing

LEMMA StaysUntracked ==
  ASSUME Shape, NEW t \in Tasks, Calm(t) \/ Shows(t)
  PROVE  Tracked' => Tracked
  BY TaskFields DEF Calm, Shows, Tracked

LEMMA InLineKept ==
  ASSUME CodexAssumption, Shape, Shape', Waiting, Roles, Closed, Watched, InLine, [Next]_vars
  PROVE  InLine'
<1>1. up \in Seq(Sending(prompts))
  BY DEF Shape
<1>2. CASE \/ Delegate \/ AskApproval \/ TuiApproves \/ EndTurn \/ ServerTakes
           \/ \E x \in Texts : Type(x)
  <2>1. raced' = raced /\ (up' = up \/ (up # << >> /\ up' = Tail(up)))
    BY <1>2, ServerUtters DEF Obeys
  <2>2. CASE up' = up
    BY <2>1, <2>2 DEF InLine
  <2>3. CASE up # << >> /\ up' = Tail(up)
    <3>1. \A i \in DOMAIN up' : i + 1 \in DOMAIN up /\ up'[i] = up[i + 1] /\ i \in Int
      BY <1>1, <2>3, Popped
    <3>2. SUFFICES ASSUME "closed" \notin raced', NEW i \in DOMAIN up', NEW j \in DOMAIN up',
                          up'[i].op = "unsubscribe" /\ up'[j].op = "attach"
                   PROVE  j < i
      BY DEF InLine
    <3>3. j + 1 < i + 1
      BY <2>1, <3>1, <3>2 DEF InLine
    <3> QED
      BY <3>1, <3>3
  <2> QED
    BY <2>1, <2>2, <2>3
<1>3. ASSUME NEW t \in Tasks, Calm(t) \/ Shows(t)
      PROVE  InLine'
  <2>1. Posts(t) /\ ("closed" \notin raced' => "closed" \notin raced)
    BY <1>3 DEF Calm, Shows
  <2>2. CASE up' = up
    BY <2>1, <2>2 DEF InLine
  <2>3. ASSUME NEW q, up' = Append(up, q), q.op = at'[t].op, at'[t].pc = "asked"
        PROVE  InLine'
    <3>1. /\ \A i \in DOMAIN up' : \/ i \in DOMAIN up /\ up'[i] = up[i]
                                   \/ i = Len(up) + 1 /\ up'[i] = q
          /\ \A i \in DOMAIN up : i < Len(up) + 1
      BY <1>1, <2>3
    <3>2. CASE q.op # "attach"
      BY <2>1, <3>1, <3>2 DEF InLine
    <3>3. CASE q.op = "attach" /\ "closed" \notin raced'
      <4>1. \A i \in DOMAIN up : up[i].op # "unsubscribe"
        BY <1>3, <2>1, <2>3, <3>3, NobodyReturns DEF NotClosed, Watched
      <4> QED
        BY <3>1, <3>3, <4>1 DEF InLine
    <3> QED
      BY <3>2, <3>3 DEF InLine
  <2> QED
    BY <2>1, <2>2, <2>3 DEF Posts
<1>4. CASE Drop
  BY <1>4 DEF Drop, InLine
<1>5. ASSUME NEW t \in Tasks, TimesOut(t)
      PROVE  InLine'
  <2>1. raced' = raced /\ DOMAIN up' = DOMAIN up /\ \A i \in DOMAIN up : up'[i].op = up[i].op
    BY <1>5, GivenUp
  <2> QED
    BY <2>1 DEF InLine
<1>6. ASSUME NEW r \in requests, Approve(r)
      PROVE  InLine'
  <2>1. /\ raced' = raced
        /\ \A i \in DOMAIN up' : \/ i \in DOMAIN up /\ up'[i] = up[i]
                                 \/ up'[i].op = "approve"
    BY <1>6, ApprovalSends
  <2> QED
    BY <2>1 DEF InLine
<1>7. CASE Handle
  <2>1. up' = up /\ ("closed" \notin raced' => "closed" \notin raced)
    BY <1>7 DEF Handle, Answer, view, TurnStarted, TurnCompleted, ChildUpdate, UserMessage,
                ServerRequest, RequestResolved
  <2> QED
    BY <2>1 DEF InLine
<1>8. CASE UNCHANGED vars \/ EchoExpires \/ \E t \in Tasks : Dial(t)
  BY <1>8 DEF InLine, vars, line, EchoExpires, Dial
<1> QED
  BY <1>2, <1>3, <1>4, <1>5, <1>6, <1>7, <1>8, NextSteps, TheyCallOrShow
-----------------------------------------------------------------------------
(* The approval that the server asks for, once                             *)

Sound    == raced \intersect {"lost", "closed"} = {}
Comes(k) == \E i \in DOMAIN pipe : pipe[i].kind = k
Goes(op) == \E i \in DOMAIN up : up[i].op = op

AskedOnce ==
    \A i, j \in DOMAIN pipe : pipe[i].kind = "ask" =>
        /\ pipe[j].kind = "ask" => i = j
        /\ pipe[j].kind = "resolved" => i < j

Unasked ==
    thread.asked = 0 =>
        /\ thread.ask = 0 /\ requests = {}
        /\ ~Comes("ask") /\ ~Comes("resolved") /\ ~Goes("approve")

\* The request is in one place: on its way, kept, or being answered.
InStep ==
    /\ link = "down" => thread.asked = 0
    /\ AskedOnce
    /\ Comes("ask") => requests = {} /\ ~Goes("approve")
    /\ Goes("approve") => requests = {}
    /\ thread.ask = 1 => ~Comes("resolved") /\ (Comes("ask") \/ requests # {} \/ Goes("approve"))
    /\ thread.subscribed /\ (Comes("ask") \/ requests # {}) => thread.ask = 1 \/ Comes("resolved")
    /\ ~thread.subscribed /\ thread.asked = 1 => ~Tracked /\ ~Goes("attach")

Approving == Unasked /\ (Sound => InStep)

\* Steps that neither ask nor answer.
LEMMA ApprovingSame ==
  ASSUME Approving, thread' = thread, requests' = requests, DOMAIN pipe' = DOMAIN pipe,
         \A i \in DOMAIN pipe : pipe'[i].kind = pipe[i].kind,
         Goes("approve")' <=> Goes("approve"), Sound' => Sound,
         link' = "down" => link = "down", Tracked' => Tracked,
         Sound /\ Goes("attach")' => Goes("attach") \/ Tracked
  PROVE  Approving'
<1>1. /\ AskedOnce' <=> AskedOnce
      /\ Comes("ask")' <=> Comes("ask")
      /\ Comes("resolved")' <=> Comes("resolved")
  BY DEF AskedOnce, Comes
<1> QED
  BY <1>1 DEF Approving, Unasked, InStep

\* What the frames w, behind those of pipe, bring.
LEMMA ComesBehind ==
  ASSUME NEW p, pipe \in Seq(Frames(p)), NEW w \in Seq(Frames(p)), pipe' = pipe \o w
  PROVE  /\ \A k : Comes(k)' <=> Comes(k) \/ \E i \in DOMAIN w : w[i].kind = k
         /\ AskedOnce /\ (\A i \in DOMAIN w : w[i].kind # "ask") => AskedOnce'
         /\ Len(w) = 1 /\ ~Comes("ask") /\ ~Comes("resolved") => AskedOnce'
<1>1. /\ \A i \in DOMAIN pipe : i \in DOMAIN pipe' /\ pipe'[i] = pipe[i]
      /\ \A i \in DOMAIN w : Len(pipe) + i \in DOMAIN pipe' /\ pipe'[Len(pipe) + i] = w[i]
      /\ \A i \in DOMAIN pipe' : i \in DOMAIN pipe \/ \E j \in DOMAIN w : i = Len(pipe) + j
  BY Joined
<1>2. /\ \A i \in DOMAIN pipe, j \in DOMAIN w : i < Len(pipe) + j
      /\ Len(w) = 1 => DOMAIN w = {1}
  OBVIOUS
<1>3. ASSUME NEW k
      PROVE  Comes(k)' <=> Comes(k) \/ \E i \in DOMAIN w : w[i].kind = k
  <2>1. Comes(k)' => Comes(k) \/ \E i \in DOMAIN w : w[i].kind = k
    <3>1. SUFFICES ASSUME NEW i \in DOMAIN pipe', pipe'[i].kind = k
                   PROVE  Comes(k) \/ \E j \in DOMAIN w : w[j].kind = k
      BY DEF Comes
    <3>2. CASE i \in DOMAIN pipe
      BY <1>1, <3>1, <3>2 DEF Comes
    <3>3. ASSUME NEW j \in DOMAIN w, i = Len(pipe) + j PROVE w[j].kind = k
      BY <1>1, <3>1, <3>3
    <3> QED
      BY <1>1, <3>2, <3>3
  <2>2. Comes(k) => Comes(k)'
    BY <1>1 DEF Comes
  <2>3. ASSUME NEW i \in DOMAIN w, w[i].kind = k PROVE Comes(k)'
    BY <1>1, <2>3 DEF Comes
  <2> QED
    BY <2>1, <2>2, <2>3
<1>4. AskedOnce /\ (\A i \in DOMAIN w : w[i].kind # "ask") => AskedOnce'
  BY <1>1, <1>2 DEF AskedOnce
<1>5. Len(w) = 1 /\ ~Comes("ask") /\ ~Comes("resolved") => AskedOnce'
  BY <1>1, <1>2 DEF AskedOnce, Comes
<1> QED
  BY <1>3, <1>4, <1>5

LEMMA ApprovingServed ==
  ASSUME Shape, Shape', Offline, InLine, Watched, Approving,
         NEW w \in Seq(Frames(prompts')), pipe \in Seq(Frames(prompts')), Utters(w), Obeys,
         UNCHANGED <<at, requests, created, raced, link>>
  PROVE  Approving'
<1>1. /\ thread.ask \in {0, 1} /\ thread.asked \in {0, 1} /\ thread.subscribed \in BOOLEAN
      /\ thread'.subscribed \in BOOLEAN /\ thread.child \in Words
      /\ up \in Seq(Sending(prompts)) /\ pipe' = pipe \o w
  BY DEF Shape, Thread, Utters
<1>2. /\ \A op : Goes(op)' => Goes(op)
      /\ Goes("approve") => Goes("approve")' \/ thread'.ask = 0
      /\ thread'.subscribed => thread.subscribed \/ Goes("attach")
      /\ thread.subscribed /\ ~thread'.subscribed =>
           Goes("unsubscribe") /\ (InLine /\ "closed" \notin raced => ~Goes("attach")')
  <2>1. CASE up' = up /\ thread'.subscribed = thread.subscribed
    BY <2>1 DEF Goes
  <2>2. CASE /\ up # << >> /\ up' = Tail(up)
             /\ \/ thread'.subscribed = thread.subscribed
                \/ Head(up).op = "attach" /\ thread'.subscribed
                \/ Head(up).op = "unsubscribe" /\ ~thread'.subscribed
             /\ Head(up).op = "approve" => thread'.ask = 0
    <3>1. /\ 1 \in DOMAIN up /\ up[1] = Head(up)
          /\ \A i \in DOMAIN Tail(up) : i + 1 \in DOMAIN up /\ Tail(up)[i] = up[i + 1] /\ ~(i + 1 < 1)
          /\ \A i \in DOMAIN up : i = 1 \/ \E j \in DOMAIN Tail(up) : i = j + 1
      BY <1>1, <2>2, Popped
    <3>2. \A op : Goes(op)' => Goes(op)
      BY <2>2, <3>1 DEF Goes
    <3>3. Goes("approve") => Goes("approve")' \/ thread'.ask = 0
      BY <2>2, <3>1 DEF Goes
    <3>4. thread'.subscribed => thread.subscribed \/ Goes("attach")
      BY <2>2, <3>1 DEF Goes
    <3>5. ASSUME thread.subscribed, ~thread'.subscribed
          PROVE  Goes("unsubscribe") /\ (InLine /\ "closed" \notin raced => ~Goes("attach")')
      <4>1. up[1].op = "unsubscribe"
        BY <1>1, <2>2, <3>1, <3>5
      <4>2. InLine /\ "closed" \notin raced => ~Goes("attach")'
        BY <2>2, <3>1, <4>1 DEF InLine, Goes
      <4> QED
        BY <3>1, <4>1, <4>2 DEF Goes
    <3> QED
      BY <3>2, <3>3, <3>4, <3>5
  <2> QED
    BY <2>1, <2>2 DEF Obeys
<1>3. (Tracked' <=> Tracked) /\ (Sound' <=> Sound) /\ (Sound => "closed" \notin raced)
  BY DEF Tracked, Sound
<1>4. ASSUME Sound, ~thread'.subscribed, thread.subscribed \/ thread.asked = 1
      PROVE  ~Tracked /\ ~Goes("attach")'
  <2>1. CASE thread.subscribed
    <3>1. Goes("unsubscribe") /\ ~Goes("attach")'
      BY <1>2, <1>3, <1>4, <2>1
    <3> QED
      BY <3>1 DEF Watched, Goes
  <2>2. CASE ~thread.subscribed
    BY <1>2, <1>4, <2>2 DEF Approving, InStep
  <2> QED
    BY <2>1, <2>2
<1>5. /\ \A k : Comes(k)' <=> Comes(k) \/ \E i \in DOMAIN w : w[i].kind = k
      /\ AskedOnce /\ (\A i \in DOMAIN w : w[i].kind # "ask") => AskedOnce'
      /\ Len(w) = 1 /\ ~Comes("ask") /\ ~Comes("resolved") => AskedOnce'
  BY <1>1, ComesBehind
<1>6. w \in Seq(ChildNews) => \A i \in DOMAIN w : w[i].kind \notin {"ask", "resolved"}
  <2>1. w \in Seq(ChildNews) => \A i \in DOMAIN w : w[i] \in ChildNews
    OBVIOUS
  <2> QED
    BY <2>1 DEF ChildNews
<1>7. CASE (w \in Seq(Plain(prompts')) \/ w \in Seq(ChildNews)) /\ SameThread
  <2>1. \A i \in DOMAIN w : w[i].kind \notin {"ask", "resolved"}
    <3>1. CASE w \in Seq(Plain(prompts'))
      BY <1>1, <3>1, PlainFrames
    <3> QED
      BY <1>6, <1>7, <3>1
  <2>2. /\ Comes("ask")' <=> Comes("ask")
        /\ Comes("resolved")' <=> Comes("resolved")
        /\ AskedOnce => AskedOnce'
    BY <1>5, <2>1
  <2>3. Unasked'
    BY <1>2, <1>7, <2>2 DEF Approving, Unasked, SameThread
  <2>4. ASSUME Sound PROVE InStep'
    <3>1. thread'.subscribed => thread.subscribed \/ thread.asked = 0
      BY <1>1, <1>2, <2>4 DEF Approving, InStep
    <3> QED
      BY <1>1, <1>2, <1>3, <1>4, <1>7, <2>2, <2>4, <3>1
         DEF Approving, InStep, Unasked, SameThread
  <2> QED
    BY <1>3, <2>3, <2>4 DEF Approving
<1>8. CASE /\ w = <<AskOne>> /\ thread.asked = 0 /\ thread.subscribed
           /\ thread'.asked = 1 /\ thread'.ask = 1
  <2>1. /\ Unasked /\ Len(w) = 1 /\ 1 \in DOMAIN w /\ \A i \in DOMAIN w : w[i].kind = "ask"
    BY <1>8 DEF AskOne, Approving
  <2>2. Comes("ask")' /\ ~Comes("resolved")' /\ AskedOnce'
    BY <1>5, <1>8, <2>1 DEF Unasked
  <2>3. requests' = {} /\ ~Goes("approve")' /\ link' # "down"
    BY <1>2, <1>8, <2>1 DEF Unasked, Offline
  <2>4. Sound => InStep'
    BY <1>3, <1>4, <1>8, <2>2, <2>3 DEF InStep
  <2>5. Unasked'
    BY <1>8 DEF Unasked
  <2> QED
    BY <1>3, <2>4, <2>5 DEF Approving
<1>9. CASE /\ w \in Seq(Plain(prompts') \union {ResolvedOne})
           /\ thread.ask = 1 /\ thread'.ask = 0 /\ thread'.asked = thread.asked
           /\ thread.subscribed => \E i \in DOMAIN w : w[i] = ResolvedOne
  <2>1. \A i \in DOMAIN w : w[i].kind # "ask"
    <3>1. \A i \in DOMAIN w : w[i] \in Plain(prompts') \union {ResolvedOne}
      BY <1>9
    <3> QED
      BY <1>1, <3>1, PlainFrames DEF ResolvedOne
  <2>2. /\ Comes("ask")' <=> Comes("ask")
        /\ AskedOnce => AskedOnce'
        /\ thread.subscribed => Comes("resolved")'
    BY <1>5, <1>9, <2>1 DEF ResolvedOne
  <2>3. thread.asked = 1
    BY <1>1, <1>9 DEF Approving, Unasked
  <2>4. Sound => InStep'
    <3>1. Sound => (thread'.subscribed => thread.subscribed)
      BY <1>2, <2>3 DEF Approving, InStep
    <3> QED
      BY <1>2, <1>3, <1>4, <1>9, <2>2, <2>3, <3>1 DEF Approving, InStep
  <2>5. Unasked'
    BY <1>9, <2>3 DEF Unasked
  <2> QED
    BY <1>3, <2>4, <2>5 DEF Approving
<1> QED
  BY <1>7, <1>8, <1>9 DEF Utters

LEMMA ApprovingReads ==
  ASSUME Shape, Shape', Waiting, Approving, Handle
  PROVE  Approving'
<1> DEFINE f == Head(pipe)
<1>1. /\ thread.ask \in {0, 1} /\ thread.asked \in {0, 1} /\ thread.subscribed \in BOOLEAN
      /\ requests \subseteq {1} /\ pipe \in Seq(Frames(prompts)) /\ f \in Frames(prompts)
      /\ UNCHANGED <<thread, up, link>> /\ (f.kind \in {"ask", "resolved"} => f.n = 1)
  BY Popped, FrameKinds DEF Shape, Thread, Handle, server
<1>2. /\ pipe' = Tail(pipe) /\ 1 \in DOMAIN pipe /\ pipe[1] = f
      /\ \A i \in DOMAIN Tail(pipe) : i + 1 \in DOMAIN pipe /\ i + 1 # 1 /\ Tail(pipe)[i] = pipe[i + 1]
      /\ \A i \in DOMAIN Tail(pipe) : i \in Nat /\ ~(i + 1 < 1)
      /\ \A i \in DOMAIN pipe : i = 1 \/ \E j \in DOMAIN Tail(pipe) : i = j + 1
  BY <1>1, Popped DEF Handle
<1>3. /\ f.kind \notin {"ask", "resolved"} => requests' = requests
      /\ f.kind = "ask" => requests' = requests \union {f.n}
      /\ f.kind = "resolved" => requests' = requests \ {f.n}
      /\ created' = created /\ raced \ {"turn", "child"} \subseteq raced'
      /\ Sound' => Sound
  BY DEF Handle, Answer, view, TurnStarted, TurnCompleted, ChildUpdate, UserMessage,
         ServerRequest, RequestResolved, Sound
<1>4. Tracked' => Tracked
  <2>1. at'["worker"].op = at["worker"].op
    BY ReadsTasks, TaskFields
  <2> QED
    BY <1>3, <2>1 DEF Tracked
<1> HIDE DEF f
<1>5. \A op : Goes(op)' <=> Goes(op)
  BY <1>1 DEF Goes
<1>6. \A k : Comes(k)' => Comes(k)
  BY <1>2 DEF Comes
<1>7. \A k : Comes(k) => f.kind = k \/ Comes(k)'
  BY <1>2 DEF Comes
<1>8. AskedOnce => AskedOnce'
  <2>1. SUFFICES ASSUME AskedOnce, NEW i \in DOMAIN pipe', NEW j \in DOMAIN pipe', pipe'[i].kind = "ask"
                 PROVE  /\ pipe'[j].kind = "ask" => i = j
                        /\ pipe'[j].kind = "resolved" => i < j
    BY DEF AskedOnce
  <2>2. /\ pipe'[j].kind = "ask" => i + 1 = j + 1
        /\ pipe'[j].kind = "resolved" => i + 1 < j + 1
    BY <1>2, <2>1 DEF AskedOnce
  <2> QED
    BY <1>2, <2>2
<1>9. AskedOnce /\ f.kind \in {"ask", "resolved"} => ~Comes("ask")'
  BY <1>2 DEF AskedOnce, Comes
<1>10. f.kind = "resolved" => requests' = {}
  BY <1>1, <1>3
<1>11. f.kind = "ask" => requests' # {} /\ Comes("ask")
  BY <1>1, <1>2, <1>3 DEF Comes
<1>12. Unasked'
  BY <1>1, <1>3, <1>5, <1>6, <1>11 DEF Approving, Unasked
<1>13. f.kind = "resolved" => Comes("resolved")
  BY <1>2 DEF Comes
<1>14. ASSUME Sound PROVE InStep'
  <2>1. CASE f.kind \notin {"ask", "resolved"}
    BY <1>1, <1>3, <1>4, <1>5, <1>6, <1>7, <1>8, <1>14, <2>1 DEF Approving, InStep
  <2>2. CASE f.kind = "ask"
    BY <1>1, <1>4, <1>5, <1>6, <1>7, <1>8, <1>9, <1>11, <1>14, <2>2 DEF Approving, InStep
  <2>3. CASE f.kind = "resolved"
    BY <1>1, <1>4, <1>5, <1>6, <1>7, <1>8, <1>9, <1>10, <1>13, <1>14, <2>3 DEF Approving, InStep
  <2> QED
    BY <2>1, <2>2, <2>3
<1> QED
  BY <1>3, <1>12, <1>14 DEF Approving

LEMMA ApprovingTasks ==
  ASSUME Shape, Shape', Roles, Closed, Approving, NEW t \in Tasks, Calm(t) \/ Shows(t),
         link' = "down" => link = "down"
  PROVE  Approving'
<1>1. /\ UNCHANGED <<pipe, thread, requests>> /\ Posts(t)
      /\ Sound' => Sound
      /\ Tracked' => Tracked
  BY StaysUntracked DEF Calm, Shows, Sound
<1>2. up \in Seq(Sending(prompts)) /\ at'[t].op # "approve"
  BY DEF Shape, Call, Doing, Ops, Sends, None
<1>3. /\ Goes("approve")' <=> Goes("approve")
      /\ Sound /\ Goes("attach")' => Goes("attach") \/ Tracked
  <2>1. CASE up' = up
    BY <2>1 DEF Goes
  <2>2. ASSUME NEW q, up' = Append(up, q), q.op = at'[t].op, at'[t].pc = "asked"
        PROVE  /\ Goes("approve")' <=> Goes("approve")
               /\ Sound /\ Goes("attach")' => Goes("attach") \/ Tracked
    <3>1. /\ \A i \in DOMAIN up' : \/ i \in DOMAIN up /\ up'[i] = up[i]
                                   \/ i = Len(up) + 1 /\ up'[i] = q
          /\ \A i \in DOMAIN up : i \in DOMAIN up' /\ up'[i] = up[i]
      BY <1>2, <2>2
    <3>2. Goes("approve")' <=> Goes("approve")
      BY <1>2, <2>2, <3>1 DEF Goes
    <3>3. Goes("attach")' => Goes("attach") \/ q.op = "attach"
      BY <3>1 DEF Goes
    <3>4. Sound /\ q.op = "attach" => Tracked
      BY <2>2, NobodyReturns DEF NotClosed, Sound
    <3> QED
      BY <3>2, <3>3, <3>4
  <2> QED
    BY <1>1, <2>1, <2>2 DEF Posts
<1> QED
  BY <1>1, <1>3, ApprovingSame

LEMMA ApprovingApproves ==
  ASSUME Shape, Approving, NEW r \in requests, Approve(r)
  PROVE  Approving'
<1>1. /\ UNCHANGED <<thread, pipe, link, at, created, raced>>
      /\ requests' = requests \ {r} /\ r = 1 /\ requests \subseteq {1}
      /\ thread.asked \in {0, 1}
  BY ApprovalSends DEF Approve, Taken, Shape, server, Thread
<1>2. /\ \A k : Comes(k)' <=> Comes(k)
      /\ AskedOnce' <=> AskedOnce
      /\ Tracked' <=> Tracked
      /\ Sound' <=> Sound
  BY <1>1 DEF Comes, AskedOnce, Tracked, Sound
<1>3. Goes("attach")' => Goes("attach")
  BY ApprovalSends DEF Goes
<1>4. link # "down" => Goes("approve")'
  <2>1. SUFFICES ASSUME link # "down" PROVE Goes("approve")'
    OBVIOUS
  <2> DEFINE q == [by |-> None, op |-> "approve", n |-> r, text |-> None, turn |-> 0]
  <2>2. up' = Append(up, q) /\ q.op = "approve" /\ up \in Seq(Sending(prompts))
    BY <2>1 DEF Approve, Shape
  <2> HIDE DEF q
  <2>3. Len(up) + 1 \in DOMAIN up' /\ up'[Len(up) + 1] = q
    BY <2>2
  <2> QED
    BY <2>2, <2>3 DEF Goes
<1>5. requests # {} /\ requests' = {} /\ thread.asked = 1
  BY <1>1 DEF Approving, Unasked
<1>6. Sound => InStep'
  BY <1>1, <1>2, <1>3, <1>4, <1>5 DEF Approving, InStep
<1>7. Unasked'
  BY <1>1, <1>5 DEF Unasked
<1> QED
  BY <1>2, <1>6, <1>7 DEF Approving

LEMMA ApprovingKept ==
  ASSUME CodexAssumption, Shape, Shape', Waiting, Roles, Closed, Offline, InLine, Watched,
         Approving, [Next]_vars
  PROVE  Approving'
<1>1. CASE \/ Delegate \/ AskApproval \/ TuiApproves \/ EndTurn \/ ServerTakes
           \/ \E x \in Texts : Type(x)
  BY <1>1, ServerUtters, ApprovingServed
<1>2. CASE TaskStep \/ \E t \in Tasks : DialFails(t) \/ Greeted(t) \/ Connected(t)
  <2>1. link' = "down" => link = "down"
    BY <1>2, LinkStays
  <2>2. CASE EchoExpires
    BY <2>2 DEF EchoExpires, view, server, Approving, Unasked, InStep, Comes, Goes, AskedOnce,
                Tracked, Sound
  <2> QED
    BY <1>2, <2>1, <2>2, TheyCallOrShow, ApprovingTasks, ApprovingApproves
<1>3. CASE Drop
  <2>1. /\ thread'.asked = thread.asked /\ thread'.ask = thread.ask /\ requests' = requests
        /\ up' = << >> /\ pipe' = << >> /\ "lost" \in raced'
    BY <1>3 DEF Drop, view, Shape, Thread
  <2>2. Unasked' /\ ~Sound'
    BY <2>1 DEF Approving, Unasked, Comes, Goes, Sound
  <2> QED
    BY <2>2 DEF Approving
<1>4. ASSUME NEW t \in Tasks, TimesOut(t)
      PROVE  Approving'
  <2>1. /\ UNCHANGED <<thread, requests, link, raced, created>>
        /\ DOMAIN pipe' = DOMAIN pipe /\ DOMAIN up' = DOMAIN up
        /\ \A i \in DOMAIN pipe : pipe'[i].kind = pipe[i].kind
        /\ \A i \in DOMAIN up : up'[i].op = up[i].op
        /\ at'["worker"].op = at["worker"].op
    BY <1>4, PipeTimesOut, GivenUp, TaskFields DEF TimesOut, server, view
  <2>2. /\ \A op : Goes(op)' <=> Goes(op)
        /\ Tracked' <=> Tracked
        /\ Sound' <=> Sound
    BY <2>1 DEF Goes, Tracked, Sound
  <2> QED
    BY <2>1, <2>2, ApprovingSame
<1>5. CASE UNCHANGED vars \/ \E t \in Tasks : Dial(t)
  <2>1. UNCHANGED <<thread, requests, raced, created, pipe, up, at>> /\ (link' = "down" => link = "down")
    BY <1>5 DEF vars, server, line, view, Dial
  <2> QED
    BY <2>1 DEF Approving, Unasked, InStep, Comes, Goes, AskedOnce, Tracked, Sound
<1> QED
  BY <1>1, <1>2, <1>3, <1>4, <1>5, NextSteps, ApprovingReads
-----------------------------------------------------------------------------
(* A thread that was left                                                  *)

NewsAfter(k) == \E j \in DOMAIN pipe : j > k /\ pipe[j].kind \notin Answering

\* Nothing comes of the thread behind the answer that it is left, and what is
\* kept of it goes with that answer.
LeavesQuietly ==
    at["worker"].op = "unsubscribe" =>
        /\ \A i \in DOMAIN pipe : IsTo(pipe[i], "worker") /\ pipe[i].kind = "result" =>
              ~NewsAfter(i)
        /\ at["worker"].pc = "answered" => ~NewsAfter(0)
NothingLeft == ~created => ~NewsAfter(0) /\ active = 0 /\ child = None /\ seen = {}

Left == NotClosed => LeavesQuietly /\ NothingLeft

\* The answer to an unsubscribe is the last word.
LEMMA LastWord ==
  ASSUME CodexAssumption, Shape, Waiting,
         \/ Delegate \/ AskApproval \/ TuiApproves \/ EndTurn \/ ServerTakes
         \/ \E x \in Texts : Type(x),
         NEW i \in DOMAIN pipe', i \notin DOMAIN pipe, IsTo(pipe'[i], "worker"),
         pipe'[i].kind = "result", at["worker"].op = "unsubscribe"
  PROVE  \A j \in DOMAIN pipe' : ~(j > i)
<1>1. pipe \in Seq(Frames(prompts)) /\ up \in Seq(Sending(prompts)) /\ prompts \in Nat
  BY DEF Shape
<1>2. ASSUME NEW p, pipe \in Seq(Frames(p)), NEW w \in Seq(News(p)), pipe' = pipe \o w
      PROVE  FALSE
  BY <1>2, NewsAdded
<1>3. ~(Delegate \/ AskApproval \/ TuiApproves \/ EndTurn)
  BY <1>1, <1>2, TheyAnnounce DEF Announces
<1>4. ASSUME NEW x \in Texts, Type(x)
      PROVE  FALSE
  <2>1. PICK w \in Seq(News(prompts')) : Types(x, w)
    BY <1>4, TheyType
  <2>2. Frames(prompts) \subseteq Frames(prompts') /\ pipe' = pipe \o w
    BY <1>1, <2>1, Grown DEF Types
  <2>3. pipe \in Seq(Frames(prompts'))
    BY <1>1, <2>2
  <2> QED
    BY <1>2, <2>2, <2>3
<1>5. ServerTakes /\ prompts' = prompts
  BY <1>3, <1>4 DEF ServerTakes
<1>6. PICK q \in Sending(prompts), w \in Seq(News(prompts)) :
         Approved(q, w) \/ \E a \in Answers(prompts) : Serves(q, w, a)
  BY <1>5, ServerServes
<1>7. ~Approved(q, w)
  BY <1>1, <1>2 DEF Approved
<1>8. PICK a \in Answers(prompts) : Serves(q, w, a)
  BY <1>6, <1>7
<1>9. PICK k \in DOMAIN pipe' : AnswerAt(prompts, pipe, a, pipe', k)
  <2>1. pipe' = (pipe \o << a >>) \o w \/ pipe' = (pipe \o w) \o << a >>
    BY <1>8 DEF Serves
  <2> QED
    BY <1>1, <1>6, <1>8, <2>1, AnswerAdded
<1>10. i = k /\ pipe'[i] = a
  BY <1>9 DEF AnswerAt
<1>11. q.by = "worker" /\ a.kind = "result"
  BY <1>8, <1>10 DEF IsTo, Serves
<1>12. 1 \in DOMAIN up /\ up[1] = q
  BY <1>1, <1>8, Popped DEF Serves, Tells
<1>13. q.op = "unsubscribe"
  BY <1>11, <1>12 DEF Waiting, Tasks
<1>14. w = << >>
  BY <1>8, <1>11, <1>13 DEF Serves, Ran, Other, Sends
<1>15. a \in Frames(prompts) /\ << a >> \in Seq(Frames(prompts)) /\ pipe \o << a >> \in Seq(Frames(prompts))
  BY <1>1, <1>8 DEF Frames
<1>16. pipe' = (pipe \o << a >>) \o << >> \/ pipe' = (pipe \o << >>) \o << a >>
  BY <1>8, <1>14 DEF Serves
<1>17. pipe' = Append(pipe, a)
  BY <1>1, <1>15, <1>16
<1>18. \A j \in DOMAIN pipe' : j \in DOMAIN pipe \/ j = Len(pipe) + 1
  BY <1>1, <1>15, <1>17, Pushed
<1>19. i = Len(pipe) + 1
  BY <1>18
<1> QED
  BY <1>1, <1>18, <1>19, SMTT(30)

LEMMA LeftServed ==
  ASSUME CodexAssumption, Shape, Waiting, Closed, Left,
         \/ Delegate \/ AskApproval \/ TuiApproves \/ EndTurn \/ ServerTakes
         \/ \E x \in Texts : Type(x)
  PROVE  Left'
<1>1. UNCHANGED <<at, active, child, seen, created, raced>> /\ pipe \in Seq(Frames(prompts'))
  BY ServerUtters
<1>2. PICK w \in Seq(Frames(prompts')) : Utters(w)
  BY ServerUtters
<1>3. /\ pipe' = pipe \o w
      /\ \A i \in DOMAIN pipe : i \in DOMAIN pipe' /\ pipe'[i] = pipe[i]
      /\ \A i \in DOMAIN w : Len(pipe) + i \in DOMAIN pipe' /\ pipe'[Len(pipe) + i] = w[i]
      /\ \A i \in DOMAIN pipe' : i \in DOMAIN pipe \/ \E j \in DOMAIN w : i = Len(pipe) + j
  <2>1. pipe' = pipe \o w /\ w \in Seq(Frames(prompts'))
    BY <1>2 DEF Utters
  <2> QED
    BY <1>1, <2>1, Joined, SMTT(30)
<1>4. ASSUME ~thread.subscribed, NEW k, ~NewsAfter(k)
      PROVE  ~NewsAfter(k)'
  <2>1. \A i \in DOMAIN w : w[i] \in Answers(prompts)
    BY <1>2, <1>4 DEF Utters
  <2>2. \A i \in DOMAIN w : w[i].kind \in Answering
    BY <2>1 DEF Answers, Answering
  <2> QED
    BY <1>3, <1>4, <2>2 DEF NewsAfter
<1>5. SUFFICES ASSUME NotClosed PROVE LeavesQuietly' /\ NothingLeft'
  BY <1>1 DEF Left, NotClosed
<1>6. NothingLeft'
  BY <1>1, <1>4, <1>5 DEF Left, NothingLeft, Closed, Gone, Over
<1>7. ASSUME at["worker"].op = "unsubscribe"
      PROVE  LeavesQuietly'
  <2>1. at["worker"].pc = "answered" => ~NewsAfter(0)'
    BY <1>4, <1>5, <1>7 DEF Left, LeavesQuietly, Closed, Leaving, Over
  <2>2. ASSUME NEW i \in DOMAIN pipe', IsTo(pipe'[i], "worker"), pipe'[i].kind = "result"
        PROVE  ~NewsAfter(i)'
    <3>1. CASE i \in DOMAIN pipe
      BY <1>3, <1>4, <1>5, <1>7, <2>2, <3>1 DEF Left, LeavesQuietly, Closed, Leaving, Over
    <3>2. CASE i \notin DOMAIN pipe
      <4>1. \A j \in DOMAIN pipe' : ~(j > i)
        BY <1>7, <2>2, <3>2, LastWord
      <4> QED
        BY <4>1 DEF NewsAfter
    <3> QED
      BY <3>1, <3>2
  <2> QED
    BY <1>1, <2>1, <2>2 DEF LeavesQuietly
<1>8. at["worker"].op # "unsubscribe" => LeavesQuietly'
  BY <1>1 DEF LeavesQuietly
<1> QED
  BY <1>6, <1>7, <1>8

LEMMA LeftReads ==
  ASSUME Shape, Waiting, Closed, Left, Handle
  PROVE  Left'
<1> DEFINE f == Head(pipe)
<1>1. /\ pipe \in Seq(Frames(prompts)) /\ pipe # << >> /\ pipe' = Tail(pipe) /\ "worker" \in Tasks
  BY TaskFields DEF Shape, Handle
<1>2. /\ 1 \in DOMAIN pipe /\ pipe[1] = f
      /\ \A i \in DOMAIN Tail(pipe) : i + 1 \in DOMAIN pipe /\ Tail(pipe)[i] = pipe[i + 1]
      /\ \A i \in DOMAIN Tail(pipe) : i \in Nat /\ i + 1 > 1
  BY <1>1, Popped
<1>3. /\ at'["worker"].op = at["worker"].op
      /\ ~(IsTo(f, "worker") /\ f.kind = "result") =>
           at'["worker"].pc # "answered" \/ at["worker"].pc = "answered"
  <2>1. IF IsTo(f, "worker")
        THEN /\ at'["worker"].pc = IF f.kind = "result" THEN "answered" ELSE f.kind
             /\ at'["worker"].op = at["worker"].op
        ELSE at'["worker"].pc = at["worker"].pc /\ at'["worker"].op = at["worker"].op
    BY <1>1, ReaderReads
  <2>2. IsTo(f, "worker") => f.kind \in {"result", "error", "overloaded"}
    <3>1. f \in Frames(prompts)
      BY <1>1, Popped
    <3> HIDE DEF f
    <3> QED
      BY <3>1, FrameKinds DEF IsTo, Frames
  <2> QED
    BY <2>1, <2>2
<1>4. created' = created /\ (NotClosed' => NotClosed) /\ (f.kind \in Answering => UNCHANGED view)
  BY DEF Handle, Answer, view, TurnStarted, TurnCompleted, ChildUpdate, UserMessage,
         ServerRequest, RequestResolved, NotClosed, Answering
<1> HIDE DEF f
<1>5. ~NewsAfter(0) => ~NewsAfter(0)' /\ f.kind \in Answering
  BY <1>1, <1>2 DEF NewsAfter
<1>6. ~NewsAfter(1) => ~NewsAfter(0)'
  BY <1>1, <1>2 DEF NewsAfter
<1>7. ASSUME NEW i \in DOMAIN pipe', ~NewsAfter(i + 1) PROVE ~NewsAfter(i)'
  <2>1. SUFFICES ASSUME NEW j \in DOMAIN pipe', j > i PROVE pipe'[j].kind \in Answering
    BY DEF NewsAfter
  <2>2. j + 1 > i + 1 /\ j + 1 \in DOMAIN pipe /\ pipe'[j] = pipe[j + 1]
    BY <1>1, <1>2, <2>1
  <2> QED
    BY <1>7, <2>2 DEF NewsAfter
<1>8. SUFFICES ASSUME NotClosed PROVE LeavesQuietly' /\ NothingLeft'
  BY <1>4 DEF Left
<1>9. NothingLeft'
  BY <1>4, <1>5, <1>8 DEF Left, NothingLeft, view
<1>10. ASSUME at["worker"].op = "unsubscribe"
       PROVE  LeavesQuietly'
  <2>1. ASSUME at'["worker"].pc = "answered" PROVE ~NewsAfter(0)'
    BY <1>2, <1>3, <1>5, <1>6, <1>8, <1>10, <2>1 DEF Left, LeavesQuietly
  <2>2. ASSUME NEW i \in DOMAIN pipe', IsTo(pipe'[i], "worker"), pipe'[i].kind = "result"
        PROVE  ~NewsAfter(i)'
    <3>1. i + 1 \in DOMAIN pipe /\ pipe'[i] = pipe[i + 1]
      BY <1>1, <1>2, <2>2
    <3> QED
      BY <1>7, <1>8, <1>10, <2>2, <3>1 DEF Left, LeavesQuietly
  <2> QED
    BY <2>1, <2>2 DEF LeavesQuietly
<1>11. at["worker"].op # "unsubscribe" => LeavesQuietly'
  BY <1>3 DEF LeavesQuietly
<1> QED
  BY <1>9, <1>10, <1>11

LEMMA LeftTasks ==
  ASSUME Shape, Waiting, Roles, Closed, Left, NEW t \in Tasks, Calm(t) \/ Shows(t)
  PROVE  Left'
<1>1. /\ "worker" \in Tasks /\ Idle.op = None /\ Idle.pc = "idle" /\ (t = "worker" \/ t = "topic")
  BY TaskFields
<1>2. /\ pipe' = pipe /\ at[t].pc # "asked" /\ at'[t].pc # "answered"
      /\ \A u \in Tasks : u # t => at'[u] = at[u]
      /\ NotClosed' => NotClosed
  BY <1>1 DEF Calm, Shows, NotClosed
<1>3. \A k : NewsAfter(k)' <=> NewsAfter(k)
  BY <1>2 DEF NewsAfter
<1>4. t = "worker" => \A i \in DOMAIN pipe : ~IsTo(pipe[i], "worker")
  BY <1>1, <1>2 DEF Waiting
<1>5. SUFFICES ASSUME NotClosed PROVE LeavesQuietly' /\ NothingLeft'
  BY <1>2 DEF Left
<1>6. LeavesQuietly'
  <2>1. CASE t = "worker"
    BY <1>2, <1>4, <2>1 DEF LeavesQuietly
  <2>2. CASE t # "worker"
    BY <1>1, <1>2, <1>3, <1>5, <2>2 DEF Left, LeavesQuietly
  <2> QED
    BY <2>1, <2>2
<1>7. NothingLeft'
  <2>1. CASE Calm(t)
    BY <1>3, <1>5, <2>1 DEF Calm, Left, NothingLeft
  <2>2. CASE Shows(t) /\ created' = created /\ at[t].op # "unsubscribe"
    <3>1. created
      BY <1>1, <1>5, <2>2 DEF Shows, Closed, Alone, ClosingOps, NotClosed
    <3> QED
      BY <2>2, <3>1 DEF NothingLeft
  <2>3. CASE /\ t = "worker" /\ at[t].op = "unsubscribe" /\ at[t].pc = "answered"
             /\ ~created' /\ active' = 0 /\ child' = None /\ seen' = {}
    BY <1>3, <1>5, <2>3 DEF Left, LeavesQuietly, NothingLeft
  <2> QED
    BY <2>1, <2>2, <2>3 DEF Shows
<1> QED
  BY <1>6, <1>7

LEMMA LeftKept ==
  ASSUME CodexAssumption, Shape, Shape', Waiting, Roles, Closed, Left, [Next]_vars
  PROVE  Left'
<1>1. CASE UNCHANGED vars \/ EchoExpires \/ (\E r \in requests : Approve(r)) \/ \E t \in Tasks : Dial(t)
  <2>1. UNCHANGED <<pipe, at, active, child, seen, created, raced>>
    BY <1>1, ApprovalSends DEF vars, EchoExpires, Dial, server, line, view
  <2> QED
    BY <2>1 DEF Left, NotClosed, LeavesQuietly, NothingLeft, NewsAfter
<1>2. CASE Drop
  <2>1. /\ pipe' = << >> /\ UNCHANGED <<active, child, seen, created>> /\ (NotClosed' => NotClosed)
    BY <1>2 DEF Drop, view, NotClosed
  <2> QED
    BY <2>1 DEF Left, LeavesQuietly, NothingLeft, NewsAfter
<1>3. ASSUME NEW t \in Tasks, TimesOut(t)
      PROVE  Left'
  <2>1. /\ UNCHANGED <<active, child, seen, created, raced>> /\ "worker" \in Tasks
        /\ DOMAIN pipe' = DOMAIN pipe
        /\ \A i \in DOMAIN pipe : /\ pipe'[i].kind = pipe[i].kind
                                  /\ IsTo(pipe'[i], "worker") => IsTo(pipe[i], "worker")
        /\ at'["worker"].op = at["worker"].op
        /\ at'["worker"].pc = "answered" => at["worker"].pc = "answered"
    BY <1>3, PipeTimesOut, GivenUp, TaskFields DEF view
  <2>2. \A k : NewsAfter(k)' <=> NewsAfter(k)
    BY <2>1 DEF NewsAfter
  <2> QED
    BY <2>1, <2>2 DEF Left, NotClosed, LeavesQuietly, NothingLeft
<1> QED
  BY <1>1, <1>2, <1>3, NextSteps, TheyCallOrShow, LeftServed, LeftReads, LeftTasks
-----------------------------------------------------------------------------
(* The invariant                                                           *)

VInv == Roles /\ Watched /\ NoChild /\ Offline /\ InLine /\ Approving /\ Left

LEMMA InitiallyShown == ASSUME CodexAssumption, Init PROVE VInv
<1>1. /\ thread.child = None /\ thread.ask = 0 /\ thread.asked = 0 /\ ~thread.subscribed
      /\ up = << >> /\ pipe = << >> /\ at = [t \in Tasks |-> Idle]
      /\ active = 0 /\ child = None /\ seen = {} /\ requests = {} /\ created
      /\ DOMAIN up = {} /\ DOMAIN pipe = {}
  BY DEF Init
<1>2. /\ at["worker"] = Idle /\ at["topic"] = Idle /\ \A t \in Tasks : at[t] = Idle
      /\ Idle.op = None /\ Idle.child = None
      /\ None \notin {"attach", "items", "unsubscribe"}
  BY <1>1 DEF Tasks, Idle, None
<1>3. Roles
  BY <1>2 DEF Roles
<1>4. Watched
  BY <1>1, <1>2 DEF Watched, Quietly, Silent
<1>5. NoChild /\ Offline /\ InLine
  BY <1>1, <1>2 DEF NoChild, Offline, InLine
<1>6. Approving
  BY <1>1 DEF Approving, Unasked, InStep, Comes, Goes, AskedOnce
<1>7. Left
  BY <1>1, <1>2 DEF Left, LeavesQuietly, NothingLeft
<1> QED
  BY <1>3, <1>4, <1>5, <1>6, <1>7 DEF VInv

LEMMA InvarianceShown == ASSUME CodexAssumption PROVE Spec => [](IInv /\ VInv)
<1>1. Init => VInv
  BY InitiallyShown
<1>2. IInv /\ IInv' /\ VInv /\ [Next]_vars => VInv'
  <2>1. SUFFICES ASSUME IInv, IInv', VInv, [Next]_vars PROVE VInv'
    OBVIOUS
  <2>2. Shape /\ Shape' /\ Waiting /\ Closed
    BY <2>1 DEF IInv
  <2>3. Roles /\ Watched /\ NoChild /\ Offline /\ InLine /\ Approving /\ Left
    BY <2>1 DEF VInv
  <2>4. Roles' /\ Watched' /\ NoChild' /\ Offline'
    BY <2>1, <2>2, <2>3, RolesKept, WatchedKept, NoChildKept, OfflineKept
  <2>5. InLine' /\ Approving' /\ Left'
    BY <2>1, <2>2, <2>3, InLineKept, ApprovingKept, LeftKept
  <2> QED
    BY <2>4, <2>5 DEF VInv
<1> QED
  BY <1>1, <1>2, Invariance, PTL DEF Spec

LEMMA ItsType == ASSUME Shape PROVE TypeOK
<1>1. \A t \in Tasks : at[t].pc \in {"idle", "connecting", "asked", "answered",
                                     "failed", "error", "overloaded"}
  BY DEF Shape, Call, Doing
<1> QED
  BY <1>1 DEF Shape, Callers, Turns, Given, TypeOK

LEMMA ItsView == ASSUME Shape, Watched PROVE ViewIsTrue
<1>1. SUFFICES ASSUME Quiet, pipe = << >>, created, thread.subscribed, "closed" \notin raced
               PROVE  /\ "turn" \notin raced => active = thread.turn
                      /\ "child" \notin raced => child = StatusOf(thread.child)
  BY DEF ViewIsTrue
<1>2. at["worker"].op = None /\ at["topic"].op = None /\ None \notin {"unsubscribe", "attach"}
  BY <1>1 DEF Quiet, Tasks, Idle, None
<1>3. Shown
  BY <1>1, <1>2 DEF Watched, Tracked
<1>4. /\ Leads(pipe, thread.turn, active, 0) \/ "turn" \in raced
      /\ LastChild(pipe, thread.child, child, 0) \/ "child" \in raced
  BY <1>2, <1>3 DEF Shown, Good, TurnShown, ChildShown
<1>5. DOMAIN pipe = {}
  BY <1>1
<1> QED
  BY <1>4, <1>5 DEF Leads, LastChild

LEMMA ItsRequests == ASSUME Shape, Approving PROVE RequestsAgree
<1>1. SUFFICES ASSUME Sound PROVE RequestsAgree
  BY DEF Sound, RequestsAgree
<1>2. InStep /\ requests \subseteq {1} /\ thread.ask \in {0, 1}
  BY <1>1 DEF Approving, Shape, Thread
<1>3. \A i \in DOMAIN pipe : pipe[i].kind \in {"ask", "resolved"} => pipe[i].n = 1
  <2>1. \A i \in DOMAIN pipe : pipe[i] \in Frames(prompts)
    BY DEF Shape
  <2> QED
    BY <2>1, FrameKinds
<1>4. \A i \in DOMAIN up : up[i].op = "approve" => up[i].n = 1
  <2>1. \A i \in DOMAIN up : up[i] \in Sending(prompts)
    BY DEF Shape
  <2> QED
    BY <2>1 DEF Sending
<1> DEFINE coming   == {pipe[i].n : i \in {j \in DOMAIN pipe : pipe[j].kind = "ask"}}
           resolved == {pipe[i].n : i \in {j \in DOMAIN pipe : pipe[j].kind = "resolved"}}
           answered == {up[i].n : i \in {j \in DOMAIN up : up[j].op = "approve"}}
<1>5. /\ Comes("ask") => 1 \in coming
      /\ Comes("resolved") => 1 \in resolved
      /\ Goes("approve") => 1 \in answered
      /\ answered # {} => Goes("approve")
  BY <1>3, <1>4 DEF Comes, Goes
<1> HIDE DEF coming, resolved, answered
<1>6. thread.ask # 0 => thread.ask \in coming \union requests \union answered
  BY <1>2, <1>5 DEF InStep
<1>7. thread.subscribed => \A r \in requests : r = thread.ask \/ r \in resolved
  BY <1>2, <1>5 DEF InStep
<1>8. requests \intersect answered = {}
  BY <1>2, <1>5 DEF InStep
<1> QED
  BY <1>6, <1>7, <1>8 DEF RequestsAgree, coming, resolved, answered

\* What the backend holds of a thread is the thread's when all has been read,
\* unless an answer was applied behind notifications that had overtaken it;
\* what it offers to answer is what the server asks, less what is on its way;
\* and of a thread that close_session has left nothing is kept (_reader,
\* attach_session, resolve_approval and close_session).
THEOREM ThreadIsShown == ASSUME CodexAssumption PROVE Spec => []ThreadShownTrue
<1>1. IInv /\ VInv => ThreadShownTrue
  <2>1. SUFFICES ASSUME IInv, VInv PROVE ThreadShownTrue
    OBVIOUS
  <2>2. TypeOK /\ ViewIsTrue /\ RequestsAgree
    BY <2>1, ItsType, ItsView, ItsRequests DEF IInv, VInv
  <2>3. ClosedLeavesNothing
    BY <2>1 DEF IInv, VInv, Closed, Left, NotClosed, NothingLeft, ClosedLeavesNothing
  <2> QED
    BY <2>2, <2>3 DEF ThreadShownTrue
<1> QED
  BY <1>1, InvarianceShown, PTL
=============================================================================
