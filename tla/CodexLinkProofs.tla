-------------------------- MODULE CodexLinkProofs --------------------------
(***************************************************************************)
(* Proofs about CodexLink for any texts and any bounds on what may happen. *)
(*                                                                         *)
(* The argument.  A task that waits is waited for by one request or one    *)
(* answer, on a connection that lives, and nobody else is (Waiting); so a  *)
(* request is sent again only when the server has refused the one before,  *)
(* and what the server may still take was never run (Runs).  For echoes    *)
(* there is a balance, text by text: what others have typed and the bridge *)
(* has not reported, with the echoes it expects, are as many as the        *)
(* prompts that are still to be read, with the one that is still to be run *)
(* (Balanced).  When nothing is on its way both sides are empty.  Which    *)
(* prompts those are is known by their frames and their task (Known); of a *)
(* thread that the bridge has closed nothing comes any more (Closed).      *)
(***************************************************************************)
EXTENDS CodexLink, FiniteSetTheorems, SequenceTheorems, WellFoundedInduction, TLAPS

Ops     == {None, "send", "steer", "cancel", "attach", "items", "interrupt", "unsubscribe"}
Callers == Tasks \union {None}
Words   == {None, "started", "completed"}

\* Prompts and turns up to p.
Given(p) == 1 .. p
Turns(p) == 0 .. p

\* What a task is doing, and what it sends: a send or a steer has its prompt.
Told(p, r) == r.op \in Sends => r.n \in Given(p) /\ r.text \in Texts
Doing ==
    [pc : {"idle", "connecting", "asked", "answered", "failed", "error", "overloaded"},
     op : Ops, n : Nat, text : Texts \union {None}, tries : Nat, turn : Nat,
     child : Words, moved : SUBSET {"turn", "child", "second"}]
Call(p) == {c \in Doing : c.n \in Turns(p) /\ c.turn \in Turns(p) /\ Told(p, c)}
Sending(p) ==
    {q \in [by : Callers, op : Ops \union {"approve"}, n : Turns(p) \union {1},
            text : Texts \union {None}, turn : Turns(p)] :
        Told(p, q) /\ (q.op = "approve" => q.by = None /\ q.n = 1)}

\* What the server answers, and what it tells.
Answers(p) == [kind : {"result", "error", "overloaded"}, to : Callers, turn : Turns(p),
               child : Words]
TurnNews(p) == [kind : {"turn", "done"}, n : Given(p)]
ItemNews(p) == [kind : {"item"}, n : Given(p), text : Texts]
ChildNews   == [kind : {"child"}, status : {"started", "completed"}]
AskNews     == [kind : {"ask", "resolved"}, n : {1}]
News(p)     == TurnNews(p) \union ItemNews(p) \union ChildNews \union AskNews
Frames(p)   == Answers(p) \union News(p)

Thread(p) == [turn : Turns(p), child : Words, ask : {0, 1}, asked : {0, 1}, tui : BOOLEAN,
              habit : {"asks", "delegates"}, subscribed : BOOLEAN]

\* The state has its type.
Shape ==
    /\ thread \in Thread(prompts) /\ prompts \in 0 .. MaxPrompts
    /\ ran \in [1 .. MaxPrompts -> Nat]
    /\ at \in [Tasks -> Call(prompts)] /\ up \in Seq(Sending(prompts)) /\ pipe \in Seq(Frames(prompts))
    /\ link \in {"down", "greeting", "up"} /\ ready = (link = "up")
    /\ holder \in Callers /\ created \in BOOLEAN
    /\ active \in Turns(prompts) /\ child \in {None, "running", "completed"}
    /\ seen \subseteq Given(prompts) /\ requests \subseteq {1}
    /\ echoes \subseteq [n : Given(prompts), text : Texts] /\ debt \in [Texts -> Int]
    /\ slipped \subseteq Texts /\ raced \subseteq {"turn", "child", "closed", "lost"}

IsTo(f, t) == "to" \in DOMAIN f /\ f.to = t

\* A task that waits is waited for by one request or one answer.
Waiting ==
    /\ \A t \in Tasks : at[t].pc = "asked" =>
         /\ link # "down"
         /\ \/ \E i \in DOMAIN up : up[i].by = t
            \/ \E i \in DOMAIN pipe : IsTo(pipe[i], t)
    /\ \A t \in Tasks : \A i \in DOMAIN up : up[i].by = t =>
         /\ at[t].pc = "asked" /\ at[t].op = up[i].op /\ at[t].n = up[i].n
         /\ at[t].text = up[i].text
         /\ \A j \in DOMAIN pipe : ~IsTo(pipe[j], t)
         /\ \A j \in DOMAIN up : up[j].by = t => i = j
    /\ \A t \in Tasks : \A i \in DOMAIN pipe : IsTo(pipe[i], t) =>
         /\ at[t].pc = "asked"
         /\ \A j \in DOMAIN pipe : IsTo(pipe[j], t) => i = j
-----------------------------------------------------------------------------
(* Frames                                                                  *)

LEMMA FrameKinds ==
  ASSUME NEW p, NEW f \in Frames(p)
  PROVE  /\ f \in Answers(p) => /\ "to" \in DOMAIN f /\ f.to \in Callers
                                /\ f.turn \in Turns(p) /\ f.child \in Words
                                /\ f.kind \in {"result", "error", "overloaded"}
         /\ f \in News(p) => "to" \notin DOMAIN f
         /\ f \in TurnNews(p) <=> f.kind \in {"turn", "done"}
         /\ f \in ItemNews(p) <=> f.kind = "item"
         /\ f \in ChildNews <=> f.kind = "child"
         /\ f \in AskNews <=> f.kind \in {"ask", "resolved"}
         /\ f \in Answers(p) <=> f.kind \in {"result", "error", "overloaded"}
         /\ f \in TurnNews(p) => f.n \in Given(p)
         /\ f \in ItemNews(p) => f.n \in Given(p) /\ f.text \in Texts
         /\ f \in ChildNews => f.status \in {"started", "completed"}
         /\ f \in AskNews => f.n = 1
  BY DEF Frames, News, Answers, TurnNews, ItemNews, ChildNews, AskNews

LEMMA ItsFrames ==
  ASSUME NEW p
  PROVE
  /\ \A n \in Given(p) : /\ [kind |-> "turn", n |-> n] \in News(p)
                         /\ [kind |-> "done", n |-> n] \in News(p)
  /\ \A n \in Given(p), x \in Texts : [kind |-> "item", n |-> n, text |-> x] \in News(p)
  /\ \A s \in {"started", "completed"} : [kind |-> "child", status |-> s] \in News(p)
  /\ [kind |-> "ask", n |-> 1] \in News(p) /\ [kind |-> "resolved", n |-> 1] \in News(p)
  /\ \A k \in {"result", "error", "overloaded"}, t \in Callers, n \in Turns(p), c \in Words :
        [kind |-> k, to |-> t, turn |-> n, child |-> c] \in Answers(p)
  BY DEF News, Answers, TurnNews, ItemNews, ChildNews, AskNews

\* What was possible stays so when one more prompt is given.
LEMMA Grown ==
  ASSUME NEW p \in Nat
  PROVE  /\ Given(p) \subseteq Given(p + 1) /\ Turns(p) \subseteq Turns(p + 1)
         /\ Call(p) \subseteq Call(p + 1) /\ Sending(p) \subseteq Sending(p + 1)
         /\ News(p) \subseteq News(p + 1) /\ Frames(p) \subseteq Frames(p + 1)
         /\ Thread(p) \subseteq Thread(p + 1)
         /\ [n : Given(p), text : Texts] \subseteq [n : Given(p + 1), text : Texts]
<1>1. Given(p) \subseteq Given(p + 1) /\ Turns(p) \subseteq Turns(p + 1)
  BY DEF Given, Turns
<1>2. Call(p) \subseteq Call(p + 1)
  BY <1>1 DEF Call, Told
<1>3. Sending(p) \subseteq Sending(p + 1)
  BY <1>1 DEF Sending, Told
<1>4. News(p) \subseteq News(p + 1)
  BY <1>1 DEF News, TurnNews, ItemNews
<1>5. Answers(p) \subseteq Answers(p + 1)
  BY <1>1 DEF Answers
<1>6. Thread(p) \subseteq Thread(p + 1)
  BY <1>1 DEF Thread
<1>7. [n : Given(p), text : Texts] \subseteq [n : Given(p + 1), text : Texts]
  BY <1>1
<1> QED
  BY <1>1, <1>2, <1>3, <1>4, <1>5, <1>6, <1>7 DEF Frames

-----------------------------------------------------------------------------
(* Sequences                                                               *)

LEMMA Joined ==
  ASSUME NEW S, NEW s \in Seq(S), NEW u \in Seq(S)
  PROVE  /\ s \o u \in Seq(S)
         /\ \A i \in DOMAIN s : i \in DOMAIN (s \o u) /\ (s \o u)[i] = s[i]
         /\ \A i \in DOMAIN u : /\ Len(s) + i \in DOMAIN (s \o u) /\ Len(s) + i \notin DOMAIN s
                               /\ (s \o u)[Len(s) + i] = u[i]
         /\ \A i \in DOMAIN (s \o u) : i \in DOMAIN s \/ \E j \in DOMAIN u : i = Len(s) + j
<1>1. /\ s \o u \in Seq(S) /\ Len(s \o u) = Len(s) + Len(u)
      /\ \A i \in 1 .. Len(s) + Len(u) :
            (s \o u)[i] = IF i <= Len(s) THEN s[i] ELSE u[i - Len(s)]
  BY ConcatProperties
<1>2. /\ Len(s) \in Nat /\ Len(u) \in Nat /\ DOMAIN s = 1 .. Len(s) /\ DOMAIN u = 1 .. Len(u)
      /\ DOMAIN (s \o u) = 1 .. Len(s) + Len(u)
  BY <1>1
<1>3. \A i \in 1 .. Len(s) : i \in 1 .. Len(s) + Len(u) /\ i <= Len(s)
  BY <1>2
<1>4. \A i \in 1 .. Len(u) : /\ Len(s) + i \in 1 .. Len(s) + Len(u) /\ ~(Len(s) + i <= Len(s))
                             /\ (Len(s) + i) - Len(s) = i
  BY <1>2
<1>5. \A i \in 1 .. Len(s) + Len(u) : i \in 1 .. Len(s) \/ \E j \in 1 .. Len(u) : i = Len(s) + j
  <2> SUFFICES ASSUME NEW i \in 1 .. Len(s) + Len(u), i \notin 1 .. Len(s)
               PROVE  \E j \in 1 .. Len(u) : i = Len(s) + j
    OBVIOUS
  <2>1. i - Len(s) \in 1 .. Len(u) /\ i = Len(s) + (i - Len(s))
    BY <1>2
  <2> QED
    BY <2>1
<1>6. \A i \in DOMAIN s : i \in DOMAIN (s \o u) /\ (s \o u)[i] = s[i]
  BY <1>1, <1>2, <1>3
<1>7. \A i \in DOMAIN u : /\ Len(s) + i \in DOMAIN (s \o u) /\ Len(s) + i \notin DOMAIN s
                          /\ (s \o u)[Len(s) + i] = u[i]
  <2> SUFFICES ASSUME NEW i \in 1 .. Len(u)
               PROVE  /\ Len(s) + i \in DOMAIN (s \o u) /\ Len(s) + i \notin 1 .. Len(s)
                      /\ (s \o u)[Len(s) + i] = u[i]
    BY <1>2
  <2>1. Len(s) + i \notin 1 .. Len(s)
    BY <1>2
  <2> QED
    BY <1>1, <1>2, <1>4, <2>1
<1> QED
  BY <1>1, <1>2, <1>5, <1>6, <1>7

LEMMA Popped ==
  ASSUME NEW S, NEW s \in Seq(S), s # << >>
  PROVE  /\ Head(s) \in S /\ Tail(s) \in Seq(S) /\ 1 \in DOMAIN s /\ s[1] = Head(s)
         /\ \A i \in DOMAIN Tail(s) : i + 1 \in DOMAIN s /\ i + 1 # 1 /\ Tail(s)[i] = s[i + 1]
         /\ \A i, j \in DOMAIN Tail(s) : i + 1 = j + 1 => i = j
         /\ \A i \in DOMAIN s : i = 1 \/ \E j \in DOMAIN Tail(s) : i = j + 1
<1>1. /\ Tail(s) \in Seq(S) /\ Len(s) \in Nat /\ Len(s) # 0 /\ Len(Tail(s)) = Len(s) - 1
      /\ DOMAIN s = 1 .. Len(s) /\ DOMAIN Tail(s) = 1 .. Len(s) - 1 /\ Head(s) = s[1]
      /\ \A i \in 1 .. Len(s) - 1 : Tail(s)[i] = s[i + 1]
      /\ \A i \in 1 .. Len(s) : s[i] \in S
  OBVIOUS
<1>2. /\ \A i \in 1 .. Len(s) - 1 : i + 1 \in 1 .. Len(s) /\ i + 1 # 1
      /\ \A i, j \in 1 .. Len(s) - 1 : i + 1 = j + 1 => i = j
      /\ 1 \in 1 .. Len(s)
  BY <1>1
<1>3. ASSUME NEW i \in 1 .. Len(s), i # 1 PROVE \E j \in 1 .. Len(s) - 1 : i = j + 1
  <2>1. i - 1 \in 1 .. Len(s) - 1 /\ i = (i - 1) + 1
    BY <1>1, <1>3
  <2> QED
    BY <2>1
<1> QED
  BY <1>1, <1>2, <1>3

LEMMA Pushed ==
  ASSUME NEW S, NEW s \in Seq(S), NEW e \in S
  PROVE  /\ Append(s, e) \in Seq(S) /\ Len(s) + 1 \in DOMAIN Append(s, e)
         /\ Len(s) + 1 \notin DOMAIN s /\ Append(s, e)[Len(s) + 1] = e
         /\ \A i \in DOMAIN s : i \in DOMAIN Append(s, e) /\ Append(s, e)[i] = s[i]
         /\ \A i \in DOMAIN Append(s, e) : i \in DOMAIN s \/ i = Len(s) + 1
  OBVIOUS

-----------------------------------------------------------------------------
(* Requests                                                                *)

\* The state of a task that has asked for a, or is on its way to.
Asking(t, a) ==
    \/ at' = [at EXCEPT ![t] = [a EXCEPT !.pc = "connecting"]] /\ up' = up
    \/ /\ at' = [at EXCEPT ![t] = [a EXCEPT !.pc = "asked"]]
       /\ up' = Append(up, [by |-> t, op |-> a.op, n |-> a.n, text |-> a.text,
                            turn |-> a.turn])
       /\ link' # "down"

LEMMA ItAsks ==
  ASSUME NEW t \in Tasks, NEW a,
         \/ Request(t, a) /\ link' = link
         \/ Post(t, a) /\ link' # "down"
  PROVE  Asking(t, a)
  BY DEF Request, Post, Asking

LEMMA AskingShape ==
  ASSUME NEW p, at \in [Tasks -> Call(p)], up \in Seq(Sending(p)),
         NEW t \in Tasks, NEW a \in Call(p), Asking(t, a)
  PROVE  at' \in [Tasks -> Call(p)] /\ up' \in Seq(Sending(p))
<1> DEFINE q == [by |-> t, op |-> a.op, n |-> a.n, text |-> a.text, turn |-> a.turn]
<1>1. /\ [a EXCEPT !.pc = "connecting"] \in Call(p)
      /\ [a EXCEPT !.pc = "asked"] \in Call(p)
  BY DEF Call, Doing, Told
<1>2. q \in Sending(p)
  <2>1. /\ a.op \in Ops /\ a.n \in Turns(p) /\ a.text \in Texts \union {None}
        /\ a.turn \in Turns(p) /\ Told(p, a)
    BY DEF Call, Doing
  <2>2. a.op \in Ops \union {"approve"} /\ a.op # "approve"
    BY <2>1 DEF Ops, None
  <2>3. Told(p, q)
    BY <2>1 DEF Told
  <2>4. q.op # "approve"
    BY <2>2
  <2> QED
    BY <2>1, <2>2, <2>3, <2>4 DEF Sending, Callers
<1> QED
  BY <1>1, <1>2 DEF Asking

\* A task that has come to the end of its call, or only to another state of it.
LEMMA BecomeShape ==
  ASSUME NEW p \in Nat, at \in [Tasks -> Call(p)], NEW t \in Tasks
  PROVE  /\ Idle \in Call(p) /\ [at EXCEPT ![t] = Idle] \in [Tasks -> Call(p)]
         /\ \A pc \in {"failed", "error", "overloaded", "answered"} :
              Become(t, pc) \in [Tasks -> Call(p)]
<1>1. Idle \in Call(p)
  BY DEF Idle, Call, Doing, Told, Ops, Words, Turns, Sends, None
<1>2. ASSUME NEW pc \in {"failed", "error", "overloaded", "answered"}
      PROVE  [at[t] EXCEPT !.pc = pc] \in Call(p)
  BY DEF Call, Doing, Told
<1>3. ASSUME NEW pc \in {"failed", "error", "overloaded", "answered"}
      PROVE  Become(t, pc) = [at EXCEPT ![t] = [at[t] EXCEPT !.pc = pc]]
  BY DEF Become
<1> QED
  BY <1>1, <1>2, <1>3

\* The tasks are where they were; some have been overtaken.
Like(c, d) ==
    /\ c \in Doing /\ c.pc = d.pc /\ c.op = d.op /\ c.n = d.n /\ c.text = d.text
    /\ c.tries = d.tries /\ c.turn = d.turn /\ c.child = d.child
Marked(b) == b = [t \in Tasks |-> b[t]] /\ \A t \in Tasks : Like(b[t], at[t])

LEMMA MarkedShape ==
  ASSUME NEW p, at \in [Tasks -> Call(p)], NEW b, Marked(b)
  PROVE  b \in [Tasks -> Call(p)]
<1>1. ASSUME NEW t \in Tasks PROVE b[t] \in Call(p)
  BY DEF Marked, Like, Call, Told
<1> QED
  BY <1>1 DEF Marked

LEMMA OvertakeMarks ==
  ASSUME NEW p, at \in [Tasks -> Call(p)],
         NEW what \in SUBSET {"turn", "child", "second"}
  PROVE  /\ Marked(at) /\ Marked(Overtake(at, what))
         /\ \A n : Marked([t \in Tasks |-> IF at[t].turn = n THEN at[t]
                                           ELSE Overtake(at, what)[t]])
         /\ \A w : Marked([t \in Tasks |-> IF at[t].child \in {None, w} THEN at[t]
                             ELSE [at[t] EXCEPT !.moved = @ \union {"child"}]])
<1>1. ASSUME NEW t \in Tasks, NEW m \in SUBSET {"turn", "child", "second"}
      PROVE  Like(at[t], at[t]) /\ Like([at[t] EXCEPT !.moved = @ \union m], at[t])
  BY DEF Like, Call, Doing
<1>2. ASSUME NEW t \in Tasks PROVE Like(Overtake(at, what)[t], at[t])
  BY <1>1 DEF Overtake
<1>3. Overtake(at, what) = [t \in Tasks |-> Overtake(at, what)[t]]
  BY DEF Overtake
<1> QED
  BY <1>1, <1>2, <1>3 DEF Marked

-----------------------------------------------------------------------------
(* What the server does with a request                                     *)

NoItems(w) == \A i \in DOMAIN w : w[i].kind # "item"

\* It says nothing of the thread to a connection that has not resumed it.
Tells(q, w) ==
    /\ w \in Seq(News(prompts)) /\ (~thread.subscribed => w = << >>)
    /\ up # << >> /\ q = Head(up) /\ up' = Tail(up)
    /\ thread' \in Thread(prompts) /\ thread'.tui = thread.tui

\* It runs a prompt, and tells of it,
Ran(q, w) ==
    /\ q.op \in Sends
    /\ ran' = [ran EXCEPT ![q.n] = IF @ < 2 THEN @ + 1 ELSE @]
    /\ slipped' = IF thread.subscribed THEN slipped ELSE slipped \union {q.text}
    /\ thread'.subscribed = thread.subscribed
    /\ thread.subscribed =>
         \E v \in {<< >>, TurnFrame("turn", q.n)} : w = v \o Item(q.n, q.text)

\* does something else that was asked of it, or refuses,
Other(q, w, a) ==
    /\ q.op \in Sends => a.kind # "result"
    /\ UNCHANGED <<ran, slipped>> /\ NoItems(w)
    /\ \/ thread'.subscribed = thread.subscribed
       \/ q.op = "attach" /\ a.kind = "result"
       \/ q.op = "unsubscribe" /\ ~thread'.subscribed
    /\ q.op = "unsubscribe" /\ a.kind = "result" => w = << >> /\ ~thread'.subscribed

\* and answers;
Serves(q, w, a) ==
    /\ Tells(q, w) /\ q.op # "approve"
    /\ a \in Answers(prompts) /\ a.to = q.by
    /\ pipe' \in {(pipe \o << a >>) \o w, (pipe \o w) \o << a >>}
    /\ (Ran(q, w) /\ a.kind = "result") \/ Other(q, w, a)

\* or it takes the answer to its own request.
Approved(q, w) ==
    /\ Tells(q, w) /\ q.op = "approve" /\ pipe' = pipe \o w
    /\ UNCHANGED <<ran, slipped>> /\ NoItems(w) /\ thread'.subscribed = thread.subscribed

LEMMA ServerServes ==
  ASSUME Shape, ServerTakes, prompts' = prompts
  PROVE  \E q \in Sending(prompts) : \E w \in Seq(News(prompts)) :
            Approved(q, w) \/ \E a \in Answers(prompts) : Serves(q, w, a)
<1> DEFINE q == Head(up)
<1>1. /\ up # << >> /\ up' = Tail(up) /\ q \in Sending(prompts) /\ thread \in Thread(prompts)
      /\ pipe \in Seq(Frames(prompts)) /\ prompts \in Nat
  BY DEF Shape, ServerTakes
<1>2. /\ q.by \in Callers /\ q.op \in Ops \union {"approve"} /\ q.turn \in Turns(prompts)
      /\ Told(prompts, q) /\ (q.op = "approve" => q.by = None /\ q.n = 1)
  BY <1>1 DEF Sending
<1>3. /\ thread.turn \in Turns(prompts) /\ thread.child \in Words /\ thread.ask \in {0, 1}
      /\ thread.subscribed \in BOOLEAN
  BY <1>1 DEF Thread
<1>4. \A k \in {"result", "error", "overloaded"} :
        LET a == [kind |-> k, to |-> q.by, turn |-> thread.turn, child |-> thread.child] IN
        Reply(q.by, k) = << a >> /\ a \in Answers(prompts)
  BY <1>2, <1>3, ItsFrames DEF Reply
<1>5. << >> \in Seq(News(prompts)) /\ NoItems(<< >>)
  BY DEF NoItems
<1>6. \A f \in {pipe \o << >>} : f = pipe
  BY <1>1
<1>7. pipe \o << >> = pipe /\ \A a \in Answers(prompts) : (pipe \o << a >>) \o << >> = pipe \o << a >>
  <2>1. \A a \in Answers(prompts) : pipe \o << a >> \in Seq(Frames(prompts))
    BY <1>1 DEF Frames
  <2> QED
    BY <1>1, <2>1
<1> HIDE DEF q
<1>8. ASSUME q.op # "approve", Refuses(q) \/ Overloaded(q)
      PROVE  \E a \in Answers(prompts) : Serves(q, << >>, a)
  <2>1. PICK k \in {"error", "overloaded"} : pipe' = pipe \o Reply(q.by, k)
    BY <1>8 DEF Refuses, Overloaded
  <2>2. UNCHANGED <<thread, ran, slipped>>
    BY <1>8 DEF Refuses, Overloaded
  <2> DEFINE a == [kind |-> k, to |-> q.by, turn |-> thread.turn, child |-> thread.child]
  <2>3. a \in Answers(prompts) /\ pipe' = (pipe \o << a >>) \o << >>
    BY <1>4, <1>7, <2>1
  <2>4. Tells(q, << >>)
    BY <1>1, <1>5, <2>2 DEF Tells, q
  <2>5. Other(q, << >>, a)
    BY <1>5, <2>2 DEF Other
  <2> QED
    BY <1>8, <2>3, <2>4, <2>5 DEF Serves
<1>9. ASSUME q.op \in Sends, TakesPrompt(q)
      PROVE  \E w \in Seq(News(prompts)) : \E a \in Answers(prompts) : Serves(q, w, a)
  <2> DEFINE opens == q.op = "send"
             turn  == IF opens THEN q.n ELSE thread.turn
             a     == [kind |-> "result", to |-> q.by, turn |-> turn, child |-> None]
             v     == IF opens THEN TurnFrame("turn", turn) ELSE << >>
             w     == Notify(v \o Item(q.n, q.text))
  <2>1. q.n \in Given(prompts) /\ q.text \in Texts /\ turn \in Turns(prompts)
        /\ q.n \in Turns(prompts)
    BY <1>2, <1>3, <1>9 DEF Told, Given, Turns
  <2>2. a \in Answers(prompts)
    BY <1>2, <2>1, ItsFrames DEF Words
  <2>3. v \in {<< >>, TurnFrame("turn", q.n)} /\ v \in Seq(News(prompts))
    <3>1. v = IF opens THEN TurnFrame("turn", q.n) ELSE << >>
      OBVIOUS
    <3>2. [kind |-> "turn", n |-> q.n] \in News(prompts)
      BY <2>1, ItsFrames
    <3> HIDE DEF v
    <3> QED
      BY <3>1, <3>2 DEF TurnFrame
  <2>4. Item(q.n, q.text) \in Seq(News(prompts))
    BY <2>1, ItsFrames DEF Item
  <2>5. w \in Seq(News(prompts)) /\ (~thread.subscribed => w = << >>)
        /\ (thread.subscribed => w = v \o Item(q.n, q.text))
    <3> HIDE DEF v
    <3>1. v \o Item(q.n, q.text) \in Seq(News(prompts)) /\ << >> \in Seq(News(prompts))
      BY <2>3, <2>4
    <3> QED
      BY <3>1 DEF Notify
  <2>6. /\ thread' = IF opens THEN [thread EXCEPT !.turn = turn] ELSE thread
        /\ pipe' \in {(pipe \o << a >>) \o w, (pipe \o w) \o << a >>}
        /\ ran' = [ran EXCEPT ![q.n] = IF @ < 2 THEN @ + 1 ELSE @]
        /\ slipped' = IF thread.subscribed THEN slipped ELSE slipped \union {q.text}
    BY <1>9 DEF TakesPrompt
  <2>7. thread' \in Thread(prompts) /\ thread'.tui = thread.tui
        /\ thread'.subscribed = thread.subscribed
    BY <1>1, <2>1, <2>6 DEF Thread
  <2>8. Tells(q, w)
    BY <1>1, <2>5, <2>7 DEF Tells, q
  <2>9. Ran(q, w)
    BY <1>9, <2>3, <2>5, <2>6, <2>7 DEF Ran
  <2>10. Serves(q, w, a)
    BY <1>9, <2>2, <2>6, <2>8, <2>9 DEF Serves, Sends
  <2> QED
    BY <2>2, <2>5, <2>10
<1>10. ASSUME q.op \in {"cancel", "interrupt"}, TakesInterrupt(q)
       PROVE  \E w \in Seq(News(prompts)) : \E a \in Answers(prompts) : Serves(q, w, a)
  <2> DEFINE a == [kind |-> "result", to |-> q.by, turn |-> thread.turn, child |-> thread.child]
             v == IF thread.ask # 0 THEN TurnFrame("resolved", thread.ask) ELSE << >>
             w == Notify(v \o TurnFrame("done", thread.turn))
  <2>1. thread.turn # 0 /\ thread' = [thread EXCEPT !.turn = 0, !.ask = 0]
        /\ pipe' = (pipe \o << a >>) \o w /\ UNCHANGED <<ran, slipped>>
    BY <1>4, <1>10 DEF TakesInterrupt
  <2>2. thread.turn \in Given(prompts)
    BY <1>3, <2>1 DEF Given, Turns
  <2>3. v \in Seq(News(prompts)) /\ NoItems(v) /\ Len(v) \in {0, 1}
    BY <1>3, ItsFrames DEF TurnFrame, NoItems
  <2>4. TurnFrame("done", thread.turn) \in Seq(News(prompts))
        /\ Len(TurnFrame("done", thread.turn)) = 1
        /\ TurnFrame("done", thread.turn)[1].kind = "done"
    <3> DEFINE f == [kind |-> "done", n |-> thread.turn]
    <3>1. f \in News(prompts) /\ f.kind = "done"
      BY <2>2, ItsFrames
    <3>2. TurnFrame("done", thread.turn) = << f >>
      BY DEF TurnFrame
    <3> HIDE DEF f
    <3>3. << f >> \in Seq(News(prompts)) /\ Len(<< f >>) = 1 /\ << f >>[1].kind = "done"
      BY <3>1
    <3> QED
      BY <3>2, <3>3
  <2>5. NoItems(v \o TurnFrame("done", thread.turn))
        /\ v \o TurnFrame("done", thread.turn) \in Seq(News(prompts))
    <3> DEFINE d == TurnFrame("done", thread.turn)
    <3> HIDE DEF v, d
    <3>1. v \in Seq(News(prompts)) /\ d \in Seq(News(prompts)) /\ Len(d) = 1 /\ d[1].kind = "done"
      BY <2>3, <2>4 DEF d
    <3>2. d[1] = d[1] /\ DOMAIN d = {1}
      BY <3>1
    <3>3. NoItems(d)
      BY <3>1, <3>2 DEF NoItems
    <3>4. NoItems(v \o d) /\ v \o d \in Seq(News(prompts))
      BY <2>3, <3>1, <3>3, Joined DEF NoItems
    <3> QED
      BY <3>4 DEF d
  <2>6. w \in Seq(News(prompts)) /\ NoItems(w) /\ (~thread.subscribed => w = << >>)
    BY <1>5, <2>5 DEF Notify
  <2>7. thread' \in Thread(prompts) /\ thread'.tui = thread.tui
        /\ thread'.subscribed = thread.subscribed
    <3>1. 0 \in Turns(prompts)
      BY <1>1 DEF Turns
    <3> QED
      BY <1>1, <2>1, <3>1 DEF Thread
  <2>8. Tells(q, w)
    BY <1>1, <2>6, <2>7 DEF Tells, q
  <2>9. Other(q, w, a)
    BY <1>10, <2>1, <2>6, <2>7 DEF Other, Sends
  <2>10. a \in Answers(prompts)
    BY <1>4
  <2>11. Serves(q, w, a)
    BY <1>10, <2>1, <2>8, <2>9, <2>10 DEF Serves
  <2> QED
    BY <2>6, <2>10, <2>11
<1>11. ASSUME q.op \in {"attach", "items", "unsubscribe"}, Takes(q)
       PROVE  \E a \in Answers(prompts) : Serves(q, << >>, a)
  <2> DEFINE a == [kind |-> "result", to |-> q.by, turn |-> thread.turn, child |-> thread.child]
  <2>1. /\ thread' = IF q.op = "items" THEN thread
                     ELSE [thread EXCEPT !.subscribed = q.op = "attach"]
        /\ a \in Answers(prompts) /\ pipe' = (pipe \o << a >>) \o << >>
        /\ UNCHANGED <<ran, slipped>>
    BY <1>4, <1>7, <1>11 DEF Takes
  <2>2. thread' \in Thread(prompts) /\ thread'.tui = thread.tui
    BY <1>1, <2>1 DEF Thread
  <2>3. /\ q.op = "unsubscribe" => ~thread'.subscribed
        /\ q.op = "items" => thread' = thread
    BY <1>1, <2>1 DEF Thread
  <2>4. Tells(q, << >>)
    BY <1>1, <1>5, <2>2 DEF Tells, q
  <2>5. Other(q, << >>, a)
    BY <1>5, <1>11, <2>1, <2>3 DEF Other, Sends
  <2> QED
    BY <1>11, <2>1, <2>4, <2>5 DEF Serves
<1>12. ASSUME q.op = "approve", TakesApproval(q)
       PROVE  \E w \in Seq(News(prompts)) : Approved(q, w)
  <2>1. CASE thread.ask = q.n
    <3> DEFINE w == Notify(TurnFrame("resolved", q.n))
    <3>1. thread' = [thread EXCEPT !.ask = 0] /\ pipe' = pipe \o w /\ UNCHANGED <<ran, slipped>>
      BY <1>12, <2>1 DEF TakesApproval
    <3>2. thread.ask = 1 \/ thread.ask = 0
      BY <1>3
    <3>3. q.n = 1
      BY <1>2, <1>12
    <3>4. TurnFrame("resolved", q.n) \in Seq(News(prompts)) /\ NoItems(TurnFrame("resolved", q.n))
      BY <3>3, ItsFrames DEF TurnFrame, NoItems
    <3>5. w \in Seq(News(prompts)) /\ NoItems(w) /\ (~thread.subscribed => w = << >>)
      BY <1>5, <3>4 DEF Notify
    <3>6. thread' \in Thread(prompts) /\ thread'.tui = thread.tui
          /\ thread'.subscribed = thread.subscribed
      BY <1>1, <3>1 DEF Thread
    <3>7. Tells(q, w)
      BY <1>1, <3>5, <3>6 DEF Tells, q
    <3> QED
      BY <1>12, <3>1, <3>5, <3>6, <3>7 DEF Approved
  <2>2. CASE thread.ask # q.n
    <3>1. UNCHANGED <<thread, pipe, ran, slipped>>
      BY <1>12, <2>2 DEF TakesApproval
    <3>2. Tells(q, << >>)
      BY <1>1, <1>5, <3>1 DEF Tells, q
    <3>3. pipe' = pipe \o << >>
      BY <1>7, <3>1
    <3> QED
      BY <1>5, <1>12, <3>1, <3>2, <3>3 DEF Approved
  <2> QED
    BY <2>1, <2>2
<1>13. \/ Accepts(q)
       \/ q.op # "approve" /\ (Refuses(q) \/ Overloaded(q))
  BY DEF ServerTakes, q
<1> QED
  BY <1>1, <1>5, <1>8, <1>9, <1>10, <1>11, <1>12, <1>13 DEF Accepts

-----------------------------------------------------------------------------
(* What the server and the TUI do by themselves                            *)

Announces(w) ==
    /\ w \in Seq(News(prompts)) /\ NoItems(w) /\ (~thread.subscribed => w = << >>)
    /\ pipe' = pipe \o w /\ thread' \in Thread(prompts)
    /\ thread'.tui = thread.tui /\ thread'.subscribed = thread.subscribed
    /\ UNCHANGED <<prompts, ran, debt, slipped>> /\ Outside

LEMMA TheyAnnounce ==
  ASSUME Shape, Delegate \/ AskApproval \/ TuiApproves \/ EndTurn
  PROVE  \E w \in Seq(News(prompts)) : Announces(w)
<1>1. thread \in Thread(prompts) /\ 0 \in Turns(prompts)
  BY DEF Shape, Turns
<1>2. /\ thread.turn \in Turns(prompts) /\ thread.ask \in {0, 1} /\ thread.subscribed \in BOOLEAN
  BY <1>1 DEF Thread
<1>3. ASSUME NEW f \in News(prompts), f.kind # "item"
      PROVE  /\ << f >> \in Seq(News(prompts)) /\ NoItems(<< f >>)
             /\ Notify(<< f >>) \in Seq(News(prompts)) /\ NoItems(Notify(<< f >>))
             /\ (~thread.subscribed => Notify(<< f >>) = << >>)
             /\ (thread.subscribed => Notify(<< f >>) = << f >>)
  BY <1>3 DEF NoItems, Notify
<1>4. CASE Delegate
  <2> DEFINE st == IF thread.child = None THEN "started" ELSE "completed"
             f  == [kind |-> "child", status |-> st]
  <2>1. f \in News(prompts) /\ f.kind # "item"
    BY ItsFrames
  <2>2. /\ thread' = [thread EXCEPT !.child = st] /\ pipe' = pipe \o Notify(<< f >>)
        /\ UNCHANGED <<prompts, ran, debt, slipped>> /\ Outside
    BY <1>4 DEF Delegate
  <2>3. thread' \in Thread(prompts) /\ thread'.tui = thread.tui
        /\ thread'.subscribed = thread.subscribed
    BY <1>1, <2>2 DEF Thread, Words
  <2> HIDE DEF f
  <2>4. Announces(Notify(<< f >>))
    BY <1>3, <2>1, <2>2, <2>3 DEF Announces
  <2> QED
    BY <1>3, <2>1, <2>4
<1>5. CASE AskApproval
  <2> DEFINE f == [kind |-> "ask", n |-> 1]
  <2>1. f \in News(prompts) /\ f.kind # "item" /\ TurnFrame("ask", 1) = << f >>
    BY ItsFrames DEF TurnFrame
  <2>2. /\ thread' = [thread EXCEPT !.ask = 1, !.asked = 1] /\ pipe' = pipe \o << f >>
        /\ UNCHANGED <<prompts, ran, debt, slipped>> /\ Outside /\ thread.subscribed
    BY <1>5, <2>1 DEF AskApproval
  <2>3. thread' \in Thread(prompts) /\ thread'.tui = thread.tui
        /\ thread'.subscribed = thread.subscribed
    BY <1>1, <2>2 DEF Thread
  <2> HIDE DEF f
  <2>4. Announces(<< f >>)
    BY <1>3, <2>1, <2>2, <2>3 DEF Announces
  <2> QED
    BY <1>3, <2>1, <2>4
<1>6. CASE TuiApproves
  <2> DEFINE f == [kind |-> "resolved", n |-> thread.ask]
  <2>1. thread.ask = 1
    BY <1>2, <1>6 DEF TuiApproves
  <2>2. f \in News(prompts) /\ f.kind # "item" /\ TurnFrame("resolved", thread.ask) = << f >>
    BY <2>1, ItsFrames DEF TurnFrame
  <2>3. /\ thread' = [thread EXCEPT !.ask = 0] /\ pipe' = pipe \o Notify(<< f >>)
        /\ UNCHANGED <<prompts, ran, debt, slipped>> /\ Outside
    BY <1>6, <2>2 DEF TuiApproves
  <2>4. thread' \in Thread(prompts) /\ thread'.tui = thread.tui
        /\ thread'.subscribed = thread.subscribed
    BY <1>1, <2>3 DEF Thread
  <2> HIDE DEF f
  <2>5. Announces(Notify(<< f >>))
    BY <1>3, <2>2, <2>3, <2>4 DEF Announces
  <2> QED
    BY <1>3, <2>2, <2>5
<1>7. CASE EndTurn
  <2> DEFINE f == [kind |-> "done", n |-> thread.turn]
  <2>1. thread.turn \in Given(prompts)
    BY <1>2, <1>7 DEF EndTurn, Given, Turns
  <2>2. f \in News(prompts) /\ f.kind # "item" /\ TurnFrame("done", thread.turn) = << f >>
    BY <2>1, ItsFrames DEF TurnFrame
  <2>3. /\ thread' = [thread EXCEPT !.turn = 0] /\ pipe' = pipe \o Notify(<< f >>)
        /\ UNCHANGED <<prompts, ran, debt, slipped>> /\ Outside
    BY <1>7, <2>2 DEF EndTurn
  <2>4. thread' \in Thread(prompts) /\ thread'.tui = thread.tui
        /\ thread'.subscribed = thread.subscribed
    BY <1>1, <2>3 DEF Thread
  <2> HIDE DEF f
  <2>5. Announces(Notify(<< f >>))
    BY <1>3, <2>2, <2>3, <2>4 DEF Announces
  <2> QED
    BY <1>3, <2>2, <2>5
<1> QED
  BY <1>4, <1>5, <1>6, <1>7

\* Somebody types a prompt, of which a connection hears if it has resumed the
\* thread.
Types(x, w) ==
    /\ thread.tui /\ x \in Texts
    /\ prompts' = prompts + 1 /\ prompts' \in 0 .. MaxPrompts /\ prompts' \in Given(prompts')
    /\ w \in Seq(News(prompts')) /\ pipe' = pipe \o w
    /\ IF thread.subscribed
       THEN \E v \in {<< >>, TurnFrame("turn", prompts')} : w = v \o Item(prompts', x)
       ELSE w = << >>
    /\ thread' \in Thread(prompts') /\ thread'.tui = thread.tui
    /\ thread'.subscribed = thread.subscribed
    /\ debt' = IF thread.subscribed THEN [debt EXCEPT ![x] = @ + 1] ELSE debt
    /\ UNCHANGED <<ran, slipped>> /\ Outside

LEMMA TheyType ==
  ASSUME CodexAssumption, Shape, NEW x \in Texts, Type(x)
  PROVE  \E w \in Seq(News(prompts')) : Types(x, w)
<1> DEFINE n == prompts + 1
           opens == thread.turn = 0
           v == IF opens THEN TurnFrame("turn", n) ELSE << >>
           w == Notify(v \o Item(n, x))
<1>1. /\ prompts \in Nat /\ MaxPrompts \in Nat /\ prompts \in 0 .. MaxPrompts
      /\ thread \in Thread(prompts)
  BY DEF Shape, CodexAssumption
<1>2. /\ thread.tui /\ prompts < MaxPrompts /\ prompts' = n
      /\ thread' = IF opens THEN [thread EXCEPT !.turn = n] ELSE thread
      /\ pipe' = pipe \o w
      /\ debt' = IF thread.subscribed THEN [debt EXCEPT ![x] = @ + 1] ELSE debt
      /\ UNCHANGED <<ran, slipped>> /\ Outside
  BY DEF Type
<1>3. n \in 0 .. MaxPrompts /\ n \in Given(n) /\ n \in Turns(n)
  BY <1>1, <1>2 DEF Given, Turns
<1>4. thread \in Thread(n)
  BY <1>1, Grown
<1>5. thread' \in Thread(n) /\ thread'.tui = thread.tui /\ thread'.subscribed = thread.subscribed
  BY <1>2, <1>3, <1>4 DEF Thread
<1>6. Item(n, x) \in Seq(News(n))
  BY <1>3, ItsFrames DEF Item
<1>7. v \in {<< >>, TurnFrame("turn", n)} /\ v \in Seq(News(n))
  <2>1. [kind |-> "turn", n |-> n] \in News(n)
    BY <1>3, ItsFrames
  <2>2. v = IF opens THEN TurnFrame("turn", n) ELSE << >>
    OBVIOUS
  <2> HIDE DEF n, v, opens
  <2>3. TurnFrame("turn", n) \in Seq(News(n)) /\ << >> \in Seq(News(n))
    BY <2>1 DEF TurnFrame
  <2> QED
    BY <2>2, <2>3
<1> HIDE DEF v
<1>8. v \o Item(n, x) \in Seq(News(n)) /\ << >> \in Seq(News(n))
  BY <1>6, <1>7
<1>9. /\ w \in Seq(News(n))
      /\ thread.subscribed => w = v \o Item(n, x)
      /\ ~thread.subscribed => w = << >>
  BY <1>8 DEF Notify
<1> HIDE DEF w, n, opens
<1>10. prompts' = prompts + 1
  BY <1>2 DEF n
<1>11. \E y \in {<< >>, TurnFrame("turn", n)} : thread.subscribed => w = y \o Item(n, x)
  BY <1>7, <1>9
<1>12. prompts' = n
  BY <1>2
<1>13. Types(x, w)
  BY <1>2, <1>3, <1>5, <1>9, <1>10, <1>11, <1>12 DEF Types
<1> QED
  BY <1>9, <1>12, <1>13

-----------------------------------------------------------------------------
(* Every step keeps the types                                              *)

LEMMA ServerShape ==
  ASSUME CodexAssumption, Shape,
         \/ Delegate \/ AskApproval \/ TuiApproves \/ EndTurn \/ ServerTakes
         \/ \E x \in Texts : Type(x)
  PROVE  Shape'
<1>1. prompts \in Nat
  BY DEF Shape
<1>2. CASE Delegate \/ AskApproval \/ TuiApproves \/ EndTurn
  <2>1. PICK w \in Seq(News(prompts)) : Announces(w)
    BY <1>2, TheyAnnounce
  <2>2. w \in Seq(Frames(prompts)) /\ pipe \in Seq(Frames(prompts))
    BY DEF Frames, Shape
  <2>3. pipe' \in Seq(Frames(prompts))
    BY <2>1, <2>2 DEF Announces
  <2> QED
    BY <2>1, <2>3 DEF Announces, Outside, view, Shape
<1>3. CASE \E x \in Texts : Type(x)
  <2>1. PICK x \in Texts : Type(x)
    BY <1>3
  <2>2. PICK w \in Seq(News(prompts')) : Types(x, w)
    BY <2>1, TheyType
  <2>3. prompts' = prompts + 1
    BY <2>2 DEF Types
  <2>4. w \in Seq(Frames(prompts')) /\ pipe \in Seq(Frames(prompts'))
    <3>1. News(prompts') \subseteq Frames(prompts') /\ Frames(prompts) \subseteq Frames(prompts')
      BY <1>1, <2>3, Grown DEF Frames
    <3>2. pipe \in Seq(Frames(prompts))
      BY DEF Shape
    <3> QED
      BY <3>1, <3>2
  <2>5. pipe' \in Seq(Frames(prompts'))
    BY <2>2, <2>4 DEF Types
  <2>6. /\ at' \in [Tasks -> Call(prompts')] /\ up' \in Seq(Sending(prompts'))
        /\ active' \in Turns(prompts') /\ seen' \subseteq Given(prompts')
        /\ echoes' \subseteq [n : Given(prompts'), text : Texts]
    <3>1. UNCHANGED <<at, up, active, seen, echoes>>
      BY <2>2 DEF Types, Outside, view
    <3>2. /\ at \in [Tasks -> Call(prompts)] /\ up \in Seq(Sending(prompts))
          /\ active \in Turns(prompts) /\ seen \subseteq Given(prompts)
          /\ echoes \subseteq [n : Given(prompts), text : Texts]
      BY DEF Shape
    <3>3. \A n \in Nat : up \in Seq(Sending(prompts + 1))
      BY <1>1, <3>2, Grown
    <3> QED
      BY <1>1, <2>3, <3>1, <3>2, <3>3, Grown
  <2>7. debt' \in [Texts -> Int]
    BY <2>2, SMTT(30) DEF Types, Shape
  <2> QED
    BY <2>2, <2>5, <2>6, <2>7 DEF Types, Outside, view, Shape
<1>4. CASE ServerTakes
  <2>1. UNCHANGED <<prompts, link, holder, ready, at, calls, view, echoes, debt, raced>>
    BY <1>4 DEF ServerTakes
  <2>2. PICK q \in Sending(prompts) : \E w \in Seq(News(prompts)) :
            Approved(q, w) \/ \E a \in Answers(prompts) : Serves(q, w, a)
    BY <1>4, <2>1, ServerServes
  <2>3. PICK w \in Seq(News(prompts)) :
            Approved(q, w) \/ \E a \in Answers(prompts) : Serves(q, w, a)
    BY <2>2
  <2>4. w \in Seq(Frames(prompts)) /\ pipe \in Seq(Frames(prompts)) /\ pipe \o w \in Seq(Frames(prompts))
    BY DEF Frames, Shape
  <2>5. Tells(q, w)
    BY <2>3 DEF Approved, Serves
  <2>6. thread' \in Thread(prompts) /\ up' \in Seq(Sending(prompts))
    BY <2>5 DEF Tells, Shape
  <2>7. CASE Approved(q, w)
    <3>1. pipe' \in Seq(Frames(prompts)) /\ UNCHANGED <<ran, slipped>>
      BY <2>4, <2>7 DEF Approved
    <3> QED
      BY <2>1, <2>6, <3>1 DEF Shape, view
  <2>8. ASSUME NEW a \in Answers(prompts), Serves(q, w, a)
        PROVE  Shape'
    <3>1. << a >> \in Seq(Frames(prompts))
      BY DEF Frames
    <3>2. (pipe \o << a >>) \o w \in Seq(Frames(prompts))
          /\ (pipe \o w) \o << a >> \in Seq(Frames(prompts))
      BY <2>4, <3>1
    <3>3. pipe' \in Seq(Frames(prompts))
      BY <2>8, <3>2 DEF Serves
    <3>4. ran' \in [1 .. MaxPrompts -> Nat] /\ slipped' \subseteq Texts
      <4>1. CASE Ran(q, w)
        <5>1. q.text \in Texts
          BY <4>1 DEF Ran, Sending, Told
        <5>2. ran' = [ran EXCEPT ![q.n] = IF @ < 2 THEN @ + 1 ELSE @]
          BY <4>1 DEF Ran
        <5>3. ran \in [1 .. MaxPrompts -> Nat] /\ slipped \subseteq Texts
          BY DEF Shape
        <5>4. ran' \in [1 .. MaxPrompts -> Nat]
          <6>1. q.n \in 1 .. MaxPrompts
            BY <4>1 DEF Ran, Sending, Told, Given, Shape
          <6>2. ran[q.n] \in Nat
            BY <5>3, <6>1
          <6>3. (IF ran[q.n] < 2 THEN ran[q.n] + 1 ELSE ran[q.n]) \in Nat
            BY <6>2
          <6> QED
            BY <5>2, <5>3, <6>1, <6>3
        <5> QED
          BY <4>1, <5>1, <5>3, <5>4 DEF Ran
      <4>2. CASE Other(q, w, a)
        BY <4>2 DEF Other, Shape
      <4> QED
        BY <2>8, <4>1, <4>2 DEF Serves
    <3> QED
      BY <2>1, <2>6, <3>3, <3>4 DEF Shape, view
  <2> QED
    BY <2>3, <2>7, <2>8
<1> QED
  BY <1>2, <1>3, <1>4

LEMMA LinkShape ==
  ASSUME CodexAssumption, Shape,
         \/ Drop
         \/ \E t \in Tasks : Dial(t) \/ DialFails(t) \/ Greeted(t) \/ Connected(t) \/ TimesOut(t)
  PROVE  Shape'
<1>1. /\ prompts \in Nat /\ at \in [Tasks -> Call(prompts)] /\ up \in Seq(Sending(prompts))
      /\ pipe \in Seq(Frames(prompts)) /\ thread \in Thread(prompts)
  BY DEF Shape
<1>2. CASE Drop
  <2>1. /\ link' = "down" /\ ready' = FALSE /\ at' = Overtake(Failed, {"turn", "child"})
        /\ up' = << >> /\ pipe' = << >>
        /\ thread' = [thread EXCEPT !.subscribed = FALSE]
        /\ slipped' = slipped \union {e.text : e \in echoes}
                              \union {x \in Texts : debt[x] # 0}
        /\ debt' = [x \in Texts |-> 0] /\ raced' = raced \union {"lost"}
        /\ UNCHANGED <<calls, prompts, ran, holder, view, echoes>>
    BY <1>2 DEF Drop
  <2>2. thread' \in Thread(prompts)
    BY <1>1, <2>1 DEF Thread
  <2>3. at' \in [Tasks -> Call(prompts)]
    <3>1. ASSUME NEW t \in Tasks PROVE Overtake(Failed, {"turn", "child"})[t] \in Call(prompts)
      <4>1. at[t] \in Call(prompts)
        BY <1>1
      <4>2. [at[t] EXCEPT !.pc = "failed"] \in Call(prompts)
        BY <4>1 DEF Call, Doing, Told
      <4>3. Failed[t] = IF at[t].pc = "asked" THEN [at[t] EXCEPT !.pc = "failed"] ELSE at[t]
        BY DEF Failed
      <4>4. Failed[t] \in Call(prompts)
        BY <4>1, <4>2, <4>3
      <4>5. ASSUME NEW c \in Call(prompts)
            PROVE  [c EXCEPT !.moved = @ \union {"turn", "child"}] \in Call(prompts)
        BY DEF Call, Doing, Told
      <4> QED
        BY <4>4, <4>5 DEF Overtake
    <3> QED
      BY <2>1, <3>1 DEF Overtake
  <2>4. slipped' \subseteq Texts /\ debt' \in [Texts -> Int]
    BY <2>1 DEF Shape
  <2>5. up' \in Seq(Sending(prompts)) /\ pipe' \in Seq(Frames(prompts))
        /\ raced' \subseteq {"turn", "child", "closed", "lost"}
        /\ ready' = (link' = "up") /\ link' \in {"down", "greeting", "up"}
    <3>1. raced \subseteq {"turn", "child", "closed", "lost"}
      BY DEF Shape
    <3>2. << >> \in Seq(Sending(prompts)) /\ << >> \in Seq(Frames(prompts))
      OBVIOUS
    <3> QED
      BY <2>1, <3>1, <3>2
  <2>6. UNCHANGED <<prompts, ran, holder, active, child, seen, requests, created, echoes>>
    BY <2>1 DEF view
  <2> QED
    BY <2>2, <2>3, <2>4, <2>5, <2>6 DEF Shape
<1>3. ASSUME NEW t \in Tasks, Dial(t) PROVE Shape'
  <2>1. /\ holder' = t /\ link' = "greeting" /\ ready = FALSE
        /\ UNCHANGED <<calls, server, up, pipe, troubles, ready, at, view, ledger, raced>>
    BY <1>3 DEF Dial, Shape
  <2> QED
    BY <2>1 DEF Shape, server, view, ledger, Callers
<1>4. ASSUME NEW t \in Tasks, DialFails(t) PROVE Shape'
  <2>1. at' \in [Tasks -> Call(prompts)] /\ holder' = None
    BY <1>1, <1>4, BecomeShape DEF DialFails
  <2> QED
    BY <1>4, <2>1 DEF DialFails, Shape, server, view, ledger, Callers
<1>5. ASSUME NEW t \in Tasks, Greeted(t) \/ Connected(t) PROVE Shape'
  <2>1. /\ at[t] \in Call(prompts) /\ Post(t, at[t]) /\ link' # "down"
        /\ ready' = (link' = "up") /\ link' \in {"greeting", "up"} /\ holder' \in Callers
        /\ UNCHANGED <<server, pipe, view, ledger, raced>>
    BY <1>1, <1>5 DEF Greeted, Connected, Shape, Callers
  <2>2. at' \in [Tasks -> Call(prompts)] /\ up' \in Seq(Sending(prompts))
    BY <1>1, <2>1, ItAsks, AskingShape
  <2> QED
    BY <2>1, <2>2 DEF Shape, server, view, ledger
<1>6. ASSUME NEW t \in Tasks, TimesOut(t) PROVE Shape'
  <2>1. /\ at' = Become(t, "failed")
        /\ up' = [i \in DOMAIN up |-> IF up[i].by = t
                                      THEN [up[i] EXCEPT !.by = None] ELSE up[i]]
        /\ pipe' = [i \in DOMAIN pipe |->
                      IF "to" \in DOMAIN pipe[i] /\ pipe[i].to = t
                      THEN [pipe[i] EXCEPT !.to = None] ELSE pipe[i]]
        /\ UNCHANGED <<calls, server, link, holder, ready, view, ledger, raced>>
    BY <1>6 DEF TimesOut
  <2>2. at' \in [Tasks -> Call(prompts)]
    BY <1>1, <2>1, BecomeShape
  <2>3. up' \in Seq(Sending(prompts))
    <3>1. ASSUME NEW i \in 1 .. Len(up) PROVE up'[i] \in Sending(prompts)
      <4>1. up[i] \in Sending(prompts) /\ i \in DOMAIN up
        BY <1>1
      <4>2. [up[i] EXCEPT !.by = None] \in Sending(prompts)
        BY <4>1 DEF Sending, Told, Callers
      <4> QED
        BY <2>1, <4>1, <4>2
    <3>2. DOMAIN up = 1 .. Len(up) /\ Len(up) \in Nat
      BY <1>1
    <3>3. up' \in [1 .. Len(up) -> Sending(prompts)]
      BY <2>1, <3>1, <3>2
    <3> QED
      BY <3>2, <3>3, SeqDef
  <2>4. pipe' \in Seq(Frames(prompts))
    <3>1. ASSUME NEW i \in 1 .. Len(pipe) PROVE pipe'[i] \in Frames(prompts)
      <4>1. pipe[i] \in Frames(prompts) /\ i \in DOMAIN pipe
        BY <1>1
      <4>2. ASSUME "to" \in DOMAIN pipe[i]
            PROVE  [pipe[i] EXCEPT !.to = None] \in Frames(prompts)
        <5>1. pipe[i] \in Answers(prompts)
          BY <4>1, <4>2, FrameKinds DEF Frames
        <5>2. [pipe[i] EXCEPT !.to = None] \in Answers(prompts)
          BY <5>1 DEF Answers, Callers
        <5> QED
          BY <5>2 DEF Frames
      <4> QED
        BY <2>1, <4>1, <4>2
    <3>2. DOMAIN pipe = 1 .. Len(pipe) /\ Len(pipe) \in Nat
      BY <1>1
    <3>3. pipe' \in [1 .. Len(pipe) -> Frames(prompts)]
      BY <2>1, <3>1, <3>2
    <3> QED
      BY <3>2, <3>3, SeqDef
  <2> QED
    BY <2>1, <2>2, <2>3, <2>4 DEF Shape, server, view, ledger
<1> QED
  BY <1>2, <1>3, <1>4, <1>5, <1>6

LEMMA OldestIs ==
  ASSUME NEW p \in Nat, NEW S, S \subseteq [n : Given(p), text : Texts], S # {}
  PROVE  Oldest(S) \in S
<1> DEFINE N == {e.n : e \in S}
<1>1. N \subseteq Nat /\ N # {}
  BY DEF Given
<1>2. PICK m \in N : \A k \in N : ~(<<k, m>> \in OpToRel(<, Nat))
  BY <1>1, NatLessThanWellFounded, WFMin
<1>3. \A k \in N : m <= k
  <2> SUFFICES ASSUME NEW k \in N, ~(m <= k) PROVE FALSE
    OBVIOUS
  <2>1. k \in Nat /\ m \in Nat /\ k < m
    BY <1>1
  <2>2. <<k, m>> \in OpToRel(<, Nat)
    BY <2>1 DEF OpToRel
  <2> QED
    BY <1>2, <2>2
<1>4. PICK e \in S : \A d \in S : e.n <= d.n
  BY <1>3
<1> QED
  BY <1>4 DEF Oldest

LEMMA ReaderShape ==
  ASSUME CodexAssumption, Shape, Handle
  PROVE  Shape'
<1> DEFINE f == Head(pipe)
<1>1. /\ prompts \in Nat /\ at \in [Tasks -> Call(prompts)]
      /\ pipe \in Seq(Frames(prompts)) /\ pipe # << >> /\ pipe' = Tail(pipe)
      /\ UNCHANGED <<server, calls, up, link, troubles, holder, ready>>
      /\ \/ Answer(f) \/ TurnStarted(f) \/ TurnCompleted(f)
         \/ ChildUpdate(f) \/ UserMessage(f)
         \/ ServerRequest(f) \/ RequestResolved(f)
  BY DEF Shape, Handle
<1>2. f \in Frames(prompts) /\ pipe' \in Seq(Frames(prompts))
  BY <1>1, Popped
<1>3. /\ active \in Turns(prompts) /\ 0 \in Turns(prompts) /\ Given(prompts) \subseteq Turns(prompts)
      /\ child \in {None, "running", "completed"} /\ seen \subseteq Given(prompts)
      /\ requests \subseteq {1} /\ echoes \subseteq [n : Given(prompts), text : Texts]
      /\ debt \in [Texts -> Int] /\ raced \subseteq {"turn", "child", "closed", "lost"}
      /\ created \in BOOLEAN /\ slipped \subseteq Texts
  BY <1>1, SMTT(30) DEF Shape, Turns, Given
<1> HIDE DEF f
<1>4. ASSUME at' \in [Tasks -> Call(prompts)], active' \in Turns(prompts),
             child' \in {None, "running", "completed"}, seen' \subseteq Given(prompts),
             requests' \subseteq {1}, UNCHANGED <<created, slipped>>,
             echoes' \subseteq [n : Given(prompts), text : Texts], debt' \in [Texts -> Int],
             raced' \subseteq {"turn", "child", "closed", "lost"}
      PROVE  Shape'
  BY <1>1, <1>2, <1>4 DEF Shape, server
<1>5. CASE Answer(f)
  <2>1. /\ f \in Answers(prompts) /\ f.to \in Callers /\ f.turn \in Turns(prompts)
        /\ f.child \in Words /\ f.kind \in {"result", "error", "overloaded"}
    BY <1>2, <1>5, FrameKinds DEF Answer
  <2>2. at' \in [Tasks -> Call(prompts)]
    <3>1. CASE f.to = None
      BY <1>1, <1>5, <3>1 DEF Answer
    <3>2. CASE f.to # None
      <4>1. f.to \in Tasks /\ at[f.to] \in Call(prompts)
        BY <1>1, <2>1, <3>2 DEF Callers
      <4>2. ASSUME NEW c \in Words, NEW m \in SUBSET {"second"}
            PROVE  [at[f.to] EXCEPT !.pc = "answered", !.turn = f.turn, !.child = c,
                                    !.moved = @ \union m] \in Call(prompts)
        <5>1. at[f.to].moved \union m \in SUBSET {"turn", "child", "second"}
          BY <4>1 DEF Call, Doing
        <5>2. f.turn \in Nat
          BY <1>1, <2>1 DEF Turns
        <5> QED
          BY <2>1, <4>1, <5>1, <5>2 DEF Call, Doing, Told
      <4>3. [at[f.to] EXCEPT !.pc = f.kind] \in Call(prompts)
            \/ f.kind = "result"
        BY <2>1, <4>1 DEF Call, Doing, Told
      <4>4. at[f.to].child \in Words
        BY <4>1 DEF Call, Doing
      <4>6. PICK c \in Words, m \in SUBSET {"second"} :
              at' = [at EXCEPT ![f.to] =
                     IF f.kind = "result"
                     THEN [at[f.to] EXCEPT !.pc = "answered", !.turn = f.turn, !.child = c,
                                           !.moved = @ \union m]
                     ELSE [at[f.to] EXCEPT !.pc = f.kind]]
        <5> DEFINE c == IF at[f.to].op = "attach" THEN f.child ELSE at[f.to].child
                   m == IF \A u \in Tasks : ~Answered(u) THEN {} ELSE {"second"}
        <5>1. c \in Words /\ m \in SUBSET {"second"}
          BY <2>1, <4>4
        <5>2. at' = [at EXCEPT ![f.to] =
                     IF f.kind = "result"
                     THEN [at[f.to] EXCEPT !.pc = "answered", !.turn = f.turn, !.child = c,
                                           !.moved = @ \union m]
                     ELSE [at[f.to] EXCEPT !.pc = f.kind]]
          BY <1>5, <3>2 DEF Answer
        <5> QED
          BY <5>1, <5>2
      <4> QED
        BY <1>1, <4>1, <4>2, <4>3, <4>6
    <3> QED
      BY <3>1, <3>2
  <2> QED
    BY <1>3, <1>4, <1>5, <2>2 DEF Answer, view, ledger
<1>6. CASE TurnStarted(f)
  <2>1. f.n \in Given(prompts)
    BY <1>2, <1>6, FrameKinds DEF TurnStarted
  <2>2. at' \in [Tasks -> Call(prompts)]
    BY <1>1, <1>6, OvertakeMarks, MarkedShape DEF TurnStarted
  <2> QED
    BY <1>3, <1>4, <1>6, <2>1, <2>2 DEF TurnStarted, ledger
<1>7. CASE TurnCompleted(f)
  <2>1. at' \in [Tasks -> Call(prompts)]
    BY <1>1, <1>7, OvertakeMarks, MarkedShape DEF TurnCompleted
  <2> QED
    BY <1>3, <1>4, <1>7, <2>1 DEF TurnCompleted, Ended, ledger
<1>8. CASE ChildUpdate(f)
  <2>1. f.status \in {"started", "completed"}
    BY <1>2, <1>8, FrameKinds DEF ChildUpdate
  <2>2. at' \in [Tasks -> Call(prompts)]
    BY <1>1, <1>8, OvertakeMarks, MarkedShape DEF ChildUpdate
  <2> QED
    BY <1>3, <1>4, <1>8, <2>1, <2>2 DEF ChildUpdate, StatusOf, ledger
<1>9. CASE UserMessage(f)
  <2>1. f.n \in Given(prompts) /\ f.text \in Texts
    BY <1>2, <1>9, FrameKinds DEF UserMessage
  <2>2. echoes' \subseteq echoes
    BY <1>9 DEF UserMessage, Consume
  <2>3. debt' \in [Texts -> Int]
    BY <1>3, <1>9, <2>1 DEF UserMessage
  <2>4. echoes' \subseteq [n : Given(prompts), text : Texts] /\ at' \in [Tasks -> Call(prompts)]
    BY <1>1, <1>3, <1>9, <2>2 DEF UserMessage
  <2> QED
    BY <1>3, <1>4, <1>9, <2>1, <2>3, <2>4 DEF UserMessage
<1>10. CASE ServerRequest(f)
  <2>1. f.n = 1
    BY <1>2, <1>10, FrameKinds DEF ServerRequest
  <2> QED
    BY <1>1, <1>3, <1>4, <1>10, <2>1 DEF ServerRequest, ledger
<1>11. CASE RequestResolved(f)
  BY <1>1, <1>3, <1>4, <1>11 DEF RequestResolved, ledger
<1> QED
  BY <1>1, <1>5, <1>6, <1>7, <1>8, <1>9, <1>10, <1>11

\* The bridge's tasks.
TaskStep ==
    \/ EchoExpires
    \/ \E r \in requests : Approve(r)
    \/ \E t \in Tasks :
          \/ \E op \in Sends, x \in Texts : Prompt(t, op, x)
          \/ Cancel(t) \/ Attach(t) \/ Close(t) \/ Retry(t) \/ GivesUp(t)
          \/ Sent(t) \/ SendFails(t) \/ Fails(t)
          \/ Resumed(t) \/ Hydrated(t) \/ Interrupted(t) \/ Unsubscribed(t)

LEMMA BeganIsCall ==
  ASSUME NEW p \in Nat, NEW op \in Ops \ Sends, NEW turn \in Turns(p)
  PROVE  Began(op, 0, None, turn) \in Call(p) /\ Began(op, 0, None, turn).op = op
<1>1. 0 \in Turns(p) /\ turn \in Nat
  BY DEF Turns
<1> QED
  BY <1>1 DEF Began, Idle, Call, Doing, Told, Ops, Words

LEMMA TaskShape ==
  ASSUME CodexAssumption, Shape, TaskStep
  PROVE  Shape'
<1>1. /\ prompts \in Nat /\ at \in [Tasks -> Call(prompts)] /\ up \in Seq(Sending(prompts))
      /\ prompts \in 0 .. MaxPrompts /\ MaxPrompts \in Nat
      /\ active \in Turns(prompts) /\ 0 \in Turns(prompts)
      /\ child \in {None, "running", "completed"} /\ seen \subseteq Given(prompts)
      /\ requests \subseteq {1} /\ echoes \subseteq [n : Given(prompts), text : Texts]
      /\ raced \subseteq {"turn", "child", "closed", "lost"}
      /\ created \in BOOLEAN /\ slipped \subseteq Texts
  BY DEF Shape, Turns, CodexAssumption
<1>2. \A t \in Tasks : /\ at[t].turn \in Turns(prompts) /\ at[t].op \in Ops /\ at[t].child \in Words
                       /\ at[t].op \in Sends => at[t].text \in Texts
                       /\ at[t].moved \subseteq {"turn", "child", "second"}
                       /\ at[t].tries \in Nat
  BY <1>1 DEF Call, Doing, Told
<1>3. ASSUME at' \in [Tasks -> Call(prompts)], up' \in Seq(Sending(prompts)), Still,
             active' \in Turns(prompts),
             child' \in {None, "running", "completed"}, seen' \subseteq Given(prompts),
             requests' \subseteq {1}, created' \in BOOLEAN, slipped' \subseteq Texts,
             echoes' \subseteq [n : Given(prompts), text : Texts], UNCHANGED debt,
             raced' \subseteq {"turn", "child", "closed", "lost"}
      PROVE  Shape'
  BY <1>3 DEF Shape, Still, server
\* A task asks for something, or has come to an end.
<1>4. ASSUME NEW t \in Tasks, NEW a \in Call(prompts), Request(t, a), Still
      PROVE  at' \in [Tasks -> Call(prompts)] /\ up' \in Seq(Sending(prompts))
  BY <1>1, <1>4, ItAsks, AskingShape DEF Still
<1>5. ASSUME NEW t \in Tasks, Finish(t)
      PROVE  at' \in [Tasks -> Call(prompts)] /\ up' \in Seq(Sending(prompts))
  BY <1>1, <1>5, BecomeShape DEF Finish
<1>6. CASE EchoExpires
  <2>1. Oldest(echoes) \in echoes
    BY <1>1, <1>6, OldestIs DEF EchoExpires
  <2>2. slipped' \subseteq Texts
    BY <1>1, <1>6, <2>1 DEF EchoExpires
  <2> QED
    BY <1>6, <2>2 DEF EchoExpires, Shape, server, view
<1>7. ASSUME NEW r \in requests, Approve(r) PROVE Shape'
  <2> DEFINE q == [by |-> None, op |-> "approve", n |-> r, text |-> None, turn |-> 0]
  <2>1. q \in Sending(prompts)
    BY <1>1 DEF Sending, Told, Callers, Sends
  <2>2. up' \in Seq(Sending(prompts))
    BY <1>1, <1>7, <2>1 DEF Approve
  <2>3. requests' \subseteq {1}
    BY <1>1, <1>7 DEF Approve, Taken
  <2> QED
    BY <1>1, <1>3, <1>7, <2>2, <2>3 DEF Approve, Steady, ledger
<1>8. ASSUME NEW t \in Tasks, NEW op \in Sends, NEW x \in Texts, Prompt(t, op, x) PROVE Shape'
  <2>1. /\ prompts < MaxPrompts /\ prompts' = prompts + 1 /\ (op = "steer" => active # 0)
        /\ echoes' = Expects(prompts + 1, x)
        /\ Request(t, Began(op, prompts + 1, x, IF op = "steer" THEN active ELSE 0))
        /\ UNCHANGED <<thread, ran, pipe, link, troubles, holder, ready, view, debt,
                       slipped, raced>>
    BY <1>8 DEF Prompt
  <2> DEFINE n == prompts + 1
             a == Began(op, n, x, IF op = "steer" THEN active ELSE 0)
  <2>2. /\ n \in Nat /\ n \in 0 .. MaxPrompts /\ n \in Given(n) /\ n \in Turns(n)
        /\ active \in Turns(n) /\ 0 \in Turns(n) /\ seen \subseteq Given(n)
        /\ active \in Nat
    BY <1>1, <2>1 DEF Given, Turns
  <2>3. /\ thread \in Thread(n) /\ at \in [Tasks -> Call(n)]
        /\ echoes \subseteq [n : Given(n), text : Texts]
    BY <1>1, Grown DEF Shape
  <2>4. up \in Seq(Sending(n)) /\ pipe \in Seq(Frames(n))
    <3>1. pipe \in Seq(Frames(prompts))
      BY DEF Shape
    <3> QED
      BY <1>1, <3>1, Grown
  <2>5. a \in Call(n)
    <3>1. (IF op = "steer" THEN active ELSE 0) \in Turns(n) \cap Nat
      BY <2>2
    <3>2. op \in Ops /\ x \in Texts
      BY DEF Sends, Ops
    <3> QED
      BY <2>2, <3>1, <3>2 DEF Began, Idle, Call, Doing, Told, Words
  <2>6. echoes' \subseteq [n : Given(n), text : Texts]
    BY <2>1, <2>2, <2>3 DEF Expects
  <2> HIDE DEF n, a
  <2>7. Request(t, a) /\ link' = link /\ prompts' = n
    BY <2>1 DEF a, n
  <2>8. at' \in [Tasks -> Call(n)] /\ up' \in Seq(Sending(n))
    <3>1. Asking(t, a)
      BY <2>7, ItAsks
    <3> QED
      BY <2>3, <2>4, <2>5, <3>1, AskingShape
  <2> QED
    BY <2>1, <2>2, <2>3, <2>4, <2>6, <2>7, <2>8 DEF Shape, view
<1>9. ASSUME NEW t \in Tasks, Cancel(t) \/ Attach(t) \/ Close(t) PROVE Shape'
  <2>1. /\ Began("cancel", 0, None, active) \in Call(prompts)
        /\ Began("attach", 0, None, 0) \in Call(prompts)
        /\ Began("interrupt", 0, None, active) \in Call(prompts)
        /\ Began("unsubscribe", 0, None, active) \in Call(prompts)
    BY <1>1, BeganIsCall DEF Ops, Sends
  <2>2. /\ \E a \in Call(prompts) : Request(t, a)
        /\ Still /\ UNCHANGED <<view, ledger>>
        /\ raced' \subseteq raced \union {"closed"}
    <3>1. CASE Cancel(t)
      BY <2>1, <3>1 DEF Cancel
    <3>2. CASE Attach(t)
      BY <2>1, <3>2 DEF Attach
    <3>3. CASE Close(t)
      <4>1. Began(IF active # 0 THEN "interrupt" ELSE "unsubscribe", 0, None, active) \in Call(prompts)
        BY <2>1
      <4> QED
        BY <3>3, <4>1 DEF Close
    <3> QED
      BY <1>9, <3>1, <3>2, <3>3
  <2>3. at' \in [Tasks -> Call(prompts)] /\ up' \in Seq(Sending(prompts))
    BY <1>4, <2>2
  <2> QED
    BY <1>1, <1>3, <2>2, <2>3 DEF view, ledger
<1>10. ASSUME NEW t \in Tasks, Retry(t) \/ GivesUp(t) PROVE Shape'
  <2>1. [at[t] EXCEPT !.tries = @ + 1] \in Call(prompts)
    <3>1. at[t] \in Call(prompts) /\ at[t].tries + 1 \in Nat
      BY <1>1, <1>2
    <3> QED
      BY <3>1 DEF Call, Doing, Told
  <2>2. Still /\ UNCHANGED <<view, ledger, raced>>
    BY <1>10 DEF Retry, GivesUp, Steady
  <2>3. at' \in [Tasks -> Call(prompts)] /\ up' \in Seq(Sending(prompts))
    BY <1>1, <1>4, <1>10, <2>1, <2>2, BecomeShape DEF Retry, GivesUp
  <2> QED
    BY <1>1, <1>3, <2>2, <2>3 DEF view, ledger
<1>11. ASSUME NEW t \in Tasks, Sent(t) \/ SendFails(t) \/ Fails(t) \/ Hydrated(t) PROVE Shape'
  <2>1. Finish(t) /\ Still
    BY <1>11 DEF Sent, SendFails, Fails, Hydrated, Hydrate, Steady
  <2>2. at' \in [Tasks -> Call(prompts)] /\ up' \in Seq(Sending(prompts))
    BY <1>5, <2>1
  <2>3. CASE Sent(t)
    <3>1. active' \in Turns(prompts) /\ raced' \subseteq raced \union {"turn"}
      <4>1. CASE at[t].op = "send"
        BY <1>2, <2>3, <4>1 DEF Sent
      <4>2. CASE at[t].op # "send"
        BY <1>1, <2>3, <4>2 DEF Sent
      <4> QED
        BY <4>1, <4>2
    <3> QED
      BY <1>1, <1>3, <2>1, <2>2, <2>3, <3>1 DEF Sent, ledger
  <2>4. CASE SendFails(t)
    <3>1. echoes' \subseteq echoes /\ slipped' \subseteq Texts
      BY <1>1, <1>2, <2>4 DEF SendFails, Forgotten
    <3> QED
      BY <1>1, <1>3, <2>1, <2>2, <2>4, <3>1 DEF SendFails, view
  <2>5. CASE Fails(t)
    <3>1. raced' \subseteq raced \union {"turn", "child", "closed"}
      BY <2>5 DEF Fails
    <3> QED
      BY <1>1, <1>3, <2>1, <2>2, <2>5, <3>1 DEF Fails, view, ledger
  <2>6. CASE Hydrated(t)
    <3>1. /\ child' = IF at[t].child = None THEN child ELSE StatusOf(at[t].child)
          /\ raced' \subseteq raced \union {"child"}
      BY <2>6 DEF Hydrated, Hydrate
    <3>2. child' \in {None, "running", "completed"}
      BY <1>1, <1>2, <3>1 DEF StatusOf, Words
    <3> QED
      BY <1>1, <1>3, <2>1, <2>2, <2>6, <3>1, <3>2 DEF Hydrated, ledger
  <2> QED
    BY <1>11, <2>3, <2>4, <2>5, <2>6
<1>12. ASSUME NEW t \in Tasks, Resumed(t) PROVE Shape'
  <2> DEFINE a == [at[t] EXCEPT !.op = "items", !.tries = 0, !.moved = @ \ {"second"}]
  <2>1. a \in Call(prompts)
    <3>1. at[t] \in Call(prompts) /\ at[t].moved \ {"second"} \subseteq {"turn", "child", "second"}
      BY <1>1, <1>2
    <3> QED
      BY <3>1 DEF Call, Doing, Told, Ops, Sends
  <2>2. Request(t, a) \/ Finish(t)
    BY <1>12 DEF Resumed
  <2>3. at' \in [Tasks -> Call(prompts)] /\ up' \in Seq(Sending(prompts))
    BY <1>4, <1>5, <1>12, <2>1, <2>2 DEF Resumed, Steady
  <2>4. child' = child \/ (child' = StatusOf(at[t].child) /\ at[t].child # None)
    BY <1>12 DEF Resumed
  <2>5. child' \in {None, "running", "completed"}
    BY <1>1, <1>2, <2>4 DEF StatusOf, Words
  <2>6. raced' \subseteq raced \union {"turn", "child"} /\ active' \in Turns(prompts)
    BY <1>2, <1>12 DEF Resumed, Snapshot
  <2> QED
    BY <1>1, <1>3, <1>12, <2>3, <2>5, <2>6 DEF Resumed, Steady, ledger
<1>13. ASSUME NEW t \in Tasks, Interrupted(t) PROVE Shape'
  <2> DEFINE a == [at[t] EXCEPT !.op = "unsubscribe", !.tries = 0, !.moved = {}]
  <2>1. a \in Call(prompts)
    <3>1. at[t] \in Call(prompts)
      BY <1>1
    <3> QED
      BY <3>1 DEF Call, Doing, Told, Ops, Sends
  <2>2. (Request(t, a) \/ Finish(t)) /\ active' \in Turns(prompts)
    BY <1>1, <1>13 DEF Interrupted
  <2>3. at' \in [Tasks -> Call(prompts)] /\ up' \in Seq(Sending(prompts))
    BY <1>4, <1>5, <1>13, <2>1, <2>2 DEF Interrupted, Steady
  <2> QED
    BY <1>1, <1>3, <1>13, <2>2, <2>3 DEF Interrupted, Steady, ledger
<1>14. ASSUME NEW t \in Tasks, Unsubscribed(t) PROVE Shape'
  <2>1. at' \in [Tasks -> Call(prompts)] /\ up' \in Seq(Sending(prompts))
    BY <1>5, <1>14 DEF Unsubscribed
  <2>2. slipped' \subseteq Texts
    BY <1>1, <1>14 DEF Unsubscribed
  <2> QED
    BY <1>1, <1>3, <1>14, <2>1, <2>2 DEF Unsubscribed, NoEchoes, Steady
<1> QED
  BY <1>6, <1>7, <1>8, <1>9, <1>10, <1>11, <1>12, <1>13, <1>14 DEF TaskStep

LEMMA NextSteps ==
  ASSUME Next
  PROVE  \/ Delegate \/ AskApproval \/ TuiApproves \/ EndTurn \/ (\E x \in Texts : Type(x))
         \/ ServerTakes
         \/ Drop \/ (\E t \in Tasks : Dial(t) \/ DialFails(t) \/ Greeted(t) \/ Connected(t)
                                      \/ TimesOut(t))
         \/ Handle \/ TaskStep
  BY DEF Next, TaskStep

LEMMA ShapeKept ==
  ASSUME CodexAssumption, Shape, [Next]_vars
  PROVE  Shape'
<1>1. CASE Next
  BY <1>1, NextSteps, ServerShape, LinkShape, ReaderShape, TaskShape
<1>2. CASE UNCHANGED vars
  BY <1>2 DEF vars, server, line, view, ledger, Shape
<1> QED
  BY <1>1, <1>2

-----------------------------------------------------------------------------
(* Requests and answers                                                    *)

LEMMA NewsAdded ==
  ASSUME NEW p, NEW s \in Seq(Frames(p)), NEW w \in Seq(News(p))
  PROVE  /\ s \o w \in Seq(Frames(p))
         /\ \A i \in DOMAIN s : i \in DOMAIN (s \o w) /\ (s \o w)[i] = s[i]
         /\ \A i \in DOMAIN (s \o w) : \A t : IsTo((s \o w)[i], t) => i \in DOMAIN s
<1>1. w \in Seq(Frames(p)) /\ \A i \in DOMAIN w : w[i] \in News(p)
  BY DEF Frames
<1>2. \A i \in DOMAIN w : \A t : ~IsTo(w[i], t)
  BY <1>1, FrameKinds DEF IsTo, Frames
<1> QED
  BY <1>1, <1>2, Joined

\* P is s, with the answer a at k, and news.
AnswerAt(p, s, a, P, k) ==
    /\ P \in Seq(Frames(p)) /\ k \in DOMAIN P /\ k \notin DOMAIN s /\ P[k] = a
    /\ \A i \in DOMAIN s : i \in DOMAIN P /\ P[i] = s[i]
    /\ \A i \in DOMAIN P : \A t : IsTo(P[i], t) => i \in DOMAIN s \/ i = k

LEMMA AnswerAdded ==
  ASSUME NEW p, NEW s \in Seq(Frames(p)), NEW w \in Seq(News(p)), NEW a \in Answers(p),
         NEW P, P = (s \o << a >>) \o w \/ P = (s \o w) \o << a >>
  PROVE  \E k \in DOMAIN P : AnswerAt(p, s, a, P, k)
<1>1. << a >> \in Seq(Frames(p)) /\ DOMAIN << a >> = {1} /\ << a >>[1] = a
  BY DEF Frames
<1>2. CASE P = (s \o << a >>) \o w
  <2> DEFINE u == s \o << a >>
  <2>1. /\ u \in Seq(Frames(p)) /\ Len(s) + 1 \in DOMAIN u /\ Len(s) + 1 \notin DOMAIN s
        /\ u[Len(s) + 1] = a /\ \A i \in DOMAIN s : i \in DOMAIN u /\ u[i] = s[i]
        /\ \A i \in DOMAIN u : i \in DOMAIN s \/ i = Len(s) + 1
    BY <1>1, Joined
  <2> HIDE DEF u
  <2>2. /\ u \o w \in Seq(Frames(p))
        /\ \A i \in DOMAIN u : i \in DOMAIN (u \o w) /\ (u \o w)[i] = u[i]
        /\ \A i \in DOMAIN (u \o w) : \A t : IsTo((u \o w)[i], t) => i \in DOMAIN u
    BY <2>1, NewsAdded
  <2>3. AnswerAt(p, s, a, u \o w, Len(s) + 1) /\ Len(s) + 1 \in DOMAIN (u \o w)
    BY <2>1, <2>2 DEF AnswerAt
  <2> QED
    BY <1>2, <2>3 DEF u
<1>3. CASE P = (s \o w) \o << a >>
  <2> DEFINE u == s \o w
  <2>1. /\ u \in Seq(Frames(p)) /\ \A i \in DOMAIN s : i \in DOMAIN u /\ u[i] = s[i]
        /\ \A i \in DOMAIN u : \A t : IsTo(u[i], t) => i \in DOMAIN s
    BY NewsAdded
  <2> HIDE DEF u
  <2> DEFINE v == u \o << a >>
  <2>2. /\ v \in Seq(Frames(p)) /\ Len(u) + 1 \in DOMAIN v /\ Len(u) + 1 \notin DOMAIN u
        /\ v[Len(u) + 1] = a /\ \A i \in DOMAIN u : i \in DOMAIN v /\ v[i] = u[i]
        /\ \A i \in DOMAIN v : i \in DOMAIN u \/ i = Len(u) + 1
    BY <1>1, <2>1, Joined
  <2> HIDE DEF v
  <2>3. AnswerAt(p, s, a, v, Len(u) + 1)
    BY <2>1, <2>2 DEF AnswerAt
  <2> QED
    BY <1>3, <2>2, <2>3 DEF u, v
<1> QED
  BY <1>2, <1>3

\* News makes no difference to who waits.
LEMMA WaitingNews ==
  ASSUME Shape, Waiting, NEW p, pipe \in Seq(Frames(p)), NEW w \in Seq(News(p)),
         pipe' = pipe \o w, UNCHANGED <<at, up, link>>
  PROVE  Waiting'
<1>1. /\ \A i \in DOMAIN pipe : i \in DOMAIN pipe' /\ pipe'[i] = pipe[i]
      /\ \A i \in DOMAIN pipe' : \A t : IsTo(pipe'[i], t) => i \in DOMAIN pipe
  BY NewsAdded
<1>2. \A i \in DOMAIN pipe' : \A t \in Tasks : IsTo(pipe'[i], t) =>
        i \in DOMAIN pipe /\ IsTo(pipe[i], t)
  BY <1>1
<1>3. \A i \in DOMAIN pipe : \A t \in Tasks : IsTo(pipe[i], t) =>
        i \in DOMAIN pipe' /\ IsTo(pipe'[i], t)
  BY <1>1
<1> QED
  BY <1>2, <1>3, SMTT(30) DEF Waiting

LEMMA WaitingServed ==
  ASSUME Shape, Waiting, NEW q, NEW w, NEW a, Serves(q, w, a), UNCHANGED <<at, link>>
  PROVE  Waiting'
<1>1. /\ up # << >> /\ up' = Tail(up) /\ q = Head(up) /\ w \in Seq(News(prompts))
      /\ a \in Answers(prompts) /\ a.to = q.by
      /\ pipe' \in {(pipe \o << a >>) \o w, (pipe \o w) \o << a >>}
      /\ up \in Seq(Sending(prompts)) /\ pipe \in Seq(Frames(prompts))
  BY DEF Serves, Tells, Shape
<1>2. PICK k \in DOMAIN pipe' : AnswerAt(prompts, pipe, a, pipe', k)
  <2>1. w \in Seq(News(prompts))
    BY <1>1
  <2>2. a \in Answers(prompts)
    BY <1>1
  <2>3. pipe \in Seq(Frames(prompts))
    BY <1>1
  <2>4. pipe' = (pipe \o << a >>) \o w \/ pipe' = (pipe \o w) \o << a >>
    BY <1>1
  <2> QED
    BY <2>1, <2>2, <2>3, <2>4, AnswerAdded
<1>3. /\ 1 \in DOMAIN up /\ up[1] = q
      /\ \A i \in DOMAIN up' : i + 1 \in DOMAIN up /\ i + 1 # 1 /\ up'[i] = up[i + 1]
      /\ \A i, j \in DOMAIN up' : i + 1 = j + 1 => i = j
      /\ \A i \in DOMAIN up : i = 1 \/ \E j \in DOMAIN up' : i = j + 1
  BY <1>1, Popped
<1>4. \A t : IsTo(a, t) <=> t = q.by
  BY <1>1, FrameKinds DEF IsTo, Frames
<1>5. \A t \in Tasks : IsTo(pipe'[k], t) => t = q.by
  BY <1>2, <1>4 DEF AnswerAt
<1>6. ASSUME NEW t \in Tasks, at[t].pc = "asked"
      PROVE  /\ link # "down"
             /\ \/ \E i \in DOMAIN up' : up'[i].by = t
                \/ \E i \in DOMAIN pipe' : IsTo(pipe'[i], t)
  <2>1. link # "down"
    BY <1>6 DEF Waiting
  <2>2. CASE \E i \in DOMAIN pipe : IsTo(pipe[i], t)
    BY <1>2, <2>1, <2>2 DEF AnswerAt
  <2>3. CASE \E i \in DOMAIN up : up[i].by = t
    <3>1. PICK i \in DOMAIN up : up[i].by = t
      BY <2>3
    <3>2. CASE i = 1
      BY <1>2, <1>3, <1>4, <2>1, <3>1, <3>2 DEF AnswerAt
    <3>3. CASE \E j \in DOMAIN up' : i = j + 1
      BY <1>3, <2>1, <3>1, <3>3
    <3> QED
      BY <1>3, <3>2, <3>3
  <2> QED
    BY <1>6, <2>2, <2>3 DEF Waiting
<1>7. ASSUME NEW t \in Tasks, NEW i \in DOMAIN up', up'[i].by = t
      PROVE  /\ at[t].pc = "asked" /\ at[t].op = up'[i].op /\ at[t].n = up'[i].n
             /\ at[t].text = up'[i].text
             /\ \A j \in DOMAIN pipe' : ~IsTo(pipe'[j], t)
             /\ \A j \in DOMAIN up' : up'[j].by = t => i = j
  <2>1. /\ i + 1 \in DOMAIN up /\ up[i + 1].by = t /\ up'[i] = up[i + 1] /\ i + 1 # 1
    BY <1>3, <1>7
  <2>2. /\ at[t].pc = "asked" /\ at[t].op = up[i + 1].op /\ at[t].n = up[i + 1].n
        /\ at[t].text = up[i + 1].text
        /\ \A j \in DOMAIN pipe : ~IsTo(pipe[j], t)
        /\ \A j \in DOMAIN up : up[j].by = t => i + 1 = j
    BY <2>1 DEF Waiting
  <2>3. q.by # t
    BY <1>3, <2>1, <2>2
  <2>4. \A j \in DOMAIN pipe' : ~IsTo(pipe'[j], t)
    BY <1>2, <1>5, <2>2, <2>3 DEF AnswerAt
  <2>5. \A j \in DOMAIN up' : up'[j].by = t => i = j
    BY <1>3, <2>2
  <2> QED
    BY <2>1, <2>2, <2>4, <2>5
<1>8. ASSUME NEW t \in Tasks, NEW i \in DOMAIN pipe', IsTo(pipe'[i], t)
      PROVE  at[t].pc = "asked" /\ \A j \in DOMAIN pipe' : IsTo(pipe'[j], t) => i = j
  <2>1. CASE q.by = t
    <3>1. at[t].pc = "asked" /\ \A j \in DOMAIN pipe : ~IsTo(pipe[j], t)
      BY <1>3, <2>1 DEF Waiting
    <3>2. \A j \in DOMAIN pipe' : IsTo(pipe'[j], t) => j = k
      BY <1>2, <3>1 DEF AnswerAt
    <3> QED
      BY <1>8, <3>1, <3>2
  <2>2. CASE q.by # t
    <3>1. \A j \in DOMAIN pipe' : IsTo(pipe'[j], t) => j \in DOMAIN pipe /\ pipe'[j] = pipe[j]
      BY <1>2, <1>5, <2>2 DEF AnswerAt
    <3> QED
      BY <1>8, <3>1 DEF Waiting
  <2> QED
    BY <2>1, <2>2
<1> QED
  BY <1>6, <1>7, <1>8 DEF Waiting

\* A task that was not waiting asks, or does not.
LEMMA WaitingAsks ==
  ASSUME Waiting, NEW p, at \in [Tasks -> Call(p)], up \in Seq(Sending(p)),
         NEW t \in Tasks, at[t].pc # "asked", NEW a \in Call(p), Asking(t, a),
         pipe' = pipe, link # "down" => link' # "down"
  PROVE  Waiting'
<1>1. /\ \A i \in DOMAIN up : up[i].by # t
      /\ \A i \in DOMAIN pipe : ~IsTo(pipe[i], t)
  BY DEF Waiting
<1>2. \A u \in Tasks : u # t => at'[u] = at[u]
  BY DEF Asking
<1>3. CASE at' = [at EXCEPT ![t] = [a EXCEPT !.pc = "connecting"]] /\ up' = up
  <2>1. at'[t].pc = "connecting"
    BY <1>3 DEF Call, Doing
  <2>2. \A u \in Tasks : at'[u].pc = "asked" => u # t
    BY <2>1
  <2>3. \A u \in Tasks : \A i \in DOMAIN up : up[i].by = u => u # t
    BY <1>1
  <2>4. \A u \in Tasks : \A i \in DOMAIN pipe : IsTo(pipe[i], u) => u # t
    BY <1>1
  <2> QED
    BY <1>2, <1>3, <2>2, <2>3, <2>4 DEF Waiting
<1>4. CASE /\ at' = [at EXCEPT ![t] = [a EXCEPT !.pc = "asked"]]
           /\ up' = Append(up, [by |-> t, op |-> a.op, n |-> a.n, text |-> a.text,
                                turn |-> a.turn])
           /\ link' # "down"
  <2> DEFINE q == [by |-> t, op |-> a.op, n |-> a.n, text |-> a.text, turn |-> a.turn]
  <2>1. at'[t].pc = "asked" /\ at'[t].op = q.op /\ at'[t].n = q.n /\ at'[t].text = q.text
        /\ q.by = t
    BY <1>4 DEF Call, Doing
  <2>2. /\ Len(up) + 1 \in DOMAIN up' /\ up'[Len(up) + 1] = q
        /\ \A i \in DOMAIN up : i \in DOMAIN up' /\ up'[i] = up[i]
        /\ \A i \in DOMAIN up' : i \in DOMAIN up \/ i = Len(up) + 1
    BY <1>4
  <2> HIDE DEF q
  <2>3. \A u \in Tasks : at'[u].pc = "asked" =>
          /\ link' # "down"
          /\ \/ \E i \in DOMAIN up' : up'[i].by = u
             \/ \E i \in DOMAIN pipe' : IsTo(pipe'[i], u)
    BY <1>2, <1>4, <2>1, <2>2 DEF Waiting
  <2>4. ASSUME NEW u \in Tasks, NEW i \in DOMAIN up', up'[i].by = u
        PROVE  /\ at'[u].pc = "asked" /\ at'[u].op = up'[i].op /\ at'[u].n = up'[i].n
               /\ at'[u].text = up'[i].text
               /\ \A j \in DOMAIN pipe' : ~IsTo(pipe'[j], u)
               /\ \A j \in DOMAIN up' : up'[j].by = u => i = j
    <3>1. CASE u = t
      <4>1. \A j \in DOMAIN up' : up'[j].by = u => j = Len(up) + 1
        BY <1>1, <2>2, <3>1
      <4> QED
        BY <1>1, <2>1, <2>2, <2>4, <3>1, <4>1
    <3>2. CASE u # t
      <4>1. \A j \in DOMAIN up' : up'[j].by = u => j \in DOMAIN up /\ up'[j] = up[j]
        BY <2>1, <2>2, <3>2
      <4> QED
        BY <1>2, <2>4, <3>2, <4>1 DEF Waiting
    <3> QED
      BY <3>1, <3>2
  <2>5. \A u \in Tasks : \A i \in DOMAIN pipe' : IsTo(pipe'[i], u) =>
          at'[u].pc = "asked" /\ \A j \in DOMAIN pipe' : IsTo(pipe'[j], u) => i = j
    BY <1>1, <1>2 DEF Waiting
  <2> QED
    BY <2>3, <2>4, <2>5 DEF Waiting
<1> QED
  BY <1>3, <1>4 DEF Asking

\* Tasks that do not wait go on.
LEMMA WaitingOther ==
  ASSUME Waiting, UNCHANGED <<up, pipe>>, link # "down" => link' # "down",
         \A t \in Tasks : \/ /\ at'[t].pc = at[t].pc /\ at'[t].op = at[t].op
                             /\ at'[t].n = at[t].n /\ at'[t].text = at[t].text
                          \/ at[t].pc # "asked" /\ at'[t].pc # "asked"
  PROVE  Waiting'
<1>1. \A t \in Tasks : at[t].pc = "asked" <=> at'[t].pc = "asked"
  OBVIOUS
<1>2. \A t \in Tasks : at[t].pc = "asked" =>
         at'[t].op = at[t].op /\ at'[t].n = at[t].n /\ at'[t].text = at[t].text
  OBVIOUS
<1> QED
  BY <1>1, <1>2 DEF Waiting

LEMMA WaitingApproves ==
  ASSUME Shape, Waiting, NEW r \in requests, Approve(r)
  PROVE  Waiting'
<1>1. UNCHANGED <<at, pipe, link>>
  BY DEF Approve, Steady, Still
<1>2. CASE link = "down"
  BY <1>1, <1>2 DEF Approve, Waiting
<1>3. CASE link # "down"
  <2> DEFINE q == [by |-> None, op |-> "approve", n |-> r, text |-> None, turn |-> 0]
  <2>1. up' = Append(up, q) /\ \A t \in Tasks : q.by # t
    BY <1>3 DEF Approve, Tasks, None
  <2> HIDE DEF q
  <2>2. /\ \A i \in DOMAIN up : i \in DOMAIN up' /\ up'[i] = up[i]
        /\ \A i \in DOMAIN up' : \A t \in Tasks : up'[i].by = t => i \in DOMAIN up
    <3>1. up \in Seq(Sending(prompts))
      BY DEF Shape
    <3>2. /\ \A i \in DOMAIN up : i \in DOMAIN up' /\ up'[i] = up[i]
          /\ \A i \in DOMAIN up' : i \in DOMAIN up \/ up'[i] = q
      BY <2>1, <3>1
    <3> QED
      BY <2>1, <3>2
  <2> QED
    BY <1>1, <2>2 DEF Waiting
<1> QED
  BY <1>2, <1>3

LEMMA WaitingApproved ==
  ASSUME Shape, Waiting, NEW q, NEW w, Approved(q, w), q.by \notin Tasks, UNCHANGED <<at, link>>
  PROVE  Waiting'
<1>1. /\ up # << >> /\ up' = Tail(up) /\ q = Head(up) /\ w \in Seq(News(prompts))
      /\ pipe' = pipe \o w
      /\ up \in Seq(Sending(prompts)) /\ pipe \in Seq(Frames(prompts))
  BY DEF Approved, Tells, Shape
<1>2. /\ \A i \in DOMAIN pipe : i \in DOMAIN pipe' /\ pipe'[i] = pipe[i]
      /\ \A i \in DOMAIN pipe' : \A t : IsTo(pipe'[i], t) => i \in DOMAIN pipe
  BY <1>1, NewsAdded
<1>3. /\ 1 \in DOMAIN up /\ up[1] = q
      /\ \A i \in DOMAIN up' : i + 1 \in DOMAIN up /\ i + 1 # 1 /\ up'[i] = up[i + 1]
      /\ \A i, j \in DOMAIN up' : i + 1 = j + 1 => i = j
      /\ \A i \in DOMAIN up : i = 1 \/ \E j \in DOMAIN up' : i = j + 1
  BY <1>1, Popped
<1>4. \A i \in DOMAIN pipe' : \A t \in Tasks : IsTo(pipe'[i], t) =>
        i \in DOMAIN pipe /\ IsTo(pipe[i], t)
  BY <1>2
<1>5. \A i \in DOMAIN pipe : \A t \in Tasks : IsTo(pipe[i], t) =>
        i \in DOMAIN pipe' /\ IsTo(pipe'[i], t)
  BY <1>2
<1>6. \A t \in Tasks : \A i \in DOMAIN up : up[i].by = t => \E j \in DOMAIN up' : i = j + 1
  BY <1>3
<1>7. ASSUME NEW t \in Tasks, at[t].pc = "asked"
      PROVE  /\ link # "down"
             /\ \/ \E i \in DOMAIN up' : up'[i].by = t
                \/ \E i \in DOMAIN pipe' : IsTo(pipe'[i], t)
  BY <1>3, <1>5, <1>6, <1>7 DEF Waiting
<1>8. ASSUME NEW t \in Tasks, NEW i \in DOMAIN up', up'[i].by = t
      PROVE  /\ at[t].pc = "asked" /\ at[t].op = up'[i].op /\ at[t].n = up'[i].n
             /\ at[t].text = up'[i].text
             /\ \A j \in DOMAIN pipe' : ~IsTo(pipe'[j], t)
             /\ \A j \in DOMAIN up' : up'[j].by = t => i = j
  <2>1. i + 1 \in DOMAIN up /\ up[i + 1].by = t /\ up'[i] = up[i + 1]
    BY <1>3, <1>8
  <2>2. /\ at[t].pc = "asked" /\ at[t].op = up[i + 1].op /\ at[t].n = up[i + 1].n
        /\ at[t].text = up[i + 1].text
        /\ \A j \in DOMAIN pipe : ~IsTo(pipe[j], t)
        /\ \A j \in DOMAIN up : up[j].by = t => i + 1 = j
    BY <2>1 DEF Waiting
  <2> QED
    BY <1>3, <1>4, <2>1, <2>2
<1>9. \A t \in Tasks : \A i \in DOMAIN pipe' : IsTo(pipe'[i], t) =>
        at[t].pc = "asked" /\ \A j \in DOMAIN pipe' : IsTo(pipe'[j], t) => i = j
  BY <1>4 DEF Waiting
<1> QED
  BY <1>7, <1>8, <1>9 DEF Waiting

-----------------------------------------------------------------------------
(* The tasks ask, or they have come to an end                              *)

ClosingOps == {"interrupt", "unsubscribe"}
NotClosed  == "closed" \notin raced

\* What t asks for now: a prompt that is new, what is no prompt, or what an
\* overloaded server did not take.  A task that was idle has begun a call, of
\* a thread that nobody closes.
AsksPrompt(t, a) ==
    /\ prompts' = prompts + 1 /\ prompts' \in Given(MaxPrompts)
    /\ t = "worker" /\ at[t] = Idle /\ a.n = prompts' /\ a.op \in Sends /\ a.text \in Texts
    /\ echoes' = Expects(prompts', a.text)
AsksOther(t, a) ==
    /\ prompts' = prompts /\ a.op \notin Sends /\ at[t].op \notin Sends /\ echoes' = echoes
    /\ a.op \in ClosingOps => t = "worker" \/ at[t].op \in ClosingOps
    /\ a.op \in ClosingOps /\ NotClosed' =>
         at[t].op \in ClosingOps \/ \A u \in Tasks : u # t => at[u].pc = "idle"
AsksAgain(t, a) ==
    /\ prompts' = prompts /\ echoes' = echoes /\ at[t].pc \in {"overloaded", "connecting"}
    /\ a.op = at[t].op /\ a.n = at[t].n /\ a.text = at[t].text

TaskAsks(t, a) ==
    /\ at[t].pc # "asked" /\ a \in Call(prompts') /\ Asking(t, a)
    /\ UNCHANGED <<pipe, ran, thread, seen, debt, slipped, created>>
    /\ link # "down" => link' # "down"
    /\ NotClosed' => NotClosed
    /\ at[t].pc = "idle" => created /\ \A u \in Tasks : at[u].op \notin ClosingOps
    /\ AsksPrompt(t, a) \/ AsksOther(t, a) \/ AsksAgain(t, a)

\* A call has come to an end, or was given up.
Keeps(t) ==
    /\ UNCHANGED <<echoes, seen, slipped, created>>
    /\ at[t].op \in Sends => at[t].pc \in {"answered", "overloaded"}
TaskEnds(t) ==
    /\ UNCHANGED <<up, pipe, link, ran, prompts, thread, debt>>
    /\ NotClosed' => NotClosed
    /\ at[t].pc \in {"answered", "failed", "error", "overloaded"}
    /\ Keeps(t) \/ SendFails(t) \/ Unsubscribed(t)
    /\ \/ at' = [at EXCEPT ![t] = Idle] /\ at[t].pc # "overloaded"
       \/ at[t].pc = "overloaded" /\ at' = Become(t, "error")

LEMMA TasksAskOrEnd ==
  ASSUME CodexAssumption, Shape, TaskStep
  PROVE  \/ EchoExpires \/ \E r \in requests : Approve(r)
         \/ \E t \in Tasks : (\E a : TaskAsks(t, a)) \/ TaskEnds(t)
<1>1. /\ prompts \in Nat /\ at \in [Tasks -> Call(prompts)]
      /\ prompts \in 0 .. MaxPrompts /\ MaxPrompts \in Nat
      /\ active \in Turns(prompts) /\ 0 \in Turns(prompts)
  BY DEF Shape, Turns, CodexAssumption
<1>2. \A t \in Tasks : /\ at[t] \in Call(prompts)
                       /\ at[t].moved \subseteq {"turn", "child", "second"}
                       /\ at[t].tries \in Nat
  BY <1>1 DEF Call, Doing
<1>3. Idle.pc = "idle" /\ Idle.op \notin Sends
  BY DEF Idle, Sends, None
<1>4. ASSUME NEW t \in Tasks, NEW a \in Call(prompts), Request(t, a), Still,
             UNCHANGED <<seen, debt, slipped, created, echoes>>, NotClosed' => NotClosed,
             at[t].pc # "asked", a.op \notin Sends, at[t].op \notin Sends,
             at[t].pc = "idle" => created /\ \A u \in Tasks : at[u].op \notin ClosingOps,
             a.op \in ClosingOps => t = "worker" \/ at[t].op \in ClosingOps,
             a.op \in ClosingOps /\ NotClosed' =>
                at[t].op \in ClosingOps \/ \A u \in Tasks : u # t => at[u].pc = "idle"
      PROVE  TaskAsks(t, a)
  <2>1. Asking(t, a) /\ UNCHANGED <<pipe, ran, thread, prompts, link>>
    BY <1>4, ItAsks DEF Still, server
  <2>2. AsksOther(t, a)
    BY <1>4, <2>1 DEF AsksOther
  <2> QED
    BY <1>4, <2>1, <2>2 DEF TaskAsks
<1>5. ASSUME NEW t \in Tasks, Finish(t), Still, debt' = debt, NotClosed' => NotClosed,
             Keeps(t) \/ SendFails(t) \/ Unsubscribed(t),
             at[t].pc \in {"answered", "failed", "error"}
      PROVE  TaskEnds(t)
  BY <1>5 DEF TaskEnds, Finish, Still, server
\* A call begins.
<1>51. ASSUME NEW t, May(t)
       PROVE  /\ at[t].pc = "idle" /\ at[t].op \notin Sends
              /\ created /\ \A u \in Tasks : at[u].op \notin ClosingOps
  BY <1>3, <1>51 DEF May, Closing, ClosingOps
<1>6. ASSUME NEW t \in Tasks, NEW op \in Sends, NEW x \in Texts, Prompt(t, op, x)
      PROVE  \E a : TaskAsks(t, a)
  <2> DEFINE n == prompts + 1
             a == Began(op, n, x, IF op = "steer" THEN active ELSE 0)
  <2>1. /\ prompts < MaxPrompts /\ prompts' = n /\ t = "worker" /\ at[t] = Idle
        /\ Request(t, a) /\ UNCHANGED <<link, pipe, ran, thread, seen, debt, slipped, created>>
        /\ echoes' = Expects(n, x) /\ raced' = raced /\ May(t)
    BY <1>6 DEF Prompt, May, view
  <2>2. /\ n \in Nat /\ n \in Given(MaxPrompts) /\ n \in Given(n) /\ n \in Turns(n)
        /\ active \in Turns(n) /\ 0 \in Turns(n) /\ active \in Nat
    BY <1>1, <2>1 DEF Given, Turns
  <2>3. a \in Call(n) /\ a.n = n /\ a.op \in Sends /\ a.text = x
    <3>1. (IF op = "steer" THEN active ELSE 0) \in Turns(n) \cap Nat
      BY <2>2
    <3>2. op \in Ops /\ x \in Texts
      BY DEF Sends, Ops
    <3> QED
      BY <2>2, <3>1, <3>2 DEF Began, Idle, Call, Doing, Told, Words
  <2> HIDE DEF n, a
  <2>4. Asking(t, a)
    BY <2>1, ItAsks
  <2>5. prompts' = prompts + 1
    BY <2>1 DEF n
  <2>6. AsksPrompt(t, a)
    BY <2>1, <2>2, <2>3, <2>5 DEF AsksPrompt
  <2>7. TaskAsks(t, a)
    BY <1>51, <2>1, <2>3, <2>4, <2>6 DEF TaskAsks, NotClosed
  <2> QED
    BY <2>7
<1>7. ASSUME NEW t \in Tasks, Cancel(t) \/ Attach(t) \/ Close(t)
      PROVE  \E a : TaskAsks(t, a)
  <2>1. \A op \in {"cancel", "attach", "interrupt", "unsubscribe"} :
          \A turn \in {0, active} :
             /\ Began(op, 0, None, turn) \in Call(prompts)
             /\ Began(op, 0, None, turn).op \notin Sends
    BY <1>1, BeganIsCall DEF Ops, Sends
  <2>2. /\ May(t) /\ Still /\ UNCHANGED <<seen, debt, slipped, created, echoes>>
        /\ NotClosed' => NotClosed
    BY <1>7 DEF Cancel, Attach, Close, view, ledger, NotClosed
  <2>3. /\ at[t].pc = "idle" /\ at[t].op \notin Sends
        /\ created /\ \A u \in Tasks : at[u].op \notin ClosingOps
    BY <1>51, <2>2
  <2>4. CASE Cancel(t)
    <3> DEFINE a == Began("cancel", 0, None, active)
    <3>1. a \in Call(prompts) /\ a.op = "cancel" /\ Request(t, a)
      BY <1>1, <2>4, BeganIsCall DEF Cancel, Ops, Sends
    <3> HIDE DEF a
    <3> QED
      BY <1>4, <2>2, <2>3, <3>1 DEF Sends, ClosingOps
  <2>5. CASE Attach(t)
    <3> DEFINE a == Began("attach", 0, None, 0)
    <3>1. a \in Call(prompts) /\ a.op = "attach" /\ Request(t, a)
      BY <1>1, <2>5, BeganIsCall DEF Attach, Ops, Sends
    <3> HIDE DEF a
    <3> QED
      BY <1>4, <2>2, <2>3, <3>1 DEF Sends, ClosingOps
  <2>6. CASE Close(t)
    <3> DEFINE a == Began(IF active # 0 THEN "interrupt" ELSE "unsubscribe", 0, None, active)
    <3>1. a \in Call(prompts) /\ a.op \notin Sends
      BY <2>1
    <3>2. /\ Request(t, a) /\ t = "worker"
          /\ raced' = IF \A u \in Tasks \ {t} : at[u] = Idle
                      THEN raced ELSE raced \union {"closed"}
      BY <2>6 DEF Close
    <3>3. NotClosed' => \A u \in Tasks : u # t => at[u].pc = "idle"
      BY <1>3, <3>2 DEF NotClosed
    <3> HIDE DEF a
    <3> QED
      BY <1>4, <2>2, <2>3, <3>1, <3>2, <3>3
  <2> QED
    BY <1>7, <2>4, <2>5, <2>6
<1>8. ASSUME NEW t \in Tasks, Retry(t) PROVE \E a : TaskAsks(t, a)
  <2> DEFINE a == [at[t] EXCEPT !.tries = @ + 1]
  <2>1. a \in Call(prompts) /\ a.op = at[t].op /\ a.n = at[t].n /\ a.text = at[t].text
    <3>1. at[t] \in Call(prompts) /\ at[t].tries + 1 \in Nat
      BY <1>2
    <3> QED
      BY <3>1 DEF Call, Doing, Told
  <2>2. /\ Request(t, a) /\ at[t].pc = "overloaded" /\ link' = link
        /\ UNCHANGED <<prompts, pipe, ran, thread, seen, debt, slipped, created, echoes, raced>>
    BY <1>8 DEF Retry, Replayable, Steady, Still, server, view, ledger
  <2> HIDE DEF a
  <2>3. Asking(t, a)
    BY <2>2, ItAsks
  <2>4. AsksAgain(t, a)
    BY <2>1, <2>2 DEF AsksAgain
  <2>5. TaskAsks(t, a)
    BY <2>1, <2>2, <2>3, <2>4 DEF TaskAsks, NotClosed
  <2> QED
    BY <2>5
<1>9. ASSUME NEW t \in Tasks, GivesUp(t) PROVE TaskEnds(t)
  <2>1. /\ at[t].pc = "overloaded" /\ at' = Become(t, "error")
        /\ UNCHANGED <<up, pipe, link, ran, prompts, thread, debt, echoes, seen, slipped,
                       created, raced>>
    BY <1>9 DEF GivesUp, Steady, Still, server, view, ledger
  <2> QED
    BY <2>1 DEF TaskEnds, Keeps, NotClosed
<1>10. ASSUME NEW t \in Tasks,
              Sent(t) \/ SendFails(t) \/ Fails(t) \/ Hydrated(t) \/ Unsubscribed(t)
       PROVE  TaskEnds(t)
  <2>1. Finish(t) /\ Still /\ at[t].pc \in {"answered", "failed", "error"}
    BY <1>10
       DEF Sent, SendFails, Fails, Hydrated, Hydrate, Unsubscribed, Steady, InTurn, Answered
  <2>2. debt' = debt /\ (NotClosed' => NotClosed)
    BY <1>10
       DEF Sent, SendFails, Fails, Hydrated, Hydrate, Unsubscribed, ledger, NotClosed
  <2>3. Sent(t) \/ Fails(t) \/ Hydrated(t) => UNCHANGED <<echoes, seen, slipped, created>>
    BY DEF Sent, Fails, Hydrated, ledger, view
  <2>4. Sent(t) => at[t].pc = "answered"
    BY DEF Sent, InTurn, Answered
  <2>5. Fails(t) \/ Hydrated(t) => at[t].op \notin Sends
    BY DEF Fails, Hydrated, Sends
  <2>6. Keeps(t) \/ SendFails(t) \/ Unsubscribed(t)
    BY <1>10, <2>3, <2>4, <2>5 DEF Keeps
  <2> QED
    BY <1>5, <2>1, <2>2, <2>6
<1>11. ASSUME NEW t \in Tasks, Resumed(t) PROVE (\E a : TaskAsks(t, a)) \/ TaskEnds(t)
  <2> DEFINE a == [at[t] EXCEPT !.op = "items", !.tries = 0, !.moved = @ \ {"second"}]
  <2>1. a \in Call(prompts) /\ a.op = "items"
    <3>1. at[t] \in Call(prompts) /\ at[t].moved \ {"second"} \subseteq {"turn", "child", "second"}
      BY <1>2
    <3> QED
      BY <3>1 DEF Call, Doing, Told, Ops, Sends
  <2>2. /\ (Request(t, a) \/ Finish(t)) /\ Still /\ at[t].pc = "answered" /\ at[t].op = "attach"
        /\ UNCHANGED <<seen, debt, slipped, created, echoes>> /\ (NotClosed' => NotClosed)
    BY <1>11 DEF Resumed, Steady, InTurn, Answered, ledger, NotClosed
  <2> HIDE DEF a
  <2>3. a.op \notin Sends /\ a.op \notin ClosingOps /\ at[t].op \notin Sends
    BY <2>1, <2>2 DEF Sends, ClosingOps
  <2> QED
    BY <1>4, <1>5, <2>1, <2>2, <2>3 DEF Keeps
<1>12. ASSUME NEW t \in Tasks, Interrupted(t) PROVE (\E a : TaskAsks(t, a)) \/ TaskEnds(t)
  <2> DEFINE a == [at[t] EXCEPT !.op = "unsubscribe", !.tries = 0, !.moved = {}]
  <2>1. a \in Call(prompts) /\ a.op = "unsubscribe"
    <3>1. at[t] \in Call(prompts)
      BY <1>2
    <3> QED
      BY <3>1 DEF Call, Doing, Told, Ops, Sends
  <2>2. /\ (Request(t, a) \/ Finish(t)) /\ Still /\ at[t].pc = "answered" /\ at[t].op = "interrupt"
        /\ UNCHANGED <<seen, debt, slipped, created, echoes>> /\ (NotClosed' => NotClosed)
    BY <1>12 DEF Interrupted, Steady, InTurn, Answered, ledger, NotClosed
  <2> HIDE DEF a
  <2>3. a.op \notin Sends /\ at[t].op \in ClosingOps /\ at[t].op \notin Sends
    BY <2>1, <2>2 DEF Sends, ClosingOps
  <2> QED
    BY <1>4, <1>5, <2>1, <2>2, <2>3 DEF Keeps
<1> QED
  BY <1>6, <1>7, <1>8, <1>9, <1>10, <1>11, <1>12 DEF TaskStep

LEMMA WaitingDrop ==
  ASSUME Drop PROVE Waiting'
<1>1. up' = << >> /\ pipe' = << >> /\ at' = Overtake(Failed, {"turn", "child"})
  BY DEF Drop
<1>2. ASSUME NEW t \in Tasks PROVE at'[t].pc # "asked"
  <2>1. Failed[t] = IF at[t].pc = "asked" THEN [at[t] EXCEPT !.pc = "failed"] ELSE at[t]
    BY DEF Failed
  <2>2. at'[t] = IF Failed[t].pc = "answered"
                 THEN [Failed[t] EXCEPT !.moved = @ \union {"turn", "child"}] ELSE Failed[t]
    BY <1>1 DEF Overtake
  <2>3. CASE at[t].pc = "asked"
    <3>1. Failed[t] = [at[t] EXCEPT !.pc = "failed"]
      BY <2>1, <2>3
    <3>2. "pc" \in DOMAIN at[t] \/ Failed[t].pc # "asked"
      BY <2>3, <3>1
    <3>3. Failed[t].pc \notin {"asked", "answered"} \/ "pc" \notin DOMAIN at[t]
      BY <3>1
    <3> QED
      BY <2>2, <3>2, <3>3
  <2>4. CASE at[t].pc # "asked"
    <3>1. Failed[t] = at[t]
      BY <2>1, <2>4
    <3>2. [at[t] EXCEPT !.moved = @ \union {"turn", "child"}].pc = at[t].pc \/ at'[t] = at[t]
      BY <2>2, <3>1
    <3> QED
      BY <2>2, <2>4, <3>1, <3>2
  <2> QED
    BY <2>3, <2>4
<1>3. DOMAIN up' = {} /\ DOMAIN pipe' = {}
  BY <1>1
<1> QED
  BY <1>2, <1>3 DEF Waiting

LEMMA WaitingTimesOut ==
  ASSUME Shape, Waiting, NEW t \in Tasks, TimesOut(t)
  PROVE  Waiting'
<1>1. /\ at[t].pc = "asked" /\ at' = Become(t, "failed") /\ link' = link
      /\ up' = [i \in DOMAIN up |-> IF up[i].by = t
                                    THEN [up[i] EXCEPT !.by = None] ELSE up[i]]
      /\ pipe' = [i \in DOMAIN pipe |->
                    IF "to" \in DOMAIN pipe[i] /\ pipe[i].to = t
                    THEN [pipe[i] EXCEPT !.to = None] ELSE pipe[i]]
  BY DEF TimesOut
<1>2. /\ at \in [Tasks -> Call(prompts)] /\ up \in Seq(Sending(prompts))
      /\ pipe \in Seq(Frames(prompts)) /\ t # None
  BY DEF Shape, Tasks, None
<1>3. /\ at'[t].pc = "failed" /\ \A u \in Tasks : u # t => at'[u] = at[u]
  BY <1>1, <1>2 DEF Become, Call, Doing
<1>4. DOMAIN up' = DOMAIN up /\ DOMAIN pipe' = DOMAIN pipe
  BY <1>1
<1>5. ASSUME NEW i \in DOMAIN up
      PROVE  /\ up'[i].by # t
             /\ \A u \in Tasks : u # t => (up'[i].by = u <=> up[i].by = u)
             /\ \A u \in Tasks : up'[i].by = u => up'[i] = up[i]
  <2>1. up[i] \in Sending(prompts)
    BY <1>2
  <2>2. up[i].by = t => up'[i].by = None
    BY <1>1, <2>1 DEF Sending
  <2>3. up[i].by # t => up'[i] = up[i]
    BY <1>1
  <2> QED
    BY <1>2, <2>2, <2>3 DEF Tasks, None
<1>6. ASSUME NEW i \in DOMAIN pipe
      PROVE  /\ ~IsTo(pipe'[i], t)
             /\ \A u \in Tasks : u # t => (IsTo(pipe'[i], u) <=> IsTo(pipe[i], u))
  <2>1. pipe[i] \in Frames(prompts)
    BY <1>2
  <2>2. CASE IsTo(pipe[i], t)
    <3>1. pipe[i] \in Answers(prompts)
      BY <2>1, <2>2, FrameKinds DEF Frames, IsTo
    <3>2. pipe'[i].to = None /\ pipe[i].to = t
      BY <1>1, <2>2, <3>1 DEF Answers, IsTo
    <3> QED
      BY <1>2, <3>2 DEF IsTo, Tasks, None
  <2>3. CASE ~IsTo(pipe[i], t)
    <3>1. pipe'[i] = pipe[i]
      BY <1>1, <2>3 DEF IsTo
    <3> QED
      BY <2>3, <3>1
  <2> QED
    BY <2>2, <2>3
<1>7. ASSUME NEW u \in Tasks, at'[u].pc = "asked"
      PROVE  /\ link' # "down"
             /\ \/ \E i \in DOMAIN up' : up'[i].by = u
                \/ \E i \in DOMAIN pipe' : IsTo(pipe'[i], u)
  <2>1. u # t /\ at[u].pc = "asked"
    BY <1>3, <1>7
  <2> QED
    BY <1>1, <1>4, <1>5, <1>6, <2>1 DEF Waiting
<1>8. ASSUME NEW u \in Tasks, NEW i \in DOMAIN up', up'[i].by = u
      PROVE  /\ at'[u].pc = "asked" /\ at'[u].op = up'[i].op /\ at'[u].n = up'[i].n
             /\ at'[u].text = up'[i].text
             /\ \A j \in DOMAIN pipe' : ~IsTo(pipe'[j], u)
             /\ \A j \in DOMAIN up' : up'[j].by = u => i = j
  <2>1. u # t /\ up'[i] = up[i] /\ up[i].by = u /\ i \in DOMAIN up
    BY <1>4, <1>5, <1>8
  <2> QED
    BY <1>3, <1>4, <1>5, <1>6, <2>1 DEF Waiting
<1>9. ASSUME NEW u \in Tasks, NEW i \in DOMAIN pipe', IsTo(pipe'[i], u)
      PROVE  at'[u].pc = "asked" /\ \A j \in DOMAIN pipe' : IsTo(pipe'[j], u) => i = j
  <2>1. u # t /\ IsTo(pipe[i], u) /\ i \in DOMAIN pipe
    BY <1>4, <1>6, <1>9
  <2> QED
    BY <1>3, <1>4, <1>6, <2>1 DEF Waiting
<1> QED
  BY <1>7, <1>8, <1>9 DEF Waiting

\* A frame is read: the one who waits for it goes on, and nobody else.
LEMMA WaitingReads ==
  ASSUME Shape, Waiting, pipe # << >>, pipe' = Tail(pipe), UNCHANGED <<up, link>>,
         \A t \in Tasks :
            IF IsTo(Head(pipe), t) THEN at'[t].pc # "asked"
            ELSE /\ at'[t].pc = at[t].pc /\ at'[t].op = at[t].op
                 /\ at'[t].n = at[t].n /\ at'[t].text = at[t].text
  PROVE  Waiting'
<1>1. /\ 1 \in DOMAIN pipe /\ pipe[1] = Head(pipe)
      /\ \A i \in DOMAIN pipe' : i + 1 \in DOMAIN pipe /\ i + 1 # 1 /\ pipe'[i] = pipe[i + 1]
      /\ \A i, j \in DOMAIN pipe' : i + 1 = j + 1 => i = j
      /\ \A i \in DOMAIN pipe : i = 1 \/ \E j \in DOMAIN pipe' : i = j + 1
  <2>1. pipe \in Seq(Frames(prompts))
    BY DEF Shape
  <2> QED
    BY <2>1, Popped
<1>2. ASSUME NEW t \in Tasks, IsTo(Head(pipe), t)
      PROVE  /\ at'[t].pc # "asked" /\ at[t].pc = "asked"
             /\ \A i \in DOMAIN pipe' : ~IsTo(pipe'[i], t)
             /\ \A i \in DOMAIN up : up[i].by # t
  BY <1>1, <1>2 DEF Waiting
<1>3. ASSUME NEW t \in Tasks, ~IsTo(Head(pipe), t)
      PROVE  /\ at'[t].pc = at[t].pc /\ at'[t].op = at[t].op
             /\ at'[t].n = at[t].n /\ at'[t].text = at[t].text
             /\ \A i \in DOMAIN pipe : IsTo(pipe[i], t) =>
                   \E j \in DOMAIN pipe' : i = j + 1 /\ IsTo(pipe'[j], t)
  BY <1>1, <1>3
<1>4. ASSUME NEW t \in Tasks, at'[t].pc = "asked"
      PROVE  /\ link' # "down"
             /\ \/ \E i \in DOMAIN up' : up'[i].by = t
                \/ \E i \in DOMAIN pipe' : IsTo(pipe'[i], t)
  BY <1>2, <1>3, <1>4 DEF Waiting
<1>5. ASSUME NEW t \in Tasks, NEW i \in DOMAIN up', up'[i].by = t
      PROVE  /\ at'[t].pc = "asked" /\ at'[t].op = up'[i].op /\ at'[t].n = up'[i].n
             /\ at'[t].text = up'[i].text
             /\ \A j \in DOMAIN pipe' : ~IsTo(pipe'[j], t)
             /\ \A j \in DOMAIN up' : up'[j].by = t => i = j
  BY <1>1, <1>2, <1>3, <1>5 DEF Waiting
<1>6. ASSUME NEW t \in Tasks, NEW i \in DOMAIN pipe', IsTo(pipe'[i], t)
      PROVE  at'[t].pc = "asked" /\ \A j \in DOMAIN pipe' : IsTo(pipe'[j], t) => i = j
  BY <1>1, <1>2, <1>3, <1>6 DEF Waiting
<1> QED
  BY <1>4, <1>5, <1>6 DEF Waiting

LEMMA ReaderReads ==
  ASSUME Shape, Handle
  PROVE  /\ pipe # << >> /\ pipe' = Tail(pipe) /\ UNCHANGED <<up, link>>
         /\ \A t \in Tasks :
               IF IsTo(Head(pipe), t)
               THEN /\ at'[t].pc = IF Head(pipe).kind = "result" THEN "answered"
                                                                 ELSE Head(pipe).kind
                    /\ at'[t].pc # "asked"
                    /\ at'[t].op = at[t].op /\ at'[t].n = at[t].n /\ at'[t].text = at[t].text
               ELSE /\ at'[t].pc = at[t].pc /\ at'[t].op = at[t].op
                    /\ at'[t].n = at[t].n /\ at'[t].text = at[t].text
<1> DEFINE f == Head(pipe)
<1>1. /\ pipe # << >> /\ pipe' = Tail(pipe) /\ UNCHANGED <<up, link>>
      /\ f \in Frames(prompts) /\ at \in [Tasks -> Call(prompts)]
      /\ \/ Answer(f) \/ TurnStarted(f) \/ TurnCompleted(f)
         \/ ChildUpdate(f) \/ UserMessage(f)
         \/ ServerRequest(f) \/ RequestResolved(f)
  BY Popped DEF Shape, Handle
<1> HIDE DEF f
<1>2. CASE Answer(f)
  <2>1. /\ f.kind \in {"result", "error", "overloaded"} /\ "to" \in DOMAIN f
        /\ f.to \in Callers
    BY <1>1, <1>2, FrameKinds DEF Answer
  <2>2. CASE f.to = None
    <3>1. at' = at /\ \A t \in Tasks : ~IsTo(f, t)
      BY <1>2, <2>2 DEF Answer, IsTo, Tasks, None
    <3> QED
      BY <1>1, <3>1 DEF f
  <2>3. CASE f.to # None
    <3>1. f.to \in Tasks /\ at[f.to] \in Call(prompts)
      BY <1>1, <2>1, <2>3 DEF Callers
    <3>2. PICK c, m :
            at' = [at EXCEPT ![f.to] =
                   IF f.kind = "result"
                   THEN [at[f.to] EXCEPT !.pc = "answered", !.turn = f.turn, !.child = c,
                                         !.moved = m]
                   ELSE [at[f.to] EXCEPT !.pc = f.kind]]
      <4> DEFINE c == IF at[f.to].op = "attach" THEN f.child ELSE at[f.to].child
                 m == at[f.to].moved \union IF \A u \in Tasks : ~Answered(u) THEN {} ELSE {"second"}
      <4>1. at' = [at EXCEPT ![f.to] =
                   IF f.kind = "result"
                   THEN [at[f.to] EXCEPT !.pc = "answered", !.turn = f.turn, !.child = c,
                                         !.moved = m]
                   ELSE [at[f.to] EXCEPT !.pc = f.kind]]
        BY <1>2, <2>3 DEF Answer
      <4> QED
        BY <4>1
    <3>3. \A t \in Tasks : IsTo(f, t) <=> t = f.to
      BY <2>1 DEF IsTo
    <3>4. \A t \in Tasks : t # f.to => at'[t] = at[t]
      BY <3>2
    <3>5. at'[f.to] = IF f.kind = "result"
                      THEN [at[f.to] EXCEPT !.pc = "answered", !.turn = f.turn, !.child = c,
                                            !.moved = m]
                      ELSE [at[f.to] EXCEPT !.pc = f.kind]
      BY <1>1, <3>1, <3>2
    <3>6. /\ at'[f.to].pc = IF f.kind = "result" THEN "answered" ELSE f.kind
          /\ at'[f.to].op = at[f.to].op /\ at'[f.to].n = at[f.to].n
          /\ at'[f.to].text = at[f.to].text
      BY <3>1, <3>5 DEF Call, Doing
    <3>7. at'[f.to].pc # "asked"
      BY <2>1, <3>6
    <3> QED
      BY <1>1, <3>3, <3>4, <3>6, <3>7 DEF f
  <2> QED
    BY <2>2, <2>3
<1>3. CASE ~Answer(f)
  <2>1. f.kind \in {"turn", "done", "child", "item", "ask", "resolved"}
    BY <1>1, <1>3 DEF TurnStarted, TurnCompleted, ChildUpdate, UserMessage, ServerRequest,
                      RequestResolved
  <2>2. f \in News(prompts)
    BY <1>1, <2>1, FrameKinds DEF Frames
  <2>3. \A t \in Tasks : ~IsTo(f, t)
    BY <1>1, <2>2, FrameKinds DEF IsTo
  <2>4. Marked(at')
    <3>1. CASE TurnStarted(f)
      BY <1>1, <3>1, OvertakeMarks DEF TurnStarted
    <3>2. CASE TurnCompleted(f)
      BY <1>1, <3>2, OvertakeMarks DEF TurnCompleted
    <3>3. CASE ChildUpdate(f)
      BY <1>1, <3>3, OvertakeMarks DEF ChildUpdate
    <3>4. CASE at' = at
      BY <1>1, <3>4, OvertakeMarks
    <3> QED
      BY <1>1, <1>3, <3>1, <3>2, <3>3, <3>4 DEF UserMessage, ServerRequest, RequestResolved
  <2>5. \A t \in Tasks : /\ at'[t].pc = at[t].pc /\ at'[t].op = at[t].op
                         /\ at'[t].n = at[t].n /\ at'[t].text = at[t].text
    BY <2>4 DEF Marked, Like
  <2> QED
    BY <1>1, <2>3, <2>5 DEF f
<1> QED
  BY <1>2, <1>3


LEMMA WaitingKept ==
  ASSUME CodexAssumption, Shape, Waiting, [Next]_vars
  PROVE  Waiting'
<1>1. /\ prompts \in Nat /\ at \in [Tasks -> Call(prompts)] /\ up \in Seq(Sending(prompts))
      /\ pipe \in Seq(Frames(prompts))
  BY DEF Shape
<1>2. CASE Delegate \/ AskApproval \/ TuiApproves \/ EndTurn
  <2>1. PICK w \in Seq(News(prompts)) : Announces(w)
    BY <1>2, TheyAnnounce
  <2>2. pipe' = pipe \o w /\ UNCHANGED <<at, up, link>>
    BY <2>1 DEF Announces, Outside
  <2> QED
    BY <1>1, <2>2, WaitingNews
<1>3. ASSUME NEW x \in Texts, Type(x) PROVE Waiting'
  <2>1. PICK w \in Seq(News(prompts')) : Types(x, w)
    BY <1>3, TheyType
  <2>2. pipe' = pipe \o w /\ UNCHANGED <<at, up, link>> /\ prompts' = prompts + 1
    BY <2>1 DEF Types, Outside
  <2>3. w \in Seq(News(prompts + 1))
    BY <2>1, <2>2
  <2>4. pipe \in Seq(Frames(prompts + 1))
    <3>1. Frames(prompts) \subseteq Frames(prompts + 1)
      BY <1>1, Grown
    <3> QED
      BY <1>1, <3>1
  <2> QED
    BY <2>2, <2>3, <2>4, WaitingNews
<1>4. CASE ServerTakes
  <2>1. prompts' = prompts /\ UNCHANGED <<at, link>>
    BY <1>4 DEF ServerTakes
  <2>2. PICK q \in Sending(prompts) : \E w \in Seq(News(prompts)) :
            Approved(q, w) \/ \E a \in Answers(prompts) : Serves(q, w, a)
    BY <1>4, <2>1, ServerServes
  <2>3. PICK w \in Seq(News(prompts)) :
            Approved(q, w) \/ \E a \in Answers(prompts) : Serves(q, w, a)
    BY <2>2
  <2>4. CASE Approved(q, w)
    <3>1. q.by \notin Tasks
      BY <2>4 DEF Approved, Sending, Tasks, None
    <3> QED
      BY <2>1, <2>4, <3>1, WaitingApproved
  <2>5. ASSUME NEW a \in Answers(prompts), Serves(q, w, a) PROVE Waiting'
    BY <2>1, <2>5, WaitingServed
  <2> QED
    BY <2>3, <2>4, <2>5
<1>5. CASE Drop
  BY <1>5, WaitingDrop
<1>6. ASSUME NEW t \in Tasks, Dial(t) \/ DialFails(t) PROVE Waiting'
  <2>1. UNCHANGED <<up, pipe>> /\ (link # "down" => link' # "down")
        /\ at[t].pc = "connecting"
    BY <1>6 DEF Dial, DialFails
  <2>2. \A u \in Tasks : \/ at'[u] = at[u]
                         \/ at[u].pc # "asked" /\ at'[u].pc # "asked"
    BY <1>1, <1>6 DEF Dial, DialFails, Become, Call, Doing
  <2> QED
    BY <2>1, <2>2, WaitingOther
<1>7. ASSUME NEW t \in Tasks, Greeted(t) \/ Connected(t) PROVE Waiting'
  <2>1. /\ at[t].pc # "asked" /\ at[t] \in Call(prompts) /\ Asking(t, at[t])
        /\ pipe' = pipe /\ link' # "down"
    BY <1>1, <1>7, ItAsks DEF Greeted, Connected
  <2> QED
    BY <1>1, <2>1, WaitingAsks
<1>8. ASSUME NEW t \in Tasks, TimesOut(t) PROVE Waiting'
  BY <1>8, WaitingTimesOut
<1>9. CASE Handle
  <2>1. /\ pipe # << >> /\ pipe' = Tail(pipe) /\ UNCHANGED <<up, link>>
        /\ \A t \in Tasks :
              IF IsTo(Head(pipe), t) THEN at'[t].pc # "asked"
              ELSE /\ at'[t].pc = at[t].pc /\ at'[t].op = at[t].op
                   /\ at'[t].n = at[t].n /\ at'[t].text = at[t].text
    BY <1>9, ReaderReads
  <2> QED
    BY <2>1, WaitingReads
<1>10. CASE EchoExpires
  <2>1. UNCHANGED <<up, pipe, link, at>>
    BY <1>10 DEF EchoExpires
  <2> QED
    BY <2>1, WaitingOther
<1>11. ASSUME NEW r \in requests, Approve(r) PROVE Waiting'
  BY <1>11, WaitingApproves
<1>12. ASSUME NEW t \in Tasks, NEW a, TaskAsks(t, a) PROVE Waiting'
  <2>1. CASE prompts' = prompts
    BY <1>1, <1>12, <2>1, WaitingAsks DEF TaskAsks
  <2>2. CASE prompts' = prompts + 1
    <3>1. at \in [Tasks -> Call(prompts')] /\ up \in Seq(Sending(prompts'))
      BY <1>1, <2>2, Grown
    <3> QED
      BY <1>12, <3>1, WaitingAsks DEF TaskAsks
  <2> QED
    BY <1>12, <2>1, <2>2 DEF TaskAsks, AsksPrompt, AsksOther, AsksAgain
<1>13. ASSUME NEW t \in Tasks, TaskEnds(t) PROVE Waiting'
  <2>1. UNCHANGED <<up, pipe, link>> /\ at[t].pc # "asked"
    BY <1>13 DEF TaskEnds
  <2>2. at'[t].pc # "asked" /\ \A u \in Tasks : u # t => at'[u] = at[u]
    BY <1>1, <1>13 DEF TaskEnds, Become, Idle, Call, Doing
  <2> QED
    BY <2>1, <2>2, WaitingOther
<1>14. CASE TaskStep
  BY <1>10, <1>11, <1>12, <1>13, <1>14, TasksAskOrEnd
<1>15. CASE UNCHANGED vars
  BY <1>15, WaitingOther DEF vars, line
<1> QED
  BY <1>2, <1>3, <1>4, <1>5, <1>6, <1>7, <1>8, <1>9, <1>14, <1>15, NextSteps

-----------------------------------------------------------------------------
(* A prompt runs once                                                      *)

Absent(n) == \A i \in DOMAIN up : up[i].op \in Sends => up[i].n # n

\* The worker may send its prompt once more: the server has not taken it.
Refused == \E i \in DOMAIN pipe :
              IsTo(pipe[i], "worker") /\ pipe[i].kind \in {"error", "overloaded"}
MayResend == at["worker"].pc \in {"connecting", "overloaded", "error"} \/ Refused

\* What the server may still take, or be sent again, it has not run.
Runs ==
    /\ \A n \in 1 .. MaxPrompts : ran[n] <= 1 /\ (n > prompts => ran[n] = 0)
    /\ \A i \in DOMAIN up : up[i].op \in Sends => ran[up[i].n] = 0
    /\ \A i, j \in DOMAIN up :
          up[i].op \in Sends /\ up[j].op \in Sends /\ up[i].n = up[j].n => i = j
    /\ at["topic"].op \notin Sends
    /\ at["worker"].op \in Sends /\ MayResend =>
         ran[at["worker"].n] = 0 /\ Absent(at["worker"].n)

LEMMA RunsServed ==
  ASSUME CodexAssumption, Shape, Waiting, Runs, NEW q, NEW w, NEW a, Serves(q, w, a),
         UNCHANGED <<at, prompts>>
  PROVE  Runs'
<1>1. /\ up # << >> /\ up' = Tail(up) /\ q = Head(up) /\ w \in Seq(News(prompts))
      /\ a \in Answers(prompts) /\ a.to = q.by
      /\ up \in Seq(Sending(prompts)) /\ pipe \in Seq(Frames(prompts))
      /\ prompts \in 0 .. MaxPrompts /\ MaxPrompts \in Nat /\ ran \in [1 .. MaxPrompts -> Nat]
  BY DEF Serves, Tells, Shape, CodexAssumption
<1>2. PICK k \in DOMAIN pipe' : AnswerAt(prompts, pipe, a, pipe', k)
  <2>1. w \in Seq(News(prompts))
    BY <1>1
  <2>2. a \in Answers(prompts)
    BY <1>1
  <2>3. pipe \in Seq(Frames(prompts))
    BY <1>1
  <2>4. pipe' = (pipe \o << a >>) \o w \/ pipe' = (pipe \o w) \o << a >>
    BY DEF Serves
  <2> QED
    BY <2>1, <2>2, <2>3, <2>4, AnswerAdded
<1>3. /\ 1 \in DOMAIN up /\ up[1] = q /\ q \in Sending(prompts)
      /\ \A i \in DOMAIN up' : i + 1 \in DOMAIN up /\ i + 1 # 1 /\ up'[i] = up[i + 1]
      /\ \A i, j \in DOMAIN up' : i + 1 = j + 1 => i = j
  BY <1>1, Popped
<1>4. \A t : IsTo(a, t) <=> t = q.by
  BY <1>1, FrameKinds DEF IsTo, Frames
\* It is the worker that sends prompts.
<1>5. q.op \in Sends => q.by # "topic"
  BY <1>1, <1>3 DEF Waiting, Runs, Tasks
<1>6. q.by = "worker" => /\ at["worker"].op = q.op /\ at["worker"].n = q.n
                         /\ at["worker"].pc = "asked"
                         /\ \A i \in DOMAIN pipe : ~IsTo(pipe[i], "worker")
  BY <1>3 DEF Waiting, Tasks
<1>7. Refused' => Refused \/ (q.by = "worker" /\ a.kind \in {"error", "overloaded"})
  BY <1>2, <1>4 DEF Refused, AnswerAt
<1>8. /\ \A i \in DOMAIN up' : up'[i].op \in Sends => up'[i].n # q.n \/ q.op \notin Sends
      /\ \A i, j \in DOMAIN up' :
           up'[i].op \in Sends /\ up'[j].op \in Sends /\ up'[i].n = up'[j].n => i = j
      /\ \A n : Absent(n) => Absent(n)'
  BY <1>3 DEF Runs, Absent
<1>9. CASE Ran(q, w) /\ a.kind = "result"
  <2>1. /\ q.op \in Sends /\ ran[q.n] = 0 /\ q.n \in 1 .. prompts /\ q.n \in 1 .. MaxPrompts
        /\ ran' = [ran EXCEPT ![q.n] = IF ran[q.n] < 2 THEN ran[q.n] + 1 ELSE ran[q.n]]
    BY <1>1, <1>3, <1>9 DEF Ran, Sending, Told, Given, Runs
  <2>2. ran' = [ran EXCEPT ![q.n] = 1]
    BY <2>1
  <2>3. \A n \in 1 .. MaxPrompts : ran'[n] <= 1 /\ (n > prompts' => ran'[n] = 0)
    BY <1>1, <2>1, <2>2 DEF Runs
  <2>4. \A i \in DOMAIN up' : up'[i].op \in Sends => ran'[up'[i].n] = 0
    BY <1>3, <1>8, <2>1, <2>2 DEF Runs
  <2>5. ASSUME at["worker"].op \in Sends, MayResend'
        PROVE  ran'[at["worker"].n] = 0 /\ Absent(at["worker"].n)'
    <3>1. MayResend
      BY <1>7, <1>9, <2>5 DEF MayResend
    <3>2. ran[at["worker"].n] = 0 /\ Absent(at["worker"].n)
      BY <2>5, <3>1 DEF Runs
    <3>3. at["worker"].n # q.n
      BY <1>3, <2>1, <3>2 DEF Absent
    <3> QED
      BY <1>8, <2>2, <3>2, <3>3
  <2> QED
    BY <1>8, <2>3, <2>4, <2>5 DEF Runs
<1>10. CASE Other(q, w, a)
  <2>1. ran' = ran /\ \A i \in DOMAIN up' : up'[i].op \in Sends => ran'[up'[i].n] = 0
    BY <1>3, <1>10 DEF Other, Runs
  <2>2. ASSUME at["worker"].op \in Sends, MayResend'
        PROVE  ran'[at["worker"].n] = 0 /\ Absent(at["worker"].n)'
    <3>1. CASE MayResend
      BY <1>8, <2>1, <2>2, <3>1 DEF Runs
    <3>2. CASE ~MayResend
      <4>1. q.by = "worker"
        BY <1>7, <2>2, <3>2 DEF MayResend
      <4> QED
        BY <1>3, <1>6, <1>8, <2>1, <2>2, <4>1 DEF Runs, Absent
    <3> QED
      BY <3>1, <3>2
  <2> QED
    BY <1>8, <2>1, <2>2 DEF Runs
<1> QED
  BY <1>9, <1>10 DEF Serves

LEMMA RunsApproved ==
  ASSUME Shape, Runs, NEW q, NEW w, Approved(q, w), UNCHANGED <<at, prompts>>
  PROVE  Runs'
<1>1. /\ up # << >> /\ up' = Tail(up) /\ w \in Seq(News(prompts)) /\ pipe' = pipe \o w
      /\ up \in Seq(Sending(prompts)) /\ pipe \in Seq(Frames(prompts)) /\ ran' = ran
  BY DEF Approved, Tells, Shape
<1>2. Refused' => Refused
  <2>1. /\ \A i \in DOMAIN pipe : i \in DOMAIN pipe' /\ pipe'[i] = pipe[i]
        /\ \A i \in DOMAIN pipe' : \A t : IsTo(pipe'[i], t) => i \in DOMAIN pipe
    BY <1>1, NewsAdded
  <2> QED
    BY <2>1 DEF Refused
<1>3. /\ \A i \in DOMAIN up' : i + 1 \in DOMAIN up /\ up'[i] = up[i + 1]
      /\ \A i, j \in DOMAIN up' : i + 1 = j + 1 => i = j
  BY <1>1, Popped
<1>4. /\ \A i \in DOMAIN up' : up'[i].op \in Sends => ran'[up'[i].n] = 0
      /\ \A i, j \in DOMAIN up' :
           up'[i].op \in Sends /\ up'[j].op \in Sends /\ up'[i].n = up'[j].n => i = j
      /\ \A n : Absent(n) => Absent(n)'
  BY <1>1, <1>3 DEF Runs, Absent
<1> QED
  BY <1>1, <1>2, <1>4 DEF Runs, MayResend


\* Nothing runs, and nothing more is sent.
LEMMA RunsSame ==
  ASSUME Runs, ran' = ran, prompts \in Nat, prompts' \in {prompts, prompts + 1},
         \A i \in DOMAIN up' : i \in DOMAIN up /\ up'[i].op = up[i].op /\ up'[i].n = up[i].n,
         at'["topic"].op \notin Sends,
         at'["worker"].op \in Sends /\ MayResend' =>
            at["worker"].op \in Sends /\ MayResend /\ at'["worker"].n = at["worker"].n
  PROVE  Runs'
<1>1. \A n \in 1 .. MaxPrompts : n > prompts' => n > prompts
  OBVIOUS
<1>2. \A n \in 1 .. MaxPrompts : ran'[n] <= 1 /\ (n > prompts' => ran'[n] = 0)
  BY <1>1 DEF Runs
<1>3. \A i \in DOMAIN up' : up'[i].op \in Sends => ran'[up'[i].n] = 0
  BY DEF Runs
<1>4. \A i, j \in DOMAIN up' :
        up'[i].op \in Sends /\ up'[j].op \in Sends /\ up'[i].n = up'[j].n => i = j
  BY DEF Runs
<1>5. at'["worker"].op \in Sends /\ MayResend' =>
        ran'[at'["worker"].n] = 0 /\ Absent(at["worker"].n)'
  BY DEF Runs, Absent
<1> QED
  BY <1>2, <1>3, <1>4, <1>5 DEF Runs

\* A task asks for what was not run.
LEMMA RunsPosts ==
  ASSUME CodexAssumption, Shape, Waiting, Runs, NEW t \in Tasks, at[t].pc # "asked",
         NEW a \in Call(prompts'), Asking(t, a),
         UNCHANGED <<pipe, ran>>, prompts' \in {prompts, prompts + 1},
         \/ /\ prompts' = prompts + 1 /\ prompts' \in Given(MaxPrompts)
            /\ t = "worker" /\ a.n = prompts'
         \/ a.op \notin Sends
         \/ /\ at[t].pc \in {"overloaded", "connecting"}
            /\ a.op = at[t].op /\ a.n = at[t].n
  PROVE  Runs'
<1>1. /\ prompts \in 0 .. MaxPrompts /\ MaxPrompts \in Nat /\ ran \in [1 .. MaxPrompts -> Nat]
      /\ at \in [Tasks -> Call(prompts)] /\ up \in Seq(Sending(prompts))
      /\ at[t].pc # "asked" /\ a \in Call(prompts') /\ Asking(t, a)
      /\ pipe' = pipe /\ ran' = ran /\ prompts' \in {prompts, prompts + 1}
  BY DEF Shape, CodexAssumption
<1>2. /\ \A u \in Tasks : u # t => at'[u] = at[u]
      /\ at'[t].op = a.op /\ at'[t].n = a.n
      /\ at'[t].pc \in {"connecting", "asked"}
      /\ at'[t].pc = "connecting" => up' = up
  BY <1>1 DEF Asking, Call, Doing
\* The server has not run the prompt that is asked for.
<1>3. a.op \in Sends => ran[a.n] = 0 /\ Absent(a.n) /\ t = "worker"
  <2>1. CASE prompts' = prompts + 1 /\ a.n = prompts' /\ prompts' \in Given(MaxPrompts)
             /\ t = "worker"
    <3>1. ran[a.n] = 0
      BY <1>1, <2>1 DEF Given, Runs
    <3>2. ASSUME NEW i \in DOMAIN up, up[i].op \in Sends PROVE up[i].n # a.n
      <4>1. up[i].n \in 1 .. prompts
        BY <1>1, <3>2 DEF Sending, Told, Given
      <4> QED
        BY <1>1, <2>1, <4>1
    <3> QED
      BY <2>1, <3>1, <3>2 DEF Absent
  <2>2. CASE /\ at[t].pc \in {"overloaded", "connecting"}
             /\ a.op = at[t].op /\ a.n = at[t].n
    <3>1. t = "worker" \/ a.op \notin Sends
      BY <2>2 DEF Runs, Tasks
    <3> QED
      BY <2>2, <3>1 DEF Runs, MayResend
  <2> QED
    BY <2>1, <2>2
<1>4. at'["topic"].op \notin Sends
  BY <1>2, <1>3 DEF Tasks, Runs
<1>5. t = "worker" => ~Refused'
  BY <1>1 DEF Waiting, Refused, Tasks
<1>6. CASE up' = up
  <2>1. at'["worker"].op \in Sends /\ MayResend' =>
           ran'[at'["worker"].n] = 0 /\ Absent(at["worker"].n)'
    <3>1. CASE t = "worker"
      BY <1>1, <1>2, <1>3, <1>6, <3>1 DEF Absent
    <3>2. CASE t # "worker"
      <4>1. at'["worker"] = at["worker"] /\ (MayResend' => MayResend)
        BY <1>1, <1>2, <3>2 DEF MayResend, Refused, Tasks
      <4> QED
        BY <1>1, <1>6, <4>1 DEF Runs, Absent
    <3> QED
      BY <3>1, <3>2
  <2>2. \A n \in 1 .. MaxPrompts : n > prompts' => n > prompts
    BY <1>1
  <2> QED
    BY <1>1, <1>4, <1>6, <2>1, <2>2 DEF Runs
<1>7. CASE up' # up
  <2> DEFINE q == [by |-> t, op |-> a.op, n |-> a.n, text |-> a.text, turn |-> a.turn]
  <2>1. at'[t].pc = "asked" /\ up' = Append(up, q) /\ q.op = a.op /\ q.n = a.n
    <3>1. /\ at' = [at EXCEPT ![t] = [a EXCEPT !.pc = "asked"]]
          /\ up' = Append(up, q)
      BY <1>1, <1>7 DEF Asking
    <3> QED
      BY <1>1, <3>1 DEF Call, Doing
  <2> HIDE DEF q
  <2>2. \A i \in DOMAIN up' : IF i \in DOMAIN up THEN up'[i] = up[i]
                                                ELSE up'[i] = q /\ i = Len(up) + 1
    BY <1>1, <2>1
  <2>3. \A i \in DOMAIN up' : up'[i].op \in Sends => ran'[up'[i].n] = 0
    BY <1>1, <1>3, <2>1, <2>2 DEF Runs
  <2>4. \A i, j \in DOMAIN up' :
          up'[i].op \in Sends /\ up'[j].op \in Sends /\ up'[i].n = up'[j].n => i = j
    BY <1>3, <2>1, <2>2 DEF Runs, Absent
  <2>5. at'["worker"].op \in Sends /\ MayResend' =>
           ran'[at'["worker"].n] = 0 /\ Absent(at["worker"].n)'
    <3>1. CASE t = "worker"
      BY <1>5, <2>1, <3>1 DEF MayResend
    <3>2. CASE t # "worker"
      <4>1. at'["worker"] = at["worker"] /\ (MayResend' => MayResend)
        BY <1>1, <1>2, <3>2 DEF MayResend, Refused, Tasks
      <4>2. a.op \notin Sends
        BY <1>3, <3>2
      <4> QED
        BY <1>1, <2>1, <2>2, <4>1, <4>2 DEF Runs, Absent
    <3> QED
      BY <3>1, <3>2
  <2>6. \A n \in 1 .. MaxPrompts : ran'[n] <= 1 /\ (n > prompts' => ran'[n] = 0)
    BY <1>1 DEF Runs
  <2> QED
    BY <1>4, <2>3, <2>4, <2>5, <2>6 DEF Runs
<1> QED
  BY <1>6, <1>7

LEMMA RunsKept ==
  ASSUME CodexAssumption, Shape, Waiting, Runs, [Next]_vars
  PROVE  Runs'
<1>1. /\ prompts \in Nat /\ at \in [Tasks -> Call(prompts)] /\ up \in Seq(Sending(prompts))
      /\ pipe \in Seq(Frames(prompts)) /\ "worker" \in Tasks /\ "topic" \in Tasks
  BY DEF Shape, Tasks
\* The refusals are those there were.
<1>2. ASSUME NEW p, pipe \in Seq(Frames(p)), NEW w \in Seq(News(p)), pipe' = pipe \o w
      PROVE  Refused' => Refused
  <2>1. /\ \A i \in DOMAIN pipe : i \in DOMAIN pipe' /\ pipe'[i] = pipe[i]
        /\ \A i \in DOMAIN pipe' : \A t : IsTo(pipe'[i], t) => i \in DOMAIN pipe
    BY <1>2, NewsAdded
  <2> QED
    BY <2>1 DEF Refused
<1>3. CASE Delegate \/ AskApproval \/ TuiApproves \/ EndTurn
  <2>1. PICK w \in Seq(News(prompts)) : Announces(w)
    BY <1>3, TheyAnnounce
  <2>2. pipe' = pipe \o w /\ UNCHANGED <<at, up, ran, prompts>>
    BY <2>1 DEF Announces, Outside
  <2>3. Refused' => Refused
    BY <1>1, <1>2, <2>2
  <2> QED
    BY <1>1, <2>2, <2>3, RunsSame DEF Runs, MayResend
<1>4. ASSUME NEW x \in Texts, Type(x) PROVE Runs'
  <2>1. PICK w \in Seq(News(prompts')) : Types(x, w)
    BY <1>4, TheyType
  <2>2. pipe' = pipe \o w /\ UNCHANGED <<at, up, ran>> /\ prompts' = prompts + 1
    BY <2>1 DEF Types, Outside
  <2>3. w \in Seq(News(prompts + 1))
    BY <2>1, <2>2
  <2>4. pipe \in Seq(Frames(prompts + 1))
    <3>1. Frames(prompts) \subseteq Frames(prompts + 1)
      BY <1>1, Grown
    <3> QED
      BY <1>1, <3>1
  <2>5. Refused' => Refused
    BY <1>2, <2>2, <2>3, <2>4
  <2> QED
    BY <1>1, <2>2, <2>5, RunsSame DEF Runs, MayResend
<1>5. CASE ServerTakes
  <2>1. prompts' = prompts /\ UNCHANGED <<at, link>>
    BY <1>5 DEF ServerTakes
  <2>2. PICK q \in Sending(prompts) : \E w \in Seq(News(prompts)) :
            Approved(q, w) \/ \E a \in Answers(prompts) : Serves(q, w, a)
    BY <1>5, <2>1, ServerServes
  <2>3. PICK w \in Seq(News(prompts)) :
            Approved(q, w) \/ \E a \in Answers(prompts) : Serves(q, w, a)
    BY <2>2
  <2>4. CASE Approved(q, w)
    BY <2>1, <2>4, RunsApproved
  <2>5. ASSUME NEW a \in Answers(prompts), Serves(q, w, a) PROVE Runs'
    BY <2>1, <2>5, RunsServed
  <2> QED
    BY <2>3, <2>4, <2>5
<1>6. CASE Drop
  <2>1. /\ up' = << >> /\ pipe' = << >> /\ ran' = ran /\ prompts' = prompts
        /\ at' = Overtake(Failed, {"turn", "child"})
    BY <1>6 DEF Drop
  <2>2. ASSUME NEW t \in Tasks
        PROVE  /\ at'[t].op = at[t].op /\ at'[t].n = at[t].n
               /\ at'[t].pc = at[t].pc \/ at'[t].pc = "failed"
    <3>1. at[t] \in Call(prompts)
      BY <1>1
    <3>2. Failed[t] = IF at[t].pc = "asked" THEN [at[t] EXCEPT !.pc = "failed"] ELSE at[t]
      BY DEF Failed
    <3>3. Failed[t] \in Doing /\ Failed[t].op = at[t].op /\ Failed[t].n = at[t].n
          /\ (Failed[t].pc = at[t].pc \/ Failed[t].pc = "failed")
      BY <3>1, <3>2 DEF Call, Doing
    <3>4. at'[t] = IF Failed[t].pc = "answered"
                   THEN [Failed[t] EXCEPT !.moved = @ \union {"turn", "child"}] ELSE Failed[t]
      BY <2>1 DEF Overtake
    <3> QED
      BY <3>3, <3>4 DEF Doing
  <2>3. DOMAIN up' = {} /\ ~Refused'
    BY <2>1 DEF Refused
  <2> QED
    BY <1>1, <2>1, <2>2, <2>3, RunsSame DEF Runs, MayResend
<1>7. ASSUME NEW t \in Tasks, Dial(t) \/ DialFails(t) PROVE Runs'
  <2>1. UNCHANGED <<up, pipe, ran, prompts>>
    BY <1>7 DEF Dial, DialFails, server
  <2>2. \A u \in Tasks : /\ at'[u].op = at[u].op /\ at'[u].n = at[u].n
                         /\ at'[u].pc = at[u].pc \/ at'[u].pc = "failed"
    <3>1. at' = at \/ at' = [at EXCEPT ![t] = [at[t] EXCEPT !.pc = "failed"]]
      BY <1>7 DEF Dial, DialFails, Become
    <3>2. CASE at' = at
      BY <3>2
    <3>3. CASE at' = [at EXCEPT ![t] = [at[t] EXCEPT !.pc = "failed"]]
      BY <1>1, <3>3 DEF Call, Doing
    <3> QED
      BY <3>1, <3>2, <3>3
  <2> QED
    BY <1>1, <2>1, <2>2, RunsSame DEF Runs, MayResend, Refused
<1>8. ASSUME NEW t \in Tasks, Greeted(t) \/ Connected(t) PROVE Runs'
  <2>1. /\ at[t].pc = "connecting" /\ Post(t, at[t]) /\ link' # "down"
        /\ UNCHANGED <<pipe, ran, prompts>>
    BY <1>8 DEF Greeted, Connected, server
  <2>2. Asking(t, at[t]) /\ at[t] \in Call(prompts)
    BY <1>1, <2>1, ItAsks
  <2> QED
    BY <2>1, <2>2, RunsPosts
<1>9. ASSUME NEW t \in Tasks, TimesOut(t) PROVE Runs'
  <2>1. /\ at' = Become(t, "failed") /\ UNCHANGED <<ran, prompts>>
        /\ up' = [i \in DOMAIN up |-> IF up[i].by = t
                                      THEN [up[i] EXCEPT !.by = None] ELSE up[i]]
        /\ pipe' = [i \in DOMAIN pipe |->
                      IF "to" \in DOMAIN pipe[i] /\ pipe[i].to = t
                      THEN [pipe[i] EXCEPT !.to = None] ELSE pipe[i]]
    BY <1>9 DEF TimesOut, server
  <2>2. \A i \in DOMAIN up' : i \in DOMAIN up /\ up'[i].op = up[i].op /\ up'[i].n = up[i].n
    <3>1. \A i \in DOMAIN up : up[i] \in Sending(prompts)
      BY <1>1
    <3> QED
      BY <2>1, <3>1 DEF Sending
  <2>3. Refused' => Refused
    <3>1. ASSUME NEW i \in DOMAIN pipe', IsTo(pipe'[i], "worker") PROVE pipe'[i] = pipe[i]
      <4>1. pipe[i] \in Frames(prompts)
        BY <1>1, <2>1
      <4>2. CASE IsTo(pipe[i], t)
        <5>1. pipe[i] \in Answers(prompts)
          BY <4>1, <4>2, FrameKinds DEF Frames, IsTo
        <5>2. pipe'[i].to = None
          BY <2>1, <4>2, <5>1 DEF Answers, IsTo
        <5> QED
          BY <3>1, <5>2 DEF IsTo, None
      <4>3. CASE ~IsTo(pipe[i], t)
        BY <2>1, <4>3 DEF IsTo
      <4> QED
        BY <4>2, <4>3
    <3> QED
      BY <2>1, <3>1 DEF Refused
  <2>4. \A u \in Tasks : /\ at'[u].op = at[u].op /\ at'[u].n = at[u].n
                         /\ at'[u].pc = at[u].pc \/ at'[u].pc = "failed"
    BY <1>1, <2>1 DEF Become, Call, Doing
  <2> QED
    BY <1>1, <2>1, <2>2, <2>3, <2>4, RunsSame DEF Runs, MayResend
<1>10. CASE Handle
  <2>1. /\ pipe # << >> /\ pipe' = Tail(pipe) /\ UNCHANGED <<up, ran, prompts>>
    BY <1>10 DEF Handle, server
  <2>2. \A t \in Tasks :
          /\ at'[t].op = at[t].op /\ at'[t].n = at[t].n
          /\ \/ at'[t].pc \in {at[t].pc, "answered"}
             \/ /\ IsTo(Head(pipe), t) /\ at'[t].pc = Head(pipe).kind
                /\ Head(pipe).kind \in {"error", "overloaded"}
    <3>1. Head(pipe) \in Frames(prompts)
      BY <1>1, <2>1, Popped
    <3>2. \A t : IsTo(Head(pipe), t) => Head(pipe).kind \in {"result", "error", "overloaded"}
      BY <3>1, FrameKinds DEF Frames, IsTo
    <3> QED
      BY <1>10, <3>2, ReaderReads
  <2>3. Refused' => Refused
    BY <1>1, <2>1, Popped DEF Refused
  <2>4. MayResend' => MayResend
    <3>1. CASE Refused'
      BY <2>3, <3>1 DEF MayResend
    <3>2. CASE at'["worker"].pc \in {"connecting", "overloaded", "error"}
      <4>1. CASE at'["worker"].pc \in {at["worker"].pc, "answered"}
        BY <3>2, <4>1 DEF MayResend
      <4>2. CASE IsTo(Head(pipe), "worker") /\ Head(pipe).kind \in {"error", "overloaded"}
        BY <1>1, <2>1, <4>2, Popped DEF MayResend, Refused
      <4> QED
        BY <1>1, <2>2, <4>1, <4>2
    <3> QED
      BY <3>1, <3>2 DEF MayResend
  <2> QED
    BY <1>1, <2>1, <2>2, <2>4, RunsSame DEF Runs
<1>11. CASE EchoExpires
  <2>1. UNCHANGED <<up, pipe, ran, prompts, at>>
    BY <1>11 DEF EchoExpires, server
  <2> QED
    BY <1>1, <2>1, RunsSame DEF Runs, MayResend, Refused
<1>12. ASSUME NEW r \in requests, Approve(r) PROVE Runs'
  <2>1. UNCHANGED <<pipe, ran, prompts, at>>
    BY <1>12 DEF Approve, Steady, Still, server
  <2>2. ~ \E i \in DOMAIN up' : up'[i].op \in Sends /\ (i \notin DOMAIN up \/ up'[i] # up[i])
    <3> DEFINE q == [by |-> None, op |-> "approve", n |-> r, text |-> None, turn |-> 0]
    <3>1. q.op \notin Sends /\ (up' = up \/ up' = Append(up, q))
      BY <1>12 DEF Approve, Sends
    <3> HIDE DEF q
    <3>2. CASE up' = Append(up, q)
      BY <1>1, <3>1, <3>2
    <3> QED
      BY <3>1, <3>2
  <2>3. \A i \in DOMAIN up' : up'[i].op \in Sends => i \in DOMAIN up /\ up'[i] = up[i]
    BY <2>2
  <2>4. Refused' = Refused /\ MayResend' = MayResend
    BY <2>1 DEF Refused, MayResend
  <2>5. \A n : Absent(n) => Absent(n)'
    BY <2>3 DEF Absent
  <2> QED
    BY <2>1, <2>3, <2>4, <2>5 DEF Runs
<1>13. ASSUME NEW t \in Tasks, NEW a, TaskAsks(t, a) PROVE Runs'
  BY <1>13, RunsPosts DEF TaskAsks, AsksPrompt, AsksOther, AsksAgain
<1>14. ASSUME NEW t \in Tasks, TaskEnds(t) PROVE Runs'
  <2>1. UNCHANGED <<up, pipe, ran, prompts>> /\ \A u \in Tasks : u # t => at'[u] = at[u]
    BY <1>1, <1>14 DEF TaskEnds, Become
  <2>2. CASE at' = [at EXCEPT ![t] = Idle]
    <3>1. at'[t].op \notin Sends
      BY <1>1, <2>2 DEF Idle, Sends, None
    <3> QED
      BY <1>1, <2>1, <3>1, RunsSame DEF Runs, MayResend, Refused
  <2>3. CASE at[t].pc = "overloaded" /\ at' = Become(t, "error")
    <3>1. at'[t].op = at[t].op /\ at'[t].n = at[t].n /\ at'[t].pc = "error"
      BY <1>1, <2>3 DEF Become, Call, Doing
    <3>2. MayResend' => MayResend
      BY <1>1, <2>1, <2>3, <3>1 DEF MayResend, Refused
    <3> QED
      BY <1>1, <2>1, <3>1, <3>2, RunsSame DEF Runs
  <2> QED
    BY <1>14, <2>2, <2>3 DEF TaskEnds
<1>15. CASE TaskStep
  BY <1>11, <1>12, <1>13, <1>14, <1>15, TasksAskOrEnd
<1>16. CASE UNCHANGED vars
  <2>1. UNCHANGED <<up, pipe, ran, prompts, at>>
    BY <1>16 DEF vars, server, line
  <2> QED
    BY <1>1, <2>1, RunsSame DEF Runs, MayResend, Refused
<1> QED
  BY <1>3, <1>4, <1>5, <1>6, <1>7, <1>8, <1>9, <1>10, <1>15, <1>16, NextSteps


-----------------------------------------------------------------------------
(* Prompts that are told of                                                *)

\* Frames say that prompt n, which says x, was run.
Hears(s, n, x) == \E i \in DOMAIN s : s[i].kind = "item" /\ s[i].n = n /\ s[i].text = x

LEMMA HearsJoined ==
  ASSUME NEW S, NEW s \in Seq(S), NEW u \in Seq(S), NEW n, NEW x
  PROVE  Hears(s \o u, n, x) <=> Hears(s, n, x) \/ Hears(u, n, x)
<1>1. ASSUME Hears(s, n, x) PROVE Hears(s \o u, n, x)
  BY <1>1, Joined DEF Hears
<1>2. ASSUME Hears(u, n, x) PROVE Hears(s \o u, n, x)
  <2>1. PICK i \in DOMAIN u : u[i].kind = "item" /\ u[i].n = n /\ u[i].text = x
    BY <1>2 DEF Hears
  <2>2. Len(s) + i \in DOMAIN (s \o u) /\ (s \o u)[Len(s) + i] = u[i]
    BY Joined
  <2> QED
    BY <2>1, <2>2 DEF Hears
<1>3. ASSUME Hears(s \o u, n, x) PROVE Hears(s, n, x) \/ Hears(u, n, x)
  BY <1>3, Joined DEF Hears
<1> QED
  BY <1>1, <1>2, <1>3

LEMMA HearsPopped ==
  ASSUME NEW S, NEW s \in Seq(S), s # << >>, NEW n, NEW x
  PROVE  Hears(s, n, x) <=> \/ Hears(Tail(s), n, x)
                            \/ Head(s).kind = "item" /\ Head(s).n = n /\ Head(s).text = x
<1>1. ASSUME Hears(s, n, x)
      PROVE  \/ Hears(Tail(s), n, x)
             \/ Head(s).kind = "item" /\ Head(s).n = n /\ Head(s).text = x
  BY <1>1, Popped DEF Hears
<1>2. ASSUME Hears(Tail(s), n, x) PROVE Hears(s, n, x)
  BY <1>2, Popped DEF Hears
<1>3. ASSUME Head(s).kind = "item" /\ Head(s).n = n /\ Head(s).text = x PROVE Hears(s, n, x)
  BY <1>3, Popped DEF Hears
<1> QED
  BY <1>1, <1>2, <1>3

LEMMA HearsNothing ==
  ASSUME NEW w, NoItems(w), NEW n, NEW x
  PROVE  ~Hears(w, n, x)
  BY DEF NoItems, Hears

LEMMA HearsItem ==
  ASSUME NEW p, NEW m \in Given(p), NEW y \in Texts, NEW v, v = << >> \/ v = TurnFrame("turn", m),
         NEW n, NEW x
  PROVE  Hears(v \o Item(m, y), n, x) <=> n = m /\ x = y
<1> DEFINE f == [kind |-> "item", n |-> m, text |-> y]
           g == [kind |-> "turn", n |-> m]
<1>1. f \in News(p) /\ g \in News(p)
  BY ItsFrames
<1>2. Item(m, y) = << f, f >> /\ TurnFrame("turn", m) = << g >>
  BY DEF Item, TurnFrame
<1>3. f.kind = "item" /\ f.n = m /\ f.text = y /\ g.kind = "turn"
  OBVIOUS
<1> HIDE DEF f, g
<1>4. Hears(<< f, f >>, n, x) <=> n = m /\ x = y
  <2>1. DOMAIN << f, f >> = {1, 2} /\ << f, f >>[1] = f /\ << f, f >>[2] = f
    OBVIOUS
  <2> QED
    BY <1>3, <2>1 DEF Hears
<1>5. ~Hears(<< g >>, n, x) /\ ~Hears(<< >>, n, x)
  <2>1. DOMAIN << g >> = {1} /\ << g >>[1] = g /\ DOMAIN << >> = {}
    OBVIOUS
  <2> QED
    BY <1>3, <2>1 DEF Hears
<1>6. ~Hears(v, n, x)
  BY <1>2, <1>5
<1>7. << >> \in Seq(News(p)) /\ << g >> \in Seq(News(p)) /\ << f, f >> \in Seq(News(p))
  BY <1>1
<1>8. v \in Seq(News(p))
  BY <1>2, <1>7
<1> QED
  BY <1>2, <1>4, <1>6, <1>7, <1>8, HearsJoined

\* What the server says of a prompt that it runs, and else.
LEMMA HearsServed ==
  ASSUME Shape, NEW q \in Sending(prompts), NEW w, NEW a, NEW n, NEW x,
         Approved(q, w) \/ Serves(q, w, a)
  PROVE  Hears(pipe', n, x) <=>
           \/ Hears(pipe, n, x)
           \/ Serves(q, w, a) /\ Ran(q, w) /\ thread.subscribed /\ n = q.n /\ x = q.text
<1>1. pipe \in Seq(Frames(prompts))
  BY DEF Shape
<1>2. w \in Seq(News(prompts)) /\ (~thread.subscribed => w = << >>)
  BY DEF Approved, Serves, Tells
<1>3. w \in Seq(Frames(prompts))
  BY <1>2 DEF Frames
<1>4. CASE Approved(q, w)
  <2>1. pipe' = pipe \o w /\ NoItems(w) /\ ~Serves(q, w, a)
    BY <1>4 DEF Approved, Serves
  <2>2. Hears(pipe \o w, n, x) <=> Hears(pipe, n, x) \/ Hears(w, n, x)
    BY <1>1, <1>3, HearsJoined
  <2> QED
    BY <2>1, <2>2, HearsNothing
<1>5. CASE Serves(q, w, a)
  <2>1. a \in Answers(prompts) /\ (pipe' = (pipe \o << a >>) \o w \/ pipe' = (pipe \o w) \o << a >>)
    BY <1>5 DEF Serves
  <2>2. a.kind # "item" /\ << a >> \in Seq(Frames(prompts))
    BY <2>1 DEF Answers, Frames
  <2>3. ~Hears(<< a >>, n, x)
    <3>1. DOMAIN << a >> = {1} /\ << a >>[1] = a
      OBVIOUS
    <3> QED
      BY <2>2, <3>1 DEF Hears
  <2>4. Hears(pipe', n, x) <=> Hears(pipe, n, x) \/ Hears(w, n, x)
    <3>1. pipe \o << a >> \in Seq(Frames(prompts)) /\ pipe \o w \in Seq(Frames(prompts))
      BY <1>1, <1>3, <2>2
    <3>2. CASE pipe' = (pipe \o << a >>) \o w
      <4>1. Hears((pipe \o << a >>) \o w, n, x)
              <=> Hears(pipe \o << a >>, n, x) \/ Hears(w, n, x)
        BY <1>3, <3>1, HearsJoined
      <4>2. Hears(pipe \o << a >>, n, x) <=> Hears(pipe, n, x) \/ Hears(<< a >>, n, x)
        BY <1>1, <2>2, HearsJoined
      <4> QED
        BY <2>3, <3>2, <4>1, <4>2
    <3>3. CASE pipe' = (pipe \o w) \o << a >>
      <4>1. Hears((pipe \o w) \o << a >>, n, x)
              <=> Hears(pipe \o w, n, x) \/ Hears(<< a >>, n, x)
        BY <2>2, <3>1, HearsJoined
      <4>2. Hears(pipe \o w, n, x) <=> Hears(pipe, n, x) \/ Hears(w, n, x)
        BY <1>1, <1>3, HearsJoined
      <4> QED
        BY <2>3, <3>3, <4>1, <4>2
    <3> QED
      BY <2>1, <3>2, <3>3
  <2>5. CASE Other(q, w, a)
    <3>1. NoItems(w)
      BY <2>5 DEF Other
    <3>2. Ran(q, w) /\ thread.subscribed => FALSE
      <4> SUFFICES ASSUME Ran(q, w), thread.subscribed PROVE FALSE
        OBVIOUS
      <4>1. PICK v : /\ (v = << >> \/ v = TurnFrame("turn", q.n))
                      /\ w = v \o Item(q.n, q.text)
        BY DEF Ran
      <4>2. q.n \in Given(prompts) /\ q.text \in Texts
        BY DEF Ran, Sending, Told
      <4>3. Hears(w, q.n, q.text)
        BY <4>1, <4>2, HearsItem
      <4> QED
        BY <3>1, <4>3, HearsNothing
    <3> QED
      BY <2>4, <3>1, <3>2, HearsNothing
  <2>6. CASE Ran(q, w)
    <3>1. CASE thread.subscribed
      <4>1. PICK v : /\ (v = << >> \/ v = TurnFrame("turn", q.n))
                      /\ w = v \o Item(q.n, q.text)
        BY <2>6, <3>1 DEF Ran
      <4>2. q.n \in Given(prompts) /\ q.text \in Texts
        BY <2>6 DEF Ran, Sending, Told
      <4>3. Hears(w, n, x) <=> n = q.n /\ x = q.text
        BY <4>1, <4>2, HearsItem
      <4> QED
        BY <1>5, <2>4, <2>6, <3>1, <4>3
    <3>2. CASE ~thread.subscribed
      <4>1. ~Hears(w, n, x)
        BY <1>2, <3>2 DEF Hears
      <4> QED
        BY <2>4, <3>2, <4>1
    <3> QED
      BY <3>1, <3>2
  <2> QED
    BY <1>5, <2>5, <2>6 DEF Serves
<1> QED
  BY <1>4, <1>5

\* What the server and the TUI tell by themselves.
LEMMA HearsAnnounced ==
  ASSUME Shape, NEW w, Announces(w), NEW n, NEW x
  PROVE  Hears(pipe', n, x) <=> Hears(pipe, n, x)
<1>1. pipe \in Seq(Frames(prompts)) /\ w \in Seq(Frames(prompts)) /\ pipe' = pipe \o w /\ NoItems(w)
  BY DEF Shape, Announces, Frames
<1> QED
  BY <1>1, HearsJoined, HearsNothing

LEMMA HearsTyped ==
  ASSUME Shape, NEW x \in Texts, NEW w, Types(x, w), NEW n, NEW y
  PROVE  Hears(pipe', n, y) <=>
           Hears(pipe, n, y) \/ (thread.subscribed /\ n = prompts + 1 /\ y = x)
<1>1. /\ prompts' = prompts + 1 /\ prompts' \in Given(prompts') /\ prompts \in Nat
      /\ pipe' = pipe \o w /\ w \in Seq(News(prompts')) /\ pipe \in Seq(Frames(prompts))
  BY DEF Shape, Types
<1>2. pipe \in Seq(Frames(prompts')) /\ w \in Seq(Frames(prompts'))
  <2>1. Frames(prompts) \subseteq Frames(prompts')
    BY <1>1, Grown
  <2> QED
    BY <1>1, <2>1 DEF Frames
<1>3. Hears(pipe', n, y) <=> Hears(pipe, n, y) \/ Hears(w, n, y)
  BY <1>1, <1>2, HearsJoined
<1>4. CASE thread.subscribed
  <2>1. PICK v : /\ (v = << >> \/ v = TurnFrame("turn", prompts'))
                    /\ w = v \o Item(prompts', x)
    BY <1>4 DEF Types
  <2>2. Hears(w, n, y) <=> n = prompts' /\ y = x
    BY <1>1, <2>1, HearsItem
  <2> QED
    BY <1>1, <1>3, <1>4, <2>2
<1>5. CASE ~thread.subscribed
  <2>1. ~Hears(w, n, y)
    BY <1>5 DEF Types, Hears
  <2> QED
    BY <1>3, <1>5, <2>1
<1> QED
  BY <1>4, <1>5

\* Nobody has been told of prompt n.
Unheard(n) == n \notin seen /\ \A x : ~Hears(pipe, n, x)

Resulted == \E i \in DOMAIN pipe : IsTo(pipe[i], "worker") /\ pipe[i].kind = "result"

OneText == \A n, x, y : Hears(pipe, n, x) /\ Hears(pipe, n, y) => x = y

\* A prompt on its way is the worker's, or its text has slipped.
Mine(q) == at["worker"].op \in Sends /\ at["worker"].n = q.n
SendsKnown ==
    \A i \in DOMAIN up : up[i].op \in Sends =>
        /\ Unheard(up[i].n)
        /\ up[i].text \in slipped \/ Mine(up[i])
        /\ Mine(up[i]) => at["worker"].text = up[i].text

WorkerKnown ==
    at["worker"].op \in Sends =>
        /\ ran[at["worker"].n] = 0 => Unheard(at["worker"].n)
        /\ at["worker"].pc = "answered" \/ Resulted => ran[at["worker"].n] # 0
        /\ \A e \in echoes : e.n = at["worker"].n => e.text = at["worker"].text

EchoesKnown == \A d, e \in echoes : d.n = e.n => d = e

Known == OneText /\ SendsKnown /\ WorkerKnown /\ EchoesKnown

LEMMA KnownSame ==
  ASSUME Shape, Known, ran' = ran, OneText',
         \A n \in Given(prompts) : Unheard(n) => Unheard(n)',
         \A i \in DOMAIN up' : up'[i].op \in Sends =>
            \E j \in DOMAIN up : /\ up[j].op \in Sends /\ up[j].n = up'[i].n
                                 /\ up[j].text = up'[i].text,
         slipped \subseteq slipped', echoes' \subseteq echoes,
         \/ /\ at'["worker"].op = at["worker"].op /\ at'["worker"].n = at["worker"].n
            /\ at'["worker"].text = at["worker"].text
            /\ (at["worker"].op \in Sends => (at'["worker"].pc = "answered" \/ Resulted'
                   => at["worker"].pc = "answered" \/ Resulted))
         \/ /\ at'["worker"].op \notin Sends
            /\ (at["worker"].op \in Sends =>
                  at["worker"].text \in slipped' \/ Absent(at["worker"].n))
  PROVE  Known'
<1>1. /\ \A i \in DOMAIN up : up[i].op \in Sends => up[i].n \in Given(prompts)
      /\ at["worker"].op \in Sends => at["worker"].n \in Given(prompts)
  BY DEF Shape, Sending, Call, Told, Tasks
<1>2. SendsKnown'
  <2> SUFFICES ASSUME NEW i \in DOMAIN up', up'[i].op \in Sends
               PROVE  /\ Unheard(up[i].n)'
                      /\ up'[i].text \in slipped' \/ Mine(up[i])'
                      /\ Mine(up[i])' => at'["worker"].text = up'[i].text
    BY DEF SendsKnown
  <2>1. PICK j \in DOMAIN up : /\ up[j].op \in Sends /\ up[j].n = up'[i].n
                               /\ up[j].text = up'[i].text
    OBVIOUS
  <2>2. Unheard(up[j].n) /\ up[j].n \in Given(prompts)
    BY <1>1, <2>1 DEF Known, SendsKnown
  <2>3. \A n : n = up'[i].n /\ Unheard(n) /\ n \in Given(prompts) => Unheard(up[i].n)'
    BY DEF Unheard
  <2>4. /\ up[j].text \in slipped \/ Mine(up[j])
        /\ Mine(up[j]) => at["worker"].text = up[j].text
    BY <2>1 DEF Known, SendsKnown
  <2>5. Absent(at["worker"].n) => up[j].n # at["worker"].n
    BY <2>1 DEF Absent
  <2> QED
    BY <2>1, <2>2, <2>3, <2>4, <2>5 DEF Mine
<1>3. WorkerKnown'
  <2> SUFFICES ASSUME at'["worker"].op \in Sends
               PROVE  /\ ran'[at'["worker"].n] = 0 => Unheard(at["worker"].n)'
                      /\ at'["worker"].pc = "answered" \/ Resulted' => ran'[at'["worker"].n] # 0
                      /\ \A e \in echoes' : e.n = at'["worker"].n => e.text = at'["worker"].text
    BY DEF WorkerKnown
  <2>1. /\ at'["worker"].op = at["worker"].op /\ at'["worker"].n = at["worker"].n
        /\ at'["worker"].text = at["worker"].text
        /\ at'["worker"].pc = "answered" \/ Resulted' => at["worker"].pc = "answered" \/ Resulted
    OBVIOUS
  <2>2. \A n : n = at'["worker"].n /\ Unheard(n) /\ n \in Given(prompts) => Unheard(at["worker"].n)'
    BY DEF Unheard
  <2> QED
    BY <1>1, <2>1, <2>2 DEF Known, WorkerKnown
<1>4. EchoesKnown'
  BY DEF Known, EchoesKnown
<1> QED
  BY <1>2, <1>3, <1>4 DEF Known

\* The server runs a prompt, and its item is told.
LEMMA KnownRan ==
  ASSUME CodexAssumption, Shape, Waiting, Runs, Known,
         NEW q \in Sending(prompts), NEW w, NEW a,
         Serves(q, w, a), Ran(q, w), a.kind = "result",
         UNCHANGED <<at, prompts, echoes, seen>>
  PROVE  Known'
<1>1. /\ up # << >> /\ up' = Tail(up) /\ q = Head(up) /\ w \in Seq(News(prompts))
      /\ a \in Answers(prompts) /\ a.to = q.by
      /\ up \in Seq(Sending(prompts)) /\ pipe \in Seq(Frames(prompts))
      /\ prompts \in 0 .. MaxPrompts /\ MaxPrompts \in Nat /\ ran \in [1 .. MaxPrompts -> Nat]
      /\ q.op \in Sends
  BY DEF Serves, Tells, Shape, CodexAssumption, Ran
<1>2. /\ 1 \in DOMAIN up /\ up[1] = q
      /\ \A i \in DOMAIN up' : i + 1 \in DOMAIN up /\ i + 1 # 1 /\ up'[i] = up[i + 1]
  BY <1>1, Popped
<1>3. \A n, x : Hears(pipe', n, x) =>
        Hears(pipe, n, x) \/ (thread.subscribed /\ n = q.n /\ x = q.text)
  BY HearsServed
<1>4. Unheard(q.n) /\ q.n \in Given(prompts) /\ q.n \in 1 .. MaxPrompts
  BY <1>1, <1>2 DEF Known, SendsKnown, Sending, Told, Given
<1>5. \A n : Unheard(n) /\ n # q.n => Unheard(n)'
  BY <1>3 DEF Unheard
<1>6. OneText'
  BY <1>3, <1>4 DEF Known, OneText, Unheard
<1>7. ran[q.n] = 0 /\ ran' = [ran EXCEPT ![q.n] = 1]
  <2>1. ran[q.n] = 0
    BY <1>1, <1>2 DEF Runs
  <2>2. ran' = [ran EXCEPT ![q.n] = IF ran[q.n] < 2 THEN ran[q.n] + 1 ELSE ran[q.n]]
    BY DEF Ran
  <2> QED
    BY <2>1, <2>2
<1>8. SendsKnown'
  <2> SUFFICES ASSUME NEW i \in DOMAIN up', up'[i].op \in Sends
               PROVE  /\ Unheard(up[i].n)'
                      /\ up'[i].text \in slipped' \/ Mine(up[i])'
                      /\ Mine(up[i])' => at'["worker"].text = up'[i].text
    BY DEF SendsKnown
  <2>1. i + 1 \in DOMAIN up /\ up[i + 1].op \in Sends /\ up'[i] = up[i + 1]
    BY <1>2
  <2>2. up[i + 1].n # q.n
    BY <1>1, <1>2, <2>1 DEF Runs
  <2>3. Unheard(up[i + 1].n)
    BY <2>1 DEF Known, SendsKnown
  <2>4. Unheard(up[i].n)'
    <3>1. \A n : n = up'[i].n /\ Unheard(n)' => Unheard(up[i].n)'
      BY DEF Unheard
    <3> QED
      BY <1>5, <2>1, <2>2, <2>3, <3>1
  <2>5. slipped \subseteq slipped'
    BY DEF Ran
  <2> QED
    BY <2>1, <2>4, <2>5 DEF Known, SendsKnown, Mine
<1>9. WorkerKnown'
  <2> SUFFICES ASSUME at["worker"].op \in Sends
               PROVE  /\ ran'[at["worker"].n] = 0 => Unheard(at["worker"].n)'
                      /\ at["worker"].pc = "answered" \/ Resulted' => ran'[at["worker"].n] # 0
                      /\ \A e \in echoes : e.n = at["worker"].n => e.text = at["worker"].text
    BY DEF WorkerKnown
  <2>1. at["worker"].n \in Given(prompts) /\ at["worker"].n \in 1 .. MaxPrompts
    BY <1>1 DEF Shape, Call, Told, Tasks, Given
  <2>2. CASE at["worker"].n = q.n
    <3>1. ran'[at["worker"].n] = 1
      BY <1>1, <1>7, <2>1, <2>2
    <3> QED
      BY <3>1 DEF Known, WorkerKnown
  <2>3. CASE at["worker"].n # q.n
    <3>1. ran'[at["worker"].n] = ran[at["worker"].n]
      BY <1>1, <1>7, <2>1, <2>3
    <3>2. q.by # "worker"
      BY <1>1, <1>2, <2>3 DEF Waiting, Tasks
    <3>3. Resulted' => Resulted
      <4>1. PICK k \in DOMAIN pipe' : AnswerAt(prompts, pipe, a, pipe', k)
        <5>1. w \in Seq(News(prompts))
          BY <1>1
        <5>2. a \in Answers(prompts)
          BY <1>1
        <5>3. pipe \in Seq(Frames(prompts))
          BY <1>1
        <5>4. pipe' = (pipe \o << a >>) \o w \/ pipe' = (pipe \o w) \o << a >>
          BY DEF Serves
        <5> QED
          BY <5>1, <5>2, <5>3, <5>4, AnswerAdded
      <4>2. ~IsTo(a, "worker")
        BY <1>1, <3>2 DEF IsTo
      <4> QED
        BY <4>1, <4>2 DEF Resulted, AnswerAt
    <3>4. ran[at["worker"].n] = 0 => Unheard(at["worker"].n)'
      <4>1. \A n : n = at["worker"].n /\ Unheard(n)' => Unheard(at["worker"].n)'
        BY DEF Unheard
      <4> QED
        BY <1>5, <2>3, <4>1 DEF Known, WorkerKnown
    <3> QED
      BY <3>1, <3>3, <3>4 DEF Known, WorkerKnown
  <2> QED
    BY <2>2, <2>3
<1>10. EchoesKnown'
  BY DEF Known, EchoesKnown
<1> QED
  BY <1>6, <1>8, <1>9, <1>10 DEF Known

\* The worker asks for a prompt, a new one or once more.
LEMMA KnownAsks ==
  ASSUME CodexAssumption, Shape, Waiting, Runs, Known, NEW t \in Tasks, NEW a, TaskAsks(t, a),
         AsksPrompt(t, a) \/ AsksAgain(t, a)
  PROVE  Known'
<1>1. /\ prompts \in 0 .. MaxPrompts /\ MaxPrompts \in Nat /\ ran \in [1 .. MaxPrompts -> Nat]
      /\ at \in [Tasks -> Call(prompts)] /\ up \in Seq(Sending(prompts))
      /\ pipe \in Seq(Frames(prompts)) /\ seen \subseteq Given(prompts)
      /\ echoes \subseteq [n : Given(prompts), text : Texts]
      /\ at[t].pc # "asked" /\ a \in Call(prompts') /\ Asking(t, a)
      /\ UNCHANGED <<pipe, ran, seen, slipped>> /\ "worker" \in Tasks
  BY DEF Shape, CodexAssumption, TaskAsks, Tasks
<1>2. /\ \A u \in Tasks : u # t => at'[u] = at[u]
      /\ at'[t].op = a.op /\ at'[t].n = a.n /\ at'[t].text = a.text
      /\ at'[t].pc \in {"connecting", "asked"}
  <2>1. PICK v \in {"connecting", "asked"} : at' = [at EXCEPT ![t] = [a EXCEPT !.pc = v]]
    BY <1>1, Zenon DEF Asking
  <2>2. a \in Doing
    BY <1>1 DEF Call
  <2>3. /\ [a EXCEPT !.pc = v].op = a.op /\ [a EXCEPT !.pc = v].n = a.n
        /\ [a EXCEPT !.pc = v].text = a.text /\ [a EXCEPT !.pc = v].pc = v
    BY <2>2 DEF Doing
  <2>4. at'[t] = [a EXCEPT !.pc = v] /\ \A u \in Tasks : u # t => at'[u] = at[u]
    BY <1>1, <2>1
  <2> QED
    BY <2>3, <2>4
<1>3. \A i \in DOMAIN up' :
        \/ i \in DOMAIN up /\ up'[i] = up[i]
        \/ up'[i].by = t /\ up'[i].op = a.op /\ up'[i].n = a.n /\ up'[i].text = a.text
  <2> DEFINE q == [by |-> t, op |-> a.op, n |-> a.n, text |-> a.text, turn |-> a.turn]
  <2>1. up' = up \/ up' = Append(up, q)
    BY <1>1 DEF Asking
  <2>2. q.by = t /\ q.op = a.op /\ q.n = a.n /\ q.text = a.text
    OBVIOUS
  <2> HIDE DEF q
  <2>3. CASE up' = Append(up, q)
    BY <1>1, <2>2, <2>3
  <2> QED
    BY <2>1, <2>3
<1>4. \A n : Unheard(n)' <=> Unheard(n)
  BY <1>1 DEF Unheard
<1>5. OneText'
  BY <1>1 DEF Known, OneText
<1>6. CASE AsksPrompt(t, a)
  <2>1. /\ prompts' = prompts + 1 /\ prompts' \in Given(MaxPrompts) /\ t = "worker"
        /\ at[t] = Idle /\ a.n = prompts' /\ a.op \in Sends /\ a.text \in Texts
        /\ echoes' = echoes \union {[n |-> prompts', text |-> a.text]}
    BY <1>6 DEF AsksPrompt, Expects
  <2>2. at["worker"].op \notin Sends
    BY <2>1 DEF Idle, Sends, None
  <2>3. /\ \A n \in Given(prompts) : n # a.n
        /\ ran[a.n] = 0
    BY <1>1, <2>1 DEF Given, Runs
  <2>4. ASSUME NEW x PROVE ~Hears(pipe, a.n, x)
    <3>1. \A i \in DOMAIN pipe : pipe[i] \in Frames(prompts)
      BY <1>1
    <3>2. \A i \in DOMAIN pipe : pipe[i].kind = "item" => pipe[i].n \in Given(prompts)
      BY <3>1, FrameKinds
    <3> QED
      BY <2>3, <3>2 DEF Hears
  <2>5. Unheard(a.n)
    BY <1>1, <2>3, <2>4 DEF Unheard
  <2>6. ~Resulted
    BY <1>1, <2>1 DEF Waiting, Resulted
  <2>11. \A i \in DOMAIN up : up[i].op \in Sends => up[i].n \in Given(prompts)
    BY <1>1 DEF Sending, Told
  <2>7. SendsKnown'
    <3> SUFFICES ASSUME NEW i \in DOMAIN up', up'[i].op \in Sends
                 PROVE  /\ Unheard(up[i].n)'
                        /\ up'[i].text \in slipped' \/ Mine(up[i])'
                        /\ Mine(up[i])' => at'["worker"].text = up'[i].text
      BY DEF SendsKnown
    <3>1. \A n : n = up'[i].n /\ Unheard(n)' => Unheard(up[i].n)'
      BY DEF Unheard
    <3> QED
      BY <1>1, <1>2, <1>3, <1>4, <2>1, <2>2, <2>3, <2>5, <2>11, <3>1 DEF Known, SendsKnown, Mine
  <2>8. WorkerKnown'
    <3>1. \A n : n = at'["worker"].n /\ Unheard(n)' => Unheard(at["worker"].n)'
      BY DEF Unheard
    <3>2. Unheard(at["worker"].n)'
      BY <1>2, <1>4, <2>1, <2>5, <3>1
    <3>3. at'["worker"].pc # "answered" /\ ~Resulted'
      BY <1>1, <1>2, <2>1, <2>6 DEF Resulted
    <3>4. \A e \in echoes' : e.n = at'["worker"].n => e.text = at'["worker"].text
      BY <1>1, <1>2, <2>1, <2>3
    <3> QED
      BY <3>2, <3>3, <3>4 DEF WorkerKnown
  <2>9. EchoesKnown'
    BY <1>1, <2>1, <2>3 DEF Known, EchoesKnown
  <2> QED
    BY <1>5, <2>7, <2>8, <2>9 DEF Known
<1>7. CASE AsksAgain(t, a)
  <2>1. /\ prompts' = prompts /\ echoes' = echoes /\ at[t].pc \in {"overloaded", "connecting"}
        /\ a.op = at[t].op /\ a.n = at[t].n /\ a.text = at[t].text
    BY <1>7 DEF AsksAgain
  <2>2. /\ at'["worker"].op = at["worker"].op /\ at'["worker"].n = at["worker"].n
        /\ at'["worker"].text = at["worker"].text
        /\ at'["worker"].pc = "answered" => at["worker"].pc = "answered"
    BY <1>1, <1>2, <2>1
  <2>3. a.op \in Sends => t = "worker" /\ Unheard(a.n)
    <3>1. a.op \in Sends => t = "worker"
      BY <2>1 DEF Runs, Tasks
    <3> QED
      BY <2>1, <3>1 DEF Runs, MayResend, Known, WorkerKnown
  <2>4. SendsKnown'
    <3> SUFFICES ASSUME NEW i \in DOMAIN up', up'[i].op \in Sends
                 PROVE  /\ Unheard(up[i].n)'
                        /\ up'[i].text \in slipped' \/ Mine(up[i])'
                        /\ Mine(up[i])' => at'["worker"].text = up'[i].text
      BY DEF SendsKnown
    <3>1. \A n : n = up'[i].n /\ Unheard(n)' => Unheard(up[i].n)'
      BY DEF Unheard
    <3> QED
      BY <1>1, <1>2, <1>3, <1>4, <2>1, <2>2, <2>3, <3>1, SMTT(30) DEF Known, SendsKnown, Mine
  <2>5. WorkerKnown'
    <3>1. \A n : n = at'["worker"].n /\ Unheard(n)' => Unheard(at["worker"].n)'
      BY DEF Unheard
    <3>2. Resulted' => Resulted
      BY <1>1 DEF Resulted
    <3> QED
      BY <1>1, <1>4, <2>1, <2>2, <3>1, <3>2 DEF Known, WorkerKnown
  <2>6. EchoesKnown'
    BY <2>1 DEF Known, EchoesKnown
  <2> QED
    BY <1>5, <2>4, <2>5, <2>6 DEF Known
<1> QED
  BY <1>6, <1>7

\* Nothing new is told.
LEMMA Quieter ==
  ASSUME OneText, \A n, x : Hears(pipe', n, x) => Hears(pipe, n, x),
         \A n \in seen' : n \in seen \/ \E x : Hears(pipe, n, x)
  PROVE  OneText' /\ \A n : Unheard(n) => Unheard(n)'
  BY DEF OneText, Unheard

LEMMA ResultsRead ==
  ASSUME NEW p, NEW w \in Seq(News(p)), pipe \in Seq(Frames(p)), pipe' = pipe \o w
  PROVE  Resulted' => Resulted
<1>1. /\ \A i \in DOMAIN pipe : i \in DOMAIN pipe' /\ pipe'[i] = pipe[i]
      /\ \A i \in DOMAIN pipe' : \A t : IsTo(pipe'[i], t) => i \in DOMAIN pipe
  BY NewsAdded
<1> QED
  BY <1>1 DEF Resulted

\* The connection came up, and the task goes on to its request.
LEMMA LinkAsks ==
  ASSUME Shape, NEW t \in Tasks, Greeted(t) \/ Connected(t)
  PROVE  TaskAsks(t, at[t])
<1>1. /\ at[t].pc = "connecting" /\ Post(t, at[t]) /\ link' # "down"
      /\ UNCHANGED <<server, pipe, view, ledger, raced>>
  BY DEF Greeted, Connected
<1>2. Asking(t, at[t]) /\ at[t] \in Call(prompts)
  BY <1>1, ItAsks DEF Shape
<1>3. prompts' = prompts /\ echoes' = echoes
  BY <1>1 DEF server, ledger
<1>4. AsksAgain(t, at[t])
  BY <1>1, <1>3 DEF AsksAgain
<1> QED
  BY <1>1, <1>2, <1>3, <1>4 DEF TaskAsks, server, view, ledger, NotClosed

\* Where the tasks are when the connection ends or an answer is given up.
LEMMA Dropped ==
  ASSUME Shape, Drop
  PROVE  \A t \in Tasks : /\ at'[t].op = at[t].op /\ at'[t].n = at[t].n /\ at'[t].text = at[t].text
                          /\ at'[t].pc = at[t].pc \/ (at[t].pc = "asked" /\ at'[t].pc = "failed")
<1> SUFFICES ASSUME NEW t \in Tasks
             PROVE  /\ at'[t].op = at[t].op /\ at'[t].n = at[t].n /\ at'[t].text = at[t].text
                    /\ at'[t].pc = at[t].pc \/ (at[t].pc = "asked" /\ at'[t].pc = "failed")
  OBVIOUS
<1>1. at[t] \in Call(prompts)
  BY DEF Shape
<1>2. Failed[t] = IF at[t].pc = "asked" THEN [at[t] EXCEPT !.pc = "failed"] ELSE at[t]
  BY DEF Failed
<1>3. Failed[t] \in Doing /\ Failed[t].op = at[t].op /\ Failed[t].n = at[t].n
      /\ Failed[t].text = at[t].text
      /\ (Failed[t].pc = at[t].pc \/ (at[t].pc = "asked" /\ Failed[t].pc = "failed"))
  BY <1>1, <1>2 DEF Call, Doing
<1>4. at'[t] = IF Failed[t].pc = "answered"
               THEN [Failed[t] EXCEPT !.moved = @ \union {"turn", "child"}] ELSE Failed[t]
  BY DEF Drop, Overtake
<1> QED
  BY <1>3, <1>4 DEF Doing

\* The dial, or waiting, is given up.
LEMMA GivenUp ==
  ASSUME Shape, NEW t \in Tasks, Dial(t) \/ DialFails(t) \/ TimesOut(t)
  PROVE  /\ UNCHANGED <<server, view, ledger, raced>>
         /\ \A u \in Tasks : /\ at'[u].op = at[u].op /\ at'[u].n = at[u].n
                             /\ at'[u].text = at[u].text
                             /\ \/ at'[u].pc = at[u].pc
                                \/ at[u].pc \in {"asked", "connecting"} /\ at'[u].pc = "failed"
         /\ DOMAIN up' = DOMAIN up /\ DOMAIN pipe' = DOMAIN pipe
         /\ \A i \in DOMAIN up : /\ up'[i].op = up[i].op /\ up'[i].n = up[i].n
                                 /\ up'[i].text = up[i].text
                                 /\ \A u \in Tasks : up'[i].by = u => up[i].by = u
         /\ \A i \in DOMAIN pipe : \/ pipe'[i] = pipe[i]
                                   \/ /\ pipe[i].kind # "item" /\ pipe'[i].kind # "item"
                                      /\ \A u \in Tasks : ~IsTo(pipe'[i], u)
<1>1. /\ at \in [Tasks -> Call(prompts)] /\ up \in Seq(Sending(prompts))
      /\ pipe \in Seq(Frames(prompts))
  BY DEF Shape
<1>2. CASE Dial(t)
  BY <1>2 DEF Dial
<1>3. ASSUME at' = Become(t, "failed"), at[t].pc \in {"asked", "connecting"}
      PROVE  \A u \in Tasks : /\ at'[u].op = at[u].op /\ at'[u].n = at[u].n
                              /\ at'[u].text = at[u].text
                              /\ \/ at'[u].pc = at[u].pc
                                 \/ at[u].pc \in {"asked", "connecting"} /\ at'[u].pc = "failed"
  BY <1>1, <1>3 DEF Become, Call, Doing
<1>4. CASE DialFails(t)
  BY <1>3, <1>4 DEF DialFails
<1>5. CASE TimesOut(t)
  <2>1. /\ at' = Become(t, "failed") /\ at[t].pc = "asked"
        /\ UNCHANGED <<server, view, ledger, raced>>
        /\ up' = [i \in DOMAIN up |-> IF up[i].by = t
                                      THEN [up[i] EXCEPT !.by = None] ELSE up[i]]
        /\ pipe' = [i \in DOMAIN pipe |->
                      IF "to" \in DOMAIN pipe[i] /\ pipe[i].to = t
                      THEN [pipe[i] EXCEPT !.to = None] ELSE pipe[i]]
    BY <1>5 DEF TimesOut
  <2>2. \A i \in DOMAIN up : /\ up'[i].op = up[i].op /\ up'[i].n = up[i].n
                             /\ up'[i].text = up[i].text
                             /\ \A u \in Tasks : up'[i].by = u => up[i].by = u
    <3>1. \A i \in DOMAIN up : up[i] \in Sending(prompts)
      BY <1>1
    <3>2. None \notin Tasks
      BY DEF None, Tasks
    <3> QED
      BY <2>1, <3>1, <3>2 DEF Sending
  <2>3. ASSUME NEW i \in DOMAIN pipe
        PROVE  \/ pipe'[i] = pipe[i]
               \/ /\ pipe[i].kind # "item" /\ pipe'[i].kind # "item"
                  /\ \A u \in Tasks : ~IsTo(pipe'[i], u)
    <3>1. pipe[i] \in Frames(prompts)
      BY <1>1
    <3>2. CASE IsTo(pipe[i], t)
      <4>1. pipe[i] \in Answers(prompts) /\ pipe'[i] = [pipe[i] EXCEPT !.to = None]
        BY <2>1, <3>1, <3>2, FrameKinds DEF Frames, IsTo
      <4> QED
        BY <4>1 DEF Answers, IsTo, None, Tasks
    <3>3. CASE ~IsTo(pipe[i], t)
      BY <2>1, <3>3 DEF IsTo
    <3> QED
      BY <3>2, <3>3
  <2> QED
    BY <1>3, <2>1, <2>2, <2>3
<1> QED
  BY <1>2, <1>4, <1>5

\* An approval sends no prompt.
LEMMA ApprovalSends ==
  ASSUME Shape, NEW r \in requests, Approve(r)
  PROVE  /\ UNCHANGED <<server, pipe, link, at, active, child, seen, created, ledger, raced>>
         /\ \A i \in DOMAIN up' : \/ i \in DOMAIN up /\ up'[i] = up[i]
                                  \/ up'[i].op = "approve" /\ up'[i].by = None /\ i \notin DOMAIN up
         /\ \A i \in DOMAIN up : i \in DOMAIN up' /\ up'[i] = up[i]
<1> DEFINE q == [by |-> None, op |-> "approve", n |-> r, text |-> None, turn |-> 0]
<1>1. /\ q.op = "approve" /\ q.by = None /\ (up' = up \/ up' = Append(up, q))
      /\ UNCHANGED <<server, pipe, link, at, active, child, seen, created, ledger, raced>>
  BY DEF Approve, Steady, Still
<1>2. up \in Seq(Sending(prompts))
  BY DEF Shape
<1> HIDE DEF q
<1>3. CASE up' = Append(up, q)
  BY <1>1, <1>2, <1>3
<1> QED
  BY <1>1, <1>3

LEMMA KnownServed ==
  ASSUME CodexAssumption, Shape, Waiting, Runs, Known,
         NEW q \in Sending(prompts), NEW w \in Seq(News(prompts)), NEW a,
         Approved(q, w) \/ Serves(q, w, a),
         UNCHANGED <<at, prompts, echoes, seen>>
  PROVE  Known'
<1>1. CASE Serves(q, w, a) /\ Ran(q, w) /\ a.kind = "result"
  BY <1>1, KnownRan
<1>2. CASE Approved(q, w) \/ (Serves(q, w, a) /\ Other(q, w, a))
  <2>1. /\ up # << >> /\ up' = Tail(up) /\ q = Head(up) /\ up \in Seq(Sending(prompts))
        /\ pipe \in Seq(Frames(prompts)) /\ ran' = ran /\ slipped' = slipped
        /\ ran \in [1 .. MaxPrompts -> Nat] /\ prompts \in 0 .. MaxPrompts /\ MaxPrompts \in Nat
    BY <1>2 DEF Serves, Approved, Other, Tells, Shape, CodexAssumption
  <2>2. /\ 1 \in DOMAIN up /\ up[1] = q
        /\ \A i \in DOMAIN up' : i + 1 \in DOMAIN up /\ up'[i] = up[i + 1]
    BY <2>1, Popped
  <2>3. ~(Serves(q, w, a) /\ Ran(q, w))
    <3> SUFFICES ASSUME Serves(q, w, a), Ran(q, w) PROVE FALSE
      OBVIOUS
    <3>1. /\ q.op \in Sends /\ q.n \in 1 .. MaxPrompts
          /\ ran' = [ran EXCEPT ![q.n] = IF ran[q.n] < 2 THEN ran[q.n] + 1 ELSE ran[q.n]]
      BY <2>1 DEF Ran, Sending, Told, Given
    <3>2. ran[q.n] = 0
      BY <2>2, <3>1 DEF Runs
    <3>3. ran' = [ran EXCEPT ![q.n] = 1]
      BY <3>1, <3>2
    <3>4. ran'[q.n] = 1
      BY <2>1, <3>1, <3>3
    <3> QED
      BY <2>1, <3>2, <3>4
  <2>4. \A n, x : Hears(pipe', n, x) <=> Hears(pipe, n, x)
    BY <2>3, HearsServed
  <2>5. OneText' /\ \A n : Unheard(n) => Unheard(n)'
    BY <2>4, Quieter DEF Known
  <2>6. ASSUME at["worker"].op \in Sends PROVE Resulted' => Resulted
    <3>1. CASE Approved(q, w)
      BY <2>1, <3>1, ResultsRead DEF Approved
    <3>2. CASE Serves(q, w, a) /\ Other(q, w, a)
      <4>1. a \in Answers(prompts) /\ a.to = q.by
        BY <3>2 DEF Serves
      <4>2. PICK k \in DOMAIN pipe' : AnswerAt(prompts, pipe, a, pipe', k)
        <5>1. pipe \in Seq(Frames(prompts))
          BY <2>1
        <5>2. pipe' = (pipe \o << a >>) \o w \/ pipe' = (pipe \o w) \o << a >>
          BY <3>2 DEF Serves
        <5> QED
          BY <4>1, <5>1, <5>2, AnswerAdded
      <4>3. IsTo(a, "worker") => a.kind # "result"
        <5>1. IsTo(a, "worker") => q.by = "worker"
          BY <4>1 DEF IsTo
        <5>2. q.by = "worker" => at["worker"].op = q.op
          BY <2>2 DEF Waiting, Tasks
        <5> QED
          BY <2>6, <3>2, <5>1, <5>2 DEF Other
      <4> QED
        BY <4>2, <4>3 DEF Resulted, AnswerAt
    <3> QED
      BY <1>2, <3>1, <3>2
  <2> QED
    BY <2>1, <2>2, <2>5, <2>6, KnownSame
<1> QED
  BY <1>1, <1>2 DEF Serves

LEMMA KnownKept ==
  ASSUME CodexAssumption, Shape, Waiting, Runs, Known, [Next]_vars
  PROVE  Known'
<1>1. /\ prompts \in Nat /\ at \in [Tasks -> Call(prompts)] /\ up \in Seq(Sending(prompts))
      /\ pipe \in Seq(Frames(prompts)) /\ "worker" \in Tasks /\ seen \subseteq Given(prompts)
      /\ OneText
  BY DEF Shape, Tasks, Known
<1>2. CASE Delegate \/ AskApproval \/ TuiApproves \/ EndTurn
  <2>1. PICK w \in Seq(News(prompts)) : Announces(w)
    BY <1>2, TheyAnnounce
  <2>2. pipe' = pipe \o w /\ UNCHANGED <<at, up, ran, seen, slipped, echoes>>
    BY <2>1 DEF Announces, Outside, view
  <2>3. \A n, x : Hears(pipe', n, x) => Hears(pipe, n, x)
    BY <2>1, HearsAnnounced
  <2>4. OneText' /\ \A n : Unheard(n) => Unheard(n)'
    BY <1>1, <2>2, <2>3, Quieter
  <2>5. Resulted' => Resulted
    BY <1>1, <2>2, ResultsRead
  <2> QED
    BY <2>2, <2>4, <2>5, KnownSame
<1>3. ASSUME NEW x \in Texts, Type(x) PROVE Known'
  <2>1. PICK w \in Seq(News(prompts')) : Types(x, w)
    BY <1>3, TheyType
  <2>2. /\ pipe' = pipe \o w /\ UNCHANGED <<at, up, ran, seen, slipped, echoes>>
        /\ prompts' = prompts + 1 /\ prompts + 1 \notin Given(prompts)
    BY <1>1, <2>1 DEF Types, Outside, view, Given
  <2>3. \A n, y : Hears(pipe', n, y) => Hears(pipe, n, y) \/ (n = prompts + 1 /\ y = x)
    BY <2>1, HearsTyped
  <2>4. \A n, y : Hears(pipe, n, y) => n \in Given(prompts)
    <3>1. \A i \in DOMAIN pipe : pipe[i] \in Frames(prompts)
      BY <1>1
    <3>2. \A i \in DOMAIN pipe : pipe[i].kind = "item" => pipe[i].n \in Given(prompts)
      BY <3>1, FrameKinds
    <3> QED
      BY <3>2 DEF Hears
  <2>5. OneText'
    BY <1>1, <2>2, <2>3, <2>4 DEF OneText
  <2>6. \A n \in Given(prompts) : Unheard(n) => Unheard(n)'
    BY <2>2, <2>3, <2>4 DEF Unheard
  <2>7. Resulted' => Resulted
    <3>1. pipe \in Seq(Frames(prompts'))
      <4>1. Frames(prompts) \subseteq Frames(prompts')
        BY <1>1, <2>2, Grown
      <4> QED
        BY <1>1, <4>1
    <3> QED
      BY <2>2, <3>1, ResultsRead
  <2> QED
    BY <2>2, <2>5, <2>6, <2>7, KnownSame
<1>4. CASE ServerTakes
  <2>1. UNCHANGED <<at, prompts, echoes, seen>>
    BY <1>4 DEF ServerTakes, view
  <2>2. PICK q \in Sending(prompts) : \E w \in Seq(News(prompts)) :
            Approved(q, w) \/ \E a \in Answers(prompts) : Serves(q, w, a)
    BY <1>4, <2>1, ServerServes
  <2>3. PICK w \in Seq(News(prompts)) :
            Approved(q, w) \/ \E a \in Answers(prompts) : Serves(q, w, a)
    BY <2>2
  <2> QED
    BY <2>1, <2>3, KnownServed
<1>5. CASE Drop
  <2>1. /\ up' = << >> /\ pipe' = << >> /\ ran' = ran /\ slipped \subseteq slipped'
        /\ UNCHANGED <<seen, echoes>>
    BY <1>5 DEF Drop, view
  <2>2. DOMAIN up' = {} /\ ~Resulted' /\ \A n, x : ~Hears(pipe', n, x)
    BY <2>1 DEF Resulted, Hears
  <2>3. OneText' /\ \A n : Unheard(n) => Unheard(n)'
    BY <1>1, <2>1, <2>2, Quieter
  <2> QED
    BY <1>1, <1>5, <2>1, <2>2, <2>3, Dropped, KnownSame
<1>6. ASSUME NEW t \in Tasks, Dial(t) \/ DialFails(t) \/ TimesOut(t) PROVE Known'
  <2>1. /\ UNCHANGED <<ran, seen, slipped, echoes>>
        /\ at'["worker"].op = at["worker"].op /\ at'["worker"].n = at["worker"].n
        /\ at'["worker"].text = at["worker"].text
        /\ at'["worker"].pc \in {at["worker"].pc, "failed"}
        /\ DOMAIN up' = DOMAIN up /\ DOMAIN pipe' = DOMAIN pipe
        /\ \A i \in DOMAIN up : /\ up'[i].op = up[i].op /\ up'[i].n = up[i].n
                                /\ up'[i].text = up[i].text
        /\ \A i \in DOMAIN pipe : \/ pipe'[i] = pipe[i]
                                  \/ pipe'[i].kind # "item" /\ ~IsTo(pipe'[i], "worker")
    BY <1>1, <1>6, GivenUp DEF server, view, ledger
  <2>2. \A n, x : Hears(pipe', n, x) => Hears(pipe, n, x)
    BY <2>1 DEF Hears
  <2>3. OneText' /\ \A n : Unheard(n) => Unheard(n)'
    BY <1>1, <2>1, <2>2, Quieter
  <2>4. Resulted' => Resulted
    BY <2>1 DEF Resulted
  <2> QED
    BY <2>1, <2>3, <2>4, KnownSame
<1>7. CASE Handle
  <2> DEFINE f == Head(pipe)
  <2>1. /\ pipe # << >> /\ pipe' = Tail(pipe) /\ UNCHANGED <<up, ran, slipped>>
        /\ echoes' \subseteq echoes
        /\ seen' = seen \/ (f.kind = "item" /\ seen' = seen \union {f.n})
    BY <1>7 DEF Handle, Answer, TurnStarted, TurnCompleted, ChildUpdate, UserMessage, Consume,
                ServerRequest, RequestResolved, server, view, ledger
  <2>2. /\ 1 \in DOMAIN pipe /\ pipe[1] = f
        /\ \A i \in DOMAIN pipe' : i + 1 \in DOMAIN pipe /\ pipe'[i] = pipe[i + 1]
    BY <1>1, <2>1, Popped
  <2>3. \A n, x : Hears(pipe', n, x) => Hears(pipe, n, x)
    BY <2>2 DEF Hears
  <2>4. f.kind = "item" => Hears(pipe, f.n, f.text)
    BY <2>2 DEF Hears
  <2> HIDE DEF f
  <2>5. \A n \in seen' : n \in seen \/ \E x : Hears(pipe, n, x)
    BY <2>1, <2>4
  <2>6. OneText' /\ \A n : Unheard(n) => Unheard(n)'
    BY <1>1, <2>3, <2>5, Quieter
  <2>7. Resulted' => Resulted
    BY <2>2 DEF Resulted
  <2>8. /\ at'["worker"].op = at["worker"].op /\ at'["worker"].n = at["worker"].n
        /\ at'["worker"].text = at["worker"].text
        /\ at'["worker"].pc = "answered" => at["worker"].pc = "answered" \/ Resulted
    <3>1. CASE IsTo(f, "worker")
      <4>1. f.kind = "result" => Resulted
        BY <2>2, <3>1 DEF Resulted
      <4>2. f \in Answers(prompts)
        <5>1. f \in Frames(prompts)
          BY <1>1, <2>2
        <5> QED
          BY <3>1, <5>1, FrameKinds DEF Frames, IsTo
      <4> QED
        BY <1>1, <1>7, <3>1, <4>1, <4>2, ReaderReads, FrameKinds DEF f, Frames
    <3>2. CASE ~IsTo(f, "worker")
      BY <1>1, <1>7, <3>2, ReaderReads DEF f
    <3> QED
      BY <3>1, <3>2
  <2> QED
    BY <2>1, <2>6, <2>7, <2>8, KnownSame
<1>8. CASE EchoExpires
  <2>1. /\ UNCHANGED <<up, pipe, ran, at, seen>> /\ echoes' \subseteq echoes
        /\ slipped \subseteq slipped'
    BY <1>8 DEF EchoExpires, server, view
  <2>2. OneText' /\ (\A n : Unheard(n) => Unheard(n)') /\ (Resulted' => Resulted)
    BY <1>1, <2>1, Quieter DEF Resulted
  <2> QED
    BY <2>1, <2>2, KnownSame
<1>9. ASSUME NEW r \in requests, Approve(r) PROVE Known'
  <2>1. /\ UNCHANGED <<pipe, ran, at, seen, echoes, slipped>>
        /\ \A i \in DOMAIN up' : (i \in DOMAIN up /\ up'[i] = up[i]) \/ up'[i].op = "approve"
    BY <1>9, ApprovalSends DEF server, ledger
  <2>2. OneText' /\ (\A n : Unheard(n) => Unheard(n)') /\ (Resulted' => Resulted)
    BY <1>1, <2>1, Quieter DEF Resulted
  <2>3. \A i \in DOMAIN up' : up'[i].op \in Sends => i \in DOMAIN up /\ up'[i] = up[i]
    BY <2>1 DEF Sends
  <2> QED
    BY <2>1, <2>2, <2>3, KnownSame
<1>10. ASSUME NEW t \in Tasks, NEW a, TaskAsks(t, a) PROVE Known'
  <2>1. CASE AsksPrompt(t, a) \/ AsksAgain(t, a)
    BY <1>10, <2>1, KnownAsks
  <2>2. CASE AsksOther(t, a)
    <3>1. /\ a \in Call(prompts) /\ Asking(t, a) /\ UNCHANGED <<pipe, ran, seen, slipped, echoes>>
          /\ a.op \notin Sends /\ at[t].op \notin Sends
      BY <1>10, <2>2 DEF TaskAsks, AsksOther
    <3>2. OneText' /\ (\A n : Unheard(n) => Unheard(n)') /\ (Resulted' => Resulted)
      BY <1>1, <3>1, Quieter DEF Resulted
    <3>3. at'[t].op \notin Sends /\ \A u \in Tasks : u # t => at'[u] = at[u]
      <4>1. \A pc \in {"connecting", "asked"} : [a EXCEPT !.pc = pc].op = a.op
        BY <3>1 DEF Call, Doing
      <4> QED
        BY <1>1, <3>1, <4>1 DEF Asking
    <3>4. \A i \in DOMAIN up' : up'[i].op \in Sends => i \in DOMAIN up /\ up'[i] = up[i]
      <4> DEFINE q == [by |-> t, op |-> a.op, n |-> a.n, text |-> a.text, turn |-> a.turn]
      <4>1. (up' = up \/ up' = Append(up, q)) /\ q.op = a.op
        BY <3>1 DEF Asking
      <4> HIDE DEF q
      <4>2. CASE up' = Append(up, q)
        BY <1>1, <3>1, <4>1, <4>2
      <4> QED
        BY <4>1, <4>2
    <3> QED
      BY <1>1, <3>1, <3>2, <3>3, <3>4, KnownSame
  <2> QED
    BY <1>10, <2>1, <2>2 DEF TaskAsks
<1>11. ASSUME NEW t \in Tasks, TaskEnds(t) PROVE Known'
  <2>1. /\ UNCHANGED <<up, pipe, ran>> /\ \A u \in Tasks : u # t => at'[u] = at[u]
        /\ at[t].pc \in {"answered", "failed", "error", "overloaded"}
    BY <1>1, <1>11 DEF TaskEnds, Become
  <2>2. /\ seen' \subseteq seen /\ echoes' \subseteq echoes /\ slipped \subseteq slipped'
        /\ Keeps(t) \/ SendFails(t) \/ at[t].op = "unsubscribe"
    BY <1>11 DEF TaskEnds, Keeps, SendFails, Unsubscribed, Forgotten, NoEchoes, view
  <2>3. OneText' /\ (\A n : Unheard(n) => Unheard(n)') /\ (Resulted' => Resulted)
    BY <1>1, <2>1, <2>2, Quieter DEF Resulted
  <2>4. CASE t # "worker"
    BY <1>1, <2>1, <2>2, <2>3, <2>4, KnownSame
  <2>5. CASE t = "worker" /\ at' = [at EXCEPT ![t] = Idle]
    <3>1. at'["worker"].op \notin Sends
      BY <1>1, <2>5 DEF Idle, Sends, None
    <3>2. ASSUME at["worker"].op \in Sends
          PROVE  at["worker"].text \in slipped' \/ Absent(at["worker"].n)
      <4>1. CASE at["worker"].pc \in {"overloaded", "error"}
        BY <3>2, <4>1 DEF Runs, MayResend
      <4>2. CASE at["worker"].pc = "answered"
        <5>1. ran[at["worker"].n] # 0
          BY <3>2, <4>2 DEF Known, WorkerKnown
        <5> QED
          BY <5>1 DEF Runs, Absent
      <4>3. CASE at["worker"].pc = "failed"
        <5>1. SendFails(t)
          BY <2>2, <2>5, <3>2, <4>3 DEF Keeps, Sends
        <5> QED
          BY <2>5, <4>3, <5>1 DEF SendFails
      <4> QED
        BY <2>1, <2>5, <4>1, <4>2, <4>3
    <3> QED
      BY <2>1, <2>2, <2>3, <3>1, <3>2, KnownSame
  <2>6. CASE t = "worker" /\ at' = Become(t, "error")
    <3>1. /\ at'["worker"].op = at["worker"].op /\ at'["worker"].n = at["worker"].n
          /\ at'["worker"].text = at["worker"].text /\ at'["worker"].pc = "error"
      BY <1>1, <2>6 DEF Become, Call, Doing
    <3> QED
      BY <2>1, <2>2, <2>3, <3>1, KnownSame
  <2> QED
    BY <1>11, <2>4, <2>5, <2>6 DEF TaskEnds
<1>12. CASE TaskStep
  BY <1>8, <1>9, <1>10, <1>11, <1>12, TasksAskOrEnd
<1>13. CASE UNCHANGED vars
  <2>1. UNCHANGED <<up, pipe, ran, at, seen, echoes, slipped>>
    BY <1>13 DEF vars, server, line, view, ledger
  <2>2. OneText' /\ (\A n : Unheard(n) => Unheard(n)') /\ (Resulted' => Resulted)
    BY <1>1, <2>1, Quieter DEF Resulted
  <2> QED
    BY <2>1, <2>2, KnownSame
<1>14. ASSUME NEW t \in Tasks, Greeted(t) \/ Connected(t) PROVE Known'
  BY <1>10, <1>14, LinkAsks
<1> QED
  BY <1>2, <1>3, <1>4, <1>5, <1>6, <1>7, <1>12, <1>13, <1>14, NextSteps

-----------------------------------------------------------------------------
(* Prompts and echoes balance                                              *)

\* Prompt n, which says x, is still to be read, or to be run.
Open(n, x) ==
    /\ at["worker"].op \in Sends /\ at["worker"].n = n /\ at["worker"].text = x
    /\ ran[n] = 0
Pending(n, x) == (Hears(pipe, n, x) /\ n \notin seen) \/ Open(n, x)
Coming(x)     == {n \in Nat : Pending(n, x)}

Named(x) == {n \in Nat : \E e \in echoes : e.n = n /\ e.text = x}

\* The prompts of others that were not reported yet, and those the bridge
\* expects, are those that are coming.
BalanceOf(x) == debt[x] \in Nat /\ debt[x] + Cardinality(Named(x)) = Cardinality(Coming(x))
Balanced == created => \A x \in Texts \ slipped : BalanceOf(x)

LEMMA HeardIsGiven ==
  ASSUME Shape, NEW n, NEW x, Hears(pipe, n, x)
  PROVE  n \in Given(prompts)
<1>1. \A i \in DOMAIN pipe : pipe[i] \in Frames(prompts)
  BY DEF Shape
<1> QED
  BY <1>1, FrameKinds DEF Hears

LEMMA BothFinite ==
  ASSUME Shape, NEW x
  PROVE  /\ Coming(x) \subseteq Given(prompts) /\ Named(x) \subseteq Given(prompts)
         /\ IsFiniteSet(Coming(x)) /\ IsFiniteSet(Named(x))
         /\ Cardinality(Coming(x)) \in Nat /\ Cardinality(Named(x)) \in Nat
<1>1. prompts \in Nat /\ "worker" \in Tasks
  BY DEF Shape, Tasks
<1>2. IsFiniteSet(Given(prompts))
  BY <1>1, FS_Interval DEF Given
<1>3. Coming(x) \subseteq Given(prompts)
  <2>1. ASSUME NEW n, Open(n, x) PROVE n \in Given(prompts)
    BY <1>1, <2>1 DEF Open, Shape, Call, Told
  <2> QED
    BY <2>1, HeardIsGiven DEF Coming, Pending
<1>4. Named(x) \subseteq Given(prompts)
  BY DEF Shape, Named
<1>5. IsFiniteSet(Coming(x)) /\ IsFiniteSet(Named(x))
  BY <1>2, <1>3, <1>4, FS_Subset
<1> QED
  BY <1>3, <1>4, <1>5, FS_CardinalityType

LEMMA SameBalance ==
  ASSUME NEW x, BalanceOf(x), debt'[x] = debt[x], Named(x)' = Named(x), Coming(x)' = Coming(x)
  PROVE  BalanceOf(x)'
  BY DEF BalanceOf

LEMMA SameComing ==
  ASSUME NEW x, \A n \in Nat : Pending(n, x)' <=> Pending(n, x)
  PROVE  Coming(x)' = Coming(x)
  BY DEF Coming

\* What the worker sends is what it was.
SameOpen ==
    \/ /\ at'["worker"].op = at["worker"].op /\ at'["worker"].n = at["worker"].n
       /\ at'["worker"].text = at["worker"].text
    \/ at["worker"].op \notin Sends /\ at'["worker"].op \notin Sends

LEMMA OpenSame ==
  ASSUME SameOpen, ran' = ran, NEW n, NEW x
  PROVE  Open(n, x)' <=> Open(n, x)
  BY DEF SameOpen, Open

\* Steps that move no prompt.
LEMMA BalanceStays ==
  ASSUME Balanced, created' => created, slipped \subseteq slipped',
         debt' = debt, echoes' = echoes, seen' = seen, ran' = ran, SameOpen,
         \A n, x : Hears(pipe', n, x) <=> Hears(pipe, n, x)
  PROVE  Balanced'
<1> SUFFICES ASSUME created', NEW x \in Texts \ slipped' PROVE BalanceOf(x)'
  BY DEF Balanced
<1>1. BalanceOf(x)
  BY DEF Balanced
<1>2. \A n \in Nat : Open(n, x)' <=> Open(n, x)
  BY OpenSame
<1>3. \A n \in Nat : Pending(n, x)' <=> Pending(n, x)
  BY <1>2 DEF Pending
<1>4. Named(x)' = Named(x)
  BY DEF Named
<1> QED
  BY <1>1, <1>3, <1>4, SameComing, SameBalance

\* One more is coming, of another client or of the bridge.
LEMMA OneMore ==
  ASSUME Shape, NEW x \in Texts, NEW n \in Nat, BalanceOf(x), n \notin Given(prompts),
         Coming(x)' = Coming(x) \union {n},
         \/ debt'[x] = debt[x] + 1 /\ Named(x)' = Named(x)
         \/ debt'[x] = debt[x] /\ Named(x)' = Named(x) \union {n}
  PROVE  BalanceOf(x)'
<1>1. /\ IsFiniteSet(Coming(x)) /\ IsFiniteSet(Named(x)) /\ n \notin Coming(x) /\ n \notin Named(x)
      /\ Cardinality(Coming(x)) \in Nat /\ Cardinality(Named(x)) \in Nat
  BY BothFinite
<1>2. /\ Cardinality(Coming(x) \union {n}) = Cardinality(Coming(x)) + 1
      /\ Cardinality(Named(x) \union {n}) = Cardinality(Named(x)) + 1
  BY <1>1, FS_AddElement
<1>3. Cardinality(Coming(x))' = Cardinality(Coming(x)) + 1
  BY <1>2
<1>4. CASE debt'[x] = debt[x] + 1 /\ Named(x)' = Named(x)
  BY <1>1, <1>3, <1>4 DEF BalanceOf
<1>5. CASE debt'[x] = debt[x] /\ Named(x)' = Named(x) \union {n}
  <2>1. Cardinality(Named(x))' = Cardinality(Named(x)) + 1
    BY <1>2, <1>5
  <2> QED
    BY <1>1, <1>3, <1>5, <2>1 DEF BalanceOf
<1> QED
  BY <1>4, <1>5

\* One that came is reported, or its echo was expected.
LEMMA OneLess ==
  ASSUME Shape, NEW x \in Texts, NEW n \in Nat, BalanceOf(x), n \in Coming(x),
         Coming(x)' = Coming(x) \ {n},
         \/ debt'[x] = debt[x] - 1 /\ Named(x) = {} /\ Named(x)' = Named(x)
         \/ /\ debt'[x] = debt[x]
            /\ \E m \in Named(x) : Named(x)' = Named(x) \ {m}
  PROVE  BalanceOf(x)'
<1>1. /\ IsFiniteSet(Coming(x)) /\ IsFiniteSet(Named(x))
      /\ Cardinality(Coming(x)) \in Nat /\ Cardinality(Named(x)) \in Nat
  BY BothFinite
<1>2. /\ Cardinality(Coming(x) \ {n}) = Cardinality(Coming(x)) - 1
      /\ \A m \in Named(x) : Cardinality(Named(x) \ {m}) = Cardinality(Named(x)) - 1
  BY <1>1, FS_RemoveElement
<1>3. Cardinality(Coming(x))' = Cardinality(Coming(x)) - 1
  BY <1>2
<1>4. CASE debt'[x] = debt[x] - 1 /\ Named(x) = {} /\ Named(x)' = Named(x)
  <2>1. Cardinality(Named(x)) = 0 /\ Cardinality(Named(x))' = 0
    BY <1>4, FS_EmptySet
  <2>2. Cardinality(Coming(x)) # 0
    BY <1>1, FS_EmptySet
  <2> QED
    BY <1>1, <1>3, <1>4, <2>1, <2>2 DEF BalanceOf
<1>5. CASE debt'[x] = debt[x] /\ \E m \in Named(x) : Named(x)' = Named(x) \ {m}
  <2>1. Cardinality(Named(x))' = Cardinality(Named(x)) - 1
    BY <1>2, <1>5
  <2> QED
    BY <1>1, <1>3, <1>5, <2>1 DEF BalanceOf
<1> QED
  BY <1>4, <1>5

LEMMA RanOnce ==
  ASSUME CodexAssumption, Shape, Runs, NEW q \in Sending(prompts), NEW w, NEW a,
         Serves(q, w, a), Ran(q, w)
  PROVE  /\ 1 \in DOMAIN up /\ up[1] = q /\ q.op \in Sends
         /\ q.n \in Given(prompts) /\ q.n \in 1 .. MaxPrompts /\ q.text \in Texts
         /\ ran[q.n] = 0 /\ ran' = [ran EXCEPT ![q.n] = 1] /\ ran' # ran
<1>1. /\ up # << >> /\ q = Head(up) /\ up \in Seq(Sending(prompts))
      /\ ran \in [1 .. MaxPrompts -> Nat] /\ prompts \in 0 .. MaxPrompts /\ MaxPrompts \in Nat
      /\ q.op \in Sends
      /\ ran' = [ran EXCEPT ![q.n] = IF ran[q.n] < 2 THEN ran[q.n] + 1 ELSE ran[q.n]]
  BY DEF Serves, Tells, Shape, CodexAssumption, Ran
<1>2. 1 \in DOMAIN up /\ up[1] = q
  BY <1>1, Popped
<1>3. q.n \in Given(prompts) /\ q.n \in 1 .. MaxPrompts /\ q.text \in Texts
  BY <1>1 DEF Sending, Told, Given
<1>4. ran[q.n] = 0
  BY <1>1, <1>2 DEF Runs
<1>5. ran' = [ran EXCEPT ![q.n] = 1]
  BY <1>1, <1>4
<1>6. ran'[q.n] = 1
  BY <1>1, <1>3, <1>5
<1> QED
  BY <1>1, <1>2, <1>3, <1>4, <1>5, <1>6

LEMMA BalanceServed ==
  ASSUME CodexAssumption, Shape, Waiting, Runs, Known, Balanced,
         NEW q \in Sending(prompts), NEW w \in Seq(News(prompts)), NEW a,
         Approved(q, w) \/ Serves(q, w, a),
         UNCHANGED <<at, prompts, echoes, seen, debt, created>>
  PROVE  Balanced'
<1>0. SameOpen
  BY DEF SameOpen
<1>1. CASE Approved(q, w) \/ (Serves(q, w, a) /\ Other(q, w, a))
  <2>1. ran' = ran /\ slipped' = slipped
    BY <1>1 DEF Approved, Other
  <2>2. ~(Serves(q, w, a) /\ Ran(q, w))
    BY <2>1, RanOnce
  <2>3. \A n, x : Hears(pipe', n, x) <=> Hears(pipe, n, x)
    BY <2>2, HearsServed
  <2> QED
    BY <1>0, <2>1, <2>3, BalanceStays
\* What was open has been run, and is told.
<1>2. CASE Serves(q, w, a) /\ Ran(q, w) /\ a.kind = "result"
  <2>1. /\ 1 \in DOMAIN up /\ up[1] = q /\ q.op \in Sends
        /\ q.n \in Given(prompts) /\ q.n \in 1 .. MaxPrompts /\ q.text \in Texts
        /\ ran[q.n] = 0 /\ ran' = [ran EXCEPT ![q.n] = 1]
    BY <1>2, RanOnce
  <2>2. slipped' = IF thread.subscribed THEN slipped ELSE slipped \union {q.text}
    BY <1>2 DEF Ran
  <2>3. /\ Unheard(q.n) /\ (q.text \in slipped \/ Mine(q))
        /\ (Mine(q) => at["worker"].text = q.text)
    BY <2>1 DEF Known, SendsKnown
  <2>4. \A n, x : Hears(pipe', n, x) <=>
          Hears(pipe, n, x) \/ (thread.subscribed /\ n = q.n /\ x = q.text)
    BY <1>2, HearsServed
  <2>5. ran \in [1 .. MaxPrompts -> Nat] /\ (at["worker"].op \in Sends => at["worker"].n \in 1 .. MaxPrompts)
    <3>1. at["worker"] \in Call(prompts) /\ prompts \in 0 .. MaxPrompts /\ MaxPrompts \in Nat
          /\ ran \in [1 .. MaxPrompts -> Nat]
      BY DEF Shape, Tasks, CodexAssumption
    <3> QED
      BY <3>1 DEF Call, Told, Given
  <2>6. \A n, x : Open(n, x)' <=> Open(n, x) /\ n # q.n
    BY <2>1, <2>5 DEF Open
  <2> SUFFICES ASSUME created', NEW x \in Texts \ slipped' PROVE BalanceOf(x)'
    BY DEF Balanced
  <2>7. BalanceOf(x)
    BY <2>2 DEF Balanced
  <2>8. \A n : Pending(n, x)' <=> Pending(n, x)
    <3>1. CASE x = q.text
      <4>1. thread.subscribed /\ Open(q.n, x)
        BY <2>1, <2>2, <2>3, <3>1 DEF Mine, Open
      <4> QED
        BY <2>3, <2>4, <2>6, <3>1, <4>1 DEF Pending, Unheard, Open
    <3>2. CASE x # q.text
      <4>1. ~Open(q.n, x)
        BY <2>3, <3>2 DEF Mine, Open
      <4> QED
        BY <2>4, <2>6, <3>2, <4>1 DEF Pending
    <3> QED
      BY <3>1, <3>2
  <2>9. Named(x)' = Named(x)
    BY DEF Named
  <2> QED
    BY <2>7, <2>8, <2>9, SameComing, SameBalance
<1> QED
  BY <1>1, <1>2 DEF Serves

\* The reader takes a prompt's item.
LEMMA BalanceReads ==
  ASSUME CodexAssumption, Shape, Known, Balanced, Handle
  PROVE  Balanced'
<1> DEFINE f == Head(pipe)
<1>1. /\ pipe # << >> /\ pipe' = Tail(pipe) /\ pipe \in Seq(Frames(prompts))
      /\ UNCHANGED <<ran, slipped, created>> /\ prompts \in Nat
  BY DEF Handle, Answer, TurnStarted, TurnCompleted, ChildUpdate, UserMessage,
         ServerRequest, RequestResolved, server, view, ledger, Shape
<1>2. f \in Frames(prompts)
  BY <1>1, Popped
<1>3. SameOpen
  BY ReaderReads DEF SameOpen, Tasks
<1>4. \A n, x : Hears(pipe, n, x) <=>
        Hears(pipe', n, x) \/ (f.kind = "item" /\ f.n = n /\ f.text = x)
  BY <1>1, HearsPopped
<1> HIDE DEF f
<1>5. UserMessage(f) \/ (f.kind # "item" /\ UNCHANGED <<echoes, debt, seen>>)
  BY DEF Handle, Answer, TurnStarted, TurnCompleted, ChildUpdate,
         ServerRequest, RequestResolved, view, ledger, f
<1>6. CASE f.kind # "item" /\ UNCHANGED <<echoes, debt, seen>>
  BY <1>1, <1>3, <1>4, <1>6, BalanceStays
<1>7. CASE UserMessage(f)
  <2>1. /\ f.n \in Given(prompts) /\ f.text \in Texts /\ f.kind = "item"
        /\ seen' = seen \union {f.n} /\ f.n \in Nat
        /\ IF f.n \in seen THEN UNCHANGED <<echoes, debt>>
           ELSE IF Echoed(f.text)
           THEN echoes' = Consume(f.text) /\ UNCHANGED debt
           ELSE debt' = [debt EXCEPT ![f.text] = @ - 1] /\ UNCHANGED echoes
    BY <1>2, <1>7, FrameKinds DEF UserMessage, Fresh, Given
  <2>2. Hears(pipe, f.n, f.text)
    BY <1>4, <2>1
  <2>3. ~Unheard(f.n)
    BY <2>2 DEF Unheard
  <2>4. \A x : ~Open(f.n, x)
    BY <2>3 DEF Open, Known, WorkerKnown
  <2>5. \A n, x : Hears(pipe, n, x) => Hears(pipe', n, x) \/ (n = f.n /\ x = f.text)
    BY <1>4
  <2>6. \A n, x : Open(n, x)' <=> Open(n, x)
    BY <1>1, <1>3, OpenSame
  <2>7. \A n, x : Pending(n, x)' <=> Pending(n, x) /\ n # f.n
    BY <1>4, <2>1, <2>4, <2>5, <2>6 DEF Pending
  <2> SUFFICES ASSUME created', NEW x \in Texts \ slipped' PROVE BalanceOf(x)'
    BY DEF Balanced
  <2>8. BalanceOf(x)
    BY <1>1 DEF Balanced
  <2>9. CASE f.n \in seen
    <3>1. \A y : ~Pending(f.n, y)
      BY <2>4, <2>9 DEF Pending
    <3>2. \A n : Pending(n, x)' <=> Pending(n, x)
      BY <2>7, <3>1
    <3>3. Named(x)' = Named(x) /\ debt' = debt
      BY <2>1, <2>9 DEF Named
    <3> QED
      BY <2>8, <3>2, <3>3, SameComing, SameBalance
  <2>10. CASE f.n \notin seen /\ x # f.text
    <3>1. ~Pending(f.n, x)
      BY <2>2, <2>4, <2>10 DEF Pending, Known, OneText
    <3>2. \A n : Pending(n, x)' <=> Pending(n, x)
      BY <2>7, <3>1
    <3>3. debt'[x] = debt[x]
      BY <2>1, <2>10 DEF Shape
    <3>4. Named(x)' = Named(x)
      <4>1. CASE Echoed(f.text)
        <5> DEFINE o == Oldest({e \in echoes : e.text = f.text})
        <5>1. o \in {e \in echoes : e.text = f.text}
          <6>1. {e \in echoes : e.text = f.text} # {}
            BY <4>1 DEF Echoed
          <6>2. {e \in echoes : e.text = f.text} \subseteq [n : Given(prompts), text : Texts]
            BY DEF Shape
          <6> HIDE DEF o
          <6> QED
            BY <1>1, <6>1, <6>2, OldestIs DEF o
        <5>2. echoes' = echoes \ {o}
          BY <2>1, <2>10, <4>1 DEF Consume
        <5> HIDE DEF o
        <5>3. \A e : e.text = x => (e \in echoes' <=> e \in echoes)
          BY <2>10, <5>1, <5>2
        <5> QED
          BY <5>3 DEF Named
      <4>2. CASE ~Echoed(f.text)
        BY <2>1, <2>10, <4>2 DEF Named
      <4> QED
        BY <4>1, <4>2
    <3> QED
      BY <2>8, <3>2, <3>3, <3>4, SameComing, SameBalance
  <2>11. CASE f.n \notin seen /\ x = f.text
    <3>1. f.n \in Coming(x)
      BY <2>1, <2>2, <2>11 DEF Coming, Pending
    <3>2. Coming(x)' = Coming(x) \ {f.n}
      BY <2>7 DEF Coming
    <3>3. CASE Echoed(x)
      <4> DEFINE o == Oldest({e \in echoes : e.text = x})
      <4>1. o \in {e \in echoes : e.text = x}
        <5>1. {e \in echoes : e.text = x} # {}
          BY <3>3 DEF Echoed
        <5>2. {e \in echoes : e.text = x} \subseteq [n : Given(prompts), text : Texts]
          BY DEF Shape
        <5> HIDE DEF o
        <5> QED
          BY <1>1, <5>1, <5>2, OldestIs DEF o
      <4>2. echoes' = echoes \ {o} /\ debt' = debt
        BY <2>1, <2>11, <3>3 DEF Consume
      <4> HIDE DEF o
      <4>3. o \in echoes /\ o.text = x /\ o.n \in Nat
        BY <4>1 DEF Shape, Given
      <4>4. o.n \in Named(x)
        BY <4>3 DEF Named
      <4>5. \A e \in echoes : e.n = o.n => e = o
        BY <4>3 DEF Known, EchoesKnown
      <4>6. Named(x)' = Named(x) \ {o.n}
        <5>1. \A n \in Nat : (\E e \in echoes' : e.n = n /\ e.text = x)
                               <=> (\E e \in echoes : e.n = n /\ e.text = x) /\ n # o.n
          BY <4>2, <4>3, <4>5
        <5> QED
          BY <5>1 DEF Named
      <4>7. debt'[x] = debt[x] /\ \E m \in Named(x) : Named(x)' = Named(x) \ {m}
        BY <4>2, <4>4, <4>6
      <4> QED
        BY <2>1, <2>8, <3>1, <3>2, <4>7, OneLess
    <3>4. CASE ~Echoed(x)
      <4>1. debt'[x] = debt[x] - 1 /\ echoes' = echoes
        BY <2>1, <2>11, <3>4 DEF Shape
      <4>2. Named(x) = {} /\ Named(x)' = Named(x)
        BY <3>4, <4>1 DEF Named, Echoed
      <4> QED
        BY <2>1, <2>8, <3>1, <3>2, <4>1, <4>2, OneLess
    <3> QED
      BY <3>3, <3>4
  <2> QED
    BY <2>9, <2>10, <2>11
<1> QED
  BY <1>5, <1>6, <1>7

\* The worker expects the echo of the prompt it sends.
LEMMA BalanceAsks ==
  ASSUME CodexAssumption, Shape, Runs, Balanced, NEW t \in Tasks, NEW a, TaskAsks(t, a)
  PROVE  Balanced'
<1>1. /\ prompts \in Nat /\ at \in [Tasks -> Call(prompts)] /\ "worker" \in Tasks
      /\ ran \in [1 .. MaxPrompts -> Nat] /\ MaxPrompts \in Nat
      /\ seen \subseteq Given(prompts)
      /\ a \in Call(prompts') /\ Asking(t, a)
      /\ UNCHANGED <<pipe, ran, seen, debt, slipped, created>>
  BY DEF Shape, Tasks, TaskAsks, CodexAssumption
<1>2. \A n, x : Hears(pipe', n, x) <=> Hears(pipe, n, x)
  BY <1>1
<1>3. /\ \A u \in Tasks : u # t => at'[u] = at[u]
      /\ at'[t].op = a.op /\ at'[t].n = a.n /\ at'[t].text = a.text
  <2>1. \A pc \in {"connecting", "asked"} : /\ [a EXCEPT !.pc = pc].op = a.op
                                            /\ [a EXCEPT !.pc = pc].n = a.n
                                            /\ [a EXCEPT !.pc = pc].text = a.text
    BY <1>1 DEF Call, Doing
  <2> QED
    BY <1>1, <2>1 DEF Asking
<1>4. CASE AsksOther(t, a) \/ AsksAgain(t, a)
  <2>1. SameOpen
    <3>1. CASE t = "worker"
      BY <1>3, <1>4, <3>1 DEF SameOpen, AsksOther, AsksAgain
    <3>2. CASE t # "worker"
      BY <1>1, <1>3, <3>2 DEF SameOpen
    <3> QED
      BY <3>1, <3>2
  <2>2. echoes' = echoes
    BY <1>4 DEF AsksOther, AsksAgain
  <2> QED
    BY <1>1, <1>2, <2>1, <2>2, BalanceStays
<1>5. CASE AsksPrompt(t, a)
  <2> DEFINE n == prompts + 1
  <2>1. /\ t = "worker" /\ at["worker"] = Idle /\ a.n = n /\ a.op \in Sends /\ a.text \in Texts
        /\ n \in Given(MaxPrompts) /\ echoes' = echoes \union {[n |-> n, text |-> a.text]}
    BY <1>5 DEF AsksPrompt, Expects
  <2>2. n \in Nat /\ n \notin Given(prompts) /\ n \in 1 .. MaxPrompts /\ n > prompts
    BY <1>1, <2>1 DEF Given
  <2> HIDE DEF n
  <2>3. ran[n] = 0 /\ \A x : ~Open(n, x)
    BY <2>1, <2>2 DEF Runs, Open, Idle, Sends, None
  <2>4. at["worker"].op \notin Sends
    BY <2>1 DEF Idle, Sends, None
  <2>5. \A m, x : Pending(m, x)' <=> Pending(m, x) \/ (m = n /\ x = a.text)
    BY <1>1, <1>3, <2>1, <2>3, <2>4 DEF Pending, Open
  <2>6. \A x : /\ x = a.text => Named(x)' = Named(x) \union {n}
               /\ x # a.text => Named(x)' = Named(x)
    <3> DEFINE o == [n |-> n, text |-> a.text]
    <3>1. echoes' = echoes \union {o} /\ o.n = n /\ o.text = a.text
      BY <2>1
    <3> HIDE DEF o
    <3> SUFFICES ASSUME NEW x
                 PROVE  /\ x = a.text => Named(x)' = Named(x) \union {n}
                        /\ x # a.text => Named(x)' = Named(x)
      OBVIOUS
    <3>2. \A m : (\E e \in echoes' : e.n = m /\ e.text = x)
                   <=> (\E e \in echoes : e.n = m /\ e.text = x) \/ (m = n /\ x = a.text)
      BY <3>1
    <3>3. \A m \in Nat : m \in Named(x)' <=> m \in Named(x) \/ (m = n /\ x = a.text)
      BY <3>2 DEF Named
    <3>4. Named(x) \subseteq Nat /\ Named(x)' \subseteq Nat
      BY DEF Named
    <3> QED
      BY <2>2, <3>3, <3>4
  <2> SUFFICES ASSUME created', NEW x \in Texts \ slipped' PROVE BalanceOf(x)'
    BY DEF Balanced
  <2>7. BalanceOf(x)
    BY <1>1 DEF Balanced
  <2>8. CASE x = a.text
    <3>1. Coming(x)' = Coming(x) \union {n}
      BY <2>2, <2>5, <2>8 DEF Coming
    <3> QED
      BY <1>1, <2>2, <2>6, <2>7, <2>8, <3>1, OneMore
  <2>9. CASE x # a.text
    <3>1. \A m : Pending(m, x)' <=> Pending(m, x)
      BY <2>5, <2>9
    <3> QED
      BY <1>1, <2>6, <2>7, <2>9, <3>1, SameComing, SameBalance
  <2> QED
    BY <2>8, <2>9
<1> QED
  BY <1>4, <1>5 DEF TaskAsks

\* A call has ended: the echo of a prompt that was refused goes with it.
LEMMA BalanceEnds ==
  ASSUME CodexAssumption, Shape, Waiting, Runs, Known, Balanced, NEW t \in Tasks, TaskEnds(t)
  PROVE  Balanced'
<1>1. /\ at \in [Tasks -> Call(prompts)] /\ "worker" \in Tasks
      /\ UNCHANGED <<up, pipe, ran, prompts, debt>>
      /\ \A u \in Tasks : u # t => at'[u] = at[u]
      /\ at[t].pc \in {"answered", "failed", "error", "overloaded"}
  BY DEF Shape, Tasks, TaskEnds, Become
<1>2. \A n, x : Hears(pipe', n, x) <=> Hears(pipe, n, x)
  BY <1>1
<1>3. CASE Unsubscribed(t)
  BY <1>3 DEF Unsubscribed, Balanced
<1>5. ASSUME t # "worker" \/ at["worker"].op \notin Sends \/ at' = Become(t, "error")
      PROVE  SameOpen
  <2>1. CASE t # "worker"
    BY <1>1, <2>1 DEF SameOpen
  <2>2. CASE at' = Become(t, "error")
    BY <1>1, <2>2 DEF SameOpen, Become, Call, Doing
  <2>3. CASE at' = [at EXCEPT ![t] = Idle] /\ at["worker"].op \notin Sends
    BY <1>1, <2>3 DEF SameOpen, Idle, Sends, None
  <2> QED
    BY <1>5, <2>1, <2>2, <2>3 DEF TaskEnds
<1>6. CASE Keeps(t)
  <2>1. UNCHANGED <<echoes, seen, slipped, created>>
    BY <1>6 DEF Keeps
  <2>2. CASE SameOpen
    BY <1>1, <1>2, <2>1, <2>2, BalanceStays
  <2>3. CASE ~SameOpen
    <3>1. t = "worker" /\ at["worker"].op \in Sends /\ at' = [at EXCEPT !["worker"] = Idle]
          /\ at["worker"].pc # "overloaded"
      BY <1>5, <2>3 DEF TaskEnds
    <3>2. at["worker"].pc = "answered" /\ ran[at["worker"].n] # 0
      BY <1>6, <3>1 DEF Keeps, Known, WorkerKnown
    <3>3. at'["worker"].op \notin Sends
      BY <1>1, <3>1 DEF Idle, Sends, None
    <3>4. \A n, x : ~Open(n, x) /\ ~Open(n, x)'
      BY <3>2, <3>3 DEF Open
    <3>5. \A n, x : Pending(n, x)' <=> Pending(n, x)
      BY <1>1, <2>1, <3>4 DEF Pending
    <3> SUFFICES ASSUME created', NEW x \in Texts \ slipped' PROVE BalanceOf(x)'
      BY DEF Balanced
    <3>6. BalanceOf(x) /\ Named(x)' = Named(x) /\ debt'[x] = debt[x]
      BY <1>1, <2>1 DEF Balanced, Named
    <3> QED
      BY <3>5, <3>6, SameComing, SameBalance
  <2> QED
    BY <2>2, <2>3
<1>7. CASE SendFails(t)
  <2> DEFINE n == at["worker"].n
             y == at["worker"].text
  <2>1. /\ t = "worker" /\ at["worker"].op \in Sends /\ at["worker"].pc \in {"failed", "error"}
        /\ echoes' = {e \in echoes : e.n # n}
        /\ slipped' = IF at["worker"].pc = "error" /\ \E e \in echoes : e.n = n
                      THEN slipped ELSE slipped \union {y}
        /\ at' = [at EXCEPT !["worker"] = Idle] /\ UNCHANGED <<seen, created>>
    BY <1>7 DEF SendFails, Forgotten, Finish, Runs, view, Tasks
  <2>2. n \in Nat /\ y \in Texts /\ \A e \in echoes : e.n = n => e.text = y
    BY <1>1, <2>1 DEF Call, Doing, Told, Known, WorkerKnown
  <2>3. \A m, x : Open(m, x) => m = n /\ x = y
    BY DEF Open
  <2>31. at'["worker"].op \notin Sends
    BY <1>1, <2>1 DEF Idle, Sends, None
  <2>4. \A m, x : ~Open(m, x)'
    BY <2>31 DEF Open
  <2> HIDE DEF n, y
  <2> SUFFICES ASSUME created', NEW x \in Texts \ slipped' PROVE BalanceOf(x)'
    BY DEF Balanced
  <2>5. BalanceOf(x) /\ debt'[x] = debt[x]
    BY <1>1, <2>1 DEF Balanced
  <2>6. CASE x # y
    <3>1. \A m : Pending(m, x)' <=> Pending(m, x)
      BY <1>1, <2>1, <2>3, <2>4, <2>6 DEF Pending
    <3>2. Named(x)' = Named(x)
      BY <2>1, <2>2, <2>6 DEF Named
    <3> QED
      BY <2>5, <3>1, <3>2, SameComing, SameBalance
  <2>7. CASE x = y
    <3>1. at["worker"].pc = "error" /\ \E e \in echoes : e.n = n
      BY <2>1, <2>7
    <3>2. ran[n] = 0
      BY <2>1, <3>1 DEF n, Runs, MayResend
    <3>3. Open(n, x) /\ Unheard(n)
      BY <2>1, <2>7, <3>2 DEF n, y, Open, Known, WorkerKnown
    <3>4. n \in Coming(x)
      BY <2>2, <3>3 DEF Coming, Pending
    <3>5. Coming(x)' = Coming(x) \ {n}
      <4>1. \A m : Pending(m, x)' <=> Pending(m, x) /\ m # n
        BY <1>1, <2>1, <2>3, <2>4, <3>3 DEF Pending, Unheard
      <4> QED
        BY <4>1 DEF Coming
    <3>6. n \in Named(x) /\ Named(x)' = Named(x) \ {n}
      <4>1. n \in Named(x)
        BY <2>2, <2>7, <3>1 DEF Named
      <4>2. \A m \in Nat : (\E e \in echoes' : e.n = m /\ e.text = x)
                             <=> (\E e \in echoes : e.n = m /\ e.text = x) /\ m # n
        BY <2>1
      <4> QED
        BY <4>1, <4>2 DEF Named
    <3> QED
      BY <2>2, <2>5, <2>7, <3>4, <3>5, <3>6, OneLess
  <2> QED
    BY <2>6, <2>7
<1> QED
  BY <1>3, <1>6, <1>7 DEF TaskEnds

LEMMA BalanceKept ==
  ASSUME CodexAssumption, Shape, Waiting, Runs, Known, Balanced, [Next]_vars
  PROVE  Balanced'
<1>1. /\ prompts \in Nat /\ at \in [Tasks -> Call(prompts)] /\ "worker" \in Tasks
      /\ seen \subseteq Given(prompts) /\ debt \in [Texts -> Int]
      /\ echoes \subseteq [n : Given(prompts), text : Texts]
  BY DEF Shape, Tasks
<1>2. CASE Delegate \/ AskApproval \/ TuiApproves \/ EndTurn
  <2>1. PICK w \in Seq(News(prompts)) : Announces(w)
    BY <1>2, TheyAnnounce
  <2>2. UNCHANGED <<at, ran, seen, slipped, echoes, debt, created>>
    BY <2>1 DEF Announces, Outside, view
  <2>3. SameOpen
    BY <2>2 DEF SameOpen
  <2>4. \A n, x : Hears(pipe', n, x) <=> Hears(pipe, n, x)
    BY <2>1, HearsAnnounced
  <2> QED
    BY <2>2, <2>3, <2>4, BalanceStays
<1>3. ASSUME NEW y \in Texts, Type(y) PROVE Balanced'
  <2>1. PICK w \in Seq(News(prompts')) : Types(y, w)
    BY <1>3, TheyType
  <2> DEFINE n == prompts + 1
  <2>2. /\ UNCHANGED <<at, ran, seen, slipped, echoes, created>>
        /\ debt' = IF thread.subscribed THEN [debt EXCEPT ![y] = @ + 1] ELSE debt
        /\ n \in Nat /\ n \notin Given(prompts)
    BY <1>1, <2>1 DEF Types, Outside, view, Given
  <2>3. \A m, x : Hears(pipe', m, x) <=>
          Hears(pipe, m, x) \/ (thread.subscribed /\ m = n /\ x = y)
    BY <2>1, HearsTyped
  <2> HIDE DEF n
  <2>4. \A m, x : Open(m, x)' <=> Open(m, x)
    BY <2>2 DEF Open
  <2>5. \A m, x : Pending(m, x)' <=> Pending(m, x) \/ (thread.subscribed /\ m = n /\ x = y)
    BY <1>1, <2>2, <2>3, <2>4 DEF Pending
  <2> SUFFICES ASSUME created', NEW x \in Texts \ slipped' PROVE BalanceOf(x)'
    BY DEF Balanced
  <2>6. BalanceOf(x) /\ Named(x)' = Named(x)
    BY <2>2 DEF Balanced, Named
  <2>7. CASE thread.subscribed /\ x = y
    <3>1. Coming(x)' = Coming(x) \union {n}
      BY <2>2, <2>5, <2>7 DEF Coming
    <3>2. debt'[x] = debt[x] + 1
      BY <1>1, <2>2, <2>7
    <3> QED
      BY <2>2, <2>6, <3>1, <3>2, OneMore
  <2>8. CASE ~(thread.subscribed /\ x = y)
    <3>1. \A m : Pending(m, x)' <=> Pending(m, x)
      BY <2>5, <2>8
    <3>2. debt'[x] = debt[x]
      BY <1>1, <2>2, <2>8
    <3> QED
      BY <2>6, <3>1, <3>2, SameComing, SameBalance
  <2> QED
    BY <2>7, <2>8
<1>4. CASE ServerTakes
  <2>1. UNCHANGED <<at, prompts, echoes, seen, debt, created>>
    BY <1>4 DEF ServerTakes, view
  <2>2. PICK q \in Sending(prompts) : \E w \in Seq(News(prompts)) :
            Approved(q, w) \/ \E a \in Answers(prompts) : Serves(q, w, a)
    BY <1>4, <2>1, ServerServes
  <2>3. PICK w \in Seq(News(prompts)) :
            Approved(q, w) \/ \E a \in Answers(prompts) : Serves(q, w, a)
    BY <2>2
  <2> QED
    BY <2>1, <2>3, BalanceServed
<1>5. CASE Drop
  <2>1. /\ pipe' = << >> /\ UNCHANGED <<ran, echoes, created>> /\ debt' = [x \in Texts |-> 0]
        /\ slipped' = slipped \union {e.text : e \in echoes}
                              \union {x \in Texts : debt[x] # 0}
    BY <1>5 DEF Drop, view
  <2>2. \A n, x : ~Hears(pipe', n, x)
    BY <2>1 DEF Hears
  <2>3. SameOpen
    BY <1>1, <1>5, Dropped DEF SameOpen
  <2> SUFFICES ASSUME created', NEW x \in Texts \ slipped' PROVE BalanceOf(x)'
    BY DEF Balanced
  <2>4. BalanceOf(x) /\ debt[x] = 0 /\ debt'[x] = 0
    BY <2>1 DEF Balanced
  <2>5. Named(x) = {} /\ Named(x)' = {}
    BY <2>1 DEF Named
  <2>6. Coming(x) = {}
    <3>1. Cardinality(Named(x)) = 0
      BY <2>5, FS_EmptySet
    <3>2. Cardinality(Coming(x)) = 0
      BY <2>4, <3>1, BothFinite DEF BalanceOf
    <3> QED
      BY <3>2, BothFinite, FS_EmptySet
  <2>7. \A n : Open(n, x)' <=> Open(n, x)
    BY <2>1, <2>3, OpenSame
  <2>8. Coming(x)' = {}
    BY <2>2, <2>6, <2>7 DEF Coming, Pending
  <2>9. Cardinality(Named(x)') = 0 /\ Cardinality(Coming(x)') = 0
    BY <2>5, <2>8, FS_EmptySet
  <2> QED
    BY <2>4, <2>9 DEF BalanceOf
<1>6. ASSUME NEW t \in Tasks, Dial(t) \/ DialFails(t) \/ TimesOut(t) PROVE Balanced'
  <2>1. /\ UNCHANGED <<ran, seen, slipped, echoes, debt, created>> /\ SameOpen
        /\ DOMAIN pipe' = DOMAIN pipe
        /\ \A i \in DOMAIN pipe : \/ pipe'[i] = pipe[i]
                                  \/ pipe[i].kind # "item" /\ pipe'[i].kind # "item"
    BY <1>1, <1>6, GivenUp DEF server, view, ledger, SameOpen
  <2>2. \A n, x : Hears(pipe', n, x) <=> Hears(pipe, n, x)
    BY <2>1 DEF Hears
  <2> QED
    BY <2>1, <2>2, BalanceStays
<1>7. CASE Handle
  BY <1>7, BalanceReads
<1>8. CASE EchoExpires
  <2> DEFINE o == Oldest(echoes)
  <2>1. /\ UNCHANGED <<pipe, ran, at, seen, debt, created>> /\ echoes' = echoes \ {o}
        /\ slipped' = slipped \union {o.text}
    BY <1>8 DEF EchoExpires, server, view
  <2> HIDE DEF o
  <2> SUFFICES ASSUME created', NEW x \in Texts \ slipped' PROVE BalanceOf(x)'
    BY DEF Balanced
  <2>2. BalanceOf(x) /\ x # o.text
    BY <2>1 DEF Balanced
  <2>3. Named(x)' = Named(x)
    BY <2>1, <2>2 DEF Named
  <2>4. \A n : Pending(n, x)' <=> Pending(n, x)
    BY <2>1 DEF Pending, Open
  <2> QED
    BY <2>1, <2>2, <2>3, <2>4, SameComing, SameBalance
<1>9. ASSUME NEW r \in requests, Approve(r) PROVE Balanced'
  <2>1. UNCHANGED <<pipe, ran, at, seen, slipped, echoes, debt, created>>
    BY <1>9, ApprovalSends DEF server, ledger
  <2>2. SameOpen /\ \A n, x : Hears(pipe', n, x) <=> Hears(pipe, n, x)
    BY <2>1 DEF SameOpen
  <2> QED
    BY <2>1, <2>2, BalanceStays
<1>10. CASE TaskStep
  BY <1>8, <1>9, <1>10, TasksAskOrEnd, BalanceAsks, BalanceEnds
<1>11. ASSUME NEW t \in Tasks, Greeted(t) \/ Connected(t) PROVE Balanced'
  BY <1>11, LinkAsks, BalanceAsks
<1>12. CASE UNCHANGED vars
  <2>1. UNCHANGED <<pipe, ran, at, seen, slipped, echoes, debt, created>>
    BY <1>12 DEF vars, server, line, view, ledger
  <2>2. SameOpen /\ \A n, x : Hears(pipe', n, x) <=> Hears(pipe, n, x)
    BY <2>1 DEF SameOpen
  <2> QED
    BY <2>1, <2>2, BalanceStays
<1> QED
  BY <1>2, <1>3, <1>4, <1>5, <1>6, <1>7, <1>10, <1>11, <1>12, NextSteps

-----------------------------------------------------------------------------
(* A thread that the bridge closes                                         *)

\* The server tells no more of the thread, and nobody asks it to.
Over == ~thread.subscribed /\ \A i \in DOMAIN up : up[i].op # "attach"

ItemAfter(k) == \E j \in DOMAIN pipe : j > k /\ pipe[j].kind = "item"

\* Nobody else uses it: behind the request to unsubscribe there is no attach,
\* and behind its answer no prompt.
Alone == ~created \/ at["worker"].op \in ClosingOps => at["topic"].pc = "idle"
Leaving ==
    at["worker"].op = "unsubscribe" =>
        /\ \A i \in DOMAIN up : up[i].by = "worker" =>
              \A j \in DOMAIN up : j > i => up[j].op # "attach"
        /\ \A i \in DOMAIN pipe : IsTo(pipe[i], "worker") /\ pipe[i].kind = "result" =>
              Over /\ ~ItemAfter(i)
        /\ at["worker"].pc = "answered" => Over /\ ~ItemAfter(0)
Gone == ~created => Over /\ ~ItemAfter(0) /\ \A x \in Texts \ slipped : debt[x] = 0

Closed ==
    /\ at["topic"].op \notin ClosingOps
    /\ ~created => echoes = {} /\ at["worker"].pc = "idle"
    /\ NotClosed => Alone /\ Leaving /\ Gone

\* Steps that only take away.
LEMMA ClosedSame ==
  ASSUME Closed,
         \A i \in DOMAIN up' :
            /\ up'[i].by = "worker" => i \in DOMAIN up /\ up[i].by = "worker"
            /\ up'[i].op = "attach" => i \in DOMAIN up /\ up[i].op = "attach",
         \A i \in DOMAIN pipe' :
            /\ i \in DOMAIN pipe /\ (pipe'[i].kind = "item" => pipe[i].kind = "item")
            /\ IsTo(pipe'[i], "worker") /\ pipe'[i].kind = "result" =>
                 IsTo(pipe[i], "worker") /\ pipe[i].kind = "result",
         thread'.subscribed => thread.subscribed,
         \A x \in Texts : debt'[x] = debt[x] \/ debt'[x] = 0,
         slipped \subseteq slipped', created' = created, echoes' \subseteq echoes,
         NotClosed' => NotClosed,
         \A t \in Tasks : /\ at'[t].op = at[t].op
                          /\ \/ at'[t].pc = at[t].pc
                             \/ at[t].pc \in {"asked", "connecting"} /\ at'[t].pc = "failed"
  PROVE  Closed'
<1>1. "worker" \in Tasks /\ "topic" \in Tasks
  BY DEF Tasks
<1>2. \A k : ItemAfter(k)' => ItemAfter(k)
  BY DEF ItemAfter
<1>3. Over => Over'
  BY DEF Over
<1>4. at'["topic"].op \notin ClosingOps /\ (~created' => echoes' = {} /\ at'["worker"].pc = "idle")
  BY <1>1 DEF Closed
<1>5. ASSUME NotClosed' PROVE Alone'
  BY <1>1, <1>5 DEF Closed, Alone
<1>6. ASSUME NotClosed', at'["worker"].op = "unsubscribe" PROVE Leaving'
  <2>1. Leaving /\ at["worker"].op = "unsubscribe"
    BY <1>1, <1>6 DEF Closed
  <2>2. \A i \in DOMAIN up' : up'[i].by = "worker" =>
          \A j \in DOMAIN up' : j > i => up'[j].op # "attach"
    BY <2>1 DEF Leaving
  <2>3. \A i \in DOMAIN pipe' : IsTo(pipe'[i], "worker") /\ pipe'[i].kind = "result" =>
          Over' /\ ~ItemAfter(i)'
    BY <1>2, <1>3, <2>1 DEF Leaving
  <2>4. at'["worker"].pc = "answered" => Over' /\ ~ItemAfter(0)'
    BY <1>1, <1>2, <1>3, <2>1 DEF Leaving
  <2> QED
    BY <2>2, <2>3, <2>4 DEF Leaving
<1>7. ASSUME NotClosed' PROVE Gone'
  BY <1>2, <1>3, <1>7 DEF Closed, Gone
<1>8. at'["worker"].op # "unsubscribe" => Leaving'
  BY DEF Leaving
<1> QED
  BY <1>4, <1>5, <1>6, <1>7, <1>8 DEF Closed

\* Frames are added behind those there are.
LEMMA Behind ==
  ASSUME NEW p, pipe \in Seq(Frames(p)), NEW u \in Seq(Frames(p)), pipe' = pipe \o u, NoItems(u)
  PROVE  \A k : ItemAfter(k)' => ItemAfter(k)
<1>1. \A j \in DOMAIN pipe' : pipe'[j].kind = "item" => j \in DOMAIN pipe /\ pipe'[j] = pipe[j]
  BY Joined DEF NoItems
<1> QED
  BY <1>1 DEF ItemAfter

\* The server and the TUI tell of the thread while it is resumed.
LEMMA ClosedNews ==
  ASSUME Closed, NEW p, pipe \in Seq(Frames(p)), NEW w \in Seq(News(p)), pipe' = pipe \o w,
         UNCHANGED <<at, up, created, echoes, raced, slipped>>,
         thread'.subscribed = thread.subscribed,
         ~thread.subscribed => NoItems(w) /\ debt' = debt
  PROVE  Closed'
<1>1. w \in Seq(Frames(p))
  BY DEF Frames
<1>2. Over' = Over
  BY DEF Over
<1>3. Over => \A k : ItemAfter(k)' => ItemAfter(k)
  BY <1>1, Behind DEF Over
<1>4. \A i \in DOMAIN pipe' : IsTo(pipe'[i], "worker") => i \in DOMAIN pipe /\ pipe'[i] = pipe[i]
  <2>1. /\ \A i \in DOMAIN pipe : i \in DOMAIN pipe' /\ pipe'[i] = pipe[i]
        /\ \A i \in DOMAIN pipe' : \A t : IsTo(pipe'[i], t) => i \in DOMAIN pipe
    BY NewsAdded
  <2> QED
    BY <2>1
<1>5. NotClosed' = NotClosed /\ Alone' = Alone
  BY DEF NotClosed, Alone
<1>6. ASSUME NotClosed PROVE Leaving'
  <2>1. CASE at["worker"].op = "unsubscribe"
    <3>1. \A i \in DOMAIN pipe' : IsTo(pipe'[i], "worker") /\ pipe'[i].kind = "result" =>
            Over' /\ ~ItemAfter(i)'
      BY <1>2, <1>3, <1>4, <1>6, <2>1 DEF Closed, Leaving
    <3>2. at'["worker"].pc = "answered" => Over' /\ ~ItemAfter(0)'
      BY <1>2, <1>3, <1>6, <2>1 DEF Closed, Leaving
    <3>3. \A i \in DOMAIN up' : up'[i].by = "worker" =>
            \A j \in DOMAIN up' : j > i => up'[j].op # "attach"
      BY <1>6, <2>1 DEF Closed, Leaving
    <3> QED
      BY <3>1, <3>2, <3>3 DEF Leaving
  <2> QED
    BY <2>1 DEF Leaving
<1>7. ASSUME NotClosed PROVE Gone'
  <2>1. Over => debt' = debt
    BY DEF Over
  <2> QED
    BY <1>2, <1>3, <1>7, <2>1 DEF Closed, Gone
<1> QED
  BY <1>5, <1>6, <1>7 DEF Closed

\* The server takes a request.
LEMMA ClosedServed ==
  ASSUME Shape, Waiting, Closed,
         NEW q \in Sending(prompts), NEW w \in Seq(News(prompts)), NEW a,
         Approved(q, w) \/ Serves(q, w, a),
         UNCHANGED <<at, created, echoes, raced, debt>>
  PROVE  Closed'
<1>1. /\ pipe \in Seq(Frames(prompts)) /\ up \in Seq(Sending(prompts))
      /\ up # << >> /\ up' = Tail(up) /\ q = Head(up)
      /\ (~thread.subscribed => w = << >>) /\ slipped \subseteq slipped'
  BY DEF Shape, Approved, Serves, Tells, Ran, Other
<1>2. /\ 1 \in DOMAIN up /\ up[1] = q
      /\ \A i \in DOMAIN up' : i + 1 \in DOMAIN up /\ up'[i] = up[i + 1] /\ i \in Nat
  <2>1. up' \in Seq(Sending(prompts))
    BY <1>1
  <2>2. \A i \in DOMAIN up' : i \in Nat
    BY <2>1
  <2> QED
    BY <1>1, <2>2, Popped
<1>3. Over => Over'
  <2>1. thread'.subscribed = thread.subscribed \/ q.op = "attach" \/ ~thread'.subscribed
    BY DEF Approved, Serves, Ran, Other
  <2> QED
    BY <1>2, <2>1 DEF Over
<1>4. ASSUME ~thread.subscribed
      PROVE  \E u \in Seq(Frames(prompts)) : pipe' = pipe \o u /\ NoItems(u)
  <2>1. w = << >> /\ << >> \in Seq(Frames(prompts)) /\ NoItems(<< >>)
    BY <1>1, <1>4 DEF NoItems
  <2>2. CASE Approved(q, w)
    BY <2>1, <2>2 DEF Approved
  <2>3. CASE Serves(q, w, a)
    <3>1. a \in Answers(prompts) /\ a \in Frames(prompts)
      BY <2>3 DEF Serves, Frames
    <3>2. << a >> \in Seq(Frames(prompts)) /\ NoItems(<< a >>)
      BY <3>1 DEF NoItems, Answers
    <3>3. pipe \o << a >> \in Seq(Frames(prompts))
      BY <1>1, <3>2
    <3>4. pipe' = (pipe \o << a >>) \o << >> \/ pipe' = (pipe \o << >>) \o << a >>
      BY <2>1, <2>3 DEF Serves
    <3>5. pipe' = pipe \o << a >>
      BY <1>1, <3>3, <3>4
    <3> QED
      BY <3>2, <3>5
  <2> QED
    BY <2>2, <2>3
<1>5. ~thread.subscribed => \A k : ItemAfter(k)' => ItemAfter(k)
  BY <1>1, <1>4, Behind
<1>6. NotClosed' = NotClosed /\ Alone' = Alone
  BY DEF NotClosed, Alone
<1>7. ASSUME NotClosed PROVE Gone'
  BY <1>1, <1>3, <1>5, <1>7 DEF Closed, Gone, Over
<1>8. ASSUME NotClosed, at["worker"].op = "unsubscribe" PROVE Leaving'
  <2>1. Leaving
    BY <1>8 DEF Closed
  <2>2. \A i \in DOMAIN up' : up'[i].by = "worker" =>
          \A j \in DOMAIN up' : j > i => up'[j].op # "attach"
    <3> SUFFICES ASSUME NEW i \in DOMAIN up', up'[i].by = "worker",
                        NEW j \in DOMAIN up', j > i
                 PROVE  up'[j].op # "attach"
      OBVIOUS
    <3>1. j + 1 > i + 1
      BY <1>2
    <3> QED
      BY <1>2, <1>8, <2>1, <3>1 DEF Leaving
  <2>3. at["worker"].pc = "answered" => Over' /\ ~ItemAfter(0)'
    BY <1>3, <1>5, <1>8, <2>1 DEF Leaving, Over
  <2>4. ASSUME NEW i \in DOMAIN pipe', IsTo(pipe'[i], "worker"), pipe'[i].kind = "result"
        PROVE  Over' /\ ~ItemAfter(i)'
    <3>1. CASE i \in DOMAIN pipe /\ pipe'[i] = pipe[i]
      BY <1>3, <1>5, <1>8, <2>1, <2>4, <3>1 DEF Leaving, Over
    <3>2. CASE ~(i \in DOMAIN pipe /\ pipe'[i] = pipe[i])
      <4>1. ~Approved(q, w)
        <5> SUFFICES ASSUME Approved(q, w) PROVE FALSE
          OBVIOUS
        <5>1. pipe' = pipe \o w
          BY DEF Approved
        <5>2. /\ \A j \in DOMAIN pipe : j \in DOMAIN pipe' /\ pipe'[j] = pipe[j]
              /\ \A j \in DOMAIN pipe' : \A t : IsTo(pipe'[j], t) => j \in DOMAIN pipe
          BY <1>1, <5>1, NewsAdded
        <5> QED
          BY <2>4, <3>2, <5>2
      <4>2. Serves(q, w, a) /\ a \in Answers(prompts) /\ a.to = q.by
        BY <4>1 DEF Serves
      <4>3. PICK k \in DOMAIN pipe' : AnswerAt(prompts, pipe, a, pipe', k)
        <5>1. pipe \in Seq(Frames(prompts)) /\ w \in Seq(News(prompts))
          BY <1>1
        <5>2. pipe' = (pipe \o << a >>) \o w \/ pipe' = (pipe \o w) \o << a >>
          BY <4>2 DEF Serves
        <5> QED
          BY <4>2, <5>1, <5>2, AnswerAdded
      <4>4. i = k /\ pipe'[i] = a
        BY <2>4, <3>2, <4>3 DEF AnswerAt
      <4>5. q.by = "worker" /\ a.kind = "result"
        BY <2>4, <4>2, <4>4 DEF IsTo
      <4>6. q.op = "unsubscribe"
        BY <1>2, <1>8, <4>5 DEF Waiting, Tasks
      <4>7. w = << >> /\ ~thread'.subscribed
        BY <4>2, <4>5, <4>6 DEF Serves, Ran, Other, Sends
      <4>8. \A j \in DOMAIN up' : up'[j].op # "attach"
        <5> SUFFICES ASSUME NEW j \in DOMAIN up' PROVE up'[j].op # "attach"
          OBVIOUS
        <5>1. j + 1 \in DOMAIN up /\ up'[j] = up[j + 1] /\ j + 1 > 1
          <6>1. up' \in Seq(Sending(prompts))
            BY <1>1
          <6>2. j \in Nat \ {0}
            BY <6>1
          <6> QED
            BY <1>2, <6>2
        <5> QED
          BY <1>2, <1>8, <2>1, <4>5, <5>1 DEF Leaving
      <4>9. ~ItemAfter(i)'
        <5>1. << a >> \in Seq(Frames(prompts)) /\ pipe \o << a >> \in Seq(Frames(prompts))
          BY <1>1, <4>2 DEF Frames
        <5>2. pipe' = (pipe \o << a >>) \o << >> \/ pipe' = (pipe \o << >>) \o << a >>
          BY <4>2, <4>7 DEF Serves
        <5>3. pipe' = Append(pipe, a)
          BY <1>1, <5>1, <5>2
        <5>4. a \in Frames(prompts)
          BY <4>2 DEF Frames
        <5>5. \A j \in DOMAIN pipe' : j \in DOMAIN pipe \/ j = Len(pipe) + 1
          BY <1>1, <5>3, <5>4, Pushed
        <5>6. \A j \in DOMAIN pipe : j \in DOMAIN pipe' /\ pipe'[j] = pipe[j]
          BY <1>1, <5>3, <5>4, Pushed
        <5>7. i = Len(pipe) + 1
          BY <3>2, <5>5, <5>6
        <5>8. \A j \in DOMAIN pipe' : ~(j > i)
          BY <1>1, <5>5, <5>7, SMTT(30)
        <5> QED
          BY <5>8 DEF ItemAfter
      <4> QED
        BY <4>7, <4>8, <4>9 DEF Over
    <3> QED
      BY <3>1, <3>2
  <2> QED
    BY <2>2, <2>3, <2>4 DEF Leaving
<1>9. at["worker"].op # "unsubscribe" => Leaving'
  BY DEF Leaving
<1> QED
  BY <1>6, <1>7, <1>8, <1>9 DEF Closed

\* A task asks: nobody does of a thread that is being closed, but the worker.
LEMMA ClosedAsks ==
  ASSUME Shape, Waiting, Closed, NEW t \in Tasks, NEW a, TaskAsks(t, a)
  PROVE  Closed'
<1>1. /\ at \in [Tasks -> Call(prompts)] /\ "worker" \in Tasks /\ "topic" \in Tasks
      /\ up \in Seq(Sending(prompts))
      /\ at[t].pc # "asked" /\ a \in Call(prompts') /\ Asking(t, a)
      /\ UNCHANGED <<pipe, ran, thread, seen, debt, slipped, created>>
      /\ (NotClosed' => NotClosed)
      /\ (at[t].pc = "idle" => created /\ \A u \in Tasks : at[u].op \notin ClosingOps)
  BY DEF Shape, Tasks, TaskAsks
<1>2. /\ \A u \in Tasks : u # t => at'[u] = at[u]
      /\ at'[t].op = a.op /\ at'[t].pc \in {"connecting", "asked"}
  <2>1. \A pc \in {"connecting", "asked"} : /\ [a EXCEPT !.pc = pc].op = a.op
                                            /\ [a EXCEPT !.pc = pc].pc = pc
    BY <1>1 DEF Call, Doing
  <2> QED
    BY <1>1, <2>1 DEF Asking
<1>3. at'["topic"].op \notin ClosingOps
  <2>1. CASE t = "topic"
    <3>1. a.op \notin ClosingOps
      BY <2>1 DEF TaskAsks, AsksPrompt, AsksOther, AsksAgain, Closed, Sends, ClosingOps
    <3> QED
      BY <1>2, <2>1, <3>1
  <2>2. CASE t # "topic"
    BY <1>1, <1>2, <2>2 DEF Closed
  <2> QED
    BY <2>1, <2>2
\* A thread that was closed is asked for only by one who came too late.
<1>4. ~created => t = "topic" /\ echoes' = echoes /\ at'["worker"].pc = "idle"
  <2> SUFFICES ASSUME ~created PROVE t = "topic" /\ echoes' = echoes /\ at'["worker"].pc = "idle"
    OBVIOUS
  <2>1. at[t].pc # "idle" /\ at["worker"].pc = "idle"
    BY <1>1 DEF Closed
  <2>2. t = "topic"
    BY <2>1 DEF Tasks
  <2>3. echoes' = echoes
    BY <2>2 DEF TaskAsks, AsksPrompt, AsksOther, AsksAgain
  <2> QED
    BY <1>1, <1>2, <2>1, <2>2, <2>3
<1>5. ASSUME NotClosed' PROVE created /\ Alone'
  <2>1. Alone
    BY <1>1, <1>5 DEF Closed
  <2>2. created
    <3> SUFFICES ASSUME ~created PROVE FALSE
      OBVIOUS
    <3>1. t = "topic" /\ at["topic"].pc = "idle"
      BY <1>4, <2>1 DEF Alone
    <3> QED
      BY <1>1, <3>1
  <2>3. ASSUME at'["worker"].op \in ClosingOps PROVE at'["topic"].pc = "idle"
    <3>1. CASE t = "topic"
      <4>1. at["worker"].op \in ClosingOps
        BY <1>1, <1>2, <2>3, <3>1
      <4>2. at["topic"].pc = "idle"
        BY <2>1, <4>1 DEF Alone
      <4> QED
        BY <1>1, <3>1, <4>1, <4>2
    <3>2. CASE t = "worker"
      <4>1. a.op \in ClosingOps
        BY <1>2, <2>3, <3>2
      <4>2. at["worker"].op \in ClosingOps \/ at["topic"].pc = "idle"
        BY <1>1, <1>5, <3>2, <4>1 DEF TaskAsks, AsksPrompt, AsksOther, AsksAgain, Sends, ClosingOps
      <4> QED
        BY <1>1, <1>2, <2>1, <3>2, <4>2 DEF Alone
    <3> QED
      BY <3>1, <3>2 DEF Tasks
  <2> QED
    BY <1>1, <2>2, <2>3 DEF Alone
<1>6. ASSUME NotClosed', at'["worker"].op = "unsubscribe" PROVE Leaving'
  <2>1. t = "worker"
    <3> SUFFICES ASSUME t = "topic" PROVE FALSE
      BY DEF Tasks
    <3>1. at["worker"].op = "unsubscribe"
      BY <1>1, <1>2, <1>6
    <3>2. at["topic"].pc = "idle"
      BY <1>1, <1>6, <3>1 DEF Closed, Alone, ClosingOps
    <3> QED
      BY <1>1, <3>1, <3>2 DEF ClosingOps
  <2>2. \A i \in DOMAIN up : up[i].by # "worker"
    BY <1>1, <2>1 DEF Waiting
  <2>3. \A i \in DOMAIN pipe : ~IsTo(pipe[i], "worker")
    BY <1>1, <2>1 DEF Waiting
  <2>4. \A i \in DOMAIN up' : up'[i].by = "worker" =>
          \A j \in DOMAIN up' : j > i => up'[j].op # "attach"
    <3> DEFINE q == [by |-> t, op |-> a.op, n |-> a.n, text |-> a.text, turn |-> a.turn]
    <3>1. up' = up \/ up' = Append(up, q)
      BY <1>1 DEF Asking
    <3> HIDE DEF q
    <3>2. CASE up' = up
      BY <2>2, <3>2
    <3>3. CASE up' = Append(up, q)
      <4>1. \A i \in DOMAIN up' : i \in 1 .. Len(up) + 1
        BY <1>1, <3>3
      <4>2. \A i \in DOMAIN up' : up'[i].by = "worker" => i = Len(up) + 1
        BY <1>1, <2>2, <3>3
      <4>3. Len(up) \in Nat
        BY <1>1
      <4>4. \A i, j \in DOMAIN up' : up'[i].by = "worker" => ~(j > i)
        BY <4>1, <4>2, <4>3
      <4> QED
        BY <4>4
    <3> QED
      BY <3>1, <3>2, <3>3
  <2>5. \A i \in DOMAIN pipe' : ~IsTo(pipe'[i], "worker")
    BY <1>1, <2>3
  <2>6. at'["worker"].pc # "answered"
    BY <1>2, <2>1
  <2> QED
    BY <2>4, <2>5, <2>6 DEF Leaving
<1>7. at'["worker"].op # "unsubscribe" => Leaving'
  BY DEF Leaving
<1>8. ASSUME NotClosed' PROVE Gone'
  BY <1>1, <1>5, <1>8 DEF Gone
<1>9. ~created' => echoes' = {} /\ at'["worker"].pc = "idle"
  BY <1>1, <1>4 DEF Closed
<1> QED
  BY <1>3, <1>5, <1>6, <1>7, <1>8, <1>9 DEF Closed

\* A call ends.  When the last one has, what the bridge closed is settled.
LEMMA ClosedEnds ==
  ASSUME Shape, Balanced, Closed, NEW t \in Tasks, TaskEnds(t)
  PROVE  Closed'
<1>1. /\ at \in [Tasks -> Call(prompts)] /\ "worker" \in Tasks /\ "topic" \in Tasks
      /\ UNCHANGED <<up, pipe, link, ran, prompts, thread, debt>>
      /\ (NotClosed' => NotClosed)
      /\ at[t].pc \in {"answered", "failed", "error", "overloaded"}
      /\ \A u \in Tasks : u # t => at'[u] = at[u]
      /\ \/ at'[t] = Idle
         \/ at'[t].op = at[t].op /\ at'[t].pc = "error"
  <2>1. /\ at \in [Tasks -> Call(prompts)] /\ "worker" \in Tasks /\ "topic" \in Tasks
        /\ UNCHANGED <<up, pipe, link, ran, prompts, thread, debt>>
        /\ (NotClosed' => NotClosed)
        /\ at[t].pc \in {"answered", "failed", "error", "overloaded"}
    BY DEF Shape, Tasks, TaskEnds
  <2>2. CASE at' = [at EXCEPT ![t] = Idle]
    BY <2>1, <2>2
  <2>3. CASE at' = Become(t, "error")
    BY <2>1, <2>3 DEF Become, Call, Doing
  <2> QED
    BY <2>1, <2>2, <2>3 DEF TaskEnds
<1>2. Idle.op = None /\ Idle.pc = "idle" /\ None \notin ClosingOps /\ None # "unsubscribe"
  BY DEF Idle, None, ClosingOps
<1>3. at'["topic"].op \notin ClosingOps
  BY <1>1, <1>2 DEF Closed
<1>4. CASE Unsubscribed(t)
  <2>1. t = "worker" /\ at["worker"].op = "unsubscribe" /\ at["worker"].pc = "answered"
    BY <1>4 DEF Unsubscribed, InTurn, Answered, Closed, ClosingOps, Tasks
  <2>2. /\ echoes' = {} /\ slipped' = slipped \union {e.text : e \in echoes}
        /\ at' = [at EXCEPT ![t] = Idle] /\ created' = FALSE
    BY <1>4 DEF Unsubscribed, NoEchoes, Finish
  <2>3. at'["worker"] = Idle /\ at'["topic"] = at["topic"]
    BY <1>1, <2>1, <2>2
  <2>4. ASSUME NotClosed' PROVE Alone' /\ Leaving' /\ Gone'
    <3>1. /\ at["topic"].pc = "idle" /\ Over /\ ~ItemAfter(0)
      BY <1>1, <2>1, <2>4 DEF Closed, Alone, Leaving, ClosingOps
    <3>2. Over' /\ ~ItemAfter(0)'
      BY <1>1, <3>1 DEF Over, ItemAfter
    <3>3. ASSUME NEW x \in Texts \ slipped' PROVE debt'[x] = 0
      <4>1. CASE ~created
        BY <1>1, <2>1, <2>4, <4>1 DEF Closed
      <4>2. CASE created
        <5>1. BalanceOf(x)
          BY <2>2, <4>2 DEF Balanced
        <5>2. Named(x) = {}
          BY <2>2 DEF Named
        <5>3. ASSUME NEW n PROVE ~Hears(pipe, n, x)
          <6>1. \A i \in DOMAIN pipe : i > 0
            <7>1. pipe \in Seq(Frames(prompts))
              BY DEF Shape
            <7> QED
              BY <7>1
          <6> QED
            BY <3>1, <6>1 DEF ItemAfter, Hears
        <5>4. Coming(x) = {}
          BY <2>1, <5>3 DEF Coming, Pending, Open, Sends
        <5>5. Cardinality(Named(x)) = 0 /\ Cardinality(Coming(x)) = 0
          BY <5>2, <5>4, FS_EmptySet
        <5> QED
          BY <1>1, <5>1, <5>5 DEF BalanceOf
      <4> QED
        BY <4>1, <4>2
    <3> QED
      BY <1>2, <2>3, <3>1, <3>2, <3>3 DEF Alone, Leaving, Gone
  <2> QED
    BY <1>2, <1>3, <2>2, <2>3, <2>4 DEF Closed
<1>5. CASE ~Unsubscribed(t)
  <2>1. created' = created /\ echoes' \subseteq echoes /\ slipped \subseteq slipped'
    BY <1>5 DEF TaskEnds, Keeps, SendFails, Forgotten, view
  <2>2. ~created' => echoes' = {} /\ at'["worker"].pc = "idle"
    <3> SUFFICES ASSUME ~created PROVE echoes' = {} /\ at'["worker"].pc = "idle"
      BY <2>1
    <3>1. at["worker"].pc = "idle" /\ echoes = {}
      BY DEF Closed
    <3>2. t # "worker"
      BY <1>1, <3>1
    <3> QED
      BY <1>1, <2>1, <3>1, <3>2
  <2>3. ASSUME NotClosed' PROVE Alone' /\ Leaving' /\ Gone'
    <3>1. Alone /\ Leaving /\ Gone
      BY <1>1, <2>3 DEF Closed
    <3>2. ~created \/ at["worker"].op \in ClosingOps => t = "worker"
      BY <1>1, <3>1 DEF Alone, Tasks
    <3>3. /\ at'["worker"].op \in ClosingOps => at["worker"].op = at'["worker"].op
          /\ at'["worker"].pc = "answered" => at["worker"].pc = "answered" 
      BY <1>1, <1>2
    <3>4. Alone'
      BY <1>1, <2>1, <3>1, <3>2, <3>3 DEF Alone, Tasks
    <3>5. Over' = Over /\ \A k : ItemAfter(k)' = ItemAfter(k)
      BY <1>1 DEF Over, ItemAfter
    <3>6. Gone'
      BY <1>1, <2>1, <3>1, <3>5 DEF Gone
    <3>7. Leaving'
      <4> SUFFICES ASSUME at'["worker"].op = "unsubscribe" PROVE Leaving'
        BY DEF Leaving
      <4>1. at["worker"].op = "unsubscribe"
        BY <3>3 DEF ClosingOps
      <4>2. \A i \in DOMAIN up' : up'[i].by = "worker" =>
              \A j \in DOMAIN up' : j > i => up'[j].op # "attach"
        BY <1>1, <3>1, <4>1 DEF Leaving
      <4>3. \A i \in DOMAIN pipe' : IsTo(pipe'[i], "worker") /\ pipe'[i].kind = "result" =>
              Over' /\ ~ItemAfter(i)'
        BY <1>1, <3>1, <3>5, <4>1 DEF Leaving
      <4>4. at'["worker"].pc = "answered" => Over' /\ ~ItemAfter(0)'
        BY <3>1, <3>3, <3>5, <4>1 DEF Leaving
      <4> QED
        BY <4>2, <4>3, <4>4 DEF Leaving
    <3> QED
      BY <3>4, <3>6, <3>7
  <2> QED
    BY <1>3, <2>2, <2>3 DEF Closed
<1> QED
  BY <1>4, <1>5

\* The reader comes to the answer, behind which there is no prompt.
LEMMA ClosedReads ==
  ASSUME Shape, Waiting, Closed, Handle
  PROVE  Closed'
<1> DEFINE f == Head(pipe)
<1>1. /\ pipe # << >> /\ pipe' = Tail(pipe) /\ pipe \in Seq(Frames(prompts))
      /\ UNCHANGED <<slipped, created, thread, up>> /\ (NotClosed' => NotClosed)
      /\ echoes' \subseteq echoes /\ (f.kind # "item" => debt' = debt)
  BY DEF Handle, Answer, TurnStarted, TurnCompleted, ChildUpdate, UserMessage, Consume,
         ServerRequest, RequestResolved, server, view, ledger, Shape, NotClosed
<1>2. /\ 1 \in DOMAIN pipe /\ pipe[1] = f
      /\ \A i \in DOMAIN pipe' : i + 1 \in DOMAIN pipe /\ pipe'[i] = pipe[i + 1] /\ i \in Nat
  <2>1. pipe' \in Seq(Frames(prompts))
    BY <1>1
  <2>2. \A i \in DOMAIN pipe' : i \in Nat
    BY <2>1
  <2> QED
    BY <1>1, <2>2, Popped
<1>3. \A t \in Tasks :
        /\ at'[t].op = at[t].op
        /\ ~IsTo(f, t) => at'[t].pc = at[t].pc
        /\ IsTo(f, t) => at[t].pc = "asked"
                         /\ at'[t].pc = IF f.kind = "result" THEN "answered" ELSE f.kind
  <2>1. \A t \in Tasks : IsTo(f, t) => at[t].pc = "asked"
    BY <1>2 DEF Waiting
  <2> QED
    BY <2>1, ReaderReads
<1>31. \A t : IsTo(f, t) => f.kind \in {"result", "error", "overloaded"}
  <2>1. f \in Frames(prompts)
    BY <1>1, <1>2
  <2> QED
    BY <2>1, FrameKinds DEF Frames, IsTo
<1> HIDE DEF f
<1>4. \A k \in Nat : ItemAfter(k)' => ItemAfter(k + 1)
  <2> SUFFICES ASSUME NEW k \in Nat, NEW j \in DOMAIN pipe', j > k, pipe'[j].kind = "item"
               PROVE  ItemAfter(k + 1)
    BY DEF ItemAfter
  <2>1. j + 1 > k + 1 /\ j + 1 \in DOMAIN pipe /\ pipe[j + 1].kind = "item"
    BY <1>2
  <2> QED
    BY <2>1 DEF ItemAfter
<1>5. ItemAfter(0)' => ItemAfter(0)
  <2> SUFFICES ASSUME NEW j \in DOMAIN pipe', j > 0, pipe'[j].kind = "item"
               PROVE  ItemAfter(0)
    BY DEF ItemAfter
  <2>1. j + 1 > 0 /\ j + 1 \in DOMAIN pipe /\ pipe[j + 1].kind = "item"
    BY <1>2
  <2> QED
    BY <2>1 DEF ItemAfter
<1>6. Over' = Over /\ "worker" \in Tasks /\ "topic" \in Tasks
  BY <1>1 DEF Over, Tasks
<1>7. at'["topic"].op \notin ClosingOps
  BY <1>3, <1>6 DEF Closed
<1>8. ~created' => echoes' = {} /\ at'["worker"].pc = "idle"
  BY <1>1, <1>3, <1>6 DEF Closed
<1>9. ASSUME NotClosed' PROVE Alone' /\ Leaving' /\ Gone'
  <2>1. Alone /\ Leaving /\ Gone
    BY <1>1, <1>9 DEF Closed
  <2>2. Alone'
    BY <1>1, <1>3, <1>6, <2>1 DEF Alone
  <2>3. Gone'
    <3> SUFFICES ASSUME ~created PROVE Over' /\ ~ItemAfter(0)' /\ \A x \in Texts \ slipped' : debt'[x] = 0
      BY <1>1 DEF Gone
    <3>1. Over /\ ~ItemAfter(0) /\ \A x \in Texts \ slipped : debt[x] = 0
      BY <2>1 DEF Gone
    <3>2. f.kind # "item"
      BY <1>2, <3>1 DEF ItemAfter
    <3> QED
      BY <1>1, <1>5, <1>6, <3>1, <3>2
  <2>4. Leaving'
    <3> SUFFICES ASSUME at'["worker"].op = "unsubscribe" PROVE Leaving'
      BY DEF Leaving
    <3>1. at["worker"].op = "unsubscribe"
      BY <1>3, <1>6
    <3>2. \A i \in DOMAIN up' : up'[i].by = "worker" =>
            \A j \in DOMAIN up' : j > i => up'[j].op # "attach"
      BY <1>1, <2>1, <3>1 DEF Leaving
    <3>3. ASSUME NEW i \in DOMAIN pipe', IsTo(pipe'[i], "worker"), pipe'[i].kind = "result"
          PROVE  Over' /\ ~ItemAfter(i)'
      BY <1>2, <1>4, <1>6, <2>1, <3>1, <3>3 DEF Leaving
    <3>4. ASSUME at'["worker"].pc = "answered" PROVE Over' /\ ~ItemAfter(0)'
      <4>1. CASE IsTo(f, "worker")
        <5>1. f.kind = "result"
          BY <1>3, <1>6, <1>31, <3>4, <4>1
        <5>2. Over /\ ~ItemAfter(1)
          BY <1>2, <2>1, <3>1, <4>1, <5>1 DEF Leaving
        <5>3. ItemAfter(0)' => ItemAfter(1)
          BY <1>4
        <5> QED
          BY <1>6, <5>2, <5>3
      <4>2. CASE ~IsTo(f, "worker")
        BY <1>3, <1>5, <1>6, <2>1, <3>1, <3>4, <4>2 DEF Leaving
      <4> QED
        BY <4>1, <4>2
    <3> QED
      BY <3>2, <3>3, <3>4 DEF Leaving
  <2> QED
    BY <2>2, <2>3, <2>4
<1> QED
  BY <1>7, <1>8, <1>9 DEF Closed

LEMMA ClosedKept ==
  ASSUME CodexAssumption, Shape, Waiting, Balanced, Closed, [Next]_vars
  PROVE  Closed'
<1>1. /\ prompts \in Nat /\ at \in [Tasks -> Call(prompts)] /\ up \in Seq(Sending(prompts))
      /\ pipe \in Seq(Frames(prompts)) /\ "worker" \in Tasks /\ debt \in [Texts -> Int]
  BY DEF Shape, Tasks
<1>2. CASE Delegate \/ AskApproval \/ TuiApproves \/ EndTurn
  <2>1. PICK w \in Seq(News(prompts)) : Announces(w)
    BY <1>2, TheyAnnounce
  <2>2. /\ pipe' = pipe \o w /\ NoItems(w) /\ thread'.subscribed = thread.subscribed
        /\ UNCHANGED <<at, up, created, echoes, raced, slipped, debt>>
    BY <2>1 DEF Announces, Outside, view
  <2> QED
    BY <1>1, <2>2, ClosedNews
<1>3. ASSUME NEW x \in Texts, Type(x) PROVE Closed'
  <2>1. PICK w \in Seq(News(prompts')) : Types(x, w)
    BY <1>3, TheyType
  <2>2. /\ pipe' = pipe \o w /\ thread'.subscribed = thread.subscribed
        /\ UNCHANGED <<at, up, created, echoes, raced, slipped>> /\ prompts' = prompts + 1
        /\ ~thread.subscribed => NoItems(w) /\ debt' = debt
    BY <2>1 DEF Types, Outside, view, NoItems
  <2>3. pipe \in Seq(Frames(prompts'))
    <3>1. Frames(prompts) \subseteq Frames(prompts')
      BY <1>1, <2>2, Grown
    <3> QED
      BY <1>1, <3>1
  <2> QED
    BY <2>2, <2>3, ClosedNews
<1>4. CASE ServerTakes
  <2>1. UNCHANGED <<at, prompts, created, echoes, raced, debt>>
    BY <1>4 DEF ServerTakes, view
  <2>2. PICK q \in Sending(prompts) : \E w \in Seq(News(prompts)) :
            Approved(q, w) \/ \E a \in Answers(prompts) : Serves(q, w, a)
    BY <1>4, <2>1, ServerServes
  <2>3. PICK w \in Seq(News(prompts)) :
            Approved(q, w) \/ \E a \in Answers(prompts) : Serves(q, w, a)
    BY <2>2
  <2> QED
    BY <2>1, <2>3, ClosedServed
<1>5. CASE Drop
  <2>1. /\ up' = << >> /\ pipe' = << >> /\ slipped \subseteq slipped' /\ ~thread'.subscribed
        /\ UNCHANGED <<created, echoes>> /\ (NotClosed' => NotClosed)
        /\ \A x \in Texts : debt'[x] = 0
    <3>1. /\ up' = << >> /\ pipe' = << >> /\ slipped \subseteq slipped'
          /\ thread' = [thread EXCEPT !.subscribed = FALSE]
          /\ UNCHANGED <<created, echoes>> /\ (NotClosed' => NotClosed)
          /\ debt' = [x \in Texts |-> 0]
      BY <1>5 DEF Drop, view, NotClosed
    <3>2. ~thread'.subscribed
      BY <3>1 DEF Shape, Thread
    <3> QED
      BY <3>1, <3>2
  <2>2. DOMAIN up' = {} /\ DOMAIN pipe' = {}
    BY <2>1
  <2>3. \A t \in Tasks : /\ at'[t].op = at[t].op
                         /\ \/ at'[t].pc = at[t].pc
                            \/ at[t].pc \in {"asked", "connecting"} /\ at'[t].pc = "failed"
    BY <1>5, Dropped
  <2> QED
    BY <2>1, <2>2, <2>3, ClosedSame
<1>6. ASSUME NEW t \in Tasks, Dial(t) \/ DialFails(t) \/ TimesOut(t) PROVE Closed'
  <2>1. /\ UNCHANGED <<thread, slipped, echoes, debt, created, raced>>
        /\ DOMAIN up' = DOMAIN up /\ DOMAIN pipe' = DOMAIN pipe
        /\ \A i \in DOMAIN up : /\ up'[i].op = up[i].op
                                /\ (up'[i].by = "worker" => up[i].by = "worker")
        /\ \A i \in DOMAIN pipe : \/ pipe'[i] = pipe[i]
                                  \/ /\ pipe[i].kind # "item" /\ pipe'[i].kind # "item"
                                     /\ ~IsTo(pipe'[i], "worker")
        /\ \A u \in Tasks : /\ at'[u].op = at[u].op
                            /\ \/ at'[u].pc = at[u].pc
                               \/ at[u].pc \in {"asked", "connecting"} /\ at'[u].pc = "failed"
    BY <1>1, <1>6, GivenUp DEF server, view, ledger
  <2> QED
    BY <2>1, ClosedSame DEF NotClosed
<1>7. CASE Handle
  BY <1>7, ClosedReads
<1>8. CASE EchoExpires
  <2>1. /\ UNCHANGED <<up, pipe, at, thread, debt, created, raced>> /\ echoes' \subseteq echoes
        /\ slipped \subseteq slipped'
    BY <1>8 DEF EchoExpires, server, view
  <2> QED
    BY <2>1, ClosedSame DEF NotClosed
<1>9. ASSUME NEW r \in requests, Approve(r) PROVE Closed'
  <2>1. /\ UNCHANGED <<pipe, at, thread, slipped, echoes, debt, created, raced>>
        /\ \A i \in DOMAIN up' : \/ i \in DOMAIN up /\ up'[i] = up[i]
                                 \/ up'[i].op = "approve" /\ up'[i].by = None
    BY <1>9, ApprovalSends DEF server, ledger
  <2>2. None # "worker"
    BY DEF None
  <2> QED
    BY <2>1, <2>2, ClosedSame DEF NotClosed
<1>10. CASE TaskStep
  BY <1>8, <1>9, <1>10, TasksAskOrEnd, ClosedAsks, ClosedEnds
<1>11. ASSUME NEW t \in Tasks, Greeted(t) \/ Connected(t) PROVE Closed'
  BY <1>11, LinkAsks, ClosedAsks
<1>12. CASE UNCHANGED vars
  <2>1. UNCHANGED <<up, pipe, at, thread, slipped, echoes, debt, created, raced>>
    BY <1>12 DEF vars, server, line, view, ledger
  <2> QED
    BY <2>1, ClosedSame DEF NotClosed
<1> QED
  BY <1>2, <1>3, <1>4, <1>5, <1>6, <1>7, <1>10, <1>11, <1>12, NextSteps

-----------------------------------------------------------------------------
(* The theorems                                                            *)

IInv == Shape /\ Waiting /\ Runs /\ Known /\ Balanced /\ Closed

LEMMA Initially == ASSUME CodexAssumption, Init PROVE IInv
<1>1. /\ \E tui \in BOOLEAN, habit \in {"asks", "delegates"} :
           thread = [turn |-> 0, child |-> None, ask |-> 0, asked |-> 0,
                     tui |-> tui, habit |-> habit, subscribed |-> FALSE]
      /\ prompts = 0 /\ ran = [n \in 1..MaxPrompts |-> 0]
      /\ up = << >> /\ pipe = << >> /\ link = "down" /\ holder = None /\ ready = FALSE
      /\ at = [t \in Tasks |-> Idle]
      /\ active = 0 /\ child = None /\ seen = {} /\ requests = {} /\ created = TRUE
      /\ echoes = {} /\ debt = [x \in Texts |-> 0] /\ slipped = {} /\ raced = {}
  BY DEF Init
<1>2. 0 \in Turns(0) /\ prompts \in 0 .. MaxPrompts /\ MaxPrompts \in Nat
  BY <1>1 DEF Turns, CodexAssumption
<1>3. Idle \in Call(0)
  BY <1>2 DEF Idle, Call, Doing, Told, Ops, Words, Sends, None
<1>4. thread \in Thread(0)
  BY <1>1, <1>2 DEF Thread, Words
<1>5. up \in Seq(Sending(0)) /\ pipe \in Seq(Frames(0)) /\ DOMAIN up = {} /\ DOMAIN pipe = {}
  BY <1>1
<1>6. Shape
  <2>1. /\ thread \in Thread(prompts) /\ up \in Seq(Sending(prompts))
        /\ pipe \in Seq(Frames(prompts)) /\ active \in Turns(prompts)
    BY <1>1, <1>2, <1>4, <1>5
  <2>2. at \in [Tasks -> Call(prompts)]
    BY <1>1, <1>3
  <2>3. ran \in [1 .. MaxPrompts -> Nat] /\ debt \in [Texts -> Int]
    BY <1>1
  <2> QED
    BY <1>1, <1>2, <2>1, <2>2, <2>3 DEF Shape, Callers
<1>7. \A t \in Tasks : at[t].pc = "idle" /\ at[t].op \notin Sends
  BY <1>1 DEF Idle, Sends, None
<1>8. Waiting
  BY <1>5, <1>7 DEF Waiting
<1>9. Runs
  BY <1>1, <1>5, <1>7 DEF Runs, Tasks
<1>10. Known
  <2>1. \A n, x : ~Hears(pipe, n, x)
    BY <1>5 DEF Hears
  <2>2. OneText /\ SendsKnown /\ EchoesKnown
    BY <1>1, <1>5, <2>1 DEF OneText, SendsKnown, EchoesKnown
  <2>3. WorkerKnown
    BY <1>7 DEF WorkerKnown, Tasks
  <2> QED
    BY <2>2, <2>3 DEF Known
<1>11. Balanced
  <2> SUFFICES ASSUME NEW x \in Texts PROVE BalanceOf(x)
    BY DEF Balanced
  <2>1. Coming(x) = {} /\ Named(x) = {}
    BY <1>1, <1>5, <1>7 DEF Coming, Pending, Hears, Open, Named, Tasks
  <2> QED
    BY <1>1, <2>1, FS_EmptySet DEF BalanceOf
<1>12. Closed
  BY <1>1 DEF Closed, Alone, Leaving, Gone, Idle, Tasks, ClosingOps, None
<1> QED
  BY <1>6, <1>8, <1>9, <1>10, <1>11, <1>12 DEF IInv

LEMMA Invariance == ASSUME CodexAssumption PROVE Spec => []IInv
<1>1. Init => IInv
  BY Initially
<1>2. IInv /\ [Next]_vars => IInv'
  BY ShapeKept, WaitingKept, RunsKept, KnownKept, BalanceKept, ClosedKept DEF IInv
<1> QED
  BY <1>1, <1>2, PTL DEF Spec

\* A task that waits for an answer waits on a connection that lives, where its
\* request or the answer to it is on its way (_request_once, _reader and
\* _fail_pending), and the backend calls itself ready exactly while the
\* handshaken connection lives.
THEOREM NobodyWaits == ASSUME CodexAssumption PROVE Spec => []NobodyWaitsInVain
<1>1. IInv => NobodyWaitsInVain
  BY DEF IInv, Shape, Waiting, IsTo, NobodyWaitsInVain
<1> QED
  BY <1>1, Invariance, PTL

\* A prompt is run at most once, however often _request sends it again when
\* the server is overloaded and whatever is lost, refused or timed out.
THEOREM PromptsRunOnce == ASSUME CodexAssumption PROVE Spec => []PromptRunsOnce
<1>1. IInv => PromptRunsOnce
  BY DEF IInv, Runs, PromptRunsOnce
<1> QED
  BY <1>1, Invariance, PTL

LEMMA SettledEchoes ==
  ASSUME IInv, Quiet, pipe = << >>, NEW x \in Texts \ slipped
  PROVE  /\ \A e \in echoes : e.text # x
         /\ "closed" \notin raced => debt[x] = 0
<1>1. CASE created
  <2>1. BalanceOf(x)
    BY <1>1 DEF IInv, Balanced
  <2>2. Coming(x) = {}
    BY DEF Coming, Pending, Hears, Open, Quiet, Idle, Tasks, Sends, None
  <2>3. /\ IsFiniteSet(Named(x)) /\ Cardinality(Named(x)) \in Nat
        /\ Cardinality(Coming(x)) = 0 /\ debt[x] \in Nat
    BY <2>1, <2>2, BothFinite, FS_EmptySet DEF IInv, BalanceOf
  <2>4. debt[x] = 0 /\ Cardinality(Named(x)) = 0
    BY <2>1, <2>3 DEF BalanceOf
  <2>5. Named(x) = {}
    BY <2>3, <2>4, FS_EmptySet
  <2>6. \A e \in echoes : e.n \in Nat
    BY DEF IInv, Shape, Given
  <2> QED
    BY <2>4, <2>5, <2>6 DEF Named
<1>2. CASE ~created
  BY <1>2 DEF IInv, Closed, Gone, NotClosed
<1> QED
  BY <1>1, <1>2 DEF IInv, Shape

\* When all has been read, every prompt of another client was reported once and
\* none of the bridge's own was, and no echo is left to swallow a later prompt,
\* but for texts whose echo was lost or given up (_remember_prompt_echo,
\* _consume_prompt_echo, _forget_prompt_echo).
THEOREM EchoesAreMatched == ASSUME CodexAssumption PROVE Spec => []EchoesMatched
<1>1. ASSUME IInv PROVE EchoesMatched
  <2>1. OthersPromptsReportedOnce
    BY <1>1, SettledEchoes DEF OthersPromptsReportedOnce
  <2>2. NoEchoLeftBehind
    <3>1. \A e \in echoes : e.text \in Texts
      BY <1>1 DEF IInv, Shape
    <3> QED
      BY <1>1, <3>1, SettledEchoes DEF NoEchoLeftBehind
  <2> QED
    BY <2>1, <2>2 DEF EchoesMatched
<1> QED
  BY <1>1, Invariance, PTL
=============================================================================
