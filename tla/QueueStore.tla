----------------------------- MODULE QueueStore -----------------------------
(***************************************************************************)
(* The `queue` table of agentwire's SQLite store (state.py), the durable   *)
(* home of prompts that wait for a busy session.                           *)
(*                                                                         *)
(* A row names its list (the channel and session together), its text and   *)
(* an explicit position; UNIQUE(channel, session_id, position) and the     *)
(* primary key are enforced row by row while a statement runs.  SQLite     *)
(* visits rows in insertion (rowid) order, which the table remembers here  *)
(* as the relation `older`.  Every operation is one transaction under the  *)
(* store's lock, so it is one step; a constraint error rolls it back.      *)
(***************************************************************************)
EXTENDS Naturals, FiniteSets

CONSTANTS
    Items,   \* queue item ids: the table's primary key
    Lists,   \* (channel, session) pairs
    Texts,   \* prompt texts
    Limit    \* bridge.queue_limit, the bound given to enqueue

LimitBounds == Limit \in Nat \ {0}

VARIABLES
    rows,    \* the table: a set of [id, list, position, text]
    older,   \* <<a, b>>: the row of id a was inserted before the row of id b
    outcome  \* what the last call returned or raised

vars == <<rows, older, outcome>>

Row == [id : Items, list : Lists, position : Nat, text : Texts]

\* "ok": done; "limit": ValueError, the queue is full; "unknown": None or
\* ValueError, no such item; "integrity": sqlite3.IntegrityError.
Outcomes == {"ok", "limit", "unknown", "integrity"}

RowsOf(l)   == {r \in rows : r.list = l}
RowOf(id)   == CHOOSE r \in rows : r.id = id
Known(id)   == \E r \in rows : r.id = id
Positions(l) == {r.position : r \in RowsOf(l)}

\* The table is left as it was and the caller sees result.
Refuse(result) == outcome' = result /\ UNCHANGED <<rows, older>>
-----------------------------------------------------------------------------
Init == rows = {} /\ older = {} /\ outcome = "ok"

\* Mutant of Enqueue: an id that is still queued is accepted again.
EnqueueUnkeyed(id, l, text) ==
    LET count == Cardinality(RowsOf(l))
    IN  IF count >= Limit THEN Refuse("limit")
        ELSE /\ rows' = rows \cup {[id |-> id, list |-> l, position |-> count, text |-> text]}
             /\ older' = older \cup {<<r.id, id>> : r \in rows}
             /\ outcome' = "ok"

(***************************************************************************)
(* enqueue: the position of a new row is the number of rows in its list.   *)
(***************************************************************************)
Enqueue(id, l, text) ==
    LET count == Cardinality(RowsOf(l))
    IN  IF count >= Limit THEN Refuse("limit")
        ELSE IF Known(id) \/ count \in Positions(l) THEN Refuse("integrity")
        ELSE /\ rows' = rows \cup {[id |-> id, list |-> l, position |-> count, text |-> text]}
             /\ older' = older \cup {<<r.id, id>> : r \in rows}
             /\ outcome' = "ok"

EditQueue(id, text) ==
    IF ~Known(id) THEN Refuse("unknown")
    ELSE /\ rows' = {IF r.id = id THEN [r EXCEPT !.text = text] ELSE r : r \in rows}
         /\ outcome' = "ok"
         /\ UNCHANGED older

(***************************************************************************)
(* move_queue: ids in position order without the moved one, the moved one  *)
(* inserted at the clamped place, every position rewritten.  Positions are *)
(* first raised by 1000000, so the rewriting never meets an old value.     *)
(***************************************************************************)
\* Mutant of Place: the moved row trades places with the one at the target.
PlaceSwapping(r, id, place) ==
    LET last == Cardinality(RowsOf(r.list)) - 1
        at   == IF place < last THEN place ELSE last
    IN  IF r.id = id THEN at
        ELSE IF r.position = at THEN RowOf(id).position ELSE r.position

Place(r, id, place) ==
    LET others == {s \in RowsOf(r.list) : s.id # id}
        rank   == Cardinality({s \in others : s.position < r.position})
        at     == IF place < Cardinality(others) THEN place ELSE Cardinality(others)
    IN  IF r.id = id THEN at
        ELSE IF rank < at THEN rank ELSE rank + 1

MoveQueue(id, place) ==
    IF ~Known(id) THEN Refuse("unknown")
    ELSE /\ rows' = {IF r.list = RowOf(id).list
                       THEN [r EXCEPT !.position = Place(r, id, place)]
                       ELSE r : r \in rows}
         /\ outcome' = "ok"
         /\ UNCHANGED older

(***************************************************************************)
(* delete_queue: the row goes, then UPDATE ... SET position = position - 1 *)
(* moves the rows behind it forward one row at a time, oldest row first.   *)
(* A row that would land on a position a younger row still holds violates  *)
(* the UNIQUE constraint, and the whole transaction is rolled back.        *)
(***************************************************************************)
ShiftCollides(gone) ==
    \E r, s \in RowsOf(gone.list) \ {gone} :
        /\ <<r.id, s.id>> \in older
        /\ r.position > gone.position
        /\ r.position = s.position + 1

\* Mutant of Shifted: the rows behind the deleted one keep their positions.
Unshifted(r, gone) == r

Shifted(r, gone) ==
    IF r.list = gone.list /\ r.position > gone.position
    THEN [r EXCEPT !.position = @ - 1]
    ELSE r

DeleteQueue(id) ==
    IF ~Known(id) THEN Refuse("unknown")
    ELSE LET gone == RowOf(id) IN
         IF ShiftCollides(gone) THEN Refuse("integrity")
         ELSE /\ rows' = {Shifted(r, gone) : r \in rows \ {gone}}
              /\ older' = {p \in older : id \notin {p[1], p[2]}}
              /\ outcome' = "ok"

ClearQueue(l) ==
    /\ rows' = rows \ RowsOf(l)
    /\ older' = {p \in older : \A r \in RowsOf(l) : r.id \notin {p[1], p[2]}}
    /\ outcome' = "ok"
-----------------------------------------------------------------------------
Next ==
    \/ \E id \in Items, l \in Lists, text \in Texts : Enqueue(id, l, text)
    \/ \E id \in Items, text \in Texts : EditQueue(id, text)
    \/ \E id \in Items, place \in 0..Limit : MoveQueue(id, place)
    \/ \E id \in Items : DeleteQueue(id)
    \/ \E l \in Lists : ClearQueue(l)

Spec == Init /\ [][Next]_vars
-----------------------------------------------------------------------------
\* Type invariant; ids are unique (the primary key) and `older` relates the
\* rows of the table and nothing else.
TypeOK ==
    /\ rows \subseteq Row
    /\ \A r, s \in rows : r.id = s.id => r = s
    /\ older \subseteq {<<r.id, s.id>> : r, s \in rows}
    /\ outcome \in Outcomes

\* Positions are dense: a list of n prompts occupies exactly 0..n-1, so ORDER
\* BY position is total and the head is never ambiguous.  _enqueue relies on
\* it (the next free position is the row count), and _delete_queue and
\* _move_queue renumber without looking for gaps.
DensePositions ==
    \A l \in Lists : Positions(l) = 0 .. (Cardinality(RowsOf(l)) - 1)

\* An item that exists is gone after _delete_queue, whatever moves came before:
\* what the bridge has delivered, or the owner deleted, is not left behind.
DeleteRemoves ==
    [][\A id \in Items : DeleteQueue(id) => ~\E r \in rows' : r.id = id]_vars

\* The list a reader sees (_list_queue, ORDER BY position).
ListQueue(l) ==
    [i \in 1 .. Cardinality(RowsOf(l)) |->
        LET row == CHOOSE r \in RowsOf(l) :
                     Cardinality({s \in RowsOf(l) : s.position < r.position}) = i - 1
        IN  [id |-> row.id, text |-> row.text]]

Promise == INSTANCE PromptQueue WITH queue <- [l \in Lists |-> ListQueue(l)]

\* Refinement: whatever _enqueue, _edit_queue, _move_queue, _delete_queue and
\* _clear_queue do to positions, a reader of any list sees one operation of an
\* ordered queue, or nothing, at every step.
KeepsPromise == Promise!Spec

\* The table is what its keys promise, and a list has no holes in it.
QueueIsDense == TypeOK /\ DensePositions
=============================================================================
