---------------------------- MODULE PromptQueue ----------------------------
(***************************************************************************)
(* What the bridge promises of its durable prompt queues: one FIFO list    *)
(* per (channel, session) pair, bounded by the configured limit, that an   *)
(* owner may edit, reorder, thin out and clear.  Positions, rows and SQL   *)
(* do not appear here; QueueStore.tla implements this module.              *)
(***************************************************************************)
EXTENDS Naturals, Sequences, SequencesExt

CONSTANTS
    Items,   \* queue item ids (action UUIDs, or the iid a client chose)
    Lists,   \* (channel, session) pairs
    Texts,   \* prompt texts
    Limit    \* bridge.queue_limit

VARIABLE queue   \* queue[l] is the list l, head first

QueuedItem == [id : Items, text : Texts]

\* The ids of list l, and the ids of every list.
IdsOf(l)   == {queue[l][i].id : i \in DOMAIN queue[l]}
AllIds     == UNION {IdsOf(l) : l \in Lists}

Init == queue = [l \in Lists |-> << >>]

Append1(l, id, text) ==
    /\ id \notin AllIds
    /\ Len(queue[l]) < Limit
    /\ queue' = [queue EXCEPT ![l] = Append(@, [id |-> id, text |-> text])]

Retext(l, id, text) ==
    \E i \in DOMAIN queue[l] :
        /\ queue[l][i].id = id
        /\ queue' = [queue EXCEPT ![l][i].text = text]

Drop(l, id) ==
    \E i \in DOMAIN queue[l] :
        /\ queue[l][i].id = id
        /\ queue' = [queue EXCEPT ![l] = RemoveAt(@, i)]

\* The item is taken out and put back at the (zero-based) place asked for,
\* or at the end when the list is shorter.
Reorder(l, id, place) ==
    \E i \in DOMAIN queue[l] :
        /\ queue[l][i].id = id
        /\ LET rest == RemoveAt(queue[l], i)
               at   == (IF place < Len(rest) THEN place ELSE Len(rest)) + 1
           IN  queue' = [queue EXCEPT ![l] = InsertAt(rest, at, queue[l][i])]

Empty(l) == queue' = [queue EXCEPT ![l] = << >>]

Next ==
    \E l \in Lists :
        \/ Empty(l)
        \/ \E id \in Items :
              \/ Drop(l, id)
              \/ \E text \in Texts : Append1(l, id, text) \/ Retext(l, id, text)
              \/ \E place \in 0..Limit : Reorder(l, id, place)

Spec == Init /\ [][Next]_queue
=============================================================================
