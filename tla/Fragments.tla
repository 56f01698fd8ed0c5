------------------------------ MODULE Fragments ------------------------------
(***************************************************************************)
(* Envelopes that do not fit a tag (protocol.py): fragment_envelope splits *)
(* them, compressed if that takes fewer parts, and a Reassembler puts      *)
(* together what arrives, in whatever order, number and time.              *)
(*                                                                         *)
(* A version is what was sent under an id: the digest stands for the other *)
(* metadata, which is compared with it.  Damaged stands for a chunk that   *)
(* is not the sender's.                                                    *)
(*                                                                         *)
(* External: fragments are lost, repeated, reordered and damaged, an id is *)
(* used for another envelope, and time passes.                             *)
(***************************************************************************)
EXTENDS Naturals, FiniteSets

CONSTANTS
    Versions,      \* what is sent: [id, digest, raw, packed, copies], sizes in
                   \* chunks; copies bounds how often a fragment arrives
    MaxFragments,  \* MAX_FRAGMENTS
    MaxInflight,   \* MAX_INFLIGHT_MESSAGES
    MaxBytes,      \* MAX_INFLIGHT_BYTES, in chunks
    Timeout,       \* FRAGMENT_TIMEOUT_SECONDS
    MaxTime        \* bound: clock

Ids == {v.id : v \in Versions}
Nothing == [digest |-> "none"]
Damaged == "damaged"

\* What has the same id and digest is the same (SHA-256).
FragmentsBounds ==
    /\ {MaxFragments, MaxInflight, MaxBytes, Timeout, MaxTime} \subseteq Nat
    /\ \A v \in Versions : {v.raw, v.packed, v.copies} \subseteq Nat \ {0}
    /\ \A v \in Versions : v.digest # Damaged
    /\ \A v, w \in Versions : v.id = w.id /\ v.digest = w.digest => v = w

VARIABLES
    partial,    \* Reassembler._messages
    now,        \* external: the clock
    arrived,    \* history: how often each fragment has arrived
    delivered   \* history: what was put together, and how often

vars == <<partial, now, arrived, delivered>>

\* fragment_envelope and _fragment_count: an envelope is compressed only where
\* that saves a part, and not sent at all if it takes too many.
Parts(v) == IF v.packed < v.raw THEN v.packed ELSE v.raw
Sendable == {v \in Versions : Parts(v) <= MaxFragments}
Pieces == UNION {{[v |-> v, part |-> p] : p \in 1 .. Parts(v)} : v \in Sendable}

Init ==
    /\ partial = [i \in Ids |-> Nothing] /\ now = 0
    /\ arrived = [f \in Pieces |-> 0] /\ delivered = [v \in Versions |-> 0]

\* expire.
Expired == [i \in Ids |-> IF partial[i] # Nothing /\ now - partial[i].created >= Timeout
                          THEN Nothing ELSE partial[i]]

Inflight(m) == {i \in Ids : m[i] # Nothing}

\* The memory set aside for them, chunk by chunk: their sizes added up.
Reserved(m) == UNION {{i} \X (1 .. m[i].bytes) : i \in Inflight(m)}

\* Mutant of MayOpen: only the number of messages is limited.
MayOpenAnySize(m, v) == Cardinality(Inflight(m)) < MaxInflight
\* add: a new message needs a slot and its share of the memory.
MayOpen(m, v) ==
    /\ Cardinality(Inflight(m)) < MaxInflight
    /\ Cardinality(Reserved(m)) + v.raw <= MaxBytes

Opened(v) == [digest |-> v.digest, parts |-> Parts(v), bytes |-> v.raw, created |-> now,
              chunks |-> [p \in {} |-> Damaged]]

\* Mutant of Whole: enough chunks, whosoever they are.
WholeAnyhow(m) == Cardinality(DOMAIN m.chunks) = m.parts
\* The digest is that of the chunks put together.
Whole(m) == \A p \in 1 .. m.parts : m.chunks[p] = m.digest

\* Mutant of Done: the message is kept when it is complete.
DoneKeeping(m, i, new) == [m EXCEPT ![i] = new]
Done(m, i, new) == [m EXCEPT ![i] = Nothing]

\* add, for part p of v with this chunk.  What contradicts the message it
\* belongs to ends that message.
Add(f, chunk) ==
    LET v == f.v
        m == Expired
        old == IF m[v.id] = Nothing THEN Opened(v) ELSE m[v.id]
        new == [old EXCEPT !.chunks =
                   [p \in DOMAIN old.chunks \union {f.part} |->
                        IF p = f.part THEN chunk ELSE old.chunks[p]]]
        refused == m[v.id] = Nothing /\ ~MayOpen(m, v)
        clash == \/ <<old.digest, old.parts, old.bytes>> # <<v.digest, Parts(v), v.raw>>
                 \/ f.part \in DOMAIN old.chunks /\ old.chunks[f.part] # chunk
        complete == Cardinality(DOMAIN new.chunks) = old.parts
    IN /\ partial' = IF refused THEN m
                     ELSE IF clash THEN [m EXCEPT ![v.id] = Nothing]
                     ELSE IF complete THEN Done(m, v.id, new)
                     ELSE [m EXCEPT ![v.id] = new]
       /\ delivered' = IF ~refused /\ ~clash /\ complete /\ Whole(new)
                       THEN [delivered EXCEPT ![v] = @ + 1] ELSE delivered

Arrive(f) ==
    /\ arrived[f] < f.v.copies /\ Add(f, f.v.digest)
    /\ arrived' = [arrived EXCEPT ![f] = @ + 1]
    /\ UNCHANGED now

ArriveDamaged(f) == Add(f, Damaged) /\ UNCHANGED <<now, arrived>>

Tick == now < MaxTime /\ now' = now + 1 /\ UNCHANGED <<partial, arrived, delivered>>

Next == Tick \/ \E f \in Pieces : Arrive(f) \/ ArriveDamaged(f)

Spec == Init /\ [][Next]_vars
-----------------------------------------------------------------------------
(* Properties                                                              *)

\* What is delivered was sent: every part of it arrived as it was sent, and as
\* often as it is delivered, whatever was mixed in under its id.
DeliveredWasSent ==
    \A v \in Sendable : \A p \in 1 .. Parts(v) :
        delivered[v] <= arrived[[v |-> v, part |-> p]]

\* What waits for its missing parts takes no more room than it may, and is
\* not complete: repeated fragments do not add to it.
RoomIsBounded ==
    /\ Cardinality(Inflight(partial)) <= MaxInflight
    /\ Cardinality(Reserved(partial)) <= MaxBytes
    /\ \A i \in Inflight(partial) : Cardinality(DOMAIN partial[i].chunks) < partial[i].parts

\* Fragments mixed, repeated and damaged neither forge an envelope nor fill the
\* receiver.
ReassemblyIsHonest == DeliveredWasSent /\ RoomIsBounded
=============================================================================
